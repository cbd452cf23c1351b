----------------------------- MODULE WorkerPool -----------------------------
(***************************************************************************)
(* TunarrWorkerPool: a fixed array of slots, each holding one worker       *)
(* thread; requests handed to the slots in turn; a worker that dies is     *)
(* replaced by its own exit handler.  The promise of setupWorker is the    *)
(* interesting part: start() keeps one per slot, an exit handler waits for *)
(* it before it sets a replacement up, and the promise of that replacement *)
(* is itself waited for (".then(setup).catch(setup)").                     *)
(*                                                                         *)
(* Worker threads are external: a worker starts up, replies, fails or      *)
(* exits when it likes, and one that exits before it has started exits     *)
(* with a non-zero code.  What an event leads to in the microtasks after   *)
(* it is part of the event's action.                                       *)
(***************************************************************************)
EXTENDS Integers, Sequences, FiniteSets

CONSTANTS NumSlots,      \* numWorkers
          Requests,      \* the calls of queueTask
          MaxWorkers,    \* bound: worker threads that are ever created
          MaxStarts,     \* bound: calls of start() that take effect
          MaxShutdowns   \* bound: calls of shutdown() that take effect

ASSUME WorkerPoolAssumption ==
    /\ NumSlots \in Nat \ {0}
    /\ MaxWorkers \in Nat /\ MaxStarts \in Nat /\ MaxShutdowns \in Nat

Slots == 0..(NumSlots - 1)

VARIABLES
    state,        \* #state
    worker,       \* the threads in the order they were created
    pool,         \* #pool: the worker of each slot (0: none) and its ready flag
    runs,         \* the #startPromises of every start(): the worker of each slot
    closings,     \* the shutdowns under way: the workers each waits for
    shutdowns,    \* how many shutdowns there have been
    next,         \* #last: whose turn it is
    req,          \* the requests
    outstanding   \* #outstandingByIndex

vars == <<state, worker, pool, runs, closings, shutdowns, next, req, outstanding>>
threads == <<state, worker, pool, runs>>
calls   == <<next, req, outstanding>>
control == <<closings, shutdowns>>

-----------------------------------------------------------------------------
(* Worker threads. *)

(* A thread: its slot, whether its setup promise is pending, whether an    *)
(* exit handler catches that promise's rejection, and how many wait for it *)
(* as the promise of start().                                              *)
Thread == [slot: Slots, st: {"up", "dying", "exited"}, fut: {"pending", "ok", "bad"},
           retry: BOOLEAN, waiting: Nat]

Ids    == 1..Len(worker)
Live(w) == worker[w].st # "exited"

(* setupWorker(i), once per flag: the flag says whether the new promise's  *)
(* rejection is caught.  Nothing is set up while the pool terminates.      *)
SetUp(ws, p, i, flags) ==
    LET n   == Len(ws) + Len(flags)
        new == [k \in 1..Len(flags) |->
                  [slot |-> i, st |-> "up", fut |-> "pending",
                   retry |-> flags[k], waiting |-> 0]]
    IN  IF flags = <<>> \/ state = "terminating"
        THEN worker' = ws /\ pool' = p
        ELSE /\ n <= MaxWorkers
             /\ worker' = ws \o new
             /\ pool' = [p EXCEPT ![i] = [w |-> n, ready |-> FALSE]]

Times(n, flag) == [k \in 1..n |-> flag]

(* The setups a rejection of w's promise sets off.                         *)
Caught(w) == IF worker[w].fut # "pending" THEN <<>>
             ELSE Times(worker[w].waiting + (IF worker[w].retry THEN 1 ELSE 0), FALSE)

(* w's promise is settled: nobody waits for it any longer.                 *)
Settled(w, f) == IF worker[w].fut # "pending" THEN worker[w]
                 ELSE [worker[w] EXCEPT !.fut = f, !.retry = FALSE, !.waiting = 0]

(* When start() has something to do.  (The fault: while it is starting.)   *)
NotStarted   == state \in {"pending", "starting"}
StartPending == state = "pending"

(* start().                                                                *)
Start ==
    /\ StartPending /\ Len(runs) < MaxStarts
    /\ Len(worker) + NumSlots <= MaxWorkers
    /\ state' = "starting"
    /\ worker' = worker \o [k \in 1..NumSlots |->
                    [slot |-> k - 1, st |-> "up", fut |-> "pending",
                     retry |-> FALSE, waiting |-> 0]]
    /\ runs' = Append(runs, [i \in Slots |-> Len(worker) + i + 1])
    /\ pool' = [i \in Slots |-> [w |-> Len(worker) + i + 1, ready |-> FALSE]]
    /\ UNCHANGED <<calls, control>>

(* The worker's 'started' event.  The promises of a start() may thereby    *)
(* all be resolved, whatever has become of the pool since.                 *)
StartsUp(w) ==
    /\ w \in Ids /\ worker[w].st = "up" /\ worker[w].fut = "pending"
    /\ LET ws == [worker EXCEPT ![w] = Settled(w, "ok")]
           i  == worker[w].slot
       IN  /\ SetUp(ws, [pool EXCEPT ![i].ready = TRUE], i, Times(worker[w].waiting, TRUE))
           /\ state' = IF \E k \in 1..Len(runs) :
                             runs[k][i] = w /\ \A j \in Slots : ws[runs[k][j]].fut = "ok"
                       THEN "started" ELSE state
    /\ UNCHANGED <<runs, calls, control>>

-----------------------------------------------------------------------------
(* Requests. *)

(* Fail every outstanding request of a slot.  (The fault: they are only    *)
(* forgotten.)                                                             *)
NothingFails(i) == UNCHANGED req
OutstandingFail(i) ==
    req' = [r \in Requests |-> IF r \in outstanding[i]
                               THEN [req[r] EXCEPT !.st = "done"] ELSE req[r]]

Queue(r) ==
    /\ r \in Requests /\ req[r].st = "new"
    /\ req' = [req EXCEPT ![r].st = "queued"]
    /\ UNCHANGED <<threads, control, next, outstanding>>

(* Whose turn comes next.  (The fault: the turn never wraps around.)       *)
NoWrap(i) == i + 1
Turn(i)   == (i + 1) % NumSlots

(* One attempt.  A slot that is not ready makes it fail; a message to a    *)
(* worker that is gone is not noticed.                                     *)
Attempt(r) ==
    /\ r \in Requests /\ req[r].st = "queued" /\ runs # <<>>
    /\ next' = Turn(next)
    /\ IF pool[next].ready
       THEN /\ req' = [req EXCEPT ![r] = [st |-> "waiting", at |-> pool[next].w,
                                          open |-> shutdowns = 0]]
            /\ outstanding' = [outstanding EXCEPT ![next] = @ \cup {r}]
       ELSE UNCHANGED <<req, outstanding>>
    /\ UNCHANGED <<threads, control>>

(* The attempts are used up (also those at a pool never started).          *)
GivesUp(r) ==
    /\ r \in Requests /\ req[r].st = "queued"
    /\ req' = [req EXCEPT ![r].st = "done"]
    /\ UNCHANGED <<threads, control, next, outstanding>>

(* The worker's reply.  The listener is found even when an exit has failed *)
(* its future: settling it again throws, after the lists are updated.      *)
Replies(r) ==
    /\ r \in Requests /\ req[r].at # 0
    /\ Live(req[r].at) /\ worker[req[r].at].fut = "ok"
    /\ req' = [req EXCEPT ![r].st = "done", ![r].at = 0]
    /\ outstanding' = [outstanding EXCEPT ![worker[req[r].at].slot] = @ \ {r}]
    /\ UNCHANGED <<threads, control, next>>

(* The caller's patience ends; its future stays.                           *)
TimesOut(r) ==
    /\ r \in Requests /\ req[r].st = "waiting"
    /\ req' = [req EXCEPT ![r].st = "expired"]
    /\ UNCHANGED <<threads, control, next, outstanding>>

-----------------------------------------------------------------------------
(* Failures. *)

(* The worker's 'error' event: an uncaught exception ends the thread.      *)
Fails(w) ==
    /\ w \in Ids /\ worker[w].st = "up"
    /\ SetUp([worker EXCEPT ![w] = [Settled(w, "bad") EXCEPT !.st = "dying"]],
             pool, worker[w].slot, Caught(w))
    /\ OutstandingFail(worker[w].slot)
    /\ outstanding' = [outstanding EXCEPT ![worker[w].slot] = {}]
    /\ UNCHANGED <<state, runs, next, control>>

(* The setup an exit sets off once start()'s promise is settled: only the  *)
(* replacement after a resolved one is caught.  (The fault: a rejected one *)
(* sets nothing off.)                                                      *)
OnlyResolved(fut) == IF fut = "ok" THEN <<TRUE>> ELSE <<>>
Replacement(fut)  == <<fut = "ok">>

(* The worker's 'exit' event: the promise start() kept for its slot, then  *)
(* a replacement, whose own failure is caught once.                        *)
Exits(w) ==
    /\ w \in Ids /\ Live(w)
    /\ LET i   == worker[w].slot
           p   == runs[Len(runs)][i]
           ws  == [worker EXCEPT ![w] = [Settled(w, "bad") EXCEPT !.st = "exited"]]
       IN  /\ IF ws[p].fut = "pending"
              THEN SetUp([ws EXCEPT ![p].waiting = @ + 1], pool, i, Caught(w))
              ELSE SetUp(ws, pool, i, Replacement(ws[p].fut) \o Caught(w))
           /\ OutstandingFail(i)
           /\ outstanding' = [outstanding EXCEPT ![i] = {}]
    /\ UNCHANGED <<state, runs, next, control>>

-----------------------------------------------------------------------------
(* Shutting down. *)

Shutdown ==
    /\ state # "terminating" /\ shutdowns < MaxShutdowns
    /\ state' = "terminating"
    /\ shutdowns' = shutdowns + 1
    /\ closings' = closings \cup {{pool[i].w : i \in Slots} \ {0}}
    /\ UNCHANGED <<worker, pool, runs, calls>>

(* The workers it terminated have all exited ...                           *)
ShutdownEnds(c) ==
    /\ c \in closings /\ \A w \in c : ~Live(w)
    /\ closings' = closings \ {c}
    /\ state' = "pending"
    /\ UNCHANGED <<worker, pool, runs, shutdowns, calls>>

(* ... or the time is up, and the pool stays as it is.                     *)
ShutdownTimesOut(c) ==
    /\ c \in closings /\ \E w \in c : Live(w)
    /\ closings' = closings \ {c}
    /\ UNCHANGED <<threads, shutdowns, calls>>

-----------------------------------------------------------------------------
Init ==
    /\ state = "pending" /\ worker = <<>> /\ runs = <<>>
    /\ pool = [i \in Slots |-> [w |-> 0, ready |-> FALSE]]
    /\ closings = {} /\ shutdowns = 0 /\ next = 0
    /\ req = [r \in Requests |-> [st |-> "new", at |-> 0, open |-> FALSE]]
    /\ outstanding = [i \in Slots |-> {}]

Next ==
    \/ Start \/ Shutdown
    \/ \E c \in closings : ShutdownEnds(c) \/ ShutdownTimesOut(c)
    \/ \E w \in Ids : StartsUp(w) \/ Fails(w) \/ Exits(w)
    \/ \E r \in Requests : Queue(r) \/ Attempt(r) \/ GivesUp(r) \/ Replies(r) \/ TimesOut(r)

Spec == Init /\ [][Next]_vars

(* A worker that has been created starts up, or else dies; one that has    *)
(* failed exits.                                                           *)
FairSpec ==
    /\ Spec
    /\ \A w \in 1..MaxWorkers :
         /\ WF_vars(StartsUp(w))
         /\ WF_vars(w \in Ids /\ worker[w].st = "dying" /\ Exits(w))

-----------------------------------------------------------------------------
(* The pool's variables hold values of their kinds: in particular the turn *)
(* is always a slot's and the pool's workers have been created.            *)
TypeOK ==
    /\ state \in {"pending", "starting", "started", "terminating"}
    /\ worker \in Seq(Thread)
    /\ pool \in [Slots -> [w: 0..Len(worker), ready: BOOLEAN]]
    /\ runs \in Seq([Slots -> Ids])
    /\ closings \subseteq SUBSET Ids /\ shutdowns \in Nat
    /\ next \in Slots
    /\ req \in [Requests -> [st: {"new", "queued", "waiting", "expired", "done"},
                             at: 0..Len(worker), open: BOOLEAN]]
    /\ outstanding \in [Slots -> SUBSET Requests]

(* queueTask: a caller whose request was posted before any shutdown never  *)
(* waits for a worker that has exited: whatever became of the slot, of its *)
(* replacements and of the pool, the exit has failed the request           *)
(* (TunarrWorkerPool.ts:329-336).                                          *)
NobodyWaitsForTheDead ==
    \A r \in Requests : req[r].st = "waiting" /\ req[r].open => Live(req[r].at)

(* Every thread is its slot's worker, unless one has died before it had    *)
(* started: start() does not build a pool over the one it is starting, and *)
(* an exit replaces only the worker that exited                            *)
(* (TunarrWorkerPool.ts:139-149, 323-327).                                 *)
EveryWorkerInPool ==
    shutdowns = 0 /\ (\A w \in Ids : worker[w].st = "up" \/ worker[w].fut = "ok") =>
      \A w \in Ids : worker[w].st = "up" => pool[worker[w].slot].w = w

(* A slot comes back: however many of its workers have died, before or     *)
(* after they started, it gets one that has started, as long as nobody has *)
(* shut the pool down and the bound on threads is not reached              *)
(* (TunarrWorkerPool.ts:323-327).                                          *)
Serves(i) == pool[i].ready /\ worker[pool[i].w].st = "up" /\ worker[pool[i].w].fut = "ok"
SlotsRecover ==
    \A i \in Slots :
      []<>(runs = <<>> \/ Serves(i) \/ shutdowns > 0 \/ Len(worker) > MaxWorkers - 3)

=============================================================================
