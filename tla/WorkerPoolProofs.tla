-------------------------- MODULE WorkerPoolProofs --------------------------
(***************************************************************************)
(* What is proved of the worker pool, for every number of slots, requests  *)
(* and threads: its types; that no caller waits for a worker that has      *)
(* exited; and that every thread is its slot's worker until one dies       *)
(* before it has started.                                                  *)
(***************************************************************************)
EXTENDS WorkerPool, TLAPS

Pool(n) == [Slots -> [w: 0..n, ready: BOOLEAN]]

(* The threads that setupWorker creates in slot i.                         *)
Young(t, i) == t.slot = i /\ t.st = "up" /\ t.fut = "pending" /\ t.waiting = 0

LEMMA SlotsExist == Slots # {} /\ 0 \in Slots /\ Slots \subseteq Nat
  BY WorkerPoolAssumption DEF Slots

LEMMA SlotsAreNumbered ==
    ASSUME NEW n \in Nat, NEW i \in Slots
    PROVE  n + i + 1 \in (n + 1)..(n + NumSlots)
  BY WorkerPoolAssumption DEF Slots

LEMMA TurnOK == ASSUME NEW i \in Slots PROVE Turn(i) \in Slots
  BY WorkerPoolAssumption DEF Turn, Slots

LEMMA TimesOK ==
    ASSUME NEW n \in Nat, NEW flag \in BOOLEAN
    PROVE  Times(n, flag) \in Seq(BOOLEAN) /\ Len(Times(n, flag)) = n
  BY DEF Times

(* What SetUp does to the threads and the pool.                            *)
LEMMA SetUpEffect ==
    ASSUME NEW ws \in Seq(Thread), NEW p \in Pool(Len(ws)), NEW i \in Slots,
           NEW flags \in Seq(BOOLEAN), SetUp(ws, p, i, flags)
    PROVE  /\ worker' \in Seq(Thread) /\ Len(worker') \in Nat /\ Len(worker') >= Len(ws)
           /\ pool' \in Pool(Len(worker'))
           /\ \A k \in 1..Len(ws) : worker'[k] = ws[k]
           /\ \A k \in 1..Len(worker') : k > Len(ws) => Young(worker'[k], i)
           /\ \A j \in Slots : j # i => pool'[j] = p[j]
           /\ flags = <<>> \/ state = "terminating" => worker' = ws /\ pool' = p
           /\ flags # <<>> /\ state # "terminating" =>
                /\ Len(worker') = Len(ws) + Len(flags) /\ Len(flags) > 0
                /\ pool'[i] = [w |-> Len(worker'), ready |-> FALSE]
<1>1. CASE flags = <<>> \/ state = "terminating"
  <2>1. worker' = ws /\ pool' = p
    BY <1>1 DEF SetUp
  <2> QED
    BY <1>1, <2>1
<1>2. CASE flags # <<>> /\ state # "terminating"
  <2> DEFINE new == [k \in 1..Len(flags) |->
                       [slot |-> i, st |-> "up", fut |-> "pending",
                        retry |-> flags[k], waiting |-> 0]]
             n == Len(ws) + Len(flags)
  <2>1. worker' = ws \o new /\ pool' = [p EXCEPT ![i] = [w |-> n, ready |-> FALSE]]
    BY <1>2 DEF SetUp
  <2>2. new \in Seq(Thread) /\ Len(new) = Len(flags)
    BY DEF Thread
  <2>3. Len(flags) \in Nat /\ Len(flags) > 0 /\ Len(ws) \in Nat /\ n \in Nat
    BY <1>2
  <2>4. \A k \in 1..Len(flags) : Young(new[k], i)
    BY DEF Young
  <2> HIDE DEF new
  <2>5. worker' \in Seq(Thread) /\ Len(worker') = n
    <3>1. ws \o new \in Seq(Thread)
      BY <2>2
    <3>2. Len(ws \o new) = Len(ws) + Len(new)
      BY <2>2
    <3> QED
      BY <2>1, <2>2, <3>1, <3>2
  <2>6. \A k \in 1..Len(ws) : worker'[k] = ws[k]
    <3>1. ASSUME NEW k \in 1..Len(ws) PROVE (ws \o new)[k] = ws[k]
      BY <2>2, <2>3
    <3> QED
      BY <2>1, <3>1
  <2>7. ASSUME NEW k \in 1..Len(worker'), k > Len(ws) PROVE Young(worker'[k], i)
    <3>1. k - Len(ws) \in 1..Len(flags) /\ worker'[k] = new[k - Len(ws)]
      BY <2>1, <2>2, <2>3, <2>5, <2>7
    <3> QED
      BY <2>4, <3>1
  <2>8. pool' \in Pool(n)
    <3>1. p \in Pool(n)
      BY <2>3 DEF Pool
    <3>2. [w |-> n, ready |-> FALSE] \in [w: 0..n, ready: BOOLEAN]
      BY <2>3
    <3> QED
      BY <2>1, <3>1, <3>2 DEF Pool
  <2>9. (\A j \in Slots : j # i => pool'[j] = p[j])
        /\ pool'[i] = [w |-> n, ready |-> FALSE]
    BY <2>1 DEF Pool
  <2> QED
    BY <1>2, <2>3, <2>5, <2>6, <2>7, <2>8, <2>9
<1> QED
  BY <1>1, <1>2

LEMMA SettledOK ==
    ASSUME worker \in Seq(Thread), NEW w \in Ids, NEW f \in {"ok", "bad"}
    PROVE  /\ Settled(w, f) \in Thread /\ Settled(w, f).slot = worker[w].slot
           /\ Settled(w, f).st = worker[w].st /\ Settled(w, f).fut # "pending"
           /\ worker[w].fut = "pending" => Settled(w, f).fut = f /\ Settled(w, f).waiting = 0
           /\ worker[w].fut # "pending" => Settled(w, f) = worker[w]
<1>1. worker[w] \in Thread
  BY DEF Ids
<1> QED
  BY <1>1 DEF Settled, Thread

LEMMA CaughtOK ==
    ASSUME worker \in Seq(Thread), NEW w \in Ids
    PROVE  Caught(w) \in Seq(BOOLEAN)
<1>1. worker[w] \in Thread
  BY DEF Ids
<1>2. worker[w].waiting + (IF worker[w].retry THEN 1 ELSE 0) \in Nat
  BY <1>1 DEF Thread
<1>3. Times(worker[w].waiting + (IF worker[w].retry THEN 1 ELSE 0), FALSE) \in Seq(BOOLEAN)
  BY <1>2, TimesOK
<1>4. CASE worker[w].fut # "pending"
  BY <1>4 DEF Caught
<1>5. CASE worker[w].fut = "pending"
  BY <1>3, <1>5 DEF Caught
<1> QED
  BY <1>4, <1>5

LEMMA ReplacementOK ==
    ASSUME NEW f, NEW s \in Seq(BOOLEAN)
    PROVE  Replacement(f) \o s \in Seq(BOOLEAN) /\ Replacement(f) \o s # <<>>
  BY DEF Replacement

LEMMA OneReplacement ==
    ASSUME NEW f
    PROVE  Len(Replacement(f) \o <<>>) = 1
  BY DEF Replacement

-----------------------------------------------------------------------------
(* Types. *)

Request(n) == [st: {"new", "queued", "waiting", "expired", "done"}, at: 0..n, open: BOOLEAN]

LEMMA RunsGrow ==
    ASSUME NEW n \in Nat, NEW m \in Nat, n <= m, NEW q \in Seq([Slots -> 1..n])
    PROVE  q \in Seq([Slots -> 1..m])
<1>1. [Slots -> 1..n] \subseteq [Slots -> 1..m]
  <2>1. 1..n \subseteq 1..m
    OBVIOUS
  <2> QED
    BY <2>1
<1> QED
  BY <1>1

LEMMA ClosingsGrow ==
    ASSUME NEW n \in Nat, NEW m \in Nat, n <= m, NEW S \in SUBSET SUBSET (1..n)
    PROVE  S \in SUBSET SUBSET (1..m)
<1>1. 1..n \subseteq 1..m
  OBVIOUS
<1> QED
  BY <1>1

LEMMA RequestsGrow ==
    ASSUME NEW n \in Nat, NEW m \in Nat, n <= m, NEW q \in [Requests -> Request(n)]
    PROVE  q \in [Requests -> Request(m)]
<1>1. 0..n \subseteq 0..m
  OBVIOUS
<1>2. Request(n) \subseteq Request(m)
  BY <1>1 DEF Request
<1> QED
  BY <1>2

(* The parts of TypeOK that only depend on how many threads there are.     *)
LEMMA TypesGrow ==
    ASSUME TypeOK, worker' \in Seq(Thread), Len(worker') >= Len(worker)
    PROVE  /\ runs \in Seq([Slots -> Ids']) /\ closings \subseteq SUBSET Ids'
           /\ req \in [Requests -> Request(Len(worker'))]
<1>1. Len(worker) \in Nat /\ Len(worker') \in Nat /\ Len(worker) <= Len(worker')
  BY DEF TypeOK
<1>2. runs \in Seq([Slots -> 1..Len(worker)]) /\ closings \in SUBSET SUBSET (1..Len(worker))
      /\ req \in [Requests -> Request(Len(worker))]
  BY DEF TypeOK, Ids, Request
<1>3. runs \in Seq([Slots -> 1..Len(worker')])
  BY <1>1, <1>2, RunsGrow
<1>4. closings \in SUBSET SUBSET (1..Len(worker'))
  BY <1>1, <1>2, ClosingsGrow
<1>5. req \in [Requests -> Request(Len(worker'))]
  BY <1>1, <1>2, RequestsGrow
<1> QED
  BY <1>3, <1>4, <1>5 DEF Ids

LEMMA OutstandingFailOK ==
    ASSUME NEW n \in Nat, req \in [Requests -> Request(n)], NEW i, OutstandingFail(i)
    PROVE  /\ req' \in [Requests -> Request(n)]
           /\ \A r \in Requests : /\ r \in outstanding[i] => req'[r].st = "done"
                                  /\ r \notin outstanding[i] => req'[r] = req[r]
<1>1. ASSUME NEW r \in Requests PROVE [req[r] EXCEPT !.st = "done"] \in Request(n)
  BY DEF Request
<1>2. \A r \in Requests : [req[r] EXCEPT !.st = "done"].st = "done"
  BY DEF Request
<1>3. req' = [r \in Requests |-> IF r \in outstanding[i]
                                THEN [req[r] EXCEPT !.st = "done"] ELSE req[r]]
  BY DEF OutstandingFail
<1> QED
  BY <1>1, <1>2, <1>3

(* The steps that set workers up.                                          *)
LEMMA StartsUpOK ==
    ASSUME TypeOK, NEW w \in Ids, StartsUp(w)
    PROVE  LET i  == worker[w].slot
               ws == [worker EXCEPT ![w] = Settled(w, "ok")]
               p  == [pool EXCEPT ![i].ready = TRUE]
               fl == Times(worker[w].waiting, TRUE)
           IN  /\ i \in Slots /\ ws \in Seq(Thread) /\ Len(ws) = Len(worker)
               /\ p \in Pool(Len(ws)) /\ fl \in Seq(BOOLEAN) /\ Len(fl) = worker[w].waiting
               /\ SetUp(ws, p, i, fl)
<1>1. worker \in Seq(Thread) /\ worker[w] \in Thread /\ pool \in Pool(Len(worker))
  BY DEF TypeOK, Ids, Pool
<1>2. Settled(w, "ok") \in Thread
  BY <1>1, SettledOK
<1>3. worker[w].slot \in Slots /\ worker[w].waiting \in Nat
  BY <1>1 DEF Thread
<1>4. [worker EXCEPT ![w] = Settled(w, "ok")] \in Seq(Thread)
      /\ Len([worker EXCEPT ![w] = Settled(w, "ok")]) = Len(worker)
  BY <1>1, <1>2 DEF Ids
<1>5. [pool EXCEPT ![worker[w].slot].ready = TRUE] \in Pool(Len(worker))
  BY <1>1, <1>3 DEF Pool
<1>6. Times(worker[w].waiting, TRUE) \in Seq(BOOLEAN)
      /\ Len(Times(worker[w].waiting, TRUE)) = worker[w].waiting
  BY <1>3, TimesOK
<1>7. SetUp([worker EXCEPT ![w] = Settled(w, "ok")],
            [pool EXCEPT ![worker[w].slot].ready = TRUE],
            worker[w].slot, Times(worker[w].waiting, TRUE))
  BY DEF StartsUp
<1> QED
  BY <1>3, <1>4, <1>5, <1>6, <1>7

(* The thread of a worker that errors or exits.                            *)
LEMMA GoneOK ==
    ASSUME TypeOK, NEW w \in Ids, NEW st \in {"dying", "exited"}
    PROVE  LET t  == [Settled(w, "bad") EXCEPT !.st = st]
               ws == [worker EXCEPT ![w] = t]
           IN  /\ worker[w] \in Thread /\ worker[w].slot \in Slots
               /\ t \in Thread /\ t.slot = worker[w].slot /\ t.st = st /\ t.fut # "pending"
               /\ (worker[w].fut # "pending" => t.fut = worker[w].fut /\ t.waiting = worker[w].waiting)
               /\ (worker[w].fut = "pending" => t.fut = "bad" /\ t.waiting = 0)
               /\ ws \in Seq(Thread) /\ Len(ws) = Len(worker) /\ ws[w] = t
               /\ \A v \in Ids : v # w => ws[v] = worker[v]
<1>1. worker \in Seq(Thread) /\ worker[w] \in Thread
  BY DEF TypeOK, Ids
<1>2. /\ Settled(w, "bad") \in Thread /\ Settled(w, "bad").slot = worker[w].slot
      /\ Settled(w, "bad").fut # "pending"
      /\ worker[w].fut = "pending" => Settled(w, "bad").fut = "bad" /\ Settled(w, "bad").waiting = 0
      /\ worker[w].fut # "pending" => Settled(w, "bad") = worker[w]
  BY <1>1, SettledOK
<1> DEFINE t == [Settled(w, "bad") EXCEPT !.st = st]
<1>3. /\ t \in Thread /\ t.slot = Settled(w, "bad").slot /\ t.st = st
      /\ t.fut = Settled(w, "bad").fut /\ t.waiting = Settled(w, "bad").waiting
  BY <1>2 DEF Thread
<1> HIDE DEF t
<1>4. [worker EXCEPT ![w] = t] \in Seq(Thread) /\ Len([worker EXCEPT ![w] = t]) = Len(worker)
      /\ [worker EXCEPT ![w] = t][w] = t
      /\ \A v \in Ids : v # w => [worker EXCEPT ![w] = t][v] = worker[v]
  BY <1>1, <1>3 DEF Ids
<1>5. worker[w].slot \in Slots
  BY <1>1 DEF Thread
<1> QED
  BY <1>1, <1>2, <1>3, <1>4, <1>5 DEF t

(* What an exit passes to SetUp.                                           *)
LEMMA ExitsOK ==
    ASSUME TypeOK, NEW w \in Ids, Exits(w), runs # <<>>
    PROVE  LET i  == worker[w].slot
               p  == runs[Len(runs)][i]
               ws == [worker EXCEPT ![w] = [Settled(w, "bad") EXCEPT !.st = "exited"]]
               wp == [ws EXCEPT ![p].waiting = @ + 1]
               fl == Replacement(ws[p].fut) \o Caught(w)
           IN  /\ p \in Ids /\ wp \in Seq(Thread) /\ Len(wp) = Len(worker)
               /\ \A v \in Ids : v # p => wp[v] = ws[v]
               /\ wp[p] = [ws[p] EXCEPT !.waiting = @ + 1]
               /\ Caught(w) \in Seq(BOOLEAN) /\ fl \in Seq(BOOLEAN) /\ fl # <<>>
               /\ pool \in Pool(Len(worker))
               /\ IF ws[p].fut = "pending" THEN SetUp(wp, pool, i, Caught(w))
                                           ELSE SetUp(ws, pool, i, fl)
               /\ OutstandingFail(i) /\ outstanding' = [outstanding EXCEPT ![i] = {}]
               /\ UNCHANGED <<state, runs, next, control>>
<1> DEFINE i  == worker[w].slot
           p  == runs[Len(runs)][i]
           ws == [worker EXCEPT ![w] = [Settled(w, "bad") EXCEPT !.st = "exited"]]
           wp == [ws EXCEPT ![p].waiting = @ + 1]
           fl == Replacement(ws[p].fut) \o Caught(w)
<1>1. /\ IF ws[p].fut = "pending" THEN SetUp(wp, pool, i, Caught(w))
                                  ELSE SetUp(ws, pool, i, fl)
      /\ OutstandingFail(i) /\ outstanding' = [outstanding EXCEPT ![i] = {}]
      /\ UNCHANGED <<state, runs, next, control>>
  BY DEF Exits
<1>2. ws \in Seq(Thread) /\ Len(ws) = Len(worker) /\ i \in Slots
  BY GoneOK
<1>3. p \in Ids
  <2>1. Len(runs) \in 1..Len(runs) /\ runs \in Seq([Slots -> Ids])
    BY DEF TypeOK
  <2>2. runs[Len(runs)] \in [Slots -> Ids]
    BY <2>1
  <2> QED
    BY <1>2, <2>2
<1>4. Caught(w) \in Seq(BOOLEAN)
  BY CaughtOK DEF TypeOK
<1>5. fl \in Seq(BOOLEAN) /\ fl # <<>>
  BY <1>4, ReplacementOK
<1>6. pool \in Pool(Len(worker))
  BY DEF TypeOK, Pool
<1> HIDE DEF ws, p, i
<1>7. p \in 1..Len(ws) /\ ws[p] \in Thread
  BY <1>2, <1>3 DEF Ids
<1>8. [ws[p] EXCEPT !.waiting = @ + 1] \in Thread
  BY <1>7 DEF Thread
<1>9. wp = [ws EXCEPT ![p] = [ws[p] EXCEPT !.waiting = @ + 1]]
  BY <1>7
<1>10. /\ wp \in Seq(Thread) /\ Len(wp) = Len(worker)
       /\ \A v \in Ids : v # p => wp[v] = ws[v]
       /\ wp[p] = [ws[p] EXCEPT !.waiting = @ + 1]
  <2> HIDE DEF wp
  <2> DEFINE t == [ws[p] EXCEPT !.waiting = @ + 1]
  <2> HIDE DEF t
  <2>1. wp = [ws EXCEPT ![p] = t] /\ t \in Thread
    BY <1>8, <1>9 DEF t
  <2>2. wp \in Seq(Thread) /\ Len(wp) = Len(ws) /\ wp[p] = t
        /\ \A v \in 1..Len(ws) : v # p => wp[v] = ws[v]
    BY <1>2, <1>7, <2>1
  <2> QED
    BY <1>2, <2>2 DEF t, Ids
<1> QED
  BY <1>1, <1>3, <1>4, <1>5, <1>6, <1>10 DEF ws, p, i

-----------------------------------------------------------------------------
(* Threads are only created once start() has been called.                  *)
Founded == runs = <<>> => worker = <<>>

LEMMA TypeInit == Init => TypeOK /\ Founded
<1>1. [i \in Slots |-> [w |-> 0, ready |-> FALSE]] \in [Slots -> [w: 0..0, ready: BOOLEAN]]
  OBVIOUS
<1>2. <<>> \in Seq(Thread) /\ Len(<<>>) = 0 /\ <<>> \in Seq([Slots -> 1..0])
  OBVIOUS
<1> QED
  BY <1>1, <1>2, SlotsExist DEF Init, TypeOK, Ids, Founded

LEMMA TypeStep == TypeOK /\ Founded /\ [Next]_vars => TypeOK'
<1> SUFFICES ASSUME TypeOK, Founded, [Next]_vars PROVE TypeOK'
  OBVIOUS
<1>1. CASE Start
  <2> DEFINE n == Len(worker)
             new == [k \in 1..NumSlots |->
                      [slot |-> k - 1, st |-> "up", fut |-> "pending",
                       retry |-> FALSE, waiting |-> 0]]
  <2>1. n \in Nat /\ worker \in Seq(Thread) /\ NumSlots \in Nat
    BY WorkerPoolAssumption DEF TypeOK
  <2>2. new \in Seq(Thread) /\ Len(new) = NumSlots
    <3>1. \A k \in 1..NumSlots : k - 1 \in Slots
      BY <2>1 DEF Slots
    <3>2. \A k \in 1..NumSlots : new[k] \in Thread
      BY <3>1 DEF Thread
    <3> QED
      BY <2>1, <3>2
  <2>3. worker' = worker \o new /\ runs' = Append(runs, [i \in Slots |-> n + i + 1])
        /\ pool' = [i \in Slots |-> [w |-> n + i + 1, ready |-> FALSE]]
        /\ state' = "starting" /\ UNCHANGED <<calls, control>>
    BY <1>1 DEF Start
  <2> HIDE DEF new
  <2>4. worker' \in Seq(Thread) /\ Len(worker') = n + NumSlots
    <3>1. worker \o new \in Seq(Thread)
      BY <2>1, <2>2
    <3>2. Len(worker \o new) = n + NumSlots
      BY <2>1, <2>2
    <3> QED
      BY <2>3, <3>1, <3>2
  <2>5. \A i \in Slots : n + i + 1 \in 1..(n + NumSlots) /\ n + i + 1 \in 0..(n + NumSlots)
    BY <2>1 DEF Slots
  <2>6. runs \in Seq([Slots -> Ids']) /\ closings \subseteq SUBSET Ids'
        /\ req \in [Requests -> Request(Len(worker'))]
    <3>1. Len(worker') >= Len(worker)
      BY <2>1, <2>4
    <3> QED
      BY <2>4, <3>1, TypesGrow
  <2>7. [i \in Slots |-> n + i + 1] \in [Slots -> Ids']
    BY <2>4, <2>5 DEF Ids
  <2>8. runs' \in Seq([Slots -> Ids'])
    BY <2>3, <2>6, <2>7
  <2>9. pool' \in [Slots -> [w: 0..Len(worker'), ready: BOOLEAN]]
    BY <2>3, <2>4, <2>5
  <2> QED
    BY <2>3, <2>4, <2>6, <2>8, <2>9 DEF TypeOK, calls, control, Request
<1>2. CASE Shutdown
  <2>1. /\ state' = "terminating" /\ shutdowns' = shutdowns + 1
        /\ closings' = closings \cup {{pool[i].w : i \in Slots} \ {0}}
        /\ UNCHANGED <<worker, pool, runs, calls>>
    BY <1>2 DEF Shutdown
  <2>2. {pool[i].w : i \in Slots} \ {0} \subseteq Ids
    <3>1. ASSUME NEW i \in Slots, pool[i].w # 0 PROVE pool[i].w \in Ids
      BY <3>1 DEF TypeOK, Ids
    <3> QED
      BY <3>1
  <2>3. closings' \subseteq SUBSET Ids
    BY <2>1, <2>2 DEF TypeOK
  <2>4. shutdowns' \in Nat
    BY <2>1 DEF TypeOK
  <2> QED
    BY <2>1, <2>3, <2>4 DEF TypeOK, calls, Ids
<1>3. ASSUME NEW c \in closings, ShutdownEnds(c) \/ ShutdownTimesOut(c) PROVE TypeOK'
  BY <1>3 DEF ShutdownEnds, ShutdownTimesOut, TypeOK, Ids, calls, threads
<1>4. ASSUME NEW w \in Ids, StartsUp(w) PROVE TypeOK'
  <2> DEFINE i  == worker[w].slot
             ws == [worker EXCEPT ![w] = Settled(w, "ok")]
             p  == [pool EXCEPT ![i].ready = TRUE]
             fl == Times(worker[w].waiting, TRUE)
  <2>1. /\ i \in Slots /\ ws \in Seq(Thread) /\ Len(ws) = Len(worker)
        /\ p \in Pool(Len(ws)) /\ fl \in Seq(BOOLEAN) /\ SetUp(ws, p, i, fl)
    BY <1>4, StartsUpOK
  <2>2. state' \in {"pending", "starting", "started", "terminating"}
        /\ UNCHANGED <<runs, calls, control>>
    BY <1>4 DEF StartsUp, TypeOK
  <2> HIDE DEF i, ws, p, fl
  <2>3. worker' \in Seq(Thread) /\ Len(worker') >= Len(worker) /\ pool' \in Pool(Len(worker'))
    BY <2>1, SetUpEffect
  <2>4. runs \in Seq([Slots -> Ids']) /\ closings \subseteq SUBSET Ids'
        /\ req \in [Requests -> Request(Len(worker'))]
    BY <2>3, TypesGrow
  <2> QED
    BY <2>2, <2>3, <2>4 DEF TypeOK, calls, control, Request, Pool
<1>5. ASSUME NEW w \in Ids, Fails(w) PROVE TypeOK'
  <2> DEFINE i  == worker[w].slot
             ws == [worker EXCEPT ![w] = [Settled(w, "bad") EXCEPT !.st = "dying"]]
  <2>1. ws \in Seq(Thread) /\ Len(ws) = Len(worker) /\ i \in Slots
    BY GoneOK
  <2>2. /\ SetUp(ws, pool, i, Caught(w)) /\ OutstandingFail(i)
        /\ outstanding' = [outstanding EXCEPT ![i] = {}] /\ UNCHANGED <<state, runs, next, control>>
    BY <1>5 DEF Fails
  <2>3. Caught(w) \in Seq(BOOLEAN) /\ pool \in Pool(Len(ws))
    BY <2>1, CaughtOK DEF TypeOK, Pool
  <2> HIDE DEF i, ws
  <2>4. worker' \in Seq(Thread) /\ Len(worker') >= Len(worker) /\ pool' \in Pool(Len(worker'))
    BY <2>1, <2>2, <2>3, SetUpEffect
  <2>5. runs \in Seq([Slots -> Ids']) /\ closings \subseteq SUBSET Ids'
        /\ req \in [Requests -> Request(Len(worker'))] /\ Len(worker') \in Nat
    BY <2>4, TypesGrow
  <2>6. req' \in [Requests -> Request(Len(worker'))]
    BY <2>2, <2>5, OutstandingFailOK
  <2>7. outstanding' \in [Slots -> SUBSET Requests]
    BY <2>2 DEF TypeOK
  <2> QED
    BY <2>2, <2>4, <2>5, <2>6, <2>7 DEF TypeOK, control, Request, Pool
<1>6. ASSUME NEW w \in Ids, Exits(w) PROVE TypeOK'
  <2>0. runs # <<>>
    BY DEF Founded, Ids
  <2> DEFINE i  == worker[w].slot
             q  == runs[Len(runs)][i]
             ws == [worker EXCEPT ![w] = [Settled(w, "bad") EXCEPT !.st = "exited"]]
             wp == [ws EXCEPT ![q].waiting = @ + 1]
             fl == Replacement(ws[q].fut) \o Caught(w)
  <2>1. ws \in Seq(Thread) /\ Len(ws) = Len(worker) /\ i \in Slots
    BY GoneOK
  <2>2. /\ wp \in Seq(Thread) /\ Len(wp) = Len(worker)
        /\ Caught(w) \in Seq(BOOLEAN) /\ fl \in Seq(BOOLEAN) /\ pool \in Pool(Len(worker))
        /\ SetUp(wp, pool, i, Caught(w)) \/ SetUp(ws, pool, i, fl)
        /\ OutstandingFail(i) /\ outstanding' = [outstanding EXCEPT ![i] = {}]
        /\ UNCHANGED <<state, runs, next, control>>
    BY <1>6, <2>0, ExitsOK
  <2> HIDE DEF i, ws, wp, fl
  <2>4. worker' \in Seq(Thread) /\ Len(worker') >= Len(worker) /\ pool' \in Pool(Len(worker'))
    <3>1. CASE SetUp(wp, pool, i, Caught(w))
      BY <2>1, <2>2, <3>1, SetUpEffect
    <3>2. CASE SetUp(ws, pool, i, fl)
      BY <2>1, <2>2, <3>2, SetUpEffect
    <3> QED
      BY <2>2, <3>1, <3>2
  <2>5. runs \in Seq([Slots -> Ids']) /\ closings \subseteq SUBSET Ids'
        /\ req \in [Requests -> Request(Len(worker'))] /\ Len(worker') \in Nat
    BY <2>4, TypesGrow
  <2>6. req' \in [Requests -> Request(Len(worker'))]
    BY <2>2, <2>5, OutstandingFailOK
  <2>7. outstanding' \in [Slots -> SUBSET Requests]
    BY <2>2 DEF TypeOK
  <2>8. UNCHANGED <<state, runs, next, control>>
    BY <2>2
  <2> QED
    BY <2>4, <2>5, <2>6, <2>7, <2>8 DEF TypeOK, control, Request, Pool
<1>7. ASSUME NEW r \in Requests, Attempt(r) PROVE TypeOK'
  <2>1. next \in Slots /\ pool[next] \in [w: 0..Len(worker), ready: BOOLEAN]
    BY DEF TypeOK
  <2>2. next' \in Slots /\ UNCHANGED <<threads, control>>
    BY <1>7, <2>1, TurnOK DEF Attempt
  <2>3. req' \in [Requests -> Request(Len(worker))]
    <3>1. CASE pool[next].ready
      <4>1. req' = [req EXCEPT ![r] = [st |-> "waiting", at |-> pool[next].w,
                                       open |-> shutdowns = 0]]
        BY <1>7, <3>1 DEF Attempt
      <4>2. [st |-> "waiting", at |-> pool[next].w, open |-> shutdowns = 0] \in Request(Len(worker))
        BY <2>1 DEF Request
      <4> QED
        BY <4>1, <4>2 DEF TypeOK, Request
    <3>2. CASE ~pool[next].ready
      BY <1>7, <3>2 DEF Attempt, TypeOK, Request
    <3> QED
      BY <3>1, <3>2
  <2>4. outstanding' \in [Slots -> SUBSET Requests]
    <3>1. \/ outstanding' = [outstanding EXCEPT ![next] = @ \cup {r}]
          \/ outstanding' = outstanding
      BY <1>7 DEF Attempt
    <3>2. outstanding \in [Slots -> SUBSET Requests]
      BY DEF TypeOK
    <3>3. outstanding[next] \cup {r} \in SUBSET Requests
      BY <2>1, <3>2
    <3> QED
      BY <3>1, <3>2, <3>3
  <2> QED
    BY <2>2, <2>3, <2>4 DEF TypeOK, threads, control, Ids, Request
<1>8. ASSUME NEW r \in Requests, Queue(r) \/ GivesUp(r) \/ TimesOut(r) PROVE TypeOK'
  <2>1. req' \in [Requests -> Request(Len(worker))]
    <3>1. \A x \in {"queued", "done", "expired"} : [req[r] EXCEPT !.st = x] \in Request(Len(worker))
      BY DEF TypeOK, Request
    <3>2. PICK x \in {"queued", "done", "expired"} : req' = [req EXCEPT ![r].st = x]
      BY <1>8 DEF Queue, GivesUp, TimesOut
    <3>3. req' = [req EXCEPT ![r] = [req[r] EXCEPT !.st = x]]
      BY <3>2
    <3> QED
      BY <3>1, <3>3 DEF TypeOK, Request
  <2>2. UNCHANGED <<threads, control, next, outstanding>>
    BY <1>8 DEF Queue, GivesUp, TimesOut
  <2> QED
    BY <2>1, <2>2 DEF TypeOK, threads, control, Ids, Request
<1>9. ASSUME NEW r \in Requests, Replies(r) PROVE TypeOK'
  <2>1. req' \in [Requests -> Request(Len(worker))]
    <3>1. 0 \in 0..Len(worker) /\ req[r] \in Request(Len(worker))
      BY DEF TypeOK, Request
    <3>2. [req[r] EXCEPT !.st = "done", !.at = 0] \in Request(Len(worker))
      BY <3>1 DEF Request
    <3>3. req' = [req EXCEPT ![r] = [req[r] EXCEPT !.st = "done", !.at = 0]]
      BY <1>9 DEF Replies
    <3> QED
      BY <3>2, <3>3 DEF TypeOK, Request
  <2>2. outstanding' \in [Slots -> SUBSET Requests] /\ UNCHANGED <<threads, control, next>>
    BY <1>9 DEF Replies, TypeOK
  <2> QED
    BY <2>1, <2>2 DEF TypeOK, threads, control, Ids, Request
<1>10. CASE UNCHANGED vars
  BY <1>10 DEF vars, TypeOK, Ids
<1> QED
  BY <1>1, <1>2, <1>3, <1>4, <1>5, <1>6, <1>7, <1>8, <1>9, <1>10 DEF Next

LEMMA FoundedStep == TypeOK /\ Founded /\ [Next]_vars => Founded'
<1> SUFFICES ASSUME TypeOK, Founded, [Next]_vars, runs' = <<>> PROVE worker' = worker /\ runs = <<>>
  BY DEF Founded
<1>1. ~Start
  <2> SUFFICES ASSUME Start PROVE FALSE
    OBVIOUS
  <2>1. runs' = Append(runs, [i \in Slots |-> Len(worker) + i + 1])
    BY DEF Start
  <2>2. \A q, f : q \in Seq([Slots -> Ids]) => Append(q, f) # <<>>
    OBVIOUS
  <2> QED
    BY <2>1, <2>2 DEF TypeOK
<1>2. runs' = runs
  BY <1>1 DEF Next, vars, Shutdown, ShutdownEnds, ShutdownTimesOut, threads, StartsUp, Fails,
              Exits, Queue, Attempt, GivesUp, Replies, TimesOut
<1>3. worker = <<>> /\ Ids = {}
  BY <1>2 DEF Founded, Ids
<1>4. worker' = worker
  BY <1>1, <1>3 DEF Next, vars, Shutdown, ShutdownEnds, ShutdownTimesOut, threads,
              Queue, Attempt, GivesUp, Replies, TimesOut
<1> QED
  BY <1>2, <1>4

(* The pool's variables hold values of their kinds.                        *)
THEOREM TypeCorrect == Spec => []TypeOK
<1>1. TypeOK /\ Founded /\ [Next]_vars => TypeOK' /\ Founded'
  BY TypeStep, FoundedStep
<1> QED
  BY TypeInit, <1>1, PTL DEF Spec

-----------------------------------------------------------------------------
(* What a worker's event does to the threads: w alone moves on, and what   *)
(* is set up is set up in its slot.                                        *)
Evolves(w, x) ==
    LET i == worker[w].slot
    IN  /\ i \in Slots
        /\ Len(worker) \in Nat /\ Len(worker') \in Nat /\ Len(worker') >= Len(worker)
        /\ \A v \in Ids : v # w => /\ worker'[v].st = worker[v].st
                                   /\ worker'[v].fut = worker[v].fut
                                   /\ worker'[v].slot = worker[v].slot
        /\ worker'[w].slot = i /\ worker'[w].st = x /\ worker'[w].fut # "pending"
        /\ worker[w].fut # "pending" => worker'[w].fut = worker[w].fut
        /\ \A v \in 1..Len(worker') : v > Len(worker) => Young(worker'[v], i)
        /\ \A j \in Slots : j # i => pool'[j] = pool[j]
        /\ \/ Len(worker') = Len(worker) /\ pool'[i].w = pool[i].w
           \/ Len(worker') > Len(worker) /\ pool'[i].w = Len(worker')

(* Nobody starts to wait for a thread nobody waits for.                    *)
NoneWaits(v) == worker[v].waiting = 0 => worker'[v].waiting = 0

LEMMA StartsUpEvolves ==
    ASSUME TypeOK, NEW w \in Ids, StartsUp(w)
    PROVE  /\ Evolves(w, "up") /\ UNCHANGED <<runs, calls, control>>
           /\ worker[w].waiting = 0 => Len(worker') = Len(worker)
           /\ \A v \in Ids : NoneWaits(v)
<1> DEFINE i  == worker[w].slot
           t  == Settled(w, "ok")
           ws == [worker EXCEPT ![w] = t]
           p  == [pool EXCEPT ![i].ready = TRUE]
           fl == Times(worker[w].waiting, TRUE)
<1>1. /\ i \in Slots /\ ws \in Seq(Thread) /\ Len(ws) = Len(worker)
      /\ p \in Pool(Len(ws)) /\ fl \in Seq(BOOLEAN) /\ Len(fl) = worker[w].waiting
      /\ SetUp(ws, p, i, fl)
  BY StartsUpOK
<1>2. UNCHANGED <<runs, calls, control>> /\ worker[w].st = "up" /\ worker[w].fut = "pending"
  BY DEF StartsUp
<1>3. /\ t \in Thread /\ t.slot = i /\ t.st = "up" /\ t.fut = "ok" /\ t.waiting = 0
  <2>1. worker \in Seq(Thread)
    BY DEF TypeOK
  <2> QED
    BY <1>2, <2>1, SettledOK
<1>4. (\A j \in Slots : j # i => p[j] = pool[j]) /\ p[i].w = pool[i].w
  <2>1. pool \in Pool(Len(worker))
    BY DEF TypeOK, Pool
  <2> QED
    BY <1>1, <2>1 DEF Pool
<1>5. ws[w] = t /\ (\A v \in Ids : v # w => ws[v] = worker[v]) /\ Len(worker) \in Nat
  BY DEF TypeOK, Ids
<1> HIDE DEF t, ws, p, fl
<1>6. /\ Len(worker') \in Nat /\ Len(worker') >= Len(worker)
      /\ \A v \in 1..Len(worker) : worker'[v] = ws[v]
      /\ \A v \in 1..Len(worker') : v > Len(worker) => Young(worker'[v], i)
      /\ \A j \in Slots : j # i => pool'[j] = p[j]
      /\ fl = <<>> \/ state = "terminating" => worker' = ws /\ pool' = p
      /\ fl # <<>> /\ state # "terminating" =>
            /\ Len(worker') = Len(worker) + Len(fl) /\ Len(fl) > 0
            /\ pool'[i] = [w |-> Len(worker'), ready |-> FALSE]
  BY <1>1, SetUpEffect
<1>7. worker[w].waiting = 0 => fl = <<>>
  BY <1>1
<1>8. \/ Len(worker') = Len(worker) /\ pool'[i].w = pool[i].w
      \/ Len(worker') > Len(worker) /\ pool'[i].w = Len(worker')
  BY <1>1, <1>4, <1>5, <1>6
<1>9. \A v \in Ids : v # w => worker'[v] = worker[v]
  BY <1>5, <1>6 DEF Ids
<1>10. worker'[w] = t
  BY <1>5, <1>6 DEF Ids
<1>11. Evolves(w, "up")
  BY <1>1, <1>2, <1>3, <1>4, <1>5, <1>6, <1>8, <1>9, <1>10 DEF Evolves
<1> QED
  BY <1>1, <1>2, <1>3, <1>6, <1>7, <1>9, <1>10, <1>11 DEF NoneWaits

LEMMA FailsEvolves ==
    ASSUME TypeOK, NEW w \in Ids, Fails(w)
    PROVE  /\ Evolves(w, "dying") /\ UNCHANGED <<state, runs, next, control>>
           /\ OutstandingFail(worker[w].slot)
           /\ outstanding' = [outstanding EXCEPT ![worker[w].slot] = {}]
           /\ worker[w].fut # "pending" => Len(worker') = Len(worker)
           /\ worker[w].fut = "pending" => worker'[w].fut = "bad"
           /\ \A v \in Ids : NoneWaits(v)
<1> DEFINE i  == worker[w].slot
           t  == [Settled(w, "bad") EXCEPT !.st = "dying"]
           ws == [worker EXCEPT ![w] = t]
<1>1. /\ i \in Slots /\ ws \in Seq(Thread) /\ Len(ws) = Len(worker)
      /\ t \in Thread /\ t.slot = i /\ t.st = "dying" /\ t.fut # "pending"
      /\ (worker[w].fut # "pending" => t.fut = worker[w].fut /\ t.waiting = worker[w].waiting)
      /\ (worker[w].fut = "pending" => t.fut = "bad" /\ t.waiting = 0)
      /\ ws[w] = t /\ (\A v \in Ids : v # w => ws[v] = worker[v])
  BY GoneOK
<1>2. /\ SetUp(ws, pool, i, Caught(w)) /\ UNCHANGED <<state, runs, next, control>>
      /\ OutstandingFail(i) /\ outstanding' = [outstanding EXCEPT ![i] = {}]
  BY DEF Fails
<1>3. Caught(w) \in Seq(BOOLEAN) /\ pool \in Pool(Len(ws)) /\ Len(worker) \in Nat
  BY <1>1, CaughtOK DEF TypeOK, Pool
<1>4. worker[w].fut # "pending" => Caught(w) = <<>>
  BY DEF Caught
<1> HIDE DEF t, ws
<1>5. /\ Len(worker') \in Nat /\ Len(worker') >= Len(worker)
      /\ \A v \in 1..Len(worker) : worker'[v] = ws[v]
      /\ \A v \in 1..Len(worker') : v > Len(worker) => Young(worker'[v], i)
      /\ \A j \in Slots : j # i => pool'[j] = pool[j]
      /\ Caught(w) = <<>> \/ state = "terminating" => worker' = ws /\ pool' = pool
      /\ Caught(w) # <<>> /\ state # "terminating" =>
            /\ Len(worker') = Len(worker) + Len(Caught(w)) /\ Len(Caught(w)) > 0
            /\ pool'[i] = [w |-> Len(worker'), ready |-> FALSE]
  BY <1>1, <1>2, <1>3, SetUpEffect
<1>6. Len(Caught(w)) \in Nat
  BY <1>3
<1>7. \/ Len(worker') = Len(worker) /\ pool'[i].w = pool[i].w
      \/ Len(worker') > Len(worker) /\ pool'[i].w = Len(worker')
  BY <1>1, <1>3, <1>5, <1>6
<1>8. (\A v \in Ids : v # w => worker'[v] = worker[v]) /\ worker'[w] = t
  BY <1>1, <1>5 DEF Ids
<1>9. Evolves(w, "dying")
  BY <1>1, <1>3, <1>5, <1>7, <1>8 DEF Evolves
<1> QED
  BY <1>1, <1>2, <1>4, <1>5, <1>8, <1>9 DEF NoneWaits

LEMMA ExitsEvolves ==
    ASSUME TypeOK, NEW w \in Ids, Exits(w), runs # <<>>
    PROVE  LET i == worker[w].slot
               q == runs[Len(runs)][i]
           IN  /\ Evolves(w, "exited") /\ UNCHANGED <<state, runs, next, control>>
               /\ OutstandingFail(i) /\ outstanding' = [outstanding EXCEPT ![i] = {}]
               /\ q \in Ids
               /\ worker[w].fut = "pending" => worker'[w].fut = "bad"
               /\ state # "terminating" /\ worker'[q].fut # "pending" =>
                     /\ Len(worker') > Len(worker)
                     /\ worker[w].fut # "pending" => Len(worker') = Len(worker) + 1
                     /\ \A v \in Ids : NoneWaits(v)
<1> DEFINE i  == worker[w].slot
           q  == runs[Len(runs)][i]
           t  == [Settled(w, "bad") EXCEPT !.st = "exited"]
           ws == [worker EXCEPT ![w] = t]
           wp == [ws EXCEPT ![q].waiting = @ + 1]
           fl == Replacement(ws[q].fut) \o Caught(w)
<1>1. /\ i \in Slots /\ ws \in Seq(Thread) /\ Len(ws) = Len(worker)
      /\ t \in Thread /\ t.slot = i /\ t.st = "exited" /\ t.fut # "pending"
      /\ (worker[w].fut # "pending" => t.fut = worker[w].fut /\ t.waiting = worker[w].waiting)
      /\ (worker[w].fut = "pending" => t.fut = "bad" /\ t.waiting = 0)
      /\ ws[w] = t /\ (\A v \in Ids : v # w => ws[v] = worker[v])
  BY GoneOK
<1>2. /\ q \in Ids /\ wp \in Seq(Thread) /\ Len(wp) = Len(worker)
      /\ \A v \in Ids : v # q => wp[v] = ws[v]
      /\ wp[q] = [ws[q] EXCEPT !.waiting = @ + 1]
      /\ Caught(w) \in Seq(BOOLEAN) /\ fl \in Seq(BOOLEAN) /\ fl # <<>>
      /\ pool \in Pool(Len(worker))
      /\ IF ws[q].fut = "pending" THEN SetUp(wp, pool, i, Caught(w))
                                  ELSE SetUp(ws, pool, i, fl)
      /\ OutstandingFail(i) /\ outstanding' = [outstanding EXCEPT ![i] = {}]
      /\ UNCHANGED <<state, runs, next, control>>
  BY ExitsOK
<1>3. Len(worker) \in Nat /\ (\A f \in Seq(BOOLEAN) : Len(f) \in Nat /\ (f # <<>> => Len(f) > 0))
  BY DEF TypeOK
<1>4. ws[q] \in Thread
  <2> HIDE DEF ws, q, i
  <2> QED
    BY <1>1, <1>2 DEF Ids
<1> HIDE DEF q, t, ws, wp, fl
<1>5. wp[q].st = ws[q].st /\ wp[q].fut = ws[q].fut /\ wp[q].slot = ws[q].slot
  BY <1>2, <1>4 DEF Thread
<1>6. CASE ws[q].fut = "pending"
  <2>1. q # w
    BY <1>1, <1>6
  <2>2. /\ Len(worker') \in Nat /\ Len(worker') >= Len(worker)
        /\ \A v \in 1..Len(worker) : worker'[v] = wp[v]
        /\ \A v \in 1..Len(worker') : v > Len(worker) => Young(worker'[v], i)
        /\ \A j \in Slots : j # i => pool'[j] = pool[j]
        /\ Caught(w) = <<>> \/ state = "terminating" => worker' = wp /\ pool' = pool
        /\ Caught(w) # <<>> /\ state # "terminating" =>
              /\ Len(worker') = Len(worker) + Len(Caught(w)) /\ Len(Caught(w)) > 0
              /\ pool'[i] = [w |-> Len(worker'), ready |-> FALSE]
    <3>1. SetUp(wp, pool, i, Caught(w))
      BY <1>2, <1>6
    <3> QED
      BY <1>1, <1>2, <3>1, SetUpEffect
  <2>3. \/ Len(worker') = Len(worker) /\ pool'[i].w = pool[i].w
        \/ Len(worker') > Len(worker) /\ pool'[i].w = Len(worker')
    BY <1>2, <1>3, <2>2
  <2>4. ASSUME NEW v \in Ids, v # w
        PROVE  /\ worker'[v].st = worker[v].st
               /\ worker'[v].fut = worker[v].fut
               /\ worker'[v].slot = worker[v].slot
    <3>1. worker'[v] = wp[v] /\ ws[v] = worker[v]
      BY <1>1, <2>2, <2>4 DEF Ids
    <3>2. CASE v = q
      BY <1>5, <3>1, <3>2
    <3>3. CASE v # q
      BY <1>2, <2>4, <3>1, <3>3
    <3> QED
      BY <3>2, <3>3
  <2>5. worker'[w] = t
    BY <1>1, <1>2, <2>1, <2>2 DEF Ids
  <2>6. Evolves(w, "exited")
    BY <1>1, <1>3, <2>2, <2>3, <2>4, <2>5 DEF Evolves
  <2>7. worker'[q].fut = "pending"
    BY <1>2, <1>5, <1>6, <2>2 DEF Ids
  <2> QED
    BY <1>1, <1>2, <2>5, <2>6, <2>7 DEF q
<1>7. CASE ws[q].fut # "pending"
  <2>1. /\ Len(worker') \in Nat /\ Len(worker') >= Len(worker)
        /\ \A v \in 1..Len(worker) : worker'[v] = ws[v]
        /\ \A v \in 1..Len(worker') : v > Len(worker) => Young(worker'[v], i)
        /\ \A j \in Slots : j # i => pool'[j] = pool[j]
        /\ state = "terminating" => worker' = ws /\ pool' = pool
        /\ state # "terminating" =>
              /\ Len(worker') = Len(worker) + Len(fl) /\ Len(fl) > 0
              /\ pool'[i] = [w |-> Len(worker'), ready |-> FALSE]
    <3>1. SetUp(ws, pool, i, fl)
      BY <1>2, <1>7
    <3> QED
      BY <1>1, <1>2, <3>1, SetUpEffect
  <2>2. \/ Len(worker') = Len(worker) /\ pool'[i].w = pool[i].w
        \/ Len(worker') > Len(worker) /\ pool'[i].w = Len(worker')
    BY <1>1, <1>2, <1>3, <2>1
  <2>3. (\A v \in Ids : v # w => worker'[v] = worker[v]) /\ worker'[w] = t
    BY <1>1, <2>1 DEF Ids
  <2>4. Evolves(w, "exited")
    BY <1>1, <1>3, <2>1, <2>2, <2>3 DEF Evolves
  <2>5. state # "terminating" => Len(worker') > Len(worker)
    BY <1>2, <1>3, <2>1
  <2>6. \A v \in Ids : NoneWaits(v)
    BY <1>1, <2>3 DEF NoneWaits
  <2>7. worker[w].fut # "pending" => Len(fl) = 1
    <3>1. worker[w].fut # "pending" => Caught(w) = <<>>
      BY DEF Caught
    <3> QED
      BY <3>1, OneReplacement DEF fl
  <2>8. worker[w].fut # "pending" /\ state # "terminating" => Len(worker') = Len(worker) + 1
    BY <2>1, <2>7
  <2> QED
    BY <1>1, <1>2, <2>3, <2>4, <2>5, <2>6, <2>8 DEF q
<1> QED
  BY <1>6, <1>7

-----------------------------------------------------------------------------
(***************************************************************************)
(* The inductive invariant.  Until the pool is first shut down:            *)
(*   - there has been one start(), and nothing is terminating;             *)
(*   - a slot's worker has not exited, and while the promise start() keeps *)
(*     for a slot is pending, the slot has had no other worker;            *)
(*   - until a thread dies early, the threads that have not exited are     *)
(*     their slots' workers, and nobody waits for a promise of start().    *)
(* Always: a thread that has failed has a settled promise, and a request   *)
(* that is waited for, posted before a shutdown, is outstanding at the     *)
(* slot of a worker that has not exited.                                   *)
(***************************************************************************)
GoneSettled == \A w \in Ids : worker[w].st # "up" => worker[w].fut # "pending"

FirstRun ==
    shutdowns = 0 =>
      /\ Len(runs) <= 1 /\ closings = {}
      /\ state \in {"pending", "starting", "started"}
      /\ state = "pending" => runs = <<>>

Whole ==
    shutdowns = 0 /\ runs # <<>> =>
      \A i \in Slots :
        /\ pool[i].w \in Ids /\ Live(pool[i].w) /\ worker[pool[i].w].slot = i
        /\ worker[runs[1][i]].slot = i
        /\ worker[runs[1][i]].fut = "pending" =>
              \A w \in Ids : worker[w].slot = i => w = runs[1][i]

NoEarlyDeath == \A w \in Ids : worker[w].st = "up" \/ worker[w].fut = "ok"

InPool ==
    shutdowns = 0 /\ NoEarlyDeath =>
      \A w \in Ids : /\ Live(w) => pool[worker[w].slot].w = w
                     /\ worker[w].waiting = 0

Posted ==
    \A r \in Requests : req[r].st = "waiting" /\ req[r].open =>
      /\ req[r].at \in Ids /\ Live(req[r].at)
      /\ r \in outstanding[worker[req[r].at].slot]

IInv == TypeOK /\ Founded /\ GoneSettled /\ FirstRun /\ Whole /\ InPool /\ Posted

LEMMA InvInit == Init => IInv
  BY TypeInit DEF Init, IInv, GoneSettled, FirstRun, Whole, InPool, Posted, Ids

(* What start() does.                                                      *)
LEMMA StartEffect ==
    ASSUME TypeOK, Start
    PROVE  /\ Len(worker) \in Nat /\ Len(worker') = Len(worker) + NumSlots
           /\ \A k \in Ids : worker'[k] = worker[k]
           /\ \A k \in 1..Len(worker') : k > Len(worker) =>
                /\ worker'[k].st = "up" /\ worker'[k].fut = "pending" /\ worker'[k].waiting = 0
                /\ worker'[k].slot = k - Len(worker) - 1
           /\ \A i \in Slots : /\ Len(worker) + i + 1 \in 1..Len(worker')
                                /\ pool'[i].w = Len(worker) + i + 1
           /\ runs' = Append(runs, [i \in Slots |-> Len(worker) + i + 1])
           /\ state = "pending" /\ state' = "starting" /\ UNCHANGED <<calls, control>>
<1> DEFINE n == Len(worker)
           new == [k \in 1..NumSlots |->
                    [slot |-> k - 1, st |-> "up", fut |-> "pending",
                     retry |-> FALSE, waiting |-> 0]]
<1>1. n \in Nat /\ worker \in Seq(Thread) /\ NumSlots \in Nat
  BY WorkerPoolAssumption DEF TypeOK
<1>2. new \in Seq(Thread) /\ Len(new) = NumSlots
  <2>1. \A k \in 1..NumSlots : k - 1 \in Slots
    BY <1>1 DEF Slots
  <2>2. \A k \in 1..NumSlots : new[k] \in Thread
    BY <2>1 DEF Thread
  <2> QED
    BY <1>1, <2>2
<1>3. \A k \in 1..NumSlots : new[k].st = "up" /\ new[k].fut = "pending"
                             /\ new[k].waiting = 0 /\ new[k].slot = k - 1
  OBVIOUS
<1>4. worker' = worker \o new /\ runs' = Append(runs, [i \in Slots |-> n + i + 1])
      /\ pool' = [i \in Slots |-> [w |-> n + i + 1, ready |-> FALSE]]
      /\ state = "pending" /\ state' = "starting" /\ UNCHANGED <<calls, control>>
  BY DEF Start, StartPending
<1> HIDE DEF new
<1>5. Len(worker \o new) = n + NumSlots /\ (\A k \in 1..n : (worker \o new)[k] = worker[k])
  BY <1>1, <1>2
<1>6. ASSUME NEW k \in 1..(n + NumSlots), k > n
      PROVE  /\ (worker \o new)[k].st = "up" /\ (worker \o new)[k].fut = "pending"
             /\ (worker \o new)[k].waiting = 0 /\ (worker \o new)[k].slot = k - n - 1
  <2>1. k - n \in 1..NumSlots /\ (worker \o new)[k] = new[k - n]
    BY <1>1, <1>2, <1>6
  <2>2. (k - n) - 1 = k - n - 1
    BY <1>1
  <2> QED
    BY <1>3, <2>1, <2>2
<1>7. \A i \in Slots : n + i + 1 \in 1..(n + NumSlots)
  BY <1>1 DEF Slots
<1> QED
  BY <1>1, <1>4, <1>5, <1>6, <1>7 DEF Ids

(* Every other step leaves the threads and the pool alone.                 *)
Quiet == UNCHANGED <<worker, pool, runs>>

LEMMA QuietSteps ==
    ASSUME TypeOK, [Next]_vars
    PROVE  \/ Start \/ (\E w \in Ids : StartsUp(w) \/ Fails(w) \/ Exits(w))
           \/ /\ Quiet
              /\ \/ shutdowns' = shutdowns + 1
                 \/ shutdowns' = shutdowns /\ state' = state /\ closings' \subseteq closings
                 \/ shutdowns' = shutdowns /\ closings # {}
<1>1. Shutdown => Quiet /\ shutdowns' = shutdowns + 1
  BY DEF Shutdown, Quiet
<1>2. \A c \in closings : ShutdownEnds(c) => Quiet /\ shutdowns' = shutdowns
  BY DEF ShutdownEnds, Quiet
<1>3. \A c \in closings : ShutdownTimesOut(c) => Quiet /\ shutdowns' = shutdowns
  BY DEF ShutdownTimesOut, Quiet, threads
<1>4. \A r \in Requests :
        Queue(r) \/ Attempt(r) \/ GivesUp(r) \/ Replies(r) \/ TimesOut(r) =>
          Quiet /\ UNCHANGED <<state, shutdowns, closings>>
  BY DEF Queue, Attempt, GivesUp, Replies, TimesOut, Quiet, threads, control
<1>5. UNCHANGED vars => Quiet /\ UNCHANGED <<state, shutdowns, closings>>
  BY DEF vars, Quiet
<1> QED
  BY <1>1, <1>2, <1>3, <1>4, <1>5 DEF Next

LEMMA GoneSettledStep ==
    ASSUME IInv, [Next]_vars
    PROVE  GoneSettled'
<1>1. TypeOK /\ Founded /\ GoneSettled
  BY DEF IInv
<1>2. ASSUME NEW w \in Ids, NEW x, Evolves(w, x) PROVE GoneSettled'
  <2>1. ASSUME NEW v \in 1..Len(worker'), worker'[v].st # "up" PROVE worker'[v].fut # "pending"
    <3>1. CASE v > Len(worker)
      BY <1>2, <2>1, <3>1 DEF Evolves, Young
    <3>2. CASE ~(v > Len(worker))
      <4>1. v \in Ids
        BY <1>2, <3>2 DEF Evolves, Ids
      <4> QED
        BY <1>1, <1>2, <2>1, <4>1 DEF Evolves, GoneSettled
    <3> QED
      BY <3>1, <3>2
  <2> QED
    BY <2>1 DEF GoneSettled, Ids
<1>3. CASE Start
  <2>1. ASSUME NEW v \in 1..Len(worker'), worker'[v].st # "up" PROVE worker'[v].fut # "pending"
    <3>1. CASE v > Len(worker)
      BY <1>1, <1>3, <2>1, <3>1, StartEffect
    <3>2. CASE ~(v > Len(worker))
      <4>1. v \in Ids
        BY <1>1, <1>3, <3>2, StartEffect DEF Ids
      <4> QED
        BY <1>1, <1>3, <2>1, <4>1, StartEffect DEF GoneSettled
    <3> QED
      BY <3>1, <3>2
  <2> QED
    BY <2>1 DEF GoneSettled, Ids
<1>4. ASSUME NEW w \in Ids, StartsUp(w) \/ Fails(w) \/ Exits(w) PROVE GoneSettled'
  <2>1. runs # <<>>
    BY <1>1 DEF Founded, Ids
  <2>2. \E x \in {"up", "dying", "exited"} : Evolves(w, x)
    BY <1>1, <1>4, <2>1, StartsUpEvolves, FailsEvolves, ExitsEvolves
  <2> QED
    BY <1>2, <2>2
<1>5. CASE Quiet
  BY <1>1, <1>5 DEF Quiet, GoneSettled, Ids
<1> QED
  BY <1>1, <1>3, <1>4, <1>5, QuietSteps

LEMMA FirstRunStep ==
    ASSUME IInv, [Next]_vars
    PROVE  FirstRun'
<1>1. TypeOK /\ Founded /\ FirstRun /\ shutdowns \in Nat
  BY DEF IInv, TypeOK
<1> SUFFICES ASSUME shutdowns' = 0
             PROVE  /\ Len(runs') <= 1 /\ closings' = {}
                    /\ state' \in {"pending", "starting", "started"}
                    /\ state' = "pending" => runs' = <<>>
  BY DEF FirstRun
<1>2. CASE Start
  <2>1. runs' = Append(runs, [i \in Slots |-> Len(worker) + i + 1]) /\ state = "pending"
        /\ state' = "starting" /\ UNCHANGED control
    BY <1>1, <1>2, StartEffect
  <2>2. runs = <<>> /\ closings' = {}
    BY <1>1, <2>1 DEF FirstRun, control
  <2> QED
    BY <2>1, <2>2
<1>3. ASSUME NEW w \in Ids, StartsUp(w) \/ Fails(w) \/ Exits(w)
      PROVE  /\ Len(runs') <= 1 /\ closings' = {}
             /\ state' \in {"pending", "starting", "started"}
             /\ state' = "pending" => runs' = <<>>
  <2>1. UNCHANGED <<runs, control>> /\ state' \in {state, "started"}
    BY <1>3 DEF StartsUp, Fails, Exits
  <2> QED
    BY <1>1, <2>1 DEF FirstRun, control
<1>4. CASE Quiet /\ shutdowns' = shutdowns + 1
  BY <1>1, <1>4
<1>5. CASE Quiet /\ shutdowns' = shutdowns /\ state' = state /\ closings' \subseteq closings
  BY <1>1, <1>5 DEF FirstRun, Quiet
<1>6. CASE shutdowns' = shutdowns /\ closings # {}
  BY <1>1, <1>6 DEF FirstRun
<1> QED
  BY <1>1, <1>2, <1>3, <1>4, <1>5, <1>6, QuietSteps

LEMMA OneOnly == ASSUME NEW n \in Nat, n # 0, n <= 1 PROVE n = 1
  OBVIOUS

LEMMA WholeStep ==
    ASSUME IInv, [Next]_vars
    PROVE  Whole'
<1>1. TypeOK /\ Founded /\ GoneSettled /\ FirstRun /\ Whole /\ shutdowns \in Nat
  BY DEF IInv, TypeOK
<1> SUFFICES ASSUME shutdowns' = 0, runs' # <<>>, NEW i \in Slots
             PROVE  /\ pool'[i].w \in Ids' /\ worker'[pool'[i].w].st # "exited"
                    /\ worker'[pool'[i].w].slot = i
                    /\ worker'[runs'[1][i]].slot = i
                    /\ worker'[runs'[1][i]].fut = "pending" =>
                          \A w \in Ids' : worker'[w].slot = i => w = runs'[1][i]
  BY DEF Whole, Live
<1> DEFINE q == runs[1][i]
<1>2. CASE Start
  <2>1. /\ Len(worker) \in Nat /\ Len(worker') = Len(worker) + NumSlots
        /\ \A k \in 1..Len(worker') : k > Len(worker) =>
              worker'[k].st = "up" /\ worker'[k].slot = k - Len(worker) - 1
        /\ Len(worker) + i + 1 \in 1..Len(worker') /\ pool'[i].w = Len(worker) + i + 1
        /\ runs' = Append(runs, [j \in Slots |-> Len(worker) + j + 1])
        /\ state = "pending" /\ UNCHANGED control
    BY <1>1, <1>2, StartEffect
  <2>2. runs = <<>> /\ Len(worker) = 0
    BY <1>1, <2>1 DEF FirstRun, Founded, control
  <2>3. runs'[1] = [j \in Slots |-> Len(worker) + j + 1]
    BY <2>1, <2>2
  <2>4. runs'[1][i] = i + 1 /\ pool'[i].w = i + 1 /\ i \in Nat
    BY <2>1, <2>2, <2>3, SlotsExist
  <2>5. \A k \in 1..Len(worker') : worker'[k].st = "up" /\ worker'[k].slot = k - 1
    <3>1. Len(worker') = NumSlots /\ NumSlots \in Nat
      BY <2>1, <2>2, WorkerPoolAssumption
    <3>2. \A k \in 1..NumSlots : k > 0 /\ k - 0 - 1 = k - 1
      BY <3>1
    <3> QED
      BY <2>1, <2>2, <3>1, <3>2
  <2>6. i + 1 \in 1..Len(worker')
    <3>1. Len(worker) + i + 1 = i + 1
      BY <2>2, <2>4
    <3> QED
      BY <2>1, <3>1
  <2>7. worker'[i + 1].slot = i
    BY <2>4, <2>5, <2>6
  <2>8. \A w \in 1..Len(worker') : worker'[w].slot = i => w = i + 1
    BY <2>4, <2>5
  <2> QED
    BY <2>4, <2>5, <2>6, <2>7, <2>8 DEF Ids
<1>3. ASSUME NEW w \in Ids, StartsUp(w) \/ Fails(w) \/ Exits(w)
      PROVE  /\ pool'[i].w \in Ids' /\ worker'[pool'[i].w].st # "exited"
             /\ worker'[pool'[i].w].slot = i
             /\ worker'[q].slot = i
             /\ worker'[q].fut = "pending" => \A v \in Ids' : worker'[v].slot = i => v = q
  <2>1. runs # <<>> /\ shutdowns = 0
    <3>1. UNCHANGED control
      BY <1>3 DEF StartsUp, Fails, Exits
    <3> QED
      BY <1>1, <3>1 DEF Founded, Ids, control
  <2>2. /\ pool[i].w \in Ids /\ worker[pool[i].w].st # "exited" /\ worker[pool[i].w].slot = i
        /\ worker[q].slot = i /\ q \in Ids
        /\ worker[q].fut = "pending" => \A v \in Ids : worker[v].slot = i => v = q
    <3>1. 1 \in 1..Len(runs) /\ runs \in Seq([Slots -> Ids])
      BY <1>1, <2>1 DEF TypeOK
    <3>2. q \in Ids
      BY <3>1
    <3> QED
      BY <1>1, <2>1, <3>2 DEF Whole, Live
  <2>3. Len(runs) = 1 /\ state # "terminating"
    <3>1. Len(runs) \in Nat /\ Len(runs) # 0
      BY <1>1, <2>1 DEF TypeOK
    <3>2. Len(runs) <= 1 /\ state # "terminating"
      BY <1>1, <2>1 DEF FirstRun
    <3> QED
      BY <3>1, <3>2, OneOnly
  <2>4. PICK x \in {"up", "dying", "exited"} :
             /\ Evolves(w, x)
             /\ x = "exited" => /\ worker'[runs[1][worker[w].slot]].fut # "pending" =>
                                       Len(worker') > Len(worker)
    BY <1>1, <1>3, <2>1, <2>3, StartsUpEvolves, FailsEvolves, ExitsEvolves
  <2>5. Ids \subseteq Ids' /\ Len(worker) \in Nat /\ Len(worker') \in Nat
    BY <2>4 DEF Evolves, Ids
  <2>6. worker'[q].slot = i
    BY <2>2, <2>4 DEF Evolves
  <2>7. CASE worker[w].slot # i
    <3>1. pool'[i] = pool[i] /\ pool[i].w # w
      BY <2>2, <2>4, <2>7 DEF Evolves
    <3>2. worker'[pool[i].w].st = worker[pool[i].w].st /\ worker'[pool[i].w].slot = i
      BY <2>2, <2>4, <3>1 DEF Evolves
    <3>3. ASSUME worker'[q].fut = "pending", NEW v \in 1..Len(worker'), worker'[v].slot = i
          PROVE  v = q
      <4>1. v \in Ids
        BY <2>4, <2>5, <2>7, <3>3 DEF Evolves, Young, Ids
      <4> QED
        BY <2>2, <2>4, <2>7, <3>3, <4>1 DEF Evolves
    <3> QED
      BY <2>2, <2>5, <2>6, <3>1, <3>2, <3>3 DEF Ids
  <2>8. CASE worker[w].slot = i
    <3>1. worker'[w].fut # "pending"
      BY <2>4 DEF Evolves
    <3>2. worker'[q].fut # "pending"
      <4>1. CASE q = w
        BY <3>1, <4>1
      <4>2. CASE q # w
        BY <2>2, <2>4, <2>8, <4>2 DEF Evolves
      <4> QED
        BY <4>1, <4>2
    <3>3. CASE Len(worker') > Len(worker)
      <4>1. pool'[i].w = Len(worker') /\ Len(worker') \in 1..Len(worker')
        BY <2>4, <2>5, <2>8, <3>3 DEF Evolves
      <4>2. Young(worker'[Len(worker')], i)
        BY <2>4, <2>8, <3>3, <4>1 DEF Evolves
      <4> QED
        BY <2>6, <3>2, <4>1, <4>2 DEF Young, Ids
    <3>4. CASE ~(Len(worker') > Len(worker))
      <4>1. pool'[i].w = pool[i].w /\ x # "exited"
        BY <2>4, <2>8, <3>2, <3>4 DEF Evolves
      <4>2. worker'[pool[i].w].st # "exited" /\ worker'[pool[i].w].slot = i
        BY <2>2, <2>4, <4>1 DEF Evolves
      <4> QED
        BY <2>2, <2>5, <2>6, <3>2, <4>1, <4>2
    <3> QED
      BY <3>3, <3>4
  <2> QED
    BY <2>7, <2>8
<1>4. CASE Quiet /\ shutdowns' = shutdowns + 1
  BY <1>1, <1>4
<1>5. CASE Quiet /\ shutdowns' = shutdowns
  BY <1>1, <1>5 DEF Whole, Live, Quiet, Ids
<1>6. \A w \in Ids : StartsUp(w) \/ Fails(w) \/ Exits(w) => runs' = runs
  BY DEF StartsUp, Fails, Exits
<1> QED
  BY <1>1, <1>2, <1>3, <1>4, <1>5, <1>6, QuietSteps

LEMMA InPoolStep ==
    ASSUME IInv, [Next]_vars
    PROVE  InPool'
<1>1. TypeOK /\ Founded /\ GoneSettled /\ FirstRun /\ Whole /\ InPool /\ shutdowns \in Nat
  BY DEF IInv, TypeOK
<1> SUFFICES ASSUME shutdowns' = 0, NoEarlyDeath', NEW v \in Ids'
             PROVE  /\ worker'[v].st # "exited" => pool'[worker'[v].slot].w = v
                    /\ worker'[v].waiting = 0
  BY DEF InPool, Live
<1> DEFINE Fine == /\ worker'[v].st # "exited" => pool'[worker'[v].slot].w = v
                   /\ worker'[v].waiting = 0
<1>2. CASE Start
  <2>1. /\ Len(worker) \in Nat
        /\ \A k \in 1..Len(worker') : k > Len(worker) =>
              worker'[k].waiting = 0 /\ worker'[k].slot = k - Len(worker) - 1
        /\ Len(worker') = Len(worker) + NumSlots
        /\ \A i \in Slots : pool'[i].w = Len(worker) + i + 1
        /\ state = "pending" /\ UNCHANGED control
    BY <1>1, <1>2, StartEffect
  <2>2. Len(worker) = 0
    BY <1>1, <2>1 DEF FirstRun, Founded, control
  <2>3. v \in 1..NumSlots /\ NumSlots \in Nat
    BY <2>1, <2>2, WorkerPoolAssumption DEF Ids
  <2>4. v \in 1..Len(worker') /\ v > Len(worker)
    BY <2>2, <2>3 DEF Ids
  <2>5. worker'[v].waiting = 0 /\ worker'[v].slot = v - 1
    BY <2>1, <2>2, <2>3, <2>4
  <2>6. v - 1 \in Slots /\ 0 + (v - 1) + 1 = v
    BY <2>3 DEF Slots
  <2>7. pool'[v - 1].w = v
    BY <2>1, <2>2, <2>6
  <2> QED
    BY <2>5, <2>7
<1>3. ASSUME NEW w \in Ids, StartsUp(w) \/ Fails(w) \/ Exits(w)
      PROVE  Fine
  <2> DEFINE i == worker[w].slot
             q == runs[1][i]
  <2>1. runs # <<>> /\ shutdowns = 0
    <3>1. UNCHANGED control
      BY <1>3 DEF StartsUp, Fails, Exits
    <3> QED
      BY <1>1, <3>1 DEF Founded, Ids, control
  <2>2. Len(runs) = 1 /\ state # "terminating"
    <3>1. Len(runs) \in Nat /\ Len(runs) # 0
      BY <1>1, <2>1 DEF TypeOK
    <3>2. Len(runs) <= 1 /\ state # "terminating"
      BY <1>1, <2>1 DEF FirstRun
    <3> QED
      BY <3>1, <3>2, OneOnly
  <2>3. PICK x \in {"up", "dying", "exited"} :
             /\ Evolves(w, x)
             /\ x = "up" => /\ worker[w].waiting = 0 => Len(worker') = Len(worker)
                            /\ \A u \in Ids : NoneWaits(u)
             /\ x # "up" => (worker[w].fut = "pending" => worker'[w].fut = "bad")
             /\ x = "dying" => /\ worker[w].fut # "pending" => Len(worker') = Len(worker)
                               /\ \A u \in Ids : NoneWaits(u)
             /\ x = "exited" /\ worker'[q].fut # "pending" =>
                                  /\ worker[w].fut # "pending" => Len(worker') = Len(worker) + 1
                                  /\ \A u \in Ids : NoneWaits(u)
    BY <1>1, <1>3, <2>1, <2>2, StartsUpEvolves, FailsEvolves, ExitsEvolves
  <2>4. Ids \subseteq Ids' /\ Len(worker) \in Nat /\ Len(worker') \in Nat /\ i \in Slots
    BY <2>3 DEF Evolves, Ids
  <2>5. \A u \in Ids : worker'[u].st = "up" \/ worker'[u].fut = "ok"
    BY <2>4 DEF NoEarlyDeath
  <2>6. NoEarlyDeath
    <3>1. ASSUME NEW u \in Ids PROVE worker[u].st = "up" \/ worker[u].fut = "ok"
      <4>1. CASE u # w
        BY <2>3, <2>5, <4>1 DEF Evolves
      <4>2. CASE u = w /\ worker[w].st # "up"
        <5>1. worker[w].fut # "pending" /\ x # "up"
          <6>1. worker[w].fut # "pending"
            BY <1>1, <4>2 DEF GoneSettled
          <6>2. ~StartsUp(w)
            BY <4>2 DEF StartsUp
          <6>3. ~Fails(w)
            BY <4>2 DEF Fails
          <6>4. worker'[w].st = "exited"
            BY <1>1, <1>3, <2>1, <6>2, <6>3, ExitsEvolves DEF Evolves
          <6> QED
            BY <2>3, <6>1, <6>4 DEF Evolves
        <5>2. worker'[w].fut = worker[w].fut /\ worker'[w].st = x
          BY <2>3, <5>1 DEF Evolves
        <5> QED
          BY <2>5, <4>2, <5>1, <5>2
      <4> QED
        BY <4>1, <4>2
    <3> QED
      BY <3>1 DEF NoEarlyDeath
  <2>7. \A u \in Ids : (worker[u].st # "exited" => pool[worker[u].slot].w = u) /\ worker[u].waiting = 0
    BY <1>1, <2>1, <2>6 DEF InPool, Live
  <2>8. CASE x = "up"
    <3>1. Len(worker') = Len(worker) /\ v \in Ids /\ (\A u \in Ids : NoneWaits(u))
      BY <2>3, <2>7, <2>8 DEF Ids
    <3>2. worker'[v].st # "exited" => worker[v].st # "exited" \/ v = w
      BY <2>3, <3>1 DEF Evolves
    <3>3. worker[w].st # "exited"
      BY <1>3, <2>3, <2>8 DEF StartsUp, Fails, Exits, Live
    <3>4. \A j \in Slots : pool'[j].w = pool[j].w
      BY <2>3, <2>4, <3>1 DEF Evolves
    <3>5. worker'[v].slot = worker[v].slot /\ worker[v].slot \in Slots
      <4>1. worker[v] \in Thread
        BY <1>1, <3>1 DEF TypeOK, Ids
      <4> QED
        BY <2>3, <3>1, <4>1 DEF Evolves, Thread
    <3> QED
      BY <2>7, <3>1, <3>2, <3>3, <3>4, <3>5 DEF NoneWaits
  <2>9. CASE x # "up"
    <3>1. worker'[w].fut = "ok" /\ worker'[w].st = x
      BY <2>3, <2>5, <2>9 DEF Evolves
    <3>2. worker[w].st # "exited"
      BY <1>3 DEF StartsUp, Fails, Exits, Live
    <3>3. pool[i].w = w
      BY <2>7, <3>2
    <3>4. worker[w].fut # "pending"
      BY <2>3, <2>9, <3>1
    <3>5. \A u \in Ids : worker'[u].st = "exited" \/ u = w \/ pool[worker[u].slot].w = u
      BY <2>3, <2>7 DEF Evolves
    <3>6. \A u \in Ids : worker'[u].slot = worker[u].slot /\ worker[u].slot \in Slots
      <4>1. ASSUME NEW u \in Ids PROVE worker[u].slot \in Slots
        <5>1. worker[u] \in Thread
          BY <1>1 DEF TypeOK, Ids
        <5> QED
          BY <5>1 DEF Thread
      <4> QED
        BY <2>3, <4>1 DEF Evolves
    <3>7. CASE x = "dying"
      <4>1. Len(worker') = Len(worker) /\ v \in Ids /\ (\A u \in Ids : NoneWaits(u))
        BY <2>3, <3>4, <3>7 DEF Ids
      <4>2. \A j \in Slots : pool'[j].w = pool[j].w
        BY <2>3, <2>4, <4>1 DEF Evolves
      <4> QED
        BY <2>7, <3>3, <3>5, <3>6, <4>1, <4>2 DEF NoneWaits
    <3>8. CASE x = "exited"
      <4>1. worker'[q].fut # "pending"
        <5>1. q \in Ids
          <6>1. 1 \in 1..Len(runs) /\ runs \in Seq([Slots -> Ids])
            BY <1>1, <2>2 DEF TypeOK
          <6> QED
            BY <2>4, <6>1
        <5>2. worker[q].fut = "pending" => w = q
          BY <1>1, <2>1, <2>4 DEF Whole
        <5>3. worker[q].fut # "pending"
          BY <3>4, <5>2
        <5>4. CASE q = w
          BY <3>1, <5>4
        <5>5. CASE q # w
          BY <2>3, <5>1, <5>3, <5>5 DEF Evolves
        <5> QED
          BY <5>4, <5>5
      <4>2. Len(worker') = Len(worker) + 1 /\ (\A u \in Ids : NoneWaits(u))
        BY <2>3, <3>4, <3>8, <4>1
      <4>3. pool'[i].w = Len(worker') /\ (\A j \in Slots : j # i => pool'[j].w = pool[j].w)
        BY <2>3, <2>4, <4>2 DEF Evolves
      <4>4. CASE v \in Ids
        BY <2>7, <3>1, <3>3, <3>5, <3>6, <3>8, <4>2, <4>3, <4>4 DEF NoneWaits
      <4>5. CASE v \notin Ids
        <5>1. v = Len(worker') /\ v > Len(worker) /\ v \in 1..Len(worker')
          BY <2>4, <4>2, <4>5 DEF Ids
        <5>2. Young(worker'[v], i)
          BY <2>3, <5>1 DEF Evolves
        <5> QED
          BY <4>3, <5>1, <5>2 DEF Young
      <4> QED
        BY <4>4, <4>5
    <3> QED
      BY <2>3, <2>9, <3>7, <3>8
  <2> QED
    BY <2>8, <2>9
<1>4. CASE Quiet /\ shutdowns' = shutdowns + 1
  BY <1>1, <1>4
<1>5. CASE Quiet /\ shutdowns' = shutdowns
  <2>1. NoEarlyDeath /\ shutdowns = 0 /\ v \in Ids
    BY <1>5 DEF NoEarlyDeath, Quiet, Ids
  <2> QED
    BY <1>1, <1>5, <2>1 DEF InPool, Live, Quiet
<1> QED
  BY <1>1, <1>2, <1>3, <1>4, <1>5, QuietSteps

LEMMA PostedStep ==
    ASSUME IInv, [Next]_vars
    PROVE  Posted'
<1>1. TypeOK /\ Founded /\ Whole /\ FirstRun /\ Posted
  BY DEF IInv
<1> DEFINE Kept(r) == req[r].st = "waiting" /\ req[r].open
           Safe(r) == /\ req'[r].at \in Ids' /\ worker'[req'[r].at].st # "exited"
                      /\ r \in outstanding'[worker'[req'[r].at].slot]
<1> SUFFICES ASSUME NEW r \in Requests, req'[r].st = "waiting", req'[r].open
             PROVE  Safe(r)
  BY DEF Posted, Live
<1>2. Kept(r) => /\ req[r].at \in Ids /\ worker[req[r].at].st # "exited"
                 /\ r \in outstanding[worker[req[r].at].slot]
  BY <1>1 DEF Posted, Live
<1>3. CASE Start
  <2>1. /\ \A k \in Ids : worker'[k] = worker[k]
        /\ req' = req /\ outstanding' = outstanding
        /\ Len(worker) \in Nat /\ Len(worker') = Len(worker) + NumSlots
    BY <1>1, <1>3, StartEffect DEF calls
  <2>2. Ids \subseteq 1..(Len(worker) + NumSlots)
    BY <2>1, WorkerPoolAssumption DEF Ids
  <2> QED
    BY <1>2, <2>1, <2>2 DEF Ids
<1>4. ASSUME NEW w \in Ids, StartsUp(w) PROVE Safe(r)
  <2>1. Evolves(w, "up") /\ req' = req /\ outstanding' = outstanding
    BY <1>1, <1>4, StartsUpEvolves DEF calls
  <2>2. Kept(r) /\ Ids \subseteq Ids'
    BY <2>1 DEF Evolves, Ids
  <2> QED
    BY <1>2, <2>1, <2>2 DEF Evolves
<1>5. ASSUME NEW w \in Ids, Fails(w) \/ Exits(w) PROVE Safe(r)
  <2>1. runs # <<>>
    BY <1>1 DEF Founded, Ids
  <2>2. PICK x \in {"dying", "exited"} :
          /\ Evolves(w, x) /\ OutstandingFail(worker[w].slot)
          /\ outstanding' = [outstanding EXCEPT ![worker[w].slot] = {}]
    BY <1>1, <1>5, <2>1, FailsEvolves, ExitsEvolves
  <2>3. /\ r \in outstanding[worker[w].slot] => req'[r].st = "done"
        /\ r \notin outstanding[worker[w].slot] => req'[r] = req[r]
    <3>1. Len(worker) \in Nat /\ req \in [Requests -> Request(Len(worker))]
      BY <1>1 DEF TypeOK, Request
    <3> QED
      BY <2>2, <3>1, OutstandingFailOK
  <2>4. r \notin outstanding[worker[w].slot] /\ req'[r] = req[r] /\ Kept(r)
    BY <2>3
  <2>5. req[r].at \in Ids /\ worker[req[r].at].slot # worker[w].slot
    BY <1>2, <2>4
  <2>6. /\ worker'[req[r].at].st = worker[req[r].at].st
        /\ worker'[req[r].at].slot = worker[req[r].at].slot
    BY <2>2, <2>5 DEF Evolves
  <2>7. worker[req[r].at].slot \in Slots
    <3>1. worker[req[r].at] \in Thread
      BY <1>1, <2>5 DEF TypeOK, Ids
    <3> QED
      BY <3>1 DEF Thread
  <2>8. r \in outstanding'[worker[req[r].at].slot]
    BY <1>1, <1>2, <2>2, <2>4, <2>5, <2>7 DEF TypeOK
  <2>9. Ids \subseteq Ids'
    BY <2>2 DEF Evolves, Ids
  <2> QED
    BY <1>2, <2>4, <2>6, <2>8, <2>9
<1>6. ASSUME NEW r0 \in Requests, Attempt(r0) PROVE Safe(r)
  <2>1. UNCHANGED <<worker, pool, runs>> /\ runs # <<>> /\ next \in Slots
    BY <1>1, <1>6 DEF Attempt, threads, TypeOK
  <2>2. CASE r0 = r /\ pool[next].ready
    <3>1. req'[r] = [st |-> "waiting", at |-> pool[next].w, open |-> shutdowns = 0]
          /\ r \in outstanding'[next]
      BY <1>1, <1>6, <2>1, <2>2 DEF Attempt, TypeOK
    <3>2. shutdowns = 0
      <4> SUFFICES ASSUME shutdowns # 0 PROVE FALSE
        OBVIOUS
      <4>1. (shutdowns = 0) = FALSE
        OBVIOUS
      <4>2. req'[r] = [st |-> "waiting", at |-> pool[next].w, open |-> FALSE]
        BY <3>1, <4>1, Zenon
      <4>3. req'[r].open = FALSE
        BY <4>2
      <4> QED
        BY <4>3
    <3>3. req'[r].at = pool[next].w
      BY <3>1
    <3>4. pool[next].w \in Ids /\ worker[pool[next].w].st # "exited"
          /\ worker[pool[next].w].slot = next
      BY <1>1, <2>1, <3>2 DEF Whole, Live
    <3> QED
      BY <2>1, <3>1, <3>2, <3>3, <3>4 DEF Ids
  <2>3. CASE ~(r0 = r /\ pool[next].ready)
    <3>1. req'[r] = req[r]
      BY <1>1, <1>6, <2>3 DEF Attempt, TypeOK
    <3>2. ASSUME NEW i \in Slots PROVE outstanding[i] \subseteq outstanding'[i]
      <4>1. \/ outstanding' = [outstanding EXCEPT ![next] = @ \cup {r0}]
            \/ outstanding' = outstanding
        BY <1>6 DEF Attempt
      <4>2. DOMAIN outstanding = Slots
        BY <1>1 DEF TypeOK
      <4> QED
        BY <4>1, <4>2
    <3>3. req[r].at \in Ids /\ worker[req[r].at].slot \in Slots
      <4>1. worker[req[r].at] \in Thread /\ req[r].at \in Ids
        BY <1>1, <1>2, <3>1 DEF TypeOK, Ids
      <4> QED
        BY <4>1 DEF Thread
    <3> QED
      BY <1>2, <2>1, <3>1, <3>2, <3>3 DEF Ids
  <2> QED
    BY <2>2, <2>3
<1>7. ASSUME NEW r0 \in Requests, Queue(r0) \/ GivesUp(r0) \/ TimesOut(r0) PROVE Safe(r)
  <2>1. UNCHANGED <<worker, outstanding>>
    BY <1>7 DEF Queue, GivesUp, TimesOut, threads
  <2>2. PICK x \in {"queued", "done", "expired"} : req' = [req EXCEPT ![r0].st = x]
    BY <1>7 DEF Queue, GivesUp, TimesOut
  <2>3. r # r0
    <3>1. [req[r0] EXCEPT !.st = x].st = x
      BY <1>1 DEF TypeOK
    <3>2. req'[r0].st = x
      BY <1>1, <2>2, <3>1 DEF TypeOK
    <3> QED
      BY <3>2
  <2>4. req'[r] = req[r]
    BY <1>1, <2>2, <2>3 DEF TypeOK
  <2> QED
    BY <1>2, <2>1, <2>4 DEF Ids
<1>8. ASSUME NEW r0 \in Requests, Replies(r0) PROVE Safe(r)
  <2>1. /\ UNCHANGED worker
        /\ req' = [req EXCEPT ![r0] = [req[r0] EXCEPT !.st = "done", !.at = 0]]
        /\ outstanding' = [outstanding EXCEPT ![worker[req[r0].at].slot] = @ \ {r0}]
    BY <1>8 DEF Replies, threads
  <2>2. r # r0
    <3>1. [req[r0] EXCEPT !.st = "done", !.at = 0].st = "done"
      BY <1>1 DEF TypeOK
    <3>2. req'[r0].st = "done"
      BY <1>1, <2>1, <3>1 DEF TypeOK
    <3> QED
      BY <3>2
  <2>3. req'[r] = req[r]
    BY <1>1, <2>1, <2>2 DEF TypeOK
  <2>4. \A i \in Slots : r \in outstanding[i] => r \in outstanding'[i]
    BY <1>1, <2>1, <2>2 DEF TypeOK
  <2>5. req[r].at \in Ids /\ worker[req[r].at].slot \in Slots
    <3>1. worker[req[r].at] \in Thread /\ req[r].at \in Ids
      BY <1>1, <1>2, <2>3 DEF TypeOK, Ids
    <3> QED
      BY <3>1 DEF Thread
  <2> QED
    BY <1>2, <2>1, <2>3, <2>4, <2>5 DEF Ids
<1>9. CASE UNCHANGED <<worker, req, outstanding>>
  BY <1>2, <1>9 DEF Ids
<1>10. Shutdown \/ (\E c \in closings : ShutdownEnds(c) \/ ShutdownTimesOut(c)) \/ UNCHANGED vars
         => UNCHANGED <<worker, req, outstanding>>
  BY DEF Shutdown, ShutdownEnds, ShutdownTimesOut, vars, calls, threads
<1> QED
  BY <1>3, <1>4, <1>5, <1>6, <1>7, <1>8, <1>9, <1>10 DEF Next

LEMMA InvStep == IInv /\ [Next]_vars => IInv'
<1> SUFFICES ASSUME IInv, [Next]_vars PROVE IInv'
  OBVIOUS
<1>1. TypeOK' /\ Founded'
  BY TypeStep, FoundedStep DEF IInv
<1> QED
  BY <1>1, GoneSettledStep, FirstRunStep, WholeStep, InPoolStep, PostedStep DEF IInv

LEMMA Invariance == Spec => []IInv
  BY InvInit, InvStep, PTL DEF Spec

(* However many workers die, no caller that was there before the pool was  *)
(* shut down waits for one that has exited.                                *)
THEOREM CallersAreAnswered == Spec => []NobodyWaitsForTheDead
<1>1. IInv => NobodyWaitsForTheDead
  BY DEF IInv, Posted, NobodyWaitsForTheDead
<1> QED
  BY Invariance, <1>1, PTL

(* start() builds one thread per slot and an exit replaces one by one,     *)
(* until a thread dies before it has started.                              *)
THEOREM ThreadsAreInThePool == Spec => []EveryWorkerInPool
<1>1. IInv => EveryWorkerInPool
  <2> SUFFICES ASSUME IInv, shutdowns = 0,
                      \A w \in Ids : worker[w].st = "up" \/ worker[w].fut = "ok",
                      NEW w \in Ids, worker[w].st = "up"
               PROVE  pool[worker[w].slot].w = w
    BY DEF EveryWorkerInPool
  <2> QED
    BY DEF IInv, InPool, NoEarlyDeath, Live
<1> QED
  BY Invariance, <1>1, PTL
=============================================================================
