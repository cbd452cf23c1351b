------------------------------- MODULE Session -------------------------------
(***************************************************************************)
(* Stream sessions: stream/Session.ts, its ConnectionTracker and the three *)
(* families of subclass the server runs -- HlsSession, HlsSlowerSession    *)
(* and ConcatSession.  A session is an instance: two sessions created one  *)
(* after the other under the same key are different instances.             *)
(*                                                                         *)
(* This module holds the state of every instance and the state functions   *)
(* that start(), stop(), scheduleCleanup() and the connection calls are    *)
(* made of.  SessionManager owns the map of sessions and the listeners on  *)
(* a session's events, so the steps themselves are there.                  *)
(*                                                                         *)
(* `lock` of a session is an async-mutex Mutex: `queue` lists the          *)
(* runExclusive calls in the order they were made, the head being the one  *)
(* that holds the lock (or is about to).  The calls of trimPlaylist, which *)
(* take the lock as well, are left out: they only delay the others, and    *)
(* what they do to the playlist is in HlsPlaylist.                         *)
(***************************************************************************)
EXTENDS Naturals, Sequences, FiniteSets

CONSTANTS
    Channels,          \* channel ids
    Types,             \* the session types in play, a subset of SessionType
    Instances,         \* identities a Session object can have
    Clients,           \* the callers of the manager; also the connection tokens
    InternalClients,   \* clients whose user agent is Tunarr's own ffmpeg
    NoSession,         \* `undefined` where a session is expected
    GracePeriod,       \* is the cleanup delay positive (sessionCleanupDelaySeconds)?
    MaxQueue,          \* bound: calls waiting for one session's lock
    MaxWorkers,        \* bound: run loops one HlsSession has going at once
    MaxLate,           \* bound: sessions with a stream left behind at once
    RunRejects         \* may run() reject?

HlsTypes    == {"hls", "hls_direct_v2"}
SlowerTypes == {"hls_slower"}
ConcatOf    == [t \in HlsTypes \cup SlowerTypes |->
                  CASE t = "hls" -> "hls_concat"
                    [] t = "hls_direct_v2" -> "hls_direct_v2_concat"
                    [] t = "hls_slower" -> "hls_slower_concat"]
ConcatTypes == {"hls_concat", "hls_direct_v2_concat", "hls_slower_concat"}
SessionType == HlsTypes \cup SlowerTypes \cup ConcatTypes

ASSUME SessionAssumption ==
    /\ Types \subseteq SessionType
    /\ InternalClients \subseteq Clients
    /\ IsFiniteSet(Instances)
    /\ NoSession \notin Instances
    /\ GracePeriod \in BOOLEAN
    /\ MaxQueue \in Nat
    /\ MaxWorkers \in Nat
    /\ MaxLate \in Nat
    /\ RunRejects \in BOOLEAN
    /\ Clients \cap {"tracker", "nobody"} = {}

Key   == Channels \X Types
NoKey == <<>>

(* Who awaits a call on the session lock: a client of the manager, the     *)
(* connection tracker (whose .finally() emits `cleanup`), or nobody.       *)
Caller == Clients \cup {"tracker", "nobody"}
Job    == [op : {"start", "stop"}, by : Caller]
State  == {"init", "starting", "started", "error", "stopped"}

VARIABLES
    keyOf,     \* the key an instance was created under, NoKey before
    state,     \* Session.#state
    queue,     \* Session.lock
    phase,     \* where the holder of the lock is suspended
    stream,    \* startInternal has acquired the stream, stopInternal not released it
    workers,   \* HlsSession.run() loops that have not returned
    late,      \* a program or error stream outlives the loop or stream it was for
    conns,     \* ConnectionTracker.#connections
    fresh,     \* the connections whose heartbeat is within stalenessMs
    timer,     \* ConnectionTracker.#cleanupFunc is set
    due        \* stop() settled for the tracker, `cleanup` still to be emitted

sessionVars == <<keyOf, state, queue, phase, stream, workers, late,
                 conns, fresh, timer, due>>

TypeOf(s)   == keyOf[s][2]
IsHls(s)    == keyOf[s] # NoKey /\ TypeOf(s) \in HlsTypes
IsSlower(s) == keyOf[s] # NoKey /\ TypeOf(s) \in SlowerTypes
IsConcat(s) == keyOf[s] # NoKey /\ TypeOf(s) \in ConcatTypes

SessionTypeOK ==
    /\ keyOf   \in [Instances -> Key \cup {NoKey}]
    /\ state   \in [Instances -> State]
    /\ queue   \in [Instances -> Seq(Job)]
    /\ phase   \in [Instances -> {"idle", "init", "ready", "stopping"}]
    /\ stream  \in [Instances -> BOOLEAN]
    /\ workers \in [Instances -> Nat]
    /\ late    \in [Instances -> BOOLEAN]
    /\ conns   \in [Instances -> SUBSET Clients]
    /\ fresh   \in [Instances -> SUBSET Clients]
    /\ timer   \in [Instances -> BOOLEAN]
    /\ due     \in [Instances -> BOOLEAN]

SessionInit ==
    /\ keyOf   = [s \in Instances |-> NoKey]
    /\ state   = [s \in Instances |-> "init"]
    /\ queue   = [s \in Instances |-> <<>>]
    /\ phase   = [s \in Instances |-> "idle"]
    /\ stream  = [s \in Instances |-> FALSE]
    /\ workers = [s \in Instances |-> 0]
    /\ late    = [s \in Instances |-> FALSE]
    /\ conns   = [s \in Instances |-> {}]
    /\ fresh   = [s \in Instances |-> {}]
    /\ timer   = [s \in Instances |-> FALSE]
    /\ due     = [s \in Instances |-> FALSE]

-----------------------------------------------------------------------------
(* The session lock. *)

Start(c) == [op |-> "start", by |-> c]
Stop(c)  == [op |-> "stop",  by |-> c]

Free(s)    == phase[s] = "idle"
Running(s) == Head(queue[s])
RoomFor(T) == \A s \in T : Len(queue[s]) < MaxQueue

(* q after stop() is called on every session of T by `by`, and the timers  *)
(* that survive: stop() cancels the pending cleanup before it waits.       *)
WithStops(q, T, by) ==
    [s \in Instances |-> IF s \in T THEN Append(q[s], Stop(by)) ELSE q[s]]
TimersWithout(T) == [s \in Instances |-> timer[s] /\ s \notin T]

Released(s) == [queue EXCEPT ![s] = Tail(@)]

-----------------------------------------------------------------------------
(* Connections and staleness. *)

AddConnection(s, c) ==
    /\ conns' = [conns EXCEPT ![s] = @ \cup {c}]
    /\ fresh' = [fresh EXCEPT ![s] = @ \cup {c}]
    /\ timer' = [timer EXCEPT ![s] = FALSE]

(* What isStale() leaves connected.  Base and HLS sessions drop the        *)
(* connections whose heartbeat is old; a raw concat stream has none.       *)
Alive(s) == IF IsConcat(s) THEN conns[s] ELSE conns[s] \cap fresh[s]

(* scheduleCleanup() on a session whose state is st: it stops a failed     *)
(* session at once, and otherwise arms the timer or, without a grace       *)
(* period, cleans up at once.                                              *)
StopsAtOnce(s, st) == st = "error" \/ (~timer[s] /\ ~GracePeriod)
StopperOf(st)      == IF st = "error" THEN "nobody" ELSE "tracker"
ArmsTimer(s, st)   == st # "error" /\ (timer[s] \/ GracePeriod)

=============================================================================
