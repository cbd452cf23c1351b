---------------------------- MODULE SessionManager ----------------------------
(***************************************************************************)
(* stream/SessionManager.ts: the map of running sessions, the requests     *)
(* that create, share, evict and end them, the listeners it attaches to a  *)
(* session's events, and the stale-session task.                           *)
(*                                                                         *)
(* JavaScript runs to completion: promise continuations (microtasks) are   *)
(* drained before the next I/O completion, timer or request is served.     *)
(* Micro actions are those continuations; every other action is            *)
(* taken only when none is left (Quiet).                                   *)
(***************************************************************************)
EXTENDS Session

CONSTANTS
    Limit,       \* streaming.maxConcurrentSessions; 0 disables the limit
    OnDemand,    \* the channels with an on-demand configuration
    Admins,      \* the clients that end sessions; the others tune in
    Watchers,    \* the clients that poll an HLS session and may fall silent
    MaxCalls,    \* bound: on-demand calls of a channel when a new cause arises
    Asks,        \* bound: the keys each client asks for
    Identities   \* bound: the instances a session of each key can be

ASSUME ManagerAssumption ==
    /\ Limit \in Nat
    /\ OnDemand \subseteq Channels
    /\ MaxCalls \in Nat
    /\ Admins \subseteq Clients
    /\ Watchers \subseteq Clients
    /\ Asks \in [Clients -> SUBSET Key]
    /\ Identities \in [Key -> SUBSET Instances]
    /\ \A j, k \in Key : Identities[j] = Identities[k] \/ Identities[j] \cap Identities[k] = {}

VARIABLES
    sessions,    \* SessionManager.#sessions
    chanQ,       \* #sessionLocker: per channel, the callers in lock order
    pc,          \* where each client's call is suspended
    want,        \* the (channel, session type) the call is about
    held,        \* the local `session` of the call
    victims,     \* sessions enforceConcurrencyLimit still has to evict
    playing,     \* onDemandConfig.state = 'playing', per on-demand channel
    odQ          \* pauseChannel / resumeChannel calls waiting for their lock

requestVars == <<chanQ, pc, want, held, victims>>
onDemandVars == <<playing, odQ>>
vars == <<sessionVars, sessions, requestVars, onDemandVars>>

PC == {"idle", "check", "enter", "lookup", "evicting", "evicted", "starting",
       "wantEnd", "ending", "ended"}

TypeOK ==
    /\ SessionTypeOK
    /\ sessions \in [Key -> Instances \cup {NoSession}]
    /\ chanQ    \in [Channels -> Seq(Clients)]
    /\ pc       \in [Clients -> PC]
    /\ want     \in [Clients -> Key \cup {NoKey}]
    /\ held     \in [Clients -> Instances \cup {NoSession}]
    /\ victims  \in [Clients -> Seq(Instances)]
    /\ playing  \in [OnDemand -> BOOLEAN]
    /\ odQ      \in [OnDemand -> Seq({"pause", "resume"})]

Init ==
    /\ SessionInit
    /\ sessions = [k \in Key |-> NoSession]
    /\ chanQ    = [ch \in Channels |-> <<>>]
    /\ pc       = [c \in Clients |-> "idle"]
    /\ want     = [c \in Clients |-> NoKey]
    /\ held     = [c \in Clients |-> NoSession]
    /\ victims  = [c \in Clients |-> <<>>]
    /\ playing  = [ch \in OnDemand |-> FALSE]
    /\ odQ      = [ch \in OnDemand |-> <<>>]

-----------------------------------------------------------------------------
(* The map. *)

Mapped(s)    == keyOf[s] # NoKey /\ sessions[keyOf[s]] = s
At(k)        == {sessions[k]} \ {NoSession}
OnChannel(ch) == {s \in Instances : Mapped(s) /\ keyOf[s][1] = ch}

(* deleteSession(k) stops what it takes from the map.  (The fault: it only *)
(* deletes.)                                                               *)
DeletesOnly(k) == {}
DeleteStops(k) == At(k)

(* The concat session that reads from session type k[2] of the channel,    *)
(* and the session a concat session reads from.                            *)
Children(k) ==
    IF k[2] \in DOMAIN ConcatOf /\ <<k[1], ConcatOf[k[2]]>> \in Key
    THEN At(<<k[1], ConcatOf[k[2]]>>) ELSE {}
Underlying(k) ==
    UNION {At(j) : j \in {i \in Key : /\ i[1] = k[1]
                                      /\ i[2] \in DOMAIN ConcatOf
                                      /\ ConcatOf[i[2]] = k[2]}}

(* An instance that nothing refers to any more: no lock is held or waited  *)
(* for, no timer, run loop or response pipe is left.                       *)
Garbage(s) ==
    /\ keyOf[s] # NoKey /\ ~Mapped(s)
    /\ queue[s] = <<>> /\ workers[s] = 0 /\ ~late[s] /\ ~timer[s] /\ ~due[s]
    /\ \A c \in Clients : held[c] # s /\ \A i \in 1..Len(victims[c]) : victims[c][i] # s
    /\ IsConcat(s) => conns[s] = {}

-----------------------------------------------------------------------------
(* On-demand playback.  OnDemandChannelService serialises the calls of a   *)
(* channel; two equal calls in a row are one, as the second finds the      *)
(* state it asks for and returns.                                          *)

Queued(q, call) == IF q # <<>> /\ q[Len(q)] = call THEN q ELSE Append(q, call)
Calls(ch, call) ==
    odQ' = IF ch \in OnDemand THEN [odQ EXCEPT ![ch] = Queued(@, call)] ELSE odQ

CallsRoom(ch) == ch \in OnDemand => Len(odQ[ch]) < MaxCalls

(* pauseChannelIfNecessary(s) looks for viewers in one session only: the   *)
(* underlying one for a concat session, if there is one.  cs is conns.     *)
Unwatched(s, cs) ==
    LET checked == IF IsConcat(s) /\ Underlying(keyOf[s]) # {}
                   THEN Underlying(keyOf[s]) ELSE {s}
    IN  \A t \in checked : cs[t] \subseteq InternalClients
PauseIfNecessary(s, cs) ==
    IF Unwatched(s, cs) THEN Calls(keyOf[s][1], "pause") ELSE UNCHANGED odQ

-----------------------------------------------------------------------------
(* Run to completion.  (The fault: the channel has no lock.) *)

NoChannelLock(c) == TRUE
Front(c) == chanQ[want[c][1]] # <<>> /\ Head(chanQ[want[c][1]]) = c
MicroPending ==
    \/ \E c \in Clients : \/ pc[c] \in {"evicted", "ended"}
                          \/ pc[c] \in {"check", "enter", "wantEnd"} /\ Front(c)
    \/ \E s \in Instances : due[s] \/ (queue[s] # <<>> /\ Free(s)) \/ Garbage(s)
Quiet == ~MicroPending

-----------------------------------------------------------------------------
(* A call leaves its channel lock; a request gets its answer.              *)
Leave(c) ==
    /\ chanQ' = [chanQ EXCEPT ![want[c][1]] = Tail(@)]
    /\ pc' = [pc EXCEPT ![c] = "idle"]
    /\ want' = [want EXCEPT ![c] = NoKey]
    /\ held' = [held EXCEPT ![c] = NoSession]
    /\ victims' = [victims EXCEPT ![c] = <<>>]

(* start() of s has settled and the lock is released: the awaiting request *)
(* leaves the channel lock and, unless session.hasError, is connected and  *)
(* answered.  A concat response resumes the on-demand channel as well.     *)
StartSettled(s, stops, st) ==
    LET c == Running(s).by IN
    /\ state' = [state EXCEPT ![s] = st]
    /\ queue' = WithStops(Released(s), stops, "nobody")
    /\ phase' = [phase EXCEPT ![s] = "idle"]
    /\ Leave(c)
    /\ IF st = "error"
       THEN /\ timer' = TimersWithout(stops)
            /\ UNCHANGED <<conns, fresh, odQ>>
       ELSE /\ conns' = [conns EXCEPT ![s] = @ \cup {c}]
            /\ fresh' = [fresh EXCEPT ![s] = @ \cup {c}]
            /\ timer' = TimersWithout(stops \cup {s})
            /\ IF IsConcat(s) THEN Calls(keyOf[s][1], "resume") ELSE UNCHANGED odQ

-----------------------------------------------------------------------------
(* getOrCreateSession and getOrCreateConcatSession. *)

(* A tune arrives and asks for the channel lock.  Tunarr's own ffmpeg      *)
(* reads the underlying stream of a concat session, never a concat one.    *)
Request(c, k) ==
    /\ c \notin Admins /\ k \in Asks[c] /\ CallsRoom(k[1])
    /\ k[2] \in ConcatTypes => c \notin InternalClients
    /\ pc[c] = "idle"
    /\ want' = [want EXCEPT ![c] = k]
    /\ pc' = [pc EXCEPT ![c] = IF k[2] \in ConcatTypes THEN "check" ELSE "enter"]
    /\ chanQ' = [chanQ EXCEPT ![k[1]] = Append(@, c)]
    /\ UNCHANGED <<sessionVars, sessions, held, victims, onDemandVars>>

(* The first critical section of getOrCreateConcatSession: deleteSession   *)
(* is called with the type of the underlying session, when there is none.  *)
ConcatCheck(c) ==
    /\ pc[c] = "check" /\ Front(c)
    /\ pc' = [pc EXCEPT ![c] = "enter"]
    /\ chanQ' = [chanQ EXCEPT ![want[c][1]] = Append(Tail(@), c)]
    /\ UNCHANGED <<sessionVars, sessions, want, held, victims, onDemandVars>>

(* The channel lock is ours: share a started session, restart one that is  *)
(* not, or look the channel up to create one.                              *)
EnterShare(c) ==
    /\ pc[c] = "enter" /\ Front(c)
    /\ \E s \in At(want[c]) :
         /\ state[s] = "started"
         /\ AddConnection(s, c)
         /\ IF IsConcat(s) THEN Calls(keyOf[s][1], "resume") ELSE UNCHANGED odQ
    /\ Leave(c)
    /\ UNCHANGED <<keyOf, state, queue, phase, stream, workers, late, due, sessions, playing>>

EnterStart(c) ==
    /\ pc[c] = "enter" /\ Front(c)
    /\ \E s \in At(want[c]) :
         /\ state[s] # "started"
         /\ queue' = [queue EXCEPT ![s] = Append(@, Start(c))]
         /\ held' = [held EXCEPT ![c] = s]
    /\ pc' = [pc EXCEPT ![c] = "starting"]
    /\ UNCHANGED <<keyOf, state, phase, stream, workers, late, conns, fresh, timer, due,
                   sessions, chanQ, want, victims, onDemandVars>>

EnterCreate(c) ==
    /\ pc[c] = "enter" /\ Front(c)
    /\ sessions[want[c]] = NoSession
    /\ pc' = [pc EXCEPT ![c] = "lookup"]
    /\ UNCHANGED <<sessionVars, sessions, chanQ, want, held, victims, onDemandVars>>

(* getChannelOrm finds no channel: ChannelNotFoundError.                   *)
LookupMiss(c) ==
    /\ pc[c] = "lookup"
    /\ Leave(c)
    /\ UNCHANGED <<sessionVars, sessions, onDemandVars>>

(* enforceConcurrencyLimit: the sessions that count, and the rankings its  *)
(* sort can produce -- unwatched sessions first, by lastActivity within    *)
(* each group, which may order a group in any way.                         *)
Active(c) == {s \in Instances : /\ Mapped(s) /\ state[s] # "stopped"
                                /\ keyOf[s][1] # want[c][1]}
OverBy(c) == IF Limit = 0 \/ Cardinality(Active(c)) < Limit THEN 0
             ELSE Cardinality(Active(c)) + 1 - Limit
Rankings(c) ==
    {v \in [1..OverBy(c) -> Active(c)] :
        \A i \in 1..OverBy(c) :
            /\ \A j \in 1..(i - 1) : v[i] # v[j]
            /\ conns[v[i]] # {} =>
                 \A s \in Active(c) : conns[s] = {} => \E j \in 1..(i - 1) : v[j] = s}

(* Bound: an identity is left for every Session about to be constructed.   *)
Unused(k) == {s \in Instances : keyOf[s] = NoKey /\ s \in Identities[k]}
Spare(c) ==
    Cardinality({d \in Clients : /\ pc[d] \in {"evicting", "evicted"}
                                 /\ Identities[want[d]] = Identities[want[c]]})
      < Cardinality(Unused(want[c]))

(* Construct the session, put it in the map, attach the listeners, resume  *)
(* the on-demand channel and call start(), all in one run.  qs and ss are  *)
(* the lock queues and the map this happens in.                            *)
Construct(c, qs, ss) ==
    /\ \E s \in Unused(want[c]) :
         /\ sessions' = [ss EXCEPT ![want[c]] = s]
         /\ keyOf'   = [keyOf   EXCEPT ![s] = want[c]]
         /\ queue'   = [qs      EXCEPT ![s] = Append(@, Start(c))]
         /\ held'    = [held    EXCEPT ![c] = s]
    /\ pc' = [pc EXCEPT ![c] = "starting"]
    /\ victims' = [victims EXCEPT ![c] = <<>>]
    /\ Calls(want[c][1], "resume")
    /\ UNCHANGED <<state, phase, stream, workers, late, conns, fresh, due,
                   chanQ, want, playing>>

(* Call stop() on the next session to evict and wait for it.  (The fault:  *)
(* endSession() is called, which waits for the lock of that channel.)      *)
StopAndWait(c, vs, qs, tm) ==
    /\ held' = [held EXCEPT ![c] = Head(vs)]
    /\ victims' = [victims EXCEPT ![c] = Tail(vs)]
    /\ queue' = [qs EXCEPT ![Head(vs)] = Append(@, Stop(c))]
    /\ timer' = [tm EXCEPT ![Head(vs)] = FALSE]
    /\ pc' = [pc EXCEPT ![c] = "evicting"]
    /\ UNCHANGED <<keyOf, state, phase, stream, workers, late, conns, fresh, due,
                   chanQ, want, onDemandVars>>
EndVictim(c, vs, qs, tm)  == chanQ[keyOf[Head(vs)][1]] = <<>> /\ StopAndWait(c, vs, qs, tm)
StopVictim(c, vs, qs, tm) == StopAndWait(c, vs, qs, tm)

LookupCreate(c) ==
    /\ pc[c] = "lookup"
    /\ OverBy(c) = 0
    /\ Spare(c)
    /\ Construct(c, queue, sessions)
    /\ UNCHANGED timer

LookupEvict(c) ==
    /\ pc[c] = "lookup"
    /\ OverBy(c) > 0
    /\ Spare(c)
    /\ \E v \in Rankings(c) : StopVictim(c, v, queue, timer)
    /\ UNCHANGED sessions

(* The awaited stop() has settled: deleteSession takes whatever is at the  *)
(* victim's key, and the loop goes on with the ranking made at the start.  *)
Evict(c) ==
    LET k == keyOf[held[c]]
        gone == DeleteStops(k)
        qs == WithStops(queue, gone, "nobody")
        ss == [sessions EXCEPT ![k] = NoSession]
    IN  /\ pc[c] = "evicted"
        /\ IF victims[c] = <<>>
           THEN /\ Construct(c, qs, ss)
                /\ timer' = TimersWithout(gone)
           ELSE /\ StopVictim(c, victims[c], qs, TimersWithout(gone))
                /\ sessions' = ss

-----------------------------------------------------------------------------
(* Session.start(). *)

StartBegin(s) ==
    /\ queue[s] # <<>> /\ Free(s) /\ Running(s).op = "start"
    /\ IF state[s] \in {"started", "error"}
       THEN /\ StartSettled(s, {}, state[s])
            /\ UNCHANGED <<keyOf, stream, workers, late, due, sessions, playing>>
       ELSE /\ state' = [state EXCEPT ![s] = "starting"]
            /\ phase' = [phase EXCEPT ![s] = "init"]
            /\ UNCHANGED <<keyOf, queue, stream, workers, late, conns, fresh, timer, due,
                           sessions, requestVars, onDemandVars>>

(* startInternal resolves.  HlsSession is `started` already here and its   *)
(* run loop goes; both HLS families now wait for readiness, a concat       *)
(* session does not.                                                       *)
StartAcquired(s) ==
    /\ phase[s] = "init"
    /\ IsHls(s) => workers[s] < MaxWorkers
    /\ stream' = [stream EXCEPT ![s] = TRUE]
    /\ IF IsConcat(s)
       THEN /\ StartSettled(s, {}, "started")
            /\ UNCHANGED workers
       ELSE /\ phase' = [phase EXCEPT ![s] = "ready"]
            /\ state' = [state EXCEPT ![s] = IF IsHls(s) THEN "started" ELSE @]
            /\ workers' = [workers EXCEPT ![s] = IF IsHls(s) THEN @ + 1 ELSE @]
            /\ UNCHANGED <<queue, conns, fresh, timer, requestVars, odQ>>
    /\ UNCHANGED <<keyOf, late, due, sessions, playing>>

(* What the `error` listener stops: the session and its concat session.    *)
ErrorStops(s) == {s} \cup (Children(keyOf[s]) \ {s})

(* startInternal throws: state `error`, `error` emitted.                   *)
StartFails(s) ==
    /\ phase[s] = "init" /\ RoomFor(ErrorStops(s) \ {s})
    /\ StartSettled(s, ErrorStops(s), "error")
    /\ UNCHANGED <<keyOf, stream, workers, late, due, sessions, playing>>

(* The last poll finds the files (it tested hasError before it read the    *)
(* directory, so an error that came in between is overwritten).            *)
BecomesReady(s) ==
    /\ phase[s] = "ready"
    /\ StartSettled(s, {}, "started")
    /\ UNCHANGED <<keyOf, stream, workers, late, due, sessions, playing>>

(* The readiness budget is spent, or the poll saw hasError.  The state is  *)
(* set to `error` and `error` is emitted, then start() goes on to its      *)
(* last statement, which sets `started`.                                   *)
ReadinessFails(s) ==
    /\ phase[s] = "ready" /\ RoomFor(ErrorStops(s) \ {s})
    /\ StartSettled(s, ErrorStops(s), "started")
    /\ UNCHANGED <<keyOf, stream, workers, late, due, sessions, playing>>

-----------------------------------------------------------------------------
(* Session.stop(), and what its callers do next. *)

(* stop() of s settles; ok is FALSE when it rejects.                       *)
StopSettled(s, q, ok) ==
    LET by == Running(s).by IN
    /\ queue' = q
    /\ phase' = [phase EXCEPT ![s] = "idle"]
    /\ due' = [due EXCEPT ![s] = @ \/ by = "tracker"]
    /\ IF by \notin Clients
       THEN UNCHANGED requestVars
       ELSE IF pc[by] = "ending" /\ ~ok
       THEN Leave(by)
       ELSE /\ pc' = [pc EXCEPT ![by] = IF @ = "ending" THEN "ended" ELSE "evicted"]
            /\ UNCHANGED <<chanQ, want, held, victims>>

(* The states in which stop() has something to do.  (The fault: a failed   *)
(* session is taken for a stopped one.)                                    *)
NotFailed(s) == state[s] \in {"starting", "started"}
Stoppable(s) == state[s] \in {"starting", "started", "error"}

StopBegin(s) ==
    /\ queue[s] # <<>> /\ Free(s) /\ Running(s).op = "stop"
    /\ IF Stoppable(s)
       THEN /\ phase' = [phase EXCEPT ![s] = "stopping"]
            /\ UNCHANGED <<queue, due, requestVars>>
       ELSE StopSettled(s, Released(s), TRUE)
    /\ UNCHANGED <<keyOf, state, stream, workers, late, conns, fresh, timer,
                   sessions, onDemandVars>>

(* A program stream of s is left behind: an error stream nobody waits for, *)
(* or the item a stopped HlsSlowerSession was playing.                     *)
Lingers(s) ==
    \/ UNCHANGED late
    \/ /\ Cardinality({t \in Instances : late[t]}) < MaxLate
       /\ late' = [late EXCEPT ![s] = TRUE]

(* stopInternal of the HLS families resolves.  HlsSession is `stopped`,    *)
(* HlsSlowerSession keeps the state it was in; neither emits `stop`.       *)
(* (The fault: HlsSession forgets to set it too.)                          *)
StateKept(s) == state[s]
StateOnceStopped(s) == IF IsHls(s) THEN "stopped" ELSE state[s]
HlsStopped(s) ==
    /\ phase[s] = "stopping" /\ ~IsConcat(s)
    /\ stream' = [stream EXCEPT ![s] = FALSE]
    /\ state' = [state EXCEPT ![s] = StateOnceStopped(s)]
    /\ IF IsSlower(s) THEN Lingers(s) ELSE UNCHANGED late
    /\ StopSettled(s, Released(s), TRUE)
    /\ UNCHANGED <<keyOf, workers, conns, fresh, timer, sessions, onDemandVars>>

(* cleanupDirectory throws: HlsSession logs it, HlsSlowerSession rejects.  *)
SlowerStopFails(s) ==
    /\ phase[s] = "stopping" /\ IsSlower(s)
    /\ stream' = [stream EXCEPT ![s] = FALSE]
    /\ Lingers(s)
    /\ StopSettled(s, Released(s), FALSE)
    /\ UNCHANGED <<keyOf, state, workers, conns, fresh, timer, sessions, onDemandVars>>

(* The `stop` and `cleanup` listeners act on the map only if it still      *)
(* holds this very instance; deleteSession then stops it once more.  (The  *)
(* faults: the instance is not compared, and the entry is deleted without  *)
(* a stop().)                                                              *)
RemovedByKey(s) == IF keyOf[s] # NoKey THEN At(keyOf[s]) ELSE {}
Removed(s) == IF Mapped(s) THEN {s} ELSE {}
RemovedUnstopped(s) == IF Mapped(s) THEN Children(keyOf[s]) ELSE {}
RemovedWithChildren(s) ==
    IF Mapped(s) THEN DeleteStops(keyOf[s]) \cup Children(keyOf[s]) ELSE {}
MapWithout(S) == [k \in Key |-> IF sessions[k] \in S THEN NoSession ELSE sessions[k]]

(* A concat session emits `stop` from within stopInternal.                 *)
ConcatStopped(s) ==
    /\ phase[s] = "stopping" /\ IsConcat(s)
    /\ stream' = [stream EXCEPT ![s] = FALSE]
    /\ state' = [state EXCEPT ![s] = "stopped"]
    /\ sessions' = MapWithout(Removed(s))
    /\ timer' = TimersWithout(RemovedWithChildren(s))
    /\ StopSettled(s, WithStops(Released(s), RemovedWithChildren(s), "nobody"), TRUE)
    /\ PauseIfNecessary(s, conns)
    /\ UNCHANGED <<keyOf, workers, late, conns, fresh, playing>>

(* stop() has settled for the tracker, which emits `cleanup`.              *)
CleanupEvent(s) ==
    /\ due[s]
    /\ due' = [due EXCEPT ![s] = FALSE]
    /\ sessions' = MapWithout(Removed(s))
    /\ timer' = TimersWithout(RemovedWithChildren(s))
    /\ queue' = WithStops(queue, RemovedWithChildren(s), "nobody")
    /\ UNCHANGED <<keyOf, state, phase, stream, workers, late, conns, fresh,
                   requestVars, onDemandVars>>

(* The identity of an unreachable Session is free again.  (A modelling     *)
(* device: with it finitely many identities stand for every Session the    *)
(* server ever constructs.)                                                *)
Collect(s) ==
    /\ Garbage(s)
    /\ keyOf'  = [keyOf  EXCEPT ![s] = NoKey]
    /\ state'  = [state  EXCEPT ![s] = "init"]
    /\ stream' = [stream EXCEPT ![s] = FALSE]
    /\ conns'  = [conns  EXCEPT ![s] = {}]
    /\ fresh'  = [fresh  EXCEPT ![s] = {}]
    /\ UNCHANGED <<queue, phase, workers, late, timer, due,
                   sessions, requestVars, onDemandVars>>

-----------------------------------------------------------------------------
(* endSession. *)

RequestEnd(c, k) ==
    /\ c \in Admins /\ k \in Asks[c]
    /\ pc[c] = "idle"
    /\ want' = [want EXCEPT ![c] = k]
    /\ pc' = [pc EXCEPT ![c] = "wantEnd"]
    /\ chanQ' = [chanQ EXCEPT ![k[1]] = Append(@, c)]
    /\ UNCHANGED <<sessionVars, sessions, held, victims, onDemandVars>>

EnterEnd(c) ==
    /\ pc[c] = "wantEnd" /\ Front(c)
    /\ IF sessions[want[c]] = NoSession
       THEN /\ Leave(c)
            /\ UNCHANGED <<queue, timer>>
       ELSE LET s == sessions[want[c]] IN
            /\ queue' = WithStops(queue, {s}, c)
            /\ timer' = TimersWithout({s})
            /\ held' = [held EXCEPT ![c] = s]
            /\ pc' = [pc EXCEPT ![c] = "ending"]
            /\ UNCHANGED <<chanQ, want, victims>>
    /\ UNCHANGED <<keyOf, state, phase, stream, workers, late, conns, fresh, due,
                   sessions, onDemandVars>>

EndSession(c) ==
    /\ pc[c] = "ended"
    /\ sessions' = [sessions EXCEPT ![want[c]] = NoSession]
    /\ Leave(c)
    /\ UNCHANGED <<sessionVars, onDemandVars>>

-----------------------------------------------------------------------------
(* Connections, timers and the stale-session task. *)

(* A player asks for a playlist or segment of a mapped HLS session.        *)
Poll(c, k) ==
    /\ c \in Watchers
    /\ k[2] \notin ConcatTypes
    /\ \E s \in At(k) :
         /\ IF c \in conns[s]
            THEN /\ fresh' = [fresh EXCEPT ![s] = @ \cup {c}]
                 /\ UNCHANGED <<conns, timer>>
            ELSE AddConnection(s, c)
    /\ UNCHANGED <<keyOf, state, queue, phase, stream, workers, late, due,
                   sessions, requestVars, onDemandVars>>

(* stalenessMs go by without a heartbeat.                                  *)
HeartbeatExpires(c, s) ==
    /\ c \in Watchers
    /\ Mapped(s) /\ ~IsConcat(s) /\ c \in fresh[s]
    /\ fresh' = [fresh EXCEPT ![s] = @ \ {c}]
    /\ UNCHANGED <<keyOf, state, queue, phase, stream, workers, late, conns, timer, due,
                   sessions, requestVars, onDemandVars>>

(* scheduleCleanup() on every session of T, with connections cs.           *)
ScheduleCleanups(T) ==
    /\ queue' = [s \in Instances |->
                   IF s \in T /\ StopsAtOnce(s, state[s])
                   THEN Append(queue[s], Stop(StopperOf(state[s]))) ELSE queue[s]]
    /\ timer' = [s \in Instances |-> IF s \in T THEN ArmsTimer(s, state[s]) ELSE timer[s]]

(* The response pipe of a concat session closes.  The session's own        *)
(* listener runs first, then the manager's.                                *)
Disconnect(c, s) ==
    LET cs == [conns EXCEPT ![s] = @ \ {c}] IN
    /\ IsConcat(s) /\ c \in conns[s]
    /\ RoomFor({s}) /\ CallsRoom(keyOf[s][1])
    /\ conns' = cs
    /\ fresh' = [fresh EXCEPT ![s] = @ \ {c}]
    /\ ScheduleCleanups(IF cs[s] = {} THEN {s} ELSE {})
    /\ PauseIfNecessary(s, cs)
    /\ UNCHANGED <<keyOf, state, phase, stream, workers, late, due,
                   sessions, requestVars, playing>>

(* cleanupStaleSessions, one run over the whole map.  A connection that is *)
(* dropped may pause its channel.  (The fault: it skips a session that is  *)
(* not `started`.)                                                         *)
CheckedStarted(s) == Mapped(s) /\ state[s] = "started"
Checked(s) == Mapped(s) /\ state[s] # "starting"
CleanupTask ==
    LET checked == {s \in Instances : Checked(s)}
        cs == [s \in Instances |-> IF s \in checked THEN Alive(s) ELSE conns[s]]
        dropped == {s \in checked : cs[s] # conns[s]}
    IN  /\ RoomFor({s \in Instances : Mapped(s)})
        /\ conns' = cs
        /\ fresh' = [s \in Instances |-> fresh[s] \cap cs[s]]
        /\ ScheduleCleanups({s \in checked : cs[s] = {}})
        /\ odQ' = [ch \in OnDemand |->
                     IF \E s \in dropped : keyOf[s][1] = ch /\ Unwatched(s, cs)
                     THEN Queued(odQ[ch], "pause") ELSE odQ[ch]]
        /\ UNCHANGED <<keyOf, state, phase, stream, workers, late, due,
                       sessions, requestVars, playing>>

(* The cleanup timer fires; with a connection it does nothing.             *)
TimerFires(s) ==
    /\ timer[s] /\ RoomFor({s} \cup Children(keyOf[s]))
    /\ timer' = [timer EXCEPT ![s] = FALSE]
    /\ queue' = IF conns[s] = {} THEN WithStops(queue, {s}, "tracker") ELSE queue
    /\ UNCHANGED <<keyOf, state, phase, stream, workers, late, conns, fresh, due,
                   sessions, requestVars, onDemandVars>>

-----------------------------------------------------------------------------
(* Errors of the stream, and the end of the HLS run loop. *)

EmitError(s) ==
    /\ RoomFor(ErrorStops(s))
    /\ queue' = WithStops(queue, ErrorStops(s), "nobody")
    /\ timer' = TimersWithout(ErrorStops(s))

(* A program of an HLS session fails beyond repair: while a run loop is    *)
(* going for HlsSession, while the stream is open for HlsSlowerSession, or *)
(* a stream they left behind.                                              *)
Plays(s) == IF IsHls(s) THEN workers[s] > 0 ELSE stream[s]
ProgramFails(s) ==
    /\ IsHls(s) \/ IsSlower(s)
    /\ \/ Plays(s) /\ UNCHANGED late
       \/ late[s] /\ late' = [late EXCEPT ![s] = FALSE]
    /\ state' = [state EXCEPT ![s] = "error"]
    /\ EmitError(s)
    /\ UNCHANGED <<keyOf, phase, stream, workers, conns, fresh, due,
                   sessions, requestVars, onDemandVars>>

(* The concatenating ffmpeg fails: `error` is emitted, the state stays.    *)
ConcatProcessFails(s) ==
    /\ stream[s] /\ ~IsHls(s)
    /\ EmitError(s)
    /\ UNCHANGED <<keyOf, state, phase, stream, workers, late, conns, fresh, due,
                   sessions, requestVars, onDemandVars>>

(* HlsSession.run() sees that the session is no longer `started`.  (The    *)
(* fault: whether it was running is not considered.)                       *)
LoopEndsTwice(s) == state[s] # "started"
LoopDone(s)      == workers[s] > 0 /\ state[s] # "started"
WorkerEnds(s) ==
    /\ LoopDone(s) /\ RoomFor({s})
    /\ workers' = [workers EXCEPT ![s] = @ - 1]
    /\ Lingers(s)
    /\ ScheduleCleanups(IF state[s] # "stopped" THEN {s} ELSE {})
    /\ UNCHANGED <<keyOf, state, phase, stream, conns, fresh, due,
                   sessions, requestVars, onDemandVars>>

(* run() rejects, which is logged and no more.                             *)
WorkerRejects(s) ==
    /\ RunRejects /\ workers[s] > 0
    /\ workers' = [workers EXCEPT ![s] = @ - 1]
    /\ Lingers(s)
    /\ UNCHANGED <<keyOf, state, queue, phase, stream, conns, fresh, timer, due,
                   sessions, requestVars, onDemandVars>>

(* What was left behind comes to its end, which nobody is told of.         *)
LateEnds(s) ==
    /\ late[s]
    /\ late' = [late EXCEPT ![s] = FALSE]
    /\ UNCHANGED <<keyOf, state, queue, phase, stream, workers, conns, fresh, timer, due,
                   sessions, requestVars, onDemandVars>>

-----------------------------------------------------------------------------
(* The on-demand service takes the next call of a channel. *)

OnDemandStep(ch) ==
    /\ odQ[ch] # <<>>
    /\ playing' = [playing EXCEPT ![ch] = Head(odQ[ch]) = "resume"]
    /\ odQ' = [odQ EXCEPT ![ch] = Tail(@)]
    /\ UNCHANGED <<sessionVars, sessions, requestVars>>

(* OnDemandChannelStateTask: pause a channel whose sessions are all idle.  *)
OnDemandTask(ch) ==
    /\ CallsRoom(ch)
    /\ OnChannel(ch) # {} /\ \A s \in OnChannel(ch) : conns[s] = {}
    /\ Calls(ch, "pause")
    /\ UNCHANGED <<sessionVars, sessions, requestVars, playing>>

-----------------------------------------------------------------------------

(* Promise continuations.                                                  *)
Micro ==
    \/ \E c \in Clients : \/ ConcatCheck(c) \/ EnterShare(c) \/ EnterStart(c)
                          \/ EnterCreate(c) \/ Evict(c) \/ EnterEnd(c) \/ EndSession(c)
    \/ \E s \in Instances : StartBegin(s) \/ StopBegin(s) \/ CleanupEvent(s) \/ Collect(s)

(* The holder of a session lock gets the I/O completion it waits for.      *)
LockHolderStep(s) ==
    \/ StartAcquired(s) \/ StartFails(s) \/ BecomesReady(s) \/ ReadinessFails(s)
    \/ HlsStopped(s) \/ SlowerStopFails(s) \/ ConcatStopped(s)

Lookup(c) == LookupMiss(c) \/ LookupCreate(c) \/ LookupEvict(c)

(* The I/O completion that the call of c waits for.                        *)
Completion(c) ==
    \/ Lookup(c)
    \/ held[c] # NoSession /\ LockHolderStep(held[c])

(* What happens because of the players, the operator and ffmpeg.           *)
Environment ==
    \/ \E c \in Clients, k \in Key : Request(c, k) \/ RequestEnd(c, k) \/ Poll(c, k)
    \/ \E c \in Clients, s \in Instances : HeartbeatExpires(c, s) \/ Disconnect(c, s)
    \/ \E s \in Instances : ProgramFails(s) \/ ConcatProcessFails(s) \/ WorkerRejects(s)

(* What the event loop takes up once no continuation is left.              *)
Task ==
    \/ Environment
    \/ \E c \in Clients : Lookup(c)
    \/ \E s \in Instances : LockHolderStep(s) \/ TimerFires(s) \/ WorkerEnds(s) \/ LateEnds(s)
    \/ CleanupTask
    \/ \E ch \in OnDemand : OnDemandStep(ch) \/ OnDemandTask(ch)

Next == Micro \/ (Quiet /\ Task)

Spec == Init /\ [][Next]_vars

(* The event loop serves every completion, timer and scheduled task that   *)
(* stays ready; a microtask is never postponed.  A completion is ready     *)
(* again and again rather than continuously only because of Quiet, hence   *)
(* strong fairness.  Nothing is assumed of players or of ffmpeg, except    *)
(* that the pipe of a session that is gone closes and that what a session  *)
(* leaves playing has an end.                                              *)
ServiceFairness ==
    /\ WF_vars(Micro)
    /\ \A c \in Clients : SF_vars(Quiet /\ Completion(c))

(* What a session has left behind: a run loop told to end or a stream of   *)
(* an HLS or hls_slower session, the response pipes of a concat session.   *)
Remainder(s) ==
    \/ WorkerEnds(s) \/ LateEnds(s)
    \/ ~Mapped(s) /\ \E c \in Clients : Disconnect(c, s)

Fairness ==
    /\ ServiceFairness
    /\ \A s \in Instances : /\ SF_vars(Quiet /\ LockHolderStep(s))
                            /\ SF_vars(Quiet /\ TimerFires(s))
                            /\ SF_vars(Quiet /\ Remainder(s))
    /\ SF_vars(Quiet /\ CleanupTask)
    /\ \A ch \in OnDemand : /\ SF_vars(Quiet /\ OnDemandStep(ch))
                            /\ SF_vars(Quiet /\ OnDemandTask(ch))

ServiceSpec == Spec /\ ServiceFairness
FairSpec    == Spec /\ Fairness

-----------------------------------------------------------------------------
(* Safety. *)

(* A stream never outlives its place in the map: an instance that is not   *)
(* in the map and whose stream is open, or that waits to be started, has a *)
(* stop() behind everything else that waits for its lock.  (deleteSession  *)
(* stops what it removes; endSession removes what it has stopped.)         *)
NoOrphanStream ==
    \A s \in Instances :
        LET q == queue[s] IN
        (keyOf[s] # NoKey /\ ~Mapped(s)) =>
            \/ ~stream[s] /\ \A i \in 1..Len(q) : q[i].op = "stop"
            \/ q # <<>> /\ q[Len(q)].op = "stop"

(* start() is only ever waited for by the one request that holds the lock  *)
(* of the session's channel: two tunes never start the same session twice. *)
OneStarterPerSession ==
    \A s \in Instances : \A i \in 1..Len(queue[s]) :
        queue[s][i].op = "start" =>
            LET c == queue[s][i].by IN
            /\ pc[c] = "starting" /\ held[c] = s
            /\ want[c] = keyOf[s] /\ Front(c)
            /\ \A j \in 1..Len(queue[s]) : queue[s][j].op = "start" => j = i

(* getOrCreateSession shares a session as soon as it is `started`; the     *)
(* state never says so of an HLS or concat session that has no stream.     *)
StartedHasStream ==
    \A s \in Instances : state[s] = "started" /\ ~IsSlower(s) => stream[s]

(* A session leaves the map only by its own cleanup or stop event, or      *)
(* through a call that has stopped the session it found at that key: the   *)
(* event of an instance that was replaced never removes the replacement.   *)
RemovalHasCause ==
    [][\A k \in Key : sessions[k] # NoSession /\ sessions'[k] # sessions[k] =>
          \/ due[sessions[k]]
          \/ phase[sessions[k]] = "stopping"
          \/ \E c \in Clients :
                \/ pc[c] = "ended" /\ want[c] = k
                \/ pc[c] = "evicted" /\ keyOf[held[c]] = k
      ]_vars

(* What the pause is meant for: "Pause the channel as soon as there are no *)
(* connections other than internal connections."  A channel is told to     *)
(* pause only when no session of it has a viewer.  The code does not keep  *)
(* this: see pauseChannelIfNecessary.                                      *)
PausedOnlyUnwatched ==
    [][\A ch \in OnDemand :
          Len(odQ'[ch]) > Len(odQ[ch]) /\ odQ'[ch][Len(odQ'[ch])] = "pause" =>
              \A s \in OnChannel(ch)' : conns'[s] \subseteq InternalClients]_vars

(* Liveness. *)

(* Every request, eviction and endSession call comes back: channel and     *)
(* session locks are taken in an order that cannot close a circle.         *)
CallsReturn == \A c \in Clients : pc[c] # "idle" ~> pc[c] = "idle"

(* An HLS or concat session without viewers leaves the map, unless someone *)
(* tunes in.  (HlsSlowerSession may stay for ever: its stop() leaves the   *)
(* state `error`, and in `error` the sweep only stops it again.)           *)
IdleSessionsEnd ==
    \A s \in Instances :
        (Mapped(s) /\ ~IsSlower(s) /\ conns[s] = {}) ~>
            (~Mapped(s) \/ conns[s] # {} \/ \E c \in Clients : want[c] = keyOf[s])

(* An HLS or concat session that failed does not stay failed in the map:   *)
(* it is stopped and can be started again, or removed ("Please retry       *)
(* later").                                                                *)
FailedSessionsRecover ==
    \A s \in Instances :
        (Mapped(s) /\ ~IsSlower(s) /\ state[s] = "error") ~>
            (~Mapped(s) \/ state[s] # "error")

-----------------------------------------------------------------------------
(* The promise of the map (SessionRegistry), of which this is an           *)
(* implementation: a session is on its way out from when it leaves the map *)
(* until nothing refers to it any more.                                    *)

Registry == INSTANCE SessionRegistry WITH
    Keys    <- Key,
    slot    <- sessions,
    open    <- {s \in Instances : stream[s]},
    leaving <- {s \in Instances : keyOf[s] # NoKey /\ ~Mapped(s)}

(* Every step of the manager is a step of the registry or leaves it alone: *)
(* in particular no tune overwrites an entry, and no session is dropped    *)
(* with its stream open.                                                   *)
RegistrySafe == Registry!SafeSpec

(* A session that left the map is stopped and released, whatever was       *)
(* waiting for its lock, whichever loops and timers it had.                *)
DepartedEnd == Registry!Departure

=============================================================================
