------------------------- MODULE SessionManagerProofs -------------------------
(***************************************************************************)
(* Theorems about SessionManager, for every set of channels, clients and   *)
(* instances.  IInv is the inductive invariant they follow from: the       *)
(* discipline of the channel locks (LockOK), who waits for which call on a *)
(* session (JobsOK), what a session lock's holder is doing (PhaseOK), the  *)
(* map (MapOK), and what a call that holds its channel's lock can rely on  *)
(* (VacantOK, EndingOK).                                                   *)
(***************************************************************************)
EXTENDS SessionManager, FiniteSetTheorems, TLAPS

-----------------------------------------------------------------------------
(* The inductive invariant. *)

(* The calls that own the lock of their channel.                           *)
Owning == {"lookup", "evicting", "evicted", "starting", "ending", "ended"}
Owns(c) == want[c] \in Key /\ Front(c)

LockOK ==
    \A c \in Clients :
        /\ pc[c] # "idle" => want[c] \in Key
        /\ pc[c] \in Owning => Owns(c)
        /\ pc[c] \in Owning \ {"lookup"} => held[c] \in Instances

(* Every job is waited for by the call that made it, and by no other job.  *)
StartOwned(s, c) == pc[c] = "starting" /\ held[c] = s /\ want[c] = keyOf[s]
StopOwned(s, c)  == /\ pc[c] \in {"evicting", "ending"}
                    /\ held[c] = s
                    /\ pc[c] = "ending" => want[c] = keyOf[s]
JobsOn(q) ==
    \A s \in Instances : \A i \in 1..Len(q[s]) :
        LET j == q[s][i] IN
        /\ j.op = "start" => j.by \in Clients /\ StartOwned(s, j.by)
        /\ j.op = "stop" /\ j.by \in Clients => StopOwned(s, j.by)
        /\ j.by \in Clients =>
             \A n \in 1..Len(q[s]) : q[s][n].by = j.by => n = i
JobsOK == JobsOn(queue)

PhaseOK ==
    \A s \in Instances :
        /\ phase[s] # "idle" => queue[s] # <<>>
        /\ phase[s] \in {"init", "ready"} => Head(queue[s]).op = "start"
        /\ phase[s] = "stopping" => Head(queue[s]).op = "stop"

MapOK ==
    /\ \A k \in Key : sessions[k] # NoSession => keyOf[sessions[k]] = k
    /\ \A s \in Instances : keyOf[s] = NoKey => state[s] = "init"

(* A stream is open, and a lock held across I/O, only in a state that      *)
(* stop() reacts to.                                                       *)
StreamOK ==
    \A s \in Instances :
        /\ stream[s] \/ phase[s] # "idle" => Stoppable(s)
        /\ phase[s] = "ready" => stream[s]

(* Nobody creates a session at the key a call is about to create one at.   *)
VacantOK ==
    \A c \in Clients :
        pc[c] \in {"lookup", "evicting", "evicted"} => sessions[want[c]] = NoSession

(* The session endSession stops is the one it will remove.                 *)
EndingOK ==
    \A c \in Clients :
        /\ pc[c] \in {"ending", "ended"} =>
              /\ keyOf[held[c]] = want[c]
              /\ sessions[want[c]] \in {NoSession, held[c]}
        /\ pc[c] = "ended" => ~stream[held[c]]

IInv ==
    /\ TypeOK
    /\ LockOK
    /\ JobsOK
    /\ PhaseOK
    /\ MapOK
    /\ StreamOK
    /\ VacantOK
    /\ EndingOK
    /\ NoOrphanStream
    /\ StartedHasStream

-----------------------------------------------------------------------------
(* Types. *)

LEMMA NoKeyIsNoKey == NoKey \notin Key
  BY DEF NoKey, Key

LEMMA WithStopsType ==
  ASSUME NEW q \in [Instances -> Seq(Job)], NEW T, NEW by \in Caller
  PROVE  WithStops(q, T, by) \in [Instances -> Seq(Job)]
<1>1. Stop(by) \in Job
  BY DEF Stop, Job
<1>2. \A s \in Instances : Append(q[s], Stop(by)) \in Seq(Job)
  BY <1>1
<1>. QED  BY <1>2 DEF WithStops

LEMMA ReleasedType ==
  ASSUME queue \in [Instances -> Seq(Job)], NEW s \in Instances, queue[s] # <<>>
  PROVE  /\ Released(s) \in [Instances -> Seq(Job)]
         /\ Running(s) \in Job
  BY DEF Released, Running

LEMMA CallsType ==
  ASSUME TypeOK, NEW ch, NEW call \in {"pause", "resume"}, Calls(ch, call)
  PROVE  odQ' \in [OnDemand -> Seq({"pause", "resume"})]
  BY DEF TypeOK, Calls, Queued

LEMMA LeaveType ==
  ASSUME TypeOK, NEW c \in Clients, want[c] \in Key, chanQ[want[c][1]] # <<>>, Leave(c)
  PROVE  /\ chanQ'   \in [Channels -> Seq(Clients)]
         /\ pc'      \in [Clients -> PC]
         /\ want'    \in [Clients -> Key \cup {NoKey}]
         /\ held'    \in [Clients -> Instances \cup {NoSession}]
         /\ victims' \in [Clients -> Seq(Instances)]
  BY DEF TypeOK, Leave, Key, PC

LEMMA CallerFacts ==
  /\ "nobody" \in Caller /\ "tracker" \in Caller /\ Clients \subseteq Caller
  BY DEF Caller

(* The client that waits for start() owns the lock of its channel.         *)
LEMMA StarterOwns ==
  ASSUME LockOK, JobsOK, TypeOK, NEW s \in Instances, queue[s] # <<>>,
         Running(s).op = "start"
  PROVE  /\ Running(s) \in Job
         /\ Running(s).by \in Clients
         /\ StartOwned(s, Running(s).by)
         /\ Owns(Running(s).by)
<1>1. queue[s] \in Seq(Job)
  BY DEF TypeOK, SessionTypeOK
<1>2. 1 \in 1..Len(queue[s]) /\ Running(s) = queue[s][1] /\ Running(s) \in Job
  BY <1>1 DEF Running
<1>3. Running(s).by \in Clients /\ StartOwned(s, Running(s).by)
  BY <1>2 DEF JobsOK, JobsOn
<1>. QED
  BY <1>2, <1>3 DEF LockOK, Owning, StartOwned

LEMMA StopperOwns ==
  ASSUME LockOK, JobsOK, TypeOK, NEW s \in Instances, queue[s] # <<>>,
         Running(s).op = "stop", Running(s).by \in Clients
  PROVE  /\ StopOwned(s, Running(s).by)
         /\ Owns(Running(s).by)
<1>1. queue[s] \in Seq(Job)
  BY DEF TypeOK, SessionTypeOK
<1>2. 1 \in 1..Len(queue[s]) /\ Running(s) = queue[s][1]
  BY <1>1 DEF Running
<1>3. StopOwned(s, Running(s).by)
  BY <1>2 DEF JobsOK, JobsOn
<1>. QED
  BY <1>3 DEF LockOK, Owning, StopOwned

(* The part of the type of a state that start(), stop() and their callers  *)
(* change.                                                                 *)
RequestTypeOK ==
    /\ chanQ    \in [Channels -> Seq(Clients)]
    /\ pc       \in [Clients -> PC]
    /\ want     \in [Clients -> Key \cup {NoKey}]
    /\ held     \in [Clients -> Instances \cup {NoSession}]
    /\ victims  \in [Clients -> Seq(Instances)]

LEMMA StartSettledType ==
  ASSUME TypeOK, LockOK, JobsOK, NEW s \in Instances, queue[s] # <<>>,
         Running(s).op = "start", NEW stops, NEW st \in State,
         StartSettled(s, stops, st)
  PROVE  /\ state' \in [Instances -> State]
         /\ queue' \in [Instances -> Seq(Job)]
         /\ phase' \in [Instances -> {"idle", "init", "ready", "stopping"}]
         /\ conns' \in [Instances -> SUBSET Clients]
         /\ fresh' \in [Instances -> SUBSET Clients]
         /\ timer' \in [Instances -> BOOLEAN]
         /\ odQ'   \in [OnDemand -> Seq({"pause", "resume"})]
         /\ RequestTypeOK'
<1>. DEFINE c == Running(s).by
<1>1. c \in Clients /\ Owns(c)
  BY StarterOwns
<1>2. RequestTypeOK'
  BY <1>1, LeaveType DEF StartSettled, Owns, Front, RequestTypeOK
<1>3. queue' \in [Instances -> Seq(Job)]
  BY ReleasedType, WithStopsType, CallerFacts DEF StartSettled, TypeOK, SessionTypeOK
<1>4. state' \in [Instances -> State] /\ phase' \in [Instances -> {"idle", "init", "ready", "stopping"}]
  BY DEF StartSettled, TypeOK, SessionTypeOK
<1>5. CASE st = "error"
  <2>1. odQ' = odQ /\ conns' = conns /\ fresh' = fresh /\ timer' = TimersWithout(stops)
    BY <1>5 DEF StartSettled
  <2>. QED
    BY <1>2, <1>3, <1>4, <2>1 DEF TimersWithout, TypeOK, SessionTypeOK
<1>6. CASE st # "error"
  <2>1. /\ conns' = [conns EXCEPT ![s] = @ \cup {c}]
        /\ fresh' = [fresh EXCEPT ![s] = @ \cup {c}]
        /\ timer' = TimersWithout(stops \cup {s})
        /\ odQ' = odQ \/ Calls(keyOf[s][1], "resume")
    BY <1>6 DEF StartSettled
  <2>2. odQ' \in [OnDemand -> Seq({"pause", "resume"})]
    BY <2>1, CallsType DEF TypeOK
  <2>3. conns' \in [Instances -> SUBSET Clients] /\ fresh' \in [Instances -> SUBSET Clients]
    BY <2>1, <1>1 DEF TypeOK, SessionTypeOK
  <2>. QED
    BY <1>2, <1>3, <1>4, <2>1, <2>2, <2>3 DEF TimersWithout
<1>. QED  BY <1>5, <1>6

LEMMA StopSettledType ==
  ASSUME TypeOK, LockOK, JobsOK, NEW s \in Instances, queue[s] # <<>>,
         Running(s).op = "stop", NEW q, NEW ok, StopSettled(s, q, ok)
  PROVE  /\ queue' = q
         /\ phase' \in [Instances -> {"idle", "init", "ready", "stopping"}]
         /\ due'   \in [Instances -> BOOLEAN]
         /\ RequestTypeOK'
<1>. DEFINE c == Running(s).by
<1>1. queue' = q /\ phase' \in [Instances -> {"idle", "init", "ready", "stopping"}]
      /\ due'   \in [Instances -> BOOLEAN]
  BY DEF StopSettled, TypeOK, SessionTypeOK
<1>2. CASE c \notin Clients
  BY <1>1, <1>2 DEF StopSettled, TypeOK, RequestTypeOK, requestVars
<1>3. CASE c \in Clients /\ pc[c] = "ending" /\ ~ok
  BY <1>1, <1>3, StopperOwns, LeaveType DEF StopSettled, Owns, Front, RequestTypeOK
<1>4. CASE c \in Clients /\ ~(pc[c] = "ending" /\ ~ok)
  <2>1. /\ pc' = [pc EXCEPT ![c] = IF @ = "ending" THEN "ended" ELSE "evicted"]
        /\ UNCHANGED <<chanQ, want, held, victims>>
    BY <1>4, Zenon DEF StopSettled
  <2>. QED
    BY <1>1, <2>1 DEF TypeOK, RequestTypeOK, PC
<1>. QED  BY <1>2, <1>3, <1>4

LEMMA TimersType == \A T : TimersWithout(T) \in [Instances -> BOOLEAN]
  BY DEF TimersWithout

LEMMA ScheduleType ==
  ASSUME TypeOK, NEW T, ScheduleCleanups(T)
  PROVE  /\ queue' \in [Instances -> Seq(Job)]
         /\ timer' \in [Instances -> BOOLEAN]
<1>1. \A s \in Instances : Stop(StopperOf(state[s])) \in Job
  BY DEF StopperOf, Stop, Job, Caller
<1>2. \A s \in Instances : Append(queue[s], Stop(StopperOf(state[s]))) \in Seq(Job)
  BY <1>1 DEF TypeOK, SessionTypeOK
<1>3. queue' \in [Instances -> Seq(Job)]
  BY <1>2 DEF ScheduleCleanups, TypeOK, SessionTypeOK
<1>4. timer' \in [Instances -> BOOLEAN]
  BY DEF ScheduleCleanups, ArmsTimer, TypeOK, SessionTypeOK
<1>. QED  BY <1>3, <1>4

LEMMA EmitErrorType ==
  ASSUME TypeOK, NEW s, EmitError(s)
  PROVE  /\ queue' \in [Instances -> Seq(Job)]
         /\ timer' \in [Instances -> BOOLEAN]
  BY WithStopsType, CallerFacts, TimersType DEF EmitError, TypeOK, SessionTypeOK

LEMMA PauseType ==
  ASSUME TypeOK, NEW s, NEW cs, PauseIfNecessary(s, cs)
  PROVE  odQ' \in [OnDemand -> Seq({"pause", "resume"})]
<1>1. odQ' = odQ \/ Calls(keyOf[s][1], "pause")
  BY DEF PauseIfNecessary
<1>. QED  BY <1>1, CallsType DEF TypeOK

LEMMA ConstructType ==
  ASSUME TypeOK, NEW c \in Clients, want[c] \in Key,
         NEW qs \in [Instances -> Seq(Job)],
         NEW ss \in [Key -> Instances \cup {NoSession}],
         timer' \in [Instances -> BOOLEAN],
         Construct(c, qs, ss)
  PROVE  TypeOK'
<1>1. PICK s \in Instances : /\ sessions' = [ss EXCEPT ![want[c]] = s]
                             /\ keyOf'   = [keyOf EXCEPT ![s] = want[c]]
                             /\ queue'   = [qs EXCEPT ![s] = Append(@, Start(c))]
                             /\ held'    = [held EXCEPT ![c] = s]
  BY DEF Construct, Unused
<1>2. odQ' \in [OnDemand -> Seq({"pause", "resume"})]
  BY CallsType DEF Construct, Unused
<1>3. Start(c) \in Job
  BY DEF Start, Job, Caller
<1>4. queue' \in [Instances -> Seq(Job)]
  BY <1>1, <1>3
<1>5. keyOf' \in [Instances -> Key \cup {NoKey}] /\ sessions' \in [Key -> Instances \cup {NoSession}]
  BY <1>1 DEF TypeOK, SessionTypeOK
<1>6. RequestTypeOK'
  BY <1>1 DEF TypeOK, RequestTypeOK, Construct, Unused, PC
<1>7. UNCHANGED <<state, phase, stream, workers, late, conns, fresh, due, playing>>
  BY DEF Construct, Unused
<1>. QED
  BY <1>2, <1>4, <1>5, <1>6, <1>7 DEF TypeOK, SessionTypeOK, RequestTypeOK

LEMMA StopVictimType ==
  ASSUME TypeOK, NEW c \in Clients, NEW vs \in Seq(Instances), vs # <<>>,
         NEW qs \in [Instances -> Seq(Job)],
         NEW tm \in [Instances -> BOOLEAN],
         sessions' \in [Key -> Instances \cup {NoSession}],
         StopVictim(c, vs, qs, tm)
  PROVE  TypeOK'
<1>1. Head(vs) \in Instances /\ Tail(vs) \in Seq(Instances)
  OBVIOUS
<1>2. Stop(c) \in Job
  BY DEF Stop, Job, Caller
<1>3. queue' \in [Instances -> Seq(Job)] /\ timer' \in [Instances -> BOOLEAN]
  BY <1>1, <1>2 DEF StopVictim, StopAndWait
<1>4. RequestTypeOK'
  BY <1>1 DEF TypeOK, RequestTypeOK, StopVictim, StopAndWait, PC
<1>5. UNCHANGED <<keyOf, state, phase, stream, workers, late, conns, fresh, due, playing, odQ>>
  BY DEF StopVictim, StopAndWait, onDemandVars
<1>. QED
  BY <1>3, <1>4, <1>5 DEF TypeOK, SessionTypeOK, RequestTypeOK

LEMMA RankingsType ==
  ASSUME SessionAssumption, ManagerAssumption, NEW c \in Clients, OverBy(c) > 0,
         NEW v \in Rankings(c)
  PROVE  v \in Seq(Instances) /\ v # <<>>
<1>1. Active(c) \subseteq Instances /\ IsFiniteSet(Instances)
  BY DEF Active, SessionAssumption
<1>2. Cardinality(Active(c)) \in Nat
  BY <1>1, FS_Subset, FS_CardinalityType
<1>3. OverBy(c) \in Nat
  BY <1>2 DEF OverBy, ManagerAssumption
<1>4. v \in [1..OverBy(c) -> Instances]
  BY <1>1 DEF Rankings
<1>. QED  BY <1>3, <1>4

LEMMA LingersType ==
  ASSUME TypeOK, NEW s \in Instances, Lingers(s)
  PROVE  late' \in [Instances -> BOOLEAN]
BY DEF Lingers, TypeOK, SessionTypeOK

LEMMA TypeStep ==
  ASSUME TypeOK, LockOK, JobsOK, PhaseOK, Next
  PROVE  TypeOK'
<1>. USE DEF TypeOK, SessionTypeOK, sessionVars, requestVars, onDemandVars, PC
<1>1. ASSUME NEW c \in Clients, ConcatCheck(c)
      PROVE  TypeOK'
  BY <1>1 DEF ConcatCheck, LockOK, Front, Key
<1>2. ASSUME NEW c \in Clients, EnterShare(c)
      PROVE  TypeOK'
  <2>1. PICK s \in At(want[c]) : /\ AddConnection(s, c)
                                 /\ IF IsConcat(s) THEN Calls(keyOf[s][1], "resume") ELSE UNCHANGED odQ
    BY <1>2 DEF EnterShare
  <2>2. odQ' \in [OnDemand -> Seq({"pause", "resume"})]
    BY <2>1, CallsType
  <2>3. want[c] \in Key /\ chanQ[want[c][1]] # <<>>
    BY <1>2 DEF EnterShare, LockOK, Front
  <2>4. RequestTypeOK'
    BY <1>2, <2>3, LeaveType DEF EnterShare, RequestTypeOK
  <2>5. /\ conns' \in [Instances -> SUBSET Clients]
        /\ fresh' \in [Instances -> SUBSET Clients]
        /\ timer' \in [Instances -> BOOLEAN]
    BY <2>1 DEF AddConnection
  <2>. QED
    BY <1>2, <2>2, <2>4, <2>5 DEF EnterShare, RequestTypeOK
<1>3. ASSUME NEW c \in Clients, EnterStart(c)
      PROVE  TypeOK'
  BY <1>3 DEF EnterStart, At, LockOK, Start, Job, Caller
<1>4. ASSUME NEW c \in Clients, EnterCreate(c)
      PROVE  TypeOK'
  BY <1>4 DEF EnterCreate
<1>5. ASSUME NEW c \in Clients, LookupMiss(c)
      PROVE  TypeOK'
  BY <1>5, LeaveType DEF LookupMiss, LockOK, Owns, Owning, Front
<1>6. ASSUME NEW c \in Clients, LookupCreate(c)
      PROVE  TypeOK'
  <2>1. want[c] \in Key /\ timer' = timer
    BY <1>6 DEF LookupCreate, LockOK
  <2>. QED
    BY <1>6, <2>1, ConstructType DEF LookupCreate
<1>7. ASSUME NEW c \in Clients, LookupEvict(c)
      PROVE  TypeOK'
  <2>1. PICK v \in Rankings(c) : StopVictim(c, v, queue, timer)
    BY <1>7 DEF LookupEvict
  <2>2. v \in Seq(Instances) /\ v # <<>> /\ sessions' = sessions
    BY <1>7, RankingsType, SessionAssumption, ManagerAssumption DEF LookupEvict
  <2>. QED
    BY <2>1, <2>2, StopVictimType
<1>8. ASSUME NEW c \in Clients, Evict(c)
      PROVE  TypeOK'
  <2>. DEFINE k  == keyOf[held[c]]
              qs == WithStops(queue, DeleteStops(k), "nobody")
              ss == [sessions EXCEPT ![k] = NoSession]
              tm == TimersWithout(DeleteStops(k))
  <2>1. qs \in [Instances -> Seq(Job)] /\ tm \in [Instances -> BOOLEAN]
    BY WithStopsType, TimersType, CallerFacts
  <2>2. ss \in [Key -> Instances \cup {NoSession}]
    OBVIOUS
  <2>3. CASE victims[c] = <<>>
    <3>1. Construct(c, qs, ss) /\ timer' = tm
      BY <1>8, <2>3 DEF Evict
    <3>2. want[c] \in Key
      BY <1>8 DEF Evict, LockOK
    <3>. HIDE DEF qs, ss, tm
    <3>. QED
      BY <3>1, <3>2, <2>1, <2>2, ConstructType
  <2>4. CASE victims[c] # <<>>
    <3>1. StopVictim(c, victims[c], qs, tm) /\ sessions' = ss
      BY <1>8, <2>4 DEF Evict
    <3>. HIDE DEF qs, ss, tm
    <3>. QED
      BY <3>1, <2>1, <2>2, <2>4, StopVictimType
  <2>. QED  BY <2>3, <2>4
<1>9. ASSUME NEW c \in Clients, EnterEnd(c)
      PROVE  TypeOK'
  <2>. DEFINE s == sessions[want[c]]
  <2>1. want[c] \in Key /\ chanQ[want[c][1]] # <<>>
    BY <1>9 DEF EnterEnd, LockOK, Front
  <2>2. CASE s = NoSession
    <3>1. Leave(c) /\ UNCHANGED <<queue, timer>>
      BY <1>9, <2>2 DEF EnterEnd
    <3>. QED
      BY <1>9, <2>1, <3>1, LeaveType DEF EnterEnd
  <2>3. CASE s # NoSession
    <3>1. /\ queue' = WithStops(queue, {s}, c)
          /\ timer' = TimersWithout({s})
          /\ held' = [held EXCEPT ![c] = s]
          /\ pc' = [pc EXCEPT ![c] = "ending"]
          /\ UNCHANGED <<chanQ, want, victims>>
      BY <1>9, <2>3 DEF EnterEnd
    <3>2. s \in Instances
      BY <2>1, <2>3
    <3>3. queue' \in [Instances -> Seq(Job)] /\ timer' \in [Instances -> BOOLEAN]
      BY <3>1, WithStopsType, TimersType, CallerFacts
    <3>. QED
      BY <1>9, <3>1, <3>2, <3>3 DEF EnterEnd
  <2>. QED  BY <2>2, <2>3
<1>10. ASSUME NEW c \in Clients, EndSession(c)
      PROVE  TypeOK'
  BY <1>10, LeaveType DEF EndSession, LockOK, Owns, Owning, Front
<1>11. ASSUME NEW c \in Clients, NEW k \in Key, Request(c, k)
      PROVE  TypeOK'
  BY <1>11 DEF Request, Key
<1>12. ASSUME NEW c \in Clients, NEW k \in Key, RequestEnd(c, k)
      PROVE  TypeOK'
  BY <1>12 DEF RequestEnd, Key
<1>13. ASSUME NEW c \in Clients, NEW k \in Key, Poll(c, k)
      PROVE  TypeOK'
  <2>1. PICK s \in At(k) : \/ /\ fresh' = [fresh EXCEPT ![s] = @ \cup {c}]
                              /\ UNCHANGED <<conns, timer>>
                           \/ AddConnection(s, c)
    BY <1>13, Zenon DEF Poll
  <2>2. /\ conns' \in [Instances -> SUBSET Clients]
        /\ fresh' \in [Instances -> SUBSET Clients]
        /\ timer' \in [Instances -> BOOLEAN]
    <3>1. CASE AddConnection(s, c)
      BY <3>1 DEF AddConnection
    <3>2. CASE /\ fresh' = [fresh EXCEPT ![s] = @ \cup {c}]
               /\ UNCHANGED <<conns, timer>>
      <4>1. fresh' = [fresh EXCEPT ![s] = fresh[s] \cup {c}] /\ conns' = conns /\ timer' = timer
        BY <3>2, Zenon
      <4>. QED  BY <4>1
    <3>. QED  BY <2>1, <3>1, <3>2
  <2>. QED
    BY <1>13, <2>2 DEF Poll
<1>14. ASSUME NEW c \in Clients, NEW s \in Instances, HeartbeatExpires(c, s)
      PROVE  TypeOK'
  BY <1>14 DEF HeartbeatExpires
<1>15. ASSUME NEW c \in Clients, NEW s \in Instances, Disconnect(c, s)
      PROVE  TypeOK'
  <2>1. queue' \in [Instances -> Seq(Job)] /\ timer' \in [Instances -> BOOLEAN]
    BY <1>15, ScheduleType DEF Disconnect
  <2>2. odQ' \in [OnDemand -> Seq({"pause", "resume"})]
    BY <1>15, PauseType DEF Disconnect
  <2>3. conns' \in [Instances -> SUBSET Clients] /\ fresh' \in [Instances -> SUBSET Clients]
    BY <1>15 DEF Disconnect
  <2>. QED
    BY <1>15, <2>1, <2>2, <2>3 DEF Disconnect
<1>16. ASSUME NEW s \in Instances, StartBegin(s)
      PROVE  TypeOK'
  <2>1. CASE state[s] \in {"started", "error"}
    <3>1. /\ StartSettled(s, {}, state[s])
          /\ UNCHANGED <<keyOf, stream, workers, late, due, sessions, playing>>
          /\ queue[s] # <<>> /\ Running(s).op = "start" /\ state[s] \in State
      BY <1>16, <2>1 DEF StartBegin
    <3>. QED
      BY <3>1, StartSettledType DEF RequestTypeOK
  <2>2. CASE state[s] \notin {"started", "error"}
    <3>1. /\ state' = [state EXCEPT ![s] = "starting"]
          /\ phase' = [phase EXCEPT ![s] = "init"]
          /\ UNCHANGED <<keyOf, queue, stream, workers, late, conns, fresh, timer, due,
                         sessions, requestVars, onDemandVars>>
      BY <1>16, <2>2, Zenon DEF StartBegin
    <3>. QED
      BY <3>1 DEF State
  <2>. QED  BY <2>1, <2>2
<1>17. ASSUME NEW s \in Instances, StartAcquired(s)
      PROVE  TypeOK'
  <2>1. queue[s] # <<>> /\ Running(s).op = "start" /\ "started" \in State
    BY <1>17 DEF StartAcquired, PhaseOK, Running, State
  <2>2. stream' \in [Instances -> BOOLEAN]
        /\ UNCHANGED <<keyOf, late, due, sessions, playing>>
    BY <1>17 DEF StartAcquired
  <2>3. CASE IsConcat(s)
    <3>1. StartSettled(s, {}, "started") /\ UNCHANGED workers
      BY <1>17, <2>3 DEF StartAcquired
    <3>. QED
      BY <2>1, <2>2, <3>1, StartSettledType DEF RequestTypeOK
  <2>4. CASE ~IsConcat(s)
    <3>1. /\ phase' = [phase EXCEPT ![s] = "ready"]
          /\ state' = [state EXCEPT ![s] = IF IsHls(s) THEN "started" ELSE @]
          /\ workers' = [workers EXCEPT ![s] = IF IsHls(s) THEN @ + 1 ELSE @]
          /\ UNCHANGED <<queue, conns, fresh, timer, requestVars, odQ>>
      BY <1>17, <2>4, Zenon DEF StartAcquired
    <3>2. state' \in [Instances -> State]
      BY <3>1, <2>1 DEF IsHls
    <3>3. workers' \in [Instances -> Nat]
      BY <3>1 DEF IsHls
    <3>. QED
      BY <2>2, <3>1, <3>2, <3>3
  <2>. QED  BY <2>3, <2>4
<1>18. ASSUME NEW s \in Instances, StartFails(s)
      PROVE  TypeOK'
  <2>1. /\ StartSettled(s, ErrorStops(s), "error")
        /\ UNCHANGED <<keyOf, stream, workers, late, due, sessions, playing>>
        /\ queue[s] # <<>> /\ Running(s).op = "start" /\ "error" \in State
    BY <1>18 DEF StartFails, PhaseOK, Running, State
  <2>. QED
    BY <2>1, StartSettledType DEF RequestTypeOK
<1>19. ASSUME NEW s \in Instances, BecomesReady(s)
      PROVE  TypeOK'
  <2>1. /\ StartSettled(s, {}, "started")
        /\ UNCHANGED <<keyOf, stream, workers, late, due, sessions, playing>>
        /\ queue[s] # <<>> /\ Running(s).op = "start" /\ "started" \in State
    BY <1>19 DEF BecomesReady, PhaseOK, Running, State
  <2>. QED
    BY <2>1, StartSettledType DEF RequestTypeOK
<1>20. ASSUME NEW s \in Instances, ReadinessFails(s)
      PROVE  TypeOK'
  <2>1. /\ StartSettled(s, ErrorStops(s), "started")
        /\ UNCHANGED <<keyOf, stream, workers, late, due, sessions, playing>>
        /\ queue[s] # <<>> /\ Running(s).op = "start" /\ "started" \in State
    BY <1>20 DEF ReadinessFails, PhaseOK, Running, State
  <2>. QED
    BY <2>1, StartSettledType DEF RequestTypeOK
<1>21. ASSUME NEW s \in Instances, StopBegin(s)
      PROVE  TypeOK'
  <2>1. CASE Stoppable(s)
    BY <1>21, <2>1 DEF StopBegin
  <2>2. CASE ~Stoppable(s)
    <3>1. /\ queue[s] # <<>> /\ Running(s).op = "stop"
          /\ StopSettled(s, Released(s), TRUE)
          /\ UNCHANGED <<keyOf, state, stream, workers, late, conns, fresh, timer,
                         sessions, onDemandVars>>
      BY <1>21, <2>2 DEF StopBegin
    <3>2. queue' \in [Instances -> Seq(Job)] /\ RequestTypeOK'
          /\ phase' \in [Instances -> {"idle", "init", "ready", "stopping"}]
          /\ due' \in [Instances -> BOOLEAN]
      <4>1. queue \in [Instances -> Seq(Job)]
        BY DEF TypeOK, SessionTypeOK
      <4>2. Released(s) \in [Instances -> Seq(Job)]
        BY <3>1, <4>1, ReleasedType
      <4>3. /\ queue' = Released(s) /\ RequestTypeOK'
            /\ phase' \in [Instances -> {"idle", "init", "ready", "stopping"}]
            /\ due' \in [Instances -> BOOLEAN]
        BY <3>1, StopSettledType, Zenon
      <4>. QED  BY <4>2, <4>3
    <3>. QED
      BY <3>1, <3>2 DEF RequestTypeOK
  <2>. QED  BY <2>1, <2>2
<1>22. ASSUME NEW s \in Instances, HlsStopped(s)
      PROVE  TypeOK'
  <2>1. /\ queue[s] # <<>> /\ Running(s).op = "stop"
        /\ StopSettled(s, Released(s), TRUE)
        /\ UNCHANGED <<keyOf, workers, conns, fresh, timer, sessions, onDemandVars>>
    BY <1>22 DEF HlsStopped, PhaseOK, Running
  <2>2. state' \in [Instances -> State] /\ stream' \in [Instances -> BOOLEAN]
    BY <1>22 DEF HlsStopped, StateOnceStopped, State
  <2>4. late' \in [Instances -> BOOLEAN]
    BY <1>22, LingersType DEF HlsStopped
  <2>3. queue' \in [Instances -> Seq(Job)] /\ RequestTypeOK'
        /\ phase' \in [Instances -> {"idle", "init", "ready", "stopping"}]
        /\ due' \in [Instances -> BOOLEAN]
    <3>1. queue \in [Instances -> Seq(Job)]
      BY DEF TypeOK, SessionTypeOK
    <3>2. Released(s) \in [Instances -> Seq(Job)]
      BY <2>1, <3>1, ReleasedType
    <3>3. /\ queue' = Released(s) /\ RequestTypeOK'
          /\ phase' \in [Instances -> {"idle", "init", "ready", "stopping"}]
          /\ due' \in [Instances -> BOOLEAN]
      BY <2>1, StopSettledType, Zenon
    <3>. QED  BY <3>2, <3>3
  <2>. QED
    BY <2>1, <2>2, <2>3, <2>4 DEF RequestTypeOK
<1>23. ASSUME NEW s \in Instances, SlowerStopFails(s)
      PROVE  TypeOK'
  <2>1. /\ queue[s] # <<>> /\ Running(s).op = "stop"
        /\ StopSettled(s, Released(s), FALSE)
        /\ UNCHANGED <<keyOf, workers, conns, fresh, timer, sessions, onDemandVars>>
    BY <1>23 DEF SlowerStopFails, PhaseOK, Running
  <2>2. state' \in [Instances -> State] /\ stream' \in [Instances -> BOOLEAN]
    BY <1>23 DEF SlowerStopFails, StateOnceStopped, State
  <2>4. late' \in [Instances -> BOOLEAN]
    BY <1>23, LingersType DEF SlowerStopFails
  <2>3. queue' \in [Instances -> Seq(Job)] /\ RequestTypeOK'
        /\ phase' \in [Instances -> {"idle", "init", "ready", "stopping"}]
        /\ due' \in [Instances -> BOOLEAN]
    <3>1. queue \in [Instances -> Seq(Job)]
      BY DEF TypeOK, SessionTypeOK
    <3>2. Released(s) \in [Instances -> Seq(Job)]
      BY <2>1, <3>1, ReleasedType
    <3>3. /\ queue' = Released(s) /\ RequestTypeOK'
          /\ phase' \in [Instances -> {"idle", "init", "ready", "stopping"}]
          /\ due' \in [Instances -> BOOLEAN]
      BY <2>1, StopSettledType, Zenon
    <3>. QED  BY <3>2, <3>3
  <2>. QED
    BY <2>1, <2>2, <2>3, <2>4 DEF RequestTypeOK
<1>24. ASSUME NEW s \in Instances, ConcatStopped(s)
      PROVE  TypeOK'
  <2>. DEFINE q == WithStops(Released(s), RemovedWithChildren(s), "nobody")
  <2>1. /\ queue[s] # <<>> /\ Running(s).op = "stop"
        /\ StopSettled(s, q, TRUE)
        /\ PauseIfNecessary(s, conns)
        /\ UNCHANGED <<keyOf, workers, late, conns, fresh, playing>>
    BY <1>24 DEF ConcatStopped, PhaseOK, Running
  <2>2. /\ state' \in [Instances -> State] /\ stream' \in [Instances -> BOOLEAN]
        /\ timer' \in [Instances -> BOOLEAN]
    BY <1>24, TimersType DEF ConcatStopped, State
  <2>3. sessions' \in [Key -> Instances \cup {NoSession}]
    BY <1>24 DEF ConcatStopped, MapWithout
  <2>4. q \in [Instances -> Seq(Job)]
    BY <2>1, ReleasedType, WithStopsType, CallerFacts
  <2>5. odQ' \in [OnDemand -> Seq({"pause", "resume"})]
    BY <2>1, PauseType
  <2>. HIDE DEF q
  <2>. QED
    BY <2>1, <2>2, <2>3, <2>4, <2>5, StopSettledType DEF RequestTypeOK
<1>25. ASSUME NEW s \in Instances, CleanupEvent(s)
      PROVE  TypeOK'
  <2>1. sessions' \in [Key -> Instances \cup {NoSession}]
    BY <1>25 DEF CleanupEvent, MapWithout
  <2>2. queue' \in [Instances -> Seq(Job)] /\ timer' \in [Instances -> BOOLEAN]
    BY <1>25, WithStopsType, TimersType, CallerFacts DEF CleanupEvent
  <2>. QED
    BY <1>25, <2>1, <2>2 DEF CleanupEvent
<1>26. ASSUME NEW s \in Instances, Collect(s)
      PROVE  TypeOK'
  BY <1>26 DEF Collect, State
<1>27. ASSUME NEW s \in Instances, TimerFires(s)
      PROVE  TypeOK'
  <2>1. queue' \in [Instances -> Seq(Job)] /\ timer' \in [Instances -> BOOLEAN]
    BY <1>27, WithStopsType, CallerFacts DEF TimerFires
  <2>. QED
    BY <1>27, <2>1 DEF TimerFires
<1>28. ASSUME NEW s \in Instances, ProgramFails(s)
      PROVE  TypeOK'
  <2>1. queue' \in [Instances -> Seq(Job)] /\ timer' \in [Instances -> BOOLEAN]
    BY <1>28, EmitErrorType DEF ProgramFails
  <2>2. state' \in [Instances -> State] /\ late' \in [Instances -> BOOLEAN]
    BY <1>28 DEF ProgramFails, State
  <2>. QED
    BY <1>28, <2>1, <2>2 DEF ProgramFails
<1>29. ASSUME NEW s \in Instances, ConcatProcessFails(s)
      PROVE  TypeOK'
  BY <1>29, EmitErrorType DEF ConcatProcessFails
<1>30. ASSUME NEW s \in Instances, WorkerEnds(s)
      PROVE  TypeOK'
  <2>1. queue' \in [Instances -> Seq(Job)] /\ timer' \in [Instances -> BOOLEAN]
    BY <1>30, ScheduleType DEF WorkerEnds
  <2>2. workers' \in [Instances -> Nat]
    BY <1>30 DEF WorkerEnds, LoopDone
  <2>3. late' \in [Instances -> BOOLEAN]
    BY <1>30, LingersType DEF WorkerEnds
  <2>. QED
    BY <1>30, <2>1, <2>2, <2>3 DEF WorkerEnds
<1>31. ASSUME CleanupTask
      PROVE  TypeOK'
  <2>1. queue' \in [Instances -> Seq(Job)] /\ timer' \in [Instances -> BOOLEAN]
    BY <1>31, ScheduleType DEF CleanupTask
  <2>2. conns' \in [Instances -> SUBSET Clients] /\ fresh' \in [Instances -> SUBSET Clients]
    BY <1>31 DEF CleanupTask, Alive
  <2>3. \A ch \in OnDemand : Queued(odQ[ch], "pause") \in Seq({"pause", "resume"})
    BY DEF Queued
  <2>4. odQ' \in [OnDemand -> Seq({"pause", "resume"})]
    BY <1>31, <2>3 DEF CleanupTask
  <2>. QED
    BY <1>31, <2>1, <2>2, <2>4 DEF CleanupTask
<1>32. ASSUME NEW ch \in OnDemand, OnDemandStep(ch)
      PROVE  TypeOK'
  BY <1>32 DEF OnDemandStep
<1>33. ASSUME NEW ch \in OnDemand, OnDemandTask(ch)
      PROVE  TypeOK'
  BY <1>33, CallsType DEF OnDemandTask
<1>34. ASSUME NEW s \in Instances, WorkerRejects(s)
      PROVE  TypeOK'
  <2>1. workers' \in [Instances -> Nat]
    BY <1>34 DEF WorkerRejects
  <2>2. late' \in [Instances -> BOOLEAN]
    BY <1>34, LingersType DEF WorkerRejects
  <2>. QED
    BY <1>34, <2>1, <2>2 DEF WorkerRejects
<1>35. ASSUME NEW s \in Instances, LateEnds(s)
      PROVE  TypeOK'
  BY <1>35 DEF LateEnds
<1>. QED
  BY <1>1, <1>2, <1>3, <1>4, <1>5, <1>6, <1>7, <1>8, <1>9, <1>10, <1>11, <1>12, <1>13, <1>14, <1>15, <1>16, <1>17, <1>18, <1>19, <1>20, <1>21, <1>22, <1>23, <1>24, <1>25, <1>26, <1>27, <1>28, <1>29, <1>30, <1>31, <1>32, <1>33, <1>34, <1>35, Next
     DEF Next, Micro, Task, Environment, Lookup, LockHolderStep

-----------------------------------------------------------------------------
(* The locks of the channels. *)

LEMMA LeaveLock ==
  ASSUME TypeOK, LockOK, NEW c \in Clients, want[c] \in Key, Front(c), Leave(c)
  PROVE  LockOK'
<1>. SUFFICES ASSUME NEW d \in Clients
              PROVE  /\ pc'[d] # "idle" => want'[d] \in Key
                     /\ pc'[d] \in Owning => Owns(d)'
                     /\ pc'[d] \in Owning \ {"lookup"} => held'[d] \in Instances
  BY DEF LockOK
<1>1. CASE d = c
  BY <1>1 DEF Leave, TypeOK, Owning
<1>2. CASE d # c
  <2>1. pc'[d] = pc[d] /\ want'[d] = want[d] /\ held'[d] = held[d]
    BY <1>2 DEF Leave, TypeOK
  <2>2. ASSUME pc[d] \in Owning
        PROVE  Owns(d)'
    <3>1. Owns(d)
      BY <2>2 DEF LockOK
    <3>2. want[d][1] # want[c][1]
      BY <1>2, <3>1 DEF Owns, Front
    <3>3. want[c][1] \in Channels /\ want[d][1] \in Channels
      BY <3>1 DEF Owns, Key
    <3>4. chanQ'[want[d][1]] = chanQ[want[d][1]]
      BY <3>2, <3>3 DEF Leave, TypeOK
    <3>. QED
      BY <2>1, <3>1, <3>4 DEF Owns, Front
  <2>. QED
    BY <2>1, <2>2 DEF LockOK
<1>. QED  BY <1>1, <1>2

(* A call that owns its lock goes on to another point at which it does.    *)
LEMMA OwnerLock ==
  ASSUME TypeOK, LockOK, NEW c \in Clients, Owns(c), UNCHANGED <<chanQ, want>>,
         NEW x \in Owning, pc' = [pc EXCEPT ![c] = x],
         \/ x = "lookup" /\ held' = held
         \/ held[c] \in Instances /\ held' = held
         \/ \E s \in Instances : held' = [held EXCEPT ![c] = s]
  PROVE  LockOK'
<1>. SUFFICES ASSUME NEW d \in Clients
              PROVE  /\ pc'[d] # "idle" => want'[d] \in Key
                     /\ pc'[d] \in Owning => Owns(d)'
                     /\ pc'[d] \in Owning \ {"lookup"} => held'[d] \in Instances
  BY DEF LockOK
<1>1. Owns(d) => Owns(d)'
  BY DEF Owns, Front
<1>2. CASE d = c
  BY <1>1, <1>2 DEF Owns, TypeOK
<1>3. CASE d # c
  BY <1>1, <1>3 DEF LockOK, TypeOK
<1>. QED  BY <1>2, <1>3

(* A call queues up behind the others of its channel.                      *)
LEMMA QueueUpLock ==
  ASSUME TypeOK, LockOK, NEW c \in Clients, NEW k \in Key,
         want' = [want EXCEPT ![c] = k],
         NEW x \in PC \ Owning, pc' = [pc EXCEPT ![c] = x],
         held' = held,
         chanQ' = [chanQ EXCEPT ![k[1]] = Append(@, c)]
  PROVE  LockOK'
<1>. SUFFICES ASSUME NEW d \in Clients
              PROVE  /\ pc'[d] # "idle" => want'[d] \in Key
                     /\ pc'[d] \in Owning => Owns(d)'
                     /\ pc'[d] \in Owning \ {"lookup"} => held'[d] \in Instances
  BY DEF LockOK
<1>1. CASE d = c
  BY <1>1 DEF TypeOK
<1>2. CASE d # c
  <2>1. pc'[d] = pc[d] /\ want'[d] = want[d] /\ held'[d] = held[d]
    BY <1>2 DEF TypeOK
  <2>2. ASSUME pc[d] \in Owning
        PROVE  Owns(d)'
    <3>1. Owns(d)
      BY <2>2 DEF LockOK
    <3>2. want[d][1] \in Channels /\ k[1] \in Channels
      BY <3>1 DEF Owns, Key
    <3>3. chanQ'[want[d][1]] # <<>> /\ Head(chanQ'[want[d][1]]) = Head(chanQ[want[d][1]])
      <4>. DEFINE q == chanQ[want[d][1]]
      <4>1. q \in Seq(Clients) /\ q # <<>>
        BY <3>1, <3>2 DEF Owns, Front, TypeOK
      <4>2. Append(q, c) # <<>> /\ Head(Append(q, c)) = Head(q)
        BY <4>1
      <4>3. chanQ'[want[d][1]] \in {q, Append(q, c)}
        BY <3>2 DEF TypeOK
      <4>. QED  BY <4>1, <4>2, <4>3
    <3>. QED
      BY <2>1, <3>1, <3>3 DEF Owns, Front
  <2>. QED
    BY <2>1, <2>2 DEF LockOK
<1>. QED  BY <1>1, <1>2

LEMMA StartSettledLock ==
  ASSUME TypeOK, LockOK, JobsOK, NEW s \in Instances, queue[s] # <<>>,
         Running(s).op = "start", NEW stops, NEW st, StartSettled(s, stops, st)
  PROVE  LockOK'
  BY StarterOwns, LeaveLock DEF StartSettled, Owns

LEMMA StopSettledLock ==
  ASSUME TypeOK, LockOK, JobsOK, NEW s \in Instances, queue[s] # <<>>,
         Running(s).op = "stop", NEW q, NEW ok, StopSettled(s, q, ok)
  PROVE  LockOK'
<1>. DEFINE c == Running(s).by
<1>1. CASE c \notin Clients
  BY <1>1 DEF StopSettled, LockOK, Owns, Front, requestVars
<1>2. CASE c \in Clients /\ pc[c] = "ending" /\ ~ok
  BY <1>2, StopperOwns, LeaveLock DEF StopSettled, Owns
<1>3. CASE c \in Clients /\ ~(pc[c] = "ending" /\ ~ok)
  <2>1. /\ pc' = [pc EXCEPT ![c] = IF @ = "ending" THEN "ended" ELSE "evicted"]
        /\ UNCHANGED <<chanQ, want, held, victims>>
    BY <1>3, Zenon DEF StopSettled
  <2>2. PICK x \in {"ended", "evicted"} : pc' = [pc EXCEPT ![c] = x]
    BY <2>1
  <2>3. Owns(c) /\ held[c] \in Instances /\ x \in Owning
    BY <1>3, StopperOwns DEF StopOwned, Owning
  <2>. QED
    BY <1>3, <2>1, <2>2, <2>3, OwnerLock
<1>. QED  BY <1>1, <1>2, <1>3
LEMMA LockStep ==
  ASSUME TypeOK, LockOK, JobsOK, PhaseOK, Next
  PROVE  LockOK'
<1>1. CASE UNCHANGED requestVars
  BY <1>1 DEF LockOK, Owns, Front, requestVars
<1>2. ASSUME NEW c \in Clients, ConcatCheck(c)
      PROVE  LockOK'
  <2>1. want[c] \in Key /\ chanQ[want[c][1]] # <<>> /\ want[c][1] \in Channels
    BY <1>2 DEF ConcatCheck, LockOK, Front, Key
  <2>. SUFFICES ASSUME NEW d \in Clients
                PROVE  /\ pc'[d] # "idle" => want'[d] \in Key
                       /\ pc'[d] \in Owning => Owns(d)'
                       /\ pc'[d] \in Owning \ {"lookup"} => held'[d] \in Instances
    BY DEF LockOK
  <2>2. CASE d = c
    BY <1>2, <2>1, <2>2 DEF ConcatCheck, TypeOK, Owning
  <2>3. CASE d # c
    <3>1. pc'[d] = pc[d] /\ want'[d] = want[d] /\ held'[d] = held[d]
      BY <1>2, <2>3 DEF ConcatCheck, TypeOK
    <3>2. ASSUME pc[d] \in Owning
          PROVE  Owns(d)'
      <4>1. Owns(d)
        BY <3>2 DEF LockOK
      <4>2. want[d][1] # want[c][1] /\ want[d][1] \in Channels
        BY <1>2, <2>3, <4>1 DEF Owns, Front, ConcatCheck, Key
      <4>3. chanQ'[want[d][1]] = chanQ[want[d][1]]
        BY <1>2, <4>2 DEF ConcatCheck, TypeOK
      <4>. QED
        BY <3>1, <4>1, <4>3 DEF Owns, Front
    <3>. QED
      BY <3>1, <3>2 DEF LockOK
  <2>. QED  BY <2>2, <2>3
<1>3. ASSUME NEW c \in Clients, EnterShare(c)
      PROVE  LockOK'
  BY <1>3, LeaveLock DEF EnterShare, LockOK
<1>4. ASSUME NEW c \in Clients, EnterStart(c)
      PROVE  LockOK'
  <2>1. PICK s \in At(want[c]) : held' = [held EXCEPT ![c] = s]
    BY <1>4 DEF EnterStart
  <2>2. want[c] \in Key /\ Owns(c)
    BY <1>4 DEF EnterStart, LockOK, Owns
  <2>3. s \in Instances
    BY <2>1, <2>2 DEF At, TypeOK
  <2>. QED
    BY <1>4, <2>1, <2>2, <2>3, OwnerLock DEF EnterStart, Owning
<1>5. ASSUME NEW c \in Clients, EnterCreate(c)
      PROVE  LockOK'
  BY <1>5, OwnerLock DEF EnterCreate, Owning, LockOK, Owns
<1>6. ASSUME NEW c \in Clients, LookupMiss(c)
      PROVE  LockOK'
  BY <1>6, LeaveLock DEF LookupMiss, LockOK, Owning, Owns
<1>7. ASSUME NEW c \in Clients, LookupCreate(c)
      PROVE  LockOK'
  <2>1. Owns(c) /\ Construct(c, queue, sessions)
    BY <1>7 DEF LookupCreate, LockOK, Owning
  <2>. QED
    BY <2>1, OwnerLock DEF Construct, Unused, Owning
<1>8. ASSUME NEW c \in Clients, LookupEvict(c)
      PROVE  LockOK'
  <2>1. PICK v \in Rankings(c) : StopVictim(c, v, queue, timer)
    BY <1>8 DEF LookupEvict
  <2>2. Owns(c)
    BY <1>8 DEF LookupEvict, LockOK, Owning
  <2>3. Head(v) \in Instances
    BY <1>8, RankingsType, SessionAssumption, ManagerAssumption DEF LookupEvict
  <2>. QED
    BY <2>1, <2>2, <2>3, OwnerLock DEF StopVictim, StopAndWait, Owning
<1>9. ASSUME NEW c \in Clients, Evict(c)
      PROVE  LockOK'
  <2>1. Owns(c)
    BY <1>9 DEF Evict, LockOK, Owning
  <2>2. CASE victims[c] = <<>>
    <3>1. PICK qs, ss : Construct(c, qs, ss)
      BY <1>9, <2>2 DEF Evict
    <3>. QED
      BY <2>1, <3>1, OwnerLock DEF Construct, Unused, Owning
  <2>3. CASE victims[c] # <<>>
    <3>1. PICK qs, tm : StopVictim(c, victims[c], qs, tm)
      BY <1>9, <2>3 DEF Evict
    <3>2. Head(victims[c]) \in Instances
      BY <2>3 DEF TypeOK
    <3>. QED
      BY <2>1, <3>1, <3>2, OwnerLock DEF StopVictim, StopAndWait, Owning
  <2>. QED  BY <2>2, <2>3
<1>10. ASSUME NEW c \in Clients, EnterEnd(c)
      PROVE  LockOK'
  <2>1. Owns(c)
    BY <1>10 DEF EnterEnd, LockOK, Owns
  <2>2. CASE sessions[want[c]] = NoSession
    BY <1>10, <2>1, <2>2, LeaveLock DEF EnterEnd, Owns
  <2>3. CASE sessions[want[c]] # NoSession
    <3>1. /\ held' = [held EXCEPT ![c] = sessions[want[c]]]
          /\ pc' = [pc EXCEPT ![c] = "ending"]
          /\ UNCHANGED <<chanQ, want, victims>>
      BY <1>10, <2>3 DEF EnterEnd
    <3>2. sessions[want[c]] \in Instances
      BY <2>1, <2>3 DEF Owns, TypeOK
    <3>. QED
      BY <2>1, <3>1, <3>2, OwnerLock DEF Owning
  <2>. QED  BY <2>2, <2>3
<1>11. ASSUME NEW c \in Clients, EndSession(c)
      PROVE  LockOK'
  BY <1>11, LeaveLock DEF EndSession, LockOK, Owning, Owns
<1>12. ASSUME NEW c \in Clients, NEW k \in Key, Request(c, k)
      PROVE  LockOK'
  <2>1. PICK x \in {"check", "enter"} : pc' = [pc EXCEPT ![c] = x]
    BY <1>12 DEF Request
  <2>2. x \in PC \ Owning
    BY DEF PC, Owning
  <2>. QED
    BY <1>12, <2>1, <2>2, QueueUpLock DEF Request
<1>13. ASSUME NEW c \in Clients, NEW k \in Key, RequestEnd(c, k)
      PROVE  LockOK'
  <2>1. "wantEnd" \in PC \ Owning
    BY DEF PC, Owning
  <2>. QED
    BY <1>13, <2>1, QueueUpLock DEF RequestEnd
<1>14. ASSUME NEW s \in Instances, StartBegin(s)
      PROVE  LockOK'
  <2>1. CASE state[s] \in {"started", "error"}
    BY <1>14, <2>1, StartSettledLock DEF StartBegin
  <2>2. CASE state[s] \notin {"started", "error"}
    BY <1>14, <2>2, <1>1 DEF StartBegin
  <2>. QED  BY <2>1, <2>2
<1>15. ASSUME NEW s \in Instances, StartAcquired(s)
      PROVE  LockOK'
  <2>1. queue[s] # <<>> /\ Running(s).op = "start"
    BY <1>15 DEF StartAcquired, PhaseOK, Running
  <2>2. CASE IsConcat(s)
    BY <1>15, <2>1, <2>2, StartSettledLock DEF StartAcquired
  <2>3. CASE ~IsConcat(s)
    BY <1>15, <2>3, <1>1 DEF StartAcquired
  <2>. QED  BY <2>2, <2>3
<1>16. ASSUME NEW s \in Instances, StartFails(s)
      PROVE  LockOK'
  BY <1>16, StartSettledLock DEF StartFails, PhaseOK, Running
<1>17. ASSUME NEW s \in Instances, BecomesReady(s)
      PROVE  LockOK'
  BY <1>17, StartSettledLock DEF BecomesReady, PhaseOK, Running
<1>18. ASSUME NEW s \in Instances, ReadinessFails(s)
      PROVE  LockOK'
  BY <1>18, StartSettledLock DEF ReadinessFails, PhaseOK, Running
<1>19. ASSUME NEW s \in Instances, StopBegin(s)
      PROVE  LockOK'
  <2>1. CASE Stoppable(s)
    BY <1>19, <2>1, <1>1 DEF StopBegin
  <2>2. CASE ~Stoppable(s)
    BY <1>19, <2>2, StopSettledLock DEF StopBegin
  <2>. QED  BY <2>1, <2>2
<1>20. ASSUME NEW s \in Instances, HlsStopped(s)
      PROVE  LockOK'
  BY <1>20, StopSettledLock DEF HlsStopped, PhaseOK, Running
<1>21. ASSUME NEW s \in Instances, SlowerStopFails(s)
      PROVE  LockOK'
  BY <1>21, StopSettledLock DEF SlowerStopFails, PhaseOK, Running
<1>22. ASSUME NEW s \in Instances, ConcatStopped(s)
      PROVE  LockOK'
  BY <1>22, StopSettledLock DEF ConcatStopped, PhaseOK, Running
<1>. QED
  BY <1>1, <1>2, <1>3, <1>4, <1>5, <1>6, <1>7, <1>8, <1>9, <1>10, <1>11, <1>12, <1>13, <1>14, <1>15, <1>16, <1>17, <1>18, <1>19, <1>20, <1>21, <1>22, Next
     DEF Next, Micro, Task, Environment, Lookup, LockHolderStep,
         Poll, HeartbeatExpires, Disconnect, CleanupEvent, Collect, TimerFires, ProgramFails, ConcatProcessFails,
         WorkerEnds, WorkerRejects, LateEnds, CleanupTask, OnDemandStep, OnDemandTask

-----------------------------------------------------------------------------
(* The jobs of the session locks. *)

JobQueues == [Instances -> Seq(Job)]
NoJobOf(q, c) == \A s \in Instances : \A i \in 1..Len(q[s]) : q[s][i].by # c

(* r is q with, here and there, a stop() that no client waits for.         *)
Adds(q, r) ==
    \A s \in Instances : r[s] = q[s] \/ \E b \in {"nobody", "tracker"} : r[s] = Append(q[s], Stop(b))

(* The calls of the clients other than c stay where they are, and so do    *)
(* the sessions.                                                           *)
OthersWait(c) ==
    /\ \A d \in Clients \ {c} : pc'[d] = pc[d] /\ held'[d] = held[d] /\ want'[d] = want[d]
    /\ \A s \in Instances : keyOf[s] \in Key => keyOf'[s] = keyOf[s]

LEMMA WaitingHasNoJob ==
  ASSUME TypeOK, JobsOK, NEW c \in Clients, pc[c] \notin {"starting", "evicting", "ending"}
  PROVE  NoJobOf(queue, c)
<1>. SUFFICES ASSUME NEW s \in Instances, NEW i \in 1..Len(queue[s]), queue[s][i].by = c
              PROVE  FALSE
  BY DEF NoJobOf
<1>1. queue[s][i] \in Job
  BY DEF TypeOK, SessionTypeOK
<1>2. queue[s][i].op \in {"start", "stop"}
  BY <1>1 DEF Job
<1>. QED
  BY <1>2 DEF JobsOK, JobsOn, StartOwned, StopOwned

LEMMA AddedJobs ==
  ASSUME SessionAssumption, NEW q \in JobQueues, NEW r \in JobQueues, Adds(q, r)
  PROVE  /\ JobsOn(q) => JobsOn(r)
         /\ \A c \in Clients : NoJobOf(q, c) => NoJobOf(r, c)
<1>1. ASSUME NEW s \in Instances, NEW i \in 1..Len(r[s])
      PROVE  \/ i \in 1..Len(q[s]) /\ r[s][i] = q[s][i]
             \/ r[s][i].op = "stop" /\ r[s][i].by \notin Clients
  <2>1. "nobody" \notin Clients /\ "tracker" \notin Clients
    BY DEF SessionAssumption
  <2>2. CASE r[s] = q[s]
    BY <2>2
  <2>3. ASSUME NEW b \in {"nobody", "tracker"}, r[s] = Append(q[s], Stop(b))
        PROVE  \/ i \in 1..Len(q[s]) /\ r[s][i] = q[s][i]
               \/ r[s][i].op = "stop" /\ r[s][i].by \notin Clients
    <3>1. q[s] \in Seq(Job)
      BY DEF JobQueues
    <3>2. Len(r[s]) = Len(q[s]) + 1 /\ r[s][Len(q[s]) + 1] = Stop(b)
      BY <2>3, <3>1
    <3>3. CASE i \in 1..Len(q[s])
      BY <2>3, <3>1, <3>3
    <3>4. CASE i = Len(q[s]) + 1
      BY <2>1, <3>2, <3>4 DEF Stop
    <3>. QED  BY <3>1, <3>2, <3>3, <3>4
  <2>. QED  BY <2>2, <2>3 DEF Adds
<1>2. ASSUME JobsOn(q)
      PROVE  JobsOn(r)
  BY <1>1, <1>2 DEF JobsOn
<1>3. ASSUME NEW c \in Clients, NoJobOf(q, c)
      PROVE  NoJobOf(r, c)
  BY <1>1, <1>3 DEF NoJobOf
<1>. QED  BY <1>2, <1>3

LEMMA WithStopsAdds ==
  ASSUME NEW q \in JobQueues, NEW T, NEW b \in {"nobody", "tracker"}
  PROVE  /\ WithStops(q, T, b) \in JobQueues
         /\ Adds(q, WithStops(q, T, b))
<1>1. WithStops(q, T, b) \in JobQueues
  BY WithStopsType, CallerFacts DEF JobQueues
<1>. QED  BY <1>1 DEF Adds, WithStops

LEMMA ReleasedJobs ==
  ASSUME TypeOK, JobsOK, NEW s \in Instances, queue[s] # <<>>
  PROVE  /\ Released(s) \in JobQueues
         /\ JobsOn(Released(s))
         /\ Running(s).by \in Clients => NoJobOf(Released(s), Running(s).by)
<1>. DEFINE r == Released(s)
            c == Running(s).by
<1>1. queue \in JobQueues /\ r \in JobQueues /\ queue[s] \in Seq(Job)
  BY ReleasedType DEF TypeOK, SessionTypeOK, JobQueues
<1>2. r[s] = Tail(queue[s]) /\ \A u \in Instances \ {s} : r[u] = queue[u]
  BY <1>1 DEF Released, JobQueues
<1>3. Len(r[s]) = Len(queue[s]) - 1 /\ \A i \in 1..Len(r[s]) : r[s][i] = queue[s][i + 1]
  BY <1>1, <1>2
<1>4. 1 \in 1..Len(queue[s]) /\ Running(s) = queue[s][1] /\ Len(queue[s]) \in Nat
  BY <1>1 DEF Running
<1>5. JobsOn(r)
  <2>. SUFFICES ASSUME NEW u \in Instances, NEW i \in 1..Len(r[u])
                PROVE  /\ r[u][i].op = "start" => r[u][i].by \in Clients /\ StartOwned(u, r[u][i].by)
                       /\ r[u][i].op = "stop" /\ r[u][i].by \in Clients => StopOwned(u, r[u][i].by)
                       /\ r[u][i].by \in Clients =>
                            \A n \in 1..Len(r[u]) : r[u][n].by = r[u][i].by => n = i
    BY DEF JobsOn
  <2>1. CASE u # s
    BY <1>2, <2>1 DEF JobsOK, JobsOn
  <2>2. CASE u = s
    <3>1. i \in Nat /\ i + 1 \in 1..Len(queue[s]) /\ r[s][i] = queue[s][i + 1]
      BY <1>3, <1>4, <2>2
    <3>2. \A n \in 1..Len(r[s]) : n \in Nat /\ n + 1 \in 1..Len(queue[s]) /\ r[s][n] = queue[s][n + 1]
      BY <1>3, <1>4
    <3>3. ASSUME r[s][i].by \in Clients, NEW n \in 1..Len(r[s]), r[s][n].by = r[s][i].by
          PROVE  n = i
      <4>1. /\ n \in Nat /\ n + 1 \in 1..Len(queue[s]) /\ queue[s][n + 1] = r[s][n]
            /\ queue[s][i + 1] = r[s][i]
        BY <3>1, <3>2
      <4>2. \A m \in 1..Len(queue[s]) : queue[s][m].by = queue[s][i + 1].by => m = i + 1
        BY <3>1, <3>3, <4>1, Zenon DEF JobsOK, JobsOn
      <4>3. n + 1 = i + 1
        BY <3>3, <4>1, <4>2
      <4>. QED  BY <3>1, <4>1, <4>3
    <3>4. /\ queue[s][i + 1].op = "start" =>
               queue[s][i + 1].by \in Clients /\ StartOwned(s, queue[s][i + 1].by)
          /\ queue[s][i + 1].op = "stop" /\ queue[s][i + 1].by \in Clients =>
               StopOwned(s, queue[s][i + 1].by)
      BY <3>1, Zenon DEF JobsOK, JobsOn
    <3>. QED
      BY <2>2, <3>1, <3>3, <3>4, Zenon
  <2>. QED  BY <2>1, <2>2
<1>6. ASSUME c \in Clients, NEW u \in Instances, NEW i \in 1..Len(r[u]), r[u][i].by = c
      PROVE  FALSE
  <2>1. held[c] = s
    <3>1. Running(s) \in Job
      BY ReleasedType DEF TypeOK, SessionTypeOK
    <3>2. Running(s).by = c /\ Running(s).op \in {"start", "stop"}
      BY <3>1 DEF Job
    <3>3. StartOwned(s, c) \/ StopOwned(s, c)
      BY <1>4, <1>6, <3>2 DEF JobsOK, JobsOn
    <3>. QED
      BY <3>3 DEF StartOwned, StopOwned
  <2>2. CASE u # s
    <3>1. i \in 1..Len(queue[u]) /\ queue[u][i].by = c /\ queue[u][i] \in Job
      BY <1>1, <1>2, <1>6, <2>2 DEF JobQueues
    <3>2. held[c] = u
      BY <1>6, <3>1 DEF JobsOK, JobsOn, StartOwned, StopOwned, Job
    <3>. QED  BY <2>1, <2>2, <3>2
  <2>3. CASE u = s
    <3>1. i \in Nat /\ i # 0 /\ i + 1 \in 1..Len(queue[s]) /\ queue[s][i + 1].by = c
      BY <1>3, <1>4, <1>6, <2>3
    <3>2. i + 1 = 1
      BY <1>4, <1>6, <3>1 DEF JobsOK, JobsOn
    <3>. QED  BY <3>1, <3>2
  <2>. QED  BY <2>2, <2>3
<1>. QED  BY <1>1, <1>5, <1>6 DEF NoJobOf

(* A job that is owned stays so as long as the call that made it waits.    *)
LEMMA OwnedStays ==
  ASSUME LockOK, NEW c, OthersWait(c), NEW s \in Instances, NEW d \in Clients, d # c
  PROVE  /\ StartOwned(s, d) => StartOwned(s, d)'
         /\ StopOwned(s, d)  => StopOwned(s, d)'
<1>1. pc'[d] = pc[d] /\ held'[d] = held[d] /\ want'[d] = want[d]
  BY DEF OthersWait
<1>2. pc[d] # "idle" /\ want[d] = keyOf[s] => keyOf'[s] = keyOf[s]
  BY DEF LockOK, OthersWait
<1>. QED
  BY <1>1, <1>2 DEF StartOwned, StopOwned

(* No call moves.                                                          *)
LEMMA JobsStay ==
  ASSUME JobsOn(queue'), UNCHANGED <<keyOf, pc, want, held>>
  PROVE  JobsOK'
  BY SMTT(20) DEF JobsOK, JobsOn, StartOwned, StopOwned

(* JobsOK', job by job.                                                    *)
LEMMA EachJob ==
  ASSUME \A s \in Instances : \A i \in 1..Len(queue'[s]) : \A d :
           d = queue'[s][i].by =>
             /\ queue'[s][i].op = "start" => d \in Clients /\ StartOwned(s, d)'
             /\ queue'[s][i].op = "stop" /\ d \in Clients => StopOwned(s, d)'
             /\ d \in Clients => \A n \in 1..Len(queue'[s]) : queue'[s][n].by = d => n = i
  PROVE  JobsOK'
  BY SMTT(20) DEF JobsOK, JobsOn, StartOwned, StopOwned

(* A call without a job goes on.                                           *)
LEMMA MovedJobs ==
  ASSUME LockOK, NEW c, JobsOn(queue'), NoJobOf(queue', c), OthersWait(c)
  PROVE  JobsOK'
<1>. SUFFICES ASSUME NEW s \in Instances, NEW i \in 1..Len(queue'[s]), NEW d, d = queue'[s][i].by
              PROVE  /\ queue'[s][i].op = "start" => d \in Clients /\ StartOwned(s, d)'
                     /\ queue'[s][i].op = "stop" /\ d \in Clients => StopOwned(s, d)'
                     /\ d \in Clients => \A n \in 1..Len(queue'[s]) : queue'[s][n].by = d => n = i
  BY EachJob
<1>1. d # c
  BY DEF NoJobOf
<1>. QED
  BY <1>1, OwnedStays DEF JobsOn

(* A call without a job makes one.                                         *)
LEMMA PushedJob ==
  ASSUME LockOK, NEW c \in Clients, NEW q \in JobQueues, JobsOn(q), NoJobOf(q, c), OthersWait(c),
         NEW s \in Instances, NEW j \in Job, j.by = c,
         queue' = [q EXCEPT ![s] = Append(@, j)],
         j.op = "start" => StartOwned(s, c)',
         j.op = "stop" => StopOwned(s, c)'
  PROVE  JobsOK'
<1>. SUFFICES ASSUME NEW u \in Instances, NEW i \in 1..Len(queue'[u]), NEW d, d = queue'[u][i].by
              PROVE  /\ queue'[u][i].op = "start" => d \in Clients /\ StartOwned(u, d)'
                     /\ queue'[u][i].op = "stop" /\ d \in Clients => StopOwned(u, d)'
                     /\ d \in Clients => \A n \in 1..Len(queue'[u]) : queue'[u][n].by = d => n = i
  BY EachJob
<1>1. q[u] \in Seq(Job) /\ q[s] \in Seq(Job)
  BY DEF JobQueues
<1>2. \A n \in 1..Len(queue'[u]) :
         \/ n \in 1..Len(q[u]) /\ queue'[u][n] = q[u][n]
         \/ u = s /\ n = Len(q[u]) + 1 /\ queue'[u][n] = j
  <2>1. CASE u # s
    BY <2>1 DEF JobQueues
  <2>2. CASE u = s
    <3>1. queue'[u] = Append(q[u], j)
      BY <2>2 DEF JobQueues
    <3>. QED
      BY <1>1, <2>2, <3>1
  <2>. QED  BY <2>1, <2>2
<1>3. CASE i \in 1..Len(q[u]) /\ queue'[u][i] = q[u][i]
  <2>1. d # c
    BY <1>3 DEF NoJobOf
  <2>2. ASSUME d \in Clients, NEW n \in 1..Len(queue'[u]), queue'[u][n].by = d
        PROVE  n = i
    BY <1>2, <1>3, <2>1, <2>2 DEF JobsOn
  <2>3. /\ queue'[u][i].op = "start" => d \in Clients /\ StartOwned(u, d)
        /\ queue'[u][i].op = "stop" /\ d \in Clients => StopOwned(u, d)
    BY <1>3, Zenon DEF JobsOn
  <2>. QED
    BY <1>3, <2>1, <2>2, <2>3, OwnedStays
<1>4. CASE u = s /\ i = Len(q[u]) + 1 /\ queue'[u][i] = j
  <2>1. ASSUME NEW n \in 1..Len(queue'[u]), queue'[u][n].by = c
        PROVE  n = i
    BY <1>2, <1>4, <2>1 DEF NoJobOf
  <2>. QED
    BY <1>4, <2>1
<1>. QED  BY <1>2, <1>3, <1>4
LEMMA LeaveMoves ==
  ASSUME TypeOK, NEW c \in Clients, Leave(c), keyOf' = keyOf
  PROVE  OthersWait(c)
  BY DEF Leave, OthersWait, TypeOK

LEMMA StartSettledJobs ==
  ASSUME SessionAssumption, TypeOK, LockOK, JobsOK, NEW s \in Instances, queue[s] # <<>>,
         Running(s).op = "start", NEW stops, NEW st, StartSettled(s, stops, st), keyOf' = keyOf
  PROVE  JobsOK'
<1>. DEFINE c == Running(s).by
            r == Released(s)
<1>1. c \in Clients
  BY StarterOwns
<1>2. r \in JobQueues /\ JobsOn(r) /\ NoJobOf(r, c)
  BY <1>1, ReleasedJobs
<1>3. queue' = WithStops(r, stops, "nobody") /\ Leave(c)
  BY DEF StartSettled
<1>4. queue' \in JobQueues /\ Adds(r, queue')
  BY <1>2, <1>3, WithStopsAdds
<1>. HIDE DEF r
<1>5. JobsOn(queue') /\ NoJobOf(queue', c)
  BY <1>1, <1>2, <1>4, AddedJobs
<1>. QED
  BY <1>1, <1>3, <1>5, LeaveMoves, MovedJobs

LEMMA StopSettledJobs ==
  ASSUME SessionAssumption, TypeOK, LockOK, JobsOK, NEW s \in Instances, queue[s] # <<>>,
         NEW q \in JobQueues, Adds(Released(s), q), NEW ok, StopSettled(s, q, ok), keyOf' = keyOf
  PROVE  JobsOK'
<1>. DEFINE c == Running(s).by
<1>1. Released(s) \in JobQueues /\ JobsOn(Released(s))
      /\ (c \in Clients => NoJobOf(Released(s), c))
  BY ReleasedJobs
<1>2. queue' = q /\ JobsOn(q) /\ (c \in Clients => NoJobOf(q, c))
  BY <1>1, AddedJobs DEF StopSettled
<1>3. CASE c \notin Clients
  <2>1. JobsOn(queue') /\ UNCHANGED <<keyOf, pc, want, held>>
    BY <1>2, <1>3 DEF StopSettled, requestVars
  <2>. QED  BY <2>1, JobsStay, Zenon
<1>4. CASE c \in Clients
  <2>1. \/ Leave(c)
        \/ \E x \in PC : /\ pc' = [pc EXCEPT ![c] = x]
                         /\ UNCHANGED <<chanQ, want, held, victims>>
    BY <1>4 DEF StopSettled, PC
  <2>2. OthersWait(c)
    BY <1>4, <2>1, LeaveMoves DEF OthersWait, TypeOK
  <2>. QED
    BY <1>2, <1>4, <2>2, MovedJobs
<1>. QED  BY <1>3, <1>4

(* Only stops that no client waits for are added.                          *)
LEMMA AddsJobs ==
  ASSUME SessionAssumption, TypeOK, TypeOK', JobsOK, Adds(queue, queue'),
         UNCHANGED <<keyOf, requestVars>>
  PROVE  JobsOK'
<1>1. queue \in JobQueues /\ queue' \in JobQueues
  BY DEF TypeOK, SessionTypeOK, JobQueues
<1>2. JobsOn(queue')
  BY <1>1, AddedJobs DEF JobsOK
<1>. QED
  BY <1>2, JobsStay DEF requestVars

LEMMA ScheduleAdds ==
  ASSUME TypeOK, NEW T, ScheduleCleanups(T)
  PROVE  Adds(queue, queue')
  BY DEF ScheduleCleanups, Adds, StopperOf, TypeOK, SessionTypeOK

LEMMA ConstructJobs ==
  ASSUME TypeOK, LockOK, NEW c \in Clients, want[c] \in Key,
         NEW q \in JobQueues, JobsOn(q), NoJobOf(q, c), NEW ss, Construct(c, q, ss)
  PROVE  JobsOK'
<1>1. PICK s \in Instances : /\ keyOf[s] = NoKey
                             /\ keyOf'   = [keyOf EXCEPT ![s] = want[c]]
                             /\ queue'   = [q EXCEPT ![s] = Append(@, Start(c))]
                             /\ held'    = [held EXCEPT ![c] = s]
  BY DEF Construct, Unused
<1>2. OthersWait(c)
  BY <1>1, NoKeyIsNoKey DEF Construct, Unused, OthersWait, TypeOK, SessionTypeOK
<1>3. Start(c) \in Job /\ Start(c).by = c /\ Start(c).op = "start"
  BY DEF Start, Job, Caller
<1>4. StartOwned(s, c)'
  BY <1>1 DEF Construct, Unused, StartOwned, TypeOK, SessionTypeOK
<1>. QED
  BY <1>1, <1>2, <1>3, <1>4, PushedJob

LEMMA StopVictimJobs ==
  ASSUME TypeOK, LockOK, NEW c \in Clients, NEW vs, Head(vs) \in Instances,
         NEW q \in JobQueues, JobsOn(q), NoJobOf(q, c), NEW tm, StopVictim(c, vs, q, tm)
  PROVE  JobsOK'
<1>1. OthersWait(c)
  BY DEF StopVictim, StopAndWait, OthersWait, TypeOK
<1>2. Stop(c) \in Job /\ Stop(c).by = c /\ Stop(c).op = "stop"
  BY DEF Stop, Job, Caller
<1>3. StopOwned(Head(vs), c)'
  BY DEF StopVictim, StopAndWait, StopOwned, TypeOK
<1>4. queue' = [q EXCEPT ![Head(vs)] = Append(@, Stop(c))]
  BY DEF StopVictim, StopAndWait
<1>. QED
  BY <1>1, <1>2, <1>3, <1>4, PushedJob

LEMMA JobsStep ==
  ASSUME SessionAssumption, ManagerAssumption, TypeOK, LockOK, JobsOK, PhaseOK, MapOK, TypeOK', Next
  PROVE  JobsOK'
<1>0. queue \in JobQueues /\ JobsOn(queue)
  BY DEF TypeOK, SessionTypeOK, JobQueues, JobsOK
<1>1. CASE UNCHANGED <<keyOf, queue, requestVars>>
  BY <1>0, <1>1, JobsStay DEF requestVars
<1>2. ASSUME NEW c \in Clients, ConcatCheck(c)
      PROVE  JobsOK'
  <2>1. NoJobOf(queue, c) /\ queue' = queue
    BY <1>2, WaitingHasNoJob DEF ConcatCheck, sessionVars
  <2>2. OthersWait(c)
    BY <1>2 DEF ConcatCheck, OthersWait, TypeOK, sessionVars
  <2>. QED
    BY <1>0, <2>1, <2>2, MovedJobs
<1>3. ASSUME NEW c \in Clients, EnterShare(c)
      PROVE  JobsOK'
  <2>1. NoJobOf(queue, c) /\ queue' = queue /\ keyOf' = keyOf /\ Leave(c)
    BY <1>3, WaitingHasNoJob DEF EnterShare, sessionVars
  <2>. QED
    BY <1>0, <2>1, LeaveMoves, MovedJobs
<1>4. ASSUME NEW c \in Clients, EnterStart(c)
      PROVE  JobsOK'
  <2>1. PICK s \in At(want[c]) : /\ queue' = [queue EXCEPT ![s] = Append(@, Start(c))]
                                 /\ held' = [held EXCEPT ![c] = s]
    BY <1>4 DEF EnterStart
  <2>2. want[c] \in Key /\ s \in Instances /\ keyOf[s] = want[c]
    BY <1>4, <2>1 DEF EnterStart, LockOK, At, TypeOK, MapOK
  <2>3. NoJobOf(queue, c)
    BY <1>4, WaitingHasNoJob DEF EnterStart
  <2>4. OthersWait(c)
    BY <1>4, <2>1 DEF EnterStart, OthersWait, TypeOK
  <2>5. Start(c) \in Job /\ Start(c).by = c /\ Start(c).op = "start"
    BY DEF Start, Job, Caller
  <2>6. StartOwned(s, c)'
    BY <1>4, <2>1, <2>2 DEF EnterStart, StartOwned, TypeOK
  <2>. QED
    BY <1>0, <2>1, <2>2, <2>3, <2>4, <2>5, <2>6, PushedJob
<1>5. ASSUME NEW c \in Clients, EnterCreate(c)
      PROVE  JobsOK'
  <2>1. NoJobOf(queue, c) /\ queue' = queue
    BY <1>5, WaitingHasNoJob DEF EnterCreate, sessionVars
  <2>2. OthersWait(c)
    BY <1>5 DEF EnterCreate, OthersWait, TypeOK, sessionVars
  <2>. QED
    BY <1>0, <2>1, <2>2, MovedJobs
<1>6. ASSUME NEW c \in Clients, LookupMiss(c)
      PROVE  JobsOK'
  <2>1. NoJobOf(queue, c) /\ queue' = queue /\ keyOf' = keyOf /\ Leave(c)
    BY <1>6, WaitingHasNoJob DEF LookupMiss, sessionVars
  <2>. QED
    BY <1>0, <2>1, LeaveMoves, MovedJobs
<1>7. ASSUME NEW c \in Clients, LookupCreate(c)
      PROVE  JobsOK'
  <2>1. Construct(c, queue, sessions) /\ NoJobOf(queue, c) /\ want[c] \in Key
    BY <1>7, WaitingHasNoJob DEF LookupCreate, LockOK
  <2>. QED
    BY <1>0, <2>1, ConstructJobs
<1>8. ASSUME NEW c \in Clients, LookupEvict(c)
      PROVE  JobsOK'
  <2>1. PICK v \in Rankings(c) : StopVictim(c, v, queue, timer)
    BY <1>8 DEF LookupEvict
  <2>2. Head(v) \in Instances
    BY <1>8, RankingsType DEF LookupEvict
  <2>3. NoJobOf(queue, c)
    BY <1>8, WaitingHasNoJob DEF LookupEvict
  <2>. QED
    BY <1>0, <2>1, <2>2, <2>3, StopVictimJobs
<1>9. ASSUME NEW c \in Clients, Evict(c)
      PROVE  JobsOK'
  <2>. DEFINE k  == keyOf[held[c]]
              qs == WithStops(queue, DeleteStops(k), "nobody")
              ss == [sessions EXCEPT ![k] = NoSession]
              tm == TimersWithout(DeleteStops(k))
  <2>1. qs \in JobQueues /\ Adds(queue, qs)
    BY <1>0, WithStopsAdds
  <2>2. NoJobOf(queue, c) /\ want[c] \in Key
    BY <1>9, WaitingHasNoJob DEF Evict, LockOK
  <2>3. CASE victims[c] = <<>>
    <3>1. Construct(c, qs, ss)
      BY <1>9, <2>3 DEF Evict
    <3>. HIDE DEF qs, ss, tm
    <3>2. JobsOn(qs) /\ NoJobOf(qs, c)
      BY <1>0, <2>1, <2>2, AddedJobs
    <3>. QED
      BY <2>1, <2>2, <3>1, <3>2, ConstructJobs
  <2>4. CASE victims[c] # <<>>
    <3>1. StopVictim(c, victims[c], qs, tm)
      BY <1>9, <2>4 DEF Evict
    <3>. HIDE DEF qs, ss, tm
    <3>2. JobsOn(qs) /\ NoJobOf(qs, c)
      BY <1>0, <2>1, <2>2, AddedJobs
    <3>3. Head(victims[c]) \in Instances
      BY <2>4 DEF TypeOK
    <3>. QED
      BY <2>1, <3>1, <3>2, <3>3, StopVictimJobs
  <2>. QED  BY <2>3, <2>4
<1>10. ASSUME NEW c \in Clients, EnterEnd(c)
      PROVE  JobsOK'
  <2>1. NoJobOf(queue, c) /\ want[c] \in Key /\ keyOf' = keyOf
    BY <1>10, WaitingHasNoJob DEF EnterEnd, LockOK
  <2>2. CASE sessions[want[c]] = NoSession
    <3>1. queue' = queue /\ Leave(c)
      BY <1>10, <2>2 DEF EnterEnd
    <3>. QED
      BY <1>0, <2>1, <3>1, LeaveMoves, MovedJobs
  <2>3. CASE sessions[want[c]] # NoSession
    <3>0. PICK s \in Instances : s = sessions[want[c]]
      BY <2>1, <2>3 DEF TypeOK
    <3>1. /\ queue' = WithStops(queue, {s}, c)
          /\ held' = [held EXCEPT ![c] = s]
          /\ pc' = [pc EXCEPT ![c] = "ending"]
          /\ UNCHANGED <<chanQ, want, victims>>
      BY <1>10, <2>3, <3>0 DEF EnterEnd
    <3>2. keyOf[s] = want[c]
      BY <2>1, <3>0 DEF TypeOK, MapOK
    <3>3. queue' = [queue EXCEPT ![s] = Append(@, Stop(c))]
      BY <1>0, <3>1, <3>2 DEF WithStops, JobQueues
    <3>4. OthersWait(c)
      BY <2>1, <3>1 DEF OthersWait, TypeOK
    <3>5. Stop(c) \in Job /\ Stop(c).by = c /\ Stop(c).op = "stop"
      BY DEF Stop, Job, Caller
    <3>6. StopOwned(s, c)'
      BY <2>1, <3>1, <3>2 DEF StopOwned, TypeOK
    <3>. QED
      BY <1>0, <2>1, <3>2, <3>3, <3>4, <3>5, <3>6, PushedJob
  <2>. QED  BY <2>2, <2>3
<1>11. ASSUME NEW c \in Clients, EndSession(c)
      PROVE  JobsOK'
  <2>1. NoJobOf(queue, c) /\ queue' = queue /\ keyOf' = keyOf /\ Leave(c)
    BY <1>11, WaitingHasNoJob DEF EndSession, sessionVars
  <2>. QED
    BY <1>0, <2>1, LeaveMoves, MovedJobs
<1>12. ASSUME NEW c \in Clients, NEW k \in Key, Request(c, k)
      PROVE  JobsOK'
  <2>1. NoJobOf(queue, c) /\ queue' = queue
    BY <1>12, WaitingHasNoJob DEF Request, sessionVars
  <2>2. OthersWait(c)
    BY <1>12 DEF Request, OthersWait, TypeOK, sessionVars
  <2>. QED
    BY <1>0, <2>1, <2>2, MovedJobs
<1>13. ASSUME NEW c \in Clients, NEW k \in Key, RequestEnd(c, k)
      PROVE  JobsOK'
  <2>1. NoJobOf(queue, c) /\ queue' = queue
    BY <1>13, WaitingHasNoJob DEF RequestEnd, sessionVars
  <2>2. OthersWait(c)
    BY <1>13 DEF RequestEnd, OthersWait, TypeOK, sessionVars
  <2>. QED
    BY <1>0, <2>1, <2>2, MovedJobs
<1>14. ASSUME NEW c \in Clients, NEW s \in Instances, Disconnect(c, s)
      PROVE  JobsOK'
  BY <1>14, ScheduleAdds, AddsJobs DEF Disconnect
<1>15. ASSUME NEW s \in Instances, StartBegin(s)
      PROVE  JobsOK'
  <2>1. CASE state[s] \in {"started", "error"}
    BY <1>15, <2>1, StartSettledJobs DEF StartBegin
  <2>2. CASE state[s] \notin {"started", "error"}
    BY <1>15, <2>2, <1>1 DEF StartBegin
  <2>. QED  BY <2>1, <2>2
<1>16. ASSUME NEW s \in Instances, StartAcquired(s)
      PROVE  JobsOK'
  <2>1. queue[s] # <<>> /\ Running(s).op = "start"
    BY <1>16 DEF StartAcquired, PhaseOK, Running
  <2>2. CASE IsConcat(s)
    BY <1>16, <2>1, <2>2, StartSettledJobs DEF StartAcquired
  <2>3. CASE ~IsConcat(s)
    BY <1>16, <2>3, <1>1 DEF StartAcquired
  <2>. QED  BY <2>2, <2>3
<1>17. ASSUME NEW s \in Instances, StartFails(s)
      PROVE  JobsOK'
  BY <1>17, StartSettledJobs DEF StartFails, PhaseOK, Running
<1>18. ASSUME NEW s \in Instances, BecomesReady(s)
      PROVE  JobsOK'
  BY <1>18, StartSettledJobs DEF BecomesReady, PhaseOK, Running
<1>19. ASSUME NEW s \in Instances, ReadinessFails(s)
      PROVE  JobsOK'
  BY <1>19, StartSettledJobs DEF ReadinessFails, PhaseOK, Running
<1>20. ASSUME NEW s \in Instances, StopBegin(s)
      PROVE  JobsOK'
  <2>1. CASE Stoppable(s)
    BY <1>20, <2>1, <1>1 DEF StopBegin
  <2>2. CASE ~Stoppable(s)
    <3>1. Released(s) \in JobQueues /\ Adds(Released(s), Released(s))
      BY <1>20, ReleasedJobs DEF StopBegin, Adds
    <3>. QED
      BY <1>20, <2>2, <3>1, StopSettledJobs DEF StopBegin
  <2>. QED  BY <2>1, <2>2
<1>21. ASSUME NEW s \in Instances, HlsStopped(s)
      PROVE  JobsOK'
  <2>1. Released(s) \in JobQueues /\ Adds(Released(s), Released(s))
    BY <1>21, ReleasedJobs DEF HlsStopped, PhaseOK, Adds
  <2>. QED
    BY <1>21, <2>1, StopSettledJobs DEF HlsStopped, PhaseOK
<1>22. ASSUME NEW s \in Instances, SlowerStopFails(s)
      PROVE  JobsOK'
  <2>1. Released(s) \in JobQueues /\ Adds(Released(s), Released(s))
    BY <1>22, ReleasedJobs DEF SlowerStopFails, PhaseOK, Adds
  <2>. QED
    BY <1>22, <2>1, StopSettledJobs DEF SlowerStopFails, PhaseOK
<1>23. ASSUME NEW s \in Instances, ConcatStopped(s)
      PROVE  JobsOK'
  <2>. DEFINE q == WithStops(Released(s), RemovedWithChildren(s), "nobody")
  <2>1. queue[s] # <<>> /\ StopSettled(s, q, TRUE) /\ keyOf' = keyOf
    BY <1>23 DEF ConcatStopped, PhaseOK
  <2>2. q \in JobQueues /\ Adds(Released(s), q)
    BY <2>1, ReleasedJobs, WithStopsAdds
  <2>. HIDE DEF q
  <2>. QED
    BY <2>1, <2>2, StopSettledJobs
<1>24. ASSUME NEW s \in Instances, CleanupEvent(s)
      PROVE  JobsOK'
  BY <1>24, <1>0, WithStopsAdds, AddsJobs DEF CleanupEvent
<1>25. ASSUME NEW s \in Instances, Collect(s)
      PROVE  JobsOK'
  <2>1. queue[s] = <<>> /\ queue' = queue /\ UNCHANGED requestVars
    BY <1>25 DEF Collect, Garbage
  <2>2. \A u \in Instances : u # s => keyOf'[u] = keyOf[u]
    BY <1>25 DEF Collect, TypeOK, SessionTypeOK
  <2>3. ASSUME NEW u \in Instances, 1..Len(queue[u]) # {}
        PROVE  keyOf'[u] = keyOf[u]
    BY <2>1, <2>2, <2>3
  <2>4. ASSUME NEW u \in Instances, NEW i \in 1..Len(queue[u]), NEW d
        PROVE  /\ StartOwned(u, d) => StartOwned(u, d)'
               /\ StopOwned(u, d) => StopOwned(u, d)'
    BY <2>1, <2>3, <2>4 DEF StartOwned, StopOwned, requestVars
  <2>. QED
    BY <2>1, <2>4 DEF JobsOK, JobsOn
<1>26. ASSUME NEW s \in Instances, TimerFires(s)
      PROVE  JobsOK'
  <2>1. Adds(queue, queue')
    BY <1>26, <1>0, WithStopsAdds DEF TimerFires, Adds
  <2>. QED
    BY <1>26, <2>1, AddsJobs DEF TimerFires
<1>27. ASSUME NEW s \in Instances, ProgramFails(s)
      PROVE  JobsOK'
  BY <1>27, <1>0, WithStopsAdds, AddsJobs DEF ProgramFails, EmitError
<1>28. ASSUME NEW s \in Instances, ConcatProcessFails(s)
      PROVE  JobsOK'
  BY <1>28, <1>0, WithStopsAdds, AddsJobs DEF ConcatProcessFails, EmitError
<1>29. ASSUME NEW s \in Instances, WorkerEnds(s)
      PROVE  JobsOK'
  BY <1>29, ScheduleAdds, AddsJobs DEF WorkerEnds
<1>30. ASSUME CleanupTask
      PROVE  JobsOK'
  BY <1>30, ScheduleAdds, AddsJobs DEF CleanupTask
<1>. QED
  BY <1>1, <1>2, <1>3, <1>4, <1>5, <1>6, <1>7, <1>8, <1>9, <1>10, <1>11, <1>12, <1>13, <1>14, <1>15, <1>16, <1>17, <1>18, <1>19, <1>20, <1>21, <1>22, <1>23, <1>24, <1>25, <1>26, <1>27, <1>28, <1>29, <1>30, Next
     DEF Next, Micro, Task, Environment, Lookup, LockHolderStep, Poll, HeartbeatExpires,
         WorkerRejects, LateEnds, OnDemandStep, OnDemandTask, sessionVars

-----------------------------------------------------------------------------
(* The holder of a session lock. *)

KeepsHeads(q, r) ==
    \A u \in Instances : q[u] # <<>> => r[u] # <<>> /\ Head(r[u]) = Head(q[u])

LEMMA AddsKeeps ==
  ASSUME NEW q \in JobQueues, NEW r, Adds(q, r)
  PROVE  KeepsHeads(q, r)
<1>. SUFFICES ASSUME NEW u \in Instances, q[u] # <<>>
              PROVE  r[u] # <<>> /\ Head(r[u]) = Head(q[u])
  BY DEF KeepsHeads
<1>1. q[u] \in Seq(Job)
  BY DEF JobQueues
<1>2. \A j : Append(q[u], j) # <<>> /\ Head(Append(q[u], j)) = Head(q[u])
  BY <1>1
<1>. QED  BY <1>2 DEF Adds

LEMMA PushKeeps ==
  ASSUME NEW q \in JobQueues, NEW s \in Instances, NEW j
  PROVE  KeepsHeads(q, [q EXCEPT ![s] = Append(@, j)])
<1>. SUFFICES ASSUME NEW u \in Instances, q[u] # <<>>
              PROVE  /\ [q EXCEPT ![s] = Append(@, j)][u] # <<>>
                     /\ Head([q EXCEPT ![s] = Append(@, j)][u]) = Head(q[u])
  BY DEF KeepsHeads
<1>1. q[u] \in Seq(Job)
  BY DEF JobQueues
<1>2. Append(q[u], j) # <<>> /\ Head(Append(q[u], j)) = Head(q[u])
  BY <1>1
<1>3. [q EXCEPT ![s] = Append(@, j)][u] \in {q[u], Append(q[u], j)}
  BY DEF JobQueues
<1>. QED  BY <1>2, <1>3

(* Jobs are only added, and the holder goes nowhere.                       *)
LEMMA GrowsPhase ==
  ASSUME PhaseOK, phase' = phase, KeepsHeads(queue, queue')
  PROVE  PhaseOK'
  BY DEF PhaseOK, KeepsHeads

(* The holder of the lock of s leaves, and jobs are added behind it.       *)
LEMMA SettledPhase ==
  ASSUME TypeOK, PhaseOK, NEW s \in Instances, queue[s] # <<>>,
         phase' = [phase EXCEPT ![s] = "idle"], Adds(Released(s), queue')
  PROVE  PhaseOK'
<1>1. Released(s) \in JobQueues
  BY ReleasedType DEF JobQueues, TypeOK, SessionTypeOK
<1>2. KeepsHeads(Released(s), queue')
  BY <1>1, AddsKeeps
<1>3. \A u \in Instances \ {s} : Released(s)[u] = queue[u]
  BY DEF Released, TypeOK, SessionTypeOK
<1>4. phase'[s] = "idle" /\ \A u \in Instances \ {s} : phase'[u] = phase[u]
  BY DEF TypeOK, SessionTypeOK
<1>5. ASSUME NEW u \in Instances, u # s
      PROVE  queue[u] # <<>> => queue'[u] # <<>> /\ Head(queue'[u]) = Head(queue[u])
  BY <1>2, <1>3, <1>5 DEF KeepsHeads
<1>. QED
  BY <1>4, <1>5 DEF PhaseOK

LEMMA StartSettledPhase ==
  ASSUME TypeOK, PhaseOK, NEW s \in Instances, queue[s] # <<>>, NEW stops, NEW st,
         StartSettled(s, stops, st)
  PROVE  PhaseOK'
<1>1. Released(s) \in JobQueues
  BY ReleasedType DEF JobQueues, TypeOK, SessionTypeOK
<1>2. Adds(Released(s), queue') /\ phase' = [phase EXCEPT ![s] = "idle"]
  BY <1>1, WithStopsAdds DEF StartSettled
<1>. QED  BY <1>2, SettledPhase

LEMMA PhaseStep ==
  ASSUME SessionAssumption, ManagerAssumption, TypeOK, PhaseOK, Next
  PROVE  PhaseOK'
<1>0. queue \in JobQueues
  BY DEF TypeOK, SessionTypeOK, JobQueues
<1>1. CASE UNCHANGED <<queue, phase>>
  BY <1>1 DEF PhaseOK
<1>2. ASSUME NEW s \in Instances, NEW j, queue' = [queue EXCEPT ![s] = Append(@, j)], phase' = phase
      PROVE  PhaseOK'
  BY <1>0, <1>2, PushKeeps, GrowsPhase
<1>3. CASE Adds(queue, queue') /\ phase' = phase
  BY <1>0, <1>3, AddsKeeps, GrowsPhase
<1>4. ASSUME NEW c \in Clients, EnterStart(c)
      PROVE  PhaseOK'
  <2>1. PICK s \in At(want[c]) : queue' = [queue EXCEPT ![s] = Append(@, Start(c))]
    BY <1>4 DEF EnterStart
  <2>2. CASE s \in Instances
    BY <1>2, <1>4, <2>1, <2>2 DEF EnterStart
  <2>3. CASE s \notin Instances
    <3>1. queue' = queue
      BY <2>1, <2>3 DEF TypeOK, SessionTypeOK
    <3>. QED
      BY <1>1, <1>4, <3>1 DEF EnterStart
  <2>. QED  BY <2>2, <2>3
<1>5. ASSUME NEW c \in Clients, LookupCreate(c)
      PROVE  PhaseOK'
  BY <1>2, <1>5 DEF LookupCreate, Construct, Unused
<1>6. ASSUME NEW c \in Clients, LookupEvict(c)
      PROVE  PhaseOK'
  <2>1. PICK v \in Rankings(c) : StopVictim(c, v, queue, timer)
    BY <1>6 DEF LookupEvict
  <2>2. Head(v) \in Instances
    BY <1>6, RankingsType DEF LookupEvict
  <2>. QED
    BY <1>2, <2>1, <2>2 DEF StopVictim, StopAndWait
<1>7. ASSUME NEW c \in Clients, Evict(c)
      PROVE  PhaseOK'
  <2>1. PICK qs : qs = WithStops(queue, DeleteStops(keyOf[held[c]]), "nobody")
    OBVIOUS
  <2>2. qs \in JobQueues /\ KeepsHeads(queue, qs)
    BY <1>0, <2>1, WithStopsAdds, AddsKeeps
  <2>3. phase' = phase
    BY <1>7 DEF Evict, Construct, Unused, StopVictim, StopAndWait
  <2>4. PICK s \in Instances, j \in Job : queue' = [qs EXCEPT ![s] = Append(@, j)]
    <3>1. CASE victims[c] = <<>>
      <4>1. Start(c) \in Job
        BY DEF Start, Job, Caller
      <4>. QED
        BY <1>7, <2>1, <3>1, <4>1 DEF Evict, Construct, Unused
    <3>2. CASE victims[c] # <<>>
      <4>1. Stop(c) \in Job /\ Head(victims[c]) \in Instances
        BY <3>2 DEF Stop, Job, Caller, TypeOK
      <4>. QED
        BY <1>7, <2>1, <3>2, <4>1 DEF Evict, StopVictim, StopAndWait
    <3>. QED  BY <3>1, <3>2
  <2>5. KeepsHeads(qs, queue')
    BY <2>2, <2>4, PushKeeps
  <2>6. KeepsHeads(queue, queue')
    BY <2>2, <2>5 DEF KeepsHeads
  <2>. QED
    BY <2>3, <2>6, GrowsPhase
<1>8. ASSUME NEW c \in Clients, EnterEnd(c)
      PROVE  PhaseOK'
  <2>1. CASE sessions[want[c]] = NoSession
    BY <1>1, <1>8, <2>1 DEF EnterEnd
  <2>2. CASE sessions[want[c]] # NoSession
    <3>1. queue' = WithStops(queue, {sessions[want[c]]}, c) /\ phase' = phase
      BY <1>8, <2>2 DEF EnterEnd
    <3>2. \A u \in Instances : queue[u] \in Seq(Job)
      BY DEF TypeOK, SessionTypeOK
    <3>3. \A u \in Instances : queue'[u] \in {queue[u], Append(queue[u], Stop(c))}
      BY <3>1 DEF WithStops
    <3>4. ASSUME NEW u \in Instances, queue[u] # <<>>
          PROVE  queue'[u] # <<>> /\ Head(queue'[u]) = Head(queue[u])
      <4>1. Append(queue[u], Stop(c)) # <<>> /\ Head(Append(queue[u], Stop(c))) = Head(queue[u])
        BY <3>2, <3>4
      <4>. QED  BY <3>3, <3>4, <4>1
    <3>. QED
      BY <3>1, <3>4, GrowsPhase DEF KeepsHeads
  <2>. QED  BY <2>1, <2>2
<1>9. ASSUME NEW c \in Clients, NEW s \in Instances, Disconnect(c, s)
      PROVE  PhaseOK'
  BY <1>3, <1>9, ScheduleAdds DEF Disconnect
<1>10. ASSUME NEW s \in Instances, StartBegin(s)
      PROVE  PhaseOK'
  <2>1. CASE state[s] \in {"started", "error"}
    BY <1>10, <2>1, StartSettledPhase DEF StartBegin
  <2>2. CASE state[s] \notin {"started", "error"}
    BY <1>10, <2>2 DEF StartBegin, PhaseOK, Running, TypeOK, SessionTypeOK
  <2>. QED  BY <2>1, <2>2
<1>11. ASSUME NEW s \in Instances, StartAcquired(s)
      PROVE  PhaseOK'
  <2>1. queue[s] # <<>> /\ Head(queue[s]).op = "start"
    BY <1>11 DEF StartAcquired, PhaseOK
  <2>2. CASE IsConcat(s)
    BY <1>11, <2>1, <2>2, StartSettledPhase DEF StartAcquired
  <2>3. CASE ~IsConcat(s)
    <3>1. phase' = [phase EXCEPT ![s] = "ready"] /\ queue' = queue
      BY <1>11, <2>3 DEF StartAcquired
    <3>. QED
      BY <2>1, <3>1 DEF PhaseOK, TypeOK, SessionTypeOK
  <2>. QED  BY <2>2, <2>3
<1>12. ASSUME NEW s \in Instances, StartFails(s)
      PROVE  PhaseOK'
  BY <1>12, StartSettledPhase DEF StartFails, PhaseOK
<1>13. ASSUME NEW s \in Instances, BecomesReady(s)
      PROVE  PhaseOK'
  BY <1>13, StartSettledPhase DEF BecomesReady, PhaseOK
<1>14. ASSUME NEW s \in Instances, ReadinessFails(s)
      PROVE  PhaseOK'
  BY <1>14, StartSettledPhase DEF ReadinessFails, PhaseOK
<1>15. ASSUME NEW s \in Instances, StopBegin(s)
      PROVE  PhaseOK'
  <2>1. CASE Stoppable(s)
    BY <1>15, <2>1 DEF StopBegin, PhaseOK, Running, TypeOK, SessionTypeOK
  <2>2. CASE ~Stoppable(s)
    <3>1. queue' = Released(s) /\ phase' = [phase EXCEPT ![s] = "idle"] /\ queue[s] # <<>>
      BY <1>15, <2>2 DEF StopBegin, StopSettled
    <3>. QED
      BY <3>1, SettledPhase DEF Adds
  <2>. QED  BY <2>1, <2>2
<1>16. ASSUME NEW s \in Instances, HlsStopped(s)
      PROVE  PhaseOK'
  BY <1>16, SettledPhase DEF HlsStopped, StopSettled, Adds, PhaseOK
<1>17. ASSUME NEW s \in Instances, SlowerStopFails(s)
      PROVE  PhaseOK'
  BY <1>17, SettledPhase DEF SlowerStopFails, StopSettled, Adds, PhaseOK
<1>18. ASSUME NEW s \in Instances, ConcatStopped(s)
      PROVE  PhaseOK'
  <2>1. queue[s] # <<>> /\ phase' = [phase EXCEPT ![s] = "idle"]
    BY <1>18 DEF ConcatStopped, StopSettled, PhaseOK
  <2>2. Released(s) \in JobQueues
    BY <1>0, <2>1, ReleasedType DEF JobQueues
  <2>3. Adds(Released(s), queue')
    BY <1>18, <2>2, WithStopsAdds DEF ConcatStopped, StopSettled
  <2>. QED
    BY <2>1, <2>3, SettledPhase
<1>19. ASSUME NEW s \in Instances, CleanupEvent(s)
      PROVE  PhaseOK'
  BY <1>0, <1>3, <1>19, WithStopsAdds DEF CleanupEvent
<1>20. ASSUME NEW s \in Instances, TimerFires(s)
      PROVE  PhaseOK'
  <2>1. Adds(queue, queue')
    BY <1>20, <1>0, WithStopsAdds DEF TimerFires, Adds
  <2>. QED
    BY <1>3, <1>20, <2>1 DEF TimerFires
<1>21. ASSUME NEW s \in Instances, EmitError(s), phase' = phase
      PROVE  PhaseOK'
  BY <1>0, <1>3, <1>21, WithStopsAdds DEF EmitError
<1>22. ASSUME NEW s \in Instances, WorkerEnds(s)
      PROVE  PhaseOK'
  BY <1>3, <1>22, ScheduleAdds DEF WorkerEnds
<1>23. ASSUME CleanupTask
      PROVE  PhaseOK'
  BY <1>3, <1>23, ScheduleAdds DEF CleanupTask
<1>. QED
  BY <1>1, <1>4, <1>5, <1>6, <1>7, <1>8, <1>9, <1>10, <1>11, <1>12, <1>13, <1>14, <1>15, <1>16, <1>17, <1>18, <1>19, <1>20, <1>21, <1>22, <1>23, Next
     DEF Next, Micro, Task, Environment, Lookup, LockHolderStep, ConcatCheck, EnterShare, EnterCreate,
         LookupMiss, EndSession, Request, RequestEnd, Poll, HeartbeatExpires, Collect, ProgramFails,
         ConcatProcessFails, WorkerRejects, LateEnds, OnDemandStep, OnDemandTask, sessionVars

-----------------------------------------------------------------------------
(* The map of sessions. *)

(* A session that someone starts was created under a key.                  *)
LEMMA StartedIsKeyed ==
  ASSUME TypeOK, LockOK, JobsOK, NEW s \in Instances, queue[s] # <<>>, Running(s).op = "start"
  PROVE  keyOf[s] \in Key
  BY StarterOwns DEF StartOwned, Owns

(* Sessions leave the map, and none of the others changes its key.         *)
LEMMA ShrinkMap ==
  ASSUME MapOK, TypeOK, keyOf' = keyOf,
         \A k \in Key : sessions'[k] \in {sessions[k], NoSession},
         \A s \in Instances : keyOf[s] = NoKey => state'[s] = state[s]
  PROVE  MapOK'
  BY DEF MapOK

LEMMA ConstructMap ==
  ASSUME SessionAssumption, MapOK, TypeOK, NEW c \in Clients, want[c] \in Key, NEW q, NEW ss,
         ss \in [Key -> Instances \cup {NoSession}],
         \A k \in Key : ss[k] \in {sessions[k], NoSession},
         Construct(c, q, ss)
  PROVE  MapOK'
<1>1. PICK s \in Instances : /\ keyOf[s] = NoKey
                             /\ sessions' = [ss EXCEPT ![want[c]] = s]
                             /\ keyOf'   = [keyOf EXCEPT ![s] = want[c]]
  BY DEF Construct, Unused
<1>2. \A k \in Key : ss[k] # s
  BY <1>1, NoKeyIsNoKey DEF MapOK, SessionAssumption
<1>3. ASSUME NEW k \in Key, sessions'[k] # NoSession
      PROVE  keyOf'[sessions'[k]] = k
  <2>1. CASE k = want[c]
    BY <1>1, <2>1 DEF TypeOK, SessionTypeOK
  <2>2. CASE k # want[c]
    <3>1. sessions'[k] = ss[k] /\ ss[k] = sessions[k] /\ sessions[k] \in Instances
      BY <1>1, <1>3, <2>2 DEF TypeOK
    <3>. QED
      BY <1>1, <1>2, <3>1 DEF MapOK, TypeOK, SessionTypeOK
  <2>. QED  BY <2>1, <2>2
<1>4. ASSUME NEW u \in Instances, keyOf'[u] = NoKey
      PROVE  state'[u] = "init"
  BY <1>1, <1>4, NoKeyIsNoKey DEF Construct, Unused, MapOK, TypeOK, SessionTypeOK
<1>. QED  BY <1>3, <1>4 DEF MapOK

LEMMA StartSettledMap ==
  ASSUME TypeOK, LockOK, JobsOK, MapOK, NEW s \in Instances, queue[s] # <<>>, Running(s).op = "start",
         NEW stops, NEW st, StartSettled(s, stops, st), UNCHANGED <<keyOf, sessions>>
  PROVE  MapOK'
<1>1. keyOf[s] # NoKey
  BY StartedIsKeyed, NoKeyIsNoKey
<1>2. \A u \in Instances : u # s => state'[u] = state[u]
  BY DEF StartSettled, TypeOK, SessionTypeOK
<1>. QED  BY <1>1, <1>2, ShrinkMap

LEMMA MapStep ==
  ASSUME SessionAssumption, TypeOK, LockOK, JobsOK, PhaseOK, MapOK, Next
  PROVE  MapOK'
<1>1. CASE UNCHANGED <<keyOf, sessions, state>>
  BY <1>1 DEF MapOK
<1>2. ASSUME NEW c \in Clients, LookupCreate(c)
      PROVE  MapOK'
  <2>1. Construct(c, queue, sessions) /\ want[c] \in Key
    BY <1>2 DEF LookupCreate, LockOK
  <2>. QED
    BY <2>1, ConstructMap DEF TypeOK
<1>3. ASSUME NEW c \in Clients, Evict(c)
      PROVE  MapOK'
  <2>1. PICK ss : ss = [sessions EXCEPT ![keyOf[held[c]]] = NoSession]
    OBVIOUS
  <2>2. /\ ss \in [Key -> Instances \cup {NoSession}]
        /\ \A k \in Key : ss[k] \in {sessions[k], NoSession}
    BY <2>1 DEF TypeOK
  <2>3. CASE victims[c] = <<>>
    <3>1. want[c] \in Key
      BY <1>3 DEF Evict, LockOK
    <3>2. PICK q : Construct(c, q, ss)
      BY <1>3, <2>1, <2>3 DEF Evict
    <3>. QED
      BY <2>2, <3>1, <3>2, ConstructMap
  <2>4. CASE victims[c] # <<>>
    <3>1. sessions' = ss /\ UNCHANGED <<keyOf, state>>
      BY <1>3, <2>1, <2>4 DEF Evict, StopVictim, StopAndWait
    <3>. QED
      BY <2>2, <3>1, ShrinkMap
  <2>. QED  BY <2>3, <2>4
<1>4. ASSUME NEW c \in Clients, EndSession(c)
      PROVE  MapOK'
  BY <1>4, ShrinkMap DEF EndSession, sessionVars, TypeOK
<1>5. ASSUME NEW s \in Instances, StartBegin(s)
      PROVE  MapOK'
  <2>1. CASE state[s] \in {"started", "error"}
    BY <1>5, <2>1, StartSettledMap DEF StartBegin
  <2>2. CASE state[s] \notin {"started", "error"}
    <3>1. keyOf[s] # NoKey
      BY <1>5, StartedIsKeyed, NoKeyIsNoKey DEF StartBegin
    <3>2. state' = [state EXCEPT ![s] = "starting"] /\ UNCHANGED <<keyOf, sessions>>
      BY <1>5, <2>2 DEF StartBegin
    <3>. QED
      BY <3>1, <3>2, ShrinkMap DEF TypeOK, SessionTypeOK
  <2>. QED  BY <2>1, <2>2
<1>6. ASSUME NEW s \in Instances, StartAcquired(s)
      PROVE  MapOK'
  <2>1. queue[s] # <<>> /\ Running(s).op = "start"
    BY <1>6 DEF StartAcquired, PhaseOK, Running
  <2>2. CASE IsConcat(s)
    BY <1>6, <2>1, <2>2, StartSettledMap DEF StartAcquired
  <2>3. CASE ~IsConcat(s)
    <3>1. keyOf[s] # NoKey
      BY <2>1, StartedIsKeyed, NoKeyIsNoKey
    <3>2. \A u \in Instances : u # s => state'[u] = state[u]
      BY <1>6, <2>3 DEF StartAcquired, TypeOK, SessionTypeOK
    <3>. QED
      BY <1>6, <3>1, <3>2, ShrinkMap DEF StartAcquired
  <2>. QED  BY <2>2, <2>3
<1>7. ASSUME NEW s \in Instances, StartFails(s)
      PROVE  MapOK'
  BY <1>7, StartSettledMap DEF StartFails, PhaseOK, Running
<1>8. ASSUME NEW s \in Instances, BecomesReady(s)
      PROVE  MapOK'
  BY <1>8, StartSettledMap DEF BecomesReady, PhaseOK, Running
<1>9. ASSUME NEW s \in Instances, ReadinessFails(s)
      PROVE  MapOK'
  BY <1>9, StartSettledMap DEF ReadinessFails, PhaseOK, Running
<1>10. ASSUME NEW s \in Instances, HlsStopped(s)
      PROVE  MapOK'
  <2>1. \A u \in Instances : keyOf[u] = NoKey => state'[u] = state[u]
    BY <1>10 DEF HlsStopped, StateOnceStopped, IsHls, TypeOK, SessionTypeOK
  <2>. QED
    BY <1>10, <2>1, ShrinkMap DEF HlsStopped
<1>11. ASSUME NEW s \in Instances, ConcatStopped(s)
      PROVE  MapOK'
  <2>1. \A u \in Instances : keyOf[u] = NoKey => state'[u] = state[u]
    BY <1>11 DEF ConcatStopped, IsConcat, TypeOK, SessionTypeOK
  <2>2. \A k \in Key : sessions'[k] \in {sessions[k], NoSession}
    BY <1>11 DEF ConcatStopped, MapWithout
  <2>. QED
    BY <1>11, <2>1, <2>2, ShrinkMap DEF ConcatStopped
<1>12. ASSUME NEW s \in Instances, CleanupEvent(s)
      PROVE  MapOK'
  <2>1. \A k \in Key : sessions'[k] \in {sessions[k], NoSession}
    BY <1>12 DEF CleanupEvent, MapWithout
  <2>. QED
    BY <1>12, <2>1, ShrinkMap DEF CleanupEvent
<1>13. ASSUME NEW s \in Instances, Collect(s)
      PROVE  MapOK'
  <2>1. \A k \in Key : sessions[k] # s
    BY <1>13 DEF Collect, Garbage, Mapped, MapOK, SessionAssumption
  <2>2. \A u \in Instances : u # s => keyOf'[u] = keyOf[u] /\ state'[u] = state[u]
    BY <1>13 DEF Collect, TypeOK, SessionTypeOK
  <2>3. state'[s] = "init" /\ sessions' = sessions
    BY <1>13 DEF Collect, TypeOK, SessionTypeOK
  <2>. QED
    BY <2>1, <2>2, <2>3 DEF MapOK, TypeOK
<1>14. ASSUME NEW s \in Instances, ProgramFails(s)
      PROVE  MapOK'
  <2>1. keyOf[s] # NoKey
    BY <1>14 DEF ProgramFails, IsHls, IsSlower
  <2>2. \A u \in Instances : u # s => state'[u] = state[u]
    BY <1>14 DEF ProgramFails, TypeOK, SessionTypeOK
  <2>. QED
    BY <1>14, <2>1, <2>2, ShrinkMap DEF ProgramFails
<1>. QED
  BY <1>1, <1>2, <1>3, <1>4, <1>5, <1>6, <1>7, <1>8, <1>9, <1>10, <1>11, <1>12, <1>13, <1>14, Next
     DEF Next, Micro, Task, Environment, Lookup, LockHolderStep, ConcatCheck, EnterShare, EnterStart, EnterCreate,
         EnterEnd, LookupMiss, LookupEvict, StopVictim, StopAndWait, Request, RequestEnd, Poll, HeartbeatExpires, Disconnect,
         StopBegin, SlowerStopFails, TimerFires, ConcatProcessFails, WorkerEnds, WorkerRejects, LateEnds,
         CleanupTask, OnDemandStep, OnDemandTask, sessionVars

-----------------------------------------------------------------------------
(* Streams. *)

(* Where state, stream and phase of a session change, the new state is one *)
(* that stop() reacts to, or the stream is closed and the lock is free.    *)
LEMMA StreamChange ==
  ASSUME TypeOK, StreamOK, NEW s \in Instances,
         \A u \in Instances : u # s => /\ state'[u] = state[u]
                                       /\ stream'[u] = stream[u]
                                       /\ phase'[u] = phase[u],
         stream'[s] \/ phase'[s] # "idle" => state'[s] \in {"starting", "started", "error"},
         phase'[s] = "ready" => stream'[s]
  PROVE  StreamOK'
  BY DEF StreamOK, Stoppable

LEMMA StartSettledStream ==
  ASSUME TypeOK, StreamOK, NEW s \in Instances, NEW stops, NEW st \in {"started", "error"},
         StartSettled(s, stops, st),
         \A u \in Instances : u # s => stream'[u] = stream[u]
  PROVE  StreamOK'
<1>1. /\ \A u \in Instances : u # s => state'[u] = state[u] /\ phase'[u] = phase[u]
      /\ state'[s] = st /\ phase'[s] = "idle"
  BY DEF StartSettled, TypeOK, SessionTypeOK
<1>. QED  BY <1>1, StreamChange

LEMMA StreamStep ==
  ASSUME SessionAssumption, TypeOK, PhaseOK, StreamOK, Next
  PROVE  StreamOK'
<1>1. CASE UNCHANGED <<state, stream, phase>>
  BY <1>1 DEF StreamOK, Stoppable
<1>2. ASSUME NEW s \in Instances, StartBegin(s)
      PROVE  StreamOK'
  <2>1. CASE state[s] \in {"started", "error"}
    BY <1>2, <2>1, StartSettledStream DEF StartBegin
  <2>2. CASE state[s] \notin {"started", "error"}
    BY <1>2, <2>2, StreamChange DEF StartBegin, TypeOK, SessionTypeOK
  <2>. QED  BY <2>1, <2>2
<1>3. ASSUME NEW s \in Instances, StartAcquired(s)
      PROVE  StreamOK'
  <2>1. \A u \in Instances : u # s => stream'[u] = stream[u]
    BY <1>3 DEF StartAcquired, TypeOK, SessionTypeOK
  <2>2. CASE IsConcat(s)
    BY <1>3, <2>1, <2>2, StartSettledStream DEF StartAcquired
  <2>3. CASE ~IsConcat(s)
    <3>1. /\ stream' = [stream EXCEPT ![s] = TRUE]
          /\ phase' = [phase EXCEPT ![s] = "ready"]
          /\ state' = [state EXCEPT ![s] = IF IsHls(s) THEN "started" ELSE @]
      BY <1>3, <2>3, Zenon DEF StartAcquired
    <3>2. state[s] \in {"starting", "started", "error"}
      BY <1>3 DEF StartAcquired, StreamOK, Stoppable
    <3>3. state'[s] \in {"started", state[s]} /\ stream'[s] = TRUE
      BY <3>1 DEF TypeOK, SessionTypeOK
    <3>4. \A u \in Instances : u # s => state'[u] = state[u] /\ phase'[u] = phase[u]
      BY <3>1 DEF TypeOK, SessionTypeOK
    <3>. QED
      BY <2>1, <3>2, <3>3, <3>4, StreamChange
  <2>. QED  BY <2>2, <2>3
<1>4. ASSUME NEW s \in Instances, StartFails(s)
      PROVE  StreamOK'
  BY <1>4, StartSettledStream DEF StartFails
<1>5. ASSUME NEW s \in Instances, BecomesReady(s)
      PROVE  StreamOK'
  BY <1>5, StartSettledStream DEF BecomesReady
<1>6. ASSUME NEW s \in Instances, ReadinessFails(s)
      PROVE  StreamOK'
  BY <1>6, StartSettledStream DEF ReadinessFails
<1>7. ASSUME NEW s \in Instances, StopBegin(s)
      PROVE  StreamOK'
  <2>1. UNCHANGED <<state, stream>>
    BY <1>7 DEF StopBegin
  <2>2. /\ \A u \in Instances : u # s => phase'[u] = phase[u]
        /\ phase'[s] \in {"idle", "stopping"}
        /\ phase'[s] = "stopping" => Stoppable(s)
    BY <1>7 DEF StopBegin, StopSettled, TypeOK, SessionTypeOK
  <2>. QED
    BY <2>1, <2>2, StreamChange DEF StreamOK, Stoppable
<1>8. ASSUME NEW s \in Instances, HlsStopped(s)
      PROVE  StreamOK'
  BY <1>8, StreamChange DEF HlsStopped, StopSettled, TypeOK, SessionTypeOK
<1>9. ASSUME NEW s \in Instances, SlowerStopFails(s)
      PROVE  StreamOK'
  BY <1>9, StreamChange DEF SlowerStopFails, StopSettled, TypeOK, SessionTypeOK
<1>10. ASSUME NEW s \in Instances, ConcatStopped(s)
      PROVE  StreamOK'
  BY <1>10, StreamChange DEF ConcatStopped, StopSettled, TypeOK, SessionTypeOK
<1>11. ASSUME NEW s \in Instances, Collect(s)
      PROVE  StreamOK'
  <2>1. phase[s] = "idle"
    BY <1>11 DEF Collect, Garbage, PhaseOK
  <2>. QED
    BY <1>11, <2>1, StreamChange DEF Collect, TypeOK, SessionTypeOK
<1>12. ASSUME NEW s \in Instances, ProgramFails(s)
      PROVE  StreamOK'
  BY <1>12, StreamChange DEF ProgramFails, TypeOK, SessionTypeOK, StreamOK
<1>13. CASE Micro
  <2>1. ASSUME NEW c \in Clients, ConcatCheck(c) \/ EnterShare(c) \/ EnterStart(c) \/ EnterCreate(c)
        PROVE  UNCHANGED <<state, stream, phase>>
    BY <2>1 DEF ConcatCheck, EnterShare, EnterStart, EnterCreate, sessionVars
  <2>2. ASSUME NEW c \in Clients, Evict(c) PROVE UNCHANGED <<state, stream, phase>>
    BY <2>2 DEF Evict, Construct, Unused, StopVictim, StopAndWait
  <2>3. ASSUME NEW c \in Clients, EnterEnd(c) \/ EndSession(c)
        PROVE  UNCHANGED <<state, stream, phase>>
    BY <2>3 DEF EnterEnd, EndSession, sessionVars
  <2>4. ASSUME NEW s \in Instances, CleanupEvent(s) PROVE UNCHANGED <<state, stream, phase>>
    BY <2>4 DEF CleanupEvent
  <2>. QED
    BY <1>1, <1>2, <1>7, <1>11, <1>13, <2>1, <2>2, <2>3, <2>4, Zenon DEF Micro
<1>14. CASE Environment
  <2>1. ASSUME NEW c \in Clients, NEW k \in Key, Request(c, k) \/ RequestEnd(c, k) \/ Poll(c, k)
        PROVE  UNCHANGED <<state, stream, phase>>
    BY <2>1 DEF Request, RequestEnd, Poll, sessionVars
  <2>2. ASSUME NEW c \in Clients, NEW s \in Instances, HeartbeatExpires(c, s) \/ Disconnect(c, s)
        PROVE  UNCHANGED <<state, stream, phase>>
    BY <2>2 DEF HeartbeatExpires, Disconnect
  <2>3. ASSUME NEW s \in Instances, ConcatProcessFails(s) \/ WorkerRejects(s)
        PROVE  UNCHANGED <<state, stream, phase>>
    BY <2>3 DEF ConcatProcessFails, WorkerRejects
  <2>. QED
    BY <1>1, <1>12, <1>14, <2>1, <2>2, <2>3, Zenon DEF Environment
<1>15. CASE \E c \in Clients : Lookup(c)
  <2>1. ASSUME NEW c \in Clients, Lookup(c) PROVE UNCHANGED <<state, stream, phase>>
    BY <2>1 DEF Lookup, LookupMiss, LookupCreate, LookupEvict, Construct, Unused, StopVictim, StopAndWait, sessionVars
  <2>. QED  BY <1>1, <1>15, <2>1, Zenon
<1>16. CASE \E s \in Instances : LockHolderStep(s)
  BY <1>3, <1>4, <1>5, <1>6, <1>8, <1>9, <1>10, <1>16, Zenon DEF LockHolderStep
<1>17. CASE \/ \E s \in Instances : TimerFires(s) \/ WorkerEnds(s) \/ LateEnds(s)
            \/ CleanupTask
            \/ \E ch \in OnDemand : OnDemandStep(ch) \/ OnDemandTask(ch)
  BY <1>1, <1>17
     DEF TimerFires, WorkerEnds, LateEnds, CleanupTask, OnDemandStep, OnDemandTask, sessionVars
<1>. QED
  BY <1>13, <1>14, <1>15, <1>16, <1>17, Next DEF Next, Task

-----------------------------------------------------------------------------
(* What a call that holds the lock of its channel can rely on. *)

Creating == {"lookup", "evicting", "evicted"}
Ending   == {"ending", "ended"}

LEMMA OneOwner ==
  ASSUME LockOK, NEW c \in Clients, NEW d \in Clients,
         pc[c] \in Owning, pc[d] \in Owning, want[c] = want[d]
  PROVE  c = d
  BY DEF LockOK, Owns, Front

(* What is true of the map before and after most steps: sessions leave it. *)
MapShrinks == \A k \in Key : sessions'[k] \in {sessions[k], NoSession}

LEMMA ShrinkVacant ==
  ASSUME LockOK, VacantOK, MapShrinks,
         \A c \in Clients : pc'[c] \in Creating => pc[c] \in Creating /\ want'[c] = want[c]
  PROVE  VacantOK'
<1>. SUFFICES ASSUME NEW c \in Clients, pc'[c] \in Creating
              PROVE  sessions'[want'[c]] = NoSession
  BY DEF VacantOK, Creating
<1>1. pc[c] \in Creating /\ want'[c] = want[c] /\ want[c] \in Key
  BY DEF LockOK, Creating
<1>. QED  BY <1>1 DEF VacantOK, MapShrinks, Creating

LEMMA LeaveVacant ==
  ASSUME TypeOK, LockOK, VacantOK, MapShrinks, NEW c \in Clients, Leave(c)
  PROVE  VacantOK'
<1>1. \A d \in Clients : pc'[d] \in Creating => pc[d] \in Creating /\ want'[d] = want[d]
  BY DEF Leave, TypeOK, Creating
<1>. QED  BY <1>1, ShrinkVacant

LEMMA MoveVacant ==
  ASSUME TypeOK, LockOK, VacantOK, MapShrinks, NEW c \in Clients,
         NEW x, pc' = [pc EXCEPT ![c] = x], x \notin Creating,
         want' = want \/ \E k : want' = [want EXCEPT ![c] = k]
  PROVE  VacantOK'
<1>1. \A d \in Clients : pc'[d] \in Creating => pc[d] \in Creating /\ want'[d] = want[d]
  BY DEF TypeOK, Creating
<1>. QED  BY <1>1, ShrinkVacant

LEMMA StopSettledVacant ==
  ASSUME TypeOK, LockOK, JobsOK, VacantOK, MapShrinks, NEW s \in Instances, queue[s] # <<>>,
         Running(s).op = "stop", NEW q, NEW ok, StopSettled(s, q, ok)
  PROVE  VacantOK'
<1>1. CASE Running(s).by \notin Clients
  BY <1>1, ShrinkVacant DEF StopSettled, requestVars
<1>2. CASE Running(s).by \in Clients
  <2>1. PICK c \in Clients : c = Running(s).by
    BY <1>2
  <2>2. pc[c] \in {"evicting", "ending"}
    BY <2>1, StopperOwns DEF StopOwned
  <2>3. CASE Leave(c)
    BY <2>3, LeaveVacant
  <2>4. CASE ~Leave(c)
    <3>1. pc' = [pc EXCEPT ![c] = IF @ = "ending" THEN "ended" ELSE "evicted"] /\ want' = want
      BY <2>1, <2>4 DEF StopSettled
    <3>2. \A d \in Clients : pc'[d] \in Creating => pc[d] \in Creating
      BY <2>2, <3>1 DEF TypeOK, Creating
    <3>. QED
      BY <3>1, <3>2, ShrinkVacant
  <2>. QED  BY <2>3, <2>4
<1>. QED  BY <1>1, <1>2

LEMMA ConstructVacant ==
  ASSUME TypeOK, LockOK, VacantOK, NEW c \in Clients, pc[c] \in Creating, NEW q, NEW ss,
         ss \in [Key -> Instances \cup {NoSession}],
         \A k \in Key : ss[k] \in {sessions[k], NoSession},
         Construct(c, q, ss)
  PROVE  VacantOK'
<1>. SUFFICES ASSUME NEW d \in Clients, pc'[d] \in Creating
              PROVE  sessions'[want'[d]] = NoSession
  BY DEF VacantOK, Creating
<1>1. d # c /\ pc[d] \in Creating /\ want'[d] = want[d]
  BY DEF Construct, Unused, TypeOK, Creating
<1>2. want[d] \in Key /\ want[d] # want[c]
  BY <1>1, OneOwner DEF LockOK, Creating, Owning
<1>3. sessions'[want[d]] = ss[want[d]]
  BY <1>2 DEF Construct, Unused
<1>. QED  BY <1>1, <1>2, <1>3 DEF VacantOK, Creating

LEMMA VacantStep ==
  ASSUME TypeOK, LockOK, JobsOK, PhaseOK, VacantOK, Next
  PROVE  VacantOK'
<1>1. CASE UNCHANGED <<pc, want>> /\ MapShrinks
  BY <1>1, ShrinkVacant
<1>2. UNCHANGED sessions => MapShrinks
  BY DEF MapShrinks
<1>3. ASSUME NEW c \in Clients, LookupCreate(c)
      PROVE  VacantOK'
  BY <1>3, ConstructVacant DEF LookupCreate, Creating, TypeOK
<1>4. ASSUME NEW c \in Clients, Evict(c)
      PROVE  VacantOK'
  <2>1. PICK ss : ss = [sessions EXCEPT ![keyOf[held[c]]] = NoSession]
    OBVIOUS
  <2>2. /\ ss \in [Key -> Instances \cup {NoSession}]
        /\ \A k \in Key : ss[k] \in {sessions[k], NoSession}
        /\ pc[c] \in Creating
    BY <1>4, <2>1 DEF TypeOK, Evict, Creating
  <2>3. CASE victims[c] = <<>>
    <3>1. PICK q : Construct(c, q, ss)
      BY <1>4, <2>1, <2>3 DEF Evict
    <3>. QED
      BY <2>2, <3>1, ConstructVacant
  <2>4. CASE victims[c] # <<>>
    <3>1. sessions' = ss /\ want' = want /\ pc' = [pc EXCEPT ![c] = "evicting"]
      BY <1>4, <2>1, <2>4 DEF Evict, StopVictim, StopAndWait
    <3>2. \A d \in Clients : pc'[d] \in Creating => pc[d] \in Creating
      BY <2>2, <3>1 DEF TypeOK
    <3>. QED
      BY <2>2, <3>1, <3>2, ShrinkVacant DEF MapShrinks
  <2>. QED  BY <2>3, <2>4
<1>5. ASSUME NEW c \in Clients, EndSession(c)
      PROVE  VacantOK'
  <2>1. MapShrinks
    BY <1>5 DEF EndSession, MapShrinks, TypeOK
  <2>. QED
    BY <1>5, <2>1, LeaveVacant DEF EndSession
<1>6. ASSUME NEW s \in Instances, ConcatStopped(s)
      PROVE  VacantOK'
  <2>1. MapShrinks
    BY <1>6 DEF ConcatStopped, MapShrinks, MapWithout
  <2>2. queue[s] # <<>> /\ Running(s).op = "stop"
    BY <1>6 DEF ConcatStopped, PhaseOK, Running
  <2>. QED
    BY <1>6, <2>1, <2>2, StopSettledVacant DEF ConcatStopped
<1>7. ASSUME NEW s \in Instances, CleanupEvent(s)
      PROVE  VacantOK'
  BY <1>1, <1>7 DEF CleanupEvent, MapShrinks, MapWithout, requestVars
<1>8. ASSUME NEW c \in Clients, ConcatCheck(c)
      PROVE  VacantOK'
  BY <1>2, <1>8, MoveVacant DEF ConcatCheck, Creating
<1>9. ASSUME NEW c \in Clients, Leave(c), UNCHANGED sessions
      PROVE  VacantOK'
  BY <1>2, <1>9, LeaveVacant
<1>10. ASSUME NEW c \in Clients, EnterStart(c)
      PROVE  VacantOK'
  BY <1>2, <1>10, MoveVacant DEF EnterStart, Creating
<1>11. ASSUME NEW c \in Clients, EnterCreate(c)
      PROVE  VacantOK'
  BY <1>2, <1>11 DEF EnterCreate, VacantOK, TypeOK
<1>12. ASSUME NEW c \in Clients, LookupEvict(c)
      PROVE  VacantOK'
  <2>1. \A d \in Clients : pc'[d] \in Creating => pc[d] \in Creating /\ want'[d] = want[d]
    BY <1>12 DEF LookupEvict, StopVictim, StopAndWait, Creating, TypeOK
  <2>. QED
    BY <1>2, <1>12, <2>1, ShrinkVacant DEF LookupEvict
<1>13. ASSUME NEW c \in Clients, EnterEnd(c)
      PROVE  VacantOK'
  BY <1>2, <1>9, <1>13, MoveVacant DEF EnterEnd, Creating
<1>14. ASSUME NEW c \in Clients, NEW k \in Key, Request(c, k)
      PROVE  VacantOK'
  BY <1>2, <1>14, MoveVacant DEF Request, Creating
<1>15. ASSUME NEW c \in Clients, NEW k \in Key, RequestEnd(c, k)
      PROVE  VacantOK'
  BY <1>2, <1>15, MoveVacant DEF RequestEnd, Creating
<1>16. ASSUME NEW s \in Instances, queue[s] # <<>>, Running(s).op = "start",
              NEW stops, NEW st, StartSettled(s, stops, st), UNCHANGED sessions
       PROVE  VacantOK'
  BY <1>2, <1>16, StarterOwns, LeaveVacant DEF StartSettled
<1>17. ASSUME NEW s \in Instances, queue[s] # <<>>, Running(s).op = "stop",
              NEW q, NEW ok, StopSettled(s, q, ok), UNCHANGED sessions
       PROVE  VacantOK'
  BY <1>2, <1>17, StopSettledVacant
<1>18. ASSUME NEW s \in Instances, StartBegin(s)
       PROVE  VacantOK'
  BY <1>1, <1>2, <1>16, <1>18 DEF StartBegin, requestVars
<1>19. ASSUME NEW s \in Instances, StartAcquired(s)
       PROVE  VacantOK'
  BY <1>1, <1>2, <1>16, <1>19 DEF StartAcquired, requestVars, PhaseOK, Running
<1>20. ASSUME NEW s \in Instances, StartFails(s) \/ BecomesReady(s) \/ ReadinessFails(s)
       PROVE  VacantOK'
  BY <1>16, <1>20 DEF StartFails, BecomesReady, ReadinessFails, PhaseOK, Running
<1>21. ASSUME NEW s \in Instances, StopBegin(s)
       PROVE  VacantOK'
  BY <1>1, <1>2, <1>17, <1>21 DEF StopBegin, requestVars
<1>22. ASSUME NEW s \in Instances, HlsStopped(s) \/ SlowerStopFails(s)
       PROVE  VacantOK'
  BY <1>17, <1>22 DEF HlsStopped, SlowerStopFails, PhaseOK, Running
<1>. QED
  BY <1>1, <1>2, <1>3, <1>4, <1>5, <1>6, <1>7, <1>8, <1>9, <1>10, <1>11, <1>12, <1>13, <1>14, <1>15, <1>16, <1>17, <1>18, <1>19, <1>20, <1>21, <1>22, Next
     DEF Next, Micro, Task, Environment, Lookup, LockHolderStep, EnterShare, LookupMiss, Poll, HeartbeatExpires,
         Disconnect, Collect, TimerFires, ProgramFails, ConcatProcessFails, WorkerEnds, WorkerRejects, LateEnds,
         CleanupTask, OnDemandStep, OnDemandTask, sessionVars, requestVars
(* endSession goes on waiting for the session it found.                    *)
LEMMA StaysEnding ==
  ASSUME LockOK, EndingOK, MapShrinks,
         \A c \in Clients : pc'[c] \in Ending =>
            /\ pc[c] \in Ending /\ want'[c] = want[c] /\ held'[c] = held[c]
            /\ keyOf'[held[c]] = keyOf[held[c]],
         \A c \in Clients : pc'[c] = "ended" => ~stream'[held[c]]
  PROVE  EndingOK'
<1>. SUFFICES ASSUME NEW c \in Clients, pc'[c] \in Ending
              PROVE  /\ keyOf'[held'[c]] = want'[c]
                     /\ sessions'[want'[c]] \in {NoSession, held'[c]}
                     /\ pc'[c] = "ended" => ~stream'[held'[c]]
  BY DEF EndingOK, Ending
<1>1. /\ keyOf[held[c]] = want[c]
      /\ sessions[want[c]] \in {NoSession, held[c]}
      /\ want[c] \in Key
  BY DEF EndingOK, Ending, LockOK
<1>. QED  BY <1>1 DEF MapShrinks

(* Another call moves, or the one that was ending is done.                 *)
LEMMA MoveEnding ==
  ASSUME TypeOK, LockOK, EndingOK, MapShrinks, UNCHANGED <<keyOf, stream>>, NEW c \in Clients,
         NEW x, pc' = [pc EXCEPT ![c] = x], x \notin Ending,
         \A d \in Clients : d # c => want'[d] = want[d] /\ held'[d] = held[d]
  PROVE  EndingOK'
<1>1. ASSUME NEW d \in Clients, pc'[d] \in Ending
      PROVE  pc[d] = pc'[d] /\ want'[d] = want[d] /\ held'[d] = held[d]
  BY <1>1 DEF TypeOK
<1>2. \A d \in Clients : pc'[d] = "ended" => ~stream'[held[d]]
  BY <1>1 DEF EndingOK, Ending
<1>. QED  BY <1>1, <1>2, StaysEnding

LEMMA LeaveEnding ==
  ASSUME TypeOK, LockOK, EndingOK, MapShrinks, UNCHANGED keyOf, NEW c \in Clients, Leave(c),
         \A d \in Clients : pc[d] = "ended" => ~stream'[held[d]]
  PROVE  EndingOK'
<1>1. ASSUME NEW d \in Clients, pc'[d] \in Ending
      PROVE  pc[d] = pc'[d] /\ want'[d] = want[d] /\ held'[d] = held[d]
  BY <1>1 DEF Leave, TypeOK, Ending
<1>. QED  BY <1>1, StaysEnding DEF Ending

(* Nothing happens to a session while a call that ended it is to go on.    *)
LEMMA QuietEnding ==
  ASSUME Quiet, NEW c \in Clients
  PROVE  pc[c] # "ended"
  BY DEF Quiet, MicroPending

(* stop() settles with the stream closed.                                  *)
LEMMA StopSettledEnding ==
  ASSUME TypeOK, LockOK, JobsOK, EndingOK, MapShrinks, UNCHANGED keyOf,
         NEW s \in Instances, queue[s] # <<>>, Running(s).op = "stop",
         NEW q, NEW ok, StopSettled(s, q, ok),
         ~stream'[s], \A u \in Instances : stream'[u] => stream[u]
  PROVE  EndingOK'
<1>1. \A d \in Clients : pc[d] = "ended" => ~stream'[held[d]]
  BY DEF EndingOK, LockOK, Owning
<1>2. CASE Running(s).by \notin Clients
  BY <1>1, <1>2, StaysEnding DEF StopSettled, requestVars
<1>3. CASE Running(s).by \in Clients
  <2>1. PICK c \in Clients : c = Running(s).by
    BY <1>3
  <2>2. pc[c] \in {"evicting", "ending"} /\ held[c] = s
    BY <2>1, StopperOwns DEF StopOwned
  <2>3. CASE Leave(c)
    BY <1>1, <2>3, LeaveEnding
  <2>4. CASE ~Leave(c)
    <3>1. /\ pc' = [pc EXCEPT ![c] = IF @ = "ending" THEN "ended" ELSE "evicted"]
          /\ UNCHANGED <<want, held>>
      BY <2>1, <2>4 DEF StopSettled
    <3>2. \A d \in Clients : pc'[d] \in Ending => pc[d] \in Ending
      BY <2>2, <3>1 DEF TypeOK, Ending
    <3>3. \A d \in Clients : pc'[d] = "ended" => ~stream'[held[d]]
      BY <1>1, <2>2, <3>1 DEF TypeOK
    <3>. QED
      BY <3>1, <3>2, <3>3, StaysEnding
  <2>. QED  BY <2>3, <2>4
<1>. QED  BY <1>2, <1>3

LEMMA ConstructEnding ==
  ASSUME TypeOK, LockOK, EndingOK, NEW c \in Clients, pc[c] \in Creating, NEW q, NEW ss,
         ss \in [Key -> Instances \cup {NoSession}],
         \A k \in Key : ss[k] \in {sessions[k], NoSession},
         Construct(c, q, ss)
  PROVE  EndingOK'
<1>. SUFFICES ASSUME NEW d \in Clients, pc'[d] \in Ending
              PROVE  /\ keyOf'[held'[d]] = want'[d]
                     /\ sessions'[want'[d]] \in {NoSession, held'[d]}
                     /\ pc'[d] = "ended" => ~stream'[held'[d]]
  BY DEF EndingOK, Ending
<1>1. /\ d # c
      /\ pc'[d] = pc[d] /\ want'[d] = want[d] /\ held'[d] = held[d]
      /\ UNCHANGED stream
  BY DEF Construct, Unused, TypeOK, Ending
<1>2. want[d] \in Key /\ want[d] # want[c] /\ held[d] \in Instances
  BY <1>1, OneOwner DEF LockOK, Creating, Ending, Owning
<1>3. PICK s \in Instances : /\ keyOf[s] = NoKey
                             /\ sessions' = [ss EXCEPT ![want[c]] = s]
                             /\ keyOf'   = [keyOf EXCEPT ![s] = want[c]]
  BY DEF Construct, Unused
<1>4. sessions'[want[d]] = ss[want[d]] /\ ss[want[d]] \in {sessions[want[d]], NoSession}
  BY <1>2, <1>3
<1>5. keyOf[held[d]] = want[d] /\ sessions[want[d]] \in {NoSession, held[d]}
      /\ (pc[d] = "ended" => ~stream[held[d]])
  BY <1>1 DEF EndingOK, Ending
<1>6. held[d] # s
  BY <1>2, <1>3, <1>5, NoKeyIsNoKey
<1>7. keyOf'[held[d]] = want[d]
  BY <1>2, <1>3, <1>5, <1>6 DEF TypeOK, SessionTypeOK
<1>. QED
  BY <1>1, <1>4, <1>5, <1>7

LEMMA EndingStep ==
  ASSUME SessionAssumption, TypeOK, LockOK, JobsOK, PhaseOK, MapOK, StreamOK, EndingOK, Next
  PROVE  EndingOK'
<1>1. CASE UNCHANGED <<pc, want, held, keyOf, stream>> /\ MapShrinks
  BY <1>1, StaysEnding DEF EndingOK, LockOK
<1>2. UNCHANGED sessions => MapShrinks
  BY DEF MapShrinks
<1>3. ASSUME NEW c \in Clients, LookupCreate(c)
      PROVE  EndingOK'
  BY <1>3, ConstructEnding DEF LookupCreate, Creating, TypeOK
<1>4. ASSUME NEW c \in Clients, Evict(c)
      PROVE  EndingOK'
  <2>1. PICK ss : ss = [sessions EXCEPT ![keyOf[held[c]]] = NoSession]
    OBVIOUS
  <2>2. /\ ss \in [Key -> Instances \cup {NoSession}]
        /\ \A k \in Key : ss[k] \in {sessions[k], NoSession}
        /\ pc[c] \in Creating
    BY <1>4, <2>1 DEF TypeOK, Evict, Creating
  <2>3. CASE victims[c] = <<>>
    <3>1. PICK q : Construct(c, q, ss)
      BY <1>4, <2>1, <2>3 DEF Evict
    <3>. QED
      BY <2>2, <3>1, ConstructEnding
  <2>4. CASE victims[c] # <<>>
    <3>1. /\ sessions' = ss /\ UNCHANGED <<want, keyOf, stream>>
          /\ pc' = [pc EXCEPT ![c] = "evicting"]
          /\ \A d \in Clients : d # c => want'[d] = want[d] /\ held'[d] = held[d]
      BY <1>4, <2>1, <2>4 DEF Evict, StopVictim, StopAndWait, TypeOK
    <3>. QED
      BY <2>2, <3>1, MoveEnding DEF MapShrinks, Ending, TypeOK
  <2>. QED  BY <2>3, <2>4
<1>5. ASSUME NEW c \in Clients, EndSession(c)
      PROVE  EndingOK'
  <2>1. MapShrinks /\ UNCHANGED <<keyOf, stream>>
    BY <1>5 DEF EndSession, MapShrinks, TypeOK, sessionVars
  <2>. QED
    BY <1>5, <2>1, LeaveEnding DEF EndSession, EndingOK
<1>6. ASSUME NEW s \in Instances, ConcatStopped(s)
      PROVE  EndingOK'
  <2>1. MapShrinks /\ UNCHANGED keyOf
    BY <1>6 DEF ConcatStopped, MapShrinks, MapWithout
  <2>2. queue[s] # <<>> /\ Running(s).op = "stop"
    BY <1>6 DEF ConcatStopped, PhaseOK, Running
  <2>3. ~stream'[s] /\ \A u \in Instances : stream'[u] => stream[u]
    BY <1>6 DEF ConcatStopped, TypeOK, SessionTypeOK
  <2>. QED
    BY <1>6, <2>1, <2>2, <2>3, StopSettledEnding DEF ConcatStopped
<1>7. ASSUME NEW s \in Instances, CleanupEvent(s)
      PROVE  EndingOK'
  BY <1>1, <1>7 DEF CleanupEvent, MapShrinks, MapWithout, requestVars
<1>8. ASSUME NEW c \in Clients, ConcatCheck(c)
      PROVE  EndingOK'
  <2>1. /\ pc' = [pc EXCEPT ![c] = "enter"]
        /\ \A d \in Clients : d # c => want'[d] = want[d] /\ held'[d] = held[d]
        /\ UNCHANGED <<sessions, keyOf, stream>>
    BY <1>8 DEF ConcatCheck, sessionVars
  <2>2. MapShrinks /\ UNCHANGED <<keyOf, stream>>
    BY <1>2, <2>1
  <2>. QED
    BY <2>1, <2>2, MoveEnding DEF Ending
<1>9. ASSUME NEW c \in Clients, Leave(c), UNCHANGED <<sessions, keyOf, stream>>
      PROVE  EndingOK'
  BY <1>2, <1>9, LeaveEnding DEF EndingOK
<1>10. ASSUME NEW c \in Clients, EnterStart(c)
      PROVE  EndingOK'
  <2>1. /\ pc' = [pc EXCEPT ![c] = "starting"]
        /\ \A d \in Clients : d # c => want'[d] = want[d] /\ held'[d] = held[d]
        /\ UNCHANGED <<sessions, keyOf, stream>>
    BY <1>10 DEF EnterStart, TypeOK
  <2>2. MapShrinks /\ UNCHANGED <<keyOf, stream>>
    BY <1>2, <2>1
  <2>. QED
    BY <2>1, <2>2, MoveEnding DEF Ending
<1>11. ASSUME NEW c \in Clients, EnterCreate(c)
      PROVE  EndingOK'
  <2>1. /\ pc' = [pc EXCEPT ![c] = "lookup"]
        /\ \A d \in Clients : d # c => want'[d] = want[d] /\ held'[d] = held[d]
        /\ UNCHANGED <<sessions, keyOf, stream>>
    BY <1>11 DEF EnterCreate, sessionVars
  <2>2. MapShrinks /\ UNCHANGED <<keyOf, stream>>
    BY <1>2, <2>1
  <2>. QED
    BY <2>1, <2>2, MoveEnding DEF Ending
<1>12. ASSUME NEW c \in Clients, LookupEvict(c)
      PROVE  EndingOK'
  <2>1. /\ pc' = [pc EXCEPT ![c] = "evicting"]
        /\ \A d \in Clients : d # c => want'[d] = want[d] /\ held'[d] = held[d]
        /\ UNCHANGED <<sessions, keyOf, stream>>
    BY <1>12 DEF LookupEvict, StopVictim, StopAndWait, TypeOK
  <2>2. MapShrinks /\ UNCHANGED <<keyOf, stream>>
    BY <1>2, <2>1
  <2>. QED
    BY <2>1, <2>2, MoveEnding DEF Ending
<1>13. ASSUME NEW c \in Clients, EnterEnd(c)
      PROVE  EndingOK'
  <2>1. CASE sessions[want[c]] = NoSession
    BY <1>9, <1>13, <2>1 DEF EnterEnd
  <2>2. CASE sessions[want[c]] # NoSession
    <3>1. /\ held' = [held EXCEPT ![c] = sessions[want[c]]]
          /\ pc' = [pc EXCEPT ![c] = "ending"]
          /\ UNCHANGED <<want, sessions, keyOf, stream>>
      BY <1>13, <2>2 DEF EnterEnd
    <3>2. want[c] \in Key /\ keyOf[sessions[want[c]]] = want[c]
      BY <1>13, <2>2 DEF EnterEnd, LockOK, MapOK
    <3>. QED
      BY <3>1, <3>2 DEF EndingOK, TypeOK
  <2>. QED  BY <2>1, <2>2
<1>14. ASSUME NEW c \in Clients, NEW k \in Key, Request(c, k)
      PROVE  EndingOK'
  BY <1>2, <1>14, MoveEnding DEF Request, Ending, sessionVars, TypeOK
<1>15. ASSUME NEW c \in Clients, NEW k \in Key, RequestEnd(c, k)
      PROVE  EndingOK'
  BY <1>2, <1>15, MoveEnding DEF RequestEnd, Ending, sessionVars, TypeOK
<1>16. ASSUME NEW s \in Instances, queue[s] # <<>>, Running(s).op = "start",
              NEW stops, NEW st, StartSettled(s, stops, st), UNCHANGED <<sessions, keyOf>>,
              UNCHANGED stream \/ Quiet
       PROVE  EndingOK'
  BY <1>2, <1>16, StarterOwns, LeaveEnding, QuietEnding DEF StartSettled, EndingOK
<1>17. ASSUME NEW s \in Instances, StartBegin(s)
       PROVE  EndingOK'
  BY <1>1, <1>2, <1>16, <1>17 DEF StartBegin, requestVars
<1>18. ASSUME NEW s \in Instances, Quiet, StartAcquired(s)
       PROVE  EndingOK'
  <2>1. queue[s] # <<>> /\ Running(s).op = "start" /\ UNCHANGED <<sessions, keyOf>>
    BY <1>18 DEF StartAcquired, PhaseOK, Running
  <2>2. CASE IsConcat(s)
    BY <1>16, <1>18, <2>1, <2>2 DEF StartAcquired
  <2>3. CASE ~IsConcat(s)
    <3>1. UNCHANGED requestVars
      BY <1>18, <2>3 DEF StartAcquired
    <3>. QED
      BY <1>2, <1>18, <2>1, <3>1, QuietEnding, StaysEnding DEF requestVars
  <2>. QED  BY <2>2, <2>3
<1>19. ASSUME NEW s \in Instances, StartFails(s) \/ BecomesReady(s) \/ ReadinessFails(s)
       PROVE  EndingOK'
  BY <1>16, <1>19 DEF StartFails, BecomesReady, ReadinessFails, PhaseOK, Running
<1>20. ASSUME NEW s \in Instances, StopBegin(s)
       PROVE  EndingOK'
  <2>1. CASE Stoppable(s)
    BY <1>1, <1>2, <1>20, <2>1 DEF StopBegin, requestVars
  <2>2. CASE ~Stoppable(s)
    <3>1. ~stream[s] /\ UNCHANGED <<stream, keyOf, sessions>>
      BY <1>20, <2>2 DEF StopBegin, StreamOK
    <3>. QED
      BY <1>2, <1>20, <2>2, <3>1, StopSettledEnding DEF StopBegin
  <2>. QED  BY <2>1, <2>2
<1>21. ASSUME NEW s \in Instances, HlsStopped(s) \/ SlowerStopFails(s)
       PROVE  EndingOK'
  <2>1. ~stream'[s] /\ \A u \in Instances : stream'[u] => stream[u]
    BY <1>21 DEF HlsStopped, SlowerStopFails, TypeOK, SessionTypeOK
  <2>2. PICK ok \in BOOLEAN : StopSettled(s, Released(s), ok)
    BY <1>21 DEF HlsStopped, SlowerStopFails
  <2>3. queue[s] # <<>> /\ Running(s).op = "stop" /\ UNCHANGED <<keyOf, sessions>>
    BY <1>21 DEF HlsStopped, SlowerStopFails, PhaseOK, Running
  <2>. QED
    BY <1>2, <2>1, <2>2, <2>3, StopSettledEnding
<1>22. ASSUME NEW s \in Instances, Collect(s)
       PROVE  EndingOK'
  <2>1. /\ \A c \in Clients : held[c] # s
        /\ \A u \in Instances : u # s => keyOf'[u] = keyOf[u] /\ stream'[u] = stream[u]
        /\ UNCHANGED <<pc, want, held, sessions>>
    BY <1>22 DEF Collect, Garbage, TypeOK, SessionTypeOK, requestVars
  <2>2. \A c \in Clients : pc[c] \in Ending => held[c] \in Instances
    BY DEF LockOK, Ending, Owning
  <2>3. \A c \in Clients : pc'[c] \in Ending =>
            keyOf'[held[c]] = keyOf[held[c]] /\ stream'[held[c]] = stream[held[c]]
    BY <2>1, <2>2
  <2>. QED
    BY <1>2, <2>1, <2>3, StaysEnding DEF EndingOK, Ending
<1>. QED
  BY <1>1, <1>2, <1>3, <1>4, <1>5, <1>6, <1>7, <1>8, <1>9, <1>10, <1>11, <1>12, <1>13, <1>14, <1>15, <1>17, <1>18, <1>19, <1>20, <1>21, <1>22, Next
     DEF Next, Micro, Task, Environment, Lookup, LockHolderStep, EnterShare, LookupMiss, Poll, HeartbeatExpires,
         Disconnect, TimerFires, ProgramFails, ConcatProcessFails, WorkerEnds, WorkerRejects, LateEnds,
         CleanupTask, OnDemandStep, OnDemandTask, sessionVars, requestVars

-----------------------------------------------------------------------------
(* No stream without an entry in the map. *)

(* With jobs q waiting for its lock and its stream open or not, a session  *)
(* will be stopped after whatever else happens to it.                      *)
Doomed(q, open) ==
    \/ ~open /\ \A i \in 1..Len(q) : q[i].op = "stop"
    \/ q # <<>> /\ q[Len(q)].op = "stop"

(* s has a key, and is not what the map ss holds there.                    *)
OrphanIn(ss, s) == keyOf[s] # NoKey /\ ss[keyOf[s]] # s

LEMMA OrphansDoomed ==
  NoOrphanStream <=> \A s \in Instances : OrphanIn(sessions, s) => Doomed(queue[s], stream[s])
  BY DEF NoOrphanStream, OrphanIn, Mapped, Doomed

LEMMA DoomedByStop ==
  ASSUME NEW q \in Seq(Job), NEW b, NEW open
  PROVE  Doomed(Append(q, Stop(b)), open)
<1>1. Append(q, Stop(b)) # <<>> /\ Len(Append(q, Stop(b))) = Len(q) + 1
      /\ Append(q, Stop(b))[Len(q) + 1] = Stop(b)
  OBVIOUS
<1>. QED  BY <1>1 DEF Doomed, Stop

LEMMA DoomedAdds ==
  ASSUME NEW q \in JobQueues, NEW r, Adds(q, r), NEW s \in Instances, NEW open, Doomed(q[s], open)
  PROVE  Doomed(r[s], open)
  BY DoomedByStop DEF Adds, JobQueues

LEMMA DoomedReleased ==
  ASSUME NEW q \in Seq(Job), q # <<>>, NEW before, NEW after,
         Doomed(q, before), Head(q).op = "start" \/ ~after
  PROVE  Doomed(Tail(q), after)
<1>1. Len(q) \in Nat /\ Len(q) # 0 /\ Head(q) = q[1]
  OBVIOUS
<1>2. Tail(q) \in Seq(Job) /\ Len(Tail(q)) = Len(q) - 1
      /\ \A i \in 1..(Len(q) - 1) : Tail(q)[i] = q[i + 1]
  OBVIOUS
<1>. DEFINE t == Tail(q)
            n == Len(q) - 1
<1>3. /\ n \in Nat /\ Len(q) = n + 1
      /\ t \in Seq(Job) /\ Len(t) = n /\ \A i \in 1..n : t[i] = q[i + 1]
  BY <1>1, <1>2
<1>. SUFFICES Doomed(t, after)
  OBVIOUS
<1>. HIDE DEF t, n
<1>4. CASE q[n + 1].op = "stop" /\ n > 0
  <2>1. t # <<>> /\ t[n] = q[n + 1]
    BY <1>3, <1>4
  <2>. QED  BY <1>3, <1>4, <2>1 DEF Doomed
<1>5. CASE q[n + 1].op = "stop" /\ n = 0
  <2>1. ~after
    BY <1>1, <1>5
  <2>2. 1..Len(t) = {}
    BY <1>3, <1>5
  <2>. QED  BY <2>1, <2>2 DEF Doomed
<1>6. CASE \A i \in 1..(n + 1) : q[i].op = "stop"
  <2>1. ~after
    BY <1>1, <1>3, <1>6
  <2>2. \A i \in 1..n : i + 1 \in 1..(n + 1)
    BY <1>3
  <2>3. \A i \in 1..n : t[i].op = "stop"
    BY <1>3, <1>6, <2>2
  <2>. QED  BY <1>3, <2>1, <2>3 DEF Doomed
<1>. QED  BY <1>3, <1>4, <1>5, <1>6 DEF Doomed

(* The holder of the lock of s leaves: after stop(), with the stream       *)
(* closed.                                                                 *)
LEMMA DoomedSettled ==
  ASSUME TypeOK, NEW s \in Instances, queue[s] # <<>>, Adds(Released(s), queue'),
         Running(s).op = "start" \/ ~stream'[s],
         \A u \in Instances : u # s => stream'[u] = stream[u],
         NEW u \in Instances, Doomed(queue[u], stream[u])
  PROVE  Doomed(queue'[u], stream'[u])
<1>1. Released(s) \in JobQueues
  BY ReleasedType DEF JobQueues, TypeOK, SessionTypeOK
<1>2. Released(s)[u] = IF u = s THEN Tail(queue[s]) ELSE queue[u]
  BY DEF Released, TypeOK, SessionTypeOK
<1>3. Doomed(Released(s)[u], stream'[u])
  BY <1>2, DoomedReleased DEF Running, TypeOK, SessionTypeOK
<1>. QED  BY <1>1, <1>3, DoomedAdds

(* The map stays, and so does whatever is doomed.                          *)
LEMMA SameOrphans ==
  ASSUME NoOrphanStream, UNCHANGED <<keyOf, sessions>>,
         \A s \in Instances : Doomed(queue[s], stream[s]) => Doomed(queue'[s], stream'[s])
  PROVE  NoOrphanStream'
<1>1. \A s \in Instances : OrphanIn(sessions, s) => Doomed(queue[s], stream[s])
  BY OrphansDoomed
<1>2. \A s \in Instances : OrphanIn(sessions, s)' => OrphanIn(sessions, s)
  BY DEF OrphanIn
<1>. QED
  BY <1>1, <1>2 DEF NoOrphanStream, OrphanIn, Mapped, Doomed

LEMMA AddsOrphans ==
  ASSUME TypeOK, NoOrphanStream, UNCHANGED <<keyOf, sessions, stream>>, Adds(queue, queue')
  PROVE  NoOrphanStream'
<1>1. queue \in JobQueues
  BY DEF TypeOK, SessionTypeOK, JobQueues
<1>2. \A s \in Instances : Doomed(queue[s], stream[s]) => Doomed(queue'[s], stream'[s])
  BY <1>1, DoomedAdds
<1>. QED  BY <1>2, SameOrphans

LEMMA StartSettledOrphans ==
  ASSUME TypeOK, NoOrphanStream, NEW s \in Instances, queue[s] # <<>>, Running(s).op = "start",
         NEW stops, NEW st, StartSettled(s, stops, st), UNCHANGED <<keyOf, sessions>>,
         \A u \in Instances : u # s => stream'[u] = stream[u]
  PROVE  NoOrphanStream'
<1>1. Released(s) \in JobQueues
  BY ReleasedType DEF JobQueues, TypeOK, SessionTypeOK
<1>2. Adds(Released(s), queue')
  BY <1>1, WithStopsAdds DEF StartSettled
<1>3. \A u \in Instances : Doomed(queue[u], stream[u]) => Doomed(queue'[u], stream'[u])
  BY <1>2, DoomedSettled
<1>. QED  BY <1>3, SameOrphans

(* Construct, from a map ss in which the key is vacant and jobs q with     *)
(* which every orphan of ss is doomed.                                     *)
LEMMA ConstructOrphans ==
  ASSUME SessionAssumption, TypeOK, NEW c \in Clients, want[c] \in Key,
         NEW q \in JobQueues, NEW ss \in [Key -> Instances \cup {NoSession}],
         ss[want[c]] = NoSession,
         \A u \in Instances : OrphanIn(ss, u) => Doomed(q[u], stream[u]),
         Construct(c, q, ss)
  PROVE  NoOrphanStream'
<1>1. PICK s \in Instances : /\ keyOf[s] = NoKey
                             /\ sessions' = [ss EXCEPT ![want[c]] = s]
                             /\ keyOf'   = [keyOf EXCEPT ![s] = want[c]]
                             /\ queue'   = [q EXCEPT ![s] = Append(@, Start(c))]
  BY DEF Construct, Unused
<1>. SUFFICES ASSUME NEW u \in Instances, keyOf'[u] # NoKey, sessions'[keyOf'[u]] # u
              PROVE  Doomed(queue'[u], stream'[u])
  BY DEF NoOrphanStream, Mapped, Doomed
<1>2. u # s
  BY <1>1 DEF TypeOK, SessionTypeOK
<1>3. keyOf'[u] = keyOf[u] /\ queue'[u] = q[u] /\ stream'[u] = stream[u] /\ keyOf[u] \in Key
  BY <1>1, <1>2 DEF Construct, Unused, TypeOK, SessionTypeOK, JobQueues
<1>4. ss[keyOf[u]] # u
  BY <1>1, <1>3 DEF SessionAssumption
<1>. QED  BY <1>3, <1>4 DEF OrphanIn

(* StopVictim, StopAndWait, from such a map and such jobs.                              *)
LEMMA StopVictimOrphans ==
  ASSUME TypeOK, NEW c \in Clients, NEW vs, NEW q \in JobQueues, NEW tm,
         \A u \in Instances : OrphanIn(sessions', u) => Doomed(q[u], stream[u]),
         StopVictim(c, vs, q, tm)
  PROVE  NoOrphanStream'
<1>. SUFFICES ASSUME NEW u \in Instances, keyOf'[u] # NoKey, sessions'[keyOf'[u]] # u
              PROVE  Doomed(queue'[u], stream'[u])
  BY DEF NoOrphanStream, Mapped, Doomed
<1>1. keyOf' = keyOf /\ stream' = stream /\ q[u] \in Seq(Job)
  BY DEF StopVictim, StopAndWait, JobQueues
<1>2. queue'[u] = q[u] \/ queue'[u] = Append(q[u], Stop(c))
  BY DEF StopVictim, StopAndWait, JobQueues
<1>3. Doomed(q[u], stream[u])
  BY <1>1 DEF OrphanIn
<1>. QED  BY <1>1, <1>2, <1>3, DoomedByStop

LEMMA OrphanStep ==
  ASSUME SessionAssumption, TypeOK, LockOK, JobsOK, PhaseOK, MapOK, StreamOK, VacantOK, EndingOK,
         NoOrphanStream, Next
  PROVE  NoOrphanStream'
<1>0. /\ queue \in JobQueues
      /\ \A s \in Instances : OrphanIn(sessions, s) => Doomed(queue[s], stream[s])
  BY OrphansDoomed DEF TypeOK, SessionTypeOK, JobQueues
<1>1. CASE UNCHANGED <<keyOf, sessions, queue, stream>>
  BY <1>1, SameOrphans
<1>2. CASE UNCHANGED <<keyOf, sessions, stream>> /\ Adds(queue, queue')
  BY <1>2, AddsOrphans
<1>3. ASSUME NEW c \in Clients, EnterStart(c)
      PROVE  NoOrphanStream'
  <2>1. PICK s \in At(want[c]) : queue' = [queue EXCEPT ![s] = Append(@, Start(c))]
    BY <1>3 DEF EnterStart
  <2>2. s \in Instances /\ ~OrphanIn(sessions, s)
    BY <1>3, <2>1 DEF EnterStart, LockOK, At, TypeOK, MapOK, OrphanIn
  <2>3. UNCHANGED <<keyOf, sessions, stream>> /\ \A u \in Instances : u # s => queue'[u] = queue[u]
    BY <1>3, <2>1, <2>2 DEF EnterStart, TypeOK, SessionTypeOK
  <2>. QED
    BY <1>0, <2>2, <2>3 DEF OrphanIn, NoOrphanStream, Mapped, Doomed
<1>4. ASSUME NEW c \in Clients, LookupCreate(c)
      PROVE  NoOrphanStream'
  <2>1. /\ Construct(c, queue, sessions)
        /\ want[c] \in Key /\ sessions[want[c]] = NoSession
    BY <1>4 DEF LookupCreate, LockOK, VacantOK
  <2>2. sessions \in [Key -> Instances \cup {NoSession}]
    BY DEF TypeOK
  <2>. QED
    BY <1>0, <2>1, <2>2, ConstructOrphans
<1>5. ASSUME NEW c \in Clients, LookupEvict(c)
      PROVE  NoOrphanStream'
  <2>1. PICK v \in Rankings(c) : StopVictim(c, v, queue, timer)
    BY <1>5 DEF LookupEvict
  <2>2. sessions' = sessions
    BY <1>5 DEF LookupEvict
  <2>. QED
    BY <1>0, <2>1, <2>2, StopVictimOrphans
<1>6. ASSUME NEW c \in Clients, Evict(c)
      PROVE  NoOrphanStream'
  <2>1. PICK k, qs, ss : /\ k  = keyOf[held[c]]
                         /\ qs = WithStops(queue, DeleteStops(k), "nobody")
                         /\ ss = [sessions EXCEPT ![k] = NoSession]
    OBVIOUS
  <2>2. qs \in JobQueues /\ Adds(queue, qs) /\ ss \in [Key -> Instances \cup {NoSession}]
    BY <1>0, <2>1, WithStopsAdds DEF TypeOK
  <2>3. ASSUME NEW u \in Instances, OrphanIn(ss, u)
        PROVE  Doomed(qs[u], stream[u])
    <3>1. keyOf[u] \in Key /\ queue[u] \in Seq(Job)
      BY <2>3 DEF OrphanIn, TypeOK, SessionTypeOK
    <3>2. CASE OrphanIn(sessions, u)
      BY <1>0, <2>2, <3>2, DoomedAdds
    <3>3. CASE ~OrphanIn(sessions, u)
      <4>1. u = sessions[k]
        BY <2>1, <2>3, <3>1, <3>3 DEF OrphanIn, TypeOK
      <4>2. u \in DeleteStops(k)
        BY <4>1 DEF DeleteStops, At, SessionAssumption
      <4>3. qs[u] = Append(queue[u], Stop("nobody"))
        BY <2>1, <4>2 DEF WithStops
      <4>. QED
        BY <3>1, <4>3, DoomedByStop
    <3>. QED  BY <3>2, <3>3
  <2>4. CASE victims[c] = <<>>
    <3>1. Construct(c, qs, ss)
      BY <1>6, <2>1, <2>4 DEF Evict
    <3>2. want[c] \in Key /\ ss[want[c]] = NoSession
      BY <1>6, <2>1 DEF Evict, LockOK, VacantOK, TypeOK
    <3>. QED
      BY <2>2, <2>3, <3>1, <3>2, ConstructOrphans
  <2>5. CASE victims[c] # <<>>
    <3>1. PICK tm : StopVictim(c, victims[c], qs, tm)
      BY <1>6, <2>1, <2>5 DEF Evict
    <3>2. sessions' = ss
      BY <1>6, <2>1, <2>5 DEF Evict
    <3>. QED
      BY <2>2, <2>3, <3>1, <3>2, StopVictimOrphans
  <2>. QED  BY <2>4, <2>5
<1>7. ASSUME NEW c \in Clients, EnterEnd(c)
      PROVE  NoOrphanStream'
  <2>1. CASE sessions[want[c]] = NoSession
    BY <1>1, <1>7, <2>1 DEF EnterEnd
  <2>2. CASE sessions[want[c]] # NoSession
    <3>1. queue' = WithStops(queue, {sessions[want[c]]}, c) /\ UNCHANGED <<keyOf, sessions, stream>>
      BY <1>7, <2>2 DEF EnterEnd
    <3>2. \A u \in Instances : queue'[u] = queue[u] \/ queue'[u] = Append(queue[u], Stop(c))
      BY <3>1 DEF WithStops
    <3>3. ASSUME NEW u \in Instances, Doomed(queue[u], stream[u])
          PROVE  Doomed(queue'[u], stream'[u])
      <4>1. Doomed(Append(queue[u], Stop(c)), stream[u])
        BY <1>0, DoomedByStop DEF JobQueues
      <4>. QED
        BY <3>1, <3>2, <3>3, <4>1
    <3>. QED
      BY <3>1, <3>3, SameOrphans
  <2>. QED  BY <2>1, <2>2
<1>8. ASSUME NEW c \in Clients, EndSession(c)
      PROVE  NoOrphanStream'
  <2>1. PICK k \in Key, s \in Instances : /\ k = want[c] /\ s = held[c]
                                          /\ Owns(c) /\ keyOf[s] = k
                                          /\ sessions[k] \in {NoSession, s} /\ ~stream[s]
    BY <1>8 DEF EndSession, LockOK, Owning, EndingOK
  <2>2. sessions' = [sessions EXCEPT ![k] = NoSession] /\ UNCHANGED <<keyOf, queue, stream>>
    BY <1>8, <2>1 DEF EndSession, sessionVars
  <2>3. ASSUME NEW i \in 1..Len(queue[s])
        PROVE  queue[s][i].op = "stop"
    <3>1. queue[s][i] \in Job
      BY DEF TypeOK, SessionTypeOK
    <3>2. ASSUME queue[s][i].op = "start"
          PROVE  FALSE
      <4>1. PICK d \in Clients : pc[d] = "starting" /\ want[d] = keyOf[s]
        BY <3>2 DEF JobsOK, JobsOn, StartOwned
      <4>2. d = c
        BY <1>8, <2>1, <4>1, OneOwner DEF EndSession, Owning
      <4>. QED
        BY <1>8, <4>1, <4>2 DEF EndSession
    <3>. QED  BY <3>1, <3>2 DEF Job
  <2>4. Doomed(queue[s], stream[s])
    BY <2>1, <2>3 DEF Doomed
  <2>5. \A u \in Instances : keyOf[u] # NoKey /\ sessions'[keyOf[u]] # u => u = s \/ OrphanIn(sessions, u)
    BY <2>1, <2>2 DEF OrphanIn, TypeOK, SessionTypeOK
  <2>. QED
    BY <1>0, <2>2, <2>4, <2>5 DEF NoOrphanStream, Mapped, Doomed
<1>9. ASSUME NEW s \in Instances, StartBegin(s)
      PROVE  NoOrphanStream'
  <2>1. CASE state[s] \in {"started", "error"}
    BY <1>9, <2>1, StartSettledOrphans DEF StartBegin
  <2>2. CASE state[s] \notin {"started", "error"}
    BY <1>1, <1>9, <2>2 DEF StartBegin
  <2>. QED  BY <2>1, <2>2
<1>10. ASSUME NEW s \in Instances, StartAcquired(s)
       PROVE  NoOrphanStream'
  <2>1. /\ queue[s] # <<>> /\ Running(s).op = "start" /\ UNCHANGED <<keyOf, sessions>>
        /\ \A u \in Instances : u # s => stream'[u] = stream[u]
    BY <1>10 DEF StartAcquired, PhaseOK, Running, TypeOK, SessionTypeOK
  <2>2. CASE IsConcat(s)
    BY <1>10, <2>1, <2>2, StartSettledOrphans DEF StartAcquired
  <2>3. CASE ~IsConcat(s)
    <3>1. queue' = queue
      BY <1>10, <2>3 DEF StartAcquired
    <3>2. queue[s] \in Seq(Job) /\ Head(queue[s]) = queue[s][1] /\ 1 \in 1..Len(queue[s])
      BY <2>1 DEF TypeOK, SessionTypeOK
    <3>3. Doomed(queue[s], stream[s]) => Doomed(queue[s], stream'[s])
      BY <2>1, <3>2 DEF Doomed, Running
    <3>. QED
      BY <2>1, <3>1, <3>3, SameOrphans
  <2>. QED  BY <2>2, <2>3
<1>11. ASSUME NEW s \in Instances, StartFails(s) \/ BecomesReady(s) \/ ReadinessFails(s)
       PROVE  NoOrphanStream'
  BY <1>11, StartSettledOrphans DEF StartFails, BecomesReady, ReadinessFails, PhaseOK, Running
<1>12. ASSUME NEW s \in Instances, StopBegin(s)
       PROVE  NoOrphanStream'
  <2>1. CASE Stoppable(s)
    BY <1>1, <1>12, <2>1 DEF StopBegin
  <2>2. CASE ~Stoppable(s)
    <3>1. queue' = Released(s) /\ UNCHANGED <<keyOf, sessions, stream>> /\ ~stream[s]
      BY <1>12, <2>2 DEF StopBegin, StopSettled, StreamOK
    <3>2. \A u \in Instances : Doomed(queue[u], stream[u]) => Doomed(queue'[u], stream'[u])
      BY <1>12, <3>1, DoomedSettled DEF StopBegin, Adds
    <3>. QED
      BY <3>1, <3>2, SameOrphans
  <2>. QED  BY <2>1, <2>2
<1>13. ASSUME NEW s \in Instances, HlsStopped(s) \/ SlowerStopFails(s)
       PROVE  NoOrphanStream'
  <2>1. /\ queue' = Released(s) /\ UNCHANGED <<keyOf, sessions>> /\ queue[s] # <<>>
        /\ ~stream'[s] /\ \A u \in Instances : u # s => stream'[u] = stream[u]
    BY <1>13 DEF HlsStopped, SlowerStopFails, StopSettled, PhaseOK, TypeOK, SessionTypeOK
  <2>2. \A u \in Instances : Doomed(queue[u], stream[u]) => Doomed(queue'[u], stream'[u])
    BY <2>1, DoomedSettled DEF Adds
  <2>. QED
    BY <2>1, <2>2, SameOrphans
<1>14. ASSUME NEW s \in Instances, sessions' = MapWithout(Removed(s)), keyOf' = keyOf,
              NEW q \in JobQueues, queue' = WithStops(q, RemovedWithChildren(s), "nobody"),
              \A u \in Instances : Doomed(queue[u], stream[u]) => Doomed(queue'[u], stream'[u])
       PROVE  NoOrphanStream'
  <2>. SUFFICES ASSUME NEW u \in Instances, keyOf[u] # NoKey, sessions'[keyOf[u]] # u
                PROVE  Doomed(queue'[u], stream'[u])
    BY <1>14 DEF NoOrphanStream, Mapped, Doomed
  <2>1. CASE OrphanIn(sessions, u)
    BY <1>0, <1>14, <2>1
  <2>2. CASE ~OrphanIn(sessions, u)
    <3>1. keyOf[u] \in Key /\ sessions[keyOf[u]] = u
      BY <2>2 DEF OrphanIn, TypeOK, SessionTypeOK
    <3>2. u = s /\ Mapped(s)
      BY <1>14, <3>1 DEF MapWithout, Removed
    <3>3. s \in RemovedWithChildren(s)
      BY <3>1, <3>2 DEF RemovedWithChildren, DeleteStops, At, SessionAssumption
    <3>4. queue'[u] = Append(q[u], Stop("nobody")) /\ q[u] \in Seq(Job)
      BY <1>14, <3>2, <3>3 DEF WithStops, JobQueues
    <3>. QED  BY <3>4, DoomedByStop
  <2>. QED  BY <2>1, <2>2
<1>15. ASSUME NEW s \in Instances, ConcatStopped(s)
       PROVE  NoOrphanStream'
  <2>1. /\ queue' = WithStops(Released(s), RemovedWithChildren(s), "nobody") /\ queue[s] # <<>>
        /\ ~stream'[s] /\ \A u \in Instances : u # s => stream'[u] = stream[u]
        /\ sessions' = MapWithout(Removed(s)) /\ keyOf' = keyOf
    BY <1>15 DEF ConcatStopped, StopSettled, PhaseOK, TypeOK, SessionTypeOK
  <2>2. Released(s) \in JobQueues
    BY <1>0, <2>1, ReleasedType DEF JobQueues
  <2>3. \A u \in Instances : Doomed(queue[u], stream[u]) => Doomed(queue'[u], stream'[u])
    BY <2>1, <2>2, WithStopsAdds, DoomedSettled
  <2>. QED
    BY <1>14, <2>1, <2>2, <2>3
<1>16. ASSUME NEW s \in Instances, CleanupEvent(s)
       PROVE  NoOrphanStream'
  <2>1. /\ queue' = WithStops(queue, RemovedWithChildren(s), "nobody")
        /\ sessions' = MapWithout(Removed(s)) /\ UNCHANGED <<keyOf, stream>>
    BY <1>16 DEF CleanupEvent
  <2>2. \A u \in Instances : Doomed(queue[u], stream[u]) => Doomed(queue'[u], stream'[u])
    BY <1>0, <2>1, WithStopsAdds, DoomedAdds
  <2>. QED
    BY <1>0, <1>14, <2>1, <2>2
<1>17. ASSUME NEW s \in Instances, Collect(s)
       PROVE  NoOrphanStream'
  <2>1. /\ keyOf'[s] = NoKey
        /\ \A u \in Instances : u # s => keyOf'[u] = keyOf[u] /\ stream'[u] = stream[u]
        /\ UNCHANGED <<sessions, queue>>
    BY <1>17 DEF Collect, TypeOK, SessionTypeOK
  <2>. QED
    BY <1>0, <2>1 DEF OrphanIn, NoOrphanStream, Mapped, Doomed
<1>18. ASSUME NEW c \in Clients, NEW s \in Instances, Disconnect(c, s)
       PROVE  NoOrphanStream'
  BY <1>2, <1>18, ScheduleAdds DEF Disconnect
<1>19. ASSUME NEW s \in Instances, TimerFires(s)
       PROVE  NoOrphanStream'
  <2>1. Adds(queue, queue')
    BY <1>0, <1>19, WithStopsAdds DEF TimerFires, Adds
  <2>. QED
    BY <1>2, <1>19, <2>1 DEF TimerFires
<1>20. ASSUME NEW s \in Instances, EmitError(s), UNCHANGED <<keyOf, sessions, stream>>
       PROVE  NoOrphanStream'
  BY <1>0, <1>2, <1>20, WithStopsAdds DEF EmitError
<1>21. ASSUME NEW s \in Instances, WorkerEnds(s)
       PROVE  NoOrphanStream'
  BY <1>2, <1>21, ScheduleAdds DEF WorkerEnds
<1>22. ASSUME CleanupTask
       PROVE  NoOrphanStream'
  BY <1>2, <1>22, ScheduleAdds DEF CleanupTask
<1>. QED
  BY <1>1, <1>3, <1>4, <1>5, <1>6, <1>7, <1>8, <1>9, <1>10, <1>11, <1>12, <1>13, <1>15, <1>16, <1>17, <1>18, <1>19, <1>20, <1>21, <1>22, Next
     DEF Next, Micro, Task, Environment, Lookup, LockHolderStep, ConcatCheck, EnterShare, EnterCreate, LookupMiss,
         Request, RequestEnd, Poll, HeartbeatExpires, ProgramFails, ConcatProcessFails,
         WorkerRejects, LateEnds, OnDemandStep, OnDemandTask, sessionVars

-----------------------------------------------------------------------------
(* A started session has a stream. *)

LEMMA KindsOfSession ==
  ASSUME SessionAssumption, TypeOK, NEW s \in Instances, keyOf[s] # NoKey, ~IsHls(s), ~IsConcat(s)
  PROVE  IsSlower(s)
<1>1. TypeOf(s) \in SessionType
  BY DEF TypeOK, SessionTypeOK, SessionAssumption, TypeOf, Key
<1>. QED  BY <1>1 DEF SessionType, IsHls, IsConcat, IsSlower

(* Only s changes, and it is either not started or has its stream.         *)
LEMMA StartedChange ==
  ASSUME StartedHasStream, NEW s \in Instances, UNCHANGED keyOf,
         \A u \in Instances : u # s => state'[u] = state[u] /\ stream'[u] = stream[u],
         state'[s] = "started" /\ ~IsSlower(s) => stream'[s]
  PROVE  StartedHasStream'
  BY DEF StartedHasStream, IsSlower, TypeOf

LEMMA StartedStep ==
  ASSUME SessionAssumption, TypeOK, PhaseOK, MapOK, StreamOK, StartedHasStream, Next
  PROVE  StartedHasStream'
<1>1. CASE UNCHANGED <<keyOf, state, stream>>
  BY <1>1 DEF StartedHasStream, IsSlower, TypeOf
<1>2. ASSUME NEW c \in Clients, NEW q, NEW ss, Construct(c, q, ss)
      PROVE  StartedHasStream'
  <2>1. PICK s \in Instances : keyOf[s] = NoKey /\ keyOf' = [keyOf EXCEPT ![s] = want[c]]
    BY <1>2 DEF Construct, Unused
  <2>2. state[s] # "started" /\ UNCHANGED <<state, stream>>
    BY <1>2, <2>1 DEF Construct, Unused, MapOK
  <2>3. \A u \in Instances : u # s => keyOf'[u] = keyOf[u]
    BY <2>1 DEF TypeOK, SessionTypeOK
  <2>. QED
    BY <2>2, <2>3 DEF StartedHasStream, IsSlower, TypeOf
<1>3. ASSUME NEW s \in Instances, NEW stops, NEW st, StartSettled(s, stops, st), UNCHANGED keyOf,
             \A u \in Instances : u # s => stream'[u] = stream[u],
             st = "started" /\ ~IsSlower(s) => stream'[s]
      PROVE  StartedHasStream'
  <2>1. state'[s] = st /\ \A u \in Instances : u # s => state'[u] = state[u]
    BY <1>3 DEF StartSettled, TypeOK, SessionTypeOK
  <2>. QED
    BY <1>3, <2>1, StartedChange
<1>4. ASSUME NEW s \in Instances, StartBegin(s)
      PROVE  StartedHasStream'
  <2>1. CASE state[s] \in {"started", "error"}
    BY <1>3, <1>4, <2>1 DEF StartBegin, StartedHasStream
  <2>2. CASE state[s] \notin {"started", "error"}
    BY <1>4, <2>2, StartedChange DEF StartBegin, TypeOK, SessionTypeOK
  <2>. QED  BY <2>1, <2>2
<1>5. ASSUME NEW s \in Instances, StartAcquired(s)
      PROVE  StartedHasStream'
  <2>1. stream'[s] /\ UNCHANGED keyOf /\ \A u \in Instances : u # s => stream'[u] = stream[u]
    BY <1>5 DEF StartAcquired, TypeOK, SessionTypeOK
  <2>2. CASE IsConcat(s)
    BY <1>3, <1>5, <2>1, <2>2 DEF StartAcquired
  <2>3. CASE ~IsConcat(s)
    <3>1. \A u \in Instances : u # s => state'[u] = state[u]
      BY <1>5, <2>3 DEF StartAcquired, TypeOK, SessionTypeOK
    <3>. QED
      BY <2>1, <3>1, StartedChange
  <2>. QED  BY <2>2, <2>3
<1>6. ASSUME NEW s \in Instances, StartFails(s)
      PROVE  StartedHasStream'
  BY <1>3, <1>6 DEF StartFails
<1>7. ASSUME NEW s \in Instances, BecomesReady(s) \/ ReadinessFails(s)
      PROVE  StartedHasStream'
  BY <1>3, <1>7 DEF BecomesReady, ReadinessFails, StreamOK
<1>8. ASSUME NEW s \in Instances, HlsStopped(s)
      PROVE  StartedHasStream'
  <2>1. keyOf[s] # NoKey
    BY <1>8 DEF HlsStopped, StreamOK, Stoppable, MapOK
  <2>2. IsHls(s) \/ IsSlower(s)
    BY <1>8, <2>1, KindsOfSession DEF HlsStopped
  <2>3. /\ IsHls(s) => state'[s] = "stopped"
        /\ \A u \in Instances : u # s => state'[u] = state[u] /\ stream'[u] = stream[u]
        /\ UNCHANGED keyOf
    BY <1>8 DEF HlsStopped, StateOnceStopped, TypeOK, SessionTypeOK
  <2>. QED
    BY <2>2, <2>3, StartedChange
<1>9. ASSUME NEW s \in Instances, SlowerStopFails(s)
      PROVE  StartedHasStream'
  BY <1>9, StartedChange DEF SlowerStopFails, TypeOK, SessionTypeOK
<1>10. ASSUME NEW s \in Instances, ConcatStopped(s)
       PROVE  StartedHasStream'
  BY <1>10, StartedChange DEF ConcatStopped, TypeOK, SessionTypeOK
<1>11. ASSUME NEW s \in Instances, Collect(s)
       PROVE  StartedHasStream'
  <2>1. state'[s] = "init"
        /\ \A u \in Instances : u # s => keyOf'[u] = keyOf[u] /\ state'[u] = state[u] /\ stream'[u] = stream[u]
    BY <1>11 DEF Collect, TypeOK, SessionTypeOK
  <2>. QED
    BY <2>1 DEF StartedHasStream, IsSlower, TypeOf
<1>12. ASSUME NEW s \in Instances, ProgramFails(s)
       PROVE  StartedHasStream'
  BY <1>12, StartedChange DEF ProgramFails, TypeOK, SessionTypeOK
<1>. QED
  BY <1>1, <1>2, <1>4, <1>5, <1>6, <1>7, <1>8, <1>9, <1>10, <1>11, <1>12, Next
     DEF Next, Micro, Task, Environment, Lookup, LockHolderStep, ConcatCheck, EnterShare, EnterStart, EnterCreate,
         EnterEnd, EndSession, LookupMiss, LookupCreate, LookupEvict, Evict, StopVictim, StopAndWait, StopBegin,
         Request, RequestEnd, Poll, HeartbeatExpires, Disconnect, CleanupEvent,
         TimerFires, ConcatProcessFails, WorkerEnds, WorkerRejects, LateEnds, CleanupTask,
         OnDemandStep, OnDemandTask, sessionVars

-----------------------------------------------------------------------------
(* The invariant. *)

LEMMA InitIInv ==
  ASSUME Init
  PROVE  IInv
<1>. USE DEF Init, SessionInit
<1>1. TypeOK
  BY DEF TypeOK, SessionTypeOK, State, PC
<1>2. LockOK /\ VacantOK /\ EndingOK
  BY DEF LockOK, VacantOK, EndingOK, Owning
<1>3. JobsOK
  BY DEF JobsOK, JobsOn
<1>4. PhaseOK /\ StreamOK
  BY DEF PhaseOK, StreamOK
<1>5. MapOK /\ NoOrphanStream /\ StartedHasStream
  BY DEF MapOK, NoOrphanStream, StartedHasStream
<1>. QED  BY <1>1, <1>2, <1>3, <1>4, <1>5 DEF IInv

LEMMA StutterIInv ==
  ASSUME IInv, UNCHANGED vars
  PROVE  IInv'
<1>. USE DEF IInv, vars, sessionVars, requestVars, onDemandVars
<1>1. TypeOK'
  BY DEF TypeOK, SessionTypeOK
<1>2. LockOK' /\ VacantOK' /\ EndingOK'
  BY DEF LockOK, Owns, Front, VacantOK, EndingOK
<1>3. JobsOK'
  BY JobsStay DEF JobsOK
<1>4. PhaseOK' /\ StreamOK'
  BY DEF PhaseOK, StreamOK, Stoppable
<1>5. MapOK' /\ NoOrphanStream' /\ StartedHasStream'
  BY DEF MapOK, NoOrphanStream, Mapped, StartedHasStream, IsSlower, TypeOf
<1>. QED  BY <1>1, <1>2, <1>3, <1>4, <1>5

LEMMA NextIInv ==
  ASSUME IInv, Next
  PROVE  IInv'
<1>1. SessionAssumption /\ ManagerAssumption
  BY SessionAssumption, ManagerAssumption
<1>2. TypeOK'
  BY TypeStep DEF IInv
<1>3. LockOK'
  BY LockStep DEF IInv
<1>4. JobsOK'
  BY <1>1, <1>2, JobsStep DEF IInv
<1>5. PhaseOK'
  BY <1>1, PhaseStep DEF IInv
<1>6. MapOK'
  BY <1>1, MapStep DEF IInv
<1>7. StreamOK'
  BY <1>1, StreamStep DEF IInv
<1>8. VacantOK'
  BY VacantStep DEF IInv
<1>9. EndingOK'
  BY <1>1, EndingStep DEF IInv
<1>10. NoOrphanStream'
  BY <1>1, OrphanStep DEF IInv
<1>11. StartedHasStream'
  BY <1>1, StartedStep DEF IInv
<1>. QED
  BY <1>2, <1>3, <1>4, <1>5, <1>6, <1>7, <1>8, <1>9, <1>10, <1>11 DEF IInv

LEMMA SpecIInv == Spec => []IInv
<1>1. Init => IInv
  BY InitIInv
<1>2. IInv /\ [Next]_vars => IInv'
  BY NextIInv, StutterIInv
<1>. QED  BY <1>1, <1>2, PTL DEF Spec

(* Every variable keeps its type: in particular the calls that await a     *)
(* session are always clients, trackers or nobody, and the map holds       *)
(* nothing but sessions (SessionManager.#sessions).                        *)
THEOREM TypeCorrect == Spec => []TypeOK
<1>1. IInv => TypeOK
  BY DEF IInv
<1>. QED  BY <1>1, SpecIInv, PTL

(* A stream never outlives its entry in the map: what deleteSession and    *)
(* endSession take out of the map is stopped, or a stop() is the last call *)
(* in the queue for its lock.                                              *)
THEOREM StreamsAreReachable == Spec => []NoOrphanStream
<1>1. IInv => NoOrphanStream
  BY DEF IInv
<1>. QED  BY <1>1, SpecIInv, PTL

(* A session that getOrCreateSession may share has a stream.               *)
THEOREM SharedHasStream == Spec => []StartedHasStream
<1>1. IInv => StartedHasStream
  BY DEF IInv
<1>. QED  BY <1>1, SpecIInv, PTL

(* At most one request awaits start() of a session, and it holds the lock  *)
(* of the session's channel (the #sessionLocker of getOrCreateSession).    *)
THEOREM OneStarter == Spec => []OneStarterPerSession
<1>1. ASSUME IInv
      PROVE  OneStarterPerSession
  <2>. SUFFICES ASSUME NEW s \in Instances, NEW i \in 1..Len(queue[s]), NEW c,
                       queue[s][i].op = "start", c = queue[s][i].by
                PROVE  /\ pc[c] = "starting" /\ held[c] = s
                       /\ want[c] = keyOf[s] /\ Front(c)
                       /\ \A j \in 1..Len(queue[s]) : queue[s][j].op = "start" => j = i
    BY DEF OneStarterPerSession
  <2>1. c \in Clients /\ pc[c] = "starting" /\ held[c] = s /\ want[c] = keyOf[s]
    BY <1>1 DEF IInv, JobsOK, JobsOn, StartOwned
  <2>2. Owns(c)
    BY <1>1, <2>1 DEF IInv, LockOK, Owning
  <2>3. ASSUME NEW j \in 1..Len(queue[s]), queue[s][j].op = "start"
        PROVE  j = i
    <3>1. PICK d \in Clients : d = queue[s][j].by /\ pc[d] = "starting" /\ want[d] = keyOf[s]
      BY <1>1, <2>3 DEF IInv, JobsOK, JobsOn, StartOwned
    <3>2. d = c
      BY <1>1, <2>1, <3>1, OneOwner DEF IInv, Owning
    <3>. QED
      BY <1>1, <2>1, <3>1, <3>2 DEF IInv, JobsOK, JobsOn
  <2>. QED  BY <2>1, <2>2, <2>3 DEF Owns
<1>. QED  BY <1>1, SpecIInv, PTL

(* What a step that removes or replaces the session at k has for a cause.  *)
Cause(k) ==
    \/ due[sessions[k]]
    \/ phase[sessions[k]] = "stopping"
    \/ \E c \in Clients :
          \/ pc[c] = "ended" /\ want[c] = k
          \/ pc[c] = "evicted" /\ keyOf[held[c]] = k

LEMMA NextHasCause ==
  ASSUME IInv, Next, NEW k \in Key, sessions[k] # NoSession, sessions'[k] # sessions[k]
  PROVE  Cause(k)
<1>1. ASSUME NEW c \in Clients, pc[c] \in Creating, NEW q, NEW ss, Construct(c, q, ss),
             ss \in [Key -> Instances \cup {NoSession}]
      PROVE  ss[k] # sessions[k]
  <2>1. sessions[want[c]] = NoSession
    BY <1>1 DEF IInv, VacantOK, Creating
  <2>2. k # want[c]
    BY <2>1
  <2>. QED  BY <1>1, <2>2 DEF Construct, Unused
<1>2. ASSUME NEW c \in Clients, LookupCreate(c)
      PROVE  FALSE
  BY <1>1, <1>2 DEF LookupCreate, Creating, IInv, TypeOK
<1>3. ASSUME NEW c \in Clients, Evict(c)
      PROVE  Cause(k)
  <2>1. PICK ss : ss = [sessions EXCEPT ![keyOf[held[c]]] = NoSession]
    OBVIOUS
  <2>2. ss[k] # sessions[k]
    <3>1. CASE victims[c] = <<>>
      <4>1. PICK q : Construct(c, q, ss)
        BY <1>3, <2>1, <3>1 DEF Evict
      <4>. QED
        BY <1>1, <1>3, <2>1, <4>1 DEF Evict, Creating, IInv, TypeOK
    <3>2. CASE victims[c] # <<>>
      BY <1>3, <2>1, <3>2 DEF Evict
    <3>. QED  BY <3>1, <3>2
  <2>3. keyOf[held[c]] = k
    BY <2>1, <2>2 DEF IInv, TypeOK
  <2>. QED  BY <1>3, <2>3 DEF Cause, Evict
<1>4. ASSUME NEW c \in Clients, EndSession(c)
      PROVE  Cause(k)
  <2>1. want[c] = k
    BY <1>4 DEF EndSession, IInv, TypeOK
  <2>. QED  BY <1>4, <2>1 DEF EndSession, Cause
<1>5. ASSUME NEW s \in Instances, ConcatStopped(s)
      PROVE  Cause(k)
  <2>1. sessions[k] = s
    BY <1>5 DEF ConcatStopped, MapWithout, Removed
  <2>. QED  BY <1>5, <2>1 DEF ConcatStopped, Cause
<1>6. ASSUME NEW s \in Instances, CleanupEvent(s)
      PROVE  Cause(k)
  <2>1. sessions[k] = s
    BY <1>6 DEF CleanupEvent, MapWithout, Removed
  <2>. QED  BY <1>6, <2>1 DEF CleanupEvent, Cause
<1>. QED
  BY <1>2, <1>3, <1>4, <1>5, <1>6, Next
     DEF Next, Micro, Task, Environment, Lookup, LockHolderStep, ConcatCheck, EnterShare, EnterStart, EnterCreate,
         EnterEnd, LookupMiss, LookupEvict, Request, RequestEnd, Poll, HeartbeatExpires, Disconnect,
         StartBegin, StartAcquired, StartFails, BecomesReady, ReadinessFails, StopBegin, HlsStopped,
         SlowerStopFails, Collect, TimerFires, ProgramFails, ConcatProcessFails, WorkerEnds, WorkerRejects,
         LateEnds, CleanupTask, OnDemandStep, OnDemandTask

(* A session leaves the map by its own cleanup or stop event, or through a *)
(* call that stopped what it found at the key; the event of an instance    *)
(* that was replaced never removes the replacement (the listeners' check   *)
(* that the map still holds this very session).                            *)
THEOREM RemovalsHaveCause == Spec => RemovalHasCause
<1>1. IInv /\ [Next]_vars =>
        [\A k \in Key : sessions[k] # NoSession /\ sessions'[k] # sessions[k] =>
            \/ due[sessions[k]]
            \/ phase[sessions[k]] = "stopping"
            \/ \E c \in Clients :
                  \/ pc[c] = "ended" /\ want[c] = k
                  \/ pc[c] = "evicted" /\ keyOf[held[c]] = k]_vars
  BY NextHasCause DEF Cause
<1>. QED  BY <1>1, SpecIInv, PTL DEF Spec, RemovalHasCause

=============================================================================
