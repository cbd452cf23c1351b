------------------------- MODULE SessionRegistryProofs -------------------------
(***************************************************************************)
(* SessionManager implements SessionRegistry: its initial states are the   *)
(* registry's, and from a state of IInv each of its steps is a step of the *)
(* registry or leaves the registry's variables alone.                      *)
(***************************************************************************)
EXTENDS SessionManagerProofs

Out == {s \in Instances : keyOf[s] # NoKey /\ ~Mapped(s)}

(* The keys at K are freed and no session is created or forgotten.         *)
Frees(K) ==
    /\ keyOf' = keyOf
    /\ sessions' = [k \in Key |-> IF k \in K THEN NoSession ELSE sessions[k]]

-----------------------------------------------------------------------------
(* What the registry sees of a step. *)

LEMMA FreedLeave ==
  ASSUME IInv, NEW K \in SUBSET Key, Frees(K)
  PROVE  Out' = Out \cup ({sessions[k] : k \in K} \ {NoSession})
<1>. DEFINE Gone == {sessions[k] : k \in K} \ {NoSession}
<1>1. MapOK /\ TypeOK /\ NoSession \notin Instances
  BY SessionAssumption DEF IInv, SessionAssumption
<1>2. ASSUME NEW s \in Instances, keyOf[s] # NoKey
      PROVE  (sessions'[keyOf[s]] = s) <=> (sessions[keyOf[s]] = s /\ keyOf[s] \notin K)
  <2>1. keyOf[s] \in Key
    BY <1>1, <1>2 DEF TypeOK, SessionTypeOK
  <2>. QED
    BY <1>1, <2>1 DEF Frees
<1>3. ASSUME NEW s \in Instances
      PROVE  s \in Gone <=> keyOf[s] # NoKey /\ sessions[keyOf[s]] = s /\ keyOf[s] \in K
  BY <1>1, NoKeyIsNoKey DEF MapOK
<1>4. Gone \subseteq Instances
  BY <1>1 DEF TypeOK
<1>. QED
  BY <1>2, <1>3, <1>4 DEF Out, Mapped, Frees

LEMMA FreedAreUnlisted ==
  ASSUME IInv, NEW K \in SUBSET Key, Frees(K), stream' = stream
  PROVE  Registry!Next
<1>1. Registry!Unlist(K)
  BY FreedLeave DEF Registry!Unlist, Registry!Without, Registry!At, Out, Frees
<1>. QED  BY <1>1 DEF Registry!Next

LEMMA ClosedStream ==
  ASSUME IInv, NEW s \in Instances, NEW K \in SUBSET Key, Frees(K),
         stream' = [stream EXCEPT ![s] = FALSE]
  PROVE  Registry!Next
<1>1. {t \in Instances : stream'[t]} = {t \in Instances : stream[t]} \ {s}
  BY DEF IInv, TypeOK, SessionTypeOK
<1>2. Registry!Close(s, K)
  BY <1>1, FreedLeave DEF Registry!Close, Registry!Without, Registry!At, Out, Frees
<1>. QED  BY <1>2 DEF Registry!Next

LEMMA OpenedStream ==
  ASSUME IInv, NEW s \in Instances, keyOf[s] # NoKey, UNCHANGED <<keyOf, sessions>>,
         stream' = [stream EXCEPT ![s] = TRUE]
  PROVE  Registry!Next
<1>1. {t \in Instances : stream'[t]} = {t \in Instances : stream[t]} \cup {s}
  BY DEF IInv, TypeOK, SessionTypeOK
<1>2. s \in Registry!Listed \cup Out
  <2>1. keyOf[s] \in Key /\ s # NoSession
    BY SessionAssumption DEF IInv, TypeOK, SessionTypeOK, SessionAssumption
  <2>. QED
    BY <2>1 DEF Registry!Listed, Out, Mapped
<1>3. Registry!Open(s)
  BY <1>1, <1>2 DEF Registry!Open, Out, Mapped
<1>. QED  BY <1>3 DEF Registry!Next

LEMMA SameRegistry ==
  ASSUME UNCHANGED <<keyOf, sessions, stream>>
  PROVE  UNCHANGED Registry!vars
  BY DEF Registry!vars, Mapped

(* A session is constructed under a vacant key as the entry at j goes.     *)
LEMMA ConstructedIsListed ==
  ASSUME IInv, NEW c \in Clients, pc[c] \in Creating, NEW q, NEW ss, NEW K \in SUBSET Key,
         ss = [k \in Key |-> IF k \in K THEN NoSession ELSE sessions[k]],
         Construct(c, q, ss)
  PROVE  Registry!Next
<1>1. MapOK /\ TypeOK /\ NoOrphanStream /\ StreamOK /\ NoSession \notin Instances
  BY SessionAssumption DEF IInv, SessionAssumption
<1>2. want[c] \in Key /\ sessions[want[c]] = NoSession
  BY DEF IInv, LockOK, VacantOK, Creating
<1>3. PICK s \in Instances : /\ keyOf[s] = NoKey
                             /\ sessions' = [ss EXCEPT ![want[c]] = s]
                             /\ keyOf' = [keyOf EXCEPT ![s] = want[c]]
  BY DEF Construct, Unused
<1>4. \A k \in Key : sessions[k] # s
  BY <1>1, <1>3, NoKeyIsNoKey DEF MapOK
<1>5. ~stream[s]
  BY <1>1, <1>3 DEF MapOK, StreamOK, Stoppable
<1>6. s \notin Registry!Listed \cup {t \in Instances : stream[t]} \cup Out
  BY <1>3, <1>4, <1>5 DEF Registry!Listed, Out
<1>. DEFINE Gone == {sessions[k] : k \in K} \ {NoSession}
<1>7. Out' = Out \cup Gone
  <2>1. ASSUME NEW t \in Instances, t # s, keyOf[t] # NoKey
        PROVE  Mapped(t)' <=> Mapped(t) /\ keyOf[t] \notin K
    <3>1. keyOf[t] \in Key /\ keyOf'[t] = keyOf[t]
      BY <1>1, <1>3, <2>1 DEF TypeOK, SessionTypeOK
    <3>2. CASE keyOf[t] = want[c]
      <4>1. sessions'[want[c]] = s
        BY <1>2, <1>3
      <4>. QED
        BY <1>1, <1>2, <2>1, <3>1, <3>2, <4>1 DEF Mapped
    <3>3. CASE keyOf[t] # want[c]
      <4>1. sessions'[keyOf[t]] = ss[keyOf[t]]
        BY <1>3, <3>1, <3>3
      <4>. QED
        BY <1>1, <2>1, <3>1, <4>1 DEF Mapped
    <3>. QED  BY <3>2, <3>3
  <2>2. Mapped(s)'
    <3>1. keyOf'[s] = want[c] /\ sessions'[want[c]] = s
      BY <1>1, <1>2, <1>3 DEF TypeOK, SessionTypeOK
    <3>. QED
      BY <1>2, <3>1, NoKeyIsNoKey DEF Mapped
  <2>3. ASSUME NEW t \in Instances
        PROVE  t \in Gone <=> Mapped(t) /\ keyOf[t] \in K
    BY <1>1, NoKeyIsNoKey DEF MapOK, Mapped
  <2>4. Gone \subseteq Instances
    BY <1>1 DEF TypeOK
  <2>5. \A t \in Instances : t # s => keyOf'[t] = keyOf[t]
    BY <1>1, <1>3 DEF TypeOK, SessionTypeOK
  <2>6. s \notin Gone
    BY <1>4
  <2>7. \A t \in Instances : t \in Out' <=> t \in Out \/ t \in Gone
    <3>1. ASSUME NEW t \in Instances
          PROVE  t \in Out' <=> keyOf'[t] # NoKey /\ ~Mapped(t)'
      BY DEF Out
    <3>. QED
      BY <1>3, <2>1, <2>2, <2>3, <2>5, <2>6, <3>1 DEF Out, Mapped
  <2>8. Out \subseteq Instances /\ Out' \subseteq Instances
    BY DEF Out
  <2>. QED  BY <2>4, <2>7, <2>8
<1>8. Registry!List(want[c], s, K)
  <2>1. UNCHANGED stream
    BY DEF Construct, Unused
  <2>. QED
    BY <1>2, <1>3, <1>6, <1>7, <2>1 DEF Registry!List, Registry!Without, Registry!At, Out
<1>. QED  BY <1>2, <1>8 DEF Registry!Next

-----------------------------------------------------------------------------
(* The steps. *)

LEMMA RegistryStep ==
  ASSUME IInv, Next
  PROVE  Registry!Next \/ UNCHANGED Registry!vars
<1>1. TypeOK /\ LockOK /\ JobsOK /\ PhaseOK /\ MapOK
  BY DEF IInv
<1>2. ASSUME NEW c \in Clients, LookupCreate(c)
      PROVE  Registry!Next
  <2>1. PICK K \in SUBSET Key : K = {}
    OBVIOUS
  <2>2. sessions = [k \in Key |-> IF k \in K THEN NoSession ELSE sessions[k]]
    BY <1>1, <2>1 DEF TypeOK
  <2>3. Construct(c, queue, sessions) /\ pc[c] \in Creating
    BY <1>2 DEF LookupCreate, Creating
  <2>. QED
    BY <2>2, <2>3, ConstructedIsListed
<1>3. ASSUME NEW c \in Clients, Evict(c)
      PROVE  Registry!Next
  <2>1. PICK ss : ss = [sessions EXCEPT ![keyOf[held[c]]] = NoSession]
    OBVIOUS
  <2>2. PICK K \in SUBSET Key : K = {keyOf[held[c]]} \cap Key
    OBVIOUS
  <2>3. ss = [k \in Key |-> IF k \in K THEN NoSession ELSE sessions[k]]
    BY <1>1, <2>1, <2>2 DEF TypeOK
  <2>4. CASE victims[c] = <<>>
    <3>1. PICK q : Construct(c, q, ss)
      BY <1>3, <2>1, <2>4 DEF Evict
    <3>2. pc[c] \in Creating
      BY <1>3 DEF Evict, Creating
    <3>. QED
      BY <2>3, <3>1, <3>2, ConstructedIsListed
  <2>5. CASE victims[c] # <<>>
    <3>1. sessions' = ss /\ UNCHANGED <<keyOf, stream>>
      BY <1>3, <2>1, <2>5 DEF Evict, StopVictim, StopAndWait
    <3>. QED
      BY <2>3, <3>1, FreedAreUnlisted DEF Frees
  <2>. QED  BY <2>4, <2>5
<1>4. ASSUME NEW c \in Clients, EndSession(c)
      PROVE  Registry!Next
  <2>1. PICK K \in SUBSET Key : K = {want[c]} \cap Key
    OBVIOUS
  <2>2. Frees(K) /\ stream' = stream
    BY <1>1, <1>4, <2>1 DEF EndSession, sessionVars, Frees, TypeOK
  <2>. QED
    BY <2>2, FreedAreUnlisted
<1>5. ASSUME NEW s \in Instances, StartAcquired(s)
      PROVE  Registry!Next
  <2>1. queue[s] # <<>> /\ Running(s).op = "start"
    BY <1>1, <1>5 DEF StartAcquired, PhaseOK, Running
  <2>2. keyOf[s] # NoKey
    BY <1>1, <2>1, StartedIsKeyed, NoKeyIsNoKey
  <2>. QED
    BY <1>5, <2>2, OpenedStream DEF StartAcquired
<1>6. ASSUME NEW s \in Instances, HlsStopped(s) \/ SlowerStopFails(s)
      PROVE  Registry!Next
  <2>1. UNCHANGED <<keyOf, sessions>> /\ stream' = [stream EXCEPT ![s] = FALSE]
    BY <1>6 DEF HlsStopped, SlowerStopFails
  <2>2. Frees({})
    BY <1>1, <2>1 DEF Frees, TypeOK
  <2>. QED
    BY <2>1, <2>2, ClosedStream
<1>7. ASSUME NEW s \in Instances, sessions' = MapWithout(Removed(s)), keyOf' = keyOf
      PROVE  Frees({k \in Key : sessions[k] \in Removed(s)})
  BY <1>7 DEF MapWithout, Frees
<1>8. ASSUME NEW s \in Instances, ConcatStopped(s)
      PROVE  Registry!Next
  BY <1>7, <1>8, ClosedStream DEF ConcatStopped
<1>9. ASSUME NEW s \in Instances, CleanupEvent(s)
      PROVE  Registry!Next
  BY <1>7, <1>9, FreedAreUnlisted DEF CleanupEvent
<1>10. ASSUME NEW s \in Instances, Collect(s)
       PROVE  Registry!Next
  <2>1. keyOf[s] # NoKey /\ ~Mapped(s) /\ queue[s] = <<>>
    BY <1>10 DEF Collect, Garbage
  <2>2. ~stream[s]
    BY <2>1 DEF IInv, NoOrphanStream
  <2>3. {t \in Instances : stream'[t]} = {t \in Instances : stream[t]}
    BY <1>1, <1>10, <2>2 DEF Collect, TypeOK, SessionTypeOK
  <2>4. sessions' = sessions /\ keyOf' = [keyOf EXCEPT ![s] = NoKey]
    BY <1>10 DEF Collect
  <2>5. Out' = Out \ {s}
    <3>1. \A t \in Instances : t # s => keyOf'[t] = keyOf[t]
      BY <1>1, <2>4 DEF TypeOK, SessionTypeOK
    <3>2. keyOf'[s] = NoKey
      BY <1>1, <2>4 DEF TypeOK, SessionTypeOK
    <3>. QED
      BY <2>4, <3>1, <3>2 DEF Out, Mapped
  <2>6. Registry!Forget(s)
    BY <2>1, <2>2, <2>3, <2>4, <2>5 DEF Registry!Forget, Out
  <2>. QED  BY <2>6 DEF Registry!Next
<1>11. CASE UNCHANGED <<keyOf, sessions, stream>>
  BY <1>11, SameRegistry
<1>. QED
  BY <1>2, <1>3, <1>4, <1>5, <1>6, <1>8, <1>9, <1>10, <1>11, Next
     DEF Next, Micro, Task, Environment, Lookup, LockHolderStep, ConcatCheck, EnterShare, EnterStart, EnterCreate,
         EnterEnd, LookupMiss, LookupEvict, StopVictim, StopAndWait, Request, RequestEnd, Poll, HeartbeatExpires, Disconnect,
         StartBegin, StartFails, BecomesReady, ReadinessFails, StopBegin,
         TimerFires, ProgramFails, ConcatProcessFails, WorkerEnds, WorkerRejects, LateEnds,
         CleanupTask, OnDemandStep, OnDemandTask, sessionVars

(* The manager keeps the registry's promise: a tune takes a free key and   *)
(* never overwrites an entry, and a session that has left the map is not   *)
(* dropped before its stream is closed.                                    *)
THEOREM KeepsTheRegistry == Spec => RegistrySafe
<1>1. Init => Registry!Init
  BY NoKeyIsNoKey DEF Init, SessionInit, Registry!Init, Mapped
<1>2. IInv /\ [Next]_vars => [Registry!Next]_(Registry!vars)
  <2>1. ASSUME IInv, UNCHANGED vars
        PROVE  UNCHANGED Registry!vars
    BY <2>1, SameRegistry DEF vars, sessionVars
  <2>. QED  BY <2>1, RegistryStep
<1>. QED  BY <1>1, <1>2, SpecIInv, PTL DEF Spec, RegistrySafe, Registry!SafeSpec

=============================================================================
