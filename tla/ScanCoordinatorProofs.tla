----------------------- MODULE ScanCoordinatorProofs -----------------------
(***************************************************************************)
(* What holds of the scan coordinator for any calls, targets and paths.    *)
(***************************************************************************)
EXTENDS ScanCoordinator, SequenceTheorems, TLAPS

(* A call between taking the lock and the end of its job is the one that   *)
(* holds the lock of its target.                                           *)
Holds == \A s \in Scans : Busy(s) => lock[target[s]] = s

(* The queue holds jobs that wait, each once.                              *)
Waiting ==
    /\ \A i \in 1..Len(queue) : phase[queue[i]] = "queued"
    /\ \A i, j \in 1..Len(queue) : queue[i] = queue[j] => i = j

IInv == TypeOK /\ Holds /\ Waiting /\ ProgressShown

-----------------------------------------------------------------------------
(* Two calls that are busy are about different targets.                    *)
LEMMA Apart ==
    ASSUME Holds, NEW s \in Scans, NEW q \in Scans, Busy(s), Busy(q), q # s
    PROVE  target[q] # target[s]
BY DEF Holds

(* A step of one busy call whose job does not wait leaves the others be.   *)
LEMMA Moves ==
    ASSUME TypeOK, Holds, Waiting, NEW s \in Scans, NEW p \in Phases,
           Busy(s), phase[s] # "queued", p # "queued", To(s, p),
           target' = target, lock' = lock, queue' = queue
    PROVE  Holds' /\ Waiting'
<1>1. Holds'
  <2> SUFFICES ASSUME NEW q \in Scans, Busy(q)' PROVE lock'[target'[q]] = q
      BY DEF Holds
  <2>1. Busy(q)
      BY DEF Busy, To, TypeOK
  <2> QED  BY <2>1 DEF Holds
<1>2. Waiting'
  <2> SUFFICES ASSUME NEW i \in 1..Len(queue) PROVE phase'[queue[i]] = "queued"
      BY DEF Waiting
  <2>1. phase[queue[i]] = "queued"  BY DEF Waiting
  <2>2. queue[i] \in Scans  BY DEF TypeOK
  <2> QED  BY <2>1, <2>2 DEF To, TypeOK
<1> QED  BY <1>1, <1>2

(* The end of a job frees the lock of its own target only.                 *)
LEMMA Releases ==
    ASSUME TypeOK, Holds, Waiting, NEW s \in Scans, Busy(s), phase[s] # "queued", Release(s)
    PROVE  Holds' /\ Waiting'
<1>1. Holds'
  <2> SUFFICES ASSUME NEW q \in Scans, Busy(q)' PROVE lock'[target'[q]] = q
      BY DEF Holds
  <2>1. q # s /\ Busy(q)
      BY DEF Busy, Release, To, TypeOK
  <2>2. target[q] # target[s]  BY <2>1, Apart
  <2>3. lock'[target[q]] = lock[target[q]]
      BY <2>2 DEF Release, TypeOK
  <2> QED  BY <2>1, <2>3 DEF Holds, Release
<1>2. Waiting'
  <2> SUFFICES ASSUME NEW i \in 1..Len(queue) PROVE phase'[queue[i]] = "queued"
      BY DEF Waiting, Release
  <2>1. phase[queue[i]] = "queued"  BY DEF Waiting
  <2>2. queue[i] \in Scans  BY DEF TypeOK
  <2> QED  BY <2>1, <2>2 DEF Release, To, TypeOK
<1> QED  BY <1>1, <1>2

(* A call may change what is shown of its own target.                      *)
LEMMA Shows ==
    ASSUME TypeOK, Holds, ProgressShown, NEW s \in Scans, NEW p \in Phases, NEW x,
           Busy(s), To(s, p), target' = target,
           progress' = [progress EXCEPT ![target[s]] = x],
           p = "queued" => x = "queued", p = "walking" => x = "in_progress"
    PROVE  ProgressShown'
<1> SUFFICES ASSUME NEW q \in Scans
             PROVE  /\ phase'[q] = "queued" => progress'[target[q]] = "queued"
                    /\ phase'[q] = "walking" => progress'[target[q]] = "in_progress"
    BY DEF ProgressShown
<1>1. CASE q = s  BY <1>1 DEF To, TypeOK
<1>2. CASE q # s
  <2>1. phase'[q] = phase[q]  BY <1>2 DEF To, TypeOK
  <2>2. CASE Busy(q)
    <3>1. target[q] # target[s]  BY <1>2, <2>2, Apart
    <3>2. progress'[target[q]] = progress[target[q]]  BY <3>1 DEF TypeOK
    <3> QED  BY <2>1, <3>2 DEF ProgressShown
  <2>3. CASE ~Busy(q)  BY <2>1, <2>3 DEF Busy
  <2> QED  BY <2>2, <2>3
<1> QED  BY <1>1, <1>2

(* A step that neither waits nor walks may leave what is shown.            *)
LEMMA Keeps ==
    ASSUME TypeOK, ProgressShown, NEW s \in Scans, NEW p \in Phases, To(s, p),
           p \notin {"queued", "walking"}, target' = target, progress' = progress
    PROVE  ProgressShown'
BY DEF ProgressShown, To, TypeOK

-----------------------------------------------------------------------------
THEOREM InitOK == Init => IInv
<1> SUFFICES ASSUME Init PROVE IInv  OBVIOUS
<1>1. TypeOK  BY DEF Init, TypeOK, Phases
<1>2. Holds  BY DEF Init, Holds, Busy
<1>3. Waiting  BY DEF Init, Waiting
<1>4. ProgressShown  BY DEF Init, ProgressShown
<1> QED  BY <1>1, <1>2, <1>3, <1>4 DEF IInv

(* The queue stays a sequence of calls when its first job starts.          *)
LEMMA Popped ==
    ASSUME TypeOK, queue # << >>
    PROVE  /\ Head(queue) \in Scans /\ Tail(queue) \in Seq(Scans)
           /\ Len(queue) \in Nat \ {0} /\ Head(queue) = queue[1]
           /\ Len(Tail(queue)) = Len(queue) - 1
           /\ \A i \in 1..Len(Tail(queue)) : Tail(queue)[i] = queue[i + 1]
BY HeadTailProperties, EmptySeq DEF TypeOK

(* The number of paths of a scan is a number.                              *)
LEMMA PathsOK == ASSUME NEW s PROVE Paths(s) \subseteq Nat
BY ScanCoordinatorAssumption DEF Paths

(* Every step keeps the types.                                             *)
LEMMA TypeStep == TypeOK /\ [Next]_vars => TypeOK'
<1> SUFFICES ASSUME TypeOK, [Next]_vars PROVE TypeOK'  OBVIOUS
<1> USE DEF TypeOK, Phases
<1>1. CASE UNCHANGED vars  BY <1>1 DEF vars
<1>2. CASE CancelAll  BY <1>2 DEF CancelAll
<1>3. ASSUME NEW s \in Scans, Ask(s) \/ Acquire(s) \/ AlreadyLocked(s) \/ NoScanner(s)
      PROVE  TypeOK'
    BY <1>3 DEF Ask, Acquire, AlreadyLocked, NoScanner, To
<1>4. ASSUME NEW s \in Scans, Accept(s) PROVE TypeOK'
  <2>1. pathsLeft' \in Nat  BY <1>4, PathsOK DEF Accept
  <2>2. queue' = queue \/ queue' = Append(queue, s)  BY <1>4 DEF Accept
  <2>5. queue \in Seq(Scans) /\ Append(queue, s) \in Seq(Scans)
    <3>1. queue \in Seq(Scans)  OBVIOUS
    <3> QED  BY <3>1, AppendProperties
  <2>4. queue' \in Seq(Scans)  BY <2>2, <2>5
  <2>3. running' \in Scans \cup {NoScan} /\ phase' \in [Scans -> Phases]
      BY <1>4 DEF Accept, To
  <2> QED  BY <1>4, <2>1, <2>3, <2>4 DEF Accept, Show
<1>5. ASSUME NEW s \in Scans,
             BeginWalk(s) \/ WalkCompletes(s) \/ WalkStopsEarly(s) \/ Saved(s) \/ PathEnds(s)
      PROVE  TypeOK'
    BY <1>5 DEF BeginWalk, WalkCompletes, WalkStopsEarly, Saved, PathEnds, To, Show, CutShort
<1>6. ASSUME NEW s \in Scans, WalkThrows(s) \/ JobThrows(s) \/ Collected(s) \/ LastPath(s)
      PROVE  TypeOK'
    BY <1>6 DEF WalkThrows, JobThrows, Collected, LastPath, Release, To, Show, CutShort
<1>7. ASSUME NEW s \in Scans, BeginPath(s) PROVE TypeOK'
  <2>1. pathsLeft' \in Nat  BY <1>7 DEF BeginPath
  <2> QED  BY <1>7, <2>1 DEF BeginPath, To, Show
<1>8. ASSUME NEW s \in Scans, NextJob(s) PROVE TypeOK'
  <2>1. CASE queue = << >>  BY <1>8, <2>1 DEF NextJob, To
  <2>2. CASE queue # << >>
    <3>1. pathsLeft' \in Nat  BY <1>8, <2>2, PathsOK DEF NextJob
    <3>2. running' \in Scans /\ queue' \in Seq(Scans)  BY <1>8, <2>2, Popped DEF NextJob
    <3>3. phase' \in [Scans -> Phases]  BY <1>8, <2>2 DEF NextJob
    <3> QED  BY <1>8, <3>1, <3>2, <3>3 DEF NextJob
  <2> QED  BY <2>1, <2>2
<1>9. ASSUME NEW s \in Scans, Settle(s) PROVE TypeOK'
    BY <1>9 DEF Settle, To
<1> QED  BY <1>1, <1>2, <1>3, <1>4, <1>5, <1>6, <1>7, <1>8, <1>9 DEF Next, Job

-----------------------------------------------------------------------------
(* Every step keeps the locks, the queue and what is shown.                *)

(* The calls themselves. *)
LEMMA CallStep ==
    ASSUME IInv, NEW s \in Scans,
           Ask(s) \/ Acquire(s) \/ AlreadyLocked(s) \/ NoScanner(s)
    PROVE  Holds' /\ Waiting' /\ ProgressShown'
<1> USE DEF IInv
<1>1. PICK p \in Phases : /\ To(s, p) /\ p \notin {"queued", "walking"}
                          /\ phase[s] \notin {"queued", "walking"}
    BY DEF Ask, Acquire, AlreadyLocked, NoScanner, Phases
<1>2. target' = target /\ queue' = queue /\ progress' = progress
    BY DEF Ask, Acquire, AlreadyLocked, NoScanner
<1>3. ProgressShown'  BY <1>1, <1>2, Keeps
<1>4. Waiting'
  <2> SUFFICES ASSUME NEW i \in 1..Len(queue) PROVE phase'[queue[i]] = "queued"
      BY <1>2 DEF Waiting
  <2>1. phase[queue[i]] = "queued" /\ queue[i] \in Scans  BY DEF Waiting, TypeOK
  <2> QED  BY <1>1, <2>1 DEF To, TypeOK
<1>5. Holds'
  <2> SUFFICES ASSUME NEW q \in Scans, Busy(q)' PROVE lock'[target[q]] = q
      BY <1>2 DEF Holds
  <2>1. CASE Acquire(s)
    <3>1. CASE q = s  BY <2>1, <3>1 DEF Acquire, TypeOK
    <3>2. CASE q # s
      <4>1. Busy(q)  BY <2>1, <3>2 DEF Acquire, Busy, To, TypeOK
      <4>2. lock[target[q]] = q  BY <4>1 DEF Holds
      <4>3. target[q] # target[s]
          BY <2>1, <4>2, ScanCoordinatorAssumption DEF Acquire
      <4> QED  BY <2>1, <4>2, <4>3 DEF Acquire, TypeOK
    <3> QED  BY <3>1, <3>2
  <2>2. CASE Ask(s) \/ AlreadyLocked(s) \/ NoScanner(s)
    <3>1. Busy(q)  BY <2>2 DEF Ask, AlreadyLocked, NoScanner, Busy, To, TypeOK
    <3> QED  BY <2>2, <3>1 DEF Holds, Ask, AlreadyLocked, NoScanner
  <2> QED  BY <2>1, <2>2
<1> QED  BY <1>3, <1>4, <1>5

(* A job enters the queue, or starts at once. *)
LEMMA AcceptStep ==
    ASSUME IInv, NEW s \in Scans, Accept(s)
    PROVE  Holds' /\ Waiting' /\ ProgressShown'
<1> USE DEF IInv
<1>1. Busy(s) /\ phase[s] = "locked"  BY DEF Accept, Busy
<1>2. PICK p \in {"queued", "scanning"} : To(s, p)  BY DEF Accept
<1>3. target' = target /\ lock' = lock  BY DEF Accept
<1>4. ProgressShown'
    BY <1>1, <1>2, <1>3, Shows DEF Accept, Show, Phases
<1>5. Holds'
  <2> SUFFICES ASSUME NEW q \in Scans, Busy(q)' PROVE lock[target[q]] = q
      BY <1>3 DEF Holds
  <2>1. Busy(q)  BY <1>1, <1>2 DEF Busy, To, TypeOK
  <2> QED  BY <2>1 DEF Holds
<1>6. CASE running = NoScan
  <2>1. queue' = queue /\ To(s, "scanning")  BY <1>6 DEF Accept
  <2>2. "scanning" \in Phases  BY DEF Phases
  <2>3. Waiting'  BY <1>1, <1>3, <2>1, <2>2, Moves
  <2> QED  BY <1>4, <1>5, <2>3
<1>7. CASE running # NoScan
  <2>1. queue' = Append(queue, s) /\ To(s, "queued")  BY <1>7 DEF Accept
  <2>2. /\ Len(queue') = Len(queue) + 1 /\ Len(queue) \in Nat
        /\ queue'[Len(queue) + 1] = s
        /\ \A i \in 1..Len(queue) : queue'[i] = queue[i] /\ queue[i] \in Scans
      BY <2>1 DEF TypeOK
  <2>3. \A i \in 1..Len(queue) : queue[i] # s  BY <1>1 DEF Waiting
  <2>4. \A q \in Scans : phase'[q] = IF q = s THEN "queued" ELSE phase[q]
      BY <2>1 DEF To, TypeOK
  <2>5. ASSUME NEW i \in 1..Len(queue') PROVE phase'[queue'[i]] = "queued"
    <3>1. i \in 1..Len(queue) \/ i = Len(queue) + 1  BY <2>2
    <3> QED  BY <2>2, <2>4, <3>1 DEF Waiting
  <2>6. ASSUME NEW i \in 1..Len(queue'), NEW j \in 1..Len(queue'), queue'[i] = queue'[j]
        PROVE  i = j
    <3>1. i \in 1..Len(queue) \/ i = Len(queue) + 1  BY <2>2
    <3>2. j \in 1..Len(queue) \/ j = Len(queue) + 1  BY <2>2
    <3> QED  BY <2>2, <2>3, <2>6, <3>1, <3>2 DEF Waiting
  <2>7. Waiting'  BY <2>5, <2>6 DEF Waiting
  <2> QED  BY <1>4, <1>5, <2>7
<1> QED  BY <1>6, <1>7

(* A job goes on. *)
LEMMA WalkStep ==
    ASSUME IInv, NEW s \in Scans,
           \/ BeginWalk(s) \/ WalkCompletes(s) \/ WalkStopsEarly(s) \/ Saved(s)
           \/ BeginPath(s) \/ PathEnds(s)
    PROVE  Holds' /\ Waiting' /\ ProgressShown'
<1> USE DEF IInv
<1>1. Busy(s) /\ phase[s] # "queued"
    BY DEF BeginWalk, WalkCompletes, WalkStopsEarly, Saved, BeginPath, PathEnds, Busy
<1>2. target' = target /\ lock' = lock /\ queue' = queue
    BY DEF BeginWalk, WalkCompletes, WalkStopsEarly, Saved, BeginPath, PathEnds
<1>3. PICK p \in {"walking", "saving", "collecting"} : To(s, p)
    BY DEF BeginWalk, WalkCompletes, WalkStopsEarly, Saved, BeginPath, PathEnds
<1>4. p \in Phases /\ p # "queued"  BY DEF Phases
<1>5. Holds' /\ Waiting'  BY <1>1, <1>2, <1>3, <1>4, Moves
<1>6. ProgressShown'
  <2>1. CASE BeginWalk(s) \/ BeginPath(s)
    <3>1. To(s, "walking") /\ progress' = [progress EXCEPT ![target[s]] = "in_progress"]
        BY <2>1 DEF BeginWalk, BeginPath, Show
    <3>2. "walking" \in Phases  BY DEF Phases
    <3> QED  BY <1>1, <1>2, <3>1, <3>2, Shows
  <2>2. CASE WalkCompletes(s) \/ PathEnds(s)
    <3>1. To(s, "saving") /\ progress' = [progress EXCEPT ![target[s]] = "not_scanning"]
        BY <2>2 DEF WalkCompletes, PathEnds, Show
    <3>2. "saving" \in Phases  BY DEF Phases
    <3> QED  BY <1>1, <1>2, <3>1, <3>2, Shows
  <2>3. CASE WalkStopsEarly(s)
    <3>1. To(s, "saving") /\ progress' = [progress EXCEPT ![target[s]] = CutShort(s)]
        BY <2>3 DEF WalkStopsEarly, Show
    <3>2. "saving" \in Phases  BY DEF Phases
    <3> QED  BY <1>1, <1>2, <3>1, <3>2, Shows
  <2>4. CASE Saved(s)
    <3>1. To(s, "collecting") /\ progress' = progress  BY <2>4 DEF Saved
    <3>2. "collecting" \in Phases  BY DEF Phases
    <3> QED  BY <1>2, <3>1, <3>2, Keeps
  <2> QED  BY <2>1, <2>2, <2>3, <2>4
<1> QED  BY <1>5, <1>6

(* A job ends. *)
LEMMA EndStep ==
    ASSUME IInv, NEW s \in Scans,
           WalkThrows(s) \/ JobThrows(s) \/ Collected(s) \/ LastPath(s)
    PROVE  Holds' /\ Waiting' /\ ProgressShown'
<1> USE DEF IInv
<1>1. Busy(s) /\ phase[s] # "queued"
    BY DEF WalkThrows, JobThrows, Collected, LastPath, Busy
<1>2. Release(s)  BY DEF WalkThrows, JobThrows, Collected, LastPath
<1>3. Holds' /\ Waiting'  BY <1>1, <1>2, Releases
<1>4. To(s, "released") /\ target' = target /\ "released" \in Phases
    BY <1>2 DEF Release, Phases
<1>5. ProgressShown'
  <2>1. CASE WalkThrows(s)
    <3>1. progress' = [progress EXCEPT ![target[s]] = CutShort(s)]
        BY <2>1 DEF WalkThrows, Show
    <3> QED  BY <1>1, <1>4, <3>1, Shows
  <2>2. CASE JobThrows(s) \/ Collected(s) \/ LastPath(s)
    <3>1. progress' = progress  BY <2>2 DEF JobThrows, Collected, LastPath
    <3> QED  BY <1>4, <3>1, Keeps
  <2> QED  BY <2>1, <2>2
<1> QED  BY <1>3, <1>5

(* The queue goes on. *)
LEMMA NextJobStep ==
    ASSUME IInv, NEW s \in Scans, NextJob(s)
    PROVE  Holds' /\ Waiting' /\ ProgressShown'
<1> USE DEF IInv
<1>1. phase[s] = "released" /\ target' = target /\ lock' = lock /\ progress' = progress
    BY DEF NextJob
<1>2. CASE queue = << >>
  <2>1. To(s, "settling") /\ queue' = queue  BY <1>2 DEF NextJob
  <2>2. \A q \in Scans : phase'[q] = IF q = s THEN "settling" ELSE phase[q]
      BY <2>1 DEF To, TypeOK
  <2>3. ProgressShown'  BY <1>1, <2>2 DEF ProgressShown
  <2>4. Holds'  BY <1>1, <2>2 DEF Holds, Busy
  <2>5. Waiting'  BY <1>2, <2>1 DEF Waiting
  <2> QED  BY <2>3, <2>4, <2>5
<1>3. CASE queue # << >>
  <2> DEFINE h == Head(queue)
  <2>1. queue' = Tail(queue)
      /\ phase' = [phase EXCEPT ![s] = "settling", ![h] = "scanning"]
      BY <1>3 DEF NextJob
  <2>2. /\ h \in Scans /\ Len(queue) \in Nat \ {0} /\ h = queue[1]
        /\ Len(Tail(queue)) = Len(queue) - 1
        /\ \A i \in 1..Len(Tail(queue)) : Tail(queue)[i] = queue[i + 1]
      BY <1>3, Popped
  <2>3. 1 \in 1..Len(queue)  BY <2>2
  <2>4. phase[h] = "queued" /\ h # s  BY <1>1, <2>2, <2>3 DEF Waiting
  <2> HIDE DEF h
  <2>5. \A q \in Scans : phase'[q] = IF q = h THEN "scanning"
                                     ELSE IF q = s THEN "settling" ELSE phase[q]
      BY <2>1, <2>2, <2>4 DEF TypeOK
  <2>6. ProgressShown'  BY <1>1, <2>5 DEF ProgressShown
  <2>7. Holds'
    <3>1. Busy(h)  BY <2>4 DEF Busy
    <3> QED  BY <1>1, <2>5, <3>1 DEF Holds, Busy
  <2>8. ASSUME NEW i \in 1..Len(Tail(queue))
        PROVE  i + 1 \in 1..Len(queue) /\ i + 1 # 1
      BY <2>2
  <2>9. ASSUME NEW i \in 1..Len(Tail(queue)) PROVE phase'[Tail(queue)[i]] = "queued"
    <3>1. Tail(queue)[i] = queue[i + 1]  BY <2>2
    <3>2. phase[queue[i + 1]] = "queued" /\ queue[i + 1] # h /\ queue[i + 1] \in Scans
        BY <2>2, <2>3, <2>8 DEF Waiting, TypeOK
    <3> QED  BY <1>1, <2>5, <3>1, <3>2
  <2>10. ASSUME NEW i \in 1..Len(Tail(queue)), NEW j \in 1..Len(Tail(queue)),
                Tail(queue)[i] = Tail(queue)[j]
         PROVE  i = j
    <3>1. queue[i + 1] = queue[j + 1]  BY <2>2, <2>10
    <3>2. i + 1 = j + 1  BY <2>8, <3>1 DEF Waiting
    <3> QED  BY <2>2, <3>2
  <2>11. Waiting'  BY <2>1, <2>9, <2>10 DEF Waiting
  <2> QED  BY <2>6, <2>7, <2>11
<1> QED  BY <1>2, <1>3

(* The last finally, and a cancellation, change none of it. *)
LEMMA SettleStep ==
    ASSUME IInv, NEW s \in Scans, Settle(s)
    PROVE  Holds' /\ Waiting' /\ ProgressShown'
<1> USE DEF IInv
<1>1. /\ phase[s] = "settling" /\ target' = target /\ lock' = lock /\ progress' = progress
      /\ queue' = queue /\ To(s, "done")
    BY DEF Settle
<1>2. \A q \in Scans : phase'[q] = IF q = s THEN "done" ELSE phase[q]
    BY <1>1 DEF To, TypeOK
<1>3. \A i \in 1..Len(queue) : queue[i] \in Scans  BY DEF TypeOK
<1>4. Waiting'  BY <1>1, <1>2, <1>3 DEF Waiting
<1>5. Holds'  BY <1>1, <1>2 DEF Holds, Busy
<1>6. ProgressShown'  BY <1>1, <1>2 DEF ProgressShown
<1> QED  BY <1>4, <1>5, <1>6

THEOREM Inductive == IInv /\ [Next]_vars => IInv'
<1> SUFFICES ASSUME IInv, [Next]_vars PROVE IInv'  OBVIOUS
<1>1. TypeOK'  BY TypeStep DEF IInv
<1>2. CASE UNCHANGED vars
    BY <1>1, <1>2 DEF IInv, Holds, Waiting, ProgressShown, Busy, vars
<1>3. CASE CancelAll
    BY <1>1, <1>3 DEF IInv, Holds, Waiting, ProgressShown, Busy, CancelAll
<1>4. ASSUME NEW s \in Scans, Ask(s) \/ Job(s) PROVE Holds' /\ Waiting' /\ ProgressShown'
    BY <1>4, CallStep, AcceptStep, WalkStep, EndStep, NextJobStep, SettleStep DEF Job
<1> QED  BY <1>1, <1>2, <1>3, <1>4 DEF IInv, Next

(* The invariant holds of every behaviour.                                 *)
THEOREM Invariant == Spec => []IInv
BY InitOK, Inductive, PTL DEF Spec

(* Types: in every behaviour each part of the coordinator's state is of    *)
(* its type.                                                               *)
THEOREM TypeCorrect == Spec => []TypeOK
<1>1. IInv => TypeOK  BY DEF IInv
<1> QED  BY <1>1, Invariant, PTL

(* No library or local source is ever queued or scanned twice at a time,   *)
(* whoever asks and in whatever order.                                     *)
THEOREM ScansExclude == Spec => []OneScanPerTarget
<1>1. IInv => OneScanPerTarget
    BY DEF IInv, Holds, OneScanPerTarget
<1> QED  BY <1>1, Invariant, PTL

(* What is reported of a target's scan is about the scan that is under     *)
(* way, never about one that is still being cleaned up after.              *)
THEOREM ProgressIsOfTheScan == Spec => []ProgressShown
<1>1. IInv => ProgressShown  BY DEF IInv
<1> QED  BY <1>1, Invariant, PTL
-----------------------------------------------------------------------------
(* The line. *)

(* The running job is the one at work, or the one that has been and has    *)
(* not yet made room; nothing waits for a job that does not run.           *)
Runs ==
    /\ \A s \in Scans : AtWork(s) \/ phase[s] = "released" <=> s = running
    /\ running = NoScan => queue = << >>

TheLine    == IF running = NoScan THEN << >> ELSE <<running>> \o queue
TheWorking == {s \in Scans : AtWork(s)}

(* The line as a sequence: the running job, then the queue.                *)
LEMMA LineIs ==
    ASSUME TypeOK, Runs
    PROVE  /\ TheLine \in Seq(Scans)
           /\ running = NoScan <=> TheLine = << >>
           /\ running # NoScan =>
                /\ Head(TheLine) = running /\ Tail(TheLine) = queue
                /\ Len(TheLine) = Len(queue) + 1
                /\ TheLine[1] = running
                /\ \A i \in 1..Len(queue) : TheLine[i + 1] = queue[i]
<1>1. CASE running = NoScan
    BY <1>1 DEF TheLine
<1>2. CASE running # NoScan
  <2>1. running \in Scans /\ queue \in Seq(Scans)
      BY <1>2 DEF TypeOK
  <2>2. TheLine = <<running>> \o queue  BY <1>2 DEF TheLine
  <2>3. TheLine \in Seq(Scans) /\ Len(TheLine) = Len(queue) + 1 /\ TheLine[1] = running
      BY <2>1, <2>2
  <2>4. ASSUME NEW i \in 1..Len(queue) PROVE TheLine[i + 1] = queue[i]
      BY <2>1, <2>2
  <2>5. TheLine # << >> /\ Head(TheLine) = running /\ Tail(TheLine) = queue
      BY <2>1, <2>2
  <2> QED  BY <1>2, <2>3, <2>4, <2>5
<1> QED  BY <1>1, <1>2

(* Who is at work: the running job, if it has not released its lock.       *)
LEMMA WorkingIs ==
    ASSUME TypeOK, Runs
    PROVE  TheWorking = {s \in {running} \cap Scans : AtWork(s)}
BY DEF Runs, TheWorking

(* A call that is none of the running and the waiting jobs is not in line. *)
LEMMA NotInLine ==
    ASSUME TypeOK, Waiting, Runs, NEW s \in Scans,
           ~AtWork(s), phase[s] \notin {"released", "queued"}
    PROVE  \A i \in 1..Len(TheLine) : TheLine[i] # s
<1>1. s # running  BY DEF Runs
<1>2. \A i \in 1..Len(queue) : queue[i] # s  BY DEF Waiting
<1>3. CASE running = NoScan  BY <1>3 DEF TheLine
<1>4. CASE running # NoScan
  <2>1. /\ Len(TheLine) = Len(queue) + 1 /\ TheLine[1] = running
        /\ \A j \in 1..Len(queue) : TheLine[j + 1] = queue[j]
      BY <1>4, LineIs
  <2>2. Len(queue) \in Nat  BY DEF TypeOK
  <2>3. \A j \in 1..Len(queue) : TheLine[j + 1] # s  BY <1>2, <2>1
  <2>4. ASSUME NEW i \in 1..(Len(queue) + 1) PROVE TheLine[i] # s
    <3>1. CASE i = 1  BY <1>1, <2>1, <3>1
    <3>2. CASE i # 1
      <4>1. PICK j \in 1..Len(queue) : i = j + 1
        <5>1. i - 1 \in 1..Len(queue) /\ i = (i - 1) + 1  BY <2>2, <3>2
        <5> QED  BY <5>1, Zenon
      <4> QED  BY <2>3, <4>1, Zenon
    <3> QED  BY <3>1, <3>2
  <2> QED  BY <2>1, <2>4, Zenon
<1> QED  BY <1>3, <1>4


(* A call goes from one phase to another on the same side of the running   *)
(* job.                                                                    *)
Active == {"scanning", "walking", "saving", "collecting", "released"}

LEMMA SameRun ==
    ASSUME TypeOK, Runs, NEW s \in Scans, NEW p \in Phases, To(s, p),
           phase[s] \in Active <=> p \in Active,
           running' = running, queue' = queue
    PROVE  Runs'
<1> SUFFICES ASSUME NEW q \in Scans
             PROVE  AtWork(q)' \/ phase'[q] = "released" <=> q = running
    BY DEF Runs
<1>1. AtWork(q) \/ phase[q] = "released" <=> q = running  BY DEF Runs
<1>2. CASE q = s  BY <1>1, <1>2 DEF To, TypeOK, AtWork, Active
<1>3. CASE q # s  BY <1>1, <1>3 DEF To, TypeOK, AtWork
<1> QED  BY <1>2, <1>3

LEMMA RunsStep ==
    ASSUME IInv, Runs, NEW s \in Scans, Ask(s) \/ Job(s)
    PROVE  Runs'
<1> USE DEF IInv
<1>1. CASE \/ Ask(s) \/ Acquire(s) \/ AlreadyLocked(s) \/ NoScanner(s) \/ Settle(s)
  <2>1. PICK p \in Phases : To(s, p) /\ p \notin Active
      BY <1>1 DEF Ask, Acquire, AlreadyLocked, NoScanner, Settle, Phases, Active
  <2>2. phase[s] \notin Active /\ running' = running /\ queue' = queue
      BY <1>1 DEF Ask, Acquire, AlreadyLocked, NoScanner, Settle, Active
  <2> QED  BY <2>1, <2>2, SameRun
<1>2. CASE \/ BeginWalk(s) \/ WalkCompletes(s) \/ WalkStopsEarly(s) \/ Saved(s)
           \/ BeginPath(s) \/ PathEnds(s)
  <2>1. PICK p \in Phases : To(s, p) /\ p \in Active
      BY <1>2 DEF BeginWalk, WalkCompletes, WalkStopsEarly, Saved, BeginPath, PathEnds, Phases, Active
  <2>2. phase[s] \in Active /\ running' = running /\ queue' = queue
      BY <1>2 DEF BeginWalk, WalkCompletes, WalkStopsEarly, Saved, BeginPath, PathEnds, Active
  <2> QED  BY <2>1, <2>2, SameRun
<1>3. CASE WalkThrows(s) \/ JobThrows(s) \/ Collected(s) \/ LastPath(s)
  <2>1. Release(s) /\ phase[s] \in Active
      BY <1>3 DEF WalkThrows, JobThrows, Collected, LastPath, Active
  <2>2. "released" \in Phases /\ "released" \in Active  BY DEF Phases, Active
  <2> QED  BY <2>1, <2>2, SameRun DEF Release
<1>4. CASE Accept(s)
  <2>1. phase[s] = "locked" /\ s # NoScan
      BY <1>4, ScanCoordinatorAssumption DEF Accept
  <2>2. CASE running = NoScan
    <3>1. running' = s /\ queue' = queue /\ To(s, "scanning")
        BY <1>4, <2>2 DEF Accept
    <3>2. \A q \in Scans : ~AtWork(q) /\ phase[q] # "released"
        BY <2>2, ScanCoordinatorAssumption DEF Runs
    <3>3. \A q \in Scans : phase'[q] = IF q = s THEN "scanning" ELSE phase[q]
        BY <3>1 DEF To, TypeOK
    <3>4. ASSUME NEW q \in Scans
          PROVE  AtWork(q)' \/ phase'[q] = "released" <=> q = s
        BY <3>2, <3>3 DEF AtWork
    <3> QED  BY <2>1, <3>1, <3>4 DEF Runs
  <2>3. CASE running # NoScan
    <3>1. running' = running /\ To(s, "queued")
        BY <1>4, <2>3 DEF Accept
    <3> QED  BY <2>1, <2>3, <3>1 DEF Runs, To, TypeOK, AtWork
  <2> QED  BY <2>2, <2>3
<1>5. CASE NextJob(s)
  <2>1. phase[s] = "released" /\ s = running  BY <1>5 DEF NextJob, Runs
  <2>2. CASE queue = << >>
    <3>1. running' = NoScan /\ queue' = queue /\ To(s, "settling")
        BY <1>5, <2>2 DEF NextJob
    <3>2. \A q \in Scans : q # NoScan  BY ScanCoordinatorAssumption
    <3> QED  BY <2>1, <2>2, <3>1, <3>2 DEF Runs, To, TypeOK, AtWork
  <2>3. CASE queue # << >>
    <3> DEFINE h == Head(queue)
    <3>1. /\ running' = h
          /\ phase' = [phase EXCEPT ![s] = "settling", ![h] = "scanning"]
        BY <1>5, <2>3 DEF NextJob
    <3>2. h \in Scans /\ h = queue[1] /\ 1 \in 1..Len(queue)  BY <2>3, Popped
    <3>3. phase[h] = "queued" /\ h # NoScan
        BY <3>2, ScanCoordinatorAssumption DEF Waiting
    <3> HIDE DEF h
    <3>4. \A q \in Scans : phase'[q] = IF q = h THEN "scanning"
                                       ELSE IF q = s THEN "settling" ELSE phase[q]
        BY <3>1, <3>2 DEF TypeOK
    <3>5. ASSUME NEW q \in Scans
          PROVE  AtWork(q)' \/ phase'[q] = "released" <=> q = h
      <4>1. AtWork(q) \/ phase[q] = "released" <=> q = s  BY <2>1 DEF Runs
      <4> QED  BY <3>4, <4>1 DEF AtWork
    <3> QED  BY <3>1, <3>3, <3>5 DEF Runs
  <2> QED  BY <2>2, <2>3
<1> QED  BY <1>1, <1>2, <1>3, <1>4, <1>5 DEF Job

THEOREM LineInvariant == Spec => [](IInv /\ Runs)
<1>1. Init => Runs  BY ScanCoordinatorAssumption DEF Init, Runs, AtWork
<1>2. IInv /\ Runs /\ [Next]_vars => Runs'
  <2> SUFFICES ASSUME IInv, Runs, [Next]_vars PROVE Runs'  OBVIOUS
  <2>1. CASE UNCHANGED vars  BY <2>1 DEF vars, Runs, AtWork
  <2>2. CASE CancelAll  BY <2>2 DEF CancelAll, Runs, AtWork
  <2>3. CASE \E s \in Scans : Ask(s) \/ Job(s)  BY <2>3, RunsStep
  <2> QED  BY <2>1, <2>2, <2>3 DEF Next
<1> QED  BY <1>1, <1>2, InitOK, Inductive, PTL DEF Spec


-----------------------------------------------------------------------------
(* The coordinator serves the line. *)

LEMMA SameLine ==
    ASSUME UNCHANGED <<target, lock, queue, running>>, TheWorking' = TheWorking
    PROVE  UNCHANGED Line!vars
BY DEF Line!vars, TheWorking

LEMMA SameWork ==
    ASSUME TypeOK, NEW s \in Scans, NEW p \in Phases, To(s, p),
           AtWork(s) <=> p \in Active \ {"released"}
    PROVE  TheWorking' = TheWorking
<1>1. ASSUME NEW q \in Scans PROVE AtWork(q)' <=> AtWork(q)
  <2>1. CASE q = s  BY <2>1 DEF To, TypeOK, AtWork, Active
  <2>2. CASE q # s  BY <2>2 DEF To, TypeOK, AtWork
  <2> QED  BY <2>1, <2>2
<1> QED  BY <1>1 DEF TheWorking

(* Steps that the line does not show. *)
LEMMA UnseenStep ==
    ASSUME IInv, NEW s \in Scans,
           \/ Ask(s) \/ AlreadyLocked(s) \/ NoScanner(s) \/ Settle(s)
           \/ BeginWalk(s) \/ WalkCompletes(s) \/ WalkStopsEarly(s) \/ Saved(s)
           \/ BeginPath(s) \/ PathEnds(s)
    PROVE  UNCHANGED Line!vars
<1> USE DEF IInv
<1>1. UNCHANGED <<target, lock, queue, running>>
    BY DEF Ask, AlreadyLocked, NoScanner, Settle, BeginWalk, WalkCompletes, WalkStopsEarly,
           Saved, BeginPath, PathEnds
<1>2. PICK p \in Phases : To(s, p) /\ (AtWork(s) <=> p \in Active \ {"released"})
    BY DEF Ask, AlreadyLocked, NoScanner, Settle, BeginWalk, WalkCompletes, WalkStopsEarly,
           Saved, BeginPath, PathEnds, AtWork, Active, Phases
<1> QED  BY <1>1, <1>2, SameWork, SameLine

LEMMA TakeStep ==
    ASSUME IInv, NEW s \in Scans, Acquire(s)
    PROVE  Line!Take(s)
<1>1. TheWorking' = TheWorking
  <2>1. To(s, "locked") /\ ~AtWork(s) /\ "locked" \in Phases /\ "locked" \notin Active
      BY DEF Acquire, AtWork, Phases, Active
  <2> QED  BY <2>1, SameWork DEF IInv
<1> QED  BY <1>1 DEF Acquire, Line!Take, TheWorking

LEMMA JoinStep ==
    ASSUME IInv, Runs, NEW s \in Scans, Accept(s)
    PROVE  Line!Join(s)
<1> USE DEF IInv
<1>1. phase[s] = "locked" /\ UNCHANGED <<target, lock>>
    BY DEF Accept
<1>2. lock[target[s]] = s  BY <1>1 DEF Holds, Busy
<1>3. \A i \in 1..Len(TheLine) : TheLine[i] # s
    BY <1>1, NotInLine DEF AtWork
<1>4. s # NoScan /\ queue \in Seq(Scans)
    BY ScanCoordinatorAssumption DEF TypeOK
<1>5. TheLine' = Append(TheLine, s) /\ TheWorking' = IF TheLine = << >> THEN {s} ELSE TheWorking
  <2>1. CASE running = NoScan
    <3>1. running' = s /\ queue' = << >> /\ To(s, "scanning") /\ TheLine = << >>
        BY <2>1 DEF Accept, Runs, TheLine
    <3>2. TheLine' = <<s>>
        BY <1>4, <3>1 DEF TheLine
    <3>3. \A q \in Scans : AtWork(q)' <=> q = s
      <4>1. \A q \in Scans : ~AtWork(q)  BY <2>1, ScanCoordinatorAssumption DEF Runs
      <4>2. \A q \in Scans : phase'[q] = IF q = s THEN "scanning" ELSE phase[q]
          BY <3>1 DEF To, TypeOK
      <4> QED  BY <4>1, <4>2 DEF AtWork
    <3>4. TheWorking' = {s}  BY <3>3 DEF TheWorking
    <3> QED  BY <3>1, <3>2, <3>4
  <2>2. CASE running # NoScan
    <3>1. running' = running /\ queue' = Append(queue, s) /\ To(s, "queued")
        BY <2>2 DEF Accept
    <3>2. TheLine' = Append(TheLine, s)
      <4>1. running \in Scans /\ <<running>> \in Seq(Scans) /\ <<s>> \in Seq(Scans)
          BY <2>2 DEF TypeOK
      <4>2. Append(queue, s) = queue \o <<s>> /\ Append(<<running>> \o queue, s) = (<<running>> \o queue) \o <<s>>
          BY <1>4, <4>1
      <4>3. <<running>> \o (queue \o <<s>>) = (<<running>> \o queue) \o <<s>>
          BY <1>4, <4>1, ConcatAssociative
      <4> QED  BY <2>2, <3>1, <4>2, <4>3 DEF TheLine
    <3>3. TheWorking' = TheWorking
      <4>1. ~AtWork(s) /\ "queued" \in Phases /\ "queued" \notin Active
          BY <1>1 DEF AtWork, Phases, Active
      <4> QED  BY <3>1, <4>1, SameWork
    <3>4. TheLine # << >>  BY <2>2, LineIs
    <3> QED  BY <3>2, <3>3, <3>4
  <2> QED  BY <2>1, <2>2
<1> QED  BY <1>1, <1>2, <1>3, <1>5 DEF Line!Join, Line!InLine, TheLine, TheWorking

LEMMA HandBackStep ==
    ASSUME IInv, Runs, NEW s \in Scans,
           WalkThrows(s) \/ JobThrows(s) \/ Collected(s) \/ LastPath(s)
    PROVE  Line!HandBack(s)
<1> USE DEF IInv
<1>1. AtWork(s) /\ Busy(s) /\ Release(s)
    BY DEF WalkThrows, JobThrows, Collected, LastPath, AtWork, Busy
<1>2. running = s /\ s # NoScan
    BY <1>1, ScanCoordinatorAssumption DEF Runs
<1>3. TheLine # << >> /\ Head(TheLine) = s
    BY <1>2, LineIs
<1>4. TheWorking = {s}
    BY <1>1, <1>2, WorkingIs
<1>5. TheWorking' = {}
  <2>1. \A q \in Scans : AtWork(q) => q = s  BY <1>2 DEF Runs
  <2>2. \A q \in Scans : phase'[q] = IF q = s THEN "released" ELSE phase[q]
      BY <1>1 DEF Release, To, TypeOK
  <2>3. \A q \in Scans : ~AtWork(q)'
      BY <2>1, <2>2 DEF AtWork
  <2> QED  BY <2>3 DEF TheWorking
<1>6. lock[target[s]] = s  BY <1>1 DEF Holds
<1> QED  BY <1>1, <1>3, <1>4, <1>5, <1>6 DEF Line!HandBack, Release, TheLine, TheWorking

LEMMA AdvanceStep ==
    ASSUME IInv, Runs, NEW s \in Scans, NextJob(s)
    PROVE  Line!Advance
<1> USE DEF IInv
<1>1. phase[s] = "released" /\ running = s /\ s # NoScan /\ UNCHANGED <<target, lock>>
    BY ScanCoordinatorAssumption DEF NextJob, Runs
<1>2. \A q \in Scans : ~AtWork(q)
    BY <1>1 DEF Runs, AtWork
<1>3. TheWorking = {}  BY <1>2 DEF TheWorking
<1>4. TheLine # << >> /\ Tail(TheLine) = queue  BY <1>1, LineIs
<1>5. TheLine' = queue /\ TheWorking' = IF queue = << >> THEN {} ELSE {Head(queue)}
  <2>1. CASE queue = << >>
    <3>1. running' = NoScan /\ To(s, "settling")  BY <2>1 DEF NextJob
    <3>2. \A q \in Scans : phase'[q] = IF q = s THEN "settling" ELSE phase[q]
        BY <3>1 DEF To, TypeOK
    <3>3. \A q \in Scans : ~AtWork(q)'  BY <1>2, <3>2 DEF AtWork
    <3> QED  BY <2>1, <3>1, <3>3 DEF TheLine, TheWorking
  <2>2. CASE queue # << >>
    <3> DEFINE h == Head(queue)
    <3>1. /\ running' = h /\ queue' = Tail(queue)
          /\ phase' = [phase EXCEPT ![s] = "settling", ![h] = "scanning"]
        BY <2>2 DEF NextJob
    <3>2. h \in Scans /\ h # NoScan
        BY <2>2, Popped, ScanCoordinatorAssumption
    <3>3. <<h>> \o Tail(queue) = queue
        BY <2>2, HeadTailProperties DEF TypeOK
    <3> HIDE DEF h
    <3>4. \A q \in Scans : phase'[q] = IF q = h THEN "scanning"
                                       ELSE IF q = s THEN "settling" ELSE phase[q]
        BY <3>1, <3>2 DEF TypeOK
    <3>5. \A q \in Scans : AtWork(q)' <=> q = h
        BY <1>2, <3>4 DEF AtWork
    <3>6. TheWorking' = {h}  BY <3>2, <3>5 DEF TheWorking
    <3>7. TheLine' = queue  BY <3>1, <3>2, <3>3 DEF TheLine
    <3> QED  BY <2>2, <3>6, <3>7 DEF h
  <2> QED  BY <2>1, <2>2
<1> QED  BY <1>1, <1>3, <1>4, <1>5 DEF Line!Advance, TheLine, TheWorking

(* Scans are served one at a time and in the order they were accepted; a   *)
(* scan holds its own target from before it is accepted until it is over,  *)
(* whichever way it ends, and the next begins only after that.             *)
THEOREM ServesTheLine == Spec => ServedInTurn
<1>1. Init => Line!Init
    BY DEF Init, Line!Init, AtWork
<1>2. IInv /\ Runs /\ [Next]_vars => [Line!Next]_(Line!vars)
  <2> SUFFICES ASSUME IInv, Runs, [Next]_vars PROVE [Line!Next]_(Line!vars)  OBVIOUS
  <2>1. CASE UNCHANGED vars \/ CancelAll
    <3>1. UNCHANGED <<target, lock, queue, running, phase>>  BY <2>1 DEF vars, CancelAll
    <3>2. TheWorking' = TheWorking  BY <3>1 DEF TheWorking, AtWork
    <3> QED  BY <3>1, <3>2, SameLine
  <2>2. ASSUME NEW s \in Scans, Ask(s) \/ Job(s) PROVE [Line!Next]_(Line!vars)
      BY <2>2, UnseenStep, TakeStep, JoinStep, HandBackStep, AdvanceStep DEF Job, Line!Next
  <2> QED  BY <2>1, <2>2 DEF Next
<1> QED  BY <1>1, <1>2, LineInvariant, PTL DEF Spec, ServedInTurn, Line!Spec

=============================================================================
