-------------------------- MODULE HlsTranscodeProofs --------------------------
(***************************************************************************)
(* Theorems about HlsTranscode, for every number of loops, processes and   *)
(* calls: the types, that a run() loop waits for exactly one process that  *)
(* is still to exit, and that a failed session, and a started session      *)
(* without a loop, is always about to be stopped.                          *)
(***************************************************************************)
EXTENDS HlsTranscode, TLAPS

Calls == {"start", "stop"}

HasStop(q) == \E i \in 1..Len(q) : q[i] = "stop"
HasLoop    == \E l \in Loops : loop[l] # "off"

(* The holder of the lock is the call its phase belongs to.                *)
LockShape ==
    /\ phase \in {"clearing", "ready"} => calls # <<>> /\ Head(calls) = "start"
    /\ phase = "stopping" => calls # <<>> /\ Head(calls) = "stop"

(* #currentSession has not exited.                                         *)
CurrentAlive == current # None => Alive(current)

(* While readiness is awaited the loop goes on, or a stop() waits.         *)
ReadyHasLoop ==
    phase = "ready" =>
        /\ state \in {"started", "error"}
        /\ crashed \/ HasLoop \/ HasStop(calls)

IInv ==
    /\ TypeOK /\ LockShape /\ CurrentAlive /\ AwaitedOnce
    /\ ErrorIsStopped /\ StartedHasLoop /\ ReadyHasLoop

-----------------------------------------------------------------------------
(* Queues of calls. *)

LEMMA WithStopFacts ==
    ASSUME NEW q \in Seq(Calls)
    PROVE  /\ WithStop(q) \in Seq(Calls)
           /\ HasStop(WithStop(q))
           /\ q # <<>> => WithStop(q) # <<>> /\ Head(WithStop(q)) = Head(q)
<1>1. CASE WithStop(q) = q /\ q # <<>> /\ q[Len(q)] = "stop"
  <2>1. Len(q) \in 1..Len(q)
    BY <1>1
  <2> QED
    BY <1>1, <2>1 DEF HasStop
<1>2. CASE WithStop(q) = Append(q, "stop")
  <2>1. Append(q, "stop") \in Seq(Calls) /\ Append(q, "stop") # <<>>
    BY DEF Calls
  <2>2. Len(Append(q, "stop")) \in 1..Len(Append(q, "stop"))
    BY <2>1
  <2>3. Append(q, "stop")[Len(Append(q, "stop"))] = "stop"
    OBVIOUS
  <2>4. q # <<>> => Head(Append(q, "stop")) = Head(q)
    OBVIOUS
  <2> QED
    BY <1>2, <2>1, <2>2, <2>3, <2>4 DEF HasStop
<1> QED
  BY <1>1, <1>2 DEF WithStop

LEMMA AppendFacts ==
    ASSUME NEW q \in Seq(Calls), NEW c \in Calls
    PROVE  /\ Append(q, c) \in Seq(Calls)
           /\ HasStop(q) => HasStop(Append(q, c))
           /\ q # <<>> => Append(q, c) # <<>> /\ Head(Append(q, c)) = Head(q)
<1>1. ASSUME NEW i \in 1..Len(q), q[i] = "stop"
      PROVE  i \in 1..Len(Append(q, c)) /\ Append(q, c)[i] = "stop"
  BY <1>1
<1> QED
  BY <1>1 DEF HasStop

LEMMA TailFacts ==
    ASSUME NEW q \in Seq(Calls), q # <<>>
    PROVE  /\ Tail(q) \in Seq(Calls)
           /\ HasStop(q) /\ Head(q) = "start" => HasStop(Tail(q))
<1>1. ASSUME NEW i \in 1..Len(q), q[i] = "stop", Head(q) = "start"
      PROVE  i - 1 \in 1..Len(Tail(q)) /\ Tail(q)[i - 1] = "stop"
  BY <1>1
<1> QED
  BY <1>1 DEF HasStop

-----------------------------------------------------------------------------
(* The inductive step, one conjunct of IInv at a time. *)

(* Records of processes. *)
LEMMA ProcessFacts ==
    /\ NoProc \in Process
    /\ \A s \in {"running", "dying"}, b \in Loops \cup {None}, h, e \in BOOLEAN :
          [st |-> s, by |-> b, heard |-> h, hadError |-> e] \in Process
    /\ \A h \in BOOLEAN :
          [st |-> "creating", by |-> None, heard |-> h, hadError |-> TRUE] \in Process
    /\ \A r \in Process :
          /\ r.heard \in BOOLEAN /\ r.hadError \in BOOLEAN /\ r.by \in Loops \cup {None}
          /\ r.st \in {"free", "creating", "running", "dying"}
          /\ r.st # "free" => [r EXCEPT !.st = "running"] \in Process
          /\ r.st \in {"running", "dying"} => [r EXCEPT !.st = "dying"] \in Process
          /\ r.st \in {"free", "creating"} => r.by = None
<1>1. ASSUME NEW r \in Process PROVE
          /\ r.heard \in BOOLEAN /\ r.hadError \in BOOLEAN /\ r.by \in Loops \cup {None}
          /\ r.st \in {"free", "creating", "running", "dying"}
          /\ r.st # "free" => [r EXCEPT !.st = "running"] \in Process
          /\ r.st \in {"running", "dying"} => [r EXCEPT !.st = "dying"] \in Process
          /\ r.st \in {"free", "creating"} => r.by = None
  <2>1. CASE r = NoProc
    BY <2>1 DEF NoProc
  <2>2. CASE r \in [st : {"running", "dying"}, by : Loops \cup {None}, heard : BOOLEAN, hadError : BOOLEAN]
    BY <2>2 DEF Process
  <2>3. CASE r \in [st : {"creating"}, by : {None}, heard : BOOLEAN, hadError : {TRUE}]
    BY <2>3 DEF Process
  <2> QED
    BY <2>1, <2>2, <2>3 DEF Process
<1> QED
  BY <1>1 DEF Process

LEMMA ProcUpdate ==
    ASSUME NEW f \in [Procs -> Process], NEW p \in Procs, NEW r \in Process
    PROVE  [f EXCEPT ![p] = r] \in [Procs -> Process]
OBVIOUS

LEMMA StepCases ==
    ASSUME [Next]_vars
    PROVE  \/ StartBegin
           \/ StopBegin
           \/ StartInternal
           \/ StartFails
           \/ BecomesReady
           \/ ReadinessFails
           \/ Stopped
           \/ \E l \in Loops : LoopTop(l)
           \/ \E l \in Loops : NothingToPlay(l)
           \/ \E l \in Loops : RunRejects(l)
           \/ \E l \in Loops : Play(l)
           \/ \E l \in Loops : SetupFails(l)
           \/ \E l \in Loops : FallbackFails(l)
           \/ \E l \in Loops : RetryPlays(l)
           \/ \E l \in Loops : RetryFails(l)
           \/ \E p \in Procs : ExitsQuietly(p)
           \/ \E p \in Procs : FirstError(p)
           \/ \E p \in Procs : SecondError(p)
           \/ \E p \in Procs : ErrorStreamStarts(p)
           \/ \E p \in Procs : ErrorStreamFails(p)
           \/ \E c \in Calls : Request(c)
           \/ UNCHANGED vars
BY DEF Next, LockHolderStep, LoopStep, ProcStep, Calls

(* Types. *)
LEMMA TypeStep ==
    ASSUME IInv, [Next]_vars
    PROVE  TypeOK'
<1> USE DEF IInv, TypeOK, LockShape, CurrentAlive, Alive, lockVars
<1>1. CASE StartBegin
  BY <1>1, TailFacts DEF StartBegin, Calls
<1>2. CASE StopBegin
  <2>1. proc' \in [Procs -> Process]
    <3>1. CASE current # None /\ proc' = [proc EXCEPT ![current].st = "dying"]
      <4>1. current \in Procs /\ proc[current] \in Process /\ proc[current].st \in {"running", "dying"}
        BY <3>1
      <4>2. proc' = [proc EXCEPT ![current] = [proc[current] EXCEPT !.st = "dying"]]
        BY <3>1
      <4> QED
        BY <4>1, <4>2, ProcessFacts, ProcUpdate, Zenon
    <3>2. CASE proc' = proc
      BY <3>2
    <3> QED
      BY <1>2, <3>1, <3>2 DEF StopBegin
  <2> QED
    BY <1>2, <2>1, TailFacts DEF StopBegin, Calls
<1>3. CASE StartInternal
  BY <1>3 DEF StartInternal
<1>4. CASE StartFails
  BY <1>4, TailFacts, WithStopFacts DEF StartFails, Fail, Calls
<1>5. CASE BecomesReady
  BY <1>5, TailFacts DEF BecomesReady, Calls
<1>6. CASE ReadinessFails
  BY <1>6, TailFacts, WithStopFacts DEF ReadinessFails, Calls
<1>7. CASE Stopped
  BY <1>7, TailFacts DEF Stopped, Calls
<1>8. ASSUME NEW l \in Loops, LoopTop(l) PROVE TypeOK'
  BY <1>8, WithStopFacts DEF LoopTop, Calls
<1>9. ASSUME NEW l \in Loops, NothingToPlay(l) PROVE TypeOK'
  BY <1>9 DEF NothingToPlay, GoesOn
<1>10. ASSUME NEW l \in Loops, RunRejects(l) PROVE TypeOK'
  BY <1>10 DEF RunRejects, ReturnsFrom
<1>11. ASSUME NEW l \in Loops, Play(l) PROVE TypeOK'
  <2>1. PICK p \in Procs :
             /\ proc' = [proc EXCEPT ![p] = [st |-> "running", by |-> l,
                                           heard |-> loop[l] = "setup", hadError |-> FALSE]]
             /\ current' = p
    BY <1>11 DEF Play
  <2>2. [st |-> "running", by |-> l, heard |-> loop[l] = "setup", hadError |-> FALSE] \in Process
    BY ProcessFacts
  <2>3. proc' \in [Procs -> Process]
    BY <2>1, <2>2, ProcUpdate, Zenon
  <2> QED
    BY <1>11, <2>1, <2>3 DEF Play
<1>12. ASSUME NEW l \in Loops, SetupFails(l) PROVE TypeOK'
  BY <1>12 DEF SetupFails
<1>13. ASSUME NEW l \in Loops, FallbackFails(l) PROVE TypeOK'
  BY <1>13, WithStopFacts DEF FallbackFails, Fail, Calls
<1>14. ASSUME NEW l \in Loops, RetryPlays(l) PROVE TypeOK'
  <2>1. PICK p \in Procs :
             proc' = [proc EXCEPT ![p] = [st |-> "running", by |-> l,
                                          heard |-> FALSE, hadError |-> FALSE]]
    BY <1>14 DEF RetryPlays
  <2>2. [st |-> "running", by |-> l, heard |-> FALSE, hadError |-> FALSE] \in Process
    BY ProcessFacts
  <2>3. proc' \in [Procs -> Process]
    BY <2>1, <2>2, ProcUpdate, Zenon
  <2> QED
    BY <1>14, <2>3 DEF RetryPlays
<1>15. ASSUME NEW l \in Loops, RetryFails(l) PROVE TypeOK'
  BY <1>15 DEF RetryFails
<1>16. ASSUME NEW p \in Procs, ExitsQuietly(p) PROVE TypeOK'
  BY <1>16, ProcessFacts DEF ExitsQuietly, Exits, Resumed, Ended
<1>17. ASSUME NEW p \in Procs, FirstError(p) PROVE TypeOK'
  <2>1. [st |-> "creating", by |-> None, heard |-> proc[p].heard, hadError |-> TRUE] \in Process
    BY ProcessFacts
  <2>2. proc' \in [Procs -> Process]
    BY <1>17, <2>1, ProcUpdate, Zenon DEF FirstError
  <2> QED
    BY <1>17, <2>2 DEF FirstError, Exits, Resumed
<1>18. ASSUME NEW p \in Procs, SecondError(p) PROVE TypeOK'
  BY <1>18, WithStopFacts, ProcessFacts DEF SecondError, Exits, Resumed, Ended, Fail, Calls
<1>19. ASSUME NEW p \in Procs, ErrorStreamStarts(p) PROVE TypeOK'
  <2>1. proc' = [proc EXCEPT ![p] = [proc[p] EXCEPT !.st = "running"]] /\ proc[p] \in Process
    BY <1>19 DEF ErrorStreamStarts
  <2>2. proc' \in [Procs -> Process]
    BY <1>19, <2>1, ProcessFacts, ProcUpdate DEF ErrorStreamStarts
  <2> QED
    BY <1>19, <2>2 DEF ErrorStreamStarts
<1>20. ASSUME NEW p \in Procs, ErrorStreamFails(p) PROVE TypeOK'
  BY <1>20, ProcessFacts DEF ErrorStreamFails
<1>21. ASSUME NEW c \in Calls, Request(c) PROVE TypeOK'
  BY <1>21, AppendFacts, WithStopFacts DEF Request, Calls
<1>22. CASE UNCHANGED vars
  BY <1>22 DEF vars, lockVars
<1> QED
  BY <1>1, <1>2, <1>3, <1>4, <1>5, <1>6, <1>7, <1>8, <1>9, <1>10, <1>11, <1>12, <1>13, <1>14, <1>15, <1>16, <1>17, <1>18, <1>19, <1>20, <1>21, <1>22, StepCases

(* A loop and its process. *)

IsAlive(r) == r.st \in {"running", "dying"}

(* AwaitedOnce, of any loops and processes.                                *)
Awaited(lp, pr) ==
    /\ \A l \in Loops : lp[l] = "playing" => \E p \in Procs : IsAlive(pr[p]) /\ pr[p].by = l
    /\ \A p \in Procs : pr[p].by # None =>
          /\ lp[pr[p].by] = "playing"
          /\ \A q \in Procs : pr[q].by = pr[p].by => q = p

LEMMA AwaitedSame ==
    ASSUME NEW lp, NEW pr, NEW lp2, NEW pr2, Awaited(lp, pr),
           \A l \in Loops : lp2[l] = "playing" <=> lp[l] = "playing",
           \A p \in Procs : pr[p].by # None => pr[p].by \in Loops,
           \A p \in Procs : pr2[p].by = pr[p].by,
           \A p \in Procs : pr[p].by # None /\ IsAlive(pr[p]) => IsAlive(pr2[p])
    PROVE  Awaited(lp2, pr2)
<1>1. ASSUME NEW l \in Loops, lp2[l] = "playing"
      PROVE  \E p \in Procs : IsAlive(pr2[p]) /\ pr2[p].by = l
  <2>1. PICK p \in Procs : IsAlive(pr[p]) /\ pr[p].by = l
    BY <1>1 DEF Awaited
  <2> QED
    BY <2>1, TranscodeAssumption
<1>2. ASSUME NEW p \in Procs, pr2[p].by # None
      PROVE  lp2[pr2[p].by] = "playing" /\ \A q \in Procs : pr2[q].by = pr2[p].by => q = p
  BY <1>2 DEF Awaited
<1> QED
  BY <1>1, <1>2 DEF Awaited

LEMMA AwaitedBegins ==
    ASSUME NEW lp, NEW pr, NEW lp2, NEW pr2, NEW l \in Loops, NEW p \in Procs, Awaited(lp, pr),
           lp[l] # "playing", lp2[l] = "playing", \A m \in Loops : m # l => lp2[m] = lp[m],
           \A q \in Procs : pr[q].by # None => pr[q].by \in Loops,
           pr[p].by = None, pr2[p].by = l, IsAlive(pr2[p]),
           \A q \in Procs : q # p => pr2[q] = pr[q]
    PROVE  Awaited(lp2, pr2)
<1>1. ASSUME NEW m \in Loops, lp2[m] = "playing"
      PROVE  \E q \in Procs : IsAlive(pr2[q]) /\ pr2[q].by = m
  <2>1. CASE m = l
    BY <2>1
  <2>2. CASE m # l
    <3>1. PICK q \in Procs : IsAlive(pr[q]) /\ pr[q].by = m
      BY <1>1, <2>2 DEF Awaited
    <3> QED
      BY <3>1, TranscodeAssumption
  <2> QED
    BY <2>1, <2>2
<1>2. ASSUME NEW q \in Procs, pr2[q].by # None
      PROVE  lp2[pr2[q].by] = "playing" /\ \A r \in Procs : pr2[r].by = pr2[q].by => r = q
  BY <1>2, TranscodeAssumption DEF Awaited
<1> QED
  BY <1>1, <1>2 DEF Awaited

LEMMA AwaitedEnds ==
    ASSUME NEW lp, NEW pr, NEW lp2, NEW pr2, NEW p \in Procs, Awaited(lp, pr),
           \A m \in Loops : lp2[m] = IF m = pr[p].by THEN "top" ELSE lp[m],
           \A q \in Procs : pr[q].by # None => pr[q].by \in Loops,
           pr2[p].by = None,
           \A q \in Procs : q # p => pr2[q] = pr[q]
    PROVE  Awaited(lp2, pr2)
<1>1. ASSUME NEW m \in Loops, lp2[m] = "playing"
      PROVE  \E q \in Procs : IsAlive(pr2[q]) /\ pr2[q].by = m
  <2>1. lp[m] = "playing" /\ m # pr[p].by
    BY <1>1
  <2>2. PICK q \in Procs : IsAlive(pr[q]) /\ pr[q].by = m
    BY <2>1 DEF Awaited
  <2> QED
    BY <2>1, <2>2
<1>2. ASSUME NEW q \in Procs, pr2[q].by # None
      PROVE  lp2[pr2[q].by] = "playing" /\ \A r \in Procs : pr2[r].by = pr2[q].by => r = q
  <2>1. q # p /\ pr2[q] = pr[q] /\ pr[q].by \in Loops
    BY <1>2
  <2>2. pr[q].by # pr[p].by
    BY <2>1, <1>2 DEF Awaited
  <2> QED
    BY <1>2, <2>1, <2>2 DEF Awaited
<1> QED
  BY <1>1, <1>2 DEF Awaited

(* What stop() kills: a process that has not exited.                       *)
LEMMA Killed ==
    ASSUME IInv, StopBegin
    PROVE  /\ loop' = loop /\ current' = current
           /\ \/ proc' = proc
              \/ /\ current \in Procs /\ Alive(current)
                 /\ proc' = [proc EXCEPT ![current] = [proc[current] EXCEPT !.st = "dying"]]
<1>1. CASE current = None
  BY <1>1 DEF StopBegin
<1>2. CASE current # None /\ proc' # proc
  <2>1. current \in Procs /\ Alive(current)
    BY <1>2 DEF IInv, TypeOK, CurrentAlive
  <2>2. proc' = [proc EXCEPT ![current].st = "dying"]
    BY <1>2 DEF StopBegin
  <2>3. proc' = [proc EXCEPT ![current] = [proc[current] EXCEPT !.st = "dying"]]
    BY <2>1, <2>2 DEF IInv, TypeOK
  <2> QED
    BY <2>1, <2>3 DEF StopBegin
<1> QED
  BY <1>1, <1>2 DEF StopBegin

LEMMA AwaitedIs == (AwaitedOnce <=> Awaited(loop, proc)) /\ (AwaitedOnce' <=> Awaited(loop', proc'))
BY DEF AwaitedOnce, Awaited, Alive, IsAlive

LEMMA ByLoops ==
    ASSUME TypeOK
    PROVE  \A p \in Procs : proc[p].by # None => proc[p].by \in Loops
BY ProcessFacts DEF TypeOK
LEMMA AwaitedStep ==
    ASSUME IInv, [Next]_vars
    PROVE  AwaitedOnce'
<1> USE DEF IInv, TypeOK, TranscodeAssumption, lockVars
<1>1. CASE StartBegin
  <2>1. \A l \in Loops : loop'[l] = "playing" <=> loop[l] = "playing"
    BY <1>1 DEF StartBegin
  <2>2. \A q \in Procs : proc'[q].by = proc[q].by /\ (proc[q].by # None /\ IsAlive(proc[q]) => IsAlive(proc'[q]))
    BY <1>1 DEF StartBegin, IsAlive
  <2> QED
    BY <2>1, <2>2, AwaitedSame, AwaitedIs, ByLoops
<1>2. CASE StopBegin
  <2>1. \A l \in Loops : loop'[l] = "playing" <=> loop[l] = "playing"
    BY <1>2 DEF StopBegin
  <2>2. \A q \in Procs : proc'[q].by = proc[q].by /\ (IsAlive(proc[q]) => IsAlive(proc'[q]))
    <3>1. CASE proc' = proc
      BY <3>1
    <3>2. CASE /\ current \in Procs /\ Alive(current)
               /\ proc' = [proc EXCEPT ![current] = [proc[current] EXCEPT !.st = "dying"]]
      <4>1. proc[current] \in Process /\ proc[current] # NoProc
        BY <3>2 DEF Alive, NoProc
      <4>2. /\ proc'[current].by = proc[current].by /\ proc'[current].st = "dying"
            /\ \A q \in Procs : q # current => proc'[q] = proc[q]
        BY <3>2, <4>1 DEF Process
      <4> QED
        BY <4>2 DEF IsAlive
    <3> QED
      BY <1>2, <3>1, <3>2, Killed
  <2> QED
    BY <2>1, <2>2, AwaitedSame, AwaitedIs, ByLoops
<1>3. CASE StartInternal
  <2>1. \A l \in Loops : loop'[l] = "playing" <=> loop[l] = "playing"
    BY <1>3 DEF StartInternal
  <2>2. \A q \in Procs : proc'[q].by = proc[q].by /\ (proc[q].by # None /\ IsAlive(proc[q]) => IsAlive(proc'[q]))
    BY <1>3 DEF StartInternal, IsAlive
  <2> QED
    BY <2>1, <2>2, AwaitedSame, AwaitedIs, ByLoops
<1>4. CASE StartFails
  <2>1. \A l \in Loops : loop'[l] = "playing" <=> loop[l] = "playing"
    BY <1>4 DEF StartFails
  <2>2. \A q \in Procs : proc'[q].by = proc[q].by /\ (proc[q].by # None /\ IsAlive(proc[q]) => IsAlive(proc'[q]))
    BY <1>4 DEF StartFails, IsAlive
  <2> QED
    BY <2>1, <2>2, AwaitedSame, AwaitedIs, ByLoops
<1>5. CASE BecomesReady
  <2>1. \A l \in Loops : loop'[l] = "playing" <=> loop[l] = "playing"
    BY <1>5 DEF BecomesReady
  <2>2. \A q \in Procs : proc'[q].by = proc[q].by /\ (proc[q].by # None /\ IsAlive(proc[q]) => IsAlive(proc'[q]))
    BY <1>5 DEF BecomesReady, IsAlive
  <2> QED
    BY <2>1, <2>2, AwaitedSame, AwaitedIs, ByLoops
<1>6. CASE ReadinessFails
  <2>1. \A l \in Loops : loop'[l] = "playing" <=> loop[l] = "playing"
    BY <1>6 DEF ReadinessFails
  <2>2. \A q \in Procs : proc'[q].by = proc[q].by /\ (proc[q].by # None /\ IsAlive(proc[q]) => IsAlive(proc'[q]))
    BY <1>6 DEF ReadinessFails, IsAlive
  <2> QED
    BY <2>1, <2>2, AwaitedSame, AwaitedIs, ByLoops
<1>7. CASE Stopped
  <2>1. \A l \in Loops : loop'[l] = "playing" <=> loop[l] = "playing"
    BY <1>7 DEF Stopped
  <2>2. \A q \in Procs : proc'[q].by = proc[q].by /\ (proc[q].by # None /\ IsAlive(proc[q]) => IsAlive(proc'[q]))
    BY <1>7 DEF Stopped, IsAlive
  <2> QED
    BY <2>1, <2>2, AwaitedSame, AwaitedIs, ByLoops
<1>8. ASSUME NEW l \in Loops, LoopTop(l) PROVE AwaitedOnce'
  <2>1. \A m \in Loops : loop'[m] = "playing" <=> loop[m] = "playing"
    BY <1>8 DEF LoopTop
  <2>2. \A q \in Procs : proc'[q].by = proc[q].by /\ (proc[q].by # None /\ IsAlive(proc[q]) => IsAlive(proc'[q]))
    BY <1>8 DEF LoopTop, IsAlive
  <2> QED
    BY <2>1, <2>2, AwaitedSame, AwaitedIs, ByLoops
<1>9. ASSUME NEW l \in Loops, NothingToPlay(l) PROVE AwaitedOnce'
  <2>1. \A m \in Loops : loop'[m] = "playing" <=> loop[m] = "playing"
    BY <1>9 DEF NothingToPlay, GoesOn
  <2>2. \A q \in Procs : proc'[q].by = proc[q].by /\ (proc[q].by # None /\ IsAlive(proc[q]) => IsAlive(proc'[q]))
    BY <1>9 DEF NothingToPlay, IsAlive
  <2> QED
    BY <2>1, <2>2, AwaitedSame, AwaitedIs, ByLoops
<1>10. ASSUME NEW l \in Loops, RunRejects(l) PROVE AwaitedOnce'
  <2>1. \A m \in Loops : loop'[m] = "playing" <=> loop[m] = "playing"
    BY <1>10 DEF RunRejects, ReturnsFrom
  <2>2. \A q \in Procs : proc'[q].by = proc[q].by /\ (proc[q].by # None /\ IsAlive(proc[q]) => IsAlive(proc'[q]))
    BY <1>10 DEF RunRejects, IsAlive
  <2> QED
    BY <2>1, <2>2, AwaitedSame, AwaitedIs, ByLoops
<1>11. ASSUME NEW l \in Loops, Play(l) PROVE AwaitedOnce'
  <2>1. PICK p \in Procs :
             /\ proc[p] = NoProc
             /\ proc' = [proc EXCEPT ![p] = [st |-> "running", by |-> l,
                                           heard |-> loop[l] = "setup", hadError |-> FALSE]]
    BY <1>11 DEF Play
  <2>2. proc'[p].by = l /\ IsAlive(proc'[p]) /\ \A q \in Procs : q # p => proc'[q] = proc[q]
    BY <2>1 DEF IsAlive
  <2>3. loop'[l] = "playing" /\ loop[l] # "playing" /\ \A m \in Loops : m # l => loop'[m] = loop[m]
    BY <1>11 DEF Play
  <2>4. proc[p].by = None
    BY <2>1 DEF NoProc
  <2> QED
    BY <2>2, <2>3, <2>4, AwaitedBegins, AwaitedIs, ByLoops
<1>12. ASSUME NEW l \in Loops, SetupFails(l) PROVE AwaitedOnce'
  <2>1. \A m \in Loops : loop'[m] = "playing" <=> loop[m] = "playing"
    BY <1>12 DEF SetupFails
  <2>2. \A q \in Procs : proc'[q].by = proc[q].by /\ (proc[q].by # None /\ IsAlive(proc[q]) => IsAlive(proc'[q]))
    BY <1>12 DEF SetupFails, IsAlive
  <2> QED
    BY <2>1, <2>2, AwaitedSame, AwaitedIs, ByLoops
<1>13. ASSUME NEW l \in Loops, FallbackFails(l) PROVE AwaitedOnce'
  <2>1. \A m \in Loops : loop'[m] = "playing" <=> loop[m] = "playing"
    BY <1>13 DEF FallbackFails
  <2>2. \A q \in Procs : proc'[q].by = proc[q].by /\ (proc[q].by # None /\ IsAlive(proc[q]) => IsAlive(proc'[q]))
    BY <1>13 DEF FallbackFails, IsAlive
  <2> QED
    BY <2>1, <2>2, AwaitedSame, AwaitedIs, ByLoops
<1>14. ASSUME NEW l \in Loops, RetryPlays(l) PROVE AwaitedOnce'
  <2>1. PICK p \in Procs :
             /\ proc[p] = NoProc
             /\ proc' = [proc EXCEPT ![p] = [st |-> "running", by |-> l,
                                           heard |-> FALSE, hadError |-> FALSE]]
    BY <1>14 DEF RetryPlays
  <2>2. proc'[p].by = l /\ IsAlive(proc'[p]) /\ \A q \in Procs : q # p => proc'[q] = proc[q]
    BY <2>1 DEF IsAlive
  <2>3. loop'[l] = "playing" /\ loop[l] # "playing" /\ \A m \in Loops : m # l => loop'[m] = loop[m]
    BY <1>14 DEF RetryPlays
  <2>4. proc[p].by = None
    BY <2>1 DEF NoProc
  <2> QED
    BY <2>2, <2>3, <2>4, AwaitedBegins, AwaitedIs, ByLoops
<1>15. ASSUME NEW l \in Loops, RetryFails(l) PROVE AwaitedOnce'
  <2>1. \A m \in Loops : loop'[m] = "playing" <=> loop[m] = "playing"
    BY <1>15 DEF RetryFails
  <2>2. \A q \in Procs : proc'[q].by = proc[q].by /\ (proc[q].by # None /\ IsAlive(proc[q]) => IsAlive(proc'[q]))
    BY <1>15 DEF RetryFails, IsAlive
  <2> QED
    BY <2>1, <2>2, AwaitedSame, AwaitedIs, ByLoops
<1>16. ASSUME NEW p \in Procs, ExitsQuietly(p) PROVE AwaitedOnce'
  <2>1. proc'[p].by = None /\ \A q \in Procs : q # p => proc'[q] = proc[q]
    BY <1>16 DEF ExitsQuietly, Ended, NoProc
  <2>2. \A l \in Loops : loop'[l] = IF l = proc[p].by THEN "top" ELSE loop[l]
    BY <1>16 DEF ExitsQuietly, Exits, Resumed
  <2> QED
    BY <2>1, <2>2, AwaitedEnds, AwaitedIs, ByLoops
<1>17. ASSUME NEW p \in Procs, FirstError(p) PROVE AwaitedOnce'
  <2>1. proc'[p].by = None /\ \A q \in Procs : q # p => proc'[q] = proc[q]
    BY <1>17 DEF FirstError, Ended, NoProc
  <2>2. \A l \in Loops : loop'[l] = IF l = proc[p].by THEN "top" ELSE loop[l]
    BY <1>17 DEF FirstError, Exits, Resumed
  <2> QED
    BY <2>1, <2>2, AwaitedEnds, AwaitedIs, ByLoops
<1>18. ASSUME NEW p \in Procs, SecondError(p) PROVE AwaitedOnce'
  <2>1. proc'[p].by = None /\ \A q \in Procs : q # p => proc'[q] = proc[q]
    BY <1>18 DEF SecondError, Ended, NoProc
  <2>2. \A l \in Loops : loop'[l] = IF l = proc[p].by THEN "top" ELSE loop[l]
    BY <1>18 DEF SecondError, Exits, Resumed
  <2> QED
    BY <2>1, <2>2, AwaitedEnds, AwaitedIs, ByLoops
<1>19. ASSUME NEW p \in Procs, ErrorStreamStarts(p) PROVE AwaitedOnce'
  <2>1. proc[p] \in Process /\ proc[p].st = "creating"
    BY <1>19 DEF ErrorStreamStarts
  <2>2. proc[p].by = None /\ proc'[p].by = None
    <3>1. proc[p].by = None
      BY <2>1, ProcessFacts
    <3>2. proc' = [proc EXCEPT ![p] = [proc[p] EXCEPT !.st = "running"]]
      BY <1>19 DEF ErrorStreamStarts
    <3>3. proc[p] \in [st : {"creating"}, by : {None}, heard : BOOLEAN, hadError : {TRUE}]
      <4>1. proc[p] # NoProc
        BY <2>1 DEF NoProc
      <4> QED
        BY <2>1, <4>1 DEF Process
    <3> QED
      BY <3>1, <3>2, <3>3
  <2>3. loop' = loop /\ \A q \in Procs : q # p => proc'[q] = proc[q]
    BY <1>19 DEF ErrorStreamStarts
  <2> QED
    BY <2>2, <2>3, AwaitedSame, AwaitedIs, ByLoops
<1>20. ASSUME NEW p \in Procs, ErrorStreamFails(p) PROVE AwaitedOnce'
  <2>1. proc[p] \in Process /\ proc[p].st = "creating"
    BY <1>20 DEF ErrorStreamFails
  <2>2. proc[p].by = None /\ proc'[p].by = None
    BY <1>20, <2>1, ProcessFacts DEF ErrorStreamFails, NoProc
  <2>3. loop' = loop /\ \A q \in Procs : q # p => proc'[q] = proc[q]
    BY <1>20 DEF ErrorStreamFails
  <2> QED
    BY <2>2, <2>3, AwaitedSame, AwaitedIs, ByLoops
<1>21. ASSUME NEW c \in Calls, Request(c) PROVE AwaitedOnce'
  <2>1. \A l \in Loops : loop'[l] = "playing" <=> loop[l] = "playing"
    BY <1>21 DEF Request
  <2>2. \A q \in Procs : proc'[q].by = proc[q].by /\ (proc[q].by # None /\ IsAlive(proc[q]) => IsAlive(proc'[q]))
    BY <1>21 DEF Request, IsAlive
  <2> QED
    BY <2>1, <2>2, AwaitedSame, AwaitedIs, ByLoops
<1>22. CASE UNCHANGED vars
  BY <1>22 DEF vars, AwaitedOnce, Alive
<1> QED
  BY <1>1, <1>2, <1>3, <1>4, <1>5, <1>6, <1>7, <1>8, <1>9, <1>10, <1>11, <1>12, <1>13, <1>14, <1>15, <1>16, <1>17, <1>18, <1>19, <1>20, <1>21, <1>22, StepCases

LEMMA CurrentStep ==
    ASSUME IInv, [Next]_vars
    PROVE  CurrentAlive'
<1> USE DEF IInv, TypeOK, TranscodeAssumption, lockVars
<1>1. CASE StartBegin
  BY <1>1 DEF StartBegin, CurrentAlive, Alive
<1>2. CASE StopBegin
  <2>1. CASE current # None
    <3>1. current \in Procs /\ proc[current].st \in {"running", "dying"}
      BY <2>1 DEF CurrentAlive, Alive
    <3>2. current' = current /\ proc'[current].st \in {"running", "dying"}
      <4>1. CASE proc' = proc
        BY <1>2, <4>1, <3>1, Killed
      <4>2. CASE proc' = [proc EXCEPT ![current] = [proc[current] EXCEPT !.st = "dying"]]
        <5>1. proc[current] \in [st : {"running", "dying"}, by : Loops \cup {None}, heard : BOOLEAN, hadError : BOOLEAN]
          <6>1. proc[current] \in Process /\ proc[current] # NoProc
            BY <3>1 DEF NoProc
          <6> QED
            BY <3>1, <6>1 DEF Process
        <5> QED
          BY <1>2, <4>2, <5>1, <3>1, Killed
      <4> QED
        BY <1>2, <4>1, <4>2, Killed
    <3> QED
      BY <3>2 DEF CurrentAlive, Alive
  <2>2. CASE current = None
    BY <1>2, <2>2 DEF StopBegin, CurrentAlive
  <2> QED
    BY <2>1, <2>2
<1>3. CASE StartInternal
  BY <1>3 DEF StartInternal, CurrentAlive, Alive
<1>4. CASE StartFails
  BY <1>4 DEF StartFails, CurrentAlive, Alive
<1>5. CASE BecomesReady
  BY <1>5 DEF BecomesReady, CurrentAlive, Alive
<1>6. CASE ReadinessFails
  BY <1>6 DEF ReadinessFails, CurrentAlive, Alive
<1>7. CASE Stopped
  BY <1>7 DEF Stopped, CurrentAlive, Alive
<1>8. ASSUME NEW l \in Loops, LoopTop(l) PROVE CurrentAlive'
  BY <1>8 DEF LoopTop, CurrentAlive, Alive
<1>9. ASSUME NEW l \in Loops, NothingToPlay(l) PROVE CurrentAlive'
  BY <1>9 DEF NothingToPlay, CurrentAlive, Alive
<1>10. ASSUME NEW l \in Loops, RunRejects(l) PROVE CurrentAlive'
  BY <1>10 DEF RunRejects, CurrentAlive, Alive
<1>11. ASSUME NEW l \in Loops, Play(l) PROVE CurrentAlive'
  BY <1>11 DEF Play, CurrentAlive, Alive
<1>12. ASSUME NEW l \in Loops, SetupFails(l) PROVE CurrentAlive'
  BY <1>12 DEF SetupFails, CurrentAlive, Alive
<1>13. ASSUME NEW l \in Loops, FallbackFails(l) PROVE CurrentAlive'
  BY <1>13 DEF FallbackFails, CurrentAlive, Alive
<1>14. ASSUME NEW l \in Loops, RetryPlays(l) PROVE CurrentAlive'
  BY <1>14 DEF RetryPlays, CurrentAlive, Alive
<1>15. ASSUME NEW l \in Loops, RetryFails(l) PROVE CurrentAlive'
  BY <1>15 DEF RetryFails, CurrentAlive, Alive
<1>16. ASSUME NEW p \in Procs, ExitsQuietly(p) PROVE CurrentAlive'
  BY <1>16 DEF ExitsQuietly, Exits, CurrentAlive, Alive
<1>17. ASSUME NEW p \in Procs, FirstError(p) PROVE CurrentAlive'
  BY <1>17 DEF FirstError, Exits, CurrentAlive, Alive
<1>18. ASSUME NEW p \in Procs, SecondError(p) PROVE CurrentAlive'
  BY <1>18 DEF SecondError, Exits, CurrentAlive, Alive
<1>19. ASSUME NEW p \in Procs, ErrorStreamStarts(p) PROVE CurrentAlive'
  BY <1>19 DEF ErrorStreamStarts, CurrentAlive, Alive
<1>20. ASSUME NEW p \in Procs, ErrorStreamFails(p) PROVE CurrentAlive'
  BY <1>20 DEF ErrorStreamFails, CurrentAlive, Alive
<1>21. ASSUME NEW c \in Calls, Request(c) PROVE CurrentAlive'
  BY <1>21 DEF Request, CurrentAlive, Alive
<1>22. CASE UNCHANGED vars
  BY <1>22 DEF vars, CurrentAlive, Alive
<1> QED
  BY <1>1, <1>2, <1>3, <1>4, <1>5, <1>6, <1>7, <1>8, <1>9, <1>10, <1>11, <1>12, <1>13, <1>14, <1>15, <1>16, <1>17, <1>18, <1>19, <1>20, <1>21, <1>22, StepCases

(* The lock. *)
LEMMA LockShapeStep ==
    ASSUME IInv, [Next]_vars
    PROVE  LockShape'
<1> USE DEF IInv, TypeOK, lockVars, Calls
<1>1. CASE StartBegin
  BY <1>1, TailFacts, WithStopFacts, AppendFacts DEF StartBegin, LockShape
<1>2. CASE StopBegin
  BY <1>2, TailFacts, WithStopFacts, AppendFacts DEF StopBegin, LockShape
<1>3. CASE StartInternal
  BY <1>3, TailFacts, WithStopFacts, AppendFacts DEF StartInternal, LockShape
<1>4. CASE StartFails
  BY <1>4, TailFacts, WithStopFacts, AppendFacts DEF StartFails, Fail, LockShape
<1>5. CASE BecomesReady
  BY <1>5, TailFacts, WithStopFacts, AppendFacts DEF BecomesReady, LockShape
<1>6. CASE ReadinessFails
  BY <1>6, TailFacts, WithStopFacts, AppendFacts DEF ReadinessFails, LockShape
<1>7. CASE Stopped
  BY <1>7, TailFacts, WithStopFacts, AppendFacts DEF Stopped, LockShape
<1>8. ASSUME NEW l \in Loops, LoopTop(l) PROVE LockShape'
  BY <1>8, TailFacts, WithStopFacts, AppendFacts DEF LoopTop, LockShape
<1>9. ASSUME NEW l \in Loops, NothingToPlay(l) PROVE LockShape'
  BY <1>9, TailFacts, WithStopFacts, AppendFacts DEF NothingToPlay, GoesOn, LockShape
<1>10. ASSUME NEW l \in Loops, RunRejects(l) PROVE LockShape'
  BY <1>10, TailFacts, WithStopFacts, AppendFacts DEF RunRejects, ReturnsFrom, LockShape
<1>11. ASSUME NEW l \in Loops, Play(l) PROVE LockShape'
  BY <1>11, TailFacts, WithStopFacts, AppendFacts DEF Play, LockShape
<1>12. ASSUME NEW l \in Loops, SetupFails(l) PROVE LockShape'
  BY <1>12, TailFacts, WithStopFacts, AppendFacts DEF SetupFails, LockShape
<1>13. ASSUME NEW l \in Loops, FallbackFails(l) PROVE LockShape'
  BY <1>13, TailFacts, WithStopFacts, AppendFacts DEF FallbackFails, Fail, LockShape
<1>14. ASSUME NEW l \in Loops, RetryPlays(l) PROVE LockShape'
  BY <1>14, TailFacts, WithStopFacts, AppendFacts DEF RetryPlays, LockShape
<1>15. ASSUME NEW l \in Loops, RetryFails(l) PROVE LockShape'
  BY <1>15, TailFacts, WithStopFacts, AppendFacts DEF RetryFails, LockShape
<1>16. ASSUME NEW p \in Procs, ExitsQuietly(p) PROVE LockShape'
  BY <1>16, TailFacts, WithStopFacts, AppendFacts DEF ExitsQuietly, Exits, Resumed, LockShape
<1>17. ASSUME NEW p \in Procs, FirstError(p) PROVE LockShape'
  BY <1>17, TailFacts, WithStopFacts, AppendFacts DEF FirstError, Exits, Resumed, LockShape
<1>18. ASSUME NEW p \in Procs, SecondError(p) PROVE LockShape'
  BY <1>18, TailFacts, WithStopFacts, AppendFacts DEF SecondError, Fail, Exits, Resumed, LockShape
<1>19. ASSUME NEW p \in Procs, ErrorStreamStarts(p) PROVE LockShape'
  BY <1>19, TailFacts, WithStopFacts, AppendFacts DEF ErrorStreamStarts, LockShape
<1>20. ASSUME NEW p \in Procs, ErrorStreamFails(p) PROVE LockShape'
  BY <1>20, TailFacts, WithStopFacts, AppendFacts DEF ErrorStreamFails, LockShape
<1>21. ASSUME NEW c \in Calls, Request(c) PROVE LockShape'
  BY <1>21, TailFacts, WithStopFacts, AppendFacts DEF Request, LockShape
<1>22. CASE UNCHANGED vars
  BY <1>22 DEF vars, LockShape
<1> QED
  BY <1>1, <1>2, <1>3, <1>4, <1>5, <1>6, <1>7, <1>8, <1>9, <1>10, <1>11, <1>12, <1>13, <1>14, <1>15, <1>16, <1>17, <1>18, <1>19, <1>20, <1>21, <1>22, StepCases

(* ErrorIsStopped and StartedHasLoop in the words of these proofs.         *)
LEMMA StopWaits ==
    /\ ErrorIsStopped <=> (state = "error" => HasStop(calls))
    /\ StartedHasLoop <=> (state = "started" /\ ~crashed => HasLoop \/ HasStop(calls))
BY DEF ErrorIsStopped, StartedHasLoop, HasStop, HasLoop

LEMMA StopWaitsNext ==
    /\ ErrorIsStopped' <=> (state' = "error" => HasStop(calls'))
    /\ StartedHasLoop' <=> (state' = "started" /\ ~crashed' => HasLoop' \/ HasStop(calls'))
BY DEF ErrorIsStopped, StartedHasLoop, HasStop, HasLoop

LEMMA ErrorStep ==
    ASSUME IInv, [Next]_vars
    PROVE  ErrorIsStopped'
<1> USE DEF IInv, TypeOK, lockVars, Calls
<1>1. CASE StartBegin
  BY <1>1, TailFacts, WithStopFacts, AppendFacts, StopWaits, StopWaitsNext DEF StartBegin, LockShape
<1>2. CASE StopBegin
  BY <1>2, TailFacts, WithStopFacts, AppendFacts, StopWaits, StopWaitsNext DEF StopBegin, LockShape
<1>3. CASE StartInternal
  BY <1>3, TailFacts, WithStopFacts, AppendFacts, StopWaits, StopWaitsNext DEF StartInternal, LockShape
<1>4. CASE StartFails
  BY <1>4, TailFacts, WithStopFacts, AppendFacts, StopWaits, StopWaitsNext DEF StartFails, Fail, LockShape
<1>5. CASE BecomesReady
  BY <1>5, TailFacts, WithStopFacts, AppendFacts, StopWaits, StopWaitsNext DEF BecomesReady, LockShape
<1>6. CASE ReadinessFails
  BY <1>6, TailFacts, WithStopFacts, AppendFacts, StopWaits, StopWaitsNext DEF ReadinessFails, LockShape
<1>7. CASE Stopped
  BY <1>7, TailFacts, WithStopFacts, AppendFacts, StopWaits, StopWaitsNext DEF Stopped, LockShape
<1>8. ASSUME NEW l \in Loops, LoopTop(l) PROVE ErrorIsStopped'
  BY <1>8, TailFacts, WithStopFacts, AppendFacts, StopWaits, StopWaitsNext DEF LoopTop, LockShape
<1>9. ASSUME NEW l \in Loops, NothingToPlay(l) PROVE ErrorIsStopped'
  BY <1>9, TailFacts, WithStopFacts, AppendFacts, StopWaits, StopWaitsNext DEF NothingToPlay, GoesOn, LockShape
<1>10. ASSUME NEW l \in Loops, RunRejects(l) PROVE ErrorIsStopped'
  BY <1>10, TailFacts, WithStopFacts, AppendFacts, StopWaits, StopWaitsNext DEF RunRejects, ReturnsFrom, LockShape
<1>11. ASSUME NEW l \in Loops, Play(l) PROVE ErrorIsStopped'
  BY <1>11, TailFacts, WithStopFacts, AppendFacts, StopWaits, StopWaitsNext DEF Play, LockShape
<1>12. ASSUME NEW l \in Loops, SetupFails(l) PROVE ErrorIsStopped'
  BY <1>12, TailFacts, WithStopFacts, AppendFacts, StopWaits, StopWaitsNext DEF SetupFails, LockShape
<1>13. ASSUME NEW l \in Loops, FallbackFails(l) PROVE ErrorIsStopped'
  BY <1>13, TailFacts, WithStopFacts, AppendFacts, StopWaits, StopWaitsNext DEF FallbackFails, Fail, LockShape
<1>14. ASSUME NEW l \in Loops, RetryPlays(l) PROVE ErrorIsStopped'
  BY <1>14, TailFacts, WithStopFacts, AppendFacts, StopWaits, StopWaitsNext DEF RetryPlays, LockShape
<1>15. ASSUME NEW l \in Loops, RetryFails(l) PROVE ErrorIsStopped'
  BY <1>15, TailFacts, WithStopFacts, AppendFacts, StopWaits, StopWaitsNext DEF RetryFails, LockShape
<1>16. ASSUME NEW p \in Procs, ExitsQuietly(p) PROVE ErrorIsStopped'
  BY <1>16, TailFacts, WithStopFacts, AppendFacts, StopWaits, StopWaitsNext DEF ExitsQuietly, Exits, Resumed, LockShape
<1>17. ASSUME NEW p \in Procs, FirstError(p) PROVE ErrorIsStopped'
  BY <1>17, TailFacts, WithStopFacts, AppendFacts, StopWaits, StopWaitsNext DEF FirstError, Exits, Resumed, LockShape
<1>18. ASSUME NEW p \in Procs, SecondError(p) PROVE ErrorIsStopped'
  BY <1>18, TailFacts, WithStopFacts, AppendFacts, StopWaits, StopWaitsNext DEF SecondError, Fail, Exits, Resumed, LockShape
<1>19. ASSUME NEW p \in Procs, ErrorStreamStarts(p) PROVE ErrorIsStopped'
  BY <1>19, TailFacts, WithStopFacts, AppendFacts, StopWaits, StopWaitsNext DEF ErrorStreamStarts, LockShape
<1>20. ASSUME NEW p \in Procs, ErrorStreamFails(p) PROVE ErrorIsStopped'
  BY <1>20, TailFacts, WithStopFacts, AppendFacts, StopWaits, StopWaitsNext DEF ErrorStreamFails, LockShape
<1>21. ASSUME NEW c \in Calls, Request(c) PROVE ErrorIsStopped'
  BY <1>21, TailFacts, WithStopFacts, AppendFacts, StopWaits, StopWaitsNext DEF Request, LockShape
<1>22. CASE UNCHANGED vars
  BY <1>22, StopWaits, StopWaitsNext DEF vars
<1> QED
  BY <1>1, <1>2, <1>3, <1>4, <1>5, <1>6, <1>7, <1>8, <1>9, <1>10, <1>11, <1>12, <1>13, <1>14, <1>15, <1>16, <1>17, <1>18, <1>19, <1>20, <1>21, <1>22, StepCases

LEMMA StartedStep ==
    ASSUME IInv, [Next]_vars
    PROVE  StartedHasLoop'
<1> USE DEF IInv, TypeOK, lockVars, Calls
<1>1. CASE StartBegin
  BY <1>1, TailFacts, WithStopFacts, AppendFacts, StopWaits, StopWaitsNext DEF StartBegin, LockShape, ReadyHasLoop, HasLoop
<1>2. CASE StopBegin
  BY <1>2, TailFacts, WithStopFacts, AppendFacts, StopWaits, StopWaitsNext DEF StopBegin, LockShape, ReadyHasLoop, HasLoop
<1>3. CASE StartInternal
  BY <1>3, TailFacts, WithStopFacts, AppendFacts, StopWaits, StopWaitsNext DEF StartInternal, LockShape, ReadyHasLoop, HasLoop
<1>4. CASE StartFails
  BY <1>4, TailFacts, WithStopFacts, AppendFacts, StopWaits, StopWaitsNext DEF StartFails, Fail, LockShape, ReadyHasLoop, HasLoop
<1>5. CASE BecomesReady
  BY <1>5, TailFacts, WithStopFacts, AppendFacts, StopWaits, StopWaitsNext DEF BecomesReady, LockShape, ReadyHasLoop, HasLoop
<1>6. CASE ReadinessFails
  BY <1>6, TailFacts, WithStopFacts, AppendFacts, StopWaits, StopWaitsNext DEF ReadinessFails, LockShape, ReadyHasLoop, HasLoop
<1>7. CASE Stopped
  BY <1>7, TailFacts, WithStopFacts, AppendFacts, StopWaits, StopWaitsNext DEF Stopped, LockShape, ReadyHasLoop, HasLoop
<1>8. ASSUME NEW l \in Loops, LoopTop(l) PROVE StartedHasLoop'
  BY <1>8, TailFacts, WithStopFacts, AppendFacts, StopWaits, StopWaitsNext DEF LoopTop, Continues, LockShape, ReadyHasLoop, HasLoop
<1>9. ASSUME NEW l \in Loops, NothingToPlay(l) PROVE StartedHasLoop'
  BY <1>9, TailFacts, WithStopFacts, AppendFacts, StopWaits, StopWaitsNext DEF NothingToPlay, GoesOn, LockShape, ReadyHasLoop, HasLoop
<1>10. ASSUME NEW l \in Loops, RunRejects(l) PROVE StartedHasLoop'
  BY <1>10, TailFacts, WithStopFacts, AppendFacts, StopWaits, StopWaitsNext DEF RunRejects, ReturnsFrom, LockShape, ReadyHasLoop, HasLoop
<1>11. ASSUME NEW l \in Loops, Play(l) PROVE StartedHasLoop'
  BY <1>11, TailFacts, WithStopFacts, AppendFacts, StopWaits, StopWaitsNext DEF Play, LockShape, ReadyHasLoop, HasLoop
<1>12. ASSUME NEW l \in Loops, SetupFails(l) PROVE StartedHasLoop'
  BY <1>12, TailFacts, WithStopFacts, AppendFacts, StopWaits, StopWaitsNext DEF SetupFails, LockShape, ReadyHasLoop, HasLoop
<1>13. ASSUME NEW l \in Loops, FallbackFails(l) PROVE StartedHasLoop'
  BY <1>13, TailFacts, WithStopFacts, AppendFacts, StopWaits, StopWaitsNext DEF FallbackFails, Fail, LockShape, ReadyHasLoop, HasLoop
<1>14. ASSUME NEW l \in Loops, RetryPlays(l) PROVE StartedHasLoop'
  BY <1>14, TailFacts, WithStopFacts, AppendFacts, StopWaits, StopWaitsNext DEF RetryPlays, LockShape, ReadyHasLoop, HasLoop
<1>15. ASSUME NEW l \in Loops, RetryFails(l) PROVE StartedHasLoop'
  BY <1>15, TailFacts, WithStopFacts, AppendFacts, StopWaits, StopWaitsNext DEF RetryFails, LockShape, ReadyHasLoop, HasLoop
<1>16. ASSUME NEW p \in Procs, ExitsQuietly(p) PROVE StartedHasLoop'
  BY <1>16, TailFacts, WithStopFacts, AppendFacts, StopWaits, StopWaitsNext DEF ExitsQuietly, Exits, Resumed, LockShape, ReadyHasLoop, HasLoop
<1>17. ASSUME NEW p \in Procs, FirstError(p) PROVE StartedHasLoop'
  BY <1>17, TailFacts, WithStopFacts, AppendFacts, StopWaits, StopWaitsNext DEF FirstError, Exits, Resumed, LockShape, ReadyHasLoop, HasLoop
<1>18. ASSUME NEW p \in Procs, SecondError(p) PROVE StartedHasLoop'
  BY <1>18, TailFacts, WithStopFacts, AppendFacts, StopWaits, StopWaitsNext DEF SecondError, Fail, Exits, Resumed, LockShape, ReadyHasLoop, HasLoop
<1>19. ASSUME NEW p \in Procs, ErrorStreamStarts(p) PROVE StartedHasLoop'
  BY <1>19, TailFacts, WithStopFacts, AppendFacts, StopWaits, StopWaitsNext DEF ErrorStreamStarts, LockShape, ReadyHasLoop, HasLoop
<1>20. ASSUME NEW p \in Procs, ErrorStreamFails(p) PROVE StartedHasLoop'
  BY <1>20, TailFacts, WithStopFacts, AppendFacts, StopWaits, StopWaitsNext DEF ErrorStreamFails, LockShape, ReadyHasLoop, HasLoop
<1>21. ASSUME NEW c \in Calls, Request(c) PROVE StartedHasLoop'
  BY <1>21, TailFacts, WithStopFacts, AppendFacts, StopWaits, StopWaitsNext DEF Request, LockShape, ReadyHasLoop, HasLoop
<1>22. CASE UNCHANGED vars
  BY <1>22, StopWaits, StopWaitsNext DEF vars, HasLoop
<1> QED
  BY <1>1, <1>2, <1>3, <1>4, <1>5, <1>6, <1>7, <1>8, <1>9, <1>10, <1>11, <1>12, <1>13, <1>14, <1>15, <1>16, <1>17, <1>18, <1>19, <1>20, <1>21, <1>22, StepCases

LEMMA ReadyStep ==
    ASSUME IInv, [Next]_vars
    PROVE  ReadyHasLoop'
<1> USE DEF IInv, TypeOK, lockVars, Calls
<1>1. CASE StartBegin
  BY <1>1, TailFacts, WithStopFacts, AppendFacts, StopWaits, StopWaitsNext DEF StartBegin, LockShape, ReadyHasLoop, HasLoop
<1>2. CASE StopBegin
  BY <1>2, TailFacts, WithStopFacts, AppendFacts, StopWaits, StopWaitsNext DEF StopBegin, LockShape, ReadyHasLoop, HasLoop
<1>3. CASE StartInternal
  BY <1>3, TailFacts, WithStopFacts, AppendFacts, StopWaits, StopWaitsNext DEF StartInternal, LockShape, ReadyHasLoop, HasLoop
<1>4. CASE StartFails
  BY <1>4, TailFacts, WithStopFacts, AppendFacts, StopWaits, StopWaitsNext DEF StartFails, Fail, LockShape, ReadyHasLoop, HasLoop
<1>5. CASE BecomesReady
  BY <1>5, TailFacts, WithStopFacts, AppendFacts, StopWaits, StopWaitsNext DEF BecomesReady, LockShape, ReadyHasLoop, HasLoop
<1>6. CASE ReadinessFails
  BY <1>6, TailFacts, WithStopFacts, AppendFacts, StopWaits, StopWaitsNext DEF ReadinessFails, LockShape, ReadyHasLoop, HasLoop
<1>7. CASE Stopped
  BY <1>7, TailFacts, WithStopFacts, AppendFacts, StopWaits, StopWaitsNext DEF Stopped, LockShape, ReadyHasLoop, HasLoop
<1>8. ASSUME NEW l \in Loops, LoopTop(l) PROVE ReadyHasLoop'
  BY <1>8, TailFacts, WithStopFacts, AppendFacts, StopWaits, StopWaitsNext DEF LoopTop, Continues, LockShape, ReadyHasLoop, HasLoop
<1>9. ASSUME NEW l \in Loops, NothingToPlay(l) PROVE ReadyHasLoop'
  BY <1>9, TailFacts, WithStopFacts, AppendFacts, StopWaits, StopWaitsNext DEF NothingToPlay, GoesOn, LockShape, ReadyHasLoop, HasLoop
<1>10. ASSUME NEW l \in Loops, RunRejects(l) PROVE ReadyHasLoop'
  BY <1>10, TailFacts, WithStopFacts, AppendFacts, StopWaits, StopWaitsNext DEF RunRejects, ReturnsFrom, LockShape, ReadyHasLoop, HasLoop
<1>11. ASSUME NEW l \in Loops, Play(l) PROVE ReadyHasLoop'
  BY <1>11, TailFacts, WithStopFacts, AppendFacts, StopWaits, StopWaitsNext DEF Play, LockShape, ReadyHasLoop, HasLoop
<1>12. ASSUME NEW l \in Loops, SetupFails(l) PROVE ReadyHasLoop'
  BY <1>12, TailFacts, WithStopFacts, AppendFacts, StopWaits, StopWaitsNext DEF SetupFails, LockShape, ReadyHasLoop, HasLoop
<1>13. ASSUME NEW l \in Loops, FallbackFails(l) PROVE ReadyHasLoop'
  BY <1>13, TailFacts, WithStopFacts, AppendFacts, StopWaits, StopWaitsNext DEF FallbackFails, Fail, LockShape, ReadyHasLoop, HasLoop
<1>14. ASSUME NEW l \in Loops, RetryPlays(l) PROVE ReadyHasLoop'
  BY <1>14, TailFacts, WithStopFacts, AppendFacts, StopWaits, StopWaitsNext DEF RetryPlays, LockShape, ReadyHasLoop, HasLoop
<1>15. ASSUME NEW l \in Loops, RetryFails(l) PROVE ReadyHasLoop'
  BY <1>15, TailFacts, WithStopFacts, AppendFacts, StopWaits, StopWaitsNext DEF RetryFails, LockShape, ReadyHasLoop, HasLoop
<1>16. ASSUME NEW p \in Procs, ExitsQuietly(p) PROVE ReadyHasLoop'
  BY <1>16, TailFacts, WithStopFacts, AppendFacts, StopWaits, StopWaitsNext DEF ExitsQuietly, Exits, Resumed, LockShape, ReadyHasLoop, HasLoop
<1>17. ASSUME NEW p \in Procs, FirstError(p) PROVE ReadyHasLoop'
  BY <1>17, TailFacts, WithStopFacts, AppendFacts, StopWaits, StopWaitsNext DEF FirstError, Exits, Resumed, LockShape, ReadyHasLoop, HasLoop
<1>18. ASSUME NEW p \in Procs, SecondError(p) PROVE ReadyHasLoop'
  BY <1>18, TailFacts, WithStopFacts, AppendFacts, StopWaits, StopWaitsNext DEF SecondError, Fail, Exits, Resumed, LockShape, ReadyHasLoop, HasLoop
<1>19. ASSUME NEW p \in Procs, ErrorStreamStarts(p) PROVE ReadyHasLoop'
  BY <1>19, TailFacts, WithStopFacts, AppendFacts, StopWaits, StopWaitsNext DEF ErrorStreamStarts, LockShape, ReadyHasLoop, HasLoop
<1>20. ASSUME NEW p \in Procs, ErrorStreamFails(p) PROVE ReadyHasLoop'
  BY <1>20, TailFacts, WithStopFacts, AppendFacts, StopWaits, StopWaitsNext DEF ErrorStreamFails, LockShape, ReadyHasLoop, HasLoop
<1>21. ASSUME NEW c \in Calls, Request(c) PROVE ReadyHasLoop'
  BY <1>21, TailFacts, WithStopFacts, AppendFacts, StopWaits, StopWaitsNext DEF Request, LockShape, ReadyHasLoop, HasLoop
<1>22. CASE UNCHANGED vars
  BY <1>22 DEF vars, HasLoop, ReadyHasLoop
<1> QED
  BY <1>1, <1>2, <1>3, <1>4, <1>5, <1>6, <1>7, <1>8, <1>9, <1>10, <1>11, <1>12, <1>13, <1>14, <1>15, <1>16, <1>17, <1>18, <1>19, <1>20, <1>21, <1>22, StepCases

-----------------------------------------------------------------------------
LEMMA InitOK == Init => IInv
<1>1. ASSUME Init PROVE TypeOK
  <2>1. NoProc \in Process
    BY DEF Process
  <2>2. proc \in [Procs -> Process]
    BY <1>1, <2>1 DEF Init
  <2> QED
    <3>1. loop \in [Loops -> {"off", "top", "setup", "fallback", "retry", "playing"}]
      BY <1>1 DEF Init
    <3>2. calls \in Seq({"start", "stop"})
      BY <1>1 DEF Init
    <3> QED
      BY <1>1, <2>2, <3>1, <3>2 DEF Init, TypeOK
<1>2. ASSUME Init PROVE AwaitedOnce
  BY <1>2 DEF Init, AwaitedOnce, NoProc
<1> QED
  BY <1>1, <1>2 DEF Init, IInv, LockShape, CurrentAlive, ErrorIsStopped, StartedHasLoop, ReadyHasLoop

LEMMA StepOK == IInv /\ [Next]_vars => IInv'
<1> SUFFICES ASSUME IInv, [Next]_vars PROVE IInv'
  OBVIOUS
<1> QED
  BY TypeStep, AwaitedStep, CurrentStep, LockShapeStep, ErrorStep, StartedStep, ReadyStep DEF IInv

LEMMA Invariant == Spec => []IInv
BY InitOK, StepOK, PTL DEF Spec

(* The variables of a session keep their types: a process is being         *)
(* created, runs, was killed, or is no process at all (HlsSession.ts,      *)
(* ProgramStream.ts, FfmpegTrancodeSession.ts).                            *)
THEOREM TypeCorrect == Spec => []TypeOK
<1>1. IInv => TypeOK
  BY DEF IInv
<1> QED
  BY Invariant, <1>1, PTL

(* transcode() waits for the exit of exactly one process, which is still   *)
(* to come, whatever other loops, stops and error streams do meanwhile.    *)
THEOREM LoopsAwaitOneExit == Spec => []AwaitedOnce
<1>1. IInv => AwaitedOnce
  BY DEF IInv
<1> QED
  BY Invariant, <1>1, PTL

(* A session in state `error` has a stop() waiting for its lock, so that   *)
(* start() works again, whichever of its parts has failed.                 *)
THEOREM FailedSessionsAreStopped == Spec => []ErrorIsStopped
<1>1. IInv => ErrorIsStopped
  BY DEF IInv
<1> QED
  BY Invariant, <1>1, PTL

(* A session that says `started` has a run() loop, or a stop() coming,     *)
(* unless its run() has rejected.                                          *)
THEOREM StartedSessionsRun == Spec => []StartedHasLoop
<1>1. IInv => StartedHasLoop
  BY DEF IInv
<1> QED
  BY Invariant, <1>1, PTL

=============================================================================
