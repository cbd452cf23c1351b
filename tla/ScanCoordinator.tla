-------------------------- MODULE ScanCoordinator --------------------------
(***************************************************************************)
(* MediaSourceScanCoordinator and the scanners it runs: one queue of jobs, *)
(* a lock and a progress entry per target, an abort controller per target. *)
(* A target is a library of a remote media source or a whole local source; *)
(* the lock, the progress and the controller are all keyed by it.          *)
(*                                                                         *)
(* A call of add() or addLocal() returns once its job is queued; the job's *)
(* own steps follow, and the .finally() of the queued promise comes last.  *)
(* Media servers, directories and the database are external: a scan ends,  *)
(* throws or stops early at any of its awaits.                             *)
(***************************************************************************)
EXTENDS Naturals, Sequences, FiniteSets

CONSTANTS Scans,        \* the calls of add() and addLocal()
          NoScan,
          Remote,       \* libraries of remote media sources
          Local,        \* local media sources
          Unscannable,  \* targets for which the factory has no scanner
          Tidy,         \* libraries whose scanner ends its progress in a finally
          MaxPaths      \* bound: paths of a local media source

Targets == Remote \cup Local

ASSUME ScanCoordinatorAssumption ==
    /\ NoScan \notin Scans
    /\ MaxPaths \in Nat

VARIABLES
    target,     \* what each call asks to scan
    phase,      \* how far each call and its job have come
    lock,       \* EntityMutex: the call that holds the target's lock
    queue,      \* MediaSourceScanCoordinator.queue, without the running job
    running,    \* the job the queue runs (concurrency 1)
    signal,     \* signalById: whose controller is kept for the target
    aborted,    \* controller.signal.aborted
    canceled,   \* the scanner's state is 'canceled'
    progress,   \* MediaSourceProgressService.#scanDetails
    pathsLeft   \* paths the running local scan has not begun

vars == <<target, phase, lock, queue, running, signal, aborted, canceled,
          progress, pathsLeft>>

Phases == {"none", "asked", "refused", "locked", "queued", "scanning", "walking",
           "saving", "collecting", "released", "settling", "done"}

(* The scanner has begun and has not returned: an abort reaches it.        *)
Scanning(s) == phase[s] \in {"scanning", "walking", "saving"}

To(s, p) == phase' = [phase EXCEPT ![s] = p]
Show(s, p) == progress' = [progress EXCEPT ![target[s]] = p]

(* The paths a scan goes through; a remote library is gone through once.   *)
Paths(s) == IF target[s] \in Local THEN 0..MaxPaths ELSE {0}

-----------------------------------------------------------------------------
(* The mistakes the properties are tried against: the lock is not tested   *)
(* where it is taken; a job that throws keeps its lock; the paths are not  *)
(* counted; the last job goes first; the progress is cleared with the      *)
(* controller, after the lock is free again.                               *)
AcquireUntested(s) ==
    /\ phase[s] = "asked"
    /\ lock' = [lock EXCEPT ![target[s]] = s]
    /\ To(s, "locked")
    /\ UNCHANGED <<target, queue, running, signal, aborted, canceled, progress, pathsLeft>>

ThrowsHeld(s) ==
    /\ \/ phase[s] = "scanning" /\ target[s] \in Remote
       \/ phase[s] = "saving"
    /\ To(s, "released")
    /\ UNCHANGED <<target, lock, queue, running, signal, aborted, canceled, progress, pathsLeft>>

BeginsAnyPath(s) ==
    /\ phase[s] \in {"scanning", "saving"} /\ target[s] \in Local
    /\ pathsLeft' = pathsLeft - 1
    /\ To(s, "walking")
    /\ Show(s, "in_progress")
    /\ UNCHANGED <<target, lock, queue, running, signal, aborted, canceled>>

NewestJob(s) ==
    /\ phase[s] = "released"
    /\ IF queue = << >>
       THEN /\ running' = NoScan
            /\ To(s, "settling")
            /\ UNCHANGED <<queue, pathsLeft>>
       ELSE LET n == Len(queue) IN
            /\ running' = queue[n]
            /\ queue' = SubSeq(queue, 1, n - 1)
            /\ phase' = [phase EXCEPT ![s] = "settling", ![queue[n]] = "scanning"]
            /\ pathsLeft' \in Paths(queue[n])
    /\ UNCHANGED <<target, lock, signal, aborted, canceled, progress>>

SettleEnds(s) ==
    /\ phase[s] = "settling"
    /\ signal' = [signal EXCEPT ![target[s]] = NoScan]
    /\ Show(s, "not_scanning")
    /\ To(s, "done")
    /\ UNCHANGED <<target, lock, queue, running, aborted, canceled, pathsLeft>>

-----------------------------------------------------------------------------
(* add() and addLocal(). *)

(* The target is looked up; a missing one, or one of the wrong kind, is    *)
(* refused.                                                                *)
Ask(s) ==
    /\ phase[s] = "none"
    /\ \E p \in {"asked", "refused"} : To(s, p)
    /\ UNCHANGED <<target, lock, queue, running, signal, aborted, canceled, progress, pathsLeft>>

(* tryAcquire(lock).acquire() tests and takes the lock in one go.  (It     *)
(* queues for the lock with a timeout of 0; what it is granted after that  *)
(* it releases at once.)                                                   *)
Acquire(s) ==
    /\ phase[s] = "asked"
    /\ lock[target[s]] = NoScan
    /\ lock' = [lock EXCEPT ![target[s]] = s]
    /\ To(s, "locked")
    /\ UNCHANGED <<target, queue, running, signal, aborted, canceled, progress, pathsLeft>>

AlreadyLocked(s) ==
    /\ phase[s] = "asked"
    /\ lock[target[s]] # NoScan
    /\ To(s, "refused")
    /\ UNCHANGED <<target, lock, queue, running, signal, aborted, canceled, progress, pathsLeft>>

(* No scanner: false is returned and the lock stays taken.                 *)
NoScanner(s) ==
    /\ phase[s] = "locked"
    /\ target[s] \in Unscannable
    /\ To(s, "refused")
    /\ UNCHANGED <<target, lock, queue, running, signal, aborted, canceled, progress, pathsLeft>>

(* The queue takes the job and starts it at once when it is idle.          *)
Accept(s) ==
    /\ phase[s] = "locked"
    /\ target[s] \notin Unscannable
    /\ Show(s, "queued")
    /\ signal' = [signal EXCEPT ![target[s]] = s]
    /\ \/ /\ running = NoScan
          /\ running' = s
          /\ To(s, "scanning")
          /\ pathsLeft' \in Paths(s)
          /\ UNCHANGED queue
       \/ /\ running # NoScan
          /\ queue' = Append(queue, s)
          /\ To(s, "queued")
          /\ UNCHANGED <<running, pathsLeft>>
    /\ UNCHANGED <<target, lock, aborted, canceled>>

-----------------------------------------------------------------------------
(* The job of a remote library. *)

(* scanInternal begins: the media source and its client were found.        *)
BeginWalk(s) ==
    /\ phase[s] = "scanning" /\ target[s] \in Remote
    /\ To(s, "walking")
    /\ Show(s, "in_progress")
    /\ UNCHANGED <<target, lock, queue, running, signal, aborted, canceled, pathsLeft>>

WalkCompletes(s) ==
    /\ phase[s] = "walking" /\ target[s] \in Remote
    /\ To(s, "saving")
    /\ Show(s, "not_scanning")
    /\ UNCHANGED <<target, lock, queue, running, signal, aborted, canceled, pathsLeft>>

(* What a walk cut short leaves of the progress.                           *)
CutShort(s) == IF target[s] \in Tidy THEN "not_scanning" ELSE progress[target[s]]

(* The walk notices at its next entry that it was canceled.  It returns    *)
(* normally: what follows a scan follows a canceled one as well.           *)
WalkStopsEarly(s) ==
    /\ phase[s] = "walking" /\ target[s] \in Remote
    /\ canceled[s]
    /\ To(s, "saving")
    /\ Show(s, CutShort(s))
    /\ UNCHANGED <<target, lock, queue, running, signal, aborted, canceled, pathsLeft>>

(* The end of a job, however it came: the finally that releases the lock.  *)
Release(s) ==
    /\ lock' = [lock EXCEPT ![target[s]] = NoScan]
    /\ To(s, "released")
    /\ UNCHANGED <<target, queue, running, signal, aborted, canceled, pathsLeft>>

WalkThrows(s) ==
    /\ phase[s] = "walking" /\ target[s] \in Remote
    /\ Show(s, CutShort(s))
    /\ Release(s)

(* The media source is gone or its client cannot be made; saving the time  *)
(* of the scan fails.                                                      *)
JobThrows(s) ==
    /\ \/ phase[s] = "scanning" /\ target[s] \in Remote
       \/ phase[s] = "saving"
    /\ Release(s)
    /\ UNCHANGED progress

Saved(s) ==
    /\ phase[s] = "saving" /\ target[s] \in Remote
    /\ To(s, "collecting")
    /\ UNCHANGED <<target, lock, queue, running, signal, aborted, canceled, progress, pathsLeft>>

(* The collections were scanned, or that failed, or nobody scans them.     *)
Collected(s) ==
    /\ phase[s] = "collecting"
    /\ Release(s)
    /\ UNCHANGED progress

-----------------------------------------------------------------------------
(* The job of a local media source: one walk per path.  The first begins   *)
(* in the same turn as the job; an error or a cancellation ends the walk   *)
(* of a path, never the loop.                                              *)

BeginPath(s) ==
    /\ phase[s] \in {"scanning", "saving"} /\ target[s] \in Local
    /\ pathsLeft > 0
    /\ pathsLeft' = pathsLeft - 1
    /\ To(s, "walking")
    /\ Show(s, "in_progress")
    /\ UNCHANGED <<target, lock, queue, running, signal, aborted, canceled>>

PathEnds(s) ==
    /\ phase[s] = "walking" /\ target[s] \in Local
    /\ To(s, "saving")
    /\ Show(s, "not_scanning")
    /\ UNCHANGED <<target, lock, queue, running, signal, aborted, canceled, pathsLeft>>

LastPath(s) ==
    /\ phase[s] \in {"scanning", "saving"} /\ target[s] \in Local
    /\ pathsLeft = 0
    /\ Release(s)
    /\ UNCHANGED progress

-----------------------------------------------------------------------------
(* After the job. *)

(* The queue goes on with the job that waited longest.                     *)
NextJob(s) ==
    /\ phase[s] = "released"
    /\ \/ /\ queue = << >>
          /\ running' = NoScan
          /\ To(s, "settling")
          /\ UNCHANGED <<queue, pathsLeft>>
       \/ /\ queue # << >>
          /\ running' = Head(queue)
          /\ queue' = Tail(queue)
          /\ phase' = [phase EXCEPT ![s] = "settling", ![Head(queue)] = "scanning"]
          /\ pathsLeft' \in Paths(Head(queue))
    /\ UNCHANGED <<target, lock, signal, aborted, canceled, progress>>

(* The last finally drops the target's controller, whoever's it is now.    *)
Settle(s) ==
    /\ phase[s] = "settling"
    /\ signal' = [signal EXCEPT ![target[s]] = NoScan]
    /\ To(s, "done")
    /\ UNCHANGED <<target, lock, queue, running, aborted, canceled, progress, pathsLeft>>

(* cancelAll(): the listener that passes an abort on is added when the job *)
(* starts, and an abort that came before is not repeated.                  *)
CancelAll ==
    LET Reached == {signal[t] : t \in Targets} IN
    /\ aborted'  = [s \in Scans |-> aborted[s] \/ s \in Reached]
    /\ canceled' = [s \in Scans |-> \/ canceled[s]
                                    \/ s \in Reached /\ ~aborted[s] /\ Scanning(s)]
    /\ UNCHANGED <<target, phase, lock, queue, running, signal, progress, pathsLeft>>

-----------------------------------------------------------------------------
Init ==
    /\ target \in [Scans -> Targets]
    /\ phase = [s \in Scans |-> "none"]
    /\ lock = [t \in Targets |-> NoScan]
    /\ queue = << >>
    /\ running = NoScan
    /\ signal = [t \in Targets |-> NoScan]
    /\ aborted = [s \in Scans |-> FALSE]
    /\ canceled = [s \in Scans |-> FALSE]
    /\ progress = [t \in Targets |-> "not_scanning"]
    /\ pathsLeft = 0

(* What the program does of itself once a call has been made.              *)
Job(s) ==
    \/ Acquire(s) \/ AlreadyLocked(s) \/ NoScanner(s) \/ Accept(s)
    \/ BeginWalk(s) \/ WalkCompletes(s) \/ WalkStopsEarly(s) \/ WalkThrows(s)
    \/ JobThrows(s) \/ Saved(s) \/ Collected(s)
    \/ BeginPath(s) \/ PathEnds(s) \/ LastPath(s)
    \/ NextJob(s) \/ Settle(s)

Next ==
    \/ CancelAll
    \/ \E s \in Scans : Ask(s) \/ Job(s)

Spec == Init /\ [][Next]_vars

(* The event loop turns, and what a scan waits for is answered or fails.   *)
FairSpec == Spec /\ \A s \in Scans : WF_vars(Job(s))

-----------------------------------------------------------------------------
TypeOK ==
    /\ target \in [Scans -> Targets]
    /\ phase \in [Scans -> Phases]
    /\ lock \in [Targets -> Scans \cup {NoScan}]
    /\ queue \in Seq(Scans)
    /\ running \in Scans \cup {NoScan}
    /\ signal \in [Targets -> Scans \cup {NoScan}]
    /\ aborted \in [Scans -> BOOLEAN]
    /\ canceled \in [Scans -> BOOLEAN]
    /\ progress \in [Targets -> {"not_scanning", "queued", "in_progress"}]
    /\ pathsLeft \in Nat

(* Between taking the lock and the end of the job.                         *)
Busy(s) == phase[s] \in {"locked", "queued", "scanning", "walking", "saving", "collecting"}

(* A library or local source is never queued or scanned twice at a time:   *)
(* neither callers that look it up at the same time nor a scan queued      *)
(* again while an earlier one still saves its result get past the lock     *)
(* (MediaSourceScanCoordinator.add, addLocal).                             *)
OneScanPerTarget ==
    \A i, j \in Scans : Busy(i) /\ Busy(j) /\ target[i] = target[j] => i = j

(* What the API reports of a target (MediaSourceProgressService) is about  *)
(* the scan that is under way: "queued" until its job walks, then          *)
(* "in_progress", however many earlier scans of the target are still       *)
(* being cleaned up after.                                                 *)
ProgressShown ==
    \A s \in Scans : /\ phase[s] = "queued" => progress[target[s]] = "queued"
                     /\ phase[s] = "walking" => progress[target[s]] = "in_progress"

(* Whatever a scan and those before it in the queue run into, the target   *)
(* can be scanned again some day: its lock is released by the job's        *)
(* finally.  Not so for a target without a scanner.                        *)
LocksComeBack ==
    \A t \in Targets \ Unscannable : lock[t] # NoScan ~> lock[t] = NoScan

-----------------------------------------------------------------------------
(* The promise of the coordinator (ScanQueue), of which this is an         *)
(* implementation: a job is at work until its finally releases the lock,   *)
(* and it leaves the line when the queue goes on.                          *)
AtWork(s) == phase[s] \in {"scanning", "walking", "saving", "collecting"}

Line == INSTANCE ScanQueue WITH
    owner   <- lock,
    line    <- IF running = NoScan THEN << >> ELSE <<running>> \o queue,
    working <- {s \in Scans : AtWork(s)}

(* Every step of the coordinator is a step of the line or leaves it alone: *)
(* scans are served one at a time and in the order they were accepted,     *)
(* each holding the lock of its own target, and that lock only, until it   *)
(* is over -- whichever way it ends (MediaSourceScanCoordinator.queue).    *)
ServedInTurn == Line!Spec

=============================================================================
