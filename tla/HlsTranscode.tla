----------------------------- MODULE HlsTranscode -----------------------------
(***************************************************************************)
(* The inside of one HlsSession: its run() loops, the program streams they *)
(* set up and wait for, the ffmpeg processes of those, and the start() and *)
(* stop() calls that go on meanwhile.                                      *)
(*                                                                         *)
(* run() is not awaited by start() and stop() does not await run(): a loop *)
(* learns that it should end only between two programs.  A session that is *)
(* stopped and started again may have two loops.                           *)
(***************************************************************************)
EXTENDS Naturals, Sequences

CONSTANTS
    Loops,      \* identities of run() calls; bound: how many go at once
    Procs,      \* identities of ffmpeg processes; bound: how many at once
    None,       \* `undefined`, nobody
    MaxCalls    \* bound: calls on the session lock when another is requested

ASSUME TranscodeAssumption ==
    /\ None \notin Loops \cup Procs
    /\ MaxCalls \in Nat

VARIABLES
    state,     \* Session.#state
    calls,     \* Session.lock: start() and stop() calls, the holder first
    phase,     \* where the holder is suspended
    loop,      \* where each run() is suspended
    current,   \* #currentSession, while its process has not exited
    proc,      \* the ffmpeg processes, and the error streams being created
    crashed    \* history: a run() call has rejected

vars == <<state, calls, phase, loop, current, proc, crashed>>
lockVars == <<state, calls, phase>>

(* A process: of which program stream -- awaited `by` which loop, with     *)
(* HlsSession listening to its `error` event (`heard`) or not, and with an *)
(* error behind it (`hadError`).                                           *)
NoProc  == [st |-> "free", by |-> None, heard |-> FALSE, hadError |-> FALSE]
Process == {NoProc}
  \cup [st : {"running", "dying"}, by : Loops \cup {None}, heard : BOOLEAN, hadError : BOOLEAN]
  \cup [st : {"creating"}, by : {None}, heard : BOOLEAN, hadError : {TRUE}]

TypeOK ==
    /\ state \in {"init", "starting", "started", "error", "stopped"}
    /\ calls \in Seq({"start", "stop"})
    /\ phase \in {"idle", "clearing", "ready", "stopping"}
    /\ loop \in [Loops -> {"off", "top", "setup", "fallback", "retry", "playing"}]
    /\ current \in Procs \cup {None}
    /\ proc \in [Procs -> Process]
    /\ crashed \in BOOLEAN

Init ==
    /\ state = "init" /\ calls = <<>> /\ phase = "idle"
    /\ loop = [l \in Loops |-> "off"]
    /\ current = None
    /\ proc = [p \in Procs |-> NoProc]
    /\ crashed = FALSE

-----------------------------------------------------------------------------
(* The session lock.  A stop() behind another that has not begun finds     *)
(* nothing left to do and is not kept.                                     *)

WithStop(q) ==
    IF q # <<>> /\ q[Len(q)] = "stop" /\ (Len(q) > 1 \/ phase = "idle")
    THEN q ELSE Append(q, "stop")

(* state `error`, and the `error` event, whose listener (SessionManager)   *)
(* calls stop().  (The fault: the event is not emitted.)                   *)
FailSilently(q) == state' = "error" /\ calls' = q
Fail(q)         == state' = "error" /\ calls' = WithStop(q)

(* The lock is free and wanted: taken before anything else happens.        *)
Quiet == calls = <<>> \/ phase # "idle"

Request(call) ==
    /\ Len(calls) < MaxCalls
    /\ calls' = IF call = "stop" THEN WithStop(calls) ELSE Append(calls, "start")
    /\ UNCHANGED <<state, phase, loop, current, proc, crashed>>

StartBegin ==
    /\ calls # <<>> /\ phase = "idle" /\ Head(calls) = "start"
    /\ IF state \in {"started", "error"}
       THEN calls' = Tail(calls) /\ UNCHANGED <<state, phase>>
       ELSE state' = "starting" /\ phase' = "clearing" /\ UNCHANGED calls
    /\ UNCHANGED <<loop, current, proc, crashed>>

(* initDirectories resolves: a run() loop sets out, and readiness is       *)
(* awaited.                                                                *)
StartInternal ==
    /\ phase = "clearing"
    /\ \E l \in Loops : loop[l] = "off" /\ loop' = [loop EXCEPT ![l] = "top"]
    /\ state' = "started" /\ phase' = "ready"
    /\ UNCHANGED <<calls, current, proc, crashed>>

StartFails ==
    /\ phase = "clearing"
    /\ phase' = "idle"
    /\ Fail(Tail(calls))
    /\ UNCHANGED <<loop, current, proc, crashed>>

BecomesReady ==
    /\ phase = "ready"
    /\ phase' = "idle" /\ state' = "started" /\ calls' = Tail(calls)
    /\ UNCHANGED <<loop, current, proc, crashed>>

(* The wait for readiness fails: `error` is emitted, and the state that is *)
(* left is `started` all the same.                                         *)
ReadinessFails ==
    /\ phase = "ready"
    /\ phase' = "idle" /\ state' = "started" /\ calls' = WithStop(Tail(calls))
    /\ UNCHANGED <<loop, current, proc, crashed>>

(* stopInternal kills the current process and clears the directory.        *)
StopBegin ==
    /\ calls # <<>> /\ phase = "idle" /\ Head(calls) = "stop"
    /\ IF state \in {"starting", "started", "error"}
       THEN /\ phase' = "stopping"
            /\ proc' = IF current = None THEN proc
                       ELSE [proc EXCEPT ![current].st = "dying"]
            /\ UNCHANGED calls
       ELSE calls' = Tail(calls) /\ UNCHANGED <<phase, proc>>
    /\ UNCHANGED <<state, loop, current, crashed>>

Stopped ==
    /\ phase = "stopping"
    /\ phase' = "idle" /\ state' = "stopped" /\ calls' = Tail(calls)
    /\ UNCHANGED <<loop, current, proc, crashed>>

-----------------------------------------------------------------------------
(* run() and transcode(). *)

(* The condition of the loop.  (The fault: it ends on errors only.)        *)
UntilError == state # "error"
Continues  == state = "started"

(* Between two programs, perhaps after five seconds' wait.                 *)
LoopTop(l) ==
    /\ loop[l] = "top"
    /\ loop' = [loop EXCEPT ![l] = IF Continues THEN "setup" ELSE "off"]
    /\ calls' = IF ~Continues /\ state = "error" THEN WithStop(calls) ELSE calls
    /\ UNCHANGED <<state, phase, current, proc, crashed>>

(* There is no lineup item to play, or setup() throws: the loop goes on.   *)
(* (The fault: it returns.)                                                *)
ReturnsFrom(l) == loop' = [loop EXCEPT ![l] = "off"]
GoesOn(l)      == loop' = [loop EXCEPT ![l] = "top"]
NothingToPlay(l) ==
    /\ loop[l] \in {"setup", "fallback"}
    /\ GoesOn(l)
    /\ UNCHANGED <<lockVars, current, proc, crashed>>

(* What precedes the result type's own error handling rejects (the live    *)
(* timestamp, the lookup of the lineup): run() is over, unnoticed.         *)
RunRejects(l) ==
    /\ loop[l] = "setup"
    /\ ReturnsFrom(l)
    /\ crashed' = TRUE
    /\ UNCHANGED <<lockVars, current, proc>>

(* A program stream is set up, recorded and started without asking whether *)
(* the session is still there.  Only the first of the two listens.         *)
Play(l) ==
    /\ loop[l] \in {"setup", "fallback"}
    /\ \E p \in Procs :
         /\ proc[p] = NoProc
         /\ proc' = [proc EXCEPT ![p] = [st |-> "running", by |-> l,
                                         heard |-> loop[l] = "setup", hadError |-> FALSE]]
         /\ current' = p
    /\ loop' = [loop EXCEPT ![l] = "playing"]
    /\ UNCHANGED <<lockVars, crashed>>

SetupFails(l) ==
    /\ loop[l] = "setup"
    /\ loop' = [loop EXCEPT ![l] = "fallback"]
    /\ UNCHANGED <<lockVars, current, proc, crashed>>

(* Neither the program nor its substitute: the session has failed, and     *)
(* programStream.start() tries to set the substitute up once more.         *)
FallbackFails(l) ==
    /\ loop[l] = "fallback"
    /\ loop' = [loop EXCEPT ![l] = "retry"]
    /\ Fail(calls)
    /\ UNCHANGED <<phase, current, proc, crashed>>

RetryPlays(l) ==
    /\ loop[l] = "retry"
    /\ \E p \in Procs :
         /\ proc[p] = NoProc
         /\ proc' = [proc EXCEPT ![p] = [st |-> "running", by |-> l,
                                         heard |-> FALSE, hadError |-> FALSE]]
    /\ loop' = [loop EXCEPT ![l] = "playing"]
    /\ UNCHANGED <<lockVars, current, crashed>>

RetryFails(l) ==
    /\ loop[l] = "retry"
    /\ loop' = [loop EXCEPT ![l] = "top"]
    /\ UNCHANGED <<lockVars, current, proc, crashed>>

-----------------------------------------------------------------------------
(* ffmpeg. *)

Alive(p) == proc[p].st \in {"running", "dying"}

(* What an exit leaves of the record of p.  (The fault: its loop stays     *)
(* written there.)                                                         *)
EndedHeld(p) == [proc[p] EXCEPT !.st = "free"]
Ended(p)     == NoProc

(* `exit` resolves wait().  (The fault: only `end` does, so that the loop  *)
(* of a process that failed is not resumed.)                               *)
ResumedAtEnd(p, ok) == [l \in Loops |-> IF ok /\ l = proc[p].by THEN "top" ELSE loop[l]]
Resumed(p, ok)      == [l \in Loops |-> IF l = proc[p].by THEN "top" ELSE loop[l]]

Exits(p, ok) ==
    /\ Alive(p)
    /\ loop' = Resumed(p, ok)
    /\ current' = IF current = p THEN None ELSE current
    /\ UNCHANGED <<phase, crashed>>

(* As expected, or with code 255, which is not reported.                   *)
ExitsQuietly(p) ==
    /\ Exits(p, TRUE)
    /\ proc' = [proc EXCEPT ![p] = Ended(p)]
    /\ UNCHANGED <<state, calls>>

(* The first error of a program stream, even of one that was killed: an    *)
(* error stream is created in its place, which nobody waits for and        *)
(* HlsSession does not know.                                               *)
FirstError(p) ==
    /\ Exits(p, FALSE) /\ ~proc[p].hadError
    /\ proc' = [proc EXCEPT ![p] = [st |-> "creating", by |-> None,
                                    heard |-> proc[p].heard, hadError |-> TRUE]]
    /\ UNCHANGED <<state, calls>>

(* The second: the program stream has failed, if anybody listens.  With    *)
(* nobody listening emit('error') throws; that is after `exit` and the     *)
(* kill, the last listener that matters here, and ends in the process's    *)
(* uncaughtException handler, which logs it.                               *)
SecondError(p) ==
    /\ Exits(p, FALSE) /\ proc[p].hadError
    /\ proc' = [proc EXCEPT ![p] = Ended(p)]
    /\ IF proc[p].heard THEN Fail(calls) ELSE UNCHANGED <<state, calls>>

ErrorStreamStarts(p) ==
    /\ proc[p].st = "creating"
    /\ proc' = [proc EXCEPT ![p].st = "running"]
    /\ UNCHANGED <<lockVars, loop, current, crashed>>

ErrorStreamFails(p) ==
    /\ proc[p].st = "creating"
    /\ proc' = [proc EXCEPT ![p] = NoProc]
    /\ UNCHANGED <<lockVars, loop, current, crashed>>

-----------------------------------------------------------------------------
LockHolderStep == StartInternal \/ StartFails \/ BecomesReady \/ ReadinessFails \/ Stopped

LoopStep(l) ==
    \/ LoopTop(l) \/ NothingToPlay(l) \/ RunRejects(l) \/ Play(l)
    \/ SetupFails(l) \/ FallbackFails(l) \/ RetryPlays(l) \/ RetryFails(l)

ProcStep(p) ==
    \/ ExitsQuietly(p) \/ FirstError(p) \/ SecondError(p)
    \/ ErrorStreamStarts(p) \/ ErrorStreamFails(p)

Next ==
    \/ StartBegin \/ StopBegin
    \/ Quiet /\ LockHolderStep
    \/ \E l \in Loops : Quiet /\ LoopStep(l)
    \/ \E p \in Procs : Quiet /\ ProcStep(p)
    \/ \E call \in {"start", "stop"} : Quiet /\ Request(call)

Spec == Init /\ [][Next]_vars

(* The event loop serves what is ready, and an ffmpeg process comes to an  *)
(* end: its program does, or the SIGKILL fifteen seconds after a kill.     *)
Fairness ==
    /\ WF_vars(StartBegin \/ StopBegin)
    /\ SF_vars(Quiet /\ LockHolderStep)
    /\ \A l \in Loops : SF_vars(Quiet /\ LoopStep(l))
    /\ \A p \in Procs : SF_vars(Quiet /\ ProcStep(p))

FairSpec == Spec /\ Fairness

-----------------------------------------------------------------------------
(* A loop that waits for a program waits for exactly one process that is   *)
(* still to exit, and no process counts on a loop that does not wait: no   *)
(* loop hangs on an exit that is past, none is resumed twice.              *)
AwaitedOnce ==
    /\ \A l \in Loops : loop[l] = "playing" =>
          \E p \in Procs : Alive(p) /\ proc[p].by = l
    /\ \A p \in Procs : proc[p].by # None =>
          /\ loop[proc[p].by] = "playing"
          /\ \A q \in Procs : proc[q].by = proc[p].by => q = p

(* A failed session is always about to be stopped: `error` is left for     *)
(* `stopped`, from which start() works again.                              *)
ErrorIsStopped ==
    state = "error" => \E i \in 1..Len(calls) : calls[i] = "stop"

(* A session that says `started` has a loop that will play the next        *)
(* program, or is about to be stopped -- unless its run() has rejected,    *)
(* which nothing notices.                                                  *)
StartedHasLoop ==
    state = "started" /\ ~crashed =>
        \/ \E l \in Loops : loop[l] # "off"
        \/ \E i \in 1..Len(calls) : calls[i] = "stop"

(* Everything a stopped session left behind -- loops, programs that were   *)
(* set up when it was stopped, error streams -- comes to an end, unless it *)
(* is started again.                                                       *)
StoppedGoesQuiet ==
    <>[](state = "stopped") =>
        <>[](/\ \A l \in Loops : loop[l] = "off"
             /\ \A p \in Procs : proc[p] = NoProc)

(* "End this shared session. This will stop the stream for all             *)
(* participants."                                                          *)
StopEndsTranscoding ==
    state = "stopped" => \A p \in Procs : proc[p].st # "running"

=============================================================================
