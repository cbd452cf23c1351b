------------------------------- MODULE ScanQueue -------------------------------
(***************************************************************************)
(* What services/scanner/MediaSourceScanCoordinator.ts promises to those   *)
(* who ask for scans, with nothing said of scanners, progress or           *)
(* cancellation: a target belongs to one call at a time; the calls that    *)
(* were accepted work one at a time, in the order in which they were; and  *)
(* each works on a target that is its own and hands it back, however the   *)
(* work ends, before the next one begins.                                  *)
(***************************************************************************)
EXTENDS Naturals, Sequences

CONSTANTS Scans, Targets, NoScan

VARIABLES
    target,    \* what each call asks to scan
    owner,     \* the call each target belongs to
    line,      \* the accepted calls in order; the first is at work, or has been
    working    \* the calls at work

vars == <<target, owner, line, working>>

InLine(s) == \E i \in 1..Len(line) : line[i] = s

Init ==
    /\ target \in [Scans -> Targets]
    /\ owner = [t \in Targets |-> NoScan]
    /\ line = <<>>
    /\ working = {}

Take(s) ==
    /\ owner[target[s]] = NoScan
    /\ owner' = [owner EXCEPT ![target[s]] = s]
    /\ UNCHANGED <<target, line, working>>

Join(s) ==
    /\ owner[target[s]] = s /\ ~InLine(s)
    /\ line' = Append(line, s)
    /\ working' = IF line = <<>> THEN {s} ELSE working
    /\ UNCHANGED <<target, owner>>

HandBack(s) ==
    /\ line # <<>> /\ Head(line) = s /\ working = {s}
    /\ owner[target[s]] = s
    /\ owner' = [owner EXCEPT ![target[s]] = NoScan]
    /\ working' = {}
    /\ UNCHANGED <<target, line>>

(* The first leaves the line and the one behind it begins.                 *)
Advance ==
    /\ line # <<>> /\ working = {}
    /\ line' = Tail(line)
    /\ working' = IF Tail(line) = <<>> THEN {} ELSE {Head(Tail(line))}
    /\ UNCHANGED <<target, owner>>

Next ==
    \/ \E s \in Scans : Take(s) \/ Join(s) \/ HandBack(s)
    \/ Advance

Spec == Init /\ [][Next]_vars

=============================================================================
