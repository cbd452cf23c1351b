---------------------------- MODULE OnDemandProofs ----------------------------
(***************************************************************************)
(* Theorems about OnDemand, for all sessions, viewers and lineups and      *)
(* every number of calls, edits and crashes: the cursor stays within the   *)
(* lineup, and pause() and resume() take effect in the order they were     *)
(* made.                                                                   *)
(***************************************************************************)
EXTENDS OnDemand, SequenceTheorems, TLAPS

StateAfter(op) == IF op = "pause" THEN "paused" ELSE "playing"

(* Only the holder of the lock has read the configuration.                 *)
HolderWrites ==
    \A i \in 1..Len(calls) : calls[i].write # None =>
        i = 1 /\ calls[i].write.st = StateAfter(calls[i].op)

(* The last call made is the last of the queue, or the last to have        *)
(* returned.                                                               *)
LastIsLast ==
    last # "none" =>
        IF calls = <<>> THEN cfg = None \/ cfg.st = StateAfter(last)
        ELSE calls[Len(calls)].op = last

IInv == TypeOK /\ HolderWrites /\ LastIsLast

-----------------------------------------------------------------------------
(* Queues and remainders. *)

LEMMA WithoutFirst ==
    ASSUME NEW S, NEW q \in Seq(S), q # <<>>
    PROVE  /\ Tail(q) = SubSeq(q, 1, 0) \o SubSeq(q, 2, Len(q))
           /\ Tail(q) \in Seq(S) /\ Len(Tail(q)) = Len(q) - 1
           /\ \A j \in 1..Len(Tail(q)) : Tail(q)[j] = q[j + 1]
<1>1. SubSeq(q, 1, 0) = <<>>
  BY SubSeqProperties
<1>2. Tail(q) = SubSeq(q, 2, Len(q))
  BY TailIsSubSeq
<1> QED
  BY <1>1, <1>2

LEMMA RemainderRange ==
    ASSUME NEW a \in Int, NEW d \in Nat \ {0}
    PROVE  Remainder(a, d) \in (1 - d)..(d - 1)
<1>1. \A b \in Nat : b % d \in 0..(d - 1)
  OBVIOUS
<1> QED
  BY <1>1 DEF Remainder

LEMMA CallMade ==
    ASSUME IInv, NEW op \in {"pause", "resume"}, NEW at \in Nat, Calls(op, at)
    PROVE  /\ calls' \in Seq(Call) /\ last' = op
           /\ calls' # <<>> /\ calls'[Len(calls')].op = op
           /\ \A i \in 1..Len(calls') : calls'[i].write # None =>
                 i \in 1..Len(calls) /\ calls'[i] = calls[i]
<1> DEFINE new == [op |-> op, at |-> at, write |-> None]
<1>1. new \in Call
  BY DEF Call
<1>2. calls \in Seq(Call) /\ calls' = Append(calls, new) /\ last' = op
  BY DEF IInv, TypeOK, Calls
<1> QED
  BY <1>1, <1>2

(* What removing the holder of the lock leaves.                            *)
LEMMA HolderRemoved ==
    ASSUME IInv, calls # <<>>
    PROVE  /\ Without(1) \in Seq(Call) /\ Len(Without(1)) = Len(calls) - 1
           /\ \A j \in 1..Len(Without(1)) :
                 Without(1)[j] = calls[j + 1] /\ Without(1)[j].write = None
           /\ Without(1) # <<>> => Without(1)[Len(Without(1))] = calls[Len(calls)]
           /\ Without(1) = <<>> => calls[Len(calls)] = calls[1]
<1>1. calls \in Seq(Call)
  BY DEF IInv, TypeOK
<1>2. Without(1) = SubSeq(calls, 1, 0) \o SubSeq(calls, 2, Len(calls))
  BY DEF Without
<1>3. Without(1) = Tail(calls)
  BY <1>1, <1>2, WithoutFirst
<1>4. /\ Without(1) \in Seq(Call) /\ Len(Without(1)) = Len(calls) - 1
      /\ \A j \in 1..Len(Without(1)) : Without(1)[j] = calls[j + 1]
  BY <1>1, <1>3, WithoutFirst
<1>5. ASSUME NEW j \in 1..Len(Without(1)) PROVE Without(1)[j].write = None
  <2>1. j + 1 \in 1..Len(calls) /\ j + 1 # 1 /\ Without(1)[j] = calls[j + 1]
    BY <1>1, <1>4, <1>5
  <2> QED
    BY <2>1 DEF IInv, HolderWrites
<1> QED
  BY <1>1, <1>4, <1>5

LEMMA FreshOK == Fresh \in Config
BY OnDemandAssumption DEF Fresh, Config

LEMMA ZeroOK == 0 \in (1 - Duration)..(Duration - 1)
BY OnDemandAssumption

LEMMA ZeroedOK == \A c \in Config : [c EXCEPT !.cursor = 0] \in Config
BY ZeroOK DEF Config

LEMMA CursorOK ==
    ASSUME TypeOK, cfg # None, NEW t \in Nat
    PROVE  CursorAt(t) \in (1 - Duration)..(Duration - 1)
<1>1. cfg \in Config /\ updated \in Nat
  BY DEF TypeOK
<1>2. cfg.cursor + t - cfg.resumed \in Int
  BY <1>1 DEF Config
<1>3. Remainder(cfg.cursor + t - cfg.resumed, Duration) \in (1 - Duration)..(Duration - 1)
  BY <1>2, RemainderRange, OnDemandAssumption
<1> QED
  BY <1>3, ZeroOK DEF CursorAt

(* What the holder of the lock computes.                                   *)
LEMMA ReadOK ==
    ASSUME TypeOK, NEW i \in 1..Len(calls), Read(i), ~Done(calls[i].op)
    PROVE  /\ calls' \in Seq(Call) /\ Len(calls') = Len(calls)
           /\ calls'[i].write.st = StateAfter(calls[i].op)
           /\ \A j \in 1..Len(calls) :
                 calls'[j].op = calls[j].op /\ (j # i => calls'[j] = calls[j])
<1> DEFINE w == IF calls[i].op = "pause"
                THEN [cfg EXCEPT !.st = "paused", !.cursor = CursorAt(calls[i].at)]
                ELSE [cfg EXCEPT !.st = "playing", !.resumed = now]
<1>1. cfg \in Config /\ calls \in Seq(Call) /\ calls[i] \in Call /\ now \in Nat
  BY DEF TypeOK, Done
<1>2. CursorAt(calls[i].at) \in (1 - Duration)..(Duration - 1)
  BY <1>1, CursorOK DEF Done, Call
<1>3. w \in Config /\ w.st = StateAfter(calls[i].op)
  BY <1>1, <1>2 DEF Config, StateAfter
<1>4. calls' = [calls EXCEPT ![i] = [calls[i] EXCEPT !.write = w]]
  BY <1>1 DEF Read
<1>5. [calls[i] EXCEPT !.write = w] \in Call
  BY <1>1, <1>3 DEF Call
<1>6. /\ [calls[i] EXCEPT !.write = w].write = w
      /\ [calls[i] EXCEPT !.write = w].op = calls[i].op
  BY <1>1 DEF Call
<1> HIDE DEF w
<1> QED
  BY <1>1, <1>3, <1>4, <1>5, <1>6

-----------------------------------------------------------------------------
(* The inductive step. *)

LEMMA TypeStep ==
    ASSUME IInv, [Next]_vars
    PROVE  TypeOK'
<1> USE DEF IInv
<1>1. CASE Tick
  BY <1>1 DEF Tick, TypeOK, viewing, history
<1>2. CASE StateTask
  BY <1>2, CallMade DEF StateTask, TypeOK, viewing, history
<1>3. CASE PauseAll
  BY <1>3, CallMade DEF PauseAll, TypeOK, viewing, history
<1>4. CASE Flush
  BY <1>4 DEF Flush, TypeOK, viewing, history
<1>5. CASE UpdateChannel
  BY <1>5, FreshOK DEF UpdateChannel, Edited, Upset, TypeOK, viewing
<1>6. CASE NewLineup
  BY <1>6, ZeroedOK DEF NewLineup, Edited, Upset, TypeOK, viewing
<1>7. CASE LineupSaved
  BY <1>7 DEF LineupSaved, TypeOK, viewing, history
<1>8. CASE ScheduleSaved
  BY <1>8 DEF ScheduleSaved, Edited, Upset, TypeOK, viewing
<1>9. CASE Crash
  <2>1. cfg' \in Config \cup {None} /\ updated' \in Nat
    BY <1>9, ZeroedOK DEF Crash, TypeOK
  <2>2. calls' \in Seq(Call) /\ watching' \in [Viewers -> Sessions \cup {None, Closing}] /\ beat' \in [Viewers -> Nat]
    BY <1>9 DEF Crash
  <2> QED
    BY <1>9, <2>1, <2>2 DEF Crash, Upset, TypeOK
<1>10. ASSUME NEW s \in Sessions, Create(s) PROVE TypeOK'
  BY <1>10, CallMade DEF Create, TypeOK, viewing, history
<1>11. ASSUME NEW s \in Sessions, Stop(s) PROVE TypeOK'
  <2>1. now \in Nat /\ last \in {"pause", "resume", "none"} /\ calls \in Seq(Call)
    BY DEF TypeOK
  <2>2. calls' \in Seq(Call) /\ last' \in {"pause", "resume", "none"}
    BY <1>11, <2>1, CallMade DEF Stop, MayPause
  <2>3. watching' \in [Viewers -> Sessions \cup {None, Closing}] /\ beat' \in [Viewers -> Nat]
    BY <1>11 DEF Stop, TypeOK
  <2> QED
    BY <1>11, <2>2, <2>3 DEF Stop, TypeOK
<1>12. ASSUME NEW v \in Viewers, Heartbeat(v) PROVE TypeOK'
  BY <1>12 DEF Heartbeat, TypeOK, viewing, history
<1>13. ASSUME NEW v \in Viewers, Leave(v) PROVE TypeOK'
  <2>1. beat[v] \in Nat /\ now \in Nat
    BY DEF TypeOK
  <2>2. calls' \in Seq(Call) /\ last' \in {"pause", "resume", "none"}
    BY <1>13, <2>1, CallMade DEF Leave, MayPause, TypeOK
  <2>3. watching' \in [Viewers -> Sessions \cup {None, Closing}] /\ beat' \in [Viewers -> Nat]
    BY <1>13 DEF Leave, TypeOK
  <2> QED
    BY <1>13, <2>2, <2>3 DEF Leave, TypeOK
<1>14. ASSUME NEW v \in Viewers, NEW s \in Sessions, Join(v, s) PROVE TypeOK'
  BY <1>14, CallMade DEF Join, TypeOK
<1>15. ASSUME NEW i \in 1..Len(calls), Read(i) PROVE TypeOK'
  <2>1. i = 1 /\ calls # <<>> /\ calls \in Seq(Call) /\ calls[1] \in Call
    BY <1>15 DEF Read, Admitted, TypeOK
  <2>2. CASE Done(calls[i].op)
    BY <1>15, <2>1, <2>2, HolderRemoved DEF Read, TypeOK, viewing, history
  <2>3. CASE ~Done(calls[i].op)
    BY <1>15, <2>1, <2>3, ReadOK DEF Read, TypeOK, viewing, history
  <2> QED
    BY <2>2, <2>3
<1>16. ASSUME NEW i \in 1..Len(calls), Write(i) PROVE TypeOK'
  <2>1. i = 1 /\ calls # <<>> /\ calls \in Seq(Call) /\ calls[1] \in Call
    BY <1>16 DEF Write, HolderWrites, TypeOK
  <2>2. calls[1].write \in Config \cup {None}
    BY <2>1 DEF Call
  <2> QED
    BY <1>16, <2>1, <2>2, HolderRemoved DEF Write, TypeOK, viewing, history
<1>17. CASE UNCHANGED vars
  BY <1>17 DEF vars, TypeOK, viewing, history
<1> QED
  BY <1>1, <1>2, <1>3, <1>4, <1>5, <1>6, <1>7, <1>8, <1>9, <1>10, <1>11, <1>12, <1>13, <1>14, <1>15, <1>16, <1>17 DEF Next

LEMMA HolderStep ==
    ASSUME IInv, [Next]_vars
    PROVE  HolderWrites'
<1> USE DEF IInv
<1>1. CASE Tick
  BY <1>1 DEF Tick, HolderWrites, viewing, history
<1>2. CASE StateTask
  <2>1. now \in Nat
    BY DEF TypeOK
  <2> QED
    BY <1>2, <2>1, CallMade DEF StateTask, HolderWrites
<1>3. CASE PauseAll
  <2>1. now \in Nat
    BY DEF TypeOK
  <2> QED
    BY <1>3, <2>1, CallMade DEF PauseAll, HolderWrites
<1>4. CASE Flush
  BY <1>4 DEF Flush, HolderWrites, viewing, history
<1>5. CASE UpdateChannel
  BY <1>5 DEF UpdateChannel, HolderWrites, viewing, history
<1>6. CASE NewLineup
  BY <1>6 DEF NewLineup, HolderWrites, viewing, history
<1>7. CASE LineupSaved
  BY <1>7 DEF LineupSaved, HolderWrites, viewing, history
<1>8. CASE ScheduleSaved
  BY <1>8 DEF ScheduleSaved, HolderWrites, viewing, history
<1>9. CASE Crash
  BY <1>9 DEF Crash, HolderWrites, viewing, history
<1>10. ASSUME NEW s \in Sessions, Create(s) PROVE HolderWrites'
  <2>1. now \in Nat
    BY DEF TypeOK
  <2> QED
    BY <1>10, <2>1, CallMade DEF Create, HolderWrites
<1>11. ASSUME NEW s \in Sessions, Stop(s) PROVE HolderWrites'
  <2>1. now \in Nat
    BY DEF TypeOK
  <2> QED
    BY <1>11, <2>1, CallMade DEF Stop, MayPause, HolderWrites
<1>12. ASSUME NEW v \in Viewers, Heartbeat(v) PROVE HolderWrites'
  BY <1>12 DEF Heartbeat, HolderWrites, viewing, history
<1>13. ASSUME NEW v \in Viewers, Leave(v) PROVE HolderWrites'
  <2>1. beat[v] \in Nat /\ now \in Nat
    BY DEF TypeOK
  <2> QED
    BY <1>13, <2>1, CallMade DEF Leave, MayPause, HolderWrites
<1>14. ASSUME NEW v \in Viewers, NEW s \in Sessions, Join(v, s) PROVE HolderWrites'
  BY <1>14, CallMade DEF Join, HolderWrites
<1>15. ASSUME NEW i \in 1..Len(calls), Read(i) PROVE HolderWrites'
  <2>1. i = 1 /\ calls # <<>> /\ calls \in Seq(Call)
    BY <1>15 DEF Read, Admitted, TypeOK
  <2>2. CASE Done(calls[i].op)
    <3>1. calls' = Without(1)
      BY <1>15, <2>1, <2>2 DEF Read
    <3> QED
      BY <2>1, <3>1, HolderRemoved DEF HolderWrites
  <2>3. CASE ~Done(calls[i].op)
    <3>1. /\ calls'[i].write.st = StateAfter(calls'[i].op) /\ Len(calls') = Len(calls)
          /\ \A j \in 1..Len(calls) : j # i => calls'[j] = calls[j]
      BY <1>15, <2>3, ReadOK
    <3> QED
      BY <2>1, <3>1 DEF HolderWrites
  <2> QED
    BY <2>2, <2>3
<1>16. ASSUME NEW i \in 1..Len(calls), Write(i) PROVE HolderWrites'
  <2>1. i = 1 /\ calls # <<>> /\ calls' = Without(1)
    BY <1>16 DEF Write, HolderWrites, TypeOK
  <2> QED
    BY <2>1, HolderRemoved DEF HolderWrites
<1>17. CASE UNCHANGED vars
  BY <1>17 DEF vars, HolderWrites
<1> QED
  BY <1>1, <1>2, <1>3, <1>4, <1>5, <1>6, <1>7, <1>8, <1>9, <1>10, <1>11, <1>12, <1>13, <1>14, <1>15, <1>16, <1>17 DEF Next

LEMMA LastStep ==
    ASSUME IInv, [Next]_vars
    PROVE  LastIsLast'
<1> USE DEF IInv
<1>1. CASE Tick
  BY <1>1 DEF Tick, LastIsLast, viewing, history
<1>2. CASE StateTask
  <2>1. now \in Nat
    BY DEF TypeOK
  <2> QED
    BY <1>2, <2>1, CallMade DEF StateTask, LastIsLast
<1>3. CASE PauseAll
  <2>1. now \in Nat
    BY DEF TypeOK
  <2> QED
    BY <1>3, <2>1, CallMade DEF PauseAll, LastIsLast
<1>4. CASE Flush
  BY <1>4 DEF Flush, LastIsLast, viewing, history
<1>5. CASE UpdateChannel
  BY <1>5 DEF UpdateChannel, Edited, Upset, LastIsLast
<1>6. CASE NewLineup
  BY <1>6 DEF NewLineup, Edited, Upset, LastIsLast
<1>7. CASE LineupSaved
  BY <1>7 DEF LineupSaved, LastIsLast
<1>8. CASE ScheduleSaved
  BY <1>8 DEF ScheduleSaved, Edited, Upset, LastIsLast
<1>9. CASE Crash
  BY <1>9 DEF Crash, LastIsLast
<1>10. ASSUME NEW s \in Sessions, Create(s) PROVE LastIsLast'
  <2>1. now \in Nat
    BY DEF TypeOK
  <2> QED
    BY <1>10, <2>1, CallMade DEF Create, LastIsLast
<1>11. ASSUME NEW s \in Sessions, Stop(s) PROVE LastIsLast'
  <2>1. now \in Nat
    BY DEF TypeOK
  <2> QED
    BY <1>11, <2>1, CallMade DEF Stop, MayPause, LastIsLast
<1>12. ASSUME NEW v \in Viewers, Heartbeat(v) PROVE LastIsLast'
  BY <1>12 DEF Heartbeat, LastIsLast, viewing, history
<1>13. ASSUME NEW v \in Viewers, Leave(v) PROVE LastIsLast'
  <2>1. beat[v] \in Nat /\ now \in Nat
    BY DEF TypeOK
  <2> QED
    BY <1>13, <2>1, CallMade DEF Leave, MayPause, LastIsLast
<1>14. ASSUME NEW v \in Viewers, NEW s \in Sessions, Join(v, s) PROVE LastIsLast'
  BY <1>14, CallMade DEF Join, LastIsLast
<1>15. ASSUME NEW i \in 1..Len(calls), Read(i) PROVE LastIsLast'
  <2>1. i = 1 /\ calls # <<>> /\ calls \in Seq(Call) /\ cfg' = cfg /\ last' = last
    BY <1>15 DEF Read, Admitted, TypeOK, history
  <2>2. CASE Done(calls[i].op)
    <3>1. calls' = Without(1)
      BY <1>15, <2>1, <2>2 DEF Read
    <3>2. cfg = None \/ cfg.st = StateAfter(calls[1].op)
      BY <2>1, <2>2 DEF Done, StateAfter
    <3> QED
      BY <2>1, <3>1, <3>2, HolderRemoved DEF LastIsLast
  <2>3. CASE ~Done(calls[i].op)
    <3>1. /\ Len(calls') = Len(calls) /\ calls' \in Seq(Call)
          /\ \A j \in 1..Len(calls) : calls'[j].op = calls[j].op
      BY <1>15, <2>3, ReadOK
    <3>2. calls' # <<>> /\ calls'[Len(calls')].op = calls[Len(calls)].op
      BY <2>1, <3>1
    <3> QED
      BY <2>1, <3>2 DEF LastIsLast
  <2> QED
    BY <2>2, <2>3
<1>16. ASSUME NEW i \in 1..Len(calls), Write(i) PROVE LastIsLast'
  <2>1. /\ i = 1 /\ calls # <<>> /\ calls' = Without(1) /\ cfg' = calls[1].write
        /\ cfg'.st = StateAfter(calls[1].op) /\ last' = last
    BY <1>16 DEF Write, HolderWrites, TypeOK, history
  <2> QED
    BY <2>1, HolderRemoved DEF LastIsLast
<1>17. CASE UNCHANGED vars
  BY <1>17 DEF vars, LastIsLast
<1> QED
  BY <1>1, <1>2, <1>3, <1>4, <1>5, <1>6, <1>7, <1>8, <1>9, <1>10, <1>11, <1>12, <1>13, <1>14, <1>15, <1>16, <1>17 DEF Next

-----------------------------------------------------------------------------
LEMMA InitOK == Init => IInv
BY FreshOK, OnDemandAssumption DEF Init, IInv, TypeOK, HolderWrites, LastIsLast

LEMMA StepOK == IInv /\ [Next]_vars => IInv'
BY TypeStep, HolderStep, LastStep DEF IInv

LEMMA Invariant == Spec => []IInv
BY InitOK, StepOK, PTL DEF Spec

(* The configuration of a channel is well-formed, and its cursor within    *)
(* the lineup, in either direction (OnDemandChannelService.pauseChannel).  *)
THEOREM TypeCorrect == Spec => []TypeOK
<1>1. IInv => TypeOK
  BY DEF IInv
<1> QED
  BY Invariant, <1>1, PTL

(* With the one lock per channel, the last pauseChannel() or               *)
(* resumeChannel() made decides the state the channel is left in.          *)
THEOREM CallsTakeEffectInOrder == Spec => []LastCallWins
<1>1. IInv => LastCallWins
  BY DEF IInv, LastIsLast, LastCallWins, StateAfter
<1> QED
  BY Invariant, <1>1, PTL

-----------------------------------------------------------------------------
(* Progress. *)

(* At time n, after p ticks of play: the cursor of a configuration, and    *)
(* where a pause would leave it, are within the ticks played.              *)
Strong(c, n, p) ==
    c # None =>
        /\ c.cursor <= p
        /\ c.st = "playing" =>
              /\ c.resumed <= n /\ n - c.resumed <= p
              /\ c.cursor + n - c.resumed <= p

(* The same of a configuration in force: a lineup that was updated since   *)
(* it was resumed, at u, begins from 0.                                    *)
Weak(c, u, n, p) ==
    c # None =>
        /\ c.cursor <= p
        /\ c.st = "playing" =>
              /\ c.resumed <= n /\ n - c.resumed <= p
              /\ u > c.resumed \/ c.cursor + n - c.resumed <= p

InTime ==
    /\ updated <= now /\ disk.updated <= now
    /\ \A v \in Viewers : beat[v] <= now
    /\ \A i \in 1..Len(calls) : calls[i].at <= now

Writes == \A i \in 1..Len(calls) : Strong(calls[i].write, now, played)
Stored ==
    /\ Weak(cfg, updated, now, played)
    /\ Weak(disk.cfg, disk.updated, now, played)
    /\ Strong(saving, now, played)

PInv == IInv /\ InTime /\ Writes /\ Stored

LEMMA StrongIsWeak ==
    ASSUME NEW c, NEW u, NEW n, NEW p, Strong(c, n, p)
    PROVE  Weak(c, u, n, p)
BY DEF Strong, Weak

LEMMA FreshIsStrong == ASSUME NEW n \in Nat, NEW p \in Nat PROVE Strong(Fresh, n, p)
BY DEF Strong, Fresh

LEMMA UpdatedLater ==
    ASSUME NEW c \in Config \cup {None}, NEW u \in Nat, NEW w \in Nat, NEW n \in Nat, NEW p \in Nat,
           Weak(c, u, n, p), u <= w
    PROVE  Weak(c, w, n, p)
BY DEF Weak, Config

LEMMA TimePasses ==
    ASSUME NEW c \in Config \cup {None}, NEW u \in Nat, NEW n \in Nat, NEW p \in Nat, NEW q \in Nat,
           q = p + 1 \/ (q = p /\ (c = None \/ c.st # "playing"))
    PROVE  /\ Strong(c, n, p) => Strong(c, n + 1, q)
           /\ Weak(c, u, n, p) => Weak(c, u, n + 1, q)
BY DEF Strong, Weak, Config

LEMMA ZeroedIsStrong ==
    ASSUME NEW c \in Config, c # None, NEW u \in Nat, NEW n \in Nat, NEW p \in Nat, Weak(c, u, n, p)
    PROVE  Strong([c EXCEPT !.cursor = 0], n, p)
<1> DEFINE z == [c EXCEPT !.cursor = 0]
<1>1. z.cursor = 0 /\ z.st = c.st /\ z.resumed = c.resumed /\ c.resumed \in Nat
  BY DEF Config
<1> HIDE DEF z
<1>2. Strong(z, n, p)
  BY <1>1 DEF Strong, Weak
<1> QED
  BY <1>2 DEF z

LEMMA ResumedIsStrong ==
    ASSUME NEW c \in Config, c # None, NEW u \in Nat, NEW n \in Nat, NEW p \in Nat, Weak(c, u, n, p)
    PROVE  Strong([c EXCEPT !.st = "playing", !.resumed = n], n, p)
<1> DEFINE z == [c EXCEPT !.st = "playing", !.resumed = n]
<1>1. z.cursor = c.cursor /\ z.resumed = n /\ c.cursor \in Int
  BY OnDemandAssumption DEF Config
<1> HIDE DEF z
<1>2. Strong(z, n, p)
  BY <1>1 DEF Strong, Weak
<1> QED
  BY <1>2 DEF z

LEMMA RemainderBound ==
    ASSUME NEW a \in Int, NEW d \in Nat \ {0}, NEW p \in Nat, a <= p
    PROVE  Remainder(a, d) <= p
<1>1. \A b \in Nat : b % d \in 0..(d - 1) /\ b % d <= b
  OBVIOUS
<1> QED
  BY <1>1 DEF Remainder

LEMMA PausedIsStrong ==
    ASSUME NEW c \in Config, c # None, c.st = "playing",
           NEW k \in Int, NEW n \in Nat, NEW p \in Nat, k <= p
    PROVE  Strong([c EXCEPT !.st = "paused", !.cursor = k], n, p)
<1> DEFINE z == [c EXCEPT !.st = "paused", !.cursor = k]
<1>1. z.cursor = k /\ z.st = "paused"
  BY DEF Config
<1> HIDE DEF z
<1>2. Strong(z, n, p)
  BY <1>1 DEF Strong
<1> QED
  BY <1>2 DEF z

LEMMA CallInTime ==
    ASSUME IInv, InTime, NEW op \in {"pause", "resume"}, NEW at \in Nat, at <= now, Calls(op, at)
    PROVE  \A i \in 1..Len(calls') : calls'[i].at <= now
<1> DEFINE new == [op |-> op, at |-> at, write |-> None]
<1>1. calls \in Seq(Call) /\ calls' = Append(calls, new) /\ new.at = at
  BY DEF IInv, TypeOK, Calls
<1> HIDE DEF new
<1> QED
  BY <1>1 DEF InTime

(* A pause as of any time until now. *)
LEMMA CursorBound ==
    ASSUME TypeOK, cfg # None, cfg.st = "playing", Weak(cfg, updated, now, played),
           NEW t \in Nat, t <= now
    PROVE  CursorAt(t) \in Int /\ CursorAt(t) <= played
<1>1. cfg \in Config /\ updated \in Nat /\ now \in Nat /\ played \in Nat
  BY DEF TypeOK
<1>2. cfg.cursor \in Int /\ cfg.resumed \in Nat
  BY <1>1, OnDemandAssumption DEF Config
<1>3. CASE updated > cfg.resumed
  BY <1>1, <1>3 DEF CursorAt
<1>4. CASE ~(updated > cfg.resumed)
  <2>1. cfg.cursor + t - cfg.resumed <= played
    BY <1>1, <1>2, <1>4 DEF Weak
  <2>2. Remainder(cfg.cursor + t - cfg.resumed, Duration) <= played
    BY <1>1, <1>2, <2>1, RemainderBound, OnDemandAssumption
  <2>3. Remainder(cfg.cursor + t - cfg.resumed, Duration) \in Int
    BY <1>2, RemainderRange, OnDemandAssumption
  <2> QED
    BY <1>4, <2>2, <2>3 DEF CursorAt
<1> QED
  BY <1>3, <1>4

LEMMA TimeStep ==
    ASSUME PInv, [Next]_vars
    PROVE  InTime'
<1> USE DEF PInv, IInv
<1>1. CASE Tick
  <2>1. now \in Nat /\ updated \in Nat /\ disk.updated \in Nat /\ \A v \in Viewers : beat[v] \in Nat
    BY DEF TypeOK
  <2>2. \A i \in 1..Len(calls) : calls[i].at \in Nat
    <3>1. \A i \in 1..Len(calls) : calls[i] \in Call
      BY DEF TypeOK
    <3> QED
      BY <3>1 DEF Call
  <2>3. \A x \in Nat : x <= now => x <= now + 1
    BY <2>1
  <2>4. now' = now + 1 /\ updated' = updated /\ disk' = disk /\ beat' = beat /\ calls' = calls
    BY <1>1 DEF Tick, viewing
  <2> QED
    BY <2>1, <2>2, <2>3, <2>4 DEF InTime
<1>2. CASE StateTask
  <2>1. now \in Nat /\ \A v \in Viewers : beat[v] \in Nat
    BY DEF TypeOK, InTime
  <2>2. PICK at \in Nat : at <= now /\ (calls' = calls \/ \E op \in {"pause", "resume"} : Calls(op, at))
    BY <1>2, <2>1 DEF StateTask, InTime
  <2>3. \A i \in 1..Len(calls') : calls'[i].at <= now
    BY <2>2, CallInTime DEF InTime
  <2>4. now' = now /\ updated' = updated /\ disk' = disk
    BY <1>2 DEF StateTask
  <2>5. \A v \in Viewers : beat'[v] \in {0, beat[v]}
    BY <1>2 DEF StateTask, TypeOK, viewing
  <2> QED
    BY <2>1, <2>3, <2>4, <2>5 DEF InTime
<1>3. CASE PauseAll
  <2>1. now \in Nat /\ \A v \in Viewers : beat[v] \in Nat
    BY DEF TypeOK, InTime
  <2>2. PICK at \in Nat : at <= now /\ (calls' = calls \/ \E op \in {"pause", "resume"} : Calls(op, at))
    BY <1>3, <2>1 DEF PauseAll, InTime
  <2>3. \A i \in 1..Len(calls') : calls'[i].at <= now
    BY <2>2, CallInTime DEF InTime
  <2>4. now' = now /\ updated' = updated /\ disk' = disk
    BY <1>3 DEF PauseAll
  <2>5. \A v \in Viewers : beat'[v] \in {0, beat[v]}
    BY <1>3 DEF PauseAll, TypeOK, viewing
  <2> QED
    BY <2>1, <2>3, <2>4, <2>5 DEF InTime
<1>4. CASE Flush
  BY <1>4 DEF Flush, InTime, TypeOK, viewing, history
<1>5. CASE UpdateChannel
  BY <1>5 DEF UpdateChannel, Edited, Upset, InTime, TypeOK, viewing
<1>6. CASE NewLineup
  BY <1>6 DEF NewLineup, Edited, Upset, InTime, TypeOK, viewing
<1>7. CASE LineupSaved
  BY <1>7 DEF LineupSaved, InTime, TypeOK, viewing, history
<1>8. CASE ScheduleSaved
  BY <1>8 DEF ScheduleSaved, Edited, Upset, InTime, TypeOK, viewing
<1>9. CASE Crash
  BY <1>9 DEF Crash, InTime, TypeOK, viewing, history
<1>10. ASSUME NEW s \in Sessions, Create(s) PROVE InTime'
  <2>1. now \in Nat /\ \A v \in Viewers : beat[v] \in Nat
    BY DEF TypeOK, InTime
  <2>2. PICK at \in Nat : at <= now /\ (calls' = calls \/ \E op \in {"pause", "resume"} : Calls(op, at))
    BY <1>10, <2>1 DEF Create, InTime
  <2>3. \A i \in 1..Len(calls') : calls'[i].at <= now
    BY <2>2, CallInTime DEF InTime
  <2>4. now' = now /\ updated' = updated /\ disk' = disk
    BY <1>10 DEF Create
  <2>5. \A v \in Viewers : beat'[v] \in {0, beat[v]}
    BY <1>10 DEF Create, TypeOK
  <2> QED
    BY <2>1, <2>3, <2>4, <2>5 DEF InTime
<1>11. ASSUME NEW s \in Sessions, Stop(s) PROVE InTime'
  <2>1. now \in Nat /\ \A v \in Viewers : beat[v] \in Nat
    BY DEF TypeOK, InTime
  <2>2. PICK at \in Nat : at <= now /\ (calls' = calls \/ \E op \in {"pause", "resume"} : Calls(op, at))
    BY <1>11, <2>1 DEF Stop, MayPause, InTime
  <2>3. \A i \in 1..Len(calls') : calls'[i].at <= now
    BY <2>2, CallInTime DEF InTime
  <2>4. now' = now /\ updated' = updated /\ disk' = disk
    BY <1>11 DEF Stop
  <2>5. \A v \in Viewers : beat'[v] \in {0, beat[v]}
    BY <1>11 DEF Stop, TypeOK
  <2> QED
    BY <2>1, <2>3, <2>4, <2>5 DEF InTime
<1>12. ASSUME NEW v \in Viewers, Heartbeat(v) PROVE InTime'
  BY <1>12 DEF Heartbeat, InTime, TypeOK, viewing, history
<1>13. ASSUME NEW v \in Viewers, Leave(v) PROVE InTime'
  <2>1. now \in Nat /\ \A w \in Viewers : beat[w] \in Nat
    BY DEF TypeOK, InTime
  <2>2. PICK at \in Nat : at <= now /\ (calls' = calls \/ \E op \in {"pause", "resume"} : Calls(op, at))
    BY <1>13, <2>1 DEF Leave, MayPause, InTime
  <2>3. \A i \in 1..Len(calls') : calls'[i].at <= now
    BY <2>2, CallInTime DEF InTime
  <2>4. now' = now /\ updated' = updated /\ disk' = disk
    BY <1>13 DEF Leave
  <2>5. \A w \in Viewers : beat'[w] \in {0, beat[w]}
    BY <1>13 DEF Leave, TypeOK
  <2> QED
    BY <2>1, <2>3, <2>4, <2>5 DEF InTime
<1>14. ASSUME NEW v \in Viewers, NEW s \in Sessions, Join(v, s) PROVE InTime'
  <2>1. now \in Nat /\ \A w \in Viewers : beat[w] \in Nat
    BY DEF TypeOK, InTime
  <2>2. PICK at \in Nat : at <= now /\ (calls' = calls \/ \E op \in {"pause", "resume"} : Calls(op, at))
    BY <1>14, <2>1 DEF Join, InTime
  <2>3. \A i \in 1..Len(calls') : calls'[i].at <= now
    BY <2>2, CallInTime DEF InTime
  <2>4. now' = now /\ updated' = updated /\ disk' = disk
    BY <1>14 DEF Join
  <2>5. \A w \in Viewers : beat'[w] \in {now, beat[w]}
    BY <1>14 DEF Join, TypeOK
  <2> QED
    BY <2>1, <2>3, <2>4, <2>5 DEF InTime
<1>15. ASSUME NEW i \in 1..Len(calls), Read(i) PROVE InTime'
  <2>1. i = 1 /\ calls # <<>> /\ calls \in Seq(Call) /\ calls[i] \in Call
    BY <1>15 DEF Read, Admitted, TypeOK
  <2>2. CASE Done(calls[i].op)
    <3>1. calls' = Without(1) /\ Len(Without(1)) = Len(calls) - 1
          /\ \A j \in 1..Len(Without(1)) : Without(1)[j] = calls[j + 1]
      BY <1>15, <2>1, <2>2, HolderRemoved DEF Read
    <3>2. \A j \in 1..Len(Without(1)) : j + 1 \in 1..Len(calls)
      BY <2>1, <3>1
    <3> QED
      BY <1>15, <3>1, <3>2 DEF Read, InTime, viewing
  <2>3. CASE ~Done(calls[i].op)
    <3>1. /\ Len(calls') = Len(calls)
          /\ \A j \in 1..Len(calls) : j # i => calls'[j] = calls[j]
      BY <1>15, <2>3, ReadOK
    <3>2. calls'[i].at = calls[i].at
      BY <1>15, <2>1, <2>3 DEF Read, Call
    <3> QED
      BY <1>15, <3>1, <3>2 DEF Read, InTime, viewing
  <2> QED
    BY <2>2, <2>3
<1>16. ASSUME NEW i \in 1..Len(calls), Write(i) PROVE InTime'
  <2>1. i = 1 /\ calls # <<>> /\ calls \in Seq(Call) /\ calls' = Without(1)
    BY <1>16 DEF Write, HolderWrites, TypeOK
  <2>2. Len(Without(1)) = Len(calls) - 1 /\ \A j \in 1..Len(Without(1)) : Without(1)[j] = calls[j + 1]
    BY <2>1, HolderRemoved
  <2>3. \A j \in 1..Len(Without(1)) : j + 1 \in 1..Len(calls)
    BY <2>1, <2>2
  <2> QED
    BY <1>16, <2>1, <2>2, <2>3 DEF Write, InTime, viewing
<1>17. CASE UNCHANGED vars
  BY <1>17 DEF vars, InTime
<1> QED
  BY <1>1, <1>2, <1>3, <1>4, <1>5, <1>6, <1>7, <1>8, <1>9, <1>10, <1>11, <1>12, <1>13, <1>14, <1>15, <1>16, <1>17 DEF Next

LEMMA WriteSet ==
    ASSUME NEW q \in Seq(Call), NEW i \in 1..Len(q), NEW w
    PROVE  [q EXCEPT ![i].write = w][i].write = w
<1>1. q[i] \in Call
  OBVIOUS
<1>2. [q EXCEPT ![i].write = w][i] = [q[i] EXCEPT !.write = w]
  OBVIOUS
<1> QED
  BY <1>1, <1>2 DEF Call

LEMMA WritesStep ==
    ASSUME PInv, [Next]_vars
    PROVE  Writes'
<1> USE DEF PInv, IInv
<1>1. CASE Tick
  <2>1. /\ now' = now + 1 /\ calls' = calls
        /\ played' = IF Playing THEN played + 1 ELSE played
    BY <1>1 DEF Tick
  <2>2. ASSUME NEW i \in 1..Len(calls) PROVE Strong(calls[i].write, now + 1, played')
    <3>1. calls[i] \in Call /\ calls[i].write \in Config \cup {None} /\ now \in Nat /\ played \in Nat
      <4>1. calls[i] \in Call
        BY DEF TypeOK
      <4> QED
        BY <4>1 DEF Call, TypeOK
    <3>2. played' = played + 1 \/ (played' = played /\ (calls[i].write = None \/ calls[i].write.st # "playing"))
      BY <2>1 DEF Playing
    <3>3. played' \in Nat
      BY <3>1, <2>1
    <3>4. Strong(calls[i].write, now, played)
      BY DEF Writes
    <3> QED
      BY <3>1, <3>2, <3>3, <3>4, TimePasses
  <2> QED
    BY <2>1, <2>2 DEF Writes
<1>2. CASE StateTask
  <2>1. now \in Nat /\ \A v \in Viewers : beat[v] \in Nat
    BY DEF TypeOK
  <2>2. PICK at \in Nat : calls' = calls \/ \E op \in {"pause", "resume"} : Calls(op, at)
    BY <1>2, <2>1 DEF StateTask
  <2>3. \A i \in 1..Len(calls') : calls'[i].write # None => i \in 1..Len(calls) /\ calls'[i] = calls[i]
    BY <2>2, CallMade
  <2>4. now' = now /\ played' = played
    BY <1>2 DEF StateTask, history
  <2> QED
    BY <2>3, <2>4 DEF Writes, Strong
<1>3. CASE PauseAll
  <2>1. now \in Nat /\ \A v \in Viewers : beat[v] \in Nat
    BY DEF TypeOK
  <2>2. PICK at \in Nat : calls' = calls \/ \E op \in {"pause", "resume"} : Calls(op, at)
    BY <1>3, <2>1 DEF PauseAll
  <2>3. \A i \in 1..Len(calls') : calls'[i].write # None => i \in 1..Len(calls) /\ calls'[i] = calls[i]
    BY <2>2, CallMade
  <2>4. now' = now /\ played' = played
    BY <1>3 DEF PauseAll, history
  <2> QED
    BY <2>3, <2>4 DEF Writes, Strong
<1>4. CASE Flush
  BY <1>4 DEF Flush, Writes, viewing, history
<1>5. CASE UpdateChannel
  BY <1>5 DEF UpdateChannel, Edited, Upset, Writes
<1>6. CASE NewLineup
  BY <1>6 DEF NewLineup, Edited, Upset, Writes
<1>7. CASE LineupSaved
  BY <1>7 DEF LineupSaved, Edited, Upset, Writes
<1>8. CASE ScheduleSaved
  BY <1>8 DEF ScheduleSaved, Edited, Upset, Writes
<1>9. CASE Crash
  BY <1>9 DEF Crash, Writes, viewing, history
<1>10. ASSUME NEW s \in Sessions, Create(s) PROVE Writes'
  <2>1. now \in Nat /\ \A v \in Viewers : beat[v] \in Nat
    BY DEF TypeOK
  <2>2. PICK at \in Nat : calls' = calls \/ \E op \in {"pause", "resume"} : Calls(op, at)
    BY <1>10, <2>1 DEF Create
  <2>3. \A i \in 1..Len(calls') : calls'[i].write # None => i \in 1..Len(calls) /\ calls'[i] = calls[i]
    BY <2>2, CallMade
  <2>4. now' = now /\ played' = played
    BY <1>10 DEF Create, history
  <2> QED
    BY <2>3, <2>4 DEF Writes, Strong
<1>11. ASSUME NEW s \in Sessions, Stop(s) PROVE Writes'
  <2>1. now \in Nat /\ \A v \in Viewers : beat[v] \in Nat
    BY DEF TypeOK
  <2>2. PICK at \in Nat : calls' = calls \/ \E op \in {"pause", "resume"} : Calls(op, at)
    BY <1>11, <2>1 DEF Stop, MayPause
  <2>3. \A i \in 1..Len(calls') : calls'[i].write # None => i \in 1..Len(calls) /\ calls'[i] = calls[i]
    BY <2>2, CallMade
  <2>4. now' = now /\ played' = played
    BY <1>11 DEF Stop
  <2> QED
    BY <2>3, <2>4 DEF Writes, Strong
<1>12. ASSUME NEW v \in Viewers, Heartbeat(v) PROVE Writes'
  BY <1>12 DEF Heartbeat, Writes, viewing, history
<1>13. ASSUME NEW v \in Viewers, Leave(v) PROVE Writes'
  <2>1. now \in Nat /\ \A w \in Viewers : beat[w] \in Nat
    BY DEF TypeOK
  <2>2. PICK at \in Nat : calls' = calls \/ \E op \in {"pause", "resume"} : Calls(op, at)
    BY <1>13, <2>1 DEF Leave, MayPause
  <2>3. \A i \in 1..Len(calls') : calls'[i].write # None => i \in 1..Len(calls) /\ calls'[i] = calls[i]
    BY <2>2, CallMade
  <2>4. now' = now /\ played' = played
    BY <1>13 DEF Leave
  <2> QED
    BY <2>3, <2>4 DEF Writes, Strong
<1>14. ASSUME NEW v \in Viewers, NEW s \in Sessions, Join(v, s) PROVE Writes'
  <2>1. now \in Nat /\ \A w \in Viewers : beat[w] \in Nat
    BY DEF TypeOK
  <2>2. PICK at \in Nat : calls' = calls \/ \E op \in {"pause", "resume"} : Calls(op, at)
    BY <1>14, <2>1 DEF Join
  <2>3. \A i \in 1..Len(calls') : calls'[i].write # None => i \in 1..Len(calls) /\ calls'[i] = calls[i]
    BY <2>2, CallMade
  <2>4. now' = now /\ played' = played
    BY <1>14 DEF Join
  <2> QED
    BY <2>3, <2>4 DEF Writes, Strong
<1>15. ASSUME NEW i \in 1..Len(calls), Read(i) PROVE Writes'
  <2>1. i = 1 /\ calls # <<>> /\ calls \in Seq(Call) /\ calls[i] \in Call
    BY <1>15 DEF Read, Admitted, TypeOK
  <2>2. CASE Done(calls[i].op)
    <3>1. calls' = Without(1) /\ \A j \in 1..Len(Without(1)) : Without(1)[j].write = None
      BY <1>15, <2>1, <2>2, HolderRemoved DEF Read
    <3> QED
      BY <1>15, <3>1 DEF Read, Writes, Strong, history
  <2>3. CASE ~Done(calls[i].op)
    <3>1. /\ Len(calls') = Len(calls)
          /\ \A j \in 1..Len(calls) : j # i => calls'[j] = calls[j]
      BY <1>15, <2>3, ReadOK
    <3>2. /\ cfg \in Config /\ cfg # None /\ now \in Nat /\ played \in Nat /\ updated \in Nat
          /\ calls[i].at \in Nat /\ calls[i].at <= now
          /\ calls[i].op \in {"pause", "resume"} /\ Weak(cfg, updated, now, played)
      BY <2>1, <2>3 DEF Done, TypeOK, Call, InTime, Stored
    <3>3. CASE calls[i].op = "pause"
      <4>1. cfg.st = "playing"
        BY <2>3, <3>2, <3>3 DEF Done, Config
      <4>2. CursorAt(calls[i].at) \in Int /\ CursorAt(calls[i].at) <= played
        BY <3>2, <4>1, CursorBound
      <4>3. Strong([cfg EXCEPT !.st = "paused", !.cursor = CursorAt(calls[i].at)], now, played)
        BY <3>2, <4>1, <4>2, PausedIsStrong
      <4> DEFINE w == [cfg EXCEPT !.st = "paused", !.cursor = CursorAt(calls[i].at)]
      <4>4. calls'[i].write = w
        <5>1. calls' = [calls EXCEPT ![i].write = w]
          BY <1>15, <2>3, <3>3 DEF Read
        <5> HIDE DEF w
        <5>2. [calls EXCEPT ![i].write = w][i].write = w
          BY <2>1, WriteSet
        <5> QED
          BY <5>1, <5>2
      <4>5. Strong(calls'[i].write, now, played)
        BY <4>3, <4>4
      <4> QED
        BY <1>15, <3>1, <4>5 DEF Read, Writes, history
    <3>4. CASE calls[i].op = "resume"
      <4>1. Strong([cfg EXCEPT !.st = "playing", !.resumed = now], now, played)
        BY <3>2, ResumedIsStrong
      <4>2. calls'[i].write = [cfg EXCEPT !.st = "playing", !.resumed = now]
        BY <1>15, <2>1, <2>3, <3>4 DEF Read, Call
      <4>3. Strong(calls'[i].write, now, played)
        BY <4>1, <4>2
      <4> QED
        BY <1>15, <3>1, <4>3 DEF Read, Writes, history
    <3> QED
      BY <3>2, <3>3, <3>4
  <2> QED
    BY <2>2, <2>3
<1>16. ASSUME NEW i \in 1..Len(calls), Write(i) PROVE Writes'
  <2>1. calls # <<>> /\ calls' = Without(1) /\ now' = now /\ played' = played
    BY <1>16 DEF Write, HolderWrites, TypeOK, history
  <2> QED
    BY <2>1, HolderRemoved DEF Writes, Strong
<1>17. CASE UNCHANGED vars
  BY <1>17 DEF vars, Writes
<1> QED
  BY <1>1, <1>2, <1>3, <1>4, <1>5, <1>6, <1>7, <1>8, <1>9, <1>10, <1>11, <1>12, <1>13, <1>14, <1>15, <1>16, <1>17 DEF Next

LEMMA StoredStep ==
    ASSUME PInv, [Next]_vars
    PROVE  Stored'
<1> USE DEF PInv, IInv
<1>1. CASE Tick
  <2>1. /\ now' = now + 1 /\ cfg' = cfg /\ updated' = updated /\ disk' = disk /\ saving' = saving
        /\ played' = IF Playing THEN played + 1 ELSE played
    BY <1>1 DEF Tick
  <2>2. now \in Nat /\ played \in Nat /\ updated \in Nat /\ disk.updated \in Nat
        /\ cfg \in Config \cup {None} /\ saving \in Config \cup {None} /\ disk.cfg \in Config \cup {None}
    BY DEF TypeOK
  <2>3. played' \in Nat
    BY <2>1, <2>2
  <2>4. ASSUME NEW c \in {cfg, disk.cfg, saving}
        PROVE played' = played + 1 \/ (played' = played /\ (c = None \/ c.st # "playing"))
    BY <2>1 DEF Playing
  <2>5. Weak(cfg, updated, now + 1, played')
    BY <2>2, <2>3, <2>4, TimePasses DEF Stored
  <2>6. Weak(disk.cfg, disk.updated, now + 1, played')
    BY <2>2, <2>3, <2>4, TimePasses DEF Stored
  <2>7. Strong(saving, now + 1, played')
    BY <2>2, <2>3, <2>4, TimePasses DEF Stored
  <2> QED
    BY <2>1, <2>5, <2>6, <2>7 DEF Stored
<1>2. CASE StateTask
  <2>1. now' = now /\ played' = played /\ cfg' = cfg /\ updated' = updated /\ disk' = disk /\ saving' = saving
    BY <1>2 DEF StateTask, history
  <2> QED
    BY <2>1 DEF Stored
<1>3. CASE PauseAll
  <2>1. now' = now /\ played' = played /\ cfg' = cfg /\ updated' = updated /\ disk' = disk /\ saving' = saving
    BY <1>3 DEF PauseAll, history
  <2> QED
    BY <2>1 DEF Stored
<1>4. CASE Flush
  <2>1. /\ now' = now /\ played' = played /\ cfg' = cfg /\ updated' = updated /\ saving' = saving
        /\ disk'.cfg = cfg /\ disk'.updated = updated
    BY <1>4 DEF Flush, history
  <2> QED
    BY <2>1 DEF Stored
<1>5. CASE UpdateChannel
  <2>1. now \in Nat /\ played \in Nat
    BY DEF TypeOK
  <2>2. Weak(Fresh, updated, now, played) /\ Weak(None, updated, now, played)
    BY <2>1, FreshIsStrong, StrongIsWeak DEF Weak
  <2>3. now' = now /\ played' = played /\ updated' = updated /\ disk' = disk /\ saving' = saving /\ cfg' \in {Fresh, None}
    BY <1>5 DEF UpdateChannel
  <2> QED
    BY <2>2, <2>3 DEF Stored
<1>6. CASE NewLineup
  <2>1. now \in Nat /\ played \in Nat /\ updated \in Nat /\ cfg \in Config /\ cfg # None
    BY <1>6 DEF NewLineup, TypeOK
  <2>2. Strong([cfg EXCEPT !.cursor = 0], now, played)
    BY <2>1, ZeroedIsStrong DEF Stored
  <2>3. now' = now /\ played' = played /\ updated' = updated /\ disk' = disk /\ cfg' = cfg
        /\ saving' = [cfg EXCEPT !.cursor = 0]
    BY <1>6 DEF NewLineup
  <2> QED
    BY <2>2, <2>3 DEF Stored
<1>7. CASE LineupSaved
  <2>1. now' = now /\ played' = played /\ updated' = now /\ disk' = disk /\ cfg' = saving /\ saving' = None
    BY <1>7 DEF LineupSaved
  <2>2. Weak(saving, now, now, played) /\ Strong(None, now, played)
    BY StrongIsWeak DEF Stored, Strong
  <2> QED
    BY <2>1, <2>2 DEF Stored
<1>8. CASE ScheduleSaved
  <2>1. now' = now /\ played' = played /\ updated' = now /\ disk' = disk /\ cfg' = cfg /\ saving' = saving
    BY <1>8 DEF ScheduleSaved
  <2>2. Weak(cfg, now, now, played)
    BY UpdatedLater DEF TypeOK, InTime, Stored
  <2> QED
    BY <2>1, <2>2 DEF Stored
<1>9. CASE Crash
  <2>1. now \in Nat /\ played \in Nat /\ disk.updated \in Nat /\ disk.cfg \in Config \cup {None}
    BY DEF TypeOK
  <2>2. now' = now /\ played' = played /\ updated' = disk.updated /\ disk' = disk /\ saving' = None
    BY <1>9 DEF Crash
  <2>3. Weak(cfg', disk.updated, now, played)
    <3>1. CASE cfg' = disk.cfg
      BY <3>1 DEF Stored
    <3>2. CASE disk.cfg # None /\ cfg' = [disk.cfg EXCEPT !.cursor = 0]
      <4>1. Strong([disk.cfg EXCEPT !.cursor = 0], now, played)
        BY <2>1, <3>2, ZeroedIsStrong DEF Stored
      <4> QED
        BY <3>2, <4>1, StrongIsWeak
    <3> QED
      BY <1>9, <3>1, <3>2 DEF Crash
  <2>4. Strong(None, now, played)
    BY DEF Strong
  <2> QED
    BY <2>2, <2>3, <2>4 DEF Stored
<1>10. ASSUME NEW s \in Sessions, Create(s) PROVE Stored'
  <2>1. now' = now /\ played' = played /\ cfg' = cfg /\ updated' = updated /\ disk' = disk /\ saving' = saving
    BY <1>10 DEF Create, history
  <2> QED
    BY <2>1 DEF Stored
<1>11. ASSUME NEW s \in Sessions, Stop(s) PROVE Stored'
  <2>1. now' = now /\ played' = played /\ cfg' = cfg /\ updated' = updated /\ disk' = disk /\ saving' = saving
    BY <1>11 DEF Stop
  <2> QED
    BY <2>1 DEF Stored
<1>12. ASSUME NEW v \in Viewers, Heartbeat(v) PROVE Stored'
  <2>1. now' = now /\ played' = played /\ cfg' = cfg /\ updated' = updated /\ disk' = disk /\ saving' = saving
    BY <1>12 DEF Heartbeat, history
  <2> QED
    BY <2>1 DEF Stored
<1>13. ASSUME NEW v \in Viewers, Leave(v) PROVE Stored'
  <2>1. now' = now /\ played' = played /\ cfg' = cfg /\ updated' = updated /\ disk' = disk /\ saving' = saving
    BY <1>13 DEF Leave
  <2> QED
    BY <2>1 DEF Stored
<1>14. ASSUME NEW v \in Viewers, NEW s \in Sessions, Join(v, s) PROVE Stored'
  <2>1. now' = now /\ played' = played /\ cfg' = cfg /\ updated' = updated /\ disk' = disk /\ saving' = saving
    BY <1>14 DEF Join
  <2> QED
    BY <2>1 DEF Stored
<1>15. ASSUME NEW i \in 1..Len(calls), Read(i) PROVE Stored'
  <2>1. now' = now /\ played' = played /\ cfg' = cfg /\ updated' = updated /\ disk' = disk /\ saving' = saving
    BY <1>15 DEF Read, history
  <2> QED
    BY <2>1 DEF Stored
<1>16. ASSUME NEW i \in 1..Len(calls), Write(i) PROVE Stored'
  <2>1. /\ now' = now /\ played' = played /\ updated' = updated /\ disk' = disk /\ saving' = saving
        /\ cfg' = calls[i].write
    BY <1>16 DEF Write, history
  <2>2. Weak(calls[i].write, updated, now, played)
    BY StrongIsWeak DEF Writes
  <2> QED
    BY <2>1, <2>2 DEF Stored
<1>17. CASE UNCHANGED vars
  BY <1>17 DEF vars, Stored
<1> QED
  BY <1>1, <1>2, <1>3, <1>4, <1>5, <1>6, <1>7, <1>8, <1>9, <1>10, <1>11, <1>12, <1>13, <1>14, <1>15, <1>16, <1>17 DEF Next

LEMMA ProgressInvariant == Spec => []PInv
<1>1. Init => PInv
  <2> SUFFICES ASSUME Init PROVE PInv
    OBVIOUS
  <2>1. InTime /\ Writes
    BY DEF Init, InTime, Writes
  <2>2. Strong(Fresh, now, played) /\ Strong(None, now, played)
    BY FreshIsStrong DEF Init, Strong
  <2>3. Stored
    BY <2>2, StrongIsWeak DEF Init, Stored
  <2> QED
    BY <2>1, <2>3, InitOK DEF PInv
<1>2. PInv /\ [Next]_vars => PInv'
  BY StepOK, TimeStep, WritesStep, StoredStep DEF PInv
<1> QED
  BY <1>1, <1>2, PTL DEF Spec

(* Whatever pauses, resumes, edits and crashes there are, no time is       *)
(* counted twice: the cursor is within the time the channel was playing    *)
(* (OnDemandChannelService.pauseChannel, resumeChannel).                   *)
THEOREM ProgressIsCountedOnce == Spec => []ProgressIsPlayed
<1>1. PInv => ProgressIsPlayed
  BY DEF PInv, Stored, Weak, ProgressIsPlayed
<1> QED
  BY ProgressInvariant, <1>1, PTL

=============================================================================
