------------------------------ MODULE Playout ------------------------------
(***************************************************************************)
(* What a session plays: StreamProgramCalculator, asked by the loop of a   *)
(* session again and again, each time from where the last program it was   *)
(* given ended (transcodedUntil); and what TVGuideService says is on.      *)
(*                                                                         *)
(* A lineup repeats every channel duration from the channel's start on.    *)
(* Indexes count from 0 as in the source.  Times are whole numbers of any  *)
(* unit.  Fillers, the fallback program and the offline screen fill        *)
(* offline time; which of them, and for how long, is left open.            *)
(***************************************************************************)
EXTENDS Integers, Sequences, FiniteSets

CONSTANTS Channels,
          Source,      \* the channel that is watched
          Schedules,   \* the lineups of all channels that are tried
          Slack,       \* constants.SLACK
          Day,         \* OneDayMillis, how long an empty lineup is off
          MaxTime      \* bound: the latest time that is asked for

VARIABLES
    channels,   \* start time, stored duration and lineup of each channel
    now,        \* transcodedUntil
    phase,      \* the request: none, following redirects, answered, failed
    ask,        \* its startTime
    skips,      \* how often it was repeated for a later startTime
    hops,       \* redirectChannels
    context,    \* channelContext
    program,    \* currentProgram
    bound,      \* maxDuration
    stream      \* streamDuration

vars == <<channels, now, phase, ask, skips, hops, context, program, bound, stream>>

(* "mid": a filler, or a later part, of a program that a mid-roll break    *)
(* cuts up; "missing": content whose program, or its media source, is gone.*)
Kinds == {"program", "mid", "missing", "offline", "redirect"}
Absent == -1

-----------------------------------------------------------------------------
(* Lineups. *)

(* calculateStartTimeOffsets: one offset more than there are items.        *)
StartTimeOffsets(items) ==
    LET offset[i \in 0..Len(items)] ==
            IF i = 0 THEN 0 ELSE offset[i - 1] + items[i].dur
    IN  offset

TotalDuration(ch) == StartTimeOffsets(ch.items)[Len(ch.items)]

(* One turn of the loop of binarySearchRange.                              *)
Halved(seq, v, r) ==
    LET mid == r.low + (r.high - r.low) \div 2
    IN  IF r.low + 1 >= r.high THEN r
        ELSE IF seq[mid] > v THEN [r EXCEPT !.high = mid]
        ELSE [r EXCEPT !.low = mid]

(* binarySearchRange over the offsets 0..n of a lineup: n turns are enough.*)
BinarySearchRange(seq, n, v) ==
    LET range[k \in 0..n] ==
            IF k = 0 THEN [low |-> 0, high |-> n] ELSE Halved(seq, v, range[k - 1])
    IN  IF v < 0 \/ v > seq[n] THEN Absent ELSE range[n].low

(* What is stored of a channel: durations of items are positive by the     *)
(* schema of a lineup; the duration of the channel is usually their sum.   *)
IsChannel(ch) ==
    /\ ch \in [start : Nat, duration : Int, items : Seq({ch.items[i] : i \in DOMAIN ch.items})]
    /\ \A i \in DOMAIN ch.items : ch.items[i].kind \in Kinds /\ ch.items[i].dur \in Nat \ {0}

(* A cycle a time can be looked up in; nothing is looked up in no lineup.  *)
(* (Without one the cycle time is NaN, and the search, whose comparisons   *)
(* all fail, comes to the last item with NaN elapsed.)                     *)
HasCycle(ch) == ch.items # << >> => ch.duration > 0

(* The duration of the watched channel may be missing, that of the others  *)
(* may be wrong: nobody puts it right when they are redirected to.         *)
ASSUME PlayoutAssumption ==
    /\ Source \in Channels
    /\ Slack \in Nat \ {0} /\ Day \in Nat \ {0} /\ MaxTime \in Nat
    /\ \A plan \in Schedules :
          /\ DOMAIN plan = Channels
          /\ \A c \in Channels : IsChannel(plan[c]) /\ (c # Source => HasCycle(plan[c]))

(* Who writes a lineup writes its duration as well: the one stored of the  *)
(* watched channel is not longer than its lineup.                          *)
ASSUME DurationAssumption ==
    \A plan \in Schedules : plan[Source].duration <= TotalDuration(plan[Source])

(* A mistake to try: the channel's start is forgotten.                     *)
CycleFromZero(ch, t) == t % ch.duration

(* How far into the current cycle a time is.                               *)
CycleTime(ch, t) ==
    LET since == t - ch.start
    IN  IF since < ch.duration THEN since ELSE since % ch.duration

(* Mistakes the properties are tried against: the position is kept when    *)
(* the next item is taken; the slack is measured from the item's start.    *)
SpotKept(ch, t) ==
    LET n      == Len(ch.items)
        offset == StartTimeOffsets(ch.items)
        at     == CycleTime(ch, t)
        i      == BinarySearchRange(offset, n, at)
    IN  IF i = Absent THEN [index |-> Absent, elapsed |-> 0]
        ELSE [index |-> IF at - offset[i] > ch.items[i + 1].dur - Slack THEN (i + 1) % n ELSE i,
              elapsed |-> at - offset[i]]

SpotFromStart(ch, t) ==
    LET n      == Len(ch.items)
        offset == StartTimeOffsets(ch.items)
        at     == CycleTime(ch, t)
        i      == BinarySearchRange(offset, n, at)
    IN  IF i = Absent THEN [index |-> Absent, elapsed |-> 0]
        ELSE IF at - offset[i] > Slack
             THEN [index |-> (i + 1) % n, elapsed |-> 0]
             ELSE [index |-> i, elapsed |-> at - offset[i]]

(* calculateStreamDuration: the item that is on, or the next one when next *)
(* to nothing is left of it; no item when the stored duration is longer    *)
(* than the lineup (the search throws).                                    *)
Spot(ch, t) ==
    LET n      == Len(ch.items)
        offset == StartTimeOffsets(ch.items)
        at     == CycleTime(ch, t)
        i      == BinarySearchRange(offset, n, at)
    IN  IF i = Absent THEN [index |-> Absent, elapsed |-> 0]
        ELSE IF at - offset[i] > ch.items[i + 1].dur - Slack
             THEN [index |-> (i + 1) % n, elapsed |-> 0]
             ELSE [index |-> i, elapsed |-> at - offset[i]]

Off(d) == [kind |-> "offline", dur |-> d, to |-> Source, index |-> Absent, elapsed |-> 0]

(* getCurrentProgramAndTimeElapsed.  In the place of content that is       *)
(* missing the channel is offline.                                         *)
ShownAs(kind) == IF kind = "missing" THEN "offline" ELSE kind

Current(ch, t) ==
    IF ch.start > t THEN Off(ch.start - t)
    ELSE IF ch.items = << >> THEN Off(Day)
    ELSE LET s    == Spot(ch, t)
             item == ch.items[s.index + 1]
         IN  [kind |-> ShownAs(item.kind), dur |-> item.dur, to |-> item.to,
              index |-> s.index, elapsed |-> s.elapsed]

(* The lookup of a channel at a time throws.                               *)
Lost(ch, t) ==
    /\ ch.start <= t /\ ch.items # << >>
    /\ Spot(ch, t).index = Absent

Left(p) == p.dur - p.elapsed

-----------------------------------------------------------------------------
(* The guide. *)

(* findMidRollAnchorIndex: the first part of a program that a mid-roll     *)
(* break cuts up.                                                          *)
Anchor(items, i) ==
    LET parts == {j \in 0..(i - 1) : /\ items[j + 1].kind \in {"program", "missing"}
                                     /\ \A k \in (j + 1)..i : items[k + 1].kind = "mid"}
    IN  IF parts = {} THEN i ELSE CHOOSE j \in parts : TRUE

(* getCurrentPlayingIndex for a channel that has started and has a lineup; *)
(* a stored duration that is wrong is put right and the search repeated.   *)
GuideIndex(ch, t) ==
    LET n       == Len(ch.items)
        offset  == StartTimeOffsets(ch.items)
        cycle   == IF ch.duration <= 0 THEN TotalDuration(ch) ELSE ch.duration
        i       == BinarySearchRange(offset, n, (t - ch.start) % cycle)
    IN  IF i # Absent THEN i
        ELSE BinarySearchRange(offset, n, (t - ch.start) % TotalDuration(ch))

-----------------------------------------------------------------------------
(* One request: getCurrentLineupItem. *)

Nothing == Off(0)

(* The source channel is looked up, a missing duration put right first.    *)
Lookup(t) ==
    LET ch == IF channels[Source].duration <= 0
              THEN [channels[Source] EXCEPT !.duration = TotalDuration(channels[Source])]
              ELSE channels[Source]
        p  == Current(ch, t)
    IN  /\ channels' = [channels EXCEPT ![Source] = ch]
        /\ ask' = t
        /\ hops' = << >>
        /\ context' = Source
        /\ IF Lost(ch, t)
           THEN phase' = "failed" /\ program' = Nothing /\ bound' = 0 /\ stream' = 0
           ELSE phase' = "resolving" /\ program' = p /\ bound' = Left(p) /\ stream' = Left(p)

Request ==
    /\ phase = "none"
    /\ Lookup(now)
    /\ skips' = 0
    /\ UNCHANGED now

(* A mistake to try: only the channel it has come to is looked for.        *)
JustContext == {context}

(* The channels of the loop so far, and the one it has come to.            *)
Visited == {hops[i] : i \in DOMAIN hops} \cup {context}

(* A redirect back to a channel on the way is an error.                    *)
Recursive ==
    /\ phase = "resolving" /\ program.kind = "redirect"
    /\ program.to \in Visited
    /\ phase' = "failed"
    /\ hops' = Append(hops, context)
    /\ UNCHANGED <<channels, now, ask, skips, context, program, bound, stream>>

(* A redirect to a channel that is gone shows an error for the whole slot. *)
FollowToNowhere ==
    /\ phase = "resolving" /\ program.kind = "redirect"
    /\ program.to \notin Channels
    /\ hops' = Append(hops, context)
    /\ program' = [Nothing EXCEPT !.kind = "error", !.dur = bound]
    /\ UNCHANGED <<channels, now, phase, ask, skips, context, bound, stream>>

(* A mistake to try: what the target shows replaces the slot.              *)
TargetsOwn(p) == Left(p)

(* What the target shows cuts the stream short if it ends before the slot. *)
Shortened(p) == IF Left(p) < bound THEN Left(p) ELSE stream

Follow ==
    /\ phase = "resolving" /\ program.kind = "redirect"
    /\ program.to \in Channels \ Visited
    /\ hops' = Append(hops, context)
    /\ context' = program.to
    /\ IF Lost(channels[program.to], ask)
       THEN phase' = "failed" /\ UNCHANGED <<program, stream>>
       ELSE LET p == Current(channels[program.to], ask)
            IN  phase' = phase /\ program' = p /\ stream' = Shortened(p)
    /\ UNCHANGED <<channels, now, ask, skips, bound>>

(* A lineup of one offline item is off for good.                           *)
ForGood == Len(channels[Source].items) = 1 /\ program.index # Absent

(* So little offline time is left that the request starts over after it.   *)
Short == program.kind = "offline" /\ ~ForGood /\ Left(program) <= Slack + 1

Skip ==
    /\ phase = "resolving"
    /\ Short
    /\ ask + Left(program) + 1 <= MaxTime
    /\ Lookup(ask + Left(program) + 1)
    /\ skips' = skips + 1
    /\ UNCHANGED now

(* createLineupItem: offline time is filled by something no longer.  It is *)
(* of some length because what FillerPickerV2 says to wait is positive;    *)
(* createLineupItem itself does not see to it.                             *)
Fills(d) == 1..d

Answer ==
    /\ phase = "resolving"
    /\ program.kind # "redirect" /\ ~Short
    /\ phase' = "playing"
    /\ \/ program.kind = "offline" /\ stream' \in Fills(stream)
       \/ program.kind # "offline" /\ UNCHANGED stream
    /\ UNCHANGED <<channels, now, ask, skips, hops, context, program, bound>>

-----------------------------------------------------------------------------
(* The session. *)

(* transcodedUntil moves on by what was played.                            *)
Played ==
    /\ phase = "playing"
    /\ now + stream <= MaxTime
    /\ now' = now + stream
    /\ phase' = "none"
    /\ UNCHANGED <<channels, ask, skips, hops, context, program, bound, stream>>

(* The session goes away and another one begins at some later time.        *)
Tune ==
    /\ phase \in {"playing", "failed"}
    /\ now' \in now..MaxTime
    /\ phase' = "none"
    /\ UNCHANGED <<channels, ask, skips, hops, context, program, bound, stream>>

Init ==
    /\ channels \in Schedules
    /\ now \in 0..MaxTime
    /\ phase = "none" /\ ask = 0 /\ skips = 0 /\ hops = << >>
    /\ context = Source /\ program = Nothing /\ bound = 0 /\ stream = 0

Next == Request \/ Recursive \/ FollowToNowhere \/ Follow \/ Skip \/ Answer \/ Played \/ Tune

Spec == Init /\ [][Next]_vars

-----------------------------------------------------------------------------
TypeOK ==
    /\ DOMAIN channels = Channels
    /\ now \in 0..MaxTime /\ ask \in 0..MaxTime /\ skips \in Nat
    /\ phase \in {"none", "resolving", "playing", "failed"}
    /\ hops \in Seq(Channels) /\ context \in Channels
    /\ program.kind \in Kinds \cup {"error"}
    /\ program.index \in Int /\ Left(program) \in Nat
    /\ bound \in Nat /\ stream \in Nat

(* However many channels a redirect goes through, what is played is never  *)
(* longer than the slot of the watched channel it fills, nor than what is  *)
(* left of the program it was cut from, and it is never of no length       *)
(* (getCurrentLineupItem, createLineupItem).                               *)
SlotNotExceeded ==
    phase = "playing" =>
        /\ stream \in 1..bound
        /\ program.kind \in {"program", "mid"} => stream <= Left(program)

(* The stream and the guide find the same item by two pieces of code that  *)
(* say of each other that they are almost identical: what is played of the *)
(* watched channel's own lineup is what the guide lists at that time, or   *)
(* the item after it when less than the slack was left.                    *)
StreamMatchesGuide ==
    LET ch == channels[Source]
        g  == GuideIndex(ch, ask)
        n  == Len(ch.items)
        left == StartTimeOffsets(ch.items)[g + 1] - CycleTime(ch, ask)
    IN  phase = "playing" /\ hops = << >> /\ program.index # Absent =>
            \/ Anchor(ch.items, program.index) = Anchor(ch.items, g)
            \/ program.index = (g + 1) % n /\ left < Slack

(* Redirects end: no channel is gone through twice in one request.         *)
RedirectsEnd ==
    /\ \A i, j \in DOMAIN hops : hops[i] = hops[j] => i = j
    /\ phase = "resolving" => \A i \in DOMAIN hops : hops[i] # context \/ program.kind = "error"

(* When the program that is played is on by the schedule: the occurrence   *)
(* of its item in this cycle, or in the next when the lineup wraps.        *)
Scheduled ==
    LET ch     == channels[Source]
        cycle  == ask - CycleTime(ch, ask)
        begins == cycle + StartTimeOffsets(ch.items)[program.index]
    IN  IF program.elapsed > 0 THEN ask
        ELSE IF begins >= ask THEN begins ELSE begins + ch.duration

(* A session is never behind the guide and never further ahead of it than  *)
(* the slack, or than the short offline times it skipped in this request:  *)
(* what it is ahead does not add up from program to program, though each   *)
(* request starts where the last program ended and not at the real time.   *)
NeverFarAhead ==
    phase = "playing" /\ hops = << >> /\ program.index # Absent =>
        Scheduled - now \in 0..(Slack - 1 + skips * (Slack + 2))

=============================================================================
