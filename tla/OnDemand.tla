------------------------------ MODULE OnDemand ------------------------------
(***************************************************************************)
(* The on-demand configuration of one channel: a cursor into its lineup    *)
(* that is meant to advance while somebody watches.  It is parked by       *)
(* pause(), set off by resume(), edited by the channel's owner behind the  *)
(* back of both, and read again from its file after a crash.               *)
(*                                                                         *)
(* Every channel has its own lock and its own file.  Time is counted in    *)
(* ticks from 1, the creation of the channel, whose lineup also starts     *)
(* then; 0 is an absent timestamp.                                         *)
(***************************************************************************)
EXTENDS Integers, Sequences

CONSTANTS
    Sessions,    \* the session types the channel is watched through
    Direct,      \* concat sessions: no heartbeats, and they emit `stop`
    Viewers,     \* connections, by client
    Internal,    \* those of Tunarr's own ffmpeg, which feeds a concat session
    None,        \* `undefined`: no session, no configuration, nothing read
    Closing,     \* connected to an instance of a concat session that has stopped
    Duration,    \* of the lineup
    MaxTime,     \* bound: ticks
    MaxCalls,    \* bound: calls at the lock when another is made
    MaxUpsets    \* bound: changes of the channel and of its lineup, and crashes

ASSUME OnDemandAssumption ==
    /\ Duration \in Nat \ {0}
    /\ {MaxTime, MaxCalls, MaxUpsets} \subseteq Nat
    /\ Direct \subseteq Sessions /\ None \notin Sessions /\ Closing \notin Sessions
    /\ Internal \subseteq Viewers

VARIABLES
    now,
    open,         \* the types a session exists of; nobody may be connected yet
    watching,     \* the session each viewer is connected to
    beat,         \* the last heartbeat of each connection
    calls,        \* the lock of the channel: pause() and resume(), holder first
    cfg,          \* onDemandConfig in memory
    updated,      \* lastUpdated of the lineup
    saving,       \* what a saveLineup() has computed and not yet stored
    disk,         \* cfg and updated as the file has them
    upsets,       \* edits and crashes so far
    last,         \* history: the last call made, "none" after an edit or a crash
    played        \* history: ticks spent Playing

vars == <<now, open, watching, beat, calls, cfg, updated, saving, disk,
          upsets, last, played>>
viewing == <<open, watching, beat>>
history == <<upsets, last, played>>

Config == [st : {"paused", "playing"}, cursor : (1 - Duration)..(Duration - 1), resumed : Nat]
(* A call, with what it has computed from the configuration it has read.   *)
Call   == [op : {"pause", "resume"}, at : Nat, write : Config \cup {None}]

TypeOK ==
    /\ now \in Nat \ {0}
    /\ open \subseteq Sessions
    /\ watching \in [Viewers -> Sessions \cup {None, Closing}]
    /\ beat \in [Viewers -> Nat]
    /\ calls \in Seq(Call)
    /\ cfg \in Config \cup {None} /\ saving \in Config \cup {None}
    /\ updated \in Nat
    /\ disk \in [cfg : Config \cup {None}, updated : Nat]
    /\ upsets \in Nat
    /\ last \in {"pause", "resume", "none"} /\ played \in Nat

(* createChannel, and updateChannel when the request says on-demand. *)
Fresh == [st |-> "paused", cursor |-> 0, resumed |-> 0]

Init ==
    /\ now = 1
    /\ open = {}
    /\ watching = [v \in Viewers |-> None] /\ beat = [v \in Viewers |-> 0]
    /\ calls = <<>> /\ saving = None
    /\ cfg = Fresh /\ updated = 1
    /\ disk = [cfg |-> Fresh, updated |-> 1]
    /\ upsets = 0 /\ last = "none" /\ played = 0

-----------------------------------------------------------------------------
(* Sessions and viewers, as far as they call the service. *)

Calls(op, at) ==
    /\ calls' = Append(calls, [op |-> op, at |-> at, write |-> None])
    /\ last' = op
Room == Len(calls) < MaxCalls

Watched(s) == \E v \in Viewers : watching[v] = s

(* In memory, in the file, or in a write on its way to either.             *)
Playing ==
    \E c \in {cfg, disk.cfg, saving} \cup {calls[i].write : i \in 1..Len(calls)} :
        c # None /\ c.st = "playing"

Tick ==
    /\ now < MaxTime
    /\ now' = now + 1
    /\ played' = IF Playing THEN played + 1 ELSE played
    /\ UNCHANGED <<viewing, calls, cfg, updated, saving, disk, upsets, last>>

(* A session is created: the channel is resumed, and not waited for.       *)
Create(s) ==
    /\ s \notin open /\ Room
    /\ open' = open \cup {s}
    /\ Calls("resume", 0)
    /\ UNCHANGED <<now, watching, beat, cfg, updated, saving, disk, upsets, played>>

(* addConnection, once the session is ready.  A session that is there      *)
(* resumes nothing, but every response of a concat session does.           *)
Join(v, s) ==
    /\ s \in open /\ watching[v] = None
    /\ v \in Internal => s \notin Direct
    /\ watching' = [watching EXCEPT ![v] = s]
    /\ beat' = [beat EXCEPT ![v] = now]
    /\ IF s \in Direct /\ cfg # None THEN Room /\ Calls("resume", 0)
                                    ELSE UNCHANGED <<calls, last>>
    /\ UNCHANGED <<now, open, cfg, updated, saving, disk, upsets, played>>

Heartbeat(v) ==
    /\ watching[v] \in Sessions \ Direct /\ beat[v] # now
    /\ beat' = [beat EXCEPT ![v] = now]
    /\ UNCHANGED <<now, open, watching, calls, cfg, updated, saving, disk, history>>

(* Pauses the channel, or not, as of one of these times.                   *)
MayPause(times) == UNCHANGED <<calls, last>> \/ \E at \in times : Calls("pause", at)

(* removeConnection.  When none but Tunarr's own are left of the session   *)
(* the channel is paused, as of the last heartbeat.  For a concat session  *)
(* it is the connections of the underlying session that count, if there is *)
(* one, and the time is now, or that of the connection: both left open.    *)
Leave(v) ==
    /\ watching[v] # None /\ Room
    /\ watching' = [watching EXCEPT ![v] = None]
    /\ beat' = [beat EXCEPT ![v] = 0]
    /\ IF watching[v] \in Direct \cup {Closing} THEN MayPause({now, beat[v]})
       ELSE IF \E w \in Viewers \ (Internal \cup {v}) : watching[w] = watching[v]
       THEN UNCHANGED <<calls, last>>
       ELSE Calls("pause", beat[v])
    /\ UNCHANGED <<now, open, cfg, updated, saving, disk, upsets, played>>

(* A session stops, by itself or by request.  The connections of a plain   *)
(* one are gone with it, and nothing is paused; the responses of a concat  *)
(* session close later, and its `stop` pauses the channel if the session   *)
(* that counts has no connections.                                         *)
Stop(s) ==
    /\ s \in open /\ Room
    /\ open' = open \ {s}
    /\ watching' = [v \in Viewers |->
           IF watching[v] # s THEN watching[v] ELSE IF s \in Direct THEN Closing ELSE None]
    /\ beat' = [v \in Viewers |-> IF watching[v] = s /\ s \notin Direct THEN 0 ELSE beat[v]]
    /\ IF s \in Direct THEN MayPause({now}) ELSE UNCHANGED <<calls, last>>
    /\ UNCHANGED <<now, cfg, updated, saving, disk, upsets, played>>

(* OnDemandChannelStateTask: there are sessions, and nobody is connected,  *)
(* not even Tunarr.                                                        *)
StateTask ==
    /\ Room
    /\ open # {} /\ \A s \in open : ~Watched(s)
    /\ Calls("pause", now)
    /\ UNCHANGED <<now, viewing, cfg, updated, saving, disk, upsets, played>>

-----------------------------------------------------------------------------
(* The service. *)

(* The lock is served in order.  (The fault: each consumer of the service  *)
(* has its own, "lock[ing] a channel only against itself".)                *)
PrivateLocks(i) == i \in 1..Len(calls)
Admitted(i)     == i = 1

(* What a pause() at time t stores.  The remainder is JavaScript's.  (The  *)
(* fault: the lineup is not repeated.)                                     *)
Endless(a, d)   == a
Remainder(a, d) == IF a >= 0 THEN a % d ELSE -((-a) % d)
CursorAt(t) ==
    IF updated > cfg.resumed THEN 0
    ELSE Remainder(cfg.cursor + t - cfg.resumed, Duration)

(* Nothing to do: on-demand is off, or the channel is in that state.  (The *)
(* fault: a paused channel is paused again.)                               *)
ResumedAlready(op) == cfg = None \/ (op = "resume" /\ cfg.st = "playing")
Done(op) ==
    cfg = None \/ cfg.st = (IF op = "pause" THEN "paused" ELSE "playing")

Without(i) == SubSeq(calls, 1, i - 1) \o SubSeq(calls, i + 1, Len(calls))

(* The configuration is loaded, and what will be stored is computed ...    *)
Read(i) ==
    /\ i \in 1..Len(calls) /\ Admitted(i) /\ calls[i].write = None
    /\ calls' = IF Done(calls[i].op) THEN Without(i)
                ELSE [calls EXCEPT ![i].write =
                        IF calls[i].op = "pause"
                        THEN [cfg EXCEPT !.st = "paused", !.cursor = CursorAt(calls[i].at)]
                        ELSE [cfg EXCEPT !.st = "playing", !.resumed = now]]
    /\ UNCHANGED <<now, viewing, cfg, updated, saving, disk, history>>

(* ... and takes effect once the file's own lock has been passed.          *)
Write(i) ==
    /\ i \in 1..Len(calls) /\ calls[i].write # None
    /\ cfg' = calls[i].write
    /\ calls' = Without(i)
    /\ UNCHANGED <<now, viewing, updated, saving, disk, history>>

(* The file follows.                                                       *)
Flush ==
    /\ disk # [cfg |-> cfg, updated |-> updated]
    /\ disk' = [cfg |-> cfg, updated |-> updated]
    /\ UNCHANGED <<now, viewing, calls, cfg, updated, saving, history>>

-----------------------------------------------------------------------------
(* Who else writes the configuration, without the service's lock. *)

Upset  == upsets < MaxUpsets /\ upsets' = upsets + 1
Edited == Upset /\ last' = "none"

(* updateChannel: on-demand is switched on (also when it was on: the       *)
(* cursor is reset) or off.                                                *)
UpdateChannel ==
    /\ Edited
    /\ cfg' \in {Fresh, None}
    /\ UNCHANGED <<now, viewing, calls, updated, saving, disk, played>>

(* A new lineup: what is read from the configuration is stored later, with *)
(* a new cursor.                                                           *)
NewLineup ==
    /\ Edited /\ saving = None /\ cfg # None
    /\ saving' = [cfg EXCEPT !.cursor = 0]
    /\ UNCHANGED <<now, viewing, calls, cfg, updated, disk, played>>

LineupSaved ==
    /\ saving # None
    /\ cfg' = saving /\ saving' = None /\ updated' = now
    /\ last' = "none"
    /\ UNCHANGED <<now, viewing, calls, disk, upsets, played>>

(* A schedule is saved: the configuration is left alone.                   *)
ScheduleSaved ==
    /\ Edited /\ updated # now
    /\ updated' = now
    /\ UNCHANGED <<now, viewing, calls, cfg, saving, disk, played>>

(* The process dies and is started again.  The schema of the file reads a  *)
(* negative cursor as 0.                                                   *)
Crash ==
    /\ Upset
    /\ open' = {}
    /\ watching' = [v \in Viewers |-> None] /\ beat' = [v \in Viewers |-> 0]
    /\ calls' = <<>> /\ saving' = None /\ last' = "none"
    /\ cfg' = IF disk.cfg = None \/ disk.cfg.cursor >= 0 THEN disk.cfg
              ELSE [disk.cfg EXCEPT !.cursor = 0]
    /\ updated' = disk.updated
    /\ UNCHANGED <<now, disk, played>>

(* Server.shutdown: pauseAllChannels() is waited for, which stops short of *)
(* the sessions; then the process is gone.                                 *)
PauseAll ==
    /\ upsets < MaxUpsets /\ Room
    /\ Calls("pause", now)
    /\ UNCHANGED <<now, viewing, cfg, updated, saving, disk, upsets, played>>

-----------------------------------------------------------------------------
Next ==
    \/ Tick \/ StateTask \/ PauseAll
    \/ \E s \in Sessions : Create(s) \/ Stop(s)
    \/ \E v \in Viewers : Heartbeat(v) \/ Leave(v) \/ \E s \in Sessions : Join(v, s)
    \/ \E i \in 1..Len(calls) : Read(i) \/ Write(i)
    \/ Flush
    \/ UpdateChannel \/ NewLineup \/ LineupSaved \/ ScheduleSaved
    \/ Crash

Spec == Init /\ [][Next]_vars

-----------------------------------------------------------------------------
(* pause() and resume() take effect in the order they were made: once all  *)
(* of them have returned the channel is in the state of the last, however  *)
(* the others were suspended -- unless its owner or a crash came between.  *)
LastCallWins ==
    calls = <<>> /\ cfg # None /\ last # "none" =>
        cfg.st = IF last = "pause" THEN "paused" ELSE "playing"

(* The cursor never runs ahead of the time the channel was `playing`: the  *)
(* several pauses that follow the end of a session (of the connection, the *)
(* session, the periodic task, the server) count it once.                  *)
ProgressIsPlayed == cfg # None => cfg.cursor <= played

=============================================================================
