----------------------------- MODULE HlsPlaylist -----------------------------
(***************************************************************************)
(* The playlist of an HLS session: HlsSession.trimPlaylist with            *)
(* HlsPlaylistMutator, the deletion of old segments it sets off, and the   *)
(* segment numbers players have asked for (BaseHlsSession._minByIp).       *)
(*                                                                         *)
(* ffmpeg appends segments to one raw playlist, numbered from 0; a         *)
(* program boundary leaves a discontinuity before the first segment of the *)
(* next program.  Every poll cuts a window out of the raw playlist.  Time  *)
(* is counted in segments since the stream was started.                    *)
(***************************************************************************)
EXTENDS Integers, Sequences, FiniteSets

CONSTANTS
    Clients,       \* players, by address
    MaxKeep,       \* maxSegmentsToKeep
    KeepBefore,    \* segmentsToKeepBefore
    Leads,         \* values livePlaylistLeadMs can have, in segments, or Unpaced
    MaxSegments,   \* bound: segments (and time) of one run of the stream
    MaxBreaks,     \* bound: program boundaries in one run of the stream
    MaxPolls       \* bound: polls waiting for the session lock

Unpaced  == -1     \* livePlaylistLeadMs is undefined
NotAsked == -1     \* the address is not in _minByIp
NoView   == [first |-> 0, last |-> -1, disc |-> 0]

ASSUME PlaylistAssumption ==
    /\ MaxKeep \in Nat \ {0}
    /\ KeepBefore \in Nat
    /\ Leads \subseteq Nat \cup {Unpaced}
    /\ MaxSegments \in Nat
    /\ MaxBreaks \in Nat
    /\ MaxPolls \in Nat

VARIABLES
    lead,       \* sessionOptions.livePlaylistLeadMs
    total,      \* segments in the raw playlist
    clock,      \* time since #playlistStart
    breaks,     \* the segments that follow a discontinuity
    files,      \* the segment files that no deletion has been set off for
    deleteDue,  \* 30 seconds have gone by since #lastDelete
    asked,      \* _minByIp
    lastDisc,   \* #lastDiscontinuitySequence; NotAsked before the first poll
    polls,      \* trimPlaylist calls waiting for the lock, with their filter
    view,       \* what each player was last told
    deletedFor  \* history: the largest filter a deletion of this run was made for

vars == <<lead, total, clock, breaks, files, deleteDue, asked,
          lastDisc, polls, view, deletedFor>>
streamVars == <<total, clock, breaks>>
fileVars   == <<files, deleteDue, deletedFor>>
clientVars == <<asked, lastDisc, polls, view>>

View == [first : Nat, last : Nat \cup {-1}, disc : Nat]
Poll == [by : Clients, min : Nat]

TypeOK ==
    /\ lead \in Leads
    /\ total \in Nat /\ clock \in Nat
    /\ breaks \subseteq 1..(total - 1)
    /\ files \subseteq 0..(total - 1)
    /\ deleteDue \in BOOLEAN
    /\ asked \in [Clients -> Nat \cup {NotAsked}]
    /\ lastDisc \in Nat \cup {NotAsked}
    /\ polls \in Seq(Poll)
    /\ view \in [Clients -> View]
    /\ deletedFor \in Nat

Init ==
    /\ lead \in Leads
    /\ total = 0 /\ clock = 0 /\ breaks = {}
    /\ files = {} /\ deleteDue = TRUE /\ deletedFor = 0
    /\ asked = [c \in Clients |-> NotAsked]
    /\ lastDisc = NotAsked
    /\ polls = <<>>
    /\ view = [c \in Clients |-> NoView]

-----------------------------------------------------------------------------
(* HlsPlaylistMutator.  m is the filter's segment number throughout.       *)

Smaller(a, b) == IF a <= b THEN a ELSE b
Larger(a, b)  == IF a >= b THEN a ELSE b

(* The number of segments that may be shown: with a lead, those that start *)
(* before now + lead.  (The first starts with the clock, so one is due.)   *)
Published == IF lead = Unpaced THEN total ELSE Smaller(total, clock + lead + 1)

(* The filter keeps what the slowest client asked for and some before it.  *)
(* (The faults: segmentsToKeepBefore is forgotten; the result may fall     *)
(* below the first segment.)                                               *)
FilterExact(m)     == m
FilterUnclamped(m) == m - KeepBefore
FilterFrom(m)      == Larger(m - KeepBefore, 0)
FilterCount(m)     == Larger(Published - FilterFrom(m), 0)

(* A paced window reaches back as far as the filter does, an unpaced one   *)
(* is the first MaxKeep segments of the filter; neither is shorter than    *)
(* the last MaxKeep segments.  (The fault: a paced window is cut like an   *)
(* unpaced one.)                                                           *)
First(m) ==
    IF Published <= MaxKeep THEN 0
    ELSE IF FilterCount(m) >= MaxKeep THEN FilterFrom(m) ELSE Published - MaxKeep
LastOfFirst(m) == Smaller(First(m) + MaxKeep, Published) - 1
Last(m) == IF lead = Unpaced
           THEN Smaller(First(m) + MaxKeep, Published) - 1 ELSE Published - 1

(* Discontinuities up to the first listed segment are counted rather than  *)
(* shown, one more than in the playlist before at most.                    *)
Folded(m) == Cardinality({b \in breaks : b <= First(m)})
DiscontinuitySequence(m) ==
    IF lastDisc # NotAsked THEN Smaller(Folded(m), lastDisc + 1) ELSE Folded(m)

(* deleteOldSegments(trimResult.sequence) reads the directory and unlinks, *)
(* one by one and without the lock, every segment before the first listed. *)
(* (The fault: the first listed segment goes as well.)                     *)
OldAndFirst(m) == {n \in files : n <= First(m)}
OldSegments(m) == {n \in files : n < First(m)}

-----------------------------------------------------------------------------
(* ffmpeg and the clock. *)

Segment ==
    /\ total < MaxSegments
    /\ total' = total + 1
    /\ files' = files \cup {total}
    /\ \/ UNCHANGED breaks
       \/ /\ total > 0 /\ Cardinality(breaks) < MaxBreaks
          /\ breaks' = breaks \cup {total}
    /\ UNCHANGED <<lead, clock, deleteDue, deletedFor, clientVars>>

Tick ==
    /\ lead # Unpaced /\ clock < MaxSegments
    /\ clock' = clock + 1
    /\ UNCHANGED <<lead, total, breaks, fileVars, clientVars>>

DeleteInterval ==
    /\ ~deleteDue
    /\ deleteDue' = TRUE
    /\ UNCHANGED <<lead, streamVars, files, deletedFor, clientVars>>

(* stop() and start() of the same session: the directory is cleared and    *)
(* ffmpeg counts from 0, while _minByIp and #lastDiscontinuitySequence     *)
(* stay.  Players fetch a playlist before they go on.  Assumed: a deletion *)
(* of the old run still under way has done its readdir and unlinks before  *)
(* ffmpeg writes a segment of the same number; nothing in the code waits.  *)
Restart ==
    /\ total > 0
    /\ total' = 0 /\ clock' = 0 /\ breaks' = {}
    /\ files' = {} /\ deletedFor' = 0
    /\ view' = [c \in Clients |-> NoView]
    /\ UNCHANGED <<lead, deleteDue, asked, lastDisc, polls>>

-----------------------------------------------------------------------------
(* Players. *)

(* minSegmentRequested.                                                    *)
Requested == {asked[c] : c \in Clients} \ {NotAsked}
IsMinRequested(m) == IF Requested = {} THEN m = 0
                     ELSE m \in Requested /\ \A n \in Requested : m <= n

(* GET stream.m3u8: trimPlaylist reads the filter, then asks for the lock. *)
RequestPlaylist(c) ==
    /\ Len(polls) < MaxPolls
    /\ \A i \in 1..Len(polls) : polls[i].by # c
    /\ \E m \in Requested \cup {0} :
         IsMinRequested(m) /\ polls' = Append(polls, [by |-> c, min |-> m])
    /\ UNCHANGED <<lead, streamVars, fileVars, asked, lastDisc, view>>

(* The lock is ours: read, cut, and perhaps delete.                        *)
Serve ==
    LET m == Head(polls).min
        c == Head(polls).by
    IN  /\ polls # <<>> /\ total > 0
        /\ polls' = Tail(polls)
        /\ lastDisc' = DiscontinuitySequence(m)
        /\ view' = [view EXCEPT ![c] =
                      [first |-> First(m), last |-> Last(m),
                       disc |-> DiscontinuitySequence(m)]]
        /\ IF deleteDue
           THEN /\ files' = files \ OldSegments(m)
                /\ deleteDue' = FALSE
                /\ deletedFor' = Larger(deletedFor, m)
           ELSE UNCHANGED fileVars
        /\ UNCHANGED <<lead, streamVars, asked>>

(* There is no playlist file yet: 404.                                     *)
ServeNothing ==
    /\ polls # <<>> /\ total = 0
    /\ polls' = Tail(polls)
    /\ UNCHANGED <<lead, streamVars, fileVars, asked, lastDisc, view>>

(* A player gets on with its playlist, or seeks in it.  The number counts  *)
(* whether or not the file is still there.                                 *)
RequestSegment(c) ==
    \E n \in view[c].first..view[c].last :
        /\ asked' = [asked EXCEPT ![c] = n]
        /\ UNCHANGED <<lead, streamVars, fileVars, lastDisc, polls, view>>

(* removeConnection, by the sweep of stale connections.                    *)
RemoveConnection(c) ==
    /\ asked[c] # NotAsked
    /\ asked' = [asked EXCEPT ![c] = NotAsked]
    /\ UNCHANGED <<lead, streamVars, fileVars, lastDisc, polls, view>>

-----------------------------------------------------------------------------
ClientStep(c) == RequestPlaylist(c) \/ RequestSegment(c) \/ RemoveConnection(c)

Next ==
    \/ Segment \/ Tick \/ DeleteInterval \/ Restart \/ Serve \/ ServeNothing
    \/ \E c \in Clients : ClientStep(c)

Spec == Init /\ [][Next]_vars

-----------------------------------------------------------------------------
(* The end of a paced playlist never goes back for a player, whatever      *)
(* other players do: the reason for cutting paced windows differently      *)
(* ("would pin the playlist's end to that client's downloads").            *)
EdgeNeverRecedes ==
    [][\A c \in Clients :
          view[c] # NoView /\ view'[c] # NoView /\ lead # Unpaced =>
              view'[c].last >= view[c].last]_vars

(* deleteOldSegments runs after the lock is released and for a player that *)
(* may be far ahead: it still spares KeepBefore segments before the one    *)
(* the slowest player had asked for when the poll came in, and the last    *)
(* MaxKeep.                                                                *)
DeletionKeepsMargin ==
    [][\A n \in files \ files' : polls' # polls =>
          /\ n < Head(polls).min - KeepBefore
          /\ n < Published - MaxKeep]_vars

(* A playlist names a segment that is gone or going only if the slowest    *)
(* player's number has fallen since the deletion (a player came, went back *)
(* or was dropped): nothing else in the code (segmentFloor is not used)    *)
(* keeps deleted segments out of it.                                       *)
ListedUnlessMinimumFell ==
    \A i \in 1..Len(polls) :
        LET m == polls[i].min IN
        (total > 0 /\ m >= deletedFor) =>
            \A n \in First(m)..Last(m) : n \in files

=============================================================================
