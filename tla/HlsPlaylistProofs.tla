-------------------------- MODULE HlsPlaylistProofs --------------------------
(***************************************************************************)
(* What holds of HLS playlists for every window length, margin, lead and   *)
(* number of players.                                                      *)
(***************************************************************************)
EXTENDS HlsPlaylist, FiniteSetTheorems, TLAPS

(* Deleted segments lie before the filter of the last deletion and before  *)
(* the last MaxKeep published ones.                                        *)
DeletedOK ==
    \A n \in 0..(total - 1) :
        n \notin files => n < FilterFrom(deletedFor) /\ n < Published - MaxKeep

(* No player of a paced playlist has been told of more than is published.  *)
ViewOK ==
    lead # Unpaced => \A c \in Clients : view[c] # NoView => view[c].last <= Published - 1

IInv == TypeOK /\ DeletedOK /\ ViewOK

-----------------------------------------------------------------------------
(* The window. *)

(* What is published is part of what there is.                             *)
LEMMA PublishedOK ==
    ASSUME TypeOK
    PROVE  Published \in Nat /\ Published <= total /\ lead \in Nat \cup {-1}
BY PlaylistAssumption DEF TypeOK, Published, Smaller, Unpaced

(* A window starts at or before the filter and leaves at least MaxKeep     *)
(* segments; it ends with what is published.                               *)
LEMMA WindowOK ==
    ASSUME TypeOK, NEW m \in Nat
    PROVE  /\ FilterFrom(m) \in Nat
           /\ First(m) \in Nat
           /\ First(m) <= FilterFrom(m)
           /\ First(m) = 0 \/ First(m) <= Published - MaxKeep
           /\ Last(m) \in Nat \cup {-1}
           /\ Last(m) <= Published - 1
           /\ lead # Unpaced => Last(m) = Published - 1
<1>1. Published \in Nat  BY PublishedOK
<1>2. MaxKeep \in Nat \ {0} /\ KeepBefore \in Nat  BY PlaylistAssumption
<1>3. FilterFrom(m) \in Nat  BY <1>2 DEF FilterFrom, Larger
<1>4. /\ First(m) \in Nat /\ First(m) <= FilterFrom(m)
      /\ First(m) = 0 \/ First(m) <= Published - MaxKeep
    BY <1>1, <1>2, <1>3 DEF First, FilterCount, Larger
<1>5. /\ Last(m) \in Nat \cup {-1} /\ Last(m) <= Published - 1
      /\ lead # Unpaced => Last(m) = Published - 1
    BY <1>1, <1>2, <1>4 DEF Last, Smaller
<1> QED  BY <1>3, <1>4, <1>5

(* A larger filter never reaches further back.                             *)
LEMMA FilterMonotone ==
    ASSUME NEW m \in Nat, NEW n \in Nat, m <= n
    PROVE  FilterFrom(m) <= FilterFrom(n)
BY PlaylistAssumption DEF FilterFrom, Larger

(* The discontinuity sequence is a number.                                 *)
LEMMA DiscOK ==
    ASSUME TypeOK, NEW m \in Nat
    PROVE  DiscontinuitySequence(m) \in Nat
<1> DEFINE B == {b \in breaks : b <= First(m)}
<1>1. IsFiniteSet(B)
  <2>1. breaks \subseteq 1..(total - 1) /\ total \in Nat  BY DEF TypeOK
  <2>2. IsFiniteSet(1..(total - 1))  BY <2>1, FS_Interval
  <2> QED  BY <2>1, <2>2, FS_Subset
<1>2. Folded(m) \in Nat  BY <1>1, FS_CardinalityType DEF Folded
<1> QED  BY <1>2 DEF DiscontinuitySequence, Smaller, TypeOK, NotAsked

-----------------------------------------------------------------------------
THEOREM InitOK == Init => IInv
<1> SUFFICES ASSUME Init PROVE IInv  OBVIOUS
<1>1. TypeOK
    BY DEF Init, TypeOK, NotAsked, NoView, View, Poll
<1>2. DeletedOK  BY DEF Init, DeletedOK
<1>3. ViewOK  BY DEF Init, ViewOK
<1> QED  BY <1>1, <1>2, <1>3 DEF IInv

(* One step keeps the types.                                               *)
LEMMA TypeStep == TypeOK /\ [Next]_vars => TypeOK'
<1> SUFFICES ASSUME TypeOK, [Next]_vars PROVE TypeOK'  OBVIOUS
<1> USE DEF TypeOK
<1>1. CASE Segment
  <2>0. total' = total + 1 /\ total \in Nat  BY <1>1 DEF Segment
  <2>2. breaks' = breaks \/ (total > 0 /\ breaks' = breaks \cup {total})  BY <1>1 DEF Segment
  <2>3. files' = files \cup {total}  BY <1>1 DEF Segment
  <2>4. breaks' \subseteq 1..(total' - 1)
    <3> SUFFICES ASSUME NEW n \in breaks' PROVE n \in 1..(total' - 1)  OBVIOUS
    <3>1. CASE n \in breaks  BY <2>0, <3>1
    <3>2. CASE n = total /\ total > 0  BY <2>0, <3>2
    <3> QED  BY <2>2, <3>1, <3>2
  <2>5. files' \subseteq 0..(total' - 1)
    <3> SUFFICES ASSUME NEW n \in files' PROVE n \in 0..(total' - 1)  OBVIOUS
    <3>1. CASE n \in files  BY <2>0, <3>1
    <3>2. CASE n = total  BY <2>0, <3>2
    <3> QED  BY <2>3, <3>1, <3>2
  <2>1. total' \in Nat /\ breaks' \subseteq 1..(total' - 1) /\ files' \subseteq 0..(total' - 1)
      BY <2>0, <2>4, <2>5
  <2> QED  BY <1>1, <2>1 DEF Segment, clientVars
<1>2. CASE Tick  BY <1>2 DEF Tick, fileVars, clientVars
<1>3. CASE DeleteInterval  BY <1>3 DEF DeleteInterval, streamVars, clientVars
<1>4. CASE Restart  BY <1>4 DEF Restart, NoView, View
<1>5. CASE Serve
  <2> DEFINE m == Head(polls).min
             c == Head(polls).by
  <2>1. Head(polls) \in Poll /\ Tail(polls) \in Seq(Poll)
      BY <1>5 DEF Serve
  <2>2. m \in Nat /\ c \in Clients  BY <2>1 DEF Poll
  <2>3. /\ First(m) \in Nat /\ Last(m) \in Nat \cup {-1}
        /\ DiscontinuitySequence(m) \in Nat
      BY <2>2, WindowOK, DiscOK
  <2>4. lastDisc' \in Nat  BY <1>5, <2>3 DEF Serve
  <2>5. view' \in [Clients -> View]  BY <1>5, <2>2, <2>3 DEF Serve, View
  <2>6. files' \subseteq files /\ deleteDue' \in BOOLEAN /\ deletedFor' \in Nat
      BY <1>5, <2>2 DEF Serve, fileVars, Larger
  <2> QED  BY <1>5, <2>1, <2>4, <2>5, <2>6 DEF Serve, streamVars
<1>6. CASE ServeNothing
    BY <1>6 DEF ServeNothing, streamVars, fileVars
<1>7. ASSUME NEW c \in Clients, RequestPlaylist(c) PROVE TypeOK'
  <2>1. Requested \cup {0} \subseteq Nat  BY DEF Requested
  <2>2. polls' \in Seq(Poll)
      BY <1>7, <2>1 DEF RequestPlaylist, Poll
  <2> QED  BY <1>7, <2>2 DEF RequestPlaylist, streamVars, fileVars
<1>8. ASSUME NEW c \in Clients, RequestSegment(c) PROVE TypeOK'
  <2>1. view[c].first \in Nat /\ view[c].last \in Nat \cup {-1}  BY DEF View
  <2>2. asked' \in [Clients -> Nat \cup {NotAsked}]  BY <1>8, <2>1 DEF RequestSegment
  <2> QED  BY <1>8, <2>2 DEF RequestSegment, streamVars, fileVars
<1>9. ASSUME NEW c \in Clients, RemoveConnection(c) PROVE TypeOK'
    BY <1>9 DEF RemoveConnection, streamVars, fileVars
<1>10. CASE UNCHANGED vars
    BY <1>10 DEF vars
<1> QED
    BY <1>1, <1>2, <1>3, <1>4, <1>5, <1>6, <1>7, <1>8, <1>9, <1>10
    DEF Next, ClientStep

(* Steps that touch neither the stream nor the files nor a view.           *)
LEMMA Unconcerned ==
    ASSUME DeletedOK, ViewOK, UNCHANGED <<lead, total, clock, files, deletedFor, view>>
    PROVE  DeletedOK' /\ ViewOK'
BY DEF DeletedOK, ViewOK, FilterFrom, Published

(* As the stream grows and time goes by, more is published.                *)
LEMMA SmallerMonotone ==
    ASSUME NEW p \in Nat, NEW q \in Nat, NEW c \in Nat, NEW d \in Nat, NEW l \in Nat,
           p <= q, c <= d
    PROVE  /\ Smaller(q, d + l + 1) \in Nat
           /\ Smaller(p, c + l + 1) <= Smaller(q, d + l + 1)
BY DEF Smaller

LEMMA BelowMargin ==
    ASSUME NEW n \in Int, NEW a \in Nat, NEW b \in Nat, NEW k \in Nat, a <= b
    PROVE  /\ n < a - k => n < b - k
           /\ n <= a - 1 => n <= b - 1
OBVIOUS

LEMMA PublishedGrows ==
    ASSUME TypeOK, TypeOK', lead' = lead, total <= total', clock <= clock'
    PROVE  Published' \in Nat /\ Published <= Published'
<1>1. /\ total \in Nat /\ total' \in Nat /\ clock \in Nat /\ clock' \in Nat
      /\ lead \in Nat \cup {-1}
    BY PublishedOK DEF TypeOK
<1>2. CASE lead = -1
  <2>1. Published = total /\ Published' = total'  BY <1>2 DEF Published, Unpaced
  <2> QED  BY <1>1, <2>1, Zenon
<1>3. CASE lead \in Nat
  <2>1. lead # Unpaced  BY <1>3 DEF Unpaced
  <2>2. /\ Published = Smaller(total, clock + lead + 1)
        /\ Published' = Smaller(total', clock' + lead + 1)
      BY <2>1, Zenon DEF Published, Smaller
  <2> QED  BY <1>1, <1>3, <2>2, SmallerMonotone, Zenon
<1> QED  BY <1>1, <1>2, <1>3

LEMMA Growth ==
    ASSUME TypeOK, DeletedOK, ViewOK, TypeOK', lead' = lead,
           total <= total', clock <= clock',
           \A n \in 0..(total' - 1) : n \notin files' => n \in 0..(total - 1) /\ n \notin files,
           deletedFor' = deletedFor, view' = view
    PROVE  DeletedOK' /\ ViewOK'
<1>0. /\ total \in Nat /\ total' \in Nat /\ clock \in Nat /\ clock' \in Nat
      /\ lead \in Nat \cup {-1} /\ MaxKeep \in Nat /\ Published \in Nat
    BY PublishedOK, PlaylistAssumption DEF TypeOK
<1>1. Published' \in Nat /\ Published <= Published'
    BY PublishedGrows
<1>2. FilterFrom(deletedFor)' = FilterFrom(deletedFor)
    BY DEF FilterFrom
<1>3. DeletedOK'
  <2> SUFFICES ASSUME NEW n \in 0..(total' - 1), n \notin files'
               PROVE  n < FilterFrom(deletedFor) /\ n < Published' - MaxKeep
      BY <1>2 DEF DeletedOK
  <2>1. n \in 0..(total - 1) /\ n \notin files  OBVIOUS
  <2>2. n \in Int /\ n < FilterFrom(deletedFor) /\ n < Published - MaxKeep
      BY <2>1 DEF DeletedOK
  <2>3. n < Published' - MaxKeep  BY <1>0, <1>1, <2>2, BelowMargin, Zenon
  <2> QED  BY <2>2, <2>3
<1>4. ViewOK'
  <2> SUFFICES ASSUME lead # Unpaced, NEW c \in Clients, view[c] # NoView
               PROVE  view[c].last <= Published' - 1
      BY DEF ViewOK
  <2>1. view[c].last \in Int /\ view[c].last <= Published - 1
      BY DEF ViewOK, TypeOK, View
  <2> QED  BY <1>0, <1>1, <2>1, BelowMargin, Zenon
<1> QED  BY <1>3, <1>4

LEMMA InvStep == IInv /\ [Next]_vars => IInv'
<1> SUFFICES ASSUME TypeOK, DeletedOK, ViewOK, [Next]_vars PROVE IInv'
    BY DEF IInv
<1>0. TypeOK'  BY TypeStep
<1>1. CASE Segment
  <2>1. /\ lead' = lead /\ total' = total + 1 /\ clock' = clock
        /\ files' = files \cup {total} /\ deletedFor' = deletedFor /\ view' = view
      BY <1>1 DEF Segment, clientVars
  <2>2. total \in Nat /\ total <= total' /\ clock <= clock'  BY <2>1 DEF TypeOK
  <2>3. \A n \in 0..(total' - 1) : n \notin files' => n \in 0..(total - 1) /\ n \notin files
      BY <2>1, <2>2
  <2> QED  BY <1>0, <2>1, <2>2, <2>3, Growth DEF IInv
<1>2. CASE Tick
  <2>1. /\ lead' = lead /\ total' = total /\ clock' = clock + 1
        /\ files' = files /\ deletedFor' = deletedFor /\ view' = view
      BY <1>2 DEF Tick, fileVars, clientVars
  <2>2. total <= total' /\ clock <= clock'  BY <2>1 DEF TypeOK
  <2> QED  BY <1>0, <2>1, <2>2, Growth DEF IInv
<1>3. CASE DeleteInterval
    BY <1>0, <1>3, Unconcerned DEF DeleteInterval, streamVars, clientVars, IInv
<1>4. CASE Restart
  <2>1. DeletedOK'  BY <1>4 DEF Restart, DeletedOK
  <2>2. ViewOK'  BY <1>4 DEF Restart, ViewOK
  <2> QED  BY <1>0, <2>1, <2>2 DEF IInv
<1>5. CASE Serve
  <2> DEFINE m == Head(polls).min
             c == Head(polls).by
  <2>1. Head(polls) \in Poll  BY <1>5 DEF Serve, TypeOK
  <2>2. m \in Nat /\ c \in Clients  BY <2>1 DEF Poll
  <2>3. UNCHANGED <<lead, total, clock>> /\ Published' = Published
      BY <1>5 DEF Serve, streamVars, Published
  <2>4. DeletedOK'
    <3>1. CASE ~deleteDue
      <4>1. UNCHANGED <<files, deletedFor>>  BY <1>5, <3>1 DEF Serve, fileVars
      <4> QED  BY <2>3, <4>1 DEF DeletedOK, FilterFrom
    <3>2. CASE deleteDue
      <4>1. /\ files' = files \ OldSegments(m) /\ deletedFor' = Larger(deletedFor, m)
            /\ deletedFor \in Nat /\ deletedFor' \in Nat
            /\ deletedFor <= deletedFor' /\ m <= deletedFor'
          BY <1>5, <2>2, <3>2 DEF Serve, Larger, TypeOK
      <4>2. /\ FilterFrom(deletedFor) <= FilterFrom(deletedFor')
            /\ FilterFrom(m) <= FilterFrom(deletedFor')
          BY <2>2, <4>1, FilterMonotone
      <4>3. FilterFrom(deletedFor)' = FilterFrom(deletedFor')  BY DEF FilterFrom
      <4>4. SUFFICES ASSUME NEW n \in 0..(total - 1), n \notin files'
                     PROVE  n < FilterFrom(deletedFor') /\ n < Published - MaxKeep
          BY <2>3, <4>3 DEF DeletedOK
      <4>5. /\ FilterFrom(deletedFor) \in Nat /\ FilterFrom(deletedFor') \in Nat
            /\ FilterFrom(m) \in Nat /\ First(m) \in Nat
            /\ First(m) <= FilterFrom(m)
            /\ First(m) = 0 \/ First(m) <= Published - MaxKeep
            /\ Published \in Nat /\ MaxKeep \in Nat
          BY <2>2, <4>1, WindowOK, PublishedOK, PlaylistAssumption
      <4>6. CASE n \notin files
          BY <4>2, <4>5, <4>6 DEF DeletedOK
      <4>7. CASE n \in files
        <5>1. n < First(m)  BY <4>1, <4>4, <4>7 DEF OldSegments
        <5> QED  BY <4>2, <4>5, <5>1
      <4> QED  BY <4>6, <4>7
    <3> QED  BY <3>1, <3>2
  <2>5. ViewOK'
    <3> SUFFICES ASSUME lead # Unpaced, NEW d \in Clients, view'[d] # NoView
                 PROVE  view'[d].last <= Published - 1
        BY <2>3 DEF ViewOK
    <3>1. CASE d = c
      <4>1. view'[c].last = Last(m)  BY <1>5, <2>2 DEF Serve, TypeOK
      <4> QED  BY <2>2, <3>1, <4>1, WindowOK
    <3>2. CASE d # c
      <4>1. view'[d] = view[d]  BY <1>5, <2>2, <3>2 DEF Serve, TypeOK
      <4> QED  BY <4>1 DEF ViewOK
    <3> QED  BY <3>1, <3>2
  <2> QED  BY <1>0, <2>4, <2>5 DEF IInv
<1>6. CASE ServeNothing
    BY <1>0, <1>6, Unconcerned DEF ServeNothing, streamVars, fileVars, IInv
<1>7. ASSUME NEW c \in Clients, ClientStep(c) PROVE IInv'
  <2>1. UNCHANGED <<lead, total, clock, files, deletedFor, view>>
      BY <1>7 DEF ClientStep, RequestPlaylist, RequestSegment, RemoveConnection,
                  streamVars, fileVars
  <2> QED  BY <1>0, <2>1, Unconcerned DEF IInv
<1>8. CASE UNCHANGED vars
    BY <1>0, <1>8, Unconcerned DEF vars, IInv
<1> QED
    BY <1>1, <1>2, <1>3, <1>4, <1>5, <1>6, <1>7, <1>8 DEF Next

LEMMA Invariance == Spec => []IInv
<1> QED  BY InitOK, InvStep, PTL DEF Spec

(* The types of the playlist's state, for every value of the constants.    *)
THEOREM TypeCorrect == Spec => []TypeOK
<1>1. IInv => TypeOK  BY DEF IInv
<1> QED  BY <1>1, Invariance, PTL

-----------------------------------------------------------------------------
(* As long as the slowest player's number does not fall, a playlist names  *)
(* no segment that was deleted.                                            *)
LEMMA ListedIfKept == IInv => ListedUnlessMinimumFell
<1> SUFFICES ASSUME IInv, NEW i \in 1..Len(polls), total > 0,
                    polls[i].min >= deletedFor,
                    NEW n \in First(polls[i].min)..Last(polls[i].min)
             PROVE  n \in files
    BY DEF ListedUnlessMinimumFell
<1> DEFINE m == polls[i].min
<1>0. polls[i] \in Poll  BY DEF IInv, TypeOK
<1>1. m \in Nat /\ deletedFor \in Nat /\ total \in Nat
    BY <1>0 DEF IInv, TypeOK, Poll
<1>2. /\ First(m) \in Nat /\ Last(m) \in Int /\ Last(m) <= Published - 1
      /\ Published \in Nat /\ Published <= total /\ MaxKeep \in Nat \ {0}
  <2>1. Last(m) \in Nat \cup {-1}  BY <1>1, WindowOK DEF IInv
  <2> QED  BY <1>1, <2>1, WindowOK, PublishedOK, PlaylistAssumption DEF IInv
<1>3. n \in 0..(total - 1)  BY <1>1, <1>2
<1>4. SUFFICES ASSUME n \notin files PROVE FALSE  OBVIOUS
<1>5. n < FilterFrom(deletedFor) /\ n < Published - MaxKeep
    BY <1>3, <1>4 DEF IInv, DeletedOK
<1>6. FilterFrom(deletedFor) <= FilterFrom(m)  BY <1>1, FilterMonotone
<1>7. FilterFrom(m) \in Nat /\ FilterFrom(deletedFor) \in Nat
    BY <1>1, WindowOK DEF IInv
<1>8. First(m) = FilterFrom(m) \/ First(m) = Published - MaxKeep
    BY <1>2, <1>3, <1>5 DEF First
<1> QED  BY <1>2, <1>3, <1>5, <1>6, <1>7, <1>8

THEOREM ListedSegmentsExist == Spec => []ListedUnlessMinimumFell
<1> QED  BY ListedIfKept, Invariance, PTL

-----------------------------------------------------------------------------
(* A step that deletes segments is a served poll.                          *)
LEMMA MarginStep ==
    ASSUME IInv, [Next]_vars, NEW n \in files \ files', polls' # polls
    PROVE  n < Head(polls).min - KeepBefore /\ n < Published - MaxKeep
<1>1. Serve
    BY DEF Next, vars, Segment, Tick, DeleteInterval, Restart, ServeNothing,
           ClientStep, RequestPlaylist, RequestSegment, RemoveConnection,
           fileVars, clientVars
<1> DEFINE m == Head(polls).min
<1>2. m \in Nat
  <2>1. Head(polls) \in Poll  BY <1>1 DEF Serve, IInv, TypeOK
  <2> QED  BY <2>1 DEF Poll
<1>3. n \in OldSegments(m)  BY <1>1 DEF Serve, fileVars
<1>4. n \in Nat /\ n < First(m)  BY <1>3 DEF OldSegments, IInv, TypeOK
<1>5. /\ First(m) \in Nat /\ First(m) <= FilterFrom(m) /\ FilterFrom(m) \in Nat
      /\ First(m) = 0 \/ First(m) <= Published - MaxKeep
      /\ Published \in Nat /\ MaxKeep \in Nat /\ KeepBefore \in Nat
    BY <1>2, WindowOK, PublishedOK, PlaylistAssumption DEF IInv
<1>6. n < m - KeepBefore  BY <1>2, <1>4, <1>5 DEF FilterFrom, Larger
<1> QED  BY <1>4, <1>5, <1>6

(* A deletion spares the margin before the slowest player's segment and    *)
(* the last MaxKeep published ones, whatever the players do.               *)
THEOREM DeletionsSpareMargin == Spec => DeletionKeepsMargin
<1>1. IInv /\ [Next]_vars =>
        [\A n \in files \ files' : polls' # polls =>
            /\ n < Head(polls).min - KeepBefore
            /\ n < Published - MaxKeep]_vars
    BY MarginStep
<1> QED  BY <1>1, Invariance, PTL DEF Spec, DeletionKeepsMargin

LEMMA EdgeStep ==
    ASSUME IInv, [Next]_vars, NEW c \in Clients,
           view[c] # NoView, view'[c] # NoView, lead # Unpaced
    PROVE  view'[c].last >= view[c].last
<1>1. view[c].last \in Int  BY DEF IInv, TypeOK, View
<1>2. CASE view'[c] = view[c]  BY <1>1, <1>2
<1>3. CASE view'[c] # view[c]
  <2>1. Serve
      BY <1>3 DEF Next, vars, Segment, Tick, DeleteInterval, Restart, ServeNothing,
                  ClientStep, RequestPlaylist, RequestSegment, RemoveConnection,
                  clientVars, IInv, TypeOK
  <2> DEFINE m == Head(polls).min
  <2>2. m \in Nat
    <3>1. Head(polls) \in Poll  BY <2>1 DEF Serve, IInv, TypeOK
    <3> QED  BY <3>1 DEF Poll
  <2>3. view'[c].last = Last(m)  BY <1>3, <2>1 DEF Serve, IInv, TypeOK
  <2>4. Last(m) = Published - 1 /\ Published \in Nat
      BY <2>2, WindowOK, PublishedOK DEF IInv
  <2>5. view[c].last <= Published - 1  BY DEF IInv, ViewOK
  <2> QED  BY <1>1, <2>3, <2>4, <2>5
<1> QED  BY <1>2, <1>3

(* The end of a paced playlist never goes back for a player.               *)
THEOREM PacedEdge == Spec => EdgeNeverRecedes
<1>1. IInv /\ [Next]_vars =>
        [\A c \in Clients :
            view[c] # NoView /\ view'[c] # NoView /\ lead # Unpaced =>
                view'[c].last >= view[c].last]_vars
    BY EdgeStep
<1> QED  BY <1>1, Invariance, PTL DEF Spec, EdgeNeverRecedes

=============================================================================
