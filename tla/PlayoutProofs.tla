--------------------------- MODULE PlayoutProofs ---------------------------
(***************************************************************************)
(* What a session plays is right for every lineup: the running sums of the *)
(* durations and the binary search over them find the item that is on, the *)
(* guide finds the same one, slots are kept, redirects end, and a session  *)
(* does not run ahead of the guide.                                        *)
(*                                                                         *)
(* The sums and the search are recursive functions.  What they return is   *)
(* shown by induction on sets of numbers, which follows from the theorem   *)
(* that < is well-founded on Nat.                                          *)
(***************************************************************************)
EXTENDS Playout, SequenceTheorems, WellFoundedInduction, TLAPS

-----------------------------------------------------------------------------
(* Induction. *)

(* A set of numbers that is not empty has a least one. *)
LEMMA Least ==
    ASSUME NEW S, S \subseteq Nat, S # {}
    PROVE  \E x \in S : \A y \in S : x <= y
<1> DEFINE R == OpToRel(<, Nat)
<1>1. IsWellFoundedOn(R, Nat)  BY NatLessThanWellFounded
<1>2. \A x, y \in Nat : x < y => <<x, y>> \in R  BY DEF OpToRel
<1> HIDE DEF R
<1>3. \E x \in S : \A y \in S : ~(<<y, x>> \in R)  BY <1>1, WFMin
<1>4. \E x \in S : \A y \in S : ~(y < x)  BY <1>2, <1>3, Zenon
<1> QED  BY <1>4

(* Induction, for the set of the numbers of which something holds. *)
LEMMA Induction ==
    ASSUME NEW S, S \subseteq Nat, 0 \in S, \A k \in S : k + 1 \in S
    PROVE  S = Nat
<1>1. SUFFICES ASSUME Nat \ S # {} PROVE FALSE  BY Zenon
<1>2. PICK x \in Nat \ S : \A y \in Nat \ S : x <= y
  <2>1. Nat \ S \subseteq Nat  OBVIOUS
  <2> QED  BY <1>1, <2>1, Least
<1>3. x # 0 /\ x - 1 \in Nat  BY <1>2
<1>4. x - 1 \in S  BY <1>2, <1>3
<1> QED  BY <1>3, <1>4

-----------------------------------------------------------------------------
(* The running sums of a lineup. *)

(* What the running sums rely on: a lineup of items that take time.        *)
Durations(items) ==
    /\ items \in Seq({items[i] : i \in DOMAIN items})
    /\ \A i \in DOMAIN items : items[i].dur \in Nat \ {0}

(* There is a function that satisfies the recursion. *)
LEMMA OffsetsDefined ==
    ASSUME NEW items, Durations(items)
    PROVE  StartTimeOffsets(items) =
             [i \in 0..Len(items) |-> IF i = 0 THEN 0 ELSE StartTimeOffsets(items)[i - 1] + items[i].dur]
<1> DEFINE P(f, k) == f = [i \in 0..k |-> IF i = 0 THEN 0 ELSE f[i - 1] + items[i].dur]
           S == {k \in Nat : \E f : P(f, k)}
<1>1. 0 \in S
  <2>1. P([i \in 0..0 |-> 0], 0)  OBVIOUS
  <2> QED  BY <2>1
<1>2. ASSUME NEW k \in S PROVE k + 1 \in S
  <2>1. PICK f : P(f, k)  BY <1>2
  <2> DEFINE g == [i \in 0..(k + 1) |-> IF i <= k THEN f[i] ELSE f[k] + items[k + 1].dur]
  <2>2. ASSUME NEW i \in 0..(k + 1) PROVE g[i] = IF i = 0 THEN 0 ELSE g[i - 1] + items[i].dur
    <3>1. CASE i <= k
      <4>1. i \in 0..k /\ g[i] = f[i]  BY <3>1
      <4>2. f[i] = IF i = 0 THEN 0 ELSE f[i - 1] + items[i].dur  BY <2>1, <4>1, Zenon
      <4>3. i # 0 => g[i - 1] = f[i - 1]  BY <4>1
      <4> QED  BY <4>1, <4>2, <4>3
    <3>2. CASE i = k + 1
      BY <3>2
    <3> QED  BY <3>1, <3>2
  <2>3. P(g, k + 1)  
    <3> DEFINE h == [i \in 0..(k + 1) |-> IF i = 0 THEN 0 ELSE g[i - 1] + items[i].dur]
    <3>1. \A i \in 0..(k + 1) : g[i] = h[i]  BY <2>2
    <3>2. g = h  BY <3>1, Zenon
    <3> QED  BY <3>2, Zenon
  <2>4. k + 1 \in Nat  OBVIOUS
  <2> HIDE DEF P
  <2> QED  BY <2>3, <2>4
<1>3. S = Nat  
  <2> HIDE DEF S
  <2>0. S \subseteq Nat BY DEF S
  <2> QED  BY <1>1, <1>2, <2>0, Induction
<1>4. Len(items) \in Nat  BY DEF Durations
<1>5. \E f : P(f, Len(items))  BY <1>3, <1>4
<1> QED  BY <1>5, Zenon DEF StartTimeOffsets

(* It begins at 0, adds the durations up, and grows. *)
LEMMA Offsets ==
    ASSUME NEW items, Durations(items), NEW o, o = StartTimeOffsets(items)
    PROVE  /\ o \in [0..Len(items) -> Nat]
           /\ o[0] = 0
           /\ \A i \in 0..(Len(items) - 1) : o[i + 1] = o[i] + items[i + 1].dur
           /\ \A i, j \in 0..Len(items) : i < j => o[i] < o[j]
<1> DEFINE n == Len(items)
<1>n. n \in Nat /\ DOMAIN items = 1..n  BY DEF Durations
<1>0. o = [i \in 0..n |-> IF i = 0 THEN 0 ELSE o[i - 1] + items[i].dur]
    BY OffsetsDefined
<1>1. \A i \in 0..n : o[i] = IF i = 0 THEN 0 ELSE o[i - 1] + items[i].dur
    BY <1>0, Zenon
<1>2. o[0] = 0  BY <1>1, <1>n
<1>3. \A i \in 0..(n - 1) : o[i + 1] = o[i] + items[i + 1].dur  BY <1>1, <1>n
<1> DEFINE S == {k \in Nat : k <= n => o[k] \in Nat}
<1>4. S = Nat
  <2>1. 0 \in S  BY <1>2
  <2>2. ASSUME NEW k \in S PROVE k + 1 \in S
    <3>1. k + 1 <= n => o[k + 1] = o[k] + items[k + 1].dur /\ items[k + 1].dur \in Nat
        BY <1>3, <1>n DEF Durations
    <3> QED  BY <3>1
  <2>3. S \subseteq Nat  OBVIOUS
  <2> HIDE DEF S
  <2> QED  BY <2>1, <2>2, <2>3, Induction
<1>5. \A i \in 0..n : o[i] \in Nat  BY <1>4, <1>n
<1>6. ASSUME NEW i \in 0..n PROVE \A j \in 0..n : i < j => o[i] < o[j]
  <2> DEFINE T == {k \in Nat : i + 1 + k <= n => o[i] < o[i + 1 + k]}
  <2>1. 0 \in T
    <3>1. i + 1 <= n => o[i + 1] = o[i] + items[i + 1].dur /\ items[i + 1].dur \in Nat \ {0}
        BY <1>3, <1>n DEF Durations
    <3> QED  BY <3>1, <1>5
  <2>2. ASSUME NEW k \in T PROVE k + 1 \in T
    <3> DEFINE m == i + 1 + k
    <3>1. m + 1 <= n => o[m + 1] = o[m] + items[m + 1].dur /\ items[m + 1].dur \in Nat \ {0}
        BY <1>3, <1>n DEF Durations
    <3>2. m + 1 <= n => o[i] < o[m]  OBVIOUS
    <3>3. m + 1 <= n => o[m] \in Nat /\ o[i] \in Nat  BY <1>5
    <3>4. m + 1 <= n => o[i] < o[m + 1]  BY <3>1, <3>2, <3>3
    <3>5. m + 1 = i + 1 + (k + 1)  OBVIOUS
    <3> HIDE DEF m
    <3> QED  BY <3>4, <3>5
  <2>3. T = Nat
    <3>1. T \subseteq Nat  OBVIOUS
    <3> HIDE DEF T
    <3> QED  BY <2>1, <2>2, <3>1, Induction
  <2>4. ASSUME NEW j \in 0..n, i < j PROVE o[i] < o[j]
    <3>0. j - i - 1 \in Nat  BY <2>4
    <3>1. j - i - 1 \in T
      <4> HIDE DEF T
      <4> QED  BY <2>3, <3>0
    <3>2. i + 1 + (j - i - 1) = j  OBVIOUS
    <3> QED  BY <3>1, <3>2
  <2> QED  BY <2>4
<1>7. o \in [0..n -> Nat]  BY <1>0, <1>5
<1> QED  BY <1>2, <1>3, <1>6, <1>7

-----------------------------------------------------------------------------
(* The binary search. *)

(* What the search relies on: offsets begin at 0 and grow.                 *)
Ascending(n, seq) ==
    /\ n \in Nat \ {0} /\ seq \in [0..n -> Nat] /\ seq[0] = 0
    /\ \A i, j \in 0..n : i < j => seq[i] < seq[j]

(* The recursion of the search, and that a function satisfies it.          *)
Turns(n, seq, v, f) ==
    [k \in 0..n |-> IF k = 0 THEN [low |-> 0, high |-> n] ELSE Halved(seq, v, f[k - 1])]

LEMMA RangeDefined ==
    ASSUME NEW n \in Nat, NEW seq, NEW v
    PROVE  \E f : f = Turns(n, seq, v, f)
<1> DEFINE start == [low |-> 0, high |-> n]
           P(f, m) == f = [k \in 0..m |-> IF k = 0 THEN start ELSE Halved(seq, v, f[k - 1])]
           S == {m \in Nat : \E f : P(f, m)}
<1> HIDE DEF start
<1>1. 0 \in S
  <2>1. P([i \in 0..0 |-> start], 0)  OBVIOUS
  <2> QED  BY <2>1
<1>2. ASSUME NEW m \in S PROVE m + 1 \in S
  <2>1. PICK f : P(f, m)  BY <1>2
  <2> DEFINE g == [k \in 0..(m + 1) |-> IF k <= m THEN f[k] ELSE Halved(seq, v, f[m])]
             h == [k \in 0..(m + 1) |-> IF k = 0 THEN start ELSE Halved(seq, v, g[k - 1])]
  <2>2. ASSUME NEW k \in 0..(m + 1) PROVE g[k] = h[k]
    <3>1. CASE k <= m
      <4>1. k \in 0..m /\ g[k] = f[k]  BY <3>1
      <4>2. f[k] = IF k = 0 THEN start ELSE Halved(seq, v, f[k - 1])  BY <2>1, <4>1, Zenon
      <4>3. k # 0 => g[k - 1] = f[k - 1]  BY <4>1
      <4> QED  BY <4>1, <4>2, <4>3
    <3>2. CASE k = m + 1  BY <3>2
    <3> QED  BY <3>1, <3>2
  <2>3. P(g, m + 1)
    <3>1. g = h  BY <2>2, Zenon
    <3> QED  BY <3>1, Zenon
  <2>4. m + 1 \in Nat  OBVIOUS
  <2> HIDE DEF P
  <2> QED  BY <2>3, <2>4
<1>3. S = Nat
  <2>1. S \subseteq Nat  OBVIOUS
  <2> HIDE DEF S
  <2> QED  BY <1>1, <1>2, <2>1, Induction
<1>4. \E f : P(f, n)  BY <1>3
<1> QED  BY <1>4, Zenon DEF start, Turns

(* The value that is searched for is not outside the range of the loop.    *)
Around(n, seq, v, r) ==
    /\ r \in [low : 0..n, high : 0..n] /\ r.low < r.high
    /\ seq[r.low] <= v /\ (v < seq[r.high] \/ r.high = n)

(* A turn keeps it so, and the range gets shorter until it is one item. *)
LEMMA Halving ==
    ASSUME NEW n, NEW seq, Ascending(n, seq), NEW v \in Int, NEW r, Around(n, seq, v, r)
    PROVE  /\ Around(n, seq, v, Halved(seq, v, r))
           /\ LET h == Halved(seq, v, r)
              IN  h.high - h.low < r.high - r.low \/ h.high = h.low + 1
<1> DEFINE mid == r.low + (r.high - r.low) \div 2
<1>1. r.low \in 0..n /\ r.high \in 0..n /\ r.low < r.high /\ n \in Nat
    BY DEF Around, Ascending
<1>2. CASE r.low + 1 >= r.high
  <2>1. Halved(seq, v, r) = r  BY <1>2 DEF Halved
  <2> QED  BY <1>1, <1>2, <2>1
<1>3. CASE ~(r.low + 1 >= r.high)
  <2>1. mid \in 0..n /\ r.low < mid /\ mid < r.high  BY <1>1, <1>3
  <2>2. seq[mid] \in Nat  BY <2>1 DEF Ascending
  <2>3. CASE seq[mid] > v
    <3>1. Halved(seq, v, r) = [r EXCEPT !.high = mid]  BY <1>3, <2>3 DEF Halved
    <3> HIDE DEF mid
    <3> QED  BY <1>1, <2>1, <2>2, <2>3, <3>1 DEF Around
  <2>4. CASE ~(seq[mid] > v)
    <3>1. Halved(seq, v, r) = [r EXCEPT !.low = mid]  BY <1>3, <2>4 DEF Halved
    <3> HIDE DEF mid
    <3> QED  BY <1>1, <2>1, <2>2, <2>4, <3>1 DEF Around
  <2> QED  BY <2>3, <2>4
<1> QED  BY <1>2, <1>3

(* binarySearchRange over offsets that grow from 0 finds, within n turns,  *)
(* the last one that is not after the value, the end itself counting as    *)
(* the last item; a value outside is reported as such.                     *)
THEOREM SearchFinds ==
    ASSUME NEW n, NEW seq, Ascending(n, seq), NEW v \in Int,
           NEW i, i = BinarySearchRange(seq, n, v)
    PROVE  IF v \in 0..seq[n]
           THEN i \in 0..(n - 1) /\ seq[i] <= v /\ (v < seq[i + 1] \/ i = n - 1)
           ELSE i = Absent
<1>n. n \in Nat \ {0} /\ seq[n] \in Nat /\ seq[0] = 0  BY DEF Ascending
<1>1. CASE v \notin 0..seq[n]
  <2>1. v < 0 \/ v > seq[n]  BY <1>1, <1>n
  <2> QED  BY <1>1, <2>1 DEF BinarySearchRange
<1>2. CASE v \in 0..seq[n]
  <2> DEFINE range == CHOOSE f : f = Turns(n, seq, v, f)
  <2>1. i = range[n].low
    <3>1. ~(v < 0 \/ v > seq[n])  BY <1>2, <1>n
    <3> QED  BY <3>1, Zenon DEF BinarySearchRange, Turns
  <2>2. range = Turns(n, seq, v, range)
    <3>1. n \in Nat  BY <1>n
    <3>2. \E f : f = Turns(n, seq, v, f)  BY <3>1, RangeDefined
    <3> QED  BY <3>2, Zenon
  <2> HIDE DEF range
  <2>3. \A k \in 0..n : range[k] = IF k = 0 THEN [low |-> 0, high |-> n]
                                   ELSE Halved(seq, v, range[k - 1])
      BY <2>2, Zenon DEF Turns
  <2> DEFINE S == {k \in Nat : k <= n =>
                     /\ Around(n, seq, v, range[k])
                     /\ range[k].high - range[k].low <= n - k \/ range[k].high = range[k].low + 1}
  <2>4. 0 \in S
    <3>1. range[0] = [low |-> 0, high |-> n]  BY <2>3, <1>n
    <3> QED  BY <3>1, <1>2, <1>n DEF Around
  <2>5. ASSUME NEW k \in S PROVE k + 1 \in S
    <3>1. ASSUME k + 1 <= n
          PROVE  /\ Around(n, seq, v, range[k + 1])
                 /\ \/ range[k + 1].high - range[k + 1].low <= n - (k + 1)
                    \/ range[k + 1].high = range[k + 1].low + 1
      <4>1. range[k + 1] = Halved(seq, v, range[k])  BY <2>3, <3>1, <1>n
      <4>2. Around(n, seq, v, range[k])  BY <3>1, <1>n
      <4>3. Around(n, seq, v, range[k + 1])  BY <4>1, <4>2, Halving
      <4>4. \/ range[k + 1].high - range[k + 1].low < range[k].high - range[k].low
            \/ range[k + 1].high = range[k + 1].low + 1
          BY <4>1, <4>2, Halving
      <4>5. \/ range[k].high - range[k].low <= n - k
            \/ range[k].high = range[k].low + 1
          BY <3>1, <1>n
      <4> QED  BY <3>1, <4>2, <4>3, <4>4, <4>5, <1>n DEF Around
    <3> QED  BY <3>1
  <2>6. S = Nat
    <3>1. S \subseteq Nat  OBVIOUS
    <3> HIDE DEF S
    <3> QED  BY <2>4, <2>5, <3>1, Induction
  <2>7. /\ Around(n, seq, v, range[n])
        /\ range[n].high = range[n].low + 1
    <3>1. n \in S  BY <2>6, <1>n
    <3> QED  BY <3>1, <1>n DEF Around
  <2> QED  BY <1>2, <1>n, <2>1, <2>7 DEF Around
<1> QED  BY <1>1, <1>2
-----------------------------------------------------------------------------
(* The lookup of a time. *)

LEMMA Remainder ==
    ASSUME NEW a \in Int, NEW b \in Nat \ {0}
    PROVE  a % b \in 0..(b - 1) /\ (a \in 0..(b - 1) => a % b = a)
OBVIOUS

(* The offsets of a lineup are fit for the search. *)
LEMMA ChannelOffsets ==
    ASSUME NEW ch, IsChannel(ch), ch.items # << >>
    PROVE  LET n == Len(ch.items)
               o == StartTimeOffsets(ch.items)
           IN  /\ n \in Nat \ {0} /\ DOMAIN ch.items = 1..n
               /\ Ascending(n, o)
               /\ \A i \in 0..(n - 1) : o[i + 1] = o[i] + ch.items[i + 1].dur
               /\ \A i \in 1..n : ch.items[i].kind \in Kinds /\ ch.items[i].dur \in Nat \ {0}
<1> DEFINE n == Len(ch.items)
           o == StartTimeOffsets(ch.items)
<1>1. Durations(ch.items)  BY DEF IsChannel, Durations
<1>2. n \in Nat \ {0} /\ DOMAIN ch.items = 1..n  BY <1>1, EmptySeq DEF Durations
<1>3. \A i \in 1..n : ch.items[i].kind \in Kinds /\ ch.items[i].dur \in Nat \ {0}
    BY <1>2 DEF IsChannel
<1>4. Ascending(n, o) /\ \A i \in 0..(n - 1) : o[i + 1] = o[i] + ch.items[i + 1].dur
    BY <1>1, <1>2, Offsets DEF Ascending
<1> QED  BY <1>2, <1>3, <1>4, Zenon

(* What calculateStreamDuration finds at a time: the item that is on, or   *)
(* the one after it; nothing past the end of the lineup.                   *)
LEMMA SpotFound ==
    ASSUME NEW ch, IsChannel(ch), ch.items # << >>, ch.duration > 0,
           NEW t \in Int, ch.start <= t
    PROVE  LET n  == Len(ch.items)
               o  == StartTimeOffsets(ch.items)
               at == CycleTime(ch, t)
               i  == BinarySearchRange(o, n, at)
           IN  /\ at \in 0..(ch.duration - 1) /\ at = (t - ch.start) % ch.duration
               /\ at > o[n] => i = Absent /\ Spot(ch, t).index = Absent
               /\ at <= o[n] =>
                    /\ i \in 0..(n - 1) /\ o[i] <= at
                    /\ at < o[i + 1] \/ (i = n - 1 /\ at = o[n])
                    /\ Spot(ch, t) = IF at - o[i] > ch.items[i + 1].dur - Slack
                                     THEN [index |-> (i + 1) % n, elapsed |-> 0]
                                     ELSE [index |-> i, elapsed |-> at - o[i]]
<1> DEFINE n  == Len(ch.items)
           o  == StartTimeOffsets(ch.items)
           at == CycleTime(ch, t)
           i  == BinarySearchRange(o, n, at)
<1>3. n \in Nat \ {0} /\ Ascending(n, o) /\ o[n] \in Nat
  <2>1. n \in Nat \ {0} /\ Ascending(n, o)  BY ChannelOffsets, Zenon
  <2> HIDE DEF n, o
  <2> QED  BY <2>1 DEF Ascending
<1>0. SUFFICES
        /\ at \in 0..(ch.duration - 1) /\ at = (t - ch.start) % ch.duration
        /\ at > o[n] => i = Absent /\ Spot(ch, t).index = Absent
        /\ at <= o[n] =>
             /\ i \in 0..(n - 1) /\ o[i] <= at
             /\ at < o[i + 1] \/ (i = n - 1 /\ at = o[n])
             /\ Spot(ch, t) = IF at - o[i] > ch.items[i + 1].dur - Slack
                              THEN [index |-> (i + 1) % n, elapsed |-> 0]
                              ELSE [index |-> i, elapsed |-> at - o[i]]
    OBVIOUS
<1> HIDE DEF n, o, at, i
<1>1. ch.duration \in Nat \ {0} /\ t - ch.start \in Nat /\ t - ch.start \in Int  BY DEF IsChannel
<1>2. at \in 0..(ch.duration - 1) /\ at = (t - ch.start) % ch.duration /\ at \in Nat
  <2> DEFINE since == t - ch.start
  <2>1. at = IF since < ch.duration THEN since ELSE since % ch.duration
      BY DEF CycleTime, at
  <2>2. since % ch.duration \in 0..(ch.duration - 1)  BY <1>1, Remainder, Zenon
  <2>3. CASE since < ch.duration
    <3>1. since \in 0..(ch.duration - 1)  BY <1>1, <2>3
    <3>2. since % ch.duration = since  BY <1>1, <3>1, Remainder, Zenon
    <3> QED  BY <1>1, <2>1, <2>3, <3>1, <3>2
  <2>4. CASE ~(since < ch.duration)  BY <1>1, <2>1, <2>2, <2>4
  <2> QED  BY <2>3, <2>4
<1>4. Spot(ch, t) = IF i = Absent THEN [index |-> Absent, elapsed |-> 0]
                    ELSE IF at - o[i] > ch.items[i + 1].dur - Slack
                         THEN [index |-> (i + 1) % n, elapsed |-> 0]
                         ELSE [index |-> i, elapsed |-> at - o[i]]
    BY DEF Spot, n, o, at, i
<1>5. IF at \in 0..o[n]
      THEN i \in 0..(n - 1) /\ o[i] <= at /\ (at < o[i + 1] \/ i = n - 1)
      ELSE i = Absent
    BY <1>1, <1>2, <1>3, SearchFinds DEF i
<1>6. CASE at > o[n]
  <2>1. i = Absent  BY <1>2, <1>3, <1>5, <1>6
  <2> QED  BY <1>2, <1>3, <1>4, <1>6, <2>1
<1>7. CASE at <= o[n]
  <2>1. i \in 0..(n - 1) /\ o[i] <= at /\ (at < o[i + 1] \/ i = n - 1)
      BY <1>2, <1>3, <1>5, <1>7
  <2>2. i # Absent  BY <2>1 DEF Absent
  <2>3. at < o[i + 1] \/ (i = n - 1 /\ at = o[n])
    <3>1. i = n - 1 => o[i + 1] = o[n]  BY <1>3
    <3> QED  BY <1>2, <1>3, <1>7, <2>1, <3>1
  <2>4. ~(at > o[n])  BY <1>2, <1>3, <1>7
  <2>5. Spot(ch, t) = IF at - o[i] > ch.items[i + 1].dur - Slack
                      THEN [index |-> (i + 1) % n, elapsed |-> 0]
                      ELSE [index |-> i, elapsed |-> at - o[i]]
      BY <1>4, <2>2
  <2> QED  BY <1>2, <2>1, <2>3, <2>4, <2>5, Zenon
<1> QED  BY <1>2, <1>3, <1>6, <1>7

(* The program at a time has a length, and something is left of it. *)
LEMMA CurrentFound ==
    ASSUME NEW ch, IsChannel(ch), HasCycle(ch), NEW t \in Int, ~Lost(ch, t),
           NEW p, p = Current(ch, t)
    PROVE  /\ p.kind \in Kinds /\ p.index \in Int
           /\ p.dur \in Nat \ {0} /\ p.elapsed \in Nat /\ Left(p) \in Nat \ {0}
           /\ p.index # Absent =>
                /\ ch.start <= t /\ ch.items # << >>
                /\ p.index = Spot(ch, t).index /\ p.elapsed = Spot(ch, t).elapsed
<1> USE PlayoutAssumption
<1>1. CASE ch.start > t
  <2>1. p = Off(ch.start - t) /\ ch.start - t \in Nat \ {0}  BY <1>1 DEF Current, IsChannel
  <2> QED  BY <2>1 DEF Off, Kinds, Left, Absent
<1>2. CASE ~(ch.start > t) /\ ch.items = << >>
  <2>1. p = Off(Day)  BY <1>2 DEF Current
  <2> QED  BY <2>1 DEF Off, Kinds, Left, Absent
<1>3. CASE ~(ch.start > t) /\ ch.items # << >>
  <2> DEFINE n == Len(ch.items)
             o == StartTimeOffsets(ch.items)
             at == CycleTime(ch, t)
             i == BinarySearchRange(o, n, at)
             s == Spot(ch, t)
             item == ch.items[s.index + 1]
  <2>0. ch.start <= t /\ ch.duration > 0  BY <1>3 DEF IsChannel, HasCycle
  <2>1. p = [kind |-> ShownAs(item.kind), dur |-> item.dur, to |-> item.to,
             index |-> s.index, elapsed |-> s.elapsed]
      BY <1>3 DEF Current
  <2>2. s.index # Absent  BY <1>3, <2>0 DEF Lost
  <2>3. /\ n \in Nat \ {0} /\ Ascending(n, o)
        /\ \A j \in 0..(n - 1) : o[j + 1] = o[j] + ch.items[j + 1].dur
        /\ \A j \in 1..n : ch.items[j].kind \in Kinds /\ ch.items[j].dur \in Nat \ {0}
      BY <1>3, ChannelOffsets, Zenon
  <2>4. /\ at \in Nat
        /\ at > o[n] => s.index = Absent
        /\ at <= o[n] =>
             /\ i \in 0..(n - 1) /\ o[i] <= at
             /\ s = IF at - o[i] > ch.items[i + 1].dur - Slack
                    THEN [index |-> (i + 1) % n, elapsed |-> 0]
                    ELSE [index |-> i, elapsed |-> at - o[i]]
    <3>1. ch.duration \in Int  BY DEF IsChannel
    <3> QED  BY <1>3, <2>0, <3>1, SpotFound
  <2> HIDE DEF n, o, at, i, s
  <2>5. o[n] \in Nat /\ (i \in 0..(n - 1) => o[i] \in Nat)  BY <2>3 DEF Ascending
  <2>6. i \in 0..(n - 1) /\ o[i] \in Nat /\ o[i] <= at
      BY <2>2, <2>3, <2>4, <2>5
  <2>7. CASE at - o[i] > ch.items[i + 1].dur - Slack
    <3>1. s = [index |-> (i + 1) % n, elapsed |-> 0]  BY <2>2, <2>4, <2>5, <2>7
    <3>0. (i + 1) % n \in 0..(n - 1)
      <4>1. i + 1 \in Int  BY <2>6
      <4> QED  BY <2>3, <4>1, Remainder, Zenon
    <3>2. s.index \in 0..(n - 1) /\ s.elapsed = 0  BY <3>0, <3>1
    <3>3. ShownAs(item.kind) \in Kinds /\ item.dur \in Nat \ {0}
        BY <2>3, <3>2 DEF ShownAs, Kinds
    <3> QED  BY <1>3, <2>0, <2>1, <3>2, <3>3 DEF Left, s
  <2>8. CASE ~(at - o[i] > ch.items[i + 1].dur - Slack)
    <3>1. s = [index |-> i, elapsed |-> at - o[i]]  BY <2>2, <2>4, <2>5, <2>8
    <3>2. s.index = i /\ s.elapsed \in Nat /\ s.elapsed <= ch.items[i + 1].dur - Slack
        BY <2>3, <2>4, <2>6, <2>8, <3>1
    <3>3. ShownAs(item.kind) \in Kinds /\ item.dur \in Nat \ {0} /\ item = ch.items[i + 1]
        BY <2>3, <2>6, <3>2 DEF ShownAs, Kinds
    <3>4. item.dur - s.elapsed \in Nat \ {0}  BY <3>2, <3>3
    <3> QED  BY <1>3, <2>0, <2>1, <2>6, <3>2, <3>3, <3>4 DEF Left, s
  <2> QED  BY <2>7, <2>8
<1> QED  BY <1>1, <1>2, <1>3

-----------------------------------------------------------------------------
(* The chain of redirects. *)

(* The channels gone through are different ones, and while redirects are   *)
(* followed the channel come to is not among them, unless the last         *)
(* redirect led nowhere.                                                   *)
Chain ==
    /\ hops \in Seq(Channels)
    /\ context \in Channels
    /\ \A i, j \in DOMAIN hops : hops[i] = hops[j] => i = j
    /\ phase = "resolving" => \A i \in DOMAIN hops : hops[i] # context \/ program.kind = "error"

(* The channel left is added to those gone through.                        *)
LEMMA Grown ==
    ASSUME Chain, NEW c \in Channels, \A i \in DOMAIN hops : hops[i] # c,
           NEW h, h = Append(hops, c)
    PROVE  /\ h \in Seq(Channels)
           /\ \A i, j \in DOMAIN h : h[i] = h[j] => i = j
           /\ \A i \in DOMAIN h : h[i] = c \/ \E j \in DOMAIN hops : h[i] = hops[j]
<1>1. hops \in Seq(Channels) /\ Len(hops) \in Nat /\ DOMAIN hops = 1..Len(hops)
    BY DEF Chain
<1>2. /\ h \in Seq(Channels) /\ Len(h) = Len(hops) + 1
      /\ \A i \in 1..Len(hops) : h[i] = hops[i]
      /\ h[Len(hops) + 1] = c
    BY <1>1, AppendProperties
<1>3. DOMAIN h = 1..(Len(hops) + 1)  BY <1>1, <1>2
<1>4. \A i \in DOMAIN h : i \in DOMAIN hops \/ i = Len(hops) + 1  BY <1>1, <1>3
<1>5. \A i \in DOMAIN h : h[i] = c \/ \E j \in DOMAIN hops : h[i] = hops[j]
    BY <1>1, <1>2, <1>4
<1>6. ASSUME NEW i \in DOMAIN h, NEW j \in DOMAIN h, h[i] = h[j] PROVE i = j
  <2>1. CASE i \in DOMAIN hops /\ j \in DOMAIN hops
      BY <1>1, <1>2, <1>6, <2>1 DEF Chain
  <2>2. CASE i = Len(hops) + 1 /\ j = Len(hops) + 1  BY <2>2
  <2>3. CASE i \in DOMAIN hops /\ j = Len(hops) + 1  BY <1>1, <1>2, <1>6, <2>3
  <2>4. CASE i = Len(hops) + 1 /\ j \in DOMAIN hops  BY <1>1, <1>2, <1>6, <2>4
  <2> QED  BY <1>4, <2>1, <2>2, <2>3, <2>4
<1> QED  BY <1>2, <1>5, <1>6

LEMMA ChainInit == Init => Chain
BY PlayoutAssumption, EmptySeq DEF Init, Chain

(* A request starts from the watched channel. *)
LEMMA LookupStep == ASSUME NEW t, Lookup(t) PROVE Chain'
<1>1. hops' = << >> /\ context' = Source  BY DEF Lookup
<1>2. DOMAIN << >> = {}  OBVIOUS
<1> QED  BY <1>1, <1>2, PlayoutAssumption, EmptySeq DEF Chain

(* A step that leaves the chain alone and does not resolve further. *)
LEMMA Same ==
    ASSUME Chain, hops' = hops, context' = context,
           phase' = "resolving" => phase = "resolving" /\ program' = program
    PROVE  Chain'
BY DEF Chain

LEMMA ChainStep == Chain /\ [Next]_vars => Chain'
<1> SUFFICES ASSUME Chain, [Next]_vars PROVE Chain'  OBVIOUS
<1>1. CASE Request  BY <1>1, LookupStep DEF Request
<1>2. CASE Skip  BY <1>2, LookupStep DEF Skip
<1>3. CASE Recursive
  <2>1. /\ phase = "resolving" /\ program.kind = "redirect" /\ context \in Channels
        /\ hops' = Append(hops, context) /\ context' = context /\ phase' = "failed"
      BY <1>3 DEF Recursive, Chain
  <2>2. \A i \in DOMAIN hops : hops[i] # context  BY <2>1 DEF Chain
  <2> QED  BY <2>1, <2>2, Grown DEF Chain
<1>4. CASE FollowToNowhere
  <2>1. /\ phase = "resolving" /\ program.kind = "redirect" /\ context \in Channels
        /\ hops' = Append(hops, context) /\ context' = context
        /\ program' = [Nothing EXCEPT !.kind = "error", !.dur = bound]
      BY <1>4 DEF FollowToNowhere, Chain
  <2>2. \A i \in DOMAIN hops : hops[i] # context  BY <2>1 DEF Chain
  <2>3. program'.kind = "error"  BY <2>1 DEF Nothing, Off
  <2> QED  BY <2>1, <2>2, <2>3, Grown DEF Chain
<1>5. CASE Follow
  <2>1. /\ phase = "resolving" /\ program.kind = "redirect" /\ context \in Channels
        /\ hops' = Append(hops, context) /\ context' = program.to
        /\ program.to \in Channels \ Visited
      BY <1>5 DEF Follow, Chain
  <2>2. \A i \in DOMAIN hops : hops[i] # context  BY <2>1 DEF Chain
  <2>3. \A i \in DOMAIN hops' : hops'[i] = context \/ \E j \in DOMAIN hops : hops'[i] = hops[j]
      BY <2>1, <2>2, Grown
  <2>4. \A i \in DOMAIN hops' : hops'[i] # context'
      BY <2>1, <2>3 DEF Visited
  <2> QED  BY <2>1, <2>2, <2>4, Grown DEF Chain
<1>6. CASE Answer  BY <1>6, Same DEF Answer
<1>7. CASE Played  BY <1>7, Same DEF Played
<1>8. CASE Tune  BY <1>8, Same DEF Tune
<1>9. CASE UNCHANGED vars  BY <1>9, Same DEF vars
<1> QED  BY <1>1, <1>2, <1>3, <1>4, <1>5, <1>6, <1>7, <1>8, <1>9 DEF Next

-----------------------------------------------------------------------------
(* The invariant. *)

(* What is stored of the channels stays what it was assumed to be.         *)
Stored ==
    /\ DOMAIN channels = Channels
    /\ \A c \in Channels : IsChannel(channels[c]) /\ (c # Source => HasCycle(channels[c]))

(* The watched channel's duration is missing or not too long.              *)
Fits == channels[Source].duration <= TotalDuration(channels[Source])

Asked == phase \in {"resolving", "playing"}

(* Numbers and kinds: TypeOK without the chain.                            *)
Typed ==
    /\ now \in 0..MaxTime /\ ask \in 0..MaxTime /\ skips \in Nat
    /\ phase \in {"none", "resolving", "playing", "failed"}
    /\ program.kind \in Kinds \cup {"error"}
    /\ program.index \in Int /\ Left(program) \in Nat
    /\ bound \in Nat /\ stream \in Nat

(* What SlotNotExceeded says, from the first lookup on.                    *)
Slot ==
    Asked => /\ stream \in 1..bound /\ Left(program) \in Nat \ {0}
             /\ program.kind \in {"program", "mid"} => stream <= Left(program)

(* Before the first redirect the program is the watched channel's own.     *)
Shown ==
    Asked /\ hops = << >> =>
        /\ HasCycle(channels[Source]) /\ ~Lost(channels[Source], ask)
        /\ program = Current(channels[Source], ask)

(* The watched channel has been visited: no redirect leads to it.          *)
Rooted == Asked => Source \in Visited

(* Each repetition asks for a time that is at most the slack and 2 later.  *)
Ahead == Asked => ask - now \in 0..(skips * (Slack + 2))

IInv == Stored /\ Typed /\ Chain /\ Rooted /\ Slot /\ Shown /\ Ahead

-----------------------------------------------------------------------------

(* A lineup that is not empty lasts. *)
LEMMA Total ==
    ASSUME NEW ch, IsChannel(ch)
    PROVE  TotalDuration(ch) \in Nat /\ (ch.items # << >> => TotalDuration(ch) > 0)
<1>1. Durations(ch.items)  BY DEF IsChannel, Durations
<1>2. Len(ch.items) \in Nat /\ (ch.items # << >> => Len(ch.items) > 0)
    BY <1>1, EmptySeq DEF Durations
<1> QED  BY <1>1, <1>2, Offsets DEF TotalDuration

(* Putting a missing duration right makes a cycle. *)
LEMMA PutRight ==
    ASSUME NEW ch, IsChannel(ch),
           NEW d, d = IF ch.duration <= 0 THEN [ch EXCEPT !.duration = TotalDuration(ch)] ELSE ch
    PROVE  /\ IsChannel(d) /\ HasCycle(d)
           /\ ch.duration <= TotalDuration(ch) => d.duration <= TotalDuration(d)
<1>1. CASE ch.duration <= 0
  <2>1. d = [ch EXCEPT !.duration = TotalDuration(ch)]  BY <1>1
  <2>2. d.items = ch.items /\ d.start = ch.start /\ d.duration = TotalDuration(ch)
        /\ d = [start |-> ch.start, duration |-> TotalDuration(ch), items |-> ch.items]
      BY <2>1 DEF IsChannel
  <2>3. TotalDuration(d) = TotalDuration(ch)  BY <2>2 DEF TotalDuration
  <2> QED  BY <2>2, <2>3, Total DEF IsChannel, HasCycle
<1>2. CASE ~(ch.duration <= 0)
  <2>1. d = ch /\ d.duration > 0  BY <1>2 DEF IsChannel
  <2> QED  BY <2>1 DEF HasCycle
<1> QED  BY <1>1, <1>2

(* What a lookup of the watched channel leaves behind. *)
LEMMA LookedUp ==
    ASSUME Stored, NEW t \in 0..MaxTime, Lookup(t)
    PROVE  /\ Stored' /\ HasCycle(channels'[Source]) /\ (Fits => Fits')
           /\ ask' = t /\ hops' = << >>
           /\ \/ phase' = "failed" /\ program' = Nothing /\ bound' = 0 /\ stream' = 0
              \/ /\ phase' = "resolving" /\ ~Lost(channels'[Source], t)
                 /\ program' = Current(channels'[Source], t)
                 /\ bound' = Left(program') /\ stream' = Left(program')
<1> DEFINE old == channels[Source]
           ch == IF old.duration <= 0 THEN [old EXCEPT !.duration = TotalDuration(old)] ELSE old
<1>1. IsChannel(old) /\ Source \in DOMAIN channels
    BY PlayoutAssumption DEF Stored
<1>2. /\ IsChannel(ch) /\ HasCycle(ch)
      /\ old.duration <= TotalDuration(old) => ch.duration <= TotalDuration(ch)
    BY <1>1, PutRight
<1>3. /\ channels' = [channels EXCEPT ![Source] = ch]
      /\ ask' = t /\ hops' = << >>
      /\ IF Lost(ch, t)
         THEN phase' = "failed" /\ program' = Nothing /\ bound' = 0 /\ stream' = 0
         ELSE /\ phase' = "resolving" /\ program' = Current(ch, t)
              /\ bound' = Left(Current(ch, t)) /\ stream' = Left(Current(ch, t))
    BY DEF Lookup
<1> HIDE DEF ch, old
<1>4. channels'[Source] = ch /\ DOMAIN channels' = Channels
      /\ \A c \in Channels : c # Source => channels'[c] = channels[c]
    BY <1>1, <1>3 DEF Stored
<1>5. Stored'
    BY <1>2, <1>4, PlayoutAssumption DEF Stored
<1>6. Fits => Fits'  BY <1>2, <1>4 DEF Fits, old
<1> QED  BY <1>2, <1>3, <1>4, <1>5, <1>6

(* ... and so what is asked of the watched channel has a length. *)
LEMMA LookupOK ==
    ASSUME Stored, NEW t \in 0..MaxTime, Lookup(t), now' = now, now \in 0..MaxTime, skips' \in Nat
    PROVE  Stored' /\ Typed' /\ Slot' /\ Shown'
<1>1. Stored' /\ HasCycle(channels'[Source]) /\ ask' = t /\ hops' = << >>  BY LookedUp
<1>2. IsChannel(channels'[Source])  BY <1>1, PlayoutAssumption DEF Stored
<1>3. CASE phase' = "failed" /\ program' = Nothing /\ bound' = 0 /\ stream' = 0
    BY <1>1, <1>3 DEF Typed, Slot, Shown, Asked, Nothing, Off, Left, Kinds, Absent
<1>4. CASE /\ phase' = "resolving" /\ ~Lost(channels'[Source], t)
           /\ program' = Current(channels'[Source], t)
           /\ bound' = Left(program') /\ stream' = Left(program')
  <2>1. /\ program'.kind \in Kinds /\ program'.index \in Int /\ Left(program') \in Nat \ {0}
    <3>1. t \in Int  BY PlayoutAssumption
    <3> QED  BY <1>1, <1>2, <1>4, <3>1, CurrentFound
  <2>2. Typed'  BY <1>1, <1>4, <2>1 DEF Typed, Left
  <2>3. Slot'  BY <1>4, <2>1 DEF Slot, Asked, Left
  <2>4. Shown'  BY <1>1, <1>4 DEF Shown, Asked, Lost
  <2> QED  BY <1>1, <2>2, <2>3, <2>4
<1> QED  BY <1>3, <1>4, LookedUp

(* The program a redirect leads to, at the time that was asked for. *)
LEMMA Followed ==
    ASSUME Stored, Typed, Rooted, Slot, Follow
    PROVE  Stored' /\ Typed' /\ Slot'
<1> DEFINE ch == channels[program.to]
           p == Current(ch, ask)
<1>1. /\ phase = "resolving" /\ program.to \in Channels \ Visited
      /\ channels' = channels /\ now' = now /\ ask' = ask /\ skips' = skips /\ bound' = bound
      /\ IF Lost(ch, ask) THEN phase' = "failed" /\ UNCHANGED <<program, stream>>
         ELSE phase' = phase /\ program' = p /\ stream' = Shortened(p)
    BY DEF Follow
<1>2. Stored'  BY <1>1 DEF Stored
<1>3. CASE Lost(ch, ask)
  <2>1. phase' = "failed" /\ program' = program /\ stream' = stream  BY <1>1, <1>3
  <2> QED  BY <1>1, <1>2, <2>1 DEF Typed, Slot, Asked, Left
<1>4. CASE ~Lost(ch, ask)
  <2>1. phase' = "resolving" /\ program' = p /\ stream' = Shortened(p)  BY <1>1, <1>4
  <2>2. IsChannel(ch) /\ HasCycle(ch)
    <3>1. IsChannel(ch)  BY <1>1 DEF Stored
    <3>2. program.to # Source  BY <1>1 DEF Rooted, Asked
    <3> QED  BY <1>1, <3>1, <3>2 DEF Stored
  <2>3. ask \in Int  BY PlayoutAssumption DEF Typed
  <2>4. p.kind \in Kinds /\ p.index \in Int /\ Left(p) \in Nat \ {0}
      BY <1>4, <2>2, <2>3, CurrentFound
  <2>5. bound \in Nat \ {0} /\ stream \in 1..bound  BY <1>1 DEF Slot, Asked, Typed
  <2>6. /\ stream' \in 1..bound /\ stream' <= Left(p)
      BY <2>1, <2>4, <2>5 DEF Shortened
  <2>7. Left(program') = Left(p)  BY <2>1
  <2> HIDE DEF p
  <2> QED  BY <1>1, <1>2, <2>1, <2>4, <2>5, <2>6, <2>7 DEF Typed, Slot, Asked, Left
<1> QED  BY <1>3, <1>4

(* The watched channel stays visited. *)
LEMMA RootedStep == Chain /\ Rooted /\ [Next]_vars => Rooted'
<1> SUFFICES ASSUME Chain, Rooted, [Next]_vars PROVE Rooted'  OBVIOUS
<1>1. ASSUME NEW t, Lookup(t) PROVE Rooted'
  <2>1. context' = Source  BY <1>1 DEF Lookup
  <2> QED  BY <2>1 DEF Rooted, Visited
<1>2. ASSUME Asked, hops' = Append(hops, context) PROVE Source \in Visited'
  <2>1. hops \in Seq(Channels) /\ context \in Channels /\ Source \in Visited
      BY <1>2 DEF Chain, Rooted
  <2>2. /\ Len(hops) \in Nat /\ DOMAIN hops = 1..Len(hops) /\ DOMAIN hops' = 1..(Len(hops) + 1)
        /\ \A i \in 1..Len(hops) : hops'[i] = hops[i]
        /\ hops'[Len(hops) + 1] = context
    <3>1. /\ hops' \in Seq(Channels) /\ Len(hops') = Len(hops) + 1
          /\ \A i \in 1..Len(hops) : hops'[i] = hops[i]
          /\ hops'[Len(hops) + 1] = context
        BY <1>2, <2>1, AppendProperties
    <3>2. DOMAIN hops' = 1..Len(hops')  BY <3>1
    <3>3. DOMAIN hops = 1..Len(hops) /\ Len(hops) \in Nat  BY <2>1
    <3>4. DOMAIN hops' = 1..(Len(hops) + 1)  BY <3>1, <3>2
    <3> QED  BY <3>1, <3>3, <3>4, Zenon
  <2>3. CASE Source = context
    <3>1. Len(hops) + 1 \in DOMAIN hops' /\ hops'[Len(hops) + 1] = Source  BY <2>2, <2>3
    <3> QED  BY <3>1 DEF Visited
  <2>4. CASE Source # context
    <3>1. PICK i \in DOMAIN hops : Source = hops[i]  BY <2>1, <2>4 DEF Visited
    <3>2. i \in DOMAIN hops' /\ hops'[i] = Source  BY <2>2, <3>1
    <3> QED  BY <3>2 DEF Visited
  <2> QED  BY <2>3, <2>4
<1>3. CASE Request  BY <1>3, <1>1 DEF Request
<1>4. CASE Skip  BY <1>4, <1>1 DEF Skip
<1>5. CASE Recursive  BY <1>5 DEF Recursive, Rooted, Asked
<1>6. CASE FollowToNowhere  BY <1>6, <1>2 DEF FollowToNowhere, Rooted, Asked
<1>7. CASE Follow  BY <1>7, <1>2 DEF Follow, Rooted, Asked
<1>8. CASE Answer  BY <1>8 DEF Answer, Rooted, Asked, Visited
<1>9. CASE Played  BY <1>9 DEF Played, Rooted, Asked
<1>10. CASE Tune  BY <1>10 DEF Tune, Rooted, Asked
<1>11. CASE UNCHANGED vars  BY <1>11 DEF vars, Rooted, Asked, Visited
<1> QED  BY <1>3, <1>4, <1>5, <1>6, <1>7, <1>8, <1>9, <1>10, <1>11 DEF Next

(* What is stored, the numbers, the slot and what is shown of the watched  *)
(* channel, step by step.                                                  *)
LEMMA SlotStep ==
    IInv /\ [Next]_vars => Stored' /\ Typed' /\ Slot' /\ Shown'
<1> SUFFICES ASSUME IInv, [Next]_vars PROVE Stored' /\ Typed' /\ Slot' /\ Shown'  OBVIOUS
<1>i. Stored /\ Typed /\ Chain /\ Rooted /\ Slot /\ Shown  BY DEF IInv
<1>a. ASSUME hops' = Append(hops, context) PROVE hops' # << >>
    BY <1>a, <1>i, AppendProperties, EmptySeq DEF Chain
<1>1. CASE Request
  <2>1. Lookup(now) /\ now \in 0..MaxTime /\ now' = now /\ skips' \in Nat
      BY <1>1, <1>i DEF Request, Typed
  <2> QED  BY <2>1, <1>i, LookupOK
<1>2. CASE Skip
  <2>1. Lookup(ask + Left(program) + 1) /\ now' = now /\ skips' \in Nat
        /\ ask + Left(program) + 1 \in 0..MaxTime /\ now \in 0..MaxTime
      BY <1>2, <1>i, PlayoutAssumption DEF Skip, Typed
  <2> QED  BY <2>1, <1>i, LookupOK
<1>3. CASE Recursive
  <2>1. phase' = "failed" /\ channels' = channels /\ UNCHANGED <<now, ask, skips, program, bound, stream>>
      BY <1>3 DEF Recursive
  <2> QED  BY <2>1, <1>i DEF Stored, Typed, Slot, Shown, Asked, Left
<1>4. CASE FollowToNowhere
  <2>1. /\ program' = [Nothing EXCEPT !.kind = "error", !.dur = bound]
        /\ phase = "resolving" /\ hops' = Append(hops, context)
        /\ UNCHANGED <<channels, now, phase, ask, skips, bound, stream>>
      BY <1>4 DEF FollowToNowhere
  <2>2. program'.kind = "error" /\ program'.index = Absent
        /\ program'.dur = bound /\ program'.elapsed = 0
      BY <2>1 DEF Nothing, Off
  <2>3. bound \in Nat \ {0} /\ stream \in 1..bound  BY <2>1, <1>i DEF Slot, Asked, Typed
  <2>4. Left(program)' = bound  BY <2>2, <2>3 DEF Left
  <2> QED  BY <2>1, <2>2, <2>3, <2>4, <1>i, <1>a DEF Stored, Typed, Slot, Shown, Asked, Absent
<1>5. CASE Follow
  <2>1. Stored' /\ Typed' /\ Slot'  BY <1>5, <1>i, Followed
  <2>2. Shown'  BY <1>5, <1>a DEF Follow, Shown
  <2> QED  BY <2>1, <2>2
<1>6. CASE Answer
  <2>1. /\ phase = "resolving" /\ phase' = "playing"
        /\ UNCHANGED <<channels, now, ask, skips, hops, context, program, bound>>
        /\ \/ program.kind = "offline" /\ stream' \in 1..stream
           \/ program.kind # "offline" /\ stream' = stream
      BY <1>6 DEF Answer, Fills
  <2>2. stream \in 1..bound /\ bound \in Nat  BY <2>1, <1>i DEF Slot, Asked, Typed
  <2>3. stream' \in 1..bound /\ stream' <= stream  BY <2>1, <2>2
  <2>4. Stored' /\ Typed'  BY <2>1, <2>2, <2>3, <1>i DEF Stored, Typed, Left
  <2>5. Slot'  BY <2>1, <2>2, <2>3, <1>i DEF Slot, Asked, Left
  <2>6. Shown'  BY <2>1, <1>i DEF Shown, Asked, Lost
  <2> QED  BY <2>4, <2>5, <2>6
<1>7. CASE Played
  <2>1. phase' = "none" /\ channels' = channels /\ UNCHANGED <<ask, skips, program, bound, stream>>
        /\ now' \in 0..MaxTime
      BY <1>7, <1>i, PlayoutAssumption DEF Played, Typed
  <2> QED  BY <2>1, <1>i DEF Stored, Typed, Slot, Shown, Asked, Left
<1>8. CASE Tune
  <2>1. phase' = "none" /\ channels' = channels /\ UNCHANGED <<ask, skips, program, bound, stream>>
        /\ now' \in 0..MaxTime
      BY <1>8, <1>i, PlayoutAssumption DEF Tune, Typed
  <2> QED  BY <2>1, <1>i DEF Stored, Typed, Slot, Shown, Asked, Left
<1>9. CASE UNCHANGED vars
  <2>1. UNCHANGED <<channels, now, phase, ask, skips, hops, context, program, bound, stream>>
      BY <1>9 DEF vars
  <2> QED  BY <2>1, <1>i DEF Stored, Typed, Slot, Shown, Asked, Left, Lost
<1> QED  BY <1>1, <1>2, <1>3, <1>4, <1>5, <1>6, <1>7, <1>8, <1>9 DEF Next

(* How far a request is ahead of where the last program ended.             *)
LEMMA AheadStep == IInv /\ [Next]_vars => Ahead'
<1> SUFFICES ASSUME IInv, [Next]_vars PROVE Ahead'  OBVIOUS
<1>i. Typed /\ Slot /\ Ahead  BY DEF IInv
<1>t. now \in Nat /\ ask \in Nat /\ skips \in Nat /\ Slack \in Nat
    BY <1>i, PlayoutAssumption DEF Typed
<1>1. CASE Request
  <2>1. ask' = now /\ now' = now /\ skips' = 0  BY <1>1 DEF Request, Lookup
  <2>2. skips' * (Slack + 2) = 0  BY <2>1, <1>t
  <2> QED  BY <2>1, <2>2, <1>t DEF Ahead
<1>2. CASE Skip
  <2>1. /\ Asked /\ ask' = ask + Left(program) + 1 /\ now' = now /\ skips' = skips + 1
        /\ Left(program) <= Slack + 1
      BY <1>2 DEF Skip, Short, Lookup, Asked
  <2>2. Left(program) \in Nat  BY <1>i DEF Typed
  <2>3. ask - now \in 0..(skips * (Slack + 2))  BY <2>1, <1>i DEF Ahead
  <2> DEFINE k == skips * (Slack + 2)
  <2>4. k \in Nat /\ (skips + 1) * (Slack + 2) = k + (Slack + 2)  BY <1>t
  <2> HIDE DEF k
  <2>5. ask - now \in 0..k  BY <2>3 DEF k
  <2>6. (ask' - now') \in 0..(k + (Slack + 2))  BY <2>1, <2>2, <2>4, <2>5, <1>t
  <2> QED  BY <2>1, <2>4, <2>6 DEF Ahead
<1>3. ASSUME UNCHANGED <<now, ask, skips>>, Asked' => Asked PROVE Ahead'
    BY <1>3, <1>i DEF Ahead
<1>4. CASE Recursive  BY <1>4, <1>3 DEF Recursive, Asked
<1>5. CASE FollowToNowhere  BY <1>5, <1>3 DEF FollowToNowhere, Asked
<1>6. CASE Follow  BY <1>6, <1>3 DEF Follow, Asked
<1>7. CASE Answer  BY <1>7, <1>3 DEF Answer, Asked
<1>8. CASE Played  BY <1>8 DEF Played, Ahead, Asked
<1>9. CASE Tune  BY <1>9 DEF Tune, Ahead, Asked
<1>10. CASE UNCHANGED vars  BY <1>10, <1>3 DEF vars, Asked
<1> QED  BY <1>1, <1>2, <1>4, <1>5, <1>6, <1>7, <1>8, <1>9, <1>10 DEF Next

(* Nothing but a lookup writes a duration. *)
LEMMA FitsStep == IInv /\ Fits /\ [Next]_vars => Fits'
<1> SUFFICES ASSUME IInv, Fits, [Next]_vars PROVE Fits'  OBVIOUS
<1>i. Stored /\ Typed  BY DEF IInv
<1>1. CASE Request
  <2>1. Lookup(now) /\ now \in 0..MaxTime  BY <1>1, <1>i DEF Request, Typed
  <2> QED  BY <2>1, <1>i, LookedUp
<1>2. CASE Skip
  <2>1. Lookup(ask + Left(program) + 1) /\ ask + Left(program) + 1 \in 0..MaxTime
      BY <1>2, <1>i, PlayoutAssumption DEF Skip, Typed
  <2> QED  BY <2>1, <1>i, LookedUp
<1>3. ASSUME channels' = channels PROVE Fits'  BY <1>3 DEF Fits
<1> QED  BY <1>1, <1>2, <1>3
      DEF Next, Recursive, FollowToNowhere, Follow, Answer, Played, Tune, vars

LEMMA InitOK == Init => IInv
<1> SUFFICES ASSUME Init PROVE IInv  OBVIOUS
<1>1. Chain  BY ChainInit
<1>2. Stored  BY PlayoutAssumption DEF Init, Stored
<1>3. phase = "none" /\ program = Nothing /\ bound = 0 /\ stream = 0 /\ skips = 0 /\ ask = 0
      /\ now \in 0..MaxTime
    BY DEF Init
<1>4. Typed  BY <1>3, PlayoutAssumption DEF Typed, Nothing, Off, Left, Kinds, Absent
<1> QED  BY <1>1, <1>2, <1>3, <1>4 DEF IInv, Rooted, Slot, Shown, Ahead, Asked

(* IInv holds throughout. *)
THEOREM Invariance == Spec => []IInv
<1>1. IInv /\ [Next]_vars => IInv'
  <2> SUFFICES ASSUME IInv, [Next]_vars PROVE IInv'  OBVIOUS
  <2>1. Chain'  BY ChainStep DEF IInv
  <2>2. Rooted'  BY RootedStep DEF IInv
  <2> QED  BY <2>1, <2>2, SlotStep, AheadStep DEF IInv
<1> QED  BY <1>1, InitOK, PTL DEF Spec

-----------------------------------------------------------------------------
(* The properties. *)

(* Every variable keeps its type: a lookup that finds an item finds it in  *)
(* the lineup, and something is left of it.                                *)
THEOREM TypeCorrect == Spec => []TypeOK
<1>1. IInv => TypeOK  BY DEF IInv, Stored, Typed, Chain, TypeOK
<1> QED  BY <1>1, Invariance, PTL

(* However the lineups of any channels redirect to each other, no request  *)
(* goes through a channel twice: the loop of getCurrentLineupItem takes at *)
(* most one turn per channel.                                              *)
THEOREM RedirectLoopsEnd == Spec => []RedirectsEnd
<1>1. IInv => RedirectsEnd  BY DEF IInv, Chain, RedirectsEnd
<1> QED  BY <1>1, Invariance, PTL

(* What is played fits the slot of the watched channel, through any chain  *)
(* of redirects and whatever durations are stored of the channels on it.   *)
THEOREM SlotsAreKept == Spec => []SlotNotExceeded
<1>1. IInv => SlotNotExceeded  BY DEF IInv, Slot, Asked, SlotNotExceeded
<1> QED  BY <1>1, Invariance, PTL

(* The search of the guide and the search of the stream are at the same    *)
(* item, from which the stream may have gone on by one.                    *)
LEMMA SameSearch ==
    ASSUME NEW ch, IsChannel(ch), HasCycle(ch), NEW t \in Int, ~Lost(ch, t),
           NEW p, p = Current(ch, t), p.index # Absent
    PROVE  LET n  == Len(ch.items)
               o  == StartTimeOffsets(ch.items)
               at == CycleTime(ch, t)
               g  == GuideIndex(ch, t)
           IN  /\ n \in Nat \ {0} /\ o[n] \in Nat /\ g \in 0..(n - 1)
               /\ o[g] \in Nat /\ o[g + 1] \in Nat /\ o[0] = 0
               /\ at \in 0..(ch.duration - 1) /\ o[g] <= at /\ at <= o[g + 1]
               /\ \/ p.index = g /\ p.elapsed = at - o[g]
                  \/ p.index = (g + 1) % n /\ p.elapsed = 0 /\ o[g + 1] - at < Slack
<1> USE PlayoutAssumption
<1> DEFINE n  == Len(ch.items)
           o  == StartTimeOffsets(ch.items)
           at == CycleTime(ch, t)
           g  == GuideIndex(ch, t)
           i == BinarySearchRange(o, n, at)
<1>1. /\ ch.start <= t /\ ch.items # << >>
      /\ p.index = Spot(ch, t).index /\ p.elapsed = Spot(ch, t).elapsed
    BY CurrentFound
<1>2. ch.duration > 0 /\ ch.duration \in Int  BY <1>1 DEF HasCycle, IsChannel
<1>3. /\ n \in Nat \ {0} /\ Ascending(n, o)
      /\ \A j \in 0..(n - 1) : o[j + 1] = o[j] + ch.items[j + 1].dur
      /\ \A j \in 1..n : ch.items[j].dur \in Nat \ {0}
    BY <1>1, ChannelOffsets, Zenon
<1>4. /\ at \in 0..(ch.duration - 1) /\ at = (t - ch.start) % ch.duration
      /\ at > o[n] => Spot(ch, t).index = Absent
      /\ at <= o[n] =>
           /\ i \in 0..(n - 1) /\ o[i] <= at
           /\ at < o[i + 1] \/ (i = n - 1 /\ at = o[n])
           /\ Spot(ch, t) = IF at - o[i] > ch.items[i + 1].dur - Slack
                            THEN [index |-> (i + 1) % n, elapsed |-> 0]
                            ELSE [index |-> i, elapsed |-> at - o[i]]
    BY <1>1, <1>2, SpotFound
<1>5. at <= o[n]
  <2>1. o[n] \in Nat /\ at \in Nat
    <3>1. n \in 0..n  BY <1>3
    <3>2. o[n] \in Nat  BY <1>3, <3>1 DEF Ascending
    <3>3. at \in Nat  BY <1>2, <1>4
    <3> QED  BY <3>2, <3>3
  <2>2. Spot(ch, t).index # Absent  BY <1>1, <1>2 DEF Lost
  <2> QED  BY <1>4, <2>1, <2>2
<1>6. g = i
  <2>1. i # Absent
    <3>1. i \in 0..(n - 1) /\ n \in Nat  BY <1>3, <1>4, <1>5
    <3> HIDE DEF i, n
    <3> QED  BY <3>1 DEF Absent
  <2>2. ~(ch.duration <= 0)  BY <1>2
  <2> QED  BY <1>4, <2>1, <2>2 DEF GuideIndex
<1> HIDE DEF n, o, at, g, i
<1>7. o[g] \in Nat /\ o[g + 1] \in Nat /\ o[n] \in Nat /\ o[0] = 0
      /\ o[g + 1] = o[g] + ch.items[g + 1].dur /\ at \in Nat
  <2>1. g \in 0..(n - 1) /\ g \in 0..n /\ g + 1 \in 0..n /\ 0 \in 0..n /\ n \in 0..n
      BY <1>3, <1>4, <1>5, <1>6
  <2>2. o[g] \in Nat /\ o[g + 1] \in Nat /\ o[n] \in Nat /\ o[0] = 0
      BY <1>3, <2>1 DEF Ascending
  <2>3. o[g + 1] = o[g] + ch.items[g + 1].dur  BY <1>3, <2>1
  <2>4. at \in Nat  BY <1>2, <1>4
  <2> QED  BY <2>2, <2>3, <2>4
<1>8. at <= o[g + 1]  BY <1>2, <1>3, <1>4, <1>5, <1>6, <1>7
<1>9. \/ p.index = g /\ p.elapsed = at - o[g]
      \/ p.index = (g + 1) % n /\ p.elapsed = 0 /\ o[g + 1] - at < Slack
  <2>0. ch.items[g + 1].dur \in Nat  BY <1>3, <1>4, <1>5, <1>6
  <2>1. CASE at - o[g] > ch.items[g + 1].dur - Slack
    <3>1. Spot(ch, t) = [index |-> (g + 1) % n, elapsed |-> 0]  BY <1>4, <1>5, <1>6, <2>1
    <3>2. o[g + 1] - at < Slack  BY <1>7, <2>0, <2>1
    <3> QED  BY <1>1, <3>1, <3>2
  <2>2. CASE ~(at - o[g] > ch.items[g + 1].dur - Slack)
    <3>1. Spot(ch, t) = [index |-> g, elapsed |-> at - o[g]]  BY <1>4, <1>5, <1>6, <2>2
    <3> QED  BY <1>1, <3>1
  <2> QED  BY <2>1, <2>2
<1> QED  BY <1>3, <1>4, <1>5, <1>6, <1>7, <1>8, <1>9 DEF n, o, at, g

(* The two pieces of code agree, for every lineup and every time.          *)
THEOREM StreamFollowsGuide == Spec => []StreamMatchesGuide
<1>1. IInv => StreamMatchesGuide
  <2> SUFFICES ASSUME IInv, phase = "playing", hops = << >>, program.index # Absent
               PROVE  LET ch == channels[Source]
                          g  == GuideIndex(ch, ask)
                          n  == Len(ch.items)
                          left == StartTimeOffsets(ch.items)[g + 1] - CycleTime(ch, ask)
                      IN  \/ Anchor(ch.items, program.index) = Anchor(ch.items, g)
                          \/ program.index = (g + 1) % n /\ left < Slack
      BY DEF StreamMatchesGuide
  <2>1. IsChannel(channels[Source]) /\ ask \in Int
      BY PlayoutAssumption DEF IInv, Stored, Typed
  <2>2. /\ HasCycle(channels[Source]) /\ ~Lost(channels[Source], ask)
        /\ program = Current(channels[Source], ask)
      BY DEF IInv, Shown, Asked
  <2>3. LET ch == channels[Source]
            g  == GuideIndex(ch, ask)
            n  == Len(ch.items)
            left == StartTimeOffsets(ch.items)[g + 1] - CycleTime(ch, ask)
        IN  program.index = g \/ (program.index = (g + 1) % n /\ left < Slack)
      BY <2>1, <2>2, SameSearch, Zenon
  <2> QED  BY <2>3
<1> QED  BY <1>1, Invariance, PTL

(* What a session plays next is on at the time it asked for, or is the     *)
(* next thing that is on.                                                  *)
LEMMA SoonScheduled ==
    ASSUME IInv, Fits, phase = "playing", hops = << >>, program.index # Absent
    PROVE  Scheduled \in Int /\ Scheduled - ask \in 0..(Slack - 1)
<1> DEFINE ch == channels[Source]
           n == Len(ch.items)
           o == StartTimeOffsets(ch.items)
           at == CycleTime(ch, ask)
           g == GuideIndex(ch, ask)
<1>1. IsChannel(ch) /\ ask \in Int /\ Slack \in Nat \ {0}
    BY PlayoutAssumption DEF IInv, Stored, Typed
<1>2. HasCycle(ch) /\ ~Lost(ch, ask) /\ program = Current(ch, ask)
    BY DEF IInv, Shown, Asked
<1>3. ch.duration \in Int /\ ch.duration <= o[n]
    BY <1>1 DEF Fits, IsChannel, TotalDuration
<1>4. /\ n \in Nat \ {0} /\ o[n] \in Nat /\ g \in 0..(n - 1)
      /\ o[g] \in Nat /\ o[g + 1] \in Nat /\ o[0] = 0
      /\ at \in 0..(ch.duration - 1) /\ o[g] <= at /\ at <= o[g + 1]
      /\ \/ program.index = g /\ program.elapsed = at - o[g]
         \/ program.index = (g + 1) % n /\ program.elapsed = 0 /\ o[g + 1] - at < Slack
    BY <1>1, <1>2, SameSearch, Zenon
<1> DEFINE begins == ask - at + o[program.index]
<1>5. Scheduled = IF program.elapsed > 0 THEN ask
                  ELSE IF begins >= ask THEN begins ELSE begins + ch.duration
    BY DEF Scheduled
<1> HIDE DEF ch, n, o, at, g
<1>6. CASE program.index = g /\ program.elapsed = at - o[g]
  <2>1. CASE program.elapsed > 0  BY <1>1, <1>5, <2>1
  <2>2. CASE ~(program.elapsed > 0)
    <3>1. begins = ask  BY <1>1, <1>3, <1>4, <1>6, <2>2
    <3> QED  BY <1>1, <1>5, <2>2, <3>1
  <2> QED  BY <2>1, <2>2
<1>7. CASE program.index = (g + 1) % n /\ program.elapsed = 0 /\ o[g + 1] - at < Slack
  <2>1. CASE g + 1 < n
    <3>1. program.index = g + 1
      <4>1. g + 1 \in Int /\ g + 1 \in 0..(n - 1)  BY <1>4, <2>1
      <4>2. (g + 1) % n = g + 1  BY <1>4, <4>1, Remainder, Zenon
      <4> QED  BY <1>7, <4>2
    <3>2. begins = ask - at + o[g + 1]  BY <3>1
    <3> HIDE DEF begins
    <3>3. at \in Int /\ begins \in Int /\ begins >= ask /\ begins - ask < Slack
      <4>1. at \in Int /\ o[g + 1] \in Int /\ at <= o[g + 1] /\ o[g + 1] - at < Slack
          BY <1>3, <1>4, <1>7
      <4>2. ask \in Int /\ Slack \in Int  BY <1>1
      <4> QED  BY <3>2, <4>1, <4>2
    <3>4. Scheduled = begins  BY <1>5, <1>7, <3>3
    <3> QED  BY <1>1, <3>3, <3>4
  <2>2. CASE ~(g + 1 < n)
    <3>1. g + 1 = n  BY <1>4, <2>2
    <3>2. program.index = 0
      <4>1. n % n = 0  BY <1>4
      <4> QED  BY <1>7, <3>1, <4>1
    <3>3. begins = ask - at  BY <1>1, <1>3, <1>4, <3>2
    <3> HIDE DEF begins
    <3>4. at \in Int /\ begins \in Int /\ ch.duration \in Int  BY <1>1, <1>3, <1>4, <3>3
    <3>5. CASE at = 0  BY <1>1, <1>3, <1>5, <1>7, <3>3, <3>4, <3>5
    <3>6. CASE at # 0
      <4>1. Scheduled = begins + ch.duration  BY <1>1, <1>4, <1>5, <1>7, <3>3, <3>4, <3>6
      <4>2. begins + ch.duration - ask = ch.duration - at  BY <1>1, <3>3, <3>4
      <4>3. ch.duration - at \in 0..(Slack - 1)
        <5>1. o[n] - at < Slack /\ ch.duration <= o[n] /\ o[n] \in Int
            BY <1>3, <1>4, <1>7, <3>1
        <5>2. at \in 0..(ch.duration - 1) /\ Slack \in Int  BY <1>1, <1>4
        <5> QED  BY <3>4, <5>1, <5>2
      <4> QED  BY <1>1, <3>4, <4>1, <4>2, <4>3
    <3> QED  BY <3>5, <3>6
  <2> QED  BY <2>1, <2>2
<1> QED  BY <1>4, <1>6, <1>7

(* However long a session runs, it is ahead of the guide by less than the  *)
(* slack and by what this one request skipped.                             *)
THEOREM LeadDoesNotGrow == Spec => []NeverFarAhead
<1>1. IInv /\ Fits => NeverFarAhead
  <2> SUFFICES ASSUME IInv, Fits, phase = "playing", hops = << >>, program.index # Absent
               PROVE  Scheduled - now \in 0..(Slack - 1 + skips * (Slack + 2))
      BY DEF NeverFarAhead
  <2> DEFINE k == skips * (Slack + 2)
  <2>1. ask - now \in 0..k  BY DEF IInv, Ahead, Asked
  <2>2. Scheduled \in Int /\ Scheduled - ask \in 0..(Slack - 1)  BY SoonScheduled
  <2>3. ask \in Nat /\ now \in Nat /\ Slack \in Nat /\ k \in Nat
      BY PlayoutAssumption DEF IInv, Typed
  <2> HIDE DEF k
  <2> HIDE DEF Scheduled
  <2>4. Scheduled - now \in 0..(Slack - 1 + k)  BY <2>1, <2>2, <2>3
  <2> QED  BY <2>4 DEF k
<1>2. Init => Fits  BY DurationAssumption DEF Init, Fits
<1> QED  BY <1>1, <1>2, FitsStep, Invariance, PTL DEF Spec
=============================================================================
