----------------------------- MODULE MCPlayout -----------------------------
(* The model-checking instance of Playout: channel a is watched; it may    *)
(* redirect to b, and b to c, back to a, or to a channel that is gone.     *)
EXTENDS Playout

CONSTANTS MaxItems

Item(k, d, t) == [kind |-> k, dur |-> d, to |-> t]

OfA == {Item("program", 1, "a"), Item("program", 9, "a"), Item("mid", 3, "a"),
        Item("offline", 3, "a"), Item("redirect", 6, "b")}
OfB == {Item("program", 4, "b"), Item("missing", 5, "b"),
        Item("redirect", 5, "a"), Item("redirect", 3, "c"), Item("redirect", 4, "gone")}
OfC == << Item("program", 4, "c"), Item("program", 7, "c") >>

Lineups(items, n) == UNION {[1..k -> items] : k \in 0..n}

Channel(items, start, extra) ==
    [start |-> start, duration |-> StartTimeOffsets(items)[Len(items)] + extra, items |-> items]

MCSchedules ==
    {[c \in {"a", "b", "c"} |-> CASE c = "a" -> a [] c = "b" -> b [] c = "c" -> Channel(OfC, 0, 0)] :
        a \in {[Channel(l, s, 0) EXCEPT !.duration = IF z THEN 0 ELSE @] :
                  l \in Lineups(OfA, MaxItems), s \in {0, 2}, z \in BOOLEAN},
        b \in {Channel(l, 1, x) : l \in Lineups(OfB, 2) \ {<< >>}, x \in {0, 2}}}
=============================================================================
