---------------------------- MODULE SessionRegistry ----------------------------
(***************************************************************************)
(* What stream/SessionManager.ts promises about its map of sessions, with  *)
(* nothing said of locks, requests or timers: a key is free or holds one   *)
(* session; a session is put at a free key only, once, and is either in    *)
(* the map or on its way out; and one that has left the map is not         *)
(* forgotten before its stream is closed.                                  *)
(***************************************************************************)
CONSTANTS
    Keys,        \* the (channel, session type) pairs
    Instances,   \* identities a Session object can have
    NoSession

VARIABLES
    slot,        \* the session at each key
    open,        \* the sessions that hold a stream
    leaving      \* the sessions taken from the map and not yet forgotten

vars == <<slot, open, leaving>>

Listed == {slot[k] : k \in Keys} \ {NoSession}

Init ==
    /\ slot = [k \in Keys |-> NoSession]
    /\ open = {}
    /\ leaving = {}

Without(K) == [k \in Keys |-> IF k \in K THEN NoSession ELSE slot[k]]
At(K)      == {slot[k] : k \in K} \ {NoSession}

(* A new session s takes the key k, which is free, as the sessions at the  *)
(* keys K make room for it.                                                *)
List(k, s, K) ==
    /\ slot[k] = NoSession
    /\ s \notin Listed \cup open \cup leaving
    /\ slot' = [Without(K) EXCEPT ![k] = s]
    /\ leaving' = leaving \cup At(K)
    /\ UNCHANGED open

Unlist(K) ==
    /\ slot' = Without(K)
    /\ leaving' = leaving \cup At(K)
    /\ UNCHANGED open

Open(s) ==
    /\ s \in Listed \cup leaving
    /\ open' = open \cup {s}
    /\ UNCHANGED <<slot, leaving>>

(* The stream of s closes; its keys, and those of what depends on it, may  *)
(* be freed in the same step.                                              *)
Close(s, K) ==
    /\ open' = open \ {s}
    /\ slot' = Without(K)
    /\ leaving' = leaving \cup At(K)

Forget(s) ==
    /\ s \in leaving \ open
    /\ leaving' = leaving \ {s}
    /\ UNCHANGED <<slot, open>>

Next ==
    \/ \E k \in Keys, s \in Instances, K \in SUBSET Keys : List(k, s, K)
    \/ \E K \in SUBSET Keys : Unlist(K)
    \/ \E s \in Instances : Open(s) \/ Forget(s)
    \/ \E s \in Instances, K \in SUBSET Keys : Close(s, K)

SafeSpec == Init /\ [][Next]_vars

(* What has left the map is stopped and forgotten in the end.              *)
Departure == \A s \in Instances : s \in leaving ~> s \notin leaving

Spec == SafeSpec /\ Departure

=============================================================================
