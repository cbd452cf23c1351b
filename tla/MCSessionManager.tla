---------------------------- MODULE MCSessionManager ----------------------------
(* Small instances of SessionManager for TLC. *)
EXTENDS SessionManager, TLC

LOCAL F == INSTANCE Functions

(* Every client asks for everything, or for the sessions of a channel of   *)
(* its own; or the viewers for concat sessions and Tunarr's own ffmpeg for *)
(* the sessions those read from.                                           *)
EveryKey == [c \in Clients |-> Key]
OwnChannel ==
    LET channel == CHOOSE f \in [Clients -> Channels] : F!IsInjective(f)
    IN  [c \in Clients |-> {k \in Key : k[1] = channel[c]}]

ByRole == [c \in Clients |-> {k \in Key : (k[2] \in ConcatTypes) # (c \in InternalClients)}]

(* A session can be any instance, or has the one instance of its key.      *)
AnyInstance == [k \in Key |-> Instances]
OneInstance ==
    LET instance == CHOOSE f \in [Key -> Instances] : F!IsInjective(f)
    IN  [k \in Key |-> {instance[k]}]

(* Instances are interchangeable; so are channels and clients where the    *)
(* configuration gives all of them the same role.                          *)
InstanceSymmetry == Permutations(Instances)
FullSymmetry == Permutations(Instances) \cup Permutations(Clients) \cup Permutations(Channels)
=============================================================================
