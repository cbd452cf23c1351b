----------------------------- MODULE MCOnDemand -----------------------------
(* Small instances of OnDemand for TLC. *)
EXTENDS OnDemand, TLC

ViewerSymmetry == Permutations(Viewers \ Internal)
=============================================================================
