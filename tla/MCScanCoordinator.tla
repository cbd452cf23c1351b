------------------------- MODULE MCScanCoordinator -------------------------
(* The model-checking instance of ScanCoordinator. *)
EXTENDS ScanCoordinator
=============================================================================
