--------------------------- MODULE MCHlsPlaylist ---------------------------
(* Small instances of HlsPlaylist for TLC. *)
EXTENDS HlsPlaylist, TLC

(* No lead, and a lead of one segment.                                     *)
BothPacings == {Unpaced, 1}

ClientSymmetry == Permutations(Clients)
=============================================================================
