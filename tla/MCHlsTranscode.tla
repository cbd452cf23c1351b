--------------------------- MODULE MCHlsTranscode ---------------------------
(* Small instances of HlsTranscode for TLC. *)
EXTENDS HlsTranscode, TLC
=============================================================================
