--------------------------- MODULE MCStreamQueue ---------------------------
(* A small instance of StreamQueue for TLC. *)
EXTENDS StreamQueue, TLC
============================================================================
