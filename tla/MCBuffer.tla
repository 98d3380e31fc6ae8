------------------------------ MODULE MCBuffer ------------------------------
(* Instances of Buffer for TLC: sizes of a few bytes. *)
EXTENDS Buffer
============================================================================
