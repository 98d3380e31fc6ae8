------------------------------ MODULE MCLogger ------------------------------
(* Instances of Logger for TLC. *)
EXTENDS Logger, TLC

CONSTANTS main, io

\* The main thread accepts a connection, then runs out of descriptors; an I/O
\* thread logs its poll and a failed read.
TwoThreads == (main :> <<"INFO", "FATAL">>) @@ (io :> <<"INFO", "ERROR">>)
=============================================================================
