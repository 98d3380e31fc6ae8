-------------------------- MODULE MCTcpConnection --------------------------
(* Instances of TcpConnection for TLC.                                       *)
EXTENDS TcpConnection

\* Two bytes each: a write can be partial.
TwoBytes == [m \in Messages |-> 2]
============================================================================
