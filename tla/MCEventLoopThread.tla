------------------------- MODULE MCEventLoopThread -------------------------
(* Instances of EventLoopThread for TLC: the owner is the only other thread. *)
EXTENDS EventLoopThread
============================================================================
