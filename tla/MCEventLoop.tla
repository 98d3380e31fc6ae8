---------------------------- MODULE MCEventLoop ----------------------------
(* Instances of EventLoop for TLC: the .cfg files name the threads and tasks. *)
EXTENDS EventLoop
============================================================================
