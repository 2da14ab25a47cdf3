---------------------------- MODULE MCEventLoop ----------------------------
(* Constants of the runs of EventLoop. *)
EXTENDS EventLoop

CONSTANTS c1, c2
=============================================================================
