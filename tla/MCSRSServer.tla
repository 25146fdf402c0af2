---------------------------- MODULE MCSRSServer ----------------------------
(* Values for SRSServer: the two threads of the program, a ramp. *)
EXTENDS SRSServer

CONSTANTS timer, rpc, up

MCTimers == {timer}
MCWorkers == {rpc}
MCRequests == {up}
=============================================================================
