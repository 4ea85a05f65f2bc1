---------------------------- MODULE MCKeepAlive ----------------------------
(* Instances of KeepAlive: the timeouts are scaled down, their order         *)
(* (acknowledgement < ping < receive < ping timeout) is that of the code:    *)
(* 5 s, 10.5 s, 15 s and 30 s.                                               *)
EXTENDS KeepAlive
=============================================================================
