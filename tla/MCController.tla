----------------------------- MODULE MCController -----------------------------
(* Start and Stop calls, a REST request, the trackers of the sessions and  *)
(* main.                                                                   *)
EXTENDS Controller

CONSTANTS c1, r1
MCCaller == {c1}
MCRequest == {r1}
=============================================================================
