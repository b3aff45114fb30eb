------------------------- MODULE MCInterfaceCounters -------------------------
(* Both directions, so that one may roll back while the other grows.       *)
EXTENDS InterfaceCounters

MCDir == {"rx", "tx"}
=============================================================================
