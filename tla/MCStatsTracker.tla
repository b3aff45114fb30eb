---------------------------- MODULE MCStatsTracker ----------------------------
(* One peer, both directions: the rules are per key, and a batch over      *)
(* several keys applies them key by key.                                   *)
EXTENDS StatsSampler, TLC

CONSTANTS k1, e1
MCKey == {k1}
MCEmail == {e1}
MCDir == {"rx", "tx"}
=============================================================================
