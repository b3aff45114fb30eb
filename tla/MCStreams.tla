------------------------------ MODULE MCStreams ------------------------------
(* Two sessions, two streams that follow the log, and one upload of up to   *)
(* three chunks: users split over chunks, a user in two of them, chunks     *)
(* without users, and enough frames to repeat one of three.                 *)
EXTENDS Streams

CONSTANTS s1, s2

MCStream == {s1, s2}

Peer(e, v) == [email |-> e, account |-> v]
MCUser == [email : {"a", "b", "c"}, account : 1..3]
MCPlans == {
  <<<<Peer("a", 1)>>, <<Peer("b", 1), Peer("a", 2)>>, <<Peer("c", 1)>>>>,
  <<<<Peer("a", 1), Peer("a", 2)>>, <<Peer("a", 3)>>>>,
  <<<<>>, <<Peer("a", 1)>>>>,
  <<<<Peer("a", 1)>>, <<>>>>,
  <<<<>>>> }
=============================================================================
