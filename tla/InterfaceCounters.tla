-------------------------- MODULE InterfaceCounters --------------------------
(***************************************************************************)
(* The interface-level statistics (handleInterfaceOutboundStats of         *)
(* backend/wireguard/stats.go and InterfaceCountersTracker of              *)
(* pkg/stats/interface_counters.go).                                       *)
(*                                                                         *)
(* A query reads the kernel's interface counters, under no lock of the     *)
(* tracker, and then calls Delta, one critical section of t.mu.  Queries   *)
(* run concurrently, so Delta may see samples in another order than they   *)
(* were taken in: an overtaken sample looks like a rollback, or like       *)
(* traffic.  The history variables remember when samples were read and     *)
(* what the overtaken ones cost.                                           *)
(*                                                                         *)
(* External, modelled from its use: the counters of the network interface. *)
(* They only grow while the interface exists; Restart stands for whatever  *)
(* makes them start again from zero.                                       *)
(***************************************************************************)
EXTENDS Integers

CONSTANTS
  Query,       \* concurrent queries
  Dir,         \* rx, tx
  MaxBytes,    \* bound: bytes the interface transfers in one direction
  MaxRestarts  \* bound: times its counters restart

ASSUME InterfaceCountersAssumption == MaxBytes \in Nat /\ MaxRestarts \in Nat

VARIABLES
  base, baseSet,  \* t.baseRx and t.baseTx; t.baseSet
  counter,        \* the interface's counters (external)
  pc,             \* of each query: "idle", or "read" between the two calls
  sample,         \* the counters a query has read
  restarts,       \* history: restarts of the counters so far
  first,          \* history: the baseline the first Delta set
  total,          \* history: bytes transferred
  reported,       \* history: bytes returned by queries with reset
  taken,          \* history: of each query, the restarts and total when it read
  baseTaken,      \* history: the same, of the sample the baseline comes from
  slipped         \* history: bytes that overtaken samples may count again

orderVars == <<taken, baseTaken, slipped>>
vars == <<base, baseSet, counter, pc, sample, restarts, first, total, reported, orderVars>>

Zero == [d \in Dir |-> 0]

Init ==
  /\ base = Zero /\ baseSet = FALSE
  /\ counter = Zero
  /\ pc = [q \in Query |-> "idle"]
  /\ sample = [q \in Query |-> Zero]
  /\ restarts = 0 /\ first = Zero /\ total = Zero /\ reported = Zero
  /\ taken = [q \in Query |-> [life |-> 0, total |-> Zero]]
  /\ baseTaken = [life |-> 0, total |-> Zero]
  /\ slipped = Zero

Transfer(d) ==
  /\ total[d] < MaxBytes
  /\ counter' = [counter EXCEPT ![d] = @ + 1]
  /\ total' = [total EXCEPT ![d] = @ + 1]
  /\ UNCHANGED <<base, baseSet, pc, sample, restarts, first, reported, orderVars>>

Restart ==
  /\ restarts < MaxRestarts
  /\ restarts' = restarts + 1
  /\ counter' = Zero
  /\ UNCHANGED <<base, baseSet, pc, sample, first, total, reported, orderVars>>

\* getInterfaceCounters.
GetInterfaceStats(q) ==
  /\ pc[q] = "idle"
  /\ pc' = [pc EXCEPT ![q] = "read"]
  /\ sample' = [sample EXCEPT ![q] = counter]
  /\ taken' = [taken EXCEPT ![q] = [life |-> restarts, total |-> total]]
  /\ UNCHANGED <<base, baseSet, counter, restarts, first, total, reported, baseTaken, slipped>>

\* The first sample sets the baseline, and so does one that rolled back.
Rebases(current) == ~baseSet \/ \E d \in Dir : current[d] < base[d]

\* The baseline Delta compares the sample with.
BaselineFor(current) == IF Rebases(current) THEN current ELSE base

\* The sample of q was read before the one the baseline comes from.
Overtaken(q) ==
  \/ taken[q].life < baseTaken.life
  \/ \E d \in Dir : taken[q].total[d] < baseTaken.total[d]

\* One call of Delta; moves says whether the sample becomes the baseline.
DeltaMoving(q, reset, moves) ==
  LET current  == sample[q]
      returned == [d \in Dir |-> IF reset THEN current[d] - BaselineFor(current)[d] ELSE 0]
  IN  /\ pc[q] = "read"
      /\ pc' = [pc EXCEPT ![q] = "idle"]
      /\ sample' = [sample EXCEPT ![q] = Zero]
      /\ baseSet' = TRUE
      /\ base' = IF moves THEN current ELSE base
      /\ reported' = [d \in Dir |-> reported[d] + returned[d]]
      /\ first' = IF baseSet THEN first ELSE current
      /\ baseTaken' = IF moves THEN taken[q] ELSE baseTaken
      /\ slipped' = IF moves /\ Overtaken(q)
                    THEN [d \in Dir |-> slipped[d] + (baseTaken.total[d] - taken[q].total[d]) + returned[d]]
                    ELSE slipped
      /\ UNCHANGED <<counter, restarts, total, taken>>

\* Mutant: every call moves the baseline.
DeltaAlwaysReset(q, reset) == DeltaMoving(q, reset, TRUE)

Delta(q, reset) == DeltaMoving(q, reset, reset \/ Rebases(sample[q]))

Next ==
  \/ \E d \in Dir : Transfer(d)
  \/ Restart
  \/ \E q \in Query : GetInterfaceStats(q)
  \/ \E q \in Query, reset \in BOOLEAN : Delta(q, reset)

Spec == Init /\ [][Next]_vars

-----------------------------------------------------------------------------
(* Properties.                                                             *)

Stamp == [life : 0..MaxRestarts, total : [Dir -> Nat]]

\* The fields of InterfaceCountersTracker, the queries' locals and the history.
CountersTypeOK ==
  /\ base \in [Dir -> Nat] /\ baseSet \in BOOLEAN
  /\ counter \in [Dir -> Nat] /\ restarts \in 0..MaxRestarts
  /\ pc \in [Query -> {"idle", "read"}] /\ sample \in [Query -> [Dir -> Nat]]
  /\ first \in [Dir -> Nat] /\ total \in [Dir -> Nat] /\ reported \in [Dir -> Nat]
  /\ taken \in [Query -> Stamp] /\ baseTaken \in Stamp /\ slipped \in [Dir -> Nat]

\* Across resets, restarts of the counters and concurrent queries, the panel is
\* handed more bytes than the interface carried since the first query only by
\* samples that reached Delta after a later one had become the baseline, and by
\* no more than what lies between the two reads and what such a call returns
\* (interface_counters.go:25-49, stats.go:50-59).  Without a restart the
\* accounting is exact but for them: no byte is lost and none counted twice.
ResetsAreExact ==
  \A d \in Dir :
    /\ first[d] + reported[d] <= total[d] + slipped[d]
    /\ restarts = 0 => first[d] + reported[d] = base[d] + slipped[d]
=============================================================================
