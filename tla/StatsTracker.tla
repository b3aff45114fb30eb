----------------------------- MODULE StatsTracker -----------------------------
(***************************************************************************)
(* The per-peer traffic accounting of pkg/stats/tracker.go: cumulative     *)
(* kernel counters are sampled, the growth since a baseline is pending,    *)
(* and a read with reset hands the pending bytes to the panel and moves    *)
(* the baseline.  Every method is one critical section of st.mu.           *)
(*                                                                         *)
(* Rx and Tx are a set of directions, because every rule treats them       *)
(* alike.  LastActiveTime and EndpointIP, which feed only the online       *)
(* queries, are left out.                                                  *)
(*                                                                         *)
(* External to src/, modelled from its use: the kernel's byte counters of  *)
(* a peer.  They only grow, and restart from zero when the peer is removed *)
(* or replaced.                                                            *)
(*                                                                         *)
(* This module is the tracker alone.  StatsSampler.tla adds the job that   *)
(* samples the device in several steps; WireGuard.tla uses both beside the *)
(* user syncs.                                                             *)
(***************************************************************************)
EXTENDS Integers

CONSTANTS
  Key,        \* public keys
  Email,      \* user emails
  Dir,        \* traffic directions: rx, tx
  NoEntry,    \* the absent entry of the stats map
  MaxTraffic  \* bound: bytes one key transfers in one direction

\* One user's accounting; the map key is the public key.
Entry == [email : Email, cur : [Dir -> Nat], base : [Dir -> Int],
          lastDelta : [Dir -> Int], deleted : BOOLEAN]

ASSUME StatsAssumption ==
  /\ NoEntry \notin Entry
  /\ MaxTraffic \in Nat

VARIABLES
  stats,      \* st.stats: Key -> Entry or NoEntry
  counter,    \* kernel counters of each key, per direction (external)
  total,      \* history: bytes each key ever transferred
  restarted,  \* history: 1 once the counters of a key have restarted, else 0
  reported    \* history: bytes of each key handed to the panel by resets

trackerVars == <<stats, counter, total, restarted, reported>>

Zero == [d \in Dir |-> 0]

\* The bytes of an entry not yet reported.
Delta(entry) == [d \in Dir |-> entry.cur[d] - entry.base[d]]

\* buildDeltaStats reports a direction only when its delta is positive.
Reportable(entry) == [d \in Dir |-> IF Delta(entry)[d] > 0 THEN Delta(entry)[d] ELSE 0]

TrackerInit ==
  /\ stats = [k \in Key |-> NoEntry]
  /\ counter = [k \in Key |-> Zero]
  /\ total = [k \in Key |-> Zero]
  /\ restarted = [k \in Key |-> 0]
  /\ reported = [k \in Key |-> Zero]

-----------------------------------------------------------------------------
(* The kernel (external).                                                  *)

Transfer(k, d) ==
  /\ total[k][d] < MaxTraffic
  /\ counter' = [counter EXCEPT ![k][d] = @ + 1]
  /\ total' = [total EXCEPT ![k][d] = @ + 1]
  /\ UNCHANGED <<stats, restarted, reported>>

\* The counters of the keys in K restart, their peers removed or replaced.
RestartCounters(K) ==
  /\ counter' = [k \in Key |-> IF k \in K THEN Zero ELSE counter[k]]
  /\ restarted' = [k \in Key |-> IF k \in K THEN 1 ELSE restarted[k]]

-----------------------------------------------------------------------------
(* applySampleLocked: the entry of a key after a sample.                   *)

\* The entry the sample finds or creates, no longer deleted.
Touched(entry, email) ==
  IF entry = NoEntry
  THEN [email |-> email, cur |-> Zero, base |-> Zero, lastDelta |-> Zero, deleted |-> FALSE]
  ELSE [entry EXCEPT !.email = email, !.deleted = FALSE]

\* A deleted entry that is re-added restores its pending bytes.
Readded(entry) == \E d \in Dir : entry.lastDelta[d] # 0

\* Mutant: the restored bytes stay remembered.
RestoreWithoutClear(entry, val) ==
  IF Readded(entry)
  THEN [entry EXCEPT !.base = [d \in Dir |-> val[d] - entry.lastDelta[d]]]
  ELSE entry

RestoreBaseline(entry, val) ==
  IF Readded(entry)
  THEN [entry EXCEPT !.base = [d \in Dir |-> val[d] - entry.lastDelta[d]],
                     !.lastDelta = Zero]
  ELSE entry

\* A counter that went back: keep the pending bytes, never a negative amount.
RolledBack(entry, val) == \E d \in Dir : val[d] < entry.cur[d]

PendingOrZero(entry, d) == IF Delta(entry)[d] < 0 THEN 0 ELSE Delta(entry)[d]

\* Mutant: a rollback drops the pending bytes.
RebaseToSample(entry, val) ==
  IF RolledBack(entry, val) THEN [entry EXCEPT !.base = val] ELSE entry

RebaseOnRollback(entry, val) ==
  IF RolledBack(entry, val)
  THEN [entry EXCEPT !.base = [d \in Dir |-> val[d] - PendingOrZero(entry, d)]]
  ELSE entry

applySample(entry, email, val) ==
  LET touched  == Touched(entry, email)
      restored == RestoreBaseline(touched, val)
      rebased  == IF Readded(touched) THEN restored ELSE RebaseOnRollback(restored, val)
  IN  IF restored.cur = val THEN restored ELSE [rebased EXCEPT !.cur = val]

-----------------------------------------------------------------------------
(* Methods of the tracker.                                                 *)

\* samples maps each sampled key to its email and values; a key occurs once.
UpdateStatsBatch(samples) ==
  /\ stats' = [k \in Key |->
       IF k \in DOMAIN samples
       THEN applySample(stats[k], samples[k].email, samples[k].val)
       ELSE stats[k]]
  /\ UNCHANGED <<counter, total, restarted, reported>>

\* Mutant: the reset does not move the baseline.
ResetKeepsBaseline(entry) == IF entry.deleted THEN NoEntry ELSE entry

\* GetStats and GetUsersStats with reset: report, move the baseline, and
\* drop a deleted entry.  Without reset nothing changes.
ResetEntry(entry) ==
  IF entry.deleted THEN NoEntry ELSE [entry EXCEPT !.base = entry.cur]

GetStatsReset(keys) ==
  LET found == {k \in keys : stats[k] # NoEntry}
  IN  /\ reported' = [k \in Key |->
           IF k \in found
           THEN [d \in Dir |-> reported[k][d] + Reportable(stats[k])[d]]
           ELSE reported[k]]
      /\ stats' = [k \in Key |-> IF k \in found THEN ResetEntry(stats[k]) ELSE stats[k]]
      /\ UNCHANGED <<counter, total, restarted>>

\* RemoveStats(publicKey): mark the entry and remember its pending bytes.
MarkDeleted(entry) == [entry EXCEPT !.lastDelta = Delta(entry), !.deleted = TRUE]

WithoutStats(k) ==
  IF stats[k] = NoEntry THEN stats ELSE [stats EXCEPT ![k] = MarkDeleted(stats[k])]

\* Mutant: the cleanup does not look at the pending bytes.
AnyDeleted(entry) == entry # NoEntry /\ entry.deleted

\* CleanupDeletedEntries.
FullyReported(entry) == entry # NoEntry /\ entry.deleted /\ entry.cur = entry.base

CleanupDeletedEntries ==
  /\ stats' = [k \in Key |-> IF FullyReported(stats[k]) THEN NoEntry ELSE stats[k]]
  /\ UNCHANGED <<counter, total, restarted, reported>>

-----------------------------------------------------------------------------
(* Properties.                                                             *)

\* What the panel has been told of a key plus what it will be told next.
Pending(k, d) == IF stats[k] = NoEntry THEN 0 ELSE Delta(stats[k])[d]
Accounted(k, d) == reported[k][d] + Pending(k, d)

\* The fields of Tracker and the history variables have their types.
TrackerTypeOK ==
  /\ stats \in [Key -> Entry \cup {NoEntry}]
  /\ counter \in [Key -> [Dir -> Nat]]
  /\ total \in [Key -> [Dir -> Nat]]
  /\ restarted \in [Key -> 0..1]
  /\ reported \in [Key -> [Dir -> Int]]

\* The pending delta of an entry is never negative, so a reset never drops a
\* negative amount that buildDeltaStats would hide (interface_counters.go:51).
PendingNonNegative == \A k \in Key, d \in Dir : Pending(k, d) >= 0

\* "Persist pending deltas so re-add before stats pull won't lose data"
\* (tracker.go:270), and "preserve pending deltas" on a rollback
\* (tracker.go:90): once a sample has accounted for bytes, no later
\* operation takes them back.
NothingTakenBack == \A k \in Key, d \in Dir : Accounted(k, d)' >= Accounted(k, d)
=============================================================================
