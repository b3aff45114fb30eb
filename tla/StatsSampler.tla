----------------------------- MODULE StatsSampler -----------------------------
(***************************************************************************)
(* The tracker with the job that feeds it (updateConnectedPeers of         *)
(* backend/wireguard/jobs.go) and the peer removals of the user syncs.     *)
(*                                                                         *)
(* The job reads the counters of the device, then the emails of the        *)
(* peers, and only then hands the samples to UpdateStatsBatch; nothing is  *)
(* locked in between.  A sync removes a peer from the kernel first and     *)
(* tells the tracker later.  Reads with reset and the cleanup job run at   *)
(* any moment, so a sample may be applied after its peer was removed, its  *)
(* bytes were reported and its entry was dropped: it then makes a new      *)
(* entry with a zero baseline, and the bytes are charged again.  The       *)
(* history variable recharged bounds that.                                 *)
(*                                                                         *)
(* One goroutine runs the job, so there is one sample in hand at a time.   *)
(* WireGuard.tla has the syncs in full; here a removal is its two steps    *)
(* that the accounting can tell apart.                                     *)
(***************************************************************************)
EXTENDS StatsTracker

VARIABLES
  at,        \* the job: "idle", "device" (device read), "emails" (emails read too)
  device,    \* the counters it has read, of the peers with a recent handshake
  emails,    \* emailByKey, restricted to the keys of device
  removing,  \* keys removed from the kernel, RemoveStats still to come
  stale,     \* history: keys of device whose entry was marked deleted since
  recharged  \* history: bytes that late samples charged a second time at most

jobVars == <<at, device, emails>>
samplerVars == <<trackerVars, jobVars, removing, stale, recharged>>

NoKeys == [k \in {} |-> Zero]

SamplerInit ==
  /\ TrackerInit
  /\ at = "idle" /\ device = NoKeys /\ emails = NoKeys
  /\ removing = {} /\ stale = {}
  /\ recharged = [k \in Key |-> Zero]

-----------------------------------------------------------------------------
(* The job.                                                                *)

\* GetDevice: K are the peers of the device with a recent handshake.
ReadDevice(K) ==
  /\ at = "idle"
  /\ at' = "device"
  /\ device' = [k \in K |-> counter[k]]
  /\ stale' = {}
  /\ UNCHANGED <<trackerVars, emails, removing, recharged>>

\* GetEmailMap: a peer that is not in the store by now is skipped.  A job
\* whose context ends before the last step has the effect of finding none.
ReadEmails(K) ==
  /\ at = "device"
  /\ at' = "emails"
  /\ emails' \in [K -> Email]
  /\ UNCHANGED <<trackerVars, device, removing, stale, recharged>>

\* The samples the job has collected.
samples == [k \in DOMAIN emails |-> [email |-> emails[k], val |-> device[k]]]

\* The keys whose sample is older than the deletion of their entry.
Late == {k \in stale \cap DOMAIN emails : stats[k] = NoEntry}

UpdateConnectedPeers ==
  /\ at = "emails"
  /\ UpdateStatsBatch(samples)
  /\ recharged' = [k \in Key |->
       IF k \in Late THEN [d \in Dir |-> recharged[k][d] + device[k][d]] ELSE recharged[k]]
  /\ at' = "idle" /\ device' = NoKeys /\ emails' = NoKeys /\ stale' = {}
  /\ UNCHANGED removing

-----------------------------------------------------------------------------
(* What runs beside it.                                                    *)

PeerTransfers(k, d) ==
  /\ k \notin removing
  /\ Transfer(k, d)
  /\ UNCHANGED <<jobVars, removing, stale, recharged>>

\* A sync replaces the peer, or rebuilds the device.
ReplacePeer(k) ==
  /\ k \notin removing
  /\ RestartCounters({k})
  /\ UNCHANGED <<stats, total, reported, jobVars, removing, stale, recharged>>

\* A sync removes the peer from the kernel ...
RemovePeer(k) ==
  /\ k \notin removing
  /\ RestartCounters({k})
  /\ removing' = removing \cup {k}
  /\ UNCHANGED <<stats, total, reported, jobVars, stale, recharged>>

\* ... and, once the store is committed, tells the tracker.
RemoveStats(k) ==
  /\ k \in removing
  /\ stats' = WithoutStats(k)
  /\ removing' = removing \ {k}
  /\ stale' = IF k \in DOMAIN device /\ stats[k] # NoEntry THEN stale \cup {k} ELSE stale
  /\ UNCHANGED <<counter, total, restarted, reported, jobVars, recharged>>

ReadStatsReset(keys) ==
  /\ GetStatsReset(keys)
  /\ UNCHANGED <<jobVars, removing, stale, recharged>>

CleanupOfflineUsers ==
  /\ CleanupDeletedEntries
  /\ UNCHANGED <<jobVars, removing, stale, recharged>>

SamplerNext ==
  \/ \E K \in SUBSET (Key \ removing) : ReadDevice(K)
  \/ \E K \in SUBSET DOMAIN device : ReadEmails(K)
  \/ UpdateConnectedPeers
  \/ \E k \in Key, d \in Dir : PeerTransfers(k, d)
  \/ \E k \in Key : ReplacePeer(k)
  \/ \E k \in Key : RemovePeer(k)
  \/ \E k \in Key : RemoveStats(k)
  \/ \E keys \in SUBSET Key : ReadStatsReset(keys)
  \/ CleanupOfflineUsers

SamplerSpec == SamplerInit /\ [][SamplerNext]_samplerVars

-----------------------------------------------------------------------------
(* Properties.                                                             *)

\* The job's locals and the history variables have their types.
SamplerTypeOK ==
  /\ TrackerTypeOK
  /\ at \in {"idle", "device", "emails"}
  /\ DOMAIN device \subseteq Key /\ device \in [DOMAIN device -> [Dir -> Nat]]
  /\ DOMAIN emails \subseteq DOMAIN device /\ emails \in [DOMAIN emails -> Email]
  /\ removing \subseteq Key /\ stale \subseteq DOMAIN device
  /\ recharged \in [Key -> [Dir -> Nat]]

\* Across rollbacks, removals, re-adds, resets, cleanups and samples that are
\* applied late, a key is charged more than it transferred only by samples that
\* were read before its peer's removal and applied after its entry was reported
\* and dropped, by no more than such samples hold, and no byte more than twice
\* (jobs.go:55-100, tracker.go:63-114).
NeverOverReported ==
  \A k \in Key, d \in Dir : /\ Accounted(k, d) <= total[k][d] + recharged[k][d]
                            /\ recharged[k][d] <= total[k][d]

\* "Persist pending deltas so re-add before stats pull won't lose data"
\* (tracker.go:270), and "preserve pending deltas" on a rollback
\* (tracker.go:90): once a sample has accounted for bytes, no later operation
\* takes them back, a late sample included.
AccountedNeverShrinks == [][NothingTakenBack]_samplerVars

\* As long as the counters of a key have not restarted, the accounting is
\* exact: reported plus pending is the last sampled counter, also when the
\* sample was applied long after it was read.
ExactUntilRestart ==
  \A k \in Key, d \in Dir :
    restarted[k] = 0 /\ stats[k] # NoEntry => Accounted(k, d) = stats[k].cur[d]
=============================================================================
