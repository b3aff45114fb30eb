------------------------------ MODULE WireGuard ------------------------------
(***************************************************************************)
(* The WireGuard backend (backend/wireguard): user synchronisation,        *)
(* restart, shutdown and the stats loop, around the peer store, the stats  *)
(* tracker and the kernel device.                                          *)
(*                                                                         *)
(* Threads.  Callers run SyncUser(s), UpdateUsers, UpdateUsersAndRestart   *)
(* and Restart; wg.syncMu lets one of them run at a time.  The stats loop  *)
(* and the readers of statistics take no part in syncMu.  Shutdown takes   *)
(* wg.mu only, so it can run between any two steps of a sync, which has    *)
(* read wg.manager before and uses it after.                               *)
(*                                                                         *)
(* A sync computes its plan in one step: what it reads is written only     *)
(* under syncMu.  A request that fails validation, or that changes nothing *)
(* in a full sync, takes and releases syncMu without any effect and is not *)
(* a step.                                                                 *)
(*                                                                         *)
(* External, modelled from its use: the kernel device and its netlink      *)
(* client (wgctrl).  A peer is a set of allowed IPs; an IP belongs to the  *)
(* peer it was configured for last; ReplacePeers drops every peer first; a *)
(* failing call may have applied a prefix of its peers.                    *)
(***************************************************************************)
EXTENDS PeerStore, FiniteSets, Functions

CONSTANTS
  Caller, Nobody,  \* sync callers; the free value of syncMu
  KeyStr,          \* spellings of public keys in requests
  ParseKey,        \* wgtypes.ParseKey: KeyStr -> Key, NoKey on error
  KeyString,       \* wgtypes.Key.String: Key -> its canonical spelling
  PeerIP,          \* spellings of peer IPs in requests
  ParseCIDR,       \* net.ParseCIDR: PeerIP -> canonical IP, NoIP on error
  IP, NoIP,
  InterfaceIP,     \* the IPs inside the interface's networks
  Requests,        \* the user lists the panel may send
  UniqueIPs,       \* TRUE: the panel never gives a user an IP another one has
  Dir, NoEntry,    \* see StatsTracker
  MaxTraffic,
  MaxKernelErrors  \* bound: failing kernel calls

\* A user of a request.  wg is FALSE when normalizeUsers skips the entry (no
\* WireGuard settings, key or IPs); inbound when it lists this interface.
User == [email : Email, wg : BOOLEAN, inbound : BOOLEAN, key : KeyStr, ips : Seq(PeerIP)]

VARIABLES
  state,      \* wg.state: "none" before New, "running", "stopped"
  manager,    \* wg.manager # nil
  client,     \* m.client # nil
  device,     \* the kernel's peers: Key -> allowed IPs, or NoPeer
  errors,     \* failing kernel calls so far
  dirty,      \* history: a failing call may have left the device half configured
  syncMu,     \* the holder of wg.syncMu
  pc, op, diff, \* of each caller: place, operation, plan
  goal,       \* history: the peers the caller's request asks the store to hold
  poll,       \* the stats loop: place, device snapshot, email snapshot
  lookup,     \* a per-user stats query: the key GetByEmail found
  stats, counter, total, restarted, reported  \* see StatsTracker

ST == INSTANCE StatsTracker

trackerVars == <<stats, counter, total, restarted, reported>>
lifeVars == <<state, manager, client>>
deviceVars == <<device, errors, dirty>>
syncVars == <<syncMu, pc, op, diff, goal>>
readVars == <<poll, lookup>>
vars == <<psVars, lifeVars, deviceVars, syncVars, readVars, trackerVars>>

-----------------------------------------------------------------------------
(* From a request to the peers it asks for.                                *)

\* normalizeUsers: the last usable entry of each email.
normalizeUsers(users) ==
  {users[i] : i \in {j \in DOMAIN users :
     users[j].wg /\ \A l \in DOMAIN users :
       l > j /\ users[l].wg => users[l].email # users[j].email}}

\* A user whose entry collectDesiredPeers reads: on this interface, key parsed.
Listed(u) == u.inbound /\ ParseKey[u.key] # NoKey

CanonicalIPs(u) == [i \in DOMAIN u.ips |-> ParseCIDR[u.ips[i]]]

\* peerIPAllowedOnInterface filters the list, keeping its order.
AllowedIPNets(u) ==
  LET keep[i \in 0..Len(u.ips)] ==
        IF i = 0 THEN << >>
        ELSE IF CanonicalIPs(u)[i] \in InterfaceIP THEN Append(keep[i - 1], CanonicalIPs(u)[i])
        ELSE keep[i - 1]
  IN  keep[Len(u.ips)]

\* seenIPs: what the loop registers before it meets an invalid IP.
SeenIPs(u) ==
  {CanonicalIPs(u)[i] : i \in {j \in DOMAIN u.ips :
     \A l \in 1..j : CanonicalIPs(u)[l] # NoIP}} \cap InterfaceIP

\* An invalid IP, or no IP left, drops the user from the desired peers.
Quarantined(u) == AllowedIPNets(u) = <<>> \/ NoIP \in Range(CanonicalIPs(u))

\* AllowedIPs holds every list that a request can leave a peer with.
ASSUME WireGuardAssumption ==
  /\ Nobody \notin Caller /\ NoPeer \notin Email
  /\ IsFiniteSet(Key)
  /\ ParseKey \in [KeyStr -> Key \cup {NoKey}]
  /\ KeyString \in [Key -> KeyStr]
  /\ \A k \in Key : ParseKey[KeyString[k]] = k
  /\ ParseCIDR \in [PeerIP -> IP \cup {NoIP}]
  /\ NoIP \notin IP /\ InterfaceIP \subseteq IP
  /\ AllowedIPs \subseteq Seq(IP)
  /\ \A S \in SUBSET IP : NoPeer # S
  /\ Requests \subseteq Seq(User)
  /\ \A r \in Requests : \A i \in DOMAIN r :
       ~Quarantined(r[i]) => AllowedIPNets(r[i]) \in AllowedIPs
  /\ UniqueIPs \in BOOLEAN
  /\ NoEntry \notin ST!Entry
  /\ MaxKernelErrors \in Nat /\ MaxTraffic \in Nat

\* The two errors of collectDesiredPeers.  Keys are compared as spelled.
collectFails(users) ==
  \E u, v \in {w \in users : Listed(w)} :
    /\ u # v
    /\ \/ SeenIPs(u) \cap SeenIPs(v) # {}
       \/ ~Quarantined(u) /\ ~Quarantined(v) /\ u.key = v.key

\* Mutant: users without a usable IP are not quarantined.
collectUnfiltered(users) ==
  {[str |-> u.key,
    peer |-> [email |-> u.email, key |-> ParseKey[u.key], ips |-> AllowedIPNets(u)]] :
     u \in {w \in users : Listed(w)}}

\* A desired peer, under the spelling its map key is.
collectDesiredPeers(users) ==
  {[str |-> u.key,
    peer |-> [email |-> u.email, key |-> ParseKey[u.key], ips |-> AllowedIPNets(u)]] :
     u \in {w \in users : Listed(w) /\ ~Quarantined(w)}}

-----------------------------------------------------------------------------
(* buildSyncDiff: existing peers against desired ones.                     *)

NoDiff == [remove |-> {}, upsert |-> {}, replaceIPs |-> {}, add |-> {}, target |-> {}]

Diff == [remove : SUBSET Key, upsert : SUBSET PeerInfo, replaceIPs : SUBSET PeerInfo,
         add : SUBSET PeerInfo, target : SUBSET PeerInfo]

\* Existing and desired peers are matched by spelling.
Matches(p, t) == KeyString[p.key] = t.str
Moved(existing, desired) ==
  {t \in desired : \E p \in existing : Matches(p, t) /\ p.ips # t.peer.ips}
Added(existing, desired) == {t \in desired : \A p \in existing : ~Matches(p, t)}

\* Mutant: a key that passes to another user is not an update.
NoneRenamed(existing, desired) == {}
Renamed(existing, desired) ==
  {t \in desired : \E p \in existing : Matches(p, t) /\ p.email # t.peer.email}

buildSyncDiff(existing, desired) ==
  LET moved == Moved(existing, desired)
      added == Added(existing, desired)
      Peers(T) == {t.peer : t \in T}
  IN  [remove     |-> {p.key : p \in {q \in existing : \A t \in desired : ~Matches(q, t)}},
       upsert     |-> Peers(moved \cup Renamed(existing, desired) \cup added),
       replaceIPs |-> Peers(moved),
       add        |-> Peers(added),
       target     |-> Peers(desired)]

Changed(d) == d.remove # {} \/ d.upsert # {}
PeerConfigs(d) == d.remove \cup d.replaceIPs \cup d.add

\* Mutant: the owner of a key is not asked.
KeyTakenUnchecked(desired, touched) == FALSE

\* The partial sync refuses a key whose owner the request does not touch.
KeyTaken(desired, touched) ==
  \E t \in desired, k \in Key :
    /\ KeyString[k] = t.str
    /\ GetEmailMap[k] \notin {NoPeer, t.peer.email} \cup touched

-----------------------------------------------------------------------------
(* The kernel device (external).                                           *)

IPsOf(configs, k) == UNION {Range(p.ips) : p \in {q \in configs : q.key = k}}

\* ConfigureDevice with peers to change, then peers to remove.
Reconfigure(replaceIPs, add, remove) ==
  LET configs == replaceIPs \cup add
      taken(k) == UNION {Range(p.ips) : p \in {q \in configs : q.key # k}}
      kept(k) == IF device[k] = NoPeer \/ \E p \in replaceIPs : p.key = k THEN {} ELSE device[k]
  IN  [k \in Key |->
         IF k \in remove THEN NoPeer
         ELSE IF \E p \in configs : p.key = k THEN (kept(k) \ taken(k)) \cup IPsOf(configs, k)
         ELSE IF device[k] = NoPeer THEN NoPeer ELSE device[k] \ taken(k)]

\* ConfigureDevice with ReplacePeers: the peers of the list, in its order.
ReplacePeers(list) ==
  [k \in Key |->
     IF HasEntry(list, LAMBDA p : p.key = k)
     THEN {ip \in IPsOf(Range(list), k) : LastEntry(list, LAMBDA p : ip \in Range(p.ips)).key = k}
     ELSE NoPeer]

\* All orders of a set: Go maps are iterated, and keys sorted, in an order the
\* model does not know.
Orders(S) == Bijection(1..Cardinality(S), S)

Live == {k \in Key : device[k] # NoPeer}

-----------------------------------------------------------------------------
Init ==
  /\ PeerStoreInit
  /\ ST!TrackerInit
  /\ state = "none" /\ manager = FALSE /\ client = FALSE
  /\ device = [k \in Key |-> NoPeer] /\ errors = 0 /\ dirty = FALSE
  /\ syncMu = Nobody
  /\ pc = [c \in Caller |-> "idle"]
  /\ op = [c \in Caller |-> "none"]
  /\ diff = [c \in Caller |-> NoDiff]
  /\ goal = [c \in Caller |-> {}]
  /\ poll = [pc |-> "idle", val |-> << >>, email |-> << >>]
  /\ lookup = NoKey

\* New: device and store get the same peers, then the backend runs.  A failing
\* New deletes the interface again and leaves nothing.
New(users) ==
  LET desired == collectDesiredPeers(normalizeUsers(users))
      peersOf == buildSyncDiff({}, desired).target
  IN  /\ state = "none"
      /\ ~collectFails(normalizeUsers(users))
      /\ \E list \in Orders(peersOf) :
           device' = ReplacePeers(list) /\ BulkInit(list)
      /\ state' = "running" /\ manager' = TRUE /\ client' = TRUE
      /\ UNCHANGED <<errors, dirty, syncVars, readVars, trackerVars>>

-----------------------------------------------------------------------------
(* Sync operations.                                                        *)

\* Release syncMu and return to the caller.
Return(c) ==
  /\ syncMu' = Nobody
  /\ pc' = [pc EXCEPT ![c] = "idle"]
  /\ op' = [op EXCEPT ![c] = "none"]
  /\ diff' = [diff EXCEPT ![c] = NoDiff]
  /\ goal' = [goal EXCEPT ![c] = {}]

Goto(c, place) ==
  /\ pc' = [pc EXCEPT ![c] = place]
  /\ UNCHANGED <<syncMu, op, diff, goal>>

\* Mutant: syncMu is not taken.
AcquireUnlocked(c, o, d, g) ==
  /\ pc[c] = "idle"
  /\ syncMu' = c
  /\ op' = [op EXCEPT ![c] = o]
  /\ diff' = [diff EXCEPT ![c] = d]
  /\ goal' = [goal EXCEPT ![c] = g]
  /\ pc' = [pc EXCEPT ![c] =
       IF o \in {"partial", "updateRestart"} /\ PeerConfigs(d) = {} THEN "commit" ELSE "ready"]

\* Take syncMu and start operation o with plan d.
Acquire(c, o, d, g) ==
  /\ pc[c] = "idle"
  /\ syncMu = Nobody
  /\ syncMu' = c
  /\ op' = [op EXCEPT ![c] = o]
  /\ diff' = [diff EXCEPT ![c] = d]
  /\ goal' = [goal EXCEPT ![c] = g]
  /\ pc' = [pc EXCEPT ![c] =
       IF o \in {"partial", "updateRestart"} /\ PeerConfigs(d) = {} THEN "commit" ELSE "ready"]

\* SyncUsers: the request is the whole set of users.
syncUsersFull(c, users) ==
  LET norm == normalizeUsers(users)
      desired == collectDesiredPeers(norm)
      d == buildSyncDiff(GetAll, desired)
  IN  /\ state # "none"
      /\ ~collectFails(norm)
      /\ Changed(d)
      /\ Acquire(c, "full", d, d.target)
      /\ UNCHANGED <<psVars, lifeVars, deviceVars, readVars, trackerVars>>

\* SyncUser, UpdateUsers and UpdateUsersAndRestart: only the users named.
syncUsersPartialReconcile(c, o, users) ==
  LET norm == normalizeUsers(users)
      touched == {u.email : u \in norm}
      existing == {GetByEmail(e) : e \in {f \in touched : GetByEmail(f) # NoPeer}}
      desired == collectDesiredPeers(norm)
      untouched == {p \in GetAll : p.email \notin touched}
      d == buildSyncDiff(existing, desired)
  IN  /\ state # "none"
      /\ ~collectFails(norm)
      /\ ~KeyTaken(desired, touched)
      /\ UniqueIPs => \A t \in desired, p \in untouched : Range(t.peer.ips) \cap Range(p.ips) = {}
      /\ Acquire(c, o, d, untouched \cup d.target)
      /\ UNCHANGED <<psVars, lifeVars, deviceVars, readVars, trackerVars>>

\* Restart: reapply every stored peer.
RestartDiff == [NoDiff EXCEPT !.target = GetAll]

Restart(c) ==
  /\ state # "none"
  /\ Acquire(c, "restart", RestartDiff, GetAll)
  /\ UNCHANGED <<psVars, lifeVars, deviceVars, readVars, trackerVars>>

\* ensureRunningWithManagerLocked: on success the caller keeps wg.manager.
EnsureRunning(c) ==
  /\ pc[c] = "ready"
  /\ IF state = "running" /\ manager THEN Goto(c, "configure") ELSE Return(c)
  /\ UNCHANGED <<psVars, lifeVars, deviceVars, readVars, trackerVars>>

\* Mutant: the error path leaves syncMu locked.
ConfigureClosedLocked(c) ==
  /\ pc[c] = "configure"
  /\ ~client
  /\ Goto(c, "idle")
  /\ UNCHANGED <<psVars, lifeVars, deviceVars, readVars, trackerVars>>

\* ApplyPeers, ApplyPeersReplaceAll and ApplyConfig under m.mu: the manager the
\* caller kept may have been closed.
ConfigureClosed(c) ==
  /\ pc[c] = "configure"
  /\ ~client
  /\ Return(c)
  /\ UNCHANGED <<psVars, lifeVars, deviceVars, readVars, trackerVars>>

\* Mutant: a closed manager is not noticed.
ApplyPeersUnchecked(c) ==
  LET d == diff[c]
  IN  /\ pc[c] = "configure"
      /\ op[c] \in {"partial", "updateRestart"}
      /\ device' = Reconfigure(d.replaceIPs, d.add, d.remove)
      /\ ST!RestartCounters(d.remove \cap Live)
      /\ Goto(c, "commit")
      /\ UNCHANGED <<psVars, lifeVars, errors, dirty, readVars, stats, total, reported>>

\* The kernel takes the peers that changed.
ApplyPeers(c) ==
  LET d == diff[c]
  IN  /\ pc[c] = "configure"
      /\ client
      /\ op[c] \in {"partial", "updateRestart"}
      /\ device' = Reconfigure(d.replaceIPs, d.add, d.remove)
      /\ ST!RestartCounters(d.remove \cap Live)
      /\ Goto(c, "commit")
      /\ UNCHANGED <<psVars, lifeVars, errors, dirty, readVars, stats, total, reported>>

\* The kernel takes a snapshot of all peers.
ApplyPeersReplaceAll(c) ==
  /\ pc[c] = "configure"
  /\ client
  /\ op[c] \in {"full", "restart"}
  /\ \E list \in Orders(diff[c].target) : device' = ReplacePeers(list)
  /\ ST!RestartCounters(Live)
  /\ dirty' = FALSE
  /\ IF op[c] = "full" THEN Goto(c, "commit") ELSE Return(c)
  /\ UNCHANGED <<psVars, lifeVars, errors, readVars, stats, total, reported>>

\* A failing kernel call, after a prefix of its peers: changes, then additions,
\* then removals; with ReplacePeers, before the flush or after it.
KernelError(c) ==
  LET d == diff[c]
  IN  /\ pc[c] = "configure"
      /\ client
      /\ errors < MaxKernelErrors
      /\ errors' = errors + 1
      /\ dirty' = TRUE
      /\ \/ /\ op[c] \in {"partial", "updateRestart"}
            /\ \E r \in SUBSET d.replaceIPs, a \in SUBSET d.add, rm \in SUBSET d.remove :
                 /\ a # {} => r = d.replaceIPs
                 /\ rm # {} => r = d.replaceIPs /\ a = d.add
                 /\ device' = Reconfigure(r, a, rm)
                 /\ ST!RestartCounters(rm \cap Live)
         \/ /\ op[c] \in {"full", "restart"}
            /\ \/ /\ \E S \in SUBSET d.target : \E list \in Orders(S) : device' = ReplacePeers(list)
                  /\ ST!RestartCounters(Live)
               \/ UNCHANGED <<device, counter, restarted>>
      /\ Return(c)
      /\ UNCHANGED <<psVars, lifeVars, readVars, stats, total, reported>>

\* The store follows the kernel: ReplaceAll in one critical section ...
CommitFull(c) ==
  /\ pc[c] = "commit"
  /\ op[c] = "full"
  /\ \E list \in Orders(diff[c].target) : ReplaceAll(list)
  /\ Goto(c, "stats")
  /\ UNCHANGED <<lifeVars, deviceVars, readVars, trackerVars>>

\* ... or ApplyChanges, whose loop holds ps.mu.
CommitPartial(c) ==
  /\ pc[c] = "commit"
  /\ op[c] \in {"partial", "updateRestart"}
  /\ ApplyChanges(diff[c].remove, diff[c].upsert)
  /\ Goto(c, "upserting")
  /\ UNCHANGED <<lifeVars, deviceVars, readVars, trackerVars>>

CommitUpsert(c) ==
  /\ pc[c] = "upserting"
  /\ \E p \in upsertQ : Upsert(p)
  /\ UNCHANGED <<lifeVars, deviceVars, syncVars, readVars, trackerVars>>

CommitReturn(c) ==
  /\ pc[c] = "upserting"
  /\ ApplyChangesReturn
  /\ Goto(c, "stats")
  /\ UNCHANGED <<lifeVars, deviceVars, readVars, trackerVars>>

\* RemoveStats for each key the store removed, one tracker call at a time.
RemoveStats(c) ==
  /\ pc[c] = "stats"
  /\ \E k \in removed :
       /\ stats' = ST!WithoutStats(k)
       /\ removed' = removed \ {k}
  /\ UNCHANGED <<peers, emailToKey, upsertQ, psLocked, lifeVars, deviceVars, syncVars,
                 readVars, counter, total, restarted, reported>>

\* The sync is done.  UpdateUsersAndRestart goes on to restartLocked.
SyncDone(c) ==
  /\ pc[c] = "stats"
  /\ removed = {}
  /\ IF op[c] = "updateRestart"
     THEN /\ pc' = [pc EXCEPT ![c] = "ready"]
          /\ op' = [op EXCEPT ![c] = "restart"]
          /\ diff' = [diff EXCEPT ![c] = RestartDiff]
          /\ UNCHANGED <<syncMu, goal>>
     ELSE Return(c)
  /\ UNCHANGED <<psVars, lifeVars, deviceVars, readVars, trackerVars>>

-----------------------------------------------------------------------------
\* Shutdown, once: under wg.mu close the manager, which deletes the interface
\* and with it every peer.  A failing deletion is logged and leaves them.
Shutdown ==
  /\ state = "running"
  /\ state' = "stopped" /\ manager' = FALSE /\ client' = FALSE
  /\ \/ /\ device' = [k \in Key |-> NoPeer]
        /\ ST!RestartCounters(Live)
        /\ UNCHANGED <<errors, dirty>>
     \/ /\ errors < MaxKernelErrors
        /\ errors' = errors + 1 /\ dirty' = TRUE
        /\ UNCHANGED <<device, counter, restarted>>
  /\ UNCHANGED <<psVars, syncVars, readVars, stats, total, reported>>

-----------------------------------------------------------------------------
(* The stats loop, updateConnectedPeers: read the manager, the device, the *)
(* emails, then apply the samples, each under another lock.                *)

PollStart ==
  /\ poll.pc = "idle"
  /\ state = "running" /\ manager
  /\ poll' = [poll EXCEPT !.pc = "device"]
  /\ UNCHANGED <<psVars, lifeVars, deviceVars, syncVars, lookup, trackerVars>>

\* GetDevice, which may fail.  Which peers have a recent handshake is the
\* environment's choice.
PollDevice ==
  /\ poll.pc = "device"
  /\ \/ /\ client
        /\ \E K \in SUBSET Live :
             poll' = [poll EXCEPT !.pc = "emails", !.val = [k \in K |-> counter[k]]]
     \/ poll' = [poll EXCEPT !.pc = "idle"]
  /\ UNCHANGED <<psVars, lifeVars, deviceVars, syncVars, lookup, trackerVars>>

PollEmails ==
  /\ poll.pc = "emails"
  /\ ~psLocked
  /\ poll' = [poll EXCEPT !.pc = "apply",
                          !.email = [k \in {l \in DOMAIN poll.val : peers[l] # NoPeer} |-> peers[k].email]]
  /\ UNCHANGED <<psVars, lifeVars, deviceVars, syncVars, lookup, trackerVars>>

PollIdle == [pc |-> "idle", val |-> << >>, email |-> << >>]

PollApply ==
  /\ poll.pc = "apply"
  /\ ST!UpdateStatsBatch([k \in DOMAIN poll.email |-> [email |-> poll.email[k], val |-> poll.val[k]]])
  /\ poll' = PollIdle
  /\ UNCHANGED <<psVars, lifeVars, deviceVars, syncVars, lookup>>

\* Cancelled between the peers of the device: nothing is applied.
PollCancelled ==
  /\ poll.pc \in {"emails", "apply"}
  /\ state = "stopped"
  /\ poll' = PollIdle
  /\ UNCHANGED <<psVars, lifeVars, deviceVars, syncVars, lookup, trackerVars>>

\* cleanupOfflineUsers, by the same loop.
PollCleanup ==
  /\ poll.pc = "idle"
  /\ state = "running"
  /\ ST!CleanupDeletedEntries
  /\ UNCHANGED <<psVars, lifeVars, deviceVars, syncVars, readVars>>

-----------------------------------------------------------------------------
(* GetStats with reset.  For one user the key is looked up first.          *)

GetUsersStats ==
  /\ state = "running"
  /\ ST!GetStatsReset(Key)
  /\ UNCHANGED <<psVars, lifeVars, deviceVars, syncVars, readVars>>

UserStatsLookup(e) ==
  /\ state = "running"
  /\ lookup = NoKey
  /\ ~psLocked
  /\ GetByEmail(e) # NoPeer
  /\ lookup' = GetByEmail(e).key
  /\ UNCHANGED <<psVars, lifeVars, deviceVars, syncVars, poll, trackerVars>>

UserStatsRead ==
  /\ lookup # NoKey
  /\ ST!GetStatsReset({lookup})
  /\ lookup' = NoKey
  /\ UNCHANGED <<psVars, lifeVars, deviceVars, syncVars, poll>>

Traffic ==
  /\ \E k \in Live, d \in Dir : ST!Transfer(k, d)
  /\ UNCHANGED <<psVars, lifeVars, deviceVars, syncVars, readVars>>

-----------------------------------------------------------------------------
Step(c) ==
  \/ EnsureRunning(c) \/ ConfigureClosed(c) \/ ApplyPeers(c) \/ ApplyPeersReplaceAll(c)
  \/ KernelError(c) \/ CommitFull(c) \/ CommitPartial(c) \/ CommitUpsert(c)
  \/ CommitReturn(c) \/ RemoveStats(c) \/ SyncDone(c)

Call(c) ==
  \/ \E users \in Requests : syncUsersFull(c, users)
  \/ \E users \in Requests, o \in {"partial", "updateRestart"} :
       syncUsersPartialReconcile(c, o, users)
  \/ Restart(c)

\* The backend's lifecycle and its callers.
SyncNext ==
  \/ \E users \in Requests : New(users)
  \/ \E c \in Caller : Call(c) \/ Step(c)
  \/ Shutdown

\* The stats loop, the queries and the traffic they count.
StatsLoop == PollStart \/ PollDevice \/ PollEmails \/ PollApply \/ PollCancelled \/ PollCleanup

StatsNext ==
  \/ StatsLoop
  \/ GetUsersStats
  \/ \E e \in Email : UserStatsLookup(e)
  \/ UserStatsRead
  \/ Traffic

Next == SyncNext \/ StatsNext

Spec == Init /\ [][Next]_vars

\* The lifecycle and the callers alone: the stats loop and the queries write
\* neither the store nor the device.  A goroutine that can run does run, and a
\* kernel call returns.
SyncFairness == \A c \in Caller : WF_vars(Step(c))
SyncSpec == Init /\ [][SyncNext]_vars /\ SyncFairness

-----------------------------------------------------------------------------
(* Properties.                                                             *)

PollTypes == {"idle", "device", "emails", "apply"}

\* A map of some keys to values.
IsSnapshot(f, Values) == DOMAIN f \subseteq Key /\ f \in [DOMAIN f -> Values]

\* The fields of WireGuard and Manager, and the locals of their callers, have
\* their types.
WGTypeOK ==
  /\ PeerStoreTypeOK
  /\ ST!TrackerTypeOK
  /\ state \in {"none", "running", "stopped"}
  /\ manager \in BOOLEAN /\ client \in BOOLEAN /\ dirty \in BOOLEAN
  /\ device \in [Key -> (SUBSET IP) \cup {NoPeer}]
  /\ errors \in 0..MaxKernelErrors
  /\ syncMu \in Caller \cup {Nobody}
  /\ pc \in [Caller -> {"idle", "ready", "configure", "commit", "upserting", "stats"}]
  /\ op \in [Caller -> {"none", "full", "partial", "updateRestart", "restart"}]
  /\ goal \in [Caller -> SUBSET PeerInfo]
  /\ diff \in [Caller -> Diff]
  /\ poll = [pc |-> poll.pc, val |-> poll.val, email |-> poll.email] /\ poll.pc \in PollTypes
  /\ IsSnapshot(poll.val, [Dir -> Nat]) /\ IsSnapshot(poll.email, Email)
  /\ DOMAIN poll.email \subseteq DOMAIN poll.val
  /\ lookup \in Key \cup {NoKey}

\* What the store says of a key is what the kernel has for it.
KernelHas(k) == IF peers[k] = NoPeer THEN device[k] = NoPeer ELSE device[k] = Range(peers[k].ips)

\* "the store must only contain peers that were actually committed to the
\* kernel" (user_common.go:150): between two syncs of a running backend the
\* device has exactly the stored peers, each with exactly its allowed IPs,
\* whatever mixture of syncs, restarts and failures went before, unless a
\* failing kernel call left the device half configured.
StoreMatchesKernel ==
  syncMu = Nobody /\ state = "running" /\ ~dirty => \A k \in Key : KernelHas(k)

\* A sync that reached the kernel leaves the store with exactly the users it
\* asked for and the users it does not touch (user_partial_sync.go:63,
\* user_full_sync.go:47), key swaps between users included.
SyncReachesGoal == \A c \in Caller : pc[c] = "stats" => GetAll = goal[c]

\* What the requests that collectDesiredPeers accepts ask for.
Updates ==
  {[emails |-> {u.email : u \in normalizeUsers(r)},
    peers |-> {t.peer : t \in collectDesiredPeers(normalizeUsers(r))}] :
     r \in {q \in Requests : ~collectFails(normalizeUsers(q))}}

\* The directory a reader can see: while ps.mu is held nobody reads, and the
\* request that holds it has taken effect.
Users == IF psLocked THEN goal[syncMu] ELSE GetAll

Directory == INSTANCE UserDirectory WITH users <- Users

\* The backend implements UserDirectory: whatever the callers, restarts, kernel
\* errors and Shutdown do in between, the store goes from one directory to the
\* next by one whole request applied to the directory of that moment, although
\* the plan was made earlier and the loop writes the two maps entry by entry
\* (user_partial_sync.go:22-71, user_full_sync.go:9-55, peer_store.go:42-76).
ImplementsDirectory == Directory!Spec

\* A sync that kept the manager and is overtaken by Shutdown never configures
\* the interface again (manager.go:265): what Close left stays.
StoppedIsFrozen == state = "stopped" => device' = device
StoppedDeviceFrozen == [][StoppedIsFrozen]_vars

\* Whatever the interleaving of polls, syncs and queries, also with samples
\* that were overtaken by a removal: bytes once accounted to a key are never
\* taken back (tracker.go:90, tracker.go:270).
SampledNeverLost == [][ST!NothingTakenBack]_vars

\* Every call releases syncMu again, also when Shutdown or a kernel error
\* comes in between (wireguard.go:240-241, user.go:17-49).
SyncMuIsReleased == []<>(syncMu = Nobody)
=============================================================================
