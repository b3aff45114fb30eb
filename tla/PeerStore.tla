------------------------------ MODULE PeerStore ------------------------------
(***************************************************************************)
(* The WireGuard peer store (backend/wireguard/peer_store.go): two maps,   *)
(* public key -> peer and email -> public key, that the store promises to  *)
(* keep in a 1:1 correspondence.                                           *)
(*                                                                         *)
(* A map is a total function whose absent entries are NoPeer or NoKey.     *)
(* Every method is one critical section of ps.mu.  ApplyChanges loops over *)
(* its upserts with each iteration reading what the previous ones wrote:   *)
(* the loop is modelled one iteration per step with the lock held, so that *)
(* the invariant is about every iteration and for a list of any length.    *)
(*                                                                         *)
(* Public keys have no order here, so the upserts, which the code sorts by *)
(* key, are applied in any order.                                          *)
(***************************************************************************)
EXTENDS Naturals, Sequences

CONSTANTS
  Email,       \* user emails
  Key,         \* parsed WireGuard public keys
  AllowedIPs,  \* lists of canonical allowed IPs a peer may have
  MaxPeers,    \* bound: the longest list given to Init or ReplaceAll
  NoPeer,      \* the absent entry of peers
  NoKey        \* the absent entry of emailToKey

PeerInfo == [email : Email, key : Key, ips : AllowedIPs]

ASSUME PeerStoreAssumption ==
  /\ NoPeer \notin PeerInfo
  /\ NoKey \notin Key
  /\ MaxPeers \in Nat

VARIABLES
  peers,       \* ps.peers: Key -> PeerInfo or NoPeer
  emailToKey,  \* ps.emailToKey: Email -> Key or NoKey
  upsertQ,     \* ApplyChanges: the upserts its loop has not reached
  removed,     \* the keys the current ApplyChanges or ReplaceAll returns
  psLocked     \* ps.mu is held by an ApplyChanges in progress

psVars == <<peers, emailToKey, upsertQ, removed, psLocked>>

NoPeers == [k \in Key |-> NoPeer]
NoEmails == [e \in Email |-> NoKey]

PeerStoreInit ==
  /\ peers = NoPeers
  /\ emailToKey = NoEmails
  /\ upsertQ = {}
  /\ removed = {}
  /\ psLocked = FALSE

-----------------------------------------------------------------------------
(* Reads.                                                                  *)

\* The set of peers in the store.
GetAll == {peers[k] : k \in {kk \in Key : peers[kk] # NoPeer}}

\* The peer of an email: two lookups, through the key.
GetByEmail(e) == IF emailToKey[e] = NoKey THEN NoPeer ELSE peers[emailToKey[e]]

\* public key -> email, with NoPeer for a key that has no peer.
GetEmailMap == [k \in Key |-> IF peers[k] = NoPeer THEN NoPeer ELSE peers[k].email]

-----------------------------------------------------------------------------
(* Bulk writes: a list of peers, the last entry of a key or email wins.    *)

HasEntry(list, P(_)) == \E i \in DOMAIN list : P(list[i])

LastEntry(list, P(_)) ==
  list[CHOOSE i \in DOMAIN list :
         P(list[i]) /\ \A j \in DOMAIN list : P(list[j]) => j <= i]

MapByKey(list, old) ==
  [k \in Key |-> IF HasEntry(list, LAMBDA p : p.key = k)
                 THEN LastEntry(list, LAMBDA p : p.key = k)
                 ELSE old[k]]

MapByEmail(list, old) ==
  [e \in Email |-> IF HasEntry(list, LAMBDA p : p.email = e)
                   THEN LastEntry(list, LAMBDA p : p.email = e).key
                   ELSE old[e]]

\* Init(peers): bulk load of a store known to be empty.
BulkInit(list) ==
  /\ ~psLocked
  /\ peers' = MapByKey(list, peers)
  /\ emailToKey' = MapByEmail(list, emailToKey)
  /\ UNCHANGED <<upsertQ, removed, psLocked>>

\* ReplaceAll(peers): new maps replace the old; returns the keys that went.
ReplaceAll(list) ==
  /\ ~psLocked
  /\ peers' = MapByKey(list, NoPeers)
  /\ emailToKey' = MapByEmail(list, NoEmails)
  /\ removed' = {k \in Key : peers[k] # NoPeer /\ peers'[k] = NoPeer}
  /\ UNCHANGED <<upsertQ, psLocked>>

-----------------------------------------------------------------------------
(* ApplyChanges(removeKeys, upsertPeers).                                  *)

\* Lock, then the removal loop: each removed peer takes its email entry along.
ApplyChanges(removeKeys, upserts) ==
  /\ ~psLocked
  /\ psLocked' = TRUE
  /\ removed' = {k \in removeKeys : peers[k] # NoPeer}
  /\ peers' = [k \in Key |-> IF k \in removeKeys THEN NoPeer ELSE peers[k]]
  /\ emailToKey' = [e \in Email |->
       IF \E k \in removeKeys : peers[k] # NoPeer /\ peers[k].email = e
       THEN NoKey ELSE emailToKey[e]]
  /\ upsertQ' = upserts

\* Mutant: every peer but the user's own goes.
DropOtherPeers(p) ==
  [k \in Key |-> IF peers[k] # NoPeer /\ peers[k].email # p.email THEN NoPeer ELSE peers[k]]

\* The peers map once the email of p has let go of the key it had.
WithoutOldKey(p) ==
  IF emailToKey[p.email] # NoKey /\ emailToKey[p.email] # p.key
  THEN [peers EXCEPT ![emailToKey[p.email]] = NoPeer]
  ELSE peers

\* Mutant: the previous owner keeps the key.
KeepOldOwner(p, ps) == emailToKey

\* The email map once the key of p has let go of the email it had, given the
\* peers map ps.
WithoutOldOwner(p, ps) ==
  IF ps[p.key] # NoPeer /\ ps[p.key].email # p.email
  THEN [emailToKey EXCEPT ![ps[p.key].email] = NoKey]
  ELSE emailToKey

\* One iteration of the upsert loop.
Upsert(p) ==
  /\ psLocked
  /\ p \in upsertQ
  /\ upsertQ' = upsertQ \ {p}
  /\ peers' = [WithoutOldKey(p) EXCEPT ![p.key] = p]
  /\ emailToKey' = [WithoutOldOwner(p, WithoutOldKey(p)) EXCEPT ![p.email] = p.key]
  /\ UNCHANGED <<removed, psLocked>>

\* Unlock and return the removed keys.
ApplyChangesReturn ==
  /\ psLocked
  /\ upsertQ = {}
  /\ psLocked' = FALSE
  /\ UNCHANGED <<peers, emailToKey, upsertQ, removed>>

-----------------------------------------------------------------------------
(* The store driven by an arbitrary caller.  ApplyChanges takes any keys   *)
(* and any peers.  Init and ReplaceAll take what their callers build: one  *)
(* peer per key and per email, and Init only on an empty store.            *)

\* No key and no email occurs twice in a list of peers.
DistinctPeers(list) ==
  \A i, j \in DOMAIN list :
    (list[i].key = list[j].key \/ list[i].email = list[j].email) => i = j

PeerLists ==
  {list \in UNION {[1..n -> PeerInfo] : n \in 0..MaxPeers} : DistinctPeers(list)}

PeerStoreNext ==
  \/ \E list \in PeerLists : peers = NoPeers /\ emailToKey = NoEmails /\ BulkInit(list)
  \/ \E list \in PeerLists : ReplaceAll(list)
  \/ \E removeKeys \in SUBSET Key, upserts \in SUBSET PeerInfo :
       ApplyChanges(removeKeys, upserts)
  \/ \E p \in upsertQ : Upsert(p)
  \/ ApplyChangesReturn

PeerStoreSpec == PeerStoreInit /\ [][PeerStoreNext]_psVars

-----------------------------------------------------------------------------
(* Properties.                                                             *)

\* The maps have the shape of PeerStore's fields.
PeerStoreTypeOK ==
  /\ peers \in [Key -> PeerInfo \cup {NoPeer}]
  /\ emailToKey \in [Email -> Key \cup {NoKey}]
  /\ upsertQ \subseteq PeerInfo
  /\ removed \subseteq Key
  /\ psLocked \in BOOLEAN

\* "It enforces a 1:1 mapping between User (Email) and WireGuard Public Key"
\* (peer_store.go:8): an email's key leads to a peer of that email, and a
\* peer's email leads back to its key, also between two iterations of the
\* upsert loop of ApplyChanges.
OneToOne ==
  /\ \A e \in Email : emailToKey[e] # NoKey =>
       /\ peers[emailToKey[e]] # NoPeer
       /\ peers[emailToKey[e]].email = e
  /\ \A k \in Key : peers[k] # NoPeer =>
       /\ peers[k].key = k
       /\ emailToKey[peers[k].email] = k

\* What an upsert leaves alone: every user that competes for neither its
\* key nor its email keeps peer and key.
UpsertLeavesOthers ==
  \A p \in upsertQ : Upsert(p) =>
    \A k \in Key : peers[k] # NoPeer /\ peers[k].email # p.email /\ k # p.key
                     => /\ peers'[k] = peers[k]
                        /\ emailToKey'[peers[k].email] = k

\* An upsert displaces only peers that compete with it for its key or its
\* email (peer_store.go:63-72).
UpsertIsLocal == [][UpsertLeavesOthers]_psVars
=============================================================================
