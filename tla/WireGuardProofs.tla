--------------------------- MODULE WireGuardProofs ---------------------------
(***************************************************************************)
(* The WireGuard backend, proved for every set of callers, users, keys and *)
(* requests: the peer store stays 1:1 for lists of any length and every    *)
(* order of the upserts; what a sync leaves in the store and in the        *)
(* kernel; and that the store implements UserDirectory.                    *)
(***************************************************************************)
EXTENDS WireGuard, Integers, FiniteSetTheorems, WellFoundedInduction, TLAPS

-----------------------------------------------------------------------------
(* The peer store.  OneToOne is inductive together with the type invariant *)
(* because it is stated between the iterations of the upsert loop, not     *)
(* only at the end of ApplyChanges: the two deletions at the top of an     *)
(* iteration are what re-establishes it.                                   *)

\* A list of peers in which no key and no email occurs twice.
IsPeerList(list) == DistinctPeers(list) /\ \E n \in Nat : list \in [1..n -> PeerInfo]

(* The lists the store run enumerates are lists the lemmas apply to. *)
LEMMA PeerListsArePeerLists == \A list \in PeerLists : IsPeerList(list)
<1> SUFFICES ASSUME NEW list \in PeerLists PROVE IsPeerList(list)
  OBVIOUS
<1>1. PICK n \in 0..MaxPeers : list \in [1..n -> PeerInfo]
  BY DEF PeerLists
<1>2. n \in Nat /\ DistinctPeers(list)
  BY PeerStoreAssumption DEF PeerLists
<1> QED BY <1>1, <1>2 DEF IsPeerList

\* What LastEntry returns for a list that has an entry satisfying P, when
\* only one index does: the bulk writes of Init and ReplaceAll look entries
\* up this way.
LEMMA MapByKeyType ==
  ASSUME NEW list, IsPeerList(list), NEW old \in [Key -> PeerInfo \cup {NoPeer}]
  PROVE  /\ MapByKey(list, old) \in [Key -> PeerInfo \cup {NoPeer}]
         /\ \A k \in Key : \A i \in DOMAIN list :
              list[i].key = k => MapByKey(list, old)[k] = list[i]
         /\ \A k \in Key : (\A i \in DOMAIN list : list[i].key # k)
              => MapByKey(list, old)[k] = old[k]
<1>1. PICK n \in Nat : list \in [1..n -> PeerInfo]
  BY DEF IsPeerList
<1>2. DistinctPeers(list) /\ DOMAIN list = 1..n
  BY <1>1 DEF IsPeerList
<1>3. ASSUME NEW k \in Key, NEW i \in DOMAIN list, list[i].key = k
      PROVE  MapByKey(list, old)[k] = list[i]
  <2>1. HasEntry(list, LAMBDA p : p.key = k)
    BY <1>3 DEF HasEntry
  <2>2. LastEntry(list, LAMBDA p : p.key = k) = list[i]
    <3> DEFINE Q(j) == list[j].key = k /\ \A l \in DOMAIN list : list[l].key = k => l <= j
    <3>1. \A j \in DOMAIN list : list[j].key = k => j = i
      BY <1>2, <1>3 DEF DistinctPeers
    <3>2. Q(i)
      BY <1>2, <1>3, <3>1
    <3>3. \A j \in DOMAIN list : Q(j) => j = i
      BY <3>1
    <3>4. (CHOOSE j \in DOMAIN list : Q(j)) = i
      <4> HIDE DEF Q
      <4> QED BY <1>3, <3>2, <3>3
    <3> QED BY <3>4 DEF LastEntry
  <2> QED BY <2>1, <2>2 DEF MapByKey
<1>4. ASSUME NEW k \in Key, \A i \in DOMAIN list : list[i].key # k
      PROVE  MapByKey(list, old)[k] = old[k]
  <2>1. ~HasEntry(list, LAMBDA p : p.key = k)
    BY <1>4 DEF HasEntry
  <2> QED BY <2>1 DEF MapByKey
<1>5. ASSUME NEW k \in Key
      PROVE  MapByKey(list, old)[k] \in PeerInfo \cup {NoPeer}
  <2>1. CASE \E i \in DOMAIN list : list[i].key = k
    BY <1>1, <1>3, <2>1
  <2>2. CASE \A i \in DOMAIN list : list[i].key # k
    BY <1>4, <2>2
  <2> QED BY <2>1, <2>2
<1>6. MapByKey(list, old) \in [Key -> PeerInfo \cup {NoPeer}]
  BY <1>5 DEF MapByKey
<1> QED BY <1>3, <1>4, <1>6

\* The same for the email index.
LEMMA MapByEmailType ==
  ASSUME NEW list, IsPeerList(list), NEW old \in [Email -> Key \cup {NoKey}]
  PROVE  /\ MapByEmail(list, old) \in [Email -> Key \cup {NoKey}]
         /\ \A e \in Email : \A i \in DOMAIN list :
              list[i].email = e => MapByEmail(list, old)[e] = list[i].key
         /\ \A e \in Email : (\A i \in DOMAIN list : list[i].email # e)
              => MapByEmail(list, old)[e] = old[e]
<1>1. PICK n \in Nat : list \in [1..n -> PeerInfo]
  BY DEF IsPeerList
<1>2. DistinctPeers(list) /\ DOMAIN list = 1..n
  BY <1>1 DEF IsPeerList
<1>3. ASSUME NEW e \in Email, NEW i \in DOMAIN list, list[i].email = e
      PROVE  MapByEmail(list, old)[e] = list[i].key
  <2>1. HasEntry(list, LAMBDA p : p.email = e)
    BY <1>3 DEF HasEntry
  <2>2. LastEntry(list, LAMBDA p : p.email = e) = list[i]
    <3> DEFINE Q(j) == list[j].email = e /\ \A l \in DOMAIN list : list[l].email = e => l <= j
    <3>1. \A j \in DOMAIN list : list[j].email = e => j = i
      BY <1>2, <1>3 DEF DistinctPeers
    <3>2. Q(i)
      BY <1>2, <1>3, <3>1
    <3>3. \A j \in DOMAIN list : Q(j) => j = i
      BY <3>1
    <3>4. (CHOOSE j \in DOMAIN list : Q(j)) = i
      <4> HIDE DEF Q
      <4> QED BY <1>3, <3>2, <3>3
    <3> QED BY <3>4 DEF LastEntry
  <2> QED BY <2>1, <2>2 DEF MapByEmail
<1>4. ASSUME NEW e \in Email, \A i \in DOMAIN list : list[i].email # e
      PROVE  MapByEmail(list, old)[e] = old[e]
  <2>1. ~HasEntry(list, LAMBDA p : p.email = e)
    BY <1>4 DEF HasEntry
  <2> QED BY <2>1 DEF MapByEmail
<1>5. ASSUME NEW e \in Email
      PROVE  MapByEmail(list, old)[e] \in Key \cup {NoKey}
  <2>1. CASE \E i \in DOMAIN list : list[i].email = e
    BY <1>1, <1>3, <2>1 DEF PeerInfo
  <2>2. CASE \A i \in DOMAIN list : list[i].email # e
    BY <1>4, <2>2
  <2> QED BY <2>1, <2>2
<1>6. MapByEmail(list, old) \in [Email -> Key \cup {NoKey}]
  BY <1>5 DEF MapByEmail
<1> QED BY <1>3, <1>4, <1>6

\* The inductive invariant.
StoreInv == PeerStoreTypeOK /\ OneToOne

\* The maps built from a distinct list over empty maps correspond 1:1.
LEMMA BulkOneToOne ==
  ASSUME NEW list, IsPeerList(list),
         peers' = MapByKey(list, NoPeers),
         emailToKey' = MapByEmail(list, NoEmails)
  PROVE  /\ peers' \in [Key -> PeerInfo \cup {NoPeer}]
         /\ emailToKey' \in [Email -> Key \cup {NoKey}]
         /\ OneToOne'
         /\ GetAll' = {list[i] : i \in DOMAIN list}
<1>1. PICK n \in Nat : list \in [1..n -> PeerInfo]
  BY DEF IsPeerList
<1>2. NoPeers \in [Key -> PeerInfo \cup {NoPeer}] /\ NoEmails \in [Email -> Key \cup {NoKey}]
  BY DEF NoPeers, NoEmails
<1>3. /\ peers' \in [Key -> PeerInfo \cup {NoPeer}]
      /\ \A k \in Key : \A i \in DOMAIN list : list[i].key = k => peers'[k] = list[i]
      /\ \A k \in Key : (\A i \in DOMAIN list : list[i].key # k) => peers'[k] = NoPeer
  BY <1>2, MapByKeyType DEF NoPeers
<1>4. /\ emailToKey' \in [Email -> Key \cup {NoKey}]
      /\ \A e \in Email : \A i \in DOMAIN list : list[i].email = e => emailToKey'[e] = list[i].key
      /\ \A e \in Email : (\A i \in DOMAIN list : list[i].email # e) => emailToKey'[e] = NoKey
  BY <1>2, MapByEmailType DEF NoEmails
<1>5. \A i \in DOMAIN list : list[i] \in PeerInfo /\ list[i].key \in Key /\ list[i].email \in Email
  BY <1>1 DEF PeerInfo
<1>6. ASSUME NEW e \in Email, emailToKey'[e] # NoKey
      PROVE  peers'[emailToKey'[e]] # NoPeer /\ peers'[emailToKey'[e]].email = e
  <2>1. PICK i \in DOMAIN list : list[i].email = e
    BY <1>4, <1>6
  <2>2. emailToKey'[e] = list[i].key /\ peers'[list[i].key] = list[i]
    BY <1>3, <1>4, <1>5, <2>1
  <2> QED BY <1>5, <2>1, <2>2, PeerStoreAssumption
<1>7. ASSUME NEW k \in Key, peers'[k] # NoPeer
      PROVE  peers'[k].key = k /\ emailToKey'[peers'[k].email] = k
  <2>1. PICK i \in DOMAIN list : list[i].key = k
    BY <1>3, <1>7
  <2>2. peers'[k] = list[i]
    BY <1>3, <2>1
  <2> QED BY <1>4, <1>5, <2>1, <2>2
<1>8. GetAll' = {list[i] : i \in DOMAIN list}
  <2>1. \A k \in Key : peers'[k] # NoPeer => \E i \in DOMAIN list : peers'[k] = list[i]
    BY <1>3
  <2>2. \A i \in DOMAIN list : list[i] # NoPeer /\ peers'[list[i].key] = list[i]
    BY <1>3, <1>5, PeerStoreAssumption
  <2> QED BY <1>5, <2>1, <2>2 DEF GetAll
<1> QED BY <1>3, <1>4, <1>6, <1>7, <1>8 DEF OneToOne

(* Filling the empty store keeps the invariant. *)
LEMMA InitStep ==
  ASSUME StoreInv, peers = NoPeers, emailToKey = NoEmails, NEW list \in PeerLists, BulkInit(list)
  PROVE  StoreInv'
<1>1. OneToOne' /\ peers' \in [Key -> PeerInfo \cup {NoPeer}]
                /\ emailToKey' \in [Email -> Key \cup {NoKey}]
  BY BulkOneToOne, PeerListsArePeerLists DEF BulkInit
<1> QED BY <1>1 DEF StoreInv, PeerStoreTypeOK, BulkInit

(* Replacing the whole store keeps the invariant. *)
LEMMA ReplaceAllStep ==
  ASSUME StoreInv, NEW list \in PeerLists, ReplaceAll(list)
  PROVE  StoreInv'
<1>1. OneToOne' /\ peers' \in [Key -> PeerInfo \cup {NoPeer}]
                /\ emailToKey' \in [Email -> Key \cup {NoKey}]
  BY BulkOneToOne, PeerListsArePeerLists DEF ReplaceAll
<1> QED BY <1>1 DEF StoreInv, PeerStoreTypeOK, ReplaceAll

\* The removal loop of ApplyChanges drops a peer and its email entry together.
LEMMA RemovalStep ==
  ASSUME StoreInv, NEW removeKeys \in SUBSET Key, NEW upserts \in SUBSET PeerInfo,
         ApplyChanges(removeKeys, upserts)
  PROVE  StoreInv'
<1> USE DEF StoreInv, ApplyChanges, PeerStoreTypeOK
<1>1. PeerStoreTypeOK'
  OBVIOUS
<1>2. ASSUME NEW e \in Email, emailToKey'[e] # NoKey
      PROVE  peers'[emailToKey'[e]] # NoPeer /\ peers'[emailToKey'[e]].email = e
  <2>1. emailToKey'[e] = emailToKey[e] /\ emailToKey[e] \in Key
    BY <1>2
  <2>2. peers[emailToKey[e]] # NoPeer /\ peers[emailToKey[e]].email = e
    BY <1>2, <2>1 DEF OneToOne
  <2>3. emailToKey[e] \notin removeKeys
    BY <1>2, <2>1, <2>2
  <2> QED BY <2>1, <2>2, <2>3
<1>3. ASSUME NEW k \in Key, peers'[k] # NoPeer
      PROVE  peers'[k].key = k /\ emailToKey'[peers'[k].email] = k
  <2>1. k \notin removeKeys /\ peers'[k] = peers[k]
    BY <1>3
  <2>2. peers[k].email \in Email /\ peers[k].key = k /\ emailToKey[peers[k].email] = k
    BY <1>3, <2>1 DEF OneToOne, PeerInfo
  <2>3. ~ \E kk \in removeKeys : peers[kk] # NoPeer /\ peers[kk].email = peers[k].email
    BY <2>1, <2>2 DEF OneToOne
  <2> QED BY <2>1, <2>2, <2>3
<1> QED BY <1>1, <1>2, <1>3 DEF OneToOne

\* One iteration of the upsert loop.  After it, p holds its key and email,
\* the key that email had is gone, and so is the email that key had.
LEMMA UpsertStep ==
  ASSUME StoreInv, NEW p \in upsertQ, Upsert(p)
  PROVE  /\ StoreInv'
         /\ \A k \in Key : peers[k] # NoPeer /\ peers[k].email # p.email /\ k # p.key
              => peers'[k] = peers[k] /\ emailToKey'[peers[k].email] = k
<1> DEFINE ps == WithoutOldKey(p)
           em == WithoutOldOwner(p, ps)
<1>1. p \in PeerInfo /\ p.key \in Key /\ p.email \in Email
  BY DEF StoreInv, PeerStoreTypeOK, PeerInfo
<1>2. /\ peers \in [Key -> PeerInfo \cup {NoPeer}]
      /\ emailToKey \in [Email -> Key \cup {NoKey}]
      /\ upsertQ \subseteq PeerInfo
      /\ OneToOne
  BY DEF StoreInv, PeerStoreTypeOK
<1>3. /\ ps \in [Key -> PeerInfo \cup {NoPeer}]
      /\ \A k \in Key : ps[k] = IF emailToKey[p.email] = k /\ k # p.key
                                THEN NoPeer ELSE peers[k]
  BY <1>1, <1>2, PeerStoreAssumption DEF WithoutOldKey
<1>4. /\ em \in [Email -> Key \cup {NoKey}]
      /\ \A e \in Email : em[e] = IF /\ peers[p.key] # NoPeer
                                     /\ peers[p.key].email # p.email
                                     /\ peers[p.key].email = e
                                  THEN NoKey ELSE emailToKey[e]
  <2>1. ps[p.key] = peers[p.key]
    BY <1>1, <1>3
  <2> HIDE DEF ps
  <2>2. peers[p.key] # NoPeer => peers[p.key].email \in Email
    BY <1>1, <1>2 DEF PeerInfo
  <2> QED BY <1>1, <1>2, <2>1, <2>2 DEF WithoutOldOwner
<1>5. peers' = [ps EXCEPT ![p.key] = p] /\ emailToKey' = [em EXCEPT ![p.email] = p.key]
  BY DEF Upsert
<1> HIDE DEF ps, em
<1>6. /\ peers' \in [Key -> PeerInfo \cup {NoPeer}]
      /\ peers'[p.key] = p
      /\ \A k \in Key \ {p.key} : peers'[k] = ps[k]
  BY <1>1, <1>3, <1>5
<1>7. /\ emailToKey' \in [Email -> Key \cup {NoKey}]
      /\ emailToKey'[p.email] = p.key
      /\ \A e \in Email \ {p.email} : emailToKey'[e] = em[e]
  BY <1>1, <1>4, <1>5
<1>8. ASSUME NEW e \in Email, emailToKey'[e] # NoKey
      PROVE  peers'[emailToKey'[e]] # NoPeer /\ peers'[emailToKey'[e]].email = e
  <2>1. CASE e = p.email
    BY <1>1, <1>6, <1>7, <2>1, PeerStoreAssumption
  <2>2. CASE e # p.email
    <3>1. emailToKey'[e] = emailToKey[e] /\ emailToKey[e] \in Key
      BY <1>4, <1>7, <1>8, <2>2
    <3>2. peers[emailToKey[e]] # NoPeer /\ peers[emailToKey[e]].email = e
      BY <1>2, <1>8, <3>1 DEF OneToOne
    <3>3. emailToKey[e] # p.key
      BY <1>4, <1>7, <1>8, <2>2, <3>1, <3>2
    <3>4. emailToKey[p.email] # emailToKey[e]
      BY <1>1, <1>2, <1>8, <2>2, <3>1, <3>2 DEF OneToOne
    <3> QED BY <1>3, <1>6, <3>1, <3>2, <3>3, <3>4
  <2> QED BY <2>1, <2>2
<1>9. ASSUME NEW k \in Key, peers'[k] # NoPeer
      PROVE  peers'[k].key = k /\ emailToKey'[peers'[k].email] = k
  <2>1. CASE k = p.key
    BY <1>1, <1>6, <1>7, <2>1
  <2>2. CASE k # p.key
    <3>1. peers'[k] = peers[k] /\ peers[k] \in PeerInfo /\ emailToKey[p.email] # k
      BY <1>2, <1>3, <1>6, <1>9, <2>2
    <3>2. peers[k].key = k /\ emailToKey[peers[k].email] = k /\ peers[k].email \in Email
      BY <1>2, <1>9, <3>1 DEF OneToOne, PeerInfo
    <3>3. peers[k].email # p.email
      BY <3>1, <3>2
    <3>4. peers[p.key] # NoPeer => peers[p.key].email # peers[k].email
      BY <1>1, <1>2, <2>2, <3>2 DEF OneToOne
    <3> QED BY <1>4, <1>7, <3>1, <3>2, <3>3, <3>4
  <2> QED BY <2>1, <2>2
<1>10. OneToOne'
  BY <1>8, <1>9 DEF OneToOne
<1>11. PeerStoreTypeOK'
  BY <1>2, <1>6, <1>7 DEF PeerStoreTypeOK, StoreInv, Upsert
<1>12. ASSUME NEW k \in Key, peers[k] # NoPeer, peers[k].email # p.email, k # p.key
       PROVE  peers'[k] = peers[k] /\ emailToKey'[peers[k].email] = k
  <2>1. peers[k].email \in Email /\ emailToKey[peers[k].email] = k
    BY <1>2, <1>12 DEF OneToOne, PeerInfo
  <2>2. emailToKey[p.email] # k
    BY <1>1, <1>2, <1>12, PeerStoreAssumption DEF OneToOne
  <2>3. peers'[k] = peers[k]
    BY <1>3, <1>6, <1>12, <2>2
  <2>4. peers[p.key] # NoPeer => peers[p.key].email # peers[k].email
    BY <1>1, <1>2, <1>12, <2>1 DEF OneToOne
  <2> QED BY <1>4, <1>7, <1>12, <2>1, <2>3, <2>4
<1> QED BY <1>10, <1>11, <1>12 DEF StoreInv

(* Every operation of the store keeps the invariant. *)
LEMMA StoreInvStep == StoreInv /\ [PeerStoreNext]_psVars => StoreInv'
<1> SUFFICES ASSUME StoreInv, [PeerStoreNext]_psVars
             PROVE  StoreInv'
  OBVIOUS
<1>1. ASSUME NEW list \in PeerLists, peers = NoPeers, emailToKey = NoEmails, BulkInit(list)
      PROVE  StoreInv'
  BY <1>1, InitStep
<1>2. ASSUME NEW list \in PeerLists, ReplaceAll(list)
      PROVE  StoreInv'
  BY <1>2, ReplaceAllStep
<1>3. ASSUME NEW removeKeys \in SUBSET Key, NEW upserts \in SUBSET PeerInfo,
             ApplyChanges(removeKeys, upserts)
      PROVE  StoreInv'
  BY <1>3, RemovalStep
<1>4. ASSUME NEW p \in upsertQ, Upsert(p)
      PROVE  StoreInv'
  BY <1>4, UpsertStep
<1>5. CASE ApplyChangesReturn
  BY <1>5 DEF StoreInv, PeerStoreTypeOK, OneToOne, ApplyChangesReturn
<1>6. CASE UNCHANGED psVars
  BY <1>6 DEF StoreInv, PeerStoreTypeOK, OneToOne, psVars
<1> QED BY <1>1, <1>2, <1>3, <1>4, <1>5, <1>6 DEF PeerStoreNext

\* The type invariant and the 1:1 mapping hold in every state of the store,
\* whatever its callers pass to ApplyChanges (peer_store.go:8).
THEOREM StoreIsOneToOne == PeerStoreSpec => [](PeerStoreTypeOK /\ OneToOne)
<1>1. PeerStoreInit => StoreInv
  BY PeerStoreAssumption
  DEF PeerStoreInit, StoreInv, PeerStoreTypeOK, OneToOne, NoPeers, NoEmails
<1> QED BY <1>1, StoreInvStep, PTL DEF PeerStoreSpec, StoreInv

\* No upsert disturbs a user that does not compete for its key or email.
THEOREM UpsertsAreLocal == PeerStoreSpec => UpsertIsLocal
<1>1. StoreInv /\ [PeerStoreNext]_psVars => [UpsertLeavesOthers]_psVars
  BY UpsertStep DEF UpsertLeavesOthers
<1>2. PeerStoreInit => StoreInv
  BY PeerStoreAssumption
  DEF PeerStoreInit, StoreInv, PeerStoreTypeOK, OneToOne, NoPeers, NoEmails
<1> QED BY <1>1, <1>2, StoreInvStep, PTL DEF PeerStoreSpec, UpsertIsLocal

-----------------------------------------------------------------------------
\* Existing peers are matched by the canonical spelling of their key and
\* desired ones by the spelling of the request: a request that spells one key
\* in two ways is not recognised as a collision, so requests spell each key
\* canonically.
CanonicalKeys == \A s \in KeyStr : ParseKey[s] # NoKey => KeyString[ParseKey[s]] = s

-----------------------------------------------------------------------------
(* Filtering the IPs of a user.                                            *)

\* A set of natural numbers with 0 and all successors of its elements.
LEMMA NatInductionBySet ==
  ASSUME NEW S \in SUBSET Nat, 0 \in S, \A n \in S : n + 1 \in S
  PROVE  S = Nat
<1> SUFFICES ASSUME Nat \ S # {} PROVE FALSE
  OBVIOUS
<1>0. (Nat \ S) \subseteq Nat
  OBVIOUS
<1> DEFINE R == OpToRel(<, Nat)
<1>1. IsWellFoundedOn(R, Nat)
  BY NatLessThanWellFounded
<1> HIDE DEF R
<1>2. \E x \in Nat \ S : \A y \in Nat \ S : ~ (<<y, x>> \in R)
  BY <1>0, <1>1, WFMin
<1>3. PICK x \in Nat \ S : \A y \in Nat \ S : ~ (<<y, x>> \in R)
  BY <1>2
<1>4. x # 0 /\ x - 1 \in Nat /\ (x - 1) + 1 = x /\ x - 1 < x
  OBVIOUS
<1>5. <<x - 1, x>> \in R
  BY <1>4 DEF R, OpToRel
<1>6. x - 1 \notin S
  BY <1>4
<1> QED BY <1>3, <1>4, <1>5, <1>6

\* One step of the loop that keeps the IPs on the interface.
Keep(ips, f, i) ==
  IF i = 0 THEN << >>
  ELSE IF ips[i] \in InterfaceIP THEN Append(f[i - 1], ips[i]) ELSE f[i - 1]

\* The loop has a result for lists of any length.
LEMMA KeepExists ==
  ASSUME NEW ips, NEW m \in Nat
  PROVE  \E f \in [0..m -> Seq(InterfaceIP)] : \A i \in 0..m : f[i] = Keep(ips, f, i)
<1> DEFINE P(n) == \E f \in [0..n -> Seq(InterfaceIP)] : \A i \in 0..n : f[i] = Keep(ips, f, i)
           S == {n \in Nat : P(n)}
<1>1. P(0)
  <2> DEFINE f == [i \in 0..0 |-> << >>]
  <2>1. f \in [0..0 -> Seq(InterfaceIP)] /\ \A i \in 0..0 : f[i] = Keep(ips, f, i)
    BY DEF Keep
  <2> QED BY <2>1
<1>2. ASSUME NEW n \in Nat, P(n) PROVE P(n + 1)
  <2>1. PICK f \in [0..n -> Seq(InterfaceIP)] : \A i \in 0..n : f[i] = Keep(ips, f, i)
    BY <1>2
  <2> DEFINE last == IF ips[n + 1] \in InterfaceIP THEN Append(f[n], ips[n + 1]) ELSE f[n]
             g == [i \in 0..(n + 1) |-> IF i = n + 1 THEN last ELSE f[i]]
  <2>2. f[n] \in Seq(InterfaceIP)
    BY <2>1
  <2>3. last \in Seq(InterfaceIP)
    BY <2>2
  <2> HIDE DEF last
  <2>4. g \in [0..(n + 1) -> Seq(InterfaceIP)]
    BY <2>1, <2>3
  <2>5. \A i \in 0..n : g[i] = f[i]
    OBVIOUS
  <2>6. g[n + 1] = last
    OBVIOUS
  <2> HIDE DEF g
  <2>7. g[n + 1] = Keep(ips, g, n + 1)
    <3>1. (n + 1) # 0 /\ (n + 1) - 1 = n /\ g[n] = f[n]
      BY <2>5
    <3> QED BY <2>6, <3>1 DEF Keep, last
  <2>8. ASSUME NEW i \in 0..n PROVE g[i] = Keep(ips, g, i)
    <3>1. g[i] = Keep(ips, f, i)
      BY <2>1, <2>5
    <3>2. i # 0 => g[i - 1] = f[i - 1]
      BY <2>5
    <3> QED BY <3>1, <3>2 DEF Keep
  <2>9. \A i \in 0..(n + 1) : i = n + 1 \/ i \in 0..n
    OBVIOUS
  <2>10. \A i \in 0..(n + 1) : g[i] = Keep(ips, g, i)
    BY <2>7, <2>8, <2>9
  <2> QED BY <2>4, <2>10
<1>3. S = Nat
  <2>1. S \in SUBSET Nat
    OBVIOUS
  <2>2. 0 \in S
    BY <1>1
  <2>3. \A n \in S : n + 1 \in S
    <3> HIDE DEF P
    <3> QED BY <1>2
  <2> HIDE DEF S
  <2> QED BY <2>1, <2>2, <2>3, NatInductionBySet
<1> QED BY <1>3

\* What is kept are IPs of the list that are on the interface.
LEMMA KeptAreListed ==
  ASSUME NEW ips, NEW m \in Nat, NEW f \in [0..m -> Seq(InterfaceIP)],
         \A i \in 0..m : f[i] = Keep(ips, f, i)
  PROVE  \A x \in Range(f[m]) : x \in InterfaceIP /\ \E i \in 1..m : ips[i] = x
<1> DEFINE P(n) == n <= m => \A x \in Range(f[n]) : \E i \in 1..n : ips[i] = x
           S == {n \in Nat : P(n)}
<1>1. P(0)
  <2>1. f[0] = << >>
    BY DEF Keep
  <2> QED BY <2>1 DEF Range
<1>2. ASSUME NEW n \in Nat, P(n) PROVE P(n + 1)
  <2> SUFFICES ASSUME n + 1 <= m, NEW x \in Range(f[n + 1]) PROVE \E i \in 1..(n + 1) : ips[i] = x
    OBVIOUS
  <2>1. n \in 0..m /\ n + 1 \in 0..m /\ f[n] \in Seq(InterfaceIP)
    OBVIOUS
  <2>2. f[n + 1] = IF ips[n + 1] \in InterfaceIP THEN Append(f[n], ips[n + 1]) ELSE f[n]
    <3>1. f[n + 1] = Keep(ips, f, n + 1) /\ n + 1 # 0 /\ (n + 1) - 1 = n
      BY <2>1
    <3> QED BY <3>1 DEF Keep
  <2>3. CASE x \in Range(f[n])
    <3>1. \E i \in 1..n : ips[i] = x
      BY <1>2, <2>1, <2>3
    <3> QED BY <3>1
  <2>4. CASE x \notin Range(f[n])
    <3>1. ips[n + 1] \in InterfaceIP /\ f[n + 1] = Append(f[n], ips[n + 1])
      BY <2>2, <2>4
    <3>2. \A j \in DOMAIN Append(f[n], ips[n + 1]) :
            \/ j \in DOMAIN f[n] /\ Append(f[n], ips[n + 1])[j] = f[n][j]
            \/ Append(f[n], ips[n + 1])[j] = ips[n + 1]
      BY <2>1
    <3>3. x = ips[n + 1]
      BY <2>4, <3>1, <3>2 DEF Range
    <3>4. n + 1 \in 1..(n + 1)
      OBVIOUS
    <3> QED BY <3>3, <3>4
  <2> QED BY <2>3, <2>4
<1>3. S = Nat
  <2>1. S \in SUBSET Nat
    OBVIOUS
  <2>2. 0 \in S
    BY <1>1
  <2>3. \A n \in S : n + 1 \in S
    <3> HIDE DEF P
    <3> QED BY <1>2
  <2> HIDE DEF S
  <2> QED BY <2>1, <2>2, <2>3, NatInductionBySet
<1>4. P(m)
  BY <1>3
<1>5. f[m] \in Seq(InterfaceIP)
  OBVIOUS
<1>6. \A x \in Range(f[m]) : x \in InterfaceIP
  BY <1>5 DEF Range
<1> QED BY <1>4, <1>6

\* The list peerIPAllowedOnInterface leaves has IPs of the user only, all of
\* them on the interface.
LEMMA AllowedAreCanonical ==
  ASSUME NEW u, u.ips \in Seq(PeerIP)
  PROVE  /\ AllowedIPNets(u) \in Seq(InterfaceIP)
         /\ \A x \in Range(AllowedIPNets(u)) :
              x \in InterfaceIP /\ \E i \in DOMAIN u.ips : CanonicalIPs(u)[i] = x
<1> DEFINE ips == CanonicalIPs(u)
           m == Len(u.ips)
           F == CHOOSE f : f = [i \in 0..m |-> Keep(ips, f, i)]
<1>1. m \in Nat /\ DOMAIN u.ips = 1..m
  OBVIOUS
<1>2. AllowedIPNets(u) = F[m]
  BY DEF AllowedIPNets, Keep
<1> HIDE DEF ips, m
<1>3. PICK g \in [0..m -> Seq(InterfaceIP)] : \A i \in 0..m : g[i] = Keep(ips, g, i)
  BY <1>1, KeepExists
<1>4. g = [i \in 0..m |-> Keep(ips, g, i)]
  BY <1>3
<1>5. F = [i \in 0..m |-> Keep(ips, F, i)]
  BY <1>4
<1> HIDE DEF F
<1>6. F = g
  <2> DEFINE S == {n \in Nat : n <= m => F[n] = g[n]}
  <2>1. 0 \in S
    <3>1. 0 \in 0..m
      BY <1>1
    <3>2. F[0] = Keep(ips, F, 0)
      BY <1>5, <3>1
    <3> QED BY <1>1, <1>3, <3>1, <3>2 DEF Keep
  <2>2. ASSUME NEW n \in S PROVE n + 1 \in S
    <3> SUFFICES ASSUME n + 1 <= m PROVE F[n + 1] = g[n + 1]
      OBVIOUS
    <3>1. n + 1 \in 0..m /\ n \in 0..m /\ (n + 1) - 1 = n /\ n + 1 # 0 /\ F[n] = g[n]
      BY <1>1
    <3>2. F[n + 1] = Keep(ips, F, n + 1)
      BY <1>5, <3>1
    <3>3. g[n + 1] = Keep(ips, g, n + 1)
      BY <1>3, <3>1
    <3> QED BY <3>1, <3>2, <3>3 DEF Keep
  <2>3. S \in SUBSET Nat
    OBVIOUS
  <2>4. S = Nat
    <3> HIDE DEF S
    <3> QED BY <2>1, <2>2, <2>3, NatInductionBySet
  <2>5. ASSUME NEW n \in 0..m PROVE F[n] = g[n]
    <3>0. n \in Nat /\ n <= m
      BY <1>1
    <3>1. n \in S
      <4> HIDE DEF S
      <4> QED BY <2>4, <3>0
    <3> QED BY <3>0, <3>1
  <2>6. DOMAIN F = 0..m /\ F = [i \in 0..m |-> F[i]]
    BY <1>5
  <2> QED BY <1>3, <2>5, <2>6
<1>7. AllowedIPNets(u) = g[m] /\ g[m] \in Seq(InterfaceIP)
  BY <1>1, <1>2, <1>3, <1>6
<1>8. \A x \in Range(g[m]) : x \in InterfaceIP /\ \E i \in 1..m : ips[i] = x
  BY <1>1, <1>3, KeptAreListed
<1> QED BY <1>1, <1>7, <1>8 DEF ips

-----------------------------------------------------------------------------
(* The peers a request asks for.                                           *)

\* No key and no email twice.
DistinctSet(S) == \A p, q \in S : p.key = q.key \/ p.email = q.email => p = q

\* No IP twice.
DisjointSet(S) == \A p, q \in S : p # q => Range(p.ips) \cap Range(q.ips) = {}

\* normalizeUsers leaves one entry per email, taken from the request.
LEMMA NormalizedUsers ==
  ASSUME NEW r \in Requests
  PROVE  /\ \A u \in normalizeUsers(r) :
              u \in User /\ (~Quarantined(u) => AllowedIPNets(u) \in AllowedIPs)
         /\ \A u, v \in normalizeUsers(r) : u.email = v.email => u = v
<1>1. r \in Seq(User) /\ \A i \in DOMAIN r : ~Quarantined(r[i]) => AllowedIPNets(r[i]) \in AllowedIPs
  BY WireGuardAssumption
<1>2. \A i \in DOMAIN r : r[i] \in User /\ i \in Nat
  BY <1>1
<1>3. \A u \in normalizeUsers(r) : \E j \in DOMAIN r :
        /\ u = r[j] /\ r[j].wg
        /\ \A l \in DOMAIN r : l > j /\ r[l].wg => r[l].email # r[j].email
  BY DEF normalizeUsers
<1>4. ASSUME NEW u \in normalizeUsers(r), NEW v \in normalizeUsers(r), u.email = v.email
      PROVE  u = v
  <2>1. PICK i \in DOMAIN r :
          /\ u = r[i] /\ r[i].wg
          /\ \A l \in DOMAIN r : l > i /\ r[l].wg => r[l].email # r[i].email
    BY <1>3
  <2>2. PICK j \in DOMAIN r :
          /\ v = r[j] /\ r[j].wg
          /\ \A l \in DOMAIN r : l > j /\ r[l].wg => r[l].email # r[j].email
    BY <1>3
  <2>3. ~(i > j) /\ ~(j > i)
    BY <1>4, <2>1, <2>2
  <2>4. i = j
    BY <1>2, <2>3
  <2> QED BY <2>1, <2>2, <2>4
<1> QED BY <1>1, <1>2, <1>3, <1>4

\* A user that is not quarantined has registered all its IPs in seenIPs.
LEMMA AllowedAreSeen ==
  ASSUME NEW u \in User, ~Quarantined(u)
  PROVE  Range(AllowedIPNets(u)) \subseteq SeenIPs(u)
<1>1. u.ips \in Seq(PeerIP)
  BY DEF User
<1> SUFFICES ASSUME NEW x \in Range(AllowedIPNets(u)) PROVE x \in SeenIPs(u)
  OBVIOUS
<1>2. PICK i \in DOMAIN u.ips : x \in InterfaceIP /\ CanonicalIPs(u)[i] = x
  BY <1>1, AllowedAreCanonical
<1>3. \A l \in 1..i : l \in DOMAIN u.ips
  BY <1>1
<1>4. NoIP \notin Range(CanonicalIPs(u)) /\ DOMAIN CanonicalIPs(u) = DOMAIN u.ips
  BY DEF Quarantined, CanonicalIPs
<1>5. \A l \in 1..i : CanonicalIPs(u)[l] # NoIP
  BY <1>3, <1>4 DEF Range
<1> QED BY <1>2, <1>5 DEF SeenIPs

\* Where a desired peer comes from.
LEMMA DesiredFrom ==
  ASSUME NEW r \in Requests, NEW t \in collectDesiredPeers(normalizeUsers(r))
  PROVE  \E u \in normalizeUsers(r) :
           /\ Listed(u) /\ ~Quarantined(u)
           /\ t = [str |-> u.key,
                   peer |-> [email |-> u.email, key |-> ParseKey[u.key], ips |-> AllowedIPNets(u)]]
BY DEF collectDesiredPeers

\* The peers that collectDesiredPeers returns for a request it accepts: one per
\* key and email, spelled canonically, without a common IP.
LEMMA DesiredPeers ==
  ASSUME CanonicalKeys, NEW r \in Requests, ~collectFails(normalizeUsers(r))
  PROVE  LET D == collectDesiredPeers(normalizeUsers(r))
         IN  /\ \A t \in D : /\ t.peer \in PeerInfo
                             /\ t.str = KeyString[t.peer.key]
                             /\ t.peer.email \in {u.email : u \in normalizeUsers(r)}
             /\ \A s, t \in D : s.peer.key = t.peer.key \/ s.peer.email = t.peer.email => s = t
             /\ \A s, t \in D : s # t => Range(s.peer.ips) \cap Range(t.peer.ips) = {}
<1> DEFINE norm == normalizeUsers(r)
           D == collectDesiredPeers(norm)
           Of(u) == [str |-> u.key,
                     peer |-> [email |-> u.email, key |-> ParseKey[u.key], ips |-> AllowedIPNets(u)]]
<1>1. \A t \in D : \E u \in norm : Listed(u) /\ ~Quarantined(u) /\ t = Of(u)
  BY DesiredFrom
<1>2. /\ \A u \in norm : u \in User /\ (~Quarantined(u) => AllowedIPNets(u) \in AllowedIPs)
      /\ \A u, v \in norm : u.email = v.email => u = v
  BY NormalizedUsers
<1> HIDE DEF norm, D
<1>3. ASSUME NEW u \in norm, Listed(u), ~Quarantined(u)
      PROVE  /\ Of(u).peer \in PeerInfo /\ Of(u).str = KeyString[Of(u).peer.key]
             /\ Of(u).peer.email = u.email /\ Of(u).peer.key = ParseKey[u.key]
             /\ Of(u).peer.ips = AllowedIPNets(u)
             /\ u.key = KeyString[ParseKey[u.key]]
  <2>1. u.email \in Email /\ u.key \in KeyStr /\ AllowedIPNets(u) \in AllowedIPs
    BY <1>2, <1>3 DEF User
  <2>2. ParseKey[u.key] \in Key /\ KeyString[ParseKey[u.key]] = u.key
    BY <1>3, <2>1, WireGuardAssumption DEF Listed, CanonicalKeys
  <2> QED BY <2>1, <2>2 DEF PeerInfo
<1>4. \A t \in D : /\ t.peer \in PeerInfo
                   /\ t.str = KeyString[t.peer.key]
                   /\ t.peer.email \in {u.email : u \in norm}
  <2> SUFFICES ASSUME NEW t \in D PROVE /\ t.peer \in PeerInfo
                   /\ t.str = KeyString[t.peer.key]
                   /\ t.peer.email \in {u.email : u \in norm}
    OBVIOUS
  <2>1. PICK u \in norm : Listed(u) /\ ~Quarantined(u) /\ t = Of(u)
    BY <1>1
  <2> HIDE DEF Of
  <2> QED BY <1>3, <2>1
<1>5. ASSUME NEW s \in D, NEW t \in D
      PROVE  /\ s.peer.key = t.peer.key \/ s.peer.email = t.peer.email => s = t
             /\ s # t => Range(s.peer.ips) \cap Range(t.peer.ips) = {}
  <2>1. PICK u \in norm : Listed(u) /\ ~Quarantined(u) /\ s = Of(u)
    BY <1>1
  <2>2. PICK v \in norm : Listed(v) /\ ~Quarantined(v) /\ t = Of(v)
    BY <1>1
  <2> HIDE DEF Of
  <2>3. /\ s.peer.email = u.email /\ s.peer.key = ParseKey[u.key] /\ s.peer.ips = AllowedIPNets(u)
        /\ t.peer.email = v.email /\ t.peer.key = ParseKey[v.key] /\ t.peer.ips = AllowedIPNets(v)
        /\ u.key = KeyString[ParseKey[u.key]] /\ v.key = KeyString[ParseKey[v.key]]
    BY <1>3, <2>1, <2>2
  <2>4. u # v => SeenIPs(u) \cap SeenIPs(v) = {} /\ u.key # v.key
    BY <2>1, <2>2 DEF collectFails, norm
  <2>5. Range(s.peer.ips) \subseteq SeenIPs(u) /\ Range(t.peer.ips) \subseteq SeenIPs(v)
    BY <1>2, <2>1, <2>2, <2>3, AllowedAreSeen
  <2>6. CASE u = v
    BY <2>1, <2>2, <2>6
  <2>7. CASE u # v
    <3>1. s.peer.email # t.peer.email /\ s.peer.key # t.peer.key
      BY <1>2, <2>3, <2>4, <2>7
    <3>2. Range(s.peer.ips) \cap Range(t.peer.ips) = {}
      BY <2>4, <2>5, <2>7
    <3> QED BY <3>1, <3>2
  <2> QED BY <2>6, <2>7
<1> QED BY <1>4, <1>5 DEF D, norm

-----------------------------------------------------------------------------
(* Sets of peers, and the lists the bulk operations make of them.          *)

\* There are finitely many keys, so there are finitely many peers.
LEMMA FinitePeers ==
  ASSUME NEW S \in SUBSET PeerInfo, DistinctSet(S)
  PROVE  IsFiniteSet(S)
<1> DEFINE f == [p \in S |-> p.key]
<1>1. f \in [S -> Key]
  BY DEF PeerInfo
<1>2. \A a, b \in S : f[a] = f[b] => a = b
  BY DEF DistinctSet
<1>3. f \in Injection(S, Key)
  BY <1>1, <1>2 DEF Injection, IsInjective
<1> HIDE DEF f
<1> QED BY <1>3, FS_Injection, WireGuardAssumption

(* Every order in which a set of peers with distinct keys may reach the
   store is a list the store lemmas apply to, and holds just that set. *)
LEMMA OrdersArePeerLists ==
  ASSUME NEW S \in SUBSET PeerInfo, DistinctSet(S), NEW list \in Orders(S)
  PROVE  /\ IsPeerList(list)
         /\ {list[i] : i \in DOMAIN list} = S
         /\ Range(list) = S
<1>1. Cardinality(S) \in Nat
  BY FinitePeers, FS_CardinalityType
<1>2. /\ list \in [1..Cardinality(S) -> S]
      /\ \A i, j \in DOMAIN list : list[i] = list[j] => i = j
      /\ \A p \in S : \E i \in 1..Cardinality(S) : list[i] = p
  BY DEF Orders, Bijection, Injection, Surjection, IsInjective
<1>3. DOMAIN list = 1..Cardinality(S)
  BY <1>2
<1>4. list \in [1..Cardinality(S) -> PeerInfo]
  BY <1>2
<1>5. DistinctPeers(list)
  BY <1>2, <1>3 DEF DistinctPeers, DistinctSet
<1>6. Range(list) = S
  BY <1>2, <1>3 DEF Range
<1> QED BY <1>1, <1>4, <1>5, <1>6 DEF IsPeerList, Range

\* The device has exactly the peers of S, each with exactly its IPs.
Holds(dev, S) ==
  /\ \A p \in S : dev[p.key] = Range(p.ips)
  /\ \A k \in Key : (\A p \in S : p.key # k) => dev[k] = NoPeer

(* The addresses a configuration gives to a key are addresses. *)
LEMMA ConfiguredIPs ==
  ASSUME NEW S \in SUBSET PeerInfo, NEW k
  PROVE  IPsOf(S, k) \subseteq IP
<1>1. \A p \in S : Range(p.ips) \subseteq IP
  <2> SUFFICES ASSUME NEW p \in S PROVE Range(p.ips) \subseteq IP
    OBVIOUS
  <2>1. p.ips \in Seq(IP)
    BY WireGuardAssumption DEF PeerInfo
  <2> QED BY <2>1 DEF Range
<1> QED BY <1>1 DEF IPsOf

(* A ReplacePeers configuration leaves a device of the right type. *)
LEMMA ReplacePeersType ==
  ASSUME NEW list, Range(list) \subseteq PeerInfo
  PROVE  ReplacePeers(list) \in [Key -> (SUBSET IP) \cup {NoPeer}]
<1> DEFINE Owner(ip) == LastEntry(list, LAMBDA p : ip \in Range(p.ips)).key
           Has(k) == HasEntry(list, LAMBDA p : p.key = k)
<1>1. \A k \in Key : IPsOf(Range(list), k) \subseteq IP
  BY ConfiguredIPs
<1>2. ReplacePeers(list) =
        [k \in Key |-> IF Has(k) THEN {ip \in IPsOf(Range(list), k) : Owner(ip) = k} ELSE NoPeer]
  BY DEF ReplacePeers
<1> HIDE DEF Owner, Has
<1>3. \A k \in Key : {ip \in IPsOf(Range(list), k) : Owner(ip) = k} \in SUBSET IP
  BY <1>1
<1> QED BY <1>2, <1>3

\* With ReplacePeers the device has the peers of the list, whatever its order,
\* if no IP occurs twice.
LEMMA ReplacePeersHolds ==
  ASSUME NEW S \in SUBSET PeerInfo, DistinctSet(S), DisjointSet(S), NEW list \in Orders(S)
  PROVE  Holds(ReplacePeers(list), S)
<1>1. IsPeerList(list) /\ Range(list) = S /\ {list[i] : i \in DOMAIN list} = S
  BY OrdersArePeerLists
<1>2. PICK n \in Nat : list \in [1..n -> PeerInfo]
  BY <1>1 DEF IsPeerList
<1>3. DOMAIN list = 1..n /\ \A i \in DOMAIN list : list[i] \in S
  BY <1>1, <1>2
<1>4. ASSUME NEW p \in S PROVE ReplacePeers(list)[p.key] = Range(p.ips)
  <2>1. p.key \in Key
    BY DEF PeerInfo
  <2>2. PICK i \in DOMAIN list : list[i] = p
    BY <1>1
  <2>3. HasEntry(list, LAMBDA q : q.key = p.key)
    BY <2>2 DEF HasEntry
  <2>4. IPsOf(Range(list), p.key) = Range(p.ips)
    BY <1>1 DEF IPsOf, DistinctSet
  <2>5. ASSUME NEW ip \in Range(p.ips)
        PROVE  LastEntry(list, LAMBDA q : ip \in Range(q.ips)).key = p.key
    <3> DEFINE Q(j) == ip \in Range(list[j].ips)
                       /\ \A l \in DOMAIN list : ip \in Range(list[l].ips) => l <= j
    <3>1. \A j \in DOMAIN list : ip \in Range(list[j].ips) => j = i
      <4> SUFFICES ASSUME NEW j \in DOMAIN list, ip \in Range(list[j].ips) PROVE j = i
        OBVIOUS
      <4>1. list[j] = p
        BY <1>3, <2>5 DEF DisjointSet
      <4> QED BY <1>1, <2>2, <4>1 DEF IsPeerList, DistinctPeers
    <3>2. Q(i)
      BY <1>3, <2>2, <2>5, <3>1
    <3>3. \A j \in DOMAIN list : Q(j) => j = i
      BY <3>1
    <3>4. (CHOOSE j \in DOMAIN list : Q(j)) = i
      <4> HIDE DEF Q
      <4> QED BY <2>2, <3>2, <3>3
    <3> QED BY <2>2, <3>4 DEF LastEntry
  <2> DEFINE Owner(ip) == LastEntry(list, LAMBDA q : ip \in Range(q.ips)).key
  <2>6. ReplacePeers(list)[p.key] = {ip \in IPsOf(Range(list), p.key) : Owner(ip) = p.key}
    BY <2>1, <2>3 DEF ReplacePeers
  <2>7. \A ip \in Range(p.ips) : Owner(ip) = p.key
    BY <2>5
  <2> HIDE DEF Owner
  <2> QED BY <2>4, <2>6, <2>7
<1>5. ASSUME NEW k \in Key, \A p \in S : p.key # k PROVE ReplacePeers(list)[k] = NoPeer
  <2>1. ~HasEntry(list, LAMBDA q : q.key = k)
    BY <1>3, <1>5 DEF HasEntry
  <2> QED BY <2>1 DEF ReplacePeers
<1> QED BY <1>4, <1>5 DEF Holds

-----------------------------------------------------------------------------
(* The plan of a sync.                                                     *)

\* The peers in a map of keys, for any such map.
PeersIn(ps) == {ps[k] : k \in {kk \in Key : ps[kk] # NoPeer}}

(* The peers in the store are those filed under their own key. *)
LEMMA StoredPeers ==
  ASSUME NEW ps \in [Key -> PeerInfo \cup {NoPeer}],
         \A k \in Key : ps[k] # NoPeer => ps[k].key = k
  PROVE  /\ PeersIn(ps) \subseteq PeerInfo
         /\ \A p : p \in PeersIn(ps) <=> p \in PeerInfo /\ ps[p.key] = p
<1>1. \A p \in PeerInfo : p.key \in Key /\ p # NoPeer
  BY PeerStoreAssumption DEF PeerInfo
<1>2. \A p \in PeersIn(ps) : p \in PeerInfo /\ ps[p.key] = p
  BY DEF PeersIn
<1>3. \A p \in PeerInfo : ps[p.key] = p => p \in PeersIn(ps)
  BY <1>1 DEF PeersIn
<1> QED BY <1>2, <1>3

\* What the store has is one peer per key and email.
LEMMA StoreFacts ==
  ASSUME StoreInv
  PROVE  /\ GetAll = PeersIn(peers)
         /\ GetAll \subseteq PeerInfo
         /\ \A p : p \in GetAll <=> p \in PeerInfo /\ peers[p.key] = p
         /\ \A k \in Key : peers[k] # NoPeer => peers[k] \in GetAll /\ peers[k].key = k
         /\ DistinctSet(GetAll)
         /\ \A p \in GetAll : emailToKey[p.email] = p.key /\ GetByEmail(p.email) = p
         /\ \A e \in Email : GetByEmail(e) # NoPeer => GetByEmail(e) \in GetAll /\ GetByEmail(e).email = e
<1>1. /\ peers \in [Key -> PeerInfo \cup {NoPeer}] /\ emailToKey \in [Email -> Key \cup {NoKey}]
      /\ \A k \in Key : peers[k] # NoPeer => peers[k].key = k
      /\ OneToOne
  BY DEF StoreInv, PeerStoreTypeOK, OneToOne
<1>2. GetAll = PeersIn(peers)
  BY DEF GetAll, PeersIn
<1>3. GetAll \subseteq PeerInfo /\ \A p : p \in GetAll <=> p \in PeerInfo /\ peers[p.key] = p
  BY <1>1, <1>2, StoredPeers
<1>4. \A k \in Key : peers[k] # NoPeer => peers[k] \in GetAll /\ peers[k].key = k
  BY <1>1 DEF GetAll
<1>5. \A p \in GetAll : p.key \in Key /\ p.email \in Email /\ peers[p.key] = p /\ p # NoPeer
  BY <1>3, PeerStoreAssumption DEF PeerInfo
<1>6. \A p \in GetAll : emailToKey[p.email] = p.key /\ GetByEmail(p.email) = p
  BY <1>1, <1>5, PeerStoreAssumption DEF OneToOne, GetByEmail
<1>7. DistinctSet(GetAll)
  BY <1>5, <1>6 DEF DistinctSet
<1>8. \A e \in Email : GetByEmail(e) # NoPeer => GetByEmail(e) \in GetAll /\ GetByEmail(e).email = e
  BY <1>1, <1>4 DEF OneToOne, GetByEmail
<1> QED BY <1>2, <1>3, <1>4, <1>6, <1>7, <1>8

\* The peers of a set of desired entries.
Asked(D) == {t.peer : t \in D}

\* Peers and desired entries that match have the same key.
LEMMA MatchesByKey ==
  ASSUME CanonicalKeys, NEW r \in Requests, ~collectFails(normalizeUsers(r)),
         NEW p \in PeerInfo, NEW t \in collectDesiredPeers(normalizeUsers(r))
  PROVE  Matches(p, t) <=> p.key = t.peer.key
<1>1. t.peer \in PeerInfo /\ t.str = KeyString[t.peer.key]
  BY DesiredPeers
<1>2. p.key \in Key /\ t.peer.key \in Key
  BY <1>1 DEF PeerInfo
<1> QED BY <1>1, <1>2, WireGuardAssumption DEF Matches

\* A full sync's target is the request, which is one of the Updates.
LEMMA FullPlanned ==
  ASSUME CanonicalKeys, NEW r \in Requests, ~collectFails(normalizeUsers(r)),
         NEW existing \in SUBSET PeerInfo
  PROVE  LET D == collectDesiredPeers(normalizeUsers(r))
             d == buildSyncDiff(existing, D)
         IN  /\ d \in Diff
             /\ d.target = Asked(D)
             /\ d.upsert \subseteq d.target
             /\ d.replaceIPs \subseteq d.target
             /\ d.add \subseteq d.target
             /\ DistinctSet(d.target)
             /\ DisjointSet(d.target)
             /\ [emails |-> {u.email : u \in normalizeUsers(r)}, peers |-> d.target] \in Updates
<1> DEFINE D == collectDesiredPeers(normalizeUsers(r))
           d == buildSyncDiff(existing, D)
<1>1. /\ \A t \in D : t.peer \in PeerInfo
      /\ \A s, t \in D : s.peer.key = t.peer.key \/ s.peer.email = t.peer.email => s = t
      /\ \A s, t \in D : s # t => Range(s.peer.ips) \cap Range(t.peer.ips) = {}
  BY DesiredPeers
<1>2. Asked(D) \subseteq PeerInfo /\ DistinctSet(Asked(D)) /\ DisjointSet(Asked(D))
  BY <1>1 DEF Asked, DistinctSet, DisjointSet
<1>3. [emails |-> {u.email : u \in normalizeUsers(r)}, peers |-> Asked(D)] \in Updates
  BY DEF Updates, Asked
<1> HIDE DEF D
<1>4. /\ d.target = Asked(D) /\ d.replaceIPs = Asked(Moved(existing, D))
      /\ d.add = Asked(Added(existing, D))
      /\ d.upsert = Asked(Moved(existing, D) \cup Renamed(existing, D) \cup Added(existing, D))
      /\ d.remove = {p.key : p \in {q \in existing : \A t \in D : ~Matches(q, t)}}
  BY DEF buildSyncDiff, Asked
<1>5. d = [remove |-> d.remove, upsert |-> d.upsert, replaceIPs |-> d.replaceIPs,
           add |-> d.add, target |-> d.target]
  BY DEF buildSyncDiff
<1> HIDE DEF d
<1>6. /\ d.upsert \subseteq d.target /\ d.replaceIPs \subseteq d.target /\ d.add \subseteq d.target
      /\ d.remove \subseteq Key
  BY <1>4 DEF Asked, Moved, Renamed, Added, PeerInfo
<1>7. d \in Diff
  BY <1>2, <1>4, <1>5, <1>6 DEF Diff
<1> QED BY <1>2, <1>3, <1>4, <1>6, <1>7 DEF D, d

\* What the plan d of a partial sync says of the store, when g is its goal: a
\* stored peer goes, stays or makes room for an upsert of its key, and what is
\* not upserted is there already.
StorePlan(d, g) ==
  /\ \A p \in GetAll : p.key \in d.remove \/ p \in g \/ \E q \in d.upsert : q.key = p.key
  /\ \A q \in g : q \in d.upsert \/ peers[q.key] = q
  /\ \A q \in g : q.key \notin d.remove
  /\ d.upsert \subseteq g

\* What it says of the device: only new keys are added, and a peer that is not
\* configured has its IPs already.
KernelPlan(d, g) ==
  /\ d.replaceIPs \subseteq g /\ d.add \subseteq g
  /\ \A q \in d.add : peers[q.key] = NoPeer
  /\ \A q \in g : \/ q \in d.replaceIPs \/ q \in d.add
                  \/ peers[q.key] # NoPeer /\ peers[q.key].ips = q.ips

\* The goal is one of the Updates, merged into the store.
MergePlan(g) ==
  \E u \in Updates :
    /\ \A p \in GetAll, q \in u.peers : p.email \notin u.emails => p.key # q.key
    /\ g = {p \in GetAll : p.email \notin u.emails} \cup u.peers

\* The plan of a partial sync.
LEMMA PartialPlanned ==
  ASSUME CanonicalKeys, StoreInv, NEW r \in Requests, ~collectFails(normalizeUsers(r)),
         NEW touched, touched = {u.email : u \in normalizeUsers(r)},
         NEW desired, desired = collectDesiredPeers(normalizeUsers(r)),
         NEW existing, existing = {GetByEmail(e) : e \in {f \in touched : GetByEmail(f) # NoPeer}},
         NEW untouched, untouched = {p \in GetAll : p.email \notin touched},
         NEW d, d = buildSyncDiff(existing, desired),
         ~KeyTaken(desired, touched)
  PROVE  LET g == untouched \cup d.target
         IN  /\ d \in Diff
             /\ g \subseteq PeerInfo
             /\ DistinctSet(g)
             /\ StorePlan(d, g)
             /\ KernelPlan(d, g)
             /\ MergePlan(g)
             /\ /\ DisjointSet(GetAll)
                /\ \A t \in desired, p \in untouched : Range(t.peer.ips) \cap Range(p.ips) = {}
                => DisjointSet(g)
<1> DEFINE g == untouched \cup d.target
<1>1. /\ GetAll \subseteq PeerInfo
      /\ \A p : p \in GetAll <=> p \in PeerInfo /\ peers[p.key] = p
      /\ \A k \in Key : peers[k] # NoPeer => peers[k] \in GetAll /\ peers[k].key = k
      /\ DistinctSet(GetAll)
      /\ \A p \in GetAll : GetByEmail(p.email) = p
      /\ \A e \in Email : GetByEmail(e) # NoPeer => GetByEmail(e) \in GetAll /\ GetByEmail(e).email = e
  BY StoreFacts
<1>2. touched \subseteq Email
  BY NormalizedUsers DEF User
<1>3. \A p : p \in existing <=> p \in GetAll /\ p.email \in touched
  <2>1. \A p \in existing : p \in GetAll /\ p.email \in touched
    BY <1>1, <1>2
  <2>2. \A p \in GetAll : p.email \in touched => p \in existing
    <3>1. \A p \in GetAll : GetByEmail(p.email) = p /\ p # NoPeer
      BY <1>1, PeerStoreAssumption
    <3> QED BY <3>1
  <2> QED BY <2>1, <2>2
<1>4. existing \in SUBSET PeerInfo
  BY <1>1, <1>3
<1>5. /\ d \in Diff
      /\ d.target = Asked(desired)
      /\ d.upsert \subseteq d.target /\ d.replaceIPs \subseteq d.target /\ d.add \subseteq d.target
      /\ DistinctSet(d.target) /\ DisjointSet(d.target)
      /\ [emails |-> touched, peers |-> d.target] \in Updates
  BY <1>4, FullPlanned
<1>6. /\ \A t \in desired : t.peer \in PeerInfo /\ t.peer.key \in Key /\ t.peer.email \in touched
                            /\ t.str = KeyString[t.peer.key]
      /\ \A s, t \in desired : s.peer = t.peer => s = t
  BY DesiredPeers DEF PeerInfo
<1>7. \A p \in existing, t \in desired : Matches(p, t) <=> p.key = t.peer.key
  BY <1>4, MatchesByKey
<1>8. /\ d.replaceIPs = Asked(Moved(existing, desired))
      /\ d.add = Asked(Added(existing, desired))
      /\ d.upsert = Asked(Moved(existing, desired) \cup Renamed(existing, desired)
                          \cup Added(existing, desired))
      /\ d.remove = {p.key : p \in {q \in existing : \A t \in desired : ~Matches(q, t)}}
  BY DEF buildSyncDiff, Asked
<1>9. \A t \in desired : peers[t.peer.key] # NoPeer => peers[t.peer.key] \in existing
  <2> SUFFICES ASSUME NEW t \in desired, peers[t.peer.key] # NoPeer
               PROVE  peers[t.peer.key] \in existing
    OBVIOUS
  <2>1. peers[t.peer.key] \in GetAll /\ peers[t.peer.key].email \in Email
    BY <1>1, <1>6 DEF PeerInfo
  <2>2. GetEmailMap[t.peer.key] = peers[t.peer.key].email
    BY <1>6 DEF GetEmailMap
  <2>3. GetEmailMap[t.peer.key] \in {NoPeer, t.peer.email} \cup touched
    BY <1>6 DEF KeyTaken
  <2> QED BY <1>3, <1>6, <2>1, <2>2, <2>3, WireGuardAssumption
<1>10. /\ \A t \in Moved(existing, desired) : t \in desired
       /\ \A t \in desired : t \in Moved(existing, desired) <=>
            \E p \in existing : p.key = t.peer.key /\ p.ips # t.peer.ips
       /\ \A t \in desired : t \in Renamed(existing, desired) <=>
            \E p \in existing : p.key = t.peer.key /\ p.email # t.peer.email
       /\ \A t \in desired : t \in Added(existing, desired) <=>
            \A p \in existing : p.key # t.peer.key
  BY <1>7 DEF Moved, Renamed, Added
<1>11. \A k : k \in d.remove <=>
         \E p \in existing : p.key = k /\ \A t \in desired : t.peer.key # k
  BY <1>7, <1>8
<1>12. \A q : q \in g <=> q \in untouched \/ \E t \in desired : t.peer = q
  BY <1>5 DEF Asked
<1>13. \A p, q \in GetAll : p.key = q.key \/ p.email = q.email => p = q
  BY <1>1 DEF DistinctSet
<1>14. \A p \in untouched, t \in desired : p.key # t.peer.key /\ p.email # t.peer.email
  <2> SUFFICES ASSUME NEW p \in untouched, NEW t \in desired
               PROVE  p.key # t.peer.key /\ p.email # t.peer.email
    OBVIOUS
  <2>1. p \in GetAll /\ p.email \notin touched /\ peers[p.key] = p /\ p # NoPeer
    BY <1>1, PeerStoreAssumption
  <2> QED BY <1>3, <1>6, <1>9, <2>1
<1> HIDE DEF g
<1>15. g \subseteq PeerInfo
  BY <1>1, <1>6, <1>12
<1>16. DistinctSet(g)
  <2> SUFFICES ASSUME NEW p \in g, NEW q \in g, p.key = q.key \/ p.email = q.email
               PROVE  p = q
    BY DEF DistinctSet
  <2>1. CASE p \in untouched /\ q \in untouched
    BY <1>13, <2>1
  <2>2. CASE (\E t \in desired : t.peer = p) /\ \E t \in desired : t.peer = q
    <3>1. p \in d.target /\ q \in d.target
      BY <1>5, <2>2 DEF Asked
    <3> QED BY <1>5, <3>1 DEF DistinctSet
  <2> QED BY <1>12, <1>14, <2>1, <2>2
<1>17. \A q \in g : q.key \notin d.remove
  <2> SUFFICES ASSUME NEW q \in g, q.key \in d.remove PROVE FALSE
    OBVIOUS
  <2>1. PICK p \in existing : p.key = q.key /\ \A t \in desired : t.peer.key # q.key
    BY <1>11
  <2>2. q \in untouched
    BY <1>12, <2>1
  <2> QED BY <1>3, <1>13, <2>1, <2>2
\* A desired entry that changes nothing is there already.
<1>18. ASSUME NEW t \in desired, t \notin Moved(existing, desired), t \notin Added(existing, desired)
       PROVE  /\ peers[t.peer.key] \in existing /\ peers[t.peer.key].ips = t.peer.ips
              /\ peers[t.peer.key] # NoPeer
              /\ t \notin Renamed(existing, desired) => peers[t.peer.key] = t.peer
  <2>1. PICK p \in existing : p.key = t.peer.key
    BY <1>10, <1>18
  <2>2. p \in GetAll /\ peers[p.key] = p /\ p \in PeerInfo /\ p # NoPeer
    BY <1>1, <1>3, PeerStoreAssumption
  <2>3. p.ips = t.peer.ips
    BY <1>10, <1>18, <2>1
  <2>4. t \notin Renamed(existing, desired) => p.email = t.peer.email
    BY <1>10, <2>1
  <2>5. t.peer \in PeerInfo
    BY <1>6
  <2>6. p.email = t.peer.email => p = t.peer
    BY <2>1, <2>2, <2>3, <2>5 DEF PeerInfo
  <2> QED BY <2>1, <2>2, <2>3, <2>4, <2>6
<1>19. \A p \in GetAll : p.key \in d.remove \/ p \in g \/ \E q \in d.upsert : q.key = p.key
  <2> SUFFICES ASSUME NEW p \in GetAll, p.key \notin d.remove, p \notin g
               PROVE  \E q \in d.upsert : q.key = p.key
    OBVIOUS
  <2>1. p \in existing
    BY <1>3, <1>12
  <2>2. PICK t \in desired : t.peer.key = p.key
    BY <1>11, <2>1
  <2>3. peers[t.peer.key] = p /\ t.peer # p
    BY <1>1, <1>12, <2>2
  <2>4. t \in Moved(existing, desired) \cup Renamed(existing, desired) \cup Added(existing, desired)
    BY <1>18, <2>3
  <2>5. t.peer \in d.upsert
    BY <1>8, <2>4 DEF Asked
  <2> QED BY <2>2, <2>5
<1>20. \A q \in g : q \in d.upsert \/ peers[q.key] = q
  <2> SUFFICES ASSUME NEW q \in g, q \notin d.upsert PROVE peers[q.key] = q
    OBVIOUS
  <2>1. CASE q \in untouched
    BY <1>1, <2>1
  <2>2. ASSUME NEW t \in desired, t.peer = q PROVE peers[q.key] = q
    <3>1. t \notin Moved(existing, desired) \cup Renamed(existing, desired) \cup Added(existing, desired)
      BY <1>8, <2>2 DEF Asked
    <3> QED BY <1>18, <2>2, <3>1
  <2> QED BY <1>12, <2>1, <2>2
<1>21. StorePlan(d, g)
  <2>1. d.upsert \subseteq g
    BY <1>5 DEF g
  <2> QED BY <1>17, <1>19, <1>20, <2>1 DEF StorePlan
<1>22. KernelPlan(d, g)
  <2>1. d.replaceIPs \subseteq g /\ d.add \subseteq g
    BY <1>5 DEF g
  <2>2. ASSUME NEW q \in d.add PROVE peers[q.key] = NoPeer
    <3>1. PICK t \in Added(existing, desired) : t.peer = q
      BY <1>8 DEF Asked
    <3>2. t \in desired
      BY DEF Added
    <3>3. peers[q.key] # NoPeer => peers[q.key].key = q.key
      BY <1>1, <1>6, <3>1, <3>2
    <3> QED BY <1>9, <1>10, <3>1, <3>2, <3>3
  <2>3. ASSUME NEW q \in g, q \notin d.replaceIPs, q \notin d.add
        PROVE  peers[q.key] # NoPeer /\ peers[q.key].ips = q.ips
    <3>1. CASE q \in untouched
      BY <1>1, <3>1, PeerStoreAssumption
    <3>2. ASSUME NEW t \in desired, t.peer = q
          PROVE  peers[q.key] # NoPeer /\ peers[q.key].ips = q.ips
      <4>1. t \notin Moved(existing, desired) /\ t \notin Added(existing, desired)
        BY <1>8, <2>3, <3>2 DEF Asked
      <4> QED BY <1>18, <3>2, <4>1
    <3> QED BY <1>12, <2>3, <3>1, <3>2
  <2> QED BY <2>1, <2>2, <2>3 DEF KernelPlan
<1>23. MergePlan(g)
  <2> DEFINE u == [emails |-> touched, peers |-> d.target]
  <2>1. u \in Updates /\ u.emails = touched /\ u.peers = d.target
    BY <1>5
  <2> HIDE DEF u
  <2>2. \A p \in GetAll, q \in u.peers : p.email \notin u.emails => p.key # q.key
    BY <1>5, <1>14, <2>1 DEF Asked
  <2>3. g = {p \in GetAll : p.email \notin u.emails} \cup u.peers
    BY <2>1 DEF g
  <2> QED BY <2>1, <2>2, <2>3 DEF MergePlan
<1>24. ASSUME DisjointSet(GetAll),
              \A t \in desired, p \in untouched : Range(t.peer.ips) \cap Range(p.ips) = {}
       PROVE  DisjointSet(g)
  <2> SUFFICES ASSUME NEW p \in g, NEW q \in g, p # q
               PROVE  Range(p.ips) \cap Range(q.ips) = {}
    BY DEF DisjointSet
  <2>1. CASE p \in untouched /\ q \in untouched
    BY <1>24, <2>1 DEF DisjointSet
  <2>2. CASE (\E t \in desired : t.peer = p) /\ \E t \in desired : t.peer = q
    <3>1. p \in d.target /\ q \in d.target
      BY <1>5, <2>2 DEF Asked
    <3> QED BY <1>5, <3>1 DEF DisjointSet
  <2> QED BY <1>12, <1>24, <2>1, <2>2, SMTT(30)
<1> QED BY <1>5, <1>15, <1>16, <1>21, <1>22, <1>23, <1>24 DEF g

-----------------------------------------------------------------------------
(* The inductive invariant.                                                *)

PartialOps == {"partial", "updateRestart"}
SyncOps == {"full", "partial", "updateRestart", "restart"}

\* Places where the plan of a sync is made and the store not yet written.
Waiting == {"ready", "configure", "commit"}

SyncTypeOK ==
  /\ state \in {"none", "running", "stopped"}
  /\ manager \in BOOLEAN /\ client \in BOOLEAN /\ dirty \in BOOLEAN
  /\ device \in [Key -> (SUBSET IP) \cup {NoPeer}]
  /\ errors \in 0..MaxKernelErrors
  /\ syncMu \in Caller \cup {Nobody}
  /\ pc \in [Caller -> {"idle", "ready", "configure", "commit", "upserting", "stats"}]
  /\ op \in [Caller -> {"none", "full", "partial", "updateRestart", "restart"}]
  /\ goal \in [Caller -> SUBSET PeerInfo]
  /\ diff \in [Caller -> Diff]

\* Only the holder of syncMu is under way, and ps.mu is held by it alone while
\* it is in the loop of ApplyChanges.
LocksOK ==
  /\ \A c \in Caller : pc[c] # "idle" <=> syncMu = c
  /\ psLocked <=> \E c \in Caller : pc[c] = "upserting"
  /\ ~psLocked => upsertQ = {}
  /\ \A c \in Caller : /\ pc[c] \in {"ready", "configure"} => op[c] # "none"
                       /\ pc[c] \in {"commit", "stats"} => op[c] \in PartialOps \cup {"full"}
                       /\ pc[c] = "upserting" => op[c] \in PartialOps

\* Before New there is nothing; the manager is closed once the backend stops.
LifeOK ==
  /\ state = "none" => peers = NoPeers /\ emailToKey = NoEmails /\ syncMu = Nobody
  /\ manager \/ client => state = "running"

\* In the loop of ApplyChanges: what is stored belongs to the goal or will be
\* replaced by an upsert of its key, and the goal is stored or still to come.
LoopPlan(g) ==
  /\ \A p \in GetAll : p \in g \/ \E q \in upsertQ : q.key = p.key
  /\ \A q \in g : q \in upsertQ \/ peers[q.key] = q
  /\ upsertQ \subseteq g

\* What a caller relies on at the place where it is.
PlanOK(c) ==
  /\ DistinctSet(goal[c])
  /\ pc[c] \in Waiting /\ op[c] = "full" =>
       diff[c].target = goal[c] /\ \E u \in Updates : goal[c] = u.peers
  /\ pc[c] \in Waiting /\ op[c] = "restart" => diff[c].target = GetAll /\ goal[c] = GetAll
  /\ pc[c] \in Waiting /\ op[c] \in PartialOps =>
       /\ StorePlan(diff[c], goal[c])
       /\ KernelPlan(diff[c], goal[c])
       /\ MergePlan(goal[c])
  /\ pc[c] = "upserting" => LoopPlan(goal[c])
  /\ pc[c] = "stats" => GetAll = goal[c]

SyncInv == StoreInv /\ SyncTypeOK /\ LocksOK /\ LifeOK /\ \A c \in Caller : PlanOK(c)

\* Nobody's goal has an IP twice, nor has the store outside of ApplyChanges.
IPsOK ==
  /\ \A c \in Caller : DisjointSet(goal[c])
  /\ ~psLocked => DisjointSet(GetAll)

\* The device has the stored peers, and from the kernel call of a sync to its
\* end the peers of its goal.
Configured == \E c \in Caller : pc[c] \in {"commit", "upserting", "stats"}
DeviceOK ==
  state = "running" /\ ~dirty =>
    /\ ~Configured => Holds(device, GetAll)
    /\ \A c \in Caller : pc[c] \in {"commit", "upserting", "stats"} => Holds(device, goal[c])

KernelInv == IPsOK /\ DeviceOK

-----------------------------------------------------------------------------
(* Steps that do not write the store.                                      *)

\* The holder of syncMu is the only caller under way.
LEMMA Alone ==
  ASSUME SyncInv, NEW c \in Caller, pc[c] # "idle"
  PROVE  /\ syncMu = c /\ state # "none"
         /\ \A x \in Caller : x # c => pc[x] = "idle"
         /\ psLocked <=> pc[c] = "upserting"
<1>1. syncMu = c /\ \A x \in Caller : x # c => pc[x] = "idle"
  BY DEF SyncInv, LocksOK
<1>2. state # "none"
  BY <1>1, WireGuardAssumption DEF SyncInv, LifeOK
<1> QED BY <1>1, <1>2 DEF SyncInv, LocksOK

(* The empty plan is a plan. *)
LEMMA NoDiffType == NoDiff \in Diff
BY DEF NoDiff, Diff

\* The device and its history keep their types.
DeviceTypes ==
  device \in [Key -> (SUBSET IP) \cup {NoPeer}] /\ errors \in 0..MaxKernelErrors /\ dirty \in BOOLEAN

\* A caller that returns leaves nobody under way.
LEMMA ReturnStep ==
  ASSUME SyncInv, NEW c \in Caller, pc[c] \in {"ready", "configure", "stats"}, Return(c),
         UNCHANGED <<psVars, lifeVars>>, DeviceTypes'
  PROVE  SyncInv'
<1>1. /\ syncMu = c /\ state # "none" /\ ~psLocked
      /\ \A x \in Caller : x # c => pc[x] = "idle"
  BY Alone
<1>2. /\ peers' = peers /\ emailToKey' = emailToKey /\ upsertQ' = upsertQ /\ removed' = removed
      /\ psLocked' = psLocked /\ state' = state /\ manager' = manager /\ client' = client
  BY DEF psVars, lifeVars
<1>3. StoreInv'
  BY <1>2 DEF SyncInv, StoreInv, PeerStoreTypeOK, OneToOne
<1>4. SyncTypeOK'
  BY <1>2, NoDiffType DEF SyncInv, SyncTypeOK, DeviceTypes, Return
<1>5. syncMu' = Nobody /\ \A x \in Caller : pc'[x] = "idle"
  BY <1>1 DEF SyncInv, SyncTypeOK, Return
<1>6. LocksOK'
  BY <1>1, <1>2, <1>5, WireGuardAssumption DEF SyncInv, LocksOK
<1>7. LifeOK'
  BY <1>1, <1>2 DEF SyncInv, LifeOK
<1>8. \A x \in Caller : DistinctSet(goal[x])
  BY DEF SyncInv, PlanOK
<1>9. \A x \in Caller : goal'[x] = goal[x] \/ goal'[x] = {}
  BY DEF SyncInv, SyncTypeOK, Return
<1>10. \A x \in Caller : DistinctSet(goal'[x])
  BY <1>8, <1>9 DEF DistinctSet
<1>11. \A x \in Caller : PlanOK(x)'
  BY <1>5, <1>10 DEF PlanOK, Waiting, DistinctSet
<1> QED BY <1>3, <1>4, <1>6, <1>7, <1>11 DEF SyncInv

\* A caller with a plan goes on to the next place before the store is written.
LEMMA GotoStep ==
  ASSUME SyncInv, NEW c \in Caller, NEW place,
         \/ pc[c] = "ready" /\ place = "configure"
         \/ pc[c] = "configure" /\ place = "commit" /\ op[c] \in PartialOps \cup {"full"},
         Goto(c, place), UNCHANGED <<psVars, lifeVars>>, DeviceTypes'
  PROVE  SyncInv'
<1>1. /\ syncMu = c /\ state # "none" /\ ~psLocked
      /\ \A x \in Caller : x # c => pc[x] = "idle"
  BY Alone
<1>2. /\ peers' = peers /\ emailToKey' = emailToKey /\ upsertQ' = upsertQ /\ removed' = removed
      /\ psLocked' = psLocked /\ state' = state /\ manager' = manager /\ client' = client
      /\ syncMu' = syncMu /\ op' = op /\ diff' = diff /\ goal' = goal
  BY DEF psVars, lifeVars, Goto
<1>3. StoreInv'
  BY <1>2 DEF SyncInv, StoreInv, PeerStoreTypeOK, OneToOne
<1>4. SyncTypeOK'
  BY <1>2 DEF SyncInv, SyncTypeOK, DeviceTypes, Goto
<1>5. \A x \in Caller : pc'[x] = IF x = c THEN place ELSE "idle"
  BY <1>1 DEF SyncInv, SyncTypeOK, Goto
<1>6. LocksOK'
  <2>1. op[c] # "none"
    BY DEF SyncInv, LocksOK, PartialOps
  <2> QED BY <1>1, <1>2, <1>5, <2>1 DEF SyncInv, LocksOK
<1>7. LifeOK'
  BY <1>1, <1>2 DEF SyncInv, LifeOK
<1>8. GetAll' = GetAll
  BY <1>2 DEF GetAll
<1>9. ASSUME NEW x \in Caller PROVE PlanOK(x)'
  <2>1. DistinctSet(goal[x])'
    BY <1>2 DEF SyncInv, PlanOK, DistinctSet
  <2>2. CASE x # c
    BY <1>5, <2>1, <2>2 DEF PlanOK, Waiting
  <2>3. CASE x = c
    <3>1. PlanOK(c) /\ pc[c] \in Waiting /\ pc'[c] \in Waiting
      BY <1>5 DEF SyncInv, Waiting
    <3>2. op[c] \in PartialOps => (StorePlan(diff[c], goal[c]) /\ KernelPlan(diff[c], goal[c])
                                   /\ MergePlan(goal[c]))'
      BY <1>2, <1>8, <3>1 DEF PlanOK, StorePlan, KernelPlan, MergePlan
    <3> QED BY <1>2, <1>8, <2>1, <2>3, <3>1, <3>2 DEF PlanOK, Waiting
  <2> QED BY <2>2, <2>3
<1> QED BY <1>3, <1>4, <1>6, <1>7, <1>9 DEF SyncInv

\* A caller that takes syncMu with a good plan.
LEMMA AcquireStep ==
  ASSUME SyncInv, NEW c \in Caller, state # "none", NEW o, NEW d \in Diff, NEW g \in SUBSET PeerInfo,
         Acquire(c, o, d, g), UNCHANGED <<psVars, lifeVars, deviceVars>>,
         DistinctSet(g),
         \/ o = "full" /\ d.target = g /\ \E u \in Updates : g = u.peers
         \/ o = "restart" /\ d.target = GetAll /\ g = GetAll
         \/ o \in PartialOps /\ StorePlan(d, g) /\ KernelPlan(d, g) /\ MergePlan(g)
  PROVE  SyncInv'
<1>1. syncMu = Nobody /\ \A x \in Caller : pc[x] = "idle"
  BY WireGuardAssumption DEF SyncInv, LocksOK, Acquire
<1>2. /\ peers' = peers /\ emailToKey' = emailToKey /\ upsertQ' = upsertQ /\ removed' = removed
      /\ psLocked' = psLocked /\ state' = state /\ manager' = manager /\ client' = client
      /\ device' = device /\ errors' = errors /\ dirty' = dirty /\ ~psLocked
  BY <1>1 DEF psVars, lifeVars, deviceVars, SyncInv, LocksOK
<1>3. StoreInv'
  BY <1>2 DEF SyncInv, StoreInv, PeerStoreTypeOK, OneToOne
<1>4. /\ syncMu' = c
      /\ \A x \in Caller : x # c => pc'[x] = "idle"
      /\ pc'[c] \in {"ready", "commit"} /\ (pc'[c] = "commit" => o \in PartialOps)
      /\ op'[c] = o /\ diff'[c] = d /\ goal'[c] = g
      /\ \A x \in Caller : x # c => goal'[x] = goal[x]
  BY <1>1 DEF SyncInv, SyncTypeOK, Acquire, PartialOps
<1>5. SyncTypeOK'
  <2>1. pc' \in [Caller -> {"idle", "ready", "configure", "commit", "upserting", "stats"}]
    BY DEF SyncInv, SyncTypeOK, Acquire
  <2>2. op' \in [Caller -> {"none", "full", "partial", "updateRestart", "restart"}]
    BY DEF SyncInv, SyncTypeOK, Acquire, PartialOps
  <2>3. goal' \in [Caller -> SUBSET PeerInfo] /\ diff' \in [Caller -> Diff]
    BY DEF SyncInv, SyncTypeOK, Acquire
  <2> QED BY <1>2, <1>4, <2>1, <2>2, <2>3 DEF SyncInv, SyncTypeOK
<1>6. LocksOK'
  <2>1. o # "none"
    BY DEF PartialOps
  <2> QED BY <1>1, <1>2, <1>4, <2>1, WireGuardAssumption DEF SyncInv, LocksOK
<1>7. LifeOK'
  BY <1>2 DEF SyncInv, LifeOK
<1>8. GetAll' = GetAll
  BY <1>2 DEF GetAll
<1>9. ASSUME NEW x \in Caller PROVE PlanOK(x)'
  <2>1. CASE x # c
    <3>1. DistinctSet(goal[x])'
      BY <1>4, <2>1 DEF SyncInv, PlanOK, DistinctSet
    <3> QED BY <1>4, <2>1, <3>1 DEF PlanOK, Waiting
  <2>2. CASE x = c
    <3>1. DistinctSet(goal[c])'
      BY <1>4 DEF DistinctSet
    <3>2. o \in PartialOps => (StorePlan(diff[c], goal[c]) /\ KernelPlan(diff[c], goal[c])
                               /\ MergePlan(goal[c]))'
      BY <1>2, <1>4, <1>8 DEF StorePlan, KernelPlan, MergePlan, PartialOps
    <3> QED BY <1>4, <1>8, <2>2, <3>1, <3>2 DEF PlanOK, Waiting, PartialOps
  <2> QED BY <2>1, <2>2
<1> QED BY <1>3, <1>5, <1>6, <1>7, <1>9 DEF SyncInv

(* The plan of a restart is a plan whose target is the whole store. *)
LEMMA RestartDiffType ==
  ASSUME GetAll \in SUBSET PeerInfo
  PROVE  RestartDiff \in Diff /\ RestartDiff.target = GetAll
BY DEF RestartDiff, NoDiff, Diff

\* What a request acquires syncMu with.  The partial sync's goal has no IP
\* twice when the store has none and UniqueIPs holds.
LEMMA CallPlans ==
  ASSUME CanonicalKeys, SyncInv, NEW c \in Caller, Call(c)
  PROVE  /\ state # "none" /\ UNCHANGED <<psVars, lifeVars, deviceVars>>
         /\ \E o \in SyncOps, d \in Diff, g \in SUBSET PeerInfo :
              /\ Acquire(c, o, d, g)
              /\ DistinctSet(g)
              /\ UniqueIPs /\ DisjointSet(GetAll) => DisjointSet(g)
              /\ \/ o = "full" /\ d.target = g /\ \E u \in Updates : g = u.peers
                 \/ o = "restart" /\ d.target = GetAll /\ g = GetAll
                 \/ o \in PartialOps /\ StorePlan(d, g) /\ KernelPlan(d, g) /\ MergePlan(g)
<1>1. GetAll \in SUBSET PeerInfo /\ DistinctSet(GetAll)
  BY StoreFacts DEF SyncInv
<1>2. CASE \E r \in Requests : syncUsersFull(c, r)
  <2>1. PICK r \in Requests : syncUsersFull(c, r)
    BY <1>2
  <2> DEFINE d == buildSyncDiff(GetAll, collectDesiredPeers(normalizeUsers(r)))
  <2>2. /\ state # "none" /\ UNCHANGED <<psVars, lifeVars, deviceVars>>
        /\ ~collectFails(normalizeUsers(r)) /\ Acquire(c, "full", d, d.target)
    BY <2>1 DEF syncUsersFull
  <2>3. /\ d \in Diff /\ DistinctSet(d.target) /\ DisjointSet(d.target)
        /\ [emails |-> {u.email : u \in normalizeUsers(r)}, peers |-> d.target] \in Updates
    BY <1>1, <2>2, FullPlanned
  <2> HIDE DEF d
  <2>4. \E u \in Updates : d.target = u.peers
    BY <2>3
  <2>5. d.target \in SUBSET PeerInfo
    BY <2>3 DEF Diff
  <2>6. "full" \in SyncOps
    BY DEF SyncOps
  <2> QED BY <2>2, <2>3, <2>4, <2>5, <2>6
<1>3. CASE \E r \in Requests, o \in PartialOps : syncUsersPartialReconcile(c, o, r)
  <2>1. PICK r \in Requests, o \in PartialOps : syncUsersPartialReconcile(c, o, r)
    BY <1>3
  <2> DEFINE touched == {u.email : u \in normalizeUsers(r)}
             existing == {GetByEmail(e) : e \in {f \in touched : GetByEmail(f) # NoPeer}}
             desired == collectDesiredPeers(normalizeUsers(r))
             untouched == {p \in GetAll : p.email \notin touched}
             d == buildSyncDiff(existing, desired)
             g == untouched \cup d.target
  <2>2. /\ state # "none" /\ UNCHANGED <<psVars, lifeVars, deviceVars>>
        /\ ~collectFails(normalizeUsers(r)) /\ ~KeyTaken(desired, touched)
        /\ UniqueIPs => \A t \in desired, p \in untouched : Range(t.peer.ips) \cap Range(p.ips) = {}
        /\ Acquire(c, o, d, g)
    BY <2>1 DEF syncUsersPartialReconcile
  <2>3. /\ d \in Diff /\ g \subseteq PeerInfo /\ DistinctSet(g)
        /\ StorePlan(d, g) /\ KernelPlan(d, g) /\ MergePlan(g)
        /\ /\ DisjointSet(GetAll)
           /\ \A t \in desired, p \in untouched : Range(t.peer.ips) \cap Range(p.ips) = {}
           => DisjointSet(g)
    <3>1. StoreInv
      BY DEF SyncInv
    <3> QED BY <2>2, <3>1, PartialPlanned
  <2>4. UniqueIPs /\ DisjointSet(GetAll) => DisjointSet(g)
    BY <2>2, <2>3
  <2> HIDE DEF d, g
  <2>5. o \in SyncOps
    BY DEF SyncOps, PartialOps
  <2> QED BY <2>2, <2>3, <2>4, <2>5
<1>4. CASE Restart(c)
  <2>1. /\ state # "none" /\ UNCHANGED <<psVars, lifeVars, deviceVars>>
        /\ Acquire(c, "restart", RestartDiff, GetAll)
    BY <1>4 DEF Restart
  <2>2. RestartDiff \in Diff /\ RestartDiff.target = GetAll
    BY <1>1, RestartDiffType
  <2>3. "restart" \in SyncOps
    BY DEF SyncOps
  <2> QED BY <1>1, <2>1, <2>2, <2>3
<1> QED BY <1>2, <1>3, <1>4 DEF Call, PartialOps

(* Making a call, with the plan it computes from the store, keeps the
   invariant. *)
LEMMA CallStep ==
  ASSUME CanonicalKeys, SyncInv, NEW c \in Caller, Call(c)
  PROVE  SyncInv'
<1>1. PICK o \in SyncOps, d \in Diff, g \in SUBSET PeerInfo :
        /\ Acquire(c, o, d, g)
        /\ DistinctSet(g)
        /\ \/ o = "full" /\ d.target = g /\ \E u \in Updates : g = u.peers
           \/ o = "restart" /\ d.target = GetAll /\ g = GetAll
           \/ o \in PartialOps /\ StorePlan(d, g) /\ KernelPlan(d, g) /\ MergePlan(g)
  BY CallPlans
<1>2. state # "none" /\ UNCHANGED <<psVars, lifeVars, deviceVars>>
  BY CallPlans
<1> QED BY <1>1, <1>2, AcquireStep

-----------------------------------------------------------------------------
(* Steps that call the kernel.                                             *)

(* An incremental configuration leaves a device of the right type. *)
LEMMA ReconfigureType ==
  ASSUME device \in [Key -> (SUBSET IP) \cup {NoPeer}],
         NEW r \in SUBSET PeerInfo, NEW a \in SUBSET PeerInfo, NEW rm
  PROVE  Reconfigure(r, a, rm) \in [Key -> (SUBSET IP) \cup {NoPeer}]
<1> DEFINE configs == r \cup a
           taken(k) == UNION {Range(p.ips) : p \in {q \in configs : q.key # k}}
           kept(k) == IF device[k] = NoPeer \/ \E p \in r : p.key = k THEN {} ELSE device[k]
           new(k) == IF k \in rm THEN NoPeer
                     ELSE IF \E p \in configs : p.key = k
                       THEN (kept(k) \ taken(k)) \cup IPsOf(configs, k)
                     ELSE IF device[k] = NoPeer THEN NoPeer ELSE device[k] \ taken(k)
<1>1. Reconfigure(r, a, rm) = [k \in Key |-> new(k)]
  BY DEF Reconfigure
<1>2. ASSUME NEW k \in Key PROVE new(k) \in (SUBSET IP) \cup {NoPeer}
  <2>1. IPsOf(configs, k) \subseteq IP
    BY ConfiguredIPs
  <2>2. kept(k) \subseteq IP
    OBVIOUS
  <2>3. device[k] # NoPeer => device[k] \subseteq IP
    OBVIOUS
  <2> HIDE DEF taken, kept, configs
  <2>4. (kept(k) \ taken(k)) \cup IPsOf(configs, k) \in SUBSET IP
    BY <2>1, <2>2
  <2>5. device[k] # NoPeer => device[k] \ taken(k) \in SUBSET IP
    BY <2>3
  <2> QED BY <2>4, <2>5
<1> HIDE DEF new
<1> QED BY <1>1, <1>2

\* Lists of any part of a target, for a kernel call that fails half way.
LEMMA OrdersRange ==
  ASSUME NEW S, NEW list \in Orders(S)
  PROVE  Range(list) \subseteq S
BY DEF Orders, Bijection, Injection, Range

(* The calls that configure the device touch neither the store nor the life
   cycle. *)
LEMMA KernelTypes ==
  ASSUME SyncInv, NEW c \in Caller, ApplyPeers(c) \/ ApplyPeersReplaceAll(c) \/ KernelError(c)
  PROVE  DeviceTypes' /\ UNCHANGED <<psVars, lifeVars>>
<1>1. /\ diff[c] \in Diff /\ device \in [Key -> (SUBSET IP) \cup {NoPeer}]
      /\ errors \in 0..MaxKernelErrors /\ dirty \in BOOLEAN
  BY DEF SyncInv, SyncTypeOK
<1>2. /\ diff[c].replaceIPs \in SUBSET PeerInfo /\ diff[c].add \in SUBSET PeerInfo
      /\ diff[c].target \in SUBSET PeerInfo
  BY <1>1 DEF Diff
<1>3. \A S \in SUBSET PeerInfo : \A list \in Orders(S) :
        ReplacePeers(list) \in [Key -> (SUBSET IP) \cup {NoPeer}]
  <2> SUFFICES ASSUME NEW S \in SUBSET PeerInfo, NEW list \in Orders(S)
               PROVE  ReplacePeers(list) \in [Key -> (SUBSET IP) \cup {NoPeer}]
    OBVIOUS
  <2>1. Range(list) \subseteq PeerInfo
    BY OrdersRange
  <2> QED BY <2>1, ReplacePeersType
<1>4. CASE ApplyPeers(c)
  <2>1. /\ device' = Reconfigure(diff[c].replaceIPs, diff[c].add, diff[c].remove)
        /\ errors' = errors /\ dirty' = dirty /\ UNCHANGED <<psVars, lifeVars>>
    BY <1>4 DEF ApplyPeers
  <2> QED BY <1>1, <1>2, <2>1, ReconfigureType DEF DeviceTypes
<1>5. CASE ApplyPeersReplaceAll(c)
  <2>1. PICK list \in Orders(diff[c].target) : device' = ReplacePeers(list)
    BY <1>5 DEF ApplyPeersReplaceAll
  <2>2. errors' = errors /\ dirty' = FALSE /\ UNCHANGED <<psVars, lifeVars>>
    BY <1>5 DEF ApplyPeersReplaceAll
  <2> QED BY <1>1, <1>2, <1>3, <2>1, <2>2 DEF DeviceTypes
<1>6. CASE KernelError(c)
  <2>1. /\ errors < MaxKernelErrors /\ errors' = errors + 1 /\ dirty' = TRUE
        /\ UNCHANGED <<psVars, lifeVars>>
    BY <1>6 DEF KernelError
  <2>2. \/ \E r \in SUBSET diff[c].replaceIPs, a \in SUBSET diff[c].add, rm \in SUBSET diff[c].remove :
             device' = Reconfigure(r, a, rm)
        \/ \E S \in SUBSET diff[c].target : \E list \in Orders(S) : device' = ReplacePeers(list)
        \/ device' = device
    BY <1>6 DEF KernelError
  <2>3. device' \in [Key -> (SUBSET IP) \cup {NoPeer}]
    <3>1. ASSUME NEW r \in SUBSET diff[c].replaceIPs, NEW a \in SUBSET diff[c].add,
                 NEW rm \in SUBSET diff[c].remove, device' = Reconfigure(r, a, rm)
          PROVE  device' \in [Key -> (SUBSET IP) \cup {NoPeer}]
      <4>1. r \in SUBSET PeerInfo /\ a \in SUBSET PeerInfo
        BY <1>2
      <4> QED BY <1>1, <3>1, <4>1, ReconfigureType
    <3>2. ASSUME NEW S \in SUBSET diff[c].target, NEW list \in Orders(S), device' = ReplacePeers(list)
          PROVE  device' \in [Key -> (SUBSET IP) \cup {NoPeer}]
      <4>1. S \in SUBSET PeerInfo
        BY <1>2
      <4> QED BY <1>3, <3>2, <4>1
    <3> QED BY <1>1, <2>2, <3>1, <3>2
  <2>4. errors' \in 0..MaxKernelErrors
    BY <1>1, <2>1, WireGuardAssumption
  <2> QED BY <2>1, <2>3, <2>4 DEF DeviceTypes
<1> QED BY <1>4, <1>5, <1>6

(* The steps of a call before its commit keep the invariant. *)
LEMMA KernelStep ==
  ASSUME SyncInv, NEW c \in Caller,
         \/ EnsureRunning(c) \/ ConfigureClosed(c)
         \/ ApplyPeers(c) \/ ApplyPeersReplaceAll(c) \/ KernelError(c)
  PROVE  SyncInv'
<1>1. CASE EnsureRunning(c) \/ ConfigureClosed(c)
  <2>1. /\ UNCHANGED <<psVars, lifeVars, deviceVars>>
        /\ \/ pc[c] = "ready" /\ Goto(c, "configure")
           \/ pc[c] \in {"ready", "configure"} /\ Return(c)
    BY <1>1 DEF EnsureRunning, ConfigureClosed
  <2>2. DeviceTypes' /\ UNCHANGED <<psVars, lifeVars>>
    BY <2>1 DEF deviceVars, DeviceTypes, SyncInv, SyncTypeOK
  <2> QED BY <2>1, <2>2, GotoStep, ReturnStep
<1>2. CASE ApplyPeers(c) \/ ApplyPeersReplaceAll(c) \/ KernelError(c)
  <2>1. DeviceTypes' /\ UNCHANGED <<psVars, lifeVars>>
    BY <1>2, KernelTypes
  <2>2. /\ pc[c] = "configure"
        /\ \/ op[c] \in PartialOps \cup {"full"} /\ Goto(c, "commit")
           \/ Return(c)
    BY <1>2 DEF ApplyPeers, ApplyPeersReplaceAll, KernelError, PartialOps
  <2> QED BY <2>1, <2>2, GotoStep, ReturnStep
<1> QED BY <1>1, <1>2

-----------------------------------------------------------------------------
(* Steps that write the store.                                             *)

\* The facts about locks and places that each of these steps leaves, for the
\* caller c that goes to place.
LEMMA StorePlaces ==
  ASSUME SyncInv, NEW c \in Caller, NEW place,
         \/ pc[c] = "commit" /\ op[c] = "full" /\ place = "stats"
         \/ pc[c] = "commit" /\ op[c] \in PartialOps /\ place = "upserting"
         \/ pc[c] = "upserting" /\ place \in {"upserting", "stats"},
         pc' = [pc EXCEPT ![c] = place], UNCHANGED <<syncMu, op, diff, goal, lifeVars, deviceVars>>,
         psLocked' <=> place = "upserting", ~psLocked' => upsertQ' = {}
  PROVE  /\ SyncTypeOK' /\ LocksOK' /\ LifeOK'
         /\ \A x \in Caller : x # c => PlanOK(x)'
         /\ pc'[c] = place /\ goal'[c] = goal[c] /\ DistinctSet(goal[c]) /\ goal[c] \subseteq PeerInfo
<1>1. /\ syncMu = c /\ state # "none"
      /\ \A x \in Caller : x # c => pc[x] = "idle"
  <2>1. pc[c] # "idle"
    OBVIOUS
  <2> QED BY <2>1, Alone
<1>2. /\ state' = state /\ manager' = manager /\ client' = client
      /\ device' = device /\ errors' = errors /\ dirty' = dirty
      /\ syncMu' = syncMu /\ op' = op /\ diff' = diff /\ goal' = goal
  BY DEF lifeVars, deviceVars
<1>3. SyncTypeOK'
  <2>1. pc' \in [Caller -> {"idle", "ready", "configure", "commit", "upserting", "stats"}]
    BY DEF SyncInv, SyncTypeOK
  <2> QED BY <1>2, <2>1 DEF SyncInv, SyncTypeOK
<1>4. \A x \in Caller : pc'[x] = IF x = c THEN place ELSE "idle"
  BY <1>1 DEF SyncInv, SyncTypeOK
<1>5. LocksOK'
  <2>1. op[c] \in PartialOps \cup {"full"} /\ (place = "upserting" => op[c] \in PartialOps)
    BY DEF SyncInv, LocksOK
  <2>2. place \in {"upserting", "stats"}
    OBVIOUS
  <2>3. \A x \in Caller : pc'[x] # "idle" <=> syncMu' = x
    BY <1>1, <1>2, <1>4, <2>2
  <2>4. psLocked' <=> \E x \in Caller : pc'[x] = "upserting"
    BY <1>4
  <2>5. \A x \in Caller : /\ pc'[x] \in {"ready", "configure"} => op'[x] # "none"
                          /\ pc'[x] \in {"commit", "stats"} => op'[x] \in PartialOps \cup {"full"}
                          /\ pc'[x] = "upserting" => op'[x] \in PartialOps
    BY <1>2, <1>4, <2>1, <2>2
  <2> QED BY <2>3, <2>4, <2>5 DEF LocksOK
<1>6. LifeOK'
  BY <1>1, <1>2 DEF SyncInv, LifeOK
<1>7. \A x \in Caller : DistinctSet(goal[x]) /\ goal[x] \subseteq PeerInfo
  BY DEF SyncInv, PlanOK, SyncTypeOK
<1>8. \A x \in Caller : x # c => PlanOK(x)'
  BY <1>2, <1>4, <1>7 DEF PlanOK, Waiting, DistinctSet
<1> QED BY <1>2, <1>3, <1>4, <1>5, <1>6, <1>7, <1>8

\* ReplaceAll leaves the goal in the store.
LEMMA CommitFullStep ==
  ASSUME SyncInv, NEW c \in Caller, CommitFull(c)
  PROVE  SyncInv' /\ GetAll' = goal[c]
<1>1. /\ pc[c] = "commit" /\ op[c] = "full" /\ ~psLocked
      /\ diff[c].target = goal[c] /\ DistinctSet(goal[c]) /\ goal[c] \in SUBSET PeerInfo
  BY DEF CommitFull, SyncInv, PlanOK, Waiting, SyncTypeOK, ReplaceAll
<1>2. PICK list \in Orders(goal[c]) : ReplaceAll(list)
  BY <1>1 DEF CommitFull
<1>3. IsPeerList(list) /\ {list[i] : i \in DOMAIN list} = goal[c]
  BY <1>1, OrdersArePeerLists
<1>4. /\ OneToOne' /\ peers' \in [Key -> PeerInfo \cup {NoPeer}]
      /\ emailToKey' \in [Email -> Key \cup {NoKey}]
      /\ GetAll' = goal[c]
  BY <1>2, <1>3, BulkOneToOne DEF ReplaceAll
<1>5. StoreInv'
  BY <1>2, <1>4 DEF StoreInv, PeerStoreTypeOK, ReplaceAll, SyncInv
<1>6. /\ pc' = [pc EXCEPT ![c] = "stats"] /\ UNCHANGED <<syncMu, op, diff, goal, lifeVars, deviceVars>>
      /\ ~psLocked' /\ upsertQ' = {}
  <2>1. upsertQ' = upsertQ /\ psLocked' = psLocked
    BY <1>2 DEF ReplaceAll
  <2>2. upsertQ = {}
    BY <1>1 DEF SyncInv, LocksOK
  <2> QED BY <1>1, <2>1, <2>2 DEF CommitFull, Goto
<1>7. /\ SyncTypeOK' /\ LocksOK' /\ LifeOK'
      /\ \A x \in Caller : x # c => PlanOK(x)'
      /\ pc'[c] = "stats" /\ goal'[c] = goal[c]
  BY <1>1, <1>6, StorePlaces
<1>8. PlanOK(c)'
  BY <1>1, <1>4, <1>7 DEF PlanOK, Waiting, DistinctSet
<1> QED BY <1>4, <1>5, <1>7, <1>8 DEF SyncInv

\* The removal loop of ApplyChanges leaves what the upserts need.
LEMMA CommitPartialStep ==
  ASSUME SyncInv, NEW c \in Caller, CommitPartial(c)
  PROVE  SyncInv'
<1> DEFINE d == diff[c]
           g == goal[c]
<1>1. /\ pc[c] = "commit" /\ op[c] \in PartialOps /\ ~psLocked
      /\ DistinctSet(g) /\ g \in SUBSET PeerInfo /\ d \in Diff
      /\ StorePlan(d, g)
  BY DEF CommitPartial, SyncInv, PlanOK, Waiting, SyncTypeOK, ApplyChanges, PartialOps
<1>2. d.remove \in SUBSET Key /\ d.upsert \in SUBSET PeerInfo /\ ApplyChanges(d.remove, d.upsert)
  BY <1>1 DEF CommitPartial, Diff
<1>3. StoreInv /\ StoreInv'
  BY <1>2, RemovalStep DEF SyncInv
<1>4. /\ pc' = [pc EXCEPT ![c] = "upserting"] /\ UNCHANGED <<syncMu, op, diff, goal, lifeVars, deviceVars>>
      /\ psLocked' = TRUE
  BY <1>2 DEF CommitPartial, Goto, ApplyChanges
<1>5. /\ SyncTypeOK' /\ LocksOK' /\ LifeOK'
      /\ \A x \in Caller : x # c => PlanOK(x)'
      /\ pc'[c] = "upserting" /\ goal'[c] = g
  BY <1>1, <1>4, StorePlaces
<1>6. \A k \in Key : peers'[k] = IF k \in d.remove THEN NoPeer ELSE peers[k]
  BY <1>2 DEF ApplyChanges
<1>7. upsertQ' = d.upsert
  BY <1>2 DEF ApplyChanges
<1>8. \A p : p \in GetAll <=> p \in PeerInfo /\ peers[p.key] = p
  BY <1>3, StoreFacts
<1>9. \A p \in GetAll' : p \in PeerInfo /\ peers'[p.key] = p
  <2>1. /\ peers' \in [Key -> PeerInfo \cup {NoPeer}]
        /\ \A k \in Key : peers'[k] # NoPeer => peers'[k].key = k
    BY <1>3 DEF StoreInv, PeerStoreTypeOK, OneToOne
  <2> QED BY <2>1 DEF GetAll
<1>10. \A p \in PeerInfo : p.key \in Key /\ p # NoPeer
  BY PeerStoreAssumption DEF PeerInfo
<1>11. LoopPlan(g)'
  <2> HIDE DEF d, g
  <2>1. \A p \in GetAll' : p \in g \/ \E q \in d.upsert : q.key = p.key
    <3> SUFFICES ASSUME NEW p \in GetAll' PROVE p \in g \/ \E q \in d.upsert : q.key = p.key
      OBVIOUS
    <3>1. p \in PeerInfo /\ p.key \in Key /\ p # NoPeer /\ peers'[p.key] = p
      BY <1>9, <1>10
    <3>2. p.key \notin d.remove /\ peers[p.key] = p
      BY <1>6, <3>1
    <3> QED BY <1>1, <1>8, <3>1, <3>2 DEF StorePlan
  <2>2. \A q \in g : q \in d.upsert \/ peers'[q.key] = q
    BY <1>1, <1>6, <1>10 DEF StorePlan
  <2>3. d.upsert \subseteq g
    BY <1>1 DEF StorePlan
  <2>4. g' = g
    BY <1>5 DEF g
  <2> QED BY <1>7, <2>1, <2>2, <2>3, <2>4 DEF LoopPlan
<1>12. PlanOK(c)'
  BY <1>1, <1>5, <1>11 DEF PlanOK, Waiting, DistinctSet
<1> QED BY <1>3, <1>5, <1>12 DEF SyncInv

\* An iteration of the upsert loop writes one key and may clear another.
LEMMA UpsertWrites ==
  ASSUME StoreInv, NEW p \in upsertQ, Upsert(p)
  PROVE  /\ peers'[p.key] = p
         /\ \A k \in Key : k # p.key => peers'[k] = peers[k] \/ peers'[k] = NoPeer
<1>1. p.key \in Key /\ p.email \in Email /\ peers \in [Key -> PeerInfo \cup {NoPeer}]
      /\ emailToKey[p.email] \in Key \cup {NoKey}
  BY DEF StoreInv, PeerStoreTypeOK, PeerInfo
<1>2. /\ WithoutOldKey(p) \in [Key -> PeerInfo \cup {NoPeer}]
      /\ \A k \in Key : WithoutOldKey(p)[k] = peers[k] \/ WithoutOldKey(p)[k] = NoPeer
  BY <1>1 DEF WithoutOldKey
<1>3. peers' = [WithoutOldKey(p) EXCEPT ![p.key] = p]
  BY DEF Upsert
<1> QED BY <1>1, <1>2, <1>3

\* An upsert puts its peer of the goal in place and takes no other away: two
\* peers of the goal compete neither for a key nor for an email.
LEMMA CommitUpsertStep ==
  ASSUME SyncInv, NEW c \in Caller, CommitUpsert(c)
  PROVE  SyncInv'
<1> DEFINE g == goal[c]
<1>1. /\ pc[c] = "upserting" /\ DistinctSet(g) /\ g \in SUBSET PeerInfo
      /\ LoopPlan(g) /\ StoreInv /\ pc \in [Caller -> {"idle", "ready", "configure", "commit", "upserting", "stats"}]
  BY DEF CommitUpsert, SyncInv, PlanOK, SyncTypeOK
<1>2. PICK p \in upsertQ : Upsert(p)
  BY DEF CommitUpsert
<1>3. /\ StoreInv'
      /\ \A k \in Key : peers[k] # NoPeer /\ peers[k].email # p.email /\ k # p.key
           => peers'[k] = peers[k]
  BY <1>1, <1>2, UpsertStep
<1>4. /\ peers'[p.key] = p
      /\ \A k \in Key : k # p.key => peers'[k] = peers[k] \/ peers'[k] = NoPeer
  BY <1>1, <1>2, UpsertWrites
<1>5. /\ pc' = [pc EXCEPT ![c] = "upserting"] /\ UNCHANGED <<syncMu, op, diff, goal, lifeVars, deviceVars>>
      /\ psLocked' = TRUE /\ upsertQ' = upsertQ \ {p}
  BY <1>1, <1>2 DEF CommitUpsert, Upsert, syncVars, SyncInv, StoreInv, PeerStoreTypeOK
<1>6. /\ SyncTypeOK' /\ LocksOK' /\ LifeOK'
      /\ \A x \in Caller : x # c => PlanOK(x)'
      /\ pc'[c] = "upserting" /\ goal'[c] = g
  BY <1>1, <1>5, StorePlaces
<1>7. \A q : q \in GetAll <=> q \in PeerInfo /\ peers[q.key] = q
  BY <1>1, StoreFacts
<1>8. \A q \in GetAll' : q \in PeerInfo /\ peers'[q.key] = q
  <2>1. /\ peers' \in [Key -> PeerInfo \cup {NoPeer}]
        /\ \A k \in Key : peers'[k] # NoPeer => peers'[k].key = k
    BY <1>3 DEF StoreInv, PeerStoreTypeOK, OneToOne
  <2> QED BY <2>1 DEF GetAll
<1>9. \A q \in PeerInfo : q.key \in Key /\ q # NoPeer
  BY PeerStoreAssumption DEF PeerInfo
<1>10. /\ \A q \in GetAll : q \in g \/ \E r \in upsertQ : r.key = q.key
       /\ \A q \in g : q \in upsertQ \/ peers[q.key] = q
       /\ upsertQ \subseteq g
       /\ \A q, r \in g : q.key = r.key \/ q.email = r.email => q = r
  BY <1>1 DEF LoopPlan, DistinctSet
<1>11. LoopPlan(g)'
  <2> HIDE DEF g
  <2>1. ASSUME NEW q \in GetAll' PROVE q \in g \/ \E r \in upsertQ' : r.key = q.key
    <3>1. q \in PeerInfo /\ q.key \in Key /\ q # NoPeer /\ peers'[q.key] = q
      BY <1>8, <1>9
    <3>2. CASE q.key = p.key
      BY <1>4, <1>10, <3>1, <3>2
    <3>3. CASE q.key # p.key
      <4>1. peers[q.key] = q
        BY <1>4, <3>1, <3>3
      <4>2. q \in GetAll
        BY <1>7, <3>1, <4>1
      <4> QED BY <1>5, <1>10, <3>3, <4>2
    <3> QED BY <3>2, <3>3
  <2>2. ASSUME NEW q \in g PROVE q \in upsertQ' \/ peers'[q.key] = q
    <3>1. CASE q = p
      BY <1>4, <3>1
    <3>2. CASE q # p
      <4>1. q.key # p.key /\ q.email # p.email
        BY <1>10, <3>2
      <4>2. CASE q \in upsertQ
        BY <1>5, <3>2, <4>2
      <4>3. CASE peers[q.key] = q
        BY <1>1, <1>3, <1>9, <4>1, <4>3
      <4> QED BY <1>10, <4>2, <4>3
    <3> QED BY <3>1, <3>2
  <2>3. upsertQ' \subseteq g
    BY <1>5, <1>10
  <2>4. g' = g
    BY <1>6 DEF g
  <2> QED BY <2>1, <2>2, <2>3, <2>4 DEF LoopPlan
<1>12. PlanOK(c)'
  BY <1>1, <1>6, <1>11 DEF PlanOK, Waiting, DistinctSet
<1> QED BY <1>3, <1>6, <1>12 DEF SyncInv

\* When the loop has no upsert left, the store is the goal.
LEMMA CommitReturnStep ==
  ASSUME SyncInv, NEW c \in Caller, CommitReturn(c)
  PROVE  SyncInv' /\ GetAll' = goal[c]
<1>1. /\ pc[c] = "upserting" /\ DistinctSet(goal[c]) /\ goal[c] \in SUBSET PeerInfo
      /\ LoopPlan(goal[c]) /\ StoreInv
  BY DEF CommitReturn, SyncInv, PlanOK, SyncTypeOK
<1>2. /\ peers' = peers /\ emailToKey' = emailToKey /\ upsertQ = {} /\ upsertQ' = upsertQ
      /\ removed' = removed /\ psLocked' = FALSE
      /\ pc' = [pc EXCEPT ![c] = "stats"] /\ UNCHANGED <<syncMu, op, diff, goal, lifeVars, deviceVars>>
  BY DEF CommitReturn, ApplyChangesReturn, Goto
<1>3. StoreInv'
  BY <1>1, <1>2 DEF StoreInv, PeerStoreTypeOK, OneToOne
<1>4. GetAll' = GetAll
  BY <1>2 DEF GetAll
<1>5. GetAll = goal[c]
  <2>1. \A p : p \in GetAll <=> p \in PeerInfo /\ peers[p.key] = p
    BY <1>1, StoreFacts
  <2> QED BY <1>1, <1>2, <2>1 DEF LoopPlan
<1>6. /\ SyncTypeOK' /\ LocksOK' /\ LifeOK'
      /\ \A x \in Caller : x # c => PlanOK(x)'
      /\ pc'[c] = "stats" /\ goal'[c] = goal[c]
  <2>1. ~psLocked' /\ upsertQ' = {}
    BY <1>2
  <2>2. /\ pc' = [pc EXCEPT ![c] = "stats"]
        /\ UNCHANGED <<syncMu, op, diff, goal, lifeVars, deviceVars>>
    BY <1>2
  <2> QED BY <1>1, <2>1, <2>2, StorePlaces
<1>7. PlanOK(c)'
  BY <1>1, <1>4, <1>5, <1>6 DEF PlanOK, Waiting, DistinctSet
<1> QED BY <1>3, <1>4, <1>5, <1>6, <1>7 DEF SyncInv

\* RemoveStats, the stats loop, the queries and the traffic leave alone what
\* the invariant is about.
LEMMA StoreUntouched ==
  ASSUME SyncInv, UNCHANGED <<peers, emailToKey, upsertQ, psLocked, lifeVars, deviceVars, syncVars>>,
         removed' \subseteq removed
  PROVE  SyncInv' /\ GetAll' = GetAll
<1>1. /\ peers' = peers /\ emailToKey' = emailToKey /\ upsertQ' = upsertQ /\ psLocked' = psLocked
      /\ state' = state /\ manager' = manager /\ client' = client
      /\ device' = device /\ errors' = errors /\ dirty' = dirty
      /\ syncMu' = syncMu /\ pc' = pc /\ op' = op /\ diff' = diff /\ goal' = goal
  BY DEF lifeVars, deviceVars, syncVars
<1>2. StoreInv'
  BY <1>1 DEF SyncInv, StoreInv, PeerStoreTypeOK, OneToOne
<1>3. SyncTypeOK' /\ LocksOK' /\ LifeOK'
  BY <1>1 DEF SyncInv, SyncTypeOK, LocksOK, LifeOK
<1>4. GetAll' = GetAll
  BY <1>1 DEF GetAll
<1>5. ASSUME NEW x \in Caller PROVE PlanOK(x)'
  <2>1. PlanOK(x)
    BY DEF SyncInv
  <2>2. (StorePlan(diff[x], goal[x]) <=> StorePlan(diff[x], goal[x])')
        /\ (KernelPlan(diff[x], goal[x]) <=> KernelPlan(diff[x], goal[x])')
        /\ (MergePlan(goal[x]) <=> MergePlan(goal[x])') /\ (LoopPlan(goal[x]) <=> LoopPlan(goal[x])')
    BY <1>1, <1>4 DEF StorePlan, KernelPlan, MergePlan, LoopPlan
  <2>3. DistinctSet(goal[x])'
    BY <1>1, <2>1 DEF PlanOK, DistinctSet
  <2> QED BY <1>1, <1>4, <2>1, <2>2, <2>3 DEF PlanOK
<1> QED BY <1>2, <1>3, <1>4, <1>5 DEF SyncInv

\* A sync that is done returns, or restarts with what it has left in the store.
LEMMA SyncDoneStep ==
  ASSUME SyncInv, NEW c \in Caller, SyncDone(c)
  PROVE  SyncInv'
<1>1. pc[c] = "stats" /\ GetAll = goal[c] /\ UNCHANGED <<psVars, lifeVars, deviceVars>>
  BY DEF SyncDone, SyncInv, PlanOK
<1>2. CASE Return(c)
  <2>1. DeviceTypes' /\ UNCHANGED <<psVars, lifeVars>>
    BY <1>1 DEF deviceVars, DeviceTypes, SyncInv, SyncTypeOK
  <2> QED BY <1>1, <1>2, <2>1, ReturnStep
<1>3. CASE /\ pc' = [pc EXCEPT ![c] = "ready"]
           /\ op' = [op EXCEPT ![c] = "restart"]
           /\ diff' = [diff EXCEPT ![c] = RestartDiff]
           /\ UNCHANGED <<syncMu, goal>>
  <2>1. /\ syncMu = c /\ state # "none" /\ ~psLocked
        /\ \A x \in Caller : x # c => pc[x] = "idle"
    BY <1>1, Alone
  <2>2. /\ peers' = peers /\ emailToKey' = emailToKey /\ upsertQ' = upsertQ /\ removed' = removed
        /\ psLocked' = psLocked /\ state' = state /\ manager' = manager /\ client' = client
        /\ device' = device /\ errors' = errors /\ dirty' = dirty
        /\ syncMu' = syncMu /\ goal' = goal
    BY <1>1, <1>3 DEF psVars, lifeVars, deviceVars
  <2>3. StoreInv'
    BY <2>2 DEF SyncInv, StoreInv, PeerStoreTypeOK, OneToOne
  <2>4. RestartDiff \in Diff /\ RestartDiff.target = GetAll
    <3>1. GetAll \in SUBSET PeerInfo
      BY StoreFacts DEF SyncInv
    <3> QED BY <3>1, RestartDiffType
  <2>5. SyncTypeOK'
    <3>1. pc' \in [Caller -> {"idle", "ready", "configure", "commit", "upserting", "stats"}]
      BY <1>3 DEF SyncInv, SyncTypeOK
    <3>2. op' \in [Caller -> {"none", "full", "partial", "updateRestart", "restart"}]
      BY <1>3 DEF SyncInv, SyncTypeOK
    <3>3. diff' \in [Caller -> Diff]
      BY <1>3, <2>4 DEF SyncInv, SyncTypeOK
    <3> QED BY <2>2, <3>1, <3>2, <3>3 DEF SyncInv, SyncTypeOK
  <2>6. /\ \A x \in Caller : pc'[x] = IF x = c THEN "ready" ELSE "idle"
        /\ op'[c] = "restart" /\ diff'[c] = RestartDiff
    BY <1>3, <2>1 DEF SyncInv, SyncTypeOK
  <2>7. LocksOK'
    BY <2>1, <2>2, <2>6 DEF SyncInv, LocksOK
  <2>8. LifeOK'
    BY <2>1, <2>2 DEF SyncInv, LifeOK
  <2>9. GetAll' = GetAll
    BY <2>2 DEF GetAll
  <2>10. \A x \in Caller : DistinctSet(goal'[x])
    BY <2>2 DEF SyncInv, PlanOK
  <2>11. \A x \in Caller : x # c => PlanOK(x)'
    BY <2>2, <2>6, <2>10 DEF PlanOK, Waiting, DistinctSet
  <2>12. PlanOK(c)'
    BY <1>1, <2>2, <2>4, <2>6, <2>9, <2>10 DEF PlanOK, Waiting, PartialOps, DistinctSet
  <2> QED BY <2>3, <2>5, <2>7, <2>8, <2>11, <2>12 DEF SyncInv
<1> QED BY <1>2, <1>3 DEF SyncDone

(* Shutdown keeps the invariant and the peers in the store. *)
LEMMA ShutdownStep ==
  ASSUME SyncInv, Shutdown
  PROVE  SyncInv' /\ GetAll' = GetAll
<1>1. /\ state = "running" /\ state' = "stopped" /\ manager' = FALSE /\ client' = FALSE
      /\ peers' = peers /\ emailToKey' = emailToKey /\ upsertQ' = upsertQ /\ removed' = removed
      /\ psLocked' = psLocked
      /\ syncMu' = syncMu /\ pc' = pc /\ op' = op /\ diff' = diff /\ goal' = goal
  BY DEF Shutdown, psVars, syncVars
<1>2. device' \in [Key -> (SUBSET IP) \cup {NoPeer}] /\ errors' \in 0..MaxKernelErrors /\ dirty' \in BOOLEAN
  <2>1. /\ device' = [k \in Key |-> NoPeer] \/ device' = device
        /\ \/ errors' = errors /\ dirty' = dirty
           \/ errors < MaxKernelErrors /\ errors' = errors + 1 /\ dirty' = TRUE
    BY DEF Shutdown
  <2>2. /\ device \in [Key -> (SUBSET IP) \cup {NoPeer}] /\ errors \in 0..MaxKernelErrors
        /\ dirty \in BOOLEAN
    BY DEF SyncInv, SyncTypeOK
  <2>3. device' \in [Key -> (SUBSET IP) \cup {NoPeer}]
    BY <2>1, <2>2
  <2>4. errors' \in 0..MaxKernelErrors
    BY <2>1, <2>2, WireGuardAssumption
  <2> QED BY <2>1, <2>2, <2>3, <2>4
<1>3. StoreInv'
  BY <1>1 DEF SyncInv, StoreInv, PeerStoreTypeOK, OneToOne
<1>4. SyncTypeOK' /\ LocksOK' /\ LifeOK'
  BY <1>1, <1>2 DEF SyncInv, SyncTypeOK, LocksOK, LifeOK
<1>5. GetAll' = GetAll
  BY <1>1 DEF GetAll
<1>6. ASSUME NEW x \in Caller PROVE PlanOK(x)'
  <2>1. PlanOK(x)
    BY DEF SyncInv
  <2>2. (StorePlan(diff[x], goal[x]) <=> StorePlan(diff[x], goal[x])')
        /\ (KernelPlan(diff[x], goal[x]) <=> KernelPlan(diff[x], goal[x])')
        /\ (MergePlan(goal[x]) <=> MergePlan(goal[x])') /\ (LoopPlan(goal[x]) <=> LoopPlan(goal[x])')
    BY <1>1, <1>5 DEF StorePlan, KernelPlan, MergePlan, LoopPlan
  <2>3. DistinctSet(goal[x])'
    BY <1>1, <2>1 DEF PlanOK, DistinctSet
  <2> QED BY <1>1, <1>5, <2>1, <2>2, <2>3 DEF PlanOK
<1> QED BY <1>3, <1>4, <1>5, <1>6 DEF SyncInv

\* New fills store and device with the same peers, which a request asks for.
LEMMA NewStep ==
  ASSUME CanonicalKeys, SyncInv, NEW r \in Requests, New(r)
  PROVE  /\ SyncInv' /\ ~psLocked /\ ~psLocked' /\ \A c \in Caller : pc[c] = "idle"
         /\ \E S \in SUBSET PeerInfo :
              /\ GetAll' = S /\ DistinctSet(S) /\ DisjointSet(S)
              /\ \E u \in Updates : S = u.peers
              /\ \E list \in Orders(S) : device' = ReplacePeers(list)
<1> DEFINE d == buildSyncDiff({}, collectDesiredPeers(normalizeUsers(r)))
<1>1. /\ state = "none" /\ ~collectFails(normalizeUsers(r))
      /\ \E list \in Orders(d.target) : device' = ReplacePeers(list) /\ BulkInit(list)
      /\ state' = "running" /\ manager' = TRUE /\ client' = TRUE
      /\ UNCHANGED <<errors, dirty, syncVars>>
  BY DEF New
<1>2. /\ d \in Diff /\ DistinctSet(d.target) /\ DisjointSet(d.target)
      /\ [emails |-> {u.email : u \in normalizeUsers(r)}, peers |-> d.target] \in Updates
  <2>1. {} \in SUBSET PeerInfo
    OBVIOUS
  <2> QED BY <1>1, <2>1, FullPlanned
<1>3. d.target \in SUBSET PeerInfo
  BY <1>2 DEF Diff
<1>4. \E u \in Updates : d.target = u.peers
  BY <1>2
<1> HIDE DEF d
<1>5. PICK list \in Orders(d.target) : device' = ReplacePeers(list) /\ BulkInit(list)
  BY <1>1
<1>6. IsPeerList(list) /\ {list[i] : i \in DOMAIN list} = d.target /\ Range(list) = d.target
  BY <1>2, <1>3, OrdersArePeerLists
<1>7. peers = NoPeers /\ emailToKey = NoEmails /\ syncMu = Nobody
  BY <1>1 DEF SyncInv, LifeOK
<1>8. /\ OneToOne' /\ peers' \in [Key -> PeerInfo \cup {NoPeer}]
      /\ emailToKey' \in [Email -> Key \cup {NoKey}]
      /\ GetAll' = d.target
  BY <1>5, <1>6, <1>7, BulkOneToOne DEF BulkInit
<1>9. upsertQ' = upsertQ /\ removed' = removed /\ psLocked' = psLocked /\ ~psLocked
  BY <1>5 DEF BulkInit
<1>10. StoreInv'
  BY <1>8, <1>9 DEF StoreInv, PeerStoreTypeOK, SyncInv
<1>11. device' \in [Key -> (SUBSET IP) \cup {NoPeer}]
  BY <1>3, <1>5, <1>6, ReplacePeersType
<1>12. /\ errors' = errors /\ dirty' = dirty /\ syncMu' = syncMu /\ pc' = pc /\ op' = op
       /\ diff' = diff /\ goal' = goal
  BY <1>1 DEF syncVars
<1>13. SyncTypeOK' /\ LocksOK' /\ LifeOK'
  BY <1>1, <1>9, <1>11, <1>12 DEF SyncInv, SyncTypeOK, LocksOK, LifeOK
<1>14. \A c \in Caller : pc[c] = "idle"
  BY <1>7, WireGuardAssumption DEF SyncInv, LocksOK
<1>15. \A c \in Caller : PlanOK(c)'
  BY <1>12, <1>14 DEF SyncInv, PlanOK, Waiting, DistinctSet
<1>16. SyncInv'
  BY <1>10, <1>13, <1>15 DEF SyncInv
<1> QED BY <1>2, <1>3, <1>4, <1>5, <1>8, <1>9, <1>14, <1>16

(* The sampling loop and the stats requests touch neither store nor device. *)
LEMMA StatsUntouched ==
  ASSUME StatsNext \/ UNCHANGED vars
  PROVE  UNCHANGED <<psVars, lifeVars, deviceVars, syncVars>>
<1>1. CASE StatsLoop
  BY <1>1 DEF StatsLoop, PollStart, PollDevice, PollEmails, PollApply, PollCancelled, PollCleanup
<1>2. CASE GetUsersStats \/ UserStatsRead \/ Traffic \/ \E e \in Email : UserStatsLookup(e)
  BY <1>2 DEF GetUsersStats, UserStatsRead, Traffic, UserStatsLookup
<1>3. CASE UNCHANGED vars
  BY <1>3 DEF vars
<1> QED BY <1>1, <1>2, <1>3 DEF StatsNext

(* The invariant of synchronisation holds initially. *)
LEMMA SyncInvInit == Init => SyncInv
<1> SUFFICES ASSUME Init PROVE SyncInv
  OBVIOUS
<1>1. /\ peers = NoPeers /\ emailToKey = NoEmails /\ upsertQ = {} /\ removed = {} /\ psLocked = FALSE
      /\ state = "none" /\ manager = FALSE /\ client = FALSE
      /\ device = [k \in Key |-> NoPeer] /\ errors = 0 /\ dirty = FALSE /\ syncMu = Nobody
      /\ pc = [c \in Caller |-> "idle"] /\ op = [c \in Caller |-> "none"]
      /\ diff = [c \in Caller |-> NoDiff] /\ goal = [c \in Caller |-> {}]
  BY DEF Init, PeerStoreInit
<1>2. StoreInv
  BY <1>1, PeerStoreAssumption DEF StoreInv, PeerStoreTypeOK, OneToOne, NoPeers, NoEmails
<1>3. SyncTypeOK
  <2>1. 0 \in 0..MaxKernelErrors
    BY WireGuardAssumption
  <2>2. device \in [Key -> (SUBSET IP) \cup {NoPeer}]
    BY <1>1
  <2>3. goal \in [Caller -> SUBSET PeerInfo] /\ diff \in [Caller -> Diff]
    BY <1>1, NoDiffType
  <2> QED BY <1>1, <2>1, <2>2, <2>3 DEF SyncTypeOK
<1>4. LocksOK
  BY <1>1, WireGuardAssumption DEF LocksOK
<1>5. LifeOK
  BY <1>1 DEF LifeOK
<1>6. \A c \in Caller : PlanOK(c)
  BY <1>1 DEF PlanOK, Waiting, DistinctSet
<1> QED BY <1>2, <1>3, <1>4, <1>5, <1>6 DEF SyncInv

(* Every step keeps the invariant of synchronisation. *)
LEMMA SyncInvStep ==
  ASSUME CanonicalKeys, SyncInv, [Next]_vars
  PROVE  SyncInv'
<1>1. CASE \E r \in Requests : New(r)
  BY <1>1, NewStep
<1>2. ASSUME NEW c \in Caller, Call(c) PROVE SyncInv'
  BY <1>2, CallStep
<1>3. ASSUME NEW c \in Caller, Step(c) PROVE SyncInv'
  <2>1. CASE EnsureRunning(c) \/ ConfigureClosed(c) \/ ApplyPeers(c) \/ ApplyPeersReplaceAll(c)
             \/ KernelError(c)
    BY <2>1, KernelStep
  <2>2. CASE CommitFull(c) \/ CommitPartial(c) \/ CommitUpsert(c) \/ CommitReturn(c)
    BY <2>2, CommitFullStep, CommitPartialStep, CommitUpsertStep, CommitReturnStep
  <2>3. CASE RemoveStats(c)
    <3>1. /\ UNCHANGED <<peers, emailToKey, upsertQ, psLocked, lifeVars, deviceVars, syncVars>>
          /\ removed' \subseteq removed
      BY <2>3 DEF RemoveStats
    <3> QED BY <3>1, StoreUntouched
  <2>4. CASE SyncDone(c)
    BY <2>4, SyncDoneStep
  <2> QED BY <1>3, <2>1, <2>2, <2>3, <2>4 DEF Step
<1>4. CASE Shutdown
  BY <1>4, ShutdownStep
<1>5. CASE StatsNext \/ UNCHANGED vars
  <2>1. UNCHANGED <<psVars, lifeVars, deviceVars, syncVars>>
    BY <1>5, StatsUntouched
  <2>2. /\ UNCHANGED <<peers, emailToKey, upsertQ, psLocked, lifeVars, deviceVars, syncVars>>
        /\ removed' \subseteq removed
    BY <2>1 DEF psVars
  <2> QED BY <2>2, StoreUntouched
<1> QED BY <1>1, <1>2, <1>3, <1>4, <1>5 DEF Next, SyncNext

(* In every reachable state the store is one-to-one, the locks exclude each
   other, and the plan a call computed before it took the device's lock is
   still the plan for the store it will commit to: StoreInv, LocksOK,
   LifeOK, PlanOK. *)
THEOREM SyncInvariant ==
  ASSUME CanonicalKeys
  PROVE  Spec => []SyncInv
<1>1. SyncInv /\ [Next]_vars => SyncInv'
  BY SyncInvStep
<1> QED BY <1>1, SyncInvInit, PTL DEF Spec

\* Between the kernel call and the end of a sync the store reaches the goal: a
\* sync that reached the kernel leaves exactly what it asked for and what it
\* does not touch (user_partial_sync.go:63, user_full_sync.go:47).
THEOREM SyncsReachTheirGoal ==
  ASSUME CanonicalKeys
  PROVE  Spec => []SyncReachesGoal
<1>1. SyncInv => SyncReachesGoal
  BY DEF SyncInv, PlanOK, SyncReachesGoal
<1> QED BY <1>1, SyncInvariant, PTL

\* The 1:1 mapping of the peer store (peer_store.go:8) under the calls the
\* backend makes of it, New's Init of a store that is empty included.
THEOREM BackendStoreOneToOne ==
  ASSUME CanonicalKeys
  PROVE  Spec => []OneToOne
<1>1. SyncInv => OneToOne
  BY DEF SyncInv, StoreInv
<1> QED BY <1>1, SyncInvariant, PTL

-----------------------------------------------------------------------------
(* Shutdown.                                                               *)

\* Close sets m.client to nil before the backend is stopped.
ClosedWhenStopped == client => state = "running"

(* A stopped backend keeps its device closed, and no step changes a closed
   device. *)
LEMMA ClosedStep ==
  ASSUME ClosedWhenStopped, [Next]_vars
  PROVE  ClosedWhenStopped' /\ StoppedIsFrozen
<1> USE DEF ClosedWhenStopped, StoppedIsFrozen
<1>1. CASE \E r \in Requests : New(r)
  BY <1>1 DEF New
<1>2. ASSUME NEW c \in Caller, Call(c) PROVE ClosedWhenStopped' /\ StoppedIsFrozen
  <2>1. UNCHANGED <<lifeVars, deviceVars>>
    BY <1>2 DEF Call, syncUsersFull, syncUsersPartialReconcile, Restart
  <2> QED BY <2>1 DEF lifeVars, deviceVars
<1>3. ASSUME NEW c \in Caller, Step(c) PROVE ClosedWhenStopped' /\ StoppedIsFrozen
  <2>1. UNCHANGED lifeVars /\ (client \/ device' = device)
    <3>1. CASE EnsureRunning(c) \/ ConfigureClosed(c)
      BY <3>1 DEF EnsureRunning, ConfigureClosed, deviceVars
    <3>2. CASE ApplyPeers(c) \/ ApplyPeersReplaceAll(c) \/ KernelError(c)
      BY <3>2 DEF ApplyPeers, ApplyPeersReplaceAll, KernelError
    <3>3. CASE CommitFull(c) \/ CommitPartial(c) \/ CommitUpsert(c) \/ CommitReturn(c)
      BY <3>3 DEF CommitFull, CommitPartial, CommitUpsert, CommitReturn, deviceVars
    <3>4. CASE RemoveStats(c) \/ SyncDone(c)
      BY <3>4 DEF RemoveStats, SyncDone, deviceVars
    <3> QED BY <1>3, <3>1, <3>2, <3>3, <3>4 DEF Step
  <2> QED BY <2>1 DEF lifeVars
<1>4. CASE Shutdown
  BY <1>4 DEF Shutdown
<1>5. CASE StatsNext \/ UNCHANGED vars
  <2>1. UNCHANGED <<lifeVars, deviceVars>>
    BY <1>5, StatsUntouched
  <2> QED BY <2>1 DEF lifeVars, deviceVars
<1> QED BY <1>1, <1>2, <1>3, <1>4, <1>5 DEF Next, SyncNext

\* A sync that has read wg.manager and is overtaken by Shutdown does not touch
\* the interface any more (manager.go:265), whatever the requests are.
THEOREM StoppedDeviceStays == Spec => StoppedDeviceFrozen
<1>1. Init => ClosedWhenStopped
  BY DEF Init, ClosedWhenStopped
<1>2. ClosedWhenStopped /\ [Next]_vars => ClosedWhenStopped' /\ [StoppedIsFrozen]_vars
  BY ClosedStep
<1> QED BY <1>1, <1>2, PTL DEF Spec, StoppedDeviceFrozen

-----------------------------------------------------------------------------
(* The refinement of UserDirectory.                                        *)

\* Steps during which nobody holds ps.mu and the store does not change.
LEMMA SameDirectory ==
  ASSUME ~psLocked, ~psLocked', GetAll' = GetAll
  PROVE  Users' = Users
BY DEF Users

\* One whole request takes effect with New, with ReplaceAll, and at the start
\* of the critical section of ApplyChanges.
LEMMA DirectoryStep ==
  ASSUME CanonicalKeys, SyncInv, [Next]_vars
  PROVE  Directory!Next \/ Users' = Users
<1> USE DEF Directory!Next, Directory!Replace, Directory!Merge, Directory!Free
<1>1. ASSUME NEW r \in Requests, New(r) PROVE Directory!Next
  <2>1. ~psLocked' /\ \E u \in Updates : GetAll' = u.peers
    BY <1>1, NewStep
  <2> QED BY <2>1 DEF Users
<1>2. ASSUME NEW c \in Caller, Call(c) PROVE Users' = Users
  <2>1. UNCHANGED psVars /\ syncMu = Nobody
    BY <1>2 DEF Call, syncUsersFull, syncUsersPartialReconcile, Restart, Acquire
  <2>2. ~psLocked
    <3>1. \A x \in Caller : pc[x] = "idle"
      BY <2>1, WireGuardAssumption DEF SyncInv, LocksOK
    <3> QED BY <3>1 DEF SyncInv, LocksOK
  <2>3. ~psLocked' /\ GetAll' = GetAll
    BY <2>1, <2>2 DEF psVars, GetAll
  <2> QED BY <2>2, <2>3, SameDirectory
<1>3. ASSUME NEW c \in Caller, Step(c) PROVE Directory!Next \/ Users' = Users
  <2>1. CASE EnsureRunning(c) \/ ConfigureClosed(c) \/ ApplyPeers(c) \/ ApplyPeersReplaceAll(c)
             \/ KernelError(c) \/ SyncDone(c)
    <3>1. UNCHANGED psVars /\ pc[c] \in {"ready", "configure", "stats"}
      BY <2>1 DEF EnsureRunning, ConfigureClosed, ApplyPeers, ApplyPeersReplaceAll, KernelError, SyncDone
    <3>2. ~psLocked
      BY <3>1, Alone
    <3>3. ~psLocked' /\ GetAll' = GetAll
      BY <3>1, <3>2 DEF psVars, GetAll
    <3> QED BY <3>2, <3>3, SameDirectory
  <2>2. CASE CommitFull(c)
    <3>1. pc[c] = "commit" /\ op[c] = "full" /\ ~psLocked /\ ~psLocked'
      BY <2>2 DEF CommitFull, ReplaceAll
    <3>2. GetAll' = goal[c]
      BY <2>2, CommitFullStep
    <3>3. \E u \in Updates : goal[c] = u.peers
      BY <3>1 DEF SyncInv, PlanOK, Waiting
    <3> QED BY <3>1, <3>2, <3>3 DEF Users
  <2>3. CASE CommitPartial(c)
    <3>1. /\ pc[c] = "commit" /\ op[c] \in PartialOps /\ ~psLocked /\ psLocked'
          /\ goal' = goal /\ syncMu' = syncMu
      BY <2>3 DEF CommitPartial, ApplyChanges, Goto, PartialOps
    <3>2. syncMu = c
      BY <3>1, Alone
    <3>3. MergePlan(goal[c])
      BY <3>1 DEF SyncInv, PlanOK, Waiting
    <3>4. Users = GetAll /\ Users' = goal[c]
      BY <3>1, <3>2 DEF Users
    <3> QED BY <3>3, <3>4 DEF MergePlan
  <2>4. CASE CommitUpsert(c)
    <3>1. psLocked /\ psLocked' /\ goal' = goal /\ syncMu' = syncMu
      BY <2>4 DEF CommitUpsert, Upsert, syncVars
    <3> QED BY <3>1 DEF Users
  <2>5. CASE CommitReturn(c)
    <3>1. psLocked /\ ~psLocked' /\ pc[c] = "upserting"
      BY <2>5 DEF CommitReturn, ApplyChangesReturn
    <3>2. syncMu = c
      BY <3>1, Alone
    <3>3. GetAll' = goal[c]
      BY <2>5, CommitReturnStep
    <3> QED BY <3>1, <3>2, <3>3 DEF Users
  <2>6. CASE RemoveStats(c)
    <3>1. peers' = peers /\ psLocked' = psLocked /\ pc[c] = "stats"
      BY <2>6 DEF RemoveStats
    <3>2. ~psLocked
      BY <3>1, Alone
    <3>3. ~psLocked' /\ GetAll' = GetAll
      BY <3>1, <3>2 DEF GetAll
    <3> QED BY <3>2, <3>3, SameDirectory
  <2> QED BY <1>3, <2>1, <2>2, <2>3, <2>4, <2>5, <2>6 DEF Step
<1>4. CASE Shutdown \/ StatsNext \/ UNCHANGED vars
  <2>1. UNCHANGED <<psVars, syncVars>>
    <3>1. CASE Shutdown
      BY <3>1 DEF Shutdown
    <3>2. CASE StatsNext \/ UNCHANGED vars
      BY <3>2, StatsUntouched
    <3> QED BY <1>4, <3>1, <3>2
  <2> QED BY <2>1 DEF psVars, syncVars, Users, GetAll
<1> QED BY <1>1, <1>2, <1>3, <1>4 DEF Next, SyncNext

\* The backend implements UserDirectory: the users a reader can see change by
\* one whole request at a time, applied to the directory of that moment, although
\* the plan is made earlier and the loop writes entry by entry
\* (user_partial_sync.go:22-71, user_full_sync.go:9-55, peer_store.go:42-76).
THEOREM BackendImplementsDirectory ==
  ASSUME CanonicalKeys
  PROVE  Spec => ImplementsDirectory
<1>1. Init => Directory!Init
  BY DEF Init, PeerStoreInit, NoPeers, Directory!Init, Users, GetAll
<1>2. SyncInv /\ [Next]_vars => [Directory!Next]_Users
  BY DirectoryStep
<1> QED BY <1>1, <1>2, SyncInvariant, PTL DEF Spec, ImplementsDirectory, Directory!Spec

-----------------------------------------------------------------------------
(* The store and the kernel device.                                        *)

\* A plan without a kernel call: the device has the goal already.
LEMMA NothingToConfigure ==
  ASSUME StoreInv, NEW d \in Diff, NEW g \in SUBSET PeerInfo, StorePlan(d, g), KernelPlan(d, g),
         PeerConfigs(d) = {}, Holds(device, GetAll)
  PROVE  Holds(device, g)
<1>1. /\ \A p : p \in GetAll <=> p \in PeerInfo /\ peers[p.key] = p
      /\ \A k \in Key : peers[k] # NoPeer => peers[k] \in GetAll /\ peers[k].key = k
  BY StoreFacts
<1>2. d.remove = {} /\ d.replaceIPs = {} /\ d.add = {}
  BY DEF PeerConfigs
<1>3. ASSUME NEW q \in g PROVE device[q.key] = Range(q.ips)
  <2>1. q.key \in Key /\ peers[q.key] # NoPeer /\ peers[q.key].ips = q.ips
    BY <1>2 DEF KernelPlan, PeerInfo
  <2> QED BY <1>1, <2>1 DEF Holds
<1>4. ASSUME NEW k \in Key, \A q \in g : q.key # k PROVE device[k] = NoPeer
  <2>1. \A p \in GetAll : p.key # k
    BY <1>2, <1>4 DEF StorePlan
  <2> QED BY <2>1 DEF Holds
<1> QED BY <1>3, <1>4 DEF Holds

\* ApplyPeers turns the stored peers into the goal, peer by peer.
LEMMA ReconfigureHolds ==
  ASSUME StoreInv, NEW d \in Diff, NEW g \in SUBSET PeerInfo, StorePlan(d, g), KernelPlan(d, g),
         DistinctSet(g), DisjointSet(g), Holds(device, GetAll)
  PROVE  Holds(Reconfigure(d.replaceIPs, d.add, d.remove), g)
<1> DEFINE configs == d.replaceIPs \cup d.add
           taken(k) == UNION {Range(p.ips) : p \in {q \in configs : q.key # k}}
           kept(k) == IF device[k] = NoPeer \/ \E p \in d.replaceIPs : p.key = k THEN {} ELSE device[k]
           new(k) == IF k \in d.remove THEN NoPeer
                     ELSE IF \E p \in configs : p.key = k
                       THEN (kept(k) \ taken(k)) \cup IPsOf(configs, k)
                     ELSE IF device[k] = NoPeer THEN NoPeer ELSE device[k] \ taken(k)
<1>1. Reconfigure(d.replaceIPs, d.add, d.remove) = [k \in Key |-> new(k)]
  BY DEF Reconfigure
<1>2. /\ \A p : p \in GetAll <=> p \in PeerInfo /\ peers[p.key] = p
      /\ \A k \in Key : peers[k] # NoPeer => peers[k] \in GetAll /\ peers[k].key = k
  BY StoreFacts
<1>3. configs \subseteq g /\ \A q \in g : q.key \in Key /\ q.key \notin d.remove
  BY DEF KernelPlan, StorePlan, PeerInfo
<1>4. \A q \in g : Range(q.ips) \subseteq IP /\ Range(q.ips) # NoPeer
  <2> SUFFICES ASSUME NEW q \in g PROVE Range(q.ips) \subseteq IP /\ Range(q.ips) # NoPeer
    OBVIOUS
  <2>1. q.ips \in Seq(IP)
    BY WireGuardAssumption DEF PeerInfo
  <2>2. Range(q.ips) \in SUBSET IP
    BY <2>1 DEF Range
  <2> QED BY <2>2, WireGuardAssumption
<1>5. ASSUME NEW q \in g PROVE new(q.key) = Range(q.ips)
  <2>1. CASE \E p \in configs : p.key = q.key
    <3>1. q \in configs /\ \A p \in configs : p.key = q.key => p = q
      BY <1>3, <2>1 DEF DistinctSet
    <3>2. IPsOf(configs, q.key) = Range(q.ips)
      BY <3>1 DEF IPsOf
    <3>3. kept(q.key) = {}
      <4>1. CASE q \in d.replaceIPs
        BY <4>1
      <4>2. CASE q \in d.add
        <5>1. peers[q.key] = NoPeer
          BY <4>2 DEF KernelPlan
        <5>2. \A p \in GetAll : p.key # q.key
          BY <1>2, <5>1, PeerStoreAssumption
        <5>3. device[q.key] = NoPeer
          BY <1>3, <5>2 DEF Holds
        <5> QED BY <5>3
      <4> QED BY <3>1, <4>1, <4>2
    <3>4. q.key \notin d.remove
      BY <1>3
    <3> HIDE DEF taken, kept, configs
    <3> QED BY <2>1, <3>2, <3>3, <3>4
  <2>2. CASE ~ \E p \in configs : p.key = q.key
    <3>1. q \notin d.replaceIPs /\ q \notin d.add
      BY <2>2
    <3>2. peers[q.key] # NoPeer /\ peers[q.key].ips = q.ips
      BY <3>1 DEF KernelPlan
    <3>3. device[q.key] = Range(q.ips)
      BY <1>2, <1>3, <3>2 DEF Holds
    <3>4. \A p \in configs : p.key # q.key => Range(p.ips) \cap Range(q.ips) = {}
      BY <1>3 DEF DisjointSet
    <3>5. Range(q.ips) \ taken(q.key) = Range(q.ips)
      <4> HIDE DEF configs
      <4> QED BY <3>4
    <3>6. device[q.key] # NoPeer
      BY <1>4, <3>3
    <3>7. q.key \notin d.remove
      BY <1>3
    <3> HIDE DEF taken, kept, configs
    <3> QED BY <2>2, <3>3, <3>5, <3>6, <3>7
  <2> QED BY <2>1, <2>2
<1>6. ASSUME NEW k \in Key, \A q \in g : q.key # k PROVE new(k) = NoPeer
  <2>1. k \in d.remove \/ \A p \in GetAll : p.key # k
    BY <1>6 DEF StorePlan
  <2>2. k \in d.remove \/ device[k] = NoPeer
    BY <2>1 DEF Holds
  <2>3. ~ \E p \in configs : p.key = k
    BY <1>3, <1>6
  <2> HIDE DEF taken, kept, configs
  <2> QED BY <2>2, <2>3
<1> HIDE DEF new
<1> QED BY <1>1, <1>3, <1>5, <1>6 DEF Holds

\* Nobody has configured the device and not yet finished.
LEMMA NotConfigured ==
  ASSUME SyncInv, NEW c \in Caller, pc[c] \in {"ready", "configure"}
  PROVE  ~Configured
BY Alone DEF Configured

(* Making a call keeps device and store in step. *)
LEMMA KernelCallStep ==
  ASSUME UniqueIPs, CanonicalKeys, SyncInv, KernelInv, NEW c \in Caller, Call(c)
  PROVE  KernelInv'
<1>1. PICK o \in SyncOps, d \in Diff, g \in SUBSET PeerInfo :
        /\ Acquire(c, o, d, g)
        /\ DistinctSet(g)
        /\ UniqueIPs /\ DisjointSet(GetAll) => DisjointSet(g)
        /\ \/ o = "full" /\ d.target = g /\ \E u \in Updates : g = u.peers
           \/ o = "restart" /\ d.target = GetAll /\ g = GetAll
           \/ o \in PartialOps /\ StorePlan(d, g) /\ KernelPlan(d, g) /\ MergePlan(g)
  BY CallPlans
<1>2. UNCHANGED <<psVars, lifeVars, deviceVars>>
  BY CallPlans
<1>3. syncMu = Nobody /\ \A x \in Caller : pc[x] = "idle"
  BY <1>1, WireGuardAssumption DEF SyncInv, LocksOK, Acquire
<1>4. /\ peers' = peers /\ psLocked' = psLocked /\ state' = state /\ device' = device /\ dirty' = dirty
      /\ ~psLocked
  BY <1>2, <1>3 DEF psVars, lifeVars, deviceVars, SyncInv, LocksOK
<1>5. GetAll' = GetAll
  BY <1>4 DEF GetAll
<1>6. DisjointSet(GetAll) /\ DisjointSet(g) /\ \A x \in Caller : DisjointSet(goal[x])
  BY <1>1, <1>4 DEF KernelInv, IPsOK
<1>7. /\ goal'[c] = g /\ \A x \in Caller : x # c => goal'[x] = goal[x] /\ pc'[x] = "idle"
      /\ pc'[c] \in {"ready", "commit"}
      /\ pc'[c] = "commit" => o \in PartialOps /\ PeerConfigs(d) = {}
  BY <1>1, <1>3 DEF SyncInv, SyncTypeOK, Acquire, PartialOps
<1>8. IPsOK'
  <2>1. \A x \in Caller : DisjointSet(goal'[x])
    BY <1>6, <1>7
  <2> QED BY <1>5, <1>6, <2>1 DEF IPsOK, DisjointSet
<1>9. DeviceOK'
  <2> SUFFICES ASSUME state = "running", ~dirty
               PROVE  /\ ~Configured' => Holds(device, GetAll)
                      /\ \A x \in Caller : pc'[x] \in {"commit", "upserting", "stats"}
                                             => Holds(device, goal'[x])
    BY <1>4, <1>5 DEF DeviceOK, Holds
  <2>1. Holds(device, GetAll)
    BY <1>3 DEF KernelInv, DeviceOK, Configured
  <2>2. ASSUME pc'[c] = "commit" PROVE Holds(device, g)
    <3>1. StorePlan(d, g) /\ KernelPlan(d, g) /\ PeerConfigs(d) = {}
      BY <1>1, <1>7, <2>2 DEF PartialOps
    <3>2. StoreInv
      BY DEF SyncInv
    <3> QED BY <2>1, <3>1, <3>2, NothingToConfigure
  <2> QED BY <1>7, <2>1, <2>2
<1> QED BY <1>8, <1>9 DEF KernelInv

\* Steps of caller c that leave goals and the store alone or clear its goal.
LEMMA GoalsStayDisjoint ==
  ASSUME KernelInv, UNCHANGED <<peers, psLocked>>,
         \A x \in Caller : goal'[x] = goal[x] \/ goal'[x] = {}
  PROVE  IPsOK' /\ GetAll' = GetAll
<1>1. GetAll' = GetAll
  BY DEF GetAll
<1>2. \A x \in Caller : DisjointSet(goal'[x])
  BY DEF KernelInv, IPsOK, DisjointSet
<1> QED BY <1>1, <1>2 DEF KernelInv, IPsOK, DisjointSet

\* The steps before the store is written: the kernel calls and the returns.
LEMMA KernelDeviceStep ==
  ASSUME SyncInv, KernelInv, NEW c \in Caller,
         \/ EnsureRunning(c) \/ ConfigureClosed(c)
         \/ ApplyPeers(c) \/ ApplyPeersReplaceAll(c) \/ KernelError(c)
  PROVE  KernelInv'
<1>1. /\ peers' = peers /\ psLocked' = psLocked /\ state' = state
      /\ pc[c] \in {"ready", "configure"} /\ (Return(c) \/ Goto(c, "configure") \/ Goto(c, "commit"))
  BY DEF EnsureRunning, ConfigureClosed, ApplyPeers, ApplyPeersReplaceAll, KernelError, psVars, lifeVars
<1>2. /\ ~psLocked /\ \A x \in Caller : x # c => pc[x] = "idle"
      /\ ~Configured
  BY <1>1, Alone, NotConfigured
<1>3. \A x \in Caller : goal'[x] = goal[x] \/ goal'[x] = {}
  BY <1>1 DEF Return, Goto, SyncInv, SyncTypeOK
<1>4. IPsOK' /\ GetAll' = GetAll
  BY <1>1, <1>3, GoalsStayDisjoint
<1>5. DisjointSet(GetAll) /\ \A x \in Caller : DisjointSet(goal[x]) /\ DistinctSet(goal[x])
  BY <1>2 DEF KernelInv, IPsOK, SyncInv, PlanOK
<1>6. ASSUME Return(c) \/ Goto(c, "configure") PROVE ~Configured'
  <2>1. \A x \in Caller : pc'[x] \in {"idle", "configure"}
    BY <1>2, <1>6 DEF Return, Goto, SyncInv, SyncTypeOK
  <2> QED BY <2>1 DEF Configured
<1>7. ASSUME Goto(c, "commit")
      PROVE  Configured' /\ goal' = goal /\ \A x \in Caller : x # c => pc'[x] = "idle"
  <2>1. goal' = goal /\ pc'[c] = "commit" /\ \A x \in Caller : x # c => pc'[x] = "idle"
    BY <1>2, <1>7 DEF Goto, SyncInv, SyncTypeOK
  <2> QED BY <2>1 DEF Configured
<1>8. CASE EnsureRunning(c) \/ ConfigureClosed(c)
  <2>1. device' = device /\ dirty' = dirty /\ (Return(c) \/ Goto(c, "configure"))
    BY <1>8 DEF EnsureRunning, ConfigureClosed, deviceVars
  <2>2. ~Configured'
    BY <1>6, <2>1
  <2>3. DeviceOK'
    BY <1>1, <1>2, <1>4, <2>1, <2>2 DEF KernelInv, DeviceOK, Configured, Holds
  <2> QED BY <1>4, <2>3 DEF KernelInv
<1>9. CASE ApplyPeers(c)
  <2>1. /\ pc[c] = "configure" /\ op[c] \in PartialOps /\ Goto(c, "commit") /\ dirty' = dirty
        /\ device' = Reconfigure(diff[c].replaceIPs, diff[c].add, diff[c].remove)
    BY <1>9 DEF ApplyPeers, PartialOps
  <2>2. StorePlan(diff[c], goal[c]) /\ KernelPlan(diff[c], goal[c])
    BY <2>1 DEF SyncInv, PlanOK, Waiting
  <2>3. StoreInv /\ diff[c] \in Diff /\ goal[c] \in SUBSET PeerInfo
    BY DEF SyncInv, SyncTypeOK
  <2>4. state = "running" /\ ~dirty => Holds(device', goal[c])
    <3> SUFFICES ASSUME state = "running", ~dirty PROVE Holds(device', goal[c])
      OBVIOUS
    <3>1. Holds(device, GetAll)
      BY <1>2 DEF KernelInv, DeviceOK
    <3> QED BY <1>5, <2>1, <2>2, <2>3, <3>1, ReconfigureHolds
  <2>5. DeviceOK'
    BY <1>1, <1>7, <2>1, <2>4 DEF DeviceOK, Holds
  <2> QED BY <1>4, <2>5 DEF KernelInv
<1>10. CASE ApplyPeersReplaceAll(c)
  <2>1. /\ pc[c] = "configure" /\ op[c] \in {"full", "restart"}
        /\ IF op[c] = "full" THEN Goto(c, "commit") ELSE Return(c)
    BY <1>10 DEF ApplyPeersReplaceAll
  <2>2. PICK list \in Orders(diff[c].target) : device' = ReplacePeers(list)
    BY <1>10 DEF ApplyPeersReplaceAll
  <2>3. /\ diff[c].target = goal[c] /\ (op[c] = "restart" => goal[c] = GetAll)
        /\ goal[c] \in SUBSET PeerInfo
    BY <2>1 DEF SyncInv, PlanOK, Waiting, SyncTypeOK
  <2>4. Holds(device', goal[c])
    BY <1>5, <2>2, <2>3, ReplacePeersHolds
  <2>5. CASE op[c] = "full"
    <3>1. DeviceOK'
      BY <1>7, <2>1, <2>4, <2>5 DEF DeviceOK, Holds
    <3> QED BY <1>4, <3>1 DEF KernelInv
  <2>6. CASE op[c] = "restart"
    <3>1. ~Configured'
      BY <1>6, <2>1, <2>6
    <3>2. Holds(device', GetAll')
      BY <1>4, <2>3, <2>4, <2>6
    <3>3. DeviceOK'
      BY <3>1, <3>2 DEF DeviceOK, Holds, Configured
    <3> QED BY <1>4, <3>3 DEF KernelInv
  <2> QED BY <2>1, <2>5, <2>6
<1>11. CASE KernelError(c)
  <2>1. dirty' = TRUE
    BY <1>11 DEF KernelError
  <2> QED BY <1>4, <2>1 DEF KernelInv, DeviceOK
<1> QED BY <1>8, <1>9, <1>10, <1>11

\* The steps that write the store, and those after.
LEMMA KernelCommitStep ==
  ASSUME SyncInv, KernelInv, NEW c \in Caller,
         \/ CommitFull(c) \/ CommitPartial(c) \/ CommitUpsert(c) \/ CommitReturn(c) \/ SyncDone(c)
  PROVE  KernelInv'
<1>1. /\ pc[c] \in {"commit", "upserting", "stats"} /\ device' = device /\ dirty' = dirty /\ state' = state
  BY DEF CommitFull, CommitPartial, CommitUpsert, CommitReturn, SyncDone, deviceVars, lifeVars
<1>2. \A x \in Caller : x # c => pc[x] = "idle"
  BY <1>1, Alone
<1>3. state = "running" /\ ~dirty => Holds(device, goal[c])
  BY <1>1 DEF KernelInv, DeviceOK
<1>4. \A x \in Caller : DisjointSet(goal[x])
  BY DEF KernelInv, IPsOK
<1>5. CASE CommitFull(c) \/ CommitPartial(c) \/ CommitUpsert(c) \/ CommitReturn(c)
  <2>1. /\ goal' = goal /\ pc'[c] \in {"upserting", "stats"} /\ \A x \in Caller : x # c => pc'[x] = "idle"
    BY <1>2, <1>5 DEF CommitFull, CommitPartial, CommitUpsert, CommitReturn, Goto, syncVars,
                      SyncInv, SyncTypeOK
  <2>2. ~psLocked' => GetAll' = goal[c]
    <3>1. CASE CommitFull(c)
      BY <3>1, CommitFullStep
    <3>2. CASE CommitPartial(c) \/ CommitUpsert(c)
      BY <3>2 DEF CommitPartial, ApplyChanges, CommitUpsert, Upsert
    <3>3. CASE CommitReturn(c)
      BY <3>3, CommitReturnStep
    <3> QED BY <1>5, <3>1, <3>2, <3>3
  <2>3. IPsOK'
    BY <1>4, <2>1, <2>2 DEF IPsOK, DisjointSet
  <2>4. Configured'
    BY <2>1 DEF Configured
  <2>5. DeviceOK'
    BY <1>1, <1>3, <2>1, <2>4 DEF DeviceOK, Holds
  <2> QED BY <2>3, <2>5 DEF KernelInv
<1>6. CASE SyncDone(c)
  <2>1. /\ pc[c] = "stats" /\ peers' = peers /\ psLocked' = psLocked
        /\ \/ Return(c)
           \/ pc' = [pc EXCEPT ![c] = "ready"] /\ goal' = goal
    BY <1>6 DEF SyncDone, psVars
  <2>2. \A x \in Caller : goal'[x] = goal[x] \/ goal'[x] = {}
    BY <2>1 DEF Return, SyncInv, SyncTypeOK
  <2>3. IPsOK' /\ GetAll' = GetAll
    BY <2>1, <2>2, GoalsStayDisjoint
  <2>4. GetAll = goal[c]
    BY <2>1 DEF SyncInv, PlanOK
  <2>5. \A x \in Caller : pc'[x] \in {"idle", "ready"}
    BY <1>2, <2>1 DEF Return, SyncInv, SyncTypeOK
  <2>6. DeviceOK'
    BY <1>1, <1>3, <2>3, <2>4, <2>5 DEF DeviceOK, Holds
  <2> QED BY <2>3, <2>6 DEF KernelInv
<1> QED BY <1>5, <1>6

\* Steps that change neither store nor device nor callers.
LEMMA KernelUntouched ==
  ASSUME KernelInv, UNCHANGED <<peers, psLocked, state, deviceVars, syncVars>>
  PROVE  KernelInv'
<1>1. /\ device' = device /\ dirty' = dirty /\ pc' = pc /\ goal' = goal
  BY DEF deviceVars, syncVars
<1>2. IPsOK' /\ GetAll' = GetAll
  BY <1>1, GoalsStayDisjoint
<1>3. DeviceOK'
  BY <1>1, <1>2 DEF KernelInv, DeviceOK, Configured, Holds
<1> QED BY <1>2, <1>3 DEF KernelInv

(* Every step keeps device and store in step. *)
LEMMA KernelInvStep ==
  ASSUME UniqueIPs, CanonicalKeys, SyncInv, KernelInv, [Next]_vars
  PROVE  KernelInv'
<1>1. ASSUME NEW r \in Requests, New(r) PROVE KernelInv'
  <2>1. PICK S \in SUBSET PeerInfo :
          /\ GetAll' = S /\ DistinctSet(S) /\ DisjointSet(S)
          /\ \E list \in Orders(S) : device' = ReplacePeers(list)
    BY <1>1, NewStep
  <2>2. Holds(device', GetAll')
    BY <2>1, ReplacePeersHolds
  <2>3. goal' = goal /\ \A c \in Caller : pc'[c] = "idle"
    <3>1. \A c \in Caller : pc[c] = "idle"
      BY <1>1, NewStep
    <3> QED BY <1>1, <3>1 DEF New, syncVars
  <2>4. IPsOK'
    BY <2>1, <2>3 DEF KernelInv, IPsOK, DisjointSet
  <2>5. DeviceOK'
    BY <2>2, <2>3 DEF DeviceOK, Holds
  <2> QED BY <2>4, <2>5 DEF KernelInv
<1>2. ASSUME NEW c \in Caller, Call(c) PROVE KernelInv'
  BY <1>2, KernelCallStep
<1>3. ASSUME NEW c \in Caller, Step(c) PROVE KernelInv'
  <2>1. CASE RemoveStats(c)
    <3>1. UNCHANGED <<peers, psLocked, state, deviceVars, syncVars>>
      BY <2>1 DEF RemoveStats, lifeVars
    <3> QED BY <3>1, KernelUntouched
  <2> QED BY <1>3, <2>1, KernelDeviceStep, KernelCommitStep DEF Step
<1>4. CASE Shutdown
  <2>1. state' = "stopped" /\ UNCHANGED <<peers, psLocked, goal>>
    BY <1>4 DEF Shutdown, psVars, syncVars
  <2>2. IPsOK'
    BY <2>1, GoalsStayDisjoint
  <2> QED BY <2>1, <2>2 DEF KernelInv, DeviceOK
<1>5. CASE StatsNext \/ UNCHANGED vars
  <2>1. UNCHANGED <<psVars, lifeVars, deviceVars, syncVars>>
    BY <1>5, StatsUntouched
  <2>2. UNCHANGED <<peers, psLocked, state, deviceVars, syncVars>>
    BY <2>1 DEF psVars, lifeVars
  <2> QED BY <2>2, KernelUntouched
<1> QED BY <1>1, <1>2, <1>3, <1>4, <1>5 DEF Next, SyncNext

\* "the store must only contain peers that were actually committed to the
\* kernel" (user_common.go:150): between two syncs of a running backend the
\* device has exactly the stored peers, each with exactly its IPs, unless a
\* kernel call has failed since the last one that replaced all peers.  UniqueIPs:
\* the code does not compare the IPs of a partial request with those of users it
\* does not name, and the kernel moves an IP to the peer it is configured for last.
THEOREM KernelHasTheStore ==
  ASSUME CanonicalKeys, UniqueIPs
  PROVE  Spec => []StoreMatchesKernel
<1>1. Init => KernelInv
  <2> SUFFICES ASSUME Init PROVE KernelInv
    OBVIOUS
  <2>1. peers = NoPeers /\ state = "none" /\ goal = [c \in Caller |-> {}]
    BY DEF Init, PeerStoreInit
  <2>2. GetAll = {}
    BY <2>1 DEF GetAll, NoPeers
  <2> QED BY <2>1, <2>2 DEF KernelInv, IPsOK, DeviceOK, DisjointSet
<1>2. SyncInv /\ KernelInv /\ [Next]_vars => KernelInv'
  BY KernelInvStep
<1>3. SyncInv /\ KernelInv => StoreMatchesKernel
  <2> SUFFICES ASSUME SyncInv, KernelInv, syncMu = Nobody, state = "running", ~dirty, NEW k \in Key
               PROVE  KernelHas(k)
    BY DEF StoreMatchesKernel
  <2>1. \A c \in Caller : pc[c] = "idle"
    BY WireGuardAssumption DEF SyncInv, LocksOK
  <2>2. Holds(device, GetAll)
    BY <2>1 DEF KernelInv, DeviceOK, Configured
  <2>3. /\ \A p \in GetAll : peers[p.key] = p /\ p # NoPeer
        /\ peers[k] # NoPeer => peers[k] \in GetAll /\ peers[k].key = k
    <3>1. StoreInv
      BY DEF SyncInv
    <3> QED BY <3>1, StoreFacts, PeerStoreAssumption
  <2> QED BY <2>2, <2>3 DEF Holds, KernelHas
<1> QED BY <1>1, <1>2, <1>3, SyncInvariant, PTL DEF Spec

-----------------------------------------------------------------------------
(* The traffic tracker, with samples that are older than the counter.  The *)
(* stats loop applies what it read some steps before, when the peer may    *)
(* have been removed or replaced meanwhile.  Then the tracker may charge   *)
(* too much, but what it has accounted it still does not take back.        *)

\* What is accounted to a key, from the values alone.
Account(entry, rep, d) ==
  rep[d] + (IF entry = NoEntry THEN 0 ELSE entry.cur[d] - entry.base[d])

\* Facts about one entry that a sample relies on.
EntryOK(entry) ==
  /\ entry \in ST!Entry
  /\ \A d \in Dir : entry.base[d] <= entry.cur[d]
  /\ entry.deleted => \A d \in Dir : entry.lastDelta[d] = entry.cur[d] - entry.base[d]
  /\ ~entry.deleted => entry.lastDelta = ST!Zero

\* What a sample with values val makes of an entry: a live one, whose pending
\* bytes are kept (re-add or rollback) or grow with the counter.
Sampled(a, entry, val) ==
  /\ a \in ST!Entry
  /\ ~a.deleted
  /\ a.lastDelta = ST!Zero
  /\ a.cur = val
  /\ \/ /\ \A d \in Dir : a.base[d] = val[d] - (entry.cur[d] - entry.base[d])
        /\ entry.deleted \/ \E d \in Dir : val[d] < entry.cur[d]
     \/ /\ \A d \in Dir : val[d] >= entry.cur[d]
        /\ a.base = entry.base
        /\ entry.deleted => \A d \in Dir : entry.base[d] = entry.cur[d]

\* What a sample does to a key that has no entry: the whole counter pends.
LEMMA SampleCreates ==
  ASSUME NEW email \in Email, NEW val \in [Dir -> Nat]
  PROVE  ST!applySample(NoEntry, email, val) =
           [email |-> email, cur |-> val, base |-> ST!Zero, lastDelta |-> ST!Zero, deleted |-> FALSE]
<1> DEFINE t == [email |-> email, cur |-> ST!Zero, base |-> ST!Zero, lastDelta |-> ST!Zero, deleted |-> FALSE]
<1>1. ST!Touched(NoEntry, email) = t
  BY DEF ST!Touched
<1>2. ~ST!Readded(t)
  BY DEF ST!Readded, ST!Zero
<1>3. ST!RestoreBaseline(t, val) = t
  BY <1>2 DEF ST!RestoreBaseline
<1>4. ~ST!RolledBack(t, val)
  BY DEF ST!RolledBack, ST!Zero
<1>5. ST!RebaseOnRollback(t, val) = t
  BY <1>4 DEF ST!RebaseOnRollback
<1>6. ST!applySample(NoEntry, email, val) = IF t.cur = val THEN t ELSE [t EXCEPT !.cur = val]
  BY <1>1, <1>2, <1>3, <1>5 DEF ST!applySample
<1> QED BY <1>6

\* What a sample does to an entry.
LEMMA SampleUpdates ==
  ASSUME NEW entry, EntryOK(entry), NEW email \in Email, NEW val \in [Dir -> Nat]
  PROVE  Sampled(ST!applySample(entry, email, val), entry, val)
<1> DEFINE t == [entry EXCEPT !.email = email, !.deleted = FALSE]
           a == ST!applySample(entry, email, val)
<1>1. /\ t \in ST!Entry /\ t.cur = entry.cur /\ t.base = entry.base
      /\ t.lastDelta = entry.lastDelta /\ ~t.deleted
      /\ entry.cur \in [Dir -> Nat] /\ entry.base \in [Dir -> Int]
      /\ entry.lastDelta \in [Dir -> Int] /\ entry.deleted \in BOOLEAN
  BY DEF EntryOK, ST!Entry
<1>2. entry # NoEntry
  BY WireGuardAssumption DEF EntryOK
<1>3. ST!Touched(entry, email) = t
  BY <1>2 DEF ST!Touched
<1> HIDE DEF t
<1>4. ST!Zero \in [Dir -> Int]
  BY DEF ST!Zero
<1>5. CASE ST!Readded(t)
  <2> DEFINE nb == [d \in Dir |-> val[d] - t.lastDelta[d]]
             r == [t EXCEPT !.base = nb, !.lastDelta = ST!Zero]
  <2>1. ST!RestoreBaseline(t, val) = r
    BY <1>5 DEF ST!RestoreBaseline
  <2>2. nb \in [Dir -> Int]
    BY <1>1
  <2>3. a = IF r.cur = val THEN r ELSE [r EXCEPT !.cur = val]
    BY <1>3, <1>5, <2>1 DEF ST!applySample
  <2>4. r \in ST!Entry /\ r.base = nb /\ r.lastDelta = ST!Zero /\ ~r.deleted
    <3> HIDE DEF nb
    <3> QED BY <1>1, <1>4, <2>2 DEF ST!Entry
  <2>5. a \in ST!Entry /\ a.base = nb /\ a.lastDelta = ST!Zero /\ ~a.deleted /\ a.cur = val
    <3> HIDE DEF nb, r, a
    <3> QED BY <2>3, <2>4 DEF ST!Entry
  <2>6. entry.deleted
    BY <1>1, <1>5 DEF EntryOK, ST!Readded, ST!Zero
  <2>7. \A d \in Dir : nb[d] = val[d] - (entry.cur[d] - entry.base[d])
    BY <1>1, <2>6 DEF EntryOK
  <2> HIDE DEF nb, a
  <2>8. Sampled(a, entry, val)
    BY <2>5, <2>6, <2>7 DEF Sampled
  <2> QED BY <2>8 DEF a
<1>6. CASE ~ST!Readded(t)
  <2>1. t.lastDelta = ST!Zero
    BY <1>1, <1>6 DEF ST!Readded, ST!Zero
  <2>2. ST!RestoreBaseline(t, val) = t
    BY <1>6 DEF ST!RestoreBaseline
  <2>3. a = IF t.cur = val THEN t ELSE [ST!RebaseOnRollback(t, val) EXCEPT !.cur = val]
    BY <1>3, <1>6, <2>2 DEF ST!applySample
  <2>4. \A d \in Dir : ST!Delta(t)[d] = entry.cur[d] - entry.base[d] /\ ST!Delta(t)[d] >= 0
    BY <1>1 DEF ST!Delta, EntryOK
  <2>5. entry.deleted => \A d \in Dir : entry.base[d] = entry.cur[d]
    <3> SUFFICES ASSUME entry.deleted, NEW d \in Dir
                 PROVE  entry.base[d] = entry.cur[d]
      OBVIOUS
    <3>1. entry.lastDelta[d] = 0
      BY <1>1, <2>1 DEF ST!Zero
    <3>2. entry.lastDelta[d] = entry.cur[d] - entry.base[d]
      BY DEF EntryOK
    <3>3. entry.cur[d] \in Int /\ entry.base[d] \in Int
      BY <1>1
    <3> QED BY <3>1, <3>2, <3>3
  <2>6. CASE ST!RolledBack(t, val)
    <3> DEFINE nb == [d \in Dir |-> val[d] - ST!PendingOrZero(t, d)]
    <3>1. nb \in [Dir -> Int]
          /\ \A d \in Dir : nb[d] = val[d] - (entry.cur[d] - entry.base[d])
      BY <1>1, <2>4 DEF ST!PendingOrZero
    <3>2. t.cur # val
      BY <1>1, <2>6 DEF ST!RolledBack
    <3> DEFINE b == [t EXCEPT !.base = nb]
    <3>3. a = [b EXCEPT !.cur = val]
      BY <2>3, <2>6, <3>2 DEF ST!RebaseOnRollback
    <3> HIDE DEF nb, a
    <3>a. b \in ST!Entry /\ b.base = nb /\ b.lastDelta = ST!Zero /\ ~b.deleted
      BY <1>1, <2>1, <3>1 DEF ST!Entry
    <3> HIDE DEF b
    <3>4. a \in ST!Entry /\ a.base = nb /\ a.lastDelta = ST!Zero /\ ~a.deleted /\ a.cur = val
      BY <3>a, <3>3 DEF ST!Entry
    <3>b. \E d \in Dir : val[d] < entry.cur[d]
      BY <1>1, <2>6 DEF ST!RolledBack
    <3>5. Sampled(a, entry, val)
      BY <3>1, <3>4, <3>b DEF Sampled
    <3> QED BY <3>5 DEF a
  <2>7. CASE ~ST!RolledBack(t, val)
    <3>1. \A d \in Dir : val[d] >= entry.cur[d]
      BY <1>1, <2>7 DEF ST!RolledBack
    <3>2. a = IF t.cur = val THEN t ELSE [t EXCEPT !.cur = val]
      BY <2>3, <2>7 DEF ST!RebaseOnRollback
    <3> HIDE DEF a
    <3>3. a \in ST!Entry /\ a.base = entry.base /\ a.lastDelta = ST!Zero /\ ~a.deleted /\ a.cur = val
      BY <1>1, <2>1, <3>2 DEF ST!Entry
    <3>4. Sampled(a, entry, val)
      BY <2>5, <3>1, <3>3 DEF Sampled
    <3> QED BY <3>4 DEF a
  <2> QED BY <2>6, <2>7
<1> QED BY <1>5, <1>6

\* Account is what the property calls ST!Accounted.
LEMMA AccountedIsAccount ==
  ASSUME NEW k \in Key, NEW d \in Dir
  PROVE  /\ ST!Accounted(k, d) = Account(stats[k], reported[k], d)
         /\ ST!Accounted(k, d)' = Account(stats'[k], reported'[k], d)
BY DEF ST!Accounted, ST!Pending, Account, ST!Delta

(* What an entry accounts for is an integer. *)
LEMMA AccountIsInt ==
  ASSUME NEW entry \in ST!Entry \cup {NoEntry}, NEW rep \in [Dir -> Int], NEW d \in Dir
  PROVE  Account(entry, rep, d) \in Int
<1>1. CASE entry = NoEntry
  BY <1>1 DEF Account
<1>2. CASE entry # NoEntry
  <2>1. entry.cur[d] \in Nat /\ entry.base[d] \in Int
    BY <1>2 DEF ST!Entry
  <2> QED BY <1>2, <2>1 DEF Account
<1> QED BY <1>1, <1>2

EntriesOK == ST!TrackerTypeOK /\ \A k \in Key : stats[k] = NoEntry \/ EntryOK(stats[k])

(* A sample never lowers what an entry and the reports account for. *)
LEMMA AnySampleKeeps ==
  ASSUME NEW entry, entry = NoEntry \/ EntryOK(entry), NEW rep \in [Dir -> Int],
         NEW email \in Email, NEW val \in [Dir -> Nat]
  PROVE  /\ EntryOK(ST!applySample(entry, email, val))
         /\ \A d \in Dir : Account(ST!applySample(entry, email, val), rep, d) >= Account(entry, rep, d)
<1> DEFINE a == ST!applySample(entry, email, val)
<1>0. \A d \in Dir : val[d] \in Nat /\ rep[d] \in Int
  OBVIOUS
<1>1. CASE entry = NoEntry
  <2>1. a = [email |-> email, cur |-> val, base |-> ST!Zero, lastDelta |-> ST!Zero, deleted |-> FALSE]
    BY <1>1, SampleCreates
  <2> HIDE DEF a
  <2>2. /\ a \in ST!Entry /\ a.cur = val /\ a.lastDelta = ST!Zero /\ ~a.deleted
        /\ \A d \in Dir : a.base[d] = 0
    BY <2>1 DEF ST!Entry, ST!Zero
  <2>3. EntryOK(a)
    BY <1>0, <2>2 DEF EntryOK
  <2>4. \A d \in Dir : Account(a, rep, d) >= Account(entry, rep, d)
    BY <1>0, <1>1, <2>2, WireGuardAssumption DEF Account
  <2> QED BY <2>3, <2>4 DEF a
<1>2. CASE EntryOK(entry)
  <2>1. Sampled(a, entry, val)
    BY <1>2, SampleUpdates
  <2> HIDE DEF a
  <2>2. entry # NoEntry /\ \A d \in Dir : /\ entry.cur[d] \in Nat /\ entry.base[d] \in Int
                                          /\ entry.base[d] <= entry.cur[d]
    BY <1>2, WireGuardAssumption DEF EntryOK, ST!Entry
  <2>3. a \in ST!Entry /\ a.cur = val /\ a.lastDelta = ST!Zero /\ ~a.deleted /\ a # NoEntry
    BY <2>1, WireGuardAssumption DEF Sampled
  <2>4. \A d \in Dir : a.base[d] \in Int
    BY <2>3 DEF ST!Entry
  <2>5. \A d \in Dir : val[d] - a.base[d] >= entry.cur[d] - entry.base[d]
    BY <1>0, <2>1, <2>2, <2>4 DEF Sampled
  <2>6. \A d \in Dir : a.base[d] <= val[d]
    BY <1>0, <2>2, <2>4, <2>5
  <2>7. EntryOK(a)
    BY <2>3, <2>6 DEF EntryOK
  <2>8. \A d \in Dir : Account(a, rep, d) >= Account(entry, rep, d)
    BY <1>0, <2>2, <2>3, <2>4, <2>5 DEF Account
  <2> QED BY <2>7, <2>8 DEF a
<1> QED BY <1>1, <1>2

(* A reset moves what it reports out of the entry, and the account stays. *)
LEMMA AnyResetKeeps ==
  ASSUME NEW entry, EntryOK(entry), NEW rep \in [Dir -> Int]
  PROVE  LET rep2 == [d \in Dir |-> rep[d] + ST!Reportable(entry)[d]]
         IN  /\ rep2 \in [Dir -> Int]
             /\ ST!ResetEntry(entry) = NoEntry \/ EntryOK(ST!ResetEntry(entry))
             /\ \A d \in Dir : Account(ST!ResetEntry(entry), rep2, d) = Account(entry, rep, d)
<1> DEFINE rep2 == [d \in Dir |-> rep[d] + ST!Reportable(entry)[d]]
<1>1. /\ entry \in ST!Entry /\ entry # NoEntry
      /\ \A d \in Dir : /\ entry.cur[d] \in Nat /\ entry.base[d] \in Int /\ entry.base[d] <= entry.cur[d]
                        /\ rep[d] \in Int
  BY WireGuardAssumption DEF EntryOK, ST!Entry
<1>2. rep2 \in [Dir -> Int] /\ \A d \in Dir : rep2[d] = rep[d] + (entry.cur[d] - entry.base[d])
  BY <1>1 DEF ST!Reportable, ST!Delta
<1> HIDE DEF rep2
<1>3. CASE entry.deleted
  <2>1. ST!ResetEntry(entry) = NoEntry
    BY <1>3 DEF ST!ResetEntry
  <2>2. \A d \in Dir : Account(NoEntry, rep2, d) = Account(entry, rep, d)
    BY <1>1, <1>2 DEF Account
  <2> QED BY <1>2, <2>1, <2>2 DEF rep2
<1>4. CASE ~entry.deleted
  <2> DEFINE r == [entry EXCEPT !.base = entry.cur]
  <2>1. ST!ResetEntry(entry) = r
    BY <1>4 DEF ST!ResetEntry
  <2>2. /\ r \in ST!Entry /\ r.cur = entry.cur /\ r.base = entry.cur
        /\ r.lastDelta = entry.lastDelta /\ ~r.deleted
    BY <1>1, <1>4 DEF ST!Entry
  <2> HIDE DEF r
  <2>3. EntryOK(r)
    BY <1>1, <1>4, <2>2 DEF EntryOK
  <2>4. \A d \in Dir : Account(r, rep2, d) = Account(entry, rep, d)
    BY <1>1, <1>2, <2>2, WireGuardAssumption DEF Account
  <2> QED BY <1>2, <2>1, <2>3, <2>4 DEF rep2
<1> QED BY <1>3, <1>4

(* Marking an entry deleted leaves its account. *)
LEMMA AnyRemoveKeeps ==
  ASSUME NEW entry, EntryOK(entry), NEW rep
  PROVE  /\ EntryOK(ST!MarkDeleted(entry))
         /\ \A d \in Dir : Account(ST!MarkDeleted(entry), rep, d) = Account(entry, rep, d)
<1>1. /\ entry \in ST!Entry /\ entry # NoEntry
      /\ \A d \in Dir : entry.cur[d] \in Nat /\ entry.base[d] \in Int
  BY WireGuardAssumption DEF EntryOK, ST!Entry
<1>2. ST!Delta(entry) \in [Dir -> Int] /\ \A d \in Dir : ST!Delta(entry)[d] = entry.cur[d] - entry.base[d]
  BY <1>1 DEF ST!Delta
<1>3. /\ ST!MarkDeleted(entry) \in ST!Entry /\ ST!MarkDeleted(entry) # NoEntry
      /\ ST!MarkDeleted(entry).cur = entry.cur /\ ST!MarkDeleted(entry).base = entry.base
      /\ ST!MarkDeleted(entry).deleted /\ ST!MarkDeleted(entry).lastDelta = ST!Delta(entry)
  <2> DEFINE d == ST!Delta(entry)
  <2>1. d \in [Dir -> Int] /\ ST!MarkDeleted(entry) = [entry EXCEPT !.deleted = TRUE, !.lastDelta = d]
    BY <1>2 DEF ST!MarkDeleted
  <2> HIDE DEF d
  <2>2. ST!MarkDeleted(entry) \in ST!Entry
    BY <1>1, <2>1 DEF ST!Entry
  <2>3. /\ ST!MarkDeleted(entry).cur = entry.cur /\ ST!MarkDeleted(entry).base = entry.base
        /\ ST!MarkDeleted(entry).deleted /\ ST!MarkDeleted(entry).lastDelta = d
    BY <1>1, <2>1 DEF ST!Entry
  <2> QED BY <2>2, <2>3, WireGuardAssumption DEF d
<1>4. EntryOK(ST!MarkDeleted(entry))
  BY <1>2, <1>3 DEF EntryOK
<1> QED BY <1>1, <1>3, <1>4 DEF Account

\* One key at a time again.
LEMMA EntryByEntry ==
  ASSUME counter' \in [Key -> [Dir -> Nat]], total' \in [Key -> [Dir -> Nat]],
         restarted' \in [Key -> 0..1], reported' \in [Key -> [Dir -> Int]],
         stats' = [k \in Key |-> stats'[k]],
         \A k \in Key : /\ stats'[k] = NoEntry \/ EntryOK(stats'[k])
                        /\ \A d \in Dir : Account(stats'[k], reported'[k], d)
                                          >= Account(stats[k], reported[k], d)
  PROVE  EntriesOK' /\ ST!NothingTakenBack
<1>1. \A k \in Key : stats'[k] \in ST!Entry \cup {NoEntry}
  BY DEF EntryOK
<1>2. stats' \in [Key -> ST!Entry \cup {NoEntry}]
  BY <1>1
<1>3. EntriesOK'
  BY <1>2 DEF EntriesOK, ST!TrackerTypeOK
<1>4. ST!NothingTakenBack
  BY AccountedIsAccount DEF ST!NothingTakenBack
<1> QED BY <1>3, <1>4

\* The types that the steps below start from.
LEMMA EntriesTypes ==
  ASSUME EntriesOK
  PROVE  /\ stats \in [Key -> ST!Entry \cup {NoEntry}]
         /\ counter \in [Key -> [Dir -> Nat]] /\ total \in [Key -> [Dir -> Nat]]
         /\ restarted \in [Key -> 0..1] /\ reported \in [Key -> [Dir -> Int]]
         /\ \A k \in Key : stats[k] = NoEntry \/ EntryOK(stats[k])
         /\ \A k \in Key, d \in Dir : Account(stats[k], reported[k], d)
                                      >= Account(stats[k], reported[k], d)
<1>1. /\ stats \in [Key -> ST!Entry \cup {NoEntry}]
      /\ counter \in [Key -> [Dir -> Nat]] /\ total \in [Key -> [Dir -> Nat]]
      /\ restarted \in [Key -> 0..1] /\ reported \in [Key -> [Dir -> Int]]
      /\ \A k \in Key : stats[k] = NoEntry \/ EntryOK(stats[k])
  BY DEF EntriesOK, ST!TrackerTypeOK
<1>2. \A k \in Key, d \in Dir : Account(stats[k], reported[k], d) \in Int
  BY <1>1, AccountIsInt
<1> QED BY <1>1, <1>2

\* ST!UpdateStatsBatch with samples of any age.
LEMMA AnySampleStep ==
  ASSUME EntriesOK, NEW samples,
         \A k \in DOMAIN samples : samples[k].email \in Email /\ samples[k].val \in [Dir -> Nat],
         ST!UpdateStatsBatch(samples)
  PROVE  EntriesOK' /\ ST!NothingTakenBack
<1>1. UNCHANGED <<counter, total, restarted, reported>>
  BY DEF ST!UpdateStatsBatch
<1>2. ASSUME NEW k \in Key
      PROVE  /\ stats'[k] = NoEntry \/ EntryOK(stats'[k])
             /\ \A d \in Dir : Account(stats'[k], reported'[k], d) >= Account(stats[k], reported[k], d)
  <2>1. CASE k \in DOMAIN samples
    <3>1. stats'[k] = ST!applySample(stats[k], samples[k].email, samples[k].val)
      BY <2>1 DEF ST!UpdateStatsBatch
    <3>2. (stats[k] = NoEntry \/ EntryOK(stats[k])) /\ reported[k] \in [Dir -> Int]
      BY EntriesTypes
    <3> QED BY <1>1, <2>1, <3>1, <3>2, AnySampleKeeps
  <2>2. CASE k \notin DOMAIN samples
    <3>1. stats'[k] = stats[k]
      BY <2>2 DEF ST!UpdateStatsBatch
    <3> QED BY <1>1, <3>1, EntriesTypes
  <2> QED BY <2>1, <2>2
<1>3. stats' = [k \in Key |-> stats'[k]]
  BY DEF ST!UpdateStatsBatch
<1> QED BY <1>1, <1>2, <1>3, EntriesTypes, EntryByEntry

\* GetStats with reset.
LEMMA AnyResetStep ==
  ASSUME EntriesOK, NEW keys, ST!GetStatsReset(keys)
  PROVE  EntriesOK' /\ ST!NothingTakenBack
<1>1. UNCHANGED <<counter, total, restarted>>
  BY DEF ST!GetStatsReset
<1>2. ASSUME NEW k \in Key
      PROVE  /\ reported'[k] \in [Dir -> Int]
             /\ stats'[k] = NoEntry \/ EntryOK(stats'[k])
             /\ \A d \in Dir : Account(stats'[k], reported'[k], d) >= Account(stats[k], reported[k], d)
  <2>1. /\ stats[k] = NoEntry \/ EntryOK(stats[k])
        /\ reported[k] \in [Dir -> Int]
        /\ \A d \in Dir : Account(stats[k], reported[k], d) >= Account(stats[k], reported[k], d)
    BY EntriesTypes
  <2>2. CASE k \in keys /\ stats[k] # NoEntry
    <3>1. /\ reported'[k] = [d \in Dir |-> reported[k][d] + ST!Reportable(stats[k])[d]]
          /\ stats'[k] = ST!ResetEntry(stats[k])
      BY <2>2 DEF ST!GetStatsReset
    <3>2. EntryOK(stats[k])
      BY <2>1, <2>2
    <3>3. /\ reported'[k] \in [Dir -> Int]
          /\ stats'[k] = NoEntry \/ EntryOK(stats'[k])
          /\ \A d \in Dir : Account(stats'[k], reported'[k], d) = Account(stats[k], reported[k], d)
      BY <2>1, <3>1, <3>2, AnyResetKeeps
    <3> QED BY <2>1, <3>3
  <2>3. CASE ~(k \in keys /\ stats[k] # NoEntry)
    <3>1. reported'[k] = reported[k] /\ stats'[k] = stats[k]
      BY <2>3 DEF ST!GetStatsReset
    <3> QED BY <2>1, <3>1
  <2> QED BY <2>2, <2>3
<1>3. stats' = [k \in Key |-> stats'[k]] /\ reported' = [k \in Key |-> reported'[k]]
  BY DEF ST!GetStatsReset
<1>4. reported' \in [Key -> [Dir -> Int]]
  BY <1>2, <1>3
<1> QED BY <1>1, <1>2, <1>3, <1>4, EntriesTypes, EntryByEntry

\* RemoveStats, at any time after the removal of the peer.
LEMMA AnyRemoveStep ==
  ASSUME EntriesOK, NEW k0 \in Key, stats' = ST!WithoutStats(k0),
         UNCHANGED <<counter, total, restarted, reported>>
  PROVE  EntriesOK' /\ ST!NothingTakenBack
<1>1. /\ stats' = [k \in Key |-> stats'[k]]
      /\ \A k \in Key : stats'[k] = IF k = k0 /\ stats[k] # NoEntry
                                    THEN ST!MarkDeleted(stats[k]) ELSE stats[k]
  BY EntriesTypes DEF ST!WithoutStats
<1>2. ASSUME NEW k \in Key
      PROVE  /\ stats'[k] = NoEntry \/ EntryOK(stats'[k])
             /\ \A d \in Dir : Account(stats'[k], reported'[k], d) >= Account(stats[k], reported[k], d)
  <2>1. /\ stats[k] = NoEntry \/ EntryOK(stats[k])
        /\ \A d \in Dir : Account(stats[k], reported[k], d) >= Account(stats[k], reported[k], d)
    BY EntriesTypes
  <2>2. CASE k = k0 /\ stats[k] # NoEntry
    <3>1. stats'[k] = ST!MarkDeleted(stats[k]) /\ EntryOK(stats[k])
      BY <1>1, <2>1, <2>2
    <3>2. /\ EntryOK(stats'[k])
          /\ \A d \in Dir : Account(stats'[k], reported'[k], d) = Account(stats[k], reported[k], d)
      BY <3>1, AnyRemoveKeeps
    <3> QED BY <2>1, <3>2
  <2>3. CASE ~(k = k0 /\ stats[k] # NoEntry)
    BY <1>1, <2>1, <2>3
  <2> QED BY <2>2, <2>3
<1> QED BY <1>1, <1>2, EntriesTypes, EntryByEntry

(* The cleanup drops only entries with nothing left to report. *)
LEMMA AnyCleanupStep ==
  ASSUME EntriesOK, ST!CleanupDeletedEntries
  PROVE  EntriesOK' /\ ST!NothingTakenBack
<1>1. UNCHANGED <<counter, total, restarted, reported>> /\ stats' = [k \in Key |-> stats'[k]]
  BY DEF ST!CleanupDeletedEntries
<1>2. ASSUME NEW k \in Key
      PROVE  /\ stats'[k] = NoEntry \/ EntryOK(stats'[k])
             /\ \A d \in Dir : Account(stats'[k], reported'[k], d) >= Account(stats[k], reported[k], d)
  <2>1. /\ stats[k] = NoEntry \/ EntryOK(stats[k])
        /\ \A d \in Dir : Account(stats[k], reported[k], d) >= Account(stats[k], reported[k], d)
        /\ reported[k] \in [Dir -> Int]
    BY EntriesTypes
  <2>2. CASE ST!FullyReported(stats[k])
    <3>1. stats'[k] = NoEntry /\ EntryOK(stats[k]) /\ stats[k] # NoEntry /\ stats[k].cur = stats[k].base
      BY <2>1, <2>2 DEF ST!CleanupDeletedEntries, ST!FullyReported
    <3>2. \A d \in Dir : stats[k].cur[d] \in Nat /\ reported[k][d] \in Int
      BY <2>1, <3>1 DEF EntryOK, ST!Entry
    <3> QED BY <1>1, <3>1, <3>2 DEF Account
  <2>3. CASE ~ST!FullyReported(stats[k])
    <3>1. stats'[k] = stats[k]
      BY <2>3 DEF ST!CleanupDeletedEntries
    <3> QED BY <1>1, <2>1, <3>1
  <2> QED BY <2>2, <2>3
<1> QED BY <1>1, <1>2, EntriesTypes, EntryByEntry

\* The kernel alone: counters grow or restart.
LEMMA AnyKernelStep ==
  ASSUME EntriesOK, UNCHANGED <<stats, reported>>,
         counter' \in [Key -> [Dir -> Nat]], total' \in [Key -> [Dir -> Nat]],
         restarted' \in [Key -> 0..1]
  PROVE  EntriesOK' /\ ST!NothingTakenBack
BY EntriesTypes, EntryByEntry

(* The empty tracker satisfies the invariant of the entries. *)
LEMMA EntriesInit == ST!TrackerInit => EntriesOK
BY DEF ST!TrackerInit, EntriesOK, ST!TrackerTypeOK, ST!Zero

-----------------------------------------------------------------------------
(* The stats loop and the queries.                                         *)

\* The maps of some keys to values.
Snapshot(Values) == UNION {[K -> Values] : K \in SUBSET Key}

(* The empty function is a snapshot. *)
LEMMA EmptySnapshot ==
  ASSUME NEW Values
  PROVE  << >> \in Snapshot(Values) /\ DOMAIN << >> = {}
<1>1. << >> \in [{} -> Values] /\ DOMAIN << >> = {}
  OBVIOUS
<1>2. {} \in SUBSET Key
  OBVIOUS
<1> QED BY <1>1, <1>2 DEF Snapshot

\* A snapshot of some keys.
LEMMA SomeSnapshot ==
  ASSUME NEW Values, NEW K \in SUBSET Key, NEW f \in [K -> Values]
  PROVE  f \in Snapshot(Values)
BY DEF Snapshot

\* The loop has emails only while it is about to apply them, and those of keys
\* it has sampled.
ReadOK ==
  /\ poll \in [pc : PollTypes, val : Snapshot([Dir -> Nat]), email : Snapshot(Email)]
  /\ DOMAIN poll.email \subseteq DOMAIN poll.val
  /\ poll.pc # "apply" => poll.email = << >>
  /\ lookup \in Key \cup {NoKey}

(* An idle poll holds an empty snapshot. *)
LEMMA PollIdleOK ==
  /\ PollIdle \in [pc : PollTypes, val : Snapshot([Dir -> Nat]), email : Snapshot(Email)]
  /\ PollIdle.email = << >> /\ DOMAIN PollIdle.email \subseteq DOMAIN PollIdle.val
<1>1. "idle" \in PollTypes
  BY DEF PollTypes
<1> QED BY <1>1, EmptySnapshot DEF PollIdle

(* A snapshot maps some of the keys to its values. *)
LEMMA SnapshotFacts ==
  ASSUME NEW Values, NEW f \in Snapshot(Values)
  PROVE  DOMAIN f \subseteq Key /\ \A k \in DOMAIN f : f[k] \in Values
BY DEF Snapshot

(* Every step keeps what a poll and a reader hold well-formed. *)
LEMMA ReadStep ==
  ASSUME StoreInv, ReadOK, EntriesOK, SyncTypeOK, [Next]_vars
  PROVE  ReadOK'
<1>0. /\ poll \in [pc : PollTypes, val : Snapshot([Dir -> Nat]), email : Snapshot(Email)]
      /\ poll.val \in Snapshot([Dir -> Nat]) /\ poll.email \in Snapshot(Email) /\ poll.pc \in PollTypes
  BY DEF ReadOK
<1>1. CASE UNCHANGED readVars
  BY <1>1 DEF ReadOK, readVars
<1>2. CASE PollStart
  <2>1. poll.pc = "idle" /\ poll' = [poll EXCEPT !.pc = "device"] /\ lookup' = lookup
    BY <1>2 DEF PollStart
  <2> QED BY <1>0, <2>1 DEF ReadOK, PollTypes
<1>3. CASE PollDevice
  <2>1. lookup' = lookup /\ poll.pc = "device" /\ poll.email = << >>
    BY <1>3 DEF PollDevice, ReadOK
  <2>2. CASE poll' = [poll EXCEPT !.pc = "idle"]
    BY <1>0, <2>1, <2>2 DEF ReadOK, PollTypes
  <2>3. ASSUME NEW K \in SUBSET Live,
               poll' = [poll EXCEPT !.pc = "emails", !.val = [k \in K |-> counter[k]]]
        PROVE  ReadOK'
    <3> DEFINE f == [k \in K |-> counter[k]]
    <3>1. K \in SUBSET Key
      BY DEF Live
    <3>2. f \in [K -> [Dir -> Nat]]
      BY <3>1, EntriesTypes
    <3>3. f \in Snapshot([Dir -> Nat])
      BY <3>1, <3>2, SomeSnapshot
    <3> HIDE DEF f
    <3>4. poll' = [poll EXCEPT !.pc = "emails", !.val = f]
      BY <2>3 DEF f
    <3>5. /\ poll' \in [pc : PollTypes, val : Snapshot([Dir -> Nat]), email : Snapshot(Email)]
          /\ poll'.email = << >>
      BY <1>0, <2>1, <3>3, <3>4 DEF PollTypes
    <3>6. DOMAIN poll'.email = {}
      BY <3>5, EmptySnapshot
    <3> QED BY <2>1, <3>5, <3>6 DEF ReadOK
  <2> QED BY <1>3, <2>2, <2>3 DEF PollDevice
<1>4. CASE PollEmails
  <2> DEFINE K == {l \in DOMAIN poll.val : peers[l] # NoPeer}
             f == [k \in K |-> peers[k].email]
  <2>1. /\ lookup' = lookup /\ poll' = [poll EXCEPT !.pc = "apply", !.email = f]
    BY <1>4 DEF PollEmails
  <2>2. DOMAIN poll.val \subseteq Key
    BY <1>0, SnapshotFacts
  <2>3. \A k \in Key : peers[k] # NoPeer => peers[k].email \in Email
    BY DEF StoreInv, PeerStoreTypeOK, PeerInfo
  <2>4. K \in SUBSET Key /\ K \subseteq DOMAIN poll.val
    BY <2>2
  <2>5. f \in [K -> Email] /\ DOMAIN f = K
    BY <2>3, <2>4
  <2> HIDE DEF K
  <2>6. f \in Snapshot(Email)
    BY <2>4, <2>5, SomeSnapshot
  <2> HIDE DEF f
  <2>7. /\ poll' \in [pc : PollTypes, val : Snapshot([Dir -> Nat]), email : Snapshot(Email)]
        /\ poll'.email = f /\ poll'.val = poll.val /\ poll'.pc = "apply"
    BY <1>0, <2>1, <2>6 DEF PollTypes
  <2> QED BY <2>1, <2>4, <2>5, <2>7 DEF ReadOK
<1>5. CASE PollApply \/ PollCancelled
  <2>1. poll' = PollIdle /\ lookup' = lookup
    BY <1>5 DEF PollApply, PollCancelled
  <2> QED BY <2>1, PollIdleOK DEF ReadOK
<1>6. CASE UserStatsRead
  <2>1. poll' = poll /\ lookup' = NoKey
    BY <1>6 DEF UserStatsRead
  <2> QED BY <2>1 DEF ReadOK
<1>7. ASSUME NEW e \in Email, UserStatsLookup(e) PROVE ReadOK'
  <2>1. poll' = poll /\ GetByEmail(e) # NoPeer /\ lookup' = GetByEmail(e).key
    BY <1>7 DEF UserStatsLookup
  <2>2. GetByEmail(e) \in PeerInfo
    BY <2>1, StoreFacts
  <2>3. lookup' \in Key
    BY <2>1, <2>2 DEF PeerInfo
  <2> QED BY <2>1, <2>3 DEF ReadOK
<1>8. CASE PollCleanup \/ GetUsersStats \/ Traffic
  BY <1>1, <1>8 DEF PollCleanup, GetUsersStats, Traffic
<1>9. CASE SyncNext
  <2>1. UNCHANGED readVars
    <3>1. CASE \E r \in Requests : New(r)
      BY <3>1 DEF New
    <3>2. ASSUME NEW c \in Caller, Call(c) PROVE UNCHANGED readVars
      BY <3>2 DEF Call, syncUsersFull, syncUsersPartialReconcile, Restart
    <3>3. ASSUME NEW c \in Caller, Step(c) PROVE UNCHANGED readVars
      <4>1. CASE EnsureRunning(c) \/ ConfigureClosed(c) \/ ApplyPeers(c) \/ ApplyPeersReplaceAll(c)
        BY <4>1 DEF EnsureRunning, ConfigureClosed, ApplyPeers, ApplyPeersReplaceAll
      <4>2. CASE KernelError(c) \/ RemoveStats(c) \/ SyncDone(c)
        BY <4>2 DEF KernelError, RemoveStats, SyncDone
      <4>3. CASE CommitFull(c) \/ CommitPartial(c) \/ CommitUpsert(c) \/ CommitReturn(c)
        BY <4>3 DEF CommitFull, CommitPartial, CommitUpsert, CommitReturn
      <4> QED BY <3>3, <4>1, <4>2, <4>3 DEF Step
    <3>4. CASE Shutdown
      BY <3>4 DEF Shutdown
    <3> QED BY <1>9, <3>1, <3>2, <3>3, <3>4 DEF SyncNext
  <2> QED BY <1>1, <2>1
<1>10. CASE UNCHANGED vars
  BY <1>1, <1>10 DEF vars
<1> QED BY <1>2, <1>3, <1>4, <1>5, <1>6, <1>7, <1>8, <1>9, <1>10 DEF Next, StatsNext, StatsLoop

\* The counters restart for some keys, and nothing else happens to the tracker.
LEMMA RestartStep ==
  ASSUME EntriesOK, NEW K, ST!RestartCounters(K), UNCHANGED <<stats, total, reported>>
  PROVE  EntriesOK' /\ ST!NothingTakenBack
<1>1. /\ counter \in [Key -> [Dir -> Nat]] /\ total \in [Key -> [Dir -> Nat]]
      /\ restarted \in [Key -> 0..1]
  BY EntriesTypes
<1>2. ST!Zero \in [Dir -> Nat]
  BY DEF ST!Zero
<1>3. counter' \in [Key -> [Dir -> Nat]] /\ restarted' \in [Key -> 0..1]
  BY <1>1, <1>2 DEF ST!RestartCounters
<1> QED BY <1>1, <1>3, AnyKernelStep

(* A step that leaves the tracker alone takes nothing back. *)
LEMMA SameTrackerStep ==
  ASSUME EntriesOK, UNCHANGED trackerVars
  PROVE  EntriesOK' /\ ST!NothingTakenBack
<1>1. UNCHANGED <<stats, counter, total, restarted, reported>>
  BY DEF trackerVars
<1> QED BY <1>1, EntriesTypes, AnyKernelStep

(* Every step keeps the entries well-formed and takes nothing back. *)
LEMMA EntriesStep ==
  ASSUME StoreInv, ReadOK, EntriesOK, [Next]_vars
  PROVE  EntriesOK' /\ ST!NothingTakenBack
<1>1. CASE \E r \in Requests : New(r)
  BY <1>1, SameTrackerStep DEF New
<1>2. ASSUME NEW c \in Caller, Call(c) PROVE EntriesOK' /\ ST!NothingTakenBack
  <2>1. UNCHANGED trackerVars
    BY <1>2 DEF Call, syncUsersFull, syncUsersPartialReconcile, Restart
  <2> QED BY <2>1, SameTrackerStep
<1>3. ASSUME NEW c \in Caller, Step(c) PROVE EntriesOK' /\ ST!NothingTakenBack
  <2>1. CASE EnsureRunning(c) \/ ConfigureClosed(c) \/ SyncDone(c)
    BY <2>1, SameTrackerStep DEF EnsureRunning, ConfigureClosed, SyncDone
  <2>2. CASE CommitFull(c) \/ CommitPartial(c) \/ CommitUpsert(c) \/ CommitReturn(c)
    BY <2>2, SameTrackerStep DEF CommitFull, CommitPartial, CommitUpsert, CommitReturn
  <2>3. CASE ApplyPeers(c) \/ ApplyPeersReplaceAll(c)
    <3>1. UNCHANGED <<stats, total, reported>> /\ \E K \in {diff[c].remove \cap Live, Live} : ST!RestartCounters(K)
      BY <2>3 DEF ApplyPeers, ApplyPeersReplaceAll
    <3> QED BY <3>1, RestartStep
  <2>4. CASE KernelError(c)
    <3>1. UNCHANGED <<stats, total, reported>>
      BY <2>4 DEF KernelError
    <3>2. \/ \E rm \in SUBSET diff[c].remove : ST!RestartCounters(rm \cap Live)
          \/ ST!RestartCounters(Live)
          \/ UNCHANGED <<counter, restarted>>
      BY <2>4 DEF KernelError
    <3>3. CASE UNCHANGED <<counter, restarted>>
      BY <3>1, <3>3, SameTrackerStep DEF trackerVars
    <3> QED BY <3>1, <3>2, <3>3, RestartStep
  <2>5. CASE RemoveStats(c)
    <3>1. PICK k \in removed : stats' = ST!WithoutStats(k)
      BY <2>5 DEF RemoveStats
    <3>2. k \in Key
      BY DEF StoreInv, PeerStoreTypeOK
    <3>3. UNCHANGED <<counter, total, restarted, reported>>
      BY <2>5 DEF RemoveStats
    <3> QED BY <3>1, <3>2, <3>3, AnyRemoveStep
  <2> QED BY <1>3, <2>1, <2>2, <2>3, <2>4, <2>5 DEF Step
<1>4. CASE Shutdown
  <2>1. UNCHANGED <<stats, total, reported>> /\ (ST!RestartCounters(Live) \/ UNCHANGED <<counter, restarted>>)
    BY <1>4 DEF Shutdown
  <2>2. CASE UNCHANGED <<counter, restarted>>
    BY <2>1, <2>2, SameTrackerStep DEF trackerVars
  <2> QED BY <2>1, <2>2, RestartStep
<1>5. CASE PollStart \/ PollDevice \/ PollEmails \/ PollCancelled
  BY <1>5, SameTrackerStep DEF PollStart, PollDevice, PollEmails, PollCancelled
<1>6. CASE PollApply
  <2> DEFINE samples == [k \in DOMAIN poll.email |-> [email |-> poll.email[k], val |-> poll.val[k]]]
  <2>1. ST!UpdateStatsBatch(samples)
    BY <1>6 DEF PollApply
  <2>2. /\ DOMAIN poll.email \subseteq DOMAIN poll.val
        /\ poll.val \in Snapshot([Dir -> Nat]) /\ poll.email \in Snapshot(Email)
    BY DEF ReadOK
  <2>3. \A k \in DOMAIN samples : samples[k].email \in Email /\ samples[k].val \in [Dir -> Nat]
    BY <2>2, SnapshotFacts
  <2> HIDE DEF samples
  <2> QED BY <2>1, <2>3, AnySampleStep
<1>7. CASE PollCleanup
  BY <1>7, AnyCleanupStep DEF PollCleanup
<1>8. CASE GetUsersStats \/ UserStatsRead
  BY <1>8, AnyResetStep DEF GetUsersStats, UserStatsRead
<1>9. ASSUME NEW e \in Email, UserStatsLookup(e) PROVE EntriesOK' /\ ST!NothingTakenBack
  BY <1>9, SameTrackerStep DEF UserStatsLookup
<1>10. CASE Traffic
  <2>1. PICK k \in Key, d \in Dir : ST!Transfer(k, d)
    BY <1>10 DEF Traffic, Live
  <2>2. /\ counter \in [Key -> [Dir -> Nat]] /\ total \in [Key -> [Dir -> Nat]]
        /\ restarted \in [Key -> 0..1]
    BY EntriesTypes
  <2>3. /\ counter' \in [Key -> [Dir -> Nat]] /\ total' \in [Key -> [Dir -> Nat]]
        /\ UNCHANGED <<stats, restarted, reported>>
    BY <2>1, <2>2 DEF ST!Transfer
  <2> QED BY <2>2, <2>3, AnyKernelStep
<1>11. CASE UNCHANGED vars
  BY <1>11, SameTrackerStep DEF vars
<1> QED BY <1>1, <1>2, <1>3, <1>4, <1>5, <1>6, <1>7, <1>8, <1>9, <1>10, <1>11
        DEF Next, SyncNext, StatsNext, StatsLoop

\* Types and accounting hold together: the emails of a poll come from the
\* store, and the keys that RemoveStats is given come from ApplyChanges.
LEMMA BackendInvariant ==
  ASSUME CanonicalKeys
  PROVE  Spec => [](SyncInv /\ ReadOK /\ EntriesOK)
<1>1. Init => ReadOK /\ EntriesOK
  <2> SUFFICES ASSUME Init PROVE ReadOK /\ EntriesOK
    OBVIOUS
  <2>1. poll = PollIdle /\ lookup = NoKey /\ ST!TrackerInit
    BY DEF Init, PollIdle
  <2>2. ReadOK
    BY <2>1, PollIdleOK DEF ReadOK
  <2> QED BY <2>1, <2>2, EntriesInit
<1>2. SyncInv /\ ReadOK /\ EntriesOK /\ [Next]_vars => SyncInv' /\ ReadOK' /\ EntriesOK'
  <2> SUFFICES ASSUME SyncInv, ReadOK, EntriesOK, [Next]_vars
               PROVE  SyncInv' /\ ReadOK' /\ EntriesOK'
    OBVIOUS
  <2>1. StoreInv /\ SyncTypeOK
    BY DEF SyncInv
  <2> QED BY <2>1, SyncInvStep, ReadStep, EntriesStep
<1> QED BY <1>1, <1>2, SyncInvInit, PTL DEF Spec

\* The fields of the backend and the locals of its callers have their types.
THEOREM BackendTypes ==
  ASSUME CanonicalKeys
  PROVE  Spec => []WGTypeOK
<1>1. SyncInv /\ ReadOK /\ EntriesOK => WGTypeOK
  <2>1. \A Values : \A f \in Snapshot(Values) : IsSnapshot(f, Values)
    BY DEF Snapshot, IsSnapshot
  <2>2. ReadOK => /\ poll = [pc |-> poll.pc, val |-> poll.val, email |-> poll.email]
                  /\ poll.pc \in PollTypes
                  /\ IsSnapshot(poll.val, [Dir -> Nat]) /\ IsSnapshot(poll.email, Email)
    BY <2>1 DEF ReadOK
  <2> QED BY <2>2 DEF SyncInv, StoreInv, SyncTypeOK, ReadOK, EntriesOK, WGTypeOK
<1> QED BY <1>1, BackendInvariant, PTL

\* Whatever the interleaving of polls, syncs and queries, also with samples
\* that a removal has overtaken: bytes once accounted to a key are never taken
\* back (tracker.go:90, tracker.go:270).
THEOREM SampledBytesStay ==
  ASSUME CanonicalKeys
  PROVE  Spec => SampledNeverLost
<1>1. SyncInv /\ ReadOK /\ EntriesOK /\ [Next]_vars => [ST!NothingTakenBack]_vars
  <2> SUFFICES ASSUME SyncInv, ReadOK, EntriesOK, [Next]_vars PROVE ST!NothingTakenBack
    OBVIOUS
  <2>1. StoreInv
    BY DEF SyncInv
  <2> QED BY <2>1, EntriesStep
<1> QED BY <1>1, BackendInvariant, PTL DEF Spec, SampledNeverLost
=============================================================================
