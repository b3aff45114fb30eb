-------------------------- MODULE StatsTrackerProofs --------------------------
(***************************************************************************)
(* The accounting of the stats tracker beside the sampling job, proved for *)
(* every set of keys and directions and for traffic without bound.         *)
(*                                                                         *)
(* "Over-reported by late samples only" is not inductive: whether a sample *)
(* may add bytes depends on how the kernel counter and the sample in the   *)
(* job's hands stand to the last sample, and on what a deleted entry will  *)
(* restore.  Good says, of each of the three states of an entry, how many  *)
(* bytes the counter can still add; HandOK says it of the sample in hand,  *)
(* and TwiceOK that its bytes were not charged again before.               *)
(***************************************************************************)
EXTENDS StatsSampler, TLAPS

Bytes == [Dir -> Nat]

\* A key without an entry: a sample creates one with a zero baseline.
AbsentOK(cnt, tot, rep, rst) ==
  \A d \in Dir : rep[d] + cnt[d] <= tot[d] /\ (rst = 0 => rep[d] = 0)

\* An entry whose peer was removed: its counters started again from zero.
DeletedOK(entry, cnt, tot, rep, rst) ==
  /\ rst # 0
  /\ \A d \in Dir : /\ entry.base[d] <= entry.cur[d]
                    /\ entry.lastDelta[d] = entry.cur[d] - entry.base[d]
                    /\ rep[d] + (entry.cur[d] - entry.base[d]) + cnt[d] <= tot[d]

\* An entry in use: the next sample adds the growth of the counter, if any.
\* Before the first restart the baseline is exactly what was reported.
LiveOK(entry, cnt, tot, rep, rst) ==
  /\ entry.lastDelta = Zero
  /\ \A d \in Dir : /\ entry.base[d] <= entry.cur[d]
                    /\ rep[d] + (entry.cur[d] - entry.base[d]) <= tot[d]
                    /\ rep[d] + (cnt[d] - entry.base[d]) <= tot[d]
                    /\ rst = 0 => rep[d] = entry.base[d] /\ entry.cur[d] <= cnt[d]

Good(entry, cnt, tot, rep, rst) ==
  \/ entry = NoEntry /\ AbsentOK(cnt, tot, rep, rst)
  \/ entry \in Entry /\ entry.deleted /\ DeletedOK(entry, cnt, tot, rep, rst)
  \/ entry \in Entry /\ ~entry.deleted /\ LiveOK(entry, cnt, tot, rep, rst)

\* The sample in the job's hands (hand is empty or holds its values; old is 1
\* when the entry was marked deleted since the read), for each state of the entry.
HandOK(entry, cnt, lim, rep, rst, hand, old) ==
  \A v \in hand, d \in Dir :
    /\ rst = 0 => old = 0 /\ v[d] <= cnt[d]
    /\ entry = NoEntry /\ old = 0 => rep[d] + v[d] <= lim[d]
    /\ entry # NoEntry =>
         /\ rep[d] + (v[d] - entry.base[d]) <= lim[d]
         /\ rep[d] + (entry.cur[d] - entry.base[d]) + (cnt[d] - v[d]) <= lim[d]
         /\ entry.deleted /\ old = 0 => rep[d] + (entry.cur[d] - entry.base[d]) + v[d] <= lim[d]
         /\ rst = 0 => entry.cur[d] <= v[d]

\* The bytes of a sample are charged again at most once: the next one belongs
\* to a later life of the counter.
TwiceOK(cnt, tot, rech, hand, old) ==
  \A d \in Dir :
    /\ rech[d] + cnt[d] <= tot[d]
    /\ \A v \in hand : \/ v[d] <= cnt[d] /\ old = 0
                       \/ rech[d] + v[d] + cnt[d] <= tot[d]

\* What a key may be charged.
Lim(tot, rech) == [d \in Dir |-> tot[d] + rech[d]]

KeyGood(entry, cnt, tot, rep, rst, rech, hand, old) ==
  /\ Good(entry, cnt, Lim(tot, rech), rep, rst)
  /\ HandOK(entry, cnt, Lim(tot, rech), rep, rst, hand, old)
  /\ TwiceOK(cnt, tot, rech, hand, old)

Old(k) == IF k \in stale THEN 1 ELSE 0
Hand(k) == IF k \in DOMAIN device THEN {device[k]} ELSE {}

\* The inductive invariant.
SamplerInv ==
  /\ SamplerTypeOK
  /\ at # "emails" => emails = NoKeys
  /\ \A k \in removing : counter[k] = Zero /\ restarted[k] = 1
  /\ \A k \in Key : KeyGood(stats[k], counter[k], total[k], reported[k], restarted[k],
                            recharged[k], Hand(k), Old(k))

\* What is accounted to a key, from the values alone.
Account(entry, rep, d) ==
  rep[d] + (IF entry = NoEntry THEN 0 ELSE entry.cur[d] - entry.base[d])

\* Facts about one entry that a sample relies on.
EntryOK(entry) ==
  /\ entry \in Entry
  /\ \A d \in Dir : entry.base[d] <= entry.cur[d]
  /\ entry.deleted => \A d \in Dir : entry.lastDelta[d] = entry.cur[d] - entry.base[d]
  /\ ~entry.deleted => entry.lastDelta = Zero

\* What a sample with values val makes of an entry: a live one, whose pending
\* bytes are kept (re-add or rollback) or grow with the counter.
Sampled(a, entry, val) ==
  /\ a \in Entry
  /\ ~a.deleted
  /\ a.lastDelta = Zero
  /\ a.cur = val
  /\ \/ /\ \A d \in Dir : a.base[d] = val[d] - (entry.cur[d] - entry.base[d])
        /\ entry.deleted \/ \E d \in Dir : val[d] < entry.cur[d]
     \/ /\ \A d \in Dir : val[d] >= entry.cur[d]
        /\ a.base = entry.base
        /\ entry.deleted => \A d \in Dir : entry.base[d] = entry.cur[d]

-----------------------------------------------------------------------------
\* What a sample does to a key that has no entry: the whole counter pends.
LEMMA SampleCreates ==
  ASSUME NEW email \in Email, NEW val \in [Dir -> Nat]
  PROVE  applySample(NoEntry, email, val) =
           [email |-> email, cur |-> val, base |-> Zero, lastDelta |-> Zero, deleted |-> FALSE]
<1> DEFINE t == [email |-> email, cur |-> Zero, base |-> Zero, lastDelta |-> Zero, deleted |-> FALSE]
<1>1. Touched(NoEntry, email) = t
  BY DEF Touched
<1>2. ~Readded(t)
  BY DEF Readded, Zero
<1>3. RestoreBaseline(t, val) = t
  BY <1>2 DEF RestoreBaseline
<1>4. ~RolledBack(t, val)
  BY DEF RolledBack, Zero
<1>5. RebaseOnRollback(t, val) = t
  BY <1>4 DEF RebaseOnRollback
<1>6. applySample(NoEntry, email, val) = IF t.cur = val THEN t ELSE [t EXCEPT !.cur = val]
  BY <1>1, <1>2, <1>3, <1>5 DEF applySample
<1> QED BY <1>6

\* What a sample does to an entry.
LEMMA SampleUpdates ==
  ASSUME NEW entry, EntryOK(entry), NEW email \in Email, NEW val \in [Dir -> Nat]
  PROVE  Sampled(applySample(entry, email, val), entry, val)
<1> DEFINE t == [entry EXCEPT !.email = email, !.deleted = FALSE]
           a == applySample(entry, email, val)
<1>1. /\ t \in Entry /\ t.cur = entry.cur /\ t.base = entry.base
      /\ t.lastDelta = entry.lastDelta /\ ~t.deleted
      /\ entry.cur \in [Dir -> Nat] /\ entry.base \in [Dir -> Int]
      /\ entry.lastDelta \in [Dir -> Int] /\ entry.deleted \in BOOLEAN
  BY DEF EntryOK, Entry
<1>2. entry # NoEntry
  BY StatsAssumption DEF EntryOK
<1>3. Touched(entry, email) = t
  BY <1>2 DEF Touched
<1> HIDE DEF t
<1>4. Zero \in [Dir -> Int]
  BY DEF Zero
<1>5. CASE Readded(t)
  <2> DEFINE nb == [d \in Dir |-> val[d] - t.lastDelta[d]]
             r == [t EXCEPT !.base = nb, !.lastDelta = Zero]
  <2>1. RestoreBaseline(t, val) = r
    BY <1>5 DEF RestoreBaseline
  <2>2. nb \in [Dir -> Int]
    BY <1>1
  <2>3. a = IF r.cur = val THEN r ELSE [r EXCEPT !.cur = val]
    BY <1>3, <1>5, <2>1 DEF applySample
  <2>4. r \in Entry /\ r.base = nb /\ r.lastDelta = Zero /\ ~r.deleted
    <3> HIDE DEF nb
    <3> QED BY <1>1, <1>4, <2>2 DEF Entry
  <2>5. a \in Entry /\ a.base = nb /\ a.lastDelta = Zero /\ ~a.deleted /\ a.cur = val
    <3> HIDE DEF nb, r, a
    <3> QED BY <2>3, <2>4 DEF Entry
  <2>6. entry.deleted
    BY <1>1, <1>5 DEF EntryOK, Readded, Zero
  <2>7. \A d \in Dir : nb[d] = val[d] - (entry.cur[d] - entry.base[d])
    BY <1>1, <2>6 DEF EntryOK
  <2> HIDE DEF nb, a
  <2>8. Sampled(a, entry, val)
    BY <2>5, <2>6, <2>7 DEF Sampled
  <2> QED BY <2>8 DEF a
<1>6. CASE ~Readded(t)
  <2>1. t.lastDelta = Zero
    BY <1>1, <1>6 DEF Readded, Zero
  <2>2. RestoreBaseline(t, val) = t
    BY <1>6 DEF RestoreBaseline
  <2>3. a = IF t.cur = val THEN t ELSE [RebaseOnRollback(t, val) EXCEPT !.cur = val]
    BY <1>3, <1>6, <2>2 DEF applySample
  <2>4. \A d \in Dir : Delta(t)[d] = entry.cur[d] - entry.base[d] /\ Delta(t)[d] >= 0
    BY <1>1 DEF Delta, EntryOK
  <2>5. entry.deleted => \A d \in Dir : entry.base[d] = entry.cur[d]
    <3> SUFFICES ASSUME entry.deleted, NEW d \in Dir
                 PROVE  entry.base[d] = entry.cur[d]
      OBVIOUS
    <3>1. entry.lastDelta[d] = 0
      BY <1>1, <2>1 DEF Zero
    <3>2. entry.lastDelta[d] = entry.cur[d] - entry.base[d]
      BY DEF EntryOK
    <3>3. entry.cur[d] \in Int /\ entry.base[d] \in Int
      BY <1>1
    <3> QED BY <3>1, <3>2, <3>3
  <2>6. CASE RolledBack(t, val)
    <3> DEFINE nb == [d \in Dir |-> val[d] - PendingOrZero(t, d)]
    <3>1. nb \in [Dir -> Int]
          /\ \A d \in Dir : nb[d] = val[d] - (entry.cur[d] - entry.base[d])
      BY <1>1, <2>4 DEF PendingOrZero
    <3>2. t.cur # val
      BY <1>1, <2>6 DEF RolledBack
    <3> DEFINE b == [t EXCEPT !.base = nb]
    <3>3. a = [b EXCEPT !.cur = val]
      BY <2>3, <2>6, <3>2 DEF RebaseOnRollback
    <3> HIDE DEF nb, a
    <3>a. b \in Entry /\ b.base = nb /\ b.lastDelta = Zero /\ ~b.deleted
      BY <1>1, <2>1, <3>1 DEF Entry
    <3> HIDE DEF b
    <3>4. a \in Entry /\ a.base = nb /\ a.lastDelta = Zero /\ ~a.deleted /\ a.cur = val
      BY <3>a, <3>3 DEF Entry
    <3>b. \E d \in Dir : val[d] < entry.cur[d]
      BY <1>1, <2>6 DEF RolledBack
    <3>5. Sampled(a, entry, val)
      BY <3>1, <3>4, <3>b DEF Sampled
    <3> QED BY <3>5 DEF a
  <2>7. CASE ~RolledBack(t, val)
    <3>1. \A d \in Dir : val[d] >= entry.cur[d]
      BY <1>1, <2>7 DEF RolledBack
    <3>2. a = IF t.cur = val THEN t ELSE [t EXCEPT !.cur = val]
      BY <2>3, <2>7 DEF RebaseOnRollback
    <3> HIDE DEF a
    <3>3. a \in Entry /\ a.base = entry.base /\ a.lastDelta = Zero /\ ~a.deleted /\ a.cur = val
      BY <1>1, <2>1, <3>2 DEF Entry
    <3>4. Sampled(a, entry, val)
      BY <2>5, <3>1, <3>3 DEF Sampled
    <3> QED BY <3>4 DEF a
  <2> QED BY <2>6, <2>7
<1> QED BY <1>5, <1>6

-----------------------------------------------------------------------------
(* What each operation does to one key: Good is kept, and what is accounted *)
(* to the key does not shrink.                                             *)

\* The limits before and after a sample with values v has created an entry.
Room(cnt, lim, lim2, rep, rst, v) ==
  \A d \in Dir : /\ lim[d] <= lim2[d] /\ rep[d] + v[d] <= lim2[d]
                 /\ rst = 0 => v[d] <= cnt[d]

\* A sample that finds no entry: one is created with a zero baseline.  lim2 is
\* the limit after the step, which a late sample raises.
LEMMA GoodCreate ==
  ASSUME NEW cnt \in Bytes, NEW lim \in Bytes, NEW lim2 \in Bytes,
         NEW rep \in [Dir -> Int], NEW rst \in 0..1, NEW email \in Email, NEW v \in Bytes,
         Good(NoEntry, cnt, lim, rep, rst),
         Room(cnt, lim, lim2, rep, rst, v)
  PROVE  LET a == applySample(NoEntry, email, v)
         IN  /\ a \in Entry
             /\ Good(a, cnt, lim2, rep, rst)
             /\ \A d \in Dir : Account(a, rep, d) >= Account(NoEntry, rep, d)
<1> DEFINE a == applySample(NoEntry, email, v)
<1> SUFFICES /\ a \in Entry
             /\ Good(a, cnt, lim2, rep, rst)
             /\ \A d \in Dir : Account(a, rep, d) >= Account(NoEntry, rep, d)
  OBVIOUS
<1>0. \A d \in Dir : cnt[d] \in Nat /\ lim[d] \in Nat /\ lim2[d] \in Nat /\ rep[d] \in Int /\ v[d] \in Nat
  BY DEF Bytes
<1>1. a = [email |-> email, cur |-> v, base |-> Zero, lastDelta |-> Zero, deleted |-> FALSE]
  BY SampleCreates DEF Bytes
<1> HIDE DEF a
<1>2. /\ a \in Entry /\ a.cur = v /\ a.lastDelta = Zero /\ ~a.deleted
      /\ \A d \in Dir : a.base[d] = 0
  BY <1>1 DEF Entry, Zero, Bytes
<1>3. AbsentOK(cnt, lim, rep, rst)
  BY StatsAssumption DEF Good
<1>4. ASSUME NEW d \in Dir
      PROVE  /\ rep[d] + v[d] <= lim2[d] /\ rep[d] + cnt[d] <= lim2[d]
             /\ rst = 0 => rep[d] = 0 /\ v[d] <= cnt[d]
  BY <1>0, <1>3 DEF AbsentOK, Room
<1>5. LiveOK(a, cnt, lim2, rep, rst)
  <2>1. \A d \in Dir : a.base[d] = 0 /\ a.cur[d] = v[d]
    BY <1>2
  <2> QED BY <1>0, <1>2, <1>4, <2>1 DEF LiveOK
<1>6. \A d \in Dir : Account(a, rep, d) >= Account(NoEntry, rep, d)
  BY <1>0, <1>2, StatsAssumption DEF Account
<1> QED BY <1>2, <1>5, <1>6 DEF Good

\* A sample that finds an entry, live or deleted.
LEMMA GoodSample ==
  ASSUME NEW entry \in Entry, NEW cnt \in Bytes, NEW lim \in Bytes,
         NEW rep \in [Dir -> Int], NEW rst \in 0..1, NEW email \in Email, NEW v \in Bytes,
         NEW old \in 0..1,
         Good(entry, cnt, lim, rep, rst),
         HandOK(entry, cnt, lim, rep, rst, {v}, old)
  PROVE  LET a == applySample(entry, email, v)
         IN  /\ a \in Entry
             /\ Good(a, cnt, lim, rep, rst)
             /\ \A d \in Dir : Account(a, rep, d) >= Account(entry, rep, d)
<1> DEFINE a == applySample(entry, email, v)
<1> SUFFICES /\ a \in Entry
             /\ Good(a, cnt, lim, rep, rst)
             /\ \A d \in Dir : Account(a, rep, d) >= Account(entry, rep, d)
  OBVIOUS
<1>0. /\ \A d \in Dir : cnt[d] \in Nat /\ lim[d] \in Nat /\ rep[d] \in Int /\ v[d] \in Nat
      /\ entry # NoEntry
  BY StatsAssumption DEF Bytes
<1>1. /\ entry.deleted => DeletedOK(entry, cnt, lim, rep, rst)
      /\ ~entry.deleted => LiveOK(entry, cnt, lim, rep, rst)
  BY <1>0 DEF Good
<1>2. EntryOK(entry)
  BY <1>1 DEF EntryOK, DeletedOK, LiveOK
<1>3. Sampled(a, entry, v)
  BY <1>2, SampleUpdates DEF Bytes
<1> HIDE DEF a
<1>4. \A d \in Dir : entry.cur[d] \in Nat /\ entry.base[d] \in Int
  BY DEF Entry
<1>5. a \in Entry /\ a.cur = v /\ a.lastDelta = Zero /\ ~a.deleted
  BY <1>3 DEF Sampled
<1>6. \A d \in Dir : a.base[d] \in Int
  BY <1>5 DEF Entry
<1>7. ASSUME NEW d \in Dir
      PROVE  /\ rst = 0 => v[d] <= cnt[d] /\ entry.cur[d] <= v[d]
             /\ rep[d] + (v[d] - entry.base[d]) <= lim[d]
             /\ rep[d] + (entry.cur[d] - entry.base[d]) + (cnt[d] - v[d]) <= lim[d]
  BY <1>0 DEF HandOK
<1>8. ASSUME NEW d \in Dir
      PROVE  /\ a.base[d] <= v[d]
             /\ rep[d] + (v[d] - a.base[d]) <= lim[d]
             /\ rep[d] + (cnt[d] - a.base[d]) <= lim[d]
             /\ rep[d] + (v[d] - a.base[d]) >= rep[d] + (entry.cur[d] - entry.base[d])
             /\ rst = 0 => rep[d] = a.base[d]
  <2>1. CASE /\ \A dd \in Dir : a.base[dd] = v[dd] - (entry.cur[dd] - entry.base[dd])
             /\ entry.deleted \/ \E dd \in Dir : v[dd] < entry.cur[dd]
    <3>1. a.base[d] = v[d] - (entry.cur[d] - entry.base[d])
      BY <2>1
    <3>2. CASE entry.deleted
      BY <1>0, <1>1, <1>4, <1>7, <3>1, <3>2 DEF DeletedOK
    <3>3. CASE ~entry.deleted
      \* a rollback shows that the counters restarted
      <4>1. PICK dd \in Dir : v[dd] < entry.cur[dd]
        BY <2>1, <3>3
      <4>2. rst # 0
        BY <1>0, <1>4, <1>7, <4>1
      <4> QED BY <1>0, <1>1, <1>4, <1>7, <3>1, <3>3, <4>2 DEF LiveOK
    <3> QED BY <3>2, <3>3
  <2>2. CASE /\ \A dd \in Dir : v[dd] >= entry.cur[dd]
             /\ a.base = entry.base
             /\ entry.deleted => \A dd \in Dir : entry.base[dd] = entry.cur[dd]
    <3>1. CASE entry.deleted
      BY <1>0, <1>1, <1>4, <1>7, <2>2, <3>1 DEF DeletedOK
    <3>2. CASE ~entry.deleted
      BY <1>0, <1>1, <1>4, <1>7, <2>2, <3>2 DEF LiveOK
    <3> QED BY <3>1, <3>2
  <2> QED BY <1>3, <2>1, <2>2 DEF Sampled
<1>9. LiveOK(a, cnt, lim, rep, rst)
  BY <1>0, <1>5, <1>6, <1>7, <1>8 DEF LiveOK
<1>10. \A d \in Dir : Account(a, rep, d) >= Account(entry, rep, d)
  BY <1>0, <1>5, <1>8, StatsAssumption DEF Account
<1> QED BY <1>5, <1>9, <1>10 DEF Good

\* Counter and total move together.
Moved(cnt, tot, cnt2, tot2) ==
  \A d \in Dir :
    \/ cnt2[d] = cnt[d] /\ tot2[d] = tot[d]
    \/ cnt2[d] = cnt[d] + 1 /\ tot2[d] = tot[d] + 1

\* Traffic.
LEMMA GoodTransfer ==
  ASSUME NEW entry \in Entry \cup {NoEntry}, NEW cnt \in Bytes, NEW tot \in Bytes,
         NEW rep \in [Dir -> Int], NEW rst \in 0..1, NEW cnt2 \in Bytes, NEW tot2 \in Bytes,
         Moved(cnt, tot, cnt2, tot2),
         Good(entry, cnt, tot, rep, rst)
  PROVE  Good(entry, cnt2, tot2, rep, rst)
<1>0. \A d \in Dir : /\ cnt[d] \in Nat /\ tot[d] \in Nat /\ rep[d] \in Int
                     /\ cnt2[d] \in Nat /\ tot2[d] \in Nat
  BY DEF Bytes
<1>1. CASE entry = NoEntry /\ AbsentOK(cnt, tot, rep, rst)
  <2>1. AbsentOK(cnt2, tot2, rep, rst)
    BY <1>0, <1>1 DEF AbsentOK, Moved
  <2> QED BY <1>1, <2>1 DEF Good
<1>2. CASE entry \in Entry /\ entry.deleted /\ DeletedOK(entry, cnt, tot, rep, rst)
  <2>1. \A d \in Dir : entry.cur[d] \in Nat /\ entry.base[d] \in Int
    BY <1>2 DEF Entry
  <2>2. DeletedOK(entry, cnt2, tot2, rep, rst)
    BY <1>0, <1>2, <2>1 DEF DeletedOK, Moved
  <2> QED BY <1>2, <2>2 DEF Good
<1>3. CASE entry \in Entry /\ ~entry.deleted /\ LiveOK(entry, cnt, tot, rep, rst)
  <2>1. \A d \in Dir : entry.cur[d] \in Nat /\ entry.base[d] \in Int
    BY <1>3 DEF Entry
  <2>2. LiveOK(entry, cnt2, tot2, rep, rst)
    BY <1>0, <1>3, <2>1 DEF LiveOK, Moved
  <2> QED BY <1>3, <2>2 DEF Good
<1> QED BY <1>1, <1>2, <1>3 DEF Good

\* A restart of the counters, with the entry left alone.
LEMMA GoodReplace ==
  ASSUME NEW entry \in Entry \cup {NoEntry}, NEW cnt \in Bytes, NEW tot \in Bytes,
         NEW rep \in [Dir -> Int], NEW rst \in 0..1,
         Good(entry, cnt, tot, rep, rst)
  PROVE  Good(entry, Zero, tot, rep, 1)
<1>0. \A d \in Dir : cnt[d] \in Nat /\ tot[d] \in Nat /\ rep[d] \in Int /\ Zero[d] = 0
  BY DEF Bytes, Zero
<1>1. CASE entry = NoEntry /\ AbsentOK(cnt, tot, rep, rst)
  <2>1. AbsentOK(Zero, tot, rep, 1)
    BY <1>0, <1>1 DEF AbsentOK
  <2> QED BY <1>1, <2>1 DEF Good
<1>2. CASE entry \in Entry /\ entry.deleted /\ DeletedOK(entry, cnt, tot, rep, rst)
  <2>1. \A d \in Dir : entry.cur[d] \in Nat /\ entry.base[d] \in Int
    BY <1>2 DEF Entry
  <2>2. DeletedOK(entry, Zero, tot, rep, 1)
    BY <1>0, <1>2, <2>1 DEF DeletedOK
  <2> QED BY <1>2, <2>2 DEF Good
<1>3. CASE entry \in Entry /\ ~entry.deleted /\ LiveOK(entry, cnt, tot, rep, rst)
  <2>1. \A d \in Dir : entry.cur[d] \in Nat /\ entry.base[d] \in Int
    BY <1>3 DEF Entry
  <2>2. 1 # 0
    OBVIOUS
  <2>3. LiveOK(entry, Zero, tot, rep, 1)
    BY <1>0, <1>3, <2>1, <2>2 DEF LiveOK
  <2> QED BY <1>3, <2>3 DEF Good
<1> QED BY <1>1, <1>2, <1>3 DEF Good

\* A restart of the counters together with RemoveStats.
LEMMA GoodRemove ==
  ASSUME NEW entry \in Entry, NEW cnt \in Bytes, NEW tot \in Bytes,
         NEW rep \in [Dir -> Int], NEW rst \in 0..1,
         Good(entry, cnt, tot, rep, rst)
  PROVE  /\ MarkDeleted(entry) \in Entry
         /\ Good(MarkDeleted(entry), Zero, tot, rep, 1)
         /\ MarkDeleted(entry).cur = entry.cur /\ MarkDeleted(entry).base = entry.base
<1>0. \A d \in Dir : /\ cnt[d] \in Nat /\ tot[d] \in Nat /\ rep[d] \in Int /\ Zero[d] = 0
                     /\ entry.cur[d] \in Nat /\ entry.base[d] \in Int
  BY DEF Bytes, Zero, Entry
<1>1. Delta(entry) \in [Dir -> Int] /\ \A d \in Dir : Delta(entry)[d] = entry.cur[d] - entry.base[d]
  BY <1>0 DEF Delta
<1>2. /\ MarkDeleted(entry) \in Entry
      /\ MarkDeleted(entry).cur = entry.cur /\ MarkDeleted(entry).base = entry.base
      /\ MarkDeleted(entry).deleted /\ MarkDeleted(entry).lastDelta = Delta(entry)
  BY <1>1 DEF MarkDeleted, Entry
<1>3. \A d \in Dir : entry.base[d] <= entry.cur[d] /\ rep[d] + (entry.cur[d] - entry.base[d]) <= tot[d]
  BY <1>0, StatsAssumption DEF Good, LiveOK, DeletedOK
<1>4. 1 # 0
  OBVIOUS
<1>5. DeletedOK(MarkDeleted(entry), Zero, tot, rep, 1)
  BY <1>0, <1>1, <1>2, <1>3, <1>4 DEF DeletedOK
<1> QED BY <1>2, <1>5 DEF Good

\* A read with reset: pending bytes become reported bytes.
LEMMA GoodReset ==
  ASSUME NEW entry \in Entry, NEW cnt \in Bytes, NEW tot \in Bytes,
         NEW rep \in [Dir -> Int], NEW rst \in 0..1, NEW rep2 \in [Dir -> Int],
         \A d \in Dir : rep2[d] = rep[d] + Reportable(entry)[d],
         Good(entry, cnt, tot, rep, rst)
  PROVE  /\ ResetEntry(entry) \in Entry \cup {NoEntry}
         /\ Good(ResetEntry(entry), cnt, tot, rep2, rst)
         /\ \A d \in Dir : Account(ResetEntry(entry), rep2, d) = Account(entry, rep, d)
<1>0. \A d \in Dir : /\ cnt[d] \in Nat /\ tot[d] \in Nat /\ rep[d] \in Int /\ rep2[d] \in Int
                     /\ entry.cur[d] \in Nat /\ entry.base[d] \in Int
  BY DEF Bytes, Entry
<1>1. \A d \in Dir : entry.base[d] <= entry.cur[d]
  BY <1>0, StatsAssumption DEF Good, LiveOK, DeletedOK
<1>2. \A d \in Dir : rep2[d] = rep[d] + (entry.cur[d] - entry.base[d])
  BY <1>0, <1>1 DEF Reportable, Delta
<1>3. CASE entry.deleted
  <2>1. ResetEntry(entry) = NoEntry
    BY <1>3 DEF ResetEntry
  <2>2. DeletedOK(entry, cnt, tot, rep, rst)
    BY <1>3, StatsAssumption DEF Good
  <2>3. AbsentOK(cnt, tot, rep2, rst)
    BY <1>0, <1>2, <2>2 DEF DeletedOK, AbsentOK
  <2> QED BY <1>0, <1>2, <2>1, <2>3, StatsAssumption DEF Good, Account
<1>4. CASE ~entry.deleted
  <2>1. LiveOK(entry, cnt, tot, rep, rst)
    BY <1>4, StatsAssumption DEF Good
  <2> DEFINE r == [entry EXCEPT !.base = entry.cur]
  <2>2. ResetEntry(entry) = r
    BY <1>4 DEF ResetEntry
  <2>3. /\ r \in Entry /\ r.cur = entry.cur /\ r.base = entry.cur
        /\ r.lastDelta = entry.lastDelta /\ ~r.deleted
    BY <1>4 DEF Entry
  <2> HIDE DEF r
  <2>4. LiveOK(r, cnt, tot, rep2, rst)
    BY <1>0, <1>2, <2>1, <2>3 DEF LiveOK
  <2>5. \A d \in Dir : Account(r, rep2, d) = Account(entry, rep, d)
    BY <1>0, <1>2, <2>3, StatsAssumption DEF Account
  <2> QED BY <2>2, <2>3, <2>4, <2>5 DEF Good
<1> QED BY <1>3, <1>4 DEF Entry

\* CleanupDeletedEntries drops only entries with nothing pending.
LEMMA GoodCleanup ==
  ASSUME NEW entry \in Entry \cup {NoEntry}, NEW cnt \in Bytes, NEW tot \in Bytes,
         NEW rep \in [Dir -> Int], NEW rst \in 0..1,
         FullyReported(entry), Good(entry, cnt, tot, rep, rst)
  PROVE  /\ Good(NoEntry, cnt, tot, rep, rst)
         /\ \A d \in Dir : Account(NoEntry, rep, d) = Account(entry, rep, d)
<1>1. entry \in Entry /\ entry.deleted /\ entry.cur = entry.base
  BY DEF FullyReported
<1>2. \A d \in Dir : cnt[d] \in Nat /\ tot[d] \in Nat /\ rep[d] \in Int /\ entry.cur[d] \in Nat
  BY <1>1 DEF Bytes, Entry
<1>3. DeletedOK(entry, cnt, tot, rep, rst)
  BY <1>1, StatsAssumption DEF Good
<1>4. AbsentOK(cnt, tot, rep, rst)
  BY <1>1, <1>2, <1>3 DEF DeletedOK, AbsentOK
<1> QED BY <1>1, <1>2, <1>4, StatsAssumption DEF Good, Account

-----------------------------------------------------------------------------
(* What each operation does to the sample in hand.                         *)

LEMMA LimIsBytes ==
  ASSUME NEW tot \in Bytes, NEW rech \in Bytes
  PROVE  Lim(tot, rech) \in Bytes /\ \A d \in Dir : Lim(tot, rech)[d] = tot[d] + rech[d]
BY DEF Lim, Bytes

\* The job has just read the counter.
LEMMA HandRead ==
  ASSUME NEW entry \in Entry \cup {NoEntry}, NEW cnt \in Bytes, NEW lim \in Bytes,
         NEW rep \in [Dir -> Int], NEW rst \in 0..1,
         Good(entry, cnt, lim, rep, rst)
  PROVE  HandOK(entry, cnt, lim, rep, rst, {cnt}, 0)
<1>0. \A d \in Dir : cnt[d] \in Nat /\ lim[d] \in Nat /\ rep[d] \in Int
  BY DEF Bytes
<1>1. CASE entry = NoEntry
  <2>1. AbsentOK(cnt, lim, rep, rst)
    BY <1>1, StatsAssumption DEF Good
  <2> QED BY <1>0, <1>1, <2>1 DEF AbsentOK, HandOK
<1>2. CASE entry # NoEntry
  <2>1. \A d \in Dir : entry.cur[d] \in Nat /\ entry.base[d] \in Int
    BY <1>2 DEF Entry
  <2>2. CASE entry.deleted
    <3>1. DeletedOK(entry, cnt, lim, rep, rst)
      BY <1>2, <2>2 DEF Good
    <3>2. ASSUME NEW d \in Dir
          PROVE  /\ rst # 0
                 /\ rep[d] + (cnt[d] - entry.base[d]) <= lim[d]
                 /\ rep[d] + (entry.cur[d] - entry.base[d]) + (cnt[d] - cnt[d]) <= lim[d]
                 /\ rep[d] + (entry.cur[d] - entry.base[d]) + cnt[d] <= lim[d]
      BY <1>0, <2>1, <3>1 DEF DeletedOK
    <3> QED BY <1>0, <1>2, <3>2 DEF HandOK
  <2>3. CASE ~entry.deleted
    <3>1. LiveOK(entry, cnt, lim, rep, rst)
      BY <1>2, <2>3 DEF Good
    <3>2. ASSUME NEW d \in Dir
          PROVE  /\ rep[d] + (cnt[d] - entry.base[d]) <= lim[d]
                 /\ rep[d] + (entry.cur[d] - entry.base[d]) + (cnt[d] - cnt[d]) <= lim[d]
                 /\ rst = 0 => entry.cur[d] <= cnt[d]
      BY <1>0, <2>1, <3>1 DEF LiveOK
    <3> QED BY <1>0, <1>2, <2>3, <3>2 DEF HandOK
  <2> QED BY <2>2, <2>3
<1> QED BY <1>1, <1>2

\* Traffic.
LEMMA HandTransfer ==
  ASSUME NEW entry \in Entry \cup {NoEntry}, NEW cnt \in Bytes, NEW lim \in Bytes,
         NEW rep \in [Dir -> Int], NEW rst \in 0..1, NEW cnt2 \in Bytes, NEW lim2 \in Bytes,
         NEW hand \in SUBSET Bytes, NEW old \in 0..1,
         Moved(cnt, lim, cnt2, lim2),
         HandOK(entry, cnt, lim, rep, rst, hand, old)
  PROVE  HandOK(entry, cnt2, lim2, rep, rst, hand, old)
<1> SUFFICES ASSUME NEW v \in hand, NEW d \in Dir
             PROVE  /\ rst = 0 => old = 0 /\ v[d] <= cnt2[d]
                    /\ entry = NoEntry /\ old = 0 => rep[d] + v[d] <= lim2[d]
                    /\ entry # NoEntry =>
                         /\ rep[d] + (v[d] - entry.base[d]) <= lim2[d]
                         /\ rep[d] + (entry.cur[d] - entry.base[d]) + (cnt2[d] - v[d]) <= lim2[d]
                         /\ entry.deleted /\ old = 0 => rep[d] + (entry.cur[d] - entry.base[d]) + v[d] <= lim2[d]
                         /\ rst = 0 => entry.cur[d] <= v[d]
  BY DEF HandOK
<1>0. /\ cnt[d] \in Nat /\ lim[d] \in Nat /\ cnt2[d] \in Nat /\ lim2[d] \in Nat
      /\ rep[d] \in Int /\ v[d] \in Nat
      /\ entry # NoEntry => entry.cur[d] \in Nat /\ entry.base[d] \in Int
  BY DEF Bytes, Entry
<1>1. \/ cnt2[d] = cnt[d] /\ lim2[d] = lim[d]
      \/ cnt2[d] = cnt[d] + 1 /\ lim2[d] = lim[d] + 1
  BY DEF Moved
<1>2. /\ rst = 0 => old = 0 /\ v[d] <= cnt[d]
      /\ entry = NoEntry /\ old = 0 => rep[d] + v[d] <= lim[d]
      /\ entry # NoEntry =>
           /\ rep[d] + (v[d] - entry.base[d]) <= lim[d]
           /\ rep[d] + (entry.cur[d] - entry.base[d]) + (cnt[d] - v[d]) <= lim[d]
           /\ entry.deleted /\ old = 0 => rep[d] + (entry.cur[d] - entry.base[d]) + v[d] <= lim[d]
           /\ rst = 0 => entry.cur[d] <= v[d]
  BY DEF HandOK
<1> QED BY <1>0, <1>1, <1>2

\* A restart of the counters.
LEMMA HandReplace ==
  ASSUME NEW entry \in Entry \cup {NoEntry}, NEW cnt \in Bytes, NEW lim \in Bytes,
         NEW rep \in [Dir -> Int], NEW rst \in 0..1,
         NEW hand \in SUBSET Bytes, NEW old \in 0..1,
         HandOK(entry, cnt, lim, rep, rst, hand, old)
  PROVE  HandOK(entry, Zero, lim, rep, 1, hand, old)
<1> SUFFICES ASSUME NEW v \in hand, NEW d \in Dir
             PROVE  /\ entry = NoEntry /\ old = 0 => rep[d] + v[d] <= lim[d]
                    /\ entry # NoEntry =>
                         /\ rep[d] + (v[d] - entry.base[d]) <= lim[d]
                         /\ rep[d] + (entry.cur[d] - entry.base[d]) + (Zero[d] - v[d]) <= lim[d]
                         /\ entry.deleted /\ old = 0 => rep[d] + (entry.cur[d] - entry.base[d]) + v[d] <= lim[d]
  BY DEF HandOK
<1>0. /\ cnt[d] \in Nat /\ lim[d] \in Nat /\ rep[d] \in Int /\ v[d] \in Nat /\ Zero[d] = 0
      /\ entry # NoEntry => entry.cur[d] \in Nat /\ entry.base[d] \in Int
  BY DEF Bytes, Entry, Zero
<1>1. /\ entry = NoEntry /\ old = 0 => rep[d] + v[d] <= lim[d]
      /\ entry # NoEntry =>
           /\ rep[d] + (v[d] - entry.base[d]) <= lim[d]
           /\ rep[d] + (entry.cur[d] - entry.base[d]) + (cnt[d] - v[d]) <= lim[d]
           /\ entry.deleted /\ old = 0 => rep[d] + (entry.cur[d] - entry.base[d]) + v[d] <= lim[d]
  BY DEF HandOK
<1> QED BY <1>0, <1>1

\* RemoveStats: the sample in hand is now older than the mark.
LEMMA HandRemove ==
  ASSUME NEW entry \in Entry, NEW cnt \in Bytes, NEW lim \in Bytes,
         NEW rep \in [Dir -> Int], NEW hand \in SUBSET Bytes, NEW old \in 0..1,
         HandOK(entry, cnt, lim, rep, 1, hand, old)
  PROVE  HandOK(MarkDeleted(entry), cnt, lim, rep, 1, hand, 1)
<1>1. MarkDeleted(entry).cur = entry.cur /\ MarkDeleted(entry).base = entry.base
  BY DEF MarkDeleted, Entry
<1>2. entry # NoEntry
  BY StatsAssumption
<1> QED BY <1>1, <1>2 DEF HandOK

\* A read with reset moves the baseline, or drops a deleted entry.
LEMMA HandReset ==
  ASSUME NEW entry \in Entry, NEW cnt \in Bytes, NEW lim \in Bytes,
         NEW rep \in [Dir -> Int], NEW rst \in 0..1, NEW rep2 \in [Dir -> Int],
         NEW hand \in SUBSET Bytes, NEW old \in 0..1,
         \A d \in Dir : rep2[d] = rep[d] + Reportable(entry)[d],
         Good(entry, cnt, lim, rep, rst),
         HandOK(entry, cnt, lim, rep, rst, hand, old)
  PROVE  HandOK(ResetEntry(entry), cnt, lim, rep2, rst, hand, old)
<1>0. \A d \in Dir : /\ cnt[d] \in Nat /\ lim[d] \in Nat /\ rep[d] \in Int /\ rep2[d] \in Int
                     /\ entry.cur[d] \in Nat /\ entry.base[d] \in Int
  BY DEF Bytes, Entry
<1>1. \A d \in Dir : entry.base[d] <= entry.cur[d]
  BY <1>0, StatsAssumption DEF Good, LiveOK, DeletedOK
<1>2. \A d \in Dir : rep2[d] = rep[d] + (entry.cur[d] - entry.base[d])
  BY <1>0, <1>1 DEF Reportable, Delta
<1>3. entry # NoEntry
  BY StatsAssumption
<1>4. ASSUME NEW v \in hand, NEW d \in Dir
      PROVE  /\ v[d] \in Nat
             /\ rst = 0 => old = 0 /\ v[d] <= cnt[d]
             /\ rep[d] + (v[d] - entry.base[d]) <= lim[d]
             /\ rep[d] + (entry.cur[d] - entry.base[d]) + (cnt[d] - v[d]) <= lim[d]
             /\ entry.deleted /\ old = 0 => rep[d] + (entry.cur[d] - entry.base[d]) + v[d] <= lim[d]
             /\ rst = 0 => entry.cur[d] <= v[d]
  BY <1>3 DEF HandOK, Bytes
<1>5. CASE entry.deleted
  <2>1. ResetEntry(entry) = NoEntry
    BY <1>5 DEF ResetEntry
  <2>2. ASSUME NEW v \in hand, NEW d \in Dir
        PROVE  /\ rst = 0 => old = 0 /\ v[d] <= cnt[d]
               /\ old = 0 => rep2[d] + v[d] <= lim[d]
    BY <1>0, <1>2, <1>4, <1>5
  <2> QED BY <2>1, <2>2 DEF HandOK
<1>6. CASE ~entry.deleted
  <2> DEFINE r == [entry EXCEPT !.base = entry.cur]
  <2>1. ResetEntry(entry) = r
    BY <1>6 DEF ResetEntry
  <2>2. /\ r \in Entry /\ r.cur = entry.cur /\ r.base = entry.cur /\ ~r.deleted
    BY <1>6 DEF Entry
  <2>3. r # NoEntry
    BY <2>2, StatsAssumption
  <2> HIDE DEF r
  <2>4. ASSUME NEW v \in hand, NEW d \in Dir
        PROVE  /\ rst = 0 => old = 0 /\ v[d] <= cnt[d]
               /\ rep2[d] + (v[d] - entry.cur[d]) <= lim[d]
               /\ rep2[d] + (entry.cur[d] - entry.cur[d]) + (cnt[d] - v[d]) <= lim[d]
               /\ rst = 0 => entry.cur[d] <= v[d]
    BY <1>0, <1>2, <1>4
  <2>5. HandOK(r, cnt, lim, rep2, rst, hand, old)
    BY <2>2, <2>3, <2>4 DEF HandOK
  <2> QED BY <2>1, <2>5
<1> QED BY <1>5, <1>6 DEF Entry

\* CleanupDeletedEntries.
LEMMA HandCleanup ==
  ASSUME NEW entry \in Entry \cup {NoEntry}, NEW cnt \in Bytes, NEW lim \in Bytes,
         NEW rep \in [Dir -> Int], NEW rst \in 0..1,
         NEW hand \in SUBSET Bytes, NEW old \in 0..1,
         FullyReported(entry),
         HandOK(entry, cnt, lim, rep, rst, hand, old)
  PROVE  HandOK(NoEntry, cnt, lim, rep, rst, hand, old)
<1>1. entry \in Entry /\ entry # NoEntry /\ entry.deleted /\ entry.cur = entry.base
  BY DEF FullyReported
<1>2. ASSUME NEW v \in hand, NEW d \in Dir
      PROVE  /\ rst = 0 => old = 0 /\ v[d] <= cnt[d]
             /\ old = 0 => rep[d] + v[d] <= lim[d]
  <2>1. /\ lim[d] \in Nat /\ rep[d] \in Int /\ v[d] \in Nat /\ entry.cur[d] \in Nat
        /\ entry.base[d] = entry.cur[d]
    BY <1>1 DEF Bytes, Entry
  <2>2. /\ rst = 0 => old = 0 /\ v[d] <= cnt[d]
        /\ old = 0 => rep[d] + (entry.cur[d] - entry.base[d]) + v[d] <= lim[d]
    BY <1>1 DEF HandOK
  <2> QED BY <2>1, <2>2
<1> QED BY <1>2 DEF HandOK

LEMMA TwiceReplace ==
  ASSUME NEW cnt \in Bytes, NEW tot \in Bytes, NEW rech \in Bytes,
         NEW hand \in SUBSET Bytes, NEW old \in 0..1,
         TwiceOK(cnt, tot, rech, hand, old)
  PROVE  TwiceOK(Zero, tot, rech, hand, old)
<1> SUFFICES ASSUME NEW d \in Dir
             PROVE  /\ rech[d] + Zero[d] <= tot[d]
                    /\ \A v \in hand : \/ v[d] <= Zero[d] /\ old = 0
                                       \/ rech[d] + v[d] + Zero[d] <= tot[d]
  BY DEF TwiceOK
<1>0. cnt[d] \in Nat /\ tot[d] \in Nat /\ rech[d] \in Nat /\ Zero[d] = 0 /\ \A v \in hand : v[d] \in Nat
  BY DEF Bytes, Zero
<1>1. /\ rech[d] + cnt[d] <= tot[d]
      /\ \A v \in hand : v[d] <= cnt[d] \/ rech[d] + v[d] + cnt[d] <= tot[d]
  BY DEF TwiceOK
<1>2. ASSUME NEW v \in hand PROVE rech[d] + v[d] + Zero[d] <= tot[d]
  BY <1>0, <1>1
<1> QED BY <1>0, <1>1, <1>2

LEMMA TwiceTransfer ==
  ASSUME NEW cnt \in Bytes, NEW tot \in Bytes, NEW rech \in Bytes,
         NEW cnt2 \in Bytes, NEW tot2 \in Bytes,
         NEW hand \in SUBSET Bytes, NEW old \in 0..1,
         Moved(cnt, tot, cnt2, tot2),
         TwiceOK(cnt, tot, rech, hand, old)
  PROVE  TwiceOK(cnt2, tot2, rech, hand, old)
<1> SUFFICES ASSUME NEW d \in Dir
             PROVE  /\ rech[d] + cnt2[d] <= tot2[d]
                    /\ \A v \in hand : \/ v[d] <= cnt2[d] /\ old = 0
                                       \/ rech[d] + v[d] + cnt2[d] <= tot2[d]
  BY DEF TwiceOK
<1>0. /\ cnt[d] \in Nat /\ tot[d] \in Nat /\ rech[d] \in Nat /\ cnt2[d] \in Nat /\ tot2[d] \in Nat
      /\ \A v \in hand : v[d] \in Nat
  BY DEF Bytes
<1>1. /\ rech[d] + cnt[d] <= tot[d]
      /\ \A v \in hand : \/ v[d] <= cnt[d] /\ old = 0
                         \/ rech[d] + v[d] + cnt[d] <= tot[d]
  BY DEF TwiceOK
<1>2. \/ cnt2[d] = cnt[d] /\ tot2[d] = tot[d]
      \/ cnt2[d] = cnt[d] + 1 /\ tot2[d] = tot[d] + 1
  BY DEF Moved
<1>3. ASSUME NEW v \in hand
      PROVE  \/ v[d] <= cnt2[d] /\ old = 0
             \/ rech[d] + v[d] + cnt2[d] <= tot2[d]
  BY <1>0, <1>1, <1>2
<1> QED BY <1>0, <1>1, <1>2, <1>3

-----------------------------------------------------------------------------
(* The steps of the tracker and the job.                                   *)

\* Account is what the properties call Accounted.
LEMMA AccountedIsAccount ==
  ASSUME NEW k \in Key, NEW d \in Dir
  PROVE  /\ Accounted(k, d) = Account(stats[k], reported[k], d)
         /\ Accounted(k, d)' = Account(stats'[k], reported'[k], d)
BY DEF Accounted, Pending, Account, Delta

LEMMA AccountIsInt ==
  ASSUME NEW entry \in Entry \cup {NoEntry}, NEW rep \in [Dir -> Int], NEW d \in Dir
  PROVE  Account(entry, rep, d) \in Int
<1>1. CASE entry = NoEntry
  BY <1>1 DEF Account
<1>2. CASE entry # NoEntry
  <2>1. entry.cur[d] \in Nat /\ entry.base[d] \in Int
    BY <1>2 DEF Entry
  <2> QED BY <1>2, <2>1 DEF Account
<1> QED BY <1>1, <1>2

\* What is known of one key.
Facts(k) ==
  /\ stats[k] \in Entry \cup {NoEntry}
  /\ counter[k] \in Bytes /\ total[k] \in Bytes /\ recharged[k] \in Bytes
  /\ restarted[k] \in 0..1 /\ reported[k] \in [Dir -> Int]
  /\ Hand(k) \in SUBSET Bytes /\ Old(k) \in 0..1
  /\ Good(stats[k], counter[k], Lim(total[k], recharged[k]), reported[k], restarted[k])
  /\ HandOK(stats[k], counter[k], Lim(total[k], recharged[k]), reported[k], restarted[k], Hand(k), Old(k))
  /\ TwiceOK(counter[k], total[k], recharged[k], Hand(k), Old(k))
  /\ Lim(total[k], recharged[k]) \in Bytes
  /\ \A d \in Dir : Account(stats[k], reported[k], d) \in Int

LEMMA InvGivesFacts == ASSUME SamplerInv, NEW k \in Key PROVE Facts(k)
<1>1. /\ stats[k] \in Entry \cup {NoEntry}
      /\ counter[k] \in Bytes /\ total[k] \in Bytes /\ recharged[k] \in Bytes
      /\ restarted[k] \in 0..1 /\ reported[k] \in [Dir -> Int]
  BY DEF SamplerInv, SamplerTypeOK, TrackerTypeOK, Bytes
<1>2. Hand(k) \in SUBSET Bytes
  BY DEF SamplerInv, SamplerTypeOK, Hand, Bytes
<1>3. /\ Good(stats[k], counter[k], Lim(total[k], recharged[k]), reported[k], restarted[k])
      /\ HandOK(stats[k], counter[k], Lim(total[k], recharged[k]), reported[k], restarted[k], Hand(k), Old(k))
      /\ TwiceOK(counter[k], total[k], recharged[k], Hand(k), Old(k))
  BY DEF SamplerInv, KeyGood
<1>4. Old(k) \in 0..1
  BY DEF Old
<1>5. Lim(total[k], recharged[k]) \in Bytes
  BY <1>1, LimIsBytes
<1> QED BY <1>1, <1>2, <1>3, <1>4, <1>5, AccountIsInt DEF Facts

\* What a step has to establish of one key.
Kept(k) ==
  /\ KeyGood(stats'[k], counter'[k], total'[k], reported'[k], restarted'[k],
             recharged'[k], Hand(k)', Old(k)')
  /\ \A d \in Dir : Account(stats'[k], reported'[k], d) >= Account(stats[k], reported[k], d)

\* It is enough to look at one key at a time.
LEMMA KeyByKey ==
  ASSUME SamplerTypeOK', at' # "emails" => emails' = NoKeys,
         \A k \in removing' : counter'[k] = Zero /\ restarted'[k] = 1,
         \A k \in Key : Kept(k)
  PROVE  SamplerInv' /\ NothingTakenBack
<1>1. SamplerInv'
  BY DEF SamplerInv, Kept
<1>2. NothingTakenBack
  BY AccountedIsAccount DEF NothingTakenBack, Kept
<1> QED BY <1>1, <1>2

\* A key that a step leaves alone.
LEMMA KeyLeftAlone ==
  ASSUME NEW k \in Key, Facts(k),
         stats'[k] = stats[k], counter'[k] = counter[k], total'[k] = total[k],
         reported'[k] = reported[k], restarted'[k] = restarted[k], recharged'[k] = recharged[k],
         Hand(k)' = Hand(k), (k \in stale') <=> (k \in stale)
  PROVE  Kept(k)
<1>1. KeyGood(stats'[k], counter'[k], total'[k], reported'[k], restarted'[k],
              recharged'[k], Hand(k)', Old(k)')
  <2>1. Old(k)' = Old(k)
    BY DEF Old
  <2> QED BY <2>1, Zenon DEF Facts, KeyGood
<1>2. \A d \in Dir : Account(stats'[k], reported'[k], d) >= Account(stats[k], reported[k], d)
  BY DEF Facts
<1> QED BY <1>1, <1>2 DEF Kept

LEMMA ReadDeviceStep ==
  ASSUME SamplerInv, NEW K \in SUBSET (Key \ removing), ReadDevice(K)
  PROVE  SamplerInv' /\ NothingTakenBack
<1>0. /\ stats' = stats /\ counter' = counter /\ total' = total /\ restarted' = restarted
      /\ reported' = reported /\ emails' = emails /\ removing' = removing /\ recharged' = recharged
      /\ device' = [k \in K |-> counter[k]] /\ stale' = {}
      /\ at = "idle" /\ at' = "device"
  BY DEF ReadDevice, trackerVars
<1>1. emails = NoKeys
  BY <1>0 DEF SamplerInv
<1>2. SamplerTypeOK' /\ (at' # "emails" => emails' = NoKeys)
  <2>1. device' \in [K -> [Dir -> Nat]] /\ DOMAIN device' = K /\ K \subseteq Key
    BY <1>0 DEF SamplerInv, SamplerTypeOK, TrackerTypeOK
  <2>2. DOMAIN emails = {}
    BY <1>1 DEF NoKeys
  <2>3. emails' \in [DOMAIN emails' -> Email] /\ DOMAIN emails' \subseteq DOMAIN device'
    BY <1>0, <2>2 DEF SamplerInv, SamplerTypeOK
  <2>4. TrackerTypeOK'
    BY <1>0 DEF SamplerInv, SamplerTypeOK, TrackerTypeOK
  <2>5. removing' \subseteq Key /\ stale' \subseteq DOMAIN device' /\ recharged' \in [Key -> [Dir -> Nat]]
    BY <1>0 DEF SamplerInv, SamplerTypeOK
  <2> QED BY <1>0, <1>1, <2>1, <2>3, <2>4, <2>5 DEF SamplerTypeOK
<1>3. \A k \in removing' : counter'[k] = Zero /\ restarted'[k] = 1
  BY <1>0 DEF SamplerInv
<1>4. ASSUME NEW k \in Key PROVE Kept(k)
  <2>1. Facts(k)
    BY InvGivesFacts
  <2>2. CASE k \in K
    <3>1. Hand(k)' = {counter[k]} /\ ~(k \in stale')
      BY <1>0, <2>2 DEF Hand
    <3>2. HandOK(stats[k], counter[k], Lim(total[k], recharged[k]), reported[k], restarted[k], {counter[k]}, 0)
      BY <2>1, HandRead DEF Facts
    <3>3. TwiceOK(counter[k], total[k], recharged[k], {counter[k]}, 0)
      <4>1. \A d \in Dir : counter[k][d] \in Nat
        BY <2>1 DEF Facts, Bytes
      <4> QED BY <2>1, <4>1 DEF TwiceOK, Facts
    <3>4. Old(k)' = 0
      BY <3>1 DEF Old
    <3>5. KeyGood(stats'[k], counter'[k], total'[k], reported'[k], restarted'[k],
                  recharged'[k], Hand(k)', Old(k)')
      BY <1>0, <2>1, <3>1, <3>2, <3>3, <3>4, Zenon DEF KeyGood, Facts
    <3> QED BY <1>0, <2>1, <3>5 DEF Kept, Facts
  <2>3. CASE k \notin K
    <3>1. Hand(k)' = {}
      BY <1>0, <2>3 DEF Hand
    <3>2. /\ HandOK(stats[k], counter[k], Lim(total[k], recharged[k]), reported[k], restarted[k], {}, Old(k)')
          /\ TwiceOK(counter[k], total[k], recharged[k], {}, Old(k)')
      BY <2>1 DEF HandOK, TwiceOK, Facts
    <3>3. KeyGood(stats'[k], counter'[k], total'[k], reported'[k], restarted'[k],
                  recharged'[k], Hand(k)', Old(k)')
      BY <1>0, <2>1, <3>1, <3>2, Zenon DEF KeyGood, Facts
    <3> QED BY <1>0, <2>1, <3>3 DEF Kept, Facts
  <2> QED BY <2>2, <2>3
<1> QED BY <1>2, <1>3, <1>4, KeyByKey

LEMMA ReadEmailsStep ==
  ASSUME SamplerInv, NEW K \in SUBSET DOMAIN device, ReadEmails(K)
  PROVE  SamplerInv' /\ NothingTakenBack
<1>0. /\ stats' = stats /\ counter' = counter /\ total' = total /\ restarted' = restarted
      /\ reported' = reported /\ device' = device /\ removing' = removing /\ recharged' = recharged
      /\ stale' = stale /\ at' = "emails" /\ emails' \in [K -> Email]
  BY DEF ReadEmails, trackerVars
<1>1. SamplerTypeOK'
  <2>1. TrackerTypeOK'
    BY <1>0 DEF SamplerInv, SamplerTypeOK, TrackerTypeOK
  <2>2. DOMAIN emails' = K /\ emails' \in [DOMAIN emails' -> Email]
    BY <1>0
  <2> QED BY <1>0, <2>1, <2>2 DEF SamplerInv, SamplerTypeOK
<1>2. \A k \in removing' : counter'[k] = Zero /\ restarted'[k] = 1
  BY <1>0 DEF SamplerInv
<1>3. ASSUME NEW k \in Key PROVE Kept(k)
  BY <1>0, InvGivesFacts, KeyLeftAlone DEF Hand
<1> QED BY <1>0, <1>1, <1>2, <1>3, KeyByKey

LEMMA UpdateStep ==
  ASSUME SamplerInv, UpdateConnectedPeers
  PROVE  SamplerInv' /\ NothingTakenBack
<1>0. /\ counter' = counter /\ total' = total /\ restarted' = restarted /\ reported' = reported
      /\ removing' = removing /\ stale' = {} /\ at' = "idle" /\ device' = NoKeys /\ emails' = NoKeys
      /\ recharged' = [k \in Key |-> IF k \in Late THEN [d \in Dir |-> recharged[k][d] + device[k][d]]
                                                   ELSE recharged[k]]
      /\ stats' = [k \in Key |-> IF k \in DOMAIN emails THEN applySample(stats[k], emails[k], device[k])
                                                        ELSE stats[k]]
  BY DEF UpdateConnectedPeers, UpdateStatsBatch, samples
<1>t. /\ DOMAIN emails \subseteq DOMAIN device /\ \A k \in DOMAIN emails : emails[k] \in Email
      /\ DOMAIN device \subseteq Key /\ \A k \in DOMAIN device : device[k] \in Bytes
  BY DEF SamplerInv, SamplerTypeOK, Bytes
<1>1. ASSUME NEW k \in Key
      PROVE  /\ stats'[k] \in Entry \cup {NoEntry}
             /\ recharged'[k] \in Bytes
             /\ Kept(k)
  <2>1. Facts(k)
    BY InvGivesFacts
  <2> DEFINE lim == Lim(total[k], recharged[k])
             lim2 == Lim(total[k], recharged'[k])
  <2>2. Hand(k)' = {}
    BY <1>0 DEF Hand, NoKeys
  <2>3. SUFFICES /\ stats'[k] \in Entry \cup {NoEntry}
                 /\ recharged'[k] \in Bytes
                 /\ Good(stats'[k], counter[k], lim2, reported[k], restarted[k])
                 /\ \A d \in Dir : recharged'[k][d] + counter[k][d] <= total[k][d]
                 /\ \A d \in Dir : Account(stats'[k], reported[k], d) >= Account(stats[k], reported[k], d)
    <3> SUFFICES KeyGood(stats'[k], counter'[k], total'[k], reported'[k], restarted'[k],
                         recharged'[k], Hand(k)', Old(k)')
      BY <1>0, <2>3 DEF Kept
    <3>1. /\ HandOK(stats'[k], counter[k], lim2, reported[k], restarted[k], {}, Old(k)')
          /\ TwiceOK(counter[k], total[k], recharged'[k], {}, Old(k)')
      BY <2>3 DEF HandOK, TwiceOK
    <3> QED BY <1>0, <2>2, <2>3, <3>1, Zenon DEF KeyGood
  <2>4. CASE k \in Late
    <3>1. k \in DOMAIN emails /\ k \in stale /\ stats[k] = NoEntry /\ k \in DOMAIN device
      BY <1>t, <2>4 DEF Late
    <3>2. /\ Hand(k) = {device[k]} /\ device[k] \in Bytes /\ emails[k] \in Email
          /\ Old(k) = 1
      BY <1>t, <3>1 DEF Hand, Old
    <3>3. /\ recharged'[k] = [d \in Dir |-> recharged[k][d] + device[k][d]]
          /\ stats'[k] = applySample(NoEntry, emails[k], device[k])
      BY <1>0, <2>4, <3>1
    <3>4. \A d \in Dir : /\ recharged[k][d] \in Nat /\ device[k][d] \in Nat /\ total[k][d] \in Nat
                         /\ counter[k][d] \in Nat
      BY <2>1, <3>2 DEF Facts, Bytes
    <3>5. recharged'[k] \in Bytes /\ \A d \in Dir : recharged'[k][d] = recharged[k][d] + device[k][d]
      BY <3>3, <3>4 DEF Bytes
    <3>6. /\ lim2 \in Bytes /\ lim \in Bytes
          /\ \A d \in Dir : lim2[d] = total[k][d] + recharged'[k][d] /\ lim[d] = total[k][d] + recharged[k][d]
      BY <2>1, <3>5, LimIsBytes DEF Facts
    <3>7. \A d \in Dir : lim2[d] = lim[d] + device[k][d]
      BY <3>4, <3>5, <3>6
    <3>8. \A d \in Dir : recharged'[k][d] + counter[k][d] <= total[k][d]
      <4>1. \A d \in Dir : recharged[k][d] + device[k][d] + counter[k][d] <= total[k][d]
        BY <2>1, <3>2 DEF Facts, TwiceOK
      <4> QED BY <3>4, <3>5, <4>1
    <3>9. /\ counter[k] \in Bytes /\ reported[k] \in [Dir -> Int] /\ restarted[k] \in 0..1
          /\ Good(NoEntry, counter[k], lim, reported[k], restarted[k])
          /\ HandOK(NoEntry, counter[k], lim, reported[k], restarted[k], {device[k]}, 1)
      BY <2>1, <3>1, <3>2, Zenon DEF Facts
    <3> HIDE DEF lim, lim2
    <3>10. ASSUME NEW d \in Dir
           PROVE  /\ lim[d] <= lim2[d] /\ reported[k][d] + device[k][d] <= lim2[d]
                  /\ restarted[k] = 0 => device[k][d] <= counter[k][d]
      <4>1. reported[k][d] + counter[k][d] <= lim[d]
        BY <3>9, StatsAssumption DEF Good, AbsentOK
      <4>2. restarted[k] # 0
        BY <3>9 DEF HandOK
      <4>3. reported[k][d] \in Int /\ lim[d] \in Nat
        BY <3>6, <3>9 DEF Bytes
      <4> QED BY <3>4, <3>7, <4>1, <4>2, <4>3
    <3>11. /\ applySample(NoEntry, emails[k], device[k]) \in Entry
           /\ Good(applySample(NoEntry, emails[k], device[k]), counter[k], lim2, reported[k], restarted[k])
           /\ \A d \in Dir : Account(applySample(NoEntry, emails[k], device[k]), reported[k], d)
                             >= Account(NoEntry, reported[k], d)
      <4>1. Room(counter[k], lim, lim2, reported[k], restarted[k], device[k])
        BY <3>10 DEF Room
      <4>2. lim \in Bytes /\ lim2 \in Bytes /\ emails[k] \in Email /\ device[k] \in Bytes
        BY <3>2, <3>6
      <4> QED BY <3>9, <4>1, <4>2, GoodCreate
    <3> QED BY <3>1, <3>3, <3>5, <3>8, <3>11
  <2>5. CASE k \notin Late
    <3>1. recharged'[k] = recharged[k] /\ lim2 = lim
      BY <1>0, <2>5
    <3>2. \A d \in Dir : recharged'[k][d] + counter[k][d] <= total[k][d]
      BY <2>1, <3>1 DEF Facts, TwiceOK
    <3>3. CASE k \notin DOMAIN emails
      <4>1. stats'[k] = stats[k]
        BY <1>0, <3>3
      <4> QED BY <2>1, <3>1, <3>2, <4>1 DEF Facts
    <3>4. CASE k \in DOMAIN emails
      <4>1. /\ Hand(k) = {device[k]} /\ device[k] \in Bytes /\ emails[k] \in Email
            /\ stats'[k] = applySample(stats[k], emails[k], device[k])
        BY <1>0, <1>t, <3>4 DEF Hand
      <4>2. /\ counter[k] \in Bytes /\ reported[k] \in [Dir -> Int] /\ restarted[k] \in 0..1
            /\ lim \in Bytes /\ Old(k) \in 0..1
            /\ Good(stats[k], counter[k], lim, reported[k], restarted[k])
            /\ HandOK(stats[k], counter[k], lim, reported[k], restarted[k], {device[k]}, Old(k))
        BY <2>1, <4>1, Zenon DEF Facts
      <4>3. CASE stats[k] = NoEntry
        <5>1. Old(k) = 0
          BY <2>5, <3>4, <4>3 DEF Late, Old
        <5>2. /\ HandOK(NoEntry, counter[k], lim, reported[k], restarted[k], {device[k]}, 0)
              /\ Good(NoEntry, counter[k], lim, reported[k], restarted[k])
          BY <4>2, <4>3, <5>1, Zenon
        <5> HIDE DEF lim, lim2
        <5>3. ASSUME NEW d \in Dir
              PROVE  /\ lim[d] <= lim[d] /\ reported[k][d] + device[k][d] <= lim[d]
                     /\ restarted[k] = 0 => device[k][d] <= counter[k][d]
          <6>1. lim[d] \in Nat
            BY <4>2 DEF Bytes
          <6> QED BY <5>2, <6>1 DEF HandOK
        <5>4. /\ applySample(NoEntry, emails[k], device[k]) \in Entry
              /\ Good(applySample(NoEntry, emails[k], device[k]), counter[k], lim, reported[k], restarted[k])
              /\ \A d \in Dir : Account(applySample(NoEntry, emails[k], device[k]), reported[k], d)
                                >= Account(NoEntry, reported[k], d)
          <6>1. Room(counter[k], lim, lim, reported[k], restarted[k], device[k])
            BY <5>3 DEF Room
          <6> QED BY <4>1, <4>2, <5>2, <6>1, GoodCreate
        <5> QED BY <2>1, <3>1, <3>2, <4>1, <4>3, <5>4 DEF Facts
      <4>4. CASE stats[k] # NoEntry
        <5>1. stats[k] \in Entry
          BY <2>1, <4>4 DEF Facts
        <5> HIDE DEF lim, lim2
        <5>2. /\ applySample(stats[k], emails[k], device[k]) \in Entry
              /\ Good(applySample(stats[k], emails[k], device[k]), counter[k], lim, reported[k], restarted[k])
              /\ \A d \in Dir : Account(applySample(stats[k], emails[k], device[k]), reported[k], d)
                                >= Account(stats[k], reported[k], d)
          BY <4>1, <4>2, <5>1, GoodSample
        <5> QED BY <2>1, <3>1, <3>2, <4>1, <5>2 DEF Facts
      <4> QED BY <4>3, <4>4
    <3> QED BY <3>3, <3>4
  <2> QED BY <2>4, <2>5
<1>2. SamplerTypeOK'
  <2>1. stats' \in [Key -> Entry \cup {NoEntry}] /\ recharged' \in [Key -> [Dir -> Nat]]
    <3>1. \A k \in Key : recharged'[k] \in [Dir -> Nat] /\ stats'[k] \in Entry \cup {NoEntry}
      BY <1>1 DEF Bytes
    <3> HIDE DEF Late
    <3>2. recharged' = [k \in Key |-> recharged'[k]] /\ stats' = [k \in Key |-> stats'[k]]
      BY <1>0
    <3> QED BY <3>1, <3>2
  <2>2. TrackerTypeOK'
    BY <1>0, <2>1 DEF SamplerInv, SamplerTypeOK, TrackerTypeOK
  <2>3. /\ DOMAIN device' = {} /\ DOMAIN emails' = {}
        /\ device' \in [DOMAIN device' -> [Dir -> Nat]] /\ emails' \in [DOMAIN emails' -> Email]
    BY <1>0 DEF NoKeys
  <2> QED BY <1>0, <2>1, <2>2, <2>3 DEF SamplerInv, SamplerTypeOK
<1>3. \A k \in removing' : counter'[k] = Zero /\ restarted'[k] = 1
  BY <1>0 DEF SamplerInv
<1> QED BY <1>0, <1>1, <1>2, <1>3, KeyByKey

\* Only the counters and totals of one key move.
LEMMA TransferStep ==
  ASSUME SamplerInv, NEW k0 \in Key, NEW d0 \in Dir, PeerTransfers(k0, d0)
  PROVE  SamplerInv' /\ NothingTakenBack
<1>0. /\ counter' = [counter EXCEPT ![k0][d0] = @ + 1] /\ total' = [total EXCEPT ![k0][d0] = @ + 1]
      /\ stats' = stats /\ restarted' = restarted /\ reported' = reported
      /\ at' = at /\ device' = device /\ emails' = emails
      /\ removing' = removing /\ stale' = stale /\ recharged' = recharged
      /\ k0 \notin removing
  BY DEF PeerTransfers, Transfer, jobVars
<1>t. /\ counter \in [Key -> Bytes] /\ total \in [Key -> Bytes]
  BY DEF SamplerInv, SamplerTypeOK, TrackerTypeOK, Bytes
<1>1. counter' \in [Key -> Bytes] /\ total' \in [Key -> Bytes]
  BY <1>0, <1>t DEF Bytes
<1>2. SamplerTypeOK' /\ (at' # "emails" => emails' = NoKeys)
  <2>1. TrackerTypeOK'
    BY <1>0, <1>1 DEF SamplerInv, SamplerTypeOK, TrackerTypeOK, Bytes
  <2> QED BY <1>0, <2>1 DEF SamplerInv, SamplerTypeOK
<1>3. \A k \in removing' : counter'[k] = Zero /\ restarted'[k] = 1
  BY <1>0, <1>t DEF SamplerInv, SamplerTypeOK
<1>4. ASSUME NEW k \in Key PROVE Kept(k)
  <2>1. Facts(k)
    BY InvGivesFacts
  <2>2. Moved(counter[k], total[k], counter'[k], total'[k])
    <3> SUFFICES ASSUME NEW d \in Dir
                 PROVE  \/ counter'[k][d] = counter[k][d] /\ total'[k][d] = total[k][d]
                        \/ counter'[k][d] = counter[k][d] + 1 /\ total'[k][d] = total[k][d] + 1
      BY DEF Moved
    <3>1. CASE k = k0 /\ d = d0
      BY <1>0, <1>t, <3>1 DEF Bytes
    <3>2. CASE ~(k = k0 /\ d = d0)
      BY <1>0, <1>t, <3>2 DEF Bytes
    <3> QED BY <3>1, <3>2
  <2>3. counter'[k] \in Bytes /\ total'[k] \in Bytes
    BY <1>1
  <2>4. /\ Lim(total'[k], recharged[k]) \in Bytes
        /\ Moved(counter[k], Lim(total[k], recharged[k]), counter'[k], Lim(total'[k], recharged[k]))
    <3>1. /\ Lim(total'[k], recharged[k]) \in Bytes
          /\ \A d \in Dir : Lim(total'[k], recharged[k])[d] = total'[k][d] + recharged[k][d]
      BY <2>1, <2>3, LimIsBytes DEF Facts
    <3>2. \A d \in Dir : Lim(total[k], recharged[k])[d] = total[k][d] + recharged[k][d]
      BY <2>1, LimIsBytes DEF Facts
    <3>3. \A d \in Dir : total[k][d] \in Nat /\ total'[k][d] \in Nat /\ recharged[k][d] \in Nat
      BY <2>1, <2>3 DEF Facts, Bytes
    <3> QED BY <2>2, <3>1, <3>2, <3>3 DEF Moved
  <2>5. Good(stats[k], counter'[k], Lim(total'[k], recharged[k]), reported[k], restarted[k])
    BY <2>1, <2>3, <2>4, GoodTransfer DEF Facts
  <2>6. HandOK(stats[k], counter'[k], Lim(total'[k], recharged[k]), reported[k], restarted[k], Hand(k), Old(k))
    BY <2>1, <2>3, <2>4, HandTransfer DEF Facts
  <2>7. TwiceOK(counter'[k], total'[k], recharged[k], Hand(k), Old(k))
    BY <2>1, <2>2, <2>3, TwiceTransfer DEF Facts
  <2>8. Hand(k)' = Hand(k) /\ Old(k)' = Old(k)
    BY <1>0 DEF Hand, Old
  <2>9. KeyGood(stats'[k], counter'[k], total'[k], reported'[k], restarted'[k],
                recharged'[k], Hand(k)', Old(k)')
    BY <1>0, <2>5, <2>6, <2>7, <2>8, Zenon DEF KeyGood
  <2> QED BY <1>0, <2>1, <2>9 DEF Kept, Facts
<1> QED BY <1>2, <1>3, <1>4, KeyByKey

\* The counters of one key restart and its entry is left alone.
LEMMA RestartKeeps ==
  ASSUME SamplerInv, NEW k0 \in Key, NEW k \in Key,
         RestartCounters({k0}),
         stats' = stats, total' = total, reported' = reported, recharged' = recharged,
         device' = device, stale' = stale
  PROVE  Kept(k)
<1>0. /\ counter'[k] = IF k = k0 THEN Zero ELSE counter[k]
      /\ restarted'[k] = IF k = k0 THEN 1 ELSE restarted[k]
  BY DEF RestartCounters
<1>1. Facts(k)
  BY InvGivesFacts
<1>2. Hand(k)' = Hand(k) /\ Old(k)' = Old(k)
  BY DEF Hand, Old
<1>3. CASE k = k0
  <2>1. Good(stats[k], Zero, Lim(total[k], recharged[k]), reported[k], 1)
    BY <1>1, GoodReplace DEF Facts
  <2>2. HandOK(stats[k], Zero, Lim(total[k], recharged[k]), reported[k], 1, Hand(k), Old(k))
    BY <1>1, HandReplace DEF Facts
  <2>3. TwiceOK(Zero, total[k], recharged[k], Hand(k), Old(k))
    BY <1>1, TwiceReplace DEF Facts
  <2>a. counter'[k] = Zero /\ restarted'[k] = 1
    BY <1>0, <1>3
  <2>4. KeyGood(stats'[k], counter'[k], total'[k], reported'[k], restarted'[k],
                recharged'[k], Hand(k)', Old(k)')
    BY <1>2, <2>a, <2>1, <2>2, <2>3, Zenon DEF KeyGood
  <2> QED BY <1>1, <2>4 DEF Kept, Facts
<1>4. CASE k # k0
  BY <1>0, <1>1, <1>2, <1>4, KeyLeftAlone
<1> QED BY <1>3, <1>4

LEMMA RestartTypes ==
  ASSUME SamplerInv, NEW k0 \in Key, RestartCounters({k0}),
         stats' = stats, total' = total, reported' = reported
  PROVE  /\ TrackerTypeOK'
         /\ \A k \in removing \cup {k0} : counter'[k] = Zero /\ restarted'[k] = 1
<1>1. /\ counter' = [k \in Key |-> IF k = k0 THEN Zero ELSE counter[k]]
      /\ restarted' = [k \in Key |-> IF k = k0 THEN 1 ELSE restarted[k]]
  BY DEF RestartCounters
<1>2. TrackerTypeOK'
  BY <1>1 DEF SamplerInv, SamplerTypeOK, TrackerTypeOK, Zero
<1>3. \A k \in removing \cup {k0} : k \in Key
  BY DEF SamplerInv, SamplerTypeOK
<1> QED BY <1>1, <1>2, <1>3 DEF SamplerInv

LEMMA ReplaceStep ==
  ASSUME SamplerInv, NEW k0 \in Key, ReplacePeer(k0)
  PROVE  SamplerInv' /\ NothingTakenBack
<1>0. /\ RestartCounters({k0}) /\ stats' = stats /\ total' = total /\ reported' = reported
      /\ at' = at /\ device' = device /\ emails' = emails
      /\ removing' = removing /\ stale' = stale /\ recharged' = recharged
  BY DEF ReplacePeer, jobVars
<1>1. TrackerTypeOK' /\ \A k \in removing' : counter'[k] = Zero /\ restarted'[k] = 1
  BY <1>0, RestartTypes
<1>2. SamplerTypeOK' /\ (at' # "emails" => emails' = NoKeys)
  BY <1>0, <1>1 DEF SamplerInv, SamplerTypeOK
<1>3. \A k \in Key : Kept(k)
  BY <1>0, RestartKeeps
<1> QED BY <1>1, <1>2, <1>3, KeyByKey

LEMMA RemovePeerStep ==
  ASSUME SamplerInv, NEW k0 \in Key, RemovePeer(k0)
  PROVE  SamplerInv' /\ NothingTakenBack
<1>0. /\ RestartCounters({k0}) /\ stats' = stats /\ total' = total /\ reported' = reported
      /\ at' = at /\ device' = device /\ emails' = emails
      /\ removing' = removing \cup {k0} /\ stale' = stale /\ recharged' = recharged
  BY DEF RemovePeer, jobVars
<1>1. TrackerTypeOK' /\ \A k \in removing' : counter'[k] = Zero /\ restarted'[k] = 1
  BY <1>0, RestartTypes
<1>2. SamplerTypeOK' /\ (at' # "emails" => emails' = NoKeys)
  BY <1>0, <1>1 DEF SamplerInv, SamplerTypeOK
<1>3. \A k \in Key : Kept(k)
  BY <1>0, RestartKeeps
<1> QED BY <1>1, <1>2, <1>3, KeyByKey

LEMMA RemoveStatsStep ==
  ASSUME SamplerInv, NEW k0 \in Key, RemoveStats(k0)
  PROVE  SamplerInv' /\ NothingTakenBack
<1>0. /\ k0 \in removing /\ removing' = removing \ {k0} /\ stats' = WithoutStats(k0)
      /\ stale' = IF k0 \in DOMAIN device /\ stats[k0] # NoEntry THEN stale \cup {k0} ELSE stale
      /\ counter' = counter /\ total' = total /\ restarted' = restarted /\ reported' = reported
      /\ at' = at /\ device' = device /\ emails' = emails /\ recharged' = recharged
  BY DEF RemoveStats, jobVars
<1>t. stats \in [Key -> Entry \cup {NoEntry}]
  BY DEF SamplerInv, SamplerTypeOK, TrackerTypeOK
<1>1. \A k \in Key : stats'[k] = IF k = k0 /\ stats[k] # NoEntry
                                 THEN MarkDeleted(stats[k]) ELSE stats[k]
  BY <1>0, <1>t DEF WithoutStats
<1>2. ASSUME NEW k \in Key
      PROVE  stats'[k] \in Entry \cup {NoEntry} /\ Kept(k)
  <2>1. Facts(k)
    BY InvGivesFacts
  <2>2. Hand(k)' = Hand(k)
    BY <1>0 DEF Hand
  <2>3. CASE k = k0 /\ stats[k] # NoEntry
    <3>1. /\ stats[k] \in Entry /\ stats'[k] = MarkDeleted(stats[k])
          /\ counter[k] = Zero /\ restarted[k] = 1
      BY <1>0, <1>1, <2>1, <2>3 DEF SamplerInv, Facts
    <3>2. /\ MarkDeleted(stats[k]) \in Entry
          /\ Good(MarkDeleted(stats[k]), Zero, Lim(total[k], recharged[k]), reported[k], 1)
          /\ MarkDeleted(stats[k]).cur = stats[k].cur
          /\ MarkDeleted(stats[k]).base = stats[k].base
      BY <2>1, <3>1, GoodRemove DEF Facts
    <3>3. \A d \in Dir : Account(stats'[k], reported'[k], d) = Account(stats[k], reported[k], d)
      BY <1>0, <2>3, <3>1, <3>2, StatsAssumption DEF Account
    <3>4. CASE k \in DOMAIN device
      <4>1. Old(k)' = 1
        BY <1>0, <2>3, <3>4 DEF Old
      <4>2. HandOK(MarkDeleted(stats[k]), Zero, Lim(total[k], recharged[k]), reported[k], 1, Hand(k), 1)
        BY <2>1, <3>1, HandRemove DEF Facts
      <4>3. TwiceOK(Zero, total[k], recharged[k], Hand(k), 1)
        <5>1. TwiceOK(Zero, total[k], recharged[k], Hand(k), Old(k))
          BY <2>1, <3>1 DEF Facts
        <5>2. \A d \in Dir : /\ Zero[d] = 0 /\ total[k][d] \in Nat /\ recharged[k][d] \in Nat
                             /\ \A v \in Hand(k) : v[d] \in Nat
          BY <2>1 DEF Facts, Bytes, Zero
        <5>3. ASSUME NEW d \in Dir
              PROVE  /\ recharged[k][d] + Zero[d] <= total[k][d]
                     /\ \A v \in Hand(k) : recharged[k][d] + v[d] + Zero[d] <= total[k][d]
          <6>1. /\ recharged[k][d] + Zero[d] <= total[k][d]
                /\ \A v \in Hand(k) : v[d] <= Zero[d] \/ recharged[k][d] + v[d] + Zero[d] <= total[k][d]
            BY <5>1 DEF TwiceOK
          <6> QED BY <5>2, <6>1
        <5> QED BY <5>3 DEF TwiceOK
      <4>4. KeyGood(stats'[k], counter'[k], total'[k], reported'[k], restarted'[k],
                    recharged'[k], Hand(k)', Old(k)')
        BY <1>0, <2>2, <3>1, <3>2, <4>1, <4>2, <4>3, Zenon DEF KeyGood
      <4> QED BY <1>0, <2>1, <3>1, <3>2, <3>3, <4>4 DEF Kept, Facts
    <3>5. CASE k \notin DOMAIN device
      <4>1. Hand(k)' = {}
        BY <1>0, <3>5 DEF Hand
      <4>2. /\ HandOK(MarkDeleted(stats[k]), Zero, Lim(total[k], recharged[k]), reported[k], 1, {}, Old(k)')
            /\ TwiceOK(Zero, total[k], recharged[k], {}, Old(k)')
        BY <2>1, <3>1 DEF HandOK, TwiceOK, Facts
      <4>3. KeyGood(stats'[k], counter'[k], total'[k], reported'[k], restarted'[k],
                    recharged'[k], Hand(k)', Old(k)')
        BY <1>0, <3>1, <3>2, <4>1, <4>2, Zenon DEF KeyGood
      <4> QED BY <1>0, <2>1, <3>1, <3>2, <3>3, <4>3 DEF Kept, Facts
    <3> QED BY <3>4, <3>5
  <2>4. CASE ~(k = k0 /\ stats[k] # NoEntry)
    <3>1. stats'[k] = stats[k] /\ ((k \in stale') <=> (k \in stale))
      BY <1>0, <1>1, <2>4
    <3> QED BY <1>0, <2>1, <2>2, <3>1, KeyLeftAlone DEF Facts
  <2> QED BY <2>3, <2>4
<1>3. SamplerTypeOK' /\ (at' # "emails" => emails' = NoKeys)
  <2>1. stats' \in [Key -> Entry \cup {NoEntry}]
    BY <1>0, <1>t, <1>2 DEF WithoutStats
  <2>2. TrackerTypeOK'
    BY <1>0, <2>1 DEF SamplerInv, SamplerTypeOK, TrackerTypeOK
  <2>3. stale' \subseteq DOMAIN device' /\ removing' \subseteq Key
    BY <1>0 DEF SamplerInv, SamplerTypeOK
  <2> QED BY <1>0, <2>2, <2>3 DEF SamplerInv, SamplerTypeOK
<1>4. \A k \in removing' : counter'[k] = Zero /\ restarted'[k] = 1
  BY <1>0 DEF SamplerInv
<1> QED BY <1>2, <1>3, <1>4, KeyByKey

LEMMA ResetStep ==
  ASSUME SamplerInv, NEW keys \in SUBSET Key, ReadStatsReset(keys)
  PROVE  SamplerInv' /\ NothingTakenBack
<1> DEFINE found == {k \in keys : stats[k] # NoEntry}
<1>0. /\ reported' = [k \in Key |-> IF k \in found
                        THEN [d \in Dir |-> reported[k][d] + Reportable(stats[k])[d]]
                        ELSE reported[k]]
      /\ stats' = [k \in Key |-> IF k \in found THEN ResetEntry(stats[k]) ELSE stats[k]]
      /\ counter' = counter /\ total' = total /\ restarted' = restarted
      /\ at' = at /\ device' = device /\ emails' = emails
      /\ removing' = removing /\ stale' = stale /\ recharged' = recharged
  BY DEF ReadStatsReset, GetStatsReset, jobVars
<1>1. ASSUME NEW k \in Key
      PROVE  /\ stats'[k] \in Entry \cup {NoEntry}
             /\ reported'[k] \in [Dir -> Int]
             /\ Kept(k)
  <2>1. Facts(k)
    BY InvGivesFacts
  <2>2. Hand(k)' = Hand(k) /\ Old(k)' = Old(k)
    BY <1>0 DEF Hand, Old
  <2>3. CASE k \in found
    <3>1. /\ stats[k] \in Entry
          /\ stats'[k] = ResetEntry(stats[k])
          /\ reported'[k] = [d \in Dir |-> reported[k][d] + Reportable(stats[k])[d]]
      BY <1>0, <2>1, <2>3 DEF Facts
    <3>2. Reportable(stats[k]) \in [Dir -> Int]
      BY <3>1 DEF Reportable, Delta, Entry
    <3>3. reported'[k] \in [Dir -> Int]
          /\ \A d \in Dir : reported'[k][d] = reported[k][d] + Reportable(stats[k])[d]
      BY <2>1, <3>1, <3>2 DEF Facts
    <3>4. /\ ResetEntry(stats[k]) \in Entry \cup {NoEntry}
          /\ Good(ResetEntry(stats[k]), counter[k], Lim(total[k], recharged[k]), reported'[k], restarted[k])
          /\ \A d \in Dir : Account(ResetEntry(stats[k]), reported'[k], d)
                            = Account(stats[k], reported[k], d)
      BY <2>1, <3>1, <3>3, GoodReset DEF Facts
    <3>5. HandOK(ResetEntry(stats[k]), counter[k], Lim(total[k], recharged[k]), reported'[k], restarted[k],
                 Hand(k), Old(k))
      BY <2>1, <3>1, <3>3, HandReset DEF Facts
    <3>6. KeyGood(stats'[k], counter'[k], total'[k], reported'[k], restarted'[k],
                  recharged'[k], Hand(k)', Old(k)')
      BY <1>0, <2>1, <2>2, <3>1, <3>4, <3>5, Zenon DEF KeyGood, Facts
    <3> QED BY <1>0, <2>1, <3>1, <3>3, <3>4, <3>6 DEF Kept, Facts
  <2>4. CASE k \notin found
    <3>1. stats'[k] = stats[k] /\ reported'[k] = reported[k]
      BY <1>0, <2>4
    <3> QED BY <1>0, <2>1, <2>2, <3>1, KeyLeftAlone DEF Facts
  <2> QED BY <2>3, <2>4
<1>2. SamplerTypeOK' /\ (at' # "emails" => emails' = NoKeys)
  <2>1. stats' \in [Key -> Entry \cup {NoEntry}] /\ reported' \in [Key -> [Dir -> Int]]
    <3> HIDE DEF found
    <3>1. stats' = [k \in Key |-> stats'[k]] /\ reported' = [k \in Key |-> reported'[k]]
      BY <1>0
    <3> QED BY <1>1, <3>1
  <2>2. TrackerTypeOK'
    BY <1>0, <2>1 DEF SamplerInv, SamplerTypeOK, TrackerTypeOK
  <2> QED BY <1>0, <2>2 DEF SamplerInv, SamplerTypeOK
<1>3. \A k \in removing' : counter'[k] = Zero /\ restarted'[k] = 1
  BY <1>0 DEF SamplerInv
<1> QED BY <1>1, <1>2, <1>3, KeyByKey

LEMMA CleanupStep ==
  ASSUME SamplerInv, CleanupOfflineUsers
  PROVE  SamplerInv' /\ NothingTakenBack
<1>0. /\ stats' = [k \in Key |-> IF FullyReported(stats[k]) THEN NoEntry ELSE stats[k]]
      /\ counter' = counter /\ total' = total /\ restarted' = restarted /\ reported' = reported
      /\ at' = at /\ device' = device /\ emails' = emails
      /\ removing' = removing /\ stale' = stale /\ recharged' = recharged
  BY DEF CleanupOfflineUsers, CleanupDeletedEntries, jobVars
<1>1. ASSUME NEW k \in Key PROVE Kept(k)
  <2>1. Facts(k)
    BY InvGivesFacts
  <2>2. Hand(k)' = Hand(k) /\ Old(k)' = Old(k)
    BY <1>0 DEF Hand, Old
  <2>3. CASE FullyReported(stats[k])
    <3>1. stats'[k] = NoEntry
      BY <1>0, <2>3
    <3>2. /\ Good(NoEntry, counter[k], Lim(total[k], recharged[k]), reported[k], restarted[k])
          /\ \A d \in Dir : Account(NoEntry, reported[k], d) = Account(stats[k], reported[k], d)
      BY <2>1, <2>3, GoodCleanup DEF Facts
    <3>3. HandOK(NoEntry, counter[k], Lim(total[k], recharged[k]), reported[k], restarted[k], Hand(k), Old(k))
      BY <2>1, <2>3, HandCleanup DEF Facts
    <3>4. KeyGood(stats'[k], counter'[k], total'[k], reported'[k], restarted'[k],
                  recharged'[k], Hand(k)', Old(k)')
      BY <1>0, <2>1, <2>2, <3>1, <3>2, <3>3, Zenon DEF KeyGood, Facts
    <3> QED BY <1>0, <2>1, <3>1, <3>2, <3>4 DEF Kept, Facts
  <2>4. CASE ~FullyReported(stats[k])
    <3>1. stats'[k] = stats[k]
      BY <1>0, <2>4
    <3> QED BY <1>0, <2>1, <2>2, <3>1, KeyLeftAlone
  <2> QED BY <2>3, <2>4
<1>2. SamplerTypeOK' /\ (at' # "emails" => emails' = NoKeys)
  <2>1. TrackerTypeOK'
    BY <1>0 DEF SamplerInv, SamplerTypeOK, TrackerTypeOK
  <2> QED BY <1>0, <2>1 DEF SamplerInv, SamplerTypeOK
<1>3. \A k \in removing' : counter'[k] = Zero /\ restarted'[k] = 1
  BY <1>0 DEF SamplerInv
<1> QED BY <1>1, <1>2, <1>3, KeyByKey

LEMMA SamplerStep == SamplerInv /\ [SamplerNext]_samplerVars => SamplerInv' /\ NothingTakenBack
<1> SUFFICES ASSUME SamplerInv, [SamplerNext]_samplerVars
             PROVE  SamplerInv' /\ NothingTakenBack
  OBVIOUS
<1>1. CASE SamplerNext
  BY <1>1, ReadDeviceStep, ReadEmailsStep, UpdateStep, TransferStep, ReplaceStep,
     RemovePeerStep, RemoveStatsStep, ResetStep, CleanupStep DEF SamplerNext
<1>2. CASE UNCHANGED samplerVars
  <2>0. /\ stats' = stats /\ counter' = counter /\ total' = total /\ restarted' = restarted
        /\ reported' = reported /\ at' = at /\ device' = device /\ emails' = emails
        /\ removing' = removing /\ stale' = stale /\ recharged' = recharged
    BY <1>2 DEF samplerVars, trackerVars, jobVars
  <2>1. SamplerTypeOK' /\ (at' # "emails" => emails' = NoKeys)
    <3>1. TrackerTypeOK'
      BY <2>0 DEF SamplerInv, SamplerTypeOK, TrackerTypeOK
    <3> QED BY <2>0, <3>1 DEF SamplerInv, SamplerTypeOK
  <2>2. \A k \in removing' : counter'[k] = Zero /\ restarted'[k] = 1
    BY <2>0 DEF SamplerInv
  <2>3. ASSUME NEW k \in Key PROVE Kept(k)
    BY <2>0, InvGivesFacts, KeyLeftAlone DEF Hand
  <2> QED BY <2>1, <2>2, <2>3, KeyByKey
<1> QED BY <1>1, <1>2

LEMMA SamplerInitInv == SamplerInit => SamplerInv
<1> SUFFICES ASSUME SamplerInit PROVE SamplerInv
  OBVIOUS
<1>0. /\ stats = [k \in Key |-> NoEntry] /\ counter = [k \in Key |-> Zero] /\ total = [k \in Key |-> Zero]
      /\ restarted = [k \in Key |-> 0] /\ reported = [k \in Key |-> Zero]
      /\ at = "idle" /\ device = NoKeys /\ emails = NoKeys /\ removing = {} /\ stale = {}
      /\ recharged = [k \in Key |-> Zero]
  BY DEF SamplerInit, TrackerInit
<1>1. SamplerTypeOK
  <2>1. TrackerTypeOK
    BY <1>0 DEF TrackerTypeOK, Zero
  <2>2. /\ DOMAIN device = {} /\ DOMAIN emails = {}
        /\ device \in [DOMAIN device -> [Dir -> Nat]] /\ emails \in [DOMAIN emails -> Email]
        /\ recharged \in [Key -> [Dir -> Nat]]
    BY <1>0 DEF NoKeys, Zero
  <2> QED BY <1>0, <2>1, <2>2 DEF SamplerTypeOK
<1>2. ASSUME NEW k \in Key
      PROVE  KeyGood(stats[k], counter[k], total[k], reported[k], restarted[k],
                     recharged[k], Hand(k), Old(k))
  <2>1. /\ stats[k] = NoEntry /\ counter[k] = Zero /\ total[k] = Zero /\ reported[k] = Zero
        /\ recharged[k] = Zero /\ Hand(k) = {}
    BY <1>0 DEF Hand, NoKeys
  <2>2. Zero \in Bytes /\ \A d \in Dir : Zero[d] = 0
    BY DEF Zero, Bytes
  <2>3. \A d \in Dir : Lim(total[k], recharged[k])[d] = 0
    BY <2>1, <2>2 DEF Lim
  <2>4. AbsentOK(counter[k], Lim(total[k], recharged[k]), reported[k], restarted[k])
    BY <2>1, <2>2, <2>3 DEF AbsentOK
  <2>5. TwiceOK(counter[k], total[k], recharged[k], Hand(k), Old(k))
    BY <2>1, <2>2 DEF TwiceOK
  <2>6. HandOK(stats[k], counter[k], Lim(total[k], recharged[k]), reported[k], restarted[k], Hand(k), Old(k))
    BY <2>1 DEF HandOK
  <2> QED BY <2>1, <2>4, <2>5, <2>6 DEF KeyGood, Good
<1> QED BY <1>0, <1>1, <1>2 DEF SamplerInv

\* The invariant gives the three state properties.
LEMMA InvImplies ==
  SamplerInv => NeverOverReported /\ PendingNonNegative /\ ExactUntilRestart
<1> SUFFICES ASSUME SamplerInv, NEW k \in Key, NEW d \in Dir
             PROVE  /\ Accounted(k, d) <= total[k][d] + recharged[k][d]
                    /\ recharged[k][d] <= total[k][d]
                    /\ Pending(k, d) >= 0
                    /\ restarted[k] = 0 /\ stats[k] # NoEntry => Accounted(k, d) = stats[k].cur[d]
  BY DEF NeverOverReported, PendingNonNegative, ExactUntilRestart
<1> DEFINE lim == Lim(total[k], recharged[k])
<1>0. Facts(k)
  BY InvGivesFacts
<1>1. /\ stats[k] \in Entry \cup {NoEntry} /\ total[k][d] \in Nat /\ counter[k][d] \in Nat
      /\ reported[k][d] \in Int /\ recharged[k][d] \in Nat
      /\ lim[d] = total[k][d] + recharged[k][d]
      /\ Good(stats[k], counter[k], lim, reported[k], restarted[k])
  BY <1>0, LimIsBytes DEF Facts, Bytes
<1>a. recharged[k][d] <= total[k][d]
  <2>1. recharged[k][d] + counter[k][d] <= total[k][d]
    BY <1>0 DEF Facts, TwiceOK
  <2> QED BY <1>1, <2>1
<1> HIDE DEF lim
<1>2. CASE stats[k] = NoEntry
  <2>1. AbsentOK(counter[k], lim, reported[k], restarted[k])
    BY <1>1, <1>2, StatsAssumption DEF Good
  <2> QED BY <1>1, <1>a, <1>2, <2>1 DEF AbsentOK, Accounted, Pending
<1>3. CASE stats[k] # NoEntry
  <2>1. stats[k].cur[d] \in Nat /\ stats[k].base[d] \in Int
    BY <1>1, <1>3 DEF Entry
  <2>2. Pending(k, d) = stats[k].cur[d] - stats[k].base[d]
    BY <1>3 DEF Pending, Delta
  <2>3. CASE stats[k].deleted
    <3>1. DeletedOK(stats[k], counter[k], lim, reported[k], restarted[k])
      BY <1>1, <1>3, <2>3 DEF Good
    <3> QED BY <1>1, <1>a, <2>1, <2>2, <3>1 DEF DeletedOK, Accounted
  <2>4. CASE ~stats[k].deleted
    <3>1. LiveOK(stats[k], counter[k], lim, reported[k], restarted[k])
      BY <1>1, <1>3, <2>4 DEF Good
    <3> QED BY <1>1, <1>a, <2>1, <2>2, <3>1 DEF LiveOK, Accounted
  <2> QED BY <2>3, <2>4
<1> QED BY <1>2, <1>3

\* Types, no negative delta, and no byte charged that was not transferred, but
\* for those that a sample read before its peer's removal charges a second time
\* after the entry was reported and dropped; for unbounded traffic and any
\* number of rollbacks, removals and re-adds (jobs.go:55-100, tracker.go:63-114).
THEOREM TrackerNeverOverReports ==
  SamplerSpec => [](SamplerTypeOK /\ NeverOverReported /\ PendingNonNegative)
<1>1. SamplerInv => SamplerTypeOK
  BY DEF SamplerInv
<1> QED BY <1>1, SamplerInitInv, SamplerStep, InvImplies, PTL DEF SamplerSpec

\* Until its counters restart for the first time, a peer's entry accounts for
\* every byte of the counters last applied, whatever was reset or cleaned up
\* between their read and their use (tracker.go:91, jobs.go:55-100).
THEOREM TrackerIsExact == SamplerSpec => []ExactUntilRestart
<1> QED BY SamplerInitInv, SamplerStep, InvImplies, PTL DEF SamplerSpec

\* Bytes once accounted stay accounted (tracker.go:90, tracker.go:270).
THEOREM TrackerLosesNothing == SamplerSpec => AccountedNeverShrinks
<1>1. SamplerInv /\ [SamplerNext]_samplerVars => [NothingTakenBack]_samplerVars
  BY SamplerStep
<1> QED BY <1>1, SamplerInitInv, SamplerStep, PTL DEF SamplerSpec, AccountedNeverShrinks
=============================================================================
