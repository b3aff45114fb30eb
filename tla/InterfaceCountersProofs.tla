----------------------- MODULE InterfaceCountersProofs -----------------------
(***************************************************************************)
(* The interface counters for any traffic, any number of restarts and any  *)
(* number of concurrent queries.  ResetsAreExact is not inductive: what a  *)
(* Delta may add depends on how the sample in its hands stands to the      *)
(* baseline, and that on when the two were read.  The invariant compares   *)
(* every sample, the baseline's included, with the counters as they stand  *)
(* and with every other sample: a sample grows over an older one by no     *)
(* more than was transferred between the two reads.                        *)
(***************************************************************************)
EXTENDS InterfaceCounters, TLAPS

Bytes == [Dir -> Nat]

\* The stamp y is not older than the stamp x.
NotOlder(y, x) == x.life <= y.life /\ \A d \in Dir : x.total[d] <= y.total[d]

\* A sample v, read at x, as counters, totals and restarts stand.
Now(v, x, cnt, tot, rst) ==
  /\ x.life <= rst
  /\ \A d \in Dir :
       /\ x.total[d] <= tot[d]
       /\ cnt[d] - v[d] <= tot[d] - x.total[d]
       /\ x.life = rst => cnt[d] - v[d] = tot[d] - x.total[d]
       /\ rst = 0 => v[d] = x.total[d]

\* A sample v, read at x, and another one, w, read at y.
Pair(v, x, w, y) ==
  /\ NotOlder(y, x) \/ NotOlder(x, y)
  /\ NotOlder(y, x) => \A d \in Dir : w[d] - v[d] <= y.total[d] - x.total[d]

\* Before the first Delta nothing has been remembered or returned.
FreshOK ==
  ~baseSet => /\ base = Zero /\ first = Zero /\ reported = Zero /\ slipped = Zero
              /\ baseTaken = [life |-> 0, total |-> Zero]

\* The samples in flight, against the counters, the baseline and each other.
SamplesOK ==
  \A q \in Query : pc[q] = "read" =>
    /\ Now(sample[q], taken[q], counter, total, restarts)
    /\ Pair(base, baseTaken, sample[q], taken[q])
    /\ \A r \in Query : pc[r] = "read" => Pair(sample[r], taken[r], sample[q], taken[q])

BaseOK == Now(base, baseTaken, counter, total, restarts)

\* What was returned is covered by what was transferred up to the read of the
\* baseline; without a restart it is the baseline.
CoveredOK ==
  \A d \in Dir :
    /\ first[d] + reported[d] <= baseTaken.total[d] + slipped[d]
    /\ restarts = 0 => first[d] + reported[d] = base[d] + slipped[d]

\* The inductive invariant.
CountersInv == CountersTypeOK /\ FreshOK /\ SamplesOK /\ BaseOK /\ CoveredOK

-----------------------------------------------------------------------------
LEMMA CountersInitInv == Init => CountersInv
<1> SUFFICES ASSUME Init PROVE CountersInv
  OBVIOUS
<1>0. Zero \in [Dir -> Nat] /\ \A d \in Dir : Zero[d] = 0
  BY DEF Zero
<1>1. CountersTypeOK
  <2>1. 0 \in 0..MaxRestarts
    BY InterfaceCountersAssumption
  <2> QED BY <1>0, <2>1 DEF Init, CountersTypeOK, Stamp
<1>2. FreshOK
  BY DEF Init, FreshOK
<1>3. SamplesOK
  BY DEF Init, SamplesOK
<1>4. BaseOK
  BY <1>0 DEF Init, BaseOK, Now
<1>5. CoveredOK
  BY <1>0 DEF Init, CoveredOK
<1> QED BY <1>1, <1>2, <1>3, <1>4, <1>5 DEF CountersInv

\* What is known of the samples in flight and of the baseline.
LEMMA SampleTypes ==
  ASSUME CountersInv
  PROVE  /\ base \in Bytes /\ baseTaken \in Stamp
         /\ \A q \in Query : sample[q] \in Bytes /\ taken[q] \in Stamp
         /\ counter \in Bytes /\ total \in Bytes /\ restarts \in Nat
BY InterfaceCountersAssumption DEF CountersInv, CountersTypeOK, Bytes

\* Every byte moves the counters and the total together.
LEMMA NowTransfer ==
  ASSUME NEW v \in Bytes, NEW x \in Stamp, NEW cnt \in Bytes, NEW tot \in Bytes, NEW rst \in Nat,
         NEW cnt2 \in Bytes, NEW tot2 \in Bytes,
         \A d \in Dir : \/ cnt2[d] = cnt[d] /\ tot2[d] = tot[d]
                        \/ cnt2[d] = cnt[d] + 1 /\ tot2[d] = tot[d] + 1,
         Now(v, x, cnt, tot, rst)
  PROVE  Now(v, x, cnt2, tot2, rst)
<1>1. ASSUME NEW d \in Dir
      PROVE  /\ x.total[d] <= tot2[d]
             /\ cnt2[d] - v[d] <= tot2[d] - x.total[d]
             /\ x.life = rst => cnt2[d] - v[d] = tot2[d] - x.total[d]
             /\ rst = 0 => v[d] = x.total[d]
  <2>1. /\ x.total[d] <= tot[d]
        /\ cnt[d] - v[d] <= tot[d] - x.total[d]
        /\ x.life = rst => cnt[d] - v[d] = tot[d] - x.total[d]
        /\ rst = 0 => v[d] = x.total[d]
    BY DEF Now
  <2>2. cnt[d] \in Nat /\ tot[d] \in Nat /\ cnt2[d] \in Nat /\ tot2[d] \in Nat
    BY DEF Bytes
  <2>3. x.total[d] \in Nat /\ v[d] \in Nat
    BY DEF Bytes, Stamp
  <2> QED BY <2>1, <2>2, <2>3
<1> QED BY <1>1 DEF Now

\* Counters that start again at zero fall behind every sample.
LEMMA NowRestart ==
  ASSUME NEW v \in Bytes, NEW x \in Stamp, NEW cnt \in Bytes, NEW tot \in Bytes, NEW rst \in Nat,
         Now(v, x, cnt, tot, rst)
  PROVE  Now(v, x, Zero, tot, rst + 1)
<1>1. x.life \in Nat /\ x.life <= rst
  BY InterfaceCountersAssumption DEF Now, Stamp
<1>2. x.life <= rst + 1 /\ x.life # rst + 1 /\ rst + 1 # 0
  BY <1>1
<1>3. ASSUME NEW d \in Dir
      PROVE  x.total[d] <= tot[d] /\ Zero[d] - v[d] <= tot[d] - x.total[d]
  <2>1. x.total[d] <= tot[d]
    BY DEF Now
  <2>2. tot[d] \in Nat /\ x.total[d] \in Nat /\ v[d] \in Nat /\ Zero[d] = 0
    BY DEF Bytes, Stamp, Zero
  <2> QED BY <2>1, <2>2
<1> QED BY <1>2, <1>3 DEF Now

\* A sample read now, beside one read before.
LEMMA NowPair ==
  ASSUME NEW v \in Bytes, NEW x \in Stamp, NEW cnt \in Bytes, NEW tot \in Bytes,
         NEW rst \in 0..MaxRestarts, Now(v, x, cnt, tot, rst)
  PROVE  /\ Pair(v, x, cnt, [life |-> rst, total |-> tot])
         /\ Pair(cnt, [life |-> rst, total |-> tot], v, x)
<1> DEFINE y == [life |-> rst, total |-> tot]
<1>1. y.life = rst /\ y.total = tot
  OBVIOUS
<1>2. x.life \in Nat /\ rst \in Nat /\ x.total \in Bytes
  BY InterfaceCountersAssumption DEF Stamp, Bytes
<1> HIDE DEF y
<1>3. NotOlder(y, x)
  BY <1>1 DEF Now, NotOlder
<1>4. \A d \in Dir : cnt[d] - v[d] <= tot[d] - x.total[d]
  BY DEF Now
<1>5. ASSUME NotOlder(x, y), NEW d \in Dir
      PROVE  v[d] - cnt[d] <= x.total[d] - tot[d]
  <2>1. x.life = rst
    BY <1>1, <1>2, <1>5 DEF Now, NotOlder
  <2>2. cnt[d] - v[d] = tot[d] - x.total[d]
    BY <2>1 DEF Now
  <2>3. cnt[d] \in Nat /\ v[d] \in Nat /\ tot[d] \in Nat /\ x.total[d] \in Nat
    BY <1>2 DEF Bytes
  <2> QED BY <2>2, <2>3
<1>6. Pair(v, x, cnt, y)
  BY <1>1, <1>3, <1>4 DEF Pair
<1>7. Pair(cnt, y, v, x)
  BY <1>1, <1>3, <1>5 DEF Pair
<1> QED BY <1>6, <1>7 DEF y

LEMMA TransferStep ==
  ASSUME CountersInv, NEW e \in Dir, Transfer(e)
  PROVE  CountersInv'
<1>0. /\ base' = base /\ baseSet' = baseSet /\ pc' = pc /\ sample' = sample /\ restarts' = restarts
      /\ first' = first /\ reported' = reported
      /\ taken' = taken /\ baseTaken' = baseTaken /\ slipped' = slipped
      /\ counter' = [counter EXCEPT ![e] = @ + 1] /\ total' = [total EXCEPT ![e] = @ + 1]
  BY DEF Transfer, orderVars
<1>t. /\ base \in Bytes /\ baseTaken \in Stamp
      /\ \A q \in Query : sample[q] \in Bytes /\ taken[q] \in Stamp
      /\ counter \in Bytes /\ total \in Bytes /\ restarts \in Nat
  BY SampleTypes
<1>1. CountersTypeOK'
  BY <1>0 DEF CountersInv, CountersTypeOK
<1>2. FreshOK'
  BY <1>0 DEF CountersInv, FreshOK, Zero
<1>a. /\ counter' \in Bytes /\ total' \in Bytes
      /\ \A d \in Dir : \/ counter'[d] = counter[d] /\ total'[d] = total[d]
                        \/ counter'[d] = counter[d] + 1 /\ total'[d] = total[d] + 1
  BY <1>0, <1>t DEF Bytes
<1>3. SamplesOK'
  <2>1. ASSUME NEW q \in Query, pc[q] = "read"
        PROVE  Now(sample[q], taken[q], counter', total', restarts)
    <3>1. Now(sample[q], taken[q], counter, total, restarts)
      BY <2>1 DEF CountersInv, SamplesOK
    <3> QED BY <1>t, <1>a, <3>1, NowTransfer
  <2> QED BY <1>0, <2>1 DEF CountersInv, SamplesOK
<1>4. BaseOK'
  <2>1. Now(base, baseTaken, counter, total, restarts)
    BY DEF CountersInv, BaseOK
  <2>2. Now(base, baseTaken, counter', total', restarts)
    BY <1>t, <1>a, <2>1, NowTransfer
  <2> QED BY <1>0, <2>2 DEF BaseOK
<1>5. CoveredOK'
  BY <1>0 DEF CountersInv, CoveredOK
<1> QED BY <1>1, <1>2, <1>3, <1>4, <1>5 DEF CountersInv

LEMMA RestartStep ==
  ASSUME CountersInv, Restart
  PROVE  CountersInv'
<1>0. /\ base' = base /\ baseSet' = baseSet /\ pc' = pc /\ sample' = sample /\ restarts' = restarts + 1
      /\ first' = first /\ reported' = reported /\ total' = total /\ counter' = Zero
      /\ taken' = taken /\ baseTaken' = baseTaken /\ slipped' = slipped
  BY DEF Restart, orderVars
<1>t. /\ base \in Bytes /\ baseTaken \in Stamp
      /\ \A q \in Query : sample[q] \in Bytes /\ taken[q] \in Stamp
      /\ counter \in Bytes /\ total \in Bytes /\ restarts \in Nat
  BY SampleTypes
<1>1. CountersTypeOK'
  BY <1>0, InterfaceCountersAssumption DEF CountersInv, CountersTypeOK, Restart, Zero
<1>2. FreshOK'
  BY <1>0 DEF CountersInv, FreshOK, Zero
<1>3. SamplesOK'
  <2>1. ASSUME NEW q \in Query, pc[q] = "read"
        PROVE  Now(sample[q], taken[q], Zero, total, restarts + 1)
    <3>1. Now(sample[q], taken[q], counter, total, restarts)
      BY <2>1 DEF CountersInv, SamplesOK
    <3> QED BY <1>t, <3>1, NowRestart
  <2> QED BY <1>0, <2>1 DEF CountersInv, SamplesOK
<1>4. BaseOK'
  <2>1. Now(base, baseTaken, counter, total, restarts)
    BY DEF CountersInv, BaseOK
  <2>2. Now(base, baseTaken, Zero, total, restarts + 1)
    BY <1>t, <2>1, NowRestart
  <2> QED BY <1>0, <2>2 DEF BaseOK
<1>5. CoveredOK'
  <2>1. restarts' # 0
    BY <1>0, <1>t
  <2> QED BY <1>0, <2>1 DEF CountersInv, CoveredOK
<1> QED BY <1>1, <1>2, <1>3, <1>4, <1>5 DEF CountersInv

\* A new sample is the newest of all.
LEMMA ReadStep ==
  ASSUME CountersInv, NEW r \in Query, GetInterfaceStats(r)
  PROVE  CountersInv'
<1> DEFINE now == [life |-> restarts, total |-> total]
<1>0. /\ base' = base /\ baseSet' = baseSet /\ restarts' = restarts /\ counter' = counter /\ total' = total
      /\ first' = first /\ reported' = reported /\ baseTaken' = baseTaken /\ slipped' = slipped
      /\ pc' = [pc EXCEPT ![r] = "read"] /\ sample' = [sample EXCEPT ![r] = counter]
      /\ taken' = [taken EXCEPT ![r] = now]
  BY DEF GetInterfaceStats
<1>t. /\ base \in Bytes /\ baseTaken \in Stamp
      /\ \A q \in Query : sample[q] \in Bytes /\ taken[q] \in Stamp
      /\ counter \in Bytes /\ total \in Bytes /\ restarts \in Nat
  BY SampleTypes
<1>u. restarts \in 0..MaxRestarts /\ now \in Stamp /\ now.life = restarts /\ now.total = total
  BY DEF CountersInv, CountersTypeOK, Stamp
<1>1. CountersTypeOK'
  <2> HIDE DEF now
  <2> QED BY <1>0, <1>u DEF CountersInv, CountersTypeOK
<1>2. FreshOK'
  BY <1>0 DEF CountersInv, FreshOK, Zero
<1>b. /\ sample'[r] = counter /\ taken'[r] = now
      /\ \A q \in Query : q # r => sample'[q] = sample[q] /\ taken'[q] = taken[q] /\ pc'[q] = pc[q]
  <2> HIDE DEF now
  <2> QED BY <1>0 DEF CountersInv, CountersTypeOK
<1>c. ASSUME NEW q \in Query, pc[q] = "read"
      PROVE  /\ Pair(sample[q], taken[q], counter, now)
             /\ Pair(counter, now, sample[q], taken[q])
  <2>1. Now(sample[q], taken[q], counter, total, restarts)
    BY <1>c DEF CountersInv, SamplesOK
  <2> QED BY <1>t, <1>u, <2>1, NowPair
<1>d. Now(counter, now, counter, total, restarts)
  <2>1. ASSUME NEW d \in Dir
        PROVE  /\ total[d] <= total[d] /\ counter[d] - counter[d] = total[d] - total[d]
               /\ counter[d] - counter[d] <= total[d] - total[d]
    BY <1>t DEF Bytes
  <2>2. ASSUME restarts = 0, NEW d \in Dir PROVE counter[d] = total[d]
    <3>1. Now(base, baseTaken, counter, total, restarts)
      BY DEF CountersInv, BaseOK
    <3>2. baseTaken.life = restarts
      BY <1>t, <2>2, <3>1, InterfaceCountersAssumption DEF Now, Stamp
    <3>3. counter[d] - base[d] = total[d] - baseTaken.total[d] /\ base[d] = baseTaken.total[d]
      BY <2>2, <3>1, <3>2 DEF Now
    <3>4. counter[d] \in Nat /\ total[d] \in Nat /\ base[d] \in Nat
      BY <1>t DEF Bytes
    <3> QED BY <3>3, <3>4
  <2> HIDE DEF now
  <2> QED BY <1>t, <1>u, <2>1, <2>2 DEF Now
<1>e. Pair(base, baseTaken, counter, now)
  <2>1. Now(base, baseTaken, counter, total, restarts)
    BY DEF CountersInv, BaseOK
  <2> QED BY <1>t, <1>u, <2>1, NowPair
<1>f. Pair(counter, now, counter, now)
  <2>1. Pair(counter, now, counter, [life |-> restarts, total |-> total])
    BY <1>d, <1>t, <1>u, NowPair
  <2> QED BY <2>1
<1> HIDE DEF now
<1>3. SamplesOK'
  <2> SUFFICES ASSUME NEW q \in Query, pc'[q] = "read"
               PROVE  /\ Now(sample'[q], taken'[q], counter, total, restarts)
                      /\ Pair(base, baseTaken, sample'[q], taken'[q])
                      /\ \A p \in Query : pc'[p] = "read" => Pair(sample'[p], taken'[p], sample'[q], taken'[q])
    BY <1>0 DEF SamplesOK
  <2>1. CASE q = r
    BY <1>b, <1>c, <1>d, <1>e, <1>f, <2>1
  <2>2. CASE q # r
    <3>1. pc[q] = "read" /\ sample'[q] = sample[q] /\ taken'[q] = taken[q]
      BY <1>b, <2>2
    <3>2. /\ Now(sample[q], taken[q], counter, total, restarts)
          /\ Pair(base, baseTaken, sample[q], taken[q])
          /\ \A p \in Query : pc[p] = "read" => Pair(sample[p], taken[p], sample[q], taken[q])
      BY <3>1 DEF CountersInv, SamplesOK
    <3>3. Pair(counter, now, sample[q], taken[q])
      BY <1>c, <3>1
    <3> QED BY <1>b, <3>1, <3>2, <3>3
  <2> QED BY <2>1, <2>2
<1>4. BaseOK'
  BY <1>0 DEF CountersInv, BaseOK
<1>5. CoveredOK'
  BY <1>0 DEF CountersInv, CoveredOK
<1> QED BY <1>1, <1>2, <1>3, <1>4, <1>5 DEF CountersInv

\* Delta: the first call, a rollback, a growth, each in order or overtaken.
LEMMA DeltaStep ==
  ASSUME CountersInv, NEW r \in Query, NEW reset \in BOOLEAN, Delta(r, reset)
  PROVE  CountersInv'
<1> DEFINE cur == sample[r]
           ref == BaselineFor(cur)
           rolled == Rebases(cur)
           ret == [d \in Dir |-> IF reset THEN cur[d] - ref[d] ELSE 0]
           moves == reset \/ rolled
           stamp == taken[r]
<1>1. /\ pc[r] = "read" /\ baseSet' = TRUE
      /\ pc' = [pc EXCEPT ![r] = "idle"] /\ sample' = [sample EXCEPT ![r] = Zero]
      /\ base' = IF moves THEN cur ELSE base
      /\ reported' = [d \in Dir |-> reported[d] + ret[d]]
      /\ first' = IF baseSet THEN first ELSE cur
      /\ baseTaken' = IF moves THEN stamp ELSE baseTaken
      /\ slipped' = IF moves /\ Overtaken(r)
                    THEN [d \in Dir |-> slipped[d] + (baseTaken.total[d] - stamp.total[d]) + ret[d]]
                    ELSE slipped
      /\ counter' = counter /\ restarts' = restarts /\ total' = total /\ taken' = taken
  BY DEF Delta, DeltaMoving
<1>2. /\ cur \in Bytes /\ base \in Bytes /\ first \in Bytes /\ reported \in Bytes /\ slipped \in Bytes
      /\ counter \in Bytes /\ total \in Bytes /\ restarts \in Nat
      /\ stamp \in Stamp /\ stamp.total \in Bytes /\ stamp.life \in Nat
      /\ baseTaken \in Stamp /\ baseTaken.total \in Bytes /\ baseTaken.life \in Nat
      /\ Zero \in Bytes /\ baseSet \in BOOLEAN
  BY InterfaceCountersAssumption DEF CountersInv, CountersTypeOK, Zero, Bytes, Stamp
<1>3. /\ Now(cur, stamp, counter, total, restarts) /\ Pair(base, baseTaken, cur, stamp)
      /\ Now(base, baseTaken, counter, total, restarts)
  BY <1>1 DEF CountersInv, SamplesOK, BaseOK
<1>4. /\ ref = IF rolled THEN cur ELSE base
      /\ ~rolled => baseSet /\ \A d \in Dir : base[d] <= cur[d]
      /\ rolled /\ baseSet => \E d \in Dir : cur[d] < base[d]
      /\ ~baseSet => rolled
  BY <1>2 DEF BaselineFor, Rebases, Bytes
<1>5. ~baseSet => /\ \A d \in Dir : base[d] = 0 /\ first[d] = 0 /\ reported[d] = 0 /\ slipped[d] = 0
                  /\ baseTaken.life = 0 /\ \A d \in Dir : baseTaken.total[d] = 0
  BY DEF CountersInv, FreshOK, Zero
<1>6. Overtaken(r) <=> ~NotOlder(stamp, baseTaken)
  BY <1>2 DEF Overtaken, NotOlder, Bytes
<1>7. Overtaken(r) => \A d \in Dir : stamp.total[d] <= baseTaken.total[d]
  BY <1>3, <1>6 DEF Pair, NotOlder
<1>8. ~Overtaken(r) => \A d \in Dir : /\ baseTaken.total[d] <= stamp.total[d]
                                      /\ cur[d] - base[d] <= stamp.total[d] - baseTaken.total[d]
  BY <1>3, <1>6 DEF Pair, NotOlder
<1>9. ~baseSet => ~Overtaken(r)
  BY <1>2, <1>5, <1>6 DEF NotOlder, Bytes
<1>10. restarts = 0 => \A d \in Dir : cur[d] = stamp.total[d] /\ base[d] = baseTaken.total[d]
  BY <1>3 DEF Now
<1>11. \A d \in Dir : /\ first[d] + reported[d] <= baseTaken.total[d] + slipped[d]
                      /\ restarts = 0 => first[d] + reported[d] = base[d] + slipped[d]
  BY DEF CountersInv, CoveredOK
<1>12. \A d \in Dir : /\ cur[d] \in Nat /\ base[d] \in Nat /\ first[d] \in Nat /\ reported[d] \in Nat
                      /\ slipped[d] \in Nat /\ stamp.total[d] \in Nat /\ baseTaken.total[d] \in Nat
  BY <1>2 DEF Bytes
<1>13. ASSUME NEW d \in Dir
       PROVE  /\ ret[d] \in Nat
              /\ ret[d] = IF reset /\ ~rolled THEN cur[d] - base[d] ELSE 0
  <2>1. ret[d] = IF reset THEN cur[d] - ref[d] ELSE 0
    OBVIOUS
  <2>2. ref[d] = IF rolled THEN cur[d] ELSE base[d]
    BY <1>4
  <2> HIDE DEF ret, ref, rolled, cur
  <2>3. CASE rolled
    BY <1>12, <2>1, <2>2, <2>3
  <2>4. CASE ~rolled
    BY <1>4, <1>12, <2>1, <2>2, <2>4
  <2> QED BY <2>3, <2>4
<1> HIDE DEF cur, ref, rolled, ret, stamp
<1>14. \A d \in Dir : /\ reported'[d] = reported[d] + ret[d]
                      /\ base'[d] = IF moves THEN cur[d] ELSE base[d]
                      /\ first'[d] = IF baseSet THEN first[d] ELSE cur[d]
                      /\ baseTaken'.total[d] = IF moves THEN stamp.total[d] ELSE baseTaken.total[d]
                      /\ slipped'[d] = IF moves /\ Overtaken(r)
                                       THEN slipped[d] + (baseTaken.total[d] - stamp.total[d]) + ret[d]
                                       ELSE slipped[d]
  BY <1>1
<1>15. ASSUME NEW d \in Dir
       PROVE  /\ first'[d] + reported'[d] <= baseTaken'.total[d] + slipped'[d]
              /\ restarts = 0 => first'[d] + reported'[d] = base'[d] + slipped'[d]
  <2>1. CASE ~baseSet
    <3>1. rolled /\ ~Overtaken(r) /\ ret[d] = 0
      BY <1>4, <1>9, <1>13, <2>1
    <3>2. /\ first'[d] = cur[d] /\ reported'[d] = 0 /\ slipped'[d] = 0
          /\ base'[d] = cur[d] /\ baseTaken'.total[d] = stamp.total[d]
      BY <1>5, <1>14, <2>1, <3>1
    <3>3. cur[d] <= stamp.total[d]
      BY <1>5, <1>8, <1>12, <2>1, <3>1
    <3> QED BY <1>10, <1>12, <3>2, <3>3
  <2>2. CASE baseSet /\ ~moves
    BY <1>11, <1>12, <1>13, <1>14, <2>2
  <2>3. CASE baseSet /\ moves /\ Overtaken(r)
    BY <1>10, <1>11, <1>12, <1>13, <1>14, <2>3
  <2>4. CASE baseSet /\ moves /\ ~Overtaken(r) /\ rolled
    <3>1. restarts # 0
      <4>1. PICK e \in Dir : cur[e] < base[e]
        BY <1>4, <2>4
      <4> QED BY <1>8, <1>10, <1>12, <2>4, <4>1
    <3>2. ret[d] = 0 /\ baseTaken.total[d] <= stamp.total[d]
      BY <1>8, <1>13, <2>4
    <3> QED BY <1>11, <1>12, <1>14, <2>4, <3>1, <3>2
  <2>5. CASE baseSet /\ moves /\ ~Overtaken(r) /\ ~rolled
    <3>1. ret[d] = cur[d] - base[d] /\ cur[d] - base[d] <= stamp.total[d] - baseTaken.total[d]
      BY <1>8, <1>13, <2>5
    <3> QED BY <1>10, <1>11, <1>12, <1>14, <2>5, <3>1
  <2> QED BY <1>2, <2>1, <2>2, <2>3, <2>4, <2>5
<1>16. CountersTypeOK'
  <2>1. reported' \in [Dir -> Nat]
    BY <1>1, <1>12, <1>13
  <2>2. slipped' \in [Dir -> Nat]
    <3>1. CASE moves /\ Overtaken(r)
      <4>1. \A d \in Dir : slipped[d] + (baseTaken.total[d] - stamp.total[d]) + ret[d] \in Nat
        BY <1>7, <1>12, <1>13, <3>1
      <4> QED BY <1>1, <3>1, <4>1
    <3>2. CASE ~(moves /\ Overtaken(r))
      BY <1>1, <1>2, <3>2 DEF Bytes
    <3> QED BY <3>1, <3>2
  <2>3. base' \in [Dir -> Nat] /\ first' \in [Dir -> Nat] /\ baseTaken' \in Stamp
    BY <1>1, <1>2 DEF Bytes
  <2>4. sample' \in [Query -> [Dir -> Nat]] /\ pc' \in [Query -> {"idle", "read"}]
    BY <1>1, <1>2 DEF CountersInv, CountersTypeOK, Bytes
  <2> QED BY <1>1, <2>1, <2>2, <2>3, <2>4 DEF CountersInv, CountersTypeOK
<1>17. FreshOK'
  BY <1>1 DEF FreshOK
<1>18. SamplesOK'
  <2> SUFFICES ASSUME NEW q \in Query, pc'[q] = "read"
               PROVE  /\ Now(sample'[q], taken[q], counter, total, restarts)
                      /\ Pair(base', baseTaken', sample'[q], taken[q])
                      /\ \A p \in Query : pc'[p] = "read" => Pair(sample'[p], taken[p], sample'[q], taken[q])
    BY <1>1 DEF SamplesOK
  <2>1. ASSUME NEW p \in Query, pc'[p] = "read"
        PROVE  p # r /\ pc[p] = "read" /\ sample'[p] = sample[p]
    BY <1>1, <2>1 DEF CountersInv, CountersTypeOK
  <2>2. /\ pc[q] = "read" /\ sample'[q] = sample[q]
        /\ Now(sample[q], taken[q], counter, total, restarts)
        /\ Pair(base, baseTaken, sample[q], taken[q])
        /\ \A p \in Query : pc[p] = "read" => Pair(sample[p], taken[p], sample[q], taken[q])
    BY <2>1 DEF CountersInv, SamplesOK
  <2>3. Pair(base', baseTaken', sample[q], taken[q])
    <3>1. Pair(cur, stamp, sample[q], taken[q])
      BY <1>1, <2>2 DEF cur, stamp
    <3> QED BY <1>1, <2>2, <3>1
  <2> QED BY <2>1, <2>2, <2>3
<1>19. BaseOK'
  BY <1>1, <1>3 DEF BaseOK
<1>20. CoveredOK'
  BY <1>1, <1>15 DEF CoveredOK
<1> QED BY <1>16, <1>17, <1>18, <1>19, <1>20 DEF CountersInv

\* For any traffic, any number of restarts and any number of concurrent
\* queries, queries return more bytes than were carried only through samples
\* that a later one overtook, and without a restart they are exact but for those
\* (interface_counters.go:25-49).
THEOREM CountersAreExact == Spec => []ResetsAreExact
<1>1. CountersInv /\ [Next]_vars => CountersInv'
  <2> SUFFICES ASSUME CountersInv, [Next]_vars PROVE CountersInv'
    OBVIOUS
  <2>1. CASE UNCHANGED vars
    <3>1. CountersTypeOK' /\ FreshOK'
      BY <2>1 DEF vars, orderVars, CountersInv, CountersTypeOK, FreshOK
    <3>2. SamplesOK' /\ BaseOK' /\ CoveredOK'
      BY <2>1 DEF vars, orderVars, CountersInv, SamplesOK, BaseOK, CoveredOK
    <3> QED BY <3>1, <3>2 DEF CountersInv
  <2> QED BY <2>1, TransferStep, RestartStep, ReadStep, DeltaStep DEF Next
<1>2. CountersInv => ResetsAreExact
  <2> SUFFICES ASSUME CountersInv, NEW d \in Dir
               PROVE  /\ first[d] + reported[d] <= total[d] + slipped[d]
                      /\ restarts = 0 => first[d] + reported[d] = base[d] + slipped[d]
    BY DEF ResetsAreExact
  <2>1. baseTaken.total[d] <= total[d]
    BY DEF CountersInv, BaseOK, Now
  <2>2. /\ first[d] + reported[d] <= baseTaken.total[d] + slipped[d]
        /\ restarts = 0 => first[d] + reported[d] = base[d] + slipped[d]
    BY DEF CountersInv, CoveredOK
  <2>3. /\ first[d] \in Nat /\ reported[d] \in Nat /\ total[d] \in Nat /\ slipped[d] \in Nat
        /\ baseTaken.total[d] \in Nat
    BY DEF CountersInv, CountersTypeOK, Stamp
  <2> QED BY <2>1, <2>2, <2>3
<1> QED BY <1>1, <1>2, CountersInitInv, PTL DEF Spec
=============================================================================
