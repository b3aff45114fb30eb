----------------------------- MODULE XrayProofs -----------------------------
(***************************************************************************)
(* The Xray backend for any users, inbounds, requests, operations and      *)
(* faults: no exit that the node caused is reported, a configuration that  *)
(* was rejected is never served, only the health check lets process and    *)
(* x.config drift apart, and acknowledged accounts are served.             *)
(***************************************************************************)
EXTENDS Xray, Integers, FiniteSetTheorems, WellFoundedInduction, TLAPS

UserRec == [email : Email, inbounds : SUBSET Tag,
            proxies : SUBSET {Protocol[i] : i \in Tag}, cred : Cred]
CallRec == [email : Email, cred : Cred \cup {NoCred}]
Changing == Tag \ Excluded

ApplyPlaces == {"restart", "restarting", "status", "set"}
CallPlaces == {"remove", "memory", "add"}
UserPlaces == CallPlaces \cup {"next"}

\* Operations and their locals.
WorkType == [at : Place, op : {"none", "apply", "sync", "update"}, us : Seq(UserRec),
             obj : Nat, cand : Nat, prev : Nat, err : BOOLEAN, todo : SUBSET Changing,
             tag : Changing \cup {"none"}, calls : Seq(CallRec)]

\* XrayTypeOK with the rest of the operation's locals, and what the places say
\* of them.
WorkOK ==
  /\ w \in WorkType
  /\ w.op = "apply" <=> w.at \in ApplyPlaces
  /\ w.op \in {"sync", "update"} <=> w.at \in UserPlaces
  /\ w.at = "idle" => w = Idle
  /\ w.at = "new" => w = [Idle EXCEPT !.at = "new"]
  /\ w.at \in CallPlaces => w.calls # <<>> /\ w.tag \in Changing /\ w.tag \notin w.todo
  /\ w.at = "memory" => w.op = "sync"
  /\ w.at = "add" => Head(w.calls).cred # NoCred

Shape == XrayTypeOK /\ Len(heap) <= ops + 1 /\ WorkOK

\* Who holds x.mu, with which object.
JobOK ==
  /\ job.by = "nobody" \/ job.at = "free" => job = NoJob
  /\ job.by = "w" <=> w.at = "restarting"
  /\ job.by = "h" <=> h.at = "restarting"
  /\ job.by = "w" => job.obj = w.obj
  /\ job.by = "h" => job.obj = h.obj
  /\ h.at \in {"lock", "restarting"} => h.obj # 0
  /\ w.at = "new" => h.at = "off"
  /\ job.by = "s" => job.at \in {"stop", "reap", "close"}
  /\ job.at = "close" => job.by = "s"

\* A process that runs is the one of c.process, and there is none between
\* Core.Stop and the next start.
CoreOK ==
  /\ proc.alive => process /\ ~proc.reaped
  /\ job.at \in {"bytes", "spawn", "close"} => ~process

\* A process that the node killed is reaped before c.mu is released, and then
\* it is no longer c.process.
AlarmOK ==
  /\ ~alarmed
  /\ proc.killed => job.at = "reap" \/ ~process
  /\ \A g \in watch : g.current /\ g.killed => job.at = "reap" \/ ~process

\* A candidate is an object of its own: no configuration that was ever
\* installed, that the health check holds, or that was rejected.
CandidateOK ==
  /\ config \notin rejected /\ h.obj \notin rejected
  /\ proc.alive => proc.obj \notin rejected
  /\ w.op = "apply" =>
       /\ w.cand \in DOMAIN heap /\ w.cand \notin rejected \cup {config, h.obj}
       /\ w.prev = config /\ w.obj \in {w.cand, w.prev}
       /\ w.err <=> w.obj # w.cand

\* What runs while a candidate is on trial, and after.
TrialOK ==
  proc.alive =>
    /\ proc.by = "h" /\ w.op = "apply" => proc.obj # w.cand
    /\ proc.by = "w" => proc.obj = config \/ (w.op = "apply" /\ proc.obj = w.cand)
    /\ proc.by = "w" /\ w.at \in {"status", "set"} => proc.obj = w.obj

\* The emails of an operation.
EmailsOf(us) == {us[n].email : n \in DOMAIN us}
IsUserOp(v) == v.op \in {"sync", "update"}

\* Clients cl have the account of the map for e at inbound i.
Matches(cl, map, i, e) == map[i][e] # NoCred => cl[i][e] = map[i][e]

\* The inbounds the operation is done with.
Done(v) == Changing \ (v.todo \cup IF v.at = "next" THEN {} ELSE {v.tag})

\* A call that will bring the account of e up to date at the inbound in hand.
InHand(v, e) == \E n \in DOMAIN v.calls :
  v.calls[n].email = e /\ (v.calls[n].cred # NoCred \/ v.op = "sync")

\* Clients cl serve the accounts of a map, but for what the operation v has yet
\* to do or could not do, and for tainted emails.
Serves(cl, map, v, taint) ==
  /\ \A i \in Changing, e \in Email \ taint :
       (IsUserOp(v) /\ e \in EmailsOf(v.us)) \/ Matches(cl, map, i, e)
  /\ IsUserOp(v) /\ ~v.err =>
       /\ \A i \in Done(v), e \in EmailsOf(v.us) : Matches(cl, map, i, e)
       /\ v.at # "next" => \A e \in EmailsOf(v.us) : Matches(cl, map, v.tag, e) \/ InHand(v, e)

\* The calls to come agree with the map: the last account for an email is the
\* one in the map, unless the map has none.
CallsOK(map, v) ==
  v.at \in CallPlaces =>
    /\ \A n \in DOMAIN v.calls : v.calls[n].email \in EmailsOf(v.us)
    /\ v.op = "update" => \A n \in DOMAIN v.calls :
         LET c == v.calls[n]
         IN  /\ c.cred = NoCred => map[v.tag][c.email] = NoCred
             /\ (\A m \in DOMAIN v.calls : m > n => v.calls[m].email # c.email) =>
                  map[v.tag][c.email] \in {NoCred, c.cred}
    /\ v.op = "sync" /\ v.at = "add" => map[v.tag][Head(v.calls).email] = Head(v.calls).cred

\* The process, and the bytes the next one will be started with.
ServedOK ==
  /\ CallsOK(heap[config], w)
  /\ proc.alive /\ proc.obj = config => Serves(proc.clients, heap[config], w, tainted)
  /\ job.at = "spawn" /\ job.obj = config => Serves(job.bytes, heap[config], w, tainted)
  /\ w.op = "apply" /\ proc.alive /\ proc.obj = w.cand =>
       \A i \in Changing : proc.clients[i] = heap[w.cand][i]
  /\ w.op = "apply" /\ job.at = "spawn" /\ job.obj = w.cand =>
       \A i \in Changing : job.bytes[i] = heap[w.cand][i]

XrayInv == Shape /\ JobOK /\ CoreOK /\ AlarmOK /\ CandidateOK /\ TrialOK /\ ServedOK

-----------------------------------------------------------------------------
(* The accounts of an inbound.                                             *)

\* A set of natural numbers with 0 and all successors of its elements.
LEMMA NatInductionBySet ==
  ASSUME NEW S \in SUBSET Nat, 0 \in S, \A n \in S : n + 1 \in S
  PROVE  S = Nat
<1> SUFFICES ASSUME Nat \ S # {} PROVE FALSE
  OBVIOUS
<1>0. (Nat \ S) \subseteq Nat
  OBVIOUS
<1> DEFINE R == OpToRel(<, Nat)
<1>1. IsWellFoundedOn(R, Nat)
  BY NatLessThanWellFounded
<1> HIDE DEF R
<1>2. \E x \in Nat \ S : \A y \in Nat \ S : ~ (<<y, x>> \in R)
  BY <1>0, <1>1, WFMin
<1>3. PICK x \in Nat \ S : \A y \in Nat \ S : ~ (<<y, x>> \in R)
  BY <1>2
<1>4. x # 0 /\ x - 1 \in Nat /\ (x - 1) + 1 = x /\ x - 1 < x
  OBVIOUS
<1>5. <<x - 1, x>> \in R
  BY <1>4 DEF R, OpToRel
<1>6. x - 1 \notin S
  BY <1>4
<1> QED BY <1>3, <1>4, <1>5, <1>6

\* One step of the loop that collects the accounts of an inbound.
Collect(i, us, f, n) ==
  IF n = 0 THEN << >>
  ELSE IF isActiveInbound(i, us[n]) THEN Append(f[n - 1], us[n]) ELSE f[n - 1]

\* The loop has a result for lists of any length.
LEMMA CollectExists ==
  ASSUME NEW i, NEW us \in Seq(UserRec), NEW m \in Nat, m <= Len(us)
  PROVE  \E f \in [0..m -> Seq(UserRec)] : \A n \in 0..m : f[n] = Collect(i, us, f, n)
<1> DEFINE P(k) == k <= Len(us) =>
             \E f \in [0..k -> Seq(UserRec)] : \A n \in 0..k : f[n] = Collect(i, us, f, n)
           S == {k \in Nat : P(k)}
<1>1. P(0)
  <2> DEFINE f == [n \in 0..0 |-> << >>]
  <2>1. f \in [0..0 -> Seq(UserRec)] /\ \A n \in 0..0 : f[n] = Collect(i, us, f, n)
    BY DEF Collect
  <2> QED BY <2>1
<1>2. ASSUME NEW k \in Nat, P(k) PROVE P(k + 1)
  <2> SUFFICES ASSUME k + 1 <= Len(us)
               PROVE  \E f \in [0..(k + 1) -> Seq(UserRec)] :
                        \A n \in 0..(k + 1) : f[n] = Collect(i, us, f, n)
    OBVIOUS
  <2>0. k <= Len(us) /\ us[k + 1] \in UserRec
    OBVIOUS
  <2>1. PICK f \in [0..k -> Seq(UserRec)] : \A n \in 0..k : f[n] = Collect(i, us, f, n)
    BY <1>2, <2>0
  <2> DEFINE last == IF isActiveInbound(i, us[k + 1]) THEN Append(f[k], us[k + 1]) ELSE f[k]
             g == [n \in 0..(k + 1) |-> IF n = k + 1 THEN last ELSE f[n]]
  <2>2. f[k] \in Seq(UserRec)
    BY <2>1
  <2>3. last \in Seq(UserRec)
    BY <2>0, <2>2
  <2> HIDE DEF last
  <2>4. g \in [0..(k + 1) -> Seq(UserRec)]
    BY <2>1, <2>3
  <2>5. \A n \in 0..k : g[n] = f[n]
    OBVIOUS
  <2>6. g[k + 1] = last
    OBVIOUS
  <2> HIDE DEF g
  <2>7. g[k + 1] = Collect(i, us, g, k + 1)
    <3>1. (k + 1) # 0 /\ (k + 1) - 1 = k /\ g[k] = f[k]
      BY <2>5
    <3> QED BY <2>6, <3>1 DEF Collect, last
  <2>8. ASSUME NEW n \in 0..k PROVE g[n] = Collect(i, us, g, n)
    <3>1. g[n] = Collect(i, us, f, n)
      BY <2>1, <2>5
    <3>2. n # 0 => g[n - 1] = f[n - 1]
      BY <2>5
    <3> QED BY <3>1, <3>2 DEF Collect
  <2>9. \A n \in 0..(k + 1) : n = k + 1 \/ n \in 0..k
    OBVIOUS
  <2>10. \A n \in 0..(k + 1) : g[n] = Collect(i, us, g, n)
    BY <2>7, <2>8, <2>9
  <2> QED BY <2>4, <2>10
<1>3. S = Nat
  <2>1. S \in SUBSET Nat
    OBVIOUS
  <2>2. 0 \in S
    BY <1>1
  <2>3. \A k \in S : k + 1 \in S
    <3> HIDE DEF P
    <3> QED BY <1>2
  <2> HIDE DEF S
  <2> QED BY <2>1, <2>2, <2>3, NatInductionBySet
<1> QED BY <1>3

\* s has the active users among the first n of us, and no others.
Collected(i, us, n, s) ==
  /\ \A j \in DOMAIN s : \E k \in 1..n : s[j] = us[k] /\ isActiveInbound(i, us[k])
  /\ \A k \in 1..n : isActiveInbound(i, us[k]) => \E j \in DOMAIN s : s[j] = us[k]

LEMMA CollectStep ==
  ASSUME NEW i, NEW us \in Seq(UserRec), NEW n \in Nat, n + 1 <= Len(us),
         NEW s \in Seq(UserRec), Collected(i, us, n, s),
         NEW t, t = IF isActiveInbound(i, us[n + 1]) THEN Append(s, us[n + 1]) ELSE s
  PROVE  Collected(i, us, n + 1, t)
<1>0. /\ us[n + 1] \in UserRec /\ n + 1 \in 1..(n + 1)
      /\ \A k \in 1..(n + 1) : k = n + 1 \/ k \in 1..n
      /\ \A k \in 1..n : k \in 1..(n + 1)
  OBVIOUS
<1>1. CASE ~isActiveInbound(i, us[n + 1])
  <2>1. t = s
    BY <1>1
  <2> QED BY <1>0, <1>1, <2>1 DEF Collected
<1>2. CASE isActiveInbound(i, us[n + 1])
  <2>1. t = Append(s, us[n + 1])
    BY <1>2
  <2>2. /\ \A j \in DOMAIN t : (j \in DOMAIN s /\ t[j] = s[j]) \/ t[j] = us[n + 1]
        /\ \A j \in DOMAIN s : j \in DOMAIN t /\ t[j] = s[j]
        /\ Len(s) + 1 \in DOMAIN t /\ t[Len(s) + 1] = us[n + 1]
    BY <1>0, <2>1
  <2>3. ASSUME NEW j \in DOMAIN t
        PROVE  \E k \in 1..(n + 1) : t[j] = us[k] /\ isActiveInbound(i, us[k])
    <3>1. CASE t[j] = us[n + 1]
      BY <1>0, <1>2, <3>1
    <3>2. CASE j \in DOMAIN s /\ t[j] = s[j]
      <4>1. PICK k \in 1..n : s[j] = us[k] /\ isActiveInbound(i, us[k])
        BY <3>2 DEF Collected
      <4> QED BY <1>0, <3>2, <4>1
    <3> QED BY <2>2, <3>1, <3>2
  <2>4. ASSUME NEW k \in 1..(n + 1), isActiveInbound(i, us[k])
        PROVE  \E j \in DOMAIN t : t[j] = us[k]
    <3>1. CASE k = n + 1
      BY <2>2, <3>1
    <3>2. CASE k \in 1..n
      <4>1. PICK j \in DOMAIN s : s[j] = us[k]
        BY <2>4, <3>2 DEF Collected
      <4> QED BY <2>2, <4>1
    <3> QED BY <1>0, <3>1, <3>2
  <2> QED BY <2>3, <2>4 DEF Collected
<1> QED BY <1>1, <1>2

\* buildInboundUpdates gives an inbound the active users of the request, and
\* no others.
LEMMA AccountsAreActive ==
  ASSUME NEW i, NEW us \in Seq(UserRec)
  PROVE  Accounts(i, us) \in Seq(UserRec) /\ Collected(i, us, Len(us), Accounts(i, us))
<1> DEFINE m == Len(us)
           F == CHOOSE f : f = [n \in 0..m |-> Collect(i, us, f, n)]
<1>1. m \in Nat /\ m <= Len(us)
  OBVIOUS
<1>2. Accounts(i, us) = F[m]
  BY DEF Accounts, Collect
<1> HIDE DEF m
<1>3. PICK g \in [0..m -> Seq(UserRec)] : \A n \in 0..m : g[n] = Collect(i, us, g, n)
  BY <1>1, CollectExists
<1>4. g = [n \in 0..m |-> Collect(i, us, g, n)]
  BY <1>3
<1>5. F = [n \in 0..m |-> Collect(i, us, F, n)]
  BY <1>4
<1> HIDE DEF F
<1> DEFINE P(n) == n <= m => F[n] \in Seq(UserRec) /\ Collected(i, us, n, F[n])
           S == {n \in Nat : P(n)}
<1>6. P(0)
  <2>1. 0 \in 0..m
    BY <1>1
  <2>2. F[0] = << >>
    BY <1>5, <2>1 DEF Collect
  <2> QED BY <2>2 DEF Collected
<1>7. ASSUME NEW n \in Nat, P(n) PROVE P(n + 1)
  <2> SUFFICES ASSUME n + 1 <= m
               PROVE  F[n + 1] \in Seq(UserRec) /\ Collected(i, us, n + 1, F[n + 1])
    OBVIOUS
  <2>1. n + 1 \in 0..m /\ n \in 0..m /\ (n + 1) - 1 = n /\ n + 1 # 0 /\ n <= m
    BY <1>1
  <2>2. F[n + 1] = Collect(i, us, F, n + 1)
    BY <1>5, <2>1
  <2>3. F[n + 1] = IF isActiveInbound(i, us[n + 1]) THEN Append(F[n], us[n + 1]) ELSE F[n]
    BY <2>1, <2>2 DEF Collect
  <2>4. F[n] \in Seq(UserRec) /\ Collected(i, us, n, F[n])
    BY <1>7, <2>1
  <2>5. us[n + 1] \in UserRec
    BY <1>1, <2>1 DEF m
  <2>6. F[n + 1] \in Seq(UserRec)
    BY <2>3, <2>4, <2>5
  <2>7. Collected(i, us, n + 1, F[n + 1])
    BY <2>3, <2>4, CollectStep DEF m
  <2> QED BY <2>6, <2>7
<1>8. S = Nat
  <2>1. S \in SUBSET Nat
    OBVIOUS
  <2>2. 0 \in S
    BY <1>6
  <2>3. \A n \in S : n + 1 \in S
    <3> HIDE DEF P
    <3> QED BY <1>7
  <2> HIDE DEF S
  <2> QED BY <2>1, <2>2, <2>3, NatInductionBySet
<1>9. P(m)
  BY <1>1, <1>8
<1> QED BY <1>1, <1>2, <1>9 DEF m

\* Entry k is the last one of list s for email e, and its credential is c.
IsLast(s, k, e, c) ==
  s[k].email = e /\ c = s[k].cred /\ \A m \in DOMAIN s : m > k => s[m].email # e

\* A list has a last entry for each email it mentions.
LEMMA LastEntry ==
  ASSUME NEW s \in Seq(UserRec), NEW e, NEW i \in DOMAIN s, s[i].email = e, NEW otherwise
  PROVE  \E k \in DOMAIN s : IsLast(s, k, e, LastCred(s, e, otherwise))
<1> DEFINE n == Len(s)
           I == {j \in DOMAIN s : s[j].email = e}
           D == {d \in Nat : d < n /\ s[n - d].email = e}
<1>1. n \in Nat /\ DOMAIN s = 1..n
  OBVIOUS
<1>2. i \in 1..n /\ s[i].email = e
  BY <1>1
<1>3. \E d \in D : \A c \in D : ~(c < d)
  <2> DEFINE R == OpToRel(<, Nat)
  <2>1. IsWellFoundedOn(R, Nat)
    BY NatLessThanWellFounded
  <2> HIDE DEF R
  <2>2. D \subseteq Nat
    OBVIOUS
  <2>3. D # {}
    <3>1. n - i \in Nat /\ n - i < n /\ n - (n - i) = i
      BY <1>1
    <3>2. s[n - (n - i)].email = e
      BY <1>2, <3>1
    <3> HIDE DEF n
    <3>3. n - i \in D
      BY <3>1, <3>2
    <3> HIDE DEF D
    <3> QED BY <3>3
  <2> HIDE DEF D
  <2>4. \E d \in D : \A c \in D : ~(<<c, d>> \in R)
    BY <2>1, <2>2, <2>3, WFMin
  <2>5. \A c, d \in D : c < d => <<c, d>> \in R
    BY <2>2 DEF R, OpToRel
  <2> QED BY <2>4, <2>5
<1>4. PICK d \in D : \A c \in D : ~(c < d)
  BY <1>3
<1> DEFINE x == n - d
<1>5. x \in 1..n /\ s[x].email = e
  BY <1>1
<1>6. \A j \in I : x >= j
  <2> SUFFICES ASSUME NEW j \in 1..n, s[j].email = e, j > x PROVE FALSE
    BY <1>1
  <2>1. n - j \in Nat /\ n - j < n /\ n - (n - j) = j /\ n - j < d
    BY <1>1
  <2>2. s[n - (n - j)].email = e
    BY <2>1
  <2> HIDE DEF n
  <2>3. n - j \in D
    BY <2>1, <2>2
  <2> HIDE DEF D
  <2> QED BY <1>4, <2>1, <2>3
<1>7. x \in I /\ I \subseteq 1..n /\ x \in Nat
  BY <1>1, <1>5
<1> HIDE DEF x
<1>8. Max(I) = x
  <2> HIDE DEF I, n
  <2>1. \A y \in I : (\A z \in I : y >= z) => y = x
    BY <1>1, <1>6, <1>7
  <2> QED BY <1>6, <1>7, <2>1 DEF Max
<1>9. LastCred(s, e, otherwise) = s[x].cred
  <2>1. LastCred(s, e, otherwise) = IF I = {} THEN otherwise ELSE s[Max(I)].cred
    BY DEF LastCred
  <2> HIDE DEF I
  <2> QED BY <1>7, <1>8, <2>1
<1>10. \A m \in DOMAIN s : m > x => s[m].email # e
  BY <1>1, <1>6, <1>7
<1>11. x \in DOMAIN s
  BY <1>1, <1>5
<1> QED BY <1>5, <1>9, <1>10, <1>11 DEF IsLast

LEMMA NoEntry ==
  ASSUME NEW s, NEW e, \A n \in DOMAIN s : s[n].email # e, NEW otherwise
  PROVE  LastCred(s, e, otherwise) = otherwise
BY DEF LastCred

\* What the map gets is a credential or what it had.
LEMMA LastCredType ==
  ASSUME NEW s \in Seq(UserRec), NEW e, NEW x \in Cred \cup {NoCred}
  PROVE  LastCred(s, e, x) \in Cred \cup {NoCred}
<1>1. \A k \in DOMAIN s : s[k] \in UserRec
  OBVIOUS
<1>2. \A k \in DOMAIN s : s[k].cred \in Cred
  BY <1>1 DEF UserRec
<1>3. CASE \E n \in DOMAIN s : s[n].email = e
  <2>1. PICK n \in DOMAIN s : s[n].email = e
    BY <1>3
  <2>2. PICK k \in DOMAIN s : LastCred(s, e, x) = s[k].cred
    <3>1. PICK k \in DOMAIN s : IsLast(s, k, e, LastCred(s, e, x))
      BY <2>1, LastEntry
    <3> QED BY <3>1 DEF IsLast
  <2> QED BY <1>2, <2>2
<1>4. CASE \A n \in DOMAIN s : s[n].email # e
  BY <1>4, NoEntry
<1> QED BY <1>3, <1>4

\* SetToSeq lists every element of a finite set.
LEMMA SetToSeqLists ==
  ASSUME NEW S, IsFiniteSet(S)
  PROVE  /\ SetToSeq(S) \in Seq(S)
         /\ \A x \in S : \E n \in DOMAIN SetToSeq(S) : SetToSeq(S)[n] = x
<1> DEFINE m == Cardinality(S)
           f == SetToSeq(S)
<1>1. m \in Nat /\ ExistsBijection(1..m, S)
  BY FS_CardinalityType
<1> HIDE DEF m
<1>2. PICK b \in [1..m -> S] : \A a, c \in 1..m : b[a] = b[c] => a = c
  BY <1>1 DEF ExistsBijection, Bijection, Injection, IsInjective
<1>3. f \in [1..m -> S] /\ IsInjective(f)
  <2>1. IsInjective(b)
    BY <1>2 DEF IsInjective
  <2> QED BY <1>2, <2>1 DEF SetToSeq, m
<1> HIDE DEF f
<1>4. f \in Injection(1..m, S)
  BY <1>3 DEF IsInjective, Injection
<1>5. Cardinality(1..m) = m
  BY <1>1, FS_Interval
<1>6. f \in Surjection(1..m, S)
  BY <1>4, <1>5, FS_Injection DEF m
<1>7. \A x \in S : \E n \in 1..m : f[n] = x
  BY <1>6 DEF Surjection
<1>8. f \in Seq(S) /\ DOMAIN f = 1..m
  BY <1>1, <1>3
<1> QED BY <1>7, <1>8 DEF f

\* The emails an inbound loses are emails of the request, finitely many.
LEMMA RemovedAreListed ==
  ASSUME NEW i, NEW us \in Seq(UserRec)
  PROVE  /\ IsFiniteSet(RemoveEmails(i, us)) /\ RemoveEmails(i, us) \subseteq EmailsOf(us)
         /\ EmailsOf(us) \subseteq Email
         /\ \A n \in DOMAIN us : us[n].email \notin RemoveEmails(i, us) => isActiveInbound(i, us[n])
<1> DEFINE m == Len(us)
           f == [n \in 1..m |-> us[n].email]
<1>1. m \in Nat /\ DOMAIN us = 1..m /\ \A n \in DOMAIN us : us[n] \in UserRec
  OBVIOUS
<1>2. f \in Surjection(1..m, EmailsOf(us))
  BY <1>1 DEF Surjection, EmailsOf
<1>3. IsFiniteSet(1..m)
  BY <1>1, FS_Interval
<1> HIDE DEF f, m
<1>4. IsFiniteSet(EmailsOf(us))
  BY <1>2, <1>3, FS_Surjection
<1>5. RemoveEmails(i, us) \subseteq EmailsOf(us)
  BY DEF RemoveEmails, EmailsOf
<1>6. IsFiniteSet(RemoveEmails(i, us))
  BY <1>4, <1>5, FS_Subset
<1>7. EmailsOf(us) \subseteq Email
  BY <1>1 DEF EmailsOf, UserRec
<1>8. \A n \in DOMAIN us : us[n].email \notin RemoveEmails(i, us) => isActiveInbound(i, us[n])
  BY DEF RemoveEmails
<1> QED BY <1>5, <1>6, <1>7, <1>8

\* The calls of an inbound, of the request alone.
CallsOf(i, us) ==
  LET gone == SetToSeq(RemoveEmails(i, us))
      accounts == Accounts(i, us)
  IN  [n \in DOMAIN gone |-> Call(gone[n], NoCred)]
      \o [n \in DOMAIN accounts |-> Call(accounts[n].email, accounts[n].cred)]

\* UpdateUsers and SyncUser call the API for every email of the request; a
\* call without an account is for an email that the inbound loses, an email
\* that it does not lose gets an account, and the last call for an email has
\* the account that the map gets.
LEMMA CallsOfRequest ==
  ASSUME NEW i, NEW us \in Seq(UserRec)
  PROVE  /\ CallsOf(i, us) \in Seq(CallRec)
         /\ \A n \in DOMAIN CallsOf(i, us) :
              /\ CallsOf(i, us)[n].email \in EmailsOf(us)
              /\ CallsOf(i, us)[n].cred = NoCred =>
                   CallsOf(i, us)[n].email \in RemoveEmails(i, us)
         /\ \A e \in EmailsOf(us) : \E n \in DOMAIN CallsOf(i, us) :
              /\ CallsOf(i, us)[n].email = e
              /\ e \in RemoveEmails(i, us) \/ CallsOf(i, us)[n].cred # NoCred
         /\ \A n \in DOMAIN CallsOf(i, us) :
              (\A m \in DOMAIN CallsOf(i, us) :
                 m > n => CallsOf(i, us)[m].email # CallsOf(i, us)[n].email) =>
              \/ CallsOf(i, us)[n].email \in RemoveEmails(i, us)
              \/ \A x : LastCred(Accounts(i, us), CallsOf(i, us)[n].email, x) =
                          CallsOf(i, us)[n].cred
<1> DEFINE gone == SetToSeq(RemoveEmails(i, us))
           accounts == Accounts(i, us)
           a == [n \in DOMAIN gone |-> Call(gone[n], NoCred)]
           b == [n \in DOMAIN accounts |-> Call(accounts[n].email, accounts[n].cred)]
           c == CallsOf(i, us)
<1>1. c = a \o b
  BY DEF CallsOf
<1>2. /\ gone \in Seq(RemoveEmails(i, us))
      /\ \A e \in RemoveEmails(i, us) : \E n \in DOMAIN gone : gone[n] = e
  BY RemovedAreListed, SetToSeqLists
<1>3. /\ accounts \in Seq(UserRec)
      /\ \A j \in DOMAIN accounts : \E k \in DOMAIN us : accounts[j] = us[k]
      /\ \A k \in DOMAIN us : isActiveInbound(i, us[k]) => \E j \in DOMAIN accounts : accounts[j] = us[k]
  <2>1. accounts \in Seq(UserRec) /\ Collected(i, us, Len(us), accounts)
    BY AccountsAreActive
  <2>2. DOMAIN us = 1..Len(us)
    OBVIOUS
  <2> HIDE DEF accounts
  <2> QED BY <2>1, <2>2 DEF Collected
<1> HIDE DEF c, gone, accounts
<1>4. RemoveEmails(i, us) \subseteq EmailsOf(us) /\ EmailsOf(us) \subseteq Email
  BY RemovedAreListed
<1>5. /\ \A n \in DOMAIN gone : gone[n] \in RemoveEmails(i, us)
      /\ \A n \in DOMAIN accounts : accounts[n] \in UserRec
  BY <1>2, <1>3
<1>6. \A n \in DOMAIN accounts :
        /\ accounts[n].email \in EmailsOf(us)
        /\ accounts[n].cred \in Cred /\ accounts[n].cred # NoCred
  <2>1. \A n \in DOMAIN accounts : accounts[n].cred \in Cred
    BY <1>5 DEF UserRec
  <2>2. \A n \in DOMAIN accounts : accounts[n].email \in EmailsOf(us)
    BY <1>3 DEF EmailsOf
  <2> QED BY <2>1, <2>2, XrayConfigAssumption
<1>7. a \in Seq(CallRec) /\ DOMAIN a = DOMAIN gone /\ Len(a) = Len(gone)
  <2>1. \A n \in DOMAIN gone : Call(gone[n], NoCred) \in CallRec
    BY <1>4, <1>5 DEF Call, CallRec
  <2>2. DOMAIN gone = 1..Len(gone) /\ Len(gone) \in Nat
    BY <1>2
  <2> QED BY <2>1, <2>2
<1>8. b \in Seq(CallRec) /\ DOMAIN b = DOMAIN accounts /\ Len(b) = Len(accounts)
  <2>1. \A n \in DOMAIN accounts : Call(accounts[n].email, accounts[n].cred) \in CallRec
    BY <1>4, <1>6 DEF Call, CallRec
  <2>2. DOMAIN accounts = 1..Len(accounts) /\ Len(accounts) \in Nat
    BY <1>3
  <2> QED BY <2>1, <2>2
<1>9. \A n \in DOMAIN a : a[n].email = gone[n] /\ a[n].cred = NoCred
  BY <1>7 DEF Call
<1>10. \A n \in DOMAIN b : b[n].email = accounts[n].email /\ b[n].cred = accounts[n].cred
  BY <1>8 DEF Call
<1> HIDE DEF a, b
<1> DEFINE l == Len(a)
<1>11. /\ c \in Seq(CallRec) /\ l \in Nat
       /\ \A n \in DOMAIN a : n \in DOMAIN c /\ c[n] = a[n]
       /\ \A n \in DOMAIN b : n \in Nat /\ l + n \in DOMAIN c /\ c[l + n] = b[n]
       /\ \A n \in DOMAIN c : n \in DOMAIN a \/ (n - l \in DOMAIN b /\ l + (n - l) = n)
  BY <1>1, <1>7, <1>8
<1> HIDE DEF l
<1>12. ASSUME NEW n \in DOMAIN c
       PROVE  /\ c[n].email \in EmailsOf(us)
              /\ c[n].cred = NoCred => c[n].email \in RemoveEmails(i, us)
  <2>1. CASE n \in DOMAIN a
    BY <1>4, <1>5, <1>7, <1>9, <1>11, <2>1
  <2>2. CASE n - l \in DOMAIN b /\ l + (n - l) = n
    <3>1. c[n] = b[n - l]
      BY <1>11, <2>2
    <3> QED BY <1>6, <1>8, <1>10, <2>2, <3>1
  <2> QED BY <1>11, <2>1, <2>2
<1>13. ASSUME NEW e \in EmailsOf(us)
       PROVE  \E n \in DOMAIN c :
                c[n].email = e /\ (e \in RemoveEmails(i, us) \/ c[n].cred # NoCred)
  <2>1. CASE e \in RemoveEmails(i, us)
    <3>1. PICK n \in DOMAIN gone : gone[n] = e
      BY <1>2, <2>1
    <3> QED BY <1>7, <1>9, <1>11, <2>1, <3>1
  <2>2. CASE e \notin RemoveEmails(i, us)
    <3>1. PICK k \in DOMAIN us : us[k].email = e
      BY DEF EmailsOf
    <3>2. isActiveInbound(i, us[k])
      BY <2>2, <3>1, RemovedAreListed
    <3>3. PICK j \in DOMAIN accounts : accounts[j] = us[k]
      BY <1>3, <3>2
    <3>4. b[j].email = e /\ b[j].cred # NoCred /\ l + j \in DOMAIN c /\ c[l + j] = b[j]
      BY <1>6, <1>8, <1>10, <1>11, <3>1, <3>3
    <3> QED BY <3>4
  <2> QED BY <2>1, <2>2
<1>14. ASSUME NEW n \in DOMAIN c, \A m \in DOMAIN c : m > n => c[m].email # c[n].email, NEW x
       PROVE  \/ c[n].email \in RemoveEmails(i, us)
              \/ LastCred(accounts, c[n].email, x) = c[n].cred
  <2>1. CASE n \in DOMAIN a
    BY <1>5, <1>7, <1>9, <1>11, <2>1
  <2>2. CASE n - l \in DOMAIN b /\ l + (n - l) = n
    <3> DEFINE j == n - l
    <3>1. j \in DOMAIN accounts /\ j \in Nat /\ l + j = n /\ c[n] = b[j]
      BY <1>8, <1>11, <2>2
    <3> HIDE DEF j
    <3>2. c[n].email = accounts[j].email /\ c[n].cred = accounts[j].cred
      BY <1>8, <1>10, <3>1
    <3>3. PICK k \in DOMAIN accounts :
            /\ accounts[k].email = c[n].email
            /\ LastCred(accounts, c[n].email, x) = accounts[k].cred
            /\ \A m \in DOMAIN accounts : m > k => accounts[m].email # c[n].email
      <4>1. accounts[j].email = c[n].email
        BY <3>2
      <4>2. PICK k \in DOMAIN accounts :
              IsLast(accounts, k, c[n].email, LastCred(accounts, c[n].email, x))
        BY <1>3, <3>1, <4>1, LastEntry
      <4> QED BY <4>2 DEF IsLast
    <3>4. k \in Nat /\ l + k \in DOMAIN c /\ c[l + k].email = c[n].email
      BY <1>8, <1>10, <1>11, <3>3
    <3>5. ~(l + k > n)
      BY <1>14, <3>4
    <3>6. ~(j > k)
      BY <3>1, <3>2, <3>3
    <3>7. j = k
      BY <1>11, <3>1, <3>4, <3>5, <3>6
    <3> QED BY <3>2, <3>3, <3>7
  <2> QED BY <1>11, <2>1, <2>2
<1> QED BY <1>11, <1>12, <1>13, <1>14 DEF c, accounts

-----------------------------------------------------------------------------
(* The maps.                                                               *)

\* The map of an inbound.
Map == [Email -> Cred \cup {NoCred}]

\* Inbound.updateUsers leaves other emails alone, drops the removed ones and
\* keeps the last account of the rest.
LEMMA InboundAfterUpdate ==
  ASSUME NEW i, NEW us \in Seq(UserRec), NEW clients \in Map
  PROVE  LET new == InboundUpdateUsers(clients, Accounts(i, us), RemoveEmails(i, us))
         IN  /\ new \in Map
             /\ \A e \in Email \ EmailsOf(us) : new[e] = clients[e]
             /\ \A e \in Email : e \in RemoveEmails(i, us) => new[e] = NoCred
             /\ \A e \in Email : e \notin RemoveEmails(i, us) =>
                  new[e] = LastCred(Accounts(i, us), e, clients[e])
<1> DEFINE new == InboundUpdateUsers(clients, Accounts(i, us), RemoveEmails(i, us))
           acc == Accounts(i, us)
<1>1. acc \in Seq(UserRec)
  BY AccountsAreActive
<1>2. \A e \in Email : clients[e] \in Cred \cup {NoCred}
  BY DEF Map
<1>3. \A e \in Email : LastCred(acc, e, clients[e]) \in Cred \cup {NoCred}
  BY <1>1, <1>2, LastCredType
<1>4. new = [e \in Email |-> IF e \in RemoveEmails(i, us) THEN NoCred
                             ELSE LastCred(acc, e, clients[e])]
  BY DEF InboundUpdateUsers
<1>5. ASSUME NEW e \in Email, e \notin EmailsOf(us)
      PROVE  new[e] = clients[e]
  <2>1. e \notin RemoveEmails(i, us)
    BY <1>5, RemovedAreListed
  <2>2. \A n \in DOMAIN acc : acc[n].email # e
    <3>1. \A j \in DOMAIN acc : \E k \in 1..Len(us) : acc[j] = us[k]
      BY AccountsAreActive DEF Collected
    <3>2. \A k \in 1..Len(us) : us[k].email \in EmailsOf(us)
      BY DEF EmailsOf
    <3> HIDE DEF acc
    <3> QED BY <1>5, <3>1, <3>2
  <2>3. LastCred(acc, e, clients[e]) = clients[e]
    BY <2>2, NoEntry
  <2> HIDE DEF acc, new
  <2> QED BY <1>4, <2>1, <2>3
<1> HIDE DEF acc, new
<1>6. new \in Map
  BY <1>3, <1>4 DEF Map
<1> QED BY <1>4, <1>5, <1>6 DEF new, acc

\* Configurations have a map for every inbound, and only those of the
\* inbounds that are not excluded are written.
LEMMA MapsOfConfig ==
  ASSUME NEW c \in Clients, NEW us \in Seq(UserRec)
  PROVE  /\ NoClients \in Clients /\ ToBytes(c) \in Clients
         /\ syncUsers(c, us) \in Clients /\ updateUsers(c, us) \in Clients
         /\ \A i \in Changing : ToBytes(c)[i] = c[i]
<1>1. c \in [Tag -> Map] /\ Clients = [Tag -> Map]
  BY DEF Clients, Map
<1>2. NoClients \in [Tag -> Map]
  BY DEF NoClients, Map
<1>3. ToBytes(c) \in [Tag -> Map] /\ \A i \in Changing : ToBytes(c)[i] = c[i]
  BY <1>1, <1>2 DEF ToBytes, Changing
<1>4. syncUsers(c, us) \in [Tag -> Map]
  <2>1. ASSUME NEW i \in Tag PROVE InboundSyncUsers(i, us) \in Map
    <3>1. Accounts(i, us) \in Seq(UserRec)
      BY AccountsAreActive
    <3>2. \A e \in Email : LastCred(Accounts(i, us), e, NoCred) \in Cred \cup {NoCred}
      BY <3>1, LastCredType
    <3> QED BY <3>2 DEF InboundSyncUsers, Map
  <2> QED BY <1>1, <2>1 DEF syncUsers
<1>5. updateUsers(c, us) \in [Tag -> Map]
  <2>1. ASSUME NEW i \in Tag
        PROVE  InboundUpdateUsers(c[i], Accounts(i, us), RemoveEmails(i, us)) \in Map
    BY <1>1, InboundAfterUpdate
  <2> QED BY <1>1, <2>1 DEF updateUsers
<1> QED BY <1>1, <1>2, <1>3, <1>4, <1>5

-----------------------------------------------------------------------------
(* The calls of a user operation.                                          *)

\* w after a call, of the operation alone.
Called(v, err) ==
  [v EXCEPT !.calls = Tail(@), !.err = @ \/ err,
            !.at = IF Len(v.calls) = 1 THEN "next" ELSE "remove"]

\* An operation between two calls.
Calling(v) ==
  /\ v \in WorkType /\ IsUserOp(v) /\ v.at \in CallPlaces
  /\ v.calls # <<>> /\ v.tag \in Changing /\ v.tag \notin v.todo

LEMMA HeadIsFirst ==
  ASSUME NEW v, Calling(v)
  PROVE  /\ v.calls \in Seq(CallRec) /\ 1 \in DOMAIN v.calls
         /\ Head(v.calls) = v.calls[1] /\ v.calls[1] \in CallRec
         /\ v.calls[1].email \in Email /\ v.calls[1].cred \in Cred \cup {NoCred}
<1>1. v.calls \in Seq(CallRec) /\ v.calls # <<>>
  BY DEF Calling, WorkType
<1>2. 1 \in DOMAIN v.calls /\ Head(v.calls) = v.calls[1] /\ v.calls[1] \in CallRec
  BY <1>1
<1> QED BY <1>1, <1>2 DEF CallRec

LEMMA TailEntries ==
  ASSUME NEW T, NEW s \in Seq(T), s # <<>>
  PROVE  /\ \A n \in DOMAIN Tail(s) : n \in Nat /\ n + 1 \in DOMAIN s /\ Tail(s)[n] = s[n + 1]
         /\ \A n \in DOMAIN s :
              n = 1 \/ (n \in Nat /\ n - 1 \in DOMAIN Tail(s) /\ Tail(s)[n - 1] = s[n])
         /\ Tail(s) \in Seq(T) /\ (Len(s) = 1 <=> Tail(s) = <<>>)
<1>1. /\ Len(s) \in Nat /\ Len(s) > 0 /\ DOMAIN s = 1..Len(s)
      /\ Tail(s) \in Seq(T) /\ Len(Tail(s)) = Len(s) - 1
  OBVIOUS
<1>2. DOMAIN Tail(s) = 1..(Len(s) - 1)
  BY <1>1
<1>3. \A n \in DOMAIN Tail(s) : n \in Nat /\ n + 1 \in DOMAIN s /\ Tail(s)[n] = s[n + 1]
  BY <1>1, <1>2
<1>4. ASSUME NEW n \in DOMAIN s, n # 1
      PROVE  n \in Nat /\ n - 1 \in DOMAIN Tail(s) /\ Tail(s)[n - 1] = s[n]
  <2>1. n \in Nat /\ n - 1 \in DOMAIN Tail(s) /\ (n - 1) + 1 = n
    BY <1>1, <1>2, <1>4
  <2>2. Tail(s)[n - 1] = s[(n - 1) + 1]
    BY <1>3, <2>1
  <2> QED BY <2>1, <2>2
<1>5. Len(s) = 1 <=> Tail(s) = <<>>
  BY <1>1
<1> QED BY <1>1, <1>3, <1>4, <1>5

\* The fields of w after a call, and the calls that are left.
LEMMA CalledFields ==
  ASSUME NEW v, Calling(v), NEW err \in BOOLEAN
  PROVE  /\ Called(v, err) \in WorkType
         /\ Called(v, err).op = v.op /\ Called(v, err).us = v.us
         /\ Called(v, err).todo = v.todo /\ Called(v, err).tag = v.tag
         /\ Called(v, err).err = (v.err \/ err)
         /\ Called(v, err).obj = v.obj /\ Called(v, err).cand = v.cand
         /\ Called(v, err).prev = v.prev
         /\ Called(v, err).at = IF Called(v, err).calls = <<>> THEN "next" ELSE "remove"
         /\ \A n \in DOMAIN Called(v, err).calls :
              /\ n \in Nat /\ n + 1 \in DOMAIN v.calls
              /\ Called(v, err).calls[n] = v.calls[n + 1]
         /\ \A n \in DOMAIN v.calls :
              \/ n = 1
              \/ /\ n \in Nat /\ n - 1 \in DOMAIN Called(v, err).calls
                 /\ Called(v, err).calls[n - 1] = v.calls[n]
<1>1. v.calls \in Seq(CallRec) /\ v.calls # <<>> /\ v \in WorkType
  BY DEF Calling, WorkType
<1>2. /\ \A n \in DOMAIN Tail(v.calls) :
           n \in Nat /\ n + 1 \in DOMAIN v.calls /\ Tail(v.calls)[n] = v.calls[n + 1]
      /\ \A n \in DOMAIN v.calls :
           n = 1 \/ (n \in Nat /\ n - 1 \in DOMAIN Tail(v.calls)
                     /\ Tail(v.calls)[n - 1] = v.calls[n])
      /\ Tail(v.calls) \in Seq(CallRec)
      /\ Len(v.calls) = 1 <=> Tail(v.calls) = <<>>
  BY <1>1, TailEntries
<1>3. {"next", "remove"} \subseteq Place
  BY DEF Place
<1>4. Called(v, err) \in WorkType
  BY <1>1, <1>2, <1>3 DEF Called, WorkType
<1>5. /\ Called(v, err).op = v.op /\ Called(v, err).us = v.us
      /\ Called(v, err).todo = v.todo /\ Called(v, err).tag = v.tag
      /\ Called(v, err).obj = v.obj /\ Called(v, err).cand = v.cand
      /\ Called(v, err).prev = v.prev
      /\ Called(v, err).err = (v.err \/ err)
      /\ Called(v, err).calls = Tail(v.calls)
      /\ Called(v, err).at = IF Len(v.calls) = 1 THEN "next" ELSE "remove"
  BY <1>1 DEF Called, WorkType
<1> QED BY <1>2, <1>4, <1>5

\* A step that changes only what the first call is about, and leaves that
\* account right or still in hand.
LEMMA ServesCall ==
  ASSUME NEW v, Calling(v), NEW cl, NEW map, NEW cl2, NEW map2, NEW taint,
         Serves(cl, map, v, taint), CallsOK(map, v),
         \A i \in Changing, e \in Email : i # v.tag \/ e # v.calls[1].email =>
           cl2[i][e] = cl[i][e] /\ map2[i][e] = map[i][e],
         Matches(cl2, map2, v.tag, v.calls[1].email) \/ InHand(v, v.calls[1].email)
  PROVE  Serves(cl2, map2, v, taint)
<1> DEFINE hd == v.calls[1].email
           E == EmailsOf(v.us)
<1>1. hd \in E /\ v.tag \in Changing /\ v.at # "next"
  BY HeadIsFirst DEF CallsOK, Calling, CallPlaces
<1>2. E \subseteq Email
  BY RemovedAreListed DEF Calling, WorkType
<1> HIDE DEF hd, E
<1>3. \A i \in Changing, e \in Email :
        i # v.tag \/ e # hd => (Matches(cl2, map2, i, e) <=> Matches(cl, map, i, e))
  BY DEF Matches, hd
<1>4. ASSUME NEW i \in Changing, NEW e \in Email \ taint, e \notin E
      PROVE  Matches(cl2, map2, i, e)
  BY <1>1, <1>3, <1>4 DEF Serves, E
<1>5. ASSUME ~v.err, NEW i \in Done(v), NEW e \in E
      PROVE  Matches(cl2, map2, i, e)
  <2>1. i \in Changing /\ i # v.tag
    BY <1>1 DEF Done
  <2>2. Matches(cl, map, i, e)
    BY <1>5 DEF Serves, Calling, E
  <2> QED BY <1>2, <1>3, <2>1, <2>2
<1>6. ASSUME ~v.err, NEW e \in E
      PROVE  Matches(cl2, map2, v.tag, e) \/ InHand(v, e)
  <2>1. Matches(cl, map, v.tag, e) \/ InHand(v, e)
    BY <1>1, <1>6 DEF Serves, Calling, E
  <2> QED BY <1>1, <1>2, <1>3, <2>1 DEF hd
<1> QED BY <1>4, <1>5, <1>6 DEF Serves, E, Calling

\* Moving on to the next place of the same call.
LEMMA ServesMove ==
  ASSUME NEW v, Calling(v), NEW place \in CallPlaces, NEW cl, NEW map, NEW taint,
         Serves(cl, map, v, taint)
  PROVE  Serves(cl, map, [v EXCEPT !.at = place], taint)
<1> DEFINE u == [v EXCEPT !.at = place]
<1>1. /\ u.op = v.op /\ u.us = v.us /\ u.err = v.err /\ u.todo = v.todo /\ u.tag = v.tag
      /\ u.calls = v.calls /\ u.at = place
  BY DEF Calling, WorkType
<1>2. u.at # "next" /\ v.at # "next"
  BY <1>1 DEF Calling, CallPlaces
<1> HIDE DEF u
<1>3. Done(u) = Done(v) /\ (IsUserOp(u) <=> IsUserOp(v)) /\ \A e : InHand(u, e) <=> InHand(v, e)
  BY <1>1, <1>2 DEF Done, IsUserOp, InHand
<1>4. Serves(cl, map, u, taint)
  BY <1>1, <1>2, <1>3 DEF Serves
<1> QED BY <1>4 DEF u

\* The first call is done: its account is right, still in hand, or the
\* operation will return an error.
LEMMA ServesDone ==
  ASSUME NEW v, Calling(v), NEW err \in BOOLEAN, NEW cl, NEW map, NEW taint,
         Serves(cl, map, v, taint),
         \/ err
         \/ Matches(cl, map, v.tag, v.calls[1].email)
         \/ InHand(Called(v, err), v.calls[1].email)
  PROVE  Serves(cl, map, Called(v, err), taint)
<1> DEFINE u == Called(v, err)
           hd == v.calls[1].email
           E == EmailsOf(v.us)
<1>1. /\ u.op = v.op /\ u.us = v.us /\ u.todo = v.todo /\ u.tag = v.tag
      /\ u.err = (v.err \/ err) /\ u.at = IF u.calls = <<>> THEN "next" ELSE "remove"
      /\ \A n \in DOMAIN v.calls : n = 1 \/ (n - 1 \in DOMAIN u.calls /\ u.calls[n - 1] = v.calls[n])
  BY CalledFields
<1> HIDE DEF u, hd, E
<1>2. \A i \in Changing, e \in Email \ taint : e \in E \/ Matches(cl, map, i, e)
  BY DEF Serves, E
<1>3. ASSUME ~v.err, ~err, NEW e \in E
      PROVE  Matches(cl, map, v.tag, e) \/ InHand(u, e)
  <2>1. Matches(cl, map, v.tag, e) \/ InHand(v, e)
    BY <1>3 DEF Serves, E, Calling, CallPlaces
  <2>2. CASE e = hd
    BY <1>3, <2>2 DEF u, hd
  <2>3. CASE e # hd /\ InHand(v, e)
    <3>1. PICK n \in DOMAIN v.calls :
            v.calls[n].email = e /\ (v.calls[n].cred # NoCred \/ v.op = "sync")
      BY <2>3 DEF InHand
    <3>2. n - 1 \in DOMAIN u.calls /\ u.calls[n - 1] = v.calls[n]
      BY <1>1, <2>3, <3>1 DEF hd
    <3> QED BY <1>1, <3>1, <3>2 DEF InHand
  <2> QED BY <2>1, <2>2, <2>3
<1>4. ASSUME ~v.err, ~err, NEW i \in Done(v), NEW e \in E
      PROVE  Matches(cl, map, i, e)
  BY <1>4 DEF Serves, E, Calling
<1>5. \A i \in Done(u) : i \in Done(v) \/ (u.at = "next" /\ i = v.tag)
  BY <1>1 DEF Done, Calling, CallPlaces
<1>6. u.at = "next" => \A e : ~InHand(u, e)
  BY <1>1 DEF InHand
<1>7. IsUserOp(v) /\ IsUserOp(u)
  BY <1>1 DEF Calling, IsUserOp
<1>8. Serves(cl, map, u, taint)
  <2>1. \A i \in Changing, e \in Email \ taint :
          (IsUserOp(u) /\ e \in EmailsOf(u.us)) \/ Matches(cl, map, i, e)
    BY <1>1, <1>2, <1>7 DEF E
  <2>2. ASSUME ~u.err PROVE \A i \in Done(u), e \in EmailsOf(u.us) : Matches(cl, map, i, e)
    BY <1>1, <1>3, <1>4, <1>5, <1>6, <2>2 DEF E
  <2>3. ASSUME ~u.err
        PROVE  \A e \in EmailsOf(u.us) : Matches(cl, map, u.tag, e) \/ InHand(u, e)
    BY <1>1, <1>3, <2>3 DEF E
  <2> QED BY <2>1, <2>2, <2>3 DEF Serves
<1> QED BY <1>8 DEF u

\* The calls that are left agree with the map when all did.
LEMMA CallsDone ==
  ASSUME NEW v, Calling(v), NEW err \in BOOLEAN, NEW map, CallsOK(map, v)
  PROVE  CallsOK(map, Called(v, err))
<1> DEFINE u == Called(v, err)
<1>1. /\ u.op = v.op /\ u.us = v.us /\ u.tag = v.tag
      /\ u.at \in {"next", "remove"}
      /\ \A n \in DOMAIN u.calls : n \in Nat /\ n + 1 \in DOMAIN v.calls /\ u.calls[n] = v.calls[n + 1]
      /\ \A n \in DOMAIN v.calls : n = 1 \/ (n \in Nat /\ n - 1 \in DOMAIN u.calls
                                             /\ u.calls[n - 1] = v.calls[n])
  BY CalledFields
<1> HIDE DEF u
<1>2. \A n \in DOMAIN v.calls : v.calls[n].email \in EmailsOf(v.us)
  BY DEF CallsOK, Calling
<1>3. \A n \in DOMAIN u.calls : u.calls[n].email \in EmailsOf(u.us)
  BY <1>1, <1>2
<1>4. ASSUME v.op = "update", NEW n \in DOMAIN u.calls
      PROVE  /\ u.calls[n].cred = NoCred => map[u.tag][u.calls[n].email] = NoCred
             /\ (\A m \in DOMAIN u.calls : m > n => u.calls[m].email # u.calls[n].email) =>
                  map[u.tag][u.calls[n].email] \in {NoCred, u.calls[n].cred}
  <2>1. n \in Nat /\ n + 1 \in DOMAIN v.calls /\ u.calls[n] = v.calls[n + 1]
    BY <1>1
  <2>2. /\ v.calls[n + 1].cred = NoCred => map[v.tag][v.calls[n + 1].email] = NoCred
        /\ (\A m \in DOMAIN v.calls : m > n + 1 => v.calls[m].email # v.calls[n + 1].email) =>
             map[v.tag][v.calls[n + 1].email] \in {NoCred, v.calls[n + 1].cred}
    BY <1>4, <2>1 DEF CallsOK, Calling
  <2>3. ASSUME \A m \in DOMAIN u.calls : m > n => u.calls[m].email # u.calls[n].email
        PROVE  \A m \in DOMAIN v.calls : m > n + 1 => v.calls[m].email # v.calls[n + 1].email
    <3> SUFFICES ASSUME NEW m \in DOMAIN v.calls, m > n + 1
                 PROVE  v.calls[m].email # v.calls[n + 1].email
      OBVIOUS
    <3>1. m # 1
      BY <2>1
    <3>2. m \in Nat /\ m - 1 \in DOMAIN u.calls /\ u.calls[m - 1] = v.calls[m]
      BY <1>1, <3>1
    <3>3. m - 1 > n
      BY <2>1, <3>2
    <3> QED BY <2>1, <2>3, <3>2, <3>3
  <2> QED BY <1>1, <2>1, <2>2, <2>3
<1>5. CallsOK(map, u)
  BY <1>1, <1>3, <1>4 DEF CallsOK
<1> QED BY <1>5 DEF u

\* UpdateUsers has added an account: it is the one of the map, unless a later
\* call has another.
LEMMA AccountAdded ==
  ASSUME NEW v, Calling(v), v.op = "update", NEW err \in BOOLEAN, NEW map, CallsOK(map, v),
         NEW cl, cl[v.tag][v.calls[1].email] = v.calls[1].cred
  PROVE  \/ Matches(cl, map, v.tag, v.calls[1].email)
         \/ InHand(Called(v, err), v.calls[1].email)
<1> DEFINE u == Called(v, err)
           hd == v.calls[1].email
<1>1. \A n \in DOMAIN v.calls : n = 1 \/ (n - 1 \in DOMAIN u.calls /\ u.calls[n - 1] = v.calls[n])
  BY CalledFields
<1>2. 1 \in DOMAIN v.calls
  BY HeadIsFirst
<1> HIDE DEF u
<1>3. \A n \in DOMAIN v.calls :
        /\ v.calls[n].cred = NoCred => map[v.tag][v.calls[n].email] = NoCred
        /\ (\A m \in DOMAIN v.calls : m > n => v.calls[m].email # v.calls[n].email) =>
             map[v.tag][v.calls[n].email] \in {NoCred, v.calls[n].cred}
  BY DEF CallsOK, Calling
<1>4. CASE \E m \in DOMAIN v.calls : m > 1 /\ v.calls[m].email = hd
  <2>1. PICK m \in DOMAIN v.calls : m > 1 /\ v.calls[m].email = hd
    BY <1>4
  <2>2. m # 1
    BY <2>1
  <2>3. m - 1 \in DOMAIN u.calls /\ u.calls[m - 1] = v.calls[m]
    BY <1>1, <2>1, <2>2
  <2>4. CASE v.calls[m].cred = NoCred
    BY <1>3, <2>1, <2>4 DEF Matches
  <2>5. CASE v.calls[m].cred # NoCred
    <3>1. InHand(u, hd)
      BY <2>1, <2>3, <2>5 DEF InHand
    <3> QED BY <3>1 DEF u
  <2> QED BY <2>4, <2>5
<1>5. CASE \A m \in DOMAIN v.calls : m > 1 => v.calls[m].email # hd
  BY <1>2, <1>3, <1>5 DEF Matches
<1> QED BY <1>4, <1>5

\* NextInbound, of the operation alone.
Entered(v, i) ==
  [v EXCEPT !.at = IF CallsOf(i, v.us) = <<>> THEN "next" ELSE "remove",
            !.tag = i, !.todo = @ \ {i}, !.calls = CallsOf(i, v.us)]

\* The maps after it: UpdateUsers changes the one of the inbound.
EnteredMap(map, v, i) ==
  IF v.op = "update"
  THEN [map EXCEPT ![i] = InboundUpdateUsers(@, Accounts(i, v.us), RemoveEmails(i, v.us))]
  ELSE map

\* An operation between two inbounds.
Choosing(v, i) ==
  v \in WorkType /\ IsUserOp(v) /\ v.at = "next" /\ i \in v.todo

LEMMA EnteredFields ==
  ASSUME NEW v, NEW i, Choosing(v, i)
  PROVE  /\ Entered(v, i) \in WorkType /\ i \in Changing
         /\ Entered(v, i).op = v.op /\ Entered(v, i).us = v.us /\ Entered(v, i).err = v.err
         /\ Entered(v, i).tag = i /\ Entered(v, i).todo = v.todo \ {i}
         /\ Entered(v, i).calls = CallsOf(i, v.us)
         /\ Entered(v, i).obj = v.obj /\ Entered(v, i).cand = v.cand
         /\ Entered(v, i).prev = v.prev
         /\ Entered(v, i).at = IF CallsOf(i, v.us) = <<>> THEN "next" ELSE "remove"
<1>1. v \in WorkType /\ v.us \in Seq(UserRec) /\ i \in Changing
  BY DEF Choosing, WorkType
<1>2. CallsOf(i, v.us) \in Seq(CallRec)
  BY <1>1, CallsOfRequest
<1>3. {"next", "remove"} \subseteq Place
  BY DEF Place
<1> QED BY <1>1, <1>2, <1>3 DEF Entered, WorkType

\* The maps that NextInbound changes, and those it leaves.
LEMMA EnteredMaps ==
  ASSUME NEW v, NEW i, Choosing(v, i), NEW map \in Clients
  PROVE  /\ EnteredMap(map, v, i) \in Clients
         /\ \A j \in Tag : j # i => EnteredMap(map, v, i)[j] = map[j]
         /\ \A e \in Email \ EmailsOf(v.us) : EnteredMap(map, v, i)[i][e] = map[i][e]
         /\ v.op # "update" => EnteredMap(map, v, i) = map
         /\ v.op = "update" => \A e \in Email :
              /\ e \in RemoveEmails(i, v.us) => EnteredMap(map, v, i)[i][e] = NoCred
              /\ e \notin RemoveEmails(i, v.us) =>
                   EnteredMap(map, v, i)[i][e] = LastCred(Accounts(i, v.us), e, map[i][e])
<1> DEFINE new == InboundUpdateUsers(map[i], Accounts(i, v.us), RemoveEmails(i, v.us))
           map2 == EnteredMap(map, v, i)
<1>1. /\ v.us \in Seq(UserRec) /\ i \in Tag /\ map[i] \in Map /\ map \in [Tag -> Map]
      /\ Clients = [Tag -> Map]
  BY DEF Choosing, WorkType, Changing, Clients, Map
<1>2. /\ new \in Map
      /\ \A e \in Email \ EmailsOf(v.us) : new[e] = map[i][e]
      /\ \A e \in Email : e \in RemoveEmails(i, v.us) => new[e] = NoCred
      /\ \A e \in Email : e \notin RemoveEmails(i, v.us) =>
           new[e] = LastCred(Accounts(i, v.us), e, map[i][e])
  BY <1>1, InboundAfterUpdate
<1>3. map2 = IF v.op = "update" THEN [map EXCEPT ![i] = new] ELSE map
  BY DEF EnteredMap
<1> HIDE DEF new, map2
<1>4. CASE v.op = "update"
  <2>1. map2 \in Clients /\ map2[i] = new /\ \A j \in Tag : j # i => map2[j] = map[j]
    BY <1>1, <1>2, <1>3, <1>4
  <2> QED BY <1>2, <1>4, <2>1 DEF map2
<1>5. CASE v.op # "update"
  BY <1>3, <1>5 DEF map2
<1> QED BY <1>4, <1>5

LEMMA CallsEntered ==
  ASSUME NEW v, NEW i, Choosing(v, i), NEW map \in Clients
  PROVE  CallsOK(EnteredMap(map, v, i), Entered(v, i))
<1> DEFINE u == Entered(v, i)
           map2 == EnteredMap(map, v, i)
           c == CallsOf(i, v.us)
<1>1. u.op = v.op /\ u.us = v.us /\ u.tag = i /\ u.calls = c /\ u.at \in {"next", "remove"}
  BY EnteredFields
<1>2. v.us \in Seq(UserRec)
  BY DEF Choosing, WorkType
<1>3. /\ \A n \in DOMAIN c : /\ c[n].email \in EmailsOf(v.us)
                             /\ c[n].cred = NoCred => c[n].email \in RemoveEmails(i, v.us)
      /\ \A n \in DOMAIN c : (\A m \in DOMAIN c : m > n => c[m].email # c[n].email) =>
           \/ c[n].email \in RemoveEmails(i, v.us)
           \/ \A x : LastCred(Accounts(i, v.us), c[n].email, x) = c[n].cred
  BY <1>2, CallsOfRequest
<1>4. EmailsOf(v.us) \subseteq Email
  BY <1>2, RemovedAreListed
<1>5. v.op = "update" => \A e \in Email :
        /\ e \in RemoveEmails(i, v.us) => map2[i][e] = NoCred
        /\ e \notin RemoveEmails(i, v.us) => map2[i][e] = LastCred(Accounts(i, v.us), e, map[i][e])
  BY EnteredMaps
<1> HIDE DEF u, map2, c
<1>6. ASSUME v.op = "update", NEW n \in DOMAIN c
      PROVE  /\ c[n].cred = NoCred => map2[i][c[n].email] = NoCred
             /\ (\A m \in DOMAIN c : m > n => c[m].email # c[n].email) =>
                  map2[i][c[n].email] \in {NoCred, c[n].cred}
  BY <1>3, <1>4, <1>5, <1>6
<1>7. CallsOK(map2, u)
  BY <1>1, <1>3, <1>6 DEF CallsOK
<1> QED BY <1>7 DEF u, map2

LEMMA ServesEntered ==
  ASSUME NEW v, NEW i, Choosing(v, i), NEW map \in Clients, NEW cl, NEW taint,
         Serves(cl, map, v, taint)
  PROVE  Serves(cl, EnteredMap(map, v, i), Entered(v, i), taint)
<1> DEFINE u == Entered(v, i)
           map2 == EnteredMap(map, v, i)
           c == CallsOf(i, v.us)
           E == EmailsOf(v.us)
<1>1. /\ u.op = v.op /\ u.us = v.us /\ u.tag = i /\ u.calls = c /\ u.err = v.err
      /\ u.todo = v.todo \ {i} /\ u.at = IF c = <<>> THEN "next" ELSE "remove"
      /\ i \in Changing
  BY EnteredFields
<1>2. v.us \in Seq(UserRec) /\ v.op \in {"sync", "update"} /\ v.at = "next"
  BY DEF Choosing, WorkType, IsUserOp
<1>3. \A e \in E : \E n \in DOMAIN c :
        c[n].email = e /\ (e \in RemoveEmails(i, v.us) \/ c[n].cred # NoCred)
  BY <1>2, CallsOfRequest
<1>4. E \subseteq Email
  BY <1>2, RemovedAreListed
<1>5. /\ \A j \in Changing : j # i => map2[j] = map[j]
      /\ \A e \in Email \ E : map2[i][e] = map[i][e]
      /\ v.op = "update" => \A e \in Email : e \in RemoveEmails(i, v.us) => map2[i][e] = NoCred
  BY EnteredMaps DEF Changing
<1> HIDE DEF u, map2, c, E
<1>6. \A j \in Changing, e \in Email \ taint : e \in E \/ Matches(cl, map2, j, e)
  <2>1. \A j \in Changing, e \in Email \ taint : e \in E \/ Matches(cl, map, j, e)
    BY DEF Serves, E
  <2> QED BY <1>5, <2>1 DEF Matches
<1>7. ASSUME NEW e \in E PROVE Matches(cl, map2, i, e) \/ InHand(u, e)
  <2>1. PICK n \in DOMAIN c : c[n].email = e /\ (e \in RemoveEmails(i, v.us) \/ c[n].cred # NoCred)
    BY <1>3
  <2>2. CASE v.op = "sync"
    BY <1>1, <2>1, <2>2 DEF InHand
  <2>3. CASE v.op = "update" /\ e \in RemoveEmails(i, v.us)
    BY <1>4, <1>5, <2>3 DEF Matches
  <2>4. CASE c[n].cred # NoCred
    BY <1>1, <2>1, <2>4 DEF InHand
  <2> QED BY <1>2, <2>1, <2>2, <2>3, <2>4
<1>8. ASSUME ~v.err, NEW j \in Done(u), NEW e \in E
      PROVE  Matches(cl, map2, j, e)
  <2>1. CASE j = i
    <3>1. u.at = "next"
      BY <1>1, <2>1 DEF Done
    <3>2. ~InHand(u, e)
      BY <1>1, <3>1 DEF InHand
    <3> QED BY <1>7, <2>1, <3>2
  <2>2. CASE j # i
    <3>1. j \in Done(v) /\ j \in Changing
      BY <1>1, <1>2, <2>2 DEF Done
    <3>2. Matches(cl, map, j, e)
      BY <1>2, <1>8, <3>1 DEF Serves, IsUserOp, E
    <3> QED BY <1>5, <2>2, <3>1, <3>2 DEF Matches
  <2> QED BY <2>1, <2>2
<1>9. Serves(cl, map2, u, taint)
  BY <1>1, <1>2, <1>6, <1>7, <1>8 DEF Serves, IsUserOp, E
<1> QED BY <1>9 DEF u, map2

\* The operation returns: without an error it has served every account, and
\* with one its emails are tainted.
LEMMA ServesReturned ==
  ASSUME NEW v, IsUserOp(v), v.at = "next", v.todo = {}, NEW cl, NEW map, NEW taint,
         Serves(cl, map, v, taint), NEW u, ~IsUserOp(u), NEW taint2,
         taint2 = IF v.err THEN taint \cup EmailsOf(v.us) ELSE taint \ EmailsOf(v.us)
  PROVE  Serves(cl, map, u, taint2)
<1>1. Done(v) = Changing
  BY DEF Done
<1>2. \A i \in Changing, e \in Email \ taint2 : Matches(cl, map, i, e)
  BY <1>1 DEF Serves
<1> QED BY <1>2 DEF Serves

\* A user operation begins, with every inbound to do.
LEMMA ServesBegun ==
  ASSUME NEW v, ~IsUserOp(v), NEW cl, NEW map, NEW taint, Serves(cl, map, v, taint),
         NEW u, u.at = "next" /\ u.todo = Changing
  PROVE  Serves(cl, map, u, taint)
<1>1. Done(u) = {}
  BY DEF Done
<1> QED BY <1>1 DEF Serves

\* Steps of New, of the operations that restart, and of nobody.
LEMMA ServesOther ==
  ASSUME NEW v, ~IsUserOp(v), NEW cl, NEW map, NEW taint, Serves(cl, map, v, taint),
         NEW u, ~IsUserOp(u)
  PROVE  Serves(cl, map, u, taint)
BY DEF Serves

\* A process that has the maps of its configuration serves it.
LEMMA ServesSame ==
  ASSUME NEW cl, NEW map, NEW v, NEW taint,
         v.tag \in Changing \/ v.at = "next" \/ ~IsUserOp(v),
         \A i \in Changing : cl[i] = map[i]
  PROVE  Serves(cl, map, v, taint)
<1>1. \A i \in Changing : \A e : Matches(cl, map, i, e)
  BY DEF Matches
<1>2. Done(v) \subseteq Changing
  BY DEF Done
<1> QED BY <1>1, <1>2 DEF Serves

-----------------------------------------------------------------------------
(* The steps that change each variable.                                    *)

\* The process and its watchers.
LEMMA CoreChanges ==
  ASSUME Next
  PROVE  \/ UNCHANGED <<process, proc, watch, alarmed>>
         \/ BecomeReady \/ Crash \/ Reap
         \/ \E g \in watch : handleProcessExit(g)
         \/ StopKill \/ StopDone \/ Spawn \/ RemoveInboundUser \/ AddInboundUser
<1> USE DEF confVars, coreVars, stopVars, histVars, healthRest, workRest
<1>1. CASE ProcessNext
  BY <1>1 DEF ProcessNext
<1>2. CASE JobNext
  BY <1>2 DEF JobNext, Serialise, ShutdownClose
<1>3. CASE HealthNext
  BY <1>3 DEF HealthNext, HealthTop, HealthOk, HealthFails, CallFails, Fault, NoFault,
    HealthDecide, HealthRestart, HealthLock, Lock
<1>4. CASE ApplyNext
  BY <1>4 DEF ApplyNext, NewReady, Goto, NewFails, StatusFails, Fault, NoFault, Lock,
    ApplyRestart, ApplyReady, ApplyStatusFails, ApplyFails, Finish, ApplySet, SetConfig
<1>5. CASE UserOpNext
  BY <1>5 DEF UserOpNext, NextInbound, SyncUserMemory, UserOpReturns, Finish
<1>6. CASE Environment
  BY <1>6 DEF Environment, SpawnFails, Fault, Returned, ApplyFails, Finish, Shutdown, Lock,
    SyncUsers, ApplyConfig, Begin, UpdateUsersAndRestart, SyncUser, BeginUserOp, UpdateUsers
<1> QED BY <1>1, <1>2, <1>3, <1>4, <1>5, <1>6 DEF Next

\* The holder of x.mu.
LEMMA JobChanges ==
  ASSUME Next
  PROVE  \/ UNCHANGED job
         \/ StopKill \/ StopDone \/ Serialise \/ Spawn \/ SpawnFails \/ Shutdown \/ ShutdownClose
         \/ HealthLock \/ NewFails \/ ApplyRestart
<1> USE DEF confVars, coreVars, stopVars, histVars, healthRest, workRest
<1>1. CASE ProcessNext
  BY <1>1 DEF ProcessNext, BecomeReady, Reap, handleProcessExit
<1>2. CASE JobNext
  BY <1>2 DEF JobNext
<1>3. CASE HealthNext
  BY <1>3 DEF HealthNext, HealthTop, HealthOk, HealthFails, CallFails, Fault, NoFault,
    HealthDecide, HealthRestart
<1>4. CASE ApplyNext
  BY <1>4 DEF ApplyNext, NewReady, Goto, ApplyReady, ApplyStatusFails, StatusFails, Fault,
    NoFault, ApplyFails, Finish, ApplySet, SetConfig
<1>5. CASE UserOpNext
  BY <1>5 DEF UserOpNext, NextInbound, RemoveInboundUser, CallFails, Fault, NoFault,
    SyncUserMemory, AddInboundUser, UserOpReturns, Finish
<1>6. CASE Environment
  BY <1>6 DEF Environment, Crash, Fault, SyncUsers, ApplyConfig, Begin, UpdateUsersAndRestart,
    SyncUser, BeginUserOp, UpdateUsers
<1> QED BY <1>1, <1>2, <1>3, <1>4, <1>5, <1>6 DEF Next

\* The health check.
LEMMA HealthChanges ==
  ASSUME Next
  PROVE  \/ UNCHANGED h
         \/ Spawn \/ SpawnFails \/ HealthTop \/ HealthOk \/ HealthFails \/ HealthDecide
         \/ HealthRestart \/ HealthLock \/ NewReady
<1> USE DEF confVars, coreVars, stopVars, histVars, healthRest, workRest
<1>1. CASE ProcessNext
  BY <1>1 DEF ProcessNext, BecomeReady, Reap, handleProcessExit
<1>2. CASE JobNext
  BY <1>2 DEF JobNext, StopKill, StopDone, AfterStop, Serialise, ShutdownClose
<1>3. CASE HealthNext
  BY <1>3 DEF HealthNext
<1>4. CASE ApplyNext
  BY <1>4 DEF ApplyNext, NewFails, StatusFails, Fault, NoFault, Lock, Goto, ApplyRestart,
    ApplyReady, ApplyStatusFails, ApplyFails, Finish, ApplySet, SetConfig
<1>5. CASE UserOpNext
  BY <1>5 DEF UserOpNext, NextInbound, RemoveInboundUser, CallFails, Fault, NoFault,
    SyncUserMemory, AddInboundUser, UserOpReturns, Finish
<1>6. CASE Environment
  BY <1>6 DEF Environment, Crash, Fault, Shutdown, Lock, SyncUsers, ApplyConfig, Begin,
    UpdateUsersAndRestart, SyncUser, BeginUserOp, UpdateUsers
<1> QED BY <1>1, <1>2, <1>3, <1>4, <1>5, <1>6 DEF Next

\* The user operation.
LEMMA WorkChanges ==
  ASSUME Next
  PROVE  \/ UNCHANGED w
         \/ Spawn \/ SpawnFails \/ NewReady \/ NewFails \/ ApplyRestart \/ ApplyReady
         \/ ApplyStatusFails \/ ApplySet
         \/ \E us \in Request : SyncUsers(us) \/ UpdateUsersAndRestart(us)
         \/ \E us \in Request : SyncUser(us) \/ UpdateUsers(us)
         \/ \E i \in w.todo : NextInbound(i)
         \/ RemoveInboundUser \/ SyncUserMemory \/ AddInboundUser \/ UserOpReturns
<1> USE DEF confVars, coreVars, stopVars, histVars, healthRest, workRest
<1>1. CASE ProcessNext
  BY <1>1 DEF ProcessNext, BecomeReady, Reap, handleProcessExit
<1>2. CASE JobNext
  BY <1>2 DEF JobNext, StopKill, StopDone, AfterStop, Serialise, ShutdownClose
<1>3. CASE HealthNext
  BY <1>3 DEF HealthNext, HealthTop, HealthOk, HealthFails, CallFails, Fault, NoFault,
    HealthDecide, HealthRestart, HealthLock, Lock
<1>4. CASE ApplyNext
  BY <1>4 DEF ApplyNext
<1>5. CASE UserOpNext
  BY <1>5 DEF UserOpNext
<1>6. CASE Environment
  BY <1>6 DEF Environment, Crash, Fault, Shutdown, Lock
<1> QED BY <1>1, <1>2, <1>3, <1>4, <1>5, <1>6 DEF Next

\* The configurations.
LEMMA ConfigChanges ==
  ASSUME Next
  PROVE  \/ UNCHANGED <<heap, config>>
         \/ ApplySet
         \/ \E us \in Request : SyncUsers(us) \/ UpdateUsersAndRestart(us)
         \/ \E i \in w.todo : NextInbound(i)
         \/ SyncUserMemory
<1> USE DEF confVars, coreVars, stopVars, histVars, healthRest, workRest
<1>1. CASE ProcessNext
  BY <1>1 DEF ProcessNext, BecomeReady, Reap, handleProcessExit
<1>2. CASE JobNext
  BY <1>2 DEF JobNext, StopKill, StopDone, AfterStop, Serialise, Spawn, Returned, Goto,
    ShutdownClose
<1>3. CASE HealthNext
  BY <1>3 DEF HealthNext, HealthTop, HealthOk, HealthFails, CallFails, Fault, NoFault,
    HealthDecide, HealthRestart, HealthLock, Lock
<1>4. CASE ApplyNext
  BY <1>4 DEF ApplyNext, NewReady, Goto, NewFails, StatusFails, Fault, NoFault, Lock,
    ApplyRestart, ApplyReady, ApplyStatusFails, ApplyFails, Finish
<1>5. CASE UserOpNext
  BY <1>5 DEF UserOpNext, RemoveInboundUser, CallFails, Fault, NoFault, AddInboundUser,
    UserOpReturns, Finish
<1>6. CASE Environment
  BY <1>6 DEF Environment, Crash, Fault, SpawnFails, Returned, ApplyFails, Finish, Shutdown, Lock,
    SyncUser, BeginUserOp, Begin, UpdateUsers
<1> QED BY <1>1, <1>2, <1>3, <1>4, <1>5, <1>6 DEF Next

\* The histories.
LEMMA HistoryChanges ==
  ASSUME Next
  PROVE  \/ UNCHANGED <<rejected, tainted>>
         \/ Spawn \/ SpawnFails \/ ApplyStatusFails \/ ApplySet \/ UserOpReturns
<1> USE DEF confVars, coreVars, stopVars, histVars, healthRest, workRest
<1>1. CASE ProcessNext
  BY <1>1 DEF ProcessNext, BecomeReady, Reap, handleProcessExit
<1>2. CASE JobNext
  BY <1>2 DEF JobNext, StopKill, StopDone, AfterStop, Serialise, ShutdownClose
<1>3. CASE HealthNext
  BY <1>3 DEF HealthNext, HealthTop, HealthOk, HealthFails, CallFails, Fault, NoFault,
    HealthDecide, HealthRestart, HealthLock, Lock
<1>4. CASE ApplyNext
  BY <1>4 DEF ApplyNext, NewReady, Goto, NewFails, StatusFails, Fault, NoFault, Lock,
    ApplyRestart, ApplyReady
<1>5. CASE UserOpNext
  BY <1>5 DEF UserOpNext, NextInbound, RemoveInboundUser, CallFails, Fault, NoFault,
    SyncUserMemory, AddInboundUser
<1>6. CASE Environment
  BY <1>6 DEF Environment, Crash, Fault, Shutdown, Lock, SyncUsers, ApplyConfig, Begin,
    UpdateUsersAndRestart, SyncUser, BeginUserOp, UpdateUsers
<1> QED BY <1>1, <1>2, <1>3, <1>4, <1>5, <1>6 DEF Next

\* The counters and flags.
LEMMA CounterChanges ==
  ASSUME Next
  PROVE  \/ UNCHANGED <<ops, faults, ctxDone, closed>>
         \/ Crash \/ SpawnFails \/ Shutdown \/ ShutdownClose \/ HealthFails \/ NewFails
         \/ ApplyStatusFails
         \/ \E us \in Request : SyncUsers(us) \/ UpdateUsersAndRestart(us)
         \/ \E us \in Request : SyncUser(us) \/ UpdateUsers(us)
         \/ RemoveInboundUser \/ AddInboundUser
<1> USE DEF confVars, coreVars, stopVars, histVars, healthRest, workRest
<1>1. CASE ProcessNext
  BY <1>1 DEF ProcessNext, BecomeReady, Reap, handleProcessExit
<1>2. CASE JobNext
  BY <1>2 DEF JobNext, StopKill, StopDone, AfterStop, Serialise, Spawn, Returned, Goto
<1>3. CASE HealthNext
  BY <1>3 DEF HealthNext, HealthTop, HealthOk, HealthDecide, HealthRestart, HealthLock, Lock
<1>4. CASE ApplyNext
  BY <1>4 DEF ApplyNext, NewReady, Goto, ApplyRestart, Lock, ApplyReady, ApplySet, SetConfig,
    Finish
<1>5. CASE UserOpNext
  BY <1>5 DEF UserOpNext, NextInbound, SyncUserMemory, UserOpReturns, Finish
<1>6. CASE Environment
  BY <1>6 DEF Environment
<1> QED BY <1>1, <1>2, <1>3, <1>4, <1>5, <1>6 DEF Next

-----------------------------------------------------------------------------
(* What the operations do.                                                 *)

LEMMA AssumptionTypes ==
  /\ MaxFailures \in Nat /\ MaxFailures > 0 /\ MaxOps \in Nat /\ MaxFaults \in Nat
  /\ \A us \in Request : us \in Seq(UserRec)
BY XrayAssumption DEF UserRec

\* The installed configuration.
LEMMA ConfigTypes ==
  ASSUME XrayInv
  PROVE  /\ heap \in Seq(Clients) /\ config \in DOMAIN heap /\ heap[config] \in Clients
         /\ DOMAIN heap = 1..Len(heap) /\ Len(heap) \in Nat
BY DEF XrayInv, Shape, XrayTypeOK

\* The object of a restart is a configuration.
LEMMA JobObject ==
  ASSUME XrayInv, job.at \in {"bytes", "spawn"}
  PROVE  job.obj \in DOMAIN heap /\ job.by \in {"w", "h"}
<1>1. heap \in Seq(Clients) /\ config \in DOMAIN heap
  BY DEF XrayInv, Shape, XrayTypeOK
<1>2. job.by \in {"nobody", "w", "h", "s"} /\ job.obj \in 0..Len(heap)
  BY DEF XrayInv, Shape, XrayTypeOK
<1>3. job.by \in {"w", "h"}
  BY <1>2 DEF XrayInv, JobOK, NoJob
<1>4. job.obj # 0
  <2>1. CASE job.by = "h"
    BY <2>1 DEF XrayInv, JobOK
  <2>2. CASE job.by = "w"
    <3>1. job.obj = w.obj /\ w.at = "restarting"
      BY <2>2 DEF XrayInv, JobOK
    <3>2. w.op = "apply"
      BY <3>1 DEF XrayInv, Shape, WorkOK, ApplyPlaces
    <3>3. w.obj \in DOMAIN heap
      BY <1>1, <3>2 DEF XrayInv, CandidateOK
    <3> QED BY <1>1, <3>1, <3>3
  <2> QED BY <1>3, <2>1, <2>2
<1> QED BY <1>1, <1>2, <1>3, <1>4

LEMMA IdleType ==
  /\ Idle \in WorkType /\ ~IsUserOp(Idle)
  /\ Idle.at = "idle" /\ Idle.op = "none" /\ Idle.obj = 0 /\ Idle.cand = 0 /\ Idle.prev = 0
BY DEF Idle, WorkType, Place, IsUserOp

\* SyncUsers and UpdateUsersAndRestart add a configuration and try it.
LEMMA ApplyBegins ==
  ASSUME XrayInv, NEW us \in Request, SyncUsers(us) \/ UpdateUsersAndRestart(us)
  PROVE  /\ w = Idle /\ ops < MaxOps /\ ops' = ops + 1
         /\ heap' \in Seq(Clients) /\ Len(heap') = Len(heap) + 1
         /\ \A n \in DOMAIN heap : n \in DOMAIN heap' /\ heap'[n] = heap[n]
         /\ w' \in WorkType /\ w'.at = "restart" /\ w'.op = "apply" /\ ~w'.err
         /\ w'.obj = Len(heap) + 1 /\ w'.cand = Len(heap) + 1 /\ w'.prev = config
         /\ UNCHANGED <<config, process, proc, watch, alarmed, ctxDone, closed, job, h, faults,
                        rejected, tainted>>
<1>1. PICK c \in Clients : ApplyConfig(us, c)
  BY ConfigTypes, MapsOfConfig, AssumptionTypes DEF SyncUsers, UpdateUsersAndRestart
<1>2. /\ w = Idle /\ ops < MaxOps /\ ops' = ops + 1 /\ heap' = Append(heap, c)
      /\ UNCHANGED <<config, process, proc, watch, alarmed, ctxDone, closed, job, h, faults,
                     rejected, tainted>>
  BY <1>1 DEF ApplyConfig, Begin, workRest, coreVars, stopVars, histVars
<1>3. w' = [Idle EXCEPT !.at = "restart", !.op = "apply", !.us = us,
                        !.obj = Len(heap) + 1, !.cand = Len(heap) + 1, !.prev = config]
  BY <1>1 DEF ApplyConfig
<1>4. /\ heap' \in Seq(Clients) /\ Len(heap') = Len(heap) + 1
      /\ \A n \in DOMAIN heap : n \in DOMAIN heap' /\ heap'[n] = heap[n]
  BY <1>2, ConfigTypes
<1>5. us \in Seq(UserRec) /\ Len(heap) + 1 \in Nat /\ config \in Nat
  BY ConfigTypes, AssumptionTypes
<1>6. /\ w' \in WorkType /\ w'.at = "restart" /\ w'.op = "apply" /\ ~w'.err
      /\ w'.obj = Len(heap) + 1 /\ w'.cand = Len(heap) + 1 /\ w'.prev = config
  <2>1. w' = [at |-> "restart", op |-> "apply", us |-> us, obj |-> Len(heap) + 1,
              cand |-> Len(heap) + 1, prev |-> config, err |-> FALSE, todo |-> {},
              tag |-> "none", calls |-> <<>>]
    BY <1>3 DEF Idle
  <2>2. "restart" \in Place /\ <<>> \in Seq(CallRec)
    BY DEF Place
  <2> QED BY <1>5, <2>1, <2>2 DEF WorkType
<1> QED BY <1>2, <1>4, <1>6

\* SyncUser and UpdateUsers begin, with all their inbounds to do.
LEMMA UserOpBegins ==
  ASSUME XrayInv, NEW us \in Request, SyncUser(us) \/ UpdateUsers(us)
  PROVE  /\ w = Idle /\ ops < MaxOps /\ ops' = ops + 1
         /\ w' \in WorkType /\ w'.at = "next" /\ IsUserOp(w') /\ w'.todo = Changing
         /\ w'.obj = 0 /\ w'.cand = 0 /\ w'.prev = 0
         /\ UNCHANGED <<heap, config, process, proc, watch, alarmed, ctxDone, closed, job, h,
                        faults, rejected, tainted>>
<1>1. PICK op \in {"sync", "update"} : BeginUserOp(op, us)
  BY DEF SyncUser, UpdateUsers
<1>2. /\ w = Idle /\ ops < MaxOps /\ ops' = ops + 1
      /\ w' = [Idle EXCEPT !.at = "next", !.op = op, !.us = us, !.todo = Changing]
      /\ UNCHANGED <<heap, config, process, proc, watch, alarmed, ctxDone, closed, job, h,
                     faults, rejected, tainted>>
  BY <1>1 DEF BeginUserOp, Begin, workRest, confVars, coreVars, stopVars, histVars, Changing
<1>3. us \in Seq(UserRec)
  BY AssumptionTypes
<1>4. /\ w' \in WorkType /\ w'.at = "next" /\ IsUserOp(w') /\ w'.todo = Changing
      /\ w'.obj = 0 /\ w'.cand = 0 /\ w'.prev = 0
  <2>1. w' = [at |-> "next", op |-> op, us |-> us, obj |-> 0, cand |-> 0, prev |-> 0,
              err |-> FALSE, todo |-> Changing, tag |-> "none", calls |-> <<>>]
    BY <1>2 DEF Idle
  <2>2. "next" \in Place /\ <<>> \in Seq(CallRec)
    BY DEF Place
  <2> QED BY <1>3, <2>1, <2>2 DEF WorkType, IsUserOp
<1> QED BY <1>2, <1>4

\* The operations of a user, in terms of the lemmas on their calls.
LEMMA CallingNow ==
  ASSUME XrayInv, w.at \in CallPlaces
  PROVE  Calling(w)
BY DEF XrayInv, Shape, WorkOK, Calling, CallPlaces, UserPlaces, IsUserOp

LEMMA NextInboundDoes ==
  ASSUME XrayInv, NEW i \in w.todo, NextInbound(i)
  PROVE  /\ Choosing(w, i) /\ w' = Entered(w, i)
         /\ heap' = [heap EXCEPT ![config] = EnteredMap(heap[config], w, i)]
         /\ UNCHANGED <<config, process, proc, watch, alarmed, ctxDone, closed, job, h, ops,
                        faults, rejected, tainted>>
<1>1. CallsFor(i) = CallsOf(i, w.us)
  BY DEF CallsFor, CallsOf
<1>2. Choosing(w, i)
  BY DEF XrayInv, Shape, WorkOK, Choosing, NextInbound, UserPlaces, IsUserOp
<1>3. w' = Entered(w, i)
  BY <1>1 DEF NextInbound, Entered
<1>4. heap' = [heap EXCEPT ![config] = EnteredMap(heap[config], w, i)]
  <2>1. CASE w.op = "update"
    BY <2>1 DEF NextInbound, EnteredMap
  <2>2. CASE w.op # "update"
    <3>1. heap' = heap
      BY <2>2 DEF NextInbound
    <3>2. heap = [heap EXCEPT ![config] = heap[config]]
      BY ConfigTypes
    <3> QED BY <2>2, <3>1, <3>2 DEF EnteredMap
  <2> QED BY <2>1, <2>2
<1> QED BY <1>2, <1>3, <1>4 DEF NextInbound, workRest, coreVars, stopVars, histVars

\* RemoveInboundUser, SyncUser's change of the map, and AddInboundUser: what
\* they do to the process and to the map, and where they go.
LEMMA RemoveDoes ==
  ASSUME XrayInv, RemoveInboundUser
  PROVE  /\ Calling(w) /\ w.at = "remove"
         /\ \/ proc' = proc
            \/ proc.alive /\ proc' = [proc EXCEPT !.clients[w.tag][w.calls[1].email] = NoCred]
         /\ \/ w.op = "sync" /\ w' = [w EXCEPT !.at = "memory"]
            \/ w.op = "update" /\ w.calls[1].cred # NoCred /\ w' = [w EXCEPT !.at = "add"]
            \/ w.op = "update" /\ w.calls[1].cred = NoCred /\ w' = Called(w, FALSE)
         /\ UNCHANGED <<heap, config, process, watch, alarmed, ctxDone, closed, job, h, ops,
                        rejected, tainted>>
<1>1. w.at = "remove" /\ Calling(w)
  BY CallingNow DEF RemoveInboundUser, CallPlaces
<1>2. Head(w.calls) = w.calls[1] /\ w.op \in {"sync", "update"}
  BY <1>1, HeadIsFirst DEF Calling, IsUserOp
<1>3. CallDone(FALSE) = Called(w, FALSE)
  BY DEF CallDone, Called
<1> QED BY <1>1, <1>2, <1>3 DEF RemoveInboundUser, Answers, confVars, stopVars, histVars

LEMMA MemoryDoes ==
  ASSUME XrayInv, SyncUserMemory
  PROVE  /\ Calling(w) /\ w.at = "memory" /\ w.op = "sync"
         /\ heap' = [heap EXCEPT ![config][w.tag][w.calls[1].email] = w.calls[1].cred]
         /\ \/ w.calls[1].cred # NoCred /\ w' = [w EXCEPT !.at = "add"]
            \/ w.calls[1].cred = NoCred /\ w' = Called(w, FALSE)
         /\ UNCHANGED <<config, process, proc, watch, alarmed, ctxDone, closed, job, h, ops,
                        faults, rejected, tainted>>
<1>1. w.at = "memory" /\ Calling(w) /\ w.op = "sync"
  BY CallingNow DEF SyncUserMemory, CallPlaces, XrayInv, Shape, WorkOK
<1>2. Head(w.calls) = w.calls[1]
  BY <1>1, HeadIsFirst
<1>3. CallDone(FALSE) = Called(w, FALSE)
  BY DEF CallDone, Called
<1>4. heap' = [heap EXCEPT ![config][w.tag][w.calls[1].email] = w.calls[1].cred]
  BY <1>2 DEF SyncUserMemory, updateUser, removeUser
<1> QED BY <1>1, <1>2, <1>3, <1>4 DEF SyncUserMemory, workRest, coreVars, stopVars, histVars

LEMMA AddDoes ==
  ASSUME XrayInv, AddInboundUser
  PROVE  /\ Calling(w) /\ w.at = "add" /\ w.calls[1].cred # NoCred
         /\ \/ /\ proc.alive /\ w' = Called(w, FALSE)
               /\ proc' = [proc EXCEPT !.clients[w.tag][w.calls[1].email] = w.calls[1].cred]
            \/ proc' = proc /\ w' = Called(w, TRUE)
         /\ UNCHANGED <<heap, config, process, watch, alarmed, ctxDone, closed, job, h, ops,
                        rejected, tainted>>
<1>1. w.at = "add" /\ Calling(w)
  BY CallingNow DEF AddInboundUser, CallPlaces
<1>2. Head(w.calls) = w.calls[1] /\ Head(w.calls).cred # NoCred
  BY <1>1, HeadIsFirst DEF XrayInv, Shape, WorkOK
<1>3. CallDone(FALSE) = Called(w, FALSE) /\ CallDone(AddError) = Called(w, TRUE)
  BY DEF CallDone, Called, AddError
<1> QED BY <1>1, <1>2, <1>3 DEF AddInboundUser, Answers, confVars, stopVars, histVars

-----------------------------------------------------------------------------
(* The places of an operation.                                             *)

\* Goto, within the operation that is being applied.
LEMMA AppliedMoves ==
  ASSUME w \in WorkType, w.op = "apply", NEW place \in ApplyPlaces, w' = [w EXCEPT !.at = place]
  PROVE  WorkOK'
<1>1. w' \in WorkType /\ w'.op = "apply" /\ w'.at \in ApplyPlaces
  BY DEF WorkType, Place, ApplyPlaces
<1> QED BY <1>1 DEF WorkOK, ApplyPlaces, UserPlaces, CallPlaces

LEMMA IdleWorks ==
  ASSUME w' = Idle
  PROVE  WorkOK'
BY IdleType DEF WorkOK, ApplyPlaces, UserPlaces, CallPlaces

LEMMA AppliedFails ==
  ASSUME w \in WorkType, w.op = "apply", ApplyFails
  PROVE  WorkOK'
<1>1. CASE w.obj = w.cand
  <2>1. w' = [w EXCEPT !.at = "restart", !.obj = w.prev, !.err = TRUE]
    BY <1>1 DEF ApplyFails
  <2>2. w' \in WorkType /\ w'.op = "apply" /\ w'.at = "restart"
    BY <2>1 DEF WorkType, Place
  <2> QED BY <2>2 DEF WorkOK, ApplyPlaces, UserPlaces, CallPlaces
<1>2. CASE w.obj # w.cand
  BY <1>2, IdleWorks DEF ApplyFails, Finish
<1> QED BY <1>1, <1>2

\* Moving to another place of a call.
LEMMA CallMoves ==
  ASSUME Calling(w), NEW place \in {"memory", "add"}, w' = [w EXCEPT !.at = place],
         place = "memory" => w.op = "sync", place = "add" => w.calls[1].cred # NoCred
  PROVE  WorkOK' /\ w'.op = w.op /\ w'.obj = w.obj /\ w'.cand = w.cand /\ w'.prev = w.prev
<1>1. /\ w' \in WorkType /\ w'.op = w.op /\ w'.at = place /\ w'.calls = w.calls
      /\ w'.tag = w.tag /\ w'.todo = w.todo
      /\ w'.obj = w.obj /\ w'.cand = w.cand /\ w'.prev = w.prev
  BY DEF Calling, WorkType, Place
<1>2. w.op \in {"sync", "update"} /\ w.calls # <<>> /\ w.tag \in Changing /\ w.tag \notin w.todo
  BY DEF Calling, IsUserOp
<1>3. Head(w.calls) = w.calls[1]
  BY HeadIsFirst
<1>4. /\ w'.at \in CallPlaces /\ w'.at \in UserPlaces /\ w'.at \notin ApplyPlaces
      /\ w'.at # "idle" /\ w'.at # "new"
  BY <1>1 DEF UserPlaces, CallPlaces, ApplyPlaces
<1> QED BY <1>1, <1>2, <1>3, <1>4 DEF WorkOK

\* A call is done.
LEMMA CallEnds ==
  ASSUME Calling(w), NEW err \in BOOLEAN, w' = Called(w, err)
  PROVE  WorkOK' /\ w'.op = w.op /\ w'.obj = w.obj /\ w'.cand = w.cand /\ w'.prev = w.prev
<1>1. /\ w' \in WorkType /\ w'.op = w.op /\ w'.tag = w.tag /\ w'.todo = w.todo
      /\ w'.at = IF w'.calls = <<>> THEN "next" ELSE "remove"
      /\ w'.obj = w.obj /\ w'.cand = w.cand /\ w'.prev = w.prev
  BY CalledFields
<1>2. w.op \in {"sync", "update"} /\ w.tag \in Changing /\ w.tag \notin w.todo
  BY DEF Calling, IsUserOp
<1>3. /\ w'.at \in UserPlaces /\ w'.at \notin ApplyPlaces
      /\ w'.at \notin {"idle", "new", "memory", "add"}
      /\ w'.at \in CallPlaces => w'.calls # <<>>
  BY <1>1 DEF UserPlaces, CallPlaces, ApplyPlaces
<1> QED BY <1>1, <1>2, <1>3 DEF WorkOK

\* The next inbound.
LEMMA InboundEntered ==
  ASSUME NEW i, Choosing(w, i), w' = Entered(w, i)
  PROVE  WorkOK' /\ w'.op = w.op /\ w'.obj = w.obj /\ w'.cand = w.cand /\ w'.prev = w.prev
<1>1. /\ w' \in WorkType /\ w'.op = w.op /\ w'.tag = i /\ w'.todo = w.todo \ {i} /\ i \in Changing
      /\ w'.at = IF w'.calls = <<>> THEN "next" ELSE "remove"
      /\ w'.obj = w.obj /\ w'.cand = w.cand /\ w'.prev = w.prev
  BY EnteredFields
<1>2. w.op \in {"sync", "update"}
  BY DEF Choosing, IsUserOp
<1>3. /\ w'.at \in UserPlaces /\ w'.at \notin ApplyPlaces
      /\ w'.at \notin {"idle", "new", "memory", "add"}
      /\ w'.at \in CallPlaces => w'.calls # <<>>
  BY <1>1 DEF UserPlaces, CallPlaces, ApplyPlaces
<1> QED BY <1>1, <1>2, <1>3 DEF WorkOK

LEMMA WorkStep ==
  ASSUME XrayInv, Next
  PROVE  WorkOK'
<1>0. WorkOK /\ w \in WorkType
  BY DEF XrayInv, Shape, WorkOK
<1>a. w.at \in ApplyPlaces => w.op = "apply"
  BY <1>0 DEF WorkOK
<1>b. job.by = "w" => w.op = "apply"
  BY <1>a DEF XrayInv, JobOK, ApplyPlaces
<1>1. CASE w' = w
  BY <1>0, <1>1 DEF WorkOK
<1>2. CASE Spawn
  <2>1. w' = w \/ (job.by = "w" /\ w' = [w EXCEPT !.at = "status"])
    BY <1>2 DEF Spawn, Returned, Goto
  <2>2. "status" \in ApplyPlaces
    BY DEF ApplyPlaces
  <2> QED BY <1>0, <1>1, <1>b, <2>1, <2>2, AppliedMoves
<1>3. CASE SpawnFails
  <2>1. w' = w \/ (job.by = "w" /\ ApplyFails)
    BY <1>3 DEF SpawnFails, Returned
  <2> QED BY <1>0, <1>1, <1>b, <2>1, AppliedFails
<1>4. CASE NewReady
  <2>1. w = [Idle EXCEPT !.at = "new"] /\ w' = [w EXCEPT !.at = "idle"]
    BY <1>0, <1>4 DEF NewReady, Goto, WorkOK
  <2>2. w' = Idle
    BY <2>1 DEF Idle
  <2> QED BY <2>2, IdleWorks
<1>5. CASE NewFails
  <2>1. w = [Idle EXCEPT !.at = "new"] /\ w' = [w EXCEPT !.at = "gone"]
    BY <1>0, <1>5 DEF NewFails, Goto, WorkOK
  <2>2. w' \in WorkType /\ w'.at = "gone" /\ w'.op = "none"
    BY <1>0, <2>1 DEF WorkType, Place, Idle
  <2> QED BY <2>2 DEF WorkOK, ApplyPlaces, UserPlaces, CallPlaces
<1>6. CASE ApplyRestart \/ ApplyReady
  <2>1. PICK place \in ApplyPlaces : w' = [w EXCEPT !.at = place]
    BY <1>6 DEF ApplyRestart, ApplyReady, Goto, ApplyPlaces
  <2>2. w.op = "apply"
    BY <1>6, <1>a DEF ApplyRestart, ApplyReady, ApplyPlaces
  <2> QED BY <1>0, <2>1, <2>2, AppliedMoves
<1>7. CASE ApplyStatusFails
  BY <1>0, <1>7, <1>a, AppliedFails DEF ApplyStatusFails, ApplyPlaces
<1>8. CASE ApplySet \/ UserOpReturns
  BY <1>8, IdleWorks DEF ApplySet, UserOpReturns, Finish
<1>9. CASE \E us \in Request : SyncUsers(us) \/ UpdateUsersAndRestart(us)
  <2>1. w' \in WorkType /\ w'.at = "restart" /\ w'.op = "apply"
    BY <1>9, ApplyBegins
  <2> QED BY <2>1 DEF WorkOK, ApplyPlaces, UserPlaces, CallPlaces
<1>10. CASE \E us \in Request : SyncUser(us) \/ UpdateUsers(us)
  <2>1. w' \in WorkType /\ w'.at = "next" /\ IsUserOp(w')
    BY <1>10, UserOpBegins
  <2> QED BY <2>1 DEF WorkOK, ApplyPlaces, UserPlaces, CallPlaces, IsUserOp
<1>11. CASE \E i \in w.todo : NextInbound(i)
  BY <1>11, NextInboundDoes, InboundEntered
<1>12. CASE RemoveInboundUser
  BY <1>12, RemoveDoes, CallMoves, CallEnds
<1>13. CASE SyncUserMemory
  BY <1>13, MemoryDoes, CallMoves, CallEnds
<1>14. CASE AddInboundUser
  BY <1>14, AddDoes, CallEnds
<1> QED BY <1>1, <1>2, <1>3, <1>4, <1>5, <1>6, <1>7, <1>8, <1>9, <1>10, <1>11, <1>12, <1>13, <1>14,
          WorkChanges

-----------------------------------------------------------------------------
(* Types.                                                                  *)

LEMMA SeqUpdated ==
  ASSUME NEW T, NEW s \in Seq(T), NEW n \in DOMAIN s, NEW x \in T
  PROVE  /\ [s EXCEPT ![n] = x] \in Seq(T) /\ Len([s EXCEPT ![n] = x]) = Len(s)
         /\ [s EXCEPT ![n] = x][n] = x
         /\ \A m \in DOMAIN s : m # n => [s EXCEPT ![n] = x][m] = s[m]
OBVIOUS

LEMMA ClientsUpdated ==
  ASSUME NEW c \in Clients, NEW i \in Tag, NEW e \in Email, NEW x \in Cred \cup {NoCred}
  PROVE  /\ [c EXCEPT ![i][e] = x] \in Clients /\ [c EXCEPT ![i][e] = x][i][e] = x
         /\ \A j \in Tag, f \in Email : j # i \/ f # e => [c EXCEPT ![i][e] = x][j][f] = c[j][f]
BY DEF Clients

\* What applyConfigWithRestart works on.
LEMMA ApplyObject ==
  ASSUME XrayInv, w.at \in ApplyPlaces \/ w.op = "apply"
  PROVE  w.op = "apply" /\ w.cand \in DOMAIN heap /\ w.obj \in DOMAIN heap /\ w.prev = config
<1>1. w.op = "apply"
  BY DEF XrayInv, Shape, WorkOK
<1> QED BY <1>1, ConfigTypes DEF XrayInv, CandidateOK

LEMMA CounterTypes ==
  ASSUME XrayInv, Next
  PROVE  ops' \in 0..MaxOps /\ faults' \in 0..MaxFaults /\ ops' >= ops
<1>0. ops \in 0..MaxOps /\ faults \in 0..MaxFaults /\ MaxOps \in Nat /\ MaxFaults \in Nat
  BY AssumptionTypes DEF XrayInv, Shape, XrayTypeOK
<1>1. CASE UNCHANGED <<ops, faults>>
  BY <1>0, <1>1
<1>2. CASE ops' = ops /\ Fault
  BY <1>0, <1>2 DEF Fault
<1>3. CASE \E us \in Request : SyncUsers(us) \/ UpdateUsersAndRestart(us)
  BY <1>0, <1>3, ApplyBegins
<1>4. CASE \E us \in Request : SyncUser(us) \/ UpdateUsers(us)
  BY <1>0, <1>4, UserOpBegins
<1>5. CASE Crash \/ SpawnFails
  BY <1>2, <1>5 DEF Crash, SpawnFails
<1>6. CASE Shutdown \/ ShutdownClose
  BY <1>1, <1>6 DEF Shutdown, ShutdownClose
<1>7. CASE HealthFails
  BY <1>1, <1>2, <1>7 DEF HealthFails, CallFails, healthRest, NoFault
<1>8. CASE NewFails \/ ApplyStatusFails
  BY <1>1, <1>2, <1>8 DEF NewFails, ApplyStatusFails, StatusFails, NoFault
<1>9. CASE RemoveInboundUser
  BY <1>1, <1>2, <1>9 DEF RemoveInboundUser, CallFails, NoFault
<1>10. CASE AddInboundUser
  BY <1>1, <1>2, <1>10 DEF AddInboundUser, CallFails, NoFault
<1> QED BY <1>1, <1>3, <1>4, <1>5, <1>6, <1>7, <1>8, <1>9, <1>10, CounterChanges

LEMMA FlagTypes ==
  ASSUME XrayInv, Next
  PROVE  ctxDone' \in BOOLEAN /\ closed' \in BOOLEAN
<1>0. ctxDone \in BOOLEAN /\ closed \in BOOLEAN
  BY DEF XrayInv, Shape, XrayTypeOK
<1> USE DEF stopVars
<1>1. CASE UNCHANGED <<ctxDone, closed>>
  BY <1>0, <1>1
<1>2. CASE Crash \/ SpawnFails
  BY <1>1, <1>2 DEF Crash, SpawnFails
<1>3. CASE Shutdown \/ ShutdownClose
  BY <1>0, <1>3 DEF Shutdown, ShutdownClose
<1>4. CASE HealthFails
  BY <1>1, <1>4 DEF HealthFails, healthRest
<1>5. CASE NewFails
  BY <1>0, <1>5 DEF NewFails
<1>6. CASE ApplyStatusFails
  BY <1>1, <1>6 DEF ApplyStatusFails, workRest
<1>7. CASE \E us \in Request : SyncUsers(us) \/ UpdateUsersAndRestart(us)
  BY <1>1, <1>7, ApplyBegins
<1>8. CASE \E us \in Request : SyncUser(us) \/ UpdateUsers(us)
  BY <1>1, <1>8, UserOpBegins
<1>9. CASE RemoveInboundUser \/ AddInboundUser
  BY <1>1, <1>9, RemoveDoes, AddDoes
<1> QED BY <1>1, <1>2, <1>3, <1>4, <1>5, <1>6, <1>7, <1>8, <1>9, CounterChanges

\* The configurations: an operation adds one, and changes only the installed
\* one.
LEMMA HeapTypes ==
  ASSUME XrayInv, Next
  PROVE  /\ heap' \in Seq(Clients) /\ Len(heap') >= Len(heap) /\ Len(heap') <= ops' + 1
         /\ config' \in DOMAIN heap
<1>0. /\ heap \in Seq(Clients) /\ config \in DOMAIN heap /\ Len(heap) <= ops + 1 /\ ops \in Nat
      /\ ops' \in Nat /\ ops' >= ops /\ Len(heap) \in Nat /\ heap[config] \in Clients
  BY ConfigTypes, CounterTypes, AssumptionTypes DEF XrayInv, Shape, XrayTypeOK
<1>1. CASE UNCHANGED <<heap, config>>
  BY <1>0, <1>1
<1>2. CASE ApplySet
  <2>1. w.obj \in DOMAIN heap
    BY <1>2, ApplyObject DEF ApplySet, ApplyPlaces
  <2> QED BY <1>0, <1>2, <2>1 DEF ApplySet, SetConfig
<1>3. CASE \E us \in Request : SyncUsers(us) \/ UpdateUsersAndRestart(us)
  BY <1>0, <1>3, ApplyBegins
<1>4. CASE \E i \in w.todo : NextInbound(i)
  <2>1. PICK i \in w.todo : NextInbound(i)
    BY <1>4
  <2>2. /\ Choosing(w, i) /\ heap' = [heap EXCEPT ![config] = EnteredMap(heap[config], w, i)]
        /\ config' = config
    BY <2>1, NextInboundDoes
  <2>3. EnteredMap(heap[config], w, i) \in Clients
    BY <1>0, <2>2, EnteredMaps
  <2> QED BY <1>0, <2>2, <2>3, SeqUpdated
<1>5. CASE SyncUserMemory
  <2>1. /\ Calling(w) /\ config' = config
        /\ heap' = [heap EXCEPT ![config][w.tag][w.calls[1].email] = w.calls[1].cred]
    BY <1>5, MemoryDoes
  <2>2. w.tag \in Tag /\ w.calls[1].email \in Email /\ w.calls[1].cred \in Cred \cup {NoCred}
    BY <2>1, HeadIsFirst DEF Calling, Changing
  <2>3. [heap[config] EXCEPT ![w.tag][w.calls[1].email] = w.calls[1].cred] \in Clients
    BY <1>0, <2>2 DEF Clients
  <2> QED BY <1>0, <2>1, <2>3, SeqUpdated
<1> QED BY <1>1, <1>2, <1>3, <1>4, <1>5, ConfigChanges

ProcType(n) ==
  [killed : BOOLEAN, alive : BOOLEAN, reaped : BOOLEAN, ready : BOOLEAN,
   obj : 1..n, by : {"w", "h"}, clients : Clients]

LEMMA CoreTypes ==
  ASSUME XrayInv, Next
  PROVE  /\ process' \in BOOLEAN /\ alarmed' \in BOOLEAN /\ proc' \in ProcType(Len(heap))
         /\ watch' \subseteq [current : BOOLEAN, killed : BOOLEAN]
<1>0. /\ process \in BOOLEAN /\ alarmed \in BOOLEAN /\ proc \in ProcType(Len(heap))
      /\ watch \subseteq [current : BOOLEAN, killed : BOOLEAN]
  BY ConfigTypes DEF XrayInv, Shape, XrayTypeOK, ProcType
<1>a. /\ proc.killed \in BOOLEAN /\ proc.alive \in BOOLEAN /\ proc.reaped \in BOOLEAN
      /\ proc.ready \in BOOLEAN /\ proc.clients \in Clients
  BY <1>0 DEF ProcType
<1>1. CASE UNCHANGED <<process, proc, watch, alarmed>>
  BY <1>0, <1>1
<1>2. CASE BecomeReady
  BY <1>0, <1>2 DEF BecomeReady, ProcType
<1>3. CASE Crash
  BY <1>0, <1>3 DEF Crash, ProcType
<1>4. CASE Reap
  <2>1. proc' \in ProcType(Len(heap)) /\ UNCHANGED <<process, alarmed>>
    BY <1>0, <1>4 DEF Reap, ProcType
  <2>2. watch' = watch \cup {[current |-> TRUE, killed |-> proc.killed]}
    BY <1>4 DEF Reap
  <2>3. [current |-> TRUE, killed |-> proc.killed] \in [current : BOOLEAN, killed : BOOLEAN]
    BY <1>a
  <2>4. watch' \subseteq [current : BOOLEAN, killed : BOOLEAN]
    BY <1>0, <2>2, <2>3
  <2> QED BY <1>0, <2>1, <2>4
<1>5. CASE \E g \in watch : handleProcessExit(g)
  BY <1>0, <1>5 DEF handleProcessExit
<1>6. CASE StopKill
  <2>1. proc' \in ProcType(Len(heap))
    BY <1>0, <1>6, <1>a DEF StopKill, ProcType
  <2> QED BY <1>0, <1>6, <2>1 DEF StopKill
<1>7. CASE StopDone
  BY <1>0, <1>7 DEF StopDone
<1>8. CASE Spawn
  <2>1. job.obj \in 1..Len(heap) /\ job.by \in {"w", "h"} /\ job.bytes \in Clients
    BY <1>8, JobObject, ConfigTypes DEF Spawn, XrayInv, Shape, XrayTypeOK
  <2>2. proc' \in ProcType(Len(heap))
    BY <1>8, <2>1 DEF Spawn, ProcType
  <2>3. watch' \subseteq [current : BOOLEAN, killed : BOOLEAN]
    <3>1. watch' = {[g EXCEPT !.current = FALSE] : g \in watch}
      BY <1>8 DEF Spawn
    <3> QED BY <1>0, <3>1
  <2> QED BY <1>0, <1>8, <2>2, <2>3 DEF Spawn
<1>9. CASE RemoveInboundUser \/ AddInboundUser
  <2>1. /\ Calling(w) /\ UNCHANGED <<process, watch, alarmed>>
        /\ \/ proc' = proc
           \/ \E x \in Cred \cup {NoCred} :
                proc' = [proc EXCEPT !.clients[w.tag][w.calls[1].email] = x]
    <3>1. CASE RemoveInboundUser
      BY <3>1, RemoveDoes
    <3>2. CASE AddInboundUser
      BY <3>2, AddDoes, HeadIsFirst
    <3> QED BY <1>9, <3>1, <3>2
  <2>2. w.tag \in Tag /\ w.calls[1].email \in Email
    BY <2>1, HeadIsFirst DEF Calling, Changing
  <2>3. \A x \in Cred \cup {NoCred} :
          [proc.clients EXCEPT ![w.tag][w.calls[1].email] = x] \in Clients
    BY <1>a, <2>2, ClientsUpdated
  <2>4. proc' \in ProcType(Len(heap))
    BY <1>0, <2>1, <2>3 DEF ProcType
  <2> QED BY <1>0, <2>1, <2>4
<1> QED BY <1>1, <1>2, <1>3, <1>4, <1>5, <1>6, <1>7, <1>8, <1>9, CoreChanges

JobType(n) ==
  [by : {"nobody", "w", "h", "s"}, at : {"free", "stop", "reap", "bytes", "spawn", "close"},
   obj : 0..n, bytes : Clients]

LEMMA NoJobType ==
  /\ \A n \in Nat : NoJob \in JobType(n)
  /\ NoJob.by = "nobody" /\ NoJob.at = "free" /\ NoJob.obj = 0
<1>1. NoClients \in Clients
  BY DEF NoClients, Clients
<1> QED BY <1>1 DEF NoJob, JobType

\* x.mu is taken.
LEMMA Locked ==
  ASSUME NEW n \in Nat, NEW by \in {"w", "h", "s"}, NEW obj \in 0..n, Lock(by, obj)
  PROVE  /\ job = NoJob /\ job' \in JobType(n)
         /\ job'.by = by /\ job'.at = "stop" /\ job'.obj = obj
<1>1. job = NoJob /\ job' = [NoJob EXCEPT !.by = by, !.at = "stop", !.obj = obj]
  BY DEF Lock
<1>2. NoJob \in JobType(n)
  BY NoJobType
<1> QED BY <1>1, <1>2 DEF JobType

LEMMA JobTypes ==
  ASSUME XrayInv, Next
  PROVE  job' \in JobType(Len(heap))
<1>0. /\ job \in JobType(Len(heap)) /\ Len(heap) \in Nat
      /\ h.obj \in 0..Len(heap) /\ w.obj \in 0..Len(heap)
  BY ConfigTypes DEF XrayInv, Shape, XrayTypeOK, JobType
<1>1. CASE job' = job
  BY <1>0, <1>1
<1>2. CASE StopKill
  BY <1>0, <1>2 DEF StopKill, JobType
<1>3. CASE StopDone
  BY <1>0, <1>3 DEF StopDone, AfterStop, JobType
<1>4. CASE Serialise
  <2>1. ToBytes(heap[job.obj]) \in Clients
    <3>1. heap[job.obj] \in Clients
      BY <1>4, JobObject, ConfigTypes DEF Serialise
    <3>2. <<>> \in Seq(UserRec)
      OBVIOUS
    <3> QED BY <3>1, <3>2, MapsOfConfig
  <2> QED BY <1>0, <1>4, <2>1 DEF Serialise, JobType
<1>5. CASE Spawn \/ SpawnFails \/ ShutdownClose
  BY <1>0, <1>5, NoJobType DEF Spawn, SpawnFails, ShutdownClose, Returned
<1>6. CASE Shutdown \/ NewFails
  <2>1. Lock("s", 0)
    BY <1>6 DEF Shutdown, NewFails
  <2> QED BY <1>0, <2>1, Locked
<1>7. CASE HealthLock
  BY <1>0, <1>7, Locked DEF HealthLock
<1>8. CASE ApplyRestart
  BY <1>0, <1>8, Locked DEF ApplyRestart
<1> QED BY <1>1, <1>2, <1>3, <1>4, <1>5, <1>6, <1>7, <1>8, JobChanges

HealthType(n) ==
  [at : {"off", "loop", "call", "failed", "restart", "lock", "restarting"},
   fails : 0..MaxFailures, obj : 0..n]

LEMMA HealthTypes ==
  ASSUME XrayInv, Next
  PROVE  h' \in HealthType(Len(heap))
<1>0. h \in HealthType(Len(heap)) /\ h.fails \in 0..MaxFailures
  BY DEF XrayInv, Shape, XrayTypeOK, HealthType
<1>a. 0 \in 0..MaxFailures /\ 0 \in 0..Len(heap) /\ config \in 0..Len(heap)
  BY ConfigTypes, AssumptionTypes
<1>b. h.fails < MaxFailures => h.fails + 1 \in 0..MaxFailures
  BY <1>0, AssumptionTypes
<1>1. CASE h' = h
  BY <1>0, <1>1
<1>2. CASE \E at \in {"off", "loop", "call", "failed", "restart", "restarting"},
             f \in 0..MaxFailures : h' = [h EXCEPT !.at = at, !.fails = f]
  BY <1>0, <1>2 DEF HealthType
<1>3. CASE \E at \in {"off", "loop", "call", "restart", "restarting"} : h' = [h EXCEPT !.at = at]
  BY <1>0, <1>3 DEF HealthType
<1>4. CASE Spawn \/ SpawnFails
  <2>1. h' = h \/ \E f \in 0..MaxFailures : h' = [h EXCEPT !.at = "loop", !.obj = 0, !.fails = f]
    BY <1>0, <1>4, <1>a DEF Spawn, SpawnFails, Returned
  <2> QED BY <1>0, <1>a, <2>1 DEF HealthType
<1>5. CASE HealthTop
  <2>1. h' = [h EXCEPT !.fails = 0] \/ h' = [h EXCEPT !.at = "off"] \/ h' = [h EXCEPT !.at = "call"]
    BY <1>5 DEF HealthTop
  <2>2. [h EXCEPT !.fails = 0] \in HealthType(Len(heap))
    BY <1>0, <1>a DEF HealthType
  <2> QED BY <1>3, <2>1, <2>2
<1>6. CASE HealthOk
  BY <1>2, <1>6, <1>a DEF HealthOk
<1>7. CASE HealthFails
  <2>1. h' = [h EXCEPT !.at = "failed", !.fails = IF @ < MaxFailures THEN @ + 1 ELSE @]
    BY <1>7 DEF HealthFails
  <2>2. PICK f \in 0..MaxFailures : f = IF h.fails < MaxFailures THEN h.fails + 1 ELSE h.fails
    BY <1>0, <1>b
  <2>3. h' = [h EXCEPT !.at = "failed", !.fails = f]
    BY <2>1, <2>2
  <2> QED BY <1>2, <2>3
<1>8. CASE HealthDecide
  BY <1>3, <1>8 DEF HealthDecide
<1>9. CASE HealthRestart
  <2>1. h' = [h EXCEPT !.at = "lock", !.obj = config]
    BY <1>9 DEF HealthRestart
  <2> QED BY <1>0, <1>a, <2>1 DEF HealthType
<1>10. CASE HealthLock
  BY <1>3, <1>10 DEF HealthLock
<1>11. CASE NewReady
  BY <1>3, <1>11 DEF NewReady
<1> QED BY <1>1, <1>4, <1>5, <1>6, <1>7, <1>8, <1>9, <1>10, <1>11, HealthChanges

\* The objects of the operation.
LEMMA WorkObjects ==
  ASSUME XrayInv, Next
  PROVE  {w'.obj, w'.cand, w'.prev} \subseteq 0..Len(heap')
<1>0. /\ {w.obj, w.cand, w.prev} \subseteq 0..Len(heap) /\ w \in WorkType
      /\ Len(heap) \in Nat /\ Len(heap') \in Nat /\ Len(heap') >= Len(heap)
      /\ config \in 1..Len(heap)
  <2>1. {w.obj, w.cand, w.prev} \subseteq 0..Len(heap)
    BY DEF XrayInv, Shape, XrayTypeOK
  <2>2. w \in WorkType
    BY DEF XrayInv, Shape, WorkOK
  <2>3. Len(heap) \in Nat /\ config \in 1..Len(heap)
    BY ConfigTypes
  <2>4. Len(heap') \in Nat /\ Len(heap') >= Len(heap)
    BY HeapTypes
  <2> QED BY <2>1, <2>2, <2>3, <2>4
<1>1. CASE {w'.obj, w'.cand, w'.prev} \subseteq {w.obj, w.cand, w.prev, 0}
  <2>1. {w.obj, w.cand, w.prev, 0} \subseteq 0..Len(heap)
    BY <1>0
  <2>2. 0..Len(heap) \subseteq 0..Len(heap')
    BY <1>0
  <2> QED BY <1>1, <2>1, <2>2
<1>2. CASE \E place : w' = [w EXCEPT !.at = place]
  BY <1>0, <1>1, <1>2 DEF WorkType
<1>3. CASE ApplyFails
  BY <1>0, <1>1, <1>3, IdleType DEF ApplyFails, Finish, WorkType
<1>4. CASE w' = Idle
  BY <1>1, <1>4, IdleType
<1>5. CASE w' = w
  BY <1>1, <1>5
<1>6. CASE Spawn \/ SpawnFails
  BY <1>2, <1>3, <1>5, <1>6 DEF Spawn, SpawnFails, Returned, Goto
<1>7. CASE NewReady \/ NewFails \/ ApplyRestart \/ ApplyReady
  BY <1>2, <1>7 DEF NewReady, NewFails, ApplyRestart, ApplyReady, Goto
<1>8. CASE ApplyStatusFails
  BY <1>3, <1>8 DEF ApplyStatusFails
<1>9. CASE ApplySet \/ UserOpReturns
  BY <1>4, <1>9 DEF ApplySet, UserOpReturns, Finish
<1>10. CASE \E us \in Request : SyncUsers(us) \/ UpdateUsersAndRestart(us)
  BY <1>0, <1>10, ApplyBegins
<1>11. CASE \E us \in Request : SyncUser(us) \/ UpdateUsers(us)
  BY <1>1, <1>11, UserOpBegins
<1>12. CASE \E i \in w.todo : NextInbound(i)
  BY <1>1, <1>12, NextInboundDoes, InboundEntered
<1>13. CASE RemoveInboundUser
  BY <1>1, <1>2, <1>13, RemoveDoes, CallEnds
<1>14. CASE SyncUserMemory
  BY <1>1, <1>2, <1>14, MemoryDoes, CallEnds
<1>15. CASE AddInboundUser
  BY <1>1, <1>15, AddDoes, CallEnds
<1> QED BY <1>5, <1>6, <1>7, <1>8, <1>9, <1>10, <1>11, <1>12, <1>13, <1>14, <1>15, WorkChanges

\* What Finish notes.
LEMMA FinishNotes ==
  ASSUME NEW err, Finish(err), w \in WorkType
  PROVE  /\ w' = Idle
         /\ rejected' = IF w.op = "apply" /\ err THEN rejected \cup {w.cand} ELSE rejected
         /\ tainted' = IF w.op = "apply" THEN tainted
                       ELSE IF err THEN tainted \cup EmailsOf(w.us) ELSE tainted \ EmailsOf(w.us)
         /\ EmailsOf(w.us) \subseteq Email
<1>1. w.us \in Seq(UserRec)
  BY DEF WorkType
<1>2. EmailsOf(w.us) \subseteq Email
  BY <1>1, RemovedAreListed
<1> QED BY <1>2 DEF Finish, EmailsOf

\* The candidate of a failed application is rejected when the application
\* gives up; nothing else is noted by an application.
LEMMA ApplicationNotes ==
  ASSUME w \in WorkType, w.op = "apply", ApplyFails
  PROVE  /\ tainted' = tainted
         /\ \/ /\ w.obj = w.cand /\ rejected' = rejected
               /\ w' = [w EXCEPT !.at = "restart", !.obj = w.prev, !.err = TRUE]
            \/ w.obj # w.cand /\ rejected' = rejected \cup {w.cand} /\ w' = Idle
BY FinishNotes DEF ApplyFails, histVars

LEMMA HistoryTypes ==
  ASSUME XrayInv, Next
  PROVE  rejected' \subseteq DOMAIN heap /\ tainted' \subseteq Email
<1>0. rejected \subseteq DOMAIN heap /\ tainted \subseteq Email /\ w \in WorkType
  BY DEF XrayInv, Shape, XrayTypeOK, WorkOK
<1>a. w.op = "apply" => w.cand \in DOMAIN heap
  BY DEF XrayInv, CandidateOK
<1>1. CASE UNCHANGED <<rejected, tainted>>
  BY <1>0, <1>1
<1>2. CASE \E err \in BOOLEAN : Finish(err)
  BY <1>0, <1>2, <1>a, FinishNotes
<1>3. CASE ApplyFails
  BY <1>1, <1>2, <1>3 DEF ApplyFails, histVars
<1>4. CASE Spawn \/ SpawnFails
  BY <1>1, <1>3, <1>4 DEF Spawn, SpawnFails, Returned, Goto, histVars
<1>5. CASE ApplyStatusFails
  BY <1>3, <1>5 DEF ApplyStatusFails
<1>6. CASE ApplySet \/ UserOpReturns
  <2>1. w.err \in BOOLEAN
    BY <1>0 DEF WorkType
  <2> QED BY <1>2, <1>6, <2>1 DEF ApplySet, UserOpReturns
<1> QED BY <1>1, <1>4, <1>5, <1>6, HistoryChanges

LEMMA ShapeStep ==
  ASSUME XrayInv, Next
  PROVE  Shape'
<1>1. /\ heap' \in Seq(Clients) /\ Len(heap') >= Len(heap) /\ Len(heap') <= ops' + 1
      /\ config' \in DOMAIN heap /\ Len(heap) \in Nat /\ Len(heap') \in Nat
      /\ DOMAIN heap = 1..Len(heap) /\ DOMAIN heap' = 1..Len(heap')
  BY HeapTypes, ConfigTypes
<1>2. config' \in DOMAIN heap' /\ \A k : k \in DOMAIN heap => k \in DOMAIN heap'
  BY <1>1
<1>3. ops' \in 0..MaxOps /\ faults' \in 0..MaxFaults /\ Len(heap') <= MaxOps + 1
  BY <1>1, CounterTypes, AssumptionTypes
<1>4. /\ process' \in BOOLEAN /\ alarmed' \in BOOLEAN
      /\ watch' \subseteq [current : BOOLEAN, killed : BOOLEAN]
      /\ proc' \in [killed : BOOLEAN, alive : BOOLEAN, reaped : BOOLEAN, ready : BOOLEAN,
                    obj : DOMAIN heap', by : {"w", "h"}, clients : Clients]
  <2>1. proc' \in ProcType(Len(heap))
    BY CoreTypes
  <2>2. proc' \in [killed : BOOLEAN, alive : BOOLEAN, reaped : BOOLEAN, ready : BOOLEAN,
                   obj : DOMAIN heap', by : {"w", "h"}, clients : Clients]
    BY <1>1, <1>2, <2>1 DEF ProcType
  <2> QED BY <2>2, CoreTypes
<1>5. 0..Len(heap) \subseteq 0..Len(heap')
  BY <1>1
<1>6. job' \in JobType(Len(heap'))
  BY <1>5, JobTypes DEF JobType
<1>7. h' \in HealthType(Len(heap'))
  BY <1>5, HealthTypes DEF HealthType
<1>8. w'.at \in Place /\ w'.err \in BOOLEAN
  BY WorkStep DEF WorkOK, WorkType
<1>9. rejected' \subseteq DOMAIN heap' /\ tainted' \subseteq Email
  BY <1>2, HistoryTypes
<1>10. XrayTypeOK'
  BY <1>1, <1>2, <1>3, <1>4, <1>6, <1>7, <1>8, <1>9, WorkObjects, FlagTypes
     DEF XrayTypeOK, JobType, HealthType
<1> QED BY <1>1, <1>10, WorkStep DEF Shape

-----------------------------------------------------------------------------
(* x.mu and the process.                                                   *)

\* The places an operation goes to from one that does not hold x.mu.
LEMMA WorkPlaces ==
  ASSUME XrayInv, Next, w' # w
  PROVE  /\ w'.at # "new"
         /\ \/ Spawn \/ SpawnFails \/ NewReady \/ NewFails \/ ApplyRestart
            \/ w.at # "restarting" /\ w'.at # "restarting" /\ UNCHANGED <<job, h>>
<1>0. w \in WorkType
  BY DEF XrayInv, Shape, WorkOK
<1>a. job.by = "w" => w.op = "apply"
  BY DEF XrayInv, JobOK, Shape, WorkOK, ApplyPlaces
<1> USE DEF workRest, stopVars
<1>1. CASE Spawn
  <2>1. w' = [w EXCEPT !.at = "status"]
    BY <1>1 DEF Spawn, Returned, Goto
  <2> QED BY <1>0, <1>1, <2>1 DEF WorkType
<1>2. CASE SpawnFails
  <2>1. job.by = "w" /\ ApplyFails
    BY <1>2 DEF SpawnFails, Returned
  <2>2. w'.at \in {"restart", "idle"}
    BY <1>0, <1>a, <2>1, IdleType, ApplicationNotes DEF WorkType
  <2> QED BY <1>2, <2>2
<1>3. CASE NewReady \/ NewFails \/ ApplyRestart
  <2>1. \E place \in {"idle", "gone", "restarting"} : w' = [w EXCEPT !.at = place]
    BY <1>3 DEF NewReady, NewFails, ApplyRestart, Goto
  <2> QED BY <1>0, <1>3, <2>1 DEF WorkType
<1>4. CASE ApplyReady
  BY <1>0, <1>4 DEF ApplyReady, Goto, WorkType
<1>5. CASE ApplyStatusFails
  <2>1. w.at = "status" /\ ApplyFails /\ UNCHANGED <<job, h>> /\ w.op = "apply"
    BY <1>5, ApplyObject DEF ApplyStatusFails, ApplyPlaces
  <2>2. w'.at \in {"restart", "idle"}
    BY <1>0, <2>1, IdleType, ApplicationNotes DEF WorkType
  <2> QED BY <2>1, <2>2
<1>6. CASE ApplySet \/ UserOpReturns
  BY <1>6, IdleType DEF ApplySet, UserOpReturns, Finish
<1>7. CASE \E us \in Request : SyncUsers(us) \/ UpdateUsersAndRestart(us)
  BY <1>7, ApplyBegins, IdleType
<1>8. CASE \E us \in Request : SyncUser(us) \/ UpdateUsers(us)
  BY <1>8, UserOpBegins, IdleType
<1>9. CASE \E i \in w.todo : NextInbound(i)
  <2>1. PICK i \in w.todo : NextInbound(i)
    BY <1>9
  <2>2. Choosing(w, i) /\ w' = Entered(w, i) /\ UNCHANGED <<job, h>>
    BY <2>1, NextInboundDoes
  <2>3. w.at = "next" /\ w'.at \in {"next", "remove"}
    BY <2>2, EnteredFields DEF Choosing
  <2> QED BY <2>2, <2>3
<1>10. CASE RemoveInboundUser \/ SyncUserMemory \/ AddInboundUser
  <2>1. /\ Calling(w) /\ UNCHANGED <<job, h>>
        /\ \/ \E place \in {"memory", "add"} : w' = [w EXCEPT !.at = place]
           \/ \E err \in BOOLEAN : w' = Called(w, err)
    BY <1>10, RemoveDoes, MemoryDoes, AddDoes
  <2>2. w.at \in CallPlaces /\ w'.at \in {"next", "remove", "memory", "add"}
    BY <1>0, <2>1, CalledFields DEF Calling, WorkType
  <2> QED BY <2>1, <2>2 DEF CallPlaces
<1> QED BY <1>1, <1>2, <1>3, <1>4, <1>5, <1>6, <1>7, <1>8, <1>9, <1>10, WorkChanges

\* The places of the health check.
LEMMA HealthPlaces ==
  ASSUME XrayInv, Next, h' # h
  PROVE  \/ Spawn \/ SpawnFails \/ HealthLock
         \/ /\ h.at # "restarting" /\ h'.at # "restarting" /\ UNCHANGED job
            /\ h'.at = "lock" => h'.obj # 0
            /\ w'.at # "new"
            /\ (w.at # "restarting" /\ w'.at # "restarting") \/ UNCHANGED w
<1>0. h \in HealthType(Len(heap)) /\ w \in WorkType /\ config # 0
  BY ConfigTypes DEF XrayInv, Shape, XrayTypeOK, HealthType, WorkOK
<1>a. w.at = "new" => h.at = "off"
  BY DEF XrayInv, JobOK
<1> USE DEF healthRest, HealthType
<1>1. CASE HealthTop
  BY <1>0, <1>1, <1>a DEF HealthTop
<1>2. CASE HealthOk
  BY <1>0, <1>2, <1>a DEF HealthOk
<1>3. CASE HealthFails
  BY <1>0, <1>3, <1>a DEF HealthFails
<1>4. CASE HealthDecide
  BY <1>0, <1>4, <1>a DEF HealthDecide
<1>5. CASE HealthRestart
  BY <1>0, <1>5, <1>a DEF HealthRestart
<1>6. CASE NewReady
  <2>1. w.at = "new" /\ h.at = "off" /\ UNCHANGED job
    BY <1>6, <1>a DEF NewReady
  <2>2. h'.at = "loop" /\ w'.at = "idle"
    BY <1>0, <1>6 DEF NewReady, Goto, WorkType
  <2> QED BY <2>1, <2>2
<1> QED BY <1>1, <1>2, <1>3, <1>4, <1>5, <1>6, HealthChanges

\* x.mu is released.
LEMMA Released ==
  ASSUME job' = NoJob, w'.at # "restarting", h'.at # "restarting",
         h'.at = "lock" => h'.obj # 0, w'.at = "new" => h'.at = "off"
  PROVE  JobOK'
BY NoJobType DEF JobOK

LEMMA JobStep ==
  ASSUME XrayInv, Next
  PROVE  JobOK'
<1>0. /\ JobOK /\ w \in WorkType /\ h \in HealthType(Len(heap)) /\ job \in JobType(Len(heap))
      /\ Len(heap) \in Nat /\ h.obj \in 0..Len(heap) /\ w.obj \in 0..Len(heap)
  BY ConfigTypes DEF XrayInv, Shape, XrayTypeOK, HealthType, WorkOK, JobType
<1>1. CASE UNCHANGED <<job, w, h>>
  BY <1>0, <1>1 DEF JobOK
<1>2. CASE Spawn \/ SpawnFails
  <2>1. /\ job' = NoJob
        /\ \/ /\ job.by = "h" /\ w' = w
              /\ \E f : h' = [h EXCEPT !.at = "loop", !.obj = 0, !.fails = f]
           \/ job.by = "w" /\ h' = h
    BY <1>2 DEF Spawn, SpawnFails, Returned
  <2>2. CASE job.by = "h" /\ w' = w
    <3>1. h'.at = "loop" /\ w.at # "restarting" /\ w.at # "new"
      BY <1>0, <2>1, <2>2 DEF JobOK, HealthType
    <3> QED BY <2>1, <2>2, <3>1, Released
  <2>3. CASE job.by = "w" /\ h' = h
    <3>1. w.at = "restarting" /\ h.at # "restarting" /\ (h.at = "lock" => h.obj # 0)
      BY <1>0, <2>3 DEF JobOK
    <3>2. w'.at # "restarting" /\ w'.at # "new"
      <4>1. CASE Spawn
        BY <1>0, <2>3, <4>1 DEF Spawn, Returned, Goto, WorkType
      <4>2. CASE SpawnFails
        <5>1. ApplyFails /\ w.op = "apply"
          BY <2>3, <3>1, <4>2, ApplyObject DEF SpawnFails, Returned, ApplyPlaces
        <5> QED BY <1>0, <5>1, IdleType, ApplicationNotes DEF WorkType
      <4> QED BY <1>2, <4>1, <4>2
    <3> QED BY <2>1, <2>3, <3>1, <3>2, Released
  <2> QED BY <2>1, <2>2, <2>3
<1>3. CASE Shutdown \/ NewFails
  <2>1. /\ Lock("s", 0) /\ h' = h
        /\ w' = w \/ (w.at = "new" /\ w' = [w EXCEPT !.at = "gone"])
    BY <1>3 DEF Shutdown, NewFails, Goto
  <2>2. job = NoJob /\ job'.by = "s" /\ job'.at = "stop"
    BY <1>0, <2>1, Locked
  <2>3. w'.at # "restarting" /\ (w'.at = "new" => h.at = "off")
    BY <1>0, <2>1, <2>2, NoJobType DEF JobOK, WorkType
  <2> QED BY <1>0, <2>1, <2>2, <2>3, NoJobType DEF JobOK
<1>4. CASE ShutdownClose
  <2>1. job' = NoJob /\ UNCHANGED <<h, w>> /\ job.by = "s"
    BY <1>0, <1>4 DEF ShutdownClose, JobOK
  <2> QED BY <1>0, <2>1, Released DEF JobOK
<1>5. CASE HealthLock
  <2>1. h.at = "lock" /\ Lock("h", h.obj) /\ w' = w
    BY <1>5 DEF HealthLock, healthRest
  <2>2. h'.at = "restarting" /\ h'.obj = h.obj
    BY <1>0, <1>5 DEF HealthLock, HealthType
  <2>3. job = NoJob /\ job'.by = "h" /\ job'.at = "stop" /\ job'.obj = h.obj
    BY <1>0, <2>1, Locked
  <2> QED BY <1>0, <2>1, <2>2, <2>3, NoJobType DEF JobOK
<1>6. CASE ApplyRestart
  <2>1. w.at = "restart" /\ Lock("w", w.obj) /\ h' = h
    BY <1>6 DEF ApplyRestart
  <2>2. w'.at = "restarting" /\ w'.obj = w.obj
    BY <1>0, <1>6 DEF ApplyRestart, Goto, WorkType
  <2>3. job = NoJob /\ job'.by = "w" /\ job'.at = "stop" /\ job'.obj = w.obj
    BY <1>0, <2>1, Locked
  <2> QED BY <1>0, <2>1, <2>2, <2>3, NoJobType DEF JobOK
<1>7. CASE StopKill \/ StopDone \/ Serialise
  <2>1. /\ job.at \in {"stop", "reap", "bytes"} /\ UNCHANGED <<h, w>>
        /\ \/ job' = [job EXCEPT !.at = "reap"]
           \/ job' = [job EXCEPT !.at = IF job.by = "s" THEN "close" ELSE "bytes"]
           \/ job.at = "bytes" /\ \E b : job' = [job EXCEPT !.at = "spawn", !.bytes = b]
    BY <1>7 DEF StopKill, StopDone, Serialise, AfterStop
  <2>2. /\ job'.by = job.by /\ job'.obj = job.obj /\ job'.at # "free"
        /\ job'.at = "reap" \/ (job.by = "s" /\ job'.at = "close")
           \/ (job.by # "s" /\ job'.at = "bytes") \/ (job.at = "bytes" /\ job'.at = "spawn")
    BY <1>0, <2>1 DEF JobType
  <2>3. job.by # "nobody"
    BY <1>0, <2>1, NoJobType DEF JobOK
  <2> QED BY <1>0, <2>1, <2>2, <2>3 DEF JobOK
<1>8. CASE NewReady
  <2>1. w.at = "new" /\ h.at = "off" /\ job' = job
    BY <1>0, <1>8 DEF NewReady, JobOK
  <2>2. h'.at = "loop" /\ w'.at = "idle"
    BY <1>0, <1>8 DEF NewReady, Goto, WorkType, HealthType
  <2> QED BY <1>0, <2>1, <2>2 DEF JobOK
<1>9. CASE job' = job /\ w' # w /\ w.at # "restarting" /\ w'.at # "restarting" /\ h' = h
  BY <1>0, <1>9, WorkPlaces DEF JobOK
<1>10. CASE /\ job' = job /\ w' = w /\ h.at # "restarting" /\ h'.at # "restarting"
            /\ h'.at = "lock" => h'.obj # 0
            /\ w'.at # "new"
  BY <1>0, <1>10 DEF JobOK
<1>11. CASE job' = job
  <2>1. CASE w' = w /\ h' = h
    BY <1>1, <1>11, <2>1
  <2>2. CASE w' # w
    BY <1>2, <1>3, <1>6, <1>8, <1>9, <2>2, WorkPlaces
  <2>3. CASE w' = w /\ h' # h
    BY <1>2, <1>5, <1>10, <2>3, HealthPlaces
  <2> QED BY <2>1, <2>2, <2>3
<1> QED BY <1>2, <1>3, <1>4, <1>5, <1>6, <1>7, <1>11, JobChanges

LEMMA CoreStep ==
  ASSUME XrayInv, Next
  PROVE  CoreOK'
<1>0. CoreOK /\ proc \in ProcType(Len(heap)) /\ job \in JobType(Len(heap)) /\ Len(heap) \in Nat
  BY ConfigTypes DEF XrayInv, Shape, XrayTypeOK, ProcType, JobType
<1>a. CASE UNCHANGED <<process, proc, watch, alarmed>>
  <2>1. CASE job' = job
    BY <1>0, <1>a, <2>1 DEF CoreOK
  <2>2. CASE job'.at \notin {"bytes", "spawn", "close"}
    BY <1>0, <1>a, <2>2 DEF CoreOK
  <2>3. CASE StopKill
    BY <1>0, <2>2, <2>3 DEF StopKill, JobType
  <2>4. CASE StopDone
    BY <1>0, <1>a, <2>4 DEF StopDone, CoreOK, Started
  <2>5. CASE Serialise
    BY <1>0, <1>a, <2>5 DEF Serialise, CoreOK
  <2>6. CASE Spawn \/ SpawnFails \/ ShutdownClose
    BY <2>2, <2>6, NoJobType DEF Spawn, SpawnFails, ShutdownClose, Returned
  <2>7. CASE Shutdown \/ NewFails \/ HealthLock \/ ApplyRestart
    <3>1. \E by, obj : job' = [NoJob EXCEPT !.by = by, !.at = "stop", !.obj = obj]
      BY <2>7 DEF Shutdown, NewFails, HealthLock, ApplyRestart, Lock
    <3> QED BY <2>2, <3>1 DEF NoJob
  <2> QED BY <2>1, <2>3, <2>4, <2>5, <2>6, <2>7, JobChanges
<1>1. CASE BecomeReady \/ Crash \/ Reap
  <2>1. UNCHANGED <<process, job>>
    BY <1>1 DEF BecomeReady, Crash, Reap
  <2>2. (proc.alive /\ proc'.reaped = proc.reaped) \/ ~proc'.alive
    BY <1>0, <1>1 DEF BecomeReady, Crash, Reap, ProcType
  <2> QED BY <1>0, <2>1, <2>2 DEF CoreOK
<1>2. CASE \E g \in watch : handleProcessExit(g)
  BY <1>0, <1>2 DEF handleProcessExit, CoreOK
<1>3. CASE StopKill
  BY <1>0, <1>3 DEF StopKill, CoreOK, ProcType, JobType
<1>4. CASE StopDone
  BY <1>0, <1>4 DEF StopDone, CoreOK, Started
<1>5. CASE Spawn
  BY <1>0, <1>5, NoJobType DEF Spawn, CoreOK, Returned
<1>6. CASE RemoveInboundUser \/ AddInboundUser
  <2>1. /\ UNCHANGED <<process, job>>
        /\ \/ proc' = proc
           \/ \E x : proc' = [proc EXCEPT !.clients[w.tag][w.calls[1].email] = x]
    BY <1>6, RemoveDoes, AddDoes
  <2>2. proc'.alive = proc.alive /\ proc'.reaped = proc.reaped
    BY <1>0, <2>1 DEF ProcType
  <2> QED BY <1>0, <2>1, <2>2 DEF CoreOK
<1> QED BY <1>1, <1>2, <1>3, <1>4, <1>5, <1>6, <1>a, CoreChanges

LEMMA AlarmStep ==
  ASSUME XrayInv, Next
  PROVE  AlarmOK'
<1>0. /\ AlarmOK /\ proc \in ProcType(Len(heap)) /\ job \in JobType(Len(heap)) /\ Len(heap) \in Nat
      /\ watch \subseteq [current : BOOLEAN, killed : BOOLEAN]
  BY ConfigTypes DEF XrayInv, Shape, XrayTypeOK, ProcType, JobType
<1>a. CASE UNCHANGED <<process, proc, watch, alarmed>>
  <2>1. CASE job.at = "reap" => job'.at = "reap"
    BY <1>0, <1>a, <2>1 DEF AlarmOK
  <2>2. CASE job' = job
    BY <2>1, <2>2
  <2>3. CASE StopKill
    BY <2>1, <2>3 DEF StopKill
  <2>4. CASE StopDone
    BY <1>0, <1>a, <2>4 DEF StopDone, AlarmOK
  <2>5. CASE Serialise \/ Spawn \/ SpawnFails \/ ShutdownClose
    BY <2>1, <2>5 DEF Serialise, Spawn, SpawnFails, ShutdownClose
  <2>6. CASE Shutdown \/ NewFails \/ HealthLock \/ ApplyRestart
    <3>1. job = NoJob
      BY <2>6 DEF Shutdown, NewFails, HealthLock, ApplyRestart, Lock
    <3> QED BY <2>1, <3>1, NoJobType
  <2> QED BY <2>2, <2>3, <2>4, <2>5, <2>6, JobChanges
<1>1. CASE BecomeReady \/ Crash
  <2>1. proc'.killed = proc.killed /\ UNCHANGED <<process, watch, alarmed, job>>
    BY <1>0, <1>1 DEF BecomeReady, Crash, ProcType
  <2> QED BY <1>0, <2>1 DEF AlarmOK
<1>2. CASE Reap
  <2>1. /\ proc'.killed = proc.killed /\ UNCHANGED <<process, alarmed, job>>
        /\ watch' = watch \cup {[current |-> TRUE, killed |-> proc.killed]}
    BY <1>0, <1>2 DEF Reap, ProcType
  <2> QED BY <1>0, <2>1 DEF AlarmOK
<1>3. CASE \E g \in watch : handleProcessExit(g)
  <2>1. PICK g \in watch : handleProcessExit(g)
    BY <1>3
  <2>2. /\ job.at # "reap" /\ watch' \subseteq watch /\ UNCHANGED <<process, proc, job>>
        /\ alarmed' = (alarmed \/ (~(~process \/ ~g.current) /\ g.killed))
    BY <2>1 DEF handleProcessExit, Expected
  <2>3. ~alarmed'
    BY <1>0, <2>2 DEF AlarmOK
  <2> QED BY <1>0, <2>2, <2>3 DEF AlarmOK
<1>4. CASE StopKill
  BY <1>0, <1>4 DEF StopKill, AlarmOK, JobType
<1>5. CASE StopDone
  BY <1>0, <1>5 DEF StopDone, AlarmOK
<1>6. CASE Spawn
  <2>1. /\ ~proc'.killed /\ alarmed' = alarmed
        /\ watch' = {[g EXCEPT !.current = FALSE] : g \in watch}
    BY <1>6 DEF Spawn
  <2>2. \A g \in watch' : ~g.current
    BY <1>0, <2>1
  <2> QED BY <1>0, <2>1, <2>2 DEF AlarmOK
<1>7. CASE RemoveInboundUser \/ AddInboundUser
  <2>1. /\ UNCHANGED <<process, watch, alarmed, job>>
        /\ \/ proc' = proc
           \/ \E x : proc' = [proc EXCEPT !.clients[w.tag][w.calls[1].email] = x]
    BY <1>7, RemoveDoes, AddDoes
  <2>2. proc'.killed = proc.killed
    BY <1>0, <2>1 DEF ProcType
  <2> QED BY <1>0, <2>1, <2>2 DEF AlarmOK
<1> QED BY <1>1, <1>2, <1>3, <1>4, <1>5, <1>6, <1>7, <1>a, CoreChanges

-----------------------------------------------------------------------------
(* Candidates.                                                             *)

\* Unless an application begins, fails or ends, its objects stay.
LEMMA WorkKept ==
  ASSUME XrayInv, Next
  PROVE  \/ SpawnFails /\ job.by = "w"
         \/ ApplyStatusFails \/ ApplySet
         \/ \E us \in Request : SyncUsers(us) \/ UpdateUsersAndRestart(us)
         \/ w'.op # "apply" /\ w.op # "apply"
         \/ /\ w'.op = "apply" /\ w.op = "apply" /\ w'.cand = w.cand /\ w'.prev = w.prev
            /\ w'.obj = w.obj /\ w'.err = w.err
<1>0. w \in WorkType
  BY DEF XrayInv, Shape, WorkOK
<1>1. CASE w' = w
  BY <1>1
<1>2. CASE \E place : w' = [w EXCEPT !.at = place]
  BY <1>0, <1>2 DEF WorkType
<1>3. CASE Spawn \/ (SpawnFails /\ job.by # "w")
  BY <1>1, <1>2, <1>3 DEF Spawn, SpawnFails, Returned, Goto
<1>4. CASE NewReady \/ NewFails \/ ApplyRestart \/ ApplyReady
  BY <1>2, <1>4 DEF NewReady, NewFails, ApplyRestart, ApplyReady, Goto
<1>5. CASE \E us \in Request : SyncUser(us) \/ UpdateUsers(us)
  BY <1>5, UserOpBegins, IdleType DEF IsUserOp
<1>6. CASE \E i \in w.todo : NextInbound(i)
  BY <1>6, NextInboundDoes, InboundEntered DEF Choosing, IsUserOp
<1>7. CASE RemoveInboundUser \/ SyncUserMemory \/ AddInboundUser
  <2>1. /\ Calling(w)
        /\ \/ \E place : w' = [w EXCEPT !.at = place]
           \/ \E err \in BOOLEAN : w' = Called(w, err)
    BY <1>7, RemoveDoes, MemoryDoes, AddDoes
  <2>2. w'.op = w.op /\ w.op # "apply"
    BY <1>0, <2>1, CalledFields DEF Calling, IsUserOp, WorkType
  <2> QED BY <2>2
<1>8. CASE UserOpReturns
  <2>1. w.at = "next" /\ w' = Idle
    BY <1>8 DEF UserOpReturns, Finish
  <2>2. w.op # "apply"
    BY <2>1 DEF XrayInv, Shape, WorkOK, ApplyPlaces
  <2> QED BY <2>1, <2>2, IdleType
<1> QED BY <1>1, <1>3, <1>4, <1>5, <1>6, <1>7, <1>8, WorkChanges

\* Unless a process is started, the one that runs is the one that ran.
LEMMA ProcessKept ==
  ASSUME XrayInv, Next
  PROVE  Spawn \/ (proc'.alive => proc.alive /\ proc'.obj = proc.obj /\ proc'.by = proc.by)
<1>0. proc \in ProcType(Len(heap))
  BY ConfigTypes DEF XrayInv, Shape, XrayTypeOK, ProcType
<1>1. CASE proc' = proc
  BY <1>1
<1>2. CASE BecomeReady \/ Crash \/ Reap
  BY <1>0, <1>2 DEF BecomeReady, Crash, Reap, ProcType
<1>3. CASE \E g \in watch : handleProcessExit(g)
  BY <1>1, <1>3 DEF handleProcessExit
<1>4. CASE StopKill
  BY <1>0, <1>4 DEF StopKill, ProcType
<1>5. CASE StopDone
  BY <1>1, <1>5 DEF StopDone
<1>6. CASE RemoveInboundUser \/ AddInboundUser
  <2>1. proc' = proc \/ \E x : proc' = [proc EXCEPT !.clients[w.tag][w.calls[1].email] = x]
    BY <1>6, RemoveDoes, AddDoes
  <2> QED BY <1>0, <2>1 DEF ProcType
<1> QED BY <1>1, <1>2, <1>3, <1>4, <1>5, <1>6, CoreChanges

\* The health check holds what it held, nothing, or x.config.
LEMMA HealthKept ==
  ASSUME XrayInv, Next
  PROVE  h'.obj \in {h.obj, 0, config}
<1>0. h \in HealthType(Len(heap))
  BY DEF XrayInv, Shape, XrayTypeOK, HealthType
<1> USE DEF HealthType
<1>1. CASE h' = h
  BY <1>1
<1>2. CASE Spawn \/ SpawnFails
  BY <1>0, <1>2 DEF Spawn, SpawnFails, Returned
<1>3. CASE HealthTop \/ HealthOk
  BY <1>0, <1>3 DEF HealthTop, HealthOk
<1>4. CASE HealthFails
  BY <1>0, <1>4 DEF HealthFails
<1>5. CASE HealthDecide \/ HealthRestart \/ HealthLock \/ NewReady
  BY <1>0, <1>5 DEF HealthDecide, HealthRestart, HealthLock, NewReady
<1> QED BY <1>1, <1>2, <1>3, <1>4, <1>5, HealthChanges

\* Nothing is rejected and x.config stays, unless an application ends.
LEMMA ConfigKept ==
  ASSUME XrayInv, Next
  PROVE  \/ SpawnFails /\ job.by = "w"
         \/ ApplyStatusFails \/ ApplySet
         \/ config' = config /\ rejected' = rejected
<1>1. config' = config \/ ApplySet
  <2>1. CASE \E us \in Request : SyncUsers(us) \/ UpdateUsersAndRestart(us)
    BY <2>1, ApplyBegins
  <2>2. CASE \E i \in w.todo : NextInbound(i)
    BY <2>2, NextInboundDoes
  <2>3. CASE SyncUserMemory
    BY <2>3, MemoryDoes
  <2> QED BY <2>1, <2>2, <2>3, ConfigChanges
<1>2. rejected' = rejected \/ ApplySet \/ ApplyStatusFails \/ (SpawnFails /\ job.by = "w")
  <2>1. CASE Spawn \/ (SpawnFails /\ job.by # "w")
    BY <2>1 DEF Spawn, SpawnFails, Returned, Goto, histVars
  <2>2. CASE UserOpReturns
    <3>1. w.op # "apply" /\ w \in WorkType
      BY <2>2 DEF UserOpReturns, XrayInv, Shape, WorkOK, ApplyPlaces
    <3> QED BY <2>2, <3>1, FinishNotes DEF UserOpReturns
  <2> QED BY <2>1, <2>2, HistoryChanges
<1> QED BY <1>1, <1>2

\* A failed application: the previous configuration is restored, or the
\* candidate is rejected, and then no process runs it.
LEMMA FailedApplication ==
  ASSUME XrayInv, Next, (SpawnFails /\ job.by = "w") \/ ApplyStatusFails
  PROVE  /\ w.op = "apply" /\ UNCHANGED <<heap, config, proc, h, tainted>>
         /\ \/ /\ w.obj = w.cand /\ rejected' = rejected /\ w'.op = "apply" /\ w'.at = "restart"
               /\ w'.cand = w.cand /\ w'.prev = w.prev /\ w'.obj = w.prev /\ w'.err
            \/ /\ w.obj # w.cand /\ rejected' = rejected \cup {w.cand} /\ w' = Idle
               /\ proc.alive => proc.obj # w.cand /\ (proc.by = "w" => proc.obj = w.obj)
<1>0. w \in WorkType
  BY DEF XrayInv, Shape, WorkOK
<1>1. /\ ApplyFails /\ w.at \in {"restarting", "status"}
      /\ UNCHANGED <<heap, config, proc, h>>
      /\ w.at = "status" \/ ~proc.alive
  <2>1. CASE SpawnFails /\ job.by = "w"
    <3>1. ApplyFails /\ UNCHANGED <<heap, config, proc, h>> /\ job.at = "spawn"
      BY <2>1 DEF SpawnFails, Returned, confVars, coreVars
    <3>2. w.at = "restarting" /\ ~proc.alive
      BY <2>1, <3>1 DEF XrayInv, JobOK, CoreOK
    <3> QED BY <3>1, <3>2
  <2>2. CASE ApplyStatusFails
    BY <2>2 DEF ApplyStatusFails, confVars, workRest, coreVars
  <2> QED BY <2>1, <2>2
<1>2. w.op = "apply"
  BY <1>1, ApplyObject DEF ApplyPlaces
<1>3. proc.alive /\ w.obj # w.cand => proc.obj # w.cand /\ (proc.by = "w" => proc.obj = w.obj)
  <2>1. proc.by \in {"w", "h"}
    BY DEF XrayInv, Shape, XrayTypeOK
  <2> QED BY <1>1, <1>2, <2>1 DEF XrayInv, TrialOK
<1>4. CASE w.obj = w.cand /\ w' = [w EXCEPT !.at = "restart", !.obj = w.prev, !.err = TRUE]
  <2>1. /\ w'.op = "apply" /\ w'.cand = w.cand /\ w'.prev = w.prev /\ w'.obj = w.prev /\ w'.err
        /\ w'.at = "restart"
    BY <1>0, <1>2, <1>4 DEF WorkType
  <2> QED BY <1>0, <1>1, <1>2, <1>4, <2>1, ApplicationNotes
<1>5. CASE w.obj # w.cand
  BY <1>0, <1>1, <1>2, <1>3, <1>5, ApplicationNotes
<1> QED BY <1>0, <1>1, <1>2, <1>4, <1>5, ApplicationNotes

\* A successful one: its object is x.config, and a candidate that could not be
\* applied is rejected.
LEMMA EndedApplication ==
  ASSUME XrayInv, ApplySet
  PROVE  /\ w.op = "apply" /\ config' = w.obj /\ w' = Idle /\ job = NoJob
         /\ UNCHANGED <<heap, proc, job, h, tainted>>
         /\ rejected' = IF w.obj # w.cand THEN rejected \cup {w.cand} ELSE rejected
         /\ proc.alive /\ proc.by = "w" => proc.obj = w.obj
         /\ proc.alive /\ proc.by = "h" => proc.obj # w.cand
<1>1. /\ w.at = "set" /\ job = NoJob /\ config' = w.obj /\ Finish(w.err)
      /\ UNCHANGED <<heap, proc, job, h>>
  BY DEF ApplySet, SetConfig, workRest, coreVars
<1>2. w.op = "apply" /\ w \in WorkType
  BY <1>1, ApplyObject DEF ApplyPlaces, XrayInv, Shape, WorkOK
<1>3. w.err <=> w.obj # w.cand
  BY <1>2 DEF XrayInv, CandidateOK
<1>4. w' = Idle /\ tainted' = tainted /\ rejected' = IF w.err THEN rejected \cup {w.cand} ELSE rejected
  BY <1>1, <1>2, FinishNotes
<1>5. /\ proc.alive /\ proc.by = "w" => proc.obj = w.obj
      /\ proc.alive /\ proc.by = "h" => proc.obj # w.cand
  BY <1>1, <1>2 DEF XrayInv, TrialOK
<1> QED BY <1>1, <1>2, <1>3, <1>4, <1>5

\* A process is started by the health check with what it holds, or by an
\* application with its object.
LEMMA SpawnDoes ==
  ASSUME XrayInv, Spawn
  PROVE  /\ UNCHANGED <<heap, config, rejected, tainted>> /\ job.at = "spawn" /\ job' = NoJob
         /\ proc'.alive /\ proc'.obj = job.obj /\ proc'.by = job.by /\ proc'.clients = job.bytes
         /\ \/ job.by = "h" /\ job.obj = h.obj /\ w' = w
            \/ job.by = "w" /\ job.obj = w.obj /\ w.op = "apply" /\ w' = [w EXCEPT !.at = "status"]
<1>1. /\ UNCHANGED <<heap, config, rejected, tainted>> /\ job.at = "spawn" /\ job' = NoJob
      /\ proc'.alive /\ proc'.obj = job.obj /\ proc'.by = job.by /\ proc'.clients = job.bytes
      /\ (job.by = "h" /\ w' = w) \/ (job.by = "w" /\ w' = [w EXCEPT !.at = "status"])
  BY DEF Spawn, Returned, Goto, confVars, histVars
<1>2. job.by = "w" => job.obj = w.obj /\ w.op = "apply"
  BY ApplyObject DEF XrayInv, JobOK, ApplyPlaces
<1>3. job.by = "h" => job.obj = h.obj
  BY DEF XrayInv, JobOK
<1> QED BY <1>1, <1>2, <1>3

LEMMA CandidateStep ==
  ASSUME XrayInv, Next
  PROVE  CandidateOK'
<1>0. /\ CandidateOK /\ rejected \subseteq DOMAIN heap /\ DOMAIN heap = 1..Len(heap)
      /\ Len(heap) \in Nat /\ config \in DOMAIN heap /\ h.obj \in 0..Len(heap)
      /\ h'.obj \in {h.obj, 0, config}
  BY ConfigTypes, HealthKept DEF XrayInv, Shape, XrayTypeOK
<1>a. \A n \in DOMAIN heap : n \in DOMAIN heap'
  BY HeapTypes, ConfigTypes
<1>b. h'.obj \notin rejected /\ (w.op = "apply" => h'.obj # w.cand)
  BY <1>0 DEF CandidateOK
<1>1. CASE (SpawnFails /\ job.by = "w") \/ ApplyStatusFails
  BY <1>0, <1>1, <1>a, FailedApplication, IdleType DEF CandidateOK
<1>2. CASE ApplySet
  <2>1. proc.by \in {"w", "h"}
    BY DEF XrayInv, Shape, XrayTypeOK
  <2> QED BY <1>0, <1>2, <2>1, EndedApplication, IdleType DEF CandidateOK
<1>3. CASE \E us \in Request : SyncUsers(us) \/ UpdateUsersAndRestart(us)
  BY <1>0, <1>3, ApplyBegins, HeapTypes, ConfigTypes DEF CandidateOK
<1>4. CASE /\ config' = config /\ rejected' = rejected
           /\ proc'.alive => proc'.obj \notin rejected
           /\ \/ w'.op # "apply"
              \/ /\ w'.op = "apply" /\ w.op = "apply" /\ w'.cand = w.cand /\ w'.prev = w.prev
                 /\ w'.obj = w.obj /\ w'.err = w.err
  BY <1>0, <1>4, <1>a, <1>b DEF CandidateOK
<1>5. proc'.alive => proc'.obj \notin rejected
  <2>1. CASE Spawn
    BY <1>0, <2>1, SpawnDoes DEF CandidateOK
  <2>2. CASE ~Spawn
    BY <1>0, <2>2, ProcessKept DEF CandidateOK
  <2> QED BY <2>1, <2>2
<1> QED BY <1>1, <1>2, <1>3, <1>4, <1>5, ConfigKept, WorkKept

LEMMA TrialStep ==
  ASSUME XrayInv, Next
  PROVE  TrialOK'
<1>0. /\ TrialOK /\ CandidateOK /\ config \in DOMAIN heap /\ proc.obj \in DOMAIN heap
      /\ Len(heap) + 1 \notin DOMAIN heap
  BY ConfigTypes DEF XrayInv, Shape, XrayTypeOK
<1>1. CASE (SpawnFails /\ job.by = "w") \/ ApplyStatusFails
  BY <1>0, <1>1, FailedApplication, IdleType DEF TrialOK, CandidateOK
<1>2. CASE ApplySet
  BY <1>0, <1>2, EndedApplication, IdleType DEF TrialOK
<1>3. CASE \E us \in Request : SyncUsers(us) \/ UpdateUsersAndRestart(us)
  BY <1>0, <1>3, ApplyBegins, IdleType DEF TrialOK
<1>4. CASE Spawn
  <2>1. w \in WorkType
    BY DEF XrayInv, Shape, WorkOK
  <2>2. CASE job.by = "h" /\ job.obj = h.obj /\ w' = w
    <3>1. w.at # "restarting"
      BY <2>2 DEF XrayInv, JobOK
    <3> QED BY <1>0, <1>4, <2>2, SpawnDoes DEF TrialOK, CandidateOK
  <2>3. CASE job.by = "w" /\ job.obj = w.obj /\ w.op = "apply" /\ w' = [w EXCEPT !.at = "status"]
    <3>1. w'.op = "apply" /\ w'.obj = w.obj /\ w'.cand = w.cand
      BY <2>1, <2>3 DEF WorkType
    <3> QED BY <1>0, <1>4, <2>3, <3>1, SpawnDoes DEF TrialOK, CandidateOK
  <2> QED BY <1>4, <2>2, <2>3, SpawnDoes
<1>5. CASE /\ config' = config
           /\ proc'.alive => proc.alive /\ proc'.obj = proc.obj /\ proc'.by = proc.by
           /\ w'.at \in {"status", "set"} => w.at \in {"status", "set"}
           /\ \/ w'.op # "apply" /\ w.op # "apply"
              \/ /\ w'.op = "apply" /\ w.op = "apply" /\ w'.cand = w.cand /\ w'.prev = w.prev
                 /\ w'.obj = w.obj /\ w'.err = w.err
  <2>1. w'.op # "apply" => w'.at \notin {"status", "set"}
    BY WorkStep DEF WorkOK, ApplyPlaces
  <2> QED BY <1>0, <1>5, <2>1 DEF TrialOK
<1>6. CASE ~Spawn /\ w'.op = "apply" /\ w.op = "apply" /\ ~ApplyStatusFails /\ ~SpawnFails /\ ~ApplySet
  <2>1. w'.at \in {"status", "set"} => w.at \in {"status", "set"}
    <3>1. w \in WorkType
      BY DEF XrayInv, Shape, WorkOK
    <3>2. CASE w' = w
      BY <3>2
    <3>3. CASE ApplyReady
      BY <3>3 DEF ApplyReady
    <3>4. CASE ApplyRestart \/ NewReady \/ NewFails
      <4>1. \E place \in {"restarting", "idle", "gone"} : w' = [w EXCEPT !.at = place]
        BY <3>4 DEF ApplyRestart, NewReady, NewFails, Goto
      <4> QED BY <3>1, <4>1 DEF WorkType
    <3>5. CASE \/ \E us \in Request : SyncUsers(us) \/ UpdateUsersAndRestart(us)
               \/ \E us \in Request : SyncUser(us) \/ UpdateUsers(us)
      BY <1>6, <3>5, ApplyBegins, UserOpBegins, IdleType
    <3>6. CASE \E i \in w.todo : NextInbound(i)
      BY <1>6, <3>6, NextInboundDoes DEF Choosing, IsUserOp
    <3>7. CASE RemoveInboundUser \/ SyncUserMemory \/ AddInboundUser
      BY <1>6, <3>7, RemoveDoes, MemoryDoes, AddDoes DEF Calling, IsUserOp
    <3>8. CASE UserOpReturns
      BY <3>8, IdleType DEF UserOpReturns, Finish
    <3> QED BY <1>6, <3>2, <3>3, <3>4, <3>5, <3>6, <3>7, <3>8, WorkChanges
  <2>2. \/ \E us \in Request : SyncUsers(us) \/ UpdateUsersAndRestart(us)
        \/ /\ w'.op = "apply" /\ w.op = "apply" /\ w'.cand = w.cand /\ w'.prev = w.prev
           /\ w'.obj = w.obj /\ w'.err = w.err
    BY <1>6, WorkKept
  <2> QED BY <1>3, <1>5, <1>6, <2>1, <2>2, ConfigKept, ProcessKept
<1>7. CASE ~Spawn /\ w'.op # "apply" /\ w.op # "apply" /\ ~ApplyStatusFails /\ ~ApplySet
            /\ ~(SpawnFails /\ job.by = "w")
  <2>1. w'.at \notin {"status", "set"}
    BY <1>7, WorkStep DEF WorkOK, ApplyPlaces
  <2> QED BY <1>5, <1>7, <2>1, ConfigKept, ProcessKept
<1>8. CASE SpawnFails /\ job.by # "w"
  <2>1. w' = w /\ config' = config /\ proc' = proc
    BY <1>8 DEF SpawnFails, Returned, confVars, coreVars
  <2> QED BY <1>0, <2>1 DEF TrialOK
<1> QED BY <1>1, <1>2, <1>3, <1>4, <1>6, <1>7, <1>8, WorkKept

-----------------------------------------------------------------------------
(* Accounts.                                                               *)

\* Only Serialise decides what the next process is started with.
LEMMA BytesKept ==
  ASSUME XrayInv, Next
  PROVE  Serialise \/ (job'.at = "spawn" => job' = job)
<1>0. job \in JobType(Len(heap))
  BY DEF XrayInv, Shape, XrayTypeOK, JobType
<1>1. CASE StopKill \/ StopDone
  BY <1>0, <1>1 DEF StopKill, StopDone, AfterStop, JobType
<1>2. CASE Spawn \/ SpawnFails \/ ShutdownClose
  BY <1>2, NoJobType DEF Spawn, SpawnFails, ShutdownClose, Returned
<1>3. CASE Shutdown \/ NewFails \/ HealthLock \/ ApplyRestart
  <2>1. \E by, obj : job' = [NoJob EXCEPT !.by = by, !.at = "stop", !.obj = obj]
    BY <1>3 DEF Shutdown, NewFails, HealthLock, ApplyRestart, Lock
  <2> QED BY <2>1 DEF NoJob
<1> QED BY <1>1, <1>2, <1>3, JobChanges

\* Only starts and API calls change the clients of a process that runs.
LEMMA ClientsKept ==
  ASSUME XrayInv, Next
  PROVE  \/ Spawn \/ RemoveInboundUser \/ AddInboundUser
         \/ proc'.alive => proc.alive /\ proc'.obj = proc.obj /\ proc'.clients = proc.clients
<1>0. proc \in ProcType(Len(heap))
  BY ConfigTypes DEF XrayInv, Shape, XrayTypeOK, ProcType
<1>1. CASE proc' = proc
  BY <1>1
<1>2. CASE BecomeReady \/ Crash \/ Reap
  BY <1>0, <1>2 DEF BecomeReady, Crash, Reap, ProcType
<1>3. CASE \E g \in watch : handleProcessExit(g)
  BY <1>1, <1>3 DEF handleProcessExit
<1>4. CASE StopKill
  BY <1>0, <1>4 DEF StopKill, ProcType
<1>5. CASE StopDone
  BY <1>1, <1>5 DEF StopDone
<1> QED BY <1>1, <1>2, <1>3, <1>4, <1>5, CoreChanges

\* Steps of no user operation, with the same configurations and candidate.
LEMMA ServedQuietly ==
  ASSUME XrayInv, Next, ~Spawn, ~Serialise, ~RemoveInboundUser, ~AddInboundUser,
         UNCHANGED <<heap, config, tainted>>,
         w' = w \/ (~IsUserOp(w) /\ ~IsUserOp(w') /\ w'.at \notin CallPlaces),
         w'.op = "apply" => w.op = "apply" /\ w'.cand = w.cand
  PROVE  ServedOK'
<1>0. ServedOK
  BY DEF XrayInv
<1>1. proc'.alive => proc.alive /\ proc'.obj = proc.obj /\ proc'.clients = proc.clients
  BY ClientsKept
<1>2. job'.at = "spawn" => job' = job
  BY BytesKept
<1>3. CallsOK(heap'[config'], w')
  <2>1. CASE w' = w
    BY <1>0, <2>1 DEF ServedOK
  <2>2. CASE w'.at \notin CallPlaces
    BY <2>2 DEF CallsOK
  <2> QED BY <2>1, <2>2
<1>4. ASSUME NEW cl, Serves(cl, heap[config], w, tainted)
      PROVE  Serves(cl, heap'[config'], w', tainted')
  <2>1. CASE w' = w
    BY <1>4, <2>1
  <2>2. CASE ~IsUserOp(w) /\ ~IsUserOp(w')
    BY <1>4, <2>2, ServesOther
  <2> QED BY <2>1, <2>2
<1>5. proc'.alive /\ proc'.obj = config' => Serves(proc'.clients, heap'[config'], w', tainted')
  <2> SUFFICES ASSUME proc'.alive, proc'.obj = config'
               PROVE  Serves(proc'.clients, heap'[config'], w', tainted')
    OBVIOUS
  <2>1. Serves(proc.clients, heap[config], w, tainted) /\ proc'.clients = proc.clients
    BY <1>0, <1>1 DEF ServedOK
  <2> QED BY <1>4, <2>1
<1>6. job'.at = "spawn" /\ job'.obj = config' => Serves(job'.bytes, heap'[config'], w', tainted')
  <2> SUFFICES ASSUME job'.at = "spawn", job'.obj = config'
               PROVE  Serves(job'.bytes, heap'[config'], w', tainted')
    OBVIOUS
  <2>1. Serves(job.bytes, heap[config], w, tainted) /\ job' = job
    BY <1>0, <1>2 DEF ServedOK
  <2> QED BY <1>4, <2>1
<1>7. w'.op = "apply" /\ proc'.alive /\ proc'.obj = w'.cand =>
        \A i \in Changing : proc'.clients[i] = heap'[w'.cand][i]
  BY <1>0, <1>1 DEF ServedOK
<1>8. w'.op = "apply" /\ job'.at = "spawn" /\ job'.obj = w'.cand =>
        \A i \in Changing : job'.bytes[i] = heap'[w'.cand][i]
  BY <1>0, <1>2 DEF ServedOK
<1> QED BY <1>3, <1>5, <1>6, <1>7, <1>8 DEF ServedOK

\* Steps of a user operation: what they do to the maps and the calls does not
\* depend on which clients are to serve them.
LEMMA ServedByCalls ==
  ASSUME XrayInv, Next, config' = config, job' = job, w'.op # "apply",
         proc'.alive => proc.alive /\ proc'.obj = proc.obj,
         CallsOK(heap'[config], w'),
         proc'.alive /\ Serves(proc.clients, heap[config], w, tainted) =>
           Serves(proc'.clients, heap'[config], w', tainted'),
         ~proc.alive /\ Serves(job.bytes, heap[config], w, tainted) =>
           Serves(job.bytes, heap'[config], w', tainted')
  PROVE  ServedOK'
<1>0. ServedOK
  BY DEF XrayInv
<1>1. job.at = "spawn" => ~proc.alive
  BY DEF XrayInv, CoreOK
<1>2. proc'.alive /\ proc'.obj = config' => Serves(proc'.clients, heap'[config'], w', tainted')
  <2> SUFFICES ASSUME proc'.alive, proc'.obj = config'
               PROVE  Serves(proc'.clients, heap'[config'], w', tainted')
    OBVIOUS
  <2>1. Serves(proc.clients, heap[config], w, tainted)
    BY <1>0 DEF ServedOK
  <2> QED BY <2>1
<1>3. job'.at = "spawn" /\ job'.obj = config' => Serves(job'.bytes, heap'[config'], w', tainted')
  <2> SUFFICES ASSUME job'.at = "spawn", job'.obj = config'
               PROVE  Serves(job'.bytes, heap'[config'], w', tainted')
    OBVIOUS
  <2>1. Serves(job.bytes, heap[config], w, tainted) /\ ~proc.alive
    BY <1>0, <1>1 DEF ServedOK
  <2> QED BY <2>1
<1> QED BY <1>2, <1>3 DEF ServedOK

LEMMA ServedNext ==
  ASSUME XrayInv, Next, NEW i \in w.todo, NextInbound(i)
  PROVE  ServedOK'
<1>1. /\ Choosing(w, i) /\ w' = Entered(w, i)
      /\ heap' = [heap EXCEPT ![config] = EnteredMap(heap[config], w, i)]
      /\ UNCHANGED <<config, proc, job, tainted>>
  BY NextInboundDoes
<1>2. heap[config] \in Clients /\ heap'[config] = EnteredMap(heap[config], w, i)
  BY <1>1, ConfigTypes
<1>3. CallsOK(heap'[config], w')
  BY <1>1, <1>2, CallsEntered
<1>4. \A cl : Serves(cl, heap[config], w, tainted) => Serves(cl, heap'[config], w', tainted)
  BY <1>1, <1>2, ServesEntered
<1>5. w'.op # "apply"
  BY <1>1, InboundEntered DEF Choosing, IsUserOp
<1> QED BY <1>1, <1>3, <1>4, <1>5, ServedByCalls

LEMMA ServedRemove ==
  ASSUME XrayInv, Next, RemoveInboundUser
  PROVE  ServedOK'
<1>1. /\ Calling(w) /\ w.at = "remove"
      /\ \/ proc' = proc
         \/ proc.alive /\ proc' = [proc EXCEPT !.clients[w.tag][w.calls[1].email] = NoCred]
      /\ \/ w.op = "sync" /\ w' = [w EXCEPT !.at = "memory"]
         \/ w.op = "update" /\ w.calls[1].cred # NoCred /\ w' = [w EXCEPT !.at = "add"]
         \/ w.op = "update" /\ w.calls[1].cred = NoCred /\ w' = Called(w, FALSE)
      /\ UNCHANGED <<heap, config, job, tainted>>
  BY RemoveDoes
<1>2. CallsOK(heap[config], w)
  BY DEF XrayInv, ServedOK
<1>3. /\ 1 \in DOMAIN w.calls /\ w.calls[1].email \in Email /\ w.tag \in Changing
      /\ w.tag \in Tag /\ Head(w.calls) = w.calls[1]
  BY <1>1, HeadIsFirst DEF Calling, Changing
<1>4. w.op = "update" /\ w.calls[1].cred = NoCred => heap[config][w.tag][w.calls[1].email] = NoCred
  BY <1>1, <1>2, <1>3 DEF CallsOK, CallPlaces
<1>5. \A cl : \/ Matches(cl, heap[config], w.tag, w.calls[1].email)
              \/ InHand(w, w.calls[1].email)
  <2>1. w.op \in {"sync", "update"}
    BY <1>1
  <2> QED BY <1>3, <1>4, <2>1 DEF Matches, InHand
<1>6. CallsOK(heap[config], w')
  <2>1. CASE w' = Called(w, FALSE)
    BY <1>1, <1>2, <2>1, CallsDone
  <2>2. CASE w.op = "sync" /\ w' = [w EXCEPT !.at = "memory"]
    <3>1. w'.at = "memory" /\ w'.op = w.op /\ w'.us = w.us /\ w'.calls = w.calls
      BY <1>1, <2>2 DEF Calling, WorkType
    <3> QED BY <1>1, <1>2, <2>2, <3>1 DEF CallsOK, CallPlaces
  <2>3. CASE w.op = "update" /\ w' = [w EXCEPT !.at = "add"]
    <3>1. w'.at = "add" /\ w'.op = w.op /\ w'.us = w.us /\ w'.calls = w.calls /\ w'.tag = w.tag
      BY <1>1, <2>3 DEF Calling, WorkType
    <3>2. w.at \in CallPlaces /\ w'.op # "sync"
      BY <1>1, <2>3, <3>1 DEF CallPlaces
    <3> QED BY <1>2, <3>1, <3>2 DEF CallsOK
  <2> QED BY <1>1, <2>1, <2>2, <2>3
<1>7. ASSUME NEW cl, Serves(cl, heap[config], w, tainted)
      PROVE  Serves(cl, heap[config], w', tainted)
  <2>1. CASE w.op = "update" /\ w.calls[1].cred = NoCred /\ w' = Called(w, FALSE)
    <3>1. Matches(cl, heap[config], w.tag, w.calls[1].email)
      BY <1>4, <2>1 DEF Matches
    <3> QED BY <1>1, <1>7, <2>1, <3>1, ServesDone
  <2>2. CASE \E place \in {"memory", "add"} : w' = [w EXCEPT !.at = place]
    <3>1. PICK place \in CallPlaces : w' = [w EXCEPT !.at = place]
      BY <2>2 DEF CallPlaces
    <3> QED BY <1>1, <1>7, <3>1, ServesMove
  <2> QED BY <1>1, <2>1, <2>2
<1>8. ASSUME Serves(proc.clients, heap[config], w, tainted), proc' # proc
      PROVE  Serves(proc'.clients, heap[config], w', tainted)
  <2>1. proc.clients \in Clients
    BY DEF XrayInv, Shape, XrayTypeOK
  <2>2. proc'.clients = [proc.clients EXCEPT ![w.tag][w.calls[1].email] = NoCred]
    <3>1. proc \in ProcType(Len(heap))
      BY ConfigTypes DEF XrayInv, Shape, XrayTypeOK, ProcType
    <3> QED BY <1>1, <1>8, <3>1 DEF ProcType
  <2>3. \A i \in Changing, e \in Email : i # w.tag \/ e # w.calls[1].email =>
          proc'.clients[i][e] = proc.clients[i][e]
    BY <1>3, <2>1, <2>2, ClientsUpdated DEF Changing
  <2>4. Serves(proc'.clients, heap[config], w, tainted)
    BY <1>1, <1>2, <1>5, <1>8, <2>3, ServesCall
  <2> QED BY <1>7, <2>4
<1>9. w'.op # "apply"
  BY <1>1, CallMoves, CallEnds
<1>10. proc'.alive => proc.alive /\ proc'.obj = proc.obj
  BY <1>1, ProcessKept DEF RemoveInboundUser, Spawn
<1> QED BY <1>1, <1>6, <1>7, <1>8, <1>9, <1>10, ServedByCalls


LEMMA ServedMemory ==
  ASSUME XrayInv, Next, SyncUserMemory
  PROVE  ServedOK'
<1>1. /\ Calling(w) /\ w.at = "memory" /\ w.op = "sync"
      /\ heap' = [heap EXCEPT ![config][w.tag][w.calls[1].email] = w.calls[1].cred]
      /\ \/ w.calls[1].cred # NoCred /\ w' = [w EXCEPT !.at = "add"]
         \/ w.calls[1].cred = NoCred /\ w' = Called(w, FALSE)
      /\ UNCHANGED <<config, proc, job, tainted>>
  BY MemoryDoes
<1> DEFINE map == [heap[config] EXCEPT ![w.tag][w.calls[1].email] = w.calls[1].cred]
<1>2. CallsOK(heap[config], w)
  BY DEF XrayInv, ServedOK
<1>3. /\ 1 \in DOMAIN w.calls /\ w.calls[1].email \in Email /\ w.tag \in Changing
      /\ w.tag \in Tag /\ Head(w.calls) = w.calls[1] /\ w.calls[1].cred \in Cred \cup {NoCred}
  BY <1>1, HeadIsFirst DEF Calling, Changing
<1>4. heap[config] \in Clients /\ heap'[config] = map
  BY <1>1, ConfigTypes
<1>5. /\ map[w.tag][w.calls[1].email] = w.calls[1].cred
      /\ \A i \in Changing, e \in Email : i # w.tag \/ e # w.calls[1].email =>
           map[i][e] = heap[config][i][e]
  BY <1>3, <1>4 DEF Clients, Changing
<1> HIDE DEF map
<1>6. InHand(w, w.calls[1].email)
  BY <1>1, <1>3 DEF InHand
<1>7. CallsOK(map, w)
  BY <1>1, <1>2 DEF CallsOK, CallPlaces
<1>8. CallsOK(map, w')
  <2>1. CASE w' = Called(w, FALSE)
    BY <1>1, <1>7, <2>1, CallsDone
  <2>2. CASE w' = [w EXCEPT !.at = "add"]
    <3>1. w'.at = "add" /\ w'.op = w.op /\ w'.us = w.us /\ w'.calls = w.calls /\ w'.tag = w.tag
      BY <1>1, <2>2 DEF Calling, WorkType
    <3> QED BY <1>1, <1>3, <1>5, <1>7, <3>1 DEF CallsOK, CallPlaces
  <2> QED BY <1>1, <2>1, <2>2
<1>9. ASSUME NEW cl, Serves(cl, heap[config], w, tainted)
      PROVE  Serves(cl, map, w', tainted)
  <2>1. Serves(cl, map, w, tainted)
    BY <1>1, <1>2, <1>5, <1>6, <1>9, ServesCall
  <2>2. CASE w.calls[1].cred = NoCred /\ w' = Called(w, FALSE)
    <3>1. Matches(cl, map, w.tag, w.calls[1].email)
      BY <1>5, <2>2 DEF Matches
    <3> QED BY <1>1, <2>1, <2>2, <3>1, ServesDone
  <2>3. CASE w' = [w EXCEPT !.at = "add"]
    <3>1. "add" \in CallPlaces
      BY DEF CallPlaces
    <3> QED BY <1>1, <2>1, <2>3, <3>1, ServesMove
  <2> QED BY <1>1, <2>2, <2>3
<1>10. w'.op # "apply"
  BY <1>1, CallMoves, CallEnds
<1> QED BY <1>1, <1>4, <1>8, <1>9, <1>10, ServedByCalls

LEMMA ServedAdd ==
  ASSUME XrayInv, Next, AddInboundUser
  PROVE  ServedOK'
<1>1. /\ Calling(w) /\ w.at = "add" /\ w.calls[1].cred # NoCred
      /\ \/ /\ proc.alive /\ w' = Called(w, FALSE)
            /\ proc' = [proc EXCEPT !.clients[w.tag][w.calls[1].email] = w.calls[1].cred]
         \/ proc' = proc /\ w' = Called(w, TRUE)
      /\ UNCHANGED <<heap, config, job, tainted>>
  BY AddDoes
<1>2. CallsOK(heap[config], w)
  BY DEF XrayInv, ServedOK
<1>3. /\ 1 \in DOMAIN w.calls /\ w.calls[1].email \in Email /\ w.tag \in Changing
      /\ w.tag \in Tag /\ Head(w.calls) = w.calls[1] /\ w.calls[1].cred \in Cred \cup {NoCred}
  BY <1>1, HeadIsFirst DEF Calling, Changing
<1>4. CallsOK(heap[config], w')
  BY <1>1, <1>2, CallsDone
<1>5. w'.op # "apply"
  BY <1>1, CallEnds DEF Calling, IsUserOp
<1>6. proc'.alive => proc.alive /\ proc'.obj = proc.obj
  BY ProcessKept, <1>1 DEF AddInboundUser, Spawn
<1>7. CASE proc' = proc /\ w' = Called(w, TRUE)
  <2>1. \A cl : Serves(cl, heap[config], w, tainted) => Serves(cl, heap[config], w', tainted)
    BY <1>1, <1>7, ServesDone
  <2> QED BY <1>1, <1>4, <1>5, <1>6, <1>7, <2>1, ServedByCalls
<1>8. CASE /\ proc.alive /\ w' = Called(w, FALSE)
           /\ proc' = [proc EXCEPT !.clients[w.tag][w.calls[1].email] = w.calls[1].cred]
  <2>1. proc.clients \in Clients
    BY DEF XrayInv, Shape, XrayTypeOK
  <2>2. proc'.clients = [proc.clients EXCEPT ![w.tag][w.calls[1].email] = w.calls[1].cred]
    <3>1. proc \in ProcType(Len(heap))
      BY ConfigTypes DEF XrayInv, Shape, XrayTypeOK, ProcType
    <3> QED BY <1>8, <3>1 DEF ProcType
  <2>3. /\ proc'.clients[w.tag][w.calls[1].email] = w.calls[1].cred
        /\ \A i \in Changing, e \in Email : i # w.tag \/ e # w.calls[1].email =>
             proc'.clients[i][e] = proc.clients[i][e]
    BY <1>3, <2>1, <2>2 DEF Clients, Changing
  <2>4. InHand(w, w.calls[1].email)
    BY <1>1, <1>3 DEF InHand
  <2>5. \/ Matches(proc'.clients, heap[config], w.tag, w.calls[1].email)
        \/ InHand(Called(w, FALSE), w.calls[1].email)
    <3>1. CASE w.op = "update"
      BY <1>1, <1>2, <2>3, <3>1, AccountAdded
    <3>2. CASE w.op = "sync"
      <4>1. heap[config][w.tag][w.calls[1].email] = w.calls[1].cred
        BY <1>1, <1>2, <1>3, <3>2 DEF CallsOK, CallPlaces
      <4> QED BY <2>3, <4>1 DEF Matches
    <3> QED BY <1>1, <3>1, <3>2 DEF Calling, IsUserOp
  <2>6. ASSUME Serves(proc.clients, heap[config], w, tainted)
        PROVE  Serves(proc'.clients, heap[config], w', tainted)
    <3>1. Calling(w)
      BY <1>1
    <3>2. Serves(proc'.clients, heap[config], w, tainted)
      BY <1>2, <2>3, <2>4, <2>6, <3>1, ServesCall
    <3> QED BY <1>8, <2>5, <3>1, <3>2, ServesDone
  <2> QED BY <1>1, <1>4, <1>5, <1>6, <1>8, <2>6, ServedByCalls
<1> QED BY <1>1, <1>7, <1>8

LEMMA ServedReturns ==
  ASSUME XrayInv, Next, UserOpReturns
  PROVE  ServedOK'
<1>1. w \in WorkType /\ IsUserOp(w)
  BY DEF XrayInv, Shape, WorkOK, UserOpReturns, IsUserOp, UserPlaces
<1>2. /\ w.at = "next" /\ w.todo = {} /\ Finish(w.err)
      /\ UNCHANGED <<heap, config, proc, job>>
  BY DEF UserOpReturns, confVars, workRest, coreVars
<1>3. /\ w' = Idle
      /\ tainted' = IF w.err THEN tainted \cup EmailsOf(w.us) ELSE tainted \ EmailsOf(w.us)
  BY <1>1, <1>2, FinishNotes DEF IsUserOp
<1>4. ~IsUserOp(w') /\ w'.op # "apply" /\ w'.at = "idle"
  BY <1>3, IdleType
<1>5. CallsOK(heap'[config], w')
  BY <1>4 DEF CallsOK, CallPlaces
<1>6. \A cl : Serves(cl, heap[config], w, tainted) => Serves(cl, heap'[config], w', tainted')
  BY <1>1, <1>2, <1>3, <1>4, ServesReturned
<1> QED BY <1>2, <1>4, <1>5, <1>6, ServedByCalls

LEMMA ServedBegins ==
  ASSUME XrayInv, Next, NEW us \in Request, SyncUser(us) \/ UpdateUsers(us)
  PROVE  ServedOK'
<1>1. /\ w = Idle /\ w'.at = "next" /\ IsUserOp(w') /\ w'.todo = Changing
      /\ UNCHANGED <<heap, config, proc, job, tainted>>
  BY UserOpBegins
<1>2. CallsOK(heap'[config], w')
  BY <1>1 DEF CallsOK, CallPlaces
<1>3. \A cl : Serves(cl, heap[config], w, tainted) => Serves(cl, heap'[config], w', tainted')
  BY <1>1, IdleType, ServesBegun
<1>4. w'.op # "apply"
  BY <1>1 DEF IsUserOp
<1> QED BY <1>1, <1>2, <1>3, <1>4, ServedByCalls

\* An application begins: nothing runs or will run its new candidate.
LEMMA ServedApplies ==
  ASSUME XrayInv, Next, NEW us \in Request, SyncUsers(us) \/ UpdateUsersAndRestart(us)
  PROVE  ServedOK'
<1>0. ServedOK /\ proc.obj \in DOMAIN heap
  BY DEF XrayInv, Shape, XrayTypeOK
<1>1. /\ w = Idle /\ heap'[config] = heap[config] /\ UNCHANGED <<config, proc, job, tainted>>
      /\ w'.at = "restart" /\ w'.op = "apply" /\ w'.cand = Len(heap) + 1
  BY ApplyBegins, ConfigTypes
<1>2. CallsOK(heap'[config'], w') /\ ~IsUserOp(w')
  BY <1>1 DEF CallsOK, CallPlaces, IsUserOp
<1>3. \A cl : Serves(cl, heap[config], w, tainted) => Serves(cl, heap'[config'], w', tainted')
  BY <1>1, <1>2, IdleType, ServesOther
<1>4. w'.cand \notin DOMAIN heap
  BY <1>1, ConfigTypes
<1>5. job'.at = "spawn" => job'.obj \in DOMAIN heap
  BY <1>1, JobObject
<1>6. proc'.alive /\ proc'.obj = config' => Serves(proc'.clients, heap'[config'], w', tainted')
  <2> SUFFICES ASSUME proc'.alive, proc'.obj = config'
               PROVE  Serves(proc'.clients, heap'[config'], w', tainted')
    OBVIOUS
  <2>1. Serves(proc.clients, heap[config], w, tainted)
    BY <1>0, <1>1 DEF ServedOK
  <2> QED BY <1>1, <1>3, <2>1
<1>7. job'.at = "spawn" /\ job'.obj = config' => Serves(job'.bytes, heap'[config'], w', tainted')
  <2> SUFFICES ASSUME job'.at = "spawn", job'.obj = config'
               PROVE  Serves(job'.bytes, heap'[config'], w', tainted')
    OBVIOUS
  <2>1. Serves(job.bytes, heap[config], w, tainted)
    BY <1>0, <1>1 DEF ServedOK
  <2> QED BY <1>1, <1>3, <2>1
<1>8. proc'.obj # w'.cand /\ (job'.at = "spawn" => job'.obj # w'.cand)
  BY <1>0, <1>1, <1>4, <1>5
<1> QED BY <1>2, <1>6, <1>7, <1>8 DEF ServedOK

\* A process starts with the bytes that serve its configuration.
LEMMA ServedSpawn ==
  ASSUME XrayInv, Next, Spawn
  PROVE  ServedOK'
<1>0. ServedOK /\ w \in WorkType
  BY DEF XrayInv, Shape, WorkOK
<1>1. /\ UNCHANGED <<heap, config, tainted>> /\ job.at = "spawn" /\ job'.at = "free"
      /\ proc'.obj = job.obj /\ proc'.clients = job.bytes
      /\ \/ w' = w
         \/ w.op = "apply" /\ w' = [w EXCEPT !.at = "status"]
  BY SpawnDoes, NoJobType
<1>2. \/ w' = w
      \/ w.op = "apply" /\ w'.op = "apply" /\ w'.cand = w.cand /\ w'.at = "status"
  BY <1>0, <1>1 DEF WorkType
<1>3. \/ w' = w
      \/ /\ ~IsUserOp(w) /\ ~IsUserOp(w') /\ w'.at \notin CallPlaces
         /\ w'.op = w.op /\ w'.cand = w.cand
  BY <1>2 DEF IsUserOp, CallPlaces
<1>4. CallsOK(heap'[config'], w')
  <2>1. CASE w' = w
    BY <1>0, <1>1, <2>1 DEF ServedOK
  <2>2. CASE w'.at \notin CallPlaces
    BY <2>2 DEF CallsOK
  <2> QED BY <1>3, <2>1, <2>2
<1>5. \A cl : Serves(cl, heap[config], w, tainted) => Serves(cl, heap'[config'], w', tainted')
  BY <1>1, <1>3, ServesOther
<1>6. proc'.obj = config' => Serves(proc'.clients, heap'[config'], w', tainted')
  BY <1>0, <1>1, <1>5 DEF ServedOK
<1>7. w'.op = "apply" /\ proc'.obj = w'.cand =>
        \A i \in Changing : proc'.clients[i] = heap'[w'.cand][i]
  <2>1. w'.op = w.op /\ w'.cand = w.cand
    BY <1>3
  <2> QED BY <1>0, <1>1, <2>1 DEF ServedOK
<1> QED BY <1>1, <1>4, <1>6, <1>7 DEF ServedOK

\* The bytes are the maps of the object as they are now.
LEMMA ServedSerialise ==
  ASSUME XrayInv, Next, Serialise
  PROVE  ServedOK'
<1>0. ServedOK /\ job \in JobType(Len(heap))
  BY DEF XrayInv, Shape, XrayTypeOK, JobType
<1>1. /\ job.at = "bytes" /\ job' = [job EXCEPT !.at = "spawn", !.bytes = ToBytes(heap[job.obj])]
      /\ UNCHANGED <<heap, config, proc, w, tainted>>
  BY DEF Serialise, confVars, coreVars, histVars
<1>2. job'.obj = job.obj /\ job'.bytes = ToBytes(heap[job.obj]) /\ job.obj \in DOMAIN heap
  BY <1>0, <1>1, JobObject DEF JobType
<1>3. heap[job.obj] \in Clients
  BY <1>2, ConfigTypes
<1>4. \A i \in Changing : job'.bytes[i] = heap[job.obj][i]
  <2>1. <<>> \in Seq(UserRec)
    OBVIOUS
  <2>2. \A i \in Changing : ToBytes(heap[job.obj])[i] = heap[job.obj][i]
    BY <1>3, <2>1, MapsOfConfig
  <2> QED BY <1>2, <2>2
<1>5. w.tag \in Changing \/ w.at = "next" \/ ~IsUserOp(w)
  BY DEF XrayInv, Shape, WorkOK, IsUserOp, UserPlaces
<1>6. job.obj = config => Serves(job'.bytes, heap[config], w, tainted)
  BY <1>4, <1>5, ServesSame
<1> QED BY <1>0, <1>1, <1>2, <1>4, <1>6 DEF ServedOK

\* An application ends: the candidate that becomes x.config is what it was
\* tried as, and the restored configuration never was anything else.
LEMMA ServedEnded ==
  ASSUME XrayInv, Next, ApplySet
  PROVE  ServedOK'
<1>0. ServedOK /\ CandidateOK
  BY DEF XrayInv
<1>1. /\ w.op = "apply" /\ config' = w.obj /\ w' = Idle /\ job'.at = "free"
      /\ UNCHANGED <<heap, proc, tainted>>
  BY EndedApplication, NoJobType
<1>2. w.obj \in {w.cand, config}
  BY <1>0, <1>1 DEF CandidateOK
<1>3. ~IsUserOp(w) /\ ~IsUserOp(w') /\ w'.op = "none" /\ w'.at = "idle"
  BY <1>1, IdleType DEF IsUserOp
<1>4. CallsOK(heap'[config'], w')
  BY <1>3 DEF CallsOK, CallPlaces
<1>5. ASSUME proc.alive, proc.obj = w.obj
      PROVE  Serves(proc.clients, heap[w.obj], w', tainted)
  <2>1. CASE w.obj = config
    <3>1. Serves(proc.clients, heap[config], w, tainted)
      BY <1>0, <1>5, <2>1 DEF ServedOK
    <3> QED BY <1>3, <2>1, <3>1, ServesOther
  <2>2. CASE w.obj = w.cand
    <3>1. \A i \in Changing : proc.clients[i] = heap[w.obj][i]
      BY <1>0, <1>1, <1>5, <2>2 DEF ServedOK
    <3> QED BY <1>3, <3>1, ServesSame
  <2> QED BY <1>2, <2>1, <2>2
<1> QED BY <1>1, <1>3, <1>4, <1>5 DEF ServedOK

LEMMA ServedFailed ==
  ASSUME XrayInv, Next, (SpawnFails /\ job.by = "w") \/ ApplyStatusFails
  PROVE  ServedOK'
<1>1. /\ w.op = "apply" /\ UNCHANGED <<heap, config, proc, tainted>>
      /\ (w'.op = "apply" /\ w'.at = "restart" /\ w'.cand = w.cand) \/ w' = Idle
  BY FailedApplication
<1>2. /\ ~IsUserOp(w) /\ ~IsUserOp(w') /\ w'.at \notin CallPlaces
      /\ w'.op = "apply" => w'.cand = w.cand
  BY <1>1, IdleType DEF IsUserOp, CallPlaces
<1>3. proc' = proc /\ w' # w
  <2>1. w.at \in {"restarting", "status"}
    BY DEF XrayInv, JobOK, ApplyStatusFails
  <2> QED BY <1>1, <2>1, IdleType
<1>4. ~Spawn /\ ~Serialise /\ ~RemoveInboundUser /\ ~AddInboundUser
  <2>1. ~RemoveInboundUser /\ ~AddInboundUser
    BY <1>2, RemoveDoes, AddDoes DEF Calling
  <2>2. ~Serialise
    BY <1>3 DEF Serialise
  <2>3. ~Spawn
    <3>1. CASE ApplyStatusFails
      BY <3>1, SpawnDoes, NoJobType, <1>3 DEF ApplyStatusFails, XrayInv, JobOK
    <3>2. CASE SpawnFails
      BY <3>2, <1>1, <1>3, SpawnDoes DEF SpawnFails, coreVars, XrayInv, CoreOK
    <3> QED BY <3>1, <3>2
  <2> QED BY <2>1, <2>2, <2>3
<1> QED BY <1>1, <1>2, <1>4, ServedQuietly

\* A step that none of the lemmas above is about leaves the configurations,
\* the tainted emails and the calls alone.
LEMMA ServedElse ==
  ASSUME XrayInv, Next, ~Spawn, ~Serialise, ~RemoveInboundUser, ~AddInboundUser,
         ~SyncUserMemory, ~UserOpReturns, ~ApplySet, ~ApplyStatusFails,
         ~(SpawnFails /\ job.by = "w"), ~(\E i \in w.todo : NextInbound(i)),
         ~(\E us \in Request : SyncUsers(us) \/ UpdateUsersAndRestart(us)),
         ~(\E us \in Request : SyncUser(us) \/ UpdateUsers(us))
  PROVE  ServedOK'
<1>0. w \in WorkType /\ WorkOK
  BY DEF XrayInv, Shape, WorkOK
<1>1. UNCHANGED <<heap, config>>
  BY ConfigChanges
<1>2. CASE SpawnFails
  <2>1. w' = w /\ tainted' = tainted
    BY <1>2 DEF SpawnFails, Returned, histVars
  <2> QED BY <1>1, <2>1, ServedQuietly
<1>3. CASE ~SpawnFails
  <2>1. tainted' = tainted
    BY <1>3, HistoryChanges
  <2>2. CASE NewReady \/ NewFails
    <3>1. w.at = "new" /\ \E place \in {"idle", "gone"} : w' = [w EXCEPT !.at = place]
      BY <2>2 DEF NewReady, NewFails, Goto
    <3>2. w'.op = "none" /\ w.op = "none" /\ w'.at \in {"idle", "gone"}
      BY <1>0, <3>1 DEF WorkOK, Idle
    <3> QED BY <1>1, <2>1, <3>2, ServedQuietly DEF IsUserOp, CallPlaces
  <2>3. CASE ApplyRestart \/ ApplyReady
    <3>1. /\ w.at \in ApplyPlaces
          /\ \E place \in {"restarting", "set"} : w' = [w EXCEPT !.at = place]
      BY <2>3 DEF ApplyRestart, ApplyReady, Goto, ApplyPlaces
    <3>2. w.op = "apply"
      BY <1>0, <3>1 DEF WorkOK
    <3>3. w'.op = "apply" /\ w'.cand = w.cand /\ w'.at \in {"restarting", "set"}
      BY <1>0, <3>1, <3>2 DEF WorkType
    <3> QED BY <1>1, <2>1, <3>2, <3>3, ServedQuietly DEF IsUserOp, CallPlaces
  <2>4. CASE w' = w
    BY <1>1, <2>1, <2>4, ServedQuietly
  <2> QED BY <1>3, <2>2, <2>3, <2>4, WorkChanges
<1> QED BY <1>2, <1>3

LEMMA ServedStep ==
  ASSUME XrayInv, Next
  PROVE  ServedOK'
<1>1. CASE Spawn \/ Serialise \/ ApplySet
  BY <1>1, ServedSpawn, ServedSerialise, ServedEnded
<1>2. CASE RemoveInboundUser \/ SyncUserMemory \/ AddInboundUser \/ UserOpReturns
  BY <1>2, ServedRemove, ServedMemory, ServedAdd, ServedReturns
<1>3. CASE (SpawnFails /\ job.by = "w") \/ ApplyStatusFails
  BY <1>3, ServedFailed
<1>4. CASE \E i \in w.todo : NextInbound(i)
  BY <1>4, ServedNext
<1>5. CASE \E us \in Request : SyncUsers(us) \/ UpdateUsersAndRestart(us)
  BY <1>5, ServedApplies
<1>6. CASE \E us \in Request : SyncUser(us) \/ UpdateUsers(us)
  BY <1>6, ServedBegins
<1> QED BY <1>1, <1>2, <1>3, <1>4, <1>5, <1>6, ServedElse

-----------------------------------------------------------------------------
(* The invariant.                                                          *)

\* New has started the process with the configuration of the request.
LEMMA XrayBegins ==
  ASSUME Init
  PROVE  XrayInv
<1>1. PICK us \in Request : heap = <<syncUsers(NoClients, us)>>
  BY DEF Init
<1>2. us \in Seq(UserRec)
  BY AssumptionTypes
<1>3. NoClients \in Clients
  BY XrayConfigAssumption DEF NoClients, Clients
<1>4. syncUsers(NoClients, us) \in Clients
  BY <1>2, <1>3, MapsOfConfig
<1> DEFINE c == syncUsers(NoClients, us)
<1> HIDE DEF c
<1>5. heap = <<c>> /\ c \in Clients
  BY <1>1, <1>4 DEF c
<1>6. heap \in Seq(Clients) /\ Len(heap) = 1 /\ DOMAIN heap = {1} /\ heap[1] = c
  BY <1>5
<1>7. ToBytes(c) \in Clients /\ \A i \in Changing : ToBytes(c)[i] = c[i]
  BY <1>2, <1>5, MapsOfConfig
<1>8. w = [Idle EXCEPT !.at = "new"] /\ w \in WorkType
  BY IdleType DEF Init, WorkType, Place
<1>9. /\ w.at = "new" /\ w.op = "none" /\ ~w.err /\ w.obj = 0 /\ w.cand = 0 /\ w.prev = 0
      /\ ~IsUserOp(w)
  BY <1>8 DEF Idle, IsUserOp
<1>10. WorkOK
  BY <1>8, <1>9 DEF WorkOK, ApplyPlaces, UserPlaces, CallPlaces
<1>11. /\ proc.alive /\ ~proc.reaped /\ ~proc.ready /\ ~proc.killed /\ proc.obj = 1
       /\ proc.by = "w" /\ proc.clients = ToBytes(c)
       /\ proc \in [killed : BOOLEAN, alive : BOOLEAN, reaped : BOOLEAN, ready : BOOLEAN,
                    obj : {1}, by : {"w", "h"}, clients : Clients]
  BY <1>6, <1>7 DEF Init
<1>12. job = NoJob /\ job \in JobType(1)
  BY NoJobType DEF Init
<1>13. h \in HealthType(1) /\ h.at = "off" /\ h.obj = 0
  BY AssumptionTypes DEF Init, HealthType
<1>14. Shape
  <2>1. ops = 0 /\ faults = 0 /\ MaxOps \in Nat /\ MaxFaults \in Nat
    BY AssumptionTypes DEF Init
  <2>2. ops \in 0..MaxOps /\ faults \in 0..MaxFaults /\ Len(heap) <= MaxOps + 1
        /\ Len(heap) <= ops + 1
    BY <1>6, <2>1
  <2>3. {w.obj, w.cand, w.prev} \subseteq 0..Len(heap)
    BY <1>6, <1>9
  <2>4. w.at \in Place /\ w.err \in BOOLEAN
    BY <1>8 DEF WorkType
  <2>5. /\ process \in BOOLEAN /\ config \in DOMAIN heap /\ alarmed \in BOOLEAN
        /\ watch \subseteq [current : BOOLEAN, killed : BOOLEAN]
        /\ ctxDone \in BOOLEAN /\ closed \in BOOLEAN
        /\ rejected \subseteq DOMAIN heap /\ tainted \subseteq Email
    BY <1>6 DEF Init
  <2>6. /\ job \in [by : {"nobody", "w", "h", "s"},
                    at : {"free", "stop", "reap", "bytes", "spawn", "close"},
                    obj : 0..Len(heap), bytes : Clients]
        /\ h \in [at : {"off", "loop", "call", "failed", "restart", "lock", "restarting"},
                  fails : 0..MaxFailures, obj : 0..Len(heap)]
    BY <1>6, <1>12, <1>13 DEF JobType, HealthType
  <2> QED BY <1>6, <1>10, <1>11, <2>2, <2>3, <2>4, <2>5, <2>6 DEF Shape, XrayTypeOK
<1>15. JobOK
  BY <1>9, <1>12, <1>13, NoJobType DEF JobOK
<1>16. CoreOK /\ AlarmOK
  BY <1>11, <1>12, NoJobType DEF CoreOK, AlarmOK, Init
<1>17. CandidateOK /\ TrialOK
  BY <1>9, <1>11, <1>13 DEF CandidateOK, TrialOK, Init
<1>18. ServedOK
  <2>1. config = 1 /\ heap[config] = c
    BY <1>6 DEF Init
  <2>2. CallsOK(heap[config], w)
    BY <1>9 DEF CallsOK, CallPlaces
  <2>3. Serves(proc.clients, heap[config], w, tainted)
    BY <1>7, <1>9, <1>11, <2>1, ServesSame
  <2> QED BY <1>9, <1>12, <2>2, <2>3, NoJobType DEF ServedOK
<1> QED BY <1>14, <1>15, <1>16, <1>17, <1>18 DEF XrayInv

\* Nothing changes: neither does the invariant.
LEMMA XrayStutters ==
  ASSUME XrayInv, UNCHANGED vars
  PROVE  XrayInv'
<1>1. /\ heap' = heap /\ config' = config /\ process' = process /\ proc' = proc
      /\ watch' = watch /\ alarmed' = alarmed /\ job' = job /\ h' = h /\ w' = w
      /\ ctxDone' = ctxDone /\ closed' = closed /\ ops' = ops /\ faults' = faults
      /\ rejected' = rejected /\ tainted' = tainted
  BY DEF vars, confVars, coreVars, stopVars, histVars
<1>2. Shape' /\ JobOK' /\ CoreOK'
  BY <1>1 DEF XrayInv, Shape, XrayTypeOK, WorkOK, JobOK, CoreOK
<1>3. AlarmOK' /\ CandidateOK' /\ TrialOK'
  BY <1>1 DEF XrayInv, AlarmOK, CandidateOK, TrialOK
<1>4. ServedOK'
  BY <1>1 DEF XrayInv, ServedOK
<1> QED BY <1>2, <1>3, <1>4 DEF XrayInv

\* The inductive invariant of the backend.
THEOREM XrayInvariant == Spec => []XrayInv
<1>1. Init => XrayInv
  BY XrayBegins
<1>2. XrayInv /\ [Next]_vars => XrayInv'
  <2>1. ASSUME XrayInv, Next PROVE XrayInv'
    BY <2>1, ShapeStep, JobStep, CoreStep, AlarmStep, CandidateStep, TrialStep, ServedStep
       DEF XrayInv
  <2> QED BY <2>1, XrayStutters
<1> QED BY <1>1, <1>2, PTL DEF Spec

\* The fields of Xray and Core (xray.go:15-24, core.go:21-44) and the locals of
\* the operation, of checkXrayHealth and of the holder of x.mu keep their
\* types: every object named by x.config, by a restart that waits for x.mu or
\* by a process exists, and there is at most one for each operation.
THEOREM XrayTypes == Spec => []XrayTypeOK
<1>1. XrayInv => XrayTypeOK
  BY DEF XrayInv, Shape
<1> QED BY <1>1, XrayInvariant, PTL

\* handleProcessExit (core.go:271-290) reports no exit that the node caused,
\* for any number of watchers that run late.
THEOREM AlarmsAreReal == Spec => []NoFalseAlarm
<1>1. XrayInv => NoFalseAlarm
  BY DEF XrayInv, AlarmOK, NoFalseAlarm
<1> QED BY <1>1, XrayInvariant, PTL

\* A candidate that applyConfigWithRestart (user.go:176-215) gave up runs in no
\* process after it, for any interleaving with the health check's restarts.
THEOREM RejectedStaysOut == Spec => []RejectedNeverServed
<1>1. XrayInv => RejectedNeverServed
  BY DEF XrayInv, CandidateOK, RejectedNeverServed
<1> QED BY <1>1, XrayInvariant, PTL

\* Between operations a process that applyConfigWithRestart or New started
\* (user.go:176-215, xray.go:26-105) runs x.config; only checkXrayHealth can
\* have left another one (jobs.go:85-137).
THEOREM DriftIsTheHealthChecks == Spec => []DriftOnlyByHealth
<1>1. ASSUME XrayInv, Quiet, proc.alive PROVE proc.obj = config \/ proc.by = "h"
  <2>1. w = Idle /\ TrialOK /\ proc.by \in {"w", "h"}
    BY <1>1 DEF XrayInv, Shape, XrayTypeOK, WorkOK, Quiet
  <2>2. w.op # "apply"
    BY <2>1, IdleType
  <2> QED BY <1>1, <2>1, <2>2 DEF TrialOK
<1>2. XrayInv => DriftOnlyByHealth
  BY <1>1 DEF DriftOnlyByHealth
<1> QED BY <1>2, XrayInvariant, PTL

\* What SyncUser and UpdateUsers (user.go:122-161, 217-252) put into the map
\* and acknowledged, the process of x.config serves: for any users, inbounds
\* and failed calls, and although a restart may serialise the map between the
\* change of the map and the calls of the API.
THEOREM AcknowledgedIsServed == Spec => []AckedAccountsServed
<1>1. ASSUME XrayInv, Quiet, proc.alive, proc.obj = config,
             NEW i \in Tag \ Excluded, NEW e \in Email \ tainted, heap[config][i][e] # NoCred
      PROVE  proc.clients[i][e] = heap[config][i][e]
  <2>1. w = Idle /\ Serves(proc.clients, heap[config], w, tainted)
    BY <1>1 DEF XrayInv, Shape, WorkOK, Quiet, ServedOK
  <2>2. ~IsUserOp(w)
    BY <2>1, IdleType
  <2>3. Matches(proc.clients, heap[config], i, e)
    BY <2>1, <2>2 DEF Serves, Changing
  <2> QED BY <1>1, <2>3 DEF Matches
<1>2. XrayInv => AckedAccountsServed
  BY <1>1 DEF AckedAccountsServed
<1> QED BY <1>2, XrayInvariant, PTL
=============================================================================
