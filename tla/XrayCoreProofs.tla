---------------------------- MODULE XrayCoreProofs ----------------------------
(***************************************************************************)
(* What the node promises about its Xray processes and their output, for   *)
(* any number of processes, lines and mishaps and rings of any size: only  *)
(* its own processes are signalled and every other one it has is, a        *)
(* process that was stopped adds one line at most, a startup failure is    *)
(* seen by the operation that waits for the start, and a tail of a ring is *)
(* the last lines it was given.                                            *)
(*                                                                         *)
(* Every theorem has a part of the invariant that carries it; the parts    *)
(* rest on Shape and on ProcessOK, and not on each other.                  *)
(*                                                                         *)
(* The second half is about the configuration that a process starts from,  *)
(* for every configuration that the panel may send: what ApplyAPI makes of *)
(* it keeps the panel's parts, can start, and is not changed by a second   *)
(* ApplyAPI.                                                               *)
(***************************************************************************)
EXTENDS XrayCore, XrayApi, FiniteSetTheorems, SequenceTheorems, WellFoundedInduction, TLAPS

AnyLine == Lines \cup {NoLine}

\* CoreTypeOK, and the types of the history variables.
Shape ==
    /\ CoreTypeOK
    /\ lines \in Nat /\ mishaps \in Nat
    /\ startupSaid \in Seq(AnyLine) /\ runtimeSaid \in Seq(AnyLine)
    /\ swept \in BOOLEAN /\ stolen \in BOOLEAN
    /\ saidFatal \subseteq Pids /\ late \in [Pids -> Nat]

StartPlaces == {"start", "list", "kill", "sockets", "spawn"}

\* The process of the core is one of this node's and not cancelled, there is
\* none while Start prepares the next, and what was ever said of a process is
\* said of one that was started.
ProcessOK ==
    /\ process # 0 => /\ process \in Children /\ procs[process].st # "none"
                      /\ process \notin cancelled
    /\ job.at \in StartPlaces => process = 0
    /\ job.at = "reap" => process # 0
    /\ job.at # "kill" => job.todo = {}
    /\ node = "node1" => \A p \in Pids : procs[p].parent # "node2"
    /\ \A p \in Pids : procs[p].st = "none" =>
         /\ p \notin cancelled /\ p \notin saidFatal /\ late[p] = 0
         /\ writer[<<"capture", p>>].at = "off"

\* A process of a node has a process group of its own (Setpgid), which is not
\* that of the other node's Xray.
GroupsOK ==
    \A p \in Pids : procs[p].st # "none" =>
        IF p = 1 THEN procs[p].group \in {0, 1} /\ procs[p].parent = "other" ELSE procs[p].group = p

\* Every process that cleanupOrphanedProcesses is about to signal is a child of
\* this node; and once the list was made, a child that runs is on it or has been
\* signalled.
KillOK ==
    /\ job.todo \subseteq Children
    /\ job.at = "kill" =>
         \A p \in Children : procs[p].st = "run" => procs[p].doomed \/ p \in job.todo
    /\ swept /\ job.at \in {"sockets", "spawn"} =>
         \A p \in Children : procs[p].st = "run" => procs[p].doomed
    /\ swept /\ process # 0 =>
         \A p \in Children : procs[p].st = "run" /\ p # process => procs[p].doomed

\* After its late line, the capture of a process looks at its context, which
\* was cancelled, before it records another.
LateOK ==
    \A p \in Pids : late[p] # 0 =>
        /\ late[p] = 1 /\ writer[<<"capture", p>>].at \in {"scan", "off"}
        /\ writer[<<"capture", p>>].at = "scan" => p \in cancelled

\* Startup diagnostics are on from the start of a process an operation waits
\* for until that operation has seen it answer.
DiagnosticsOK ==
    /\ job.by = "op" /\ job.at # "free" => check = "none"
    /\ job.at \in {"list", "kill", "sockets", "spawn"} /\ (job.by = "op" \/ check = "wait") =>
         phase = "startup" /\ enabled
    /\ check = "wait" /\ process # 0 => phase = "startup" /\ enabled

\* The line that says why a process failed to start is in its pipe, or with its
\* capture on the way to the record, or on record.
FailureOK ==
    check = "wait" /\ process # 0 =>
        /\ writer[<<"capture", process>>].at # "runtime"
        /\ process \in saidFatal /\ procs[process].st = "run" =>
             \/ failure # NoLine
             \/ \E k \in 1..Len(pipe[process]) : pipe[process][k].fatal
             \/ /\ writer[<<"capture", process>>].at \in {"phase", "startup"}
                /\ writer[<<"capture", process>>].line.fatal

\* A ring of size s holds the last s lines it was given, the last one just
\* before next.
RingOK(r, said, size) ==
    /\ r.full <=> Len(said) >= size
    /\ ~r.full => r.next = Len(said)
    /\ \A i \in 1..size : i <= Len(said) =>
         said[Len(said) - i + 1] = r.lines[IF i <= r.next THEN r.next - i ELSE r.next - i + size]

RingsOK == RingOK(startup, startupSaid, RingSize) /\ RingOK(runtime, runtimeSaid, RuntimeSize)

CoreInv == Shape /\ ProcessOK /\ GroupsOK /\ KillOK /\ LateOK /\ DiagnosticsOK /\ FailureOK /\ RingsOK

--------------------------------------------------------------------------------
(* The ring                                                                *)

\* The remainder of what is less than twice the divisor.
LEMMA ModOnce ==
  ASSUME NEW s \in Nat, s > 0, NEW x \in Nat, x < 2 * s
  PROVE  x % s = IF x < s THEN x ELSE x - s
<1>1. CASE x < s
  BY <1>1
<1>2. CASE x >= s
  BY <1>2
<1> QED  BY <1>1, <1>2

LEMMA RingDomain ==
  ASSUME NEW s \in Nat \ {0}, NEW r \in Rings(s)
  PROVE  DOMAIN r.lines = 0..(s - 1) /\ Cardinality(DOMAIN r.lines) = s
<1>1. DOMAIN r.lines = 0..(s - 1)
  BY DEF Rings
<1>2. Cardinality(0..(s - 1)) = s
  BY FS_Interval
<1> QED  BY <1>1, <1>2

\* A new ring is one that was given nothing.
LEMMA NewRing ==
  ASSUME NEW s \in Nat \ {0}
  PROVE  newStartupLogRing(s) \in Rings(s) /\ RingOK(newStartupLogRing(s), <<>>, s)
BY DEF newStartupLogRing, Rings, AnyLine, RingOK

\* add keeps the ring what it was given, the new line the last.
LEMMA AddToRing ==
  ASSUME NEW s \in Nat \ {0}, NEW r \in Rings(s), NEW said \in Seq(AnyLine), NEW line \in AnyLine
  PROVE  /\ add(r, line) \in Rings(s)
         /\ RingOK(r, said, s) => RingOK(add(r, line), Append(said, line), s)
<1> DEFINE n == IF r.next + 1 = s THEN 0 ELSE r.next + 1
           q == add(r, line)
           told == Append(said, line)
<1>1. /\ r.next \in 0..(s - 1) /\ r.full \in BOOLEAN /\ r.lines \in [0..(s - 1) -> AnyLine]
  BY DEF Rings, AnyLine
<1>2. (r.next + 1) % Cardinality(DOMAIN r.lines) = n
  <2> DEFINE x == r.next + 1
  <2>1. x \in Nat /\ x < 2 * s /\ s \in Nat /\ s > 0 /\ x <= s
    BY <1>1
  <2>2. x % s = IF x < s THEN x ELSE x - s
    <3> HIDE DEF x
    <3> QED  BY <2>1, ModOnce
  <2>3. (IF x < s THEN x ELSE x - s) = n
    BY <2>1
  <2> QED  BY <2>2, <2>3, RingDomain
<1>3. q = [lines |-> [r.lines EXCEPT ![r.next] = line], next |-> n, full |-> r.full \/ n = 0]
  BY <1>2 DEF add
<1>4. q \in Rings(s)
  <2>1. n \in 0..(s - 1) /\ (r.full \/ n = 0) \in BOOLEAN
    BY <1>1
  <2>2. [r.lines EXCEPT ![r.next] = line] \in [0..(s - 1) -> AnyLine]
    BY <1>1
  <2> HIDE DEF n, q
  <2> QED  BY <1>3, <2>1, <2>2 DEF Rings, AnyLine
<1>5. ASSUME RingOK(r, said, s) PROVE RingOK(q, told, s)
  <2>1. /\ Len(said) \in Nat /\ Len(told) = Len(said) + 1 /\ told[Len(told)] = line
        /\ \A k \in 1..Len(said) : told[k] = said[k]
    OBVIOUS
  <2>2. /\ q.next = n /\ (q.full <=> r.full \/ n = 0) /\ q.lines[r.next] = line
        /\ \A k \in 0..(s - 1) : k # r.next => q.lines[k] = r.lines[k]
    <3>1. q.lines = [r.lines EXCEPT ![r.next] = line] /\ q.next = n /\ q.full = (r.full \/ n = 0)
      <4> HIDE DEF q
      <4> QED  BY <1>3
    <3> HIDE DEF q
    <3> QED  BY <1>1, <3>1
  <2> HIDE DEF q, told
  <2>3. (q.full <=> Len(told) >= s) /\ (~q.full => q.next = Len(told))
    BY <1>1, <1>5, <2>1, <2>2 DEF RingOK
  <2>4. ASSUME NEW i \in 1..s, i <= Len(told)
        PROVE  told[Len(told) - i + 1] = q.lines[IF i <= q.next THEN q.next - i ELSE q.next - i + s]
    <3>1. CASE i = 1
      <4>1. (IF i <= q.next THEN q.next - i ELSE q.next - i + s) = r.next
        BY <1>1, <2>2, <3>1
      <4> QED  BY <2>1, <2>2, <3>1, <4>1
    <3>2. CASE i > 1
      <4> DEFINE j == i - 1
                 slot == IF j <= r.next THEN r.next - j ELSE r.next - j + s
      <4>1. j \in 1..s /\ j <= Len(said) /\ slot \in 0..(s - 1) /\ slot # r.next
        BY <1>1, <2>1, <2>4, <3>2
      <4>2. (IF i <= q.next THEN q.next - i ELSE q.next - i + s) = slot
        BY <1>1, <2>2, <3>2, SMTT(30)
      <4>3. said[Len(said) - j + 1] = r.lines[slot]
        BY <1>5, <4>1 DEF RingOK
      <4>4. Len(told) - i + 1 = Len(said) - j + 1 /\ Len(said) - j + 1 \in 1..Len(said)
        BY <2>1, <4>1
      <4> HIDE DEF slot, j
      <4> QED  BY <2>1, <2>2, <4>1, <4>2, <4>3, <4>4
    <3> QED  BY <3>1, <3>2
  <2> QED  BY <2>3, <2>4 DEF RingOK
<1> QED  BY <1>4, <1>5

\* tail reads the last lines out of a ring, for every number asked for.
LEMMA TailOfRing ==
  ASSUME NEW s \in Nat \ {0}, NEW r \in Rings(s), NEW said \in Seq(AnyLine), RingOK(r, said, s),
         NEW n \in Nat
  PROVE  tail(r, n) = LastLines(said, IF n \in 1..s THEN n ELSE s)
<1> DEFINE N == Len(said)
           count == IF r.full THEN s ELSE r.next
           m == IF n <= 0 \/ n > count THEN count ELSE n
           oldest == IF r.full THEN r.next ELSE 0
           want == IF n \in 1..s THEN n ELSE s
           from == IF want < N THEN N - want + 1 ELSE 1
<1>1. /\ r.next \in 0..(s - 1) /\ r.full \in BOOLEAN /\ N \in Nat
      /\ (r.full <=> N >= s) /\ (~r.full => r.next = N)
  BY DEF Rings, RingOK
<1>2. /\ count \in 0..s /\ count <= N /\ m \in 0..count /\ from = N - m + 1 /\ from >= 1
      /\ oldest + (count - m) >= 0 /\ oldest + count < 2 * s
  BY <1>1
<1>3. tail(r, n) = [i \in 1..m |-> r.lines[(oldest + (count - m) + (i - 1)) % s]]
  BY RingDomain DEF tail
<1> HIDE DEF count, m, oldest, from
<1>4. ASSUME NEW i \in 1..m
      PROVE  r.lines[(oldest + (count - m) + (i - 1)) % s] = said[from + i - 1]
  <2> DEFINE j == m - i + 1
             x == oldest + (count - m) + (i - 1)
             slot == IF j <= r.next THEN r.next - j ELSE r.next - j + s
  <2>0. i \in Nat /\ 1 <= i /\ i <= m /\ m \in Nat /\ m <= count /\ count <= s /\ count \in Nat
    BY <1>2
  <2>1. j \in 1..s /\ j <= N /\ from + i - 1 = N - j + 1
    BY <1>1, <1>2, <2>0
  <2>2. said[N - j + 1] = r.lines[slot]
    <3> HIDE DEF j
    <3> QED  BY <2>1 DEF RingOK
  <2>3. x \in Nat /\ x < 2 * s /\ s > 0
    BY <1>1, <1>2, <2>0, SMTT(30) DEF oldest
  <2>4. x % s = IF x < s THEN x ELSE x - s
    <3> HIDE DEF x
    <3> QED  BY <2>3, ModOnce
  <2>5. (IF x < s THEN x ELSE x - s) = slot
    <3>1. CASE r.full
      <4>1. oldest = r.next /\ count = s
        BY <3>1 DEF oldest, count
      <4> QED  BY <1>1, <2>0, <4>1, SMTT(30)
    <3>2. CASE ~r.full
      <4>1. oldest = 0 /\ count = r.next
        BY <3>2 DEF oldest, count
      <4> QED  BY <1>1, <2>0, <4>1, SMTT(30)
    <3> QED  BY <3>1, <3>2
  <2> QED  BY <2>1, <2>2, <2>4, <2>5
<1>5. LastLines(said, want) = SubSeq(said, from, N)
  BY DEF LastLines, from
<1>6. SubSeq(said, from, N) = [i \in 1..m |-> said[from + i - 1]]
  <2>1. /\ from \in Int /\ N \in Int /\ N - from + 1 = m /\ m \in Nat
        /\ \A i \in from..N : said[i] \in AnyLine
    BY <1>1, <1>2
  <2> DEFINE sub == SubSeq(said, from, N)
  <2>2. /\ sub \in Seq(AnyLine) /\ Len(sub) = IF from <= N THEN N - from + 1 ELSE 0
        /\ \A i \in 1..(N - from + 1) : sub[i] = said[from + i - 1]
    <3> HIDE DEF N
    <3> QED  BY <2>1, SubSeqProperties
  <2>3. Len(sub) = m /\ \A i \in 1..m : sub[i] = said[from + i - 1]
    BY <2>1, <2>2
  <2> HIDE DEF sub, N
  <2>4. sub = [i \in 1..m |-> sub[i]]
    BY <2>2, <2>3
  <2> QED  BY <2>3, <2>4 DEF sub
<1> HIDE DEF N
<1>8. tail(r, n) = [i \in 1..m |-> said[from + i - 1]]
  BY <1>3, <1>4
<1> QED  BY <1>5, <1>6, <1>8

--------------------------------------------------------------------------------
(* Types                                                                   *)

Proc == [st : {"none", "run", "dead", "reaped"}, parent : Parents, group : 0..MaxPid,
         doomed : BOOLEAN, ready : BOOLEAN]
Writer == [at : {"off", "scan", "exit", "phase", "startup", "runtime"}, line : AnyLine]
JobType == [at : {"free", "stop", "reap", "clear", "start", "list", "kill", "sockets", "spawn"},
            by : {"nobody", "op", "health", "shutdown"}, todo : SUBSET Pids]
Failures == {[pid |-> p, fatal |-> TRUE] : p \in Pids} \cup {NoLine}

\* The types of the variables in four groups, so that a step is taken one group
\* at a time.
OsShape ==
    /\ procs \in [Pids -> Proc] /\ pipe \in [Pids -> Seq(Lines)]
    /\ sock \in {"none", "socket"} /\ node \in Nodes /\ lines \in Nat /\ stolen \in BOOLEAN
    /\ mishaps \in Nat /\ saidFatal \subseteq Pids
CoreShape ==
    /\ process \in Pids \cup {0} /\ tracked \in BOOLEAN /\ swept \in BOOLEAN
    /\ cancelled \subseteq Pids /\ deaf \subseteq Pids
DiagShape ==
    /\ phase \in {"startup", "runtime"} /\ enabled \in BOOLEAN /\ failure \in Failures
    /\ startup \in Rings(RingSize) /\ startupSaid \in Seq(AnyLine)
    /\ runtime \in Rings(RuntimeSize) /\ runtimeSaid \in Seq(AnyLine)
    /\ queued \in 0..ChanSize /\ late \in [Pids -> Nat]
RunShape == writer \in [Writers -> Writer] /\ job \in JobType /\ check \in {"none", "wait", "switch", "disable"}

LEMMA ShapeParts == Shape <=> OsShape /\ CoreShape /\ DiagShape /\ RunShape
BY DEF Shape, CoreTypeOK, OsShape, CoreShape, DiagShape, RunShape, Proc, Writer, JobType, Failures, AnyLine

LEMMA ShapePartsNext == Shape' <=> OsShape' /\ CoreShape' /\ DiagShape' /\ RunShape'
BY DEF Shape, CoreTypeOK, OsShape, CoreShape, DiagShape, RunShape, Proc, Writer, JobType, Failures, AnyLine

\* A budget that is not used, or used by one.
LEMMA MishapsStay == mishaps \in Nat /\ (Works \/ Mishap) => mishaps' \in Nat
BY DEF Works, Mishap

\* What a node begins with.
LEMMA Defaults ==
  /\ newStartupLogRing(RingSize) \in Rings(RingSize)
  /\ newStartupLogRing(RuntimeSize) \in Rings(RuntimeSize)
  /\ NoLine \in Failures /\ <<>> \in Seq(AnyLine) /\ Quiet \in Writer /\ 0 \in 0..ChanSize
  /\ [Free EXCEPT !.at = "start", !.by = "op"] \in JobType
<1>1. newStartupLogRing(RingSize) \in Rings(RingSize) /\ newStartupLogRing(RuntimeSize) \in Rings(RuntimeSize)
  BY NewRing, CoreAssumption
<1>2. NoLine \in Failures /\ <<>> \in Seq(AnyLine) /\ Quiet \in Writer /\ 0 \in 0..ChanSize
  BY CoreAssumption DEF Failures, Quiet, Writer, AnyLine
<1>3. Free \in JobType
  BY DEF Free, JobType
<1>4. [Free EXCEPT !.at = "start", !.by = "op"] \in JobType
  BY <1>3 DEF JobType
<1> QED  BY <1>1, <1>2, <1>4

\* The steps of the processes.
LEMMA ProcessShape ==
  ASSUME Shape, NEW p \in Pids,
         (\E fatal \in BOOLEAN : Say(p, fatal)) \/ Listen(p) \/ Exit(p) \/ Wait(p) \/ Scan(p)
         \/ handleProcessExit(p)
  PROVE  Shape'
<1>0. OsShape /\ CoreShape /\ DiagShape /\ RunShape
  BY ShapeParts
<1> SUFFICES OsShape' /\ CoreShape' /\ DiagShape' /\ RunShape'
  BY ShapePartsNext
<1> USE DEF osVars, coreVars, diagVars, logVars
<1>1. UNCHANGED <<process, tracked, cancelled, swept, diagVars, logVars, job, check>>
  BY DEF Say, Listen, Exit, Wait, Scan, handleProcessExit
<1>2. CoreShape' /\ DiagShape'
  <2>1. deaf' \subseteq Pids
    BY <1>0 DEF CoreShape, Say, Listen, Exit, Wait, Scan, handleProcessExit
  <2> QED  BY <1>0, <1>1, <2>1 DEF CoreShape, DiagShape
<1>3. mishaps' \in Nat
  <2>1. Works \/ Mishap
    BY DEF Say, Listen, Exit, Wait, Scan, handleProcessExit
  <2> QED  BY <1>0, <2>1, MishapsStay DEF OsShape
<1>w. <<"capture", p>> \in Writers /\ <<"exit", p>> \in Writers
  BY DEF Writers
<1>4. ASSUME NEW fatal \in BOOLEAN, Say(p, fatal) PROVE OsShape' /\ RunShape'
  <2>1. [pid |-> p, fatal |-> fatal] \in Lines
    BY DEF Lines
  <2>2. pipe' \in [Pids -> Seq(Lines)]
    BY <1>0, <1>4, <2>1 DEF Say, OsShape
  <2> QED  BY <1>0, <1>2, <1>3, <1>4, <2>2 DEF Say, OsShape, RunShape
<1>5. CASE Listen(p)
  <2>1. procs' \in [Pids -> Proc]
    BY <1>0, <1>5 DEF Listen, OsShape, Proc
  <2> QED  BY <1>0, <1>2, <1>3, <1>5, <2>1 DEF Listen, OsShape, RunShape
<1>6. CASE Exit(p)
  <2>1. procs' \in [Pids -> Proc]
    BY <1>0, <1>6 DEF Exit, OsShape, Proc
  <2> QED  BY <1>0, <1>2, <1>3, <1>6, <2>1 DEF Exit, OsShape, RunShape
<1>7. CASE Wait(p)
  <2>1. procs' \in [Pids -> Proc]
    BY <1>0, <1>7, ZenonT(30) DEF Wait, OsShape, Proc
  <2>2. PICK n \in 0..Len(pipe[p]) : pipe' = [pipe EXCEPT ![p] = SubSeq(@, 1, n)]
    BY <1>7 DEF Wait
  <2>3. SubSeq(pipe[p], 1, n) \in Seq(Lines)
    BY <1>0 DEF OsShape
  <2>4. pipe' \in [Pids -> Seq(Lines)]
    BY <1>0, <2>2, <2>3 DEF OsShape
  <2>5. [at |-> "exit", line |-> [pid |-> p, fatal |-> FALSE]] \in Writer
    BY DEF Writer, AnyLine, Lines
  <2>6. writer' \in [Writers -> Writer]
    BY <1>0, <1>7, <1>w, <2>5 DEF Wait, RunShape
  <2> QED  BY <1>0, <1>2, <1>1, <1>3, <1>7, <2>1, <2>4, <2>6 DEF Wait, OsShape, RunShape
<1>8. CASE Scan(p)
  <2> DEFINE w == <<"capture", p>>
  <2>1. Quiet \in Writer
    BY DEF Quiet, Writer, AnyLine
  <2>2. pipe[p] # <<>> => [at |-> "phase", line |-> Head(pipe[p])] \in Writer /\ Tail(pipe[p]) \in Seq(Lines)
    BY <1>0 DEF OsShape, Writer, AnyLine
  <2>3. writer' \in [Writers -> Writer] /\ pipe' \in [Pids -> Seq(Lines)]
    <3>1. CASE pipe[p] # <<>> /\ ContextLive(p) /\ pipe' # pipe
      BY <1>0, <1>8, <1>w, <2>1, <2>2, <3>1 DEF Scan, RunShape, OsShape
    <3>2. CASE pipe[p] # <<>> /\ ~ContextLive(p) /\ pipe' # pipe
      BY <1>0, <1>8, <1>w, <2>1, <2>2, <3>2 DEF Scan, RunShape, OsShape
    <3>3. CASE pipe[p] = <<>>
      BY <1>0, <1>8, <1>w, <2>1, <3>3 DEF Scan, RunShape, OsShape
    <3>4. CASE pipe' = pipe
      BY <1>0, <1>8, <1>w, <2>1, <2>2, <3>4 DEF Scan, RunShape, OsShape
    <3> QED  BY <3>1, <3>2, <3>3, <3>4
  <2> QED  BY <1>0, <1>2, <1>1, <1>3, <1>8, <2>3 DEF Scan, OsShape, RunShape
<1>9. CASE handleProcessExit(p)
  <2>1. writer' \in [Writers -> Writer]
    <3>1. Quiet \in Writer
      BY DEF Quiet, Writer, AnyLine
    <3>2. [writer[<<"exit", p>>] EXCEPT !.at = "phase"] \in Writer
      BY <1>0, <1>w DEF RunShape, Writer
    <3> QED  BY <1>0, <1>9, <1>w, <3>1, <3>2 DEF handleProcessExit, RunShape
  <2> QED  BY <1>0, <1>2, <1>1, <1>3, <1>9, <2>1 DEF handleProcessExit, OsShape, RunShape
<1> QED  BY <1>2, <1>4, <1>5, <1>6, <1>7, <1>8, <1>9

LEMMA RecordedShape ==
  ASSUME RunShape, NEW w \in Writers
  PROVE  Recorded(w) \in [Writers -> Writer]
<1>1. Quiet \in Writer /\ [at |-> "scan", line |-> NoLine] \in Writer
  BY DEF Quiet, Writer, AnyLine
<1> QED  BY <1>1 DEF Recorded, RunShape

\* The steps of the goroutines that record lines.
LEMMA RecordShape ==
  ASSUME Shape, NEW w \in Writers, Record(w)
  PROVE  Shape'
<1>0. OsShape /\ CoreShape /\ DiagShape /\ RunShape
  BY ShapeParts
<1> SUFFICES OsShape' /\ CoreShape' /\ DiagShape' /\ RunShape'
  BY ShapePartsNext
<1> USE DEF osVars, coreVars, diagVars, logVars
<1>1. UNCHANGED <<osVars, coreVars, phase, enabled, job, check, saidFatal, mishaps>>
  BY DEF Record, isStartupLogPhase, captureStartupLogLine, captureRuntimeLogLine, Works
<1>2. OsShape' /\ CoreShape'
  BY <1>0, <1>1 DEF OsShape, CoreShape
<1>3. w[2] \in Pids /\ writer[w].line \in AnyLine
  BY <1>0 DEF Writers, RunShape, Writer
<1>4. CASE isStartupLogPhase(w)
  <2>1. writer' = [writer EXCEPT ![w].at = phase]
    BY <1>4 DEF isStartupLogPhase
  <2>2. [writer[w] EXCEPT !.at = phase] \in Writer
    BY <1>0 DEF RunShape, DiagShape, Writer
  <2>3. writer' \in [Writers -> Writer]
    BY <1>0, <2>1, <2>2 DEF RunShape
  <2> QED  BY <1>0, <1>1, <1>2, <1>4, <2>3 DEF isStartupLogPhase, RunShape, DiagShape
<1>5. ASSUME CountLate(w), Send PROVE late' \in [Pids -> Nat] /\ queued' \in 0..ChanSize
  BY <1>0, <1>3, <1>5, CoreAssumption DEF CountLate, Send, DiagShape
<1>6. CASE captureStartupLogLine(w)
  <2> DEFINE line == writer[w].line
  <2>1. writer' \in [Writers -> Writer]
    BY <1>0, <1>6, RecordedShape DEF captureStartupLogLine
  <2>2. late' \in [Pids -> Nat] /\ queued' \in 0..ChanSize
    BY <1>5, <1>6 DEF captureStartupLogLine
  <2>3. add(startup, line) \in Rings(RingSize) /\ Append(startupSaid, line) \in Seq(AnyLine)
    BY <1>0, <1>3, AddToRing, CoreAssumption DEF DiagShape
  <2>4. startup' \in Rings(RingSize) /\ startupSaid' \in Seq(AnyLine)
    BY <1>0, <1>6, <2>3 DEF captureStartupLogLine, DiagShape
  <2>5. line.fatal => line \in Failures
    <3> HAVE line.fatal
    <3>1. line \in Lines /\ line.fatal = TRUE
      BY <1>3 DEF AnyLine, NoLine, Lines
    <3>2. line = [pid |-> line.pid, fatal |-> TRUE] /\ line.pid \in Pids
      BY <3>1 DEF Lines
    <3> QED  BY <3>2 DEF Failures
  <2>6. failure' \in Failures
    BY <1>0, <1>6, <2>5 DEF captureStartupLogLine, DiagShape, isStartupFailureLog
  <2> QED  BY <1>0, <1>1, <1>2, <1>6, <2>1, <2>2, <2>4, <2>6 DEF captureStartupLogLine, RunShape, DiagShape
<1>7. CASE captureRuntimeLogLine(w)
  <2> DEFINE line == writer[w].line
  <2>1. writer' \in [Writers -> Writer]
    BY <1>0, <1>7, RecordedShape DEF captureRuntimeLogLine
  <2>2. late' \in [Pids -> Nat] /\ queued' \in 0..ChanSize
    BY <1>5, <1>7 DEF captureRuntimeLogLine
  <2>3. add(runtime, line) \in Rings(RuntimeSize) /\ Append(runtimeSaid, line) \in Seq(AnyLine)
    BY <1>0, <1>3, AddToRing, CoreAssumption DEF DiagShape
  <2> QED  BY <1>0, <1>1, <1>2, <1>7, <2>1, <2>2, <2>3 DEF captureRuntimeLogLine, RunShape, DiagShape
<1> QED  BY <1>4, <1>6, <1>7 DEF Record

\* The steps of Stop and Start, and the calls that begin them.
LEMMA JobShape ==
  ASSUME Shape, Job \/ \E by \in {"op", "health", "shutdown"} : Call(by)
  PROVE  Shape'
<1>0. OsShape /\ CoreShape /\ DiagShape /\ RunShape
  BY ShapeParts
<1> SUFFICES OsShape' /\ CoreShape' /\ DiagShape' /\ RunShape'
  BY ShapePartsNext
<1> USE DEF osVars, coreVars, diagVars, logVars
<1>1. mishaps' \in Nat
  <2>1. Works \/ Mishap
    BY DEF Job, Call, StopKill, StopWait, StopClear, StartBegin, ListOrphans, cleanupOrphanedProcesses,
           ClearSockets, Spawn
  <2> QED  BY <1>0, <2>1, MishapsStay DEF OsShape
<1>2. ASSUME NEW S, Doom(S) PROVE procs' \in [Pids -> Proc]
  BY <1>0, <1>2 DEF Doom, OsShape, Proc
<1>3. /\ newStartupLogRing(RingSize) \in Rings(RingSize)
      /\ newStartupLogRing(RuntimeSize) \in Rings(RuntimeSize)
      /\ NoLine \in Failures /\ <<>> \in Seq(AnyLine) /\ Free \in JobType
  BY NewRing, CoreAssumption DEF Failures, Free, JobType
<1>4. ASSUME NEW by \in {"op", "health", "shutdown"}, Call(by)
      PROVE  OsShape' /\ CoreShape' /\ DiagShape' /\ RunShape'
  BY <1>0, <1>1, <1>4 DEF Call, OsShape, CoreShape, DiagShape, RunShape, JobType
<1>5. CASE StopKill
  <2>1. procs' \in [Pids -> Proc]
    BY <1>0, <1>2, <1>5 DEF StopKill, Started, OsShape, CoreShape
  <2>2. job' \in JobType
    BY <1>0, <1>5 DEF StopKill, RunShape, JobType
  <2> QED  BY <1>0, <1>1, <1>5, <2>1, <2>2 DEF StopKill, OsShape, CoreShape, DiagShape, RunShape
<1>6. CASE StopWait
  <2>1. job' \in JobType
    BY <1>0, <1>6 DEF StopWait, RunShape, JobType
  <2>2. procs' \in [Pids -> Proc]
    BY <1>0, <1>2, <1>6 DEF StopWait, killProcessTree, OsShape
  <2> QED  BY <1>0, <1>1, <1>6, <2>1, <2>2 DEF StopWait, OsShape, CoreShape, DiagShape, RunShape
<1>7. CASE StopClear
  <2>1. job' \in JobType
    BY <1>0, <1>3, <1>7 DEF StopClear, RunShape, JobType
  <2>2. CoreShape'
    BY <1>0, <1>7 DEF StopClear, CoreShape
  <2>3. sock' \in {"none", "socket"}
    BY <1>0, <1>7 DEF StopClear, OsShape, removeUnixSocketFiles
  <2> QED  BY <1>0, <1>1, <1>3, <1>7, <2>1, <2>2, <2>3 DEF StopClear, OsShape, DiagShape, RunShape
<1>8. CASE StartBegin
  <2>1. job' \in JobType
    BY <1>0, <1>8 DEF StartBegin, RunShape, JobType
  <2> QED  BY <1>0, <1>1, <1>3, <1>8, <2>1 DEF StartBegin, OsShape, CoreShape, DiagShape, RunShape
<1>9. CASE ListOrphans
  <2>1. job' \in JobType
    BY <1>0, <1>9 DEF ListOrphans, RunShape, JobType, findXrayProcesses
  <2> QED  BY <1>0, <1>1, <1>9, <2>1 DEF ListOrphans, OsShape, CoreShape, DiagShape, RunShape
<1>10. CASE cleanupOrphanedProcesses
  <2>1. job' \in JobType
    BY <1>0, <1>10 DEF cleanupOrphanedProcesses, RunShape, JobType
  <2>2. procs' \in [Pids -> Proc]
    <3>1. CASE procs' = procs
      BY <1>0, <3>1 DEF OsShape
    <3>2. CASE \E p \in job.todo : killProcessTree(p)
      BY <1>2, <3>2 DEF killProcessTree
    <3> QED  BY <1>10, <3>1, <3>2 DEF cleanupOrphanedProcesses
  <2> QED  BY <1>0, <1>1, <1>10, <2>1, <2>2 DEF cleanupOrphanedProcesses, OsShape, CoreShape, DiagShape, RunShape
<1>11. CASE ClearSockets
  <2>1. job' \in JobType
    BY <1>0, <1>11 DEF ClearSockets, RunShape, JobType
  <2> QED  BY <1>0, <1>1, <1>11, <2>1 DEF ClearSockets, removeUnixSocketFiles, OsShape, CoreShape, DiagShape, RunShape
<1>12. CASE Spawn
  <2>1. CASE UNCHANGED <<procs, process, tracked, writer, check>>
    BY <1>0, <1>1, <1>3, <1>12, <2>1 DEF Spawn, OsShape, CoreShape, DiagShape, RunShape
  <2>2. ASSUME NEW p \in Pids,
               /\ procs' = [procs EXCEPT ![p] = [NoProc EXCEPT !.st = "run", !.parent = node, !.group = setProcAttributes(p)]]
               /\ process' = p /\ tracked' = TRUE
               /\ writer' = [writer EXCEPT ![<<"capture", p>>].at = "scan"]
               /\ check' = IF job.by = "op" THEN "wait" ELSE check
        PROVE  OsShape' /\ CoreShape' /\ DiagShape' /\ RunShape'
    <3>1. [NoProc EXCEPT !.st = "run", !.parent = node, !.group = setProcAttributes(p)] \in Proc
      <4>1. p \in 0..MaxPid /\ node \in Parents
        BY <1>0 DEF Pids, Parents, OsShape
      <4> QED  BY <4>1 DEF NoProc, Proc, setProcAttributes
    <3>2. procs' \in [Pids -> Proc]
      BY <1>0, <2>2, <3>1 DEF OsShape
    <3>3. <<"capture", p>> \in Writers
      BY DEF Writers
    <3>4. [writer[<<"capture", p>>] EXCEPT !.at = "scan"] \in Writer
      BY <1>0, <3>3 DEF RunShape, Writer
    <3>5. writer' \in [Writers -> Writer]
      BY <1>0, <2>2, <3>3, <3>4 DEF RunShape
    <3> QED  BY <1>0, <1>1, <1>3, <1>12, <2>2, <3>2, <3>5 DEF Spawn, OsShape, CoreShape, DiagShape, RunShape
  <2> QED  BY <1>12, <2>1, <2>2 DEF Spawn
<1> QED  BY <1>4, <1>5, <1>6, <1>7, <1>8, <1>9, <1>10, <1>11, <1>12 DEF Job

\* The steps of checkXrayStatus, and the crash of the node.
LEMMA CheckShape ==
  ASSUME Shape,
         CheckAnswered \/ CheckGivesUp \/ SwitchPhase \/ DisableStartupDiagnostics \/ NodeCrash
  PROVE  Shape'
<1>0. OsShape /\ CoreShape /\ DiagShape /\ RunShape
  BY ShapeParts
<1> SUFFICES OsShape' /\ CoreShape' /\ DiagShape' /\ RunShape'
  BY ShapePartsNext
<1> USE DEF osVars, coreVars, diagVars, logVars
<1>1. mishaps' \in Nat
  <2>1. Works \/ Mishap
    BY DEF CheckAnswered, CheckGivesUp, SwitchPhase, DisableStartupDiagnostics, NodeCrash
  <2> QED  BY <1>0, <2>1, MishapsStay DEF OsShape
<1>2. /\ newStartupLogRing(RingSize) \in Rings(RingSize)
      /\ newStartupLogRing(RuntimeSize) \in Rings(RuntimeSize)
      /\ NoLine \in Failures /\ <<>> \in Seq(AnyLine) /\ Quiet \in Writer /\ 0 \in 0..ChanSize
      /\ [Free EXCEPT !.at = "start", !.by = "op"] \in JobType
  BY Defaults
<1>3. CASE CheckAnswered \/ CheckGivesUp \/ SwitchPhase \/ DisableStartupDiagnostics
  BY <1>0, <1>1, <1>2, <1>3
     DEF CheckAnswered, CheckGivesUp, SwitchPhase, DisableStartupDiagnostics,
         OsShape, CoreShape, DiagShape, RunShape
<1>4. CASE NodeCrash
  <2>1. \A p \in Pids : [procs[p] EXCEPT !.parent = "init"] \in Proc
    BY <1>0 DEF OsShape, Proc, Parents
  <2>2. procs' \in [Pids -> Proc] /\ pipe' \in [Pids -> Seq(Lines)]
    BY <1>0, <1>4, <2>1 DEF NodeCrash, OsShape
  <2>3. OsShape'
    BY <1>0, <1>1, <1>4, <2>2 DEF NodeCrash, OsShape, Nodes
  <2>4. CoreShape' /\ DiagShape'
    BY <1>0, <1>2, <1>4 DEF NodeCrash, CoreShape, DiagShape
  <2>5. RunShape'
    BY <1>2, <1>4 DEF NodeCrash, RunShape
  <2> QED  BY <2>3, <2>4, <2>5
<1> QED  BY <1>3, <1>4

LEMMA ShapeInit == Init => Shape
<1> SUFFICES ASSUME Init PROVE OsShape /\ CoreShape /\ DiagShape /\ RunShape
  BY ShapeParts
<1>1. /\ newStartupLogRing(RingSize) \in Rings(RingSize)
      /\ newStartupLogRing(RuntimeSize) \in Rings(RuntimeSize)
      /\ NoLine \in Failures /\ <<>> \in Seq(AnyLine) /\ Quiet \in Writer /\ 0 \in 0..ChanSize
      /\ [Free EXCEPT !.at = "start", !.by = "op"] \in JobType
  BY Defaults
<1>2. PICK sc \in Scenarios :
         /\ lines = sc.lines /\ mishaps = sc.mishaps
         /\ procs = [p \in Pids |->
              CASE p = 1 -> [NoProc EXCEPT !.st = "run", !.parent = "other", !.group = sc.beside]
                [] p = 2 /\ sc.left # "none" -> [NoProc EXCEPT !.st = "run", !.parent = sc.left, !.group = 2]
                [] OTHER -> NoProc]
  BY DEF Init
<1>3. sc.lines \in Nat /\ sc.mishaps \in Nat /\ sc.left \in {"none", "node1", "init"} /\ sc.beside \in {0, 1}
  BY CoreAssumption
<1>4. procs \in [Pids -> Proc]
  <2>1. /\ [NoProc EXCEPT !.st = "run", !.parent = "other", !.group = sc.beside] \in Proc /\ NoProc \in Proc
        /\ sc.left # "none" => [NoProc EXCEPT !.st = "run", !.parent = sc.left, !.group = 2] \in Proc
    <3>1. {0, 2, sc.beside} \subseteq 0..MaxPid
      BY <1>3, CoreAssumption
    <3>2. {"init", "other"} \subseteq Parents /\ (sc.left # "none" => sc.left \in Parents)
      BY <1>3 DEF Parents, Nodes
    <3> QED  BY <3>1, <3>2 DEF NoProc, Proc
  <2> QED  BY <1>2, <2>1
<1>5. OsShape
  <2>1. pipe = [p \in Pids |-> <<>>] /\ <<>> \in Seq(Lines)
    BY DEF Init
  <2>2. sock = "socket" /\ node = "node1" /\ stolen = FALSE /\ saidFatal = {}
    BY DEF Init
  <2> QED  BY <1>2, <1>3, <1>4, <2>1, <2>2 DEF OsShape, Nodes
<1>6. CoreShape /\ DiagShape
  <2>1. CoreShape
    BY DEF Init, CoreShape
  <2>2. late \in [Pids -> Nat]
    BY DEF Init
  <2>3. /\ phase = "runtime" /\ enabled = FALSE /\ failure = NoLine /\ queued = 0
        /\ startup = newStartupLogRing(RingSize) /\ startupSaid = <<>>
        /\ runtime = newStartupLogRing(RuntimeSize) /\ runtimeSaid = <<>>
    BY DEF Init
  <2> QED  BY <1>1, <2>1, <2>2, <2>3 DEF DiagShape
<1>7. RunShape
  BY <1>1 DEF Init, RunShape
<1> QED  BY <1>5, <1>6, <1>7

LEMMA ShapeNext == Shape /\ [Next]_vars => Shape'
<1> SUFFICES ASSUME Shape, [Next]_vars PROVE Shape'
  OBVIOUS
<1>1. CASE Next
  BY <1>1, ProcessShape, RecordShape, JobShape, CheckShape DEF Next
<1>2. CASE UNCHANGED vars
  <2>1. OsShape /\ CoreShape /\ DiagShape /\ RunShape
    BY ShapeParts
  <2>2. OsShape' /\ CoreShape' /\ DiagShape' /\ RunShape'
    BY <1>2, <2>1 DEF vars, osVars, coreVars, diagVars, logVars, OsShape, CoreShape, DiagShape, RunShape
  <2> QED  BY <2>2, ShapePartsNext
<1> QED  BY <1>1, <1>2

--------------------------------------------------------------------------------
(* The process of the core                                                 *)

LEMMA ProcessInit == Init => ProcessOK
<1> SUFFICES ASSUME Init PROVE ProcessOK
  OBVIOUS
<1>1. PICK sc \in Scenarios :
         procs = [p \in Pids |->
              CASE p = 1 -> [NoProc EXCEPT !.st = "run", !.parent = "other", !.group = sc.beside]
                [] p = 2 /\ sc.left # "none" -> [NoProc EXCEPT !.st = "run", !.parent = sc.left, !.group = 2]
                [] OTHER -> NoProc]
  BY DEF Init
<1>2. sc.left \in {"none", "node1", "init"}
  BY CoreAssumption
<1>3. \A p \in Pids : procs[p].parent # "node2"
  BY <1>1, <1>2 DEF NoProc
<1>4. \A p \in Pids : <<"capture", p>> \in Writers
  BY DEF Writers
<1>5. \A p \in Pids : writer[<<"capture", p>>].at = "off"
  BY <1>4 DEF Init, Quiet
<1>6. /\ process = 0 /\ job.todo = {} /\ job.at = "start" /\ saidFatal = {} /\ cancelled = {}
      /\ \A p \in Pids : late[p] = 0
  BY DEF Init, Free
<1> QED  BY <1>3, <1>5, <1>6 DEF ProcessOK

\* The steps of the processes and their goroutines.
LEMMA ProcessSteps ==
  ASSUME Shape, ProcessOK, NEW p \in Pids,
         (\E fatal \in BOOLEAN : Say(p, fatal)) \/ Listen(p) \/ Exit(p) \/ Wait(p) \/ Scan(p)
         \/ handleProcessExit(p)
  PROVE  ProcessOK'
<1>0. OsShape /\ CoreShape /\ DiagShape /\ RunShape
  BY ShapeParts
<1> USE DEF osVars, coreVars, diagVars, logVars
<1>1. UNCHANGED <<process, cancelled, job, node, late>>
  BY DEF Say, Listen, Exit, Wait, Scan, handleProcessExit
<1>2. \A q \in Pids : procs'[q].parent = procs[q].parent /\ (procs'[q].st = "none" <=> procs[q].st = "none")
  <2>1. CASE Listen(p)
    BY <1>0, <2>1 DEF Listen, OsShape, Proc
  <2>2. CASE Exit(p)
    BY <1>0, <2>2 DEF Exit, OsShape, Proc
  <2>3. CASE Wait(p)
    BY <1>0, <2>3 DEF Wait, OsShape, Proc
  <2>4. CASE procs' = procs
    BY <2>4
  <2> QED  BY <2>1, <2>2, <2>3, <2>4 DEF Say, Scan, handleProcessExit
<1>3. \A q \in Pids : q \in saidFatal' => q \in saidFatal \/ procs[q].st # "none"
  BY DEF Say, Listen, Exit, Wait, Scan, handleProcessExit
<1>4. \A q \in Pids : writer[<<"capture", q>>].at = "off" => writer'[<<"capture", q>>].at = "off"
  <2> SUFFICES ASSUME NEW q \in Pids, writer[<<"capture", q>>].at = "off"
               PROVE  writer'[<<"capture", q>>].at = "off"
    OBVIOUS
  <2>1. /\ <<"capture", q>> \in Writers /\ <<"capture", p>> \in Writers /\ <<"exit", p>> \in Writers
        /\ <<"capture", q>> # <<"exit", p>>
    BY DEF Writers
  <2>2. CASE writer' = writer
    BY <2>2
  <2>3. CASE Wait(p)
    BY <1>0, <2>1, <2>3 DEF Wait, RunShape
  <2>4. CASE handleProcessExit(p)
    BY <1>0, <2>1, <2>4 DEF handleProcessExit, RunShape
  <2>5. CASE Scan(p)
    <3>1. q # p
      BY <2>5 DEF Scan
    <3>2. <<"capture", q>> # <<"capture", p>>
      BY <3>1
    <3> QED  BY <1>0, <2>1, <2>5, <3>2 DEF Scan, RunShape
  <2> QED  BY <2>2, <2>3, <2>4, <2>5 DEF Say, Listen, Exit
<1>5. Children' = Children
  BY <1>1, <1>2 DEF Children
<1> QED  BY <1>0, <1>1, <1>2, <1>3, <1>4, <1>5 DEF ProcessOK, CoreShape

LEMMA RecordSteps ==
  ASSUME Shape, ProcessOK, NEW w \in Writers, Record(w)
  PROVE  ProcessOK'
<1>0. OsShape /\ CoreShape /\ DiagShape /\ RunShape
  BY ShapeParts
<1> USE DEF osVars, coreVars, diagVars, logVars
<1>1. UNCHANGED <<process, cancelled, job, node, procs, saidFatal>>
  BY DEF Record, isStartupLogPhase, captureStartupLogLine, captureRuntimeLogLine
<1>2. writer[w].at \in {"phase", "startup", "runtime"}
  BY DEF Record, isStartupLogPhase, captureStartupLogLine, captureRuntimeLogLine
<1>3. \A q \in Pids : writer[<<"capture", q>>].at = "off" => writer'[<<"capture", q>>].at = "off"
  <2> SUFFICES ASSUME NEW q \in Pids, writer[<<"capture", q>>].at = "off"
               PROVE  writer'[<<"capture", q>>].at = "off"
    OBVIOUS
  <2>1. <<"capture", q>> \in Writers /\ <<"capture", q>> # w
    BY <1>2 DEF Writers
  <2>2. \A v \in Writers : v # w => writer'[v] = writer[v]
    BY <1>0 DEF Record, isStartupLogPhase, captureStartupLogLine, captureRuntimeLogLine, Recorded, RunShape
  <2> QED  BY <2>1, <2>2
<1>4. \A q \in Pids : late[q] = 0 /\ q \notin cancelled => late'[q] = 0
  BY <1>0 DEF Record, isStartupLogPhase, captureStartupLogLine, captureRuntimeLogLine, CountLate, DiagShape
<1> QED  BY <1>1, <1>3, <1>4 DEF ProcessOK, Children

LEMMA JobSteps ==
  ASSUME Shape, ProcessOK, Job \/ \E by \in {"op", "health", "shutdown"} : Call(by)
  PROVE  ProcessOK'
<1>0. OsShape /\ CoreShape /\ DiagShape /\ RunShape
  BY ShapeParts
<1> USE DEF osVars, coreVars, diagVars, logVars
<1>1. UNCHANGED <<saidFatal, late, node>>
  BY DEF Job, Call, StopKill, StopWait, StopClear, StartBegin, ListOrphans, cleanupOrphanedProcesses,
         ClearSockets, Spawn
<1>2. CASE ~Spawn
  <2>1. /\ writer' = writer /\ (process' = process \/ (process' = 0 /\ cancelled' \subseteq cancelled \cup ({process} \ {0})))
        /\ process' = process => cancelled' = cancelled
    BY <1>2 DEF Job, Call, StopKill, StopWait, StopClear, StartBegin, ListOrphans, cleanupOrphanedProcesses,
           ClearSockets
  <2>2. ASSUME NEW S, Doom(S)
        PROVE  \A q \in Pids : procs'[q].parent = procs[q].parent /\ procs'[q].st = procs[q].st
    BY <1>0, <2>2 DEF Doom, OsShape, Proc
  <2>3. \A q \in Pids : procs'[q].parent = procs[q].parent /\ procs'[q].st = procs[q].st
    <3>1. CASE procs' = procs
      BY <3>1
    <3>2. CASE StopKill
      BY <1>0, <2>2, <3>1, <3>2 DEF StopKill, Started, CoreShape
    <3>3. CASE cleanupOrphanedProcesses
      BY <2>2, <3>1, <3>3 DEF cleanupOrphanedProcesses, killProcessTree
    <3>4. CASE StopWait
      BY <2>2, <3>1, <3>4 DEF StopWait, killProcessTree
    <3> QED
      BY <1>2, <3>1, <3>2, <3>3, <3>4 DEF Job, Call, StopClear, StartBegin, ListOrphans, ClearSockets
  <2>4. /\ job'.at # "kill" => job'.todo = {}
        /\ job'.at \in StartPlaces => process' = 0
        /\ job'.at = "reap" => process' # 0
    <3>1. CASE \E by \in {"op", "health", "shutdown"} : Call(by)
      BY <3>1 DEF Call, StartPlaces
    <3>2. CASE StopKill
      BY <1>0, <3>2 DEF StopKill, Started, StartPlaces, RunShape, JobType, ProcessOK
    <3>3. CASE StopWait
      BY <1>0, <3>3 DEF StopWait, StartPlaces, RunShape, JobType, ProcessOK
    <3>4. CASE StopClear
      BY <1>0, <3>4 DEF StopClear, Free, RunShape, JobType, ProcessOK
    <3>5. CASE StartBegin
      BY <1>0, <3>5 DEF StartBegin, StartPlaces, RunShape, JobType, ProcessOK
    <3>6. CASE ListOrphans
      BY <1>0, <3>6 DEF ListOrphans, StartPlaces, RunShape, JobType, ProcessOK
    <3>7. CASE cleanupOrphanedProcesses
      BY <1>0, <3>7 DEF cleanupOrphanedProcesses, StartPlaces, RunShape, JobType, ProcessOK
    <3>8. CASE ClearSockets
      BY <1>0, <3>8 DEF ClearSockets, StartPlaces, RunShape, JobType, ProcessOK
    <3> QED  BY <1>2, <3>1, <3>2, <3>3, <3>4, <3>5, <3>6, <3>7, <3>8 DEF Job
  <2>5. Children' = Children
    BY <1>1, <2>3 DEF Children
  <2>6. \A p \in Pids : procs[p].st = "none" => p \notin cancelled'
    BY <2>1 DEF ProcessOK
  <2>7. process' # 0 => /\ process' \in Children' /\ procs'[process'].st # "none"
                        /\ process' \notin cancelled'
    BY <1>0, <2>1, <2>3, <2>5 DEF ProcessOK, CoreShape
  <2>8. /\ node' = "node1" => \A p \in Pids : procs'[p].parent # "node2"
        /\ \A p \in Pids : procs'[p].st = "none" =>
             /\ p \notin cancelled' /\ p \notin saidFatal' /\ late'[p] = 0
             /\ writer'[<<"capture", p>>].at = "off"
    BY <1>1, <2>1, <2>3, <2>6 DEF ProcessOK
  <2> QED  BY <2>4, <2>7, <2>8 DEF ProcessOK
<1>3. CASE Spawn
  <2>1. job' = Free /\ UNCHANGED <<cancelled>> /\ job.at = "spawn"
    BY <1>3 DEF Spawn
  <2>2. CASE UNCHANGED <<procs, process, tracked, writer, check>>
    BY <1>1, <2>1, <2>2 DEF ProcessOK, Free, StartPlaces, Children
  <2>3. ASSUME NEW p \in Pids, procs[p].st = "none",
               procs' = [procs EXCEPT ![p] = [NoProc EXCEPT !.st = "run", !.parent = node, !.group = setProcAttributes(p)]],
               process' = p, writer' = [writer EXCEPT ![<<"capture", p>>].at = "scan"]
        PROVE  ProcessOK'
    <3>1. /\ procs'[p].st = "run" /\ procs'[p].parent = node
          /\ \A q \in Pids : q # p => procs'[q] = procs[q]
      BY <1>0, <2>3 DEF OsShape, NoProc
    <3>2. \A q \in Pids : q # p => writer'[<<"capture", q>>] = writer[<<"capture", q>>]
      BY <1>0, <2>3 DEF RunShape, Writers
    <3>3. p \in Children' /\ p \notin cancelled'
      BY <1>1, <2>1, <2>3, <3>1 DEF Children, ProcessOK
    <3>4. node' = "node1" => \A q \in Pids : procs'[q].parent # "node2"
      BY <1>1, <3>1 DEF ProcessOK
    <3> QED  BY <1>1, <2>1, <2>3, <3>1, <3>2, <3>3, <3>4 DEF ProcessOK, Free, StartPlaces
  <2> QED  BY <1>3, <2>2, <2>3 DEF Spawn
<1> QED  BY <1>2, <1>3

LEMMA CheckSteps ==
  ASSUME Shape, ProcessOK,
         CheckAnswered \/ CheckGivesUp \/ SwitchPhase \/ DisableStartupDiagnostics \/ NodeCrash
  PROVE  ProcessOK'
<1>0. OsShape /\ CoreShape /\ DiagShape /\ RunShape
  BY ShapeParts
<1> USE DEF osVars, coreVars, diagVars, logVars
<1>1. CASE CheckAnswered \/ CheckGivesUp \/ SwitchPhase \/ DisableStartupDiagnostics
  <2>1. UNCHANGED <<procs, node, process, cancelled, job, saidFatal, late, writer>>
    BY <1>1 DEF CheckAnswered, CheckGivesUp, SwitchPhase, DisableStartupDiagnostics
  <2> QED  BY <2>1 DEF ProcessOK, Children
<1>2. CASE NodeCrash
  <2>1. /\ process' = 0 /\ cancelled' = {} /\ job'.todo = {} /\ job'.at = "start" /\ node' = "node2"
        /\ UNCHANGED <<saidFatal, late>>
    BY <1>2 DEF NodeCrash, Free
  <2>2. \A p \in Pids : procs'[p].st = procs[p].st
    BY <1>0, <1>2 DEF NodeCrash, OsShape, Proc
  <2>3. \A p \in Pids : writer'[<<"capture", p>>].at = "off"
    BY <1>2 DEF NodeCrash, Quiet, Writers
  <2> QED  BY <2>1, <2>2, <2>3 DEF ProcessOK
<1> QED  BY <1>1, <1>2

LEMMA ProcessNext == Shape /\ ProcessOK /\ [Next]_vars => ProcessOK'
<1> SUFFICES ASSUME Shape, ProcessOK, [Next]_vars PROVE ProcessOK'
  OBVIOUS
<1>1. CASE Next
  BY <1>1, ProcessSteps, RecordSteps, JobSteps, CheckSteps DEF Next
<1>2. CASE UNCHANGED vars
  BY <1>2 DEF vars, osVars, coreVars, logVars, ProcessOK, Children
<1> QED  BY <1>1, <1>2

--------------------------------------------------------------------------------
(* Who is killed                                                           *)

LEMMA GroupsInit == Init => GroupsOK
<1> SUFFICES ASSUME Init PROVE GroupsOK
  OBVIOUS
<1>1. PICK sc \in Scenarios :
         procs = [p \in Pids |->
              CASE p = 1 -> [NoProc EXCEPT !.st = "run", !.parent = "other", !.group = sc.beside]
                [] p = 2 /\ sc.left # "none" -> [NoProc EXCEPT !.st = "run", !.parent = sc.left, !.group = 2]
                [] OTHER -> NoProc]
  BY DEF Init
<1>2. sc.beside \in {0, 1}
  BY CoreAssumption
<1> QED  BY <1>1, <1>2 DEF GroupsOK, NoProc

LEMMA GroupsNext == Shape /\ GroupsOK /\ [Next]_vars => GroupsOK'
<1> SUFFICES ASSUME Shape, GroupsOK, [Next]_vars PROVE GroupsOK'
  OBVIOUS
<1>0. OsShape /\ CoreShape /\ DiagShape /\ RunShape
  BY ShapeParts
<1> USE DEF osVars, coreVars, diagVars, logVars
<1>1. ASSUME \A q \in Pids : /\ procs'[q].group = procs[q].group /\ (procs[q].st = "none" => procs'[q].st = "none")
                             /\ procs[q].parent = "other" => procs'[q].parent = "other"
      PROVE  GroupsOK'
  BY <1>1 DEF GroupsOK
<1>2. CASE procs' = procs
  BY <1>1, <1>2
<1>3. ASSUME NEW S, Doom(S) PROVE GroupsOK'
  <2>1. \A q \in Pids : /\ procs'[q].group = procs[q].group /\ (procs[q].st = "none" => procs'[q].st = "none")
                        /\ procs[q].parent = "other" => procs'[q].parent = "other"
    BY <1>0, <1>3 DEF Doom, OsShape, Proc
  <2> QED  BY <1>1, <2>1
<1>4. ASSUME NEW p \in Pids, Listen(p) \/ Exit(p) \/ Wait(p) PROVE GroupsOK'
  <2>1. \A q \in Pids : q # p => procs'[q] = procs[q]
    BY <1>0, <1>4 DEF Listen, Exit, Wait, OsShape
  <2>2. /\ procs'[p].group = procs[p].group /\ procs[p].st # "none"
        /\ procs[p].parent = "other" => procs'[p].parent = "other"
    <3>1. CASE Listen(p)
      BY <1>0, <3>1 DEF Listen, OsShape, Proc
    <3>2. CASE Exit(p)
      BY <1>0, <3>2 DEF Exit, OsShape, Proc
    <3>3. CASE Wait(p)
      BY <1>0, <3>3 DEF Wait, OsShape, Proc
    <3> QED  BY <1>4, <3>1, <3>2, <3>3
  <2> QED  BY <1>1, <2>1, <2>2
<1>5. ASSUME NEW p \in Pids, p > 2,
             procs' = [procs EXCEPT ![p] = [NoProc EXCEPT !.st = "run", !.parent = node, !.group = setProcAttributes(p)]]
      PROVE  GroupsOK'
  <2>1. /\ procs'[p].group = p /\ p # 1
        /\ \A q \in Pids : q # p => procs'[q] = procs[q]
    BY <1>0, <1>5 DEF OsShape, NoProc, setProcAttributes, Pids
  <2> QED  BY <2>1 DEF GroupsOK
<1>6. CASE NodeCrash
  <2>1. \A q \in Pids : /\ procs'[q].group = procs[q].group /\ (procs[q].st = "none" => procs'[q].st = "none")
                        /\ procs[q].parent = "other" => procs'[q].parent = "other"
    BY <1>0, <1>6 DEF NodeCrash, OsShape, Proc, Children, Nodes
  <2> QED  BY <1>1, <2>1
<1>7. CASE StopKill \/ StopWait \/ cleanupOrphanedProcesses
  BY <1>2, <1>3, <1>7 DEF StopKill, StopWait, cleanupOrphanedProcesses, killProcessTree
<1>8. CASE Spawn
  BY <1>2, <1>5, <1>8 DEF Spawn
<1> QED
  BY <1>2, <1>4, <1>6, <1>7, <1>8
     DEF Next, Job, Say, Scan, handleProcessExit, Record, isStartupLogPhase, captureStartupLogLine,
         captureRuntimeLogLine, CheckAnswered, CheckGivesUp, SwitchPhase, DisableStartupDiagnostics, vars,
         Call, StopClear, StartBegin, ListOrphans, ClearSockets

LEMMA KillInit == Init => KillOK
<1> SUFFICES ASSUME Init PROVE KillOK
  OBVIOUS
<1>1. job.todo = {} /\ job.at = "start" /\ swept = FALSE
  BY DEF Init, Free
<1> QED  BY <1>1 DEF KillOK

LEMMA KillNext == Shape /\ ProcessOK /\ KillOK /\ [Next]_vars => KillOK'
<1> SUFFICES ASSUME Shape, ProcessOK, KillOK, [Next]_vars PROVE KillOK'
  OBVIOUS
<1>0. OsShape /\ CoreShape /\ DiagShape /\ RunShape
  BY ShapeParts
<1> USE DEF osVars, coreVars, diagVars, logVars
\* A step that starts no process, signals as it likes and leaves the rest alone.
<1>1. ASSUME UNCHANGED <<process, node, swept, job>>,
             \A p \in Pids : /\ procs'[p].parent = procs[p].parent
                             /\ procs[p].doomed => procs'[p].doomed
                             /\ procs'[p].st = "run" => procs[p].st = "run"
                             /\ procs[p].st \in {"dead", "reaped"} => procs'[p].st \in {"dead", "reaped"}
      PROVE  KillOK'
  <2>1. Children' = Children /\ Children \subseteq Pids
    BY <1>1 DEF Children
  <2>2. job.todo \subseteq Pids
    BY <1>0 DEF RunShape, JobType
  <2> QED  BY <1>1, <2>1, <2>2 DEF KillOK
<1>2. CASE procs' = procs /\ UNCHANGED <<process, node, swept, job>>
  BY <1>1, <1>2
<1>3. ASSUME NEW p \in Pids, Listen(p) \/ Exit(p) \/ Wait(p)
      PROVE  KillOK'
  <2>1. UNCHANGED <<process, node, swept, job>>
    BY <1>3 DEF Listen, Exit, Wait
  <2>2. \A q \in Pids : q # p => procs'[q] = procs[q]
    BY <1>0, <1>3 DEF Listen, Exit, Wait, OsShape
  <2>3. /\ procs'[p].parent = procs[p].parent /\ procs'[p].doomed = procs[p].doomed
        /\ procs'[p].st = "run" => procs[p].st = "run"
        /\ procs[p].st \in {"dead", "reaped"} => procs'[p].st \in {"dead", "reaped"}
    <3>1. CASE Listen(p)
      BY <1>0, <3>1 DEF Listen, OsShape, Proc
    <3>2. CASE Exit(p)
      BY <1>0, <3>2 DEF Exit, OsShape, Proc
    <3>3. CASE Wait(p)
      BY <1>0, <3>3 DEF Wait, OsShape, Proc
    <3> QED  BY <1>3, <3>1, <3>2, <3>3
  <2>4. \A q \in Pids : /\ procs'[q].parent = procs[q].parent
                        /\ procs[q].doomed => procs'[q].doomed
                        /\ procs'[q].st = "run" => procs[q].st = "run"
                        /\ procs[q].st \in {"dead", "reaped"} => procs'[q].st \in {"dead", "reaped"}
    BY <2>2, <2>3
  <2> QED  BY <1>1, <2>1, <2>4
<1>4. ASSUME NEW S, Doom(S)
      PROVE  /\ \A q \in Pids : q \in S \/ procs[q].doomed => procs'[q].doomed
             /\ \A q \in Pids : procs'[q].parent = procs[q].parent /\ procs'[q].st = procs[q].st
  BY <1>0, <1>4 DEF Doom, OsShape, Proc
<1>5. ASSUME UNCHANGED <<node, swept>>,
             process' \in {0, process}, job'.todo = {}, job'.at \notin {"kill", "sockets", "spawn"},
             \A q \in Pids : procs'[q].parent = procs[q].parent /\ procs'[q].st = procs[q].st
                             /\ (procs[q].doomed => procs'[q].doomed)
      PROVE  KillOK'
  <2>1. Children' = Children /\ Children \subseteq Pids
    BY <1>5 DEF Children
  <2> QED  BY <1>5, <2>1 DEF KillOK
<1>6. CASE (\E by \in {"op", "health", "shutdown"} : Call(by)) \/ StopClear \/ StartBegin
  <2>1. job.todo = {}
    BY <1>6 DEF Call, StopClear, StartBegin, ProcessOK, Free
  <2>2. /\ UNCHANGED <<node, swept, procs>> /\ process' \in {0, process}
        /\ job'.todo = {} /\ job'.at \notin {"kill", "sockets", "spawn"}
    BY <1>0, <1>6, <2>1 DEF Call, StopClear, StartBegin, Free, RunShape, JobType
  <2> QED  BY <1>5, <2>2
<1>7. CASE StopKill \/ StopWait
  <2>1. job.todo = {} /\ UNCHANGED <<node, swept, process>>
    BY <1>7 DEF StopKill, StopWait, ProcessOK
  <2>2. job'.todo = {} /\ job'.at \in {"reap", "clear"}
    BY <1>0, <1>7, <2>1 DEF StopKill, StopWait, RunShape, JobType
  <2>3. \A q \in Pids : procs'[q].parent = procs[q].parent /\ procs'[q].st = procs[q].st
                        /\ (procs[q].doomed => procs'[q].doomed)
    <3>1. CASE procs' = procs
      BY <3>1
    <3>2. CASE procs' # procs
      BY <1>4, <1>7, <3>2 DEF StopKill, StopWait, killProcessTree
    <3> QED  BY <3>1, <3>2
  <2> QED  BY <1>5, <2>1, <2>2, <2>3
<1>8. CASE ListOrphans
  <2>1. UNCHANGED <<procs, node, process>> /\ process = 0 /\ job.todo = {}
    BY <1>8 DEF ListOrphans, ProcessOK, StartPlaces
  <2>2. CASE swept' = TRUE /\ job' = [job EXCEPT !.at = "kill", !.todo = {p \in findXrayProcesses : IsOrphan(p)}]
    <3>1. job'.at = "kill" /\ job'.todo = {p \in findXrayProcesses : IsOrphan(p)}
      BY <1>0, <2>2 DEF RunShape, JobType
    <3>2. job'.todo \subseteq Children
      BY <3>1 DEF IsOrphan, findXrayProcesses
    <3>3. \A p \in Children : procs[p].st = "run" => p \in job'.todo
      BY <3>1 DEF IsOrphan, findXrayProcesses, Children
    <3> QED  BY <2>1, <3>1, <3>2, <3>3 DEF KillOK, Children
  <2>3. CASE swept' = FALSE /\ job' = [job EXCEPT !.at = "sockets"]
    <3>1. job'.at = "sockets" /\ job'.todo = {}
      BY <1>0, <2>1, <2>3 DEF RunShape, JobType
    <3> QED  BY <2>1, <2>3, <3>1 DEF KillOK
  <2> QED  BY <1>8, <2>2, <2>3 DEF ListOrphans
<1>9. CASE cleanupOrphanedProcesses
  <2>1. UNCHANGED <<node, process, swept>> /\ process = 0 /\ job.at = "kill" /\ job.todo \subseteq Pids
    BY <1>0, <1>9 DEF cleanupOrphanedProcesses, ProcessOK, StartPlaces, RunShape, JobType
  <2>2. CASE job.todo = {}
    <3>1. procs' = procs /\ job'.at = "sockets" /\ job'.todo = {}
      BY <1>0, <1>9, <2>2 DEF cleanupOrphanedProcesses, RunShape, JobType
    <3> QED  BY <2>1, <2>2, <3>1 DEF KillOK, Children
  <2>3. CASE job.todo # {}
    <3>1. PICK p \in job.todo : killProcessTree(p) /\ job' = [job EXCEPT !.todo = @ \ {p}]
      BY <1>9, <2>3 DEF cleanupOrphanedProcesses
    <3>2. job'.at = "kill" /\ job'.todo = job.todo \ {p}
      BY <1>0, <2>1, <3>1 DEF RunShape, JobType
    <3>3. /\ procs[p].st = "run" => procs'[p].doomed
          /\ \A q \in Pids : procs[q].doomed => procs'[q].doomed
          /\ \A q \in Pids : procs'[q].parent = procs[q].parent /\ procs'[q].st = procs[q].st
      <4> DEFINE S == {q \in Pids : Exists(p) /\ Exists(q) /\ procs[q].group = procs[p].group}
      <4>1. Doom(S)
        BY <3>1 DEF killProcessTree
      <4>2. procs[p].st = "run" => p \in S
        BY <2>1 DEF Exists
      <4> HIDE DEF S
      <4> QED  BY <1>4, <2>1, <4>1, <4>2
    <3>4. Children' = Children /\ Children \subseteq Pids
      BY <2>1, <3>3 DEF Children
    <3> QED  BY <2>1, <3>2, <3>3, <3>4 DEF KillOK
  <2> QED  BY <2>2, <2>3
<1>10. CASE ClearSockets
  <2>1. UNCHANGED <<procs, node, process, swept>> /\ process = 0 /\ job.at = "sockets" /\ job.todo = {}
    BY <1>10 DEF ClearSockets, ProcessOK, StartPlaces
  <2>2. job'.at = "spawn" /\ job'.todo = {}
    BY <1>0, <1>10, <2>1 DEF ClearSockets, RunShape, JobType
  <2> QED  BY <2>1, <2>2 DEF KillOK, Children
<1>11. CASE Spawn
  <2>1. UNCHANGED <<node, swept>> /\ process = 0 /\ job.at = "spawn" /\ job'.at = "free" /\ job'.todo = {}
    BY <1>11 DEF Spawn, ProcessOK, StartPlaces, Free
  <2>2. CASE UNCHANGED <<procs, process>>
    BY <2>1, <2>2 DEF KillOK
  <2>3. ASSUME NEW p \in Pids, procs[p].st = "none",
               procs' = [procs EXCEPT ![p] = [NoProc EXCEPT !.st = "run", !.parent = node, !.group = setProcAttributes(p)]],
               process' = p
        PROVE  KillOK'
    <3>1. \A q \in Pids : q # p => procs'[q] = procs[q]
      BY <1>0, <2>3 DEF OsShape
    <3> QED  BY <2>1, <2>3, <3>1 DEF KillOK, Children
  <2> QED  BY <1>11, <2>2, <2>3 DEF Spawn
<1>12. CASE NodeCrash
  BY <1>12 DEF NodeCrash, KillOK, Free
<1>13. CASE \/ \E p \in Pids : (\E fatal \in BOOLEAN : Say(p, fatal)) \/ Scan(p) \/ handleProcessExit(p)
            \/ \E w \in Writers : Record(w)
            \/ CheckAnswered \/ CheckGivesUp \/ SwitchPhase \/ DisableStartupDiagnostics
            \/ UNCHANGED vars
  <2>1. procs' = procs /\ UNCHANGED <<process, node, swept, job>>
    BY <1>13 DEF Say, Scan, handleProcessExit, Record, isStartupLogPhase, captureStartupLogLine,
         captureRuntimeLogLine, CheckAnswered, CheckGivesUp, SwitchPhase, DisableStartupDiagnostics, vars
  <2> QED  BY <1>2, <2>1
<1> QED
  BY <1>3, <1>6, <1>7, <1>8, <1>9, <1>10, <1>11, <1>12, <1>13 DEF Next, Job

\* What a step may signal.
LEMMA KillStep ==
  Shape /\ ProcessOK /\ GroupsOK /\ KillOK /\ [Next]_vars =>
    \A p \in Pids : procs[p].st = "run" /\ procs'[p].doomed /\ ~procs[p].doomed => p \in Children
<1> SUFFICES ASSUME Shape, ProcessOK, GroupsOK, KillOK, [Next]_vars, NEW p \in Pids,
                    procs[p].st = "run", procs'[p].doomed, ~procs[p].doomed
             PROVE  p \in Children
  OBVIOUS
<1>0. OsShape /\ CoreShape /\ DiagShape /\ RunShape
  BY ShapeParts
<1> USE DEF osVars, coreVars, diagVars, logVars
<1>1. ASSUME NEW S, Doom(S) PROVE p \in S
  BY <1>0, <1>1 DEF Doom, OsShape
\* The group of a child is the child.
<1>g. ASSUME NEW q \in Children, killProcessTree(q) PROVE p \in Children
  <2>1. procs[q].st # "none" /\ procs[p].group = procs[q].group /\ q \in Pids
    BY <1>1, <1>g DEF killProcessTree, Exists, Children
  <2>2. q # 1
    BY <1>0, <2>1 DEF GroupsOK, Children, OsShape, Nodes
  <2>3. procs[q].group = q /\ (procs[p].group = p \/ procs[p].group \in {0, 1})
    BY <2>1, <2>2 DEF GroupsOK
  <2>4. p = q
    BY <2>1, <2>2, <2>3 DEF Pids
  <2> QED  BY <2>4
<1>2. CASE StopKill
  <2>1. Started /\ Doom({process})
    BY <1>2 DEF StopKill
  <2> QED  BY <1>1, <2>1 DEF ProcessOK, Started
<1>w. CASE StopWait
  <2>1. killProcessTree(process)
    BY <1>w DEF StopWait
  <2>2. process # 0
    BY <1>w DEF StopWait, ProcessOK
  <2> QED  BY <1>g, <2>1, <2>2 DEF ProcessOK
<1>3. CASE cleanupOrphanedProcesses
  <2>1. PICK q \in job.todo : killProcessTree(q)
    BY <1>3 DEF cleanupOrphanedProcesses
  <2> QED  BY <1>g, <2>1 DEF KillOK
<1>4. ASSUME NEW q \in Pids, Listen(q) \/ Exit(q) \/ Wait(q) PROVE FALSE
  <2>1. CASE Listen(q)
    BY <1>0, <2>1 DEF Listen, OsShape, Proc
  <2>2. CASE Exit(q)
    BY <1>0, <2>2 DEF Exit, OsShape, Proc
  <2>3. CASE Wait(q)
    BY <1>0, <2>3 DEF Wait, OsShape, Proc
  <2> QED  BY <1>4, <2>1, <2>2, <2>3
<1>5. CASE Spawn
  BY <1>0, <1>5 DEF Spawn, OsShape, NoProc
<1>6. CASE NodeCrash
  BY <1>0, <1>6 DEF NodeCrash, OsShape, Proc
<1>7. procs' # procs
  OBVIOUS
<1> QED
  BY <1>2, <1>w, <1>3, <1>4, <1>5, <1>6, <1>7
     DEF Next, Job, Say, Scan, handleProcessExit, Record, isStartupLogPhase, captureStartupLogLine,
         captureRuntimeLogLine, CheckAnswered, CheckGivesUp, SwitchPhase, DisableStartupDiagnostics, vars,
         Call, StopClear, StartBegin, ListOrphans, ClearSockets

--------------------------------------------------------------------------------
(* Late lines                                                              *)

LEMMA LateInit == Init => LateOK
BY DEF Init, LateOK

LEMMA LateNext == Shape /\ ProcessOK /\ LateOK /\ [Next]_vars => LateOK'
<1> SUFFICES ASSUME Shape, ProcessOK, LateOK, [Next]_vars PROVE LateOK'
  OBVIOUS
<1>0. OsShape /\ CoreShape /\ DiagShape /\ RunShape
  BY ShapeParts
<1> USE DEF osVars, coreVars, diagVars, logVars
<1>w. \A p \in Pids : <<"capture", p>> \in Writers /\ <<"exit", p>> \in Writers
  BY DEF Writers
<1>1. ASSUME late' = late, cancelled \subseteq cancelled',
             \A p \in Pids : late[p] # 0 => writer'[<<"capture", p>>] = writer[<<"capture", p>>]
      PROVE  LateOK'
  BY <1>1 DEF LateOK
<1>2. CASE writer' = writer /\ late' = late /\ cancelled \subseteq cancelled'
  BY <1>1, <1>2
<1>3. ASSUME NEW p \in Pids, Wait(p) \/ handleProcessExit(p) PROVE LateOK'
  <2>1. late' = late /\ cancelled' = cancelled
    BY <1>3 DEF Wait, handleProcessExit
  <2>2. \A v \in Writers : v # <<"exit", p>> => writer'[v] = writer[v]
    BY <1>0, <1>3, <1>w DEF Wait, handleProcessExit, RunShape
  <2>3. \A q \in Pids : writer'[<<"capture", q>>] = writer[<<"capture", q>>]
    BY <1>w, <2>2
  <2> QED  BY <1>1, <2>1, <2>3
<1>4. ASSUME NEW p \in Pids, Scan(p) PROVE LateOK'
  <2>1. late' = late /\ cancelled' = cancelled /\ writer[<<"capture", p>>].at = "scan"
    BY <1>4 DEF Scan
  <2>2. \A v \in Writers : v # <<"capture", p>> => writer'[v] = writer[v]
    BY <1>0, <1>4, <1>w DEF Scan, RunShape
  <2>3. p \in cancelled => writer'[<<"capture", p>>].at = "off"
    <3> HAVE p \in cancelled
    <3>1. writer' = [writer EXCEPT ![<<"capture", p>>] = Quiet]
      BY <1>4 DEF Scan, ContextLive
    <3>2. writer'[<<"capture", p>>] = Quiet
      BY <1>0, <1>w, <3>1 DEF RunShape
    <3> QED  BY <3>2 DEF Quiet
  <2>4. ASSUME NEW q \in Pids, late'[q] # 0
        PROVE  /\ late'[q] = 1 /\ writer'[<<"capture", q>>].at \in {"scan", "off"}
               /\ writer'[<<"capture", q>>].at = "scan" => q \in cancelled'
    <3>1. CASE q = p
      BY <2>1, <2>3, <2>4, <3>1 DEF LateOK
    <3>2. CASE q # p
      <4>1. writer'[<<"capture", q>>] = writer[<<"capture", q>>]
        BY <1>w, <2>2, <3>2
      <4> QED  BY <2>1, <2>4, <4>1 DEF LateOK
    <3> QED  BY <3>1, <3>2
  <2> QED  BY <2>4 DEF LateOK
<1>5. ASSUME NEW w \in Writers, Record(w) PROVE LateOK'
  <2>1. cancelled' = cancelled
    BY <1>5 DEF Record, isStartupLogPhase, captureStartupLogLine, captureRuntimeLogLine
  <2>2. writer[w].at \in {"phase", "startup", "runtime"}
    BY <1>5 DEF Record, isStartupLogPhase, captureStartupLogLine, captureRuntimeLogLine
  <2>3. \A v \in Writers : v # w => writer'[v] = writer[v]
    BY <1>0, <1>5 DEF Record, isStartupLogPhase, captureStartupLogLine, captureRuntimeLogLine,
                      Recorded, RunShape
  <2>4. w[2] \in Pids /\ (w[1] = "capture" => w = <<"capture", w[2]>>)
    BY DEF Writers
  <2>5. CASE late' = late
    <3>1. \A p \in Pids : late[p] # 0 => <<"capture", p>> # w
      BY <2>2 DEF LateOK
    <3> QED  BY <1>1, <1>w, <2>1, <2>3, <2>5, <3>1
  <2>6. CASE late' # late
    <3>1. CountLate(w) /\ writer' = Recorded(w)
      BY <1>5, <2>6 DEF Record, isStartupLogPhase, captureStartupLogLine, captureRuntimeLogLine
    <3>2. w[1] = "capture" /\ w[2] \in cancelled
      BY <1>0, <2>6, <3>1 DEF CountLate, DiagShape
    <3>3. /\ late'[w[2]] = late[w[2]] + 1
          /\ \A q \in Pids : q # w[2] => late'[q] = late[q]
      BY <1>0, <2>4, <3>1, <3>2 DEF CountLate, DiagShape
    <3>4. late[w[2]] = 0
      BY <2>2, <2>4, <3>2 DEF LateOK
    <3>5. writer'[w].at = "scan"
      BY <1>0, <3>1, <3>2 DEF Recorded, RunShape
    <3>6. ASSUME NEW q \in Pids, late'[q] # 0
          PROVE  /\ late'[q] = 1 /\ writer'[<<"capture", q>>].at \in {"scan", "off"}
                 /\ writer'[<<"capture", q>>].at = "scan" => q \in cancelled'
      <4>1. CASE q = w[2]
        BY <2>1, <2>4, <3>2, <3>3, <3>4, <3>5, <4>1
      <4>2. CASE q # w[2]
        <5>1. <<"capture", q>> # w
          BY <4>2
        <5>2. writer'[<<"capture", q>>] = writer[<<"capture", q>>]
          BY <1>w, <2>3, <5>1
        <5> QED  BY <2>1, <3>3, <3>6, <4>2, <5>2 DEF LateOK
      <4> QED  BY <4>1, <4>2
    <3> QED  BY <3>6 DEF LateOK
  <2> QED  BY <2>5, <2>6
<1>6. CASE Spawn
  <2>1. late' = late /\ cancelled' = cancelled
    BY <1>6 DEF Spawn
  <2>2. CASE writer' = writer
    BY <1>2, <2>1, <2>2
  <2>3. ASSUME NEW p \in Pids, procs[p].st = "none",
               writer' = [writer EXCEPT ![<<"capture", p>>].at = "scan"]
        PROVE  LateOK'
    <3>1. late[p] = 0
      BY <2>3 DEF ProcessOK
    <3>2. \A q \in Pids : q # p => writer'[<<"capture", q>>] = writer[<<"capture", q>>]
      BY <1>0, <1>w, <2>3 DEF RunShape
    <3> QED  BY <1>1, <2>1, <3>1, <3>2
  <2> QED  BY <1>6, <2>2, <2>3 DEF Spawn
<1>7. CASE NodeCrash
  <2>1. late' = late /\ \A p \in Pids : writer'[<<"capture", p>>].at = "off"
    BY <1>7, <1>w DEF NodeCrash, Quiet
  <2> QED  BY <2>1 DEF LateOK
<1>8. CASE StopClear
  BY <1>2, <1>8 DEF StopClear
<1> QED
  BY <1>2, <1>3, <1>4, <1>5, <1>6, <1>7, <1>8
     DEF Next, Job, Say, Listen, Exit, CheckAnswered, CheckGivesUp, SwitchPhase, DisableStartupDiagnostics,
         vars, Call, StopKill, StopWait, StartBegin, ListOrphans, cleanupOrphanedProcesses, ClearSockets

--------------------------------------------------------------------------------
(* Startup diagnostics                                                     *)

LEMMA DiagnosticsInit == Init => DiagnosticsOK /\ FailureOK
<1> SUFFICES ASSUME Init PROVE DiagnosticsOK /\ FailureOK
  OBVIOUS
<1>1. check = "none" /\ job.at = "start"
  BY DEF Init, Free
<1> QED  BY <1>1 DEF DiagnosticsOK, FailureOK

LEMMA DiagnosticsNext == Shape /\ ProcessOK /\ DiagnosticsOK /\ [Next]_vars => DiagnosticsOK'
<1> SUFFICES ASSUME Shape, ProcessOK, DiagnosticsOK, [Next]_vars PROVE DiagnosticsOK'
  OBVIOUS
<1>0. OsShape /\ CoreShape /\ DiagShape /\ RunShape
  BY ShapeParts
<1> USE DEF osVars, coreVars, diagVars, logVars
<1>1. CASE UNCHANGED <<job, check, process, phase, enabled>>
  BY <1>1 DEF DiagnosticsOK
<1>2. CASE \E by \in {"op", "health", "shutdown"} : Call(by)
  BY <1>0, <1>2 DEF Call, DiagnosticsOK, Free
<1>3. CASE StopKill \/ StopWait
  <2>1. /\ job'.by = job.by /\ job'.at \in {"reap", "clear"} /\ job.at # "free"
        /\ UNCHANGED <<check, process, phase, enabled>>
    BY <1>0, <1>3 DEF StopKill, StopWait, RunShape, JobType
  <2> QED  BY <2>1 DEF DiagnosticsOK
<1>4. CASE StopClear
  <2>1. process' = 0 /\ check' = check /\ job.at = "clear"
    BY <1>4 DEF StopClear
  <2>2. job' = Free \/ (job'.by = job.by /\ job'.at = "start")
    BY <1>0, <1>4 DEF StopClear, RunShape, JobType
  <2> QED  BY <2>1, <2>2 DEF DiagnosticsOK, Free
<1>5. CASE StartBegin
  <2>1. /\ job'.by = job.by /\ job.at # "free" /\ phase' = "startup" /\ enabled' = TRUE
        /\ UNCHANGED <<check, process>>
    BY <1>0, <1>5 DEF StartBegin, RunShape, JobType
  <2> QED  BY <2>1 DEF DiagnosticsOK
<1>6. CASE ListOrphans \/ cleanupOrphanedProcesses \/ ClearSockets
  <2>1. /\ job'.by = job.by /\ job.at \in {"list", "kill", "sockets"}
        /\ UNCHANGED <<check, process, phase, enabled>>
    <3>1. CASE ListOrphans
      BY <1>0, <3>1 DEF ListOrphans, RunShape, JobType
    <3>2. CASE cleanupOrphanedProcesses
      BY <1>0, <3>2 DEF cleanupOrphanedProcesses, RunShape, JobType
    <3>3. CASE ClearSockets
      BY <1>0, <3>3 DEF ClearSockets, RunShape, JobType
    <3> QED  BY <1>6, <3>1, <3>2, <3>3
  <2> QED  BY <2>1 DEF DiagnosticsOK
<1>7. CASE Spawn
  <2>1. job.at = "spawn" /\ job'.at = "free" /\ process = 0 /\ UNCHANGED <<phase, enabled>>
    BY <1>7 DEF Spawn, Free, ProcessOK, StartPlaces
  <2>2. check' = check \/ (job.by = "op" /\ check' = "wait")
    BY <1>7 DEF Spawn
  <2> QED  BY <2>1, <2>2 DEF DiagnosticsOK
<1>8. CASE CheckAnswered \/ CheckGivesUp \/ SwitchPhase \/ DisableStartupDiagnostics
  <2>1. /\ check' # "wait" /\ check # "none" /\ UNCHANGED <<job, process>>
        /\ check # "wait" \/ UNCHANGED <<phase, enabled>>
    BY <1>8 DEF CheckAnswered, CheckGivesUp, SwitchPhase, DisableStartupDiagnostics
  <2> QED  BY <2>1 DEF DiagnosticsOK
<1>9. CASE NodeCrash
  BY <1>9 DEF NodeCrash, DiagnosticsOK, Free
<1> QED
  BY <1>1, <1>2, <1>3, <1>4, <1>5, <1>6, <1>7, <1>8, <1>9
     DEF Next, Job, Say, Listen, Exit, Wait, Scan, handleProcessExit, Record, isStartupLogPhase,
         captureStartupLogLine, captureRuntimeLogLine, vars

\* The capture of the core's process, as far as FailureOK looks at it.
Carried(p) ==
    \/ \E k \in 1..Len(pipe[p]) : pipe[p][k].fatal
    \/ /\ writer[<<"capture", p>>].at \in {"phase", "startup"}
       /\ writer[<<"capture", p>>].line.fatal

LEMMA FailureNext ==
  Shape /\ ProcessOK /\ DiagnosticsOK /\ FailureOK /\ [Next]_vars => FailureOK'
<1> SUFFICES ASSUME Shape, ProcessOK, DiagnosticsOK, FailureOK, [Next]_vars,
                    check' = "wait", process' # 0
             PROVE  /\ writer'[<<"capture", process'>>].at # "runtime"
                    /\ process' \in saidFatal' /\ procs'[process'].st = "run" =>
                         failure' # NoLine \/ Carried(process)'
  BY DEF FailureOK, Carried
<1>0. OsShape /\ CoreShape /\ DiagShape /\ RunShape
  BY ShapeParts
<1> USE DEF osVars, coreVars, diagVars, logVars
<1> DEFINE c == <<"capture", process>>
<1>w. \A p \in Pids : <<"capture", p>> \in Writers /\ <<"exit", p>> \in Writers
  BY DEF Writers
<1>1. CASE Spawn
  <2>1. process = 0
    BY <1>1 DEF Spawn, ProcessOK, StartPlaces
  <2>2. PICK p \in Pids : /\ procs[p].st = "none" /\ process' = p
                          /\ writer' = [writer EXCEPT ![<<"capture", p>>].at = "scan"]
    BY <1>1, <2>1 DEF Spawn
  <2>3. writer'[<<"capture", p>>].at = "scan"
    BY <1>0, <1>w, <2>2 DEF RunShape, Writer
  <2>4. p \notin saidFatal /\ saidFatal' = saidFatal
    BY <1>1, <2>2 DEF ProcessOK, Spawn
  <2> QED  BY <2>2, <2>3, <2>4
<1>2. CASE ~Spawn
  <2>1. check = "wait" /\ process' = process /\ ~NodeCrash /\ ~StopClear
    BY <1>2 DEF Next, Job, Say, Listen, Exit, Wait, Scan, handleProcessExit, Record, isStartupLogPhase,
         captureStartupLogLine, captureRuntimeLogLine, CheckAnswered, CheckGivesUp, SwitchPhase,
         DisableStartupDiagnostics, vars, Call, StopKill, StopWait, StartBegin, ListOrphans,
         cleanupOrphanedProcesses, ClearSockets, StopClear, NodeCrash
  <2>2. process \in Pids /\ phase = "startup" /\ enabled /\ ContextLive(process)
    BY <1>0, <2>1 DEF CoreShape, DiagnosticsOK, ProcessOK, ContextLive
  <2>3. /\ writer[c].at # "runtime"
        /\ process \in saidFatal /\ procs[process].st = "run" => failure # NoLine \/ Carried(process)
    BY <2>1 DEF FailureOK, Carried
  \* A step that leaves the process, its pipe, its capture and the record alone.
  <2>4. CASE /\ saidFatal' = saidFatal /\ failure' = failure
             /\ procs'[process].st = "run" => procs[process].st = "run"
             /\ pipe'[process] = pipe[process] /\ writer'[c] = writer[c]
    BY <2>1, <2>3, <2>4 DEF Carried
  <2>5. ASSUME NEW p \in Pids, NEW fatal \in BOOLEAN, Say(p, fatal)
        PROVE  /\ writer'[c].at # "runtime"
               /\ process \in saidFatal' /\ procs'[process].st = "run" =>
                    failure' # NoLine \/ Carried(process)'
    <3>1. /\ pipe' = [pipe EXCEPT ![p] = Append(@, [pid |-> p, fatal |-> fatal])]
          /\ saidFatal' = (IF fatal THEN saidFatal \cup {p} ELSE saidFatal)
          /\ writer' = writer /\ failure' = failure /\ procs' = procs /\ process' = process
      BY <2>1, <2>5 DEF Say
    <3>2. CASE p # process
      <4>1. pipe'[process] = pipe[process] /\ (process \in saidFatal' => process \in saidFatal)
        BY <1>0, <2>2, <3>1, <3>2 DEF OsShape
      <4> QED  BY <2>3, <3>1, <4>1 DEF Carried
    <3>3. CASE p = process
      <4> DEFINE line == [pid |-> p, fatal |-> fatal]
      <4>1. pipe[p] \in Seq(Lines) /\ line \in Lines
        BY <1>0 DEF OsShape, Lines
      <4>2. pipe'[p] = Append(pipe[p], line)
        BY <1>0, <3>1 DEF OsShape
      <4> HIDE DEF line
      <4>3. /\ Len(pipe'[p]) = Len(pipe[p]) + 1 /\ Len(pipe[p]) \in Nat
            /\ pipe'[p][Len(pipe'[p])] = line
            /\ \A k \in 1..Len(pipe[p]) : pipe'[p][k] = pipe[p][k]
        BY <4>1, <4>2
      <4>4. CASE fatal
        <5>1. line.fatal
          BY <4>4 DEF line
        <5>2. Carried(process)'
          BY <3>1, <3>3, <4>3, <5>1 DEF Carried
        <5> QED  BY <2>3, <3>1, <5>2
      <4>5. CASE ~fatal
        <5>1. Carried(process) => Carried(process)'
          BY <3>1, <3>3, <4>3 DEF Carried
        <5> QED  BY <2>3, <3>1, <4>5, <5>1
      <4> QED  BY <4>4, <4>5
    <3> QED  BY <3>2, <3>3
  <2>6. ASSUME NEW p \in Pids, Listen(p) \/ Exit(p)
        PROVE  /\ writer'[c].at # "runtime"
               /\ process \in saidFatal' /\ procs'[process].st = "run" =>
                    failure' # NoLine \/ Carried(process)'
    <3>1. UNCHANGED <<pipe, writer, failure, saidFatal>>
      BY <2>6 DEF Listen, Exit
    <3>2. procs'[process].st = "run" => procs[process].st = "run"
      <4>1. CASE Listen(p)
        BY <1>0, <2>2, <4>1 DEF Listen, OsShape, Proc
      <4>2. CASE Exit(p)
        BY <1>0, <2>2, <4>2 DEF Exit, OsShape, Proc
      <4> QED  BY <2>6, <4>1, <4>2
    <3> QED  BY <2>1, <2>3, <3>1, <3>2 DEF Carried
  <2>7. ASSUME NEW p \in Pids, Wait(p) \/ handleProcessExit(p)
        PROVE  /\ writer'[c].at # "runtime"
               /\ process \in saidFatal' /\ procs'[process].st = "run" =>
                    failure' # NoLine \/ Carried(process)'
    <3>1. UNCHANGED <<failure, saidFatal>>
      BY <2>7 DEF Wait, handleProcessExit
    <3>2. \A v \in Writers : v # <<"exit", p>> => writer'[v] = writer[v]
      BY <1>0, <1>w, <2>7 DEF Wait, handleProcessExit, RunShape
    <3>3. writer'[c] = writer[c]
      BY <1>w, <2>2, <3>2
    <3>4. CASE p = process /\ Wait(p)
      <4>1. procs'[process].st = "reaped"
        BY <1>0, <3>4 DEF Wait, OsShape, Proc
      <4> QED  BY <2>3, <3>3, <4>1
    <3>5. CASE p # process /\ Wait(p)
      <4>1. pipe'[process] = pipe[process] /\ procs'[process] = procs[process]
        BY <1>0, <2>2, <3>5 DEF Wait, OsShape
      <4> QED  BY <2>1, <2>3, <3>1, <3>3, <4>1 DEF Carried
    <3>6. CASE handleProcessExit(p)
      <4>1. UNCHANGED <<pipe, procs>>
        BY <3>6 DEF handleProcessExit
      <4> QED  BY <2>1, <2>3, <3>1, <3>3, <4>1 DEF Carried
    <3> QED  BY <2>7, <3>4, <3>5, <3>6
  <2>8. ASSUME NEW p \in Pids, Scan(p)
        PROVE  /\ writer'[c].at # "runtime"
               /\ process \in saidFatal' /\ procs'[process].st = "run" =>
                    failure' # NoLine \/ Carried(process)'
    <3>1. UNCHANGED <<failure, saidFatal, procs>>
      BY <2>8 DEF Scan
    <3>2. CASE p # process
      <4>1. pipe'[process] = pipe[process]
        BY <1>0, <2>2, <2>8, <3>2 DEF Scan, OsShape
      <4>2. writer'[c] = writer[c]
        <5>1. c # <<"capture", p>>
          BY <3>2
        <5> QED  BY <1>0, <1>w, <2>2, <2>8, <5>1 DEF Scan, RunShape
      <4> QED  BY <2>1, <2>3, <3>1, <4>1, <4>2 DEF Carried
    <3>3. CASE p = process
      <4>1. CASE /\ pipe[p] # <<>> /\ pipe' = [pipe EXCEPT ![p] = Tail(@)]
                 /\ writer' = [writer EXCEPT ![c] = [at |-> "phase", line |-> Head(pipe[p])]]
        <5>1. pipe[p] \in Seq(Lines)
          BY <1>0 DEF OsShape
        <5>2. writer'[c].at = "phase" /\ writer'[c].line = Head(pipe[p]) /\ pipe'[p] = Tail(pipe[p])
          BY <1>0, <1>w, <2>2, <3>3, <4>1 DEF RunShape, OsShape
        <5>3. ASSUME NEW k \in 1..Len(pipe[p]), pipe[p][k].fatal PROVE Carried(process)'
          <6>1. CASE k = 1
            <7>1. Head(pipe[p]) = pipe[p][1]
              BY <4>1, <5>1
            <7>2. process' = process
              BY <2>1
            <7> QED  BY <3>3, <5>2, <5>3, <6>1, <7>1, <7>2 DEF Carried
          <6>2. CASE k > 1
            <7>1. k - 1 \in 1..Len(Tail(pipe[p])) /\ Tail(pipe[p])[k - 1] = pipe[p][k]
              BY <4>1, <5>1, <6>2
            <7>2. pipe'[process][k - 1].fatal /\ k - 1 \in 1..Len(pipe'[process])
              BY <3>3, <5>2, <5>3, <7>1
            <7> QED  BY <2>1, <7>2 DEF Carried
          <6> QED  BY <6>1, <6>2
        <5>4. Carried(process) => Carried(process)'
          <6>1. writer[c].at = "scan"
            BY <2>8, <3>3 DEF Scan
          <6> QED  BY <3>3, <5>3, <6>1 DEF Carried
        <5> QED  BY <2>3, <3>1, <5>2, <5>4
      <4>2. CASE pipe[p] = <<>> /\ writer' = [writer EXCEPT ![c] = Quiet]
        <5>1. writer'[c].at = "off"
          BY <1>0, <1>w, <2>2, <4>2 DEF RunShape, Quiet
        <5>2. writer[c].at = "scan" /\ Len(pipe[p]) = 0
          BY <2>8, <3>3, <4>2 DEF Scan
        <5>3. ~Carried(process)
          BY <3>3, <5>2 DEF Carried
        <5> QED  BY <2>3, <3>1, <5>1, <5>3
      <4> QED  BY <2>2, <2>8, <3>3, <4>1, <4>2 DEF Scan
    <3> QED  BY <3>2, <3>3
  <2>9. ASSUME NEW w \in Writers, Record(w)
        PROVE  /\ writer'[c].at # "runtime"
               /\ process \in saidFatal' /\ procs'[process].st = "run" =>
                    failure' # NoLine \/ Carried(process)'
    <3>1. UNCHANGED <<pipe, saidFatal, procs>>
      BY <2>9 DEF Record, isStartupLogPhase, captureStartupLogLine, captureRuntimeLogLine
    <3>2. \A v \in Writers : v # w => writer'[v] = writer[v]
      BY <1>0, <2>9 DEF Record, isStartupLogPhase, captureStartupLogLine, captureRuntimeLogLine,
                        Recorded, RunShape
    <3>3. ASSUME NEW v \in Writers, writer[v].at = "startup", w = v, writer[v].line.fatal
          PROVE  failure' # NoLine
      <4>1. failure' = writer[v].line
        BY <2>2, <2>9, <3>3 DEF Record, isStartupLogPhase, captureStartupLogLine,
                                captureRuntimeLogLine, isStartupFailureLog
      <4> QED  BY <3>3, <4>1 DEF NoLine
    <3>4. failure # NoLine => failure' # NoLine
      <4>1. failure' = failure \/ (failure' = writer[w].line /\ writer[w].line.fatal)
        BY <2>9 DEF Record, isStartupLogPhase, captureStartupLogLine, captureRuntimeLogLine,
                    isStartupFailureLog
      <4> QED  BY <4>1 DEF NoLine
    <3>5. CASE w # c
      <4>1. writer'[c] = writer[c]
        BY <1>w, <2>2, <3>2, <3>5
      <4> QED  BY <2>1, <2>3, <3>1, <3>4, <4>1 DEF Carried
    <3>6. CASE w = c
      <4>1. CASE isStartupLogPhase(w)
        <5>1. /\ writer'[c].at = "startup" /\ writer'[c].line = writer[c].line
              /\ writer[c].at = "phase"
          BY <1>0, <1>w, <2>2, <3>6, <4>1 DEF isStartupLogPhase, RunShape, Writer
        <5>2. Carried(process) => Carried(process)'
          BY <2>1, <3>1, <5>1 DEF Carried
        <5> QED  BY <2>3, <3>1, <3>4, <5>1, <5>2
      <4>2. CASE captureStartupLogLine(w)
        <5>1. writer'[c].at = "scan" /\ writer[c].at = "startup" /\ c \in Writers
          BY <1>0, <1>w, <2>2, <3>6, <4>2 DEF captureStartupLogLine, Recorded, RunShape, Writer
        <5>2. Carried(process) => failure' # NoLine \/ Carried(process)'
          BY <2>1, <3>1, <3>3, <3>6, <5>1 DEF Carried
        <5> QED  BY <2>3, <3>1, <3>4, <5>1, <5>2
      <4>3. ~captureRuntimeLogLine(w)
        BY <2>3, <3>6 DEF captureRuntimeLogLine
      <4> QED  BY <2>9, <4>1, <4>2, <4>3 DEF Record
    <3> QED  BY <3>5, <3>6
  <2>10. CASE \/ \E by \in {"op", "health", "shutdown"} : Call(by)
              \/ ListOrphans \/ ClearSockets
              \/ CheckAnswered \/ CheckGivesUp \/ SwitchPhase \/ DisableStartupDiagnostics
              \/ UNCHANGED vars
    <3>1. \/ UNCHANGED <<saidFatal, failure, procs, pipe, writer>>
          \/ DisableStartupDiagnostics
      BY <2>10 DEF Call, ListOrphans, ClearSockets, CheckAnswered, CheckGivesUp,
                   SwitchPhase, vars
    <3>2. ~DisableStartupDiagnostics
      BY <2>1 DEF DisableStartupDiagnostics
    <3> QED  BY <2>4, <3>1, <3>2
  <2>11. ~StartBegin /\ ~cleanupOrphanedProcesses
    BY <2>1 DEF StartBegin, cleanupOrphanedProcesses, ProcessOK, StartPlaces
  <2>12. CASE StopKill \/ StopWait
    <3>1. UNCHANGED <<saidFatal, failure, pipe, writer>>
      BY <2>12 DEF StopKill, StopWait
    <3>2. procs'[process].st = procs[process].st
      BY <1>0, <2>2, <2>12 DEF StopKill, StopWait, killProcessTree, Doom, OsShape, Proc
    <3> QED  BY <2>4, <3>1, <3>2
  <2> QED
    BY <1>2, <2>1, <2>5, <2>6, <2>7, <2>8, <2>9, <2>10, <2>11, <2>12 DEF Next, Job
<1> QED  BY <1>1, <1>2

--------------------------------------------------------------------------------
(* The rings of the core                                                   *)

LEMMA RingsInit == Init => RingsOK
BY NewRing, CoreAssumption DEF Init, RingsOK

LEMMA RingsNext == Shape /\ RingsOK /\ [Next]_vars => RingsOK'
<1> SUFFICES ASSUME Shape, RingsOK, [Next]_vars PROVE RingsOK'
  OBVIOUS
<1>0. DiagShape /\ RunShape
  BY ShapeParts
<1> USE DEF osVars, coreVars, diagVars, logVars
<1>1. /\ RingOK(newStartupLogRing(RingSize), <<>>, RingSize)
      /\ RingOK(newStartupLogRing(RuntimeSize), <<>>, RuntimeSize)
  BY NewRing, CoreAssumption
<1>2. ASSUME NEW w \in Writers, Record(w) PROVE RingsOK'
  <2> DEFINE line == writer[w].line
  <2>1. line \in AnyLine
    BY <1>0 DEF RunShape, Writer
  <2> HIDE DEF line
  <2>2. /\ RingOK(add(startup, line), Append(startupSaid, line), RingSize)
        /\ RingOK(add(runtime, line), Append(runtimeSaid, line), RuntimeSize)
    BY <1>0, <2>1, AddToRing, CoreAssumption DEF DiagShape, RingsOK
  <2>3. /\ \/ UNCHANGED <<startup, startupSaid>>
           \/ startup' = add(startup, line) /\ startupSaid' = Append(startupSaid, line)
        /\ \/ UNCHANGED <<runtime, runtimeSaid>>
           \/ runtime' = add(runtime, line) /\ runtimeSaid' = Append(runtimeSaid, line)
    BY <1>2 DEF Record, isStartupLogPhase, captureStartupLogLine, captureRuntimeLogLine, line
  <2> QED  BY <2>2, <2>3 DEF RingsOK
<1>3. CASE /\ \/ UNCHANGED <<startup, startupSaid>>
              \/ startup' = newStartupLogRing(RingSize) /\ startupSaid' = <<>>
           /\ \/ UNCHANGED <<runtime, runtimeSaid>>
              \/ runtime' = newStartupLogRing(RuntimeSize) /\ runtimeSaid' = <<>>
  BY <1>1, <1>3 DEF RingsOK
<1> QED
  BY <1>2, <1>3
     DEF Next, Job, Say, Listen, Exit, Wait, Scan, handleProcessExit, CheckAnswered, CheckGivesUp,
         SwitchPhase, DisableStartupDiagnostics, vars, Call, StopKill, StopWait, StopClear, StartBegin,
         ListOrphans, cleanupOrphanedProcesses, ClearSockets, Spawn, NodeCrash

LEMMA CoreInvariant == Spec => []CoreInv
<1>1. Init => CoreInv
  BY ShapeInit, ProcessInit, GroupsInit, KillInit, LateInit, DiagnosticsInit, RingsInit DEF CoreInv
<1>2. CoreInv /\ [Next]_vars => CoreInv'
  BY ShapeNext, ProcessNext, GroupsNext, KillNext, LateNext, DiagnosticsNext, FailureNext, RingsNext DEF CoreInv
<1> QED  BY <1>1, <1>2, PTL DEF Spec

--------------------------------------------------------------------------------
\* Every variable of the core, its processes and its goroutines keeps its type.
THEOREM CoreTypeCorrect == Spec => []CoreTypeOK
<1>1. CoreInv => CoreTypeOK
  BY DEF CoreInv, Shape
<1> QED  BY <1>1, CoreInvariant, PTL

\* For rings of every size and any number of lines, a tail of either ring is
\* the last lines it was given since its reset (startup_diagnostics.go:49).
THEOREM TailsAreRecent == Spec => []TailIsRecent
<1>1. CoreInv => TailIsRecent
  <2> SUFFICES ASSUME CoreInv, NEW n \in 0..(RingSize + RuntimeSize)
               PROVE  /\ tail(startup, n) = LastLines(startupSaid, IF n \in 1..RingSize THEN n ELSE RingSize)
                      /\ tail(runtime, n) = LastLines(runtimeSaid, IF n \in 1..RuntimeSize THEN n ELSE RuntimeSize)
    BY DEF TailIsRecent
  <2>1. DiagShape /\ RingsOK /\ n \in Nat
    BY ShapeParts, CoreAssumption DEF CoreInv
  <2> QED  BY <2>1, TailOfRing, CoreAssumption DEF DiagShape, RingsOK
<1> QED  BY <1>1, CoreInvariant, PTL

\* However Stop and the capture of the output interleave, a process that was
\* stopped adds at most one line (captureProcessLogs, log.go:32).
THEOREM LateLinesAreBounded == Spec => []OneLateLine
<1>1. CoreInv => OneLateLine
  <2> SUFFICES ASSUME CoreInv, NEW p \in Pids PROVE late[p] <= 1
    BY DEF OneLateLine
  <2>1. late[p] = 0 \/ late[p] = 1
    BY DEF CoreInv, LateOK
  <2> QED  BY <2>1
<1> QED  BY <1>1, CoreInvariant, PTL

\* Whatever other starts, stops and late goroutines do meanwhile, an operation
\* that waits for a start has the failure that the process printed on record
\* once the capture has caught up (captureStartupLogLine, log.go:58).
THEOREM StartupFailuresAreSeen == Spec => []StartupFailureVisible
<1>1. CoreInv => StartupFailureVisible
  <2> SUFFICES ASSUME CoreInv, check = "wait", process \in saidFatal, procs[process].st = "run",
                      pipe[process] = <<>>, writer[<<"capture", process>>].at = "scan"
               PROVE  enabled /\ failure # NoLine
    BY DEF StartupFailureVisible
  <2>1. process # 0
    BY DEF CoreInv, Shape, Pids
  <2>2. enabled
    BY <2>1 DEF CoreInv, DiagnosticsOK
  <2>3. Len(pipe[process]) = 0
    OBVIOUS
  <2>4. ~\E k \in 1..Len(pipe[process]) : pipe[process][k].fatal
    BY <2>3
  <2> QED  BY <2>1, <2>2, <2>4 DEF CoreInv, FailureOK
<1> QED  BY <1>1, CoreInvariant, PTL

\* After a start that could list the processes, the node has no other child
\* alive that it has not killed (core.go:394, cleanupOrphanedProcesses).
THEOREM NoRivalSurvives == Spec => []NoRivalChild
<1>1. CoreInv => NoRivalChild
  BY DEF CoreInv, KillOK, NoRivalChild
<1> QED  BY <1>1, CoreInvariant, PTL

\* Although whole process groups are signalled, and the other node's Xray may
\* share the group of this node, no step signals a living process that is not a
\* child of this node (killProcessTree, setProcAttributes).
THEOREM OnlyOwnAreKilled == Spec => OnlyOwnKilled
<1>1. CoreInv /\ [Next]_vars =>
        [\A p \in Pids : procs[p].st = "run" /\ procs'[p].doomed /\ ~procs[p].doomed
            => p \in Children]_vars
  BY KillStep DEF CoreInv
<1> QED  BY <1>1, CoreInvariant, PTL DEF Spec, OnlyOwnKilled

-----------------------------------------------------------------------------
(* Lists.                                                                  *)

\* A set of natural numbers with 0 and all successors of its elements.
LEMMA NatInductionBySet ==
  ASSUME NEW S \in SUBSET Nat, 0 \in S, \A n \in S : n + 1 \in S
  PROVE  S = Nat
<1> SUFFICES ASSUME Nat \ S # {} PROVE FALSE
  OBVIOUS
<1>0. (Nat \ S) \subseteq Nat
  OBVIOUS
<1> DEFINE R == OpToRel(<, Nat)
<1>1. IsWellFoundedOn(R, Nat)
  BY NatLessThanWellFounded
<1> HIDE DEF R
<1>2. \E x \in Nat \ S : \A y \in Nat \ S : ~ (<<y, x>> \in R)
  BY <1>0, <1>1, WFMin
<1>3. PICK x \in Nat \ S : \A y \in Nat \ S : ~ (<<y, x>> \in R)
  BY <1>2
<1>4. x # 0 /\ x - 1 \in Nat /\ (x - 1) + 1 = x /\ x - 1 < x
  OBVIOUS
<1>5. <<x - 1, x>> \in R
  BY <1>4 DEF R, OpToRel
<1>6. x - 1 \notin S
  BY <1>4
<1> QED BY <1>3, <1>4, <1>5, <1>6

\* f joins the first m of some lists.
Joins(f, p, m, T) ==
  /\ f \in [0..m -> Seq(T)] /\ f[0] = <<>>
  /\ \A n \in 1..m : f[n] = f[n - 1] \o p[n]

LEMMA JoinsExist ==
  ASSUME NEW T, NEW p \in Seq(Seq(T))
  PROVE  \A m \in Nat : m <= Len(p) => \E f : Joins(f, p, m, T)
<1> DEFINE P(m) == m <= Len(p) => \E f : Joins(f, p, m, T)
           S == {m \in Nat : P(m)}
<1>0. \A n \in 1..Len(p) : p[n] \in Seq(T)
  OBVIOUS
<1>1. P(0)
  <2> DEFINE f == [n \in 0..0 |-> <<>>]
  <2>1. f \in [0..0 -> Seq(T)] /\ f[0] = <<>>
    OBVIOUS
  <2>2. Joins(f, p, 0, T)
    BY <2>1 DEF Joins
  <2> QED BY <2>2
<1>2. ASSUME NEW m \in Nat, P(m) PROVE P(m + 1)
  <2> HAVE m + 1 <= Len(p)
  <2>0. m <= Len(p) /\ m + 1 \in 1..Len(p)
    OBVIOUS
  <2>1. PICK f : Joins(f, p, m, T)
    BY <1>2, <2>0
  <2> DEFINE last == f[m] \o p[m + 1]
             g == [n \in 0..(m + 1) |-> IF n = m + 1 THEN last ELSE f[n]]
  <2>2. last \in Seq(T)
    <3>1. f[m] \in Seq(T) /\ p[m + 1] \in Seq(T)
      BY <1>0, <2>0, <2>1 DEF Joins
    <3> QED BY <3>1
  <2>3. f \in [0..m -> Seq(T)] /\ f[0] = <<>> /\ \A n \in 1..m : f[n] = f[n - 1] \o p[n]
    BY <2>1 DEF Joins
  <2> HIDE DEF last
  <2>4. g \in [0..(m + 1) -> Seq(T)] /\ g[m + 1] = last /\ \A n \in 0..m : g[n] = f[n]
    <3>1. ASSUME NEW n \in 0..(m + 1) PROVE (IF n = m + 1 THEN last ELSE f[n]) \in Seq(T)
      <4>1. CASE n = m + 1
        BY <2>2, <4>1
      <4>2. CASE n # m + 1
        <5>1. n \in 0..m
          BY <4>2
        <5> QED BY <2>3, <4>2, <5>1
      <4> QED BY <4>1, <4>2
    <3>2. g \in [0..(m + 1) -> Seq(T)]
      BY <3>1
    <3>3. m + 1 \in 0..(m + 1) /\ \A n \in 0..m : n \in 0..(m + 1) /\ n # m + 1
      OBVIOUS
    <3> QED BY <3>2, <3>3
  <2> HIDE DEF g
  <2>5. g[0] = <<>>
    BY <2>3, <2>4
  <2>6. ASSUME NEW n \in 1..(m + 1) PROVE g[n] = g[n - 1] \o p[n]
    <3>1. CASE n = m + 1
      <4>1. n - 1 = m /\ m \in 0..m
        BY <3>1
      <4>2. g[n - 1] = f[m]
        BY <2>4, <4>1
      <4> QED BY <2>4, <3>1, <4>2 DEF last
    <3>2. CASE n \in 1..m
      <4>1. n \in 0..m /\ n - 1 \in 0..m
        BY <3>2
      <4> QED BY <2>3, <2>4, <3>2, <4>1
    <3>3. n = m + 1 \/ n \in 1..m
      OBVIOUS
    <3> QED BY <3>1, <3>2, <3>3
  <2>7. Joins(g, p, m + 1, T)
    BY <2>4, <2>5, <2>6 DEF Joins
  <2> QED BY <2>7
<1>3. S = Nat
  <2>1. S \in SUBSET Nat /\ 0 \in S
    BY <1>1
  <2>2. \A m \in S : m + 1 \in S
    <3> HIDE DEF P
    <3> QED BY <1>2
  <2> HIDE DEF S
  <2> QED BY <2>1, <2>2, NatInductionBySet
<1> QED BY <1>3

\* FlattenSeq computes what joins all of the lists.
LEMMA FlattenJoins ==
  ASSUME NEW T, NEW p \in Seq(Seq(T)), NEW f, Joins(f, p, Len(p), T)
  PROVE  FlattenSeq(p) = f[Len(p)]
<1> DEFINE n == Len(p)
           Step(h) == [i \in 1..n |-> IF i = 1 THEN p[i] ELSE h[i - 1] \o p[i]]
           flat == CHOOSE h : h = Step(h)
<1>0. n \in Nat /\ n <= Len(p) /\ \A i \in 1..n : p[i] \in Seq(T)
  OBVIOUS
<1>2. f \in [0..n -> Seq(T)] /\ f[0] = <<>> /\ \A i \in 1..n : f[i] = f[i - 1] \o p[i]
  BY DEF Joins
<1>3. CASE n = 0
  <2>1. p = <<>> /\ f[n] = <<>>
    BY <1>2, <1>3
  <2>2. FlattenSeq(p) = p
    BY <1>3 DEF FlattenSeq
  <2> QED BY <2>1, <2>2
<1>4. CASE n # 0
  <2>a. f[1] = p[1]
    <3>1. 1 \in 1..n /\ 1 - 1 = 0
      BY <1>0, <1>4
    <3> HIDE DEF n
    <3>2. f[1] = f[1 - 1] \o p[1] /\ p[1] \in Seq(T)
      BY <1>0, <1>2, <3>1
    <3>3. f[1] = <<>> \o p[1]
      BY <1>2, <3>1, <3>2
    <3> QED BY <3>2, <3>3
  <2> DEFINE g == [i \in 1..n |-> f[i]]
  <2>1. g = Step(g)
    <3>1. ASSUME NEW i \in 1..n PROVE g[i] = IF i = 1 THEN p[i] ELSE g[i - 1] \o p[i]
      <4>1. CASE i = 1
        BY <2>a, <4>1
      <4>2. CASE i # 1
        <5>1. i - 1 \in 1..n
          BY <4>2
        <5> QED BY <1>2, <4>2, <5>1
      <4> QED BY <4>1, <4>2
    <3> QED BY <3>1
  <2>2. flat = Step(flat)
    <3> HIDE DEF Step, g
    <3> QED BY <2>1
  <2>3. FlattenSeq(p) = flat[n]
    BY <1>0, <1>4 DEF FlattenSeq
  <2> HIDE DEF flat
  <2>4. \A i \in 1..n : flat[i] = IF i = 1 THEN p[i] ELSE flat[i - 1] \o p[i]
    BY <2>2
  <2> DEFINE P(k) == k + 1 <= n => flat[k + 1] = f[k + 1]
             S == {k \in Nat : P(k)}
  <2> HIDE DEF n
  <2>6. P(0)
    <3>1. 1 \in 1..n
      BY <1>0, <1>4
    <3>2. flat[1] = p[1]
      BY <2>4, <3>1
    <3> QED BY <2>a, <3>2
  <2>7. ASSUME NEW k \in Nat, P(k) PROVE P(k + 1)
    <3> HAVE (k + 1) + 1 <= n
    <3>1. k + 1 <= n /\ (k + 1) + 1 \in 1..n /\ (k + 1) + 1 # 1 /\ ((k + 1) + 1) - 1 = k + 1
      BY <1>0
    <3>2. flat[k + 1] = f[k + 1]
      BY <2>7, <3>1
    <3>3. /\ flat[(k + 1) + 1] = flat[k + 1] \o p[(k + 1) + 1]
          /\ f[(k + 1) + 1] = f[k + 1] \o p[(k + 1) + 1]
      BY <1>2, <2>4, <3>1
    <3> QED BY <3>2, <3>3
  <2>8. S = Nat
    <3>1. S \in SUBSET Nat /\ 0 \in S
      BY <2>6
    <3>2. \A k \in S : k + 1 \in S
      <4> HIDE DEF P
      <4> QED BY <2>7
    <3> HIDE DEF S
    <3> QED BY <3>1, <3>2, NatInductionBySet
  <2>9. flat[n] = f[n]
    <3>1. n - 1 \in Nat /\ (n - 1) + 1 = n
      BY <1>0, <1>4
    <3>2. P(n - 1)
      BY <2>8, <3>1
    <3> QED BY <3>1, <3>2
  <2> QED BY <2>3, <2>9 DEF n
<1> QED BY <1>3, <1>4

\* FlattenSeq joins lists of the same kind into one, from left to right.
LEMMA FlattenAppend ==
  ASSUME NEW T, NEW p \in Seq(Seq(T)), NEW x \in Seq(T)
  PROVE  /\ FlattenSeq(p) \in Seq(T)
         /\ FlattenSeq(Append(p, x)) = FlattenSeq(p) \o x
<1> DEFINE n == Len(p)
           q == Append(p, x)
<1>1. q \in Seq(Seq(T)) /\ Len(q) = n + 1 /\ q[n + 1] = x /\ n \in Nat /\ \A i \in 1..n : q[i] = p[i]
  OBVIOUS
<1> HIDE DEF q
<1>2. PICK f : Joins(f, q, Len(q), T)
  <2>1. Len(q) \in Nat /\ Len(q) <= Len(q)
    BY <1>1
  <2> QED BY <1>1, <2>1, JoinsExist
<1>3. f \in [0..(n + 1) -> Seq(T)] /\ f[0] = <<>> /\ \A i \in 1..(n + 1) : f[i] = f[i - 1] \o q[i]
  BY <1>1, <1>2 DEF Joins
<1> DEFINE g == [i \in 0..n |-> f[i]]
<1>4. Joins(g, p, n, T)
  <2>1. g \in [0..n -> Seq(T)] /\ g[0] = <<>>
    BY <1>1, <1>3
  <2>2. ASSUME NEW i \in 1..n PROVE g[i] = g[i - 1] \o p[i]
    <3>1. i \in 1..(n + 1) /\ i \in 0..n /\ i - 1 \in 0..n
      BY <1>1
    <3>2. g[i] = f[i] /\ g[i - 1] = f[i - 1]
      BY <3>1
    <3> HIDE DEF g, n
    <3> QED BY <1>1, <1>3, <3>1, <3>2
  <2> HIDE DEF g, n
  <2> QED BY <2>1, <2>2 DEF Joins
<1>5. g[n] = f[n] /\ f[n] \in Seq(T)
  BY <1>1, <1>3
<1> HIDE DEF g
<1>6. FlattenSeq(p) = f[n]
  BY <1>4, <1>5, FlattenJoins
<1>7. FlattenSeq(q) = f[n + 1]
  BY <1>1, <1>2, FlattenJoins
<1>8. f[n + 1] = f[n] \o x
  <2> HIDE DEF n
  <2>1. n + 1 \in 1..(n + 1) /\ (n + 1) - 1 = n
    BY <1>1
  <2> QED BY <1>1, <1>3, <2>1
<1> QED BY <1>5, <1>6, <1>7, <1>8 DEF q

LEMMA FlattenEmpty == FlattenSeq(<<>>) = <<>>
BY DEF FlattenSeq

\* A set of lists with the empty one and, for each, those with one element more.
LEMMA ListInduction ==
  ASSUME NEW T, NEW S, S \subseteq Seq(T), <<>> \in S,
         \A s \in S : \A e \in T : Append(s, e) \in S
  PROVE  S = Seq(T)
<1> DEFINE P(n) == \A s \in Seq(T) : Len(s) = n => s \in S
           N == {n \in Nat : P(n)}
<1>1. P(0)
  OBVIOUS
<1>2. ASSUME NEW n \in Nat, P(n) PROVE P(n + 1)
  <2> SUFFICES ASSUME NEW s \in Seq(T), Len(s) = n + 1 PROVE s \in S
    OBVIOUS
  <2>1. s # <<>>
    OBVIOUS
  <2>2. PICK front \in Seq(T), e \in T : s = Append(front, e)
    BY <2>1, SequenceEmptyOrAppend
  <2>3. Len(front) = n
    BY <2>2, AppendProperties
  <2>4. front \in S
    BY <1>2, <2>3
  <2> QED BY <2>2, <2>4
<1>3. N = Nat
  <2>1. N \in SUBSET Nat /\ 0 \in N
    BY <1>1
  <2>2. \A k \in N : k + 1 \in N
    <3> HIDE DEF P
    <3> QED BY <1>2
  <2> HIDE DEF N
  <2> QED BY <2>1, <2>2, NatInductionBySet
<1>4. ASSUME NEW s \in Seq(T) PROVE s \in S
  <2>1. Len(s) \in Nat
    OBVIOUS
  <2> QED BY <1>3, <2>1
<1> QED BY <1>4

\* Each element of a list replaced by a list.
Pieces(F, l) == FlattenSeq([k \in DOMAIN l |-> F[l[k]]])

Replacements(T) == [T -> Seq(T)]

LEMMA PiecesAppend ==
  ASSUME NEW T, NEW F \in Replacements(T), NEW l \in Seq(T), NEW e \in T
  PROVE  Pieces(F, l) \in Seq(T) /\ Pieces(F, Append(l, e)) = Pieces(F, l) \o F[e]
<1> USE DEF Replacements
<1> DEFINE m == Append(l, e)
           p == [k \in DOMAIN l |-> F[l[k]]]
           q == [k \in DOMAIN m |-> F[m[k]]]
<1>1. /\ m \in Seq(T) /\ DOMAIN m = 1..(Len(l) + 1) /\ m[Len(l) + 1] = e /\ DOMAIN l = 1..Len(l)
      /\ Len(l) \in Nat /\ \A k \in 1..Len(l) : m[k] = l[k] /\ l[k] \in T
  OBVIOUS
<1> HIDE DEF m
<1>2. p \in Seq(Seq(T)) /\ Len(p) = Len(l) /\ F[e] \in Seq(T)
  BY <1>1
<1>3. q = Append(p, F[e])
  <2>1. q \in Seq(Seq(T)) /\ Len(q) = Len(l) + 1
    <3>1. \A k \in 1..(Len(l) + 1) : m[k] \in T
      BY <1>1
    <3> QED BY <1>1, <3>1
  <2>2. Append(p, F[e]) \in Seq(Seq(T)) /\ Len(Append(p, F[e])) = Len(l) + 1
    BY <1>2
  <2>3. /\ \A k \in 1..(Len(l) + 1) : q[k] = F[m[k]]
        /\ \A k \in 1..Len(l) : p[k] = F[l[k]]
    BY <1>1
  <2> HIDE DEF p, q
  <2>4. ASSUME NEW k \in 1..(Len(l) + 1) PROVE q[k] = Append(p, F[e])[k]
    <3>1. CASE k = Len(l) + 1
      <4>1. q[k] = F[e]
        BY <1>1, <2>3, <3>1
      <4> QED BY <1>2, <3>1, <4>1
    <3>2. CASE k # Len(l) + 1
      <4>1. k \in 1..Len(l)
        BY <1>1, <3>2
      <4>2. q[k] = p[k]
        BY <1>1, <2>3, <4>1
      <4> QED BY <1>2, <4>1, <4>2
    <3> QED BY <3>1, <3>2
  <2>5. Len(q) = Len(Append(p, F[e])) /\ \A k \in 1..Len(q) : q[k] = Append(p, F[e])[k]
    BY <2>1, <2>2, <2>4
  <2> QED BY <2>1, <2>2, <2>5, SeqEqual
<1> HIDE DEF p, q
<1>4. FlattenSeq(p) \in Seq(T) /\ FlattenSeq(q) = FlattenSeq(p) \o F[e]
  BY <1>2, <1>3, FlattenAppend
<1> QED BY <1>4 DEF p, q, m, Pieces

\* Of an empty list nothing is left.
LEMMA PiecesOfNone ==
  ASSUME NEW T, NEW p, DOMAIN p = DOMAIN <<>>, \A k \in DOMAIN p : p[k] \in Seq(T), p = [k \in DOMAIN p |-> p[k]]
  PROVE  FlattenSeq(p) = <<>>
<1>1. DOMAIN p = 1..0
  OBVIOUS
<1>2. p \in Seq(Seq(T)) /\ Len(p) = 0
  BY <1>1
<1>3. p = <<>>
  BY <1>2
<1> QED BY <1>3, FlattenEmpty

LEMMA RangeAppend ==
  ASSUME NEW T, NEW l \in Seq(T), NEW e \in T
  PROVE  /\ Range(<<>>) = {}
         /\ Range(Append(l, e)) = Range(l) \cup {e}
         /\ Range(l) \subseteq T
<1>1. Range(<<>>) = {}
  BY DEF Range
<1>2. Range(l) \subseteq T
  BY DEF Range
<1> DEFINE m == Append(l, e)
<1>3. /\ DOMAIN m = 1..(Len(l) + 1) /\ DOMAIN l = 1..Len(l) /\ Len(l) \in Nat
      /\ m[Len(l) + 1] = e /\ \A k \in 1..Len(l) : m[k] = l[k]
  OBVIOUS
<1> HIDE DEF m
<1>4. \A k \in 1..(Len(l) + 1) : k \in 1..Len(l) \/ k = Len(l) + 1
  BY <1>3
<1>5. \A k \in 1..Len(l) : k \in 1..(Len(l) + 1)
  BY <1>3
<1>6. Len(l) + 1 \in 1..(Len(l) + 1)
  BY <1>3
<1>7. Range(m) = Range(l) \cup {e}
  BY <1>3, <1>4, <1>5, <1>6 DEF Range
<1> QED BY <1>1, <1>2, <1>7 DEF m

-----------------------------------------------------------------------------
(* Keep.                                                                   *)

LEMMA KeepAppend ==
  ASSUME NEW T, NEW S, NEW l \in Seq(T), NEW e \in T
  PROVE  /\ Keep(l, S) \in Seq(T)
         /\ Keep(Append(l, e), S) = IF e \in S THEN Append(Keep(l, S), e) ELSE Keep(l, S)
<1> DEFINE F == [x \in T |-> IF x \in S THEN <<x>> ELSE <<>>]
<1>1. F \in Replacements(T)
  BY DEF Replacements
<1>2. ASSUME NEW m \in Seq(T) PROVE Keep(m, S) = Pieces(F, m)
  <2>1. \A k \in DOMAIN m : m[k] \in T
    OBVIOUS
  <2>2. [k \in DOMAIN m |-> F[m[k]]] = [k \in DOMAIN m |-> IF m[k] \in S THEN <<m[k]>> ELSE <<>>]
    BY <2>1
  <2> QED BY <2>2 DEF Keep, Pieces
<1>3. Append(l, e) \in Seq(T)
  OBVIOUS
<1>4. F[e] = IF e \in S THEN <<e>> ELSE <<>>
  OBVIOUS
<1> HIDE DEF F
<1>5. Pieces(F, l) \in Seq(T) /\ Pieces(F, Append(l, e)) = Pieces(F, l) \o F[e]
  BY <1>1, PiecesAppend
<1>6. Keep(l, S) \in Seq(T) /\ Keep(Append(l, e), S) = Keep(l, S) \o F[e]
  BY <1>2, <1>3, <1>5
<1>7. CASE e \in S
  BY <1>4, <1>6, <1>7
<1>8. CASE e \notin S
  BY <1>4, <1>6, <1>8
<1> QED BY <1>7, <1>8

LEMMA KeepEmpty ==
  ASSUME NEW S
  PROVE  Keep(<<>>, S) = <<>>
<1> DEFINE p == [k \in DOMAIN <<>> |-> IF <<>>[k] \in S THEN <<<<>>[k]>> ELSE <<>>]
<1>1. DOMAIN <<>> = {}
  OBVIOUS
<1>2. DOMAIN p = DOMAIN <<>> /\ p = [k \in DOMAIN p |-> p[k]] /\ \A k \in DOMAIN p : p[k] \in Seq({})
  BY <1>1
<1> HIDE DEF p
<1>3. FlattenSeq(p) = <<>>
  BY <1>2, PiecesOfNone
<1> QED BY <1>3 DEF p, Keep

\* What is kept is what is in both.
LEMMA KeepRange ==
  ASSUME NEW T, NEW S, NEW l \in Seq(T)
  PROVE  Keep(l, S) \in Seq(T) /\ Range(Keep(l, S)) = Range(l) \cap S
<1> DEFINE I == {m \in Seq(T) : Keep(m, S) \in Seq(T) /\ Range(Keep(m, S)) = Range(m) \cap S}
<1>1. <<>> \in I
  <2>1. Keep(<<>>, S) = <<>>
    BY KeepEmpty
  <2>2. Range(<<>>) = {}
    BY DEF Range
  <2> DEFINE z == <<>>
  <2> HIDE DEF I
  <2>3. z \in Seq(T) /\ Keep(z, S) = z /\ Range(z) = {}
    BY <2>1, <2>2
  <2> HIDE DEF z
  <2>4. Keep(z, S) \in Seq(T) /\ Range(Keep(z, S)) = Range(z) \cap S
    BY <2>3
  <2>5. z \in I
    BY <2>3, <2>4 DEF I
  <2> QED BY <2>5 DEF z
<1>2. ASSUME NEW m \in I, NEW e \in T PROVE Append(m, e) \in I
  <2>1. m \in Seq(T) /\ Keep(m, S) \in Seq(T) /\ Range(Keep(m, S)) = Range(m) \cap S
    OBVIOUS
  <2>2. Range(Append(m, e)) = Range(m) \cup {e} /\ Append(m, e) \in Seq(T)
    BY <2>1, RangeAppend
  <2>3. CASE e \in S
    <3>1. Keep(Append(m, e), S) = Append(Keep(m, S), e)
      BY <2>1, <2>3, KeepAppend
    <3>2. Range(Append(Keep(m, S), e)) = Range(Keep(m, S)) \cup {e} /\ Append(Keep(m, S), e) \in Seq(T)
      BY <2>1, RangeAppend
    <3> QED BY <2>1, <2>2, <2>3, <3>1, <3>2
  <2>4. CASE e \notin S
    <3>1. Keep(Append(m, e), S) = Keep(m, S)
      BY <2>1, <2>4, KeepAppend
    <3> QED BY <2>1, <2>2, <2>4, <3>1
  <2> QED BY <2>3, <2>4
<1>3. I = Seq(T)
  <2>1. I \subseteq Seq(T)
    OBVIOUS
  <2> HIDE DEF I
  <2> QED BY <1>1, <1>2, <2>1, ListInduction
<1> QED BY <1>3

\* A list within the set is kept as it is.
LEMMA KeepAll ==
  ASSUME NEW T, NEW S, NEW l \in Seq(T), Range(l) \subseteq S
  PROVE  Keep(l, S) = l
<1> DEFINE I == {m \in Seq(T) : Range(m) \subseteq S => Keep(m, S) = m}
<1>1. <<>> \in I
  BY KeepEmpty
<1>2. ASSUME NEW m \in I, NEW e \in T PROVE Append(m, e) \in I
  <2>1. m \in Seq(T) /\ Append(m, e) \in Seq(T)
    OBVIOUS
  <2> SUFFICES ASSUME Range(Append(m, e)) \subseteq S PROVE Keep(Append(m, e), S) = Append(m, e)
    BY <2>1
  <2>2. Range(m) \subseteq S /\ e \in S
    BY <2>1, RangeAppend
  <2>3. Keep(m, S) = m
    BY <2>2
  <2> HIDE DEF I
  <2> QED BY <2>1, <2>2, <2>3, KeepAppend
<1>3. I = Seq(T)
  <2>1. I \subseteq Seq(T)
    OBVIOUS
  <2> HIDE DEF I
  <2> QED BY <1>1, <1>2, <2>1, ListInduction
<1> QED BY <1>3

\* Of a list outside the set nothing is kept.
LEMMA KeepNone ==
  ASSUME NEW T, NEW S, NEW l \in Seq(T), Range(l) \cap S = {}
  PROVE  Keep(l, S) = <<>>
<1>1. Keep(l, S) \in Seq(T) /\ Range(Keep(l, S)) = {}
  BY KeepRange
<1> DEFINE m == Keep(l, S)
<1> HIDE DEF m
<1>2. m \in Seq(T) /\ Range(m) = {}
  BY <1>1 DEF m
<1>3. m = <<>>
  <2> SUFFICES ASSUME m # <<>> PROVE FALSE
    OBVIOUS
  <2>1. 1 \in DOMAIN m
    BY <1>2
  <2> QED BY <1>2, <2>1 DEF Range
<1> QED BY <1>3 DEF m

\* Two sets that agree on the list keep the same.
LEMMA KeepSame ==
  ASSUME NEW T, NEW S, NEW U, NEW l \in Seq(T), Range(l) \cap S = Range(l) \cap U
  PROVE  Keep(l, S) = Keep(l, U)
<1>1. \A k \in DOMAIN l : l[k] \in S <=> l[k] \in U
  BY DEF Range
<1>2. [k \in DOMAIN l |-> IF l[k] \in S THEN <<l[k]>> ELSE <<>>]
        = [k \in DOMAIN l |-> IF l[k] \in U THEN <<l[k]>> ELSE <<>>]
  BY <1>1
<1> QED BY <1>2 DEF Keep

LEMMA KeepConcat ==
  ASSUME NEW T, NEW S, NEW a \in Seq(T), NEW b \in Seq(T)
  PROVE  Keep(a \o b, S) = Keep(a, S) \o Keep(b, S)
<1> DEFINE I == {m \in Seq(T) : Keep(a \o m, S) = Keep(a, S) \o Keep(m, S)}
<1>0. Keep(a, S) \in Seq(T)
  BY KeepRange
<1>1. <<>> \in I
  BY <1>0, KeepEmpty
<1>2. ASSUME NEW m \in I, NEW e \in T PROVE Append(m, e) \in I
  <2>1. m \in Seq(T) /\ Append(m, e) \in Seq(T) /\ a \o m \in Seq(T) /\ Keep(a \o m, S) = Keep(a, S) \o Keep(m, S)
    OBVIOUS
  <2>2. a \o Append(m, e) = Append(a \o m, e)
    BY <2>1
  <2>3. Keep(m, S) \in Seq(T)
    BY <2>1, KeepRange
  <2>4. Keep(Append(a \o m, e), S) = IF e \in S THEN Append(Keep(a \o m, S), e) ELSE Keep(a \o m, S)
    <3> DEFINE z == a \o m
    <3>1. z \in Seq(T)
      BY <2>1
    <3> HIDE DEF z
    <3>2. Keep(Append(z, e), S) = IF e \in S THEN Append(Keep(z, S), e) ELSE Keep(z, S)
      BY <3>1, KeepAppend
    <3> QED BY <3>2 DEF z
  <2>5. Keep(Append(m, e), S) = IF e \in S THEN Append(Keep(m, S), e) ELSE Keep(m, S)
    BY <2>1, KeepAppend
  <2>6. Keep(a, S) \o Append(Keep(m, S), e) = Append(Keep(a, S) \o Keep(m, S), e)
    BY <1>0, <2>3
  <2> QED BY <2>1, <2>2, <2>4, <2>5, <2>6
<1>3. I = Seq(T)
  <2>1. I \subseteq Seq(T)
    OBVIOUS
  <2> HIDE DEF I
  <2> QED BY <1>1, <1>2, <2>1, ListInduction
<1> QED BY <1>3

\* A list without repetitions has none when part of it is kept.
LEMMA KeepDistinct ==
  ASSUME NEW T, NEW S, NEW l \in Seq(T), \A j, k \in DOMAIN l : l[j] = l[k] => j = k
  PROVE  \A j, k \in DOMAIN Keep(l, S) : Keep(l, S)[j] = Keep(l, S)[k] => j = k
<1> DEFINE Distinct(m) == \A j, k \in DOMAIN m : m[j] = m[k] => j = k
           I == {m \in Seq(T) : Distinct(m) => Distinct(Keep(m, S))}
<1>1. <<>> \in I
  <2>1. Distinct(<<>>)
    OBVIOUS
  <2> QED BY <2>1, KeepEmpty
<1>2. ASSUME NEW m \in I, NEW e \in T PROVE Append(m, e) \in I
  <2>1. m \in Seq(T) /\ Append(m, e) \in Seq(T)
    OBVIOUS
  <2> SUFFICES ASSUME Distinct(Append(m, e)) PROVE Distinct(Keep(Append(m, e), S))
    BY <2>1
  <2>2. Distinct(m) /\ e \notin Range(m)
    <3>1. /\ DOMAIN m = 1..Len(m) /\ DOMAIN Append(m, e) = 1..(Len(m) + 1) /\ Len(m) \in Nat
          /\ Append(m, e)[Len(m) + 1] = e /\ \A k \in 1..Len(m) : Append(m, e)[k] = m[k]
      BY <2>1
    <3>2. \A k \in 1..Len(m) : k \in 1..(Len(m) + 1) /\ k # Len(m) + 1
      BY <3>1
    <3>3. Len(m) + 1 \in 1..(Len(m) + 1)
      BY <3>1
    <3> QED BY <3>1, <3>2, <3>3 DEF Range
  <2>3. Distinct(Keep(m, S)) /\ Keep(m, S) \in Seq(T) /\ Range(Keep(m, S)) \subseteq Range(m)
    <3>1. Distinct(Keep(m, S))
      BY <2>2
    <3> HIDE DEF I, Distinct
    <3> QED BY <2>1, <3>1, KeepRange
  <2> DEFINE n == Keep(m, S)
  <2>4. Keep(Append(m, e), S) = IF e \in S THEN Append(n, e) ELSE n
    BY <2>1, KeepAppend
  <2> HIDE DEF n
  <2>5. Distinct(n) /\ n \in Seq(T) /\ e \notin Range(n)
    BY <2>2, <2>3 DEF n
  <2>6. Distinct(Append(n, e))
    <3>1. /\ DOMAIN n = 1..Len(n) /\ DOMAIN Append(n, e) = 1..(Len(n) + 1) /\ Len(n) \in Nat
          /\ Append(n, e)[Len(n) + 1] = e /\ \A k \in 1..Len(n) : Append(n, e)[k] = n[k]
      BY <2>5
    <3>2. \A k \in 1..(Len(n) + 1) : k \in 1..Len(n) \/ k = Len(n) + 1
      BY <3>1
    <3>3. \A k \in 1..Len(n) : n[k] # e
      BY <2>5, <3>1 DEF Range
    <3> QED BY <2>5, <3>1, <3>2, <3>3
  <2> QED BY <2>4, <2>5, <2>6
<1>3. I = Seq(T)
  <2>1. I \subseteq Seq(T)
    OBVIOUS
  <2> HIDE DEF I, Distinct
  <2> QED BY <1>1, <1>2, <2>1, ListInduction
<1>4. Distinct(l)
  OBVIOUS
<1>5. Distinct(Keep(l, S))
  BY <1>3, <1>4
<1> QED BY <1>5

\* Lists that correspond entry by entry, as R says, still do when the same
\* entries of both are kept.
LEMMA KeepParallel ==
  ASSUME NEW T, NEW S, NEW R, NEW l \in Seq(T), NEW m \in Seq(T), Len(l) = Len(m),
         \A k \in 1..Len(l) : (l[k] \in S <=> m[k] \in S) /\ <<l[k], m[k]>> \in R
  PROVE  /\ Len(Keep(l, S)) = Len(Keep(m, S))
         /\ \A k \in 1..Len(Keep(l, S)) : <<Keep(l, S)[k], Keep(m, S)[k]>> \in R
<1> DEFINE Alike(a, b) == \A k \in 1..Len(a) : (a[k] \in S <=> b[k] \in S) /\ <<a[k], b[k]>> \in R
           Holds(a, b) == Len(a) = Len(b) /\ \A k \in 1..Len(a) : <<a[k], b[k]>> \in R
           I == {a \in Seq(T) : \A b \in Seq(T) : Len(a) = Len(b) /\ Alike(a, b) => Holds(Keep(a, S), Keep(b, S))}
<1>1. <<>> \in I
  <2> SUFFICES ASSUME NEW b \in Seq(T), Len(b) = 0 PROVE Holds(Keep(<<>>, S), Keep(b, S))
    OBVIOUS
  <2>1. b = <<>>
    OBVIOUS
  <2> QED BY <2>1, KeepEmpty
<1>2. ASSUME NEW a \in I, NEW e \in T PROVE Append(a, e) \in I
  <2>1. a \in Seq(T) /\ Append(a, e) \in Seq(T)
    OBVIOUS
  <2> SUFFICES ASSUME NEW c \in Seq(T), Len(Append(a, e)) = Len(c), Alike(Append(a, e), c)
               PROVE  Holds(Keep(Append(a, e), S), Keep(c, S))
    BY <2>1
  <2>2. c # <<>>
    BY <2>1
  <2>3. PICK b \in Seq(T), d \in T : c = Append(b, d)
    BY <2>2, SequenceEmptyOrAppend
  <2>4. /\ Len(a) = Len(b) /\ Len(Append(a, e)) = Len(a) + 1 /\ Len(a) \in Nat
        /\ Append(a, e)[Len(a) + 1] = e /\ c[Len(a) + 1] = d
        /\ \A k \in 1..Len(a) : Append(a, e)[k] = a[k] /\ c[k] = b[k]
    BY <2>1, <2>3
  <2>5. (e \in S <=> d \in S) /\ <<e, d>> \in R
    <3>1. Len(a) + 1 \in 1..Len(Append(a, e))
      BY <2>4
    <3> QED BY <2>4, <3>1
  <2>6. Alike(a, b)
    <3>1. \A k \in 1..Len(a) : k \in 1..Len(Append(a, e))
      BY <2>4
    <3> QED BY <2>4, <3>1
  <2>7. Holds(Keep(a, S), Keep(b, S))
    BY <2>4, <2>6
  <2> HIDE DEF I, Alike
  <2> DEFINE x == Keep(a, S)
             y == Keep(b, S)
  <2>8. /\ Keep(Append(a, e), S) = IF e \in S THEN Append(x, e) ELSE x
        /\ Keep(c, S) = IF d \in S THEN Append(y, d) ELSE y
    BY <2>1, <2>3, KeepAppend
  <2>9. x \in Seq(T) /\ y \in Seq(T)
    BY <2>1, KeepRange
  <2>10. Len(x) = Len(y) /\ \A k \in 1..Len(x) : <<x[k], y[k]>> \in R
    BY <2>7
  <2> HIDE DEF x, y
  <2>11. Holds(Append(x, e), Append(y, d))
    <3>1. Len(Append(x, e)) = Len(x) + 1 /\ Len(Append(y, d)) = Len(x) + 1 /\ Len(x) \in Nat
      BY <2>9, <2>10
    <3>2. \A k \in 1..Len(x) : Append(x, e)[k] = x[k] /\ Append(y, d)[k] = y[k]
      BY <2>9, <2>10
    <3>3. Append(x, e)[Len(x) + 1] = e /\ Append(y, d)[Len(x) + 1] = d
      BY <2>9, <2>10
    <3>4. ASSUME NEW k \in 1..(Len(x) + 1) PROVE <<Append(x, e)[k], Append(y, d)[k]>> \in R
      <4>1. CASE k = Len(x) + 1
        BY <2>5, <3>3, <4>1
      <4>2. CASE k # Len(x) + 1
        <5>1. k \in 1..Len(x)
          BY <3>1, <4>2
        <5> QED BY <2>10, <3>2, <5>1
      <4> QED BY <4>1, <4>2
    <3> QED BY <3>1, <3>4
  <2>12. Holds(x, y)
    BY <2>10
  <2> HIDE DEF Holds
  <2> QED BY <2>5, <2>8, <2>11, <2>12
<1>3. I = Seq(T)
  <2>1. I \subseteq Seq(T)
    OBVIOUS
  <2> HIDE DEF I
  <2> QED BY <1>1, <1>2, <2>1, ListInduction
<1>4. Alike(l, m)
  OBVIOUS
<1>5. Holds(Keep(l, S), Keep(m, S))
  BY <1>3, <1>4
<1> QED BY <1>5

-----------------------------------------------------------------------------
(* The routing rules.                                                      *)

geo == "geoip:private"

\* The addresses of geoip:private take its place; the others stay.
LEMMA ReplaceProps ==
  ASSUME NEW v \in Seq(Strings)
  PROVE  /\ replaceGeoIPPrivate(v) \in Seq(Strings)
         /\ Range(v) \ {geo} \subseteq Range(replaceGeoIPPrivate(v))
         /\ geo \notin Range(replaceGeoIPPrivate(v))
         /\ geo \notin Range(v) => replaceGeoIPPrivate(v) = v
<1> DEFINE T == Strings
<1>a. {TagOrder, LocalAddrs, PrivateCIDRs} \subseteq Seq(Strings)
  BY ApiAssumption
<1>b. geo \notin Range(LocalAddrs) \cup Range(PrivateCIDRs)
  BY ApiAssumption DEF geo
<1>0. v \in Seq(T) /\ PrivateCIDRs \in Seq(T) /\ geo \notin Range(PrivateCIDRs)
  BY <1>a, <1>b
<1> HIDE DEF T
<1> DEFINE F == [x \in T |-> IF x = geo THEN PrivateCIDRs ELSE <<x>>]
<1>1. F \in Replacements(T)
  BY <1>0 DEF Replacements
<1>2. ASSUME NEW m \in Seq(T) PROVE replaceGeoIPPrivate(m) = Pieces(F, m)
  <2>1. \A k \in DOMAIN m : m[k] \in T
    OBVIOUS
  <2>2. [k \in DOMAIN m |-> F[m[k]]] = [k \in DOMAIN m |-> IF m[k] = geo THEN PrivateCIDRs ELSE <<m[k]>>]
    BY <2>1
  <2> QED BY <2>2 DEF replaceGeoIPPrivate, Pieces, geo
<1>3. ASSUME NEW x \in T
      PROVE  /\ x = geo => F[x] = PrivateCIDRs
             /\ x # geo => F[x] = <<x>>
             /\ F[x] \in Seq(T) /\ geo \notin Range(F[x]) /\ {x} \ {geo} \subseteq Range(F[x])
  <2>1. x # geo => Range(<<x>>) = {x}
    <3>1. DOMAIN <<x>> = {1} /\ <<x>>[1] = x
      OBVIOUS
    <3> QED BY <3>1 DEF Range
  <2>2. /\ x = geo => F[x] = PrivateCIDRs
        /\ x # geo => F[x] = <<x>>
    OBVIOUS
  <2>3. CASE x = geo
    BY <1>0, <2>2, <2>3
  <2>4. CASE x # geo
    <3>1. F[x] = <<x>> /\ F[x] \in Seq(T)
      BY <2>2, <2>4
    <3>2. Range(F[x]) = {x}
      BY <2>1, <2>4, <3>1
    <3> HIDE DEF F
    <3> QED BY <2>2, <2>4, <3>1, <3>2
  <2> QED BY <2>3, <2>4
<1> HIDE DEF F
<1> DEFINE Good(m) == /\ Pieces(F, m) \in Seq(T)
                      /\ Range(m) \ {geo} \subseteq Range(Pieces(F, m))
                      /\ geo \notin Range(Pieces(F, m))
                      /\ geo \notin Range(m) => Pieces(F, m) = m
           I == {m \in Seq(T) : Good(m)}
<1>4. <<>> \in I
  <2> DEFINE z == <<>>
             p == [k \in DOMAIN z |-> F[z[k]]]
  <2>1. DOMAIN p = DOMAIN z /\ DOMAIN z = {} /\ Range(z) = {} /\ z \in Seq(T)
    BY DEF Range
  <2>2. (\A k \in DOMAIN p : p[k] \in Seq(T)) /\ p = [k \in DOMAIN p |-> p[k]]
    BY <2>1
  <2>3. Pieces(F, z) = FlattenSeq(p)
    BY DEF Pieces
  <2> HIDE DEF p
  <2>4. FlattenSeq(p) = z
    BY <2>1, <2>2, PiecesOfNone
  <2> HIDE DEF z
  <2>5. Good(z)
    BY <2>1, <2>3, <2>4
  <2> QED BY <2>1, <2>5 DEF z
<1>5. ASSUME NEW m \in I, NEW e \in T PROVE Append(m, e) \in I
  <2>1. m \in Seq(T) /\ Append(m, e) \in Seq(T) /\ Good(m)
    OBVIOUS
  <2> DEFINE a == Pieces(F, m)
             n == Append(m, e)
  <2>2. Pieces(F, n) = a \o F[e]
    BY <1>1, <2>1, PiecesAppend
  <2>3. Range(n) = Range(m) \cup {e}
    BY <2>1, RangeAppend
  <2>4. /\ a \in Seq(T) /\ Range(m) \ {geo} \subseteq Range(a) /\ geo \notin Range(a)
        /\ geo \notin Range(m) => a = m
    BY <2>1
  <2> HIDE DEF a, n
  <2> DEFINE b == F[e]
  <2>5. /\ e # geo => b = <<e>>
        /\ b \in Seq(T) /\ geo \notin Range(b) /\ {e} \ {geo} \subseteq Range(b)
    BY <1>3
  <2> HIDE DEF b
  <2>6. a \o b \in Seq(T) /\ Range(a \o b) = Range(a) \cup Range(b)
    BY <2>4, <2>5, RangeConcatenation
  <2>7. Pieces(F, n) = a \o b
    BY <2>2 DEF b
  <2>8. geo \notin Range(n) => Pieces(F, n) = n
    <3> HAVE geo \notin Range(n)
    <3>1. a = m /\ b = <<e>>
      BY <2>3, <2>4, <2>5
    <3>2. m \o <<e>> = Append(m, e)
      BY <2>1
    <3> QED BY <2>7, <3>1, <3>2 DEF n
  <2>9. Good(n)
    BY <2>3, <2>4, <2>5, <2>6, <2>7, <2>8
  <2> QED BY <2>1, <2>9 DEF n
<1>6. I = Seq(T)
  <2>1. I \subseteq Seq(T)
    OBVIOUS
  <2> HIDE DEF I
  <2> QED BY <1>4, <1>5, <2>1, ListInduction
<1>7. Good(v)
  BY <1>0, <1>6
<1> QED BY <1>0, <1>2, <1>7 DEF T

Rule == [valid : BOOLEAN, inbound : Strings, outbound : Strings, guard : BOOLEAN,
         ip : Seq(Strings), source : Seq(Strings)]

\* What replaceGeoIPPrivate makes of one rule.
Plain(r) == [r EXCEPT !.ip = replaceGeoIPPrivate(@), !.source = replaceGeoIPPrivate(@)]

\* A rule that is not one of the node's.
Theirs == {r \in Rule : r.outbound # "API" /\ ~r.guard}

\* A rule that needs no geoip file for private addresses.
NoGeo(r) == geo \notin Range(r.ip) /\ geo \notin Range(r.source)

LEMMA PlainProps ==
  ASSUME NEW r \in Rule
  PROVE  /\ Plain(r) \in Rule /\ Plain(r).outbound = r.outbound /\ Plain(r).guard = r.guard
         /\ Range(r.ip) \ {geo} \subseteq Range(Plain(r).ip)
         /\ NoGeo(Plain(r))
         /\ NoGeo(r) => Plain(r) = r
         /\ Plain(r) \in Theirs <=> r \in Theirs
<1> DEFINE a == replaceGeoIPPrivate(r.ip)
           b == replaceGeoIPPrivate(r.source)
           s == [r EXCEPT !.ip = a, !.source = b]
<1>1. r.ip \in Seq(Strings) /\ r.source \in Seq(Strings)
  BY DEF Rule
<1>2. /\ a \in Seq(Strings) /\ Range(r.ip) \ {geo} \subseteq Range(a) /\ geo \notin Range(a)
      /\ geo \notin Range(r.ip) => a = r.ip
  BY <1>1, ReplaceProps
<1>3. /\ b \in Seq(Strings) /\ geo \notin Range(b)
      /\ geo \notin Range(r.source) => b = r.source
  BY <1>1, ReplaceProps
<1>4. Plain(r) = s
  BY DEF Plain
<1> HIDE DEF a, b
<1>5. s \in Rule /\ s.outbound = r.outbound /\ s.guard = r.guard /\ s.ip = a /\ s.source = b
  BY <1>2, <1>3 DEF Rule
<1>6. a = r.ip /\ b = r.source => s = r
  BY DEF Rule
<1> HIDE DEF s
<1>7. s \in Theirs <=> r \in Theirs
  BY <1>5 DEF Theirs
<1> QED BY <1>2, <1>3, <1>4, <1>5, <1>6, <1>7 DEF NoGeo

LEMMA NormalizeProps ==
  ASSUME NEW rules \in Seq(Rule)
  PROVE  /\ normalizeGeoIPPrivateRules(rules) \in Seq(Rule)
         /\ Len(normalizeGeoIPPrivateRules(rules)) = Len(rules)
         /\ \A k \in 1..Len(rules) : normalizeGeoIPPrivateRules(rules)[k] = Plain(rules[k])
         /\ (\A k \in 1..Len(rules) : NoGeo(rules[k])) => normalizeGeoIPPrivateRules(rules) = rules
<1> DEFINE n == normalizeGeoIPPrivateRules(rules)
<1>1. DOMAIN rules = 1..Len(rules) /\ Len(rules) \in Nat /\ \A k \in 1..Len(rules) : rules[k] \in Rule
  OBVIOUS
<1>2. n = [k \in 1..Len(rules) |-> Plain(rules[k])]
  BY <1>1 DEF normalizeGeoIPPrivateRules, Plain
<1>3. \A k \in 1..Len(rules) : Plain(rules[k]) \in Rule
  BY <1>1, PlainProps
<1> HIDE DEF n
<1>4. n \in Seq(Rule) /\ Len(n) = Len(rules) /\ \A k \in 1..Len(rules) : n[k] = Plain(rules[k])
  BY <1>1, <1>2, <1>3
<1>5. ASSUME \A k \in 1..Len(rules) : NoGeo(rules[k]) PROVE n = rules
  <2>1. \A k \in 1..Len(n) : n[k] = rules[k]
    BY <1>1, <1>4, <1>5, PlainProps
  <2> QED BY <1>4, <2>1, SeqEqual
<1> QED BY <1>4, <1>5 DEF n

LEMMA FilterProps ==
  ASSUME NEW rules \in Seq(Rule)
  PROVE  filterRules(rules) = Keep(rules, Theirs) /\ UserRules(rules) = Keep(rules, Theirs)
<1> DEFINE S == {r \in Range(rules) : r.outbound # "API" /\ ~r.guard}
<1>1. Range(rules) \subseteq Rule
  BY DEF Range
<1>2. Range(rules) \cap S = Range(rules) \cap Theirs
  BY <1>1 DEF Theirs
<1> HIDE DEF S
<1>3. Keep(rules, S) = Keep(rules, Theirs)
  BY <1>2, KeepSame
<1> QED BY <1>3 DEF S, filterRules, UserRules

LEMMA OneElement ==
  ASSUME NEW T, NEW x \in T
  PROVE  <<x>> \in Seq(T) /\ Len(<<x>>) = 1 /\ <<x>>[1] = x /\ Range(<<x>>) = {x}
<1>1. DOMAIN <<x>> = {1} /\ <<x>>[1] = x
  OBVIOUS
<1> QED BY <1>1 DEF Range

\* The rules that ApplyAPI puts in front.
NodeRules(outs) ==
  <<apiRule>> \o (IF blackholeOutboundTag(outs) = "" THEN <<>>
                  ELSE <<malformedDomainGuardRule(blackholeOutboundTag(outs))>>)

\* The tag of the guard is that of an outbound.
LEMMA BlockTag ==
  ASSUME NEW outs
  PROVE  /\ blackholeOutboundTag(outs) \in Strings
         /\ blackholeOutboundTag(outs) # "" => \E k \in DOMAIN outs : outs[k].tag = blackholeOutboundTag(outs)
<1> DEFINE protocol == outboundProtocolByTag(outs)
           S == {t \in DOMAIN protocol : protocol[t] \in {"blackhole", "Blackhole"}}
           tags == Keep(TagOrder, S)
           T == Strings
<1>1. TagOrder \in Seq(T)
  <2>1. {TagOrder, LocalAddrs, PrivateCIDRs} \subseteq Seq(Strings)
    BY ApiAssumption
  <2> QED BY <2>1
<1>2. \A t \in S : \E k \in DOMAIN outs : outs[k].tag = t
  BY DEF outboundProtocolByTag
<1>3. blackholeOutboundTag(outs) = IF tags = <<>> THEN "" ELSE Head(tags)
  BY DEF blackholeOutboundTag
<1> HIDE DEF S, T
<1>4. tags \in Seq(T) /\ Range(tags) \subseteq S
  BY <1>1, KeepRange
<1> HIDE DEF tags
<1>5. CASE tags = <<>>
  BY <1>3, <1>5, ApiAssumption DEF T
<1>6. CASE tags # <<>>
  <2>1. 1 \in DOMAIN tags /\ Head(tags) = tags[1] /\ tags[1] \in T
    BY <1>4, <1>6
  <2>2. Head(tags) \in S
    BY <1>4, <2>1 DEF Range
  <2> QED BY <1>2, <1>3, <1>6, <2>1, <2>2 DEF T
<1> QED BY <1>5, <1>6

LEMMA NodeRulesProps ==
  ASSUME NEW outs
  PROVE  /\ NodeRules(outs) \in Seq(Rule)
         /\ Len(NodeRules(outs)) \in Nat \ {0} /\ NodeRules(outs)[1] = apiRule
         /\ Range(NodeRules(outs)) \cap Theirs = {}
         /\ \A r \in Range(NodeRules(outs)) : NoGeo(r)
         /\ \A k \in 2..Len(NodeRules(outs)) : \E j \in DOMAIN outs : NodeRules(outs)[k].outbound = outs[j].tag
<1> DEFINE block == blackholeOutboundTag(outs)
           g == malformedDomainGuardRule(block)
<1>1. block \in Strings /\ (block # "" => \E k \in DOMAIN outs : outs[k].tag = block)
  BY BlockTag
<1>2. LocalAddrs \in Seq(Strings) /\ geo \notin Range(LocalAddrs)
  <2>1. {TagOrder, LocalAddrs, PrivateCIDRs} \subseteq Seq(Strings)
    BY ApiAssumption
  <2>2. geo \notin Range(LocalAddrs) \cup Range(PrivateCIDRs)
    BY ApiAssumption DEF geo
  <2> QED BY <2>1, <2>2
<1>b. "" \in Strings /\ "API" \in Strings /\ ApiInbound \in Strings
  BY ApiAssumption DEF ApiInbound
<1>3. apiRule \in Rule /\ apiRule.outbound = "API" /\ apiRule.ip = <<>> /\ apiRule.source = LocalAddrs
  <2>1. apiRule.outbound = "API" /\ apiRule.ip = <<>> /\ apiRule.source = LocalAddrs
    BY DEF apiRule
  <2>2. apiRule \in Rule
    <3> DEFINE s1 == ApiInbound
               s2 == "API"
               none == <<>>
    <3>1. s1 \in Strings /\ s2 \in Strings /\ none \in Seq(Strings) /\ LocalAddrs \in Seq(Strings)
      BY <1>2, <1>b, EmptySeq, Zenon
    <3>2. apiRule = [valid |-> TRUE, inbound |-> s1, outbound |-> s2, guard |-> FALSE, ip |-> none, source |-> LocalAddrs]
      BY DEF apiRule
    <3> HIDE DEF s1, s2, none
    <3> QED BY <3>1, <3>2 DEF Rule
  <2> QED BY <2>1, <2>2
<1>a. Range(<<>>) = {}
  BY DEF Range
<1> HIDE DEF block
<1>4. g \in Rule /\ g.outbound = block /\ g.guard = TRUE /\ g.ip = <<>> /\ g.source = <<>>
  <2>1. g.outbound = block /\ g.guard = TRUE /\ g.ip = <<>> /\ g.source = <<>>
    BY DEF malformedDomainGuardRule
  <2>2. g \in Rule
    <3> DEFINE s1 == ""
               none == <<>>
    <3>1. s1 \in Strings /\ block \in Strings /\ none \in Seq(Strings)
      BY <1>1, <1>b, EmptySeq, Zenon
    <3>2. g = [valid |-> TRUE, inbound |-> s1, outbound |-> block, guard |-> TRUE, ip |-> none, source |-> none]
      BY DEF malformedDomainGuardRule
    <3> HIDE DEF s1, none
    <3> QED BY <3>1, <3>2 DEF Rule
  <2> QED BY <2>1, <2>2
<1> HIDE DEF g
<1>5. apiRule \notin Theirs /\ g \notin Theirs
  BY <1>3, <1>4 DEF Theirs
<1>6. NoGeo(apiRule) /\ NoGeo(g)
  BY <1>2, <1>3, <1>4, <1>a DEF NoGeo
<1>7. CASE block = ""
  <2>1. NodeRules(outs) = <<apiRule>>
    <3>1. <<apiRule>> \o <<>> = <<apiRule>>
      OBVIOUS
    <3> QED BY <1>7, <3>1 DEF NodeRules, block
  <2> DEFINE n == <<apiRule>>
  <2>2. n \in Seq(Rule) /\ Len(n) = 1 /\ n[1] = apiRule /\ Range(n) = {apiRule}
    BY <1>3, OneElement
  <2> HIDE DEF n
  <2>3. NodeRules(outs) = n
    BY <2>1 DEF n
  <2>4. \A k \in 2..Len(n) : FALSE
    BY <2>2
  <2>5. Range(n) \cap Theirs = {} /\ \A r \in Range(n) : NoGeo(r)
    BY <1>5, <1>6, <2>2
  <2>6. Len(n) \in Nat \ {0}
    BY <2>2
  <2> QED BY <2>2, <2>3, <2>4, <2>5, <2>6, Zenon
<1>8. CASE block # ""
  <2> DEFINE a == <<apiRule>>
             b == <<g>>
  <2>1. NodeRules(outs) = a \o b
    BY <1>8 DEF NodeRules, block, g
  <2>2. a \in Seq(Rule) /\ Len(a) = 1 /\ a[1] = apiRule /\ Range(a) = {apiRule}
    BY <1>3, OneElement
  <2>3. b \in Seq(Rule) /\ Len(b) = 1 /\ b[1] = g /\ Range(b) = {g}
    BY <1>4, OneElement
  <2> HIDE DEF a, b
  <2> DEFINE n == a \o b
  <2>4. n \in Seq(Rule) /\ Len(n) = 2 /\ n[1] = apiRule /\ n[2] = g
    <3>0. /\ n \in Seq(Rule) /\ Len(n) = Len(a) + Len(b)
          /\ \A i \in 1..(Len(a) + Len(b)) : n[i] = IF i <= Len(a) THEN a[i] ELSE b[i - Len(a)]
      BY <2>2, <2>3, ConcatProperties, Zenon
    <3> HIDE DEF n
    <3>1. n \in Seq(Rule) /\ Len(n) = 2
      BY <2>2, <2>3, <3>0
    <3>2. \A i \in 1..2 : n[i] = IF i <= 1 THEN a[i] ELSE b[i - 1]
      BY <2>2, <2>3, <3>0
    <3>3. 2 - 1 = 1
      OBVIOUS
    <3>4. n[1] = a[1] /\ n[2] = b[1]
      BY <3>2, <3>3
    <3> QED BY <2>2, <2>3, <3>1, <3>4
  <2>5. Range(n) = {apiRule, g}
    BY <2>2, <2>3, RangeConcatenation
  <2>6. NodeRules(outs) = n
    BY <2>1
  <2> HIDE DEF n
  <2>7. \A k \in 2..Len(n) : \E j \in DOMAIN outs : n[k].outbound = outs[j].tag
    <3>1. \A k \in 2..Len(n) : k = 2
      BY <2>4
    <3>2. n[2].outbound = block
      BY <1>4, <2>4
    <3> QED BY <1>1, <1>8, <3>1, <3>2
  <2>8. Range(n) \cap Theirs = {} /\ \A r \in Range(n) : NoGeo(r)
    BY <1>5, <1>6, <2>5
  <2>9. Len(n) \in Nat \ {0}
    BY <2>4
  <2> QED BY <2>4, <2>6, <2>7, <2>8, <2>9, Zenon
<1> QED BY <1>7, <1>8

\* The panel's rules as ApplyAPI leaves them.
PanelRules(rules) == filterRules(normalizeGeoIPPrivateRules(rules))

LEMMA PanelRulesProps ==
  ASSUME NEW rules \in Seq(Rule)
  PROVE  /\ PanelRules(rules) \in Seq(Rule)
         /\ \A r \in Range(PanelRules(rules)) : r \in Theirs /\ NoGeo(r)
         /\ PanelRules(rules) = Keep(normalizeGeoIPPrivateRules(rules), Theirs)
<1> DEFINE n == normalizeGeoIPPrivateRules(rules)
<1>1. n \in Seq(Rule) /\ Len(n) = Len(rules) /\ \A k \in 1..Len(rules) : n[k] = Plain(rules[k])
  BY NormalizeProps
<1> HIDE DEF n
<1>2. filterRules(n) = Keep(n, Theirs)
  BY <1>1, FilterProps
<1>3. Keep(n, Theirs) \in Seq(Rule) /\ Range(Keep(n, Theirs)) = Range(n) \cap Theirs
  BY <1>1, KeepRange
<1>4. ASSUME NEW r \in Range(n) PROVE NoGeo(r)
  <2>1. PICK k \in 1..Len(rules) : r = n[k]
    BY <1>1 DEF Range
  <2>2. rules[k] \in Rule
    OBVIOUS
  <2> QED BY <1>1, <2>1, <2>2, PlainProps
<1> QED BY <1>2, <1>3, <1>4 DEF n, PanelRules

\* What the rules are like once ApplyAPI is through with them: the panel's are
\* behind the node's, as PanelRules has them, and a second time finds the same.
LEMMA RulesSettle ==
  ASSUME NEW rules \in Seq(Rule), NEW outs
  PROVE  /\ NodeRules(outs) \o PanelRules(rules) \in Seq(Rule)
         /\ UserRules(NodeRules(outs) \o PanelRules(rules)) = PanelRules(rules)
         /\ PanelRules(NodeRules(outs) \o PanelRules(rules)) = PanelRules(rules)
         /\ \A r \in Range(NodeRules(outs) \o PanelRules(rules)) : NoGeo(r)
<1> DEFINE a == NodeRules(outs)
           b == PanelRules(rules)
           c == a \o b
<1>1. a \in Seq(Rule) /\ Range(a) \cap Theirs = {} /\ \A r \in Range(a) : NoGeo(r)
  BY NodeRulesProps
<1>2. b \in Seq(Rule) /\ \A r \in Range(b) : r \in Theirs /\ NoGeo(r)
  BY PanelRulesProps
<1> HIDE DEF a, b
<1>3. c \in Seq(Rule) /\ Range(c) = Range(a) \cup Range(b)
  BY <1>1, <1>2, RangeConcatenation
<1>4. Keep(c, Theirs) = b
  <2>1. Keep(c, Theirs) = Keep(a, Theirs) \o Keep(b, Theirs)
    BY <1>1, <1>2, KeepConcat
  <2>2. Keep(a, Theirs) = <<>>
    BY <1>1, KeepNone
  <2>3. Keep(b, Theirs) = b
    <3>1. Range(b) \subseteq Theirs
      BY <1>2
    <3> QED BY <1>2, <3>1, KeepAll
  <2> QED BY <1>2, <2>1, <2>2, <2>3
<1> HIDE DEF c
<1>5. \A r \in Range(c) : NoGeo(r)
  BY <1>1, <1>2, <1>3
<1>6. \A k \in 1..Len(c) : NoGeo(c[k])
  <2>1. \A k \in 1..Len(c) : c[k] \in Range(c)
    BY <1>3 DEF Range
  <2> QED BY <1>5, <2>1
<1>7. normalizeGeoIPPrivateRules(c) = c
  BY <1>3, <1>6, NormalizeProps
<1>8. filterRules(c) = b /\ UserRules(c) = b
  BY <1>3, <1>4, FilterProps
<1>9. PanelRules(c) = b
  BY <1>7, <1>8 DEF PanelRules
<1> QED BY <1>3, <1>5, <1>8, <1>9 DEF a, b, c

\* The panel's rules keep their order, their outbounds and their addresses.
LEMMA RulesKept ==
  ASSUME NEW rules \in Seq(Rule)
  PROVE  /\ Len(PanelRules(rules)) = Len(UserRules(rules))
         /\ \A k \in 1..Len(PanelRules(rules)) :
              /\ PanelRules(rules)[k].outbound = UserRules(rules)[k].outbound
              /\ Range(UserRules(rules)[k].ip) \ {geo} \subseteq Range(PanelRules(rules)[k].ip)
<1> DEFINE n == normalizeGeoIPPrivateRules(rules)
           R == {w \in Rule \X Rule : /\ w[1].outbound = w[2].outbound
                                      /\ Range(w[2].ip) \ {geo} \subseteq Range(w[1].ip)}
<1>1. n \in Seq(Rule) /\ Len(n) = Len(rules) /\ \A k \in 1..Len(rules) : n[k] = Plain(rules[k])
  BY NormalizeProps
<1> HIDE DEF n
<1>2. PanelRules(rules) = Keep(n, Theirs) /\ UserRules(rules) = Keep(rules, Theirs)
  BY PanelRulesProps, FilterProps DEF n
<1>3. \A k \in 1..Len(n) : (n[k] \in Theirs <=> rules[k] \in Theirs) /\ <<n[k], rules[k]>> \in R
  <2> SUFFICES ASSUME NEW k \in 1..Len(n)
               PROVE  (n[k] \in Theirs <=> rules[k] \in Theirs) /\ <<n[k], rules[k]>> \in R
    OBVIOUS
  <2>1. rules[k] \in Rule /\ n[k] = Plain(rules[k])
    BY <1>1
  <2> QED BY <2>1, PlainProps
<1>4. \A x, y : <<x, y>> \in R => x.outbound = y.outbound /\ Range(y.ip) \ {geo} \subseteq Range(x.ip)
  OBVIOUS
<1> HIDE DEF R
<1>5. /\ Len(Keep(n, Theirs)) = Len(Keep(rules, Theirs))
      /\ \A k \in 1..Len(Keep(n, Theirs)) : <<Keep(n, Theirs)[k], Keep(rules, Theirs)[k]>> \in R
  BY <1>1, <1>3, KeepParallel
<1> QED BY <1>2, <1>4, <1>5

-----------------------------------------------------------------------------
(* The services, the observatories and the policies.                       *)

Known == Range(SortedServices)
Required == Range(requiredAPIServices)

Named(services) == [k \in DOMAIN services |-> [name |-> services[k], plain |-> TRUE]]

Asked(provided) == {canonicalAPIServices(provided[k]) : k \in DOMAIN provided}

LEMMA ServiceLists ==
  /\ SortedServices \in Seq(Known) /\ requiredAPIServices \in Seq(Known)
  /\ Required \subseteq Known
  /\ \A j, k \in DOMAIN SortedServices : SortedServices[j] = SortedServices[k] => j = k
  /\ \A j, k \in DOMAIN requiredAPIServices : requiredAPIServices[j] = requiredAPIServices[k] => j = k
<1>1. Len(SortedServices) = 6 /\ DOMAIN SortedServices = 1..6
  BY DEF SortedServices
<1>2. Len(requiredAPIServices) = 3 /\ DOMAIN requiredAPIServices = 1..3
  BY DEF requiredAPIServices
<1>3. \A k \in 1..6 : SortedServices[k] \in Known
  BY <1>1 DEF Known, Range
<1>4. SortedServices \in Seq(Known)
  BY <1>1, <1>3, IsASeq DEF SortedServices
<1>5. /\ requiredAPIServices[1] = SortedServices[1] /\ requiredAPIServices[2] = SortedServices[2]
      /\ requiredAPIServices[3] = SortedServices[6]
  BY DEF requiredAPIServices, SortedServices
<1>6. \A k \in 1..3 : requiredAPIServices[k] \in Known
  <2>1. \A k \in 1..3 : k = 1 \/ k = 2 \/ k = 3
    OBVIOUS
  <2>2. 1 \in 1..6 /\ 2 \in 1..6 /\ 6 \in 1..6
    OBVIOUS
  <2> QED BY <1>3, <1>5, <2>1, <2>2
<1>7. requiredAPIServices \in Seq(Known)
  BY <1>2, <1>6, IsASeq DEF requiredAPIServices
<1>8. Required \subseteq Known
  BY <1>2, <1>6 DEF Required, Range
<1>9. \A j, k \in 1..6 : SortedServices[j] = SortedServices[k] => j = k
  BY DEF SortedServices
<1>10. \A j, k \in 1..3 : requiredAPIServices[j] = requiredAPIServices[k] => j = k
  BY DEF requiredAPIServices
<1> QED BY <1>1, <1>2, <1>4, <1>7, <1>8, <1>9, <1>10

\* The node's services and those that are asked for and known, none twice.
LEMMA SanitizeProps ==
  ASSUME NEW provided
  PROVE  LET s == sanitizeAPIServices(provided)
         IN  /\ s \in Seq(Known)
             /\ Range(s) = Required \cup (Known \cap Asked(provided))
             /\ \A j, k \in DOMAIN s : s[j] = s[k] => j = k
<1> DEFINE A == Asked(provided)
           q == requiredAPIServices
           o == Keep(SortedServices, A \ Required)
           s == q \o o
<1>1. sanitizeAPIServices(provided) = s
  BY DEF sanitizeAPIServices, Asked, Required
<1>2. q \in Seq(Known) /\ (\A j, k \in DOMAIN q : q[j] = q[k] => j = k) /\ Range(q) = Required
  BY ServiceLists DEF Required
<1>3. o \in Seq(Known) /\ Range(o) = Known \cap (A \ Required)
  BY ServiceLists, KeepRange DEF Known
<1>4. \A j, k \in DOMAIN o : o[j] = o[k] => j = k
  BY ServiceLists, KeepDistinct
<1> HIDE DEF A, q, o
<1>5. /\ s \in Seq(Known) /\ Len(s) = Len(q) + Len(o)
      /\ \A i \in 1..(Len(q) + Len(o)) : s[i] = IF i <= Len(q) THEN q[i] ELSE o[i - Len(q)]
  BY <1>2, <1>3, ConcatProperties
<1>6. Range(s) = Range(q) \cup Range(o)
  BY <1>2, <1>3, RangeConcatenation
<1> HIDE DEF s
<1>7. Range(s) = Required \cup (Known \cap A)
  BY <1>2, <1>3, <1>6, ServiceLists
<1>8. \A j, k \in DOMAIN s : s[j] = s[k] => j = k
  <2> SUFFICES ASSUME NEW j \in DOMAIN s, NEW k \in DOMAIN s, s[j] = s[k] PROVE j = k
    OBVIOUS
  <2>1. /\ Len(q) \in Nat /\ Len(o) \in Nat /\ DOMAIN q = 1..Len(q) /\ DOMAIN o = 1..Len(o)
        /\ j \in 1..(Len(q) + Len(o)) /\ k \in 1..(Len(q) + Len(o))
    BY <1>2, <1>3, <1>5
  <2>2. \A i \in 1..Len(q) : q[i] \in Required
    BY <1>2, <2>1 DEF Range
  <2>3. \A i \in 1..Len(o) : o[i] \notin Required
    BY <1>3, <2>1 DEF Range
  <2>4. CASE j <= Len(q) /\ k <= Len(q)
    <3>1. j \in 1..Len(q) /\ k \in 1..Len(q) /\ s[j] = q[j] /\ s[k] = q[k]
      BY <1>5, <2>1, <2>4
    <3> QED BY <1>2, <2>1, <3>1
  <2>5. CASE j > Len(q) /\ k > Len(q)
    <3>1. j - Len(q) \in 1..Len(o) /\ k - Len(q) \in 1..Len(o)
      BY <2>1, <2>5
    <3>2. s[j] = o[j - Len(q)] /\ s[k] = o[k - Len(q)]
      BY <1>5, <2>1, <2>5
    <3>3. j - Len(q) = k - Len(q)
      BY <1>4, <2>1, <3>1, <3>2
    <3> QED BY <2>1, <3>3
  <2>6. CASE j <= Len(q) /\ k > Len(q)
    <3>1. j \in 1..Len(q) /\ k - Len(q) \in 1..Len(o) /\ s[j] = q[j] /\ s[k] = o[k - Len(q)]
      BY <1>5, <2>1, <2>6
    <3> QED BY <2>2, <2>3, <3>1
  <2>7. CASE j > Len(q) /\ k <= Len(q)
    <3>1. k \in 1..Len(q) /\ j - Len(q) \in 1..Len(o) /\ s[k] = q[k] /\ s[j] = o[j - Len(q)]
      BY <1>5, <2>1, <2>7
    <3> QED BY <2>2, <2>3, <3>1
  <2> QED BY <2>1, <2>4, <2>5, <2>6, <2>7
<1> QED BY <1>1, <1>5, <1>7, <1>8 DEF A

\* The services a configuration has after ApplyAPI.
NodeServices(provided) == Named(sanitizeAPIServices(provided))

LEMMA ServicesSettle ==
  ASSUME NEW provided
  PROVE  LET t == NodeServices(provided)
         IN  /\ {t[k].name : k \in DOMAIN t} = Required \cup (Known \cap Asked(provided))
             /\ \A j, k \in DOMAIN t : t[j].name = t[k].name => j = k
             /\ sanitizeAPIServices(t) = sanitizeAPIServices(provided)
             /\ NodeServices(t) = t
<1> DEFINE s == sanitizeAPIServices(provided)
           t == Named(s)
<1>1. /\ s \in Seq(Known) /\ Range(s) = Required \cup (Known \cap Asked(provided))
      /\ \A j, k \in DOMAIN s : s[j] = s[k] => j = k
  BY SanitizeProps
<1>2. sanitizeAPIServices(provided) = requiredAPIServices \o Keep(SortedServices, Asked(provided) \ Required)
  BY DEF sanitizeAPIServices, Asked, Required
<1> HIDE DEF s
<1>3. DOMAIN t = DOMAIN s /\ \A k \in DOMAIN s : t[k].name = s[k]
  BY DEF Named
<1> HIDE DEF t
<1>4. {t[k].name : k \in DOMAIN t} = Range(s)
  BY <1>3 DEF Range
<1>5. \A k \in DOMAIN s : s[k] \in Known
  BY <1>1
<1>6. \A k \in DOMAIN t : canonicalAPIServices(t[k]) = s[k]
  BY <1>3, <1>5 DEF canonicalAPIServices, Known
<1>7. Asked(t) = Range(s)
  BY <1>3, <1>6 DEF Asked, Range
<1>8. Keep(SortedServices, Asked(t) \ Required) = Keep(SortedServices, Asked(provided) \ Required)
  <2> DEFINE U == Asked(t) \ Required
             V == Asked(provided) \ Required
  <2>1. Known \cap U = Known \cap V
    BY <1>1, <1>7
  <2> HIDE DEF U, V
  <2>2. Keep(SortedServices, U) = Keep(SortedServices, V)
    BY <2>1, ServiceLists, KeepSame DEF Known
  <2> QED BY <2>2 DEF U, V
<1>9. sanitizeAPIServices(t) = requiredAPIServices \o Keep(SortedServices, Asked(t) \ Required)
  BY DEF sanitizeAPIServices, Asked, Required
<1>10. sanitizeAPIServices(t) = s
  BY <1>2, <1>8, <1>9 DEF s
<1> QED BY <1>1, <1>3, <1>4, <1>10 DEF NodeServices, s, t

\* The tags that Xray does not observe.
Unobserved(outs) ==
  {t \in DOMAIN outboundProtocolByTag(outs) : outboundProtocolByTag(outs)[t] \in observatoryExcludedProtocols}

LEMMA ObservatoryProps ==
  ASSUME NEW obs \in Seq(Seq(Strings)), NEW outs
  PROVE  LET o == sanitizeObservatorySelectors(obs, outs)
         IN  /\ o \in Seq(Seq(Strings)) /\ Len(o) = Len(obs) /\ (o = Nil <=> obs = Nil)
             /\ Selectors(obs) \ Unobserved(outs) \subseteq Selectors(o)
             /\ sanitizeObservatorySelectors(o, outs) = o
<1> DEFINE U == Unobserved(outs)
           San(a) == [k \in DOMAIN a |-> Keep(a[k], Range(a[k]) \ U)]
           o == San(obs)
<1>1. \A a : sanitizeObservatorySelectors(a, outs) = San(a)
  BY DEF sanitizeObservatorySelectors, Unobserved
<1> HIDE DEF U
<1>2. DOMAIN obs = 1..Len(obs) /\ Len(obs) \in Nat /\ \A k \in 1..Len(obs) : obs[k] \in Seq(Strings)
  OBVIOUS
<1>3. ASSUME NEW k \in 1..Len(obs)
      PROVE  LET m == Keep(obs[k], Range(obs[k]) \ U)
             IN  m \in Seq(Strings) /\ Range(m) = Range(obs[k]) \ U /\ Keep(m, Range(m) \ U) = m
  <2> DEFINE l == obs[k]
             m == Keep(l, Range(l) \ U)
  <2>1. l \in Seq(Strings)
    BY <1>2
  <2> HIDE DEF l
  <2>2. m \in Seq(Strings) /\ Range(m) = Range(l) \cap (Range(l) \ U)
    BY <2>1, KeepRange
  <2> HIDE DEF m
  <2>3. Range(m) \subseteq Range(m) \ U
    BY <2>2
  <2>4. Keep(m, Range(m) \ U) = m
    BY <2>2, <2>3, KeepAll
  <2>5. Range(m) = Range(l) \ U
    BY <2>2
  <2> QED BY <2>2, <2>4, <2>5 DEF m, l
<1>4. DOMAIN o = 1..Len(obs) /\ \A k \in 1..Len(obs) : o[k] = Keep(obs[k], Range(obs[k]) \ U)
  BY <1>2
<1>5. o \in Seq(Seq(Strings)) /\ Len(o) = Len(obs)
  <2>1. \A k \in 1..Len(obs) : Keep(obs[k], Range(obs[k]) \ U) \in Seq(Strings)
    BY <1>3
  <2> QED BY <1>2, <2>1
<1>6. San(o) = o
  <2>1. San(o) = [k \in 1..Len(obs) |-> Keep(o[k], Range(o[k]) \ U)]
    BY <1>4
  <2>2. \A k \in 1..Len(obs) : Keep(o[k], Range(o[k]) \ U) = o[k]
    <3> HIDE DEF o
    <3> QED BY <1>3, <1>4
  <2>3. San(o) = [k \in 1..Len(obs) |-> o[k]]
    BY <2>1, <2>2
  <2>4. o = [k \in 1..Len(obs) |-> o[k]]
    BY <1>4
  <2> QED BY <2>3, <2>4
<1>7. Selectors(obs) \ U \subseteq Selectors(o)
  <2> HIDE DEF o
  <2>1. \A k \in 1..Len(obs) : Range(o[k]) = Range(obs[k]) \ U
    BY <1>3, <1>4
  <2> QED BY <1>2, <1>4, <2>1 DEF Selectors
<1>8. o = Nil <=> obs = Nil
  <2> HIDE DEF o
  <2> QED BY <1>2, <1>5 DEF Nil
<1> QED BY <1>1, <1>5, <1>6, <1>7, <1>8 DEF U

\* A set of positions that is not empty has a last one.
LEMMA Greatest ==
  ASSUME NEW n \in Nat, NEW S, S \subseteq 1..n, S # {}
  PROVE  \E k \in S : \A j \in S : j <= k
<1> DEFINE D == {d \in Nat : n - d \in S}
           R == OpToRel(<, Nat)
<1>1. \A j \in S : n - j \in D
  <2> SUFFICES ASSUME NEW j \in S PROVE n - j \in D
    OBVIOUS
  <2>1. j \in 1..n
    OBVIOUS
  <2>2. n - j \in Nat /\ n - (n - j) = j
    BY <2>1
  <2> QED BY <2>2
<1>2. D \subseteq Nat /\ D # {}
  BY <1>1
<1>3. \A d \in D : n - d \in S
  OBVIOUS
<1>4. IsWellFoundedOn(R, Nat)
  BY NatLessThanWellFounded
<1> HIDE DEF R, D
<1>5. \E d \in D : \A c \in D : ~ (<<c, d>> \in R)
  BY <1>2, <1>4, WFMin
<1>6. PICK d \in D : \A c \in D : ~ (<<c, d>> \in R)
  BY <1>5
<1>7. \A c \in D : c < d => <<c, d>> \in R
  BY <1>2 DEF R, OpToRel
<1>8. ASSUME NEW j \in S PROVE j <= n - d
  <2>1. n - j \in D /\ j \in 1..n /\ d \in Nat
    BY <1>1, <1>2
  <2>2. ~(n - j < d)
    BY <1>6, <1>7, <2>1
  <2> QED BY <2>1, <2>2
<1> QED BY <1>3, <1>8

\* Only the outbounds with a protocol of that kind are not observed.
LEMMA UnobservedTag ==
  ASSUME NEW outs \in Seq([tag : Strings, protocol : Strings]), NEW t \in Unobserved(outs)
  PROVE  \E k \in DOMAIN outs : outs[k].tag = t /\ outs[k].protocol \in observatoryExcludedProtocols
<1> DEFINE named == {k \in DOMAIN outs : outs[k].tag # "" /\ outs[k].protocol # ""}
           IsLast(k) == k \in named /\ outs[k].tag = t /\ \A j \in named : outs[j].tag = t => j <= k
<1>1. PICK i \in named : outs[i].tag = t
  BY DEF Unobserved, outboundProtocolByTag
<1>2. \E k \in named : IsLast(k)
  <2> DEFINE S == {k \in named : outs[k].tag = t}
  <2>1. Len(outs) \in Nat /\ S \subseteq DOMAIN outs /\ DOMAIN outs = 1..Len(outs)
    BY LenProperties
  <2>2. i \in S
    BY <1>1
  <2>3. \E k \in S : \A j \in S : j <= k
    <3> HIDE DEF S
    <3> QED BY <2>1, <2>2, Greatest
  <2> QED BY <2>3
<1> DEFINE last == CHOOSE k \in named : outs[k].tag = t /\ \A j \in named : outs[j].tag = t => j <= k
<1>3. last \in named /\ outs[last].tag = t
  <2> HIDE DEF named
  <2> QED BY <1>2
<1>4. outboundProtocolByTag(outs)[t] = outs[last].protocol
  BY <1>1 DEF outboundProtocolByTag
<1> HIDE DEF last
<1>5. outs[last].protocol \in observatoryExcludedProtocols
  BY <1>4 DEF Unobserved
<1> QED BY <1>3, <1>5

Level == [uplink : BOOLEAN, downlink : BOOLEAN, online : BOOLEAN, null : BOOLEAN]
System == [inbound : BOOLEAN, outbound : BOOLEAN]
Policy == {p \in [zero : Seq(Level), system : Seq(System)] : Len(p.zero) <= 1 /\ Len(p.system) <= 1}

LEMMA PolicyProps ==
  ASSUME NEW p \in Policy
  PROVE  LET c == checkPolicy(p)
         IN  /\ c.zero[1].uplink /\ c.zero[1].downlink /\ c.system[1].outbound
             /\ p.zero # Nil => c.zero[1].online = p.zero[1].online
             /\ p.system # Nil => c.system[1].inbound = p.system[1].inbound
             /\ checkPolicy(c) = c
<1> DEFINE x == IF p.zero = Nil THEN NodeLevel ELSE [p.zero[1] EXCEPT !.uplink = TRUE, !.downlink = TRUE]
           y == IF p.system = Nil THEN NodeSystem ELSE [p.system[1] EXCEPT !.outbound = TRUE]
           c == checkPolicy(p)
<1>1. c = [zero |-> <<x>>, system |-> <<y>>]
  <2>1. <<x>> = IF p.zero = Nil THEN <<NodeLevel>> ELSE <<[p.zero[1] EXCEPT !.uplink = TRUE, !.downlink = TRUE]>>
    OBVIOUS
  <2>2. <<y>> = IF p.system = Nil THEN <<NodeSystem>> ELSE <<[p.system[1] EXCEPT !.outbound = TRUE]>>
    OBVIOUS
  <2> HIDE DEF x, y
  <2> QED BY <2>1, <2>2 DEF checkPolicy
<1>2. p.zero \in Seq(Level) /\ p.system \in Seq(System)
  BY DEF Policy
<1>3. x \in Level /\ x.uplink = TRUE /\ x.downlink = TRUE /\ (p.zero # Nil => x.online = p.zero[1].online)
  <2>1. CASE p.zero = Nil
    BY <2>1 DEF NodeLevel, Level
  <2>2. CASE p.zero # Nil
    <3> DEFINE q == p.zero[1]
    <3>1. q \in Level
      BY <1>2, <2>2 DEF Nil
    <3>2. x = [q EXCEPT !.uplink = TRUE, !.downlink = TRUE]
      BY <2>2
    <3> HIDE DEF q, x
    <3>3. x \in Level /\ x.uplink = TRUE /\ x.downlink = TRUE /\ x.online = q.online
      BY <3>1, <3>2 DEF Level
    <3> QED BY <3>3 DEF q
  <2> QED BY <2>1, <2>2
<1>4. y \in System /\ y.outbound = TRUE /\ (p.system # Nil => y.inbound = p.system[1].inbound)
  <2>1. CASE p.system = Nil
    BY <2>1 DEF NodeSystem, System
  <2>2. CASE p.system # Nil
    <3> DEFINE q == p.system[1]
    <3>1. q \in System
      BY <1>2, <2>2 DEF Nil
    <3>2. y = [q EXCEPT !.outbound = TRUE]
      BY <2>2
    <3> HIDE DEF q, y
    <3>3. y \in System /\ y.outbound = TRUE /\ y.inbound = q.inbound
      BY <3>1, <3>2 DEF System
    <3> QED BY <3>3 DEF q
  <2> QED BY <2>1, <2>2
<1> HIDE DEF x, y
<1>5. [x EXCEPT !.uplink = TRUE, !.downlink = TRUE] = x /\ [y EXCEPT !.outbound = TRUE] = y
  BY <1>3, <1>4 DEF Level, System
<1>6. c.zero = <<x>> /\ c.system = <<y>> /\ c.zero # Nil /\ c.system # Nil /\ c.zero[1] = x /\ c.system[1] = y
  BY <1>1 DEF Nil
<1> HIDE DEF c
<1>7. checkPolicy(c) = [zero |-> <<x>>, system |-> <<y>>]
  BY <1>5, <1>6 DEF checkPolicy
<1>8. checkPolicy(c) = c
  BY <1>1, <1>7 DEF c
<1> QED BY <1>3, <1>4, <1>6, <1>8 DEF c

-----------------------------------------------------------------------------
(* The inbounds.                                                           *)

Sent == {inboundOf(t) : t \in Strings}
Inbound == Sent \cup {nodeInbound}
NotApi == {x \in Inbound : x.tag # ApiInbound}

\* At most one of the inbounds has the node's tag.
OneApi(list) == \A j, k \in 1..Len(list) : list[j].tag = ApiInbound /\ list[k].tag = ApiInbound => j = k

\* The loop over list, before iteration n: the node's old inbound is still
\* ahead, or it was at j and the ones behind it have moved up.
Loop(list, now, n, len) ==
  \/ now = list /\ len = Len(list) /\ \A k \in 1..Len(list) : k < n => list[k].tag # ApiInbound
  \/ \E j \in 1..Len(list) :
        /\ j < n /\ list[j].tag = ApiInbound /\ len = Len(list) - 1
        /\ now = [k \in 1..Len(list) |-> IF k \in j..(Len(list) - 1) THEN list[k + 1] ELSE list[k]]

LEMMA KeepNotApi ==
  ASSUME NEW list \in Seq(Inbound), \A k \in 1..Len(list) : list[k].tag # ApiInbound
  PROVE  Keep(list, NotApi) = list
<1>1. Range(list) \subseteq NotApi
  BY DEF Range, NotApi
<1> QED BY <1>1, KeepAll

\* A concatenation whose lengths are known.
LEMMA JoinedLists ==
  ASSUME NEW T, NEW s \in Seq(T), NEW t \in Seq(T), NEW k, NEW n, Len(s) = k, Len(s) + Len(t) = n
  PROVE  /\ s \o t \in Seq(T) /\ Len(s \o t) = n
         /\ \A x \in 1..n : (s \o t)[x] = IF x <= k THEN s[x] ELSE t[x - k]
BY ConcatProperties

\* What the loop leaves is the list without the old inbound.
LEMMA LoopKeeps ==
  ASSUME NEW list \in Seq(Inbound), OneApi(list), NEW now, NEW n \in Nat, NEW len,
         Loop(list, now, n, len), n > Len(list)
  PROVE  SubSeq(now, 1, len) = Keep(list, NotApi)
<1> DEFINE m == Len(list)
<1>0. m \in Nat /\ \A k \in 1..m : list[k] \in Inbound
  OBVIOUS
<1>1. CASE now = list /\ len = Len(list) /\ \A k \in 1..Len(list) : k < n => list[k].tag # ApiInbound
  <2>1. \A k \in 1..Len(list) : list[k].tag # ApiInbound
    BY <1>0, <1>1
  <2>2. Keep(list, NotApi) = list
    BY <2>1, KeepNotApi
  <2>3. SubSeq(list, 1, Len(list)) = list
    OBVIOUS
  <2> QED BY <1>1, <2>2, <2>3
<1>2. ASSUME NEW j \in 1..m, list[j].tag = ApiInbound, len = m - 1,
             now = [k \in 1..m |-> IF k \in j..(m - 1) THEN list[k + 1] ELSE list[k]]
      PROVE  SubSeq(now, 1, len) = Keep(list, NotApi)
  <2> DEFINE a == SubSeq(list, 1, j - 1)
             b == <<list[j]>>
             c == SubSeq(list, j + 1, m)
             r == SubSeq(now, 1, len)
  <2>a. a \in Seq(Inbound) /\ Len(a) = j - 1 /\ \A k \in 1..(j - 1) : a[k] = list[k]
    BY <1>0
  <2>c. c \in Seq(Inbound) /\ Len(c) = m - j /\ \A k \in 1..(m - j) : c[k] = list[j + k]
    BY <1>0
  <2>b. b \in Seq(Inbound) /\ Len(b) = 1 /\ b[1] = list[j] /\ Range(b) = {list[j]}
    BY <1>0, OneElement
  <2> HIDE DEF a, b, c, m
  <2>1. list = (a \o b) \o c
    <3> DEFINE ab == a \o b
               abc == ab \o c
    <3>1. /\ ab \in Seq(Inbound) /\ Len(ab) = j
          /\ \A k \in 1..j : ab[k] = IF k <= j - 1 THEN a[k] ELSE b[k - (j - 1)]
      <4>1. a \in Seq(Inbound) /\ b \in Seq(Inbound) /\ Len(a) = j - 1 /\ Len(a) + Len(b) = j
        BY <1>0, <2>a, <2>b
      <4> QED BY <4>1, JoinedLists
    <3> HIDE DEF ab
    <3>2. /\ abc \in Seq(Inbound) /\ Len(abc) = m
          /\ \A k \in 1..m : abc[k] = IF k <= j THEN ab[k] ELSE c[k - j]
      <4>1. ab \in Seq(Inbound) /\ c \in Seq(Inbound) /\ Len(ab) = j /\ Len(ab) + Len(c) = m
        BY <1>0, <2>c, <3>1
      <4> QED BY <4>1, JoinedLists
    <3> HIDE DEF abc
    <3>3. ASSUME NEW k \in 1..m PROVE abc[k] = list[k]
      <4>1. CASE k < j
        <5>1. k \in 1..j /\ k \in 1..(j - 1)
          BY <1>0, <4>1
        <5>0. k \in 1..m
          OBVIOUS
        <5>2. abc[k] = ab[k]
          BY <3>2, <5>0, <5>1
        <5>3. ab[k] = a[k]
          BY <3>1, <5>1
        <5> QED BY <2>a, <5>1, <5>2, <5>3
      <4>2. CASE k = j
        <5>1. k \in 1..j /\ k - (j - 1) = 1 /\ ~(k <= j - 1)
          BY <1>0, <4>2
        <5>2. ab[k] = b[1]
          BY <3>1, <5>1
        <5> QED BY <2>b, <3>2, <4>2, <5>2
      <4>3. CASE k > j
        <5>1. k - j \in 1..(m - j) /\ j + (k - j) = k /\ ~(k <= j)
          BY <1>0, <4>3
        <5> QED BY <2>c, <3>2, <5>1
      <4> QED BY <1>0, <4>1, <4>2, <4>3
    <3>4. Len(list) = Len(abc) /\ \A k \in 1..Len(list) : list[k] = abc[k]
      BY <3>2, <3>3 DEF m
    <3>5. list = abc
      BY <3>2, <3>4, SeqEqual
    <3> QED BY <3>5 DEF abc, ab
  <2>2. r = a \o c
    <3> DEFINE ac == a \o c
    <3>1. /\ ac \in Seq(Inbound) /\ Len(ac) = m - 1
          /\ \A k \in 1..(m - 1) : ac[k] = IF k <= j - 1 THEN a[k] ELSE c[k - (j - 1)]
      BY <1>0, <2>a, <2>c
    <3> HIDE DEF ac
    <3>2. ASSUME NEW k \in 1..(m - 1) PROVE now[k] = ac[k]
      <4>1. now[k] = IF k \in j..(m - 1) THEN list[k + 1] ELSE list[k]
        BY <1>0, <1>2
      <4>2. CASE k <= j - 1
        <5>1. k \in 1..(j - 1) /\ k \notin j..(m - 1)
          BY <1>0, <4>2
        <5> QED BY <2>a, <3>1, <4>1, <4>2, <5>1
      <4>3. CASE ~(k <= j - 1)
        <5>1. k \in j..(m - 1) /\ k - (j - 1) \in 1..(m - j) /\ j + (k - (j - 1)) = k + 1
          BY <1>0, <4>3
        <5> QED BY <2>c, <3>1, <4>1, <4>3, <5>1
      <4> QED BY <4>2, <4>3
    <3>3. \A k \in 1..(m - 1) : ac[k] \in Inbound
      BY <3>1
    <3>4. \A k \in 1..(m - 1) : now[k] \in Inbound
      BY <3>2, <3>3
    <3>5. r \in Seq(Inbound) /\ Len(r) = m - 1 /\ \A k \in 1..(m - 1) : r[k] = now[k]
      <4>1. /\ r \in Seq(Inbound) /\ Len(r) = IF 1 <= m - 1 THEN (m - 1) - 1 + 1 ELSE 0
            /\ \A k \in 1..((m - 1) - 1 + 1) : r[k] = now[1 + k - 1]
        <5>1. 1 \in Int /\ m - 1 \in Int
          BY <1>0
        <5> QED BY <1>2, <3>4, <5>1, SubSeqProperties
      <4> HIDE DEF r
      <4>2. \A k \in 1..(m - 1) : 1 + k - 1 = k
        BY <1>0
      <4> QED BY <1>0, <4>1, <4>2
    <3> HIDE DEF r
    <3>6. Len(r) = Len(ac) /\ \A k \in 1..Len(r) : r[k] = ac[k]
      BY <3>1, <3>2, <3>5
    <3>7. r = ac
      BY <3>1, <3>5, <3>6, SeqEqual
    <3> QED BY <3>7 DEF ac
  <2>3. Keep(list, NotApi) = (Keep(a, NotApi) \o Keep(b, NotApi)) \o Keep(c, NotApi)
    <3>1. a \o b \in Seq(Inbound) /\ Keep(a \o b, NotApi) = Keep(a, NotApi) \o Keep(b, NotApi)
      BY <2>a, <2>b, KeepConcat
    <3> DEFINE ab == a \o b
    <3> HIDE DEF ab
    <3>2. ab \in Seq(Inbound)
      BY <3>1 DEF ab
    <3>3. Keep(ab \o c, NotApi) = Keep(ab, NotApi) \o Keep(c, NotApi)
      BY <2>c, <3>2, KeepConcat
    <3> QED BY <2>1, <3>1, <3>3 DEF ab
  <2>4. Keep(b, NotApi) = <<>>
    <3>1. Range(b) \cap NotApi = {}
      BY <1>2, <2>b DEF NotApi
    <3> QED BY <2>b, <3>1, KeepNone
  <2>5. \A k \in 1..m : k # j => list[k].tag # ApiInbound
    BY <1>2 DEF OneApi, m
  <2>6. Keep(a, NotApi) = a
    <3>1. \A k \in 1..Len(a) : a[k].tag # ApiInbound
      <4>1. \A k \in 1..(j - 1) : k \in 1..m /\ k # j
        BY <1>0
      <4> QED BY <2>5, <2>a, <4>1
    <3> QED BY <2>a, <3>1, KeepNotApi
  <2>7. Keep(c, NotApi) = c
    <3>1. \A k \in 1..Len(c) : c[k].tag # ApiInbound
      <4>1. \A k \in 1..(m - j) : j + k \in 1..m /\ j + k # j
        BY <1>0
      <4> QED BY <2>5, <2>c, <4>1
    <3> QED BY <2>c, <3>1, KeepNotApi
  <2>8. (a \o <<>>) \o c = a \o c
    BY <2>a
  <2> QED BY <2>2, <2>3, <2>4, <2>6, <2>7, <2>8
<1> QED BY <1>1, <1>2 DEF Loop

\* An iteration keeps to it, and never finds the node's inbound past the end.
LEMMA LoopStep ==
  ASSUME NEW list \in Seq(Inbound), OneApi(list), NEW now, NEW n \in 1..Len(list), NEW len,
         Loop(list, now, n, len)
  PROVE  /\ now[n].tag # ApiInbound => Loop(list, now, n + 1, len)
         /\ now[n].tag = ApiInbound =>
              /\ n <= len
              /\ Loop(list, [k \in DOMAIN now |-> IF k \in n..(len - 1) THEN now[k + 1] ELSE now[k]], n + 1, len - 1)
<1> DEFINE m == Len(list)
<1>0. m \in Nat /\ DOMAIN list = 1..m /\ n \in 1..m
  OBVIOUS
<1>1. CASE now = list /\ len = m /\ \A k \in 1..m : k < n => list[k].tag # ApiInbound
  <2>1. CASE now[n].tag # ApiInbound
    <3>1. \A k \in 1..m : k < n + 1 => k < n \/ k = n
      BY <1>0
    <3> QED BY <1>1, <2>1, <3>1 DEF Loop
  <2>2. CASE now[n].tag = ApiInbound
    <3>1. n < n + 1 /\ n <= len /\ len - 1 = m - 1
      BY <1>0, <1>1
    <3>2. [k \in DOMAIN now |-> IF k \in n..(len - 1) THEN now[k + 1] ELSE now[k]]
            = [k \in 1..m |-> IF k \in n..(m - 1) THEN list[k + 1] ELSE list[k]]
      BY <1>0, <1>1
    <3> HIDE DEF m
    <3>3. m = Len(list)
      BY DEF m
    <3> QED BY <1>0, <1>1, <2>2, <3>1, <3>2, <3>3 DEF Loop
  <2> QED BY <2>1, <2>2
<1>2. ASSUME NEW j \in 1..m, j < n, list[j].tag = ApiInbound, len = m - 1,
             now = [k \in 1..m |-> IF k \in j..(m - 1) THEN list[k + 1] ELSE list[k]]
      PROVE  now[n].tag # ApiInbound /\ Loop(list, now, n + 1, len)
  <2>1. now[n] = IF n \in j..(m - 1) THEN list[n + 1] ELSE list[n]
    BY <1>0, <1>2
  <2>2. \A k \in 1..m : k # j => list[k].tag # ApiInbound
    BY <1>2 DEF OneApi
  <2>3. n # j /\ (n \in j..(m - 1) => n + 1 \in 1..m /\ n + 1 # j)
    BY <1>0, <1>2
  <2>4. now[n].tag # ApiInbound
    BY <1>0, <2>1, <2>2, <2>3
  <2>5. j < n + 1
    BY <1>0, <1>2
  <2>6. Loop(list, now, n + 1, len)
    BY <1>2, <2>5 DEF Loop
  <2> QED BY <2>4, <2>6
<1> QED BY <1>1, <1>2 DEF Loop

-----------------------------------------------------------------------------
(* The inductive invariant.  Every part of the configuration is, at each   *)
(* step of ApplyAPI, a function of what the panel sent.                    *)

Conf(inbounds, services, obs, burst, rules, policy) ==
  [inbounds |-> inbounds, services |-> services, observatory |-> obs, burst |-> burst,
   rules |-> rules, outbounds |-> given.outbounds, policy |-> policy]

GivenOK ==
  /\ given = Conf(given.inbounds, given.services, given.observatory, given.burst, given.rules, given.policy)
  /\ given.inbounds \in Seq(Sent)
  /\ given.observatory \in Seq(Seq(Strings)) /\ given.burst \in Seq(Seq(Strings))
  /\ given.rules \in Seq(Rule) /\ given.policy \in Policy
  /\ given.outbounds \in Seq([tag : Strings, protocol : Strings]) /\ given.outbounds \in Outbounds

\* The observatory that ApplyAPI starts from, and what it makes of one.
Observed(services, obs, burst, outs) ==
  IF "ObservatoryService" \in Range(services) /\ obs = Nil /\ burst = Nil THEN <<defaultObservatory(outs)>> ELSE obs

NodeObservatory(services, obs, burst, outs) ==
  sanitizeObservatorySelectors(Observed(sanitizeAPIServices(services), obs, burst, outs), outs)

ServicesMade == NodeServices(given.services)
ObservatoryMade == NodeObservatory(given.services, given.observatory, given.burst, given.outbounds)
BurstMade == sanitizeObservatorySelectors(given.burst, given.outbounds)
RulesMade == NodeRules(given.outbounds) \o PanelRules(given.rules)
PolicyMade == checkPolicy(given.policy)

\* Before the step that makes them they are the panel's, or those of the first round.
Early(steps) == round = 1 /\ at \in steps

ServicesNow == IF Early({"remove", "services"}) THEN given.services ELSE ServicesMade
ObservatoryNow == IF Early({"remove", "services"}) THEN given.observatory ELSE ObservatoryMade
BurstNow == IF Early({"remove", "services"}) THEN given.burst ELSE BurstMade
PolicyNow == IF Early({"remove", "services", "rules"}) THEN given.policy ELSE PolicyMade
RulesNow == IF at = "prepend" THEN PanelRules(given.rules)
            ELSE IF Early({"remove", "services", "rules"}) THEN given.rules ELSE RulesMade

PartsOK ==
  at \notin {"error", "nil", "panic"} =>
      cfg = Conf(cfg.inbounds, ServicesNow, ObservatoryNow, BurstNow, RulesNow, PolicyNow)

OnceOK ==
  at = "done" \/ round = 2 =>
      once = Conf(once.inbounds, ServicesMade, ObservatoryMade, BurstMade, RulesMade, PolicyMade)

Users == Keep(given.inbounds, NotApi)

\* The list that the loop runs over.
Listed == IF round = 1 THEN given.inbounds ELSE <<inboundOf(ApiInbound)>> \o Users

InboundsOK ==
  OneApi(given.inbounds) =>
      /\ at # "panic"
      /\ at = "remove" => Loop(Listed, cfg.inbounds, iter, live)
      /\ at \in {"services", "rules", "prepend"} => cfg.inbounds = Users
      /\ at = "done" => cfg.inbounds = <<nodeInbound>> \o Users
      /\ at = "done" \/ round = 2 => once.inbounds = <<nodeInbound>> \o Users

StepsOK ==
  /\ at \in {"remove", "services", "rules", "prepend", "done", "error", "nil", "panic"}
  /\ round \in {1, 2}
  /\ at \notin {"error", "nil", "panic"} => cfg.inbounds \in Seq(Inbound)
  /\ at = "remove" => iter \in 1..(Len(cfg.inbounds) + 1) /\ live \in 0..Len(cfg.inbounds)

ApiInv == GivenOK /\ StepsOK /\ PartsOK /\ OnceOK /\ InboundsOK

LEMMA DefaultIsList ==
  ASSUME NEW outs
  PROVE  defaultObservatory(outs) \in Seq(Strings)
<1> DEFINE S == {t \in DOMAIN outboundProtocolByTag(outs) :
                   outboundProtocolByTag(outs)[t] \notin observatoryExcludedProtocols}
<1>1. TagOrder \in Seq(Strings)
  <2>1. {TagOrder, LocalAddrs, PrivateCIDRs} \subseteq Seq(Strings)
    BY ApiAssumption
  <2> QED BY <2>1
<1>2. defaultObservatory(outs) = Keep(TagOrder, S)
  BY DEF defaultObservatory
<1> HIDE DEF S
<1> QED BY <1>1, <1>2, KeepRange

\* The observatory, made, is an observatory; where the service is wanted there
\* is one, or a burst observatory; and it is not made anew.
NodeBurst(burst, outs) == sanitizeObservatorySelectors(burst, outs)

WantsObservatory(services) == "ObservatoryService" \in Range(sanitizeAPIServices(services))

ObservatorySettled(services, obs, burst, outs) ==
  LET made == NodeObservatory(services, obs, burst, outs)
      b == NodeBurst(burst, outs)
  IN  /\ NodeObservatory(NodeServices(services), made, b, outs) = made /\ NodeBurst(b, outs) = b
      /\ WantsObservatory(services) => made # Nil \/ b # Nil
      /\ made # Nil /\ obs = Nil => b = Nil
      /\ Selectors(obs) \ Unobserved(outs) \subseteq Selectors(made)

LEMMA ObservatorySettles ==
  ASSUME NEW services, NEW obs \in Seq(Seq(Strings)), NEW burst \in Seq(Seq(Strings)), NEW outs
  PROVE  ObservatorySettled(services, obs, burst, outs)
<1> DEFINE wanted == "ObservatoryService" \in Range(sanitizeAPIServices(services))
           o == Observed(sanitizeAPIServices(services), obs, burst, outs)
           made == NodeObservatory(services, obs, burst, outs)
           b == sanitizeObservatorySelectors(burst, outs)
<1>1. o = IF wanted /\ obs = Nil /\ burst = Nil THEN <<defaultObservatory(outs)>> ELSE obs
  BY DEF Observed
<1>2. <<defaultObservatory(outs)>> \in Seq(Seq(Strings)) /\ <<defaultObservatory(outs)>> # Nil
  BY DefaultIsList, OneElement DEF Nil
<1>3. made = sanitizeObservatorySelectors(o, outs)
  BY DEF NodeObservatory
<1>4. sanitizeAPIServices(NodeServices(services)) = sanitizeAPIServices(services)
  BY ServicesSettle
<1>5. NodeObservatory(NodeServices(services), made, b, outs)
        = sanitizeObservatorySelectors(IF wanted /\ made = Nil /\ b = Nil THEN <<defaultObservatory(outs)>> ELSE made, outs)
  BY <1>4 DEF NodeObservatory, Observed
<1>6. o \in Seq(Seq(Strings)) /\ (o = Nil => obs = Nil /\ ~(wanted /\ burst = Nil))
  BY <1>1, <1>2
<1>a. obs # Nil => o = obs
  BY <1>1
<1>b. o # Nil /\ obs = Nil => burst = Nil
  BY <1>1
<1> HIDE DEF o, wanted
<1>7. /\ made \in Seq(Seq(Strings)) /\ (made = Nil <=> o = Nil)
      /\ Selectors(o) \ Unobserved(outs) \subseteq Selectors(made)
      /\ sanitizeObservatorySelectors(made, outs) = made
  BY <1>3, <1>6, ObservatoryProps
<1>8. /\ b \in Seq(Seq(Strings)) /\ (b = Nil <=> burst = Nil)
      /\ sanitizeObservatorySelectors(b, outs) = b
  BY ObservatoryProps
<1> HIDE DEF made, b
<1>9. ~(wanted /\ made = Nil /\ b = Nil)
  BY <1>6, <1>7, <1>8
<1>10. NodeObservatory(NodeServices(services), made, b, outs) = made
  BY <1>5, <1>7, <1>9
<1>11. Selectors(obs) \ Unobserved(outs) \subseteq Selectors(made)
  <2>1. CASE obs = Nil
    <3>1. Selectors(obs) = {}
      BY <2>1 DEF Selectors, Nil
    <3> QED BY <3>1
  <2>2. CASE obs # Nil
    BY <1>7, <1>a, <2>2
  <2> QED BY <2>1, <2>2
<1>12. wanted => made # Nil \/ b # Nil
  BY <1>9
<1>13. made # Nil /\ obs = Nil => b = Nil
  BY <1>7, <1>8, <1>b
<1> QED BY <1>7, <1>8, <1>10, <1>11, <1>12, <1>13 DEF made, b, wanted, NodeBurst, WantsObservatory, ObservatorySettled

\* What is made is made of the panel's configuration alone, and once only.
LEMMA MadeSettles ==
  ASSUME GivenOK
  PROVE  /\ NodeServices(ServicesMade) = ServicesMade
         /\ NodeObservatory(ServicesMade, ObservatoryMade, BurstMade, given.outbounds) = ObservatoryMade
         /\ sanitizeObservatorySelectors(BurstMade, given.outbounds) = BurstMade
         /\ PanelRules(RulesMade) = PanelRules(given.rules)
         /\ checkPolicy(PolicyMade) = PolicyMade
<1>1. NodeServices(ServicesMade) = ServicesMade
  BY ServicesSettle DEF ServicesMade
<1>2. given.observatory \in Seq(Seq(Strings)) /\ given.burst \in Seq(Seq(Strings))
  BY DEF GivenOK
<1>3. /\ NodeObservatory(ServicesMade, ObservatoryMade, BurstMade, given.outbounds) = ObservatoryMade
      /\ sanitizeObservatorySelectors(BurstMade, given.outbounds) = BurstMade
  <2> DEFINE v == given.services
             o == given.observatory
             u == given.burst
             w == given.outbounds
  <2>1. o \in Seq(Seq(Strings)) /\ u \in Seq(Seq(Strings))
    BY <1>2
  <2> HIDE DEF v, o, u, w
  <2>2. /\ NodeObservatory(NodeServices(v), NodeObservatory(v, o, u, w), NodeBurst(u, w), w) = NodeObservatory(v, o, u, w)
        /\ NodeBurst(NodeBurst(u, w), w) = NodeBurst(u, w)
    <3>1. ObservatorySettled(v, o, u, w)
      BY <2>1, ObservatorySettles
    <3> QED BY <3>1 DEF ObservatorySettled
  <2> QED BY <2>2 DEF ServicesMade, ObservatoryMade, BurstMade, NodeBurst, v, o, u, w
<1>4. PanelRules(RulesMade) = PanelRules(given.rules)
  BY RulesSettle DEF GivenOK, RulesMade
<1>5. checkPolicy(PolicyMade) = PolicyMade
  BY PolicyProps DEF GivenOK, PolicyMade
<1> QED BY <1>1, <1>3, <1>4, <1>5

LEMMA MadeStays ==
  ASSUME given' = given
  PROVE  /\ ServicesMade' = ServicesMade /\ ObservatoryMade' = ObservatoryMade /\ BurstMade' = BurstMade
         /\ RulesMade' = RulesMade /\ PolicyMade' = PolicyMade /\ Users' = Users /\ (GivenOK => GivenOK')
BY DEF ServicesMade, ObservatoryMade, BurstMade, RulesMade, PolicyMade, Users, GivenOK, Conf

\* What is sent from the panel is no inbound of the node's.
LEMMA SentProps ==
  /\ \A x \in Sent : x.tag \in Strings /\ x = inboundOf(x.tag) /\ x \in Inbound
  /\ inboundOf(ApiInbound) \in Sent /\ inboundOf(ApiInbound).tag = ApiInbound
  /\ nodeInbound \in Inbound /\ nodeInbound.tag = ApiInbound
  /\ \A list \in Seq(Sent) : list \in Seq(Inbound)
<1>1. \A t : inboundOf(t).tag = t
  BY DEF inboundOf
<1>2. ApiInbound \in Strings
  BY ApiAssumption DEF ApiInbound
<1>3. \A x \in Sent : x.tag \in Strings /\ x = inboundOf(x.tag) /\ x \in Inbound
  BY <1>1 DEF Sent, Inbound
<1>4. nodeInbound \in Inbound /\ nodeInbound.tag = ApiInbound
  BY DEF nodeInbound, Inbound
<1>5. \A list \in Seq(Sent) : list \in Seq(Inbound)
  BY DEF Inbound
<1>6. inboundOf(ApiInbound) \in Sent
  BY <1>2 DEF Sent
<1> QED BY <1>1, <1>3, <1>4, <1>5, <1>6

LEMMA UsersProps ==
  ASSUME GivenOK
  PROVE  /\ Users \in Seq(Sent) /\ Users \in Seq(Inbound) /\ given.inbounds \in Seq(Inbound)
         /\ UserInbounds = Users
         /\ \A k \in 1..Len(Users) : Users[k].tag # ApiInbound
<1>1. given.inbounds \in Seq(Sent)
  BY DEF GivenOK
<1>2. Users \in Seq(Sent) /\ Range(Users) = Range(given.inbounds) \cap NotApi
  BY <1>1, KeepRange DEF Users
<1>3. Users \in Seq(Inbound) /\ given.inbounds \in Seq(Inbound)
  BY <1>1, <1>2, SentProps
<1>4. UserInbounds = Users
  <2> DEFINE S == {inb \in Range(given.inbounds) : inb.tag # ApiInbound}
  <2>1. Range(given.inbounds) \subseteq Inbound
    BY <1>3 DEF Range
  <2>2. Range(given.inbounds) \cap S = Range(given.inbounds) \cap NotApi
    BY <2>1 DEF NotApi
  <2> HIDE DEF S
  <2>3. Keep(given.inbounds, S) = Keep(given.inbounds, NotApi)
    BY <1>3, <2>2, KeepSame
  <2> QED BY <2>3 DEF S, UserInbounds, Users
<1>5. \A k \in 1..Len(Users) : Users[k].tag # ApiInbound
  <2>1. \A k \in 1..Len(Users) : Users[k] \in Range(Users)
    BY <1>2 DEF Range
  <2> QED BY <1>2, <2>1 DEF NotApi
<1> QED BY <1>2, <1>3, <1>4, <1>5

\* A list that starts with one more inbound.
LEMMA InFront ==
  ASSUME NEW T, NEW x \in T, NEW list \in Seq(T)
  PROVE  /\ <<x>> \o list \in Seq(T) /\ Len(<<x>> \o list) = Len(list) + 1 /\ (<<x>> \o list)[1] = x
         /\ \A k \in 2..(Len(list) + 1) : (<<x>> \o list)[k] = list[k - 1]
<1> DEFINE a == <<x>>
           b == a \o list
<1>1. a \in Seq(T) /\ Len(a) = 1 /\ a[1] = x
  BY OneElement
<1>2. /\ b \in Seq(T) /\ Len(b) = Len(a) + Len(list)
      /\ \A k \in 1..(Len(a) + Len(list)) : b[k] = IF k <= Len(a) THEN a[k] ELSE list[k - Len(a)]
  BY <1>1, ConcatProperties
<1>3. Len(list) \in Nat
  OBVIOUS
<1> HIDE DEF a, b
<1>4. Len(b) = Len(list) + 1 /\ b[1] = x
  <2>1. 1 \in 1..(Len(a) + Len(list)) /\ 1 <= Len(a)
    BY <1>1, <1>3
  <2> QED BY <1>1, <1>2, <1>3, <2>1
<1>5. \A k \in 2..(Len(list) + 1) : b[k] = list[k - 1]
  <2>1. \A k \in 2..(Len(list) + 1) : k \in 1..(Len(a) + Len(list)) /\ ~(k <= Len(a)) /\ k - Len(a) = k - 1
    BY <1>1, <1>3
  <2> QED BY <1>2, <2>1
<1> QED BY <1>2, <1>4, <1>5 DEF b, a

\* The loop of the second round runs over a list with one API_INBOUND, the first.
LEMMA ListedProps ==
  ASSUME GivenOK, OneApi(given.inbounds), round \in {1, 2}
  PROVE  Listed \in Seq(Inbound) /\ OneApi(Listed) /\ Keep(Listed, NotApi) = Users
<1>0. /\ Users \in Seq(Inbound) /\ given.inbounds \in Seq(Inbound)
      /\ \A k \in 1..Len(Users) : Users[k].tag # ApiInbound
  BY UsersProps
<1>1. CASE round = 1
  BY <1>0, <1>1 DEF Listed, Users
<1>2. CASE round = 2
  <2> DEFINE x == inboundOf(ApiInbound)
             a == <<x>>
             b == a \o Users
  <2>1. Listed = b
    BY <1>2 DEF Listed
  <2>2. x \in Inbound /\ x.tag = ApiInbound
    BY SentProps
  <2> HIDE DEF x
  <2>3. b \in Seq(Inbound) /\ Len(b) = Len(Users) + 1 /\ b[1] = x /\ \A k \in 2..(Len(Users) + 1) : b[k] = Users[k - 1]
    BY <1>0, <2>2, InFront
  <2>4. a \in Seq(Inbound) /\ Range(a) = {x}
    BY <2>2, OneElement
  <2> HIDE DEF a
  <2>5. Keep(b, NotApi) = Users
    <3>1. Keep(b, NotApi) = Keep(a, NotApi) \o Keep(Users, NotApi)
      BY <1>0, <2>4, KeepConcat
    <3>2. Range(a) \cap NotApi = {}
      BY <2>2, <2>4 DEF NotApi
    <3>3. Keep(a, NotApi) = <<>>
      BY <2>4, <3>2, KeepNone
    <3>4. Keep(Users, NotApi) = Users
      BY <1>0, KeepNotApi
    <3> QED BY <1>0, <3>1, <3>3, <3>4
  <2> HIDE DEF b
  <2>6. OneApi(b)
    <3>1. ASSUME NEW k \in 1..Len(b), k # 1 PROVE b[k].tag # ApiInbound
      <4>1. Len(Users) \in Nat
        BY <1>0
      <4>2. k \in 2..(Len(Users) + 1) /\ k - 1 \in 1..Len(Users)
        BY <2>3, <3>1, <4>1
      <4> QED BY <1>0, <2>3, <4>2
    <3> QED BY <3>1 DEF OneApi
  <2> QED BY <2>1, <2>3, <2>5, <2>6
<1> QED BY <1>1, <1>2

LEMMA InitOK ==
  ApiInit => ApiInv
<1> SUFFICES ASSUME ApiInit PROVE ApiInv
  OBVIOUS
<1>1. PICK tags \in Inbounds, services \in Services, obs \in Observatories, burst \in Observatories,
           rules \in Rules, outs \in Outbounds, policy \in Policies :
        cfg = NewConfig(tags, services, obs, burst, rules, outs, policy)
  BY DEF ApiInit
<1>2. /\ given = cfg /\ once = cfg /\ at = "remove" /\ iter = 1 /\ live = Len(cfg.inbounds) /\ round = 1
  BY DEF ApiInit
<1> DEFINE sent == [k \in DOMAIN tags |-> inboundOf(tags[k])]
<1>3. sent \in Seq(Sent)
  <2>1. tags \in Seq(Strings)
    BY ApiAssumption
  <2>2. \A k \in DOMAIN tags : inboundOf(tags[k]) \in Sent
    BY <2>1 DEF Sent
  <2> QED BY <2>1, <2>2
<1>4. given = [inbounds |-> sent, services |-> services, observatory |-> obs, burst |-> burst,
               rules |-> rules, outbounds |-> outs, policy |-> policy]
  BY <1>1, <1>2 DEF NewConfig
<1> HIDE DEF sent
<1>5. /\ given.inbounds = sent /\ given.services = services /\ given.observatory = obs /\ given.burst = burst
      /\ given.rules = rules /\ given.outbounds = outs /\ given.policy = policy
  BY <1>4
<1>6. given = Conf(given.inbounds, given.services, given.observatory, given.burst, given.rules, given.policy)
  BY <1>4, <1>5 DEF Conf
<1>7. obs \in Seq(Seq(Strings)) /\ burst \in Seq(Seq(Strings))
  BY ApiAssumption
<1>8. rules \in Seq(Rule)
  BY ApiAssumption DEF Rule
<1>9. outs \in Seq([tag : Strings, protocol : Strings])
  BY ApiAssumption
<1>10. policy \in Policy
  BY ApiAssumption DEF Policy, Level, System
<1>11. GivenOK
  BY <1>3, <1>5, <1>6, <1>7, <1>8, <1>9, <1>10 DEF GivenOK
<1>12. given.inbounds \in Seq(Inbound) /\ Len(given.inbounds) \in Nat
  BY <1>11, UsersProps
<1>13. StepsOK
  BY <1>2, <1>12 DEF StepsOK
<1>14. PartsOK
  BY <1>2, <1>6 DEF PartsOK, ServicesNow, ObservatoryNow, BurstNow, RulesNow, PolicyNow, Early
<1>15. OnceOK
  BY <1>2 DEF OnceOK
<1>16. InboundsOK
  <2>1. Loop(Listed, cfg.inbounds, iter, live)
    <3>1. Listed = cfg.inbounds /\ live = Len(cfg.inbounds) /\ iter = 1
      BY <1>2 DEF Listed
    <3>2. \A k \in 1..Len(cfg.inbounds) : ~(k < 1)
      BY <1>2, <1>12
    <3> QED BY <3>1, <3>2 DEF Loop
  <2> QED BY <1>2, <2>1 DEF InboundsOK
<1> QED BY <1>11, <1>13, <1>14, <1>15, <1>16 DEF ApiInv

\* A step within the loop touches the inbounds only.
LEMMA InboundsStep ==
  ASSUME GivenOK, PartsOK, OnceOK, at = "remove", NEW x, cfg' = [cfg EXCEPT !.inbounds = x],
         UNCHANGED <<given, once, round>>, at' \in {"remove", "services"}
  PROVE  PartsOK' /\ OnceOK' /\ cfg'.inbounds = x
<1>1. cfg = Conf(cfg.inbounds, ServicesNow, ObservatoryNow, BurstNow, RulesNow, PolicyNow)
  BY DEF PartsOK
<1>2. /\ ServicesNow' = ServicesNow /\ ObservatoryNow' = ObservatoryNow /\ BurstNow' = BurstNow
      /\ RulesNow' = RulesNow /\ PolicyNow' = PolicyNow
  BY MadeStays DEF ServicesNow, ObservatoryNow, BurstNow, RulesNow, PolicyNow, Early
<1>3. cfg' = Conf(x, ServicesNow, ObservatoryNow, BurstNow, RulesNow, PolicyNow)
  BY <1>1 DEF Conf
<1>4. cfg'.inbounds = x
  BY <1>3 DEF Conf
<1>5. PartsOK'
  BY <1>2, <1>3, <1>4 DEF PartsOK, Conf
<1>6. OnceOK'
  BY MadeStays DEF OnceOK, Conf
<1> QED BY <1>4, <1>5, <1>6

LEMMA RemoveInboundKeeps ==
  ASSUME ApiInv, RemoveInbound
  PROVE  ApiInv'
<1> USE DEF ApiInv
<1>1. /\ at = "remove" /\ iter <= Len(cfg.inbounds) /\ UNCHANGED <<given, once, round>>
      /\ iter \in 1..(Len(cfg.inbounds) + 1) /\ live \in 0..Len(cfg.inbounds) /\ cfg.inbounds \in Seq(Inbound)
      /\ round \in {1, 2}
  BY DEF RemoveInbound, StepsOK
<1>2. GivenOK' /\ Users' = Users /\ Listed' = Listed
  BY <1>1, MadeStays DEF Listed
<1> DEFINE n == Len(cfg.inbounds)
<1>3. n \in Nat /\ iter \in 1..n /\ iter + 1 \in 1..(n + 1) /\ live \in 0..n
  BY <1>1
<1>4. OneApi(given.inbounds) => Listed \in Seq(Inbound) /\ OneApi(Listed) /\ Len(Listed) = n
  <2> SUFFICES ASSUME OneApi(given.inbounds) PROVE Listed \in Seq(Inbound) /\ OneApi(Listed) /\ Len(Listed) = n
    OBVIOUS
  <2>1. Listed \in Seq(Inbound) /\ OneApi(Listed)
    BY <1>1, ListedProps
  <2>2. Loop(Listed, cfg.inbounds, iter, live)
    BY <1>1 DEF InboundsOK
  <2>3. cfg.inbounds = Listed \/ DOMAIN cfg.inbounds = 1..Len(Listed)
    BY <2>2 DEF Loop
  <2>4. Len(Listed) = n
    <3>1. DOMAIN cfg.inbounds = 1..Len(cfg.inbounds) /\ Len(cfg.inbounds) \in Nat
      BY <1>1
    <3>2. Len(Listed) \in Nat
      BY <2>1
    <3>3. DOMAIN cfg.inbounds = 1..Len(Listed) => Len(Listed) = Len(cfg.inbounds)
      BY <3>1, <3>2
    <3> QED BY <2>3, <3>3
  <2> QED BY <2>1, <2>4
<1>5. OneApi(given.inbounds) =>
        /\ cfg.inbounds[iter].tag # ApiInbound => Loop(Listed, cfg.inbounds, iter + 1, live)
        /\ cfg.inbounds[iter].tag = ApiInbound =>
             /\ iter <= live
             /\ Loop(Listed, [k \in DOMAIN cfg.inbounds |-> IF k \in iter..(live - 1) THEN cfg.inbounds[k + 1] ELSE cfg.inbounds[k]],
                     iter + 1, live - 1)
  <2> SUFFICES ASSUME OneApi(given.inbounds)
               PROVE  /\ cfg.inbounds[iter].tag # ApiInbound => Loop(Listed, cfg.inbounds, iter + 1, live)
                      /\ cfg.inbounds[iter].tag = ApiInbound =>
                           /\ iter <= live
                           /\ Loop(Listed, [k \in DOMAIN cfg.inbounds |->
                                              IF k \in iter..(live - 1) THEN cfg.inbounds[k + 1] ELSE cfg.inbounds[k]],
                                   iter + 1, live - 1)
    OBVIOUS
  <2>1. Loop(Listed, cfg.inbounds, iter, live)
    BY <1>1 DEF InboundsOK
  <2>2. Listed \in Seq(Inbound) /\ OneApi(Listed) /\ iter \in 1..Len(Listed)
    BY <1>3, <1>4
  <2> DEFINE now == cfg.inbounds
             list == Listed
  <2> HIDE DEF now, list
  <2>3. Loop(list, now, iter, live) /\ list \in Seq(Inbound) /\ OneApi(list) /\ iter \in 1..Len(list)
    BY <2>1, <2>2 DEF now, list
  <2>4. /\ now[iter].tag # ApiInbound => Loop(list, now, iter + 1, live)
        /\ now[iter].tag = ApiInbound =>
              /\ iter <= live
              /\ Loop(list, [k \in DOMAIN now |-> IF k \in iter..(live - 1) THEN now[k + 1] ELSE now[k]], iter + 1, live - 1)
    BY <2>3, LoopStep
  <2> QED BY <2>4 DEF now, list
<1>6. CASE cfg.inbounds[iter].tag # ApiInbound
  <2>1. iter' = iter + 1 /\ UNCHANGED <<cfg, live, at>>
    BY <1>6 DEF RemoveInbound
  <2>2. StepsOK'
    BY <1>1, <1>3, <2>1 DEF StepsOK
  <2>3. PartsOK'
    BY <1>1, <2>1, MadeStays DEF PartsOK, Conf, ServicesNow, ObservatoryNow, BurstNow, RulesNow, PolicyNow, Early
  <2>4. OnceOK'
    BY <1>1, <2>1, MadeStays DEF OnceOK, Conf
  <2>5. InboundsOK'
    BY <1>1, <1>2, <1>5, <1>6, <2>1 DEF InboundsOK
  <2> QED BY <1>2, <2>2, <2>3, <2>4, <2>5
<1>7. CASE cfg.inbounds[iter].tag = ApiInbound /\ iter > live
  <2>1. at' = "panic"
    BY <1>7 DEF RemoveInbound
  <2>2. ~OneApi(given.inbounds)
    BY <1>3, <1>5, <1>7
  <2>3. StepsOK'
    BY <1>1, <2>1 DEF StepsOK
  <2>4. PartsOK' /\ OnceOK'
    BY <1>1, <2>1, MadeStays DEF PartsOK, OnceOK, Conf
  <2>5. InboundsOK'
    BY <1>1, <2>2 DEF InboundsOK
  <2> QED BY <1>2, <2>3, <2>4, <2>5
<1>8. CASE cfg.inbounds[iter].tag = ApiInbound /\ ~(iter > live)
  <2> DEFINE now == cfg.inbounds
             x == [k \in DOMAIN now |-> IF k \in iter..(live - 1) THEN now[k + 1] ELSE now[k]]
  <2>1. cfg' = [cfg EXCEPT !.inbounds = x] /\ live' = live - 1 /\ iter' = iter + 1 /\ UNCHANGED at
    BY <1>8 DEF RemoveInbound
  <2>2. x \in Seq(Inbound) /\ Len(x) = n
    <3> HIDE DEF now
    <3>1. now \in Seq(Inbound) /\ Len(now) = n /\ DOMAIN now = 1..n
      BY <1>1 DEF now
    <3> HIDE DEF n
    <3>2. \A k \in 1..n : (k \in iter..(live - 1) => k + 1 \in 1..n)
      BY <1>3
    <3> QED BY <1>3, <3>1, <3>2
  <2>3. OneApi(given.inbounds) => Loop(Listed, x, iter + 1, live - 1)
    BY <1>5, <1>8
  <2> HIDE DEF x
  <2>4. PartsOK' /\ OnceOK' /\ cfg'.inbounds = x
    BY <1>1, <2>1, InboundsStep
  <2>5. StepsOK'
    <3>1. live - 1 \in 0..n /\ iter + 1 \in 1..(n + 1)
      BY <1>3, <1>8
    <3> QED BY <1>1, <2>1, <2>2, <2>4, <3>1 DEF StepsOK
  <2>6. InboundsOK'
    BY <1>1, <1>2, <2>1, <2>3, <2>4 DEF InboundsOK
  <2> QED BY <1>2, <2>4, <2>5, <2>6
<1> QED BY <1>6, <1>7, <1>8

LEMMA RemoveDoneKeeps ==
  ASSUME ApiInv, RemoveDone
  PROVE  ApiInv'
<1> USE DEF ApiInv
<1> DEFINE x == SubSeq(cfg.inbounds, 1, live)
<1>1. /\ at = "remove" /\ iter > Len(cfg.inbounds) /\ UNCHANGED <<given, once, round>> /\ at' = "services"
      /\ cfg' = [cfg EXCEPT !.inbounds = x] /\ round \in {1, 2} /\ cfg.inbounds \in Seq(Inbound)
      /\ iter \in 1..(Len(cfg.inbounds) + 1) /\ live \in 0..Len(cfg.inbounds)
  BY DEF RemoveDone, StepsOK
<1>2. GivenOK' /\ Users' = Users
  BY <1>1, MadeStays
<1>3. x \in Seq(Inbound)
  BY <1>1
<1>4. OneApi(given.inbounds) => x = Users
  <2> SUFFICES ASSUME OneApi(given.inbounds) PROVE x = Users
    OBVIOUS
  <2> DEFINE list == Listed
             now == cfg.inbounds
  <2>1. list \in Seq(Inbound) /\ OneApi(list) /\ Keep(list, NotApi) = Users
    BY <1>1, ListedProps
  <2>2. Loop(list, now, iter, live)
    BY <1>1 DEF InboundsOK
  <2>3. now \in Seq(Inbound) /\ iter \in Nat /\ iter > Len(now)
    BY <1>1
  <2> HIDE DEF list, now
  <2>4. now = list \/ DOMAIN now = 1..Len(list)
    BY <2>2 DEF Loop
  <2>5. Len(list) = Len(now)
    <3>1. DOMAIN now = 1..Len(now) /\ Len(now) \in Nat /\ Len(list) \in Nat
      BY <2>1, <2>3
    <3>2. DOMAIN now = 1..Len(list) => Len(list) = Len(now)
      BY <3>1
    <3> QED BY <2>4, <3>2
  <2>6. SubSeq(now, 1, live) = Keep(list, NotApi)
    BY <2>1, <2>2, <2>3, <2>5, LoopKeeps
  <2> QED BY <2>1, <2>6 DEF now
<1> HIDE DEF x
<1>5. PartsOK' /\ OnceOK' /\ cfg'.inbounds = x
  BY <1>1, InboundsStep
<1>6. StepsOK'
  BY <1>1, <1>3, <1>5 DEF StepsOK
<1>7. InboundsOK'
  BY <1>1, <1>2, <1>4, <1>5 DEF InboundsOK
<1> QED BY <1>2, <1>5, <1>6, <1>7

\* In either round, what is there before a step is made into the same.
LEMMA NowMakes ==
  ASSUME GivenOK, round \in {1, 2}
  PROVE  /\ at = "services" =>
              /\ NodeServices(ServicesNow) = ServicesMade
              /\ NodeObservatory(ServicesNow, ObservatoryNow, BurstNow, given.outbounds) = ObservatoryMade
              /\ sanitizeObservatorySelectors(BurstNow, given.outbounds) = BurstMade
         /\ at = "rules" =>
              /\ PanelRules(RulesNow) = PanelRules(given.rules)
              /\ checkPolicy(PolicyNow) = PolicyMade
<1>0. /\ NodeServices(given.services) = ServicesMade
      /\ NodeObservatory(given.services, given.observatory, given.burst, given.outbounds) = ObservatoryMade
      /\ sanitizeObservatorySelectors(given.burst, given.outbounds) = BurstMade
      /\ checkPolicy(given.policy) = PolicyMade
  BY DEF ServicesMade, ObservatoryMade, BurstMade, PolicyMade
<1>1. CASE round = 1
  <2>1. at = "services" => ServicesNow = given.services /\ ObservatoryNow = given.observatory /\ BurstNow = given.burst
    BY <1>1 DEF ServicesNow, ObservatoryNow, BurstNow, Early
  <2>2. at = "rules" => RulesNow = given.rules /\ PolicyNow = given.policy
    BY <1>1 DEF RulesNow, PolicyNow, Early
  <2> QED BY <1>0, <2>1, <2>2
<1>2. CASE round = 2
  <2>1. ServicesNow = ServicesMade /\ ObservatoryNow = ObservatoryMade /\ BurstNow = BurstMade /\ PolicyNow = PolicyMade
    BY <1>2 DEF ServicesNow, ObservatoryNow, BurstNow, PolicyNow, Early
  <2>2. at = "rules" => RulesNow = RulesMade
    BY <1>2 DEF RulesNow, Early
  <2> QED BY <2>1, <2>2, MadeSettles
<1> QED BY <1>1, <1>2

LEMMA SetServicesKeeps ==
  ASSUME ApiInv, SetServices
  PROVE  ApiInv'
<1> USE DEF ApiInv
<1>1. /\ at = "services" /\ at' = "rules" /\ UNCHANGED <<given, once, round>>
      /\ round \in {1, 2} /\ cfg.inbounds \in Seq(Inbound)
  BY DEF SetServices, StepsOK
<1>2. /\ GivenOK' /\ ServicesMade' = ServicesMade /\ ObservatoryMade' = ObservatoryMade /\ BurstMade' = BurstMade
      /\ RulesMade' = RulesMade /\ PolicyMade' = PolicyMade /\ Users' = Users
  BY <1>1, MadeStays
<1>3. cfg = Conf(cfg.inbounds, ServicesNow, ObservatoryNow, BurstNow, RulesNow, PolicyNow)
  BY <1>1 DEF PartsOK
<1>4. /\ cfg.services = ServicesNow /\ cfg.observatory = ObservatoryNow /\ cfg.burst = BurstNow
      /\ cfg.outbounds = given.outbounds
  BY <1>3 DEF Conf
<1> DEFINE services == sanitizeAPIServices(cfg.services)
           obs == IF NeedsObservatory(services, cfg) THEN <<defaultObservatory(cfg.outbounds)>> ELSE cfg.observatory
           a == [k \in DOMAIN services |-> [name |-> services[k], plain |-> TRUE]]
           b == sanitizeObservatorySelectors(obs, cfg.outbounds)
           c == sanitizeObservatorySelectors(cfg.burst, cfg.outbounds)
<1>5. cfg' = [cfg EXCEPT !.services = a, !.observatory = b, !.burst = c]
  BY DEF SetServices
<1>6. a = NodeServices(cfg.services)
  BY DEF NodeServices, Named
<1>7. b = NodeObservatory(cfg.services, cfg.observatory, cfg.burst, cfg.outbounds)
  BY DEF NodeObservatory, Observed, NeedsObservatory
<1> HIDE DEF services, obs
<1>8. a = ServicesMade /\ b = ObservatoryMade /\ c = BurstMade
  BY <1>1, <1>4, <1>6, <1>7, NowMakes
<1> HIDE DEF a, b, c
<1>9. cfg' = Conf(cfg.inbounds, ServicesMade, ObservatoryMade, BurstMade, RulesNow, PolicyNow)
  <2> DEFINE i == cfg.inbounds
             w == given.outbounds
  <2> HIDE DEF i, w
  <2>1. cfg = [inbounds |-> i, services |-> ServicesNow, observatory |-> ObservatoryNow, burst |-> BurstNow,
               rules |-> RulesNow, outbounds |-> w, policy |-> PolicyNow]
    BY <1>3 DEF Conf, i, w
  <2>2. cfg' = [inbounds |-> i, services |-> a, observatory |-> b, burst |-> c,
                rules |-> RulesNow, outbounds |-> w, policy |-> PolicyNow]
    BY <1>5, <2>1
  <2> QED BY <1>8, <2>2 DEF Conf, i, w
<1>10. cfg'.inbounds = cfg.inbounds
  BY <1>9 DEF Conf
<1>11. /\ ServicesNow' = ServicesMade /\ ObservatoryNow' = ObservatoryMade /\ BurstNow' = BurstMade
       /\ RulesNow' = RulesNow /\ PolicyNow' = PolicyNow
  BY <1>1, <1>2 DEF ServicesNow, ObservatoryNow, BurstNow, RulesNow, PolicyNow, Early
<1>12. PartsOK'
  BY <1>1, <1>9, <1>10, <1>11 DEF PartsOK, Conf
<1>13. OnceOK'
  BY <1>1, <1>2 DEF OnceOK, Conf
<1>14. StepsOK'
  BY <1>1, <1>10 DEF StepsOK
<1>15. InboundsOK'
  BY <1>1, <1>2, <1>10 DEF InboundsOK
<1> QED BY <1>2, <1>12, <1>13, <1>14, <1>15

LEMMA SetRulesKeeps ==
  ASSUME ApiInv, SetRules
  PROVE  ApiInv'
<1> USE DEF ApiInv
<1>1. /\ at = "rules" /\ at' \in {"error", "nil", "prepend"} /\ UNCHANGED <<given, once, round>>
      /\ round \in {1, 2} /\ cfg.inbounds \in Seq(Inbound)
  BY DEF SetRules, StepsOK
<1>2. /\ GivenOK' /\ ServicesMade' = ServicesMade /\ ObservatoryMade' = ObservatoryMade /\ BurstMade' = BurstMade
      /\ RulesMade' = RulesMade /\ PolicyMade' = PolicyMade /\ Users' = Users
  BY <1>1, MadeStays
<1>3. cfg = Conf(cfg.inbounds, ServicesNow, ObservatoryNow, BurstNow, RulesNow, PolicyNow)
  BY <1>1 DEF PartsOK
<1>4. OnceOK'
  BY <1>1, <1>2 DEF OnceOK, Conf
<1>5. CASE (\E k \in DOMAIN cfg.rules : ~cfg.rules[k].valid) \/ NullLevel(cfg.policy)
  <2>1. at' \in {"error", "nil"}
    BY <1>5 DEF SetRules
  <2>2. PartsOK' /\ StepsOK'
    BY <1>1, <2>1 DEF PartsOK, StepsOK
  <2>3. InboundsOK'
    BY <1>1, <1>2, <2>1 DEF InboundsOK
  <2> QED BY <1>2, <1>4, <2>2, <2>3
<1>6. CASE ~(\E k \in DOMAIN cfg.rules : ~cfg.rules[k].valid) /\ ~NullLevel(cfg.policy)
  <2> DEFINE a == filterRules(normalizeGeoIPPrivateRules(cfg.rules))
             b == checkPolicy(cfg.policy)
  <2>1. cfg' = [cfg EXCEPT !.rules = a, !.policy = b] /\ at' = "prepend"
    BY <1>6 DEF SetRules
  <2>2. cfg.rules = RulesNow /\ cfg.policy = PolicyNow
    BY <1>3 DEF Conf
  <2>3. a = PanelRules(RulesNow)
    BY <2>2 DEF PanelRules
  <2>4. a = PanelRules(given.rules) /\ b = PolicyMade
    BY <1>1, <2>2, <2>3, NowMakes
  <2> HIDE DEF a, b
  <2>5. cfg' = Conf(cfg.inbounds, ServicesNow, ObservatoryNow, BurstNow, PanelRules(given.rules), PolicyMade)
    <3> DEFINE i == cfg.inbounds
               w == given.outbounds
    <3> HIDE DEF i, w
    <3>1. cfg = [inbounds |-> i, services |-> ServicesNow, observatory |-> ObservatoryNow, burst |-> BurstNow,
                 rules |-> RulesNow, outbounds |-> w, policy |-> PolicyNow]
      BY <1>3 DEF Conf, i, w
    <3>2. cfg' = [inbounds |-> i, services |-> ServicesNow, observatory |-> ObservatoryNow, burst |-> BurstNow,
                  rules |-> a, outbounds |-> w, policy |-> b]
      BY <2>1, <3>1
    <3> QED BY <2>4, <3>2 DEF Conf, i, w
  <2>6. cfg'.inbounds = cfg.inbounds
    BY <2>5 DEF Conf
  <2>7. /\ ServicesNow' = ServicesNow /\ ObservatoryNow' = ObservatoryNow /\ BurstNow' = BurstNow
        /\ RulesNow' = PanelRules(given.rules) /\ PolicyNow' = PolicyMade
    BY <1>1, <1>2, <2>1 DEF ServicesNow, ObservatoryNow, BurstNow, RulesNow, PolicyNow, Early
  <2>8. PartsOK'
    BY <1>1, <2>5, <2>6, <2>7 DEF PartsOK, Conf
  <2>9. StepsOK'
    BY <1>1, <2>1, <2>6 DEF StepsOK
  <2>10. InboundsOK'
    BY <1>1, <1>2, <2>1, <2>6 DEF InboundsOK
  <2> QED BY <1>2, <1>4, <2>8, <2>9, <2>10
<1> QED BY <1>5, <1>6

LEMMA PrependKeeps ==
  ASSUME ApiInv, Prepend
  PROVE  ApiInv'
<1> USE DEF ApiInv
<1>1. /\ at = "prepend" /\ at' = "done" /\ UNCHANGED <<given, round>>
      /\ round \in {1, 2} /\ cfg.inbounds \in Seq(Inbound) /\ once' = IF round = 1 THEN cfg' ELSE once
  BY DEF Prepend, StepsOK
<1>2. /\ GivenOK' /\ ServicesMade' = ServicesMade /\ ObservatoryMade' = ObservatoryMade /\ BurstMade' = BurstMade
      /\ RulesMade' = RulesMade /\ PolicyMade' = PolicyMade /\ Users' = Users
  BY <1>1, MadeStays
<1>3. cfg = Conf(cfg.inbounds, ServicesMade, ObservatoryMade, BurstMade, PanelRules(given.rules), PolicyMade)
  BY <1>1 DEF PartsOK, ServicesNow, ObservatoryNow, BurstNow, RulesNow, PolicyNow, Early
<1> DEFINE block == blackholeOutboundTag(cfg.outbounds)
           guard == IF block = "" THEN <<>> ELSE <<malformedDomainGuardRule(block)>>
           a == <<nodeInbound>> \o cfg.inbounds
           r == <<apiRule>> \o guard \o cfg.rules
<1>4. cfg' = [cfg EXCEPT !.inbounds = a, !.rules = r]
  BY DEF Prepend
<1>5. r = RulesMade
  <2>1. cfg.outbounds = given.outbounds /\ cfg.rules = PanelRules(given.rules)
    BY <1>3 DEF Conf
  <2>2. NodeRules(given.outbounds) = <<apiRule>> \o guard
    BY <2>1 DEF NodeRules
  <2> HIDE DEF guard
  <2> QED BY <2>1, <2>2 DEF RulesMade
<1>6. a \in Seq(Inbound)
  BY <1>1, SentProps, InFront
<1> HIDE DEF a, r
<1>7. cfg' = Conf(a, ServicesMade, ObservatoryMade, BurstMade, RulesMade, PolicyMade)
  <2> DEFINE i == cfg.inbounds
             w == given.outbounds
             q == PanelRules(given.rules)
  <2> HIDE DEF i, w, q
  <2>1. cfg = [inbounds |-> i, services |-> ServicesMade, observatory |-> ObservatoryMade, burst |-> BurstMade,
               rules |-> q, outbounds |-> w, policy |-> PolicyMade]
    BY <1>3 DEF Conf, i, w, q
  <2>2. cfg' = [inbounds |-> a, services |-> ServicesMade, observatory |-> ObservatoryMade, burst |-> BurstMade,
                rules |-> r, outbounds |-> w, policy |-> PolicyMade]
    BY <1>4, <2>1
  <2> QED BY <1>5, <2>2 DEF Conf, w
<1>8. cfg'.inbounds = a
  BY <1>7 DEF Conf
<1>9. /\ ServicesNow' = ServicesMade /\ ObservatoryNow' = ObservatoryMade /\ BurstNow' = BurstMade
      /\ RulesNow' = RulesMade /\ PolicyNow' = PolicyMade
  BY <1>1, <1>2 DEF ServicesNow, ObservatoryNow, BurstNow, RulesNow, PolicyNow, Early
<1>10. PartsOK'
  BY <1>1, <1>7, <1>8, <1>9 DEF PartsOK, Conf
<1>11. OnceOK'
  <2>1. CASE round = 1
    <3>1. once' = cfg' /\ once'.inbounds = a
      BY <1>1, <1>8, <2>1
    <3> QED BY <1>1, <1>2, <1>7, <3>1 DEF OnceOK, Conf
  <2>2. CASE round = 2
    BY <1>1, <1>2, <2>2 DEF OnceOK, Conf
  <2> QED BY <1>1, <2>1, <2>2
<1>12. StepsOK'
  BY <1>1, <1>6, <1>8 DEF StepsOK
<1>13. InboundsOK'
  <2> SUFFICES ASSUME OneApi(given.inbounds) PROVE InboundsOK'
    BY <1>1 DEF InboundsOK
  <2>1. a = <<nodeInbound>> \o Users
    BY <1>1 DEF InboundsOK, a
  <2>2. once'.inbounds = <<nodeInbound>> \o Users
    <3>1. CASE round = 1
      BY <1>1, <1>8, <2>1, <3>1
    <3>2. CASE round = 2
      BY <1>1, <3>2 DEF InboundsOK
    <3> QED BY <1>1, <3>1, <3>2
  <2> QED BY <1>1, <1>2, <1>8, <2>1, <2>2 DEF InboundsOK
<1> QED BY <1>2, <1>10, <1>11, <1>12, <1>13

LEMMA ReapplyKeeps ==
  ASSUME ApiInv, Reapply
  PROVE  ApiInv'
<1> USE DEF ApiInv
<1> DEFINE x == [k \in DOMAIN cfg.inbounds |-> inboundOf(cfg.inbounds[k].tag)]
<1>1. /\ at = "done" /\ round = 1 /\ at' = "remove" /\ round' = 2 /\ UNCHANGED <<given, once>>
      /\ iter' = 1 /\ live' = Len(cfg.inbounds) /\ cfg.inbounds \in Seq(Inbound)
      /\ cfg' = [cfg EXCEPT !.inbounds = x]
  BY DEF Reapply, StepsOK
<1>2. /\ GivenOK' /\ ServicesMade' = ServicesMade /\ ObservatoryMade' = ObservatoryMade /\ BurstMade' = BurstMade
      /\ RulesMade' = RulesMade /\ PolicyMade' = PolicyMade /\ Users' = Users
  BY <1>1, MadeStays
<1>3. cfg = Conf(cfg.inbounds, ServicesMade, ObservatoryMade, BurstMade, RulesMade, PolicyMade)
  BY <1>1 DEF PartsOK, ServicesNow, ObservatoryNow, BurstNow, RulesNow, PolicyNow, Early
<1> DEFINE now == cfg.inbounds
           n == Len(now)
<1>4. n \in Nat /\ DOMAIN now = 1..n /\ \A k \in 1..n : now[k] \in Inbound
  BY <1>1
<1>5. \A y \in Inbound : y.tag \in Strings
  <2>1. nodeInbound.tag \in Strings
    BY SentProps, ApiAssumption DEF ApiInbound
  <2> QED BY <2>1, SentProps DEF Inbound
<1>6. x \in Seq(Inbound) /\ Len(x) = n /\ \A k \in 1..n : x[k] = inboundOf(now[k].tag)
  <2>1. \A k \in 1..n : inboundOf(now[k].tag) \in Inbound
    <3>1. \A k \in 1..n : inboundOf(now[k].tag) \in Sent
      BY <1>4, <1>5 DEF Sent
    <3> QED BY <3>1, SentProps
  <2> QED BY <1>4, <2>1
<1>7. OneApi(given.inbounds) => x = <<inboundOf(ApiInbound)>> \o Users
  <2> SUFFICES ASSUME OneApi(given.inbounds) PROVE x = <<inboundOf(ApiInbound)>> \o Users
    OBVIOUS
  <2>1. now = <<nodeInbound>> \o Users
    BY <1>1 DEF InboundsOK
  <2>2. Users \in Seq(Sent) /\ Users \in Seq(Inbound) /\ Len(Users) \in Nat
    BY UsersProps
  <2> DEFINE front == <<inboundOf(ApiInbound)>> \o Users
  <2>3. /\ Len(now) = Len(Users) + 1 /\ now[1] = nodeInbound
        /\ \A k \in 2..(Len(Users) + 1) : now[k] = Users[k - 1]
    BY <2>1, <2>2, SentProps, InFront
  <2>4. /\ front \in Seq(Inbound) /\ Len(front) = Len(Users) + 1 /\ front[1] = inboundOf(ApiInbound)
        /\ \A k \in 2..(Len(Users) + 1) : front[k] = Users[k - 1]
    BY <2>2, SentProps, InFront
  <2> HIDE DEF front, x, now
  <2>5. ASSUME NEW k \in 1..Len(x) PROVE x[k] = front[k]
    <3>1. k \in 1..n
      BY <1>6
    <3>2. CASE k = 1
      BY <1>6, <2>3, <2>4, <3>1, <3>2, SentProps
    <3>3. CASE k # 1
      <4>1. k \in 2..(Len(Users) + 1) /\ k - 1 \in 1..Len(Users)
        BY <2>2, <2>3, <3>1, <3>3
      <4>2. Users[k - 1] \in Sent
        BY <2>2, <4>1
      <4> QED BY <1>6, <2>3, <2>4, <3>1, <4>1, <4>2, SentProps
    <3> QED BY <3>2, <3>3
  <2>6. Len(x) = Len(front)
    BY <1>6, <2>3, <2>4
  <2>7. x = front
    BY <1>6, <2>4, <2>5, <2>6, SeqEqual
  <2> QED BY <2>7 DEF front
<1> HIDE DEF x
<1>8. cfg' = Conf(x, ServicesMade, ObservatoryMade, BurstMade, RulesMade, PolicyMade)
  BY <1>1, <1>3 DEF Conf
<1>9. cfg'.inbounds = x
  BY <1>8 DEF Conf
<1>10. /\ ServicesNow' = ServicesMade /\ ObservatoryNow' = ObservatoryMade /\ BurstNow' = BurstMade
       /\ RulesNow' = RulesMade /\ PolicyNow' = PolicyMade
  BY <1>1, <1>2 DEF ServicesNow, ObservatoryNow, BurstNow, RulesNow, PolicyNow, Early
<1>11. PartsOK'
  BY <1>1, <1>8, <1>9, <1>10 DEF PartsOK, Conf
<1>12. OnceOK'
  BY <1>1, <1>2 DEF OnceOK, Conf
<1>13. StepsOK'
  BY <1>1, <1>4, <1>6, <1>9 DEF StepsOK
<1>14. InboundsOK'
  <2> SUFFICES ASSUME OneApi(given.inbounds) PROVE InboundsOK'
    BY <1>1 DEF InboundsOK
  <2>1. Listed' = x
    BY <1>1, <1>2, <1>7 DEF Listed
  <2>2. Loop(x, x, 1, n)
    <3>1. \A k \in 1..Len(x) : ~(k < 1)
      BY <1>4, <1>6
    <3> QED BY <1>6, <3>1 DEF Loop
  <2>3. Loop(Listed, cfg.inbounds, iter, live)'
    BY <1>1, <1>9, <2>1, <2>2 DEF Loop
  <2> QED BY <1>1, <1>2, <2>3 DEF InboundsOK
<1> QED BY <1>2, <1>11, <1>12, <1>13, <1>14

\* In every state of ApplyAPI each part of the configuration is what the step
\* reached so far makes of what the panel sent, and the loop over the inbounds
\* has taken out the old API inbound and nothing else.
THEOREM ApiInvariant == ApiSpec => []ApiInv
<1>1. ApiInv /\ [ApiNext]_apiVars => ApiInv'
  <2> SUFFICES ASSUME ApiInv, [ApiNext]_apiVars PROVE ApiInv'
    OBVIOUS
  <2>1. CASE RemoveInbound
    BY <2>1, RemoveInboundKeeps
  <2>2. CASE RemoveDone
    BY <2>2, RemoveDoneKeeps
  <2>3. CASE SetServices
    BY <2>3, SetServicesKeeps
  <2>4. CASE SetRules
    BY <2>4, SetRulesKeeps
  <2>5. CASE Prepend
    BY <2>5, PrependKeeps
  <2>6. CASE Reapply
    BY <2>6, ReapplyKeeps
  <2>7. CASE UNCHANGED apiVars
    <3>1. UNCHANGED <<cfg, given, once, at, iter, live, round>>
      BY <2>7 DEF apiVars
    <3>2. GivenOK' /\ StepsOK'
      BY <3>1 DEF ApiInv, GivenOK, StepsOK, Conf
    <3>3. PartsOK' /\ OnceOK'
      BY <3>1, MadeStays DEF ApiInv, PartsOK, OnceOK, Conf, ServicesNow, ObservatoryNow, BurstNow, RulesNow, PolicyNow, Early
    <3>4. InboundsOK'
      BY <3>1, MadeStays DEF ApiInv, InboundsOK, Listed
    <3> QED BY <3>2, <3>3, <3>4 DEF ApiInv
  <2> QED BY <2>1, <2>2, <2>3, <2>4, <2>5, <2>6, <2>7 DEF ApiNext
<1> QED BY <1>1, InitOK, PTL DEF ApiSpec

-----------------------------------------------------------------------------
(* What follows from it.                                                   *)

LEMMA OneApiCounted ==
  ASSUME GivenOK, Cardinality(OldApiInbounds) <= 1
  PROVE  OneApi(given.inbounds)
<1> DEFINE n == Len(given.inbounds)
           S == OldApiInbounds
<1>1. n \in Nat /\ DOMAIN given.inbounds = 1..n
  BY UsersProps
<1>2. S \subseteq 1..n /\ \A k \in 1..n : given.inbounds[k].tag = ApiInbound => k \in S
  BY <1>1 DEF OldApiInbounds
<1>3. Cardinality(S) <= 1
  OBVIOUS
<1> HIDE DEF n, S
<1>4. IsFiniteSet(S)
  <2>1. IsFiniteSet(1..n)
    <3>1. 1 \in Int /\ n \in Int
      BY <1>1
    <3> QED BY <3>1, FS_Interval
  <2> QED BY <1>2, <2>1, FS_Subset
<1>5. ASSUME NEW j \in S, NEW k \in S PROVE j = k
  <2> SUFFICES ASSUME j # k PROVE FALSE
    OBVIOUS
  <2>1. IsFiniteSet({j}) /\ Cardinality({j}) = 1
    BY FS_Singleton
  <2>2. Cardinality({j} \cup {k}) = Cardinality({j}) + 1
    BY <2>1, FS_AddElement
  <2>3. {j} \cup {k} \subseteq S
    OBVIOUS
  <2>4. Cardinality({j} \cup {k}) <= Cardinality(S)
    BY <1>4, <2>3, FS_Subset
  <2>5. Cardinality(S) \in Nat
    BY <1>4, FS_CardinalityType
  <2> QED BY <1>3, <2>1, <2>2, <2>4, <2>5
<1> QED BY <1>2, <1>5 DEF OneApi, n

\* What a finished configuration is.
LEMMA Finished ==
  ASSUME ApiInv, at = "done"
  PROVE  /\ cfg = Conf(cfg.inbounds, ServicesMade, ObservatoryMade, BurstMade, RulesMade, PolicyMade)
         /\ cfg.services = ServicesMade /\ cfg.observatory = ObservatoryMade /\ cfg.burst = BurstMade
         /\ cfg.rules = RulesMade /\ cfg.policy = PolicyMade
<1>1. cfg = Conf(cfg.inbounds, ServicesMade, ObservatoryMade, BurstMade, RulesMade, PolicyMade)
  BY DEF ApiInv, PartsOK, ServicesNow, ObservatoryNow, BurstNow, RulesNow, PolicyNow, Early
<1> QED BY <1>1 DEF Conf

LEMMA PartsKept ==
  ASSUME ApiInv
  PROVE  UserPartsKept
<1>0. GivenOK
  BY DEF ApiInv
<1>1. InboundsKept
  <2> SUFFICES ASSUME Cardinality(OldApiInbounds) <= 1
               PROVE  at # "panic" /\ (at = "done" => cfg.inbounds = <<nodeInbound>> \o UserInbounds)
    BY DEF InboundsKept
  <2>1. OneApi(given.inbounds) /\ UserInbounds = Users
    BY <1>0, OneApiCounted, UsersProps
  <2> QED BY <2>1 DEF ApiInv, InboundsOK
<1> SUFFICES ASSUME at = "done" PROVE UserPartsKept
  BY <1>1 DEF UserPartsKept
<1>2. /\ cfg.services = ServicesMade /\ cfg.observatory = ObservatoryMade /\ cfg.burst = BurstMade
      /\ cfg.rules = RulesMade /\ cfg.policy = PolicyMade
  BY Finished
<1>3. LET mine == UserRules(cfg.rules)
          theirs == UserRules(given.rules)
      IN  /\ Len(mine) = Len(theirs)
          /\ \A k \in DOMAIN mine : /\ mine[k].outbound = theirs[k].outbound
                                    /\ Range(theirs[k].ip) \ {"geoip:private"} \subseteq Range(mine[k].ip)
  <2> DEFINE g == given.rules
             mine == PanelRules(g)
             theirs == UserRules(g)
  <2>1. g \in Seq(Rule)
    BY <1>0 DEF GivenOK
  <2>2. UserRules(cfg.rules) = mine
    BY <1>2, <2>1, RulesSettle DEF RulesMade
  <2> HIDE DEF g
  <2>3. /\ Len(mine) = Len(theirs)
        /\ \A k \in 1..Len(mine) : /\ mine[k].outbound = theirs[k].outbound
                                   /\ Range(theirs[k].ip) \ {geo} \subseteq Range(mine[k].ip)
    BY <2>1, RulesKept
  <2>4. mine \in Seq(Rule)
    BY <2>1, PanelRulesProps
  <2> HIDE DEF mine, theirs
  <2>5. DOMAIN mine = 1..Len(mine)
    BY <2>4
  <2>6. theirs = UserRules(given.rules)
    BY DEF theirs, g
  <2> QED BY <2>2, <2>3, <2>5, <2>6 DEF geo
<1>4. \A k \in DOMAIN given.services :
         \/ given.services[k].name \notin Range(SortedServices)
         \/ \E j \in DOMAIN cfg.services : cfg.services[j].name = given.services[k].name
  <2> SUFFICES ASSUME NEW k \in DOMAIN given.services, given.services[k].name \in Range(SortedServices)
               PROVE  \E j \in DOMAIN cfg.services : cfg.services[j].name = given.services[k].name
    OBVIOUS
  <2> DEFINE name == given.services[k].name
             t == ServicesMade
  <2>1. name \in Asked(given.services) /\ name \in Known
    BY DEF Asked, canonicalAPIServices, Known
  <2>2. {t[j].name : j \in DOMAIN t} = Required \cup (Known \cap Asked(given.services))
    BY ServicesSettle DEF ServicesMade
  <2> HIDE DEF name, t
  <2>3. \E j \in DOMAIN t : t[j].name = name
    BY <2>1, <2>2
  <2> QED BY <1>2, <2>3 DEF name, t
<1>5. /\ given.policy.zero # Nil => cfg.policy.zero[1].online = given.policy.zero[1].online
      /\ given.policy.system # Nil => cfg.policy.system[1].inbound = given.policy.system[1].inbound
  <2>1. given.policy \in Policy
    BY <1>0 DEF GivenOK
  <2> QED BY <1>2, <2>1, PolicyProps DEF PolicyMade
<1>6. \A t \in Selectors(given.observatory) :
         t \notin Selectors(cfg.observatory) => \E k \in DOMAIN given.outbounds :
             given.outbounds[k].tag = t /\ given.outbounds[k].protocol \in observatoryExcludedProtocols
  <2> DEFINE v == given.services
             o == given.observatory
             u == given.burst
             w == given.outbounds
  <2>1. o \in Seq(Seq(Strings)) /\ u \in Seq(Seq(Strings)) /\ w \in Seq([tag : Strings, protocol : Strings])
    BY <1>0 DEF GivenOK
  <2>2. cfg.observatory = NodeObservatory(v, o, u, w)
    BY <1>2 DEF ObservatoryMade
  <2> HIDE DEF v, o, u, w
  <2>3. ObservatorySettled(v, o, u, w)
    BY <2>1, ObservatorySettles
  <2>4. Selectors(o) \ Unobserved(w) \subseteq Selectors(cfg.observatory)
    BY <2>2, <2>3 DEF ObservatorySettled
  <2>5. \A t \in Unobserved(w) : \E k \in DOMAIN w : w[k].tag = t /\ w[k].protocol \in observatoryExcludedProtocols
    BY <2>1, UnobservedTag
  <2>6. \A t \in Selectors(o) : t \notin Selectors(cfg.observatory) =>
           \E k \in DOMAIN w : w[k].tag = t /\ w[k].protocol \in observatoryExcludedProtocols
    BY <2>4, <2>5
  <2> QED BY <2>6 DEF o, w
<1> QED BY <1>1, <1>3, <1>4, <1>5, <1>6 DEF UserPartsKept

\* ApplyAPI (src/backend/xray/config.go) keeps what the panel asked for, for
\* every configuration that the panel may send, of any length.
THEOREM UserPartsStay == ApiSpec => []UserPartsKept
BY ApiInvariant, PartsKept, PTL

LEMMA CoreReady ==
  ASSUME ApiInv, NoApiOutbound
  PROVE  CoreCanStart
<1> SUFFICES ASSUME at = "done" PROVE CoreCanStart
  BY DEF CoreCanStart
<1>0. GivenOK
  BY DEF ApiInv
<1>1. /\ cfg.services = ServicesMade /\ cfg.observatory = ObservatoryMade /\ cfg.burst = BurstMade
      /\ cfg.rules = RulesMade /\ cfg.policy = PolicyMade
  BY Finished
<1>2. /\ cfg.rules[1] = apiRule
      /\ \A k \in 2..Len(cfg.rules) : cfg.rules[k].outbound # "API"
      /\ \A k \in DOMAIN cfg.rules : "geoip:private" \notin Range(cfg.rules[k].ip) \cup Range(cfg.rules[k].source)
  <2> DEFINE w == given.outbounds
             g == given.rules
             a == NodeRules(w)
             b == PanelRules(g)
             c == a \o b
  <2>1. g \in Seq(Rule) /\ w \in Outbounds
    BY <1>0 DEF GivenOK
  <2>2. cfg.rules = c
    BY <1>1 DEF RulesMade
  <2> HIDE DEF w, g
  <2>3. /\ a \in Seq(Rule) /\ Len(a) \in Nat \ {0} /\ a[1] = apiRule
        /\ \A k \in 2..Len(a) : \E j \in DOMAIN w : a[k].outbound = w[j].tag
    BY NodeRulesProps
  <2>4. b \in Seq(Rule) /\ \A r \in Range(b) : r \in Theirs /\ NoGeo(r)
    BY <2>1, PanelRulesProps
  <2>5. c \in Seq(Rule) /\ \A r \in Range(c) : NoGeo(r)
    BY <2>1, RulesSettle
  <2> HIDE DEF a, b
  <2>6. /\ Len(c) = Len(a) + Len(b) /\ Len(b) \in Nat
        /\ \A i \in 1..(Len(a) + Len(b)) : c[i] = IF i <= Len(a) THEN a[i] ELSE b[i - Len(a)]
    BY <2>3, <2>4, ConcatProperties
  <2> HIDE DEF c
  <2>7. c[1] = apiRule
    <3>1. 1 \in 1..(Len(a) + Len(b)) /\ 1 <= Len(a)
      BY <2>3, <2>6
    <3> QED BY <2>3, <2>6, <3>1
  <2>8. ASSUME NEW k \in 2..Len(c) PROVE c[k].outbound # "API"
    <3>0. k \in 1..(Len(a) + Len(b))
      BY <2>3, <2>6
    <3>1. CASE k <= Len(a)
      <4>1. k \in 2..Len(a) /\ c[k] = a[k]
        BY <2>3, <2>6, <3>0, <3>1
      <4>2. PICK j \in DOMAIN w : a[k].outbound = w[j].tag
        BY <2>3, <4>1
      <4>3. w[j].tag # "API"
        BY <2>1, <4>2 DEF NoApiOutbound
      <4> QED BY <4>1, <4>2, <4>3
    <3>2. CASE ~(k <= Len(a))
      <4>1. k - Len(a) \in 1..Len(b) /\ c[k] = b[k - Len(a)]
        BY <2>3, <2>6, <3>0, <3>2
      <4>2. c[k] \in Range(b)
        BY <2>4, <4>1 DEF Range
      <4> QED BY <2>4, <4>2 DEF Theirs
    <3> QED BY <3>1, <3>2
  <2>9. \A k \in DOMAIN c : geo \notin Range(c[k].ip) \cup Range(c[k].source)
    <3>1. \A k \in DOMAIN c : c[k] \in Range(c)
      BY DEF Range
    <3> QED BY <2>5, <3>1 DEF NoGeo
  <2> QED BY <2>2, <2>7, <2>8, <2>9 DEF geo
<1>3. LET t == cfg.services
      IN  /\ Range(requiredAPIServices) \subseteq {t[k].name : k \in DOMAIN t}
          /\ \A k, j \in DOMAIN t : t[k].name = t[j].name => k = j
          /\ (\E k \in DOMAIN t : t[k].name = "ObservatoryService") => WantsObservatory(given.services)
  <2> DEFINE v == given.services
             t == NodeServices(v)
  <2>1. cfg.services = t
    BY <1>1 DEF ServicesMade
  <2> HIDE DEF v
  <2>2. /\ {t[k].name : k \in DOMAIN t} = Required \cup (Known \cap Asked(v))
        /\ \A j, k \in DOMAIN t : t[j].name = t[k].name => j = k
    BY ServicesSettle
  <2>3. Range(sanitizeAPIServices(v)) = Required \cup (Known \cap Asked(v))
    BY SanitizeProps
  <2> HIDE DEF t
  <2>4. (\E k \in DOMAIN t : t[k].name = "ObservatoryService") => WantsObservatory(v)
    BY <2>2, <2>3 DEF WantsObservatory
  <2> QED BY <2>1, <2>2, <2>4 DEF Required, v
<1>4. /\ WantsObservatory(given.services) => cfg.observatory # Nil \/ cfg.burst # Nil
      /\ cfg.observatory # Nil /\ given.observatory = Nil => cfg.burst = Nil
  <2> DEFINE v == given.services
             o == given.observatory
             u == given.burst
             w == given.outbounds
  <2>1. o \in Seq(Seq(Strings)) /\ u \in Seq(Seq(Strings))
    BY <1>0 DEF GivenOK
  <2>2. cfg.observatory = NodeObservatory(v, o, u, w) /\ cfg.burst = NodeBurst(u, w)
    BY <1>1 DEF ObservatoryMade, BurstMade, NodeBurst
  <2> HIDE DEF v, o, u, w
  <2>3. ObservatorySettled(v, o, u, w)
    BY <2>1, ObservatorySettles
  <2>4. /\ WantsObservatory(v) => cfg.observatory # Nil \/ cfg.burst # Nil
        /\ cfg.observatory # Nil /\ o = Nil => cfg.burst = Nil
    BY <2>2, <2>3 DEF ObservatorySettled
  <2> QED BY <2>4 DEF v, o
<1>5. cfg.policy.zero[1].uplink /\ cfg.policy.zero[1].downlink /\ cfg.policy.system[1].outbound
  <2>1. given.policy \in Policy
    BY <1>0 DEF GivenOK
  <2> QED BY <1>1, <2>1, PolicyProps DEF PolicyMade
<1> QED BY <1>2, <1>3, <1>4, <1>5 DEF CoreCanStart

\* What ApplyAPI leaves is a configuration that the core and the node's API
\* client can work with, whatever the panel sent, as long as no outbound of the
\* panel's has the tag of the API.
THEOREM CoreStarts ==
  ASSUME NoApiOutbound
  PROVE  ApiSpec => []CoreCanStart
<1>1. ApiInv => CoreCanStart
  BY CoreReady
<1> QED BY <1>1, ApiInvariant, PTL

LEMMA Idempotent ==
  ASSUME ApiInv
  PROVE  ApplyIsIdempotent
<1> SUFFICES ASSUME at = "done", round = 2, Cardinality(OldApiInbounds) <= 1 PROVE cfg = once
  BY DEF ApplyIsIdempotent
<1>1. OneApi(given.inbounds)
  BY OneApiCounted DEF ApiInv
<1>2. cfg.inbounds = once.inbounds
  BY <1>1 DEF ApiInv, InboundsOK
<1>3. once = Conf(once.inbounds, ServicesMade, ObservatoryMade, BurstMade, RulesMade, PolicyMade)
  BY DEF ApiInv, OnceOK
<1>4. cfg = Conf(cfg.inbounds, ServicesMade, ObservatoryMade, BurstMade, RulesMade, PolicyMade)
  BY Finished
<1> QED BY <1>2, <1>3, <1>4

\* ApplyAPI on its own result changes nothing.
THEOREM ApplyTwiceIsOnce == ApiSpec => []ApplyIsIdempotent
BY ApiInvariant, Idempotent, PTL

\* The steps of ApplyAPI, its loop within the slice, and only services that Xray knows.
THEOREM ApiTypes == ApiSpec => []ApiTypeOK
<1>1. ASSUME ApiInv PROVE ApiTypeOK
  <2>1. at \in {"rules", "prepend", "done"} => cfg.services = ServicesMade
    BY <1>1 DEF ApiInv, PartsOK, ServicesNow, Early, Conf
  <2> DEFINE t == ServicesMade
  <2>2. {t[j].name : j \in DOMAIN t} = Required \cup (Known \cap Asked(given.services))
    BY ServicesSettle DEF ServicesMade
  <2> HIDE DEF t
  <2>3. \A k \in DOMAIN t : t[k].name \in Known
    BY <2>2, ServiceLists
  <2>4. at \in {"rules", "prepend", "done"} => \A k \in DOMAIN cfg.services : cfg.services[k].name \in Range(SortedServices)
    BY <2>1, <2>3 DEF t, Known
  <2> QED BY <1>1, <2>4 DEF ApiInv, StepsOK, ApiTypeOK
<1> QED BY <1>1, ApiInvariant, PTL

================================================================================
