------------------------------ MODULE XrayCore ------------------------------
(***************************************************************************)
(* The Xray process as the node handles it: the hunt for leftover          *)
(* processes before a start, the unix sockets of the inbounds, the capture *)
(* of the process's output and the startup diagnostics.  Every process has *)
(* a goroutine that captures its output and one that waits for its exit;   *)
(* both may be late and write when the next process is already running.    *)
(* Module Xray has the configuration and the requests, and leaves this out.*)
(***************************************************************************)
EXTENDS Integers, Sequences, FiniteSets

CONSTANTS
    MaxPid,         \* processes are numbered; numbers are not used again
    RingSize,       \* STARTUP_LOG_TAIL_SIZE
    RuntimeSize,    \* size of the runtime ring (10)
    ChanSize,       \* LOG_BUFFER_SIZE
    Scenarios       \* bounds on lines of output and on mishaps (crashes,
                    \* failing calls, timeouts, over-long lines), the leftover
                    \* process and the process group of another node's Xray

ASSUME CoreAssumption ==
    /\ RingSize \in Nat \ {0} /\ RuntimeSize \in Nat \ {0} /\ ChanSize \in Nat
    /\ MaxPid \in Nat /\ MaxPid > 2
    /\ \A sc \in Scenarios : sc.lines \in Nat /\ sc.mishaps \in Nat /\ sc.left \in {"none", "node1", "init"}
                            /\ sc.beside \in {0, 1}

Pids == 1..MaxPid
Nodes == {"node1", "node2"}     \* incarnations of the node
Parents == Nodes \cup {"init", "other"}
NoLine == [pid |-> 0, fatal |-> FALSE]
Lines == [pid : Pids, fatal : BOOLEAN]
Writers == {"capture", "exit"} \X Pids      \* goroutines that record lines
Quiet == [at |-> "off", line |-> NoLine]

VARIABLES
    procs,      \* the process table; group 0 is the process group of the node
    pipe,       \* output of every process that has not been read
    sock,       \* what is at the path of the configured unix socket
    node,       \* the incarnation of the node
    process,    \* c.process, 0 for nil
    tracked,    \* c.unixSocketPaths holds the path
    phase,      \* c.logPhase
    enabled,    \* c.startupDiagnosticsEnabled
    failure,    \* c.startupFailure
    startup,    \* c.startupLogs
    runtime,    \* c.runtimeLogs
    queued,     \* lines in c.logsChan, which nobody need read
    cancelled,  \* processes whose capture context is cancelled
    deaf,       \* processes whose capture has met a line over 1 MiB
    writer,     \* the goroutines that record lines
    job,        \* the Start, Stop or Restart that is under way
    check,      \* checkXrayStatus of New or of a user operation
    lines, mishaps,     \* budgets
    startupSaid, runtimeSaid,   \* history: what the rings were given since reset
    swept,      \* history: the last start could list the processes
    stolen,     \* history: an orphan has listened since the last start
    saidFatal,  \* history: processes that have printed a startup failure
    late        \* history: lines captured from a process after its Stop

osVars == <<procs, pipe, sock, node, lines, stolen>>
coreVars == <<process, tracked, cancelled, deaf, swept>>
diagVars == <<phase, enabled, failure, startup, startupSaid>>
logVars == <<runtime, runtimeSaid, queued, late>>
vars == <<osVars, coreVars, diagVars, logVars, writer, job, check, mishaps, saidFatal>>

----------------------------------------------------------------------------
(* startupLogRing                                                          *)

newStartupLogRing(size) == [lines |-> [i \in 0..(size - 1) |-> NoLine], next |-> 0, full |-> FALSE]

\* Mutant: the ring is full one line too early.
addFullEarly(r, line) ==
    LET size == Cardinality(DOMAIN r.lines)
        n == (r.next + 1) % size
    IN  [lines |-> [r.lines EXCEPT ![r.next] = line], next |-> n,
         full |-> r.full \/ n = size - 1]

add(r, line) ==
    LET n == (r.next + 1) % Cardinality(DOMAIN r.lines)
    IN  [lines |-> [r.lines EXCEPT ![r.next] = line], next |-> n, full |-> r.full \/ n = 0]

tail(r, n) ==
    LET size == Cardinality(DOMAIN r.lines)
        count == IF r.full THEN size ELSE r.next
        m == IF n <= 0 \/ n > count THEN count ELSE n
        oldest == IF r.full THEN r.next ELSE 0
    IN  [i \in 1..m |-> r.lines[(oldest + (count - m) + (i - 1)) % size]]

----------------------------------------------------------------------------

Free == [at |-> "free", by |-> "nobody", todo |-> {}]
NoProc == [st |-> "none", parent |-> "init", group |-> 0, doomed |-> FALSE, ready |-> FALSE]

\* Process 1 belongs to another node on the host, which may share a process
\* group with this one (one shell or supervisor started both).  Process 2 was
\* left behind, with its socket, by an earlier session or by a node that died,
\* if at all.
Init ==
    /\ \E sc \in Scenarios :
         /\ lines = sc.lines /\ mishaps = sc.mishaps
         /\ procs = [p \in Pids |->
              CASE p = 1 -> [NoProc EXCEPT !.st = "run", !.parent = "other", !.group = sc.beside]
                [] p = 2 /\ sc.left # "none" -> [NoProc EXCEPT !.st = "run", !.parent = sc.left, !.group = 2]
                [] OTHER -> NoProc]
    /\ pipe = [p \in Pids |-> <<>>]
    /\ sock = "socket" /\ node = "node1" /\ stolen = FALSE
    /\ process = 0 /\ tracked = FALSE
    /\ phase = "runtime" /\ enabled = FALSE /\ failure = NoLine
    /\ startup = newStartupLogRing(RingSize) /\ startupSaid = <<>>
    /\ runtime = newStartupLogRing(RuntimeSize) /\ runtimeSaid = <<>>
    /\ queued = 0 /\ cancelled = {} /\ deaf = {} /\ swept = FALSE
    /\ writer = [w \in Writers |-> Quiet]
    /\ job = [Free EXCEPT !.at = "start", !.by = "op"]      \* New calls core.Start
    /\ check = "none"
    /\ saidFatal = {} /\ late = [p \in Pids |-> 0]

Mishap == mishaps > 0 /\ mishaps' = mishaps - 1
Works == UNCHANGED mishaps

\* Core.Started: a process whose exit has not been collected.
Started == process # 0 /\ procs[process].st # "reaped"

----------------------------------------------------------------------------
(* The processes                                                           *)

Children == {p \in Pids : procs[p].parent = node}

\* One line at most is a startup failure (isStartupFailureLog).  A process that
\* is not read any more still writes, until the pipe is full.
Say(p, fatal) ==
    /\ procs[p].st = "run" /\ p \in Children
    /\ writer[<<"capture", p>>].at # "off" \/ p \in deaf
    /\ lines > 0 /\ lines' = lines - 1
    /\ fatal => saidFatal = {}
    /\ pipe' = [pipe EXCEPT ![p] = Append(@, [pid |-> p, fatal |-> fatal])]
    /\ saidFatal' = IF fatal THEN saidFatal \cup {p} ELSE saidFatal
    /\ Works /\ UNCHANGED <<procs, sock, node, stolen, coreVars, diagVars, logVars, writer, job, check>>

\* The process listens; a socket file that is still there makes that fail.
Listen(p) ==
    /\ p > 2 /\ procs[p].st = "run" /\ ~procs[p].ready /\ ~procs[p].doomed
    /\ sock = "none" /\ sock' = "socket" /\ stolen' = (p \notin Children)
    /\ procs' = [procs EXCEPT ![p].ready = TRUE]
    /\ Works /\ UNCHANGED <<pipe, node, lines, coreVars, diagVars, logVars, writer, job, check, saidFatal>>

Exit(p) ==
    /\ p > 1 /\ procs[p].st = "run"
    /\ IF procs[p].doomed THEN Works ELSE Mishap
    /\ procs' = [procs EXCEPT ![p].st = "dead", ![p].ready = FALSE]
    /\ UNCHANGED <<pipe, sock, node, lines, stolen, coreVars, diagVars, logVars, writer, job, check, saidFatal>>

\* cmd.Wait collects the exit and closes the pipe, read or not; what is left
\* of the output is what the scanner had in its buffer.
Wait(p) ==
    /\ p > 2 /\ procs[p].st = "dead" /\ p \in Children
    /\ procs' = [procs EXCEPT ![p].st = "reaped"]
    /\ \E n \in 0..Len(pipe[p]) : pipe' = [pipe EXCEPT ![p] = SubSeq(@, 1, n)]
    /\ writer' = [writer EXCEPT ![<<"exit", p>>] = [at |-> "exit", line |-> [pid |-> p, fatal |-> FALSE]]]
    /\ Works /\ UNCHANGED <<sock, node, lines, stolen, coreVars, diagVars, logVars, job, check, saidFatal>>

\* The node dies; its children live on under init.  A new one starts.
NodeCrash ==
    /\ node = "node1" /\ Mishap /\ node' = "node2"
    /\ procs' = [p \in Pids |-> IF p \in Children THEN [procs[p] EXCEPT !.parent = "init"] ELSE procs[p]]
    /\ pipe' = [p \in Pids |-> <<>>]
    /\ process' = 0 /\ tracked' = FALSE /\ cancelled' = {} /\ deaf' = {} /\ swept' = FALSE
    /\ phase' = "runtime" /\ enabled' = FALSE /\ failure' = NoLine
    /\ startup' = newStartupLogRing(RingSize) /\ startupSaid' = <<>>
    /\ runtime' = newStartupLogRing(RuntimeSize) /\ runtimeSaid' = <<>>
    /\ queued' = 0 /\ writer' = [w \in Writers |-> Quiet]
    /\ job' = [Free EXCEPT !.at = "start", !.by = "op"] /\ check' = "none"
    /\ UNCHANGED <<sock, lines, stolen, saidFatal, late>>

----------------------------------------------------------------------------
(* captureProcessLogs, handleProcessExit                                   *)

\* Mutant: the context is not looked at.
ContextIgnored(p) == TRUE

\* The context of a capture is cancelled by Stop.
ContextLive(p) == p \notin cancelled

\* Scan returns a line, after which ctx is looked at, or ends the capture: at the
\* end of the output, or at a line over 1 MiB (bufio.ErrTooLong, not looked at).
Scan(p) ==
    LET w == <<"capture", p>>
    IN  /\ writer[w].at = "scan"
        /\ \/ /\ pipe[p] # <<>>
              /\ pipe' = [pipe EXCEPT ![p] = Tail(@)]
              /\ writer' = [writer EXCEPT ![w] =
                   IF ContextLive(p) THEN [at |-> "phase", line |-> Head(pipe[p])] ELSE Quiet]
              /\ Works /\ UNCHANGED deaf
           \/ /\ pipe[p] = <<>> /\ procs[p].st \in {"dead", "reaped"}
              /\ writer' = [writer EXCEPT ![w] = Quiet]
              /\ Works /\ UNCHANGED <<pipe, deaf>>
           \/ /\ pipe[p] = <<>> /\ procs[p].st = "run" /\ p \in Children
              /\ writer' = [writer EXCEPT ![w] = Quiet] /\ deaf' = deaf \cup {p}
              /\ Mishap /\ UNCHANGED pipe
    /\ UNCHANGED <<procs, sock, node, lines, stolen, process, tracked, cancelled, swept,
                   diagVars, logVars, job, check, saidFatal>>

\* c.mu is held by a Start or a Stop; Restart lets go of it between the two.
MuHeld == job.at \notin {"free", "start"}

\* handleProcessExit: an exit that Stop has brought about is not reported.
handleProcessExit(p) ==
    LET w == <<"exit", p>>
    IN  /\ writer[w].at = "exit" /\ ~MuHeld
        /\ writer' = [writer EXCEPT ![w] = IF process # p THEN Quiet ELSE [@ EXCEPT !.at = "phase"]]
    /\ Works /\ UNCHANGED <<osVars, coreVars, diagVars, logVars, job, check, saidFatal>>

isStartupLogPhase(w) ==
    /\ writer[w].at = "phase"
    /\ writer' = [writer EXCEPT ![w].at = phase]
    /\ Works /\ UNCHANGED <<osVars, coreVars, diagVars, logVars, job, check, saidFatal>>

Recorded(w) == [writer EXCEPT ![w] = IF w[1] = "capture" THEN [at |-> "scan", line |-> NoLine] ELSE Quiet]

CountLate(w) ==
    late' = [late EXCEPT ![w[2]] = IF w[1] = "capture" /\ w[2] \in cancelled THEN @ + 1 ELSE @]

\* Mutant: a send that waits for room.
SendBlocking == queued < ChanSize /\ queued' = queued + 1

\* A line that finds the channel full is dropped.
Send == queued' = IF queued < ChanSize THEN queued + 1 ELSE queued

isStartupFailureLog(line) == line.fatal

captureStartupLogLine(w) ==
    LET line == writer[w].line
    IN  /\ writer[w].at = "startup"
        /\ IF enabled
             THEN /\ startup' = add(startup, line)
                  /\ startupSaid' = Append(startupSaid, line)
                  /\ failure' = IF isStartupFailureLog(line) THEN line ELSE failure
             ELSE UNCHANGED <<startup, startupSaid, failure>>
        /\ CountLate(w) /\ Send
        /\ writer' = Recorded(w)
    /\ Works /\ UNCHANGED <<osVars, coreVars, phase, enabled, runtime, runtimeSaid, job, check, saidFatal>>

captureRuntimeLogLine(w) ==
    LET line == writer[w].line
    IN  /\ writer[w].at = "runtime"
        /\ runtime' = add(runtime, line)
        /\ runtimeSaid' = Append(runtimeSaid, line)
        /\ CountLate(w) /\ Send
        /\ writer' = Recorded(w)
    /\ Works /\ UNCHANGED <<osVars, coreVars, diagVars, job, check, saidFatal>>

----------------------------------------------------------------------------
(* Core.Stop and Core.Start, one caller at a time under x.mu               *)

\* The health check or a user operation restarts the core, or Shutdown stops it.
Call(by) ==
    /\ job = Free
    /\ by = "op" => check = "none"
    /\ by # "shutdown" => \E p \in Pids : procs[p].st = "none" /\ p > 2
    /\ job' = [at |-> "stop", by |-> by, todo |-> {}]
    /\ Works /\ UNCHANGED <<osVars, coreVars, diagVars, logVars, writer, check, saidFatal>>

Doom(killed) ==
    procs' = [p \in Pids |-> IF p \in killed THEN [procs[p] EXCEPT !.doomed = TRUE] ELSE procs[p]]

\* A process that has a /proc entry.
Exists(p) == procs[p].st \in {"run", "dead"}

\* killProcessTree signals the process and its whole group (getProcessGroupID).
killProcessTree(p) ==
    Doom({q \in Pids : Exists(p) /\ Exists(q) /\ procs[q].group = procs[p].group})

StopKill ==
    /\ job.at = "stop"
    /\ IF Started THEN Doom({process}) /\ job' = [job EXCEPT !.at = "reap"]
                  ELSE UNCHANGED procs /\ job' = [job EXCEPT !.at = "clear"]
    /\ Works
    /\ UNCHANGED <<pipe, sock, node, lines, stolen, coreVars, diagVars, logVars, writer, check, saidFatal>>

\* waitDone is closed, or five seconds have passed; then the group is killed.
StopWait ==
    /\ job.at = "reap"
    /\ IF procs[process].st = "reaped" THEN Works /\ UNCHANGED procs
                                      ELSE Mishap /\ killProcessTree(process)
    /\ job' = [job EXCEPT !.at = "clear"]
    /\ UNCHANGED <<pipe, sock, node, lines, stolen, coreVars, diagVars, logVars, writer, check, saidFatal>>

removeUnixSocketFiles == sock' = "none"

StopClear ==
    /\ job.at = "clear"
    /\ cancelled' = IF process = 0 THEN cancelled ELSE cancelled \cup {process}
    /\ process' = 0 /\ tracked' = FALSE
    /\ IF tracked THEN removeUnixSocketFiles ELSE UNCHANGED sock
    /\ phase' = "runtime" /\ enabled' = FALSE /\ failure' = NoLine
    /\ startup' = newStartupLogRing(RingSize) /\ startupSaid' = <<>>
    /\ job' = IF job.by = "shutdown" THEN Free ELSE [job EXCEPT !.at = "start"]
    /\ Works /\ UNCHANGED <<procs, pipe, node, lines, stolen, deaf, swept, logVars, writer, check, saidFatal>>

\* Mutant: the phase stays as Stop has left it.
StartInRuntimePhase ==
    /\ job.at = "start"
    /\ runtime' = newStartupLogRing(RuntimeSize) /\ runtimeSaid' = <<>>
    /\ startup' = newStartupLogRing(RingSize) /\ startupSaid' = <<>>
    /\ failure' = NoLine /\ enabled' = TRUE /\ UNCHANGED phase
    /\ job' = [job EXCEPT !.at = "list"]
    /\ Works /\ UNCHANGED <<osVars, coreVars, queued, late, writer, check, saidFatal>>

\* Start resets the runtime ring, EnableStartupDiagnostics, setStartupLogPhase.
StartBegin ==
    /\ job.at = "start"
    /\ runtime' = newStartupLogRing(RuntimeSize) /\ runtimeSaid' = <<>>
    /\ startup' = newStartupLogRing(RingSize) /\ startupSaid' = <<>>
    /\ failure' = NoLine /\ enabled' = TRUE /\ phase' = "startup"
    /\ job' = [job EXCEPT !.at = "list"]
    /\ Works /\ UNCHANGED <<osVars, coreVars, queued, late, writer, check, saidFatal>>

\* /proc/PID/exe of a zombie cannot be read.
findXrayProcesses == {p \in Pids : procs[p].st = "run"}

\* Mutant: only zombies are in the way.
OrphanIsZombie(p) == procs[p].st = "dead" /\ procs[p].parent = "init"

\* A zombie without a parent, or a child of this node.
IsOrphan(p) ==
    \/ procs[p].st = "dead" /\ procs[p].parent = "init"
    \/ p \in Children

ListOrphans ==
    /\ job.at = "list"
    /\ \/ /\ Works /\ swept' = TRUE
          /\ job' = [job EXCEPT !.at = "kill", !.todo = {p \in findXrayProcesses : IsOrphan(p)}]
       \/ Mishap /\ swept' = FALSE /\ job' = [job EXCEPT !.at = "sockets"]
    /\ UNCHANGED <<osVars, process, tracked, cancelled, deaf, diagVars, logVars, writer, check, saidFatal>>

cleanupOrphanedProcesses ==
    /\ job.at = "kill"
    /\ IF job.todo = {}
         THEN job' = [job EXCEPT !.at = "sockets"] /\ UNCHANGED procs
         ELSE \E p \in job.todo : killProcessTree(p) /\ job' = [job EXCEPT !.todo = @ \ {p}]
    /\ Works /\ UNCHANGED <<pipe, sock, node, lines, stolen, coreVars, diagVars, logVars, writer, check, saidFatal>>

\* Mutant: the socket files of the configuration are left where they are.
SocketsKept ==
    /\ job.at = "sockets" /\ job' = [job EXCEPT !.at = "spawn"]
    /\ UNCHANGED sock
    /\ Works /\ UNCHANGED <<procs, pipe, node, lines, stolen, coreVars, diagVars, logVars, writer, check, saidFatal>>

ClearSockets ==
    /\ job.at = "sockets" /\ job' = [job EXCEPT !.at = "spawn"]
    /\ removeUnixSocketFiles /\ stolen' = FALSE
    /\ Works /\ UNCHANGED <<procs, pipe, node, lines, coreVars, diagVars, logVars, writer, check, saidFatal>>

\* Mutant: without Setpgid the process is in the group of the node.
NoProcAttributes(p) == 0

\* The process group of a new process: its own.
setProcAttributes(p) == p

Spawn ==
    /\ job.at = "spawn" /\ job' = Free
    /\ \/ \E p \in Pids :
            /\ p > 2 /\ procs[p].st = "none" /\ \A q \in 3..(p - 1) : procs[q].st # "none"
            /\ procs' = [procs EXCEPT ![p] = [NoProc EXCEPT !.st = "run", !.parent = node, !.group = setProcAttributes(p)]]
            /\ process' = p /\ tracked' = TRUE
            /\ writer' = [writer EXCEPT ![<<"capture", p>>].at = "scan"]
            /\ check' = IF job.by = "op" THEN "wait" ELSE check
            /\ Works
       \/ Mishap /\ UNCHANGED <<procs, process, tracked, writer, check>>
    /\ UNCHANGED <<pipe, sock, node, lines, stolen, cancelled, deaf, swept, diagVars, logVars, saidFatal>>

----------------------------------------------------------------------------
(* checkXrayStatus                                                         *)

\* The API answers; SwitchToRuntimeLogPhase stores the phase, then disables.
CheckAnswered ==
    /\ check = "wait" /\ process # 0 /\ procs[process].ready
    /\ check' = "switch"
    /\ Works /\ UNCHANGED <<osVars, coreVars, diagVars, logVars, writer, job, saidFatal>>

\* LatestStartupFailure has a line, the process is gone, or the caller gives up.
CheckGivesUp ==
    /\ check = "wait"
    /\ check' = "none"
    /\ IF (enabled /\ failure # NoLine) \/ ~Started THEN Works ELSE Mishap
    /\ UNCHANGED <<osVars, coreVars, diagVars, logVars, writer, job, saidFatal>>

SwitchPhase ==
    /\ check = "switch" /\ check' = "disable"
    /\ phase' = "runtime"
    /\ Works
    /\ UNCHANGED <<osVars, coreVars, enabled, failure, startup, startupSaid, logVars, writer, job, saidFatal>>

DisableStartupDiagnostics ==
    /\ check = "disable" /\ check' = "none"
    /\ enabled' = FALSE /\ failure' = NoLine
    /\ startup' = newStartupLogRing(RingSize) /\ startupSaid' = <<>>
    /\ Works /\ UNCHANGED <<osVars, coreVars, phase, logVars, writer, job, saidFatal>>

----------------------------------------------------------------------------

Job ==
    \/ StopKill \/ StopWait \/ StopClear \/ StartBegin
    \/ ListOrphans \/ cleanupOrphanedProcesses \/ ClearSockets \/ Spawn

Record(w) == isStartupLogPhase(w) \/ captureStartupLogLine(w) \/ captureRuntimeLogLine(w)

Next ==
    \/ \E p \in Pids : \/ \E fatal \in BOOLEAN : Say(p, fatal)
                       \/ Listen(p) \/ Exit(p) \/ Wait(p) \/ Scan(p) \/ handleProcessExit(p)
    \/ \E w \in Writers : Record(w)
    \/ \E by \in {"op", "health", "shutdown"} : Call(by)
    \/ Job
    \/ CheckAnswered \/ CheckGivesUp \/ SwitchPhase \/ DisableStartupDiagnostics
    \/ NodeCrash

Capture(p) == Scan(p) \/ Record(<<"capture", p>>)
Fate(p) == (p \notin deaf /\ Listen(p)) \/ (procs[p].doomed /\ Exit(p)) \/ Wait(p)

\* The scheduler runs every goroutine; a process that is left alone gets to
\* listen, unless it is stuck on a pipe that nobody reads, a killed one dies, and
\* a dead one is waited for.
Fairness ==
    /\ WF_vars(Job /\ Works)
    /\ \A p \in 3..MaxPid : WF_vars(Capture(p) /\ Works) /\ WF_vars(Fate(p))

Spec == Init /\ [][Next]_vars /\ Fairness

----------------------------------------------------------------------------

Rings(size) == [lines : [0..(size - 1) -> Lines \cup {NoLine}], next : 0..(size - 1), full : BOOLEAN]

\* Every variable has its type.
CoreTypeOK ==
    /\ procs \in [Pids -> [st : {"none", "run", "dead", "reaped"}, parent : Parents,
                          group : 0..MaxPid, doomed : BOOLEAN, ready : BOOLEAN]]
    /\ pipe \in [Pids -> Seq(Lines)]
    /\ sock \in {"none", "socket"} /\ node \in Nodes
    /\ process \in Pids \cup {0} /\ tracked \in BOOLEAN
    /\ phase \in {"startup", "runtime"} /\ enabled \in BOOLEAN
    /\ failure \in {[pid |-> p, fatal |-> TRUE] : p \in Pids} \cup {NoLine}
    /\ startup \in Rings(RingSize) /\ runtime \in Rings(RuntimeSize)
    /\ queued \in 0..ChanSize /\ cancelled \subseteq Pids /\ deaf \subseteq Pids
    /\ writer \in [Writers -> [at : {"off", "scan", "exit", "phase", "startup", "runtime"},
                              line : Lines \cup {NoLine}]]
    /\ job \in [at : {"free", "stop", "reap", "clear", "start", "list", "kill", "sockets", "spawn"},
                by : {"nobody", "op", "health", "shutdown"}, todo : SUBSET Pids]
    /\ check \in {"none", "wait", "switch", "disable"}

LastLines(said, n) == SubSeq(said, IF n < Len(said) THEN Len(said) - n + 1 ELSE 1, Len(said))

\* A tail of a ring is the last lines given to it since its reset, in their
\* order, and no more than it has room for: for every length asked for, zero
\* (all) and too many included.
TailIsRecent ==
    \A n \in 0..(RingSize + RuntimeSize) :
        /\ tail(startup, n) = LastLines(startupSaid, IF n \in 1..RingSize THEN n ELSE RingSize)
        /\ tail(runtime, n) = LastLines(runtimeSaid, IF n \in 1..RuntimeSize THEN n ELSE RuntimeSize)

\* Of a process that has been stopped, at most the one line that its capture
\* had read already is still recorded, so no more than that can be mistaken
\* for output of the next process.
OneLateLine == \A p \in Pids : late[p] <= 1

\* While an operation waits for the API of a process, a startup failure that
\* the process has printed is on record as soon as the capture has caught up.
StartupFailureVisible ==
    check = "wait" /\ process \in saidFatal /\ procs[process].st = "run"
        /\ ~MuHeld /\ pipe[process] = <<>> /\ writer[<<"capture", process>>].at = "scan"
    => enabled /\ failure # NoLine

\* After a start that could list the processes, every other child of this node
\* has been killed, whatever session started it.
NoRivalChild ==
    process # 0 /\ swept /\ job = Free =>
        \A p \in Children : procs[p].st = "run" /\ p # process => procs[p].doomed

\* A process is signalled by its own node only.  killProcessTree signals whole
\* process groups, so that no group of a process of this node may hold an Xray
\* of another node, not even of one that shares the group of this node, or a
\* living orphan, which may be in use.
OnlyOwnKilled ==
    [][\A p \in Pids : procs[p].st = "run" /\ procs'[p].doomed /\ ~procs[p].doomed
            => p \in Children]_vars

\* The process of the core gets to listen, although one before it, of this node
\* or of one that crashed, left its socket file; unless it exits, is stopped, has
\* the living orphan of a crashed node take its place meanwhile, or blocks on its
\* output after a line over 1 MiB.
StartedGetsReady ==
    (process # 0) ~> (process = 0 \/ procs[process].ready \/ procs[process].st # "run" \/ stolen
                          \/ process \in deaf)

\* Output that the capture has not recorded yet.
Unrecorded(p) == pipe[p] # <<>> \/ writer[<<"capture", p>>].at \in {"phase", "startup", "runtime"}

\* The output of the core's process is read and recorded on and on, whoever
\* reads the log channel or does not: only a line over 1 MiB, at which the
\* scanner gives up, leaves the process to block on a full pipe.
OutputIsRead ==
    (process # 0 /\ Unrecorded(process)) ~> (process = 0 \/ ~Unrecorded(process) \/ process \in deaf)

=============================================================================
