-------------------------------- MODULE Xray --------------------------------
(***************************************************************************)
(* The Xray backend (backend/xray: xray.go, core.go, jobs.go, user.go):    *)
(* the operating-system process it supervises, the configuration in        *)
(* memory, and the users of both.                                          *)
(*                                                                         *)
(* Threads.  A handler runs one user operation at a time (syncMu).  The    *)
(* health check runs until Shutdown cancels its context.  Shutdown is      *)
(* called by the controller at any time after New has returned.  A         *)
(* watcher per process waits for its exit.  x.mu serialises core.Restart   *)
(* and Shutdown; `job' is what its holder is doing.  c.mu is held from the *)
(* kill to the clearing of c.process (job.at = "reap"), and by single      *)
(* steps otherwise.                                                        *)
(*                                                                         *)
(* A configuration is an object: `heap' has the clients of each, x.config  *)
(* is the number of one, and a restart serialises the object it was given  *)
(* as it is when Start calls ToBytes.  GetSysStats wraps every error in a  *)
(* new gRPC status, so the health check's test for context.Canceled never  *)
(* succeeds and a cancelled call counts as a failed one.                   *)
(*                                                                         *)
(* External, modelled from its use: the process.  It answers its API once  *)
(* it is ready, starts with the clients of its configuration, refuses to   *)
(* add an email it has, may crash at any time, and dies when killed.       *)
(***************************************************************************)
EXTENDS XrayConfig

CONSTANTS
  Request,      \* the user lists of the panel's requests
  MaxFailures,  \* maxFailures of checkXrayHealth
  MaxOps,       \* bound: user operations
  MaxFaults     \* bound: crashes, failed spawns, failed or slow API calls,
                \*        failures in the startup log, cancelled requests

ASSUME XrayAssumption ==
  /\ MaxFailures \in Nat \ {0} /\ MaxOps \in Nat /\ MaxFaults \in Nat
  /\ \A us \in Request : us \in Seq([email : Email, inbounds : SUBSET Tag,
                                     proxies : SUBSET {Protocol[i] : i \in Tag}, cred : Cred])

VARIABLES
  heap,       \* the configuration objects
  config,     \* x.config
  process,    \* c.process # nil (it is then the last process started)
  proc,       \* the last process started (external)
  watch,      \* watchers that have yet to call handleProcessExit: whether their
              \* process is the last one started, whether the node killed it
  job,        \* what the holder of x.mu is doing
  h,          \* the health check
  w,          \* the user operation
  ctxDone,    \* Shutdown has cancelled xCtx
  closed,     \* Shutdown has closed the API handler and returned
  ops, faults,
  alarmed,    \* history: an exit the node caused was reported as unexpected
  rejected,   \* history: candidates whose application returned an error
  tainted     \* history: emails whose last update returned an error

coreVars == <<process, proc, watch, alarmed>>
confVars == <<heap, config>>
stopVars == <<ctxDone, closed>>
histVars == <<rejected, tainted>>
vars == <<confVars, coreVars, job, h, w, stopVars, ops, faults, histVars>>

NoJob == [by |-> "nobody", at |-> "free", obj |-> 0, bytes |-> NoClients]
Idle == [at |-> "idle", op |-> "none", us |-> <<>>, obj |-> 0, cand |-> 0, prev |-> 0,
         err |-> FALSE, todo |-> {}, tag |-> "none", calls |-> <<>>]

\* New, after core.Start: the process runs, its API is awaited.
Init ==
  /\ \E us \in Request : heap = <<syncUsers(NoClients, us)>>
  /\ config = 1
  /\ process = TRUE
  /\ proc = [alive |-> TRUE, reaped |-> FALSE, ready |-> FALSE, killed |-> FALSE,
             obj |-> 1, by |-> "w", clients |-> ToBytes(heap[1])]
  /\ watch = {} /\ alarmed = FALSE
  /\ job = NoJob
  /\ h = [at |-> "off", fails |-> 0, obj |-> 0]
  /\ w = [Idle EXCEPT !.at = "new"]
  /\ ctxDone = FALSE /\ closed = FALSE
  /\ ops = 0 /\ faults = 0
  /\ rejected = {} /\ tainted = {}

Fault == faults < MaxFaults /\ faults' = faults + 1
NoFault == UNCHANGED faults

\* Core.Started, read without c.mu.
Started == process /\ ~proc.reaped

\* A call of the API succeeds unless it meets a fault.
Answers == proc.alive /\ proc.ready /\ ~closed

\* An API call returns an error: the process is gone or the connection
\* closed, or it is a fault.
CallFails == IF proc.alive /\ ~closed THEN Fault ELSE NoFault

-----------------------------------------------------------------------------
(* The process and its watcher.                                            *)

BecomeReady ==
  /\ proc.alive /\ ~proc.ready
  /\ proc' = [proc EXCEPT !.ready = TRUE]
  /\ UNCHANGED <<confVars, process, watch, alarmed, job, h, w, stopVars, ops, faults, histVars>>

Crash ==
  /\ proc.alive
  /\ Fault
  /\ proc' = [proc EXCEPT !.alive = FALSE, !.ready = FALSE]
  /\ UNCHANGED <<confVars, process, watch, alarmed, job, h, w, stopVars, ops, histVars>>

\* cmd.Wait returns and waitDone is closed.
Reap ==
  /\ ~proc.alive /\ ~proc.reaped
  /\ proc' = [proc EXCEPT !.reaped = TRUE]
  /\ watch' = watch \cup {[current |-> TRUE, killed |-> proc.killed]}
  /\ UNCHANGED <<confVars, process, alarmed, job, h, w, stopVars, ops, faults, histVars>>

\* Mutant: an exit is expected only when no process is installed.
ExpectedAnyProcess(g) == ~process

\* c.stopping || c.process != cmd.  c.stopping is set only while c.mu is held.
Expected(g) == ~process \/ ~g.current

handleProcessExit(g) ==
  /\ g \in watch
  /\ job.at # "reap"
  /\ watch' = watch \ {g}
  /\ alarmed' = (alarmed \/ (~Expected(g) /\ g.killed))
  /\ UNCHANGED <<confVars, process, proc, job, h, w, stopVars, ops, faults, histVars>>

-----------------------------------------------------------------------------
(* core.Restart and Shutdown, under x.mu.                                  *)

Lock(by, obj) ==
  /\ job = NoJob
  /\ job' = [NoJob EXCEPT !.by = by, !.at = "stop", !.obj = obj]

AfterStop == IF job.by = "s" THEN "close" ELSE "bytes"

\* Core.Stop of a process that runs: kill it, and wait for the watcher.
StopKill ==
  /\ job.at = "stop" /\ Started
  /\ job' = [job EXCEPT !.at = "reap"]
  /\ proc' = [proc EXCEPT !.alive = FALSE, !.ready = FALSE, !.killed = proc.alive]
  /\ UNCHANGED <<confVars, process, watch, alarmed, h, w, stopVars, ops, faults, histVars>>

\* The rest of Core.Stop: waitDone is closed, or nothing had to be killed.
StopDone ==
  /\ \/ job.at = "reap" /\ proc.reaped
     \/ job.at = "stop" /\ ~Started
  /\ process' = FALSE
  /\ job' = [job EXCEPT !.at = AfterStop]
  /\ UNCHANGED <<confVars, proc, watch, alarmed, h, w, stopVars, ops, faults, histVars>>

\* Core.Start serialises the configuration before it takes c.mu.
Serialise ==
  /\ job.at = "bytes"
  /\ job' = [job EXCEPT !.at = "spawn", !.bytes = ToBytes(heap[job.obj])]
  /\ UNCHANGED <<confVars, coreVars, h, w, stopVars, ops, faults, histVars>>

\* The operation returns to the handler, with or without an error.
Finish(err) ==
  LET emails == {w.us[n].email : n \in DOMAIN w.us}
  IN  /\ w' = Idle
      /\ rejected' = IF w.op = "apply" /\ err THEN rejected \cup {w.cand} ELSE rejected
      /\ tainted' = IF w.op = "apply" THEN tainted
                    ELSE IF err THEN tainted \cup emails ELSE tainted \ emails

Goto(place) == w' = [w EXCEPT !.at = place] /\ UNCHANGED histVars

\* Mutant: a failed candidate is left in place.
ApplyFailsNoRestore == Finish(TRUE)

\* A step of applyConfigWithRestart fails: restore the previous
\* configuration, or give up if that was being restored.
ApplyFails ==
  IF w.obj = w.cand
  THEN /\ w' = [w EXCEPT !.at = "restart", !.obj = w.prev, !.err = TRUE]
       /\ UNCHANGED histVars
  ELSE Finish(TRUE)

\* Core.Start has started the process, or failed to, and core.Restart returns.
Returned(ok) ==
  /\ job' = NoJob
  /\ \/ /\ job.by = "h"
        /\ h' = [h EXCEPT !.at = "loop", !.obj = 0, !.fails = IF ok THEN 0 ELSE @]
        /\ UNCHANGED <<w, histVars>>
     \/ /\ job.by = "w"
        /\ IF ok THEN Goto("status") ELSE ApplyFails
        /\ UNCHANGED h

Spawn ==
  /\ job.at = "spawn"
  /\ process' = TRUE
  /\ proc' = [alive |-> TRUE, reaped |-> FALSE, ready |-> FALSE, killed |-> FALSE,
              obj |-> job.obj, by |-> job.by, clients |-> job.bytes]
  /\ watch' = {[g EXCEPT !.current = FALSE] : g \in watch}
  /\ Returned(TRUE)
  /\ UNCHANGED <<confVars, alarmed, stopVars, ops, faults>>

SpawnFails ==
  /\ job.at = "spawn"
  /\ Fault
  /\ Returned(FALSE)
  /\ UNCHANGED <<confVars, coreVars, stopVars, ops>>

\* Xray.Shutdown: under x.mu, cancel the context, stop the core, close the
\* handler.
Shutdown ==
  /\ w.at # "new" /\ ~ctxDone
  /\ Lock("s", 0)
  /\ ctxDone' = TRUE
  /\ UNCHANGED <<confVars, coreVars, h, w, closed, ops, faults, histVars>>

ShutdownClose ==
  /\ job.at = "close"
  /\ job' = NoJob
  /\ closed' = TRUE
  /\ UNCHANGED <<confVars, coreVars, h, w, ctxDone, ops, faults, histVars>>

-----------------------------------------------------------------------------
(* checkXrayHealth.                                                        *)

healthRest == <<confVars, coreVars, w, stopVars, ops, histVars>>

\* The top of the loop.  Restarting() waits for c.mu.
HealthTop ==
  /\ h.at = "loop"
  /\ job.at # "reap"
  /\ h' = IF ctxDone THEN [h EXCEPT !.at = "off"]
          ELSE IF job.by = "w" THEN [h EXCEPT !.fails = 0]
          ELSE [h EXCEPT !.at = "call"]
  /\ UNCHANGED <<healthRest, job, faults>>

HealthOk ==
  /\ h.at = "call" /\ Answers
  /\ h' = [h EXCEPT !.at = "loop", !.fails = 0]
  /\ UNCHANGED <<healthRest, job, faults>>

\* GetSysStats fails; beyond MaxFailures the count makes no difference.
HealthFails ==
  /\ h.at = "call"
  /\ CallFails
  /\ h' = [h EXCEPT !.at = "failed", !.fails = IF @ < MaxFailures THEN @ + 1 ELSE @]
  /\ UNCHANGED <<healthRest, job>>

\* Mutant: only a running process is restarted.
NeedsRestartByCount == Started /\ h.fails >= MaxFailures

NeedsRestart == ~Started \/ h.fails >= MaxFailures

HealthDecide ==
  /\ h.at = "failed"
  /\ h' = [h EXCEPT !.at = IF NeedsRestart THEN "restart" ELSE "loop"]
  /\ UNCHANGED <<healthRest, job, faults>>

\* Xray.Restart reads x.config, and only then waits for x.mu.
HealthRestart ==
  /\ h.at = "restart"
  /\ h' = [h EXCEPT !.at = "lock", !.obj = config]
  /\ UNCHANGED <<healthRest, job, faults>>

HealthLock ==
  /\ h.at = "lock"
  /\ Lock("h", h.obj)
  /\ h' = [h EXCEPT !.at = "restarting"]
  /\ UNCHANGED <<healthRest, faults>>

-----------------------------------------------------------------------------
(* New, and the operations that replace the configuration.                 *)

workRest == <<coreVars, stopVars>>

\* Mutant: the wait does not look at the process.
ProcessGoneUnnoticed == FALSE

\* checkXrayStatus finds neither an API nor a process.
ProcessGone == ~Answers /\ ~Started

\* checkXrayStatus returns an error: no process, a failure in the startup
\* log, or a context that is done.  Once the handler is closed only the last
\* two can end it, and the caller's context does.
StatusFails == IF ProcessGone \/ closed THEN NoFault ELSE Fault

\* New returns the backend, or shuts it down after an error.
NewReady ==
  /\ w.at = "new" /\ Answers
  /\ h' = [h EXCEPT !.at = "loop"]
  /\ Goto("idle")
  /\ UNCHANGED <<confVars, workRest, job, ops, faults>>

NewFails ==
  /\ w.at = "new"
  /\ StatusFails
  /\ Lock("s", 0)
  /\ ctxDone' = TRUE
  /\ Goto("gone")
  /\ UNCHANGED <<confVars, coreVars, h, closed, ops>>

Begin ==
  /\ w = Idle /\ ops < MaxOps
  /\ ops' = ops + 1

\* SyncUsers and UpdateUsersAndRestart: clone the configuration, change the
\* clone, restart with it.
ApplyConfig(us, changed) ==
  /\ Begin
  /\ heap' = Append(heap, changed)
  /\ w' = [Idle EXCEPT !.at = "restart", !.op = "apply", !.us = us,
                       !.obj = Len(heap) + 1, !.cand = Len(heap) + 1, !.prev = config]
  /\ UNCHANGED <<config, workRest, job, h, faults, histVars>>

SyncUsers(us) == ApplyConfig(us, syncUsers(heap[config], us))
UpdateUsersAndRestart(us) == ApplyConfig(us, updateUsers(heap[config], us))

ApplyRestart ==
  /\ w.at = "restart"
  /\ Lock("w", w.obj)
  /\ Goto("restarting")
  /\ UNCHANGED <<confVars, workRest, h, ops, faults>>

ApplyReady ==
  /\ w.at = "status" /\ Answers
  /\ Goto("set")
  /\ UNCHANGED <<confVars, workRest, job, h, ops, faults>>

ApplyStatusFails ==
  /\ w.at = "status"
  /\ StatusFails
  /\ ApplyFails
  /\ UNCHANGED <<confVars, workRest, job, h, ops>>

\* Mutant: a successful restart leaves the old configuration installed.
SetConfigForgets(obj) == config

SetConfig(obj) == obj

\* setConfig waits for x.mu; then the operation returns.
ApplySet ==
  /\ w.at = "set" /\ job = NoJob
  /\ config' = SetConfig(w.obj)
  /\ Finish(w.err)
  /\ UNCHANGED <<heap, workRest, job, h, ops, faults>>

-----------------------------------------------------------------------------
(* The operations that change users of the running process.                *)

BeginUserOp(op, us) ==
  /\ Begin
  /\ w' = [Idle EXCEPT !.at = "next", !.op = op, !.us = us, !.todo = Tag \ Excluded]
  /\ UNCHANGED <<confVars, workRest, job, h, faults, histVars>>

SyncUser(us) == Len(us) = 1 /\ BeginUserOp("sync", us)
UpdateUsers(us) == BeginUserOp("update", us)

\* The API calls for an inbound: [email, cred], without an account a removal.
Call(email, cred) == [email |-> email, cred |-> cred]
CallsFor(i) ==
  LET gone == SetToSeq(RemoveEmails(i, w.us))
      accounts == Accounts(i, w.us)
  IN  [n \in DOMAIN gone |-> Call(gone[n], NoCred)]
      \o [n \in DOMAIN accounts |-> Call(accounts[n].email, accounts[n].cred)]

\* The next inbound.  UpdateUsers changes its map before it calls the API.
NextInbound(i) ==
  /\ w.at = "next" /\ i \in w.todo
  /\ heap' = IF w.op = "update"
             THEN [heap EXCEPT ![config][i] =
                     InboundUpdateUsers(@, Accounts(i, w.us), RemoveEmails(i, w.us))]
             ELSE heap
  /\ w' = [w EXCEPT !.at = IF CallsFor(i) = <<>> THEN "next" ELSE "remove",
                    !.tag = i, !.todo = @ \ {i}, !.calls = CallsFor(i)]
  /\ UNCHANGED <<config, workRest, job, h, ops, faults, histVars>>

\* w after the API calls for the first entry of w.calls.
CallDone(err) ==
  [w EXCEPT !.calls = Tail(@), !.err = @ \/ err,
            !.at = IF Len(w.calls) = 1 THEN "next" ELSE "remove"]

\* RemoveInboundUser; its error is dropped.  An email that is not there is
\* one of its errors.
RemoveInboundUser ==
  LET c == Head(w.calls)
  IN  /\ w.at = "remove"
      /\ \/ /\ Answers /\ NoFault
            /\ proc' = [proc EXCEPT !.clients[w.tag][c.email] = NoCred]
         \/ CallFails /\ UNCHANGED proc
      /\ w' = IF w.op = "sync" THEN [w EXCEPT !.at = "memory"]
              ELSE IF c.cred # NoCred THEN [w EXCEPT !.at = "add"]
              ELSE CallDone(FALSE)
      /\ UNCHANGED <<confVars, process, watch, alarmed, stopVars, job, h, ops, histVars>>

\* SyncUser changes the map between its two API calls.
SyncUserMemory ==
  LET c == Head(w.calls)
  IN  /\ w.at = "memory"
      /\ heap' = [heap EXCEPT ![config][w.tag] =
                    IF c.cred # NoCred THEN updateUser(@, c) ELSE removeUser(@, c.email)]
      /\ w' = IF c.cred # NoCred THEN [w EXCEPT !.at = "add"] ELSE CallDone(FALSE)
      /\ UNCHANGED <<config, workRest, job, h, ops, faults, histVars>>

\* Mutant: errors of AddInboundUser are dropped too.
AddErrorDropped == FALSE

\* AddInboundUser's error is kept and the loop goes on.
AddError == TRUE

AddInboundUser ==
  LET c == Head(w.calls)
      known == proc.clients[w.tag][c.email] # NoCred
  IN  /\ w.at = "add"
      /\ \/ /\ Answers /\ ~known /\ NoFault
            /\ proc' = [proc EXCEPT !.clients[w.tag][c.email] = c.cred]
            /\ w' = CallDone(FALSE)
         \/ /\ IF Answers /\ known THEN NoFault ELSE CallFails
            /\ w' = CallDone(AddError)
            /\ UNCHANGED proc
      /\ UNCHANGED <<confVars, process, watch, alarmed, stopVars, job, h, ops, histVars>>

UserOpReturns ==
  /\ w.at = "next" /\ w.todo = {}
  /\ Finish(w.err)
  /\ UNCHANGED <<confVars, workRest, job, h, ops, faults>>

-----------------------------------------------------------------------------
ProcessNext == BecomeReady \/ Reap \/ \E g \in watch : handleProcessExit(g)
JobNext == StopKill \/ StopDone \/ Serialise \/ Spawn \/ ShutdownClose
HealthNext ==
  HealthTop \/ HealthOk \/ HealthFails \/ HealthDecide \/ HealthRestart \/ HealthLock
ApplyNext == NewReady \/ NewFails \/ ApplyRestart \/ ApplyReady \/ ApplyStatusFails \/ ApplySet
UserOpNext ==
  \/ \E i \in w.todo : NextInbound(i)
  \/ RemoveInboundUser \/ SyncUserMemory \/ AddInboundUser \/ UserOpReturns
Environment ==
  \/ Crash \/ SpawnFails \/ Shutdown
  \/ \E us \in Request : SyncUsers(us) \/ UpdateUsersAndRestart(us)
                         \/ SyncUser(us) \/ UpdateUsers(us)

Next == ProcessNext \/ JobNext \/ HealthNext \/ ApplyNext \/ UserOpNext \/ Environment

\* A goroutine that can go on does, a killed process dies, and a process that
\* is left alone becomes ready.  Faults, requests and Shutdown need not happen.
WithoutFault(A) == A /\ UNCHANGED faults
Fairness ==
  /\ WF_vars(ProcessNext) /\ WF_vars(WithoutFault(JobNext))
  /\ WF_vars(WithoutFault(HealthNext)) /\ WF_vars(HealthLock)
  /\ WF_vars(WithoutFault(ApplyNext)) /\ WF_vars(WithoutFault(UserOpNext))

Spec == Init /\ [][Next]_vars /\ Fairness

-----------------------------------------------------------------------------
(* Properties.                                                             *)

Place == {"new", "gone", "idle", "restart", "restarting", "status", "set",
          "next", "remove", "memory", "add"}

\* The fields of Xray and Core and the locals of the threads.
XrayTypeOK ==
  /\ heap \in Seq(Clients) /\ Len(heap) <= MaxOps + 1
  /\ config \in DOMAIN heap /\ process \in BOOLEAN
  /\ proc \in [killed : BOOLEAN, alive : BOOLEAN, reaped : BOOLEAN, ready : BOOLEAN,
               obj : DOMAIN heap, by : {"w", "h"}, clients : Clients]
  /\ job \in [by : {"nobody", "w", "h", "s"},
              at : {"free", "stop", "reap", "bytes", "spawn", "close"},
              obj : 0..Len(heap), bytes : Clients]
  /\ h \in [at : {"off", "loop", "call", "failed", "restart", "lock", "restarting"},
            fails : 0..MaxFailures, obj : 0..Len(heap)]
  /\ w.at \in Place /\ w.err \in BOOLEAN /\ {w.obj, w.cand, w.prev} \subseteq 0..Len(heap)
  /\ watch \subseteq [current : BOOLEAN, killed : BOOLEAN] /\ alarmed \in BOOLEAN
  /\ ctxDone \in BOOLEAN /\ closed \in BOOLEAN
  /\ ops \in 0..MaxOps /\ faults \in 0..MaxFaults
  /\ rejected \subseteq DOMAIN heap /\ tainted \subseteq Email

\* No operation is being applied and nobody holds x.mu.
Quiet == w.at = "idle" /\ job = NoJob

\* handleProcessExit (core.go:271-290) never reports a process that the node
\* itself killed, however late its watcher runs and whatever was started
\* since.
NoFalseAlarm == ~alarmed

\* Once SyncUsers or UpdateUsersAndRestart has returned an error, no process
\* runs the configuration it tried, whatever the health check restarted in
\* between (user.go:176-215).
RejectedNeverServed == Quiet /\ proc.alive => proc.obj \notin rejected

\* Between operations the process was started from x.config, unless the
\* health check started it: its Restart reads x.config before it waits for
\* x.mu, and while a candidate is on trial x.config is the old one.
DriftOnlyByHealth == Quiet /\ proc.alive => proc.obj = config \/ proc.by = "h"

\* A user operation that returned no error has given the process every
\* account it put into the map, and a restart from x.config keeps them,
\* although Restart serialises the map without syncMu (user.go:122-161,
\* 217-252).  Removals have no such guarantee: their errors are dropped.
AckedAccountsServed ==
  Quiet /\ proc.alive /\ proc.obj = config =>
    \A i \in Tag \ Excluded, e \in Email \ tainted :
      heap[config][i][e] # NoCred => proc.clients[i][e] = heap[config][i][e]

\* Unless the backend is shut down, a process that died is replaced by one
\* that answers (jobs.go:85-137).
HealthRecovers == ~proc.alive /\ h.at # "off" ~> Answers \/ ctxDone

\* New and every user operation return: checkXrayStatus notices a dead
\* process, and x.mu, c.mu and syncMu never wait for each other.
OperationsReturn == w.at # "idle" ~> w.at \in {"idle", "gone"}

\* "Shutdown is now complete - all resources are cleaned up" (xray.go:161):
\* after Shutdown no Xray process runs.
ShutdownIsFinal == closed => ~proc.alive
=============================================================================
