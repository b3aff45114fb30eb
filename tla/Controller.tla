------------------------------ MODULE Controller ------------------------------
(***************************************************************************)
(* The node's controller (controller/controller.go) with the handlers that *)
(* drive it (controller/rpc and controller/rest, base.go and middleware.go)*)
(* and the deferred Disconnect of cmd/node/main.go: which backend runs,    *)
(* which session owns it, and who may shut it down.                        *)
(*                                                                         *)
(* Threads.  Start and Stop run under controlMu.  The keep-alive tracker   *)
(* of a session and main call Disconnect without it.  Disconnect is four   *)
(* steps: cancelFunc without a lock, read the backend under mu, shut it    *)
(* down with mu released, clear the backend under mu.  StartBackend and    *)
(* Connect each hold mu from start to end and are one step.  Main gives the*)
(* handlers ten seconds and then disconnects beside those still running.   *)
(*                                                                         *)
(* The backend of a session, its context and its tracker have one number,  *)
(* 1 for the first successful StartBackend; 0 is nil, and the context that *)
(* New cancels nothing with.  Time is one bit: whether keepAlive has       *)
(* passed since lastRequest.  The free ports and the sampled system        *)
(* statistics decide nothing here and are left out.                        *)
(***************************************************************************)
EXTENDS Naturals, FiniteSets

CONSTANTS
  Caller,     \* concurrent Start and Stop calls
  Request,    \* concurrent calls of REST handlers that need a backend
  Main,       \* the main goroutine
  Nobody,     \* the free value of controlMu
  KeepAlive,  \* the sessions whose Start asks for a keep-alive
  MaxStarts   \* bound: backends started

Session == 1..MaxStarts
Actor == Caller \cup Session \cup {Main}

ASSUME ControllerAssumption ==
  /\ MaxStarts \in Nat
  /\ KeepAlive \subseteq Session
  /\ Nobody \notin Caller /\ Main \notin Caller
  /\ (Caller \cup {Main}) \cap Session = {}

VARIABLES
  backend,     \* c.backend: a session's number, 0 for nil
  started,     \* the number of the last backend started
  running,     \* the backends that have not been shut down
  cancelFunc,  \* the context c.cancelFunc cancels
  cancelled,   \* the cancelled contexts
  expired,     \* keepAlive has passed since c.lastRequest
  controlMu,   \* the holder of c.controlMu
  pc, op,      \* of each actor: place; Start or Stop
  target,      \* Disconnect's local backend
  reqPc,       \* of each request: place
  overtook     \* history: the backends started while a Disconnect that does not
               \* hold controlMu had read c.backend and had not returned

ctlVars == <<backend, started, running, overtook>>
ctxVars == <<cancelFunc, cancelled, expired>>
actorVars == <<controlMu, pc, op, target>>
vars == <<ctlVars, ctxVars, actorVars, reqPc>>

Init ==
  /\ backend = 0 /\ started = 0 /\ running = {} /\ overtook = {}
  /\ cancelFunc = 0 /\ cancelled = {} /\ expired = FALSE
  /\ controlMu = Nobody
  /\ pc = [x \in Actor |-> "idle"]
  /\ op = [x \in Actor |-> "none"]
  /\ target = [x \in Actor |-> 0]
  /\ reqPc = [r \in Request |-> "idle"]

Goto(x, place) == pc' = [pc EXCEPT ![x] = place]

\* The server takes new calls; the process exists.
Serving == pc[Main] = "idle"
Alive == pc[Main] # "exited"

\* A tracker or main is between its read of c.backend and the end of its
\* Disconnect, or of the process.
PastRead == \E y \in Session \cup {Main} : pc[y] \in {"shutdown", "clear", "exit"}

-----------------------------------------------------------------------------
(* Disconnect, by any actor.                                               *)

AfterDisconnect(x) ==
  IF x \in Session THEN "wait"
  ELSE IF x = Main THEN "exit"
  ELSE IF op[x] = "start" THEN "startBackend" ELSE "unlock"

Cancel(x) ==
  /\ pc[x] = "cancel"
  /\ cancelled' = cancelled \cup {cancelFunc}
  /\ Goto(x, "readBackend")
  /\ UNCHANGED <<ctlVars, cancelFunc, expired, controlMu, op, target, reqPc>>

ReadBackend(x) ==
  /\ pc[x] = "readBackend"
  /\ target' = [target EXCEPT ![x] = backend]
  /\ Goto(x, "shutdown")
  /\ UNCHANGED <<ctlVars, ctxVars, controlMu, op, reqPc>>

\* Mutant: the backend is not shut down.
ShutdownForgotten(x) ==
  /\ pc[x] = "shutdown"
  /\ Goto(x, "clear")
  /\ UNCHANGED <<ctlVars, ctxVars, controlMu, op, target, reqPc>>

\* backend.Shutdown(), which does nothing the second time.
ShutdownBackend(x) ==
  /\ pc[x] = "shutdown"
  /\ running' = running \ {target[x]}
  /\ Goto(x, "clear")
  /\ UNCHANGED <<backend, started, overtook, ctxVars, controlMu, op, target, reqPc>>

ClearBackend(x) ==
  /\ pc[x] = "clear"
  /\ backend' = 0
  /\ target' = [target EXCEPT ![x] = 0]
  /\ Goto(x, AfterDisconnect(x))
  /\ UNCHANGED <<started, running, overtook, ctxVars, controlMu, op, reqPc>>

Disconnect(x) == Cancel(x) \/ ReadBackend(x) \/ ShutdownBackend(x) \/ ClearBackend(x)

-----------------------------------------------------------------------------
(* Start and Stop.                                                         *)

Receive(x, o) ==
  /\ Serving
  /\ pc[x] = "idle"
  /\ op' = [op EXCEPT ![x] = o]
  /\ Goto(x, "lock")
  /\ UNCHANGED <<ctlVars, ctxVars, controlMu, target, reqPc>>

LockControl(x) ==
  /\ pc[x] = "lock"
  /\ controlMu = Nobody
  /\ controlMu' = x
  /\ Goto(x, IF op[x] = "start" THEN "check" ELSE "cancel")
  /\ UNCHANGED <<ctlVars, ctxVars, op, target, reqPc>>

\* Mutant: the previous backend is left alone.
CheckSkipped(x) ==
  /\ pc[x] = "check"
  /\ Goto(x, "startBackend")
  /\ UNCHANGED <<ctlVars, ctxVars, controlMu, op, target, reqPc>>

\* "core control access was taken away from previous client".
CheckPrevious(x) ==
  /\ pc[x] = "check"
  /\ Goto(x, IF backend # 0 THEN "cancel" ELSE "startBackend")
  /\ UNCHANGED <<ctlVars, ctxVars, controlMu, op, target, reqPc>>

Return(x) ==
  /\ controlMu' = Nobody
  /\ op' = [op EXCEPT ![x] = "none"]

\* A failing start leaves c.backend as it was and does not connect.
StartBackend(x) ==
  /\ pc[x] = "startBackend"
  /\ \/ /\ started < MaxStarts
        /\ started' = started + 1
        /\ backend' = started + 1
        /\ running' = running \cup {started + 1}
        /\ overtook' = IF PastRead THEN overtook \cup {started + 1} ELSE overtook
        /\ Goto(x, "connect")
        /\ UNCHANGED <<controlMu, op>>
     \/ /\ Return(x)
        /\ Goto(x, "idle")
        /\ UNCHANGED ctlVars
  /\ UNCHANGED <<ctxVars, target, reqPc>>

\* Mutant: no tracker is started.
ConnectUntracked(x) ==
  /\ pc[x] = "connect"
  /\ expired' = FALSE
  /\ cancelled' = cancelled \cup {cancelFunc}
  /\ cancelFunc' = started
  /\ Goto(x, "unlock")
  /\ UNCHANGED <<ctlVars, controlMu, op, target, reqPc>>

\* A new context replaces the old one, and its tracker starts.
Connect(x) ==
  /\ pc[x] = "connect"
  /\ expired' = FALSE
  /\ cancelled' = cancelled \cup {cancelFunc}
  /\ cancelFunc' = started
  /\ pc' = [pc EXCEPT ![x] = "unlock",
                      ![started] = IF started \in KeepAlive THEN "wait" ELSE @]
  /\ UNCHANGED <<ctlVars, controlMu, op, target, reqPc>>

UnlockControl(x) ==
  /\ pc[x] = "unlock"
  /\ Return(x)
  /\ Goto(x, "respond")
  /\ UNCHANGED <<ctlVars, ctxVars, target, reqPc>>

\* The interceptor calls NewRequest after a successful handler.
Respond(x) ==
  /\ pc[x] = "respond"
  /\ expired' = FALSE
  /\ Goto(x, "idle")
  /\ UNCHANGED <<ctlVars, cancelFunc, cancelled, controlMu, op, target, reqPc>>

-----------------------------------------------------------------------------
(* The keep-alive tracker of session s.  When a tick and ctx.Done() are    *)
(* both ready, select takes either.                                        *)

Timeout ==
  /\ Alive
  /\ ~expired
  /\ expired' = TRUE
  /\ UNCHANGED <<ctlVars, cancelFunc, cancelled, actorVars, reqPc>>

Tick(s) ==
  /\ pc[s] = "wait"
  /\ Goto(s, "tick")
  /\ UNCHANGED <<ctlVars, ctxVars, controlMu, op, target, reqPc>>

\* mu.RLock may wait for a StartBackend in progress; then lastRequest is read.
ReadLastRequest(s) ==
  /\ pc[s] = "tick"
  /\ Goto(s, IF expired THEN "cancel" ELSE "wait")
  /\ UNCHANGED <<ctlVars, ctxVars, controlMu, op, target, reqPc>>

TrackerDone(s) ==
  /\ pc[s] = "wait"
  /\ s \in cancelled
  /\ Goto(s, "done")
  /\ UNCHANGED <<ctlVars, ctxVars, controlMu, op, target, reqPc>>

-----------------------------------------------------------------------------
(* REST requests behind checkBackendMiddleware.                            *)

CheckBackend(r) ==
  /\ Serving
  /\ reqPc[r] = "idle"
  /\ backend \in running
  /\ reqPc' = [reqPc EXCEPT ![r] = "handler"]
  /\ UNCHANGED <<ctlVars, ctxVars, actorVars>>

\* The handler reads s.Backend() again and calls it.  A nil backend panics and
\* a failing call answers with an error; only a success counts as a request.
CallBackend(r) ==
  /\ reqPc[r] = "handler"
  /\ \/ backend # 0 /\ reqPc' = [reqPc EXCEPT ![r] = "success"]
     \/ reqPc' = [reqPc EXCEPT ![r] = "idle"]
  /\ UNCHANGED <<ctlVars, ctxVars, actorVars>>

NewRequest(r) ==
  /\ reqPc[r] = "success"
  /\ expired' = FALSE
  /\ reqPc' = [reqPc EXCEPT ![r] = "idle"]
  /\ UNCHANGED <<ctlVars, cancelFunc, cancelled, actorVars>>

-----------------------------------------------------------------------------
(* The end of the node.                                                    *)

\* A signal: the server takes no new calls and waits for the handlers.
Signal ==
  /\ Serving
  /\ Goto(Main, "stopping")
  /\ UNCHANGED <<ctlVars, ctxVars, controlMu, op, target, reqPc>>

\* Mutant: main returns without Disconnect.
StopForgets ==
  /\ pc[Main] = "stopping"
  /\ Goto(Main, "exit")
  /\ UNCHANGED <<ctlVars, ctxVars, controlMu, op, target, reqPc>>

\* shutdownFunc returns when the handlers have, or after ten seconds while they
\* run on, and the deferred Disconnect begins.
StopServer ==
  /\ pc[Main] = "stopping"
  /\ Goto(Main, "cancel")
  /\ UNCHANGED <<ctlVars, ctxVars, controlMu, op, target, reqPc>>

\* main returns: every goroutine ends where it is.
Exit ==
  /\ pc[Main] = "exit"
  /\ Goto(Main, "exited")
  /\ UNCHANGED <<ctlVars, ctxVars, controlMu, op, target, reqPc>>

CallerStep(x) ==
  /\ Alive
  /\ LockControl(x) \/ CheckPrevious(x) \/ StartBackend(x) \/ Connect(x) \/ UnlockControl(x) \/ Respond(x)
       \/ Disconnect(x)
TrackerStep(s) == Alive /\ (Tick(s) \/ ReadLastRequest(s) \/ TrackerDone(s) \/ Disconnect(s))
RequestStep(r) == Alive /\ (CheckBackend(r) \/ CallBackend(r) \/ NewRequest(r))
MainStep == StopServer \/ Disconnect(Main) \/ Exit

Next ==
  \/ \E x \in Caller, o \in {"start", "stop"} : Receive(x, o)
  \/ \E x \in Caller : CallerStep(x)
  \/ \E s \in Session : TrackerStep(s)
  \/ \E r \in Request : RequestStep(r)
  \/ Timeout
  \/ Signal
  \/ MainStep

\* Every goroutine that can take a step takes one.
Fairness ==
  /\ \A x \in Caller : WF_vars(CallerStep(x))
  /\ \A s \in Session : WF_vars(TrackerStep(s))
  /\ WF_vars(MainStep)

Spec == Init /\ [][Next]_vars /\ Fairness

-----------------------------------------------------------------------------
(* Properties.                                                             *)

\* The fields of Controller and the places of its threads.
ControllerTypeOK ==
  /\ backend \in 0..MaxStarts /\ started \in 0..MaxStarts /\ running \subseteq Session
  /\ overtook \subseteq Session
  /\ cancelFunc \in 0..MaxStarts /\ cancelled \subseteq 0..MaxStarts /\ expired \in BOOLEAN
  /\ controlMu \in Caller \cup {Nobody}
  /\ pc \in [Actor -> {"idle", "lock", "check", "cancel", "readBackend", "shutdown", "clear",
                       "startBackend", "connect", "unlock", "respond", "wait", "tick", "done",
                       "stopping", "exit", "exited"}]
  /\ op \in [Actor -> {"none", "start", "stop"}]
  /\ target \in [Actor -> 0..MaxStarts]
  /\ reqPc \in [Request -> {"idle", "handler", "success"}]

\* "core control access was taken away from previous client" (rpc/base.go:15):
\* a new session starts its backend only after the previous one was shut
\* down, so two backends never run at once.
OneBackend == Cardinality(running) <= 1

\* A Start begins its backend only after every other backend was shut down, but
\* for those that overtook the Disconnect of a tracker or of main
\* (rpc/base.go:14-20).
TakeoverShutsDown == [][started' # started => running \subseteq overtook]_vars

\* c.backend names every running backend, so that Stop, the next Start and the
\* exit of the node can shut it down.  The exception is a backend whose Start
\* overtook a Disconnect outside controlMu: that Disconnect's last step sets
\* c.backend to nil whatever it holds by then (controller.go:71-87).
NoOrphan == running \subseteq {backend} \cup overtook

\* The node leaves no backend behind when it exits (cmd/node/main.go:46), but
\* for one whose Start overtook a Disconnect: that of a tracker, or that of
\* main, which after ten seconds no longer waits for Start to return.
CleanExit == pc[Main] = "exited" => running \subseteq overtook

\* The backend of a session that asked for a keep-alive and fell silent is shut
\* down, by its own tracker or by whoever cancelled that tracker, unless a
\* request comes after all, c.backend is taken from it, or the node exits
\* (controller.go:153-171).
IdleSessionEnds ==
  \A s \in KeepAlive :
    (backend = s /\ s \in running /\ expired) ~> (s \notin running \/ ~expired \/ backend # s \/ ~Alive)
=============================================================================
