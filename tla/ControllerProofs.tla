--------------------------- MODULE ControllerProofs ---------------------------
(***************************************************************************)
(* A Start shuts the previous backend down first, c.backend names every    *)
(* running backend and none survives the exit, for any number of callers,  *)
(* requests and sessions and any keep-alives.  The exception, named by     *)
(* the history variable overtook, is a backend whose Start finished while  *)
(* the Disconnect of a tracker or of main, which do not take controlMu,    *)
(* was past its read of c.backend; the run MCControllerOrphan shows what   *)
(* becomes of it.                                                          *)
(*                                                                         *)
(* What carries the proof is what a Disconnect in progress still covers:   *)
(* every backend but the overtaking ones is the one it has read, or is     *)
(* gone.                                                                   *)
(***************************************************************************)
EXTENDS Controller, TLAPS

Held == {"check", "cancel", "readBackend", "shutdown", "clear", "startBackend", "connect", "unlock"}

\* One Start or Stop at a time.
Exclusion == \A x \in Caller : pc[x] \in Held => controlMu = x

\* What each place in Disconnect and after it may rely on.
DisconnectOK ==
  /\ \A x \in Actor : pc[x] = "shutdown" => running \subseteq {target[x]} \cup overtook
  /\ \A x \in Actor : pc[x] = "clear" => running \subseteq overtook
  /\ \A x \in Caller : pc[x] = "startBackend" => running \subseteq overtook
  /\ pc[Main] \in {"exit", "exited"} => running \subseteq overtook

\* The inductive invariant.
ControllerInv == ControllerTypeOK /\ Exclusion /\ NoOrphan /\ DisconnectOK

-----------------------------------------------------------------------------
\* The actors are told apart.
LEMMA ActorsDiffer ==
  /\ Main \in Actor /\ Main \notin Caller /\ Main \notin Session
  /\ Caller \subseteq Actor /\ Session \subseteq Actor /\ Caller \cap Session = {}
  /\ Nobody \notin Caller
BY ControllerAssumption DEF Actor

LEMMA ControllerInitInv == Init => ControllerInv
<1> SUFFICES ASSUME Init PROVE ControllerInv
  OBVIOUS
<1> USE DEF Init
<1>1. 0 \in 0..MaxStarts
  BY ControllerAssumption
<1>2. \A x \in Actor : pc[x] = "idle"
  OBVIOUS
<1>3. ControllerTypeOK
  BY <1>1 DEF ControllerTypeOK
<1>4. Exclusion /\ DisconnectOK
  BY <1>2, ActorsDiffer DEF Exclusion, DisconnectOK, Held
<1>5. NoOrphan
  BY DEF NoOrphan
<1> QED BY <1>3, <1>4, <1>5 DEF ControllerInv

-----------------------------------------------------------------------------
(* The type invariant, by action.                                          *)

LEMMA DisconnectType ==
  ASSUME ControllerTypeOK, NEW x \in Actor, Disconnect(x)
  PROVE  ControllerTypeOK'
<1> USE DEF ControllerTypeOK, Goto, ctlVars, ctxVars, actorVars
<1>1. CASE Cancel(x)
  BY <1>1 DEF Cancel
<1>2. CASE ReadBackend(x)
  BY <1>2 DEF ReadBackend
<1>3. CASE ShutdownBackend(x)
  BY <1>3 DEF ShutdownBackend
<1>4. CASE ClearBackend(x)
  <2>1. AfterDisconnect(x) \in {"wait", "exit", "startBackend", "unlock"}
    BY DEF AfterDisconnect
  <2>2. 0 \in 0..MaxStarts
    BY ControllerAssumption
  <2> QED BY <1>4, <2>1, <2>2 DEF ClearBackend
<1> QED BY <1>1, <1>2, <1>3, <1>4 DEF Disconnect

LEMMA CallerType ==
  ASSUME ControllerTypeOK, NEW x \in Caller,
         \/ \E o \in {"start", "stop"} : Receive(x, o)
         \/ CallerStep(x)
  PROVE  ControllerTypeOK'
<1> USE DEF ControllerTypeOK, Goto, ctlVars, ctxVars, actorVars
<1> x \in Actor
  BY DEF Actor
<1>1. ASSUME NEW o \in {"start", "stop"}, Receive(x, o) PROVE ControllerTypeOK'
  BY <1>1 DEF Receive
<1>2. CASE LockControl(x) \/ CheckPrevious(x)
  BY <1>2 DEF LockControl, CheckPrevious
<1>3. CASE StartBackend(x)
  <2>1. started < MaxStarts => started + 1 \in 0..MaxStarts /\ started + 1 \in Session
    BY ControllerAssumption DEF Session
  <2> QED BY <1>3, <2>1 DEF StartBackend, Return
<1>4. CASE Connect(x)
  BY <1>4 DEF Connect
<1>5. CASE UnlockControl(x)
  BY <1>5 DEF UnlockControl, Return
<1>6. CASE Respond(x)
  BY <1>6 DEF Respond
<1> QED BY <1>1, <1>2, <1>3, <1>4, <1>5, <1>6, DisconnectType DEF CallerStep

LEMMA OtherType ==
  ASSUME ControllerTypeOK,
         \/ \E s \in Session : Tick(s) \/ ReadLastRequest(s) \/ TrackerDone(s)
         \/ \E r \in Request : RequestStep(r)
         \/ Timeout \/ Signal \/ StopServer \/ Exit
  PROVE  ControllerTypeOK'
<1> USE DEF ControllerTypeOK, Goto, ctlVars, ctxVars, actorVars
<1>1. ASSUME NEW s \in Session, Tick(s) \/ ReadLastRequest(s) \/ TrackerDone(s) PROVE ControllerTypeOK'
  BY <1>1 DEF Tick, ReadLastRequest, TrackerDone
<1>2. ASSUME NEW r \in Request, RequestStep(r) PROVE ControllerTypeOK'
  BY <1>2 DEF RequestStep, CheckBackend, CallBackend, NewRequest
<1>3. CASE Timeout
  BY <1>3 DEF Timeout
<1>4. CASE Signal \/ StopServer \/ Exit
  BY <1>4 DEF Signal, StopServer, Exit
<1> QED BY <1>1, <1>2, <1>3, <1>4

\* Every step keeps the types (controller.go, rpc/base.go).
LEMMA ControllerTypeStep == ControllerTypeOK /\ [Next]_vars => ControllerTypeOK'
<1> SUFFICES ASSUME ControllerTypeOK, [Next]_vars PROVE ControllerTypeOK'
  OBVIOUS
<1>1. CASE UNCHANGED vars
  BY <1>1 DEF vars, ctlVars, ctxVars, actorVars, ControllerTypeOK
<1> QED BY <1>1, CallerType, OtherType, DisconnectType, ActorsDiffer DEF Next, TrackerStep, MainStep

-----------------------------------------------------------------------------
(* The rest of the invariant, by action.                                   *)

Rest == Exclusion /\ NoOrphan /\ DisconnectOK

LEMMA DisconnectStep ==
  ASSUME ControllerInv, NEW x \in Actor, Disconnect(x)
  PROVE  Rest'
<1> USE ActorsDiffer DEF ControllerInv, ControllerTypeOK, Goto, ctlVars, ctxVars, actorVars
<1>1. CASE Cancel(x)
  <2>1. Exclusion'
    BY <1>1 DEF Cancel, Exclusion, Held
  <2>2. NoOrphan' /\ DisconnectOK'
    BY <1>1 DEF Cancel, NoOrphan, DisconnectOK
  <2> QED BY <2>1, <2>2 DEF Rest
<1>2. CASE ReadBackend(x)
  <2>1. Exclusion'
    BY <1>2 DEF ReadBackend, Exclusion, Held
  <2>2. NoOrphan' /\ DisconnectOK'
    BY <1>2 DEF ReadBackend, NoOrphan, DisconnectOK
  <2> QED BY <2>1, <2>2 DEF Rest
<1>3. CASE ShutdownBackend(x)
  <2>1. Exclusion'
    BY <1>3 DEF ShutdownBackend, Exclusion, Held
  <2>2. running' \subseteq overtook /\ overtook' = overtook
    BY <1>3 DEF ShutdownBackend, DisconnectOK
  <2>3. NoOrphan' /\ DisconnectOK'
    BY <1>3, <2>2 DEF ShutdownBackend, NoOrphan, DisconnectOK
  <2> QED BY <2>1, <2>3 DEF Rest
<1>4. CASE ClearBackend(x)
  <2>1. running \subseteq overtook /\ running' = running /\ overtook' = overtook
    BY <1>4 DEF ClearBackend, DisconnectOK
  <2>2. /\ x \in Session => AfterDisconnect(x) = "wait"
        /\ x = Main => AfterDisconnect(x) = "exit"
        /\ x \in Caller => AfterDisconnect(x) \in {"startBackend", "unlock"}
    BY DEF AfterDisconnect
  <2>3. Exclusion'
    BY <1>4, <2>2 DEF ClearBackend, Exclusion, Held, Actor
  <2>4. NoOrphan' /\ DisconnectOK'
    BY <1>4, <2>1 DEF ClearBackend, NoOrphan, DisconnectOK
  <2> QED BY <2>3, <2>4 DEF Rest
<1> QED BY <1>1, <1>2, <1>3, <1>4 DEF Disconnect

\* A session starts its backend when only overtaking backends run, and either
\* no Disconnect without controlMu is past its read, or it is one of them.
LEMMA StartBackendStep ==
  ASSUME ControllerInv, NEW x \in Caller, Alive, StartBackend(x)
  PROVE  Rest'
<1> USE ActorsDiffer DEF ControllerInv, ControllerTypeOK, Goto, ctlVars, ctxVars, actorVars
<1>1. pc[x] = "startBackend" /\ running \subseteq overtook /\ controlMu = x
  BY DEF StartBackend, DisconnectOK, Exclusion, Held
<1>2. \A y \in Caller : y # x => pc[y] \notin Held
  BY <1>1 DEF Exclusion
<1>3. CASE started' = started
  <2>1. /\ backend' = backend /\ running' = running /\ target' = target /\ overtook' = overtook
        /\ pc' = [pc EXCEPT ![x] = "idle"]
    BY <1>3, ControllerAssumption DEF StartBackend, Return
  <2>2. Exclusion'
    BY <1>2, <2>1, <1>1 DEF Exclusion, Held
  <2>3. NoOrphan' /\ DisconnectOK'
    BY <1>1, <1>3, <2>1 DEF NoOrphan, DisconnectOK
  <2> QED BY <2>2, <2>3 DEF Rest
<1>4. CASE started' # started
  <2>1. /\ backend' = started + 1 /\ running' = running \cup {started + 1}
        /\ overtook' = IF PastRead THEN overtook \cup {started + 1} ELSE overtook
        /\ target' = target /\ controlMu' = controlMu
        /\ pc' = [pc EXCEPT ![x] = "connect"]
    BY <1>4 DEF StartBackend
  <2>2. Exclusion'
    BY <1>1, <1>2, <2>1 DEF Exclusion, Held
  <2>3. NoOrphan'
    BY <1>1, <2>1 DEF NoOrphan
  <2>4. CASE PastRead
    BY <1>1, <2>1, <2>2, <2>3, <2>4 DEF DisconnectOK, Rest
  <2>5. CASE ~PastRead
    <3>1. \A y \in Actor : pc'[y] \notin {"shutdown", "clear"}
      BY <1>1, <1>2, <2>1, <2>5 DEF Held, Actor, PastRead
    <3>2. \A y \in Caller : pc'[y] # "startBackend"
      BY <1>1, <1>2, <2>1 DEF Held
    <3> QED BY <1>1, <2>1, <2>2, <2>3, <2>5, <3>1, <3>2 DEF DisconnectOK, Rest, PastRead, Alive
  <2> QED BY <2>2, <2>3, <2>4, <2>5 DEF Rest
<1> QED BY <1>3, <1>4

LEMMA CallerInvStep ==
  ASSUME ControllerInv, NEW x \in Caller,
         \/ \E o \in {"start", "stop"} : Receive(x, o)
         \/ CallerStep(x)
  PROVE  Rest'
<1> USE ActorsDiffer DEF ControllerInv, ControllerTypeOK, Goto, ctlVars, ctxVars, actorVars
<1>1. ASSUME NEW o \in {"start", "stop"}, Receive(x, o) PROVE Rest'
  <2>1. Exclusion'
    BY <1>1 DEF Receive, Exclusion, Held
  <2>2. NoOrphan' /\ DisconnectOK'
    BY <1>1 DEF Receive, NoOrphan, DisconnectOK
  <2> QED BY <2>1, <2>2 DEF Rest
<1>2. CASE LockControl(x)
  <2>1. Exclusion'
    BY <1>2 DEF LockControl, Exclusion, Held
  <2>2. NoOrphan' /\ DisconnectOK'
    BY <1>2 DEF LockControl, NoOrphan, DisconnectOK
  <2> QED BY <2>1, <2>2 DEF Rest
<1>3. CASE CheckPrevious(x)
  <2>1. Exclusion'
    BY <1>3 DEF CheckPrevious, Exclusion, Held
  <2>2. backend = 0 => running \subseteq overtook
    BY ControllerAssumption DEF NoOrphan, Session
  <2>3. NoOrphan' /\ DisconnectOK'
    BY <1>3, <2>2 DEF CheckPrevious, NoOrphan, DisconnectOK
  <2> QED BY <2>1, <2>3 DEF Rest
<1>4. CASE Connect(x)
  <2>1. started \in KeepAlive => started \in Session
    BY ControllerAssumption
  <2>2. /\ pc'[x] = "unlock" /\ pc[x] = "connect" /\ controlMu' = controlMu
        /\ \A y \in Actor : y # x => pc'[y] \in {pc[y], "wait"}
        /\ \A y \in Caller \cup {Main} : y # x => pc'[y] = pc[y]
    BY <1>4, <2>1, ControllerAssumption DEF Connect
  <2>3. Exclusion'
    BY <2>2 DEF Exclusion, Held
  <2>4. NoOrphan' /\ DisconnectOK'
    BY <1>4, <2>2 DEF Connect, NoOrphan, DisconnectOK
  <2> QED BY <2>3, <2>4 DEF Rest
<1>5. CASE UnlockControl(x)
  <2>1. Exclusion'
    BY <1>5 DEF UnlockControl, Return, Exclusion, Held
  <2>2. NoOrphan' /\ DisconnectOK'
    BY <1>5 DEF UnlockControl, Return, NoOrphan, DisconnectOK
  <2> QED BY <2>1, <2>2 DEF Rest
<1>6. CASE Respond(x)
  <2>1. Exclusion'
    BY <1>6 DEF Respond, Exclusion, Held
  <2>2. NoOrphan' /\ DisconnectOK'
    BY <1>6 DEF Respond, NoOrphan, DisconnectOK
  <2> QED BY <2>1, <2>2 DEF Rest
<1> QED BY <1>1, <1>2, <1>3, <1>4, <1>5, <1>6, StartBackendStep, DisconnectStep DEF CallerStep

\* Main's places before and after its Disconnect.
LEMMA MainInvStep ==
  ASSUME ControllerInv, Signal \/ StopServer \/ Exit
  PROVE  Rest'
<1> USE ActorsDiffer DEF ControllerInv, ControllerTypeOK, Goto, ctlVars, ctxVars, actorVars
<1>1. PICK place \in {"stopping", "cancel", "exited"} :
        /\ pc' = [pc EXCEPT ![Main] = place]
        /\ place = "exited" => pc[Main] = "exit"
  BY DEF Signal, StopServer, Exit
<1>2. UNCHANGED <<ctlVars, controlMu, target>>
  BY DEF Signal, StopServer, Exit
<1>3. Exclusion'
  BY <1>1, <1>2 DEF Exclusion, Held
<1>4. NoOrphan' /\ DisconnectOK'
  BY <1>1, <1>2 DEF NoOrphan, DisconnectOK
<1> QED BY <1>3, <1>4 DEF Rest

LEMMA OtherInvStep ==
  ASSUME ControllerInv,
         \/ \E s \in Session : Tick(s) \/ ReadLastRequest(s) \/ TrackerDone(s)
         \/ \E r \in Request : RequestStep(r)
         \/ Timeout
  PROVE  Rest'
<1> USE ActorsDiffer DEF ControllerInv, ControllerTypeOK, Goto, ctlVars, ctxVars, actorVars
<1>1. ASSUME NEW s \in Session, Tick(s) \/ ReadLastRequest(s) \/ TrackerDone(s) PROVE Rest'
  <2>1. PICK place \in {"tick", "cancel", "wait", "done"} : pc' = [pc EXCEPT ![s] = place]
    BY <1>1 DEF Tick, ReadLastRequest, TrackerDone
  <2>2. UNCHANGED <<ctlVars, controlMu, target>>
    BY <1>1 DEF Tick, ReadLastRequest, TrackerDone
  <2>3. Exclusion'
    BY <2>1, <2>2 DEF Exclusion, Held
  <2>4. NoOrphan' /\ DisconnectOK'
    BY <2>1, <2>2 DEF NoOrphan, DisconnectOK
  <2> QED BY <2>3, <2>4 DEF Rest
<1>2. ASSUME (\E r \in Request : RequestStep(r)) \/ Timeout PROVE Rest'
  <2>1. UNCHANGED <<ctlVars, actorVars>>
    BY <1>2 DEF RequestStep, CheckBackend, CallBackend, NewRequest, Timeout
  <2> QED BY <2>1 DEF Rest, Exclusion, NoOrphan, DisconnectOK, Held
<1> QED BY <1>1, <1>2

LEMMA ControllerInvStep == ControllerInv /\ [Next]_vars => ControllerInv'
<1> SUFFICES ASSUME ControllerInv, [Next]_vars PROVE ControllerInv'
  OBVIOUS
<1>1. ControllerTypeOK'
  BY ControllerTypeStep DEF ControllerInv
<1>2. CASE UNCHANGED vars
  BY <1>1, <1>2 DEF vars, ctlVars, ctxVars, actorVars, ControllerInv, Exclusion, NoOrphan, DisconnectOK, Held
<1>3. CASE Next
  <2>1. Rest'
    BY <1>3, CallerInvStep, OtherInvStep, MainInvStep, DisconnectStep, ActorsDiffer DEF Next, TrackerStep, MainStep
  <2> QED BY <1>1, <2>1 DEF Rest, ControllerInv
<1> QED BY <1>2, <1>3

-----------------------------------------------------------------------------
\* The fields of Controller keep their types, whatever is tracked.
THEOREM ControllerTypeCorrect == Spec => []ControllerTypeOK
<1>1. Init => ControllerTypeOK
  BY ControllerInitInv DEF ControllerInv
<1> QED BY <1>1, ControllerTypeStep, PTL DEF Spec

\* A Start that takes control away shuts the previous backend down first: when
\* a backend starts, no other runs but the overtaking ones (rpc/base.go:14-20).
THEOREM TakeoverIsClean == Spec => TakeoverShutsDown
<1>1. ControllerInv /\ [Next]_vars => [started' # started => running \subseteq overtook]_vars
  <2> SUFFICES ASSUME ControllerInv, Next, started' # started PROVE running \subseteq overtook
    BY DEF vars, ctlVars
  <2>1. PICK x \in Caller : StartBackend(x)
    <3>1. \A x \in Actor : Disconnect(x) => UNCHANGED started
      BY DEF Disconnect, Cancel, ReadBackend, ShutdownBackend, ClearBackend, ctlVars
    <3>2. \A s \in Session : TrackerStep(s) => UNCHANGED started
      BY <3>1, ActorsDiffer DEF TrackerStep, Tick, ReadLastRequest, TrackerDone, ctlVars
    <3>3. \A r \in Request : RequestStep(r) => UNCHANGED started
      BY DEF RequestStep, CheckBackend, CallBackend, NewRequest, ctlVars
    <3>4. MainStep \/ Signal \/ Timeout => UNCHANGED started
      BY <3>1, ActorsDiffer DEF MainStep, Signal, StopServer, Exit, Timeout, ctlVars
    <3>5. \A x \in Caller : CallerStep(x) => StartBackend(x) \/ UNCHANGED started
      BY <3>1, ActorsDiffer
      DEF CallerStep, LockControl, CheckPrevious, Connect, UnlockControl, Respond, ctlVars
    <3>6. \A x \in Caller, o \in {"start", "stop"} : Receive(x, o) => UNCHANGED started
      BY DEF Receive, ctlVars
    <3> QED BY <3>2, <3>3, <3>4, <3>5, <3>6 DEF Next
  <2> QED BY <2>1 DEF StartBackend, ControllerInv, DisconnectOK
<1> QED BY <1>1, ControllerInitInv, ControllerInvStep, PTL DEF Spec, TakeoverShutsDown

\* Every backend that runs is the one c.backend names, so the next Start, Stop
\* or exit finds it, or overtook a Disconnect without controlMu
\* (controller.go:71-90).
THEOREM NoBackendForgotten == Spec => []NoOrphan
<1>1. ControllerInv => NoOrphan
  BY DEF ControllerInv
<1> QED BY <1>1, ControllerInitInv, ControllerInvStep, PTL DEF Spec

\* The deferred Disconnect of main leaves no backend behind but the overtaking
\* ones, though handlers may still run beside it (cmd/node/main.go:46-59).
THEOREM ExitIsClean == Spec => []CleanExit
<1>1. ControllerInv => CleanExit
  BY DEF ControllerInv, DisconnectOK, CleanExit
<1> QED BY <1>1, ControllerInitInv, ControllerInvStep, PTL DEF Spec
=============================================================================
