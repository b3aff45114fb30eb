------------------------------- MODULE Streams -------------------------------
(***************************************************************************)
(* The two kinds of requests that outlive a single step of the backend:    *)
(* the upload of users in chunks, and the streams that follow the log.     *)
(* Sessions begin and end meanwhile.  Ending one shuts its backend down    *)
(* first and clears the controller's pointer afterwards, and goroutines    *)
(* of a backend go on logging while and after it is shut down.             *)
(*                                                                         *)
(* External: the panel, which may repeat, skip and reorder the chunks of   *)
(* its plan, end early, or lose the connection.  Backends are WireGuard's; *)
(* Xray never closes its log channel.                                      *)
(***************************************************************************)
EXTENDS Naturals, Sequences, FiniteSets, SequencesExt

CONSTANTS
    Stream,         \* log streams
    User,           \* users as the panel sends them
    Plans,          \* uploads: sequences of chunks, a chunk being a list of users
    LogBufferSize,  \* capacity of a log channel
    MaxSessions,    \* bound: sessions
    MaxFrames       \* bound: chunks received in one upload

Sessions == 1..MaxSessions
None == 0           \* no session: a nil backend, a nil channel

ASSUME StreamsAssumption ==
    /\ LogBufferSize \in Nat /\ MaxSessions \in Nat /\ MaxFrames \in Nat
    /\ Plans \subseteq Seq(Seq(User))

VARIABLES
    backend,    \* c.backend: the session whose backend it is, or None
    started,    \* sessions whose backend is running
    begun,      \* number of sessions begun
    logChan,    \* of each session: lines in the channel, closed, and wg.logChan = nil
    panicked,   \* a goroutine has sent to a closed channel
    rd,         \* of each log stream: place, session, channel
    up          \* the upload

vars == <<backend, started, begun, logChan, panicked, rd, up>>
sessionVars == <<backend, started, begun>>
logVars == <<logChan, panicked>>

Init ==
    /\ backend = None /\ started = {} /\ begun = 0
    /\ logChan = [s \in Sessions |-> [buf |-> 0, closed |-> FALSE, isNil |-> TRUE]]
    /\ panicked = FALSE
    /\ rd = [r \in Stream |-> [at |-> "idle", session |-> None, chan |-> None]]
    /\ up = [at |-> "idle", kind |-> "rpc", plan |-> <<>>, chunks |-> <<>>, lastIndex |-> 0,
             sawLast |-> FALSE, frames |-> 0, users |-> <<>>, applied |-> FALSE]

----------------------------------------------------------------------------
(* Sessions                                                                *)

Start ==
    /\ backend = None /\ begun < MaxSessions
    /\ begun' = begun + 1 /\ backend' = begun + 1 /\ started' = started \cup {begun + 1}
    /\ logChan' = [logChan EXCEPT ![begun + 1].isNil = FALSE]
    /\ UNCHANGED <<panicked, rd, up>>

\* emitLogLocked: never waits, a full channel drops the line.
Sent(ch) == IF ch.buf < LogBufferSize THEN [ch EXCEPT !.buf = @ + 1] ELSE ch

emitLog(s) ==
    /\ s <= begun
    /\ IF logChan[s].isNil THEN UNCHANGED <<logChan, panicked>>
       ELSE IF logChan[s].closed THEN panicked' = TRUE /\ UNCHANGED logChan
       ELSE logChan' = [logChan EXCEPT ![s] = Sent(@)] /\ UNCHANGED panicked
    /\ UNCHANGED <<sessionVars, rd, up>>

\* Mutant: the closed channel stays where the loggers find it.
CloseKept(ch) == [Sent(ch) EXCEPT !.closed = TRUE]
\* Mutant: the channel is taken away and not closed.
CloseForgotten(ch) == [Sent(ch) EXCEPT !.isNil = TRUE]

CloseLogs(ch) == [Sent(ch) EXCEPT !.closed = TRUE, !.isNil = TRUE]

\* Disconnect, first half: Shutdown under wg.mu.
Shutdown ==
    /\ backend \in started
    /\ started' = started \ {backend}
    /\ logChan' = [logChan EXCEPT ![backend] = CloseLogs(@)]
    /\ UNCHANGED <<backend, begun, panicked, rd, up>>

\* Disconnect, second half.
ClearBackend ==
    /\ backend # None /\ backend \notin started
    /\ backend' = None
    /\ UNCHANGED <<started, begun, logVars, rd, up>>

----------------------------------------------------------------------------
(* Log streams                                                             *)

\* The middleware of both services: there is a backend, and it is started.
checkBackendStatus == backend # None /\ backend \in started

OpenLogs(r) ==
    /\ rd[r].at = "idle" /\ checkBackendStatus
    /\ rd' = [rd EXCEPT ![r].at = "handler"]
    /\ UNCHANGED <<sessionVars, logVars, up>>

\* GetLogs reads the backend again; nil by now, gRPC answers an error and the
\* REST handler panics, which its Recoverer answers.
GetLogs(r) ==
    /\ rd[r].at = "handler"
    /\ rd' = [rd EXCEPT ![r].at = IF backend = None THEN "ended" ELSE "logs", ![r].session = backend]
    /\ UNCHANGED <<sessionVars, logVars, up>>

\* Logs(): wg.logChan, read without a lock.
Logs(r) ==
    /\ rd[r].at = "logs"
    /\ rd' = [rd EXCEPT ![r].at = "loop",
                        ![r].chan = IF logChan[rd[r].session].isNil THEN None ELSE rd[r].session]
    /\ UNCHANGED <<sessionVars, logVars, up>>

\* A line, or the end of a closed channel.  A nil channel never has either.
Receive(r) ==
    /\ rd[r].at = "loop" /\ rd[r].chan # None
    /\ LET ch == logChan[rd[r].chan]
       IN  \/ /\ ch.buf > 0
              /\ logChan' = [logChan EXCEPT ![rd[r].chan].buf = @ - 1]
              /\ UNCHANGED rd
           \/ /\ ch.buf = 0 /\ ch.closed
              /\ rd' = [rd EXCEPT ![r].at = "ended"]
              /\ UNCHANGED logChan
    /\ UNCHANGED <<sessionVars, panicked, up>>

\* The client goes, or cannot be written to.
ClientGone(r) ==
    /\ rd[r].at = "loop"
    /\ rd' = [rd EXCEPT ![r].at = "ended"]
    /\ UNCHANGED <<sessionVars, logVars, up>>

----------------------------------------------------------------------------
(* Chunked upload                                                          *)

OpenUpload ==
    /\ up.at = "idle" /\ checkBackendStatus
    /\ \E k \in {"rest", "rpc"}, p \in Plans :
         up' = [up EXCEPT !.at = "receive", !.kind = k, !.plan = p, !.chunks = [i \in {} |-> <<>>]]
    /\ UNCHANGED <<sessionVars, logVars, rd>>

\* Over REST, a chunk of zero bytes is skipped: index 0, no users, not the last.
Skipped(i) == up.kind = "rest" /\ i = 0 /\ up.plan[1] = <<>> /\ Len(up.plan) > 1

\* A repeated index adds its users again, behind the ones it has.
StoreChunk(i, users, last) ==
    [up EXCEPT !.chunks = [j \in DOMAIN @ \cup {i} |-> (IF j \in DOMAIN @ THEN @[j] ELSE <<>>)
                                                      \o (IF j = i THEN users ELSE <<>>)],
               !.sawLast = last, !.lastIndex = IF last THEN i ELSE @,
               !.at = IF last THEN "build" ELSE @, !.frames = @ + 1]

\* Chunk i of the plan arrives; the last one ends the loop.
ReceiveChunk(i) ==
    /\ up.at = "receive" /\ up.frames < MaxFrames
    /\ up' = IF Skipped(i) THEN [up EXCEPT !.frames = @ + 1]
             ELSE StoreChunk(i, up.plan[i + 1], i + 1 = Len(up.plan))
    /\ UNCHANGED <<sessionVars, logVars, rd>>

\* The panel ends the stream, or a read fails and the handler returns.
ReceiveEnds ==
    /\ up.at = "receive"
    /\ \E at \in {"build", "failed"} : up' = [up EXCEPT !.at = at]
    /\ UNCHANGED <<sessionVars, logVars, rd>>

\* Mutant: a missing chunk is passed over.
ChunkMissingUnnoticed == FALSE

ChunkMissing == ~(0..up.lastIndex \subseteq DOMAIN up.chunks)

\* The chunks from 0 to the last index, in order.
InOrder ==
    FlattenSeq([k \in 1..(up.lastIndex + 1) |-> IF k - 1 \in DOMAIN up.chunks THEN up.chunks[k - 1] ELSE <<>>])

BuildUsersFromChunks ==
    /\ up.at = "build"
    /\ up' = IF ~up.sawLast \/ ChunkMissing \/ InOrder = <<>>
             THEN [up EXCEPT !.at = "failed"]
             ELSE [up EXCEPT !.at = "apply", !.users = InOrder]
    /\ UNCHANGED <<sessionVars, logVars, rd>>

\* The backend of now, which need not be the one the middleware saw, gets the
\* users in one UpdateUsers; nil, gRPC answers an error and REST panics.
ApplyChunkedUserUpdate ==
    /\ up.at = "apply"
    /\ up' = [up EXCEPT !.at = IF backend = None THEN "failed" ELSE "done", !.applied = backend # None]
    /\ UNCHANGED <<sessionVars, logVars, rd>>

----------------------------------------------------------------------------

Follow(r) == GetLogs(r) \/ Logs(r) \/ Receive(r)
Upload == BuildUsersFromChunks \/ ApplyChunkedUserUpdate

Next ==
    \/ Start \/ Shutdown \/ ClearBackend \/ (\E s \in Sessions : emitLog(s))
    \/ (\E r \in Stream : OpenLogs(r) \/ Follow(r) \/ ClientGone(r))
    \/ OpenUpload \/ (\E i \in 0..(Len(up.plan) - 1) : ReceiveChunk(i)) \/ ReceiveEnds \/ Upload

\* The goroutine of a stream runs when it can, and a client that is there takes
\* what it is sent.
Fairness == \A r \in Stream : WF_vars(Follow(r))

Spec == Init /\ [][Next]_vars /\ Fairness

----------------------------------------------------------------------------

\* The channels keep to their capacity, streams and upload are at a place of
\* their handler, a stream has the channel of its session if any, and what the
\* upload keeps are chunks of its plan.
StreamsTypeOK ==
    /\ backend \in Sessions \cup {None} /\ started \subseteq Sessions /\ begun \in 0..MaxSessions
    /\ logChan \in [Sessions -> [buf : 0..LogBufferSize, closed : BOOLEAN, isNil : BOOLEAN]]
    /\ rd \in [Stream -> [at : {"idle", "handler", "logs", "loop", "ended"},
                         session : Sessions \cup {None}, chan : Sessions \cup {None}]]
    /\ \A r \in Stream : rd[r].chan \in {None, rd[r].session}
    /\ up.at \in {"idle", "receive", "build", "apply", "done", "failed"}
    /\ up.frames \in 0..MaxFrames
    /\ DOMAIN up.chunks \subseteq 0..(Len(up.plan) - 1)
    /\ \A i \in DOMAIN up.chunks : up.chunks[i] \in Seq(User)
    /\ up.sawLast => up.lastIndex \in DOMAIN up.chunks

\* Syncs and the stats loop log while Shutdown closes the channel they log to
\* (wireguard.go:354, log.go:48): none of them ever sends to a closed channel,
\* which would take the node down.
NeverSendsOnClosed == ~panicked

Entry(list, e) == SelectLastInSubSeq(list, 1, Len(list), LAMBDA u : u.email = e)
Emails(list) == {list[k].email : k \in DOMAIN list}

\* Whatever the panel repeats, skips, reorders or cuts off: an upload reaches
\* the backend with every user of the plan and the last word of the plan on
\* each of them, or it does not reach the backend at all (users_chunk.go:18).
UploadIsWhole ==
    up.applied =>
        LET plan == FlattenSeq(up.plan)
        IN  /\ Emails(up.users) = Emails(plan)
            /\ \A e \in Emails(plan) : up.users[Entry(up.users, e)] = plan[Entry(plan, e)]

\* "The channel is closed when Shutdown is called; callers ... naturally stop
\* reading once it is closed" (wireguard.go:229): a stream that has the channel
\* of a backend that is shut down sends what is left in it and ends.
LogStreamsEnd ==
    \A r \in Stream : (rd[r].at = "loop" /\ rd[r].chan # None /\ rd[r].chan \notin started) ~> rd[r].at = "ended"

============================================================================
