----------------------------- MODULE StreamsProofs -----------------------------
(***************************************************************************)
(* No goroutine sends to a closed log channel, and an upload that reaches  *)
(* the backend holds every chunk of its plan, whatever was repeated and in *)
(* whatever order; for any number of sessions, streams and frames and for  *)
(* every plan.                                                             *)
(*                                                                         *)
(* The users of the chunks one after the other are those of the plan, with *)
(* the same last word on each, by induction over the chunks: LastWord is   *)
(* what a list means to the backend, and repetitions do not change it.     *)
(***************************************************************************)
EXTENDS Streams, SequenceTheorems, WellFoundedInduction, TLAPS

UpFields ==
    {"at", "kind", "plan", "chunks", "lastIndex", "sawLast", "frames", "users", "applied"}

\* What StreamsTypeOK leaves out because no property needs it.
UploadShape ==
    /\ DOMAIN up = UpFields
    /\ up.plan \in Seq(Seq(User)) /\ up.kind \in {"rest", "rpc"}
    /\ up.lastIndex \in Nat /\ up.sawLast \in BOOLEAN /\ up.applied \in BOOLEAN

\* A backend has begun before it runs, and its channel is taken away from the
\* loggers in the step that closes it.  A stream has no channel before Logs().
ChannelsOK ==
    /\ backend <= begun
    /\ \A s \in started : s <= begun /\ ~logChan[s].isNil
    /\ \A s \in Sessions : logChan[s].closed => logChan[s].isNil /\ s <= begun
    /\ ~panicked
    /\ \A r \in Stream : rd[r].at \in {"idle", "handler", "logs"} => rd[r].chan = None

\* A list that is made of the users of a chunk and ends with that chunk.
Repeats(list, chunk) ==
    /\ Len(chunk) <= Len(list)
    /\ \A k \in 1..Len(chunk) : list[Len(list) - Len(chunk) + k] = chunk[k]
    /\ \A k \in 1..Len(list) : \E m \in 1..Len(chunk) : list[k] = chunk[m]

\* What is kept under an index are repetitions of that chunk of the plan, and
\* the last chunk was seen when the last index was stored.
ChunksOK ==
    /\ \A i \in DOMAIN up.chunks : Repeats(up.chunks[i], up.plan[i + 1])
    /\ up.sawLast => up.lastIndex + 1 = Len(up.plan)
    /\ up.at \in {"idle", "receive"} => ~up.sawLast
    /\ up.applied => up.at = "done"

\* An upload gets to the backend with the chunks of its plan in their order,
\* every one of them there and none with users of another: a chunk sent twice
\* has its users twice and still ends with the chunk as sent
\* (users_chunk.go:18).
UploadHasEveryChunk ==
    up.at \in {"apply", "done"} \/ up.applied =>
        /\ up.users = InOrder
        /\ up.lastIndex + 1 = Len(up.plan)
        /\ DOMAIN up.chunks = 0..up.lastIndex
        /\ \A i \in 0..up.lastIndex : Repeats(up.chunks[i], up.plan[i + 1])

\* The inductive invariant.
StreamsInv == StreamsTypeOK /\ UploadShape /\ ChannelsOK /\ ChunksOK /\ UploadHasEveryChunk

--------------------------------------------------------------------------------
\* The part of the invariant that sessions and log streams can disturb, and the
\* part that the upload can.
SessionPart ==
    /\ backend \in Sessions \cup {None} /\ started \subseteq Sessions /\ begun \in 0..MaxSessions
    /\ logChan \in [Sessions -> [buf : 0..LogBufferSize, closed : BOOLEAN, isNil : BOOLEAN]]
    /\ rd \in [Stream -> [at : {"idle", "handler", "logs", "loop", "ended"},
                         session : Sessions \cup {None}, chan : Sessions \cup {None}]]
    /\ \A r \in Stream : rd[r].chan \in {None, rd[r].session}
    /\ ChannelsOK

UploadType ==
    /\ up.at \in {"idle", "receive", "build", "apply", "done", "failed"}
    /\ up.frames \in 0..MaxFrames
    /\ DOMAIN up.chunks \subseteq 0..(Len(up.plan) - 1)
    /\ \A i \in DOMAIN up.chunks : up.chunks[i] \in Seq(User)
    /\ up.sawLast => up.lastIndex \in DOMAIN up.chunks

UploadPart == UploadShape /\ UploadType /\ ChunksOK /\ UploadHasEveryChunk

LEMMA TwoParts == StreamsInv <=> SessionPart /\ UploadPart
BY DEF StreamsInv, StreamsTypeOK, SessionPart, UploadPart, UploadType

\* A line more in a channel keeps to its capacity.
LEMMA SentKeeps ==
  ASSUME NEW ch \in [buf : 0..LogBufferSize, closed : BOOLEAN, isNil : BOOLEAN]
  PROVE  /\ Sent(ch) \in [buf : 0..LogBufferSize, closed : BOOLEAN, isNil : BOOLEAN]
         /\ Sent(ch).closed = ch.closed /\ Sent(ch).isNil = ch.isNil
BY StreamsAssumption DEF Sent

\* A list followed by the chunk once more still repeats the chunk.
LEMMA RepeatOnce ==
  ASSUME NEW list \in Seq(User), NEW chunk \in Seq(User)
  PROVE  /\ list \o chunk \in Seq(User)
         /\ Repeats(list, chunk) => Repeats(list \o chunk, chunk)
         /\ Repeats(<<>> \o chunk, chunk)
<1>1. list \o chunk \in Seq(User) /\ Len(list \o chunk) = Len(list) + Len(chunk)
  OBVIOUS
<1>2. \A k \in 1..Len(chunk) : (list \o chunk)[Len(list) + k] = chunk[k]
  OBVIOUS
<1>3. \A k \in 1..Len(list) : (list \o chunk)[k] = list[k]
  OBVIOUS
<1>4. ASSUME Repeats(list, chunk), NEW k \in 1..Len(list \o chunk)
      PROVE  \E m \in 1..Len(chunk) : (list \o chunk)[k] = chunk[m]
  <2>1. CASE k <= Len(list)
    BY <1>1, <1>3, <1>4, <2>1 DEF Repeats
  <2>2. CASE k > Len(list)
    <3>1. k - Len(list) \in 1..Len(chunk) /\ k = Len(list) + (k - Len(list))
      BY <1>1, <2>2
    <3> QED  BY <1>2, <3>1
  <2> QED  BY <1>1, <2>1, <2>2
<1>5. Repeats(list, chunk) => Repeats(list \o chunk, chunk)
  <2> HAVE Repeats(list, chunk)
  <2>1. \A k \in 1..Len(chunk) : Len(list \o chunk) - Len(chunk) + k = Len(list) + k
    BY <1>1
  <2> QED  BY <1>1, <1>2, <1>4, <2>1 DEF Repeats
<1>6. <<>> \o chunk = chunk
  OBVIOUS
<1>7. Repeats(chunk, chunk)
  BY DEF Repeats
<1> QED  BY <1>1, <1>5, <1>6, <1>7

--------------------------------------------------------------------------------
LEMMA StreamsInitInv == Init => StreamsInv
<1> SUFFICES ASSUME Init PROVE SessionPart /\ UploadPart
  BY TwoParts
<1> USE DEF Init
<1>1. SessionPart
  BY StreamsAssumption DEF SessionPart, ChannelsOK, Sessions, None
<1>2. DOMAIN up.chunks = {} /\ up.at = "idle" /\ ~up.sawLast /\ ~up.applied
  OBVIOUS
<1>3. UploadShape
  BY DEF UploadShape, UpFields
<1>4. UploadPart
  BY <1>2, <1>3, StreamsAssumption DEF UploadPart, UploadType, ChunksOK, UploadHasEveryChunk
<1> QED  BY <1>1, <1>4

\* The steps of sessions, loggers and log streams.
LEMMA SessionSteps ==
  ASSUME SessionPart,
         \/ Start \/ Shutdown \/ ClearBackend \/ \E s \in Sessions : emitLog(s)
         \/ \E r \in Stream : OpenLogs(r) \/ Follow(r) \/ ClientGone(r)
  PROVE  SessionPart' /\ up' = up
<1> USE StreamsAssumption DEF SessionPart, Sessions, None, sessionVars, logVars
<1>1. CASE Start
  <2>1. /\ begun + 1 \in Sessions /\ begun' = begun + 1 /\ backend' = begun + 1
        /\ started' = started \cup {begun + 1} /\ UNCHANGED <<panicked, rd, up>>
        /\ logChan' = [logChan EXCEPT ![begun + 1].isNil = FALSE]
    BY <1>1 DEF Start
  <2>2. ~logChan[begun + 1].closed
    BY <2>1 DEF ChannelsOK
  <2>3. /\ logChan' \in [Sessions -> [buf : 0..LogBufferSize, closed : BOOLEAN, isNil : BOOLEAN]]
        /\ ~logChan'[begun + 1].closed /\ ~logChan'[begun + 1].isNil
        /\ \A s \in Sessions : s # begun + 1 => logChan'[s] = logChan[s]
    BY <2>1, <2>2, ZenonT(30)
  <2>4. ChannelsOK'
    BY <2>1, <2>3 DEF ChannelsOK
  <2> QED  BY <2>1, <2>3, <2>4, SMTT(30)
<1>2. CASE Shutdown
  <2>1. backend \in Sessions /\ backend \in started /\ backend <= begun
    BY <1>2 DEF Shutdown, ChannelsOK
  <2> DEFINE ch == logChan[backend]
  <2>2. /\ CloseLogs(ch) \in [buf : 0..LogBufferSize, closed : BOOLEAN, isNil : BOOLEAN]
        /\ CloseLogs(ch).isNil
    <3>1. ch \in [buf : 0..LogBufferSize, closed : BOOLEAN, isNil : BOOLEAN]
      BY <2>1
    <3>2. Sent(ch) \in [buf : 0..LogBufferSize, closed : BOOLEAN, isNil : BOOLEAN]
      BY <3>1, SentKeeps
    <3> QED  BY <3>2 DEF CloseLogs
  <2>3. logChan' = [logChan EXCEPT ![backend] = CloseLogs(ch)]
    BY <1>2 DEF Shutdown
  <2> HIDE DEF ch
  <2>4. ChannelsOK'
    BY <1>2, <2>1, <2>2, <2>3 DEF Shutdown, ChannelsOK
  <2> QED  BY <1>2, <2>1, <2>2, <2>3, <2>4 DEF Shutdown
<1>3. CASE ClearBackend
  BY <1>3 DEF ClearBackend, ChannelsOK
<1>4. ASSUME NEW s \in Sessions, emitLog(s) PROVE SessionPart' /\ up' = up
  <2>1. CASE logChan[s].isNil
    BY <1>4, <2>1 DEF emitLog, ChannelsOK
  <2>2. CASE ~logChan[s].isNil
    <3>1. ~logChan[s].closed
      BY <2>2 DEF ChannelsOK
    <3>2. /\ logChan' = [logChan EXCEPT ![s] = Sent(logChan[s])]
          /\ UNCHANGED <<panicked, backend, started, begun, rd, up>>
      BY <1>4, <2>2, <3>1 DEF emitLog
    <3>3. /\ Sent(logChan[s]) \in [buf : 0..LogBufferSize, closed : BOOLEAN, isNil : BOOLEAN]
          /\ Sent(logChan[s]).closed = logChan[s].closed /\ Sent(logChan[s]).isNil = logChan[s].isNil
      BY SentKeeps
    <3>4. ChannelsOK'
      BY <3>1, <3>2, <3>3, <2>2 DEF ChannelsOK
    <3> QED  BY <3>2, <3>3, <3>4
  <2> QED  BY <2>1, <2>2
<1>5. ASSUME NEW r \in Stream, OpenLogs(r) \/ GetLogs(r) \/ Logs(r) \/ ClientGone(r)
      PROVE  SessionPart' /\ up' = up
  <2>1. UNCHANGED <<backend, started, begun, logChan, panicked, up>>
    BY <1>5 DEF OpenLogs, GetLogs, Logs, ClientGone
  <2>2. /\ rd' \in [Stream -> [at : {"idle", "handler", "logs", "loop", "ended"},
                             session : Sessions \cup {None}, chan : Sessions \cup {None}]]
        /\ \A q \in Stream : rd'[q].chan \in {None, rd'[q].session}
        /\ \A q \in Stream : rd'[q].at \in {"idle", "handler", "logs"} => rd'[q].chan = None
    <3> USE DEF ChannelsOK
    <3>1. CASE OpenLogs(r)
      <4>1. rd' = [rd EXCEPT ![r].at = "handler"] /\ rd[r].at = "idle"
        BY <3>1 DEF OpenLogs
      <4>2. rd'[r] = [rd[r] EXCEPT !.at = "handler"] /\ \A q \in Stream : q # r => rd'[q] = rd[q]
        BY <4>1
      <4> QED  BY <4>1, <4>2
    <3>2. CASE GetLogs(r)
      <4> DEFINE place == IF backend = None THEN "ended" ELSE "logs"
      <4>1. rd' = [rd EXCEPT ![r].at = place, ![r].session = backend] /\ rd[r].at = "handler"
        BY <3>2 DEF GetLogs
      <4>2. place \in {"ended", "logs"}
        OBVIOUS
      <4> HIDE DEF place
      <4>3. /\ rd'[r] = [rd[r] EXCEPT !.at = place, !.session = backend]
            /\ \A q \in Stream : q # r => rd'[q] = rd[q]
            /\ DOMAIN rd' = Stream /\ rd' = [q \in Stream |-> rd'[q]]
        BY <4>1
      <4>4. /\ rd'[r].chan = None /\ rd'[r].at = place
            /\ rd'[r] \in [at : {"idle", "handler", "logs", "loop", "ended"},
                           session : Sessions \cup {None}, chan : Sessions \cup {None}]
        BY <4>1, <4>2, <4>3
      <4>5. \A q \in Stream : q # r => rd'[q] = rd[q]
        BY <4>3
      <4>6. rd' \in [Stream -> [at : {"idle", "handler", "logs", "loop", "ended"},
                               session : Sessions \cup {None}, chan : Sessions \cup {None}]]
        BY <4>3, <4>4, ZenonT(30)
      <4> QED  BY <4>4, <4>5, <4>6
    <3>3. CASE Logs(r)
      <4> DEFINE c == IF logChan[rd[r].session].isNil THEN None ELSE rd[r].session
      <4>1. rd' = [rd EXCEPT ![r].at = "loop", ![r].chan = c]
        BY <3>3 DEF Logs
      <4>2. c \in {None, rd[r].session} /\ c \in Sessions \cup {None}
        OBVIOUS
      <4> HIDE DEF c
      <4>3. /\ rd'[r] = [rd[r] EXCEPT !.at = "loop", !.chan = c]
            /\ \A q \in Stream : q # r => rd'[q] = rd[q]
            /\ DOMAIN rd' = Stream /\ rd' = [q \in Stream |-> rd'[q]]
        BY <4>1
      <4>4. /\ rd'[r].chan \in {None, rd'[r].session} /\ rd'[r].at = "loop"
            /\ rd'[r] \in [at : {"idle", "handler", "logs", "loop", "ended"},
                           session : Sessions \cup {None}, chan : Sessions \cup {None}]
        <5>1. /\ rd'[r].chan = c /\ rd'[r].at = "loop" /\ rd'[r].session = rd[r].session
              /\ DOMAIN rd'[r] = {"at", "session", "chan"}
          BY <4>3
        <5>2. rd'[r] \in [at : {"idle", "handler", "logs", "loop", "ended"},
                          session : Sessions \cup {None}, chan : Sessions \cup {None}]
          <6>1. rd[r] \in [at : {"idle", "handler", "logs", "loop", "ended"},
                           session : Sessions \cup {None}, chan : Sessions \cup {None}]
            OBVIOUS
          <6> HIDE DEF SessionPart, Sessions, None
          <6> QED  BY <4>2, <4>3, <6>1
        <5> QED  BY <4>2, <5>1, <5>2
      <4>5. \A q \in Stream : q # r => rd'[q] = rd[q]
        BY <4>3
      <4>6. rd' \in [Stream -> [at : {"idle", "handler", "logs", "loop", "ended"},
                               session : Sessions \cup {None}, chan : Sessions \cup {None}]]
        BY <4>3, <4>4, ZenonT(30)
      <4> QED  BY <4>4, <4>5, <4>6
    <3>4. CASE ClientGone(r)  BY <3>4 DEF ClientGone
    <3> QED  BY <1>5, <3>1, <3>2, <3>3, <3>4
  <2>3. ChannelsOK'
    BY <2>1, <2>2 DEF ChannelsOK
  <2> QED  BY <2>1, <2>2, <2>3
<1>6. ASSUME NEW r \in Stream, Receive(r) PROVE SessionPart' /\ up' = up
  <2> DEFINE c == rd[r].chan
  <2>1. c \in Sessions /\ UNCHANGED <<panicked, backend, started, begun, up>>
    BY <1>6 DEF Receive
  <2>2. CASE /\ logChan[c].buf > 0
             /\ logChan' = [logChan EXCEPT ![c].buf = @ - 1] /\ rd' = rd
    <3>1. /\ logChan' \in [Sessions -> [buf : 0..LogBufferSize, closed : BOOLEAN, isNil : BOOLEAN]]
          /\ \A s \in Sessions : /\ logChan'[s].closed = logChan[s].closed
                                /\ logChan'[s].isNil = logChan[s].isNil
      <4>1. logChan[c].buf - 1 \in 0..LogBufferSize
        BY <2>1, <2>2
      <4> HIDE DEF c
      <4> QED  BY <2>1, <2>2, <4>1
    <3>2. ChannelsOK'
      BY <2>1, <2>2, <3>1 DEF ChannelsOK
    <3> QED  BY <2>1, <2>2, <3>1, <3>2
  <2>3. CASE rd' = [rd EXCEPT ![r].at = "ended"] /\ logChan' = logChan
    BY <2>1, <2>3 DEF ChannelsOK
  <2> QED  BY <1>6, <2>2, <2>3 DEF Receive
<1> QED  BY <1>1, <1>2, <1>3, <1>4, <1>5, <1>6 DEF Follow

\* A chunk that arrives.
LEMMA ChunkArrives ==
  ASSUME UploadPart, NEW i \in 0..(Len(up.plan) - 1), ReceiveChunk(i)
  PROVE  UploadPart'
<1> DEFINE users == up.plan[i + 1]
           last == i + 1 = Len(up.plan)
           old(j) == IF j \in DOMAIN up.chunks THEN up.chunks[j] ELSE <<>>
<1> USE DEF UploadShape, UpFields
<1>1. /\ up.at = "receive" /\ up.frames < MaxFrames /\ ~up.sawLast /\ ~up.applied
      /\ users \in Seq(User) /\ up.plan \in Seq(Seq(User)) /\ i \in Nat
  BY DEF UploadPart, UploadType, ChunksOK, UploadHasEveryChunk, ReceiveChunk, InOrder
<1>2. CASE Skipped(i)
  <2>1. up' = [up EXCEPT !.frames = @ + 1]
    BY <1>2 DEF ReceiveChunk
  <2>2. /\ DOMAIN up' = UpFields /\ up'.frames = up.frames + 1
        /\ up'.at = up.at /\ up'.kind = up.kind /\ up'.plan = up.plan /\ up'.chunks = up.chunks
        /\ up'.lastIndex = up.lastIndex /\ up'.sawLast = up.sawLast /\ up'.applied = up.applied
    BY <2>1 DEF UploadPart
  <2>3. UploadShape' /\ UploadType' /\ ChunksOK' /\ UploadHasEveryChunk'
    BY <1>1, <2>2, StreamsAssumption DEF UploadPart, UploadType, ChunksOK, UploadHasEveryChunk
  <2> QED  BY <2>3 DEF UploadPart
<1>3. CASE ~Skipped(i)
  <2>1. up' = StoreChunk(i, users, last)
    BY <1>3 DEF ReceiveChunk
  <2>2. /\ DOMAIN up' = UpFields /\ up'.frames = up.frames + 1
        /\ up'.at = (IF last THEN "build" ELSE "receive")
        /\ up'.kind = up.kind /\ up'.plan = up.plan
        /\ up'.lastIndex = (IF last THEN i ELSE up.lastIndex)
        /\ up'.sawLast = last /\ up'.applied = up.applied
    BY <1>1, <2>1 DEF UploadPart, StoreChunk
  <2>3. up'.chunks = [j \in DOMAIN up.chunks \cup {i} |-> old(j) \o (IF j = i THEN users ELSE <<>>)]
    BY <2>1 DEF UploadPart, StoreChunk
  <2>4. DOMAIN up'.chunks = DOMAIN up.chunks \cup {i}
    BY <2>3
  <2>5. up'.chunks[i] = old(i) \o users
    BY <2>3
  <2>6. \A j \in DOMAIN up.chunks : j # i => up'.chunks[j] = up.chunks[j] \o <<>>
    BY <2>3
  <2>7. \A j \in DOMAIN up.chunks : j # i => up'.chunks[j] = up.chunks[j]
    BY <2>6 DEF UploadPart, UploadType
  <2>8. up'.chunks[i] \in Seq(User) /\ Repeats(up'.chunks[i], users)
    <3>1. CASE i \in DOMAIN up.chunks
      <4>1. up.chunks[i] \in Seq(User) /\ Repeats(up.chunks[i], users)
        BY <3>1 DEF UploadPart, UploadType, ChunksOK
      <4>2. up'.chunks[i] = up.chunks[i] \o users
        BY <2>5, <3>1
      <4> HIDE DEF users
      <4> QED  BY <1>1, <4>1, <4>2, RepeatOnce
    <3>2. CASE i \notin DOMAIN up.chunks
      <4>1. up'.chunks[i] = <<>> \o users /\ <<>> \in Seq(User)
        BY <2>5, <3>2
      <4> HIDE DEF users
      <4> QED  BY <1>1, <4>1, RepeatOnce
    <3> QED  BY <3>1, <3>2
  <2> HIDE DEF old
  <2>9. UploadShape'
    BY <1>1, <2>2 DEF UploadPart
  <2>10. UploadType'
    BY <1>1, <2>2, <2>4, <2>7, <2>8, StreamsAssumption DEF UploadPart, UploadType
  <2>11. ChunksOK'
    BY <1>1, <2>2, <2>4, <2>7, <2>8 DEF UploadPart, UploadType, ChunksOK
  <2>12. UploadHasEveryChunk'
    BY <1>1, <2>2 DEF UploadHasEveryChunk
  <2> QED  BY <2>9, <2>10, <2>11, <2>12 DEF UploadPart
<1> QED  BY <1>2, <1>3

\* The other steps of an upload.
LEMMA UploadSteps ==
  ASSUME UploadPart,
         OpenUpload \/ ReceiveEnds \/ Upload
  PROVE  UploadPart'
<1> USE DEF UploadShape, UpFields
<1>1. CASE OpenUpload
  <2>1. PICK k \in {"rest", "rpc"}, p \in Plans :
          up' = [up EXCEPT !.at = "receive", !.kind = k, !.plan = p, !.chunks = [i \in {} |-> <<>>]]
    BY <1>1 DEF OpenUpload
  <2>2. up.at = "idle" /\ ~up.sawLast /\ ~up.applied
    BY <1>1 DEF OpenUpload, UploadPart, ChunksOK, UploadHasEveryChunk
  <2>3. /\ DOMAIN up' = UpFields /\ up'.at = "receive" /\ up'.kind = k /\ up'.plan = p
        /\ up'.frames = up.frames /\ DOMAIN up'.chunks = {}
        /\ up'.lastIndex = up.lastIndex /\ up'.sawLast = up.sawLast /\ up'.applied = up.applied
    BY <2>1 DEF UploadPart
  <2> QED
    BY <2>2, <2>3, StreamsAssumption DEF UploadPart, UploadType, ChunksOK, UploadHasEveryChunk
<1>2. CASE ReceiveEnds
  <2>1. PICK at \in {"build", "failed"} : up' = [up EXCEPT !.at = at]
    BY <1>2 DEF ReceiveEnds
  <2>2. up.at = "receive" /\ ~up.sawLast /\ ~up.applied
    BY <1>2 DEF ReceiveEnds, UploadPart, ChunksOK, UploadHasEveryChunk
  <2>3. /\ DOMAIN up' = UpFields /\ up'.at = at /\ up'.kind = up.kind /\ up'.plan = up.plan
        /\ up'.frames = up.frames /\ up'.chunks = up.chunks
        /\ up'.lastIndex = up.lastIndex /\ up'.sawLast = up.sawLast /\ up'.applied = up.applied
    BY <2>1 DEF UploadPart
  <2> QED
    BY <2>2, <2>3 DEF UploadPart, UploadType, ChunksOK, UploadHasEveryChunk
<1>3. CASE BuildUsersFromChunks
  <2>1. /\ up.at = "build" /\ DOMAIN up = UpFields
    BY <1>3 DEF BuildUsersFromChunks, UploadPart
  <2>2. CASE ~up.sawLast \/ ChunkMissing \/ InOrder = <<>>
    <3>1. up' = [up EXCEPT !.at = "failed"]
      BY <1>3, <2>2 DEF BuildUsersFromChunks
    <3>2. /\ DOMAIN up' = UpFields /\ up'.at = "failed" /\ up'.kind = up.kind /\ up'.plan = up.plan
          /\ up'.frames = up.frames /\ up'.chunks = up.chunks /\ up'.users = up.users
          /\ up'.lastIndex = up.lastIndex /\ up'.sawLast = up.sawLast /\ up'.applied = up.applied
      BY <2>1, <3>1
    <3>3. InOrder' = InOrder
      BY <3>2 DEF InOrder
    <3> QED
      BY <2>1, <3>2, <3>3 DEF UploadPart, UploadType, ChunksOK, UploadHasEveryChunk
  <2>3. CASE up.sawLast /\ ~ChunkMissing /\ InOrder # <<>>
    <3>1. up' = [up EXCEPT !.at = "apply", !.users = InOrder]
      BY <1>3, <2>3 DEF BuildUsersFromChunks
    <3>2. /\ DOMAIN up' = UpFields /\ up'.at = "apply" /\ up'.kind = up.kind /\ up'.plan = up.plan
          /\ up'.frames = up.frames /\ up'.chunks = up.chunks /\ up'.users = InOrder
          /\ up'.lastIndex = up.lastIndex /\ up'.sawLast = up.sawLast /\ up'.applied = up.applied
      BY <2>1, <3>1
    <3>3. InOrder' = InOrder
      BY <3>2 DEF InOrder
    <3>4. up.lastIndex + 1 = Len(up.plan) /\ DOMAIN up.chunks = 0..up.lastIndex
      <4>1. up.lastIndex + 1 = Len(up.plan) /\ up.lastIndex \in Nat
        BY <2>3 DEF UploadPart, ChunksOK
      <4>2. 0..(Len(up.plan) - 1) = 0..up.lastIndex
        BY <4>1
      <4> QED
        BY <2>3, <4>1, <4>2 DEF ChunkMissing, UploadPart, UploadType
    <3>5. UploadHasEveryChunk'
      BY <3>2, <3>3, <3>4 DEF UploadPart, ChunksOK, UploadHasEveryChunk
    <3> QED
      BY <2>1, <3>2, <3>5 DEF UploadPart, UploadType, ChunksOK
  <2> QED  BY <2>2, <2>3
<1>4. CASE ApplyChunkedUserUpdate
  <2>1. /\ up.at = "apply" /\ DOMAIN up = UpFields
        /\ up' = [up EXCEPT !.at = IF backend = None THEN "failed" ELSE "done", !.applied = backend # None]
    BY <1>4 DEF ApplyChunkedUserUpdate, UploadPart
  <2>2. /\ DOMAIN up' = UpFields /\ up'.at \in {"done", "failed"}
        /\ up'.kind = up.kind /\ up'.plan = up.plan
        /\ up'.frames = up.frames /\ up'.chunks = up.chunks /\ up'.users = up.users
        /\ up'.lastIndex = up.lastIndex /\ up'.sawLast = up.sawLast /\ up'.applied \in BOOLEAN
    BY <2>1
  <2>3. InOrder' = InOrder
    BY <2>2 DEF InOrder
  <2> QED
    BY <2>1, <2>2, <2>3 DEF UploadPart, UploadType, ChunksOK, UploadHasEveryChunk
<1> QED  BY <1>1, <1>2, <1>3, <1>4 DEF Upload

LEMMA StreamsNextInv == StreamsInv /\ [Next]_vars => StreamsInv'
<1> SUFFICES ASSUME SessionPart, UploadPart, [Next]_vars PROVE SessionPart' /\ UploadPart'
  BY DEF StreamsInv, StreamsTypeOK, SessionPart, UploadPart, UploadType
<1>1. CASE \/ Start \/ Shutdown \/ ClearBackend \/ \E s \in Sessions : emitLog(s)
           \/ \E r \in Stream : OpenLogs(r) \/ Follow(r) \/ ClientGone(r)
  <2>1. SessionPart' /\ up' = up
    BY <1>1, SessionSteps
  <2> QED
    BY <2>1 DEF UploadPart, UploadShape, UploadType, ChunksOK, UploadHasEveryChunk, InOrder
<1>2. CASE \/ OpenUpload \/ ReceiveEnds \/ Upload
           \/ \E i \in 0..(Len(up.plan) - 1) : ReceiveChunk(i)
  <2>1. UNCHANGED <<backend, started, begun, logChan, panicked, rd>>
    BY <1>2 DEF OpenUpload, ReceiveEnds, Upload, BuildUsersFromChunks, ApplyChunkedUserUpdate,
                ReceiveChunk, sessionVars, logVars
  <2>2. SessionPart'
    BY <2>1 DEF SessionPart, ChannelsOK
  <2>3. UploadPart'
    BY <1>2, UploadSteps, ChunkArrives
  <2> QED  BY <2>2, <2>3
<1>3. CASE UNCHANGED vars
  BY <1>3 DEF vars, SessionPart, ChannelsOK, UploadPart, UploadShape, UploadType, ChunksOK,
              UploadHasEveryChunk, InOrder
<1> QED  BY <1>1, <1>2, <1>3 DEF Next

LEMMA StreamsInvariant == Spec => []StreamsInv
BY StreamsInitInv, StreamsNextInv, PTL DEF Spec

--------------------------------------------------------------------------------
\* Channels keep to their capacity, and streams and upload to their handlers
\* and to the plan, for every number of sessions and streams (log.go:48).
THEOREM StreamsTypeCorrect == Spec => []StreamsTypeOK
<1>1. StreamsInv => StreamsTypeOK
  BY DEF StreamsInv
<1> QED  BY <1>1, StreamsInvariant, PTL

\* However loggers, Shutdown and new sessions interleave, nothing is ever sent
\* to a closed log channel: Shutdown closes the channel and forgets it in one
\* step of wg.mu (wireguard.go:354, log.go:48).
THEOREM NoSendOnClosed == Spec => []NeverSendsOnClosed
<1>1. StreamsInv => NeverSendsOnClosed
  BY DEF StreamsInv, ChannelsOK, NeverSendsOnClosed
<1> QED  BY <1>1, StreamsInvariant, PTL

\* For every plan and every order, repetition and loss of its chunks: what gets
\* to the backend is made of every chunk of the plan (users_chunk.go:18).
THEOREM UploadsAreComplete == Spec => []UploadHasEveryChunk
<1>1. StreamsInv => UploadHasEveryChunk
  BY DEF StreamsInv
<1> QED  BY <1>1, StreamsInvariant, PTL
--------------------------------------------------------------------------------
(* The users of the chunks one after the other.                               *)

\* u is the last word of the list on its email.
LastWord(list, u) ==
    \E k \in DOMAIN list : list[k] = u /\ \A j \in DOMAIN list : j > k => list[j].email # u.email

\* Two lists that mean the same to the backend.
SameWords(a, b) ==
    /\ Emails(a) = Emails(b)
    /\ \A u \in User : LastWord(a, u) <=> LastWord(b, u)

\* A set of natural numbers with 0 and all successors of its elements.
LEMMA NatInductionBySet ==
  ASSUME NEW S \in SUBSET Nat, 0 \in S, \A n \in S : n + 1 \in S
  PROVE  S = Nat
<1> SUFFICES ASSUME Nat \ S # {} PROVE FALSE
  OBVIOUS
<1> DEFINE R == OpToRel(<, Nat)
<1>1. IsWellFoundedOn(R, Nat)
  BY NatLessThanWellFounded
<1> HIDE DEF R
<1>2. (Nat \ S) \subseteq Nat
  OBVIOUS
<1>3. \E x \in Nat \ S : \A y \in Nat \ S : ~ (<<y, x>> \in R)
  BY <1>1, <1>2, WFMin
<1>4. PICK x \in Nat \ S : \A y \in Nat \ S : ~ (<<y, x>> \in R)
  BY <1>3
<1>5. x # 0 /\ x - 1 \in Nat /\ (x - 1) + 1 = x /\ x - 1 < x
  OBVIOUS
<1>6. <<x - 1, x>> \in R
  BY <1>5 DEF R, OpToRel
<1> QED  BY <1>4, <1>5, <1>6

\* The last word of a concatenation is that of its second part, if that part
\* says anything.
LEMMA LastOfTwo ==
  ASSUME NEW a \in Seq(User), NEW c \in Seq(User)
  PROVE  /\ Emails(a \o c) = Emails(a) \cup Emails(c)
         /\ \A u \in User : LastWord(a \o c, u) <=>
              LastWord(c, u) \/ (u.email \notin Emails(c) /\ LastWord(a, u))
<1> DEFINE ac == a \o c
<1>1. /\ ac \in Seq(User) /\ Len(ac) = Len(a) + Len(c)
      /\ Len(a) \in Nat /\ Len(c) \in Nat
      /\ DOMAIN ac = 1..(Len(a) + Len(c)) /\ DOMAIN a = 1..Len(a) /\ DOMAIN c = 1..Len(c)
  OBVIOUS
<1>2. \A k \in 1..Len(a) : ac[k] = a[k] /\ k \in DOMAIN ac
  BY <1>1
<1>3. \A k \in 1..Len(c) : ac[Len(a) + k] = c[k] /\ Len(a) + k \in DOMAIN ac
  BY <1>1
<1>4. \A k \in DOMAIN ac : \/ k \in 1..Len(a) /\ ac[k] = a[k]
                           \/ \E m \in 1..Len(c) : k = Len(a) + m /\ ac[k] = c[m]
  <2> SUFFICES ASSUME NEW k \in DOMAIN ac, k \notin 1..Len(a)
               PROVE  \E m \in 1..Len(c) : k = Len(a) + m /\ ac[k] = c[m]
    BY <1>2
  <2>1. k - Len(a) \in 1..Len(c) /\ k = Len(a) + (k - Len(a))
    BY <1>1
  <2> QED  BY <2>1, <1>3
<1> HIDE DEF ac
<1>5. Emails(ac) = Emails(a) \cup Emails(c)
  <2>1. \A k \in DOMAIN ac : ac[k].email \in Emails(a) \cup Emails(c)
    BY <1>1, <1>4 DEF Emails
  <2>2. \A k \in DOMAIN a : a[k].email \in Emails(ac)
    BY <1>1, <1>2 DEF Emails
  <2>3. \A k \in DOMAIN c : c[k].email \in Emails(ac)
    BY <1>1, <1>3 DEF Emails
  <2> QED  BY <2>1, <2>2, <2>3 DEF Emails
<1>6. ASSUME NEW u \in User, LastWord(c, u) PROVE LastWord(ac, u)
  <2>1. PICK k \in 1..Len(c) : c[k] = u /\ \A j \in 1..Len(c) : j > k => c[j].email # u.email
    BY <1>1, <1>6 DEF LastWord
  <2>2. \A j \in DOMAIN ac : j > Len(a) + k => ac[j].email # u.email
    BY <1>1, <1>4, <2>1
  <2> QED  BY <1>3, <2>1, <2>2 DEF LastWord
<1>7. ASSUME NEW u \in User, u.email \notin Emails(c), LastWord(a, u) PROVE LastWord(ac, u)
  <2>1. PICK k \in 1..Len(a) : a[k] = u /\ \A j \in 1..Len(a) : j > k => a[j].email # u.email
    BY <1>1, <1>7 DEF LastWord
  <2>2. \A m \in 1..Len(c) : c[m].email # u.email
    BY <1>1, <1>7 DEF Emails
  <2>3. \A j \in DOMAIN ac : j > k => ac[j].email # u.email
    BY <1>4, <2>1, <2>2
  <2> QED  BY <1>2, <2>1, <2>3 DEF LastWord
<1>8. ASSUME NEW u \in User, LastWord(ac, u)
      PROVE  LastWord(c, u) \/ (u.email \notin Emails(c) /\ LastWord(a, u))
  <2>1. PICK k \in DOMAIN ac : ac[k] = u /\ \A j \in DOMAIN ac : j > k => ac[j].email # u.email
    BY <1>8 DEF LastWord
  <2>2. CASE k \in 1..Len(a)
    <3>1. \A m \in 1..Len(c) : c[m].email # u.email
      <4> SUFFICES ASSUME NEW m \in 1..Len(c) PROVE c[m].email # u.email
        OBVIOUS
      <4>1. Len(a) + m > k /\ Len(a) + m \in DOMAIN ac /\ ac[Len(a) + m] = c[m]
        BY <1>1, <1>3, <2>2
      <4> QED  BY <2>1, <4>1
    <3>2. u.email \notin Emails(c)
      BY <1>1, <3>1 DEF Emails
    <3>3. a[k] = u /\ \A j \in 1..Len(a) : j > k => a[j].email # u.email
      BY <1>2, <2>1, <2>2
    <3> QED  BY <1>1, <2>2, <3>2, <3>3 DEF LastWord
  <2>3. CASE \E m \in 1..Len(c) : k = Len(a) + m /\ ac[k] = c[m]
    <3>1. PICK m \in 1..Len(c) : k = Len(a) + m /\ ac[k] = c[m]
      BY <2>3
    <3>2. \A j \in 1..Len(c) : j > m => c[j].email # u.email
      <4> SUFFICES ASSUME NEW j \in 1..Len(c), j > m PROVE c[j].email # u.email
        OBVIOUS
      <4>1. Len(a) + j > k /\ Len(a) + j \in DOMAIN ac /\ ac[Len(a) + j] = c[j]
        BY <1>1, <1>3, <3>1
      <4> QED  BY <2>1, <4>1
    <3> QED  BY <1>1, <2>1, <3>1, <3>2 DEF LastWord
  <2> QED  BY <1>4, <2>2, <2>3
<1> QED  BY <1>5, <1>6, <1>7, <1>8 DEF ac

\* Repetitions of a chunk mean what the chunk means.
LEMMA RepeatsMeanTheSame ==
  ASSUME NEW list \in Seq(User), NEW chunk \in Seq(User), Repeats(list, chunk)
  PROVE  SameWords(list, chunk)
<1> DEFINE d == Len(list) - Len(chunk)
<1>1. /\ d \in Nat /\ Len(list) = d + Len(chunk) /\ Len(list) \in Nat /\ Len(chunk) \in Nat
      /\ DOMAIN list = 1..Len(list) /\ DOMAIN chunk = 1..Len(chunk)
  BY DEF Repeats
<1>2. \A k \in 1..Len(chunk) : list[d + k] = chunk[k] /\ d + k \in 1..Len(list)
  BY <1>1 DEF Repeats
<1>3. \A k \in 1..Len(list) : \E m \in 1..Len(chunk) : list[k] = chunk[m]
  BY DEF Repeats
<1> HIDE DEF d
<1>4. Emails(list) = Emails(chunk)
  <2>1. \A k \in DOMAIN list : list[k].email \in Emails(chunk)
    BY <1>1, <1>3 DEF Emails
  <2>2. \A k \in DOMAIN chunk : chunk[k].email \in Emails(list)
    BY <1>1, <1>2 DEF Emails
  <2> QED  BY <2>1, <2>2 DEF Emails
<1>5. ASSUME NEW u \in User, LastWord(chunk, u) PROVE LastWord(list, u)
  <2>1. PICK k \in 1..Len(chunk) : chunk[k] = u /\ \A j \in 1..Len(chunk) : j > k => chunk[j].email # u.email
    BY <1>1, <1>5 DEF LastWord
  <2>2. ASSUME NEW j \in 1..Len(list), j > d + k PROVE list[j].email # u.email
    <3>1. j - d \in 1..Len(chunk) /\ j - d > k /\ j = d + (j - d)
      BY <1>1, <2>2
    <3> QED  BY <1>2, <2>1, <3>1
  <2> QED  BY <1>1, <1>2, <2>1, <2>2 DEF LastWord
<1>6. ASSUME NEW u \in User, LastWord(list, u) PROVE LastWord(chunk, u)
  <2>1. PICK k \in 1..Len(list) : list[k] = u /\ \A j \in 1..Len(list) : j > k => list[j].email # u.email
    BY <1>1, <1>6 DEF LastWord
  <2>2. PICK m \in 1..Len(chunk) : list[k] = chunk[m]
    BY <1>3
  <2>3. k >= d + m
    BY <1>1, <1>2, <2>1, <2>2
  <2>4. k - d \in 1..Len(chunk) /\ k = d + (k - d)
    BY <1>1, <2>3
  <2>5. chunk[k - d] = u
    BY <1>2, <2>1, <2>4
  <2>6. \A j \in 1..Len(chunk) : j > k - d => chunk[j].email # u.email
    BY <1>1, <1>2, <2>1, <2>4
  <2> QED  BY <1>1, <2>4, <2>5, <2>6 DEF LastWord
<1> QED  BY <1>4, <1>5, <1>6 DEF SameWords

\* Lists that mean the same may be continued by lists that mean the same.
LEMMA Continued ==
  ASSUME NEW a \in Seq(User), NEW b \in Seq(User), SameWords(a, b),
         NEW c \in Seq(User), NEW d \in Seq(User), SameWords(c, d)
  PROVE  SameWords(a \o c, b \o d)
<1>1. Emails(a \o c) = Emails(b \o d)
  <2>1. Emails(a \o c) = Emails(a) \cup Emails(c) /\ Emails(b \o d) = Emails(b) \cup Emails(d)
    BY LastOfTwo
  <2> QED  BY <2>1 DEF SameWords
<1>2. \A u \in User : LastWord(a \o c, u) <=> LastWord(b \o d, u)
  <2>1. \A u \in User : LastWord(a \o c, u) <=>
              LastWord(c, u) \/ (u.email \notin Emails(c) /\ LastWord(a, u))
    BY LastOfTwo
  <2>2. \A u \in User : LastWord(b \o d, u) <=>
              LastWord(d, u) \/ (u.email \notin Emails(d) /\ LastWord(b, u))
    BY LastOfTwo
  <2> QED  BY <2>1, <2>2 DEF SameWords
<1> QED  BY <1>1, <1>2 DEF SameWords

\* FlattenSeq of one chunk or more, as its loop builds it.
Join(seqs, f, i) == IF i = 1 THEN seqs[i] ELSE f[i - 1] \o seqs[i]

\* The loop has a result for any number of chunks.
LEMMA JoinExists ==
  ASSUME NEW seqs \in Seq(Seq(User)), NEW m \in Nat, m + 1 <= Len(seqs)
  PROVE  \E f \in [1..(m + 1) -> Seq(User)] : \A i \in 1..(m + 1) : f[i] = Join(seqs, f, i)
<1> DEFINE P(n) == n + 1 <= Len(seqs) =>
             \E f \in [1..(n + 1) -> Seq(User)] : \A i \in 1..(n + 1) : f[i] = Join(seqs, f, i)
           S == {n \in Nat : P(n)}
<1>0. \A i \in 1..Len(seqs) : seqs[i] \in Seq(User)
  OBVIOUS
<1>1. P(0)
  <2> HAVE 0 + 1 <= Len(seqs)
  <2> DEFINE f == [i \in 1..(0 + 1) |-> seqs[1]]
  <2>1. f \in [1..(0 + 1) -> Seq(User)] /\ \A i \in 1..(0 + 1) : f[i] = Join(seqs, f, i)
    BY <1>0 DEF Join
  <2> QED  BY <2>1
<1>2. ASSUME NEW n \in Nat, P(n) PROVE P(n + 1)
  <2> HAVE (n + 1) + 1 <= Len(seqs)
  <2>1. PICK f \in [1..(n + 1) -> Seq(User)] : \A i \in 1..(n + 1) : f[i] = Join(seqs, f, i)
    <3>1. n + 1 <= Len(seqs)
      OBVIOUS
    <3> QED  BY <1>2, <3>1
  <2> DEFINE last == f[n + 1] \o seqs[n + 2]
             g == [i \in 1..((n + 1) + 1) |-> IF i = n + 2 THEN last ELSE f[i]]
  <2>2. last \in Seq(User)
    <3>1. f[n + 1] \in Seq(User) /\ seqs[n + 2] \in Seq(User)
      BY <1>0, <2>1
    <3> QED  BY <3>1
  <2> HIDE DEF last
  <2>3. g \in [1..((n + 1) + 1) -> Seq(User)]
    BY <2>1, <2>2
  <2>4. \A i \in 1..(n + 1) : g[i] = f[i]
    OBVIOUS
  <2>5. g[n + 2] = last
    OBVIOUS
  <2> HIDE DEF g
  <2>6. g[n + 2] = Join(seqs, g, n + 2)
    <3>1. n + 2 # 1 /\ (n + 2) - 1 = n + 1 /\ g[n + 1] = f[n + 1]
      BY <2>4
    <3> QED  BY <2>5, <3>1 DEF Join, last
  <2>7. ASSUME NEW i \in 1..(n + 1) PROVE g[i] = Join(seqs, g, i)
    <3>1. g[i] = Join(seqs, f, i)
      BY <2>1, <2>4
    <3>2. i # 1 => g[i - 1] = f[i - 1]
      BY <2>4
    <3> QED  BY <3>1, <3>2 DEF Join
  <2>8. \A i \in 1..((n + 1) + 1) : i = n + 2 \/ i \in 1..(n + 1)
    OBVIOUS
  <2>9. \A i \in 1..((n + 1) + 1) : g[i] = Join(seqs, g, i)
    BY <2>6, <2>7, <2>8
  <2> QED  BY <2>3, <2>9
<1>3. S = Nat
  <2>1. S \in SUBSET Nat
    OBVIOUS
  <2>2. 0 \in S
    BY <1>1
  <2>3. \A n \in S : n + 1 \in S
    <3> HIDE DEF P
    <3> QED  BY <1>2
  <2> HIDE DEF S
  <2> QED  BY <2>1, <2>2, <2>3, NatInductionBySet
<1> QED  BY <1>3

\* The loop of FlattenSeq, unfolded.
LEMMA Flattened ==
  ASSUME NEW seqs \in Seq(Seq(User)), Len(seqs) # 0
  PROVE  \E f \in [1..Len(seqs) -> Seq(User)] :
            /\ \A i \in 1..Len(seqs) : f[i] = Join(seqs, f, i)
            /\ FlattenSeq(seqs) = f[Len(seqs)]
<1> DEFINE n == Len(seqs)
           Step(f) == [i \in 1..n |-> IF i = 1 THEN seqs[i] ELSE f[i - 1] \o seqs[i]]
           flat == CHOOSE f : f = Step(f)
<1>1. n \in Nat /\ n # 0 /\ (n - 1) \in Nat /\ (n - 1) + 1 = n
  OBVIOUS
<1>2. PICK f \in [1..n -> Seq(User)] : \A i \in 1..n : f[i] = Join(seqs, f, i)
  <2> DEFINE Q(k) == \E f \in [1..k -> Seq(User)] : \A i \in 1..k : f[i] = Join(seqs, f, i)
  <2>1. \A m \in Nat : m + 1 <= Len(seqs) => Q(m + 1)
    BY JoinExists
  <2> HIDE DEF Q
  <2>2. Q(n)
    <3>1. (n - 1) + 1 <= Len(seqs)
      BY <1>1
    <3>2. Q((n - 1) + 1)
      BY <1>1, <2>1, <3>1
    <3> HIDE DEF n
    <3> QED  BY <1>1, <3>2
  <2> QED  BY <2>2 DEF Q
<1>3. f = Step(f)
  BY <1>2 DEF Join
<1>4. flat = Step(flat)
  <2> HIDE DEF Step
  <2> QED  BY <1>3
<1>5. FlattenSeq(seqs) = flat[n]
  BY <1>1 DEF FlattenSeq
<1> HIDE DEF flat
<1>6. \A i \in 1..n : flat[i] = Join(seqs, flat, i)
  BY <1>4 DEF Join
<1>7. \A m \in Nat : m + 1 <= n => flat[m + 1] = f[m + 1]
  <2> DEFINE P(k) == k + 1 <= n => flat[k + 1] = f[k + 1]
             S == {k \in Nat : P(k)}
  <2>1. P(0)
    BY <1>1, <1>2, <1>6 DEF Join
  <2>2. ASSUME NEW k \in Nat, P(k) PROVE P(k + 1)
    <3> HAVE (k + 1) + 1 <= n
    <3>1. flat[k + 1] = f[k + 1] /\ (k + 1) + 1 \in 1..n
      BY <1>1, <2>2
    <3>2. (k + 1) + 1 # 1 /\ ((k + 1) + 1) - 1 = k + 1
      OBVIOUS
    <3>3. /\ flat[(k + 1) + 1] = Join(seqs, flat, (k + 1) + 1)
          /\ f[(k + 1) + 1] = Join(seqs, f, (k + 1) + 1)
      BY <1>2, <1>6, <3>1
    <3> HIDE DEF n
    <3> QED  BY <3>1, <3>2, <3>3 DEF Join
  <2>3. S \in SUBSET Nat /\ 0 \in S
    BY <2>1
  <2>4. \A k \in S : k + 1 \in S
    <3> HIDE DEF P
    <3> QED  BY <2>2
  <2>5. S = Nat
    <3> HIDE DEF S
    <3> QED  BY <2>3, <2>4, NatInductionBySet
  <2> QED  BY <2>5
<1>8. flat[n] = f[n]
  <2> HIDE DEF n
  <2>1. (n - 1) + 1 <= n
    BY <1>1
  <2>2. flat[(n - 1) + 1] = f[(n - 1) + 1]
    BY <1>1, <1>7, <2>1
  <2> QED  BY <1>1, <2>2
<1> QED  BY <1>2, <1>5, <1>8

\* Chunk by chunk the same words: the same words in all.
LEMMA FlattenedMeanTheSame ==
  ASSUME NEW A \in Seq(Seq(User)), NEW B \in Seq(Seq(User)), Len(A) # 0, Len(A) = Len(B),
         \A i \in 1..Len(A) : SameWords(A[i], B[i])
  PROVE  /\ FlattenSeq(A) \in Seq(User) /\ FlattenSeq(B) \in Seq(User)
         /\ SameWords(FlattenSeq(A), FlattenSeq(B))
<1>1. PICK f \in [1..Len(A) -> Seq(User)] :
        (\A i \in 1..Len(A) : f[i] = Join(A, f, i)) /\ FlattenSeq(A) = f[Len(A)]
  BY Flattened
<1>2. PICK g \in [1..Len(A) -> Seq(User)] :
        (\A i \in 1..Len(A) : g[i] = Join(B, g, i)) /\ FlattenSeq(B) = g[Len(A)]
  BY Flattened
<1> DEFINE n == Len(A)
           P(k) == k + 1 <= n => SameWords(f[k + 1], g[k + 1])
           S == {k \in Nat : P(k)}
<1>3. /\ n \in Nat /\ n # 0 /\ n - 1 \in Nat /\ (n - 1) + 1 = n /\ n \in 1..n
      /\ \A i \in 1..n : A[i] \in Seq(User) /\ B[i] \in Seq(User)
  OBVIOUS
<1>a. \A i \in 1..n : /\ f[i] = Join(A, f, i) /\ g[i] = Join(B, g, i)
                      /\ SameWords(A[i], B[i]) /\ f[i] \in Seq(User) /\ g[i] \in Seq(User)
  BY <1>1, <1>2
<1> HIDE DEF n
<1>4. P(0)
  BY <1>3, <1>a DEF Join
<1>5. ASSUME NEW k \in Nat, P(k) PROVE P(k + 1)
  <2> HAVE (k + 1) + 1 <= n
  <2>1. k + 1 \in 1..n /\ (k + 1) + 1 \in 1..n /\ (k + 1) + 1 # 1 /\ ((k + 1) + 1) - 1 = k + 1
    BY <1>3
  <2>2. SameWords(f[k + 1], g[k + 1])
    BY <1>3, <1>5, <2>1
  <2>3. /\ f[(k + 1) + 1] = f[k + 1] \o A[(k + 1) + 1]
        /\ g[(k + 1) + 1] = g[k + 1] \o B[(k + 1) + 1]
    BY <1>a, <2>1 DEF Join
  <2>4. SameWords(f[k + 1] \o A[(k + 1) + 1], g[k + 1] \o B[(k + 1) + 1])
    BY <1>3, <1>a, <2>1, <2>2, Continued
  <2> QED  BY <2>3, <2>4
<1>6. S \in SUBSET Nat /\ 0 \in S
  BY <1>4
<1>7. \A k \in S : k + 1 \in S
  <2> HIDE DEF P
  <2> QED  BY <1>5
<1>8. S = Nat
  <2> HIDE DEF S
  <2> QED  BY <1>6, <1>7, NatInductionBySet
<1>9. SameWords(f[n], g[n])
  <2>1. P(n - 1)
    BY <1>3, <1>8
  <2> QED  BY <1>3, <2>1
<1> QED  BY <1>1, <1>2, <1>3, <1>9, <1>a DEF n

\* A list has one last word on each of its emails, at Entry.
LEMMA EntryIsLastWord ==
  ASSUME NEW list \in Seq(User), NEW e \in Emails(list)
  PROVE  /\ list[Entry(list, e)] \in User /\ list[Entry(list, e)].email = e
         /\ LastWord(list, list[Entry(list, e)])
<1> DEFINE I == {i \in 1..Len(list) : list[i].email = e}
           n == Len(list)
           D == {d \in Nat : d < n /\ list[n - d].email = e}
<1>1. n \in Nat /\ DOMAIN list = 1..n
  OBVIOUS
<1>2. PICK i \in 1..n : list[i].email = e
  BY <1>1 DEF Emails
<1>3. \E d \in D : \A c \in D : ~(c < d)
  <2> DEFINE R == OpToRel(<, Nat)
  <2>1. IsWellFoundedOn(R, Nat)
    BY NatLessThanWellFounded
  <2> HIDE DEF R
  <2>2. D \subseteq Nat
    OBVIOUS
  <2>3. D # {}
    <3>1. n - i \in Nat /\ n - i < n /\ n - (n - i) = i
      BY <1>1
    <3>2. list[n - (n - i)].email = e
      BY <1>2, <3>1
    <3> HIDE DEF n
    <3>3. n - i \in D
      BY <3>1, <3>2
    <3> HIDE DEF D
    <3> QED  BY <3>3
  <2> HIDE DEF D
  <2>4. \E d \in D : \A c \in D : ~(<<c, d>> \in R)
    BY <2>1, <2>2, <2>3, WFMin
  <2>5. \A c, d \in D : c < d => <<c, d>> \in R
    BY <2>2 DEF R, OpToRel
  <2> QED  BY <2>4, <2>5
<1>4. PICK d \in D : \A c \in D : ~(c < d)
  BY <1>3
<1> DEFINE x == n - d
<1>5. x \in 1..n /\ list[x].email = e
  BY <1>1
<1>6. \A j \in I : x >= j
  <2> SUFFICES ASSUME NEW j \in 1..n, list[j].email = e, j > x PROVE FALSE
    BY <1>1
  <2>1. n - j \in Nat /\ n - j < n /\ n - (n - j) = j /\ n - j < d
    BY <1>1
  <2>2. list[n - (n - j)].email = e
    BY <2>1
  <2> HIDE DEF n
  <2>3. n - j \in D
    BY <2>1, <2>2
  <2> HIDE DEF D
  <2> QED  BY <1>4, <2>1, <2>3
<1>7. x \in I
  BY <1>5
<1> HIDE DEF x
<1>8. Max(I) = x
  <2>1. \A y \in I : y \in Nat
    OBVIOUS
  <2>2. \A y \in I : (\A j \in I : y >= j) => y = x
    <3> HIDE DEF I
    <3> QED  BY <1>6, <1>7, <2>1
  <2> HIDE DEF I
  <2> QED  BY <1>6, <1>7, <2>2 DEF Max
<1>9. Entry(list, e) = x
  <2>1. I # {}
    BY <1>7
  <2>2. Entry(list, e) = IF I # {} THEN Max(I) ELSE 0
    BY DEF Entry, SelectLastInSubSeq
  <2> QED  BY <1>8, <2>1, <2>2
<1>10. list[x] \in User
  BY <1>1, <1>5
<1>11. \A j \in DOMAIN list : j > x => list[j].email # list[x].email
  BY <1>1, <1>5, <1>6
<1>12. LastWord(list, list[x])
  BY <1>1, <1>5, <1>11 DEF LastWord
<1> QED  BY <1>5, <1>9, <1>10, <1>12

\* There is one last word on an email.
LEMMA OneLastWord ==
  ASSUME NEW list \in Seq(User), NEW u, NEW v, LastWord(list, u), LastWord(list, v), u.email = v.email
  PROVE  u = v
<1>1. PICK k \in DOMAIN list : list[k] = u /\ \A j \in DOMAIN list : j > k => list[j].email # u.email
  BY DEF LastWord
<1>2. PICK m \in DOMAIN list : list[m] = v /\ \A j \in DOMAIN list : j > m => list[j].email # v.email
  BY DEF LastWord
<1>3. ~(m > k) /\ ~(k > m)
  BY <1>1, <1>2
<1>4. k \in Nat /\ m \in Nat
  OBVIOUS
<1>5. k = m
  BY <1>3, <1>4
<1> QED  BY <1>1, <1>2, <1>5

\* For every plan and every order, repetition and loss of its chunks: an upload
\* reaches the backend with every user of the plan and the last word of the
\* plan on each of them, or not at all (users_chunk.go:18).
THEOREM UploadsAreWhole == Spec => []UploadIsWhole
<1>1. StreamsInv => UploadIsWhole
  <2> SUFFICES ASSUME StreamsInv, up.applied PROVE UploadIsWhole
    BY DEF UploadIsWhole
  <2> DEFINE A == [k \in 1..(up.lastIndex + 1) |->
                     IF k - 1 \in DOMAIN up.chunks THEN up.chunks[k - 1] ELSE <<>>]
  <2>1. /\ up.users = FlattenSeq(A) /\ up.lastIndex + 1 = Len(up.plan)
        /\ DOMAIN up.chunks = 0..up.lastIndex /\ up.lastIndex \in Nat
        /\ \A i \in 0..up.lastIndex : Repeats(up.chunks[i], up.plan[i + 1])
    BY DEF StreamsInv, UploadHasEveryChunk, UploadShape, InOrder
  <2>2. up.plan \in Seq(Seq(User)) /\ \A i \in 0..up.lastIndex : up.chunks[i] \in Seq(User)
    BY <2>1 DEF StreamsInv, UploadShape, StreamsTypeOK
  <2>3. ASSUME NEW k \in 1..(up.lastIndex + 1)
        PROVE  A[k] \in Seq(User) /\ Repeats(A[k], up.plan[k]) /\ up.plan[k] \in Seq(User)
    <3>1. k - 1 \in 0..up.lastIndex /\ (k - 1) + 1 = k
      BY <2>1
    <3>2. A[k] = up.chunks[k - 1]
      BY <2>1, <3>1
    <3>3. Repeats(up.chunks[k - 1], up.plan[k])
      BY <2>1, <3>1
    <3>4. up.plan[k] \in Seq(User)
      BY <2>1, <2>2
    <3> QED  BY <2>2, <3>1, <3>2, <3>3, <3>4
  <2>4. A \in Seq(Seq(User)) /\ Len(A) = up.lastIndex + 1
    <3>1. A \in [1..(up.lastIndex + 1) -> Seq(User)]
      BY <2>3
    <3> HIDE DEF A
    <3> QED  BY <2>1, <3>1, SMTT(30)
  <2> HIDE DEF A
  <2>5. \A k \in 1..Len(A) : SameWords(A[k], up.plan[k])
    BY <2>3, <2>4, RepeatsMeanTheSame
  <2>6. Len(A) # 0 /\ Len(A) = Len(up.plan)
    BY <2>1, <2>4
  <2> DEFINE plan == FlattenSeq(up.plan)
  <2>7. up.users \in Seq(User) /\ plan \in Seq(User) /\ SameWords(up.users, plan)
    BY <2>1, <2>2, <2>4, <2>5, <2>6, FlattenedMeanTheSame
  <2> HIDE DEF plan
  <2>8. Emails(up.users) = Emails(plan)
    BY <2>7 DEF SameWords
  <2>9. ASSUME NEW e \in Emails(plan) PROVE up.users[Entry(up.users, e)] = plan[Entry(plan, e)]
    <3> DEFINE u == up.users[Entry(up.users, e)]
               v == plan[Entry(plan, e)]
    <3>1. u \in User /\ u.email = e /\ LastWord(up.users, u)
      BY <2>7, <2>8, EntryIsLastWord
    <3>2. v \in User /\ v.email = e /\ LastWord(plan, v)
      BY <2>7, EntryIsLastWord
    <3> HIDE DEF u, v
    <3>3. LastWord(plan, u)
      BY <2>7, <3>1 DEF SameWords
    <3>4. u = v
      BY <2>7, <3>1, <3>2, <3>3, OneLastWord
    <3> QED  BY <3>4 DEF u, v
  <2> QED  BY <2>8, <2>9 DEF UploadIsWhole, plan
<1> QED  BY <1>1, StreamsInvariant, PTL
================================================================================
