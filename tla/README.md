# Formal model of the node

TLA+ modules, TLC configurations and TLAPS proofs for the node: the program
that runs beside a proxy core (Xray) or a WireGuard interface, takes orders
from the panel over gRPC or REST, keeps the core's users in step with the
panel and reports their traffic.

## 1. The system

| Part | State | Operations | Modelled by |
|---|---|---|---|
| Controller (`controller/`) | the backend, the session's context, `lastRequest`, `controlMu`, `mu` | Start, Stop, Connect, Disconnect, the keep-alive tracker, the stop of the server and the deferred Disconnect of `main` | `Controller` |
| Request handlers (`controller/rest`, `controller/rpc`) | none of their own | check the backend, then use it | `Controller` (check-then-use), `Streams` (uploads and log streams) |
| Chunked upload (`controller/users_chunk.go`) | the chunks of one stream | collect, order, apply | `Streams` |
| WireGuard backend (`backend/wireguard`) | state, manager, `syncMu`, `mu` | New, SyncUser(s), UpdateUsers(AndRestart), Restart, Shutdown, stats loop, stats queries | `WireGuard` |
| Users of the WireGuard backend, as its callers see them | a directory of peers | a request replaces it or merges into it | `UserDirectory` (abstract) |
| Host routing (`host_routing_linux.go`, `defaultroute_linux.go`) and interface set-up (`manager.go`) | the host's: links, nftables ruleset, policy rules and routes; the owner ID | InitializeWithPeers, apply, cleanup, Close | `HostRouting` |
| WireGuard log (`backend/wireguard/log.go`) | the log channel | emitLog, Logs, close at Shutdown | `Streams` |
| Peer store (`peer_store.go`) | `peers` by key, `emailToKey` | Init, ReplaceAll, ApplyChanges, lookups | `PeerStore` |
| Traffic tracker (`pkg/stats/tracker.go`) and the job that feeds it (`backend/wireguard/jobs.go`) | per key: counters, baseline, last delta, deleted mark; the job's sample in hand | read the device, look up emails, sample, query and reset, remove, cleanup | `StatsTracker`, `StatsSampler` |
| Interface counters (`pkg/stats/interface_counters.go`) | baseline | Delta | `InterfaceCounters` |
| Xray backend (`backend/xray`: `xray.go`, `jobs.go`, `user.go`) | `x.config`, `x.mu`, `syncMu`, the health check's counter | New, Shutdown, Restart, the four user operations, the health check | `Xray` |
| Xray core (`core.go`, `process_unix.go`) | the process, `restarting`, `stopping`, `c.mu`, socket files, process groups | Start, Stop, Restart, the watcher, orphan cleanup | `Xray` (with requests and health check), `XrayCore` (process, sockets and output) |
| Xray log and startup diagnostics (`log.go`, `startup_diagnostics.go`) | two rings of lines, the phase, the first failure, the log channel | capture, record, tail, switch of phase | `XrayCore` |
| Xray configuration (`config.go`, `config_clone.go`) | the user map of every inbound | syncUsers, updateUsers, updateUser, removeUser, Clone, ToBytes | `XrayConfig` |
| Xray API part of a configuration (`ApplyAPI` in `config.go`) | inbounds, services, observatories, rules, policy | the passes of ApplyAPI | `XrayApi` |

How they interact. A handler calls the backend through `Controller.Backend()`.
Start, Stop, the keep-alive tracker and the end of `main` each shut the backend
down, from different goroutines. A backend has its own goroutines (stats loop;
health check and process watcher) that share state with the handlers. The
kernel, the Xray process and the panel are outside and may fail at any call.

What is hard: `Disconnect` outside `controlMu`, by a tracker or by a `main` that
no longer waits for its handlers; a sync overtaken by Shutdown or
by a failing kernel call; samples applied after the peer they belong to was
removed; counters that restart while bytes are unreported; a process restart by
the health check while a request is changing the configuration; the same
restart during Shutdown; host routing made of many system calls that fail one
by one, with crashes and other owners of the ruleset; processes, sockets and
output of an earlier core met by the next one; streams and uploads that outlive
their session. `PROJECT.json` lists each hazard at its line with the
properties that watch it.

## 2. Modules

* `PeerStore` - one action per method; `ApplyChanges` is a step for the
  removals and one step per iteration of the upsert loop, in any order, so the
  loop's invariant is visible. A swap of keys between users is the case that
  makes it interesting.
* `StatsTracker` - the tracker alone: per key the fields of `Entry`, and as
  history what the peer has transferred, what resets have returned and whether
  the counters ever restarted. `applySample` is built from one operator per
  branch of `applySampleLocked`.
* `StatsSampler` - extends `StatsTracker` with the job. It reads the device
  (`ReadDevice`), then the emails (`ReadEmails`), and applies the samples later
  (`UpdateConnectedPeers`); removals, reads with reset and the cleanup fit
  between any two of these. A removal is two steps, since a sync tells the
  tracker after the kernel. `recharged` counts what samples that were applied
  after the deletion of their entry may have charged again.
* `WireGuard` - extends `PeerStore` and instantiates `StatsTracker`. A sync is:
  take `syncMu` and plan; `ensureRunning`; the kernel call; the commit to the
  store; `RemoveStats`; release. Shutdown takes `mu` only and fits between any
  two of them. The stats loop reads the device, then the emails, then applies.
  `collectDesiredPeers` and `buildSyncDiff` are translated as sets and
  functions over the request. `WireGuardAssumption` says what the tables of
  spellings are: every key has a canonical spelling that parses to it, and
  `AllowedIPs` has every list that filtering a request can leave.
* `InterfaceCounters` - a query reads the kernel's counters and then calls
  `Delta`; queries overlap, and an overtaken sample looks like a rollback or like
  traffic. The history records when each sample was read and, in `slipped`, what
  the overtaken ones count again.
* `Controller` - sessions are numbers, each with or without a keep-alive;
  `Disconnect` is four steps, because it holds `mu` only while it reads and while
  it clears the backend. Time is one bit: whether `keepAlive` has passed since
  `lastRequest`. At the end `main` gives the handlers ten seconds
  (`StopServer`), which they may outlast: its Disconnect runs beside whatever
  they still do, until `Exit` ends them all. `overtook` holds the backends
  started while a Disconnect outside `controlMu` was past its read of
  `c.backend`.
* `XrayConfig` - constant operators: which inbound gives a user an account, and
  what each of the four ways to change the user maps leaves behind.
* `Xray` - extends `XrayConfig`. Configuration objects live in `heap`, because
  `Restart` keeps a pointer to one while it waits for `x.mu` and serialises it
  later. `job` is the work of the holder of `x.mu` (stop, reap, serialise,
  spawn, close). The health check, a user operation, the watchers and Shutdown
  are separate threads. `proc` is the operating-system process.
* `UserDirectory` - the abstract specification of the backend's users: one set
  of peers that a whole request changes at once. `WireGuard` is shown to
  implement it (`ImplementsDirectory`). The mapping `Users` is what a reader of
  the store can see; while `ApplyChanges` holds `ps.mu` nobody reads, and the
  request counts as done.
* `HostRouting` - a session is one backend from New to Shutdown; every system
  call is a step that works or fails. The node may die after any of them, the
  operator edits or reloads the ruleset, and another node works on the same
  host. `owed` and `left` record what apply still promises and what the cleanup
  has reported as failed, `dropped` the failures that New's own cleanup tells
  nobody. An nft handle is a number of its table, which starts over when the
  table is loaded again: `Named` lets a handle whose rule is gone name any rule of
  the chain, or none.
* `XrayCore` - processes with parents, process groups and output pipes, the socket file, the
  capture goroutine and the watcher of every process, the rings, and the holder
  of `x.mu` that stops and starts. The two rings are the circular buffers of the
  code, compared with the sequence of lines given to them. `killProcessTree`
  signals the whole group of a process; `setProcAttributes` gives every new one
  its own. A line over 1 MiB ends the capture and leaves the process `deaf`: it
  runs on, and blocks once the pipe is full.
* `XrayApi` - the passes of `ApplyAPI` over one configuration, with the removal
  from a slice that is being ranged over as the code does it. `Reapply` sends
  the result through the node again. A level 0 that is null ends it with a nil
  dereference (`NullLevel`).
* `Streams` - log streams and one chunked upload beside sessions that begin and
  end. The log channel has its buffer, its closed flag and the field that
  Shutdown sets to nil.
* `MC*` - constants for TLC. `*Proofs` - the theorems about the module of that
  name and the inductive invariants they need; `WireGuardProofs` also has
  those about `PeerStore`, `XrayCoreProofs` those about `XrayApi`.

`map` in `PROJECT.json` gives the source lines of every definition. Definitions
called mutants stand before the definition they vary; they are never used by
the specifications and show what a property would catch.

External, modelled from their use: the kernel device, byte counters, wall clock,
the Xray process and its API, the nftables ruleset and its operator, the panel.

## 3. Runs

Passing:

| Run | What it shows | Bounds, and why they are enough |
|---|---|---|
| `stats_tracker` | `NeverOverReported`: a key is charged more than it transferred only by samples applied after its entry was reported and dropped, and no byte more than twice; `ExactUntilRestart`, `AccountedNeverShrinks` | one key (all rules are per key), two directions of two bytes each: enough for transfer, read, removal, report, late sample and transfer again |
| `wireguard_sync` | `OneToOne`: the two maps of the store stay inverse of each other, within the loop too; `UpsertIsLocal`: an upsert displaces only its competitors; `WGTypeOK`; `StoreMatchesKernel` between syncs; `SyncReachesGoal`; `ImplementsDirectory`: requests take effect one at a time and whole; `StoppedDeviceFrozen`; `SyncMuIsReleased` | two users, keys, IPs and callers, one failing kernel call, eleven requests that add, move, rename, swap, remove and are rejected |
| `wireguard_stats` | `SampledNeverLost` with the stats loop racing everything else | one key that two users hold in turn, two bytes |
| `interface_counters` | `ResetsAreExact`: too many bytes only by overtaken samples, within what they can count again, and none lost until the counters restart | two queries at once, one restart, two directions of two bytes each |
| `controller` | `TakeoverShutsDown`: a Start shuts every other backend down first; `NoOrphan`: `c.backend` names every running backend; `CleanExit`: none survives the exit; each but for backends whose Start overtook a Disconnect outside `controlMu`; `IdleSessionEnds` | one caller, one request, two sessions with keep-alives, so that the tracker and the context of the first are still there when the second starts or falls silent; `main` gives up on handlers at any of their steps |
| `xray` | `NoFalseAlarm`, `RejectedNeverServed`, `DriftOnlyByHealth`, `AckedAccountsServed`, `HealthRecovers`, `OperationsReturn` | one user, two inbounds and an excluded one, one operation, two faults, `maxFailures` two |
| `host_routing` | `RunningIsRouted`: a running backend has the routing it did not report as failed; and its interface is up from its first rule to its last; `NothingUnreported`: what stays behind was reported, or its node died, or both removals of a failed New failed; `ForeignRulesKept`: a rule of somebody else goes only through a handle from before a reload; `SessionsSettle` | two sessions: in turn in one node with the same settings (two mishaps), in turn without routing (three, for a call and both its cleanups), in turn with and without routing, and at once in two nodes with their own interface and table (one mishap); three forward chains, of which one has a family the code leaves alone; one egress interface |
| `xray_core` | `TailIsRecent`: the rings return the last lines; `OneLateLine`; `StartupFailureVisible`; `NoRivalChild`; `OnlyOwnKilled`: killing whole process groups reaches own processes only; `StartedGetsReady`, `OutputIsRead` up to a line over 1 MiB | four processes, of which two may be there before, and another node's process in a group of its own or in this node's; four scenarios of lines and mishaps: none and two, none and one with an orphan, one and one, two and none (rings of every size are proved); a log channel of one |
| `xray_api` | `UserPartsKept`: what the panel asked for stays; `CoreCanStart`: every service has what it depends on; `ApplyIsIdempotent` | every combination of ten lists of inbounds (also with the API's tag twice) and three or four values of each other part |
| `streams` | `UploadIsWhole`, `NeverSendsOnClosed`, `LogStreamsEnd` | two sessions, two streams, five uploads of up to three chunks in four frames, so that a chunk of three can come twice |

For `xray` the fault budget counts crashes, failed spawns, failed or slow API
calls, failures in the startup log and cancelled requests. The invariants also
hold, in a longer search than the run makes, with one inbound fewer, two
operations and two faults (3.5 million states). The safety properties of
`controller` hold in such a search with two callers (1.3 million states up
to symmetry); what two callers share is `controlMu`, and the proofs have any
number of them.

`ImplementsDirectory` says that every change of the directory is a whole request;
that it is the request in hand is `SyncReachesGoal`. `WGTypeOK` includes the type
invariants of the store and the tracker. The other modules state theirs for the
reader and for proofs; the runs spend their time on the properties above.

`CHECK_DEADLOCK FALSE` in `controller`, `xray`, `host_routing`, `xray_core`,
`xray_api` and `streams`: after the node's exit, after Shutdown, when every
session is over and when a configuration has been applied twice nothing is left
to do. The other runs check deadlock.

Violations. Each states a sentence of the repository that the code does not
keep; `findings` quotes it.

* `controller_orphan` - a keep-alive `Disconnect` overtaken by a Start clears
  the new backend; the next Start runs a second one.
* `xray_shutdown` - the health check starts a new process after Shutdown has
  returned. `MaxOps` is zero there: no request is needed.

Limits met while modelling, which a passing run excludes by its inputs:

* A partial sync does not compare its IPs with those of users outside the
  request. The kernel moves a shared IP to the last peer and the store keeps it
  with both, so `StoreMatchesKernel` needs `UniqueIPs`.
* Existing peers are matched by the canonical spelling of their key and desired
  ones by the spelling of the request, so the runs spell each key in one way.
* After a health restart the process may run an older configuration than
  `x.config`, and a removal whose API call failed is acknowledged;
  `DriftOnlyByHealth` and `AckedAccountsServed` state what is left.

Limits that the models contain and no property denies:

* A Start that overtakes the Disconnect of a tracker, or of a `main` that gave up
  on it after ten seconds, may leave its backend running unknown to the
  controller (`overtook`); `controller_orphan` shows one such case. The tracker
  of a previous session may also shut down a session that has just been started.
* A sample read before a removal and applied after it is charged again if its
  entry was reported and dropped meanwhile (`recharged`); if the entry is still
  there, its deleted mark is cleared and it stays.
* Samples of overlapping interface queries may reach `Delta` out of order: the
  older one moves the baseline back and bytes are returned again (`slipped`).
* A REST handler that reads the backend again after the middleware's check may
  call a method of nil; `Recoverer` answers the request.
* A handle listed before the ruleset was reloaded may name a rule of the operator
  or of another node when it is deleted.
* When New fails, the error of `manager.Close()` is dropped (`wireguard.go:188`);
  with the deferred cleanup failing too, an interface stays and nobody is told.
* The rules of a crashed node stay, because the next run draws another owner ID;
  its policy route stays too and counts as applied. `RunningIsRouted` is checked
  for nodes that keep their settings and do not share a table.
* The living Xray of a crashed node is not killed: only children of this node
  are, since zombies have no readable `/proc/PID/exe` and are not listed.
  It may take the socket or the ports of the new process (`stolen`).
* The last lines of a process can be lost, since `cmd.Wait` closes the pipe; a
  line read before a stop may count for the next process (one at most). After a
  restart by the health check lines go to the startup ring until the next
  operation.
* A line over 1 MiB ends the capture of a process for good; nothing it writes
  afterwards is seen, and it blocks when the pipe is full.
* A log stream that asks for the channel after Shutdown gets nil and waits for
  its client to leave. Xray's log channel is never closed.
* An upload is applied to the backend of the moment it is complete, which may be
  the next session's.
* Over REST a first chunk of zero bytes (no users, more to follow) is skipped
  and then missing; the upload is refused.
* A level 0 of the policy that is null in the panel's JSON makes `checkPolicy`
  follow a nil pointer; the REST server recovers, the gRPC server does not.
* Two inbounds with the API's tag, which Xray refuses anyway, make the removal
  loop keep one of them or panic.

## 4. Fairness

Weak fairness of each goroutine's next step: the Go scheduler runs a runnable
goroutine, and the calls it makes return (netlink and gRPC calls have deadlines
or an answering peer). In `WireGuard` it is given to callers only; polls,
traffic and Shutdown need not happen. In `Controller` to callers, trackers and
`main` once a signal has come; a tracker's ticker fires again and again. In
`Xray` to the process (a killed process dies, one that is left alone becomes
ready), to the holder of `x.mu`, the health check, and the running operation;
requests, Shutdown and faults of any kind are not fair, so no property holds
because a call happens to fail. `HealthLock` has
fairness of its own: Go's mutex hands itself over to a waiter that starves.
`OperationsReturn` also relies on the caller's context ending a wait for an API
whose handler Shutdown has closed; nothing else would.

In `HostRouting` to every session's next step and in `XrayCore` to the holder of
`x.mu`, in both only to steps without a mishap: netlink, `nft` and `ip` calls
return, and nothing holds because one fails. In `XrayCore` also to the capture
of every process (the goroutine runs and its send never waits; that a line is
too long is a mishap) and to the process itself, which dies when killed and
otherwise listens, unless it is stuck on a pipe that nobody reads. In `Streams` to
the goroutine of a stream: a client that is there takes what it is sent.
Sessions, requests, traffic, operators and crashes are never fair.

## 5. Proofs

Every theorem is about the specification that TLC runs, with the constants left
open: any number of users, keys, callers, sessions, processes, lines and
mishaps. Each module takes the assumption on the constants that its component
declares (null values are not elements, bounds are naturals, conversion tables
are functions). Conditions beyond that are named hypotheses of the theorems:

| Hypothesis | Module | Why |
|---|---|---|
| `SeparateNodes` | `HostRoutingProofs`, `RunningStaysRouted` only | nodes keep their settings and share neither interface nor table; a node that reuses another's interface takes its link away |
| `CanonicalKeys` | `WireGuardProofs` | requests spell a key the way `wgtypes.Key.String` does; `buildSyncDiff` compares spellings |
| `UniqueIPs` | `WireGuardProofs`, `KernelHasTheStore` only | no IP is asked for by two users at once; the kernel moves an allowed IP to the peer configured last and the store keeps both |
| `NoApiOutbound` | `XrayCoreProofs`, `CoreStarts` only | no outbound of the panel's has the tag `API`; it is the tag that `ApplyAPI` gives the API (`config.go:792`), for which Xray makes the outbound itself. A blackhole with that tag would be the target of the malformed-domain guard |

`StatsTrackerProofs`: `TrackerNeverOverReports`, `TrackerIsExact` and
`TrackerLosesNothing`, with any delay between reading a sample and applying it.
None of the invariants is inductive alone. The strengthening `KeyGood` has three
parts: `Good` says, by the state of the entry (absent, deleted, live), how
counter, baseline, pending delta, reported and transferred bytes relate;
`HandOK` says the same of the sample in the job's hands, which may belong to an
earlier life of the counter; `TwiceOK` says that such a sample's bytes have not
been charged again before, so that no byte is charged three times. One lemma per
action shows that each part is kept, and the invariant of the whole tracker is
`KeyGood` at every key.

`WireGuardProofs`:

* The store first, with a specification that lets any caller call any method:
  `StoreIsOneToOne` and `UpsertsAreLocal`. The inductive invariant `StoreInv` is
  the type invariant and `OneToOne`. `OneToOne` is inductive because it relates
  both maps in both directions: with one direction only, the deletion of an old
  owner's entry during a swap could not be shown to leave the other users alone.
  The bulk operations rest on two lemmas about `MapByKey` and `MapByEmail`, the
  loop on `RemovalStep` and `UpsertStep`.
* A sync plans, waits for the device and commits; Shutdown, New and the stats
  loop run in between. `SyncInv` says what the plan is still worth at each
  place: `StorePlan` (removals and upserts lead from the store to the goal),
  `KernelPlan` (what the device is not told, it has), `MergePlan` (the goal is
  one request merged into the store), and `LoopPlan` inside `ApplyChanges`.
  The plan survives because whoever writes the store holds `syncMu`
  (`LocksOK`), which the invariant therefore has to carry.
* `SyncsReachTheirGoal`, `BackendStoreOneToOne` and `BackendTypes` follow.
  `BackendImplementsDirectory` is the refinement of `UserDirectory`: the commit
  of a sync is one update of the directory (by `MergePlan`), every other step
  stutters, the iterations of the loop included.
* `KernelHasTheStore` adds `KernelInv`: goals and store share no IPs (`IPsOK`),
  and the device has the store, or from the kernel call on the goal
  (`DeviceOK`). The incremental call is the hard case: replaced and added peers
  take their IPs from peers that are removed or replaced in the same call.
* `StoppedDeviceStays` needs only that a stopped backend has no client.
* `SampledBytesStay`: the tracker as the backend uses it. A sample may be late,
  so the relation between counter and traffic of `StatsTrackerProofs` is not
  available, and `EntriesOK` asks of an entry only what makes a sample, a reset
  and a removal keep its account. The lemmas are stated again for the instance,
  because this version of tlapm cannot cite them through an INSTANCE.
* `AllowedIPNets` filters a list. What it returns for lists of every length is
  proved with `NatInductionBySet`, induction over a set in place of a predicate.

`InterfaceCountersProofs`: `CountersAreExact`, for any number of overlapping
queries. Every sample has a stamp, the restarts and the traffic when it was read.
`CountersInv` compares each sample in flight and the baseline with the counters
as they stand (`Now`) and all of them with each other (`Pair`): a sample exceeds
an older one by no more than was transferred between the two reads. What was
returned is then covered by the traffic up to the read of the baseline and by
`slipped` (`CoveredOK`).

`ControllerProofs`: `TakeoverIsClean`, `NoBackendForgotten`, `ExitIsClean` and
the types, for any keep-alives and with the forced stop of the server.
`Disconnect` works on a copy of `c.backend` that it took under a lock it no
longer holds; `DisconnectOK` says at each of its places what that copy still
covers: every running backend but those that overtook it. `Exclusion` is why a
Start or Stop cannot overtake another one.

`HostRoutingProofs`: `ForeignRulesUntouched`, `NothingLeftUnreported`,
`RunningStaysRouted` and the types. `HostInv` says for each place of a session
which of its rules, policy rules, routes and links can be there: none before
apply, the chains already visited during it, and during cleanup only those to
come or already reported. The handles a session has listed were its own rules
of the chain it visits (`VisitOK`); one whose rule is still there deletes that
rule, so a rule of somebody else can go only through one that was flushed.
`LinksOK` follows the interface through New's two removals. `RoutingInv` is the converse for
`RunningStaysRouted`: what has been promised is there, except in the chain being
visited.

`StreamsProofs`: `NoSendOnClosed`, `UploadsAreComplete`, `UploadsAreWhole` and
the types. The
channel is closed and taken away from the loggers in one critical section
(`ChannelsOK`). `ChunksOK` says that what is kept under an index is made of that
chunk of the plan and ends with it, whatever was repeated, so that a complete
set of indexes has every chunk. For `UploadsAreWhole` the chunks are
concatenated: `FlattenSeq` is unfolded for any number of them (`Flattened`, with
`NatInductionBySet`), and `SameWords` - the same emails and the same last entry
of each - is kept by repeating a chunk and by appending.

`XrayCoreProofs`: `TailsAreRecent`, `LateLinesAreBounded`,
`StartupFailuresAreSeen`, `NoRivalSurvives`, `OnlyOwnAreKilled` and the types.
Each has its part of `CoreInv`: `RingsOK` ties position and content of a ring of
any size to the lines given to it, `LateOK` counts the capture that has passed
its last check, `FailureOK` follows a fatal line from the pipe to the operation
that waits. `GroupsOK` says that every process a node has started has a process
group of its own, so that killing a group kills that process alone, and `KillOK`
that a process listed for killing is a child of this node and that no other
child is missing from the list.

`XrayCoreProofs` on `XrayApi`: `UserPartsStay`, `CoreStarts` and
`ApplyTwiceIsOnce`, for lists of any length. Their invariant `ApiInvariant` says
of every step what each part of the configuration is, as a function of what the
panel sent:

* `PartsOK`, `OnceOK`: services, observatories, rules and policy are those of the
  panel before the pass that makes them and `ServicesMade`, `RulesMade`... after
  it. That a second `ApplyAPI` keeps them is a property of the functions: each
  pass is the identity on its own result (`ServicesSettle`, `RulesSettle`,
  `ObservatorySettles`). For the rules it needs `ApiAssumption`, by which what
  stands for `geoip:private` does not name it again;
* `InboundsOK`: with one `API_INBOUND` at most, the loop has left the entries
  before it alone and shifted the ones behind it by one (`Loop`), so it is never
  past the shrunken slice and ends with the panel's inbounds in their order. With
  two it may panic; nothing is said of the inbounds then.

The lists are filtered with `Keep`. What it returns for a list of any length
(`KeepRange`, `KeepConcat`, `KeepSame`...) is proved from the partial
concatenations of `FlattenSeq` by induction over a set of lengths
(`ListInduction`). `Strings`, the set that tags and names come from, is a constant
because the provers know of no string that it is in STRING.

`XrayProofs`: `AlarmsAreReal`, `RejectedStaysOut`, `DriftIsTheHealthChecks`,
`AcknowledgedIsServed` and the types. `XrayInv` has one part for each question:

* `JobOK` and `CoreOK`: who holds `x.mu` and with which object, and that nothing
  runs between `Core.Stop` and the next start. `AlarmOK` adds that a process the
  node killed is either being reaped under `c.mu` or no longer `c.process`.
* `CandidateOK` and `TrialOK`: a candidate is an object of its own, which neither
  `x.config` nor the health check can hold. The health check may restart the old
  configuration while a candidate is on trial, but never a candidate; what an
  application starts is its object, until it ends or the health check replaces
  it.
* `ServedOK`: the process, and the bytes that the next process will get, serve
  the accounts of the map, except for what the running operation has yet to do.
  `Serves` says what that is at each place: the inbounds to come, and at the
  inbound in hand the emails that still have a call. `CallsOK` is why the calls
  bring them up to date: the last account among them is the one in the map. The
  bytes have to be in the invariant because a restart takes them between the
  change of the map and the calls; the calls then fail, since nothing runs, and
  the emails count as tainted.

What the loop of `buildInboundUpdates` collects for lists of any length is proved
with `NatInductionBySet` (`AccountsAreActive`).

Only model-checked: liveness (`SyncMuIsReleased`, `StartedGetsReady`,
`OutputIsRead` and the others of section 3), since there is no rule for fairness
and ENABLED here.

## 6. Not modelled

JSON and protobuf decoding, TLS, port search, system statistics, logger, key
parsing, latency probes: no shared state beyond a call. Generated code. Routing
calls and statistics of Xray, and the client of its API: passed to the process
unchanged. Copying of configurations (`config_clone.go`) beyond the identity of
objects. Windows process handling. The waits of `killProcessTree` and
`verifyProcessDead`: a killed process dies in its own time, and `Core.Stop` may
give up waiting for it after 5 s (a mishap of `StopWait`). Reuse of process IDs.

## 7. Plan

1. Done: all modules of section 2; the theorems of section 5.
2. Left: nothing of what the runs check as an invariant; liveness stays with TLC.
