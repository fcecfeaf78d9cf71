# IRLight: a TLA+ model of the Control API and the media Node

IRLight runs one live-streaming relay per *Session*. A Session gets a volume and
a server from a cloud provider, a media Node boots on it, the user's encoder
ingests, the Node relays to a destination, and at the end everything is torn
down again. This directory models the code that decides when that happens: the
Control API and its reaper in `apps/control-api`, and the processes of the Node in
`apps/node-agent`, `apps/continuity` and `apps/egress-gateway`. TLC checks the
models on small instances; TLAPS proves almost all of their safety for every value
of the constants.

## 1. Inventory

| Component | State | Operations | Interaction | Hard part |
|---|---|---|---|---|
| Session store (`session_store.py`) | Session records, cleanup leases, one JSON file | claim, checkpoint, stop, transition, leases, observations, prepare slots, audio, events | every other component calls it; one exclusive file lock per call | many writers; several methods write the status without the table |
| Provisioning workflow (`session_workflow.py`) | locals of a thread | `prepare`, `stop`, `_finish_cancelled_provisioning`, `_cleanup_resources` | store, provider, credential store | the provider is called between store calls |
| Reaper (`reaper.py`) | a snapshot per look | timeouts, heartbeat failure, STOPPING and FAILED_CLEANUP retries, orphans | store, provider, credential store | runs beside the API; snapshots grow stale |
| Provider (`provider/`) | volumes, servers | create, list, delete | called by workflow and reaper | ambiguous failures, slow deletion |
| Ingest credentials (`ingest_store.py`, `ingest_api.py`) | credentials, own file and lock | issue, verify, revoke | API, workflow, reaper | check and issue under different locks |
| Node authority (`node_internal.py`) | nodes, tokens, heartbeats | bootstrap, heartbeat, stop | store; node agent over HTTP | token fuse, crash between two files |
| Ingest lifecycle (`apply_ingest_observation`, `pipeline_health.py`) | recovery candidate, hold deadline | observations, health | heartbeats drive it, the reaper races it | late and reordered observations |
| Prepare and entitlements (`session_api.py`, `begin_prepare`) | idempotency key, reserved slots | begin, replay | store | capacity under concurrency, crash after reserve |
| Media control (`set_audio_desired`) | desired and actual mode, version | set, acknowledge | API, node | only the last key is remembered |
| Ingest guard (`ingest_auth_guard.py`) | failure buckets, own file | check, failure, success, blocked record | called by the ingest endpoint, three locks per request | bounded table, lockouts under concurrency |
| Node-local authorization (`ingest_auth_proxy.py`, relay reads) | positive cache, reader count | authorize, fall back | MediaMTX asks, Control API answers | late answers, outages, revocation |
| Account auth (`auth_*.py`) | users, sessions, KDF slots, rate shards, a secret | register, login, logout, limit, collect | API | slots, tables and windows at their limit; dying workers |
| Destinations (`catalog_*.py`, `destination_*.py`) | catalog, secrets, probe slots | create, edit, delete, verify, deliver | API, prepare, bootstrap | edits between probe, prepare and bootstrap |
| Destination probe (`destination_probe.py`) | children, deadlines | resolve, connect, verify, clean up | called by verify | children that ignore signals, one budget |
| Assets (`catalog_store.py`) | asset records | create, upload, process, delete | API | calls in any order, by any user |
| Event log and audio (`session_store.py`, `session_api.py`) | events, sequence, desired and actual mode | append, page, set | API, heartbeats | retention, retries, dying heartbeats |
| State safety (`state_safety.py`, stores) | marker, file | load, write, inspect | every store | power loss; a lost file taken for an empty one |
| Stable readers (28 of them) | - | inspect, open, read, inspect | files that others write | replacement during the read |
| Operations alerts (`operations_*_alerts.py`) | - | evaluate | JSONL streams, node authority | limits of the reader; beats during a look |
| Node agent (`agent.py`) | stop flags, secrets, stack | bootstrap, start, heartbeat, stop | Control API, docker compose | two threads start and stop |
| Ingest policy (`ingest_policy.py`, sampler) | violation counts | observe, kick, report | MediaMTX, agent | what the publisher shows at first |
| Continuity (`apps/continuity`) | frame times, active pads, input pipeline | observe, reconcile, rebuild | control file, encoder | two threads and a clock; flapping input |
| Standby image (`apps/continuity/standby_*.py`) | private snapshot | select, verify, decode | files of the Node | the file changes between copy, check and use |
| Egress gateway (`apps/egress-gateway`) | child, pipe, deadlines, backoff, status | attempt, supervise, reap, retry | child process, agent | children that hang, flood or survive |
| Egress attempt (`attempt*.py`, `rtmp_sink.py`) | tracks, muxer, counters, timers | attach, poll, report | GStreamer | counters that go back, one track alone |
| CLIs, scripts, control-plane stub, UI | none of their own | reports | - | how they read files |

What makes the core correct: a provider resource is deleted by one process at a
time and never under a Session that runs; one Session has at most one server and
one volume; an ending is never taken back; a Session that was claimed ends; and
nothing of it stays at the provider. `PROJECT.json` lists the hazards, each with
the properties that watch it.

## 2. Modules

| Module | Models |
|---|---|
| `SessionStore` | the Session record, the TRANSITIONS table, the cleanup lease, and the store methods as functions of them |
| `Cleanup` | the shared state, the provider's deletes, and the cleanup that workflow and reaper have in common, one action per call |
| `ProvisioningWorkflow` | `prepare` with its except clauses, `stop`, credential issue |
| `Reaper` | every look of a sweep, and the orphan deletion |
| `SessionLifecycle` | the composition with node, clock, provider, crashes; all properties |
| `SessionContract` | the abstract promise that `SessionLifecycle` implements |
| `EvictedWorker` | the same with one history variable: whether a creating worker ever lost its operation |
| `SessionLifecycleProofs` | lemmas and theorems about both |
| `PrepareCapacity` | `prepare_session` up to the claim, over several Sessions and users: replay, entitlement limit, `begin_prepare` |
| `PrepareCapacityProofs` | its theorems |
| `NodeAuthorityProofs`, `IngestLifecycleProofs` | the theorems of the two modules below |
| `NodeAuthority` | bootstrap, heartbeat and stop of nodes over three files, and the reaper's heartbeat look |
| `IngestLifecycle` | ingest observations, recovery candidate, pipeline health, hold and no-ingest timeouts |
| `SessionEvents` | the event log with its retention and paging, audio commands, egress and relay observations |
| `IngestAuthProxy` | ingest credentials with rotation, the authorization by the Control API, the Node's cache, relay readers |
| `IngestAuthGuard` | the failure buckets of the ingest endpoint |
| `AccountAuth`, `AuthRateLimit` | registration, login, KDF slots, collector; attempt windows and their secret |
| `DestinationCatalog`, `DestinationProbe`, `AssetCatalog` | destinations from creation to delivery; one probe; asset records |
| `AuthorityFile`, `StableRead` | how a store writes its file, and how files are read that others write |
| `OperationsAlerts` | the twelve alert evaluators |
| `NodeAgent`, `IngestPolicy` | the agent's two threads; what it makes of the publisher |
| `Continuity`, `StandbyAsset` | the switch between live and standby; which standby image is shown |
| `EgressGateway`, `EgressAttempt` | the supervising parent; one attempt in the child |
| `FileProofs` | theorems about `AuthorityFile` and `StableRead` |
| `ControlPlaneProofs` | about `DestinationCatalog`, `DestinationProbe`, `AssetCatalog`, `SessionEvents`, `OperationsAlerts` |
| `AuthenticationProofs` | about `AuthRateLimit`, `AccountAuth`, `IngestAuthProxy`, `IngestAuthGuard` |
| `MediaNodeProofs` | about `StandbyAsset`, `NodeAgent`, `IngestPolicy`, `EgressAttempt`, `EgressGateway`, `Continuity` |
| `MCSessionLifecycle`, `MCPrepareCapacity`, `MCNodeAuthority`, `MCIngestLifecycle` | symmetry and constants for TLC |
| `MCAuthentication`, `MCControlPlane`, `MCMediaNode` | sums of the small modules for TLC |

`SessionStore` to `SessionLifecycleProofs` are one model. `EvictedWorker` adds a history
variable to it because the record does not tell whether the timeout hit a worker that was
creating: the operation stays set after BOOTSTRAPPING, so the ordinary end of a production
Session goes through the reaper's path for overdue operations as well. `PrepareCapacity`,
`NodeAuthority`, `IngestLifecycle` and `SessionEvents` look at what it leaves out:
`SessionLifecycle` has one Session, takes a prepare from its claim on, a bound node
for a node that is alive, and any observation for one that may come. Each keeps the
part of the Session record that it reads, with the statuses grouped as
`SessionContract` groups them.

### The Session lifecycle

**State.** `sess` is the record of one Session, reduced to the fields that
decisions read; `overdue` stands for the comparison of `provisioning_started_at`
with the timeout. Store methods act on one Session under one lock, so Sessions
are independent here and one is enough (capacity, which counts across Sessions,
is the subject of `PrepareCapacity`). `lease` is its cleanup lease. `vols`, `srvs` and `dying` are what
the provider lists, by the operation that created them, `creds` whether an ingest
credential is active. `pc`, `job`, `myop`, `ok`, `todo` are the locals of each
process. `nextOp` counts operation ids, which are fresh UUIDs in the code.

**Steps.** One action per call that a process makes to the store, the credential
store or the provider. The code between two calls belongs to the call before it.
A read of the store and the compare-and-set that follows it
(`transition_if_current`, `request_stop_if_current`) are one action, because the
fields read are compared under the lock; a read followed by an unconditional or
differently guarded write is two. A sweep's looks are calls of their own in any
order: a timer starts a sweep every five minutes, systemd cuts one off after two,
and two can overlap.

**Environment.** A node can bind once the record names its server; then
heartbeats, ingest observations and pipeline failures move the status. A provider
call may fail, with or without having taken effect; a delete may be accepted long
before the server disappears from the list. A process may crash between any two
steps; what it wrote stays. A lease of a crashed holder expires; a lease of a
working holder expires only when the holder stalls between two calls. That it
never expires *during* a delete is an assumption: the lease runs for 900 s, a
provider call times out after 30 s.

**Left out of these modules**: events, failure texts, timestamps that only order
events, and the user and environment tags that filter resources (one owner). The age
that makes a resource an orphan is left to choice. `Leftovers` lets a volume
with the Session's tag exist before the Session is prepared.

### Prepare and capacity

`sessions` is `sessions.json`, `limit` is `entitlements.json`, `leased` the
Sessions with an active cleanup lease; a request's locals are `pc`, `req` and the
limit it has read, `lim`. A request takes four steps, one per call that reads or
writes shared state: `ReceivePrepare` (`get_prepare_replay`), `ReadEntitlement`
(destination check, which may refuse, and limit), `Bind`, `JoinReplay` or `Refuse`
(the outcomes of `begin_prepare`, one transaction), and `ClaimProvisioning`. It may
die between any two. The request parameters other than user, Session and key are
one value `config`. The initial states include Sessions of releases without keys and
reservations, which `begin_prepare` still counts. `granted` is a history variable: a
limit may be lowered after a request has read it, or under Sessions that already
run, so the claim is about the highest limit the user was granted. Two transport targets
let requests of one key disagree about what they ask for.

### Node authority

Bootstraps, heartbeats and stops hold `node_state_lock`, so one of them (`txn`) runs
at a time; sessions end and the reaper looks meanwhile. A bootstrap writes the Session
(`BootstrapBind`), the fuse (`WriteFuse`) and `nodes.json` (`CommitAuthority`), and its
answer may be lost; a heartbeat writes the Session (`HeartbeatRecord`) and `nodes.json`
(`HeartbeatCommit`). `Crash` ends the request between two writes, or loses what comes
after the last. Every write of `nodes.json` carries the merged token records, as
`_read_authority` merges the fuse on each read. An *attempt* is what an agent retains:
token and boot (boot id, request id, access token). `look` is the Session the reaper's
snapshot found without heartbeat, with a bit that says whether node, boot, registration
and heartbeat are still those of the snapshot, which is what `transition_if_current`
compares. Heartbeat times are ages up to the grace. Left out: the observations that a
heartbeat carries (next module), the deadline, the egress target and the Node's status text, and a
wall clock that runs backwards.

### Ingest lifecycle

`sess` has the status, `recovery_candidate_*`, `last_ingest_at`, `hold_deadline_at` and,
of the log, the time of the last `session.holding`, how many announced the present hold,
and whether the last connectivity event says connected. `node` is the Node's record:
previous observation, `media_unhealthy_since`, desired state. A heartbeat takes four
steps (`ReceiveHeartbeat`, `ApplyIngest`, `ApplyHealth`, `CommitNode`) with its own copy of
the Node's record, and dies between any two. `ApplyIngest` has the outcome of a store that raises
(`node_internal.py:1549`): the error is noted in the Node's record (`session_event_error`), and
`nodes.json` is committed with the new observation all the same. An observation is one of six kinds, which
is what `apply_ingest_observation` tells apart, with a source. The reaper's recovery of
a missing deadline is one action, as every field it read is compared; its stop is two,
with a snapshot. `hist` is history: the present run of usable observations, when
the input was lost, and when a report that the stack runs was last answered. Left out:
egress and relay observations, the retention of the log, reason codes, clocks that run
backwards, and HOLDING Sessions of a release without `last_ingest_at`. The model begins at
READY_WAIT_INGEST, as observations change no status before it.

### The event log

A step is one transaction of the store. A heartbeat is several, with the Node's own
own record last, and may die in between (`torn` remembers what it had reported). The store may
raise at each of its calls, before or after its write; the heartbeat then notes the error and
goes on to its commit (`EgressFails`, `RelayApply`). `told` is
what somebody who reads every event believes of egress and relay. The client in
`cursor` follows `next_after_sequence` with the page limits of the instance. Records of
releases without `next_event_seq` are among the initial states. Left out: event texts.

### Authentication

`IngestAuthProxy`: a publish request takes four steps, the session check, the store's
verify, the answer, which may be lost or late, and what the proxy does with it. Times
are what is left of them, so a tick ages everything at once; clocks of Node and
Control API agree. `IngestAuthGuard`: check, verification and report are three calls
under three locks, so requests overlap; pruning is part of the tick, as every method
prunes before it looks. `AccountAuth`: a slot is a file lock, which a dying process
gives back; the password is worked on outside the state lock; the collector reads its
clock before it waits for the lock. `AuthRateLimit`: two windows per pair in a bounded
table that is written in place, so a crash leaves contents that read as empty; a request counts
by the clock it read before it waited for secret and lock, up to `MaxWait` ticks old and
overtaken by later ones; and the creation of the shared secret by workers that start together. Left out: address
parsing, cookies, hashing.

### Stores around the Session

`DestinationCatalog`: a step is one hold of a lock; `verify` probes between two of them;
`boot` reads secret and destination as the bootstrap does. `DestinationProbe`: time
passes only while the probe waits and never beyond the end of the wait; a verifier may close
its pipe and live on.
`AssetCatalog`: every call by every user in every order. `AuthorityFile`: `names` is
what the kernel shows, `disk` what a power loss leaves for sure; a step is one system
call. A retried command is answered from the file without a sync (`ReplayControl`); `unsynced`
is a rename whose directory sync failed. `StableRead`: a reader is the record of the comparisons it makes, so one module
stands for all of them; a stamp is a tick, and two writes within one tick are told
apart by none (`blurred`). `OperationsAlerts`: a stream is a short sequence of
characters that reach every branch of the bounded readers; the evaluators differ in
thresholds and in what they group by.

### The media Node

`NodeAgent`: main thread and watchdog with the stop lock; docker compose is an outcome.
`IngestPolicy`: MediaMTX may show a publisher before its tracks. `Continuity`: instants
are ages; a probe reads its clock before it waits for the lock, the reconcile loop
reads clock, then file, then takes the lock; a status write that raises anything but
`RuntimeStatusWriteError` ends its timer (`TimerGone`). `StandbyAsset`: the files change at any
moment. `EgressGateway`: deadlines are the ticks left, and the supervising loop runs at
least once a tick; the child may send anything, fall silent, ignore SIGTERM, hang in
the kernel or die; a child that survives the kill is reaped a second time while the error is on
its way, and a callback or a status write may raise. `EgressAttempt`: a poll may find any
counters, also lower ones, and a stream may go on for ever: a counter is kept by its distance
from the marker and by whether it is above zero. A callback that raises removes the poll
timer. Left out: the
assembly of GStreamer elements, the classification of what an element prints
(represented by its outcomes), image formats, bit rates beyond classes.

## 3. Runs

| Run | Instance | Shows |
|---|---|---|
| `lifecycle_safety` | 2 workers that both prepare (symmetric), 1 reaper, 1 fault, a leftover volume, no handshake; 1.9 M states | `Inv`, `NoDeleteWhileActive`, `OneDestroyer`, `AtMostOneVps`, `StatusFollowsTable`, `ImplementsContract` |
| `single_prepare` | 1 preparing worker, 1 other, 1 reaper, 1 fault, a leftover volume, handshake, module `EvictedWorker`; 0.77 M states | `CleanupExcludesOwner`, `StrayOnlyAfterTimeout` |
| `lifecycle_liveness` | 1 worker, 1 reaper, 1 fault, handshake, fairness; 41 k states | `EndsEventually`, `CleanEventually` |
| `finished_means_clean` | 3 workers, no reaper, no fault | violation, see below |
| `prepare_capacity` | 2 requests, 2 Sessions, 1 user, 2 keys, 2 transport targets, limits 0 and 1, 1 crash, 1 orphan cleanup, fairness; 0.26 M states | `Inv` (types, `LimitInv`, `SlotHeldUntilOver`, `BoundInv` and the capacity), `CapacityRespected`, `ClaimIsAsAsked`, `BoundGetsClaimed` |
| `node_authority` | 2 tokens, 2 boots on one server and 1 on another, grace of 1 tick, 1 crash, assignment not required; 1.1 M states | `Inv` (types, `RollbackRefusesConsumed`, `OneNodePerToken`, `HeartbeatIsOwn`, and the parts that make them inductive), `ReaperSparesServed` |
| `node_liveness` | 1 token, 3 boots, grace of 2 ticks, 1 crash, assignment required, fairness; 16 k states | `BoundIsHeardOrEnds`, `AgentLeavesLostSession` |
| `ingest_lifecycle` | 2 sources, timers that are due after one tick, any number of crashes and store errors, fairness; 0.64 M states | `Inv` (types, `HoldCycle`, and the parts that make it inductive), `HoldRules` (`RecoveryIsStable`, `HoldTimeoutIsDue`, `FailureIsSustained`, `ChangesAreLogged`), `HoldEnds` |
| `authentication` | 2 requests at a time, tables with less room than keys, clocks one tick old at the lock, fairness; 0.45 M states | `RateLimitPromise`, `ProxyPromise`, `GuardPromise`, `AccountPromise`, `LocksAndSessionsEnd` |
| `control_plane` | 2 of everything that competes, 2 inodes, streams of 4 characters; 1.6 M states | `AuthorityPromise`, `DestinationPromise`, `ProbePromise`, `ReadIsWhole`, `AlertPromise`, `EventLogPromise`, `AssetPromise` |
| `media_node` | every timer one or two ticks, 2 images, 2 publishers, 2 attempts, fairness; 0.25 M states | `StandbyPromise`, `AttemptPromise`, `GatewayPromise`, `ContinuityPromise`, `AgentPromise`, `IngestPolicyPromise`, `NothingHangs` |
| `late_start_is_stopped` | a deadline one tick away | violation, see below |

**Sums.** The modules of `authentication`, `control_plane` and `media_node` share no
state, so interleaving them would multiply their states and show nothing more. The
initial state of such a run chooses one part; a behaviour takes the steps of that part
and the others rest. Each run therefore is the union of the separate state graphs.

**Promises.** The promise of a module is the conjunction of a few named safety parts, each
with the comment that states it. What must eventually happen in a sum is one property of its
run (`LocksAndSessionsEnd`, `NothingHangs`), as it needs the run's fairness:

| Promise | Parts |
|---|---|
| `EventLogPromise` | the log keeps the newest events without a hole; pages tell of every loss; events, Session and Node agree unless a heartbeat died or the store refused it; a command acts once |
| `ProxyPromise` | one active credential within the deadline; a denied secret stays out; readers bounded; a grant is recent |
| `GuardPromise` | guesses bounded; a lockout lasts and leaves nothing behind |
| `AccountPromise` | password work bounded; the first registration keeps the account; live sessions kept |
| `RateLimitPromise` | attempts bounded in a stretch shorter than the window by `MaxWait`; Retry-After is enough; workers share one secret |
| `DestinationPromise` | a verdict is for the stored URL; what is delivered was verified, and is the owner's |
| `ProbePromise` | a verifier is reaped before the next; passed in time; ends in its budget |
| `AssetPromise` | only the owner's object is processed; a stage is never gone back |
| `AuthorityPromise` | a lost file is no first start; acknowledged writes are kept, a replay after a failed sync aside; readiness vouches for an intact file |
| `AlertPromise` | a batch is whole; no false alarm; a silent fleet is critical |
| `StandbyPromise` | the digest holds for what is decoded; the status file is true |
| `AttemptPromise` | both tracks or none; CONNECTED is proven |
| `GatewayPromise` | one publisher; a stop is prompt; no stale CONNECTED; retries bounded |
| `ContinuityPromise` | a frozen input is hidden while the timer runs; live means stable; nothing unmutes |
| `AgentPromise` | one stop; no leftover secrets |
| `IngestPolicyPromise` | a kick is deserved; a rejection is reported |
| `LocksAndSessionsEnd` | a lockout ends; dead sessions are collected |
| `NothingHangs` | an attempt that brings nothing new ends; an outage with a limit on attempts ends; the input is rebuilt; the deadline stops the media; a bad publisher goes |

Next to a definition there often is another with its name and a suffix, marked as a bug
(a dropped guard, a missing reset, a wrong comparison). Put in the definition's place it
violates one part of the promise; there is at least one for every part.

**Bounds.** Two workers are what it takes for a prepare to race a prepare or a
stop; the reaper is the third actor. `MaxFaults` bounds crashes, stalls and
failing calls together: one fault reaches every except and finally clause, and
puts a crash or an expired lease between any two steps. The theorems hold for
every number of each. The operation counter needs no bound, since a Session is
claimed once (`ClaimInv`). For capacity, two Sessions and a limit of one are where
two requests compete for the last slot; the theorems cover the rest. For nodes, a
crash after the binding leaves a Node id that is issued again: two Sessions let the
second owner be another Session's node, two tokens let it be another attempt. A grace
of two ticks lets a node beat before its grace is over, which the liveness run needs.
In the ingest run a timer needs a moment before and one after it is due; the second source
and the observations of the same tick supply the interruptions of a stable run.

In the three sums every window and deadline is one or two ticks, so that a moment before,
at and after its end exist, and every table has less room than there are keys. Two
requests, verifiers, images, publishers or attempts are what it takes for one to be
stale. `AllReaders` is every combination of comparisons that a reader of the repository
makes. `MaxVersion`, `MaxInode`, `MaxSeq`, `MaxSessions`, `MaxWrites`, `MaxClock`, `MaxStream`,
`MaxLag`, `MaxWait`, `MaxRetries`, `Horizon`, `PipeSize` and `MaxStep` are bounds of the model, not
of the code; those of tables are above the number at which the table or retention overflows.
`MaxStep` bounds how far a counter is from the marker, not how high it is, so a stream has no
end in the model either. `ConnectTimeout` is 4 ticks because a poll may come after two and the
stability window takes two: an attempt can connect late and can time out. The behaviours are long
(several reconnections, several rounds of a window), only the numbers are small.

**Fairness.** A thread or sweep that has begun goes on (weak fairness of
`WorkerStep`, `SweeperStep`). The timer starts sweeps forever and each takes every
look that applies, so a look that is due again and again is taken (strong
fairness, because the reaper is busy in between). Time passes and the provider
finishes accepted deletions. Users, nodes and faults owe nothing; the absolute
deadline therefore is what ends a Session that nobody stops. In `prepare_capacity`
the client repeats its request with its key, which is the recovery the comment in
`prepare_session` relies on, and cleanup leases are released or expire. In
`node_liveness` a request that holds the lock ends, time passes, each sweep looks at
every active Session (strong fairness per Session, as a sweep works on one at a time),
and an agent sends heartbeats until it is told to stop, one of which gets the lock; no
heartbeat need be accepted or arrive in time. In `ingest_lifecycle` a heartbeat that was
received is worked off, time passes between heartbeats, and sweeps go on.

In `authentication` time passes for lockouts and sessions, the collector's timer starts
it again and it gets the lock, and a login that was verified gets the lock or dies. In
`media_node` every loop goes round, timers fire, both threads of the agent are scheduled,
the input's bus messages are delivered, and the policy observes again and again with a
kick that works. Nothing is assumed of children, destinations, encoders or signals. Of the
agent's threads only the steps that are no calls are fair (`MainAdvances`, `WatchdogAdvances`):
any call of the Control API, the auth proxy or the supervisor may hang for ever, and
`DeadlineStops` holds all the same. `OutageEnds` has two parts: an attempt that neither connects
nor dies is taken back, with a connect timeout; and an outage ends, with a limit on attempts.
The default of that limit, 0, retries as long as the outage lasts. `control_plane` has no liveness and no fairness.

**Properties.** `CleanupExcludesOwner` and `StrayOnlyAfterTimeout` hold with one
preparing worker only, which may ask again after its call: a second one breaks them,
which is the first finding.
`StrayOnlyAfterTimeout` exempts exactly the Sessions whose operation was taken from a worker
that was creating, which may go on creating; that a Session is overdue exempts nothing, as
ordinary Sessions end in that path too. `CleanEventually` shows that the orphan sweep
collects that as well.

**Findings.**

1. `finished_means_clean`. The generic `except` of `prepare` does not look at
   `claimed`. Two prepares start; the first claims and is about to create; a stop
   moves the Session to STOPPING and leaves the cleanup to the worker; the
   second prepare's claim raises `InvalidTransition`, its except clause takes the
   Session for its own cancelled provisioning, cleans up and writes FINISHED;
   the first then creates its volume. The architecture document says that a Session
   is not FINISHED before its cleanup is complete.
2. `late_start_is_stopped`. `run` sets `_media_started` before it calls `supervisor.start`, so
   a deadline that fires at the beginning of the start is not deferred. The watchdog's stop
   finds nothing to stop and succeeds; the start then brings the stack up; every later stop
   returns at once, as one was made, and the agent exits 0 with media running. The docstring of
   `_stop_media_once` says that a late start never leaves media running.

**Met while modelling**, and not kept as runs:

- The provisioning timeout under a worker that is alive closes the Session as FAILED without
  `cleanup_pending` (`reaper.py:462`); the worker's pending create then takes effect.
  `docs/architecture/on-demand-media-node.md:316` says that it keeps `cleanup_pending`.
- `issue_ingest_credential` checks the status and issues under another lock
  (`ingest_api.py:403`): a credential may survive the revoke of `stop`, whose comment says that
  authority is revoked before any cleanup.
- A slot that `begin_prepare` reserved stays reserved when the claim is refused because of an
  orphan cleanup; the architecture document (line 358) says that failure releases it.
  `BoundGetsClaimed` shows the way out, the same request again.
- A heartbeat after the Session has ended is answered with 409, and the agent stops on any 4xx;
  `docs/session-ingest-events.md:79` says that heartbeats go on. The same document says that
  heartbeat and Session events are updated atomically: they are in two files. A crash may repeat
  an event, and a store that raises loses one: the error is swallowed
  (`node_internal.py:1549`, `:1572`, `:1593`), `nodes.json` gets the new observation, and the next
  heartbeat sees no change. What holds is that the loss is noted beside the observation
  (`ChangesAreLogged`, `ToldIsTrue`).
- The retry of an audio command is answered from the file (`control_store.py:212`) without a sync.
  When the directory sync of the first attempt failed, the retry acknowledges a rename that a
  power loss may take back.
- The rate limiter reads its clock before the secret and the lock (`auth_rate_limit.py:566`, `:589`).
  A request that waited counts in a window that is over for the others, or begins one early: the
  bound of twice the limit is for a stretch shorter than the window by the longest wait.
- An `OSError` of `atomic_write_json` (`continuity.py:632`) is not caught at line 589, where only
  `RuntimeStatusWriteError` is. It leaves the GLib callback, which GLib then removes: no later round
  decides anything, and a frozen input stays on air until the engine starts again.
- A status callback that raises in an egress attempt without process isolation, the default, leaves
  `_poll_sink` (`egress.py:393`) and removes its timer: neither the stall nor the stop event is
  looked at any more.
- A child that survives the kill is reaped a second time by the `except` clause of the supervisor
  (`isolated_attempt.py:602`), so a stop takes up to both rounds before the error is raised.
- The watchdog's stop is deferred while the start is between `agent.py:693` and line 699, and is
  carried out only when the start comes back.
- An audio command whose key another command has displaced is refused by its version, so it does
  not act twice (`CommandActsOnce`), but its retry is no longer answered as a replay.
- A denial evicts a cached grant only if no other request with that secret is about to be granted:
  a grant under way stores it again until its window is over (`GrantIsRecent`).
- A full rate table turns away a pair that is not in it for as long as others refresh it:
  `RetryAfterIsEnough` therefore is about pairs with room.
- A child that announces its teardown with a reason and then exits leaves a pipe that is readable:
  `recv` raises `EOFError` and the attempt counts as a local failure (`isolated_attempt.py:419`), before
  line 508 would return the announced reason. The connection in
  `tests/test_egress_isolated_attempt.py:259` is not readable at its end.
- A frame's clock is read before the lock (`continuity.py:584`). When `decide`, with a later clock,
  finds the input lost and clears `_video_stable_since`, and a frame from just before that moment
  then gets the lock, the gap is not longer than the timeout and the stability never starts
  (`state.py:73`): the standby image stays although the input is steady again, until the next real gap.
- The passthrough bridge looks for `video_appsrc` (`continuity.py:430`), the pipeline names its
  element `live_video` (line 286).
- `supervisor.stop` that answers not ok is not repeated; only one that raises is.
- `put_destination_secret` and an edit of `secret_ref` may pass each other, which leaves the new
  reference without a secret; the delivery then is refused. A successful probe that ends
  late may replace the verdict of a later failed one for the same URL.

## 4. Proofs

`SessionLifecycleProofs` assumes only the named assumptions on the constants
(workers and reapers are disjoint and none of them is `"none"`, `MaxFaults` is a
number, leftovers are the one marked resource).

- `InvHolds`: `Spec => []Inv`. `Inv` is `TypeOK` with three parts. `LeaseInv`: a
  delete in flight has its sender's live lease, and a live lease pins the status
  to what its scope allows. `OperationInv`: a provisioning Session has an
  operation, so `claim_provisioning` can only succeed on a STOPPED Session, and
  the steps that drop an operation unconditionally run only on a Session that is
  ending. `ClaimInv`: hence there is one claim, and every resource is the claimer's
  or the leftover. None of the properties is inductive without these.
- `DeletesSpareActive`, `DeletesExclusive`, `SingleVps` follow from `Inv`.
- `TableRespected`: `SessionSteps` shows every action to be a `StatusStep` (same
  status, claim, or a move of the table).
- `Refinement`: `SessionLifecycle` implements `SessionContract` under the mapping
  from status to phase and from the delete in flight to the destroyer.
- `TypeCorrect`: `TypeOK` is part of `Inv`.
- `OwnerExcludesCleanup`, `OverIsClean`: `CleanupExcludesOwner` and `StrayOnlyAfterTimeout`
  under the hypothesis `SinglePrepare`, that at most one worker prepares; the first finding
  is why it is needed. `SingleInv` adds to `Inv`: `CallInv` (which process may be where) and
  `OwnerInv` (while a worker creates and has its operation, the Session is provisioning or
  waits in STOPPING, `provisioning_in_progress` is set, no server is recorded, and nobody
  cleans up; only the timeout takes the operation away). `HistoryInv` of `EvictedWorker` adds
  `OwnedInv` (a creating worker has its operation until it is evicted) and `ResultInv` (without an
  eviction, a cleanup whose result is good has seen the servers gone and has the remaining
  volumes in its snapshot, as nothing appears meanwhile).

The argument is per action: one lemma says what an action does to the record
(`SessionWrites`, `EnvironmentWrites`, `SessionUntouched`), one to the lease
(`LeaseMoves`), one to the other processes (`OthersStay`), and the invariant
lemmas use only those.

`PrepareCapacityProofs` assumes that there are finitely many Session ids and that limits
are natural numbers.

- `PrepareInvHolds`: `Inv` adds to the capacity that a limit a request works with was
  granted at some time (`LimitInv`), and that a bound Session has its slot
  (`SlotHeldUntilOver`): without the latter the claim, which moves a Session to an
  occupying status, could add to the count. A request past `begin_prepare` finds the Session
  bound to what it asked for (`ClaimIsAsAsked`), because only an unbound Session is bound, with
  its user (`BoundInv`). `Bind` adds one Session to a set with
  fewer members than the limit; every other action leaves `Occupied` or shrinks it.
- `CapacityHolds`, `SlotHolds` and `ClaimAsAskedHolds` follow from it.

`NodeAuthorityProofs` assumes a grace of at least one tick, that every boot belongs to a
Session, and that `"none"` is no Session.

- `AuthorityHolds`: `Inv` is `RollbackRefusesConsumed`, `OneNodePerToken` and `HeartbeatIsOwn`
  with `TokenInv` (node and token records name each other, and a running agent knows its node),
  `BootstrapInv` (a bootstrap has an unused token until it answers, and past its fuse step that
  token is in the fuse), `HeartbeatInv` (a heartbeat works for the node it was answered with,
  whose Session has a beat) and `LookInv` (while the reaper's snapshot is current, the heartbeat
  it missed is still missing). Without `BootstrapInv`, a crash between the three files would let
  a second boot exchange the token.
- `RollbackHolds` is a part of it; `ReaperHolds` is `LookInv` at the step that fails the Session.

`IngestLifecycleProofs` assumes that timers are natural numbers and that `NoSource` is no source.

- `HoldRecordHolds`: to `HoldCycle` the invariant adds `HoldInv` (the hold event is as old as the
  loss, and the recovery candidate is the run of usable observations since HOLDING), `LookInv` (a
  snapshot of the reaper that is still current is of an expired hold), `TimerInv` (the health timers
  in `nodes.json` and in a heartbeat under way are no older than the last report that the stack
  runs) and `LogInv` (a connectivity change about to be committed is already in the log, or the
  heartbeat has noted the store's error).
- `HoldRulesHold`: the four rules follow from it, action by action.

`FileProofs` assumes that every reader is one of `AllReaders`, and no bound on inodes, writes or
ticks but that they are numbers.

- `AuthorityFileHolds`: a marker is durable before the name is (`MarkerInv`); what a power loss may show,
  and what is being written, is no older than the last answer (`VersionInv`); inode numbers are
  fresh (`InodeInv`); and unless a directory sync has failed since, the file of a store that is up
  and not writing is durable (`SyncInv`), which is what a replay's answer needs.
- `ReadersHold`: what a reader has read is what its inode held when it was opened, unless the
  stamp has moved since; so equal signatures before and after mean one contents.

`ControlPlaneProofs` assumes a retention, page limits, a record limit and a grace of at least one.

- `DestinationHolds` carries a verdict with the URL that was probed, and every step between
  verdict, prepare and delivery compares it. `ProbeHolds` bounds each wait by what is left of
  the budget, also for a verifier that closes its pipe and lives on. `AssetsHold` ties a
  processed object to the owner that uploaded it.
- `EventLogHolds`: `LogIsRecent` is inductive. `AcceptedInv` says that every accepted audio command
  was for an older version. `ReportInv` follows a heartbeat through its transactions: what it has
  sent is what it observed once the Session is updated, and what it has not sent is in the Node's
  record already (`EgressTypesFacts`: no event means no change that a reader can tell). `AgreeInv` is
  `ToldIsTrue` for the kinds that nobody is in the middle of reporting. For the pages: a log without
  a hole is an interval of numbers (`LogInterval`), so what is left after a cursor is a suffix of it
  (`RemainingFacts`) and a page the beginning of that suffix (`PageFacts`). `CursorInv`, that a cursor
  names an event that was there, is what makes an empty page mean that the client is up to date.
- `AlertsHold`: the promise compares a report with the lines of the whole stream
  (`LineStarts`, `LineAt`), while the evaluator sees what `readline` with a limit gives it. The
  invariant (`Pending`) says where the reader stands, `p`, and up to which line end, `q`, every line has
  been counted: records, violations, matches and the rest are the cardinalities of the sets
  of lines that start before it (`Counted`). `p` and `q` differ only while an oversized line is drained,
  by at least the limit and without a line end between them. `ReadlineFacts` says what one call
  returns, `LineIs` when that is a whole line, `Evaluated` that the record's verdict is `BadLine` of the line, and
  `OneMore` that the next line adds one to the right sets and none to the others. No induction over
  sequences is needed: the loop is the induction, and the only fact about numbers it takes
  is that a set of them has a least one (`NatMin`). `FleetInv` says of the other two evaluators that their
  clock was read before the authority, so that a computed age is at most the silence at the read.

`AuthenticationProofs` assumes limits and windows of at least one, at least one reader, a
finite set of requests, that `"free"` is no login, and that no address is a username.

- `LimiterHolds`: the history `admitted[k][n]` counts the attempts of the last `n + 1` ticks. The
  invariant splits it at the start of the window that is stored: at most a limit before it, and
  at most the stored count since. As a window may begin by a clock that is `MaxWait` old, the
  stretch for which this holds is shorter than the window by as much. `RateLimitHolds` adds the
  secret: whoever counts has read what
  the one creator wrote whole.
- `AccountHolds`: a request that works has a slot of its own and a slot belongs to a request
  that works, so there are at most as many as slots; the collector's clock is behind.
- `GuardHolds`: once a bucket is locked nobody new passes the check for it, so the failures and the
  requests that have passed, each of which may add one, are bounded together (`BucketOK`); in an
  unlocked bucket there is room. Its failures are kept as counts of the last `n + 1` ticks, like the
  history of the limiter, so that no sum over a table is needed.
- `ProxyHolds`: the cache is a function from secrets to what is left of their entries. The
  invariant says of a request what it was answered and how long ago, and that a cached entry
  stems from an answer that is no older than its age says.

`MediaNodeProofs` assumes that timers are numbers, that the input timeout and the sample counts
are at least one, `RETRY_INITIAL <= RETRY_MAX`, a jitter of at most 100 percent, and that
`"none"` is no source.

- `StandbyHolds`: the private copy that was verified is the one that is decoded.
- `AgentHolds`: the stop lock and `_media_stop_*` admit one call that does not raise; every path to
  the exit goes through the removal of what was written.
- `PolicyHolds`: the inspector's counters belong to the publisher it names, and its
  `over` is what history has measured of that publisher.
- `AttemptHolds`: queues stay blocked until both tracks are attached; the stability timer was
  started at a poll since which every poll was ready.
- `GatewayHolds`: `GatewayInv` bounds, for each stage of supervision and of both reapings, the age of a
  stop and of the child's silence by the deadlines spent so far (`HaltInv`, `SilenceInv`, with
  `LookedInv` for the round of the loop); `ChildInv` says in which stages a child may live,
  `RetryInv` ties `failure_count` to the attempts since the last connection, and `PipeInv` says that until
  the liveness deadline is armed, all that a publishing child has sent is behind its `connected`.
- `ContinuityHolds`: `FrameInv`, `WindowInv` and `AirInv` relate the ages that the loop keeps to
  when frames came, while probe and loop hold clocks they read before the lock and the reconcile
  timer runs; `VoiceInv` relates
  the command in force to the commands read.

The proof of `StopIsPrompt` failed at first for a long backoff: the model let a full retry
delay pass after a stop, while `stop_event.wait` (`egress.py:708`) returns at once. In the
instance that TLC checks the delay is so short that the bound held all the same. The model
now follows the code.

**Only model-checked.** Every invariant and action property that a passing run checks is stated by
a theorem. What is left to TLC is liveness, as TLAPS reasons neither about fairness nor about
`ENABLED`: `EndsEventually`, `CleanEventually`, `BoundGetsClaimed`, `BoundIsHeardOrEnds`,
`AgentLeavesLostSession`, `HoldEnds`, `LocksAndSessionsEnd` (`LockoutEnds`, `SessionsCollected`) and `NothingHangs`
(`AttemptEnds`, `OutageEnds`, `InputIsRebuilt`, `DeadlineStops`, `BadIsKicked`). The
theorems are about the specifications of the modules (`GuardSpec`, `AlertsSpec` and so on), of which the
runs that are sums take the steps one module at a time.

## 5. Plan

The components are modelled, and the safety properties of every run are proved. Left are lemmas
that would be good to have beyond the runs' properties, such as that a delete which a process
has sent is one of its snapshot, and the parts that the component list calls partly modelled.

## 6. Not modelled

The TypeScript control-plane stub, the static UI and the router wiring have no state. The
reports of the inspection CLIs, the drills and the build scripts are functions of what they
read; how they read it is in `StableRead`. Provider HTTP, tokens and pagination, the bytes of
the RTMP handshake, image decoding, media decoding and the assembly of pipelines are I/O.
Address parsing, cookies and configuration parsing are checked by ordinary unit tests and
have no interleavings.
