# mcp-manager, in TLA+

Specifications of [mcp-manager](../src), a server that keeps connections to MCP
services, publishes their tools, and calls the tools on behalf of its users,
synchronously or as background tasks.  The modules are translated from the Go
code; the tables below say which definition stands for which code, and
`PROJECT.json` ("map") gives the lines.

Run a check with `tlc -config X.cfg MCModule`, a proof with
`tlapm MProofs.tla`, where `M` is one of the eight modules of section 2.

## 1. The system

One process (role `all`), or a control plane and an executor that talk JSON over
HTTP.  Requests run in one goroutine each; besides them run the task workers,
the queue workers, the health checker, a clean-up ticker and the goroutines of
the MCP transports.

| component | state | operations | talks to |
|---|---|---|---|
| asyncTaskManager (`async_task.go`) | map of task entries (status, context, cancel flag), channel of ids, `closed` | submit, get, cancel, stats, stop; workers | execution slots, tool invocation |
| InvokeController (`invoke_control.go`) | channel `sem` of execution slots; rate-limit buckets per service and user | Acquire, WaitAcquire, Allow, Stats | task manager, synchronous invocation |
| AsyncQueue and sinks (`async_queue.go`, `async_sinks.go`, `history_sink.go`) | channel of jobs, atomics `closed`, `pending`, `errors` | Record / NotifyServiceError, Submit, Stop; workers | database, mail server |
| Manager, managedClient (`mcpclient`) | map service -> client; per client the active transport and a runtime status | Connect, Disconnect, CallTool, ListTools, Ping, GetStatus; transport callbacks | MCP transports |
| HealthChecker | none of its own; failure counts live in the runtime status | checkOnce for every connected service | Manager, `updateFn` (database, audit, alert, Disconnect) |
| mcpService | the service rows: configuration, status, failure count | Create, Update, Delete, Connect, Disconnect, Status | Manager or remote runtime, snapshot store, audit, alerts |
| toolInvokeService, toolService | tool rows, history rows | Invoke, InvokeAsync, Sync | all of the above |
| runtime adapters, RPC, snapshot store | one snapshot per service with a TTL | the Manager's operations, remotely | Manager of the executor |
| authService, AuthStateManager | users (token version), sessions, their caches, access-token blacklist | Login, Refresh, Logout, ChangePassword, Validate, Revoke | database, Redis |
| alertService | time of the last alert per service | NotifyServiceError | mail server |
| bootstrap, main (`app.go`, `main.go`) | the list of clean-up functions, the HTTP servers | Build by role, serveApp, shutdownServers, Cleanup | everything, once each |
| audit clean-up, handlers, router, config, database, logger | none that actors share | - | - |

What is hard in this code, in short (the full list, with lines, is under
"hazards" in `PROJECT.json`):

- the task manager gives up its lock between publishing a task and queueing it,
  and a worker reads a status without the lock before it overwrites it;
- two closings of channels race with senders;
- slots are shared by waiting and by non-waiting users, with deadlines and
  cancellations on top;
- Connect replaces a client while calls and probes on the old one are under way,
  and transport callbacks arrive at any time;
- what is in memory, in the database and in the snapshot store is written in
  separate steps by requests, tool calls and the health checker;
- caches of the token state are filled from reads that may be overtaken;
- an executor goes on with a request whose caller has given up;
- the way down stops some goroutines without waiting for them, and closes what
  they still use.

What makes each component correct:

- **tasks**: accepted tasks run at most once, end once, keep their final status,
  are never lost, release their slots; rejected ones leave nothing; stop drains;
- **queue**: acknowledged records are written exactly once or counted as failed;
  Stop drains; the counters mean what they say;
- **connections**: at most one open transport per service and none without an
  owner; events and errors of a replaced client do not touch its successor, but
  for the count of failed checks, which goes by service; a lost connection is not
  shown as healthy;
- **services**: a status is a claim of the process that runs; a dead connection
  is dropped and a live one reported in the end, whatever writes crossed before;
  deletion leaves nothing behind;
- **snapshots**: a fresh snapshot is bounded in age; a deleted service has no
  connection at the executor;
- **limits**: the bound per window; the distance of alerts;
- **token state**: a refresh token is used once, its reuse ends the family, and
  the caches only lag behind the database;
- **process**: what was answered is in the history when the process has ended,
  and it does end.

## 2. Plan

| order | module | composes / implements | theorems (in `...Proofs`) |
|---|---|---|---|
| 1 | `AsyncTasks` | implements `TaskLifecycle` | IInv, the six other invariants of its run, TerminalIsFinal, CancelledInQueueNeverRuns, refinement |
| 2 | `AsyncQueue` | one module for three sinks | WrittenOnce, AcknowledgedIsKept, StatsAgree, StopDrains |
| 3 | `ConnectionManager` | implements `ConnectionRegistry` | TransportsAreOwned, ErrorHasCause, InFlightCounts, ExpiredIsRemoved, StrangersSurvive, refinement |
| 4 | `ServiceLifecycle` | the promise of `ConnectionRegistry`, rows, health checker, restart | ClaimsAreOfThisRun, ConnectingIsOwned, DeletedIsClean |
| 5 | `AuthState` | database and caches | RotatedOnce, CachesOnlyLag, ReuseEndsTheFamily |
| 6 | `RemoteRuntime` | control plane, RPC, executor, snapshots | FreshIsRecent, DeletedIsCutOff |
| 7 | `Limits` | rate limits, silence of alerts | BurstIsBounded, AlertsAreSpaced |
| 8 | `Server` | start by role, invocations over pool, queue and database, way down | HistoryIsKept |

All of it is written and proved.  What is left to do: theorems about the two
abstract specifications themselves, so that what they promise follows for the
detailed ones by refinement; and the steps that the liveness arguments rest on
(which measure decreases), as action properties.

None of the modules declares a RECURSIVE operator, so that all of them can be
proved about.

## 3. The modules

### TaskLifecycle

The promise to a client, without queue, workers and slots: a task is *new*,
*accepted*, *working*, *ended* or *dropped* and only moves forward, and the
service is *drained* only when nothing is accepted or being worked on.

### AsyncTasks

| TLA+ | code |
|---|---|
| `status`, `cancelRequested`, `ctx` | `entry.task.Status`, `.CancelRequested`, `entry.ctx.Err()` |
| `queue`, `closed` | `m.queue`, `m.closed` and the closing of the channel, which share a critical section |
| `slots` | the tokens in `controller.sem`, with their holders |
| `pc`, `held`, `outcome` | the program counter and the locals `id` and `err` of each worker |
| `submitter` | the program counter of the request that calls submit |
| `runs` | not in the code: how often `entry.run` was called |
| `Refuse`, `Register` | submit up to the unlock |
| `Enqueue`, `FindFull` + `Withdraw`, `SendOnClosed` | the select of submit: sent, full, panicked |
| `Expire`, `Cancel` | the context's deadline; cancel |
| `Take` ... `Finish`, `Exit` | worker |
| `SyncAcquire`, `SyncRelease` | Invoke |
| `Stop`, `StopDrained`, `StopExpired` | stop |

A critical section, a channel operation or the return of the tool call is one
step.  The unlocked read of the status is one step with `isTerminal`; the reads
it can race with have the outcomes of this step before or after the cancel.
`Return` may give any outcome: a tool may fail, succeed or be cut short whatever
the context says.  `Stop` is the first call of stop; a later one returns nil at once
(`async_task.go:350`) and changes nothing.

### AsyncQueue

One `Record` call is `Load`, `Send`, `Count`, with the fallback `WriteDirect`;
one job is `Take`, `Write`, `Fail`, `Finish`; one `Stop` call is `Swap`,
`Close`, `Drained`, or `SwapFails`.  The atomics and the channel are variables of
their own because the code holds nothing across them.

### ConnectionRegistry

The promise of the manager without transports, handshakes and requests: a
service has at most one connection, a connection is attached at most once and
never comes back, and while a service is being connected nothing else changes.

### ConnectionManager

| TLA+ | code |
|---|---|
| `items` | `Manager.items` |
| `step`, `target`, `fresh` | `Manager.mu` with the program counter of the Connect that holds it, its service and the client it makes |
| `conf` | `mc.service` (the part the connection depends on) |
| `active`, `link`, `session` | `mc.client`, which of its two transports are open, and `GetSessionId() != ""` |
| `once` | `mc.closeOnce` |
| `status`, `failures`, `inFlight` | the fields of `mc.runtime` |
| `pc`, `service`, `subject`, `kind`, `fault`, `reply` | a goroutine in CallTool, ListTools or a health check: where it is, what it asked for, the client it got, and what it will return |
| `lost`, `expired` | not in the code: what has happened to a transport or a client |
| `BeginConnect`, `Build`, `Start`, `Initialize`, `Settle`, `Install`, `Reject`, `Abort` | Manager.Connect, newManagedClient, initialize |
| `BuildFallback` ... `AttachFallback` | fallbackToSSE |
| `Disconnect` | Manager.Disconnect |
| `ConnectionLost` | the OnConnectionLost callback |
| `Get`, with which `Call`, `Ping` and `ListInstead` begin | Manager.get |
| `Begin`, `Respond`, `End`, `MarkSeen`, `MarkError`, `Read`, `MarkTerminal` | CallTool, ListTools, Ping |
| `Remove` | handleClientError |
| `Ping`, `ListInstead` | checkOnce: Ping, and ListTools where that is not supported |
| `Counted`, `Verdict` | markHealthy, markFailure |
| `Locate`, `Miss`, `Apply` | applyHealthState, of the manager and of the client |

Manager.Connect holds `Manager.mu` from beginning to end, so there is one attempt at a time, for
all services, and a variable for the attempt is enough. Each of its steps is one critical section
of the client's own mutex or one call of the transport, because callbacks and requests on older
clients come in between. A request makes one critical section per step for the same reason. A
transport answers what it likes: `Respond` does not depend on whether the transport is open, and
`Initialize` may or may not yield a session. A health check goes by the id of the service: the
client that `Locate` finds need not be the one that was pinged, and the one that `Apply` writes to
may have been replaced since. The row that the check writes afterwards, and what follows from it,
is in `ServiceLifecycle`. What is only displayed (times, error texts, listening state,
capabilities) is left out; OnNotification and markError change nothing else.

### ServiceLifecycle

| TLA+ | code |
|---|---|
| `row`, `tools` | the rows of mcp_services and tools |
| `client` | the item of the manager with the status and the failure count of its runtime |
| `req` | a goroutine in a handler: which method of mcpService, toolService or toolInvokeService it is in, and before which statement |
| `check` | one goroutine of `checkOnce`, with the status it read before the ping |
| `net` | what the server of the service does: up, down, session lost |
| `tried`, `abandoned`, `overlapped`, `strikes` | not in the code: what happened before |

Every statement to the database and every call of the manager is a step; nothing
in the code joins two of them.  `Save` writes all columns of a row that was read
earlier, and inserts it if it is gone, as gorm does.  A caller may hang up at any
time, after which the statements of its request fail.  The process may stop and
start at any step.  It is one that both serves requests and runs the runtime (role
`all`).  A start resets the rows only with `runtime.startup_reconcile` and a schema
to do it in (`app.go:211`, `:480`); the constant `Reconcile` says whether it does.

### AuthState

The rows of one user and its sessions, their entries in Redis, and requests that
read and write them one statement at a time: login, refresh, logout, changes and
deletion of the user, and the validation of an access token with its fallbacks
from cache to database.  The conditional UPDATE of `Rotate` is one step
(`CanRotate`); finding out why it changed no row is another (`AfterLost`).  A request
may end before any of its statements (`CutOff`): the database returns an error, its
context ends, or the process does.  `presented` is not in the code: the tokens that
were presented after their rotation, less those where this, or a Logout, has kept
the presentation from having its consequence.

### RemoteRuntime

| TLA+ | code |
|---|---|
| `req`, `job` | both sides of an RPC: the goroutine on the control plane, and the handler on the executor |
| `Late` | the handler of a request whose caller is gone |
| `client`, `up` | the executor's connection, and whether it runs |
| `snap` | the entry in Redis: the age of what it says, of its ObservedAt, and the time to live |
| `Receive`, `Lose` | doJSON: an answer; a timeout or a broken connection, after which the job goes on |
| `Save`, `Persist`, `DropSnapshot` | persistSnapshot on both sides, and DEL, any of which may fail |
| `EndpointError` | an error comes back as a text |
| `Crash`, `Restart` | the executor |

### Limits

`service` and `user` are the two maps of buckets, `last` the map of the alert
service.  `Allow` and `NotifyServiceError` are one step each, because they run
under a lock; the mail is a step of its own.  `calls` and `alerts` are not in the
code: the ages of the latest calls that were let through and of the latest alerts,
newest first, as many as the properties speak of.  A tick is any unit of time.

### Server

| TLA+ | code |
|---|---|
| `cfg` | role, RPC, and which queues and the task manager are on |
| `pc` | where main is: loading, opening the database, migrating, EnsureAdmin, reconciling, serving, shutting down, cleaning up |
| `cleanupFns`, `closing` | the slice in Build, and that its last function has begun |
| `Wanted`, `Registered` | the conditions under which Build registers a function, and what it has registered when it is done |
| `listening`, `servers`, `expired` | serveApp and shutdownServers |
| `call`, `task`, `hist` | an invocation: its handler, its task, its row in request_histories |
| `health` | the health checker's goroutine between the test of `closed` and the send |

The detail of tasks and queues is in their own modules; here a task is queued,
runs and records, and a record is queued and written.  What matters is which of
them is still there when another one needs it.

Definitions called `Slip...` are not part of any specification.  They are wrong
forms of a guard or an assignment, kept next to the right one, with which each
property has been shown to be able to fail.

## 4. The runs

| run (cfg) | instance | shows |
|---|---|---|
| `AsyncTasksMain` | 2 tasks, 2 workers, 1 synchronous caller, queue of 1, 1 slot | all invariants, and that `IInv` of the proofs is one; final statuses; accepted tasks end, stop returns; `TaskLifecycle` with its fairness |
| `AsyncTasksRevived` | as above | *violation*: a cancelled task goes back to running |
| `AsyncQueueMain` | 3 records, 2 workers, 2 Stop calls, queue of 1 | written once, kept, counted, drained; records settle, Stop returns |
| `ConnectionManagerMain` | 1 service, 2 clients, 1 user that calls or checks, threshold 2, a row with the fallback that refuses a session and one without either | no orphan transport, ERROR has a cause, in-flight counts, expired clients go and their successors stay; a session error is acted upon; `ConnectionRegistry` with its fairness |
| `ServiceLifecycleRaces` | 1 service, 2 requests, threshold 1, reset at the start | statuses are of this process, CONNECTING has an owner, deletion leaves nothing |
| `ServiceLifecycleFair` | 1 service, 1 request, threshold 2, no reset at the start | in the end a dead connection is dropped and a live one reported, whatever an earlier process has left in the row |
| `ServiceLifecycleStrikes` | as above | *violation*: one failed check takes a fresh connection down |
| `AuthStateMain` | 1 user, 3 sessions, 2 requests, 1 fault (a failed write to Redis, a lost entry, or a request cut off) | a token is exchanged once, a reuse that is dealt with ends the family, caches only lag |
| `RemoteRuntimeMain` | 2 requests, 1 late one, TTL 1, timeout 1 | a fresh snapshot is recent, a deleted service is cut off |
| `RemoteRuntimeNotConnected` | as above | *violation*: a service without a connection cannot be disconnected or deleted through the control plane |
| `LimitsMain` | 2 services, 2 users, limits 2 and 1, windows of 3 and 2 ticks, 2 notifiers | at most twice the limit in less than a window; alerts are spaced |
| `ServerMain` | all roles and configurations, 2 invocations, 1 slot, 1 worker, history queue of 1 | the history is kept, the way down ends |

**Bounds.**  Tasks, records and invocations are submitted once, and requests come
back to where they began.  Two tasks fill a queue of one or both workers' hands,
and compete with the caller for the slot; a queue with two ids adds nothing to
the order of steps of one task, and the proofs cover it.  Three records do the
same for the sinks: one queued, and one each for a worker to hold and for a full
queue to send on to the fallback.  The connection manager may make two clients in
all: the second replaces the first while a user is still busy with it, which is
all that a reconnect, a stale error, a stale callback and a verdict that reaches
the wrong client need.  One user is enough for that, because the other parties are
Connect, Disconnect and the transports; the proofs are for any number.  Two rows
take every path of the handshake: the one with the fallback may end up on either
transport, and is rejected at the end if it has got a session it refuses.  A row
brings the failure count 1, so that one failed check reaches the threshold and
none alone does from 0.

`MaxFailures` in `ServiceLifecycle` is the value above which failure counts are
not told apart; it equals the threshold, and only the comparison with the
threshold is ever made.  `Reconcile` is TRUE in the run whose properties speak of
it (without the reset a row goes on claiming a connection of the process before,
see section 6) and FALSE in the run of the liveness properties, which has the more
states for it to go wrong in; they have been checked with TRUE as well.  `AuthState`
names two bounds: `MaxVersion` (one change of the version is enough for a value to
be stale) and `MaxFaults`, for failed writes to Redis, lost entries and requests
that are cut off together; three sessions are
a parent, its successor and one that a crossing refresh or login adds.  A state in
which a Save has undone a change of the user is checked and not continued
(`UntilOverwritten`): what follows from it is in section 6.  In `RemoteRuntime`
ages above TTL + timeout + 1 are one value, and one request at a time is late; with
a TTL and a timeout of one tick every order of expiry, answer and write occurs.
In `Limits` a count stops at the first value above its limit and ages at the
length of the window.  In `Server` two invocations fill the slot, the worker
and the queue for each other.

**Symmetry** is used among services, sessions, requests, users and notifiers only
in runs that check invariants.

**Deadlock.**  A run whose system may really stop (everything submitted is over
and the workers have exited) says `CHECK_DEADLOCK FALSE`.

**Fairness.**  Weak fairness for what the Go runtime does by itself: a goroutine
that can take a step takes one, a timer fires, a request inside submit or Record
goes on, `wg.Wait` returns.  A tool call is assumed to return once its context
has ended, as the transports do, and not before; a synchronous caller is not
assumed to give its slot back; nobody is assumed to submit, cancel or stop.
`AsyncTasksMain` gives every task a deadline: without one (`default_task_timeout`
0) a tool that never answers keeps a task and stop waiting for ever, and the
code promises nothing else.  In `ConnectionManager` the steps of Connect go on,
because initialize works under a timeout, and a user goes on except in the request
itself, which may never return; nobody is assumed to connect or disconnect.  In
`ServiceLifecycle` the ticker brings a round of checks again and again, and a
check or a request that has begun goes on, because all of its calls work under a
timeout.  In `Server` main goes on, the timer of the shutdown fires, tasks end with
their deadlines and the database answers; a synchronous call need not, and no
signal need come.

Two of these assumptions are not guaranteed by the code.  A task has no deadline
if `default_task_timeout` is 0, as said above, and then the way down waits for it.
And a mail is assumed to return: `AsyncQueue` is also the queue of the alerts, and
its workers send mail through `pkg/email/sender.go:24`, which sets no deadline;
the clean-up stops that queue without one either (`app.go:255`).  A mail server
that accepts and does not answer would keep Stop, and the process, waiting.
`Server` leaves the stop of the alert queue out of the way down on this assumption.

## 5. The proofs

Each module of section 2 has a module of proofs.  It defines an inductive
invariant `IInv`, shows that the initial states satisfy it and that every step
keeps it, and derives from it each invariant that the module's runs check (theorem
by theorem under "theorems" in `PROJECT.json`).  The theorems hold for every value
of the constants under the one assumption the module names; TLC has checked every
`IInv` on the instance of its run before it was proved, and checks that of
`AsyncTasks` in the run itself.

| module | assumption: what it asks for | why the properties are not inductive by themselves |
|---|---|---|
| `AsyncTasks` | `ConstantsAssumption`: finitely many workers, one at least, and callers, who are not workers; a queue with room for one | that a task runs once depends on its id being in one place (`Placed`) |
| `AsyncQueue` | `QueueConstants`: finitely many records and workers, one worker at least; a queue with room for one | that a record is written once depends on its being in one place (`PlacesFit`) |
| `ConnectionManager` | `ManagerConstants`: finitely many users, configurations of the right type, a threshold above 0 | who owns a transport depends on how far Connect has come (`AttemptFits`, `Made`) |
| `ServiceLifecycle` | `LifecycleConstants`: a threshold above 0, which counts can reach; a reset at the start or none | what a request writes depends on what it read several statements before (`StagesFit`, `TriedFits`) |
| `AuthState` | `AuthConstants`: bounds of versions and faults | who may use a token depends on how the rows hang together (`TreeFits`) |
| `RemoteRuntime` | `RemoteConstants`: a TTL and a timeout above 0 | a snapshot was on its way before it was written (`AgesFit`) |
| `Limits` | `LimitsConstants`: limits are numbers, windows above 0, services are not users | a bucket does not know which calls it has counted (`BucketFits`) |
| `Server` | `ServerConstants`: one slot, one worker and one place in the queue at least | what is still there depends on the order of the clean-up (`OrderFits`) |

**AsyncTasks.**  An id enters the queue once, because its request leaves
*registered* with it (`RequestFits`); a worker takes it out of the queue, so at
most one worker holds it; only that worker makes a task running and ends it, and a
cancel meanwhile changes only what is pending (`WorkFits`).  The slots are counted
by the workers that are at *run* or *release*, so the limit needs the cardinality
lemmas and nothing about tasks.  DrainedMeansFinished follows because a drained
manager has no worker that could hold a task and a worker exits only on an empty,
closed queue (`StopFits`); this is where a worker is needed to exist.
CancelledInQueueNeverRuns is a property of what follows a state, not of a state:
`Revoked` says what a task is that was cancelled in the queue, and `RevokedStays`
that no step changes it, which uses that a worker that takes it is at *check*.

**AsyncQueue.**  `PlacesFit` counts the copies of a record, `CallersFit` and
`WorkersFit` say what each place means for the number of writes. StatsAgree is about sizes of
sets: `pending` counts what is in the channel and in the hands of workers, less one for each
submitter between its send and its count. The proof follows these sets (`Sent`, `Busy`, `Failed`,
...) through each step; a step changes one of them by one element.

**ConnectionManager.**  `Made` is the heart: at each step of Connect it says which
transport of the new client is active and which were closed, in particular that
the fallback begins only after the primary transport is closed.  `ClientsFit` says
that close, once done, leaves nothing open, and that no two services share a
client; `UsersFit` what a user still knows of a client that may have been replaced
meanwhile.  StrangersSurvive is an action property: `LeavesStep` goes through the
actions and finds one of the three reasons for each step that takes a client away.
ErrorHasCause needs that ERROR during the handshake is settled or has a cause
already (`CausesFit`).  The verdict of a check keeps it although it may reach any
client the service has by then: it writes ERROR together with a count that has
reached the threshold, and CONNECTED otherwise (`Apply`).

**ServiceLifecycle.**  A row says CONNECTED or CONNECTING only by a write of this
process, so everything that can still make such a write is about a service that
was tried in it (`TriedFits`); the start of the process makes this true by its reset,
so ClaimsAreOfThisRun and ConnectingIsOwned are stated, and proved, for processes
that do it (`Reconcile`).  DeletedIsClean holds for deletions that nothing
overlaps: `DeletingFits` says what has been removed at each stage and that nobody
is there to put it back (`Alone`), `DeletedFits` that it stays so.

**AuthState.**  That a token is exchanged once needs that an id that was taken has
no row yet and belongs to one request (`FreshFits`), besides the condition of the UPDATE. That its
reuse ends the family needs that every session is of the version of its family (`TreeFits`), so
that raising the version reaches all of them, and that a token that was presented again has a
request at work on it until then (`ReuseFits`). A request that is cut off at the mark or between
the mark and the new version leaves that work undone (section 6), and the theorem is about the
presentations that were not; it covers any number of requests that are cut off anywhere else, and
any request that goes on beside one that was. The caches lag because what a request is about to
put there was true when it was read, and these facts do not become false (`WorkFits`,
`VersionsFit`); this is stated for histories in which no Save has undone a change of the user, as
the property is.

**RemoteRuntime.**  A status is dated at most a timeout after it was read, in the
store and on both sides of every RPC (`AgesFit`); what a handler has read is no older than the
wait of its caller (`JobsFit`). With the TTL this bounds what a fresh snapshot says. For
deletions, `Apart` and `KnownGone` say that as long as no Connect and Delete have crossed, a
Delete that goes on to the row knows there is no connection.

**Limits.**  `BucketFits` says which of the latest calls can be those of the bucket
there is, that the others are older than it, and that all but as many as the limit
of these are out of the window: twice the limit and one call never fit into less
than a window.

**Server.**  What is left of the clean-up functions is in the order of Build and
has no gap below (`OrderFits`): while the history queue is there, so is the
database it writes to, and the panic of the health checker comes only after the
history queue has been drained (`EndFits`).

**Refinements.**  `ImplementsLifecycle` and `ImplementsRegistry` show that every
step of `AsyncTasks` is one of `TaskLifecycle` or none under the mapping of
section 3 (`stage` from the request, the worker and the status; `service` from
stop), and every step of `ConnectionManager` one of `ConnectionRegistry` or none.
They are about the safety part; the fairness part of the abstract specifications
(`ImplementsFairLifecycle`, `ImplementsFairRegistry`) is checked by TLC.

**Only model-checked.**  The liveness properties (AcceptedResolves, StopReturns,
RecordsSettle, ExpiryIsHandled, DeadIsDropped, AliveIsReported, ShutdownEnds) and
the fairness of the refinements: they need ENABLED, which the prover does not
handle.  The three violations are counterexamples, which a run shows and a proof
cannot.  The bounds that the proofs still have are those of the modules themselves:
`MaxFailures`, `MaxVersion` and `MaxFaults`, for every value of them.

## 6. Findings

Shown by a run:

1. A cancel between the worker's unlocked check (`async_task.go:191`) and its
   update (`:195`) is undone: the task a client was told is cancelled is run.
   `TerminalIsFinal` is the strongest statement that holds: this window is the
   only one.
2. A client starts with the failure count of its row (`managed_client.go:102`),
   and nothing resets it: a service that connects after failed attempts is taken
   down by its first failed check.
3. Errors lose their identity on the way from the executor (`rpc/client.go:165`):
   a service without a connection can be neither disconnected nor deleted through
   the control plane.

Met while modelling, part of the models, and not given a run:

4. A submission that races with stop panics on the closed channel
   (`async_task.go:173`) and leaves a task that is pending for ever;
   `AsyncQueue.Submit` can panic instead of returning `ErrAsyncQueueStopped`
   (`async_queue.go:79`).  In a handler gin recovers.  In the health checker
   nothing does, and its Stop does not wait: the process can end in the middle of
   the clean-up (`Server`: `Send`), with audit records still queued.
5. `AsyncQueue.Stop` waits only in the call that came first.
6. A transport that is lost after it was initialized and before
   `managed_client.go:219` is shown as connected, although the callback (`:270`)
   is there to prevent that.  The health checker notices.
7. A check that crosses a Disconnect writes CONNECTED to the row of a service
   without a connection (`health_checker.go:124`), and nothing takes it back until
   the next request.
8. A user above its limit uses up the limit of the service for everybody
   (`invoke_control.go:127`): the service is charged before the user is refused.
9. `Save` of a row that was read earlier undoes what was written in between:
   a token version that was raised (`user_repository.go:56`), or a deletion.
10. A Logout with a token that has been rotated overwrites the status
    (`auth_session_repository.go:96`), and a later reuse is not noticed as one.
11. The default administrator is looked for among the rows that are not deleted
    (`scripts/init_admin.go:14`), while the unique indexes of users cover deleted
    rows as well: after another administrator has deleted it, the process cannot
    start any more.
12. The reuse of a token is marked by one statement (`auth_service.go:168`, `:223`)
    and acted upon by the next (`:173`, `:228`).  A request that ends between them
    has used up the mark: the session reads revoked, later presentations stop at
    IsUsable (`:179`), and its successor stays usable (`CutOff`).
13. A check writes its verdict to the client that the service has by then
    (`manager.go:159`): one that crosses a reconnect gives its ERROR, or its count,
    to the successor, and one below the threshold writes CONNECTED over the ERROR
    of a connection that was lost meanwhile.
14. With `runtime.startup_reconcile` off, and in a control plane of its own, which
    has no manager and resets nothing (`app.go:211`), rows go on claiming the
    connections of an earlier process until a check, a request or a Connect
    writes them again.

## 7. Not modelled

The black list of access tokens, signatures and expiry; permissions; the readiness
probe, which only reads; audit records and their deletion by age; logging and mail,
and with it the stop of the alert queue; the rows as a control plane without a
manager sees them (`RemoteRuntime` has its connections and snapshots);
the contents of arguments, results and error texts, and their masking; which tools
a service has; task statistics; the growth of the task map, which never forgets a
task; several executors, which the code does not provide for.  Handlers, DTOs and
the configuration keep no shared state: what they decide (which role serves which
request, which fields belong together) is in `Server`.
