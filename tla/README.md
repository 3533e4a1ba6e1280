# QuantFlow: a TLA+ verification project

QuantFlow (a fork of DeerFlow) is a harness for language-model agents: a gateway
with several worker processes runs *agent runs* in *threads*, keeps them in a
database, streams their events to clients, and surrounds them with schedulers,
remote tasks, sandboxes and chat channels. This project models the part on which
all the others rest, the life of a run on several workers, and the services around
it, checks them with TLC on small instances, and proves with TLAPS, for all instances, the
invariants of the run protocol, its refinement of an abstract life cycle, and the invariants
of some of the services.

Paths below are relative to `src/backend/`; `H` stands for
`packages/harness/deerflow`.

## 1. The system

| component | state | operations | what is hard |
|---|---|---|---|
| run store (`H/runtime/runs/store`, `H/persistence/run`) | one row per run: status, owner, lease, cancellation request, stop reason | insert with claim, start, status update, terminal compare-and-set, request cancel, renew lease, takeover, snapshot put | every guard is the last line of defence against a stale writer |
| run manager and worker (`H/runtime/runs/manager.py`, `worker.py`) | in-memory `RunRecord`s, tasks, lease timers, terminal attempts, per-thread admission gate | admit, start, execute, cancel, finalize, renew, fence, recover, evict | every await is a point where another task, worker, timer or the clock moves; answers get lost; processes die |
| stream bridge (`H/runtime/stream_bridge`) | bounded event log per run, producer leases | publish, END, subscribe with replay, retire | eviction under slow readers, reconnects, producer death |
| stream consumers (`app/gateway/services.py`) | per-request cursor | SSE join, wait, disconnect policy | a terminal row without END |
| run inputs (`H/runtime/runs/inputs.py`, `input_control.py`, `app/gateway/run_inputs.py`) | steers and queued inputs in the run's row | submit, deliver, confirm, close, pause, dispatch, retry | input arriving while the run ends, or taken back while it is delivered |
| run events, journal (`H/runtime/events`, `journal.py`) | append-only events, message buffer | append, flush, seal | ordering, flush against terminal event |
| scheduler (`app/scheduler`) | tasks, occurrences, launch claims | poll, claim, launch, complete, reconcile | launch and completion race, recovery of claims |
| MCP tasks (`app/mcp_tasks`) | remote tasks, claims with tokens | poll, cancel, notify | late results of expired claims |
| subagent batches, executor (`H/subagents`) | items with leases and attempts | claim, run, finalize, retry, pause | double execution, attempt limit |
| sandbox leases (`H/sandbox/lease.py`) | owners per sandbox, teardown reservations | acquire, reuse, release, tear down | teardown against reuse |
| channels (`app/channels`) | leader lease per provider, dedupe keys | acquire, renew, observe, record | two leaders, redelivery |
| memory queue (deermem `core/queue.py`) | debounced contexts, one worker | add, process, flush, drain | drain against the worker |
| LLM limiter and circuit breaker (`llm_error_handling_middleware.py`) | permits, waiters, breaker generation | acquire, hand off, trip, probe | cancellation after hand-off, stale results |
| outbox, login throttle, session pool, skills, projects | rows or pools | claim, compare-and-set | stale claims and snapshots |

How they meet: routers, the scheduler, channels and MCP notifications all *admit*
runs through the run manager; the worker publishes to the stream bridge and the
event store and holds sandbox leases while it runs; completion hooks call back into
the scheduler. The run row is the one thing all workers share, so its protocol
decides whether the rest can be right. `PROJECT.json` lists every component with
its status, and under `hazards` the places, by line, where this code is hard to test.

What makes the other components correct, in the words of the properties:

* streams: no silent hole, END only after the tail, every reader finishes;
* limiter and breaker: permits are neither lost nor made up, a half-open circuit loses its
  probe in one known way only, results from before it opened do not move it;
* claims that expire (MCP tasks, batches, outbox, launches): whoever lost the claim
  changes nothing, results are applied in order, the outcome is reported;
* scheduler: an outcome stands, a finished once task does not run again, a task is
  never left where no pass picks it up;
* leadership: one gateway is connected to a provider at a time;
* memory queue: an accepted update is extracted or cancelled; sandboxes: an execution's
  client is live; throttle: a lock is served in full; run inputs: an accepted steer gets
  a turn and a removed input does not.

What makes the run protocol correct:

* one pending or running row per thread, and one worker executing for it;
* a run that was reclaimed from a worker is no longer executed by that worker;
* an outcome is decided once, an accepted cancellation is never answered by
  success, and what was announced stays true;
* an orphaned row is reclaimed, a cancellation ends the run, a committed run
  reaches END;
* a replacement does not run while the older run restores its checkpoint.

## 2. Modules

| module | role |
|---|---|
| `RunStore` | the rows and the store's guarded statements as operators, one per store method. The guard is the WHERE clause, the effect the SET |
| `RunOwnership` | workers, records, tasks, cancellation, heartbeat, recovery, admission, crashes and time over that store; properties; inductive invariants; fairness |
| `RunLifecycle` | the abstract specification: what a client may rely on |
| `MCRunOwnership` | instances for TLC (symmetry) |
| `RunOwnershipProofs` | proofs: the lease protocol; outcomes, announcements, the single executor; the refinement of `RunLifecycle` |
| `RunRestoreProofs` | proofs: nothing executes during a restore of its own worker |
| `MemoryStream`, `RedisStream` | the stream bridges; `RedisStream` with its producer, recovery and consumers |
| `RunInputs` | the inputs of one run, its graph, its dispatcher and its users |
| `LlmLimiter`, `LlmCircuit` | permits of model calls; the retry loop and its breaker |
| `MemoryQueue` | debounced memory updates, their timer, consumer and drain |
| `ScheduledTask`, `McpTask`, `SubagentBatch` | one task, remote task or batch on several gateways |
| `ChannelLeadership`, `NotificationOutbox`, `LoginThrottle` | one provider, delivery or client address on several gateways |
| `SandboxLease` | execution leases on one sandbox client |
| `ChannelLeadershipProofs`, `MemoryStreamProofs`, `SubagentBatchProofs` | proofs: the leader election, the in-process bridge, the batch |
| `ServicesProofs` | proofs about its instances of breaker, sandbox leases, outbox, throttle, scheduled tasks and MCP tasks |
| `DeliveryProofs` | proofs about its instances of the memory queue, a run's inputs, the limiter and the Redis bridge |
| `MCDelivery`, `MCServices` | the components above, composed for TLC |
| `CompositionProofs` | proofs: the theorems of the components hold of those compositions |
| `MCRedisStream`, `MCMemoryQueue`, `MCScheduledTask` | instances of one component |

### The run protocol: state

All rows belong to one thread: the admission gate and the partial unique index are
per thread. `rows[r]` is the durable row, `older[r]` the rows that existed when it
was inserted (the `created_at` and registry order), `rec[r]` the `RunRecord` at the worker that
admitted the run. `rec[r].pc` is the position of the run's task, and the other
fields carry the names of the code where possible: `abort` (`abort_event` and
`abort_action`), `lost` (`ownership_lost`), `proof` (`terminal_commit_proof`), `rev`
(`terminal_status_revision`), `armed` (an entry in `_lease_deadlines`), `rollback`
(`rollback_finalization_pending`), `pending` (`terminal_commit_pending`), `saved`
(`terminal_status_persisted`). `tcall`, `ccall`, `rcall` and `adm` are the store calls in
flight: of the task, of a client's `cancel()`, of the heartbeat and of an
admission. `published` is the `run.terminal` event and `ended` the END frame.

Time: a lease is the *time left* on it. It ages with `Tick` in the row, in the record
and in a call in flight alike, and stops at `Floor`, one tick past the grace period,
because no comparison in the code tells older leases apart. No bound on the clock
is needed, and the state space is finite without a state constraint.

### The run protocol: actions

Every store call is three steps: sent, applied by the store, seen by the caller.
With the fault `"io"` a call may raise before or after it was applied, or be sent
again by `_call_store_with_retry`. Between the steps the lock the code holds is
modelled as it is: the admission gate is held across admissions and across the
snapshot write of `record_assembly_evidence`, and actions that take the registry
lock wait for it (`GateFree`); the lease timer, the fence and the store answers do not.

* admission: `AdmitBegin`, `AdmitStore`, `AdmitAck` (`_admit_thread_operation`,
  `_atomic_replacement`);
* task: `Attach` ... `End` (`run_agent`: startup barrier, evidence snapshot,
  execution, `_finish_cancellation`, checkpoint restore, `finalize()`), `Evict`;
* cancellation: `CancelBegin`, `CancelApply`, `CancelAck` at the owner, `RemoteCancel` elsewhere;
* leases: `RenewBegin`, `RenewStore`, `RenewAck`, `Signal`, `Deadline`, `Takeover`;
* environment: `Tick`, `Crash`.

The agent itself may finish, fail or run for ever. Error texts are kept as a few
tags because the code compares them when it matches an acknowledgment with a
staged outcome.

### The run protocol: assumptions

* `Slack <= Grace`: a worker's timers run with at most `Slack` delay, clock skew
  included. This is the budget that `RunOwnershipConfig` documents for
  `grace_seconds`. `MayTick` states it, both for the deadline timer and for the
  cancellation by that timer of a snapshot write still in flight; without the second
  half the unguarded `put` could reopen a reclaimed row, which
  `docs/runtime-guidance-details.md` concedes ("These guards do not fence every
  RunStore mutation").
* A restarted process draws a new worker id (`_generate_worker_id`), so a crash
  removes a worker for good; at least one worker stays up.

### The components around a run

Each module models one object (one stream, one task, one lease row) with everybody who
touches it. A transaction, a statement, a Redis script or a block under a lock is one
step; what is read before an await and used after it is kept in the state of whoever
read it. Durations are reduced to what the code compares them with: a lease has expired
or not, a retry may be due. `ChannelLeadership` and `LoginThrottle` keep numbers,
because their safety is arithmetic on durations.

* **`MemoryStream`** (`memory.py`). `streams[g]` is a log with its Condition, `current` the
  registered one, `waiting[g]` the writers in line for the Condition, `sub[c]` a
  subscription with its offset. `Publish`, `PublishEnd` and `Cleanup` join the line of a
  log, `Write` is the block under the Condition, `Resolve` and `Read` are the two blocks of
  `subscribe`. A client disconnects and comes back with any cursor it may hold.
* **`RedisStream`** (`redis.py`, `services.py`, the recovery in `deps.py`). `log` is the
  capped stream, `tracked` and `active` the two keys of the producer lease, `row` the durable
  row, `prod` the producer (publish, lease, END, delayed cleanup, death), `recovery` the orphan
  recovery of another gateway, `cons[c]` an `sse_consumer` or
  `wait_for_run_completion`. Timing taken from the constants of the code: the delayed
  cleanup (60 s) comes after two heartbeats (15 s) of every consumer (`CleanupIsDue`), and one
  check takes less than a heartbeat interval (`Checking`). Properties about the producer
  lease are claimed for runs that held one (`prod.leased`); a consumer that never saw the
  stream is told only that the run ended.
* **`RunInputs`**. `row`, `closed`, `order` and `item` are the run's row with its inputs;
  `graph` is the task with its `RunInputControl`: `DeliverRead`, `DeliverClaim` (before
  the model), `Call`, `Finish`, `Close` (after the agent), `Continue` (a goal), then
  `Receipts`, `Pause`, `Commit`. `Save` is the checkpointer, which writes behind the graph.
  `Drain`, `ClaimQueued`, `Create`, `Dispatched`, `WaitOver` are the dispatcher after a success, and
  `Retry` a user who retries by hand. A crash is a task that makes no further step while its
  lease runs out (`LoseLease`, `TakeOver`). The graph library is external: a jump to the
  model starts at the first hook before it, and every end of the agent passes the hooks
  after it.
* **`LlmLimiter`**. `inFlight`, the queue of tasks, the sleeping threads, and where every
  caller stands. `Release` hands the permit to the first live waiter; `Cancel` hits a waiter before
  or after the hand-off; `LoopCloses` kills a waiter whose loop is gone. A loop that closes
  between the grant and the waiter's wake-up is not modelled.
* **`LlmCircuit`**. State, failure count and generation of the breaker; per call its
  attempt and its admission generation. `Signal` is a control-flow signal out of the call or of the
  retry event, `FallbackSignal` one out of the fallback event: it ends the call in the handler of the first
  error, where nothing gives the probe back (pc `bubbled`).
* **`MemoryQueue`**. `feeds` is what was offered and what became of it, `items` the queued
  contexts, `timer`, late `callbacks`, the single `consumer` with its `batch`, and `drain`,
  the steps of `flush_sync`.
* **`ScheduledTask`**. The task row, its occurrences, the runs they started, and two
  launchers: the poller and request handler of one instance, or two gateways. Due claim,
  admission, launch claim, launch, bookkeeping, completion hook (possibly lost), expiry, pause,
  resume, and the recovery passes after a restart or by lease. In `Drain` the reading of
  the pause and the write that follows are one step.
* **`McpTask`**. The remote task with its answers numbered, the row, the notification state, the
  runs launched by idempotency key, and gateways that poll, cancel or notify. Failed deliveries are counted
  up to the limit they are compared with. Assumed: two notifiers
  never share one SQLite file (that backend has one gateway); a run that cannot be found counts as
  failed.
* **`SubagentBatch`**. The batch, its items with claim numbers, attempts and leases, and what
  every gateway executes. The transactions lock the batch row first, as on PostgreSQL.
* **`ChannelLeadership`**. The lease row with its epoch, each gateway's view and
  transport, calls in flight, and calls that were given up and take effect later. Assumed: a
  transport's stop ends within `StopTime`.
* **`NotificationOutbox`**. One row, its owner's preference, and workers that select, claim,
  check, confirm, send and record. `allowed` counts the sends that are justified:
  one, and one more for each send whose outcome was not recorded.
* **`LoginThrottle`**. The counter row as a versioned record, logins between snapshot and
  compare-and-set, the sweep, and an operator who changes the policy.
* **`SandboxLease`**. The provider's client by number, the serializer, pending releases, the
  teardown reservation, and executions that own or borrow the client. `retain`, used by tests only, and
  the forced destruction at shutdown are left out.

**Composition.** These components share no variable: what connects them is a call into the
run manager, and each model has that call's outcomes as its own choices. `MCDelivery` and
`MCServices` therefore give every component its own variables and let a behaviour choose one
of them (`part`, `service`); the others keep their initial state. The reachable states are the
disjoint union of the components', so one run checks all of them at the cost of their sum and
shows of each exactly what a run of its own would show.

## 3. Runs

| run | instance | shows |
|---|---|---|
| `one_run_cancelled` | 1 run, 2 workers, lease 2, grace 1, slack 1; interrupt and rollback, local and remote; crash, cleanup and agent faults | `OutcomeInvariant` (the inductive invariant of section 4, which includes `FenceInvariant`), `TypeOK`, `PublishedIsDurable`, `CancelExcludesSuccess` |
| `one_run_faults` | as above with rollback only; store, crash and agent faults | `ReclaimedRunIsFenced`, `FinalAckIsDurable`, `EndedIsTerminal`, `RowOutcomeIsFinal` |
| `replacement` | 2 runs, 2 workers, lease 1, grace 0; interrupt and rollback admissions; no faults | `OneActiveRow`, `OneExecutor`, `NoRunDuringRestore`, `ImplementsLifecycle` |
| `recovery` | 1 run, 2 workers, lease 2, grace 0; crash faults; fairness, no symmetry | `OrphanIsReclaimed`, `CancelIsHonoured`, `CommittedRunEnds` |
| `peer_restore` | 2 runs, 2 workers, reject admissions, rollback requests | violation of `NoRunDuringRestore` |
| `own_restore` | 2 runs, 1 worker, interrupt admissions, rollback requests; agent faults | violation of `NoRunDuringRestore` |
| `delivery` | both bridges, run inputs, limiter, memory queue; fairness of each | the properties below |
| `services` | scheduler, MCP tasks, batches, channels, outbox, throttle, breaker, sandboxes | the properties below |
| `redis_finish` | Redis bridge, 2 consumers, no event; fairness | violation of `ConsumersFinish` |
| `queue_drain` | memory queue, 1 key, 2 updates, 2 late callbacks | violation of `TrueMeansDrained` |
| `sched_parked` | once and cron tasks, single and multi instance, 2 launchers | violation of `NotParked` |
| `sched_outcome` | a cron task on 2 gateways | violation of `FirstOutcomeStands` |

`delivery` shows:

* in process, no subscriber misses an event without a gap frame (`NoSilentHole`), END
  comes after everything published before it (`EndAfterTail`), and a reader of a log that
  ended, was cleaned up or is no longer registered finishes (`ReadersFinish`);
* over Redis, END cuts off nothing (`EndCutsNothing`), no owed event is passed over without a
  gap (`NoSkippedEvent`), and one consumer of a run that is over finishes (`ConsumersFinish`; with
  two consumers it does not, see `redis_finish`);
* the limiter's counter is the number of owners of a permit (`PermitsAccounted`), nobody
  waits beside a free permit (`NoLostPermit`), waiters are served (`WaiterIsServed`);
* an accepted memory update is queued or under way until settled (`NoUpdateDropped`), and is
  settled (`UpdatesSettle`);
* an accepted steer of a run that succeeds was heard by the model, and an input that was taken
  back is neither heard nor run afterwards (`InputsKept`).

`services` shows:

* a once task whose own run completed stays completed (`CompletedOnceStays`), and a given-up
  occurrence is reopened only for the run its launch produced (`ReopenedForItsRun`);
* answers of an MCP server are applied in order (`SnapshotsInOrder`), and the outcome of
  its task is reported or visibly given up (`OutcomeReported`);
* a batch is over exactly when its items are (`BatchSettled`), and a worker whose claim was
  handed on changes nothing (`LostClaimChangesNothing`);
* two gateways never run a provider's transport together (`OneTransport`);
* no notice is sent more often than it may be, or after it was muted (`PushesAllowed`);
* a login lock that is active under every policy used so far is neither lifted nor moved, except
  by a login that succeeds (`LockIsServed`);
* a half-open breaker that sheds calls has one probe, under way or ended by a signal out of its
  fallback event (`ProbeIsAccountedFor`, and see below), and outcomes from older generations are
  ignored (`StaleOutcomesIgnored`);
* an execution's sandbox client is live while it is bound (`BoundClientIsLive`).

Both runs check the type invariants of their components too. Deadlock is not checked in
them: a log that is finished, a task that is over or a batch that is settled really stops.

Why the bounds are enough to be interesting: two workers are an owner and a peer,
which is all any guard distinguishes; with lease 2, grace 1 and slack 1 a renewal
can be confirmed, refused and late, and the timer can fire in time, late within the
slack, and before or after the peer's claim. Two runs are a run and its
replacement. In `replacement` the lease is one tick, so a run is admitted, started and
replaced around one expiry but a renewal cannot lengthen a lease there; the
one-run instances cover renewal. The fault `"agent"` (the agent raises, or its
delivery receipt cannot be written) is left to the one-run instances and to
`own_restore`: with it the two-run space more than doubles, and the two-run
properties are about replacement, not about how a run fails. Deadlock is checked in these runs (the clock always moves).

Bounds of the components: the limits of the code are set to the smallest value at which they bite
(a log of 1 or 2 events, a queue of depth 1, a breaker threshold of 2, 2 permits for 5
callers) so that eviction, backpressure and hand-off happen at once. `MaxGens`,
`MaxOccurrences`, `MaxClaims`, `MaxEpoch`, `MaxClients` and `MaxFeeds` allow each object to be made,
lost and made again, once more than any property needs. Two gateways
are the holder of a claim and its successor; `MaxEpoch = 3` lets the first holder come back. Four
model calls are needed to open the breaker, probe it and still have a call from before. `Sizes` and
the `Setups` pick combinations, rather than all, of items, attempts and capacity, or of pollers
and notifiers: each is the smallest one in which one of the races exists. The memory stream appears
twice, with more events (`stream`) and with more writers in line (`writers`).

The channel instance is the default configuration in units of five seconds. It is tight:
with a stop that takes one unit longer, or a shutdown that takes two units longer, `OneTransport`
fails. Section 4 proves it for every configuration with `OperationTimeout + StopTime <=
GraceSeconds + 1`, `OperationTimeout + ShutdownTime <= GraceSeconds + 1` and `OperationTimeout <=
RenewInterval < LeaseSeconds`, and no more can be proved: TLC refutes it one step outside. The
configuration of the code accepts `lease_seconds >= 3` and `grace_seconds >= 0` and so values
outside these bounds, for which a shutdown hook of 5 s outlasts the lease.

`OneExecutor` makes one exception. The lease a replacement asks for is computed when its
admission begins (`_admit_thread_operation`) and the run it replaces keeps renewing its own until the
answer is seen. If that answer takes longer than the lease and the grace period, another worker may
claim the new row and start a run of its own while the replaced run is still executing: TLC finds this
in 19 steps without any fault (lease 2, grace 0, three runs). The property therefore leaves out
the runs that such an overdue admission has claimed. No document promises more.

`NoRunDuringRestore` passes when every replacement goes through interrupt and
rollback *admissions* without client cancellations, which is the case the code waits
for. It fails in two others, recorded as findings:

* `peer_restore`: `cancel(rollback)` persists `interrupted` at once, which frees the
  thread's slot before the checkpoint has been restored. A run admitted by another
  worker does not see the first worker's `finalizing` flag.
* `own_restore`: a run that failed on its own stages `error` without setting
  `finalizing`. A replacement claims its row and starts; the older run's terminal
  compare-and-set then loses to a durable rollback request and it restores its
  checkpoint under the new run.

Both contradict the docstring of `wait_for_prior_finalizing`. Neither depends on time, so
these two runs look only at behaviours in which no lease is used up (`Prompt`), which
finds the counterexample in seconds; the runs that pass are unconstrained.

The other four violations, also recorded as findings:

* `redis_finish`: the first consumer that sees the expired producer lease deletes the tracking
  key; for the second the lease is untracked, so no heartbeat tells it that the producer died.
* `queue_drain`: `flush_sync` reads `is_processing` and `pending_count` under the lock one after the
  other; a timer callback that takes the rest between the two makes it answer True.
* `sched_parked`: a manual trigger is admitted while the poller holds the due claim; when its
  launch fails the task is left `running` without a lease, which no pass selects.
* `sched_outcome`: `_drain_queue` writes `interrupted` from a stale list without protecting a
  terminal occurrence, and overwrites the outcome another gateway recorded.

One more defect is in the models, and the property about it has it as its one exception. A half-open
breaker should wait for a probe that is under way; the docstring of `_release_half_open_probe` says that a probe
consumed by a control-flow signal is released "so the circuit can admit the next probe instead of fast-failing
forever". But `_emit_fallback_event` and `_aemit_fallback_event` re-raise `GraphBubbleUp`
(`llm_error_handling_middleware.py:691` and `:705`) and are called inside the handler of the first error (lines 1100 and
1184), where, unlike around the retry event, no clause releases the probe. The call is over, the probe
stays set, and every later call is shed until the process restarts. In the model that is
`FallbackSignal` of the probe, after which `Probes` is empty while `circuit.probing` stands;
`ProbeIsAccountedFor` says that this is the only way for it to happen.

Two behaviours are in the models and forbidden by no property, because the
repository promises nothing else: `dispatch_queued_inputs` stops at the first exception, so
taking back one queued input while an earlier one runs leaves the ones behind it queued until
a retry by hand; and with several gateways `_reconcile_stuck_once_tasks` may cancel a once
task whose due claim expired before it was dispatched.

### Fairness

`FairSpec` assumes weak fairness of: a task whose await is over (`TaskProgress`, which
leaves out the agent's own progress), the store answering, time passing, timers
firing and the periodic orphan scan (`_reconcile_orphans_periodic`). It assumes
nothing of clients, of the agent, of crashes, and no heartbeat: a worker that stops
renewing loses its run and a peer reclaims it, which is the point of the lease. With
`"io"` faults these properties would need the store to answer eventually, so
`recovery` runs without them.

The components of `delivery` are checked under their own fairness (`FairSpec` in their modules):

* `MemoryStream`: a writer in line gets the Condition, a subscriber continues. Nothing of
  producers, cleanups or clients.
* `RedisStream`: a consumer's loop goes on (Redis wakes or times out a blocking read), a
  waiting caller joins, the lease of a dead producer expires (a Redis TTL), and recovery goes
  on once begun. Nothing of the producer.
* `LlmLimiter`: a call ends (`Release`; providers have timeouts), a granted task and a notified
  thread run. Nothing of new callers, which may barge in as in the code.
* `MemoryQueue`: deadlines pass, the timer thread fires, a callback gets the lock, an extraction
  ends (its model call has a timeout). Nothing of the drain.
* `RunInputs`: none; its property is safety.

## 4. Proofs

Every theorem is about a specification of section 2 with all its constants open: any number of
workers, runs, calls, clients or gateways, any lease, limit or queue size that meets the named
assumption of the module. TLC has checked each inductive invariant on small instances first.

### Leases (`RunOwnershipProofs`, first part)

For any strategies and requests and all faults, with `Slack <= Grace`:

* `FenceIsInvariant`: `Spec => []FenceInvariant`;
* `TypeCorrect`: `Spec => []TypeOK`;
* `ReclaimFences`: `Spec => []ReclaimedRunIsFenced`;
* `OneSlot`: `Spec => []OneActiveRow`.

`ReclaimedRunIsFenced` is not inductive: that a takeover finds the owner fenced
depends on what the owner believes about its lease and on what is in flight.
`FenceInvariant` adds, run by run:

* `LeaseIsConfirmed`: the lease in the record, and the one in a renewal on its way,
  never outlives the durable one, so when a peer sees the lease expired past the
  grace period the owner sees it expired too;
* `TimerIsArmed`: an owner that has no store answer about its outcome has its timer
  armed, and the timer is at most `Slack` late;
* `ProofMeansClosed`: an acknowledgment, or a positive answer on its way, means that the
  row is no longer active, so an owner whose timer is disarmed by an acknowledgment cannot be
  taken over;
* `SnapshotIsAlone`: while the unguarded snapshot write is in flight there is no terminal
  write, renewal or claim beside it and the timer is armed;
* `CallsMatch` and `AdmissionIsFresh`: what calls in flight carry and whom they belong to.

The takeover step then closes: an active row has no proof at its owner, so its
timer is armed and at most `Slack <= Grace` late, so the row's lease cannot be expired
past the grace period unless the owner is fenced or gone. `OneSlot` follows from
a second argument: local steps leave rows alone, store calls never make a row
active except `start_run` (which keeps it active) and `put` (which the unique index
refuses), and an admission claims every active row in the transaction that inserts
the new one.

The proofs have one lemma per action, two step rules for actions of one run
(`LocalStep`, `CalmStep`), one for writes to one row (`RowsStep`), and separate
arguments for actions that touch all runs (admission, crash, clock).

### Outcomes (`RunOwnershipProofs`, second part)

`OutcomeIsInvariant` proves `Spec => []OutcomeInvariant`, a second inductive invariant on top of
`FenceInvariant`:

* `BusyIsUndecided`: a run that still executes, as far as its worker knows, has no proof of an
  outcome and no call in flight that could close its row;
* `ToldIsOver`: once clients were told (`run.terminal` or END) the row is terminal, the task is
  past its last write and no admission will insert the run again, so nothing in flight reopens it;
* `CallsAgree`: a cancellation in flight carries the revision it was staged at, and the positive
  answer to a terminal write is about the status the row has now;
* `ProofIsDurable`: a proof names the outcome in the row, up to a rollback's `error` on its way;
* `BusyHolds`: a busy run owns an active row, or is about to be superseded by an admission of its
  own worker;
* `AdmissionHolds`: an admission that was answered owns the active row, unless its lease ran out.

From it follow, for all faults, `CancelExcludes` (`CancelExcludesSuccess`) and `EndedTerminal`
(`EndedIsTerminal`). The other four conclusions need the hypothesis

    AnswersArrive == ~StoreFaults \/ Strategies \subseteq {"reject"}

under which `PublishedDurable`, `FinalAckDurable`, `OneRunsAtATime` (`OneExecutor`) and the
refinement `LifecycleImplemented` (`ImplementsLifecycle`) are proved, and `OutcomeFinal`
(`RowOutcomeIsFinal`) from the refinement's step argument. The last three parts of
`OutcomeInvariant` are claimed under this hypothesis too.

The hypothesis says that no claim is made by an admission whose answer can be lost. It is needed:
without it TLC refutes `RowOutcomeIsFinal`, `PublishedIsDurable` and the refinement with two runs
and one worker. An interrupt admission commits, its answer is lost, and the run it claimed goes
on without knowing. The replacement's row expires and is taken over, which frees the slot, and
then the old run's unguarded snapshot `put` turns its interrupted row back to running. This is the
residual the code concedes for `put` (`docs/runtime-guidance-details.md`), and the cleanup of an
unseen admission is not modelled (section 5). The two disjuncts are what the argument covers:
every store call is answered, with any strategy; or calls are lost and repeated, with `reject`
admissions.

`RestoresAlone` (`RunRestoreProofs`) proves `NoRunDuringRestore` under the conditions in which the code keeps it: `AnswersArrive`,
no client cancels (`Requests = {}`), and one worker. It follows from a third inductive invariant, `RestoreInvariant`, which
`RestoreIsInvariant` proves for any number of workers:

* `RestoreFits`: a started run that was aborted for a rollback, or restores already, keeps its `finalizing` flag until
  its task is done;
* `OlderIsOver`: the rows a run was admitted after are terminal, so no later admission claims one of them;
* `AdmissionAlone`: while an admission is answered and not yet acknowledged, its worker has no registered run that
  came after a run it claimed;
* `RestoreAlone`: once a run has passed `wait_for_prior_finalizing`, no older run *of its worker* will restore.

The flag is raised by the acknowledgment of the admission, under the gate that the new run's `try_start` needs too;
`AdmissionAlone` says that no other run has slipped through before it. The conditions are not for the proof's sake:
`own_restore` refutes the property with one worker once a client may ask for a rollback, and the barrier looks at one
registry only, so across workers nothing makes a run wait for an older one whose lease has run out.

The refinement is shown step by step: an action of `RunOwnership` that writes no row, announces
nothing and ends nothing leaves the variables of `RunLifecycle` alone; each of the others is one
abstract step of the run it concerns, and an admission is the abstract admission with its claims.

### The services around a run

| module | assumption | inductive invariant | conclusions |
|---|---|---|---|
| `ServicesProofs`, `Circuit` | threshold and attempts are at least 1 | `CircuitInvariant` | `ProbeAccountedFor`, `StaleIgnored` |
| `DeliveryProofs`, `Limiter` | limit at least 1, finitely many callers | `LimiterInvariant` | `PermitsKept`, `PermitsFound` |
| `ServicesProofs`, `Sandbox` | names of executions differ from `None` and the reaper's | `LeaseInvariant` | `BoundIsLive` |
| `ChannelLeadershipProofs` | `ChannelAssumption`, see section 3 | `ChannelInvariant` | `OneConnects` |
| `MemoryStreamProofs` | `StreamAssumption`: sizes are numbers, a queue holds one event | `StreamInvariant` | `NoHole`, `EndComesLast` |
| `SubagentBatchProofs` | `BatchAssumption`: finitely many gateways, sizes are numbers, a batch has an item and an item an attempt | `BatchInvariant` | `BatchSettles`, `LostClaimsIgnored` |
| `ServicesProofs`, `Outbox` | finitely many workers, at least one attempt | `OutboxInvariant` | `OutboxAllows` |
| `ServicesProofs`, `Throttle` | a login has an attempt; a policy has a maximum of at least 1 | `ThrottleInvariant` | `ThrottleServes` |
| `ServicesProofs`, `Schedule` | limits are numbers | `ScheduleInvariant` | `ScheduleOnceStays`, `ScheduleReopened` |
| `ServicesProofs`, `Mcp` | limits are numbers, no gateway is named `None` | `McpInvariant` | `McpOutcome`, `McpInOrder` |
| `DeliveryProofs`, `Queue` | limits are numbers | `QueueInvariant` | `QueueKeeps` |
| `DeliveryProofs`, `Input` | limits are numbers | `InputInvariant` | `InputKeeps` |
| `DeliveryProofs`, `Redis` | `RedisAssumption`: the stream keeps at least one entry, the bound on events is a number | `RedisInvariant` | `RedisSkipsNothing`, `RedisEndsLast` |

* **`CircuitInvariant`**: a call was admitted in a generation no later than the breaker's, with
  the number of trips of that time if the generation is still the same; a breaker that probes has its
  token at a call under way, or at one that took it along (`Held`). So an outcome from before the last trip carries an older generation
  and is dropped by `_owns_current_circuit_generation`.
* **`LimiterInvariant`**: the counter equals the number of callers that hold or were granted a permit
  and stays within the limit, nobody who could run waits beside a free permit, and the list of
  sleeping threads holds each sleeper once (`SleepersSleep`), without which a release could wake one
  thread twice and lose a permit.
* **`LeaseInvariant`**: whoever binds or uses the client has the live one, and whoever releases or
  finishes a teardown is the one the reservation names; while the reservation stands nobody binds.
* **`ChannelInvariant`**, gateway by gateway: what it believes of its lease, or will learn from a
  call on its way, is no longer than the row (`HoldIsDurable`, `CallFits`); a release that was given up
  is for an epoch that is over (`ReleasesAreOld`), so it takes no later lease away; a transport that
  runs or stops is covered by what is left of the row's lease and its grace (`TransportIsCovered`). An
  acquisition by another gateway needs a row expired past the grace, so the earlier transport is off.
* **`StreamInvariant`**: the retained events of a log are consecutive and the one evicted last is
  the one before them (`Holds`); the id counter is the end of the registered log, one publish at most is
  in line, and a retired log that END reaches holds nothing (`Registered`, `LineFits`, `Stands`); a
  subscriber has heard everything between where it began, or was told of a gap, and where it stands,
  also up to the cursor it may come back with (`SubFits`).
* **`BatchInvariant`**, item by item (`ItemFits`): an item that is held belongs to its last claim, so
  the fence of a write (`Owns`) admits the last claimant only; the attempts an item has used are no more
  than the claims since its last retry; and the executions admitted for those claims, together with
  the gateways whose execution the executor may still admit (`Unspent`), are no more than the attempts. That
  sum is what `LostClaimChangesNothing` needs to be inductive: a claim takes an attempt and adds a
  gateway to the count, an admission moves it from one term to the other, and a requeue gives an attempt
  back only for a gateway that leaves the count, because the fence shows that its claim is the last one.

* **`OutboxInvariant`**: a claim number is held by one worker at most and an unsettled row has an
  attempt left (`ClaimsFit`); what was pushed, the workers that are about to push (`Sending`) and the chance
  the row itself still has (`Chance`) are together no more than `allowed`. Only the sum is inductive: a
  claim moves the row's chance to a worker, and a lost outcome gives the row another one.
* **`ThrottleInvariant`**: a login goes by a time and a policy that were current once, and reads the row
  again only while it has an attempt left (`LoginsLag`). Its compare-and-set then writes what follows from the
  row as it stands, under a policy in use so far, and a lock that every such policy keeps is not lifted.
* **`ScheduleInvariant`**: a launching thread works on an occurrence that exists, has the run it
  records, and of a once task carries the cursor of the row (`LaunchFits`); a linked occurrence has its run
  and is running or over (`RowFits`); once the newest automatic occurrence is launched, or over with its
  run, the once task has no run time left (`ParentFits`); only a run that is over has its hook due
  (`HooksFit`). No thread can then be under way with a cursor that would set a completed task back to running.
* **`McpInvariant`**: the notification columns belong together (`ColumnsFit`), a run has been launched for
  a version the row has had (`RunsFit`), the row is not ahead of the server (`TaskFits`), and once it is over
  the outcome is in its last version, wherever that one is (`OutcomeFits`, `ToldFits`). Gateway by gateway:
  what a notifier has read is still in the row unless a poll put a new event over one that waited
  (`ReadFits`), and one notifier at a time is between its read and its claim (`OneReads`); what it claimed is as
  it left it while it owns the claim (`ClaimFits`); an answer is not older than the row while its gateway
  holds the task (`AnswerFits`), which is what keeps answers in order.
* **`QueueInvariant`**: an update that was accepted and not settled is covered by a queued context or by
  one the consumer took, and without a consumer none is taken.
* **`InputInvariant`**: what the graph delivered stands until the receipts are written, and was heard
  unless the call is still to come (`GraphFits`); while the run is going nobody dispatches, an acknowledged
  input was delivered, the inputs are open, and a graph that ended without a stop has closed them with
  every steer heard (`GoingFits`); a dispatcher moves only after the run is over, and holds one input that
  it has claimed (`CallersFit`). The commit of a success is the step that needs it: the row says only that
  the task may end, and that every steer was heard is known from the position of the graph. That a
  removed input stays out uses `GraphFits` for the model call and `CallersFit` for the new run.
* **`RedisInvariant`**: retained entries are consecutive up to the last id, and END is the one
  that is no event (`LogFits`); a subscriber has every event from the first it was owed up to its cursor, and
  what it holds back begins there (`SubscriberFits`). Trimming moves the head of the log past a cursor, which
  the next read or the check after a wait notices before it delivers, so the prefix it has stays whole. That is
  `NoSkippedEvent`. For a real END it is enough for `EndCutsNothing`, because a log whose last entry is END has a
  producer that is past its last publish (`ProducerFits`). For an END that a consumer makes up more is needed,
  of all consumers at once: whoever makes it up had everything when its check began (`Settled`), and no publish
  was possible since. A consumer that saw the producer's lease expired has nothing unread, and the
  other checks that were under way at that time are over or have nothing unread either (`ExpiryIsSeen`); once the tracking
  key is gone every check under way is of that kind (`UntrackedIsCalm`); a producer that has a
  lease, and its keys, still in place has no consumer that was told END (`EndIsFrozen`); and when a delayed
  cleanup takes the log away every consumer has gone through two waits that found nothing (`WatchFits`,
  `Counting`), which is where the 60 and 15 seconds of section 2 enter.

`ServicesProofs` and `DeliveryProofs` are about instances of the components over the variables of the
compositions, and `MCServices` and `MCDelivery` extend them; for the others they instantiate the proof modules.

`CompositionProofs` carries these conclusions to `ServicesSpec` and `DeliverySpec`, the
specifications the runs `services` and `delivery` check: a behaviour of the composition is a
behaviour of each part, in which the part may stand still. The assumptions of the compositions, which TLC
evaluates, are those of the parts. `ServicesTypes` joins the invariants of all eight services to
`ServicesTypeOK`; every invariant and action property of `services`, and of `delivery` but for `DeliveryTypeOK`, is so a
theorem of the specification its run checks.

### What is only model-checked

* Liveness (`OrphanIsReclaimed`, `CancelIsHonoured`, `CommittedRunEnds`, `ReadersFinish`,
  `ConsumersFinish`, `WaiterIsServed`, `UpdatesSettle`): the provers handle neither fairness over quantified
  actions nor `ENABLED`.
* `NoRunDuringRestore` across workers: it holds of the two-worker instance of `replacement` and not in general
  (section 3). `RestoresAlone` has it for one worker.
* `DeliveryTypeOK`: most of its types are conjuncts of the inductive invariants above; what is left are bounds
  on the logs of the Redis bridge that the model's limits give, and the dispatcher's list, which
  `RunInputs` filters with `SelectSeq`, a recursive definition of which the provers know nothing.

## 5. Not modelled

*In the run protocol:* scheduled-goal cleanup, `_close_cancelled_admission` (the unseen row is
left to orphan recovery), `reserve_thread_operation` and checkpoint writes as thread
operations, idempotent re-admission, `fail_start_if_pending`, the shutdown drain, stores
without a heartbeat, and token and progress columns. `update_run_completion` is left out
because, with an owner and `require_terminal`, it never changes a status. The status
`timeout` exists in `RunStatus`, but no transition in this protocol writes it. The order of the
two locks of an assembly write is not modelled either: `PutBegin` takes the thread gate and the snapshot lock in one
step, so the model cannot deadlock on them. By reading, the code cannot: a renewal releases the snapshot lock
before it asks for the gate (`_renew_one_lease`).

*In the components:*

* streams: transient Redis errors and their back-off, the TTL of a retained stream, frame formats, the
  cancellation a disconnect requests;
* run inputs: the gates that pause child subagents, byte limits, input sources;
* scheduler: quotas, arbitration of busy threads, edits and deletion, goals, `end_at`, cron
  arithmetic;
* MCP tasks: submission and its compensation, thread incarnations, back-off times;
* batches: several batches in one claim pass, acceptance checks, deletion, SQLite's unlocked reads,
  `cancel_requested_at`;
* channels: the adapters, the message manager, configuration revisions, start-up back-off, a
  transport whose stop fails and is retained;
* outbox: rendering, routes, rate windows; throttle: the sweep of long-idle counters and
  the in-memory store; sandboxes: container backends, ownership across processes, the warm pool.

*Not at all*, with the reasons in `PROJECT.json`: the event journal, the subagent executor, the
MCP session pool, agent graph and middlewares, checkpoint retention, knowledge plane,
guardrails, routers, TUI, frontend. Most of the repository's lines are of this kind: adapters
of providers, tools, parsing and rendering, and user interface, which hold little state that
several actors share, or run a language model whose steps the code does not determine.

## 6. Plan

1. Done: run store, ownership, abstract lifecycle; the streams and their consumers; run
   inputs; limiter and breaker; memory queue; scheduler, MCP tasks and batches; channels,
   outbox, throttle, sandbox leases; the proofs of section 4.
2. Next: the remaining run operations: cancelled admissions, thread operations, shutdown.
