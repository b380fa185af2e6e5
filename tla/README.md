# Verification project for yoetz

yoetz keeps, for every task an agent works on, an append-only ledger of what was
done and observed, and answers `check` requests by freezing a prefix of it,
evaluating policies (and optionally an AI-powered review) over the frozen case
and recording the findings. A local daemon owns the ledgers; agents, hooks and
humans reach it over MCP, a CLI and a TUI. This directory holds TLA+
specifications of the parts where that can go wrong silently: the check
operation, its lease, the ledger it reads and writes, the pipeline that drives
it, the AI-powered review with the human decision and the provider requests in
the middle of it, the start of a task across two stores, the cache that shares
one bundle between calls and processes, and the lifecycle of the daemon and its
vault.

Paths below are relative to the repository's `src/yoetz/`.

## Inventory

| Component | State it keeps | Operations | What is hard |
|---|---|---|---|
| Task ledger (`adapters/memory/ledger.py` rules, `adapters/sqlite/repository.py` durability) | records, operation rows, frozen cases, semantic jobs and attempts, transient acquisition reservations | `append_batch`, `freeze_case`, `advance_check_phase`, `enqueue_semantic_job`, `claim_semantic_job`, `record_attempt_outcome`, `select_attempt`, `fail_semantic_job`, `suspend_check_for_repository_grant`, `renew_leases`, `commit_check_if_current`, `fail_check_if_current`, recovery | locks released across awaits, memory ahead of SQLite, leases that lapse, crash and takeover |
| Check pipeline (`application/check.py`) | one invocation's copy of the lease and the case | `execute_check_commit` | two invocations of one request, failures after the lease is lost, configuration changed between replays |
| Semantic attempts (`application/semantic_attempts.py`, evaluator in `service/ready_composition.py`) | job and attempt rows, disclosure wait | `run_durable_semantic_attempts` | provider latency against the execution deadline, a human decision in the middle, rebinding a started attempt after takeover |
| Capture tickets (`adapters/sqlite/observation.py`) | pending, deleted or revoked handoffs | record, delete, tombstone | gate the admission of checks while checks gate the observations that clear them |
| Observation coordinator, drain (`application/observation_*.py`) | outbox, hook sequences, budgets | ingest, drain, materialize, loss reconciliation | at-least-once delivery, loss accounting |
| Import jobs (`adapters/sqlite/importer.py`, `application/import_review.py`) | job, batches, publication reservations | reserve or resume, publish, complete, quarantine | resumption after a crash between batches |
| Ambiguous commits (`application/unit_of_work.py`) | none | `_await_definite`, `resolve_ambiguous_operation` | cancellation with unknown outcome |
| Start (`application/start.py`, `adapters/sqlite/start_catalog.py`) | route, start operation and session rows in the catalog; the bundle with its ledger and objects | reserve or resume, provision, append the lifecycle event, pin the result, complete | two stores and a crash between them, a lease outlived by its attempt, two starts of one pair |
| Bundle runtime (`adapters/runtime.py`) | cached entry, opening task, pending and live leases, registered fence | route a call to the entry, open, rebind, replace, lease, evict, close | everything happens around awaits; another process takes the bundle over |
| Daemon lifecycle (`service/daemon.py`, `lifecycle.py`, `installation_recovery.py`) | service state, lock reason, admissions, drain, ready application | start, activate, re-ready, lock, idle relock, drain, stop | calls, ceremonies, locks and timers meet at one activation lock |
| Check waits (`service/check_waits.py`) | waiters | wait, wake, time out | lost wake-ups |
| Vault, unlock (`service/vault.py`, `unlock.py`, `adapters/keys`) | locked/unlocked, key material | unlock, lock, rotate | operations that straddle a lock |
| Privacy and egress (`application/privacy_*.py`, `egress.py`, `adapters/privacy`) | policy generations, proposals, authorizations, audit | propose, decide, reserve, consume | one-use authority, revocation against a dispatch in flight |
| Upgrade (`service/bundle_upgrade*.py`, `application/package_update.py`) | journal | plan, apply, resume, roll back | crash between effects |
| Lineage, projects, coordination (`application/lineage*.py`, `projects.py`, `coordination.py`) | catalogs of child manifests and project operations | register, sweep, retire | parent and child ledgers move independently |
| Kernel (`kernel/`) | none | pure policies, projection reducers, ranking | data only |
| Object store, providers, integrations, migrations, protocol, domain, config, CLI, MCP, TUI | files, connections, values | I/O and conversion | no protocol state of their own |

How they interact around a check: the front end calls `execute_check_commit`;
it routes to a task runtime, freezes a case in the ledger (reading the capture
tickets beside it), publishes a deterministic checkpoint and advances the
operation row, lets the evaluator create and drive a semantic job under the same
lease, and commits or fails the operation. Meanwhile agents append work, the
drain appends observations, the importer publishes batches and receipts are
rendered, all through `append_batch` of the same ledger; and the daemon can die
between any two of these steps.

## What makes the core correct

* A check request gets one verdict. Whoever asks, whenever, after whatever
  crash, is answered with it.
* A verdict (and a receipt) covers what its caller believed the ledger held.
  Only observation may lie between; work never does.
* While a check is running, its session's observations wait; when it is
  abandoned they do not wait for ever.
* A lease that has lapsed or was taken over has no authority left.
* A review asks its provider for each prepared request at most once, never
  without the decision its policy demands, never more often than its budget, and
  never reports as a timeout a request whose answer nobody has.
* A check that waits for a human ends, whether or not the human answers.
* A start interrupted anywhere leaves catalog and bundle in a state its replay
  can finish, appends one lifecycle event, and one session of the task is live.
* A call works on the bundle of its own session, its connection is not closed
  under it, and no process writes under an ownership it has lost.
* A service that says ready is unlocked; after a lock only what may lift that
  lock makes it ready again; an admitted call keeps its application; locks and
  stops end.

## Modules

* `CheckLedger.tla`: one task's ledger. `log` is the record log (a batch is one
  record, `since` the frontier its author pinned); `ops` the operation rows in
  memory, `disk` the same rows in SQLite; `reserved` the acquisition
  reservations; `calls` the running invocations with their copy of the lease;
  `tickets` and `imports` the neighbouring rows; `clock`, `gen` the time and the
  owner generation. `told` and `acquired` are history. Each action is one
  critical section:

  | Actions | Code |
  |---|---|
  | `AppendWork`, `AppendImport`, `AppendObserved`, `AppendReceipt` | `append_batch` for the four families the ledger tells apart |
  | `RecordTicket`, `DeleteTicket`, `TombstoneTicket` | capture ticket rows |
  | `ReserveImport`, `CloseImport` | import job state |
  | `FreezeBegin`, `FreezeAdmit` | new check: reservation, staging outside the lock, revalidation and admission |
  | `ReclaimBegin`, `ReclaimAdmit` | exact replay takes over a lapsed or foreign row |
  | `ReplayVerdict`, `CommitReplays` | stored results and errors answer replays |
  | `AdvancePhase`, `EnqueueJob`, `CloseJob`, `SuspendForGrant`, then `Sync` | mutate live memory under the lock, persist in a second critical section |
  | `RenewLeases`, `CommitCheck`, `CommitConflict`, `CommitRefused`, `FailCheck`, `FailSettled` | clone, persist, adopt: one step |
  | `Leave` | any refusal, contention, cancellation or failed sync; the invocation is gone, its row is not |
  | `Tick`, `Restart` | time; death of the service and recovery from SQLite, with quarantine of rows whose resume object cannot be authenticated |

* `OneVerdict.tla`: the abstract promise, without leases, phases, processes or
  crashes. `CheckLedger!Promise` instantiates it with the verdicts on disk and
  the operations on the log.
* `MCCheckLedger.tla`: instance definitions for TLC.
* `CheckLedgerProofs.tla`, `CheckLedgerVerdict.tla`, `CheckLedgerLease.tla`: theorems.

Abstractions of `CheckLedger`. The empty log is the prefix `start` leaves. The request digest is
identified with the frontier the caller pinned (a different digest is refused
without a change; an unpinned check is one pinned to the head). A refusal that
changes nothing is a stutter or `Leave`. The single in-call retry of
`freeze_case` is a `Leave` followed by a `FreezeBegin`. The lease's expiry is
computed at the admitting instant. The row compare-and-swap of a reclaim is
expressed on its lease generation: while the lease is lapsed nothing else of the
row that admission uses can move. Jobs are `none`, `live` or `done`; since
attempt handles are not modelled, any invocation that reached `semantic_wait`
may report the outcome that closes the job. `publish_work`'s optional pinned
frontier only refuses, so `AppendWork` is the accepted case. `told` holds the
verdicts that come from the ledger; an error the pipeline raises without being
able to store it is outside this module.

* `SemanticJob.tla`: the review of one check from the moment its row enters
  `SEMANTIC_WAIT`. `row` is the operation row with its lease, `job`, `attempts`
  and `wait` the semantic rows, `audit` the privacy audit row of each attempt's
  provider request (with a history of sends and approvals), `calls` the
  invocations inside `run_durable_semantic_attempts` with their locals, `time`
  the place of now against the frozen execution deadline and its cleanup grace.

  | Actions | Code |
  |---|---|
  | `Replay`, `Enqueue`, `EnqueueRefused`, `LoadJob` | reclaim of the row, creation or load of the job in `_evaluate` |
  | `RenewEntry`, `RenewEntryRefused` | entry renewal, terminal recovery, cleanup-only lease |
  | `LoopHead`, `LoopHeadRaises`, `FailJob` | head of the attempt loop, deadline exits |
  | `ClaimNew`, `ClaimRebind`, `ClaimRefused`, `ClaimRaises` | `claim_semantic_job`, polling, failure without a handle |
  | `RecoverResponse`, `ClaimedTooLate`, `EnterDispatch` | what is done with a claimed attempt |
  | `Prepare`, `AskHuman`, `Recover`, `Authorize`, `Send`, `SendRefused`, `ProviderAnswers` | egress and privacy audit of one attempt |
  | `DispatchRaises` | `_terminalize_after_failure` with a handle |
  | `RenewReturned`, `RecordResponse`, `RecordWait`, `RecordRetry`, `RecordFailure`, `RecordRefused`, `Select`, `SelectRefused`, `Resolve` | the outcome of a dispatch becomes durable |
  | `Conclude` | `check.py` finalizes under the lease the evaluation handed back |
  | `Decide`, `ProposalExpires`, `Tick`, `LapseIdle`, `LapseInUse`, `JobLapse`, `Cancel`, `Restart` | human, clock, faults |

* `MCSemanticJob.tla`: its instances for TLC. `SemanticJobProofs.tla`: theorems.

Abstractions of `SemanticJob`. Clock values are replaced by what the code
compares them with: a lease renewed while the job is open expires with the grace
of the frozen deadline (`bound`), every other one is a 60 second lease (`short`)
that may lapse at any moment, also the one a renewal beside a closed job leaves.
A lease is known by its holder, a handle by the attempt and the expiry it
inherited: two handles bound under the same execution bound are equal, as in the
code. A ledger write and its SQLite sync are one step, because no external
effect lies between them; `CheckLedger` models the two apart. The renewal and
the terminal write of `_terminalize_after_failure` are one step, and so are the
phase advance and the commit of `Conclude` (`CheckLedger` has both, and the ways
a commit is refused). Reasons are reduced to what `should_retry_after` and the
deadline exits tell apart: `provider_timeout` is one code, whether a request timed
out after it was sent (`_map_provider_outcome`) or was never sent because the
deadline was over; `transient` stands for the other retriable reasons, and a spent
budget of several attempts is recorded `exhausted` (`Exhaustion`). What each
provider call reported is kept in the history field `told` of its audit row. The review
is admitted by policy and has one endpoint: repository grants, the fallback
endpoint, legacy jobs, progress rows and the local transport are not modelled.
The egress is composed as the service composes it, without an inline human
channel, so decisions arrive through `record_human_decision` from outside.

* `CheckPipeline.tla`: `execute_check_commit` as a whole: `op` is the operation
  row with its lease, phase, pinned findings and result, `job` the semantic job
  bound to a case, `call` the invocations with what each has computed, `env` what
  the service reads afresh at every invocation (the mode asked for, the policy,
  the wording contract, the service generation, the grant). One action per stage
  of an invocation; restarts change the policy and the wording between replays.
  The row obeys the lease discipline proved of `CheckLedger`; the review is the
  promise of `SemanticJob`: it answers, waits for a human's decision on one
  disclosure (`AwaitDisclosure`: the row stays pending under its lease), or is
  refused. `MaxWaits` bounds the waits of one behaviour, in place of the decision
  or the job's deadline that ends them.

* `StartTask.tla`: all starts of one workspace and project pair. `catalog` is the
  route, the start operation rows and the session health of the catalog
  database; `disk` the bundle, its log and its objects; `run` the attempt under
  way; `told` what callers were answered. `Reserve`, `Resume` and `Replay` are
  the three outcomes of `reserve_or_resume`; `Provision*` to `Complete` the
  stages of `start.py` in order, each one transaction or one file operation;
  `Busy`, `Cancel`, `Crash` and `LeaseExpires` strike between any two;
  `Publish` and `ReconcileWork` are what the holder of the active session does
  meanwhile. One attempt runs at a time, as the service's start lock has it.

* `BundleRuntime.tla`: the cache of open bundles for one task. `entry` are the
  entries opened so far, `cached` and `opening` the two slots of the cache,
  `call` where each call stands, `fence` the generation registered in this
  process, `owner` and `log` the owner row and the records in the bundle,
  which another process may change. Each action is the code between two awaits:
  `Reuse`, `Rebind`, `InUse`, `Replace`, `Open`, `Join` are the branches of
  `_entry_for`; `AcquireFence` and `OpenLedger` the shielded opening;
  `ValidateRebind`, `Validate` and what follows the lease; `Evict`, `Close`,
  `Takeover`, `Cancel` the world around it. The cache lock is never held across a
  suspension, so it needs no variable. The branch of `_entry_for` in which a
  waiter publishes the opened entry itself (1041-1053) is left out: the adoption
  callback always runs first on the event loop.
* `FencedLog.tla`: what ownership of a bundle promises: every record is written
  under the generation that owns the bundle at that moment, and generations only
  grow. `BundleRuntime!Fenced` instantiates it.
* `BundleRuntimeProofs.tla`: theorems.

* `ServiceLifecycle.tla`: the service state, the vault, the ready application,
  the reason of the last lock, the admissions and the drain, moved by the start,
  ordinary calls, locks, the unlock ceremony, the idle monitor and stop. Locks are
  of three kinds, any number of each: SERVICE_LOCK calls (`Explicit`), which come
  on a connection that may go away, the monitor's session and suspend events
  (`Session`), and its `monitor_lost` (`Lost`), a hard lock after which no event
  comes.

  | Actions | Code |
  |---|---|
  | `Start`, `Built`, `BuildFails`, `Undone` | start and `_activate_ready_application_locked`, by whoever holds the activation lock |
  | `Connect`, `Dispatch`, `SoftBegin`, `SoftUnlock`, `SoftActivate`, `Finish`, `CancelCall` | an ordinary call, with the soft re-ready it may do first |
  | `Begin`, `Unlocks`, `UnlockFails`, `CeremonyEnds`, `CancelCeremony`, `Activate` | the human's unlock |
  | `RequestLock`, `SessionEvent`, `LockTurn`, `LockDrained`, `LockCloses`, `CancelLock` | `lock()` and who calls it |
  | `DrainEmpty`, `DrainCloses`, `DrainDeadline` | the drain task |
  | `IdleRelock`, `IdleStop`, `Stop`, `StopTurn`, `StopDrained`, `StopTakes`, `StopCloses` | idle monitor and stop |

  The activation lock is a queue, first come first served; a free lock is taken
  without a suspension (`granted`); a task that is woken runs after the tasks
  that were ready before it, each of which runs at most once (`ran`, `Woken`,
  `Runs`). The lifecycle's and the vault's own mutexes are never held across a
  suspension. A SERVICE_LOCK awaits the drain task itself, so a lost connection
  cancels the drain (`CancelLock`); while a half-built application closes, a
  cancellation skips the rest of the failure path (`CancelCall` in `undoing`).
  `held` is history: the last lock that has ended and that nothing entitled to has
  lifted yet. `flaws` is history too: `crossed` when a session lock has ended in
  the middle of a ceremony, `undrained` when a drain has ended before its calls
  did. The vault is in passphrase mode, the dispatch gates (which only let fewer
  calls run) are left out, idle times are abstracted to "may fire when there are no
  clients", and the listeners a stop closes are one step.
* `MCCheckPipeline.tla`, `MCStartTask.tla`, `MCBundleRuntime.tla`,
  `MCServiceLifecycle.tla`: their instances for TLC.
* `CheckPipelineProofs.tla`, `StartTaskProofs.tla`, `ServiceLifecycleProofs.tla`:
  theorems.

## Runs

The first three runs use `MCCheckLedger`. `LeaseTicks`, `ReservationTicks` and
`ExecutionTicks` are 1, 1 and 2, so a lease can lapse under every step, and a
job's deadline outlives the ordinary lease as it does in the code. `MaxClock`,
`MaxLease` and `MaxGeneration` bound deadlines, lease generations and service
incarnations; since no deadline is set beyond `MaxClock`, every lease lapses
within the horizon. Deadlock checking is off because a system that has used up
its publications and its horizon is allowed to rest.

| Run | Instance | Shows |
|---|---|---|
| `calls` | 1 semantic request, 2 invocations, 1 work, 1 observation, horizon 3, 5 leases, 1 crash | `AnsweredVerdictIsDurable`, `LeaseExclusive`, `BarrierHolds`, `CrashLosesOnlyLeaseMotion` and the refinement `KeepsPromise` under races, lapses, failed syncs and a crash |
| `handoff` | 1 request, 1 import, 1 ticketed observation, 1 finding, 1 receipt, 1 crash, fairness | `NoLaunderedWork` for checks and receipts beside the other publication families; `HandoffDrains`: an abandoned check never blocks observation for ever |
| `import_exclusion` (violation) | 1 request, 1 import | a check commits while an import is pending |

The bounds suffice for the interesting cases: two invocations are what a lease
has to tell apart, one record of each family reaches every admission rule in
both orders, and one crash can fall between any two steps of any of them. Two
requests of one session, where one check's record is work to the other, and any
larger number of invocations, crashes or leases are covered by the proofs, which
fix none of these.

The runs of `MCSemanticJob` have two invocations; `MaxFaults` bounds restarts,
cancellations and leases that lapse under a running invocation. `Previews` is
what the policy may answer when the bytes of an attempt are prepared: both
values, so a policy changed between two attempts is included. Deadlock checking
is off because a committed check rests.

| Run | Instance | Shows |
|---|---|---|
| `review` | either policy, 3 attempts, 2 faults, requests that time out after the send | `SentOnce`, `SentOnlyIfApproved`, `WithinBudget`, `OneOpenAttempt`, `TimeoutHidesNoLostAnswer`, `VerdictWasSelected`, `ResponseKept` |
| `finishes` | either policy, 2 attempts, 2 faults, fairness | `CheckFinishes` |

Two faults are what the shortest story of a second send needs: an attempt is
only resumed after a recorded wait, so one restart comes before the send and one
after it. Three attempts leave room for a repair, a second repair that must be
refused, and the budget's edge.

The other runs:

| Run | Instance | Shows |
|---|---|---|
| `checks` | 2 invocations, all four modes, policies disabled and optional, 1 restart, 1 change of the grant, 1 defect, 1 lapsed lease, 1 wait for a disclosure; deadlock checked; fairness | `OneResult`, `CompleteWasReviewed`, `PinnedFindingsCommitted`, `CheckEnds` |
| `starts` | 2 starts of a pair (create; create or attach), 1 crash, 1 cancellation, 1 busy answer, 1 outlived lease, 3 records, closing allowed; fairness | `OneLifecycle`, `PhaseIsBacked`, `SameAnswer`, `ActiveRouteHasOneSession`, `ActiveRouteStays`, `InterruptedStartCompletes` |
| `start_wedged` (violation) | 2 starts, 1 crash | a crash between the directory and the ledger of a bundle wedges the pair |
| `leases` | a write, a read, a start for another session; 2 entries, 1 write per lease, 1 cancellation, 1 takeover, opening limit and close | `CountsExact`, `LeaseServesItsSession`, `LiveLeaseIsOpen`, the refinement `BundleIsFenced` |
| `turns` | the same calls with a reader that comes again and again, 1 eviction, 1 cancellation; fairness | `RemovedIsClosed`, `StartGetsTurn` |
| `locks` | a vault unlocked beforehand, 2 calls, 2 SERVICE_LOCKs, 2 session events, `monitor_lost`, in the pairs of `Meetings`, 1 ceremony, 1 failing activation, 1 lost connection, drain deadline, idle monitor, stop; fairness | `ReadyMeansUnlocked`, `KeysNeedReady`, `AdmittedKeepApplication`, `LockedIsClosed`, `LastLockHolds`, `LockEnds`, `StopEnds` |
| `relocked` (violation) | an explicit and a session lock, 1 ceremony | the session lock weakens the explicit one |

Bounds. Two invocations of a check are a slow one and its replay; the policy
`required` differs from `optional` only in what an omitted mode resolves to, and
that mode is asked for by name too. Two starts of a pair are the interrupted one
and the one that supersedes it. Two entries are the old and the new one of a
replacement; three calls are a user, a rival of another session, and one that
joins either. In `locks`, two calls and a ceremony are all that can queue behind a
lock with different consequences, and `Meetings` names which two locks, or which
lock and a stop, come in one behaviour: a second lock of each kind behind an
explicit one, two session locks, and either kind beside a stop. The safety
properties and the proof's invariants were also checked, without liveness, on a
larger instance (all three of `e1`, `e2`, `s1` with a stop, and `m1`, `s1`, `s2`
with a stop, 1 call, 2 ceremonies, 2 lost connections; 3.6 million states), and are proved
for any number of everything. `handoff` has no semantic request, so the longer
lease of a running job is not among what its liveness has to outlast. Deadlock checking is off in `starts`, `leases`, `turns`
and `locks` because a service whose callers have all been answered, or that has
stopped, may rest.

A property that holds only while some fault stays away says so in its own
formula (`LiveLeaseIsOpen`: no cancelled call; `KeysNeedReady`: no lost
connection and no failed drain; `ReadyMeansUnlocked`, `LockedIsClosed`: no session
lock has ended in mid-ceremony; `AdmittedKeepApplication`: nor has a drain ended
before its calls; `CheckEnds`: grant kept, review not switched off, mode named;
`InterruptedStartCompletes`: no crash, no rival), and the run still contains the
fault for the other properties. What happens with it is under Observations.
`TypeOK` is a run's property for `CheckLedger`, where it is also proved, and for
`SemanticJob`; in the other modules it documents the shape of the state and may
be added to their run.

Fairness of `finishes`: an invocation that is running goes on (it is an asyncio
task), time passes and an idle lease lapses, and the caller replays a request
that is pending, which is what the protocol tells it to do. No human is assumed
to decide, no faults are assumed to happen.

Fairness of the other runs. `checks`: an invocation that is running goes on, a
lease lapses, and the caller replays a pending request when no invocation is
left. `starts`: an attempt that is running goes on, callers replay a request
they have no result for, leases expire, and a read fault of the object store
clears (strong fairness on the successful read, since the model lets it fail
any number of times). `turns`: tasks of the event loop that can go on do; a
caller need not come. `locks`: the same, and timers fire; no client need come,
no handler need return, no human need type.

Fairness of `handoff`: time passes, and the drain keeps offering an
observation it was handed and keeps deleting a delivered ticket
(`application/observation_drain.py` sweeps periodically). Nothing is assumed of
callers.

## Proofs

Every safety property the runs of `MCCheckLedger` check is proved for all constants that satisfy
the assumptions of `CheckLedger` (disjoint families of requests and
publications, natural-number bounds), by TLAPS:

* `CheckLedgerProofs`: `TypeCorrect`, with one lemma per group of actions and
  lemmas on what each row operator returns.
* `CheckLedgerVerdict`: the inductive invariant says that an answered verdict is
  stored, that a row with a verdict is closed in memory and on disk alike, and
  that rows that differ between the two are both pending and agree on the case.
  None of the three is inductive alone: `Sync` writes every row, so what one
  invocation persists for another must already be known to be harmless.
  `AnswersAreDurable`, `RecordsAreUnique`, `CrashSafety` follow, and
  `LedgerKeepsPromise` maps every step to a step of `OneVerdict` or a stutter.
* `CheckLedgerLease`: `TokenInv` (a holder's token is at most the row's, and
  different from every other holder's) gives `LeaseIsExclusive`. `OwnerInv` (no
  row is owned by a future service, a suspended row has lapsed) and `Barred` (a
  step either reacquires at the head or does not revive a lease) give
  `BarrierIsKept`. In the same module `CaseInv` relates each open row, and each invocation that
  is staging one, to the log: only observation lies between the frontier its
  caller pinned and the one the case was frozen at. With the guard of
  `CommitCheck` that gives `NothingIsLaundered`.

Every safety property of the runs of `MCSemanticJob`, `MCCheckPipeline`,
`MCStartTask`, `MCBundleRuntime` and `MCServiceLifecycle` is proved in the same
way: for every set of invocations, calls, locks or requests, and for every value of
the bounds, which appear in the proofs only as natural numbers. The only
assumptions are the named ones on the constants. Each inductive invariant was checked by
TLC on the module's instance before it was proved.

* `SemanticJobProofs`. `LedgerInv` is what the rows say of each other: only the
  last attempt is open, an expired attempt has a code that may be retried, one
  repair at most. `OneOpenAttempt` and
  `WithinBudget` need all three, since `ClaimNew` reads the last attempt only.
  `ConsumedOnce` (a request was sent once if its audit row is consumed, and not
  at all otherwise) gives `SentOnce`, `ApprovedFirst` gives `SentOnlyIfApproved`, `SelectedBacks` gives
  `VerdictWasSelected`. `TimeoutHidesNoLostAnswer` is the hard one. `provider_timeout`
  is written both for a request that was never sent and for one that timed out after
  it was sent, and must not be written for one whose invocation died or lost its
  lease before the call ended: `CodeBacked` says that a retriable code of an attempt
  is what its own provider call reported, or that nothing was sent and nobody is
  dispatching it; `JobBacked` that a job with that reason has no other attempt. So a
  claim refused to one invocation must not hide a send of another. `OnlyHolderClaims` (the holder
  of the lease, between two claims, leaves no attempt leased), `BoundHandle` (two
  invocations share the execution bound as their handle's expiry only when the
  deadline is over) and `FreshUnsent` (an attempt that an invocation has just
  claimed has sent nothing and is in nobody else's hands) carry it. `ResponseKept` is an action property from the same
  invariant. Each action is first reduced to what it does to the call, the job,
  the audit and the row, so that the four parts are proved apart.
* `CheckPipelineProofs`. `Sound` is what one invocation relies on after its lease
  may be long gone: its mode is the row's, the findings it holds are the pinned
  ones unless the wording changed, the review it has read is a review of those
  findings. `Advances` is what any step may do to the row: a row that has left
  the reserved phase keeps its mode, findings and wording, and a closed row does
  not change. `SoundKept` joins the two, so no pair of actions is ever compared.
  A restart forgets the invocations, and the row's wording is never newer than
  the service's, so an upgrade only weakens what is promised. `CompleteIsReviewed`,
  `ResultIsUnique`, `PinnedAreCommitted` and `ClosedStaysClosed` follow.
* `StartTaskProofs`. Catalog and bundle are two databases that only the running
  attempt ties together: `RunRow` says that the row it works on is the one it
  reserved, `RunBacked` what it has already made durable at each of its points.
  A crash forgets the attempt and so needs neither, which is why the rows alone
  must imply what a resumed attempt starts from (`PhaseIsBacked`, `PendingOpen`).
  `SameAnswer` needs that whoever was told a result was told the one the complete
  row holds, and corruption only of a quarantined row or route (`ToldIsTrue`),
  and that a completed start's route is active (`CompleteIsActive`). `LifecycleOnce`, `PhasesAreBacked`, `OneSession`,
  `AnswersAgree` and the action property `ActiveStaysActive` follow.
* `BundleRuntimeProofs`. `RuntimeIsFenced` shows that the runtime implements
  `FencedLog`: every step that appends a record does so under the owner
  generation current at that step, and every other step leaves the log alone.
  The invariant it needs is only the shape of `owner`, `fence` and `log`, since
  the write transaction compares the fence with the owner row itself; that is
  the point of the design, and the theorem shows that nothing around it (cache,
  leases, cancellation, takeover) can undo it. `LogIsOrdered` follows for the
  abstract log: the generations recorded never go back.
  `CountersAreExact`, `SessionIsStable` and `LeaseStaysOpen` are about the cache.
  The counters of an entry equal the number of calls that hold it (`Counts`,
  with the cardinality lemmas that a call entering or leaving a set moves it by
  one); `Handles` and `CachedOpen` say which entries a call or the cache may name,
  `Serves` that a counted call asks for the entry's session, `ShutPoisoned`
  that a closed entry is not leased anew, `FenceOld` that no generation anybody
  has seen is ahead of the owner row. None of them is
  inductive alone: an entry is rebound to another session exactly when its
  counters say nobody holds it.
* `ServiceLifecycleProofs`. The first part is about every choice of constants.
  `Shape` says where each actor may be, that whoever works on the service is at
  the head of the activation queue (`Holder`), and that nobody comes before the
  start has ended (`Early`). `Proceeds` is what any step does to the place of one
  actor and to the queue; each action is shown to be one, and one lemma shows
  that it keeps the shape. `KeysOwned` (keys in memory of a service that is not
  ready are in the hands of somebody who will install the application or lock
  the vault again) gives `KeysAreOwned`.

  The second part, `Standing`, is about the last lock that has ended: a lock that
  has its drain or its application still to close finds the service not ready
  (`Lockers`), and while a lock is held no call is on its way to a ready service
  and a hard one keeps its reason (`HeldFast`). It gives `LastLockStands`.

  The third part is about a service of which no session lock has ended in the middle
  of a ceremony: `AliveInv` holds until that happens, and it is the only exception.
  A re-ready and a ceremony never run beside each other (`OneMover`); beside a
  ceremony nothing is installed, and if the service was locked under it, it was
  locked hard (`CeremonyAlone`), which is the clause a crossed session lock breaks;
  the state a drain has set is reversed only beside a stop (`DrainOwned`); whoever
  waits for a drain finds the service closed when it has ended (`Drainers`,
  `Closing`); admitted calls are met in a ready service, by somebody who waits for
  them, or after a drain that ended before them (`Attended`). None is inductive
  alone: what a late failure of an activation may overwrite depends on who can
  hold the activation lock at that moment. Every action has one lemma, with the
  clauses it cannot disturb in one step and each of the others in a step of its
  own. `ReadyIsUnlocked`, `AdmittedAreServed` and `LockedMeansClosed` follow.

Only model-checked:

* the liveness properties `HandoffDrains`, `CheckFinishes`, `CheckEnds`,
  `InterruptedStartCompletes`, `RemovedIsClosed`, `StartGetsTurn`, `LockEnds`,
  `StopEnds` (fairness is outside this prover's reach).

## Findings

1. `import_exclusion`. The interface document promises that checks wait for a
   pending import of their session. The ledger core asks, but SQLite answers
   through a shim that always says no.
2. `start_wedged`. The start catalog says an abandoned pending operation never
   wedges the ordinary attach of its pair. A crash after the bundle's directory
   is made and before its ledger exists leaves a directory that every later
   provision takes for fresh and fails to create.
3. `relocked`. The architecture record says the soft re-ready never unlocks after
   an explicit lock. A lock ends by writing its own reason, so a session lock after
   an explicit one replaces `explicit_lock`, and the next ordinary call unlocks the
   vault. What does hold is `LastLockHolds`: the last lock stands.

## Observations

Modelling met more places where a document, comment or docstring says one thing
and the code another. They are not runs of the project. Each is reproduced by
checking the named property on the module's instance with the constants given;
where the property is conditional, by dropping the condition.

| Property | Instance | What happens |
|---|---|---|
| `FailedSyncRestores` (`CheckLedger`) | 1 request | a failed persistence of a phase advance, job creation or suspension leaves memory ahead of the disk (`repository.py` 2388-2413; INTERFACES.md 1478) |
| `ApprovalUsable` (`SemanticJob`) | no fault | a check that returned `awaiting_human` keeps its lease until deadline and grace have passed: the approval cannot be used by a replay in the same service (`check.py` 2284; INTERFACES.md 818) |
| `CommittedJobIsSettled` (`SemanticJob`) | 1 fault | a refused first renewal becomes a coordinator failure, committed beside an open job (`check.py` 1910) |
| `WaitClosedLast` (`SemanticJob`) | 1 fault | cleanup after a failed claim resolves the wait of a started attempt (`semantic_attempts.py` 928) |
| `ToldErrorIsReplayed` (`CheckPipeline`) | 2 lapses | a slow invocation tells its caller a corruption that is not stored, and the replay commits (`check.py` 1641, 2436; INTERFACES.md 1475) |
| `MissingGrantIsHandedOff` (`CheckPipeline`) | 1 restart, 2 grant changes | a check with a job, or ready to finalize, cannot be suspended for a missing grant (`ledger.py` 2630; INTERFACES.md 841) |
| `ReplayNeverConflicts` (`CheckPipeline`) | mode omitted, 1 restart | the replay of a request without a mode is refused after the policy changed (`service.py` 2332) |
| `CheckEnds` without `policy # "disabled"` | 1 restart | a check in `SEMANTIC_WAIT` stays pending while review is switched off (`check.py` 2412) |
| `RetryReadyIsReplayable` (`StartTask`) | 2 starts, 1 busy | a start told to replay is answered corrupt after a rival moved the frontier (`start.py` 695) |
| `PendingOwnsRecovery` (`StartTask`) | 2 starts, 1 cancellation, fairness | a rival ends the pending start's session; its completion aborts for ever (`start_catalog.py` 2857) |
| `TerminalWorkKeepsSession` (`StartTask`) | 2 starts, 1 cancellation, closing | a start reserved before the work was closed completes after it (`start_catalog.py` 2806) |
| `LiveLeaseIsOpen` without its condition | 1 cancellation | a cancelled rebind closes the entry another call of the session already leases (`runtime.py` 1007) |
| `RemovedIsClosed` with `Limits = TRUE` | fairness | a capacity refusal after the old entry left the cache leaks it (`runtime.py` 968) |
| `GenerationLossPoisons` (`BundleRuntime`) | 1 takeover | a lost generation leaves the dead entry in the cache (`runtime.py` 1241; ADR-001 83) |
| `KeysNeedReady` without its condition | drain deadline | a lock while a call outlasts the drain leaves the service failed and the vault unlocked (`lifecycle.py` 618) |
| `UnlockingIsOwned` (`ServiceLifecycle`) | 1 lost connection | a client that goes away during a re-ready leaves the service unlocking (`daemon.py` 2112) |
| `LockHolds` (`ServiceLifecycle`) | 1 session event, `AutoUnlock` | a session event during the start is dropped (`daemon.py` 1004) |
| `AdmittedKeepApplication` without `undrained` | instance of `locks` | a drain meets its deadline, or the SERVICE_LOCK that awaits it is cancelled; the next lock or stop closes the application of a call still admitted (`daemon.py` 1013) |
| `LockedIsClosed`, `ReadyMeansUnlocked` without `crossed` | instance of `locks` | a session lock ends in the middle of a ceremony, a call re-readies the service, and the late failure of the ceremony reverses a drain (`unlock.py` 919), or locks the vault under a ready service (`daemon.py` 845) |

Two more need no property. A SERVICE_LOCK whose client goes away while it drains
leaves the service draining without a drain, its vault unlocked, until the next
event or stop (`lifecycle.py` 476; new connections are refused meanwhile). And
`final_status_after_exhaustion` records the last of several attempts as
`retry_budget_exhausted` whatever it ended with, unless that is repairable
(`semantic_attempts.py` 621): an `outcome_unknown` or a refusal that happens to be
the last of the budget is not what the job's row says, although INTERFACES.md 3422
has an uncertain attempt retain `outcome_unknown` in its row.

## Plan

Next, most important first:

1. A state of `ServiceLifecycle` in which a session lock crosses a ceremony: what
   the service still promises then.
2. The refinement of `CheckPipeline`'s row to `OneVerdict`.
3. `BundleUpgrade`: the upgrade journal of `service/bundle_upgrade.py`, a crash
   between any two of its effects, resume and roll back.
4. `ObservationOutbox` and `ImportJob`: the publishers behind the tickets and
   import rows of `CheckLedger`.
5. `CheckWaits`: no lost wake-up; the unlock throttle; `Lineage`: parent and child
   ledgers that move independently.

## Not modelled

Modelled code is about one fiftieth of the repository's lines, and most of the
rest is not state that interleaves: protocol models, schema generation, CLI,
TUI and hook front ends, the local observation adapters, rendering, migrations
and the kernel's policies are data conversion and I/O, where a model would
repeat the code and a test says as much. Of the stateful rest, projects,
coordination, lineage, the observation coordinator and its drain, import review,
upgrades, check waits, keyring mode and the unlock throttle, the maintenance
gate and the singleton lock of the daemon are listed in `PROJECT.json` with what
is missing, and are next in the plan where they carry a protocol.
