# Origin Forge: TLA+ models, model checking and proofs

Origin Forge is a portal for one H100 machine shared by many users.  This directory holds
TLA+ models of the portal's own protocols, TLC configurations that check them on small
instances, and proofs that TLAPS checks for every value of the constants.  Paths below are
relative to the repository; `api/` is `portal/apps/api/src/h100_portal_api/` and `worker/` is
`portal/apps/worker/src/h100_portal_worker/`.

## 1. The system

A browser talks to the Next.js console, the console to the FastAPI application on loopback,
the application to PostgreSQL and, over `worker.sock`, to the Root Worker, which is the only
process that touches Slurm, Docker, home directories and quotas.  The API runs transactions
at READ COMMITTED and takes row locks with `SELECT ... FOR UPDATE`; the Worker serves one
control request at a time, in whatever order they get its lock.  Two systemd timers run
oneshot programs against the same database: the lease expiry worker every minute, and the
reconciliation of failed provisions.  The owner of the platform runs `h100-portal-admin` on
the console of the host, against the same database and the same Worker.

| Component | State it keeps | Operations | Interacts with | What is hard |
|---|---|---|---|---|
| Leases and renewals (`api/lease_service.py`, `api/routes/self_service.py`, `api/routes/users.py`) | leases with window, state and predecessor; renewal requests; the owner's approval policy | request, automatic approval, decision, activation of a successor | expiry worker, container buttons (same rows, other locks) | clocks read before locks, chains of successors, cancellation against decision |
| Lease expiry and recycle bin (`api/expiry_service.py`) | operation `lease-expire:{lease}` with retry evidence, recycle items | cancel late renewals, list due leases, clean up one lease, retry, recovery by the platform owner | Root Worker `resource.recycle` | crash between the Worker's effect and the commit, bounded retries, a successor that takes over while the scan waits for a lock, cleanups served after their caller has gone |
| Restores (`api/routes/self_service.py`) | restore requests, states of items | request, replay, review, execution, rollback | Root Worker `resource.restore` and `resource.restore.rollback` | no lock during the Worker call, lost answers, crash between two commits |
| Container buttons (`_container_action`) | observed state | start, restart, stop | Root Worker `container.*` | rows stay locked for the length of a Worker call |
| Root Worker lifecycle handlers (`worker/handlers.py`) | lifecycle file, authorized_keys, container | recycle, restore, rollback, start, restart, stop | host | partial effects, own rollback |
| Provisioning (`api/routes/compute_requests.py`, `api/provision_reconciliation.py`) | requests, plans, reservations, operations | request, review, plan, reserve, stage, hold, reconcile, authorize a retry | Root Worker dry run and stage | unknown outcomes, reservations that expire, retry lineage |
| Jobs (`api/routes/self_service.py`) | jobs, GPU and memory approvals | submit, decide, cancel, refresh | Root Worker `self.job.*`, Slurm, leases | two approvals of one job, lost submissions, rows read before locks |
| Operations (`api/routes/operations.py`, `api/operations.py`) | operations, approvals, events | create, submit, approve, reject, dry run in the background | Root Worker | no lock between reading a status and writing it |
| The pilot (`api/cli.py`, `api/routes/operations.py`) | five operations with fixed keys, the first managed identity, evidence, a setting | Stage, Activate, Clients, Acceptance, Start | Root Worker pilot handlers, Slurm node | four commits around each Worker call, ambiguous commits, undo after a lost answer |
| SSH keys (`api/routes/ssh_keys.py`) | key records | enroll, sync into a running container, put away and restored with the environment | Root Worker `ssh_key.*`, expiry, restore | lost answers, late calls, two files per key |
| Self activation (`api/routes/activation.py`) | activation operation, first lease | activate, reconcile a failed activation | Root Worker | rollback, replay |
| Authentication (`api/auth.py`, `api/routes/auth.py`, `api/delegated_auth.py`) | sessions, lockouts, password tokens, CLI tokens | login, logout, re-authenticate, reset, revoke | everything | revocation against use |
| Terminals (`api/terminal_service.py`, `worker/terminal.py`) | terminal sessions | open, attach, close, expire | Worker connections | slots held for minutes |
| Worker server (`worker/server.py`, `worker/schemas.py`) | connection slots, control lock | accept, serve, refuse | all callers | WORKER_BUSY, serialization |

Left out for good: the web console, the owner's command line, the operators' shell scripts
under `scripts/`, monitoring, deployment artifacts, configuration, reports and templates.
They keep no protocol state of the portal, or are single I/O steps whose outcomes appear as
the fault sets of a model.

## 2. Modules

| Module | Models |
|---|---|
| `LeaseHost` | The Root Worker's effect on one environment.  The host is a record of the lifecycle file (lease and STATUS), the keys and the container; every handler is an operator that returns the set of (host afterwards, reply) the code can produce, once as its checks demand and once for faults.  A call whose answer is lost leaves the host as it is here; the module that made it decides when it is served. |
| `LeaseLifecycle` | One owner: leases, renewals, expiry, recycle bin, restores, container buttons.  EXTENDS `LeaseHost`. |
| `LeaseLifecycleProofs` | The inductive invariant of `LeaseLifecycle`, its theorems, and the recycle bin. |
| `LeaseEntitlementProofs` | What leases promise an owner when decisions do not wait for locks: the recycle bin is final, and leases keep their order.  EXTENDS `LeaseLifecycleProofs`. |
| `LeaseEnvironmentProofs` | That the environment of an entitled owner is up, late calls of the Worker included.  EXTENDS `LeaseEntitlementProofs`. |
| `ComputeProvision` | First environments: requests, review, plans, reservations, dry run, Stage, orchestrations and their replay, reconciliation and retry, with the queue of the Root Worker and restarts of either process. |
| `JobSubmission` | Jobs of one owner: submission, the two approvals, sbatch through the Worker, cancellation, refresh, and Slurm with its deadlines, against the owner's chain of leases. |
| `PilotHost` | The Root Worker's pilot handlers, as outcomes on an identity and a Slurm node. |
| `PilotLifecycle` | The five operations of the pilot as commands that run side by side.  EXTENDS `PilotHost`. |
| `PilotGates` | The abstract specification of the last four: gates in a row, each tried once. |
| `OperationApproval` | Operations over HTTP: draft, submit, decide, background dry run. |
| `ContainerKeys` | SSH keys of several owners: enroll, discard, sync, recycle, restore, with the key files of the host. |
| `ComputeProvisionProofs`, `JobSubmissionProofs`, `PilotLifecycleProofs`, `OperationApprovalProofs`, `ContainerKeysProofs` | The theorems about the module each is named after (section 4). |
| `MCLeaseLifecycle`, `MCComputeProvision` | Definitions for TLC of constants that a cfg cannot write. |

### How `LeaseLifecycle` corresponds to the code

Variables are tables (`lease`, `renewal`, `item`, `restore`, `op`), the owner's rows in other
tables (`owner`: state of the managed user, renewal policy, keys), the host (`host`), the clock
(`now`) and the processes in flight: a decision on a renewal (`decision`), the expiry worker
(`scan`), a restore (`restoring`), and the calls of the Root Worker whose caller has gone (`left`).
`faults` counts crashes and Worker faults against their bounds.  `overtaken` is a history variable
that no guard reads: the leases that moved on while the expiry worker waited for their locks.

The grain of an action is the transaction.  A handler that takes its row locks first and holds
them to the commit is one action (`RequestRenewal`, `AutoRenew`, `CreateRestore`,
`RejectRestore`, `SetPolicy`, `UseLease`, `StartContainer`, `StopContainer`, `RetryRecycle`).  `UseLease`
is any request of the owner that only resolves the lease under its lock and commits, such as the
submission of a job; what it does to the lease is that a successor takes over.  Handlers
that look at the clock before the locks, or commit and go on, are split at that point:

- `decide_renewal`: `DecideStart` reads the clock, `DecideCommit` has the locks.  At most
  `MaxDecisionLag` ticks pass between them.
- `process_due_leases`: `ScanCancel` (first transaction), `ScanRead` (the list of due leases), then
  per lease, in order of expiry, `ScanLook` and one of `ScanActivate`, `ScanPass`, `ScanRecycle`.
  `ScanLook` is the start of the statement `SELECT ... FOR UPDATE` that repeats the due predicate.  If it
  has to wait for the row, READ COMMITTED looks again at the lease it waited for and at nothing else:
  the successor in the EXISTS is as it was when the statement began.  So with the lock in hand (`Locks`)
  only the lease's own columns count, while `_activate_successor` reads the successor anew.
  `ScanCrash` kills the process between transactions, or between the call of the Worker and the commit,
  which leaves the call with the Worker.  The call and its commit are one step otherwise, because the
  rows of the lease, the owner and the container stay locked across it.
- `_execute_restore`: `BeginRestore` up to the commit of RESTORING, `RestoreRun` in the Worker
  with no lock held, `RestoreFinish` with the second commit or the rollback through the Worker,
  `RestoreCrash` in between.

A call that timed out, or whose caller died, stays in line at the Worker, which reads requests from
their sockets and takes one after the other under `CONTROL_REQUEST_LOCK`.  `LeftCall` is such a call,
`ServeLeft` serves it at any later time, on the host it finds by then; it may also never be served.
This goes for the recycle, restore, rollback and start of an environment (a stop that is served late is
the same as a stop).  Nobody reads the answer.

Requests that are refused and replays of an idempotency key change no row and are stutters.
The operators of the lease chain (`EntitledLease`, `AfterEnsure`, `ChainEnds`) are
`ensure_active_lease` and `lease_chain_terminal`; `AfterEnsure` is the side effect of the first
(a successor takes over), which every caller commits.

Abstractions, each with its reason:

- A lease id for a restore is drawn before the Worker is called and written only afterwards.
  The state `UNSAVED` keeps its window in the model; no query sees such a row.
- The second query of `ensure_active_lease` (an expired lease when no started one exists) finds
  nothing the first did not, since a lease that has ended has started; `LEASE_CHAIN_INVALID`
  cannot occur because `create_lease` makes every successor contiguous.  Neither is modelled.
- The limits of 32 leases and 128 renewals per scan exceed what one owner can have.
- GPU allocations of development containers: the code fixes `expected_gpu` to NONE and every
  binding to NULL; not modelled.  Jobs that a recycle cancels appear in `JobSubmission` as the
  deadline of Slurm.
- A window never changes, so the lifecycle file is the id of its lease.
- A process that dies within a container button or a recovery by the platform owner is not an action of
  its own: its rows are as before, and the call it leaves is that of a lost answer or of `ScanCrash`.
  A process that dies while it rolls a restore back is not modelled.
- `_recycle_one` takes its `now` when it has the lease's row and before it has the owner's; here both
  are one moment.  Deadlocks that PostgreSQL breaks (section 5) abort a transaction: a stutter.
- One restore is in hand at a time.  (Two would need two recycle items of one owner that are
  open together.)
- Cleanup with the container row or every key missing raises out of the scan.  Neither row
  can go missing for an owner with a lease here; the effect on other owners belongs to `ExpiryScan`.
- `RestoreUndone` stands for the two causes the code rolls back for: a postcondition that does
  not match, and a database error on the second commit.  It draws on the Worker fault budget.

Bounds: the sets `Lease`, `Renewal`, `Restore`; `Horizon` (no lease ends later, the clock stops
there; `Earlier` caps a retry time at it); `MaxDecisionLag`; `MaxCrashes`; `MaxWorkerFaults`.
`MaxAttempts` and the two delays are the code's constants; a tick is the unit of all durations,
so the windows keep their order and not their proportions; the renewal window may be longer than a
lease, so that a successor that has not begun can be renewed too (`api/lease_service.py`, `lease_chain_terminal`).

### How `ComputeProvision` corresponds to the code

Variables are tables (`req`, `plan`, `hold` for the reservations of a plan, `stage` and
`rollback` for its Stage operation, `parent` for the orchestration of a request, `orch` for the
failed orchestration an attempt came from, `auth` for the open retry authorization, `managed`),
the threads of the API that serve administrators (`call`), the Root Worker's queue and answers
(`worker`), what Stages left on the host (`host`), and the reservations whose 24 hours are over
(`lapsed`).

A route that takes the request's row lock and keeps it to its commit, Root Worker call
included, is one action: `CreatePlan`, `DryRun`, `AuthorizeRetry`, `Reconcile`, the three
decisions of the review.  The Stage is not: `BeginStage` commits PROVISIONING and queues the
request, `WorkerTake` and `WorkerStage` are the Worker, `StageAnswer` or `StageUnanswered` the
second transaction.  An orchestration is a thread that runs the three steps in separate
transactions (`OrchestratedPlan`, `OrchestratedDryRun`, `OrchestratedStage`) and one last
transaction (`OrchestrationSucceeds`, `OrchestrationFails`); `StepFails` is any error on the
way, `Replay` the same key sent again while it is RUNNING.

Sessions keep rows across commits (`expire_on_commit=False`, `api/database.py:22`) and a locking
SELECT does not reload them, so a thread goes on with the request it loaded first.  The version
column turns its next write of a changed row into an exception.  `call[k].stale` is that:
`Touch` marks the threads that hold a copy of a row another action changes, and a stale thread
can only fail.  The Stage's second transaction and the failing end of an orchestration roll back
first, and see the rows as they are.

Abstractions:

- The five reservations of a plan are written together on every path: one state for each plan.
  UID, GID, project id and port are one coordinate; the container is named after the account.
- Time is the set `lapsed`: any reservation may lapse at any moment, at most `MaxLapses` of them.
- `NOT_REQUIRED` and `ROLLED_BACK` of a Stage are one value, since no code tells them apart.
- The host is one of absent, partial, staged for each attempt.  `Preflight` repeats the dry run's
  look at the host; `Twins` is the Stage's idempotence, which takes an environment with the same
  account and coordinates for its own.
- `CleanHost` is external: an administrator removes what a failed Stage left.  Nothing else
  changes the host.
- The Stage script itself is a choice of outcomes; the Worker's failures draw on `MaxFaults`.
- Enrolment of the first key, which follows `KEY_ENROLLMENT_PENDING`, belongs to self activation.

Bounds: `MaxPlans`, `MaxOrchestrations`, `MaxLapses`, `MaxCrashes`, `MaxFaults`,
`MaxQueuedTimeouts` (clients that give up on a Stage that still waits in the queue).

### How `JobSubmission` corresponds to the code

Variables are the entitlement (`lease`), the tables (`job` with the operation of a job, `gpu` and
`mem` for the two approvals), the one handler that waits for the Worker (`api`), the requests the
Worker has not taken (`calls`), the scripts it has staged (`script`), Slurm (`slurm`), a refresh
under way (`refresh`) and a decision that has looked and waits for its locks (`review`).

Submission, decisions and cancellation resolve the owner with `lock=True` and hold the managed
user's row to the commit, so at most one of them is past its locks: `api` is that one, while it
waits for the Worker with nothing committed.  `SubmitDirect` and the decisions that complete the
approvals put a call in `calls`; `CommitJob`, `RecordFailure` and `RollBackApproval` are the ends of
the transaction.  A decision looks at the job and at both approvals (`db.get`, `lazy="selectin"`)
before it locks, and the locking SELECT does not reload what the session holds: `Reads` takes the
view, `Decides` uses it later.  The version column of an approval (`GpuUnchanged`, `MemUnchanged`)
refuses to write one that has changed; a job row has none.  `RefreshReads` and `RefreshWrites` are
the two halves of `_refresh_job`, which locks nothing; each member of `Refresher` is a request that
does one, so that refreshes of a job cross.  A refresh that finds the row as Slurm has it writes
nothing and is a stutter.

The Worker checks contracts and deadline again (`PayloadValid`), writes the script
(`StagingAccepts`, a file left half by a dead Worker is refused) and runs sbatch; `Submits` may be
followed by an answer, by none (`SbatchFails` and the timeouts), or by death.  Slurm starts, ends
and removes jobs, and ends those whose deadline has come (`Prompt`): that part is external.

Abstractions: a unit of memory is the threshold above which an approval is asked for; script
content is whole or partial; logs, listings and images are left out; leases are what
`LeaseLifecycle` makes of them (renewed, rolled over, restored).

### How `PilotHost` and `PilotLifecycle` correspond to the code

`op` is the status of the five operations, each created under a fixed idempotency key; `portal` the
identity with its key, dry run, evidence and setting; `proc` the commands; `calls` the Worker's
queue; `host` the identity and the node.  A command commits QUEUED, then RUNNING, calls the Worker
and commits the outcome (`CommitQueued`, `LoadQueued`, `CommitRunning`, `CallWorker`, then one
action for each outcome of each step).  `ActivateCommitFails` and `StartCommitFails` are a commit
that reports a failure: nothing or everything of it is durable, and the code asks the Worker to
undo the host only when the operation is not durably SUCCEEDED.  `BaselineChanged` is the exception
that leaves an operation RUNNING.  Only Stage may be tried again, after a rollback.  The branch
`ACTIVATE_APPROVAL_BINDING_REJECTED` of `execute_operation` compares the approved payload with the one
it was made from; the commands pass one fixed payload, so it is never taken and is left out.

The handlers of the Worker are operators that return outcomes: identity ABSENT, PARTIAL, STAGED,
HALF or ACTIVE, node DRAIN or IDLE, and a reply.  Killed scripts leave PARTIAL or HALF.  What the
handlers read back (quota, association, container, keys) is one predicate on the identity.

`PilotGates` is what the row of Activate, Clients, Acceptance and Start promises; `GatesHold` is
`Gates!Spec` under the mapping `passed <- GatesPassed, try <- GateTried`, which counts successful
operations from the front and reads the next one.

### How `OperationApproval` corresponds to the code

`status`, `approvals`, `rejects` and `executed` are the row and its history for each idempotency
key, `proc` the requests.  A request looks (`LooksUp`, `LoadDraft`, `LoadPending`) and commits in a
second step what it makes of what it read; nothing is locked, and the row has no version.  An
approval leaves a background task (`LoadQueued`, `CommitRunning`, `DryRunEnds`).  APPROVED is passed
inside one transaction.  Requests beyond the lifecycle gate (`Gated`) are refused at submission.

### How `ContainerKeys` corresponds to the code

`rows` is `portal_ssh_keys`, `portal` the environment, lease and expiry of an owner, `staged` the
two files of each record in the staging directory, `host` lifecycle file and authorized_keys, `txn`
the transaction that holds the owner's rows while the Worker is at work, `calls` the Worker's line.
`Enroll`, `Sync` and `Cleanup` open the transaction and send the call; `EnrollCommits`,
`SyncCommits`, `RecycleSucceeds` and their failing twins end it.  `TimesOut` is a caller that gives
up and `Dies` a process that does; the call stays in `calls` and is served at any later time.
`WorkerFails` leaves what a failure between two writes can leave, with or without the Worker's own
rollback.  The automatic and the manual cleanup are one action, since they send the same call.

Abstractions: a key is its fingerprint; the order of keys is the order of record numbers;
`authorized_keys` and its name in the recycle bin are `keys` and `open`; a restore is one step;
leases are not renewed.

## 3. Runs

Eight runs pass, and four show a disagreement between the code and what the repository says.

| Run | Instance | Checks |
|---|---|---|
| `lifecycle_safety` | 3 leases, 2 renewals, 2 restores (symmetric), duration 1, horizon 3, renewal window 2, no decision lag, 1 Worker fault (1,286,634 states) | `TypeOK`; `ReviewedRestoresWaitForAdmin`; `EntitlementsDisjoint`; `EntitledEnvironmentIsUp`; `OneOpenRenewal`; `RecycleBinIsContained`; `IInv`; `RecycledLeaseStays`; `RestoredItemStays` |
| `lifecycle_liveness` | 3 leases, 1 renewal, 1 restore, durations 1 and 2, horizon 3, renewal window 1, no decision lag, 1 crash (72,032 states) | `ItemsMatchRecycledLeases`; `ApprovedRenewalEntitles`; `RenewalsAreClosed`; `ExpiryEndsInBinOrReview` |
| `provision_sharing` | 2 accounts, 2 coordinates, 1 thread, 3 plans, 1 orchestration each, 1 lapse, 1 fault, 1 queued timeout | `TypeOK`; `AttemptChain`; `EnvironmentsDisjoint`; `HeldOnce` |
| `provision_liveness` | 1 request, 2 threads, 2 plans, 2 orchestrations, 1 lapse, 1 crash, 2 faults, `FairSpec` | `RecordedEnvironment`; `RolledBackIsClean`; `OrchestrationEnds`; `HoldsConverge` |
| `job_submission` | 1 job, 2 Slurm ids, 2 Worker requests, 2 refreshes, 1 or 2 GPUs and units of memory, first lease ends at 1, horizon 2, 1 fault, `FairSpec` | `TypeOK`; `SlurmRunsWhatWasApproved`; `NoJobOutlivesItsLease`; `EndedRowsHaveEnded`; `DecisionsAreFinal`; `RowsFollowSlurm` |
| `pilot_lifecycle` | 2 commands at a time, 6 in all, 2 Worker requests, 2 faults, `FairSpec` | `TypeOK`; `PortalIsNotAhead`; `EvidenceChain`; `NodeOpensLast`; `GatesHold`; `CommandsEnd` |
| `operation_approval` | 3 requests at a time, 5 in all, 2 operations (one gated), 1 fault, `FairSpec` | `TypeOK`; `EachRunHasItsApproval`; `DecisionsExplainStatus`; `QueuedEnds` |
| `container_keys` | 2 owners (one active), 4 keys, 4 records, limit 3, 2 leases, 2 faults | `TypeOK`; `RecordsAreStaged`; `HostMatchesPortal` |
| `approval_undoes_recycle` | decision lag 1 | violates `RecycledLeaseStays` |
| `job_never_submitted` | no fault at all | violates `BothPassedSubmittedOnce` |
| `operation_decided_twice` | as `operation_approval` | violates `OnlyDefinedTransitions` |
| `synced_keys_block_recycle` | 1 owner, 2 keys, 1 fault, `FairSpec` | violates `ExpiryRecycles` |

Why the bounds are enough:

- Leases: three (a first one, a renewal or restore of it, and a third that extends either) are the
  least that has a chain with a middle; two renewal requests can cross one another; the horizon
  lets all of them end.  Two restores let a failed one be followed by another.  The one fault of
  `lifecycle_safety` can be a call that is left and served late, under the next lease or after a restore;
  the one crash of `lifecycle_liveness` can leave a cleanup.  `lifecycle_liveness` has two durations, so that a
  restored lease can be shorter than the renewal of the one before.
- Provisioning: two accounts with two coordinates are the least in which a coordinate can be given
  away to somebody else; three plans allow a chain with a middle, or a chain beside another's
  attempt; two threads are a thread and its replay.
- Jobs: one job meets itself in everything that is interesting (two approvals, a repeated
  submission, a late call); two requests are a call left behind and its retry, two Slurm ids a job
  submitted twice, two refreshes one that reads before and one that writes after the other.  The two counts are below and above the threshold of an approval.
- Pilot: two commands race on one operation or on neighbours; two faults are a lost answer and a
  lost undo, or a killed script and a failed commit; six commands run the row to its end and
  repeat one.
- Operations: three requests are two decisions and a submission or a background task.
- Keys: four records are two installed and two more on the way; two owners meet on a fingerprint;
  two calls that were left behind, or one and a failed rollback of the Worker, meet every later state.
  The limit is 3 for the code's 5.

With a decision lag `EntitledEnvironmentIsUp` fails as well as `RecycledLeaseStays`, as a consequence of
a late approval; that is why `lifecycle_safety` has none.  `EntitlementsDisjoint`,
`ApprovedRenewalEntitles` and `EntitledEnvironmentIsUp` are stated for an expiry worker that has not
cleaned up a lease in `overtaken`; the next but one section says what happens when it has.  `RolledBackIsClean` fails
once a client gives up on a queued Stage; that is why `provision_liveness` allows none, while
`EnvironmentsDisjoint` and `HeldOnce` hold even then: the preflight inside the Stage is the last
line, and `provision_sharing` shows it.

### The disagreements

1. **Out of the recycle bin.**  `decide_renewal` compares `expires_at` with a time it read before
   it waited for its locks (`api/lease_service.py:328`); a container action holds the lease row
   during a Worker call.  A decision that waited past the expiry writes RENEWAL_WINDOW over
   RECYCLE_BIN.  The comment at `api/lease_service.py:346` says that a recycled resource is never
   moved back; the guard is in one of three branches.
2. **Both approved, never submitted.**  A decision on GPUs and one on memory each read the other
   approval as PENDING before they have the locks; both commit, nobody submits, and the job waits in
   APPROVAL_PENDING although "两项都通过后只提交一次"
   (`portal/docs/operations-and-approvals.md:181`).
3. **Decided twice.**  `approve_operation` writes over whatever the operation has become since it
   was read: CANCELLED to QUEUED, SUCCEEDED to QUEUED, RUNNING to CANCELLED.  "后端只允许定义好的相邻转换"
   (`portal/docs/operations-and-approvals.md:5`).
4. **A key nobody counts.**  After a lost answer of a sync `authorized_keys` holds a key whose row is
   VALIDATED.  Every cleanup of the expired lease compares the two first and is refused before the
   container is stopped; the environment is SUSPENDED in the portal, so no further sync is possible.

### Known not to hold, without a run of their own

These follow from the models; the formulas stay in the modules so that they can be tried.

- `BothPassedSubmittedOnce` fails in the other direction too: an approval that is rolled back after
  a lost answer, or two decisions on one approval, submit a job twice.  For the same reason
  `RejectedJobNeverRuns` fails: a call that was left behind is served after the rejection.
- `RolledBackMeansBack` (`PilotLifecycle`): the rollback of Activate, or the drain after Start, is
  served before the call it undoes; "受控回滚已验证" is recorded and the identity is active.
- `RepeatReturnsTheOperation` (`OperationApproval`): the second of two requests with one key meets
  the unique constraint at a flush outside the handler of that error.
- `StageSettles` (`ComputeProvision`): a second thread of the same request fails it while the first
  waits for the Stage; the answer is refused and the plan stays PROVISIONING with its reservations.
  A restart of the API does the same.
- `FailedCanContinue` (`ComputeProvision`): if the first planning step fails, the request is FAILED
  with no plan, and no route accepts it.
- `RolledBackIsClean` with `MaxQueuedTimeouts = 1`: the verification that follows a timeout is served
  before the Stage that still waits, the reservations are released, and the Stage runs.
- `OpenRenewalIsApprovable` (`LeaseLifecycle`, 4 leases): approving the renewal of an APPROVED
  successor turns it into RENEWAL_WINDOW, where `lease_chain_terminal` no longer follows it; the next
  request breaks UNIQUE(previous_lease_id) when it is approved.
- **A successor that took over unseen** (`LeaseLifecycle`; why `EntitlementsDisjoint` and its like have a
  hypothesis on `overtaken`).  The expiry worker waits for the row of a due lease while the owner's
  submission or container start holds it, calls the Worker, makes the lease EXPIRED and its successor
  ACTIVE, and commits.  The waiting statement accepts the lease on its stale sight of the successor
  (`api/expiry_service.py:757`), `_activate_successor` finds no successor that is APPROVED, and the owner who
  renewed in time is cleaned up: suspended if the lifecycle file already names the successor, else
  recycled.  `test_expiry_skips_superseded_lease_and_retries_cleanup_failure_fail_safe`
  (`portal/apps/api/tests/test_portal4a.py:848`) says "superseded lease must not be recycled".  An item that comes of it can be
  restored beside the successor, and the restored lease, if it is the shorter one, later hides it.  A
  decision on the successor's own renewal in the same moment (APPROVED to RENEWAL_WINDOW) has the same
  effect.
- **A cleanup served late** (`LeaseLifecycle`; `LateCallServed` in `EntitledEnvironmentIsUp`).  A recycle whose
  caller gave up is served after the environment was restored: it puts the keys away and stops the
  container before the lifecycle file is compared and the call refused (`worker/handlers.py:10853`). File and
  rows of the owner stay; the container
  is stopped and its keys are aside although the portal shows them in place.
- `ExpiryReachesBin` (`LeaseLifecycle`): the lifecycle file changes its lease only at a start or
  restart; if the container runs on through a renewal, every recycle of the renewed lease is refused.
- The stale clock of 1 also approves a renewal whose lease has ended.  If no scan and no request falls
  into a successor's window, neither it nor its predecessor is ever due again.  A rejected restore
  after a failed one puts its item back into the bin as it is, with a container that may run
  (`RecycleBinIsContained` states the exception).  `_expire_reservations` also releases lapsed
  reservations of a plan in PROVISIONING.
- In `ContainerKeys`: once another key is enrolled after a lost sync, every later sync names a target
  the host does not know and is refused; a discard that overtakes its prepare leaves files
  without a record.

### Fairness

`LeaseLifecycle`: weak fairness of the two beginnings of a scan and of its turn, of `DecideCommit`,
and of the two steps of a restore, and strong fairness of the clock: `Tick` is disabled
while a decision has waited `MaxDecisionLag` for its locks, decisions come and go, and time passes
all the same.  `h100-portal-lease-expiry.timer` starts the scan every minute whatever became of the last; a
handler that has begun goes on unless its process dies, which is an action of its own, bounded in
number.  Nothing is assumed of owners, administrators or the success of a Worker call.  The bound on
crashes matters for liveness: an expiry worker that dies in every scan recycles nothing.

`ComputeProvision`: weak fairness of every thread that has begun, of the Worker taking and serving
its queue, and of `Reconcile`, which `h100-portal-provision-reconcile.timer` starts every five
minutes.  Users and administrators owe nothing.  `CleanHost` is not fair: `HoldsConverge` speaks of
hosts that are clean.

`JobSubmission`: weak fairness of the Worker serving a request and of the handler that has its answer
(every call has a time limit); strong fairness of a refresh being begun, because the owner's pages and
the command line ask again and again but cannot begin one in a process that has one in hand, and need not
while the row agrees with Slurm; weak fairness of its end.  Slurm, the owner and administrators owe nothing.

`PilotLifecycle`: weak fairness of each command, which runs by itself once started, and of the Worker
serving each request.  `OperationApproval`: weak fairness of a request or background task that has
begun.  Crashes and lost answers are not fair in any of them.

`ContainerKeys` (only for `synced_keys_block_recycle`): weak fairness of the transaction that has its answer, of the Worker serving a call
whose caller still waits (one that was left may wait for ever, as in a queue that is never empty), and
of `Cleanup`, which the expiry timer and the platform owner repeat.

## 4. Proofs

TLAPS proves 33 of the 40 properties of the passing runs, for every value of the constants that
the named assumptions of the modules allow: any number of leases, accounts, jobs, commands, requests
and owners, any horizon, and any number of crashes and faults.  The seven it does not
prove are the liveness properties.

In every module the shape is the same.  `IInv` (and where it takes more, `SInv`, `BinInv`, `OrderInv`
or `EnvInv`) is the inductive invariant; `Invariance` is `Spec => []IInv`; the properties follow from it.  A step proof
has a case per action and in each a step per conjunct that the action can disturb.  Every
invariant was checked by TLC before it was proved; the counts below are of distinct states.

### What each component needs

**Leases** (`LeaseLifecycleProofs`): `TypeOK`, `OneOpenRenewal`, `ItemsMatchRecycledLeases`,
`ReviewedRestoresWaitForAdmin`, `RestoredItemStays`, `RecycleBinIsContained`.  None of these has a condition.  That an item exists
exactly when its lease is recycled must survive a new lease row, so unused ids carry no stamp
(`UnusedNotRecycled`).  The attempt counter stays under its cap because a lease without an
operation has none (`AttemptsCounted`).  Between its two commits a restore holds no lock; it is
right all the same because its item and its request are RESTORING and no other handler accepts that
state (`RestoreHoldsItsItem`).  `IInv` is checked in `lifecycle_safety`.  For the recycle bin,
`Contained` says more than the property does: an item that waits, in the bin, for review or failed,
has its lease in the lifecycle file with STATUS recycled, and this is what refuses a late start or a
cleanup for another lease.

**What leases promise** (`LeaseEntitlementProofs`): `RecycledLeaseStays`, `EntitlementsDisjoint`,
`ApprovedRenewalEntitles`, all under `MaxDecisionLag = 0`.  The hypothesis is needed: with a lag of 1
TLC finds the first violated (disagreement 1), on which the other two rest.
`BinInv` says that the bin is for leases that are over, and holds whatever the expiry worker sees; `RecycledLeaseStays`
follows.  `EInv` adds the order of the leases: a renewal begins where the lease it renews ends, two leases
have two predecessors, the end of a chain is the last lease of all, and one lease goes on or one
item waits, never both (`OneEnd`).  The order is a property of the lease table alone; the first
lemmas say what a move, a renewal, a recycle, a restore and an id drawn for one do to any table, and
the actions cite them.  A recycle keeps the order if its lease is the last, which the due predicate
ensures when it is read and `overtaken` records when it no longer holds under the lock; so what is invariant is
`OrderInv`: `EInv` as long as no overtaken lease is recycled.  The theorems carry that condition in the
properties themselves.

**The environment of an entitled owner** (`LeaseEnvironmentProofs`): `EntitledEnvironmentIsUp`, under the same
hypothesis.  From the order follows that a cleanup or a restore begins only when every lease is over
and nothing else goes on (`Ended`).  A call may be left and served at any time, so this has to last:
while a cleanup is left, its lease is recycled, or still the last and over (`CleanupFits`); and while a lease
runs, the lifecycle file names a saved lease that is not recycled (`Up`), so a late
cleanup, restore or start is refused by the comparison of leases, having touched the keys at most.
`EnvInv` is `CallsInv`, which says whose calls can be left, and `UpInv` as long as no overtaken lease was cleaned up.
`BinInv`, `OrderInv` and `EnvInv` were checked on the instance of `lifecycle_safety` without symmetry (4,850,248
states) and on one with two durations, a crash and a fault (1,174,320).

**Provisioning** (`ComputeProvisionProofs`): `TypeOK`, `AttemptChain`, `HeldOnce` and
`EnvironmentsDisjoint` need what the rows of one plan say of each other (`PlanFits`), that the plan
of a request is its own (`RequestFits`), and that one thread waits for a Stage (`OneWaits`).
`RecordedEnvironment` and `RolledBackIsClean` need that only the current attempt of an account's
one open request has anything on the host or on its way there (`OthersAreQuiet`, `SInv`).  They are
proved under `MaxQueuedTimeouts = 0`; without it `RolledBackIsClean` is false (section 3).
`IInv` was checked with `provision_sharing`'s constants (1,356,417 states), `SInv` on instances with
one and two requests (up to 5,400,291).

**Jobs** (`JobSubmissionProofs`): `TypeOK`, `SlurmRunsWhatWasApproved`, `NoJobOutlivesItsLease`,
`EndedRowsHaveEnded`, `DecisionsAreFinal`.  Calls are served long after their handler has gone, and
decisions are written on what was read before the locks.  What keeps this harmless is that approvals
only move forward (`Forward`): what a review or a call has seen is their past (`ReviewIsPast`,
`CallsArePast`), the count asked for never changes, and the Worker takes no more than that
(1,101,062 states).

**The pilot** (`PilotLifecycleProofs`): `TypeOK`, `PortalIsNotAhead`, `EvidenceChain`,
`NodeOpensLast`, and `GatesHold`, that is, `PilotLifecycle` implements `PilotGates`.  An operation
with a unique key has one command past the insert (`OneCommand`), whose place tells the status of the
row (`PlacesMatch`).  A rollback is asked for when its Activate can no longer succeed
(`RollbackIsLast`), so a rollback that is served late undoes nothing the portal relies on.  The
refinement maps rows to gates; its step lemma takes each action to one gate or to a stutter
(79,900 states).

**Operations** (`OperationApprovalProofs`): `TypeOK`, `EachRunHasItsApproval`,
`DecisionsExplainStatus`.  Nothing is locked, so no step can rely on the status it read.  What
carries the proof is a count: the runs of an operation, and the tasks on their way to one, are
together no more than its approvals (`TasksAreCounted`; 23,529 states).

**Keys** (`ContainerKeysProofs`): `TypeOK`, `RecordsAreStaged`, `HostMatchesPortal`.  A call whose
caller has gone may be served at any later time.  A late prepare or discard is of a record that has
no row and gets none (`FileCalls`, `Enrolling`); a late sync starts from what the lifecycle file
names, which is no less than what the portal counts (`CountedIsHeld`, `SyncCalls`; 4,347,295 states).

### Assumptions on the constants

Each is named in the module that declares the constants, and TLC evaluates it in the runs.

- `LeaseLifecycle`: finitely many lease ids, positive durations, a first lease that ends within the
  horizon, natural numbers for delays and bounds.
- `ComputeProvision`: `IdAssumption` says that ids differ from `None`, and `None` from the results
  of a rollback (in the database NULL).
- `OperationApproval`: finitely many requests at a time, at least one key.
- `ContainerKeys`: finitely many owners, keys and records, the records numbered from 1; `"NONE"` is
  no fingerprint.
- `JobSubmission`: ids differ from `None`, a request is for at most 4 GPUs, memory and time limits are
  positive, the first lease ends within the horizon.  `PilotLifecycle`: ids differ from `None`.

### Only model-checked

The liveness properties `RenewalsAreClosed`, `ExpiryEndsInBinOrReview`, `OrchestrationEnds`,
`HoldsConverge`, `RowsFollowSlurm`, `CommandsEnd` and `QueuedEnds`, because the prover has no rules
for fairness and ENABLED.  `PilotGates` states safety only, and its refinement is proved in full.
The four disagreements are counterexamples of TLC.

## 5. Plan

In order:

1. More proofs: the abstract specifications of 2 as refinements; what `MaxDecisionLag > 0` and
   `MaxQueuedTimeouts > 0` leave of the properties that are proved without them.
2. `LeaseEntitlement`, an abstract specification of what leases promise an owner, implemented by
   `LeaseLifecycle` with no decision lag; `ReservationPool`, the abstract allocator, implemented by
   `ComputeProvision`.
3. `ExpiryScan` (several owners, the head of the list that raises) and `LeaseLocks` (row locks of an
   owner in the orders the handlers take them, deadlock and the database's abort).
4. `SelfActivation`, `AuthSession`, `TerminalSessions`, `WorkerServer`.

Hazards in the code that no property covers are in `PROJECT.json` with the reason.  Smaller ones of
the same kinds are not listed there: every handler that calls the Worker keeps the owner's rows
locked meanwhile; the rollback of a restore is refused when an administrator approved it; the
reconciler and the routes lock plan and request in opposite orders; checks of a session are not
repeated at the commit.

## 6. Not modelled

- Self activation, sessions and tokens, terminals, the connection slots of the Worker: planned above.
- GPU upgrades of an active container and the Portal-4A gates of the command line: operations run by
  hand once, in one transaction each, on top of what `PilotLifecycle` has.
- Workspace views, local images, reports, monitoring, web console, deployment: reads and I/O.
