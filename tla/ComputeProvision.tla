-------------------------- MODULE ComputeProvision --------------------------
(***************************************************************************)
(* How an account gets its first compute environment: request, approval,   *)
(* plan, reservation, dry run, Stage on the host, and what happens when    *)
(* the Stage fails or its answer is lost.                                  *)
(*                                                                         *)
(* A transaction of the API locks the request row, calls the Root Worker   *)
(* under that lock if it has to, and commits: one action.  The Stage is    *)
(* the exception, it commits PROVISIONING first and waits for the Worker   *)
(* with no lock held.  A refused call changes nothing and is a stutter.    *)
(*                                                                         *)
(* The five reservations of a plan (UID, GID, project, port, container)    *)
(* are made, expired, held, released and consumed together in every path   *)
(* of the code: one row per plan, and one coordinate for the four numbers. *)
(* The container is named after the account.                               *)
(*                                                                         *)
(* SessionLocal keeps loaded rows after a commit (expire_on_commit=False), *)
(* and a locking SELECT does not reload them.  A thread therefore goes on  *)
(* with the request as it first saw it; the version column makes its next  *)
(* write of a row that changed meanwhile an exception.  call.stale says    *)
(* that the row changed; a thread that is not stale sees the row.          *)
(***************************************************************************)
EXTENDS Naturals, FiniteSets

CONSTANTS
    Account,             \* Portal accounts
    Request,             \* ids of resource requests
    Owner,               \* the account that submits a request
    Coord,               \* UID = GID, project id and port of an environment
    Caller,              \* API threads that serve administrators
    None,                \* no id
    MaxPlans,            \* bound: plan rows
    MaxOrchestrations,   \* bound: approvals and retries of one request
    MaxLapses,           \* bound: reservations that reach their 24 hours
    MaxCrashes,          \* bound: restarts of the API process
    MaxFaults,           \* bound: failed, refused or unanswered Worker calls
    MaxQueuedTimeouts    \* bound: clients that leave a Stage in the queue

ASSUME IdAssumption ==
    /\ Owner \in [Request -> Account]
    /\ None \notin Account \cup Request \cup Caller \cup Nat
    /\ None \notin {"NOT_REQUIRED", "ROLLED_BACK", "REQUIRES_MANUAL_REVIEW"}
ASSUME BoundAssumption ==
    /\ {MaxPlans, MaxOrchestrations, MaxLapses} \subseteq Nat
    /\ {MaxCrashes, MaxFaults, MaxQueuedTimeouts} \subseteq Nat

Plan == 1..MaxPlans

VARIABLES
    req,        \* portal_compute_resource_requests: status, current plan
    plan,       \* portal_provision_plans
    hold,       \* state of the reservations of a plan
    stage,      \* status of the compute.provision.stage operation of a plan
    rollback,   \* its rollback_status, None until it failed
    parent,     \* the last orchestration of a request: its n-th
    orch,       \* rollback_status of the failed orchestration that made a plan
    auth,       \* the plan a retry_authorize operation of a request is about
    managed,    \* the plan a managed user of an account was made from
    call,       \* what the API threads are doing
    worker,     \* the Stage requests of the Root Worker, and their answers
    host,       \* what a Stage left on the host
    lapsed,     \* plans whose reservations are past expires_at
    spent       \* crashes, faults and queued timeouts so far

rows == <<req, plan, hold, stage, rollback, parent, orch, auth, managed>>
vars == <<rows, call, worker, host, lapsed, spent>>

Open == {"REQUESTED", "APPROVED", "RETRY_AUTHORIZED", "PROVISION_PLAN_READY",
         "PROVISIONING"}
RequestStatus == Open \cup
    {"NONE", "CANCELLED", "REJECTED", "FAILED", "KEY_ENROLLMENT_PENDING"}
Unstarted == {"RESERVED", "READY_FOR_PROVISION"}
PlanState == Unstarted \cup
    {"NONE", "PROVISIONING", "FAILED", "EXPIRED", "STAGED"}
RollbackStatus == {None, "NOT_REQUIRED", "ROLLED_BACK", "REQUIRES_MANUAL_REVIEW"}
AttemptOver == {"FAILED", "EXPIRED"}
AttemptClean == {"NOT_REQUIRED", "ROLLED_BACK"}

(* Every row, thread and request to the Worker has the shape its table or  *)
(* record gives it; what rollback_status says of a failed Stage is one of  *)
(* the two values that reconciliation and retry look for.                  *)
TypeOK ==
    /\ req \in [Request -> [status : RequestStatus, plan : Plan \cup {None}]]
    /\ plan \in [Plan -> [state : PlanState, request : Request \cup {None},
                          attempt : Nat, prev : Plan \cup {None},
                          coord : Coord \cup {None}, evidence : BOOLEAN]]
    /\ hold \in [Plan -> {"NONE", "RESERVED", "RELEASED", "FAILED_HOLD", "CONSUMED"}]
    /\ stage \in [Plan -> {"NONE", "RUNNING", "FAILED", "SUCCEEDED"}]
    /\ rollback \in [Plan -> RollbackStatus]
    /\ parent \in [Request -> [n : 0..MaxOrchestrations,
                               status : {"NONE", "RUNNING", "FAILED", "SUCCEEDED"},
                               type : {"NONE", "compute.provision", "compute.provision.retry"},
                               plan : Plan \cup {None}, dry : Plan \cup {None},
                               failed : Plan \cup {None}]]
    /\ orch \in [Plan -> RollbackStatus]
    /\ auth \in [Request -> Plan \cup {None}]
    /\ managed \in [Account -> Plan \cup {None}]
    /\ call \in [Caller ->
            [pc : {"idle", "plan", "dry_run", "stage", "at_worker", "success", "fail"},
             request : Request \cup {None}, n : 0..MaxOrchestrations,
             plan : Plan \cup {None}, stale : BOOLEAN]]
    /\ worker \in [Plan -> {"none", "queued", "running", "SUCCEEDED", "FAILED", "LOST"}]
    /\ host \in [Plan -> {"ABSENT", "PARTIAL", "STAGED"}]
    /\ lapsed \subseteq Plan
    /\ spent \in [crashes : 0..MaxCrashes, faults : 0..MaxFaults,
                  queued : 0..MaxQueuedTimeouts]

Idle == [pc |-> "idle", request |-> None, n |-> 0, plan |-> None, stale |-> FALSE]

Init ==
    /\ req = [r \in Request |-> [status |-> "NONE", plan |-> None]]
    /\ plan = [p \in Plan |-> [state |-> "NONE", request |-> None, attempt |-> 0,
                               prev |-> None, coord |-> None, evidence |-> FALSE]]
    /\ hold = [p \in Plan |-> "NONE"]
    /\ stage = [p \in Plan |-> "NONE"]
    /\ rollback = [p \in Plan |-> None]
    /\ parent = [r \in Request |-> [n |-> 0, status |-> "NONE", type |-> "NONE",
                                    plan |-> None, dry |-> None, failed |-> None]]
    /\ orch = [p \in Plan |-> None]
    /\ auth = [r \in Request |-> None]
    /\ managed = [a \in Account |-> None]
    /\ call = [k \in Caller |-> Idle]
    /\ worker = [p \in Plan |-> "none"]
    /\ host = [p \in Plan |-> "ABSENT"]
    /\ lapsed = {}
    /\ spent = [crashes |-> 0, faults |-> 0, queued |-> 0]

Used == {p \in Plan : plan[p].state # "NONE"}
AccountOf(p) == Owner[plan[p].request]

Fault == /\ spent.faults < MaxFaults
         /\ spent' = [spent EXCEPT !.faults = @ + 1]

(* The rows R change under the other threads that hold a copy of them. *)
Touch(calls, k, R) ==
    [j \in Caller |-> IF j # k /\ calls[j].request \in R
                         /\ calls[j].pc \in {"plan", "dry_run", "stage"}
                      THEN [calls[j] EXCEPT !.stale = TRUE] ELSE calls[j]]
Goto(k, pc) == [call EXCEPT ![k].pc = pc]

-----------------------------------------------------------------------------
(* The Root Worker serves one control request at a time.  A reading request *)
(* waits for that lock at most its 90 seconds. *)

LockFree == \A p \in Plan : worker[p] # "running"
(* Nothing on the host carries the account's name or the coordinate. *)
HostClean(a, c) ==
    \A q \in Used : host[q] # "ABSENT" => AccountOf(q) # a /\ plan[q].coord # c
(* Mutant: the verifier looks while a Stage is still running. *)
ResidueUnlocked(p) == /\ managed[AccountOf(p)] = None
                      /\ HostClean(AccountOf(p), plan[p].coord)
(* authoritative_zero_residue, when the Worker answers *)
ZeroResidue(p) == /\ LockFree
                  /\ managed[AccountOf(p)] = None
                  /\ HostClean(AccountOf(p), plan[p].coord)
(* ... and when it may fail to. *)
VerifyAnswer(p, clean) ==
    \/ clean = ZeroResidue(p) /\ UNCHANGED spent
    \/ ZeroResidue(p) /\ ~clean /\ Fault

-----------------------------------------------------------------------------
(* The user's side, and the review without provisioning *)

Submit(r) ==
    /\ req[r].status = "NONE"
    /\ managed[Owner[r]] = None
    /\ \A s \in Request : Owner[s] = Owner[r] =>
          req[s].status \notin Open \cup {"FAILED"}
    /\ req' = [req EXCEPT ![r].status = "REQUESTED"]
    /\ UNCHANGED <<plan, hold, stage, rollback, parent, orch, auth, managed, call,
                   worker, host, lapsed, spent>>

Review(r, status) ==
    /\ req[r].status = "REQUESTED"
    /\ status # "CANCELLED" => managed[Owner[r]] = None
    /\ req' = [req EXCEPT ![r].status = status]
    /\ UNCHANGED <<plan, hold, stage, rollback, parent, orch, auth, managed, call,
                   worker, host, lapsed, spent>>
Cancel(r) == Review(r, "CANCELLED")
Reject(r) == Review(r, "REJECTED")
ReviewApprove(r) == Review(r, "APPROVED")

-----------------------------------------------------------------------------
(* Allocation.  Every planning transaction first releases the reservations *)
(* that have lapsed, whoever they belong to.                               *)

Expiring == {p \in lapsed : hold[p] = "RESERVED"}
HoldX == [p \in Plan |-> IF p \in Expiring THEN "RELEASED" ELSE hold[p]]
PlanX == [p \in Plan |-> IF p \in Expiring /\ plan[p].state \in Unstarted
                         THEN [plan[p] EXCEPT !.state = "EXPIRED"] ELSE plan[p]]
Reopened == {r \in Request : /\ req[r].status = "PROVISION_PLAN_READY"
                             /\ \E p \in Expiring : /\ plan[p].state \in Unstarted
                                                    /\ plan[p].request = r}
ReqX == [r \in Request |-> IF r \in Reopened
                           THEN [req[r] EXCEPT !.status = "APPROVED"] ELSE req[r]]

(* The failed operation of an attempt: the Stage, else the orchestration. *)
Failure(p) == IF stage[p] = "FAILED" THEN rollback[p] ELSE orch[p]
RetryableAttempt(r) ==
    LET p == req[r].plan IN
    /\ p # None
    /\ plan[p].state = "FAILED" /\ hold[p] = "RELEASED"
    /\ Failure(p) \in AttemptClean
RolledBackStage(r) ==
    /\ RetryableAttempt(r)
    /\ stage[req[r].plan] = "FAILED"

Running(k) == /\ parent[call[k].request].n = call[k].n
              /\ parent[call[k].request].status = "RUNNING"

(* May a new attempt start from request r, for orchestration n (0: none)?   *)
(* The key of the planning step is unique: an orchestration plans once. *)
Startable(r, n) ==
    LET q == ReqX[r] IN
    /\ managed[Owner[r]] = None
    /\ n # 0 => parent[r].plan = None
    /\ \/ /\ q.status = "APPROVED"
          /\ q.plan # None => PlanX[q.plan].state = "EXPIRED"
       \/ /\ q.status = "RETRY_AUTHORIZED"
          /\ IF n = 0 THEN RolledBackStage(r) /\ auth[r] = q.plan
             ELSE /\ RetryableAttempt(r)
                  /\ parent[r].n = n /\ parent[r].status = "RUNNING"
                  /\ parent[r].type = "compute.provision.retry"
                  /\ parent[r].failed = q.plan
(* Mutant: FAILED_HOLD keeps no active_key. *)
AllocatableHeld(r, c) ==
    /\ LockFree
    /\ HostClean(Owner[r], c)
    /\ \A p \in Used :
          HoldX[p] = "RESERVED" \/ plan[p].state = "STAGED"
              => plan[p].coord # c /\ AccountOf(p) # Owner[r]
(* Coordinates free on the host, in the reservations and in the portal. *)
Allocatable(r, c) ==
    /\ LockFree
    /\ HostClean(Owner[r], c)
    /\ \A p \in Used :
          HoldX[p] \in {"RESERVED", "FAILED_HOLD"} \/ plan[p].state = "STAGED"
              => plan[p].coord # c /\ AccountOf(p) # Owner[r]
NextPlan == Cardinality(Used) + 1
CanPlan(r, n) == /\ NextPlan \in Plan
                 /\ Startable(r, n)
                 /\ \E c \in Coord : Allocatable(r, c)

(* Mutant: after an expiry the attempts are counted anew. *)
AttemptNumberOfRetry(r) ==
    IF req[r].plan = None \/ ReqX[r].status = "APPROVED" THEN 1
    ELSE plan[req[r].plan].attempt + 1
AttemptNumber(r) ==
    IF req[r].plan = None THEN 1 ELSE plan[req[r].plan].attempt + 1
NewPlan(r, n) ==
    /\ CanPlan(r, n)
    /\ \E c \in Coord :
        /\ Allocatable(r, c)
        /\ plan' = [PlanX EXCEPT ![NextPlan] =
              [state |-> "RESERVED", request |-> r,
               attempt |-> AttemptNumber(r), prev |-> req[r].plan, coord |-> c, evidence |-> FALSE]]
    /\ hold' = [HoldX EXCEPT ![NextPlan] = "RESERVED"]
    /\ req' = [ReqX EXCEPT ![r] = [status |-> "PROVISION_PLAN_READY", plan |-> NextPlan]]
    /\ parent' = IF n = 0 THEN parent ELSE [parent EXCEPT ![r].plan = NextPlan]
    /\ UNCHANGED <<stage, rollback, orch, auth, managed, worker, host, lapsed, spent>>

HasPlan(r) == /\ ReqX[r].status = "PROVISION_PLAN_READY"
              /\ PlanX[req[r].plan].state \in Unstarted

(* POST .../plan *)
CreatePlan(r) ==
    /\ ~HasPlan(r)
    /\ NewPlan(r, 0)
    /\ call' = Touch(call, None, Reopened \cup {r})

(* The first step of an orchestration: a plan, new or already there. *)
OrchestratedPlan(k) ==
    LET r == call[k].request IN
    /\ call[k].pc = "plan" /\ ~call[k].stale
    /\ \/ /\ HasPlan(r)
          /\ plan' = PlanX /\ hold' = HoldX /\ req' = ReqX
          /\ call' = Touch(Goto(k, "dry_run"), k, Reopened)
          /\ UNCHANGED <<parent, stage, rollback, orch, auth, managed, worker, host,
                         lapsed, spent>>
       \/ /\ ~HasPlan(r)
          /\ NewPlan(r, call[k].n)
          /\ call' = Touch(Goto(k, "dry_run"), k, Reopened \cup {r})

-----------------------------------------------------------------------------
(* Dry run *)

Reserved(r) ==
    LET p == req[r].plan IN
    /\ req[r].status = "PROVISION_PLAN_READY"
    /\ plan[p].state \in Unstarted
    /\ managed[Owner[r]] = None
    /\ hold[p] = "RESERVED" /\ p \notin lapsed
DryRunPasses(r) ==
    Reserved(r) /\ LockFree /\ HostClean(Owner[r], plan[req[r].plan].coord)

Ready(r) ==
    plan' = [plan EXCEPT ![req[r].plan].state = "READY_FOR_PROVISION",
                         ![req[r].plan].evidence = TRUE]
(* A dry run that reports a conflict replaces the evidence of a better one. *)
DryRunConflict(r) ==
    /\ Reserved(r) /\ LockFree
    /\ IF DryRunPasses(r) THEN Fault ELSE UNCHANGED spent
    /\ plan' = [plan EXCEPT ![req[r].plan].evidence = FALSE]

(* POST .../dry-run *)
DryRun(r) ==
    /\ \/ DryRunPasses(r) /\ Ready(r) /\ UNCHANGED spent
       \/ DryRunConflict(r)
    /\ UNCHANGED <<req, hold, stage, rollback, parent, orch, auth, managed, call,
                   worker, host, lapsed>>

(* The second step, once for each orchestration.  When its own dry run is  *)
(* there already, the evidence is used again without the Worker. *)
Replayable(r) == /\ req[r].status = "PROVISION_PLAN_READY"
                 /\ parent[r].dry = req[r].plan
                 /\ plan[req[r].plan].state = "READY_FOR_PROVISION"
                 /\ plan[req[r].plan].evidence
                 /\ managed[Owner[r]] = None
DryRunStep(r) == \/ parent[r].dry = None /\ DryRunPasses(r)
                 \/ Replayable(r)
OrchestratedDryRun(k) ==
    LET r == call[k].request IN
    /\ call[k].pc = "dry_run" /\ ~call[k].stale
    /\ \/ /\ DryRunStep(r) /\ Ready(r)
          /\ parent' = [parent EXCEPT ![r].dry = req[r].plan]
          /\ call' = Goto(k, "stage") /\ UNCHANGED spent
       \/ /\ parent[r].dry = None /\ DryRunConflict(r)
          /\ call' = Goto(k, "fail") /\ UNCHANGED parent
    /\ UNCHANGED <<req, hold, stage, rollback, orch, auth, managed, worker, host, lapsed>>

-----------------------------------------------------------------------------
(* Stage *)

Stageable(r) == /\ Reserved(r)
                /\ plan[req[r].plan].state = "READY_FOR_PROVISION"
                /\ plan[req[r].plan].evidence
(* PROVISIONING is committed before the Worker is asked. *)
BeginStage(k, r, n) ==
    LET p == req[r].plan IN
    /\ Stageable(r)
    /\ req' = [req EXCEPT ![r].status = "PROVISIONING"]
    /\ plan' = [plan EXCEPT ![p].state = "PROVISIONING"]
    /\ stage' = [stage EXCEPT ![p] = "RUNNING"]
    /\ worker' = [worker EXCEPT ![p] = "queued"]
    /\ call' = Touch([call EXCEPT ![k] = [pc |-> "at_worker", request |-> r, n |-> n,
                                          plan |-> p, stale |-> FALSE]], k, {r})
    /\ UNCHANGED <<hold, rollback, parent, orch, auth, managed, host, lapsed, spent>>

(* POST .../provision *)
Provision(k, r) == call[k].pc = "idle" /\ BeginStage(k, r, 0)
(* The third step *)
OrchestratedStage(k) == /\ call[k].pc = "stage" /\ ~call[k].stale
                        /\ BeginStage(k, call[k].request, call[k].n)

(* What a thread does after the Stage: an orchestration has a last step. *)
After(k, pc) == [call EXCEPT ![k] = IF @.n = 0 THEN Idle
                                    ELSE [@ EXCEPT !.pc = pc, !.plan = None]]

(* Mutant: the Worker's own classification is stored. *)
FailStageInItsWords(p, clean) ==
    /\ stage' = [stage EXCEPT ![p] = "FAILED"]
    /\ rollback' = [rollback EXCEPT ![p] = IF clean THEN "ROLLED_BACK" ELSE "PARTIAL_UNKNOWN"]
    /\ req' = [req EXCEPT ![plan[p].request].status = "FAILED"]
    /\ plan' = [plan EXCEPT ![p].state = "FAILED"]
    /\ hold' = [hold EXCEPT ![p] = CASE clean -> "RELEASED"
                                     [] ~clean /\ @ = "RESERVED" -> "FAILED_HOLD"
                                     [] OTHER -> @]
    /\ UNCHANGED managed

(* Mutant: the request stays in PROVISIONING. *)
FailStageQuietly(p, clean) ==
    /\ stage' = [stage EXCEPT ![p] = "FAILED"]
    /\ rollback' = [rollback EXCEPT ![p] = IF clean THEN "ROLLED_BACK" ELSE "REQUIRES_MANUAL_REVIEW"]
    /\ UNCHANGED req
    /\ plan' = [plan EXCEPT ![p].state = "FAILED"]
    /\ hold' = [hold EXCEPT ![p] = CASE clean -> "RELEASED"
                                     [] ~clean /\ @ = "RESERVED" -> "FAILED_HOLD"
                                     [] OTHER -> @]
    /\ UNCHANGED managed

(* A failed or uncertain Stage, recorded with what the verifier found.  Only *)
(* reservations that are still there can be held.  Nobody tells NOT_REQUIRED *)
(* from ROLLED_BACK: one value stands for both. *)
FailStage(p, clean) ==
    /\ stage' = [stage EXCEPT ![p] = "FAILED"]
    /\ rollback' = [rollback EXCEPT ![p] =
                       IF clean THEN "ROLLED_BACK" ELSE "REQUIRES_MANUAL_REVIEW"]
    /\ req' = [req EXCEPT ![plan[p].request].status = "FAILED"]
    /\ plan' = [plan EXCEPT ![p].state = "FAILED"]
    /\ hold' = [hold EXCEPT ![p] = CASE clean -> "RELEASED"
                                     [] ~clean /\ @ = "RESERVED" -> "FAILED_HOLD"
                                     [] OTHER -> @]
    /\ UNCHANGED managed

Consume(p) ==
    /\ stage' = [stage EXCEPT ![p] = "SUCCEEDED"]
    /\ req' = [req EXCEPT ![plan[p].request].status = "KEY_ENROLLMENT_PENDING"]
    /\ plan' = [plan EXCEPT ![p].state = "STAGED"]
    /\ hold' = [hold EXCEPT ![p] = "CONSUMED"]
    /\ managed' = [managed EXCEPT ![AccountOf(p)] = p]
    /\ UNCHANGED rollback

(* The answer is there.  Whether it is used depends on what the rows say now. *)
StillProvisioning(p) == /\ stage[p] = "RUNNING" /\ plan[p].state = "PROVISIONING"
                        /\ req[plan[p].request].status = "PROVISIONING"
StageAnswer(k) ==
    LET p == call[k].plan IN
    /\ call[k].pc = "at_worker" /\ worker[p] \in {"SUCCEEDED", "FAILED"}
    /\ \/ /\ ~StillProvisioning(p)
          /\ call' = After(k, "fail")
          /\ UNCHANGED <<req, plan, hold, stage, rollback, managed, spent>>
       \/ /\ StillProvisioning(p)
          /\ hold[p] = "RESERVED" /\ worker[p] = "SUCCEEDED"
          /\ Consume(p)
          /\ call' = After(k, "success") /\ UNCHANGED spent
       \/ /\ StillProvisioning(p)
          /\ hold[p] = "RESERVED" /\ worker[p] = "SUCCEEDED"
          /\ Fault /\ FailStage(p, FALSE)      \* wrong result, or commit failed
          /\ call' = After(k, "fail")
       \/ /\ StillProvisioning(p)
          /\ hold[p] # "RESERVED" \/ worker[p] = "FAILED"
          /\ \E clean \in BOOLEAN : VerifyAnswer(p, clean) /\ FailStage(p, clean)
          /\ call' = After(k, "fail")
    /\ worker' = [worker EXCEPT ![p] = "none"]
    /\ UNCHANGED <<parent, orch, auth, host, lapsed>>

(* No answer: the Worker died, or the client waited its 1800 seconds.  Here *)
(* only the operation is looked at, not the request. *)
StageUnanswered(k) ==
    LET p == call[k].plan IN
    /\ call[k].pc = "at_worker"
    /\ \E clean \in BOOLEAN :
        /\ CASE worker[p] = "LOST" -> VerifyAnswer(p, clean)
             [] worker[p] = "queued" -> /\ spent.queued < MaxQueuedTimeouts
                                        /\ spent' = [spent EXCEPT !.queued = @ + 1]
                                        /\ clean => ZeroResidue(p)
             [] OTHER -> Fault /\ (clean => ZeroResidue(p))
        /\ FailStage(p, clean)
    /\ worker' = [worker EXCEPT ![p] = IF @ \in {"queued", "running"} THEN @ ELSE "none"]
    /\ call' = After(k, "fail")
    /\ UNCHANGED <<parent, orch, auth, host, lapsed>>

-----------------------------------------------------------------------------
(* The Root Worker.  A request stays in the queue, and is served, even if  *)
(* its client has gone.                                                    *)

Awaited(p) == \E k \in Caller : call[k].pc = "at_worker" /\ call[k].plan = p

WorkerTake(p) ==
    /\ worker[p] = "queued" /\ LockFree
    /\ worker' = [worker EXCEPT ![p] = "running"]
    /\ UNCHANGED <<rows, call, host, lapsed, spent>>

(* Mutant: the preflight looks for the account only. *)
PreflightOfName(p) == \A q \in Used : host[q] # "ABSENT" => AccountOf(q) # AccountOf(p)
(* The preflight repeats the checks of the dry run. *)
Preflight(p) == HostClean(AccountOf(p), plan[p].coord)
(* The environment of another attempt with the very same account and         *)
(* coordinate: the Stage takes it for its own, finished before. *)
Twins(p) == {q \in Used \ {p} : /\ host[q] = "STAGED" /\ AccountOf(q) = AccountOf(p)
                               /\ plan[q].coord = plan[p].coord}
(* The script is all or nothing, or it leaves residue, or its postcondition *)
(* fails. *)
WorkerStage(p) ==
    LET Answer(a) == worker' = [worker EXCEPT ![p] = IF Awaited(p) THEN a ELSE "none"]
    IN
    /\ worker[p] = "running"
    /\ \/ /\ Preflight(p)
          /\ host' = [host EXCEPT ![p] = "STAGED"]
          /\ Answer("SUCCEEDED") /\ UNCHANGED spent
       \/ \E q \in Twins(p) :
          /\ host' = [host EXCEPT ![p] = "STAGED", ![q] = "ABSENT"]
          /\ Answer("SUCCEEDED") /\ UNCHANGED spent
       \/ /\ ~Preflight(p)
          /\ IF Twins(p) = {} THEN UNCHANGED spent ELSE Fault
          /\ Answer("FAILED") /\ UNCHANGED host
       \/ /\ Preflight(p) /\ Fault /\ Answer("FAILED")
          /\ \E left \in {"ABSENT", "PARTIAL", "STAGED"} :
                host' = [host EXCEPT ![p] = left]
    /\ UNCHANGED <<rows, call, lapsed>>

(* The Worker is restarted: what it was doing stops, its queue is lost. *)
WorkerRestart ==
    /\ \E p \in Plan : worker[p] \in {"queued", "running"}
    /\ Fault
    /\ \E left \in {"ABSENT", "PARTIAL", "STAGED"} :
          host' = [p \in Plan |->
              IF worker[p] = "running" /\ Preflight(p)
              THEN left ELSE host[p]]
    /\ worker' = [p \in Plan |-> IF worker[p] \notin {"queued", "running"} THEN worker[p]
                                 ELSE IF Awaited(p) THEN "LOST" ELSE "none"]
    /\ UNCHANGED <<rows, call, lapsed>>

-----------------------------------------------------------------------------
(* Orchestration: one approval, or one retry, runs all three steps *)

Start(k, r, type, status) ==
    /\ call[k].pc = "idle"
    /\ parent[r].status # "RUNNING" /\ parent[r].n < MaxOrchestrations
    /\ managed[Owner[r]] = None
    /\ req' = [req EXCEPT ![r].status = status]
    /\ parent' = [parent EXCEPT ![r] = [n |-> @.n + 1, status |-> "RUNNING", type |-> type,
                                        plan |-> None, dry |-> None, failed |-> req[r].plan]]
    /\ call' = [call EXCEPT ![k] = [pc |-> "plan", request |-> r, n |-> parent[r].n + 1,
                                    plan |-> None, stale |-> FALSE]]
    /\ UNCHANGED <<plan, hold, stage, rollback, orch, auth, managed, worker, host,
                   lapsed, spent>>
ApproveAndProvision(k, r) ==
    /\ req[r].status = "REQUESTED"
    /\ Start(k, r, "compute.provision", "APPROVED")
RetryProvision(k, r) ==
    /\ req[r].status = "FAILED" /\ RetryableAttempt(r)
    /\ Start(k, r, "compute.provision.retry", "RETRY_AUTHORIZED")

(* The same key again while the orchestration is RUNNING runs it again, *)
(* from the first step, next to the thread that may still be at it. *)
Replay(k, r) ==
    /\ call[k].pc = "idle"
    /\ parent[r].status = "RUNNING" /\ req[r].status # "PROVISIONING"
    /\ call' = [call EXCEPT ![k] =
          [pc |-> CASE req[r].status = "KEY_ENROLLMENT_PENDING" -> "success"
                    [] req[r].status = "FAILED" -> "fail"
                    [] OTHER -> "plan",
           request |-> r, n |-> parent[r].n, plan |-> None, stale |-> FALSE]]
    /\ UNCHANGED <<rows, worker, host, lapsed, spent>>

(* A step fails: its conditions do not hold, a write met a newer version, *)
(* or the Worker did not answer. *)
StepPossible(k) ==
    LET r == call[k].request IN
    /\ ~call[k].stale
    /\ CASE call[k].pc = "plan" -> HasPlan(r) \/ CanPlan(r, call[k].n)
         [] call[k].pc = "dry_run" -> DryRunStep(r)
         [] call[k].pc = "stage" -> Stageable(r)
(* Mutant: only errors of the API itself are caught. *)
StepFailsUncaught(k) ==
    /\ call[k].pc \in {"plan", "dry_run", "stage"}
    /\ IF StepPossible(k) THEN Fault ELSE UNCHANGED spent
    /\ call' = IF call[k].stale THEN [call EXCEPT ![k] = Idle] ELSE Goto(k, "fail")
    /\ UNCHANGED <<rows, worker, host, lapsed>>
StepFails(k) ==
    /\ call[k].pc \in {"plan", "dry_run", "stage"}
    /\ IF StepPossible(k) THEN Fault ELSE UNCHANGED spent
    /\ call' = Goto(k, "fail")
    /\ UNCHANGED <<rows, worker, host, lapsed>>

OrchestrationSucceeds(k) ==
    LET r == call[k].request IN
    /\ call[k].pc = "success"
    /\ parent' = IF Running(k) THEN [parent EXCEPT ![r].status = "SUCCEEDED"] ELSE parent
    /\ call' = [call EXCEPT ![k] = Idle]
    /\ UNCHANGED <<req, plan, hold, stage, rollback, orch, auth, managed, worker, host,
                   lapsed, spent>>

(* Mutant: the other thread's success is overwritten. *)
FailAnyway(r) == [req EXCEPT ![r].status = "FAILED"]
FailUnlessDone(r) ==
    IF req[r].status \in {"FAILED", "KEY_ENROLLMENT_PENDING"} THEN req
    ELSE [req EXCEPT ![r].status = "FAILED"]
(* The last step of a failure rolls back and reads everything again.  It    *)
(* ends an attempt that has not begun, and fails the request whatever else  *)
(* is going on.                                                             *)
OrchestrationFails(k) ==
    LET r == call[k].request
        p == req[r].plan
        failure == IF p = None THEN None ELSE Failure(p)
        undone == p # None /\ failure = None /\ plan[p].state \in Unstarted
    IN
    /\ call[k].pc = "fail"
    /\ IF ~Running(k)
       THEN UNCHANGED <<req, plan, hold, parent, orch>> /\ call' = [call EXCEPT ![k] = Idle]
       ELSE /\ plan' = IF undone THEN [plan EXCEPT ![p].state = "FAILED"] ELSE plan
            /\ hold' = IF undone /\ hold[p] = "RESERVED"
                       THEN [hold EXCEPT ![p] = "RELEASED"] ELSE hold
            /\ req' = FailUnlessDone(r)
            /\ parent' = [parent EXCEPT ![r].status = "FAILED"]
            /\ orch' = IF parent[r].plan = None THEN orch
                       ELSE [orch EXCEPT ![parent[r].plan] =
                                IF failure = None THEN "NOT_REQUIRED" ELSE failure]
            /\ call' = Touch([call EXCEPT ![k] = Idle], k, IF req' = req THEN {} ELSE {r})
    /\ UNCHANGED <<stage, rollback, auth, managed, worker, host, lapsed, spent>>

-----------------------------------------------------------------------------
(* After a failure *)

(* The reconciler's timer, and POST .../reconcile-failed-provision *)
Reconcile(p) ==
    LET r == plan[p].request IN
    /\ p \in Used
    /\ req[r] = [status |-> "FAILED", plan |-> p] /\ managed[Owner[r]] = None
    /\ plan[p].state = "FAILED"
    /\ stage[p] = "FAILED" /\ rollback[p] = "REQUIRES_MANUAL_REVIEW"
    /\ hold[p] = "FAILED_HOLD"
    /\ ZeroResidue(p)
    /\ hold' = [hold EXCEPT ![p] = "RELEASED"]
    /\ rollback' = [rollback EXCEPT ![p] = "ROLLED_BACK"]
    /\ UNCHANGED <<req, plan, stage, parent, orch, auth, managed, call, worker, host,
                   lapsed, spent>>

(* POST .../retry-authorize *)
AuthorizeRetry(r) ==
    /\ req[r].status = "FAILED"
    /\ RolledBackStage(r) /\ ZeroResidue(req[r].plan)
    /\ req' = [req EXCEPT ![r].status = "RETRY_AUTHORIZED"]
    /\ auth' = [auth EXCEPT ![r] = req[r].plan]
    /\ call' = Touch(call, None, {r})
    /\ UNCHANGED <<plan, hold, stage, rollback, parent, orch, managed, worker, host,
                   lapsed, spent>>

(* An administrator removes by hand what a failed Stage left. *)
CleanHost(p) ==
    /\ host[p] # "ABSENT" /\ rollback[p] = "REQUIRES_MANUAL_REVIEW"
    /\ worker[p] \notin {"queued", "running"}
    /\ host' = [host EXCEPT ![p] = "ABSENT"]
    /\ UNCHANGED <<rows, call, worker, lapsed, spent>>

Lapse(p) ==
    /\ hold[p] = "RESERVED" /\ p \notin lapsed
    /\ Cardinality(lapsed) < MaxLapses
    /\ lapsed' = lapsed \cup {p}
    /\ UNCHANGED <<rows, call, worker, host, spent>>

(* The API process is restarted: its threads and the answers to them go, and *)
(* a Stage that was committed may not have been sent. *)
ApiCrash ==
    /\ spent.crashes < MaxCrashes
    /\ \E k \in Caller : call[k].pc # "idle"
    /\ spent' = [spent EXCEPT !.crashes = @ + 1]
    /\ call' = [k \in Caller |-> Idle]
    /\ \E unsent \in SUBSET {p \in Plan : worker[p] = "queued" /\ Awaited(p)} :
          worker' = [p \in Plan |-> IF worker[p] \in {"queued", "running"} /\ p \notin unsent
                                    THEN worker[p] ELSE "none"]
    /\ UNCHANGED <<rows, host, lapsed>>

-----------------------------------------------------------------------------
User(r) == Submit(r) \/ Cancel(r)
Administrator(r) ==
    \/ Reject(r) \/ ReviewApprove(r)
    \/ CreatePlan(r) \/ DryRun(r) \/ AuthorizeRetry(r)
    \/ \E k \in Caller : \/ ApproveAndProvision(k, r) \/ RetryProvision(k, r)
                         \/ Replay(k, r) \/ Provision(k, r)
Thread(k) ==
    \/ OrchestratedPlan(k) \/ OrchestratedDryRun(k) \/ OrchestratedStage(k)
    \/ StageAnswer(k) \/ StageUnanswered(k) \/ StepFails(k)
    \/ OrchestrationSucceeds(k) \/ OrchestrationFails(k)
RootWorker == WorkerRestart \/ \E p \in Plan : WorkerTake(p) \/ WorkerStage(p)

Next ==
    \/ \E r \in Request : User(r) \/ Administrator(r)
    \/ \E k \in Caller : Thread(k)
    \/ RootWorker
    \/ \E p \in Plan : Reconcile(p) \/ CleanHost(p) \/ Lapse(p)
    \/ ApiCrash

Spec == Init /\ [][Next]_vars

(* A thread that has begun goes on unless its process dies, the Root Worker *)
(* serves its queue, and the reconciler's timer fires every five minutes.   *)
Fairness ==
    /\ \A k \in Caller : WF_vars(Thread(k))
    /\ \A p \in Plan : /\ WF_vars(WorkerTake(p)) /\ WF_vars(WorkerStage(p))
                        /\ WF_vars(Reconcile(p))
FairSpec == Spec /\ Fairness

-----------------------------------------------------------------------------
(* Properties *)

(* Two attempts never share a coordinate or an account on the host: the    *)
(* repeated preflight of the Stage is what keeps a late one out.           *)
EnvironmentsDisjoint ==
    \A p, q \in Used : p # q /\ host[p] # "ABSENT" /\ host[q] # "ABSENT" =>
        plan[p].coord # plan[q].coord /\ AccountOf(p) # AccountOf(q)

(* active_key is unique: what one attempt reserves, holds or has consumed  *)
(* belongs to no other, whatever expired, failed or was answered late.     *)
Claims(p) == hold[p] \in {"RESERVED", "FAILED_HOLD", "CONSUMED"}
HeldOnce ==
    \A p, q \in Used : p # q /\ Claims(p) /\ Claims(q) =>
        plan[p].coord # plan[q].coord /\ AccountOf(p) # AccountOf(q)

(* A managed user, the plan it was made from, the consumed reservations,   *)
(* the request and the host tell one story, and no later failure of a      *)
(* thread of the same request takes any of it back.                        *)
RecordedEnvironment ==
    \A p \in Used :
        LET staged == managed[AccountOf(p)] = p IN
        /\ staged <=> plan[p].state = "STAGED"
        /\ staged <=> hold[p] = "CONSUMED"
        /\ staged <=> req[plan[p].request] = [status |-> "KEY_ENROLLMENT_PENDING", plan |-> p]
        /\ staged => host[p] = "STAGED" /\ stage[p] = "SUCCEEDED"

(* A Stage that is recorded as rolled back left nothing on the host, and   *)
(* nothing of it can come any more: its coordinates may be given away.     *)
RolledBackIsClean ==
    \A p \in Used : rollback[p] = "ROLLED_BACK" =>
        host[p] = "ABSENT" /\ worker[p] \notin {"queued", "running"}

(* The attempts of a request are a chain: numbered from 1, each made from  *)
(* one that is over and has given up its reservations, and only the last   *)
(* one can be alive.                                                       *)
AttemptChain ==
    \A p \in Used :
        LET q == plan[p].prev IN
        /\ q = None <=> plan[p].attempt = 1
        /\ q # None => /\ plan[q].request = plan[p].request
                       /\ plan[p].attempt = plan[q].attempt + 1
                       /\ plan[q].state \in AttemptOver /\ hold[q] = "RELEASED"
        /\ plan[p].state \notin AttemptOver => req[plan[p].request].plan = p

(* An approval or a retry comes to an end, whatever its steps meet, as long *)
(* as the API process lives. *)
OrchestrationEnds ==
    \A r \in Request : parent[r].status = "RUNNING"
                          ~> parent[r].status # "RUNNING" \/ spent.crashes > 0

(* The reconciler releases what a failed attempt holds once the host is    *)
(* clean, whether or not an administrator had to clean it. *)
HoldsConverge ==
    \A p \in Plan : hold[p] = "FAILED_HOLD" /\ host[p] = "ABSENT"
                      ~> hold[p] # "FAILED_HOLD" \/ host[p] # "ABSENT"

-----------------------------------------------------------------------------
(* What the repository says and the code does not keep.                    *)

(* A plan in PROVISIONING ends CONSUMED or in FAILED_HOLD, or is released  *)
(* (docs/operations-and-approvals.md:100-101).  A second thread of the     *)
(* same request, or a crash, takes away the thread that would see to it.   *)
StageSettles ==
    \A p \in Plan : plan[p].state = "PROVISIONING" ~> plan[p].state # "PROVISIONING"

(* The approval of a failed request is still valid, an administrator can   *)
(* go on with it (the message of APPROVED_COMPUTE_REQUEST_RETRY_PENDING):  *)
(* its attempt can be retried, or reconciled first.  A request whose first *)
(* planning step failed has no attempt at all.                             *)
FailedCanContinue ==
    \A r \in Request : req[r].status = "FAILED" =>
        \/ RetryableAttempt(r)
        \/ parent[r].status = "RUNNING"
        \/ req[r].plan # None /\ hold[req[r].plan] = "FAILED_HOLD"
=============================================================================
