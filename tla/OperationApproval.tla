------------------------- MODULE OperationApproval -------------------------
(***************************************************************************)
(* Operations that an administrator drafts, submits and approves over      *)
(* HTTP, and the background task that an approval leaves behind: it asks   *)
(* the Worker for a dry-run and records the outcome.                       *)
(*                                                                         *)
(* A request reads its operation without a lock and commits what it makes  *)
(* of it: the status it has read may be gone by then, and the commit       *)
(* writes over it.  An insert waits for the other transaction that has     *)
(* inserted the same key.  The operations of one requester are named by    *)
(* their idempotency keys.  What the roles, the confirmation and the       *)
(* recent authentication refuse is a request that is not made.             *)
(***************************************************************************)
EXTENDS Naturals, FiniteSets

CONSTANTS
    Actor,     \* requests served at the same time
    Key,       \* idempotency keys of one requester
    Gated,     \* keys of user.stage and user.activate operations
    MaxFaults, \* bound: Worker failures and crashes
    MaxRuns    \* bound: requests made

ASSUME OperationAssumption ==
    /\ IsFiniteSet(Actor) /\ Key # {} /\ Gated \subseteq Key
    /\ MaxFaults \in Nat /\ MaxRuns \in Nat

VARIABLES
    status,    \* portal_operations
    approvals, \* portal_operation_approvals with APPROVE, of each operation
    rejects,   \* and those with REJECT
    executed,  \* background tasks of each operation that went to the Worker
    proc,      \* requests, and the tasks that run after them
    faults,    \* faults so far
    runs       \* requests so far

vars == <<status, approvals, rejects, executed, proc, faults, runs>>

-----------------------------------------------------------------------------
Final == {"SUCCEEDED", "FAILED", "CANCELLED"}
Status == {"NONE", "DRAFT", "PENDING_APPROVAL", "QUEUED", "RUNNING"} \cup Final

Places == {"IDLE", "CHECKED", "INSERTED", "SUBMITTING", "DECIDING", "TASK", "STARTING",
           "RUNNING"}
Answers == {"NONE", "OPERATION", "REFUSED", "ERROR"}

Nobody == [at |-> "IDLE", key |-> CHOOSE k \in Key : TRUE, reply |-> "NONE"]

Init ==
    /\ status = [k \in Key |-> "NONE"]
    /\ approvals = [k \in Key |-> 0]
    /\ rejects = [k \in Key |-> 0]
    /\ executed = [k \in Key |-> 0]
    /\ proc = [a \in Actor |-> Nobody]
    /\ faults = 0 /\ runs = 0

Fault == faults < MaxFaults /\ faults' = faults + 1

At(a, at) == proc[a].at = at
Goes(a, at) == proc' = [proc EXCEPT ![a].at = at]
Replies(a, reply) == proc' = [proc EXCEPT ![a].at = "IDLE", ![a].reply = reply]

Starts(a, k, at) ==
    /\ At(a, "IDLE")
    /\ runs < MaxRuns
    /\ runs' = runs + 1
    /\ proc' = [proc EXCEPT ![a] = [at |-> at, key |-> k, reply |-> "NONE"]]
    /\ UNCHANGED <<status, approvals, rejects, executed, faults>>

-----------------------------------------------------------------------------
(* create_operation.                                                       *)

(* The key is looked up first.                                             *)
LooksUp(a, k) ==
    \/ status[k] = "NONE" /\ Starts(a, k, "CHECKED")
    \/ /\ status[k] # "NONE"
       /\ At(a, "IDLE") /\ runs < MaxRuns /\ runs' = runs + 1
       /\ proc' = [proc EXCEPT ![a] = [at |-> "IDLE", key |-> k, reply |-> "OPERATION"]]
       /\ UNCHANGED <<status, approvals, rejects, executed, faults>>

(* db.flush inserts the row, or fails on UNIQUE (requested_by,             *)
(* idempotency_key) outside of the try around the commit.                  *)
Flush(a) ==
    LET k == proc[a].key
    IN  /\ At(a, "CHECKED")
        /\ \A b \in Actor : ~(At(b, "INSERTED") /\ proc[b].key = k)
        /\ IF status[k] = "NONE" THEN Goes(a, "INSERTED") ELSE Replies(a, "ERROR")
        /\ UNCHANGED <<status, approvals, rejects, executed, faults, runs>>

(* The dry-run of a draft fails without consequence for its status; one    *)
(* that contradicts the keys of an Activate rolls the draft back.          *)
CommitDraft(a) ==
    LET k == proc[a].key
    IN  /\ At(a, "INSERTED")
        /\ \/ status' = [status EXCEPT ![k] = "DRAFT"] /\ Replies(a, "OPERATION")
           \/ k \in Gated /\ UNCHANGED status /\ Replies(a, "REFUSED")
        /\ UNCHANGED <<approvals, rejects, executed, faults, runs>>

-----------------------------------------------------------------------------
(* submit_operation.                                                       *)

(* Mutation: the gate of the lifecycle operations is open.                 *)
MaySubmitAny(k) == status[k] = "DRAFT"

MaySubmit(k) == status[k] = "DRAFT" /\ k \notin Gated

LoadDraft(a, k) == MaySubmit(k) /\ Starts(a, k, "SUBMITTING")

CommitSubmission(a) ==
    /\ At(a, "SUBMITTING")
    /\ status' = [status EXCEPT ![proc[a].key] = "PENDING_APPROVAL"]
    /\ Replies(a, "OPERATION")
    /\ UNCHANGED <<approvals, rejects, executed, faults, runs>>

-----------------------------------------------------------------------------
(* approve_operation.                                                      *)

LoadPending(a, k) == status[k] = "PENDING_APPROVAL" /\ Starts(a, k, "DECIDING")

(* Mutation: only approvals are recorded.                                  *)
CommitRejectUnrecorded(a) ==
    /\ At(a, "DECIDING")
    /\ status' = [status EXCEPT ![proc[a].key] = "CANCELLED"]
    /\ Replies(a, "OPERATION")
    /\ UNCHANGED <<approvals, rejects, executed, faults, runs>>

(* Mutation: the operation gets the name of the decision.                  *)
CommitRejectByName(a) ==
    /\ At(a, "DECIDING")
    /\ status' = [status EXCEPT ![proc[a].key] = "REJECTED"]
    /\ rejects' = [rejects EXCEPT ![proc[a].key] = @ + 1]
    /\ Replies(a, "OPERATION")
    /\ UNCHANGED <<approvals, executed, faults, runs>>

CommitReject(a) ==
    /\ At(a, "DECIDING")
    /\ status' = [status EXCEPT ![proc[a].key] = "CANCELLED"]
    /\ rejects' = [rejects EXCEPT ![proc[a].key] = @ + 1]
    /\ Replies(a, "OPERATION")
    /\ UNCHANGED <<approvals, executed, faults, runs>>

(* APPROVED is passed inside the transaction; the task starts after it.    *)
CommitApprove(a) ==
    /\ At(a, "DECIDING")
    /\ status' = [status EXCEPT ![proc[a].key] = "QUEUED"]
    /\ approvals' = [approvals EXCEPT ![proc[a].key] = @ + 1]
    /\ proc' = [proc EXCEPT ![a].at = "TASK", ![a].reply = "OPERATION"]
    /\ UNCHANGED <<rejects, executed, faults, runs>>

-----------------------------------------------------------------------------
(* execute_operation.                                                      *)

(* Mutation: an operation that has run is not run again.                   *)
LoadQueuedOnce(a) ==
    LET k == proc[a].key
    IN  /\ At(a, "TASK")
        /\ IF status[k] = "QUEUED" /\ executed[k] = 0 THEN Goes(a, "STARTING") ELSE Goes(a, "IDLE")
        /\ UNCHANGED <<status, approvals, rejects, executed, faults, runs>>

LoadQueued(a) ==
    /\ At(a, "TASK")
    /\ IF status[proc[a].key] = "QUEUED" THEN Goes(a, "STARTING") ELSE Goes(a, "IDLE")
    /\ UNCHANGED <<status, approvals, rejects, executed, faults, runs>>

CommitRunning(a) ==
    /\ At(a, "STARTING")
    /\ status' = [status EXCEPT ![proc[a].key] = "RUNNING"]
    /\ executed' = [executed EXCEPT ![proc[a].key] = @ + 1]
    /\ Goes(a, "RUNNING")
    /\ UNCHANGED <<approvals, rejects, faults, runs>>

Records(a, outcome) ==
    /\ At(a, "RUNNING")
    /\ status' = [status EXCEPT ![proc[a].key] = outcome]
    /\ Goes(a, "IDLE")
    /\ UNCHANGED <<approvals, rejects, executed, runs>>

(* The Worker plans the operation or rejects it.                           *)
DryRunEnds(a) ==
    \E outcome \in {"SUCCEEDED", "FAILED"} : Records(a, outcome) /\ UNCHANGED faults

(* It cannot be reached, or does not answer within 30 seconds.             *)
WorkerUnavailable(a) == Records(a, "FAILED") /\ Fault

-----------------------------------------------------------------------------
Dies(a) ==
    /\ ~At(a, "IDLE")
    /\ Fault
    /\ Goes(a, "IDLE")
    /\ UNCHANGED <<status, approvals, rejects, executed, runs>>

Advances(a) ==
    \/ Flush(a) \/ CommitDraft(a)
    \/ CommitSubmission(a) \/ CommitReject(a) \/ CommitApprove(a)
    \/ LoadQueued(a) \/ CommitRunning(a) \/ DryRunEnds(a)

Next ==
    \E a \in Actor :
        \/ \E k \in Key : LooksUp(a, k) \/ LoadDraft(a, k) \/ LoadPending(a, k)
        \/ Advances(a) \/ WorkerUnavailable(a) \/ Dies(a)

Spec == Init /\ [][Next]_vars

(* A request that is being served goes on.                                 *)
FairSpec == Spec /\ \A a \in Actor : WF_vars(Advances(a))

-----------------------------------------------------------------------------
(* Properties.                                                             *)

TypeOK ==
    /\ status \in [Key -> Status]
    /\ approvals \in [Key -> Nat] /\ rejects \in [Key -> Nat] /\ executed \in [Key -> Nat]
    /\ proc \in [Actor -> [at : Places, key : Key, reply : Answers]]
    /\ faults \in 0..MaxFaults /\ runs \in 0..MaxRuns

(* However two administrators write over each other, every task that went  *)
(* to the Worker has an approval of its own on record, and no operation    *)
(* beyond the lifecycle gate ever gets one (approve_operation, its         *)
(* background task).                                                       *)
EachRunHasItsApproval ==
    \A k \in Key : executed[k] <= approvals[k] /\ (k \in Gated => approvals[k] = 0)

(* The last status written has a decision behind it: what is CANCELLED was *)
(* rejected at least once, what is queued or has run was approved.         *)
DecisionsExplainStatus ==
    \A k \in Key :
        /\ status[k] = "CANCELLED" => rejects[k] > 0
        /\ status[k] \in {"QUEUED", "RUNNING", "SUCCEEDED", "FAILED"} => approvals[k] > 0

(* Without a crash nothing stays queued or running, not even an operation  *)
(* that was approved twice or rejected while it ran.                       *)
QueuedEnds ==
    \A k \in Key : status[k] \in {"QUEUED", "RUNNING"}
                      ~> (status[k] \notin {"QUEUED", "RUNNING"} \/ faults > 0)

-----------------------------------------------------------------------------
(* What the documentation says.                                            *)

(* ALLOWED_TRANSITIONS, with what it allows in several steps.              *)
After(s) ==
    CASE s = "NONE" -> Status
      [] s = "DRAFT" -> Status \ {"NONE", "DRAFT"}
      [] s = "PENDING_APPROVAL" -> {"QUEUED", "RUNNING"} \cup Final
      [] s = "QUEUED" -> {"RUNNING"} \cup Final
      [] s = "RUNNING" -> {"SUCCEEDED", "FAILED"}
      [] s \in Final -> {}

(* "the backend allows only the defined adjacent transitions"              *)
(* (portal/docs/operations-and-approvals.md).                              *)
OnlyDefinedTransitions ==
    [][\A k \in Key : status'[k] # status[k] => status'[k] \in After(status[k])]_vars

(* "the same requester and key get the existing operation" (the same       *)
(* document): no request is answered with an error of the server.          *)
RepeatReturnsTheOperation == \A a \in Actor : proc[a].reply # "ERROR"
=============================================================================
