----------------------- MODULE ComputeProvisionProofs -----------------------
(***************************************************************************)
(* What ComputeProvision promises for every set of accounts, requests and  *)
(* threads and for every value of its bounds: its type invariant, the      *)
(* chain of attempts, that no two attempts share an environment or a       *)
(* reservation, and, when no client leaves a Stage in the queue of the     *)
(* Root Worker, that what is recorded is what is on the host and that a    *)
(* rolled back attempt left nothing there.                                 *)
(***************************************************************************)
EXTENDS ComputeProvision, FiniteSetTheorems, TLAPS

(* The plan rows are numbered as they are made. *)
Numbered == \E n \in 0..MaxPlans : Used = 1..n

(* What the rows of one plan, the Worker and the host say of it. *)
PlanFits(p) ==
    /\ plan[p].state = "NONE" => hold[p] = "NONE" /\ stage[p] = "NONE"
    /\ plan[p].state # "NONE" => plan[p].request \in Request /\ plan[p].attempt # 0
    /\ stage[p] = "RUNNING" <=> plan[p].state = "PROVISIONING"
    /\ stage[p] = "SUCCEEDED" <=> plan[p].state = "STAGED"
    /\ stage[p] = "FAILED" => plan[p].state = "FAILED"
    /\ hold[p] = "CONSUMED" <=> plan[p].state = "STAGED"
    /\ plan[p].state = "EXPIRED" => hold[p] = "RELEASED"
    /\ stage[p] = "NONE" => worker[p] = "none" /\ host[p] = "ABSENT"

(* A request that nobody has approved. *)
Unapproved == {"NONE", "REQUESTED", "CANCELLED", "REJECTED"}

(* The current plan of a request is one of its own. *)
RequestFits(r) ==
    /\ req[r].plan # None => /\ req[r].plan \in Used
                             /\ plan[req[r].plan].request = r
    /\ req[r].status \in {"PROVISION_PLAN_READY", "PROVISIONING", "KEY_ENROLLMENT_PENDING"}
          => req[r].plan # None
    /\ req[r].status \in Unapproved => req[r].plan = None
    /\ parent[r].status = "RUNNING" => req[r].status \notin Unapproved

(* A thread works on an approved request; the one that waits for the Root   *)
(* Worker has a plan in PROVISIONING. *)
ThreadFits(k) ==
    /\ call[k].pc # "idle" => /\ call[k].request \in Request
                              /\ req[call[k].request].status \notin Unapproved
    /\ call[k].pc = "at_worker" => /\ call[k].plan \in Plan
                                   /\ plan[call[k].plan].state = "PROVISIONING"

(* No two threads wait for the Stage of one plan. *)
OneWaits ==
    \A j, k \in Caller :
        call[j].pc = "at_worker" /\ call[k].pc = "at_worker" /\ call[j].plan = call[k].plan
            => j = k

(* The Root Worker serves one request at a time. *)
OneServed == \A p, q \in Plan : worker[p] = "running" /\ worker[q] = "running" => p = q

IInv ==
    /\ TypeOK
    /\ Numbered
    /\ \A p \in Plan : PlanFits(p)
    /\ \A r \in Request : RequestFits(r)
    /\ \A k \in Caller : ThreadFits(k)
    /\ OneWaits
    /\ OneServed
    /\ AttemptChain
    /\ EnvironmentsDisjoint
    /\ HeldOnce

(* What holds besides as long as no client leaves a Stage in the queue. *)
(* Nothing of the attempt is on the host, and nothing of it can come. *)
Quiet(p) == host[p] = "ABSENT" /\ worker[p] \notin {"queued", "running"}

SettledPlan(p) ==
    /\ rollback[p] \in {None, "ROLLED_BACK", "REQUIRES_MANUAL_REVIEW"}
    /\ rollback[p] = None <=> stage[p] # "FAILED"
    /\ stage[p] = "FAILED" => worker[p] # "queued"
    /\ stage[p] = "SUCCEEDED" => worker[p] \notin {"queued", "running"}
    /\ worker[p] \in {"SUCCEEDED", "FAILED", "LOST"} => Awaited(p)
    /\ worker[p] = "SUCCEEDED" => host[p] = "STAGED"

(* Only the current attempt of a request has anything on the host. *)
OthersAreQuiet == \A p \in Used : p # req[plan[p].request].plan => Quiet(p)

(* An account has one request that is not closed. *)
NotClosed == Open \cup {"FAILED", "KEY_ENROLLMENT_PENDING"}
OneRequest ==
    \A r, s \in Request : /\ Owner[r] = Owner[s]
                          /\ req[r].status \in NotClosed /\ req[s].status \in NotClosed
                          => r = s

ManagedFits == \A a \in Account : managed[a] # None => /\ managed[a] \in Used
                                                       /\ AccountOf(managed[a]) = a

SInv ==
    /\ \A p \in Plan : SettledPlan(p)
    /\ OthersAreQuiet
    /\ OneRequest
    /\ ManagedFits
    /\ RolledBackIsClean
    /\ RecordedEnvironment

-----------------------------------------------------------------------------
(* Steps that make no plan *)

(* The plans stay whose they are and what was given up stays given up. *)
PlansKept ==
    \A p \in Plan :
        /\ plan'[p].request = plan[p].request
        /\ plan'[p].attempt = plan[p].attempt
        /\ plan'[p].prev = plan[p].prev
        /\ plan'[p].coord = plan[p].coord
        /\ plan'[p].state = "NONE" <=> plan[p].state = "NONE"
        /\ plan[p].state \in AttemptOver => plan'[p].state \in AttemptOver
        /\ hold[p] = "RELEASED" => hold'[p] = "RELEASED"
        /\ hold'[p] \in {"RESERVED", "FAILED_HOLD", "CONSUMED"}
              => hold[p] \in {"RESERVED", "FAILED_HOLD", "CONSUMED"}
CurrentKept == \A r \in Request : req'[r].plan = req[r].plan
HostKept == \A p \in Plan : host'[p] # "ABSENT" => host[p] # "ABSENT"
ApprovedKept ==
    \A r \in Request : req[r].status \notin Unapproved => req'[r].status \notin Unapproved

(* Such a step keeps the numbers, the chain and the reservations apart. *)
LEMMA PlansStay ==
    ASSUME IInv, PlansKept, CurrentKept
    PROVE  Used' = Used /\ Numbered' /\ AttemptChain' /\ HeldOnce'
<1>1. Used' = Used
    BY DEF PlansKept, Used
<1>2. Numbered'
    BY <1>1 DEF IInv, Numbered
<1>3. Used \subseteq Plan
    BY DEF Used
<1>4. AttemptChain'
    <2> SUFFICES ASSUME NEW p \in Used
                 PROVE  LET q == plan'[p].prev IN
                        /\ q = None <=> plan'[p].attempt = 1
                        /\ q # None => /\ plan'[q].request = plan'[p].request
                                       /\ plan'[p].attempt = plan'[q].attempt + 1
                                       /\ plan'[q].state \in AttemptOver /\ hold'[q] = "RELEASED"
                        /\ plan'[p].state \notin AttemptOver => req'[plan'[p].request].plan = p
        BY <1>1 DEF AttemptChain
    <2>1. p \in Plan /\ plan[p].state # "NONE"
        BY DEF Used
    <2>2. plan[p].prev \in Plan \cup {None} /\ plan[p].request \in Request
        BY <2>1 DEF IInv, TypeOK, PlanFits
    <2> QED
        BY <2>1, <2>2 DEF IInv, AttemptChain, PlansKept, CurrentKept
<1>5. HeldOnce'
    BY <1>1, <1>3 DEF IInv, HeldOnce, PlansKept, Claims, AccountOf
<1> QED
    BY <1>1, <1>2, <1>4, <1>5

(* What was apart on the host stays apart when nothing is added. *)
LEMMA HostStays ==
    ASSUME IInv, PlansKept, HostKept
    PROVE  EnvironmentsDisjoint'
<1>1. Used' = Used /\ Used \subseteq Plan
    BY DEF PlansKept, Used
<1> QED
    BY <1>1 DEF IInv, EnvironmentsDisjoint, PlansKept, HostKept, AccountOf

(* Threads that go on, stop, or keep waiting for a Stage that is pending. *)
ThreadsKept ==
    \A k \in Caller :
        \/ call'[k].pc = "idle"
        \/ /\ call[k].pc # "idle"
           /\ call'[k].request = call[k].request
           /\ call'[k].pc = "at_worker" =>
                 /\ call[k].pc = "at_worker" /\ call'[k].plan = call[k].plan
                 /\ plan'[call[k].plan].state = "PROVISIONING"

LEMMA ThreadsStay ==
    ASSUME IInv, ApprovedKept, ThreadsKept
    PROVE  (\A k \in Caller : ThreadFits(k)') /\ OneWaits'
<1>1. ASSUME NEW k \in Caller PROVE ThreadFits(k)'
    BY <1>1 DEF IInv, ThreadFits, ThreadsKept, ApprovedKept
<1>2. OneWaits'
    BY DEF IInv, OneWaits, ThreadsKept
<1> QED
    BY <1>1, <1>2

(* A fault stays within its bound. *)
LEMMA FaultCounted ==
    ASSUME TypeOK, Fault
    PROVE  spent' \in [crashes : 0..MaxCrashes, faults : 0..MaxFaults,
                       queued : 0..MaxQueuedTimeouts]
<1>1. MaxFaults \in Nat /\ spent.faults \in 0..MaxFaults /\ spent.faults + 1 \in 0..MaxFaults
    BY BoundAssumption DEF TypeOK, Fault
<1> QED
    BY <1>1 DEF TypeOK, Fault

CallRows == [Caller ->
    [pc : {"idle", "plan", "dry_run", "stage", "at_worker", "success", "fail"},
     request : Request \cup {None}, n : 0..MaxOrchestrations,
     plan : Plan \cup {None}, stale : BOOLEAN]]

(* A row that changes marks threads as stale and does no more to them. *)
LEMMA TouchKeeps ==
    ASSUME NEW calls \in CallRows, NEW k, NEW R
    PROVE  /\ Touch(calls, k, R) \in CallRows
           /\ \A j \in Caller : /\ Touch(calls, k, R)[j].pc = calls[j].pc
                                /\ Touch(calls, k, R)[j].request = calls[j].request
                                /\ Touch(calls, k, R)[j].n = calls[j].n
                                /\ Touch(calls, k, R)[j].plan = calls[j].plan
BY DEF Touch, CallRows

LEMMA IdleIsACall ==
    Idle \in [pc : {"idle", "plan", "dry_run", "stage", "at_worker", "success", "fail"},
              request : Request \cup {None}, n : 0..MaxOrchestrations,
              plan : Plan \cup {None}, stale : BOOLEAN]
BY BoundAssumption DEF Idle

LEMMA InitFits == Init => IInv
<1> SUFFICES ASSUME Init PROVE IInv
    OBVIOUS
<1>1. MaxPlans \in Nat /\ MaxOrchestrations \in Nat /\ MaxFaults \in Nat
      /\ MaxCrashes \in Nat /\ MaxQueuedTimeouts \in Nat /\ MaxLapses \in Nat
    BY BoundAssumption
<1>2. TypeOK
    BY <1>1, IdleIsACall DEF Init, TypeOK, RequestStatus, Open, PlanState, Unstarted,
                             RollbackStatus
<1>3. Used = {} /\ {} = 1..0
    BY DEF Init, Used
<1>4. Numbered
    BY <1>1, <1>3 DEF Numbered
<1>5. \A p \in Plan : PlanFits(p)
    BY DEF Init, PlanFits
<1>6. \A r \in Request : RequestFits(r)
    BY DEF Init, RequestFits, Unapproved
<1>7. (\A k \in Caller : ThreadFits(k)) /\ OneWaits
    BY DEF Init, ThreadFits, OneWaits, Idle
<1>8. OneServed
    BY DEF Init, OneServed
<1>9. AttemptChain /\ EnvironmentsDisjoint /\ HeldOnce
    BY <1>3 DEF AttemptChain, EnvironmentsDisjoint, HeldOnce
<1> QED
    BY <1>2, <1>4, <1>5, <1>6, <1>7, <1>8, <1>9 DEF IInv

(* What is left to show of a step that makes no plan. *)
LEMMA StepKeeps ==
    ASSUME IInv, TypeOK', PlansKept, CurrentKept, HostKept, ApprovedKept, ThreadsKept,
           \A p \in Plan : PlanFits(p)', \A r \in Request : RequestFits(r)', OneServed'
    PROVE  IInv'
BY PlansStay, HostStays, ThreadsStay DEF IInv

(* ... and of one that leaves the plans, the Root Worker and the host alone. *)
LEMMA RequestStepKeeps ==
    ASSUME IInv, TypeOK', UNCHANGED <<plan, hold, stage, worker, host>>,
           CurrentKept, ApprovedKept, ThreadsKept,
           \A r \in Request : RequestFits(r)'
    PROVE  IInv'
<1>1. PlansKept /\ HostKept
    BY DEF PlansKept, HostKept
<1>2. \A p \in Plan : PlanFits(p)'
    BY DEF IInv, PlanFits
<1>3. OneServed'
    BY DEF IInv, OneServed
<1> QED
    BY <1>1, <1>2, <1>3, StepKeeps

(* The current plan of a request is there as long as it is the same. *)
LEMMA CurrentIsThere ==
    ASSUME IInv, PlansKept, CurrentKept, NEW r \in Request
    PROVE  req'[r].plan # None => req'[r].plan \in Used' /\ plan'[req'[r].plan].request = r
<1>1. Used' = Used /\ Used \subseteq Plan
    BY DEF PlansKept, Used
<1> QED
    BY <1>1 DEF IInv, RequestFits, PlansKept, CurrentKept

-----------------------------------------------------------------------------
(* The user, the review, and what threads do without touching a plan *)

LEMMA UserKeeps ==
    ASSUME IInv, NEW r \in Request,
           Submit(r) \/ Cancel(r) \/ Reject(r) \/ ReviewApprove(r)
    PROVE  IInv'
<1>1. PICK s \in {"REQUESTED", "CANCELLED", "REJECTED", "APPROVED"} :
          /\ req[r].status \in {"NONE", "REQUESTED"}
          /\ req' = [req EXCEPT ![r].status = s]
    BY DEF Submit, Cancel, Reject, ReviewApprove, Review
<1>2. UNCHANGED <<plan, hold, stage, rollback, parent, orch, auth, managed, call,
                  worker, host, lapsed, spent>>
    BY DEF Submit, Cancel, Reject, ReviewApprove, Review
<1>3. TypeOK'
    BY <1>1, <1>2 DEF IInv, TypeOK, RequestStatus, Open
<1>4. req \in [Request -> [status : RequestStatus, plan : Plan \cup {None}]]
    BY DEF IInv, TypeOK
<1>5. CurrentKept
    BY <1>1, <1>4 DEF CurrentKept
<1>6. ApprovedKept
    BY <1>1, <1>4 DEF ApprovedKept, Unapproved
<1>7. ThreadsKept
    BY <1>2 DEF ThreadsKept, IInv, ThreadFits
<1>8. ASSUME NEW t \in Request PROVE RequestFits(t)'
    <2>1. RequestFits(t)
        BY DEF IInv
    <2>2. (req[t].plan # None)' => (req[t].plan \in Used /\ plan[req[t].plan].request = t)'
        BY <1>2, <1>5, <2>1 DEF RequestFits, CurrentKept, Used
    <2>3. req'[t].status = req[t].status \/ (t = r /\ req'[t].status = s)
        BY <1>1, <1>4
    <2> QED
        BY <1>1, <1>2, <1>5, <2>1, <2>2, <2>3 DEF RequestFits, CurrentKept, Unapproved
<1> QED
    BY <1>2, <1>3, <1>5, <1>6, <1>7, <1>8, RequestStepKeeps

(* Rows of a request that change no more than its status, from one approved *)
(* state to another that needs no plan. *)
LEMMA ReopenKeeps ==
    ASSUME IInv, NEW r \in Request, NEW s \in {"APPROVED", "RETRY_AUTHORIZED", "FAILED"},
           req' = [req EXCEPT ![r].status = s],
           UNCHANGED <<plan, hold, stage, worker, host>>, TypeOK', ThreadsKept,
           \A t \in Request : \/ parent'[t].status = "RUNNING" => parent[t].status = "RUNNING"
                              \/ t = r
    PROVE  IInv'
<1>1. req \in [Request -> [status : RequestStatus, plan : Plan \cup {None}]]
    BY DEF IInv, TypeOK
<1>2. CurrentKept
    BY <1>1 DEF CurrentKept
<1>3. ApprovedKept
    BY <1>1 DEF ApprovedKept, Unapproved
<1>4. ASSUME NEW t \in Request PROVE RequestFits(t)'
    <2>1. RequestFits(t)
        BY DEF IInv
    <2>2. (req[t].plan # None)' => (req[t].plan \in Used /\ plan[req[t].plan].request = t)'
        BY <1>2, <2>1 DEF RequestFits, CurrentKept, Used
    <2>3. (req'[t].status = req[t].status /\ t # r) \/ (t = r /\ req'[t].status = s)
        BY <1>1
    <2> QED
        BY <1>2, <2>1, <2>2, <2>3 DEF RequestFits, CurrentKept, Unapproved
<1> QED
    BY <1>2, <1>3, <1>4, RequestStepKeeps

LEMMA AuthorizeKeeps ==
    ASSUME IInv, NEW r \in Request, AuthorizeRetry(r)
    PROVE  IInv'
<1>0. TypeOK /\ call \in CallRows
    BY DEF IInv, TypeOK, CallRows
<1>1. call' \in CallRows /\ \A k \in Caller : /\ call'[k].pc = call[k].pc
                                             /\ call'[k].request = call[k].request
                                             /\ call'[k].plan = call[k].plan
    BY <1>0, TouchKeeps DEF AuthorizeRetry
<1>2. TypeOK'
    <2>1. req' \in [Request -> [status : RequestStatus, plan : Plan \cup {None}]]
        BY <1>0 DEF TypeOK, AuthorizeRetry, RequestStatus, Open
    <2>2. auth' \in [Request -> Plan \cup {None}]
        BY <1>0 DEF TypeOK, AuthorizeRetry
    <2> QED
        BY <1>0, <1>1, <2>1, <2>2 DEF AuthorizeRetry, TypeOK, CallRows
<1>3. ThreadsKept
    BY <1>1 DEF ThreadsKept, AuthorizeRetry, IInv, ThreadFits
<1> QED
    BY <1>2, <1>3, ReopenKeeps DEF AuthorizeRetry

LEMMA StartKeeps ==
    ASSUME IInv, NEW k \in Caller, NEW r \in Request,
           ApproveAndProvision(k, r) \/ RetryProvision(k, r)
    PROVE  IInv'
<1>0. TypeOK
    BY DEF IInv
<1>1. PICK s \in {"APPROVED", "RETRY_AUTHORIZED"},
           type \in {"compute.provision", "compute.provision.retry"} : Start(k, r, type, s)
    BY DEF ApproveAndProvision, RetryProvision
<1>2. req[r].status \in {"REQUESTED", "FAILED"}
    BY DEF ApproveAndProvision, RetryProvision
<1>3. parent[r].n + 1 \in 0..MaxOrchestrations
    <2>1. MaxOrchestrations \in Nat /\ parent[r].n \in 0..MaxOrchestrations
        BY <1>0, BoundAssumption DEF TypeOK
    <2> QED
        BY <1>1, <2>1 DEF Start
<1>4. TypeOK'
    <2>1. req' \in [Request -> [status : RequestStatus, plan : Plan \cup {None}]]
        BY <1>0, <1>1 DEF TypeOK, Start, RequestStatus, Open
    <2>2. parent' \in [Request -> [n : 0..MaxOrchestrations,
                               status : {"NONE", "RUNNING", "FAILED", "SUCCEEDED"},
                               type : {"NONE", "compute.provision", "compute.provision.retry"},
                               plan : Plan \cup {None}, dry : Plan \cup {None},
                               failed : Plan \cup {None}]]
        BY <1>0, <1>1, <1>3 DEF TypeOK, Start
    <2>3. (call \in CallRows)'
        BY <1>0, <1>1, <1>3 DEF TypeOK, Start, CallRows
    <2> QED
        BY <1>0, <1>1, <2>1, <2>2, <2>3 DEF TypeOK, Start, CallRows
<1>5. req \in [Request -> [status : RequestStatus, plan : Plan \cup {None}]]
      /\ parent' = [parent EXCEPT ![r] = parent'[r]]
      /\ call' = [call EXCEPT ![k] = call'[k]] /\ call'[k].request = r /\ call'[k].pc = "plan"
      /\ call \in [Caller -> [pc : {"idle", "plan", "dry_run", "stage", "at_worker",
                                    "success", "fail"},
                              request : Request \cup {None}, n : 0..MaxOrchestrations,
                              plan : Plan \cup {None}, stale : BOOLEAN]]
    BY <1>0, <1>1 DEF TypeOK, Start
<1>6. CurrentKept
    BY <1>1, <1>5 DEF CurrentKept, Start
<1>7. ApprovedKept
    BY <1>1, <1>5 DEF ApprovedKept, Unapproved, Start
<1>8. (\A j \in Caller : ThreadFits(j)') /\ OneWaits'
    <2>1. req'[r].status \notin Unapproved
        BY <1>1, <1>5 DEF Start, Unapproved
    <2>2. ASSUME NEW j \in Caller PROVE ThreadFits(j)'
        <3>1. CASE j = k
            BY <1>5, <2>1, <3>1 DEF ThreadFits
        <3>2. CASE j # k
            BY <1>1, <1>5, <1>7, <3>2 DEF ThreadFits, IInv, ApprovedKept, Start
        <3> QED
            BY <3>1, <3>2
    <2>3. OneWaits'
        BY <1>5 DEF IInv, OneWaits
    <2> QED
        BY <2>2, <2>3
<1>9. ASSUME NEW t \in Request PROVE RequestFits(t)'
    <2>1. RequestFits(t)
        BY DEF IInv
    <2>2. (req[t].plan # None)' => (req[t].plan \in Used /\ plan[req[t].plan].request = t)'
        BY <1>1, <1>6, <2>1 DEF RequestFits, CurrentKept, Used, Start
    <2>3. \/ req'[t].status = req[t].status /\ t # r /\ parent'[t] = parent[t]
          \/ t = r /\ req'[t].status = s
        BY <1>0, <1>1, <1>5 DEF Start, TypeOK
    <2> QED
        BY <1>6, <2>1, <2>2, <2>3 DEF RequestFits, CurrentKept, Unapproved
<1>10. UNCHANGED <<plan, hold, stage, worker, host>>
    BY <1>1 DEF Start
<1>11. PlansKept /\ HostKept
    BY <1>10 DEF PlansKept, HostKept
<1>12. \A p \in Plan : PlanFits(p)'
    BY <1>10 DEF IInv, PlanFits
<1>13. OneServed'
    BY <1>10 DEF IInv, OneServed
<1> QED
    BY <1>4, <1>6, <1>8, <1>9, <1>11, <1>12, <1>13, PlansStay, HostStays DEF IInv

(* A thread that is at none of the rows: only parent, call, lapsed and spent change. *)
LEMMA QuietStepKeeps ==
    ASSUME IInv, TypeOK', ThreadsKept,
           UNCHANGED <<req, plan, hold, stage, worker, host>>,
           \A t \in Request : parent'[t].status = "RUNNING" => parent[t].status = "RUNNING"
    PROVE  IInv'
<1>1. CurrentKept /\ ApprovedKept
    BY DEF CurrentKept, ApprovedKept
<1>2. \A t \in Request : RequestFits(t)'
    BY DEF IInv, RequestFits, Used
<1> QED
    BY <1>1, <1>2, RequestStepKeeps

LEMMA ReplayKeeps ==
    ASSUME IInv, NEW k \in Caller, NEW r \in Request, Replay(k, r)
    PROVE  IInv'
<1>0. TypeOK
    BY DEF IInv
<1>1. PICK c \in {"success", "fail", "plan"} :
          call' = [call EXCEPT ![k] = [pc |-> c, request |-> r, n |-> parent[r].n,
                                       plan |-> None, stale |-> FALSE]]
    BY DEF Replay
<1>2. TypeOK'
    <2>1. (call \in CallRows)'
        BY <1>0, <1>1 DEF TypeOK, CallRows
    <2> QED
        BY <1>0, <2>1 DEF TypeOK, Replay, CallRows, rows
<1>3. call \in CallRows
    BY <1>0 DEF TypeOK, CallRows
<1>4. UNCHANGED <<req, plan, hold, stage, parent, worker, host>>
    BY DEF Replay, rows
<1>5. (\A j \in Caller : ThreadFits(j)') /\ OneWaits'
    <2>1. ASSUME NEW j \in Caller PROVE ThreadFits(j)'
        <3>1. CASE j = k
            BY <1>1, <1>3, <1>4, <3>1 DEF ThreadFits, IInv, RequestFits, Replay, CallRows
        <3>2. CASE j # k
            BY <1>1, <1>3, <1>4, <3>2 DEF ThreadFits, IInv, CallRows
        <3> QED
            BY <3>1, <3>2
    <2>2. OneWaits'
        BY <1>1, <1>3 DEF IInv, OneWaits, CallRows
    <2> QED
        BY <2>1, <2>2
<1>6. PlansKept /\ CurrentKept /\ HostKept
    BY <1>4 DEF PlansKept, HostKept, CurrentKept
<1>7. \A t \in Request : RequestFits(t)'
    BY <1>4 DEF IInv, RequestFits, Used
<1>8. (\A p \in Plan : PlanFits(p)') /\ OneServed'
    BY <1>4 DEF IInv, PlanFits, OneServed
<1> QED
    BY <1>2, <1>5, <1>6, <1>7, <1>8, PlansStay, HostStays DEF IInv

LEMMA StepFailsKeeps ==
    ASSUME IInv, NEW k \in Caller, StepFails(k)
    PROVE  IInv'
<1>0. TypeOK /\ call \in CallRows
    BY DEF IInv, TypeOK, CallRows
<1>1. call' = [call EXCEPT ![k].pc = "fail"] /\ call[k].pc # "idle"
    BY DEF StepFails, Goto
<1>2. spent' \in [crashes : 0..MaxCrashes, faults : 0..MaxFaults,
                  queued : 0..MaxQueuedTimeouts]
    BY <1>0, FaultCounted DEF StepFails, TypeOK
<1>3. (call \in CallRows)'
    BY <1>0, <1>1 DEF CallRows
<1>4. TypeOK'
    BY <1>0, <1>2, <1>3 DEF TypeOK, StepFails, CallRows, rows
<1>5. ThreadsKept
    BY <1>0, <1>1 DEF ThreadsKept, StepFails, rows, IInv, ThreadFits, CallRows
<1> QED
    BY <1>4, <1>5, QuietStepKeeps DEF StepFails, rows

LEMMA SucceedsKeeps ==
    ASSUME IInv, NEW k \in Caller, OrchestrationSucceeds(k)
    PROVE  IInv'
<1>0. TypeOK /\ call \in CallRows
    BY DEF IInv, TypeOK, CallRows
<1>1. call' = [call EXCEPT ![k] = Idle]
    BY DEF OrchestrationSucceeds
<1>2. call' \in CallRows
    BY <1>0, <1>1, IdleIsACall DEF CallRows
<1>3. /\ parent' \in [Request -> [n : 0..MaxOrchestrations,
                               status : {"NONE", "RUNNING", "FAILED", "SUCCEEDED"},
                               type : {"NONE", "compute.provision", "compute.provision.retry"},
                               plan : Plan \cup {None}, dry : Plan \cup {None},
                               failed : Plan \cup {None}]]
      /\ \A t \in Request : parent'[t].status = "RUNNING" => parent[t].status = "RUNNING"
    <2>1. parent \in [Request -> [n : 0..MaxOrchestrations,
                               status : {"NONE", "RUNNING", "FAILED", "SUCCEEDED"},
                               type : {"NONE", "compute.provision", "compute.provision.retry"},
                               plan : Plan \cup {None}, dry : Plan \cup {None},
                               failed : Plan \cup {None}]]
        BY <1>0 DEF TypeOK
    <2>2. CASE parent' = parent
        BY <2>1, <2>2
    <2>3. CASE parent' = [parent EXCEPT ![call[k].request].status = "SUCCEEDED"]
        BY <2>1, <2>3
    <2> QED
        BY <2>2, <2>3 DEF OrchestrationSucceeds
<1>4. TypeOK'
    BY <1>0, <1>2, <1>3 DEF TypeOK, OrchestrationSucceeds, CallRows
<1>5. ThreadsKept
    BY <1>0, <1>1 DEF ThreadsKept, OrchestrationSucceeds, IInv, ThreadFits, CallRows, Idle
<1> QED
    BY <1>3, <1>4, <1>5, QuietStepKeeps DEF OrchestrationSucceeds

LEMMA LapseKeeps ==
    ASSUME IInv, NEW p \in Plan, Lapse(p)
    PROVE  IInv'
<1>1. TypeOK'
    BY DEF IInv, TypeOK, Lapse, rows
<1>2. ThreadsKept
    BY DEF ThreadsKept, Lapse, rows, IInv, ThreadFits
<1> QED
    BY <1>1, <1>2, QuietStepKeeps DEF Lapse, rows

-----------------------------------------------------------------------------
(* The dry run *)

(* What it does to a plan that has not begun. *)
Checked(r) ==
    /\ req[r].plan \in Used /\ plan[req[r].plan].state \in Unstarted
    /\ \/ plan' = [plan EXCEPT ![req[r].plan].state = "READY_FOR_PROVISION",
                               ![req[r].plan].evidence = TRUE]
       \/ plan' = [plan EXCEPT ![req[r].plan].evidence = FALSE]

LEMMA CheckKeeps ==
    ASSUME IInv, NEW r \in Request, Checked(r), ThreadsKept,
           UNCHANGED <<req, hold, stage, rollback, orch, auth, managed, worker, host, lapsed>>,
           (call \in CallRows)',
           spent' \in [crashes : 0..MaxCrashes, faults : 0..MaxFaults,
                       queued : 0..MaxQueuedTimeouts],
           parent' = parent \/ parent' = [parent EXCEPT ![r].dry = req[r].plan]
    PROVE  IInv'
<1>0. TypeOK
    BY DEF IInv
<1>1. PICK p \in Plan : p = req[r].plan
    BY DEF Checked, Used
<1>2. /\ plan[p].state \in Unstarted
      /\ \/ plan' = [plan EXCEPT ![p].state = "READY_FOR_PROVISION", ![p].evidence = TRUE]
         \/ plan' = [plan EXCEPT ![p].evidence = FALSE]
    BY <1>1 DEF Checked
<1>3. plan \in [Plan -> [state : PlanState, request : Request \cup {None},
                          attempt : Nat, prev : Plan \cup {None},
                          coord : Coord \cup {None}, evidence : BOOLEAN]]
    BY <1>0 DEF TypeOK
<1>4. \A q \in Plan : /\ plan'[q].request = plan[q].request
                      /\ plan'[q].attempt = plan[q].attempt
                      /\ plan'[q].prev = plan[q].prev
                      /\ plan'[q].coord = plan[q].coord
                      /\ \/ plan'[q].state = plan[q].state
                         \/ q = p /\ plan'[q].state = "READY_FOR_PROVISION"
    BY <1>2, <1>3
<1>5. plan' \in [Plan -> [state : PlanState, request : Request \cup {None},
                          attempt : Nat, prev : Plan \cup {None},
                          coord : Coord \cup {None}, evidence : BOOLEAN]]
    <2>1. p \in Plan /\ "READY_FOR_PROVISION" \in PlanState
        BY <1>1 DEF PlanState, Unstarted
    <2>2. CASE plan' = [plan EXCEPT ![p].state = "READY_FOR_PROVISION", ![p].evidence = TRUE]
        BY <1>3, <2>1, <2>2
    <2>3. CASE plan' = [plan EXCEPT ![p].evidence = FALSE]
        BY <1>3, <2>1, <2>3
    <2> QED
        BY <1>2, <2>2, <2>3
<1>6. /\ parent' \in [Request -> [n : 0..MaxOrchestrations,
                               status : {"NONE", "RUNNING", "FAILED", "SUCCEEDED"},
                               type : {"NONE", "compute.provision", "compute.provision.retry"},
                               plan : Plan \cup {None}, dry : Plan \cup {None},
                               failed : Plan \cup {None}]]
      /\ \A t \in Request : parent'[t].status = parent[t].status
    <2>1. parent \in [Request -> [n : 0..MaxOrchestrations,
                               status : {"NONE", "RUNNING", "FAILED", "SUCCEEDED"},
                               type : {"NONE", "compute.provision", "compute.provision.retry"},
                               plan : Plan \cup {None}, dry : Plan \cup {None},
                               failed : Plan \cup {None}]]
        BY <1>0 DEF TypeOK
    <2>2. CASE parent' = parent
        BY <2>1, <2>2
    <2>3. CASE parent' = [parent EXCEPT ![r].dry = p]
        BY <2>1, <2>3
    <2> QED
        BY <1>1, <2>2, <2>3
<1>7. TypeOK'
    BY <1>0, <1>5, <1>6 DEF TypeOK, CallRows
<1>8. PlansKept
    BY <1>2, <1>4 DEF PlansKept, Unstarted, AttemptOver
<1>9. CurrentKept /\ ApprovedKept /\ HostKept
    BY DEF CurrentKept, ApprovedKept, HostKept
<1>10. ASSUME NEW q \in Plan PROVE PlanFits(q)'
    BY <1>2, <1>4 DEF IInv, PlanFits, Unstarted
<1>11. ASSUME NEW t \in Request PROVE RequestFits(t)'
    BY <1>6, <1>8, <1>9, CurrentIsThere DEF IInv, RequestFits
<1>12. OneServed'
    BY DEF IInv, OneServed
<1> QED
    BY <1>7, <1>8, <1>9, <1>10, <1>11, <1>12, StepKeeps

(* A plan that still has its reservations and has not begun. *)
LEMMA ReservedIsCurrent ==
    ASSUME IInv, NEW r \in Request, Reserved(r) \/ Replayable(r)
    PROVE  req[r].plan \in Used /\ plan[req[r].plan].state \in Unstarted
BY DEF IInv, RequestFits, Reserved, Replayable, Unstarted

LEMMA DryRunKeeps ==
    ASSUME IInv, NEW r \in Request, DryRun(r)
    PROVE  IInv'
<1>0. TypeOK
    BY DEF IInv
<1>1. Reserved(r)
    BY DEF DryRun, DryRunPasses, DryRunConflict
<1>2. Checked(r)
    BY <1>1, ReservedIsCurrent DEF Checked, DryRun, Ready, DryRunConflict
<1>3. spent' = spent \/ Fault
    BY DEF DryRun, DryRunConflict
<1>4. spent' \in [crashes : 0..MaxCrashes, faults : 0..MaxFaults,
                  queued : 0..MaxQueuedTimeouts]
    BY <1>0, <1>3, FaultCounted DEF TypeOK
<1>5. call \in [Caller ->
            [pc : {"idle", "plan", "dry_run", "stage", "at_worker", "success", "fail"},
             request : Request \cup {None}, n : 0..MaxOrchestrations,
             plan : Plan \cup {None}, stale : BOOLEAN]]
    BY <1>0 DEF TypeOK
<1>6. call' = call
    BY DEF DryRun
<1>7. plan \in [Plan -> [state : PlanState, request : Request \cup {None},
                          attempt : Nat, prev : Plan \cup {None},
                          coord : Coord \cup {None}, evidence : BOOLEAN]]
    BY <1>0 DEF TypeOK
<1>8. \A q \in Plan : plan[q].state = "PROVISIONING" => plan'[q].state = "PROVISIONING"
    BY <1>2, <1>7 DEF Checked, Unstarted
<1>9. ThreadsKept
    BY <1>6, <1>8 DEF ThreadsKept, IInv, ThreadFits
<1>10. (call \in CallRows)'
    BY <1>5, <1>6 DEF CallRows
<1>11. UNCHANGED <<req, hold, stage, rollback, parent, orch, auth, managed, worker, host,
                   lapsed>>
    BY DEF DryRun
<1> QED
    BY <1>2, <1>4, <1>9, <1>10, <1>11, CheckKeeps

LEMMA OrchestratedDryRunKeeps ==
    ASSUME IInv, NEW k \in Caller, OrchestratedDryRun(k)
    PROVE  IInv'
<1>0. TypeOK /\ call \in CallRows
    BY DEF IInv, TypeOK, CallRows
<1>1. PICK r \in Request : r = call[k].request
    BY DEF OrchestratedDryRun, IInv, ThreadFits
<1>2. Reserved(r) \/ Replayable(r)
    BY <1>1 DEF OrchestratedDryRun, DryRunStep, DryRunPasses, DryRunConflict
<1>3. Checked(r)
    BY <1>1, <1>2, ReservedIsCurrent DEF Checked, OrchestratedDryRun, Ready, DryRunConflict
<1>4. spent' = spent \/ Fault
    BY DEF OrchestratedDryRun, DryRunConflict
<1>5. spent' \in [crashes : 0..MaxCrashes, faults : 0..MaxFaults,
                  queued : 0..MaxQueuedTimeouts]
    BY <1>0, <1>4, FaultCounted DEF TypeOK
<1>6. PICK c \in {"stage", "fail"} : call' = [call EXCEPT ![k].pc = c]
    BY DEF OrchestratedDryRun, Goto
<1>7. plan \in [Plan -> [state : PlanState, request : Request \cup {None},
                          attempt : Nat, prev : Plan \cup {None},
                          coord : Coord \cup {None}, evidence : BOOLEAN]]
    BY <1>0 DEF TypeOK
<1>8. \A q \in Plan : plan[q].state = "PROVISIONING" => plan'[q].state = "PROVISIONING"
    BY <1>3, <1>7 DEF Checked, Unstarted
<1>9. ThreadsKept
    <2>1. call[k].pc # "idle"
        BY DEF OrchestratedDryRun
    <2>2. ASSUME NEW j \in Caller
          PROVE  \/ call'[j].pc = "idle"
                 \/ /\ call[j].pc # "idle"
                    /\ call'[j].request = call[j].request
                    /\ call'[j].pc = "at_worker" =>
                          call[j].pc = "at_worker" /\ call'[j].plan = call[j].plan
        BY <1>0, <1>6, <2>1 DEF CallRows
    <2> QED
        BY <1>8, <2>2 DEF ThreadsKept, IInv, ThreadFits
<1>10. (call \in CallRows)'
    BY <1>0, <1>6 DEF CallRows
<1>11. parent' = parent \/ parent' = [parent EXCEPT ![r].dry = req[r].plan]
    BY <1>1 DEF OrchestratedDryRun
<1>12. UNCHANGED <<req, hold, stage, rollback, orch, auth, managed, worker, host, lapsed>>
    BY DEF OrchestratedDryRun
<1> QED
    BY <1>3, <1>5, <1>9, <1>10, <1>11, <1>12, CheckKeeps

-----------------------------------------------------------------------------
(* The Stage *)

LEMMA BeginStageKeeps ==
    ASSUME IInv, NEW k \in Caller, NEW r \in Request, NEW n \in 0..MaxOrchestrations,
           BeginStage(k, r, n)
    PROVE  IInv'
<1>0. TypeOK /\ call \in CallRows
    BY DEF IInv, TypeOK, CallRows
<1>1. PICK p \in Plan : p = req[r].plan
    BY ReservedIsCurrent DEF BeginStage, Stageable, Used
<1>2. /\ req' = [req EXCEPT ![r].status = "PROVISIONING"]
      /\ plan' = [plan EXCEPT ![p].state = "PROVISIONING"]
      /\ stage' = [stage EXCEPT ![p] = "RUNNING"]
      /\ worker' = [worker EXCEPT ![p] = "queued"]
    BY <1>1 DEF BeginStage
<1>3. UNCHANGED <<hold, rollback, parent, orch, auth, managed, host, lapsed, spent>>
    BY DEF BeginStage
<1>4. plan[p].state = "READY_FOR_PROVISION" /\ p \in Used
      /\ req[r].status = "PROVISION_PLAN_READY"
    BY <1>1, ReservedIsCurrent DEF BeginStage, Stageable, Reserved
<1>5. /\ call' \in CallRows
      /\ \A j \in Caller : IF j = k THEN /\ call'[j].pc = "at_worker" /\ call'[j].request = r
                                         /\ call'[j].plan = p
                           ELSE /\ call'[j].pc = call[j].pc /\ call'[j].plan = call[j].plan
                                /\ call'[j].request = call[j].request
    <2> DEFINE next == [pc |-> "at_worker", request |-> r, n |-> n, plan |-> p, stale |-> FALSE]
               calls == [call EXCEPT ![k] = next]
    <2>1. calls \in CallRows
        BY <1>0, <1>1 DEF CallRows
    <2>2. call' = Touch(calls, k, {r})
        BY <1>1 DEF BeginStage
    <2>3. \A j \in Caller : calls[j] = IF j = k THEN next ELSE call[j]
        BY <1>0 DEF CallRows
    <2> HIDE DEF calls
    <2> QED
        BY <2>1, <2>2, <2>3, TouchKeeps
<1>6. req \in [Request -> [status : RequestStatus, plan : Plan \cup {None}]]
      /\ plan \in [Plan -> [state : PlanState, request : Request \cup {None},
                          attempt : Nat, prev : Plan \cup {None},
                          coord : Coord \cup {None}, evidence : BOOLEAN]]
      /\ stage \in [Plan -> {"NONE", "RUNNING", "FAILED", "SUCCEEDED"}]
      /\ worker \in [Plan -> {"none", "queued", "running", "SUCCEEDED", "FAILED", "LOST"}]
    BY <1>0 DEF TypeOK
<1>7. TypeOK'
    <2>1. req' \in [Request -> [status : RequestStatus, plan : Plan \cup {None}]]
        BY <1>2, <1>6 DEF RequestStatus, Open
    <2>2. plan' \in [Plan -> [state : PlanState, request : Request \cup {None},
                          attempt : Nat, prev : Plan \cup {None},
                          coord : Coord \cup {None}, evidence : BOOLEAN]]
        <3>1. "PROVISIONING" \in PlanState
            BY DEF PlanState
        <3> QED
            BY <1>2, <1>6, <3>1
    <2>3. /\ stage' \in [Plan -> {"NONE", "RUNNING", "FAILED", "SUCCEEDED"}]
          /\ worker' \in [Plan -> {"none", "queued", "running", "SUCCEEDED", "FAILED", "LOST"}]
        BY <1>2, <1>6
    <2> QED
        BY <1>0, <1>3, <1>5, <2>1, <2>2, <2>3 DEF TypeOK, CallRows
<1>8. PlansKept /\ CurrentKept /\ HostKept
    BY <1>2, <1>3, <1>4, <1>6 DEF PlansKept, CurrentKept, HostKept, AttemptOver
<1>9. ApprovedKept
    BY <1>2, <1>6 DEF ApprovedKept, Unapproved
<1>10. stage[p] = "NONE"
    BY <1>4, <1>6 DEF IInv, PlanFits
<1>11. ASSUME NEW q \in Plan PROVE PlanFits(q)'
    <2>1. CASE q = p
        BY <1>2, <1>3, <1>4, <1>6, <2>1 DEF IInv, PlanFits
    <2>2. CASE q # p
        BY <1>2, <1>3, <1>6, <2>2 DEF IInv, PlanFits
    <2> QED
        BY <2>1, <2>2
<1>12. ASSUME NEW t \in Request PROVE RequestFits(t)'
    <2>1. RequestFits(t)
        BY DEF IInv
    <2>2. (req[t].plan # None)' => (req[t].plan \in Used /\ plan[req[t].plan].request = t)'
        BY <1>8, CurrentIsThere
    <2>3. req'[t].status = req[t].status \/ (t = r /\ req'[t].status = "PROVISIONING")
        BY <1>2, <1>6
    <2>4. req'[t].plan = req[t].plan /\ (t = r => req[t].plan # None)
        BY <1>4, <1>8 DEF CurrentKept, IInv, RequestFits
    <2> QED
        BY <1>3, <2>1, <2>2, <2>3, <2>4 DEF RequestFits, Unapproved
<1>13. \A j \in Caller : call[j].pc = "at_worker" => call[j].plan # p
    BY <1>4 DEF IInv, ThreadFits
<1>14. ASSUME NEW j \in Caller PROVE ThreadFits(j)'
    <2>1. CASE j = k
        BY <1>2, <1>5, <1>6, <2>1 DEF ThreadFits, Unapproved
    <2>2. CASE j # k
        BY <1>2, <1>5, <1>6, <1>9, <2>2 DEF IInv, ThreadFits, ApprovedKept
    <2> QED
        BY <2>1, <2>2
<1>15. OneWaits'
    BY <1>5, <1>13 DEF IInv, OneWaits
<1>16. OneServed'
    BY <1>2, <1>6 DEF IInv, OneServed
<1> QED
    BY <1>7, <1>8, <1>11, <1>12, <1>14, <1>15, <1>16, PlansStay, HostStays DEF IInv

LEMMA ProvisionKeeps ==
    ASSUME IInv, NEW k \in Caller, NEW r \in Request, Provision(k, r)
    PROVE  IInv'
<1>1. 0 \in 0..MaxOrchestrations
    BY BoundAssumption
<1> QED
    BY <1>1, BeginStageKeeps DEF Provision

LEMMA OrchestratedStageKeeps ==
    ASSUME IInv, NEW k \in Caller, OrchestratedStage(k)
    PROVE  IInv'
<1>1. call[k].request \in Request /\ call[k].n \in 0..MaxOrchestrations
    BY DEF OrchestratedStage, IInv, ThreadFits, TypeOK
<1> QED
    BY <1>1, BeginStageKeeps DEF OrchestratedStage

(* A thread that waited for the Stage of p goes on. *)
LEMMA StageEndKeeps ==
    ASSUME IInv, NEW k \in Caller, NEW p \in Plan,
           call[k].pc = "at_worker", p = call[k].plan,
           \/ \E clean \in BOOLEAN : FailStage(p, clean)
           \/ Consume(p) /\ hold[p] = "RESERVED"
           \/ UNCHANGED <<req, plan, hold, stage, rollback, managed>>,
           NEW w \in {"none", "queued", "running"}, worker' = [worker EXCEPT ![p] = w],
           w = "running" => worker[p] = "running",
           NEW c \in {"success", "fail"}, call' = After(k, c),
           UNCHANGED <<parent, orch, auth, host, lapsed>>,
           spent' \in [crashes : 0..MaxCrashes, faults : 0..MaxFaults,
                       queued : 0..MaxQueuedTimeouts]
    PROVE  IInv'
<1>0. TypeOK /\ call \in CallRows
    BY DEF IInv, TypeOK, CallRows
<1>1. plan[p].state = "PROVISIONING" /\ stage[p] = "RUNNING"
    BY DEF IInv, ThreadFits, PlanFits
<1>2. PICK r \in Request : r = plan[p].request
    BY <1>1 DEF IInv, PlanFits
<1>3. req[r].plan = p
    BY <1>1, <1>2 DEF IInv, AttemptChain, Used, AttemptOver
<1>4. req \in [Request -> [status : RequestStatus, plan : Plan \cup {None}]]
      /\ plan \in [Plan -> [state : PlanState, request : Request \cup {None},
                          attempt : Nat, prev : Plan \cup {None},
                          coord : Coord \cup {None}, evidence : BOOLEAN]]
      /\ stage \in [Plan -> {"NONE", "RUNNING", "FAILED", "SUCCEEDED"}]
      /\ hold \in [Plan -> {"NONE", "RESERVED", "RELEASED", "FAILED_HOLD", "CONSUMED"}]
      /\ rollback \in [Plan -> RollbackStatus]
      /\ managed \in [Account -> Plan \cup {None}]
      /\ worker \in [Plan -> {"none", "queued", "running", "SUCCEEDED", "FAILED", "LOST"}]
    BY <1>0 DEF TypeOK
<1>5. AccountOf(p) \in Account
    BY <1>2, IdAssumption DEF AccountOf
<1>6. /\ req' \in [Request -> [status : RequestStatus, plan : Plan \cup {None}]]
      /\ \A t \in Request :
            /\ req'[t].plan = req[t].plan
            /\ \/ req'[t].status = req[t].status
               \/ t = r /\ req'[t].status \in {"FAILED", "KEY_ENROLLMENT_PENDING"}
    <2>1. req' = req \/ \E s \in {"FAILED", "KEY_ENROLLMENT_PENDING"} :
                            req' = [req EXCEPT ![r].status = s]
        BY <1>2 DEF FailStage, Consume
    <2>2. {"FAILED", "KEY_ENROLLMENT_PENDING"} \subseteq RequestStatus
        BY DEF RequestStatus
    <2>3. CASE req' = req
        BY <1>4, <2>3
    <2>4. ASSUME NEW s \in {"FAILED", "KEY_ENROLLMENT_PENDING"}, req' = [req EXCEPT ![r].status = s]
          PROVE  /\ req' \in [Request -> [status : RequestStatus, plan : Plan \cup {None}]]
                 /\ \A t \in Request : /\ req'[t].plan = req[t].plan
                                       /\ \/ req'[t].status = req[t].status
                                          \/ t = r /\ req'[t].status = s
        <3>1. s \in RequestStatus
            BY <2>2
        <3>2. req' \in [Request -> [status : RequestStatus, plan : Plan \cup {None}]]
            BY <1>4, <2>4, <3>1
        <3>3. \A t \in Request : /\ req'[t].plan = req[t].plan
                                 /\ req'[t].status = IF t = r THEN s ELSE req[t].status
            BY <1>4, <2>4
        <3> QED
            BY <3>2, <3>3
    <2> QED
        BY <2>1, <2>3, <2>4
<1>7. \/ plan' = [plan EXCEPT ![p].state = "FAILED"] /\ stage' = [stage EXCEPT ![p] = "FAILED"]
         /\ managed' = managed
         /\ \E h \in {"RELEASED", "FAILED_HOLD", hold[p]} :
               /\ hold' = [hold EXCEPT ![p] = h]
               /\ h = "FAILED_HOLD" => hold[p] \in {"RESERVED", "FAILED_HOLD"}
               /\ hold[p] = "RELEASED" => h = "RELEASED"
         /\ \E b \in {"ROLLED_BACK", "REQUIRES_MANUAL_REVIEW"} :
               rollback' = [rollback EXCEPT ![p] = b]
      \/ plan' = [plan EXCEPT ![p].state = "STAGED"]
         /\ stage' = [stage EXCEPT ![p] = "SUCCEEDED"]
         /\ hold' = [hold EXCEPT ![p] = "CONSUMED"] /\ hold[p] = "RESERVED"
         /\ managed' = [managed EXCEPT ![AccountOf(p)] = p] /\ rollback' = rollback
      \/ UNCHANGED <<plan, hold, stage, rollback, managed>>
    <2>1. CASE \E clean \in BOOLEAN : FailStage(p, clean)
        <3>1. PICK clean \in BOOLEAN : FailStage(p, clean)
            BY <2>1
        <3>2. CASE clean
            BY <3>1, <3>2 DEF FailStage
        <3>3. CASE ~clean
            BY <1>4, <3>1, <3>3 DEF FailStage
        <3> QED
            BY <3>2, <3>3
    <2>2. CASE Consume(p) /\ hold[p] = "RESERVED"
        BY <2>2 DEF Consume
    <2> QED
        BY <2>1, <2>2
<1>8. /\ plan' \in [Plan -> [state : PlanState, request : Request \cup {None},
                          attempt : Nat, prev : Plan \cup {None},
                          coord : Coord \cup {None}, evidence : BOOLEAN]]
      /\ \A q \in Plan : /\ plan'[q].request = plan[q].request
                         /\ plan'[q].attempt = plan[q].attempt
                         /\ plan'[q].prev = plan[q].prev
                         /\ plan'[q].coord = plan[q].coord
    <2>1. {"FAILED", "STAGED"} \subseteq PlanState
        BY DEF PlanState
    <2>2. plan' = plan \/ \E s \in {"FAILED", "STAGED"} : plan' = [plan EXCEPT ![p].state = s]
        BY <1>7
    <2>3. ASSUME NEW s \in {"FAILED", "STAGED"}, plan' = [plan EXCEPT ![p].state = s]
          PROVE  /\ plan' \in [Plan -> [state : PlanState, request : Request \cup {None},
                          attempt : Nat, prev : Plan \cup {None},
                          coord : Coord \cup {None}, evidence : BOOLEAN]]
                 /\ \A q \in Plan : /\ plan'[q].request = plan[q].request
                                    /\ plan'[q].attempt = plan[q].attempt
                                    /\ plan'[q].prev = plan[q].prev
                                    /\ plan'[q].coord = plan[q].coord
        <3>1. s \in PlanState
            BY <2>1
        <3> QED
            BY <1>4, <2>3, <3>1
    <2>4. CASE plan' = plan
        BY <1>4, <2>4
    <2> QED
        BY <2>2, <2>3, <2>4
<1>9. \A q \in Plan :
          \/ plan'[q].state = plan[q].state /\ hold'[q] = hold[q] /\ stage'[q] = stage[q]
          \/ /\ q = p /\ plan'[q].state = "FAILED" /\ stage'[q] = "FAILED"
             /\ hold'[q] \in {"RELEASED", "FAILED_HOLD", hold[q]}
             /\ hold'[q] = "FAILED_HOLD" => hold[q] \in {"RESERVED", "FAILED_HOLD"}
             /\ hold[q] = "RELEASED" => hold'[q] = "RELEASED"
          \/ /\ q = p /\ plan'[q].state = "STAGED" /\ stage'[q] = "SUCCEEDED"
             /\ hold'[q] = "CONSUMED" /\ hold[q] = "RESERVED"
    BY <1>4, <1>7
<1>10. /\ stage' \in [Plan -> {"NONE", "RUNNING", "FAILED", "SUCCEEDED"}]
       /\ hold' \in [Plan -> {"NONE", "RESERVED", "RELEASED", "FAILED_HOLD", "CONSUMED"}]
       /\ rollback' \in [Plan -> RollbackStatus]
       /\ managed' \in [Account -> Plan \cup {None}]
       /\ worker' \in [Plan -> {"none", "queued", "running", "SUCCEEDED", "FAILED", "LOST"}]
    <2>1. {"ROLLED_BACK", "REQUIRES_MANUAL_REVIEW"} \subseteq RollbackStatus
        BY DEF RollbackStatus
    <2>2. rollback' \in [Plan -> RollbackStatus]
        <3>1. rollback' = rollback
              \/ \E b \in RollbackStatus : rollback' = [rollback EXCEPT ![p] = b]
            BY <1>7, <2>1
        <3> QED
            BY <1>4, <3>1
    <2>3. /\ stage' \in [Plan -> {"NONE", "RUNNING", "FAILED", "SUCCEEDED"}]
          /\ hold' \in [Plan -> {"NONE", "RESERVED", "RELEASED", "FAILED_HOLD", "CONSUMED"}]
        <3>1. stage' = stage \/ stage' = [stage EXCEPT ![p] = "FAILED"]
              \/ stage' = [stage EXCEPT ![p] = "SUCCEEDED"]
            BY <1>7
        <3>2. hold' = hold
              \/ \E h \in {"RELEASED", "FAILED_HOLD", "CONSUMED", hold[p]} :
                     hold' = [hold EXCEPT ![p] = h]
            BY <1>7
        <3>3. hold' \in [Plan -> {"NONE", "RESERVED", "RELEASED", "FAILED_HOLD", "CONSUMED"}]
            BY <1>4, <3>2
        <3> QED
            BY <1>4, <3>1, <3>3
    <2>4. managed' \in [Account -> Plan \cup {None}]
        BY <1>4, <1>5, <1>7
    <2>5. worker' \in [Plan -> {"none", "queued", "running", "SUCCEEDED", "FAILED", "LOST"}]
        BY <1>4
    <2> QED
        BY <2>2, <2>3, <2>4, <2>5
<1>11. call' \in CallRows /\ call' = [call EXCEPT ![k] = call'[k]]
       /\ call'[k].pc # "at_worker"
       /\ (call'[k].pc # "idle" => call'[k].request = call[k].request)
    BY <1>0, IdleIsACall DEF After, CallRows, Idle
<1>12. TypeOK'
    BY <1>0, <1>6, <1>8, <1>10, <1>11 DEF TypeOK, CallRows
<1>13. PlansKept /\ CurrentKept /\ HostKept
    <2>1. PlansKept
        BY <1>1, <1>8, <1>9 DEF PlansKept, AttemptOver
    <2> QED
        BY <1>6, <2>1 DEF CurrentKept, HostKept
<1>14. ApprovedKept
    BY <1>6 DEF ApprovedKept, Unapproved
<1>15. ThreadsKept
    <2>1. ASSUME NEW j \in Caller, j # k, call[j].pc = "at_worker"
          PROVE  plan'[call[j].plan].state = "PROVISIONING"
        <3>1. call[j].plan # p /\ call[j].plan \in Plan
              /\ plan[call[j].plan].state = "PROVISIONING"
            BY <2>1 DEF IInv, OneWaits, ThreadFits
        <3> QED
            BY <1>9, <3>1
    <2> QED
        BY <1>0, <1>11, <2>1 DEF ThreadsKept, CallRows
<1>16. ASSUME NEW q \in Plan PROVE PlanFits(q)'
    <2>1. PlanFits(q)
        BY DEF IInv
    <2>2. host'[q] = host[q] /\ (q # p => worker'[q] = worker[q])
        BY <1>4
    <2>3. CASE q = p
        BY <1>1, <1>8, <1>9, <2>1, <2>2, <2>3 DEF PlanFits
    <2>4. CASE q # p
        BY <1>8, <1>9, <2>1, <2>2, <2>4 DEF PlanFits
    <2> QED
        BY <2>3, <2>4
<1>17. ASSUME NEW t \in Request PROVE RequestFits(t)'
    <2>1. RequestFits(t)
        BY DEF IInv
    <2>2. (req[t].plan # None)' => (req[t].plan \in Used /\ plan[req[t].plan].request = t)'
        BY <1>13, CurrentIsThere
    <2>3. p # None
        BY IdAssumption DEF Plan
    <2> QED
        BY <1>3, <1>6, <2>1, <2>2, <2>3 DEF RequestFits, Unapproved
<1>18. OneServed'
    BY <1>4 DEF IInv, OneServed
<1> QED
    BY <1>12, <1>13, <1>14, <1>15, <1>16, <1>17, <1>18, StepKeeps

LEMMA StageAnswerKeeps ==
    ASSUME IInv, NEW k \in Caller, StageAnswer(k)
    PROVE  IInv'
<1>0. TypeOK
    BY DEF IInv
<1>1. PICK p \in Plan : p = call[k].plan
    BY DEF StageAnswer, IInv, ThreadFits
<1>2. /\ call[k].pc = "at_worker" /\ worker' = [worker EXCEPT ![p] = "none"]
      /\ UNCHANGED <<parent, orch, auth, host, lapsed>>
    BY <1>1 DEF StageAnswer
<1>3. PICK c \in {"success", "fail"} : call' = After(k, c)
    BY DEF StageAnswer
<1>4. spent' = spent \/ Fault
    BY DEF StageAnswer, VerifyAnswer
<1>5. spent' \in [crashes : 0..MaxCrashes, faults : 0..MaxFaults,
                  queued : 0..MaxQueuedTimeouts]
    BY <1>0, <1>4, FaultCounted DEF TypeOK
<1>6. \/ \E clean \in BOOLEAN : FailStage(p, clean)
      \/ Consume(p) /\ hold[p] = "RESERVED"
      \/ UNCHANGED <<req, plan, hold, stage, rollback, managed>>
    BY <1>1 DEF StageAnswer
<1> QED
    BY <1>1, <1>2, <1>3, <1>5, <1>6, StageEndKeeps

LEMMA StageUnansweredKeeps ==
    ASSUME IInv, NEW k \in Caller, StageUnanswered(k)
    PROVE  IInv'
<1>0. TypeOK
    BY DEF IInv
<1>1. PICK p \in Plan : p = call[k].plan
    BY DEF StageUnanswered, IInv, ThreadFits
<1>2. /\ call[k].pc = "at_worker" /\ call' = After(k, "fail")
      /\ UNCHANGED <<parent, orch, auth, host, lapsed>>
    BY DEF StageUnanswered
<1>3. PICK w \in {"none", "queued", "running"} :
          /\ worker' = [worker EXCEPT ![p] = w]
          /\ w = "running" => worker[p] = "running"
    <2>1. worker \in [Plan -> {"none", "queued", "running", "SUCCEEDED", "FAILED", "LOST"}]
        BY <1>0 DEF TypeOK
    <2> QED
        BY <1>1, <2>1 DEF StageUnanswered
<1>4. \/ spent' = spent
      \/ Fault
      \/ spent.queued < MaxQueuedTimeouts /\ spent' = [spent EXCEPT !.queued = @ + 1]
    <2>1. PICK clean \in BOOLEAN :
              CASE worker[p] = "LOST" -> VerifyAnswer(p, clean)
                [] worker[p] = "queued" -> /\ spent.queued < MaxQueuedTimeouts
                                           /\ spent' = [spent EXCEPT !.queued = @ + 1]
                                           /\ clean => ZeroResidue(p)
                [] OTHER -> Fault /\ (clean => ZeroResidue(p))
        BY <1>1 DEF StageUnanswered
    <2>2. CASE worker[p] = "LOST"
        BY <2>1, <2>2 DEF VerifyAnswer
    <2>3. CASE worker[p] = "queued"
        BY <2>1, <2>3
    <2>4. CASE worker[p] # "LOST" /\ worker[p] # "queued"
        BY <2>1, <2>4
    <2> QED
        BY <2>2, <2>3, <2>4
<1>5. spent' \in [crashes : 0..MaxCrashes, faults : 0..MaxFaults,
                  queued : 0..MaxQueuedTimeouts]
    <2>1. MaxQueuedTimeouts \in Nat /\ spent.queued \in 0..MaxQueuedTimeouts
        BY <1>0, BoundAssumption DEF TypeOK
    <2>2. CASE spent.queued < MaxQueuedTimeouts /\ spent' = [spent EXCEPT !.queued = @ + 1]
        <3>1. spent.queued + 1 \in 0..MaxQueuedTimeouts
            BY <2>1, <2>2
        <3> QED
            BY <1>0, <2>2, <3>1 DEF TypeOK
    <2> QED
        BY <1>0, <1>4, <2>2, FaultCounted DEF TypeOK
<1>6. \E clean \in BOOLEAN : FailStage(p, clean)
    BY <1>1 DEF StageUnanswered
<1> QED
    BY <1>1, <1>2, <1>3, <1>5, <1>6, StageEndKeeps

-----------------------------------------------------------------------------
(* The Root Worker and the host *)

(* A step of the Root Worker that takes nothing into service changes no row. *)
LEMMA WorkerStepKeeps ==
    ASSUME IInv, UNCHANGED <<rows, lapsed>>, ThreadsKept, (call \in CallRows)',
           spent' \in [crashes : 0..MaxCrashes, faults : 0..MaxFaults,
                       queued : 0..MaxQueuedTimeouts],
           worker' \in [Plan -> {"none", "queued", "running", "SUCCEEDED", "FAILED", "LOST"}],
           host' \in [Plan -> {"ABSENT", "PARTIAL", "STAGED"}],
           \A p \in Plan : worker[p] = "none" => worker'[p] = "none"
                           /\ (host'[p] # "ABSENT" => host[p] # "ABSENT"
                                                      \/ worker[p] = "running"),
           OneServed', EnvironmentsDisjoint'
    PROVE  IInv'
<1>0. TypeOK
    BY DEF IInv
<1>1. TypeOK'
    BY <1>0 DEF TypeOK, rows, CallRows
<1>2. PlansKept /\ CurrentKept /\ ApprovedKept
    BY DEF PlansKept, CurrentKept, ApprovedKept, rows
<1>3. ASSUME NEW p \in Plan PROVE PlanFits(p)'
    <2>1. PlanFits(p)
        BY DEF IInv
    <2>2. host'[p] \in {"ABSENT", "PARTIAL", "STAGED"}
        OBVIOUS
    <2> QED
        BY <2>1, <2>2 DEF PlanFits, rows
<1>4. \A r \in Request : RequestFits(r)'
    BY DEF IInv, RequestFits, Used, rows
<1> QED
    BY <1>1, <1>2, <1>3, <1>4, PlansStay, ThreadsStay DEF IInv

LEMMA WorkerTakeKeeps ==
    ASSUME IInv, NEW p \in Plan, WorkerTake(p)
    PROVE  IInv'
<1>0. TypeOK
    BY DEF IInv
<1>1. /\ worker \in [Plan -> {"none", "queued", "running", "SUCCEEDED", "FAILED", "LOST"}]
      /\ host \in [Plan -> {"ABSENT", "PARTIAL", "STAGED"}]
      /\ spent \in [crashes : 0..MaxCrashes, faults : 0..MaxFaults,
                       queued : 0..MaxQueuedTimeouts]
      /\ call \in CallRows
    BY <1>0 DEF TypeOK, CallRows
<1>2. worker' \in [Plan -> {"none", "queued", "running", "SUCCEEDED", "FAILED", "LOST"}]
      /\ OneServed' /\ \A q \in Plan : worker[q] = "none" => worker'[q] = "none"
    BY <1>1 DEF WorkerTake, LockFree, OneServed
<1>3. ThreadsKept
    BY DEF ThreadsKept, WorkerTake, rows, IInv, ThreadFits
<1>4. EnvironmentsDisjoint'
    BY DEF IInv, EnvironmentsDisjoint, Used, AccountOf, WorkerTake, rows
<1> QED
    BY <1>1, <1>2, <1>3, <1>4, WorkerStepKeeps DEF WorkerTake

LEMMA CleanHostKeeps ==
    ASSUME IInv, NEW p \in Plan, CleanHost(p)
    PROVE  IInv'
<1>0. TypeOK
    BY DEF IInv
<1>1. /\ worker \in [Plan -> {"none", "queued", "running", "SUCCEEDED", "FAILED", "LOST"}]
      /\ host \in [Plan -> {"ABSENT", "PARTIAL", "STAGED"}]
      /\ spent \in [crashes : 0..MaxCrashes, faults : 0..MaxFaults,
                       queued : 0..MaxQueuedTimeouts]
      /\ call \in CallRows
    BY <1>0 DEF TypeOK, CallRows
<1>2. /\ host' \in [Plan -> {"ABSENT", "PARTIAL", "STAGED"}]
      /\ \A q \in Plan : host'[q] # "ABSENT" => host[q] # "ABSENT"
    BY <1>1 DEF CleanHost
<1>3. ThreadsKept
    BY DEF ThreadsKept, CleanHost, rows, IInv, ThreadFits
<1>4. OneServed'
    BY DEF IInv, OneServed, CleanHost
<1>5. PlansKept /\ HostKept
    BY <1>2 DEF PlansKept, HostKept, CleanHost, rows
<1>6. EnvironmentsDisjoint'
    BY <1>5, HostStays
<1> QED
    BY <1>1, <1>2, <1>3, <1>4, <1>6, WorkerStepKeeps DEF CleanHost

LEMMA ApiCrashKeeps ==
    ASSUME IInv, ApiCrash
    PROVE  IInv'
<1>0. TypeOK
    BY DEF IInv
<1>1. /\ worker \in [Plan -> {"none", "queued", "running", "SUCCEEDED", "FAILED", "LOST"}]
      /\ host \in [Plan -> {"ABSENT", "PARTIAL", "STAGED"}]
      /\ spent \in [crashes : 0..MaxCrashes, faults : 0..MaxFaults,
                       queued : 0..MaxQueuedTimeouts]
      /\ MaxCrashes \in Nat
    BY <1>0, BoundAssumption DEF TypeOK
<1>2. spent' \in [crashes : 0..MaxCrashes, faults : 0..MaxFaults,
                       queued : 0..MaxQueuedTimeouts]
    <2>1. spent.crashes + 1 \in 0..MaxCrashes
        BY <1>1 DEF ApiCrash
    <2> QED
        BY <1>1, <2>1 DEF ApiCrash
<1>3. PICK unsent : worker' = [p \in Plan |->
          IF worker[p] \in {"queued", "running"} /\ p \notin unsent THEN worker[p] ELSE "none"]
    BY DEF ApiCrash
<1>4. worker' \in [Plan -> {"none", "queued", "running", "SUCCEEDED", "FAILED", "LOST"}]
      /\ OneServed' /\ \A q \in Plan : worker[q] = "none" => worker'[q] = "none"
    BY <1>1, <1>3 DEF IInv, OneServed
<1>5. ThreadsKept /\ (call \in CallRows)'
    BY IdleIsACall DEF ThreadsKept, ApiCrash, Idle, CallRows
<1>6. EnvironmentsDisjoint'
    BY DEF IInv, EnvironmentsDisjoint, Used, AccountOf, ApiCrash, rows
<1>7. host' = host /\ UNCHANGED <<rows, lapsed>>
    BY DEF ApiCrash
<1> QED
    BY <1>1, <1>2, <1>4, <1>5, <1>6, <1>7, WorkerStepKeeps

(* Where the preflight of p finds nothing, p may be put on the host. *)
LEMMA PlacedApart ==
    ASSUME IInv, NEW p \in Used, Preflight(p), UNCHANGED plan,
           \A q \in Used : q # p => host'[q] = host[q]
    PROVE  EnvironmentsDisjoint'
<1>1. Used' = Used
    BY DEF Used
<1>2. \A q \in Used : q # p /\ host[q] # "ABSENT" =>
          Owner[plan[q].request] # Owner[plan[p].request] /\ plan[q].coord # plan[p].coord
    BY DEF Preflight, HostClean, AccountOf
<1> QED
    BY <1>1, <1>2 DEF IInv, EnvironmentsDisjoint, AccountOf

LEMMA WorkerStageKeeps ==
    ASSUME IInv, NEW p \in Plan, WorkerStage(p)
    PROVE  IInv'
<1>0. TypeOK
    BY DEF IInv
<1>1. /\ worker \in [Plan -> {"none", "queued", "running", "SUCCEEDED", "FAILED", "LOST"}]
      /\ host \in [Plan -> {"ABSENT", "PARTIAL", "STAGED"}]
      /\ spent \in [crashes : 0..MaxCrashes, faults : 0..MaxFaults,
                       queued : 0..MaxQueuedTimeouts]
      /\ call \in CallRows
    BY <1>0 DEF TypeOK, CallRows
<1>2. PICK w \in {"none", "SUCCEEDED", "FAILED"} : worker' = [worker EXCEPT ![p] = w]
    BY DEF WorkerStage
<1>3. worker[p] = "running" /\ p \in Used
    BY <1>1 DEF WorkerStage, IInv, PlanFits, Used
<1>4. spent' = spent \/ Fault
    BY DEF WorkerStage
<1>5. spent' \in [crashes : 0..MaxCrashes, faults : 0..MaxFaults,
                       queued : 0..MaxQueuedTimeouts]
    BY <1>0, <1>1, <1>4, FaultCounted
<1>6. \/ Preflight(p) /\ \E left \in {"ABSENT", "PARTIAL", "STAGED"} :
                             host' = [host EXCEPT ![p] = left]
      \/ \E q \in Twins(p) : host' = [host EXCEPT ![p] = "STAGED", ![q] = "ABSENT"]
      \/ UNCHANGED host
    BY DEF WorkerStage
<1>7. /\ host' \in [Plan -> {"ABSENT", "PARTIAL", "STAGED"}]
      /\ \A q \in Plan : q # p => host'[q] \in {host[q], "ABSENT"}
    <2>1. CASE \E left \in {"ABSENT", "PARTIAL", "STAGED"} : host' = [host EXCEPT ![p] = left]
        BY <1>1, <2>1
    <2>2. CASE \E q \in Twins(p) : host' = [host EXCEPT ![p] = "STAGED", ![q] = "ABSENT"]
        BY <1>1, <2>2
    <2> QED
        BY <1>1, <1>6, <2>1, <2>2
<1>8. UNCHANGED <<rows, call, lapsed>>
    BY DEF WorkerStage
<1>9. EnvironmentsDisjoint'
    <2>1. Used' = Used /\ Used \subseteq Plan
        BY <1>8 DEF Used, rows
    <2>2. CASE Preflight(p) /\ \E left \in {"ABSENT", "PARTIAL", "STAGED"} :
                                   host' = [host EXCEPT ![p] = left]
        BY <1>1, <1>3, <1>8, <2>1, <2>2, PlacedApart DEF rows
    <2>3. ASSUME NEW q \in Twins(p), host' = [host EXCEPT ![p] = "STAGED", ![q] = "ABSENT"]
          PROVE  EnvironmentsDisjoint'
        <3>1. q \in Used /\ q # p /\ host[q] # "ABSENT"
              /\ Owner[plan[q].request] = Owner[plan[p].request]
              /\ plan[q].coord = plan[p].coord
            BY DEF Twins, AccountOf
        <3>2. \A t \in Used : t # p => host'[t] = IF t = q THEN "ABSENT" ELSE host[t]
            BY <1>1, <2>1, <2>3, <3>1
        <3> QED
            BY <1>8, <2>1, <3>1, <3>2 DEF IInv, EnvironmentsDisjoint, AccountOf, rows
    <2>4. CASE UNCHANGED host
        BY <1>8, <2>1, <2>4 DEF IInv, EnvironmentsDisjoint, AccountOf, rows
    <2> QED
        BY <1>6, <2>2, <2>3, <2>4
<1>10. ThreadsKept
    BY <1>8 DEF ThreadsKept, rows, IInv, ThreadFits
<1>11. OneServed' /\ \A q \in Plan : worker[q] = "none" => worker'[q] = "none"
    BY <1>1, <1>2, <1>3 DEF IInv, OneServed
<1>12. worker' \in [Plan -> {"none", "queued", "running", "SUCCEEDED", "FAILED", "LOST"}]
    BY <1>1, <1>2
<1>13. \A q \in Plan : host'[q] # "ABSENT" => host[q] # "ABSENT" \/ worker[q] = "running"
    BY <1>3, <1>7
<1> QED
    BY <1>1, <1>5, <1>7, <1>8, <1>9, <1>10, <1>11, <1>12, <1>13, WorkerStepKeeps

LEMMA WorkerRestartKeeps ==
    ASSUME IInv, WorkerRestart
    PROVE  IInv'
<1>0. TypeOK
    BY DEF IInv
<1>1. /\ worker \in [Plan -> {"none", "queued", "running", "SUCCEEDED", "FAILED", "LOST"}]
      /\ host \in [Plan -> {"ABSENT", "PARTIAL", "STAGED"}]
      /\ spent' \in [crashes : 0..MaxCrashes, faults : 0..MaxFaults,
                       queued : 0..MaxQueuedTimeouts]
      /\ call \in CallRows
    BY <1>0, FaultCounted DEF TypeOK, CallRows, WorkerRestart
<1>2. PICK left \in {"ABSENT", "PARTIAL", "STAGED"} :
          host' = [p \in Plan |-> IF worker[p] = "running" /\ Preflight(p)
                                  THEN left ELSE host[p]]
    BY DEF WorkerRestart
<1>3. UNCHANGED <<rows, call, lapsed>>
    BY DEF WorkerRestart
<1>4. /\ worker' \in [Plan -> {"none", "queued", "running", "SUCCEEDED", "FAILED", "LOST"}]
      /\ \A q \in Plan : worker'[q] # "running" /\ (worker[q] = "none" => worker'[q] = "none")
    BY <1>1 DEF WorkerRestart
<1>5. host' \in [Plan -> {"ABSENT", "PARTIAL", "STAGED"}]
      /\ \A q \in Plan : host'[q] # "ABSENT" => host[q] # "ABSENT" \/ worker[q] = "running"
    BY <1>1, <1>2
<1>6. OneServed'
    BY <1>4 DEF OneServed
<1>7. ThreadsKept
    BY <1>3 DEF ThreadsKept, rows, IInv, ThreadFits
<1>8. EnvironmentsDisjoint'
    <2>1. Used' = Used /\ Used \subseteq Plan /\ plan' = plan
        BY <1>3 DEF Used, rows
    <2>2. CASE \E p \in Plan : worker[p] = "running" /\ Preflight(p)
        <3>1. PICK p \in Plan : worker[p] = "running" /\ Preflight(p)
            BY <2>2
        <3>2. p \in Used
            BY <1>1, <3>1 DEF IInv, PlanFits, Used
        <3>3. \A q \in Used : q # p => host'[q] = host[q]
            BY <1>2, <2>1, <3>1 DEF IInv, OneServed
        <3> QED
            BY <2>1, <3>1, <3>2, <3>3, PlacedApart
    <2>3. CASE ~ \E p \in Plan : worker[p] = "running" /\ Preflight(p)
        BY <1>2, <2>1, <2>3 DEF IInv, EnvironmentsDisjoint, AccountOf
    <2> QED
        BY <2>2, <2>3
<1> QED
    BY <1>1, <1>3, <1>4, <1>5, <1>6, <1>7, <1>8, WorkerStepKeeps

-----------------------------------------------------------------------------
(* After a failure *)

LEMMA ReconcileKeeps ==
    ASSUME IInv, NEW p \in Plan, Reconcile(p)
    PROVE  IInv'
<1>0. TypeOK
    BY DEF IInv
<1>1. /\ hold[p] = "FAILED_HOLD" /\ plan[p].state = "FAILED"
      /\ hold' = [hold EXCEPT ![p] = "RELEASED"]
      /\ rollback' = [rollback EXCEPT ![p] = "ROLLED_BACK"]
      /\ UNCHANGED <<req, plan, stage, parent, orch, auth, managed, call, worker, host,
                     lapsed, spent>>
    BY DEF Reconcile
<1>2. hold \in [Plan -> {"NONE", "RESERVED", "RELEASED", "FAILED_HOLD", "CONSUMED"}]
      /\ rollback \in [Plan -> RollbackStatus] /\ "ROLLED_BACK" \in RollbackStatus
    BY <1>0 DEF TypeOK, RollbackStatus
<1>3. TypeOK'
    <2>1. hold' \in [Plan -> {"NONE", "RESERVED", "RELEASED", "FAILED_HOLD", "CONSUMED"}]
          /\ rollback' \in [Plan -> RollbackStatus]
        BY <1>1, <1>2
    <2> QED
        BY <1>0, <1>1, <2>1 DEF TypeOK
<1>4. PlansKept /\ CurrentKept /\ HostKept /\ ApprovedKept
    BY <1>1, <1>2 DEF PlansKept, CurrentKept, HostKept, ApprovedKept
<1>5. ThreadsKept
    BY <1>1 DEF ThreadsKept, IInv, ThreadFits
<1>6. ASSUME NEW q \in Plan PROVE PlanFits(q)'
    BY <1>1, <1>2 DEF IInv, PlanFits
<1>7. \A t \in Request : RequestFits(t)'
    BY <1>1 DEF IInv, RequestFits, Used
<1>8. OneServed'
    BY <1>1 DEF IInv, OneServed
<1> QED
    BY <1>3, <1>4, <1>5, <1>6, <1>7, <1>8, StepKeeps

LEMMA OrchestrationFailsKeeps ==
    ASSUME IInv, NEW k \in Caller, OrchestrationFails(k)
    PROVE  IInv'
<1>0. TypeOK /\ call \in CallRows
    BY DEF IInv, TypeOK, CallRows
<1>1. PICK r \in Request : r = call[k].request
    BY DEF OrchestrationFails, IInv, ThreadFits
<1>2. call[k].pc = "fail" /\ req[r].status \notin Unapproved
    BY <1>1 DEF OrchestrationFails, IInv, ThreadFits
<1>3. UNCHANGED <<stage, rollback, auth, managed, worker, host, lapsed, spent>>
    BY DEF OrchestrationFails
<1>4. PICK calls : /\ calls = [call EXCEPT ![k] = Idle]
                   /\ \/ call' = calls
                      \/ \E R : call' = Touch(calls, k, R)
    BY DEF OrchestrationFails
<1>5. /\ call' \in CallRows
      /\ \A j \in Caller : IF j = k THEN call'[j].pc = "idle"
                           ELSE /\ call'[j].pc = call[j].pc /\ call'[j].plan = call[j].plan
                                /\ call'[j].request = call[j].request
    <2>1. calls \in CallRows
        BY <1>0, <1>4, IdleIsACall DEF CallRows
    <2>2. \A j \in Caller : calls[j] = IF j = k THEN Idle ELSE call[j]
        BY <1>0, <1>4 DEF CallRows
    <2>3. Idle.pc = "idle"
        BY DEF Idle
    <2>4. CASE call' = calls
        BY <2>1, <2>2, <2>3, <2>4
    <2>5. CASE \E R : call' = Touch(calls, k, R)
        <3>1. PICK R : call' = Touch(calls, k, R)
            BY <2>5
        <3>2. /\ call' \in CallRows
              /\ \A j \in Caller : /\ call'[j].pc = calls[j].pc
                                   /\ call'[j].plan = calls[j].plan
                                   /\ call'[j].request = calls[j].request
            BY <2>1, <3>1, TouchKeeps
        <3> QED
            BY <2>2, <2>3, <3>2
    <2> QED
        BY <1>4, <2>4, <2>5
<1>6. CASE ~Running(k)
    <2>1. UNCHANGED <<req, plan, hold, parent, orch>>
        BY <1>6 DEF OrchestrationFails
    <2>2. TypeOK'
        BY <1>0, <1>3, <1>5, <2>1 DEF TypeOK, CallRows
    <2>3. ThreadsKept
        BY <1>5, <2>1 DEF ThreadsKept, IInv, ThreadFits
    <2> QED
        BY <1>3, <2>1, <2>2, <2>3, QuietStepKeeps
<1>7. CASE Running(k)
    <2>1. req \in [Request -> [status : RequestStatus, plan : Plan \cup {None}]]
          /\ plan \in [Plan -> [state : PlanState, request : Request \cup {None},
                          attempt : Nat, prev : Plan \cup {None},
                          coord : Coord \cup {None}, evidence : BOOLEAN]]
          /\ hold \in [Plan -> {"NONE", "RESERVED", "RELEASED", "FAILED_HOLD", "CONSUMED"}]
          /\ stage \in [Plan -> {"NONE", "RUNNING", "FAILED", "SUCCEEDED"}]
          /\ rollback \in [Plan -> RollbackStatus] /\ orch \in [Plan -> RollbackStatus]
          /\ parent \in [Request -> [n : 0..MaxOrchestrations,
                               status : {"NONE", "RUNNING", "FAILED", "SUCCEEDED"},
                               type : {"NONE", "compute.provision", "compute.provision.retry"},
                               plan : Plan \cup {None}, dry : Plan \cup {None},
                               failed : Plan \cup {None}]]
        BY <1>0 DEF TypeOK
    <2>2. \/ UNCHANGED <<plan, hold>>
          \/ \E p \in Plan : /\ plan[p].state \in Unstarted
                             /\ plan' = [plan EXCEPT ![p].state = "FAILED"]
                             /\ \/ hold' = hold
                                \/ hold' = [hold EXCEPT ![p] = "RELEASED"]
        <3>1. req[r].plan \in Plan \cup {None}
            BY <2>1
        <3> QED
            BY <1>1, <1>7, <3>1 DEF OrchestrationFails
    <2>3. /\ plan' \in [Plan -> [state : PlanState, request : Request \cup {None},
                          attempt : Nat, prev : Plan \cup {None},
                          coord : Coord \cup {None}, evidence : BOOLEAN]]
          /\ hold' \in [Plan -> {"NONE", "RESERVED", "RELEASED", "FAILED_HOLD", "CONSUMED"}]
          /\ \A q \in Plan : /\ plan'[q].request = plan[q].request
                             /\ plan'[q].attempt = plan[q].attempt
                             /\ plan'[q].prev = plan[q].prev
                             /\ plan'[q].coord = plan[q].coord
                             /\ \/ plan'[q].state = plan[q].state /\ hold'[q] = hold[q]
                                \/ /\ plan[q].state \in Unstarted /\ plan'[q].state = "FAILED"
                                   /\ hold'[q] \in {hold[q], "RELEASED"}
        <3>1. CASE UNCHANGED <<plan, hold>>
            BY <2>1, <3>1
        <3>2. ASSUME NEW p \in Plan, plan[p].state \in Unstarted,
                     plan' = [plan EXCEPT ![p].state = "FAILED"],
                     hold' = hold \/ hold' = [hold EXCEPT ![p] = "RELEASED"]
              PROVE  <2>3
            <4>1. "FAILED" \in PlanState
                BY DEF PlanState
            <4>2. plan' \in [Plan -> [state : PlanState, request : Request \cup {None},
                          attempt : Nat, prev : Plan \cup {None},
                          coord : Coord \cup {None}, evidence : BOOLEAN]]
                <5>1. plan' = [plan EXCEPT ![p].state = "FAILED"]
                    BY <3>2
                <5>2. plan \in [Plan -> [state : PlanState, request : Request \cup {None},
                          attempt : Nat, prev : Plan \cup {None},
                          coord : Coord \cup {None}, evidence : BOOLEAN]]
                    BY <2>1
                <5> QED
                    BY <4>1, <5>1, <5>2
            <4>3. hold' \in [Plan -> {"NONE", "RESERVED", "RELEASED", "FAILED_HOLD",
                                      "CONSUMED"}]
                BY <2>1, <3>2
            <4>4. \A q \in Plan :
                     /\ plan'[q] = IF q = p THEN [plan[p] EXCEPT !.state = "FAILED"]
                                   ELSE plan[q]
                     /\ hold'[q] = hold[q] \/ (q = p /\ hold'[q] = "RELEASED")
                BY <2>1, <3>2
            <4>5. [plan[p] EXCEPT !.state = "FAILED"] =
                      [state |-> "FAILED", request |-> plan[p].request,
                       attempt |-> plan[p].attempt, prev |-> plan[p].prev,
                       coord |-> plan[p].coord, evidence |-> plan[p].evidence]
                BY <2>1
            <4> QED
                BY <3>2, <4>2, <4>3, <4>4, <4>5
        <3> QED
            BY <2>2, <3>1, <3>2
    <2>4. req' = req \/ req' = [req EXCEPT ![r].status = "FAILED"]
        BY <1>1, <1>7 DEF OrchestrationFails, FailUnlessDone
    <2>5. /\ req' \in [Request -> [status : RequestStatus, plan : Plan \cup {None}]]
          /\ \A t \in Request : /\ req'[t].plan = req[t].plan
                                /\ \/ req'[t].status = req[t].status
                                   \/ t = r /\ req'[t].status = "FAILED"
        <3>1. CASE req' = req
            BY <2>1, <3>1
        <3>2. CASE req' = [req EXCEPT ![r].status = "FAILED"]
            <4>1. "FAILED" \in RequestStatus
                BY DEF RequestStatus
            <4> QED
                BY <2>1, <3>2, <4>1
        <3> QED
            BY <2>4, <3>1, <3>2
    <2>6. parent' = [parent EXCEPT ![r].status = "FAILED"]
        BY <1>1, <1>7 DEF OrchestrationFails
    <2>7. /\ parent' \in [Request -> [n : 0..MaxOrchestrations,
                               status : {"NONE", "RUNNING", "FAILED", "SUCCEEDED"},
                               type : {"NONE", "compute.provision", "compute.provision.retry"},
                               plan : Plan \cup {None}, dry : Plan \cup {None},
                               failed : Plan \cup {None}]]
          /\ \A t \in Request : parent'[t].status = "RUNNING" => parent[t].status = "RUNNING"
        <3>0. parent \in [Request -> [n : 0..MaxOrchestrations,
                               status : {"NONE", "RUNNING", "FAILED", "SUCCEEDED"},
                               type : {"NONE", "compute.provision", "compute.provision.retry"},
                               plan : Plan \cup {None}, dry : Plan \cup {None},
                               failed : Plan \cup {None}]]
            BY <2>1
        <3>1. \A t \in Request : /\ parent'[t].status = "RUNNING" => t # r
                                 /\ t # r => parent'[t] = parent[t]
            BY <2>6, <3>0
        <3>2. parent' \in [Request -> [n : 0..MaxOrchestrations,
                               status : {"NONE", "RUNNING", "FAILED", "SUCCEEDED"},
                               type : {"NONE", "compute.provision", "compute.provision.retry"},
                               plan : Plan \cup {None}, dry : Plan \cup {None},
                               failed : Plan \cup {None}]]
            BY <2>6, <3>0
        <3> QED
            BY <3>1, <3>2
    <2>8. orch' \in [Plan -> RollbackStatus]
        <3>1. PICK f : /\ f = IF req[r].plan = None THEN None ELSE Failure(req[r].plan)
                       /\ \/ orch' = orch
                          \/ orch' = [orch EXCEPT ![parent[r].plan] =
                                          IF f = None THEN "NOT_REQUIRED" ELSE f]
            BY <1>1, <1>7 DEF OrchestrationFails
        <3>2. f \in RollbackStatus
            BY <2>1, <3>1 DEF Failure, RollbackStatus
        <3>3. "NOT_REQUIRED" \in RollbackStatus
            BY DEF RollbackStatus
        <3> QED
            BY <2>1, <3>1, <3>2, <3>3
    <2>9. TypeOK'
        BY <1>0, <1>3, <1>5, <2>3, <2>5, <2>7, <2>8 DEF TypeOK, CallRows
    <2>10. PlansKept /\ CurrentKept /\ HostKept
        BY <1>3, <2>3, <2>5 DEF PlansKept, CurrentKept, HostKept, Unstarted, AttemptOver
    <2>11. ApprovedKept
        BY <2>5 DEF ApprovedKept, Unapproved
    <2>12. ThreadsKept
        BY <1>2, <1>5, <2>3 DEF ThreadsKept, IInv, ThreadFits, Unstarted
    <2>13. ASSUME NEW q \in Plan PROVE PlanFits(q)'
        <3>1. PlanFits(q)
            BY DEF IInv
        <3>2. CASE plan'[q].state = plan[q].state /\ hold'[q] = hold[q]
            BY <1>3, <2>3, <3>1, <3>2 DEF PlanFits
        <3>3. CASE /\ plan[q].state \in Unstarted /\ plan'[q].state = "FAILED"
                   /\ hold'[q] \in {hold[q], "RELEASED"}
            BY <1>3, <2>3, <3>1, <3>3 DEF PlanFits, Unstarted
        <3> QED
            BY <2>3, <3>2, <3>3
    <2>14. ASSUME NEW t \in Request PROVE RequestFits(t)'
        <3>1. (req[t].plan # None)' => (req[t].plan \in Used /\ plan[req[t].plan].request = t)'
            BY <2>10, CurrentIsThere
        <3> QED
            BY <1>2, <2>5, <2>7, <3>1 DEF IInv, RequestFits, Unapproved
    <2>15. OneServed'
        BY <1>3 DEF IInv, OneServed
    <2> QED
        BY <2>9, <2>10, <2>11, <2>12, <2>13, <2>14, <2>15, StepKeeps
<1> QED
    BY <1>6, <1>7

-----------------------------------------------------------------------------
(* Planning *)

(* The rows as they are after the lapsed reservations have been released. *)
LEMMA ExpiryIs ==
    ASSUME IInv
    PROVE  /\ PlanX \in [Plan -> [state : PlanState, request : Request \cup {None},
                          attempt : Nat, prev : Plan \cup {None},
                          coord : Coord \cup {None}, evidence : BOOLEAN]]
           /\ HoldX \in [Plan -> {"NONE", "RESERVED", "RELEASED", "FAILED_HOLD", "CONSUMED"}]
           /\ ReqX \in [Request -> [status : RequestStatus, plan : Plan \cup {None}]]
           /\ \A p \in Plan :
                 /\ PlanX[p].request = plan[p].request
                 /\ PlanX[p].attempt = plan[p].attempt
                 /\ PlanX[p].prev = plan[p].prev
                 /\ PlanX[p].coord = plan[p].coord
                 /\ \/ PlanX[p].state = plan[p].state /\ HoldX[p] = hold[p]
                    \/ /\ PlanX[p].state = plan[p].state /\ plan[p].state \notin Unstarted
                       /\ hold[p] = "RESERVED" /\ HoldX[p] = "RELEASED"
                    \/ /\ plan[p].state \in Unstarted /\ PlanX[p].state = "EXPIRED"
                       /\ hold[p] = "RESERVED" /\ HoldX[p] = "RELEASED"
           /\ \A r \in Request :
                 /\ ReqX[r].plan = req[r].plan
                 /\ \/ ReqX[r].status = req[r].status
                    \/ req[r].status = "PROVISION_PLAN_READY" /\ ReqX[r].status = "APPROVED"
<1>1. /\ req \in [Request -> [status : RequestStatus, plan : Plan \cup {None}]]
      /\ plan \in [Plan -> [state : PlanState, request : Request \cup {None},
                          attempt : Nat, prev : Plan \cup {None},
                          coord : Coord \cup {None}, evidence : BOOLEAN]]
      /\ hold \in [Plan -> {"NONE", "RESERVED", "RELEASED", "FAILED_HOLD", "CONSUMED"}]
    BY DEF IInv, TypeOK
<1>2. "EXPIRED" \in PlanState /\ "APPROVED" \in RequestStatus
    BY DEF PlanState, RequestStatus, Open
<1>3. PlanX \in [Plan -> [state : PlanState, request : Request \cup {None},
                          attempt : Nat, prev : Plan \cup {None},
                          coord : Coord \cup {None}, evidence : BOOLEAN]]
    BY <1>1, <1>2 DEF PlanX
<1>4. HoldX \in [Plan -> {"NONE", "RESERVED", "RELEASED", "FAILED_HOLD", "CONSUMED"}]
    BY <1>1 DEF HoldX
<1>5. ReqX \in [Request -> [status : RequestStatus, plan : Plan \cup {None}]]
    BY <1>1, <1>2 DEF ReqX
<1>6. ASSUME NEW p \in Plan
      PROVE  /\ PlanX[p].request = plan[p].request
             /\ PlanX[p].attempt = plan[p].attempt
             /\ PlanX[p].prev = plan[p].prev
             /\ PlanX[p].coord = plan[p].coord
             /\ \/ PlanX[p].state = plan[p].state /\ HoldX[p] = hold[p]
                \/ /\ PlanX[p].state = plan[p].state /\ plan[p].state \notin Unstarted
                   /\ hold[p] = "RESERVED" /\ HoldX[p] = "RELEASED"
                \/ /\ plan[p].state \in Unstarted /\ PlanX[p].state = "EXPIRED"
                   /\ hold[p] = "RESERVED" /\ HoldX[p] = "RELEASED"
    <2>1. CASE p \in Expiring /\ plan[p].state \in Unstarted
        <3>1. PlanX[p] = [plan[p] EXCEPT !.state = "EXPIRED"] /\ HoldX[p] = "RELEASED"
            BY <2>1 DEF PlanX, HoldX
        <3> QED
            BY <1>1, <2>1, <3>1 DEF Expiring
    <2>2. CASE ~(p \in Expiring /\ plan[p].state \in Unstarted)
        BY <2>2 DEF PlanX, HoldX, Expiring
    <2> QED
        BY <2>1, <2>2
<1>7. ASSUME NEW r \in Request
      PROVE  /\ ReqX[r].plan = req[r].plan
             /\ \/ ReqX[r].status = req[r].status
                \/ req[r].status = "PROVISION_PLAN_READY" /\ ReqX[r].status = "APPROVED"
    <2>1. CASE r \in Reopened
        <3>1. ReqX[r] = [req[r] EXCEPT !.status = "APPROVED"]
            BY <2>1 DEF ReqX
        <3> QED
            BY <1>1, <2>1, <3>1 DEF Reopened
    <2>2. CASE r \notin Reopened
        BY <2>2 DEF ReqX
    <2> QED
        BY <2>1, <2>2
<1> QED
    BY <1>3, <1>4, <1>5, <1>6, <1>7

(* What expiry alone leaves as it was. *)
LEMMA ExpiryKeeps ==
    ASSUME IInv, plan' = PlanX, hold' = HoldX, req' = ReqX,
           UNCHANGED <<parent, stage, rollback, orch, auth, managed, worker, host, lapsed, spent>>,
           ThreadsKept, (call \in CallRows)'
    PROVE  IInv'
<1>0. TypeOK
    BY DEF IInv
<1>1. TypeOK'
    BY <1>0, ExpiryIs DEF TypeOK, CallRows
<1>2. PlansKept /\ CurrentKept /\ HostKept
    BY ExpiryIs DEF PlansKept, CurrentKept, HostKept, Unstarted, AttemptOver
<1>3. ApprovedKept
    BY ExpiryIs DEF ApprovedKept, Unapproved
<1>4. ASSUME NEW p \in Plan PROVE PlanFits(p)'
    <2>1. PlanFits(p)
        BY DEF IInv
    <2> QED
        BY <2>1, ExpiryIs DEF PlanFits, Unstarted
<1>5. ASSUME NEW r \in Request PROVE RequestFits(r)'
    <2>1. (req[r].plan # None)' => (req[r].plan \in Used /\ plan[req[r].plan].request = r)'
        BY <1>2, CurrentIsThere
    <2> QED
        BY <2>1, ExpiryIs DEF IInv, RequestFits, Unapproved
<1>6. OneServed'
    BY DEF IInv, OneServed
<1> QED
    BY <1>1, <1>2, <1>3, <1>4, <1>5, <1>6, StepKeeps

(* The next number is free. *)
LEMMA NextIsFree ==
    ASSUME IInv, NextPlan \in Plan
    PROVE  NextPlan \notin Used /\ Used \cup {NextPlan} = 1..NextPlan /\ NextPlan \in 0..MaxPlans
<1>1. PICK m \in 0..MaxPlans : Used = 1..m
    BY DEF IInv, Numbered
<1>2. m \in Nat /\ MaxPlans \in Nat
    BY <1>1, BoundAssumption
<1>3. Cardinality(1..m) = m
    BY <1>2, FS_Interval
<1>4. NextPlan = m + 1
    BY <1>1, <1>3 DEF NextPlan
<1> QED
    BY <1>1, <1>2, <1>4 DEF Plan

(* The attempt that a new one is made from is over and has given up its *)
(* reservations. *)
LEMMA PredecessorIsOver ==
    ASSUME IInv, NEW r \in Request, NEW n, Startable(r, n), req[r].plan # None
    PROVE  /\ req[r].plan \in Used /\ plan[req[r].plan].request = r
           /\ PlanX[req[r].plan].state \in AttemptOver /\ HoldX[req[r].plan] = "RELEASED"
<1>1. PICK p \in Used : p = req[r].plan /\ plan[p].request = r
    BY DEF IInv, RequestFits
<1>2. p \in Plan
    BY DEF Used
<1>3. ReqX[r].plan = p
    BY <1>1, ExpiryIs
<1>4. CASE PlanX[p].state = "EXPIRED"
    BY <1>1, <1>2, <1>4, ExpiryIs DEF IInv, PlanFits, AttemptOver
<1>5. CASE RetryableAttempt(r)
    BY <1>1, <1>2, <1>5, ExpiryIs DEF RetryableAttempt, AttemptOver, Unstarted
<1> QED
    BY <1>1, <1>3, <1>4, <1>5, IdAssumption DEF Startable, RolledBackStage

(* A new plan joins the others. *)
LEMMA NewPlanKeeps ==
    ASSUME IInv, NEW r \in Request, NEW m \in 0..MaxOrchestrations, NewPlan(r, m),
           (call \in CallRows)',
           \A k \in Caller : /\ call'[k].request = call[k].request
                             /\ call'[k].plan = call[k].plan
                             /\ \/ call'[k].pc = call[k].pc
                                \/ /\ call[k].pc # "idle"
                                   /\ call'[k].pc \notin {"idle", "at_worker"}
    PROVE  IInv'
<1>0. TypeOK
    BY DEF IInv
<1>1. PICK n : n = NextPlan
    OBVIOUS
<1>2. n \in Plan /\ n \notin Used /\ Used \cup {n} = 1..n /\ n \in 0..MaxPlans
    BY <1>1, NextIsFree DEF NewPlan, CanPlan
<1>3. PICK c \in Coord :
          /\ Allocatable(r, c)
          /\ plan' = [PlanX EXCEPT ![n] =
                [state |-> "RESERVED", request |-> r, attempt |-> AttemptNumber(r),
                 prev |-> req[r].plan, coord |-> c, evidence |-> FALSE]]
    BY <1>1 DEF NewPlan
<1>4. /\ hold' = [HoldX EXCEPT ![n] = "RESERVED"]
      /\ req' = [ReqX EXCEPT ![r] = [status |-> "PROVISION_PLAN_READY", plan |-> n]]
      /\ parent' = IF m = 0 THEN parent ELSE [parent EXCEPT ![r].plan = n]
      /\ UNCHANGED <<stage, rollback, orch, auth, managed, worker, host, lapsed, spent>>
      /\ Startable(r, m)
    BY <1>1 DEF NewPlan, CanPlan
<1>5. /\ req \in [Request -> [status : RequestStatus, plan : Plan \cup {None}]]
      /\ plan \in [Plan -> [state : PlanState, request : Request \cup {None},
                          attempt : Nat, prev : Plan \cup {None},
                          coord : Coord \cup {None}, evidence : BOOLEAN]]
      /\ stage \in [Plan -> {"NONE", "RUNNING", "FAILED", "SUCCEEDED"}]
      /\ parent \in [Request -> [n : 0..MaxOrchestrations,
                               status : {"NONE", "RUNNING", "FAILED", "SUCCEEDED"},
                               type : {"NONE", "compute.provision", "compute.provision.retry"},
                               plan : Plan \cup {None}, dry : Plan \cup {None},
                               failed : Plan \cup {None}]]
    BY <1>0 DEF TypeOK
<1>6. AttemptNumber(r) \in Nat /\ AttemptNumber(r) # 0
      /\ (req[r].plan = None => AttemptNumber(r) = 1)
      /\ (req[r].plan # None => /\ AttemptNumber(r) = plan[req[r].plan].attempt + 1
                                /\ AttemptNumber(r) # 1)
    <2>1. CASE req[r].plan = None
        BY <2>1 DEF AttemptNumber
    <2>2. CASE req[r].plan # None
        <3>1. req[r].plan \in Used /\ req[r].plan \in Plan
            BY <2>2 DEF IInv, RequestFits, Used
        <3>2. plan[req[r].plan].attempt \in Nat /\ plan[req[r].plan].attempt # 0
            BY <1>5, <3>1 DEF IInv, PlanFits, Used
        <3> QED
            BY <2>2, <3>2 DEF AttemptNumber
    <2> QED
        BY <2>1, <2>2
<1>7. /\ plan'[n].state = "RESERVED" /\ plan'[n].request = r
      /\ plan'[n].attempt = AttemptNumber(r) /\ plan'[n].prev = req[r].plan
      /\ plan'[n].coord = c
      /\ hold'[n] = "RESERVED"
      /\ \A q \in Plan : q # n => plan'[q] = PlanX[q] /\ hold'[q] = HoldX[q]
    <2>1. PlanX \in [Plan -> [state : PlanState, request : Request \cup {None},
                          attempt : Nat, prev : Plan \cup {None},
                          coord : Coord \cup {None}, evidence : BOOLEAN]]
          /\ HoldX \in [Plan -> {"NONE", "RESERVED", "RELEASED", "FAILED_HOLD", "CONSUMED"}]
        BY ExpiryIs
    <2> QED
        BY <1>2, <1>3, <1>4, <2>1
<1>8. /\ req'[r].status = "PROVISION_PLAN_READY" /\ req'[r].plan = n
      /\ \A t \in Request : t # r => req'[t] = ReqX[t]
      /\ \A t \in Request : parent'[t].status = parent[t].status
    <2>1. ReqX \in [Request -> [status : RequestStatus, plan : Plan \cup {None}]]
        BY ExpiryIs
    <2>2. \A t \in Request : parent'[t].status = parent[t].status
        BY <1>4, <1>5
    <2> QED
        BY <1>4, <2>1, <2>2
<1>9. TypeOK'
    <2>1. plan' \in [Plan -> [state : PlanState, request : Request \cup {None},
                          attempt : Nat, prev : Plan \cup {None},
                          coord : Coord \cup {None}, evidence : BOOLEAN]]
        <3>1. [state |-> "RESERVED", request |-> r, attempt |-> AttemptNumber(r),
               prev |-> req[r].plan, coord |-> c, evidence |-> FALSE]
              \in [state : PlanState, request : Request \cup {None},
                   attempt : Nat, prev : Plan \cup {None},
                   coord : Coord \cup {None}, evidence : BOOLEAN]
            BY <1>5, <1>6 DEF PlanState, Unstarted
        <3>2. PlanX \in [Plan -> [state : PlanState, request : Request \cup {None},
                          attempt : Nat, prev : Plan \cup {None},
                          coord : Coord \cup {None}, evidence : BOOLEAN]]
            BY ExpiryIs
        <3> QED
            BY <1>2, <1>3, <3>1, <3>2
    <2>2. hold' \in [Plan -> {"NONE", "RESERVED", "RELEASED", "FAILED_HOLD", "CONSUMED"}]
        BY <1>2, <1>4, ExpiryIs
    <2>3. req' \in [Request -> [status : RequestStatus, plan : Plan \cup {None}]]
        <3>1. [status |-> "PROVISION_PLAN_READY", plan |-> n]
              \in [status : RequestStatus, plan : Plan \cup {None}]
            BY <1>2 DEF RequestStatus, Open
        <3>2. ReqX \in [Request -> [status : RequestStatus, plan : Plan \cup {None}]]
            BY ExpiryIs
        <3> QED
            BY <1>4, <3>1, <3>2
    <2>4. parent' \in [Request -> [n : 0..MaxOrchestrations,
                               status : {"NONE", "RUNNING", "FAILED", "SUCCEEDED"},
                               type : {"NONE", "compute.provision", "compute.provision.retry"},
                               plan : Plan \cup {None}, dry : Plan \cup {None},
                               failed : Plan \cup {None}]]
        <3>1. CASE m = 0
            BY <1>4, <1>5, <3>1
        <3>2. CASE m # 0
            BY <1>2, <1>4, <1>5, <3>2
        <3> QED
            BY <3>1, <3>2
    <2> QED
        BY <1>0, <1>4, <2>1, <2>2, <2>3, <2>4 DEF TypeOK, CallRows
<1>10. Used' = Used \cup {n}
    <2>1. \A q \in Plan : q # n => (plan'[q].state = "NONE" <=> plan[q].state = "NONE")
        BY <1>7, ExpiryIs DEF Unstarted
    <2> QED
        BY <1>2, <1>7, <2>1 DEF Used
<1>11. Numbered'
    BY <1>2, <1>10 DEF Numbered
<1>12. plan[n].state = "NONE" /\ hold[n] = "NONE" /\ stage[n] = "NONE"
       /\ worker[n] = "none" /\ host[n] = "ABSENT"
    BY <1>2 DEF Used, IInv, PlanFits
<1>13. ASSUME NEW q \in Plan PROVE PlanFits(q)'
    <2>1. CASE q = n
        BY <1>4, <1>6, <1>7, <1>12, <2>1 DEF PlanFits
    <2>2. CASE q # n
        <3>1. PlanFits(q)
            BY DEF IInv
        <3> QED
            BY <1>4, <1>7, <2>2, <3>1, ExpiryIs DEF PlanFits, Unstarted
    <2> QED
        BY <2>1, <2>2
<1>14. ASSUME NEW t \in Request PROVE RequestFits(t)'
    <2>1. RequestFits(t)
        BY DEF IInv
    <2>2. n # None
        BY <1>2, IdAssumption DEF Plan
    <2>3. CASE t = r
        BY <1>2, <1>7, <1>8, <1>10, <2>2, <2>3 DEF RequestFits, Unapproved
    <2>4. CASE t # r
        <3>1. req'[t].plan = req[t].plan
              /\ \/ req'[t].status = req[t].status
                 \/ req[t].status = "PROVISION_PLAN_READY" /\ req'[t].status = "APPROVED"
            BY <1>8, <2>4, ExpiryIs
        <3>2. req'[t].plan # None => req'[t].plan \in Used' /\ plan'[req'[t].plan].request = t
            <4>1. ASSUME req[t].plan # None
                  PROVE  req[t].plan \in Used /\ req[t].plan \in Plan /\ req[t].plan # n
                         /\ plan[req[t].plan].request = t
                BY <1>2, <2>1, <4>1 DEF RequestFits, Used
            <4> QED
                BY <1>7, <1>10, <3>1, <4>1, ExpiryIs
        <3> QED
            BY <1>8, <2>1, <3>1, <3>2 DEF RequestFits, Unapproved
    <2> QED
        BY <2>3, <2>4
<1>15. ApprovedKept
    <2>1. ASSUME NEW t \in Request, req[t].status \notin Unapproved
          PROVE  req'[t].status \notin Unapproved
        <3>1. CASE t = r
            BY <1>8, <3>1 DEF Unapproved
        <3>2. CASE t # r
            BY <1>8, <2>1, <3>2, ExpiryIs DEF Unapproved
        <3> QED
            BY <3>1, <3>2
    <2> QED
        BY <2>1 DEF ApprovedKept
<1>16. ThreadsKept
    <2>1. ASSUME NEW k \in Caller, call[k].pc = "at_worker"
          PROVE  plan'[call[k].plan].state = "PROVISIONING"
        <3>1. call[k].plan \in Plan /\ plan[call[k].plan].state = "PROVISIONING"
              /\ call[k].plan # n
            BY <1>12, <2>1 DEF IInv, ThreadFits
        <3> QED
            <4>1. PlanX[call[k].plan].state = "PROVISIONING"
                BY <3>1, ExpiryIs DEF Unstarted
            <4> QED
                BY <1>7, <3>1, <4>1
    <2> QED
        BY <2>1 DEF ThreadsKept
<1>17. OneServed'
    BY <1>4 DEF IInv, OneServed
<1>18. HeldOnce'
    <2>1. ASSUME NEW q \in Used, hold'[q] \in {"RESERVED", "FAILED_HOLD", "CONSUMED"}
          PROVE  /\ plan'[q].coord # c /\ Owner[plan'[q].request] # Owner[r]
                 /\ hold[q] \in {"RESERVED", "FAILED_HOLD", "CONSUMED"}
                 /\ plan'[q].coord = plan[q].coord /\ plan'[q].request = plan[q].request
        <3>1. q \in Plan /\ q # n
            BY <1>2 DEF Used
        <3>2. HoldX[q] \in {"RESERVED", "FAILED_HOLD"} \/ plan[q].state = "STAGED"
            BY <1>7, <2>1, <3>1, ExpiryIs DEF IInv, PlanFits
        <3>3. plan[q].coord # c /\ Owner[plan[q].request] # Owner[r]
            BY <1>3, <3>2 DEF Allocatable, AccountOf
        <3> QED
            BY <1>7, <2>1, <3>1, <3>3, ExpiryIs
    <2>2. \A p, q \in Used' : p # q /\ Claims(p)' /\ Claims(q)' =>
              plan'[p].coord # plan'[q].coord
              /\ Owner[plan'[p].request] # Owner[plan'[q].request]
        BY <1>7, <1>10, <2>1 DEF IInv, HeldOnce, Claims, AccountOf
    <2> QED
        BY <2>2 DEF HeldOnce, AccountOf
<1>19. EnvironmentsDisjoint'
    <2>1. \A q \in Used : plan'[q].coord = plan[q].coord /\ plan'[q].request = plan[q].request
        BY <1>2, <1>7, ExpiryIs DEF Used
    <2> QED
        BY <1>4, <1>10, <1>12, <2>1 DEF IInv, EnvironmentsDisjoint, AccountOf
<1>20. AttemptChain'
    <2> DEFINE Chained(p) ==
            LET q == plan[p].prev IN
            /\ q = None <=> plan[p].attempt = 1
            /\ q # None => /\ plan[q].request = plan[p].request
                           /\ plan[p].attempt = plan[q].attempt + 1
                           /\ plan[q].state \in AttemptOver /\ hold[q] = "RELEASED"
            /\ plan[p].state \notin AttemptOver => req[plan[p].request].plan = p
    <2>1. ASSUME NEW q \in Used, PlanX[q].state \in AttemptOver, HoldX[q] = "RELEASED"
          PROVE  /\ q # n /\ plan'[q].request = plan[q].request
                 /\ plan'[q].attempt = plan[q].attempt
                 /\ plan'[q].state \in AttemptOver /\ hold'[q] = "RELEASED"
        BY <1>2, <1>7, <2>1, ExpiryIs DEF Used
    <2>2. Chained(n)'
        <3>1. CASE req[r].plan = None
            BY <1>6, <1>7, <1>8, <3>1
        <3>2. CASE req[r].plan # None
            <4>1. /\ req[r].plan \in Used /\ plan[req[r].plan].request = r
                  /\ PlanX[req[r].plan].state \in AttemptOver /\ HoldX[req[r].plan] = "RELEASED"
                BY <1>4, <3>2, PredecessorIsOver
            <4> QED
                BY <1>6, <1>7, <1>8, <2>1, <3>2, <4>1
        <3> QED
            BY <3>1, <3>2
    <2>3. ASSUME NEW p \in Used PROVE Chained(p)'
        <3>1. p \in Plan /\ p # n /\ plan[p].request \in Request
            BY <1>2 DEF Used, IInv, PlanFits
        <3>2. /\ plan'[p].request = plan[p].request /\ plan'[p].attempt = plan[p].attempt
              /\ plan'[p].prev = plan[p].prev
              /\ (plan'[p].state \notin AttemptOver => plan[p].state \notin AttemptOver)
            BY <1>7, <3>1, ExpiryIs DEF Unstarted, AttemptOver
        <3>3. Chained(p)
            BY DEF IInv, AttemptChain
        <3>4. ASSUME plan[p].prev # None
              PROVE  /\ plan'[plan[p].prev].request = plan[plan[p].prev].request
                     /\ plan'[plan[p].prev].attempt = plan[plan[p].prev].attempt
                     /\ plan'[plan[p].prev].state \in AttemptOver
                     /\ hold'[plan[p].prev] = "RELEASED"
            <4>1. PICK q \in Used : q = plan[p].prev
                BY <1>5, <3>1, <3>3, <3>4 DEF AttemptOver, Used
            <4>2. plan[q].state \in AttemptOver /\ hold[q] = "RELEASED" /\ q \in Plan
                BY <3>3, <3>4, <4>1 DEF Used
            <4>3. PlanX[q].state \in AttemptOver /\ HoldX[q] = "RELEASED"
                BY <4>2, ExpiryIs DEF AttemptOver
            <4> QED
                BY <2>1, <4>1, <4>3
        <3>5. ASSUME plan'[p].state \notin AttemptOver
              PROVE  req'[plan'[p].request].plan = p
            <4>1. req[plan[p].request].plan = p
                BY <3>2, <3>3, <3>5
            <4>2. plan[p].request # r
                <5> SUFFICES ASSUME plan[p].request = r PROVE FALSE
                    OBVIOUS
                <5>1. p # None
                    BY <3>1, IdAssumption DEF Plan
                <5>2. PlanX[p].state \in AttemptOver
                    BY <1>4, <4>1, <5>1, PredecessorIsOver
                <5> QED
                    BY <1>7, <3>1, <3>5, <5>2
            <4> QED
                BY <1>8, <3>1, <3>2, <4>1, <4>2, ExpiryIs
        <3> QED
            BY <3>2, <3>3, <3>4, <3>5
    <2>4. \A p \in Used' : Chained(p)'
        BY <1>10, <2>2, <2>3
    <2> QED
        BY <2>4 DEF AttemptChain
<1> QED
    BY <1>9, <1>11, <1>13, <1>14, <1>15, <1>16, <1>17, <1>18, <1>19, <1>20, ThreadsStay DEF IInv

LEMMA CreatePlanKeeps ==
    ASSUME IInv, NEW r \in Request, CreatePlan(r)
    PROVE  IInv'
<1>1. call \in CallRows
    BY DEF IInv, TypeOK, CallRows
<1>2. call' \in CallRows /\ \A k \in Caller : /\ call'[k].pc = call[k].pc
                                             /\ call'[k].request = call[k].request
                                             /\ call'[k].plan = call[k].plan
    BY <1>1, TouchKeeps DEF CreatePlan
<1>3. 0 \in 0..MaxOrchestrations /\ NewPlan(r, 0)
    BY BoundAssumption DEF CreatePlan
<1>4. (call \in CallRows)'
    BY <1>2 DEF CallRows
<1> QED
    BY <1>2, <1>3, <1>4, NewPlanKeeps

LEMMA OrchestratedPlanKeeps ==
    ASSUME IInv, NEW k \in Caller, OrchestratedPlan(k)
    PROVE  IInv'
<1>0. TypeOK /\ call \in CallRows
    BY DEF IInv, TypeOK, CallRows
<1>1. PICK r \in Request : r = call[k].request
    BY DEF OrchestratedPlan, IInv, ThreadFits
<1>2. /\ call' \in CallRows
      /\ \A j \in Caller : /\ call'[j].request = call[j].request
                           /\ call'[j].plan = call[j].plan
                           /\ IF j = k THEN call[j].pc = "plan" /\ call'[j].pc = "dry_run"
                              ELSE call'[j].pc = call[j].pc
    <2>1. PICK calls, R : calls = [call EXCEPT ![k].pc = "dry_run"] /\ call' = Touch(calls, k, R)
        BY DEF OrchestratedPlan, Goto
    <2>2. /\ calls \in CallRows
          /\ \A j \in Caller : calls[j] = IF j = k THEN [call[k] EXCEPT !.pc = "dry_run"]
                                          ELSE call[j]
        BY <1>0, <2>1 DEF CallRows
    <2>3. /\ [call[k] EXCEPT !.pc = "dry_run"].pc = "dry_run"
          /\ [call[k] EXCEPT !.pc = "dry_run"].request = call[k].request
          /\ [call[k] EXCEPT !.pc = "dry_run"].plan = call[k].plan
        BY <1>0 DEF CallRows
    <2>4. call[k].pc = "plan"
        BY DEF OrchestratedPlan
    <2>5. call' \in CallRows /\ \A j \in Caller : /\ call'[j].pc = calls[j].pc
                                                 /\ call'[j].request = calls[j].request
                                                 /\ call'[j].plan = calls[j].plan
        <3>1. calls \in CallRows /\ call' = Touch(calls, k, R)
            BY <2>1, <2>2
        <3> QED
            BY <3>1, TouchKeeps
    <2> QED
        BY <2>2, <2>3, <2>4, <2>5
<1>3. (call \in CallRows)'
    BY <1>2 DEF CallRows
<1>4. CASE NewPlan(r, call[k].n)
    <2>1. call[k].n \in 0..MaxOrchestrations
        BY <1>0 DEF CallRows
    <2> QED
        BY <1>2, <1>3, <1>4, <2>1, NewPlanKeeps
<1>5. CASE ~NewPlan(r, call[k].n)
    <2>1. /\ plan' = PlanX /\ hold' = HoldX /\ req' = ReqX
          /\ UNCHANGED <<parent, stage, rollback, orch, auth, managed, worker, host,
                         lapsed, spent>>
        BY <1>1, <1>5 DEF OrchestratedPlan
    <2>2. ASSUME NEW j \in Caller, call[j].pc = "at_worker"
          PROVE  plan'[call[j].plan].state = "PROVISIONING"
        <3>1. call[j].plan \in Plan /\ plan[call[j].plan].state = "PROVISIONING"
            BY <2>2 DEF IInv, ThreadFits
        <3> QED
            BY <2>1, <3>1, ExpiryIs DEF Unstarted
    <2>3. ThreadsKept
        BY <1>2, <2>2 DEF ThreadsKept
    <2> QED
        BY <1>3, <2>1, <2>3, ExpiryKeeps
<1> QED
    BY <1>4, <1>5

-----------------------------------------------------------------------------
(* The invariant *)

LEMMA NextFits == IInv /\ [Next]_vars => IInv'
<1> SUFFICES ASSUME IInv, [Next]_vars PROVE IInv'
    OBVIOUS
<1>1. ASSUME NEW r \in Request, User(r) PROVE IInv'
    BY <1>1, UserKeeps DEF User
<1>2. ASSUME NEW r \in Request, Administrator(r) PROVE IInv'
    BY <1>2, UserKeeps, CreatePlanKeeps, DryRunKeeps, AuthorizeKeeps, StartKeeps, ReplayKeeps,
       ProvisionKeeps DEF Administrator
<1>3. ASSUME NEW k \in Caller, Thread(k) PROVE IInv'
    BY <1>3, OrchestratedPlanKeeps, OrchestratedDryRunKeeps, OrchestratedStageKeeps,
       StageAnswerKeeps, StageUnansweredKeeps, StepFailsKeeps, SucceedsKeeps,
       OrchestrationFailsKeeps DEF Thread
<1>4. CASE RootWorker
    BY <1>4, WorkerRestartKeeps, WorkerTakeKeeps, WorkerStageKeeps DEF RootWorker
<1>5. ASSUME NEW p \in Plan, Reconcile(p) \/ CleanHost(p) \/ Lapse(p) PROVE IInv'
    BY <1>5, ReconcileKeeps, CleanHostKeeps, LapseKeeps
<1>6. CASE ApiCrash
    BY <1>6, ApiCrashKeeps
<1>7. CASE UNCHANGED vars
    <2>1. UNCHANGED <<req, plan, hold, stage, rollback, parent, orch, auth, managed, call,
                      worker, host, lapsed, spent>>
        BY <1>7 DEF vars, rows
    <2>2. TypeOK'
        BY <2>1 DEF IInv, TypeOK
    <2>3. ThreadsKept
        BY <2>1 DEF ThreadsKept, IInv, ThreadFits
    <2> QED
        BY <2>1, <2>2, <2>3, QuietStepKeeps
<1> QED
    BY <1>1, <1>2, <1>3, <1>4, <1>5, <1>6, <1>7 DEF Next

(* The strengthened invariant holds in every reachable state of a model of *)
(* any size: it relates the rows of a request, its plans and reservations, *)
(* the threads of the API, the Root Worker and the host.                   *)
THEOREM Invariance == Spec => []IInv
<1>1. Init => IInv
    BY InitFits
<1>2. IInv /\ [Next]_vars => IInv'
    BY NextFits
<1> QED
    BY <1>1, <1>2, PTL DEF Spec

(* Every row, thread and Worker request keeps the shape of its table. *)
THEOREM TypeCorrect == Spec => []TypeOK
<1>1. IInv => TypeOK
    BY DEF IInv
<1> QED
    BY <1>1, Invariance, PTL

(* The attempts of a request form a chain in which only the last can be     *)
(* alive, through expiry, retry, crash and threads that work side by side.  *)
THEOREM AttemptsFormAChain == Spec => []AttemptChain
<1>1. IInv => AttemptChain
    BY DEF IInv
<1> QED
    BY <1>1, Invariance, PTL

(* No coordinate and no account is reserved, held or consumed twice. *)
THEOREM ReservationsAreExclusive == Spec => []HeldOnce
<1>1. IInv => HeldOnce
    BY DEF IInv
<1> QED
    BY <1>1, Invariance, PTL

(* No two attempts share an account or a coordinate on the host, however    *)
(* late the Root Worker serves a Stage whose reservations have gone.        *)
THEOREM EnvironmentsStayApart == Spec => []EnvironmentsDisjoint
<1>1. IInv => EnvironmentsDisjoint
    BY DEF IInv
<1> QED
    BY <1>1, Invariance, PTL

-----------------------------------------------------------------------------
(* Records and the host, when no client leaves a Stage in the queue *)

(* What a step that stages nothing leaves of the records of an environment. *)
RecordsKept ==
    /\ \A p \in Plan : /\ plan'[p].request = plan[p].request
                       /\ plan'[p].state = "NONE" <=> plan[p].state = "NONE"
                       /\ plan'[p].state = "STAGED" <=> plan[p].state = "STAGED"
    /\ \A r \in Request :
          /\ req'[r].plan = req[r].plan
          /\ req'[r].status = "KEY_ENROLLMENT_PENDING" <=> req[r].status = "KEY_ENROLLMENT_PENDING"
    /\ managed' = managed
StagedKept == \A p \in Plan : plan[p].state = "STAGED" /\ host[p] = "STAGED" => host'[p] = "STAGED"
QuietKept == \A p \in Plan : Quiet(p) => Quiet(p)'
WaitersKept ==
    \A k \in Caller : call[k].pc = "at_worker"
        => call'[k].pc = "at_worker" /\ call'[k].plan = call[k].plan

(* The four statements of which plan is staged are equivalent to what the   *)
(* invariant needs of them. *)
LEMMA RecordsAre ==
    ASSUME IInv, NEW p \in Used
    PROVE  /\ p \in Plan /\ p # None /\ plan[p].request \in Request
           /\ Owner[plan[p].request] \in Account
           /\ (hold[p] = "CONSUMED" <=> plan[p].state = "STAGED")
           /\ (stage[p] = "SUCCEEDED" <=> plan[p].state = "STAGED")
           /\ (req[plan[p].request] = [status |-> "KEY_ENROLLMENT_PENDING", plan |-> p]
                  <=> /\ req[plan[p].request].status = "KEY_ENROLLMENT_PENDING"
                      /\ req[plan[p].request].plan = p)
<1>1. p \in Plan /\ plan[p].request \in Request
    BY DEF Used, IInv, PlanFits
<1>2. p # None
    BY <1>1, IdAssumption DEF Plan
<1>3. Owner[plan[p].request] \in Account
    BY <1>1, IdAssumption
<1>4. req[plan[p].request] \in [status : RequestStatus, plan : Plan \cup {None}]
    BY <1>1 DEF IInv, TypeOK
<1> QED
    BY <1>1, <1>2, <1>3, <1>4 DEF IInv, PlanFits

LEMMA RecordsStay ==
    ASSUME IInv, IInv', SInv, RecordsKept, StagedKept
    PROVE  ManagedFits' /\ RecordedEnvironment'
<1>1. Used' = Used /\ Used \subseteq Plan
    BY DEF RecordsKept, Used
<1>2. ManagedFits'
    BY <1>1 DEF SInv, ManagedFits, RecordsKept, AccountOf
<1>3. ASSUME NEW p \in Used'
      PROVE  /\ managed'[Owner[plan'[p].request]] = p <=> plan'[p].state = "STAGED"
             /\ managed'[Owner[plan'[p].request]] = p <=> hold'[p] = "CONSUMED"
             /\ managed'[Owner[plan'[p].request]] = p
                   <=> req'[plan'[p].request] = [status |-> "KEY_ENROLLMENT_PENDING", plan |-> p]
             /\ managed'[Owner[plan'[p].request]] = p
                   => host'[p] = "STAGED" /\ stage'[p] = "SUCCEEDED"
    <2>1. p \in Used /\ p \in Plan /\ plan[p].request \in Request
          /\ plan'[p].request = plan[p].request
        BY <1>1, <1>3, RecordsAre DEF RecordsKept
    <2>2. /\ managed[Owner[plan[p].request]] = p <=> plan[p].state = "STAGED"
          /\ managed[Owner[plan[p].request]] = p
                => req[plan[p].request] = [status |-> "KEY_ENROLLMENT_PENDING", plan |-> p]
          /\ req[plan[p].request] = [status |-> "KEY_ENROLLMENT_PENDING", plan |-> p]
                => managed[Owner[plan[p].request]] = p
          /\ managed[Owner[plan[p].request]] = p => host[p] = "STAGED"
        BY <2>1 DEF SInv, RecordedEnvironment, AccountOf
    <2>3. /\ (req[plan[p].request] = [status |-> "KEY_ENROLLMENT_PENDING", plan |-> p]
                  <=> /\ req[plan[p].request].status = "KEY_ENROLLMENT_PENDING"
                      /\ req[plan[p].request].plan = p)
        BY <2>1, RecordsAre
    <2>4. PlanFits(p)' /\ req'[plan[p].request] \in [status : RequestStatus, plan : Plan \cup {None}]
        BY <2>1 DEF IInv, TypeOK
    <2> QED
        BY <2>1, <2>2, <2>3, <2>4 DEF PlanFits, RecordsKept, StagedKept
<1> QED
    BY <1>2, <1>3 DEF RecordedEnvironment, AccountOf

LEMMA RequestsStayOne ==
    ASSUME SInv, \A r \in Request : req'[r].status \in NotClosed => req[r].status \in NotClosed
    PROVE  OneRequest'
BY DEF SInv, OneRequest

LEMMA QuietStays ==
    ASSUME IInv, SInv, RecordsKept, QuietKept,
           \A p \in Plan : rollback'[p] = "ROLLED_BACK" => rollback[p] = "ROLLED_BACK"
    PROVE  OthersAreQuiet' /\ RolledBackIsClean'
<1>1. Used' = Used /\ Used \subseteq Plan
    BY DEF RecordsKept, Used
<1>2. RolledBackIsClean'
    BY <1>1 DEF SInv, RolledBackIsClean, QuietKept, Quiet
<1>3. ASSUME NEW p \in Used, p # req'[plan'[p].request].plan
      PROVE  Quiet(p)'
    <2>1. plan'[p].request = plan[p].request
        BY <1>1 DEF RecordsKept
    <2>2. plan[p].request \in Request
        BY RecordsAre
    <2> QED
        BY <1>1, <1>3, <2>1, <2>2 DEF SInv, OthersAreQuiet, QuietKept, RecordsKept
<1> QED
    BY <1>1, <1>2, <1>3 DEF OthersAreQuiet

(* Steps of the API that leave the Stages alone. *)
LEMMA ApiStepSettles ==
    ASSUME IInv, IInv', SInv, RecordsKept, WaitersKept, OneRequest',
           UNCHANGED <<stage, rollback, worker, host>>
    PROVE  SInv'
<1>1. QuietKept /\ StagedKept
    BY DEF QuietKept, StagedKept, Quiet
<1>2. ASSUME NEW p \in Plan PROVE SettledPlan(p)'
    BY DEF SInv, SettledPlan, Awaited, WaitersKept
<1> QED
    BY <1>1, <1>2, RecordsStay, QuietStays DEF SInv

(* Steps of the Root Worker, of the host, and the crash of the API. *)
LEMMA WorkerStepSettles ==
    ASSUME IInv, IInv', SInv, UNCHANGED rows, QuietKept, StagedKept,
           \A p \in Plan : SettledPlan(p)'
    PROVE  SInv'
<1>1. RecordsKept /\ OneRequest'
    BY DEF RecordsKept, rows, SInv, OneRequest
<1> QED
    BY <1>1, RecordsStay, QuietStays DEF SInv, rows

LEMMA UserSettles ==
    ASSUME IInv, IInv', SInv, NEW r \in Request,
           Submit(r) \/ Cancel(r) \/ Reject(r) \/ ReviewApprove(r)
    PROVE  SInv'
<1>1. PICK s \in {"REQUESTED", "CANCELLED", "REJECTED", "APPROVED"} :
          /\ req[r].status \in {"NONE", "REQUESTED"}
          /\ req' = [req EXCEPT ![r].status = s]
    BY DEF Submit, Cancel, Reject, ReviewApprove, Review
<1>2. UNCHANGED <<plan, hold, stage, rollback, managed, call, worker, host>>
    BY DEF Submit, Cancel, Reject, ReviewApprove, Review
<1>3. req \in [Request -> [status : RequestStatus, plan : Plan \cup {None}]]
    BY DEF IInv, TypeOK
<1>4. RecordsKept /\ WaitersKept
    BY <1>1, <1>2, <1>3 DEF RecordsKept, WaitersKept
<1>5. OneRequest'
    <2>1. CASE req[r].status = "REQUESTED"
        BY <1>1, <1>3, <2>1, RequestsStayOne DEF NotClosed, Open
    <2>2. CASE req[r].status = "NONE"
        <3>1. Submit(r)
            BY <2>2 DEF Cancel, Reject, ReviewApprove, Review
        <3>2. ASSUME NEW t \in Request, t # r, Owner[t] = Owner[r],
                     req[t].status \in NotClosed
              PROVE  FALSE
            <4>1. req[t].status = "KEY_ENROLLMENT_PENDING" /\ managed[Owner[t]] = None
                BY <3>1, <3>2 DEF Submit, NotClosed
            <4>2. PICK p \in Used : p = req[t].plan /\ plan[p].request = t
                BY <4>1 DEF IInv, RequestFits
            <4>3. managed[Owner[t]] = p
                <5>1. req[plan[p].request] = [status |-> "KEY_ENROLLMENT_PENDING", plan |-> p]
                    BY <4>1, <4>2, RecordsAre
                <5>2. RecordedEnvironment
                    BY DEF SInv
                <5>3. managed[AccountOf(p)] = p
                    BY <4>2, <5>1, <5>2 DEF RecordedEnvironment
                <5> QED
                    BY <4>2, <5>3 DEF AccountOf
            <4> QED
                BY <4>1, <4>2, <4>3, RecordsAre
        <3> QED
            BY <1>1, <1>3, <3>2 DEF SInv, OneRequest
    <2> QED
        BY <1>1, <2>1, <2>2
<1> QED
    BY <1>2, <1>4, <1>5, ApiStepSettles

LEMMA ReviewSettles ==
    ASSUME IInv, IInv', SInv, NEW r \in Request,
           \/ AuthorizeRetry(r)
           \/ \E k \in Caller : ApproveAndProvision(k, r) \/ RetryProvision(k, r)
    PROVE  SInv'
<1>1. PICK s \in {"APPROVED", "RETRY_AUTHORIZED"} :
          /\ req[r].status \in {"REQUESTED", "FAILED"}
          /\ req' = [req EXCEPT ![r].status = s]
    BY DEF AuthorizeRetry, ApproveAndProvision, RetryProvision, Start
<1>2. UNCHANGED <<plan, hold, stage, rollback, managed, worker, host>>
    BY DEF AuthorizeRetry, ApproveAndProvision, RetryProvision, Start
<1>3. req \in [Request -> [status : RequestStatus, plan : Plan \cup {None}]]
      /\ call \in CallRows
    BY DEF IInv, TypeOK, CallRows
<1>4. RecordsKept
    BY <1>1, <1>2, <1>3 DEF RecordsKept
<1>5. OneRequest'
    BY <1>1, <1>3, RequestsStayOne DEF NotClosed, Open
<1>6. WaitersKept
    <2>1. CASE AuthorizeRetry(r)
        BY <1>3, <2>1, TouchKeeps DEF AuthorizeRetry, WaitersKept
    <2>2. ASSUME NEW k \in Caller, ApproveAndProvision(k, r) \/ RetryProvision(k, r)
          PROVE  WaitersKept
        <3>1. call[k].pc = "idle" /\ call' = [call EXCEPT ![k] = call'[k]]
            BY <1>3, <2>2 DEF ApproveAndProvision, RetryProvision, Start, CallRows
        <3> QED
            BY <1>3, <3>1 DEF WaitersKept, CallRows
    <2> QED
        BY <2>1, <2>2
<1> QED
    BY <1>2, <1>4, <1>5, <1>6, ApiStepSettles

(* A thread that does not wait for a Stage, and a reservation that lapses. *)
LEMMA ThreadSettles ==
    ASSUME IInv, IInv', SInv, UNCHANGED <<req, plan, stage, rollback, managed, worker, host>>,
           \/ call' = call
           \/ \E k \in Caller : call[k].pc # "at_worker" /\ call' = [call EXCEPT ![k] = call'[k]]
    PROVE  SInv'
<1>1. RecordsKept /\ OneRequest'
    BY DEF RecordsKept, SInv, OneRequest
<1>2. call \in CallRows
    BY DEF IInv, TypeOK, CallRows
<1>3. WaitersKept
    BY <1>2 DEF WaitersKept, CallRows
<1> QED
    BY <1>1, <1>3, ApiStepSettles

LEMMA QuietStepSettles ==
    ASSUME IInv, IInv', SInv,
           \/ \E k \in Caller : \/ StepFails(k) \/ OrchestrationSucceeds(k)
                                \/ \E r \in Request : Replay(k, r)
           \/ \E p \in Plan : Lapse(p)
    PROVE  SInv'
<1>0. call \in CallRows
    BY DEF IInv, TypeOK, CallRows
<1>1. UNCHANGED <<req, plan, stage, rollback, managed, worker, host>>
    BY DEF StepFails, OrchestrationSucceeds, Replay, Lapse, rows
<1>2. CASE \E p \in Plan : Lapse(p)
    BY <1>1, <1>2, ThreadSettles DEF Lapse
<1>3. ASSUME NEW k \in Caller,
             StepFails(k) \/ OrchestrationSucceeds(k) \/ \E r \in Request : Replay(k, r)
      PROVE  call[k].pc # "at_worker" /\ call' = [call EXCEPT ![k] = call'[k]]
    BY <1>0, <1>3 DEF StepFails, OrchestrationSucceeds, Replay, Goto, CallRows
<1> QED
    BY <1>1, <1>2, <1>3, ThreadSettles

LEMMA DryRunSettles ==
    ASSUME IInv, IInv', SInv, NEW r \in Request,
           DryRun(r) \/ \E k \in Caller : call[k].request = r /\ OrchestratedDryRun(k)
    PROVE  SInv'
<1>1. Checked(r)
    <2>1. Reserved(r) \/ Replayable(r)
        BY DEF DryRun, DryRunPasses, DryRunConflict, OrchestratedDryRun, DryRunStep
    <2> QED
        BY <2>1, ReservedIsCurrent DEF Checked, DryRun, OrchestratedDryRun, Ready, DryRunConflict
<1>2. plan \in [Plan -> [state : PlanState, request : Request \cup {None},
                          attempt : Nat, prev : Plan \cup {None},
                          coord : Coord \cup {None}, evidence : BOOLEAN]]
      /\ call \in CallRows
    BY DEF IInv, TypeOK, CallRows
<1>3. UNCHANGED <<req, stage, rollback, managed, worker, host>>
    BY DEF DryRun, OrchestratedDryRun
<1>4. RecordsKept
    BY <1>1, <1>2, <1>3 DEF Checked, RecordsKept, Unstarted
<1>5. OneRequest'
    BY <1>3 DEF SInv, OneRequest
<1>6. WaitersKept
    BY <1>2 DEF WaitersKept, DryRun, OrchestratedDryRun, Goto, CallRows
<1> QED
    BY <1>3, <1>4, <1>5, <1>6, ApiStepSettles

LEMMA OrchestrationFailsSettles ==
    ASSUME IInv, IInv', SInv, NEW k \in Caller, OrchestrationFails(k)
    PROVE  SInv'
<1>1. PICK r \in Request : r = call[k].request
    BY DEF OrchestrationFails, IInv, ThreadFits
<1>2. /\ req[r].status \in NotClosed
      /\ call \in CallRows
      /\ req \in [Request -> [status : RequestStatus, plan : Plan \cup {None}]]
      /\ plan \in [Plan -> [state : PlanState, request : Request \cup {None},
                          attempt : Nat, prev : Plan \cup {None},
                          coord : Coord \cup {None}, evidence : BOOLEAN]]
    BY <1>1 DEF OrchestrationFails, IInv, ThreadFits, TypeOK, Unapproved, NotClosed,
                RequestStatus, CallRows
<1>3. UNCHANGED <<stage, rollback, managed, worker, host>> /\ call[k].pc = "fail"
    BY DEF OrchestrationFails
<1>4. PICK calls : /\ calls = [call EXCEPT ![k] = Idle]
                   /\ \/ call' = calls
                      \/ \E R : call' = Touch(calls, k, R)
    BY DEF OrchestrationFails
<1>5. WaitersKept
    <2>1. calls \in CallRows /\ \A j \in Caller : j # k => calls[j] = call[j]
        BY <1>2, <1>4, IdleIsACall DEF CallRows
    <2>2. CASE call' = calls
        BY <1>3, <2>1, <2>2 DEF WaitersKept
    <2>3. ASSUME NEW R, call' = Touch(calls, k, R) PROVE WaitersKept
        <3>1. \A j \in Caller : call'[j].pc = calls[j].pc /\ call'[j].plan = calls[j].plan
            BY <2>1, <2>3, TouchKeeps
        <3> QED
            BY <1>3, <2>1, <3>1 DEF WaitersKept
    <2> QED
        BY <1>4, <2>2, <2>3
<1>6. req' = req \/ /\ req' = [req EXCEPT ![r].status = "FAILED"]
                    /\ req[r].status # "KEY_ENROLLMENT_PENDING"
    BY <1>1 DEF OrchestrationFails, FailUnlessDone
<1>7. \/ plan' = plan
      \/ \E p \in Plan : plan[p].state \in Unstarted /\ plan' = [plan EXCEPT ![p].state = "FAILED"]
    <2>1. req[r].plan \in Plan \cup {None}
        BY <1>2
    <2> QED
        BY <1>1, <2>1 DEF OrchestrationFails
<1>8. RecordsKept
    <2>1. \A p \in Plan : /\ plan'[p].request = plan[p].request
                          /\ plan'[p].state = "NONE" <=> plan[p].state = "NONE"
                          /\ plan'[p].state = "STAGED" <=> plan[p].state = "STAGED"
        BY <1>2, <1>7 DEF Unstarted
    <2> QED
        BY <1>2, <1>3, <1>6, <2>1 DEF RecordsKept
<1>9. OneRequest'
    <2>1. \A t \in Request : req'[t].status = req[t].status \/ t = r
        BY <1>2, <1>6
    <2> QED
        BY <1>2, <2>1, RequestsStayOne
<1> QED
    BY <1>3, <1>5, <1>8, <1>9, ApiStepSettles

(* What a new attempt is made from has left nothing behind. *)
LEMMA PredecessorIsQuiet ==
    ASSUME IInv, SInv, NEW r \in Request, NEW n, Startable(r, n), req[r].plan # None
    PROVE  Quiet(req[r].plan)
<1>1. PICK p \in Used : p = req[r].plan /\ p \in Plan
    BY DEF IInv, RequestFits, Used
<1>2. stage[p] = "NONE" => Quiet(p)
    BY <1>1 DEF IInv, PlanFits, Quiet
<1>3. stage[p] \in {"NONE", "RUNNING", "FAILED", "SUCCEEDED"}
    BY <1>1 DEF IInv, TypeOK
<1>4. CASE PlanX[p].state = "EXPIRED"
    <2>1. plan[p].state \in Unstarted \cup {"EXPIRED"}
        BY <1>1, <1>4, ExpiryIs
    <2>2. stage[p] = "NONE"
        BY <1>1, <1>3, <2>1 DEF IInv, PlanFits, Unstarted
    <2> QED
        BY <1>1, <1>2, <2>2
<1>5. CASE RetryableAttempt(r)
    <2>1. plan[p].state = "FAILED" /\ Failure(p) \in AttemptClean
        BY <1>1, <1>5 DEF RetryableAttempt
    <2>2. CASE stage[p] = "FAILED"
        <3>1. rollback[p] \in {"NOT_REQUIRED", "ROLLED_BACK"}
            BY <2>1, <2>2 DEF Failure, AttemptClean
        <3>2. rollback[p] = "ROLLED_BACK"
            BY <1>1, <3>1, IdAssumption DEF SInv, SettledPlan
        <3> QED
            BY <1>1, <3>2 DEF SInv, RolledBackIsClean, Quiet
    <2>3. CASE stage[p] # "FAILED"
        BY <1>1, <1>2, <1>3, <2>1, <2>3 DEF IInv, PlanFits
    <2> QED
        BY <1>1, <2>2, <2>3
<1>6. ReqX[r].plan = p
    BY <1>1, ExpiryIs
<1>7. p # None
    BY <1>1, IdAssumption DEF Plan
<1> QED
    BY <1>4, <1>5, <1>6, <1>7 DEF Startable, RolledBackStage

LEMMA NewPlanSettles ==
    ASSUME IInv, IInv', SInv, NEW r \in Request, NEW m, NewPlan(r, m), WaitersKept
    PROVE  SInv'
<1>1. PICK n : n = NextPlan
    OBVIOUS
<1>2. n \in Plan /\ n \notin Used
    BY <1>1, NextIsFree DEF NewPlan, CanPlan
<1>3. /\ plan'[n].state = "RESERVED" /\ plan'[n].request = r /\ hold'[n] = "RESERVED"
      /\ \A q \in Plan : q # n => plan'[q] = PlanX[q] /\ hold'[q] = HoldX[q]
    <2>1. PlanX \in [Plan -> [state : PlanState, request : Request \cup {None},
                          attempt : Nat, prev : Plan \cup {None},
                          coord : Coord \cup {None}, evidence : BOOLEAN]]
          /\ HoldX \in [Plan -> {"NONE", "RESERVED", "RELEASED", "FAILED_HOLD", "CONSUMED"}]
        BY ExpiryIs
    <2>2. PICK c : plan' = [PlanX EXCEPT ![n] =
                       [state |-> "RESERVED", request |-> r, attempt |-> AttemptNumber(r),
                        prev |-> req[r].plan, coord |-> c, evidence |-> FALSE]]
        BY <1>1 DEF NewPlan
    <2>3. hold' = [HoldX EXCEPT ![n] = "RESERVED"]
        BY <1>1 DEF NewPlan
    <2> QED
        BY <1>2, <2>1, <2>2, <2>3
<1>4. /\ req'[r].status = "PROVISION_PLAN_READY" /\ req'[r].plan = n
      /\ \A t \in Request : t # r => req'[t] = ReqX[t]
    <2>1. ReqX \in [Request -> [status : RequestStatus, plan : Plan \cup {None}]]
        BY ExpiryIs
    <2>2. req' = [ReqX EXCEPT ![r] = [status |-> "PROVISION_PLAN_READY", plan |-> n]]
        BY <1>1 DEF NewPlan
    <2> QED
        BY <2>1, <2>2
<1>5. UNCHANGED <<stage, rollback, managed, worker, host>> /\ managed[Owner[r]] = None
      /\ Startable(r, m)
    BY DEF NewPlan, CanPlan, Startable
<1>6. Used' = Used \cup {n}
    <2>1. \A q \in Plan : q # n => (plan'[q].state = "NONE" <=> plan[q].state = "NONE")
        BY <1>3, ExpiryIs DEF Unstarted
    <2> QED
        BY <1>2, <1>3, <2>1 DEF Used
<1>7. \A p \in Plan : SettledPlan(p)'
    BY <1>5 DEF SInv, SettledPlan, Awaited, WaitersKept
<1>8. req[r].status \in {"APPROVED", "RETRY_AUTHORIZED", "PROVISION_PLAN_READY"}
    BY <1>5, ExpiryIs DEF Startable
<1>9. OneRequest'
    <2>1. ASSUME NEW t \in Request, req'[t].status \in NotClosed
          PROVE  req[t].status \in NotClosed
        <3>1. CASE t = r
            BY <1>8, <3>1 DEF NotClosed, Open
        <3>2. CASE t # r
            BY <1>4, <2>1, <3>2, ExpiryIs DEF NotClosed, Open
        <3> QED
            BY <3>1, <3>2
    <2> QED
        BY <2>1, RequestsStayOne
<1>10. n # None
    BY <1>2, IdAssumption DEF Plan
<1>11. \A q \in Used : /\ q \in Plan /\ q # n /\ plan'[q].request = plan[q].request
                       /\ plan[q].request \in Request /\ Owner[plan[q].request] \in Account
                       /\ plan'[q].state = "STAGED" <=> plan[q].state = "STAGED"
    <2>1. ASSUME NEW q \in Used
          PROVE  /\ q \in Plan /\ q # n
                 /\ plan[q].request \in Request /\ Owner[plan[q].request] \in Account
        BY <1>2, RecordsAre
    <2>2. ASSUME NEW q \in Used
          PROVE  /\ plan'[q].request = plan[q].request
                 /\ plan'[q].state = "STAGED" <=> plan[q].state = "STAGED"
        <3>1. plan'[q] = PlanX[q] /\ q \in Plan
            BY <1>3, <2>1
        <3> QED
            BY <3>1, ExpiryIs DEF Unstarted
    <2> QED
        BY <2>1, <2>2
<1>12. ManagedFits'
    BY <1>5, <1>6, <1>11 DEF SInv, ManagedFits, AccountOf
<1>13. OthersAreQuiet'
    <2>1. ASSUME NEW q \in Used, q # req'[plan[q].request].plan PROVE Quiet(q)'
        <3>1. CASE plan[q].request # r
            BY <1>4, <1>5, <1>11, <2>1, <3>1, ExpiryIs DEF SInv, OthersAreQuiet, Quiet
        <3>2. CASE plan[q].request = r
            <4>1. CASE q = req[r].plan
                <5>1. q # None
                    BY RecordsAre
                <5>2. Quiet(q)
                    BY <1>5, <4>1, <5>1, PredecessorIsQuiet
                <5> QED
                    BY <1>5, <5>2 DEF Quiet
            <4>2. CASE q # req[r].plan
                BY <1>5, <3>2, <4>2 DEF SInv, OthersAreQuiet, Quiet
            <4> QED
                BY <4>1, <4>2
        <3> QED
            BY <3>1, <3>2
    <2> QED
        BY <1>3, <1>4, <1>6, <1>11, <2>1 DEF OthersAreQuiet
<1>14. RolledBackIsClean'
    <2>1. stage[n] = "NONE"
        BY <1>2 DEF Used, IInv, PlanFits
    <2>2. rollback[n] # "ROLLED_BACK"
        BY <1>2, <2>1, IdAssumption DEF SInv, SettledPlan
    <2> QED
        BY <1>5, <1>6, <2>2 DEF SInv, RolledBackIsClean
<1>15. RecordedEnvironment'
    <2>1. ASSUME NEW q \in Used'
          PROVE  /\ managed[Owner[plan'[q].request]] = q <=> plan'[q].state = "STAGED"
                 /\ managed[Owner[plan'[q].request]] = q <=> hold'[q] = "CONSUMED"
                 /\ managed[Owner[plan'[q].request]] = q
                      <=> req'[plan'[q].request] = [status |-> "KEY_ENROLLMENT_PENDING", plan |-> q]
                 /\ managed[Owner[plan'[q].request]] = q
                      => host[q] = "STAGED" /\ stage[q] = "SUCCEEDED"
        <3>1. CASE q = n
            BY <1>3, <1>4, <1>5, <1>10, <3>1
        <3>2. CASE q # n
            <4>1. q \in Used
                BY <1>6, <3>2
            <4>2. /\ managed[Owner[plan[q].request]] = q <=> plan[q].state = "STAGED"
                  /\ managed[Owner[plan[q].request]] = q
                        <=> req[plan[q].request] = [status |-> "KEY_ENROLLMENT_PENDING", plan |-> q]
                  /\ managed[Owner[plan[q].request]] = q
                        => host[q] = "STAGED" /\ stage[q] = "SUCCEEDED"
                BY <4>1 DEF SInv, RecordedEnvironment, AccountOf
            <4>3. hold'[q] = "CONSUMED" <=> plan'[q].state = "STAGED"
                BY <1>11, <4>1 DEF IInv, PlanFits
            <4>4. req'[plan[q].request] = [status |-> "KEY_ENROLLMENT_PENDING", plan |-> q]
                    <=> req[plan[q].request] = [status |-> "KEY_ENROLLMENT_PENDING", plan |-> q]
                <5>1. CASE plan[q].request = r
                    BY <1>4, <1>8, <5>1
                <5>2. CASE plan[q].request # r
                    <6>1. req'[plan[q].request] = ReqX[plan[q].request]
                        BY <1>4, <1>11, <4>1, <5>2
                    <6>2. plan[q].request \in Request
                        BY <1>11, <4>1
                    <6>3. ReqX \in [Request -> [status : RequestStatus, plan : Plan \cup {None}]]
                          /\ req \in [Request -> [status : RequestStatus, plan : Plan \cup {None}]]
                        BY ExpiryIs DEF IInv, TypeOK
                    <6>4. /\ ReqX[plan[q].request].plan = req[plan[q].request].plan
                          /\ ReqX[plan[q].request].status = "KEY_ENROLLMENT_PENDING"
                                <=> req[plan[q].request].status = "KEY_ENROLLMENT_PENDING"
                        BY <6>2, ExpiryIs
                    <6> QED
                        BY <6>1, <6>2, <6>3, <6>4
                <5> QED
                    BY <5>1, <5>2
            <4> QED
                BY <1>11, <4>1, <4>2, <4>3, <4>4
        <3> QED
            BY <3>1, <3>2
    <2> QED
        BY <1>5, <2>1 DEF RecordedEnvironment, AccountOf
<1> QED
    BY <1>7, <1>9, <1>12, <1>13, <1>14, <1>15 DEF SInv

LEMMA PlanningSettles ==
    ASSUME IInv, IInv', SInv,
           \/ \E r \in Request : CreatePlan(r)
           \/ \E k \in Caller : OrchestratedPlan(k)
    PROVE  SInv'
<1>0. call \in CallRows
    BY DEF IInv, TypeOK, CallRows
<1>1. ASSUME NEW r \in Request, CreatePlan(r) PROVE SInv'
    <2>1. WaitersKept
        BY <1>0, <1>1, TouchKeeps DEF WaitersKept, CreatePlan
    <2> QED
        BY <1>1, <2>1, NewPlanSettles DEF CreatePlan
<1>2. ASSUME NEW k \in Caller, OrchestratedPlan(k) PROVE SInv'
    <2>1. PICK r \in Request : r = call[k].request
        BY <1>2 DEF OrchestratedPlan, IInv, ThreadFits
    <2>2. WaitersKept
        <3>1. PICK calls, R : calls = [call EXCEPT ![k].pc = "dry_run"] /\ call' = Touch(calls, k, R)
            BY <1>2 DEF OrchestratedPlan, Goto
        <3>2. calls \in CallRows /\ call[k].pc = "plan"
              /\ \A j \in Caller : j # k => calls[j] = call[j]
            BY <1>0, <1>2, <3>1 DEF CallRows, OrchestratedPlan
        <3>3. call' = Touch(calls, k, R)
            BY <3>1
        <3>4. \A j \in Caller : call'[j].pc = calls[j].pc /\ call'[j].plan = calls[j].plan
            BY <3>2, <3>3, TouchKeeps
        <3> QED
            BY <3>2, <3>4 DEF WaitersKept
    <2>3. CASE NewPlan(r, call[k].n)
        BY <2>2, <2>3, NewPlanSettles
    <2>4. CASE ~NewPlan(r, call[k].n)
        <3>1. /\ plan' = PlanX /\ req' = ReqX
              /\ UNCHANGED <<stage, rollback, managed, worker, host>>
            BY <1>2, <2>1, <2>4 DEF OrchestratedPlan
        <3>2. RecordsKept
            BY <3>1, ExpiryIs DEF RecordsKept, Unstarted
        <3>3. OneRequest'
            BY <3>1, ExpiryIs, RequestsStayOne DEF NotClosed, Open
        <3> QED
            BY <2>2, <3>1, <3>2, <3>3, ApiStepSettles
    <2> QED
        BY <2>3, <2>4
<1> QED
    BY <1>1, <1>2

LEMMA BeginStageSettles ==
    ASSUME IInv, IInv', SInv, NEW k \in Caller, NEW r \in Request,
           NEW n \in 0..MaxOrchestrations, call[k].pc # "at_worker", BeginStage(k, r, n)
    PROVE  SInv'
<1>1. PICK p \in Used : p \in Plan /\ p = req[r].plan
    BY ReservedIsCurrent DEF BeginStage, Stageable, Used
<1>2. /\ req' = [req EXCEPT ![r].status = "PROVISIONING"]
      /\ plan' = [plan EXCEPT ![p].state = "PROVISIONING"]
      /\ stage' = [stage EXCEPT ![p] = "RUNNING"]
      /\ worker' = [worker EXCEPT ![p] = "queued"]
      /\ UNCHANGED <<hold, rollback, managed, host>>
    BY <1>1 DEF BeginStage
<1>3. plan[p].state = "READY_FOR_PROVISION" /\ req[r].status = "PROVISION_PLAN_READY"
      /\ plan[p].request = r
    BY <1>1 DEF BeginStage, Stageable, Reserved, IInv, RequestFits
<1>4. /\ req \in [Request -> [status : RequestStatus, plan : Plan \cup {None}]]
      /\ plan \in [Plan -> [state : PlanState, request : Request \cup {None},
                          attempt : Nat, prev : Plan \cup {None},
                          coord : Coord \cup {None}, evidence : BOOLEAN]]
      /\ stage \in [Plan -> {"NONE", "RUNNING", "FAILED", "SUCCEEDED"}]
      /\ worker \in [Plan -> {"none", "queued", "running", "SUCCEEDED", "FAILED", "LOST"}]
      /\ call \in CallRows
    BY DEF IInv, TypeOK, CallRows
<1>5. WaitersKept
    <2> DEFINE next == [pc |-> "at_worker", request |-> r, n |-> n, plan |-> p, stale |-> FALSE]
               calls == [call EXCEPT ![k] = next]
    <2>1. calls \in CallRows /\ \A j \in Caller : j # k => calls[j] = call[j]
        BY <1>1, <1>4 DEF CallRows
    <2>2. call' = Touch(calls, k, {r})
        BY <1>1 DEF BeginStage
    <2> HIDE DEF calls
    <2> QED
        BY <2>1, <2>2, TouchKeeps DEF WaitersKept
<1>6. stage[p] = "NONE"
    BY <1>1, <1>3, <1>4 DEF IInv, PlanFits
<1>7. rollback[p] = None
    BY <1>1, <1>6 DEF SInv, SettledPlan
<1>8. ASSUME NEW q \in Plan PROVE SettledPlan(q)'
    <2>1. CASE q = p
        BY <1>2, <1>4, <1>7, <2>1 DEF SettledPlan
    <2>2. CASE q # p
        BY <1>2, <1>4, <1>5, <2>2 DEF SInv, SettledPlan, Awaited, WaitersKept
    <2> QED
        BY <2>1, <2>2
<1>9. RecordsKept /\ StagedKept
    BY <1>2, <1>3, <1>4 DEF RecordsKept, StagedKept
<1>10. OneRequest'
    BY <1>2, <1>3, <1>4, RequestsStayOne DEF NotClosed, Open
<1>11. Used' = Used /\ Used \subseteq Plan
    BY <1>9 DEF RecordsKept, Used
<1>12. \A q \in Plan : q # p /\ Quiet(q) => Quiet(q)'
    BY <1>2, <1>4 DEF Quiet
<1>13. RolledBackIsClean'
    BY <1>2, <1>7, <1>11, <1>12, IdAssumption DEF SInv, RolledBackIsClean, Quiet
<1>14. OthersAreQuiet'
    <2>1. ASSUME NEW q \in Used, q # req'[plan'[q].request].plan PROVE Quiet(q)'
        <3>1. plan'[q].request = plan[q].request /\ plan[q].request \in Request
              /\ req'[plan[q].request].plan = req[plan[q].request].plan /\ q \in Plan
            BY <1>9, RecordsAre DEF RecordsKept
        <3>2. q # p
            BY <1>1, <1>3, <2>1, <3>1
        <3> QED
            BY <1>12, <2>1, <3>1, <3>2 DEF SInv, OthersAreQuiet
    <2> QED
        BY <1>11, <2>1 DEF OthersAreQuiet
<1> QED
    BY <1>8, <1>9, <1>10, <1>13, <1>14, RecordsStay DEF SInv

LEMMA BeginningSettles ==
    ASSUME IInv, IInv', SInv, NEW k \in Caller,
           OrchestratedStage(k) \/ \E r \in Request : Provision(k, r)
    PROVE  SInv'
<1>1. 0 \in 0..MaxOrchestrations
    BY BoundAssumption
<1>2. CASE OrchestratedStage(k)
    <2>1. call[k].request \in Request /\ call[k].n \in 0..MaxOrchestrations
        BY <1>2 DEF OrchestratedStage, IInv, ThreadFits, TypeOK
    <2> QED
        BY <1>2, <2>1, BeginStageSettles DEF OrchestratedStage
<1>3. CASE \E r \in Request : Provision(k, r)
    BY <1>1, <1>3, BeginStageSettles DEF Provision
<1> QED
    BY <1>2, <1>3

(* The thread that waited records an outcome, with what the verifier found. *)
LEMMA StageEndSettles ==
    ASSUME IInv, IInv', SInv, NEW k \in Caller, NEW p \in Plan,
           call[k].pc = "at_worker", p = call[k].plan,
           NEW w \in {"none", "running"}, worker' = [worker EXCEPT ![p] = w],
           w = "running" => worker[p] = "running",
           \/ \E clean \in BOOLEAN : FailStage(p, clean) /\ (clean => ZeroResidue(p) /\ w = "none")
           \/ Consume(p) /\ hold[p] = "RESERVED" /\ worker[p] = "SUCCEEDED" /\ w = "none"
           \/ UNCHANGED <<req, plan, hold, stage, rollback, managed>>,
           NEW c, call' = After(k, c), UNCHANGED host
    PROVE  SInv'
<1>1. plan[p].state = "PROVISIONING" /\ stage[p] = "RUNNING" /\ p \in Used
    BY DEF IInv, ThreadFits, PlanFits, Used
<1>2. PICK r \in Request : r = plan[p].request
    BY <1>1, RecordsAre
<1>3. req[r].plan = p /\ p # None /\ Owner[r] \in Account
    <2>1. req[r].plan = p
        BY <1>1, <1>2 DEF IInv, AttemptChain, AttemptOver
    <2> QED
        BY <1>1, <1>2, <2>1, RecordsAre
<1>4. req[r].status \in NotClosed
    BY <1>3 DEF IInv, TypeOK, RequestFits, RequestStatus, NotClosed, Unapproved
<1>5. /\ req \in [Request -> [status : RequestStatus, plan : Plan \cup {None}]]
      /\ plan \in [Plan -> [state : PlanState, request : Request \cup {None},
                          attempt : Nat, prev : Plan \cup {None},
                          coord : Coord \cup {None}, evidence : BOOLEAN]]
      /\ stage \in [Plan -> {"NONE", "RUNNING", "FAILED", "SUCCEEDED"}]
      /\ hold \in [Plan -> {"NONE", "RESERVED", "RELEASED", "FAILED_HOLD", "CONSUMED"}]
      /\ rollback \in [Plan -> RollbackStatus]
      /\ managed \in [Account -> Plan \cup {None}]
      /\ worker \in [Plan -> {"none", "queued", "running", "SUCCEEDED", "FAILED", "LOST"}]
      /\ call \in CallRows
    BY DEF IInv, TypeOK, CallRows
<1>6. rollback[p] = None
    BY <1>1 DEF SInv, SettledPlan
<1>7. \A j \in Caller : j # k => call'[j] = call[j]
    BY <1>5 DEF After, CallRows
<1>8. \A j \in Caller : call[j].pc = "at_worker" /\ call[j].plan # p
          => call'[j].pc = "at_worker" /\ call'[j].plan = call[j].plan
    BY <1>7
<1>9. \A q \in Plan : Quiet(q) => Quiet(q)'
    BY <1>5 DEF Quiet
<1>10. ASSUME NEW q \in Plan, q # p,
              stage'[q] = stage[q], rollback'[q] = rollback[q]
       PROVE  SettledPlan(q)'
    <2>1. worker'[q] = worker[q] /\ host'[q] = host[q]
        BY <1>5, <1>10
    <2> QED
        BY <1>8, <1>10, <2>1 DEF SInv, SettledPlan, Awaited
<1>11. CASE UNCHANGED <<req, plan, hold, stage, rollback, managed>>
    <2>1. RecordsKept /\ StagedKept /\ QuietKept
        BY <1>9, <1>11 DEF RecordsKept, StagedKept, QuietKept
    <2>2. OneRequest'
        BY <1>11 DEF SInv, OneRequest
    <2>3. ASSUME NEW q \in Plan PROVE SettledPlan(q)'
        <3>1. CASE q = p
            BY <1>1, <1>5, <1>6, <1>11, <3>1 DEF SettledPlan
        <3>2. CASE q # p
            BY <1>10, <1>11, <3>2
        <3> QED
            BY <3>1, <3>2
    <2> QED
        BY <1>11, <2>1, <2>2, <2>3, RecordsStay, QuietStays DEF SInv
<1>12. ASSUME NEW clean \in BOOLEAN, FailStage(p, clean), clean => ZeroResidue(p) /\ w = "none"
       PROVE  SInv'
    <2>1. PICK b \in {"ROLLED_BACK", "REQUIRES_MANUAL_REVIEW"} :
              /\ rollback' = [rollback EXCEPT ![p] = b]
              /\ b = "ROLLED_BACK" => clean
        BY <1>12 DEF FailStage
    <2>2. /\ stage' = [stage EXCEPT ![p] = "FAILED"]
          /\ req' = [req EXCEPT ![r].status = "FAILED"]
          /\ plan' = [plan EXCEPT ![p].state = "FAILED"]
          /\ managed' = managed
        BY <1>2, <1>12 DEF FailStage
    <2>3. req[r].status # "KEY_ENROLLMENT_PENDING"
        <3> SUFFICES ASSUME req[r].status = "KEY_ENROLLMENT_PENDING" PROVE FALSE
            OBVIOUS
        <3>1. req[plan[p].request] = [status |-> "KEY_ENROLLMENT_PENDING", plan |-> p]
            BY <1>1, <1>2, <1>3, RecordsAre
        <3>2. RecordedEnvironment
            BY DEF SInv
        <3>3. plan[p].state = "STAGED"
            BY <1>1, <3>1, <3>2 DEF RecordedEnvironment
        <3> QED
            BY <1>1, <3>3
    <2>4. RecordsKept /\ StagedKept
        BY <1>1, <1>5, <2>2, <2>3 DEF RecordsKept, StagedKept
    <2>5. OneRequest'
        <3>1. \A t \in Request : req'[t].status = req[t].status \/ t = r
            BY <1>5, <2>2
        <3> QED
            BY <1>4, <3>1, RequestsStayOne
    <2>6. ASSUME NEW q \in Plan PROVE SettledPlan(q)'
        <3>1. CASE q = p
            BY <1>5, <2>1, <2>2, <3>1, IdAssumption DEF SettledPlan
        <3>2. CASE q # p
            BY <1>5, <1>10, <2>1, <2>2, <3>2
        <3> QED
            BY <3>1, <3>2
    <2>7. Used' = Used /\ Used \subseteq Plan
        BY <2>4 DEF RecordsKept, Used
    <2>8. b = "ROLLED_BACK" => Quiet(p)'
        <3>1. ASSUME clean PROVE host[p] = "ABSENT" /\ w = "none"
            BY <1>1, <1>12, <3>1 DEF ZeroResidue, HostClean
        <3> QED
            BY <1>5, <2>1, <3>1 DEF Quiet
    <2>9. RolledBackIsClean'
        <3>1. ASSUME NEW q \in Used, rollback'[q] = "ROLLED_BACK" PROVE Quiet(q)'
            <4>1. CASE q = p
                BY <1>5, <2>1, <2>8, <3>1, <4>1
            <4>2. CASE q # p
                BY <1>5, <1>9, <2>1, <2>7, <3>1, <4>2 DEF SInv, RolledBackIsClean, Quiet
            <4> QED
                BY <4>1, <4>2
        <3> QED
            BY <2>7, <3>1 DEF RolledBackIsClean, Quiet
    <2>10. OthersAreQuiet'
        <3>1. ASSUME NEW q \in Used, q # req'[plan'[q].request].plan PROVE Quiet(q)'
            <4>1. q \in Plan /\ plan'[q].request = plan[q].request /\ plan[q].request \in Request
                  /\ req'[plan[q].request].plan = req[plan[q].request].plan
                <5>1. q \in Plan /\ plan[q].request \in Request
                    BY RecordsAre
                <5> QED
                    BY <2>4, <5>1 DEF RecordsKept
            <4> QED
                BY <1>9, <3>1, <4>1 DEF SInv, OthersAreQuiet
        <3> QED
            BY <2>7, <3>1 DEF OthersAreQuiet
    <2> QED
        BY <2>4, <2>5, <2>6, <2>9, <2>10, RecordsStay DEF SInv
<1>13. CASE Consume(p) /\ hold[p] = "RESERVED" /\ worker[p] = "SUCCEEDED" /\ w = "none"
    <2>1. /\ stage' = [stage EXCEPT ![p] = "SUCCEEDED"]
          /\ req' = [req EXCEPT ![r].status = "KEY_ENROLLMENT_PENDING"]
          /\ plan' = [plan EXCEPT ![p].state = "STAGED"]
          /\ hold' = [hold EXCEPT ![p] = "CONSUMED"]
          /\ managed' = [managed EXCEPT ![Owner[r]] = p]
          /\ rollback' = rollback
        BY <1>2, <1>13 DEF Consume, AccountOf
    <2>2. /\ \A q \in Plan : /\ plan'[q].request = plan[q].request
                             /\ plan'[q].state = IF q = p THEN "STAGED" ELSE plan[q].state
          /\ \A t \in Request : /\ req'[t].plan = req[t].plan
                                /\ t # r => req'[t] = req[t]
          /\ req'[r].status = "KEY_ENROLLMENT_PENDING"
        BY <1>5, <2>1
    <2>3. Used' = Used /\ Used \subseteq Plan
        BY <1>1, <2>2 DEF Used
    <2>4. ASSUME NEW q \in Plan PROVE SettledPlan(q)'
        <3>1. CASE q = p
            BY <1>5, <1>6, <1>13, <2>1, <3>1 DEF SettledPlan
        <3>2. CASE q # p
            BY <1>5, <1>10, <2>1, <3>2
        <3> QED
            BY <3>1, <3>2
    <2>5. OneRequest'
        <3>1. \A t \in Request : req'[t].status = req[t].status \/ t = r
            BY <2>2
        <3> QED
            BY <1>4, <3>1, RequestsStayOne
    <2>6. OthersAreQuiet' /\ RolledBackIsClean'
        <3>1. ASSUME NEW q \in Used, q # req'[plan'[q].request].plan PROVE Quiet(q)'
            <4>1. q \in Plan /\ plan'[q].request = plan[q].request /\ plan[q].request \in Request
                  /\ req'[plan[q].request].plan = req[plan[q].request].plan
                <5>1. q \in Plan /\ plan[q].request \in Request
                    BY RecordsAre
                <5> QED
                    BY <2>2, <5>1
            <4> QED
                BY <1>9, <3>1, <4>1 DEF SInv, OthersAreQuiet
        <3>2. RolledBackIsClean'
            BY <1>9, <2>1, <2>3 DEF SInv, RolledBackIsClean, Quiet
        <3> QED
            BY <2>3, <3>1, <3>2 DEF OthersAreQuiet
    <2>7. ManagedFits'
        <3>1. managed'[Owner[r]] = p /\ \A a \in Account : a # Owner[r] => managed'[a] = managed[a]
            BY <1>3, <1>5, <2>1
        <3>2. ASSUME NEW a \in Account, managed'[a] # None
              PROVE  managed'[a] \in Used' /\ Owner[plan'[managed'[a]].request] = a
            <4>1. CASE a = Owner[r]
                BY <1>1, <1>2, <2>2, <2>3, <3>1, <4>1
            <4>2. CASE a # Owner[r]
                <5>1. PICK q \in Used : q = managed[a] /\ Owner[plan[q].request] = a
                    BY <3>1, <3>2, <4>2 DEF SInv, ManagedFits, AccountOf
                <5> QED
                    BY <2>2, <2>3, <3>1, <4>2, <5>1
            <4> QED
                BY <4>1, <4>2
        <3> QED
            BY <3>2 DEF ManagedFits, AccountOf
    <2>8. RecordedEnvironment'
        <3>1. ASSUME NEW q \in Used
              PROVE  /\ managed'[Owner[plan[q].request]] = q <=> plan'[q].state = "STAGED"
                     /\ managed'[Owner[plan[q].request]] = q <=> hold'[q] = "CONSUMED"
                     /\ managed'[Owner[plan[q].request]] = q
                          <=> req'[plan[q].request] =
                                 [status |-> "KEY_ENROLLMENT_PENDING", plan |-> q]
                     /\ managed'[Owner[plan[q].request]] = q
                          => host'[q] = "STAGED" /\ stage'[q] = "SUCCEEDED"
            <4>1. CASE q = p
                <5>1. host[p] = "STAGED"
                    BY <1>13 DEF SInv, SettledPlan
                <5>2. req'[r] = [status |-> "KEY_ENROLLMENT_PENDING", plan |-> p]
                    BY <1>3, <1>5, <2>1
                <5>3. managed'[Owner[r]] = p /\ hold'[p] = "CONSUMED" /\ stage'[p] = "SUCCEEDED"
                      /\ host'[p] = "STAGED" /\ plan'[p].state = "STAGED"
                    BY <1>3, <1>5, <2>1, <2>2, <5>1
                <5> QED
                    BY <1>2, <4>1, <5>2, <5>3
            <4>2. CASE q # p
                <5>1. q \in Plan /\ plan[q].request \in Request /\ Owner[plan[q].request] \in Account
                      /\ (hold[q] = "CONSUMED" <=> plan[q].state = "STAGED")
                    BY RecordsAre
                <5>2. /\ managed[Owner[plan[q].request]] = q <=> plan[q].state = "STAGED"
                      /\ managed[Owner[plan[q].request]] = q <=> hold[q] = "CONSUMED"
                      /\ managed[Owner[plan[q].request]] = q
                          <=> req[plan[q].request] =
                                 [status |-> "KEY_ENROLLMENT_PENDING", plan |-> q]
                      /\ managed[Owner[plan[q].request]] = q
                          => host[q] = "STAGED" /\ stage[q] = "SUCCEEDED"
                    BY DEF SInv, RecordedEnvironment, AccountOf
                <5>3. stage'[q] = stage[q] /\ hold'[q] = hold[q] /\ plan'[q].state = plan[q].state
                    BY <1>5, <2>1, <2>2, <4>2, <5>1
                <5>4. CASE Owner[plan[q].request] = Owner[r]
                    <6>1. hold[q] # "CONSUMED"
                        BY <1>1, <1>2, <1>13, <4>2, <5>4 DEF IInv, HeldOnce, Claims, AccountOf
                    <6>2. managed'[Owner[plan[q].request]] # q
                        BY <1>3, <1>5, <2>1, <4>2, <5>4
                    <6>3. req'[plan[q].request] # [status |-> "KEY_ENROLLMENT_PENDING", plan |-> q]
                        <7>1. CASE plan[q].request = r
                            BY <1>3, <2>2, <4>2, <7>1
                        <7>2. CASE plan[q].request # r
                            BY <2>2, <5>1, <5>2, <6>1, <7>2
                        <7> QED
                            BY <7>1, <7>2
                    <6> QED
                        BY <5>1, <5>2, <5>3, <6>1, <6>2, <6>3
                <5>5. CASE Owner[plan[q].request] # Owner[r]
                    <6>1. managed'[Owner[plan[q].request]] = managed[Owner[plan[q].request]]
                        BY <1>3, <1>5, <2>1, <5>1, <5>5
                    <6>2. req'[plan[q].request] = req[plan[q].request]
                        BY <2>2, <5>1, <5>5
                    <6> QED
                        BY <5>2, <5>3, <6>1, <6>2
                <5> QED
                    BY <5>4, <5>5
            <4> QED
                BY <4>1, <4>2
        <3>2. \A q \in Used : plan'[q].request = plan[q].request
            BY <2>2, <2>3
        <3>3. ASSUME NEW q \in Used'
              PROVE  /\ managed'[Owner[plan'[q].request]] = q <=> plan'[q].state = "STAGED"
                     /\ managed'[Owner[plan'[q].request]] = q <=> hold'[q] = "CONSUMED"
                     /\ managed'[Owner[plan'[q].request]] = q
                          <=> req'[plan'[q].request] =
                                 [status |-> "KEY_ENROLLMENT_PENDING", plan |-> q]
                     /\ managed'[Owner[plan'[q].request]] = q
                          => host'[q] = "STAGED" /\ stage'[q] = "SUCCEEDED"
            <4>1. q \in Used /\ plan'[q].request = plan[q].request
                BY <2>3, <3>2, <3>3
            <4> QED
                BY <3>1, <4>1
        <3> QED
            BY <3>3 DEF RecordedEnvironment, AccountOf
    <2> QED
        BY <2>4, <2>5, <2>6, <2>7, <2>8 DEF SInv
<1> QED
    BY <1>11, <1>12, <1>13

LEMMA AnswerSettles ==
    ASSUME IInv, IInv', SInv, MaxQueuedTimeouts = 0, NEW k \in Caller,
           StageAnswer(k) \/ StageUnanswered(k)
    PROVE  SInv'
<1>1. PICK p \in Plan : p = call[k].plan /\ call[k].pc = "at_worker"
    BY DEF StageAnswer, StageUnanswered, IInv, ThreadFits
<1>2. worker \in [Plan -> {"none", "queued", "running", "SUCCEEDED", "FAILED", "LOST"}]
    BY DEF IInv, TypeOK
<1>3. CASE StageAnswer(k)
    <2>1. PICK c : call' = After(k, c)
        BY <1>3 DEF StageAnswer
    <2>2. worker' = [worker EXCEPT ![p] = "none"] /\ host' = host
        BY <1>1, <1>3 DEF StageAnswer
    <2>3. \/ \E clean \in BOOLEAN : FailStage(p, clean) /\ (clean => ZeroResidue(p))
          \/ Consume(p) /\ hold[p] = "RESERVED" /\ worker[p] = "SUCCEEDED"
          \/ UNCHANGED <<req, plan, hold, stage, rollback, managed>>
        <3>1. CASE \E clean \in BOOLEAN : VerifyAnswer(p, clean) /\ FailStage(p, clean)
            BY <3>1 DEF VerifyAnswer
        <3>2. CASE FailStage(p, FALSE)
            BY <3>2
        <3> QED
            BY <1>1, <1>3, <3>1, <3>2 DEF StageAnswer
    <2> QED
        BY <1>1, <2>1, <2>2, <2>3, StageEndSettles
<1>4. CASE StageUnanswered(k)
    <2>1. call' = After(k, "fail") /\ host' = host
        BY <1>4 DEF StageUnanswered
    <2>2. PICK clean \in BOOLEAN :
              /\ FailStage(p, clean)
              /\ CASE worker[p] = "LOST" -> VerifyAnswer(p, clean)
                   [] worker[p] = "queued" -> /\ spent.queued < MaxQueuedTimeouts
                                              /\ spent' = [spent EXCEPT !.queued = @ + 1]
                                              /\ clean => ZeroResidue(p)
                   [] OTHER -> Fault /\ (clean => ZeroResidue(p))
        BY <1>1, <1>4 DEF StageUnanswered
    <2>3. worker' = [worker EXCEPT ![p] = IF @ \in {"queued", "running"} THEN @ ELSE "none"]
        BY <1>1, <1>4 DEF StageUnanswered
    <2>4. worker[p] # "queued"
        <3>1. spent.queued \in Nat /\ ~(spent.queued < MaxQueuedTimeouts)
            BY DEF IInv, TypeOK
        <3> QED
            BY <2>2, <3>1
    <2>5. clean => ZeroResidue(p)
        <3>1. CASE worker[p] = "LOST"
            BY <2>2, <3>1 DEF VerifyAnswer
        <3>2. CASE worker[p] # "LOST"
            BY <2>2, <2>4, <3>2
        <3> QED
            BY <3>1, <3>2
    <2>6. clean => worker[p] # "running"
        BY <2>5 DEF ZeroResidue, LockFree
    <2>7. CASE worker[p] = "running"
        <3>1. worker' = [worker EXCEPT ![p] = "running"]
            BY <2>3, <2>7
        <3> QED
            BY <1>1, <2>1, <2>2, <2>6, <2>7, <3>1, StageEndSettles
    <2>8. CASE worker[p] # "running"
        <3>1. worker' = [worker EXCEPT ![p] = "none"]
            BY <2>3, <2>4, <2>8
        <3> QED
            BY <1>1, <2>1, <2>2, <2>5, <3>1, StageEndSettles
    <2> QED
        BY <2>7, <2>8
<1> QED
    BY <1>3, <1>4

LEMMA ReconcileSettles ==
    ASSUME IInv, IInv', SInv, NEW p \in Plan, Reconcile(p)
    PROVE  SInv'
<1>1. /\ p \in Used /\ hold[p] = "FAILED_HOLD" /\ stage[p] = "FAILED" /\ ZeroResidue(p)
      /\ rollback' = [rollback EXCEPT ![p] = "ROLLED_BACK"]
      /\ UNCHANGED <<req, plan, stage, managed, call, worker, host>>
    BY DEF Reconcile
<1>2. rollback \in [Plan -> RollbackStatus]
    BY DEF IInv, TypeOK
<1>3. RecordsKept /\ StagedKept /\ QuietKept
    BY <1>1 DEF RecordsKept, StagedKept, QuietKept, Quiet
<1>4. OneRequest'
    BY <1>1 DEF SInv, OneRequest
<1>5. Quiet(p)
    <2>1. host[p] = "ABSENT"
        BY <1>1 DEF ZeroResidue, HostClean
    <2>2. worker[p] # "running" /\ worker[p] # "queued"
        BY <1>1 DEF ZeroResidue, LockFree, SInv, SettledPlan
    <2> QED
        BY <2>1, <2>2 DEF Quiet
<1>6. ASSUME NEW q \in Plan PROVE SettledPlan(q)'
    <2>1. CASE q = p
        BY <1>1, <1>2, <2>1, IdAssumption DEF SInv, SettledPlan, Awaited
    <2>2. CASE q # p
        BY <1>1, <1>2, <2>2 DEF SInv, SettledPlan, Awaited
    <2> QED
        BY <2>1, <2>2
<1>7. OthersAreQuiet'
    BY <1>1 DEF SInv, OthersAreQuiet, Used, Quiet
<1>8. RolledBackIsClean'
    BY <1>1, <1>2, <1>5 DEF SInv, RolledBackIsClean, Used, Quiet
<1> QED
    BY <1>3, <1>4, <1>6, <1>7, <1>8, RecordsStay DEF SInv

-----------------------------------------------------------------------------
(* The Root Worker, the host and the crash of the API *)

(* What two attempts of one account have on the host or on the way is one. *)
LEMMA OneAtATime ==
    ASSUME IInv, SInv, NEW p \in Used, NEW q \in Used, AccountOf(p) = AccountOf(q),
           ~Quiet(p), ~Quiet(q)
    PROVE  p = q
<1>1. /\ plan[p].request \in Request /\ plan[q].request \in Request
      /\ p # None /\ q # None
    BY RecordsAre
<1>2. req[plan[p].request].plan = p /\ req[plan[q].request].plan = q
    BY DEF SInv, OthersAreQuiet
<1>3. \A r \in Request : req[r].plan # None => req[r].status \in NotClosed
    BY DEF IInv, TypeOK, RequestFits, RequestStatus, NotClosed, Unapproved
<1>4. plan[p].request = plan[q].request
    BY <1>1, <1>2, <1>3 DEF SInv, OneRequest, AccountOf
<1> QED
    BY <1>2, <1>4

LEMMA WorkerTakeSettles ==
    ASSUME IInv, IInv', SInv, NEW p \in Plan, WorkerTake(p)
    PROVE  SInv'
<1>1. worker[p] = "queued" /\ worker' = [worker EXCEPT ![p] = "running"]
      /\ UNCHANGED <<rows, call, host>>
    BY DEF WorkerTake
<1>2. worker \in [Plan -> {"none", "queued", "running", "SUCCEEDED", "FAILED", "LOST"}]
    BY DEF IInv, TypeOK
<1>3. QuietKept /\ StagedKept
    BY <1>1, <1>2 DEF QuietKept, StagedKept, Quiet
<1>4. ASSUME NEW q \in Plan PROVE SettledPlan(q)'
    <2>1. CASE q = p
        BY <1>1, <1>2, <2>1 DEF SInv, SettledPlan, rows
    <2>2. CASE q # p
        BY <1>1, <1>2, <2>2 DEF SInv, SettledPlan, Awaited, rows
    <2> QED
        BY <2>1, <2>2
<1> QED
    BY <1>1, <1>3, <1>4, WorkerStepSettles

LEMMA WorkerStageSettles ==
    ASSUME IInv, IInv', SInv, NEW p \in Plan, WorkerStage(p)
    PROVE  SInv'
<1>1. /\ worker \in [Plan -> {"none", "queued", "running", "SUCCEEDED", "FAILED", "LOST"}]
      /\ host \in [Plan -> {"ABSENT", "PARTIAL", "STAGED"}]
    BY DEF IInv, TypeOK
<1>2. worker[p] = "running" /\ p \in Used /\ ~Quiet(p)
    BY <1>1 DEF WorkerStage, IInv, PlanFits, Used, Quiet
<1>3. Twins(p) = {}
    <2>1. ASSUME NEW q \in Twins(p) PROVE FALSE
        <3>1. q \in Used /\ q # p /\ ~Quiet(q) /\ AccountOf(q) = AccountOf(p)
            BY <2>1 DEF Twins, Quiet
        <3> QED
            BY <1>2, <3>1, OneAtATime
    <2> QED
        BY <2>1
<1>4. UNCHANGED <<rows, call>>
    BY DEF WorkerStage
<1>5. PICK w \in {"none", "SUCCEEDED", "FAILED"} :
          /\ worker' = [worker EXCEPT ![p] = w]
          /\ w # "none" => Awaited(p)
          /\ host' = host \/ \E left \in {"ABSENT", "PARTIAL", "STAGED"} :
                                 host' = [host EXCEPT ![p] = left]
          /\ w = "SUCCEEDED" => host' = [host EXCEPT ![p] = "STAGED"]
    BY <1>3 DEF WorkerStage
<1>6. \A q \in Plan : q # p => host'[q] = host[q] /\ worker'[q] = worker[q]
    BY <1>1, <1>5
<1>7. QuietKept
    BY <1>2, <1>6 DEF QuietKept, Quiet
<1>8. StagedKept
    <2>1. plan[p].state # "STAGED"
        BY <1>2 DEF SInv, SettledPlan, IInv, PlanFits
    <2> QED
        BY <1>6, <2>1 DEF StagedKept
<1>9. ASSUME NEW q \in Plan PROVE SettledPlan(q)'
    <2>1. CASE q = p
        <3>1. worker'[p] = w /\ (w = "SUCCEEDED" => host'[p] = "STAGED")
            BY <1>1, <1>5
        <3>2. Awaited(p)' <=> Awaited(p)
            BY <1>4 DEF Awaited
        <3> QED
            BY <1>2, <1>4, <1>5, <2>1, <3>1, <3>2 DEF SInv, SettledPlan, rows
    <2>2. CASE q # p
        BY <1>4, <1>6, <2>2 DEF SInv, SettledPlan, Awaited, rows
    <2> QED
        BY <2>1, <2>2
<1> QED
    BY <1>4, <1>7, <1>8, <1>9, WorkerStepSettles

LEMMA WorkerRestartSettles ==
    ASSUME IInv, IInv', SInv, WorkerRestart
    PROVE  SInv'
<1>1. /\ worker \in [Plan -> {"none", "queued", "running", "SUCCEEDED", "FAILED", "LOST"}]
      /\ host \in [Plan -> {"ABSENT", "PARTIAL", "STAGED"}]
    BY DEF IInv, TypeOK
<1>2. UNCHANGED <<rows, call>>
    BY DEF WorkerRestart
<1>3. \A q \in Plan :
          /\ worker[q] # "running" => host'[q] = host[q]
          /\ IF worker[q] \notin {"queued", "running"} THEN worker'[q] = worker[q]
             ELSE worker'[q] = IF Awaited(q) THEN "LOST" ELSE "none"
    BY <1>1 DEF WorkerRestart
<1>4. QuietKept
    BY <1>3 DEF QuietKept, Quiet
<1>5. StagedKept
    <2>1. \A q \in Plan : plan[q].state = "STAGED" => worker[q] # "running"
        BY DEF SInv, SettledPlan, IInv, PlanFits
    <2> QED
        BY <1>3, <2>1 DEF StagedKept
<1>6. ASSUME NEW q \in Plan PROVE SettledPlan(q)'
    <2>1. Awaited(q)' <=> Awaited(q)
        BY <1>2 DEF Awaited
    <2>2. SettledPlan(q)
        BY DEF SInv
    <2> QED
        BY <1>2, <1>3, <2>1, <2>2 DEF SettledPlan, rows
<1> QED
    BY <1>2, <1>4, <1>5, <1>6, WorkerStepSettles

LEMMA CleanHostSettles ==
    ASSUME IInv, IInv', SInv, NEW p \in Plan, CleanHost(p)
    PROVE  SInv'
<1>1. /\ rollback[p] = "REQUIRES_MANUAL_REVIEW" /\ host' = [host EXCEPT ![p] = "ABSENT"]
      /\ UNCHANGED <<rows, call, worker>>
    BY DEF CleanHost
<1>2. host \in [Plan -> {"ABSENT", "PARTIAL", "STAGED"}]
    BY DEF IInv, TypeOK
<1>3. stage[p] = "FAILED" /\ plan[p].state = "FAILED"
    BY <1>1, IdAssumption DEF SInv, SettledPlan, IInv, PlanFits
<1>4. worker[p] # "SUCCEEDED"
    BY <1>3 DEF SInv, SettledPlan, Awaited, IInv, ThreadFits
<1>5. QuietKept /\ StagedKept
    BY <1>1, <1>2, <1>3 DEF QuietKept, StagedKept, Quiet
<1>6. ASSUME NEW q \in Plan PROVE SettledPlan(q)'
    BY <1>1, <1>2, <1>4 DEF SInv, SettledPlan, Awaited, rows
<1> QED
    BY <1>1, <1>5, <1>6, WorkerStepSettles

LEMMA ApiCrashSettles ==
    ASSUME IInv, IInv', SInv, ApiCrash
    PROVE  SInv'
<1>1. host' = host /\ UNCHANGED rows
    BY DEF ApiCrash
<1>2. \A q \in Plan : worker'[q] \in {worker[q], "none"} /\ worker'[q] \in {"queued", "running", "none"}
    BY DEF ApiCrash
<1>3. QuietKept /\ StagedKept
    BY <1>1, <1>2 DEF QuietKept, StagedKept, Quiet
<1>4. ASSUME NEW q \in Plan PROVE SettledPlan(q)'
    BY <1>1, <1>2 DEF SInv, SettledPlan, rows
<1> QED
    BY <1>1, <1>3, <1>4, WorkerStepSettles

-----------------------------------------------------------------------------
(* The second invariant *)

LEMMA InitSettled == Init => SInv
<1> SUFFICES ASSUME Init PROVE SInv
    OBVIOUS
<1>1. Used = {}
    BY DEF Init, Used
<1>2. \A p \in Plan : SettledPlan(p)
    BY DEF Init, SettledPlan
<1>3. OneRequest
    BY DEF Init, OneRequest, NotClosed, Open
<1>4. ManagedFits
    BY DEF Init, ManagedFits
<1>5. OthersAreQuiet /\ RolledBackIsClean /\ RecordedEnvironment
    BY <1>1 DEF OthersAreQuiet, RolledBackIsClean, RecordedEnvironment
<1> QED
    BY <1>2, <1>3, <1>4, <1>5 DEF SInv

LEMMA NextSettles ==
    ASSUME MaxQueuedTimeouts = 0
    PROVE  IInv /\ IInv' /\ SInv /\ [Next]_vars => SInv'
<1> SUFFICES ASSUME IInv, IInv', SInv, [Next]_vars PROVE SInv'
    OBVIOUS
<1>1. ASSUME NEW r \in Request, User(r) PROVE SInv'
    BY <1>1, UserSettles DEF User
<1>2. ASSUME NEW r \in Request, Administrator(r) PROVE SInv'
    <2>1. CASE Reject(r) \/ ReviewApprove(r)
        BY <2>1, UserSettles
    <2>2. CASE CreatePlan(r)
        BY <2>2, PlanningSettles
    <2>3. CASE DryRun(r)
        BY <2>3, DryRunSettles
    <2>4. CASE AuthorizeRetry(r) \/ \E k \in Caller : ApproveAndProvision(k, r) \/ RetryProvision(k, r)
        BY <2>4, ReviewSettles
    <2>5. CASE \E k \in Caller : Replay(k, r)
        BY <2>5, QuietStepSettles
    <2>6. CASE \E k \in Caller : Provision(k, r)
        <3>1. PICK k \in Caller : Provision(k, r)
            BY <2>6
        <3> QED
            BY <3>1, BeginningSettles
    <2> QED
        BY <1>2, <2>1, <2>2, <2>3, <2>4, <2>5, <2>6 DEF Administrator
<1>3. ASSUME NEW k \in Caller, Thread(k) PROVE SInv'
    <2>1. CASE OrchestratedPlan(k)
        BY <2>1, PlanningSettles
    <2>2. CASE OrchestratedDryRun(k)
        <3>1. call[k].request \in Request
            BY <2>2 DEF OrchestratedDryRun, IInv, ThreadFits
        <3> QED
            BY <2>2, <3>1, DryRunSettles
    <2>3. CASE OrchestratedStage(k)
        BY <2>3, BeginningSettles
    <2>4. CASE StageAnswer(k) \/ StageUnanswered(k)
        BY <2>4, AnswerSettles
    <2>5. CASE StepFails(k) \/ OrchestrationSucceeds(k)
        BY <2>5, QuietStepSettles
    <2>6. CASE OrchestrationFails(k)
        BY <2>6, OrchestrationFailsSettles
    <2> QED
        BY <1>3, <2>1, <2>2, <2>3, <2>4, <2>5, <2>6 DEF Thread
<1>4. CASE RootWorker
    BY <1>4, WorkerRestartSettles, WorkerTakeSettles, WorkerStageSettles DEF RootWorker
<1>5. ASSUME NEW p \in Plan, Reconcile(p) \/ CleanHost(p) \/ Lapse(p) PROVE SInv'
    <2>1. CASE Lapse(p)
        BY <2>1, QuietStepSettles
    <2> QED
        BY <1>5, <2>1, ReconcileSettles, CleanHostSettles
<1>6. CASE ApiCrash
    BY <1>6, ApiCrashSettles
<1>7. CASE UNCHANGED vars
    BY <1>7, ThreadSettles DEF vars, rows
<1> QED
    BY <1>1, <1>2, <1>3, <1>4, <1>5, <1>6, <1>7 DEF Next

(* As long as no client leaves a Stage in the queue of the Root Worker, only *)
(* the current attempt of an account's one open request has anything on the *)
(* host or on its way there, and the answers, rollbacks and records fit it.  *)
THEOREM SettledInvariance ==
    ASSUME MaxQueuedTimeouts = 0
    PROVE  Spec => []SInv
<1>1. Init => SInv
    BY InitSettled
<1>2. IInv /\ IInv' /\ SInv /\ [Next]_vars => SInv'
    BY NextSettles
<1> QED
    BY <1>1, <1>2, Invariance, PTL DEF Spec

(* The managed user, the consumed reservations, the request and the host     *)
(* agree on which attempt became the environment, and nothing that fails or  *)
(* crashes later takes it back.                                              *)
THEOREM RecordsMatchTheHost ==
    ASSUME MaxQueuedTimeouts = 0
    PROVE  Spec => []RecordedEnvironment
<1>1. SInv => RecordedEnvironment
    BY DEF SInv
<1> QED
    BY <1>1, SettledInvariance, PTL

(* A Stage recorded as rolled back has left nothing on the host, and nothing *)
(* of it is still on its way there.                                          *)
THEOREM RolledBackLeavesNothing ==
    ASSUME MaxQueuedTimeouts = 0
    PROVE  Spec => []RolledBackIsClean
<1>1. SInv => RolledBackIsClean
    BY DEF SInv
<1> QED
    BY <1>1, SettledInvariance, PTL
=============================================================================
