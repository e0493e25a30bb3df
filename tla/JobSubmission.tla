--------------------------- MODULE JobSubmission ---------------------------
(***************************************************************************)
(* Slurm jobs of one owner: submission, the two administrator approvals,   *)
(* the Root Worker call that runs sbatch, cancellation, and the projection *)
(* of Slurm's state into portal_jobs.                                      *)
(*                                                                         *)
(* Submission, decisions and cancellation lock the owner's rows to the end *)
(* of their transaction, so one of them runs at a time: the variable api   *)
(* is the one that waits for the Worker with its transaction open.  What   *)
(* it has written is visible to nobody before its commit, and a refusal of *)
(* an approval, an exception or a crash rolls it back.  The Worker takes   *)
(* one request at a time, in any order, and does not notice a caller that  *)
(* has stopped waiting.  A refresh locks nothing, so several of them may   *)
(* be on their way with what Slurm said at different times.                *)
(*                                                                         *)
(* A decision looks at the job and both approvals before it asks for the   *)
(* locks, and the session does not load them again once it has them.  An   *)
(* approval has a version column: to write one that has changed since is   *)
(* an exception; a job has none.  The variable review is a decision that   *)
(* waits for its locks after it has looked; any number of others look and  *)
(* decide in one step.                                                     *)
(*                                                                         *)
(* A GPU count is the number itself; a unit of memory is the threshold of  *)
(* 32 GiB, rounded up.                                                     *)
(***************************************************************************)
EXTENDS Naturals, FiniteSets

CONSTANTS
    Job,            \* ids of portal_jobs rows
    SlurmId,        \* ids Slurm gives out, in their order
    Request,        \* request ids of Worker calls
    Refresher,      \* requests that list jobs: as many refreshes as go on at once
    None,           \* no id, no count
    GpuRequests,    \* GPU counts asked for, 0..4 in the code
    MemoryRequests, \* memory asked for
    Limits,         \* time limits asked for
    FirstExpiry,    \* when the first lease ends
    Horizon,        \* bound: the clock stops here, no lease ends later
    MaxFaults       \* bound: refusals and failures of the host, lost answers, crashes

ASSUME JobAssumption ==
    /\ SlurmId \subseteq Nat
    /\ None \notin Job \cup Request \cup Nat
    /\ GpuRequests \subseteq 0..4
    /\ MemoryRequests \subseteq Nat \ {0}
    /\ Limits \subseteq Nat \ {0}
    /\ Horizon \in Nat /\ FirstExpiry \in 1..Horizon
    /\ MaxFaults \in Nat

VARIABLES
    now,      \* the clock
    lease,    \* the entitlement: active lease, its end, the end of its chain
    job,      \* portal_jobs with the operation of each job
    gpu,      \* portal_job_gpu_approvals (UNIQUE portal_job_id)
    mem,      \* portal_job_memory_approvals (UNIQUE portal_job_id)
    review,   \* a decision between its first look and its locks
    api,      \* the handler that waits for the Worker, its locks held
    calls,    \* self.job.submit requests the Worker has not taken yet
    script,   \* the staged script of a job in the owner's workspace
    slurm,    \* what Slurm knows
    refresh,  \* the refreshes between their answer from the Worker and their commit
    faults    \* faults so far

vars == <<now, lease, job, gpu, mem, review, api, calls, script, slurm, refresh, faults>>

-----------------------------------------------------------------------------
Time == 0..Horizon
Live == {"PENDING", "RUNNING"}
Over == {"COMPLETED", "CANCELLED", "DEADLINE"}     \* of JOB_TERMINAL_STATES
Terminal == Over \cup {"REJECTED", "FAILED"}

JobRow == [state : {"NONE", "APPROVAL_PENDING"} \cup Live \cup Terminal,
           slurm : SlurmId \cup {None}, lease : Nat, gpus : 0..4, memory : Nat,
           limit : Nat, deadline : Time,
           op : {"NONE", "PENDING_APPROVAL", "SUCCEEDED", "FAILED", "CANCELLED"}]
Approval == [state : {"NONE", "PENDING", "APPROVED", "REJECTED", "CANCELLED"},
             requested : Nat, approved : Nat \cup {None}]
SlurmRow == [state : {"NONE"} \cup Live \cup Over, job : Job \cup {None},
             gpus : 0..4, memory : Nat, limit : Nat, deadline : Time,
             qos : {"NONE", "general", "portal-approved-multigpu"},
             ends : Nat, whole : BOOLEAN]

NoJob == [state |-> "NONE", slurm |-> None, lease |-> 0, gpus |-> 0, memory |-> 0,
          limit |-> 0, deadline |-> 0, op |-> "NONE"]
NoApproval == [state |-> "NONE", requested |-> 0, approved |-> None]
NoSlurm == [state |-> "NONE", job |-> None, gpus |-> 0, memory |-> 0, limit |-> 0,
            deadline |-> 0, qos |-> "NONE", ends |-> 0, whole |-> TRUE]
NoApi == [kind |-> "IDLE", job |-> None, row |-> NoJob, req |-> None,
          reply |-> "NONE", slurm |-> None, fresh |-> TRUE]
NoCall == [job |-> None, row |-> NoJob, gpu |-> NoApproval, mem |-> NoApproval]
NoReview == [job |-> None, row |-> NoJob, gpu |-> NoApproval, mem |-> NoApproval]
NoRefresh == [job |-> None, seen |-> "NONE"]

Init ==
    /\ now = 0
    /\ lease \in [id : {1}, ends : {FirstExpiry}, until : {FirstExpiry}, gpu : BOOLEAN]
    /\ job = [j \in Job |-> NoJob]
    /\ gpu = [j \in Job |-> NoApproval]
    /\ mem = [j \in Job |-> NoApproval]
    /\ review = NoReview
    /\ api = NoApi
    /\ calls = [r \in Request |-> NoCall]
    /\ script = [j \in Job |-> "NONE"]
    /\ slurm = [s \in SlurmId |-> NoSlurm]
    /\ refresh = [f \in Refresher |-> NoRefresh]
    /\ faults = 0

Fault == faults < MaxFaults /\ faults' = faults + 1

-----------------------------------------------------------------------------
(* resolve_self_compute_context: without a lease that is running now every *)
(* handler below is refused, decisions and cancellation of an unsubmitted  *)
(* job included.                                                           *)
Entitled == now < lease.ends

Unlocked == api = NoApi

Remaining == lease.until - now

NeedsGpuApproval(g) == g >= 2

NeedsMemoryApproval(m) == m > 1

(* The checks of a submission that do not depend on approvals.             *)
MaySubmit(j, g, t) ==
    /\ Unlocked
    /\ Entitled
    /\ job[j] = NoJob
    /\ t <= Remaining
    /\ g >= 1 => lease.gpu

NewJob(g, m, t, state, op) ==
    [state |-> state, slurm |-> None, lease |-> lease.id, gpus |-> g, memory |-> m,
     limit |-> t, deadline |-> lease.until, op |-> op]

(* Bound: every request that is on its way finds a free id in Slurm.       *)
SlurmHasRoom == Cardinality({s \in SlurmId : slurm[s] = NoSlurm})
                  > Cardinality({r \in Request : calls[r] # NoCall})

(* call_worker: a new request id; the caller waits with its transaction.   *)
CallWorker(kind, j, row, g, m, fresh) ==
    LET r == CHOOSE r \in Request : calls[r] = NoCall
    IN  /\ \E unused \in Request : calls[unused] = NoCall
        /\ SlurmHasRoom
        /\ calls' = [calls EXCEPT ![r] = [job |-> j, row |-> row, gpu |-> g, mem |-> m]]
        /\ api' = [kind |-> kind, job |-> j, row |-> row, req |-> r,
                   reply |-> "NONE", slurm |-> None, fresh |-> fresh]

(* submit_self_job within the owner's own limits.                          *)
SubmitDirect(j, g, m, t) ==
    /\ MaySubmit(j, g, t)
    /\ ~NeedsGpuApproval(g) /\ ~NeedsMemoryApproval(m)
    /\ CallWorker("DIRECT", j, NewJob(g, m, t, "PENDING", "SUCCEEDED"),
                  NoApproval, NoApproval, TRUE)
    /\ UNCHANGED <<now, lease, job, gpu, mem, review, script, slurm, refresh, faults>>

(* submit_self_job above them: committed without a call of the Worker.     *)
SubmitForApproval(j, g, m, t) ==
    /\ MaySubmit(j, g, t)
    /\ NeedsGpuApproval(g) \/ NeedsMemoryApproval(m)
    /\ job' = [job EXCEPT ![j] = NewJob(g, m, t, "APPROVAL_PENDING", "PENDING_APPROVAL")]
    /\ gpu' = IF NeedsGpuApproval(g)
              THEN [gpu EXCEPT ![j].state = "PENDING", ![j].requested = g] ELSE gpu
    /\ mem' = IF NeedsMemoryApproval(m)
              THEN [mem EXCEPT ![j].state = "PENDING", ![j].requested = m] ELSE mem
    /\ UNCHANGED <<now, lease, review, api, calls, script, slurm, refresh, faults>>

-----------------------------------------------------------------------------
(* Decisions.  w is what a decision saw of its job before it locked it.    *)

View(j) == [job |-> j, row |-> job[j], gpu |-> gpu[j], mem |-> mem[j]]

Reads(j) ==
    /\ review = NoReview
    /\ "PENDING" \in {gpu[j].state, mem[j].state}
    /\ review' = View(j)
    /\ UNCHANGED <<now, lease, job, gpu, mem, api, calls, script, slurm, refresh, faults>>

Views == {View(j) : j \in Job} \cup {review}

Decides(w) == \/ w # NoReview /\ w = review /\ review' = NoReview
              \/ w.job \in Job /\ w = View(w.job) /\ UNCHANGED review

Undecided(w, a) == /\ Unlocked
                   /\ Entitled
                   /\ a.state = "PENDING"
                   /\ w.row.state = "APPROVAL_PENDING"
                   /\ w.row.slurm = None

StillGranted(w) == w.row.lease = lease.id /\ w.row.limit <= Remaining

(* The answer is an error: the decision was refused after all.             *)
ReviewRefused ==
    /\ review # NoReview
    /\ Unlocked
    /\ review' = NoReview
    /\ UNCHANGED <<now, lease, job, gpu, mem, api, calls, script, slurm, refresh, faults>>

(* Mutation: portal_job_gpu_approvals has no version column.               *)
GpuVersionIgnored(w) == TRUE

(* The UPDATE finds the version that was read.                             *)
GpuUnchanged(w) == gpu[w.job] = w.gpu

MemUnchanged(w) == mem[w.job] = w.mem

CancelledIfPending(a) == IF a.state = "PENDING" THEN [a EXCEPT !.state = "CANCELLED"] ELSE a

Approved(a, n) == [a EXCEPT !.state = "APPROVED", !.approved = n]

(* Mutation: the operation of a rejected job gets the state of the job.    *)
RefusedByName(j) == [job[j] EXCEPT !.state = "REJECTED", !.op = "REJECTED"]

Refused(j) == [job[j] EXCEPT !.state = "REJECTED", !.op = "CANCELLED"]

(* A reject of an approval that has changed in the meantime, or of a job   *)
(* whose other approval has, ends in an exception and writes nothing.      *)
RejectGpu(w) ==
    /\ Decides(w)
    /\ Undecided(w, w.gpu)
    /\ IF GpuUnchanged(w) /\ (w.mem.state = "PENDING" => MemUnchanged(w))
       THEN /\ gpu' = [gpu EXCEPT ![w.job].state = "REJECTED"]
            /\ mem' = [mem EXCEPT ![w.job] = CancelledIfPending(@)]
            /\ job' = [job EXCEPT ![w.job] = Refused(w.job)]
       ELSE UNCHANGED <<gpu, mem, job>>
    /\ UNCHANGED <<now, lease, api, calls, script, slurm, refresh, faults>>

RejectMemory(w) ==
    /\ Decides(w)
    /\ Undecided(w, w.mem)
    /\ IF MemUnchanged(w) /\ (w.gpu.state = "PENDING" => GpuUnchanged(w))
       THEN /\ mem' = [mem EXCEPT ![w.job].state = "REJECTED"]
            /\ gpu' = [gpu EXCEPT ![w.job] = CancelledIfPending(@)]
            /\ job' = [job EXCEPT ![w.job] = Refused(w.job)]
       ELSE UNCHANGED <<gpu, mem, job>>
    /\ UNCHANGED <<now, lease, api, calls, script, slurm, refresh, faults>>

(* _submit_job_if_resource_approvals_complete.  A decision that saw the    *)
(* other approval pending commits its own and its column of the job; one   *)
(* that saw it approved submits the job, and learns only when it commits   *)
(* whether its own approval was still the one it had seen.                 *)
SubmitIfComplete(kind, j, row, g, m, fresh) ==
    IF "PENDING" \in {g.state, m.state}
    THEN /\ job' = IF fresh THEN [job EXCEPT ![j] = row] ELSE job
         /\ gpu' = IF fresh /\ kind = "GPU" THEN [gpu EXCEPT ![j] = g] ELSE gpu
         /\ mem' = IF fresh /\ kind = "MEMORY" THEN [mem EXCEPT ![j] = m] ELSE mem
         /\ UNCHANGED <<api, calls>>
    ELSE /\ {g.state, m.state} \subseteq {"NONE", "APPROVED"}
         /\ CallWorker(kind, j, [row EXCEPT !.state = "PENDING", !.op = "SUCCEEDED"],
                       g, m, fresh)
         /\ UNCHANGED <<job, gpu, mem>>

ApproveGpu(w, n) ==
    /\ Decides(w)
    /\ Undecided(w, w.gpu)
    /\ n <= w.gpu.requested
    /\ lease.gpu
    /\ StillGranted(w)
    /\ SubmitIfComplete("GPU", w.job, [job[w.job] EXCEPT !.gpus = n],
                        Approved(w.gpu, n), w.mem, GpuUnchanged(w))
    /\ UNCHANGED <<now, lease, script, slurm, refresh, faults>>

ApproveMemory(w, n) ==
    /\ Decides(w)
    /\ Undecided(w, w.mem)
    /\ n <= w.mem.requested
    /\ StillGranted(w)
    /\ SubmitIfComplete("MEMORY", w.job, [job[w.job] EXCEPT !.memory = n],
                        w.gpu, Approved(w.mem, n), MemUnchanged(w))
    /\ UNCHANGED <<now, lease, script, slurm, refresh, faults>>

-----------------------------------------------------------------------------
(* The Root Worker.                                                        *)

(* Mutation: every job with a GPU gets the QoS of the approved ones.       *)
QosOfAnyGpu(c) == IF c.row.gpus > 0 THEN "portal-approved-multigpu" ELSE "general"

(* _job_worker_payload chooses the QoS.                                    *)
Qos(c) == IF c.gpu.state = "APPROVED" /\ c.row.gpus > 1
          THEN "portal-approved-multigpu" ELSE "general"

(* _validate_self_job_submit: the Worker trusts neither the limits nor the *)
(* clock of the portal.                                                    *)
GpuContract(c) ==
    IF c.gpu.state = "NONE"
    THEN c.row.gpus <= 1 /\ (c.row.gpus = 1 => lease.gpu)
    ELSE /\ c.gpu.state = "APPROVED" /\ lease.gpu
         /\ c.gpu.approved \in 1..c.gpu.requested
         /\ c.row.gpus = c.gpu.approved

MemoryContract(c) ==
    IF c.mem.state = "NONE"
    THEN ~NeedsMemoryApproval(c.row.memory)
    ELSE /\ c.mem.state = "APPROVED"
         /\ c.mem.approved \in 1..c.mem.requested
         /\ c.row.memory = c.mem.approved

(* Mutation: the Worker believes what the portal checked.                  *)
DeadlineTrusted(c) == TRUE

WithinDeadline(c) == now < c.row.deadline /\ c.row.limit <= c.row.deadline - now

PayloadValid(c) == GpuContract(c) /\ MemoryContract(c) /\ WithinDeadline(c)

(* _stage_user_job_script: O_EXCL, or the very same content.               *)
StagingAccepts(j) == script[j] # "PARTIAL"

SlurmJob(c, whole) ==
    [state |-> "PENDING", job |-> c.job, gpus |-> c.row.gpus, memory |-> c.row.memory,
     limit |-> c.row.limit, deadline |-> c.row.deadline, qos |-> Qos(c),
     ends |-> 0, whole |-> whole]

(* The caller hears only if it still waits for this request.               *)
Answer(r, reply, s) ==
    /\ calls' = [calls EXCEPT ![r] = NoCall]
    /\ api' = IF api.req = r THEN [api EXCEPT !.reply = reply, !.slurm = s] ELSE api

Submits(c) ==
    /\ PayloadValid(c)
    /\ StagingAccepts(c.job)
    /\ script' = [script EXCEPT ![c.job] = IF @ = "NONE" THEN "WHOLE" ELSE @]

Enqueues(c, s) ==
    /\ slurm[s] = NoSlurm
    /\ \A u \in SlurmId : u < s => slurm[u] # NoSlurm
    /\ slurm' = [slurm EXCEPT ![s] = SlurmJob(c, script'[c.job] = "WHOLE")]

WorkerSubmits(r) ==
    LET c == calls[r]
    IN  /\ c # NoCall
        /\ Submits(c)
        /\ \E s \in SlurmId :
              /\ Enqueues(c, s)
              /\ \/ Answer(r, "OK", s) /\ UNCHANGED faults
                 \/ Answer(r, "ERROR", None) /\ Fault   \* sbatch timed out, or no owner
                 \/ Answer(r, "LOST", None) /\ Fault    \* the Worker dies
        /\ UNCHANGED <<now, lease, job, gpu, mem, review, refresh>>

(* The payload is refused, the staged script is another one.               *)
WorkerRefuses(r) ==
    LET c == calls[r]
    IN  /\ c # NoCall
        /\ ~(PayloadValid(c) /\ StagingAccepts(c.job))
        /\ Answer(r, "ERROR", None)
        /\ UNCHANGED <<now, lease, job, gpu, mem, review, script, slurm, refresh, faults>>

(* A check of the host fails: the identity, its shell and groups, the GPU  *)
(* isolation, the Slurm association, the quota, the working directory.     *)
ChecksFail(r) ==
    /\ calls[r] # NoCall
    /\ Fault
    /\ Answer(r, "ERROR", None)
    /\ UNCHANGED <<now, lease, job, gpu, mem, review, script, slurm, refresh>>

(* sbatch, run as the managed user, fails after the script is staged.      *)
SbatchFails(r) ==
    /\ calls[r] # NoCall
    /\ Submits(calls[r])
    /\ Fault
    /\ Answer(r, "ERROR", None)
    /\ UNCHANGED <<now, lease, job, gpu, mem, review, slurm, refresh>>

(* The Worker dies before it does anything or while it writes the script.  *)
WorkerDies(r) ==
    /\ calls[r] # NoCall
    /\ Fault
    /\ \/ UNCHANGED script
       \/ /\ PayloadValid(calls[r]) /\ script[calls[r].job] = "NONE"
          /\ script' = [script EXCEPT ![calls[r].job] = "PARTIAL"]
    /\ Answer(r, "LOST", None)
    /\ UNCHANGED <<now, lease, job, gpu, mem, review, slurm, refresh>>

-----------------------------------------------------------------------------
(* The waiting handler ends.                                               *)

CommitJob ==
    /\ api.reply = "OK" /\ api.fresh
    /\ job' = [job EXCEPT ![api.job] = [api.row EXCEPT !.slurm = api.slurm]]
    /\ gpu' = IF api.kind = "GPU"
              THEN [gpu EXCEPT ![api.job] = Approved(@, api.row.gpus)] ELSE gpu
    /\ mem' = IF api.kind = "MEMORY"
              THEN [mem EXCEPT ![api.job] = Approved(@, api.row.memory)] ELSE mem
    /\ api' = NoApi
    /\ UNCHANGED <<now, lease, review, calls, script, slurm, refresh, faults>>

(* A direct submission records its failure.                                *)
RecordFailure ==
    /\ api.kind = "DIRECT" /\ api.reply \in {"ERROR", "LOST"}
    /\ job' = [job EXCEPT ![api.job] = [api.row EXCEPT !.state = "FAILED", !.op = "FAILED"]]
    /\ api' = NoApi
    /\ UNCHANGED <<now, lease, gpu, mem, review, calls, script, slurm, refresh, faults>>

(* An approval is rolled back with everything it wrote, the job that Slurm *)
(* accepted for a decision on an approval that had changed included.       *)
RollBackApproval ==
    /\ api.kind \in {"GPU", "MEMORY"}
    /\ api.reply \in {"ERROR", "LOST"} \/ (api.reply = "OK" /\ ~api.fresh)
    /\ api' = NoApi
    /\ UNCHANGED <<now, lease, job, gpu, mem, review, calls, script, slurm, refresh, faults>>

(* 45 seconds are over; the request stays where it is.                     *)
ApiTimesOut ==
    /\ api # NoApi /\ api.reply = "NONE"
    /\ Fault
    /\ api' = [api EXCEPT !.reply = "LOST", !.req = None]
    /\ UNCHANGED <<now, lease, job, gpu, mem, review, calls, script, slurm, refresh>>

ApiDies ==
    /\ api # NoApi
    /\ Fault
    /\ api' = NoApi
    /\ UNCHANGED <<now, lease, job, gpu, mem, review, calls, script, slurm, refresh>>

-----------------------------------------------------------------------------
(* cancel_self_job.                                                        *)

CancelBeforeApproval(j) ==
    /\ Unlocked
    /\ Entitled
    /\ job[j].state = "APPROVAL_PENDING" /\ job[j].slurm = None
    /\ {gpu[j].state, mem[j].state} \subseteq {"NONE", "PENDING", "APPROVED"}
    /\ gpu' = [gpu EXCEPT ![j] = CancelledIfPending(@)]
    /\ mem' = [mem EXCEPT ![j] = CancelledIfPending(@)]
    /\ job' = [job EXCEPT ![j].state = "CANCELLED", ![j].op = "CANCELLED"]
    /\ UNCHANGED <<now, lease, review, api, calls, script, slurm, refresh, faults>>

(* scancel, then Slurm's own word for the state of the job, which may      *)
(* still be running: it is signalled first.                                *)
Cancelled(row) == {[row EXCEPT !.state = "CANCELLED"]}
                    \cup (IF row.state = "RUNNING" THEN {row} ELSE {})

(* Mutation: the row is CANCELLED once scancel has returned.               *)
CancelAhead(j) ==
    LET s == job[j].slurm
    IN  /\ Unlocked
        /\ Entitled
        /\ s # None /\ job[j].state \notin Terminal
        /\ slurm[s].state \in Live
        /\ \E w \in Cancelled(slurm[s]) : slurm' = [slurm EXCEPT ![s] = w]
        /\ job' = [job EXCEPT ![j].state = "CANCELLED"]
        /\ UNCHANGED <<now, lease, gpu, mem, review, api, calls, script, refresh, faults>>

CancelSubmitted(j) ==
    LET s == job[j].slurm
    IN  /\ Unlocked
        /\ Entitled
        /\ s # None /\ job[j].state \notin Terminal
        /\ slurm[s].state \in Live
        /\ \E w \in Cancelled(slurm[s]) :
              /\ slurm' = [slurm EXCEPT ![s] = w]
              /\ \/ /\ job' = [job EXCEPT ![j].state = w.state]
                    /\ UNCHANGED faults
                 \/ Fault /\ UNCHANGED job          \* the answer is lost
        /\ UNCHANGED <<now, lease, gpu, mem, review, api, calls, script, refresh>>

(* Mutation: only a job that has not started is looked up.                 *)
RefreshReadsPending(f, j) ==
    LET s == job[j].slurm
    IN  /\ refresh[f] = NoRefresh
        /\ Entitled
        /\ s # None /\ job[j].state = "PENDING"
        /\ slurm[s].state # job[j].state
        /\ refresh' = [refresh EXCEPT ![f] = [job |-> j, seen |-> slurm[s].state]]
        /\ UNCHANGED <<now, lease, job, gpu, mem, review, api, calls, script, slurm, faults>>

(* _refresh_job of a row that was not locked: the ORM writes the state     *)
(* only when Slurm's differs from the one it had loaded, so a refresh that *)
(* saw no difference ends where it begins.                                 *)
RefreshReads(f, j) ==
    LET s == job[j].slurm
    IN  /\ refresh[f] = NoRefresh
        /\ Entitled
        /\ s # None /\ job[j].state \notin Terminal
        /\ slurm[s].state # job[j].state
        /\ refresh' = [refresh EXCEPT ![f] = [job |-> j, seen |-> slurm[s].state]]
        /\ UNCHANGED <<now, lease, job, gpu, mem, review, api, calls, script, slurm, faults>>

RefreshWrites(f) ==
    /\ refresh[f] # NoRefresh
    /\ job' = [job EXCEPT ![refresh[f].job].state = refresh[f].seen]
    /\ refresh' = [refresh EXCEPT ![f] = NoRefresh]
    /\ UNCHANGED <<now, lease, gpu, mem, review, api, calls, script, slurm, faults>>

-----------------------------------------------------------------------------
(* Slurm: --deadline removes a job that can no longer end in time, --time  *)
(* ends one that runs too long.                                            *)

SlurmStarts(s) ==
    /\ slurm[s].state = "PENDING"
    /\ now + slurm[s].limit <= slurm[s].deadline
    /\ slurm' = [slurm EXCEPT ![s].state = "RUNNING", ![s].ends = now + slurm[s].limit]
    /\ UNCHANGED <<now, lease, job, gpu, mem, review, api, calls, script, refresh, faults>>

SlurmEnds(s) ==
    /\ slurm[s].state = "RUNNING"
    /\ slurm' = [slurm EXCEPT ![s].state = "COMPLETED"]
    /\ UNCHANGED <<now, lease, job, gpu, mem, review, api, calls, script, refresh, faults>>

SlurmRemoves(s) ==
    /\ slurm[s].state = "PENDING"
    /\ now + slurm[s].limit > slurm[s].deadline
    /\ slurm' = [slurm EXCEPT ![s].state = "DEADLINE"]
    /\ UNCHANGED <<now, lease, job, gpu, mem, review, api, calls, script, refresh, faults>>

Prompt == \A s \in SlurmId :
    /\ slurm[s].state = "PENDING" => now + slurm[s].limit <= slurm[s].deadline
    /\ slurm[s].state = "RUNNING" => now < slurm[s].ends

-----------------------------------------------------------------------------
(* The lease of the owner, as the renewal, the chain and the restore move  *)
(* it.                                                                     *)

Tick ==
    /\ now < Horizon
    /\ Prompt
    /\ now' = now + 1
    /\ UNCHANGED <<lease, job, gpu, mem, review, api, calls, script, slurm, refresh, faults>>

LeaseRenewed(d) ==
    /\ Unlocked /\ Entitled
    /\ lease.until = lease.ends
    /\ d \in lease.ends + 1..Horizon
    /\ lease' = [lease EXCEPT !.until = d]
    /\ UNCHANGED <<now, job, gpu, mem, review, api, calls, script, slurm, refresh, faults>>

LeaseRolls ==
    /\ Unlocked
    /\ lease.ends <= now /\ now < lease.until
    /\ lease' = [lease EXCEPT !.id = @ + 1, !.ends = lease.until]
    /\ UNCHANGED <<now, job, gpu, mem, review, api, calls, script, slurm, refresh, faults>>

LeaseRestored(d) ==
    /\ Unlocked
    /\ lease.until <= now
    /\ d \in now + 1..Horizon
    /\ lease' = [lease EXCEPT !.id = @ + 1, !.ends = d, !.until = d]
    /\ UNCHANGED <<now, job, gpu, mem, review, api, calls, script, slurm, refresh, faults>>

-----------------------------------------------------------------------------
Next ==
    \/ \E j \in Job :
         \/ \E g \in GpuRequests, m \in MemoryRequests, t \in Limits :
               SubmitDirect(j, g, m, t) \/ SubmitForApproval(j, g, m, t)
         \/ Reads(j) \/ CancelBeforeApproval(j) \/ CancelSubmitted(j)
         \/ \E f \in Refresher : RefreshReads(f, j)
    \/ \E w \in Views :
         \/ RejectGpu(w) \/ RejectMemory(w)
         \/ \E n \in 1..4 : ApproveGpu(w, n)
         \/ \E n \in MemoryRequests : ApproveMemory(w, n)
    \/ ReviewRefused
    \/ \E r \in Request : WorkerSubmits(r) \/ WorkerRefuses(r) \/ ChecksFail(r)
                            \/ SbatchFails(r) \/ WorkerDies(r)
    \/ CommitJob \/ RecordFailure \/ RollBackApproval \/ ApiTimesOut \/ ApiDies
    \/ \E f \in Refresher : RefreshWrites(f)
    \/ \E s \in SlurmId : SlurmStarts(s) \/ SlurmEnds(s) \/ SlurmRemoves(s)
    \/ Tick \/ LeaseRolls
    \/ \E d \in Time : LeaseRenewed(d) \/ LeaseRestored(d)

Spec == Init /\ [][Next]_vars

(* The Worker serves every request, a handler that has its answer ends,    *)
(* and somebody keeps the list of jobs open: the page and the command line *)
(* poll it.  Neither the clock nor Slurm has to go on.                     *)
Fairness ==
    /\ \A r \in Request : WF_vars(WorkerSubmits(r) \/ WorkerRefuses(r))
    /\ WF_vars(CommitJob \/ RecordFailure \/ RollBackApproval)
    /\ \A j \in Job : SF_vars(\E f \in Refresher : RefreshReads(f, j))
    /\ \A f \in Refresher : WF_vars(RefreshWrites(f))

FairSpec == Spec /\ Fairness

-----------------------------------------------------------------------------
(* Properties.                                                             *)

TypeOK ==
    /\ now \in Time
    /\ lease \in [id : Nat, ends : Time, until : Time, gpu : BOOLEAN]
    /\ job \in [Job -> JobRow]
    /\ gpu \in [Job -> Approval]
    /\ mem \in [Job -> Approval]
    /\ review \in [job : Job \cup {None}, row : JobRow, gpu : Approval, mem : Approval]
    /\ api \in [kind : {"IDLE", "DIRECT", "GPU", "MEMORY"}, job : Job \cup {None},
                row : JobRow, req : Request \cup {None},
                reply : {"NONE", "OK", "ERROR", "LOST"}, slurm : SlurmId \cup {None},
                fresh : BOOLEAN]
    /\ calls \in [Request -> [job : Job \cup {None}, row : JobRow,
                              gpu : Approval, mem : Approval]]
    /\ script \in [Job -> {"NONE", "PARTIAL", "WHOLE"}]
    /\ slurm \in [SlurmId -> SlurmRow]
    /\ refresh \in [Refresher -> [job : Job \cup {None},
                                  seen : {"NONE"} \cup Live \cup Over]]
    /\ faults \in 0..MaxFaults

Submitted == {s \in SlurmId : slurm[s].state # "NONE"}

(* Whatever was lost, retried or rolled back on the way, Slurm holds no    *)
(* job with more than one GPU or more than the free memory unless its      *)
(* owner asked for an approval of at least that much, and the job a row    *)
(* names is exactly the one that was approved, with the QoS that goes with *)
(* its count (_submit_job_if_resource_approvals_complete, the contracts of *)
(* _validate_self_job_submit).  And sbatch is never given the part of a    *)
(* script that a Worker which died left behind (_stage_user_job_script).   *)
SlurmRunsWhatWasApproved ==
    /\ \A s \in Submitted :
         LET j == slurm[s].job
         IN  /\ slurm[s].gpus > 1 => slurm[s].gpus <= gpu[j].requested
             /\ slurm[s].memory > 1 => slurm[s].memory <= mem[j].requested
             /\ slurm[s].qos = "portal-approved-multigpu" <=> slurm[s].gpus > 1
             /\ slurm[s].whole
    /\ \A j \in Job : job[j].slurm # None =>
         LET s == slurm[job[j].slurm]
         IN  /\ s.job = j /\ s.gpus = job[j].gpus /\ s.memory = job[j].memory
             /\ gpu[j].state = "NONE" \/ gpu[j] = Approved(gpu[j], s.gpus)
             /\ mem[j].state = "NONE" \/ mem[j] = Approved(mem[j], s.memory)

(* A job that Slurm still has, even one that reached it long after its     *)
(* handler gave up, is inside the lease chain it was submitted under.      *)
NoJobOutlivesItsLease ==
    \A s \in Submitted : slurm[s].state \in Live =>
        now <= slurm[s].deadline /\ slurm[s].deadline <= lease.until

(* A row never says that a job has ended while Slurm still has it: no      *)
(* refresh and no cancellation runs ahead of Slurm.                        *)
EndedRowsHaveEnded ==
    \A j \in Job : job[j].slurm # None /\ job[j].state \in Terminal
                      => slurm[job[j].slurm].state \in Over

(* A committed decision and a recorded Slurm id survive the failure, the   *)
(* retry and the rollback of the other decision and of every call after.   *)
DecisionsAreFinal ==
    [][\A j \in Job :
         /\ gpu[j].state \in {"APPROVED", "REJECTED", "CANCELLED"} => gpu'[j] = gpu[j]
         /\ mem[j].state \in {"APPROVED", "REJECTED", "CANCELLED"} => mem'[j] = mem[j]
         /\ job[j].slurm # None => job'[j].slurm = job[j].slurm
         /\ job[j].slurm = None /\ job[j].state \in Terminal => job'[j] = job[j]]_vars

(* The portal comes to know that a job it recorded has ended, although a   *)
(* refresh may put back a state that is out of date, as long as the owner  *)
(* has a lease to look at jobs with.                                       *)
RowsFollowSlurm ==
    \A j \in Job :
        (job[j].slurm # None /\ slurm[job[j].slurm].state \in Over)
            ~> (job[j].state \in Terminal \/ ~Entitled)

-----------------------------------------------------------------------------
(* What the documentation says.                                            *)

(* "If one Job needs both approvals, it is submitted only once, when both  *)
(* have passed" (portal/docs/operations-and-approvals.md, 181): a job with *)
(* both approvals passed and nobody at work on it has one Slurm job.       *)
BothPassedSubmittedOnce ==
    \A j \in Job :
        Unlocked /\ gpu[j].state = "APPROVED" /\ mem[j].state = "APPROVED"
            => Cardinality({s \in Submitted : slurm[s].job = j}) = 1

(* "no Slurm job is created when either is rejected" (the user manual).    *)
RejectedJobNeverRuns ==
    \A s \in Submitted : job[slurm[s].job].state # "REJECTED"
=============================================================================
