------------------------ MODULE JobSubmissionProofs ------------------------
(***************************************************************************)
(* Proofs about JobSubmission, for any number of jobs, requests and Slurm  *)
(* ids, any horizon and any number of faults.                              *)
(*                                                                         *)
(* A request may be served long after its handler has gone, and a decision *)
(* may be written on what was read before the locks.  What keeps both      *)
(* harmless is that approvals only ever move forward (Forward): what a     *)
(* review or a request has seen of them is their past (ReviewIsPast,       *)
(* CallsArePast), the count that was asked for never changes, and the      *)
(* Worker takes no more than that.                                         *)
(***************************************************************************)
EXTENDS JobSubmission, TLAPS

(* A row and its two approvals agree.                                      *)
RowAgrees(j) ==
    /\ job[j] = NoJob => gpu[j] = NoApproval /\ mem[j] = NoApproval
    /\ job[j] # NoJob => job[j].limit >= 1 /\ job[j].deadline <= lease.until
    /\ gpu[j].state = "NONE" => gpu[j] = NoApproval
    /\ mem[j].state = "NONE" => mem[j] = NoApproval
    /\ gpu[j].state = "PENDING" \/ mem[j].state = "PENDING" => job[j].state = "APPROVAL_PENDING"
    /\ job[j].state = "APPROVAL_PENDING" => job[j].slurm = None
    /\ gpu[j].state = "APPROVED" => gpu[j].approved = job[j].gpus
    /\ mem[j].state = "APPROVED" => mem[j].approved = job[j].memory
    /\ job[j].slurm # None =>
         /\ job[j].state \in Live \cup Over
         /\ gpu[j].state \in {"NONE", "APPROVED"} /\ mem[j].state \in {"NONE", "APPROVED"}

(* The Slurm job of a row is the one the row describes.                    *)
RowIsInSlurm(j) ==
    job[j].slurm # None =>
        /\ slurm[job[j].slurm].job = j
        /\ slurm[job[j].slurm].gpus = job[j].gpus
        /\ slurm[job[j].slurm].memory = job[j].memory
        /\ job[j].state \in Terminal => slurm[job[j].slurm].state \in Over

(* What somebody saw of an approval that is now a.                         *)
IsPast(seen, a) ==
    /\ seen.requested = a.requested
    /\ seen.state = "NONE" <=> a.state = "NONE"
    /\ seen.state = "APPROVED" => a = seen

ViewIsPast(w) ==
    /\ w.job \in Job /\ job[w.job] # NoJob
    /\ IsPast(w.gpu, gpu[w.job]) /\ IsPast(w.mem, mem[w.job])

ReviewIsPast == review # NoReview => ViewIsPast(review)

CallIsPast(c) ==
    /\ c.job \in Job /\ c.row.limit >= 1 /\ c.row.deadline <= lease.until
    /\ c.gpu.state # "NONE" => job[c.job] # NoJob /\ gpu[c.job].requested = c.gpu.requested
    /\ c.mem.state # "NONE" => job[c.job] # NoJob /\ mem[c.job].requested = c.mem.requested

CallsArePast == \A r \in Request : calls[r] # NoCall => CallIsPast(calls[r])

(* The handler that waits, and the rows it holds the locks of.             *)
Passed(a, n) == a.state = "NONE" \/ (a.state = "APPROVED" /\ a.approved = n)

HandlerHolds ==
    api # NoApi =>
        /\ api.kind \in {"DIRECT", "GPU", "MEMORY"} /\ api.job \in Job
        /\ api.row.state = "PENDING" /\ api.row.limit >= 1 /\ api.row.deadline <= lease.until
        /\ api.kind = "DIRECT" => api.fresh /\ api.row.slurm = None /\ job[api.job] = NoJob
        /\ api.fresh /\ api.kind = "GPU" =>
             gpu[api.job].state = "PENDING" /\ Passed(mem[api.job], api.row.memory)
        /\ api.fresh /\ api.kind = "MEMORY" =>
             mem[api.job].state = "PENDING" /\ Passed(gpu[api.job], api.row.gpus)

HandlerWaits ==
    /\ api.req # None /\ api.reply = "NONE" =>
         /\ calls[api.req] # NoCall
         /\ calls[api.req].job = api.job /\ calls[api.req].row = api.row
    /\ api.req # None /\ api.reply # "NONE" => calls[api.req] = NoCall
    /\ api.reply = "OK" =>
         /\ api.slurm # None /\ slurm[api.slurm].state # "NONE"
         /\ slurm[api.slurm].job = api.job
         /\ slurm[api.slurm].gpus = api.row.gpus /\ slurm[api.slurm].memory = api.row.memory

(* A Slurm job keeps to what was asked for, and to the lease.              *)
SlurmJobFits(s) ==
    /\ slurm[s].state = "NONE" => slurm[s] = NoSlurm
    /\ slurm[s].state # "NONE" =>
         /\ slurm[s].job \in Job
         /\ slurm[s].gpus > 1 => slurm[s].gpus <= gpu[slurm[s].job].requested
         /\ slurm[s].memory > 1 => slurm[s].memory <= mem[slurm[s].job].requested
         /\ slurm[s].qos = "portal-approved-multigpu" <=> slurm[s].gpus > 1
         /\ slurm[s].whole
         /\ slurm[s].limit >= 1 /\ slurm[s].deadline <= lease.until
         /\ slurm[s].state \in Live => now <= slurm[s].deadline
         /\ slurm[s].state = "RUNNING" => slurm[s].ends <= slurm[s].deadline

RefreshIsPast ==
    \A f \in Refresher : refresh[f] # NoRefresh =>
        /\ refresh[f].job \in Job /\ job[refresh[f].job].slurm # None
        /\ refresh[f].seen \in Live \cup Over
        /\ refresh[f].seen \in Over => slurm[job[refresh[f].job].slurm].state \in Over

IInv ==
    /\ TypeOK
    /\ \A j \in Job : RowAgrees(j) /\ RowIsInSlurm(j)
    /\ ReviewIsPast /\ CallsArePast
    /\ HandlerHolds /\ HandlerWaits
    /\ \A s \in SlurmId : SlurmJobFits(s)
    /\ RefreshIsPast

(* What happened to a job and its approvals happened for good.             *)
Forward(j) ==
    /\ job[j] # NoJob =>
         job'[j] # NoJob /\ IsPast(gpu[j], gpu'[j]) /\ IsPast(mem[j], mem'[j])
    /\ gpu[j].state \in {"APPROVED", "REJECTED", "CANCELLED"} => gpu'[j] = gpu[j]
    /\ mem[j].state \in {"APPROVED", "REJECTED", "CANCELLED"} => mem'[j] = mem[j]
    /\ job[j].slurm # None => job'[j].slurm = job[j].slurm
    /\ job[j].slurm = None /\ job[j].state \in Terminal => job'[j] = job[j]

CallType == [job : Job \cup {None}, row : JobRow, gpu : Approval, mem : Approval]

ApiType == [kind : {"IDLE", "DIRECT", "GPU", "MEMORY"}, job : Job \cup {None},
            row : JobRow, req : Request \cup {None},
            reply : {"NONE", "OK", "ERROR", "LOST"}, slurm : SlurmId \cup {None},
            fresh : BOOLEAN]

-----------------------------------------------------------------------------
LEMMA Constants ==
    /\ None \notin Job /\ None \notin Request /\ None \notin Nat /\ None \notin SlurmId
    /\ Horizon \in Nat /\ Time \subseteq Nat /\ 0 \in Time
    /\ GpuRequests \subseteq 0..4 /\ MemoryRequests \subseteq Nat /\ Limits \subseteq Nat
    /\ \A n \in MemoryRequests \cup Limits : n >= 1
<1>1. None \notin Job /\ None \notin Request /\ None \notin Nat /\ None \notin SlurmId
  BY JobAssumption
<1>2. Horizon \in Nat /\ Time \subseteq Nat /\ 0 \in Time
  BY JobAssumption DEF Time
<1>3. GpuRequests \subseteq 0..4 /\ MemoryRequests \subseteq Nat /\ Limits \subseteq Nat
  BY JobAssumption
<1>4. \A n \in MemoryRequests \cup Limits : n >= 1
  BY JobAssumption
<1>5. QED
  BY <1>1, <1>2, <1>3, <1>4

LEMMA EmptyRows ==
    /\ NoJob \in JobRow /\ NoJob.state = "NONE" /\ NoJob.slurm = None
    /\ NoApproval \in Approval /\ NoApproval.state = "NONE" /\ NoApproval.requested = 0
    /\ NoSlurm \in SlurmRow /\ NoSlurm.state = "NONE" /\ NoSlurm.job = None
    /\ NoApi \in ApiType /\ NoApi.req = None /\ NoApi.reply = "NONE" /\ NoApi.kind = "IDLE"
    /\ NoApi.job = None /\ NoApi.slurm = None
    /\ NoCall \in CallType /\ NoCall.job = None
    /\ NoReview \in CallType /\ NoReview.job = None
    /\ NoRefresh.job = None
<1>1. NoJob \in JobRow /\ NoApproval \in Approval
  BY Constants DEF NoJob, NoApproval, JobRow, Approval
<1>2. NoSlurm \in SlurmRow
  BY Constants DEF NoSlurm, SlurmRow
<1>3. NoApi \in ApiType /\ NoCall \in CallType /\ NoReview \in CallType
  BY <1>1 DEF NoApi, NoCall, NoReview, ApiType, CallType
<1>4. QED
  BY <1>1, <1>2, <1>3 DEF NoJob, NoApproval, NoSlurm, NoApi, NoCall, NoReview, NoRefresh

LEMMA TypeShape ==
    TypeOK <=>
        /\ now \in Time
        /\ lease \in [id : Nat, ends : Time, until : Time, gpu : BOOLEAN]
        /\ job \in [Job -> JobRow] /\ gpu \in [Job -> Approval] /\ mem \in [Job -> Approval]
        /\ review \in CallType /\ api \in ApiType /\ calls \in [Request -> CallType]
        /\ script \in [Job -> {"NONE", "PARTIAL", "WHOLE"}]
        /\ slurm \in [SlurmId -> SlurmRow]
        /\ refresh \in [Refresher -> [job : Job \cup {None},
                                      seen : {"NONE"} \cup Live \cup Over]]
        /\ faults \in 0..MaxFaults
BY DEF TypeOK, CallType, ApiType

LEMMA InitIInv == Init => IInv
<1> SUFFICES ASSUME Init PROVE IInv
  OBVIOUS
<1>1. /\ now = 0 /\ lease.until = FirstExpiry /\ review = NoReview /\ api = NoApi
      /\ refresh = [f \in Refresher |-> NoRefresh] /\ faults = 0
      /\ \A j \in Job : job[j] = NoJob /\ gpu[j] = NoApproval /\ mem[j] = NoApproval
      /\ \A r \in Request : calls[r] = NoCall
      /\ \A s \in SlurmId : slurm[s] = NoSlurm
  BY DEF Init
<1>2. TypeOK
  <2>1. lease \in [id : Nat, ends : Time, until : Time, gpu : BOOLEAN]
    BY JobAssumption DEF Init, Time
  <2>2. refresh \in [Refresher -> [job : Job \cup {None},
                                   seen : {"NONE"} \cup Live \cup Over]]
    BY <1>1 DEF NoRefresh
  <2>3. QED
    BY <2>1, <2>2, EmptyRows, Constants, JobAssumption, TypeShape DEF Init
<1>3. \A j \in Job : RowAgrees(j) /\ RowIsInSlurm(j)
  BY <1>1, EmptyRows DEF RowAgrees, RowIsInSlurm
<1>4. ReviewIsPast /\ CallsArePast /\ HandlerHolds /\ HandlerWaits /\ RefreshIsPast
  BY <1>1, EmptyRows DEF ReviewIsPast, CallsArePast, HandlerHolds, HandlerWaits, RefreshIsPast
<1>5. \A s \in SlurmId : SlurmJobFits(s)
  BY <1>1, EmptyRows DEF SlurmJobFits
<1>6. QED
  BY <1>2, <1>3, <1>4, <1>5 DEF IInv

-----------------------------------------------------------------------------
(* What the rows of one job do, the others and the rest standing still.    *)

LEMMA PastIsTransitive ==
    \A a, b, c : IsPast(a, b) /\ IsPast(b, c) => IsPast(a, c)
BY DEF IsPast

(* An identity that does not move has moved forward.                       *)
LEMMA StandsStill ==
    ASSUME NEW j, job'[j] = job[j], gpu'[j] = gpu[j], mem'[j] = mem[j]
    PROVE  Forward(j)
BY DEF Forward, IsPast

LEMMA ForwardKeeps ==
    ASSUME IInv, \A j \in Job : Forward(j), lease.until <= lease'.until,
           lease' \in [id : Nat, ends : Time, until : Time, gpu : BOOLEAN],
           gpu' \in [Job -> Approval], mem' \in [Job -> Approval]
    PROVE  /\ \A w : ViewIsPast(w) => ViewIsPast(w)'
           /\ \A c \in CallType : CallIsPast(c) => CallIsPast(c)'
           /\ \A j \in Job : /\ gpu[j].requested <= gpu'[j].requested
                             /\ mem[j].requested <= mem'[j].requested
<1>1. /\ gpu \in [Job -> Approval] /\ mem \in [Job -> Approval]
      /\ lease \in [id : Nat, ends : Time, until : Time, gpu : BOOLEAN]
  BY TypeShape DEF IInv
<1>2. ASSUME NEW w, ViewIsPast(w) PROVE ViewIsPast(w)'
  <2>1. /\ w.job \in Job /\ job[w.job] # NoJob
        /\ IsPast(w.gpu, gpu[w.job]) /\ IsPast(w.mem, mem[w.job])
    BY <1>2 DEF ViewIsPast
  <2>2. /\ job'[w.job] # NoJob
        /\ IsPast(gpu[w.job], gpu'[w.job]) /\ IsPast(mem[w.job], mem'[w.job])
    BY <2>1 DEF Forward
  <2>3. QED
    BY <2>1, <2>2, PastIsTransitive DEF ViewIsPast, IsPast
<1>3. ASSUME NEW c \in CallType, CallIsPast(c) PROVE CallIsPast(c)'
  <2>1. c.row.deadline \in Nat /\ lease.until \in Nat /\ lease'.until \in Nat
    BY <1>1, Constants DEF CallType, JobRow
  <2>2. QED
    BY <1>3, <2>1 DEF CallIsPast, Forward, IsPast
<1>4. ASSUME NEW j \in Job
      PROVE  gpu[j].requested <= gpu'[j].requested /\ mem[j].requested <= mem'[j].requested
  <2>1. /\ gpu[j].requested \in Nat /\ gpu'[j].requested \in Nat
        /\ mem[j].requested \in Nat /\ mem'[j].requested \in Nat
    BY <1>1 DEF Approval
  <2>2. CASE job[j] = NoJob
    BY <2>1, <2>2, EmptyRows DEF IInv, RowAgrees
  <2>3. CASE job[j] # NoJob
    BY <2>1, <2>3 DEF Forward, IsPast
  <2>4. QED
    BY <2>2, <2>3
<1>5. QED
  BY <1>2, <1>3, <1>4

LEMMA RowsMove ==
    ASSUME IInv, TypeOK', NEW j \in Job, Forward(j), RowAgrees(j)', RowIsInSlurm(j)',
           \A i \in Job \ {j} : job'[i] = job[i] /\ gpu'[i] = gpu[i] /\ mem'[i] = mem[i],
           review' = review \/ review' = NoReview,
           api' = NoApi, calls' = calls, slurm' = slurm, refresh' = refresh,
           lease' = lease, now' = now
    PROVE  IInv'
<1>1. \A i \in Job : Forward(i)
  BY StandsStill
<1>2. /\ gpu' \in [Job -> Approval] /\ mem' \in [Job -> Approval] /\ calls \in [Request -> CallType]
      /\ lease \in [id : Nat, ends : Time, until : Time, gpu : BOOLEAN]
      /\ lease' \in [id : Nat, ends : Time, until : Time, gpu : BOOLEAN]
      /\ gpu \in [Job -> Approval] /\ mem \in [Job -> Approval] /\ slurm \in [SlurmId -> SlurmRow]
  <2>1. (TypeOK => gpu \in [Job -> Approval] /\ mem \in [Job -> Approval]
                   /\ lease \in [id : Nat, ends : Time, until : Time, gpu : BOOLEAN])'
    BY DEF TypeOK
  <2>2. QED
    BY <2>1, TypeShape DEF IInv
<1>3. lease.until <= lease'.until
  <2>1. lease.until \in Nat
    BY <1>2, Constants
  <2>2. QED
    BY <2>1
<1>4. /\ \A w : ViewIsPast(w) => ViewIsPast(w)'
      /\ \A c \in CallType : CallIsPast(c) => CallIsPast(c)'
      /\ \A i \in Job : /\ gpu[i].requested <= gpu'[i].requested
                        /\ mem[i].requested <= mem'[i].requested
  BY <1>1, <1>2, <1>3, ForwardKeeps
<1>5. \A i \in Job : RowAgrees(i)' /\ RowIsInSlurm(i)'
  BY DEF IInv, RowAgrees, RowIsInSlurm
<1>6. ReviewIsPast'
  BY <1>4 DEF IInv, ReviewIsPast
<1>7. CallsArePast'
  BY <1>2, <1>4 DEF IInv, CallsArePast
<1>8. HandlerHolds' /\ HandlerWaits'
  BY EmptyRows DEF HandlerHolds, HandlerWaits
<1>9. ASSUME NEW s \in SlurmId PROVE SlurmJobFits(s)'
  <2>1. CASE slurm[s].state = "NONE"
    BY <2>1, EmptyRows DEF IInv, SlurmJobFits
  <2>2. CASE slurm[s].state # "NONE"
    <3>1. slurm[s].job \in Job /\ slurm[s].gpus \in Nat /\ slurm[s].memory \in Nat
      BY <1>2, <2>2 DEF IInv, SlurmJobFits, SlurmRow
    <3>2. /\ gpu[slurm[s].job].requested \in Nat /\ gpu'[slurm[s].job].requested \in Nat
          /\ mem[slurm[s].job].requested \in Nat /\ mem'[slurm[s].job].requested \in Nat
          /\ gpu[slurm[s].job].requested <= gpu'[slurm[s].job].requested
          /\ mem[slurm[s].job].requested <= mem'[slurm[s].job].requested
      BY <1>2, <1>4, <3>1 DEF Approval
    <3>3. SlurmJobFits(s)
      BY DEF IInv
    <3>4. QED
      BY <2>2, <3>1, <3>2, <3>3 DEF SlurmJobFits
  <2>3. QED
    BY <2>1, <2>2
<1>10. RefreshIsPast'
  <2>1. \A i \in Job : job[i].slurm # None => job'[i].slurm = job[i].slurm
    BY <1>1 DEF Forward
  <2>2. QED
    BY <2>1 DEF IInv, RefreshIsPast
<1>11. QED
  BY <1>5, <1>6, <1>7, <1>8, <1>9, <1>10 DEF IInv

-----------------------------------------------------------------------------
(* A handler calls the Worker.                                             *)

LEMMA CallsTheWorker ==
    ASSUME IInv, NEW kind \in {"DIRECT", "GPU", "MEMORY"}, NEW j \in Job, NEW row \in JobRow,
           NEW g \in Approval, NEW m \in Approval, NEW fresh \in BOOLEAN,
           CallWorker(kind, j, row, g, m, fresh),
           row.state = "PENDING", row.limit >= 1, row.deadline <= lease.until,
           g.state # "NONE" => job[j] # NoJob /\ gpu[j].requested = g.requested,
           m.state # "NONE" => job[j] # NoJob /\ mem[j].requested = m.requested,
           kind = "DIRECT" => fresh /\ row.slurm = None /\ job[j] = NoJob,
           fresh /\ kind = "GPU" => gpu[j].state = "PENDING" /\ Passed(mem[j], row.memory),
           fresh /\ kind = "MEMORY" => mem[j].state = "PENDING" /\ Passed(gpu[j], row.gpus),
           review' = review \/ review' = NoReview,
           UNCHANGED <<now, lease, job, gpu, mem, script, slurm, refresh, faults>>
    PROVE  IInv'
<1>1. PICK r \in Request :
        /\ calls[r] = NoCall
        /\ calls' = [calls EXCEPT ![r] = [job |-> j, row |-> row, gpu |-> g, mem |-> m]]
        /\ api' = [kind |-> kind, job |-> j, row |-> row, req |-> r,
                   reply |-> "NONE", slurm |-> None, fresh |-> fresh]
  BY DEF CallWorker
<1> DEFINE c == [job |-> j, row |-> row, gpu |-> g, mem |-> m]
<1>2. /\ c \in CallType /\ c.job = j /\ c.row = row /\ c.gpu = g /\ c.mem = m /\ c # NoCall
  BY Constants, EmptyRows DEF CallType
<1>3. /\ api' \in ApiType /\ api'.kind = kind /\ api'.job = j /\ api'.row = row /\ api'.req = r
      /\ api'.reply = "NONE" /\ api'.fresh = fresh
  BY <1>1 DEF ApiType
<1>4. calls' = [calls EXCEPT ![r] = c]
  BY <1>1
<1> HIDE DEF c
<1>5. calls \in [Request -> CallType] /\ calls'[r] = c
  BY <1>4, TypeShape DEF IInv
<1>6. TypeOK'
  <2>1. calls' \in [Request -> CallType] /\ review' \in CallType
    BY <1>2, <1>4, <1>5, EmptyRows, TypeShape DEF IInv
  <2>2. QED
    BY <1>3, <2>1 DEF IInv, TypeOK, ApiType, CallType
<1>7. \A i \in Job : RowAgrees(i)' /\ RowIsInSlurm(i)'
  BY DEF IInv, RowAgrees, RowIsInSlurm
<1>8. ReviewIsPast'
  BY DEF IInv, ReviewIsPast, ViewIsPast
<1>9. CallsArePast'
  <2>1. \A d : CallIsPast(d)' <=> CallIsPast(d)
    BY DEF CallIsPast
  <2>2. CallIsPast(c)
    BY <1>2 DEF CallIsPast
  <2>3. QED
    BY <1>4, <1>5, <2>1, <2>2 DEF IInv, CallsArePast
<1>10. HandlerHolds'
  BY <1>3 DEF HandlerHolds, Passed
<1>11. HandlerWaits'
  BY <1>2, <1>3, <1>5 DEF HandlerWaits
<1>12. (\A s \in SlurmId : SlurmJobFits(s))' /\ RefreshIsPast'
  BY DEF IInv, SlurmJobFits, RefreshIsPast
<1>13. QED
  BY <1>6, <1>7, <1>8, <1>9, <1>10, <1>11, <1>12 DEF IInv

LEMMA SubmitDirectPreserves ==
    ASSUME IInv, NEW j \in Job, NEW g \in GpuRequests, NEW m \in MemoryRequests, NEW t \in Limits,
           SubmitDirect(j, g, m, t)
    PROVE  IInv'
<1> DEFINE row == NewJob(g, m, t, "PENDING", "SUCCEEDED")
<1>1. g \in 0..4 /\ m \in Nat /\ t \in Nat /\ t >= 1
  BY Constants
<1>2. /\ row \in JobRow /\ row.state = "PENDING" /\ row.slurm = None /\ row.limit = t
      /\ row.deadline = lease.until /\ lease.until \in Nat
  BY <1>1, Constants DEF NewJob, JobRow, Live, IInv, TypeOK
<1>3. /\ CallWorker("DIRECT", j, row, NoApproval, NoApproval, TRUE) /\ job[j] = NoJob
      /\ UNCHANGED <<now, lease, job, gpu, mem, review, script, slurm, refresh, faults>>
  BY DEF SubmitDirect, MaySubmit
<1> HIDE DEF row
<1>4. row.deadline <= lease.until /\ row.limit >= 1
  BY <1>1, <1>2
<1>5. QED
  BY <1>2, <1>3, <1>4, EmptyRows, CallsTheWorker

-----------------------------------------------------------------------------
(* Submission for approval, decisions and cancellation before one.         *)

LEMMA RequestsApproval ==
    ASSUME NEW f \in [Job -> Approval], NEW j \in Job, f[j] = NoApproval, NEW n \in Nat,
           NEW g, g = f \/ g = [f EXCEPT ![j].state = "PENDING", ![j].requested = n]
    PROVE  /\ g \in [Job -> Approval] /\ \A i \in Job \ {j} : g[i] = f[i]
           /\ g[j] = NoApproval \/ g[j].state = "PENDING"
<1> DEFINE a == [f[j] EXCEPT !.state = "PENDING", !.requested = n]
<1>1. a \in Approval /\ a.state = "PENDING"
  BY DEF Approval
<1>2. g = f \/ g = [f EXCEPT ![j] = a]
  OBVIOUS
<1> HIDE DEF a
<1>3. QED
  BY <1>1, <1>2

LEMMA SubmitForApprovalForward ==
    ASSUME IInv, NEW j \in Job, NEW g \in GpuRequests, NEW m \in MemoryRequests, NEW t \in Limits,
           SubmitForApproval(j, g, m, t)
    PROVE  IInv' /\ \A i \in Job : Forward(i)
<1> DEFINE row == NewJob(g, m, t, "APPROVAL_PENDING", "PENDING_APPROVAL")
<1>1. g \in 0..4 /\ m \in Nat /\ t \in Nat /\ t >= 1
  BY Constants
<1>2. /\ row \in JobRow /\ row.state = "APPROVAL_PENDING" /\ row.slurm = None /\ row.limit = t
      /\ row.deadline = lease.until /\ lease.until \in Nat
  BY <1>1, Constants DEF NewJob, JobRow, Live, IInv, TypeOK
<1>3. /\ api = NoApi /\ job[j] = NoJob
      /\ job' = [job EXCEPT ![j] = row]
      /\ gpu' = gpu \/ gpu' = [gpu EXCEPT ![j].state = "PENDING", ![j].requested = g]
      /\ mem' = mem \/ mem' = [mem EXCEPT ![j].state = "PENDING", ![j].requested = m]
      /\ UNCHANGED <<now, lease, review, api, calls, script, slurm, refresh, faults>>
  BY DEF SubmitForApproval, MaySubmit, Unlocked
<1> HIDE DEF row
<1>4. /\ gpu[j] = NoApproval /\ mem[j] = NoApproval /\ g \in Nat
      /\ gpu \in [Job -> Approval] /\ mem \in [Job -> Approval]
  BY <1>1, <1>3, TypeShape DEF IInv, RowAgrees
<1>5. /\ job'[j] = row /\ job' \in [Job -> JobRow] /\ \A i \in Job \ {j} : job'[i] = job[i]
  BY <1>2, <1>3 DEF IInv, TypeOK
<1>6. /\ gpu' \in [Job -> Approval] /\ \A i \in Job \ {j} : gpu'[i] = gpu[i]
      /\ gpu'[j] = NoApproval \/ gpu'[j].state = "PENDING"
  BY <1>1, <1>3, <1>4, RequestsApproval
<1>7. /\ mem' \in [Job -> Approval] /\ \A i \in Job \ {j} : mem'[i] = mem[i]
      /\ mem'[j] = NoApproval \/ mem'[j].state = "PENDING"
  BY <1>1, <1>3, <1>4, RequestsApproval
<1>8. TypeOK'
  BY <1>3, <1>5, <1>6, <1>7 DEF IInv, TypeOK
<1>9. Forward(j)
  BY <1>3, <1>4, EmptyRows DEF Forward, Terminal, Over
<1>10. RowAgrees(j)'
  <2>1. row.limit >= 1 /\ row.deadline <= lease.until /\ row # NoJob
    BY <1>1, <1>2, EmptyRows
  <2>2. QED
    BY <1>2, <1>3, <1>5, <1>6, <1>7, <2>1, EmptyRows DEF RowAgrees
<1>11. RowIsInSlurm(j)'
  BY <1>2, <1>5 DEF RowIsInSlurm
<1>12. \A i \in Job : Forward(i)
  BY <1>5, <1>6, <1>7, <1>9, StandsStill
<1>13. QED
  BY <1>3, <1>5, <1>6, <1>7, <1>8, <1>9, <1>10, <1>11, <1>12, RowsMove

(* A decision that is not refused decides on the past of its job.          *)
LEMMA DecidesOnPast ==
    ASSUME IInv, NEW w, Decides(w), NEW a, Undecided(w, a)
    PROVE  /\ w \in CallType /\ ViewIsPast(w) /\ api = NoApi /\ a.state = "PENDING"
           /\ review' = review \/ review' = NoReview
           /\ review' \in CallType
<1>1. w.row.state = "APPROVAL_PENDING" /\ api = NoApi /\ a.state = "PENDING"
  BY DEF Undecided, Unlocked
<1>2. CASE w # NoReview /\ w = review /\ review' = NoReview
  BY <1>1, <1>2, EmptyRows, TypeShape DEF IInv, ReviewIsPast
<1>3. CASE w.job \in Job /\ w = View(w.job) /\ UNCHANGED review
  <2> DEFINE j == w.job
  <2>1. /\ j \in Job /\ w.row = job[j] /\ w.gpu = gpu[j] /\ w.mem = mem[j]
        /\ w = [job |-> j, row |-> job[j], gpu |-> gpu[j], mem |-> mem[j]]
    BY <1>3 DEF View
  <2>2. job[j] \in JobRow /\ gpu[j] \in Approval /\ mem[j] \in Approval /\ review \in CallType
    BY <2>1, TypeShape DEF IInv
  <2>3. job[j] # NoJob
    BY <1>1, <2>1, EmptyRows
  <2>4. ViewIsPast(w)
    BY <2>1, <2>3 DEF ViewIsPast, IsPast
  <2> HIDE DEF j
  <2>5. w \in CallType
    BY <2>1, <2>2 DEF CallType
  <2>6. QED
    BY <1>1, <1>3, <2>2, <2>4, <2>5
<1>4. QED
  BY <1>2, <1>3 DEF Decides

LEMMA ApprovedType ==
    ASSUME NEW a \in Approval, NEW n \in Nat
    PROVE  /\ Approved(a, n) \in Approval /\ Approved(a, n).state = "APPROVED"
           /\ Approved(a, n).approved = n /\ Approved(a, n).requested = a.requested
BY DEF Approved, Approval

LEMMA ApproveGpuForward ==
    ASSUME IInv, NEW w, NEW n \in 1..4, ApproveGpu(w, n)
    PROVE  IInv' /\ \A i \in Job : Forward(i)
<1> DEFINE j == w.job
           g == Approved(w.gpu, n)
           row == [job[j] EXCEPT !.gpus = n]
<1>1. /\ w \in CallType /\ ViewIsPast(w) /\ api = NoApi /\ w.gpu.state = "PENDING"
      /\ review' = review \/ review' = NoReview
      /\ review' \in CallType
  BY DecidesOnPast DEF ApproveGpu
<1>2. /\ SubmitIfComplete("GPU", j, row, g, w.mem, GpuUnchanged(w))
      /\ UNCHANGED <<now, lease, script, slurm, refresh, faults>>
  BY DEF ApproveGpu
<1>3. /\ j \in Job /\ job[j] # NoJob /\ w.gpu \in Approval /\ w.mem \in Approval
      /\ IsPast(w.gpu, gpu[j]) /\ IsPast(w.mem, mem[j])
  BY <1>1 DEF ViewIsPast, CallType
<1>4. n \in Nat /\ n \in 0..4
  OBVIOUS
<1>5. /\ g \in Approval /\ g.state = "APPROVED" /\ g.approved = n /\ g.requested = w.gpu.requested
  BY <1>3, <1>4, ApprovedType
<1>6. /\ job[j] \in JobRow /\ job \in [Job -> JobRow] /\ gpu \in [Job -> Approval]
      /\ mem \in [Job -> Approval]
  BY <1>3, TypeShape DEF IInv
<1>7. /\ row \in JobRow /\ row.gpus = n /\ row.memory = job[j].memory /\ row.slurm = job[j].slurm
      /\ row.limit = job[j].limit /\ row.deadline = job[j].deadline /\ row.state = job[j].state
  BY <1>4, <1>6 DEF JobRow
<1>8. RowAgrees(j) /\ RowIsInSlurm(j)
  BY <1>3 DEF IInv
<1>9. GpuUnchanged(w) => gpu[j] = w.gpu /\ job[j].state = "APPROVAL_PENDING" /\ job[j].slurm = None
  BY <1>1, <1>8 DEF GpuUnchanged, RowAgrees
<1> HIDE DEF j, g, row
<1>10. CASE w.mem.state = "PENDING"
  <2>1. /\ job' = IF GpuUnchanged(w) THEN [job EXCEPT ![j] = row] ELSE job
        /\ gpu' = IF GpuUnchanged(w) THEN [gpu EXCEPT ![j] = g] ELSE gpu
        /\ mem' = mem /\ api' = api /\ calls' = calls
    BY <1>2, <1>5, <1>10 DEF SubmitIfComplete
  <2>2. TypeOK'
    <3>1. job' \in [Job -> JobRow] /\ gpu' \in [Job -> Approval]
      BY <1>5, <1>6, <1>7, <2>1
    <3>2. QED
      BY <1>1, <1>2, <1>6, <2>1, <3>1 DEF IInv, TypeOK, CallType
  <2>3. CASE GpuUnchanged(w)
    <3>1. /\ job'[j] = row /\ gpu'[j] = g /\ mem'[j] = mem[j]
          /\ \A i \in Job \ {j} : job'[i] = job[i] /\ gpu'[i] = gpu[i] /\ mem'[i] = mem[i]
      BY <1>3, <1>6, <2>1, <2>3
    <3>2. Forward(j)
      BY <1>1, <1>3, <1>5, <1>7, <1>9, <2>3, <3>1, EmptyRows
         DEF Forward, IsPast, Terminal, Over
    <3>3. RowAgrees(j)'
      BY <1>2, <1>5, <1>7, <1>8, <1>9, <2>3, <3>1, EmptyRows DEF RowAgrees
    <3>4. RowIsInSlurm(j)'
      BY <1>7, <1>9, <2>3, <3>1 DEF RowIsInSlurm
    <3>5. \A i \in Job : Forward(i)
      BY <3>1, <3>2, StandsStill
    <3>6. QED
      BY <1>1, <1>2, <1>3, <2>1, <2>2, <3>1, <3>2, <3>3, <3>4, <3>5, RowsMove
  <2>4. CASE ~GpuUnchanged(w)
    <3>1. job' = job /\ gpu' = gpu /\ mem' = mem
      BY <2>1, <2>4
    <3>2. \A i \in Job : Forward(i)
      BY <3>1, StandsStill
    <3>3. RowAgrees(j)' /\ RowIsInSlurm(j)'
      BY <1>2, <1>3, <1>8, <3>1 DEF RowAgrees, RowIsInSlurm, j
    <3>4. QED
      BY <1>1, <1>2, <1>3, <2>1, <2>2, <3>1, <3>2, <3>3, RowsMove
  <2>5. QED
    BY <2>3, <2>4
<1>11. CASE w.mem.state # "PENDING"
  <2> DEFINE x == [row EXCEPT !.state = "PENDING", !.op = "SUCCEEDED"]
  <2>1. /\ w.mem.state \in {"NONE", "APPROVED"}
        /\ CallWorker("GPU", j, x, g, w.mem, GpuUnchanged(w))
        /\ job' = job /\ gpu' = gpu /\ mem' = mem
    BY <1>2, <1>5, <1>11 DEF SubmitIfComplete
  <2>2. /\ x \in JobRow /\ x.state = "PENDING" /\ x.limit = job[j].limit
        /\ x.deadline = job[j].deadline /\ x.memory = job[j].memory
    BY <1>7 DEF JobRow, Live
  <2> HIDE DEF x
  <2>3. x.limit >= 1 /\ x.deadline <= lease.until
    BY <1>3, <1>8, <2>2 DEF RowAgrees
  <2>4. /\ gpu[j].requested = g.requested
        /\ mem[j].requested = w.mem.requested
    BY <1>3, <1>5 DEF IsPast
  <2>5. Passed(mem[j], x.memory)
    BY <1>3, <1>8, <2>1, <2>2 DEF IsPast, Passed, RowAgrees
  <2>6. GpuUnchanged(w) => gpu[j].state = "PENDING"
    BY <1>1, <1>9
  <2>7. GpuUnchanged(w) \in BOOLEAN
    BY DEF GpuUnchanged
  <2>8. UNCHANGED <<now, lease, job, gpu, mem, script, slurm, refresh, faults>>
    BY <1>2, <2>1
  <2>9. IInv'
    <3> DEFINE fresh == GpuUnchanged(w)
               kind == "GPU"
    <3>1. fresh \in BOOLEAN /\ kind \in {"DIRECT", "GPU", "MEMORY"} /\ kind = "GPU"
          /\ CallWorker(kind, j, x, g, w.mem, fresh) /\ (fresh => gpu[j].state = "PENDING")
      BY <2>1, <2>6, <2>7
    <3> HIDE DEF fresh, kind
    <3>2. QED
      BY <1>1, <1>3, <1>5, <2>2, <2>3, <2>4, <2>5, <2>8, <3>1, CallsTheWorker
  <2>10. QED
    BY <2>1, <2>9, StandsStill
<1>12. QED
  BY <1>10, <1>11

LEMMA ApproveMemoryForward ==
    ASSUME IInv, NEW w, NEW n \in MemoryRequests, ApproveMemory(w, n)
    PROVE  IInv' /\ \A i \in Job : Forward(i)
<1> DEFINE j == w.job
           g == Approved(w.mem, n)
           row == [job[j] EXCEPT !.memory = n]
<1>1. /\ w \in CallType /\ ViewIsPast(w) /\ api = NoApi /\ w.mem.state = "PENDING"
      /\ review' = review \/ review' = NoReview
      /\ review' \in CallType
  BY DecidesOnPast DEF ApproveMemory
<1>2. /\ SubmitIfComplete("MEMORY", j, row, w.gpu, g, MemUnchanged(w))
      /\ UNCHANGED <<now, lease, script, slurm, refresh, faults>>
  BY DEF ApproveMemory
<1>3. /\ j \in Job /\ job[j] # NoJob /\ w.mem \in Approval /\ w.gpu \in Approval
      /\ IsPast(w.mem, mem[j]) /\ IsPast(w.gpu, gpu[j])
  BY <1>1 DEF ViewIsPast, CallType
<1>4. n \in Nat
  BY Constants
<1>5. /\ g \in Approval /\ g.state = "APPROVED" /\ g.approved = n /\ g.requested = w.mem.requested
  BY <1>3, <1>4, ApprovedType
<1>6. /\ job[j] \in JobRow /\ job \in [Job -> JobRow] /\ mem \in [Job -> Approval]
      /\ gpu \in [Job -> Approval]
  BY <1>3, TypeShape DEF IInv
<1>7. /\ row \in JobRow /\ row.memory = n /\ row.gpus = job[j].gpus /\ row.slurm = job[j].slurm
      /\ row.limit = job[j].limit /\ row.deadline = job[j].deadline /\ row.state = job[j].state
  BY <1>4, <1>6 DEF JobRow
<1>8. RowAgrees(j) /\ RowIsInSlurm(j)
  BY <1>3 DEF IInv
<1>9. MemUnchanged(w) => mem[j] = w.mem /\ job[j].state = "APPROVAL_PENDING" /\ job[j].slurm = None
  BY <1>1, <1>8 DEF MemUnchanged, RowAgrees
<1> HIDE DEF j, g, row
<1>10. CASE w.gpu.state = "PENDING"
  <2>1. /\ job' = IF MemUnchanged(w) THEN [job EXCEPT ![j] = row] ELSE job
        /\ mem' = IF MemUnchanged(w) THEN [mem EXCEPT ![j] = g] ELSE mem
        /\ gpu' = gpu /\ api' = api /\ calls' = calls
    BY <1>2, <1>5, <1>10 DEF SubmitIfComplete
  <2>2. TypeOK'
    <3>1. job' \in [Job -> JobRow] /\ mem' \in [Job -> Approval]
      BY <1>5, <1>6, <1>7, <2>1
    <3>2. QED
      BY <1>1, <1>2, <1>6, <2>1, <3>1 DEF IInv, TypeOK, CallType
  <2>3. CASE MemUnchanged(w)
    <3>1. /\ job'[j] = row /\ mem'[j] = g /\ gpu'[j] = gpu[j]
          /\ \A i \in Job \ {j} : job'[i] = job[i] /\ mem'[i] = mem[i] /\ gpu'[i] = gpu[i]
      BY <1>3, <1>6, <2>1, <2>3
    <3>2. Forward(j)
      BY <1>1, <1>3, <1>5, <1>7, <1>9, <2>3, <3>1, EmptyRows
         DEF Forward, IsPast, Terminal, Over
    <3>3. RowAgrees(j)'
      BY <1>2, <1>5, <1>7, <1>8, <1>9, <2>3, <3>1, EmptyRows DEF RowAgrees
    <3>4. RowIsInSlurm(j)'
      BY <1>7, <1>9, <2>3, <3>1 DEF RowIsInSlurm
    <3>5. \A i \in Job : Forward(i)
      BY <3>1, <3>2, StandsStill
    <3>6. QED
      BY <1>1, <1>2, <1>3, <2>1, <2>2, <3>1, <3>2, <3>3, <3>4, <3>5, RowsMove
  <2>4. CASE ~MemUnchanged(w)
    <3>1. job' = job /\ mem' = mem /\ gpu' = gpu
      BY <2>1, <2>4
    <3>2. \A i \in Job : Forward(i)
      BY <3>1, StandsStill
    <3>3. RowAgrees(j)' /\ RowIsInSlurm(j)'
      BY <1>2, <1>3, <1>8, <3>1 DEF RowAgrees, RowIsInSlurm, j
    <3>4. QED
      BY <1>1, <1>2, <1>3, <2>1, <2>2, <3>1, <3>2, <3>3, RowsMove
  <2>5. QED
    BY <2>3, <2>4
<1>11. CASE w.gpu.state # "PENDING"
  <2> DEFINE x == [row EXCEPT !.state = "PENDING", !.op = "SUCCEEDED"]
  <2>1. /\ w.gpu.state \in {"NONE", "APPROVED"}
        /\ CallWorker("MEMORY", j, x, w.gpu, g, MemUnchanged(w))
        /\ job' = job /\ mem' = mem /\ gpu' = gpu
    BY <1>2, <1>5, <1>11 DEF SubmitIfComplete
  <2>2. /\ x \in JobRow /\ x.state = "PENDING" /\ x.limit = job[j].limit
        /\ x.deadline = job[j].deadline /\ x.gpus = job[j].gpus
    BY <1>7 DEF JobRow, Live
  <2> HIDE DEF x
  <2>3. x.limit >= 1 /\ x.deadline <= lease.until
    BY <1>3, <1>8, <2>2 DEF RowAgrees
  <2>4. /\ mem[j].requested = g.requested
        /\ gpu[j].requested = w.gpu.requested
    BY <1>3, <1>5 DEF IsPast
  <2>5. Passed(gpu[j], x.gpus)
    BY <1>3, <1>8, <2>1, <2>2 DEF IsPast, Passed, RowAgrees
  <2>6. MemUnchanged(w) => mem[j].state = "PENDING"
    BY <1>1, <1>9
  <2>7. MemUnchanged(w) \in BOOLEAN
    BY DEF MemUnchanged
  <2>8. UNCHANGED <<now, lease, job, gpu, mem, script, slurm, refresh, faults>>
    BY <1>2, <2>1
  <2>9. IInv'
    <3> DEFINE fresh == MemUnchanged(w)
               kind == "MEMORY"
    <3>1. fresh \in BOOLEAN /\ kind \in {"DIRECT", "GPU", "MEMORY"} /\ kind = "MEMORY"
          /\ CallWorker(kind, j, x, w.gpu, g, fresh) /\ (fresh => mem[j].state = "PENDING")
      BY <2>1, <2>6, <2>7
    <3> HIDE DEF fresh, kind
    <3>2. QED
      BY <1>1, <1>3, <1>5, <2>2, <2>3, <2>4, <2>5, <2>8, <3>1, CallsTheWorker
  <2>10. QED
    BY <2>1, <2>9, StandsStill
<1>12. QED
  BY <1>10, <1>11

(* An approval that is closed: rejected, cancelled, or decided before.     *)
Closes(a, b) ==
    \/ a.state # "PENDING" /\ b = a
    \/ a.state = "PENDING" /\ b.state \in {"REJECTED", "CANCELLED"} /\ b.requested = a.requested

LEMMA ClosedApprovals ==
    ASSUME NEW a \in Approval
    PROVE  /\ CancelledIfPending(a) \in Approval /\ Closes(a, CancelledIfPending(a))
           /\ [a EXCEPT !.state = "REJECTED"] \in Approval
           /\ a.state = "PENDING" => Closes(a, [a EXCEPT !.state = "REJECTED"])
BY DEF CancelledIfPending, Closes, Approval

(* The end of a job that is not approved.                                  *)
LEMMA JobCloses ==
    ASSUME IInv, NEW j \in Job, job[j].state = "APPROVAL_PENDING", api = NoApi,
           NEW st \in {"REJECTED", "CANCELLED"},
           job' = [job EXCEPT ![j] = [job[j] EXCEPT !.state = st, !.op = "CANCELLED"]],
           NEW a \in Approval, Closes(gpu[j], a), gpu' = [gpu EXCEPT ![j] = a],
           NEW b \in Approval, Closes(mem[j], b), mem' = [mem EXCEPT ![j] = b],
           review' = review \/ review' = NoReview,
           UNCHANGED <<now, lease, api, calls, script, slurm, refresh, faults>>
    PROVE  IInv' /\ \A i \in Job : Forward(i)
<1> DEFINE x == [job[j] EXCEPT !.state = st, !.op = "CANCELLED"]
<1>1. /\ job[j] \in JobRow /\ job \in [Job -> JobRow] /\ gpu \in [Job -> Approval]
      /\ mem \in [Job -> Approval] /\ review' \in CallType
  BY EmptyRows, TypeShape DEF IInv
<1>2. /\ x \in JobRow /\ x.state = st /\ x.slurm = job[j].slurm /\ x.gpus = job[j].gpus
      /\ x.memory = job[j].memory /\ x.limit = job[j].limit /\ x.deadline = job[j].deadline
  BY <1>1 DEF JobRow, Terminal, Over
<1>3. job' = [job EXCEPT ![j] = x]
  OBVIOUS
<1> HIDE DEF x
<1>4. /\ job'[j] = x /\ gpu'[j] = a /\ mem'[j] = b
      /\ \A i \in Job \ {j} : job'[i] = job[i] /\ gpu'[i] = gpu[i] /\ mem'[i] = mem[i]
  BY <1>1, <1>3
<1>5. RowAgrees(j) /\ job[j].slurm = None /\ job[j] # NoJob
  BY EmptyRows DEF IInv, RowAgrees
<1>6. TypeOK'
  <2>1. job' \in [Job -> JobRow] /\ gpu' \in [Job -> Approval] /\ mem' \in [Job -> Approval]
    BY <1>1, <1>2, <1>3
  <2>2. QED
    BY <1>1, <2>1 DEF IInv, TypeOK, CallType
<1>7. x # NoJob
  BY <1>2, EmptyRows
<1>8. Forward(j)
  BY <1>4, <1>5, <1>7 DEF Forward, IsPast, Closes, Terminal, Over
<1>9. RowAgrees(j)'
  BY <1>2, <1>4, <1>5, <1>7 DEF RowAgrees, Closes
<1>10. RowIsInSlurm(j)'
  BY <1>2, <1>4, <1>5 DEF RowIsInSlurm
<1>11. \A i \in Job : Forward(i)
  BY <1>4, <1>8, StandsStill
<1>12. QED
  BY <1>4, <1>6, <1>8, <1>9, <1>10, <1>11, RowsMove

LEMMA NothingMoves ==
    ASSUME IInv,
           review' \in {review, NoReview} \/ (review' \in CallType /\ ViewIsPast(review')),
           UNCHANGED <<now, lease, job, gpu, mem, api, calls, script, slurm, refresh, faults>>
    PROVE  IInv' /\ \A i \in Job : Forward(i)
<1>1. review' \in CallType
  BY EmptyRows, TypeShape DEF IInv
<1>2. TypeOK'
  BY <1>1 DEF IInv, TypeOK, CallType
<1>3. (\A j \in Job : RowAgrees(j) /\ RowIsInSlurm(j))' /\ (\A s \in SlurmId : SlurmJobFits(s))'
  BY DEF IInv, RowAgrees, RowIsInSlurm, SlurmJobFits
<1>4. ReviewIsPast' /\ CallsArePast' /\ RefreshIsPast'
  BY DEF IInv, ReviewIsPast, ViewIsPast, CallsArePast, CallIsPast, RefreshIsPast
<1>5. HandlerHolds' /\ HandlerWaits'
  BY DEF IInv, HandlerHolds, HandlerWaits, Passed
<1>6. QED
  BY <1>2, <1>3, <1>4, <1>5, StandsStill DEF IInv

LEMMA RejectsForward ==
    ASSUME IInv, NEW w, RejectGpu(w) \/ RejectMemory(w)
    PROVE  IInv' /\ \A i \in Job : Forward(i)
<1> DEFINE j == w.job
<1>1. /\ w \in CallType /\ ViewIsPast(w) /\ api = NoApi
      /\ review' = review \/ review' = NoReview
      /\ UNCHANGED <<now, lease, api, calls, script, slurm, refresh, faults>>
  BY DecidesOnPast DEF RejectGpu, RejectMemory
<1>2. /\ j \in Job /\ gpu[j] \in Approval /\ mem[j] \in Approval /\ job[j] \in JobRow
      /\ job \in [Job -> JobRow] /\ gpu \in [Job -> Approval] /\ mem \in [Job -> Approval]
  BY <1>1, TypeShape DEF IInv, ViewIsPast
<1>3. \/ UNCHANGED <<gpu, mem, job>>
      \/ /\ gpu[j].state = "PENDING" \/ mem[j].state = "PENDING"
         /\ job' = [job EXCEPT ![j] = [job[j] EXCEPT !.state = "REJECTED", !.op = "CANCELLED"]]
         /\ \E a \in Approval, b \in Approval :
              /\ Closes(gpu[j], a) /\ gpu' = [gpu EXCEPT ![j] = a]
              /\ Closes(mem[j], b) /\ mem' = [mem EXCEPT ![j] = b]
  <2>1. CASE RejectGpu(w) /\ ~UNCHANGED <<gpu, mem, job>>
    <3>1. /\ gpu[j].state = "PENDING"
          /\ gpu' = [gpu EXCEPT ![j] = [gpu[j] EXCEPT !.state = "REJECTED"]]
          /\ mem' = [mem EXCEPT ![j] = CancelledIfPending(mem[j])]
          /\ job' = [job EXCEPT ![j] = Refused(j)]
      BY <2>1, <1>2 DEF RejectGpu, Undecided, GpuUnchanged
    <3>2. QED
      BY <1>2, <3>1, ClosedApprovals DEF Refused
  <2>2. CASE RejectMemory(w) /\ ~UNCHANGED <<gpu, mem, job>>
    <3>1. /\ mem[j].state = "PENDING"
          /\ mem' = [mem EXCEPT ![j] = [mem[j] EXCEPT !.state = "REJECTED"]]
          /\ gpu' = [gpu EXCEPT ![j] = CancelledIfPending(gpu[j])]
          /\ job' = [job EXCEPT ![j] = Refused(j)]
      BY <2>2, <1>2 DEF RejectMemory, Undecided, MemUnchanged
    <3>2. QED
      BY <1>2, <3>1, ClosedApprovals DEF Refused
  <2>3. QED
    BY <2>1, <2>2
<1> HIDE DEF j
<1>4. CASE UNCHANGED <<gpu, mem, job>>
  BY <1>1, <1>4, NothingMoves
<1>5. CASE ~UNCHANGED <<gpu, mem, job>>
  <2>1. PICK a \in Approval, b \in Approval :
          /\ Closes(gpu[j], a) /\ gpu' = [gpu EXCEPT ![j] = a]
          /\ Closes(mem[j], b) /\ mem' = [mem EXCEPT ![j] = b]
    BY <1>3, <1>5
  <2>2. job[j].state = "APPROVAL_PENDING"
    BY <1>2, <1>3, <1>5 DEF IInv, RowAgrees
  <2>3. PICK st \in {"REJECTED", "CANCELLED"} :
          job' = [job EXCEPT ![j] = [job[j] EXCEPT !.state = st, !.op = "CANCELLED"]]
    BY <1>3, <1>5
  <2>4. QED
    BY <1>1, <1>2, <2>1, <2>2, <2>3, JobCloses
<1>6. QED
  BY <1>4, <1>5

LEMMA CancelBeforeForward ==
    ASSUME IInv, NEW j \in Job, CancelBeforeApproval(j)
    PROVE  IInv' /\ \A i \in Job : Forward(i)
<1>1. /\ job[j].state = "APPROVAL_PENDING" /\ api = NoApi
      /\ gpu' = [gpu EXCEPT ![j] = CancelledIfPending(gpu[j])]
      /\ mem' = [mem EXCEPT ![j] = CancelledIfPending(mem[j])]
      /\ UNCHANGED <<now, lease, review, api, calls, script, slurm, refresh, faults>>
  BY DEF CancelBeforeApproval, Unlocked
<1>2. PICK st \in {"REJECTED", "CANCELLED"} :
        job' = [job EXCEPT ![j] = [job[j] EXCEPT !.state = st, !.op = "CANCELLED"]]
  BY DEF CancelBeforeApproval
<1>3. /\ CancelledIfPending(gpu[j]) \in Approval /\ Closes(gpu[j], CancelledIfPending(gpu[j]))
      /\ CancelledIfPending(mem[j]) \in Approval /\ Closes(mem[j], CancelledIfPending(mem[j]))
  BY ClosedApprovals, TypeShape DEF IInv
<1>4. QED
  BY <1>1, <1>2, <1>3, JobCloses

LEMMA ReviewForward ==
    ASSUME IInv, ReviewRefused \/ \E j \in Job : Reads(j)
    PROVE  IInv' /\ \A i \in Job : Forward(i)
<1>1. CASE ReviewRefused
  BY <1>1, NothingMoves DEF ReviewRefused
<1>2. ASSUME NEW j \in Job, Reads(j) PROVE IInv' /\ \A i \in Job : Forward(i)
  <2>1. /\ gpu[j].state = "PENDING" \/ mem[j].state = "PENDING"
        /\ review' = [job |-> j, row |-> job[j], gpu |-> gpu[j], mem |-> mem[j]]
        /\ UNCHANGED <<now, lease, job, gpu, mem, api, calls, script, slurm, refresh, faults>>
    BY <1>2 DEF Reads, View
  <2>2. job[j] # NoJob /\ job[j] \in JobRow /\ gpu[j] \in Approval /\ mem[j] \in Approval
    BY <2>1, EmptyRows, TypeShape DEF IInv, RowAgrees
  <2>3. review' \in CallType /\ ViewIsPast(review')
    BY <2>1, <2>2 DEF CallType, ViewIsPast, IsPast
  <2>4. QED
    BY <2>1, <2>3, NothingMoves
<1>3. QED
  BY <1>1, <1>2

-----------------------------------------------------------------------------
(* The Worker answers.                                                     *)

LEMMA FaultType == TypeOK /\ (UNCHANGED faults \/ Fault) => faults' \in 0..MaxFaults
BY JobAssumption DEF TypeOK, Fault

LEMMA AnswersForward ==
    ASSUME IInv, NEW r \in Request, calls[r] # NoCall,
           NEW reply \in {"OK", "ERROR", "LOST"}, NEW s \in SlurmId \cup {None},
           Answer(r, reply, s),
           slurm' \in [SlurmId -> SlurmRow], script' \in [Job -> {"NONE", "PARTIAL", "WHOLE"}],
           faults' \in 0..MaxFaults,
           \A u \in SlurmId : slurm[u].state # "NONE" => slurm'[u] = slurm[u],
           \A u \in SlurmId : SlurmJobFits(u)',
           reply = "OK" =>
             /\ s # None /\ slurm'[s].state # "NONE" /\ slurm'[s].job = calls[r].job
             /\ slurm'[s].gpus = calls[r].row.gpus /\ slurm'[s].memory = calls[r].row.memory,
           UNCHANGED <<now, lease, job, gpu, mem, review, refresh>>
    PROVE  IInv' /\ \A i \in Job : Forward(i)
<1>1. /\ calls \in [Request -> CallType] /\ api \in ApiType
      /\ calls' = [calls EXCEPT ![r] = NoCall]
      /\ api' = IF api.req = r THEN [api EXCEPT !.reply = reply, !.slurm = s] ELSE api
  BY TypeShape DEF IInv, Answer
<1>2. calls'[r] = NoCall /\ \A q \in Request \ {r} : calls'[q] = calls[q]
  BY <1>1
<1>3. /\ api' \in ApiType
      /\ api'.kind = api.kind /\ api'.job = api.job /\ api'.row = api.row /\ api'.req = api.req
      /\ api'.fresh = api.fresh
      /\ api.req = r => api'.reply = reply /\ api'.slurm = s
      /\ api.req # r => api' = api
  BY <1>1 DEF ApiType
<1>4. TypeOK'
  <2>1. calls' \in [Request -> CallType]
    BY <1>1, EmptyRows
  <2>2. QED
    BY <1>3, <2>1 DEF IInv, TypeOK, ApiType, CallType
<1>5. \A j \in Job : RowAgrees(j)' /\ RowIsInSlurm(j)'
  <2> SUFFICES ASSUME NEW j \in Job PROVE RowAgrees(j)' /\ RowIsInSlurm(j)'
    OBVIOUS
  <2>1. RowAgrees(j)'
    BY DEF IInv, RowAgrees
  <2>2. job[j].slurm # None => job[j].slurm \in SlurmId /\ slurm[job[j].slurm].job = j
    BY DEF IInv, TypeOK, JobRow, RowIsInSlurm
  <2>3. job[j].slurm # None => slurm[job[j].slurm].state # "NONE"
    BY <2>2, EmptyRows, Constants DEF IInv, SlurmJobFits
  <2>4. RowIsInSlurm(j)'
    BY <2>2, <2>3 DEF IInv, RowIsInSlurm
  <2>5. QED
    BY <2>1, <2>4
<1>6. ReviewIsPast'
  BY DEF IInv, ReviewIsPast, ViewIsPast
<1>7. CallsArePast'
  BY <1>2 DEF IInv, CallsArePast, CallIsPast
<1>8. api = NoApi => api' = NoApi
  BY <1>3, EmptyRows, Constants
<1>9. HandlerHolds'
  BY <1>3, <1>8 DEF IInv, HandlerHolds, Passed
<1>10. HandlerWaits'
  <2>1. CASE api.req = r
    <3>1. api.reply = "NONE" /\ calls[r].job = api.job /\ calls[r].row = api.row
      BY <2>1, Constants DEF IInv, HandlerWaits
    <3>2. QED
      BY <1>2, <1>3, <2>1, <3>1 DEF HandlerWaits
  <2>2. CASE api.req # r
    <3>1. api.req # None => api.req \in Request /\ calls'[api.req] = calls[api.req]
      BY <1>1, <1>2, <2>2 DEF ApiType
    <3>2. api.reply = "OK" => slurm'[api.slurm] = slurm[api.slurm]
      BY <1>1 DEF IInv, HandlerWaits, ApiType
    <3>3. QED
      BY <1>3, <2>2, <3>1, <3>2 DEF IInv, HandlerWaits
  <2>3. QED
    BY <2>1, <2>2
<1>11. RefreshIsPast'
  <2>1. ASSUME NEW j \in Job, job[j].slurm # None
        PROVE  job[j].slurm \in SlurmId /\ slurm'[job[j].slurm] = slurm[job[j].slurm]
    <3>1. job[j].slurm \in SlurmId /\ slurm[job[j].slurm].job = j
      BY <2>1 DEF IInv, RowIsInSlurm, TypeOK, JobRow
    <3>2. slurm[job[j].slurm].state # "NONE"
      BY <3>1, EmptyRows, Constants DEF IInv, SlurmJobFits
    <3>3. QED
      BY <3>1, <3>2
  <2>2. QED
    BY <2>1 DEF IInv, RefreshIsPast
<1>12. QED
  BY <1>4, <1>5, <1>6, <1>7, <1>9, <1>10, <1>11, StandsStill DEF IInv

(* What the Worker has checked fits what was asked for.                    *)
LEMMA AcceptedFits ==
    ASSUME IInv, NEW c \in CallType, CallIsPast(c), PayloadValid(c)
    PROVE  /\ SlurmJob(c, TRUE) \in SlurmRow
           /\ c.row.gpus > 1 => c.row.gpus <= gpu[c.job].requested
           /\ c.row.memory > 1 => c.row.memory <= mem[c.job].requested
           /\ Qos(c) = "portal-approved-multigpu" <=> c.row.gpus > 1
           /\ now <= c.row.deadline
<1>1. /\ c.job \in Job /\ c.row \in JobRow /\ c.gpu \in Approval /\ c.mem \in Approval
      /\ gpu[c.job] \in Approval /\ mem[c.job] \in Approval /\ now \in Nat
  BY Constants, TypeShape DEF IInv, CallType, CallIsPast
<1>2. /\ c.row.gpus \in 0..4 /\ c.row.memory \in Nat /\ c.row.deadline \in Nat
      /\ c.gpu.requested \in Nat /\ c.mem.requested \in Nat
  BY <1>1, Constants DEF JobRow, Approval
<1>3. Qos(c) \in {"general", "portal-approved-multigpu"}
  BY DEF Qos
<1>4. SlurmJob(c, TRUE) \in SlurmRow
  BY <1>1, <1>3 DEF SlurmJob, SlurmRow, JobRow, Live
<1>5. c.row.gpus > 1 => c.gpu.state = "APPROVED" /\ c.row.gpus <= c.gpu.requested
  BY <1>2 DEF PayloadValid, GpuContract
<1>6. c.row.memory > 1 => c.mem.state = "APPROVED" /\ c.row.memory <= c.mem.requested
  BY <1>2 DEF PayloadValid, MemoryContract, NeedsMemoryApproval
<1>7. Qos(c) = "portal-approved-multigpu" <=> c.row.gpus > 1
  BY <1>5 DEF Qos
<1>8. now <= c.row.deadline
  BY <1>1, <1>2 DEF PayloadValid, WithinDeadline
<1>9. QED
  BY <1>4, <1>5, <1>6, <1>7, <1>8 DEF CallIsPast

LEMMA WorkerSubmitsForward ==
    ASSUME IInv, NEW r \in Request, WorkerSubmits(r)
    PROVE  IInv' /\ \A i \in Job : Forward(i)
<1> DEFINE c == calls[r]
<1>1. c # NoCall /\ Submits(c) /\ UNCHANGED <<now, lease, job, gpu, mem, review, refresh>>
  BY DEF WorkerSubmits
<1>2. PICK s \in SlurmId :
        /\ Enqueues(c, s)
        /\ \/ Answer(r, "OK", s) /\ UNCHANGED faults
           \/ Answer(r, "ERROR", None) /\ Fault
           \/ Answer(r, "LOST", None) /\ Fault
  BY DEF WorkerSubmits
<1>3. c \in CallType /\ CallIsPast(c) /\ c.job \in Job
  BY <1>1, TypeShape DEF IInv, CallsArePast, CallIsPast
<1>4. /\ script' \in [Job -> {"NONE", "PARTIAL", "WHOLE"}] /\ script'[c.job] = "WHOLE"
  <2>1. /\ script \in [Job -> {"NONE", "PARTIAL", "WHOLE"}] /\ script[c.job] # "PARTIAL"
        /\ script' = [script EXCEPT ![c.job] = IF script[c.job] = "NONE" THEN "WHOLE"
                                               ELSE script[c.job]]
    BY <1>1, <1>3 DEF IInv, TypeOK, Submits, StagingAccepts
  <2> HIDE DEF c
  <2>2. QED
    BY <1>3, <2>1
<1> DEFINE x == SlurmJob(c, TRUE)
<1>5. /\ x \in SlurmRow /\ x.state = "PENDING" /\ x.job = c.job /\ x.gpus = c.row.gpus
      /\ x.memory = c.row.memory /\ x.limit = c.row.limit /\ x.deadline = c.row.deadline
      /\ x.qos = Qos(c) /\ x.whole = TRUE
  BY <1>1, <1>3, AcceptedFits DEF SlurmJob, Submits
<1>6. slurm' = [slurm EXCEPT ![s] = x] /\ slurm[s] = NoSlurm
  BY <1>2, <1>4 DEF Enqueues
<1>7. /\ c.row.gpus > 1 => c.row.gpus <= gpu[c.job].requested
      /\ c.row.memory > 1 => c.row.memory <= mem[c.job].requested
      /\ Qos(c) = "portal-approved-multigpu" <=> c.row.gpus > 1
      /\ now <= c.row.deadline
  BY <1>1, <1>3, AcceptedFits DEF Submits
<1>8. c.row.limit >= 1 /\ c.row.deadline <= lease.until
  BY <1>3 DEF CallIsPast
<1> HIDE DEF c, x
<1>9. slurm' \in [SlurmId -> SlurmRow] /\ slurm'[s] = x /\ \A u \in SlurmId \ {s} : slurm'[u] = slurm[u]
  BY <1>5, <1>6, TypeShape DEF IInv
<1>10. \A u \in SlurmId : slurm[u].state # "NONE" => slurm'[u] = slurm[u]
  BY <1>6, <1>9, EmptyRows
<1>11. \A u \in SlurmId : SlurmJobFits(u)'
  <2> SUFFICES ASSUME NEW u \in SlurmId PROVE SlurmJobFits(u)'
    OBVIOUS
  <2>1. CASE u = s
    BY <1>1, <1>3, <1>5, <1>7, <1>8, <1>9, <2>1 DEF SlurmJobFits
  <2>2. CASE u # s
    BY <1>1, <1>9, <2>2 DEF IInv, SlurmJobFits
  <2>3. QED
    BY <2>1, <2>2
<1>12. faults' \in 0..MaxFaults
  BY <1>2, FaultType DEF IInv
<1>13. PICK reply \in {"OK", "ERROR", "LOST"}, q \in SlurmId \cup {None} :
         Answer(r, reply, q) /\ (reply = "OK" => q = s)
  BY <1>2
<1>14. s # None /\ x.state # "NONE"
  BY <1>5, Constants
<1>15. /\ calls[r] # NoCall /\ calls[r].job = x.job /\ calls[r].row.gpus = x.gpus
       /\ calls[r].row.memory = x.memory
  BY <1>1, <1>5 DEF c
<1>16. QED
  BY <1>1, <1>4, <1>9, <1>10, <1>11, <1>12, <1>13, <1>14, <1>15, AnswersForward

LEMMA WorkerFailsForward ==
    ASSUME IInv, NEW r \in Request,
           WorkerRefuses(r) \/ ChecksFail(r) \/ SbatchFails(r) \/ WorkerDies(r)
    PROVE  IInv' /\ \A i \in Job : Forward(i)
<1>1. /\ calls[r] # NoCall /\ slurm' = slurm
      /\ UNCHANGED faults \/ Fault
      /\ UNCHANGED <<now, lease, job, gpu, mem, review, refresh>>
      /\ UNCHANGED script \/ \E v \in {"NONE", "PARTIAL", "WHOLE"} :
                               script' = [script EXCEPT ![calls[r].job] = v]
  <2>1. calls[r] # NoCall => calls[r].job \in Job
    BY DEF IInv, CallsArePast, CallIsPast
  <2>2. QED
    BY <2>1 DEF WorkerRefuses, ChecksFail, SbatchFails, WorkerDies, Submits, IInv, TypeOK
<1>2. PICK reply \in {"OK", "ERROR", "LOST"}, q \in SlurmId \cup {None} :
        Answer(r, reply, q) /\ reply # "OK"
  BY DEF WorkerRefuses, ChecksFail, SbatchFails, WorkerDies
<1>3. script' \in [Job -> {"NONE", "PARTIAL", "WHOLE"}] /\ faults' \in 0..MaxFaults
      /\ slurm' \in [SlurmId -> SlurmRow]
  BY <1>1, FaultType DEF IInv, TypeOK
<1>4. \A u \in SlurmId : SlurmJobFits(u)'
  BY <1>1 DEF IInv, SlurmJobFits
<1>5. QED
  BY <1>1, <1>2, <1>3, <1>4, AnswersForward

-----------------------------------------------------------------------------
(* The waiting handler ends.                                               *)

LEMMA CommitForward ==
    ASSUME IInv, CommitJob
    PROVE  IInv' /\ \A i \in Job : Forward(i)
<1>0. PICK j \in Job \cup {None} : j = api.job
  BY TypeShape DEF IInv, ApiType
<1> DEFINE x == [api.row EXCEPT !.slurm = api.slurm]
<1>1. /\ api.reply = "OK" /\ api.fresh
      /\ job' = [job EXCEPT ![j] = x]
      /\ gpu' = IF api.kind = "GPU" THEN [gpu EXCEPT ![j] = Approved(gpu[j], api.row.gpus)] ELSE gpu
      /\ mem' = IF api.kind = "MEMORY" THEN [mem EXCEPT ![j] = Approved(mem[j], api.row.memory)]
                ELSE mem
      /\ api' = NoApi
      /\ UNCHANGED <<now, lease, review, calls, script, slurm, refresh, faults>>
  BY <1>0 DEF CommitJob
<1>2. /\ api # NoApi /\ j \in Job /\ api \in ApiType /\ api.row \in JobRow
      /\ api.slurm \in SlurmId /\ api.slurm # None
      /\ slurm[api.slurm].job = j /\ slurm[api.slurm].gpus = api.row.gpus
      /\ slurm[api.slurm].memory = api.row.memory
      /\ api.row.state = "PENDING" /\ api.row.limit >= 1 /\ api.row.deadline <= lease.until
  BY <1>0, <1>1, EmptyRows, TypeShape DEF IInv, HandlerHolds, HandlerWaits, ApiType
<1>3. /\ x \in JobRow /\ x.state = "PENDING" /\ x.slurm = api.slurm /\ x.gpus = api.row.gpus
      /\ x.memory = api.row.memory /\ x.limit = api.row.limit /\ x.deadline = api.row.deadline
  BY <1>2 DEF JobRow
<1>4. /\ job \in [Job -> JobRow] /\ gpu \in [Job -> Approval] /\ mem \in [Job -> Approval]
      /\ gpu[j] \in Approval /\ mem[j] \in Approval
      /\ api.row.gpus \in Nat /\ api.row.memory \in Nat
  BY <1>2, TypeShape DEF IInv, JobRow
<1>5. /\ Approved(gpu[j], api.row.gpus) \in Approval
      /\ Approved(gpu[j], api.row.gpus).state = "APPROVED"
      /\ Approved(gpu[j], api.row.gpus).approved = api.row.gpus
      /\ Approved(gpu[j], api.row.gpus).requested = gpu[j].requested
      /\ Approved(mem[j], api.row.memory) \in Approval
      /\ Approved(mem[j], api.row.memory).state = "APPROVED"
      /\ Approved(mem[j], api.row.memory).approved = api.row.memory
      /\ Approved(mem[j], api.row.memory).requested = mem[j].requested
  BY <1>4, ApprovedType
<1>6. RowAgrees(j) /\ RowIsInSlurm(j)
  BY <1>2 DEF IInv
<1>7. /\ api.kind = "DIRECT" => job[j] = NoJob
      /\ api.kind = "GPU" => gpu[j].state = "PENDING" /\ Passed(mem[j], api.row.memory)
      /\ api.kind = "MEMORY" => mem[j].state = "PENDING" /\ Passed(gpu[j], api.row.gpus)
      /\ api.kind \in {"DIRECT", "GPU", "MEMORY"}
  BY <1>0, <1>1, <1>2 DEF IInv, HandlerHolds
<1>8. job[j].slurm = None /\ job[j].state \in {"NONE", "APPROVAL_PENDING"} /\ x # NoJob
  BY <1>3, <1>6, <1>7, EmptyRows DEF RowAgrees
<1> HIDE DEF x
<1>9. /\ job'[j] = x
      /\ gpu'[j] = gpu[j] \/ (api.kind = "GPU" /\ gpu'[j] = Approved(gpu[j], api.row.gpus))
      /\ mem'[j] = mem[j] \/ (api.kind = "MEMORY" /\ mem'[j] = Approved(mem[j], api.row.memory))
      /\ api.kind = "GPU" => gpu'[j] = Approved(gpu[j], api.row.gpus)
      /\ api.kind = "MEMORY" => mem'[j] = Approved(mem[j], api.row.memory)
      /\ \A i \in Job \ {j} : job'[i] = job[i] /\ gpu'[i] = gpu[i] /\ mem'[i] = mem[i]
  BY <1>1, <1>2, <1>4
<1>10. TypeOK'
  <2>1. job' \in [Job -> JobRow] /\ gpu' \in [Job -> Approval] /\ mem' \in [Job -> Approval]
    BY <1>1, <1>3, <1>4, <1>5
  <2>2. QED
    BY <1>1, <2>1, EmptyRows DEF IInv, TypeOK, ApiType
<1>11. Forward(j)
  BY <1>5, <1>7, <1>8, <1>9 DEF Forward, IsPast, Terminal, Over
<1>12. /\ Passed(gpu'[j], x.gpus) /\ Passed(mem'[j], x.memory)
       /\ gpu'[j].state = "NONE" => gpu'[j] = NoApproval
       /\ mem'[j].state = "NONE" => mem'[j] = NoApproval
  BY <1>3, <1>5, <1>6, <1>7, <1>9, EmptyRows DEF Passed, RowAgrees
<1>13. RowAgrees(j)'
  BY <1>1, <1>2, <1>3, <1>8, <1>9, <1>12 DEF RowAgrees, Passed, Live
<1>14. RowIsInSlurm(j)'
  BY <1>1, <1>2, <1>3, <1>9 DEF RowIsInSlurm, Terminal, Over
<1>15. \A i \in Job : Forward(i)
  BY <1>9, <1>11, StandsStill
<1>16. QED
  BY <1>1, <1>2, <1>9, <1>10, <1>11, <1>13, <1>14, <1>15, RowsMove

LEMMA RecordFailureForward ==
    ASSUME IInv, RecordFailure
    PROVE  IInv' /\ \A i \in Job : Forward(i)
<1>0. PICK j \in Job \cup {None} : j = api.job
  BY TypeShape DEF IInv, ApiType
<1> DEFINE x == [api.row EXCEPT !.state = "FAILED", !.op = "FAILED"]
<1>1. /\ api.kind = "DIRECT" /\ job' = [job EXCEPT ![j] = x] /\ api' = NoApi
      /\ UNCHANGED <<now, lease, gpu, mem, review, calls, script, slurm, refresh, faults>>
  BY <1>0 DEF RecordFailure
<1>2. /\ j \in Job /\ job[j] = NoJob /\ api.row \in JobRow /\ api.row.slurm = None
      /\ api.row.limit >= 1 /\ api.row.deadline <= lease.until
  BY <1>0, <1>1, EmptyRows, TypeShape DEF IInv, HandlerHolds, ApiType
<1>3. /\ x \in JobRow /\ x.state = "FAILED" /\ x.slurm = None /\ x # NoJob
      /\ x.limit = api.row.limit /\ x.deadline = api.row.deadline
  BY <1>2, EmptyRows DEF JobRow, Terminal
<1>4. gpu[j] = NoApproval /\ mem[j] = NoApproval
  BY <1>2 DEF IInv, RowAgrees
<1> HIDE DEF x
<1>5. job'[j] = x /\ \A i \in Job \ {j} : job'[i] = job[i]
  BY <1>1, <1>2 DEF IInv, TypeOK
<1>6. TypeOK'
  BY <1>1, <1>3, EmptyRows DEF IInv, TypeOK, ApiType
<1>7. Forward(j)
  BY <1>1, <1>2, <1>4, EmptyRows DEF Forward, Terminal, Over
<1>8. RowAgrees(j)'
  BY <1>1, <1>2, <1>3, <1>4, <1>5, EmptyRows DEF RowAgrees
<1>9. RowIsInSlurm(j)'
  BY <1>3, <1>5 DEF RowIsInSlurm
<1>10. \A i \in Job : Forward(i)
  BY <1>1, <1>5, <1>7, StandsStill
<1>11. QED
  BY <1>1, <1>2, <1>5, <1>6, <1>7, <1>8, <1>9, <1>10, RowsMove

LEMMA HandlerGoesForward ==
    ASSUME IInv, RollBackApproval \/ ApiTimesOut \/ ApiDies
    PROVE  IInv' /\ \A i \in Job : Forward(i)
<1>1. /\ UNCHANGED <<now, lease, job, gpu, mem, review, calls, script, slurm, refresh>>
      /\ api' = NoApi \/ (api # NoApi /\ api' = [api EXCEPT !.reply = "LOST", !.req = None])
      /\ UNCHANGED faults \/ Fault
  BY DEF RollBackApproval, ApiTimesOut, ApiDies
<1>2. /\ api' \in ApiType
      /\ \/ api' = NoApi
         \/ /\ api # NoApi /\ api'.kind = api.kind /\ api'.job = api.job /\ api'.row = api.row
            /\ api'.fresh = api.fresh /\ api'.req = None /\ api'.reply = "LOST"
  BY <1>1, EmptyRows, TypeShape DEF IInv, ApiType
<1>3. TypeOK'
  BY <1>1, <1>2, FaultType DEF IInv, TypeOK, ApiType
<1>4. (\A j \in Job : RowAgrees(j) /\ RowIsInSlurm(j))' /\ (\A s \in SlurmId : SlurmJobFits(s))'
  BY <1>1 DEF IInv, RowAgrees, RowIsInSlurm, SlurmJobFits
<1>5. ReviewIsPast' /\ CallsArePast' /\ RefreshIsPast'
  BY <1>1 DEF IInv, ReviewIsPast, ViewIsPast, CallsArePast, CallIsPast, RefreshIsPast
<1>6. HandlerHolds' /\ HandlerWaits'
  BY <1>1, <1>2, EmptyRows DEF IInv, HandlerHolds, HandlerWaits, Passed
<1>7. QED
  BY <1>1, <1>3, <1>4, <1>5, <1>6, StandsStill DEF IInv

-----------------------------------------------------------------------------
(* States: Slurm's, and what the portal copies of them.                    *)

LEMMA StatesMove ==
    ASSUME IInv, TypeOK',
           \A j \in Job : /\ job'[j].slurm = job[j].slurm /\ job'[j].gpus = job[j].gpus
                          /\ job'[j].memory = job[j].memory /\ job'[j].limit = job[j].limit
                          /\ job'[j].deadline = job[j].deadline
                          /\ job[j].slurm = None => job'[j] = job[j]
                          /\ job[j].slurm # None => job'[j].state \in Live \cup Over,
           \A j \in Job : RowIsInSlurm(j)',
           \A s \in SlurmId : /\ slurm'[s].job = slurm[s].job /\ slurm'[s].gpus = slurm[s].gpus
                              /\ slurm'[s].memory = slurm[s].memory
                              /\ slurm[s].state # "NONE" => slurm'[s].state # "NONE",
           \A s \in SlurmId : SlurmJobFits(s)',
           RefreshIsPast',
           UNCHANGED <<now, lease, gpu, mem, review, api, calls, script>>
    PROVE  IInv' /\ \A i \in Job : Forward(i)
<1>1. \A j \in Job : job[j] # NoJob <=> job'[j] # NoJob
  BY EmptyRows
<1>2. ASSUME NEW j \in Job PROVE RowAgrees(j)' /\ Forward(j)
  <2>1. RowAgrees(j)
    BY DEF IInv
  <2>2. CASE job[j].slurm = None
    BY <2>1, <2>2 DEF RowAgrees, Forward, IsPast
  <2>3. CASE job[j].slurm # None
    <3>1. job[j] # NoJob /\ job'[j] # NoJob
      BY <2>3, EmptyRows
    <3>2. /\ job'[j].slurm # None /\ job'[j].state \in Live \cup Over
          /\ job'[j].state # "APPROVAL_PENDING"
      BY <2>3 DEF Live, Over
    <3>3. QED
      BY <2>1, <2>3, <3>1, <3>2 DEF RowAgrees, Forward, IsPast
  <2>4. QED
    BY <2>2, <2>3
<1>3. ReviewIsPast'
  BY <1>1 DEF IInv, ReviewIsPast, ViewIsPast
<1>4. CallsArePast'
  BY <1>1 DEF IInv, CallsArePast, CallIsPast
<1>5. HandlerHolds'
  BY <1>1, EmptyRows DEF IInv, HandlerHolds, Passed
<1>6. HandlerWaits'
  <2>1. api.slurm # None => api.slurm \in SlurmId
    BY DEF IInv, TypeOK
  <2>2. QED
    BY <2>1 DEF IInv, HandlerWaits
<1>7. QED
  BY <1>2, <1>3, <1>4, <1>5, <1>6 DEF IInv

(* A state of Slurm's moves on.                                            *)
MovesOn(s, x) ==
    /\ x \in SlurmRow
    /\ x.job = slurm[s].job /\ x.gpus = slurm[s].gpus /\ x.memory = slurm[s].memory
    /\ x.limit = slurm[s].limit /\ x.deadline = slurm[s].deadline
    /\ x.qos = slurm[s].qos /\ x.whole = slurm[s].whole
    /\ slurm[s].state \in Live /\ x.state \in Live \cup Over
    /\ x.state = "RUNNING" => x.ends <= x.deadline

LEMMA SlurmMovesOn ==
    ASSUME IInv, NEW s \in SlurmId, NEW x, MovesOn(s, x), slurm' = [slurm EXCEPT ![s] = x],
           UNCHANGED <<now, lease, gpu, mem>>
    PROVE  /\ slurm' \in [SlurmId -> SlurmRow]
           /\ slurm'[s] = x /\ \A u \in SlurmId \ {s} : slurm'[u] = slurm[u]
           /\ \A u \in SlurmId : /\ slurm'[u].job = slurm[u].job /\ slurm'[u].gpus = slurm[u].gpus
                                 /\ slurm'[u].memory = slurm[u].memory
                                 /\ slurm[u].state # "NONE" => slurm'[u].state # "NONE"
                                 /\ slurm[u].state \in Over => slurm'[u] = slurm[u]
           /\ \A u \in SlurmId : SlurmJobFits(u)'
<1>1. slurm \in [SlurmId -> SlurmRow] /\ slurm' \in [SlurmId -> SlurmRow]
  BY TypeShape DEF IInv, MovesOn
<1>2. slurm'[s] = x /\ \A u \in SlurmId \ {s} : slurm'[u] = slurm[u]
  BY <1>1
<1>3. \A u \in SlurmId : /\ slurm'[u].job = slurm[u].job /\ slurm'[u].gpus = slurm[u].gpus
                         /\ slurm'[u].memory = slurm[u].memory
                         /\ slurm[u].state # "NONE" => slurm'[u].state # "NONE"
                         /\ slurm[u].state \in Over => slurm'[u] = slurm[u]
  BY <1>2 DEF MovesOn, Live, Over
<1>4. ASSUME NEW u \in SlurmId PROVE SlurmJobFits(u)'
  <2>1. SlurmJobFits(u)
    BY DEF IInv
  <2>2. CASE u = s
    BY <1>2, <2>1, <2>2 DEF SlurmJobFits, MovesOn, Live, Over
  <2>3. CASE u # s
    BY <1>2, <2>1, <2>3 DEF SlurmJobFits
  <2>4. QED
    BY <2>2, <2>3
<1>5. QED
  BY <1>1, <1>2, <1>3, <1>4

LEMMA SlurmGoesOn ==
    ASSUME IInv, NEW s \in SlurmId, SlurmStarts(s) \/ SlurmEnds(s) \/ SlurmRemoves(s)
    PROVE  IInv' /\ \A i \in Job : Forward(i)
<1>1. /\ slurm \in [SlurmId -> SlurmRow] /\ slurm[s] \in SlurmRow /\ now \in Nat
      /\ slurm[s].limit \in Nat /\ slurm[s].deadline \in Nat
  BY Constants, TypeShape DEF IInv, SlurmRow
<1>2. PICK x : MovesOn(s, x) /\ slurm' = [slurm EXCEPT ![s] = x]
  <2>1. CASE SlurmStarts(s)
    <3> DEFINE x == [slurm[s] EXCEPT !.state = "RUNNING", !.ends = now + slurm[s].limit]
    <3>1. now + slurm[s].limit \in Nat /\ now + slurm[s].limit <= slurm[s].deadline
      BY <1>1, <2>1 DEF SlurmStarts
    <3>2. MovesOn(s, x)
      BY <1>1, <2>1, <3>1 DEF SlurmStarts, MovesOn, SlurmRow, Live, Over
    <3>3. slurm' = [slurm EXCEPT ![s] = x]
      BY <1>1, <2>1 DEF SlurmStarts
    <3>4. QED
      BY <3>2, <3>3
  <2>2. CASE SlurmEnds(s)
    <3> DEFINE x == [slurm[s] EXCEPT !.state = "COMPLETED"]
    <3>1. MovesOn(s, x) /\ slurm' = [slurm EXCEPT ![s] = x]
      BY <1>1, <2>2 DEF SlurmEnds, MovesOn, SlurmRow, Live, Over
    <3>2. QED
      BY <3>1
  <2>3. CASE SlurmRemoves(s)
    <3> DEFINE x == [slurm[s] EXCEPT !.state = "DEADLINE"]
    <3>1. MovesOn(s, x) /\ slurm' = [slurm EXCEPT ![s] = x]
      BY <1>1, <2>3 DEF SlurmRemoves, MovesOn, SlurmRow, Live, Over
    <3>2. QED
      BY <3>1
  <2>4. QED
    BY <2>1, <2>2, <2>3
<1>3. UNCHANGED <<now, lease, job, gpu, mem, review, api, calls, script, refresh, faults>>
  BY DEF SlurmStarts, SlurmEnds, SlurmRemoves
<1>4. /\ slurm' \in [SlurmId -> SlurmRow]
      /\ \A u \in SlurmId : /\ slurm'[u].job = slurm[u].job /\ slurm'[u].gpus = slurm[u].gpus
                            /\ slurm'[u].memory = slurm[u].memory
                            /\ slurm[u].state # "NONE" => slurm'[u].state # "NONE"
                            /\ slurm[u].state \in Over => slurm'[u] = slurm[u]
      /\ \A u \in SlurmId : SlurmJobFits(u)'
  BY <1>2, <1>3, SlurmMovesOn
<1>5. TypeOK'
  BY <1>3, <1>4 DEF IInv, TypeOK
<1>6. \A j \in Job : job[j].slurm # None => job[j].slurm \in SlurmId
  BY DEF IInv, TypeOK, JobRow
<1>7. \A j \in Job : RowIsInSlurm(j)'
  BY <1>3, <1>4, <1>6 DEF IInv, RowIsInSlurm
<1>8. RefreshIsPast'
  BY <1>3, <1>4, <1>6 DEF IInv, RefreshIsPast
<1>9. \A j \in Job : job[j].slurm # None => job[j].state \in Live \cup Over
  BY DEF IInv, RowAgrees
<1>10. QED
  BY <1>3, <1>4, <1>5, <1>7, <1>8, <1>9, StatesMove

(* The state of a row that Slurm knows.                                    *)
LEMMA StateType ==
    ASSUME NEW x \in JobRow, NEW st \in Live \cup Over
    PROVE  /\ [x EXCEPT !.state = st] \in JobRow /\ [x EXCEPT !.state = st].state = st
           /\ [x EXCEPT !.state = st].slurm = x.slurm /\ [x EXCEPT !.state = st].gpus = x.gpus
           /\ [x EXCEPT !.state = st].memory = x.memory /\ [x EXCEPT !.state = st].limit = x.limit
           /\ [x EXCEPT !.state = st].deadline = x.deadline
BY DEF JobRow, Terminal

LEMMA CancelSubmittedForward ==
    ASSUME IInv, NEW j \in Job, CancelSubmitted(j)
    PROVE  IInv' /\ \A i \in Job : Forward(i)
<1>1. PICK s : s = job[j].slurm
  OBVIOUS
<1>2. /\ s # None /\ job[j].state \notin Terminal /\ slurm[s].state \in Live
      /\ UNCHANGED <<now, lease, gpu, mem, review, api, calls, script, refresh>>
  BY <1>1 DEF CancelSubmitted
<1>3. PICK w \in Cancelled(slurm[s]) :
        /\ slurm' = [slurm EXCEPT ![s] = w]
        /\ \/ job' = [job EXCEPT ![j] = [job[j] EXCEPT !.state = w.state]] /\ UNCHANGED faults
           \/ Fault /\ UNCHANGED job
  BY <1>1 DEF CancelSubmitted
<1>4. /\ job \in [Job -> JobRow] /\ job[j] \in JobRow /\ slurm \in [SlurmId -> SlurmRow]
      /\ s \in SlurmId /\ slurm[s] \in SlurmRow /\ slurm[s].job = j
  BY <1>1, <1>2, TypeShape DEF IInv, JobRow, RowIsInSlurm
<1>5. MovesOn(s, w) /\ (w.state = "CANCELLED" \/ w = slurm[s])
  <2>1. SlurmJobFits(s)
    BY <1>4 DEF IInv
  <2>2. QED
    BY <1>2, <1>3, <1>4, <2>1 DEF Cancelled, MovesOn, SlurmJobFits, SlurmRow, Live, Over
<1>6. /\ slurm' \in [SlurmId -> SlurmRow] /\ slurm'[s] = w
      /\ \A u \in SlurmId \ {s} : slurm'[u] = slurm[u]
      /\ \A u \in SlurmId : /\ slurm'[u].job = slurm[u].job /\ slurm'[u].gpus = slurm[u].gpus
                            /\ slurm'[u].memory = slurm[u].memory
                            /\ slurm[u].state # "NONE" => slurm'[u].state # "NONE"
                            /\ slurm[u].state \in Over => slurm'[u] = slurm[u]
      /\ \A u \in SlurmId : SlurmJobFits(u)'
  BY <1>2, <1>3, <1>4, <1>5, SlurmMovesOn
<1>7. \A i \in Job : job[i].slurm # None => job[i].slurm \in SlurmId /\ job[i].state \in Live \cup Over
  BY DEF IInv, TypeOK, JobRow, RowAgrees
<1> DEFINE x == [job[j] EXCEPT !.state = w.state]
<1>8. /\ x \in JobRow /\ x.state = w.state /\ x.slurm = job[j].slurm /\ x.gpus = job[j].gpus
      /\ x.memory = job[j].memory /\ x.limit = job[j].limit /\ x.deadline = job[j].deadline
      /\ w.state \in Live \cup Over
  BY <1>4, <1>5, StateType DEF MovesOn
<1>8a. job' = job \/ job' = [job EXCEPT ![j] = x]
  BY <1>3
<1> HIDE DEF x
<1>8b. /\ job' \in [Job -> JobRow]
       /\ \A i \in Job \ {j} : job'[i] = job[i]
       /\ job'[j] = job[j] \/ job'[j] = x
  BY <1>4, <1>8, <1>8a
<1>9. \A i \in Job : /\ job'[i].slurm = job[i].slurm /\ job'[i].gpus = job[i].gpus
                     /\ job'[i].memory = job[i].memory /\ job'[i].limit = job[i].limit
                     /\ job'[i].deadline = job[i].deadline
                     /\ job[i].slurm = None => job'[i] = job[i]
                     /\ job[i].slurm # None => job'[i].state \in Live \cup Over
  BY <1>1, <1>2, <1>7, <1>8, <1>8b
<1>10. TypeOK'
  BY <1>2, <1>3, <1>6, <1>8b, FaultType DEF IInv, TypeOK
<1>11. ASSUME NEW i \in Job PROVE RowIsInSlurm(i)'
  <2>1. RowIsInSlurm(i)
    BY DEF IInv
  <2>2. CASE i # j
    BY <1>6, <1>7, <1>8b, <2>1, <2>2 DEF RowIsInSlurm
  <2>3. CASE i = j
    <3>1. job'[j].state \in Terminal => job'[j].state = w.state
      BY <1>2, <1>8, <1>8b
    <3>2. w.state \in Terminal => w.state \in Over
      BY <1>5 DEF MovesOn, Live, Over, Terminal
    <3>3. QED
      BY <1>1, <1>4, <1>6, <1>9, <2>1, <2>3, <3>1, <3>2 DEF RowIsInSlurm
  <2>4. QED
    BY <2>2, <2>3
<1>12. RefreshIsPast'
  BY <1>2, <1>6, <1>7, <1>9 DEF IInv, RefreshIsPast
<1>13. QED
  BY <1>2, <1>6, <1>9, <1>10, <1>11, <1>12, StatesMove

LEMMA RefreshReadsForward ==
    ASSUME IInv, NEW f \in Refresher, NEW j \in Job, RefreshReads(f, j)
    PROVE  IInv' /\ \A i \in Job : Forward(i)
<1>1. PICK s : s = job[j].slurm
  OBVIOUS
<1>2. /\ s # None /\ job[j].state \notin Terminal
      /\ refresh' = [refresh EXCEPT ![f] = [job |-> j, seen |-> slurm[s].state]]
      /\ UNCHANGED <<now, lease, job, gpu, mem, review, api, calls, script, slurm, faults>>
  BY <1>1 DEF RefreshReads
<1>3. /\ s \in SlurmId /\ slurm[s] \in SlurmRow /\ slurm[s].job = j
      /\ job[j].state \in Live
  BY <1>1, <1>2, TypeShape DEF IInv, JobRow, RowIsInSlurm, RowAgrees, Terminal
<1>4. slurm[s].state \in Live \cup Over
  BY <1>3, EmptyRows, Constants DEF IInv, SlurmJobFits, SlurmRow
<1>5. TypeOK'
  BY <1>2, <1>3, <1>4 DEF IInv, TypeOK
<1>5a. /\ refresh'[f] = [job |-> j, seen |-> slurm[s].state]
       /\ \A g \in Refresher \ {f} : refresh'[g] = refresh[g]
  BY <1>2 DEF IInv, TypeOK
<1>6. RefreshIsPast'
  BY <1>1, <1>2, <1>4, <1>5a DEF IInv, RefreshIsPast
<1>7. (\A i \in Job : RowIsInSlurm(i))' /\ (\A u \in SlurmId : SlurmJobFits(u))'
  BY <1>2 DEF IInv, RowIsInSlurm, SlurmJobFits
<1>8. \A i \in Job : job[i].slurm # None => job[i].state \in Live \cup Over
  BY DEF IInv, RowAgrees
<1>9. QED
  BY <1>2, <1>5, <1>6, <1>7, <1>8, StatesMove

LEMMA RefreshWritesForward ==
    ASSUME IInv, NEW f \in Refresher, RefreshWrites(f)
    PROVE  IInv' /\ \A i \in Job : Forward(i)
<1>1. PICK j : j = refresh[f].job
  OBVIOUS
<1>2. /\ j \in Job /\ job[j].slurm # None /\ refresh[f].seen \in Live \cup Over
      /\ refresh[f].seen \in Over => slurm[job[j].slurm].state \in Over
      /\ job' = [job EXCEPT ![j] = [job[j] EXCEPT !.state = refresh[f].seen]]
      /\ refresh' = [refresh EXCEPT ![f] = NoRefresh]
      /\ UNCHANGED <<now, lease, gpu, mem, review, api, calls, script, slurm, faults>>
  BY <1>1 DEF IInv, RefreshIsPast, RefreshWrites
<1>3. PICK seen \in Live \cup Over : seen = refresh[f].seen
  BY <1>2
<1>4. job \in [Job -> JobRow] /\ job[j] \in JobRow
  BY <1>2, TypeShape DEF IInv
<1> DEFINE x == [job[j] EXCEPT !.state = seen]
<1>5. /\ x \in JobRow /\ x.state = seen /\ x.slurm = job[j].slurm /\ x.gpus = job[j].gpus
      /\ x.memory = job[j].memory /\ x.limit = job[j].limit /\ x.deadline = job[j].deadline
  BY <1>4, StateType
<1>5a. job' = [job EXCEPT ![j] = x]
  BY <1>2, <1>3
<1> HIDE DEF x
<1>5b. /\ job' \in [Job -> JobRow]
       /\ \A i \in Job \ {j} : job'[i] = job[i]
       /\ job'[j] = x
  BY <1>2, <1>4, <1>5, <1>5a
<1>6. \A i \in Job : job[i].slurm # None => job[i].slurm \in SlurmId /\ job[i].state \in Live \cup Over
  BY DEF IInv, TypeOK, JobRow, RowAgrees
<1>7. \A i \in Job : /\ job'[i].slurm = job[i].slurm /\ job'[i].gpus = job[i].gpus
                     /\ job'[i].memory = job[i].memory /\ job'[i].limit = job[i].limit
                     /\ job'[i].deadline = job[i].deadline
                     /\ job[i].slurm = None => job'[i] = job[i]
                     /\ job[i].slurm # None => job'[i].state \in Live \cup Over
  BY <1>2, <1>5, <1>5b, <1>6
<1>8. TypeOK'
  BY <1>2, <1>5b DEF IInv, TypeOK, NoRefresh
<1>9. ASSUME NEW i \in Job PROVE RowIsInSlurm(i)'
  <2>1. RowIsInSlurm(i)
    BY DEF IInv
  <2>2. CASE job'[i] = job[i]
    BY <1>2, <2>1, <2>2 DEF RowIsInSlurm
  <2>3. CASE job'[i] # job[i]
    <3>1. i = j /\ job'[j].state = seen
      BY <1>5, <1>5b, <2>3
    <3>2. seen \in Terminal => seen \in Over
      BY DEF Live, Over, Terminal
    <3>3. QED
      BY <1>2, <1>3, <1>7, <2>1, <3>1, <3>2 DEF RowIsInSlurm
  <2>4. QED
    BY <2>2, <2>3
<1>9a. /\ refresh'[f] = NoRefresh
       /\ \A g \in Refresher \ {f} : refresh'[g] = refresh[g]
  BY <1>2 DEF IInv, TypeOK
<1>10. RefreshIsPast' /\ (\A u \in SlurmId : SlurmJobFits(u))'
  BY <1>2, <1>7, <1>9a DEF IInv, SlurmJobFits, RefreshIsPast
<1>11. QED
  BY <1>2, <1>7, <1>8, <1>9, <1>10, StatesMove

-----------------------------------------------------------------------------
(* The clock and the lease.                                                *)

LEMMA TimeGoesOn ==
    ASSUME IInv, Tick \/ LeaseRolls \/ \E d \in Time : LeaseRenewed(d) \/ LeaseRestored(d)
    PROVE  IInv' /\ \A i \in Job : Forward(i)
<1>1. /\ UNCHANGED <<job, gpu, mem, review, api, calls, script, slurm, refresh, faults>>
      /\ \/ now' = now
         \/ now' = now + 1 /\ now < Horizon /\ Prompt
  BY DEF Tick, LeaseRolls, LeaseRenewed, LeaseRestored
<1>2. /\ now \in 0..Horizon /\ Horizon \in Nat
      /\ lease \in [id : Nat, ends : Time, until : Time, gpu : BOOLEAN]
      /\ lease.until \in Nat /\ lease.ends \in Nat /\ lease.id \in Nat
  BY Constants DEF IInv, TypeOK, Time
<1>3. /\ lease' \in [id : Nat, ends : Time, until : Time, gpu : BOOLEAN]
      /\ lease.until <= lease'.until
  <2>1. CASE Tick
    BY <1>2, <2>1 DEF Tick
  <2>2. CASE LeaseRolls
    <3>1. lease' = [lease EXCEPT !.id = lease.id + 1, !.ends = lease.until]
      BY <2>2 DEF LeaseRolls
    <3>2. lease.id + 1 \in Nat /\ lease.until \in Time
      BY <1>2
    <3>3. /\ lease' \in [id : Nat, ends : Time, until : Time, gpu : BOOLEAN]
          /\ lease'.until = lease.until
      BY <1>2, <3>1, <3>2
    <3>4. QED
      BY <1>2, <3>3
  <2>3. ASSUME NEW d \in Time, LeaseRenewed(d) \/ LeaseRestored(d)
        PROVE  /\ lease' \in [id : Nat, ends : Time, until : Time, gpu : BOOLEAN]
               /\ lease.until <= lease'.until
    <3>1. d \in Nat /\ lease.until <= d
      <4>1. d \in Nat /\ now \in Nat
        BY <1>2, Constants
      <4>2. CASE LeaseRenewed(d)
        BY <1>2, <4>1, <4>2 DEF LeaseRenewed
      <4>3. CASE LeaseRestored(d)
        <5>1. d \in now + 1..Horizon /\ lease.until <= now
          BY <4>3 DEF LeaseRestored
        <5>2. now + 1 \in Nat /\ lease.until \in Nat /\ Horizon \in Nat
          BY <1>2, <4>1
        <5>3. now + 1 <= d
          BY <5>1, <5>2
        <5>4. QED
          BY <4>1, <5>1, <5>2, <5>3
      <4>4. QED
        BY <2>3, <4>2, <4>3
    <3>2. /\ lease' \in [id : Nat, ends : Time, until : Time, gpu : BOOLEAN]
          /\ lease'.until = d
      <4>1. lease.id + 1 \in Nat
        BY <1>2
      <4>2. \/ lease' = [lease EXCEPT !.until = d]
            \/ lease' = [lease EXCEPT !.id = lease.id + 1, !.ends = d, !.until = d]
        BY <2>3 DEF LeaseRenewed, LeaseRestored
      <4>3. QED
        BY <1>2, <4>1, <4>2
    <3>3. QED
      BY <3>1, <3>2
  <2>4. QED
    BY <2>1, <2>2, <2>3
<1>4. lease'.until \in Nat /\ now' \in Time /\ now \in Nat
  BY <1>1, <1>2, <1>3, Constants DEF Time
<1>5. TypeOK'
  BY <1>1, <1>3, <1>4 DEF IInv, TypeOK
<1>6. ASSUME NEW j \in Job PROVE RowAgrees(j)' /\ RowIsInSlurm(j)'
  <2>1. job[j].deadline \in Nat
    BY Constants DEF IInv, TypeOK, JobRow
  <2>2. QED
    BY <1>1, <1>2, <1>3, <1>4, <2>1 DEF IInv, RowAgrees, RowIsInSlurm
<1>7. ReviewIsPast' /\ RefreshIsPast' /\ HandlerWaits'
  BY <1>1 DEF IInv, ReviewIsPast, ViewIsPast, RefreshIsPast, HandlerWaits
<1>8. CallsArePast'
  <2>1. \A r \in Request : calls[r].row.deadline \in Nat
    BY Constants DEF IInv, TypeOK, JobRow
  <2>2. QED
    BY <1>1, <1>2, <1>3, <1>4, <2>1 DEF IInv, CallsArePast, CallIsPast
<1>9. HandlerHolds'
  <2>1. api.row.deadline \in Nat
    BY Constants DEF IInv, TypeOK, JobRow
  <2>2. QED
    BY <1>1, <1>2, <1>3, <1>4, <2>1 DEF IInv, HandlerHolds, Passed
<1>10. ASSUME NEW s \in SlurmId PROVE SlurmJobFits(s)'
  <2>1. slurm[s].deadline \in Nat /\ slurm[s].limit \in Nat /\ slurm[s].ends \in Nat
    BY Constants DEF IInv, TypeOK, SlurmRow
  <2>2. SlurmJobFits(s)
    BY DEF IInv
  <2>3. slurm[s].state \in Live => now' <= slurm[s].deadline
    <3>1. CASE now' = now
      BY <2>2, <3>1 DEF SlurmJobFits, Live
    <3>2. CASE now' = now + 1 /\ Prompt
      BY <1>4, <2>1, <2>2, <3>2 DEF SlurmJobFits, Live, Prompt
    <3>3. QED
      BY <1>1, <3>1, <3>2
  <2>4. slurm[s].state # "NONE" => slurm[s].deadline <= lease'.until
    BY <1>2, <1>3, <1>4, <2>1, <2>2 DEF SlurmJobFits
  <2>5. QED
    BY <1>1, <2>2, <2>3, <2>4 DEF SlurmJobFits
<1>11. QED
  BY <1>1, <1>5, <1>6, <1>7, <1>8, <1>9, <1>10, StandsStill DEF IInv

-----------------------------------------------------------------------------
LEMMA NextForward ==
    IInv /\ [Next]_vars => IInv' /\ \A j \in Job : Forward(j)
<1> DEFINE Moves == IInv' /\ \A j \in Job : Forward(j)
<1> SUFFICES ASSUME IInv, [Next]_vars PROVE Moves
  OBVIOUS
<1>1. ASSUME NEW j \in Job, NEW g \in GpuRequests, NEW m \in MemoryRequests, NEW t \in Limits,
             SubmitDirect(j, g, m, t) \/ SubmitForApproval(j, g, m, t)
      PROVE  Moves
  <2>1. CASE SubmitDirect(j, g, m, t)
    <3>1. UNCHANGED <<job, gpu, mem>>
      BY <2>1 DEF SubmitDirect
    <3>2. IInv'
      BY <2>1, SubmitDirectPreserves
    <3>3. QED
      BY <3>1, <3>2, StandsStill
  <2>2. CASE SubmitForApproval(j, g, m, t)
    BY <2>2, SubmitForApprovalForward
  <2>3. QED
    BY <1>1, <2>1, <2>2
<1>2. ASSUME NEW j \in Job,
             \/ Reads(j) \/ CancelBeforeApproval(j) \/ CancelSubmitted(j)
             \/ \E f \in Refresher : RefreshReads(f, j)
      PROVE  Moves
  BY <1>2, ReviewForward, CancelBeforeForward, CancelSubmittedForward, RefreshReadsForward
<1>3. ASSUME NEW w, RejectGpu(w) \/ RejectMemory(w) PROVE Moves
  BY <1>3, RejectsForward
<1>4. ASSUME NEW w, NEW n \in 1..4, ApproveGpu(w, n) PROVE Moves
  BY <1>4, ApproveGpuForward
<1>5. ASSUME NEW w, NEW n \in MemoryRequests, ApproveMemory(w, n) PROVE Moves
  BY <1>5, ApproveMemoryForward
<1>6. ASSUME NEW r \in Request, WorkerSubmits(r) PROVE Moves
  BY <1>6, WorkerSubmitsForward
<1>7. ASSUME NEW r \in Request,
             WorkerRefuses(r) \/ ChecksFail(r) \/ SbatchFails(r) \/ WorkerDies(r)
      PROVE  Moves
  BY <1>7, WorkerFailsForward
<1>8. CASE CommitJob \/ RecordFailure \/ RollBackApproval \/ ApiTimesOut \/ ApiDies
  BY <1>8, CommitForward, RecordFailureForward, HandlerGoesForward
<1>9. CASE (\E f \in Refresher : RefreshWrites(f)) \/ ReviewRefused
  BY <1>9, RefreshWritesForward, ReviewForward
<1>10. ASSUME NEW s \in SlurmId, SlurmStarts(s) \/ SlurmEnds(s) \/ SlurmRemoves(s) PROVE Moves
  BY <1>10, SlurmGoesOn
<1>11. CASE Tick \/ LeaseRolls \/ \E d \in Time : LeaseRenewed(d) \/ LeaseRestored(d)
  BY <1>11, TimeGoesOn
<1>12. CASE UNCHANGED vars
  <2>1. UNCHANGED <<now, lease, job, gpu, mem, review, api, calls, script, slurm, refresh, faults>>
    BY <1>12 DEF vars
  <2>2. QED
    BY <2>1, NothingMoves
<1> HIDE DEF Moves
<1>13. QED
  BY <1>1, <1>2, <1>3, <1>4, <1>5, <1>6, <1>7, <1>8, <1>9, <1>10, <1>11, <1>12 DEF Next

-----------------------------------------------------------------------------
(* The inductive invariant holds in every reachable state.                 *)
THEOREM Invariance == Spec => []IInv
<1>1. IInv /\ [Next]_vars => IInv'
  BY NextForward
<1>2. QED
  BY <1>1, InitIInv, PTL DEF Spec

(* Every variable has its shape: no row, answer, refresh or Slurm job ever *)
(* has a state that its column does not.                                   *)
THEOREM TypeCorrect == Spec => []TypeOK
<1>1. IInv => TypeOK
  BY DEF IInv
<1>2. QED
  BY <1>1, Invariance, PTL

(* Whatever was lost, rolled back or decided on what has changed since,    *)
(* Slurm holds no more than an approval was asked for, and the job a row   *)
(* names is the one that was approved.                                     *)
THEOREM ApprovedJobsRun == Spec => []SlurmRunsWhatWasApproved
<1>1. IInv => SlurmRunsWhatWasApproved
  <2> SUFFICES ASSUME IInv PROVE SlurmRunsWhatWasApproved
    OBVIOUS
  <2>1. ASSUME NEW s \in Submitted
        PROVE  /\ slurm[s].gpus > 1 => slurm[s].gpus <= gpu[slurm[s].job].requested
               /\ slurm[s].memory > 1 => slurm[s].memory <= mem[slurm[s].job].requested
               /\ slurm[s].qos = "portal-approved-multigpu" <=> slurm[s].gpus > 1
               /\ slurm[s].whole
    BY DEF IInv, SlurmJobFits, Submitted
  <2>2. ASSUME NEW j \in Job, job[j].slurm # None
        PROVE  /\ slurm[job[j].slurm].job = j /\ slurm[job[j].slurm].gpus = job[j].gpus
               /\ slurm[job[j].slurm].memory = job[j].memory
               /\ gpu[j].state = "NONE" \/ gpu[j] = Approved(gpu[j], slurm[job[j].slurm].gpus)
               /\ mem[j].state = "NONE" \/ mem[j] = Approved(mem[j], slurm[job[j].slurm].memory)
    <3>1. /\ slurm[job[j].slurm].job = j /\ slurm[job[j].slurm].gpus = job[j].gpus
          /\ slurm[job[j].slurm].memory = job[j].memory
      BY <2>2 DEF IInv, RowIsInSlurm
    <3>2. gpu[j] \in Approval /\ mem[j] \in Approval
      BY TypeShape DEF IInv
    <3>3. \A a \in Approval : a.state = "APPROVED" => a = Approved(a, a.approved)
      BY DEF Approval, Approved
    <3>4. /\ gpu[j].state = "NONE" \/ (gpu[j].state = "APPROVED" /\ gpu[j].approved = job[j].gpus)
          /\ mem[j].state = "NONE" \/ (mem[j].state = "APPROVED" /\ mem[j].approved = job[j].memory)
      BY <2>2 DEF IInv, RowAgrees
    <3>5. QED
      BY <3>1, <3>2, <3>3, <3>4
  <2>3. QED
    BY <2>1, <2>2 DEF SlurmRunsWhatWasApproved
<1>2. QED
  BY <1>1, Invariance, PTL

(* A job that Slurm still has is inside the lease chain it was submitted   *)
(* under, however late it was submitted.                                   *)
THEOREM JobsEndWithTheLease == Spec => []NoJobOutlivesItsLease
<1>1. IInv => NoJobOutlivesItsLease
  BY DEF IInv, SlurmJobFits, NoJobOutlivesItsLease, Submitted
<1>2. QED
  BY <1>1, Invariance, PTL

(* A row never says that a job has ended while Slurm still has it.         *)
THEOREM RowsDoNotRunAhead == Spec => []EndedRowsHaveEnded
<1>1. IInv => EndedRowsHaveEnded
  BY DEF IInv, RowIsInSlurm, EndedRowsHaveEnded
<1>2. QED
  BY <1>1, Invariance, PTL

(* A committed decision, a recorded Slurm id and a refused job are final:  *)
(* no failure, retry or rollback of what follows changes them.             *)
THEOREM DecisionsStand == Spec => DecisionsAreFinal
<1> DEFINE Final ==
             \A j \in Job :
               /\ gpu[j].state \in {"APPROVED", "REJECTED", "CANCELLED"} => gpu'[j] = gpu[j]
               /\ mem[j].state \in {"APPROVED", "REJECTED", "CANCELLED"} => mem'[j] = mem[j]
               /\ job[j].slurm # None => job'[j].slurm = job[j].slurm
               /\ job[j].slurm = None /\ job[j].state \in Terminal => job'[j] = job[j]
<1>1. IInv /\ [Next]_vars => [Final]_vars
  BY NextForward DEF Forward
<1>2. QED
  BY <1>1, Invariance, PTL DEF Spec, DecisionsAreFinal
=============================================================================
