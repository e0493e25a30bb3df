--------------------------- MODULE LeaseLifecycle ---------------------------
(***************************************************************************)
(* The life of one owner's compute environment in the Origin Forge portal: *)
(* lease, renewal, expiry, recycle bin, restore.                           *)
(*                                                                         *)
(* A database transaction that holds its row locks to the end is one       *)
(* action.  A handler that looks at the clock before it has its locks, or  *)
(* that commits and goes on, is several: an administrator's decision on a  *)
(* renewal (clock, then locks), the expiry worker (cancel, read, one       *)
(* transaction per lease), a restore (commit RESTORING, Root Worker,       *)
(* commit).  Requests that are refused change nothing and are stutters, as *)
(* is the replay of an idempotency key.                                    *)
(***************************************************************************)
EXTENDS LeaseHost, FiniteSets

CONSTANTS
    Lease,            \* ids of lease rows, the uuids drawn for them
    Renewal,          \* ids of renewal requests
    Restore,          \* ids of restore requests
    None,             \* no id
    FirstLease,       \* the lease issued by the activation of the environment
    FirstExpiry,      \* when it ends
    Durations,        \* durations the owner may ask for
    RenewalWindow,    \* RENEWAL_WINDOW_SECONDS
    MaxAttempts,      \* MAX_AUTOMATIC_ATTEMPTS
    RetryDelay,       \* AUTOMATIC_RETRY_DELAYS_SECONDS, from attempt 1 on
    Horizon,          \* bound: the clock stops here, no lease ends later
    MaxDecisionLag,   \* bound: ticks a decision waits for its row locks
    MaxCrashes,       \* bound: processes that die in the middle
    MaxWorkerFaults   \* bound: failed, refused or unanswered Worker calls

ASSUME LeaseAssumption ==
    /\ FirstLease \in Lease
    /\ None \notin Lease \cup Renewal \cup Restore
    /\ IsFiniteSet(Lease)
ASSUME TimeAssumption ==
    /\ Horizon \in Nat /\ FirstExpiry \in 1..Horizon
    /\ Durations \subseteq Nat \ {0}
    /\ RenewalWindow \in Nat
ASSUME RetryAssumption ==
    /\ MaxAttempts \in Nat \ {0}
    /\ RetryDelay \in [1..(MaxAttempts - 1) -> Nat]
ASSUME BoundAssumption ==
    MaxDecisionLag \in Nat /\ MaxCrashes \in Nat /\ MaxWorkerFaults \in Nat

VARIABLES
    now,        \* the clock shared by the portal, the database and the host
    lease,      \* portal_compute_leases
    renewal,    \* portal_lease_renewal_requests
    item,       \* state of the recycle item of a lease (UNIQUE lease_id)
    restore,    \* portal_resource_restore_requests
    op,         \* the operation lease-expire:{lease} and its retry evidence
    owner,      \* the owner's rows: managed user, policy, keys
    host,       \* the environment on the host, see LeaseHost
    decision,   \* a decision on a renewal between its clock and its locks
    scan,       \* the expiry worker
    restoring,  \* a restore between its two commits
    left,       \* calls of the Root Worker whose answer nobody waits for
    overtaken,  \* history: leases that moved on behind the expiry worker
    faults      \* crashes and Worker faults so far

rows == <<lease, renewal, item, restore, op, owner>>
vars == <<now, rows, host, decision, scan, restoring, left, overtaken, faults>>

-----------------------------------------------------------------------------
Time == 0..Horizon
ActiveStates == {"ACTIVE", "RENEWAL_WINDOW", "RENEWAL_PENDING"}
DueStates == ActiveStates \cup {"EXPIRED"}

(* UNSAVED: an id and a window made for a restore whose lease row is not   *)
(* in the database, yet or ever.  No query sees it.                        *)
LeaseRow == [state : DueStates \cup {"NONE", "UNSAVED", "APPROVED", "RECYCLE_BIN"},
             starts : Time, expires : Time, prev : Lease \cup {None},
             recycled : BOOLEAN]
RenewalRow == [state : {"NONE", "REQUESTED", "APPROVED", "REJECTED", "CANCELLED"},
               lease : Lease \cup {None}, duration : Nat,
               result : Lease \cup {None}]
ItemState == {"NONE", "RECYCLE_BIN", "RESTORE_PENDING", "RESTORING",
              "RESTORED", "FAILED"}
RestoreRow == [state : {"NONE", "REQUESTED", "RESTORING", "RESTORED",
                        "REJECTED", "FAILED"},
               item : Lease \cup {None}, duration : Nat, approval : BOOLEAN]
OpRow == [status : {"NONE", "FAILED", "SUCCEEDED"}, attempts : 0..MaxAttempts,
          retryAt : Time, manual : BOOLEAN]
OwnerRow == [env : {"ACTIVE", "SUSPENDED", "RECYCLED", "RESTORE_PENDING", "FAILED"},
             approval : BOOLEAN,
             keys : {"INSTALLED", "SUSPENDED_BY_RECYCLE"}]
LeftCalls ==
    [op : {"recycle", "start"}, lease : Lease, item : {None}, nth : Nat, served : BOOLEAN]
      \cup [op : {"restore", "rollback"}, lease : Lease, item : Lease, nth : Nat,
            served : BOOLEAN]

NoLease == [state |-> "NONE", starts |-> 0, expires |-> 0, prev |-> None,
            recycled |-> FALSE]
NoRenewal == [state |-> "NONE", lease |-> None, duration |-> 0, result |-> None]
NoRestore == [state |-> "NONE", item |-> None, duration |-> 0, approval |-> FALSE]
NoOp == [status |-> "NONE", attempts |-> 0, retryAt |-> 0, manual |-> FALSE]
NoDecision == [req |-> None, approve |-> FALSE, at |-> 0]
NoScan == [pc |-> "IDLE", due |-> {}, lease |-> None]
NoRestoring == [req |-> None, lease |-> None, by |-> "OWNER", reply |-> "PENDING"]

Init ==
    /\ now = 0
    /\ lease = [l \in Lease |->
                  IF l = FirstLease
                  THEN [NoLease EXCEPT !.state = "ACTIVE", !.expires = FirstExpiry]
                  ELSE NoLease]
    /\ renewal = [r \in Renewal |-> NoRenewal]
    /\ item = [l \in Lease |-> "NONE"]
    /\ restore = [r \in Restore |-> NoRestore]
    /\ op = [l \in Lease |-> NoOp]
    /\ owner \in [env : {"ACTIVE"}, approval : BOOLEAN, keys : {"INSTALLED"}]
    /\ host = [lease |-> FirstLease, status |-> "ACTIVE",
               keys |-> "INSTALLED", running |-> TRUE]
    /\ decision = NoDecision
    /\ scan = NoScan
    /\ restoring = NoRestoring
    /\ left = {}
    /\ overtaken = {}
    /\ faults = [crash |-> 0, worker |-> 0]

Crash == /\ faults.crash < MaxCrashes
         /\ faults' = [faults EXCEPT !.crash = @ + 1]
WorkerFault == /\ faults.worker < MaxWorkerFaults
               /\ faults' = [faults EXCEPT !.worker = @ + 1]

ClockAdvances ==
    /\ now < Horizon
    /\ decision = NoDecision \/ now < decision.at + MaxDecisionLag
    /\ now' = now + 1

(* One call of the Root Worker: it answers as its checks demand, or fails. *)
CallWorker(replies, failures, w) ==
    \/ w \in replies /\ UNCHANGED faults
    \/ w \in failures /\ WorkerFault

(* A call whose caller gave up or died stays with the Worker, which may    *)
(* serve it at any later time, or never.                                   *)
LeftCall(o, l, i) ==
    [op |-> o, lease |-> l, item |-> i, nth |-> faults.worker + faults.crash,
     served |-> FALSE]

Leaves(w, call) == left' = IF w.reply = "LOST" THEN left \cup {call} ELSE left

-----------------------------------------------------------------------------
(* The lease chain.                                                        *)

Successors(l) == {s \in Lease : lease[s].prev = l}

ApprovedSuccessors(l) == {s \in Successors(l) : lease[s].state = "APPROVED"}

ActivatableSuccessors(l) ==
    {s \in ApprovedSuccessors(l) : lease[s].starts <= now /\ now < lease[s].expires}

StartedLeases ==
    {l \in Lease : lease[l].state \in ActiveStates /\ lease[l].starts <= now}

LatestStarted ==
    CHOOSE l \in StartedLeases :
        \A m \in StartedLeases : lease[m].starts <= lease[l].starts

(* The lease that entitles the owner now, None when the answer is          *)
(* LEASE_INACTIVE: the latest started one, or its approved successor.      *)
EntitledLease ==
    IF StartedLeases = {} THEN None
    ELSE IF now < lease[LatestStarted].expires THEN LatestStarted
    ELSE IF ActivatableSuccessors(LatestStarted) = {} THEN None
    ELSE CHOOSE s \in ActivatableSuccessors(LatestStarted) : TRUE

Entitled == EntitledLease # None

(* The rows after the call: the successor has taken over from a lease that *)
(* is over.                                                                *)
AfterEnsure ==
    IF Entitled /\ EntitledLease \notin StartedLeases
    THEN [lease EXCEPT ![LatestStarted].state = "EXPIRED",
                       ![EntitledLease].state = "ACTIVE"]
    ELSE lease

(* A request of the owner activates the successor of the very lease that   *)
(* the expiry worker has found due and waits to lock.                      *)
HandsOverLease ==
    overtaken' = overtaken \cup {l \in Lease : l = scan.lease /\ AfterEnsure[l] # lease[l]}

(* t ends the chain of APPROVED successors that starts at l.               *)
ChainEnds(l, t) ==
    /\ ApprovedSuccessors(t) = {}
    /\ \A S \in SUBSET Lease :
          (l \in S /\ \A m \in S : ApprovedSuccessors(m) \subseteq S) => t \in S

UnusedLeases == {l \in Lease : lease[l].state = "NONE"}

FreshLease == CHOOSE l \in UnusedLeases : TRUE

NewLease(state, starts, d, prev) ==
    [state |-> state, starts |-> starts, expires |-> starts + d, prev |-> prev,
     recycled |-> FALSE]

(* Lease l gets an approved successor; the database refuses a second one.  *)
CanGrant(l, d) ==
    /\ Successors(l) = {}
    /\ UnusedLeases # {}
    /\ lease[l].expires + d <= Horizon

(* Mutant: the successor starts when it is granted, not when l ends.       *)
GrantFromNow(rowset, l, d) ==
    [[rowset EXCEPT ![l].state = "RENEWAL_WINDOW"]
        EXCEPT ![FreshLease] = NewLease("APPROVED", now, d, l)]

Grant(rowset, l, d) ==
    [[rowset EXCEPT ![l].state = "RENEWAL_WINDOW"]
        EXCEPT ![FreshLease] = NewLease("APPROVED", rowset[l].expires, d, l)]

-----------------------------------------------------------------------------
(* Renewal requests.                                                       *)

OpenRenewals == {r \in Renewal : renewal[r].state = "REQUESTED"}

(* POST /self/lease/renewals under the policy that asks for a review, and  *)
(* under the one that approves in the same transaction.                    *)
(* Mutant: the pending request is not looked for.                          *)
RenewalRequestUnchecked(d, r, l) ==
    /\ Entitled
    /\ ChainEnds(EntitledLease, l)
    /\ now < lease[l].expires /\ lease[l].expires - now <= RenewalWindow
    /\ renewal[r].state = "NONE"
    /\ lease[l].expires + d <= Horizon

RenewalRequest(d, r, l) ==
    /\ Entitled
    /\ ChainEnds(EntitledLease, l)
    /\ now < lease[l].expires /\ lease[l].expires - now <= RenewalWindow
    /\ OpenRenewals = {}
    /\ renewal[r].state = "NONE"
    /\ lease[l].expires + d <= Horizon

RequestRenewal(d, r, l) ==
    /\ owner.approval
    /\ RenewalRequest(d, r, l)
    /\ renewal' = [renewal EXCEPT ![r] =
                     [NoRenewal EXCEPT !.state = "REQUESTED", !.lease = l,
                                       !.duration = d]]
    /\ lease' = [AfterEnsure EXCEPT ![EntitledLease].state = "RENEWAL_PENDING"]
    /\ HandsOverLease
    /\ UNCHANGED <<now, item, restore, op, owner, host, decision, scan,
                   restoring, left, faults>>

AutoRenew(d, r, l) ==
    /\ ~owner.approval
    /\ RenewalRequest(d, r, l)
    /\ CanGrant(l, d)
    /\ renewal' = [renewal EXCEPT ![r] =
                     [state |-> "APPROVED", lease |-> l, duration |-> d,
                      result |-> FreshLease]]
    /\ lease' = Grant([AfterEnsure EXCEPT ![EntitledLease].state = "RENEWAL_PENDING"],
                      l, d)
    /\ HandsOverLease
    /\ UNCHANGED <<now, item, restore, op, owner, host, decision, scan,
                   restoring, left, faults>>

(* The lease ends between the two looks the handler takes at the clock: the *)
(* request is committed as CANCELLED.                                      *)
AutoRenewLate(d, r, l) ==
    /\ ~owner.approval
    /\ RenewalRequest(d, r, l)
    /\ ClockAdvances
    /\ lease[l].expires <= now'
    /\ renewal' = [renewal EXCEPT ![r] =
                     [NoRenewal EXCEPT !.state = "CANCELLED", !.lease = l,
                                       !.duration = d]]
    /\ LET pending == [AfterEnsure EXCEPT ![EntitledLease].state = "RENEWAL_PENDING"]
       IN  lease' = [pending EXCEPT
                       ![l].state = IF @ \in ActiveStates THEN "EXPIRED" ELSE @]
    /\ HandsOverLease
    /\ UNCHANGED <<item, restore, op, owner, host, decision, scan, restoring,
                   left, faults>>

(* POST /admin/lease-renewals/{id}/decision.  decide_renewal reads the     *)
(* clock first and then waits for the rows of the request and its lease.   *)
DecideStart(r, approve) ==
    /\ decision = NoDecision
    /\ renewal[r].state = "REQUESTED"
    /\ decision' = [req |-> r, approve |-> approve, at |-> now]
    /\ UNCHANGED <<now, rows, host, scan, restoring, left, overtaken, faults>>

(* The decision changes a lease that is over by now, or the successor of   *)
(* the lease that the expiry worker waits to lock.                         *)
DecidesPast(l) ==
    overtaken' = overtaken \cup {m \in Lease : m = l /\ lease[l].expires <= now}
                          \cup {m \in Lease : m = scan.lease /\ m = lease[l].prev}

(* Mutant: the lease becomes EXPIRED whatever has happened to it.          *)
DecideLateBlindly(r, l) ==
    /\ lease[l].expires <= decision.at
    /\ renewal' = [renewal EXCEPT ![r].state = "CANCELLED"]
    /\ lease' = [lease EXCEPT ![l].state = "EXPIRED"]
    /\ UNCHANGED overtaken

DecideLate(r, l) ==
    /\ lease[l].expires <= decision.at
    /\ renewal' = [renewal EXCEPT ![r].state = "CANCELLED"]
    /\ lease' = [lease EXCEPT ![l].state =
                   IF @ \in ActiveStates THEN "EXPIRED" ELSE @]
    /\ UNCHANGED overtaken

DecideReject(r, l) ==
    /\ decision.at < lease[l].expires
    /\ ~decision.approve
    /\ renewal' = [renewal EXCEPT ![r].state = "REJECTED"]
    /\ lease' = [lease EXCEPT ![l].state = "RENEWAL_WINDOW"]
    /\ DecidesPast(l)

DecideApprove(r, l) ==
    /\ decision.at < lease[l].expires
    /\ decision.approve
    /\ CanGrant(l, renewal[r].duration)
    /\ renewal' = [renewal EXCEPT ![r] = [@ EXCEPT !.state = "APPROVED",
                                                   !.result = FreshLease]]
    /\ lease' = Grant(lease, l, renewal[r].duration)
    /\ DecidesPast(l)

(* Refused: already decided, or the successor row violates UNIQUE.         *)
DecideRefused(r, l) ==
    /\ \/ renewal[r].state # "REQUESTED"
       \/ /\ decision.at < lease[l].expires
          /\ decision.approve
          /\ ~CanGrant(l, renewal[r].duration)
    /\ UNCHANGED <<renewal, lease, overtaken>>

DecideCommit ==
    /\ decision.req # None
    /\ LET r == decision.req
           l == renewal[r].lease
       IN  \/ /\ renewal[r].state = "REQUESTED"
              /\ DecideLate(r, l) \/ DecideReject(r, l) \/ DecideApprove(r, l)
           \/ DecideRefused(r, l)
    /\ decision' = NoDecision
    /\ UNCHANGED <<now, item, restore, op, owner, host, scan, restoring, left,
                   faults>>

(* PUT /users/{id}/lease-renewal-policy                                    *)
SetPolicy ==
    /\ owner' = [owner EXCEPT !.approval = ~@]
    /\ UNCHANGED <<now, lease, renewal, item, restore, op, host, decision,
                   scan, restoring, left, overtaken, faults>>

-----------------------------------------------------------------------------
(* The expiry worker, process_due_leases.                                  *)

(* First transaction: renewals of leases that are over are cancelled.      *)
(* Mutant: only renewals of leases that are still active are cancelled.    *)
ScanCancelActive ==
    /\ scan.pc = "IDLE"
    /\ renewal' = [r \in Renewal |->
                     IF /\ renewal[r].state = "REQUESTED"
                        /\ lease[renewal[r].lease].state \in ActiveStates
                        /\ lease[renewal[r].lease].expires <= now
                     THEN [renewal[r] EXCEPT !.state = "CANCELLED"]
                     ELSE renewal[r]]
    /\ scan' = [NoScan EXCEPT !.pc = "READ"]
    /\ UNCHANGED <<now, lease, item, restore, op, owner, host, decision,
                   restoring, left, overtaken, faults>>

ScanCancel ==
    /\ scan.pc = "IDLE"
    /\ renewal' = [r \in Renewal |->
                     IF /\ renewal[r].state = "REQUESTED"
                        /\ lease[renewal[r].lease].expires <= now
                     THEN [renewal[r] EXCEPT !.state = "CANCELLED"]
                     ELSE renewal[r]]
    /\ scan' = [NoScan EXCEPT !.pc = "READ"]
    /\ UNCHANGED <<now, lease, item, restore, op, owner, host, decision,
                   restoring, left, overtaken, faults>>

Due(l) ==
    /\ lease[l].state \in DueStates
    /\ lease[l].expires <= now
    /\ ~lease[l].recycled
    /\ Successors(l) = {} \/ ActivatableSuccessors(l) # {}

ScanRead ==
    /\ scan.pc = "READ"
    /\ scan' = LET due == {l \in Lease : Due(l)}
               IN  IF due = {} THEN NoScan
                   ELSE [NoScan EXCEPT !.pc = "RUN", !.due = due]
    /\ UNCHANGED <<now, rows, host, decision, restoring, left, overtaken,
                   faults>>

(* The lease whose turn it is, in order of expires_at.                     *)
ScanTurn(l) ==
    /\ scan.pc = "RUN"
    /\ l \in scan.due
    /\ \A m \in scan.due : lease[l].expires <= lease[m].expires

ScanAdvance(l) ==
    scan' = IF scan.due = {l} THEN NoScan
            ELSE [scan EXCEPT !.due = @ \ {l}, !.lease = None]

(* The statement that locks the lease sees the successor as of its own     *)
(* start: when it had to wait for the lock, READ COMMITTED looks again at  *)
(* the lease and not at the successor.  ScanLook is the start, and with    *)
(* the lock in hand only the lease's own columns count.                    *)
ScanLook(l) ==
    /\ ScanTurn(l)
    /\ scan.lease = None
    /\ Due(l)
    /\ scan' = [scan EXCEPT !.lease = l]
    /\ UNCHANGED <<now, rows, host, decision, restoring, left, overtaken,
                   faults>>

Locks(l) ==
    /\ ScanTurn(l)
    /\ scan.lease = l
    /\ lease[l].state \in DueStates /\ ~lease[l].recycled

(* The approved successor that takes over; its window has not passed.      *)
LiveSuccessors(l) == {s \in ApprovedSuccessors(l) : now < lease[s].expires}

(* _automatic_operation: a first attempt, or a retry that is owed.         *)
(* Mutant: neither the cap nor the manual mark ends the retries.           *)
MayAttemptForever(l) ==
    \/ op[l].status = "NONE"
    \/ op[l].status = "FAILED" /\ op[l].retryAt <= now

MayAttempt(l) ==
    \/ op[l].status = "NONE"
    \/ /\ op[l].status = "FAILED"
       /\ ~op[l].manual
       /\ op[l].attempts < MaxAttempts
       /\ op[l].retryAt <= now

MayRecycle(l) == Locks(l) /\ LiveSuccessors(l) = {} /\ MayAttempt(l)

(* Mutant: the lease that is over is closed, its successor left alone.     *)
ScanActivateHalf(l) ==
    /\ Locks(l)
    /\ LiveSuccessors(l) # {}
    /\ lease' = [lease EXCEPT ![l].state = "EXPIRED"]
    /\ ScanAdvance(l)
    /\ UNCHANGED <<now, renewal, item, restore, op, owner, host, decision,
                   restoring, left, overtaken, faults>>

ScanActivate(l) ==
    /\ Locks(l)
    /\ \E s \in LiveSuccessors(l) :
          lease' = [lease EXCEPT ![l].state = "EXPIRED", ![s].state = "ACTIVE"]
    /\ ScanAdvance(l)
    /\ UNCHANGED <<now, renewal, item, restore, op, owner, host, decision,
                   restoring, left, overtaken, faults>>

(* No longer due at the second look, nor under the lock, or no attempt is  *)
(* owed.                                                                   *)
ScanPass(l) ==
    /\ ScanTurn(l)
    /\ \/ scan.lease = None /\ ~Due(l)
       \/ scan.lease = l /\ ~Locks(l)
       \/ Locks(l) /\ LiveSuccessors(l) = {} /\ ~MayAttempt(l)
    /\ ScanAdvance(l)
    /\ UNCHANGED <<now, rows, host, decision, restoring, left, overtaken,
                   faults>>

(* _execute_cleanup: the Worker's answer and what is recorded of it.  The  *)
(* rows of lease, owner and container are locked from before the call to   *)
(* the commit, so call and commit are one step.                            *)
(* Mutant: the item is created without recycled_at on the lease.           *)
RecordRecycledUnstamped(l) ==
    /\ lease' = [lease EXCEPT ![l].state = "RECYCLE_BIN"]
    /\ item' = [item EXCEPT ![l] = IF @ = "NONE" THEN "RECYCLE_BIN" ELSE @]
    /\ owner' = [owner EXCEPT !.env = "RECYCLED", !.keys = "SUSPENDED_BY_RECYCLE"]

RecordRecycled(l) ==
    /\ lease' = [lease EXCEPT ![l] = [@ EXCEPT !.state = "RECYCLE_BIN",
                                               !.recycled = TRUE]]
    /\ item' = [item EXCEPT ![l] = IF @ = "NONE" THEN "RECYCLE_BIN" ELSE @]
    /\ owner' = [owner EXCEPT !.env = "RECYCLED", !.keys = "SUSPENDED_BY_RECYCLE"]

RecordNotRecycled(l, reply) ==
    /\ lease' = [lease EXCEPT ![l].state = "EXPIRED"]
    /\ owner' = [owner EXCEPT
                   !.env = "SUSPENDED",
                   !.keys = IF reply = "RETRYABLE" THEN "SUSPENDED_BY_RECYCLE" ELSE @]
    /\ item' = item

Cleanup(l, w) ==
    /\ CallWorker(RecycleReplies(host, l), RecycleFaults(host), w)
    /\ Leaves(w, LeftCall("recycle", l, None))
    /\ host' = w.host
    /\ IF w.reply = "SUCCEEDED" THEN RecordRecycled(l) ELSE RecordNotRecycled(l, w.reply)

Earlier(t) == IF t <= Horizon THEN t ELSE Horizon

(* Attempt n failed: a later retry is owed, or a person has to look.       *)
(* Mutant: the last attempt leaves no mark for a person.                   *)
FailedOpUnmarked(n, reply) ==
    LET owed == reply # "REVIEW" /\ n \in DOMAIN RetryDelay
    IN  [status |-> "FAILED", attempts |-> n, manual |-> reply = "REVIEW",
         retryAt |-> IF owed THEN Earlier(now + RetryDelay[n]) ELSE 0]

FailedOp(n, reply) ==
    LET owed == reply # "REVIEW" /\ n \in DOMAIN RetryDelay
    IN  [status |-> "FAILED", attempts |-> n, manual |-> ~owed,
         retryAt |-> IF owed THEN Earlier(now + RetryDelay[n]) ELSE 0]

ScanRecycle(l) ==
    /\ MayRecycle(l)
    /\ \E w \in RecycleReplies(host, l) \cup RecycleFaults(host) :
          /\ Cleanup(l, w)
          /\ op' = [op EXCEPT ![l] =
                      IF w.reply = "SUCCEEDED"
                      THEN [status |-> "SUCCEEDED", attempts |-> op[l].attempts + 1,
                            retryAt |-> 0, manual |-> FALSE]
                      ELSE FailedOp(op[l].attempts + 1, w.reply)]
    /\ ScanAdvance(l)
    /\ UNCHANGED <<now, renewal, restore, decision, restoring, overtaken>>

(* The oneshot dies between transactions, or between its call of the       *)
(* Worker and the commit: the rows are as before, the call is on its way.  *)
ScanCrash ==
    /\ scan.pc # "IDLE"
    /\ Crash
    /\ \/ left' = left
       \/ \E l \in Lease :
             MayRecycle(l) /\ left' = left \cup {LeftCall("recycle", l, None)}
    /\ scan' = NoScan
    /\ UNCHANGED <<now, rows, host, decision, restoring, overtaken>>

(* POST /admin/compute-leases/{id}/recycle-retry: the platform owner runs  *)
(* the cleanup once more; the evidence of the automatic attempts stays.    *)
RetryRecycle(l) ==
    /\ op[l].status = "FAILED"
    /\ lease[l].expires <= now
    /\ ~lease[l].recycled
    /\ Successors(l) = {}
    /\ item[l] = "NONE"
    /\ \E w \in RecycleReplies(host, l) \cup RecycleFaults(host) : Cleanup(l, w)
    /\ UNCHANGED <<now, renewal, restore, op, decision, scan, restoring,
                   overtaken>>

-----------------------------------------------------------------------------
(* Restores from the recycle bin.                                          *)

(* Mutants: an item is restored again; an item is restored while a restore *)
(* has it in hand.                                                         *)
RestorableAgain(i) ==
    item[i] \in {"RECYCLE_BIN", "RESTORE_PENDING", "FAILED", "RESTORED"}
RestorableTwice(i) ==
    item[i] \in {"RECYCLE_BIN", "RESTORE_PENDING", "FAILED", "RESTORING"}

Restorable(i) == item[i] \in {"RECYCLE_BIN", "RESTORE_PENDING", "FAILED"}

(* _execute_restore up to its first commit.                                *)
BeginRestore(q, i, d, by) ==
    /\ restoring = NoRestoring
    /\ owner.keys = "SUSPENDED_BY_RECYCLE"
    /\ UnusedLeases # {} /\ now + d <= Horizon
    /\ lease' = [lease EXCEPT ![FreshLease] = NewLease("UNSAVED", now, d, None)]
    /\ item' = [item EXCEPT ![i] = "RESTORING"]
    /\ restoring' = [req |-> q, lease |-> FreshLease, by |-> by, reply |-> "PENDING"]
    /\ owner' = owner

AwaitReview(i) ==
    /\ item' = [item EXCEPT ![i] = "RESTORE_PENDING"]
    /\ owner' = [owner EXCEPT !.env = "RESTORE_PENDING"]
    /\ UNCHANGED <<lease, restoring>>

(* POST /self/recycle-bin/{item}/restore-requests                          *)
CreateRestore(q, i, d) ==
    /\ Restorable(i)
    /\ restore[q].state = "NONE"
    /\ ~\E p \in Restore : restore[p].state = "REQUESTED" /\ restore[p].item = i
    /\ now + d <= Horizon
    /\ restore' = [restore EXCEPT ![q] =
                     [state |-> IF owner.approval THEN "REQUESTED" ELSE "RESTORING",
                      item |-> i, duration |-> d, approval |-> owner.approval]]
    /\ \/ owner.approval /\ AwaitReview(i)
       \/ ~owner.approval /\ BeginRestore(q, i, d, "OWNER")
    /\ UNCHANGED <<now, renewal, op, host, decision, scan, left, overtaken,
                   faults>>

(* The same request again, with its idempotency key, while it is open: the *)
(* policy of the day it was made still holds for it.                       *)
(* Mutant: the replay follows the policy of today.                         *)
ReplayRestoreByToday(q) ==
    /\ restore[q].state = "REQUESTED"
    /\ Restorable(restore[q].item)
    /\ \/ owner.approval /\ AwaitReview(restore[q].item) /\ UNCHANGED restore
       \/ /\ ~owner.approval
          /\ restore' = [restore EXCEPT ![q].state = "RESTORING"]
          /\ BeginRestore(q, restore[q].item, restore[q].duration, "OWNER")
    /\ UNCHANGED <<now, renewal, op, host, decision, scan, left, overtaken,
                   faults>>

ReplayRestore(q) ==
    /\ restore[q].state = "REQUESTED"
    /\ restore[q].approval
    /\ Restorable(restore[q].item)
    /\ AwaitReview(restore[q].item)
    /\ UNCHANGED <<now, renewal, restore, op, host, decision, scan, left,
                   overtaken, faults>>

(* POST /admin/restore-requests/{id}/decision                              *)
(* Mutant: a request that is being carried out can still be rejected.      *)
RejectRestoreRunning(q) ==
    /\ restore[q].state \in {"REQUESTED", "RESTORING"}
    /\ restore' = [restore EXCEPT ![q].state = "REJECTED"]
    /\ item' = [item EXCEPT ![restore[q].item] = "RECYCLE_BIN"]
    /\ owner' = [owner EXCEPT !.env = "RECYCLED"]
    /\ UNCHANGED <<now, lease, renewal, op, host, decision, scan, restoring,
                   left, overtaken, faults>>

RejectRestore(q) ==
    /\ restore[q].state = "REQUESTED"
    /\ item[restore[q].item] = "RESTORE_PENDING"
    /\ restore' = [restore EXCEPT ![q].state = "REJECTED"]
    /\ item' = [item EXCEPT ![restore[q].item] = "RECYCLE_BIN"]
    /\ owner' = [owner EXCEPT !.env = "RECYCLED"]
    /\ UNCHANGED <<now, lease, renewal, op, host, decision, scan, restoring,
                   left, overtaken, faults>>

ApproveRestore(q) ==
    /\ restore[q].state = "REQUESTED"
    /\ item[restore[q].item] = "RESTORE_PENDING"
    /\ restore' = [restore EXCEPT ![q].state = "RESTORING"]
    /\ BeginRestore(q, restore[q].item, restore[q].duration, "ADMIN")
    /\ UNCHANGED <<now, renewal, op, host, decision, scan, left, overtaken,
                   faults>>

RestoringItem == restore[restoring.req].item

(* The Root Worker's part; no row is locked meanwhile.                     *)
RestoreRun ==
    LET a == restoring.lease
        current == lease[a].starts <= now /\ now < lease[a].expires
    IN  /\ restoring.req # None
        /\ restoring.reply = "PENDING"
        /\ \E w \in RestoreReplies(host, a, RestoringItem, current)
                      \cup RestoreFaults(host, RestoringItem, current) :
              /\ CallWorker(RestoreReplies(host, a, RestoringItem, current),
                            RestoreFaults(host, RestoringItem, current), w)
              /\ Leaves(w, LeftCall("restore", a, RestoringItem))
              /\ host' = w.host
              /\ restoring' = [restoring EXCEPT !.reply = w.reply]
        /\ UNCHANGED <<now, rows, decision, scan, overtaken>>

RestoreSaved ==
    /\ restoring.reply = "SUCCEEDED"
    /\ lease' = [lease EXCEPT ![restoring.lease].state = "ACTIVE"]
    /\ restore' = [restore EXCEPT ![restoring.req].state = "RESTORED"]
    /\ item' = [item EXCEPT ![RestoringItem] = "RESTORED"]
    /\ owner' = [owner EXCEPT !.env = "ACTIVE", !.keys = "INSTALLED"]
    /\ UNCHANGED <<host, left, faults>>

(* _apply_restore_failure_state                                            *)
RestoreFailed(rolledBack) ==
    /\ restore' = [restore EXCEPT ![restoring.req].state = "FAILED"]
    /\ item' = [item EXCEPT ![RestoringItem] =
                  IF rolledBack THEN "RECYCLE_BIN" ELSE "FAILED"]
    /\ owner' = IF rolledBack
                THEN [owner EXCEPT !.env = "RECYCLED", !.keys = "SUSPENDED_BY_RECYCLE"]
                ELSE [owner EXCEPT !.env = "FAILED"]
    /\ lease' = lease

RestoreError ==
    /\ restoring.reply \in {"ROLLED_BACK", "ERROR", "LOST"}
    /\ RestoreFailed(restoring.reply = "ROLLED_BACK")
    /\ UNCHANGED <<host, left, faults>>

(* The Worker restored, but a postcondition or the commit fails: the       *)
(* environment goes back to the bin through the Worker.                    *)
RestoreUndone ==
    /\ restoring.reply = "SUCCEEDED"
    /\ WorkerFault
    /\ LET a == restoring.lease
           byOwner == restoring.by = "OWNER"
       IN  \E w \in RollbackReplies(host, a, RestoringItem, byOwner)
                      \cup RollbackFaults(host) :
              /\ host' = w.host
              /\ IF byOwner THEN Leaves(w, LeftCall("rollback", a, RestoringItem))
                            ELSE UNCHANGED left
              /\ RestoreFailed(w.reply = "SUCCEEDED")

RestoreFinish ==
    /\ restoring.req # None
    /\ RestoreSaved \/ RestoreError \/ RestoreUndone
    /\ restoring' = NoRestoring
    /\ UNCHANGED <<now, renewal, op, decision, scan, overtaken>>

(* The API process dies between the two commits, before or after it has    *)
(* called the Worker.                                                      *)
RestoreCrash ==
    /\ restoring.req # None
    /\ Crash
    /\ \/ left' = left
       \/ /\ restoring.reply = "PENDING"
          /\ left' = left \cup {LeftCall("restore", restoring.lease, RestoringItem)}
    /\ restoring' = NoRestoring
    /\ UNCHANGED <<now, rows, host, decision, scan, overtaken>>

-----------------------------------------------------------------------------
(* The owner's container buttons, _container_action, and the requests that *)
(* only use the lease: a job is submitted, resources are asked for.        *)

LeaseEnds == [l \in Lease |-> lease[l].expires]
LeaseStarts == [l \in Lease |-> lease[l].starts]

UseLease ==
    /\ Entitled
    /\ lease' = AfterEnsure
    /\ HandsOverLease
    /\ UNCHANGED <<now, renewal, item, restore, op, owner, host, decision,
                   scan, restoring, left, faults>>

StartContainer ==
    LET replies == StartReplies(host, EntitledLease, LeaseEnds, LeaseStarts, now)
        failures == StartFaults(host, EntitledLease, LeaseEnds, now)
    IN  /\ Entitled
        /\ owner.env = "ACTIVE"
        /\ \E w \in replies \cup failures :
              /\ CallWorker(replies, failures, w)
              /\ Leaves(w, LeftCall("start", EntitledLease, None))
              /\ host' = w.host
        /\ lease' = AfterEnsure
        /\ HandsOverLease
        /\ UNCHANGED <<now, renewal, item, restore, op, owner, decision, scan,
                       restoring>>

StopContainer ==
    /\ \E w \in StopReplies(host) \cup StopFaults(host) :
          /\ CallWorker(StopReplies(host), StopFaults(host), w)
          /\ host' = w.host
    /\ UNCHANGED <<now, rows, decision, scan, restoring, left, overtaken>>

-----------------------------------------------------------------------------
(* The Worker serves a call that was left with it, on the host it finds by *)
(* then; nobody reads the answer.                                          *)

ServeAs(c, o, replies, failures) ==
    /\ c.op = o
    /\ \E w \in replies \cup failures :
          CallWorker(replies, failures, w) /\ w.reply # "LOST" /\ host' = w.host

ServeRecycle(c) ==
    ServeAs(c, "recycle", RecycleReplies(host, c.lease), RecycleFaults(host))

ServeRestore(c) ==
    LET current == lease[c.lease].starts <= now /\ now < lease[c.lease].expires
    IN  ServeAs(c, "restore", RestoreReplies(host, c.lease, c.item, current),
                              RestoreFaults(host, c.item, current))

ServeRollback(c) ==
    ServeAs(c, "rollback", RollbackReplies(host, c.lease, c.item, TRUE), RollbackFaults(host))

ServeStart(c) ==
    ServeAs(c, "start", StartReplies(host, c.lease, LeaseEnds, LeaseStarts, now),
                        StartFaults(host, c.lease, LeaseEnds, now))

ServeLeft(c) ==
    /\ c \in left /\ ~c.served
    /\ ServeRecycle(c) \/ ServeRestore(c) \/ ServeRollback(c) \/ ServeStart(c)
    /\ left' = (left \ {c}) \cup {[c EXCEPT !.served = TRUE]}
    /\ UNCHANGED <<now, rows, decision, scan, restoring, overtaken>>

-----------------------------------------------------------------------------
Tick ==
    /\ ClockAdvances
    /\ UNCHANGED <<rows, host, decision, scan, restoring, left, overtaken,
                   faults>>

OwnerStep ==
    \/ \E d \in Durations, r \in Renewal, l \in Lease :
          RequestRenewal(d, r, l) \/ AutoRenew(d, r, l) \/ AutoRenewLate(d, r, l)
    \/ \E q \in Restore, i \in Lease, d \in Durations : CreateRestore(q, i, d)
    \/ \E q \in Restore : ReplayRestore(q)
    \/ UseLease
    \/ StartContainer
    \/ StopContainer

AdminStep ==
    \/ \E r \in Renewal, approve \in BOOLEAN : DecideStart(r, approve)
    \/ DecideCommit
    \/ SetPolicy
    \/ \E q \in Restore : RejectRestore(q) \/ ApproveRestore(q)
    \/ \E l \in Lease : RetryRecycle(l)

ScanStep ==
    \/ ScanCancel
    \/ ScanRead
    \/ \E l \in Lease : ScanLook(l) \/ ScanActivate(l) \/ ScanPass(l) \/ ScanRecycle(l)
    \/ ScanCrash

RestoreStep == RestoreRun \/ RestoreFinish \/ RestoreCrash

WorkerStep == \E c \in left : ServeLeft(c)

Next == Tick \/ OwnerStep \/ AdminStep \/ ScanStep \/ RestoreStep \/ WorkerStep

(* The timer starts a scan every minute, time passes, and a handler that   *)
(* has begun goes on unless its process dies.                              *)
Fairness ==
    /\ SF_vars(Tick)
    /\ WF_vars(ScanCancel)
    /\ WF_vars(ScanRead)
    /\ WF_vars(\E l \in Lease :
                  ScanLook(l) \/ ScanActivate(l) \/ ScanPass(l) \/ ScanRecycle(l))
    /\ WF_vars(DecideCommit)
    /\ WF_vars(RestoreRun)
    /\ WF_vars(RestoreFinish)

Spec == Init /\ [][Next]_vars /\ Fairness

-----------------------------------------------------------------------------
(* Properties.                                                             *)

(* Every row, the host and every process in flight has the shape its table *)
(* or record gives it.                                                     *)
TypeOK ==
    /\ now \in Time
    /\ lease \in [Lease -> LeaseRow]
    /\ renewal \in [Renewal -> RenewalRow]
    /\ item \in [Lease -> ItemState]
    /\ restore \in [Restore -> RestoreRow]
    /\ op \in [Lease -> OpRow]
    /\ owner \in OwnerRow
    /\ host \in HostStates(Lease)
    /\ decision \in [req : Renewal \cup {None}, approve : BOOLEAN, at : Time]
    /\ scan \in [pc : {"IDLE", "READ", "RUN"}, due : SUBSET Lease,
                 lease : Lease \cup {None}]
    /\ restoring \in [req : Restore \cup {None}, lease : Lease \cup {None},
                      by : {"OWNER", "ADMIN"},
                      reply : {"PENDING", "SUCCEEDED", "ROLLED_BACK", "ERROR", "LOST"}]
    /\ left \in SUBSET LeftCalls
    /\ overtaken \in SUBSET Lease
    /\ faults \in [crash : 0..MaxCrashes, worker : 0..MaxWorkerFaults]

(* A renewal under review is the only one of its owner, whatever requests, *)
(* decisions and cancellations cross: request_renewal counts on the lock   *)
(* of the managed user, decide_renewal and the expiry worker do not take   *)
(* it (lease_service.py, request_renewal, RENEWAL_ALREADY_PENDING).        *)
OneOpenRenewal == \A r, s \in OpenRenewals : r = s

(* The recycle bin and the leases agree: a lease has an item exactly when  *)
(* it is stamped recycled_at, through crashes of the cleanup, retries and  *)
(* restores (expiry_service.py, _record_success and _due_predicate).       *)
ItemsMatchRecycledLeases == \A l \in Lease : item[l] # "NONE" <=> lease[l].recycled

(* A restore that was asked for under review runs only in the name of an   *)
(* administrator, also when the policy was switched off and the request    *)
(* was sent again meanwhile (self_service.py, create_restore_request; the  *)
(* row keeps the policy of the day it was made).                           *)
ReviewedRestoresWaitForAdmin ==
    restoring.req # None /\ restore[restoring.req].approval => restoring.by = "ADMIN"

(* The safety invariants above are inductive with these bonds between the  *)
(* rows: a counter that starts at zero, references to rows that exist, and *)
(* a restore in hand that nobody else touches although it holds no lock    *)
(* while the Root Worker runs (self_service.py, _execute_restore).         *)
AttemptsCounted == \A l \in Lease : op[l].status = "NONE" => op[l].attempts = 0
UnusedNotRecycled == \A l \in UnusedLeases : ~lease[l].recycled
RequestsRefer ==
    /\ \A r \in Renewal : renewal[r].state # "NONE" => renewal[r].lease \in Lease
    /\ \A q \in Restore : restore[q].state # "NONE" => restore[q].item \in Lease
    /\ decision.req # None => renewal[decision.req].state # "NONE"
RestoreHoldsItsItem ==
    restoring.req # None =>
        /\ restoring.lease \in Lease
        /\ restore[restoring.req].state = "RESTORING"
        /\ item[RestoringItem] = "RESTORING"

IInv ==
    /\ TypeOK
    /\ OneOpenRenewal
    /\ ItemsMatchRecycledLeases
    /\ ReviewedRestoresWaitForAdmin
    /\ AttemptsCounted
    /\ UnusedNotRecycled
    /\ RequestsRefer
    /\ RestoreHoldsItsItem

(* Two leases that entitle the owner, now or in the future, never overlap: *)
(* a chain of renewals is contiguous, and a restore begins after it.  The  *)
(* code keeps this as long as no lease was recycled that had moved on      *)
(* behind the expiry worker: its item could be restored beside the         *)
(* successor.                                                              *)
EntitlementStates == ActiveStates \cup {"APPROVED"}
OvertakenNotRecycled == \A l \in overtaken : ~lease[l].recycled
EntitlementsDisjoint ==
    OvertakenNotRecycled =>
    \A l, m \in Lease :
        l # m /\ lease[l].state \in EntitlementStates
              /\ lease[m].state \in EntitlementStates
        => \/ lease[l].expires <= lease[m].starts
           \/ lease[m].expires <= lease[l].starts

(* While a lease entitles the owner, neither the portal nor the host has   *)
(* put the environment away: no cleanup, retried, crashed half way or      *)
(* served after its caller gave up, retires the file of an owner who       *)
(* renewed in time or was restored.  Two things the code does not prevent: *)
(* the cleanup of a lease whose successor took over while the expiry       *)
(* worker waited for its lock, and a call served late that suspends the    *)
(* keys before it compares the lease.                                      *)
CleanedUp(l) ==
    op[l].status # "NONE" \/ \E c \in left : c.op = "recycle" /\ c.lease = l
OvertakenNotCleaned == \A l \in overtaken : ~CleanedUp(l)
LateCallServed ==
    \E c \in left : c.served /\ c.op \in {"recycle", "restore", "rollback"}
EntitledEnvironmentIsUp ==
    OvertakenNotCleaned /\ Entitled =>
        /\ owner.env = "ACTIVE"
        /\ host.status = "ACTIVE"
        /\ host.keys = "INSTALLED" \/ LateCallServed

(* A renewal that was approved is honoured: in the window of the lease it  *)
(* granted, the owner is entitled, whoever activates that lease and in     *)
(* whatever order (lease_service.py, ensure_active_lease;                  *)
(* expiry_service.py, _activate_successor).                                *)
ApprovedRenewalEntitles ==
    OvertakenNotRecycled =>
    \A r \in Renewal :
        /\ renewal[r].state = "APPROVED"
        /\ lease[renewal[r].result].starts <= now
        /\ now < lease[renewal[r].result].expires
        => Entitled

(* What the workspace contract says of the lease state RECYCLE_BIN: the    *)
(* development container is stopped and the keys are suspended.  Only a    *)
(* restore that failed before it leaves an environment that runs: the      *)
(* rejection of the next request puts its item back into the bin as it is. *)
RecycleBinIsContained ==
    \A l \in Lease :
        item[l] = "RECYCLE_BIN" =>
            \/ ~host.running /\ host.keys = "SUSPENDED"
            \/ \E q \in Restore : restore[q].item = l /\ restore[q].state = "FAILED"

(* decide_renewal never moves a recycled resource back, and nothing else   *)
(* does: RECYCLE_BIN is the last state of a lease.                         *)
RecycledLeaseStays ==
    [][\A l \in Lease : lease[l].state = "RECYCLE_BIN" => lease'[l] = lease[l]]_vars

(* An item is restored once; the environment returns to the bin under the  *)
(* lease the restore issued, never under the old one.                      *)
RestoredItemStays ==
    [][\A l \in Lease : item[l] = "RESTORED" => item'[l] = "RESTORED"]_vars

(* An open renewal can still be approved: the lease it renews has no other *)
(* successor, so the approval does not run into UNIQUE previous_lease_id.  *)
OpenRenewalIsApprovable ==
    \A r \in OpenRenewals : Successors(renewal[r].lease) = {}

(* Every renewal is decided or, at the latest when its lease is over,      *)
(* cancelled: no request stays actionable for ever.                        *)
RenewalsAreClosed ==
    \A r \in Renewal : renewal[r].state = "REQUESTED" ~> renewal[r].state # "REQUESTED"

(* A lease that is over and was not renewed is recycled, or its automatic  *)
(* attempts end in front of a person.                                      *)
OverdueLease(l) ==
    lease[l].state \in DueStates /\ lease[l].expires <= now /\ Successors(l) = {}
ExpiryEndsInBinOrReview ==
    \A l \in Lease :
        OverdueLease(l) ~> \/ lease[l].recycled \/ op[l].manual \/ Successors(l) # {}

(* The manual's promise: the lease expires, the system stops the           *)
(* environment and puts it in the recycle bin.                             *)
ExpiryReachesBin ==
    \A l \in Lease : OverdueLease(l) ~> lease[l].recycled \/ Successors(l) # {}
=============================================================================
