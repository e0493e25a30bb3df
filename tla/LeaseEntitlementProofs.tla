------------------------ MODULE LeaseEntitlementProofs ------------------------
(***************************************************************************)
(* What leases promise the owner, proved for LeaseLifecycle when a         *)
(* decision on a renewal does not wait for its locks (MaxDecisionLag = 0). *)
(*                                                                         *)
(* First what holds of the rows whatever the expiry worker does (BinInv):  *)
(* the bin is for leases that are over, and a lease in it stays there.     *)
(* Then what holds as long as no lease was recycled that had moved on      *)
(* behind the expiry worker (EInv): the order of the leases.  That order   *)
(* is a property of the lease table alone, so the invariant is stated for  *)
(* a table, and lemmas say what each kind of change does to it: a lease    *)
(* moves to another state, is renewed, is recycled, is restored, or an id  *)
(* is drawn for a restore.                                                 *)
(***************************************************************************)
EXTENDS LeaseLifecycleProofs

NoLag == MaxDecisionLag = 0

(* Only rows that are in the database count.                               *)
SavedIn(t) == {l \in Lease : t[l].state \notin {"NONE", "UNSAVED"}}

-----------------------------------------------------------------------------
(* The bin.                                                                *)

(* A lease in the bin is stamped, over, and had a cleanup; a cleanup is    *)
(* one of a lease in the database.                                         *)
BinFits(l) ==
    /\ lease[l].recycled <=> lease[l].state = "RECYCLE_BIN"
    /\ lease[l].recycled => op[l].status # "NONE" /\ lease[l].expires <= now
    /\ op[l].status # "NONE" => l \in SavedIn(lease)

(* Without a decision lag the clock waits for a decision.                  *)
DecisionIsNow == decision.req # None => decision.at = now

(* The expiry worker waits to lock a lease that is over.                   *)
ScanIsLate ==
    scan.lease # None => scan.lease \in SavedIn(lease) /\ lease[scan.lease].expires <= now

BinInv ==
    /\ \A l \in Lease : BinFits(l)
    /\ \A r \in Renewal : renewal[r].state # "NONE" => renewal[r].lease \in SavedIn(lease)
    /\ DecisionIsNow
    /\ restoring.req # None => lease[restoring.lease].state = "UNSAVED"
    /\ ScanIsLate

(* Leases come and change their state: windows stay, and so do rows in the *)
(* bin and rows that are not in the database yet.                          *)
Keeps(t, u) ==
    /\ \A l \in Lease :
          t[l].state # "NONE" =>
             /\ u[l].starts = t[l].starts /\ u[l].expires = t[l].expires
             /\ t[l].state = "UNSAVED" => u[l].state = "UNSAVED"
             /\ l \in SavedIn(t) => l \in SavedIn(u)
             /\ t[l].state = "RECYCLE_BIN" => u[l] = t[l]
    /\ \A l \in Lease : /\ u[l].recycled <=> u[l].state = "RECYCLE_BIN"
                        /\ u[l].recycled => t[l].state = "RECYCLE_BIN"

LEMMA SameKeeps ==
    ASSUME BinInv
    PROVE  Keeps(lease, lease)
BY DEF Keeps, BinInv, BinFits

(* A lease in the database, not in the bin, gets another state.            *)
LEMMA StateKeeps ==
    ASSUME NEW t \in [Lease -> LeaseRow], NEW u \in [Lease -> LeaseRow], Keeps(t, u),
           NEW l \in SavedIn(t), t[l].state # "RECYCLE_BIN",
           NEW s \in ActiveStates \cup {"EXPIRED"}
    PROVE  Keeps(t, [u EXCEPT ![l].state = s])
<1> DEFINE v == [u EXCEPT ![l].state = s]
<1>1. l \in Lease /\ s \notin {"NONE", "UNSAVED", "RECYCLE_BIN"}
  BY DEF SavedIn, ActiveStates
<1>2. /\ v[l].state = s /\ v[l].starts = u[l].starts /\ v[l].expires = u[l].expires
      /\ v[l].recycled = u[l].recycled
      /\ \A m \in Lease \ {l} : v[m] = u[m]
  BY <1>1 DEF LeaseRow
<1> HIDE DEF v
<1>3. t[l].state # "NONE" /\ t[l].state # "UNSAVED" /\ l \in SavedIn(v)
  BY <1>1, <1>2 DEF SavedIn
<1>4. ~u[l].recycled
  BY <1>1 DEF Keeps
<1>5. \A m \in Lease : m # l => (m \in SavedIn(u) <=> m \in SavedIn(v))
  BY <1>2 DEF SavedIn
<1>6. ASSUME NEW m \in Lease, t[m].state # "NONE"
      PROVE  /\ v[m].starts = t[m].starts /\ v[m].expires = t[m].expires
             /\ t[m].state = "UNSAVED" => v[m].state = "UNSAVED"
             /\ m \in SavedIn(t) => m \in SavedIn(v)
             /\ t[m].state = "RECYCLE_BIN" => v[m] = t[m]
  BY <1>2, <1>3, <1>5, <1>6 DEF Keeps
<1>7. \A m \in Lease : /\ v[m].recycled <=> v[m].state = "RECYCLE_BIN"
                       /\ v[m].recycled => t[m].state = "RECYCLE_BIN"
  BY <1>1, <1>2, <1>4 DEF Keeps
<1>8. QED
  BY <1>6, <1>7 DEF Keeps, v

(* An unused id becomes a row.                                             *)
LEMMA NewRowKeeps ==
    ASSUME NEW t \in [Lease -> LeaseRow], NEW u \in [Lease -> LeaseRow], Keeps(t, u),
           NEW f \in Lease, t[f].state = "NONE", NEW b, NEW d, NEW p,
           NEW s \in {"APPROVED", "UNSAVED"}
    PROVE  Keeps(t, [u EXCEPT ![f] = NewLease(s, b, d, p)])
<1> DEFINE v == [u EXCEPT ![f] = NewLease(s, b, d, p)]
<1>1. /\ v[f].state = s /\ v[f].recycled = FALSE
      /\ \A m \in Lease \ {f} : v[m] = u[m]
  BY DEF NewLease
<1> HIDE DEF v
<1>2. \A m \in Lease \ {f} : m \in SavedIn(u) <=> m \in SavedIn(v)
  BY <1>1 DEF SavedIn
<1>3. QED
  BY <1>1, <1>2 DEF Keeps, v

(* The row after a call of ensure_active_lease, and when a renewal is      *)
(* requested.                                                              *)
PendingRows == [AfterEnsure EXCEPT ![EntitledLease].state = "RENEWAL_PENDING"]

LEMMA EnsureKeeps ==
    ASSUME IInv, BinInv, Entitled
    PROVE  /\ Keeps(lease, AfterEnsure) /\ Keeps(lease, PendingRows)
           /\ AfterEnsure \in [Lease -> LeaseRow] /\ PendingRows \in [Lease -> LeaseRow]
           /\ EntitledLease \in SavedIn(lease)
<1>1. /\ LatestStarted \in StartedLeases /\ EntitledLease \in Lease
      /\ EntitledLease \in StartedLeases \cup ApprovedSuccessors(LatestStarted)
  BY EntitledLeaseType DEF IInv
<1>2. /\ EntitledLease \in SavedIn(lease) /\ lease[EntitledLease].state # "RECYCLE_BIN"
      /\ LatestStarted \in SavedIn(lease) /\ lease[LatestStarted].state # "RECYCLE_BIN"
  BY <1>1 DEF SavedIn, StartedLeases, ApprovedSuccessors, Successors, ActiveStates
<1>3. lease \in [Lease -> LeaseRow] /\ AfterEnsure \in [Lease -> LeaseRow]
  BY AfterEnsureType DEF IInv, TypeOK
<1>4. Keeps(lease, lease)
  BY SameKeeps
<1>5. Keeps(lease, AfterEnsure)
  <2> DEFINE half == [lease EXCEPT ![LatestStarted].state = "EXPIRED"]
  <2>1. CASE AfterEnsure = lease
    BY <1>4, <2>1
  <2>2. CASE AfterEnsure # lease
    <3>1. Keeps(lease, half)
      BY <1>2, <1>3, <1>4, StateKeeps
    <3>2. half \in [Lease -> LeaseRow]
      <4>1. LatestStarted \in Lease /\ "EXPIRED" \in LeaseStates
        BY <1>2 DEF SavedIn, LeaseStates, DueStates
      <4>2. QED
        BY <1>3, <4>1, SetStateType
    <3>3. AfterEnsure = [half EXCEPT ![EntitledLease].state = "ACTIVE"]
      BY <2>2 DEF AfterEnsure
    <3>4. "ACTIVE" \in ActiveStates
      BY DEF ActiveStates
    <3> HIDE DEF half
    <3>5. QED
      BY <1>2, <1>3, <3>1, <3>2, <3>3, <3>4, StateKeeps
  <2>3. QED
    BY <2>1, <2>2
<1>6. "RENEWAL_PENDING" \in ActiveStates /\ "RENEWAL_PENDING" \in LeaseStates
  BY DEF ActiveStates, LeaseStates, DueStates
<1>7. Keeps(lease, PendingRows)
  BY <1>2, <1>3, <1>5, <1>6, StateKeeps DEF PendingRows
<1>8. PendingRows \in [Lease -> LeaseRow]
  BY <1>1, <1>3, <1>6, SetStateType DEF PendingRows
<1>9. QED
  BY <1>2, <1>3, <1>5, <1>7, <1>8

(* A lease whose window is not over is not in the bin.                     *)
LEMMA RunsOutsideBin ==
    ASSUME IInv, BinInv, NEW l \in Lease, now < lease[l].expires
    PROVE  lease[l].state # "RECYCLE_BIN"
<1>1. lease[l].expires \in Nat /\ now \in Nat
  BY DEF IInv, TypeOK, LeaseRow, Time
<1>2. BinFits(l)
  BY DEF BinInv
<1>3. QED
  BY <1>1, <1>2 DEF BinFits

LEMMA GrantKeeps ==
    ASSUME IInv, BinInv, NEW t \in [Lease -> LeaseRow], Keeps(lease, t),
           NEW l \in SavedIn(lease), now < lease[l].expires, NEW d, UnusedLeases # {}
    PROVE  Keeps(lease, Grant(t, l, d))
<1> DEFINE half == [t EXCEPT ![l].state = "RENEWAL_WINDOW"]
<1>1. l \in Lease /\ lease \in [Lease -> LeaseRow]
  BY DEF SavedIn, IInv, TypeOK
<1>2. /\ lease[l].state # "RECYCLE_BIN" /\ FreshLease \in Lease
      /\ lease[FreshLease].state = "NONE"
  BY <1>1, RunsOutsideBin, FreshLeaseType
<1>3. "RENEWAL_WINDOW" \in ActiveStates /\ "RENEWAL_WINDOW" \in LeaseStates
  BY DEF ActiveStates, LeaseStates, DueStates
<1>4. Keeps(lease, half) /\ half \in [Lease -> LeaseRow]
  BY <1>1, <1>2, <1>3, StateKeeps, SetStateType
<1>5. Grant(t, l, d) = [half EXCEPT ![FreshLease] = NewLease("APPROVED", t[l].expires, d, l)]
  BY DEF Grant
<1> HIDE DEF half
<1> DEFINE f == FreshLease
           b == t[l].expires
<1>6. f \in Lease /\ lease[f].state = "NONE" /\ "APPROVED" \in {"APPROVED", "UNSAVED"}
  BY <1>2
<1> HIDE DEF f, b
<1>7. Keeps(lease, [half EXCEPT ![f] = NewLease("APPROVED", b, d, l)])
  BY <1>1, <1>4, <1>6, NewRowKeeps
<1>8. QED
  BY <1>5, <1>7 DEF f, b

(* The lease of a late request, or of a late decision, is closed.          *)
CloseLease(t, l) == [t EXCEPT ![l].state = IF @ \in ActiveStates THEN "EXPIRED" ELSE @]

LEMMA CloseKeeps ==
    ASSUME NEW t \in [Lease -> LeaseRow], NEW u \in [Lease -> LeaseRow], Keeps(t, u),
           NEW l \in SavedIn(t), t[l].state = "RECYCLE_BIN" => u[l] = t[l]
    PROVE  Keeps(t, CloseLease(u, l))
<1>1. l \in Lease
  BY DEF SavedIn
<1>2. CASE u[l].state \in ActiveStates
  <2>1. CloseLease(u, l) = [u EXCEPT ![l].state = "EXPIRED"]
    BY <1>2 DEF CloseLease
  <2>2. t[l].state # "RECYCLE_BIN"
    BY <1>2 DEF ActiveStates
  <2>3. Keeps(t, [u EXCEPT ![l].state = "EXPIRED"])
    BY <2>2, StateKeeps
  <2>4. QED
    BY <2>1, <2>3
<1>3. CASE u[l].state \notin ActiveStates
  <2>1. CloseLease(u, l) = u
    BY <1>1, <1>3 DEF CloseLease, LeaseRow
  <2>2. QED
    BY <2>1
<1>4. QED
  BY <1>2, <1>3

(* The lease a request renews is the end of the chain of the entitling     *)
(* lease: a lease in the database without an approved successor.           *)
LEMMA RenewedLease ==
    ASSUME IInv, BinInv, NEW d \in Durations, NEW r \in Renewal, NEW l \in Lease,
           RenewalRequest(d, r, l)
    PROVE  /\ l \in SavedIn(lease) /\ now < lease[l].expires /\ d > 0 /\ d \in Nat
           /\ \A s \in Lease : lease[s].prev = l => lease[s].state # "APPROVED"
<1>1. EntitledLease \in SavedIn(lease)
  BY EnsureKeeps DEF RenewalRequest
<1>2. \A m \in SavedIn(lease) : ApprovedSuccessors(m) \subseteq SavedIn(lease)
  BY DEF ApprovedSuccessors, Successors, SavedIn
<1>3. SavedIn(lease) \in SUBSET Lease
  BY DEF SavedIn
<1>4. l \in SavedIn(lease) /\ ApprovedSuccessors(l) = {}
  BY <1>1, <1>2, <1>3 DEF RenewalRequest, ChainEnds
<1>5. d \in Nat /\ d > 0
  BY TimeAssumption
<1>6. QED
  BY <1>4, <1>5 DEF RenewalRequest, ApprovedSuccessors, Successors

(* Without a lag, time passes only when no decision is in hand.            *)
LEMMA ClockMeansNoDecision ==
    ASSUME NoLag, IInv, BinInv, ClockAdvances
    PROVE  decision.req = None /\ now <= now' /\ now' = now + 1
<1>1. now \in Nat /\ decision.at \in Nat
  BY DEF IInv, TypeOK, Time
<1>2. CASE decision = NoDecision
  BY <1>1, <1>2 DEF NoDecision, ClockAdvances
<1>3. CASE now < decision.at
  BY <1>1, <1>3 DEF BinInv, DecisionIsNow, ClockAdvances
<1>4. QED
  BY <1>1, <1>2, <1>3 DEF NoLag, ClockAdvances

-----------------------------------------------------------------------------
(* Each action keeps the bin.                                              *)

(* What an action has to show that recycles nothing and saves no restore.  *)
LEMMA BinStays ==
    ASSUME IInv, BinInv, TypeOK', now <= now', Keeps(lease, lease'),
           \A l \in Lease : op[l].status # "NONE" => op'[l].status # "NONE",
           \A l \in Lease : op'[l].status # "NONE" => l \in SavedIn(lease),
           \A r \in Renewal : renewal'[r].state # "NONE" => renewal'[r].lease \in SavedIn(lease),
           DecisionIsNow',
           restoring'.req # None => lease'[restoring'.lease].state = "UNSAVED",
           scan'.lease # None =>
              \/ scan'.lease = scan.lease
              \/ scan'.lease \in SavedIn(lease) /\ lease[scan'.lease].expires <= now
    PROVE  BinInv'
<1>1. /\ now \in Nat /\ now' \in Nat
      /\ \A l \in Lease : lease[l].expires \in Nat
  BY DEF IInv, TypeOK, Time, LeaseRow
<1>2. SavedIn(lease) \subseteq SavedIn(lease')
  BY DEF Keeps, SavedIn
<1>3. \A l \in SavedIn(lease) : l \in Lease /\ lease'[l].expires = lease[l].expires
  BY DEF Keeps, SavedIn
<1>4. ASSUME NEW l \in Lease PROVE BinFits(l)'
  <2>1. BinFits(l)
    BY DEF BinInv
  <2>2. lease'[l].recycled <=> lease'[l].state = "RECYCLE_BIN"
    BY DEF Keeps
  <2>3. ASSUME lease'[l].recycled
        PROVE  op'[l].status # "NONE" /\ lease'[l].expires <= now'
    <3>1. lease[l].state = "RECYCLE_BIN"
      BY <2>3 DEF Keeps
    <3>2. op[l].status # "NONE" /\ lease[l].expires <= now /\ l \in SavedIn(lease)
      BY <2>1, <3>1 DEF BinFits
    <3>3. QED
      BY <1>1, <1>3, <3>2
  <2>4. op'[l].status # "NONE" => l \in SavedIn(lease')
    BY <1>2
  <2>5. QED
    BY <2>2, <2>3, <2>4 DEF BinFits, SavedIn
<1>5. ScanIsLate'
  <2>1. scan'.lease # None =>
           scan'.lease \in SavedIn(lease) /\ lease[scan'.lease].expires <= now
    BY DEF BinInv, ScanIsLate
  <2>2. scan'.lease # None =>
           scan'.lease \in SavedIn(lease') /\ lease'[scan'.lease].expires <= now'
    BY <1>1, <1>2, <1>3, <2>1
  <2>3. QED
    BY <2>2 DEF ScanIsLate, SavedIn
<1>6. \A r \in Renewal : renewal'[r].state # "NONE" => renewal'[r].lease \in SavedIn(lease')
  BY <1>2
<1>7. QED
  BY <1>4, <1>5, <1>6 DEF BinInv, SavedIn

(* The same when only the leases change, and nothing in hand.              *)
LEMMA BinStaysQuietly ==
    ASSUME IInv, BinInv, IInv', now <= now', Keeps(lease, lease'),
           UNCHANGED <<op, restoring>>,
           scan' = scan \/ scan'.lease = None,
           \A r \in Renewal : renewal'[r].state # "NONE" => renewal'[r].lease \in SavedIn(lease),
           DecisionIsNow'
    PROVE  BinInv'
<1>1. restoring'.req # None => lease'[restoring'.lease].state = "UNSAVED"
  <2>1. restoring.req # None => restoring.lease \in Lease /\ lease[restoring.lease].state = "UNSAVED"
    BY DEF IInv, RestoreHoldsItsItem, BinInv
  <2>2. QED
    BY <2>1 DEF Keeps
<1>2. \A l \in Lease : op[l].status # "NONE" => l \in SavedIn(lease)
  BY DEF BinInv, BinFits
<1>3. TypeOK'
  BY DEF IInv
<1>4. QED
  BY <1>1, <1>2, <1>3, BinStays

(* Requests and decisions.                                                 *)
LEMMA RenewalBin ==
    ASSUME NoLag, IInv, BinInv, IInv', NEW d \in Durations, NEW r \in Renewal, NEW l \in Lease,
           RequestRenewal(d, r, l) \/ AutoRenew(d, r, l) \/ AutoRenewLate(d, r, l)
    PROVE  BinInv' /\ Keeps(lease, lease')
<1>1. RenewalRequest(d, r, l) /\ Entitled
  BY DEF RequestRenewal, AutoRenew, AutoRenewLate, RenewalRequest
<1>2. Keeps(lease, PendingRows) /\ PendingRows \in [Lease -> LeaseRow]
  BY <1>1, EnsureKeeps
<1>3. l \in SavedIn(lease) /\ now < lease[l].expires
  BY <1>1, RenewedLease
<1>4. /\ lease \in [Lease -> LeaseRow] /\ renewal \in [Renewal -> RenewalRow]
      /\ now \in Nat
  BY DEF IInv, TypeOK, Time
<1>5. UNCHANGED <<op, restoring, scan, decision>>
  BY DEF RequestRenewal, AutoRenew, AutoRenewLate
<1>6. Keeps(lease, lease')
  <2>1. CASE RequestRenewal(d, r, l)
    BY <1>2, <2>1 DEF RequestRenewal, PendingRows
  <2>2. CASE AutoRenew(d, r, l)
    <3>1. lease' = Grant(PendingRows, l, d) /\ UnusedLeases # {}
      BY <2>2 DEF AutoRenew, PendingRows, CanGrant
    <3>2. QED
      BY <1>2, <1>3, <3>1, GrantKeeps
  <2>3. CASE AutoRenewLate(d, r, l)
    <3>1. lease' = CloseLease(PendingRows, l)
      BY <2>3 DEF AutoRenewLate, PendingRows, CloseLease
    <3>2. lease[l].state # "RECYCLE_BIN"
      BY <1>3, RunsOutsideBin
    <3>3. QED
      BY <1>2, <1>3, <1>4, <3>1, <3>2, CloseKeeps
  <2>4. QED
    BY <2>1, <2>2, <2>3
<1>7. now <= now' /\ (now' = now \/ decision.req = None)
  <2>1. CASE now' = now
    BY <1>4, <2>1
  <2>2. CASE AutoRenewLate(d, r, l)
    BY <2>2, ClockMeansNoDecision DEF AutoRenewLate
  <2>3. QED
    BY <2>1, <2>2 DEF RequestRenewal, AutoRenew
<1>8. DecisionIsNow'
  BY <1>5, <1>7 DEF BinInv, DecisionIsNow
<1>9. renewal'[r].lease = l /\ \A x \in Renewal \ {r} : renewal'[x] = renewal[x]
  <2>1. ASSUME NEW row, renewal' = [renewal EXCEPT ![r] = row], row.lease = l
        PROVE  renewal'[r].lease = l /\ \A x \in Renewal \ {r} : renewal'[x] = renewal[x]
    BY <1>4, <2>1
  <2>2. \A s : [NoRenewal EXCEPT !.state = s, !.lease = l, !.duration = d].lease = l
    BY DEF NoRenewal
  <2>3. CASE RequestRenewal(d, r, l)
    BY <2>1, <2>2, <2>3 DEF RequestRenewal
  <2>4. CASE AutoRenew(d, r, l)
    <3>1. renewal' = [renewal EXCEPT ![r] =
                         [state |-> "APPROVED", lease |-> l, duration |-> d,
                          result |-> FreshLease]]
      BY <2>4 DEF AutoRenew
    <3>2. [state |-> "APPROVED", lease |-> l, duration |-> d, result |-> FreshLease].lease = l
      OBVIOUS
    <3>3. QED
      BY <2>1, <3>1, <3>2
  <2>5. CASE AutoRenewLate(d, r, l)
    BY <2>1, <2>2, <2>5 DEF AutoRenewLate
  <2>6. QED
    BY <2>3, <2>4, <2>5
<1>10. \A x \in Renewal : renewal'[x].state # "NONE" => renewal'[x].lease \in SavedIn(lease)
  BY <1>3, <1>9 DEF BinInv
<1>11. QED
  BY <1>5, <1>6, <1>7, <1>8, <1>10, BinStaysQuietly

LEMMA DecisionBin ==
    ASSUME IInv, BinInv, IInv', DecideCommit
    PROVE  BinInv' /\ Keeps(lease, lease')
<1> DEFINE r == decision.req
           l == renewal[r].lease
<1>1. /\ r \in Renewal /\ l \in Lease /\ decision.at = now /\ l \in SavedIn(lease)
      /\ lease \in [Lease -> LeaseRow] /\ renewal \in [Renewal -> RenewalRow] /\ now \in Nat
  BY DEF DecideCommit, IInv, TypeOK, RequestsRefer, BinInv, DecisionIsNow, Time
<1>2. DecideLate(r, l) \/ DecideReject(r, l) \/ DecideApprove(r, l) \/ DecideRefused(r, l)
  BY DEF DecideCommit
<1>3. UNCHANGED <<now, op, restoring, scan>> /\ decision' = NoDecision
  BY DEF DecideCommit
<1> HIDE DEF r, l
<1>4. Keeps(lease, lease)
  BY SameKeeps
<1>5. now < lease[l].expires => lease[l].state # "RECYCLE_BIN"
  BY <1>1, RunsOutsideBin
<1>6. CASE DecideLate(r, l)
  <2>1. lease' = CloseLease(lease, l)
    BY <1>6 DEF DecideLate, CloseLease
  <2>2. Keeps(lease, lease')
    BY <1>1, <1>4, <2>1, CloseKeeps
  <2>3. \A x \in Renewal : /\ renewal'[x].lease = renewal[x].lease
                           /\ renewal'[x].state = renewal[x].state \/ x = r
    BY <1>1, <1>6 DEF DecideLate, RenewalRow
  <2>4. QED
    <3>1. \A x \in Renewal : renewal'[x].state # "NONE" => renewal'[x].lease \in SavedIn(lease)
      BY <1>1, <2>3 DEF BinInv, l
    <3>2. QED
      BY <1>1, <1>3, <2>2, <3>1, BinStaysQuietly DEF DecisionIsNow, NoDecision
<1>7. CASE DecideReject(r, l)
  <2>1. lease' = [lease EXCEPT ![l].state = "RENEWAL_WINDOW"] /\ now < lease[l].expires
    BY <1>1, <1>7 DEF DecideReject
  <2>2. "RENEWAL_WINDOW" \in ActiveStates
    BY DEF ActiveStates
  <2>3. Keeps(lease, lease')
    BY <1>1, <1>4, <1>5, <2>1, <2>2, StateKeeps
  <2>4. \A x \in Renewal : /\ renewal'[x].lease = renewal[x].lease
                           /\ renewal'[x].state = renewal[x].state \/ x = r
    BY <1>1, <1>7 DEF DecideReject, RenewalRow
  <2>5. \A x \in Renewal : renewal'[x].state # "NONE" => renewal'[x].lease \in SavedIn(lease)
    BY <1>1, <2>4 DEF BinInv, l
  <2>6. QED
    BY <1>1, <1>3, <2>3, <2>5, BinStaysQuietly DEF DecisionIsNow, NoDecision
<1>8. CASE DecideApprove(r, l)
  <2>1. /\ now < lease[l].expires /\ UnusedLeases # {}
        /\ lease' = Grant(lease, l, renewal[r].duration)
    BY <1>1, <1>8 DEF DecideApprove, CanGrant
  <2>2. Keeps(lease, lease')
    BY <1>1, <1>4, <2>1, GrantKeeps
  <2>3. \A x \in Renewal : /\ renewal'[x].lease = renewal[x].lease
                           /\ renewal'[x].state = renewal[x].state \/ x = r
    BY <1>1, <1>8 DEF DecideApprove, RenewalRow
  <2>4. \A x \in Renewal : renewal'[x].state # "NONE" => renewal'[x].lease \in SavedIn(lease)
    BY <1>1, <2>3 DEF BinInv, l
  <2>5. QED
    BY <1>1, <1>3, <2>2, <2>4, BinStaysQuietly DEF DecisionIsNow, NoDecision
<1>9. CASE DecideRefused(r, l)
  <2>1. UNCHANGED <<lease, renewal>>
    BY <1>9 DEF DecideRefused
  <2>2. QED
    BY <1>1, <1>3, <1>4, <2>1, BinStaysQuietly DEF DecisionIsNow, NoDecision, BinInv
<1>10. QED
  BY <1>2, <1>6, <1>7, <1>8, <1>9

(* The owner uses the lease.                                               *)
LEMMA UseBin ==
    ASSUME IInv, BinInv, IInv', UseLease \/ StartContainer
    PROVE  BinInv' /\ Keeps(lease, lease')
<1>1. /\ Entitled /\ lease' = AfterEnsure
      /\ UNCHANGED <<now, renewal, op, decision, scan, restoring>>
  BY DEF UseLease, StartContainer
<1>2. Keeps(lease, lease') /\ now \in Nat
  BY <1>1, EnsureKeeps DEF IInv, TypeOK, Time
<1>3. DecisionIsNow' /\ now <= now'
  BY <1>1, <1>2 DEF BinInv, DecisionIsNow
<1>4. QED
  BY <1>1, <1>2, <1>3, BinStaysQuietly DEF BinInv

(* The expiry worker hands the lease over to its successor.                *)
LEMMA ActivateBin ==
    ASSUME IInv, BinInv, IInv', NEW l \in Lease, ScanActivate(l)
    PROVE  BinInv' /\ Keeps(lease, lease')
<1>1. /\ lease \in [Lease -> LeaseRow] /\ now \in Nat
      /\ UNCHANGED <<now, renewal, op, decision, restoring>>
  BY DEF ScanActivate, IInv, TypeOK, Time
<1>2. PICK s \in LiveSuccessors(l) :
         lease' = [lease EXCEPT ![l].state = "EXPIRED", ![s].state = "ACTIVE"]
  BY DEF ScanActivate
<1>3. s \in SavedIn(lease) /\ s \in Lease /\ lease[s].state = "APPROVED"
  BY DEF LiveSuccessors, ApprovedSuccessors, Successors, SavedIn
<1>4. l \in SavedIn(lease) /\ lease[l].state # "RECYCLE_BIN"
  BY DEF ScanActivate, Locks, DueStates, ActiveStates, SavedIn
<1> DEFINE half == [lease EXCEPT ![l].state = "EXPIRED"]
<1>5. half \in [Lease -> LeaseRow] /\ Keeps(lease, half)
  <2>1. "EXPIRED" \in LeaseStates
    BY DEF LeaseStates, DueStates
  <2>2. half \in [Lease -> LeaseRow]
    BY <1>1, <2>1, SetStateType
  <2>3. Keeps(lease, half)
    BY <1>1, <1>4, SameKeeps, StateKeeps
  <2>4. QED
    BY <2>2, <2>3
<1>6. lease' = [half EXCEPT ![s].state = "ACTIVE"] /\ "ACTIVE" \in ActiveStates
  BY <1>2 DEF ActiveStates
<1> HIDE DEF half
<1>7. Keeps(lease, lease')
  BY <1>1, <1>3, <1>5, <1>6, StateKeeps
<1>8. scan' = scan \/ scan'.lease = None
  BY DEF ScanActivate, ScanAdvance, NoScan, IInv, TypeOK
<1>9. DecisionIsNow' /\ now <= now'
  BY <1>1 DEF BinInv, DecisionIsNow
<1>10. QED
  BY <1>1, <1>7, <1>8, <1>9, BinStaysQuietly DEF BinInv

(* A cleanup, of a lease in the database that is over.                     *)
LEMMA CleanupBin ==
    ASSUME IInv, BinInv, IInv', NEW l \in SavedIn(lease), lease[l].expires <= now,
           ~lease[l].recycled, NEW w, Cleanup(l, w), op'[l].status # "NONE",
           \A m \in Lease \ {l} : op'[m] = op[m],
           UNCHANGED <<now, renewal, decision, restoring>>,
           scan' = scan \/ scan'.lease = None
    PROVE  BinInv' /\ \A m \in Lease \ {l} : lease'[m] = lease[m]
<1>1. /\ l \in Lease /\ lease \in [Lease -> LeaseRow] /\ now \in Nat /\ TypeOK'
      /\ lease[l].state # "RECYCLE_BIN"
  BY DEF SavedIn, IInv, TypeOK, Time, BinInv, BinFits
<1>2. \A m \in Lease \ {l} : lease'[m] = lease[m]
  BY <1>1 DEF Cleanup, RecordRecycled, RecordNotRecycled
<1>3. DecisionIsNow' /\ now <= now'
  BY <1>1 DEF BinInv, DecisionIsNow
<1>4. \A m \in Lease : /\ op[m].status # "NONE" => op'[m].status # "NONE"
                       /\ op'[m].status # "NONE" => m \in SavedIn(lease)
  BY DEF BinInv, BinFits
<1>5. CASE w.reply # "SUCCEEDED"
  <2>1. lease' = [lease EXCEPT ![l].state = "EXPIRED"]
    BY <1>5 DEF Cleanup, RecordNotRecycled
  <2>2. Keeps(lease, lease')
    BY <1>1, <2>1, SameKeeps, StateKeeps
  <2>3. restoring'.req # None => lease'[restoring'.lease].state = "UNSAVED"
    <3>1. restoring.req # None =>
             restoring.lease \in Lease /\ lease[restoring.lease].state = "UNSAVED"
      BY DEF IInv, RestoreHoldsItsItem, BinInv
    <3>2. QED
      BY <2>2, <3>1 DEF Keeps
  <2>4. QED
    BY <1>1, <1>2, <1>3, <1>4, <2>2, <2>3, BinStays DEF BinInv
<1>6. CASE w.reply = "SUCCEEDED"
  <2>1. lease' = [lease EXCEPT ![l] = [@ EXCEPT !.state = "RECYCLE_BIN", !.recycled = TRUE]]
    BY <1>6 DEF Cleanup, RecordRecycled
  <2>2. /\ lease'[l].state = "RECYCLE_BIN" /\ lease'[l].recycled
        /\ lease'[l].expires = lease[l].expires
    BY <1>1, <2>1 DEF LeaseRow
  <2>3. \A m \in Lease : m \in SavedIn(lease') <=> m \in SavedIn(lease)
    BY <1>2, <2>2 DEF SavedIn
  <2>4. ASSUME NEW m \in Lease PROVE BinFits(m)'
    <3>1. BinFits(m)
      BY DEF BinInv
    <3>2. /\ lease'[m].recycled <=> lease'[m].state = "RECYCLE_BIN"
          /\ lease'[m].recycled => op'[m].status # "NONE" /\ lease'[m].expires <= now'
          /\ op'[m].status # "NONE" => m \in SavedIn(lease')
      BY <1>1, <1>2, <1>4, <2>2, <2>3, <3>1 DEF BinFits
    <3>3. QED
      BY <3>2 DEF BinFits, SavedIn
  <2>5. restoring'.req # None => lease'[restoring'.lease].state = "UNSAVED"
    <3>1. restoring.req # None =>
             restoring.lease \in Lease /\ lease[restoring.lease].state = "UNSAVED"
      BY DEF IInv, RestoreHoldsItsItem, BinInv
    <3>2. l \in SavedIn(lease)
      OBVIOUS
    <3>3. QED
      BY <1>2, <3>1, <3>2 DEF SavedIn
  <2>6. scan'.lease # None => scan'.lease \in SavedIn(lease') /\ lease'[scan'.lease].expires <= now'
    <3>1. scan'.lease # None =>
             /\ scan'.lease \in SavedIn(lease) /\ scan'.lease \in Lease
             /\ lease[scan'.lease].expires <= now
      BY DEF BinInv, ScanIsLate, SavedIn
    <3>2. QED
      BY <1>2, <2>2, <2>3, <3>1
  <2>7. \A r \in Renewal : renewal'[r].state # "NONE" => renewal'[r].lease \in SavedIn(lease')
    BY <2>3 DEF BinInv, SavedIn
  <2>8. QED
    BY <1>2, <1>3, <2>4, <2>5, <2>6, <2>7 DEF BinInv, ScanIsLate, SavedIn
<1>7. QED
  BY <1>5, <1>6

(* A lease that is cleaned up is over and in the database.                 *)
LEMMA CleanableBin ==
    ASSUME IInv, BinInv, NEW l \in Lease,
           \/ Locks(l)
           \/ op[l].status = "FAILED" /\ lease[l].expires <= now /\ ~lease[l].recycled
    PROVE  l \in SavedIn(lease) /\ lease[l].expires <= now /\ ~lease[l].recycled
<1>1. CASE Locks(l)
  <2>1. scan.lease # None
    BY <1>1, LeaseAssumption DEF Locks
  <2>2. QED
    BY <1>1, <2>1 DEF Locks, BinInv, ScanIsLate
<1>2. CASE op[l].status = "FAILED" /\ lease[l].expires <= now /\ ~lease[l].recycled
  BY <1>2 DEF BinInv, BinFits
<1>3. QED
  BY <1>1, <1>2

LEMMA RecycleBin ==
    ASSUME IInv, BinInv, IInv', NEW l \in Lease, ScanRecycle(l) \/ RetryRecycle(l)
    PROVE  /\ BinInv'
           /\ \A m \in Lease : lease[m].state = "RECYCLE_BIN" => lease'[m] = lease[m]
<1>1. l \in SavedIn(lease) /\ lease[l].expires <= now /\ ~lease[l].recycled
  BY CleanableBin DEF ScanRecycle, RetryRecycle, MayRecycle
<1>2. PICK w : Cleanup(l, w) /\ op'[l].status # "NONE" /\ \A m \in Lease \ {l} : op'[m] = op[m]
  <2>1. CASE ScanRecycle(l)
    <3>1. PICK w \in RecycleReplies(host, l) \cup RecycleFaults(host) :
             /\ Cleanup(l, w)
             /\ op' = [op EXCEPT ![l] =
                         IF w.reply = "SUCCEEDED"
                         THEN [status |-> "SUCCEEDED", attempts |-> op[l].attempts + 1,
                               retryAt |-> 0, manual |-> FALSE]
                         ELSE FailedOp(op[l].attempts + 1, w.reply)]
      BY <2>1 DEF ScanRecycle
    <3>2. op \in [Lease -> OpRow]
      BY DEF IInv, TypeOK
    <3>3. op'[l].status # "NONE" /\ \A m \in Lease \ {l} : op'[m] = op[m]
      BY <3>1, <3>2 DEF FailedOp
    <3>4. QED
      BY <3>1, <3>3
  <2>2. CASE RetryRecycle(l)
    <3>1. op' = op /\ op[l].status = "FAILED"
      BY <2>2 DEF RetryRecycle
    <3>2. PICK w \in RecycleReplies(host, l) \cup RecycleFaults(host) : Cleanup(l, w)
      BY <2>2 DEF RetryRecycle
    <3>3. QED
      BY <3>1, <3>2
  <2>3. QED
    BY <2>1, <2>2
<1>3. UNCHANGED <<now, renewal, decision, restoring>> /\ (scan' = scan \/ scan'.lease = None)
  <2>1. CASE ScanRecycle(l)
    <3>1. ScanAdvance(l)
      BY <2>1 DEF ScanRecycle
    <3>2. scan'.lease = None
      BY <3>1 DEF ScanAdvance, NoScan, IInv, TypeOK
    <3>3. QED
      BY <2>1, <3>2 DEF ScanRecycle
  <2>2. CASE RetryRecycle(l)
    BY <2>2 DEF RetryRecycle
  <2>3. QED
    BY <2>1, <2>2
<1>4. BinInv' /\ \A m \in Lease \ {l} : lease'[m] = lease[m]
  BY <1>1, <1>2, <1>3, CleanupBin
<1>5. lease[l].state # "RECYCLE_BIN"
  BY <1>1 DEF BinInv, BinFits
<1>6. QED
  BY <1>4, <1>5

(* An action that changes neither leases nor operations nor restores.      *)
LEMMA IdleBin ==
    ASSUME IInv, BinInv, IInv',
           \/ \E r \in Renewal, approve \in BOOLEAN : DecideStart(r, approve)
           \/ SetPolicy \/ StopContainer \/ ScanCancel \/ ScanRead \/ ScanCrash
           \/ \E l \in Lease : ScanPass(l)
           \/ \E c \in left : ServeLeft(c)
           \/ RestoreRun
           \/ \E q \in Restore : RejectRestore(q)
           \/ UNCHANGED vars
    PROVE  BinInv' /\ Keeps(lease, lease')
<1>1. UNCHANGED <<now, lease, op>> /\ now \in Nat /\ now <= now'
  BY DEF DecideStart, SetPolicy, StopContainer, ScanCancel, ScanRead, ScanCrash, ScanPass,
         ServeLeft, RestoreRun, RejectRestore, vars, rows, IInv, TypeOK, Time
<1>2. scan' = scan \/ scan'.lease = None
  <2>1. CASE ScanCancel \/ ScanRead \/ ScanCrash
    <3>1. CASE ScanCancel
      BY <3>1 DEF ScanCancel, NoScan
    <3>2. CASE ScanRead
      <4> DEFINE due == {l \in Lease : Due(l)}
      <4>1. scan' = NoScan \/ scan' = [NoScan EXCEPT !.pc = "RUN", !.due = due]
        BY <3>2 DEF ScanRead
      <4> HIDE DEF due
      <4>2. [NoScan EXCEPT !.pc = "RUN", !.due = due].lease = None /\ NoScan.lease = None
        BY DEF NoScan
      <4>3. QED
        BY <4>1, <4>2
    <3>3. CASE ScanCrash
      BY <3>3 DEF ScanCrash, NoScan
    <3>4. QED
      BY <2>1, <3>1, <3>2, <3>3
  <2>2. CASE \E l \in Lease : ScanPass(l)
    <3>1. PICK l \in Lease : ScanAdvance(l)
      BY <2>2 DEF ScanPass
    <3>2. QED
      BY <3>1 DEF ScanAdvance, NoScan, IInv, TypeOK
  <2>3. CASE UNCHANGED scan
    BY <2>3
  <2>4. QED
    BY <2>1, <2>2, <2>3 DEF DecideStart, SetPolicy, StopContainer, ServeLeft, RestoreRun,
                            RejectRestore, vars
<1>3. decision' = decision \/ decision'.at = now
  BY DEF DecideStart, SetPolicy, StopContainer, ScanCancel, ScanRead, ScanCrash, ScanPass,
         ServeLeft, RestoreRun, RejectRestore, vars
<1>4. DecisionIsNow'
  BY <1>1, <1>3 DEF BinInv, DecisionIsNow
<1>5. \A r \in Renewal : renewal'[r].state # "NONE" => renewal'[r].lease \in SavedIn(lease)
  <2>1. CASE ScanCancel
    <3>1. \A r \in Renewal :
             \/ renewal'[r] = renewal[r]
             \/ /\ renewal'[r] = [renewal[r] EXCEPT !.state = "CANCELLED"]
                /\ renewal[r].state = "REQUESTED"
      BY <2>1 DEF ScanCancel
    <3>2. \A r \in Renewal : renewal[r] \in RenewalRow
      BY DEF IInv, TypeOK
    <3>3. \A r \in Renewal : /\ renewal'[r].lease = renewal[r].lease
                             /\ renewal'[r].state # "NONE" => renewal[r].state # "NONE"
      BY <3>1, <3>2 DEF RenewalRow
    <3>4. QED
      BY <3>3 DEF BinInv
  <2>2. CASE renewal' = renewal
    BY <2>2 DEF BinInv
  <2>3. QED
    BY <2>1, <2>2 DEF DecideStart, SetPolicy, StopContainer, ScanRead, ScanCrash, ScanPass,
         ServeLeft, RestoreRun, RejectRestore, vars, rows
<1>6. Keeps(lease, lease')
  BY <1>1, SameKeeps
<1>7. restoring'.req # None => lease'[restoring'.lease].state = "UNSAVED"
  <2>1. restoring'.req = restoring.req /\ restoring'.lease = restoring.lease
    BY DEF DecideStart, SetPolicy, StopContainer, ScanCancel, ScanRead, ScanCrash, ScanPass,
           ServeLeft, RestoreRun, RejectRestore, vars, IInv, TypeOK
  <2>2. QED
    BY <1>1, <2>1 DEF BinInv
<1>8. \A l \in Lease : op[l].status # "NONE" => l \in SavedIn(lease)
  BY DEF BinInv, BinFits
<1>9. TypeOK'
  BY DEF IInv
<1>10. QED
  BY <1>1, <1>2, <1>4, <1>5, <1>6, <1>7, <1>8, <1>9, BinStays

LEMMA TickBin ==
    ASSUME NoLag, IInv, BinInv, IInv', Tick
    PROVE  BinInv' /\ Keeps(lease, lease')
<1>1. decision.req = None /\ now <= now'
  BY ClockMeansNoDecision DEF Tick
<1>2. UNCHANGED <<lease, renewal, op, restoring, scan, decision>>
  BY DEF Tick, rows
<1>3. DecisionIsNow' /\ Keeps(lease, lease')
  BY <1>1, <1>2, SameKeeps DEF DecisionIsNow
<1>4. QED
  BY <1>1, <1>2, <1>3, BinStaysQuietly DEF BinInv

(* The expiry worker finds a lease due.                                    *)
LEMMA LookBin ==
    ASSUME IInv, BinInv, IInv', NEW l \in Lease, ScanLook(l)
    PROVE  BinInv' /\ Keeps(lease, lease')
<1>1. UNCHANGED <<now, lease, renewal, op, restoring, decision>> /\ TypeOK' /\ now \in Nat
  BY DEF ScanLook, rows, IInv, TypeOK, Time
<1>2. scan'.lease = l
  BY DEF ScanLook, IInv, TypeOK
<1>3. l \in SavedIn(lease) /\ lease[l].expires <= now
  BY DEF ScanLook, Due, DueStates, ActiveStates, SavedIn
<1>4. DecisionIsNow' /\ Keeps(lease, lease') /\ now <= now'
  BY <1>1, SameKeeps DEF BinInv, DecisionIsNow
<1>5. \A m \in Lease : op[m].status # "NONE" => m \in SavedIn(lease)
  BY DEF BinInv, BinFits
<1>6. QED
  BY <1>1, <1>2, <1>3, <1>4, <1>5, BinStays DEF BinInv

(* A restore draws an id.                                                  *)
LEMMA BeginBin ==
    ASSUME IInv, BinInv, IInv', NEW q, NEW i, NEW d, NEW by, BeginRestore(q, i, d, by),
           UNCHANGED <<now, renewal, op, decision, scan>>
    PROVE  BinInv' /\ Keeps(lease, lease')
<1> DEFINE f == FreshLease
<1>1. f \in Lease /\ lease[f].state = "NONE" /\ lease \in [Lease -> LeaseRow]
  BY FreshLeaseType DEF BeginRestore, IInv, TypeOK
<1>2. /\ lease' = [lease EXCEPT ![f] = NewLease("UNSAVED", now, d, None)]
      /\ restoring'.lease = f
  BY DEF BeginRestore
<1> HIDE DEF f
<1>3. Keeps(lease, lease')
  <2>1. "UNSAVED" \in {"APPROVED", "UNSAVED"}
    OBVIOUS
  <2>2. QED
    BY <1>1, <1>2, <2>1, SameKeeps, NewRowKeeps
<1>4. lease'[f].state = "UNSAVED"
  BY <1>1, <1>2 DEF NewLease
<1>5. DecisionIsNow' /\ now <= now' /\ TypeOK'
  BY DEF BinInv, DecisionIsNow, IInv, TypeOK, Time
<1>6. \A m \in Lease : op[m].status # "NONE" => m \in SavedIn(lease)
  BY DEF BinInv, BinFits
<1>7. QED
  BY <1>2, <1>3, <1>4, <1>5, <1>6, BinStays DEF BinInv

LEMMA RequestBin ==
    ASSUME IInv, BinInv, IInv', NEW q \in Restore,
           \/ \E i \in Lease, d \in Durations : CreateRestore(q, i, d)
           \/ ReplayRestore(q)
           \/ ApproveRestore(q)
    PROVE  BinInv' /\ Keeps(lease, lease')
<1>1. UNCHANGED <<now, renewal, op, decision, scan>> /\ now \in Nat
  BY DEF CreateRestore, ReplayRestore, ApproveRestore, IInv, TypeOK, Time
<1>2. (\E i, d, by : BeginRestore(q, i, d, by)) \/ UNCHANGED <<lease, restoring>>
  BY DEF CreateRestore, ReplayRestore, ApproveRestore, AwaitReview
<1>3. CASE \E i, d, by : BeginRestore(q, i, d, by)
  BY <1>1, <1>3, BeginBin
<1>4. CASE UNCHANGED <<lease, restoring>>
  <2>1. Keeps(lease, lease') /\ DecisionIsNow' /\ now <= now'
    BY <1>1, <1>4, SameKeeps DEF BinInv, DecisionIsNow
  <2>2. QED
    BY <1>1, <1>4, <2>1, BinStaysQuietly DEF BinInv
<1>5. QED
  BY <1>2, <1>3, <1>4

(* A restore ends: it is recorded, or the id stays unsaved.                *)
LEMMA FinishBin ==
    ASSUME IInv, BinInv, IInv', RestoreFinish \/ RestoreCrash
    PROVE  /\ BinInv'
           /\ \A m \in Lease : lease[m].state = "RECYCLE_BIN" => lease'[m] = lease[m]
<1>1. /\ restoring.req # None /\ restoring' = NoRestoring /\ TypeOK' /\ now \in Nat
      /\ UNCHANGED <<now, renewal, op, decision, scan>>
  BY DEF RestoreFinish, RestoreCrash, rows, IInv, TypeOK, Time
<1>2. DecisionIsNow' /\ now <= now'
  BY <1>1 DEF BinInv, DecisionIsNow
<1>3. CASE lease' = lease
  <2>1. Keeps(lease, lease')
    BY <1>3, SameKeeps
  <2>2. \A m \in Lease : op[m].status # "NONE" => m \in SavedIn(lease)
    BY DEF BinInv, BinFits
  <2>3. restoring'.req = None
    BY <1>1 DEF NoRestoring
  <2>4. BinInv'
    BY <1>1, <1>2, <2>1, <2>2, <2>3, BinStays DEF BinInv
  <2>5. QED
    BY <1>3, <2>4
<1>4. CASE RestoreFinish /\ RestoreSaved
  <2> DEFINE a == restoring.lease
  <2>1. /\ a \in Lease /\ lease[a].state = "UNSAVED" /\ lease \in [Lease -> LeaseRow]
        /\ lease' = [lease EXCEPT ![a].state = "ACTIVE"]
    BY <1>1, <1>4 DEF RestoreSaved, IInv, TypeOK, RestoreHoldsItsItem, BinInv
  <2> HIDE DEF a
  <2>2. /\ lease'[a].state = "ACTIVE" /\ lease'[a].recycled = lease[a].recycled
        /\ lease'[a].expires = lease[a].expires
        /\ \A m \in Lease \ {a} : lease'[m] = lease[m]
    BY <2>1 DEF LeaseRow
  <2>3. SavedIn(lease) \subseteq SavedIn(lease')
    BY <2>2 DEF SavedIn
  <2>4. ASSUME NEW m \in Lease PROVE BinFits(m)'
    <3>1. BinFits(m) /\ BinFits(a)
      BY <2>1 DEF BinInv
    <3>2. /\ lease'[m].recycled <=> lease'[m].state = "RECYCLE_BIN"
          /\ lease'[m].recycled => op'[m].status # "NONE" /\ lease'[m].expires <= now'
          /\ op'[m].status # "NONE" => m \in SavedIn(lease')
      BY <1>1, <2>1, <2>2, <2>3, <3>1 DEF BinFits
    <3>3. QED
      BY <3>2 DEF BinFits, SavedIn
  <2>5. scan'.lease # None => scan'.lease \in SavedIn(lease') /\ lease'[scan'.lease].expires <= now'
    <3>1. scan.lease # None => /\ scan.lease \in SavedIn(lease) /\ scan.lease \in Lease
                               /\ lease[scan.lease].expires <= now
      BY DEF BinInv, ScanIsLate, SavedIn
    <3>2. QED
      BY <1>1, <2>1, <2>2, <2>3, <3>1
  <2>6. \A r \in Renewal : renewal'[r].state # "NONE" => renewal'[r].lease \in SavedIn(lease')
    BY <1>1, <2>3 DEF BinInv
  <2>7. restoring'.req = None
    BY <1>1 DEF NoRestoring
  <2>8. BinInv'
    BY <1>2, <2>4, <2>5, <2>6, <2>7 DEF BinInv, ScanIsLate, SavedIn
  <2>9. QED
    BY <2>1, <2>2, <2>8
<1>5. QED
  BY <1>3, <1>4 DEF RestoreFinish, RestoreCrash, RestoreError, RestoreUndone, RestoreFailed, rows

LEMMA InitBinInv == Init => BinInv
<1>1. ASSUME Init
      PROVE  /\ \A l \in Lease : /\ lease[l].recycled = FALSE /\ op[l].status = "NONE"
                                 /\ lease[l].state # "RECYCLE_BIN"
             /\ \A r \in Renewal : renewal[r].state = "NONE"
             /\ decision.req = None /\ restoring.req = None /\ scan.lease = None
  BY <1>1 DEF Init, NoLease, NoOp, NoRenewal, NoDecision, NoRestoring, NoScan
<1>2. QED
  BY <1>1 DEF BinInv, BinFits, DecisionIsNow, ScanIsLate

(* Every step keeps the bin and the rows that are in it.                   *)
LEMMA NextBin ==
    ASSUME NoLag, IInv, BinInv, IInv', [Next]_vars
    PROVE  /\ BinInv'
           /\ \A m \in Lease : lease[m].state = "RECYCLE_BIN" => lease'[m] = lease[m]
<1>1. ASSUME BinInv' /\ Keeps(lease, lease')
      PROVE  /\ BinInv'
             /\ \A m \in Lease : lease[m].state = "RECYCLE_BIN" => lease'[m] = lease[m]
  BY <1>1 DEF Keeps
<1>2. CASE Tick
  BY <1>1, <1>2, TickBin
<1>3. CASE OwnerStep
  <2>1. CASE \E d \in Durations, r \in Renewal, l \in Lease :
                RequestRenewal(d, r, l) \/ AutoRenew(d, r, l) \/ AutoRenewLate(d, r, l)
    BY <1>1, <2>1, RenewalBin
  <2>2. CASE \E q \in Restore : \/ \E i \in Lease, d \in Durations : CreateRestore(q, i, d)
                                \/ ReplayRestore(q)
    BY <1>1, <2>2, RequestBin
  <2>3. CASE UseLease \/ StartContainer
    BY <1>1, <2>3, UseBin
  <2>4. CASE StopContainer
    BY <1>1, <2>4, IdleBin
  <2>5. QED
    BY <1>3, <2>1, <2>2, <2>3, <2>4 DEF OwnerStep
<1>4. CASE AdminStep
  <2>1. CASE DecideCommit
    BY <1>1, <2>1, DecisionBin
  <2>2. CASE (\E r \in Renewal, approve \in BOOLEAN : DecideStart(r, approve)) \/ SetPolicy
    BY <1>1, <2>2, IdleBin
  <2>3. CASE \E q \in Restore : RejectRestore(q)
    BY <1>1, <2>3, IdleBin
  <2>4. CASE \E q \in Restore : ApproveRestore(q)
    BY <1>1, <2>4, RequestBin
  <2>5. CASE \E l \in Lease : RetryRecycle(l)
    BY <2>5, RecycleBin
  <2>6. QED
    BY <1>4, <2>1, <2>2, <2>3, <2>4, <2>5 DEF AdminStep
<1>5. CASE ScanStep
  <2>1. CASE \E l \in Lease : ScanLook(l)
    BY <1>1, <2>1, LookBin
  <2>2. CASE \E l \in Lease : ScanActivate(l)
    BY <1>1, <2>2, ActivateBin
  <2>3. CASE ScanCancel \/ ScanRead \/ ScanCrash \/ \E l \in Lease : ScanPass(l)
    BY <1>1, <2>3, IdleBin
  <2>4. CASE \E l \in Lease : ScanRecycle(l)
    BY <2>4, RecycleBin
  <2>5. QED
    BY <1>5, <2>1, <2>2, <2>3, <2>4 DEF ScanStep
<1>6. CASE RestoreStep
  <2>1. CASE RestoreRun
    BY <1>1, <2>1, IdleBin
  <2>2. CASE RestoreFinish \/ RestoreCrash
    BY <2>2, FinishBin
  <2>3. QED
    BY <1>6, <2>1, <2>2 DEF RestoreStep
<1>7. CASE WorkerStep
  BY <1>1, <1>7, IdleBin DEF WorkerStep
<1>8. CASE UNCHANGED vars
  BY <1>1, <1>8, IdleBin
<1>9. QED
  BY <1>2, <1>3, <1>4, <1>5, <1>6, <1>7, <1>8 DEF Next

(* The bin is for leases that are over and had a cleanup.                  *)
THEOREM BinInvariance ==
    ASSUME NoLag
    PROVE  Spec => []BinInv
<1>1. IInv /\ BinInv /\ IInv' /\ [Next]_vars => BinInv'
  BY NextBin
<1>2. QED
  BY <1>1, InitBinInv, Invariance, PTL DEF Spec

(* A lease in the recycle bin is final: no decision, retry, restore or     *)
(* late call of the Root Worker changes its row again.  With a decision    *)
(* lag this is false (run approval_undoes_recycle).                        *)
THEOREM RecycledLeasesStay ==
    ASSUME NoLag
    PROVE  Spec => RecycledLeaseStays
<1>1. IInv /\ BinInv /\ IInv' /\ [Next]_vars
        => \A l \in Lease : lease[l].state = "RECYCLE_BIN" => lease'[l] = lease[l]
  BY NextBin
<1>2. IInv /\ BinInv /\ IInv' /\ [Next]_vars
        => [\A l \in Lease : lease[l].state = "RECYCLE_BIN" => lease'[l] = lease[l]]_vars
  BY <1>1
<1>3. QED
  BY <1>2, Invariance, BinInvariance, PTL DEF Spec, RecycledLeaseStays

-----------------------------------------------------------------------------
(* The order of the leases.                                                *)

(* A lease that may be renewed or recycled: the end of a chain.  A renewal *)
(* that was granted and is over was never used, and nothing follows it.    *)
TipsIn(t, clock) ==
    {l \in SavedIn(t) : /\ ~t[l].recycled
                        /\ \A s \in Lease : t[s].prev # l
                        /\ t[l].state = "APPROVED" => clock < t[l].expires}

(* A renewal begins where the lease it renews ends; an approved one waits  *)
(* for a lease that still counts; what is over is over.                    *)
LeaseFits(t, l, clock) ==
    /\ l \in SavedIn(t) => t[l].starts < t[l].expires
    /\ t[l].prev # None => /\ l \in SavedIn(t) /\ t[l].prev \in SavedIn(t)
                           /\ t[t[l].prev].expires = t[l].starts
                           /\ t[t[l].prev].state # "APPROVED"
    /\ t[l].state = "APPROVED" =>
          /\ t[l].prev # None
          /\ t[t[l].prev].state \in ActiveStates \/ t[l].expires <= clock
    /\ t[l].state \in {"EXPIRED", "RECYCLE_BIN"} => t[l].expires <= clock
    /\ t[l].recycled <=> t[l].state = "RECYCLE_BIN"

(* Two leases have two predecessors and two windows.                       *)
Apart(t, l, m) ==
    /\ t[l].prev = t[m].prev => t[l].prev = None
    /\ l \in SavedIn(t) /\ m \in SavedIn(t) =>
          t[l].expires <= t[m].starts \/ t[m].expires <= t[l].starts

(* The end of a chain is the last lease of all, and without one every      *)
(* lease is over.                                                          *)
TipIsLast(t, clock) ==
    /\ \A l \in TipsIn(t, clock), m \in SavedIn(t) : t[m].expires <= t[l].expires
    /\ TipsIn(t, clock) = {} => \A m \in SavedIn(t) : t[m].expires <= clock

ChainFits(t, clock) ==
    /\ \A l \in Lease : LeaseFits(t, l, clock)
    /\ \A l, m \in Lease : l # m => Apart(t, l, m)
    /\ TipIsLast(t, clock)

(* Either one lease goes on, or one item waits in the bin or is restored.  *)
OpenIn(i) == {l \in Lease : i[l] \notin {"NONE", "RESTORED"}}
OneEnd(t, i, clock) == \A l, m \in TipsIn(t, clock) \cup OpenIn(i) : l = m

RenewalFits(r) ==
    /\ renewal[r].state = "REQUESTED" =>
          /\ renewal[r].duration > 0
          /\ \A s \in Lease : lease[s].prev = renewal[r].lease => lease[s].state # "APPROVED"
    /\ renewal[r].state = "APPROVED" => renewal[r].result \in SavedIn(lease)

RestoreFits(q) == restore[q].state # "NONE" => restore[q].duration > 0

(* A renewal that waits for its window was never cleaned up.               *)
OpFits(l) == op[l].status # "NONE" => lease[l].state # "APPROVED"

(* The lease of a restore in hand begins after every lease there is.       *)
RestoringFits ==
    restoring.req # None =>
        /\ lease[restoring.lease].starts < lease[restoring.lease].expires
        /\ \A m \in SavedIn(lease) : lease[m].expires <= lease[restoring.lease].starts

(* The lease the expiry worker waits to lock is the end, or the end is its *)
(* successor and still waits for its window; unless it moved on meanwhile. *)
ScanFits ==
    scan.lease # None =>
        \/ scan.lease \in overtaken
        \/ lease[scan.lease].recycled
        \/ \A m \in TipsIn(lease, now) \cup OpenIn(item) :
              m = scan.lease \/ (lease[m].prev = scan.lease /\ lease[m].state = "APPROVED")

EInv ==
    /\ ChainFits(lease, now)
    /\ OneEnd(lease, item, now)
    /\ \A r \in Renewal : RenewalFits(r)
    /\ \A q \in Restore : RestoreFits(q)
    /\ \A l \in Lease : OpFits(l)
    /\ RestoringFits
    /\ ScanFits

-----------------------------------------------------------------------------
(* Changes of the lease table.                                             *)

(* Leases move between states: none comes, goes or changes its window, and *)
(* only a renewal that is not over is taken up.                            *)
Moves(t, u, c, d) ==
    \A l \in Lease :
        /\ u[l].starts = t[l].starts /\ u[l].expires = t[l].expires
        /\ u[l].prev = t[l].prev /\ u[l].recycled = t[l].recycled
        /\ \A s \in {"NONE", "UNSAVED", "RECYCLE_BIN"} : u[l].state = s <=> t[l].state = s
        /\ u[l].state = "APPROVED" =>
              /\ t[l].state = "APPROVED"
              /\ u[t[l].prev].state \in ActiveStates \/ t[l].expires <= d
        /\ u[l].state = "EXPIRED" => u[l].expires <= d
        /\ t[l].state = "APPROVED" /\ u[l].state # "APPROVED" => c < t[l].expires

LEMMA Moved ==
    ASSUME NEW t \in [Lease -> LeaseRow], NEW u \in [Lease -> LeaseRow],
           NEW c \in Time, NEW d \in Time, c <= d, ChainFits(t, c), Moves(t, u, c, d)
    PROVE  /\ ChainFits(u, d)
           /\ SavedIn(u) = SavedIn(t) /\ TipsIn(u, d) \subseteq TipsIn(t, c)
<1>1. SavedIn(u) = SavedIn(t)
  BY DEF SavedIn, Moves
<1>2. \A l \in Lease : t[l].expires \in Nat /\ t[l].starts \in Nat
  BY DEF LeaseRow, Time
<1>3. c \in Nat /\ d \in Nat
  BY DEF Time
<1>4. \A l \in Lease : /\ u[l].prev = t[l].prev /\ u[l].recycled = t[l].recycled
                       /\ u[l].starts = t[l].starts /\ u[l].expires = t[l].expires
  BY DEF Moves
<1>5. \A l \in SavedIn(t) : l \in Lease
  BY DEF SavedIn
<1>6. ASSUME NEW l \in TipsIn(u, d) PROVE l \in TipsIn(t, c)
  <2>1. l \in SavedIn(t) /\ l \in Lease /\ ~t[l].recycled /\ \A s \in Lease : t[s].prev # l
    BY <1>1, <1>4, <1>5 DEF TipsIn
  <2>2. ASSUME t[l].state = "APPROVED" PROVE c < t[l].expires
    <3>1. CASE u[l].state = "APPROVED"
      <4>1. d < t[l].expires
        BY <1>4, <2>1, <3>1 DEF TipsIn
      <4>2. QED
        BY <1>2, <1>3, <2>1, <4>1
    <3>2. CASE u[l].state # "APPROVED"
      BY <2>1, <2>2, <3>2 DEF Moves
    <3>3. QED
      BY <3>1, <3>2
  <2>3. QED
    BY <2>1, <2>2 DEF TipsIn
<1>7. ASSUME NEW l \in TipsIn(t, c), l \notin TipsIn(u, d) PROVE t[l].expires <= d
  <2>1. l \in SavedIn(u) /\ l \in Lease /\ ~u[l].recycled /\ \A s \in Lease : u[s].prev # l
    BY <1>1, <1>4, <1>5 DEF TipsIn
  <2>2. ~(d < u[l].expires)
    BY <1>7, <2>1 DEF TipsIn
  <2>3. QED
    BY <1>2, <1>3, <1>4, <2>1, <2>2
<1>8. ASSUME NEW l \in Lease PROVE LeaseFits(u, l, d)
  <2>1. LeaseFits(t, l, c)
    BY DEF ChainFits
  <2>2. l \in SavedIn(u) => u[l].starts < u[l].expires
    BY <1>1, <1>4, <2>1 DEF LeaseFits
  <2>3. u[l].prev # None => /\ l \in SavedIn(u) /\ u[l].prev \in SavedIn(u)
                            /\ u[u[l].prev].expires = u[l].starts
                            /\ u[u[l].prev].state # "APPROVED"
    <3>1. t[l].prev # None => /\ t[l].prev \in Lease
                              /\ u[t[l].prev].state = "APPROVED" => t[t[l].prev].state = "APPROVED"
      BY <1>5, <2>1 DEF LeaseFits, Moves
    <3>2. QED
      BY <1>1, <1>4, <1>5, <2>1, <3>1 DEF LeaseFits
  <2>4. u[l].state = "APPROVED" =>
           /\ u[l].prev # None
           /\ u[u[l].prev].state \in ActiveStates \/ u[l].expires <= d
    BY <2>1 DEF LeaseFits, Moves
  <2>5. u[l].state \in {"EXPIRED", "RECYCLE_BIN"} => u[l].expires <= d
    BY <1>2, <1>3, <2>1 DEF LeaseFits, Moves
  <2>6. u[l].recycled <=> u[l].state = "RECYCLE_BIN"
    BY <2>1 DEF LeaseFits, Moves
  <2>7. QED
    BY <2>2, <2>3, <2>4, <2>5, <2>6 DEF LeaseFits
<1>9. ASSUME NEW l \in Lease, NEW m \in Lease, l # m PROVE Apart(u, l, m)
  BY <1>1, <1>4, <1>9 DEF ChainFits, Apart
<1>10. TipIsLast(u, d)
  <2>1. \A l \in TipsIn(t, c), m \in SavedIn(t) : t[m].expires <= t[l].expires
    BY DEF ChainFits, TipIsLast
  <2>2. \A l \in TipsIn(t, c) : l \in Lease
    BY <1>5 DEF TipsIn
  <2>3. \A l \in TipsIn(u, d), m \in SavedIn(u) : u[m].expires <= u[l].expires
    BY <1>1, <1>4, <1>5, <1>6, <2>1, <2>2
  <2>4. ASSUME TipsIn(u, d) = {}, NEW m \in SavedIn(u) PROVE u[m].expires <= d
    <3>1. m \in SavedIn(t) /\ m \in Lease /\ u[m].expires = t[m].expires
      BY <1>1, <1>4, <1>5
    <3>2. CASE TipsIn(t, c) = {}
      <4>1. t[m].expires <= c
        BY <3>1, <3>2 DEF ChainFits, TipIsLast
      <4>2. QED
        BY <1>2, <1>3, <3>1, <4>1
    <3>3. CASE TipsIn(t, c) # {}
      <4>1. PICK l \in TipsIn(t, c) : TRUE
        BY <3>3
      <4>2. t[l].expires <= d /\ t[m].expires <= t[l].expires /\ l \in Lease
        BY <1>7, <2>1, <2>2, <2>4, <3>1
      <4>3. QED
        BY <1>2, <1>3, <3>1, <4>2
    <3>4. QED
      BY <3>2, <3>3
  <2>5. QED
    BY <2>3, <2>4 DEF TipIsLast
<1>11. QED
  BY <1>1, <1>6, <1>8, <1>9, <1>10 DEF ChainFits

(* The rows after Grant, with the id that was drawn.                       *)
WithSuccessor(t, l, f, d) ==
    [[t EXCEPT ![l].state = "RENEWAL_WINDOW"]
        EXCEPT ![f] = NewLease("APPROVED", t[l].expires, d, l)]

(* The last lease is renewed: the new lease is the last one.               *)
LEMMA Granted ==
    ASSUME NEW t \in [Lease -> LeaseRow], NEW u \in [Lease -> LeaseRow],
           NEW c \in Time, ChainFits(t, c),
           NEW l \in TipsIn(t, c), \A m \in TipsIn(t, c) : m = l,
           c < t[l].expires,
           NEW f \in Lease, t[f].state = "NONE", NEW d \in Nat, d > 0,
           u = WithSuccessor(t, l, f, d)
    PROVE  /\ ChainFits(u, c)
           /\ SavedIn(u) = SavedIn(t) \cup {f} /\ TipsIn(u, c) = {f}
<1>1. l \in Lease /\ l # None /\ l # f /\ l \in SavedIn(t)
  BY LeaseAssumption DEF TipsIn, SavedIn
<1>2. \A m \in Lease : t[m].expires \in Nat /\ t[m].starts \in Nat
  BY DEF LeaseRow, Time
<1>3. u[f] = [state |-> "APPROVED", starts |-> t[l].expires, expires |-> t[l].expires + d,
              prev |-> l, recycled |-> FALSE]
  BY <1>1 DEF NewLease, WithSuccessor
<1>4. u[l] = [t[l] EXCEPT !.state = "RENEWAL_WINDOW"]
  BY <1>1 DEF WithSuccessor
<1>5. \A m \in Lease \ {l, f} : u[m] = t[m]
  BY <1>1 DEF WithSuccessor
<1>6. /\ u[l].state = "RENEWAL_WINDOW" /\ u[l].starts = t[l].starts
      /\ u[l].expires = t[l].expires /\ u[l].prev = t[l].prev
      /\ u[l].recycled = t[l].recycled
  BY <1>1, <1>4 DEF LeaseRow
<1>7. SavedIn(u) = SavedIn(t) \cup {f}
  <2>1. f \in SavedIn(u) /\ l \in SavedIn(u)
    BY <1>1, <1>3, <1>6 DEF SavedIn
  <2>2. \A m \in Lease \ {l, f} : m \in SavedIn(u) <=> m \in SavedIn(t)
    BY <1>5 DEF SavedIn
  <2>3. QED
    BY <1>1, <2>1, <2>2 DEF SavedIn
<1>8. f \notin SavedIn(t) /\ t[f].prev = None /\ \A s \in Lease : t[s].prev # f
  <2>1. f \notin SavedIn(t)
    BY DEF SavedIn
  <2>2. \A s \in Lease : LeaseFits(t, s, c)
    BY DEF ChainFits
  <2>3. QED
    BY <2>1, <2>2, LeaseAssumption DEF LeaseFits
<1>9. \A s \in Lease : t[s].prev # l
  BY DEF TipsIn
<1>10. \A s \in Lease : u[s].prev # f
  BY <1>1, <1>3, <1>5, <1>6, <1>8
<1>11. TipsIn(u, c) = {f}
  <2>1. f \in TipsIn(u, c)
    <3>1. u[f].recycled = FALSE
      BY <1>3
    <3>2. f \in SavedIn(u)
      BY <1>7
    <3>3. c < u[f].expires
      BY <1>1, <1>2, <1>3 DEF Time
    <3>4. QED
      BY <1>10, <3>1, <3>2, <3>3 DEF TipsIn
  <2>2. ASSUME NEW m \in TipsIn(u, c), m # f PROVE FALSE
    <3>1. m # l
      BY <1>3, <2>2 DEF TipsIn
    <3>2. m \in SavedIn(t) /\ m \in Lease \ {l, f}
      BY <1>7, <2>2, <3>1 DEF TipsIn, SavedIn
    <3>3. \A s \in Lease : t[s].prev # m
      <4>1. \A s \in Lease \ {f} : u[s].prev = t[s].prev
        BY <1>5, <1>6
      <4>2. \A s \in Lease : u[s].prev # m
        BY DEF TipsIn
      <4>3. m # None
        BY <3>2, LeaseAssumption
      <4>4. QED
        BY <1>8, <4>1, <4>2, <4>3
    <3>4. ~t[m].recycled /\ (t[m].state = "APPROVED" => c < t[m].expires)
      BY <1>5, <3>2 DEF TipsIn
    <3>5. m \in TipsIn(t, c)
      BY <3>2, <3>3, <3>4 DEF TipsIn
    <3>6. QED
      BY <3>1, <3>5
  <2>3. QED
    BY <2>1, <2>2
<1>12. ASSUME NEW m \in Lease PROVE LeaseFits(u, m, c)
  <2>1. LeaseFits(t, m, c) /\ LeaseFits(t, l, c)
    BY <1>1 DEF ChainFits
  <2>2. CASE m = f
    <3>1. /\ u[f].starts = t[l].expires /\ u[f].expires = t[l].expires + d
          /\ u[f].prev = l /\ ~u[f].recycled /\ u[f].state = "APPROVED"
      BY <1>3
    <3>2. u[f].starts < u[f].expires
      BY <1>1, <1>2, <3>1
    <3>3. u[l].expires = u[f].starts /\ u[l].state \in ActiveStates /\ u[l].state # "APPROVED"
      BY <1>6, <3>1 DEF ActiveStates
    <3>4. f \in SavedIn(u) /\ l \in SavedIn(u)
      BY <1>1, <1>7
    <3>5. LeaseFits(u, f, c)
      BY <1>1, <3>1, <3>2, <3>3, <3>4 DEF LeaseFits
    <3>6. QED
      BY <2>2, <3>5
  <2>3. CASE m = l
    <3>1. t[l].state # "RECYCLE_BIN" /\ ~t[l].recycled
      BY <2>1 DEF TipsIn, LeaseFits
    <3>2. t[l].prev # None => t[l].prev # f /\ t[l].prev # l
      BY <1>1, <1>8, <1>9
    <3>3. t[l].prev # None => u[t[l].prev] = t[t[l].prev]
      BY <1>5, <2>1, <3>2 DEF LeaseFits, SavedIn
    <3>4. QED
      <4>1. u[l].starts < u[l].expires /\ l \in SavedIn(u)
        BY <1>1, <1>6, <1>7, <2>1 DEF LeaseFits
      <4>2. u[l].prev # None => /\ u[l].prev \in SavedIn(u)
                                /\ u[u[l].prev].expires = u[l].starts
                                /\ u[u[l].prev].state # "APPROVED"
        BY <1>6, <1>7, <2>1, <3>3 DEF LeaseFits
      <4>3. ~u[l].recycled /\ u[l].state = "RENEWAL_WINDOW"
        BY <1>6, <3>1
      <4>4. LeaseFits(u, l, c)
        BY <4>1, <4>2, <4>3 DEF LeaseFits
      <4>5. QED
        BY <2>3, <4>4
  <2>4. CASE m \in Lease \ {l, f}
    <3>1. u[m] = t[m] /\ (m \in SavedIn(u) <=> m \in SavedIn(t))
      BY <1>5, <1>7, <2>4
    <3>2. t[m].prev # f /\ t[m].prev # l
      BY <1>8, <1>9
    <3>3. t[m].prev # None => u[t[m].prev] = t[t[m].prev]
      BY <1>5, <2>1, <3>2 DEF LeaseFits, SavedIn
    <3>4. QED
      BY <1>7, <2>1, <3>1, <3>3 DEF LeaseFits
  <2>5. QED
    BY <2>2, <2>3, <2>4
<1>13. \A m \in SavedIn(t) : /\ m \in Lease /\ m # f /\ t[m].expires <= t[l].expires
                             /\ t[m].starts < t[m].expires
                             /\ u[m].starts = t[m].starts /\ u[m].expires = t[m].expires
                             /\ u[m].prev = t[m].prev
  <2>1. \A m \in SavedIn(t) : m \in Lease /\ m # f
    BY <1>8 DEF SavedIn
  <2>2. \A m \in SavedIn(t) : t[m].expires <= t[l].expires
    BY DEF ChainFits, TipIsLast
  <2>3. \A m \in SavedIn(t) : t[m].starts < t[m].expires
    BY <2>1 DEF ChainFits, LeaseFits
  <2>4. QED
    BY <1>5, <1>6, <2>1, <2>2, <2>3
<1>14. ASSUME NEW x \in Lease, NEW y \in Lease, x # y PROVE Apart(u, x, y)
  <2>1. Apart(t, x, y)
    BY <1>14 DEF ChainFits
  <2>2. u[x].prev = u[y].prev => u[x].prev = None
    BY <1>3, <1>5, <1>6, <1>9, <1>14, <2>1 DEF Apart
  <2>3. ASSUME x \in SavedIn(u), y \in SavedIn(u)
        PROVE  u[x].expires <= u[y].starts \/ u[y].expires <= u[x].starts
    <3>1. CASE x = f
      <4>1. y \in SavedIn(t)
        BY <1>7, <1>14, <2>3, <3>1
      <4>2. QED
        BY <1>3, <1>13, <3>1, <4>1
    <3>2. CASE y = f
      <4>1. x \in SavedIn(t)
        BY <1>7, <1>14, <2>3, <3>2
      <4>2. QED
        BY <1>3, <1>13, <3>2, <4>1
    <3>3. CASE x # f /\ y # f
      BY <1>7, <1>13, <2>1, <2>3, <3>3 DEF Apart
    <3>4. QED
      BY <3>1, <3>2, <3>3
  <2>4. QED
    BY <2>2, <2>3 DEF Apart
<1>15. TipIsLast(u, c)
  <2>1. u[f].expires = t[l].expires + d /\ u[f].expires \in Nat
    BY <1>1, <1>2, <1>3
  <2>2. ASSUME NEW m \in SavedIn(u) PROVE u[m].expires <= u[f].expires
    <3>1. CASE m = f
      BY <2>1, <3>1
    <3>2. CASE m \in SavedIn(t)
      BY <1>1, <1>2, <1>13, <2>1, <3>2
    <3>3. QED
      BY <1>7, <3>1, <3>2
  <2>3. QED
    BY <1>11, <2>2 DEF TipIsLast
<1>16. QED
  BY <1>7, <1>11, <1>12, <1>14, <1>15 DEF ChainFits

(* The rows after RecordRecycled, RestoreSaved and BeginRestore.           *)
WithRecycled(t, l) ==
    [t EXCEPT ![l] = [@ EXCEPT !.state = "RECYCLE_BIN", !.recycled = TRUE]]
WithRestored(t, a) == [t EXCEPT ![a].state = "ACTIVE"]
WithDrawn(t, f, b, d) == [t EXCEPT ![f] = NewLease("UNSAVED", b, d, None)]

(* A lease is recycled that is over, and at most a renewal of it that is   *)
(* over too follows: no lease can go on.                                   *)
LEMMA Recycled ==
    ASSUME NEW t \in [Lease -> LeaseRow], NEW u \in [Lease -> LeaseRow],
           NEW c \in Time, ChainFits(t, c),
           NEW l \in SavedIn(t), \A m \in TipsIn(t, c) : m = l, t[l].expires <= c,
           u = WithRecycled(t, l)
    PROVE  /\ ChainFits(u, c)
           /\ SavedIn(u) = SavedIn(t) /\ TipsIn(u, c) = {}
<1>1. l \in Lease /\ l \in SavedIn(t)
  BY DEF SavedIn
<1>2. /\ u[l].state = "RECYCLE_BIN" /\ u[l].recycled
      /\ u[l].starts = t[l].starts /\ u[l].expires = t[l].expires /\ u[l].prev = t[l].prev
  BY <1>1 DEF LeaseRow, WithRecycled
<1>3. \A m \in Lease \ {l} : u[m] = t[m]
  BY <1>1 DEF WithRecycled
<1>4. \A m \in Lease : /\ u[m].starts = t[m].starts /\ u[m].expires = t[m].expires
                       /\ u[m].prev = t[m].prev
  BY <1>2, <1>3
<1>5. \A m \in SavedIn(t) : m \in Lease /\ t[m].expires <= c
  <2>1. \A m \in SavedIn(t) : m \in Lease
    BY DEF SavedIn
  <2>2. c \in Nat /\ \A m \in Lease : t[m].expires \in Nat
    BY DEF LeaseRow, Time
  <2>3. CASE TipsIn(t, c) = {}
    BY <2>1, <2>3 DEF ChainFits, TipIsLast
  <2>4. CASE l \in TipsIn(t, c)
    <3>1. \A m \in SavedIn(t) : t[m].expires <= t[l].expires
      BY <2>4 DEF ChainFits, TipIsLast
    <3>2. QED
      BY <1>1, <2>1, <2>2, <3>1
  <2>5. QED
    BY <2>3, <2>4
<1>6. SavedIn(u) = SavedIn(t)
  <2>1. l \in SavedIn(u)
    BY <1>1, <1>2 DEF SavedIn
  <2>2. \A m \in Lease \ {l} : m \in SavedIn(u) <=> m \in SavedIn(t)
    BY <1>3 DEF SavedIn
  <2>3. QED
    BY <1>1, <2>1, <2>2 DEF SavedIn
<1>7. TipsIn(u, c) = {}
  <2>1. \A m \in TipsIn(u, c) : m \in Lease /\ m # l
    BY <1>2 DEF TipsIn, SavedIn
  <2>2. ASSUME NEW m \in TipsIn(u, c) PROVE m \in TipsIn(t, c)
    <3>1. u[m] = t[m] /\ m \in SavedIn(t) /\ \A s \in Lease : t[s].prev # m
      BY <1>3, <1>4, <1>6, <2>1 DEF TipsIn
    <3>2. QED
      BY <3>1 DEF TipsIn
  <2>3. QED
    BY <2>1, <2>2
<1>8. ASSUME NEW m \in Lease PROVE LeaseFits(u, m, c)
  <2>1. LeaseFits(t, m, c)
    BY DEF ChainFits
  <2>2. \A x \in Lease : u[x].state = "APPROVED" => t[x].state = "APPROVED"
    BY <1>2, <1>3
  <2>3. u[m].prev # None => /\ m \in SavedIn(u) /\ u[m].prev \in SavedIn(u)
                            /\ u[u[m].prev].expires = u[m].starts
                            /\ u[u[m].prev].state # "APPROVED"
    BY <1>4, <1>5, <1>6, <2>1, <2>2 DEF LeaseFits
  <2>4. u[m].state = "APPROVED" =>
           /\ u[m].prev # None
           /\ u[u[m].prev].state \in ActiveStates \/ u[m].expires <= c
    <3>1. u[m].state = "APPROVED" => t[m].prev # None /\ t[m].expires <= c
      BY <1>5, <2>1, <2>2 DEF LeaseFits
    <3>2. QED
      BY <1>4, <3>1
  <2>5. /\ u[m].state \in {"EXPIRED", "RECYCLE_BIN"} => u[m].expires <= c
        /\ u[m].recycled <=> u[m].state = "RECYCLE_BIN"
    BY <1>2, <1>3, <2>1 DEF LeaseFits
  <2>6. m \in SavedIn(u) => u[m].starts < u[m].expires
    BY <1>4, <1>6, <2>1 DEF LeaseFits
  <2>7. QED
    BY <2>3, <2>4, <2>5, <2>6 DEF LeaseFits
<1>9. ASSUME NEW x \in Lease, NEW y \in Lease, x # y PROVE Apart(u, x, y)
  BY <1>4, <1>6, <1>9 DEF ChainFits, Apart
<1>10. TipIsLast(u, c)
  BY <1>4, <1>5, <1>6, <1>7 DEF TipIsLast
<1>11. QED
  BY <1>6, <1>7, <1>8, <1>9, <1>10 DEF ChainFits

(* A restore is recorded: its lease is the only one that goes on.          *)
LEMMA Restored ==
    ASSUME NEW t \in [Lease -> LeaseRow], NEW u \in [Lease -> LeaseRow],
           NEW c \in Time, ChainFits(t, c), TipsIn(t, c) = {},
           NEW a \in Lease, t[a].state = "UNSAVED", t[a].starts < t[a].expires,
           \A m \in SavedIn(t) : t[m].expires <= t[a].starts,
           u = WithRestored(t, a)
    PROVE  /\ ChainFits(u, c)
           /\ SavedIn(u) = SavedIn(t) \cup {a} /\ TipsIn(u, c) = {a}
<1>1. /\ u[a].state = "ACTIVE" /\ u[a].starts = t[a].starts
      /\ u[a].expires = t[a].expires /\ u[a].prev = t[a].prev
      /\ u[a].recycled = t[a].recycled
  BY DEF LeaseRow, WithRestored
<1>2. \A m \in Lease \ {a} : u[m] = t[m]
  BY DEF WithRestored
<1>3. \A m \in Lease : /\ u[m].starts = t[m].starts /\ u[m].expires = t[m].expires
                       /\ u[m].prev = t[m].prev /\ u[m].recycled = t[m].recycled
  BY <1>1, <1>2
<1>4. /\ a \notin SavedIn(t) /\ t[a].prev = None /\ ~t[a].recycled
      /\ \A s \in Lease : t[s].prev # a
  <2>1. a \notin SavedIn(t)
    BY DEF SavedIn
  <2>2. \A s \in Lease : LeaseFits(t, s, c)
    BY DEF ChainFits
  <2>3. ~t[a].recycled /\ t[a].prev = None
    BY <2>1, <2>2 DEF LeaseFits
  <2>4. \A s \in Lease : t[s].prev # a
    BY <2>1, <2>2, LeaseAssumption DEF LeaseFits
  <2>5. QED
    BY <2>1, <2>3, <2>4
<1>5. SavedIn(u) = SavedIn(t) \cup {a}
  <2>1. a \in SavedIn(u)
    BY <1>1 DEF SavedIn
  <2>2. \A m \in Lease \ {a} : m \in SavedIn(u) <=> m \in SavedIn(t)
    BY <1>2 DEF SavedIn
  <2>3. QED
    BY <2>1, <2>2 DEF SavedIn
<1>6. TipsIn(u, c) = {a}
  <2>1. a \in TipsIn(u, c)
    <3>1. ~u[a].recycled
      BY <1>3, <1>4
    <3>2. \A s \in Lease : u[s].prev # a
      BY <1>3, <1>4
    <3>3. QED
      BY <1>1, <1>5, <3>1, <3>2 DEF TipsIn
  <2>2. ASSUME NEW m \in TipsIn(u, c), m # a PROVE FALSE
    <3>1. m \in SavedIn(t) /\ m \in Lease
      BY <1>5, <2>2 DEF TipsIn, SavedIn
    <3>2. ~t[m].recycled /\ u[m] = t[m]
      BY <1>2, <1>3, <2>2, <3>1 DEF TipsIn
    <3>3. \A s \in Lease : t[s].prev # m
      BY <1>3 DEF TipsIn
    <3>4. m \in TipsIn(t, c)
      BY <3>1, <3>2, <3>3 DEF TipsIn
    <3>5. QED
      BY <3>4
  <2>3. QED
    BY <2>1, <2>2
<1>7. ASSUME NEW m \in Lease PROVE LeaseFits(u, m, c)
  <2>1. LeaseFits(t, m, c)
    BY DEF ChainFits
  <2>2. CASE m = a
    <3>1. u[a].prev = None /\ u[a].recycled = t[a].recycled /\ u[a].starts < u[a].expires
      BY <1>1, <1>4
    <3>2. LeaseFits(u, a, c)
      BY <1>1, <1>4, <3>1 DEF LeaseFits
    <3>3. QED
      BY <2>2, <3>2
  <2>3. CASE m # a
    <3>1. u[m] = t[m] /\ t[m].prev # a
      BY <1>2, <1>4, <2>3
    <3>2. m \in SavedIn(u) <=> m \in SavedIn(t)
      BY <1>5, <2>3
    <3>3. t[m].prev # None => u[t[m].prev] = t[t[m].prev]
      BY <1>2, <2>1, <3>1 DEF LeaseFits, SavedIn
    <3>4. QED
      BY <1>5, <2>1, <3>1, <3>2, <3>3 DEF LeaseFits
  <2>4. QED
    BY <2>2, <2>3
<1>8. ASSUME NEW x \in Lease, NEW y \in Lease, x # y PROVE Apart(u, x, y)
  <2>1. Apart(t, x, y)
    BY <1>8 DEF ChainFits
  <2>2. u[x].prev = u[y].prev => u[x].prev = None
    BY <1>3, <2>1 DEF Apart
  <2>3. x \in SavedIn(u) /\ y \in SavedIn(u) =>
           u[x].expires <= u[y].starts \/ u[y].expires <= u[x].starts
    BY <1>3, <1>5, <1>8, <2>1 DEF Apart
  <2>4. QED
    BY <2>2, <2>3 DEF Apart
<1>9. TipIsLast(u, c)
  <2>1. \A m \in Lease : t[m].expires \in Nat /\ t[m].starts \in Nat
    BY DEF LeaseRow, Time
  <2>2. \A m \in SavedIn(t) : m \in Lease
    BY DEF SavedIn
  <2>3. \A m \in SavedIn(u) : u[m].expires <= u[a].expires
    BY <1>3, <1>5, <2>1, <2>2
  <2>4. QED
    BY <1>6, <2>3 DEF TipIsLast
<1>10. QED
  BY <1>5, <1>6, <1>7, <1>8, <1>9 DEF ChainFits

(* An id and a window are made for a restore: no query sees them.          *)
LEMMA Drawn ==
    ASSUME NEW t \in [Lease -> LeaseRow], NEW u \in [Lease -> LeaseRow],
           NEW c \in Time, ChainFits(t, c), NEW f \in Lease, t[f].state = "NONE",
           NEW b \in Time, NEW d \in Nat,
           u = WithDrawn(t, f, b, d)
    PROVE  /\ ChainFits(u, c)
           /\ SavedIn(u) = SavedIn(t) /\ TipsIn(u, c) = TipsIn(t, c)
<1>1. u[f] = [state |-> "UNSAVED", starts |-> b, expires |-> b + d, prev |-> None,
              recycled |-> FALSE]
  BY DEF NewLease, WithDrawn
<1>2. \A m \in Lease \ {f} : u[m] = t[m]
  BY DEF WithDrawn
<1>3. SavedIn(u) = SavedIn(t) /\ f \notin SavedIn(t)
  BY <1>1, <1>2 DEF SavedIn
<1>4. \A s \in Lease : LeaseFits(t, s, c)
  BY DEF ChainFits
<1>5. t[f].prev = None /\ \A s \in Lease : t[s].prev # f
  BY <1>3, <1>4, LeaseAssumption DEF LeaseFits
<1>6. \A m \in Lease : u[m].prev = t[m].prev
  BY <1>1, <1>2, <1>5
<1>7. TipsIn(u, c) = TipsIn(t, c)
  <2>1. \A m \in SavedIn(t) : m \in Lease \ {f}
    BY <1>3 DEF SavedIn
  <2>2. ASSUME NEW m \in SavedIn(t)
        PROVE  /\ u[m] = t[m]
               /\ (\A s \in Lease : u[s].prev # m) <=> (\A s \in Lease : t[s].prev # m)
    BY <1>2, <1>6, <2>1
  <2>3. QED
    BY <1>3, <2>2 DEF TipsIn
<1>8. ASSUME NEW m \in Lease PROVE LeaseFits(u, m, c)
  <2>1. LeaseFits(t, m, c)
    BY <1>4
  <2>2. CASE m = f
    <3>1. u[f].prev = None /\ u[f].recycled = FALSE /\ u[f].state = "UNSAVED"
      BY <1>1
    <3>2. f \notin SavedIn(u)
      BY <1>3
    <3>3. LeaseFits(u, f, c)
      BY <3>1, <3>2 DEF LeaseFits
    <3>4. QED
      BY <2>2, <3>3
  <2>3. CASE m # f
    <3>1. u[m] = t[m] /\ t[m].prev # f
      BY <1>2, <1>5, <2>3
    <3>2. t[m].prev # None => u[t[m].prev] = t[t[m].prev]
      BY <1>2, <2>1, <3>1 DEF LeaseFits, SavedIn
    <3>3. QED
      BY <1>3, <2>1, <3>1, <3>2 DEF LeaseFits
  <2>4. QED
    BY <2>2, <2>3
<1>9. ASSUME NEW x \in Lease, NEW y \in Lease, x # y PROVE Apart(u, x, y)
  <2>1. Apart(t, x, y)
    BY <1>9 DEF ChainFits
  <2>2. \A m \in SavedIn(t) : u[m] = t[m]
    BY <1>2, <1>3 DEF SavedIn
  <2>3. QED
    BY <1>3, <1>6, <2>1, <2>2 DEF Apart
<1>10. TipIsLast(u, c)
  <2>1. \A m \in SavedIn(t) : u[m] = t[m]
    BY <1>2, <1>3 DEF SavedIn
  <2>2. \A m \in TipsIn(t, c) : u[m] = t[m]
    BY <2>1 DEF TipsIn
  <2>3. QED
    BY <1>3, <1>7, <2>1, <2>2 DEF ChainFits, TipIsLast
<1>11. QED
  BY <1>3, <1>7, <1>8, <1>9, <1>10 DEF ChainFits

-----------------------------------------------------------------------------
(* What the invariant says of the moment.                                  *)

(* While an item waits or is restored, no lease goes on: all are over.     *)
LEMMA OpenItemMeansOver ==
    ASSUME IInv, BinInv, EInv, NEW i \in OpenIn(item)
    PROVE  /\ TipsIn(lease, now) = {} /\ OpenIn(item) = {i}
           /\ \A m \in SavedIn(lease) : lease[m].expires <= now
<1>1. i \in Lease /\ item[i] # "NONE"
  BY DEF OpenIn
<1>2. ASSUME NEW l \in TipsIn(lease, now) PROVE FALSE
  <2>1. l = i
    BY DEF EInv, OneEnd
  <2>2. lease[i].recycled
    BY <1>1 DEF IInv, ItemsMatchRecycledLeases
  <2>3. QED
    BY <2>1, <2>2 DEF TipsIn
<1>3. OpenIn(item) = {i}
  BY DEF EInv, OneEnd
<1>4. \A m \in SavedIn(lease) : lease[m].expires <= now
  BY <1>2 DEF EInv, ChainFits, TipIsLast
<1>5. QED
  BY <1>2, <1>3, <1>4

(* While a lease runs, no item waits and no restore is in hand.            *)
LEMMA RunningMeansClosed ==
    ASSUME IInv, BinInv, EInv, NEW l \in SavedIn(lease), now < lease[l].expires
    PROVE  OpenIn(item) = {} /\ restoring.req = None
<1>1. lease[l].expires \in Nat /\ now \in Nat
  BY DEF IInv, TypeOK, LeaseRow, Time, SavedIn
<1>2. OpenIn(item) = {}
  BY <1>1, OpenItemMeansOver
<1>3. restoring.req # None => RestoringItem \in OpenIn(item)
  <2>1. ASSUME restoring.req # None PROVE RestoringItem \in OpenIn(item)
    <3>1. restore[restoring.req].state = "RESTORING" /\ item[RestoringItem] = "RESTORING"
      BY <2>1 DEF IInv, RestoreHoldsItsItem
    <3>2. restoring.req \in Restore
      BY <2>1 DEF IInv, TypeOK
    <3>3. RestoringItem \in Lease
      BY <3>1, <3>2 DEF IInv, RequestsRefer, RestoringItem
    <3>4. QED
      BY <3>1, <3>3 DEF OpenIn
  <2>2. QED
    BY <2>1
<1>4. QED
  BY <1>2, <1>3

(* The lease that entitles the owner runs; if it is a successor that has   *)
(* not been activated, the lease before it is over.                        *)
LEMMA EntitledRuns ==
    ASSUME IInv, BinInv, EInv, Entitled
    PROVE  /\ EntitledLease \in Lease /\ EntitledLease \in SavedIn(lease)
           /\ now < lease[EntitledLease].expires
           /\ OpenIn(item) = {} /\ restoring.req = None
           /\ EntitledLease \in StartedLeases =>
                 lease[EntitledLease].state \in ActiveStates
           /\ EntitledLease \notin StartedLeases =>
                 /\ lease[EntitledLease].state = "APPROVED"
                 /\ LatestStarted \in Lease /\ lease[LatestStarted].state \in ActiveStates
                 /\ lease[EntitledLease].prev = LatestStarted
                 /\ lease[LatestStarted].expires <= now
<1>1. /\ LatestStarted \in StartedLeases /\ EntitledLease \in Lease
      /\ EntitledLease \in StartedLeases \cup ApprovedSuccessors(LatestStarted)
  BY EntitledLeaseType DEF IInv
<1>2. now \in Nat /\ lease[LatestStarted].expires \in Nat
  BY <1>1 DEF IInv, TypeOK, LeaseRow, Time, StartedLeases
<1>3. \/ /\ EntitledLease = LatestStarted /\ now < lease[LatestStarted].expires
      \/ /\ EntitledLease \in ActivatableSuccessors(LatestStarted)
         /\ lease[LatestStarted].expires <= now
  BY <1>1, <1>2 DEF Entitled, EntitledLease
<1>4. now < lease[EntitledLease].expires
  BY <1>3 DEF ActivatableSuccessors
<1>5. EntitledLease \in SavedIn(lease)
  BY <1>1 DEF SavedIn, StartedLeases, ApprovedSuccessors, Successors, ActiveStates
<1>6. EntitledLease \notin StartedLeases =>
         /\ lease[EntitledLease].state = "APPROVED"
         /\ lease[EntitledLease].prev = LatestStarted
         /\ lease[LatestStarted].expires <= now
  BY <1>1, <1>3 DEF ActivatableSuccessors, ApprovedSuccessors, Successors
<1>7. QED
  BY <1>1, <1>4, <1>5, <1>6, RunningMeansClosed DEF StartedLeases

(* The row after a call of ensure_active_lease.                            *)
LEMMA EnsureMoves ==
    ASSUME IInv, BinInv, EInv, Entitled
    PROVE  Moves(lease, AfterEnsure, now, now) /\ AfterEnsure[EntitledLease].state \in ActiveStates
<1>1. lease \in [Lease -> LeaseRow]
  BY DEF IInv, TypeOK
<1>2. \A l \in Lease : LeaseFits(lease, l, now)
  BY DEF EInv, ChainFits
<1>3. CASE EntitledLease \in StartedLeases
  <2>1. AfterEnsure = lease
    BY <1>3 DEF AfterEnsure
  <2>2. AfterEnsure[EntitledLease].state \in ActiveStates
    BY <1>3, <2>1, EntitledRuns
  <2>3. QED
    BY <1>2, <2>1, <2>2 DEF Moves, LeaseFits
<1>4. CASE EntitledLease \notin StartedLeases
  <2> DEFINE e == EntitledLease
             p == LatestStarted
  <2>1. /\ e \in Lease /\ p \in Lease /\ lease[e].state = "APPROVED"
        /\ lease[p].state \in ActiveStates /\ lease[e].prev = p /\ lease[p].expires <= now
        /\ now < lease[e].expires
    BY <1>4, EntitledRuns
  <2>2. e # p
    BY <2>1 DEF ActiveStates
  <2>3. AfterEnsure = [lease EXCEPT ![p].state = "EXPIRED", ![e].state = "ACTIVE"]
    BY <1>4 DEF AfterEnsure
  <2> HIDE DEF e, p
  <2>4. /\ AfterEnsure[p] = [lease[p] EXCEPT !.state = "EXPIRED"]
        /\ AfterEnsure[e] = [lease[e] EXCEPT !.state = "ACTIVE"]
        /\ \A l \in Lease \ {e, p} : AfterEnsure[l] = lease[l]
    BY <1>1, <2>1, <2>2, <2>3
  <2>5. \A l \in Lease : /\ AfterEnsure[l].starts = lease[l].starts
                         /\ AfterEnsure[l].expires = lease[l].expires
                         /\ AfterEnsure[l].prev = lease[l].prev
                         /\ AfterEnsure[l].recycled = lease[l].recycled
    BY <1>1, <2>1, <2>4 DEF LeaseRow
  <2>6. AfterEnsure[p].state = "EXPIRED" /\ AfterEnsure[e].state = "ACTIVE"
    BY <1>1, <2>1, <2>4 DEF LeaseRow
  <2>7. \A l \in Lease : \A s \in {"NONE", "UNSAVED", "RECYCLE_BIN"} :
           AfterEnsure[l].state = s <=> lease[l].state = s
    BY <2>1, <2>4, <2>6 DEF ActiveStates
  <2>8. ASSUME NEW l \in Lease, AfterEnsure[l].state = "APPROVED"
        PROVE  /\ lease[l].state = "APPROVED"
               /\ AfterEnsure[lease[l].prev].state \in ActiveStates \/ lease[l].expires <= now
    <3>1. l \in Lease \ {e, p} /\ lease[l].state = "APPROVED"
      BY <2>4, <2>6, <2>8
    <3>2. /\ lease[l].prev \in Lease /\ lease[l].prev # None
          /\ lease[lease[l].prev].state \in ActiveStates \/ lease[l].expires <= now
      BY <1>2, <3>1 DEF LeaseFits, SavedIn
    <3>3. lease[l].prev # p
      BY <2>1, <3>1, <3>2 DEF EInv, ChainFits, Apart
    <3>4. QED
      BY <2>4, <2>6, <3>1, <3>2, <3>3 DEF ActiveStates
  <2>9. \A l \in Lease : AfterEnsure[l].state = "EXPIRED" => AfterEnsure[l].expires <= now
    <3>1. AfterEnsure[p].expires <= now
      BY <2>1, <2>5
    <3>2. \A l \in Lease \ {e, p} :
             AfterEnsure[l].state = "EXPIRED" => AfterEnsure[l].expires <= now
      BY <1>2, <2>4 DEF LeaseFits
    <3>3. QED
      BY <2>6, <3>1, <3>2
  <2>10. \A l \in Lease : lease[l].state = "APPROVED" /\ AfterEnsure[l].state # "APPROVED" =>
                             now < lease[l].expires
    BY <2>1, <2>4 DEF ActiveStates
  <2>11. QED
    BY <2>5, <2>6, <2>7, <2>8, <2>9, <2>10 DEF Moves, ActiveStates, e
<1>5. QED
  BY <1>3, <1>4

(* The rows when a renewal is requested.                                   *)
LEMMA PendingMoves ==
    ASSUME IInv, BinInv, EInv, Entitled
    PROVE  PendingRows \in [Lease -> LeaseRow] /\ Moves(lease, PendingRows, now, now)
<1> DEFINE e == EntitledLease
<1>1. AfterEnsure \in [Lease -> LeaseRow]
  BY AfterEnsureType DEF IInv
<1>2. /\ e \in Lease /\ Moves(lease, AfterEnsure, now, now)
      /\ AfterEnsure[e].state \in ActiveStates /\ now < lease[e].expires
  BY EnsureMoves, EntitledRuns
<1>3. PendingRows = [AfterEnsure EXCEPT ![e].state = "RENEWAL_PENDING"]
  BY DEF PendingRows
<1> HIDE DEF e
<1>4. "RENEWAL_PENDING" \in LeaseStates /\ "RENEWAL_PENDING" \in ActiveStates
  BY DEF LeaseStates, DueStates, ActiveStates
<1>5. PendingRows \in [Lease -> LeaseRow]
  BY <1>1, <1>2, <1>3, <1>4, SetStateType
<1>6. \A l \in Lease \ {e} : PendingRows[l] = AfterEnsure[l]
  BY <1>1, <1>2, <1>3
<1>7. /\ PendingRows[e].state = "RENEWAL_PENDING"
      /\ PendingRows[e].starts = AfterEnsure[e].starts
      /\ PendingRows[e].expires = AfterEnsure[e].expires
      /\ PendingRows[e].prev = AfterEnsure[e].prev
      /\ PendingRows[e].recycled = AfterEnsure[e].recycled
  BY <1>1, <1>2, <1>3 DEF LeaseRow
<1>8. \A l \in Lease : AfterEnsure[l].state \in ActiveStates =>
                          PendingRows[l].state \in ActiveStates
  BY <1>4, <1>6, <1>7
<1>9. ASSUME NEW l \in Lease, PendingRows[l].state = "APPROVED"
      PROVE  /\ lease[l].state = "APPROVED"
             /\ PendingRows[lease[l].prev].state \in ActiveStates \/ lease[l].expires <= now
  <2>1. l # e /\ AfterEnsure[l].state = "APPROVED"
    BY <1>6, <1>7, <1>9
  <2>2. /\ lease[l].state = "APPROVED"
        /\ AfterEnsure[lease[l].prev].state \in ActiveStates \/ lease[l].expires <= now
    BY <1>2, <2>1 DEF Moves
  <2>3. lease[l].prev \in Lease
    BY <2>2 DEF EInv, ChainFits, LeaseFits, SavedIn
  <2>4. QED
    BY <1>8, <2>2, <2>3
<1>10. \A l \in Lease : \A s \in {"NONE", "UNSAVED", "RECYCLE_BIN"} :
          PendingRows[l].state = s <=> lease[l].state = s
  <2>1. \A l \in Lease \ {e} : \A s \in {"NONE", "UNSAVED", "RECYCLE_BIN"} :
           PendingRows[l].state = s <=> lease[l].state = s
    BY <1>2, <1>6 DEF Moves
  <2>2. \A s \in {"NONE", "UNSAVED", "RECYCLE_BIN"} : lease[e].state # s
    BY <1>2 DEF Moves, ActiveStates
  <2>3. QED
    BY <1>7, <2>1, <2>2
<1>11. \A l \in Lease : PendingRows[l].state = "EXPIRED" => PendingRows[l].expires <= now
  BY <1>2, <1>6, <1>7 DEF Moves
<1>12. \A l \in Lease : /\ PendingRows[l].starts = lease[l].starts
                        /\ PendingRows[l].expires = lease[l].expires
                        /\ PendingRows[l].prev = lease[l].prev
                        /\ PendingRows[l].recycled = lease[l].recycled
  BY <1>2, <1>6, <1>7 DEF Moves
<1>13. \A l \in Lease : lease[l].state = "APPROVED" /\ PendingRows[l].state # "APPROVED" =>
                           now < lease[l].expires
  BY <1>2, <1>6 DEF Moves
<1>14. QED
  BY <1>5, <1>9, <1>10, <1>11, <1>12, <1>13 DEF Moves
(* What the owner's request takes up for the expiry worker's lease.        *)
LEMMA TakenUp ==
    ASSUME IInv, BinInv, EInv, Entitled, HandsOverLease,
           NEW m \in Lease, lease[m].state = "APPROVED", lease[m].prev = scan.lease,
           scan.lease # None, m = EntitledLease
    PROVE  scan.lease \in overtaken'
<1>1. /\ EntitledLease \in Lease
      /\ EntitledLease \in StartedLeases => lease[EntitledLease].state \in ActiveStates
      /\ EntitledLease \notin StartedLeases =>
            /\ LatestStarted \in Lease /\ lease[LatestStarted].state \in ActiveStates
            /\ lease[EntitledLease].prev = LatestStarted
  BY EntitledRuns
<1>2. EntitledLease \notin StartedLeases
  BY <1>1 DEF ActiveStates
<1>3. /\ scan.lease \in Lease /\ lease[scan.lease].state \in ActiveStates
      /\ scan.lease = LatestStarted /\ scan.lease # m
  BY <1>1, <1>2 DEF ActiveStates
<1>4. AfterEnsure = [lease EXCEPT ![scan.lease].state = "EXPIRED", ![m].state = "ACTIVE"]
  BY <1>2, <1>3 DEF AfterEnsure
<1>5. AfterEnsure[scan.lease].state = "EXPIRED"
  BY <1>3, <1>4 DEF IInv, TypeOK, LeaseRow
<1>6. AfterEnsure[scan.lease] # lease[scan.lease]
  BY <1>3, <1>5 DEF ActiveStates
<1>7. QED
  BY <1>3, <1>6 DEF HandsOverLease

(* The end of the entitling lease's chain: that lease itself, or one whose *)
(* predecessor still runs.                                                 *)
LEMMA ChainRuns ==
    ASSUME IInv, BinInv, EInv, Entitled, NEW l \in Lease, ChainEnds(EntitledLease, l)
    PROVE  l = EntitledLease \/ (lease[l].prev \in Lease /\ now < lease[lease[l].prev].expires)
<1> DEFINE S == {m \in Lease : \/ m = EntitledLease
                               \/ lease[m].prev \in Lease /\ now < lease[lease[m].prev].expires}
<1>1. \A m \in Lease : LeaseFits(lease, m, now)
  BY DEF EInv, ChainFits
<1>2. now \in Nat /\ \A m \in Lease : lease[m].expires \in Nat /\ lease[m].starts \in Nat
  BY DEF IInv, TypeOK, LeaseRow, Time
<1>3. None \notin Lease
  BY LeaseAssumption
<1>4. EntitledLease \in Lease /\ now < lease[EntitledLease].expires
  BY EntitledRuns
<1>5. ASSUME NEW m \in S PROVE m \in Lease /\ now < lease[m].expires
  <2>1. CASE m = EntitledLease
    BY <1>4, <2>1
  <2>2. CASE lease[m].prev \in Lease /\ now < lease[lease[m].prev].expires
    <3>1. /\ lease[m].starts < lease[m].expires
          /\ lease[lease[m].prev].expires = lease[m].starts
      BY <1>1, <1>3, <2>2 DEF LeaseFits
    <3>2. QED
      BY <1>2, <2>2, <3>1
  <2>3. QED
    BY <2>1, <2>2
<1>6. ASSUME NEW m \in S PROVE ApprovedSuccessors(m) \subseteq S
  BY <1>5 DEF ApprovedSuccessors, Successors
<1>7. EntitledLease \in S /\ S \in SUBSET Lease
  BY <1>4
<1> HIDE DEF S
<1>8. l \in S
  BY <1>6, <1>7 DEF ChainEnds
<1>9. QED
  BY <1>8 DEF S

-----------------------------------------------------------------------------
(* The invariant after a step, from its parts.                             *)

LEMMA Assembled ==
    ASSUME ChainFits(lease', now'), OneEnd(lease', item', now'),
           \A r \in Renewal : RenewalFits(r)', \A q \in Restore : RestoreFits(q)',
           \A l \in Lease : OpFits(l)', RestoringFits', ScanFits'
    PROVE  EInv'
<1>1. ChainFits(lease, now)'
  BY DEF ChainFits, LeaseFits, Apart, TipIsLast, TipsIn, SavedIn
<1>2. OneEnd(lease, item, now)'
  BY DEF OneEnd, TipsIn, SavedIn, OpenIn
<1>3. QED
  BY <1>1, <1>2 DEF EInv

LEMMA ScanKept ==
    ASSUME EInv, scan' = scan \/ scan'.lease = None, overtaken \subseteq overtaken',
           scan.lease # None /\ lease[scan.lease].recycled => lease'[scan.lease].recycled,
           TipsIn(lease', now') \subseteq TipsIn(lease, now),
           OpenIn(item') \subseteq OpenIn(item),
           \A m \in TipsIn(lease', now') \cup OpenIn(item') :
              scan'.lease # None /\ lease[m].state = "APPROVED" /\ lease[m].prev = scan.lease =>
                 \/ lease'[m].state = "APPROVED" /\ lease'[m].prev = scan.lease
                 \/ scan.lease \in overtaken'
    PROVE  ScanFits'
<1>1. CASE scan'.lease = None
  BY <1>1 DEF ScanFits
<1>2. CASE scan' = scan /\ scan.lease # None
  <2>1. CASE scan.lease \in overtaken \/ lease[scan.lease].recycled
    <3>1. scan'.lease \in overtaken' \/ lease'[scan'.lease].recycled
      BY <1>2, <2>1
    <3>2. QED
      BY <3>1 DEF ScanFits
  <2>2. CASE \A m \in TipsIn(lease, now) \cup OpenIn(item) :
                m = scan.lease \/ (lease[m].prev = scan.lease /\ lease[m].state = "APPROVED")
    <3>1. \A m \in TipsIn(lease', now') \cup OpenIn(item') :
             \/ m = scan.lease
             \/ lease'[m].prev = scan.lease /\ lease'[m].state = "APPROVED"
             \/ scan.lease \in overtaken'
      BY <1>2, <2>2
    <3>2. \/ scan'.lease \in overtaken'
          \/ \A m \in TipsIn(lease', now') \cup OpenIn(item') :
                m = scan'.lease \/ (lease'[m].prev = scan'.lease /\ lease'[m].state = "APPROVED")
      BY <1>2, <3>1
    <3>3. QED
      BY <3>2 DEF ScanFits, TipsIn, SavedIn, OpenIn
  <2>3. QED
    BY <1>2, <2>1, <2>2 DEF EInv, ScanFits
<1>3. QED
  BY <1>1, <1>2

(* Leases move, and items and restores go on.                              *)
LEMMA MovesFit ==
    ASSUME IInv, EInv, IInv', now <= now', Moves(lease, lease', now, now'),
           OpenIn(item') \subseteq OpenIn(item),
           \A r \in Renewal : RenewalFits(r)', \A q \in Restore : RestoreFits(q)',
           RestoringFits',
           \A l \in Lease : op'[l].status # "NONE" =>
                               op[l].status # "NONE" \/ lease'[l].state # "APPROVED",
           scan' = scan \/ scan'.lease = None, overtaken \subseteq overtaken',
           \A m \in Lease :
              scan'.lease # None /\ lease[m].state = "APPROVED" /\ lease[m].prev = scan.lease =>
                 lease'[m].state = "APPROVED" \/ scan.lease \in overtaken'
    PROVE  EInv'
<1>1. /\ lease \in [Lease -> LeaseRow] /\ lease' \in [Lease -> LeaseRow]
      /\ now \in Time /\ now' \in Time /\ scan.lease \in Lease \cup {None}
  BY DEF IInv, TypeOK
<1>2. ChainFits(lease, now)
  BY DEF EInv
<1>3. /\ ChainFits(lease', now') /\ SavedIn(lease') = SavedIn(lease)
      /\ TipsIn(lease', now') \subseteq TipsIn(lease, now)
  BY <1>1, <1>2, Moved
<1>4. OneEnd(lease', item', now')
  BY <1>3 DEF EInv, OneEnd
<1>5. \A l \in Lease : OpFits(l)'
  <2>1. \A l \in Lease : lease'[l].state = "APPROVED" => lease[l].state = "APPROVED"
    BY DEF Moves
  <2>2. \A l \in Lease : op'[l].status # "NONE" => lease'[l].state # "APPROVED"
    BY <2>1 DEF EInv, OpFits
  <2>3. QED
    BY <2>2 DEF OpFits
<1>6. ScanFits'
  <2>1. \A m \in TipsIn(lease', now') \cup OpenIn(item') : m \in Lease
    BY DEF TipsIn, SavedIn, OpenIn
  <2>2. \A m \in Lease : lease'[m].prev = lease[m].prev /\ lease'[m].recycled = lease[m].recycled
    BY DEF Moves
  <2>3. scan.lease # None /\ lease[scan.lease].recycled => lease'[scan.lease].recycled
    BY <1>1, <2>2
  <2>4. \A m \in TipsIn(lease', now') \cup OpenIn(item') :
           scan'.lease # None /\ lease[m].state = "APPROVED" /\ lease[m].prev = scan.lease =>
              \/ lease'[m].state = "APPROVED" /\ lease'[m].prev = scan.lease
              \/ scan.lease \in overtaken'
    BY <2>1, <2>2
  <2>5. QED
    BY <1>3, <2>3, <2>4, ScanKept
<1>7. QED
  BY <1>3, <1>4, <1>5, <1>6, Assembled

LEMMA RestoringKept ==
    ASSUME IInv, EInv, Moves(lease, lease', now, now'), UNCHANGED restoring
    PROVE  RestoringFits'
<1>1. SavedIn(lease') = SavedIn(lease) /\ SavedIn(lease) \subseteq Lease
  BY DEF SavedIn, Moves
<1>2. \A l \in Lease : lease'[l].starts = lease[l].starts /\ lease'[l].expires = lease[l].expires
  BY DEF Moves
<1>3. restoring.req # None =>
         /\ lease'[restoring.lease].starts < lease'[restoring.lease].expires
         /\ \A m \in SavedIn(lease') : lease'[m].expires <= lease'[restoring.lease].starts
  BY <1>1, <1>2 DEF EInv, RestoringFits, IInv, RestoreHoldsItsItem
<1>4. QED
  BY <1>3 DEF RestoringFits, SavedIn

(* The same when items, operations and restores stay as they are.          *)
LEMMA MovesFitQuietly ==
    ASSUME IInv, EInv, IInv', now <= now', Moves(lease, lease', now, now'),
           UNCHANGED <<item, restore, op, restoring>>, \A r \in Renewal : RenewalFits(r)',
           scan' = scan \/ scan'.lease = None, overtaken \subseteq overtaken',
           \A m \in Lease :
              scan'.lease # None /\ lease[m].state = "APPROVED" /\ lease[m].prev = scan.lease =>
                 lease'[m].state = "APPROVED" \/ scan.lease \in overtaken'
    PROVE  EInv'
<1>1. RestoringFits'
  BY RestoringKept
<1>2. \A q \in Restore : RestoreFits(q)'
  BY DEF EInv, RestoreFits
<1>3. OpenIn(item') \subseteq OpenIn(item)
  OBVIOUS
<1>4. \A l \in Lease : op'[l].status # "NONE" =>
                          op[l].status # "NONE" \/ lease'[l].state # "APPROVED"
  OBVIOUS
<1>5. QED
  BY <1>1, <1>2, <1>3, <1>4, MovesFit

LEMMA RenewalKept ==
    ASSUME EInv, Moves(lease, lease', now, now'), NEW r \in Renewal,
           \/ renewal'[r] = renewal[r]
           \/ renewal'[r].state \in {"CANCELLED", "REJECTED"}
    PROVE  RenewalFits(r)'
<1>1. SavedIn(lease') = SavedIn(lease)
  BY DEF SavedIn, Moves
<1>2. CASE renewal'[r] = renewal[r]
  <2>1. RenewalFits(r)
    BY DEF EInv
  <2>2. renewal'[r].state = "REQUESTED" =>
           /\ renewal'[r].duration > 0
           /\ \A s \in Lease : lease'[s].prev = renewal'[r].lease => lease'[s].state # "APPROVED"
    BY <1>2, <2>1 DEF RenewalFits, Moves
  <2>3. renewal'[r].state = "APPROVED" => renewal'[r].result \in SavedIn(lease')
    BY <1>1, <1>2, <2>1 DEF RenewalFits
  <2>4. QED
    BY <2>2, <2>3 DEF RenewalFits, SavedIn
<1>3. CASE renewal'[r].state \in {"CANCELLED", "REJECTED"}
  BY <1>3 DEF RenewalFits
<1>4. QED
  BY <1>2, <1>3

LEMMA SameLeases ==
    ASSUME IInv, EInv, now <= now', now' \in Nat, UNCHANGED lease
    PROVE  Moves(lease, lease', now, now')
<1>1. \A l \in Lease : LeaseFits(lease, l, now) /\ lease[l].expires \in Nat /\ now \in Nat
  BY DEF EInv, ChainFits, IInv, TypeOK, LeaseRow, Time
<1>2. ASSUME NEW l \in Lease
      PROVE  /\ lease[l].state = "APPROVED" =>
                   lease[lease[l].prev].state \in ActiveStates \/ lease[l].expires <= now'
             /\ lease[l].state = "EXPIRED" => lease[l].expires <= now'
  BY <1>1 DEF LeaseFits
<1>3. QED
  BY <1>2 DEF Moves

(* An action that leaves the leases alone, and cancels renewals at most.   *)
LEMMA QuietFits ==
    ASSUME IInv, EInv, IInv', now <= now',
           UNCHANGED <<lease, item, restore, op, restoring, overtaken>>,
           scan' = scan \/ scan'.lease = None,
           \A r \in Renewal : \/ renewal'[r] = renewal[r]
                              \/ renewal'[r].state \in {"CANCELLED", "REJECTED"}
    PROVE  EInv'
<1>1. now' \in Nat
  BY DEF IInv, TypeOK, Time
<1>2. Moves(lease, lease', now, now')
  BY <1>1, SameLeases
<1>3. \A r \in Renewal : RenewalFits(r)'
  BY <1>2, RenewalKept
<1>4. QED
  BY <1>2, <1>3, MovesFitQuietly

-----------------------------------------------------------------------------
(* Each action keeps the order: requests and decisions.                    *)

KeptInBin == \A m \in Lease : lease[m].recycled => lease'[m].recycled

(* What a request leaves to the expiry worker's lease, or takes from it.   *)
LEMMA RequestTakesUp ==
    ASSUME IInv, BinInv, EInv, Entitled, HandsOverLease, scan.lease # None,
           NEW m \in Lease, lease[m].state = "APPROVED", lease[m].prev = scan.lease
    PROVE  \/ AfterEnsure[m].state = "APPROVED" /\ PendingRows[m].state = "APPROVED"
           \/ scan.lease \in overtaken'
<1>1. CASE m = EntitledLease
  BY <1>1, TakenUp
<1>2. CASE m # EntitledLease
  <2>1. /\ EntitledLease \in Lease
        /\ EntitledLease \notin StartedLeases =>
              LatestStarted \in Lease /\ lease[LatestStarted].state \in ActiveStates
    BY EntitledRuns
  <2>2. lease \in [Lease -> LeaseRow] /\ AfterEnsure \in [Lease -> LeaseRow]
    BY AfterEnsureType DEF IInv, TypeOK
  <2>3. AfterEnsure[m] = lease[m]
    BY <1>2, <2>1, <2>2 DEF AfterEnsure, ActiveStates
  <2>4. PendingRows[m] = AfterEnsure[m]
    BY <1>2, <2>1, <2>2 DEF PendingRows
  <2>5. QED
    BY <2>3, <2>4
<1>3. QED
  BY <1>1, <1>2

LEMMA RequestRenewalFits ==
    ASSUME IInv, BinInv, EInv, IInv', NEW d \in Durations, NEW r \in Renewal, NEW l \in Lease,
           RequestRenewal(d, r, l)
    PROVE  EInv'
<1>1. RenewalRequest(d, r, l) /\ Entitled /\ HandsOverLease
  BY DEF RequestRenewal, RenewalRequest
<1>2. lease' = PendingRows
  BY DEF RequestRenewal, PendingRows
<1>3. now' = now /\ now \in Nat /\ now <= now'
  BY DEF RequestRenewal, IInv, TypeOK, Time
<1>4. Moves(lease, lease', now, now')
  BY <1>1, <1>2, <1>3, PendingMoves
<1>5. d > 0 /\ \A s \in Lease : lease[s].prev = l => lease[s].state # "APPROVED"
  BY <1>1, RenewedLease
<1>6. /\ renewal' = [renewal EXCEPT ![r] =
                       [NoRenewal EXCEPT !.state = "REQUESTED", !.lease = l, !.duration = d]]
      /\ renewal \in [Renewal -> RenewalRow]
  BY DEF RequestRenewal, IInv, TypeOK
<1>7. ASSUME NEW x \in Renewal PROVE RenewalFits(x)'
  <2>1. CASE x # r
    BY <1>4, <1>6, <2>1, RenewalKept
  <2>2. CASE x = r
    <3>1. /\ renewal'[r].state = "REQUESTED" /\ renewal'[r].lease = l
          /\ renewal'[r].duration = d
      BY <1>6 DEF NoRenewal
    <3>2. \A s \in Lease : lease'[s].prev = l => lease'[s].state # "APPROVED"
      BY <1>4, <1>5 DEF Moves
    <3>3. RenewalFits(r)'
      BY <1>5, <3>1, <3>2 DEF RenewalFits
    <3>4. QED
      BY <2>2, <3>3
  <2>3. QED
    BY <2>1, <2>2
<1>8. UNCHANGED <<item, restore, op, restoring, scan>> /\ overtaken \subseteq overtaken'
  BY DEF RequestRenewal, HandsOverLease
<1>9. \A m \in Lease :
         scan'.lease # None /\ lease[m].state = "APPROVED" /\ lease[m].prev = scan.lease =>
            lease'[m].state = "APPROVED" \/ scan.lease \in overtaken'
  BY <1>1, <1>2, <1>8, RequestTakesUp
<1>10. QED
  BY <1>3, <1>4, <1>7, <1>8, <1>9, MovesFitQuietly

(* A renewal is granted to a lease that runs: it was the last one.         *)
LEMMA GrantGoesOn ==
    ASSUME IInv, BinInv, EInv, NEW t \in [Lease -> LeaseRow], Moves(lease, t, now, now),
           NEW u \in [Lease -> LeaseRow],
           NEW l \in SavedIn(lease), now < lease[l].expires,
           NEW d \in Nat, d > 0, CanGrant(l, d), u = Grant(t, l, d)
    PROVE  /\ ChainFits(u, now) /\ TipsIn(u, now) = {FreshLease} /\ OpenIn(item) = {}
           /\ SavedIn(u) = SavedIn(lease) \cup {FreshLease}
           /\ restoring.req = None /\ l \in TipsIn(lease, now)
           /\ FreshLease \in Lease /\ lease[FreshLease].state = "NONE"
           /\ u[FreshLease].state = "APPROVED" /\ u[FreshLease].prev = l
<1>1. l \in Lease /\ lease \in [Lease -> LeaseRow] /\ now \in Time /\ now \in Nat
  BY DEF SavedIn, IInv, TypeOK, Time
<1>2. ChainFits(lease, now) /\ now <= now
  BY <1>1 DEF EInv
<1>3. /\ ChainFits(t, now)
      /\ SavedIn(t) = SavedIn(lease) /\ TipsIn(t, now) \subseteq TipsIn(lease, now)
  BY <1>1, <1>2, Moved
<1>4. OpenIn(item) = {} /\ restoring.req = None
  BY RunningMeansClosed
<1>5. /\ ~lease[l].recycled /\ \A s \in Lease : lease[s].prev # l
  <2>1. \A s \in Lease : lease[s].prev # l
    BY DEF CanGrant, Successors
  <2>2. LeaseFits(lease, l, now) /\ lease[l].expires \in Nat
    BY <1>1, <1>2 DEF ChainFits, LeaseRow, Time
  <2>3. ~lease[l].recycled
    BY <1>1, <2>2 DEF LeaseFits
  <2>4. QED
    BY <2>1, <2>3
<1>6. l \in TipsIn(lease, now)
  BY <1>5 DEF TipsIn
<1>7. /\ \A s \in Lease : t[s].prev = lease[s].prev
      /\ t[l].recycled = lease[l].recycled /\ t[l].expires = lease[l].expires
  BY <1>1 DEF Moves
<1>8. l \in TipsIn(t, now) /\ now < t[l].expires
  BY <1>3, <1>5, <1>7 DEF TipsIn
<1>9. \A m \in TipsIn(t, now) : m = l
  BY <1>3, <1>6 DEF EInv, OneEnd
<1>10. FreshLease \in Lease /\ lease[FreshLease].state = "NONE"
  BY FreshLeaseType DEF CanGrant
<1>11. t[FreshLease].state = "NONE"
  BY <1>10 DEF Moves
<1>12. u = WithSuccessor(t, l, FreshLease, d)
  BY DEF Grant, WithSuccessor
<1>13. /\ ChainFits(u, now)
       /\ SavedIn(u) = SavedIn(t) \cup {FreshLease} /\ TipsIn(u, now) = {FreshLease}
  BY <1>1, <1>3, <1>8, <1>9, <1>10, <1>11, <1>12, Granted
<1>14. u[FreshLease].state = "APPROVED" /\ u[FreshLease].prev = l
  BY <1>10, <1>12 DEF WithSuccessor, NewLease
<1>15. QED
  BY <1>3, <1>4, <1>6, <1>10, <1>13, <1>14

(* A grant closes the only open renewal, if there was one.                 *)
LEMMA GrantFits ==
    ASSUME IInv, BinInv, EInv, IInv', KeptInBin,
           NEW t \in [Lease -> LeaseRow], Moves(lease, t, now, now),
           NEW l \in SavedIn(lease), now < lease[l].expires,
           NEW d \in Nat, d > 0, CanGrant(l, d), lease' = Grant(t, l, d),
           NEW r \in Renewal, \A x \in OpenRenewals : x = r,
           renewal'[r].state = "APPROVED", renewal'[r].result = FreshLease,
           \A x \in Renewal \ {r} : renewal'[x] = renewal[x],
           UNCHANGED <<now, item, restore, op, restoring, scan>>,
           overtaken \subseteq overtaken',
           scan.lease # None /\ lease[l].state = "APPROVED" /\ lease[l].prev = scan.lease =>
              scan.lease \in overtaken'
    PROVE  EInv'
<1>1. lease' \in [Lease -> LeaseRow] /\ scan.lease \in Lease \cup {None}
  BY DEF IInv, TypeOK
<1>2. /\ ChainFits(lease', now) /\ TipsIn(lease', now) = {FreshLease} /\ OpenIn(item) = {}
      /\ SavedIn(lease') = SavedIn(lease) \cup {FreshLease}
      /\ restoring.req = None /\ l \in TipsIn(lease, now)
      /\ FreshLease \in Lease /\ lease[FreshLease].state = "NONE"
      /\ lease'[FreshLease].state = "APPROVED" /\ lease'[FreshLease].prev = l
  BY <1>1, GrantGoesOn
<1> DEFINE f == FreshLease
<1> HIDE DEF f
<1>3. f = FreshLease
  BY DEF f
<1>4. OneEnd(lease', item', now')
  BY <1>2 DEF OneEnd
<1>5. ASSUME NEW x \in Renewal PROVE RenewalFits(x)'
  <2>1. CASE x = r
    <3>1. renewal'[r].state # "REQUESTED" /\ renewal'[r].result \in SavedIn(lease')
      BY <1>2
    <3>2. RenewalFits(r)'
      BY <3>1 DEF RenewalFits, SavedIn
    <3>3. QED
      BY <2>1, <3>2
  <2>2. CASE x # r
    <3>1. renewal'[x] = renewal[x] /\ renewal[x].state # "REQUESTED" /\ RenewalFits(x)
      BY <2>2 DEF OpenRenewals, EInv
    <3>2. renewal'[x].state = "APPROVED" => renewal'[x].result \in SavedIn(lease')
      BY <1>2, <3>1 DEF RenewalFits
    <3>3. QED
      BY <3>1, <3>2 DEF RenewalFits, SavedIn
  <2>3. QED
    BY <2>1, <2>2
<1>6. \A q \in Restore : RestoreFits(q)'
  BY DEF EInv, RestoreFits
<1>7. \A m \in Lease : OpFits(m)'
  <2>1. op[f].status = "NONE"
    BY <1>2, <1>3 DEF BinInv, BinFits, SavedIn
  <2>2. ASSUME NEW m \in Lease, lease'[m].state = "APPROVED" PROVE op[m].status = "NONE"
    <3>1. CASE m = f
      BY <2>1, <3>1
    <3>2. CASE m # f
      <4>1. Grant(t, l, d)[m].state = "APPROVED" => t[m].state = "APPROVED"
        BY <1>3, <3>2 DEF Grant, LeaseRow
      <4>2. lease[m].state = "APPROVED"
        BY <2>2, <4>1 DEF Moves
      <4>3. QED
        BY <4>2 DEF EInv, OpFits
    <3>3. QED
      BY <3>1, <3>2
  <2>3. QED
    BY <2>2 DEF OpFits
<1>8. RestoringFits'
  BY <1>2 DEF RestoringFits
<1>9. ScanFits'
  <2>1. CASE scan.lease = None
    BY <2>1 DEF ScanFits
  <2>2. CASE scan.lease # None /\ (scan.lease \in overtaken' \/ lease[scan.lease].recycled)
    BY <1>1, <2>2 DEF ScanFits, KeptInBin
  <2>3. CASE scan.lease # None /\ l = scan.lease
    <3>1. \A m \in TipsIn(lease', now') \cup OpenIn(item') :
             lease'[m].prev = scan.lease /\ lease'[m].state = "APPROVED"
      BY <1>2, <2>3
    <3>2. QED
      BY <3>1 DEF ScanFits, TipsIn, SavedIn, OpenIn
  <2>4. QED
    BY <1>2, <2>1, <2>2, <2>3 DEF EInv, ScanFits
<1>10. ChainFits(lease', now')
  BY <1>2
<1>11. QED
  BY <1>4, <1>5, <1>6, <1>7, <1>8, <1>9, <1>10, Assembled

LEMMA AutoRenewFits ==
    ASSUME IInv, BinInv, EInv, IInv', KeptInBin,
           NEW d \in Durations, NEW r \in Renewal, NEW l \in Lease, AutoRenew(d, r, l)
    PROVE  EInv'
<1>1. RenewalRequest(d, r, l) /\ Entitled /\ CanGrant(l, d) /\ HandsOverLease
  BY DEF AutoRenew, RenewalRequest
<1>2. PendingRows \in [Lease -> LeaseRow] /\ Moves(lease, PendingRows, now, now)
  BY <1>1, PendingMoves
<1>3. lease' = Grant(PendingRows, l, d)
  BY DEF AutoRenew, PendingRows
<1>4. l \in SavedIn(lease) /\ now < lease[l].expires /\ d > 0 /\ d \in Nat
  BY <1>1, RenewedLease
<1>5. OpenRenewals = {}
  BY <1>1 DEF RenewalRequest
<1>6. /\ renewal' = [renewal EXCEPT ![r] = [state |-> "APPROVED", lease |-> l, duration |-> d,
                                            result |-> FreshLease]]
      /\ renewal \in [Renewal -> RenewalRow]
  BY DEF AutoRenew, IInv, TypeOK
<1>7. /\ renewal'[r].state = "APPROVED" /\ renewal'[r].result = FreshLease
      /\ \A x \in Renewal \ {r} : renewal'[x] = renewal[x]
  BY <1>6
<1>8. UNCHANGED <<now, item, restore, op, restoring, scan>> /\ overtaken \subseteq overtaken'
  BY DEF AutoRenew, HandsOverLease
<1>9. ASSUME scan.lease # None, lease[l].state = "APPROVED", lease[l].prev = scan.lease
      PROVE  scan.lease \in overtaken'
  <2>1. l = EntitledLease \/ now < lease[scan.lease].expires
    BY <1>1, <1>9, ChainRuns DEF RenewalRequest
  <2>2. lease[scan.lease].expires <= now /\ scan.lease \in Lease
    BY <1>9 DEF BinInv, ScanIsLate, SavedIn
  <2>3. lease[scan.lease].expires \in Nat /\ now \in Nat
    BY <2>2 DEF IInv, TypeOK, LeaseRow, Time
  <2>4. l = EntitledLease
    BY <2>1, <2>2, <2>3
  <2>5. QED
    BY <1>1, <1>9, <2>4, TakenUp
<1>10. \A x \in OpenRenewals : x = r
  BY <1>5
<1>11. QED
  BY <1>1, <1>2, <1>3, <1>4, <1>7, <1>8, <1>9, <1>10, GrantFits

(* The lease of a late request, or of a late decision, is closed.          *)
LEMMA ClosedMoves ==
    ASSUME EInv, NEW t \in [Lease -> LeaseRow], NEW u \in [Lease -> LeaseRow],
           NEW c \in Time, NEW d \in Time, c <= d, Moves(lease, t, c, c),
           NEW l \in Lease, lease[l].expires <= d,
           \A s \in Lease : lease[s].prev = l => lease[s].state # "APPROVED",
           u = CloseLease(t, l)
    PROVE  Moves(lease, u, c, d) /\ \A m \in Lease : t[m].state = "APPROVED" => u[m] = t[m]
<1>1. \A m \in Lease \ {l} : u[m] = t[m]
  BY DEF CloseLease
<1>2. /\ u[l].starts = t[l].starts /\ u[l].expires = t[l].expires
      /\ u[l].prev = t[l].prev /\ u[l].recycled = t[l].recycled
      /\ u[l].state = IF t[l].state \in ActiveStates THEN "EXPIRED" ELSE t[l].state
  BY DEF LeaseRow, CloseLease
<1>3. u[l].state = t[l].state \/ (t[l].state \in ActiveStates /\ u[l].state = "EXPIRED")
  BY <1>2
<1>4. \A m \in Lease : /\ u[m].starts = lease[m].starts /\ u[m].expires = lease[m].expires
                       /\ u[m].prev = lease[m].prev /\ u[m].recycled = lease[m].recycled
  BY <1>1, <1>2 DEF Moves
<1>5. \A m \in Lease : \A s \in {"NONE", "UNSAVED", "RECYCLE_BIN"} :
         u[m].state = s <=> lease[m].state = s
  <2>1. \A s \in {"NONE", "UNSAVED", "RECYCLE_BIN"} : u[l].state = s <=> t[l].state = s
    BY <1>3 DEF ActiveStates
  <2>2. QED
    BY <1>1, <2>1 DEF Moves
<1>6. c \in Nat /\ d \in Nat /\ \A m \in Lease : lease[m].expires \in Nat
  <2>1. \A m \in Lease : lease[m].expires = t[m].expires /\ t[m].expires \in Nat
    BY DEF Moves, LeaseRow, Time
  <2>2. QED
    BY <2>1 DEF Time
<1>7. ASSUME NEW m \in Lease, u[m].state = "APPROVED"
      PROVE  /\ lease[m].state = "APPROVED"
             /\ u[lease[m].prev].state \in ActiveStates \/ lease[m].expires <= d
  <2>1. t[m].state = "APPROVED"
    BY <1>1, <1>3, <1>7
  <2>2. /\ lease[m].state = "APPROVED"
        /\ t[lease[m].prev].state \in ActiveStates \/ lease[m].expires <= c
    BY <2>1 DEF Moves
  <2>3. lease[m].prev \in Lease /\ lease[m].prev # l
    BY <2>2 DEF EInv, ChainFits, LeaseFits, SavedIn
  <2>4. QED
    BY <1>1, <1>6, <2>2, <2>3
<1>8. ASSUME NEW m \in Lease, u[m].state = "EXPIRED" PROVE u[m].expires <= d
  <2>1. CASE m = l
    BY <1>4, <2>1
  <2>2. CASE m # l
    <3>1. t[m].expires <= c /\ t[m].expires \in Nat
      BY <1>1, <1>8, <2>2 DEF Moves, LeaseRow, Time
    <3>2. t[m].expires <= d
      BY <1>6, <3>1
    <3>3. QED
      BY <1>1, <2>2, <3>2
  <2>3. QED
    BY <2>1, <2>2
<1>9. \A m \in Lease : t[m].state = "APPROVED" => u[m] = t[m]
  <2>1. t[l].state = "APPROVED" => u[l] = [t[l] EXCEPT !.state = t[l].state]
    BY DEF CloseLease, ActiveStates
  <2>3. t[l] = [t[l] EXCEPT !.state = t[l].state]
    BY DEF LeaseRow
  <2>4. QED
    BY <1>1, <2>1, <2>3
<1>10. \A m \in Lease : lease[m].state = "APPROVED" /\ u[m].state # "APPROVED" =>
                           c < lease[m].expires
  BY <1>9 DEF Moves
<1>11. QED
  BY <1>4, <1>5, <1>7, <1>8, <1>9, <1>10 DEF Moves

LEMMA AutoRenewLateFits ==
    ASSUME NoLag, IInv, BinInv, EInv, IInv',
           NEW d \in Durations, NEW r \in Renewal, NEW l \in Lease, AutoRenewLate(d, r, l)
    PROVE  EInv'
<1>1. RenewalRequest(d, r, l) /\ Entitled /\ ClockAdvances /\ HandsOverLease
  BY DEF AutoRenewLate, RenewalRequest
<1>2. now \in Time /\ now' \in Time /\ now <= now'
  BY <1>1, ClockMeansNoDecision DEF IInv, TypeOK
<1>3. lease' = CloseLease(PendingRows, l)
  BY DEF AutoRenewLate, PendingRows, CloseLease
<1>4. \A s \in Lease : lease[s].prev = l => lease[s].state # "APPROVED"
  BY <1>1, RenewedLease
<1>5. lease[l].expires <= now' /\ lease' \in [Lease -> LeaseRow]
  BY DEF AutoRenewLate, IInv, TypeOK
<1>6. PendingRows \in [Lease -> LeaseRow] /\ Moves(lease, PendingRows, now, now)
  BY <1>1, PendingMoves
<1>7. /\ Moves(lease, lease', now, now')
      /\ \A m \in Lease : PendingRows[m].state = "APPROVED" => lease'[m] = PendingRows[m]
  BY <1>2, <1>3, <1>4, <1>5, <1>6, ClosedMoves
<1>8. /\ renewal' = [renewal EXCEPT ![r] =
                       [NoRenewal EXCEPT !.state = "CANCELLED", !.lease = l, !.duration = d]]
      /\ renewal \in [Renewal -> RenewalRow]
  BY DEF AutoRenewLate, IInv, TypeOK
<1>9. renewal'[r].state = "CANCELLED" /\ \A x \in Renewal \ {r} : renewal'[x] = renewal[x]
  BY <1>8 DEF NoRenewal
<1>10. \A x \in Renewal : RenewalFits(x)'
  BY <1>7, <1>9, RenewalKept
<1>11. UNCHANGED <<item, restore, op, restoring, scan>> /\ overtaken \subseteq overtaken'
  BY DEF AutoRenewLate, HandsOverLease
<1>12. \A m \in Lease :
          scan'.lease # None /\ lease[m].state = "APPROVED" /\ lease[m].prev = scan.lease =>
             lease'[m].state = "APPROVED" \/ scan.lease \in overtaken'
  BY <1>1, <1>7, <1>11, RequestTakesUp
<1>13. QED
  BY <1>2, <1>7, <1>10, <1>11, <1>12, MovesFitQuietly

(* A decision, once it has its locks, does one of these.                   *)
LEMMA DecideLateFits ==
    ASSUME IInv, BinInv, EInv, IInv', decision.req # None, DecideCommit,
           NEW r \in Renewal, NEW l \in Lease, r = decision.req, l = renewal[r].lease,
           renewal[r].state = "REQUESTED", DecideLate(r, l)
    PROVE  EInv'
<1>1. /\ now' = now /\ now \in Time /\ now' \in Time /\ now \in Nat /\ decision.at = now
      /\ lease \in [Lease -> LeaseRow] /\ lease' \in [Lease -> LeaseRow]
      /\ renewal \in [Renewal -> RenewalRow]
  BY DEF DecideCommit, IInv, TypeOK, Time, BinInv, DecisionIsNow
<1>2. now <= now' /\ lease[l].expires <= now'
  BY <1>1 DEF DecideLate
<1>3. \A s \in Lease : lease[s].prev = l => lease[s].state # "APPROVED"
  BY DEF EInv, RenewalFits
<1>4. Moves(lease, lease, now, now)
  <2>1. \A m \in Lease : LeaseFits(lease, m, now)
    BY DEF EInv, ChainFits
  <2>2. QED
    BY <2>1 DEF LeaseFits, Moves
<1>5. lease' = CloseLease(lease, l)
  BY DEF DecideLate, CloseLease
<1>6. /\ Moves(lease, lease', now, now')
      /\ \A m \in Lease : lease[m].state = "APPROVED" => lease'[m] = lease[m]
  BY <1>1, <1>2, <1>3, <1>4, <1>5, ClosedMoves
<1>7. /\ renewal'[r].state = "CANCELLED"
      /\ \A x \in Renewal \ {r} : renewal'[x] = renewal[x]
  BY <1>1 DEF DecideLate, RenewalRow
<1>8. \A x \in Renewal : RenewalFits(x)'
  BY <1>6, <1>7, RenewalKept
<1>9. UNCHANGED <<item, restore, op, restoring, scan>> /\ overtaken \subseteq overtaken'
  BY DEF DecideCommit, DecideLate
<1>10. \A m \in Lease :
          scan'.lease # None /\ lease[m].state = "APPROVED" /\ lease[m].prev = scan.lease =>
             lease'[m].state = "APPROVED" \/ scan.lease \in overtaken'
  BY <1>6
<1>11. QED
  BY <1>2, <1>6, <1>8, <1>9, <1>10, MovesFitQuietly

LEMMA DecideRejectFits ==
    ASSUME IInv, BinInv, EInv, IInv', decision.req # None, DecideCommit,
           NEW r \in Renewal, NEW l \in Lease, r = decision.req, l = renewal[r].lease,
           renewal[r].state = "REQUESTED", DecideReject(r, l)
    PROVE  EInv'
<1>1. /\ now' = now /\ now \in Time /\ now \in Nat /\ decision.at = now
      /\ lease \in [Lease -> LeaseRow] /\ lease' \in [Lease -> LeaseRow]
      /\ renewal \in [Renewal -> RenewalRow]
  BY DEF DecideCommit, IInv, TypeOK, Time, BinInv, DecisionIsNow
<1>2. now <= now' /\ now < lease[l].expires /\ lease[l].expires \in Nat
  BY <1>1 DEF DecideReject, LeaseRow, Time
<1>3. \A m \in Lease : LeaseFits(lease, m, now)
  BY DEF EInv, ChainFits
<1>4. l \in SavedIn(lease)
  BY DEF BinInv
<1>5. lease' = [lease EXCEPT ![l].state = "RENEWAL_WINDOW"]
  BY DEF DecideReject
<1>6. \A m \in Lease \ {l} : lease'[m] = lease[m]
  BY <1>1, <1>5
<1>7. /\ lease'[l].state = "RENEWAL_WINDOW" /\ lease'[l].starts = lease[l].starts
      /\ lease'[l].expires = lease[l].expires /\ lease'[l].prev = lease[l].prev
      /\ lease'[l].recycled = lease[l].recycled
  BY <1>1, <1>5 DEF LeaseRow
<1>8. lease[l].state \notin {"NONE", "UNSAVED", "RECYCLE_BIN", "EXPIRED"}
  BY <1>1, <1>2, <1>3, <1>4 DEF LeaseFits, SavedIn
<1>9. Moves(lease, lease', now, now')
  <2>1. \A m \in Lease : /\ lease'[m].starts = lease[m].starts
                         /\ lease'[m].expires = lease[m].expires
                         /\ lease'[m].prev = lease[m].prev
                         /\ lease'[m].recycled = lease[m].recycled
    BY <1>6, <1>7
  <2>2. \A m \in Lease : \A s \in {"NONE", "UNSAVED", "RECYCLE_BIN"} :
           lease'[m].state = s <=> lease[m].state = s
    BY <1>6, <1>7, <1>8
  <2>3. ASSUME NEW m \in Lease, lease'[m].state = "APPROVED"
        PROVE  /\ lease[m].state = "APPROVED"
               /\ lease'[lease[m].prev].state \in ActiveStates \/ lease[m].expires <= now'
    <3>1. lease[m].state = "APPROVED"
      BY <1>6, <1>7, <2>3
    <3>2. /\ lease[m].prev \in Lease
          /\ lease[lease[m].prev].state \in ActiveStates \/ lease[m].expires <= now
      BY <1>3, <3>1 DEF LeaseFits, SavedIn
    <3>3. QED
      BY <1>1, <1>6, <1>7, <3>1, <3>2 DEF ActiveStates
  <2>4. \A m \in Lease : lease'[m].state = "EXPIRED" => lease'[m].expires <= now'
    BY <1>1, <1>3, <1>6, <1>7 DEF LeaseFits
  <2>5. \A m \in Lease : lease[m].state = "APPROVED" /\ lease'[m].state # "APPROVED" =>
                            now < lease[m].expires
    BY <1>2, <1>6
  <2>6. QED
    BY <2>1, <2>2, <2>3, <2>4, <2>5 DEF Moves
<1>10. /\ renewal'[r].state = "REJECTED"
       /\ \A x \in Renewal \ {r} : renewal'[x] = renewal[x]
  BY <1>1 DEF DecideReject, RenewalRow
<1>11. \A x \in Renewal : RenewalFits(x)'
  BY <1>9, <1>10, RenewalKept
<1>12. UNCHANGED <<item, restore, op, restoring, scan>> /\ overtaken \subseteq overtaken'
  BY DEF DecideCommit, DecideReject, DecidesPast
<1>13. \A m \in Lease :
          scan'.lease # None /\ lease[m].state = "APPROVED" /\ lease[m].prev = scan.lease =>
             lease'[m].state = "APPROVED" \/ scan.lease \in overtaken'
  <2>1. lease[l].prev = scan.lease /\ scan.lease # None => scan.lease \in overtaken'
    <3>1. scan.lease \in Lease \cup {None}
      BY DEF IInv, TypeOK
    <3>2. QED
      BY <3>1 DEF DecideReject, DecidesPast
  <2>2. QED
    BY <1>6, <1>12, <2>1
<1>14. QED
  BY <1>2, <1>9, <1>11, <1>12, <1>13, MovesFitQuietly

LEMMA DecideApproveFits ==
    ASSUME IInv, BinInv, EInv, IInv', KeptInBin, decision.req # None, DecideCommit,
           NEW r \in Renewal, NEW l \in Lease, r = decision.req, l = renewal[r].lease,
           renewal[r].state = "REQUESTED", DecideApprove(r, l)
    PROVE  EInv'
<1> DEFINE d == renewal[r].duration
<1>1. /\ now' = now /\ now \in Nat /\ decision.at = now
      /\ lease \in [Lease -> LeaseRow] /\ renewal \in [Renewal -> RenewalRow]
  BY DEF DecideCommit, IInv, TypeOK, Time, BinInv, DecisionIsNow
<1>2. l \in SavedIn(lease) /\ d > 0 /\ d \in Nat
  BY <1>1 DEF EInv, BinInv, RenewalFits, RenewalRow
<1>3. now < lease[l].expires /\ CanGrant(l, d) /\ lease' = Grant(lease, l, d)
  BY <1>1 DEF DecideApprove
<1>4. Moves(lease, lease, now, now)
  <2>1. \A m \in Lease : LeaseFits(lease, m, now)
    BY DEF EInv, ChainFits
  <2>2. QED
    BY <2>1 DEF LeaseFits, Moves
<1>5. \A x \in OpenRenewals : x = r
  BY DEF IInv, OneOpenRenewal, OpenRenewals
<1>6. renewal' = [renewal EXCEPT ![r] = [@ EXCEPT !.state = "APPROVED", !.result = FreshLease]]
  BY DEF DecideApprove
<1>7. /\ renewal'[r].state = "APPROVED" /\ renewal'[r].result = FreshLease
      /\ \A x \in Renewal \ {r} : renewal'[x] = renewal[x]
  BY <1>1, <1>6 DEF RenewalRow
<1>8. UNCHANGED <<now, item, restore, op, restoring, scan>> /\ overtaken \subseteq overtaken'
  BY DEF DecideCommit, DecideApprove, DecidesPast
<1>9. scan.lease # None /\ lease[l].state = "APPROVED" /\ lease[l].prev = scan.lease =>
         scan.lease \in overtaken'
  <2>1. scan.lease \in Lease \cup {None}
    BY DEF IInv, TypeOK
  <2>2. QED
    BY <2>1 DEF DecideApprove, DecidesPast
<1> HIDE DEF d
<1>10. QED
  BY <1>1, <1>2, <1>3, <1>4, <1>5, <1>7, <1>8, <1>9, GrantFits

LEMMA DecideCommitFits ==
    ASSUME IInv, BinInv, EInv, IInv', KeptInBin, DecideCommit
    PROVE  EInv'
<1> DEFINE r == decision.req
           l == renewal[r].lease
<1>1. r # None /\ r \in Renewal
  BY DEF DecideCommit, IInv, TypeOK
<1>2. renewal[r].state # "NONE" /\ l \in Lease
  BY <1>1 DEF IInv, RequestsRefer
<1>3. \/ /\ renewal[r].state = "REQUESTED"
         /\ DecideLate(r, l) \/ DecideReject(r, l) \/ DecideApprove(r, l)
      \/ DecideRefused(r, l)
  BY DEF DecideCommit
<1> HIDE DEF r, l
<1>4. r = decision.req /\ l = renewal[r].lease
  BY DEF r, l
<1>5. CASE /\ renewal[r].state = "REQUESTED"
           /\ DecideLate(r, l) \/ DecideReject(r, l) \/ DecideApprove(r, l)
  BY <1>1, <1>2, <1>4, <1>5, DecideLateFits, DecideRejectFits, DecideApproveFits
<1>6. CASE DecideRefused(r, l)
  <2>1. /\ UNCHANGED <<now, lease, renewal, item, restore, op, restoring, scan, overtaken>>
        /\ now \in Nat
    BY <1>6 DEF DecideRefused, DecideCommit, IInv, TypeOK, Time
  <2>2. now <= now'
    BY <2>1
  <2>3. QED
    BY <2>1, <2>2, QuietFits
<1>7. QED
  BY <1>3, <1>5, <1>6

(* Steps that leave leases, items and restores alone.                      *)
LEMMA IdleFits ==
    ASSUME NoLag, IInv, BinInv, EInv, IInv',
           \/ Tick \/ SetPolicy \/ StopContainer \/ WorkerStep
           \/ \E r \in Renewal, approve \in BOOLEAN : DecideStart(r, approve)
           \/ ScanCancel \/ ScanRead \/ ScanCrash \/ \E l \in Lease : ScanPass(l)
           \/ UNCHANGED vars
    PROVE  EInv'
<1>1. now \in Nat
  BY DEF IInv, TypeOK, Time
<1>2. now <= now'
  <2>1. CASE Tick
    <3>1. ClockAdvances
      BY <2>1 DEF Tick
    <3>2. QED
      BY <3>1, ClockMeansNoDecision
  <2>2. CASE now' = now
    BY <1>1, <2>2
  <2>3. QED
    BY <2>1, <2>2 DEF SetPolicy, StopContainer, WorkerStep, ServeLeft, DecideStart, ScanCancel,
       ScanRead, ScanCrash, ScanPass, vars
<1>3. UNCHANGED <<lease, item, restore, op, restoring, overtaken>>
  BY DEF Tick, SetPolicy, StopContainer, WorkerStep, ServeLeft, DecideStart, ScanCancel,
     ScanRead, ScanCrash, ScanPass, rows, vars
<1>4. scan' = scan \/ scan'.lease = None
  <2>1. CASE (\E l \in Lease : ScanPass(l)) \/ ScanRead \/ ScanCancel \/ ScanCrash
    <3>1. NoScan.lease = None /\ \A l \in Lease : [scan EXCEPT !.due = @ \ {l}, !.lease = None].lease = None
      BY DEF NoScan, IInv, TypeOK
    <3>2. ASSUME NEW D, NEW p
          PROVE  [NoScan EXCEPT !.pc = p, !.due = D].lease = None
                 /\ [NoScan EXCEPT !.pc = p].lease = None
      BY DEF NoScan
    <3>3. NoScan.lease = None /\ \A l \in Lease : ScanAdvance(l) => scan'.lease = None
      BY <3>1 DEF ScanAdvance
    <3>4. CASE ScanRead
      <4>1. scan' = NoScan \/ \E D : scan' = [NoScan EXCEPT !.pc = "RUN", !.due = D]
        BY <3>4 DEF ScanRead
      <4>2. QED
        BY <3>2, <3>3, <4>1
    <3>5. CASE ScanCancel
      BY <3>2, <3>5 DEF ScanCancel
    <3>6. QED
      BY <2>1, <3>3, <3>4, <3>5 DEF ScanPass, ScanCrash
  <2>2. QED
    BY <2>1 DEF Tick, SetPolicy, StopContainer, WorkerStep, ServeLeft, DecideStart, vars
<1>5. ASSUME NEW r \in Renewal
      PROVE  renewal'[r] = renewal[r] \/ renewal'[r].state \in {"CANCELLED", "REJECTED"}
  <2>1. CASE ScanCancel
    <3>1. renewal'[r] = renewal[r] \/ renewal'[r] = [renewal[r] EXCEPT !.state = "CANCELLED"]
      BY <2>1 DEF ScanCancel
    <3>2. renewal[r] \in RenewalRow
      BY DEF IInv, TypeOK
    <3>3. QED
      BY <3>1, <3>2 DEF RenewalRow
  <2>2. CASE UNCHANGED renewal
    BY <2>2
  <2>3. QED
    BY <2>1, <2>2 DEF Tick, SetPolicy, StopContainer, WorkerStep, ServeLeft, DecideStart,
       ScanRead, ScanCrash, ScanPass, rows, vars
<1>6. QED
  BY <1>2, <1>3, <1>4, <1>5, QuietFits

-----------------------------------------------------------------------------
(* Requests that only use the lease, and the expiry worker.                *)

LEMMA UseFits ==
    ASSUME IInv, BinInv, EInv, IInv', UseLease \/ StartContainer
    PROVE  EInv'
<1>1. Entitled /\ lease' = AfterEnsure /\ HandsOverLease
  BY DEF UseLease, StartContainer
<1>2. /\ UNCHANGED <<now, renewal, item, restore, op, restoring, scan>> /\ now \in Nat
      /\ overtaken \subseteq overtaken'
  BY DEF UseLease, StartContainer, HandsOverLease, IInv, TypeOK, Time
<1>3. Moves(lease, lease', now, now') /\ now <= now'
  BY <1>1, <1>2, EnsureMoves
<1>4. \A r \in Renewal : RenewalFits(r)'
  BY <1>2, <1>3, RenewalKept
<1>5. \A m \in Lease :
         scan'.lease # None /\ lease[m].state = "APPROVED" /\ lease[m].prev = scan.lease =>
            lease'[m].state = "APPROVED" \/ scan.lease \in overtaken'
  BY <1>1, <1>2, RequestTakesUp
<1>6. QED
  BY <1>2, <1>3, <1>4, <1>5, MovesFitQuietly

(* The lease that is due ends its chain, or its successor does.            *)
LEMMA ScanLookFits ==
    ASSUME IInv, BinInv, EInv, IInv', NEW l \in Lease, ScanLook(l)
    PROVE  EInv'
<1>1. /\ UNCHANGED <<now, lease, item, renewal, restore, op, restoring, overtaken>>
      /\ scan'.lease = l /\ Due(l)
  BY DEF ScanLook, rows, IInv, TypeOK
<1>2. l \in SavedIn(lease) /\ lease[l].state # "APPROVED" /\ ~lease[l].recycled
  BY <1>1 DEF Due, DueStates, ActiveStates, SavedIn
<1>3. \E e \in TipsIn(lease, now) : e = l \/ (lease[e].prev = l /\ lease[e].state = "APPROVED")
  <2>1. CASE Successors(l) = {}
    <3>1. l \in TipsIn(lease, now)
      BY <1>2, <2>1 DEF TipsIn, Successors
    <3>2. QED
      BY <3>1
  <2>2. CASE ActivatableSuccessors(l) # {}
    <3>1. PICK s \in Lease : /\ lease[s].prev = l /\ lease[s].state = "APPROVED"
                             /\ now < lease[s].expires
      BY <2>2 DEF ActivatableSuccessors, ApprovedSuccessors, Successors
    <3>2. s \in SavedIn(lease) /\ ~lease[s].recycled
      BY <3>1 DEF SavedIn, BinInv, BinFits
    <3>3. \A x \in Lease : lease[x].prev # s
      BY <3>1, LeaseAssumption DEF EInv, ChainFits, LeaseFits
    <3>4. s \in TipsIn(lease, now)
      BY <3>1, <3>2, <3>3 DEF TipsIn
    <3>5. QED
      BY <3>1, <3>4
  <2>3. QED
    BY <1>1, <2>1, <2>2 DEF Due
<1>4. \A m \in TipsIn(lease, now) \cup OpenIn(item) :
         m = l \/ (lease[m].prev = l /\ lease[m].state = "APPROVED")
  BY <1>3 DEF EInv, OneEnd
<1>5. \A m \in TipsIn(lease', now') \cup OpenIn(item') :
         m = scan'.lease \/ (lease'[m].prev = scan'.lease /\ lease'[m].state = "APPROVED")
  BY <1>1, <1>4
<1>6. ScanFits'
  BY <1>5 DEF ScanFits, TipsIn, SavedIn, OpenIn
<1>7. ChainFits(lease', now') /\ OneEnd(lease', item', now')
  BY <1>1 DEF EInv
<1>8. /\ \A r \in Renewal : RenewalFits(r)'
      /\ \A q \in Restore : RestoreFits(q)'
      /\ \A m \in Lease : OpFits(m)'
      /\ RestoringFits'
  BY <1>1 DEF EInv, RenewalFits, RestoreFits, OpFits, RestoringFits, SavedIn
<1>9. QED
  BY <1>6, <1>7, <1>8, Assembled

LEMMA ScanActivateFits ==
    ASSUME IInv, BinInv, EInv, IInv', NEW l \in Lease, ScanActivate(l)
    PROVE  EInv'
<1>1. /\ UNCHANGED <<now, renewal, item, restore, op, restoring, overtaken>>
      /\ now \in Nat /\ lease \in [Lease -> LeaseRow] /\ now <= now'
  BY DEF ScanActivate, IInv, TypeOK, Time
<1>2. PICK s \in LiveSuccessors(l) :
         lease' = [lease EXCEPT ![l].state = "EXPIRED", ![s].state = "ACTIVE"]
  BY DEF ScanActivate
<1>3. /\ s \in Lease /\ lease[s].prev = l /\ lease[s].state = "APPROVED"
      /\ now < lease[s].expires
  BY DEF LiveSuccessors, ApprovedSuccessors, Successors
<1>4. lease[l].state \in DueStates /\ lease[l].expires <= now /\ ~lease[l].recycled
  <2>1. scan.lease = l /\ lease[l].state \in DueStates /\ ~lease[l].recycled
    BY DEF ScanActivate, Locks
  <2>2. QED
    BY <2>1, LeaseAssumption DEF BinInv, ScanIsLate
<1>5. l # s /\ \A m \in Lease : LeaseFits(lease, m, now)
  BY <1>3, <1>4 DEF DueStates, ActiveStates, EInv, ChainFits
<1>6. /\ lease'[l] = [lease[l] EXCEPT !.state = "EXPIRED"]
      /\ lease'[s] = [lease[s] EXCEPT !.state = "ACTIVE"]
      /\ \A m \in Lease \ {l, s} : lease'[m] = lease[m]
  BY <1>1, <1>2, <1>3, <1>5
<1>7. lease'[l].state = "EXPIRED" /\ lease'[s].state = "ACTIVE"
  BY <1>1, <1>3, <1>6 DEF LeaseRow
<1>8. \A m \in Lease : /\ lease'[m].starts = lease[m].starts
                       /\ lease'[m].expires = lease[m].expires
                       /\ lease'[m].prev = lease[m].prev
                       /\ lease'[m].recycled = lease[m].recycled
  BY <1>1, <1>3, <1>6 DEF LeaseRow
<1>9. \A m \in Lease : \A z \in {"NONE", "UNSAVED", "RECYCLE_BIN"} :
         lease'[m].state = z <=> lease[m].state = z
  BY <1>3, <1>4, <1>6, <1>7 DEF DueStates, ActiveStates
<1>10. ASSUME NEW m \in Lease, lease'[m].state = "APPROVED"
       PROVE  /\ lease[m].state = "APPROVED"
              /\ lease'[lease[m].prev].state \in ActiveStates \/ lease[m].expires <= now'
  <2>1. m \in Lease \ {l, s} /\ lease[m].state = "APPROVED"
    BY <1>6, <1>7, <1>10
  <2>2. /\ lease[m].prev \in Lease /\ lease[m].prev # None
        /\ lease[lease[m].prev].state \in ActiveStates \/ lease[m].expires <= now
    BY <1>5, <2>1 DEF LeaseFits, SavedIn
  <2>3. lease[m].prev # l
    BY <1>3, <2>1, <2>2 DEF EInv, ChainFits, Apart
  <2>4. QED
    BY <1>1, <1>6, <1>7, <2>1, <2>2, <2>3 DEF ActiveStates
<1>11. ASSUME NEW m \in Lease, lease'[m].state = "EXPIRED" PROVE lease'[m].expires <= now'
  <2>1. CASE m = l
    BY <1>1, <1>4, <1>8, <2>1
  <2>2. CASE m # l
    BY <1>1, <1>5, <1>6, <1>7, <1>11, <2>2 DEF LeaseFits
  <2>3. QED
    BY <2>1, <2>2
<1>12. \A m \in Lease : lease[m].state = "APPROVED" /\ lease'[m].state # "APPROVED" =>
                           now < lease[m].expires
  BY <1>3, <1>4, <1>6 DEF DueStates, ActiveStates
<1>13. Moves(lease, lease', now, now')
  BY <1>8, <1>9, <1>10, <1>11, <1>12 DEF Moves
<1>14. \A r \in Renewal : RenewalFits(r)'
  BY <1>1, <1>13, RenewalKept
<1>15. scan'.lease = None
  <2>1. NoScan.lease = None /\ [scan EXCEPT !.due = @ \ {l}, !.lease = None].lease = None
    BY DEF NoScan, IInv, TypeOK
  <2>2. QED
    BY <2>1 DEF ScanActivate, ScanAdvance
<1>16. QED
  BY <1>1, <1>13, <1>14, <1>15, MovesFitQuietly

-----------------------------------------------------------------------------
(* Cleanups.                                                               *)

(* A cleanup that fails closes a lease that is over.                       *)
LEMMA CleanupFailedFits ==
    ASSUME IInv, BinInv, EInv, IInv', NEW l \in SavedIn(lease), lease[l].expires <= now,
           lease[l].state \notin {"APPROVED", "RECYCLE_BIN"}, LiveSuccessors(l) = {},
           lease' = [lease EXCEPT ![l].state = "EXPIRED"],
           \A m \in Lease \ {l} : op'[m] = op[m],
           UNCHANGED <<now, renewal, item, restore, restoring, overtaken>>,
           scan' = scan \/ scan'.lease = None
    PROVE  EInv'
<1>1. /\ l \in Lease /\ lease \in [Lease -> LeaseRow] /\ now \in Nat
      /\ \A m \in Lease : lease[m].expires \in Nat
  BY DEF SavedIn, IInv, TypeOK, LeaseRow, Time
<1>2. \A m \in Lease : LeaseFits(lease, m, now)
  BY DEF EInv, ChainFits
<1>3. \A m \in Lease \ {l} : lease'[m] = lease[m]
  BY <1>1
<1>4. /\ lease'[l].state = "EXPIRED" /\ lease'[l].starts = lease[l].starts
      /\ lease'[l].expires = lease[l].expires /\ lease'[l].prev = lease[l].prev
      /\ lease'[l].recycled = lease[l].recycled
  BY <1>1 DEF LeaseRow
<1>5. Moves(lease, lease', now, now')
  <2>1. \A m \in Lease : /\ lease'[m].starts = lease[m].starts
                         /\ lease'[m].expires = lease[m].expires
                         /\ lease'[m].prev = lease[m].prev
                         /\ lease'[m].recycled = lease[m].recycled
    BY <1>3, <1>4
  <2>2. \A m \in Lease : \A s \in {"NONE", "UNSAVED", "RECYCLE_BIN"} :
           lease'[m].state = s <=> lease[m].state = s
    BY <1>3, <1>4 DEF SavedIn
  <2>3. ASSUME NEW m \in Lease, lease'[m].state = "APPROVED"
        PROVE  /\ lease[m].state = "APPROVED"
               /\ lease'[lease[m].prev].state \in ActiveStates \/ lease[m].expires <= now'
    <3>1. m # l /\ lease[m].state = "APPROVED"
      BY <1>3, <1>4, <2>3
    <3>2. lease[m].prev = l => lease[m].expires <= now
      BY <1>1, <3>1 DEF LiveSuccessors, ApprovedSuccessors, Successors
    <3>3. /\ lease[m].prev \in Lease
          /\ lease[lease[m].prev].state \in ActiveStates \/ lease[m].expires <= now
      BY <1>2, <3>1 DEF LeaseFits, SavedIn
    <3>4. QED
      BY <1>3, <3>1, <3>2, <3>3
  <2>4. \A m \in Lease : lease'[m].state = "EXPIRED" => lease'[m].expires <= now'
    BY <1>2, <1>3, <1>4 DEF LeaseFits
  <2>5. \A m \in Lease : lease[m].state = "APPROVED" /\ lease'[m].state # "APPROVED" =>
                            now < lease[m].expires
    BY <1>3
  <2>6. QED
    BY <2>1, <2>2, <2>3, <2>4, <2>5 DEF Moves
<1>6. /\ \A r \in Renewal : RenewalFits(r)'
      /\ \A q \in Restore : RestoreFits(q)'
      /\ RestoringFits'
  BY <1>5, RenewalKept, RestoringKept DEF EInv, RestoreFits
<1>7. \A m \in Lease : op'[m].status # "NONE" =>
                          op[m].status # "NONE" \/ lease'[m].state # "APPROVED"
  BY <1>4
<1>8. \A m \in Lease :
         scan'.lease # None /\ lease[m].state = "APPROVED" /\ lease[m].prev = scan.lease =>
            lease'[m].state = "APPROVED" \/ scan.lease \in overtaken'
  BY <1>3
<1>9. now <= now'
  BY <1>1
<1>10. QED
  BY <1>5, <1>6, <1>7, <1>8, <1>9, MovesFit

(* The item of a restore in hand.                                          *)
LEMMA RestoringIsOpen ==
    ASSUME IInv, restoring.req # None
    PROVE  /\ restoring.req \in Restore /\ restoring.lease \in Lease
           /\ RestoringItem \in OpenIn(item) /\ item[RestoringItem] = "RESTORING"
           /\ restore[restoring.req].state = "RESTORING"
<1>1. /\ restoring.req \in Restore /\ restoring.lease \in Lease
      /\ restore[restoring.req].state = "RESTORING" /\ item[RestoringItem] = "RESTORING"
  BY DEF IInv, TypeOK, RestoreHoldsItsItem
<1>2. RestoringItem \in Lease
  BY <1>1 DEF IInv, RequestsRefer, RestoringItem
<1>3. QED
  BY <1>1, <1>2 DEF OpenIn

(* A cleanup that succeeds puts the last lease into the bin.               *)
LEMMA CleanupDoneFits ==
    ASSUME IInv, BinInv, EInv, IInv', KeptInBin,
           NEW l \in SavedIn(lease), lease[l].expires <= now, ~lease[l].recycled,
           TipsIn(lease, now) \subseteq {l}, OpenIn(item) = {}, RecordRecycled(l),
           \A m \in Lease \ {l} : op'[m] = op[m],
           UNCHANGED <<now, renewal, restore, restoring, overtaken>>,
           \/ scan'.lease = None
           \/ scan' = scan /\ l \in TipsIn(lease, now) /\ lease[l].state # "APPROVED"
    PROVE  EInv'
<1>1. /\ lease \in [Lease -> LeaseRow] /\ lease' \in [Lease -> LeaseRow] /\ now \in Time
      /\ item \in [Lease -> ItemState] /\ ChainFits(lease, now) /\ l \in Lease
      /\ scan.lease \in Lease \cup {None}
  BY DEF IInv, TypeOK, EInv, SavedIn
<1>2. item[l] = "NONE" /\ \A m \in Lease : item[m] \in {"NONE", "RESTORED"}
  BY <1>1 DEF IInv, ItemsMatchRecycledLeases, OpenIn
<1>3. lease' = WithRecycled(lease, l) /\ \A m \in TipsIn(lease, now) : m = l
  BY DEF RecordRecycled, WithRecycled
<1>4. ChainFits(lease', now) /\ SavedIn(lease') = SavedIn(lease) /\ TipsIn(lease', now) = {}
  BY <1>1, <1>3, Recycled
<1>5. item' = [item EXCEPT ![l] = "RECYCLE_BIN"]
  BY <1>2 DEF RecordRecycled
<1>6. OpenIn(item') = {l}
  BY <1>1, <1>2, <1>5 DEF OpenIn
<1>7. OneEnd(lease', item', now')
  BY <1>4, <1>6 DEF OneEnd
<1>8. /\ \A m \in Lease \ {l} : lease'[m] = lease[m]
      /\ lease'[l].state = "RECYCLE_BIN" /\ lease'[l].recycled
  BY <1>1, <1>3 DEF LeaseRow, WithRecycled
<1>9. \A r \in Renewal : RenewalFits(r)'
  <2>1. \A r \in Renewal : RenewalFits(r) /\ renewal'[r] = renewal[r]
    BY DEF EInv
  <2>2. \A s \in Lease : lease'[s].state = "APPROVED" =>
                            lease[s].state = "APPROVED" /\ lease'[s].prev = lease[s].prev
    BY <1>8
  <2>3. ASSUME NEW r \in Renewal
        PROVE  /\ renewal'[r].state = "REQUESTED" =>
                     /\ renewal'[r].duration > 0
                     /\ \A s \in Lease :
                           lease'[s].prev = renewal'[r].lease => lease'[s].state # "APPROVED"
               /\ renewal'[r].state = "APPROVED" => renewal'[r].result \in SavedIn(lease')
    BY <1>4, <2>1, <2>2 DEF RenewalFits
  <2>4. QED
    BY <2>3 DEF RenewalFits, SavedIn
<1>10. \A q \in Restore : RestoreFits(q)'
  BY DEF EInv, RestoreFits
<1>11. \A m \in Lease : OpFits(m)'
  BY <1>8 DEF EInv, OpFits
<1>12. RestoringFits'
  <2>1. restoring.req = None
    BY RestoringIsOpen
  <2>2. QED
    BY <2>1 DEF RestoringFits
<1>13. ScanFits'
  <2>1. CASE scan'.lease = None
    BY <2>1 DEF ScanFits
  <2>2. CASE /\ scan' = scan /\ scan.lease # None
             /\ l \in TipsIn(lease, now) /\ lease[l].state # "APPROVED"
    <3>1. \/ scan.lease \in overtaken \/ lease[scan.lease].recycled \/ scan.lease = l
      BY <2>2 DEF EInv, ScanFits
    <3>2. scan'.lease \in overtaken' \/ lease'[scan'.lease].recycled
      BY <1>1, <1>8, <2>2, <3>1 DEF KeptInBin
    <3>3. QED
      BY <3>2 DEF ScanFits
  <2>3. QED
    BY <2>1, <2>2
<1>14. ChainFits(lease', now')
  BY <1>4
<1>15. QED
  BY <1>7, <1>9, <1>10, <1>11, <1>12, <1>13, <1>14, Assembled

(* The expiry worker's cleanup: a lease that did not move on meanwhile is  *)
(* still the last one when its lock is there.                              *)
LEMMA ScanRecycleFits ==
    ASSUME IInv, BinInv, EInv, IInv', KeptInBin, OvertakenNotRecycled',
           NEW l \in Lease, ScanRecycle(l)
    PROVE  EInv'
<1>1. /\ scan.lease = l /\ lease[l].state \in DueStates /\ ~lease[l].recycled
      /\ LiveSuccessors(l) = {}
  BY DEF ScanRecycle, MayRecycle, Locks
<1>2. lease[l].expires <= now /\ l \in SavedIn(lease) /\ l # None
  BY <1>1, LeaseAssumption DEF BinInv, ScanIsLate
<1>3. PICK w \in RecycleReplies(host, l) \cup RecycleFaults(host) : Cleanup(l, w)
  BY DEF ScanRecycle
<1>4. \A m \in Lease \ {l} : op'[m] = op[m]
  BY DEF ScanRecycle, IInv, TypeOK
<1>5. UNCHANGED <<now, renewal, restore, restoring, overtaken>> /\ scan'.lease = None
  <2>1. NoScan.lease = None /\ [scan EXCEPT !.due = @ \ {l}, !.lease = None].lease = None
    BY DEF NoScan, IInv, TypeOK
  <2>2. QED
    BY <2>1 DEF ScanRecycle, ScanAdvance
<1>6. lease[l].state \notin {"APPROVED", "RECYCLE_BIN"}
  BY <1>1 DEF DueStates, ActiveStates
<1>7. CASE w.reply = "SUCCEEDED"
  <2>1. RecordRecycled(l)
    BY <1>3, <1>7 DEF Cleanup
  <2>2. l \notin overtaken
    <3>1. lease'[l].recycled
      BY <2>1 DEF RecordRecycled, IInv, TypeOK, LeaseRow
    <3>2. QED
      BY <1>5, <3>1 DEF OvertakenNotRecycled
  <2>3. \A m \in TipsIn(lease, now) \cup OpenIn(item) :
           m = l \/ (lease[m].prev = l /\ lease[m].state = "APPROVED")
    BY <1>1, <1>2, <2>2 DEF EInv, ScanFits
  <2>4. \A m \in OpenIn(item) : m \in Lease /\ lease[m].recycled /\ lease[m].state # "APPROVED"
    BY DEF OpenIn, IInv, ItemsMatchRecycledLeases, BinInv, BinFits
  <2>5. OpenIn(item) = {}
    BY <1>1, <2>3, <2>4
  <2>6. ASSUME NEW m \in TipsIn(lease, now) PROVE m = l
    <3>1. m \in Lease /\ (lease[m].state = "APPROVED" => now < lease[m].expires)
      BY DEF TipsIn, SavedIn
    <3>2. ~(lease[m].prev = l /\ lease[m].state = "APPROVED")
      BY <1>1, <3>1 DEF LiveSuccessors, ApprovedSuccessors, Successors
    <3>3. QED
      BY <2>3, <3>2
  <2>7. QED
    BY <1>1, <1>2, <1>4, <1>5, <2>1, <2>5, <2>6, CleanupDoneFits
<1>8. CASE w.reply # "SUCCEEDED"
  <2>1. lease' = [lease EXCEPT ![l].state = "EXPIRED"] /\ item' = item
    BY <1>3, <1>8 DEF Cleanup, RecordNotRecycled
  <2>2. QED
    BY <1>1, <1>2, <1>4, <1>5, <1>6, <2>1, CleanupFailedFits
<1>9. QED
  BY <1>7, <1>8

(* The retry by hand looks for a successor with the lease locked.          *)
LEMMA RetryRecycleFits ==
    ASSUME IInv, BinInv, EInv, IInv', KeptInBin, NEW l \in Lease, RetryRecycle(l)
    PROVE  EInv'
<1>1. /\ op[l].status # "NONE" /\ lease[l].expires <= now /\ ~lease[l].recycled
      /\ Successors(l) = {} /\ item[l] = "NONE"
  BY DEF RetryRecycle
<1>2. l \in SavedIn(lease) /\ lease[l].state \notin {"APPROVED", "RECYCLE_BIN"}
  BY <1>1 DEF BinInv, BinFits, EInv, OpFits
<1>3. l \in TipsIn(lease, now)
  BY <1>1, <1>2 DEF TipsIn, Successors
<1>4. LiveSuccessors(l) = {}
  BY <1>1 DEF LiveSuccessors, ApprovedSuccessors
<1>5. PICK w \in RecycleReplies(host, l) \cup RecycleFaults(host) : Cleanup(l, w)
  BY DEF RetryRecycle
<1>6. UNCHANGED <<now, renewal, restore, restoring, overtaken, op, scan>>
  BY DEF RetryRecycle
<1>7. CASE w.reply = "SUCCEEDED"
  <2>1. RecordRecycled(l)
    BY <1>5, <1>7 DEF Cleanup
  <2>2. TipsIn(lease, now) \subseteq {l} /\ OpenIn(item) \subseteq {l}
    BY <1>3 DEF EInv, OneEnd
  <2>3. OpenIn(item) = {}
    BY <1>1, <2>2 DEF OpenIn
  <2>4. QED
    BY <1>1, <1>2, <1>3, <1>6, <2>1, <2>2, <2>3, CleanupDoneFits
<1>8. CASE w.reply # "SUCCEEDED"
  <2>1. lease' = [lease EXCEPT ![l].state = "EXPIRED"] /\ item' = item
    BY <1>5, <1>8 DEF Cleanup, RecordNotRecycled
  <2>2. QED
    BY <1>1, <1>2, <1>4, <1>6, <2>1, CleanupFailedFits
<1>9. QED
  BY <1>7, <1>8

-----------------------------------------------------------------------------
(* Restores.                                                               *)

(* While an item waits or is restored, only that item changes.             *)
LEMMA OpenItemFits ==
    ASSUME IInv, BinInv, EInv, IInv', KeptInBin, NEW i \in OpenIn(item),
           \A m \in Lease \ {i} : item'[m] = item[m],
           ChainFits(lease', now), SavedIn(lease') = SavedIn(lease),
           TipsIn(lease', now) = TipsIn(lease, now),
           \A m \in Lease : lease[m].state = "APPROVED" \/ lease'[m].state = "APPROVED" =>
                               lease'[m] = lease[m],
           UNCHANGED <<now, renewal, op, scan, overtaken>>,
           \A q \in Restore : RestoreFits(q)', RestoringFits'
    PROVE  EInv'
<1>1. TipsIn(lease, now) = {} /\ OpenIn(item) = {i}
  BY OpenItemMeansOver
<1>2. OpenIn(item') \subseteq {i}
  <2>1. \A m \in Lease \ {i} : item'[m] \in {"NONE", "RESTORED"}
    BY <1>1 DEF OpenIn
  <2>2. QED
    BY <2>1 DEF OpenIn
<1>3. OneEnd(lease', item', now')
  BY <1>1, <1>2 DEF OneEnd
<1>4. ASSUME NEW r \in Renewal PROVE RenewalFits(r)'
  <2>1. RenewalFits(r) /\ renewal'[r] = renewal[r]
    BY DEF EInv
  <2>2. renewal'[r].state = "REQUESTED" =>
           /\ renewal'[r].duration > 0
           /\ \A s \in Lease : lease'[s].prev = renewal'[r].lease => lease'[s].state # "APPROVED"
    BY <2>1 DEF RenewalFits
  <2>3. renewal'[r].state = "APPROVED" => renewal'[r].result \in SavedIn(lease')
    BY <2>1 DEF RenewalFits
  <2>4. QED
    BY <2>2, <2>3 DEF RenewalFits, SavedIn
<1>5. \A l \in Lease : OpFits(l)'
  BY DEF EInv, OpFits
<1>6. ScanFits'
  <2>1. scan.lease \in Lease \cup {None}
    BY DEF IInv, TypeOK
  <2>2. \A m \in TipsIn(lease', now') \cup OpenIn(item') :
           lease[m].state = "APPROVED" =>
              lease'[m].state = "APPROVED" /\ lease'[m].prev = lease[m].prev
    BY DEF TipsIn, SavedIn, OpenIn
  <2>3. \A m \in TipsIn(lease', now') \cup OpenIn(item') :
           scan'.lease # None /\ lease[m].state = "APPROVED" /\ lease[m].prev = scan.lease =>
              \/ lease'[m].state = "APPROVED" /\ lease'[m].prev = scan.lease
              \/ scan.lease \in overtaken'
    BY <2>2
  <2>4. scan.lease # None /\ lease[scan.lease].recycled => lease'[scan.lease].recycled
    BY <2>1 DEF KeptInBin
  <2>5. TipsIn(lease', now') \subseteq TipsIn(lease, now) /\ OpenIn(item') \subseteq OpenIn(item)
    BY <1>1, <1>2
  <2>6. QED
    BY <2>3, <2>4, <2>5, ScanKept
<1>7. ChainFits(lease', now')
  OBVIOUS
<1>8. QED
  BY <1>3, <1>4, <1>5, <1>6, <1>7, Assembled

(* The same when no row of the leases changes.                             *)
LEMMA OpenItemFitsQuietly ==
    ASSUME IInv, BinInv, EInv, IInv', NEW i \in OpenIn(item),
           \A m \in Lease \ {i} : item'[m] = item[m],
           UNCHANGED <<now, lease, renewal, op, scan, overtaken>>,
           \A q \in Restore : RestoreFits(q)', RestoringFits'
    PROVE  EInv'
<1>1. KeptInBin
  BY DEF KeptInBin
<1>2. ChainFits(lease', now) /\ SavedIn(lease') = SavedIn(lease)
      /\ TipsIn(lease', now) = TipsIn(lease, now)
  BY DEF EInv
<1>3. \A m \in Lease : lease'[m] = lease[m]
  OBVIOUS
<1>4. QED
  BY <1>1, <1>2, <1>3, OpenItemFits

(* A review or its refusal moves an item that waits.                       *)
LEMMA ReviewFits ==
    ASSUME IInv, BinInv, EInv, IInv', NEW i \in Lease,
           item[i] \in {"RECYCLE_BIN", "RESTORE_PENDING", "FAILED"},
           \A m \in Lease \ {i} : item'[m] = item[m],
           UNCHANGED <<now, lease, renewal, op, restoring, scan, overtaken>>,
           \A q \in Restore : RestoreFits(q)'
    PROVE  EInv'
<1>1. i \in OpenIn(item)
  BY DEF OpenIn
<1>2. RestoringFits'
  BY DEF EInv, RestoringFits, SavedIn
<1>3. QED
  BY <1>1, <1>2, OpenItemFitsQuietly

(* A restore draws an id: its lease will begin now, when all are over.     *)
LEMMA BeginFits ==
    ASSUME IInv, BinInv, EInv, IInv', KeptInBin,
           NEW q \in Restore, NEW i \in OpenIn(item), NEW d \in Nat, d > 0,
           NEW by, BeginRestore(q, i, d, by),
           UNCHANGED <<now, renewal, op, scan, overtaken>>,
           \A p \in Restore : RestoreFits(p)'
    PROVE  EInv'
<1> DEFINE f == FreshLease
<1>1. /\ lease \in [Lease -> LeaseRow] /\ lease' \in [Lease -> LeaseRow] /\ now \in Time
      /\ now \in Nat /\ item \in [Lease -> ItemState] /\ ChainFits(lease, now)
  BY DEF IInv, TypeOK, EInv, Time
<1>2. f \in Lease /\ lease[f].state = "NONE"
  BY FreshLeaseType DEF BeginRestore
<1>3. /\ lease' = [lease EXCEPT ![f] = NewLease("UNSAVED", now, d, None)]
      /\ item' = [item EXCEPT ![i] = "RESTORING"]
      /\ restoring'.lease = f
  BY DEF BeginRestore
<1> HIDE DEF f
<1>4. lease' = WithDrawn(lease, f, now, d)
  BY <1>3 DEF WithDrawn
<1>5. /\ ChainFits(lease', now)
      /\ SavedIn(lease') = SavedIn(lease) /\ TipsIn(lease', now) = TipsIn(lease, now)
  BY <1>1, <1>2, <1>4, Drawn
<1>6. i \in Lease /\ \A m \in SavedIn(lease) : lease[m].expires <= now
  BY OpenItemMeansOver DEF OpenIn
<1>7. \A m \in Lease \ {i} : item'[m] = item[m]
  BY <1>1, <1>3, <1>6
<1>8. /\ lease'[f].state = "UNSAVED" /\ lease'[f].starts = now /\ lease'[f].expires = now + d
  BY <1>1, <1>2, <1>3 DEF NewLease
<1>9. \A m \in Lease \ {f} : lease'[m] = lease[m]
  BY <1>1, <1>2, <1>3
<1>10. \A m \in SavedIn(lease') : lease'[m].expires <= lease'[f].starts
  BY <1>2, <1>5, <1>6, <1>8, <1>9 DEF SavedIn
<1>11. now < now + d
  BY <1>1
<1>12. RestoringFits'
  BY <1>3, <1>8, <1>10, <1>11 DEF RestoringFits, SavedIn
<1>13. \A m \in Lease : lease[m].state = "APPROVED" \/ lease'[m].state = "APPROVED" =>
                           lease'[m] = lease[m]
  BY <1>2, <1>8, <1>9
<1>14. QED
  BY <1>5, <1>7, <1>12, <1>13, OpenItemFits

LEMMA CreateRestoreFits ==
    ASSUME IInv, BinInv, EInv, IInv', KeptInBin,
           NEW q \in Restore, NEW i \in Lease, NEW d \in Durations, CreateRestore(q, i, d)
    PROVE  EInv'
<1>1. /\ item[i] \in {"RECYCLE_BIN", "RESTORE_PENDING", "FAILED"} /\ i \in OpenIn(item)
      /\ item \in [Lease -> ItemState] /\ restore \in [Restore -> RestoreRow]
  BY DEF CreateRestore, Restorable, OpenIn, IInv, TypeOK
<1>2. d \in Nat /\ d > 0
  BY TimeAssumption
<1>3. \A p \in Restore : RestoreFits(p)'
  <2>1. restore'[q].duration = d /\ \A p \in Restore \ {q} : restore'[p] = restore[p]
    BY <1>1 DEF CreateRestore
  <2>2. QED
    BY <1>2, <2>1 DEF EInv, RestoreFits
<1>4. UNCHANGED <<now, renewal, op, scan, overtaken>>
  BY DEF CreateRestore
<1>5. CASE AwaitReview(i)
  <2>1. \A m \in Lease \ {i} : item'[m] = item[m]
    BY <1>1, <1>5 DEF AwaitReview
  <2>2. UNCHANGED <<lease, restoring>>
    BY <1>5 DEF AwaitReview
  <2>3. QED
    BY <1>1, <1>3, <1>4, <2>1, <2>2, ReviewFits
<1>6. CASE BeginRestore(q, i, d, "OWNER")
  BY <1>1, <1>2, <1>3, <1>4, <1>6, BeginFits
<1>7. QED
  BY <1>5, <1>6 DEF CreateRestore

LEMMA ReplayRestoreFits ==
    ASSUME IInv, BinInv, EInv, IInv', NEW q \in Restore, ReplayRestore(q)
    PROVE  EInv'
<1> DEFINE i == restore[q].item
<1>1. /\ i \in Lease /\ item[i] \in {"RECYCLE_BIN", "RESTORE_PENDING", "FAILED"}
      /\ item \in [Lease -> ItemState] /\ AwaitReview(i)
  BY DEF ReplayRestore, Restorable, IInv, TypeOK, RequestsRefer
<1>2. UNCHANGED <<now, lease, renewal, op, restoring, restore, scan, overtaken>>
  BY DEF ReplayRestore, AwaitReview
<1>3. \A p \in Restore : RestoreFits(p)'
  BY <1>2 DEF EInv, RestoreFits
<1> HIDE DEF i
<1>4. \A m \in Lease \ {i} : item'[m] = item[m]
  BY <1>1 DEF AwaitReview
<1>5. QED
  BY <1>1, <1>2, <1>3, <1>4, ReviewFits

LEMMA RejectRestoreFits ==
    ASSUME IInv, BinInv, EInv, IInv', NEW q \in Restore, RejectRestore(q)
    PROVE  EInv'
<1> DEFINE i == restore[q].item
<1>1. /\ i \in Lease /\ item[i] \in {"RECYCLE_BIN", "RESTORE_PENDING", "FAILED"}
      /\ item \in [Lease -> ItemState] /\ restore \in [Restore -> RestoreRow]
      /\ item' = [item EXCEPT ![i] = "RECYCLE_BIN"]
  BY DEF RejectRestore, IInv, TypeOK, RequestsRefer
<1>2. UNCHANGED <<now, lease, renewal, op, restoring, scan, overtaken>>
  BY DEF RejectRestore
<1>3. /\ \A p \in Restore : restore'[p].state # "NONE" => restore[p].state # "NONE"
      /\ \A p \in Restore : restore'[p].duration = restore[p].duration
  BY <1>1 DEF RejectRestore, RestoreRow
<1>4. \A p \in Restore : RestoreFits(p)'
  BY <1>3 DEF EInv, RestoreFits
<1> HIDE DEF i
<1>5. \A m \in Lease \ {i} : item'[m] = item[m]
  BY <1>1
<1>6. QED
  BY <1>1, <1>2, <1>4, <1>5, ReviewFits

LEMMA ApproveRestoreFits ==
    ASSUME IInv, BinInv, EInv, IInv', KeptInBin, NEW q \in Restore, ApproveRestore(q)
    PROVE  EInv'
<1> DEFINE i == restore[q].item
           d == restore[q].duration
<1>1. /\ i \in OpenIn(item) /\ restore \in [Restore -> RestoreRow]
      /\ BeginRestore(q, i, d, "ADMIN")
  BY DEF ApproveRestore, IInv, TypeOK, RequestsRefer, OpenIn
<1>2. d \in Nat /\ d > 0
  BY <1>1 DEF ApproveRestore, EInv, RestoreFits, RestoreRow
<1>3. /\ \A p \in Restore : restore'[p].state # "NONE" => restore[p].state # "NONE"
      /\ \A p \in Restore : restore'[p].duration = restore[p].duration
  BY <1>1 DEF ApproveRestore, RestoreRow
<1>4. \A p \in Restore : RestoreFits(p)'
  BY <1>3 DEF EInv, RestoreFits
<1>5. UNCHANGED <<now, renewal, op, scan, overtaken>>
  BY DEF ApproveRestore
<1> HIDE DEF i, d
<1>6. QED
  BY <1>1, <1>2, <1>4, <1>5, BeginFits

(* The Worker is called, or the process dies: no row changes.              *)
LEMMA RestoreRunFits ==
    ASSUME IInv, BinInv, EInv, IInv', RestoreRun \/ RestoreCrash
    PROVE  EInv'
<1>1. /\ restoring.req # None
      /\ UNCHANGED <<now, lease, renewal, item, restore, op, scan, overtaken>>
  BY DEF RestoreRun, RestoreCrash, rows
<1>2. RestoringItem \in OpenIn(item)
  BY <1>1, RestoringIsOpen
<1>3. \/ restoring'.req = None
      \/ restoring'.req = restoring.req /\ restoring'.lease = restoring.lease
  <2>1. NoRestoring.req = None
    BY DEF NoRestoring
  <2>2. \A x : LET u == [restoring EXCEPT !.reply = x]
               IN  u.req = restoring.req /\ u.lease = restoring.lease
    BY DEF IInv, TypeOK
  <2>3. restoring' = NoRestoring \/ \E x : restoring' = [restoring EXCEPT !.reply = x]
    BY DEF RestoreRun, RestoreCrash
  <2>4. QED
    BY <2>1, <2>2, <2>3
<1>4. RestoringFits'
  BY <1>1, <1>3 DEF EInv, RestoringFits, SavedIn
<1>5. \A q \in Restore : RestoreFits(q)'
  BY <1>1 DEF EInv, RestoreFits
<1>6. QED
  BY <1>1, <1>2, <1>4, <1>5, OpenItemFitsQuietly

(* A restore that fails leaves its item, and the request says so.          *)
LEMMA RestoreFailedFits ==
    ASSUME IInv, BinInv, EInv, IInv', RestoreFinish, NEW rolledBack \in BOOLEAN,
           RestoreFailed(rolledBack)
    PROVE  EInv'
<1> DEFINE i == RestoringItem
           q == restoring.req
<1>1. /\ q # None /\ restoring' = NoRestoring
      /\ UNCHANGED <<now, renewal, op, lease, scan, overtaken>>
      /\ restore' = [restore EXCEPT ![q].state = "FAILED"]
      /\ item' = [item EXCEPT ![i] = IF rolledBack THEN "RECYCLE_BIN" ELSE "FAILED"]
  BY DEF RestoreFinish, RestoreFailed, IInv
<1>2. q \in Restore /\ i \in OpenIn(item) /\ restore[q].state = "RESTORING"
  BY <1>1, RestoringIsOpen
<1> HIDE DEF i, q
<1>3. item \in [Lease -> ItemState] /\ restore \in [Restore -> RestoreRow] /\ i \in Lease
  BY <1>2 DEF IInv, TypeOK, OpenIn
<1>4. \A m \in Lease \ {i} : item'[m] = item[m]
  BY <1>1, <1>3
<1>5. \A p \in Restore : RestoreFits(p)'
  <2>1. /\ \A p \in Restore : restore'[p].state # "NONE" => restore[p].state # "NONE"
        /\ \A p \in Restore : restore'[p].duration = restore[p].duration
    BY <1>1, <1>2, <1>3 DEF RestoreRow
  <2>2. QED
    BY <2>1 DEF EInv, RestoreFits
<1>6. RestoringFits'
  BY <1>1 DEF RestoringFits, NoRestoring
<1>7. QED
  BY <1>1, <1>2, <1>4, <1>5, <1>6, OpenItemFitsQuietly

(* A restore that is recorded: its lease goes on, and no other.            *)
LEMMA RestoreSavedFits ==
    ASSUME IInv, BinInv, EInv, IInv', KeptInBin, RestoreFinish, RestoreSaved
    PROVE  EInv'
<1> DEFINE a == restoring.lease
           i == RestoringItem
<1>1. /\ restoring.req # None /\ restoring' = NoRestoring
      /\ UNCHANGED <<now, renewal, op, scan, overtaken>>
      /\ lease' = [lease EXCEPT ![a].state = "ACTIVE"]
      /\ item' = [item EXCEPT ![i] = "RESTORED"]
      /\ restore' = [restore EXCEPT ![restoring.req].state = "RESTORED"]
  BY DEF RestoreFinish, RestoreSaved
<1>2. /\ lease \in [Lease -> LeaseRow] /\ lease' \in [Lease -> LeaseRow] /\ now \in Time
      /\ item \in [Lease -> ItemState] /\ restore \in [Restore -> RestoreRow]
      /\ ChainFits(lease, now) /\ scan.lease \in Lease \cup {None}
  BY DEF IInv, TypeOK, EInv
<1>3. /\ a \in Lease /\ lease[a].state = "UNSAVED" /\ lease[a].starts < lease[a].expires
      /\ \A m \in SavedIn(lease) : lease[m].expires <= lease[a].starts
      /\ i \in OpenIn(item)
  BY <1>1, RestoringIsOpen DEF EInv, RestoringFits, BinInv
<1> HIDE DEF a, i
<1>4. TipsIn(lease, now) = {} /\ OpenIn(item) = {i} /\ i \in Lease
  BY <1>3, OpenItemMeansOver DEF OpenIn
<1>5. lease' = WithRestored(lease, a)
  BY <1>1 DEF WithRestored
<1>6. /\ ChainFits(lease', now)
      /\ SavedIn(lease') = SavedIn(lease) \cup {a} /\ TipsIn(lease', now) = {a}
  BY <1>2, <1>3, <1>4, <1>5, Restored
<1>7. OpenIn(item') = {}
  <2>1. item'[i] = "RESTORED" /\ \A m \in Lease \ {i} : item'[m] = item[m]
    BY <1>1, <1>2, <1>4
  <2>2. \A m \in Lease \ {i} : item[m] \in {"NONE", "RESTORED"}
    BY <1>4 DEF OpenIn
  <2>3. QED
    BY <2>1, <2>2 DEF OpenIn
<1>8. OneEnd(lease', item', now')
  BY <1>1, <1>6, <1>7 DEF OneEnd
<1>9. /\ \A m \in Lease \ {a} : lease'[m] = lease[m]
      /\ lease'[a].state = "ACTIVE"
  BY <1>1, <1>2, <1>3 DEF LeaseRow
<1>10. \A s \in Lease : lease'[s].state = "APPROVED" => lease'[s] = lease[s]
  BY <1>9
<1>11. ASSUME NEW r \in Renewal PROVE RenewalFits(r)'
  <2>1. RenewalFits(r) /\ renewal'[r] = renewal[r]
    BY <1>1 DEF EInv
  <2>2. renewal'[r].state = "REQUESTED" =>
           /\ renewal'[r].duration > 0
           /\ \A s \in Lease : lease'[s].prev = renewal'[r].lease => lease'[s].state # "APPROVED"
    BY <1>10, <2>1 DEF RenewalFits
  <2>3. renewal'[r].state = "APPROVED" => renewal'[r].result \in SavedIn(lease')
    BY <1>6, <2>1 DEF RenewalFits
  <2>4. QED
    BY <2>2, <2>3 DEF RenewalFits, SavedIn
<1>12. \A q \in Restore : RestoreFits(q)'
  <2>1. /\ \A q \in Restore : restore'[q].state # "NONE" => restore[q].state # "NONE"
        /\ \A q \in Restore : restore'[q].duration = restore[q].duration
    <3>1. restoring.req \in Restore /\ restore[restoring.req].state = "RESTORING"
      BY <1>1, RestoringIsOpen
    <3>2. QED
      BY <1>1, <1>2, <3>1 DEF RestoreRow
  <2>2. QED
    BY <2>1 DEF EInv, RestoreFits
<1>13. \A l \in Lease : OpFits(l)'
  BY <1>1, <1>10 DEF EInv, OpFits
<1>14. RestoringFits'
  BY <1>1 DEF RestoringFits, NoRestoring
<1>15. ScanFits'
  <2>1. CASE scan.lease = None
    BY <1>1, <2>1 DEF ScanFits
  <2>2. CASE scan.lease # None
    <3>1. lease[i].recycled /\ lease[i].state # "APPROVED"
      BY <1>4 DEF OpenIn, IInv, ItemsMatchRecycledLeases, BinInv, BinFits
    <3>2. scan.lease \in overtaken \/ lease[scan.lease].recycled
      BY <1>4, <2>2, <3>1 DEF EInv, ScanFits
    <3>3. scan'.lease \in overtaken' \/ lease'[scan'.lease].recycled
      BY <1>1, <1>2, <2>2, <3>2 DEF KeptInBin
    <3>4. QED
      BY <3>3 DEF ScanFits
  <2>3. QED
    BY <2>1, <2>2
<1>16. ChainFits(lease', now')
  BY <1>1, <1>6
<1>17. QED
  BY <1>8, <1>11, <1>12, <1>13, <1>14, <1>15, <1>16, Assembled

LEMMA RestoreFinishFits ==
    ASSUME IInv, BinInv, EInv, IInv', KeptInBin, RestoreFinish
    PROVE  EInv'
<1>1. CASE RestoreSaved
  BY <1>1, RestoreSavedFits
<1>2. CASE RestoreError \/ RestoreUndone
  <2>1. PICK rolledBack \in BOOLEAN : RestoreFailed(rolledBack)
    BY <1>2 DEF RestoreError, RestoreUndone
  <2>2. QED
    BY <2>1, RestoreFailedFits
<1>3. QED
  BY <1>1, <1>2 DEF RestoreFinish

-----------------------------------------------------------------------------
(* The invariant: the order of the leases, as long as no lease was         *)
(* recycled that had moved on behind the expiry worker.                    *)

OrderInv == OvertakenNotRecycled => EInv

LEMMA InitEInv == Init => EInv
<1> SUFFICES ASSUME Init PROVE EInv
  OBVIOUS
<1>1. /\ FirstLease \in Lease /\ FirstLease # None /\ FirstExpiry \in Nat /\ FirstExpiry > 0
      /\ now = 0
  BY LeaseAssumption, TimeAssumption DEF Init
<1>2. /\ lease[FirstLease].state = "ACTIVE" /\ lease[FirstLease].starts = 0
      /\ lease[FirstLease].expires = FirstExpiry /\ lease[FirstLease].prev = None
      /\ lease[FirstLease].recycled = FALSE
  BY <1>1 DEF Init, NoLease
<1>3. \A l \in Lease \ {FirstLease} :
         lease[l].state = "NONE" /\ lease[l].prev = None /\ lease[l].recycled = FALSE
  BY DEF Init, NoLease
<1>4. \A l \in Lease : lease[l].prev = None /\ lease[l].recycled = FALSE
  BY <1>2, <1>3
<1>5. SavedIn(lease) = {FirstLease}
  BY <1>1, <1>2, <1>3 DEF SavedIn
<1>6. TipsIn(lease, now) = {FirstLease}
  BY <1>1, <1>2, <1>4, <1>5 DEF TipsIn
<1>7. \A l \in Lease : LeaseFits(lease, l, now)
  <2>1. FirstLease \in SavedIn(lease) => lease[FirstLease].starts < lease[FirstLease].expires
    BY <1>1, <1>2
  <2>2. LeaseFits(lease, FirstLease, now)
    BY <1>2, <2>1 DEF LeaseFits
  <2>3. \A l \in Lease \ {FirstLease} : LeaseFits(lease, l, now)
    BY <1>3, <1>5 DEF LeaseFits
  <2>4. QED
    BY <2>2, <2>3
<1>8. \A l, m \in Lease : l # m => Apart(lease, l, m)
  BY <1>4, <1>5 DEF Apart
<1>9. TipIsLast(lease, now)
  BY <1>1, <1>2, <1>5, <1>6 DEF TipIsLast
<1>10. OneEnd(lease, item, now)
  BY <1>6 DEF Init, OneEnd, OpenIn
<1>11. /\ \A r \in Renewal : RenewalFits(r)
       /\ \A q \in Restore : RestoreFits(q)
       /\ \A l \in Lease : OpFits(l)
       /\ RestoringFits /\ ScanFits
  BY DEF Init, RenewalFits, NoRenewal, RestoreFits, NoRestore, OpFits, NoOp,
         RestoringFits, NoRestoring, ScanFits, NoScan
<1>12. QED
  BY <1>7, <1>8, <1>9, <1>10, <1>11 DEF EInv, ChainFits

LEMMA NextEInv ==
    ASSUME NoLag, IInv, BinInv, EInv, IInv', KeptInBin, OvertakenNotRecycled', [Next]_vars
    PROVE  EInv'
<1>1. CASE Tick
  BY <1>1, IdleFits
<1>2. CASE OwnerStep
  <2>1. CASE \E d \in Durations, r \in Renewal, l \in Lease :
                RequestRenewal(d, r, l) \/ AutoRenew(d, r, l) \/ AutoRenewLate(d, r, l)
    BY <2>1, RequestRenewalFits, AutoRenewFits, AutoRenewLateFits
  <2>2. CASE \E q \in Restore : \/ \E i \in Lease, d \in Durations : CreateRestore(q, i, d)
                                \/ ReplayRestore(q)
    BY <2>2, CreateRestoreFits, ReplayRestoreFits
  <2>3. CASE UseLease \/ StartContainer
    BY <2>3, UseFits
  <2>4. CASE StopContainer
    BY <2>4, IdleFits
  <2>5. QED
    BY <1>2, <2>1, <2>2, <2>3, <2>4 DEF OwnerStep
<1>3. CASE AdminStep
  <2>1. CASE DecideCommit
    BY <2>1, DecideCommitFits
  <2>2. CASE (\E r \in Renewal, approve \in BOOLEAN : DecideStart(r, approve)) \/ SetPolicy
    BY <2>2, IdleFits
  <2>3. CASE \E q \in Restore : RejectRestore(q) \/ ApproveRestore(q)
    BY <2>3, RejectRestoreFits, ApproveRestoreFits
  <2>4. CASE \E l \in Lease : RetryRecycle(l)
    BY <2>4, RetryRecycleFits
  <2>5. QED
    BY <1>3, <2>1, <2>2, <2>3, <2>4 DEF AdminStep
<1>4. CASE ScanStep
  <2>1. CASE \E l \in Lease : ScanLook(l) \/ ScanActivate(l) \/ ScanRecycle(l)
    BY <2>1, ScanLookFits, ScanActivateFits, ScanRecycleFits
  <2>2. CASE ScanCancel \/ ScanRead \/ ScanCrash \/ \E l \in Lease : ScanPass(l)
    BY <2>2, IdleFits
  <2>3. QED
    BY <1>4, <2>1, <2>2 DEF ScanStep
<1>5. CASE RestoreStep
  BY <1>5, RestoreRunFits, RestoreFinishFits DEF RestoreStep
<1>6. CASE WorkerStep
  BY <1>6, IdleFits
<1>7. CASE UNCHANGED vars
  BY <1>7, IdleFits
<1>8. QED
  BY <1>1, <1>2, <1>3, <1>4, <1>5, <1>6, <1>7 DEF Next

(* What was overtaken stays so, and a lease in the bin stays there.        *)
LEMMA OvertakenGrows ==
    ASSUME [Next]_vars
    PROVE  overtaken \subseteq overtaken'
<1>1. CASE OwnerStep
  BY <1>1 DEF OwnerStep, RequestRenewal, AutoRenew, AutoRenewLate, CreateRestore, ReplayRestore,
              UseLease, StartContainer, StopContainer, HandsOverLease
<1>2. CASE AdminStep
  BY <1>2 DEF AdminStep, DecideStart, DecideCommit, DecideLate, DecideReject, DecideApprove,
              DecideRefused, DecidesPast, SetPolicy, RejectRestore, ApproveRestore, RetryRecycle
<1>3. CASE ScanStep
  BY <1>3 DEF ScanStep, ScanCancel, ScanRead, ScanLook, ScanActivate, ScanPass, ScanRecycle,
              ScanCrash
<1>4. CASE RestoreStep \/ WorkerStep \/ Tick \/ UNCHANGED vars
  BY <1>4 DEF RestoreStep, RestoreRun, RestoreFinish, RestoreCrash, WorkerStep, ServeLeft, Tick,
              vars
<1>5. QED
  BY <1>1, <1>2, <1>3, <1>4 DEF Next

LEMMA NextOrderInv ==
    ASSUME NoLag, IInv, BinInv, OrderInv, IInv', [Next]_vars
    PROVE  OrderInv'
<1>1. BinInv' /\ \A m \in Lease : lease[m].state = "RECYCLE_BIN" => lease'[m] = lease[m]
  BY NextBin
<1>2. KeptInBin
  BY <1>1 DEF KeptInBin, BinInv, BinFits
<1>3. OvertakenNotRecycled' => OvertakenNotRecycled
  <2>1. overtaken \subseteq overtaken' /\ overtaken \subseteq Lease
    BY OvertakenGrows DEF IInv, TypeOK
  <2>2. QED
    BY <1>2, <2>1 DEF OvertakenNotRecycled, KeptInBin
<1>4. OvertakenNotRecycled' => EInv'
  BY <1>2, <1>3, NextEInv DEF OrderInv
<1>5. QED
  BY <1>4 DEF OrderInv

(* The strengthened invariant holds in every reachable state.              *)
THEOREM EntitlementInvariance ==
    ASSUME NoLag
    PROVE  Spec => []OrderInv
<1>1. Init => OrderInv
  BY InitEInv DEF OrderInv
<1>2. IInv /\ BinInv /\ OrderInv /\ IInv' /\ [Next]_vars => OrderInv'
  BY NextOrderInv
<1>3. QED
  BY <1>1, <1>2, Invariance, BinInvariance, PTL DEF Spec

(* Leases that entitle the owner, now or in the future, never overlap,     *)
(* through renewals, approvals, restores, retries and calls of the Root    *)
(* Worker that are served late, as long as the expiry worker recycled no   *)
(* lease that had moved on while it waited for the lock: a renewal starts  *)
(* where the lease it renews ends, and only the last lease of the owner is *)
(* renewed.                                                                *)
THEOREM EntitlementsNeverOverlap ==
    ASSUME NoLag
    PROVE  Spec => []EntitlementsDisjoint
<1>1. OrderInv => EntitlementsDisjoint
  BY DEF OrderInv, EInv, ChainFits, Apart, EntitlementsDisjoint, EntitlementStates, ActiveStates,
         SavedIn
<1>2. QED
  BY <1>1, EntitlementInvariance, PTL

(* The latest started lease starts no earlier than any other.              *)
LEMMA LatestIsLatest ==
    ASSUME TypeOK, NEW m \in StartedLeases
    PROVE  LatestStarted \in StartedLeases /\ lease[m].starts <= lease[LatestStarted].starts
<1> DEFINE Remaining == {now - lease[l].starts : l \in StartedLeases}
<1>1. \A l \in StartedLeases : lease[l].starts \in Nat /\ now - lease[l].starts \in Nat
  BY TimeAssumption DEF TypeOK, StartedLeases, LeaseRow, Time
<1>2. PICK x \in Remaining : \A y \in Remaining : x <= y
  BY <1>1, LeastNatural
<1>3. PICK l \in StartedLeases : x = now - lease[l].starts
  BY <1>2
<1>4. \A k \in StartedLeases : now - lease[l].starts <= now - lease[k].starts
  BY <1>2, <1>3
<1>5. \A k \in StartedLeases : lease[k].starts <= lease[l].starts
  BY <1>1, <1>4, TimeAssumption DEF TypeOK, Time
<1>6. QED
  BY <1>5 DEF LatestStarted

(* A lease whose window is now entitles the owner, activated or not.       *)
LEMMA WindowEntitles ==
    ASSUME IInv, BinInv, EInv, NEW s \in SavedIn(lease),
           lease[s].starts <= now, now < lease[s].expires
    PROVE  Entitled
<1> DEFINE m == LatestStarted
<1>1. TypeOK /\ s \in Lease /\ now \in Nat /\ None \notin Lease
  BY LeaseAssumption DEF IInv, TypeOK, Time, SavedIn
<1>2. \A l \in Lease : lease[l].starts \in Nat /\ lease[l].expires \in Nat /\ LeaseFits(lease, l, now)
  BY <1>1 DEF TypeOK, LeaseRow, Time, EInv, ChainFits
<1>3. \A l \in StartedLeases : l \in Lease /\ l \in SavedIn(lease) /\ lease[l].starts <= now
  BY DEF StartedLeases, SavedIn, ActiveStates
<1>4. \A l \in StartedLeases : l # s =>
         lease[l].expires <= lease[s].starts \/ lease[s].expires <= lease[l].starts
  BY <1>1, <1>3 DEF EInv, ChainFits, Apart
<1>5. \A l \in StartedLeases : l # s => lease[l].expires <= lease[s].starts
  BY <1>1, <1>2, <1>3, <1>4
<1>6. lease[s].state \in ActiveStates \cup {"APPROVED"}
  <2>1. lease[s].state \notin {"EXPIRED", "RECYCLE_BIN"}
    BY <1>1, <1>2 DEF LeaseFits
  <2>2. lease[s].state \notin {"NONE", "UNSAVED"} /\ lease[s] \in LeaseRow
    BY <1>1 DEF SavedIn, TypeOK
  <2>3. QED
    BY <2>1, <2>2 DEF LeaseRow, DueStates
<1>7. CASE lease[s].state \in ActiveStates
  <2>1. s \in StartedLeases
    BY <1>1, <1>7 DEF StartedLeases
  <2>2. m \in StartedLeases /\ lease[s].starts <= lease[m].starts
    BY <1>1, <2>1, LatestIsLatest
  <2>3. lease[m].starts < lease[m].expires
    BY <1>2, <1>3, <2>2 DEF LeaseFits
  <2>4. m = s
    BY <1>1, <1>2, <1>3, <1>5, <2>2, <2>3
  <2>5. QED
    BY <1>1, <2>1, <2>4 DEF Entitled, EntitledLease
<1>8. CASE lease[s].state = "APPROVED"
  <2> DEFINE p == lease[s].prev
  <2>1. p \in SavedIn(lease) /\ p \in Lease /\ lease[p].expires = lease[s].starts
        /\ lease[p].state \in ActiveStates
    <3>1. /\ p \in SavedIn(lease) /\ lease[p].expires = lease[s].starts
          /\ lease[p].state \in ActiveStates \/ lease[s].expires <= now
      BY <1>1, <1>2, <1>8 DEF LeaseFits
    <3>2. QED
      BY <1>1, <1>2, <3>1 DEF SavedIn
  <2>2. lease[p].starts < lease[p].expires
    BY <1>2, <2>1 DEF LeaseFits
  <2>3. p \in StartedLeases
    BY <1>1, <1>2, <2>1, <2>2 DEF StartedLeases
  <2>4. m \in StartedLeases /\ lease[p].starts <= lease[m].starts
    BY <1>1, <2>3, LatestIsLatest
  <2>5. lease[m].starts < lease[m].expires /\ m # s
    BY <1>2, <1>3, <1>8, <2>4 DEF LeaseFits, StartedLeases, ActiveStates
  <2>6. m = p
    <3>1. m # p => lease[m].expires <= lease[p].starts \/ lease[p].expires <= lease[m].starts
      BY <1>3, <2>1, <2>4 DEF EInv, ChainFits, Apart
    <3>2. lease[m].expires <= lease[s].starts
      BY <1>5, <2>4, <2>5
    <3>3. QED
      BY <1>2, <1>3, <2>1, <2>4, <2>5, <3>1, <3>2
  <2>7. s \in ActivatableSuccessors(m)
    BY <1>1, <1>8, <2>6 DEF ActivatableSuccessors, ApprovedSuccessors, Successors
  <2>8. \A x \in ActivatableSuccessors(m) : x \in Lease
    BY DEF ActivatableSuccessors, ApprovedSuccessors, Successors
  <2>9. StartedLeases # {} /\ m \in Lease
    BY <1>3, <2>4
  <2>10. CASE now < lease[m].expires
    BY <1>1, <2>9, <2>10 DEF Entitled, EntitledLease
  <2>11. CASE ~(now < lease[m].expires)
    BY <1>1, <2>7, <2>8, <2>9, <2>11 DEF Entitled, EntitledLease
  <2>12. QED
    BY <2>10, <2>11
<1>9. QED
  BY <1>6, <1>7, <1>8

(* A renewal that was approved is honoured: from the start of its lease to *)
(* the end the owner is entitled, whoever activates that lease and however *)
(* late.                                                                   *)
THEOREM ApprovedRenewalsEntitle ==
    ASSUME NoLag
    PROVE  Spec => []ApprovedRenewalEntitles
<1>1. IInv /\ BinInv /\ OrderInv => ApprovedRenewalEntitles
  <2> SUFFICES ASSUME IInv, BinInv, EInv, NEW r \in Renewal, renewal[r].state = "APPROVED",
                      lease[renewal[r].result].starts <= now,
                      now < lease[renewal[r].result].expires
               PROVE  Entitled
    BY DEF ApprovedRenewalEntitles, OrderInv
  <2>1. renewal[r].result \in SavedIn(lease)
    BY DEF EInv, RenewalFits
  <2>2. QED
    BY <2>1, WindowEntitles
<1>2. QED
  BY <1>1, Invariance, BinInvariance, EntitlementInvariance, PTL
=============================================================================
