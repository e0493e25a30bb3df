------------------------- MODULE LeaseLifecycleProofs -------------------------
(***************************************************************************)
(* Proofs about LeaseLifecycle, for every value of its constants.          *)
(*                                                                         *)
(* IInv is the inductive invariant: the row types, the invariants that     *)
(* follow from it, and the bonds between rows they rest on.  The lemmas of *)
(* the first part say what the operators on the lease table return; those  *)
(* of the second part that each action preserves IInv.  The last part      *)
(* follows an item through the recycle bin, on the host and in the tables. *)
(***************************************************************************)
EXTENDS LeaseLifecycle, WellFoundedInduction, TLAPS

Assumptions == LeaseAssumption /\ TimeAssumption /\ RetryAssumption /\ BoundAssumption

-----------------------------------------------------------------------------
(* What the operators on the lease table return.                           *)

(* A nonempty set of naturals has a least element.                         *)
LEMMA LeastNatural ==
    ASSUME NEW T \in SUBSET Nat, T # {}
    PROVE  \E x \in T : \A y \in T : x <= y
<1> DEFINE Below == OpToRel(<, Nat)
<1>1. \E x \in T : \A y \in T : ~(<<y, x>> \in Below)
  BY WFMin, NatLessThanWellFounded
<1>2. \A x, y \in Nat : <<y, x>> \in Below <=> y < x
  BY DEF OpToRel
<1>3. HIDE DEF Below
<1>4. PICK x \in T : \A y \in T : ~(<<y, x>> \in Below)
  BY <1>1
<1>5. \A y \in T : y \in Nat /\ x \in Nat /\ ~(y < x)
  BY <1>2, <1>4
<1>6. \A y \in T : x <= y
  BY <1>5
<1>7. QED BY <1>6

(* Among the leases that have started there is a latest one.               *)
LEMMA LatestStartedType ==
    ASSUME TypeOK, StartedLeases # {}
    PROVE  LatestStarted \in StartedLeases
<1> DEFINE Remaining == {now - lease[l].starts : l \in StartedLeases}
<1>1. \A l \in StartedLeases : lease[l].starts \in Nat /\ now - lease[l].starts \in Nat
  BY TimeAssumption DEF TypeOK, StartedLeases, LeaseRow, Time
<1>2. PICK x \in Remaining : \A y \in Remaining : x <= y
  BY <1>1, LeastNatural
<1>3. PICK l \in StartedLeases : x = now - lease[l].starts
  BY <1>2
<1>4. \A m \in StartedLeases : now - lease[l].starts <= now - lease[m].starts
  BY <1>2, <1>3
<1>5. \A m \in StartedLeases : lease[m].starts <= lease[l].starts
  BY <1>1, <1>4, TimeAssumption DEF TypeOK, Time
<1>6. QED BY <1>5 DEF LatestStarted

(* The entitling lease is a lease, started or an approved successor.       *)
LEMMA EntitledLeaseType ==
    ASSUME TypeOK, Entitled
    PROVE  /\ LatestStarted \in StartedLeases
           /\ EntitledLease \in StartedLeases \cup ApprovedSuccessors(LatestStarted)
           /\ EntitledLease \in Lease
<1>1. StartedLeases # {}
  BY DEF Entitled, EntitledLease
<1>2. LatestStarted \in StartedLeases
  BY <1>1, LatestStartedType
<1>3. EntitledLease \in StartedLeases \cup ApprovedSuccessors(LatestStarted)
  BY <1>1, <1>2 DEF Entitled, EntitledLease, ActivatableSuccessors
<1>4. QED
  BY <1>2, <1>3 DEF StartedLeases, ApprovedSuccessors, Successors

(* A change of the lease table that keeps every recycled_at and removes no *)
(* row.                                                                    *)
KeepsRecycled(old, new) ==
    \A l \in Lease :
        /\ new[l].recycled = old[l].recycled
        /\ new[l].state = "NONE" => old[l].state = "NONE"

LeaseStates == DueStates \cup {"NONE", "UNSAVED", "APPROVED", "RECYCLE_BIN"}

(* A lease moves to another state and stays the row it is.                 *)
LEMMA SetStateType ==
    ASSUME NEW table \in [Lease -> LeaseRow], NEW x \in Lease, NEW s \in LeaseStates,
           s = "NONE" => table[x].state = "NONE"
    PROVE  LET new == [table EXCEPT ![x].state = s]
           IN  /\ new \in [Lease -> LeaseRow]
               /\ \A l \in Lease : /\ new[l].recycled = table[l].recycled
                                   /\ new[l].expires = table[l].expires
                                   /\ new[l].state = "NONE" => table[l].state = "NONE"
BY DEF LeaseRow, LeaseStates

LEMMA AfterEnsureType ==
    ASSUME TypeOK
    PROVE  /\ AfterEnsure \in [Lease -> LeaseRow]
           /\ KeepsRecycled(lease, AfterEnsure)
           /\ \A l \in Lease : AfterEnsure[l].expires = lease[l].expires
<1>1. lease \in [Lease -> LeaseRow]
  BY DEF TypeOK
<1>2. CASE Entitled /\ EntitledLease \notin StartedLeases
  <2>1. LatestStarted \in Lease /\ lease[LatestStarted].state # "NONE"
    BY <1>2, EntitledLeaseType DEF StartedLeases, ActiveStates
  <2>2. EntitledLease \in Lease /\ lease[EntitledLease].state # "NONE"
    BY <1>2, EntitledLeaseType DEF ApprovedSuccessors, Successors
  <2>3. AfterEnsure = [lease EXCEPT ![LatestStarted].state = "EXPIRED",
                                    ![EntitledLease].state = "ACTIVE"]
    BY <1>2 DEF AfterEnsure
  <2>4. QED
    BY <1>1, <2>1, <2>2, <2>3 DEF LeaseRow, DueStates, ActiveStates, KeepsRecycled
<1>3. CASE ~(Entitled /\ EntitledLease \notin StartedLeases)
  BY <1>1, <1>3 DEF AfterEnsure, KeepsRecycled
<1>4. QED BY <1>2, <1>3

(* The id drawn for a new lease is unused.                                 *)
LEMMA FreshLeaseType ==
    ASSUME UnusedLeases # {}
    PROVE  FreshLease \in Lease /\ lease[FreshLease].state = "NONE"
BY DEF FreshLease, UnusedLeases

(* An approved successor keeps the table well typed and every stamp.       *)
LEMMA GrantType ==
    ASSUME TypeOK, UnusedNotRecycled,
           NEW table \in [Lease -> LeaseRow], KeepsRecycled(lease, table),
           \A m \in Lease : table[m].expires = lease[m].expires,
           NEW l \in Lease, NEW d \in Nat, CanGrant(l, d)
    PROVE  /\ Grant(table, l, d) \in [Lease -> LeaseRow]
           /\ KeepsRecycled(lease, Grant(table, l, d))
           /\ FreshLease \in Lease
<1>1. FreshLease \in Lease /\ lease[FreshLease].state = "NONE"
  BY FreshLeaseType DEF CanGrant
<1>2. table[l].expires \in Time /\ table[l].expires + d \in Time
  BY TimeAssumption DEF CanGrant, LeaseRow, Time
<1>3. NewLease("APPROVED", table[l].expires, d, l) \in LeaseRow
  BY <1>2 DEF NewLease, LeaseRow
<1>4. Grant(table, l, d) \in [Lease -> LeaseRow]
  BY <1>1, <1>3 DEF Grant, LeaseRow, DueStates, ActiveStates
<1>5. \A m \in Lease \ {FreshLease} :
         /\ Grant(table, l, d)[m].recycled = table[m].recycled
         /\ Grant(table, l, d)[m].state = "NONE" => table[m].state = "NONE"
  BY <1>1 DEF Grant, LeaseRow
<1>6. ~Grant(table, l, d)[FreshLease].recycled
  BY <1>1, <1>3 DEF Grant, NewLease, LeaseRow
<1>7. Grant(table, l, d)[FreshLease].state # "NONE"
  BY <1>1, <1>3 DEF Grant, NewLease, LeaseRow
<1>8. ~lease[FreshLease].recycled /\ lease[FreshLease].recycled \in BOOLEAN
  BY <1>1 DEF TypeOK, LeaseRow, UnusedNotRecycled, UnusedLeases
<1>9. Grant(table, l, d)[FreshLease].recycled = lease[FreshLease].recycled
  BY <1>1, <1>4, <1>6, <1>8 DEF LeaseRow
<1>10. QED
  BY <1>1, <1>4, <1>5, <1>7, <1>9 DEF KeepsRecycled

-----------------------------------------------------------------------------
(* Each action preserves the invariant.                                    *)

(* What follows for the recycled stamps and the items when the table only  *)
(* changes as KeepsRecycled says.                                          *)
LEMMA ItemsKept ==
    ASSUME IInv, KeepsRecycled(lease, lease'), UNCHANGED item
    PROVE  ItemsMatchRecycledLeases' /\ UnusedNotRecycled'
BY DEF IInv, KeepsRecycled, ItemsMatchRecycledLeases, UnusedNotRecycled, UnusedLeases

LEMMA RequestRenewalPreserves ==
    ASSUME IInv, NEW d \in Durations, NEW r \in Renewal, NEW l \in Lease,
           RequestRenewal(d, r, l)
    PROVE  IInv'
<1>1. d \in Nat
  BY TimeAssumption
<1>2. TypeOK /\ EntitledLease \in Lease
  BY EntitledLeaseType DEF IInv, RequestRenewal, RenewalRequest
<1>3. lease' \in [Lease -> LeaseRow] /\ KeepsRecycled(lease, lease')
  <2>1. lease' = [AfterEnsure EXCEPT ![EntitledLease].state = "RENEWAL_PENDING"]
    BY DEF RequestRenewal
  <2>2. "RENEWAL_PENDING" \in LeaseStates
    BY DEF LeaseStates, DueStates, ActiveStates
  <2>3. QED
    BY <1>2, <2>1, <2>2, AfterEnsureType, SetStateType DEF KeepsRecycled
<1>4. TypeOK'
  <2>1. renewal' \in [Renewal -> RenewalRow]
    BY <1>1, <1>2 DEF TypeOK, RequestRenewal, NoRenewal, RenewalRow
  <2>2. QED
    BY <1>2, <1>3, <2>1 DEF TypeOK, RequestRenewal, HandsOverLease
<1>5. OneOpenRenewal'
  BY DEF IInv, TypeOK, RequestRenewal, RenewalRequest, OneOpenRenewal, OpenRenewals,
         RenewalRow, NoRenewal
<1>6. ItemsMatchRecycledLeases' /\ UnusedNotRecycled'
  BY <1>3, ItemsKept DEF RequestRenewal
<1>7. RequestsRefer'
  BY DEF IInv, TypeOK, RequestRenewal, RenewalRequest, RequestsRefer, NoRenewal, RenewalRow
<1>8. ReviewedRestoresWaitForAdmin' /\ AttemptsCounted' /\ RestoreHoldsItsItem'
  BY DEF IInv, RequestRenewal, ReviewedRestoresWaitForAdmin, AttemptsCounted,
         RestoreHoldsItsItem, RestoringItem
<1>9. QED
  BY <1>4, <1>5, <1>6, <1>7, <1>8 DEF IInv

(* A change of the renewal table that opens no request and removes no row. *)
ClosesRenewals(old, new) ==
    \A r \in Renewal :
        /\ new[r].state = "REQUESTED" => old[r].state = "REQUESTED"
        /\ new[r].state # "NONE" => new[r].lease \in Lease
        /\ old[r].state # "NONE" => new[r].state # "NONE"

LEMMA RenewalsKept ==
    ASSUME IInv, ClosesRenewals(renewal, renewal'),
           UNCHANGED restore, UNCHANGED decision \/ decision' = NoDecision
    PROVE  OneOpenRenewal' /\ RequestsRefer'
<1>1. OneOpenRenewal'
  BY DEF IInv, OneOpenRenewal, OpenRenewals, ClosesRenewals
<1>2. \A r \in Renewal : renewal'[r].state # "NONE" => renewal'[r].lease \in Lease
  BY DEF ClosesRenewals
<1>3. decision'.req # None => renewal'[decision'.req].state # "NONE"
  BY DEF IInv, TypeOK, RequestsRefer, ClosesRenewals, NoDecision
<1>4. \A q \in Restore : restore'[q].state # "NONE" => restore'[q].item \in Lease
  BY DEF IInv, RequestsRefer
<1>5. QED
  BY <1>1, <1>2, <1>3, <1>4 DEF RequestsRefer

LEMMA AutoRenewPreserves ==
    ASSUME IInv, NEW d \in Durations, NEW r \in Renewal, NEW l \in Lease,
           AutoRenew(d, r, l)
    PROVE  IInv'
<1> DEFINE table == [AfterEnsure EXCEPT ![EntitledLease].state = "RENEWAL_PENDING"]
<1>1. TypeOK /\ UnusedNotRecycled /\ EntitledLease \in Lease /\ d \in Nat
  BY EntitledLeaseType, TimeAssumption DEF IInv, AutoRenew, RenewalRequest
<1>2. "RENEWAL_PENDING" \in LeaseStates
  BY DEF LeaseStates, DueStates, ActiveStates
<1>3. /\ table \in [Lease -> LeaseRow]
      /\ KeepsRecycled(lease, table)
      /\ \A m \in Lease : table[m].expires = lease[m].expires
  BY <1>1, <1>2, AfterEnsureType, SetStateType DEF KeepsRecycled
<1>4. lease' = Grant(table, l, d) /\ CanGrant(l, d)
  BY DEF AutoRenew
<1>5. lease' \in [Lease -> LeaseRow] /\ KeepsRecycled(lease, lease') /\ FreshLease \in Lease
  <2> HIDE DEF table
  <2> QED BY <1>1, <1>3, <1>4, GrantType
<1>6. renewal' \in [Renewal -> RenewalRow] /\ ClosesRenewals(renewal, renewal')
  BY <1>1, <1>5 DEF IInv, TypeOK, AutoRenew, RenewalRow, ClosesRenewals, RequestsRefer
<1>7. TypeOK'
  BY <1>1, <1>5, <1>6 DEF TypeOK, AutoRenew, HandsOverLease
<1>8. OneOpenRenewal' /\ RequestsRefer'
  BY <1>6, RenewalsKept DEF AutoRenew
<1>9. ItemsMatchRecycledLeases' /\ UnusedNotRecycled'
  BY <1>5, ItemsKept DEF AutoRenew
<1>10. ReviewedRestoresWaitForAdmin' /\ AttemptsCounted' /\ RestoreHoldsItsItem'
  BY DEF IInv, AutoRenew, ReviewedRestoresWaitForAdmin, AttemptsCounted,
         RestoreHoldsItsItem, RestoringItem
<1>11. QED
  BY <1>7, <1>8, <1>9, <1>10 DEF IInv

LEMMA AutoRenewLatePreserves ==
    ASSUME IInv, NEW d \in Durations, NEW r \in Renewal, NEW l \in Lease,
           AutoRenewLate(d, r, l)
    PROVE  IInv'
<1> DEFINE table == [AfterEnsure EXCEPT ![EntitledLease].state = "RENEWAL_PENDING"]
           s == IF table[l].state \in ActiveStates THEN "EXPIRED" ELSE table[l].state
<1>1. TypeOK /\ EntitledLease \in Lease /\ d \in Nat
  BY EntitledLeaseType, TimeAssumption DEF IInv, AutoRenewLate, RenewalRequest
<1>2. "RENEWAL_PENDING" \in LeaseStates
  BY DEF LeaseStates, DueStates, ActiveStates
<1>3. table \in [Lease -> LeaseRow] /\ KeepsRecycled(lease, table)
  BY <1>1, <1>2, AfterEnsureType, SetStateType DEF KeepsRecycled
<1>4. lease' = [table EXCEPT ![l].state = s]
  BY DEF AutoRenewLate
<1>5. s \in LeaseStates /\ (s = "NONE" => table[l].state = "NONE")
  <2> HIDE DEF table
  <2> QED BY <1>3 DEF LeaseRow, LeaseStates, DueStates
<1>6. lease' \in [Lease -> LeaseRow] /\ KeepsRecycled(lease, lease')
  <2> HIDE DEF table, s
  <2> QED BY <1>3, <1>4, <1>5, SetStateType DEF KeepsRecycled
<1>7. renewal' \in [Renewal -> RenewalRow] /\ ClosesRenewals(renewal, renewal')
  BY <1>1 DEF IInv, TypeOK, AutoRenewLate, RenewalRow, NoRenewal, ClosesRenewals,
              RequestsRefer
<1>8. now' \in Time
  BY <1>1, TimeAssumption DEF TypeOK, Time, AutoRenewLate, ClockAdvances
<1>9. TypeOK'
  BY <1>1, <1>6, <1>7, <1>8 DEF TypeOK, AutoRenewLate, HandsOverLease
<1>10. OneOpenRenewal' /\ RequestsRefer'
  BY <1>7, RenewalsKept DEF AutoRenewLate
<1>11. ItemsMatchRecycledLeases' /\ UnusedNotRecycled'
  BY <1>6, ItemsKept DEF AutoRenewLate
<1>12. ReviewedRestoresWaitForAdmin' /\ AttemptsCounted' /\ RestoreHoldsItsItem'
  BY DEF IInv, AutoRenewLate, ReviewedRestoresWaitForAdmin, AttemptsCounted,
         RestoreHoldsItsItem, RestoringItem
<1>13. QED
  BY <1>9, <1>10, <1>11, <1>12 DEF IInv

LEMMA DecideStartPreserves ==
    ASSUME IInv, NEW r \in Renewal, NEW approve \in BOOLEAN, DecideStart(r, approve)
    PROVE  IInv'
<1>1. TypeOK'
  BY DEF IInv, TypeOK, DecideStart, rows
<1>2. RequestsRefer'
  BY DEF IInv, DecideStart, RequestsRefer, rows
<1>3. /\ OneOpenRenewal' /\ ItemsMatchRecycledLeases' /\ UnusedNotRecycled'
      /\ ReviewedRestoresWaitForAdmin' /\ AttemptsCounted' /\ RestoreHoldsItsItem'
  BY DEF IInv, DecideStart, rows, OneOpenRenewal, OpenRenewals, ItemsMatchRecycledLeases,
         UnusedNotRecycled, UnusedLeases, ReviewedRestoresWaitForAdmin, AttemptsCounted,
         RestoreHoldsItsItem, RestoringItem
<1>4. QED
  BY <1>1, <1>2, <1>3 DEF IInv

(* What an administrator's decision, whatever it is, does to the rows.     *)
LEMMA DecisionOutcome ==
    ASSUME IInv, NEW r \in Renewal, NEW l \in Lease, l = renewal[r].lease,
           renewal[r].state # "NONE",
           \/ DecideLate(r, l) \/ DecideReject(r, l) \/ DecideApprove(r, l)
           \/ DecideRefused(r, l),
           renewal[r].state = "REQUESTED" \/ DecideRefused(r, l)
    PROVE  /\ lease' \in [Lease -> LeaseRow] /\ KeepsRecycled(lease, lease')
           /\ renewal' \in [Renewal -> RenewalRow] /\ ClosesRenewals(renewal, renewal')
           /\ l \in Lease => overtaken' \in SUBSET Lease
<1>1. /\ lease \in [Lease -> LeaseRow] /\ renewal \in [Renewal -> RenewalRow]
      /\ overtaken \in SUBSET Lease
  BY DEF IInv, TypeOK
<1> l \in Lease => overtaken' \in SUBSET Lease
  BY <1>1 DEF DecideLate, DecideReject, DecideApprove, DecideRefused, DecidesPast
<1>2. \A s \in Renewal : renewal[s].state # "NONE" => renewal[s].lease \in Lease
  BY DEF IInv, RequestsRefer
<1>3. CASE DecideLate(r, l)
  <2> DEFINE s == IF lease[l].state \in ActiveStates THEN "EXPIRED" ELSE lease[l].state
  <2>1. lease' = [lease EXCEPT ![l].state = s]
    BY <1>3 DEF DecideLate
  <2>2. s \in LeaseStates /\ (s = "NONE" => lease[l].state = "NONE")
    BY <1>1 DEF LeaseRow, LeaseStates, DueStates
  <2>3. lease' \in [Lease -> LeaseRow] /\ KeepsRecycled(lease, lease')
    <3> HIDE DEF s
    <3> QED BY <1>1, <2>1, <2>2, SetStateType DEF KeepsRecycled
  <2>4. renewal' \in [Renewal -> RenewalRow] /\ ClosesRenewals(renewal, renewal')
    BY <1>1, <1>2, <1>3 DEF DecideLate, RenewalRow, ClosesRenewals
  <2>5. QED BY <2>3, <2>4
<1>4. CASE DecideReject(r, l)
  <2>1. "RENEWAL_WINDOW" \in LeaseStates
    BY DEF LeaseStates, DueStates, ActiveStates
  <2>2. lease' \in [Lease -> LeaseRow] /\ KeepsRecycled(lease, lease')
    BY <1>1, <1>4, <2>1, SetStateType DEF KeepsRecycled, DecideReject
  <2>3. renewal' \in [Renewal -> RenewalRow] /\ ClosesRenewals(renewal, renewal')
    BY <1>1, <1>2, <1>4 DEF DecideReject, RenewalRow, ClosesRenewals
  <2>4. QED BY <2>2, <2>3
<1>5. CASE DecideApprove(r, l)
  <2>1. TypeOK /\ UnusedNotRecycled /\ renewal[r].duration \in Nat
    BY DEF IInv, TypeOK, RenewalRow
  <2>2. KeepsRecycled(lease, lease)
    BY DEF KeepsRecycled
  <2>3. lease' = Grant(lease, l, renewal[r].duration) /\ CanGrant(l, renewal[r].duration)
    BY <1>5 DEF DecideApprove
  <2>4. lease' \in [Lease -> LeaseRow] /\ KeepsRecycled(lease, lease') /\ FreshLease \in Lease
    BY <1>1, <2>1, <2>2, <2>3, GrantType
  <2>5. renewal' \in [Renewal -> RenewalRow] /\ ClosesRenewals(renewal, renewal')
    BY <1>1, <1>2, <1>5, <2>4 DEF DecideApprove, RenewalRow, ClosesRenewals
  <2>6. QED BY <2>4, <2>5
<1>6. CASE DecideRefused(r, l)
  BY <1>1, <1>2, <1>6 DEF DecideRefused, KeepsRecycled, ClosesRenewals
<1>7. QED
  BY <1>3, <1>4, <1>5, <1>6

LEMMA DecideCommitPreserves ==
    ASSUME IInv, DecideCommit
    PROVE  IInv'
<1> DEFINE r == decision.req
           l == renewal[r].lease
<1>1. r \in Renewal /\ renewal[r].state # "NONE" /\ l \in Lease
  BY DEF IInv, TypeOK, RequestsRefer, DecideCommit
<1>2. /\ lease' \in [Lease -> LeaseRow] /\ KeepsRecycled(lease, lease')
      /\ renewal' \in [Renewal -> RenewalRow] /\ ClosesRenewals(renewal, renewal')
      /\ overtaken' \in SUBSET Lease
  BY <1>1, DecisionOutcome DEF DecideCommit
<1>3. TypeOK'
  BY <1>2, TimeAssumption DEF IInv, TypeOK, DecideCommit, NoDecision, Time
<1>4. OneOpenRenewal' /\ RequestsRefer'
  BY <1>2, RenewalsKept DEF DecideCommit
<1>5. ItemsMatchRecycledLeases' /\ UnusedNotRecycled'
  BY <1>2, ItemsKept DEF DecideCommit
<1>6. ReviewedRestoresWaitForAdmin' /\ AttemptsCounted' /\ RestoreHoldsItsItem'
  BY DEF IInv, DecideCommit, ReviewedRestoresWaitForAdmin, AttemptsCounted,
         RestoreHoldsItsItem, RestoringItem
<1>7. QED
  BY <1>3, <1>4, <1>5, <1>6 DEF IInv

LEMMA SetPolicyPreserves ==
    ASSUME IInv, SetPolicy
    PROVE  IInv'
<1>1. TypeOK'
  BY DEF IInv, TypeOK, SetPolicy, OwnerRow
<1>2. QED
  BY <1>1 DEF IInv, SetPolicy, OneOpenRenewal, OpenRenewals, ItemsMatchRecycledLeases,
         UnusedNotRecycled, UnusedLeases, ReviewedRestoresWaitForAdmin, AttemptsCounted,
         RestoreHoldsItsItem, RestoringItem, RequestsRefer

(* Steps that only move the clock, the scan or the host.                   *)
LEMMA RowsUnchangedPreserves ==
    ASSUME IInv, TypeOK', UNCHANGED <<rows, decision>>,
           UNCHANGED restoring \/ restoring' = NoRestoring
    PROVE  IInv'
BY DEF IInv, rows, OneOpenRenewal, OpenRenewals, ItemsMatchRecycledLeases, UnusedNotRecycled,
       UnusedLeases, ReviewedRestoresWaitForAdmin, AttemptsCounted, RestoreHoldsItsItem,
       RestoringItem, RequestsRefer, NoRestoring

LEMMA TickPreserves ==
    ASSUME IInv, Tick
    PROVE  IInv'
<1>1. TypeOK'
  BY TimeAssumption DEF IInv, TypeOK, Tick, ClockAdvances, Time, rows
<1>2. QED
  BY <1>1, RowsUnchangedPreserves DEF Tick, rows

LEMMA ScanCancelPreserves ==
    ASSUME IInv, ScanCancel
    PROVE  IInv'
<1>1. renewal' \in [Renewal -> RenewalRow] /\ ClosesRenewals(renewal, renewal')
  BY DEF IInv, TypeOK, ScanCancel, RenewalRow, ClosesRenewals, RequestsRefer
<1>2. TypeOK'
  BY <1>1 DEF IInv, TypeOK, ScanCancel, NoScan
<1>3. OneOpenRenewal' /\ RequestsRefer'
  BY <1>1, RenewalsKept DEF ScanCancel
<1>4. KeepsRecycled(lease, lease')
  BY DEF ScanCancel, KeepsRecycled
<1>5. ItemsMatchRecycledLeases' /\ UnusedNotRecycled'
  BY <1>4, ItemsKept DEF ScanCancel
<1>6. ReviewedRestoresWaitForAdmin' /\ AttemptsCounted' /\ RestoreHoldsItsItem'
  BY DEF IInv, ScanCancel, ReviewedRestoresWaitForAdmin, AttemptsCounted,
         RestoreHoldsItsItem, RestoringItem
<1>7. QED
  BY <1>2, <1>3, <1>5, <1>6 DEF IInv

LEMMA ScanReadPreserves ==
    ASSUME IInv, ScanRead
    PROVE  IInv'
<1>1. scan' \in [pc : {"IDLE", "READ", "RUN"}, due : SUBSET Lease,
                 lease : Lease \cup {None}]
  BY DEF ScanRead, NoScan
<1>2. TypeOK'
  BY <1>1 DEF IInv, TypeOK, ScanRead, rows
<1>3. QED
  BY <1>2, RowsUnchangedPreserves DEF ScanRead, rows

LEMMA ScanAdvanceType ==
    ASSUME TypeOK, NEW l \in Lease, ScanAdvance(l)
    PROVE  scan' \in [pc : {"IDLE", "READ", "RUN"}, due : SUBSET Lease,
                      lease : Lease \cup {None}]
BY DEF TypeOK, ScanAdvance, NoScan

LEMMA ScanLookPreserves ==
    ASSUME IInv, NEW l \in Lease, ScanLook(l)
    PROVE  IInv'
<1>1. TypeOK'
  BY DEF IInv, TypeOK, ScanLook, rows
<1>2. QED
  BY <1>1, RowsUnchangedPreserves DEF ScanLook, rows

LEMMA ScanPassPreserves ==
    ASSUME IInv, NEW l \in Lease, ScanPass(l)
    PROVE  IInv'
<1>1. TypeOK'
  BY ScanAdvanceType DEF IInv, TypeOK, ScanPass, rows
<1>2. QED
  BY <1>1, RowsUnchangedPreserves DEF ScanPass, rows

LEMMA ScanActivatePreserves ==
    ASSUME IInv, NEW l \in Lease, ScanActivate(l)
    PROVE  IInv'
<1>1. PICK s \in LiveSuccessors(l) :
         lease' = [lease EXCEPT ![l].state = "EXPIRED", ![s].state = "ACTIVE"]
  BY DEF ScanActivate
<1>2. s \in Lease
  BY <1>1 DEF LiveSuccessors, ApprovedSuccessors, Successors
<1>3. lease' \in [Lease -> LeaseRow] /\ KeepsRecycled(lease, lease')
  <2> DEFINE closed == [lease EXCEPT ![l].state = "EXPIRED"]
  <2>1. "EXPIRED" \in LeaseStates /\ "ACTIVE" \in LeaseStates
    BY DEF LeaseStates, DueStates, ActiveStates
  <2>2. lease \in [Lease -> LeaseRow]
    BY DEF IInv, TypeOK
  <2>3. /\ closed \in [Lease -> LeaseRow]
        /\ \A m \in Lease : closed[m].recycled = lease[m].recycled
        /\ \A m \in Lease : closed[m].state = "NONE" => lease[m].state = "NONE"
    BY <2>1, <2>2, SetStateType DEF KeepsRecycled
  <2>4. lease' = [closed EXCEPT ![s].state = "ACTIVE"]
    BY <1>1
  <2> HIDE DEF closed
  <2>5. lease' \in [Lease -> LeaseRow] /\ KeepsRecycled(closed, lease')
    BY <1>2, <2>1, <2>3, <2>4, SetStateType DEF KeepsRecycled
  <2>6. QED
    BY <2>3, <2>5 DEF KeepsRecycled
<1>4. TypeOK'
  BY <1>3, ScanAdvanceType DEF IInv, TypeOK, ScanActivate
<1>5. ItemsMatchRecycledLeases' /\ UnusedNotRecycled'
  BY <1>3, ItemsKept DEF ScanActivate
<1>6. /\ OneOpenRenewal' /\ RequestsRefer' /\ ReviewedRestoresWaitForAdmin'
      /\ AttemptsCounted' /\ RestoreHoldsItsItem'
  BY DEF IInv, ScanActivate, OneOpenRenewal, OpenRenewals, RequestsRefer,
         ReviewedRestoresWaitForAdmin, AttemptsCounted, RestoreHoldsItsItem, RestoringItem
<1>7. QED
  BY <1>4, <1>5, <1>6 DEF IInv

-----------------------------------------------------------------------------
(* The Root Worker leaves a well typed host and answers in the vocabulary  *)
(* of its handler.                                                         *)
HostOutcomes(replies) == [host : HostStates(Lease), reply : replies]

LEMMA OutcomeType ==
    ASSUME NEW R, NEW h \in HostStates(Lease), NEW r \in R
    PROVE  /\ Outcome(h, r) \in HostOutcomes(R)
           /\ Outcome(h, r).host = h
BY DEF Outcome, HostOutcomes

LEMMA HostChanges ==
    ASSUME NEW h \in HostStates(Lease)
    PROVE  /\ [h EXCEPT !.keys = "SUSPENDED"] \in HostStates(Lease)
           /\ [h EXCEPT !.keys = "SUSPENDED", !.running = FALSE] \in HostStates(Lease)
           /\ [h EXCEPT !.status = "RECYCLED"] \in HostStates(Lease)
           /\ [h EXCEPT !.running = TRUE] \in HostStates(Lease)
           /\ [h EXCEPT !.running = FALSE] \in HostStates(Lease)
           /\ \A l \in Lease :
                 /\ [h EXCEPT !.lease = l, !.status = "RECYCLED"] \in HostStates(Lease)
                 /\ [h EXCEPT !.lease = l, !.running = TRUE] \in HostStates(Lease)
                 /\ [lease |-> l, status |-> "ACTIVE", keys |-> "INSTALLED",
                     running |-> TRUE] \in HostStates(Lease)
BY DEF HostStates

LEMMA RecycleOutcomes ==
    ASSUME TypeOK, NEW l \in Lease
    PROVE  RecycleReplies(host, l) \cup RecycleFaults(host)
             \subseteq HostOutcomes({"SUCCEEDED", "RETRYABLE", "REVIEW", "LOST"})
<1> DEFINE R == {"SUCCEEDED", "RETRYABLE", "REVIEW", "LOST"}
           suspended == [host EXCEPT !.keys = "SUSPENDED"]
           stopped == [host EXCEPT !.keys = "SUSPENDED", !.running = FALSE]
           recycled == [stopped EXCEPT !.status = "RECYCLED"]
<1>1. host \in HostStates(Lease)
  BY DEF TypeOK
<1>2. suspended \in HostStates(Lease) /\ stopped \in HostStates(Lease)
  BY <1>1, HostChanges
<1>3. recycled \in HostStates(Lease)
  <2> HIDE DEF stopped
  <2> QED BY <1>2, HostChanges
<1>4. RecycleReplies(host, l) \in {{Outcome(recycled, "SUCCEEDED")}, {Outcome(stopped, "RETRYABLE")}}
  BY DEF RecycleReplies
<1> HIDE DEF suspended, stopped, recycled
<1>5. RecycleReplies(host, l) \subseteq HostOutcomes(R)
  BY <1>2, <1>3, <1>4, OutcomeType
<1>6. RecycleFaults(host)
        = {Outcome(host, "REVIEW"), Outcome(host, "LOST"), Outcome(suspended, "RETRYABLE")}
  BY DEF RecycleFaults, suspended
<1>7. QED
  BY <1>1, <1>2, <1>5, <1>6, OutcomeType

LEMMA RestoreOutcomes ==
    ASSUME TypeOK, NEW a \in Lease, NEW r, NEW current
    PROVE  RestoreReplies(host, a, r, current) \cup RestoreFaults(host, r, current)
             \subseteq HostOutcomes({"SUCCEEDED", "ROLLED_BACK", "ERROR", "LOST"})
<1> DEFINE R == {"SUCCEEDED", "ROLLED_BACK", "ERROR", "LOST"}
           off == [host EXCEPT !.keys = "SUSPENDED"]
           stuck == [off EXCEPT !.running = TRUE]
           up == [lease |-> a, status |-> "ACTIVE", keys |-> "INSTALLED", running |-> TRUE]
           replies == RestoreReplies(host, a, r, current)
<1>1. host \in HostStates(Lease)
  BY DEF TypeOK
<1>2. off \in HostStates(Lease) /\ up \in HostStates(Lease)
  BY <1>1, HostChanges
<1>3. stuck \in HostStates(Lease)
  <2> HIDE DEF off
  <2> QED BY <1>2, HostChanges
<1>4. replies \in {{Outcome(up, "SUCCEEDED")}, {Outcome(off, "ROLLED_BACK")},
                    {Outcome(host, "ERROR")}}
  BY DEF RestoreReplies
<1>5. RestoreFaults(host, r, current)
        \subseteq {Outcome(host, "LOST"), Outcome(off, "ROLLED_BACK"), Outcome(stuck, "ERROR")}
  BY DEF RestoreFaults
<1> HIDE DEF off, stuck, up, replies
<1>6. replies \subseteq HostOutcomes(R)
  BY <1>1, <1>2, <1>4, OutcomeType
<1>7. /\ Outcome(host, "LOST") \in HostOutcomes(R)
      /\ Outcome(off, "ROLLED_BACK") \in HostOutcomes(R)
      /\ Outcome(stuck, "ERROR") \in HostOutcomes(R)
  BY <1>1, <1>2, <1>3, OutcomeType
<1>8. QED
  BY <1>5, <1>6, <1>7 DEF replies

LEMMA RollbackOutcomes ==
    ASSUME TypeOK, NEW a, NEW r \in Lease, NEW byOwner
    PROVE  RollbackReplies(host, a, r, byOwner) \cup RollbackFaults(host)
             \subseteq HostOutcomes({"SUCCEEDED", "ERROR", "LOST"})
<1> DEFINE R == {"SUCCEEDED", "ERROR", "LOST"}
           stopped == [host EXCEPT !.keys = "SUSPENDED", !.running = FALSE]
           back == [stopped EXCEPT !.lease = r, !.status = "RECYCLED"]
           replies == RollbackReplies(host, a, r, byOwner)
<1>1. host \in HostStates(Lease)
  BY DEF TypeOK
<1>2. stopped \in HostStates(Lease)
  BY <1>1, HostChanges
<1>3. back \in HostStates(Lease)
  <2> HIDE DEF stopped
  <2> QED BY <1>2, HostChanges
<1>4. replies
        \subseteq {Outcome(host, "ERROR"), Outcome(back, "SUCCEEDED"), Outcome(stopped, "ERROR")}
  BY DEF RollbackReplies
<1>5. RollbackFaults(host) = {Outcome(host, "LOST")}
  BY DEF RollbackFaults
<1> HIDE DEF stopped, back, replies
<1>6. replies \subseteq HostOutcomes(R)
  BY <1>1, <1>2, <1>3, <1>4, OutcomeType
<1>7. Outcome(host, "LOST") \in HostOutcomes(R)
  BY <1>1, OutcomeType
<1>8. QED
  BY <1>5, <1>6, <1>7 DEF replies

LEMMA StartOutcomes ==
    ASSUME TypeOK, NEW l \in Lease, NEW expires, NEW starts, NEW t
    PROVE  StartReplies(host, l, expires, starts, t) \cup StartFaults(host, l, expires, t)
             \subseteq HostOutcomes({"SUCCEEDED", "ERROR", "LOST"})
<1> DEFINE R == {"SUCCEEDED", "ERROR", "LOST"}
           up == [host EXCEPT !.lease = l, !.running = TRUE]
           down == [host EXCEPT !.running = FALSE]
           replies == StartReplies(host, l, expires, starts, t)
<1>1. host \in HostStates(Lease)
  BY DEF TypeOK
<1>2. up \in HostStates(Lease) /\ down \in HostStates(Lease)
  BY <1>1, HostChanges
<1>3. replies \subseteq {Outcome(up, "SUCCEEDED"), Outcome(down, "ERROR"), Outcome(host, "ERROR")}
  BY DEF StartReplies
<1>4. StartFaults(host, l, expires, t) \subseteq {Outcome(host, "LOST"), Outcome(down, "ERROR")}
  BY DEF StartFaults
<1> HIDE DEF up, down, replies
<1>5. replies \subseteq HostOutcomes(R)
  BY <1>1, <1>2, <1>3, OutcomeType
<1>6. Outcome(host, "LOST") \in HostOutcomes(R) /\ Outcome(down, "ERROR") \in HostOutcomes(R)
  BY <1>1, <1>2, OutcomeType
<1>7. QED
  BY <1>4, <1>5, <1>6 DEF replies

LEMMA StopOutcomes ==
    ASSUME TypeOK
    PROVE  StopReplies(host) \cup StopFaults(host) \subseteq HostOutcomes({"SUCCEEDED", "LOST"})
<1> DEFINE down == [host EXCEPT !.running = FALSE]
<1>1. host \in HostStates(Lease) /\ down \in HostStates(Lease)
  BY HostChanges DEF TypeOK
<1>2. StopReplies(host) \cup StopFaults(host)
        = {Outcome(down, "SUCCEEDED"), Outcome(host, "LOST"), Outcome(down, "LOST")}
  BY DEF StopReplies, StopFaults
<1> HIDE DEF down
<1>3. QED
  BY <1>1, <1>2, OutcomeType

LEMMA WorkerFaultType ==
    ASSUME TypeOK, WorkerFault \/ Crash \/ UNCHANGED faults
    PROVE  faults' \in [crash : 0..MaxCrashes, worker : 0..MaxWorkerFaults]
BY BoundAssumption DEF TypeOK, WorkerFault, Crash

(* What is left with the Root Worker is a call.                            *)
LEMMA LeftCallType ==
    ASSUME TypeOK, NEW l \in Lease
    PROVE  /\ LeftCall("recycle", l, None) \in LeftCalls
           /\ LeftCall("start", l, None) \in LeftCalls
           /\ \A i \in Lease : /\ LeftCall("restore", l, i) \in LeftCalls
                               /\ LeftCall("rollback", l, i) \in LeftCalls
<1>1. faults.worker + faults.crash \in Nat
  BY BoundAssumption DEF TypeOK
<1>2. QED
  BY <1>1 DEF LeftCall, LeftCalls

LEMMA LeavesType ==
    ASSUME TypeOK, NEW w, NEW call \in LeftCalls, Leaves(w, call)
    PROVE  left' \in SUBSET LeftCalls
BY DEF TypeOK, Leaves

-----------------------------------------------------------------------------
(* The cleanup of a lease, automatic or by hand.                           *)
LEMMA CleanupOutcome ==
    ASSUME IInv, NEW l \in Lease,
           NEW w \in RecycleReplies(host, l) \cup RecycleFaults(host),
           Cleanup(l, w)
    PROVE  /\ left' \in SUBSET LeftCalls
           /\ lease' \in [Lease -> LeaseRow]
           /\ item' \in [Lease -> ItemState]
           /\ owner' \in OwnerRow
           /\ host' \in HostStates(Lease)
           /\ faults' \in [crash : 0..MaxCrashes, worker : 0..MaxWorkerFaults]
           /\ ItemsMatchRecycledLeases' /\ UnusedNotRecycled'
           /\ \A i \in Lease : item[i] # "NONE" => item'[i] = item[i]
<1>1. TypeOK
  BY DEF IInv
<1> left' \in SUBSET LeftCalls
  BY <1>1, LeftCallType, LeavesType DEF Cleanup
<1>2. w.host \in HostStates(Lease) /\ w.reply \in {"SUCCEEDED", "RETRYABLE", "REVIEW", "LOST"}
  BY <1>1, RecycleOutcomes DEF HostOutcomes
<1>3. host' \in HostStates(Lease)
  BY <1>2 DEF Cleanup
<1>4. faults' \in [crash : 0..MaxCrashes, worker : 0..MaxWorkerFaults]
  BY <1>1, WorkerFaultType DEF Cleanup, CallWorker
<1>5. CASE RecordRecycled(l)
  <2>1. lease' \in [Lease -> LeaseRow]
    <3>1. lease[l] \in LeaseRow
      BY <1>1 DEF TypeOK
    <3>2. [lease[l] EXCEPT !.state = "RECYCLE_BIN", !.recycled = TRUE] \in LeaseRow
      BY <3>1 DEF LeaseRow
    <3>3. QED
      BY <1>1, <1>5, <3>2 DEF TypeOK, RecordRecycled
  <2>2. item' \in [Lease -> ItemState] /\ owner' \in OwnerRow
    BY <1>1, <1>5 DEF TypeOK, RecordRecycled, ItemState, OwnerRow
  <2>3. \A i \in Lease : item[i] # "NONE" => item'[i] = item[i]
    BY <1>1, <1>5 DEF TypeOK, RecordRecycled
  <2>4. /\ item'[l] # "NONE" /\ lease'[l].recycled /\ lease'[l].state = "RECYCLE_BIN"
        /\ \A m \in Lease \ {l} : item'[m] = item[m] /\ lease'[m] = lease[m]
    BY <1>1, <1>5 DEF TypeOK, RecordRecycled, LeaseRow
  <2>5. ItemsMatchRecycledLeases' /\ UnusedNotRecycled'
    BY <2>4 DEF IInv, ItemsMatchRecycledLeases, UnusedNotRecycled, UnusedLeases
  <2>6. QED
    BY <1>3, <1>4, <2>1, <2>2, <2>3, <2>5
<1>6. CASE RecordNotRecycled(l, w.reply)
  <2>1. "EXPIRED" \in LeaseStates
    BY DEF LeaseStates, DueStates
  <2>2. lease' \in [Lease -> LeaseRow] /\ KeepsRecycled(lease, lease')
    BY <1>1, <1>6, <2>1, SetStateType DEF TypeOK, RecordNotRecycled, KeepsRecycled
  <2>3. item' = item /\ owner' \in OwnerRow
    BY <1>1, <1>6 DEF TypeOK, RecordNotRecycled, OwnerRow
  <2>4. ItemsMatchRecycledLeases' /\ UnusedNotRecycled'
    BY <2>2, <2>3, ItemsKept
  <2>5. QED
    BY <1>1, <1>3, <1>4, <2>2, <2>3, <2>4 DEF TypeOK
<1>7. QED
  BY <1>5, <1>6 DEF Cleanup

(* A restore in hand survives a step that keeps every existing item.       *)
LEMMA RestoreHeld ==
    ASSUME IInv, UNCHANGED <<restore, restoring>>,
           \A i \in Lease : item[i] # "NONE" => item'[i] = item[i]
    PROVE  RestoreHoldsItsItem' /\ ReviewedRestoresWaitForAdmin'
<1>1. ASSUME restoring.req # None
      PROVE  RestoringItem \in Lease /\ item[RestoringItem] = "RESTORING"
  BY <1>1 DEF IInv, TypeOK, RestoreHoldsItsItem, RequestsRefer, RestoringItem
<1>2. QED
  BY <1>1 DEF IInv, RestoreHoldsItsItem, RestoringItem, ReviewedRestoresWaitForAdmin

LEMMA FailedOpType ==
    ASSUME TypeOK, NEW n \in 1..MaxAttempts, NEW reply
    PROVE  FailedOp(n, reply) \in OpRow
<1>1. n \in DOMAIN RetryDelay => now + RetryDelay[n] \in Nat
  BY RetryAssumption, TimeAssumption DEF TypeOK, Time
<1>2. \A t \in Nat : Earlier(t) \in Time
  BY TimeAssumption DEF Earlier, Time
<1>3. 0 \in Time /\ n \in 0..MaxAttempts
  BY TimeAssumption, RetryAssumption DEF Time
<1>4. QED
  BY <1>1, <1>2, <1>3 DEF FailedOp, OpRow

LEMMA ScanRecyclePreserves ==
    ASSUME IInv, NEW l \in Lease, ScanRecycle(l)
    PROVE  IInv'
<1>1. PICK w \in RecycleReplies(host, l) \cup RecycleFaults(host) :
         /\ Cleanup(l, w)
         /\ op' = [op EXCEPT ![l] =
                     IF w.reply = "SUCCEEDED"
                     THEN [status |-> "SUCCEEDED", attempts |-> op[l].attempts + 1,
                           retryAt |-> 0, manual |-> FALSE]
                     ELSE FailedOp(op[l].attempts + 1, w.reply)]
  BY DEF ScanRecycle
<1>2. TypeOK /\ op[l] \in OpRow
  BY DEF IInv, TypeOK
<1>3. op[l].attempts + 1 \in 1..MaxAttempts
  BY <1>2, RetryAssumption
     DEF IInv, AttemptsCounted, ScanRecycle, MayRecycle, MayAttempt, OpRow
<1>4. FailedOp(op[l].attempts + 1, w.reply) \in OpRow
  BY <1>2, <1>3, FailedOpType
<1>5. [status |-> "SUCCEEDED", attempts |-> op[l].attempts + 1, retryAt |-> 0,
       manual |-> FALSE] \in OpRow
  BY <1>3, TimeAssumption, RetryAssumption DEF OpRow, Time
<1>6. op' \in [Lease -> OpRow]
  BY <1>1, <1>2, <1>4, <1>5 DEF TypeOK
<1>7. AttemptsCounted'
  <2>1. op'[l].status # "NONE"
    BY <1>1, <1>2 DEF TypeOK, FailedOp
  <2>2. QED
    BY <1>1, <1>2, <2>1 DEF IInv, TypeOK, AttemptsCounted
<1>8. TypeOK'
  BY <1>1, <1>2, <1>6, CleanupOutcome, ScanAdvanceType DEF TypeOK, ScanRecycle
<1>9. ItemsMatchRecycledLeases' /\ UnusedNotRecycled'
  BY <1>1, CleanupOutcome
<1>10. RestoreHoldsItsItem' /\ ReviewedRestoresWaitForAdmin'
  BY <1>1, CleanupOutcome, RestoreHeld DEF ScanRecycle
<1>11. OneOpenRenewal' /\ RequestsRefer'
  BY DEF IInv, ScanRecycle, OneOpenRenewal, OpenRenewals, RequestsRefer
<1>12. QED
  BY <1>7, <1>8, <1>9, <1>10, <1>11 DEF IInv

LEMMA RetryRecyclePreserves ==
    ASSUME IInv, NEW l \in Lease, RetryRecycle(l)
    PROVE  IInv'
<1>1. PICK w \in RecycleReplies(host, l) \cup RecycleFaults(host) : Cleanup(l, w)
  BY DEF RetryRecycle
<1>2. TypeOK'
  BY <1>1, CleanupOutcome DEF IInv, TypeOK, RetryRecycle
<1>3. ItemsMatchRecycledLeases' /\ UnusedNotRecycled'
  BY <1>1, CleanupOutcome
<1>4. RestoreHoldsItsItem' /\ ReviewedRestoresWaitForAdmin'
  BY <1>1, CleanupOutcome, RestoreHeld DEF RetryRecycle
<1>5. OneOpenRenewal' /\ RequestsRefer' /\ AttemptsCounted'
  BY DEF IInv, RetryRecycle, OneOpenRenewal, OpenRenewals, RequestsRefer, AttemptsCounted
<1>6. QED
  BY <1>2, <1>3, <1>4, <1>5 DEF IInv

LEMMA ScanCrashPreserves ==
    ASSUME IInv, ScanCrash
    PROVE  IInv'
<1>1. left' \in SUBSET LeftCalls
  BY LeftCallType DEF IInv, TypeOK, ScanCrash
<1>2. faults' \in [crash : 0..MaxCrashes, worker : 0..MaxWorkerFaults]
  BY WorkerFaultType DEF IInv, ScanCrash
<1>3. TypeOK'
  BY <1>1, <1>2 DEF IInv, TypeOK, ScanCrash, NoScan, rows
<1>4. QED
  BY <1>3, RowsUnchangedPreserves DEF ScanCrash, rows

-----------------------------------------------------------------------------
(* Restores.                                                               *)

(* The id and window drawn for an attempt.                                 *)
LEMMA BeginRestoreOutcome ==
    ASSUME IInv, NEW q \in Restore, NEW i \in Lease, NEW d \in Nat,
           NEW by \in {"OWNER", "ADMIN"}, BeginRestore(q, i, d, by), item[i] # "NONE"
    PROVE  /\ lease' \in [Lease -> LeaseRow]
           /\ item' \in [Lease -> ItemState]
           /\ restoring' \in [req : Restore \cup {None}, lease : Lease \cup {None},
                              by : {"OWNER", "ADMIN"},
                              reply : {"PENDING", "SUCCEEDED", "ROLLED_BACK", "ERROR", "LOST"}]
           /\ restoring'.lease \in Lease
           /\ ItemsMatchRecycledLeases' /\ UnusedNotRecycled'
           /\ item'[i] = "RESTORING"
<1>1. TypeOK /\ FreshLease \in Lease /\ lease[FreshLease].state = "NONE"
  BY FreshLeaseType DEF IInv, BeginRestore
<1>2. now \in Time /\ now + d \in Time
  BY <1>1, TimeAssumption DEF TypeOK, BeginRestore, Time
<1>3. NewLease("UNSAVED", now, d, None) \in LeaseRow
  BY <1>2 DEF NewLease, LeaseRow
<1>4. lease' \in [Lease -> LeaseRow]
  BY <1>1, <1>3 DEF TypeOK, BeginRestore
<1>5. item' \in [Lease -> ItemState] /\ item'[i] = "RESTORING"
  BY <1>1 DEF TypeOK, BeginRestore, ItemState
<1>6. ~lease[FreshLease].recycled /\ item[FreshLease] = "NONE"
  BY <1>1 DEF IInv, UnusedNotRecycled, UnusedLeases, ItemsMatchRecycledLeases
<1>7. /\ ~lease'[FreshLease].recycled /\ lease'[FreshLease].state = "UNSAVED"
      /\ \A m \in Lease \ {FreshLease} : lease'[m] = lease[m]
      /\ \A m \in Lease \ {i} : item'[m] = item[m]
  BY <1>1 DEF TypeOK, BeginRestore, NewLease
<1>8. ItemsMatchRecycledLeases' /\ UnusedNotRecycled'
  BY <1>5, <1>6, <1>7
     DEF IInv, ItemsMatchRecycledLeases, UnusedNotRecycled, UnusedLeases
<1>9. restoring' \in [req : Restore \cup {None}, lease : Lease \cup {None},
                      by : {"OWNER", "ADMIN"},
                      reply : {"PENDING", "SUCCEEDED", "ROLLED_BACK", "ERROR", "LOST"}]
  BY <1>1 DEF BeginRestore
<1>10. QED
  BY <1>1, <1>4, <1>5, <1>8, <1>9 DEF BeginRestore

(* An item that a review or its refusal moves was there already.           *)
LEMMA ItemMoved ==
    ASSUME IInv, NEW i \in Lease, item[i] # "NONE", NEW s \in ItemState \ {"NONE"},
           item' = [item EXCEPT ![i] = s], UNCHANGED lease
    PROVE  /\ item' \in [Lease -> ItemState]
           /\ ItemsMatchRecycledLeases' /\ UnusedNotRecycled'
BY DEF IInv, TypeOK, ItemsMatchRecycledLeases, UnusedNotRecycled, UnusedLeases

LEMMA CreateRestorePreserves ==
    ASSUME IInv, NEW q \in Restore, NEW i \in Lease, NEW d \in Durations,
           CreateRestore(q, i, d)
    PROVE  IInv'
<1>1. TypeOK /\ d \in Nat /\ item[i] # "NONE" /\ item[i] # "RESTORING"
  BY TimeAssumption DEF IInv, CreateRestore, Restorable
<1>2. owner \in OwnerRow /\ owner.approval \in BOOLEAN
  BY <1>1 DEF TypeOK, OwnerRow
<1>3. restore' \in [Restore -> RestoreRow]
  BY <1>1, <1>2 DEF TypeOK, CreateRestore, RestoreRow
<1>4. RequestsRefer' /\ OneOpenRenewal' /\ AttemptsCounted'
  BY <1>1 DEF IInv, TypeOK, CreateRestore, RequestsRefer, OneOpenRenewal, OpenRenewals,
              AttemptsCounted
<1>5. CASE owner.approval
  <2>1. item' = [item EXCEPT ![i] = "RESTORE_PENDING"] /\ UNCHANGED lease
    BY <1>5 DEF CreateRestore, AwaitReview
  <2>2. /\ item' \in [Lease -> ItemState]
        /\ ItemsMatchRecycledLeases' /\ UnusedNotRecycled'
    BY <1>1, <2>1, ItemMoved DEF ItemState
  <2>3. owner' \in OwnerRow /\ UNCHANGED restoring
    BY <1>2, <1>5 DEF CreateRestore, AwaitReview, OwnerRow
  <2>4. TypeOK'
    BY <1>1, <1>3, <2>1, <2>2, <2>3 DEF TypeOK, CreateRestore
  <2>5. restoring.req # None => restoring.req # q /\ restore'[restoring.req] = restore[restoring.req]
    BY <1>1 DEF IInv, TypeOK, CreateRestore, RestoreHoldsItsItem
  <2>6. restoring.req # None => RestoringItem # i /\ RestoringItem' = RestoringItem
    BY <1>1, <2>3, <2>5 DEF IInv, RestoreHoldsItsItem, RestoringItem
  <2>7. restoring.req # None => item'[RestoringItem] = item[RestoringItem]
    BY <1>1, <2>1, <2>6 DEF IInv, TypeOK, RestoreHoldsItsItem, RequestsRefer, RestoringItem
  <2>8. RestoreHoldsItsItem' /\ ReviewedRestoresWaitForAdmin'
    BY <2>3, <2>5, <2>6, <2>7 DEF IInv, RestoreHoldsItsItem, ReviewedRestoresWaitForAdmin
  <2>9. QED
    BY <1>4, <2>2, <2>4, <2>8 DEF IInv
<1>6. CASE ~owner.approval
  <2>1. BeginRestore(q, i, d, "OWNER")
    BY <1>6 DEF CreateRestore
  <2>2. TypeOK'
    BY <1>1, <1>3, <2>1, BeginRestoreOutcome DEF TypeOK, CreateRestore, BeginRestore
  <2>3. restore'[q].state = "RESTORING" /\ restore'[q].item = i /\ restore'[q].approval = FALSE
    BY <1>1, <1>6 DEF TypeOK, CreateRestore, OwnerRow
  <2>4. restoring'.req = q
    BY <2>1 DEF BeginRestore
  <2>5. RestoreHoldsItsItem' /\ ReviewedRestoresWaitForAdmin'
    BY <1>1, <2>1, <2>3, <2>4, BeginRestoreOutcome
       DEF RestoreHoldsItsItem, ReviewedRestoresWaitForAdmin, RestoringItem
  <2>6. QED
    BY <1>1, <1>4, <2>1, <2>2, <2>5, BeginRestoreOutcome DEF IInv
<1>7. QED
  BY <1>5, <1>6

LEMMA ReplayRestorePreserves ==
    ASSUME IInv, NEW q \in Restore, ReplayRestore(q)
    PROVE  IInv'
<1> DEFINE i == restore[q].item
<1>1. TypeOK /\ i \in Lease /\ item[i] # "NONE" /\ item[i] # "RESTORING"
  BY DEF IInv, ReplayRestore, Restorable, RequestsRefer
<1>2. item' = [item EXCEPT ![i] = "RESTORE_PENDING"] /\ UNCHANGED lease
  BY DEF ReplayRestore, AwaitReview
<1>3. /\ item' \in [Lease -> ItemState]
      /\ ItemsMatchRecycledLeases' /\ UnusedNotRecycled'
  <2> HIDE DEF i
  <2> QED BY <1>1, <1>2, ItemMoved DEF ItemState
<1>4. TypeOK'
  BY <1>1, <1>2, <1>3 DEF TypeOK, ReplayRestore, AwaitReview, OwnerRow
<1>5. restoring.req # None => item'[RestoringItem] = item[RestoringItem]
  BY <1>1, <1>2 DEF IInv, TypeOK, RestoreHoldsItsItem, RequestsRefer, RestoringItem
<1>6. /\ RestoreHoldsItsItem' /\ ReviewedRestoresWaitForAdmin'
      /\ OneOpenRenewal' /\ RequestsRefer' /\ AttemptsCounted'
  BY <1>5 DEF IInv, ReplayRestore, AwaitReview, RestoreHoldsItsItem, RestoringItem,
              ReviewedRestoresWaitForAdmin, OneOpenRenewal, OpenRenewals, RequestsRefer,
              AttemptsCounted
<1>7. QED
  BY <1>3, <1>4, <1>6 DEF IInv

LEMMA RejectRestorePreserves ==
    ASSUME IInv, NEW q \in Restore, RejectRestore(q)
    PROVE  IInv'
<1> DEFINE i == restore[q].item
<1>1. TypeOK /\ i \in Lease /\ item[i] = "RESTORE_PENDING"
  BY DEF IInv, RejectRestore, RequestsRefer
<1>2. item' = [item EXCEPT ![i] = "RECYCLE_BIN"] /\ UNCHANGED lease
  BY DEF RejectRestore
<1>3. /\ item' \in [Lease -> ItemState]
      /\ ItemsMatchRecycledLeases' /\ UnusedNotRecycled'
  <2> HIDE DEF i
  <2> QED BY <1>1, <1>2, ItemMoved DEF ItemState
<1>4. TypeOK'
  BY <1>1, <1>2, <1>3 DEF TypeOK, RejectRestore, OwnerRow, RestoreRow
<1>5. /\ restoring.req # None => restore'[restoring.req] = restore[restoring.req]
      /\ restoring.req # None => item'[RestoringItem] = item[RestoringItem]
  BY <1>1, <1>2 DEF IInv, TypeOK, RejectRestore, RestoreHoldsItsItem, RequestsRefer,
                    RestoringItem
<1>6. RestoreHoldsItsItem' /\ ReviewedRestoresWaitForAdmin'
  BY <1>5 DEF IInv, RejectRestore, RestoreHoldsItsItem, RestoringItem,
              ReviewedRestoresWaitForAdmin
<1>7. OneOpenRenewal' /\ RequestsRefer' /\ AttemptsCounted'
  BY <1>1 DEF IInv, TypeOK, RestoreRow, RejectRestore, OneOpenRenewal, OpenRenewals,
              RequestsRefer, AttemptsCounted
<1>8. QED
  BY <1>3, <1>4, <1>6, <1>7 DEF IInv

LEMMA ApproveRestorePreserves ==
    ASSUME IInv, NEW q \in Restore, ApproveRestore(q)
    PROVE  IInv'
<1> DEFINE i == restore[q].item
           d == restore[q].duration
<1>1. TypeOK /\ i \in Lease /\ d \in Nat /\ item[i] # "NONE"
  BY DEF IInv, TypeOK, RestoreRow, ApproveRestore, RequestsRefer
<1>2. BeginRestore(q, i, d, "ADMIN")
  BY DEF ApproveRestore
<1>3. /\ lease' \in [Lease -> LeaseRow]
      /\ item' \in [Lease -> ItemState]
      /\ restoring' \in [req : Restore \cup {None}, lease : Lease \cup {None},
                         by : {"OWNER", "ADMIN"},
                         reply : {"PENDING", "SUCCEEDED", "ROLLED_BACK", "ERROR", "LOST"}]
      /\ restoring'.lease \in Lease
      /\ ItemsMatchRecycledLeases' /\ UnusedNotRecycled'
      /\ item'[i] = "RESTORING"
  <2> HIDE DEF i, d
  <2> QED BY <1>1, <1>2, BeginRestoreOutcome
<1>4. restore' \in [Restore -> RestoreRow]
  BY <1>1 DEF TypeOK, RestoreRow, ApproveRestore
<1>5. TypeOK'
  BY <1>1, <1>2, <1>3, <1>4 DEF TypeOK, ApproveRestore, BeginRestore
<1>6. restoring'.req = q /\ restoring'.by = "ADMIN"
  BY <1>2 DEF BeginRestore
<1>7. restore'[q].state = "RESTORING" /\ restore'[q].item = i
  BY <1>1 DEF TypeOK, RestoreRow, ApproveRestore
<1>8. RestoreHoldsItsItem' /\ ReviewedRestoresWaitForAdmin'
  BY <1>3, <1>6, <1>7 DEF RestoreHoldsItsItem, ReviewedRestoresWaitForAdmin, RestoringItem
<1>9. OneOpenRenewal' /\ RequestsRefer' /\ AttemptsCounted'
  BY <1>1 DEF IInv, TypeOK, RestoreRow, ApproveRestore, OneOpenRenewal, OpenRenewals,
              RequestsRefer, AttemptsCounted
<1>10. QED
  BY <1>3, <1>5, <1>8, <1>9 DEF IInv

LEMMA RestoreRunPreserves ==
    ASSUME IInv, RestoreRun
    PROVE  IInv'
<1> DEFINE a == restoring.lease
           current == lease[a].starts <= now /\ now < lease[a].expires
           outcomes == RestoreReplies(host, a, RestoringItem, current)
                         \cup RestoreFaults(host, RestoringItem, current)
<1>1. TypeOK /\ restoring.req # None /\ a \in Lease /\ RestoringItem \in Lease
  BY DEF IInv, TypeOK, RestoreRun, RestoreHoldsItsItem, RequestsRefer, RestoringItem
<1>2. PICK w \in outcomes :
         /\ CallWorker(RestoreReplies(host, a, RestoringItem, current),
                       RestoreFaults(host, RestoringItem, current), w)
         /\ Leaves(w, LeftCall("restore", a, RestoringItem))
         /\ host' = w.host
         /\ restoring' = [restoring EXCEPT !.reply = w.reply]
  BY DEF RestoreRun
<1>3. /\ w.host \in HostStates(Lease)
      /\ w.reply \in {"SUCCEEDED", "ROLLED_BACK", "ERROR", "LOST"}
  <2> HIDE DEF a, current
  <2> QED BY <1>1, <1>2, RestoreOutcomes DEF HostOutcomes
<1>4. faults' \in [crash : 0..MaxCrashes, worker : 0..MaxWorkerFaults]
  BY <1>1, <1>2, WorkerFaultType DEF CallWorker
<1> left' \in SUBSET LeftCalls
  BY <1>1, <1>2, LeftCallType, LeavesType
<1> HIDE DEF a, current
<1>5. TypeOK'
  BY <1>1, <1>2, <1>3, <1>4 DEF TypeOK, RestoreRun, rows
<1>6. /\ restoring'.req = restoring.req
      /\ restoring'.lease = restoring.lease
      /\ restoring'.by = restoring.by
  BY <1>1, <1>2 DEF TypeOK
<1>7. QED
  BY <1>5, <1>6 DEF IInv, RestoreRun, rows, OneOpenRenewal, OpenRenewals,
         ItemsMatchRecycledLeases, UnusedNotRecycled, UnusedLeases,
         ReviewedRestoresWaitForAdmin, AttemptsCounted, RestoreHoldsItsItem,
         RestoringItem, RequestsRefer

(* The end of a restore, however it ends.                                  *)
LEMMA RestoreEnd ==
    ASSUME IInv, restoring.req # None,
           RestoreSaved \/ RestoreError \/ RestoreUndone
    PROVE  /\ lease' \in [Lease -> LeaseRow] /\ KeepsRecycled(lease, lease')
           /\ host' \in HostStates(Lease) /\ left' \in SUBSET LeftCalls
           /\ owner' \in OwnerRow
           /\ faults' \in [crash : 0..MaxCrashes, worker : 0..MaxWorkerFaults]
           /\ \E s \in {"RESTORED", "FAILED"} :
                 restore' = [restore EXCEPT ![restoring.req].state = s]
           /\ \E s \in {"RESTORED", "RECYCLE_BIN", "FAILED"} :
                 item' = [item EXCEPT ![RestoringItem] = s]
<1>1. TypeOK /\ restoring.lease \in Lease /\ RestoringItem \in Lease
  BY DEF IInv, TypeOK, RestoreHoldsItsItem, RequestsRefer, RestoringItem
<1> left' \in SUBSET LeftCalls
  BY <1>1, LeftCallType, LeavesType DEF TypeOK, RestoreSaved, RestoreError, RestoreUndone
<1>2. CASE RestoreSaved
  <2>1. "ACTIVE" \in LeaseStates
    BY DEF LeaseStates, DueStates, ActiveStates
  <2>2. lease' \in [Lease -> LeaseRow] /\ KeepsRecycled(lease, lease')
    BY <1>1, <1>2, <2>1, SetStateType DEF TypeOK, RestoreSaved, KeepsRecycled
  <2>3. owner' \in OwnerRow /\ host' \in HostStates(Lease)
    BY <1>1, <1>2 DEF TypeOK, RestoreSaved, OwnerRow
  <2>4. faults' \in [crash : 0..MaxCrashes, worker : 0..MaxWorkerFaults]
    BY <1>1, <1>2, WorkerFaultType DEF RestoreSaved
  <2>5. QED
    BY <1>2, <2>2, <2>3, <2>4 DEF RestoreSaved
<1>3. CASE RestoreError \/ RestoreUndone
  <2>1. PICK rolledBack \in BOOLEAN : RestoreFailed(rolledBack)
    BY <1>3 DEF RestoreError, RestoreUndone
  <2>2. lease' \in [Lease -> LeaseRow] /\ KeepsRecycled(lease, lease')
    BY <1>1, <2>1 DEF TypeOK, RestoreFailed, KeepsRecycled
  <2>3. owner' \in OwnerRow
    BY <1>1, <2>1 DEF TypeOK, RestoreFailed, OwnerRow
  <2>4. host' \in HostStates(Lease)
    BY <1>1, <1>3, RollbackOutcomes DEF TypeOK, RestoreError, RestoreUndone, HostOutcomes
  <2>5. faults' \in [crash : 0..MaxCrashes, worker : 0..MaxWorkerFaults]
    BY <1>1, <1>3, WorkerFaultType DEF RestoreError, RestoreUndone
  <2>6. QED
    BY <2>1, <2>2, <2>3, <2>4, <2>5 DEF RestoreFailed
<1>4. QED
  BY <1>2, <1>3

LEMMA RestoreFinishPreserves ==
    ASSUME IInv, RestoreFinish
    PROVE  IInv'
<1>1. TypeOK /\ restoring.req \in Restore /\ RestoringItem \in Lease /\ item[RestoringItem] # "NONE"
  BY DEF IInv, TypeOK, RestoreFinish, RestoreHoldsItsItem, RequestsRefer, RestoringItem
<1>2. restore[restoring.req].state # "NONE"
  BY DEF IInv, RestoreFinish, RestoreHoldsItsItem
<1>3. /\ lease' \in [Lease -> LeaseRow] /\ KeepsRecycled(lease, lease')
      /\ host' \in HostStates(Lease) /\ left' \in SUBSET LeftCalls /\ owner' \in OwnerRow
      /\ faults' \in [crash : 0..MaxCrashes, worker : 0..MaxWorkerFaults]
  BY RestoreEnd DEF RestoreFinish
<1>4. PICK s \in {"RESTORED", "FAILED"} :
         restore' = [restore EXCEPT ![restoring.req].state = s]
  BY RestoreEnd DEF RestoreFinish
<1>5. PICK t \in {"RESTORED", "RECYCLE_BIN", "FAILED"} :
         item' = [item EXCEPT ![RestoringItem] = t]
  BY RestoreEnd DEF RestoreFinish
<1>6. restore' \in [Restore -> RestoreRow] /\ item' \in [Lease -> ItemState]
  BY <1>1, <1>4, <1>5 DEF TypeOK, RestoreRow, ItemState
<1>7. TypeOK'
  BY <1>1, <1>3, <1>6 DEF TypeOK, RestoreFinish, NoRestoring
<1>8. ItemsMatchRecycledLeases' /\ UnusedNotRecycled'
  <2>1. \A l \in Lease : item'[l] = "NONE" <=> item[l] = "NONE"
    BY <1>1, <1>5 DEF TypeOK
  <2>2. QED
    BY <1>3, <2>1 DEF IInv, KeepsRecycled, ItemsMatchRecycledLeases, UnusedNotRecycled,
                      UnusedLeases
<1>9. RequestsRefer'
  BY <1>1, <1>2, <1>4 DEF IInv, TypeOK, RestoreRow, RestoreFinish, RequestsRefer
<1>10. /\ RestoreHoldsItsItem' /\ ReviewedRestoresWaitForAdmin'
       /\ OneOpenRenewal' /\ AttemptsCounted'
  BY DEF IInv, RestoreFinish, NoRestoring, RestoreHoldsItsItem, ReviewedRestoresWaitForAdmin,
         OneOpenRenewal, OpenRenewals, AttemptsCounted
<1>11. QED
  BY <1>7, <1>8, <1>9, <1>10 DEF IInv

LEMMA RestoreCrashPreserves ==
    ASSUME IInv, RestoreCrash
    PROVE  IInv'
<1>1. restoring.lease \in Lease /\ RestoringItem \in Lease
  BY DEF IInv, TypeOK, RestoreCrash, RestoreHoldsItsItem, RequestsRefer, RestoringItem
<1> TypeOK'
  <2>1. left' \in SUBSET LeftCalls
    BY <1>1, LeftCallType DEF IInv, TypeOK, RestoreCrash
  <2>2. QED
    BY <2>1, WorkerFaultType DEF IInv, TypeOK, RestoreCrash, NoRestoring, rows
<1>2. QED
  BY <1>1, RowsUnchangedPreserves DEF RestoreCrash, rows

-----------------------------------------------------------------------------
(* The owner's container buttons.                                          *)
LEMMA UseLeasePreserves ==
    ASSUME IInv, UseLease
    PROVE  IInv'
<1>1. TypeOK
  BY DEF IInv
<1>2. lease' \in [Lease -> LeaseRow] /\ KeepsRecycled(lease, lease')
  BY <1>1, AfterEnsureType DEF UseLease
<1>3. TypeOK'
  BY <1>1, <1>2 DEF TypeOK, UseLease, HandsOverLease
<1>4. ItemsMatchRecycledLeases' /\ UnusedNotRecycled'
  BY <1>2, ItemsKept DEF UseLease
<1>5. /\ OneOpenRenewal' /\ RequestsRefer' /\ ReviewedRestoresWaitForAdmin'
      /\ AttemptsCounted' /\ RestoreHoldsItsItem'
  BY DEF IInv, UseLease, OneOpenRenewal, OpenRenewals, RequestsRefer,
         ReviewedRestoresWaitForAdmin, AttemptsCounted, RestoreHoldsItsItem, RestoringItem
<1>6. QED
  BY <1>3, <1>4, <1>5 DEF IInv

LEMMA StartContainerPreserves ==
    ASSUME IInv, StartContainer
    PROVE  IInv'
<1> DEFINE replies == StartReplies(host, EntitledLease, LeaseEnds, LeaseStarts, now)
           failures == StartFaults(host, EntitledLease, LeaseEnds, now)
<1>1. TypeOK /\ EntitledLease \in Lease
  BY EntitledLeaseType DEF IInv, StartContainer
<1>2. PICK w \in replies \cup failures :
         /\ CallWorker(replies, failures, w)
         /\ Leaves(w, LeftCall("start", EntitledLease, None))
         /\ host' = w.host
  BY DEF StartContainer
<1>3. w.host \in HostStates(Lease)
  BY <1>1, <1>2, StartOutcomes DEF HostOutcomes
<1>4. faults' \in [crash : 0..MaxCrashes, worker : 0..MaxWorkerFaults]
  BY <1>1, <1>2, WorkerFaultType DEF CallWorker
<1>5. left' \in SUBSET LeftCalls
  BY <1>1, <1>2, LeftCallType, LeavesType
<1>6. lease' \in [Lease -> LeaseRow] /\ KeepsRecycled(lease, lease')
  BY <1>1, AfterEnsureType DEF StartContainer
<1> HIDE DEF replies, failures
<1>7. TypeOK'
  BY <1>1, <1>2, <1>3, <1>4, <1>5, <1>6 DEF TypeOK, StartContainer, HandsOverLease
<1>8. ItemsMatchRecycledLeases' /\ UnusedNotRecycled'
  BY <1>6, ItemsKept DEF StartContainer
<1>9. /\ OneOpenRenewal' /\ RequestsRefer' /\ ReviewedRestoresWaitForAdmin'
      /\ AttemptsCounted' /\ RestoreHoldsItsItem'
  BY DEF IInv, StartContainer, OneOpenRenewal, OpenRenewals, RequestsRefer,
         ReviewedRestoresWaitForAdmin, AttemptsCounted, RestoreHoldsItsItem, RestoringItem
<1>10. QED
  BY <1>7, <1>8, <1>9 DEF IInv

LEMMA StopContainerPreserves ==
    ASSUME IInv, StopContainer
    PROVE  IInv'
<1>1. PICK w \in StopReplies(host) \cup StopFaults(host) :
         /\ CallWorker(StopReplies(host), StopFaults(host), w)
         /\ host' = w.host
  BY DEF StopContainer
<1>2. TypeOK
  BY DEF IInv
<1>3. w.host \in HostStates(Lease)
  BY <1>1, <1>2, StopOutcomes DEF HostOutcomes
<1>4. faults' \in [crash : 0..MaxCrashes, worker : 0..MaxWorkerFaults]
  BY <1>1, <1>2, WorkerFaultType DEF CallWorker
<1>5. TypeOK'
  BY <1>1, <1>2, <1>3, <1>4 DEF TypeOK, StopContainer, rows
<1>6. QED
  BY <1>5, RowsUnchangedPreserves DEF StopContainer, rows

-----------------------------------------------------------------------------
(* A call that was left with the Root Worker is one its handler can serve. *)
LEMMA ServedOutcome ==
    ASSUME TypeOK, NEW c \in left,
           ServeRecycle(c) \/ ServeRestore(c) \/ ServeRollback(c) \/ ServeStart(c)
    PROVE  /\ host' \in HostStates(Lease)
           /\ faults' \in [crash : 0..MaxCrashes, worker : 0..MaxWorkerFaults]
<1>1. /\ c \in LeftCalls /\ c.lease \in Lease
      /\ c.op \in {"restore", "rollback"} => c.item \in Lease
  BY DEF TypeOK, LeftCalls
<1>2. faults' \in [crash : 0..MaxCrashes, worker : 0..MaxWorkerFaults]
  BY WorkerFaultType DEF ServeRecycle, ServeRestore, ServeRollback, ServeStart, ServeAs,
                         CallWorker
<1>3. CASE ServeRecycle(c)
  <2>1. PICK w \in RecycleReplies(host, c.lease) \cup RecycleFaults(host) :
           host' = w.host
    BY <1>3 DEF ServeRecycle, ServeAs
  <2>2. c.lease \in Lease
    BY <1>1, <1>3 DEF ServeRecycle, ServeAs
  <2>3. QED
    BY <1>2, <2>1, <2>2, RecycleOutcomes DEF HostOutcomes
<1>4. CASE ServeRestore(c)
  <2> DEFINE current == lease[c.lease].starts <= now /\ now < lease[c.lease].expires
  <2>1. PICK w \in RestoreReplies(host, c.lease, c.item, current)
                   \cup RestoreFaults(host, c.item, current) :
           host' = w.host
    BY <1>4 DEF ServeRestore, ServeAs
  <2>2. c.lease \in Lease /\ c.item \in Lease
    BY <1>1, <1>4 DEF ServeRestore, ServeAs
  <2> HIDE DEF current
  <2>3. QED
    BY <1>2, <2>1, <2>2, RestoreOutcomes DEF HostOutcomes
<1>5. CASE ServeRollback(c)
  <2>1. PICK w \in RollbackReplies(host, c.lease, c.item, TRUE) \cup RollbackFaults(host) :
           host' = w.host
    BY <1>5 DEF ServeRollback, ServeAs
  <2>2. c.lease \in Lease /\ c.item \in Lease
    BY <1>1, <1>5 DEF ServeRollback, ServeAs
  <2>3. \A byOwner \in BOOLEAN :
           RollbackReplies(host, c.lease, c.item, byOwner) \cup RollbackFaults(host)
             \subseteq HostOutcomes({"SUCCEEDED", "ERROR", "LOST"})
    BY <2>2, RollbackOutcomes
  <2>4. QED
    BY <1>2, <2>1, <2>3 DEF HostOutcomes
<1>6. CASE ServeStart(c)
  <2>1. PICK w \in StartReplies(host, c.lease, LeaseEnds, LeaseStarts, now)
                   \cup StartFaults(host, c.lease, LeaseEnds, now) :
           host' = w.host
    BY <1>6 DEF ServeStart, ServeAs
  <2>2. c.lease \in Lease
    BY <1>1, <1>6 DEF ServeStart, ServeAs
  <2>3. QED
    BY <1>2, <2>1, <2>2, StartOutcomes DEF HostOutcomes
<1>7. QED
  BY <1>2, <1>3, <1>4, <1>5, <1>6

LEMMA ServeLeftPreserves ==
    ASSUME IInv, NEW c \in left, ServeLeft(c)
    PROVE  IInv'
<1>1. [c EXCEPT !.served = TRUE] \in LeftCalls
  <2>1. c \in LeftCalls
    BY DEF IInv, TypeOK
  <2>2. QED
    BY <2>1 DEF LeftCalls
<1>2. left' \in SUBSET LeftCalls
  BY <1>1 DEF IInv, TypeOK, ServeLeft
<1>3. TypeOK'
  BY <1>2, ServedOutcome DEF IInv, TypeOK, ServeLeft, rows
<1>4. QED
  BY <1>3, RowsUnchangedPreserves DEF ServeLeft, rows

-----------------------------------------------------------------------------
LEMMA InitIInv == Init => IInv
<1> SUFFICES ASSUME Init PROVE IInv
  OBVIOUS
<1>1. 0 \in Time /\ FirstExpiry \in Time /\ FirstLease \in Lease
  BY TimeAssumption, LeaseAssumption DEF Time
<1>2. lease \in [Lease -> LeaseRow]
  BY <1>1 DEF Init, NoLease, LeaseRow, DueStates, ActiveStates
<1>3. /\ renewal \in [Renewal -> RenewalRow]
      /\ restore \in [Restore -> RestoreRow]
      /\ op \in [Lease -> OpRow]
  BY <1>1, RetryAssumption DEF Init, NoRenewal, RenewalRow, NoRestore, RestoreRow, NoOp, OpRow
<1>4. /\ item \in [Lease -> ItemState]
      /\ owner \in OwnerRow
      /\ host \in HostStates(Lease)
      /\ faults \in [crash : 0..MaxCrashes, worker : 0..MaxWorkerFaults]
  BY <1>1, BoundAssumption DEF Init, ItemState, OwnerRow, HostStates
<1>5. TypeOK
  BY <1>1, <1>2, <1>3, <1>4 DEF Init, TypeOK, NoDecision, NoScan, NoRestoring
<1>6. \A l \in Lease : ~lease[l].recycled
  BY DEF Init, NoLease
<1>7. OneOpenRenewal /\ RequestsRefer
  BY DEF Init, OneOpenRenewal, OpenRenewals, RequestsRefer, NoRenewal, NoRestore, NoDecision
<1>8. ItemsMatchRecycledLeases /\ UnusedNotRecycled
  BY <1>6 DEF Init, ItemsMatchRecycledLeases, UnusedNotRecycled, UnusedLeases
<1>9. AttemptsCounted
  BY DEF Init, AttemptsCounted, NoOp
<1>10. ReviewedRestoresWaitForAdmin /\ RestoreHoldsItsItem
  BY DEF Init, NoRestoring, ReviewedRestoresWaitForAdmin, RestoreHoldsItsItem
<1>11. QED
  BY <1>5, <1>7, <1>8, <1>9, <1>10 DEF IInv

LEMMA NextIInv == IInv /\ [Next]_vars => IInv'
<1> SUFFICES ASSUME IInv, [Next]_vars PROVE IInv'
  OBVIOUS
<1>1. CASE Tick
  BY <1>1, TickPreserves
<1>2. CASE OwnerStep
  BY <1>2, RequestRenewalPreserves, AutoRenewPreserves, AutoRenewLatePreserves,
     CreateRestorePreserves, ReplayRestorePreserves, UseLeasePreserves,
     StartContainerPreserves, StopContainerPreserves DEF OwnerStep
<1>3. CASE AdminStep
  BY <1>3, DecideStartPreserves, DecideCommitPreserves, SetPolicyPreserves,
     RejectRestorePreserves, ApproveRestorePreserves, RetryRecyclePreserves DEF AdminStep
<1>4. CASE ScanStep
  BY <1>4, ScanCancelPreserves, ScanReadPreserves, ScanLookPreserves, ScanActivatePreserves,
     ScanPassPreserves, ScanRecyclePreserves, ScanCrashPreserves DEF ScanStep
<1>5. CASE RestoreStep
  BY <1>5, RestoreRunPreserves, RestoreFinishPreserves, RestoreCrashPreserves
     DEF RestoreStep
<1>6. CASE WorkerStep
  BY <1>6, ServeLeftPreserves DEF WorkerStep
<1>7. CASE UNCHANGED vars
  <2>1. TypeOK'
    BY <1>7 DEF IInv, TypeOK, vars, rows
  <2>2. QED
    BY <1>7, <2>1, RowsUnchangedPreserves DEF vars, rows
<1>8. QED
  BY <1>1, <1>2, <1>3, <1>4, <1>5, <1>6, <1>7 DEF Next

-----------------------------------------------------------------------------
(* The invariant holds in every reachable state, whatever the numbers of   *)
(* leases and requests, the durations, the clock's bound and the faults.   *)
THEOREM Invariance == Spec => []IInv
<1>1. QED
  BY InitIInv, NextIInv, PTL DEF Spec

(* Every row of the owner, the host and every process in flight keep their *)
(* shape through all handlers.                                             *)
THEOREM TypeCorrect == Spec => []TypeOK
<1>1. IInv => TypeOK
  BY DEF IInv
<1>2. QED
  BY <1>1, Invariance, PTL

(* However requests, decisions and the expiry worker cross, at most one    *)
(* renewal of the owner is open.                                           *)
THEOREM OneOpenRenewalAlways == Spec => []OneOpenRenewal
<1>1. IInv => OneOpenRenewal
  BY DEF IInv
<1>2. QED
  BY <1>1, Invariance, PTL

(* Whatever crashes, is retried or restored, a lease has a recycle item    *)
(* exactly when it is stamped recycled.                                    *)
THEOREM ItemsAlwaysMatch == Spec => []ItemsMatchRecycledLeases
<1>1. IInv => ItemsMatchRecycledLeases
  BY DEF IInv
<1>2. QED
  BY <1>1, Invariance, PTL

(* A restore asked for under review never runs in the owner's own name,    *)
(* also when the policy changes and the request is replayed.               *)
THEOREM ReviewIsNeverSkipped == Spec => []ReviewedRestoresWaitForAdmin
<1>1. IInv => ReviewedRestoresWaitForAdmin
  BY DEF IInv
<1>2. QED
  BY <1>1, Invariance, PTL

-----------------------------------------------------------------------------
LEMMA RestoredItemStep ==
    ASSUME IInv, Next, NEW l \in Lease, item[l] = "RESTORED"
    PROVE  item'[l] = "RESTORED"
<1>1. item \in [Lease -> ItemState]
  BY DEF IInv, TypeOK
<1>2. CASE OwnerStep
  <2>1. ASSUME NEW q \in Restore, NEW i \in Lease, NEW d \in Durations, CreateRestore(q, i, d)
        PROVE  item'[l] = "RESTORED"
    BY <1>1, <2>1 DEF CreateRestore, Restorable, AwaitReview, BeginRestore
  <2>2. ASSUME NEW q \in Restore, ReplayRestore(q)
        PROVE  item'[l] = "RESTORED"
    BY <1>1, <2>2 DEF ReplayRestore, Restorable, AwaitReview
  <2>3. QED
    BY <1>2, <2>1, <2>2 DEF OwnerStep, RequestRenewal, AutoRenew, AutoRenewLate,
                            UseLease, StartContainer, StopContainer, rows
<1>3. CASE AdminStep
  <2>1. ASSUME NEW q \in Restore, RejectRestore(q) \/ ApproveRestore(q)
        PROVE  item'[l] = "RESTORED"
    BY <1>1, <2>1 DEF RejectRestore, ApproveRestore, BeginRestore
  <2>2. ASSUME NEW m \in Lease, RetryRecycle(m)
        PROVE  item'[l] = "RESTORED"
    BY <2>2, CleanupOutcome DEF RetryRecycle
  <2>3. QED
    BY <1>3, <2>1, <2>2 DEF AdminStep, DecideStart, DecideCommit, SetPolicy, rows
<1>4. CASE ScanStep
  <2>1. ASSUME NEW m \in Lease, ScanRecycle(m)
        PROVE  item'[l] = "RESTORED"
    BY <2>1, CleanupOutcome DEF ScanRecycle
  <2>2. QED
    BY <1>4, <2>1 DEF ScanStep, ScanCancel, ScanRead, ScanLook, ScanActivate, ScanPass,
                      ScanCrash, rows
<1>5. CASE RestoreStep
  <2>1. CASE RestoreFinish
    <3>1. item[RestoringItem] = "RESTORING"
      BY <2>1 DEF IInv, RestoreFinish, RestoreHoldsItsItem
    <3>2. PICK t \in {"RESTORED", "RECYCLE_BIN", "FAILED"} :
             item' = [item EXCEPT ![RestoringItem] = t]
      BY <2>1, RestoreEnd DEF RestoreFinish
    <3>3. QED
      BY <1>1, <3>1, <3>2
  <2>2. QED
    BY <1>5, <2>1 DEF RestoreStep, RestoreRun, RestoreCrash, rows
<1>6. CASE Tick \/ WorkerStep
  BY <1>6 DEF Tick, WorkerStep, ServeLeft, rows
<1>7. QED
  BY <1>2, <1>3, <1>4, <1>5, <1>6 DEF Next

(* An item that was restored is never moved again: no late request, review *)
(* or retry puts a second restore on it.                                   *)
THEOREM RestoredItemsStay == Spec => RestoredItemStays
<1>1. ASSUME IInv, [Next]_vars
      PROVE  [\A l \in Lease : item[l] = "RESTORED" => item'[l] = "RESTORED"]_vars
  BY <1>1, RestoredItemStep
<1>2. QED
  BY <1>1, Invariance, PTL DEF Spec, RestoredItemStays

-----------------------------------------------------------------------------
(* The recycle bin, however long a decision waits for its locks.           *)

Waits(l) == item[l] \in {"RECYCLE_BIN", "RESTORE_PENDING", "FAILED"}

(* The host has put lease l away: nothing but a restore of l reaches it.   *)
PutAway(h, l) ==
    h.lease = l /\ h.status = "RECYCLED" /\ h.keys = "SUSPENDED" /\ ~h.running

RestoreHasFailed(l) == \E q \in Restore : restore[q].item = l /\ restore[q].state = "FAILED"

Contained(l) == Waits(l) => PutAway(host, l) \/ RestoreHasFailed(l)

(* The bound lease stays, and what is off stays off.                       *)
Shuts(h, g) ==
    /\ g.lease = h.lease /\ g.status \in {h.status, "RECYCLED"}
    /\ g.keys \in {h.keys, "SUSPENDED"} /\ (g.running => h.running)

LEMMA HostShuts ==
    ASSUME NEW h \in HostStates(Lease)
    PROVE  /\ Shuts(h, h) /\ Shuts(h, [h EXCEPT !.running = FALSE])
           /\ Shuts(h, [h EXCEPT !.keys = "SUSPENDED"])
           /\ Shuts(h, [h EXCEPT !.keys = "SUSPENDED", !.running = FALSE])
BY DEF HostStates, Shuts

LEMMA OutcomeParts ==
    ASSUME NEW h, NEW r
    PROVE  Outcome(h, r).host = h /\ Outcome(h, r).reply = r
BY DEF Outcome

(* A cleanup and a stop only shut; a cleanup that succeeds puts its own    *)
(* lease away.                                                             *)
LEMMA RecycleShuts ==
    ASSUME TypeOK, NEW l, NEW w \in RecycleReplies(host, l) \cup RecycleFaults(host)
    PROVE  Shuts(host, w.host) /\ (w.reply = "SUCCEEDED" => PutAway(w.host, l))
<1> DEFINE stopped == [host EXCEPT !.keys = "SUSPENDED", !.running = FALSE]
           suspended == [host EXCEPT !.keys = "SUSPENDED"]
           retired == [stopped EXCEPT !.status = "RECYCLED"]
           replies == RecycleReplies(host, l)
<1>1. host \in HostStates(Lease)
  BY DEF TypeOK
<1>2. /\ Shuts(host, host) /\ Shuts(host, stopped) /\ Shuts(host, suspended)
      /\ Shuts(host, retired)
  BY <1>1, HostShuts DEF HostStates, Shuts
<1>3. host.lease = l => PutAway(retired, l)
  BY <1>1 DEF HostStates, PutAway
<1>4. \/ replies = {Outcome(retired, "SUCCEEDED")} /\ host.lease = l
      \/ replies = {Outcome(stopped, "RETRYABLE")}
  BY DEF RecycleReplies, MarkRecycledAccepts
<1>5. RecycleFaults(host)
        = {Outcome(host, "REVIEW"), Outcome(host, "LOST"), Outcome(suspended, "RETRYABLE")}
  BY DEF RecycleFaults
<1> HIDE DEF stopped, suspended, retired, replies
<1>6. \A x \in replies : Shuts(host, x.host) /\ (x.reply = "SUCCEEDED" => PutAway(x.host, l))
  BY <1>2, <1>3, <1>4, OutcomeParts
<1>7. \A x \in RecycleFaults(host) : Shuts(host, x.host) /\ x.reply # "SUCCEEDED"
  BY <1>2, <1>5, <1>6, OutcomeParts
<1>8. QED
  BY <1>6, <1>7 DEF replies

LEMMA StopShuts ==
    ASSUME TypeOK, NEW w \in StopReplies(host) \cup StopFaults(host)
    PROVE  Shuts(host, w.host)
<1> DEFINE down == [host EXCEPT !.running = FALSE]
<1>1. Shuts(host, host) /\ Shuts(host, down)
  BY HostShuts DEF TypeOK
<1>2. StopReplies(host) \cup StopFaults(host)
        = {Outcome(down, "SUCCEEDED"), Outcome(host, "LOST"), Outcome(down, "LOST")}
  BY DEF StopReplies, StopFaults
<1> HIDE DEF down
<1>3. QED
  BY <1>1, <1>2, OutcomeParts

(* An environment that is put away is not started, not restored for        *)
(* another lease, and a rollback puts it away once more.                   *)
LEMMA StartShuts ==
    ASSUME TypeOK, host.status = "RECYCLED", NEW l, NEW expires, NEW starts, NEW t,
           NEW w \in StartReplies(host, l, expires, starts, t)
                       \cup StartFaults(host, l, expires, t)
    PROVE  Shuts(host, w.host)
<1> DEFINE down == [host EXCEPT !.running = FALSE]
           replies == StartReplies(host, l, expires, starts, t)
<1>1. Shuts(host, host) /\ Shuts(host, down)
  BY HostShuts DEF TypeOK
<1>2. replies \subseteq {Outcome(host, "ERROR"), Outcome(down, "ERROR")}
  BY DEF StartReplies, BindAccepts
<1>3. StartFaults(host, l, expires, t) \subseteq {Outcome(host, "LOST"), Outcome(down, "ERROR")}
  BY DEF StartFaults
<1> HIDE DEF down, replies
<1>4. \A x \in replies : Shuts(host, x.host)
  BY <1>1, <1>2, OutcomeParts
<1>5. \A x \in StartFaults(host, l, expires, t) : Shuts(host, x.host)
  BY <1>1, <1>3, OutcomeParts
<1>6. QED
  BY <1>4, <1>5 DEF replies

LEMMA RestoreShuts ==
    ASSUME TypeOK, NEW a, NEW r, host.lease # r, NEW current,
           NEW w \in RestoreReplies(host, a, r, current) \cup RestoreFaults(host, r, current)
    PROVE  Shuts(host, w.host)
<1> DEFINE off == [host EXCEPT !.keys = "SUSPENDED"]
           replies == RestoreReplies(host, a, r, current)
<1>1. Shuts(host, host) /\ Shuts(host, off)
  BY HostShuts DEF TypeOK
<1>2. replies \subseteq {Outcome(off, "ROLLED_BACK"), Outcome(host, "ERROR")}
  BY DEF RestoreReplies, RestoreAccepts
<1>3. RestoreFaults(host, r, current) \subseteq {Outcome(host, "LOST"), Outcome(off, "ROLLED_BACK")}
  BY DEF RestoreFaults, RestoreAccepts
<1> HIDE DEF off, replies
<1>4. \A x \in RestoreFaults(host, r, current) : Shuts(host, x.host)
  BY <1>1, <1>2, <1>3, OutcomeParts
<1>5. QED
  BY <1>1, <1>2, <1>4, OutcomeParts DEF replies

LEMMA RollbackShuts ==
    ASSUME TypeOK, NEW a, NEW r, host.status = "RECYCLED", NEW byOwner,
           NEW w \in RollbackReplies(host, a, r, byOwner) \cup RollbackFaults(host)
    PROVE  Shuts(host, w.host)
<1> DEFINE stopped == [host EXCEPT !.keys = "SUSPENDED", !.running = FALSE]
           replies == RollbackReplies(host, a, r, byOwner)
<1>1. Shuts(host, host) /\ Shuts(host, stopped)
  BY HostShuts DEF TypeOK
<1>2. host.lease = r => [stopped EXCEPT !.lease = r, !.status = "RECYCLED"] = stopped
  BY DEF TypeOK, HostStates
<1> replies \subseteq {Outcome(host, "ERROR"), Outcome(stopped, "ERROR"),
                       Outcome(stopped, "SUCCEEDED")}
  BY <1>2 DEF RollbackReplies, RollbackAccepts
<1>3. RollbackFaults(host) = {Outcome(host, "LOST")}
  BY DEF RollbackFaults
<1> HIDE DEF stopped, replies
<1>4. \A x \in replies : Shuts(host, x.host)
  BY <1>1, <1>2, OutcomeParts
<1>5. \A x \in RollbackFaults(host) : Shuts(host, x.host)
  BY <1>1, <1>3, OutcomeParts
<1>6. QED
  BY <1>4, <1>5 DEF replies

(* A failed restore stays failed.                                          *)
FailuresStay == \A q \in Restore : restore[q].state = "FAILED" => restore'[q] = restore[q]

LEMMA ContainedKept ==
    ASSUME NEW l \in Lease, Contained(l), Waits(l)' => Waits(l), FailuresStay,
           \/ host' = host
           \/ PutAway(host, l) => Shuts(host, host')
    PROVE  Contained(l)'
<1>1. PutAway(host, l) => PutAway(host', l)
  BY DEF PutAway, Shuts
<1>2. RestoreHasFailed(l) => RestoreHasFailed(l)'
  BY DEF RestoreHasFailed, FailuresStay
<1>3. QED
  BY <1>1, <1>2 DEF Contained, PutAway

LEMMA QuietContained ==
    ASSUME NEW l \in Lease, Contained(l), UNCHANGED <<item, restore, host>>
    PROVE  Contained(l)'
BY DEF Contained, Waits, PutAway, RestoreHasFailed

LEMMA CleanupContained ==
    ASSUME IInv, NEW l \in Lease, Contained(l), NEW m \in Lease,
           NEW w \in RecycleReplies(host, m) \cup RecycleFaults(host),
           Cleanup(m, w), UNCHANGED restore
    PROVE  Contained(l)'
<1>1. /\ TypeOK /\ item \in [Lease -> ItemState] /\ host' = w.host
      /\ Shuts(host, w.host) /\ (w.reply = "SUCCEEDED" => PutAway(w.host, m))
  BY RecycleShuts DEF Cleanup, IInv, TypeOK
<1>2. CASE w.reply = "SUCCEEDED" /\ l = m
  BY <1>1, <1>2 DEF Contained, PutAway
<1>3. CASE ~(w.reply = "SUCCEEDED" /\ l = m)
  <2>1. item'[l] = item[l]
    BY <1>1, <1>3 DEF Cleanup, RecordRecycled, RecordNotRecycled
  <2>2. FailuresStay /\ (Waits(l)' => Waits(l))
    BY <2>1 DEF FailuresStay, Waits
  <2>3. QED
    BY <1>1, <2>2, ContainedKept
<1>4. QED
  BY <1>2, <1>3

(* A request, a review and the begin of a restore move an item that waits. *)
LEMMA RequestContained ==
    ASSUME IInv, NEW l \in Lease, Contained(l),
           \/ \E q \in Restore, i \in Lease, d \in Durations : CreateRestore(q, i, d)
           \/ \E q \in Restore : ReplayRestore(q) \/ RejectRestore(q) \/ ApproveRestore(q)
    PROVE  Contained(l)'
<1>1. item \in [Lease -> ItemState] /\ restore \in [Restore -> RestoreRow]
  BY DEF IInv, TypeOK
<1>2. host' = host
  BY DEF CreateRestore, ReplayRestore, RejectRestore, ApproveRestore
<1>3. FailuresStay
  BY <1>1 DEF CreateRestore, ReplayRestore, RejectRestore, ApproveRestore, FailuresStay
<1>4. PICK i, s : /\ item' = [item EXCEPT ![i] = s]
                  /\ s = "RESTORING" \/ item[i] \in {"RECYCLE_BIN", "RESTORE_PENDING", "FAILED"}
  BY DEF CreateRestore, ReplayRestore, RejectRestore, ApproveRestore, AwaitReview,
         BeginRestore, Restorable
<1>5. Waits(l)' => Waits(l)
  BY <1>1, <1>4 DEF Waits
<1>6. QED
  BY <1>2, <1>3, <1>5, ContainedKept

LEMMA RestoreStepContained ==
    ASSUME IInv, NEW l \in Lease, Contained(l), RestoreStep
    PROVE  Contained(l)'
<1> DEFINE q == restoring.req
           i == RestoringItem
<1>1. /\ TypeOK /\ item \in [Lease -> ItemState] /\ restore \in [Restore -> RestoreRow]
      /\ q \in Restore /\ restore[q].state = "RESTORING" /\ item[i] = "RESTORING"
      /\ restore[q].item = i /\ i \in Lease
  BY DEF RestoreStep, RestoreRun, RestoreFinish, RestoreCrash, IInv, TypeOK,
         RestoreHoldsItsItem, RequestsRefer, RestoringItem
<1>2. Waits(l) => l # i
  BY <1>1 DEF Waits
<1>3. CASE RestoreRun
  <2> DEFINE a == restoring.lease
             current == lease[a].starts <= now /\ now < lease[a].expires
  <2>1. PICK w \in RestoreReplies(host, a, i, current) \cup RestoreFaults(host, i, current) :
           host' = w.host
    BY <1>3 DEF RestoreRun
  <2>2. UNCHANGED <<item, restore>>
    BY <1>3 DEF RestoreRun, rows
  <2>3. FailuresStay /\ (Waits(l)' => Waits(l))
    BY <2>2 DEF FailuresStay, Waits
  <2> HIDE DEF a, i, current
  <2>4. CASE Waits(l)
    <3>1. PutAway(host, l) => host.lease # i
      BY <1>2, <2>4 DEF PutAway
    <3>2. PutAway(host, l) => Shuts(host, host')
      BY <1>1, <2>1, <3>1, RestoreShuts
    <3>3. QED
      BY <2>3, <3>2, ContainedKept
  <2>5. CASE ~Waits(l)
    BY <2>3, <2>5 DEF Contained
  <2>6. QED
    BY <2>4, <2>5
<1>4. CASE RestoreFinish
  <2>1. PICK s \in {"RESTORED", "FAILED"} : restore' = [restore EXCEPT ![q].state = s]
    BY <1>4, RestoreEnd DEF RestoreFinish
  <2>2. PICK t \in {"RESTORED", "RECYCLE_BIN", "FAILED"} : item' = [item EXCEPT ![i] = t]
    BY <1>4, RestoreEnd DEF RestoreFinish
  <2>3. FailuresStay
    BY <1>1, <2>1 DEF FailuresStay
  <2>4. t = "RESTORED" \/ s = "FAILED"
    <3>1. CASE RestoreSaved
      <4>1. item'[i] = "RESTORED" /\ item'[i] = t
        BY <1>1, <2>2, <3>1 DEF RestoreSaved
      <4>2. QED
        BY <4>1
    <3>2. CASE RestoreError \/ RestoreUndone
      <4>1. restore'[q].state = "FAILED" /\ restore'[q].state = s
        BY <1>1, <2>1, <3>2 DEF RestoreError, RestoreUndone, RestoreFailed, RestoreRow
      <4>2. QED
        BY <4>1
    <3>3. QED
      BY <1>4, <3>1, <3>2 DEF RestoreFinish
  <2>5. CASE l = i
    <3>1. t = "RESTORED" => ~Waits(l)'
      BY <1>1, <2>2, <2>5 DEF Waits
    <3>2. s = "FAILED" => restore'[q].state = "FAILED" /\ restore'[q].item = l
      BY <1>1, <2>1, <2>5 DEF RestoreRow
    <3>3. QED
      BY <1>1, <2>4, <3>1, <3>2 DEF Contained, RestoreHasFailed
  <2>6. CASE l # i
    <3>1. Waits(l)' => Waits(l)
      BY <1>1, <2>2, <2>6 DEF Waits
    <3>2. host' = host \/ \E w \in RollbackReplies(host, restoring.lease, i, restoring.by = "OWNER")
                             \cup RollbackFaults(host) :
                             host' = w.host
      BY <1>4 DEF RestoreFinish, RestoreSaved, RestoreError, RestoreUndone
    <3> HIDE DEF i
    <3>3. PutAway(host, l) => host.status = "RECYCLED"
      BY DEF PutAway
    <3>4. host' = host \/ (PutAway(host, l) => Shuts(host, host'))
      BY <1>1, <3>2, <3>3, RollbackShuts
    <3>5. QED
      BY <2>3, <3>1, <3>4, ContainedKept
  <2>7. QED
    BY <2>5, <2>6
<1>5. CASE RestoreCrash
  BY <1>5, QuietContained DEF RestoreCrash, rows
<1>6. QED
  BY <1>3, <1>4, <1>5 DEF RestoreStep

LEMMA ButtonsContained ==
    ASSUME IInv, NEW l \in Lease, Contained(l), StartContainer \/ StopContainer
    PROVE  Contained(l)'
<1>1. TypeOK /\ UNCHANGED <<item, restore>>
  BY DEF IInv, StartContainer, StopContainer, rows
<1>2. FailuresStay /\ (Waits(l)' => Waits(l))
  BY <1>1 DEF FailuresStay, Waits
<1>3. CASE StartContainer
  <2>1. PICK w \in StartReplies(host, EntitledLease, LeaseEnds, LeaseStarts, now)
                     \cup StartFaults(host, EntitledLease, LeaseEnds, now) :
           host' = w.host
    BY <1>3 DEF StartContainer
  <2>2. PutAway(host, l) => Shuts(host, host')
    BY <1>1, <2>1, StartShuts DEF PutAway
  <2>3. QED
    BY <1>2, <2>2, ContainedKept
<1>4. CASE StopContainer
  <2>1. Shuts(host, host')
    BY <1>1, <1>4, StopShuts DEF StopContainer
  <2>2. QED
    BY <1>2, <2>1, ContainedKept
<1>5. QED
  BY <1>3, <1>4

(* A restore whose answer nobody waits for belongs to an item that nothing *)
(* but its own failure releases, or to one of which a restore has failed.  *)
Abandoned(i) ==
    /\ item[i] = "RESTORING"
    /\ restoring.req # None /\ RestoringItem = i => restoring.reply = "LOST"

LeftRestoresFit ==
    \A c \in left : c.op = "restore" => RestoreHasFailed(c.item) \/ Abandoned(c.item)

LEMMA ServedContained ==
    ASSUME IInv, NEW l \in Lease, Contained(l), LeftRestoresFit, NEW c \in left, ServeLeft(c)
    PROVE  Contained(l)'
<1>1. TypeOK /\ UNCHANGED <<item, restore>>
  BY DEF IInv, ServeLeft, rows
<1>2. FailuresStay /\ (Waits(l)' => Waits(l))
  BY <1>1 DEF FailuresStay, Waits
<1>3. CASE ServeRecycle(c)
  <2>1. Shuts(host, host')
    BY <1>1, <1>3, RecycleShuts DEF ServeRecycle, ServeAs
  <2>2. QED
    BY <1>2, <2>1, ContainedKept
<1>4. CASE ServeRestore(c)
  <2>1. CASE Waits(l) /\ ~RestoreHasFailed(l)
    <3>1. c.item # l
      BY <1>4, <2>1 DEF LeftRestoresFit, Abandoned, Waits, ServeRestore, ServeAs
    <3>2. PutAway(host, l) => Shuts(host, host')
      BY <1>1, <1>4, <3>1, RestoreShuts DEF ServeRestore, ServeAs, PutAway
    <3>3. QED
      BY <1>2, <3>2, ContainedKept
  <2>2. CASE ~(Waits(l) /\ ~RestoreHasFailed(l))
    BY <1>1, <1>2, <2>2 DEF Contained, RestoreHasFailed
  <2>3. QED
    BY <2>1, <2>2
<1>5. CASE ServeRollback(c)
  <2>1. PutAway(host, l) => Shuts(host, host')
    BY <1>1, <1>5, RollbackShuts DEF ServeRollback, ServeAs, PutAway
  <2>2. QED
    BY <1>2, <2>1, ContainedKept
<1>6. CASE ServeStart(c)
  <2>1. PutAway(host, l) => Shuts(host, host')
    BY <1>1, <1>6, StartShuts DEF ServeStart, ServeAs, PutAway
  <2>2. QED
    BY <1>2, <2>1, ContainedKept
<1>7. QED
  BY <1>3, <1>4, <1>5, <1>6 DEF ServeLeft

(* No restore is left with the Worker by this step.                        *)
NoRestoreLeft ==
    \A c \in left' : c.op = "restore" => \E b \in left : b.op = "restore" /\ b.item = c.item

LEMMA LeftRestoresKept ==
    ASSUME TypeOK, LeftRestoresFit, NoRestoreLeft, FailuresStay, UNCHANGED <<restore, restoring>>,
           \A i \in Lease : item[i] = "RESTORING" => item'[i] = "RESTORING"
    PROVE  LeftRestoresFit'
<1>1. \A c \in left : c.op = "restore" => c.item \in Lease
  BY DEF TypeOK, LeftCalls
<1>2. QED
  BY <1>1 DEF LeftRestoresFit, NoRestoreLeft, FailuresStay, RestoreHasFailed, Abandoned,
              RestoringItem

LEMMA QuietLeft ==
    ASSUME IInv, LeftRestoresFit, UNCHANGED <<item, restore, restoring, left>>
    PROVE  LeftRestoresFit'
BY LeftRestoresKept DEF IInv, FailuresStay, NoRestoreLeft

LEMMA CleanupLeft ==
    ASSUME IInv, LeftRestoresFit, NEW m \in Lease,
           NEW w \in RecycleReplies(host, m) \cup RecycleFaults(host),
           Cleanup(m, w), UNCHANGED <<restore, restoring>>
    PROVE  LeftRestoresFit'
<1>1. NoRestoreLeft
  BY DEF Cleanup, Leaves, LeftCall, NoRestoreLeft
<1>2. \A i \in Lease : item[i] = "RESTORING" => item'[i] = "RESTORING"
  <2>1. \/ item' = item
        \/ item' = [item EXCEPT ![m] = IF item[m] = "NONE" THEN "RECYCLE_BIN" ELSE item[m]]
    BY DEF Cleanup, RecordRecycled, RecordNotRecycled
  <2>2. item \in [Lease -> ItemState]
    BY DEF IInv, TypeOK
  <2>3. QED
    BY <2>1, <2>2
<1>3. QED
  BY <1>1, <1>2, LeftRestoresKept DEF IInv, FailuresStay

LEMMA ServedLeft ==
    ASSUME IInv, LeftRestoresFit, NEW c \in left, ServeLeft(c)
    PROVE  LeftRestoresFit'
<1>1. /\ c \in LeftCalls
      /\ [c EXCEPT !.served = TRUE].op = c.op /\ [c EXCEPT !.served = TRUE].item = c.item
  BY DEF IInv, TypeOK, LeftCalls
<1>2. NoRestoreLeft
  BY <1>1 DEF ServeLeft, NoRestoreLeft
<1>3. QED
  BY <1>2, LeftRestoresKept DEF IInv, ServeLeft, FailuresStay, rows

(* A request takes an item in hand only when no restore of it is under way. *)
LEMMA RequestLeft ==
    ASSUME IInv, LeftRestoresFit,
           \/ \E q \in Restore, i \in Lease, d \in Durations : CreateRestore(q, i, d)
           \/ \E q \in Restore : ReplayRestore(q) \/ RejectRestore(q) \/ ApproveRestore(q)
    PROVE  LeftRestoresFit'
<1>1. /\ item \in [Lease -> ItemState] /\ restore \in [Restore -> RestoreRow]
      /\ left' = left
      /\ restoring.req # None => restoring.req \in Restore
                               /\ restore[restoring.req].state = "RESTORING"
  BY DEF IInv, TypeOK, RestoreHoldsItsItem, CreateRestore, ReplayRestore, RejectRestore,
         ApproveRestore
<1>2. FailuresStay
  BY <1>1 DEF CreateRestore, ReplayRestore, RejectRestore, ApproveRestore, FailuresStay
<1>3. PICK i, s : /\ item' = [item EXCEPT ![i] = s] /\ item[i] # "RESTORING"
                  /\ \/ restoring' = restoring
                     \/ restoring'.req \in Restore /\ restore'[restoring'.req].item = i
  <2>1. ASSUME NEW q \in Restore, NEW i \in Lease, NEW d \in Durations, CreateRestore(q, i, d)
        PROVE  /\ \E s : item' = [item EXCEPT ![i] = s]
               /\ item[i] # "RESTORING"
               /\ \/ restoring' = restoring
                  \/ restoring'.req \in Restore /\ restore'[restoring'.req].item = i
    BY <1>1, <2>1 DEF CreateRestore, AwaitReview, BeginRestore, Restorable
  <2>2. ASSUME NEW q \in Restore, ReplayRestore(q) \/ RejectRestore(q)
        PROVE  /\ \E s : item' = [item EXCEPT ![restore[q].item] = s]
               /\ item[restore[q].item] # "RESTORING" /\ restoring' = restoring
    BY <2>2 DEF ReplayRestore, AwaitReview, RejectRestore, Restorable
  <2>3. ASSUME NEW q \in Restore, ApproveRestore(q)
        PROVE  /\ \E s : item' = [item EXCEPT ![restore[q].item] = s]
               /\ item[restore[q].item] # "RESTORING"
               /\ restoring'.req = q /\ restore'[q].item = restore[q].item
    BY <1>1, <2>3 DEF ApproveRestore, BeginRestore, RestoreRow
  <2>4. QED
    BY <2>1, <2>2, <2>3
<1>4. \A q \in Restore : restore[q].state = "RESTORING" => restore'[q].item = restore[q].item
  BY <1>1 DEF CreateRestore, ReplayRestore, RejectRestore, ApproveRestore, RestoreRow
<1>5. ASSUME NEW c \in left, c.op = "restore", Abandoned(c.item)
      PROVE  Abandoned(c.item)'
  <2>1. i # c.item /\ item'[c.item] = "RESTORING"
    BY <1>1, <1>3, <1>5 DEF Abandoned
  <2>2. CASE restoring' = restoring
    BY <1>1, <1>4, <1>5, <2>1, <2>2 DEF Abandoned, RestoringItem
  <2>3. CASE restoring'.req \in Restore /\ restore'[restoring'.req].item = i
    BY <2>1, <2>3 DEF Abandoned, RestoringItem
  <2>4. QED
    BY <1>3, <2>2, <2>3
<1>6. \A c \in left : RestoreHasFailed(c.item) => RestoreHasFailed(c.item)'
  BY <1>2 DEF RestoreHasFailed, FailuresStay
<1>7. QED
  BY <1>1, <1>5, <1>6 DEF LeftRestoresFit

LEMMA RestoreStepLeft ==
    ASSUME IInv, LeftRestoresFit, RestoreStep
    PROVE  LeftRestoresFit'
<1> DEFINE q == restoring.req
           i == RestoringItem
<1>1. /\ TypeOK /\ item \in [Lease -> ItemState] /\ restore \in [Restore -> RestoreRow]
      /\ q \in Restore /\ restore[q].state = "RESTORING" /\ item[i] = "RESTORING"
      /\ restore[q].item = i /\ i \in Lease /\ q # None
  BY DEF RestoreStep, RestoreRun, RestoreFinish, RestoreCrash, IInv, TypeOK,
         RestoreHoldsItsItem, RequestsRefer, RestoringItem
<1>2. CASE RestoreRun \/ RestoreCrash
  <2>1. UNCHANGED <<item, restore>> /\ (restoring'.req = None \/ restoring'.req = q)
    BY <1>1, <1>2 DEF RestoreRun, RestoreCrash, rows, NoRestoring, TypeOK
  <2>2. \A c \in left' : c \in left \/ (c.op = "restore" => c.item = i)
    BY <1>2 DEF RestoreRun, RestoreCrash, Leaves, LeftCall
  <2>3. CASE RestoreCrash
    <3>1. restoring'.req = None
      BY <2>3 DEF RestoreCrash, NoRestoring
    <3>2. QED
      BY <1>1, <2>1, <2>2, <3>1 DEF LeftRestoresFit, RestoreHasFailed, Abandoned
  <2>4. CASE RestoreRun
    <3>1. restoring.reply = "PENDING"
      BY <2>4 DEF RestoreRun
    <3>2. \A c \in left : c.op = "restore" => RestoreHasFailed(c.item) \/ c.item # i
      BY <1>1, <3>1 DEF LeftRestoresFit, Abandoned
    <3>3. left' # left => restoring'.reply = "LOST"
      BY <1>1, <2>4 DEF RestoreRun, Leaves, TypeOK
    <3>4. RestoringItem' = i
      BY <1>1, <2>1, <2>4 DEF RestoreRun, RestoringItem, TypeOK
    <3>5. ASSUME NEW c \in left', c.op = "restore"
          PROVE  RestoreHasFailed(c.item)' \/ Abandoned(c.item)'
      <4>1. CASE c \in left
        BY <1>1, <2>1, <3>2, <3>4, <3>5, <4>1 DEF LeftRestoresFit, RestoreHasFailed, Abandoned
      <4>2. CASE c \notin left
        <5>1. c.item = i /\ restoring'.reply = "LOST"
          BY <2>2, <3>3, <3>5, <4>2
        <5>2. item'[c.item] = "RESTORING"
          BY <1>1, <2>1, <5>1
        <5>3. QED
          BY <5>1, <5>2 DEF Abandoned
      <4>3. QED
        BY <4>1, <4>2
    <3>6. QED
      BY <3>5 DEF LeftRestoresFit
  <2>5. QED
    BY <1>2, <2>3, <2>4
<1>3. CASE RestoreFinish
  <2>1. PICK s \in {"RESTORED", "FAILED"} : restore' = [restore EXCEPT ![q].state = s]
    BY <1>3, RestoreEnd DEF RestoreFinish
  <2>2. PICK t \in {"RESTORED", "RECYCLE_BIN", "FAILED"} : item' = [item EXCEPT ![i] = t]
    BY <1>3, RestoreEnd DEF RestoreFinish
  <2>3. FailuresStay
    BY <1>1, <2>1 DEF FailuresStay
  <2>4. (restoring.reply = "SUCCEEDED" /\ left' = left) \/ restore'[q].state = "FAILED"
    BY <1>1, <1>3 DEF RestoreFinish, RestoreSaved, RestoreError, RestoreUndone, RestoreFailed,
                      RestoreRow
  <2>5. \A c \in left' : c.op = "restore" => c \in left
    BY <1>3 DEF RestoreFinish, RestoreSaved, RestoreError, RestoreUndone, Leaves, LeftCall
  <2>6. restoring'.req = None
    BY <1>3 DEF RestoreFinish, NoRestoring
  <2>7. restore'[q].item = i
    BY <1>1, <2>1 DEF RestoreRow
  <2>8. ASSUME NEW c \in left', c.op = "restore"
        PROVE  RestoreHasFailed(c.item)' \/ Abandoned(c.item)'
    <3>1. CASE RestoreHasFailed(c.item)
      BY <2>3, <3>1 DEF RestoreHasFailed, FailuresStay
    <3>2. CASE c.item = i /\ restore'[q].state = "FAILED"
      BY <1>1, <2>7, <3>2 DEF RestoreHasFailed
    <3>3. CASE ~RestoreHasFailed(c.item) /\ ~(c.item = i /\ restore'[q].state = "FAILED")
      <4>1. Abandoned(c.item)
        BY <2>5, <2>8, <3>3 DEF LeftRestoresFit
      <4>2. c.item # i
        BY <1>1, <2>4, <3>3, <4>1 DEF Abandoned
      <4>3. item'[c.item] = "RESTORING"
        BY <1>1, <2>2, <4>1, <4>2 DEF Abandoned
      <4>4. QED
        BY <2>6, <4>3 DEF Abandoned
    <3>4. QED
      BY <3>1, <3>2, <3>3
  <2>9. QED
    BY <2>8 DEF LeftRestoresFit
<1>4. QED
  BY <1>2, <1>3 DEF RestoreStep

LEMMA NextLeft ==
    ASSUME IInv, [Next]_vars, LeftRestoresFit
    PROVE  LeftRestoresFit'
<1>1. CASE Tick \/ UNCHANGED vars
  BY <1>1, QuietLeft DEF Tick, vars, rows
<1>2. CASE OwnerStep
  <2>1. CASE StartContainer
    <3>1. NoRestoreLeft /\ UNCHANGED <<item, restore, restoring>>
      BY <2>1 DEF StartContainer, Leaves, LeftCall, NoRestoreLeft
    <3>2. QED
      BY <3>1, LeftRestoresKept DEF IInv, FailuresStay
  <2>2. QED
    BY <1>2, <2>1, QuietLeft, RequestLeft
       DEF OwnerStep, RequestRenewal, AutoRenew, AutoRenewLate, UseLease, StopContainer, rows
<1>3. CASE AdminStep
  <2>1. ASSUME NEW m \in Lease, RetryRecycle(m) PROVE LeftRestoresFit'
    BY <2>1, CleanupLeft DEF RetryRecycle
  <2>2. QED
    BY <1>3, <2>1, QuietLeft, RequestLeft
       DEF AdminStep, DecideStart, DecideCommit, SetPolicy, rows
<1>4. CASE ScanStep
  <2>1. ASSUME NEW m \in Lease, ScanRecycle(m) PROVE LeftRestoresFit'
    BY <2>1, CleanupLeft DEF ScanRecycle
  <2>2. CASE ScanCrash
    <3>1. NoRestoreLeft /\ UNCHANGED <<item, restore, restoring>>
      BY <2>2 DEF ScanCrash, LeftCall, NoRestoreLeft, rows
    <3>2. QED
      BY <3>1, LeftRestoresKept DEF IInv, FailuresStay
  <2>3. QED
    BY <1>4, <2>1, <2>2, QuietLeft
       DEF ScanStep, ScanCancel, ScanRead, ScanLook, ScanActivate, ScanPass, rows
<1>5. CASE RestoreStep
  BY <1>5, RestoreStepLeft
<1>6. CASE WorkerStep
  BY <1>6, ServedLeft DEF WorkerStep
<1>7. QED
  BY <1>1, <1>2, <1>3, <1>4, <1>5, <1>6 DEF Next

LEMMA NextContained ==
    ASSUME IInv, [Next]_vars, LeftRestoresFit, NEW l \in Lease, Contained(l)
    PROVE  Contained(l)'
<1>1. CASE Tick
  BY <1>1, QuietContained DEF Tick, rows
<1>2. CASE OwnerStep
  BY <1>2, QuietContained, RequestContained, ButtonsContained
     DEF OwnerStep, RequestRenewal, AutoRenew, AutoRenewLate, UseLease
<1>3. CASE AdminStep
  <2>1. ASSUME NEW m \in Lease, RetryRecycle(m) PROVE Contained(l)'
    BY <2>1, CleanupContained DEF RetryRecycle
  <2>2. QED
    BY <1>3, <2>1, QuietContained, RequestContained
       DEF AdminStep, DecideStart, DecideCommit, SetPolicy, rows
<1>4. CASE ScanStep
  <2>1. ASSUME NEW m \in Lease, ScanRecycle(m) PROVE Contained(l)'
    BY <2>1, CleanupContained DEF ScanRecycle
  <2>2. QED
    BY <1>4, <2>1, QuietContained
       DEF ScanStep, ScanCancel, ScanRead, ScanLook, ScanActivate, ScanPass, ScanCrash, rows
<1>5. CASE RestoreStep
  BY <1>5, RestoreStepContained
<1>6. CASE WorkerStep
  BY <1>6, ServedContained DEF WorkerStep
<1>7. CASE UNCHANGED vars
  BY <1>7, QuietContained DEF vars, rows
<1>8. QED
  BY <1>1, <1>2, <1>3, <1>4, <1>5, <1>6, <1>7 DEF Next

(* An item in the bin is put away on the host under its own lease, unless  *)
(* a restore of it has failed before: no button, late cleanup, restore or  *)
(* rollback of another lease, answered or served after its caller gave up, *)
(* and no decision however late, brings it up.                             *)
THEOREM BinIsContained == Spec => []RecycleBinIsContained
<1> DEFINE BInv == LeftRestoresFit /\ \A l \in Lease : Contained(l)
<1>1. Init => BInv
  BY DEF Init, LeftRestoresFit, Contained, Waits
<1>2. IInv /\ BInv /\ [Next]_vars => BInv'
  BY NextLeft, NextContained
<1>3. BInv => RecycleBinIsContained
  BY DEF Contained, Waits, PutAway, RestoreHasFailed, RecycleBinIsContained
<1> HIDE DEF BInv
<1>4. QED
  BY <1>1, <1>2, <1>3, Invariance, PTL DEF Spec
=============================================================================
