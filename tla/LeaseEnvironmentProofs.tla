------------------------ MODULE LeaseEnvironmentProofs ------------------------
(***************************************************************************)
(* The environment of an entitled owner is up, proved for LeaseLifecycle   *)
(* when a decision on a renewal does not wait for its locks                *)
(* (MaxDecisionLag = 0), and as long as no lease was cleaned up that had   *)
(* moved on behind the expiry worker.                                      *)
(*                                                                         *)
(* The order of the leases (EInv) says when a cleanup may begin: nothing   *)
(* but its own lease goes on, and no lease runs.  That must last: a call   *)
(* of the Root Worker that was left is served at any later time.  So the   *)
(* invariant says of every cleanup that was left that its lease is         *)
(* recycled by now or still the last one (Ended), and of the lifecycle     *)
(* file that while a lease runs it names a lease no such call can retire.  *)
(***************************************************************************)
EXTENDS LeaseEntitlementProofs

Runs == \E m \in SavedIn(lease) : now < lease[m].expires

KeysFit == host.keys = "INSTALLED" \/ LateCallServed

Up ==
    /\ owner.env = "ACTIVE"
    /\ host.status = "ACTIVE" /\ KeysFit
    /\ host.lease \in SavedIn(lease) /\ ~lease[host.lease].recycled

(* Nothing but l goes on, and no lease runs.                               *)
Ended(l) == ~Runs /\ \A m \in TipsIn(lease, now) \cup OpenIn(item) : m = l

(* The expiry worker waits for no other lease that it may still clean up.  *)
ScanHarmless(l) ==
    \/ scan.lease \in {None, l} \cup overtaken
    \/ lease[scan.lease].recycled

CleanupFits(l) == ~lease[l].recycled => Ended(l) /\ ScanHarmless(l)

(* The calls that were left name leases in the database, or the one that   *)
(* a restore failed to record.                                             *)
CallRefers(c) ==
    /\ c.op \in {"recycle", "start"} => c.lease \in SavedIn(lease)
    /\ c.op = "rollback" => lease[c.lease].state = "UNSAVED" /\ c.lease # restoring.lease

CallsInv == \A c \in left : CallRefers(c)

(* Between its two commits a restore that succeeded is the last word.      *)
RestoredHost ==
    restoring.req # None /\ restoring.reply = "SUCCEEDED" =>
        host.status = "ACTIVE" /\ host.lease = restoring.lease /\ KeysFit

UpInv ==
    /\ Runs => Up
    /\ \A c \in left : c.op = "recycle" => CleanupFits(c.lease)
    /\ RestoredHost

-----------------------------------------------------------------------------
(* The calls that were left.                                               *)

(* A call is one of before, or one that was left just now.                 *)
OldCall(c) == \E b \in left : b.op = c.op /\ b.lease = c.lease

CleanupCalled(l) == ScanRecycle(l) \/ RetryRecycle(l) \/ (ScanCrash /\ MayRecycle(l))

NewCall(c) ==
    \/ c.op = "recycle" /\ c.lease \in Lease /\ CleanupCalled(c.lease)
    \/ c.op = "start" /\ StartContainer /\ c.lease = EntitledLease
    \/ c.op = "restore"
    \/ c.op = "rollback" /\ RestoreFinish /\ c.lease = restoring.lease

LEMMA LeftCallParts ==
    ASSUME NEW o, NEW l, NEW i
    PROVE  LeftCall(o, l, i).op = o /\ LeftCall(o, l, i).lease = l
BY DEF LeftCall

LEMMA CallsCome ==
    ASSUME IInv, [Next]_vars, NEW c \in left'
    PROVE  OldCall(c) \/ NewCall(c)
<1>1. CASE c \in left
  BY <1>1 DEF OldCall
<1>2. CASE c \notin left
  <2>1. ASSUME NEW l \in Lease, ScanRecycle(l) \/ RetryRecycle(l) PROVE NewCall(c)
    <3>1. c = LeftCall("recycle", l, None)
      BY <1>2, <2>1 DEF ScanRecycle, RetryRecycle, Cleanup, Leaves
    <3>2. c.op = "recycle" /\ c.lease = l
      BY <3>1, LeftCallParts
    <3>3. QED
      BY <2>1, <3>2 DEF NewCall, CleanupCalled
  <2>2. CASE ScanCrash
    <3>1. PICK l \in Lease : MayRecycle(l) /\ c = LeftCall("recycle", l, None)
      BY <1>2, <2>2 DEF ScanCrash
    <3>2. c.op = "recycle" /\ c.lease = l
      BY <3>1, LeftCallParts
    <3>3. QED
      BY <2>2, <3>1, <3>2 DEF NewCall, CleanupCalled
  <2>3. CASE StartContainer
    <3>1. c = LeftCall("start", EntitledLease, None)
      BY <1>2, <2>3 DEF StartContainer, Leaves
    <3>2. QED
      BY <2>3, <3>1, LeftCallParts DEF NewCall
  <2>4. CASE RestoreRun \/ RestoreCrash
    <3>1. c = LeftCall("restore", restoring.lease, RestoringItem)
      BY <1>2, <2>4 DEF RestoreRun, RestoreCrash, Leaves
    <3>2. QED
      BY <3>1, LeftCallParts DEF NewCall
  <2>5. CASE RestoreFinish
    <3>1. c = LeftCall("rollback", restoring.lease, RestoringItem)
      BY <1>2, <2>5 DEF RestoreFinish, RestoreSaved, RestoreError, RestoreUndone, Leaves
    <3>2. QED
      BY <2>5, <3>1, LeftCallParts DEF NewCall
  <2>6. ASSUME NEW b \in left, ServeLeft(b) PROVE OldCall(c)
    <3>1. c = [b EXCEPT !.served = TRUE] /\ b \in LeftCalls
      BY <1>2, <2>6 DEF ServeLeft, IInv, TypeOK
    <3>2. c.op = b.op /\ c.lease = b.lease
      BY <3>1 DEF LeftCalls
    <3>3. QED
      BY <3>2 DEF OldCall
  <2>7. CASE Tick \/ UNCHANGED vars
    BY <1>2, <2>7 DEF Tick, vars
  <2>8. CASE OwnerStep
    BY <1>2, <2>3, <2>8 DEF OwnerStep, RequestRenewal, AutoRenew, AutoRenewLate, CreateRestore,
       ReplayRestore, UseLease, StopContainer
  <2>9. CASE AdminStep
    BY <1>2, <2>1, <2>9 DEF AdminStep, DecideStart, DecideCommit, SetPolicy, RejectRestore,
       ApproveRestore
  <2>10. CASE ScanStep
    BY <1>2, <2>1, <2>2, <2>10 DEF ScanStep, ScanCancel, ScanRead, ScanLook, ScanActivate, ScanPass
  <2>11. QED
    BY <2>4, <2>5, <2>6, <2>7, <2>8, <2>9, <2>10 DEF Next, RestoreStep, WorkerStep
<1>3. QED
  BY <1>1, <1>2

(* No call is taken back.                                                  *)
LEMMA CallsStay ==
    ASSUME IInv, [Next]_vars, NEW c \in left
    PROVE  \E b \in left' : /\ b.op = c.op /\ b.lease = c.lease
                            /\ c.served => b.served
<1>1. CASE c \in left'
  BY <1>1
<1>2. CASE left' = left
  BY <1>2
<1>3. ASSUME NEW d \in left, ServeLeft(d)
      PROVE  \E b \in left' : /\ b.op = c.op /\ b.lease = c.lease
                              /\ c.served => b.served
  <2>1. CASE c # d
    BY <1>3, <2>1 DEF ServeLeft
  <2>2. CASE c = d
    <3>1. /\ [c EXCEPT !.served = TRUE].op = c.op /\ [c EXCEPT !.served = TRUE].lease = c.lease
          /\ [c EXCEPT !.served = TRUE].served
      BY DEF IInv, TypeOK, LeftCalls
    <3>2. [c EXCEPT !.served = TRUE] \in left'
      BY <1>3, <2>2 DEF ServeLeft
    <3>3. QED
      BY <3>1, <3>2
  <2>3. QED
    BY <2>1, <2>2
<1>4. CASE WorkerStep
  BY <1>3, <1>4 DEF WorkerStep
<1>5. CASE OwnerStep
  BY <1>1, <1>2, <1>5 DEF OwnerStep, RequestRenewal, AutoRenew, AutoRenewLate, CreateRestore,
     ReplayRestore, UseLease, StartContainer, StopContainer, Leaves
<1>6. CASE AdminStep
  BY <1>1, <1>2, <1>6 DEF AdminStep, DecideStart, DecideCommit, SetPolicy, RejectRestore,
     ApproveRestore, RetryRecycle, Cleanup, Leaves
<1>7. CASE ScanStep
  BY <1>1, <1>2, <1>7 DEF ScanStep, ScanCancel, ScanRead, ScanLook, ScanActivate, ScanPass,
     ScanRecycle, ScanCrash, Cleanup, Leaves
<1>8. CASE RestoreStep
  BY <1>1, <1>2, <1>8 DEF RestoreStep, RestoreRun, RestoreFinish, RestoreCrash, RestoreSaved,
     RestoreError, RestoreUndone, Leaves
<1>9. CASE Tick \/ UNCHANGED vars
  BY <1>2, <1>9 DEF Tick, vars
<1>10. QED
  BY <1>4, <1>5, <1>6, <1>7, <1>8, <1>9 DEF Next

(* What was served stays served.                                           *)
LEMMA ServedStays ==
    ASSUME IInv, [Next]_vars, LateCallServed
    PROVE  LateCallServed'
BY CallsStay DEF LateCallServed

-----------------------------------------------------------------------------
(* What every step does to the rows.                                       *)

LEMMA StepKeeps ==
    ASSUME NoLag, IInv, BinInv, IInv', [Next]_vars
    PROVE  \/ Keeps(lease, lease')
           \/ \E l \in Lease : ScanRecycle(l) \/ RetryRecycle(l)
           \/ RestoreFinish
<1>1. CASE Tick
  BY <1>1, TickBin
<1>2. CASE OwnerStep
  BY <1>2, RenewalBin, RequestBin, UseBin, IdleBin DEF OwnerStep
<1>3. CASE AdminStep
  BY <1>3, DecisionBin, RequestBin, IdleBin DEF AdminStep
<1>4. CASE ScanStep
  BY <1>4, LookBin, ActivateBin, IdleBin DEF ScanStep
<1>5. CASE RestoreRun
  BY <1>5, IdleBin
<1>6. CASE RestoreCrash
  <2>1. lease' = lease
    BY <1>6 DEF RestoreCrash, rows
  <2>2. QED
    BY <2>1, SameKeeps
<1>7. CASE WorkerStep \/ UNCHANGED vars
  BY <1>7, IdleBin DEF WorkerStep
<1>8. QED
  BY <1>1, <1>2, <1>3, <1>4, <1>5, <1>6, <1>7 DEF Next, RestoreStep

LEMMA CleanupRows ==
    ASSUME IInv, BinInv, NEW l \in Lease, ScanRecycle(l) \/ RetryRecycle(l)
    PROVE  /\ l \in SavedIn(lease) /\ lease[l].expires <= now /\ ~lease[l].recycled
           /\ \A m \in Lease \ {l} : lease'[m] = lease[m]
           /\ lease'[l].starts = lease[l].starts /\ lease'[l].expires = lease[l].expires
           /\ lease'[l].prev = lease[l].prev
           /\ \/ lease'[l].recycled
              \/ /\ lease'[l].state = "EXPIRED" /\ lease'[l].recycled = lease[l].recycled
                 /\ item' = item
           /\ SavedIn(lease') = SavedIn(lease)
           /\ UNCHANGED <<now, restoring, overtaken>>
<1>1. l \in SavedIn(lease) /\ lease[l].expires <= now /\ ~lease[l].recycled
  BY CleanableBin DEF ScanRecycle, RetryRecycle, MayRecycle
<1>2. PICK w : Cleanup(l, w)
  BY DEF ScanRecycle, RetryRecycle
<1>3. lease \in [Lease -> LeaseRow] /\ UNCHANGED <<now, restoring, overtaken>>
  BY DEF IInv, TypeOK, ScanRecycle, RetryRecycle
<1>4. CASE w.reply = "SUCCEEDED"
  <2>1. lease' = [lease EXCEPT ![l] = [@ EXCEPT !.state = "RECYCLE_BIN", !.recycled = TRUE]]
    BY <1>2, <1>4 DEF Cleanup, RecordRecycled
  <2>2. /\ lease'[l].recycled /\ lease'[l].state = "RECYCLE_BIN"
        /\ lease'[l].starts = lease[l].starts /\ lease'[l].expires = lease[l].expires
        /\ lease'[l].prev = lease[l].prev
        /\ \A m \in Lease \ {l} : lease'[m] = lease[m]
    BY <1>3, <2>1 DEF LeaseRow
  <2>3. SavedIn(lease') = SavedIn(lease)
    BY <1>1, <2>2 DEF SavedIn
  <2>4. QED
    BY <1>1, <1>3, <2>2, <2>3
<1>5. CASE w.reply # "SUCCEEDED"
  <2>1. lease' = [lease EXCEPT ![l].state = "EXPIRED"] /\ item' = item
    BY <1>2, <1>5 DEF Cleanup, RecordNotRecycled
  <2>2. /\ lease'[l].recycled = lease[l].recycled /\ lease'[l].state = "EXPIRED"
        /\ lease'[l].starts = lease[l].starts /\ lease'[l].expires = lease[l].expires
        /\ lease'[l].prev = lease[l].prev
        /\ \A m \in Lease \ {l} : lease'[m] = lease[m]
    BY <1>3, <2>1 DEF LeaseRow
  <2>3. SavedIn(lease') = SavedIn(lease)
    BY <1>1, <2>2 DEF SavedIn
  <2>4. QED
    BY <1>1, <1>3, <2>1, <2>2, <2>3
<1>6. QED
  BY <1>4, <1>5

LEMMA FinishRows ==
    ASSUME IInv, BinInv, RestoreFinish
    PROVE  /\ restoring.req # None /\ restoring' = NoRestoring /\ now' = now
           /\ restoring.lease \in Lease /\ lease[restoring.lease].state = "UNSAVED"
           /\ \A m \in Lease \ {restoring.lease} : lease'[m] = lease[m]
           /\ lease'[restoring.lease].starts = lease[restoring.lease].starts
           /\ lease'[restoring.lease].expires = lease[restoring.lease].expires
           /\ lease'[restoring.lease].recycled = lease[restoring.lease].recycled
           /\ ~RestoreSaved => lease' = lease
           /\ RestoreSaved => lease'[restoring.lease].state = "ACTIVE"
<1> DEFINE a == restoring.lease
<1>1. /\ restoring.req # None /\ restoring' = NoRestoring /\ now' = now
      /\ a \in Lease /\ lease[a].state = "UNSAVED" /\ lease \in [Lease -> LeaseRow]
  BY RestoringIsOpen DEF RestoreFinish, BinInv, IInv, TypeOK
<1>2. /\ ~RestoreSaved => lease' = lease
      /\ RestoreSaved => lease' = [lease EXCEPT ![a].state = "ACTIVE"]
  BY DEF RestoreFinish, RestoreSaved, RestoreError, RestoreUndone, RestoreFailed
<1> HIDE DEF a
<1>3. QED
  BY <1>1, <1>2 DEF LeaseRow, a

(* A lease in the database keeps its place and its window, and a lease     *)
(* that is not recycled yet may be recycled only by a cleanup.             *)
LEMMA RowsStay ==
    ASSUME NoLag, IInv, BinInv, IInv', [Next]_vars
    PROVE  /\ \A l \in SavedIn(lease) :
                 /\ l \in SavedIn(lease')
                 /\ lease'[l].starts = lease[l].starts /\ lease'[l].expires = lease[l].expires
                 /\ lease'[l].recycled =>
                       lease[l].recycled \/ ScanRecycle(l) \/ RetryRecycle(l)
           /\ \A l \in Lease : lease[l].state = "UNSAVED" =>
                 lease'[l].state = "UNSAVED" \/ (RestoreFinish /\ l = restoring.lease)
<1>1. CASE Keeps(lease, lease')
  <2>1. \A l \in Lease : lease'[l].recycled => lease[l].recycled
    BY <1>1 DEF Keeps, BinInv, BinFits
  <2>2. \A l \in Lease : lease[l].state = "UNSAVED" => lease'[l].state = "UNSAVED"
    BY <1>1 DEF Keeps
  <2>3. \A l \in SavedIn(lease) : /\ l \in SavedIn(lease') /\ l \in Lease
                                  /\ lease'[l].starts = lease[l].starts
                                  /\ lease'[l].expires = lease[l].expires
    BY <1>1 DEF Keeps, SavedIn
  <2>4. QED
    BY <2>1, <2>2, <2>3
<1>2. ASSUME NEW l \in Lease, ScanRecycle(l) \/ RetryRecycle(l)
      PROVE  /\ \A m \in SavedIn(lease) :
                   /\ m \in SavedIn(lease')
                   /\ lease'[m].starts = lease[m].starts /\ lease'[m].expires = lease[m].expires
                   /\ lease'[m].recycled =>
                         lease[m].recycled \/ ScanRecycle(m) \/ RetryRecycle(m)
             /\ \A m \in Lease : lease[m].state = "UNSAVED" => lease'[m].state = "UNSAVED"
  <2>1. /\ l \in SavedIn(lease) /\ SavedIn(lease') = SavedIn(lease)
        /\ \A m \in Lease \ {l} : lease'[m] = lease[m]
        /\ lease'[l].starts = lease[l].starts /\ lease'[l].expires = lease[l].expires
    BY <1>2, CleanupRows
  <2>2. \A m \in SavedIn(lease) : m \in Lease /\ lease[m].state # "UNSAVED"
    BY DEF SavedIn
  <2>3. QED
    BY <1>2, <2>1, <2>2
<1>3. CASE RestoreFinish
  <2> DEFINE a == restoring.lease
  <2>1. /\ a \in Lease /\ lease[a].state = "UNSAVED"
        /\ \A m \in Lease \ {a} : lease'[m] = lease[m]
    BY <1>3, FinishRows
  <2> HIDE DEF a
  <2>2. \A l \in SavedIn(lease) : l \in SavedIn(lease') /\ l \in Lease \ {a}
    BY <2>1 DEF SavedIn
  <2>3. QED
    BY <1>3, <2>1, <2>2 DEF a
<1>4. QED
  BY <1>1, <1>2, <1>3, StepKeeps

(* What a step does to the restore in hand.                                *)
LEMMA RestoringChanges ==
    ASSUME IInv, [Next]_vars
    PROVE  \/ restoring' = restoring /\ ~RestoreFinish
           \/ restoring' = NoRestoring
           \/ RestoreRun /\ restoring'.req = restoring.req /\ restoring'.lease = restoring.lease
           \/ /\ restoring'.lease \in Lease /\ lease[restoring'.lease].state = "NONE"
              /\ restoring'.reply = "PENDING"
<1>1. CASE OwnerStep \/ AdminStep
  <2>1. ASSUME NEW q, NEW i, NEW d, NEW by, BeginRestore(q, i, d, by)
        PROVE  /\ restoring'.lease \in Lease /\ lease[restoring'.lease].state = "NONE"
               /\ restoring'.reply = "PENDING"
    BY <2>1, FreshLeaseType DEF BeginRestore
  <2>2. CASE \E q, i, d, by : BeginRestore(q, i, d, by)
    BY <2>1, <2>2
  <2>3. CASE UNCHANGED restoring
    <3>1. ~RestoreFinish
      BY <2>3 DEF RestoreFinish, NoRestoring
    <3>2. QED
      BY <2>3, <3>1
  <2>4. QED
    BY <1>1, <2>2, <2>3 DEF OwnerStep, AdminStep, RequestRenewal, AutoRenew, AutoRenewLate,
       CreateRestore, ReplayRestore, AwaitReview, UseLease, StartContainer, StopContainer,
       DecideStart, DecideCommit, SetPolicy, RejectRestore, ApproveRestore, RetryRecycle
<1>2. CASE Tick \/ ScanStep \/ WorkerStep \/ UNCHANGED vars
  <2>1. UNCHANGED restoring
    BY <1>2 DEF Tick, ScanStep, ScanCancel, ScanRead, ScanLook, ScanActivate, ScanPass,
       ScanRecycle, ScanCrash, WorkerStep, ServeLeft, vars
  <2>2. ~RestoreFinish
    BY <2>1 DEF RestoreFinish, NoRestoring
  <2>3. QED
    BY <2>1, <2>2
<1>3. CASE RestoreStep
  <2>1. CASE RestoreRun
    <3>1. restoring'.req = restoring.req /\ restoring'.lease = restoring.lease
      BY <2>1 DEF RestoreRun, IInv, TypeOK
    <3>2. QED
      BY <2>1, <3>1
  <2>2. CASE RestoreFinish \/ RestoreCrash
    BY <2>2 DEF RestoreFinish, RestoreCrash
  <2>3. QED
    BY <1>3, <2>1, <2>2 DEF RestoreStep
<1>4. QED
  BY <1>1, <1>2, <1>3 DEF Next

LEMMA CallsInvStep ==
    ASSUME NoLag, IInv, BinInv, CallsInv, IInv', [Next]_vars
    PROVE  CallsInv'
<1> SUFFICES ASSUME NEW c \in left'
             PROVE  /\ c.op \in {"recycle", "start"} => c.lease \in SavedIn(lease')
                    /\ c.op = "rollback" =>
                          lease'[c.lease].state = "UNSAVED" /\ c.lease # restoring'.lease
  BY DEF CallsInv, CallRefers, SavedIn
<1>1. SavedIn(lease) \subseteq SavedIn(lease')
  BY RowsStay
<1>2. CASE c.op \in {"recycle", "start"}
  <2>1. CASE OldCall(c)
    BY <1>1, <1>2, <2>1 DEF OldCall, CallsInv, CallRefers
  <2>2. CASE NewCall(c)
    <3>1. c.op = "recycle" => c.lease \in SavedIn(lease)
      BY <2>2, CleanableBin DEF NewCall, CleanupCalled, MayRecycle, ScanRecycle, RetryRecycle
    <3>2. c.op = "start" => c.lease \in SavedIn(lease)
      BY <2>2, EnsureKeeps DEF NewCall, StartContainer
    <3>3. QED
      BY <1>1, <1>2, <3>1, <3>2
  <2>3. QED
    BY <1>2, <2>1, <2>2, CallsCome
<1>3. CASE c.op = "rollback"
  <2>1. CASE OldCall(c)
    <3>1. PICK b \in left : b.op = c.op /\ b.lease = c.lease
      BY <2>1 DEF OldCall
    <3>2. c.lease \in Lease /\ lease[c.lease].state = "UNSAVED" /\ c.lease # restoring.lease
      BY <1>3, <3>1 DEF CallsInv, CallRefers, IInv, TypeOK, LeftCalls
    <3>3. lease'[c.lease].state = "UNSAVED"
      BY <3>2, RowsStay
    <3>4. NoRestoring.lease = None /\ None \notin Lease
      BY LeaseAssumption DEF NoRestoring
    <3>5. c.lease # restoring'.lease
      BY <3>2, <3>4, RestoringChanges
    <3>6. QED
      BY <1>3, <3>3, <3>5
  <2>2. CASE NewCall(c)
    <3>1. RestoreFinish /\ c.lease = restoring.lease
      BY <1>3, <2>2 DEF NewCall
    <3>2. /\ c.lease \in Lease /\ lease[c.lease].state = "UNSAVED"
          /\ restoring' = NoRestoring /\ (~RestoreSaved => lease' = lease)
      BY <3>1, FinishRows
    <3>3. c.lease # restoring'.lease
      BY <3>2, LeaseAssumption DEF NoRestoring
    <3>4. CASE ~RestoreSaved
      BY <1>3, <3>2, <3>3, <3>4
    <3>5. CASE RestoreSaved
      <4>1. left' = left
        BY <3>5 DEF RestoreSaved
      <4>2. c.lease # restoring.lease
        BY <1>3, <4>1 DEF CallsInv, CallRefers
      <4>3. QED
        BY <3>1, <4>2
    <3>6. QED
      BY <3>4, <3>5
  <2>3. QED
    BY <2>1, <2>2, CallsCome
<1>4. QED
  BY <1>2, <1>3

-----------------------------------------------------------------------------
(* When a cleanup begins, and that it may still be served later.           *)

LEMMA OpenMeansRest ==
    ASSUME IInv, BinInv, EInv, NEW i \in OpenIn(item)
    PROVE  /\ ~Runs /\ TipsIn(lease, now) = {} /\ OpenIn(item) = {i}
           /\ i \in Lease /\ lease[i].recycled
<1>1. /\ TipsIn(lease, now) = {} /\ OpenIn(item) = {i}
      /\ \A m \in SavedIn(lease) : lease[m].expires <= now
  BY OpenItemMeansOver
<1>2. now \in Nat /\ \A m \in SavedIn(lease) : lease[m].expires \in Nat
  BY DEF IInv, TypeOK, Time, LeaseRow, SavedIn
<1>3. i \in Lease /\ lease[i].recycled
  BY DEF OpenIn, IInv, ItemsMatchRecycledLeases
<1>4. QED
  BY <1>1, <1>2, <1>3 DEF Runs

LEMMA RunsMeansNoRestore ==
    ASSUME IInv, BinInv, EInv, Runs
    PROVE  OpenIn(item) = {} /\ restoring.req = None
BY RunningMeansClosed DEF Runs

(* Whatever is cleaned up was not overtaken.                               *)
LEMMA NotOvertaken ==
    ASSUME IInv, IInv', [Next]_vars, OvertakenNotCleaned', NEW l \in Lease, CleanedUp(l)'
    PROVE  l \notin overtaken
<1>1. overtaken \subseteq overtaken'
  BY OvertakenGrows
<1>2. l \notin overtaken'
  BY DEF OvertakenNotCleaned
<1>3. QED
  BY <1>1, <1>2

LEMMA CleanupBegins ==
    ASSUME IInv, BinInv, EInv, NEW l \in Lease,
           (MayRecycle(l) /\ l \notin overtaken) \/ RetryRecycle(l)
    PROVE  /\ Ended(l) /\ ScanHarmless(l)
           /\ ~lease[l].recycled /\ lease[l].state # "APPROVED"
           /\ RetryRecycle(l) => l \in TipsIn(lease, now)
<1> DEFINE Goes == TipsIn(lease, now) \cup OpenIn(item)
<1>1. l \in SavedIn(lease) /\ lease[l].expires <= now /\ ~lease[l].recycled
  BY CleanableBin DEF MayRecycle, RetryRecycle
<1>2. /\ now \in Nat /\ \A m \in SavedIn(lease) : lease[m].expires \in Nat /\ m \in Lease
      /\ \A m \in OpenIn(item) : m \in Lease /\ lease[m].recycled
      /\ \A m \in Lease : lease[m].recycled => lease[m].state # "APPROVED"
  BY DEF IInv, TypeOK, Time, LeaseRow, SavedIn, OpenIn, ItemsMatchRecycledLeases, BinInv, BinFits
<1>3. CASE MayRecycle(l) /\ l \notin overtaken
  <2>1. scan.lease = l /\ l # None /\ lease[l].state # "APPROVED"
    BY <1>3, LeaseAssumption DEF MayRecycle, Locks, DueStates, ActiveStates
  <2>2. \A m \in Goes : m = l \/ (lease[m].prev = l /\ lease[m].state = "APPROVED")
    BY <1>1, <1>3, <2>1 DEF EInv, ScanFits
  <2>3. ASSUME NEW m \in Goes, lease[m].prev = l, lease[m].state = "APPROVED"
        PROVE  FALSE
    <3>1. m \in TipsIn(lease, now)
      BY <1>2, <2>3
    <3>2. m \in LiveSuccessors(l)
      BY <2>3, <3>1 DEF TipsIn, SavedIn, LiveSuccessors, ApprovedSuccessors, Successors
    <3>3. QED
      BY <1>3, <3>2 DEF MayRecycle
  <2>4. \A m \in Goes : m = l
    BY <2>2, <2>3
  <2>5. ~RetryRecycle(l) \/ l \in TipsIn(lease, now)
    BY <1>1, <2>1 DEF RetryRecycle, TipsIn, Successors
  <2>6. QED
    <3>1. ScanHarmless(l)
      BY <2>1 DEF ScanHarmless
    <3>2. \A m \in TipsIn(lease, now) : m = l
      BY <2>4
    <3>3. \A m \in SavedIn(lease) : lease[m].expires <= now
      BY <1>1, <1>2, <3>2 DEF EInv, ChainFits, TipIsLast, TipsIn
    <3>4. ~Runs
      BY <1>2, <3>3 DEF Runs
    <3>5. QED
      BY <1>1, <2>1, <2>4, <2>5, <3>1, <3>4 DEF Ended
<1>4. CASE RetryRecycle(l)
  <2>1. lease[l].state # "APPROVED" /\ Successors(l) = {}
    BY <1>4 DEF RetryRecycle, EInv, OpFits
  <2>2. l \in TipsIn(lease, now)
    BY <1>1, <2>1 DEF TipsIn, Successors
  <2>3. \A m \in Goes : m = l
    BY <2>2 DEF EInv, OneEnd
  <2>4. \A m \in SavedIn(lease) : lease[m].expires <= now
    BY <1>1, <1>2, <2>2 DEF EInv, ChainFits, TipIsLast
  <2>5. ~Runs
    BY <1>2, <2>4 DEF Runs
  <2>6. ScanHarmless(l)
    BY <2>1, <2>2 DEF EInv, ScanFits, ScanHarmless
  <2>7. QED
    BY <1>1, <2>1, <2>2, <2>3, <2>5, <2>6 DEF Ended
<1>5. QED
  BY <1>3, <1>4

(* While one lease ended and waits for its cleanup, nothing begins: no     *)
(* request is entitled, no renewal can be approved, no item waits.         *)
EndedStep(l) ==
    /\ now <= now'
    /\ SavedIn(lease') = SavedIn(lease)
    /\ \A m \in SavedIn(lease) : lease'[m].expires = lease[m].expires
    /\ TipsIn(lease', now') \subseteq TipsIn(lease, now)
    /\ OpenIn(item') \subseteq OpenIn(item)
    /\ scan' = scan \/ scan'.lease \in {None, l} \cup overtaken
                    \/ lease[scan'.lease].recycled

LEMMA EndedStepFits ==
    ASSUME IInv, IInv', KeptInBin, overtaken \subseteq overtaken',
           NEW l \in Lease, Ended(l), ScanHarmless(l), EndedStep(l)
    PROVE  Ended(l)' /\ ScanHarmless(l)'
<1>1. now \in Nat /\ now' \in Nat /\ \A m \in SavedIn(lease) : lease[m].expires \in Nat
  BY DEF IInv, TypeOK, Time, LeaseRow, SavedIn
<1>2. \A m \in SavedIn(lease') : ~(now' < lease'[m].expires)
  BY <1>1 DEF Ended, Runs, EndedStep
<1>3. \A m \in TipsIn(lease', now') \cup OpenIn(item') : m = l
  BY DEF Ended, EndedStep
<1>4. Ended(l)'
  BY <1>2, <1>3 DEF Ended, Runs, SavedIn, TipsIn, OpenIn
<1>5. scan'.lease \in Lease \cup {None}
  BY DEF IInv, TypeOK
<1>6. \/ scan'.lease \in {None, l} \cup overtaken'
      \/ lease'[scan'.lease].recycled
  BY <1>5 DEF ScanHarmless, EndedStep, KeptInBin
<1>7. QED
  BY <1>4, <1>6 DEF ScanHarmless

LEMMA SameTips ==
    ASSUME IInv, IInv', UNCHANGED lease, now <= now'
    PROVE  TipsIn(lease', now') \subseteq TipsIn(lease, now)
<1>1. now \in Nat /\ now' \in Nat /\ \A m \in Lease : lease[m].expires \in Nat
  BY DEF IInv, TypeOK, Time, LeaseRow
<1>2. QED
  BY <1>1 DEF TipsIn, SavedIn

(* A cleanup that fails.                                                   *)
LEMMA CleanupEndedStep ==
    ASSUME IInv, BinInv, IInv', NEW l \in Lease, ScanRecycle(l) \/ RetryRecycle(l),
           lease[l].state # "APPROVED", ~lease'[l].recycled
    PROVE  EndedStep(l)
<1>1. /\ \A m \in Lease \ {l} : lease'[m] = lease[m]
      /\ lease'[l].expires = lease[l].expires /\ lease'[l].prev = lease[l].prev
      /\ lease'[l].recycled = lease[l].recycled /\ item' = item
      /\ SavedIn(lease') = SavedIn(lease) /\ now' = now /\ lease'[l].state = "EXPIRED"
  BY CleanupRows
<1>2. TipsIn(lease', now') \subseteq TipsIn(lease, now)
  BY <1>1 DEF TipsIn, SavedIn
<1>3. scan' = scan \/ scan'.lease = None
  <2>1. CASE ScanRecycle(l)
    BY <2>1 DEF ScanRecycle, ScanAdvance, NoScan, IInv, TypeOK
  <2>2. CASE RetryRecycle(l)
    BY <2>2 DEF RetryRecycle
  <2>3. QED
    BY <2>1, <2>2
<1>4. now \in Nat
  BY DEF IInv, TypeOK, Time
<1>5. QED
  BY <1>1, <1>2, <1>3, <1>4 DEF EndedStep, SavedIn

(* A late decision.                                                        *)
LEMMA DecisionEndedStep ==
    ASSUME IInv, BinInv, EInv, IInv', DecideCommit, ~Runs, NEW l
    PROVE  EndedStep(l)
<1> DEFINE r == decision.req
           m == renewal[r].lease
<1>1. /\ UNCHANGED <<now, item, scan>> /\ now \in Nat /\ r \in Renewal
      /\ decision.at = now /\ m \in SavedIn(lease) /\ m \in Lease
      /\ lease \in [Lease -> LeaseRow] /\ lease[m].expires \in Nat
  <2>1. r # None /\ r \in Renewal /\ renewal[r].state # "NONE" /\ decision.at = now
    BY DEF DecideCommit, IInv, TypeOK, RequestsRefer, BinInv, DecisionIsNow
  <2>2. m \in SavedIn(lease)
    BY <2>1 DEF BinInv
  <2>3. QED
    BY <2>1, <2>2 DEF DecideCommit, IInv, TypeOK, Time, LeaseRow, SavedIn
<1>2. lease[m].expires <= decision.at
  BY <1>1 DEF Runs
<1>3. DecideLate(r, m) \/ DecideRefused(r, m)
  BY <1>1, <1>2 DEF DecideCommit, DecideReject, DecideApprove
<1> HIDE DEF r, m
<1>4. lease' = CloseLease(lease, m) \/ lease' = lease
  BY <1>3 DEF DecideLate, DecideRefused, CloseLease
<1>5. \A x \in Lease : /\ lease'[x].expires = lease[x].expires /\ lease'[x].prev = lease[x].prev
                       /\ lease'[x].recycled = lease[x].recycled
                       /\ \A s \in {"NONE", "UNSAVED", "APPROVED"} :
                             lease'[x].state = s <=> lease[x].state = s
  BY <1>1, <1>4 DEF CloseLease, LeaseRow, ActiveStates
<1>6. SavedIn(lease') = SavedIn(lease)
  BY <1>5 DEF SavedIn
<1>7. TipsIn(lease', now') \subseteq TipsIn(lease, now)
  BY <1>1, <1>5, <1>6 DEF TipsIn, SavedIn
<1>8. QED
  BY <1>1, <1>5, <1>6, <1>7 DEF EndedStep, SavedIn

(* An action of a restore takes an item that waits or is in hand.          *)
LEMMA RestoreTakesOpen ==
    ASSUME IInv, BinInv,
           \/ \E q \in Restore :
                 \/ \E i \in Lease, d \in Durations : CreateRestore(q, i, d)
                 \/ ReplayRestore(q) \/ RejectRestore(q) \/ ApproveRestore(q)
           \/ RestoreStep
    PROVE  OpenIn(item) # {}
<1>1. ASSUME NEW q \in Restore, NEW i \in Lease, NEW d, CreateRestore(q, i, d)
      PROVE  i \in OpenIn(item)
  BY <1>1 DEF CreateRestore, Restorable, OpenIn
<1>2. ASSUME NEW q \in Restore, ReplayRestore(q) \/ RejectRestore(q) \/ ApproveRestore(q)
      PROVE  restore[q].item \in OpenIn(item)
  <2>1. restore[q].item \in Lease
    BY <1>2 DEF IInv, RequestsRefer, ReplayRestore, RejectRestore, ApproveRestore
  <2>2. item[restore[q].item] \in {"RECYCLE_BIN", "RESTORE_PENDING", "FAILED"}
    BY <1>2 DEF ReplayRestore, RejectRestore, ApproveRestore, Restorable
  <2>3. QED
    BY <2>1, <2>2 DEF OpenIn
<1>3. CASE RestoreStep
  <2>1. restoring.req # None
    BY <1>3 DEF RestoreStep, RestoreRun, RestoreFinish, RestoreCrash
  <2>2. QED
    BY <2>1, RestoringIsOpen
<1>4. QED
  BY <1>1, <1>2, <1>3

(* A step that leaves leases and items alone.                              *)
IdleStep ==
    \/ Tick \/ SetPolicy \/ StopContainer \/ WorkerStep
    \/ \E r \in Renewal, approve \in BOOLEAN : DecideStart(r, approve)
    \/ ScanCancel \/ ScanRead \/ ScanCrash \/ \E l \in Lease : ScanPass(l)
    \/ UNCHANGED vars

LEMMA IdleRows ==
    ASSUME NoLag, IInv, BinInv, IdleStep
    PROVE  /\ UNCHANGED <<lease, item, restoring>> /\ now <= now'
           /\ scan' = scan \/ scan'.lease = None
<1>1. now <= now'
  <2>1. CASE Tick
    <3>1. ClockAdvances
      BY <2>1 DEF Tick
    <3>2. QED
      BY <3>1, ClockMeansNoDecision
  <2>2. CASE now' = now
    BY <2>2 DEF IInv, TypeOK, Time
  <2>3. QED
    BY <2>1, <2>2 DEF IdleStep, SetPolicy, StopContainer, WorkerStep, ServeLeft, DecideStart,
       ScanCancel, ScanRead, ScanCrash, ScanPass, vars
<1>2. UNCHANGED <<lease, item, restoring>>
  BY DEF IdleStep, Tick, SetPolicy, StopContainer, WorkerStep, ServeLeft, DecideStart, ScanCancel,
     ScanRead, ScanCrash, ScanPass, rows, vars
<1>3. scan' = scan \/ scan'.lease = None
  <2>1. CASE (\E l \in Lease : ScanPass(l)) \/ ScanRead \/ ScanCancel \/ ScanCrash
    <3>1. ASSUME NEW l \in Lease, ScanPass(l) PROVE scan'.lease = None
      BY <3>1 DEF ScanPass, ScanAdvance, NoScan, IInv, TypeOK
    <3>2. CASE ScanRead
      <4>1. scan' = NoScan \/ \E D : scan' = [NoScan EXCEPT !.pc = "RUN", !.due = D]
        BY <3>2 DEF ScanRead
      <4>2. \A D : [NoScan EXCEPT !.pc = "RUN", !.due = D].lease = None /\ NoScan.lease = None
        BY DEF NoScan
      <4>3. QED
        BY <4>1, <4>2
    <3>3. CASE ScanCancel \/ ScanCrash
      BY <3>3 DEF ScanCancel, ScanCrash, NoScan
    <3>4. QED
      BY <2>1, <3>1, <3>2, <3>3
  <2>2. QED
    BY <2>1 DEF IdleStep, Tick, SetPolicy, StopContainer, WorkerStep, ServeLeft, DecideStart, vars
<1>4. QED
  BY <1>1, <1>2, <1>3

(* A step of the owner that needs a lease, and the hand-over by the expiry *)
(* worker: a lease runs.                                                   *)
EntitledStep ==
    \/ \E d \in Durations, r \in Renewal, l \in Lease :
          RequestRenewal(d, r, l) \/ AutoRenew(d, r, l) \/ AutoRenewLate(d, r, l)
    \/ UseLease \/ StartContainer
    \/ \E l \in Lease : ScanActivate(l)

LEMMA EntitledStepRuns ==
    ASSUME IInv, BinInv, EInv, EntitledStep
    PROVE  Runs
<1>1. CASE \E l \in Lease : ScanActivate(l)
  BY <1>1 DEF ScanActivate, LiveSuccessors, ApprovedSuccessors, Successors, Runs, SavedIn
<1>2. CASE Entitled
  BY <1>2, EntitledRuns DEF Runs
<1>3. ASSUME NEW d, NEW r, NEW l,
             RequestRenewal(d, r, l) \/ AutoRenew(d, r, l) \/ AutoRenewLate(d, r, l)
      PROVE  Entitled
  BY <1>3 DEF RequestRenewal, AutoRenew, AutoRenewLate, RenewalRequest
<1>4. UseLease \/ StartContainer => Entitled
  BY DEF UseLease, StartContainer
<1>5. QED
  BY <1>1, <1>2, <1>3, <1>4 DEF EntitledStep

(* The steps there are.                                                    *)
LEMMA StepKinds ==
    ASSUME [Next]_vars
    PROVE  \/ IdleStep \/ EntitledStep \/ DecideCommit
           \/ \E l \in Lease : ScanLook(l) \/ ScanRecycle(l) \/ RetryRecycle(l)
           \/ \E q \in Restore :
                 \/ \E i \in Lease, d \in Durations : CreateRestore(q, i, d)
                 \/ ReplayRestore(q) \/ RejectRestore(q) \/ ApproveRestore(q)
           \/ RestoreStep
BY DEF Next, OwnerStep, AdminStep, ScanStep, IdleStep, EntitledStep

LEMMA EndedKept ==
    ASSUME NoLag, IInv, BinInv, EInv, IInv', KeptInBin, OvertakenNotCleaned', [Next]_vars,
           NEW l \in Lease, ~lease'[l].recycled, Ended(l), ScanHarmless(l)
    PROVE  Ended(l)' /\ ScanHarmless(l)'
<1>1. OpenIn(item) = {}
  <2>1. ~lease[l].recycled
    BY DEF KeptInBin
  <2>2. ASSUME NEW i \in OpenIn(item) PROVE FALSE
    BY <2>1, OpenMeansRest DEF Ended
  <2>3. QED
    BY <2>2
<1>2. overtaken \subseteq overtaken' /\ ~Runs
  BY OvertakenGrows DEF Ended
<1>3. CASE IdleStep
  <2>1. UNCHANGED <<lease, item>> /\ now <= now' /\ (scan' = scan \/ scan'.lease = None)
    BY <1>3, IdleRows
  <2>2. TipsIn(lease', now') \subseteq TipsIn(lease, now)
    BY <2>1, SameTips
  <2>3. EndedStep(l)
    BY <2>1, <2>2 DEF EndedStep
  <2>4. QED
    BY <1>2, <2>3, EndedStepFits
<1>4. CASE DecideCommit
  BY <1>2, <1>4, DecisionEndedStep, EndedStepFits
<1>5. ASSUME NEW k \in Lease, ScanLook(k) PROVE Ended(l)' /\ ScanHarmless(l)'
  <2>1. UNCHANGED <<now, lease, item>> /\ now \in Nat /\ scan'.lease = k /\ Due(k)
    BY <1>5 DEF ScanLook, rows, IInv, TypeOK, Time
  <2>2. Successors(k) = {}
    <3>1. ActivatableSuccessors(k) = {}
      BY <1>2 DEF ActivatableSuccessors, ApprovedSuccessors, Successors, Runs, SavedIn
    <3>2. QED
      BY <2>1, <3>1 DEF Due
  <2>3. k \in TipsIn(lease, now)
    BY <2>1, <2>2 DEF Due, DueStates, ActiveStates, TipsIn, SavedIn, Successors
  <2>4. k = l
    BY <2>3 DEF Ended
  <2>5. TipsIn(lease', now') \subseteq TipsIn(lease, now)
    BY <2>1, SameTips
  <2>6. EndedStep(l)
    BY <2>1, <2>4, <2>5 DEF EndedStep
  <2>7. QED
    BY <1>2, <2>6, EndedStepFits
<1>6. ASSUME NEW k \in Lease, ScanRecycle(k) \/ RetryRecycle(k)
      PROVE  Ended(l)' /\ ScanHarmless(l)'
  <2>1. CASE ScanRecycle(k)
    <3>1. op'[k].status # "NONE"
      BY <2>1 DEF ScanRecycle, FailedOp, IInv, TypeOK
    <3>2. k \notin overtaken
      BY <3>1, NotOvertaken DEF CleanedUp
    <3>3. scan.lease = k /\ MayRecycle(k) /\ k # None
      BY <2>1, LeaseAssumption DEF ScanRecycle, MayRecycle, Locks
    <3>4. ~lease[k].recycled /\ lease[k].state # "APPROVED"
      BY <3>2, <3>3, CleanupBegins
    <3>5. k = l
      BY <3>2, <3>3, <3>4 DEF ScanHarmless
    <3>6. EndedStep(l)
      BY <2>1, <3>4, <3>5, CleanupEndedStep
    <3>7. QED
      BY <1>2, <3>6, EndedStepFits
  <2>2. CASE RetryRecycle(k)
    <3>1. k \in TipsIn(lease, now) /\ lease[k].state # "APPROVED"
      BY <2>2, CleanupBegins
    <3>2. k = l
      BY <3>1 DEF Ended
    <3>3. EndedStep(l)
      BY <2>2, <3>1, <3>2, CleanupEndedStep
    <3>4. QED
      BY <1>2, <3>3, EndedStepFits
  <2>3. QED
    BY <1>6, <2>1, <2>2
<1>7. ~EntitledStep
  BY <1>2, EntitledStepRuns
<1>8. QED
  BY <1>1, <1>3, <1>4, <1>5, <1>6, <1>7, StepKinds, RestoreTakesOpen

(* Every cleanup that was left waits for a lease that is recycled by now,  *)
(* or still the last one.                                                  *)
LEMMA CleanupsFit ==
    ASSUME NoLag, IInv, BinInv, EInv, CallsInv, UpInv, IInv', KeptInBin, OvertakenNotCleaned',
           [Next]_vars, NEW c \in left', c.op = "recycle", ~lease'[c.lease].recycled
    PROVE  Ended(c.lease)' /\ ScanHarmless(c.lease)'
<1>1. c.lease \in Lease
  BY DEF IInv, TypeOK, LeftCalls
<1>2. CASE OldCall(c)
  <2>1. ~lease[c.lease].recycled
    BY <1>1 DEF KeptInBin
  <2>2. Ended(c.lease) /\ ScanHarmless(c.lease)
    BY <1>2, <2>1 DEF OldCall, UpInv, CleanupFits
  <2>3. QED
    BY <1>1, <2>2, EndedKept
<1>3. CASE NewCall(c)
  <2>1. CleanupCalled(c.lease)
    BY <1>3 DEF NewCall
  <2>2. CleanedUp(c.lease)'
    BY DEF CleanedUp
  <2>3. c.lease \notin overtaken
    BY <1>1, <2>2, NotOvertaken
  <2>4. Ended(c.lease) /\ ScanHarmless(c.lease)
    BY <1>1, <2>1, <2>3, CleanupBegins DEF CleanupCalled, ScanRecycle
  <2>5. QED
    BY <1>1, <2>4, EndedKept
<1>4. QED
  BY <1>2, <1>3, CallsCome

-----------------------------------------------------------------------------
(* What the Root Worker does to a lifecycle file that is ACTIVE.           *)

SameFile(h, g) == g.lease = h.lease /\ g.status = h.status

LEMMA HostKeepsFile ==
    ASSUME NEW h \in HostStates(Lease)
    PROVE  /\ SameFile(h, h) /\ SameFile(h, [h EXCEPT !.running = FALSE])
           /\ [h EXCEPT !.running = FALSE].keys = h.keys
           /\ SameFile(h, [h EXCEPT !.keys = "SUSPENDED"])
           /\ SameFile(h, [h EXCEPT !.keys = "SUSPENDED", !.running = FALSE])
           /\ \A l : /\ [h EXCEPT !.lease = l, !.running = TRUE].lease = l
                     /\ [h EXCEPT !.lease = l, !.running = TRUE].status = h.status
                     /\ [h EXCEPT !.lease = l, !.running = TRUE].keys = h.keys
BY DEF HostStates, SameFile

(* A cleanup, a restore and a rollback that name another lease than the    *)
(* file leave it as it is.                                                 *)
LEMMA RecycleKeepsFile ==
    ASSUME TypeOK, NEW l, host.lease # l,
           NEW w \in RecycleReplies(host, l) \cup RecycleFaults(host)
    PROVE  SameFile(host, w.host)
<1> DEFINE stopped == [host EXCEPT !.keys = "SUSPENDED", !.running = FALSE]
           suspended == [host EXCEPT !.keys = "SUSPENDED"]
<1>1. SameFile(host, host) /\ SameFile(host, stopped) /\ SameFile(host, suspended)
  BY HostKeepsFile DEF TypeOK
<1>2. RecycleReplies(host, l) = {Outcome(stopped, "RETRYABLE")}
  BY DEF RecycleReplies, MarkRecycledAccepts
<1>3. RecycleFaults(host)
        = {Outcome(host, "REVIEW"), Outcome(host, "LOST"), Outcome(suspended, "RETRYABLE")}
  BY DEF RecycleFaults
<1> HIDE DEF stopped, suspended
<1>4. QED
  BY <1>1, <1>2, <1>3, OutcomeParts

LEMMA RestoreKeepsFile ==
    ASSUME TypeOK, NEW a, NEW r, NEW current, host.status = "ACTIVE",
           NEW w \in RestoreReplies(host, a, r, current) \cup RestoreFaults(host, r, current)
    PROVE  SameFile(host, w.host) /\ w.reply # "SUCCEEDED"
<1> DEFINE off == [host EXCEPT !.keys = "SUSPENDED"]
           replies == RestoreReplies(host, a, r, current)
<1>1. SameFile(host, host) /\ SameFile(host, off)
  BY HostKeepsFile DEF TypeOK
<1>2. replies \subseteq {Outcome(off, "ROLLED_BACK"), Outcome(host, "ERROR")}
  BY DEF RestoreReplies, RestoreAccepts
<1>3. RestoreFaults(host, r, current) \subseteq {Outcome(host, "LOST"), Outcome(off, "ROLLED_BACK")}
  BY DEF RestoreFaults, RestoreAccepts
<1> HIDE DEF off, replies
<1>4. \A x \in RestoreFaults(host, r, current) : SameFile(host, x.host) /\ x.reply # "SUCCEEDED"
  BY <1>1, <1>3, OutcomeParts
<1>5. QED
  BY <1>1, <1>2, <1>4, OutcomeParts DEF replies

LEMMA RollbackKeepsFile ==
    ASSUME TypeOK, NEW a, NEW r, NEW byOwner, host.status = "ACTIVE", host.lease # a,
           NEW w \in RollbackReplies(host, a, r, byOwner) \cup RollbackFaults(host)
    PROVE  SameFile(host, w.host)
<1> DEFINE stopped == [host EXCEPT !.keys = "SUSPENDED", !.running = FALSE]
           replies == RollbackReplies(host, a, r, byOwner)
<1>1. SameFile(host, host) /\ SameFile(host, stopped)
  BY HostKeepsFile DEF TypeOK
<1>2. replies \subseteq {Outcome(host, "ERROR"), Outcome(stopped, "ERROR")}
  BY DEF RollbackReplies, RollbackAccepts
<1>3. RollbackFaults(host) = {Outcome(host, "LOST")}
  BY DEF RollbackFaults
<1> HIDE DEF stopped, replies
<1>4. \A x \in replies : SameFile(host, x.host)
  BY <1>1, <1>2, OutcomeParts
<1>5. \A x \in RollbackFaults(host) : SameFile(host, x.host)
  BY <1>1, <1>3, OutcomeParts
<1>6. QED
  BY <1>4, <1>5 DEF replies

(* A start binds the file to its own lease at most, and only while that    *)
(* lease runs.                                                             *)
LEMMA StartBinds ==
    ASSUME TypeOK, NEW l, NEW expires, NEW starts, NEW t, NEW w,
           w \in StartReplies(host, l, expires, starts, t) \cup StartFaults(host, l, expires, t)
    PROVE  /\ w.host.status = host.status /\ w.host.keys = host.keys
           /\ w.host.lease = host.lease \/ (w.host.lease = l /\ ~(expires[l] <= t))
<1> DEFINE down == [host EXCEPT !.running = FALSE]
           bound == [host EXCEPT !.lease = l, !.running = TRUE]
           replies == StartReplies(host, l, expires, starts, t)
           Fits(g) == /\ g.status = host.status /\ g.keys = host.keys
                      /\ g.lease = host.lease \/ (g.lease = l /\ ~(expires[l] <= t))
<1>1. Fits(host) /\ Fits(down) /\ (~(expires[l] <= t) => Fits(bound))
  BY HostKeepsFile DEF TypeOK, SameFile
<1>2. /\ replies \subseteq {Outcome(host, "ERROR"), Outcome(down, "ERROR"),
                            Outcome(bound, "SUCCEEDED")}
      /\ expires[l] <= t => replies = {Outcome(host, "ERROR")}
  BY DEF StartReplies
<1>3. StartFaults(host, l, expires, t) \subseteq {Outcome(host, "LOST"), Outcome(down, "ERROR")}
  BY DEF StartFaults
<1> HIDE DEF down, bound, replies, Fits
<1>4. \A x \in StartFaults(host, l, expires, t) : Fits(x.host)
  BY <1>1, <1>3, OutcomeParts
<1>5. \A x \in replies : Fits(x.host)
  BY <1>1, <1>2, OutcomeParts
<1>6. Fits(w.host)
  BY <1>4, <1>5 DEF replies
<1>7. QED
  BY <1>6 DEF Fits

(* A call that is served late, while the file is ACTIVE and names neither  *)
(* the lease of a cleanup nor the one of a rollback.                       *)
LEMMA ServedKeepsFile ==
    ASSUME IInv, NEW c \in left, ServeLeft(c), host.status = "ACTIVE", KeysFit,
           c.op \in {"recycle", "rollback"} => c.lease # host.lease
    PROVE  /\ host'.status = "ACTIVE" /\ KeysFit'
           /\ \/ host'.lease = host.lease
              \/ c.op = "start" /\ host'.lease = c.lease /\ now < lease[c.lease].expires
<1>1. TypeOK /\ c \in LeftCalls /\ c.lease \in Lease /\ now \in Nat
      /\ lease[c.lease].expires \in Nat
  BY DEF IInv, TypeOK, LeftCalls, Time, LeaseRow
<1>2. CASE c.op \in {"recycle", "restore", "rollback"}
  <2>1. SameFile(host, host')
    <3>1. CASE ServeRecycle(c)
      <4>1. c.lease # host.lease
        BY <3>1 DEF ServeRecycle, ServeAs
      <4>2. QED
        BY <1>1, <3>1, <4>1, RecycleKeepsFile DEF ServeRecycle, ServeAs
    <3>2. CASE ServeRestore(c)
      BY <1>1, <3>2, RestoreKeepsFile DEF ServeRestore, ServeAs
    <3>3. CASE ServeRollback(c)
      <4>1. c.lease # host.lease
        BY <3>3 DEF ServeRollback, ServeAs
      <4>2. QED
        BY <1>1, <3>3, <4>1, RollbackKeepsFile DEF ServeRollback, ServeAs
    <3>4. ~ServeStart(c)
      BY <1>2 DEF ServeStart, ServeAs
    <3>5. QED
      BY <3>1, <3>2, <3>3, <3>4 DEF ServeLeft
  <2>2. LateCallServed'
    <3>1. [c EXCEPT !.served = TRUE].served /\ [c EXCEPT !.served = TRUE].op = c.op
      BY <1>1 DEF LeftCalls
    <3>2. [c EXCEPT !.served = TRUE] \in left'
      BY DEF ServeLeft
    <3>3. QED
      BY <1>2, <3>1, <3>2 DEF LateCallServed
  <2>3. QED
    BY <2>1, <2>2 DEF SameFile, KeysFit
<1>3. CASE c.op \notin {"recycle", "restore", "rollback"}
  <2>1. ServeStart(c) /\ c.op = "start"
    BY <1>3 DEF ServeLeft, ServeRecycle, ServeRestore, ServeRollback, ServeStart, ServeAs
  <2>2. /\ host'.status = host.status /\ host'.keys = host.keys
        /\ host'.lease = host.lease
             \/ (host'.lease = c.lease /\ ~(LeaseEnds[c.lease] <= now))
    BY <1>1, <2>1, StartBinds DEF ServeStart, ServeAs
  <2>3. ~(LeaseEnds[c.lease] <= now) => now < lease[c.lease].expires
    BY <1>1 DEF LeaseEnds
  <2>4. KeysFit'
    BY <2>2, ServedStays DEF KeysFit, Next, WorkerStep
  <2>5. QED
    BY <2>1, <2>2, <2>3, <2>4
<1>4. QED
  BY <1>2, <1>3

-----------------------------------------------------------------------------
(* While a lease runs the environment is up.                               *)

(* A lease begins to run only when a restore is recorded.                  *)
LEMMA RunsBack ==
    ASSUME NoLag, IInv, BinInv, EInv, IInv', [Next]_vars, Runs', ~(RestoreFinish /\ RestoreSaved)
    PROVE  Runs
<1>1. /\ now \in Nat /\ now' \in Nat
      /\ \A m \in Lease : lease[m].expires \in Nat /\ lease'[m].expires \in Nat
  BY DEF IInv, TypeOK, Time, LeaseRow
<1>2. PICK m \in SavedIn(lease') : now' < lease'[m].expires
  BY DEF Runs, SavedIn
<1>3. ASSUME m \in SavedIn(lease), lease'[m].expires = lease[m].expires, now <= now'
      PROVE  Runs
  <2>1. m \in Lease
    BY <1>3 DEF SavedIn
  <2>2. now < lease[m].expires
    BY <1>1, <1>2, <1>3, <2>1
  <2>3. QED
    BY <1>3, <2>2 DEF Runs
<1>4. CASE lease' = lease /\ now <= now'
  BY <1>2, <1>3, <1>4
<1>5. CASE IdleStep
  BY <1>4, <1>5, IdleRows
<1>6. CASE EntitledStep
  BY <1>6, EntitledStepRuns
<1>7. CASE DecideCommit
  <2>1. ~Runs => EndedStep(None)
    BY <1>7, DecisionEndedStep
  <2>2. QED
    BY <1>2, <1>3, <2>1 DEF EndedStep
<1>8. ASSUME NEW l \in Lease, ScanLook(l) PROVE Runs
  BY <1>1, <1>4, <1>8 DEF ScanLook, rows
<1>9. ASSUME NEW l \in Lease, ScanRecycle(l) \/ RetryRecycle(l) PROVE Runs
  <2>1. SavedIn(lease') = SavedIn(lease) /\ now' = now
    BY <1>9, CleanupRows
  <2>2. m \in Lease /\ m \in SavedIn(lease)
    BY <1>2, <2>1 DEF SavedIn
  <2>3. lease'[m].expires = lease[m].expires
    BY <2>2, <1>9, CleanupRows
  <2>4. QED
    BY <1>1, <1>3, <2>1, <2>2, <2>3
<1>10. ASSUME NEW q \in Restore,
              \/ \E i \in Lease, d \in Durations : CreateRestore(q, i, d)
              \/ ReplayRestore(q) \/ RejectRestore(q) \/ ApproveRestore(q)
       PROVE  Runs
  <2>1. now' = now
    BY <1>10 DEF CreateRestore, ReplayRestore, RejectRestore, ApproveRestore
  <2>2. lease' = lease \/ \E i, d, by : BeginRestore(q, i, d, by)
    BY <1>10 DEF CreateRestore, ReplayRestore, RejectRestore, ApproveRestore, AwaitReview
  <2>3. ASSUME NEW i, NEW d, NEW by, BeginRestore(q, i, d, by) PROVE Runs
    <3>1. /\ FreshLease \in Lease /\ lease \in [Lease -> LeaseRow]
          /\ lease' = [lease EXCEPT ![FreshLease] = NewLease("UNSAVED", now, d, None)]
      BY <2>3, FreshLeaseType DEF BeginRestore, IInv, TypeOK
    <3>2. lease'[FreshLease].state = "UNSAVED" /\ \A x \in Lease \ {FreshLease} : lease'[x] = lease[x]
      BY <3>1 DEF NewLease
    <3>3. m \in Lease \ {FreshLease} /\ m \in SavedIn(lease)
      BY <1>2, <3>2 DEF SavedIn
    <3>4. QED
      BY <1>1, <1>3, <2>1, <3>2, <3>3
  <2>4. QED
    BY <1>1, <1>4, <2>1, <2>2, <2>3
<1>11. CASE RestoreStep
  <2>1. lease' = lease /\ now' = now
    BY <1>11, FinishRows DEF RestoreStep, RestoreRun, RestoreCrash, rows
  <2>2. QED
    BY <1>1, <1>4, <2>1
<1>12. QED
  BY <1>5, <1>6, <1>7, <1>8, <1>9, <1>10, <1>11, StepKinds

(* A step that does not call the Root Worker leaves the file alone.        *)
LEMMA FileStays ==
    ASSUME IInv, [Next]_vars, ~WorkerStep, ~StartContainer, ~RestoreStep,
           \A l \in Lease : ~ScanRecycle(l) /\ ~RetryRecycle(l)
    PROVE  /\ host'.lease = host.lease /\ host'.status = host.status
           /\ KeysFit => KeysFit'
<1>1. host'.lease = host.lease /\ host'.status = host.status /\ host'.keys = host.keys
  <2>1. CASE StopContainer
    <3> DEFINE down == [host EXCEPT !.running = FALSE]
    <3>1. /\ host.lease = down.lease /\ host.status = down.status /\ host.keys = down.keys
      BY DEF IInv, TypeOK, HostStates
    <3>2. host' \in {host, down}
      BY <2>1, OutcomeParts DEF StopContainer, StopReplies, StopFaults
    <3> HIDE DEF down
    <3>3. QED
      BY <3>1, <3>2
  <2>2. CASE UNCHANGED host
    BY <2>2
  <2>3. QED
    BY <2>1, <2>2 DEF Next, Tick, OwnerStep, AdminStep, ScanStep, RequestRenewal, AutoRenew,
       AutoRenewLate, CreateRestore, ReplayRestore, UseLease, DecideStart, DecideCommit,
       SetPolicy, RejectRestore, ApproveRestore, ScanCancel, ScanRead, ScanLook, ScanActivate,
       ScanPass, ScanCrash, vars
<1>2. QED
  BY <1>1, ServedStays DEF KeysFit

LEMMA EnvStays ==
    ASSUME [Next]_vars, ~RestoreStep, IInv,
           \A l \in Lease : ~ScanRecycle(l) /\ ~RetryRecycle(l),
           \A q \in Restore :
              /\ \A i \in Lease, d \in Durations : ~CreateRestore(q, i, d)
              /\ ~ReplayRestore(q) /\ ~RejectRestore(q) /\ ~ApproveRestore(q)
    PROVE  owner'.env = owner.env
<1>1. CASE SetPolicy
  BY <1>1 DEF SetPolicy, IInv, TypeOK, OwnerRow
<1>2. CASE UNCHANGED owner
  BY <1>2
<1>3. QED
  BY <1>1, <1>2 DEF Next, Tick, OwnerStep, AdminStep, ScanStep, WorkerStep, ServeLeft,
     RequestRenewal, AutoRenew, AutoRenewLate, UseLease, StartContainer, StopContainer,
     DecideStart, DecideCommit, ScanCancel, ScanRead, ScanLook, ScanActivate, ScanPass,
     ScanCrash, vars, rows

(* No cleanup while a lease runs or a restore is in hand.                  *)
LEMMA NoCleanup ==
    ASSUME IInv, BinInv, EInv, IInv', OvertakenNotCleaned', [Next]_vars,
           Runs \/ restoring.req # None, NEW l \in Lease
    PROVE  ~ScanRecycle(l) /\ ~RetryRecycle(l)
<1> SUFFICES ASSUME ScanRecycle(l) \/ RetryRecycle(l) PROVE FALSE
  OBVIOUS
<1>1. ScanRecycle(l) => MayRecycle(l) /\ l \notin overtaken
  <2>1. ASSUME ScanRecycle(l) PROVE op'[l].status # "NONE"
    BY <2>1 DEF ScanRecycle, FailedOp, IInv, TypeOK
  <2>2. QED
    BY <2>1, NotOvertaken DEF CleanedUp, ScanRecycle
<1>2. Ended(l) /\ ~lease[l].recycled
  BY <1>1, CleanupBegins
<1>3. restoring.req # None => RestoringItem = l /\ lease[l].recycled
  BY <1>2, RestoringIsOpen, OpenMeansRest DEF Ended
<1>4. QED
  BY <1>2, <1>3 DEF Ended

(* Up goes on while a lease runs.                                          *)
LEMMA UpGoesOn ==
    ASSUME NoLag, IInv, BinInv, EInv, CallsInv, UpInv, IInv', OvertakenNotCleaned',
           [Next]_vars, Runs
    PROVE  Up'
<1>1. Up /\ OpenIn(item) = {} /\ restoring.req = None
  BY RunsMeansNoRestore DEF UpInv
<1>2. \A l \in Lease : ~ScanRecycle(l) /\ ~RetryRecycle(l)
  BY NoCleanup
<1>3. /\ ~RestoreStep
      /\ \A q \in Restore :
            /\ \A i \in Lease, d \in Durations : ~CreateRestore(q, i, d)
            /\ ~ReplayRestore(q) /\ ~RejectRestore(q) /\ ~ApproveRestore(q)
  BY <1>1, RestoreTakesOpen
<1>4. owner'.env = "ACTIVE"
  BY <1>1, <1>2, <1>3, EnvStays DEF Up
<1>5. now \in Nat /\ \A l \in Lease : BinFits(l) /\ lease[l].expires \in Nat
  BY DEF BinInv, IInv, TypeOK, Time, LeaseRow
<1>6. ASSUME NEW l \in SavedIn(lease), ~lease[l].recycled
      PROVE  l \in SavedIn(lease') /\ ~lease'[l].recycled
  BY <1>2, <1>6, RowsStay DEF SavedIn
<1>7. ASSUME NEW l \in SavedIn(lease), now < lease[l].expires
      PROVE  l \in SavedIn(lease') /\ ~lease'[l].recycled
  <2>1. l \in Lease
    BY DEF SavedIn
  <2>2. ~lease[l].recycled
    BY <1>5, <1>7, <2>1 DEF BinFits
  <2>3. QED
    BY <1>6, <2>2
<1>8. /\ host'.status = "ACTIVE" /\ KeysFit'
      /\ host'.lease = host.lease
            \/ (host'.lease \in SavedIn(lease) /\ now < lease[host'.lease].expires)
  <2>1. CASE WorkerStep
    <3>1. PICK c \in left : ServeLeft(c)
      BY <2>1 DEF WorkerStep
    <3>2. CallRefers(c) /\ (c.op = "recycle" => CleanupFits(c.lease)) /\ c.lease \in Lease
      BY DEF CallsInv, UpInv, IInv, TypeOK, LeftCalls
    <3>3. c.op = "recycle" => c.lease # host.lease
      BY <1>1, <3>2 DEF CleanupFits, Ended, Up
    <3>4. c.op = "rollback" => c.lease # host.lease
      BY <1>1, <3>2 DEF CallRefers, Up, SavedIn
    <3>5. host.status = "ACTIVE" /\ KeysFit
      BY <1>1 DEF Up
    <3>6. /\ host'.status = "ACTIVE" /\ KeysFit'
          /\ \/ host'.lease = host.lease
             \/ c.op = "start" /\ host'.lease = c.lease /\ now < lease[c.lease].expires
      BY <3>1, <3>3, <3>4, <3>5, ServedKeepsFile
    <3>7. QED
      BY <3>2, <3>6 DEF CallRefers
  <2>2. CASE StartContainer
    <3>1. PICK w \in StartReplies(host, EntitledLease, LeaseEnds, LeaseStarts, now)
                       \cup StartFaults(host, EntitledLease, LeaseEnds, now) : host' = w.host
      BY <2>2 DEF StartContainer
    <3>2. /\ EntitledLease \in SavedIn(lease) /\ EntitledLease \in Lease
          /\ now < lease[EntitledLease].expires
      BY <2>2, EntitledRuns DEF StartContainer
    <3>3. /\ host'.status = host.status /\ host'.keys = host.keys
          /\ host'.lease = host.lease \/ host'.lease = EntitledLease
      BY <3>1, StartBinds DEF IInv
    <3>4. KeysFit'
      BY <1>1, <3>3, ServedStays DEF KeysFit, Up
    <3>5. QED
      BY <1>1, <3>2, <3>3, <3>4 DEF Up
  <2>3. CASE ~WorkerStep /\ ~StartContainer
    BY <1>1, <1>2, <1>3, <2>3, FileStays DEF Up
  <2>4. QED
    BY <2>1, <2>2, <2>3
<1>9. host'.lease \in SavedIn(lease') /\ ~lease'[host'.lease].recycled
  BY <1>1, <1>6, <1>7, <1>8 DEF Up
<1>10. QED
  BY <1>4, <1>8, <1>9 DEF Up, SavedIn

(* A restore that succeeded is the last word until it is recorded.         *)
LEMMA RestoreInstalls ==
    ASSUME NEW a, NEW r, NEW current, NEW w,
           w \in RestoreReplies(host, a, r, current) \cup RestoreFaults(host, r, current),
           w.reply = "SUCCEEDED"
    PROVE  w.host.lease = a /\ w.host.status = "ACTIVE" /\ w.host.keys = "INSTALLED"
<1> DEFINE off == [host EXCEPT !.keys = "SUSPENDED"]
           half == [off EXCEPT !.running = TRUE]
           on == [lease |-> a, status |-> "ACTIVE", keys |-> "INSTALLED", running |-> TRUE]
<1>1. on.lease = a /\ on.status = "ACTIVE" /\ on.keys = "INSTALLED"
  OBVIOUS
<1>2. RestoreReplies(host, a, r, current)
        \subseteq {Outcome(host, "ERROR"), Outcome(on, "SUCCEEDED"), Outcome(off, "ROLLED_BACK")}
  BY DEF RestoreReplies
<1>3. RestoreFaults(host, r, current)
        \subseteq {Outcome(host, "LOST"), Outcome(off, "ROLLED_BACK"), Outcome(half, "ERROR")}
  BY DEF RestoreFaults
<1> HIDE DEF off, half, on
<1>4. w = Outcome(on, "SUCCEEDED")
  BY <1>2, <1>3, OutcomeParts
<1>5. QED
  BY <1>1, <1>4, OutcomeParts

LEMMA RestoredGoesOn ==
    ASSUME NoLag, IInv, BinInv, EInv, CallsInv, UpInv, IInv', OvertakenNotCleaned',
           [Next]_vars, restoring'.req # None, restoring'.reply = "SUCCEEDED"
    PROVE  host'.status = "ACTIVE" /\ host'.lease = restoring'.lease /\ KeysFit'
<1> DEFINE current == lease[restoring.lease].starts <= now /\ now < lease[restoring.lease].expires
           a == restoring.lease
           r == RestoringItem
<1>1. CASE RestoreRun
  <2>1. PICK w \in RestoreReplies(host, a, r, current) \cup RestoreFaults(host, r, current) :
           host' = w.host /\ restoring' = [restoring EXCEPT !.reply = w.reply]
    BY <1>1 DEF RestoreRun
  <2>2. restoring'.lease = restoring.lease /\ w.reply = "SUCCEEDED"
    BY <2>1 DEF IInv, TypeOK
  <2>3. host'.lease = restoring.lease /\ host'.status = "ACTIVE" /\ host'.keys = "INSTALLED"
    <3> HIDE DEF current, r
    <3>1. w.host.lease = a /\ w.host.status = "ACTIVE" /\ w.host.keys = "INSTALLED"
      BY <2>1, <2>2, RestoreInstalls
    <3>2. QED
      BY <2>1, <3>1
  <2>4. QED
    BY <2>2, <2>3 DEF KeysFit
<1>2. CASE ~RestoreRun
  <2>1. NoRestoring.req = None
    BY DEF NoRestoring
  <2>2. restoring' = restoring /\ ~RestoreFinish
    BY <1>2, <2>1, RestoringChanges
  <2>3. ~RestoreStep
    BY <1>2, <2>1, <2>2 DEF RestoreStep, RestoreCrash
  <2>4. /\ restoring.req # None /\ host.status = "ACTIVE" /\ host.lease = restoring.lease
        /\ KeysFit /\ lease[restoring.lease].state = "UNSAVED" /\ ~Runs
    BY <2>2, RestoringIsOpen, OpenMeansRest DEF UpInv, RestoredHost, BinInv
  <2>5. \A l \in Lease : ~ScanRecycle(l) /\ ~RetryRecycle(l)
    BY <2>4, NoCleanup
  <2>6. ~StartContainer
    BY <2>4, EntitledStepRuns DEF EntitledStep
  <2>7. CASE WorkerStep
    <3>1. PICK c \in left : ServeLeft(c)
      BY <2>7 DEF WorkerStep
    <3>2. CallRefers(c)
      BY DEF CallsInv
    <3>3. c.op \in {"recycle", "rollback"} => c.lease # host.lease
      BY <2>4, <3>2 DEF CallRefers, SavedIn
    <3>4. /\ host'.status = "ACTIVE" /\ KeysFit'
          /\ \/ host'.lease = host.lease
             \/ c.op = "start" /\ now < lease[c.lease].expires
      BY <2>4, <3>1, <3>3, ServedKeepsFile
    <3>5. c.op = "start" => ~(now < lease[c.lease].expires)
      BY <2>4, <3>2 DEF CallRefers, Runs
    <3>6. QED
      BY <2>2, <2>4, <3>4, <3>5
  <2>8. CASE ~WorkerStep
    BY <2>2, <2>3, <2>4, <2>5, <2>6, <2>8, FileStays
  <2>9. QED
    BY <2>7, <2>8
<1>3. QED
  BY <1>1, <1>2

LEMMA UpInvStep ==
    ASSUME NoLag, IInv, BinInv, EInv, CallsInv, UpInv, IInv', BinInv', KeptInBin,
           OvertakenNotCleaned', [Next]_vars
    PROVE  UpInv'
<1>1. Runs' => Up'
  <2>1. CASE RestoreFinish /\ RestoreSaved
    <3> DEFINE a == restoring.lease
    <3>1. /\ restoring.req # None /\ a \in Lease /\ lease[a].state = "UNSAVED"
          /\ lease'[a].state = "ACTIVE" /\ lease'[a].recycled = lease[a].recycled
      BY <2>1, FinishRows
    <3>2. /\ restoring.reply = "SUCCEEDED" /\ UNCHANGED <<host, left>>
          /\ owner'.env = "ACTIVE"
      BY <2>1 DEF RestoreSaved, IInv, TypeOK, OwnerRow
    <3>3. host.status = "ACTIVE" /\ host.lease = a /\ KeysFit
      BY <3>1, <3>2 DEF UpInv, RestoredHost
    <3>4. ~lease[a].recycled
      BY <3>1 DEF BinInv, BinFits
    <3>5. a \in SavedIn(lease')
      BY <3>1 DEF SavedIn
    <3>6. KeysFit'
      BY <3>2, <3>3 DEF KeysFit, LateCallServed
    <3> HIDE DEF a
    <3>7. QED
      BY <3>1, <3>2, <3>3, <3>4, <3>5, <3>6 DEF Up, SavedIn
  <2>2. CASE ~(RestoreFinish /\ RestoreSaved)
    BY <2>2, RunsBack, UpGoesOn
  <2>3. QED
    BY <2>1, <2>2
<1>2. ASSUME NEW c \in left', c.op = "recycle" PROVE CleanupFits(c.lease)'
  <2>1. ~lease'[c.lease].recycled => Ended(c.lease)' /\ ScanHarmless(c.lease)'
    BY <1>2, CleanupsFit
  <2>2. QED
    BY <2>1 DEF CleanupFits
<1>3. RestoredHost'
  BY RestoredGoesOn DEF RestoredHost
<1>4. QED
  BY <1>1, <1>2, <1>3 DEF UpInv

-----------------------------------------------------------------------------
EnvInv == CallsInv /\ (OvertakenNotCleaned => UpInv)

(* A lease that was not cleaned up was not recycled.                       *)
LEMMA NotCleanedNotRecycled ==
    ASSUME IInv, BinInv, OvertakenNotCleaned
    PROVE  OvertakenNotRecycled
<1>1. overtaken \subseteq Lease
  BY DEF IInv, TypeOK
<1>2. QED
  BY <1>1 DEF OvertakenNotCleaned, OvertakenNotRecycled, CleanedUp, BinInv, BinFits

LEMMA InitEnvInv == Init => EnvInv
<1> SUFFICES ASSUME Init PROVE EnvInv
  OBVIOUS
<1>1. /\ left = {} /\ restoring.req = None /\ owner.env = "ACTIVE"
      /\ host.lease = FirstLease /\ host.status = "ACTIVE" /\ host.keys = "INSTALLED"
      /\ FirstLease \in Lease
  BY LeaseAssumption DEF Init, NoRestoring
<1>2. FirstLease \in SavedIn(lease) /\ ~lease[FirstLease].recycled
  BY <1>1 DEF Init, NoLease, SavedIn
<1>3. QED
  BY <1>1, <1>2 DEF EnvInv, CallsInv, UpInv, Up, KeysFit, RestoredHost

(* What was cleaned up stays so.                                           *)
LEMMA CleanedUpStays ==
    ASSUME NoLag, IInv, BinInv, [Next]_vars, NEW l \in Lease, CleanedUp(l)
    PROVE  CleanedUp(l)'
<1>1. op[l].status # "NONE" => op'[l].status # "NONE"
  <2>1. CASE \E m \in Lease : ScanRecycle(m)
    BY <2>1 DEF ScanRecycle, FailedOp, IInv, TypeOK
  <2>2. CASE UNCHANGED op
    BY <2>2
  <2>3. QED
    BY <2>1, <2>2 DEF Next, Tick, OwnerStep, AdminStep, ScanStep, RestoreStep, WorkerStep,
       ServeLeft, RequestRenewal, AutoRenew, AutoRenewLate, CreateRestore, ReplayRestore,
       UseLease, StartContainer, StopContainer, DecideStart, DecideCommit, SetPolicy,
       RejectRestore, ApproveRestore, RetryRecycle, ScanCancel, ScanRead, ScanLook,
       ScanActivate, ScanPass, ScanCrash, RestoreRun, RestoreFinish, RestoreCrash, vars, rows
<1>2. ASSUME NEW c \in left, c.op = "recycle", c.lease = l
      PROVE  \E b \in left' : b.op = "recycle" /\ b.lease = l
  BY <1>2, CallsStay
<1>3. QED
  BY <1>1, <1>2 DEF CleanedUp

LEMMA NextEnvInv ==
    ASSUME NoLag, IInv, BinInv, OrderInv, EnvInv, IInv', [Next]_vars
    PROVE  EnvInv'
<1>1. BinInv' /\ \A m \in Lease : lease[m].state = "RECYCLE_BIN" => lease'[m] = lease[m]
  BY NextBin
<1>2. KeptInBin
  BY <1>1 DEF KeptInBin, BinInv, BinFits
<1>3. CallsInv'
  BY CallsInvStep DEF EnvInv
<1>4. OvertakenNotCleaned' => OvertakenNotCleaned
  <2>1. overtaken \subseteq overtaken' /\ overtaken \subseteq Lease
    BY OvertakenGrows DEF IInv, TypeOK
  <2>2. QED
    BY <2>1, CleanedUpStays DEF OvertakenNotCleaned
<1>5. OvertakenNotCleaned' => UpInv'
  BY <1>1, <1>2, <1>4, UpInvStep, NotCleanedNotRecycled DEF EnvInv, OrderInv
<1>6. QED
  BY <1>3, <1>5 DEF EnvInv

(* The strengthened invariant holds in every reachable state.              *)
THEOREM EnvironmentInvariance ==
    ASSUME NoLag
    PROVE  Spec => []EnvInv
<1>1. IInv /\ BinInv /\ OrderInv /\ EnvInv /\ IInv' /\ [Next]_vars => EnvInv'
  BY NextEnvInv
<1>2. QED
  BY <1>1, InitEnvInv, Invariance, BinInvariance, EntitlementInvariance, PTL DEF Spec

(* While a lease entitles the owner the environment is up: no cleanup,     *)
(* retried, crashed half way or served long after its caller gave up,      *)
(* retires the lifecycle file of an owner who renewed in time or was       *)
(* restored, and no restore, rollback or start served late does.           *)
THEOREM EntitledStaysUp ==
    ASSUME NoLag
    PROVE  Spec => []EntitledEnvironmentIsUp
<1>1. IInv /\ BinInv /\ OrderInv /\ EnvInv => EntitledEnvironmentIsUp
  <2> SUFFICES ASSUME IInv, BinInv, OrderInv, EnvInv, OvertakenNotCleaned, Entitled
               PROVE  Up
    BY DEF EntitledEnvironmentIsUp, Up, KeysFit
  <2>1. EInv
    BY NotCleanedNotRecycled DEF OrderInv
  <2>2. Runs
    BY <2>1, EntitledRuns DEF Runs
  <2>3. QED
    BY <2>2 DEF EnvInv, UpInv
<1>2. QED
  BY <1>1, Invariance, BinInvariance, EntitlementInvariance, EnvironmentInvariance, PTL
=============================================================================
