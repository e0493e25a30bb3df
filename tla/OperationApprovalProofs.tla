----------------------- MODULE OperationApprovalProofs -----------------------
(***************************************************************************)
(* Proofs about OperationApproval, for every value of its constants.       *)
(*                                                                         *)
(* Nothing is locked, so no step can rely on the status it has read.  What *)
(* carries the proofs instead is what a request has behind it: a task that *)
(* has not reached the Worker yet holds an approval that no other task     *)
(* uses, and a request beyond the lifecycle gate never got that far.       *)
(***************************************************************************)
EXTENDS OperationApproval, FiniteSetTheorems, TLAPS

Decided == {"TASK", "STARTING", "RUNNING"}

(* The tasks of an operation that have not been sent to the Worker yet.    *)
Unsent(k) == {a \in Actor : proc[a].at \in {"TASK", "STARTING"} /\ proc[a].key = k}

(* Every task sent, or still to be sent, has an approval of its own.       *)
TasksAreCounted == \A k \in Key : executed[k] + Cardinality(Unsent(k)) <= approvals[k]

(* A task belongs to an operation that was approved.                       *)
TasksAreApproved == \A a \in Actor : proc[a].at \in Decided => approvals[proc[a].key] > 0

(* No operation beyond the gate is submitted, let alone decided.           *)
GateIsClosed ==
    /\ \A k \in Gated : status[k] \in {"NONE", "DRAFT"} /\ approvals[k] = 0
    /\ \A a \in Actor : proc[a].at \in Decided \cup {"SUBMITTING", "DECIDING"}
                           => proc[a].key \notin Gated

IInv ==
    /\ TypeOK
    /\ TasksAreCounted
    /\ TasksAreApproved
    /\ GateIsClosed
    /\ DecisionsExplainStatus

-----------------------------------------------------------------------------
(* Counting the tasks that are still to be sent.                           *)

LEMMA UnsentFinite ==
    ASSUME NEW k
    PROVE  IsFiniteSet(Unsent(k)) /\ Cardinality(Unsent(k)) \in Nat
<1>1. IsFiniteSet(Unsent(k))
  BY OperationAssumption, FS_Subset DEF Unsent
<1>2. QED
  BY <1>1, FS_CardinalityType

(* A step that adds no task and sends none keeps the count.                *)
LEMMA NoTaskAdded ==
    ASSUME TypeOK, TasksAreCounted, UNCHANGED <<executed, approvals>>,
           \A k \in Key : Unsent(k)' \subseteq Unsent(k)
    PROVE  TasksAreCounted'
<1> SUFFICES ASSUME NEW k \in Key
             PROVE  executed'[k] + Cardinality(Unsent(k)') <= approvals'[k]
  BY DEF TasksAreCounted
<1>1. Cardinality(Unsent(k)') \in Nat /\ Cardinality(Unsent(k)') <= Cardinality(Unsent(k))
  BY UnsentFinite, FS_Subset, FS_CardinalityType
<1>2. Cardinality(Unsent(k)) \in Nat
  BY UnsentFinite
<1>3. executed[k] \in Nat /\ approvals[k] \in Nat
  BY DEF TypeOK
<1>4. executed[k] + Cardinality(Unsent(k)) <= approvals[k]
  BY DEF TasksAreCounted
<1>5. QED
  BY <1>1, <1>2, <1>3, <1>4

-----------------------------------------------------------------------------
(* One lemma for each action.                                              *)

(* What a request does that touches neither the status nor the counters,   *)
(* and leaves its process at a place where nothing is decided.             *)
Undecided == Places \ Decided

LEMMA StatusUnchangedPreserves ==
    ASSUME IInv, TypeOK', NEW a \in Actor,
           UNCHANGED <<status, approvals, rejects, executed>>,
           \A b \in Actor \ {a} : proc'[b] = proc[b],
           \/ proc'[a].at \in Undecided
           \/ proc'[a].key = proc[a].key /\ proc[a].at \in {"TASK", "STARTING"},
           proc'[a].at \in {"SUBMITTING", "DECIDING"} => proc'[a].key \notin Gated
    PROVE  IInv'
<1>1. \A k \in Key : Unsent(k)' \subseteq Unsent(k)
  BY DEF Unsent, Undecided, Decided
<1>2. TasksAreCounted'
  BY <1>1, NoTaskAdded DEF IInv
<1>3. TasksAreApproved'
  BY DEF IInv, TasksAreApproved, Undecided, Decided
<1>4. GateIsClosed'
  BY DEF IInv, GateIsClosed, Undecided, Decided
<1>5. DecisionsExplainStatus'
  BY DEF IInv, DecisionsExplainStatus
<1>6. QED
  BY <1>2, <1>3, <1>4, <1>5 DEF IInv

LEMMA StartsPreserves ==
    ASSUME IInv, NEW a \in Actor, NEW k \in Key,
           LooksUp(a, k) \/ LoadDraft(a, k) \/ LoadPending(a, k)
    PROVE  IInv'
<1>1. proc \in [Actor -> [at : Places, key : Key, reply : Answers]]
  BY DEF IInv, TypeOK
<1>2. PICK at \in {"IDLE", "CHECKED", "SUBMITTING", "DECIDING"}, reply \in {"NONE", "OPERATION"} :
         /\ proc' = [proc EXCEPT ![a] = [at |-> at, key |-> k, reply |-> reply]]
         /\ at \in {"SUBMITTING", "DECIDING"} => k \notin Gated
  <2>1. CASE LooksUp(a, k)
    BY <2>1 DEF LooksUp, Starts
  <2>2. CASE LoadDraft(a, k)
    BY <2>2 DEF LoadDraft, MaySubmit, Starts
  <2>3. CASE LoadPending(a, k)
    BY <2>3 DEF LoadPending, Starts, IInv, GateIsClosed
  <2>4. QED
    BY <2>1, <2>2, <2>3
<1>3. /\ UNCHANGED <<status, approvals, rejects, executed, faults>>
      /\ runs < MaxRuns /\ runs' = runs + 1
  BY DEF LooksUp, LoadDraft, LoadPending, Starts
<1>4. proc'[a] = [at |-> at, key |-> k, reply |-> reply]
  BY <1>1, <1>2
<1>5. TypeOK'
  BY <1>1, <1>2, <1>3, OperationAssumption DEF IInv, TypeOK, Places, Answers
<1>6. QED
  BY <1>1, <1>2, <1>3, <1>4, <1>5, StatusUnchangedPreserves DEF Undecided, Decided, Places

(* Ending a request, or moving a task on, without a commit.                *)
LEMMA GoesPreserves ==
    ASSUME IInv, NEW a \in Actor,
           NEW at \in {"IDLE", "INSERTED", "STARTING"}, NEW reply \in Answers,
           proc' = [proc EXCEPT ![a].at = at, ![a].reply = reply],
           at = "STARTING" => proc[a].at = "TASK",
           UNCHANGED <<status, approvals, rejects, executed, runs>>,
           faults' \in 0..MaxFaults
    PROVE  IInv'
<1>1. proc \in [Actor -> [at : Places, key : Key, reply : Answers]]
  BY DEF IInv, TypeOK
<1>2. proc'[a] = [at |-> at, key |-> proc[a].key, reply |-> reply]
  BY <1>1
<1>3. TypeOK'
  BY <1>1 DEF IInv, TypeOK, Places, Answers
<1>4. QED
  BY <1>1, <1>2, <1>3, StatusUnchangedPreserves DEF Undecided, Decided, Places

LEMMA FlushPreserves ==
    ASSUME IInv, NEW a \in Actor, Flush(a)
    PROVE  IInv'
<1>1. proc \in [Actor -> [at : Places, key : Key, reply : Answers]] /\ faults \in 0..MaxFaults
  BY DEF IInv, TypeOK
<1>2. CASE Goes(a, "INSERTED")
  <2>1. proc' = [proc EXCEPT ![a].at = "INSERTED", ![a].reply = proc[a].reply]
    BY <1>1, <1>2 DEF Goes
  <2>2. QED
    BY <1>1, <2>1, GoesPreserves DEF Flush
<1>3. CASE Replies(a, "ERROR")
  BY <1>1, <1>3, GoesPreserves DEF Flush, Replies, Answers
<1>4. QED
  BY <1>2, <1>3 DEF Flush

(* A commit of the request a on its operation k.  The lemmas below name    *)
(* what it writes; what they share is that the operation of a was decided  *)
(* with an approval behind it, or not decided at all.                      *)
LEMMA CommitPreserves ==
    ASSUME IInv, NEW a \in Actor, NEW at \in Places, NEW reply \in Answers,
           NEW new \in Status, NEW k \in Key, k = proc[a].key,
           proc' = [proc EXCEPT ![a].at = at, ![a].reply = reply],
           status' = [status EXCEPT ![k] = new],
           approvals' \in [Key -> Nat], rejects' \in [Key -> Nat], executed' \in [Key -> Nat],
           \A j \in Key : approvals'[j] >= approvals[j] /\ rejects'[j] >= rejects[j],
           \A j \in Key : j # k => approvals'[j] = approvals[j],
           faults' \in 0..MaxFaults, UNCHANGED runs,
           TasksAreCounted',
           at \notin {"SUBMITTING", "DECIDING"},
           at \in Decided => approvals'[k] > 0,
           new = "CANCELLED" => rejects'[k] > 0,
           new \in {"QUEUED", "RUNNING", "SUCCEEDED", "FAILED"} => approvals'[k] > 0,
           new # "DRAFT" \/ at \in Decided => k \notin Gated,
           k \in Gated => approvals'[k] = 0
    PROVE  IInv'
<1>1. proc \in [Actor -> [at : Places, key : Key, reply : Answers]]
  BY DEF IInv, TypeOK
<1>2. proc'[a] = [at |-> at, key |-> k, reply |-> reply]
      /\ \A b \in Actor \ {a} : proc'[b] = proc[b]
  BY <1>1
<1>3. status'[k] = new /\ \A j \in Key \ {k} : status'[j] = status[j]
  BY DEF IInv, TypeOK
<1>4. TypeOK'
  BY <1>1 DEF IInv, TypeOK
<1>5. TasksAreApproved'
  <2> SUFFICES ASSUME NEW b \in Actor, proc'[b].at \in Decided
               PROVE  approvals'[proc'[b].key] > 0
    BY DEF TasksAreApproved
  <2>1. CASE b = a
    BY <1>2, <2>1
  <2>2. CASE b # a
    <3>1. proc[b].key \in Key /\ approvals[proc[b].key] > 0
      BY <1>1, <1>2, <2>2 DEF IInv, TasksAreApproved
    <3>2. approvals[proc[b].key] \in Nat /\ approvals'[proc[b].key] \in Nat
      BY <3>1 DEF IInv, TypeOK
    <3>3. approvals'[proc[b].key] > 0
      BY <3>1, <3>2
    <3>4. QED
      BY <1>2, <2>2, <3>3
  <2>3. QED
    BY <2>1, <2>2
<1>6. GateIsClosed'
  <2>1. ASSUME NEW j \in Gated
        PROVE  status'[j] \in {"NONE", "DRAFT"} /\ approvals'[j] = 0
    <3>1. j \in Key /\ status[j] \in {"NONE", "DRAFT"} /\ approvals[j] = 0
      BY <2>1, OperationAssumption DEF IInv, GateIsClosed
    <3>2. QED
      BY <1>3, <2>1, <3>1
  <2>2. ASSUME NEW b \in Actor, proc'[b].at \in Decided \cup {"SUBMITTING", "DECIDING"}
        PROVE  proc'[b].key \notin Gated
    <3>1. CASE b = a
      BY <1>2, <2>2, <3>1
    <3>2. CASE b # a
      BY <1>2, <2>2, <3>2 DEF IInv, GateIsClosed
    <3>3. QED
      BY <3>1, <3>2
  <2>3. QED
    BY <2>1, <2>2 DEF GateIsClosed
<1>7. DecisionsExplainStatus'
  <2> SUFFICES ASSUME NEW j \in Key
               PROVE  /\ status'[j] = "CANCELLED" => rejects'[j] > 0
                      /\ status'[j] \in {"QUEUED", "RUNNING", "SUCCEEDED", "FAILED"}
                           => approvals'[j] > 0
    BY DEF DecisionsExplainStatus
  <2>1. /\ status[j] = "CANCELLED" => rejects[j] > 0
        /\ status[j] \in {"QUEUED", "RUNNING", "SUCCEEDED", "FAILED"} => approvals[j] > 0
    BY DEF IInv, DecisionsExplainStatus
  <2>2. rejects[j] \in Nat /\ approvals[j] \in Nat /\ rejects'[j] \in Nat /\ approvals'[j] \in Nat
    BY DEF IInv, TypeOK
  <2>3. QED
    BY <1>3, <2>1, <2>2
<1>8. QED
  BY <1>4, <1>5, <1>6, <1>7 DEF IInv

(* A commit that neither adds nor sends a task.                            *)
LEMMA QuietCommitPreserves ==
    ASSUME IInv, NEW a \in Actor, NEW at \in {"IDLE"}, NEW reply \in Answers,
           NEW new \in Status, NEW k \in Key, k = proc[a].key,
           proc' = [proc EXCEPT ![a].at = at, ![a].reply = reply],
           status' = [status EXCEPT ![k] = new],
           UNCHANGED <<approvals, executed, runs>>,
           \/ UNCHANGED rejects
           \/ rejects' = [rejects EXCEPT ![k] = @ + 1],
           faults' \in 0..MaxFaults,
           new = "CANCELLED" => rejects' = [rejects EXCEPT ![k] = @ + 1],
           new \in {"QUEUED", "RUNNING", "SUCCEEDED", "FAILED"} => approvals[k] > 0,
           new # "DRAFT" => k \notin Gated
    PROVE  IInv'
<1>1. /\ proc \in [Actor -> [at : Places, key : Key, reply : Answers]]
      /\ approvals \in [Key -> Nat] /\ rejects \in [Key -> Nat] /\ executed \in [Key -> Nat]
  BY DEF IInv, TypeOK
<1>2. \A j \in Key : Unsent(j)' \subseteq Unsent(j)
  BY <1>1 DEF Unsent
<1>3. TasksAreCounted'
  BY <1>2, NoTaskAdded DEF IInv
<1>4. /\ rejects' \in [Key -> Nat] /\ \A j \in Key : rejects'[j] >= rejects[j]
      /\ new = "CANCELLED" => rejects'[k] > 0
  <2>1. CASE UNCHANGED rejects
    BY <1>1, <2>1
  <2>2. CASE rejects' = [rejects EXCEPT ![k] = @ + 1]
    BY <1>1, <2>2
  <2>3. QED
    BY <2>1, <2>2
<1>5. k \in Gated => approvals[k] = 0
  BY DEF IInv, GateIsClosed
<1>6. at \in Places /\ at \notin Decided
  BY DEF Places, Decided
<1>7. /\ approvals' \in [Key -> Nat] /\ executed' \in [Key -> Nat]
      /\ \A j \in Key : approvals'[j] >= approvals[j] /\ approvals'[j] = approvals[j]
  BY <1>1
<1>8. QED
  BY <1>3, <1>4, <1>5, <1>6, <1>7, CommitPreserves

(* The reply stays when only the place changes.                            *)
LEMMA GoesKeepsReply ==
    ASSUME TypeOK, NEW a \in Actor, NEW at
    PROVE  /\ [proc EXCEPT ![a].at = at] = [proc EXCEPT ![a].at = at, ![a].reply = proc[a].reply]
           /\ proc[a].reply \in Answers /\ proc[a].key \in Key
BY DEF TypeOK

LEMMA CommitDraftPreserves ==
    ASSUME IInv, NEW a \in Actor, CommitDraft(a)
    PROVE  IInv'
<1> DEFINE k == proc[a].key
<1>1. k \in Key /\ faults \in 0..MaxFaults
  BY DEF IInv, TypeOK
<1>2. CASE status' = [status EXCEPT ![k] = "DRAFT"] /\ Replies(a, "OPERATION")
  BY <1>1, <1>2, QuietCommitPreserves DEF CommitDraft, Replies, Status, Answers
<1>3. CASE UNCHANGED status /\ Replies(a, "REFUSED")
  BY <1>1, <1>3, GoesPreserves DEF CommitDraft, Replies, Answers
<1>4. QED
  BY <1>2, <1>3 DEF CommitDraft

LEMMA CommitSubmissionPreserves ==
    ASSUME IInv, NEW a \in Actor, CommitSubmission(a)
    PROVE  IInv'
<1>1. proc[a].key \in Key /\ faults \in 0..MaxFaults
  BY DEF IInv, TypeOK
<1>2. proc[a].key \notin Gated
  BY DEF IInv, GateIsClosed, CommitSubmission, At
<1>3. QED
  BY <1>1, <1>2, QuietCommitPreserves DEF CommitSubmission, Replies, Status, Answers

LEMMA CommitRejectPreserves ==
    ASSUME IInv, NEW a \in Actor, CommitReject(a)
    PROVE  IInv'
<1>1. proc[a].key \in Key /\ faults \in 0..MaxFaults
  BY DEF IInv, TypeOK
<1>2. proc[a].key \notin Gated
  BY DEF IInv, GateIsClosed, CommitReject, At
<1>3. QED
  BY <1>1, <1>2, QuietCommitPreserves DEF CommitReject, Replies, Status, Final, Answers

(* An approval pays for the task it leaves behind.                         *)
LEMMA CommitApprovePreserves ==
    ASSUME IInv, NEW a \in Actor, CommitApprove(a)
    PROVE  IInv'
<1> DEFINE k == proc[a].key
<1>1. /\ proc \in [Actor -> [at : Places, key : Key, reply : Answers]]
      /\ approvals \in [Key -> Nat] /\ rejects \in [Key -> Nat] /\ executed \in [Key -> Nat]
      /\ k \in Key /\ faults \in 0..MaxFaults
  BY DEF IInv, TypeOK
<1>2. k \notin Gated
  BY DEF IInv, GateIsClosed, CommitApprove, At
<1>3. /\ approvals' \in [Key -> Nat] /\ approvals'[k] = approvals[k] + 1
      /\ \A j \in Key : j # k => approvals'[j] = approvals[j]
  BY <1>1 DEF CommitApprove
<1>4. TasksAreCounted'
  <2> SUFFICES ASSUME NEW j \in Key
               PROVE  executed'[j] + Cardinality(Unsent(j)') <= approvals'[j]
    BY DEF TasksAreCounted
  <2>1. executed[j] + Cardinality(Unsent(j)) <= approvals[j]
    BY DEF IInv, TasksAreCounted
  <2>2. Cardinality(Unsent(j)) \in Nat /\ IsFiniteSet(Unsent(j))
    BY UnsentFinite
  <2>3. CASE j = k
    <3>1. Unsent(j)' = Unsent(j) \cup {a}
      BY <1>1, <2>3 DEF CommitApprove, At, Unsent
    <3>2. Cardinality(Unsent(j)') \in {Cardinality(Unsent(j)), Cardinality(Unsent(j)) + 1}
      BY <2>2, <3>1, FS_AddElement
    <3>3. executed[j] \in Nat /\ approvals[j] \in Nat /\ executed'[j] = executed[j]
      BY <1>1 DEF CommitApprove
    <3>4. QED
      BY <1>3, <2>1, <2>2, <2>3, <3>2, <3>3
  <2>4. CASE j # k
    <3>1. Unsent(j)' = Unsent(j)
      BY <1>1, <2>4 DEF CommitApprove, At, Unsent
    <3>2. QED
      BY <1>3, <2>1, <2>4, <3>1 DEF CommitApprove
  <2>5. QED
    BY <2>3, <2>4
<1>5. \A j \in Key : approvals'[j] >= approvals[j] /\ rejects'[j] >= rejects[j]
  BY <1>1, <1>3 DEF CommitApprove
<1>6. approvals'[k] > 0
  BY <1>1, <1>3
<1>7. /\ "TASK" \in Places /\ "OPERATION" \in Answers /\ "QUEUED" \in Status
      /\ rejects' \in [Key -> Nat] /\ executed' \in [Key -> Nat] /\ faults' \in 0..MaxFaults
  BY <1>1 DEF CommitApprove, Places, Status, Answers
<1>8. /\ proc' = [proc EXCEPT ![a].at = "TASK", ![a].reply = "OPERATION"]
      /\ status' = [status EXCEPT ![k] = "QUEUED"] /\ UNCHANGED runs
  BY DEF CommitApprove
<1>9. k \in Gated => approvals'[k] = 0
  BY <1>2
<1>10. QED
  <2> HIDE DEF k
  <2>1. \A at \in Places, reply \in Answers, new \in Status :
          at = "TASK" /\ reply = "OPERATION" /\ new = "QUEUED" => IInv'
    BY <1>1, <1>2, <1>3, <1>4, <1>5, <1>6, <1>7, <1>8, <1>9, CommitPreserves DEF k
  <2>2. QED
    BY <1>7, <2>1

LEMMA LoadQueuedPreserves ==
    ASSUME IInv, NEW a \in Actor, LoadQueued(a)
    PROVE  IInv'
<1>1. TypeOK /\ faults \in 0..MaxFaults
  BY DEF IInv, TypeOK
<1>2. QED
  BY <1>1, GoesKeepsReply, GoesPreserves DEF LoadQueued, Goes, At

(* Sending a task to the Worker uses up the approval it holds.             *)
LEMMA CommitRunningPreserves ==
    ASSUME IInv, NEW a \in Actor, CommitRunning(a)
    PROVE  IInv'
<1> DEFINE k == proc[a].key
<1>1. /\ proc \in [Actor -> [at : Places, key : Key, reply : Answers]]
      /\ approvals \in [Key -> Nat] /\ rejects \in [Key -> Nat] /\ executed \in [Key -> Nat]
      /\ k \in Key /\ faults \in 0..MaxFaults
  BY DEF IInv, TypeOK
<1>2. k \notin Gated /\ approvals[k] > 0
  BY DEF IInv, GateIsClosed, TasksAreApproved, CommitRunning, At, Decided
<1>3. /\ executed' \in [Key -> Nat] /\ executed'[k] = executed[k] + 1
      /\ \A j \in Key : j # k => executed'[j] = executed[j]
  BY <1>1 DEF CommitRunning
<1>4. TasksAreCounted'
  <2> SUFFICES ASSUME NEW j \in Key
               PROVE  executed'[j] + Cardinality(Unsent(j)') <= approvals'[j]
    BY DEF TasksAreCounted
  <2>1. executed[j] + Cardinality(Unsent(j)) <= approvals[j]
    BY DEF IInv, TasksAreCounted
  <2>2. Cardinality(Unsent(j)) \in Nat /\ IsFiniteSet(Unsent(j))
    BY UnsentFinite
  <2>3. CASE j = k
    <3>1. Unsent(j)' = Unsent(j) \ {a} /\ a \in Unsent(j)
      BY <1>1, <2>3 DEF CommitRunning, Goes, At, Unsent
    <3>2. Cardinality(Unsent(j)') = Cardinality(Unsent(j)) - 1
      BY <2>2, <3>1, FS_RemoveElement
    <3>3. executed[j] \in Nat /\ approvals[j] \in Nat /\ approvals'[j] = approvals[j]
      BY <1>1 DEF CommitRunning
    <3>4. QED
      BY <1>3, <2>1, <2>2, <2>3, <3>2, <3>3
  <2>4. CASE j # k
    <3>1. Unsent(j)' = Unsent(j)
      BY <1>1, <2>4 DEF CommitRunning, Goes, At, Unsent
    <3>2. QED
      BY <1>3, <2>1, <2>4, <3>1 DEF CommitRunning
  <2>5. QED
    BY <2>3, <2>4
<1>5. \A j \in Key : approvals'[j] >= approvals[j] /\ rejects'[j] >= rejects[j]
  BY <1>1 DEF CommitRunning
<1>6. proc' = [proc EXCEPT ![a].at = "RUNNING", ![a].reply = proc[a].reply]
      /\ proc[a].reply \in Answers
  BY GoesKeepsReply DEF CommitRunning, Goes, IInv
<1>7. QED
  BY <1>1, <1>2, <1>3, <1>4, <1>5, <1>6, CommitPreserves
     DEF CommitRunning, Places, Status, Decided

LEMMA RecordsPreserves ==
    ASSUME IInv, NEW a \in Actor, NEW outcome \in {"SUCCEEDED", "FAILED"},
           Records(a, outcome), faults' \in 0..MaxFaults
    PROVE  IInv'
<1>1. proc[a].key \in Key /\ proc[a].key \notin Gated /\ approvals[proc[a].key] > 0
  BY DEF IInv, TypeOK, GateIsClosed, TasksAreApproved, Records, At, Decided
<1>2. proc' = [proc EXCEPT ![a].at = "IDLE", ![a].reply = proc[a].reply]
      /\ proc[a].reply \in Answers
  BY GoesKeepsReply DEF Records, Goes, IInv
<1>3. QED
  BY <1>1, <1>2, QuietCommitPreserves DEF Records, Status, Final

LEMMA DiesPreserves ==
    ASSUME IInv, NEW a \in Actor, Dies(a)
    PROVE  IInv'
<1>1. TypeOK /\ faults' \in 0..MaxFaults
  BY OperationAssumption DEF IInv, TypeOK, Dies, Fault
<1>2. proc' = [proc EXCEPT ![a].at = "IDLE", ![a].reply = proc[a].reply]
      /\ proc[a].reply \in Answers
  BY <1>1, GoesKeepsReply DEF Dies, Goes
<1>3. QED
  BY <1>1, <1>2, GoesPreserves DEF Dies

-----------------------------------------------------------------------------
LEMMA InitIInv == Init => IInv
<1> SUFFICES ASSUME Init PROVE IInv
  OBVIOUS
<1>1. (CHOOSE k \in Key : TRUE) \in Key
  BY OperationAssumption
<1>2. TypeOK
  BY <1>1, OperationAssumption DEF Init, TypeOK, Nobody, Status, Places, Answers
<1>3. \A k \in Key : Unsent(k) = {}
  BY DEF Init, Nobody, Unsent
<1>4. TasksAreCounted
  BY <1>3, FS_EmptySet DEF Init, TasksAreCounted
<1>5. TasksAreApproved /\ GateIsClosed /\ DecisionsExplainStatus
  BY OperationAssumption DEF Init, Nobody, TasksAreApproved, GateIsClosed, Decided,
                             DecisionsExplainStatus
<1>6. QED
  BY <1>2, <1>4, <1>5 DEF IInv

LEMMA NextIInv == IInv /\ [Next]_vars => IInv'
<1> SUFFICES ASSUME IInv, [Next]_vars PROVE IInv'
  OBVIOUS
<1>1. ASSUME NEW a \in Actor, NEW k \in Key,
             LooksUp(a, k) \/ LoadDraft(a, k) \/ LoadPending(a, k)
      PROVE  IInv'
  BY <1>1, StartsPreserves
<1>2. ASSUME NEW a \in Actor, Advances(a)
      PROVE  IInv'
  <2>1. CASE Flush(a) \/ CommitDraft(a) \/ CommitSubmission(a)
    BY <2>1, FlushPreserves, CommitDraftPreserves, CommitSubmissionPreserves
  <2>2. CASE CommitReject(a) \/ CommitApprove(a)
    BY <2>2, CommitRejectPreserves, CommitApprovePreserves
  <2>3. CASE LoadQueued(a) \/ CommitRunning(a)
    BY <2>3, LoadQueuedPreserves, CommitRunningPreserves
  <2>4. CASE DryRunEnds(a)
    BY <2>4, RecordsPreserves DEF DryRunEnds, IInv, TypeOK
  <2>5. QED
    BY <1>2, <2>1, <2>2, <2>3, <2>4 DEF Advances
<1>3. ASSUME NEW a \in Actor, WorkerUnavailable(a)
      PROVE  IInv'
  <2>1. faults' \in 0..MaxFaults
    BY <1>3, OperationAssumption DEF WorkerUnavailable, Fault, IInv, TypeOK
  <2>2. QED
    BY <1>3, <2>1, RecordsPreserves DEF WorkerUnavailable
<1>4. ASSUME NEW a \in Actor, Dies(a)
      PROVE  IInv'
  BY <1>4, DiesPreserves
<1>5. CASE UNCHANGED vars
  BY <1>5 DEF vars, IInv, TypeOK, TasksAreCounted, Unsent, TasksAreApproved, GateIsClosed,
              DecisionsExplainStatus
<1>6. QED
  BY <1>1, <1>2, <1>3, <1>4, <1>5 DEF Next

-----------------------------------------------------------------------------
(* What two administrators do at the same time, and what dies on the way,  *)
(* never takes an operation out of what IInv describes.                    *)
THEOREM Invariance == Spec => []IInv
<1>1. QED
  BY InitIInv, NextIInv, PTL DEF Spec

(* The rows of operations and the requests keep their shape.               *)
THEOREM TypeCorrect == Spec => []TypeOK
<1>1. IInv => TypeOK
  BY DEF IInv
<1>2. QED
  BY <1>1, Invariance, PTL

(* However decisions write over each other, the Worker is asked at most    *)
(* once for each approval on record, and never beyond the gate.            *)
THEOREM RunsAreApproved == Spec => []EachRunHasItsApproval
<1>1. IInv => EachRunHasItsApproval
  <2> SUFFICES ASSUME IInv, NEW k \in Key
               PROVE  executed[k] <= approvals[k] /\ (k \in Gated => approvals[k] = 0)
    BY DEF EachRunHasItsApproval
  <2>1. executed[k] + Cardinality(Unsent(k)) <= approvals[k] /\ Cardinality(Unsent(k)) \in Nat
    BY UnsentFinite DEF IInv, TasksAreCounted
  <2>2. executed[k] \in Nat /\ approvals[k] \in Nat
    BY DEF IInv, TypeOK
  <2>3. QED
    BY <2>1, <2>2 DEF IInv, GateIsClosed
<1>2. QED
  BY <1>1, Invariance, PTL

(* The status that was written last has a decision behind it, whatever     *)
(* other decision it wrote over.                                           *)
THEOREM StatusIsExplained == Spec => []DecisionsExplainStatus
<1>1. IInv => DecisionsExplainStatus
  BY DEF IInv
<1>2. QED
  BY <1>1, Invariance, PTL
=============================================================================
