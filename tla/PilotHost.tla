------------------------------ MODULE PilotHost ------------------------------
(***************************************************************************)
(* What the Root Worker does to the first managed identity and to the      *)
(* Slurm node.                                                             *)
(*                                                                         *)
(* The host keeps the identity (account, GPU policy, quota, association,   *)
(* container, keys: all of a kind in a good state, "PARTIAL" or "HALF"     *)
(* when a script left something of the next or of the previous one) and    *)
(* the state of the node.  An operator gives the outcomes of a handler:    *)
(* the host afterwards and the reply.  "LOST" is a reply that never comes. *)
(***************************************************************************)
HostStates == [identity : {"ABSENT", "PARTIAL", "STAGED", "HALF", "ACTIVE"},
               node : {"DRAIN", "IDLE"}]

Outcome(h, r) == [host |-> h, reply |-> r]

Lost(outcomes) == {Outcome(w.host, "LOST") : w \in outcomes}

Becomes(h, i) == [h EXCEPT !.identity = i]

Opens(h) == [h EXCEPT !.node = "IDLE"]
Drains(h) == [h EXCEPT !.node = "DRAIN"]

-----------------------------------------------------------------------------
(* What the handlers read back from the host before they act and after.    *)

IdentityIsAbsent(h) == h.identity = "ABSENT"
NodeIsDrained(h) == h.node = "DRAIN"

HostIsFree(h) == IdentityIsAbsent(h) /\ NodeIsDrained(h)

StageDryRun(h) == HostIsFree(h)

IdentityIsStaged(h) == h.identity = "STAGED"

StagePostconditions(h) == IdentityIsStaged(h) /\ NodeIsDrained(h)

ActivateDryRun(h) == StagePostconditions(h)

IdentityIsActive(h) == h.identity = "ACTIVE"

ActivatePostconditions(h, node) == IdentityIsActive(h) /\ h.node = node

ActivePreflight(h, node) == ActivatePostconditions(h, node)

(* Mutation: the queue of the node is looked at, its state is not.         *)
DrainRecoveryUnread(h) == "DRAIN_RESTORED"

(* The node is drained; its queue is empty.                                *)
DrainRecoveryStatus(h) == IF h.node = "DRAIN" THEN "DRAIN_RESTORED" ELSE "REVIEW"

ClientPlan(h) == ActivePreflight(h, "DRAIN")
AcceptancePlan(h) == ActivePreflight(h, "DRAIN")
StartPlan(h) == ActivePreflight(h, "DRAIN")

-----------------------------------------------------------------------------
(* user.stage.  A state file that is there is an earlier stage: replayed   *)
(* when everything is as staged.                                           *)

StageReplies(h) ==
    IF StagePostconditions(h) THEN {Outcome(h, "SUCCEEDED")}
    ELSE IF StageDryRun(h) THEN {Outcome(Becomes(h, "STAGED"), "SUCCEEDED")}
    ELSE {Outcome(h, "ERROR")}

(* Whatever of the identity is still there decides between ROLLED_BACK and *)
(* PARTIAL_RETAINED, not what the script says (_stage_retained_resources). *)
StageFailure(h, i) ==
    Outcome(Becomes(h, i), IF i = "ABSENT" THEN "ROLLED_BACK" ELSE "REVIEW")

(* A check fails before the script; the script fails and undoes all or     *)
(* some of it; it is killed at its time limit; the Worker dies.            *)
StageFaults(h) ==
    {Outcome(h, "ERROR")} \cup Lost(StageReplies(h))
      \cup (IF StageDryRun(h)
            THEN {StageFailure(h, "ABSENT"), StageFailure(h, "PARTIAL"),
                  Outcome(h, "KILLED"), Outcome(h, "LOST"),
                  Outcome(Becomes(h, "PARTIAL"), "LOST")}
            ELSE {})

-----------------------------------------------------------------------------
(* user.activate and its rollback.                                         *)

ActivateReplies(h) ==
    IF ActivateDryRun(h) THEN {Outcome(Becomes(h, "ACTIVE"), "SUCCEEDED")}
    ELSE {Outcome(h, "ERROR")}

(* The script undoes its own failure, the handler undoes a bad result; the *)
(* staged postconditions decide whether that counts as rolled back.        *)
ActivateFaults(h) ==
    {Outcome(h, "ERROR"), Outcome(h, "LOST")} \cup Lost(ActivateReplies(h))
      \cup (IF ActivateDryRun(h)
            THEN {Outcome(h, "ROLLED_BACK"), Outcome(Becomes(h, "HALF"), "REVIEW"),
                  Outcome(Becomes(h, "HALF"), "LOST")}
            ELSE {})

(* Idempotent: a host that is as staged is left alone.                     *)
ActivateRollbackReplies(h) ==
    IF StagePostconditions(h) THEN {Outcome(h, "ROLLED_BACK")}
    ELSE {Outcome(Becomes(h, "STAGED"),
                  IF h.node = "DRAIN" THEN "ROLLED_BACK" ELSE "REVIEW")}

ActivateRollbackFaults(h) ==
    {Outcome(h, "REVIEW"), Outcome(h, "LOST")} \cup Lost(ActivateRollbackReplies(h))
      \cup (IF StagePostconditions(h) THEN {}
            ELSE {Outcome(Becomes(h, "HALF"), "REVIEW")})

-----------------------------------------------------------------------------
(* user.ssh_client_validation.record only reads.                           *)

ClientValidationReplies(h) ==
    {Outcome(h, IF ClientPlan(h) THEN "SUCCEEDED" ELSE "ERROR")}

ClientValidationFaults(h) == {Outcome(h, "ERROR"), Outcome(h, "LOST")}

(* user.pilot.acceptance: the script resumes the node, runs two jobs and   *)
(* drains it, also when it fails.  A queue that is not empty, or does not  *)
(* answer, asks for a review of a node that is drained as well.            *)
AcceptanceReplies(h) ==
    {IF AcceptancePlan(h) THEN Outcome(h, "SUCCEEDED")
     ELSE Outcome(h, DrainRecoveryStatus(h))}

AcceptanceFaults(h) ==
    {Outcome(h, DrainRecoveryStatus(h)), Outcome(h, "REVIEW"), Outcome(h, "LOST")}
      \cup (IF AcceptancePlan(h)
            THEN {Outcome(Opens(h), DrainRecoveryStatus(Opens(h))), Outcome(Opens(h), "LOST")}
            ELSE {})

-----------------------------------------------------------------------------
(* slurm.production_pilot.start and slurm.drain.                           *)

SafetyDrain(h) == {Outcome(Drains(h), "DRAIN_RESTORED")}

(* The node is not drained, or it is and its queue is not empty.           *)
SafetyDrainFails(h) == {Outcome(h, "REVIEW"), Outcome(Drains(h), "REVIEW")}

StartReplies(h) ==
    IF StartPlan(h) THEN {Outcome(Opens(h), "SUCCEEDED")}
    ELSE {Outcome(h, "NODE_REMAINS_DRAINED")}

(* RESUME, the wait for IDLE or the checks after it fail, and the node is  *)
(* drained again or not.                                                   *)
StartFaults(h) ==
    {Outcome(h, "NODE_REMAINS_DRAINED"), Outcome(h, "LOST")} \cup Lost(StartReplies(h))
      \cup (IF StartPlan(h) THEN SafetyDrain(Opens(h)) \cup SafetyDrainFails(Opens(h)) ELSE {})

DrainReplies(h) == SafetyDrain(h)

DrainFaults(h) == SafetyDrainFails(h) \cup {Outcome(h, "LOST")} \cup Lost(SafetyDrain(h))

-----------------------------------------------------------------------------
(* handle: one handler for each operation.                                 *)

Replies(op, h) ==
    CASE op = "stage"      -> StageReplies(h)
      [] op = "activate"   -> ActivateReplies(h)
      [] op = "rollback"   -> ActivateRollbackReplies(h)
      [] op = "clients"    -> ClientValidationReplies(h)
      [] op = "acceptance" -> AcceptanceReplies(h)
      [] op = "start"      -> StartReplies(h)
      [] op = "drain"      -> DrainReplies(h)

Faults(op, h) ==
    CASE op = "stage"      -> StageFaults(h)
      [] op = "activate"   -> ActivateFaults(h)
      [] op = "rollback"   -> ActivateRollbackFaults(h)
      [] op = "clients"    -> ClientValidationFaults(h)
      [] op = "acceptance" -> AcceptanceFaults(h)
      [] op = "start"      -> StartFaults(h)
      [] op = "drain"      -> DrainFaults(h)

Preflight(op, h) ==
    CASE op = "stage"      -> StageDryRun(h)
      [] op = "activate"   -> ActivateDryRun(h)
      [] op = "clients"    -> ClientPlan(h)
      [] op = "acceptance" -> AcceptancePlan(h)
      [] op = "start"      -> StartPlan(h)
=============================================================================
