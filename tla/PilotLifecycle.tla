--------------------------- MODULE PilotLifecycle ---------------------------
(***************************************************************************)
(* The first managed identity, from nothing to the production pilot: five  *)
(* operations that the owner runs on the console, each a row of            *)
(* portal_operations with a fixed idempotency key.  Stage creates the      *)
(* identity on the host, Activate opens it, Clients and Acceptance record  *)
(* that it works, Start opens the Slurm node.                              *)
(*                                                                         *)
(* A command is a process: it reads what it needs, asks the Worker for a   *)
(* preflight, commits the operation as QUEUED, commits it as RUNNING,      *)
(* calls the Worker and records the answer.  Nothing is locked in between. *)
(* PENDING_APPROVAL, APPROVED and ROLLING_BACK are passed inside one       *)
(* transaction.  The Worker takes one request at a time, in any order, and *)
(* does not notice a caller that has stopped waiting.                      *)
(***************************************************************************)
EXTENDS Naturals, PilotHost

CONSTANTS
    Actor,     \* commands that may run at the same time
    Request,   \* requests of the Worker
    None,      \* no request
    MaxFaults, \* bound: failing checks and commits, lost answers, crashes
    MaxRuns    \* bound: commands started

ASSUME PilotAssumption == None \notin Request /\ MaxFaults \in Nat /\ MaxRuns \in Nat

VARIABLES
    op,      \* portal_operations: the status of the five operations
    reopen,  \* Stage failed with STAGE_EXECUTION_FAILED and was rolled back
    portal,  \* managed identity, its key, dry-run, evidence, pilot setting
    proc,    \* the commands
    calls,   \* requests the Worker has not taken yet
    host,    \* what is on the host
    faults,  \* faults so far
    runs     \* commands so far

vars == <<op, reopen, portal, proc, calls, host, faults, runs>>

-----------------------------------------------------------------------------
Step == {"stage", "activate", "clients", "acceptance", "start"}
Once == Step \ {"stage"}         \* created by the command that runs them
Final == {"SUCCEEDED", "FAILED", "ROLLED_BACK"}
Status == {"NONE", "DRAFT", "QUEUED", "RUNNING"} \cup Final

Portal == [managed : {"NONE", "STAGED", "ACTIVE"}, key : {"NONE", "VALIDATED", "INSTALLED"},
           dryRun : BOOLEAN, clients : BOOLEAN, accepted : BOOLEAN, pilot : BOOLEAN]

Replied == {"SUCCEEDED", "ERROR", "ROLLED_BACK", "KILLED", "REVIEW", "DRAIN_RESTORED",
            "NODE_REMAINS_DRAINED", "LOST"}

Undo == {"rollback", "drain"}    \* what a failed Activate or Start asks for

Idle == [at |-> "IDLE", step |-> "stage", req |-> None, reply |-> "NONE"]

Init ==
    /\ op = [s \in Step |-> "NONE"]
    /\ reopen = FALSE
    /\ portal = [managed |-> "NONE", key |-> "NONE", dryRun |-> FALSE,
                 clients |-> FALSE, accepted |-> FALSE, pilot |-> FALSE]
    /\ proc = [a \in Actor |-> Idle]
    /\ calls = [r \in Request |-> "NONE"]
    /\ host = [identity |-> "ABSENT", node |-> "DRAIN"]
    /\ faults = 0 /\ runs = 0

Fault == faults < MaxFaults /\ faults' = faults + 1

At(a, at) == proc[a].at = at
Goes(a, at) == proc' = [proc EXCEPT ![a].at = at]
Ends(a) == proc' = [proc EXCEPT ![a] = Idle]

-----------------------------------------------------------------------------
(* What a command requires of the database before it starts.               *)

(* _portal3f_database_baseline: Activate is recorded and the container row *)
(* still says that the node is drained.                                    *)
ActiveBaseline ==
    portal.managed = "ACTIVE" /\ portal.key = "INSTALLED" /\ op["activate"] = "SUCCEEDED"
      /\ ~portal.pilot

(* _portal3g_database_baseline adds the evidence of both 3F operations.    *)
AcceptedBaseline ==
    /\ ActiveBaseline
    /\ op["clients"] = "SUCCEEDED" /\ op["acceptance"] = "SUCCEEDED"
    /\ portal.clients /\ portal.accepted

(* validate_activate_database_bindings.                                    *)
ActivateBindings == portal.managed = "STAGED" /\ portal.key = "VALIDATED"

MayStage == op["stage"] = "DRAFT" \/ (op["stage"] = "ROLLED_BACK" /\ reopen)

MayActivate == ActivateBindings /\ portal.dryRun /\ op["activate"] = "NONE"

MayRecordClients == ActiveBaseline /\ op["clients"] = "NONE"

MayAccept == ActiveBaseline /\ portal.clients /\ op["acceptance"] = "NONE"

MayStart == AcceptedBaseline /\ op["start"] = "NONE"

May(s) == CASE s = "stage" -> MayStage
            [] s = "activate" -> MayActivate
            [] s = "clients" -> MayRecordClients
            [] s = "acceptance" -> MayAccept
            [] s = "start" -> MayStart

-----------------------------------------------------------------------------
(* What comes before the operations: the draft of Stage, the key that the  *)
(* owner enrolls and the dry-run that Activate refers to.                  *)

DraftStage ==
    /\ op["stage"] = "NONE"
    /\ StageDryRun(host)
    /\ op' = [op EXCEPT !["stage"] = "DRAFT"]
    /\ UNCHANGED <<reopen, portal, proc, calls, host, faults, runs>>

KeyEnrolled ==
    /\ portal.managed = "STAGED" /\ portal.key = "NONE"
    /\ portal' = [portal EXCEPT !.key = "VALIDATED"]
    /\ UNCHANGED <<op, reopen, proc, calls, host, faults, runs>>

RevalidateActivate ==
    /\ ActivateBindings
    /\ ActivateDryRun(host)
    /\ ~portal.dryRun
    /\ portal' = [portal EXCEPT !.dryRun = TRUE]
    /\ UNCHANGED <<op, reopen, proc, calls, host, faults, runs>>

-----------------------------------------------------------------------------
(* A command up to its call.                                               *)

Load(a, s) ==
    /\ At(a, "IDLE")
    /\ runs < MaxRuns
    /\ May(s)
    /\ runs' = runs + 1
    /\ proc' = [proc EXCEPT ![a] = [Idle EXCEPT !.at = "LOADED", !.step = s]]
    /\ UNCHANGED <<op, reopen, portal, calls, host, faults>>

(* A Stage that a command left QUEUED is taken up as it is.                *)
Resume(a) ==
    /\ At(a, "IDLE")
    /\ runs < MaxRuns
    /\ op["stage"] = "QUEUED"
    /\ runs' = runs + 1
    /\ proc' = [proc EXCEPT ![a] = [Idle EXCEPT !.at = "QUEUED", !.step = "stage"]]
    /\ UNCHANGED <<op, reopen, portal, calls, host, faults>>

Preflighted(a) ==
    /\ At(a, "LOADED")
    /\ IF Preflight(proc[a].step, host) THEN Goes(a, "READY") ELSE Ends(a)
    /\ UNCHANGED <<op, reopen, portal, calls, host, faults, runs>>

(* Mutation: an operation that is there is taken up again.                 *)
AlwaysInserts(s) == TRUE

(* Stage writes over whatever the row has become since it was read; the    *)
(* others insert a row, which their idempotency key allows once.           *)
Inserts(s) == s \in Once => op[s] = "NONE"

CommitQueued(a) ==
    LET s == proc[a].step
    IN  /\ At(a, "READY")
        /\ IF Inserts(s)
           THEN /\ op' = [op EXCEPT ![s] = "QUEUED"]
                /\ reopen' = (reopen /\ s # "stage")
                /\ Goes(a, "QUEUED")
           ELSE UNCHANGED <<op, reopen>> /\ Ends(a)
        /\ UNCHANGED <<portal, calls, host, faults, runs>>

LoadQueued(a) ==
    /\ At(a, "QUEUED")
    /\ IF op[proc[a].step] = "QUEUED" THEN Goes(a, "STARTING") ELSE Ends(a)
    /\ UNCHANGED <<op, reopen, portal, calls, host, faults, runs>>

CommitRunning(a) ==
    /\ At(a, "STARTING")
    /\ op' = [op EXCEPT ![proc[a].step] = "RUNNING"]
    /\ Goes(a, "RUNNING")
    /\ UNCHANGED <<reopen, portal, calls, host, faults, runs>>

Sends(a, what, at) ==
    \E r \in Request :
        /\ calls[r] = "NONE"
        /\ calls' = [calls EXCEPT ![r] = what]
        /\ proc' = [proc EXCEPT ![a].at = at, ![a].req = r, ![a].reply = "NONE"]

CallWorker(a) ==
    /\ At(a, "RUNNING")
    /\ Sends(a, proc[a].step, "WAITING")
    /\ UNCHANGED <<op, reopen, portal, host, faults, runs>>

-----------------------------------------------------------------------------
(* The Root Worker; only a caller that still waits hears it.               *)

Hears(r, reply) == [a \in Actor |-> IF proc[a].req = r
                                    THEN [proc[a] EXCEPT !.reply = reply, !.req = None]
                                    ELSE proc[a]]

Handles(r, w) ==
    /\ host' = w.host
    /\ calls' = [calls EXCEPT ![r] = "NONE"]
    /\ proc' = Hears(r, w.reply)
    /\ UNCHANGED <<op, reopen, portal, runs>>

WorkerHandles(r) ==
    /\ calls[r] # "NONE"
    /\ \E w \in Replies(calls[r], host) : Handles(r, w)
    /\ UNCHANGED faults

WorkerFails(r) ==
    /\ calls[r] # "NONE"
    /\ Fault
    /\ \E w \in Faults(calls[r], host) : Handles(r, w)

-----------------------------------------------------------------------------
(* The answer.                                                             *)

Answered(a, s, replies) ==
    /\ At(a, "WAITING") /\ proc[a].step = s /\ proc[a].reply \in replies

(* Mutation: a status that portal_operations does not know.                *)
SetsUnchecked(s, status) ==
    op' = [op EXCEPT ![s] = IF status = "FAILED" THEN "ERROR" ELSE status]

Sets(s, status) == op' = [op EXCEPT ![s] = status]

(* persist_portal3c_staged_identity creates the row or makes it a staged   *)
(* one again, with the container row and the evidence in it.               *)
StageSucceeds(a) ==
    /\ Answered(a, "stage", {"SUCCEEDED"})
    /\ portal' = [portal EXCEPT !.managed = "STAGED", !.clients = FALSE, !.accepted = FALSE]
    /\ Sets("stage", "SUCCEEDED")
    /\ Ends(a)
    /\ UNCHANGED <<reopen, calls, host, faults, runs>>

(* A constraint rejects what Stage would persist.                          *)
StageIsRejected(a) ==
    /\ Answered(a, "stage", {"SUCCEEDED"})
    /\ Fault
    /\ op' = IF op["stage"] = "RUNNING" THEN [op EXCEPT !["stage"] = "FAILED"] ELSE op
    /\ Ends(a)
    /\ UNCHANGED <<reopen, portal, calls, host, runs>>

(* The row was RUNNING when it was loaded: it is not read again.           *)
StageFails(a) ==
    /\ Answered(a, "stage", Replied \ {"SUCCEEDED"})
    /\ Sets("stage", IF proc[a].reply \in {"ROLLED_BACK", "KILLED"} THEN "ROLLED_BACK"
                     ELSE "FAILED")
    /\ reopen' = (proc[a].reply = "ROLLED_BACK")
    /\ Ends(a)
    /\ UNCHANGED <<portal, calls, host, faults, runs>>

(* persist_portal3e_activated_identity.                                    *)
ActivateSucceeds(a) ==
    /\ Answered(a, "activate", {"SUCCEEDED"})
    /\ ActivateBindings
    /\ portal' = [portal EXCEPT !.managed = "ACTIVE", !.key = "INSTALLED",
                                !.clients = FALSE, !.accepted = FALSE]
    /\ Sets("activate", "SUCCEEDED")
    /\ Ends(a)
    /\ UNCHANGED <<reopen, calls, host, faults, runs>>

ActivateFails(a) ==
    /\ Answered(a, "activate", Replied \ {"SUCCEEDED", "LOST"})
    /\ Sets("activate", IF proc[a].reply = "ROLLED_BACK" THEN "ROLLED_BACK" ELSE "FAILED")
    /\ Ends(a)
    /\ UNCHANGED <<reopen, portal, calls, host, faults, runs>>

(* No answer, or nothing that can be persisted: the host is taken back.    *)
ActivateIsUndone(a) ==
    /\ \/ Answered(a, "activate", {"LOST"})
       \/ Answered(a, "activate", {"SUCCEEDED"}) /\ ~ActivateBindings
    /\ Sends(a, "rollback", "UNDOING")
    /\ UNCHANGED <<op, reopen, portal, host, faults, runs>>

(* Mutation: a commit that reports a failure has failed.                   *)
FailureIsFailure == FALSE

(* The commit fails, or reports a failure and is durable all the same: the *)
(* row is read again before the host is touched.                           *)
DurablySucceeded == op'["activate"] = "SUCCEEDED"

ActivateCommitFails(a) ==
    /\ Answered(a, "activate", {"SUCCEEDED"})
    /\ ActivateBindings
    /\ Fault
    /\ \/ UNCHANGED <<op, portal>>
       \/ /\ portal' = [portal EXCEPT !.managed = "ACTIVE", !.key = "INSTALLED",
                                      !.clients = FALSE, !.accepted = FALSE]
          /\ Sets("activate", "SUCCEEDED")
    /\ IF DurablySucceeded THEN Ends(a) /\ UNCHANGED calls ELSE Sends(a, "rollback", "UNDOING")
    /\ UNCHANGED <<reopen, host, runs>>

(* Mutation: without an answer to the rollback the command waits on.       *)
ActivateUndoneOnAnswer(a) ==
    /\ At(a, "UNDOING") /\ proc[a].step = "activate" /\ proc[a].reply \notin {"NONE", "LOST"}
    /\ Sets("activate", IF proc[a].reply = "ROLLED_BACK" THEN "ROLLED_BACK" ELSE "FAILED")
    /\ Ends(a)
    /\ UNCHANGED <<reopen, portal, calls, host, faults, runs>>

ActivateUndone(a) ==
    /\ At(a, "UNDOING") /\ proc[a].step = "activate" /\ proc[a].reply # "NONE"
    /\ Sets("activate", IF proc[a].reply = "ROLLED_BACK" THEN "ROLLED_BACK" ELSE "FAILED")
    /\ Ends(a)
    /\ UNCHANGED <<reopen, portal, calls, host, faults, runs>>

ClientsSucceed(a) ==
    /\ Answered(a, "clients", {"SUCCEEDED"})
    /\ ActiveBaseline
    /\ portal' = [portal EXCEPT !.clients = TRUE]
    /\ Sets("clients", "SUCCEEDED")
    /\ Ends(a)
    /\ UNCHANGED <<reopen, calls, host, faults, runs>>

ClientsFail(a) ==
    /\ Answered(a, "clients", Replied \ {"SUCCEEDED"})
    /\ proc[a].reply = "LOST" \/ ActiveBaseline
    /\ Sets("clients", "FAILED")
    /\ Ends(a)
    /\ UNCHANGED <<reopen, portal, calls, host, faults, runs>>

AcceptanceSucceeds(a) ==
    /\ Answered(a, "acceptance", {"SUCCEEDED"})
    /\ ActiveBaseline /\ portal.clients
    /\ portal' = [portal EXCEPT !.accepted = TRUE]
    /\ Sets("acceptance", "SUCCEEDED")
    /\ Ends(a)
    /\ UNCHANGED <<reopen, calls, host, faults, runs>>

AcceptanceFails(a) ==
    /\ Answered(a, "acceptance", Replied \ {"SUCCEEDED"})
    /\ proc[a].reply = "LOST" \/ ActiveBaseline
    /\ Sets("acceptance", IF proc[a].reply = "DRAIN_RESTORED" THEN "ROLLED_BACK" ELSE "FAILED")
    /\ Ends(a)
    /\ UNCHANGED <<reopen, portal, calls, host, faults, runs>>

(* The baseline of a 3F operation has changed under it: the exception      *)
(* leaves the operation RUNNING.                                           *)
BaselineChanged(a) ==
    /\ \E s \in {"clients", "acceptance"} : Answered(a, s, Replied \ {"LOST"})
    /\ ~ActiveBaseline \/ (proc[a].step = "acceptance" /\ proc[a].reply = "SUCCEEDED"
                              /\ ~portal.clients)
    /\ Ends(a)
    /\ UNCHANGED <<op, reopen, portal, calls, host, faults, runs>>

(* persist_portal3g_production_pilot.                                      *)
StartSucceeds(a) ==
    /\ Answered(a, "start", {"SUCCEEDED"})
    /\ AcceptedBaseline
    /\ portal' = [portal EXCEPT !.pilot = TRUE]
    /\ Sets("start", "SUCCEEDED")
    /\ Ends(a)
    /\ UNCHANGED <<reopen, calls, host, faults, runs>>

(* _portal3g_request_safety_drain: after no answer, and after anything     *)
(* that keeps the start from being persisted, a commit that is durable     *)
(* although it reported a failure included.                                *)
StartIsUndone(a) ==
    /\ \/ Answered(a, "start", {"LOST"})
       \/ Answered(a, "start", {"SUCCEEDED"}) /\ ~AcceptedBaseline
    /\ Sends(a, "drain", "UNDOING")
    /\ UNCHANGED <<op, reopen, portal, host, faults, runs>>

StartCommitFails(a) ==
    /\ Answered(a, "start", {"SUCCEEDED"})
    /\ AcceptedBaseline
    /\ Fault
    /\ \/ UNCHANGED <<op, portal>>
       \/ portal' = [portal EXCEPT !.pilot = TRUE] /\ Sets("start", "SUCCEEDED")
    /\ Sends(a, "drain", "UNDOING")
    /\ UNCHANGED <<reopen, host, runs>>

(* Mutation: the status is written without reading it again.               *)
MarkFailedUnread(reply) ==
    op' = [op EXCEPT !["start"] =
              IF reply \in {"DRAIN_RESTORED", "NODE_REMAINS_DRAINED"} THEN "ROLLED_BACK"
              ELSE "FAILED"]

(* _portal3g_mark_failed.                                                  *)
MarkFailed(reply) ==
    op' = IF op["start"] = "RUNNING"
          THEN [op EXCEPT !["start"] =
                   IF reply \in {"DRAIN_RESTORED", "NODE_REMAINS_DRAINED"} THEN "ROLLED_BACK"
                   ELSE "FAILED"]
          ELSE op

StartFails(a) ==
    /\ \/ Answered(a, "start", Replied \ {"SUCCEEDED", "LOST"})
       \/ At(a, "UNDOING") /\ proc[a].step = "start" /\ proc[a].reply # "NONE"
    /\ MarkFailed(proc[a].reply)
    /\ Ends(a)
    /\ UNCHANGED <<reopen, portal, calls, host, faults, runs>>

-----------------------------------------------------------------------------
(* The caller stops waiting; its request stays where it is.                *)
TimesOut(a) ==
    /\ proc[a].req # None
    /\ Fault
    /\ proc' = [proc EXCEPT ![a].reply = "LOST", ![a].req = None]
    /\ UNCHANGED <<op, reopen, portal, calls, host, runs>>

Dies(a) ==
    /\ ~At(a, "IDLE")
    /\ Fault
    /\ Ends(a)
    /\ UNCHANGED <<op, reopen, portal, calls, host, runs>>

Advances(a) ==
    \/ Preflighted(a) \/ CommitQueued(a) \/ LoadQueued(a) \/ CommitRunning(a) \/ CallWorker(a)
    \/ StageSucceeds(a) \/ StageFails(a)
    \/ ActivateSucceeds(a) \/ ActivateFails(a) \/ ActivateIsUndone(a) \/ ActivateUndone(a)
    \/ ClientsSucceed(a) \/ ClientsFail(a)
    \/ AcceptanceSucceeds(a) \/ AcceptanceFails(a) \/ BaselineChanged(a)
    \/ StartSucceeds(a) \/ StartIsUndone(a) \/ StartFails(a)

Next ==
    \/ DraftStage \/ KeyEnrolled \/ RevalidateActivate
    \/ \E a \in Actor :
         \/ \E s \in Step : Load(a, s)
         \/ Resume(a) \/ Advances(a)
         \/ StageIsRejected(a) \/ ActivateCommitFails(a) \/ StartCommitFails(a)
         \/ TimesOut(a) \/ Dies(a)
    \/ \E r \in Request : WorkerHandles(r) \/ WorkerFails(r)

Spec == Init /\ [][Next]_vars

(* A command goes on by itself and the Worker serves every request.        *)
Fairness == /\ \A a \in Actor : WF_vars(Advances(a))
            /\ \A r \in Request : WF_vars(WorkerHandles(r))

FairSpec == Spec /\ Fairness

-----------------------------------------------------------------------------
(* Properties.                                                             *)

TypeOK ==
    /\ op \in [Step -> Status]
    /\ reopen \in BOOLEAN
    /\ portal \in Portal
    /\ proc \in [Actor -> [at : {"IDLE", "LOADED", "READY", "QUEUED", "STARTING", "RUNNING",
                                 "WAITING", "UNDOING"},
                           step : Step, req : Request \cup {None},
                           reply : {"NONE"} \cup Replied]]
    /\ calls \in [Request -> {"NONE"} \cup Step \cup Undo]
    /\ host \in HostStates
    /\ faults \in 0..MaxFaults /\ runs \in 0..MaxRuns

(* Whatever was lost, killed or committed by halves, the portal never      *)
(* records more than the host has: an identity it calls ACTIVE is active,  *)
(* one it calls STAGED exists.                                             *)
PortalIsNotAhead ==
    /\ portal.managed = "ACTIVE" => host.identity = "ACTIVE"
    /\ portal.managed = "STAGED" => host.identity \in {"STAGED", "HALF", "ACTIVE"}

(* What the rows of the identity say fits the operations on record: the    *)
(* key and the identity are there before Activate, nothing but Activate    *)
(* installs the key, and the setting, the evidence and the operation that  *)
(* writes them are committed together or not at all.                       *)
EvidenceChain ==
    /\ op["activate"] # "NONE" => portal.managed # "NONE" /\ portal.key # "NONE"
    /\ portal.key = "INSTALLED" <=> op["activate"] = "SUCCEEDED"
    /\ portal.managed = "ACTIVE" => op["activate"] = "SUCCEEDED"
    /\ portal.clients => op["clients"] = "SUCCEEDED"
    /\ portal.accepted => portal.clients /\ op["acceptance"] = "SUCCEEDED"
    /\ portal.pilot <=> op["start"] = "SUCCEEDED"

(* The node takes jobs of users only when Start was let loose on it, or    *)
(* Acceptance could not close it again and is not on record as a success.  *)
NodeOpensLast ==
    host.node = "IDLE" =>
        \/ op["start"] \in {"RUNNING"} \cup Final
        \/ op["acceptance"] \in {"RUNNING", "FAILED"}

(* The four operations that are created by the command that runs them are  *)
(* the gates of PilotGates: whatever two commands, crashes and late        *)
(* answers do, each is tried once, over the success of the one before it,  *)
(* and its outcome is final.                                               *)
Gate == <<"activate", "clients", "acceptance", "start">>

Passed(n) == \A i \in 1..n : op[Gate[i]] = "SUCCEEDED"

GatesPassed == CHOOSE n \in 0..4 : Passed(n) /\ (n < 4 => ~Passed(n + 1))

(* An operation that exists beyond the next gate would have no counterpart *)
(* among the gates.                                                        *)
GateTried ==
    LET next == GatesPassed + 1
    IN  IF \E i \in 1..4 : i > next /\ op[Gate[i]] # "NONE" THEN "AHEAD"
        ELSE IF next > 4 THEN "NONE"
        ELSE IF op[Gate[next]] \in {"FAILED", "ROLLED_BACK"} THEN "STOPPED"
        ELSE op[Gate[next]]

Gates == INSTANCE PilotGates WITH Last <- 4, passed <- GatesPassed, try <- GateTried

GatesHold == Gates!Spec

(* Every command ends, and with it the two that undo what they did.        *)
CommandsEnd == \A a \in Actor : ~At(a, "IDLE") ~> At(a, "IDLE")

-----------------------------------------------------------------------------
(* What the documentation says.                                            *)

(* "the controlled rollback is verified, origin-pilot stays STAGED" and     *)
(* "Production Pilot did not start; Slurm DRAIN verified": what is on       *)
(* record as rolled back is not in force on the host.                      *)
RolledBackMeansBack ==
    /\ op["activate"] = "ROLLED_BACK" => host.identity # "ACTIVE"
    /\ op["start"] = "ROLLED_BACK" => host.node = "DRAIN"
=============================================================================
