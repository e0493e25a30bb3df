------------------------ MODULE PilotLifecycleProofs ------------------------
(***************************************************************************)
(* Proofs about PilotLifecycle, for any number of commands, requests and   *)
(* faults.                                                                 *)
(*                                                                         *)
(* The operations other than Stage are inserted under a unique key.  From  *)
(* this follows that each has one command past the insert (OneCommand),    *)
(* whose place tells the status of the row (PlacesMatch).  Everything else *)
(* is about what may still be on its way to the Worker: calls without a    *)
(* caller, and answers that have not been recorded.                        *)
(***************************************************************************)
EXTENDS PilotLifecycle, TLAPS

(* A command that has its row: it inserted or resumed it.                  *)
Past == {"QUEUED", "STARTING", "RUNNING", "WAITING", "UNDOING"}

Begun == {"RUNNING"} \cup Final

(* A command that waits holds its own request.                             *)
RequestsMatch ==
    \A a \in Actor : proc[a].req # None =>
        \/ proc[a].at = "WAITING" /\ calls[proc[a].req] = proc[a].step
        \/ /\ proc[a].at = "UNDOING" /\ calls[proc[a].req] \in Undo
           /\ proc[a].step = "activate" <=> calls[proc[a].req] = "rollback"

PlacesMatch ==
    \A a \in Actor :
        /\ proc[a].at = "IDLE" => proc[a].step = "stage"
        /\ proc[a].at = "UNDOING" => proc[a].step \in {"activate", "start"}
        /\ proc[a].step \in Once =>
             /\ proc[a].at \in {"QUEUED", "STARTING"} => op[proc[a].step] = "QUEUED"
             /\ proc[a].at \in {"RUNNING", "WAITING"} => op[proc[a].step] = "RUNNING"
             /\ proc[a].at = "UNDOING" =>
                  \/ op[proc[a].step] = "RUNNING"
                  \/ proc[a].step = "start" /\ op["start"] = "SUCCEEDED"

OneCommand ==
    \A a, b \in Actor :
        /\ proc[a].step \in Once /\ proc[a].step = proc[b].step
        /\ proc[a].at \in Past /\ proc[b].at \in Past
        => a = b

(* What a command has seen of the one before it stays true.                *)
Needs(s) ==
    /\ s = "activate" => portal.managed # "NONE" /\ portal.key # "NONE"
    /\ s = "clients" => op["activate"] = "SUCCEEDED"
    /\ s = "acceptance" => op["clients"] = "SUCCEEDED"
    /\ s = "start" => op["acceptance"] = "SUCCEEDED"

NeedsAreMet ==
    /\ \A a \in Actor : Needs(proc[a].step)
    /\ \A s \in Step : op[s] # "NONE" => Needs(s)

(* The identity exists once Stage has succeeded, and is active once        *)
(* Activate has, from the answer on.                                       *)
Present == {"STAGED", "HALF", "ACTIVE"}

HostIsThere ==
    /\ portal.managed # "NONE" => host.identity \in Present
    /\ op["activate"] = "SUCCEEDED" => host.identity = "ACTIVE"
    /\ \A a \in Actor : proc[a].reply = "SUCCEEDED" =>
         /\ proc[a].step = "stage" => host.identity \in Present
         /\ proc[a].step = "activate" /\ proc[a].at = "WAITING" => host.identity = "ACTIVE"

(* A rollback is asked for when its Activate can no longer succeed.        *)
RollbackIsLast ==
    (\E r \in Request : calls[r] = "rollback") =>
        /\ op["activate"] \in {"RUNNING", "FAILED", "ROLLED_BACK"}
        /\ \A a \in Actor : proc[a].step = "activate" => proc[a].at \notin Past \ {"UNDOING"}

(* The one call of Acceptance that may be under way belongs to a row that  *)
(* does not say it succeeded or was undone.                                *)
AcceptanceCalls ==
    \A r \in Request : calls[r] = "acceptance" =>
        /\ op["acceptance"] \in {"RUNNING", "FAILED"}
        /\ \A q \in Request : calls[q] = "acceptance" => q = r
        /\ \A a \in Actor : proc[a].step = "acceptance" /\ proc[a].at \in Past =>
             proc[a].at = "WAITING" /\ proc[a].reply \in {"NONE", "LOST"}

StartCalls == (\E r \in Request : calls[r] = "start") => op["start"] \in Begun

(* An Acceptance that says the node is drained has left it so.             *)
AcceptanceDrained ==
    \A a \in Actor :
        /\ proc[a].step = "acceptance" /\ proc[a].at = "WAITING"
        /\ proc[a].reply \in {"SUCCEEDED", "DRAIN_RESTORED"}
        => host.node = "DRAIN" \/ op["start"] \in Begun

IInv ==
    /\ TypeOK
    /\ RequestsMatch /\ PlacesMatch /\ OneCommand /\ NeedsAreMet
    /\ HostIsThere /\ RollbackIsLast
    /\ AcceptanceCalls /\ StartCalls /\ AcceptanceDrained
    /\ EvidenceChain /\ NodeOpensLast

-----------------------------------------------------------------------------
(* What a handler of the Root Worker can make of the host.                 *)

LEMMA HandlerOutcome ==
    ASSUME NEW o \in Step \cup Undo, NEW h \in HostStates,
           NEW w \in Replies(o, h) \cup Faults(o, h)
    PROVE  /\ w.host \in HostStates /\ w.reply \in Replied
           /\ h.identity \in Present => w.host.identity \in Present
           /\ h.identity = "ACTIVE" /\ o # "rollback" => w.host.identity = "ACTIVE"
           /\ o = "stage" /\ w.reply = "SUCCEEDED" => w.host.identity \in Present
           /\ o = "activate" /\ w.reply = "SUCCEEDED" => w.host.identity = "ACTIVE"
           /\ w.host.node = "IDLE" =>
                \/ h.node = "IDLE" \/ o = "start"
                \/ o = "acceptance" /\ w.reply \notin {"SUCCEEDED", "DRAIN_RESTORED"}
           /\ o = "acceptance" /\ w.reply \in {"SUCCEEDED", "DRAIN_RESTORED"}
                => w.host.node = "DRAIN"
<1> USE DEF Outcome, Lost, Becomes, HostStates, Present, Replied, IdentityIsAbsent, NodeIsDrained,
            HostIsFree, IdentityIsStaged, StagePostconditions, IdentityIsActive,
            ActivatePostconditions, ActivePreflight
<1>1. CASE o = "stage"
  <2>1. w \in StageReplies(h) \cup StageFaults(h)
    BY <1>1 DEF Replies, Faults
  <2>2. QED
    BY <1>1, <2>1 DEF StageReplies, StageFaults, StageFailure, StageDryRun
<1>2. CASE o = "activate"
  <2>1. w \in ActivateReplies(h) \cup ActivateFaults(h)
    BY <1>2 DEF Replies, Faults
  <2>2. QED
    BY <1>2, <2>1 DEF ActivateReplies, ActivateFaults, ActivateDryRun
<1>3. CASE o = "rollback"
  <2>1. w \in ActivateRollbackReplies(h) \cup ActivateRollbackFaults(h)
    BY <1>3 DEF Replies, Faults
  <2>2. QED
    BY <1>3, <2>1 DEF ActivateRollbackReplies, ActivateRollbackFaults
<1>4. CASE o = "clients"
  <2>1. w \in ClientValidationReplies(h) \cup ClientValidationFaults(h)
    BY <1>4 DEF Replies, Faults
  <2>2. QED
    BY <1>4, <2>1 DEF ClientValidationReplies, ClientValidationFaults
<1>5. CASE o = "acceptance"
  <2>1. w \in AcceptanceReplies(h) \cup AcceptanceFaults(h)
    BY <1>5 DEF Replies, Faults
  <2>2. QED
    BY <1>5, <2>1 DEF AcceptanceReplies, AcceptanceFaults, AcceptancePlan, DrainRecoveryStatus,
                      Opens
<1>6. CASE o = "start"
  <2>1. w \in StartReplies(h) \cup StartFaults(h)
    BY <1>6 DEF Replies, Faults
  <2>2. w.host \in {h, Opens(h), Drains(Opens(h))} /\ w.reply \in Replied
    <3>1. CASE StartPlan(h)
      BY <2>1, <3>1 DEF StartReplies, StartFaults, SafetyDrain, SafetyDrainFails
    <3>2. CASE ~StartPlan(h)
      BY <2>1, <3>2 DEF StartReplies, StartFaults
    <3>3. QED
      BY <3>1, <3>2
  <2>3. QED
    BY <1>6, <2>2 DEF Opens, Drains
<1>7. CASE o = "drain"
  <2>1. w \in DrainReplies(h) \cup DrainFaults(h)
    BY <1>7 DEF Replies, Faults
  <2>2. QED
    BY <1>7, <2>1 DEF DrainReplies, DrainFaults, Drains, SafetyDrain, SafetyDrainFails
<1>8. QED
  BY <1>1, <1>2, <1>3, <1>4, <1>5, <1>6, <1>7 DEF Step, Undo

-----------------------------------------------------------------------------
(* Types.                                                                  *)

Places == {"IDLE"} \cup {"LOADED", "READY"} \cup Past

Command == [at : Places, step : Step, req : Request \cup {None}, reply : {"NONE"} \cup Replied]

LEMMA ProcType == TypeOK => proc \in [Actor -> Command]
BY DEF TypeOK, Command, Places, Past

LEMMA IdleType == Idle \in Command
BY DEF Idle, Command, Places, Step

(* A command that goes on or ends is a command.                            *)
LEMMA MoveType ==
    ASSUME TypeOK, NEW a \in Actor
    PROVE  /\ Ends(a) => proc' \in [Actor -> Command]
           /\ \A at \in Places : Goes(a, at) => proc' \in [Actor -> Command]
           /\ \A what : \A at \in Places : Sends(a, what, at) => proc' \in [Actor -> Command]
<1>1. proc \in [Actor -> Command]
  BY ProcType
<1>2. Ends(a) => proc' \in [Actor -> Command]
  BY <1>1, IdleType DEF Ends
<1>3. \A at \in Places : Goes(a, at) => proc' \in [Actor -> Command]
  BY <1>1 DEF Goes, Command
<1>4. \A what : \A at \in Places : Sends(a, what, at) => proc' \in [Actor -> Command]
  <2> SUFFICES ASSUME NEW what, NEW at \in Places, Sends(a, what, at)
               PROVE  proc' \in [Actor -> Command]
    OBVIOUS
  <2>1. PICK r \in Request :
          proc' = [proc EXCEPT ![a].at = at, ![a].req = r, ![a].reply = "NONE"]
    BY DEF Sends
  <2>2. QED
    BY <1>1, <2>1 DEF Command
<1>5. QED
  BY <1>2, <1>3, <1>4

LEMMA TypeStep ==
    ASSUME TypeOK, Next
    PROVE  TypeOK'
<1>1. CASE DraftStage \/ KeyEnrolled \/ RevalidateActivate
  BY <1>1 DEF TypeOK, DraftStage, KeyEnrolled, RevalidateActivate, Status, Portal, Step
<1>2. proc' \in [Actor -> Command] => proc' \in [Actor ->
        [at : {"IDLE", "LOADED", "READY", "QUEUED", "STARTING", "RUNNING", "WAITING", "UNDOING"},
         step : Step, req : Request \cup {None}, reply : {"NONE"} \cup Replied]]
  BY DEF Command, Places, Past
<1>3. ASSUME NEW a \in Actor, NEW s \in Step, Load(a, s)
      PROVE  TypeOK'
  <2>1. proc' \in [Actor -> Command]
    BY <1>3, ProcType DEF Load, Idle, Command, Places
  <2>2. QED
    BY <1>2, <1>3, <2>1, PilotAssumption DEF Load, TypeOK
<1>4. ASSUME NEW a \in Actor, Resume(a)
      PROVE  TypeOK'
  <2>1. proc' \in [Actor -> Command]
    BY <1>4, ProcType DEF Resume, Idle, Command, Places, Past, Step
  <2>2. QED
    BY <1>2, <1>4, <2>1, PilotAssumption DEF Resume, TypeOK
<1>5. ASSUME NEW a \in Actor,
             Preflighted(a) \/ CommitQueued(a) \/ LoadQueued(a) \/ CommitRunning(a)
      PROVE  TypeOK'
  <2>1. proc' \in [Actor -> Command]
    BY <1>5, MoveType DEF Preflighted, CommitQueued, LoadQueued, CommitRunning, Places, Past
  <2>2. op' \in [Step -> Status] /\ reopen' \in BOOLEAN
    BY <1>5 DEF TypeOK, Preflighted, CommitQueued, LoadQueued, CommitRunning, Status
  <2>3. QED
    BY <1>2, <1>5, <2>1, <2>2 DEF TypeOK, Preflighted, CommitQueued, LoadQueued, CommitRunning
<1>6. ASSUME NEW a \in Actor,
             CallWorker(a) \/ ActivateIsUndone(a) \/ StartIsUndone(a)
      PROVE  TypeOK'
  <2>1. proc' \in [Actor -> Command]
    BY <1>6, MoveType DEF CallWorker, ActivateIsUndone, StartIsUndone, Places, Past
  <2>2. calls' \in [Request -> {"NONE"} \cup Step \cup Undo]
    BY <1>6 DEF TypeOK, CallWorker, ActivateIsUndone, StartIsUndone, Sends, Undo
  <2>3. QED
    BY <1>2, <1>6, <2>1, <2>2 DEF TypeOK, CallWorker, ActivateIsUndone, StartIsUndone
<1>7. ASSUME NEW a \in Actor,
             \/ StageSucceeds(a) \/ StageFails(a) \/ StageIsRejected(a)
             \/ ActivateSucceeds(a) \/ ActivateFails(a) \/ ActivateUndone(a)
      PROVE  TypeOK'
  <2>1. proc' \in [Actor -> Command]
    BY <1>7, MoveType DEF StageSucceeds, StageFails, StageIsRejected, ActivateSucceeds,
                          ActivateFails, ActivateUndone
  <2>2. op' \in [Step -> Status]
    <3>1. op \in [Step -> Status] /\ Final \subseteq Status
      BY DEF TypeOK, Status
    <3>2. CASE StageSucceeds(a) \/ ActivateSucceeds(a)
      BY <3>1, <3>2 DEF StageSucceeds, ActivateSucceeds, Sets, Final
    <3>3. CASE StageFails(a) \/ StageIsRejected(a)
      BY <3>1, <3>3 DEF StageFails, StageIsRejected, Sets, Final
    <3>4. CASE ActivateFails(a) \/ ActivateUndone(a)
      BY <3>1, <3>4 DEF ActivateFails, ActivateUndone, Sets, Final
    <3>5. QED
      BY <1>7, <3>2, <3>3, <3>4
  <2>4. reopen' \in BOOLEAN /\ portal' \in Portal
    BY <1>7 DEF TypeOK, StageSucceeds, StageFails, StageIsRejected, ActivateSucceeds,
                ActivateFails, ActivateUndone, Portal
  <2>5. faults' \in 0..MaxFaults
    BY <1>7, PilotAssumption
       DEF TypeOK, StageSucceeds, StageFails, StageIsRejected, ActivateSucceeds,
           ActivateFails, ActivateUndone, Fault
  <2>3. QED
    BY <1>2, <1>7, <2>1, <2>2, <2>4, <2>5
    DEF TypeOK, StageSucceeds, StageFails, StageIsRejected,
                                  ActivateSucceeds, ActivateFails, ActivateUndone
<1>8. ASSUME NEW a \in Actor,
             \/ ClientsSucceed(a) \/ ClientsFail(a)
             \/ AcceptanceSucceeds(a) \/ AcceptanceFails(a) \/ BaselineChanged(a)
             \/ StartSucceeds(a) \/ StartFails(a)
      PROVE  TypeOK'
  <2>1. proc' \in [Actor -> Command]
    BY <1>8, MoveType DEF ClientsSucceed, ClientsFail, AcceptanceSucceeds, AcceptanceFails,
                          BaselineChanged, StartSucceeds, StartFails
  <2>2. op' \in [Step -> Status]
    <3>1. op \in [Step -> Status] /\ Final \subseteq Status
      BY DEF TypeOK, Status
    <3>2. CASE ClientsSucceed(a) \/ AcceptanceSucceeds(a) \/ StartSucceeds(a) \/ BaselineChanged(a)
      BY <3>1, <3>2 DEF ClientsSucceed, AcceptanceSucceeds, StartSucceeds, BaselineChanged,
                        Sets, Final
    <3>3. CASE ClientsFail(a) \/ AcceptanceFails(a)
      BY <3>1, <3>3 DEF ClientsFail, AcceptanceFails, Sets, Final
    <3>4. CASE StartFails(a)
      BY <3>1, <3>4 DEF StartFails, MarkFailed, Final
    <3>5. QED
      BY <1>8, <3>2, <3>3, <3>4
  <2>4. portal' \in Portal
    BY <1>8 DEF TypeOK, ClientsSucceed, ClientsFail, AcceptanceSucceeds, AcceptanceFails,
                BaselineChanged, StartSucceeds, StartFails, Portal
  <2>3. QED
    BY <1>2, <1>8, <2>1, <2>2, <2>4
       DEF TypeOK, ClientsSucceed, ClientsFail, AcceptanceSucceeds, AcceptanceFails,
           BaselineChanged, StartSucceeds, StartFails
<1>9. ASSUME NEW a \in Actor, ActivateCommitFails(a) \/ StartCommitFails(a)
      PROVE  TypeOK'
  <2>1. proc' \in [Actor -> Command]
    BY <1>9, MoveType DEF ActivateCommitFails, StartCommitFails, Places, Past
  <2>2. op' \in [Step -> Status] /\ portal' \in Portal
    BY <1>9 DEF TypeOK, ActivateCommitFails, StartCommitFails, Sets, Status, Final, Portal
  <2>5. faults' \in 0..MaxFaults
    BY <1>9, PilotAssumption DEF TypeOK, ActivateCommitFails, StartCommitFails, Fault
  <2>3. calls' \in [Request -> {"NONE"} \cup Step \cup Undo]
    BY <1>9 DEF TypeOK, ActivateCommitFails, StartCommitFails, Sends, Undo
  <2>4. QED
    BY <1>2, <1>9, <2>1, <2>2, <2>3, <2>5 DEF TypeOK, ActivateCommitFails, StartCommitFails
<1>10. ASSUME NEW a \in Actor, TimesOut(a) \/ Dies(a)
       PROVE  TypeOK'
  <2>1. proc' \in [Actor -> Command]
    BY <1>10, MoveType, ProcType DEF TimesOut, Dies, Command, Replied
  <2>2. faults' \in 0..MaxFaults
    BY <1>10, PilotAssumption DEF TypeOK, TimesOut, Dies, Fault
  <2>3. QED
    BY <1>2, <1>10, <2>1, <2>2 DEF TypeOK, TimesOut, Dies
<1>11. ASSUME NEW r \in Request, WorkerHandles(r) \/ WorkerFails(r)
       PROVE  TypeOK'
  <2>1. calls[r] \in Step \cup Undo /\ host \in HostStates /\ faults' \in 0..MaxFaults
    BY <1>11, PilotAssumption DEF TypeOK, WorkerHandles, WorkerFails, Fault
  <2>2. PICK w \in Replies(calls[r], host) \cup Faults(calls[r], host) : Handles(r, w)
    BY <1>11 DEF WorkerHandles, WorkerFails
  <2>3. w.host \in HostStates /\ w.reply \in Replied
    BY <2>1, HandlerOutcome
  <2>4. proc' \in [Actor -> Command]
    BY <2>2, <2>3, ProcType DEF Handles, Hears, Command
  <2>5. QED
    BY <1>2, <2>1, <2>2, <2>3, <2>4 DEF TypeOK, Handles
<1>12. QED
  BY <1>1, <1>3, <1>4, <1>5, <1>6, <1>7, <1>8, <1>9, <1>10, <1>11 DEF Next, Advances

-----------------------------------------------------------------------------
(* A command that ends, with what it leaves in the database.               *)

LEMMA EndsPreserves ==
    ASSUME IInv, TypeOK', NEW a \in Actor, Ends(a),
           calls' = calls, host' = host,
           EvidenceChain', NodeOpensLast',
           portal.managed # "NONE" => portal'.managed # "NONE",
           portal.key # "NONE" => portal'.key # "NONE",
           \A s \in Step \ {proc[a].step} : op'[s] = op[s],
           proc[a].step \in Once =>
              \/ op'[proc[a].step] = op[proc[a].step]
              \/ /\ proc[a].at \in {"WAITING", "UNDOING"}
                 /\ op[proc[a].step] = "RUNNING" /\ op'[proc[a].step] \in Final,
           portal'.managed # "NONE" => host.identity \in Present,
           op'["activate"] = "SUCCEEDED" => host.identity = "ACTIVE",
           (\E r \in Request : calls[r] = "rollback") => op'["activate"] # "SUCCEEDED",
           (\E r \in Request : calls[r] = "acceptance") =>
              op'["acceptance"] \in {"RUNNING", "FAILED"}
    PROVE  IInv'
<1>1. /\ proc' = [proc EXCEPT ![a] = Idle] /\ proc \in [Actor -> Command]
      /\ op \in [Step -> Status] /\ op' \in [Step -> Status]
  BY ProcType DEF Ends, IInv, TypeOK
<1>2. /\ proc'[a] = Idle
      /\ \A b \in Actor : b # a => proc'[b] = proc[b]
  BY <1>1
<1>3. /\ Idle.at = "IDLE" /\ Idle.step = "stage" /\ Idle.req = None /\ Idle.reply = "NONE"
      /\ "IDLE" \notin Past /\ "stage" \in Step /\ "stage" \notin Once
  BY DEF Idle, Past, Step, Once
<1>4. \A s \in Step : s \in Once =>
        \/ op'[s] = op[s]
        \/ /\ s = proc[a].step /\ proc[a].at \in {"WAITING", "UNDOING"}
           /\ op[s] = "RUNNING" /\ op'[s] \in Final
  OBVIOUS
<1>5. RequestsMatch'
  BY <1>2, <1>3 DEF IInv, RequestsMatch
<1>6. PlacesMatch'
  <2> SUFFICES ASSUME NEW b \in Actor, b # a
               PROVE  /\ proc[b].at = "IDLE" => proc[b].step = "stage"
                      /\ proc[b].at = "UNDOING" => proc[b].step \in {"activate", "start"}
                      /\ proc[b].step \in Once =>
                           /\ proc[b].at \in {"QUEUED", "STARTING"} => op'[proc[b].step] = "QUEUED"
                           /\ proc[b].at \in {"RUNNING", "WAITING"} => op'[proc[b].step] = "RUNNING"
                           /\ proc[b].at = "UNDOING" =>
                                \/ op'[proc[b].step] = "RUNNING"
                                \/ proc[b].step = "start" /\ op'["start"] = "SUCCEEDED"
    BY <1>2, <1>3 DEF PlacesMatch
  <2>1. proc[b].step \in Once /\ proc[b].at \in Past => op'[proc[b].step] = op[proc[b].step]
    BY <1>1, <1>4 DEF IInv, OneCommand, Past, Command
  <2>2. QED
    BY <2>1 DEF IInv, PlacesMatch, Past
<1>7. OneCommand'
  BY <1>2, <1>3 DEF IInv, OneCommand
<1>8. \A s \in Step : op[s] = "SUCCEEDED" /\ s \in Once => op'[s] = "SUCCEEDED"
  BY <1>4
<1>9. \A s \in Step : op'[s] # "NONE" /\ s \in Once => op[s] # "NONE"
  BY <1>4
<1>10. NeedsAreMet'
  <2>1. (\A b \in Actor : Needs(proc[b].step))'
    <3> SUFFICES ASSUME NEW b \in Actor
                 PROVE  Needs(proc[b].step)'
      OBVIOUS
    <3>1. CASE b = a
      BY <1>2, <1>3, <3>1 DEF Needs
    <3>2. CASE b # a
      BY <1>2, <1>8, <3>2 DEF IInv, NeedsAreMet, Needs, Step, Once
    <3>3. QED
      BY <3>1, <3>2
  <2>2. (\A s \in Step : op[s] # "NONE" => Needs(s))'
    BY <1>8, <1>9 DEF IInv, NeedsAreMet, Needs, Step, Once
  <2>3. QED
    BY <2>1, <2>2 DEF NeedsAreMet
<1>11. HostIsThere'
  BY <1>2, <1>3 DEF IInv, HostIsThere
<1>12. RollbackIsLast'
  <2> SUFFICES ASSUME \E r \in Request : calls[r] = "rollback"
               PROVE  /\ op'["activate"] \in {"RUNNING", "FAILED", "ROLLED_BACK"}
                      /\ \A b \in Actor : proc'[b].step = "activate" =>
                           proc'[b].at \notin Past \ {"UNDOING"}
    BY DEF RollbackIsLast
  <2>1. /\ op["activate"] \in {"RUNNING", "FAILED", "ROLLED_BACK"}
        /\ \A b \in Actor : proc[b].step = "activate" => proc[b].at \notin Past \ {"UNDOING"}
    BY DEF IInv, RollbackIsLast
  <2>2. op'["activate"] \in {"RUNNING", "FAILED", "ROLLED_BACK"}
    BY <1>4, <2>1 DEF Step, Once, Final
  <2>3. QED
    BY <1>2, <1>3, <2>1, <2>2
<1>13. AcceptanceCalls'
  BY <1>2, <1>3 DEF IInv, AcceptanceCalls
<1>14. StartCalls'
  BY <1>4 DEF IInv, StartCalls, Begun, Step, Once
<1>15. AcceptanceDrained'
  <2>1. op["start"] \in Begun => op'["start"] \in Begun
    BY <1>4 DEF Begun, Step, Once
  <2>2. QED
    BY <1>2, <1>3, <2>1 DEF IInv, AcceptanceDrained
<1>16. QED
  BY <1>5, <1>6, <1>7, <1>10, <1>11, <1>12, <1>13, <1>14, <1>15 DEF IInv

-----------------------------------------------------------------------------
(* A command that starts, goes on or stops waiting, and touches nothing.   *)

LEMMA MovesPreserve ==
    ASSUME IInv, TypeOK', NEW a \in Actor, NEW c \in Command,
           proc' = [proc EXCEPT ![a] = c],
           op' = op, portal' = portal, calls' = calls, host' = host,
           c.req = None, c.at # "IDLE", Needs(c.step),
           \/ c.reply \in {"NONE", "LOST"}
           \/ c.step = proc[a].step /\ c.reply = proc[a].reply,
           c.at = "UNDOING" => proc[a].at = "UNDOING" /\ proc[a].step = c.step,
           c.at \in Past /\ c.step \in Once =>
              /\ proc[a].step = c.step
              /\ \/ proc[a].at = c.at
                 \/ proc[a].at = "QUEUED" /\ c.at = "STARTING"
    PROVE  IInv'
<1>1. /\ proc'[a] = c
      /\ \A b \in Actor : b # a => proc'[b] = proc[b]
  BY ProcType DEF IInv
<1>2. c.at \in Past /\ c.step \in Once => proc[a].step = c.step /\ proc[a].at \in Past
  BY DEF Past
<1>3. RequestsMatch'
  BY <1>1 DEF IInv, RequestsMatch
<1>4. PlacesMatch'
  <2> SUFFICES ASSUME NEW b \in Actor
               PROVE  (/\ proc[b].at = "IDLE" => proc[b].step = "stage"
                       /\ proc[b].at = "UNDOING" => proc[b].step \in {"activate", "start"}
                       /\ proc[b].step \in Once =>
                            /\ proc[b].at \in {"QUEUED", "STARTING"} => op[proc[b].step] = "QUEUED"
                            /\ proc[b].at \in {"RUNNING", "WAITING"} => op[proc[b].step] = "RUNNING"
                            /\ proc[b].at = "UNDOING" =>
                                 \/ op[proc[b].step] = "RUNNING"
                                 \/ proc[b].step = "start" /\ op["start"] = "SUCCEEDED")'
    BY DEF PlacesMatch
  <2>1. CASE b = a
    BY <1>1, <2>1 DEF IInv, PlacesMatch, Past
  <2>2. CASE b # a
    BY <1>1, <2>2 DEF IInv, PlacesMatch
  <2>3. QED
    BY <2>1, <2>2
<1>5. OneCommand'
  BY <1>1, <1>2 DEF IInv, OneCommand
<1>6. NeedsAreMet'
  <2>1. (\A b \in Actor : Needs(proc[b].step))'
    BY <1>1 DEF IInv, NeedsAreMet, Needs
  <2>2. (\A s \in Step : op[s] # "NONE" => Needs(s))'
    BY DEF IInv, NeedsAreMet, Needs
  <2>3. QED
    BY <2>1, <2>2 DEF NeedsAreMet
<1>7. HostIsThere'
  BY <1>1 DEF IInv, HostIsThere, Past, Once, Step
<1>8. RollbackIsLast'
  BY <1>1 DEF IInv, RollbackIsLast, Past, Once, Step
<1>9. AcceptanceCalls'
  BY <1>1 DEF IInv, AcceptanceCalls, Past, Once, Step
<1>10. StartCalls' /\ EvidenceChain' /\ NodeOpensLast'
  BY DEF IInv, StartCalls, EvidenceChain, NodeOpensLast
<1>11. AcceptanceDrained'
  BY <1>1 DEF IInv, AcceptanceDrained, Past, Once, Step
<1>12. QED
  BY <1>3, <1>4, <1>5, <1>6, <1>7, <1>8, <1>9, <1>10, <1>11 DEF IInv

-----------------------------------------------------------------------------
(* The two commits before the call.                                        *)

LEMMA CommitsPreserve ==
    ASSUME IInv, TypeOK', NEW a \in Actor, NEW s \in Step, s = proc[a].step,
           \/ /\ proc[a].at = "READY" /\ Goes(a, "QUEUED")
              /\ op' = [op EXCEPT ![s] = "QUEUED"] /\ Inserts(s)
           \/ /\ proc[a].at = "STARTING" /\ Goes(a, "RUNNING")
              /\ op' = [op EXCEPT ![s] = "RUNNING"],
           portal' = portal, calls' = calls, host' = host
    PROVE  IInv'
<1>1. /\ proc \in [Actor -> Command] /\ op \in [Step -> Status]
      /\ \A b \in Actor : b # a => proc'[b] = proc[b]
      /\ proc'[a].step = s /\ proc'[a].req = proc[a].req /\ proc'[a].reply = proc[a].reply
      /\ \A t \in Step : t # s => op'[t] = op[t]
  BY ProcType DEF IInv, TypeOK, Goes, Command
<1>2. /\ \/ proc[a].at = "READY" /\ proc'[a].at = "QUEUED"
         \/ proc[a].at = "STARTING" /\ proc'[a].at = "RUNNING"
      /\ op'[s] = proc'[a].at
      /\ s \in Once => \/ op[s] = "NONE" /\ op'[s] = "QUEUED"
                       \/ op[s] = "QUEUED" /\ op'[s] = "RUNNING" /\ proc[a].at = "STARTING"
  BY <1>1 DEF IInv, PlacesMatch, Goes, Command, Inserts
<1>3. proc[a].req = None
  BY <1>2 DEF IInv, RequestsMatch
<1>4. \A b \in Actor : b # a /\ proc[b].step = s /\ s \in Once => proc[b].at \notin Past
  <2> SUFFICES ASSUME NEW b \in Actor, b # a, proc[b].step = s, s \in Once, proc[b].at \in Past
               PROVE  FALSE
    OBVIOUS
  <2>1. CASE op[s] = "NONE"
    BY <2>1 DEF IInv, PlacesMatch, Past
  <2>2. CASE proc[a].at = "STARTING"
    BY <2>2 DEF IInv, OneCommand, Past
  <2>3. QED
    BY <1>2, <2>1, <2>2
<1>5. RequestsMatch'
  BY <1>1, <1>3 DEF IInv, RequestsMatch
<1>6. PlacesMatch'
  <2> SUFFICES ASSUME NEW b \in Actor
               PROVE  (/\ proc[b].at = "IDLE" => proc[b].step = "stage"
                       /\ proc[b].at = "UNDOING" => proc[b].step \in {"activate", "start"}
                       /\ proc[b].step \in Once =>
                            /\ proc[b].at \in {"QUEUED", "STARTING"} => op[proc[b].step] = "QUEUED"
                            /\ proc[b].at \in {"RUNNING", "WAITING"} => op[proc[b].step] = "RUNNING"
                            /\ proc[b].at = "UNDOING" =>
                                 \/ op[proc[b].step] = "RUNNING"
                                 \/ proc[b].step = "start" /\ op["start"] = "SUCCEEDED")'
    BY DEF PlacesMatch
  <2>1. CASE b = a
    BY <1>1, <1>2, <2>1
  <2>2. CASE b # a /\ proc[b].step # s
    <3>1. /\ proc'[b] = proc[b] /\ op'[proc[b].step] = op[proc[b].step]
          /\ proc[b].step = "start" => op'["start"] = op["start"]
      BY <1>1, <2>2 DEF Command
    <3>2. QED
      BY <3>1 DEF IInv, PlacesMatch
  <2>3. CASE b # a /\ proc[b].step = s
    <3>1. proc'[b] = proc[b] /\ (s \in Once => proc[b].at \notin Past)
      BY <1>1, <1>4, <2>3
    <3>2. QED
      BY <2>3, <3>1 DEF IInv, PlacesMatch, Past, Once
  <2>4. QED
    BY <2>1, <2>2, <2>3
<1>7. OneCommand'
  BY <1>1, <1>4 DEF IInv, OneCommand
<1>8. NeedsAreMet'
  <2>1. \A t \in Step : t \in Once /\ op[t] = "SUCCEEDED" => op'[t] = "SUCCEEDED"
    BY <1>1, <1>2
  <2>2. (\A b \in Actor : Needs(proc[b].step))'
    BY <1>1, <2>1 DEF IInv, NeedsAreMet, Needs, Step, Once
  <2>3. (\A t \in Step : op[t] # "NONE" => Needs(t))'
    <3> SUFFICES ASSUME NEW t \in Step, op'[t] # "NONE"
                 PROVE  Needs(t)'
      OBVIOUS
    <3>1. CASE t = s
      BY <1>1, <2>1, <3>1 DEF IInv, NeedsAreMet, Needs, Step, Once
    <3>2. CASE t # s
      BY <1>1, <2>1, <3>2 DEF IInv, NeedsAreMet, Needs, Step, Once
    <3>3. QED
      BY <3>1, <3>2
  <2>4. QED
    BY <2>2, <2>3 DEF NeedsAreMet
<1>9. \A t \in Once : op'[t] = "SUCCEEDED" <=> op[t] = "SUCCEEDED"
  BY <1>1, <1>2 DEF Once
<1>10. HostIsThere'
  BY <1>1, <1>2, <1>9 DEF IInv, HostIsThere, Once, Step
<1>11. RollbackIsLast'
  <2> SUFFICES ASSUME \E r \in Request : calls[r] = "rollback"
               PROVE  RollbackIsLast'
    BY DEF RollbackIsLast
  <2>1. s # "activate"
    BY <1>2 DEF IInv, RollbackIsLast, Once, Step
  <2>2. QED
    BY <1>1, <2>1 DEF IInv, RollbackIsLast, Step
<1>12. AcceptanceCalls'
  <2> SUFFICES ASSUME NEW r \in Request, calls[r] = "acceptance"
               PROVE  AcceptanceCalls'
    BY DEF AcceptanceCalls
  <2>1. s # "acceptance"
    BY <1>2 DEF IInv, AcceptanceCalls, Once, Step
  <2>2. QED
    BY <1>1, <2>1 DEF IInv, AcceptanceCalls, Step
<1>13. op["start"] \in Begun => op'["start"] \in Begun
  BY <1>1, <1>2 DEF Begun, Final, Once, Step
<1>14. StartCalls'
  BY <1>13 DEF IInv, StartCalls
<1>15. AcceptanceDrained'
  BY <1>1, <1>2, <1>13 DEF IInv, AcceptanceDrained
<1>16. EvidenceChain'
  <2>1. op'["activate"] # "NONE" => portal.managed # "NONE" /\ portal.key # "NONE"
    BY <1>1 DEF IInv, EvidenceChain, NeedsAreMet, Needs, Step
  <2>2. QED
    BY <1>9, <2>1 DEF IInv, EvidenceChain, Once, Step
<1>17. NodeOpensLast'
  <2>1. op["acceptance"] \in {"RUNNING", "FAILED"} => op'["acceptance"] = op["acceptance"]
    BY <1>1, <1>2 DEF Once, Step
  <2>2. QED
    BY <1>13, <2>1 DEF IInv, NodeOpensLast, Begun
<1>18. QED
  BY <1>5, <1>6, <1>7, <1>8, <1>10, <1>11, <1>12, <1>14, <1>15, <1>16, <1>17 DEF IInv

-----------------------------------------------------------------------------
(* A request for the Worker.  Only Start may have recorded its success.    *)

LEMMA SendsPreserve ==
    ASSUME IInv, TypeOK', NEW a \in Actor, NEW s \in Step, s = proc[a].step,
           NEW what \in Step \cup Undo, NEW at \in Places, Sends(a, what, at),
           \/ proc[a].at = "RUNNING" /\ at = "WAITING" /\ what = s
           \/ /\ proc[a].at = "WAITING" /\ at = "UNDOING"
              /\ \/ s = "activate" /\ what = "rollback"
                 \/ s = "start" /\ what = "drain",
           \/ op' = op
           \/ s = "start" /\ at = "UNDOING" /\ op' = [op EXCEPT ![s] = "SUCCEEDED"],
           host' = host, portal'.managed = portal.managed, portal'.key = portal.key,
           EvidenceChain'
    PROVE  IInv'
<1>1. PICK r \in Request :
        /\ calls[r] = "NONE" /\ calls' = [calls EXCEPT ![r] = what]
        /\ proc' = [proc EXCEPT ![a].at = at, ![a].req = r, ![a].reply = "NONE"]
  BY DEF Sends
<1>2. /\ proc \in [Actor -> Command] /\ op \in [Step -> Status]
      /\ calls \in [Request -> {"NONE"} \cup Step \cup Undo]
      /\ \A b \in Actor : b # a => proc'[b] = proc[b]
      /\ proc'[a].step = s /\ proc'[a].at = at /\ proc'[a].req = r /\ proc'[a].reply = "NONE"
      /\ calls'[r] = what
      /\ \A q \in Request : q # r => calls'[q] = calls[q]
      /\ \A t \in Step : t # "start" => op'[t] = op[t]
      /\ op'["start"] = op["start"] \/ (s = "start" /\ at = "UNDOING" /\ op'["start"] = "SUCCEEDED")
  <2>1. /\ proc \in [Actor -> Command] /\ op \in [Step -> Status]
        /\ calls \in [Request -> {"NONE"} \cup Step \cup Undo]
    BY ProcType DEF IInv, TypeOK
  <2>2. /\ \A b \in Actor : b # a => proc'[b] = proc[b]
        /\ proc'[a].step = s /\ proc'[a].at = at /\ proc'[a].req = r /\ proc'[a].reply = "NONE"
    BY <1>1, <2>1 DEF Command
  <2>3. /\ calls'[r] = what
        /\ \A q \in Request : q # r => calls'[q] = calls[q]
    BY <1>1, <2>1
  <2>4. /\ \A t \in Step : t # "start" => op'[t] = op[t]
        /\ op'["start"] = op["start"] \/ (s = "start" /\ at = "UNDOING" /\ op'["start"] = "SUCCEEDED")
    BY <2>1
  <2>5. QED
    BY <2>1, <2>2, <2>3, <2>4
<1>3. s \in Once => op[s] = "RUNNING"
  BY DEF IInv, PlacesMatch
<1>4. \A b \in Actor : b # a /\ proc[b].step = s /\ s \in Once => proc[b].at \notin Past
  BY DEF IInv, OneCommand, Past
<1>5. RequestsMatch'
  <2> SUFFICES ASSUME NEW b \in Actor, proc'[b].req # None
               PROVE  (\/ proc[b].at = "WAITING" /\ calls[proc[b].req] = proc[b].step
                       \/ /\ proc[b].at = "UNDOING" /\ calls[proc[b].req] \in Undo
                          /\ proc[b].step = "activate" <=> calls[proc[b].req] = "rollback")'
    BY DEF RequestsMatch
  <2>1. CASE b = a
    BY <1>2, <2>1 DEF Undo
  <2>2. CASE b # a
    <3>1. proc'[b] = proc[b] /\ proc[b].req \in Request /\ calls[proc[b].req] # "NONE"
      BY <1>2, <2>2 DEF IInv, RequestsMatch, Command, Step, Undo
    <3>2. calls'[proc[b].req] = calls[proc[b].req]
      BY <1>1, <1>2, <3>1
    <3>3. QED
      BY <3>1, <3>2 DEF IInv, RequestsMatch
  <2>3. QED
    BY <2>1, <2>2
<1>6. PlacesMatch'
  <2> SUFFICES ASSUME NEW b \in Actor
               PROVE  (/\ proc[b].at = "IDLE" => proc[b].step = "stage"
                       /\ proc[b].at = "UNDOING" => proc[b].step \in {"activate", "start"}
                       /\ proc[b].step \in Once =>
                            /\ proc[b].at \in {"QUEUED", "STARTING"} => op[proc[b].step] = "QUEUED"
                            /\ proc[b].at \in {"RUNNING", "WAITING"} => op[proc[b].step] = "RUNNING"
                            /\ proc[b].at = "UNDOING" =>
                                 \/ op[proc[b].step] = "RUNNING"
                                 \/ proc[b].step = "start" /\ op["start"] = "SUCCEEDED")'
    BY DEF PlacesMatch
  <2>1. CASE b = a
    <3>1. op'[s] = op[s] \/ (s = "start" /\ at = "UNDOING" /\ op'[s] = "SUCCEEDED")
      <4>1. CASE s = "start"
        BY <1>2, <4>1
      <4>2. CASE s # "start"
        BY <1>2, <4>2
      <4>3. QED
        BY <4>1, <4>2
    <3>2. QED
      BY <1>2, <1>3, <2>1, <3>1
  <2>2. CASE b # a
    <3>1. proc'[b] = proc[b] /\ proc[b].step \in Step
      BY <1>2, <2>2 DEF Command
    <3>2. CASE op'[proc[b].step] = op[proc[b].step]
      BY <3>1, <3>2 DEF IInv, PlacesMatch
    <3>3. CASE op'[proc[b].step] # op[proc[b].step]
      <4>1. s = "start" /\ proc[b].step = "start" /\ proc[b].at \notin Past
        BY <1>2, <1>4, <2>2, <3>1, <3>3 DEF Once, Step
      <4>2. QED
        BY <3>1, <4>1 DEF IInv, PlacesMatch, Past
    <3>4. QED
      BY <3>2, <3>3
  <2>3. QED
    BY <2>1, <2>2
<1>7. OneCommand'
  BY <1>2, <1>4 DEF IInv, OneCommand
<1>8. NeedsAreMet'
  <2>1. (\A b \in Actor : Needs(proc[b].step))'
    BY <1>2 DEF IInv, NeedsAreMet, Needs, Step
  <2>2. (\A t \in Step : op[t] # "NONE" => Needs(t))'
    BY <1>2, <1>3 DEF IInv, NeedsAreMet, Needs, Step, Once
  <2>3. QED
    BY <2>1, <2>2 DEF NeedsAreMet
<1>9. HostIsThere'
  BY <1>2 DEF IInv, HostIsThere, Step
<1>10. RollbackIsLast'
  <2>1. CASE what = "rollback"
    <3>1. s = "activate" /\ at = "UNDOING" /\ op'["activate"] = "RUNNING"
      BY <1>2, <1>3, <2>1 DEF Step, Once
    <3>2. \A b \in Actor : proc'[b].step = "activate" => proc'[b].at \notin Past \ {"UNDOING"}
      BY <1>2, <1>4, <3>1 DEF Once, Step
    <3>3. QED
      BY <3>1, <3>2 DEF RollbackIsLast
  <2>2. CASE what # "rollback"
    <3> SUFFICES ASSUME NEW q \in Request, calls'[q] = "rollback"
                 PROVE  /\ op'["activate"] \in {"RUNNING", "FAILED", "ROLLED_BACK"}
                        /\ \A b \in Actor : proc'[b].step = "activate" =>
                             proc'[b].at \notin Past \ {"UNDOING"}
      BY DEF RollbackIsLast
    <3>1. calls[q] = "rollback"
      BY <1>2, <2>2
    <3>2. /\ op["activate"] \in {"RUNNING", "FAILED", "ROLLED_BACK"}
          /\ \A b \in Actor : proc[b].step = "activate" => proc[b].at \notin Past \ {"UNDOING"}
      BY <3>1 DEF IInv, RollbackIsLast
    <3>3. s # "activate"
      BY <2>2, <3>2 DEF Past
    <3>4. QED
      BY <1>2, <3>2, <3>3 DEF Step
  <2>3. QED
    BY <2>1, <2>2
<1>11. AcceptanceCalls'
  <2> SUFFICES ASSUME NEW q \in Request, calls'[q] = "acceptance"
               PROVE  (/\ op["acceptance"] \in {"RUNNING", "FAILED"}
                       /\ \A p \in Request : calls[p] = "acceptance" => p = q
                       /\ \A b \in Actor : proc[b].step = "acceptance" /\ proc[b].at \in Past =>
                            proc[b].at = "WAITING" /\ proc[b].reply \in {"NONE", "LOST"})'
    BY DEF AcceptanceCalls
  <2>1. CASE what = "acceptance"
    <3>1. s = "acceptance" /\ at = "WAITING" /\ proc[a].at = "RUNNING"
      BY <2>1
    <3>2. \A p \in Request : calls[p] # "acceptance"
      BY <3>1 DEF IInv, AcceptanceCalls, Past
    <3>3. QED
      BY <1>2, <1>3, <1>4, <2>1, <3>1, <3>2 DEF Once, Step
  <2>2. CASE what # "acceptance"
    <3>1. calls[q] = "acceptance"
      BY <1>2, <2>2
    <3>2. s # "acceptance"
      BY <2>2, <3>1 DEF IInv, AcceptanceCalls, Past
    <3>3. QED
      BY <1>2, <2>2, <3>1, <3>2 DEF IInv, AcceptanceCalls, Step
  <2>3. QED
    BY <2>1, <2>2
<1>12. op["start"] \in Begun => op'["start"] \in Begun
  BY <1>2 DEF Begun, Final
<1>13. StartCalls'
  <2> SUFFICES ASSUME NEW q \in Request, calls'[q] = "start"
               PROVE  op'["start"] \in Begun
    BY DEF StartCalls
  <2>1. CASE what = "start"
    BY <1>3, <1>12, <2>1 DEF Begun, Once, Step
  <2>2. CASE what # "start"
    BY <1>2, <1>12, <2>2 DEF IInv, StartCalls
  <2>3. QED
    BY <2>1, <2>2
<1>14. AcceptanceDrained'
  BY <1>2, <1>12 DEF IInv, AcceptanceDrained
<1>15. NodeOpensLast'
  BY <1>2, <1>12 DEF IInv, NodeOpensLast, Begun, Step
<1>16. QED
  BY <1>5, <1>6, <1>7, <1>8, <1>9, <1>10, <1>11, <1>13, <1>14, <1>15 DEF IInv

-----------------------------------------------------------------------------
(* The Root Worker takes a request.                                        *)

LEMMA HandlesPreserve ==
    ASSUME IInv, TypeOK', NEW r \in Request, calls[r] # "NONE",
           NEW w \in Replies(calls[r], host) \cup Faults(calls[r], host), Handles(r, w)
    PROVE  IInv'
<1> DEFINE o == calls[r]
<1>1. /\ proc \in [Actor -> Command] /\ host \in HostStates /\ o \in Step \cup Undo
      /\ calls \in [Request -> {"NONE"} \cup Step \cup Undo]
  BY ProcType DEF IInv, TypeOK
<1>2. /\ host' = w.host /\ op' = op /\ portal' = portal
      /\ calls' = [calls EXCEPT ![r] = "NONE"] /\ proc' = Hears(r, w.reply)
  BY DEF Handles
<1>3. /\ calls'[r] = "NONE"
      /\ \A q \in Request : q # r => calls'[q] = calls[q]
  BY <1>1, <1>2
<1>4. \A b \in Actor :
        /\ proc'[b].at = proc[b].at /\ proc'[b].step = proc[b].step
        /\ proc[b].req = r => proc'[b].req = None /\ proc'[b].reply = w.reply
        /\ proc[b].req # r => proc'[b] = proc[b]
  BY <1>1, <1>2 DEF Hears, Command
<1>5. /\ w.reply \in Replied
      /\ host.identity \in Present => host'.identity \in Present
      /\ host.identity = "ACTIVE" /\ o # "rollback" => host'.identity = "ACTIVE"
      /\ o = "stage" /\ w.reply = "SUCCEEDED" => host'.identity \in Present
      /\ o = "activate" /\ w.reply = "SUCCEEDED" => host'.identity = "ACTIVE"
      /\ host'.node = "IDLE" =>
           \/ host.node = "IDLE" \/ o = "start"
           \/ o = "acceptance" /\ w.reply \notin {"SUCCEEDED", "DRAIN_RESTORED"}
      /\ o = "acceptance" /\ w.reply \in {"SUCCEEDED", "DRAIN_RESTORED"} => host'.node = "DRAIN"
  BY <1>1, <1>2, HandlerOutcome
<1>6. host'.node \in {"IDLE", "DRAIN"}
  BY DEF TypeOK, HostStates
<1> HIDE DEF o
<1>7. \A b \in Actor : proc[b].req = r =>
        \/ proc[b].at = "WAITING" /\ proc[b].step = o
        \/ /\ proc[b].at = "UNDOING" /\ proc[b].step \in {"activate", "start"}
           /\ o \in Undo
  <2> SUFFICES ASSUME NEW b \in Actor, proc[b].req = r
               PROVE  \/ proc[b].at = "WAITING" /\ proc[b].step = o
                      \/ /\ proc[b].at = "UNDOING" /\ proc[b].step \in {"activate", "start"}
                         /\ o \in Undo
    OBVIOUS
  <2>1. proc[b].req # None
    BY PilotAssumption
  <2>2. QED
    BY <2>1 DEF IInv, RequestsMatch, PlacesMatch, o
<1>8. RequestsMatch'
  <2> SUFFICES ASSUME NEW b \in Actor, proc'[b].req # None
               PROVE  (\/ proc[b].at = "WAITING" /\ calls[proc[b].req] = proc[b].step
                       \/ /\ proc[b].at = "UNDOING" /\ calls[proc[b].req] \in Undo
                          /\ proc[b].step = "activate" <=> calls[proc[b].req] = "rollback")'
    BY DEF RequestsMatch
  <2>1. proc[b].req # r /\ proc'[b] = proc[b] /\ proc[b].req \in Request
    BY <1>1, <1>4 DEF Command
  <2>2. calls'[proc[b].req] = calls[proc[b].req]
    BY <1>3, <2>1
  <2>3. QED
    BY <2>1, <2>2 DEF IInv, RequestsMatch
<1>9. PlacesMatch' /\ OneCommand'
  BY <1>2, <1>4 DEF IInv, PlacesMatch, OneCommand
<1>10. NeedsAreMet'
  BY <1>2, <1>4 DEF IInv, NeedsAreMet, Needs
<1>11. op["activate"] = "SUCCEEDED" => o # "rollback"
  BY DEF IInv, RollbackIsLast, o
<1>12. HostIsThere'
  <2>1. portal'.managed # "NONE" => host'.identity \in Present
    BY <1>2, <1>5 DEF IInv, HostIsThere
  <2>2. op'["activate"] = "SUCCEEDED" => host'.identity = "ACTIVE"
    BY <1>2, <1>5, <1>11 DEF IInv, HostIsThere
  <2>3. ASSUME NEW b \in Actor, proc'[b].reply = "SUCCEEDED"
        PROVE  /\ proc'[b].step = "stage" => host'.identity \in Present
               /\ proc'[b].step = "activate" /\ proc'[b].at = "WAITING" =>
                    host'.identity = "ACTIVE"
    <3>1. CASE proc[b].req = r
      BY <1>4, <1>5, <1>7, <2>3, <3>1
    <3>2. CASE proc[b].req # r
      <4>1. proc'[b] = proc[b]
        BY <1>4, <3>2
      <4>2. proc[b].step = "activate" /\ proc[b].at = "WAITING" => o # "rollback"
        BY DEF IInv, RollbackIsLast, Past, o
      <4>3. QED
        BY <1>5, <2>3, <4>1, <4>2 DEF IInv, HostIsThere
    <3>3. QED
      BY <3>1, <3>2
  <2>4. QED
    BY <2>1, <2>2, <2>3 DEF HostIsThere
<1>13. RollbackIsLast'
  BY <1>2, <1>3, <1>4 DEF IInv, RollbackIsLast
<1>14. AcceptanceCalls'
  <2> SUFFICES ASSUME NEW q \in Request, calls'[q] = "acceptance"
               PROVE  (/\ op["acceptance"] \in {"RUNNING", "FAILED"}
                       /\ \A p \in Request : calls[p] = "acceptance" => p = q
                       /\ \A b \in Actor : proc[b].step = "acceptance" /\ proc[b].at \in Past =>
                            proc[b].at = "WAITING" /\ proc[b].reply \in {"NONE", "LOST"})'
    BY DEF AcceptanceCalls
  <2>1. q # r /\ calls[q] = "acceptance"
    BY <1>3
  <2>2. o # "acceptance"
    BY <2>1 DEF IInv, AcceptanceCalls, o
  <2>3. \A b \in Actor : proc[b].step = "acceptance" => proc[b].req # r
    BY <1>7, <2>2
  <2>4. QED
    BY <1>2, <1>3, <1>4, <2>1, <2>3 DEF IInv, AcceptanceCalls
<1>15. StartCalls' /\ EvidenceChain'
  BY <1>2, <1>3 DEF IInv, StartCalls, EvidenceChain
<1>16. NodeOpensLast'
  BY <1>2, <1>5 DEF IInv, NodeOpensLast, StartCalls, AcceptanceCalls, Begun, o
<1>17. AcceptanceDrained'
  <2> SUFFICES ASSUME NEW b \in Actor, proc'[b].step = "acceptance", proc'[b].at = "WAITING",
                      proc'[b].reply \in {"SUCCEEDED", "DRAIN_RESTORED"}
               PROVE  host'.node = "DRAIN" \/ op'["start"] \in Begun
    BY DEF AcceptanceDrained
  <2>1. CASE proc[b].req = r
    BY <1>4, <1>5, <1>7, <2>1
  <2>2. CASE proc[b].req # r
    <3>1. proc'[b] = proc[b]
      BY <1>4, <2>2
    <3>2. host.node = "DRAIN" \/ op["start"] \in Begun
      BY <3>1 DEF IInv, AcceptanceDrained
    <3>3. o = "start" => op["start"] \in Begun
      BY DEF IInv, StartCalls, o
    <3>4. o # "acceptance"
      BY <3>1 DEF IInv, AcceptanceCalls, Past, o
    <3>5. QED
      BY <1>2, <1>5, <1>6, <3>2, <3>3, <3>4
  <2>3. QED
    BY <2>1, <2>2
<1>18. QED
  BY <1>8, <1>9, <1>10, <1>12, <1>13, <1>14, <1>15, <1>16, <1>17 DEF IInv

-----------------------------------------------------------------------------
(* The ends: nothing recorded, a failure recorded, a success recorded.     *)

LEMMA QuitsPreserve ==
    ASSUME IInv, TypeOK', NEW a \in Actor, Ends(a),
           op' = op, portal' = portal, calls' = calls, host' = host
    PROVE  IInv'
<1>1. EvidenceChain' /\ NodeOpensLast'
  BY DEF IInv, EvidenceChain, NodeOpensLast
<1>2. /\ portal'.managed # "NONE" => host.identity \in Present
      /\ op'["activate"] = "SUCCEEDED" => host.identity = "ACTIVE"
      /\ (\E r \in Request : calls[r] = "rollback") => op'["activate"] # "SUCCEEDED"
      /\ (\E r \in Request : calls[r] = "acceptance") => op'["acceptance"] \in {"RUNNING", "FAILED"}
  BY DEF IInv, HostIsThere, RollbackIsLast, AcceptanceCalls
<1>3. QED
  BY <1>1, <1>2, EndsPreserves

LEMMA FailsPreserve ==
    ASSUME IInv, TypeOK', NEW a \in Actor, Ends(a), NEW s \in Step, s = proc[a].step,
           proc[a].at \in {"WAITING", "UNDOING"},
           NEW x \in {"FAILED", "ROLLED_BACK"}, op' = [op EXCEPT ![s] = x],
           s \in Once => op[s] = "RUNNING",
           s = "acceptance" /\ x = "ROLLED_BACK" =>
              /\ host.node = "DRAIN" \/ op["start"] \in Begun
              /\ \A r \in Request : calls[r] # "acceptance",
           portal' = portal, calls' = calls, host' = host
    PROVE  IInv'
<1>1. /\ op \in [Step -> Status]
      /\ op'[s] = x /\ \A t \in Step : t # s => op'[t] = op[t]
  BY DEF IInv, TypeOK
<1>2. \A t \in Once : op'[t] = "SUCCEEDED" <=> op[t] = "SUCCEEDED"
  BY <1>1 DEF Once
<1>3. EvidenceChain'
  <2>1. op'["activate"] # "NONE" => op["activate"] # "NONE"
    BY <1>1 DEF Once, Step
  <2>2. QED
    BY <1>2, <2>1 DEF IInv, EvidenceChain, Once, Step
<1>4. op["start"] \in Begun => op'["start"] \in Begun
  BY <1>1 DEF Begun, Final
<1>5. NodeOpensLast'
  <2> SUFFICES ASSUME host.node = "IDLE"
               PROVE  op'["start"] \in Begun \/ op'["acceptance"] \in {"RUNNING", "FAILED"}
    BY DEF NodeOpensLast, Begun
  <2>1. op["start"] \in Begun \/ op["acceptance"] \in {"RUNNING", "FAILED"}
    BY DEF IInv, NodeOpensLast, Begun
  <2>2. QED
    BY <1>1, <1>4, <2>1 DEF Step
<1>6. portal'.managed # "NONE" => host.identity \in Present
  BY DEF IInv, HostIsThere
<1>7. op'["activate"] = "SUCCEEDED" => host.identity = "ACTIVE"
  BY <1>2 DEF IInv, HostIsThere, Once, Step
<1>8. (\E r \in Request : calls[r] = "rollback") => op'["activate"] # "SUCCEEDED"
  BY <1>2 DEF IInv, RollbackIsLast, Once, Step
<1>9. (\E r \in Request : calls[r] = "acceptance") => op'["acceptance"] \in {"RUNNING", "FAILED"}
  BY <1>1 DEF IInv, AcceptanceCalls, Step
<1>10. /\ \A t \in Step \ {proc[a].step} : op'[t] = op[t]
       /\ proc[a].step \in Once => op[proc[a].step] = "RUNNING" /\ op'[proc[a].step] \in Final
  BY <1>1 DEF Final
<1>11. QED
  BY <1>3, <1>5, <1>6, <1>7, <1>8, <1>9, <1>10, EndsPreserves

(* A success changes only its own operation, and the row it records.       *)
LEMMA StagePersists ==
    ASSUME IInv, TypeOK', NEW a \in Actor, StageSucceeds(a)
    PROVE  IInv'
<1>1. /\ op \in [Step -> Status] /\ portal \in Portal
      /\ op'["stage"] = "SUCCEEDED" /\ \A t \in Step : t # "stage" => op'[t] = op[t]
  BY DEF IInv, TypeOK, StageSucceeds, Sets, Step
<1>2. /\ portal'.managed = "STAGED" /\ portal'.key = portal.key /\ portal'.pilot = portal.pilot
      /\ portal'.clients = FALSE /\ portal'.accepted = FALSE
  BY <1>1 DEF StageSucceeds, Portal
<1>3. /\ op'["activate"] = op["activate"] /\ op'["clients"] = op["clients"]
      /\ op'["acceptance"] = op["acceptance"] /\ op'["start"] = op["start"]
  BY <1>1 DEF Step
<1>4. EvidenceChain' /\ NodeOpensLast'
  BY <1>2, <1>3 DEF IInv, EvidenceChain, NodeOpensLast, StageSucceeds
<1>5. host.identity \in Present
  BY DEF IInv, HostIsThere, StageSucceeds, Answered
<1>6. /\ op'["activate"] = "SUCCEEDED" => host.identity = "ACTIVE"
      /\ (\E r \in Request : calls[r] = "rollback") => op'["activate"] # "SUCCEEDED"
      /\ (\E r \in Request : calls[r] = "acceptance") => op'["acceptance"] \in {"RUNNING", "FAILED"}
  BY <1>3 DEF IInv, HostIsThere, RollbackIsLast, AcceptanceCalls
<1>7. proc[a].step = "stage" /\ "stage" \notin Once
  BY DEF StageSucceeds, Answered, Once
<1>8. QED
  BY <1>1, <1>2, <1>4, <1>5, <1>6, <1>7, EndsPreserves DEF StageSucceeds

LEMMA ActivatePersists ==
    ASSUME IInv, TypeOK', NEW a \in Actor, Answered(a, "activate", {"SUCCEEDED"}),
           portal' = [portal EXCEPT !.managed = "ACTIVE", !.key = "INSTALLED",
                                    !.clients = FALSE, !.accepted = FALSE],
           Sets("activate", "SUCCEEDED"), Ends(a), calls' = calls, host' = host
    PROVE  IInv'
<1>1. /\ op \in [Step -> Status] /\ portal \in Portal
      /\ op'["activate"] = "SUCCEEDED" /\ \A t \in Step : t # "activate" => op'[t] = op[t]
  BY DEF IInv, TypeOK, Sets, Step
<1>2. /\ portal'.managed = "ACTIVE" /\ portal'.key = "INSTALLED" /\ portal'.pilot = portal.pilot
      /\ portal'.clients = FALSE /\ portal'.accepted = FALSE
  BY <1>1 DEF Portal
<1>3. /\ op'["clients"] = op["clients"]
      /\ op'["acceptance"] = op["acceptance"] /\ op'["start"] = op["start"]
  BY <1>1 DEF Step
<1>4. EvidenceChain' /\ NodeOpensLast'
  BY <1>1, <1>2, <1>3 DEF IInv, EvidenceChain, NodeOpensLast
<1>5. proc[a].step = "activate" /\ proc[a].at = "WAITING" /\ proc[a].reply = "SUCCEEDED"
  BY DEF Answered, At
<1>6. host.identity = "ACTIVE" /\ "ACTIVE" \in Present
  BY <1>5 DEF IInv, HostIsThere, Present
<1>7. (\E r \in Request : calls[r] = "rollback") => FALSE
  BY <1>5 DEF IInv, RollbackIsLast, Past
<1>8. (\E r \in Request : calls[r] = "acceptance") => op'["acceptance"] \in {"RUNNING", "FAILED"}
  BY <1>3 DEF IInv, AcceptanceCalls
<1>9. op[proc[a].step] = "RUNNING" /\ op'[proc[a].step] \in Final
  BY <1>1, <1>5 DEF IInv, PlacesMatch, Once, Step, Final
<1>10. QED
  BY <1>1, <1>2, <1>4, <1>5, <1>6, <1>7, <1>8, <1>9, EndsPreserves

(* Clients, Acceptance and Start add to an identity that is ACTIVE.        *)
LEMMA LaterPersists ==
    ASSUME IInv, TypeOK', NEW a \in Actor,
           ClientsSucceed(a) \/ AcceptanceSucceeds(a) \/ StartSucceeds(a)
    PROVE  IInv'
<1> DEFINE s == proc[a].step
<1>1. /\ proc[a].at = "WAITING" /\ proc[a].reply = "SUCCEEDED" /\ s \in Step /\ s \in Once
      /\ op' = [op EXCEPT ![s] = "SUCCEEDED"] /\ Ends(a)
      /\ calls' = calls /\ host' = host
      /\ s # "activate"
  BY DEF ClientsSucceed, AcceptanceSucceeds, StartSucceeds, Answered, At, Sets, Once, Step
<1>2. op \in [Step -> Status] /\ portal \in Portal
  BY DEF IInv, TypeOK
<1>3. /\ op[s] = "RUNNING" /\ op'[s] = "SUCCEEDED"
      /\ \A t \in Step : t # s => op'[t] = op[t]
  BY <1>1, <1>2 DEF IInv, PlacesMatch
<1>4. portal'.managed = portal.managed /\ portal'.key = portal.key
  BY <1>2 DEF ClientsSucceed, AcceptanceSucceeds, StartSucceeds, Portal
<1>5. op'["activate"] = op["activate"]
  BY <1>1, <1>3 DEF Step
<1>6. EvidenceChain'
  <2>1. CASE ClientsSucceed(a)
    <3>1. /\ s = "clients" /\ portal'.clients = TRUE
          /\ portal'.accepted = portal.accepted /\ portal'.pilot = portal.pilot
      BY <1>2, <2>1 DEF ClientsSucceed, Answered, Portal
    <3>2. /\ op'["clients"] = "SUCCEEDED"
          /\ op'["acceptance"] = op["acceptance"] /\ op'["start"] = op["start"]
      BY <1>3, <3>1 DEF Step
    <3>3. QED
      BY <1>4, <1>5, <3>1, <3>2 DEF IInv, EvidenceChain
  <2>2. CASE AcceptanceSucceeds(a)
    <3>1. /\ s = "acceptance" /\ portal.clients /\ portal'.clients = portal.clients
          /\ portal'.accepted = TRUE /\ portal'.pilot = portal.pilot
      BY <1>2, <2>2 DEF AcceptanceSucceeds, Answered, Portal
    <3>2. /\ op'["clients"] = op["clients"]
          /\ op'["acceptance"] = "SUCCEEDED" /\ op'["start"] = op["start"]
      BY <1>3, <3>1 DEF Step
    <3>3. QED
      BY <1>4, <1>5, <3>1, <3>2 DEF IInv, EvidenceChain
  <2>3. CASE StartSucceeds(a)
    <3>1. /\ s = "start" /\ portal'.clients = portal.clients
          /\ portal'.accepted = portal.accepted /\ portal'.pilot = TRUE
      BY <1>2, <2>3 DEF StartSucceeds, Answered, Portal
    <3>2. /\ op'["clients"] = op["clients"]
          /\ op'["acceptance"] = op["acceptance"] /\ op'["start"] = "SUCCEEDED"
      BY <1>3, <3>1 DEF Step
    <3>3. QED
      BY <1>4, <1>5, <3>1, <3>2 DEF IInv, EvidenceChain
  <2>4. QED
    BY <2>1, <2>2, <2>3
<1>7. op["start"] \in Begun => op'["start"] \in Begun
  BY <1>3 DEF Begun, Final, Step
<1>8. (\E r \in Request : calls[r] = "acceptance") => s # "acceptance"
  BY <1>1 DEF IInv, AcceptanceCalls, Past
<1>9. NodeOpensLast'
  <2> SUFFICES ASSUME host.node = "IDLE"
               PROVE  op'["start"] \in Begun \/ op'["acceptance"] \in {"RUNNING", "FAILED"}
    BY <1>1 DEF NodeOpensLast, Begun
  <2>1. op["start"] \in Begun \/ op["acceptance"] \in {"RUNNING", "FAILED"}
    BY DEF IInv, NodeOpensLast, Begun
  <2>2. s = "acceptance" => op["start"] \in Begun
    BY <1>1 DEF IInv, AcceptanceDrained
  <2>3. QED
    BY <1>3, <1>7, <2>1, <2>2 DEF Step
<1>10. /\ portal'.managed # "NONE" => host.identity \in Present
       /\ op'["activate"] = "SUCCEEDED" => host.identity = "ACTIVE"
       /\ (\E r \in Request : calls[r] = "rollback") => op'["activate"] # "SUCCEEDED"
  BY <1>4, <1>5 DEF IInv, HostIsThere, RollbackIsLast
<1>11. (\E r \in Request : calls[r] = "acceptance") => op'["acceptance"] \in {"RUNNING", "FAILED"}
  BY <1>3, <1>8 DEF IInv, AcceptanceCalls, Step
<1>12. op'[s] \in Final
  BY <1>3 DEF Final
<1>13. QED
  BY <1>1, <1>3, <1>4, <1>6, <1>9, <1>10, <1>11, <1>12, EndsPreserves

-----------------------------------------------------------------------------
(* What the owner does before the operations.                              *)

LEMMA PreparesPreserve ==
    ASSUME IInv, TypeOK', DraftStage \/ KeyEnrolled \/ RevalidateActivate
    PROVE  IInv'
<1>1. /\ op \in [Step -> Status] /\ portal \in Portal
      /\ proc' = proc /\ calls' = calls /\ host' = host
  BY DEF IInv, TypeOK, DraftStage, KeyEnrolled, RevalidateActivate
<1>2. \A s \in Step : s # "stage" => op'[s] = op[s]
  BY <1>1 DEF DraftStage, KeyEnrolled, RevalidateActivate, Step
<1>3. /\ op'["activate"] = op["activate"] /\ op'["clients"] = op["clients"]
      /\ op'["acceptance"] = op["acceptance"] /\ op'["start"] = op["start"]
  BY <1>2 DEF Step
<1>4. /\ portal'.managed = portal.managed /\ portal'.clients = portal.clients
      /\ portal'.accepted = portal.accepted /\ portal'.pilot = portal.pilot
      /\ \/ portal'.key = portal.key
         \/ portal.key = "NONE" /\ portal'.key = "VALIDATED"
  BY <1>1 DEF DraftStage, KeyEnrolled, RevalidateActivate, Portal
<1>5. RequestsMatch' /\ OneCommand' /\ RollbackIsLast' /\ AcceptanceCalls' /\ StartCalls'
  BY <1>1, <1>3 DEF IInv, RequestsMatch, OneCommand, RollbackIsLast, AcceptanceCalls, StartCalls
<1>6. PlacesMatch'
  BY <1>1, <1>2, <1>3, ProcType DEF IInv, PlacesMatch, Once, Step
<1>7. NeedsAreMet'
  BY <1>1, <1>2, <1>3, <1>4 DEF IInv, NeedsAreMet, Needs
<1>8. HostIsThere' /\ AcceptanceDrained' /\ EvidenceChain' /\ NodeOpensLast'
  BY <1>1, <1>3, <1>4 DEF IInv, HostIsThere, AcceptanceDrained, EvidenceChain, NodeOpensLast
<1>9. QED
  BY <1>5, <1>6, <1>7, <1>8 DEF IInv

-----------------------------------------------------------------------------
LEMMA InitIInv == Init => IInv
<1> SUFFICES ASSUME Init PROVE IInv
  OBVIOUS
<1>1. /\ \A a \in Actor : /\ proc[a].at = "IDLE" /\ proc[a].step = "stage"
                          /\ proc[a].req = None /\ proc[a].reply = "NONE"
      /\ \A s \in Step : op[s] = "NONE"
      /\ \A r \in Request : calls[r] = "NONE"
  BY DEF Init, Idle
<1>2. TypeOK
  <2>1. op \in [Step -> Status] /\ portal \in Portal /\ reopen \in BOOLEAN
    BY DEF Init, Status, Portal
  <2>2. proc \in [Actor -> Command] /\ calls \in [Request -> {"NONE"} \cup Step \cup Undo]
    BY IdleType DEF Init
  <2>3. host \in HostStates
    BY DEF Init, HostStates
  <2>4. faults \in 0..MaxFaults /\ runs \in 0..MaxRuns
    BY PilotAssumption DEF Init
  <2>5. QED
    BY <2>1, <2>2, <2>3, <2>4 DEF TypeOK, Command, Places, Past
<1>3. RequestsMatch /\ PlacesMatch /\ OneCommand /\ AcceptanceDrained
  BY <1>1 DEF RequestsMatch, PlacesMatch, OneCommand, AcceptanceDrained, Past, Once
<1>4. NeedsAreMet
  BY <1>1 DEF NeedsAreMet, Needs
<1>5. HostIsThere /\ RollbackIsLast /\ AcceptanceCalls /\ StartCalls
  BY <1>1 DEF HostIsThere, RollbackIsLast, AcceptanceCalls, StartCalls, Init, Step
<1>6. EvidenceChain /\ NodeOpensLast
  BY <1>1 DEF EvidenceChain, NodeOpensLast, Init, Step
<1>7. QED
  BY <1>2, <1>3, <1>4, <1>5, <1>6 DEF IInv

(* A command up to its call.                                               *)
LEMMA StartsPreserve ==
    ASSUME IInv, TypeOK', NEW a \in Actor,
           (\E s \in Step : Load(a, s)) \/ Resume(a)
    PROVE  IInv'
<1>1. CASE \E s \in Step : Load(a, s)
  <2>1. PICK s \in Step : Load(a, s)
    BY <1>1
  <2> DEFINE c == [Idle EXCEPT !.at = "LOADED", !.step = s]
  <2>2. /\ c \in Command /\ c.at = "LOADED" /\ c.step = s /\ c.req = None /\ c.reply = "NONE"
        /\ "LOADED" \notin Past
    BY IdleType DEF Idle, Command, Places, Past
  <2>3. Needs(s)
    BY <2>1 DEF IInv, EvidenceChain, Load, May, MayActivate, MayRecordClients, MayAccept, MayStart,
                AcceptedBaseline, ActiveBaseline, ActivateBindings, Needs, Step
  <2>4. /\ proc' = [proc EXCEPT ![a] = c]
        /\ op' = op /\ portal' = portal /\ calls' = calls /\ host' = host
    BY <2>1 DEF Load
  <2> HIDE DEF c
  <2>5. QED
    BY <2>2, <2>3, <2>4, MovesPreserve
<1>2. CASE Resume(a)
  <2> DEFINE c == [Idle EXCEPT !.at = "QUEUED", !.step = "stage"]
  <2>1. /\ c \in Command /\ c.at = "QUEUED" /\ c.step = "stage" /\ c.req = None
        /\ c.reply = "NONE" /\ "stage" \notin Once
    BY IdleType DEF Idle, Command, Places, Past, Step, Once
  <2>2. Needs(c.step)
    BY <2>1 DEF Needs
  <2>3. /\ proc' = [proc EXCEPT ![a] = c]
        /\ op' = op /\ portal' = portal /\ calls' = calls /\ host' = host
    BY <1>2 DEF Resume
  <2> HIDE DEF c
  <2>4. QED
    BY <2>1, <2>2, <2>3, MovesPreserve
<1>3. QED
  BY <1>1, <1>2

LEMMA GoesPreserves ==
    ASSUME IInv, TypeOK', NEW a \in Actor, NEW at \in Places, Goes(a, at),
           \/ proc[a].at = "LOADED" /\ at = "READY"
           \/ proc[a].at = "QUEUED" /\ at = "STARTING",
           op' = op, portal' = portal, calls' = calls, host' = host
    PROVE  IInv'
<1> DEFINE c == [proc[a] EXCEPT !.at = at]
<1>1. proc[a] \in Command
  BY ProcType DEF IInv
<1>2. /\ c \in Command /\ c.at = at /\ c.step = proc[a].step /\ c.req = proc[a].req
      /\ c.reply = proc[a].reply
  BY <1>1 DEF Command
<1>3. proc' = [proc EXCEPT ![a] = c]
  BY ProcType DEF IInv, Goes
<1> HIDE DEF c
<1>4. c.req = None
  BY <1>2 DEF IInv, RequestsMatch
<1>5. Needs(c.step)
  BY <1>2 DEF IInv, NeedsAreMet
<1>6. /\ c.at # "IDLE" /\ c.at # "UNDOING"
      /\ c.at \in Past => proc[a].at = "QUEUED" /\ c.at = "STARTING"
  BY <1>2 DEF Past
<1>7. QED
  BY <1>2, <1>3, <1>4, <1>5, <1>6, MovesPreserve

(* The answer and what a command records of it.                            *)
LEMMA RecordsPreserve ==
    ASSUME IInv, TypeOK', NEW a \in Actor,
           \/ StageSucceeds(a) \/ StageFails(a) \/ StageIsRejected(a)
           \/ ActivateSucceeds(a) \/ ActivateFails(a) \/ ActivateUndone(a)
           \/ ClientsSucceed(a) \/ ClientsFail(a)
           \/ AcceptanceSucceeds(a) \/ AcceptanceFails(a) \/ BaselineChanged(a)
           \/ StartSucceeds(a) \/ StartFails(a)
    PROVE  IInv'
<1> USE DEF At
<1>1. "stage" \notin Once /\ "stage" \in Step /\ Once \subseteq Step
  BY DEF Once, Step
<1>2. /\ proc[a].step \in Once /\ proc[a].at = "WAITING" => op[proc[a].step] = "RUNNING"
      /\ proc[a].step = "activate" /\ proc[a].at = "UNDOING" => op["activate"] = "RUNNING"
  BY DEF IInv, PlacesMatch, Once, Step
<1>3. CASE StageFails(a) \/ StageIsRejected(a)
  <2>1. /\ proc[a].step = "stage" /\ proc[a].at = "WAITING" /\ Ends(a)
        /\ portal' = portal /\ calls' = calls /\ host' = host
    BY <1>3 DEF StageFails, StageIsRejected, Answered
  <2>2. \/ op' = op
        \/ \E x \in {"FAILED", "ROLLED_BACK"} : op' = [op EXCEPT !["stage"] = x]
    BY <1>3 DEF StageFails, StageIsRejected, Sets
  <2>3. QED
    BY <1>1, <2>1, <2>2, QuitsPreserve, FailsPreserve
<1>4. CASE ActivateFails(a) \/ ActivateUndone(a) \/ ClientsFail(a) \/ AcceptanceFails(a)
  <2>1. /\ proc[a].step \in Once /\ proc[a].at \in {"WAITING", "UNDOING"} /\ Ends(a)
        /\ op[proc[a].step] = "RUNNING"
        /\ portal' = portal /\ calls' = calls /\ host' = host
    BY <1>2, <1>4 DEF ActivateFails, ActivateUndone, ClientsFail, AcceptanceFails, Answered,
                      Once, Step
  <2>2. \E x \in {"FAILED", "ROLLED_BACK"} :
          /\ op' = [op EXCEPT ![proc[a].step] = x]
          /\ proc[a].step = "acceptance" /\ x = "ROLLED_BACK" =>
               proc[a].at = "WAITING" /\ proc[a].reply = "DRAIN_RESTORED"
    BY <1>4 DEF ActivateFails, ActivateUndone, ClientsFail, AcceptanceFails, Answered, Sets
  <2>3. proc[a].step = "acceptance" /\ proc[a].at = "WAITING" /\ proc[a].reply = "DRAIN_RESTORED"
          => /\ host.node = "DRAIN" \/ op["start"] \in Begun
             /\ \A r \in Request : calls[r] # "acceptance"
    BY DEF IInv, AcceptanceDrained, AcceptanceCalls, Past
  <2>4. PICK x \in {"FAILED", "ROLLED_BACK"} :
          /\ op' = [op EXCEPT ![proc[a].step] = x]
          /\ proc[a].step = "acceptance" /\ x = "ROLLED_BACK" =>
               /\ host.node = "DRAIN" \/ op["start"] \in Begun
               /\ \A r \in Request : calls[r] # "acceptance"
    BY <2>2, <2>3
  <2>5. QED
    BY <1>1, <2>1, <2>4, FailsPreserve
<1>5. CASE BaselineChanged(a)
  BY <1>5, QuitsPreserve DEF BaselineChanged
<1>6. CASE StartFails(a)
  <2>1. /\ proc[a].step = "start" /\ proc[a].at \in {"WAITING", "UNDOING"} /\ Ends(a)
        /\ portal' = portal /\ calls' = calls /\ host' = host
        /\ "start" \in Step /\ "start" \in Once
    BY <1>6 DEF StartFails, Answered, Once, Step
  <2>2. CASE op["start"] = "RUNNING"
    <3>1. PICK x \in {"FAILED", "ROLLED_BACK"} : op' = [op EXCEPT !["start"] = x]
      BY <1>6, <2>2 DEF StartFails, MarkFailed
    <3>2. QED
      BY <2>1, <2>2, <3>1, FailsPreserve
  <2>3. CASE op["start"] # "RUNNING"
    BY <1>6, <2>1, <2>3, QuitsPreserve DEF StartFails, MarkFailed
  <2>4. QED
    BY <2>2, <2>3
<1>7. CASE ActivateSucceeds(a)
  BY <1>7, ActivatePersists DEF ActivateSucceeds
<1>8. QED
  BY <1>3, <1>4, <1>5, <1>6, <1>7, StagePersists, LaterPersists

(* The requests, and the commits that fail after the answer.               *)
LEMMA RequestsPreserve ==
    ASSUME IInv, TypeOK', NEW a \in Actor,
           \/ CallWorker(a) \/ ActivateIsUndone(a) \/ StartIsUndone(a)
           \/ ActivateCommitFails(a) \/ StartCommitFails(a)
    PROVE  IInv'
<1> USE DEF At
<1>1. /\ proc[a].step \in Step /\ op \in [Step -> Status] /\ portal \in Portal
      /\ {"WAITING", "UNDOING"} \subseteq Places /\ Undo = {"rollback", "drain"}
  BY ProcType DEF IInv, TypeOK, Command, Places, Past, Undo
<1>2. portal' = portal /\ op' = op => EvidenceChain'
  BY DEF IInv, EvidenceChain
<1>3. CASE CallWorker(a)
  BY <1>1, <1>2, <1>3, SendsPreserve DEF CallWorker
<1>4. CASE ActivateIsUndone(a)
  <2>1. proc[a].step = "activate" /\ proc[a].at = "WAITING"
    BY <1>4 DEF ActivateIsUndone, Answered
  <2>2. QED
    BY <1>1, <1>2, <1>4, <2>1, SendsPreserve DEF ActivateIsUndone
<1>5. CASE StartIsUndone(a)
  <2>1. proc[a].step = "start" /\ proc[a].at = "WAITING"
    BY <1>5 DEF StartIsUndone, Answered
  <2>2. QED
    BY <1>1, <1>2, <1>5, <2>1, SendsPreserve DEF StartIsUndone
<1>6. CASE ActivateCommitFails(a)
  <2>1. /\ Answered(a, "activate", {"SUCCEEDED"})
        /\ proc[a].step = "activate" /\ proc[a].at = "WAITING" /\ op["activate"] = "RUNNING"
        /\ host' = host
    BY <1>6 DEF ActivateCommitFails, Answered, IInv, PlacesMatch, Once, Step
  <2>2. CASE UNCHANGED <<op, portal>>
    <3>1. Sends(a, "rollback", "UNDOING")
      BY <1>6, <2>1, <2>2 DEF ActivateCommitFails, DurablySucceeded
    <3>2. QED
      BY <1>1, <1>2, <2>1, <2>2, <3>1, SendsPreserve
  <2>3. CASE /\ portal' = [portal EXCEPT !.managed = "ACTIVE", !.key = "INSTALLED",
                                         !.clients = FALSE, !.accepted = FALSE]
             /\ Sets("activate", "SUCCEEDED")
    <3>1. DurablySucceeded
      BY <1>1, <2>3 DEF DurablySucceeded, Sets, Step
    <3>2. Ends(a) /\ calls' = calls
      BY <1>6, <3>1 DEF ActivateCommitFails
    <3>3. QED
      BY <2>1, <2>3, <3>2, ActivatePersists
  <2>4. QED
    BY <1>6, <2>2, <2>3 DEF ActivateCommitFails
<1>7. CASE StartCommitFails(a)
  <2>1. /\ proc[a].step = "start" /\ proc[a].at = "WAITING"
        /\ Sends(a, "drain", "UNDOING") /\ host' = host
    BY <1>7 DEF StartCommitFails, Answered
  <2>2. CASE UNCHANGED <<op, portal>>
    BY <1>1, <1>2, <2>1, <2>2, SendsPreserve
  <2>3. CASE portal' = [portal EXCEPT !.pilot = TRUE] /\ Sets("start", "SUCCEEDED")
    <3>1. /\ op'["start"] = "SUCCEEDED" /\ op'["activate"] = op["activate"]
          /\ op'["clients"] = op["clients"] /\ op'["acceptance"] = op["acceptance"]
      BY <1>1, <2>3 DEF Sets, Step
    <3>2. /\ portal'.managed = portal.managed /\ portal'.key = portal.key
          /\ portal'.clients = portal.clients /\ portal'.accepted = portal.accepted
          /\ portal'.pilot = TRUE
      BY <1>1, <2>3 DEF Portal
    <3>3. EvidenceChain'
      BY <3>1, <3>2 DEF IInv, EvidenceChain
    <3>4. QED
      BY <1>1, <2>1, <2>3, <3>2, <3>3, SendsPreserve DEF Sets
  <2>4. QED
    BY <1>7, <2>2, <2>3 DEF StartCommitFails
<1>8. QED
  BY <1>3, <1>4, <1>5, <1>6, <1>7

LEMMA NextIInv == IInv /\ [Next]_vars => IInv'
<1> SUFFICES ASSUME IInv, [Next]_vars
             PROVE  IInv'
  OBVIOUS
<1>1. CASE UNCHANGED vars
  BY <1>1 DEF vars, IInv, TypeOK, RequestsMatch, PlacesMatch, OneCommand, NeedsAreMet, Needs,
              HostIsThere, RollbackIsLast, AcceptanceCalls, StartCalls, AcceptanceDrained,
              EvidenceChain, NodeOpensLast
<1>2. CASE Next
  <2>1. TypeOK'
    BY <1>2, TypeStep DEF IInv
  <2>2. ASSUME NEW a \in Actor, Preflighted(a) \/ LoadQueued(a)
        PROVE  IInv'
    <3>1. CASE Preflighted(a)
      BY <2>1, <3>1, GoesPreserves, QuitsPreserve DEF Preflighted, At, Places
    <3>2. CASE LoadQueued(a)
      BY <2>1, <3>2, GoesPreserves, QuitsPreserve DEF LoadQueued, At, Places, Past
    <3>3. QED
      BY <2>2, <3>1, <3>2
  <2>3. ASSUME NEW a \in Actor, CommitQueued(a) \/ CommitRunning(a)
        PROVE  IInv'
    <3>1. proc[a].step \in Step
      BY ProcType DEF IInv, Command
    <3>2. CASE CommitQueued(a)
      BY <2>1, <3>1, <3>2, CommitsPreserve, QuitsPreserve DEF CommitQueued, At
    <3>3. CASE CommitRunning(a)
      BY <2>1, <3>1, <3>3, CommitsPreserve DEF CommitRunning, At
    <3>4. QED
      BY <2>3, <3>2, <3>3
  <2>4. ASSUME NEW a \in Actor, TimesOut(a)
        PROVE  IInv'
    <3> DEFINE c == [proc[a] EXCEPT !.reply = "LOST", !.req = None]
    <3>1. proc[a] \in Command /\ proc[a].req # None
      BY <2>4, ProcType DEF IInv, TimesOut
    <3>2. /\ c \in Command /\ c.at = proc[a].at /\ c.step = proc[a].step
          /\ c.req = None /\ c.reply = "LOST"
      BY <3>1 DEF Command, Replied
    <3>3. /\ proc' = [proc EXCEPT ![a] = c]
          /\ op' = op /\ portal' = portal /\ calls' = calls /\ host' = host
      BY <2>4, ProcType DEF IInv, TimesOut
    <3> HIDE DEF c
    <3>4. c.at # "IDLE" /\ Needs(c.step)
      BY <3>1, <3>2 DEF IInv, RequestsMatch, NeedsAreMet
    <3>5. QED
      BY <2>1, <3>2, <3>3, <3>4, MovesPreserve
  <2>5. ASSUME NEW a \in Actor, Dies(a)
        PROVE  IInv'
    BY <2>1, <2>5, QuitsPreserve DEF Dies
  <2>6. ASSUME NEW r \in Request, WorkerHandles(r) \/ WorkerFails(r)
        PROVE  IInv'
    BY <2>1, <2>6, HandlesPreserve DEF WorkerHandles, WorkerFails
  <2>7. QED
    BY <1>2, <2>1, <2>2, <2>3, <2>4, <2>5, <2>6, PreparesPreserve, StartsPreserve,
       RecordsPreserve, RequestsPreserve DEF Next, Advances
<1>3. QED
  BY <1>1, <1>2

-----------------------------------------------------------------------------
(* The theorems.                                                           *)

(* Every reachable state of PilotLifecycle satisfies the inductive         *)
(* invariant.                                                              *)
THEOREM Invariance == Spec => []IInv
<1>1. Init => IInv
  BY InitIInv
<1>2. IInv /\ [Next]_vars => IInv'
  BY NextIInv
<1>3. QED
  BY <1>1, <1>2, PTL DEF Spec

(* The rows, the commands, the requests and the host keep their types.     *)
THEOREM TypeCorrect == Spec => []TypeOK
<1>1. IInv => TypeOK
  BY DEF IInv
<1>2. QED
  BY <1>1, Invariance, PTL

(* An identity that the portal calls ACTIVE is active on the host, one it  *)
(* calls STAGED exists, whatever was lost or killed and however late a     *)
(* rollback comes.                                                         *)
THEOREM PortalFollowsHost == Spec => []PortalIsNotAhead
<1>1. IInv => PortalIsNotAhead
  BY DEF IInv, EvidenceChain, HostIsThere, PortalIsNotAhead, Present
<1>2. QED
  BY <1>1, Invariance, PTL

(* What the rows of the identity say fits the operations on record.        *)
THEOREM EvidenceHolds == Spec => []EvidenceChain
<1>1. IInv => EvidenceChain
  BY DEF IInv
<1>2. QED
  BY <1>1, Invariance, PTL

(* The node is open only on account of a Start, or of an Acceptance that   *)
(* is under way or on record as failed.                                    *)
THEOREM NodeIsOpenedLast == Spec => []NodeOpensLast
<1>1. IInv => NodeOpensLast
  BY DEF IInv
<1>2. QED
  BY <1>1, Invariance, PTL

-----------------------------------------------------------------------------
(* The four operations are the gates of PilotGates.  The first that has    *)
(* not succeeded is the one that is tried.                                 *)

First(k) ==
    /\ \A i \in 1..4 : i < k => op[Gate[i]] = "SUCCEEDED"
    /\ k <= 4 => op[Gate[k]] # "SUCCEEDED"

Tried(status) == IF status \in {"FAILED", "ROLLED_BACK"} THEN "STOPPED" ELSE status

GatesAreAt ==
    \A k \in 1..5 : First(k) =>
        /\ GatesPassed = k - 1
        /\ GateTried = IF k = 5 THEN "NONE" ELSE Tried(op[Gate[k]])

LEMMA GateNames ==
    /\ Gate[1] = "activate" /\ Gate[2] = "clients" /\ Gate[3] = "acceptance" /\ Gate[4] = "start"
    /\ \A i \in 1..4 : i = 1 \/ i = 2 \/ i = 3 \/ i = 4
    /\ \A i \in 1..4 : Gate[i] \in Once /\ Gate[i] \in Step
    /\ \A i, j \in 1..4 : Gate[i] = Gate[j] => i = j
    /\ \A s \in Once : \E i \in 1..4 : s = Gate[i]
BY DEF Gate, Once, Step

LEMMA GateOrder ==
    IInv => \A i, j \in 1..4 : j < i /\ op[Gate[i]] # "NONE" => op[Gate[j]] = "SUCCEEDED"
<1> SUFFICES ASSUME IInv
             PROVE  \A i, j \in 1..4 : j < i /\ op[Gate[i]] # "NONE" => op[Gate[j]] = "SUCCEEDED"
  OBVIOUS
<1>1. /\ op["clients"] # "NONE" => op["activate"] = "SUCCEEDED"
      /\ op["acceptance"] # "NONE" => op["clients"] = "SUCCEEDED"
      /\ op["start"] # "NONE" => op["acceptance"] = "SUCCEEDED"
  BY DEF IInv, NeedsAreMet, Needs, Step
<1>2. QED
  BY <1>1, GateNames

LEMMA GatesAt ==
    IInv => GatesAreAt
<1> SUFFICES ASSUME IInv, NEW k \in 1..5, First(k)
             PROVE  /\ GatesPassed = k - 1
                    /\ GateTried = IF k = 5 THEN "NONE" ELSE Tried(op[Gate[k]])
  BY DEF GatesAreAt
<1>1. \A n \in 0..4 : Passed(n) <=> n < k
  BY DEF First, Passed
<1>2. \A n \in 0..4 : Passed(n) /\ (n < 4 => ~Passed(n + 1)) <=> n = k - 1
  BY <1>1
<1>3. GatesPassed = k - 1
  BY <1>2 DEF GatesPassed
<1>4. ~\E i \in 1..4 : i > k /\ op[Gate[i]] # "NONE"
  BY GateOrder DEF First
<1>5. GateTried = IF k > 4 THEN "NONE" ELSE Tried(op[Gate[k]])
  BY <1>3, <1>4 DEF GateTried, Tried
<1>6. QED
  BY <1>3, <1>5

LEMMA FirstExists == \E k \in 1..5 : First(k)
<1>1. CASE op[Gate[1]] # "SUCCEEDED"
  BY <1>1 DEF First
<1>2. CASE op[Gate[1]] = "SUCCEEDED" /\ op[Gate[2]] # "SUCCEEDED"
  BY <1>2 DEF First
<1>3. CASE op[Gate[1]] = "SUCCEEDED" /\ op[Gate[2]] = "SUCCEEDED" /\ op[Gate[3]] # "SUCCEEDED"
  BY <1>3 DEF First
<1>4. CASE op[Gate[1]] = "SUCCEEDED" /\ op[Gate[2]] = "SUCCEEDED" /\ op[Gate[3]] = "SUCCEEDED"
  BY <1>4 DEF First
<1>5. QED
  BY <1>1, <1>2, <1>3, <1>4

(* What one step does to the operations that are created by their command. *)
LEMMA OnceStep ==
    ASSUME IInv, Next
    PROVE  \/ \A t \in Once : op'[t] = op[t]
           \/ \E s \in Once :
                /\ \A t \in Once : t # s => op'[t] = op[t]
                /\ \/ op[s] = "NONE" /\ op'[s] = "QUEUED"
                   \/ op[s] = "QUEUED" /\ op'[s] = "RUNNING"
                   \/ op[s] = "RUNNING" /\ op'[s] \in Final
<1> DEFINE Same == \A t \in Once : op'[t] = op[t]
           Changes(s) == /\ \A t \in Once : t # s => op'[t] = op[t]
                         /\ \/ op[s] = "NONE" /\ op'[s] = "QUEUED"
                            \/ op[s] = "QUEUED" /\ op'[s] = "RUNNING"
                            \/ op[s] = "RUNNING" /\ op'[s] \in Final
<1>1. op \in [Step -> Status] /\ Once \subseteq Step /\ "stage" \notin Once
  BY DEF IInv, TypeOK, Once
<1>2. op' = op => Same
  OBVIOUS
<1>3. \A x : op' = [op EXCEPT !["stage"] = x] => Same
  BY <1>1
<1>4. \A s \in Once : \A x : op' = [op EXCEPT ![s] = x] =>
        /\ op'[s] = x
        /\ \A t \in Once : t # s => op'[t] = op[t]
  BY <1>1
<1>5. \A a \in Actor :
        /\ proc[a].step \in Step /\ proc[a].step # "stage" => proc[a].step \in Once
        /\ proc[a].step \in Once /\ proc[a].at = "STARTING" => op[proc[a].step] = "QUEUED"
        /\ proc[a].step \in Once /\ proc[a].at = "WAITING" => op[proc[a].step] = "RUNNING"
        /\ proc[a].step = "activate" /\ proc[a].at = "UNDOING" => op["activate"] = "RUNNING"
  BY ProcType DEF IInv, PlacesMatch, Command, Once, Step
<1>6. {"activate", "clients", "acceptance", "start"} \subseteq Once
  BY DEF Once, Step
<1> HIDE DEF Same, Changes
<1>7. ASSUME DraftStage \/ KeyEnrolled \/ RevalidateActivate
      PROVE  Same
  BY <1>2, <1>3, <1>7 DEF DraftStage, KeyEnrolled, RevalidateActivate
<1>8. ASSUME NEW a \in Actor,
             \/ \E s \in Step : Load(a, s)
             \/ Resume(a) \/ Preflighted(a) \/ LoadQueued(a) \/ CallWorker(a)
             \/ ActivateIsUndone(a) \/ StartIsUndone(a) \/ BaselineChanged(a)
             \/ TimesOut(a) \/ Dies(a)
      PROVE  Same
  BY <1>2, <1>8 DEF Load, Resume, Preflighted, LoadQueued, CallWorker, ActivateIsUndone,
                    StartIsUndone, BaselineChanged, TimesOut, Dies
<1>9. ASSUME NEW a \in Actor, CommitQueued(a)
      PROVE  Same \/ \E s \in Once : Changes(s)
  <2>1. CASE proc[a].step = "stage"
    BY <1>2, <1>3, <1>9, <2>1 DEF CommitQueued
  <2>2. CASE proc[a].step # "stage"
    <3>1. proc[a].step \in Once
      BY <1>5, <2>2, ProcType DEF IInv, Command
    <3>2. CASE Inserts(proc[a].step)
      <4>1. op[proc[a].step] = "NONE" /\ op' = [op EXCEPT ![proc[a].step] = "QUEUED"]
        BY <1>9, <3>1, <3>2 DEF CommitQueued, Inserts
      <4>2. Changes(proc[a].step)
        BY <1>4, <3>1, <4>1 DEF Changes
      <4>3. QED
        BY <3>1, <4>2
    <3>3. CASE ~Inserts(proc[a].step)
      BY <1>2, <1>9, <3>3 DEF CommitQueued
    <3>4. QED
      BY <3>2, <3>3
  <2>3. QED
    BY <2>1, <2>2
<1>10. ASSUME NEW a \in Actor, CommitRunning(a)
       PROVE  Same \/ \E s \in Once : Changes(s)
  <2>1. CASE proc[a].step = "stage"
    BY <1>3, <1>10, <2>1 DEF CommitRunning
  <2>2. CASE proc[a].step # "stage"
    <3>1. proc[a].step \in Once
      BY <1>5, <2>2, ProcType DEF IInv, Command
    <3>2. op[proc[a].step] = "QUEUED" /\ op' = [op EXCEPT ![proc[a].step] = "RUNNING"]
      BY <1>5, <1>10, <3>1 DEF CommitRunning, At
    <3>3. Changes(proc[a].step)
      BY <1>4, <3>1, <3>2 DEF Changes
    <3>4. QED
      BY <3>1, <3>3
  <2>3. QED
    BY <2>1, <2>2
<1>11. ASSUME NEW a \in Actor, StageSucceeds(a) \/ StageFails(a) \/ StageIsRejected(a)
       PROVE  Same
  BY <1>2, <1>3, <1>11 DEF StageSucceeds, StageFails, StageIsRejected, Sets
<1>12. ASSUME NEW a \in Actor,
              \/ ActivateSucceeds(a) \/ ActivateFails(a) \/ ActivateUndone(a)
              \/ ClientsSucceed(a) \/ ClientsFail(a)
              \/ AcceptanceSucceeds(a) \/ AcceptanceFails(a) \/ StartSucceeds(a)
       PROVE  \E s \in Once : Changes(s)
  <2>1. /\ proc[a].step \in {"activate", "clients", "acceptance", "start"}
        /\ op[proc[a].step] = "RUNNING"
    BY <1>5, <1>6, <1>12
       DEF ActivateSucceeds, ActivateFails, ActivateUndone, ClientsSucceed, ClientsFail,
           AcceptanceSucceeds, AcceptanceFails, StartSucceeds, Answered, At
  <2>2. \E x \in Final : op' = [op EXCEPT ![proc[a].step] = x]
    BY <1>12
       DEF ActivateSucceeds, ActivateFails, ActivateUndone, ClientsSucceed, ClientsFail,
           AcceptanceSucceeds, AcceptanceFails, StartSucceeds, Answered, Sets, Final
  <2>3. QED
    <3>1. proc[a].step \in Once
      BY <1>6, <2>1
    <3>2. Changes(proc[a].step)
      BY <1>4, <2>1, <2>2, <3>1 DEF Changes
    <3>3. QED
      BY <3>1, <3>2
<1>13. ASSUME NEW a \in Actor, ActivateCommitFails(a) \/ StartCommitFails(a)
       PROVE  Same \/ \E s \in Once : Changes(s)
  <2>1. /\ proc[a].step \in {"activate", "start"}
        /\ op[proc[a].step] = "RUNNING"
    BY <1>5, <1>6, <1>13 DEF ActivateCommitFails, StartCommitFails, Answered, At
  <2>2. op' = op \/ op' = [op EXCEPT ![proc[a].step] = "SUCCEEDED"]
    BY <1>13 DEF ActivateCommitFails, StartCommitFails, Answered, Sets
  <2>3. QED
    BY <1>2, <1>4, <1>6, <2>1, <2>2 DEF Changes, Final
<1>14. ASSUME NEW a \in Actor, StartFails(a)
       PROVE  Same \/ \E s \in Once : Changes(s)
  <2>1. \/ op' = op
        \/ op["start"] = "RUNNING" /\ \E x \in Final : op' = [op EXCEPT !["start"] = x]
    BY <1>14 DEF StartFails, MarkFailed, Final
  <2>2. QED
    BY <1>2, <1>4, <1>6, <2>1 DEF Changes
<1>15. ASSUME NEW r \in Request, WorkerHandles(r) \/ WorkerFails(r)
       PROVE  Same
  BY <1>2, <1>15 DEF WorkerHandles, WorkerFails, Handles
<1>16. Same \/ \E s \in Once : Changes(s)
  <2>1. ASSUME NEW a \in Actor, Advances(a)
        PROVE  Same \/ \E s \in Once : Changes(s)
    BY <1>8, <1>9, <1>10, <1>11, <1>12, <1>14, <2>1 DEF Advances
  <2>2. QED
    <3>1. ASSUME NEW a \in Actor,
                 \/ \E s \in Step : Load(a, s)
                 \/ Resume(a) \/ Advances(a)
                 \/ StageIsRejected(a) \/ ActivateCommitFails(a) \/ StartCommitFails(a)
                 \/ TimesOut(a) \/ Dies(a)
          PROVE  Same \/ \E s \in Once : Changes(s)
      <4>1. CASE (\E s \in Step : Load(a, s)) \/ Resume(a) \/ TimesOut(a) \/ Dies(a)
        BY <1>8, <4>1
      <4>2. CASE StageIsRejected(a) \/ ActivateCommitFails(a) \/ StartCommitFails(a)
        BY <1>11, <1>13, <4>2
      <4>3. QED
        BY <2>1, <3>1, <4>1, <4>2
    <3>2. QED
      BY <1>7, <1>15, <3>1 DEF Next
<1>17. QED
  BY <1>16 DEF Same, Changes

LEMMA GatesInit == Init => Gates!Init
<1> SUFFICES ASSUME Init PROVE Gates!Init
  OBVIOUS
<1>1. \A i \in 1..4 : op[Gate[i]] = "NONE"
  BY GateNames DEF Init
<1>2. First(1)
  BY <1>1 DEF First
<1>3. GatesPassed = 0 /\ GateTried = "NONE"
  BY <1>1, <1>2, InitIInv, GatesAt DEF GatesAreAt, Tried
<1>4. QED
  BY <1>3 DEF Gates!Init

LEMMA GatesStep == IInv /\ IInv' /\ [Next]_vars => [Gates!Next]_(Gates!gates)
<1> SUFFICES ASSUME IInv, IInv', [Next]_vars
             PROVE  [Gates!Next]_(Gates!gates)
  OBVIOUS
<1>1. PICK k \in 1..5 : First(k)
  BY FirstExists
<1>2. /\ GatesPassed = k - 1
      /\ GateTried = IF k = 5 THEN "NONE" ELSE Tried(op[Gate[k]])
  BY <1>1, GatesAt DEF GatesAreAt
<1>3. (\A m \in 1..5 : First(m) =>
         /\ GatesPassed = m - 1
         /\ GateTried = IF m = 5 THEN "NONE" ELSE Tried(op[Gate[m]]))'
  <2>1. (IInv => GatesAreAt)'
    BY GatesAt, PTL
  <2>2. QED
    BY <2>1 DEF GatesAreAt
<1>4. (\A i, j \in 1..4 : j < i /\ op[Gate[i]] # "NONE" => op[Gate[j]] = "SUCCEEDED")'
  <2>1. (IInv => \A i, j \in 1..4 : j < i /\ op[Gate[i]] # "NONE" => op[Gate[j]] = "SUCCEEDED")'
    BY GateOrder, PTL
  <2>2. QED
    BY <2>1
<1>5. CASE \A t \in Once : op'[t] = op[t]
  <2>1. \A i \in 1..4 : op'[Gate[i]] = op[Gate[i]]
    BY <1>5, GateNames
  <2>2. First(k)'
    BY <1>1, <2>1 DEF First
  <2>3. GatesPassed' = GatesPassed /\ GateTried' = GateTried
    BY <1>2, <1>3, <2>1, <2>2
  <2>4. QED
    BY <2>3 DEF Gates!gates
<1>6. ASSUME NEW s \in Once,
             \A t \in Once : t # s => op'[t] = op[t],
             \/ op[s] = "NONE" /\ op'[s] = "QUEUED"
             \/ op[s] = "QUEUED" /\ op'[s] = "RUNNING"
             \/ op[s] = "RUNNING" /\ op'[s] \in Final
      PROVE  [Gates!Next]_(Gates!gates)
  <2>1. PICK i \in 1..4 : s = Gate[i]
    BY GateNames
  <2>2. \A j \in 1..4 : j # i => op'[Gate[j]] = op[Gate[j]]
    BY <1>6, <2>1, GateNames
  <2>3. op[Gate[i]] # "SUCCEEDED" /\ op'[Gate[i]] # "NONE"
    BY <1>6, <2>1 DEF Final
  <2>4. i = k
    <3>1. ~(i < k)
      BY <1>1, <2>3 DEF First
    <3>2. ~(k < i)
      <4> SUFFICES ASSUME k < i PROVE FALSE
        OBVIOUS
      <4>1. k \in 1..4
        OBVIOUS
      <4>2. op'[Gate[k]] = "SUCCEEDED" /\ op'[Gate[k]] = op[Gate[k]]
        BY <1>4, <2>2, <2>3, <4>1
      <4>3. QED
        BY <1>1, <4>1, <4>2 DEF First
    <3>3. QED
      BY <3>1, <3>2
  <2>5. \A j \in 1..4 : j > k => op[Gate[j]] # "SUCCEEDED"
    BY <1>1, <2>4, GateOrder DEF First
  <2>6. GateTried = Tried(op[Gate[k]]) /\ k < 5
    BY <1>2, <2>4
  <2>7. CASE op'[s] = "SUCCEEDED"
    <3>1. First(k + 1)'
      BY <1>1, <2>1, <2>2, <2>4, <2>5, <2>7 DEF First
    <3>2. GatesPassed' = k
      BY <1>3, <2>6, <3>1
    <3>3. GateTried' = "NONE"
      <4>1. CASE k = 4
        BY <1>3, <3>1, <4>1
      <4>2. CASE k < 4
        <5>1. op[Gate[k + 1]] = "NONE"
          BY <1>1, <4>2, GateOrder DEF First
        <5>2. op'[Gate[k + 1]] = "NONE"
          BY <2>2, <2>4, <4>2, <5>1
        <5>3. GateTried' = Tried(op'[Gate[k + 1]])
          BY <1>3, <3>1, <4>2
        <5>4. QED
          BY <5>2, <5>3 DEF Tried
      <4>3. QED
        BY <2>6, <4>1, <4>2
    <3>4. GateTried = "RUNNING"
      BY <1>6, <2>1, <2>4, <2>6, <2>7 DEF Tried
    <3>5. Gates!Pass
      BY <1>2, <3>2, <3>3, <3>4 DEF Gates!Pass
    <3>6. QED
      BY <3>5 DEF Gates!Next
  <2>8. CASE op'[s] # "SUCCEEDED"
    <3>1. First(k)'
      BY <1>1, <2>1, <2>2, <2>4, <2>8 DEF First
    <3>2. GatesPassed' = GatesPassed /\ GateTried' = Tried(op'[Gate[k]])
      BY <1>2, <1>3, <2>6, <3>1
    <3>3. \/ GateTried = "NONE" /\ GateTried' = "QUEUED"
          \/ GateTried = "QUEUED" /\ GateTried' = "RUNNING"
          \/ GateTried = "RUNNING" /\ GateTried' = "STOPPED"
      BY <1>6, <2>1, <2>4, <2>6, <2>8, <3>2 DEF Tried, Final
    <3>4. Gates!Queue \/ Gates!Run \/ Gates!Stop
      BY <1>2, <2>6, <3>2, <3>3 DEF Gates!Queue, Gates!Run, Gates!Stop
    <3>5. QED
      BY <3>4 DEF Gates!Next
  <2>9. QED
    BY <2>7, <2>8
<1>7. CASE UNCHANGED vars
  BY <1>5, <1>7 DEF vars
<1>8. CASE Next
  BY <1>5, <1>6, <1>8, OnceStep
<1>9. QED
  BY <1>7, <1>8

(* Whatever the commands, crashes and late answers do, the four operations *)
(* are the gates of PilotGates: each is tried once, over the success of    *)
(* the one before it, and its outcome is final.                            *)
THEOREM GatesAreKept == Spec => GatesHold
<1>1. Init => Gates!Init
  BY GatesInit
<1>2. IInv /\ IInv' /\ [Next]_vars => [Gates!Next]_(Gates!gates)
  BY GatesStep
<1>3. QED
  BY <1>1, <1>2, Invariance, PTL DEF Spec, GatesHold, Gates!Spec
=============================================================================
