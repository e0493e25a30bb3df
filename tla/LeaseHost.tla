------------------------------ MODULE LeaseHost ------------------------------
(***************************************************************************)
(* What the Root Worker does to one owner's environment on the host.       *)
(*                                                                         *)
(* The host keeps, per owner, a lifecycle file (VERSION 4: STATUS, the     *)
(* bound LEASE_ID with its window), the Container authorized_keys file,    *)
(* which is either in place or renamed aside, and the container.  The      *)
(* Worker serves one control request at a time (CONTROL_REQUEST_LOCK), so  *)
(* each handler is one step; an operator below gives the set of outcomes   *)
(* of a handler as records of the host afterwards and the reply the caller *)
(* sees.  "LOST" is a reply that never arrives, WORKER_TIMEOUT or          *)
(* WORKER_UNAVAILABLE at the caller: the host is as before, and whether    *)
(* and when the Worker still serves the call is left to the module that    *)
(* made it.                                                                *)
(*                                                                         *)
(* The window of a lease never changes, so the file's LEASE_START and      *)
(* LEASE_EXPIRES are those of the lease it names.                          *)
(***************************************************************************)
EXTENDS Naturals

HostStates(LeaseId) ==
    [lease : LeaseId, status : {"ACTIVE", "RECYCLED"},
     keys : {"INSTALLED", "SUSPENDED"}, running : BOOLEAN]

Outcome(h, r) == [host |-> h, reply |-> r]

-----------------------------------------------------------------------------
(* resource.recycle: suspend the keys, stop the container, then retire the *)
(* lifecycle file, which must name the very lease that is being recycled.  *)

(* Mutant: the file is retired whatever lease it names.                    *)
MarkRecycledAny(h, l) == TRUE

MarkRecycledAccepts(h, l) == h.lease = l

RecycleReplies(h, l) ==
    LET stopped == [h EXCEPT !.keys = "SUSPENDED", !.running = FALSE]
    IN  IF MarkRecycledAccepts(h, l)
        THEN {Outcome([stopped EXCEPT !.status = "RECYCLED"], "SUCCEEDED")}
        ELSE {Outcome(stopped, "RETRYABLE")}

(* A check before the key suspension fails (not retryable), the container  *)
(* does not stop, or no answer comes.                                      *)
RecycleFaults(h) ==
    {Outcome(h, "REVIEW"), Outcome(h, "LOST"),
     Outcome([h EXCEPT !.keys = "SUSPENDED"], "RETRYABLE")}

-----------------------------------------------------------------------------
(* resource.restore and self.resource.restore: install the keys, bind the  *)
(* file to the attempted lease a, start.  The file must be the RECYCLED    *)
(* one of lease r.  On an error the handler suspends the keys again, puts  *)
(* the previous file back, and reports ROLLED_BACK.  A container that is   *)
(* already running is never stopped by this handler.  A payload whose      *)
(* lease is over (current is FALSE) is refused before anything is touched. *)

RestoreAccepts(h, r) == ~h.running /\ h.status = "RECYCLED" /\ h.lease = r

RestoreReplies(h, a, r, current) ==
    IF ~current THEN {Outcome(h, "ERROR")}
    ELSE IF RestoreAccepts(h, r)
    THEN {Outcome([lease |-> a, status |-> "ACTIVE",
                   keys |-> "INSTALLED", running |-> TRUE], "SUCCEEDED")}
    ELSE {Outcome([h EXCEPT !.keys = "SUSPENDED"], "ROLLED_BACK")}

(* The container fails to start, it starts wrongly and then does not stop, *)
(* or no answer comes.                                                     *)
RestoreFaults(h, r, current) ==
    LET off == [h EXCEPT !.keys = "SUSPENDED"]
    IN  {Outcome(h, "LOST")}
          \cup (IF current THEN {Outcome(off, "ROLLED_BACK")} ELSE {})
          \cup IF current /\ RestoreAccepts(h, r)
               THEN {Outcome([off EXCEPT !.running = TRUE], "ERROR")}
               ELSE {}

(* resource.restore.rollback after the portal failed to record a restore.  *)
(* The actor must be the owner, so a rollback sent in an administrator's   *)
(* name is refused before anything is touched.                             *)
RollbackAccepts(h, a, r) ==
    \/ h.status = "ACTIVE" /\ h.lease = a
    \/ h.status = "RECYCLED" /\ h.lease = r

RollbackReplies(h, a, r, owner) ==
    LET stopped == [h EXCEPT !.keys = "SUSPENDED", !.running = FALSE]
    IN  IF ~owner
        THEN {Outcome(h, "ERROR")}
        ELSE IF RollbackAccepts(h, a, r)
             THEN {Outcome([stopped EXCEPT !.lease = r, !.status = "RECYCLED"],
                           "SUCCEEDED")}
             ELSE {Outcome(stopped, "ERROR")}

RollbackFaults(h) == {Outcome(h, "LOST")}

-----------------------------------------------------------------------------
(* container.start / restart: the file must be ACTIVE and name the lease   *)
(* of the request, or a lease that is over and ends where the request's    *)
(* lease starts.  A request whose lease is over is refused before anything *)
(* is touched.  container.stop only stops the container.                   *)

BindAccepts(h, l, expires, starts, t) ==
    /\ h.status = "ACTIVE"
    /\ \/ h.lease = l
       \/ expires[h.lease] <= t /\ starts[l] = expires[h.lease]

(* Restart stops the container first; start refuses one that runs.         *)
StartReplies(h, l, expires, starts, t) ==
    (IF h.running \/ expires[l] <= t THEN {Outcome(h, "ERROR")} ELSE {})
      \cup IF expires[l] <= t THEN {}
           ELSE IF BindAccepts(h, l, expires, starts, t)
           THEN {Outcome([h EXCEPT !.lease = l, !.running = TRUE], "SUCCEEDED")}
           ELSE {Outcome([h EXCEPT !.running = FALSE], "ERROR")}

(* The start script refuses after the stop, or no answer comes.            *)
StartFaults(h, l, expires, t) ==
    {Outcome(h, "LOST")}
      \cup IF t < expires[l] THEN {Outcome([h EXCEPT !.running = FALSE], "ERROR")} ELSE {}

StopReplies(h) == {Outcome([h EXCEPT !.running = FALSE], "SUCCEEDED")}

(* No answer comes, and the stop is served now or never: one that is       *)
(* served later is the same as a stop asked for later.                     *)
StopFaults(h) == {Outcome(h, "LOST"), Outcome([h EXCEPT !.running = FALSE], "LOST")}
=============================================================================
