--------------------------- MODULE ContainerKeys ---------------------------
(***************************************************************************)
(* The SSH keys of development containers: enrolled over HTTP, staged on   *)
(* the host as files, installed in a running container by a sync, and      *)
(* compared with the portal's rows when the lease is recycled.             *)
(*                                                                         *)
(* Enrolling, syncing and recycling hold the rows of the owner, with       *)
(* nothing committed, while the Worker is at work: txn is that one         *)
(* transaction.  The caller may stop waiting, or die; the call then stays  *)
(* in the line of the Worker, which serves one request at a time and in    *)
(* any order.  A set of keys is a set of records: both sides list keys in  *)
(* the order of their rows.  A restore is one step here; LeaseLifecycle    *)
(* has its commits and its failures.                                       *)
(***************************************************************************)
EXTENDS Naturals, FiniteSets

CONSTANTS
    Owner,     \* managed users, each with one container
    Active,    \* those whose environment has been activated
    Key,       \* public keys, by fingerprint
    Rec,       \* bound: key records, given out in this order
    Limit,     \* keys a compute identity may have
    MaxLease,  \* bound: leases of an owner
    MaxFaults  \* bound: calls given up, Worker failures and crashes

ASSUME KeysAssumption ==
    /\ Active \subseteq Owner /\ IsFiniteSet(Owner) /\ IsFiniteSet(Key) /\ "NONE" \notin Key
    /\ Cardinality(Active) <= Cardinality(Key)
    /\ IsFiniteSet(Rec) /\ Rec = 1..Cardinality(Rec) /\ Cardinality(Active) <= Cardinality(Rec)
    /\ Limit \in Nat \ {0} /\ MaxLease \in Nat \ {0} /\ MaxFaults \in Nat

VARIABLES
    rows,    \* portal_ssh_keys
    portal,  \* of each owner: the environment, the lease and whether it is over
    staged,  \* the files of each record in the staging directory of the host
    host,    \* of each owner: the lifecycle file and authorized_keys
    txn,     \* of each owner: the transaction that holds its rows
    calls,   \* what the Worker has not served yet
    issued,  \* records given out so far
    faults   \* faults so far

vars == <<rows, portal, staged, host, txn, calls, issued, faults>>

-----------------------------------------------------------------------------
NoRow == [key |-> "NONE", owner |-> "NONE", state |-> "NONE"]

(* state and container_install_state of an active row, in one.             *)
Row == [key : Key, owner : Owner, state : {"VALIDATED", "INSTALLED", "SUSPENDED"}]

Environment == [state : {"STAGED", "ACTIVE", "SUSPENDED", "RECYCLED"},
                lease : 1..MaxLease, over : BOOLEAN]

(* keys is authorized_keys, open tells whether it has its own name or the  *)
(* one of the recycle bin; named is what the lifecycle file says it holds. *)
Host == [status : {"STAGED", "ACTIVE", "RECYCLED"}, lease : 1..MaxLease,
         keys : SUBSET Rec, open : BOOLEAN, named : SUBSET Rec]

(* A payload.  heard: the caller still waits; otherwise when it was left.  *)
Call == [op : {"prepare", "discard", "sync", "recycle"}, owner : Owner,
         rec : Rec \cup {0}, current : SUBSET Rec, target : SUBSET Rec,
         lease : 1..MaxLease, heard : BOOLEAN, left : 0..MaxFaults]

Replies == {"NONE", "SUCCEEDED", "ERROR", "ERROR_SUSPENDED", "LOST"}

Txn(op, key, recs, reply) == [op |-> op, key |-> key, recs |-> recs, reply |-> reply]

Idle == Txn("idle", "NONE", {}, "NONE")

(* Activation has installed the first key of an active owner.              *)
Enumerates(f) == \A o, p \in Active : f[o] = f[p] => o = p
FirstRec == CHOOSE f \in [Active -> 1..Cardinality(Active)] : Enumerates(f)
FirstKey == CHOOSE f \in [Active -> Key] : Enumerates(f)
FirstKeys(o) == IF o \in Active THEN {FirstRec[o]} ELSE {}

EnvironmentAt(o) == IF o \in Active THEN "ACTIVE" ELSE "STAGED"

Init ==
    /\ rows = [r \in Rec |->
                  IF r <= Cardinality(Active)
                  THEN LET o == CHOOSE o \in Active : FirstRec[o] = r
                       IN  [key |-> FirstKey[o], owner |-> o, state |-> "INSTALLED"]
                  ELSE NoRow]
    /\ portal = [o \in Owner |-> [state |-> EnvironmentAt(o), lease |-> 1, over |-> FALSE]]
    /\ staged = [r \in Rec |-> IF r <= Cardinality(Active) THEN "WHOLE" ELSE "ABSENT"]
    /\ host = [o \in Owner |-> [status |-> EnvironmentAt(o), lease |-> 1,
                                keys |-> FirstKeys(o), open |-> o \in Active,
                                named |-> FirstKeys(o)]]
    /\ txn = [o \in Owner |-> Idle]
    /\ calls = {}
    /\ issued = Cardinality(Active)
    /\ faults = 0

Fault == faults < MaxFaults /\ faults' = faults + 1

-----------------------------------------------------------------------------
(* What the portal reads of its own rows.                                  *)

Recorded(o) == {r \in Rec : rows[r] # NoRow /\ rows[r].owner = o}
In(o, states) == {r \in Recorded(o) : rows[r].state \in states}

(* The prefix test of the sync: no installed key is younger than a new one.*)
Prefix(current, all) == \A r \in current, s \in all \ current : r < s

Sets(recs, state) == [r \in Rec |-> IF r \in recs THEN [rows[r] EXCEPT !.state = state]
                                    ELSE rows[r]]

-----------------------------------------------------------------------------
(* Calls.                                                                  *)

Payload(op, o, r, current, target) ==
    [op |-> op, owner |-> o, rec |-> r, current |-> current, target |-> target,
     lease |-> portal[o].lease, heard |-> op # "discard", left |-> 0]

HeardBy(o) == {c \in calls : c.heard /\ c.owner = o}

Begins(o, key, recs, c) ==
    /\ txn[o] = Idle
    /\ txn' = [txn EXCEPT ![o] = Txn(c.op, key, recs, "NONE")]
    /\ calls' = calls \cup {c}

Ends(o) == txn' = [txn EXCEPT ![o] = Idle]

Answered(o, op) == txn[o].op = op /\ txn[o].reply # "NONE"

(* Mutation: no answer is not an error.                                    *)
NotRefused(reply) == reply \in {"SUCCEEDED", "LOST"}

Succeeded(reply) == reply = "SUCCEEDED"

Abandoned(o) == (calls \ HeardBy(o)) \cup
                {[c EXCEPT !.heard = FALSE, !.left = faults] : c \in HeardBy(o)}

(* The caller's time is up, or the connection breaks.                      *)
TimesOut(o) ==
    /\ txn[o] # Idle /\ txn[o].reply = "NONE" /\ Fault
    /\ txn' = [txn EXCEPT ![o].reply = "LOST"]
    /\ calls' = Abandoned(o)
    /\ UNCHANGED <<rows, portal, staged, host, issued>>

(* The API, or the expiry worker, dies, or its commit fails for another    *)
(* reason than a conflict: the transaction is rolled back, the call stays. *)
Dies(o) ==
    /\ txn[o] # Idle /\ Fault
    /\ Ends(o)
    /\ calls' = Abandoned(o)
    /\ UNCHANGED <<rows, portal, staged, host, issued>>

-----------------------------------------------------------------------------
(* enroll_ssh_key                                                          *)

MayEnroll(o, k) ==
    /\ Cardinality(Recorded(o)) < Limit
    /\ \A r \in Rec : rows[r].key # k

Enroll(o, k) ==
    /\ issued + 1 \in Rec
    /\ MayEnroll(o, k)
    /\ issued' = issued + 1
    /\ Begins(o, k, {issued + 1}, Payload("prepare", o, issued + 1, {}, {}))
    /\ UNCHANGED <<rows, portal, staged, host, faults>>

(* Mutation: only the request looks for the fingerprint.                   *)
ConflictsUnseen(k) == FALSE

(* The fingerprint is unique over all users, the lock is the owner's.      *)
Conflicts(k) == \E r \in Rec : rows[r].key = k

EnrollCommits(o) ==
    /\ Answered(o, "prepare")
    /\ Succeeded(txn[o].reply)
    /\ ~Conflicts(txn[o].key)
    /\ rows' = [r \in Rec |->
                   IF r \in txn[o].recs
                   THEN [key |-> txn[o].key, owner |-> o, state |-> "VALIDATED"]
                   ELSE rows[r]]
    /\ Ends(o)
    /\ UNCHANGED <<portal, staged, host, calls, issued, faults>>

(* Rolled back first, then the file is discarded, whatever comes of that.  *)
EnrollFails(o) ==
    /\ Answered(o, "prepare")
    /\ Succeeded(txn[o].reply) => Conflicts(txn[o].key)
    /\ \E r \in txn[o].recs : calls' = calls \cup {Payload("discard", o, r, {}, {})}
    /\ Ends(o)
    /\ UNCHANGED <<rows, portal, staged, host, issued, faults>>

-----------------------------------------------------------------------------
(* sync_active_container_ssh_keys                                          *)

Sync(o) ==
    LET current == In(o, {"INSTALLED"})
    IN  /\ portal[o].state = "ACTIVE" /\ ~portal[o].over
        /\ current # {} /\ current # Recorded(o)
        /\ Prefix(current, Recorded(o))
        /\ Begins(o, "NONE", Recorded(o), Payload("sync", o, 0, current, Recorded(o)))
        /\ UNCHANGED <<rows, portal, staged, host, issued, faults>>

SyncCommits(o) ==
    /\ Answered(o, "sync")
    /\ Succeeded(txn[o].reply)
    /\ rows' = Sets(txn[o].recs, "INSTALLED")
    /\ Ends(o)
    /\ UNCHANGED <<portal, staged, host, calls, issued, faults>>

(* The operation is FAILED for good; the keys are as they were, and may be *)
(* synced again under another idempotency key.                             *)
SyncFails(o) ==
    /\ Answered(o, "sync")
    /\ ~Succeeded(txn[o].reply)
    /\ Ends(o)
    /\ UNCHANGED <<rows, portal, staged, host, calls, issued, faults>>

-----------------------------------------------------------------------------
(* The end of a lease, as far as keys go.                                  *)

LeaseEnds(o) ==
    /\ portal[o].state = "ACTIVE" /\ ~portal[o].over
    /\ portal' = [portal EXCEPT ![o].over = TRUE]
    /\ UNCHANGED <<rows, staged, host, txn, calls, issued, faults>>

(* One cleanup: by the timer, or by the platform owner after three of them.*)
Cleanup(o) ==
    /\ portal[o].over /\ portal[o].state # "RECYCLED"
    /\ LET keys == In(o, {"INSTALLED", "SUSPENDED"})
       IN  Begins(o, "NONE", keys, Payload("recycle", o, 0, {}, keys))
    /\ UNCHANGED <<rows, portal, staged, host, issued, faults>>

RecycleSucceeds(o) ==
    /\ Answered(o, "recycle")
    /\ Succeeded(txn[o].reply)
    /\ rows' = Sets(txn[o].recs, "SUSPENDED")
    /\ portal' = [portal EXCEPT ![o].state = "RECYCLED"]
    /\ Ends(o)
    /\ UNCHANGED <<staged, host, calls, issued, faults>>

RecycleFails(o) ==
    /\ Answered(o, "recycle")
    /\ ~Succeeded(txn[o].reply)
    /\ rows' = IF txn[o].reply = "ERROR_SUSPENDED" THEN Sets(txn[o].recs, "SUSPENDED")
               ELSE rows
    /\ portal' = [portal EXCEPT ![o].state = "SUSPENDED"]
    /\ Ends(o)
    /\ UNCHANGED <<staged, host, calls, issued, faults>>

(* Both sides of a restore that succeeds.                                  *)
Restore(o) ==
    LET keys == In(o, {"SUSPENDED"})
        next == portal[o].lease + 1
    IN  /\ txn[o] = Idle /\ portal[o].state = "RECYCLED" /\ next <= MaxLease
        /\ host[o].status = "RECYCLED" /\ host[o].keys = keys /\ host[o].named = keys
        /\ rows' = Sets(keys, "INSTALLED")
        /\ portal' = [portal EXCEPT ![o] = [state |-> "ACTIVE", lease |-> next,
                                            over |-> FALSE]]
        /\ host' = [host EXCEPT ![o].status = "ACTIVE", ![o].lease = next, ![o].open = TRUE]
        /\ UNCHANGED <<staged, txn, calls, issued, faults>>

-----------------------------------------------------------------------------
(* The Worker.  An outcome is what becomes of the file, or of the host of  *)
(* the owner, and the reply.                                               *)

Files(f, reply) == [file |-> f, reply |-> reply]

PrepareOutcome(f) == IF f = "HALF" THEN Files(f, "ERROR") ELSE Files("WHOLE", "SUCCEEDED")

(* Key and metadata are two files.  The Worker can die between them; an    *)
(* error can come when one or both are there, and removing them can fail.  *)
PrepareFaults(f) ==
    {Files(g, reply) : g \in IF f = "ABSENT" THEN {"ABSENT", "HALF", "WHOLE"} ELSE {f},
                       reply \in {"ERROR", "LOST"}}

DiscardOutcome(f) == Files("ABSENT", "SUCCEEDED")

DiscardFaults(f) == {Files(f, "LOST")} \cup (IF f = "WHOLE" THEN {Files("HALF", "LOST")} ELSE {})

Becomes(h, reply) == [host |-> h, reply |-> reply]

Holds(h, keys, named) == [h EXCEPT !.keys = keys, !.named = named]

SyncAccepts(c, h) ==
    /\ \A r \in c.target : staged[r] = "WHOLE"
    /\ h.status = "ACTIVE" /\ h.open /\ h.lease = c.lease
    /\ c.lease = portal[c.owner].lease => ~portal[c.owner].over

SyncIsReplay(c, h) == h.keys = c.target /\ h.named = c.target

(* Mutation: the request is believed to know what is installed.            *)
SyncStartsBlind(c, h) == TRUE

SyncMayStart(c, h) == h.named = c.current /\ h.keys \in {c.current, c.target}

SyncOutcome(c, h) ==
    IF SyncAccepts(c, h) /\ (SyncIsReplay(c, h) \/ SyncMayStart(c, h))
    THEN Becomes(Holds(h, c.target, c.target), "SUCCEEDED")
    ELSE Becomes(h, "ERROR")

(* A check fails before anything is written.  From then on a failure takes *)
(* keys and lifecycle file back, in this order, and either may fail too;   *)
(* or the Worker dies between the two writes.                              *)
SyncFaults(c, h) ==
    {Becomes(h, "ERROR"), Becomes(h, "LOST")} \cup
    (IF SyncAccepts(c, h) /\ SyncMayStart(c, h)
     THEN {Becomes(Holds(h, c.current, c.current), "ERROR"),
           Becomes(Holds(h, c.target, c.current), "ERROR"),
           Becomes(Holds(h, c.target, c.target), "ERROR"),
           Becomes(Holds(h, c.current, c.target), "ERROR"),
           Becomes(Holds(h, c.target, c.current), "LOST")}
     ELSE {})

(* The keys are compared with the portal's and put away before anything    *)
(* else; the lifecycle file has its say only at the end.                   *)
Suspended(h) == [h EXCEPT !.open = FALSE]

RecycleOutcome(c, h) ==
    IF h.keys # c.target THEN Becomes(h, "ERROR")
    ELSE IF h.named = h.keys /\ h.lease = c.lease
         THEN Becomes([Suspended(h) EXCEPT !.status = "RECYCLED"], "SUCCEEDED")
         ELSE Becomes(Suspended(h), "ERROR_SUSPENDED")

RecycleFaults(c, h) ==
    {Becomes(h, "ERROR"), Becomes(h, "LOST")} \cup
    (IF h.keys = c.target
     THEN {Becomes(Suspended(h), "ERROR_SUSPENDED"), Becomes(Suspended(h), "LOST")}
     ELSE {})

Replied(c, reply) ==
    /\ txn' = IF c.heard THEN [txn EXCEPT ![c.owner].reply = reply] ELSE txn
    /\ calls' = calls \ {c}
    /\ UNCHANGED <<rows, portal, issued>>

ServesFiles(c, w) ==
    /\ staged' = [staged EXCEPT ![c.rec] = w.file]
    /\ Replied(c, w.reply)
    /\ UNCHANGED host

ServesHost(c, w) ==
    /\ host' = [host EXCEPT ![c.owner] = w.host]
    /\ Replied(c, w.reply)
    /\ UNCHANGED staged

Serves(c) ==
    /\ \/ c.op = "prepare" /\ ServesFiles(c, PrepareOutcome(staged[c.rec]))
       \/ c.op = "discard" /\ ServesFiles(c, DiscardOutcome(staged[c.rec]))
       \/ c.op = "sync" /\ ServesHost(c, SyncOutcome(c, host[c.owner]))
       \/ c.op = "recycle" /\ ServesHost(c, RecycleOutcome(c, host[c.owner]))
    /\ UNCHANGED faults

WorkerFails(c) ==
    /\ \/ c.op = "prepare" /\ \E w \in PrepareFaults(staged[c.rec]) : ServesFiles(c, w)
       \/ c.op = "discard" /\ \E w \in DiscardFaults(staged[c.rec]) : ServesFiles(c, w)
       \/ c.op = "sync" /\ \E w \in SyncFaults(c, host[c.owner]) : ServesHost(c, w)
       \/ c.op = "recycle" /\ \E w \in RecycleFaults(c, host[c.owner]) : ServesHost(c, w)
    /\ Fault

-----------------------------------------------------------------------------
Finishes(o) ==
    \/ EnrollCommits(o) \/ EnrollFails(o)
    \/ SyncCommits(o) \/ SyncFails(o)
    \/ RecycleSucceeds(o) \/ RecycleFails(o)

Next ==
    \/ \E o \in Owner :
          \/ \E k \in Key : Enroll(o, k)
          \/ Sync(o) \/ LeaseEnds(o) \/ Cleanup(o) \/ Restore(o)
          \/ Finishes(o) \/ TimesOut(o) \/ Dies(o)
    \/ \E c \in calls : Serves(c) \/ WorkerFails(c)

Spec == Init /\ [][Next]_vars

(* Every caller has a time limit and ends on any answer; the Worker serves *)
(* who waits; the timer of the expiry worker comes again.                  *)
Fairness ==
    \A o \in Owner :
        /\ WF_vars(Finishes(o))
        /\ WF_vars(\E c \in HeardBy(o) : Serves(c))
        /\ WF_vars(Cleanup(o))

FairSpec == Spec /\ Fairness

-----------------------------------------------------------------------------
(* Every variable has its shape, and no two keys of the table have the     *)
(* same fingerprint, although two users may enroll one at the same time.   *)
TypeOK ==
    /\ rows \in [Rec -> Row \cup {NoRow}]
    /\ portal \in [Owner -> Environment]
    /\ staged \in [Rec -> {"ABSENT", "HALF", "WHOLE"}]
    /\ host \in [Owner -> Host]
    /\ \A o \in Owner : txn[o].op \in {"idle", "prepare", "sync", "recycle"}
                        /\ txn[o].reply \in Replies
    /\ calls \subseteq Call
    /\ \A r, s \in Rec : rows[r] # NoRow /\ rows[r].key = rows[s].key => r = s

(* A key the portal lists has its files on the host, so that no activation *)
(* or sync is refused for the lack of them: a discard that is late, or     *)
(* follows a lost answer, never meets a record that was committed.         *)
RecordsAreStaged == \A r \in Rec : rows[r] # NoRow => staged[r] = "WHOLE"

(* What the portal shows as installed, or put away with the environment,   *)
(* is in authorized_keys, and an environment in the recycle bin has none:  *)
(* no sync, cleanup or rollback the Worker serves late takes back, or      *)
(* opens, what a later one has reported.                                   *)
HostMatchesPortal ==
    \A o \in Owner :
        /\ In(o, {"INSTALLED", "SUSPENDED"}) \subseteq host[o].keys
        /\ portal[o].state = "RECYCLED" => ~host[o].open

(* The manual says that the system stops an environment whose lease has    *)
(* ended.  Refuted: after one lost answer of a sync the container holds a  *)
(* key the portal does not count, and every cleanup is refused.            *)
ExpiryRecycles == \A o \in Owner : portal[o].over ~> portal[o].state = "RECYCLED"
=============================================================================
