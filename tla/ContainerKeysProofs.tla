------------------------- MODULE ContainerKeysProofs -------------------------
(***************************************************************************)
(* Proofs about ContainerKeys, for any number of owners, keys, records and *)
(* faults.                                                                 *)
(*                                                                         *)
(* A call that its caller has left may be served at any later time.  Why   *)
(* that is harmless differs.  A late prepare or discard is of a record     *)
(* that has no row and gets none (FileCalls, Enrolling).  A late sync      *)
(* starts only from what the lifecycle file names, which is all the portal *)
(* counts and, once a later sync has answered, more than what the late one *)
(* was told (CountedIsHeld, Syncing, SyncCalls).                           *)
(***************************************************************************)
EXTENDS ContainerKeys, FiniteSetTheorems, FunctionTheorems, TLAPS

Transaction == [op : {"idle", "prepare", "sync", "recycle"}, key : Key \cup {"NONE"},
                recs : SUBSET Rec, reply : Replies]

(* A record the portal takes to be in authorized_keys.                     *)
Counts(r) == rows[r].state \in {"INSTALLED", "SUSPENDED"}

(* A call that is heard is the one its owner's transaction waits for.      *)
HeardCalls ==
    \A c \in calls : c.heard =>
        /\ txn[c.owner].op = c.op /\ txn[c.owner].reply = "NONE"
        /\ c.op = "prepare" => txn[c.owner].recs = {c.rec}
        /\ c.op = "sync" => txn[c.owner].recs = c.target
        /\ \A d \in calls : d.heard /\ d.owner = c.owner => d = c

(* Files are written and removed only of records that have no row.         *)
FileCalls ==
    \A c \in calls :
        /\ c.op \in {"prepare", "discard"} => c.rec \in 1..issued /\ rows[c.rec] = NoRow
        /\ c.op = "prepare" => \A d \in calls : d.op = "prepare" /\ d.rec = c.rec => d = c

(* The record of an enrollment is its own; once the Worker has said that   *)
(* the files are there, nothing on its way touches them.                   *)
Enrolling ==
    \A o \in Owner : txn[o].op = "prepare" =>
        /\ txn[o].key \in Key
        /\ \A r \in txn[o].recs :
             /\ r <= issued /\ rows[r] = NoRow
             /\ \A s \in txn[o].recs : s = r
             /\ \A p \in Owner : txn[p].op = "prepare" /\ r \in txn[p].recs => p = o
             /\ \A c \in calls : c.op = "discard" => c.rec # r
             /\ txn[o].reply = "SUCCEEDED" =>
                  /\ staged[r] = "WHOLE"
                  /\ \A c \in calls : c.op = "prepare" => c.rec # r

Unissued == \A r \in Rec : r > issued => rows[r] = NoRow

(* A sync installs all the records of its owner, one of them anew.         *)
Syncing ==
    \A o \in Owner : txn[o].op = "sync" =>
        /\ \A r \in Rec : r \in txn[o].recs <=> rows[r] # NoRow /\ rows[r].owner = o
        /\ \E r \in txn[o].recs : rows[r].state = "VALIDATED"
        /\ portal[o].state = "ACTIVE"
        /\ txn[o].reply = "SUCCEEDED" =>
             txn[o].recs \subseteq host[o].keys /\ txn[o].recs \subseteq host[o].named

SyncCalls ==
    \A c \in calls : c.op = "sync" =>
        /\ c.current \subseteq c.target
        /\ \A r \in c.current : Counts(r) /\ rows[r].owner = c.owner

Recycling ==
    \A o \in Owner : txn[o].op = "recycle" =>
        /\ \A r \in Rec : r \in txn[o].recs <=> Counts(r) /\ rows[r].owner = o
        /\ txn[o].reply = "SUCCEEDED" => ~host[o].open

ActiveIsInstalled ==
    \A r \in Rec : rows[r].state = "SUSPENDED" => portal[rows[r].owner].state # "ACTIVE"

CountedIsHeld ==
    \A r \in Rec : Counts(r) =>
        r \in host[rows[r].owner].keys /\ r \in host[rows[r].owner].named

RecycledIsClosed == \A o \in Owner : portal[o].state = "RECYCLED" => ~host[o].open

Typed ==
    /\ TypeOK
    /\ txn \in [Owner -> Transaction]
    /\ issued \in 0..Cardinality(Rec) /\ faults \in 0..MaxFaults

IInv ==
    /\ Typed
    /\ HeardCalls /\ FileCalls /\ Enrolling /\ Unissued /\ RecordsAreStaged
    /\ Syncing /\ SyncCalls /\ Recycling
    /\ ActiveIsInstalled /\ CountedIsHeld /\ RecycledIsClosed

-----------------------------------------------------------------------------
(* Facts about the constants.                                              *)

LEMMA Counting ==
    /\ Cardinality(Active) \in Nat /\ Cardinality(Rec) \in Nat /\ Cardinality(Key) \in Nat
    /\ Cardinality(Active) <= Cardinality(Rec)
    /\ Rec = 1..Cardinality(Rec)
    /\ IsFiniteSet(Active)
<1>1. IsFiniteSet(Active)
  BY KeysAssumption, FS_Subset
<1>2. QED
  BY <1>1, KeysAssumption, FS_CardinalityType

(* No row has the state of a record, no fingerprint is that of a missing   *)
(* row.                                                                    *)
LEMMA RowFacts ==
    /\ NoRow \notin Row /\ NoRow.state = "NONE" /\ NoRow.key \notin Key
    /\ \A x \in Row : x.key \in Key /\ x.owner \in Owner
                      /\ x.state \in {"VALIDATED", "INSTALLED", "SUSPENDED"}
    /\ TypeOK => \A r \in Rec : rows[r] \in Row \cup {NoRow}
    /\ TypeOK => \A r \in Rec : rows[r].state # "NONE" => rows[r] \in Row
BY KeysAssumption DEF NoRow, Row, TypeOK

(* The calls that are left when a caller gives up.                         *)
LEMMA Leaves ==
    ASSUME NEW o, NEW d \in Abandoned(o)
    PROVE  \E c \in calls :
              d = IF c.heard /\ c.owner = o THEN [c EXCEPT !.heard = FALSE, !.left = faults]
                  ELSE c
BY DEF Abandoned, HeardBy

(* The elements of a finite set can be numbered, and told by number.       *)
LEMMA Numbering ==
    ASSUME NEW S, NEW m \in Nat, IsFiniteSet(S), m = Cardinality(S)
    PROVE  /\ \E g \in [S -> 1..m] : \A x, y \in S : g[x] = g[y] => x = y
           /\ \E h \in [1..m -> S] : \A i, j \in 1..m : h[i] = h[j] => i = j
<1>1. PICK h : h \in Bijection(1..m, S)
  BY FS_CardinalityType, Fun_ExistsBij
<1>2. PICK g : g \in Bijection(S, 1..m)
  <2>1. ExistsBijection(1..m, S)
    BY FS_CardinalityType
  <2>2. ExistsBijection(S, 1..m)
    BY <2>1, Fun_ExistsBijSymmetric
  <2>3. QED
    BY <2>2, Fun_ExistsBij
<1>3. g \in [S -> 1..m] /\ \A x, y \in S : g[x] = g[y] => x = y
  BY <1>2 DEF Bijection, Injection, IsInjective
<1>4. h \in [1..m -> S] /\ \A i, j \in 1..m : h[i] = h[j] => i = j
  BY <1>1 DEF Bijection, Injection, IsInjective
<1>5. QED
  BY <1>3, <1>4

LEMMA InitIInv == Init => IInv
<1> SUFFICES ASSUME Init PROVE IInv
  OBVIOUS
<1> DEFINE n == Cardinality(Active)
<1>1. n \in Nat /\ n <= Cardinality(Rec) /\ Rec = 1..Cardinality(Rec) /\ Cardinality(Rec) \in Nat
  BY Counting
<1>2. FirstRec \in [Active -> 1..n] /\ Enumerates(FirstRec)
  <2>1. \E g \in [Active -> 1..n] : Enumerates(g)
    BY Counting, Numbering DEF Enumerates
  <2>2. QED
    BY <2>1 DEF FirstRec
<1>3. \A r \in 1..n : \E o \in Active : FirstRec[o] = r
  <2>1. FirstRec \in Injection(Active, 1..n)
    BY <1>2, Fun_IsInj DEF Enumerates
  <2>2. IsFiniteSet(1..n) /\ Cardinality(1..n) = n
    BY <1>1, FS_Interval
  <2>3. FirstRec \in Surjection(Active, 1..n)
    BY <2>1, <2>2, FS_Injection
  <2>4. QED
    BY <2>3, Fun_SurjectionProperties
<1>4. FirstKey \in [Active -> Key] /\ Enumerates(FirstKey)
  <2>1. PICK g \in [Active -> 1..n] : \A o, p \in Active : g[o] = g[p] => o = p
    BY Counting, Numbering
  <2>2. PICK h \in [1..Cardinality(Key) -> Key] :
          \A i, j \in 1..Cardinality(Key) : h[i] = h[j] => i = j
    <3>1. IsFiniteSet(Key) /\ Cardinality(Key) \in Nat
      BY KeysAssumption, Counting
    <3>2. QED
      BY <3>1, Numbering
  <2>5. \A o \in Active : g[o] \in 1..Cardinality(Key)
    BY <1>1, <2>1, KeysAssumption, Counting
  <2>6. [o \in Active |-> h[g[o]]] \in [Active -> Key]
        /\ Enumerates([o \in Active |-> h[g[o]]])
    BY <2>1, <2>2, <2>5 DEF Enumerates
  <2>7. QED
    BY <2>6 DEF FirstKey
<1> HIDE DEF n
<1>5. \A r \in Rec :
        \/ r <= n /\ \E o \in Active :
             /\ FirstRec[o] = r /\ rows[r] \in Row
             /\ rows[r].key = FirstKey[o] /\ rows[r].owner = o /\ rows[r].state = "INSTALLED"
        \/ r > n /\ rows[r] = NoRow
  <2> SUFFICES ASSUME NEW r \in Rec
               PROVE  \/ r <= n /\ \E o \in Active :
                           /\ FirstRec[o] = r /\ rows[r] \in Row
                           /\ rows[r].key = FirstKey[o] /\ rows[r].owner = o
                           /\ rows[r].state = "INSTALLED"
                      \/ r > n /\ rows[r] = NoRow
    OBVIOUS
  <2>1. CASE r <= n
    <3> DEFINE o == CHOOSE o \in Active : FirstRec[o] = r
    <3>1. o \in Active /\ FirstRec[o] = r
      BY <1>1, <1>3, <2>1
    <3>2. rows[r] = [key |-> FirstKey[o], owner |-> o, state |-> "INSTALLED"]
      BY <2>1 DEF Init, n
    <3>3. /\ rows[r].key = FirstKey[o] /\ rows[r].owner = o /\ rows[r].state = "INSTALLED"
          /\ rows[r] \in Row
      BY <1>4, <3>1, <3>2, KeysAssumption DEF Row
    <3>4. QED
      BY <2>1, <3>1, <3>3
  <2>2. CASE ~(r <= n)
    BY <1>1, <2>2 DEF Init, n
  <2>3. QED
    BY <2>1, <2>2
<1>6. /\ calls = {} /\ issued = n /\ faults = 0
      /\ \A o \in Owner : txn[o] = Idle /\ portal[o].state \in {"STAGED", "ACTIVE"}
  BY DEF Init, EnvironmentAt, n
<1>7. Idle.op = "idle" /\ Idle \in Transaction
  BY DEF Idle, Txn, Transaction, Replies
<1>8. TypeOK
  <2>1. rows \in [Rec -> Row \cup {NoRow}]
    <3>1. \A r \in Rec : rows[r] \in Row \cup {NoRow}
      BY <1>5
    <3>2. QED
      BY <3>1 DEF Init
  <2>2. portal \in [Owner -> Environment]
    BY KeysAssumption DEF Init, Environment, EnvironmentAt
  <2>3. staged \in [Rec -> {"ABSENT", "HALF", "WHOLE"}]
    BY DEF Init
  <2>4. host \in [Owner -> Host]
    <3>1. \A o \in Owner : FirstKeys(o) \subseteq Rec
      BY <1>1, <1>2 DEF FirstKeys
    <3>2. QED
      BY <3>1, KeysAssumption DEF Init, Host, EnvironmentAt
  <2>5. \A r, s \in Rec : rows[r] # NoRow /\ rows[r].key = rows[s].key => r = s
    <3> SUFFICES ASSUME NEW r \in Rec, NEW s \in Rec, rows[r] # NoRow, rows[r].key = rows[s].key
                 PROVE  r = s
      OBVIOUS
    <3>1. PICK o \in Active : FirstRec[o] = r /\ rows[r].key = FirstKey[o]
      BY <1>5
    <3>2. rows[s] # NoRow
      BY <1>4, <3>1, RowFacts
    <3>3. PICK p \in Active : FirstRec[p] = s /\ rows[s].key = FirstKey[p]
      BY <1>5, <3>2
    <3>4. QED
      BY <1>4, <3>1, <3>3 DEF Enumerates
  <2>6. QED
    BY <1>6, <1>7, <2>1, <2>2, <2>3, <2>4, <2>5 DEF TypeOK, Transaction
<1>9. /\ txn \in [Owner -> Transaction] /\ issued \in 0..Cardinality(Rec) /\ faults \in 0..MaxFaults
  BY <1>1, <1>6, <1>7, KeysAssumption DEF Init
<1>10. HeardCalls /\ FileCalls /\ Enrolling /\ Syncing /\ SyncCalls /\ Recycling /\ RecycledIsClosed
  BY <1>6, <1>7 DEF HeardCalls, FileCalls, Enrolling, Syncing, SyncCalls, Recycling,
                    RecycledIsClosed
<1>11. Unissued
  BY <1>1, <1>5, <1>6 DEF Unissued
<1>12. RecordsAreStaged
  BY <1>5 DEF RecordsAreStaged, Init, n
<1>13. ActiveIsInstalled
  BY <1>5, RowFacts DEF ActiveIsInstalled
<1>14. CountedIsHeld
  <2> SUFFICES ASSUME NEW r \in Rec, Counts(r)
               PROVE  r \in host[rows[r].owner].keys /\ r \in host[rows[r].owner].named
    BY DEF CountedIsHeld
  <2>1. PICK o \in Active : FirstRec[o] = r /\ rows[r].owner = o
    BY <1>5, RowFacts DEF Counts
  <2>2. host[o].keys = {r} /\ host[o].named = {r}
    BY <2>1, KeysAssumption DEF Init, FirstKeys
  <2>3. QED
    BY <2>1, <2>2
<1>15. Typed
  BY <1>8, <1>9 DEF Typed
<1>16. QED
  BY <1>10, <1>11, <1>12, <1>13, <1>14, <1>15 DEF IInv

-----------------------------------------------------------------------------
(* What the Worker can make of an owner's files.                           *)

LEMMA SyncOutcomes ==
    ASSUME NEW c \in Call, NEW h \in Host, NEW w \in {SyncOutcome(c, h)} \cup SyncFaults(c, h)
    PROVE  /\ w.host \in Host /\ w.reply \in Replies /\ w.host.open = h.open
           /\ \/ w.host.keys = h.keys /\ w.host.named = h.named
              \/ /\ h.named = c.current
                 /\ w.host.keys \in {c.current, c.target} /\ w.host.named \in {c.current, c.target}
           /\ w.reply = "SUCCEEDED" => w.host.keys = c.target /\ w.host.named = c.target
<1>1. \A keys, named \in SUBSET Rec :
        /\ Holds(h, keys, named) \in Host /\ Holds(h, keys, named).open = h.open
        /\ Holds(h, keys, named).keys = keys /\ Holds(h, keys, named).named = named
  BY DEF Holds, Host
<1>2. c.current \in SUBSET Rec /\ c.target \in SUBSET Rec
  BY DEF Call
<1>3. CASE w = SyncOutcome(c, h)
  BY <1>1, <1>2, <1>3 DEF SyncOutcome, SyncIsReplay, SyncMayStart, Becomes, Replies
<1>4. CASE w \in SyncFaults(c, h)
  BY <1>1, <1>2, <1>4 DEF SyncFaults, SyncMayStart, Becomes, Replies
<1>5. QED
  BY <1>3, <1>4

LEMMA RecycleOutcomes ==
    ASSUME NEW c \in Call, NEW h \in Host,
           NEW w \in {RecycleOutcome(c, h)} \cup RecycleFaults(c, h)
    PROVE  /\ w.host \in Host /\ w.reply \in Replies
           /\ w.host.keys = h.keys /\ w.host.named = h.named
           /\ ~h.open => ~w.host.open
           /\ w.reply = "SUCCEEDED" => ~w.host.open
<1>1. CASE w = RecycleOutcome(c, h)
  BY <1>1 DEF RecycleOutcome, Suspended, Becomes, Replies, Host
<1>2. CASE w \in RecycleFaults(c, h)
  <2>1. \/ w.host = h /\ w.reply \in {"ERROR", "LOST"}
        \/ w.host = Suspended(h) /\ w.reply \in {"ERROR_SUSPENDED", "LOST"}
    BY <1>2 DEF RecycleFaults, Becomes
  <2>2. QED
    BY <2>1 DEF Suspended, Replies, Host
<1>3. QED
  BY <1>1, <1>2

-----------------------------------------------------------------------------
(* Types.                                                                  *)

LEMMA IdleIsTransaction == Idle \in Transaction /\ Idle.op = "idle"
BY DEF Idle, Txn, Transaction, Replies

LEMMA TypedUnless ==
    ASSUME Typed,
           rows' \in [Rec -> Row \cup {NoRow}],
           \A r, s \in Rec : rows'[r] # NoRow /\ rows'[r].key = rows'[s].key => r = s,
           portal' \in [Owner -> Environment],
           staged' \in [Rec -> {"ABSENT", "HALF", "WHOLE"}],
           host' \in [Owner -> Host], txn' \in [Owner -> Transaction],
           calls' \subseteq Call, issued' \in 0..Cardinality(Rec), faults' \in 0..MaxFaults
    PROVE  Typed'
BY DEF Typed, TypeOK, Transaction

LEMMA PayloadType ==
    ASSUME Typed, NEW o \in Owner, NEW r \in Rec \cup {0}, NEW x \in SUBSET Rec, NEW y \in SUBSET Rec,
           NEW op \in {"prepare", "discard", "sync", "recycle"}
    PROVE  Payload(op, o, r, x, y) \in Call
BY KeysAssumption DEF Payload, Call, Typed, TypeOK, Environment

LEMMA AbandonedType ==
    ASSUME Typed, NEW o \in Owner
    PROVE  Abandoned(o) \subseteq Call
<1> SUFFICES ASSUME NEW d \in Abandoned(o) PROVE d \in Call
  OBVIOUS
<1>1. PICK c \in calls :
        d = IF c.heard /\ c.owner = o THEN [c EXCEPT !.heard = FALSE, !.left = faults] ELSE c
  BY Leaves
<1>2. c \in Call /\ faults \in 0..MaxFaults
  BY DEF Typed, TypeOK
<1>3. QED
  BY <1>1, <1>2 DEF Call

LEMMA RecordedType == \A o : Recorded(o) \in SUBSET Rec /\ \A states : In(o, states) \in SUBSET Rec
BY DEF Recorded, In

(* A change of state keeps everything else of the rows.                    *)
LEMMA SetsRows ==
    ASSUME Typed, NEW recs \in SUBSET Rec, NEW st \in {"INSTALLED", "SUSPENDED"},
           \A r \in recs : rows[r] # NoRow, rows' = Sets(recs, st)
    PROVE  /\ rows' \in [Rec -> Row \cup {NoRow}]
           /\ \A r \in Rec : /\ rows'[r].key = rows[r].key /\ rows'[r].owner = rows[r].owner
                             /\ rows'[r].state = IF r \in recs THEN st ELSE rows[r].state
                             /\ rows'[r] = NoRow <=> rows[r] = NoRow
           /\ \A r, s \in Rec : rows'[r] # NoRow /\ rows'[r].key = rows'[s].key => r = s
<1>1. \A r \in Rec : rows[r] \in Row \cup {NoRow}
  BY DEF Typed, TypeOK
<1>2. \A r \in Rec : rows'[r] = IF r \in recs THEN [rows[r] EXCEPT !.state = st] ELSE rows[r]
  BY DEF Sets
<1>3. ASSUME NEW r \in Rec
      PROVE  /\ rows'[r].key = rows[r].key /\ rows'[r].owner = rows[r].owner
             /\ rows'[r].state = IF r \in recs THEN st ELSE rows[r].state
             /\ rows'[r] = NoRow <=> rows[r] = NoRow
             /\ rows'[r] \in Row \cup {NoRow}
  <2>1. CASE r \in recs
    <3>1. rows[r] \in Row /\ rows'[r] = [rows[r] EXCEPT !.state = st]
      BY <1>1, <1>2, <2>1
    <3>2. rows'[r] \in Row
      BY <3>1 DEF Row
    <3>3. QED
      BY <2>1, <3>1, <3>2, RowFacts DEF Row
  <2>2. CASE r \notin recs
    BY <1>1, <1>2, <2>2
  <2>3. QED
    BY <2>1, <2>2
<1>4. rows' \in [Rec -> Row \cup {NoRow}]
  BY <1>3 DEF Sets
<1>5. \A r, s \in Rec : rows'[r] # NoRow /\ rows'[r].key = rows'[s].key => r = s
  BY <1>3 DEF Typed, TypeOK
<1>6. QED
  BY <1>3, <1>4, <1>5

-----------------------------------------------------------------------------
(* The transactions begin.                                                 *)

LEMMA EnrollPreserves ==
    ASSUME IInv, NEW o \in Owner, NEW k \in Key, Enroll(o, k)
    PROVE  IInv'
<1> DEFINE r == issued + 1
           c == Payload("prepare", o, r, {}, {})
           t == Txn("prepare", k, {r}, "NONE")
<1>1. /\ r \in Rec /\ issued' = r /\ txn[o] = Idle
      /\ txn' = [txn EXCEPT ![o] = t] /\ calls' = calls \cup {c}
      /\ rows' = rows /\ portal' = portal /\ staged' = staged /\ host' = host /\ faults' = faults
  BY DEF Enroll, Begins, Payload
<1>2. /\ c.op = "prepare" /\ c.owner = o /\ c.rec = r /\ c.heard = TRUE
      /\ t.op = "prepare" /\ t.key = k /\ t.recs = {r} /\ t.reply = "NONE"
  BY DEF Payload, Txn
<1>3. /\ issued \in Nat /\ Rec = 1..Cardinality(Rec) /\ Cardinality(Rec) \in Nat
      /\ txn \in [Owner -> Transaction]
  BY Counting DEF IInv, Typed
<1>4. /\ txn'[o] = t
      /\ \A p \in Owner : p # o => txn'[p] = txn[p]
  BY <1>1, <1>3
<1>5. \A d \in calls : ~(d.heard /\ d.owner = o)
  BY <1>1, IdleIsTransaction DEF IInv, HeardCalls, Typed, TypeOK, Call
<1>6. \A d \in calls : d.op \in {"prepare", "discard"} => d.rec # r
  BY <1>3 DEF IInv, FileCalls
<1>7. rows[r] = NoRow
  BY <1>1, <1>3 DEF IInv, Unissued
<1>8. Typed'
  <2>1. c \in Call
    BY <1>1, PayloadType DEF IInv
  <2>2. t \in Transaction
    BY <1>1 DEF Txn, Transaction, Replies
  <2> HIDE DEF c, t
  <2>3. calls' \subseteq Call /\ txn' \in [Owner -> Transaction] /\ issued' \in 0..Cardinality(Rec)
    BY <1>1, <1>3, <2>1, <2>2 DEF IInv, Typed, TypeOK
  <2>4. QED
    BY <1>1, <2>3, TypedUnless DEF IInv, Typed, TypeOK
<1> HIDE DEF r, c, t
<1>9. HeardCalls'
  BY <1>1, <1>2, <1>4, <1>5 DEF IInv, HeardCalls
<1>10. FileCalls'
  BY <1>1, <1>2, <1>3, <1>6, <1>7 DEF IInv, FileCalls, r
<1>11. Enrolling'
  <2> SUFFICES ASSUME NEW p \in Owner, txn'[p].op = "prepare", NEW q \in txn'[p].recs
               PROVE  /\ txn'[p].key \in Key
                      /\ q <= issued' /\ rows'[q] = NoRow
                      /\ \A s \in txn'[p].recs : s = q
                      /\ \A x \in Owner : txn'[x].op = "prepare" /\ q \in txn'[x].recs => x = p
                      /\ \A d \in calls' : d.op = "discard" => d.rec # q
                      /\ txn'[p].reply = "SUCCEEDED" =>
                           /\ staged'[q] = "WHOLE"
                           /\ \A d \in calls' : d.op = "prepare" => d.rec # q
    <3>1. \A p \in Owner : txn'[p].op = "prepare" => txn'[p].key \in Key
      BY <1>2, <1>4 DEF IInv, Enrolling
    <3>2. QED
      BY <3>1 DEF Enrolling
  <2>1. \A x \in Owner : \A s \in txn[x].recs :
          txn[x].op = "prepare" => s <= issued /\ s \in Nat /\ s # r
    BY <1>3 DEF IInv, Enrolling, Transaction, r
  <2>2. CASE p = o
    BY <1>1, <1>2, <1>3, <1>4, <1>6, <1>7, <2>1, <2>2
  <2>3. CASE p # o
    <3>1. txn'[p] = txn[p] /\ q # r /\ q \in Nat /\ q <= issued
      BY <1>4, <2>1, <2>3
    <3>2. q <= issued'
      BY <1>1, <1>3, <3>1 DEF r
    <3>3. \A x \in Owner : txn'[x].op = "prepare" /\ q \in txn'[x].recs => x = p
      BY <1>2, <1>4, <3>1 DEF IInv, Enrolling
    <3>4. QED
      BY <1>1, <1>2, <3>1, <3>2, <3>3 DEF IInv, Enrolling
  <2>4. QED
    BY <2>2, <2>3
<1>12. Unissued'
  BY <1>1, <1>3 DEF IInv, Unissued, r
<1>13. RecordsAreStaged' /\ ActiveIsInstalled' /\ CountedIsHeld' /\ RecycledIsClosed'
  BY <1>1 DEF IInv, RecordsAreStaged, ActiveIsInstalled, CountedIsHeld, RecycledIsClosed, Counts
<1>14. Syncing' /\ Recycling'
  BY <1>1, <1>2, <1>4 DEF IInv, Syncing, Recycling, Counts
<1>15. SyncCalls'
  BY <1>1, <1>2 DEF IInv, SyncCalls, Counts
<1>16. QED
  BY <1>8, <1>9, <1>10, <1>11, <1>12, <1>13, <1>14, <1>15 DEF IInv

(* A sync or a cleanup: a call about the whole container.                  *)
LEMMA BeginsPreserves ==
    ASSUME IInv, NEW o \in Owner, Sync(o) \/ Cleanup(o)
    PROVE  IInv'
<1>1. PICK c, t :
        /\ txn[o] = Idle /\ txn' = [txn EXCEPT ![o] = t] /\ calls' = calls \cup {c}
        /\ c \in Call /\ t \in Transaction
        /\ c.op = t.op /\ c.owner = o /\ c.target = t.recs /\ c.op \in {"sync", "recycle"}
        /\ t.reply = "NONE"
        /\ t.op = "sync" =>
             /\ t.recs = Recorded(o) /\ c.current = In(o, {"INSTALLED"})
             /\ c.current # t.recs /\ portal[o].state = "ACTIVE"
        /\ t.op = "recycle" => t.recs = In(o, {"INSTALLED", "SUSPENDED"})
  <2>1. /\ 0 \in Rec \cup {0} /\ {} \in SUBSET Rec /\ Recorded(o) \in SUBSET Rec
        /\ \A states : In(o, states) \in SUBSET Rec
        /\ \A recs \in SUBSET Rec :
             Txn("sync", "NONE", recs, "NONE") \in Transaction
               /\ Txn("recycle", "NONE", recs, "NONE") \in Transaction
    BY RecordedType DEF Txn, Transaction, Replies
  <2>2. CASE Sync(o)
    <3> DEFINE x == Payload("sync", o, 0, In(o, {"INSTALLED"}), Recorded(o))
               y == Txn("sync", "NONE", Recorded(o), "NONE")
    <3>1. x \in Call /\ y \in Transaction
      BY <2>1, PayloadType DEF IInv
    <3>2. /\ x.op = "sync" /\ x.owner = o /\ x.target = Recorded(o)
          /\ x.current = In(o, {"INSTALLED"})
          /\ y.op = "sync" /\ y.recs = Recorded(o) /\ y.reply = "NONE"
      BY DEF Payload, Txn
    <3>3. /\ txn[o] = Idle /\ txn' = [txn EXCEPT ![o] = y] /\ calls' = calls \cup {x}
          /\ portal[o].state = "ACTIVE" /\ In(o, {"INSTALLED"}) # Recorded(o)
      BY <2>2 DEF Sync, Begins, Payload
    <3> HIDE DEF x, y
    <3>4. QED
      BY <3>1, <3>2, <3>3
  <2>3. CASE Cleanup(o)
    <3> DEFINE keys == In(o, {"INSTALLED", "SUSPENDED"})
               x == Payload("recycle", o, 0, {}, keys)
               y == Txn("recycle", "NONE", keys, "NONE")
    <3>1. x \in Call /\ y \in Transaction
      BY <2>1, PayloadType DEF IInv
    <3>2. /\ x.op = "recycle" /\ x.owner = o /\ x.target = keys
          /\ y.op = "recycle" /\ y.recs = keys /\ y.reply = "NONE"
      BY DEF Payload, Txn
    <3>3. txn[o] = Idle /\ txn' = [txn EXCEPT ![o] = y] /\ calls' = calls \cup {x}
      BY <2>3 DEF Cleanup, Begins, Payload
    <3> HIDE DEF x, y
    <3>4. QED
      BY <3>1, <3>2, <3>3
  <2>4. QED
    BY <2>2, <2>3
<1>2. /\ rows' = rows /\ portal' = portal /\ staged' = staged /\ host' = host
      /\ issued' = issued /\ faults' = faults
  BY DEF Sync, Cleanup
<1>3. /\ txn'[o] = t
      /\ \A p \in Owner : p # o => txn'[p] = txn[p]
  BY <1>1 DEF IInv, Typed
<1>4. \A d \in calls : ~(d.heard /\ d.owner = o)
  BY <1>1, IdleIsTransaction DEF IInv, HeardCalls, Typed, TypeOK, Call
<1>5. Typed'
  BY <1>1, <1>2, TypedUnless DEF IInv, Typed, TypeOK
<1>6. HeardCalls'
  BY <1>1, <1>3, <1>4 DEF IInv, HeardCalls
<1>7. FileCalls'
  BY <1>1, <1>2 DEF IInv, FileCalls
<1>8. Enrolling'
  BY <1>1, <1>2, <1>3 DEF IInv, Enrolling
<1>9. Unissued' /\ RecordsAreStaged' /\ ActiveIsInstalled' /\ CountedIsHeld' /\ RecycledIsClosed'
  BY <1>2 DEF IInv, Unissued, RecordsAreStaged, ActiveIsInstalled, CountedIsHeld,
              RecycledIsClosed, Counts
<1>10. t.op = "sync" =>
         /\ c.current \subseteq c.target
         /\ \A r \in c.current : Counts(r) /\ rows[r].owner = o
         /\ \E r \in t.recs : rows[r].state = "VALIDATED"
  <2> SUFFICES ASSUME t.op = "sync"
               PROVE  /\ c.current \subseteq c.target
                      /\ \A r \in c.current : Counts(r) /\ rows[r].owner = o
                      /\ \E r \in t.recs : rows[r].state = "VALIDATED"
    OBVIOUS
  <2>1. /\ c.current \subseteq c.target
        /\ \A r \in c.current : Counts(r) /\ rows[r].owner = o
    BY <1>1 DEF In, Recorded, Counts
  <2>2. PICK r \in t.recs : r \notin In(o, {"INSTALLED"})
    <3>1. c.current \subseteq t.recs /\ c.current # t.recs /\ c.current = In(o, {"INSTALLED"})
      BY <1>1, <2>1
    <3>2. \E r \in t.recs : r \notin c.current
      BY <3>1
    <3>3. QED
      BY <3>1, <3>2
  <2>3. r \in Rec /\ rows[r] \in Row /\ rows[r].owner = o /\ rows[r].state # "INSTALLED"
    BY <1>1, <2>2, RowFacts DEF In, Recorded, IInv, Typed
  <2>4. rows[r].state # "SUSPENDED"
    BY <1>1, <2>3 DEF IInv, ActiveIsInstalled
  <2>5. QED
    BY <2>1, <2>3, <2>4, RowFacts
<1>11. Syncing'
  BY <1>1, <1>2, <1>3, <1>10 DEF IInv, Syncing, Recorded
<1>12. SyncCalls'
  BY <1>1, <1>2, <1>10 DEF IInv, SyncCalls, Counts
<1>13. Recycling'
  <2>1. t.op = "recycle" => \A r \in Rec : r \in t.recs <=> Counts(r) /\ rows[r].owner = o
    BY <1>1, RowFacts DEF In, Recorded, Counts, IInv, Typed
  <2>2. QED
    BY <1>1, <1>2, <1>3, <2>1 DEF IInv, Recycling, Counts
<1>14. QED
  BY <1>5, <1>6, <1>7, <1>8, <1>9, <1>11, <1>12, <1>13 DEF IInv

-----------------------------------------------------------------------------
(* The transactions end.                                                   *)

LEMMA NothingHeard ==
    ASSUME IInv, NEW o \in Owner, txn[o].reply # "NONE"
    PROVE  \A d \in calls : d.heard => d.owner # o
BY DEF IInv, HeardCalls

LEMMA EnrollCommitsPreserves ==
    ASSUME IInv, NEW o \in Owner, EnrollCommits(o)
    PROVE  IInv'
<1> DEFINE row == [key |-> txn[o].key, owner |-> o, state |-> "VALIDATED"]
<1>1. /\ txn[o].op = "prepare" /\ txn[o].reply = "SUCCEEDED" /\ ~Conflicts(txn[o].key)
      /\ txn' = [txn EXCEPT ![o] = Idle] /\ calls' = calls
      /\ portal' = portal /\ staged' = staged /\ host' = host
      /\ issued' = issued /\ faults' = faults
      /\ rows' = [r \in Rec |-> IF r \in txn[o].recs THEN row ELSE rows[r]]
  BY DEF EnrollCommits, Answered, Succeeded, Ends
<1>2. /\ txn'[o] = Idle
      /\ \A p \in Owner : p # o => txn'[p] = txn[p]
  BY <1>1 DEF IInv, Typed
<1>3. row \in Row /\ row.key = txn[o].key /\ row.owner = o /\ row.state = "VALIDATED"
  BY <1>1, RowFacts DEF IInv, Enrolling, Row
<1> HIDE DEF row
<1>4. \A r \in Rec : rows'[r] = IF r \in txn[o].recs THEN row ELSE rows[r]
  BY <1>1
<1>5. \A r \in txn[o].recs :
        /\ rows[r] = NoRow /\ staged[r] = "WHOLE" /\ r <= issued
        /\ \A s \in txn[o].recs : s = r
        /\ \A p \in Owner : txn[p].op = "prepare" /\ r \in txn[p].recs => p = o
        /\ \A c \in calls : c.op \in {"prepare", "discard"} => c.rec # r
  BY <1>1 DEF IInv, Enrolling
<1>6. \A d \in calls : d.heard => d.owner # o
  BY <1>1, NothingHeard
<1>7. Typed'
  <2>1. rows' \in [Rec -> Row \cup {NoRow}]
    BY <1>1, <1>3 DEF IInv, Typed, TypeOK
  <2>2. \A r, s \in Rec : rows'[r] # NoRow /\ rows'[r].key = rows'[s].key => r = s
    BY <1>1, <1>3, <1>4, <1>5 DEF IInv, Typed, TypeOK, Conflicts
  <2>3. txn' \in [Owner -> Transaction]
    BY <1>1, IdleIsTransaction DEF IInv, Typed
  <2>4. QED
    BY <1>1, <2>1, <2>2, <2>3, TypedUnless DEF IInv, Typed, TypeOK
<1>8. HeardCalls'
  BY <1>1, <1>2, <1>6 DEF IInv, HeardCalls, Typed, TypeOK, Call
<1>9. FileCalls'
  <2>1. \A c \in calls : c.op \in {"prepare", "discard"} => c.rec \in Rec
    BY Counting DEF IInv, FileCalls, Typed
  <2>2. QED
    BY <1>1, <1>4, <1>5, <2>1 DEF IInv, FileCalls
<1>10. Enrolling'
  <2>1. \A p \in Owner : txn'[p].op = "prepare" => p # o /\ txn'[p] = txn[p]
    BY <1>2, IdleIsTransaction
  <2>2. \A p \in Owner : \A r \in txn[p].recs :
          r \in Rec /\ (p # o /\ txn[p].op = "prepare" => r \notin txn[o].recs)
    BY <1>5 DEF IInv, Typed, Transaction
  <2>3. QED
    BY <1>1, <1>4, <2>1, <2>2 DEF IInv, Enrolling
<1>11. Unissued' /\ RecordsAreStaged'
  <2>1. Rec \subseteq Nat /\ issued \in Nat
    BY Counting DEF IInv, Typed
  <2>2. QED
    BY <1>1, <1>4, <1>5, <2>1 DEF IInv, Unissued, RecordsAreStaged
<1>12. \A r \in Rec : /\ rows'[r].state \in {"INSTALLED", "SUSPENDED"} => rows'[r] = rows[r]
                      /\ rows[r].state \in {"INSTALLED", "SUSPENDED"} => rows'[r] = rows[r]
                      /\ rows[r] # NoRow => rows'[r] = rows[r]
                      /\ rows'[r] # rows[r] => rows'[r].owner = o
  BY <1>3, <1>4, <1>5, RowFacts
<1>13. ActiveIsInstalled' /\ CountedIsHeld' /\ RecycledIsClosed'
  BY <1>1, <1>12 DEF IInv, ActiveIsInstalled, CountedIsHeld, RecycledIsClosed, Counts
<1>14. Syncing'
  <2> SUFFICES ASSUME NEW p \in Owner, txn'[p].op = "sync"
               PROVE  (/\ \A r \in Rec : r \in txn[p].recs <=> rows[r] # NoRow /\ rows[r].owner = p
                       /\ \E r \in txn[p].recs : rows[r].state = "VALIDATED"
                       /\ portal[p].state = "ACTIVE"
                       /\ txn[p].reply = "SUCCEEDED" =>
                            txn[p].recs \subseteq host[p].keys /\ txn[p].recs \subseteq host[p].named)'
    BY DEF Syncing
  <2>1. p # o /\ txn'[p] = txn[p] /\ txn[p].recs \subseteq Rec
    BY <1>2, IdleIsTransaction DEF IInv, Typed, Transaction
  <2>2. \A r \in Rec : r \in txn[p].recs <=> rows'[r] # NoRow /\ rows'[r].owner = p
    BY <1>12, <2>1, <1>3, <1>4, RowFacts DEF IInv, Syncing
  <2>3. \E r \in txn[p].recs : rows'[r].state = "VALIDATED"
    BY <1>12, <2>1 DEF IInv, Syncing
  <2>4. QED
    BY <1>1, <2>1, <2>2, <2>3 DEF IInv, Syncing
<1>15. SyncCalls'
  <2>1. \A c \in calls : c.current \subseteq Rec
    BY DEF IInv, Typed, TypeOK, Call
  <2>2. QED
    BY <1>1, <1>12, <2>1 DEF IInv, SyncCalls, Counts
<1>16. Recycling'
  <2>1. \A p \in Owner : txn'[p].op = "recycle" => txn'[p] = txn[p]
    BY <1>2, IdleIsTransaction
  <2>2. \A p \in Owner, r \in Rec :
          Counts(r)' /\ rows'[r].owner = p <=> Counts(r) /\ rows[r].owner = p
    BY <1>12 DEF Counts
  <2>3. QED
    BY <1>1, <2>1, <2>2 DEF IInv, Recycling, Counts
<1>17. QED
  BY <1>7, <1>8, <1>9, <1>10, <1>11, <1>13, <1>14, <1>15, <1>16 DEF IInv

LEMMA EnrollFailsPreserves ==
    ASSUME IInv, NEW o \in Owner, EnrollFails(o)
    PROVE  IInv'
<1>1. /\ txn[o].op = "prepare" /\ txn[o].reply # "NONE" /\ txn' = [txn EXCEPT ![o] = Idle]
      /\ rows' = rows /\ portal' = portal /\ staged' = staged /\ host' = host
      /\ issued' = issued /\ faults' = faults
  BY DEF EnrollFails, Answered, Ends
<1>2. PICK r \in txn[o].recs : calls' = calls \cup {Payload("discard", o, r, {}, {})}
  BY DEF EnrollFails
<1> DEFINE c == Payload("discard", o, r, {}, {})
<1>3. r \in Rec
  BY <1>2 DEF IInv, Typed, Transaction
<1>4. c \in Call
  BY <1>3, PayloadType DEF IInv
<1>5. c.op = "discard" /\ c.rec = r /\ c.heard = FALSE
  BY DEF Payload
<1>6. calls' = calls \cup {c}
  BY <1>2
<1> HIDE DEF c
<1>7. /\ txn'[o] = Idle
      /\ \A p \in Owner : p # o => txn'[p] = txn[p]
  BY <1>1 DEF IInv, Typed
<1>8. /\ rows[r] = NoRow /\ r <= issued
      /\ \A p \in Owner : txn[p].op = "prepare" /\ r \in txn[p].recs => p = o
  BY <1>1, <1>2 DEF IInv, Enrolling
<1>9. \A d \in calls : d.heard => d.owner # o
  BY <1>1, NothingHeard
<1>10. Typed'
  <2>1. txn' \in [Owner -> Transaction]
    BY <1>1, IdleIsTransaction DEF IInv, Typed
  <2>2. QED
    BY <1>1, <1>4, <1>6, <2>1, TypedUnless DEF IInv, Typed, TypeOK
<1>11. HeardCalls'
  BY <1>5, <1>6, <1>7, <1>9 DEF IInv, HeardCalls, Typed, TypeOK, Call
<1>12. FileCalls'
  <2>1. r \in 1..issued
    BY <1>3, <1>8, Counting DEF IInv, Typed
  <2>2. QED
    BY <1>1, <1>5, <1>6, <1>8, <2>1 DEF IInv, FileCalls
<1>13. Enrolling'
  BY <1>1, <1>5, <1>6, <1>7, <1>8, IdleIsTransaction DEF IInv, Enrolling
<1>14. Unissued' /\ RecordsAreStaged' /\ ActiveIsInstalled' /\ CountedIsHeld' /\ RecycledIsClosed'
  BY <1>1 DEF IInv, Unissued, RecordsAreStaged, ActiveIsInstalled, CountedIsHeld,
              RecycledIsClosed, Counts
<1>15. Syncing' /\ Recycling'
  BY <1>1, <1>7, IdleIsTransaction DEF IInv, Syncing, Recycling, Counts
<1>16. SyncCalls'
  BY <1>1, <1>5, <1>6 DEF IInv, SyncCalls, Counts
<1>17. QED
  BY <1>10, <1>11, <1>12, <1>13, <1>14, <1>15, <1>16 DEF IInv

(* The end of a sync or of a cleanup, whatever it records.                 *)
LEMMA ChangesPreserve ==
    ASSUME IInv, NEW o \in Owner, Ends(o), txn[o].op \in {"sync", "recycle"},
           txn[o].reply # "NONE",
           NEW recs \in SUBSET txn[o].recs, NEW st \in {"INSTALLED", "SUSPENDED"},
           rows' = Sets(recs, st),
           portal' \in [Owner -> Environment],
           \A p \in Owner : p # o => portal'[p] = portal[p],
           \/ portal'[o].state = portal[o].state
           \/ txn[o].op = "recycle" /\ portal'[o].state \in {"SUSPENDED", "RECYCLED"},
           portal'[o].state = "RECYCLED" => ~host[o].open,
           st = "INSTALLED" => \A r \in recs : r \in host[o].keys /\ r \in host[o].named,
           st = "SUSPENDED" => txn[o].op = "recycle" /\ portal'[o].state # "ACTIVE",
           staged' = staged, host' = host, calls' = calls, issued' = issued, faults' = faults
    PROVE  IInv'
<1>1. /\ txn'[o] = Idle
      /\ \A p \in Owner : p # o => txn'[p] = txn[p]
      /\ txn' \in [Owner -> Transaction]
  BY IdleIsTransaction DEF IInv, Typed, Ends
<1>2. /\ recs \subseteq Rec
      /\ \A r \in recs : rows[r] # NoRow /\ rows[r].owner = o
      /\ txn[o].op = "recycle" => \A r \in recs : Counts(r)
  <2>1. txn[o].recs \subseteq Rec
    BY DEF IInv, Typed, Transaction
  <2>2. CASE txn[o].op = "sync"
    BY <2>1, <2>2 DEF IInv, Syncing
  <2>3. CASE txn[o].op = "recycle"
    BY <2>1, <2>3, RowFacts DEF IInv, Recycling, Counts
  <2>4. QED
    BY <2>2, <2>3
<1>3. /\ rows' \in [Rec -> Row \cup {NoRow}]
      /\ \A r \in Rec : /\ rows'[r].key = rows[r].key /\ rows'[r].owner = rows[r].owner
                        /\ rows'[r].state = IF r \in recs THEN st ELSE rows[r].state
                        /\ rows'[r] = NoRow <=> rows[r] = NoRow
      /\ \A r, s \in Rec : rows'[r] # NoRow /\ rows'[r].key = rows'[s].key => r = s
  BY <1>2, SetsRows DEF IInv
<1>4. \A d \in calls : d.heard => d.owner # o
  BY NothingHeard
<1>5. Typed'
  BY <1>1, <1>3, TypedUnless DEF IInv, Typed, TypeOK
<1>6. HeardCalls'
  BY <1>1, <1>4 DEF IInv, HeardCalls, Typed, TypeOK, Call
<1>7. FileCalls'
  <2>1. \A c \in calls : c.op \in {"prepare", "discard"} => c.rec \in Rec
    BY Counting DEF IInv, FileCalls, Typed
  <2>2. QED
    BY <1>3, <2>1 DEF IInv, FileCalls
<1>8. Enrolling'
  <2>1. \A p \in Owner : txn'[p].op = "prepare" => p # o /\ txn'[p] = txn[p]
    BY <1>1, IdleIsTransaction
  <2>2. \A p \in Owner : txn[p].recs \subseteq Rec
    BY DEF IInv, Typed, Transaction
  <2>3. QED
    BY <1>3, <2>1, <2>2 DEF IInv, Enrolling
<1>9. Unissued' /\ RecordsAreStaged'
  BY <1>3 DEF IInv, Unissued, RecordsAreStaged
<1>10. \A r \in Rec : /\ Counts(r) => Counts(r)'
                      /\ rows[r].owner # o => (Counts(r)' <=> Counts(r))
                      /\ Counts(r)' => Counts(r) \/ (r \in recs /\ st = "INSTALLED")
  BY <1>2, <1>3 DEF Counts
<1>11. Syncing'
  <2> SUFFICES ASSUME NEW p \in Owner, txn'[p].op = "sync"
               PROVE  (/\ \A r \in Rec : r \in txn[p].recs <=> rows[r] # NoRow /\ rows[r].owner = p
                       /\ \E r \in txn[p].recs : rows[r].state = "VALIDATED"
                       /\ portal[p].state = "ACTIVE"
                       /\ txn[p].reply = "SUCCEEDED" =>
                            txn[p].recs \subseteq host[p].keys /\ txn[p].recs \subseteq host[p].named)'
    BY DEF Syncing
  <2>1. p # o /\ txn'[p] = txn[p] /\ txn[p].recs \subseteq Rec
    BY <1>1, IdleIsTransaction DEF IInv, Typed, Transaction
  <2>2. \A r \in Rec : r \in txn[p].recs <=> rows'[r] # NoRow /\ rows'[r].owner = p
    BY <1>3, <2>1 DEF IInv, Syncing
  <2>3. PICK r \in txn[p].recs : rows[r].state = "VALIDATED"
    BY <2>1 DEF IInv, Syncing
  <2>4. rows'[r].state = "VALIDATED"
    BY <1>2, <1>3, <2>1, <2>3 DEF IInv, Syncing
  <2>5. QED
    BY <2>1, <2>2, <2>3, <2>4 DEF IInv, Syncing
<1>12. SyncCalls'
  <2>1. \A c \in calls : c.current \subseteq Rec
    BY DEF IInv, Typed, TypeOK, Call
  <2>2. QED
    BY <1>3, <1>10, <2>1 DEF IInv, SyncCalls
<1>13. Recycling'
  <2> SUFFICES ASSUME NEW p \in Owner, txn'[p].op = "recycle"
               PROVE  (/\ \A r \in Rec : r \in txn[p].recs <=> Counts(r) /\ rows[r].owner = p
                       /\ txn[p].reply = "SUCCEEDED" => ~host[p].open)'
    BY DEF Recycling
  <2>1. p # o /\ txn'[p] = txn[p]
    BY <1>1, IdleIsTransaction
  <2>2. \A r \in Rec : Counts(r)' /\ rows'[r].owner = p <=> Counts(r) /\ rows[r].owner = p
    BY <1>3, <1>10, <2>1
  <2>3. QED
    BY <2>1, <2>2 DEF IInv, Recycling
<1>14. ActiveIsInstalled'
  <2> SUFFICES ASSUME NEW r \in Rec, rows'[r].state = "SUSPENDED"
               PROVE  portal'[rows'[r].owner].state # "ACTIVE"
    BY DEF ActiveIsInstalled
  <2>1. CASE r \in recs
    BY <1>2, <1>3, <2>1
  <2>2. CASE r \notin recs
    <3>1. rows[r].state = "SUSPENDED" /\ rows'[r].owner = rows[r].owner /\ rows[r].owner \in Owner
      BY <1>3, <2>2, RowFacts DEF IInv, Typed
    <3>2. portal[rows[r].owner].state # "ACTIVE"
      BY <3>1 DEF IInv, ActiveIsInstalled
    <3>3. QED
      BY <3>1, <3>2
  <2>3. QED
    BY <2>1, <2>2
<1>15. CountedIsHeld'
  BY <1>2, <1>3, <1>10 DEF IInv, CountedIsHeld
<1>16. RecycledIsClosed'
  BY DEF IInv, RecycledIsClosed
<1>17. QED
  BY <1>5, <1>6, <1>7, <1>8, <1>9, <1>11, <1>12, <1>13, <1>14, <1>15, <1>16 DEF IInv

LEMMA SetsNothing ==
    ASSUME Typed, NEW st
    PROVE  Sets({}, st) = rows
BY DEF Sets, Typed, TypeOK

LEMMA FinishesPreserves ==
    ASSUME IInv, NEW o \in Owner, Finishes(o)
    PROVE  IInv'
<1>1. CASE SyncCommits(o)
  <2>1. /\ txn[o].op = "sync" /\ txn[o].reply = "SUCCEEDED" /\ Ends(o)
        /\ rows' = Sets(txn[o].recs, "INSTALLED")
        /\ portal' = portal /\ staged' = staged /\ host' = host /\ calls' = calls
        /\ issued' = issued /\ faults' = faults
    BY <1>1 DEF SyncCommits, Answered, Succeeded
  <2>2. \A r \in txn[o].recs : r \in host[o].keys /\ r \in host[o].named
    BY <2>1 DEF IInv, Syncing
  <2>3. portal \in [Owner -> Environment] /\ portal[o].state # "RECYCLED"
    BY <2>1 DEF IInv, Typed, TypeOK, Syncing
  <2>4. QED
    BY <2>1, <2>2, <2>3, ChangesPreserve
<1>2. CASE SyncFails(o)
  <2>1. /\ txn[o].op = "sync" /\ txn[o].reply # "NONE" /\ Ends(o)
        /\ rows' = Sets({}, "INSTALLED")
        /\ portal' = portal /\ staged' = staged /\ host' = host /\ calls' = calls
        /\ issued' = issued /\ faults' = faults
    BY <1>2, SetsNothing DEF IInv, SyncFails, Answered
  <2>2. portal \in [Owner -> Environment] /\ portal[o].state # "RECYCLED"
    BY <2>1 DEF IInv, Typed, TypeOK, Syncing
  <2>3. QED
    BY <2>1, <2>2, ChangesPreserve
<1>3. CASE RecycleSucceeds(o)
  <2>1. /\ txn[o].op = "recycle" /\ txn[o].reply = "SUCCEEDED" /\ Ends(o)
        /\ rows' = Sets(txn[o].recs, "SUSPENDED")
        /\ portal' = [portal EXCEPT ![o].state = "RECYCLED"]
        /\ staged' = staged /\ host' = host /\ calls' = calls
        /\ issued' = issued /\ faults' = faults
    BY <1>3 DEF RecycleSucceeds, Answered, Succeeded
  <2>2. /\ portal' \in [Owner -> Environment] /\ portal'[o].state = "RECYCLED"
        /\ \A p \in Owner : p # o => portal'[p] = portal[p]
    BY <2>1 DEF IInv, Typed, TypeOK, Environment
  <2>3. ~host[o].open
    BY <2>1 DEF IInv, Recycling
  <2>4. QED
    BY <2>1, <2>2, <2>3, ChangesPreserve
<1>4. CASE RecycleFails(o)
  <2>1. /\ txn[o].op = "recycle" /\ txn[o].reply # "NONE" /\ Ends(o)
        /\ rows' = Sets(txn[o].recs, "SUSPENDED") \/ rows' = Sets({}, "SUSPENDED")
        /\ portal' = [portal EXCEPT ![o].state = "SUSPENDED"]
        /\ staged' = staged /\ host' = host /\ calls' = calls
        /\ issued' = issued /\ faults' = faults
    BY <1>4, SetsNothing DEF IInv, RecycleFails, Answered
  <2>2. /\ portal' \in [Owner -> Environment] /\ portal'[o].state = "SUSPENDED"
        /\ \A p \in Owner : p # o => portal'[p] = portal[p]
    BY <2>1 DEF IInv, Typed, TypeOK, Environment
  <2>3. PICK recs \in SUBSET txn[o].recs : rows' = Sets(recs, "SUSPENDED")
    BY <2>1
  <2>4. QED
    BY <2>1, <2>2, <2>3, ChangesPreserve
<1>5. QED
  BY <1>1, <1>2, <1>3, <1>4, EnrollCommitsPreserves, EnrollFailsPreserves DEF Finishes

(* A caller that gives up or dies leaves its calls behind.                 *)
LEMMA AbandonsPreserves ==
    ASSUME IInv, NEW o \in Owner, TimesOut(o) \/ Dies(o)
    PROVE  IInv'
<1>1. /\ calls' = Abandoned(o) /\ rows' = rows /\ portal' = portal /\ staged' = staged
      /\ host' = host /\ issued' = issued /\ faults' = faults + 1 /\ faults < MaxFaults
  BY DEF TimesOut, Dies, Fault
<1>2. PICK t \in Transaction :
        /\ txn' = [txn EXCEPT ![o] = t]
        /\ \/ t.op = "idle"
           \/ t.op = txn[o].op /\ t.key = txn[o].key /\ t.recs = txn[o].recs /\ t.reply = "LOST"
  <2>1. CASE TimesOut(o)
    <3> DEFINE t == [txn[o] EXCEPT !.reply = "LOST"]
    <3>1. /\ t \in Transaction /\ t.op = txn[o].op /\ t.key = txn[o].key /\ t.recs = txn[o].recs
          /\ t.reply = "LOST"
      BY DEF IInv, Typed, Transaction, Replies
    <3>2. txn' = [txn EXCEPT ![o] = t]
      BY <2>1 DEF TimesOut, IInv, Typed
    <3> HIDE DEF t
    <3>3. QED
      BY <3>1, <3>2
  <2>2. CASE Dies(o)
    BY <2>2, IdleIsTransaction DEF Dies, Ends
  <2>3. QED
    BY <2>1, <2>2
<1>3. /\ txn'[o] = t
      /\ \A p \in Owner : p # o => txn'[p] = txn[p]
      /\ txn' \in [Owner -> Transaction]
  BY <1>2 DEF IInv, Typed
<1>4. \A d \in calls' : \E c \in calls :
        d = IF c.heard /\ c.owner = o THEN [c EXCEPT !.heard = FALSE, !.left = faults] ELSE c
  BY <1>1, Leaves
<1>5. \A d \in calls' : \E c \in calls :
        /\ d = IF c.heard /\ c.owner = o THEN [c EXCEPT !.heard = FALSE, !.left = faults] ELSE c
        /\ d.op = c.op /\ d.owner = c.owner /\ d.rec = c.rec
        /\ d.current = c.current /\ d.target = c.target
        /\ d.heard => c.heard /\ d.owner # o /\ d = c
  <2> SUFFICES ASSUME NEW d \in calls'
               PROVE  \E c \in calls :
                        /\ d = IF c.heard /\ c.owner = o
                               THEN [c EXCEPT !.heard = FALSE, !.left = faults] ELSE c
                        /\ d.op = c.op /\ d.owner = c.owner /\ d.rec = c.rec
                        /\ d.current = c.current /\ d.target = c.target
                        /\ d.heard => c.heard /\ d.owner # o /\ d = c
    OBVIOUS
  <2>1. PICK c \in calls :
          d = IF c.heard /\ c.owner = o THEN [c EXCEPT !.heard = FALSE, !.left = faults] ELSE c
    BY <1>4
  <2>2. c \in Call
    BY DEF IInv, Typed, TypeOK
  <2>3. /\ d.op = c.op /\ d.owner = c.owner /\ d.rec = c.rec
        /\ d.current = c.current /\ d.target = c.target
        /\ d.heard => c.heard /\ d.owner # o /\ d = c
    BY <2>1, <2>2 DEF Call
  <2>4. QED
    BY <2>1, <2>3
<1>6. Typed'
  <2>1. faults' \in 0..MaxFaults
    BY <1>1, KeysAssumption DEF IInv, Typed
  <2>2. QED
    BY <1>1, <1>3, <2>1, AbandonedType, TypedUnless DEF IInv, Typed, TypeOK
<1>7. HeardCalls'
  <2>1. \A d \in calls' : d.heard => d \in calls /\ d.owner # o /\ d.owner \in Owner
    BY <1>5 DEF IInv, Typed, TypeOK, Call
  <2>2. QED
    BY <1>3, <2>1 DEF IInv, HeardCalls
<1>7a. ASSUME NEW d \in calls'
       PROVE  \E c \in calls : /\ d.op = c.op /\ d.owner = c.owner /\ d.rec = c.rec
                               /\ d.current = c.current /\ d.target = c.target
  BY <1>5
<1>8. FileCalls'
  <2>1. ASSUME NEW d \in calls', d.op \in {"prepare", "discard"}
        PROVE  d.rec \in 1..issued /\ rows[d.rec] = NoRow
    <3>1. PICK c \in calls : d.op = c.op /\ d.rec = c.rec
      BY <1>7a
    <3>2. QED
      BY <2>1, <3>1 DEF IInv, FileCalls
  <2>2. ASSUME NEW d \in calls', NEW e \in calls', d.op = "prepare", e.op = "prepare", d.rec = e.rec
        PROVE  d = e
    <3>1. PICK c \in calls :
            /\ d = IF c.heard /\ c.owner = o THEN [c EXCEPT !.heard = FALSE, !.left = faults] ELSE c
            /\ d.op = c.op /\ d.rec = c.rec
      BY <1>5
    <3>2. PICK b \in calls :
            /\ e = IF b.heard /\ b.owner = o THEN [b EXCEPT !.heard = FALSE, !.left = faults] ELSE b
            /\ e.op = b.op /\ e.rec = b.rec
      BY <1>5
    <3>3. b = c
      BY <2>2, <3>1, <3>2 DEF IInv, FileCalls
    <3>4. QED
      BY <3>1, <3>2, <3>3
  <2>3. QED
    BY <1>1, <2>1, <2>2 DEF FileCalls
<1>9. Enrolling'
  <2> SUFFICES ASSUME NEW p \in Owner, txn'[p].op = "prepare"
               PROVE  (/\ txn[p].key \in Key
                       /\ \A r \in txn[p].recs :
                            /\ r <= issued /\ rows[r] = NoRow
                            /\ \A s \in txn[p].recs : s = r
                            /\ \A q \in Owner : txn[q].op = "prepare" /\ r \in txn[q].recs => q = p
                            /\ \A c \in calls : c.op = "discard" => c.rec # r
                            /\ txn[p].reply = "SUCCEEDED" =>
                                 /\ staged[r] = "WHOLE"
                                 /\ \A c \in calls : c.op = "prepare" => c.rec # r)'
    BY DEF Enrolling
  <2>1. \A q \in Owner : txn'[q].op = "prepare" =>
          /\ txn[q].op = "prepare" /\ txn'[q].key = txn[q].key /\ txn'[q].recs = txn[q].recs
          /\ txn'[q].reply = "SUCCEEDED" => txn[q].reply = "SUCCEEDED"
    BY <1>2, <1>3
  <2>2. \A r \in txn[p].recs : \A d \in calls' :
          /\ d.op = "discard" => d.rec # r
          /\ txn[p].reply = "SUCCEEDED" /\ d.op = "prepare" => d.rec # r
    <3> SUFFICES ASSUME NEW r \in txn[p].recs, NEW d \in calls'
                 PROVE  /\ d.op = "discard" => d.rec # r
                        /\ txn[p].reply = "SUCCEEDED" /\ d.op = "prepare" => d.rec # r
      OBVIOUS
    <3>1. PICK c \in calls : d.op = c.op /\ d.rec = c.rec
      BY <1>7a
    <3>2. QED
      BY <2>1, <3>1 DEF IInv, Enrolling
  <2>3. QED
    BY <1>1, <2>1, <2>2 DEF IInv, Enrolling
<1>10. Unissued' /\ RecordsAreStaged' /\ ActiveIsInstalled' /\ CountedIsHeld' /\ RecycledIsClosed'
  BY <1>1 DEF IInv, Unissued, RecordsAreStaged, ActiveIsInstalled, CountedIsHeld,
              RecycledIsClosed, Counts
<1>11. Syncing' /\ Recycling'
  BY <1>1, <1>2, <1>3 DEF IInv, Syncing, Recycling, Counts
<1>12. SyncCalls'
  <2> SUFFICES ASSUME NEW d \in calls', d.op = "sync"
               PROVE  /\ d.current \subseteq d.target
                      /\ \A r \in d.current : Counts(r) /\ rows[r].owner = d.owner
    BY <1>1 DEF SyncCalls, Counts
  <2>1. PICK c \in calls : /\ d.op = c.op /\ d.owner = c.owner
                           /\ d.current = c.current /\ d.target = c.target
    BY <1>7a
  <2>2. QED
    BY <2>1 DEF IInv, SyncCalls
<1>13. QED
  BY <1>6, <1>7, <1>8, <1>9, <1>10, <1>11, <1>12 DEF IInv

-----------------------------------------------------------------------------
(* The end of a lease and its return.                                      *)

LEMMA LeaseEndsPreserves ==
    ASSUME IInv, NEW o \in Owner, LeaseEnds(o)
    PROVE  IInv'
<1>1. /\ portal' = [portal EXCEPT ![o].over = TRUE]
      /\ rows' = rows /\ staged' = staged /\ host' = host /\ txn' = txn /\ calls' = calls
      /\ issued' = issued /\ faults' = faults
  BY DEF LeaseEnds
<1>2. /\ portal' \in [Owner -> Environment]
      /\ \A p \in Owner : portal'[p].state = portal[p].state
  BY <1>1 DEF IInv, Typed, TypeOK, Environment
<1>3. Typed'
  BY <1>1, <1>2, TypedUnless DEF IInv, Typed, TypeOK
<1>4. HeardCalls' /\ FileCalls' /\ Enrolling' /\ Unissued' /\ RecordsAreStaged'
  BY <1>1 DEF IInv, HeardCalls, FileCalls, Enrolling, Unissued, RecordsAreStaged
<1>5. SyncCalls' /\ Recycling' /\ CountedIsHeld'
  BY <1>1 DEF IInv, SyncCalls, Recycling, CountedIsHeld, Counts
<1>6. Syncing' /\ RecycledIsClosed'
  BY <1>1, <1>2 DEF IInv, Syncing, RecycledIsClosed
<1>7. ActiveIsInstalled'
  <2> SUFFICES ASSUME NEW r \in Rec, rows[r].state = "SUSPENDED"
               PROVE  portal'[rows[r].owner].state # "ACTIVE"
    BY <1>1 DEF ActiveIsInstalled
  <2>1. rows[r].owner \in Owner
    BY RowFacts DEF IInv, Typed
  <2>2. QED
    BY <1>2, <2>1 DEF IInv, ActiveIsInstalled
<1>8. QED
  BY <1>3, <1>4, <1>5, <1>6, <1>7 DEF IInv

LEMMA RestorePreserves ==
    ASSUME IInv, NEW o \in Owner, Restore(o)
    PROVE  IInv'
<1> DEFINE keys == In(o, {"SUSPENDED"})
           next == portal[o].lease + 1
<1>1. /\ txn[o] = Idle /\ next <= MaxLease /\ host[o].keys = keys /\ host[o].named = keys
      /\ rows' = Sets(keys, "INSTALLED")
      /\ portal' = [portal EXCEPT ![o] = [state |-> "ACTIVE", lease |-> next, over |-> FALSE]]
      /\ host' = [host EXCEPT ![o].status = "ACTIVE", ![o].lease = next, ![o].open = TRUE]
      /\ staged' = staged /\ txn' = txn /\ calls' = calls
      /\ issued' = issued /\ faults' = faults
  BY DEF Restore
<1>2. next \in 1..MaxLease
  BY <1>1, KeysAssumption DEF IInv, Typed, TypeOK, Environment
<1> HIDE DEF next
<1>3. /\ portal' \in [Owner -> Environment] /\ portal'[o].state = "ACTIVE"
      /\ \A p \in Owner : p # o => portal'[p] = portal[p]
  BY <1>1, <1>2 DEF IInv, Typed, TypeOK, Environment
<1>4. /\ host' \in [Owner -> Host]
      /\ \A p \in Owner : host'[p].keys = host[p].keys /\ host'[p].named = host[p].named
      /\ \A p \in Owner : p # o => host'[p] = host[p]
  <2>1. host[o] \in Host /\ host \in [Owner -> Host]
    BY DEF IInv, Typed, TypeOK
  <2> DEFINE g == [host[o] EXCEPT !.status = "ACTIVE", !.lease = next, !.open = TRUE]
  <2>2. g \in Host /\ g.keys = host[o].keys /\ g.named = host[o].named
    BY <1>2, <2>1 DEF Host
  <2>3. host' = [host EXCEPT ![o] = g]
    BY <1>1, <2>1
  <2> HIDE DEF g
  <2>4. QED
    BY <2>1, <2>2, <2>3
<1>5. /\ keys \in SUBSET Rec
      /\ \A r \in Rec : r \in keys <=> rows[r].state = "SUSPENDED" /\ rows[r].owner = o
      /\ \A r \in keys : rows[r] # NoRow
  BY RowFacts DEF In, Recorded, IInv, Typed
<1> HIDE DEF keys
<1>6. /\ rows' \in [Rec -> Row \cup {NoRow}]
      /\ \A r \in Rec : /\ rows'[r].key = rows[r].key /\ rows'[r].owner = rows[r].owner
                        /\ rows'[r].state = IF r \in keys THEN "INSTALLED" ELSE rows[r].state
                        /\ rows'[r] = NoRow <=> rows[r] = NoRow
      /\ \A r, s \in Rec : rows'[r] # NoRow /\ rows'[r].key = rows'[s].key => r = s
  BY <1>1, <1>5, SetsRows DEF IInv
<1>7. \A r \in Rec : Counts(r)' <=> Counts(r)
  BY <1>5, <1>6 DEF Counts
<1>8. Typed'
  BY <1>1, <1>3, <1>4, <1>6, TypedUnless DEF IInv, Typed, TypeOK
<1>9. HeardCalls'
  BY <1>1 DEF IInv, HeardCalls
<1>10. FileCalls'
  <2>1. \A c \in calls : c.op \in {"prepare", "discard"} => c.rec \in Rec
    BY Counting DEF IInv, FileCalls, Typed
  <2>2. QED
    BY <1>1, <1>6, <2>1 DEF IInv, FileCalls
<1>11. \A p \in Owner : txn[p].recs \subseteq Rec
  BY DEF IInv, Typed, Transaction
<1>12. Enrolling'
  BY <1>1, <1>6, <1>11 DEF IInv, Enrolling
<1>13. Unissued' /\ RecordsAreStaged'
  BY <1>1, <1>6 DEF IInv, Unissued, RecordsAreStaged
<1>14. Syncing'
  <2> SUFFICES ASSUME NEW p \in Owner, txn'[p].op = "sync"
               PROVE  (/\ \A r \in Rec : r \in txn[p].recs <=> rows[r] # NoRow /\ rows[r].owner = p
                       /\ \E r \in txn[p].recs : rows[r].state = "VALIDATED"
                       /\ portal[p].state = "ACTIVE"
                       /\ txn[p].reply = "SUCCEEDED" =>
                            txn[p].recs \subseteq host[p].keys /\ txn[p].recs \subseteq host[p].named)'
    BY DEF Syncing
  <2>1. p # o /\ txn[p].op = "sync"
    BY <1>1, IdleIsTransaction
  <2>2. PICK r \in txn[p].recs : rows[r].state = "VALIDATED"
    BY <2>1 DEF IInv, Syncing
  <2>3. r \in Rec /\ rows'[r].state = "VALIDATED"
    BY <1>5, <1>6, <1>11, <2>2
  <2>4. QED
    BY <1>1, <1>3, <1>4, <1>6, <2>1, <2>3 DEF IInv, Syncing
<1>15. SyncCalls'
  <2>1. \A c \in calls : c.current \subseteq Rec
    BY DEF IInv, Typed, TypeOK, Call
  <2>2. QED
    BY <1>1, <1>6, <1>7, <2>1 DEF IInv, SyncCalls
<1>16. Recycling'
  <2> SUFFICES ASSUME NEW p \in Owner, txn[p].op = "recycle"
               PROVE  /\ \A r \in Rec : r \in txn[p].recs <=> Counts(r)' /\ rows'[r].owner = p
                      /\ txn[p].reply = "SUCCEEDED" => ~host'[p].open
    BY <1>1 DEF Recycling
  <2>1. p # o
    BY <1>1, IdleIsTransaction
  <2>2. QED
    BY <1>4, <1>6, <1>7, <2>1 DEF IInv, Recycling
<1>17. ActiveIsInstalled'
  <2> SUFFICES ASSUME NEW r \in Rec, rows'[r].state = "SUSPENDED"
               PROVE  portal'[rows'[r].owner].state # "ACTIVE"
    BY DEF ActiveIsInstalled
  <2>1. /\ r \notin keys /\ rows[r].state = "SUSPENDED" /\ rows'[r].owner = rows[r].owner
        /\ rows[r].owner \in Owner
    BY <1>6, RowFacts DEF IInv, Typed
  <2>2. rows[r].owner # o
    BY <1>5, <2>1
  <2>3. QED
    BY <1>3, <2>1, <2>2 DEF IInv, ActiveIsInstalled
<1>18. CountedIsHeld'
  <2> SUFFICES ASSUME NEW r \in Rec, Counts(r)
               PROVE  r \in host'[rows[r].owner].keys /\ r \in host'[rows[r].owner].named
    BY <1>6, <1>7 DEF CountedIsHeld
  <2>1. rows[r].owner \in Owner
    BY RowFacts DEF IInv, Typed, Counts
  <2>2. QED
    BY <1>4, <2>1 DEF IInv, CountedIsHeld
<1>19. RecycledIsClosed'
  BY <1>3, <1>4 DEF IInv, RecycledIsClosed
<1>20. QED
  BY <1>8, <1>9, <1>10, <1>12, <1>13, <1>14, <1>15, <1>16, <1>17, <1>18, <1>19 DEF IInv

-----------------------------------------------------------------------------
(* The Worker.                                                             *)

(* What a reply changes: the transaction that waits for it, if one does.   *)
LEMMA RepliedTxn ==
    ASSUME IInv, NEW c \in calls, NEW reply \in Replies, Replied(c, reply)
    PROVE  /\ c.owner \in Owner /\ txn' \in [Owner -> Transaction] /\ calls' = calls \ {c}
           /\ rows' = rows /\ portal' = portal /\ issued' = issued
           /\ \A o \in Owner : /\ txn'[o].op = txn[o].op /\ txn'[o].key = txn[o].key
                               /\ txn'[o].recs = txn[o].recs
                               /\ txn'[o].reply = IF c.heard /\ o = c.owner THEN reply
                                                  ELSE txn[o].reply
<1>1. /\ c.owner \in Owner /\ calls' = calls \ {c} /\ txn \in [Owner -> Transaction]
      /\ rows' = rows /\ portal' = portal /\ issued' = issued
      /\ txn' = IF c.heard THEN [txn EXCEPT ![c.owner].reply = reply] ELSE txn
  BY DEF Replied, IInv, Typed, TypeOK, Call
<1>2. QED
  BY <1>1 DEF Transaction

LEMMA FilesPreserve ==
    ASSUME IInv, NEW c \in calls, c.op \in {"prepare", "discard"}, faults' \in 0..MaxFaults,
           NEW w, ServesFiles(c, w), w.file \in {"ABSENT", "HALF", "WHOLE"}, w.reply \in Replies,
           c.op = "prepare" /\ w.reply = "SUCCEEDED" => w.file = "WHOLE"
    PROVE  IInv'
<1>1. /\ staged' = [staged EXCEPT ![c.rec] = w.file] /\ host' = host /\ Replied(c, w.reply)
  BY DEF ServesFiles
<1>2. /\ c.owner \in Owner /\ txn' \in [Owner -> Transaction] /\ calls' = calls \ {c}
      /\ rows' = rows /\ portal' = portal /\ issued' = issued
      /\ \A o \in Owner : /\ txn'[o].op = txn[o].op /\ txn'[o].key = txn[o].key
                          /\ txn'[o].recs = txn[o].recs
                          /\ txn'[o].reply = IF c.heard /\ o = c.owner THEN w.reply
                                             ELSE txn[o].reply
  BY <1>1, RepliedTxn
<1>3. c.rec \in Rec /\ rows[c.rec] = NoRow
  BY Counting DEF IInv, FileCalls, Typed
<1>4. /\ staged' \in [Rec -> {"ABSENT", "HALF", "WHOLE"}] /\ staged'[c.rec] = w.file
      /\ \A r \in Rec : r # c.rec => staged'[r] = staged[r]
  BY <1>1, <1>3 DEF IInv, Typed, TypeOK
<1>5. c.heard => /\ c.op = "prepare" /\ txn[c.owner].op = "prepare" /\ txn[c.owner].recs = {c.rec}
                 /\ \A d \in calls : d.heard /\ d.owner = c.owner => d = c
  BY <1>2 DEF IInv, HeardCalls, Typed, TypeOK
<1>6. Typed'
  BY <1>1, <1>2, <1>4, TypedUnless DEF IInv, Typed, TypeOK
<1>7. HeardCalls'
  <2>1. \A d \in calls : d.owner \in Owner
    BY DEF IInv, Typed, TypeOK, Call
  <2>2. QED
    BY <1>2, <1>5, <2>1 DEF IInv, HeardCalls
<1>8. FileCalls' /\ SyncCalls'
  BY <1>2 DEF IInv, FileCalls, SyncCalls, Counts
<1>9. Enrolling'
  <2> SUFFICES ASSUME NEW o \in Owner, txn[o].op = "prepare", NEW r \in txn[o].recs,
                      txn'[o].reply = "SUCCEEDED"
               PROVE  staged'[r] = "WHOLE" /\ \A d \in calls' : d.op = "prepare" => d.rec # r
    BY <1>2 DEF IInv, Enrolling
  <2>1. CASE c.heard /\ o = c.owner
    BY <1>2, <1>4, <1>5, <2>1 DEF IInv, FileCalls
  <2>2. CASE ~(c.heard /\ o = c.owner)
    <3>1. txn[o].reply = "SUCCEEDED" /\ r \in Rec
      BY <1>2, <2>2 DEF IInv, Typed, Transaction
    <3>2. staged[r] = "WHOLE" /\ c.rec # r /\ \A d \in calls : d.op = "prepare" => d.rec # r
      BY <3>1 DEF IInv, Enrolling
    <3>3. QED
      BY <1>2, <1>4, <3>1, <3>2
  <2>3. QED
    BY <2>1, <2>2
<1>10. Unissued' /\ ActiveIsInstalled' /\ CountedIsHeld' /\ RecycledIsClosed'
  BY <1>1, <1>2 DEF IInv, Unissued, ActiveIsInstalled, CountedIsHeld, RecycledIsClosed, Counts
<1>11. RecordsAreStaged'
  BY <1>2, <1>3, <1>4 DEF IInv, RecordsAreStaged
<1>12. Syncing' /\ Recycling'
  BY <1>1, <1>2, <1>5 DEF IInv, Syncing, Recycling, Counts
<1>13. QED
  BY <1>6, <1>7, <1>8, <1>9, <1>10, <1>11, <1>12 DEF IInv

LEMMA HostPreserves ==
    ASSUME IInv, NEW c \in calls, faults' \in 0..MaxFaults, NEW w, ServesHost(c, w),
           \/ c.op = "sync" /\ w \in {SyncOutcome(c, host[c.owner])} \cup SyncFaults(c, host[c.owner])
           \/ c.op = "recycle"
              /\ w \in {RecycleOutcome(c, host[c.owner])} \cup RecycleFaults(c, host[c.owner])
    PROVE  IInv'
<1> DEFINE h == host[c.owner]
           g == w.host
<1>1. c \in Call /\ c.owner \in Owner /\ h \in Host
  BY DEF IInv, Typed, TypeOK, Call
<1>2. /\ g \in Host /\ w.reply \in Replies /\ (~h.open => ~g.open)
      /\ \/ g.keys = h.keys /\ g.named = h.named
         \/ /\ c.op = "sync" /\ h.named = c.current
            /\ g.keys \in {c.current, c.target} /\ g.named \in {c.current, c.target}
      /\ w.reply = "SUCCEEDED" =>
           \/ c.op = "sync" /\ g.keys = c.target /\ g.named = c.target
           \/ c.op = "recycle" /\ ~g.open
  <2>1. CASE c.op = "sync"
    BY <1>1, <2>1, SyncOutcomes
  <2>2. CASE c.op = "recycle"
    BY <1>1, <2>2, RecycleOutcomes
  <2>3. QED
    BY <2>1, <2>2
<1>3. host' = [host EXCEPT ![c.owner] = g] /\ staged' = staged /\ Replied(c, w.reply)
  BY DEF ServesHost
<1>4. /\ txn' \in [Owner -> Transaction] /\ calls' = calls \ {c}
      /\ rows' = rows /\ portal' = portal /\ issued' = issued
      /\ \A o \in Owner : /\ txn'[o].op = txn[o].op /\ txn'[o].key = txn[o].key
                          /\ txn'[o].recs = txn[o].recs
                          /\ txn'[o].reply = IF c.heard /\ o = c.owner THEN w.reply
                                             ELSE txn[o].reply
  BY <1>2, <1>3, RepliedTxn
<1>5. /\ host' \in [Owner -> Host] /\ host'[c.owner] = g
      /\ \A o \in Owner : o # c.owner => host'[o] = host[o]
  BY <1>1, <1>2, <1>3 DEF IInv, Typed, TypeOK
<1> HIDE DEF g
<1>6. c.heard => /\ txn[c.owner].op = c.op /\ txn[c.owner].reply = "NONE"
                 /\ c.op = "sync" => txn[c.owner].recs = c.target
                 /\ \A d \in calls : d.heard /\ d.owner = c.owner => d = c
  BY DEF IInv, HeardCalls
<1>7. Typed'
  BY <1>3, <1>4, <1>5, TypedUnless DEF IInv, Typed, TypeOK
<1>8. HeardCalls'
  <2>1. \A d \in calls : d.owner \in Owner
    BY DEF IInv, Typed, TypeOK, Call
  <2>2. QED
    BY <1>4, <1>6, <2>1 DEF IInv, HeardCalls
<1>9. FileCalls' /\ SyncCalls'
  BY <1>4 DEF IInv, FileCalls, SyncCalls, Counts
<1>10. Enrolling'
  <2>1. \A o \in Owner : txn[o].op = "prepare" => txn'[o].reply = txn[o].reply
    BY <1>4, <1>6
  <2>2. QED
    BY <1>3, <1>4, <2>1 DEF IInv, Enrolling
<1>11. Unissued' /\ RecordsAreStaged' /\ ActiveIsInstalled'
  BY <1>3, <1>4 DEF IInv, Unissued, RecordsAreStaged, ActiveIsInstalled
<1>12. Syncing'
  <2> SUFFICES ASSUME NEW o \in Owner, txn[o].op = "sync", txn'[o].reply = "SUCCEEDED"
               PROVE  txn[o].recs \subseteq host'[o].keys /\ txn[o].recs \subseteq host'[o].named
    BY <1>4 DEF IInv, Syncing
  <2>1. CASE o # c.owner
    BY <1>4, <1>5, <2>1 DEF IInv, Syncing
  <2>2. CASE o = c.owner /\ c.heard
    BY <1>2, <1>4, <1>5, <1>6, <2>2
  <2>3. CASE o = c.owner /\ ~c.heard
    <3>1. txn[o].reply = "SUCCEEDED"
      BY <1>4, <2>3
    <3>2. txn[o].recs \subseteq h.keys /\ txn[o].recs \subseteq h.named
      BY <2>3, <3>1 DEF IInv, Syncing
    <3>3. PICK r \in txn[o].recs : rows[r].state = "VALIDATED"
      BY DEF IInv, Syncing
    <3>4. ~(c.op = "sync" /\ h.named = c.current)
      BY <3>2, <3>3 DEF IInv, SyncCalls, Counts
    <3>5. QED
      BY <1>2, <1>5, <2>3, <3>2, <3>4
  <2>4. QED
    BY <2>1, <2>2, <2>3
<1>13. Recycling'
  <2> SUFFICES ASSUME NEW o \in Owner, txn[o].op = "recycle", txn'[o].reply = "SUCCEEDED"
               PROVE  ~host'[o].open
    BY <1>4 DEF IInv, Recycling, Counts
  <2>1. CASE o # c.owner
    BY <1>4, <1>5, <2>1 DEF IInv, Recycling
  <2>2. CASE o = c.owner
    BY <1>2, <1>4, <1>5, <1>6, <2>2 DEF IInv, Recycling
  <2>3. QED
    BY <2>1, <2>2
<1>14. CountedIsHeld'
  <2> SUFFICES ASSUME NEW r \in Rec, Counts(r)
               PROVE  r \in host'[rows[r].owner].keys /\ r \in host'[rows[r].owner].named
    BY <1>4 DEF CountedIsHeld, Counts
  <2>1. /\ rows[r].owner \in Owner
        /\ r \in host[rows[r].owner].keys /\ r \in host[rows[r].owner].named
    BY RowFacts DEF IInv, Typed, Counts, CountedIsHeld
  <2>2. CASE rows[r].owner # c.owner
    BY <1>5, <2>1, <2>2
  <2>3. CASE rows[r].owner = c.owner
    <3>1. c.op = "sync" => c.current \subseteq c.target
      BY DEF IInv, SyncCalls
    <3>2. QED
      BY <1>2, <1>5, <2>1, <2>3, <3>1
  <2>4. QED
    BY <2>2, <2>3
<1>15. RecycledIsClosed'
  BY <1>2, <1>4, <1>5 DEF IInv, RecycledIsClosed
<1>16. QED
  BY <1>7, <1>8, <1>9, <1>10, <1>11, <1>12, <1>13, <1>14, <1>15 DEF IInv

LEMMA WorkerPreserves ==
    ASSUME IInv, NEW c \in calls, Serves(c) \/ WorkerFails(c)
    PROVE  IInv'
<1>1. faults' \in 0..MaxFaults
  BY KeysAssumption DEF Serves, WorkerFails, Fault, IInv, Typed
<1>2. CASE c.op \in {"prepare", "discard"}
  <2>1. c.rec \in Rec /\ staged[c.rec] \in {"ABSENT", "HALF", "WHOLE"}
    BY <1>2, Counting DEF IInv, FileCalls, Typed, TypeOK
  <2>2. PICK w : /\ ServesFiles(c, w)
                 /\ \/ c.op = "prepare" /\ w = PrepareOutcome(staged[c.rec])
                    \/ c.op = "prepare" /\ w \in PrepareFaults(staged[c.rec])
                    \/ c.op = "discard" /\ w = DiscardOutcome(staged[c.rec])
                    \/ c.op = "discard" /\ w \in DiscardFaults(staged[c.rec])
    BY <1>2 DEF Serves, WorkerFails
  <2>3. /\ w.file \in {"ABSENT", "HALF", "WHOLE"} /\ w.reply \in Replies
        /\ c.op = "prepare" /\ w.reply = "SUCCEEDED" => w.file = "WHOLE"
    BY <2>1, <2>2 DEF PrepareOutcome, PrepareFaults, DiscardOutcome, DiscardFaults, Files, Replies
  <2>4. QED
    BY <1>1, <1>2, <2>2, <2>3, FilesPreserve
<1>3. CASE c.op \in {"sync", "recycle"}
  <2>1. PICK w :
          /\ ServesHost(c, w)
          /\ \/ /\ c.op = "sync"
                /\ w \in {SyncOutcome(c, host[c.owner])} \cup SyncFaults(c, host[c.owner])
             \/ /\ c.op = "recycle"
                /\ w \in {RecycleOutcome(c, host[c.owner])} \cup RecycleFaults(c, host[c.owner])
    BY <1>3 DEF Serves, WorkerFails
  <2>2. QED
    BY <1>1, <2>1, HostPreserves
<1>4. c.op \in {"prepare", "discard", "sync", "recycle"}
  BY DEF IInv, Typed, TypeOK, Call
<1>5. QED
  BY <1>2, <1>3, <1>4

LEMMA NextIInv == IInv /\ [Next]_vars => IInv'
<1> SUFFICES ASSUME IInv, [Next]_vars PROVE IInv'
  OBVIOUS
<1>1. ASSUME NEW o \in Owner, NEW k \in Key, Enroll(o, k) PROVE IInv'
  BY <1>1, EnrollPreserves
<1>2. ASSUME NEW o \in Owner, Sync(o) \/ Cleanup(o) PROVE IInv'
  BY <1>2, BeginsPreserves
<1>3. ASSUME NEW o \in Owner, LeaseEnds(o) PROVE IInv'
  BY <1>3, LeaseEndsPreserves
<1>4. ASSUME NEW o \in Owner, Restore(o) PROVE IInv'
  BY <1>4, RestorePreserves
<1>5. ASSUME NEW o \in Owner, Finishes(o) PROVE IInv'
  BY <1>5, FinishesPreserves
<1>6. ASSUME NEW o \in Owner, TimesOut(o) \/ Dies(o) PROVE IInv'
  BY <1>6, AbandonsPreserves
<1>7. ASSUME NEW c \in calls, Serves(c) \/ WorkerFails(c) PROVE IInv'
  BY <1>7, WorkerPreserves
<1>8. CASE UNCHANGED vars
  BY <1>8 DEF vars, IInv, Typed, TypeOK, HeardCalls, FileCalls, Enrolling, Unissued,
              RecordsAreStaged, Syncing, SyncCalls, Recycling, ActiveIsInstalled,
              CountedIsHeld, RecycledIsClosed, Counts
<1>9. QED
  BY <1>1, <1>2, <1>3, <1>4, <1>5, <1>6, <1>7, <1>8 DEF Next

-----------------------------------------------------------------------------
(* The inductive invariant holds in every reachable state.                 *)
THEOREM Invariance == Spec => []IInv
BY InitIInv, NextIInv, PTL DEF Spec

(* Every variable has its shape, and a fingerprint is in the table once,   *)
(* although the lock of an enrollment is only that of its owner.           *)
THEOREM TypeCorrect == Spec => []TypeOK
<1>1. IInv => TypeOK
  BY DEF IInv, Typed
<1>2. QED
  BY <1>1, Invariance, PTL

(* A key the portal lists has both its files on the host, whatever         *)
(* enrollments and discards were given up and are served late.             *)
THEOREM FilesAreThere == Spec => []RecordsAreStaged
<1>1. IInv => RecordsAreStaged
  BY DEF IInv
<1>2. QED
  BY <1>1, Invariance, PTL

(* What the portal counts as installed or put away is in authorized_keys,  *)
(* and a recycled environment has none open, whatever syncs, cleanups and  *)
(* rollbacks are served late.                                              *)
THEOREM HostFollowsPortal == Spec => []HostMatchesPortal
<1>1. IInv => HostMatchesPortal
  <2> SUFFICES ASSUME IInv, NEW o \in Owner
               PROVE  /\ In(o, {"INSTALLED", "SUSPENDED"}) \subseteq host[o].keys
                      /\ portal[o].state = "RECYCLED" => ~host[o].open
    BY DEF HostMatchesPortal
  <2>1. In(o, {"INSTALLED", "SUSPENDED"}) \subseteq host[o].keys
    BY DEF In, Recorded, IInv, CountedIsHeld, Counts
  <2>2. QED
    BY <2>1 DEF IInv, RecycledIsClosed
<1>2. QED
  BY <1>1, Invariance, PTL
=============================================================================
