------------------------------ MODULE SquadEvent ------------------------------
(***************************************************************************)
(* One squad event and its replicas, from src-tauri/src/squad_event.rs:    *)
(* create, update, cancel and RSVP rumors over MLS, a SQLite row per       *)
(* device, and a queue of children that arrive before their create.        *)
(*                                                                         *)
(* A device handles rumors in several tasks (the live subscription, a      *)
(* group sync, a local send), each on its own SQLite connection.  apply_op *)
(* reads the row in one statement and writes in others, with no           *)
(* transaction around the two, so Load and Write are separate actions.     *)
(*                                                                         *)
(* The fields of an event are abstracted to the id of the rumor that set   *)
(* them; the content hash of a write is that id too, since both hash the   *)
(* payload and the signer.                                                 *)
(***************************************************************************)
EXTENDS Integers, FiniteSets

CONSTANTS
    Replicas,             \* devices; each belongs to the member of that name
    Creator,              \* the member whose app made up the event id
    InitialAdmins,        \* admins of the announcements group at the start
    RestrictCreate,       \* squad content policy: only admins create
    Handlers,             \* concurrent tasks of one device
    MaxPendingPerAuthor,  \* MAX_PENDING_PER_AUTHOR
    PendingTtl,           \* PENDING_TTL_MS
    MaxFutureSkew,        \* MAX_FUTURE_SKEW_MS
    Redelivery,           \* whether a rumor may be processed more than once
    MaxNow,               \* bound: last value of the clock
    MaxOps,               \* bound: rumors sent
    MaxCrashes,           \* bound: times an app is killed
    MaxRoleChanges,       \* bound: changes of the admin list
    NoRow                 \* there is no row

ASSUME MemberAssumption ==
    /\ Creator \in Replicas
    /\ InitialAdmins \subseteq Replicas
    /\ RestrictCreate \in BOOLEAN /\ Redelivery \in BOOLEAN
ASSUME NumberAssumption ==
    /\ MaxPendingPerAuthor \in Nat \ {0} /\ PendingTtl \in Nat
    /\ MaxFutureSkew \in Nat /\ MaxNow \in Nat /\ MaxOps \in Nat
    /\ MaxCrashes \in Nat /\ MaxRoleChanges \in Nat

VARIABLES
    now,          \* wall clock of every device
    admins,       \* admin_pubkeys of the group
    roleChanges,
    wire,         \* rumors published to the group
    row,          \* squad_events row of each replica
    rsvps,        \* squad_event_rsvps of each replica, by member
    pending,      \* squad_event_pending_ops of each replica
    task,         \* what each handler is doing
    received,     \* history: rumors whose apply_op returned, per replica
    crashes

vars == <<now, admins, roleChanges, wire, row, rsvps, pending, task, received,
          crashes>>
db == <<row, rsvps, pending>>

Kinds == {"create", "update", "cancel", "rsvp"}
Op == [id : 1..MaxOps, kind : Kinds, by : Replicas, stamp : Nat]
Row == [val : 1..MaxOps, stamp : Nat, by : Replicas, author : Replicas,
        status : {"active", "cancelled"}]
NoRsvp == [stamp |-> 0, id |-> 0]

ASSUME NoRowAssumption == NoRow \notin Row

\* A handler holds the ops it has still to apply, the row it read for the next
\* one, and the roles it looked up: "known" members, "adm" those that are admins.
Idle == [pc |-> "idle", todo |-> {}, draining |-> FALSE, snap |-> NoRow,
         known |-> {}, adm |-> {}]

TypeOK ==
    /\ now \in 0..MaxNow
    /\ admins \subseteq Replicas
    /\ roleChanges \in 0..MaxRoleChanges
    /\ wire \subseteq Op
    /\ row \in [Replicas -> Row \cup {NoRow}]
    /\ rsvps \in [Replicas -> [Replicas -> [stamp : Nat, id : 0..MaxOps]]]
    /\ pending \in [Replicas -> SUBSET wire]
    /\ task \in [Replicas -> [Handlers ->
          [pc : {"idle", "load", "write", "status", "list", "drain"}, todo : SUBSET wire,
           draining : BOOLEAN, snap : Row \cup {NoRow},
           known : SUBSET Replicas, adm : SUBSET Replicas]]]
    /\ received \in [Replicas -> SUBSET wire]
    /\ crashes \in 0..MaxCrashes

Init ==
    /\ now = 0
    /\ admins = InitialAdmins
    /\ roleChanges = 0
    /\ wire = {}
    /\ row = [r \in Replicas |-> NoRow]
    /\ rsvps = [r \in Replicas |-> [m \in Replicas |-> NoRsvp]]
    /\ pending = [r \in Replicas |-> {}]
    /\ task = [r \in Replicas |-> [h \in Handlers |-> Idle]]
    /\ received = [r \in Replicas |-> {}]
    /\ crashes = 0

\* Mutant: any member may edit.
MayEditAnyone(m, adm, author) == m \in Replicas

-----------------------------------------------------------------------------
(* What a member may do.  Members of the model are members of the group.   *)

MayCreate(m, adm) == m \in adm \/ ~RestrictCreate

MayEdit(m, adm, author) == m = author \/ m \in adm

\* Order of the queue: updated_at_ms, then rumor id.
Before(o, p) == o.stamp < p.stamp \/ (o.stamp = p.stamp /\ o.id < p.id)
First(S) == CHOOSE o \in S : \A p \in S \ {o} : Before(o, p)

-----------------------------------------------------------------------------
(* Sending: the command reads its row, publishes, then applies locally.    *)

Stamp(previous) == IF now > previous THEN now ELSE previous + 1

\* The op a send command builds, if its checks pass.
CanSend(r, kind) ==
    CASE kind = "create" ->
            r = Creator /\ row[r] = NoRow /\ MayCreate(r, admins)
      [] kind \in {"update", "cancel"} ->
            /\ row[r] # NoRow /\ row[r].status = "active"
            /\ MayEdit(r, admins, row[r].author)
      [] kind = "rsvp" -> row[r] # NoRow /\ row[r].status = "active"

SendStamp(r, kind) ==
    CASE kind = "create" -> now
      [] kind \in {"update", "cancel"} -> Stamp(row[r].stamp)
      [] kind = "rsvp" ->
            IF rsvps[r][r] = NoRsvp THEN now ELSE Stamp(rsvps[r][r].stamp)

\* The state of a handler that has resolved the roles of "members" and is about
\* to apply the ops of "todo".
Applying(todo, draining, members) ==
    [pc |-> "load", todo |-> todo, draining |-> draining, snap |-> NoRow,
     known |-> members, adm |-> members \cap admins]

Send(r, h, kind) ==
    /\ task[r][h] = Idle
    /\ Cardinality(wire) < MaxOps
    /\ CanSend(r, kind)
    /\ LET o == [id |-> Cardinality(wire) + 1, kind |-> kind, by |-> r,
                 stamp |-> SendStamp(r, kind)]
       IN /\ wire' = wire \cup {o}
          /\ task' = [task EXCEPT ![r][h] = Applying({o}, FALSE, {r})]
    /\ UNCHANGED <<now, admins, roleChanges, db, received, crashes>>

-----------------------------------------------------------------------------
(* Ingest: process_rumor, apply_and_emit, apply_op.                        *)

\* A rumor arrives, in any order and perhaps again.  stamp_acceptable drops one
\* from too far in the future; the role of its signer is looked up now.
ProcessRumor(r, h, o) ==
    /\ task[r][h] = Idle
    /\ o.stamp <= now + MaxFutureSkew
    /\ Redelivery \/ o \notin received[r] \cup UNION {task[r][k].todo : k \in Handlers}
    /\ task' = [task EXCEPT ![r][h] = Applying({o}, FALSE, {o.by})]
    /\ UNCHANGED <<now, admins, roleChanges, wire, db, received, crashes>>

\* load_row, at the head of apply_op.
LoadRow(r, h) ==
    /\ task[r][h].pc = "load"
    /\ task' = [task EXCEPT ![r][h].pc = "write", ![r][h].snap = row[r]]
    /\ UNCHANGED <<now, admins, roleChanges, wire, db, received, crashes>>

\* purge_expired_pending and the queue's limit per author, newest kept.
Purged(S) == {o \in S : o.stamp >= now - PendingTtl}
Trimmed(S, m) ==
    {o \in S : o.by = m => Cardinality({p \in S : p.by = m /\ Before(o, p)})
                             < MaxPendingPerAuthor}

\* Mutant: any other rumor replaces the stored answer.
RsvpChangedAnyStamp(r, o) == o.id # rsvps[r][o.by].id

\* upsert_rsvp: the same rumor is a replay, an older or equal one is ignored.
RsvpChanged(r, o) == o.id # rsvps[r][o.by].id
                     /\ (rsvps[r][o.by] = NoRsvp \/ o.stamp > rsvps[r][o.by].stamp)
UpsertRsvp(r, o) ==
    IF RsvpChanged(r, o)
    THEN [rsvps EXCEPT ![r][o.by] = [stamp |-> o.stamp, id |-> o.id]]
    ELSE rsvps

\* Mutant: a cancel counts only when it is the newest write.
CancelsIfNewer(s, o) ==
    o.kind = "cancel" /\ s.status = "active" /\ o.stamp > s.stamp

\* Whether there is a second UPDATE: a cancel sticks whatever its stamp.
Cancels(s, o) == o.kind = "cancel" /\ s.status = "active"

\* What apply_op decides, from the row it read and the roles that were looked up.
Applied(r, o, t) ==
    LET s == t.snap IN
    IF o.by \notin t.known THEN "ignored"
    ELSE IF s = NoRow THEN
        IF o.kind # "create" THEN "queued"
        ELSE IF ~MayCreate(o.by, t.adm) THEN "ignored"
        ELSE IF row[r] # NoRow THEN "failed" ELSE "inserted"
    ELSE IF o.kind = "rsvp" THEN
        IF RsvpChanged(r, o) THEN "changed"
        ELSE IF rsvps[r][o.by].id = o.id THEN "replay" ELSE "ignored"
    ELSE IF ~MayEdit(o.by, t.adm, s.author) THEN "ignored"
    ELSE IF o.id = s.val THEN "replay"
    ELSE IF o.stamp > s.stamp \/ Cancels(s, o) THEN "changed" ELSE "ignored"

\* Mutant: the author column is left empty.
InsertedNoAuthor(o) == [val |-> o.id, stamp |-> o.stamp, by |-> o.by,
                        author |-> NoRow, status |-> "active"]

\* insert_create.
Inserted(o) == [val |-> o.id, stamp |-> o.stamp, by |-> o.by, author |-> o.by,
                status |-> "active"]

\* Mutant: the row that was read is written back whole.
FieldsWrittenWhole(cur, s, o) ==
    IF o.stamp > s.stamp
    THEN [s EXCEPT !.val = o.id, !.stamp = o.stamp, !.by = o.by] ELSE cur

\* apply_write, first UPDATE: a write newer than the row that was read wins the
\* fields and the content hash.  It goes to the row as it is now.
FieldsWritten(cur, s, o) ==
    IF o.stamp > s.stamp
    THEN [cur EXCEPT !.val = o.id, !.stamp = o.stamp, !.by = o.by] ELSE cur

\* Where a handler goes when apply_op has returned, and what becomes of the queue:
\* a drained op leaves it; an op that was not queued or ignored drains it.
Finish(r, h, o, res) ==
    LET t == task[r][h]
        rest == t.todo \ {o}
    IN
    /\ pending' =
          [pending EXCEPT ![r] =
             IF t.draining THEN @ \ {o}
             ELSE IF res = "queued" THEN Trimmed(Purged(@) \cup {o}, o.by) ELSE @]
    /\ received' = [received EXCEPT ![r] = @ \cup {o}]
    /\ task' = [task EXCEPT ![r][h] =
          IF t.draining
          THEN IF rest = {} THEN Idle ELSE [t EXCEPT !.pc = "load", !.todo = rest]
          ELSE IF res \in {"queued", "ignored", "failed"} THEN Idle
               ELSE [Idle EXCEPT !.pc = "list"]]

\* The statement that follows the read: insert, first UPDATE, upsert or queue.
Write(r, h) ==
    LET t == task[r][h]
        o == First(t.todo)
        res == Applied(r, o, t)
        changesRow == res = "changed" /\ o.kind # "rsvp"
    IN
    /\ t.pc = "write"
    /\ row' = CASE res = "inserted" -> [row EXCEPT ![r] = Inserted(o)]
                [] changesRow -> [row EXCEPT ![r] = FieldsWritten(row[r], t.snap, o)]
                [] OTHER -> row
    /\ rsvps' = IF res = "inserted" \/ (res = "changed" /\ o.kind = "rsvp")
                THEN UpsertRsvp(r, o) ELSE rsvps
    /\ IF changesRow /\ Cancels(t.snap, o)
       THEN /\ task' = [task EXCEPT ![r][h].pc = "status"]
            /\ UNCHANGED <<pending, received>>
       ELSE Finish(r, h, o, res)
    /\ UNCHANGED <<now, admins, roleChanges, wire, crashes>>

\* apply_write, second UPDATE, a statement of its own.
WriteStatus(r, h) ==
    /\ task[r][h].pc = "status"
    /\ row' = [row EXCEPT ![r].status = "cancelled"]
    /\ Finish(r, h, First(task[r][h].todo), "changed")
    /\ UNCHANGED <<now, admins, roleChanges, wire, rsvps, crashes>>

\* Mutant: an insert does not drain the queue.
ListAuthorsNever(r, h) ==
    /\ task[r][h].pc = "list"
    /\ task' = [task EXCEPT ![r][h] = Idle]
    /\ UNCHANGED <<now, admins, roleChanges, wire, db, received, crashes>>

\* drain_stored: list the authors of the queued children and look up their roles.
ListAuthors(r, h) ==
    /\ task[r][h].pc = "list"
    /\ LET authors == {o.by : o \in pending[r]} IN
       task' = [task EXCEPT ![r][h] =
                  IF authors = {} THEN Idle
                  ELSE [Applying({}, TRUE, authors) EXCEPT !.pc = "drain"]]
    /\ UNCHANGED <<now, admins, roleChanges, wire, db, received, crashes>>

\* drain_pending: purge, then apply what is queued by now with the roles known.
DrainPending(r, h) ==
    /\ task[r][h].pc = "drain"
    /\ pending' = [pending EXCEPT ![r] = Purged(@)]
    /\ task' = [task EXCEPT ![r][h] =
                  IF Purged(pending[r]) = {} THEN Idle
                  ELSE [@ EXCEPT !.pc = "load", !.todo = Purged(pending[r])]]
    /\ UNCHANGED <<now, admins, roleChanges, wire, row, rsvps, received, crashes>>

-----------------------------------------------------------------------------
(* Environment.                                                            *)

\* The app is killed: what its tasks were doing is gone, the database stays.
Crash(r) ==
    /\ crashes < MaxCrashes
    /\ task[r] # [h \in Handlers |-> Idle]
    /\ crashes' = crashes + 1
    /\ task' = [task EXCEPT ![r] = [h \in Handlers |-> Idle]]
    /\ UNCHANGED <<now, admins, roleChanges, wire, db, received>>

ChangeRole(m) ==
    /\ roleChanges < MaxRoleChanges
    /\ roleChanges' = roleChanges + 1
    /\ admins' = IF m \in admins THEN admins \ {m} ELSE admins \cup {m}
    /\ UNCHANGED <<now, wire, db, task, received, crashes>>

Tick ==
    /\ now < MaxNow
    /\ now' = now + 1
    /\ UNCHANGED <<admins, roleChanges, wire, db, task, received, crashes>>

Next ==
    \/ \E r \in Replicas, h \in Handlers :
          \/ \E kind \in Kinds : Send(r, h, kind)
          \/ \E o \in wire : ProcessRumor(r, h, o)
          \/ LoadRow(r, h) \/ Write(r, h) \/ WriteStatus(r, h)
          \/ ListAuthors(r, h) \/ DrainPending(r, h)
    \/ \E r \in Replicas : Crash(r) \/ ChangeRole(r)
    \/ Tick

Spec == Init /\ [][Next]_vars

-----------------------------------------------------------------------------
(* Properties.                                                             *)

Quiet(r) == \A h \in Handlers : task[r][h] = Idle

\* The row a set of rumors stands for, whatever their order of arrival: nothing
\* before the create, then the newest write, cancelled if any write cancels.
Writes(S) == {o \in S : o.kind # "rsvp"}
DistinctStamps(S) == \A o, p \in S : o.stamp = p.stamp => o = p
Reference(S) ==
    IF \A o \in S : o.kind # "create" THEN NoRow
    ELSE LET last == CHOOSE o \in Writes(S) : \A p \in Writes(S) : o.stamp >= p.stamp
         IN [val |-> last.id, stamp |-> last.stamp, by |-> last.by,
             author |-> Creator,
             status |-> IF \E o \in S : o.kind = "cancel" THEN "cancelled"
                                                          ELSE "active"]

\* Arrival order does not matter: with no two writes of one stamp, a quiet replica
\* holds exactly the row its rumors stand for, so replicas that have received the
\* same rumors agree.  This is what the pending queue and its drain are for.
RowIsReference ==
    \A r \in Replicas :
        (Quiet(r) /\ DistinctStamps(Writes(received[r])))
            => row[r] = Reference(received[r])

\* Likewise for each member's RSVP: once the event is there, the stored answer is
\* never older than one that was received.
RsvpIsReference ==
    \A r \in Replicas : (Quiet(r) /\ row[r] # NoRow) =>
        \A o \in received[r] : o.kind = "rsvp" => rsvps[r][o.by].stamp >= o.stamp

\* A cancelled event stays cancelled, on every replica, under any interleaving of
\* handlers, crash or role change (apply_write never writes 'active').
CancelIsSticky ==
    [][ \A r \in Replicas : (row[r] # NoRow /\ row[r].status = "cancelled")
                               => row'[r].status = "cancelled" ]_vars

\* Queued or not, an edit lands only by right: of the event's author, or of a
\* member who was an admin when this replica looked, although the rumor may have
\* been sent, or queued, while its signer still was one.
EditsByRight ==
    [][ \A r \in Replicas : (row[r] # NoRow /\ row'[r].val # row[r].val) =>
          \/ row'[r].by = row[r].author
          \/ \E h \in Handlers : row'[r].by \in task[r][h].adm ]_vars

\* "Writes are last-updated_at_ms-wins per event": the stamp of a stored row never
\* decreases.
LastWriteWins ==
    [][ \A r \in Replicas : row[r] # NoRow => row'[r].stamp >= row[r].stamp ]_vars

\* "Same write already stored": a queued cancel that a drain takes for a replay, and
\* so deletes, is one whose row is cancelled, also when an earlier drain was cut
\* off between the two UPDATEs.
ReplayIsStored ==
    \A r \in Replicas, h \in Handlers :
        LET t == task[r][h] IN
        (t.pc = "write" /\ t.draining) =>
            LET o == First(t.todo) IN
            (o.kind = "cancel" /\ Applied(r, o, t) = "replay")
                => row[r].status = "cancelled"

\* "Child op kept until its create lands": a replica at rest that has the event has
\* no child of it queued.
QueuedUntilCreate ==
    \A r \in Replicas : (Quiet(r) /\ row[r] # NoRow) => pending[r] = {}
=============================================================================
