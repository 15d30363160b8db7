-------------------------- MODULE SquadEventProofs --------------------------
(***************************************************************************)
(* Proofs about SquadEvent, for any replicas, bounds and queue limits.     *)
(*                                                                         *)
(* The first part holds for any number of handlers, crashes and changes of *)
(* the admin list: the type invariant, CancelIsSticky and EditsByRight.    *)
(*                                                                         *)
(* The second part needs what the violation runs show to be needed: one    *)
(* handler per device, no crash in the middle of one, a queue that neither *)
(* expires nor overflows.  Then the row and the RSVPs of a quiet replica   *)
(* are a function of the rumors it received.                               *)
(***************************************************************************)
EXTENDS SquadEvent, FiniteSetTheorems, WellFoundedInduction, TLAPS

(***************************************************************************)
(* The inductive invariant of the first part.                              *)
(***************************************************************************)

\* Rumors are numbered in the order they were published.
Numbered ==
    /\ IsFiniteSet(wire) /\ Cardinality(wire) <= MaxOps
    /\ \A o \in wire : o.id \in 1..Cardinality(wire)
    /\ \A o, p \in wire : o.id = p.id => o = p

\* A handler that is applying has something to apply, and the row it read, if it
\* read one, is an earlier state of the row that is there now.
Busy == {"load", "write", "status"}
Job == [pc : {"idle", "load", "write", "status", "list", "drain"}, todo : SUBSET wire,
        draining : BOOLEAN, snap : Row \cup {NoRow},
        known : SUBSET Replicas, adm : SUBSET Replicas]
Fit(r, t) ==
    /\ t.pc \in Busy => t.todo # {}
    /\ t.snap # NoRow => row[r] # NoRow /\ t.snap.author = row[r].author
    /\ t.pc = "status" => t.snap # NoRow
Tasks == \A r \in Replicas, h \in Handlers : Fit(r, task[r][h])

Inv == TypeOK /\ Numbered /\ Tasks


-----------------------------------------------------------------------------
(* Operators.                                                              *)

\* A nonempty set of numbers has a smallest one.
LEMMA NatMin ==
    ASSUME NEW T, T \subseteq Nat, T # {}
    PROVE  \E x \in T : \A y \in T : x <= y
<1> DEFINE R == {ss \in Nat \X Nat : ss[1] < ss[2]}
<1>1. IsWellFoundedOn(R, Nat)
  BY NatLessThanWellFounded DEF OpToRel
<1> HIDE DEF R
<1>2. PICK x \in T : \A y \in T : ~ (<<y, x>> \in R)
  BY <1>1, WFMin
<1>3. ASSUME NEW y \in T PROVE x <= y
  <2>1. x \in Nat /\ y \in Nat
    OBVIOUS
  <2>2. ~(y < x)
    BY <1>2, <2>1 DEF R
  <2> QED BY <2>1, <2>2
<1> QED BY <1>3

\* The queue's order is total on published rumors: there is always a first one.
LEMMA FirstIn ==
    ASSUME TypeOK, Numbered, NEW S, S \subseteq wire, S # {}
    PROVE  First(S) \in S /\ \A p \in S \ {First(S)} : Before(First(S), p)
<1>1. \A o \in S : o.stamp \in Nat /\ o.id \in Nat
  BY NumberAssumption DEF TypeOK, Op
<1>2. PICK s \in {o.stamp : o \in S} : \A y \in {o.stamp : o \in S} : s <= y
  <2>1. {o.stamp : o \in S} \subseteq Nat /\ {o.stamp : o \in S} # {}
    BY <1>1
  <2> QED BY <2>1, NatMin
<1> DEFINE O == {o \in S : o.stamp = s}
<1>3. PICK i \in {o.id : o \in O} : \A y \in {o.id : o \in O} : i <= y
  <2>1. {o.id : o \in O} \subseteq Nat /\ {o.id : o \in O} # {}
    BY <1>1
  <2> HIDE DEF O
  <2> QED BY <2>1, NatMin
<1>4. PICK m \in O : m.id = i
  BY <1>3
<1>5. ASSUME NEW p \in S \ {m} PROVE Before(m, p)
  <2>1. m \in S /\ m.stamp = s /\ m \in wire /\ p \in wire
    OBVIOUS
  <2>2. s <= p.stamp /\ s \in Nat /\ p.stamp \in Nat
    BY <1>1, <1>2
  <2>3. m.id # p.id
    BY <2>1, <1>5 DEF Numbered
  <2>4. p.stamp = s => m.id <= p.id /\ m.id \in Nat /\ p.id \in Nat
    BY <1>1, <1>3, <1>4
  <2> QED BY <2>1, <2>2, <2>3, <2>4 DEF Before
<1>6. \E o \in S : \A p \in S \ {o} : Before(o, p)
  BY <1>4, <1>5
<1> QED BY <1>6 DEF First

LEMMA QueueSubsets ==
    ASSUME NEW S, NEW m
    PROVE  Purged(S) \subseteq S /\ Trimmed(S, m) \subseteq S
BY DEF Purged, Trimmed

\* The type invariant, with the record of a handler named.
LEMMA TaskType == TypeOK => task \in [Replicas -> [Handlers -> Job]]
BY DEF TypeOK, Job

LEMMA TaskAt ==
    ASSUME TypeOK, NEW r \in Replicas, NEW h \in Handlers
    PROVE  task[r][h] \in Job
BY TaskType

LEMMA IdleJob == Idle \in Job
<1>1. {} \subseteq wire /\ {} \subseteq Replicas /\ NoRow \in Row \cup {NoRow} /\ FALSE \in BOOLEAN
  OBVIOUS
<1> QED BY <1>1 DEF Idle, Job

LEMMA InsertedRow ==
    ASSUME NEW o \in Op
    PROVE  Inserted(o) \in Row
BY DEF Inserted, Op, Row

LEMMA FieldsWrittenRow ==
    ASSUME NEW o \in Op, NEW cur \in Row, NEW s
    PROVE  /\ FieldsWritten(cur, s, o) \in Row
           /\ FieldsWritten(cur, s, o).author = cur.author
           /\ FieldsWritten(cur, s, o).status = cur.status
BY DEF FieldsWritten, Op, Row

-----------------------------------------------------------------------------
(* A step that moves handler h of r to j, and changes at most the row of r,*)
(* keeps every handler typed and fit.                                      *)

LEMMA MovesTyped ==
    ASSUME TypeOK, wire \subseteq wire', NEW r \in Replicas, NEW h \in Handlers,
           NEW j, j \in Job', task' = [task EXCEPT ![r][h] = j]
    PROVE  /\ task' \in [Replicas -> [Handlers -> Job']]
           /\ task'[r][h] = j
           /\ \A q \in Replicas, k \in Handlers :
                 <<q, k>> # <<r, h>> => task'[q][k] = task[q][k]
<1>1. task \in [Replicas -> [Handlers -> Job']]
  <2>1. ASSUME NEW t \in Job PROVE t \in Job'
    BY <2>1 DEF Job
  <2> QED BY <2>1, TaskType
<1> QED BY <1>1

LEMMA MovesFit ==
    ASSUME TypeOK, Tasks, wire \subseteq wire', NEW r \in Replicas, NEW h \in Handlers,
           NEW j, j \in Job', task' = [task EXCEPT ![r][h] = j], Fit(r, j)',
           \A q \in Replicas : row[q] # NoRow =>
                                  row'[q] # NoRow /\ row'[q].author = row[q].author
    PROVE  Tasks'
<1> SUFFICES ASSUME NEW q \in Replicas, NEW k \in Handlers PROVE Fit(q, task[q][k])'
  BY DEF Tasks
<1>1. CASE <<q, k>> = <<r, h>>
  BY <1>1, MovesTyped
<1>2. CASE <<q, k>> # <<r, h>>
  <2>1. task'[q][k] = task[q][k]
    BY <1>2, MovesTyped
  <2>2. Fit(q, task[q][k])
    BY DEF Tasks
  <2> QED BY <2>1, <2>2 DEF Fit
<1> QED BY <1>1, <1>2

\* The type invariant after a step, with the record of a handler named.
LEMMA TypeNext ==
    TypeOK' <=>
        /\ now' \in 0..MaxNow
        /\ admins' \subseteq Replicas
        /\ roleChanges' \in 0..MaxRoleChanges
        /\ wire' \subseteq Op
        /\ row' \in [Replicas -> Row \cup {NoRow}]
        /\ rsvps' \in [Replicas -> [Replicas -> [stamp : Nat, id : 0..MaxOps]]]
        /\ pending' \in [Replicas -> SUBSET wire']
        /\ task' \in [Replicas -> [Handlers -> Job']]
        /\ received' \in [Replicas -> SUBSET wire']
        /\ crashes' \in 0..MaxCrashes
BY DEF TypeOK, Job

\* Finish takes the handler to an idle, a listing or its next op.
LEMMA Finished ==
    ASSUME TypeOK, NEW r \in Replicas, NEW h \in Handlers, NEW o \in wire, NEW res,
           Finish(r, h, o, res), wire' = wire
    PROVE  /\ pending' \in [Replicas -> SUBSET wire']
           /\ received' \in [Replicas -> SUBSET wire']
           /\ \E j \in Job :
                 /\ task' = [task EXCEPT ![r][h] = j]
                 /\ j.snap = NoRow \/ j.snap = task[r][h].snap
                 /\ j.pc # "status" /\ (j.pc \in Busy => j.todo # {})
<1> DEFINE t == task[r][h]
           rest == t.todo \ {o}
           j == IF t.draining
                THEN IF rest = {} THEN Idle ELSE [t EXCEPT !.pc = "load", !.todo = rest]
                ELSE IF res \in {"queued", "ignored", "failed"} THEN Idle
                     ELSE [Idle EXCEPT !.pc = "list"]
<1>1. t \in Job
  BY TaskAt
<1>2. j \in Job
  <2>1. Idle \in Job /\ [Idle EXCEPT !.pc = "list"] \in Job
    BY IdleJob DEF Job
  <2>2. [t EXCEPT !.pc = "load", !.todo = rest] \in Job
    BY <1>1 DEF Job
  <2> QED BY <2>1, <2>2
<1>3. /\ j.snap = NoRow \/ j.snap = t.snap
      /\ j.pc # "status" /\ (j.pc \in Busy => j.todo # {})
  BY <1>1, IdleJob DEF Idle, Busy, Job
<1>4. task' = [task EXCEPT ![r][h] = j]
  BY DEF Finish
<1>5. pending' \in [Replicas -> SUBSET wire']
  <2>1. pending \in [Replicas -> SUBSET wire]
    BY DEF TypeOK
  <2>2. Trimmed(Purged(pending[r]) \cup {o}, o.by) \subseteq wire
    BY <2>1, QueueSubsets
  <2> QED BY <2>1, <2>2 DEF Finish
<1>6. received' \in [Replicas -> SUBSET wire']
  BY DEF Finish, TypeOK
<1> HIDE DEF j
<1> QED BY <1>2, <1>3, <1>4, <1>5, <1>6

\* What a write does to the row: it inserts one where there is none, or it sets the
\* fields of the row to those of an op that may edit it.
LEMMA Written ==
    ASSUME Inv, NEW r \in Replicas, NEW h \in Handlers, Write(r, h)
    PROVE  LET t == task[r][h]
               o == First(t.todo)
               res == Applied(r, o, t)
           IN /\ o \in t.todo /\ o \in wire /\ o \in Op
              /\ row' \in [Replicas -> Row \cup {NoRow}]
              /\ \A q \in Replicas \ {r} : row'[q] = row[q]
              /\ res = "inserted" => row[r] = NoRow /\ row'[r] = Inserted(o)
              /\ (res = "changed" /\ o.kind # "rsvp") =>
                    /\ t.snap # NoRow /\ row[r] \in Row
                    /\ MayEdit(o.by, t.adm, row[r].author)
                    /\ row'[r] = FieldsWritten(row[r], t.snap, o)
              /\ (res # "inserted" /\ ~(res = "changed" /\ o.kind # "rsvp")) => row' = row
<1> DEFINE t == task[r][h]
           o == First(t.todo)
           res == Applied(r, o, t)
<1>1. t \in Job /\ t.pc = "write" /\ Fit(r, t)
  BY TaskAt DEF Inv, Tasks, Write
<1>2. o \in t.todo /\ o \in wire /\ o \in Op
  <2>1. t.todo \subseteq wire /\ t.todo # {}
    BY <1>1 DEF Job, Fit, Busy
  <2>2. o \in t.todo
    BY <2>1, FirstIn DEF Inv
  <2> QED BY <2>1, <2>2 DEF Inv, TypeOK
<1>3. row \in [Replicas -> Row \cup {NoRow}]
  BY DEF Inv, TypeOK
<1>4. res = "inserted" => row[r] = NoRow
  BY DEF Applied
<1>5. (res = "changed" /\ o.kind # "rsvp") =>
         /\ t.snap # NoRow /\ row[r] \in Row
         /\ MayEdit(o.by, t.adm, row[r].author)
  BY <1>1, <1>3 DEF Applied, Fit
<1>6. row' = CASE res = "inserted" -> [row EXCEPT ![r] = Inserted(o)]
               [] res = "changed" /\ o.kind # "rsvp" ->
                     [row EXCEPT ![r] = FieldsWritten(row[r], t.snap, o)]
               [] OTHER -> row
  BY DEF Write
<1> HIDE DEF res, o, t
<1>7. CASE res = "inserted"
  <2>1. row' = [row EXCEPT ![r] = Inserted(o)]
    BY <1>6, <1>7
  <2>2. Inserted(o) \in Row
    BY <1>2, InsertedRow
  <2> QED BY <2>1, <2>2, <1>2, <1>3, <1>4, <1>5, <1>7 DEF o, t, res
<1>8. CASE res = "changed" /\ o.kind # "rsvp"
  <2>1. row' = [row EXCEPT ![r] = FieldsWritten(row[r], t.snap, o)]
    BY <1>6, <1>8
  <2>2. FieldsWritten(row[r], t.snap, o) \in Row
    BY <1>2, <1>5, <1>8, FieldsWrittenRow
  <2> QED BY <2>1, <2>2, <1>2, <1>3, <1>4, <1>5, <1>8 DEF o, t, res
<1>9. CASE res # "inserted" /\ ~(res = "changed" /\ o.kind # "rsvp")
  <2>1. row' = row
    BY <1>6, <1>9
  <2> QED BY <2>1, <1>2, <1>3, <1>4, <1>5, <1>9 DEF o, t, res
<1> QED BY <1>7, <1>8, <1>9

-----------------------------------------------------------------------------
(* The invariant of the first part, action by action.                      *)

LEMMA InvInit == Init => Inv
<1> SUFFICES ASSUME Init PROVE Inv
  OBVIOUS
<1>1. Idle \in Job
  BY IdleJob
<1>2. NoRsvp \in [stamp : Nat, id : 0..MaxOps]
  BY NumberAssumption DEF NoRsvp
<1>3. task \in [Replicas -> [Handlers -> Job]]
  BY <1>1 DEF Init
<1>4. TypeOK
  BY <1>2, <1>3, MemberAssumption, NumberAssumption DEF Init, TypeOK, Job
<1>5. Numbered
  BY FS_EmptySet, NumberAssumption DEF Init, Numbered
<1>6. Tasks
  BY DEF Init, Tasks, Fit, Idle, Busy
<1> QED BY <1>4, <1>5, <1>6 DEF Inv

\* A new rumor takes the next number.
LEMMA NumberedSend ==
    ASSUME Numbered, NEW o, wire' = wire \cup {o}, o.id = Cardinality(wire) + 1,
           Cardinality(wire) < MaxOps
    PROVE  Numbered'
<1>1. Cardinality(wire) \in Nat
  BY FS_CardinalityType DEF Numbered
<1>2. o \notin wire
  BY <1>1 DEF Numbered
<1>3. IsFiniteSet(wire') /\ Cardinality(wire') = Cardinality(wire) + 1
  BY <1>2, FS_AddElement DEF Numbered
<1>4. \A p \in wire : p.id \in 1..Cardinality(wire)
  BY DEF Numbered
<1>5. \A p \in wire' : p.id \in 1..Cardinality(wire)'
  BY <1>1, <1>3, <1>4
<1>6. \A p, q \in wire' : p.id = q.id => p = q
  <2> SUFFICES ASSUME NEW p \in wire', NEW q \in wire', p.id = q.id PROVE p = q
    OBVIOUS
  <2>1. p \in wire /\ q \in wire => p = q
    BY DEF Numbered
  <2>2. p \in wire => q # o
    BY <1>1, <1>4
  <2>3. q \in wire => p # o
    BY <1>1, <1>4
  <2> QED BY <2>1, <2>2, <2>3
<1>7. Cardinality(wire)' <= MaxOps
  BY <1>1, <1>3, NumberAssumption
<1> QED BY <1>3, <1>5, <1>6, <1>7 DEF Numbered

LEMMA SentOp ==
    ASSUME TypeOK, Numbered, NEW r \in Replicas, NEW kind \in Kinds, CanSend(r, kind),
           Cardinality(wire) < MaxOps
    PROVE  [id |-> Cardinality(wire) + 1, kind |-> kind, by |-> r,
            stamp |-> SendStamp(r, kind)] \in Op
<1>1. Cardinality(wire) + 1 \in 1..MaxOps
  BY FS_CardinalityType, NumberAssumption DEF Numbered
<1>2. now \in Nat /\ rsvps[r][r].stamp \in Nat
  BY NumberAssumption DEF TypeOK
<1>3. CASE kind = "create"
  BY <1>1, <1>2, <1>3 DEF Op, Kinds, SendStamp
<1>4. CASE kind \in {"update", "cancel"}
  <2>1. row[r] # NoRow
    BY <1>4 DEF CanSend
  <2>2. row[r].stamp \in Nat
    BY <2>1 DEF TypeOK, Row
  <2>3. Stamp(row[r].stamp) \in Nat
    BY <1>2, <2>2 DEF Stamp
  <2>4. SendStamp(r, kind) \in Nat
    BY <2>3, <1>4 DEF SendStamp
  <2> QED BY <1>1, <2>4 DEF Op
<1>5. CASE kind = "rsvp"
  <2>1. Stamp(rsvps[r][r].stamp) \in Nat
    BY <1>2 DEF Stamp
  <2>2. SendStamp(r, kind) \in Nat
    BY <2>1, <1>2, <1>5 DEF SendStamp
  <2> QED BY <1>1, <2>2 DEF Op
<1> QED BY <1>3, <1>4, <1>5 DEF Kinds

\* A handler that starts to apply an op.
LEMMA ApplyingJob ==
    ASSUME TypeOK, NEW o, NEW m \in Replicas, o \in wire'
    PROVE  Applying({o}, FALSE, {m}) \in Job' /\ Fit(m, Applying({o}, FALSE, {m}))
<1>1. {o} \subseteq wire' /\ {m} \subseteq Replicas /\ ({m} \cap admins) \subseteq Replicas
  OBVIOUS
<1>2. Applying({o}, FALSE, {m}) \in Job'
  BY <1>1 DEF Applying, Job
<1> QED BY <1>2 DEF Applying, Fit, Busy

LEMMA InvSend ==
    ASSUME Inv, NEW r \in Replicas, NEW h \in Handlers, NEW kind \in Kinds, Send(r, h, kind)
    PROVE  Inv'
<1> DEFINE o == [id |-> Cardinality(wire) + 1, kind |-> kind, by |-> r,
                 stamp |-> SendStamp(r, kind)]
<1>1. o \in Op /\ o.id = Cardinality(wire) + 1
  BY SentOp DEF Send, Inv
<1>2. wire' = wire \cup {o} /\ task' = [task EXCEPT ![r][h] = Applying({o}, FALSE, {r})]
  BY DEF Send
<1> HIDE DEF o
<1>3. PICK j : j = Applying({o}, FALSE, {r})
  OBVIOUS
<1>4. /\ j \in Job' /\ task' = [task EXCEPT ![r][h] = j]
      /\ j.pc = "load" /\ j.todo # {} /\ j.snap = NoRow
  <2>1. Applying({o}, FALSE, {r}) \in Job'
    BY <1>2, ApplyingJob DEF Inv
  <2> QED BY <2>1, <1>2, <1>3 DEF Applying
<1>5. wire \subseteq wire' /\ UNCHANGED <<now, admins, roleChanges, row, rsvps, pending, received, crashes>>
  BY <1>2 DEF Send, db
<1>6. Fit(r, j)'
  BY <1>4 DEF Fit
<1>7. TypeOK'
  <2>1. task' \in [Replicas -> [Handlers -> Job']]
    BY <1>4, <1>5, MovesTyped DEF Inv
  <2>2. pending' \in [Replicas -> SUBSET wire'] /\ received' \in [Replicas -> SUBSET wire']
    BY <1>5 DEF Inv, TypeOK
  <2>3. wire' \subseteq Op
    BY <1>1, <1>2 DEF Inv, TypeOK
  <2> QED BY <2>1, <2>2, <2>3, <1>5, TypeNext DEF Inv, TypeOK
<1>8. Numbered'
  BY <1>1, <1>2, NumberedSend DEF Inv, Send
<1>9. Tasks'
  BY <1>4, <1>5, <1>6, MovesFit DEF Inv
<1> QED BY <1>7, <1>8, <1>9 DEF Inv

\* The other steps of a handler publish nothing.
LEMMA InvMove ==
    ASSUME Inv, NEW r \in Replicas, NEW h \in Handlers, NEW j \in Job,
           task' = [task EXCEPT ![r][h] = j], Fit(r, j)',
           UNCHANGED <<now, admins, roleChanges, wire, crashes>>,
           row' \in [Replicas -> Row \cup {NoRow}],
           rsvps' \in [Replicas -> [Replicas -> [stamp : Nat, id : 0..MaxOps]]],
           pending' \in [Replicas -> SUBSET wire'],
           received' \in [Replicas -> SUBSET wire'],
           \A q \in Replicas : row[q] # NoRow =>
                                  row'[q] # NoRow /\ row'[q].author = row[q].author
    PROVE  Inv'
<1>1. j \in Job'
  BY DEF Job
<1>2. TypeOK'
  <2>1. task' \in [Replicas -> [Handlers -> Job']]
    BY <1>1, MovesTyped DEF Inv
  <2> QED BY <2>1, TypeNext DEF Inv, TypeOK
<1>3. Numbered'
  BY DEF Inv, Numbered
<1>4. Tasks'
  BY <1>1, MovesFit DEF Inv
<1> QED BY <1>2, <1>3, <1>4 DEF Inv

LEMMA InvProcessRumor ==
    ASSUME Inv, NEW r \in Replicas, NEW h \in Handlers, NEW o \in wire, ProcessRumor(r, h, o)
    PROVE  Inv'
<1>1. UNCHANGED <<now, admins, roleChanges, wire, row, rsvps, pending, received, crashes>>
  BY DEF ProcessRumor, db
<1>2. PICK j : j = Applying({o}, FALSE, {o.by})
  OBVIOUS
<1>3. /\ j \in Job /\ task' = [task EXCEPT ![r][h] = j]
      /\ j.pc = "load" /\ j.todo # {} /\ j.snap = NoRow
  <2>1. o.by \in Replicas
    BY DEF Inv, TypeOK, Op
  <2>2. Applying({o}, FALSE, {o.by}) \in Job'
    BY <2>1, <1>1, ApplyingJob DEF Inv
  <2>3. j \in Job
    BY <2>2, <1>1, <1>2 DEF Job
  <2> QED BY <2>3, <1>2 DEF Applying, ProcessRumor
<1>4. Fit(r, j)'
  BY <1>3 DEF Fit
<1> QED BY <1>1, <1>3, <1>4, InvMove DEF Inv, TypeOK

LEMMA InvLoadRow ==
    ASSUME Inv, NEW r \in Replicas, NEW h \in Handlers, LoadRow(r, h)
    PROVE  Inv'
<1>1. UNCHANGED <<now, admins, roleChanges, wire, row, rsvps, pending, received, crashes>>
  BY DEF LoadRow, db
<1>2. task[r][h] \in Job /\ Fit(r, task[r][h])
  BY TaskAt DEF Inv, Tasks
<1>3. PICK j : j = [task[r][h] EXCEPT !.pc = "write", !.snap = row[r]]
  OBVIOUS
<1>4. task' = [task EXCEPT ![r][h] = j]
  BY <1>3, TaskType DEF LoadRow, Inv
<1>5. row[r] \in Row \cup {NoRow}
  BY DEF Inv, TypeOK
<1>6. /\ j \in Job /\ j.pc = "write" /\ j.todo # {} /\ j.snap = row[r]
  BY <1>2, <1>3, <1>5 DEF Job, Fit, LoadRow, Busy
<1>7. Fit(r, j)'
  BY <1>1, <1>6 DEF Fit
<1> QED BY <1>1, <1>4, <1>6, <1>7, InvMove DEF Inv, TypeOK

LEMMA RsvpsTyped ==
    ASSUME TypeOK, NEW r \in Replicas, NEW o \in Op
    PROVE  UpsertRsvp(r, o) \in [Replicas -> [Replicas -> [stamp : Nat, id : 0..MaxOps]]]
<1>1. o.by \in Replicas /\ [stamp |-> o.stamp, id |-> o.id] \in [stamp : Nat, id : 0..MaxOps]
  BY NumberAssumption DEF Op
<1> QED BY <1>1 DEF UpsertRsvp, TypeOK

LEMMA RowKept ==
    ASSUME Inv, NEW r \in Replicas, NEW h \in Handlers, Write(r, h), NEW q \in Replicas,
           row[q] # NoRow
    PROVE  row'[q] # NoRow /\ row'[q].author = row[q].author /\ row'[q].status = row[q].status
<1> DEFINE t == task[r][h]
           o == First(t.todo)
           res == Applied(r, o, t)
<1>1. CASE q # r
  BY <1>1, Written
<1>2. CASE q = r /\ res = "changed" /\ o.kind # "rsvp"
  <2>1. o \in Op /\ row[r] \in Row /\ row'[r] = FieldsWritten(row[r], t.snap, o)
    BY <1>2, Written
  <2> HIDE DEF o, t
  <2>2. /\ row'[r] \in Row /\ row'[r].author = row[r].author
        /\ row'[r].status = row[r].status
    BY <2>1, FieldsWrittenRow
  <2> QED BY <2>2, <1>2, NoRowAssumption
<1>3. CASE q = r /\ ~(res = "changed" /\ o.kind # "rsvp")
  BY <1>3, Written
<1> QED BY <1>1, <1>2, <1>3

LEMMA InvWrite ==
    ASSUME Inv, NEW r \in Replicas, NEW h \in Handlers, Write(r, h)
    PROVE  Inv'
<1> DEFINE t == task[r][h]
           o == First(t.todo)
           res == Applied(r, o, t)
<1>1. UNCHANGED <<now, admins, roleChanges, wire, crashes>>
  BY DEF Write
<1>2. /\ o \in t.todo /\ o \in wire /\ o \in Op
      /\ row' \in [Replicas -> Row \cup {NoRow}]
  BY Written
<1>3. \A q \in Replicas : row[q] # NoRow =>
                             row'[q] # NoRow /\ row'[q].author = row[q].author
  BY RowKept
<1>4. rsvps' \in [Replicas -> [Replicas -> [stamp : Nat, id : 0..MaxOps]]]
  <2>1. rsvps' = UpsertRsvp(r, o) \/ rsvps' = rsvps
    BY DEF Write
  <2>2. UpsertRsvp(r, o) \in [Replicas -> [Replicas -> [stamp : Nat, id : 0..MaxOps]]]
    BY <1>2, RsvpsTyped DEF Inv
  <2> QED BY <2>1, <2>2 DEF Inv, TypeOK
<1>5. t \in Job /\ Fit(r, t) /\ t.pc = "write"
  BY TaskAt DEF Inv, Tasks, Write
<1>6. CASE res = "changed" /\ o.kind # "rsvp" /\ Cancels(t.snap, o)
  <2>1. PICK j : j = [t EXCEPT !.pc = "status"]
    OBVIOUS
  <2>2. task' = [task EXCEPT ![r][h] = j] /\ pending' = pending /\ received' = received
    BY <1>6, <2>1, TaskType DEF Write, Inv
  <2>3. t.snap # NoRow
    BY <1>6, Written
  <2>4. j \in Job /\ j.pc = "status" /\ j.todo # {} /\ j.snap = t.snap
    BY <1>5, <2>1 DEF Job, Fit, Busy
  <2>5. row[r] # NoRow /\ t.snap.author = row[r].author
    BY <2>3, <1>5 DEF Fit
  <2>6. Fit(r, j)'
    BY <2>3, <2>4, <2>5, <1>3 DEF Fit
  <2> QED BY <1>1, <1>2, <1>3, <1>4, <2>2, <2>4, <2>6, InvMove DEF Inv, TypeOK
<1>7. CASE ~(res = "changed" /\ o.kind # "rsvp" /\ Cancels(t.snap, o))
  <2>1. Finish(r, h, o, res)
    BY <1>7 DEF Write
  <2> HIDE DEF o, res
  <2>2. /\ pending' \in [Replicas -> SUBSET wire']
        /\ received' \in [Replicas -> SUBSET wire']
        /\ \E j \in Job :
              /\ task' = [task EXCEPT ![r][h] = j]
              /\ j.snap = NoRow \/ j.snap = t.snap
              /\ j.pc # "status" /\ (j.pc \in Busy => j.todo # {})
    BY <2>1, <1>1, <1>2, Finished DEF Inv
  <2>3. PICK j \in Job :
           /\ task' = [task EXCEPT ![r][h] = j]
           /\ j.snap = NoRow \/ j.snap = t.snap
           /\ j.pc # "status" /\ (j.pc \in Busy => j.todo # {})
    BY <2>2
  <2>4. Fit(r, j)'
    BY <2>3, <1>3, <1>5 DEF Fit
  <2> QED BY <1>1, <1>2, <1>3, <1>4, <2>2, <2>3, <2>4, InvMove
<1> QED BY <1>6, <1>7

\* The second UPDATE of a cancel changes the status of a row that is there.
LEMMA StatusWritten ==
    ASSUME Inv, NEW r \in Replicas, NEW h \in Handlers, WriteStatus(r, h)
    PROVE  /\ First(task[r][h].todo) \in task[r][h].todo /\ First(task[r][h].todo) \in wire
           /\ row[r] \in Row /\ row' = [row EXCEPT ![r].status = "cancelled"]
           /\ row' \in [Replicas -> Row \cup {NoRow}]
           /\ \A q \in Replicas : row[q] # NoRow =>
                 /\ row'[q] # NoRow /\ row'[q].author = row[q].author
                 /\ row'[q].val = row[q].val
<1>1. task[r][h] \in Job /\ task[r][h].pc = "status" /\ Fit(r, task[r][h])
  BY TaskAt DEF Inv, Tasks, WriteStatus
<1>2. task[r][h].todo \subseteq wire /\ task[r][h].todo # {}
  BY <1>1 DEF Job, Fit, Busy
<1>3. First(task[r][h].todo) \in task[r][h].todo
  BY <1>2, FirstIn DEF Inv
<1>4. row[r] \in Row /\ row' = [row EXCEPT ![r].status = "cancelled"]
  BY <1>1 DEF Fit, Inv, TypeOK, WriteStatus
<1>5. [row[r] EXCEPT !.status = "cancelled"] \in Row
  BY <1>4 DEF Row
<1>6. row \in [Replicas -> Row \cup {NoRow}]
  BY DEF Inv, TypeOK
<1>7. row'[r] = [row[r] EXCEPT !.status = "cancelled"] /\ \A q \in Replicas \ {r} : row'[q] = row[q]
  BY <1>4, <1>6
<1>8. row' \in [Replicas -> Row \cup {NoRow}]
  BY <1>4, <1>5, <1>6
<1>9. row'[r] # NoRow /\ row'[r].author = row[r].author /\ row'[r].val = row[r].val
  BY <1>4, <1>5, <1>7, NoRowAssumption DEF Row
<1> QED BY <1>2, <1>3, <1>4, <1>7, <1>8, <1>9

LEMMA InvWriteStatus ==
    ASSUME Inv, NEW r \in Replicas, NEW h \in Handlers, WriteStatus(r, h)
    PROVE  Inv'
<1> DEFINE t == task[r][h]
           o == First(t.todo)
<1>1. UNCHANGED <<now, admins, roleChanges, wire, rsvps, crashes>>
  BY DEF WriteStatus
<1>2. /\ o \in wire /\ row' \in [Replicas -> Row \cup {NoRow}]
      /\ \A q \in Replicas : row[q] # NoRow =>
                                row'[q] # NoRow /\ row'[q].author = row[q].author
  BY StatusWritten
<1>3. Finish(r, h, o, "changed")
  BY DEF WriteStatus
<1>4. Fit(r, t)
  BY DEF Inv, Tasks
<1> HIDE DEF o
<1>5. /\ pending' \in [Replicas -> SUBSET wire']
      /\ received' \in [Replicas -> SUBSET wire']
      /\ \E j \in Job :
            /\ task' = [task EXCEPT ![r][h] = j]
            /\ j.snap = NoRow \/ j.snap = t.snap
            /\ j.pc # "status" /\ (j.pc \in Busy => j.todo # {})
  BY <1>1, <1>2, <1>3, Finished DEF Inv
<1>6. PICK j \in Job :
         /\ task' = [task EXCEPT ![r][h] = j]
         /\ j.snap = NoRow \/ j.snap = t.snap
         /\ j.pc # "status" /\ (j.pc \in Busy => j.todo # {})
  BY <1>5
<1>7. Fit(r, j)'
  BY <1>2, <1>4, <1>6 DEF Fit
<1> QED BY <1>1, <1>2, <1>5, <1>6, <1>7, InvMove DEF Inv, TypeOK

LEMMA InvListAuthors ==
    ASSUME Inv, NEW r \in Replicas, NEW h \in Handlers, ListAuthors(r, h)
    PROVE  Inv'
<1> DEFINE authors == {o.by : o \in pending[r]}
           drain == [Applying({}, TRUE, authors) EXCEPT !.pc = "drain"]
<1>1. UNCHANGED <<now, admins, roleChanges, wire, row, rsvps, pending, received, crashes>>
  BY DEF ListAuthors, db
<1>2. authors \subseteq Replicas
  BY DEF Inv, TypeOK, Op
<1>3. PICK j : j = IF authors = {} THEN Idle ELSE drain
  OBVIOUS
<1>4. task' = [task EXCEPT ![r][h] = j]
  BY <1>3 DEF ListAuthors
<1>5. j \in Job /\ j.pc \in {"idle", "drain"} /\ j.snap = NoRow
  <2> HIDE DEF authors
  <2>1. drain \in Job /\ drain.pc = "drain" /\ drain.snap = NoRow
    <3>1. Applying({}, TRUE, authors) \in Job
      <4>1. {} \subseteq wire /\ (authors \cap admins) \subseteq Replicas
        BY <1>2
      <4> QED BY <1>2, <4>1 DEF Applying, Job
    <3> QED BY <3>1 DEF Applying, Job
  <2> QED BY <2>1, <1>3, IdleJob DEF Idle
<1>6. Fit(r, j)'
  BY <1>5 DEF Fit, Busy
<1> QED BY <1>1, <1>4, <1>5, <1>6, InvMove DEF Inv, TypeOK

LEMMA InvDrainPending ==
    ASSUME Inv, NEW r \in Replicas, NEW h \in Handlers, DrainPending(r, h)
    PROVE  Inv'
<1> DEFINE S == Purged(pending[r])
<1>1. UNCHANGED <<now, admins, roleChanges, wire, row, rsvps, received, crashes>>
  BY DEF DrainPending
<1>2. task[r][h] \in Job /\ Fit(r, task[r][h])
  BY TaskAt DEF Inv, Tasks
<1>3. S \subseteq wire
  <2>1. pending[r] \subseteq wire
    BY DEF Inv, TypeOK
  <2> QED BY <2>1, QueueSubsets
<1>4. PICK j : j = IF S = {} THEN Idle
                   ELSE [task[r][h] EXCEPT !.pc = "load", !.todo = S]
  OBVIOUS
<1>5. task' = [task EXCEPT ![r][h] = j] /\ pending' = [pending EXCEPT ![r] = S]
  BY <1>4, TaskType DEF DrainPending, Inv
<1> HIDE DEF S
<1>6. /\ j \in Job /\ j.pc # "status" /\ (j.pc \in Busy => j.todo # {})
      /\ j.snap = NoRow \/ j.snap = task[r][h].snap
  BY <1>2, <1>3, <1>4, IdleJob DEF Job, Idle, Busy
<1>7. Fit(r, j)'
  BY <1>1, <1>2, <1>6 DEF Fit
<1>8. pending' \in [Replicas -> SUBSET wire']
  BY <1>1, <1>3, <1>5 DEF Inv, TypeOK
<1> QED BY <1>1, <1>5, <1>6, <1>7, <1>8, InvMove DEF Inv, TypeOK

LEMMA InvCrash ==
    ASSUME Inv, NEW r \in Replicas, Crash(r)
    PROVE  Inv'
<1>1. UNCHANGED <<now, admins, roleChanges, wire, row, rsvps, pending, received>>
  BY DEF Crash, db
<1>2. task' = [task EXCEPT ![r] = [h \in Handlers |-> Idle]]
  BY DEF Crash
<1>3. task' \in [Replicas -> [Handlers -> Job]]
  BY <1>2, TaskType, IdleJob DEF Inv
<1>4. Job' = Job
  BY <1>1 DEF Job
<1>5. TypeOK'
  <2>1. crashes' \in 0..MaxCrashes
    BY NumberAssumption DEF Crash, Inv, TypeOK
  <2> QED BY <1>1, <1>3, <1>4, <2>1, TypeNext DEF Inv, TypeOK
<1>6. Tasks'
  <2> SUFFICES ASSUME NEW q \in Replicas, NEW k \in Handlers PROVE Fit(q, task[q][k])'
    BY DEF Tasks
  <2>1. task'[q][k] = Idle \/ task'[q][k] = task[q][k]
    BY <1>2, TaskType DEF Inv
  <2>2. Fit(q, task[q][k])
    BY DEF Inv, Tasks
  <2> QED BY <1>1, <2>1, <2>2 DEF Fit, Idle, Busy
<1> QED BY <1>1, <1>5, <1>6 DEF Inv, Numbered

LEMMA InvChangeRole ==
    ASSUME Inv, NEW m \in Replicas, ChangeRole(m)
    PROVE  Inv'
<1>1. UNCHANGED <<now, wire, row, rsvps, pending, task, received, crashes>>
  BY DEF ChangeRole, db
<1>2. admins' \subseteq Replicas /\ roleChanges' \in 0..MaxRoleChanges
  BY NumberAssumption DEF ChangeRole, Inv, TypeOK
<1> QED BY <1>1, <1>2 DEF Inv, TypeOK, Numbered, Tasks, Fit

LEMMA InvTick ==
    ASSUME Inv, Tick
    PROVE  Inv'
<1>1. UNCHANGED <<admins, roleChanges, wire, row, rsvps, pending, task, received, crashes>>
  BY DEF Tick, db
<1>2. now' \in 0..MaxNow
  BY NumberAssumption DEF Tick, Inv, TypeOK
<1> QED BY <1>1, <1>2 DEF Inv, TypeOK, Numbered, Tasks, Fit

LEMMA InvStep == Inv /\ [Next]_vars => Inv'
<1> SUFFICES ASSUME Inv, [Next]_vars PROVE Inv'
  OBVIOUS
<1>1. ASSUME NEW r \in Replicas, NEW h \in Handlers, NEW kind \in Kinds, Send(r, h, kind)
      PROVE  Inv'
  BY <1>1, InvSend
<1>2. ASSUME NEW r \in Replicas, NEW h \in Handlers, NEW o \in wire, ProcessRumor(r, h, o)
      PROVE  Inv'
  BY <1>2, InvProcessRumor
<1>3. ASSUME NEW r \in Replicas, NEW h \in Handlers,
             LoadRow(r, h) \/ Write(r, h) \/ WriteStatus(r, h)
             \/ ListAuthors(r, h) \/ DrainPending(r, h)
      PROVE  Inv'
  BY <1>3, InvLoadRow, InvWrite, InvWriteStatus, InvListAuthors, InvDrainPending
<1>4. ASSUME NEW r \in Replicas, Crash(r) \/ ChangeRole(r)
      PROVE  Inv'
  BY <1>4, InvCrash, InvChangeRole
<1>5. CASE Tick
  BY <1>5, InvTick
<1>6. CASE UNCHANGED vars
  BY <1>6 DEF vars, Inv, TypeOK, Numbered, Tasks, Fit
<1> QED BY <1>1, <1>2, <1>3, <1>4, <1>5, <1>6 DEF Next

\* Every reachable state is well typed, its rumors are numbered one by one, and
\* what a handler read is an earlier state of the row.
LEMMA InvHolds == Spec => []Inv
BY InvInit, InvStep, PTL DEF Spec

\* The tables, the queue, the wire and every handler keep their types, whatever the
\* handlers, crashes and changes of role.
THEOREM TypeCorrect == Spec => []TypeOK
<1>1. Inv => TypeOK
  BY DEF Inv
<1> QED BY <1>1, InvHolds, PTL

\* The steps that touch a row: an insert, an edit by right, a cancel.
LEMMA RowSteps ==
    ASSUME Inv, [Next]_vars, NEW q \in Replicas, row[q] # NoRow
    PROVE  /\ row[q].status = "cancelled" => row'[q].status = "cancelled"
           /\ row'[q].val # row[q].val =>
                 \/ row'[q].by = row[q].author
                 \/ \E h \in Handlers : row'[q].by \in task[q][h].adm
<1> DEFINE Goal == /\ row[q].status = "cancelled" => row'[q].status = "cancelled"
                   /\ row'[q].val # row[q].val =>
                         \/ row'[q].by = row[q].author
                         \/ \E h \in Handlers : row'[q].by \in task[q][h].adm
<1>1. ASSUME NEW r \in Replicas, NEW h \in Handlers, Write(r, h)
      PROVE  Goal
  <2> DEFINE t == task[r][h]
             o == First(t.todo)
             res == Applied(r, o, t)
  <2>1. row'[q].status = row[q].status
    BY <1>1, RowKept
  <2>2. CASE q # r \/ ~(res = "changed" /\ o.kind # "rsvp")
    <3>1. row'[q] = row[q]
      BY <1>1, <2>2, Written
    <3> QED BY <3>1
  <2>3. CASE q = r /\ res = "changed" /\ o.kind # "rsvp"
    <3>1. /\ row[q] \in Row /\ row'[q] = FieldsWritten(row[q], t.snap, o)
          /\ MayEdit(o.by, t.adm, row[q].author)
      BY <1>1, <2>3, Written
    <3> HIDE DEF o
    <3>2. row'[q].val # row[q].val => row'[q].by = o.by
      BY <3>1 DEF FieldsWritten, Row
    <3> QED BY <3>1, <3>2, <2>1, <2>3 DEF MayEdit
  <2> QED BY <2>2, <2>3
<1>2. ASSUME NEW r \in Replicas, NEW h \in Handlers, WriteStatus(r, h)
      PROVE  Goal
  <2>1. row'[q].val = row[q].val /\ row' = [row EXCEPT ![r].status = "cancelled"] /\ row[r] \in Row
    BY <1>2, StatusWritten
  <2>2. row[q].status = "cancelled" => row'[q].status = "cancelled"
    BY <2>1 DEF Inv, TypeOK, Row
  <2> QED BY <2>1, <2>2
<1>3. CASE row' = row
  BY <1>3
<1>4. ASSUME NEW r \in Replicas, NEW h \in Handlers,
             \/ \E kind \in Kinds : Send(r, h, kind)
             \/ \E o \in wire : ProcessRumor(r, h, o)
             \/ LoadRow(r, h) \/ ListAuthors(r, h) \/ DrainPending(r, h)
      PROVE  row' = row
  BY <1>4 DEF Send, ProcessRumor, LoadRow, ListAuthors, DrainPending, db
<1>5. ASSUME NEW r \in Replicas, Crash(r) \/ ChangeRole(r)
      PROVE  row' = row
  BY <1>5 DEF Crash, ChangeRole, db
<1>6. Tick \/ UNCHANGED vars => row' = row
  BY DEF Tick, vars, db
<1> QED BY <1>1, <1>2, <1>3, <1>4, <1>5, <1>6 DEF Next

\* A cancelled event stays cancelled on every replica: apply_write only sets the
\* status column to 'cancelled', and its first UPDATE leaves that column alone, so
\* no interleaving of handlers, crash or role change brings the event back.
THEOREM CancelSticks == Spec => CancelIsSticky
<1>1. Inv /\ [Next]_vars =>
         \A r \in Replicas : (row[r] # NoRow /\ row[r].status = "cancelled")
                                => row'[r].status = "cancelled"
  BY RowSteps
<1>2. Inv /\ [Next]_vars =>
         [ \A r \in Replicas : (row[r] # NoRow /\ row[r].status = "cancelled")
                                  => row'[r].status = "cancelled" ]_vars
  BY <1>1
<1> QED BY <1>2, InvHolds, PTL DEF Spec, CancelIsSticky

\* The fields of a stored event change only to those of a rumor signed by the
\* event's author or by a member who was an admin when a handler of this device
\* looked: the author column never changes, so the copy the handler read still
\* names the author although the row may have moved on since.
THEOREM EditsOnlyByRight == Spec => EditsByRight
<1>1. Inv /\ [Next]_vars =>
         \A r \in Replicas : (row[r] # NoRow /\ row'[r].val # row[r].val) =>
            \/ row'[r].by = row[r].author
            \/ \E h \in Handlers : row'[r].by \in task[r][h].adm
  BY RowSteps
<1>2. Inv /\ [Next]_vars =>
         [ \A r \in Replicas : (row[r] # NoRow /\ row'[r].val # row[r].val) =>
              \/ row'[r].by = row[r].author
              \/ \E h \in Handlers : row'[r].by \in task[r][h].adm ]_vars
  BY <1>1
<1> QED BY <1>2, InvHolds, PTL DEF Spec, EditsByRight

(***************************************************************************)
(* The second part.  What it supposes of the constants: one handler per    *)
(* device, no crash and no change of role, and a queue that neither        *)
(* expires nor overflows (one of the rumors is the create).                *)
(***************************************************************************)
Plain ==
    /\ \E h : Handlers = {h}
    /\ MaxCrashes = 0 /\ MaxRoleChanges = 0
    /\ PendingTtl >= MaxNow
    /\ MaxOps <= MaxPendingPerAuthor + 1

\* What the row of r has to reflect: what was received and is not queued; and the
\* op whose first UPDATE is done while its second one is not.
Done(r) == received[r] \ pending[r]
Half(t) == IF t.pc = "status" THEN {First(t.todo)} ELSE {}

\* Rumors were sent by right, the first of them a create; roles do not change.
Rights ==
    /\ admins = InitialAdmins
    /\ \A o \in wire :
          /\ o.kind = "create" => o.by = Creator /\ MayCreate(Creator, InitialAdmins)
          /\ o.kind \in {"update", "cancel"} => MayEdit(o.by, InitialAdmins, Creator)
    /\ wire # {} => \E o \in wire : o.kind = "create"

\* What waits in the queue has been received and is no create; before the create
\* everything that was received waits.
QueueAt(r) ==
    /\ pending[r] \subseteq received[r]
    /\ \A o \in pending[r] : o.kind # "create"
    /\ row[r] = NoRow => received[r] = pending[r]

\* What the handler knows at each point of apply_op and of the drain.
StageAt(r, t) ==
    /\ (t.pc = "idle" /\ row[r] # NoRow) => pending[r] = {}
    /\ (t.pc \in {"list", "drain"} \/ t.draining) => row[r] # NoRow
    /\ t.pc = "drain" => t.draining
    /\ (t.pc \in Busy /\ ~t.draining) =>
          /\ \A o \in t.todo : t.todo = {o} /\ o.by \in t.known
          /\ row[r] # NoRow => pending[r] = {}
    /\ (t.pc \in Busy /\ t.draining) => t.todo = pending[r]
    /\ t.draining => \A o \in pending[r] : o.by \in t.known
    /\ t.adm = t.known \cap InitialAdmins
    /\ t.pc = "write" => t.snap = row[r]
    /\ t.pc = "status" => /\ row[r] # NoRow /\ row[r].status = "active"
                          /\ First(t.todo).kind = "cancel"

\* The row is the newest write of what is done, cancelled if a cancel is done.
NewestAt(r, t) ==
    row[r] # NoRow =>
        /\ row[r].author = Creator
        /\ \E o \in Done(r) : o.kind = "create"
        /\ \A o \in Done(r) \cup Half(t) : o.kind # "rsvp" => o.stamp <= row[r].stamp
        /\ \E o \in Done(r) \cup Half(t) :
              /\ o.kind # "rsvp" /\ row[r].val = o.id
              /\ row[r].stamp = o.stamp /\ row[r].by = o.by
        /\ row[r].status = "cancelled" <=> \E o \in Done(r) : o.kind = "cancel"

\* A stored answer is that of some rumor of the member, and no older than any that
\* is done.
AnswersAt(r) ==
    /\ \A m \in Replicas :
          \/ rsvps[r][m] = NoRsvp
          \/ \E o \in wire : o.by = m /\ rsvps[r][m] = [stamp |-> o.stamp, id |-> o.id]
    /\ \A o \in Done(r) : o.kind = "rsvp" => o.stamp <= rsvps[r][o.by].stamp

At(r) == /\ QueueAt(r) /\ AnswersAt(r)
         /\ \A h \in Handlers : StageAt(r, task[r][h]) /\ NewestAt(r, task[r][h])

PlainInv == Inv /\ Rights /\ \A r \in Replicas : At(r)

-----------------------------------------------------------------------------
(* The queue under Plain: nothing expires, nothing is trimmed.             *)

LEMMA NothingExpires ==
    ASSUME Plain, TypeOK, NEW S, S \subseteq wire
    PROVE  Purged(S) = S
<1>1. \A o \in S : o.stamp \in Nat
  BY DEF TypeOK, Op
<1>2. now \in Nat /\ now <= PendingTtl /\ PendingTtl \in Nat
  BY NumberAssumption DEF Plain, TypeOK
<1> QED BY <1>1, <1>2 DEF Purged

LEMMA NothingTrimmed ==
    ASSUME Plain, TypeOK, Numbered, NEW S, S \subseteq wire, NEW m,
           \A o \in S : o.kind # "create", NEW c \in wire, c.kind = "create"
    PROVE  Trimmed(S, m) = S
<1> SUFFICES ASSUME NEW o \in S
             PROVE  Cardinality({p \in S : p.by = m /\ Before(o, p)}) < MaxPendingPerAuthor
  BY DEF Trimmed
<1> DEFINE X == {p \in S : p.by = m /\ Before(o, p)}
           W == (wire \ {c}) \ {o}
<1>1. X \subseteq W
  <2>1. o.stamp \in Nat /\ o.id \in Nat
    BY NumberAssumption DEF TypeOK, Op
  <2>2. ~Before(o, o)
    BY <2>1 DEF Before
  <2> QED BY <2>2
<1>2. IsFiniteSet(wire) /\ Cardinality(wire) \in Nat /\ Cardinality(wire) <= MaxOps
  BY FS_CardinalityType DEF Numbered
<1>3. IsFiniteSet(wire \ {c}) /\ Cardinality(wire \ {c}) = Cardinality(wire) - 1
  BY <1>2, FS_RemoveElement
<1>4. IsFiniteSet(W) /\ Cardinality(W) = Cardinality(wire) - 2
  <2>1. o \in wire \ {c}
    OBVIOUS
  <2>2. PICK V : V = wire \ {c}
    OBVIOUS
  <2>3. IsFiniteSet(V) /\ Cardinality(V) = Cardinality(wire) - 1 /\ o \in V
    BY <1>3, <2>1, <2>2
  <2>4. IsFiniteSet(V \ {o}) /\ Cardinality(V \ {o}) = Cardinality(V) - 1
    BY <2>3, FS_RemoveElement
  <2> QED BY <1>2, <2>2, <2>3, <2>4
<1> HIDE DEF X, W
<1>5. IsFiniteSet(X) /\ Cardinality(X) <= Cardinality(W)
  BY <1>1, <1>4, FS_Subset
<1>6. Cardinality(X) \in Nat
  BY <1>5, FS_CardinalityType
<1>7. MaxOps <= MaxPendingPerAuthor + 1 /\ MaxOps \in Nat /\ MaxPendingPerAuthor \in Nat
  BY NumberAssumption DEF Plain
<1>8. Cardinality(X) < MaxPendingPerAuthor
  BY <1>2, <1>4, <1>5, <1>6, <1>7
<1> QED BY <1>8 DEF X

-----------------------------------------------------------------------------
(* A step of one device leaves the others as they are.                     *)

LEMMA Elsewhere ==
    ASSUME NEW q \in Replicas, At(q), wire \subseteq wire',
           row'[q] = row[q], rsvps'[q] = rsvps[q], pending'[q] = pending[q],
           received'[q] = received[q],
           \A h \in Handlers : task'[q][h] = task[q][h]
    PROVE  At(q)'
<1>1. Done(q)' = Done(q)
  BY DEF Done
<1>2. QueueAt(q)'
  BY DEF At, QueueAt
<1>3. AnswersAt(q)'
  BY <1>1 DEF At, AnswersAt
<1>4. ASSUME NEW h \in Handlers PROVE StageAt(q, task[q][h])'
  BY DEF At, StageAt
<1>5. ASSUME NEW h \in Handlers PROVE NewestAt(q, task[q][h])'
  BY <1>1 DEF At, NewestAt, Half
<1> QED BY <1>2, <1>3, <1>4, <1>5 DEF At

\* So it is enough to look at the device of the handler that moves, which is the
\* only one there.
LEMMA PlainMove ==
    ASSUME PlainInv, Plain, Inv', NEW r \in Replicas, NEW h \in Handlers, NEW j,
           task' = [task EXCEPT ![r][h] = j],
           Rights', wire \subseteq wire',
           \A q \in Replicas \ {r} :
              /\ row'[q] = row[q] /\ rsvps'[q] = rsvps[q]
              /\ pending'[q] = pending[q] /\ received'[q] = received[q],
           QueueAt(r)', AnswersAt(r)', StageAt(r, j)', NewestAt(r, j)'
    PROVE  PlainInv'
<1>1. \A k \in Handlers : k = h
  BY DEF Plain
<1>2. task \in [Replicas -> [Handlers -> Job]]
  BY TaskType DEF PlainInv, Inv
<1>3. ASSUME NEW q \in Replicas PROVE At(q)'
  <2>1. CASE q # r
    <3>1. \A k \in Handlers : task'[q][k] = task[q][k]
      BY <1>2, <2>1
    <3>2. At(q)
      BY DEF PlainInv
    <3> QED BY <2>1, <3>1, <3>2, Elsewhere
  <2>2. CASE q = r
    <3>1. \A k \in Handlers : task'[q][k] = j
      BY <1>1, <1>2, <2>2
    <3> QED BY <2>2, <3>1 DEF At
  <2> QED BY <2>1, <2>2
<1> QED BY <1>3 DEF PlainInv

LEMMA PlainInit == Plain /\ Init => PlainInv
<1> SUFFICES ASSUME Plain, Init PROVE PlainInv
  OBVIOUS
<1>1. Rights
  BY DEF Init, Rights
<1>2. ASSUME NEW r \in Replicas PROVE At(r)
  BY DEF Init, At, QueueAt, AnswersAt, StageAt, NewestAt, Done, Idle, Busy
<1> QED BY <1>1, <1>2, InvInit DEF PlainInv

\* A device starts to apply an op, its own or one that arrived.
LEMMA PlainBegin ==
    ASSUME PlainInv, Plain, Inv', NEW r \in Replicas, NEW h \in Handlers, NEW o, NEW j,
           task[r][h] = Idle, o \in wire', j = Applying({o}, FALSE, {o.by}),
           task' = [task EXCEPT ![r][h] = j], Rights', wire \subseteq wire',
           UNCHANGED <<row, rsvps, pending, received>>
    PROVE  PlainInv'
<1>1. QueueAt(r) /\ AnswersAt(r) /\ StageAt(r, Idle) /\ NewestAt(r, Idle)
  BY DEF PlainInv, At
<1>2. Done(r)' = Done(r)
  BY DEF Done
<1>3. QueueAt(r)'
  BY <1>1 DEF QueueAt
<1>4. AnswersAt(r)'
  BY <1>1, <1>2 DEF AnswersAt
<1>5. /\ j.pc = "load" /\ j.todo = {o} /\ j.draining = FALSE
      /\ j.known = {o.by} /\ j.adm = j.known \cap InitialAdmins
  BY DEF Applying, PlainInv, Rights
<1>6. StageAt(r, j)'
  <2>1. row[r] # NoRow => pending[r] = {}
    BY <1>1 DEF StageAt, Idle
  <2> QED BY <1>5, <2>1 DEF StageAt, Busy
<1>7. NewestAt(r, j)'
  <2>1. Half(Idle) = {} /\ Half(j) = {}
    BY <1>5 DEF Half, Idle
  <2> QED BY <1>1, <1>2, <2>1 DEF NewestAt
<1> QED BY <1>3, <1>4, <1>6, <1>7, PlainMove

LEMMA PlainSend ==
    ASSUME PlainInv, Plain, NEW r \in Replicas, NEW h \in Handlers, NEW kind \in Kinds,
           Send(r, h, kind)
    PROVE  PlainInv'
<1> DEFINE o == [id |-> Cardinality(wire) + 1, kind |-> kind, by |-> r,
                 stamp |-> SendStamp(r, kind)]
<1>1. /\ task[r][h] = Idle /\ wire' = wire \cup {o} /\ o.by = r /\ o.kind = kind
      /\ task' = [task EXCEPT ![r][h] = Applying({o}, FALSE, {o.by})]
      /\ UNCHANGED <<row, rsvps, pending, received, admins>>
  BY DEF Send, db
<1>2. Inv'
  BY InvSend DEF PlainInv
<1> HIDE DEF o
<1>3. NewestAt(r, task[r][h]) /\ Rights
  BY DEF PlainInv, At
<1>4. /\ kind = "create" => r = Creator /\ MayCreate(Creator, InitialAdmins)
      /\ kind # "create" =>
            /\ row[r] # NoRow
            /\ kind \in {"update", "cancel"} => MayEdit(r, InitialAdmins, row[r].author)
  BY <1>3 DEF Send, CanSend, Kinds, Rights
<1>5. row[r] # NoRow =>
         row[r].author = Creator /\ \E c \in wire : c.kind = "create"
  BY <1>3 DEF NewestAt, Done, PlainInv, Inv, TypeOK
<1>6. Rights'
  BY <1>1, <1>3, <1>4, <1>5 DEF Rights
<1>7. PICK j : j = Applying({o}, FALSE, {o.by})
  OBVIOUS
<1>8. wire \subseteq wire' /\ o \in wire' /\ task' = [task EXCEPT ![r][h] = j]
  BY <1>1, <1>7
<1> QED BY <1>1, <1>2, <1>6, <1>7, <1>8, PlainBegin

LEMMA PlainProcessRumor ==
    ASSUME PlainInv, Plain, NEW r \in Replicas, NEW h \in Handlers, NEW o \in wire,
           ProcessRumor(r, h, o)
    PROVE  PlainInv'
<1>1. /\ task[r][h] = Idle /\ task' = [task EXCEPT ![r][h] = Applying({o}, FALSE, {o.by})]
      /\ UNCHANGED <<admins, wire, row, rsvps, pending, received>>
  BY DEF ProcessRumor, db
<1>2. Inv'
  BY InvProcessRumor DEF PlainInv
<1>3. Rights'
  BY <1>1 DEF PlainInv, Rights
<1>4. PICK j : j = Applying({o}, FALSE, {o.by})
  OBVIOUS
<1>5. task' = [task EXCEPT ![r][h] = j] /\ o \in wire' /\ wire \subseteq wire'
  BY <1>1, <1>4
<1> QED BY <1>1, <1>2, <1>3, <1>4, <1>5, PlainBegin

LEMMA PlainLoadRow ==
    ASSUME PlainInv, Plain, NEW r \in Replicas, NEW h \in Handlers, LoadRow(r, h)
    PROVE  PlainInv'
<1>1. UNCHANGED <<admins, wire, row, rsvps, pending, received>>
  BY DEF LoadRow, db
<1>2. Inv'
  BY InvLoadRow DEF PlainInv
<1>3. Rights'
  BY <1>1 DEF PlainInv, Rights
<1>4. task[r][h] \in Job /\ task[r][h].pc = "load"
  BY TaskAt DEF PlainInv, Inv, LoadRow
<1>5. PICK j : j = [task[r][h] EXCEPT !.pc = "write", !.snap = row[r]]
  OBVIOUS
<1>6. task' = [task EXCEPT ![r][h] = j]
  BY <1>5, TaskType DEF LoadRow, PlainInv, Inv
<1>7. QueueAt(r) /\ AnswersAt(r) /\ StageAt(r, task[r][h]) /\ NewestAt(r, task[r][h])
  BY DEF PlainInv, At
<1>8. /\ j.pc = "write" /\ j.snap = row[r] /\ j.todo = task[r][h].todo
      /\ j.draining = task[r][h].draining /\ j.known = task[r][h].known
      /\ j.adm = task[r][h].adm
  BY <1>4, <1>5 DEF Job
<1>9. Done(r)' = Done(r)
  BY <1>1 DEF Done
<1>10. QueueAt(r)'
  BY <1>1, <1>7 DEF QueueAt
<1>11. AnswersAt(r)'
  BY <1>1, <1>7, <1>9 DEF AnswersAt
<1>12. StageAt(r, j)'
  BY <1>1, <1>4, <1>7, <1>8 DEF StageAt, Busy
<1>13. NewestAt(r, j)'
  <2>1. Half(task[r][h]) = {} /\ Half(j) = {}
    BY <1>4, <1>8 DEF Half
  <2> QED BY <1>1, <1>7, <1>9, <2>1 DEF NewestAt
<1> QED BY <1>1, <1>2, <1>3, <1>6, <1>10, <1>11, <1>12, <1>13, PlainMove

LEMMA PlainListAuthors ==
    ASSUME PlainInv, Plain, NEW r \in Replicas, NEW h \in Handlers, ListAuthors(r, h)
    PROVE  PlainInv'
<1> DEFINE authors == {o.by : o \in pending[r]}
           drain == [Applying({}, TRUE, authors) EXCEPT !.pc = "drain"]
<1>1. UNCHANGED <<admins, wire, row, rsvps, pending, received>> /\ task[r][h].pc = "list"
  BY DEF ListAuthors, db
<1>2. Inv'
  BY InvListAuthors DEF PlainInv
<1>3. Rights' /\ admins = InitialAdmins
  BY <1>1 DEF PlainInv, Rights
<1>4. PICK j : j = IF authors = {} THEN Idle ELSE drain
  OBVIOUS
<1>5. task' = [task EXCEPT ![r][h] = j]
  BY <1>4 DEF ListAuthors
<1>6. QueueAt(r) /\ AnswersAt(r) /\ StageAt(r, task[r][h]) /\ NewestAt(r, task[r][h])
  BY DEF PlainInv, At
<1>7. Done(r)' = Done(r)
  BY <1>1 DEF Done
<1>8. QueueAt(r)'
  BY <1>1, <1>6 DEF QueueAt
<1>9. AnswersAt(r)'
  BY <1>1, <1>6, <1>7 DEF AnswersAt
<1>10. row[r] # NoRow
  BY <1>1, <1>6 DEF StageAt
<1>11. CASE authors = {}
  <2>1. pending[r] = {} /\ j = Idle
    BY <1>4, <1>11
  <2>2. StageAt(r, j)'
    BY <1>1, <1>10, <2>1 DEF StageAt, Idle, Busy
  <2>3. NewestAt(r, j)'
    BY <1>1, <1>6, <1>7, <2>1 DEF NewestAt, Half, Idle
  <2> QED BY <1>1, <1>2, <1>3, <1>5, <1>8, <1>9, <2>2, <2>3, PlainMove
<1>12. CASE authors # {}
  <2>1. /\ j.pc = "drain" /\ j.draining = TRUE /\ j.known = authors
        /\ j.adm = j.known \cap InitialAdmins
    BY <1>3, <1>4, <1>12 DEF Applying
  <2>2. StageAt(r, j)'
    BY <1>1, <1>10, <2>1 DEF StageAt, Busy
  <2>3. NewestAt(r, j)'
    BY <1>1, <1>6, <1>7, <2>1 DEF NewestAt, Half
  <2> QED BY <1>1, <1>2, <1>3, <1>5, <1>8, <1>9, <2>2, <2>3, PlainMove
<1> QED BY <1>11, <1>12

LEMMA PlainDrainPending ==
    ASSUME PlainInv, Plain, NEW r \in Replicas, NEW h \in Handlers, DrainPending(r, h)
    PROVE  PlainInv'
<1> DEFINE t == task[r][h]
<1>1. UNCHANGED <<admins, wire, row, rsvps, received>> /\ t.pc = "drain" /\ t \in Job
  BY TaskAt DEF DrainPending, PlainInv, Inv
<1>2. Purged(pending[r]) = pending[r]
  BY NothingExpires DEF PlainInv, Inv, TypeOK
<1>3. pending' = pending
  BY <1>2 DEF DrainPending, PlainInv, Inv, TypeOK
<1>4. Inv'
  BY InvDrainPending DEF PlainInv
<1>5. Rights'
  BY <1>1 DEF PlainInv, Rights
<1>6. PICK j : j = IF pending[r] = {} THEN Idle
                   ELSE [t EXCEPT !.pc = "load", !.todo = pending[r]]
  OBVIOUS
<1>7. task' = [task EXCEPT ![r][h] = j]
  BY <1>2, <1>6, TaskType DEF DrainPending, PlainInv, Inv
<1>8. QueueAt(r) /\ AnswersAt(r) /\ StageAt(r, t) /\ NewestAt(r, t)
  BY DEF PlainInv, At
<1> HIDE DEF t
<1>9. Done(r)' = Done(r)
  BY <1>1, <1>3 DEF Done
<1>10. QueueAt(r)'
  BY <1>1, <1>3, <1>8 DEF QueueAt
<1>11. AnswersAt(r)'
  BY <1>1, <1>8, <1>9 DEF AnswersAt
<1>12. row[r] # NoRow /\ t.draining
  BY <1>1, <1>8 DEF StageAt
<1>13. CASE pending[r] = {}
  <2>1. j = Idle
    BY <1>6, <1>13
  <2>2. StageAt(r, j)'
    BY <1>1, <1>3, <1>13, <2>1 DEF StageAt, Idle, Busy
  <2>3. NewestAt(r, j)'
    BY <1>1, <1>8, <1>9, <2>1 DEF NewestAt, Half, Idle
  <2> QED BY <1>1, <1>3, <1>4, <1>5, <1>7, <1>10, <1>11, <2>2, <2>3, PlainMove
<1>14. CASE pending[r] # {}
  <2>1. /\ j.pc = "load" /\ j.todo = pending[r] /\ j.draining = t.draining
        /\ j.known = t.known /\ j.adm = t.adm
    BY <1>1, <1>6, <1>14 DEF Job
  <2>2. StageAt(r, j)'
    BY <1>1, <1>3, <1>8, <1>12, <2>1 DEF StageAt, Busy
  <2>3. NewestAt(r, j)'
    BY <1>1, <1>8, <1>9, <2>1 DEF NewestAt, Half
  <2> QED BY <1>1, <1>3, <1>4, <1>5, <1>7, <1>10, <1>11, <2>2, <2>3, PlainMove
<1> QED BY <1>13, <1>14

-----------------------------------------------------------------------------
(* apply_op under Plain: the row that was read is the row that is there,   *)
(* and nobody is refused.                                                  *)

LEMMA Outcome ==
    ASSUME PlainInv, Plain, NEW r \in Replicas, NEW h \in Handlers, task[r][h].pc = "write"
    PROVE  LET t == task[r][h]
               o == First(t.todo)
               res == Applied(r, o, t)
           IN /\ o \in t.todo /\ o \in wire /\ o \in Op /\ t.snap = row[r]
              /\ row[r] = NoRow =>
                    /\ ~t.draining
                    /\ o.kind = "create" => res = "inserted"
                    /\ o.kind # "create" => res = "queued"
              /\ row[r] # NoRow =>
                    /\ o.kind = "rsvp" => /\ res \in {"changed", "replay", "ignored"}
                                          /\ res = "changed" <=> RsvpChanged(r, o)
                    /\ o.kind # "rsvp" =>
                          IF o.id = row[r].val THEN res = "replay"
                          ELSE IF o.stamp > row[r].stamp \/ Cancels(row[r], o)
                               THEN res = "changed" ELSE res = "ignored"
<1> DEFINE t == task[r][h]
           o == First(t.todo)
           res == Applied(r, o, t)
<1>1. t \in Job /\ t.pc = "write" /\ Fit(r, t) /\ StageAt(r, t) /\ NewestAt(r, t)
  BY TaskAt DEF PlainInv, Inv, Tasks, At
<1>2. o \in t.todo /\ o \in wire /\ o \in Op
  <2>1. t.todo \subseteq wire /\ t.todo # {}
    BY <1>1 DEF Job, Fit, Busy
  <2>2. o \in t.todo
    BY <2>1, FirstIn DEF PlainInv, Inv
  <2> QED BY <2>1, <2>2 DEF PlainInv, Inv, TypeOK
<1> HIDE DEF o, t
<1>3. t.snap = row[r] /\ t.adm = t.known \cap InitialAdmins
  BY <1>1 DEF StageAt
<1>4. o.by \in t.known
  BY <1>1, <1>2 DEF StageAt, Busy
<1>5. row[r] = NoRow => ~t.draining
  BY <1>1 DEF StageAt
<1>6. o.kind \in {"create", "update", "cancel", "rsvp"}
  BY <1>2 DEF Op, Kinds
<1>7. o.kind = "create" => MayCreate(o.by, t.adm)
  BY <1>2, <1>3, <1>4 DEF PlainInv, Rights, MayCreate
<1>8. (row[r] # NoRow /\ o.kind # "rsvp") => MayEdit(o.by, t.adm, row[r].author)
  <2> SUFFICES ASSUME row[r] # NoRow, o.kind # "rsvp" PROVE MayEdit(o.by, t.adm, row[r].author)
    OBVIOUS
  <2>1. row[r].author = Creator
    BY <1>1 DEF NewestAt
  <2>2. o.by = Creator \/ o.by \in InitialAdmins
    BY <1>2, <1>6 DEF PlainInv, Rights, MayEdit
  <2> QED BY <1>3, <1>4, <2>1, <2>2 DEF MayEdit
<1>9. row[r] = NoRow =>
         /\ o.kind = "create" => res = "inserted"
         /\ o.kind # "create" => res = "queued"
  BY <1>3, <1>4, <1>7 DEF Applied
<1>10. (row[r] # NoRow /\ o.kind = "rsvp") =>
          res \in {"changed", "replay", "ignored"} /\ (res = "changed" <=> RsvpChanged(r, o))
  BY <1>3, <1>4 DEF Applied
<1>11. (row[r] # NoRow /\ o.kind # "rsvp") =>
          IF o.id = row[r].val THEN res = "replay"
          ELSE IF o.stamp > row[r].stamp \/ Cancels(row[r], o)
               THEN res = "changed" ELSE res = "ignored"
  BY <1>3, <1>4, <1>8 DEF Applied
<1> QED BY <1>2, <1>3, <1>5, <1>9, <1>10, <1>11 DEF o, t

\* An op that was applied counts as done, and the handler goes on as it should.
LEMMA PlainFinish ==
    ASSUME PlainInv, NEW r \in Replicas, NEW h \in Handlers, NEW o \in task[r][h].todo, NEW res,
           task[r][h].pc \in {"write", "status"}, Finish(r, h, o, res), res # "queued",
           row'[r] # NoRow, row[r] = NoRow => res = "inserted" /\ o.kind = "create"
    PROVE  /\ Done(r)' = Done(r) \cup {o}
           /\ QueueAt(r)'
           /\ \A q \in Replicas \ {r} : pending'[q] = pending[q] /\ received'[q] = received[q]
           /\ \E j : /\ task' = [task EXCEPT ![r][h] = j]
                     /\ StageAt(r, j)' /\ Half(j) = {}
<1>1. PICK t : t = task[r][h]
  OBVIOUS
<1> DEFINE rest == t.todo \ {o}
<1>2. PICK j : j = IF t.draining
                   THEN IF rest = {} THEN Idle ELSE [t EXCEPT !.pc = "load", !.todo = rest]
                   ELSE IF res \in {"queued", "ignored", "failed"} THEN Idle
                        ELSE [Idle EXCEPT !.pc = "list"]
  OBVIOUS
<1>3. task' = [task EXCEPT ![r][h] = j]
  BY <1>1, <1>2 DEF Finish
<1>4. t \in Job /\ StageAt(r, t) /\ QueueAt(r) /\ t.pc \in Busy /\ o \in t.todo
  BY <1>1, TaskAt DEF PlainInv, Inv, At, Busy
<1>5. pending \in [Replicas -> SUBSET wire] /\ received \in [Replicas -> SUBSET wire]
  BY DEF PlainInv, Inv, TypeOK
<1>6. /\ received'[r] = received[r] \cup {o}
      /\ pending'[r] = IF t.draining THEN pending[r] \ {o} ELSE pending[r]
      /\ \A q \in Replicas \ {r} : pending'[q] = pending[q] /\ received'[q] = received[q]
  BY <1>1, <1>5 DEF Finish
<1>7. CASE t.draining
  <2>1. t.todo = pending[r] /\ o \in pending[r] /\ pending[r] \subseteq received[r]
    BY <1>4, <1>7 DEF StageAt, QueueAt
  <2>2. Done(r)' = Done(r) \cup {o}
    BY <1>6, <1>7, <2>1 DEF Done
  <2>3. QueueAt(r)'
    BY <1>4, <1>6, <1>7, <2>1 DEF QueueAt
  <2>4. StageAt(r, j)' /\ Half(j) = {}
    <3>1. CASE rest = {}
      <4>1. j = Idle /\ pending'[r] = {}
        BY <1>2, <1>6, <1>7, <2>1, <3>1
      <4> QED BY <4>1 DEF StageAt, Idle, Busy, Half
    <3>2. CASE rest # {}
      <4>1. /\ j.pc = "load" /\ j.todo = pending'[r] /\ j.draining /\ j.known = t.known
            /\ j.adm = t.adm
        BY <1>2, <1>4, <1>6, <1>7, <2>1, <3>2 DEF Job
      <4>2. \A p \in pending'[r] : p.by \in t.known
        BY <1>4, <1>6, <1>7 DEF StageAt
      <4>3. t.adm = t.known \cap InitialAdmins
        BY <1>4 DEF StageAt
      <4> QED BY <4>1, <4>2, <4>3 DEF StageAt, Busy, Half
    <3> QED BY <3>1, <3>2
  <2> QED BY <1>3, <1>6, <2>2, <2>3, <2>4
<1>8. CASE ~t.draining
  <2>1. row[r] # NoRow => pending[r] = {}
    BY <1>4, <1>8 DEF StageAt
  <2>2. row[r] = NoRow => received[r] = pending[r] /\ o \notin pending[r]
    BY <1>4 DEF QueueAt
  <2>3. Done(r)' = Done(r) \cup {o}
    BY <1>6, <1>8, <2>1, <2>2 DEF Done
  <2>4. QueueAt(r)'
    BY <1>4, <1>6, <1>8 DEF QueueAt
  <2>5. StageAt(r, j)' /\ Half(j) = {}
    <3>1. CASE res \in {"ignored", "failed"}
      <4>1. j = Idle /\ pending'[r] = {}
        BY <1>2, <1>6, <1>8, <2>1, <3>1
      <4> QED BY <4>1 DEF StageAt, Idle, Busy, Half
    <3>2. CASE res \notin {"ignored", "failed"}
      <4>1. j.pc = "list" /\ j.draining = FALSE /\ j.known = {} /\ j.adm = {}
        BY <1>2, <1>8, <3>2 DEF Idle
      <4> QED BY <4>1 DEF StageAt, Busy, Half
    <3> QED BY <3>1, <3>2
  <2> QED BY <1>3, <1>6, <2>3, <2>4, <2>5
<1> QED BY <1>7, <1>8

\* upsert_rsvp keeps the newest answer.
LEMMA AnswersKept ==
    ASSUME PlainInv, NEW r \in Replicas, NEW o \in wire, wire' = wire,
           \/ rsvps' = UpsertRsvp(r, o)
           \/ rsvps' = rsvps /\ (o.kind = "rsvp" => ~RsvpChanged(r, o)),
           Done(r)' = Done(r) \cup {o}
    PROVE  AnswersAt(r)'
<1>1. AnswersAt(r) /\ o \in Op /\ Done(r) \subseteq wire
  BY DEF PlainInv, Inv, At, TypeOK, Done
<1>2. rsvps \in [Replicas -> [Replicas -> [stamp : Nat, id : 0..MaxOps]]]
  BY DEF PlainInv, Inv, TypeOK
<1>3. o.by \in Replicas /\ o.stamp \in Nat /\ o.id \in 1..MaxOps
  BY <1>1 DEF Op
<1>4. \A p \in wire : p.stamp \in Nat /\ p.by \in Replicas
  BY DEF PlainInv, Inv, TypeOK, Op
<1>5. CASE RsvpChanged(r, o) /\ rsvps' = UpsertRsvp(r, o)
  <2>1. rsvps' = [rsvps EXCEPT ![r][o.by] = [stamp |-> o.stamp, id |-> o.id]]
    BY <1>5 DEF UpsertRsvp
  <2>2. /\ rsvps'[r][o.by] = [stamp |-> o.stamp, id |-> o.id]
        /\ \A m \in Replicas \ {o.by} : rsvps'[r][m] = rsvps[r][m]
    BY <1>2, <1>3, <2>1
  <2>3. rsvps[r][o.by].stamp <= o.stamp
    BY <1>2, <1>3, <1>5 DEF RsvpChanged, NoRsvp
  <2>4. \A m \in Replicas :
           \/ rsvps'[r][m] = NoRsvp
           \/ \E p \in wire' : p.by = m /\ rsvps'[r][m] = [stamp |-> p.stamp, id |-> p.id]
    BY <1>1, <2>2 DEF AnswersAt
  <2>5. ASSUME NEW p \in Done(r)', p.kind = "rsvp" PROVE p.stamp <= rsvps'[r][p.by].stamp
    <3>1. CASE p = o
      BY <1>3, <2>2, <3>1
    <3>2. CASE p # o
      <4>1. p \in Done(r) /\ p.stamp <= rsvps[r][p.by].stamp /\ p.stamp \in Nat /\ p.by \in Replicas
        BY <1>1, <1>4, <2>5, <3>2 DEF AnswersAt
      <4>2. rsvps[r][p.by].stamp \in Nat
        BY <1>2, <4>1
      <4>3. CASE p.by = o.by
        BY <1>3, <2>2, <2>3, <4>1, <4>2, <4>3
      <4>4. CASE p.by # o.by
        BY <2>2, <4>1, <4>4
      <4> QED BY <4>3, <4>4
    <3> QED BY <3>1, <3>2
  <2> QED BY <2>4, <2>5 DEF AnswersAt
<1>6. CASE rsvps' = rsvps /\ (o.kind = "rsvp" => ~RsvpChanged(r, o))
  <2>1. o.kind = "rsvp" => o.stamp <= rsvps[r][o.by].stamp
    <3> SUFFICES ASSUME o.kind = "rsvp" PROVE o.stamp <= rsvps[r][o.by].stamp
      OBVIOUS
    <3>1. rsvps[r][o.by].stamp \in Nat
      BY <1>2, <1>3
    <3>2. CASE o.id = rsvps[r][o.by].id
      <4>1. rsvps[r][o.by] # NoRsvp
        BY <1>3, <3>2 DEF NoRsvp
      <4>2. PICK p \in wire : rsvps[r][o.by] = [stamp |-> p.stamp, id |-> p.id]
        BY <1>1, <1>3, <4>1 DEF AnswersAt
      <4>3. p = o
        BY <3>2, <4>2 DEF PlainInv, Inv, Numbered
      <4> QED BY <1>3, <4>2, <4>3
    <3>3. CASE o.id # rsvps[r][o.by].id
      <4>1. ~(o.stamp > rsvps[r][o.by].stamp)
        BY <1>6, <3>3 DEF RsvpChanged
      <4> QED BY <1>3, <3>1, <4>1
    <3> QED BY <3>2, <3>3
  <2> QED BY <1>1, <1>6, <2>1 DEF AnswersAt
<1>7. ~RsvpChanged(r, o) => UpsertRsvp(r, o) = rsvps
  BY DEF UpsertRsvp
<1> QED BY <1>5, <1>6, <1>7

-----------------------------------------------------------------------------
(* The row after an op is done, and between the two UPDATEs of a cancel.   *)

\* An op that leaves the row alone is no newer than it, and no new cancel.
LEMMA NewestKept ==
    ASSUME NEW r \in Replicas, NEW t, NEW j, NEW o, row[r] # NoRow, NewestAt(r, t),
           Half(t) = {}, Half(j) = {},
           row'[r] = row[r], Done(r)' = Done(r) \cup {o},
           o.kind # "rsvp" => o.stamp <= row[r].stamp,
           o.kind = "cancel" => row[r].status = "cancelled"
    PROVE  NewestAt(r, j)'
BY DEF NewestAt, Half

\* A newer write that is no cancel, or a cancel of a cancelled event.
LEMMA NewestWritten ==
    ASSUME NEW r \in Replicas, NEW t, NEW j, NEW o \in Op, row[r] \in Row, NewestAt(r, t),
           Half(t) = {}, Half(j) = {}, Done(r) \subseteq Op, row[r] # NoRow,
           row'[r] = FieldsWritten(row[r], row[r], o), o.stamp > row[r].stamp,
           Done(r)' = Done(r) \cup {o}, o.kind # "rsvp",
           o.kind = "cancel" => row[r].status = "cancelled"
    PROVE  NewestAt(r, j)'
<1>1. /\ row'[r].val = o.id /\ row'[r].stamp = o.stamp /\ row'[r].by = o.by
      /\ row'[r].author = row[r].author /\ row'[r].status = row[r].status
  BY DEF FieldsWritten, Row
<1>2. \A p \in Done(r) : p.kind # "rsvp" => p.stamp <= o.stamp
  <2> SUFFICES ASSUME NEW p \in Done(r), p.kind # "rsvp" PROVE p.stamp <= o.stamp
    OBVIOUS
  <2>1. p.stamp <= row[r].stamp /\ p.stamp \in Nat /\ row[r].stamp \in Nat /\ o.stamp \in Nat
    BY DEF NewestAt, Op, Row
  <2> QED BY <2>1
<1>3. o.stamp <= o.stamp
  BY DEF Op
<1> QED BY <1>1, <1>2, <1>3 DEF NewestAt, Half

\* The first UPDATE of a cancel.
LEMMA NewestHalf ==
    ASSUME NEW r \in Replicas, NEW t, NEW j, NEW o \in Op, row[r] \in Row, NewestAt(r, t),
           Half(t) = {}, Half(j) = {o}, Done(r) \subseteq Op, row[r] # NoRow,
           row'[r] = FieldsWritten(row[r], row[r], o), Done(r)' = Done(r), o.kind = "cancel"
    PROVE  NewestAt(r, j)'
<1>1. CASE o.stamp > row[r].stamp
  <2>1. /\ row'[r].val = o.id /\ row'[r].stamp = o.stamp /\ row'[r].by = o.by
        /\ row'[r].author = row[r].author /\ row'[r].status = row[r].status
    BY <1>1 DEF FieldsWritten, Row
  <2>2. \A p \in Done(r) : p.kind # "rsvp" => p.stamp <= o.stamp
    <3> SUFFICES ASSUME NEW p \in Done(r), p.kind # "rsvp" PROVE p.stamp <= o.stamp
      OBVIOUS
    <3>1. p.stamp <= row[r].stamp /\ p.stamp \in Nat /\ row[r].stamp \in Nat /\ o.stamp \in Nat
      BY DEF NewestAt, Op, Row
    <3> QED BY <1>1, <3>1
  <2>3. o.stamp <= o.stamp
    BY DEF Op
  <2> QED BY <2>1, <2>2, <2>3 DEF NewestAt
<1>2. CASE ~(o.stamp > row[r].stamp)
  <2>1. row'[r] = row[r]
    BY <1>2 DEF FieldsWritten
  <2>2. o.stamp <= row[r].stamp
    BY <1>2 DEF Op, Row
  <2> QED BY <2>1, <2>2 DEF NewestAt
<1> QED BY <1>1, <1>2

\* The second one.
LEMMA NewestStatus ==
    ASSUME NEW r \in Replicas, NEW t, NEW j, NEW o, row[r] \in Row, NewestAt(r, t),
           Half(t) = {o}, Half(j) = {}, row[r] # NoRow,
           row'[r] = [row[r] EXCEPT !.status = "cancelled"],
           Done(r)' = Done(r) \cup {o}, o.kind = "cancel"
    PROVE  NewestAt(r, j)'
<1>1. /\ row'[r].val = row[r].val /\ row'[r].stamp = row[r].stamp /\ row'[r].by = row[r].by
      /\ row'[r].author = row[r].author /\ row'[r].status = "cancelled"
  BY DEF Row
<1> QED BY <1>1 DEF NewestAt

LEMMA NewestInserted ==
    ASSUME NEW r \in Replicas, NEW j, NEW o \in Op, Half(j) = {}, Done(r) = {},
           row'[r] = Inserted(o), Done(r)' = Done(r) \cup {o},
           o.kind = "create", o.by = Creator
    PROVE  NewestAt(r, j)'
<1>1. o.stamp <= o.stamp
  BY DEF Op
<1> QED BY <1>1 DEF NewestAt, Inserted

\* A child that comes before the create is queued: everything received still waits.
LEMMA PlainQueued ==
    ASSUME PlainInv, Plain, NEW r \in Replicas, NEW h \in Handlers, Write(r, h),
           row[r] = NoRow, First(task[r][h].todo).kind # "create"
    PROVE  PlainInv'
<1> DEFINE t == task[r][h]
           o == First(t.todo)
           res == Applied(r, o, t)
<1>1. t.pc = "write" /\ UNCHANGED <<admins, wire>>
  BY DEF Write
<1>2. o \in wire /\ o.kind # "create" /\ ~t.draining /\ res = "queued"
  BY <1>1, Outcome
<1>3. row' = row /\ rsvps' = rsvps /\ Finish(r, h, o, res)
  BY <1>2 DEF Write
<1>4. Inv'
  BY InvWrite DEF PlainInv
<1>5. Rights'
  BY <1>1 DEF PlainInv, Rights
<1>6. task' = [task EXCEPT ![r][h] = Idle]
  BY <1>2, <1>3 DEF Finish
<1> HIDE DEF o, t, res
<1>7. QueueAt(r) /\ AnswersAt(r) /\ pending \in [Replicas -> SUBSET wire]
      /\ received \in [Replicas -> SUBSET wire]
  BY DEF PlainInv, Inv, At, TypeOK
<1>8. Trimmed(Purged(pending[r]) \cup {o}, o.by) = pending[r] \cup {o}
  <2>1. Purged(pending[r]) = pending[r]
    BY <1>7, NothingExpires DEF PlainInv, Inv
  <2>2. \E c \in wire : c.kind = "create"
    BY <1>2 DEF PlainInv, Rights
  <2>3. PICK S : S = pending[r] \cup {o}
    OBVIOUS
  <2>4. S \subseteq wire /\ \A p \in S : p.kind # "create"
    BY <1>2, <1>7, <2>3 DEF QueueAt
  <2>5. Trimmed(S, o.by) = S
    BY <2>2, <2>4, NothingTrimmed DEF PlainInv, Inv
  <2> QED BY <2>1, <2>3, <2>5
<1>9. /\ pending'[r] = pending[r] \cup {o} /\ received'[r] = received[r] \cup {o}
      /\ \A q \in Replicas \ {r} : pending'[q] = pending[q] /\ received'[q] = received[q]
  BY <1>2, <1>3, <1>7, <1>8 DEF Finish, t
<1>10. received[r] = pending[r]
  BY <1>7 DEF QueueAt
<1>11. Done(r)' = {}
  BY <1>9, <1>10 DEF Done
<1>12. QueueAt(r)'
  BY <1>2, <1>7, <1>9, <1>10 DEF QueueAt
<1>13. AnswersAt(r)'
  BY <1>1, <1>3, <1>7, <1>11 DEF AnswersAt
<1>14. StageAt(r, Idle)' /\ NewestAt(r, Idle)'
  BY <1>3 DEF StageAt, NewestAt, Idle, Busy
<1>15. PICK j : j = Idle
  OBVIOUS
<1>16. task' = [task EXCEPT ![r][h] = j] /\ StageAt(r, j)' /\ NewestAt(r, j)'
  BY <1>6, <1>14, <1>15 DEF StageAt, NewestAt, Half, Idle
<1> QED BY <1>1, <1>3, <1>4, <1>5, <1>9, <1>12, <1>13, <1>16, PlainMove

\* The first UPDATE of a cancel that finds the event active.
LEMMA PlainHalf ==
    ASSUME PlainInv, Plain, NEW r \in Replicas, NEW h \in Handlers, Write(r, h),
           Applied(r, First(task[r][h].todo), task[r][h]) = "changed",
           Cancels(task[r][h].snap, First(task[r][h].todo))
    PROVE  PlainInv'
<1> DEFINE t == task[r][h]
           o == First(t.todo)
           res == Applied(r, o, t)
<1>1. t.pc = "write" /\ UNCHANGED <<admins, wire>>
  BY DEF Write
<1>2. o \in Op /\ o.kind = "cancel" /\ row[r] # NoRow /\ row[r].status = "active" /\ t.snap = row[r]
  <2>1. o \in Op /\ t.snap = row[r] /\ (row[r] = NoRow => res \in {"inserted", "queued"})
    BY <1>1, Outcome
  <2> QED BY <2>1 DEF Cancels
<1>3. Inv'
  BY InvWrite DEF PlainInv
<1>4. Rights'
  BY <1>1 DEF PlainInv, Rights
<1>5. PICK j : j = [t EXCEPT !.pc = "status"]
  OBVIOUS
<1>6. /\ task' = [task EXCEPT ![r][h] = j] /\ pending' = pending /\ received' = received
      /\ rsvps' = rsvps
  BY <1>2, <1>5, TaskType DEF Write, PlainInv, Inv
<1>7. /\ row[r] \in Row /\ row'[r] = FieldsWritten(row[r], row[r], o)
      /\ \A q \in Replicas \ {r} : row'[q] = row[q]
  BY <1>2, Written DEF PlainInv
<1>8. t \in Job /\ QueueAt(r) /\ AnswersAt(r) /\ StageAt(r, t) /\ NewestAt(r, t)
  BY TaskAt DEF PlainInv, Inv, At
<1>9. Done(r) \subseteq Op
  BY DEF Done, PlainInv, Inv, TypeOK
<1>10. j.todo = t.todo
  BY <1>5, <1>8 DEF Job
<1>11. First(j.todo) = o
  BY <1>10
<1> HIDE DEF o, t, res
<1>12. /\ j.pc = "status" /\ j.draining = t.draining /\ j.known = t.known /\ j.adm = t.adm
  BY <1>5, <1>8 DEF Job
<1>13. row'[r] # NoRow /\ row'[r].status = "active"
  BY <1>2, <1>7, FieldsWrittenRow, NoRowAssumption
<1>14. Done(r)' = Done(r)
  BY <1>6 DEF Done
<1>15. QueueAt(r)'
  BY <1>6, <1>8, <1>13 DEF QueueAt
<1>16. AnswersAt(r)'
  BY <1>1, <1>6, <1>8, <1>14 DEF AnswersAt
<1>17. StageAt(r, j)'
  BY <1>1, <1>2, <1>6, <1>8, <1>10, <1>11, <1>12, <1>13 DEF StageAt, Busy
<1>18. Half(t) = {} /\ Half(j) = {o}
  BY <1>1, <1>11, <1>12 DEF Half
<1>19. NewestAt(r, j)'
  BY <1>2, <1>7, <1>8, <1>9, <1>14, <1>18, NewestHalf
<1> QED BY <1>1, <1>3, <1>4, <1>6, <1>7, <1>15, <1>16, <1>17, <1>19, PlainMove

\* Every other op is done in one statement.
LEMMA PlainDone ==
    ASSUME PlainInv, Plain, NEW r \in Replicas, NEW h \in Handlers, Write(r, h),
           row[r] = NoRow => First(task[r][h].todo).kind = "create",
           ~(Applied(r, First(task[r][h].todo), task[r][h]) = "changed"
             /\ Cancels(task[r][h].snap, First(task[r][h].todo)))
    PROVE  PlainInv'
<1> DEFINE t == task[r][h]
           o == First(t.todo)
           res == Applied(r, o, t)
<1>1. t.pc = "write" /\ UNCHANGED <<admins, wire>>
  BY DEF Write
<1>2. /\ o \in t.todo /\ o \in wire /\ o \in Op /\ t.snap = row[r]
      /\ row[r] = NoRow => o.kind = "create" /\ res = "inserted"
      /\ row[r] # NoRow =>
            /\ o.kind = "rsvp" => /\ res \in {"changed", "replay", "ignored"}
                                  /\ res = "changed" <=> RsvpChanged(r, o)
            /\ o.kind # "rsvp" =>
                  IF o.id = row[r].val THEN res = "replay"
                  ELSE IF o.stamp > row[r].stamp \/ Cancels(row[r], o)
                       THEN res = "changed" ELSE res = "ignored"
  BY <1>1, Outcome
<1>3. Inv'
  BY InvWrite DEF PlainInv
<1>4. Rights'
  BY <1>1 DEF PlainInv, Rights
<1>5. Finish(r, h, o, res)
  BY DEF Write
<1>6. /\ row' \in [Replicas -> Row \cup {NoRow}]
      /\ \A q \in Replicas \ {r} : row'[q] = row[q]
      /\ res = "inserted" => row'[r] = Inserted(o)
      /\ (res = "changed" /\ o.kind # "rsvp") => row'[r] = FieldsWritten(row[r], row[r], o)
      /\ (res # "inserted" /\ ~(res = "changed" /\ o.kind # "rsvp")) => row' = row
  BY <1>2, Written DEF PlainInv
<1>7. rsvps' = IF res = "inserted" \/ (res = "changed" /\ o.kind = "rsvp")
               THEN UpsertRsvp(r, o) ELSE rsvps
  BY DEF Write
<1>8. ~(res = "changed" /\ Cancels(row[r], o))
  BY <1>2
<1>9. t \in Job /\ QueueAt(r) /\ StageAt(r, t) /\ NewestAt(r, t)
  BY TaskAt DEF PlainInv, Inv, At
<1>10. row[r] # NoRow => row'[r] # NoRow
  BY RowKept DEF PlainInv
<1> HIDE DEF o, res
<1>11. row[r] = NoRow => row'[r] # NoRow
  BY <1>2, <1>6, InsertedRow, NoRowAssumption
<1>12. o.kind \in {"create", "update", "cancel", "rsvp"} /\ row \in [Replicas -> Row \cup {NoRow}]
  BY <1>2 DEF Op, Kinds, PlainInv, Inv, TypeOK
<1>13. res # "queued" /\ res # "failed"
  BY <1>2
<1>14. /\ Done(r)' = Done(r) \cup {o}
       /\ QueueAt(r)'
       /\ \A q \in Replicas \ {r} : pending'[q] = pending[q] /\ received'[q] = received[q]
       /\ \E j : /\ task' = [task EXCEPT ![r][h] = j]
                 /\ StageAt(r, j)' /\ Half(j) = {}
  BY <1>1, <1>2, <1>5, <1>10, <1>11, <1>13, PlainFinish
<1>15. PICK j : task' = [task EXCEPT ![r][h] = j] /\ StageAt(r, j)' /\ Half(j) = {}
  BY <1>14
<1> HIDE DEF t
<1>16. Half(t) = {} /\ Done(r) \subseteq Op
  BY <1>1 DEF Half, Done, PlainInv, Inv, TypeOK
<1>17. AnswersAt(r)'
  <2>1. \/ rsvps' = UpsertRsvp(r, o)
        \/ rsvps' = rsvps /\ (o.kind = "rsvp" => ~RsvpChanged(r, o))
    BY <1>2, <1>7
  <2> QED BY <1>1, <1>2, <1>14, <2>1, AnswersKept
<1>18. \A q \in Replicas \ {r} : rsvps'[q] = rsvps[q]
  BY <1>2, <1>7 DEF UpsertRsvp, PlainInv, Inv, TypeOK
<1>19. NewestAt(r, j)'
  <2>1. CASE row[r] = NoRow
    <3>1. Done(r) = {}
      BY <1>9, <2>1 DEF QueueAt, Done
    <3>2. o.by = Creator
      BY <1>2, <2>1 DEF PlainInv, Rights
    <3> QED BY <1>2, <1>6, <1>14, <1>15, <2>1, <3>1, <3>2, NewestInserted
  <2>2. CASE row[r] # NoRow /\ res = "changed" /\ o.kind # "rsvp"
    <3>1. o.stamp > row[r].stamp
      BY <1>2, <1>8, <2>2
    <3>2. row[r] \in Row /\ row'[r] = FieldsWritten(row[r], row[r], o)
      BY <1>6, <1>12, <2>2
    <3>3. o.kind = "cancel" => row[r].status = "cancelled"
      BY <1>8, <2>2, <3>2 DEF Cancels, Row
    <3> QED BY <1>2, <1>9, <1>14, <1>15, <1>16, <2>2, <3>1, <3>2, <3>3, NewestWritten
  <2>3. CASE row[r] # NoRow /\ ~(res = "changed" /\ o.kind # "rsvp")
    <3>1. row'[r] = row[r] /\ row[r] \in Row
      BY <1>2, <1>6, <1>12, <2>3
    <3>2. o.kind # "rsvp" => o.stamp <= row[r].stamp /\ (o.kind = "cancel" => row[r].status = "cancelled")
      <4> SUFFICES ASSUME o.kind # "rsvp"
                   PROVE  o.stamp <= row[r].stamp /\ (o.kind = "cancel" => row[r].status = "cancelled")
        OBVIOUS
      <4>1. CASE o.id = row[r].val
        <5>1. PICK w \in Done(r) : row[r].val = w.id
          BY <1>9, <1>16, <2>3 DEF NewestAt
        <5>2. w \in wire
          BY <5>1 DEF Done, PlainInv, Inv, TypeOK
        <5>3. w = o
          BY <1>2, <4>1, <5>1, <5>2 DEF PlainInv, Inv, Numbered
        <5> QED BY <1>9, <2>3, <5>1, <5>3 DEF NewestAt
      <4>2. CASE o.id # row[r].val
        <5>1. ~(o.stamp > row[r].stamp) /\ ~Cancels(row[r], o)
          BY <1>2, <2>3, <4>2
        <5>2. o.stamp \in Nat /\ row[r].stamp \in Nat /\ row[r].status \in {"active", "cancelled"}
          BY <1>2, <3>1 DEF Op, Row
        <5> QED BY <5>1, <5>2 DEF Cancels
      <4> QED BY <4>1, <4>2
    <3> QED BY <1>9, <1>14, <1>15, <1>16, <2>3, <3>1, <3>2, NewestKept
  <2> QED BY <2>1, <2>2, <2>3
<1> QED BY <1>1, <1>3, <1>4, <1>6, <1>14, <1>15, <1>17, <1>18, <1>19, PlainMove

LEMMA PlainWriteStatus ==
    ASSUME PlainInv, Plain, NEW r \in Replicas, NEW h \in Handlers, WriteStatus(r, h)
    PROVE  PlainInv'
<1> DEFINE t == task[r][h]
           o == First(t.todo)
<1>1. t.pc = "status" /\ UNCHANGED <<admins, wire, rsvps>> /\ Finish(r, h, o, "changed")
  BY DEF WriteStatus
<1>2. /\ o \in t.todo /\ o \in wire
      /\ row[r] \in Row /\ row' = [row EXCEPT ![r].status = "cancelled"] /\ row'[r] # NoRow
  BY StatusWritten, NoRowAssumption DEF PlainInv
<1>3. Inv'
  BY InvWriteStatus DEF PlainInv
<1>4. Rights'
  BY <1>1 DEF PlainInv, Rights
<1>5. QueueAt(r) /\ StageAt(r, t) /\ NewestAt(r, t) /\ row \in [Replicas -> Row \cup {NoRow}]
  BY DEF PlainInv, Inv, At, TypeOK
<1>6. row[r] # NoRow /\ o.kind = "cancel" /\ Half(t) = {o}
  BY <1>1, <1>5 DEF StageAt, Half
<1> HIDE DEF o
<1>7. /\ Done(r)' = Done(r) \cup {o}
      /\ QueueAt(r)'
      /\ \A q \in Replicas \ {r} : pending'[q] = pending[q] /\ received'[q] = received[q]
      /\ \E j : /\ task' = [task EXCEPT ![r][h] = j]
                /\ StageAt(r, j)' /\ Half(j) = {}
  BY <1>1, <1>2, <1>6, PlainFinish
<1>8. PICK j : task' = [task EXCEPT ![r][h] = j] /\ StageAt(r, j)' /\ Half(j) = {}
  BY <1>7
<1>9. /\ row'[r] = [row[r] EXCEPT !.status = "cancelled"]
      /\ \A q \in Replicas \ {r} : row'[q] = row[q]
  BY <1>2, <1>5
<1>10. AnswersAt(r)'
  BY <1>1, <1>2, <1>6, <1>7, AnswersKept
<1> HIDE DEF t
<1>11. NewestAt(r, j)'
  BY <1>2, <1>5, <1>6, <1>7, <1>8, <1>9, NewestStatus
<1> QED BY <1>1, <1>3, <1>4, <1>7, <1>8, <1>9, <1>10, <1>11, PlainMove

LEMMA PlainStep == Plain /\ PlainInv /\ [Next]_vars => PlainInv'
<1> SUFFICES ASSUME Plain, PlainInv, [Next]_vars PROVE PlainInv'
  OBVIOUS
<1>1. ASSUME NEW r \in Replicas, NEW h \in Handlers, NEW kind \in Kinds, Send(r, h, kind)
      PROVE  PlainInv'
  BY <1>1, PlainSend
<1>2. ASSUME NEW r \in Replicas, NEW h \in Handlers, NEW o \in wire, ProcessRumor(r, h, o)
      PROVE  PlainInv'
  BY <1>2, PlainProcessRumor
<1>3. ASSUME NEW r \in Replicas, NEW h \in Handlers, Write(r, h)
      PROVE  PlainInv'
  BY <1>3, PlainQueued, PlainHalf, PlainDone
<1>4. ASSUME NEW r \in Replicas, NEW h \in Handlers,
             LoadRow(r, h) \/ WriteStatus(r, h) \/ ListAuthors(r, h) \/ DrainPending(r, h)
      PROVE  PlainInv'
  BY <1>4, PlainLoadRow, PlainWriteStatus, PlainListAuthors, PlainDrainPending
<1>5. ASSUME NEW r \in Replicas, Crash(r) \/ ChangeRole(r)
      PROVE  FALSE
  BY <1>5 DEF Crash, ChangeRole, Plain, PlainInv, Inv, TypeOK
<1>6. CASE Tick \/ UNCHANGED vars
  <2>1. UNCHANGED <<admins, wire, row, rsvps, pending, task, received>>
    BY <1>6 DEF Tick, vars, db
  <2>2. Inv'
    BY InvStep DEF PlainInv
  <2>3. Rights'
    BY <2>1 DEF PlainInv, Rights
  <2>4. \A r \in Replicas : At(r)'
    BY <2>1, Elsewhere DEF PlainInv
  <2> QED BY <2>2, <2>3, <2>4 DEF PlainInv
<1> QED BY <1>1, <1>2, <1>3, <1>4, <1>5, <1>6 DEF Next

LEMMA PlainHolds ==
    ASSUME Plain
    PROVE  Spec => []PlainInv
<1>1. Init => PlainInv
  BY PlainInit
<1>2. PlainInv /\ [Next]_vars => PlainInv'
  BY PlainStep
<1> QED BY <1>1, <1>2, PTL DEF Spec

-----------------------------------------------------------------------------
(* What the invariant says of a quiet replica.                             *)

LEMMA QuietDone ==
    ASSUME Plain, PlainInv, NEW r \in Replicas, Quiet(r)
    PROVE  /\ row[r] = NoRow => \A o \in received[r] : o.kind # "create"
           /\ row[r] # NoRow => pending[r] = {} /\ Done(r) = received[r]
           /\ NewestAt(r, Idle)
<1>1. PICK h : Handlers = {h}
  BY DEF Plain
<1>2. task[r][h] = Idle
  BY <1>1 DEF Quiet
<1>3. QueueAt(r) /\ StageAt(r, Idle) /\ NewestAt(r, Idle)
  BY <1>1, <1>2 DEF PlainInv, At
<1>4. row[r] # NoRow => pending[r] = {}
  BY <1>3 DEF StageAt, Idle
<1> QED BY <1>3, <1>4 DEF QueueAt, Done

\* A quiet device that has the event has none of its children queued: whoever comes
\* before the create waits, and the drain that follows the insert takes them all.
\* With two handlers this fails (SquadEventOrphan.cfg).
THEOREM NothingLeftQueued ==
    ASSUME Plain
    PROVE  Spec => []QueuedUntilCreate
<1>1. PlainInv => QueuedUntilCreate
  BY QuietDone DEF QueuedUntilCreate
<1> QED BY <1>1, PlainHolds, PTL

\* However the rumors came, and however often, the stored answer of a member is no
\* older than any of its RSVPs that was received.
THEOREM RsvpFollowsRumors ==
    ASSUME Plain
    PROVE  Spec => []RsvpIsReference
<1>1. PlainInv => RsvpIsReference
  <2> SUFFICES ASSUME PlainInv, NEW r \in Replicas, Quiet(r), row[r] # NoRow,
                      NEW o \in received[r], o.kind = "rsvp"
               PROVE  rsvps[r][o.by].stamp >= o.stamp
    BY DEF RsvpIsReference
  <2>1. o \in Done(r)
    BY QuietDone
  <2>2. o.stamp <= rsvps[r][o.by].stamp
    BY <2>1 DEF PlainInv, At, AnswersAt
  <2>3. o.stamp \in Nat /\ o.by \in Replicas
    BY DEF PlainInv, Inv, TypeOK, Op
  <2>4. rsvps[r][o.by].stamp \in Nat
    BY <2>3 DEF PlainInv, Inv, TypeOK
  <2> QED BY <2>2, <2>3, <2>4
<1> QED BY <1>1, PlainHolds, PTL

\* The row of a quiet device is a function of the set of rumors it received: no
\* order of arrival, repetition or wait in the queue shows in it, so two devices
\* that received the same rumors hold the same event.  DistinctStamps is the
\* property's own condition: of two writes of one stamp the one that came first
\* stays.
THEOREM RowFollowsRumors ==
    ASSUME Plain
    PROVE  Spec => []RowIsReference
<1>1. PlainInv => RowIsReference
  <2> SUFFICES ASSUME PlainInv, NEW r \in Replicas, Quiet(r),
                      DistinctStamps(Writes(received[r]))
               PROVE  row[r] = Reference(received[r])
    BY DEF RowIsReference
  <2>1. CASE row[r] = NoRow
    BY <2>1, QuietDone DEF Reference
  <2>2. CASE row[r] # NoRow
    <3> DEFINE S == received[r]
    <3>1. NewestAt(r, Idle) /\ Done(r) = S /\ Half(Idle) = {}
      BY <2>2, QuietDone DEF Half, Idle
    <3>2. /\ row[r].author = Creator
          /\ \E o \in S : o.kind = "create"
          /\ \A o \in S : o.kind # "rsvp" => o.stamp <= row[r].stamp
          /\ row[r].status = "cancelled" <=> \E o \in S : o.kind = "cancel"
      BY <2>2, <3>1 DEF NewestAt
    <3>3. PICK w \in S : /\ w.kind # "rsvp" /\ row[r].val = w.id
                         /\ row[r].stamp = w.stamp /\ row[r].by = w.by
      BY <2>2, <3>1 DEF NewestAt
    <3>4. row[r] \in Row /\ S \subseteq Op
      BY <2>2 DEF PlainInv, Inv, TypeOK
    <3> HIDE DEF S
    <3>5. w \in Writes(S) /\ \A p \in Writes(S) : w.stamp >= p.stamp
      <4>1. ASSUME NEW p \in Writes(S) PROVE w.stamp >= p.stamp
        <5>1. p.stamp <= w.stamp
          BY <3>2, <3>3 DEF Writes
        <5>2. p.stamp \in Nat /\ w.stamp \in Nat
          BY <3>3, <3>4 DEF Writes, Op
        <5> QED BY <5>1, <5>2
      <4> QED BY <3>3, <4>1 DEF Writes
    <3>6. PICK last : last = CHOOSE o \in Writes(S) : \A p \in Writes(S) : o.stamp >= p.stamp
      OBVIOUS
    <3>7. last \in Writes(S) /\ \A p \in Writes(S) : last.stamp >= p.stamp
      BY <3>5, <3>6
    <3>8. last = w
      <4>1. last.stamp >= w.stamp /\ w.stamp >= last.stamp
        BY <3>5, <3>7
      <4>2. last.stamp \in Nat /\ w.stamp \in Nat
        BY <3>4, <3>5, <3>7 DEF Writes, Op
      <4>3. last.stamp = w.stamp
        BY <4>1, <4>2
      <4> QED BY <3>5, <3>7, <4>3 DEF DistinctStamps, S
    <3>9. Reference(S) =
             [val |-> w.id, stamp |-> w.stamp, by |-> w.by, author |-> Creator,
              status |-> IF \E o \in S : o.kind = "cancel" THEN "cancelled" ELSE "active"]
      BY <3>2, <3>6, <3>8 DEF Reference
    <3>10. row[r].status = IF \E o \in S : o.kind = "cancel" THEN "cancelled" ELSE "active"
      <4>1. row[r].status \in {"active", "cancelled"}
        BY <3>4 DEF Row
      <4> QED BY <3>2, <4>1
    <3>11. row[r] = [val |-> row[r].val, stamp |-> row[r].stamp, by |-> row[r].by,
                     author |-> row[r].author, status |-> row[r].status]
      BY <3>4 DEF Row
    <3> QED BY <3>2, <3>3, <3>9, <3>10, <3>11 DEF S
  <2> QED BY <2>1, <2>2
<1> QED BY <1>1, PlainHolds, PTL

-----------------------------------------------------------------------------
(* Two claims of the code's comments that runs refute hold again once the  *)
(* steps they are refuted by are taken away.                               *)

\* What a handler read is still the row when it writes: with one handler per device
\* nobody writes in between, whatever crashes and role changes there are.
Fresh == \A r \in Replicas, h \in Handlers :
            task[r][h].pc = "write" => task[r][h].snap = row[r]

LEMMA FreshMove ==
    ASSUME Inv, Fresh, \E k : Handlers = {k}, NEW r \in Replicas, NEW h \in Handlers, NEW j,
           task' = [task EXCEPT ![r][h] = j], j.pc = "write" => j.snap = row'[r],
           \A q \in Replicas \ {r} : row'[q] = row[q]
    PROVE  Fresh'
<1>1. task \in [Replicas -> [Handlers -> Job]]
  BY TaskType DEF Inv
<1>2. ASSUME NEW q \in Replicas, NEW k \in Handlers, task'[q][k].pc = "write"
      PROVE  task'[q][k].snap = row'[q]
  <2>1. k = h
    OBVIOUS
  <2>2. CASE q = r
    <3>1. task'[q][k] = j
      BY <1>1, <2>1, <2>2
    <3> QED BY <1>2, <2>2, <3>1
  <2>3. CASE q # r
    <3>1. task'[q][k] = task[q][k]
      BY <1>1, <2>3
    <3> QED BY <1>2, <2>3, <3>1 DEF Fresh
  <2> QED BY <2>2, <2>3
<1> QED BY <1>2 DEF Fresh

\* Finish leaves no handler about to write.
LEMMA FinishPc ==
    ASSUME Inv, NEW r \in Replicas, NEW h \in Handlers, NEW o, NEW res, Finish(r, h, o, res)
    PROVE  \E j : task' = [task EXCEPT ![r][h] = j] /\ j.pc # "write"
<1>1. PICK t : t = task[r][h]
  OBVIOUS
<1>2. t \in Job
  BY <1>1, TaskAt DEF Inv
<1>3. PICK j : j = IF t.draining
                   THEN IF t.todo \ {o} = {} THEN Idle
                        ELSE [t EXCEPT !.pc = "load", !.todo = t.todo \ {o}]
                   ELSE IF res \in {"queued", "ignored", "failed"} THEN Idle
                        ELSE [Idle EXCEPT !.pc = "list"]
  OBVIOUS
<1>4. task' = [task EXCEPT ![r][h] = j]
  BY <1>1, <1>3 DEF Finish
<1>5. j.pc # "write"
  BY <1>2, <1>3 DEF Idle, Job
<1> QED BY <1>4, <1>5

LEMMA FreshStep ==
    ASSUME \E k : Handlers = {k}, Inv, Fresh, [Next]_vars
    PROVE  Fresh'
<1>1. ASSUME NEW r \in Replicas, NEW h \in Handlers, NEW kind \in Kinds, Send(r, h, kind)
      PROVE  Fresh'
  <2>1. PICK o : task' = [task EXCEPT ![r][h] = Applying({o}, FALSE, {r})]
    BY <1>1 DEF Send
  <2>2. PICK j : j = Applying({o}, FALSE, {r})
    OBVIOUS
  <2>3. task' = [task EXCEPT ![r][h] = j] /\ j.pc = "load" /\ row' = row
    BY <1>1, <2>1, <2>2 DEF Send, db, Applying
  <2> QED BY <2>3, FreshMove
<1>2. ASSUME NEW r \in Replicas, NEW h \in Handlers, NEW o \in wire, ProcessRumor(r, h, o)
      PROVE  Fresh'
  <2>1. PICK j : j = Applying({o}, FALSE, {o.by})
    OBVIOUS
  <2>2. task' = [task EXCEPT ![r][h] = j] /\ j.pc = "load" /\ row' = row
    BY <1>2, <2>1 DEF ProcessRumor, db, Applying
  <2> QED BY <2>2, FreshMove
<1>3. ASSUME NEW r \in Replicas, NEW h \in Handlers, LoadRow(r, h)
      PROVE  Fresh'
  <2>1. PICK j : j = [task[r][h] EXCEPT !.pc = "write", !.snap = row[r]]
    OBVIOUS
  <2>2. task[r][h] \in Job
    BY TaskAt DEF Inv
  <2>3. j.snap = row[r]
    BY <2>1, <2>2 DEF Job
  <2>4. task' = [task EXCEPT ![r][h] = j] /\ row' = row
    BY <1>3, <2>1, TaskType DEF LoadRow, db, Inv
  <2> QED BY <2>3, <2>4, FreshMove
<1>4. ASSUME NEW r \in Replicas, NEW h \in Handlers, Write(r, h)
      PROVE  Fresh'
  <2>1. \A q \in Replicas \ {r} : row'[q] = row[q]
    BY <1>4, Written
  <2>2. PICK o, res : \/ task' = [task EXCEPT ![r][h].pc = "status"]
                      \/ Finish(r, h, o, res)
    BY <1>4 DEF Write
  <2>3. CASE Finish(r, h, o, res)
    <3>1. PICK j : task' = [task EXCEPT ![r][h] = j] /\ j.pc # "write"
      BY <2>3, FinishPc
    <3> QED BY <2>1, <3>1, FreshMove
  <2>4. CASE task' = [task EXCEPT ![r][h].pc = "status"]
    <3>1. PICK j : j = [task[r][h] EXCEPT !.pc = "status"]
      OBVIOUS
    <3>2. task[r][h] \in Job
      BY TaskAt DEF Inv
    <3>3. task' = [task EXCEPT ![r][h] = j] /\ j.pc = "status"
      BY <2>4, <3>1, <3>2, TaskType DEF Inv, Job
    <3> QED BY <2>1, <3>3, FreshMove
  <2> QED BY <2>2, <2>3, <2>4
<1>5. ASSUME NEW r \in Replicas, NEW h \in Handlers, WriteStatus(r, h)
      PROVE  Fresh'
  <2>1. \A q \in Replicas \ {r} : row'[q] = row[q]
    BY <1>5 DEF WriteStatus, Inv, TypeOK
  <2>2. PICK o, res : Finish(r, h, o, res)
    BY <1>5 DEF WriteStatus
  <2>3. PICK j : task' = [task EXCEPT ![r][h] = j] /\ j.pc # "write"
    BY <2>2, FinishPc
  <2> QED BY <2>1, <2>3, FreshMove
<1>6. ASSUME NEW r \in Replicas, NEW h \in Handlers, ListAuthors(r, h)
      PROVE  Fresh'
  <2>1. PICK j : j = IF {o.by : o \in pending[r]} = {} THEN Idle
                     ELSE [Applying({}, TRUE, {o.by : o \in pending[r]}) EXCEPT !.pc = "drain"]
    OBVIOUS
  <2>2. task' = [task EXCEPT ![r][h] = j] /\ row' = row
    BY <1>6, <2>1 DEF ListAuthors, db
  <2>3. j.pc # "write"
    BY <2>1 DEF Idle, Applying
  <2> QED BY <2>2, <2>3, FreshMove
<1>7. ASSUME NEW r \in Replicas, NEW h \in Handlers, DrainPending(r, h)
      PROVE  Fresh'
  <2>1. PICK j : j = IF Purged(pending[r]) = {} THEN Idle
                     ELSE [task[r][h] EXCEPT !.pc = "load", !.todo = Purged(pending[r])]
    OBVIOUS
  <2>2. task' = [task EXCEPT ![r][h] = j] /\ row' = row
    BY <1>7, <2>1, TaskType DEF DrainPending, Inv
  <2>3. task[r][h] \in Job
    BY TaskAt DEF Inv
  <2>4. j.pc # "write"
    BY <2>1, <2>3 DEF Idle, Job
  <2> QED BY <2>2, <2>4, FreshMove
<1>8. ASSUME NEW r \in Replicas, Crash(r)
      PROVE  Fresh'
  <2>1. row' = row /\ task' = [task EXCEPT ![r] = [h \in Handlers |-> Idle]]
    BY <1>8 DEF Crash, db
  <2>2. ASSUME NEW q \in Replicas, NEW k \in Handlers, task'[q][k].pc = "write"
        PROVE  task'[q][k].snap = row'[q]
    <3>1. task'[q][k] = Idle \/ task'[q][k] = task[q][k]
      BY <2>1, TaskType DEF Inv
    <3> QED BY <2>1, <2>2, <3>1 DEF Fresh, Idle
  <2> QED BY <2>2 DEF Fresh
<1>9. ASSUME (\E r \in Replicas : ChangeRole(r)) \/ Tick \/ UNCHANGED vars
      PROVE  Fresh'
  BY <1>9 DEF ChangeRole, Tick, vars, db, Fresh
<1> QED BY <1>1, <1>2, <1>3, <1>4, <1>5, <1>6, <1>7, <1>8, <1>9 DEF Next

\* "Writes are last-updated_at_ms-wins per event": the stamp of a stored row never
\* decreases when a device applies one rumor at a time, through crashes, changes of
\* role and any limits of the queue.  So the second handler is the whole cause of
\* what SquadEventLww.cfg finds.
THEOREM LastWriteWinsAlone ==
    ASSUME \E k : Handlers = {k}
    PROVE  Spec => LastWriteWins
<1>1. Init => Inv /\ Fresh
  BY InvInit DEF Init, Fresh, Idle
<1>2. Inv /\ Fresh /\ [Next]_vars => (Inv /\ Fresh)'
  BY InvStep, FreshStep
<1>3. ASSUME Inv, Fresh, [Next]_vars, NEW q \in Replicas, row[q] # NoRow
      PROVE  row'[q].stamp >= row[q].stamp
  <2>1. row[q] \in Row /\ row \in [Replicas -> Row \cup {NoRow}]
    BY <1>3 DEF Inv, TypeOK
  <2>2. row[q].stamp \in Nat
    BY <2>1 DEF Row
  <2>3. ASSUME NEW r \in Replicas, NEW h \in Handlers, Write(r, h)
        PROVE  row'[q].stamp >= row[q].stamp
    <3> DEFINE t == task[r][h]
               o == First(t.todo)
               res == Applied(r, o, t)
    <3>1. CASE q # r \/ ~(res = "changed" /\ o.kind # "rsvp")
      <4>1. row'[q] = row[q]
        BY <1>3, <2>3, <3>1, Written
      <4> QED BY <2>2, <4>1
    <3>2. CASE q = r /\ res = "changed" /\ o.kind # "rsvp"
      <4>1. o \in Op /\ row'[q] = FieldsWritten(row[q], t.snap, o) /\ t.pc = "write"
        BY <1>3, <2>3, <3>2, Written DEF Write
      <4>2. t.snap = row[q]
        BY <1>3, <3>2, <4>1 DEF Fresh
      <4> HIDE DEF o
      <4> QED BY <2>1, <2>2, <4>1, <4>2 DEF FieldsWritten, Op, Row
    <3> QED BY <3>1, <3>2
  <2>4. ASSUME NEW r \in Replicas, NEW h \in Handlers, WriteStatus(r, h)
        PROVE  row'[q].stamp >= row[q].stamp
    <3>1. row' = [row EXCEPT ![r].status = "cancelled"] /\ row[r] \in Row
      BY <1>3, <2>4, StatusWritten
    <3>2. row'[q].stamp = row[q].stamp
      BY <2>1, <3>1 DEF Row
    <3> QED BY <2>2, <3>2
  <2>5. CASE row' = row
    BY <2>2, <2>5
  <2>6. ASSUME NEW r \in Replicas, NEW h \in Handlers,
               \/ \E kind \in Kinds : Send(r, h, kind)
               \/ \E o \in wire : ProcessRumor(r, h, o)
               \/ LoadRow(r, h) \/ ListAuthors(r, h) \/ DrainPending(r, h)
        PROVE  row' = row
    BY <2>6 DEF Send, ProcessRumor, LoadRow, ListAuthors, DrainPending, db
  <2>7. ASSUME NEW r \in Replicas, Crash(r) \/ ChangeRole(r)
        PROVE  row' = row
    BY <2>7 DEF Crash, ChangeRole, db
  <2>8. Tick \/ UNCHANGED vars => row' = row
    BY DEF Tick, vars, db
  <2> QED BY <1>3, <2>3, <2>4, <2>5, <2>6, <2>7, <2>8 DEF Next
<1>4. Inv /\ Fresh /\ [Next]_vars =>
         [ \A r \in Replicas : row[r] # NoRow => row'[r].stamp >= row[r].stamp ]_vars
  BY <1>3
<1> QED BY <1>1, <1>2, <1>4, PTL DEF Spec, LastWriteWins

\* "Same write already stored": where no crash falls between the two UPDATEs, a
\* queued cancel that a drain takes for a replay is one whose row is cancelled.
\* SquadEventTorn.cfg is the crash.
THEOREM ReplaysAreStored ==
    ASSUME Plain
    PROVE  Spec => []ReplayIsStored
<1>1. PlainInv => ReplayIsStored
  <2> SUFFICES ASSUME PlainInv, NEW r \in Replicas, NEW h \in Handlers,
                      task[r][h].pc = "write",
                      First(task[r][h].todo).kind = "cancel",
                      Applied(r, First(task[r][h].todo), task[r][h]) = "replay"
               PROVE  row[r].status = "cancelled"
    BY DEF ReplayIsStored
  <2>1. PICK o : o = First(task[r][h].todo)
    OBVIOUS
  <2>2. o \in wire /\ row[r] # NoRow /\ o.id = row[r].val
    BY <2>1, Outcome
  <2>3. NewestAt(r, task[r][h]) /\ Half(task[r][h]) = {}
    BY DEF PlainInv, At, Half
  <2>4. PICK w \in Done(r) : row[r].val = w.id
    BY <2>2, <2>3 DEF NewestAt
  <2>5. w = o
    BY <2>2, <2>4 DEF Done, PlainInv, Inv, TypeOK, Numbered
  <2> QED BY <2>1, <2>2, <2>3, <2>4, <2>5 DEF NewestAt
<1> QED BY <1>1, PlainHolds, PTL
=============================================================================
