------------------------ MODULE DirectMessagesProofs ------------------------
(***************************************************************************)
(* Safety of DirectMessages, and its refinement of EditLedger, for any     *)
(* texts, edits, commands, window, limits and bounds.                      *)
(***************************************************************************)
EXTENDS DirectMessages, TLAPS

USE DirectMessagesAssumption

Job == [r : Rumors, w : Wraps, at : 0..MaxClock, view : SUBSET Texts, edits : SUBSET Edits]

\* TypeOK by parts.
TNet == /\ clock \in 1..MaxClock /\ mine \in Chats /\ signed \in [Rumors -> 0..MaxClock]
        /\ net \subseteq Wraps /\ fresh \subseteq net
TDb == /\ chatRow \in BOOLEAN /\ row \in [Rumors -> 0..MaxClock]
       /\ wrapped \subseteq net /\ discarded \subseteq net
       /\ cutoff \in {None} \cup 1..MaxClock /\ blocked \in BOOLEAN
       /\ (\E t \in Texts : row[t] > 0) => chatRow
TMem == /\ chatMem \in BOOLEAN /\ shown \subseteq Texts /\ sending \subseteq Texts
        /\ applied \in [Texts -> SUBSET Edits] /\ (~chatMem => shown \cup sending = {})
TIn == cache \subseteq net /\ timeouts \in [Wraps -> 0..MaxFaults]
TWork == pc \in [Workers -> Pcs] /\ job \in [Workers -> Job]
THist == /\ granted \subseteq Edits /\ spared \subseteq Rumors
         /\ excused \subseteq Texts \X Excuses
         /\ ops \in 0..MaxOps /\ faults \in 0..MaxFaults

LEMMA TypeParts == TypeOK <=> TNet /\ TDb /\ TMem /\ TIn /\ TWork /\ THist
  BY DEF TypeOK, TNet, TDb, TMem, TIn, TWork, THist, Job

\* Which steps which worker takes, and what it holds there: a handler the wrap it was given,
\* which the relays have; a text or an edit that has been written.
IntakePcs == {"idle", "exists", "heal", "add", "persist", "saveEdit", "read", "apply"}
CommandPcs == {"idle", "persist", "read", "apply", "publish", "saveChat", "selfWrap", "editPublish",
               "editSave", "editCheck", "loadAdd", "deleteRows", "deleteState"}
TextPcs == {"exists", "heal", "add", "saveChat", "persist", "publish", "selfWrap"}
EditPcs == {"saveEdit", "editPublish", "editSave", "editCheck"}
Holds(x) ==
    /\ x \in Intake => /\ pc[x] \in IntakePcs
                       /\ pc[x] # "idle" => job[x].w \in net /\ job[x].w[1] = job[x].r
    /\ x \in Commands => /\ pc[x] \in CommandPcs
                         /\ pc[x] = "read" => job[x].r \in Texts
    /\ pc[x] \in TextPcs => job[x].r \in Texts
    /\ pc[x] \in EditPcs => job[x].r \in Edits /\ job[x].at > 0
    /\ HasRumor(x) => signed[job[x].r] > 0
Written == /\ \A w \in net : signed[w[1]] > 0
           /\ \A r \in Rumors : row[r] > 0 => signed[r] > 0
Counted == \A w \in Wraps : timeouts[w] <= faults
Typed == TypeOK /\ (\A x \in Workers : Holds(x)) /\ Written /\ Counted

-----------------------------------------------------------------------------
(* Constants and the steps of a worker. *)

LEMMA Basics ==
    /\ SomeText \in Texts /\ NoJob \in Job /\ NoJob.view = {} /\ NoJob.edits = {}
    /\ Intake \subseteq Workers /\ Commands \subseteq Workers /\ \A x \in Intake : x \notin Commands
    /\ \A r \in Rumors : TextOf(r) \in Texts
    /\ \A e \in Edits : e \in Rumors /\ TextOf(e) = Of[e] /\ Of[e] \in Texts
    /\ \A t \in Texts : t \in Rumors /\ TextOf(t) = t /\ t \notin Edits
    /\ \A w \in Wraps : w[1] \in Rumors
    /\ \A r \in Rumors : <<r, 1>> \in Wraps /\ <<r, 1>>[1] = r
  <1>1. SomeText \in Texts
    BY DEF SomeText
  <1>2. 1 \in 1..Copies
    OBVIOUS
  <1>3. \A r \in Rumors : <<r, 1>> \in Wraps /\ <<r, 1>>[1] = r
    BY <1>2 DEF Wraps
  <1>4. /\ \A e \in Edits : e \in Rumors /\ TextOf(e) = Of[e] /\ Of[e] \in Texts
        /\ \A t \in Texts : t \in Rumors /\ TextOf(t) = t /\ t \notin Edits
    BY DEF Rumors, TextOf
  <1>5. \A r \in Rumors : TextOf(r) \in Texts
    BY <1>4 DEF Rumors
  <1>6. NoJob \in Job /\ NoJob.view = {} /\ NoJob.edits = {}
    <2>1. SomeText \in Rumors /\ <<SomeText, 1>> \in Wraps
      BY <1>1, <1>3, <1>4
    <2>2. QED  BY <2>1 DEF NoJob, Job
  <1>7. \A w \in Wraps : w[1] \in Rumors
    BY DEF Wraps
  <1>8. Intake \subseteq Workers /\ Commands \subseteq Workers /\ \A x \in Intake : x \notin Commands
    BY DEF Workers
  <1>9. QED  BY <1>1, <1>3, <1>4, <1>5, <1>6, <1>7, <1>8

\* The other workers stay where they are.
Others(x) == \A y \in Workers \ {x} : pc'[y] = pc[y] /\ job'[y] = job[y]

LEMMA GoNext ==
    ASSUME TWork, NEW x \in Workers, NEW p \in Pcs, Go(x, p)
    PROVE  TWork' /\ pc'[x] = p /\ job'[x] = job[x] /\ Others(x)
  BY DEF TWork, Go, Others

LEMMA GoWithNext ==
    ASSUME TWork, NEW x \in Workers, NEW p \in Pcs, NEW j \in Job, GoWith(x, p, j)
    PROVE  TWork' /\ pc'[x] = p /\ job'[x] = j /\ Others(x)
  BY DEF TWork, GoWith, Others

LEMMA EndNext ==
    ASSUME TWork, NEW x \in Workers, End(x)
    PROVE  TWork' /\ pc'[x] = "idle" /\ job'[x] = NoJob /\ Others(x)
  <1>1. "idle" \in Pcs
    BY DEF Pcs
  <1>2. QED  BY <1>1, Basics, GoWithNext DEF End

LEMMA HandledNext ==
    ASSUME TWork, TIn, THist, Counted, NEW x \in Workers, Handled(x), faults' \in {faults, faults + 1}
    PROVE  /\ TWork' /\ pc'[x] = "idle" /\ job'[x] = NoJob /\ Others(x)
           /\ timeouts' \in [Wraps -> 0..MaxFaults] /\ Counted'
  <1>1. TWork' /\ pc'[x] = "idle" /\ job'[x] = NoJob /\ Others(x)
    BY EndNext DEF Handled
  <1>2. timeouts \in [Wraps -> 0..MaxFaults] /\ job[x].w \in Wraps /\ 0 \in 0..MaxFaults
    BY DEF TIn, TWork, Job
  <1>3. timeouts' = timeouts \/ timeouts' = [timeouts EXCEPT ![job[x].w] = 0]
    BY DEF Handled
  <1>4. timeouts' \in [Wraps -> 0..MaxFaults]
    BY <1>2, <1>3
  <1>5. \A w \in Wraps : timeouts'[w] = timeouts[w] \/ timeouts'[w] = 0
    BY <1>2, <1>3
  <1>6. Counted'
    <2>1. \A w \in Wraps : timeouts[w] <= faults /\ timeouts[w] >= 0
      BY <1>2 DEF Counted
    <2>2. faults \in Nat /\ faults' >= faults /\ faults' \in Nat
      BY DEF THist
    <2>3. QED  BY <1>2, <1>5, <2>1, <2>2 DEF Counted
  <1>7. QED  BY <1>1, <1>4, <1>6

\* The end of a reconciliation, by a handler or an edit, or by a send.
LEMMA MergedNext ==
    ASSUME TWork, TIn, THist, Counted, NEW x \in Workers, Merged(x), faults' \in {faults, faults + 1}
    PROVE  /\ TWork' /\ Others(x) /\ timeouts' \in [Wraps -> 0..MaxFaults] /\ Counted'
           /\ \/ pc'[x] = "idle" /\ job'[x] = NoJob
              \/ /\ x \notin Intake /\ job[x].r \in Texts
                 /\ pc'[x] = "selfWrap" /\ job'[x] = job[x]
  <1>1. CASE ~(x \in Commands /\ job[x].r \in Texts)
    BY <1>1, HandledNext DEF Merged
  <1>2. CASE x \in Commands /\ job[x].r \in Texts
    <2>1. Go(x, "selfWrap") /\ timeouts' = timeouts /\ "selfWrap" \in Pcs /\ x \notin Intake
      BY <1>2, Basics DEF Merged, Pcs
    <2>2. TWork' /\ pc'[x] = "selfWrap" /\ job'[x] = job[x] /\ Others(x)
      BY <2>1, GoNext
    <2>3. timeouts' \in [Wraps -> 0..MaxFaults] /\ Counted'
      <3>1. faults \in Nat /\ \A w \in Wraps : timeouts[w] \in Nat /\ timeouts[w] <= faults
        BY DEF THist, TIn, Counted
      <3>2. QED  BY <2>1, <3>1 DEF TIn, Counted
    <2>4. QED  BY <1>2, <2>1, <2>2, <2>3
  <1>3. QED  BY <1>1, <1>2

\* What a row is after save_event: the first receipt.
LEMMA Saved ==
    ASSUME TDb, NEW r \in Rumors, NEW at \in 1..MaxClock, NEW w, save_event(r, at, w)
    PROVE  /\ row' \in [Rumors -> 0..MaxClock] /\ row'[r] > 0
           /\ row[r] > 0 => row' = row
           /\ row[r] = 0 => row' = [row EXCEPT ![r] = at]
           /\ \A q \in Rumors \ {r} : row'[q] = row[q]
           /\ wrapped' = wrapped \/ wrapped' = wrapped \cup w
           /\ granted' = granted \cup UNION {authorized_edits(t, row') : t \in Texts}
  <1>1. row \in [Rumors -> 0..MaxClock] /\ row' = [row EXCEPT ![r] = IF row[r] = 0 THEN at ELSE row[r]]
    BY DEF TDb, save_event, InsertOrIgnore
  <1>2. row' \in [Rumors -> 0..MaxClock] /\ row'[r] > 0
        /\ \A q \in Rumors \ {r} : row'[q] = row[q]
    BY <1>1
  <1>3. row[r] > 0 => row' = row
    BY <1>1
  <1>4. row[r] = 0 => row' = [row EXCEPT ![r] = at]
    BY <1>1
  <1>5. QED  BY <1>2, <1>3, <1>4 DEF save_event

-----------------------------------------------------------------------------
(* Types. *)

\* A worker that did not move still holds what it held, as wraps and stamps only appear.
LEMMA HoldsFrame ==
    ASSUME Typed, NEW x \in Workers, pc'[x] = pc[x], job'[x] = job[x], net \subseteq net',
           \A r \in Rumors : signed[r] > 0 => signed'[r] > 0
    PROVE  Holds(x)'
  <1>1. job[x].r \in Rumors
    BY TypeParts DEF Typed, TWork, Job
  <1>2. QED  BY <1>1 DEF Typed, Holds, HasRumor

\* Steps of one worker.
LEMMA HoldsStep ==
    ASSUME Typed, NEW x \in Workers, Others(x), Holds(x)', net \subseteq net',
           \A r \in Rumors : signed[r] > 0 => signed'[r] > 0
    PROVE  \A y \in Workers : Holds(y)'
  BY HoldsFrame DEF Others

LEMMA HoldsIdle ==
    ASSUME NEW x \in Workers, pc'[x] = "idle"
    PROVE  Holds(x)'
  BY DEF Holds, HasRumor, IntakePcs, CommandPcs, TextPcs, EditPcs

\* Steps that leave the workers alone.
LEMMA HoldsAside ==
    ASSUME Typed, UNCHANGED workVars, net \subseteq net', \A r \in Rumors : signed[r] > 0 => signed'[r] > 0
    PROVE  \A y \in Workers : Holds(y)'
  BY HoldsFrame DEF workVars

\* What Publish, a send and an edit do to the stamps.
LEMMA Stamped ==
    ASSUME Typed, NEW r \in Rumors, signed[r] = 0, signed' = [signed EXCEPT ![r] = clock]
    PROVE  /\ signed' \in [Rumors -> 0..MaxClock] /\ signed'[r] = clock /\ clock > 0
           /\ \A q \in Rumors \ {r} : signed'[q] = signed[q]
           /\ \A q \in Rumors : signed[q] > 0 => signed'[q] > 0
  BY TypeParts DEF Typed, TNet

\* What saving a row leaves of the types.
LEMMA SaveTyped ==
    ASSUME Typed, NEW r \in Rumors, NEW at \in 1..MaxClock, NEW w, save_event(r, at, w), w \subseteq net,
           signed[r] > 0, chatRow' \in BOOLEAN, chatRow => chatRow', r \in Texts => chatRow',
           UNCHANGED <<clock, netVars, discarded, cutoff, blocked, memVars, intakeVars, excused, spared, countVars>>
    PROVE  TNet' /\ TDb' /\ TMem' /\ TIn' /\ THist' /\ Written' /\ Counted'
  <1>0. TNet /\ TDb /\ TMem /\ TIn /\ THist /\ Written /\ Counted
    BY TypeParts DEF Typed
  <1>1. /\ row' \in [Rumors -> 0..MaxClock] /\ \A q \in Rumors \ {r} : row'[q] = row[q]
        /\ wrapped' = wrapped \/ wrapped' = wrapped \cup w
        /\ granted' = granted \cup UNION {authorized_edits(t, row') : t \in Texts}
    BY <1>0, Saved
  <1>2. \A t \in Texts : authorized_edits(t, row') \subseteq Edits
    BY DEF authorized_edits, EditsOf
  <1>3. granted' \subseteq Edits
    BY <1>0, <1>1, <1>2 DEF THist
  <1>4. wrapped' \subseteq net'
    BY <1>0, <1>1 DEF TDb, netVars
  <1>5. (\E t \in Texts : row'[t] > 0) => chatRow'
    BY <1>0, <1>1, Basics DEF TDb
  <1>6. TDb'
    BY <1>0, <1>1, <1>4, <1>5 DEF TDb, netVars
  <1>7. QED  BY <1>0, <1>1, <1>3, <1>6
             DEF netVars, memVars, intakeVars, countVars, TNet, TMem, TIn, THist, Written, Counted

LEMMA TypedStep ==
    ASSUME Typed, [Next]_vars
    PROVE  Typed'
  <1>0. TNet /\ TDb /\ TMem /\ TIn /\ TWork /\ THist /\ Written /\ Counted
    BY TypeParts DEF Typed
  <1>a. \A x \in Workers : job[x] \in Job /\ Holds(x)
    BY <1>0 DEF TWork, Typed
  <1>b. clock \in 1..MaxClock /\ signed \in [Rumors -> 0..MaxClock] /\ faults \in Nat /\ MaxClock \in Nat
    BY <1>0 DEF TNet, THist
  <1>c. Typed' <=> TNet' /\ TDb' /\ TMem' /\ TIn' /\ TWork' /\ THist' /\ Written' /\ Counted'
                   /\ (\A x \in Workers : Holds(x))'
    <2>1. TypeOK' <=> TNet' /\ TDb' /\ TMem' /\ TIn' /\ TWork' /\ THist'
      BY DEF TypeOK, TNet, TDb, TMem, TIn, TWork, THist, Job
    <2>2. QED  BY <2>1 DEF Typed
  <1>1. CASE UNCHANGED vars
    <2>1. UNCHANGED <<clock, netVars, dbVars, blocked, memVars, intakeVars, workVars, historyVars, countVars>>
      BY <1>1 DEF vars
    <2>2. (\A x \in Workers : Holds(x))'
      BY <2>1, HoldsAside DEF netVars
    <2>3. QED  BY <1>0, <1>c, <2>1, <2>2
               DEF netVars, dbVars, memVars, intakeVars, workVars, historyVars, countVars,
                   TNet, TDb, TMem, TIn, TWork, THist, Written, Counted
  <1>2. CASE Tick
    <2>1. UNCHANGED <<netVars, dbVars, blocked, memVars, intakeVars, workVars, historyVars, countVars>>
          /\ clock' \in 1..MaxClock
      BY <1>b, <1>2 DEF Tick
    <2>2. (\A x \in Workers : Holds(x))'
      BY <2>1, HoldsAside DEF netVars
    <2>3. QED  BY <1>0, <1>c, <2>1, <2>2
               DEF netVars, dbVars, memVars, intakeVars, workVars, historyVars, countVars,
                   TNet, TDb, TMem, TIn, TWork, THist, Written, Counted
  <1>3. ASSUME NEW r \in Rumors, NEW k \in 1..Copies, Publish(r, k)  PROVE  Typed'
    <2>1. /\ UNCHANGED <<clock, mine, dbVars, blocked, memVars, intakeVars, workVars, historyVars, countVars>>
          /\ net' = net \cup {<<r, k>>} /\ fresh' = fresh \cup {<<r, k>>}
      BY <1>3 DEF Publish
    <2>2. PICK w \in Wraps : w = <<r, k>> /\ w[1] = r
      <3>1. <<r, k>> \in Wraps /\ <<r, k>>[1] = r
        BY DEF Wraps
      <3>2. QED  BY <3>1
    <2>3. /\ signed' \in [Rumors -> 0..MaxClock] /\ signed'[r] > 0
          /\ \A q \in Rumors : signed[q] > 0 => signed'[q] > 0
      <3>1. CASE k = 1
        BY <1>3, <3>1, <1>b, Stamped DEF Publish
      <3>2. CASE k # 1
        <4>1. 1 \in 1 .. k - 1 /\ signed' = [signed EXCEPT ![r] = signed[r]]
          BY <1>3, <3>2 DEF Publish
        <4>2. <<r, 1>> \in net /\ <<r, 1>>[1] = r
          BY <1>3, <4>1 DEF Publish
        <4>3. signed[r] > 0
          BY <1>0, <4>2 DEF Written
        <4>4. QED  BY <1>b, <4>1, <4>3
      <3>3. QED  BY <3>1, <3>2
    <2>4. net' = net \cup {w} /\ fresh' = fresh \cup {w} /\ net \subseteq net'
      BY <2>1, <2>2
    <2>5. TNet'
      BY <1>0, <2>1, <2>3, <2>4 DEF TNet
    <2>6. Written'
      <3>1. \A v \in net' : signed'[v[1]] > 0
        <4>1. \A v \in net : v[1] \in Rumors /\ signed[v[1]] > 0
          BY <1>0, Basics DEF TNet, Written
        <4>2. QED  BY <2>2, <2>3, <2>4, <4>1
      <3>2. QED  BY <1>0, <2>1, <2>3, <3>1 DEF Written, dbVars
    <2>7. (\A x \in Workers : Holds(x))'
      BY <2>1, <2>3, <2>4, HoldsAside
    <2>8. TDb' /\ TMem' /\ TIn' /\ TWork' /\ THist' /\ Counted'
      BY <1>0, <2>1, <2>4 DEF dbVars, memVars, intakeVars, workVars, historyVars, countVars,
                   TDb, TMem, TIn, TWork, THist, Counted
    <2>9. QED  BY <1>c, <2>5, <2>6, <2>7, <2>8
  <1>4. ASSUME NEW x \in Intake, NEW w \in Wraps, Deliver(x, w)  PROVE  Typed'
    <2>0. x \in Workers /\ x \notin Commands /\ w[1] \in Rumors
      BY Basics
    <2>1. /\ UNCHANGED <<clock, mine, signed, net, chatRow, row, wrapped, cutoff, blocked, memVars,
                          historyVars, countVars>>
          /\ w \in net /\ fresh' \subseteq fresh /\ pc[x] = "idle"
      BY <1>0, <1>4 DEF Deliver, TNet
    <2>2. TNet' /\ TMem' /\ THist' /\ Written'
      BY <1>0, <2>1 DEF TNet, TMem, THist, Written, memVars, historyVars, countVars
    <2>3. CASE discard(w) /\ timeouts' = [timeouts EXCEPT ![w] = 0] /\ UNCHANGED workVars
      <3>1. discarded' \subseteq net' /\ cache' \subseteq net'
        BY <1>0, <2>1, <2>3 DEF discard, TDb, TIn
      <3>2. timeouts' \in [Wraps -> 0..MaxFaults] /\ Counted'
        <4>1. timeouts' \in [Wraps -> 0..MaxFaults]
          BY <1>0, <2>3 DEF TIn
        <4>2. \A v \in Wraps : timeouts'[v] = timeouts[v] \/ timeouts'[v] = 0
          BY <1>0, <2>3 DEF TIn
        <4>3. faults' = faults
          BY <2>1 DEF countVars
        <4>4. QED  BY <1>0, <1>b, <4>1, <4>2, <4>3 DEF Counted
      <3>3. (\A y \in Workers : Holds(y))'
        BY <2>1, <2>3, HoldsAside
      <3>4. TDb' /\ TIn' /\ TWork'
        BY <1>0, <2>1, <2>3, <3>1, <3>2 DEF TDb, TIn, TWork, workVars
      <3>5. QED  BY <1>c, <2>2, <3>2, <3>3, <3>4
    <2>4. CASE /\ UNCHANGED <<discarded, intakeVars>> /\ w[1] \in Texts
               /\ GoWith(x, "exists", [NoJob EXCEPT !.r = w[1], !.w = w])
      <3> DEFINE j == [NoJob EXCEPT !.r = w[1], !.w = w]
      <3>1. j \in Job /\ j.r = w[1] /\ j.w = w
        BY <2>0, Basics DEF Job
      <3>2. GoWith(x, "exists", j) /\ "exists" \in Pcs
        BY <2>4 DEF Pcs
      <3> HIDE DEF j
      <3>3. TWork' /\ pc'[x] = "exists" /\ job'[x] = j /\ Others(x)
        BY <1>0, <2>0, <3>1, <3>2, GoWithNext
      <3>4. Holds(x)'
        <4>1. signed'[w[1]] > 0 /\ w \in net'
          BY <1>0, <2>1 DEF Written
        <4>2. QED  BY <2>0, <2>4, <3>1, <3>3, <4>1 DEF Holds, IntakePcs, EditPcs
      <3>5. (\A y \in Workers : Holds(y))'
        BY <2>0, <2>1, <3>3, <3>4, HoldsStep
      <3>6. TDb' /\ TIn' /\ Counted'
        BY <1>0, <2>1, <2>4 DEF TDb, TIn, Counted, intakeVars, countVars
      <3>7. QED  BY <1>c, <2>2, <3>3, <3>5, <3>6
    <2>5. CASE /\ UNCHANGED <<discarded, intakeVars>> /\ w[1] \in Edits
               /\ GoWith(x, "saveEdit", [NoJob EXCEPT !.r = w[1], !.w = w, !.at = clock])
      <3> DEFINE j == [NoJob EXCEPT !.r = w[1], !.w = w, !.at = clock]
      <3>1. j \in Job /\ j.r = w[1] /\ j.w = w /\ j.at = clock
        <4>1. clock \in 0..MaxClock
          BY <1>b
        <4>2. QED  BY <2>0, <4>1, Basics DEF Job
      <3>2. GoWith(x, "saveEdit", j) /\ "saveEdit" \in Pcs
        BY <2>5 DEF Pcs
      <3> HIDE DEF j
      <3>3. TWork' /\ pc'[x] = "saveEdit" /\ job'[x] = j /\ Others(x)
        BY <1>0, <2>0, <3>1, <3>2, GoWithNext
      <3>4. Holds(x)'
        <4>1. signed'[w[1]] > 0 /\ w \in net' /\ clock > 0
          BY <1>0, <1>b, <2>1 DEF Written
        <4>2. QED  BY <2>0, <2>5, <3>1, <3>3, <4>1 DEF Holds, IntakePcs, TextPcs
      <3>5. (\A y \in Workers : Holds(y))'
        BY <2>0, <2>1, <3>3, <3>4, HoldsStep
      <3>6. TDb' /\ TIn' /\ Counted'
        BY <1>0, <2>1, <2>5 DEF TDb, TIn, Counted, intakeVars, countVars
      <3>7. QED  BY <1>c, <2>2, <3>3, <3>5, <3>6
    <2>6. QED  BY <1>4, <2>0, <2>3, <2>4, <2>5 DEF Deliver, Rumors
  <1>5. ASSUME NEW x \in Workers, Exists(x)  PROVE  Typed'
    <2> DEFINE p == IF row[job[x].r] > 0 THEN "heal" ELSE "add"
    <2>1. Go(x, p) /\ p \in {"heal", "add"} /\ p \in Pcs /\ pc[x] = "exists"
      BY <1>5 DEF Exists, Pcs
    <2> HIDE DEF p
    <2>2. TWork' /\ pc'[x] = p /\ job'[x] = job[x] /\ Others(x)
      BY <1>0, <2>1, GoNext
    <2>3. UNCHANGED <<clock, netVars, dbVars, blocked, memVars, intakeVars, historyVars, countVars>>
      BY <1>5 DEF Exists
    <2>4. Holds(x)'
      BY <1>a, <2>1, <2>2, <2>3
      DEF Holds, HasRumor, IntakePcs, CommandPcs, TextPcs, EditPcs, netVars
    <2>5. (\A y \in Workers : Holds(y))'
      BY <2>2, <2>3, <2>4, HoldsStep DEF netVars
    <2>6. QED  BY <1>0, <1>c, <2>2, <2>3, <2>5
               DEF netVars, dbVars, memVars, intakeVars, historyVars, countVars,
                   TNet, TDb, TMem, TIn, THist, Written, Counted
  <1>6. ASSUME NEW x \in Workers, Heal(x)  PROVE  Typed'
    <2>1. Go(x, "read") /\ "read" \in Pcs /\ pc[x] = "heal"
      BY <1>6 DEF Heal, Pcs
    <2>2. TWork' /\ pc'[x] = "read" /\ job'[x] = job[x] /\ Others(x)
      BY <1>0, <2>1, GoNext
    <2>3. /\ UNCHANGED <<clock, netVars, chatRow, row, discarded, cutoff, blocked, timeouts, historyVars,
                          countVars, applied, sending>>
          /\ cache' \subseteq cache \cup {job[x].w} /\ wrapped' \subseteq wrapped \cup {job[x].w}
          /\ chatMem' = TRUE /\ shown' = shown \cup {job[x].r}
      BY <1>6 DEF Heal, AddToState, update_wrapper_event_id
    <2>4. job[x].r \in Texts /\ job[x].w \in net
      BY <1>a, <2>1 DEF Holds, TextPcs, CommandPcs, Workers
    <2>5. Holds(x)'
      BY <1>a, <2>1, <2>2, <2>3, <2>4
      DEF Holds, HasRumor, IntakePcs, CommandPcs, TextPcs, EditPcs, netVars
    <2>6. (\A y \in Workers : Holds(y))'
      BY <2>2, <2>3, <2>5, HoldsStep DEF netVars
    <2>7. chatMem' \in BOOLEAN
      BY <2>3, Zenon
    <2>8. TMem' /\ TIn' /\ TDb'
      BY <1>0, <2>3, <2>4, <2>7 DEF TMem, TIn, TDb, netVars
    <2>9. QED  BY <1>0, <1>c, <2>2, <2>3, <2>6, <2>8
               DEF netVars, historyVars, countVars, TNet, THist, Written, Counted
  <1>7. ASSUME NEW x \in Workers, Add(x)  PROVE  Typed'
    <2>1. /\ UNCHANGED <<clock, netVars, dbVars, blocked, cache, historyVars, countVars, applied, sending>>
          /\ chatMem' = TRUE /\ shown' = shown \cup {job[x].r} /\ pc[x] = "add"
      BY <1>7 DEF Add, AddToState
    <2>2. job[x].r \in Texts
      BY <1>a, <2>1 DEF Holds, TextPcs
    <2>3. chatMem' \in BOOLEAN
      BY <2>1, Zenon
    <2>4. TMem'
      BY <1>0, <2>1, <2>2, <2>3 DEF TMem
    <2>5. /\ TWork' /\ Others(x) /\ Holds(x)' /\ timeouts' \in [Wraps -> 0..MaxFaults] /\ Counted'
      <3>1. CASE Handled(x)
        BY <1>0, <2>1, <3>1, HandledNext, HoldsIdle DEF countVars
      <3>2. CASE Go(x, "persist") /\ UNCHANGED timeouts
        <4>1. "persist" \in Pcs
          BY DEF Pcs
        <4>2. TWork' /\ pc'[x] = "persist" /\ job'[x] = job[x] /\ Others(x)
          BY <1>0, <3>2, <4>1, GoNext
        <4>3. Holds(x)'
          BY <1>a, <2>1, <2>2, <4>2
          DEF Holds, HasRumor, IntakePcs, CommandPcs, TextPcs, EditPcs, netVars
        <4>4. QED  BY <1>0, <2>1, <3>2, <4>2, <4>3 DEF TIn, Counted, countVars
      <3>3. QED  BY <1>7, <3>1, <3>2 DEF Add
    <2>6. (\A y \in Workers : Holds(y))'
      BY <2>1, <2>5, HoldsStep DEF netVars
    <2>7. QED  BY <1>0, <1>c, <2>1, <2>4, <2>5, <2>6
               DEF netVars, dbVars, historyVars, countVars, TNet, TDb, TIn, THist, Written
  <1>8. ASSUME NEW x \in Workers, Persist(x)  PROVE  Typed'
    <2>1. /\ UNCHANGED <<clock, netVars, discarded, cutoff, blocked, memVars, intakeVars, excused, spared, countVars>>
          /\ pc[x] = "persist" /\ chatRow' = TRUE /\ Go(x, "read") /\ "read" \in Pcs
      BY <1>8 DEF Persist, get_or_create_chat_id, Pcs
    <2>2. job[x].r \in Texts /\ job[x].r \in Rumors /\ signed[job[x].r] > 0
      BY <1>a, <2>1, Basics DEF Holds, TextPcs, HasRumor
    <2>3. chatRow' \in BOOLEAN
      BY <2>1, Zenon
    <2>4. TWork' /\ pc'[x] = "read" /\ job'[x] = job[x] /\ Others(x)
      BY <1>0, <2>1, GoNext
    <2>5. PICK w : save_event(job[x].r, clock, w) /\ w \subseteq net
      BY <1>8, <1>a, <2>1 DEF Persist, Holds
    <2>6. TNet' /\ TDb' /\ TMem' /\ TIn' /\ THist' /\ Written' /\ Counted'
      BY <1>b, <2>1, <2>2, <2>3, <2>5, SaveTyped
    <2>7. Holds(x)'
      BY <1>a, <2>1, <2>2, <2>4
      DEF Holds, HasRumor, IntakePcs, CommandPcs, TextPcs, EditPcs, netVars
    <2>8. (\A y \in Workers : Holds(y))'
      BY <2>1, <2>4, <2>7, HoldsStep DEF netVars
    <2>9. QED  BY <1>c, <2>4, <2>6, <2>8
  <1>9. ASSUME NEW x \in Workers, SaveEdit(x)  PROVE  Typed'
    <2>1. /\ UNCHANGED <<clock, netVars, chatRow, discarded, cutoff, blocked, memVars, cache, excused, spared, countVars>>
          /\ pc[x] = "saveEdit" /\ "read" \in Pcs
      BY <1>9 DEF SaveEdit, Pcs
    <2>2. /\ job[x].r \in Edits /\ job[x].r \in Rumors /\ signed[job[x].r] > 0 /\ job[x].at \in 1..MaxClock
          /\ x \in Intake /\ {job[x].w} \subseteq net /\ job[x].r \notin Texts
      BY <1>a, <2>1, Basics DEF Holds, EditPcs, HasRumor, CommandPcs, Workers, Job
    <2>3. CASE chatRow /\ save_event(job[x].r, job[x].at, {job[x].w}) /\ Go(x, "read") /\ UNCHANGED timeouts
      <3>1. TWork' /\ pc'[x] = "read" /\ job'[x] = job[x] /\ Others(x)
        BY <1>0, <2>1, <2>3, GoNext
      <3>2. chatRow' \in BOOLEAN /\ (chatRow => chatRow')
        BY <1>0, <2>1 DEF TDb
      <3>3. UNCHANGED <<clock, netVars, discarded, cutoff, blocked, memVars, intakeVars, excused, spared, countVars>>
        BY <2>1, <2>3 DEF intakeVars
      <3>4. TNet' /\ TDb' /\ TMem' /\ TIn' /\ THist' /\ Written' /\ Counted'
        BY <2>2, <2>3, <3>2, <3>3, SaveTyped
      <3>5. Holds(x)'
        BY <1>a, <2>1, <2>2, <3>1, Basics
        DEF Holds, HasRumor, IntakePcs, CommandPcs, TextPcs, EditPcs, netVars
      <3>6. (\A y \in Workers : Holds(y))'
        BY <2>1, <3>1, <3>5, HoldsStep DEF netVars
      <3>7. QED  BY <1>c, <3>1, <3>4, <3>6
    <2>4. CASE Handled(x) /\ UNCHANGED <<row, wrapped, granted>>
      <3>1. TWork' /\ pc'[x] = "idle" /\ Others(x) /\ timeouts' \in [Wraps -> 0..MaxFaults] /\ Counted'
        BY <1>0, <2>1, <2>4, HandledNext DEF countVars
      <3>2. (\A y \in Workers : Holds(y))'
        BY <2>1, <3>1, HoldsIdle, HoldsStep DEF netVars
      <3>3. QED  BY <1>0, <1>c, <2>1, <2>4, <3>1, <3>2
                 DEF netVars, memVars, countVars, TNet, TDb, TMem, TIn, THist, Written
    <2>5. QED  BY <1>9, <2>3, <2>4 DEF SaveEdit
  <1>10. ASSUME NEW x \in Workers, ReconcileRead(x)  PROVE  Typed'
    <2> DEFINE edits == authorized_edits(TextOf(job[x].r), row)
    <2>1. /\ UNCHANGED <<clock, netVars, dbVars, blocked, memVars, cache, historyVars, countVars>>
          /\ pc[x] = "read" /\ "apply" \in Pcs
          /\ \/ Merged(x)
             \/ GoWith(x, "apply", [job[x] EXCEPT !.edits = edits]) /\ UNCHANGED timeouts
      BY <1>10 DEF ReconcileRead, Pcs
    <2>2. edits \in SUBSET Edits
      BY DEF authorized_edits, EditsOf
    <2> HIDE DEF edits
    <2>3. TWork' /\ Others(x) /\ Holds(x)' /\ timeouts' \in [Wraps -> 0..MaxFaults] /\ Counted'
      <3>1. CASE Merged(x)
        <4>1. /\ TWork' /\ Others(x) /\ timeouts' \in [Wraps -> 0..MaxFaults] /\ Counted'
              /\ \/ pc'[x] = "idle" /\ job'[x] = NoJob
                 \/ x \notin Intake /\ job[x].r \in Texts /\ pc'[x] = "selfWrap" /\ job'[x] = job[x]
          BY <1>0, <2>1, <3>1, MergedNext DEF countVars
        <4>2. Holds(x)'
          <5>1. CASE pc'[x] = "idle"
            BY <5>1, HoldsIdle
          <5>2. CASE x \notin Intake /\ job[x].r \in Texts /\ pc'[x] = "selfWrap" /\ job'[x] = job[x]
            BY <1>a, <2>1, <5>2
            DEF Holds, HasRumor, IntakePcs, CommandPcs, TextPcs, EditPcs, netVars, Workers
          <5>3. QED  BY <4>1, <5>1, <5>2
        <4>3. QED  BY <4>1, <4>2
      <3>2. CASE GoWith(x, "apply", [job[x] EXCEPT !.edits = edits]) /\ UNCHANGED timeouts
        <4> DEFINE j == [job[x] EXCEPT !.edits = edits]
        <4>1. j \in Job /\ j.r = job[x].r /\ j.w = job[x].w
          BY <1>a, <2>2 DEF Job
        <4>2. GoWith(x, "apply", j)
          BY <3>2
        <4> HIDE DEF j
        <4>3. TWork' /\ pc'[x] = "apply" /\ job'[x] = j /\ Others(x)
          BY <1>0, <2>1, <4>1, <4>2, GoWithNext
        <4>4. Holds(x)'
          BY <1>a, <2>1, <4>1, <4>3
          DEF Holds, HasRumor, IntakePcs, CommandPcs, TextPcs, EditPcs, netVars
        <4>5. QED  BY <1>0, <2>1, <3>2, <4>3, <4>4 DEF TIn, Counted, countVars
      <3>3. QED  BY <2>1, <3>1, <3>2
    <2>4. (\A y \in Workers : Holds(y))'
      BY <2>1, <2>3, HoldsStep DEF netVars
    <2>5. QED  BY <1>0, <1>c, <2>1, <2>3, <2>4
               DEF netVars, dbVars, memVars, historyVars, countVars, TNet, TDb, TMem, TIn, THist, Written
  <1>11. ASSUME NEW x \in Workers, ReconcileApply(x)  PROVE  Typed'
    <2>1. /\ UNCHANGED <<clock, netVars, dbVars, blocked, chatMem, shown, sending, cache, historyVars, countVars>>
          /\ pc[x] = "apply" /\ Merged(x) /\ Merge(TextOf(job[x].r), job[x].r, job[x].edits)
      BY <1>11 DEF ReconcileApply
    <2>2. applied' \in [Texts -> SUBSET Edits]
      <3>1. TextOf(job[x].r) \in Texts /\ job[x].edits \in SUBSET Edits
        BY <1>a, Basics DEF Job
      <3>2. QED  BY <1>0, <2>1, <3>1 DEF Merge, TMem
    <2>3. TMem'
      BY <1>0, <2>1, <2>2 DEF TMem
    <2>4. /\ TWork' /\ Others(x) /\ timeouts' \in [Wraps -> 0..MaxFaults] /\ Counted'
          /\ \/ pc'[x] = "idle" /\ job'[x] = NoJob
             \/ x \notin Intake /\ job[x].r \in Texts /\ pc'[x] = "selfWrap" /\ job'[x] = job[x]
      BY <1>0, <2>1, MergedNext DEF countVars
    <2>5. Holds(x)'
      <3>1. CASE pc'[x] = "idle"
        BY <3>1, HoldsIdle
      <3>2. CASE x \notin Intake /\ job[x].r \in Texts /\ pc'[x] = "selfWrap" /\ job'[x] = job[x]
        BY <1>a, <2>1, <3>2
        DEF Holds, HasRumor, IntakePcs, CommandPcs, TextPcs, EditPcs, netVars, Workers
      <3>3. QED  BY <2>4, <3>1, <3>2
    <2>6. (\A y \in Workers : Holds(y))'
      BY <2>1, <2>4, <2>5, HoldsStep DEF netVars
    <2>7. QED  BY <1>0, <1>c, <2>1, <2>3, <2>4, <2>6
               DEF netVars, dbVars, historyVars, countVars, TNet, TDb, TIn, THist, Written
  <1>12. ASSUME NEW x \in Intake, TimeOut(x)  PROVE  Typed'
    <2> DEFINE w == job[x].w
    <2>0. x \in Workers
      BY Basics
    <2>1. /\ UNCHANGED <<clock, netVars, chatRow, row, wrapped, cutoff, blocked, memVars, granted, spared, ops>>
          /\ pc[x] # "idle" /\ faults < MaxFaults /\ faults' = faults + 1 /\ End(x)
          /\ timeouts' = [timeouts EXCEPT ![w] = timeouts[w] + 1]
          /\ discard(w) \/ UNCHANGED <<discarded, cache>>
          /\ excused' = excused \cup {<<TextOf(w[1]), "abandoned">>}
      BY <1>12 DEF TimeOut
    <2>2. w \in net /\ w \in Wraps /\ TextOf(w[1]) \in Texts
      BY <1>a, <2>0, <2>1, Basics DEF Holds, Job
    <2> HIDE DEF w
    <2>3. TWork' /\ pc'[x] = "idle" /\ Others(x)
      BY <1>0, <2>0, <2>1, EndNext
    <2>4. (\A y \in Workers : Holds(y))'
      BY <2>0, <2>1, <2>3, HoldsIdle, HoldsStep DEF netVars
    <2>5. timeouts[w] + 1 \in 0..MaxFaults /\ timeouts[w] + 1 <= faults' /\ faults' \in 0..MaxFaults
      BY <1>0, <1>b, <2>1, <2>2 DEF TIn, Counted
    <2>6. timeouts' \in [Wraps -> 0..MaxFaults]
      BY <1>0, <2>1, <2>2, <2>5 DEF TIn
    <2>7. Counted'
      <3>1. \A v \in Wraps : timeouts'[v] = IF v = w THEN timeouts[w] + 1 ELSE timeouts[v]
        BY <1>0, <2>1 DEF TIn
      <3>2. \A v \in Wraps : timeouts[v] \in Nat /\ timeouts[v] <= faults
        BY <1>0 DEF TIn, Counted
      <3>3. QED  BY <1>b, <2>1, <2>5, <3>1, <3>2 DEF Counted
    <2>8. discarded' \subseteq net' /\ cache' \subseteq net'
      BY <1>0, <2>1, <2>2 DEF discard, TDb, TIn, netVars
    <2>9. THist'
      BY <1>0, <2>1, <2>2, <2>5 DEF THist, Excuses
    <2>10. QED  BY <1>0, <1>c, <2>1, <2>3, <2>4, <2>6, <2>7, <2>8, <2>9
                DEF netVars, memVars, TNet, TDb, TMem, TIn, Written
  <1>13. ASSUME NEW c \in Commands, NEW t \in Texts, SendStart(c, t)  PROVE  Typed'
    <2> DEFINE j == [NoJob EXCEPT !.r = t, !.w = <<t, 1>>]
    <2>0. c \in Workers /\ c \notin Intake /\ t \in Rumors /\ t \notin Edits /\ "publish" \in Pcs
      BY Basics DEF Pcs
    <2>1. /\ UNCHANGED <<clock, mine, net, fresh, dbVars, blocked, shown, applied, intakeVars, granted, excused, faults>>
          /\ signed[t] = 0 /\ signed' = [signed EXCEPT ![t] = clock]
          /\ chatMem' = TRUE /\ sending' = sending \cup {t} /\ ops + faults < MaxOps /\ ops' = ops + 1
          /\ GoWith(c, "publish", j) /\ (spared' = spared \/ spared' = spared \cup {t})
      BY <1>13 DEF SendStart, Begin, SpareNew
    <2>2. j \in Job /\ j.r = t
      BY <2>0, Basics DEF Job
    <2> HIDE DEF j
    <2>3. TWork' /\ pc'[c] = "publish" /\ job'[c] = j /\ Others(c)
      BY <1>0, <2>0, <2>1, <2>2, GoWithNext
    <2>4. /\ signed' \in [Rumors -> 0..MaxClock] /\ signed'[t] > 0
          /\ \A q \in Rumors : signed[q] > 0 => signed'[q] > 0
      BY <2>0, <2>1, Stamped
    <2>5. Holds(c)'
      BY <2>0, <2>2, <2>3, <2>4 DEF Holds, HasRumor, IntakePcs, CommandPcs, TextPcs, EditPcs
    <2>6. (\A y \in Workers : Holds(y))'
      BY <2>0, <2>1, <2>3, <2>4, <2>5, HoldsStep
    <2>7. Written'
      <3>1. \A v \in net : v[1] \in Rumors
        BY <1>0, Basics DEF TNet
      <3>2. QED  BY <1>0, <2>1, <2>4, <3>1 DEF Written, dbVars
    <2>8. chatMem' \in BOOLEAN
      BY <2>1, Zenon
    <2>9. TNet' /\ TMem' /\ THist'
      BY <1>0, <2>0, <2>1, <2>4, <2>8 DEF TNet, TMem, THist
    <2>10. QED  BY <1>0, <1>c, <2>1, <2>3, <2>6, <2>7, <2>9 DEF dbVars, intakeVars, TDb, TIn, Counted
  <1>14. ASSUME NEW c \in Workers, SendAck(c)  PROVE  Typed'
    <2>1. /\ UNCHANGED <<clock, netVars, dbVars, blocked, chatMem, applied, intakeVars, historyVars, countVars>>
          /\ pc[c] = "publish" /\ {"saveChat", "selfWrap"} \subseteq Pcs
          /\ \/ job[c].r \in sending /\ shown' = shown \cup {job[c].r} /\ sending' = sending \ {job[c].r} /\ Go(c, "saveChat")
             \/ UNCHANGED <<shown, sending>> /\ Go(c, "selfWrap")
      BY <1>14 DEF SendAck, Pcs
    <2>2. c \in Commands /\ c \notin Intake /\ job[c].r \in Texts
      BY <1>a, <2>1 DEF Holds, TextPcs, IntakePcs, Workers
    <2>3. PICK p \in {"saveChat", "selfWrap"} : Go(c, p)
      BY <2>1
    <2>4. TWork' /\ pc'[c] = p /\ job'[c] = job[c] /\ Others(c)
      BY <1>0, <2>1, <2>3, GoNext
    <2>5. Holds(c)'
      BY <1>a, <2>1, <2>2, <2>3, <2>4
      DEF Holds, HasRumor, IntakePcs, CommandPcs, TextPcs, EditPcs, netVars
    <2>6. (\A y \in Workers : Holds(y))'
      BY <2>1, <2>4, <2>5, HoldsStep DEF netVars
    <2>7. TMem'
      BY <1>0, <2>1, <2>2 DEF TMem
    <2>8. QED  BY <1>0, <1>c, <2>1, <2>4, <2>6, <2>7
               DEF netVars, dbVars, intakeVars, historyVars, countVars, TNet, TDb, TIn, THist, Written, Counted
  <1>15. ASSUME NEW c \in Workers, SendFail(c)  PROVE  Typed'
    <2>1. /\ UNCHANGED <<clock, netVars, row, wrapped, discarded, cutoff, blocked, memVars, intakeVars,
                          historyVars, countVars>>
          /\ End(c) /\ chatRow' = (chatRow \/ job[c].r \in sending)
      BY <1>15 DEF SendFail
    <2>2. chatRow' \in BOOLEAN
      BY <1>0, <2>1, Zenon DEF TDb
    <2>3. chatRow => chatRow'
      BY <2>1, Zenon
    <2>4. TWork' /\ pc'[c] = "idle" /\ Others(c)
      BY <1>0, <2>1, EndNext
    <2>5. (\A y \in Workers : Holds(y))'
      BY <2>1, <2>4, HoldsIdle, HoldsStep DEF netVars
    <2>6. TDb'
      BY <1>0, <2>1, <2>2, <2>3 DEF TDb, netVars
    <2>7. QED  BY <1>0, <1>c, <2>1, <2>4, <2>5, <2>6
               DEF netVars, memVars, intakeVars, historyVars, countVars, TNet, TMem, TIn, THist, Written, Counted
  <1>16. ASSUME NEW c \in Workers, NEW p \in {"idle", "editSave"}, SelfWrap(c, p), pc[c] \in {"selfWrap", "editPublish"},
                p = "editSave" => pc[c] = "editPublish"
         PROVE  Typed'
    <2>1. UNCHANGED <<clock, mine, signed, dbVars, blocked, memVars, intakeVars, historyVars, countVars>>
      BY <1>16 DEF SelfWrap
    <2>2. c \notin Intake /\ job[c].r \in Rumors /\ signed[job[c].r] > 0
      BY <1>16, <1>a DEF Holds, HasRumor, IntakePcs, Job
    <2>3. PICK w \in Wraps : w = <<job[c].r, 1>> /\ w[1] = job[c].r
      BY <2>2, Basics
    <2>4. \/ net' = net /\ fresh' = fresh
          \/ net' = net \cup {w} /\ fresh' = fresh \cup ({w} \ net)
      BY <1>16, <2>3 DEF SelfWrap
    <2>5. TNet' /\ net \subseteq net'
      BY <1>0, <2>1, <2>4 DEF TNet
    <2>6. Written'
      BY <1>0, <2>1, <2>2, <2>3, <2>4 DEF Written, dbVars
    <2>7. TWork' /\ Others(c) /\ Holds(c)'
      <3>1. CASE p = "idle"
        <4>1. End(c)
          BY <1>16, <3>1 DEF SelfWrap
        <4>2. QED  BY <1>0, <4>1, EndNext, HoldsIdle
      <3>2. CASE p = "editSave"
        <4>1. Go(c, "editSave") /\ "editSave" \in Pcs
          BY <1>16, <3>2 DEF SelfWrap, Pcs
        <4>2. TWork' /\ pc'[c] = "editSave" /\ job'[c] = job[c] /\ Others(c)
          BY <1>0, <4>1, GoNext
        <4>3. Holds(c)'
          BY <1>a, <1>16, <2>1, <2>2, <3>2, <4>2 DEF Holds, HasRumor, IntakePcs, CommandPcs, TextPcs, EditPcs, Workers
        <4>4. QED  BY <4>2, <4>3
      <3>3. QED  BY <1>16, <3>1, <3>2
    <2>8. (\A y \in Workers : Holds(y))'
      BY <2>1, <2>5, <2>7, HoldsStep
    <2>9. QED  BY <1>0, <1>c, <2>1, <2>5, <2>6, <2>7, <2>8
               DEF dbVars, memVars, intakeVars, historyVars, countVars, TDb, TMem, TIn, THist, Counted
  <1>17. ASSUME NEW c \in Workers, SendWrap(c)  PROVE  Typed'
    BY <1>16, <1>17 DEF SendWrap
  <1>18. ASSUME NEW c \in Workers, EditPublish(c)  PROVE  Typed'
    <2>1. CASE SelfWrap(c, "editSave")
      BY <1>16, <1>18, <2>1 DEF EditPublish
    <2>2. CASE End(c) /\ UNCHANGED <<clock, netVars, dbVars, blocked, memVars, intakeVars, historyVars, countVars>>
      <3>1. TWork' /\ pc'[c] = "idle" /\ Others(c)
        BY <1>0, <2>2, EndNext
      <3>2. (\A y \in Workers : Holds(y))'
        BY <2>2, <3>1, HoldsIdle, HoldsStep DEF netVars
      <3>3. QED  BY <1>0, <1>c, <2>2, <3>1, <3>2
                 DEF netVars, dbVars, memVars, intakeVars, historyVars, countVars,
                     TNet, TDb, TMem, TIn, THist, Written, Counted
    <2>3. QED  BY <1>18, <2>1, <2>2 DEF EditPublish
  <1>19. ASSUME NEW c \in Commands, NEW e \in Edits, EditStart(c, e)  PROVE  Typed'
    <2> DEFINE j == [NoJob EXCEPT !.r = e, !.w = <<e, 1>>, !.at = clock]
    <2>0. c \in Workers /\ c \notin Intake /\ e \in Rumors /\ "editPublish" \in Pcs
      BY Basics DEF Pcs
    <2>1. /\ UNCHANGED <<clock, mine, net, fresh, dbVars, blocked, memVars, intakeVars, granted, excused, faults>>
          /\ signed[e] = 0 /\ signed' = [signed EXCEPT ![e] = clock]
          /\ ops + faults < MaxOps /\ ops' = ops + 1
          /\ GoWith(c, "editPublish", j) /\ (spared' = spared \/ spared' = spared \cup {e})
      BY <1>19 DEF EditStart, Begin, SpareNew
    <2>2. j \in Job /\ j.r = e /\ j.at = clock
      <3>1. clock \in 0..MaxClock
        BY <1>b
      <3>2. QED  BY <2>0, <3>1, Basics DEF Job
    <2> HIDE DEF j
    <2>3. TWork' /\ pc'[c] = "editPublish" /\ job'[c] = j /\ Others(c)
      BY <1>0, <2>0, <2>1, <2>2, GoWithNext
    <2>4. /\ signed' \in [Rumors -> 0..MaxClock] /\ signed'[e] > 0 /\ clock > 0
          /\ \A q \in Rumors : signed[q] > 0 => signed'[q] > 0
      BY <2>0, <2>1, Stamped
    <2>5. Holds(c)'
      BY <2>0, <2>2, <2>3, <2>4 DEF Holds, HasRumor, IntakePcs, CommandPcs, TextPcs, EditPcs
    <2>6. (\A y \in Workers : Holds(y))'
      BY <2>0, <2>1, <2>3, <2>4, <2>5, HoldsStep
    <2>7. Written'
      <3>1. \A v \in net : v[1] \in Rumors
        BY <1>0, Basics DEF TNet
      <3>2. QED  BY <1>0, <2>1, <2>4, <3>1 DEF Written, dbVars
    <2>8. TNet' /\ THist'
      BY <1>0, <2>0, <2>1, <2>4 DEF TNet, THist
    <2>9. QED  BY <1>0, <1>c, <2>1, <2>3, <2>6, <2>7, <2>8
               DEF dbVars, memVars, intakeVars, TDb, TMem, TIn, Counted
  <1>20. ASSUME NEW c \in Workers, EditSave(c)  PROVE  Typed'
    <2>1. /\ UNCHANGED <<clock, netVars, chatRow, discarded, cutoff, blocked, memVars, intakeVars, excused, spared, countVars>>
          /\ pc[c] = "editSave" /\ save_event(job[c].r, job[c].at, {}) /\ Go(c, "editCheck") /\ "editCheck" \in Pcs
      BY <1>20 DEF EditSave, Pcs
    <2>2. /\ job[c].r \in Edits /\ job[c].r \in Rumors /\ signed[job[c].r] > 0 /\ job[c].at \in 1..MaxClock
          /\ c \notin Intake /\ job[c].r \notin Texts
      BY <1>a, <2>1, Basics DEF Holds, EditPcs, HasRumor, IntakePcs, Job
    <2>3. TWork' /\ pc'[c] = "editCheck" /\ job'[c] = job[c] /\ Others(c)
      BY <1>0, <2>1, GoNext
    <2>4. chatRow' \in BOOLEAN /\ (chatRow => chatRow')
      BY <1>0, <2>1 DEF TDb
    <2>5. TNet' /\ TDb' /\ TMem' /\ TIn' /\ THist' /\ Written' /\ Counted'
      BY <2>1, <2>2, <2>4, SaveTyped
    <2>6. Holds(c)'
      BY <1>a, <2>1, <2>2, <2>3
      DEF Holds, HasRumor, IntakePcs, CommandPcs, TextPcs, EditPcs, netVars
    <2>7. (\A y \in Workers : Holds(y))'
      BY <2>1, <2>3, <2>6, HoldsStep DEF netVars
    <2>8. QED  BY <1>c, <2>3, <2>5, <2>7
  <1>21. ASSUME NEW c \in Workers, EditCheck(c)  PROVE  Typed'
    <2>1. /\ UNCHANGED <<clock, netVars, dbVars, blocked, memVars, intakeVars, historyVars, countVars>>
          /\ pc[c] = "editCheck" /\ "apply" \in Pcs
          /\ End(c) \/ GoWith(c, "apply", [job[c] EXCEPT !.edits = {job[c].r}])
      BY <1>21 DEF EditCheck, Pcs
    <2>2. job[c].r \in Edits /\ {job[c].r} \in SUBSET Edits
      BY <1>a, <2>1 DEF Holds, EditPcs
    <2>3. TWork' /\ Others(c) /\ Holds(c)'
      <3>1. CASE End(c)
        BY <1>0, <3>1, EndNext, HoldsIdle
      <3>2. CASE GoWith(c, "apply", [job[c] EXCEPT !.edits = {job[c].r}])
        <4> DEFINE j == [job[c] EXCEPT !.edits = {job[c].r}]
        <4>1. j \in Job /\ j.r = job[c].r /\ j.w = job[c].w
          BY <1>a, <2>2 DEF Job
        <4>2. GoWith(c, "apply", j)
          BY <3>2
        <4> HIDE DEF j
        <4>3. TWork' /\ pc'[c] = "apply" /\ job'[c] = j /\ Others(c)
          BY <1>0, <2>1, <4>1, <4>2, GoWithNext
        <4>4. Holds(c)'
          BY <1>a, <2>1, <4>1, <4>3
          DEF Holds, HasRumor, IntakePcs, CommandPcs, TextPcs, EditPcs, netVars
        <4>5. QED  BY <4>3, <4>4
      <3>3. QED  BY <2>1, <3>1, <3>2
    <2>4. (\A y \in Workers : Holds(y))'
      BY <2>1, <2>3, HoldsStep DEF netVars
    <2>5. QED  BY <1>0, <1>c, <2>1, <2>3, <2>4
               DEF netVars, dbVars, memVars, intakeVars, historyVars, countVars,
                   TNet, TDb, TMem, TIn, THist, Written, Counted
  <1>22. ASSUME NEW c \in Commands, LoadStart(c)  PROVE  Typed'
    <2>0. c \in Workers /\ c \notin Intake /\ "loadAdd" \in Pcs
      BY Basics DEF Pcs
    <2>1. /\ UNCHANGED <<clock, netVars, dbVars, blocked, memVars, intakeVars, historyVars, faults>>
          /\ ops + faults < MaxOps /\ ops' = ops + 1
      BY <1>22 DEF LoadStart, Begin
    <2>2. PICK page \in SUBSET {t \in Texts : row[t] > 0} :
             GoWith(c, "loadAdd", [NoJob EXCEPT !.view = page,
                                                !.edits = UNION {authorized_edits(t, row) : t \in page}])
      BY <1>22 DEF LoadStart
    <2> DEFINE es == UNION {authorized_edits(t, row) : t \in page}
               j == [NoJob EXCEPT !.view = page, !.edits = es]
    <2>3. es \in SUBSET Edits
      BY DEF authorized_edits, EditsOf
    <2> HIDE DEF es
    <2>4. j \in Job
      BY <2>3, Basics DEF Job
    <2>5. GoWith(c, "loadAdd", j)
      BY <2>2 DEF es
    <2> HIDE DEF j
    <2>6. TWork' /\ pc'[c] = "loadAdd" /\ Others(c)
      BY <1>0, <2>0, <2>4, <2>5, GoWithNext
    <2>7. Holds(c)'
      BY <2>0, <2>6 DEF Holds, HasRumor, IntakePcs, CommandPcs, TextPcs, EditPcs
    <2>8. (\A y \in Workers : Holds(y))'
      BY <2>0, <2>1, <2>6, <2>7, HoldsStep DEF netVars
    <2>9. QED  BY <1>0, <1>c, <2>1, <2>6, <2>8
               DEF netVars, dbVars, memVars, intakeVars, historyVars, TNet, TDb, TMem, TIn, THist, Written, Counted
  <1>23. ASSUME NEW c \in Workers, LoadAdd(c)  PROVE  Typed'
    <2> DEFINE page == IF chatMem THEN job[c].view \ shown ELSE {}
               late == {<<t, "overtaken">> :
                          t \in {u \in page : authorized_edits(u, row) # job[c].edits \cap EditsOf(u)}}
    <2>1. /\ UNCHANGED <<clock, netVars, dbVars, blocked, chatMem, sending, intakeVars, granted, spared, countVars>>
          /\ shown' = shown \cup page /\ End(c)
          /\ applied' = [t \in Texts |-> IF t \in page THEN job[c].edits \cap EditsOf(t) ELSE applied[t]]
          /\ excused' = excused \cup late
      BY <1>23 DEF LoadAdd
    <2>2. page \subseteq Texts /\ (~chatMem => page = {})
      BY <1>a DEF Job
    <2>3. late \subseteq Texts \X Excuses
      BY <2>2 DEF Excuses
    <2> HIDE DEF page, late
    <2>4. applied' \in [Texts -> SUBSET Edits]
      BY <1>0, <2>1 DEF TMem, EditsOf
    <2>5. TMem' /\ THist'
      BY <1>0, <2>1, <2>2, <2>3, <2>4 DEF TMem, THist, countVars
    <2>6. TWork' /\ pc'[c] = "idle" /\ Others(c)
      BY <1>0, <2>1, EndNext
    <2>7. (\A y \in Workers : Holds(y))'
      BY <2>1, <2>6, HoldsIdle, HoldsStep DEF netVars
    <2>8. QED  BY <1>0, <1>c, <2>1, <2>5, <2>6, <2>7
               DEF netVars, dbVars, intakeVars, countVars, TNet, TDb, TIn, Written, Counted
  <1>24. CASE Evict
    <2>1. /\ UNCHANGED <<clock, netVars, dbVars, blocked, chatMem, intakeVars, workVars, historyVars, faults>>
          /\ ops + faults < MaxOps /\ ops' = ops + 1
      BY <1>24 DEF Evict
    <2>2. PICK old : /\ shown' = shown \ old /\ sending' = sending \ old
                     /\ applied' = [t \in Texts |-> IF t \in old THEN {} ELSE applied[t]]
      BY <1>24 DEF Evict
    <2>3. TMem'
      BY <1>0, <2>1, <2>2 DEF TMem
    <2>4. (\A y \in Workers : Holds(y))'
      BY <2>1, HoldsAside DEF netVars
    <2>5. QED  BY <1>0, <1>c, <2>1, <2>3, <2>4
               DEF netVars, dbVars, intakeVars, workVars, historyVars, TNet, TDb, TIn, TWork, THist, Written, Counted
  <1>25. CASE Block
    <2>1. /\ UNCHANGED <<clock, netVars, dbVars, memVars, intakeVars, workVars, historyVars, faults>>
          /\ ops + faults < MaxOps /\ ops' = ops + 1 /\ blocked' = ~blocked
      BY <1>25 DEF Block
    <2>2. blocked' \in BOOLEAN
      BY <2>1, Zenon
    <2>3. (\A y \in Workers : Holds(y))'
      BY <2>1, HoldsAside DEF netVars
    <2>4. QED  BY <1>0, <1>c, <2>1, <2>2, <2>3
               DEF netVars, dbVars, memVars, intakeVars, workVars, historyVars,
                   TNet, TDb, TMem, TIn, TWork, THist, Written, Counted
  <1>26. InFlight \subseteq Rumors
    BY <1>a DEF InFlight, Job, Rumors
  <1>27. ASSUME NEW c \in Commands, DeleteStart(c)  PROVE  Typed'
    <2>0. c \in Workers /\ c \notin Intake /\ "deleteRows" \in Pcs
      BY Basics DEF Pcs
    <2>1. /\ UNCHANGED <<clock, netVars, chatRow, row, wrapped, discarded, blocked, memVars, intakeVars,
                          granted, excused, faults>>
          /\ ops + faults < MaxOps /\ ops' = ops + 1 /\ cutoff' = clock /\ spared' = InFlight /\ Go(c, "deleteRows")
      BY <1>27 DEF DeleteStart, Begin
    <2>2. TWork' /\ pc'[c] = "deleteRows" /\ Others(c)
      BY <1>0, <2>0, <2>1, GoNext
    <2>3. Holds(c)'
      BY <2>0, <2>2 DEF Holds, HasRumor, IntakePcs, CommandPcs, TextPcs, EditPcs
    <2>4. (\A y \in Workers : Holds(y))'
      BY <2>0, <2>1, <2>2, <2>3, HoldsStep DEF netVars
    <2>5. TDb' /\ THist'
      BY <1>0, <1>b, <1>26, <2>1 DEF TDb, THist, netVars
    <2>6. QED  BY <1>0, <1>c, <2>1, <2>2, <2>4, <2>5
               DEF netVars, memVars, intakeVars, TNet, TMem, TIn, Written, Counted
  <1>28. ASSUME NEW c \in Workers, DeleteRows(c)  PROVE  Typed'
    <2>1. /\ UNCHANGED <<clock, netVars, discarded, cutoff, blocked, memVars, intakeVars, granted, excused, countVars>>
          /\ chatRow' = FALSE /\ row' = NoRows /\ wrapped' = {} /\ spared' = spared \cup InFlight
          /\ pc[c] = "deleteRows" /\ Go(c, "deleteState") /\ "deleteState" \in Pcs
      BY <1>28 DEF DeleteRows, Pcs
    <2>2. TWork' /\ pc'[c] = "deleteState" /\ Others(c)
      BY <1>0, <2>1, GoNext
    <2>3. c \notin Intake
      BY <1>a, <2>1 DEF Holds, IntakePcs
    <2>4. Holds(c)'
      BY <2>2, <2>3 DEF Holds, HasRumor, IntakePcs, CommandPcs, TextPcs, EditPcs
    <2>5. (\A y \in Workers : Holds(y))'
      BY <2>1, <2>2, <2>4, HoldsStep DEF netVars
    <2>6. chatRow' \in BOOLEAN
      BY <2>1, Zenon
    <2>7. row' \in [Rumors -> 0..MaxClock] /\ \A r \in Rumors : row'[r] = 0
      BY <2>1 DEF NoRows
    <2>8. TDb' /\ THist' /\ Written'
      BY <1>0, <1>26, <2>1, <2>6, <2>7, Basics DEF TDb, THist, Written, netVars, countVars
    <2>9. QED  BY <1>0, <1>c, <2>1, <2>2, <2>5, <2>8
               DEF netVars, memVars, intakeVars, countVars, TNet, TMem, TIn, Counted
  <1>29. ASSUME NEW c \in Workers, DeleteState(c)  PROVE  Typed'
    <2>1. /\ UNCHANGED <<clock, netVars, dbVars, blocked, intakeVars, historyVars, countVars>> /\ End(c)
          /\ chatMem' = FALSE /\ shown' = {} /\ applied' = [t \in Texts |-> {}] /\ sending' = {}
      BY <1>29 DEF DeleteState, drop_dm_chat_from_state
    <2>2. TWork' /\ pc'[c] = "idle" /\ Others(c)
      BY <1>0, <2>1, EndNext
    <2>3. (\A y \in Workers : Holds(y))'
      BY <2>1, <2>2, HoldsIdle, HoldsStep DEF netVars
    <2>4. chatMem' \in BOOLEAN
      BY <2>1, Zenon
    <2>5. TMem'
      BY <2>1, <2>4 DEF TMem
    <2>6. QED  BY <1>0, <1>c, <2>1, <2>2, <2>3, <2>5
               DEF netVars, dbVars, intakeVars, historyVars, countVars, TNet, TDb, TIn, THist, Written, Counted
  <1>30. CASE Restart
    <2>1. /\ UNCHANGED <<clock, netVars, dbVars, blocked, granted, ops>>
          /\ faults < MaxFaults /\ faults' = faults + 1 /\ chatMem' = chatRow /\ sending' = {}
          /\ cache' \subseteq wrapped /\ timeouts' = [w \in Wraps |-> 0]
          /\ pc' = [x \in Workers |-> "idle"] /\ job' = [x \in Workers |-> NoJob]
          /\ excused' = {} /\ (spared' = spared \/ spared' = {r \in Rumors : row[r] > 0})
      BY <1>30 DEF Restart
    <2>2. PICK new \in SUBSET {t \in Texts : row[t] > 0} :
             /\ shown' = new
             /\ applied' = [t \in Texts |-> IF t \in new THEN authorized_edits(t, row) ELSE {}]
      BY <1>30 DEF Restart
    <2>3. \A t \in Texts : authorized_edits(t, row) \in SUBSET Edits
      BY DEF authorized_edits, EditsOf
    <2>4. applied' \in [Texts -> SUBSET Edits]
      BY <2>2, <2>3
    <2>5. ~chatMem' => shown' \cup sending' = {}
      BY <1>0, <2>1, <2>2 DEF TDb
    <2>6. chatMem' \in BOOLEAN
      BY <1>0, <2>1 DEF TDb
    <2>7. TMem' /\ THist' /\ Counted'
      BY <1>0, <1>b, <2>1, <2>2, <2>4, <2>5, <2>6 DEF TMem, THist, Counted
    <2>8. TIn'
      BY <1>0, <2>1 DEF TIn, TDb, netVars
    <2>9. TWork'
      BY <2>1, Basics DEF TWork, Pcs
    <2>10. (\A y \in Workers : Holds(y))'
      BY <2>1, HoldsIdle
    <2>11. QED  BY <1>0, <1>c, <2>1, <2>7, <2>8, <2>9, <2>10 DEF netVars, dbVars, TNet, TDb, Written
  <1>31. ASSUME NEW x \in Workers, SaveChat(x)  PROVE  Typed'
    <2>1. /\ UNCHANGED <<clock, netVars, row, wrapped, discarded, cutoff, blocked, memVars, intakeVars,
                          historyVars, countVars>>
          /\ pc[x] = "saveChat" /\ chatRow' = TRUE /\ Go(x, "persist") /\ "persist" \in Pcs
      BY <1>31 DEF SaveChat, get_or_create_chat_id, Pcs
    <2>2. TWork' /\ pc'[x] = "persist" /\ job'[x] = job[x] /\ Others(x)
      BY <1>0, <2>1, GoNext
    <2>3. Holds(x)'
      BY <1>a, <2>1, <2>2 DEF Holds, HasRumor, IntakePcs, CommandPcs, TextPcs, EditPcs, netVars
    <2>4. (\A y \in Workers : Holds(y))'
      BY <2>1, <2>2, <2>3, HoldsStep DEF netVars
    <2>5. chatRow' \in BOOLEAN
      BY <2>1, Zenon
    <2>6. TDb'
      BY <1>0, <2>1, <2>5 DEF TDb, netVars
    <2>7. QED  BY <1>0, <1>c, <2>1, <2>2, <2>4, <2>6
               DEF netVars, memVars, intakeVars, historyVars, countVars, TNet, TMem, TIn, THist, Written, Counted
  <1>32. ASSUME NEW x \in Workers, DbError(x)  PROVE  Typed'
    <2>1. /\ UNCHANGED <<clock, netVars, discarded, cutoff, blocked, memVars, cache, granted, ops>>
          /\ faults < MaxFaults /\ faults' = faults + 1
      BY <1>32 DEF DbError
    <2>2. /\ \/ row' = row /\ wrapped' = wrapped
             \/ row' = NoRows /\ wrapped' = {}
          /\ spared' = spared \/ spared' = Rumors
      BY <1>32 DEF DbError
    <2>3. excused' \subseteq Texts \X Excuses
      <3>1. TextOf(job[x].r) \in Texts /\ excused \subseteq Texts \X Excuses
        BY <1>0, <1>a, Basics DEF THist, Job
      <3>2. \/ excused' = excused
            \/ \E how \in {"unsaved", "unmerged"} : excused' = excused \cup {<<TextOf(job[x].r), how>>}
        BY <1>32 DEF DbError, Excuse
      <3>3. QED  BY <3>1, <3>2 DEF Excuses
    <2>4. chatRow' \in BOOLEAN /\ (chatRow => chatRow')
      <3>1. chatRow \in BOOLEAN
        BY <1>0 DEF TDb
      <3>2. chatRow' = chatRow \/ chatRow' = TRUE
        BY <1>32, Zenon DEF DbError
      <3>3. QED  BY <3>1, <3>2, Zenon
    <2>5. TWork' /\ Others(x) /\ Holds(x)' /\ timeouts' \in [Wraps -> 0..MaxFaults] /\ Counted'
      <3>0. faults' \in {faults, faults + 1} /\ UNCHANGED <<signed, net>>
        BY <2>1 DEF netVars
      <3>a. ASSUME NEW p \in Pcs, Go(x, p), UNCHANGED timeouts,
                   (pc[x] = "exists" /\ p = "add") \/ (pc[x] = "saveChat" /\ p = "persist")
            PROVE  TWork' /\ Others(x) /\ Holds(x)' /\ timeouts' \in [Wraps -> 0..MaxFaults] /\ Counted'
        <4>1. TWork' /\ pc'[x] = p /\ job'[x] = job[x] /\ Others(x)
          BY <1>0, <3>a, GoNext
        <4>2. Holds(x)'
          BY <1>a, <3>0, <3>a, <4>1 DEF Holds, HasRumor, IntakePcs, CommandPcs, TextPcs, EditPcs
        <4>3. \A w \in Wraps : timeouts[w] \in Nat /\ timeouts[w] <= faults
          BY <1>0 DEF TIn, Counted
        <4>4. QED  BY <1>0, <1>b, <2>1, <3>a, <4>1, <4>2, <4>3 DEF TIn, Counted
      <3>1. CASE pc[x] = "exists" /\ Go(x, "add") /\ UNCHANGED timeouts
        BY <3>1, <3>a DEF Pcs
      <3>2. CASE pc[x] = "saveChat" /\ Go(x, "persist") /\ UNCHANGED timeouts
        BY <3>2, <3>a DEF Pcs
      <3>3. CASE Merged(x) /\ pc[x] \in {"persist", "read", "editCheck"}
        <4>1. /\ TWork' /\ Others(x) /\ timeouts' \in [Wraps -> 0..MaxFaults] /\ Counted'
              /\ \/ pc'[x] = "idle" /\ job'[x] = NoJob
                 \/ x \notin Intake /\ job[x].r \in Texts /\ pc'[x] = "selfWrap" /\ job'[x] = job[x]
          BY <1>0, <3>0, <3>3, MergedNext
        <4>2. CASE pc'[x] = "idle"
          BY <4>1, <4>2, HoldsIdle
        <4>3. CASE x \notin Intake /\ job[x].r \in Texts /\ pc'[x] = "selfWrap" /\ job'[x] = job[x]
          <5>1. Holds(x)'
            BY <1>a, <3>0, <3>3, <4>3 DEF Holds, HasRumor, IntakePcs, CommandPcs, TextPcs, EditPcs, Workers
          <5>2. QED  BY <4>1, <5>1
        <4>4. QED  BY <4>1, <4>2, <4>3
      <3>4. CASE Handled(x)
        BY <1>0, <3>0, <3>4, HandledNext, HoldsIdle
      <3>5. CASE End(x) /\ UNCHANGED timeouts
        <4>1. TWork' /\ pc'[x] = "idle" /\ Others(x)
          BY <1>0, <3>5, EndNext
        <4>2. \A w \in Wraps : timeouts[w] \in Nat /\ timeouts[w] <= faults
          BY <1>0 DEF TIn, Counted
        <4>3. QED  BY <1>0, <1>b, <2>1, <3>5, <4>1, <4>2, HoldsIdle DEF TIn, Counted
      <3>6. QED  BY <1>32, <3>1, <3>2, <3>3, <3>4, <3>5 DEF DbError
    <2>6. (\A y \in Workers : Holds(y))'
      BY <2>1, <2>5, HoldsStep DEF netVars
    <2>7. row' \in [Rumors -> 0..MaxClock] /\ \A r \in Rumors : row'[r] > 0 => row[r] > 0
      BY <1>0, <2>2 DEF TDb, NoRows
    <2>8. TDb' /\ Written'
      <3>1. (\E t \in Texts : row'[t] > 0) => chatRow'
        BY <1>0, <2>4, <2>7, Basics DEF TDb
      <3>2. QED  BY <1>0, <2>1, <2>2, <2>4, <2>7, <3>1 DEF TDb, Written, netVars
    <2>9. THist'
      BY <1>0, <1>b, <2>1, <2>2, <2>3 DEF THist
    <2>10. QED  BY <1>0, <1>c, <2>1, <2>5, <2>6, <2>8, <2>9 DEF netVars, memVars, TNet, TMem, TIn
  <1>33. QED
    BY <1>1, <1>2, <1>3, <1>4, <1>5, <1>6, <1>7, <1>8, <1>9, <1>10, <1>11, <1>12, <1>13, <1>14, <1>15, <1>17,
       <1>18, <1>19, <1>20, <1>21, <1>22, <1>23, <1>24, <1>25, <1>27, <1>28, <1>29, <1>30, <1>31, <1>32
    DEF Next, Handle

LEMMA TypedInit == Init => Typed
  <1>1. SUFFICES ASSUME Init PROVE Typed
    OBVIOUS
  <1>2. (~chatMem => shown \cup sending = {}) /\ chatMem \in BOOLEAN /\ chatRow \in BOOLEAN /\ blocked \in BOOLEAN
    BY <1>1, Zenon DEF Init
  <1>3. row \in [Rumors -> 0..MaxClock] /\ signed \in [Rumors -> 0..MaxClock] /\ \A r \in Rumors : row[r] = 0
    BY <1>1 DEF Init, NoRows
  <1>4. TNet /\ TDb /\ TMem
    BY <1>1, <1>2, <1>3, Basics DEF Init, TNet, TDb, TMem
  <1>5. TIn /\ TWork /\ THist
    BY <1>1, Basics DEF Init, TIn, TWork, THist, Pcs
  <1>6. (\A x \in Workers : Holds(x)) /\ Written /\ Counted
    BY <1>1, <1>3 DEF Init, Written, Counted, Holds, HasRumor, IntakePcs, CommandPcs, TextPcs, EditPcs
  <1>7. QED  BY <1>4, <1>5, <1>6, TypeParts DEF Typed

-----------------------------------------------------------------------------
(* What each step does to the messages, the store and the workers. *)

Data == <<mine, signed, row, cutoff, shown, applied, granted, excused, spared>>
\* The worker x moves to p with the locals j.
Moves(x, p, j) == pc'[x] = p /\ job'[x] = j /\ Others(x)
\* A row is stored, and the edits that makes authorised.
Stores(r) ==
    /\ row' \in [Rumors -> 0..MaxClock] /\ row'[r] > 0
    /\ row[r] > 0 => row' = row
    /\ \A q \in Rumors \ {r} : row'[q] = row[q]
    /\ granted' = granted \cup UNION {authorized_edits(t, row') : t \in Texts}

LEMMA TypedFacts ==
    ASSUME Typed
    PROVE  /\ TNet /\ TDb /\ TMem /\ TIn /\ TWork /\ THist /\ Written /\ Counted
           /\ \A x \in Workers : job[x] \in Job /\ Holds(x)
           /\ \A x \in Workers : job[x].r \in Rumors /\ job[x].view \subseteq Texts /\ job[x].edits \subseteq Edits
           /\ clock \in 1..MaxClock /\ signed \in [Rumors -> 0..MaxClock] /\ row \in [Rumors -> 0..MaxClock]
           /\ applied \in [Texts -> SUBSET Edits] /\ shown \subseteq Texts
  <1>1. TNet /\ TDb /\ TMem /\ TIn /\ TWork /\ THist /\ Written /\ Counted
    BY TypeParts DEF Typed
  <1>2. \A x \in Workers : job[x] \in Job /\ Holds(x)
    BY <1>1 DEF TWork, Typed
  <1>3. \A x \in Workers : job[x].r \in Rumors /\ job[x].view \subseteq Texts /\ job[x].edits \subseteq Edits
    BY <1>2 DEF Job
  <1>4. QED  BY <1>1, <1>2, <1>3 DEF TNet, TDb, TMem

LEMMA DeliverStep ==
    ASSUME Typed, NEW x \in Intake, NEW w \in Wraps, Deliver(x, w)
    PROVE  /\ UNCHANGED Data
           /\ \/ UNCHANGED workVars
              \/ \E p \in {"exists", "saveEdit"}, j \in Job :
                    /\ pc[x] = "idle" /\ Moves(x, p, j) /\ signed[j.r] > cutoff
                    /\ j.view = {} /\ j.edits = {}
  <1>1. UNCHANGED Data /\ pc[x] = "idle"
    BY DEF Deliver, Data, memVars, historyVars
  <1>2. CASE UNCHANGED workVars
    BY <1>1, <1>2
  <1>3. ASSUME ~(UNCHANGED workVars)
        PROVE  \E p \in {"exists", "saveEdit"}, j \in Job :
                    /\ pc[x] = "idle" /\ Moves(x, p, j) /\ signed[j.r] > cutoff
                    /\ j.view = {} /\ j.edits = {}
    <2>0. TWork /\ clock \in 0..MaxClock /\ x \in Workers /\ w[1] \in Rumors
      <3>1. TWork /\ clock \in 1..MaxClock
        BY TypedFacts
      <3>2. QED  BY <3>1, Basics
    <2>1. ~Refused(w[1])
      BY <1>3 DEF Deliver
    <2>2. signed[w[1]] > cutoff
      <3>1. signed[w[1]] \in Int /\ cutoff \in Int
        BY <2>0, TypedFacts DEF TDb, TNet, None
      <3>2. QED  BY <2>1, <3>1 DEF Refused
    <2>3. CASE GoWith(x, "exists", [NoJob EXCEPT !.r = w[1], !.w = w])
      <3> DEFINE j == [NoJob EXCEPT !.r = w[1], !.w = w]
      <3>1. j \in Job /\ j.r = w[1] /\ j.view = {} /\ j.edits = {}
        BY <2>0, Basics DEF Job
      <3>2. GoWith(x, "exists", j) /\ "exists" \in Pcs
        BY <2>3 DEF Pcs
      <3> HIDE DEF j
      <3>3. Moves(x, "exists", j)
        BY <2>0, <3>1, <3>2, GoWithNext DEF Moves
      <3>4. QED  BY <1>1, <2>2, <3>1, <3>3
    <2>4. CASE GoWith(x, "saveEdit", [NoJob EXCEPT !.r = w[1], !.w = w, !.at = clock])
      <3> DEFINE j == [NoJob EXCEPT !.r = w[1], !.w = w, !.at = clock]
      <3>1. j \in Job /\ j.r = w[1] /\ j.view = {} /\ j.edits = {}
        BY <2>0, Basics DEF Job
      <3>2. GoWith(x, "saveEdit", j) /\ "saveEdit" \in Pcs
        BY <2>4 DEF Pcs
      <3> HIDE DEF j
      <3>3. Moves(x, "saveEdit", j)
        BY <2>0, <3>1, <3>2, GoWithNext DEF Moves
      <3>4. QED  BY <1>1, <2>2, <3>1, <3>3
    <2>5. QED  BY <1>3, <2>3, <2>4 DEF Deliver
  <1>4. QED  BY <1>1, <1>2, <1>3

LEMMA ExistsStep ==
    ASSUME Typed, NEW x \in Workers, Exists(x)
    PROVE  /\ UNCHANGED Data /\ pc[x] = "exists"
           /\ \E p \in {"heal", "add"} : Moves(x, p, job[x]) /\ (p = "heal" => row[job[x].r] > 0)
  <1> DEFINE p == IF row[job[x].r] > 0 THEN "heal" ELSE "add"
  <1>1. UNCHANGED Data /\ pc[x] = "exists" /\ Go(x, p)
    BY DEF Exists, Data, netVars, dbVars, memVars, historyVars
  <1>2. p \in {"heal", "add"} /\ p \in Pcs /\ (p = "heal" => row[job[x].r] > 0)
    BY DEF Pcs
  <1> HIDE DEF p
  <1>3. Moves(x, p, job[x])
    BY <1>1, <1>2, GoNext, TypedFacts DEF Moves
  <1>4. QED  BY <1>1, <1>2, <1>3

LEMMA HealStep ==
    ASSUME Typed, NEW x \in Workers, Heal(x)
    PROVE  /\ UNCHANGED <<mine, signed, row, cutoff, applied, granted, excused, spared>>
           /\ shown' = shown \cup {job[x].r} /\ pc[x] = "heal" /\ Moves(x, "read", job[x]) /\ job[x].r \in Texts
  <1>1. /\ UNCHANGED <<mine, signed, row, cutoff, applied, granted, excused, spared>>
        /\ shown' = shown \cup {job[x].r} /\ pc[x] = "heal" /\ Go(x, "read") /\ "read" \in Pcs
    BY DEF Heal, AddToState, netVars, historyVars, Pcs
  <1>2. QED  BY <1>1, GoNext, TypedFacts DEF Moves, Holds, TextPcs

LEMMA AddStep ==
    ASSUME Typed, NEW x \in Workers, Add(x)
    PROVE  /\ UNCHANGED <<mine, signed, row, cutoff, applied, granted, excused, spared>>
           /\ shown' = shown \cup {job[x].r} /\ pc[x] = "add" /\ job[x].r \in Texts
           /\ \/ job[x].r \in shown /\ Moves(x, "idle", NoJob)
              \/ job[x].r \notin shown /\ Moves(x, "persist", job[x])
  <1>1. /\ UNCHANGED <<mine, signed, row, cutoff, applied, granted, excused, spared>>
        /\ shown' = shown \cup {job[x].r} /\ pc[x] = "add" /\ "persist" \in Pcs
        /\ \/ job[x].r \in shown /\ End(x)
           \/ job[x].r \notin shown /\ Go(x, "persist")
    BY DEF Add, AddToState, Handled, netVars, dbVars, historyVars, Pcs
  <1>2. TWork /\ job[x].r \in Texts
    BY <1>1, TypedFacts DEF Holds, TextPcs
  <1>3. CASE job[x].r \in shown /\ End(x)
    BY <1>1, <1>2, <1>3, EndNext DEF Moves
  <1>4. CASE job[x].r \notin shown /\ Go(x, "persist")
    BY <1>1, <1>2, <1>4, GoNext DEF Moves
  <1>5. QED  BY <1>1, <1>3, <1>4

LEMMA StoresRow ==
    ASSUME Typed, NEW r \in Rumors, NEW at \in 1..MaxClock, NEW w, save_event(r, at, w)
    PROVE  Stores(r)
  BY Saved, TypedFacts DEF Stores

LEMMA PersistStep ==
    ASSUME Typed, NEW x \in Workers, Persist(x)
    PROVE  /\ UNCHANGED <<mine, signed, cutoff, shown, applied, excused, spared>> /\ Stores(job[x].r)
           /\ pc[x] = "persist" /\ Moves(x, "read", job[x]) /\ job[x].r \in Texts /\ signed[job[x].r] > 0
           /\ \/ row' = [row EXCEPT ![job[x].r] = clock] /\ row[job[x].r] = 0
              \/ row' = row /\ row[job[x].r] > 0
  <1>1. /\ UNCHANGED <<mine, signed, cutoff, shown, applied, excused, spared>>
        /\ pc[x] = "persist" /\ Go(x, "read") /\ "read" \in Pcs
    BY DEF Persist, netVars, memVars, Pcs
  <1>2. job[x].r \in Texts /\ job[x].r \in Rumors /\ signed[job[x].r] > 0 /\ clock \in 1..MaxClock
    BY <1>1, TypedFacts DEF Holds, TextPcs, HasRumor
  <1>3. PICK w : save_event(job[x].r, clock, w)
    BY DEF Persist
  <1>4. Stores(job[x].r)
    BY <1>2, <1>3, StoresRow
  <1>5. \/ row' = [row EXCEPT ![job[x].r] = clock] /\ row[job[x].r] = 0
        \/ row' = row /\ row[job[x].r] > 0
    <2>1. row[job[x].r] \in Nat
      BY <1>2, TypedFacts
    <2>2. QED  BY <1>2, <1>3, <2>1, Saved, TypedFacts
  <1>6. Moves(x, "read", job[x])
    BY <1>1, GoNext, TypedFacts DEF Moves
  <1>7. QED  BY <1>1, <1>2, <1>4, <1>5, <1>6

LEMMA SaveEditStep ==
    ASSUME Typed, NEW x \in Workers, SaveEdit(x)
    PROVE  /\ UNCHANGED <<mine, signed, cutoff, shown, applied, excused, spared>>
           /\ pc[x] = "saveEdit" /\ job[x].r \in Edits /\ signed[job[x].r] > 0
           /\ \/ Moves(x, "read", job[x]) /\ Stores(job[x].r)
                 /\ \/ row' = [row EXCEPT ![job[x].r] = job[x].at] /\ row[job[x].r] = 0
                    \/ row' = row /\ row[job[x].r] > 0
              \/ Moves(x, "idle", NoJob) /\ UNCHANGED Data
  <1>1. /\ UNCHANGED <<mine, signed, cutoff, shown, applied, excused, spared>>
        /\ pc[x] = "saveEdit" /\ "read" \in Pcs
        /\ \/ save_event(job[x].r, job[x].at, {job[x].w}) /\ Go(x, "read")
           \/ End(x) /\ UNCHANGED <<row, granted>>
    BY DEF SaveEdit, Handled, netVars, memVars, Pcs
  <1>2. job[x].r \in Edits /\ job[x].r \in Rumors /\ signed[job[x].r] > 0 /\ job[x].at \in 1..MaxClock /\ TWork
    BY <1>1, TypedFacts DEF Holds, EditPcs, HasRumor, Job
  <1>3. CASE save_event(job[x].r, job[x].at, {job[x].w}) /\ Go(x, "read")
    <2>1. Stores(job[x].r)
      BY <1>2, <1>3, StoresRow
    <2>2. \/ row' = [row EXCEPT ![job[x].r] = job[x].at] /\ row[job[x].r] = 0
          \/ row' = row /\ row[job[x].r] > 0
      <3>1. row[job[x].r] \in Nat
        BY <1>2, TypedFacts
      <3>2. QED  BY <1>2, <1>3, <3>1, Saved, TypedFacts
    <2>3. QED  BY <1>1, <1>2, <1>3, <2>1, <2>2, GoNext DEF Moves
  <1>4. CASE End(x) /\ UNCHANGED <<row, granted>>
    BY <1>1, <1>2, <1>4, EndNext DEF Moves, Data
  <1>5. QED  BY <1>1, <1>3, <1>4

LEMMA MergedMoves ==
    ASSUME Typed, NEW x \in Workers, Merged(x)
    PROVE  Moves(x, "idle", NoJob) \/ Moves(x, "selfWrap", job[x])
  <1>1. TWork /\ "selfWrap" \in Pcs
    BY TypedFacts DEF Pcs
  <1>2. CASE ~(x \in Commands /\ job[x].r \in Texts)
    BY <1>1, <1>2, EndNext DEF Merged, Handled, Moves
  <1>3. CASE x \in Commands /\ job[x].r \in Texts
    BY <1>1, <1>3, GoNext DEF Merged, Moves
  <1>4. QED  BY <1>2, <1>3

LEMMA ReadStep ==
    ASSUME Typed, NEW x \in Workers, ReconcileRead(x)
    PROVE  /\ UNCHANGED Data /\ pc[x] = "read"
           /\ \/ authorized_edits(TextOf(job[x].r), row) = {}
                 /\ (Moves(x, "idle", NoJob) \/ Moves(x, "selfWrap", job[x]))
              \/ \E j \in Job : /\ Moves(x, "apply", j) /\ j.r = job[x].r /\ j.view = job[x].view
                                /\ j.edits = authorized_edits(TextOf(job[x].r), row)
  <1> DEFINE es == authorized_edits(TextOf(job[x].r), row)
  <1>1. /\ UNCHANGED Data /\ pc[x] = "read" /\ "apply" \in Pcs
        /\ \/ es = {} /\ Merged(x)
           \/ GoWith(x, "apply", [job[x] EXCEPT !.edits = es])
    BY DEF ReconcileRead, Data, netVars, dbVars, memVars, historyVars, Pcs
  <1>2. es \in SUBSET Edits
    BY DEF authorized_edits, EditsOf
  <1> HIDE DEF es
  <1>3. CASE es = {} /\ Merged(x)
    BY <1>1, <1>3, MergedMoves DEF es
  <1>4. CASE GoWith(x, "apply", [job[x] EXCEPT !.edits = es])
    <2> DEFINE j == [job[x] EXCEPT !.edits = es]
    <2>1. j \in Job /\ j.r = job[x].r /\ j.view = job[x].view /\ j.edits = es
      BY <1>2, TypedFacts DEF Job
    <2>2. GoWith(x, "apply", j)
      BY <1>4
    <2> HIDE DEF j
    <2>3. Moves(x, "apply", j)
      BY <1>1, <2>1, <2>2, GoWithNext, TypedFacts DEF Moves
    <2>4. QED  BY <1>1, <2>1, <2>3 DEF es
  <1>5. QED  BY <1>1, <1>3, <1>4

\* What Merge leaves of the screen.
Merges(t, es) ==
    \A u \in Texts : applied'[u] = IF u = t /\ t \in shown THEN applied[u] \cup es ELSE applied[u]

LEMMA MergeStep ==
    ASSUME Typed, NEW t \in Texts, NEW r, NEW es, Merge(t, r, es)
    PROVE  Merges(t, es)
  <1>1. applied \in [Texts -> SUBSET Edits]
    BY TypedFacts
  <1>2. QED  BY <1>1 DEF Merge, Merges

LEMMA ApplyStep ==
    ASSUME Typed, NEW x \in Workers, ReconcileApply(x)
    PROVE  /\ UNCHANGED <<mine, signed, row, cutoff, shown, granted, excused, spared>> /\ pc[x] = "apply"
           /\ Merges(TextOf(job[x].r), job[x].edits)
           /\ Moves(x, "idle", NoJob) \/ Moves(x, "selfWrap", job[x])
  <1>1. /\ UNCHANGED <<mine, signed, row, cutoff, shown, granted, excused, spared>> /\ pc[x] = "apply"
        /\ Merge(TextOf(job[x].r), job[x].r, job[x].edits) /\ Merged(x)
    BY DEF ReconcileApply, netVars, dbVars, historyVars
  <1>2. TextOf(job[x].r) \in Texts
    BY Basics, TypedFacts
  <1>3. QED  BY <1>1, <1>2, MergedMoves, MergeStep

LEMMA TimeOutStep ==
    ASSUME Typed, NEW x \in Intake, TimeOut(x)
    PROVE  /\ UNCHANGED <<mine, signed, row, cutoff, shown, applied, granted, spared>>
           /\ pc[x] # "idle" /\ Moves(x, "idle", NoJob)
           /\ excused' = excused \cup {<<TextOf(job[x].r), "abandoned">>}
           /\ pc[x] \in IntakePcs
  <1>1. /\ UNCHANGED <<mine, signed, row, cutoff, shown, applied, granted, spared>>
        /\ pc[x] # "idle" /\ End(x) /\ excused' = excused \cup {<<TextOf(job[x].w[1]), "abandoned">>}
    BY DEF TimeOut, netVars, memVars
  <1>2. job[x].w[1] = job[x].r /\ x \in Workers /\ TWork /\ pc[x] \in IntakePcs
    BY <1>1, Basics, TypedFacts DEF Holds
  <1>3. QED  BY <1>1, <1>2, EndNext DEF Moves

\* A rumor the user writes.
Signs(r) == signed[r] = 0 /\ signed' = [signed EXCEPT ![r] = clock]

LEMMA WriteSteps ==
    ASSUME Typed, NEW c \in Commands, NEW r \in Rumors, (r \in Texts /\ SendStart(c, r)) \/ (r \in Edits /\ EditStart(c, r))
    PROVE  /\ UNCHANGED <<mine, row, cutoff, shown, applied, granted, excused>> /\ Signs(r)
           /\ pc[c] = "idle" /\ spared \subseteq spared' /\ (clock <= cutoff => r \in spared')
           /\ \E p \in {"publish", "editPublish"}, j \in Job :
                 Moves(c, p, j) /\ j.r = r /\ j.view = {} /\ j.edits = {}
  <1>0. c \in Workers /\ TWork /\ clock \in 0..MaxClock /\ {"publish", "editPublish"} \subseteq Pcs
    <2>1. clock \in 1..MaxClock /\ TWork
      BY TypedFacts
    <2>2. QED  BY <2>1, Basics DEF Pcs
  <1>1. /\ UNCHANGED <<mine, row, cutoff, shown, applied, granted, excused>> /\ Signs(r) /\ pc[c] = "idle"
        /\ spared' = IF clock <= cutoff THEN spared \cup {r} ELSE spared
    BY DEF SendStart, EditStart, Begin, SpareNew, Signs, dbVars, memVars
  <1>2. spared \subseteq spared' /\ (clock <= cutoff => r \in spared')
    BY <1>1
  <1>3. CASE GoWith(c, "publish", [NoJob EXCEPT !.r = r, !.w = <<r, 1>>])
    <2> DEFINE j == [NoJob EXCEPT !.r = r, !.w = <<r, 1>>]
    <2>1. j \in Job /\ j.r = r /\ j.view = {} /\ j.edits = {}
      BY Basics DEF Job
    <2>2. GoWith(c, "publish", j)
      BY <1>3
    <2> HIDE DEF j
    <2>3. Moves(c, "publish", j)
      BY <1>0, <2>1, <2>2, GoWithNext DEF Moves
    <2>4. QED  BY <1>1, <1>2, <2>1, <2>3
  <1>4. CASE GoWith(c, "editPublish", [NoJob EXCEPT !.r = r, !.w = <<r, 1>>, !.at = clock])
    <2> DEFINE j == [NoJob EXCEPT !.r = r, !.w = <<r, 1>>, !.at = clock]
    <2>1. j \in Job /\ j.r = r /\ j.view = {} /\ j.edits = {}
      BY <1>0, Basics DEF Job
    <2>2. GoWith(c, "editPublish", j)
      BY <1>4
    <2> HIDE DEF j
    <2>3. Moves(c, "editPublish", j)
      BY <1>0, <2>1, <2>2, GoWithNext DEF Moves
    <2>4. QED  BY <1>1, <1>2, <2>1, <2>3
  <1>5. QED  BY <1>3, <1>4 DEF SendStart, EditStart

LEMMA SendAckStep ==
    ASSUME Typed, NEW c \in Workers, SendAck(c)
    PROVE  /\ UNCHANGED <<mine, signed, row, cutoff, applied, granted, excused, spared>>
           /\ pc[c] = "publish" /\ job[c].r \in Texts
           /\ \/ shown' = shown \cup {job[c].r} /\ Moves(c, "saveChat", job[c])
              \/ shown' = shown /\ Moves(c, "selfWrap", job[c])
  <1>1. /\ UNCHANGED <<mine, signed, row, cutoff, applied, granted, excused, spared>>
        /\ pc[c] = "publish" /\ {"saveChat", "selfWrap"} \subseteq Pcs
        /\ \/ shown' = shown \cup {job[c].r} /\ Go(c, "saveChat")
           \/ shown' = shown /\ Go(c, "selfWrap")
    BY DEF SendAck, netVars, dbVars, historyVars, Pcs
  <1>2. job[c].r \in Texts /\ TWork
    BY <1>1, TypedFacts DEF Holds, TextPcs
  <1>3. QED  BY <1>1, <1>2, GoNext DEF Moves

\* Steps of a command that only concern the network, and the start of a page.
LEMMA QuietSteps ==
    ASSUME Typed, NEW c \in Workers, SendFail(c) \/ SendWrap(c) \/ EditPublish(c)
    PROVE  /\ UNCHANGED Data /\ pc[c] \in {"publish", "selfWrap", "editPublish"}
           /\ \/ Moves(c, "idle", NoJob)
              \/ pc[c] = "editPublish" /\ Moves(c, "editSave", job[c])
  <1>1. /\ UNCHANGED Data /\ pc[c] \in {"publish", "selfWrap", "editPublish"} /\ "editSave" \in Pcs
        /\ End(c) \/ (pc[c] = "editPublish" /\ Go(c, "editSave"))
    BY DEF SendFail, SendWrap, EditPublish, SelfWrap, Data, netVars, dbVars, memVars, historyVars, Pcs
  <1>2. TWork
    BY TypedFacts
  <1>3. QED  BY <1>1, <1>2, GoNext, EndNext DEF Moves

LEMMA EditSaveStep ==
    ASSUME Typed, NEW c \in Workers, EditSave(c)
    PROVE  /\ UNCHANGED <<mine, signed, cutoff, shown, applied, excused, spared>> /\ Stores(job[c].r)
           /\ pc[c] = "editSave" /\ Moves(c, "editCheck", job[c]) /\ job[c].r \in Edits /\ signed[job[c].r] > 0
           /\ \/ row' = [row EXCEPT ![job[c].r] = job[c].at] /\ row[job[c].r] = 0
              \/ row' = row /\ row[job[c].r] > 0
  <1>1. /\ UNCHANGED <<mine, signed, cutoff, shown, applied, excused, spared>>
        /\ pc[c] = "editSave" /\ Go(c, "editCheck") /\ "editCheck" \in Pcs /\ save_event(job[c].r, job[c].at, {})
    BY DEF EditSave, netVars, memVars, Pcs
  <1>2. job[c].r \in Edits /\ job[c].r \in Rumors /\ signed[job[c].r] > 0 /\ job[c].at \in 1..MaxClock /\ TWork
    BY <1>1, TypedFacts DEF Holds, EditPcs, HasRumor, Job
  <1>3. Stores(job[c].r)
    BY <1>1, <1>2, StoresRow
  <1>4. \/ row' = [row EXCEPT ![job[c].r] = job[c].at] /\ row[job[c].r] = 0
        \/ row' = row /\ row[job[c].r] > 0
    <2>1. row[job[c].r] \in Nat
      BY <1>2, TypedFacts
    <2>2. QED  BY <1>1, <1>2, <2>1, Saved, TypedFacts
  <1>5. QED  BY <1>1, <1>2, <1>3, <1>4, GoNext DEF Moves

LEMMA SaveChatStep ==
    ASSUME Typed, NEW x \in Workers, SaveChat(x)
    PROVE  UNCHANGED Data /\ pc[x] = "saveChat" /\ Moves(x, "persist", job[x]) /\ job[x].r \in Texts
  <1>1. UNCHANGED Data /\ pc[x] = "saveChat" /\ Go(x, "persist") /\ "persist" \in Pcs
    BY DEF SaveChat, Data, netVars, memVars, historyVars, Pcs
  <1>2. QED  BY <1>1, GoNext, TypedFacts DEF Moves, Holds, TextPcs

LEMMA EditCheckStep ==
    ASSUME Typed, NEW c \in Workers, EditCheck(c)
    PROVE  /\ UNCHANGED Data /\ pc[c] = "editCheck" /\ job[c].r \in Edits
           /\ \/ job[c].r \notin authorized_edits(Of[job[c].r], row) /\ Moves(c, "idle", NoJob)
              \/ \E j \in Job : /\ job[c].r \in authorized_edits(Of[job[c].r], row) /\ Moves(c, "apply", j)
                                /\ j.r = job[c].r /\ j.view = job[c].view /\ j.edits = {job[c].r}
  <1>1. /\ UNCHANGED Data /\ pc[c] = "editCheck" /\ "apply" \in Pcs
        /\ \/ job[c].r \notin authorized_edits(Of[job[c].r], row) /\ End(c)
           \/ /\ job[c].r \in authorized_edits(Of[job[c].r], row)
              /\ GoWith(c, "apply", [job[c] EXCEPT !.edits = {job[c].r}])
    BY DEF EditCheck, Data, netVars, dbVars, memVars, historyVars, Pcs
  <1>2. job[c].r \in Edits /\ {job[c].r} \in SUBSET Edits /\ TWork
    BY <1>1, TypedFacts DEF Holds, EditPcs
  <1>3. CASE job[c].r \notin authorized_edits(Of[job[c].r], row) /\ End(c)
    BY <1>1, <1>2, <1>3, EndNext DEF Moves
  <1>4. CASE /\ job[c].r \in authorized_edits(Of[job[c].r], row)
             /\ GoWith(c, "apply", [job[c] EXCEPT !.edits = {job[c].r}])
    <2> DEFINE j == [job[c] EXCEPT !.edits = {job[c].r}]
    <2>1. j \in Job /\ j.r = job[c].r /\ j.view = job[c].view /\ j.edits = {job[c].r}
      BY <1>2, TypedFacts DEF Job
    <2>2. GoWith(c, "apply", j)
      BY <1>4
    <2> HIDE DEF j
    <2>3. Moves(c, "apply", j)
      BY <1>1, <1>2, <2>1, <2>2, GoWithNext DEF Moves
    <2>4. QED  BY <1>1, <1>2, <1>4, <2>1, <2>3
  <1>5. QED  BY <1>1, <1>3, <1>4

\* A failed database call: the worker goes on, or it stops and its text is excused, or the
\* deletion ends and spares everything.
Stumbles(x) ==
    /\ UNCHANGED Data
    /\ \/ pc[x] = "exists" /\ Moves(x, "add", job[x])
       \/ pc[x] = "saveChat" /\ Moves(x, "persist", job[x])
       \/ pc[x] \in {"saveEdit", "editSave"} /\ Moves(x, "idle", NoJob)
GivesUp(x) ==
    /\ UNCHANGED <<mine, signed, row, cutoff, shown, applied, granted, spared>>
    /\ pc[x] \in {"persist", "read", "editCheck"}
    /\ Moves(x, "idle", NoJob) \/ Moves(x, "selfWrap", job[x])
    /\ \/ excused' = excused \cup {<<TextOf(job[x].r), "unmerged">>} /\ (pc[x] = "persist" => row[job[x].r] > 0)
       \/ excused' = excused \cup {<<TextOf(job[x].r), "unsaved">>} /\ pc[x] = "persist" /\ row[job[x].r] = 0
Undeleted(x) ==
    /\ UNCHANGED <<mine, signed, cutoff, shown, applied, granted, excused>>
    /\ pc[x] = "deleteRows" /\ Moves(x, "idle", NoJob) /\ spared' = Rumors
    /\ row' = row \/ row' = NoRows

LEMMA DbErrorStep ==
    ASSUME Typed, NEW x \in Workers, DbError(x)
    PROVE  Stumbles(x) \/ GivesUp(x) \/ Undeleted(x)
  <1>0. TWork /\ {"add", "persist"} \subseteq Pcs /\ row \in [Rumors -> 0..MaxClock] /\ job[x].r \in Rumors
    BY TypedFacts DEF Pcs
  <1>1. UNCHANGED <<mine, signed, cutoff, shown, applied, granted>>
    BY DEF DbError, netVars, memVars
  <1>2. CASE /\ UNCHANGED <<row, excused, spared>>
             /\ (pc[x] = "exists" /\ Go(x, "add")) \/ (pc[x] = "saveChat" /\ Go(x, "persist"))
    BY <1>0, <1>1, <1>2, GoNext DEF Stumbles, Moves, Data
  <1>3. CASE UNCHANGED <<row, excused, spared>> /\ pc[x] \in {"saveEdit", "editSave"} /\ End(x)
    BY <1>0, <1>1, <1>3, EndNext DEF Stumbles, Moves, Data
  <1>4. CASE /\ UNCHANGED <<row, spared>> /\ pc[x] \in {"persist", "read", "editCheck"} /\ Merged(x)
             /\ \/ pc[x] = "persist" /\ Excuse(x, IF row[job[x].r] = 0 THEN "unsaved" ELSE "unmerged")
                \/ pc[x] # "persist" /\ Excuse(x, "unmerged")
    <2>1. Moves(x, "idle", NoJob) \/ Moves(x, "selfWrap", job[x])
      BY <1>4, MergedMoves
    <2>2. \/ excused' = excused \cup {<<TextOf(job[x].r), "unmerged">>} /\ (pc[x] = "persist" => row[job[x].r] > 0)
          \/ excused' = excused \cup {<<TextOf(job[x].r), "unsaved">>} /\ pc[x] = "persist" /\ row[job[x].r] = 0
      <3>1. row[job[x].r] \in Nat
        BY <1>0
      <3>2. CASE row[job[x].r] = 0
        BY <1>4, <3>2 DEF Excuse
      <3>3. CASE row[job[x].r] # 0
        BY <1>4, <3>1, <3>3 DEF Excuse
      <3>4. QED  BY <3>2, <3>3
    <2>3. QED  BY <1>1, <1>4, <2>1, <2>2 DEF GivesUp
  <1>5. CASE pc[x] = "deleteRows" /\ End(x) /\ spared' = Rumors /\ excused' = excused /\ (row' = row \/ row' = NoRows)
    BY <1>0, <1>1, <1>5, EndNext DEF Undeleted, Moves
  <1>6. QED  BY <1>2, <1>3, <1>4, <1>5 DEF DbError, Handled

LEMMA LoadStartStep ==
    ASSUME Typed, NEW c \in Commands, LoadStart(c)
    PROVE  /\ UNCHANGED Data /\ pc[c] = "idle"
           /\ \E j \in Job : /\ Moves(c, "loadAdd", j) /\ \A t \in j.view : t \in Texts /\ row[t] > 0
                             /\ \A e \in j.edits : \E t \in j.view : e \in authorized_edits(t, row)
  <1>0. c \in Workers /\ TWork /\ "loadAdd" \in Pcs
    BY Basics, TypedFacts DEF Pcs
  <1>1. UNCHANGED Data /\ pc[c] = "idle"
    BY DEF LoadStart, Begin, Data, netVars, dbVars, memVars, historyVars
  <1>2. PICK page \in SUBSET {t \in Texts : row[t] > 0} :
           GoWith(c, "loadAdd", [NoJob EXCEPT !.view = page,
                                              !.edits = UNION {authorized_edits(t, row) : t \in page}])
    BY DEF LoadStart
  <1> DEFINE es == UNION {authorized_edits(t, row) : t \in page}
             j == [NoJob EXCEPT !.view = page, !.edits = es]
  <1>3. es \in SUBSET Edits /\ \A e \in es : \E t \in page : e \in authorized_edits(t, row)
    BY DEF authorized_edits, EditsOf
  <1> HIDE DEF es
  <1>4. j \in Job /\ j.view = page /\ j.edits = es
    BY <1>3, Basics DEF Job
  <1>5. GoWith(c, "loadAdd", j)
    BY <1>2 DEF es
  <1> HIDE DEF j
  <1>6. Moves(c, "loadAdd", j)
    BY <1>0, <1>4, <1>5, GoWithNext DEF Moves
  <1>7. QED  BY <1>1, <1>3, <1>4, <1>6

LEMMA LoadAddStep ==
    ASSUME Typed, NEW c \in Workers, LoadAdd(c)
    PROVE  /\ UNCHANGED <<mine, signed, row, cutoff, granted, spared>> /\ pc[c] = "loadAdd" /\ Moves(c, "idle", NoJob)
           /\ excused \subseteq excused'
           /\ \E page \in SUBSET (job[c].view \ shown) :
                /\ shown' = shown \cup page
                /\ \A t \in Texts : applied'[t] = IF t \in page THEN job[c].edits \cap EditsOf(t) ELSE applied[t]
                /\ \A t \in page : \/ authorized_edits(t, row) = job[c].edits \cap EditsOf(t)
                                   \/ <<t, "overtaken">> \in excused'
  <1> DEFINE page == IF chatMem THEN job[c].view \ shown ELSE {}
  <1>1. /\ UNCHANGED <<mine, signed, row, cutoff, granted, spared>> /\ pc[c] = "loadAdd" /\ End(c)
        /\ shown' = shown \cup page
        /\ applied' = [t \in Texts |-> IF t \in page THEN job[c].edits \cap EditsOf(t) ELSE applied[t]]
        /\ excused' = excused \cup {<<t, "overtaken">> :
                      t \in {u \in page : authorized_edits(u, row) # job[c].edits \cap EditsOf(u)}}
    BY DEF LoadAdd, netVars, dbVars
  <1>2. page \in SUBSET (job[c].view \ shown)
    OBVIOUS
  <1> HIDE DEF page
  <1>3. \A t \in page : \/ authorized_edits(t, row) = job[c].edits \cap EditsOf(t)
                        \/ <<t, "overtaken">> \in excused'
    BY <1>1
  <1>4. Moves(c, "idle", NoJob)
    BY <1>1, EndNext, TypedFacts DEF Moves
  <1>5. /\ excused \subseteq excused'
        /\ \A t \in Texts : applied'[t] = IF t \in page THEN job[c].edits \cap EditsOf(t) ELSE applied[t]
    BY <1>1
  <1>6. QED  BY <1>1, <1>2, <1>3, <1>4, <1>5

LEMMA EvictStep ==
    ASSUME Evict
    PROVE  /\ UNCHANGED <<mine, signed, row, cutoff, granted, excused, spared>> /\ UNCHANGED workVars
           /\ shown' \subseteq shown
           /\ \A t \in Texts : (t \in shown' => applied'[t] = applied[t])
                               /\ (t \notin shown' => applied'[t] = applied[t] \/ applied'[t] = {})
                               /\ (t \in shown /\ t \notin shown' => applied'[t] = {})
  <1>1. UNCHANGED <<mine, signed, row, cutoff, granted, excused, spared>> /\ UNCHANGED workVars
    BY DEF Evict, netVars, dbVars, historyVars
  <1>2. PICK old : /\ shown' = shown \ old
                   /\ applied' = [t \in Texts |-> IF t \in old THEN {} ELSE applied[t]]
    BY DEF Evict
  <1>3. QED  BY <1>1, <1>2

LEMMA DeleteStartStep ==
    ASSUME Typed, NEW c \in Commands, DeleteStart(c)
    PROVE  /\ UNCHANGED <<mine, signed, row, shown, applied, granted, excused>> /\ pc[c] = "idle"
           /\ cutoff' = clock /\ spared' = InFlight /\ Moves(c, "deleteRows", job[c])
  <1>0. c \in Workers /\ "deleteRows" \in Pcs
    BY Basics DEF Pcs
  <1>1. /\ UNCHANGED <<mine, signed, row, shown, applied, granted, excused>> /\ pc[c] = "idle"
        /\ cutoff' = clock /\ spared' = InFlight /\ Go(c, "deleteRows")
    BY DEF DeleteStart, Begin, netVars, memVars
  <1>2. QED  BY <1>0, <1>1, GoNext, TypedFacts DEF Moves

LEMMA DeleteRowsStep ==
    ASSUME Typed, NEW c \in Workers, DeleteRows(c)
    PROVE  /\ UNCHANGED <<mine, signed, cutoff, shown, applied, granted, excused>> /\ pc[c] = "deleteRows"
           /\ row' = NoRows /\ spared' = spared \cup InFlight /\ Moves(c, "deleteState", job[c])
  <1>1. /\ UNCHANGED <<mine, signed, cutoff, shown, applied, granted, excused>> /\ pc[c] = "deleteRows"
        /\ row' = NoRows /\ spared' = spared \cup InFlight /\ Go(c, "deleteState") /\ "deleteState" \in Pcs
    BY DEF DeleteRows, netVars, memVars, Pcs
  <1>2. QED  BY <1>1, GoNext, TypedFacts DEF Moves

LEMMA DeleteStateStep ==
    ASSUME Typed, NEW c \in Workers, DeleteState(c)
    PROVE  /\ UNCHANGED <<mine, signed, row, cutoff, granted, excused, spared>> /\ pc[c] = "deleteState"
           /\ shown' = {} /\ (\A t \in Texts : applied'[t] = {}) /\ Moves(c, "idle", NoJob)
  <1>1. /\ UNCHANGED <<mine, signed, row, cutoff, granted, excused, spared>> /\ pc[c] = "deleteState"
        /\ shown' = {} /\ applied' = [t \in Texts |-> {}] /\ End(c)
    BY DEF DeleteState, drop_dm_chat_from_state, netVars, dbVars, historyVars
  <1>2. QED  BY <1>1, EndNext, TypedFacts DEF Moves

LEMMA RestartStep ==
    ASSUME Typed, Restart
    PROVE  /\ UNCHANGED <<mine, signed, row, cutoff, granted>>
           /\ \A x \in Workers : pc'[x] = "idle" /\ job'[x] = NoJob
           /\ shown' \subseteq {t \in Texts : row[t] > 0}
           /\ applied' = [t \in Texts |-> IF t \in shown' THEN authorized_edits(t, row) ELSE {}]
           /\ \/ spared' = spared /\ \A c \in Commands : pc[c] # "deleteRows"
              \/ spared' = {r \in Rumors : row[r] > 0}
  <1>1. /\ UNCHANGED <<mine, signed, row, cutoff, granted>>
        /\ pc' = [x \in Workers |-> "idle"] /\ job' = [x \in Workers |-> NoJob]
        /\ \/ spared' = spared /\ \A c \in Commands : pc[c] # "deleteRows"
           \/ spared' = {r \in Rumors : row[r] > 0}
    BY DEF Restart, netVars, dbVars
  <1>2. PICK new \in SUBSET {t \in Texts : row[t] > 0} :
             /\ shown' = new
             /\ applied' = [t \in Texts |-> IF t \in new THEN authorized_edits(t, row) ELSE {}]
    BY DEF Restart
  <1>3. QED  BY <1>1, <1>2

\* Steps outside the chat.
LEMMA AsideSteps ==
    ASSUME Typed, (UNCHANGED vars) \/ Tick \/ Block
    PROVE  UNCHANGED Data /\ UNCHANGED workVars
  BY DEF vars, Tick, Block, Data, netVars, dbVars, memVars, historyVars

LEMMA PublishStep ==
    ASSUME Typed, NEW r \in Rumors, NEW k \in 1..Copies, Publish(r, k)
    PROVE  /\ UNCHANGED <<mine, row, cutoff, shown, applied, granted, excused, spared>> /\ UNCHANGED workVars
           /\ signed' = signed \/ Signs(r)
  <1>1. /\ UNCHANGED <<mine, row, cutoff, shown, applied, granted, excused, spared>> /\ UNCHANGED workVars
        /\ IF k = 1 THEN signed[r] = 0 ELSE TRUE
        /\ signed' = [signed EXCEPT ![r] = IF k = 1 THEN clock ELSE signed[r]]
    BY DEF Publish, dbVars, memVars, historyVars
  <1>2. signed \in [Rumors -> 0..MaxClock]
    BY TypedFacts
  <1>3. CASE k = 1
    BY <1>1, <1>3 DEF Signs
  <1>4. CASE k # 1
    BY <1>1, <1>2, <1>4
  <1>5. QED  BY <1>1, <1>3, <1>4

-----------------------------------------------------------------------------
(* Which edits are authorised, and the refinement of EditLedger. *)

\* Stamps never change, so an authorised edit stays so while its rows do.
LEMMA AuthGrow ==
    ASSUME Typed, mine' = mine, \A r \in Rumors : signed[r] > 0 => signed'[r] = signed[r],
           \A r \in Rumors : row[r] > 0 => row'[r] = row[r], NEW t \in Texts, NEW e \in authorized_edits(t, row)
    PROVE  e \in authorized_edits(t, row)'
  <1>1. e \in Edits /\ Of[e] = t /\ e \in Rumors /\ t \in Rumors /\ row[t] > 0 /\ row[e] > 0
    BY DEF authorized_edits, EditsOf, edit_received_in_time, Rumors
  <1>2. signed[t] > 0 /\ signed[e] > 0
    BY <1>1, TypedFacts DEF Written
  <1>3. signed'[t] = signed[t] /\ signed'[e] = signed[e] /\ row'[t] = row[t] /\ row'[e] = row[e]
    BY <1>1, <1>2
  <1>4. QED  BY <1>1, <1>3 DEF authorized_edits, EditsOf, edit_received_in_time, edit_is_authorized

LEMMA AuthSame ==
    ASSUME Typed, mine' = mine, \A r \in Rumors : signed[r] > 0 => signed'[r] = signed[r],
           NEW t \in Texts, \A r \in {t} \cup EditsOf(t) : row'[r] = row[r]
    PROVE  authorized_edits(t, row)' = authorized_edits(t, row)
  <1>0. t \in Rumors /\ \A e \in EditsOf(t) : e \in Edits /\ Of[e] = t /\ e \in Rumors
    BY DEF EditsOf, Rumors
  <1>1. \A r \in Rumors : row[r] > 0 => signed[r] > 0
    BY TypedFacts DEF Written
  <1>2. ASSUME NEW e \in EditsOf(t), row[t] > 0, row[e] > 0
        PROVE  edit_is_authorized(e)' <=> edit_is_authorized(e)
    <2>1. signed'[t] = signed[t] /\ signed'[e] = signed[e] /\ Of[e] = t
      BY <1>0, <1>1, <1>2
    <2>2. QED  BY <2>1 DEF edit_is_authorized
  <1>3. \A e \in EditsOf(t) : edit_received_in_time(row'[t], row'[e]) <=> edit_received_in_time(row[t], row[e])
    BY <1>0
  <1>4. \A e \in EditsOf(t) : edit_received_in_time(row[t], row[e]) => row[t] > 0 /\ row[e] > 0
    BY DEF edit_received_in_time
  <1>5. QED  BY <1>2, <1>3, <1>4 DEF authorized_edits, EditsOf

\* Storing a row authorises only the edit stored, or edits of the text stored.
LEMMA AuthStored ==
    ASSUME Typed, NEW r \in Rumors, Stores(r), UNCHANGED <<mine, signed>>, NEW t \in Texts
    PROVE  /\ authorized_edits(t, row) \subseteq authorized_edits(t, row)'
           /\ \A e \in authorized_edits(t, row)' : e \in authorized_edits(t, row) \/ r = t \/ r = e
           /\ TextOf(r) # t => authorized_edits(t, row)' = authorized_edits(t, row)
  <1>0. row \in [Rumors -> 0..MaxClock]
    BY TypedFacts
  <1>1. \A q \in Rumors : row[q] > 0 => row'[q] = row[q]
    BY <1>0 DEF Stores
  <1>2. authorized_edits(t, row) \subseteq authorized_edits(t, row)'
    BY <1>1, AuthGrow
  <1>3. ASSUME NEW e \in authorized_edits(t, row)', r # t, r # e
        PROVE  e \in authorized_edits(t, row)
    <2>1. e \in EditsOf(t) /\ e \in Rumors /\ t \in Rumors
      BY <1>3 DEF authorized_edits, EditsOf, Rumors
    <2>2. row'[t] = row[t] /\ row'[e] = row[e]
      BY <1>3, <2>1 DEF Stores
    <2>3. QED  BY <1>3, <2>1, <2>2 DEF authorized_edits, edit_is_authorized
  <1>4. TextOf(r) # t => r # t /\ \A e \in EditsOf(t) : r # e
    BY Basics DEF EditsOf, TextOf
  <1>5. authorized_edits(t, row)' \subseteq EditsOf(t)
    BY DEF authorized_edits, EditsOf
  <1>6. QED  BY <1>2, <1>3, <1>4, <1>5

\* What the store authorises has been granted; what is on the screen, or was read for it, too.
Permitted == \A t \in Texts : authorized_edits(t, row) \subseteq granted
Screen ==
    /\ \A t \in Texts : applied[t] \subseteq granted \cap EditsOf(t) /\ (t \notin shown => applied[t] = {})
    /\ \A x \in Workers : /\ job[x].edits \subseteq granted
                          /\ pc[x] = "apply" => job[x].edits \subseteq EditsOf(TextOf(job[x].r))

LEMMA PermittedKept ==
    ASSUME Typed, Permitted, mine' = mine, \A r \in Rumors : signed[r] > 0 => signed'[r] = signed[r],
           row' = row, granted' = granted
    PROVE  Permitted'
  <1>1. \A t \in Texts : authorized_edits(t, row)' = authorized_edits(t, row)
    BY AuthSame
  <1>2. QED  BY <1>1 DEF Permitted

LEMMA SignsKeep ==
    ASSUME Typed, NEW r \in Rumors, Signs(r)
    PROVE  \A q \in Rumors : signed[q] > 0 => signed'[q] = signed[q]
  BY TypedFacts DEF Signs

\* Every step, by what it does to the ledger.
Signing == /\ \E r \in Rumors : Signs(r)
           /\ UNCHANGED <<mine, row, shown, applied, granted>>
Storing == /\ \E r \in Rumors : Stores(r) /\ signed[r] > 0 /\ (row' = row \/ row[r] = 0)
           /\ UNCHANGED <<mine, signed, shown, applied>>
Showing == UNCHANGED <<mine, signed, row, granted>>
Clearing == row' = NoRows /\ UNCHANGED <<mine, signed, shown, applied, granted>>

LEMMA Kinds ==
    ASSUME Typed, [Next]_vars
    PROVE  Signing \/ Storing \/ Showing \/ Clearing
  <1>1. CASE (UNCHANGED vars) \/ Tick \/ Block
    BY <1>1, AsideSteps DEF Data, Showing
  <1>2. ASSUME NEW r \in Rumors, NEW k \in 1..Copies, Publish(r, k)  PROVE  Signing \/ Showing
    BY <1>2, PublishStep DEF Signing, Showing
  <1>3. ASSUME NEW x \in Intake, NEW w \in Wraps, Deliver(x, w)  PROVE  Showing
    BY <1>3, DeliverStep DEF Data, Showing
  <1>4. ASSUME NEW x \in Workers, Exists(x) \/ Heal(x) \/ Add(x) \/ ReconcileRead(x) \/ ReconcileApply(x)
                                  \/ SaveChat(x) \/ SendAck(x) \/ SendFail(x) \/ SendWrap(x) \/ EditPublish(x)
                                  \/ EditCheck(x) \/ LoadAdd(x) \/ DeleteState(x)
        PROVE  Showing
    BY <1>4, ExistsStep, HealStep, AddStep, ReadStep, ApplyStep, SaveChatStep, SendAckStep, QuietSteps,
       EditCheckStep, LoadAddStep, DeleteStateStep DEF Data, Showing
  <1>5. ASSUME NEW x \in Workers, Persist(x) \/ SaveEdit(x) \/ EditSave(x)  PROVE  Storing \/ Showing
    <2>1. job[x].r \in Rumors
      BY TypedFacts
    <2>2. QED  BY <1>5, <2>1, PersistStep, SaveEditStep, EditSaveStep DEF Data, Storing, Showing
  <1>6. ASSUME NEW x \in Intake, TimeOut(x)  PROVE  Showing
    BY <1>6, TimeOutStep DEF Showing
  <1>7. ASSUME NEW c \in Commands, NEW r \in Rumors,
               (r \in Texts /\ SendStart(c, r)) \/ (r \in Edits /\ EditStart(c, r))
        PROVE  Signing
    BY <1>7, WriteSteps DEF Signing
  <1>8. ASSUME NEW c \in Commands, LoadStart(c) \/ DeleteStart(c)  PROVE  Showing
    BY <1>8, LoadStartStep, DeleteStartStep DEF Data, Showing
  <1>9. CASE Evict
    BY <1>9, EvictStep DEF Showing
  <1>10. CASE Restart
    BY <1>10, RestartStep DEF Showing
  <1>11. ASSUME NEW c \in Workers, DeleteRows(c)  PROVE  Clearing
    BY <1>11, DeleteRowsStep DEF Clearing
  <1>12. ASSUME NEW x \in Workers, DbError(x)  PROVE  Showing \/ Clearing
    BY <1>12, DbErrorStep DEF Stumbles, GivesUp, Undeleted, Data, Showing, Clearing
  <1>13. QED
    BY <1>1, <1>2, <1>3, <1>4, <1>5, <1>6, <1>7, <1>8, <1>9, <1>10, <1>11, <1>12, Basics DEF Next, Handle

LEMMA PermittedStep ==
    ASSUME Typed, Permitted, [Next]_vars
    PROVE  Permitted' /\ granted \subseteq granted'
  <1>1. CASE Signing
    BY <1>1, PermittedKept, SignsKeep DEF Signing
  <1>2. CASE Storing
    <2>1. /\ granted' = granted \cup UNION {authorized_edits(t, row') : t \in Texts}
          /\ UNCHANGED <<mine, signed>>
      BY <1>2 DEF Storing, Stores
    <2>2. \A t \in Texts : authorized_edits(t, row)' = authorized_edits(t, row')
      BY <2>1 DEF authorized_edits, edit_is_authorized
    <2>3. QED  BY <2>1, <2>2 DEF Permitted
  <1>3. CASE Showing
    BY <1>3, PermittedKept DEF Showing
  <1>4. CASE Clearing
    <2>1. \A t \in Texts : authorized_edits(t, row)' = {}
      <3>1. \A t \in Texts : row'[t] = 0
        BY <1>4, Basics DEF Clearing, NoRows
      <3>2. QED  BY <3>1 DEF authorized_edits, edit_received_in_time
    <2>2. QED  BY <1>4, <2>1 DEF Permitted, Clearing
  <1>5. QED  BY <1>1, <1>2, <1>3, <1>4, Kinds

\* The screen and the reads behind it, for a step of one worker.
LEMMA ScreenWorker ==
    ASSUME Typed, Screen, NEW x \in Workers, Others(x), granted \subseteq granted',
           \A t \in Texts : applied'[t] \subseteq granted' \cap EditsOf(t) /\ (t \notin shown' => applied'[t] = {}),
           job'[x].edits \subseteq granted',
           pc'[x] = "apply" => job'[x].edits \subseteq EditsOf(TextOf(job'[x].r))
    PROVE  Screen'
  <1>1. ASSUME NEW y \in Workers
        PROVE  /\ job'[y].edits \subseteq granted'
               /\ pc'[y] = "apply" => job'[y].edits \subseteq EditsOf(TextOf(job'[y].r))
    BY <1>1 DEF Others, Screen
  <1>2. QED  BY <1>1 DEF Screen, EditsOf, TextOf

LEMMA ScreenStep ==
    ASSUME Typed, Permitted, Screen, [Next]_vars
    PROVE  Screen'
  <1>0. granted \subseteq granted'
    BY PermittedStep
  <1>a. /\ \A t \in Texts : applied[t] \subseteq granted \cap EditsOf(t) /\ (t \notin shown => applied[t] = {})
        /\ \A y \in Workers : job[y].edits \subseteq granted
    BY DEF Screen
  <1>b. NoJob.edits = {}
    BY Basics
  <1>c. ASSUME UNCHANGED applied, shown \subseteq shown'
        PROVE  \A t \in Texts : applied'[t] \subseteq granted' \cap EditsOf(t) /\ (t \notin shown' => applied'[t] = {})
    BY <1>0, <1>a, <1>c
  <1>d. ASSUME NEW x \in Workers, Others(x), UNCHANGED applied, shown \subseteq shown', pc'[x] # "apply",
               job'[x] = job[x] \/ job'[x].edits = {}
        PROVE  Screen'
    BY <1>0, <1>a, <1>c, <1>d, ScreenWorker
  <1>e. ASSUME UNCHANGED workVars,
               \A t \in Texts : applied'[t] \subseteq granted' \cap EditsOf(t) /\ (t \notin shown' => applied'[t] = {})
        PROVE  Screen'
    <2>1. \A y \in Workers : pc'[y] = pc[y] /\ job'[y] = job[y]
      BY <1>e DEF workVars
    <2>2. QED  BY <1>0, <1>e, <2>1 DEF Screen, EditsOf, TextOf
  <1>1. CASE (UNCHANGED vars) \/ Tick \/ Block
    <2>1. UNCHANGED <<applied, shown>> /\ UNCHANGED workVars
      BY <1>1, AsideSteps DEF Data
    <2>2. QED  BY <1>c, <1>e, <2>1
  <1>2. ASSUME NEW r \in Rumors, NEW k \in 1..Copies, Publish(r, k)  PROVE  Screen'
    BY <1>2, <1>c, <1>e, PublishStep
  <1>3. ASSUME NEW x \in Intake, NEW w \in Wraps, Deliver(x, w)  PROVE  Screen'
    <2>0. x \in Workers /\ UNCHANGED <<applied, shown>>
      BY <1>3, Basics, DeliverStep DEF Data
    <2>1. CASE UNCHANGED workVars
      BY <1>c, <1>e, <2>0, <2>1
    <2>2. CASE ~(UNCHANGED workVars)
      <3>1. Others(x) /\ pc'[x] # "apply" /\ job'[x].edits = {}
        BY <1>3, <2>2, DeliverStep DEF Moves
      <3>2. QED  BY <1>d, <2>0, <3>1
    <2>3. QED  BY <2>1, <2>2
  <1>4. ASSUME NEW x \in Workers, Exists(x) \/ Heal(x) \/ Add(x) \/ Persist(x) \/ SaveEdit(x) \/ EditSave(x)
                                  \/ SaveChat(x) \/ SendAck(x) \/ SendFail(x) \/ SendWrap(x) \/ EditPublish(x)
                                  \/ DbError(x)
        PROVE  Screen'
    <2>1. /\ UNCHANGED applied /\ shown \subseteq shown' /\ Others(x) /\ pc'[x] # "apply"
          /\ job'[x] = job[x] \/ job'[x] = NoJob
      <3>1. CASE DbError(x)
        BY <3>1, DbErrorStep DEF Stumbles, GivesUp, Undeleted, Moves, Data
      <3>2. CASE ~DbError(x)
        BY <1>4, <3>2, ExistsStep, HealStep, AddStep, PersistStep, SaveEditStep, EditSaveStep, SaveChatStep,
           SendAckStep, QuietSteps DEF Moves, Data
      <3>3. QED  BY <3>1, <3>2
    <2>2. QED  BY <1>b, <1>d, <2>1
  <1>5. ASSUME NEW x \in Workers, ReconcileRead(x)  PROVE  Screen'
    <2> DEFINE t == TextOf(job[x].r)
    <2>0. UNCHANGED <<applied, shown, granted>>
      BY <1>5, ReadStep DEF Data
    <2>1. CASE Moves(x, "idle", NoJob) \/ Moves(x, "selfWrap", job[x])
      BY <1>b, <1>d, <2>0, <2>1 DEF Moves
    <2>2. ASSUME NEW j \in Job, Moves(x, "apply", j), j.r = job[x].r, j.edits = authorized_edits(t, row)
          PROVE  Screen'
      <3>1. t \in Texts /\ authorized_edits(t, row) \subseteq EditsOf(t)
        BY Basics, TypedFacts DEF authorized_edits
      <3>2. j.edits \subseteq granted' /\ j.edits \subseteq EditsOf(TextOf(j.r))
        BY <2>0, <2>2, <3>1 DEF Permitted
      <3>3. QED  BY <1>0, <1>c, <2>0, <2>2, <3>2, ScreenWorker DEF Moves
    <2>3. QED  BY <1>5, <2>1, <2>2, ReadStep
  <1>6. ASSUME NEW x \in Workers, ReconcileApply(x)  PROVE  Screen'
    <2> DEFINE t == TextOf(job[x].r)
    <2>1. /\ UNCHANGED <<shown, granted>> /\ pc[x] = "apply" /\ Merges(t, job[x].edits) /\ Others(x)
          /\ pc'[x] # "apply" /\ (job'[x] = NoJob \/ job'[x] = job[x])
      BY <1>6, ApplyStep DEF Moves
    <2>2. job[x].edits \subseteq granted /\ job[x].edits \subseteq EditsOf(t)
      BY <2>1 DEF Screen
    <2>3. \A u \in Texts : applied'[u] \subseteq granted' \cap EditsOf(u) /\ (u \notin shown' => applied'[u] = {})
      BY <1>a, <2>1, <2>2 DEF Merges
    <2>4. QED  BY <1>0, <1>a, <1>b, <2>1, <2>3, ScreenWorker
  <1>7. ASSUME NEW x \in Workers, EditCheck(x)  PROVE  Screen'
    <2>0. UNCHANGED <<applied, shown, granted>> /\ job[x].r \in Edits
      BY <1>7, EditCheckStep DEF Data
    <2>1. CASE Moves(x, "idle", NoJob)
      BY <1>b, <1>d, <2>0, <2>1 DEF Moves
    <2>2. ASSUME NEW j \in Job, job[x].r \in authorized_edits(Of[job[x].r], row), Moves(x, "apply", j), j.r = job[x].r,
                 j.edits = {job[x].r}
          PROVE  Screen'
      <3>1. Of[job[x].r] \in Texts /\ TextOf(j.r) = Of[job[x].r] /\ job[x].r \in EditsOf(Of[job[x].r])
        BY <2>0, <2>2, Basics DEF EditsOf
      <3>2. j.edits \subseteq granted' /\ j.edits \subseteq EditsOf(TextOf(j.r))
        BY <2>0, <2>2, <3>1 DEF Permitted
      <3>3. QED  BY <1>0, <1>c, <2>0, <2>2, <3>2, ScreenWorker DEF Moves
    <2>3. QED  BY <1>7, <2>1, <2>2, EditCheckStep
  <1>8. ASSUME NEW x \in Intake, TimeOut(x)  PROVE  Screen'
    BY <1>8, <1>b, <1>d, TimeOutStep, Basics DEF Moves
  <1>9. ASSUME NEW c \in Commands, NEW r \in Rumors,
               (r \in Texts /\ SendStart(c, r)) \/ (r \in Edits /\ EditStart(c, r))
        PROVE  Screen'
    <2>1. /\ UNCHANGED <<shown, applied>> /\ Others(c) /\ job'[c].edits = {} /\ pc'[c] # "apply" /\ c \in Workers
      BY <1>9, WriteSteps, Basics DEF Moves
    <2>2. QED  BY <1>d, <2>1
  <1>10. ASSUME NEW c \in Commands, LoadStart(c)  PROVE  Screen'
    <2>1. UNCHANGED <<applied, shown, granted>> /\ c \in Workers
      BY <1>10, LoadStartStep, Basics DEF Data
    <2>2. PICK j \in Job : /\ Moves(c, "loadAdd", j) /\ \A t \in j.view : t \in Texts
                           /\ \A e \in j.edits : \E t \in j.view : e \in authorized_edits(t, row)
      BY <1>10, LoadStartStep
    <2>3. j.edits \subseteq granted'
      BY <2>1, <2>2 DEF Permitted
    <2>4. QED  BY <1>0, <1>c, <2>1, <2>2, <2>3, ScreenWorker DEF Moves
  <1>11. ASSUME NEW c \in Workers, LoadAdd(c)  PROVE  Screen'
    <2>1. granted' = granted /\ Others(c) /\ pc'[c] = "idle" /\ job'[c] = NoJob
      BY <1>11, LoadAddStep DEF Moves
    <2>2. PICK page \in SUBSET (job[c].view \ shown) :
                /\ shown' = shown \cup page
                /\ \A t \in Texts : applied'[t] = IF t \in page THEN job[c].edits \cap EditsOf(t) ELSE applied[t]
      BY <1>11, LoadAddStep
    <2>3. \A u \in Texts : applied'[u] \subseteq granted' \cap EditsOf(u) /\ (u \notin shown' => applied'[u] = {})
      BY <1>a, <2>1, <2>2
    <2>4. QED  BY <1>0, <1>b, <2>1, <2>3, ScreenWorker
  <1>12. CASE Evict
    <2>1. \A u \in Texts : applied'[u] \subseteq granted' \cap EditsOf(u) /\ (u \notin shown' => applied'[u] = {})
      BY <1>0, <1>a, <1>12, EvictStep
    <2>2. QED  BY <1>e, <1>12, <2>1, EvictStep
  <1>13. ASSUME NEW c \in Commands, DeleteStart(c)  PROVE  Screen'
    BY <1>d, <1>13, DeleteStartStep, Basics DEF Moves
  <1>14. ASSUME NEW c \in Workers, DeleteRows(c)  PROVE  Screen'
    BY <1>d, <1>14, DeleteRowsStep DEF Moves
  <1>15. ASSUME NEW c \in Workers, DeleteState(c)  PROVE  Screen'
    BY <1>0, <1>b, <1>15, DeleteStateStep, ScreenWorker DEF Moves
  <1>16. CASE Restart
    <2>1. /\ UNCHANGED <<row, granted>> /\ \A x \in Workers : pc'[x] = "idle" /\ job'[x] = NoJob
          /\ applied' = [t \in Texts |-> IF t \in shown' THEN authorized_edits(t, row) ELSE {}]
      BY <1>16, RestartStep
    <2>2. \A t \in Texts : authorized_edits(t, row) \subseteq granted /\ authorized_edits(t, row) \subseteq EditsOf(t)
      BY DEF Permitted, authorized_edits
    <2>3. \A u \in Texts : applied'[u] \subseteq granted' \cap EditsOf(u) /\ (u \notin shown' => applied'[u] = {})
      BY <2>1, <2>2
    <2>4. QED  BY <1>b, <2>1, <2>3 DEF Screen, EditsOf
  <1>17. QED
    BY <1>1, <1>2, <1>3, <1>4, <1>5, <1>6, <1>7, <1>8, <1>9, <1>10, <1>11, <1>12, <1>13, <1>14, <1>15, <1>16,
       Basics DEF Next, Handle

LEMMA LedgerInvInit == Init => Permitted /\ Screen
  <1>1. SUFFICES ASSUME Init PROVE Permitted /\ Screen
    OBVIOUS
  <1>2. \A t \in Texts : row[t] = 0
    BY <1>1, Basics DEF Init, NoRows
  <1>3. Permitted
    BY <1>2 DEF Permitted, authorized_edits, edit_received_in_time
  <1>4. Screen
    BY <1>1, Basics DEF Init, Screen
  <1>5. QED  BY <1>3, <1>4

\* The store's authorised edits are the ledger's.
LEMMA SameEdits ==
    ASSUME NEW rows \in [Rumors -> 0..MaxClock]
    PROVE  /\ \A t \in Texts : authorized_edits(t, rows) = {e \in EditsOf(t) : Ledger!Authorized(e, signed, rows)}
           /\ UNION {authorized_edits(t, rows) : t \in Texts} = {e \in Edits : Ledger!Authorized(e, signed, rows)}
  <1>1. ASSUME NEW e \in Edits
        PROVE  Ledger!Authorized(e, signed, rows)
                  <=> edit_is_authorized(e) /\ edit_received_in_time(rows[Of[e]], rows[e])
    <2>1. rows[Of[e]] \in Int /\ rows[e] \in Int
      BY Basics
    <2>2. QED  BY <2>1 DEF Ledger!Authorized, edit_is_authorized, edit_received_in_time
  <1>2. \A t \in Texts : authorized_edits(t, rows) = {e \in EditsOf(t) : Ledger!Authorized(e, signed, rows)}
    BY <1>1 DEF authorized_edits, EditsOf
  <1>3. \A e \in Edits : e \in EditsOf(Of[e]) /\ Of[e] \in Texts
    BY Basics DEF EditsOf
  <1>4. \A t \in Texts : EditsOf(t) \subseteq Edits
    BY DEF EditsOf
  <1>5. QED  BY <1>2, <1>3, <1>4

LEMMA LedgerInit == Init => Ledger!Init
  BY DEF Init, Ledger!Init, NoRows, Rumors, Ledger!Rumors

LEMMA LedgerStep ==
    ASSUME Typed, Typed', Permitted, Screen, Screen', [Next]_vars
    PROVE  [Ledger!Next]_(Ledger!ledgerVars)
  <1>0. /\ shown' \subseteq Texts /\ clock \in 1..MaxClock /\ signed \in [Rumors -> 0..MaxClock]
        /\ row \in [Rumors -> 0..MaxClock] /\ applied \in [Texts -> SUBSET Edits]
    BY TypedFacts DEF Typed, TypeOK
  <1>1. CASE Signing
    <2>1. PICK r \in Rumors : Signs(r)
      BY <1>1 DEF Signing
    <2>2. signed[r] = 0 /\ signed'[r] \in Nat \ {0} /\ signed' = [signed EXCEPT ![r] = signed'[r]]
      BY <1>0, <2>1 DEF Signs
    <2>3. Ledger!Sign(r)
      BY <1>1, <2>2 DEF Signing, Ledger!Sign
    <2>4. QED  BY <2>3 DEF Ledger!Next, Ledger!Rumors, Rumors
  <1>2. CASE Storing
    <2>1. PICK r \in Rumors : Stores(r) /\ signed[r] > 0 /\ (row' = row \/ row[r] = 0)
      BY <1>2 DEF Storing
    <2>2. CASE row' = row
      <3>1. granted' = granted
        BY <2>1, <2>2 DEF Stores, Permitted
      <3>2. QED  BY <1>2, <2>2, <3>1 DEF Storing, Ledger!ledgerVars
    <2>3. CASE row[r] = 0
      <3>1. row'[r] \in Nat \ {0} /\ row' = [row EXCEPT ![r] = row'[r]] /\ row' \in [Rumors -> 0..MaxClock]
        BY <1>0, <2>1 DEF Stores
      <3>2. granted' = granted \cup {e \in Edits : Ledger!Authorized(e, signed, row')}
        BY <2>1, <3>1, SameEdits DEF Stores
      <3>3. Ledger!Store(r)
        BY <1>2, <2>1, <2>3, <3>1, <3>2 DEF Storing, Ledger!Store
      <3>4. QED  BY <3>3 DEF Ledger!Next, Ledger!Rumors, Rumors
    <2>4. QED  BY <2>1, <2>2, <2>3
  <1>3. CASE Clearing
    <2>1. Ledger!Purge
      BY <1>3 DEF Clearing, NoRows, Ledger!Purge, Rumors, Ledger!Rumors
    <2>2. QED  BY <2>1 DEF Ledger!Next
  <1>4. CASE Showing /\ Restart
    <2>1. /\ shown' \subseteq {t \in Texts : row[t] > 0}
          /\ applied' = [t \in Texts |-> IF t \in shown' THEN authorized_edits(t, row) ELSE {}]
      BY <1>4, RestartStep
    <2>2. \A t \in Texts : authorized_edits(t, row) = {e \in EditsOf(t) : Ledger!Authorized(e, signed, row)}
      BY <1>0, SameEdits
    <2>3. \A t \in Texts : (IF t \in shown' THEN authorized_edits(t, row) ELSE {})
                            = {e \in EditsOf(t) : t \in shown' /\ Ledger!Authorized(e, signed, row)}
      BY <2>2
    <2>4. applied' = [t \in Texts |-> {e \in Ledger!EditsOf(t) : t \in shown' /\ Ledger!Authorized(e, signed, row)}]
      BY <2>1, <2>3 DEF EditsOf, Ledger!EditsOf
    <2>5. Ledger!Reopen
      BY <1>4, <2>1, <2>4 DEF Showing, Ledger!Reopen
    <2>6. QED  BY <2>5 DEF Ledger!Next
  <1>5. CASE Showing /\ ~Restart
    <2>1. \A t \in Texts : t \in shown /\ t \in shown' => applied[t] \subseteq applied'[t]
      <3>1. CASE (UNCHANGED vars) \/ Tick \/ Block
        BY <3>1, AsideSteps DEF Data
      <3>2. ASSUME NEW r \in Rumors, NEW k \in 1..Copies, Publish(r, k)  PROVE  applied' = applied
        BY <3>2, PublishStep
      <3>3. ASSUME NEW x \in Intake, NEW w \in Wraps, Deliver(x, w)  PROVE  applied' = applied
        BY <3>3, DeliverStep DEF Data
      <3>4. ASSUME NEW x \in Workers, Exists(x) \/ Heal(x) \/ Add(x) \/ ReconcileRead(x) \/ Persist(x) \/ SaveEdit(x)
                      \/ EditSave(x) \/ EditCheck(x) \/ SaveChat(x) \/ SendAck(x) \/ SendFail(x) \/ SendWrap(x)
                      \/ EditPublish(x) \/ DeleteRows(x) \/ DbError(x)
            PROVE  applied' = applied
        <4>1. CASE DbError(x)
          BY <4>1, DbErrorStep DEF Stumbles, GivesUp, Undeleted, Data
        <4>2. CASE ~DbError(x)
          BY <3>4, <4>2, ExistsStep, HealStep, AddStep, ReadStep, PersistStep, SaveEditStep, EditSaveStep,
             EditCheckStep, SaveChatStep, SendAckStep, QuietSteps, DeleteRowsStep DEF Data
        <4>3. QED  BY <4>1, <4>2
      <3>5. ASSUME NEW x \in Workers, ReconcileApply(x)
            PROVE  \A t \in Texts : applied[t] \subseteq applied'[t]
        BY <3>5, ApplyStep DEF Merges
      <3>6. ASSUME NEW x \in Workers, LoadAdd(x)
            PROVE  \A t \in Texts : t \in shown => applied[t] \subseteq applied'[t]
        BY <3>6, LoadAddStep
      <3>7. ASSUME NEW x \in Workers, DeleteState(x)  PROVE  shown' = {}
        BY <3>7, DeleteStateStep
      <3>8. ASSUME NEW x \in Intake, TimeOut(x)  PROVE  applied' = applied
        BY <3>8, TimeOutStep
      <3>9. ASSUME NEW c \in Commands, NEW r \in Rumors,
                   (r \in Texts /\ SendStart(c, r)) \/ (r \in Edits /\ EditStart(c, r))
            PROVE  applied' = applied
        BY <3>9, WriteSteps
      <3>10. ASSUME NEW c \in Commands, LoadStart(c) \/ DeleteStart(c)  PROVE  applied' = applied
        BY <3>10, LoadStartStep, DeleteStartStep DEF Data
      <3>11. ASSUME Evict  PROVE  \A t \in Texts : t \in shown' => applied[t] \subseteq applied'[t]
        BY <3>11, EvictStep
      <3>12. QED
        BY <1>5, <3>1, <3>2, <3>3, <3>4, <3>5, <3>6, <3>7, <3>8, <3>9, <3>10, <3>11, Basics DEF Next, Handle
    <2>2. \A t \in Texts : /\ applied'[t] \subseteq granted \cap Ledger!EditsOf(t)
                           /\ t \notin shown' => applied'[t] = {}
      BY <1>5 DEF Screen, Showing, EditsOf, Ledger!EditsOf
    <2>3. Ledger!Display
      <3>1. \A t \in Texts : t \in shown \cap shown' => applied[t] \subseteq applied'[t]
        BY <2>1
      <3>2. UNCHANGED <<mine, signed, row, granted>>
        BY <1>5 DEF Showing
      <3>3. shown' \subseteq Texts
        BY <1>0
      <3>4. \A t \in Texts : /\ applied'[t] \subseteq granted \cap Ledger!EditsOf(t)
                             /\ t \notin shown' => applied'[t] = {}
                             /\ t \in shown \cap shown' => applied[t] \subseteq applied'[t]
        BY <2>2, <3>1
      <3>5. QED  BY <3>2, <3>3, <3>4 DEF Ledger!Display
    <2>4. QED  BY <2>3 DEF Ledger!Next
  <1>6. QED  BY <1>1, <1>2, <1>3, <1>4, <1>5, Kinds

-----------------------------------------------------------------------------
(* Deletion: what is stored at or before the cutoff was in flight. *)

\* The stamps and the rows that are set stay.
Kept == /\ \A r \in Rumors : signed[r] > 0 => signed'[r] = signed[r]
        /\ cutoff' = cutoff /\ spared \subseteq spared'

\* Unless the rows are about to be deleted, a row at or before the cutoff is spared; and so
\* is the rumor a worker is past the cutoff check with.
Cleared ==
    /\ (\A x \in Workers : pc[x] # "deleteRows") =>
            \A r \in Rumors : row[r] > 0 /\ signed[r] <= cutoff => r \in spared
    /\ \A x \in Workers : HasRumor(x) /\ signed[job[x].r] <= cutoff => job[x].r \in spared

LEMMA KeptSigns ==
    ASSUME Typed, NEW r \in Rumors, Signs(r), cutoff' = cutoff, spared \subseteq spared'
    PROVE  Kept /\ signed'[r] = clock
  BY TypedFacts DEF Kept, Signs

LEMMA ClearedWorker ==
    ASSUME Typed, Cleared, NEW x \in Workers, Others(x), Kept, pc[x] # "deleteRows",
           \A r \in Rumors : row'[r] > 0 => row[r] > 0 \/ (HasRumor(x) /\ r = job[x].r),
           \/ ~HasRumor(x)'
           \/ HasRumor(x) /\ job'[x].r = job[x].r
           \/ job'[x].r \in spared'
           \/ signed'[job'[x].r] > cutoff /\ signed'[job'[x].r] \in Int
    PROVE  Cleared'
  <1>0. /\ \A y \in Workers : job[y].r \in Rumors /\ (HasRumor(y) => signed[job[y].r] > 0)
        /\ \A r \in Rumors : row[r] > 0 => signed[r] > 0
        /\ cutoff \in Int
    BY TypedFacts DEF Holds, Written, TDb, None
  <1>1. \A y \in Workers : (HasRumor(y) /\ signed[job[y].r] <= cutoff)' => (job[y].r \in spared)'
    <2>1. ASSUME NEW y \in Workers, (HasRumor(y) /\ signed[job[y].r] <= cutoff)'  PROVE  (job[y].r \in spared)'
      <3>1. CASE y = x
        BY <1>0, <2>1, <3>1 DEF Cleared, Kept
      <3>2. CASE y # x
        <4>1. pc'[y] = pc[y] /\ job'[y] = job[y]
          BY <3>2 DEF Others
        <4>2. HasRumor(y) /\ signed[job[y].r] <= cutoff
          BY <1>0, <2>1, <4>1 DEF Kept, HasRumor
        <4>3. QED  BY <4>1, <4>2 DEF Cleared, Kept
      <3>3. QED  BY <3>1, <3>2
    <2>2. QED  BY <2>1
  <1>2. ASSUME \A y \in Workers : pc'[y] # "deleteRows", NEW r \in Rumors, row'[r] > 0, signed'[r] <= cutoff'
        PROVE  r \in spared'
    <2>1. \A y \in Workers : pc[y] # "deleteRows"
      BY <1>2 DEF Others
    <2>2. CASE row[r] > 0
      BY <1>0, <1>2, <2>1, <2>2 DEF Cleared, Kept
    <2>3. CASE HasRumor(x) /\ r = job[x].r
      BY <1>0, <1>2, <2>3 DEF Cleared, Kept
    <2>4. QED  BY <1>2, <2>2, <2>3
  <1>3. QED  BY <1>1, <1>2 DEF Cleared

LEMMA ClearedAside ==
    ASSUME Typed, Cleared, UNCHANGED workVars, row' = row, Kept
    PROVE  Cleared'
  <1>1. /\ \A y \in Workers : job[y].r \in Rumors /\ (HasRumor(y) => signed[job[y].r] > 0)
        /\ \A r \in Rumors : row[r] > 0 => signed[r] > 0
        /\ \A y \in Workers : HasRumor(y)' <=> HasRumor(y)
    BY TypedFacts DEF Holds, Written, HasRumor, workVars
  <1>2. QED  BY <1>1 DEF Cleared, Kept, workVars

\* The places of a worker where it holds a rumor.
LEMMA AtWork ==
    ASSUME NEW x \in Workers
    PROVE  /\ pc[x] \in Pcs => (HasRumor(x) <=> pc[x] \notin {"idle", "loadAdd", "deleteRows", "deleteState"})
           /\ pc'[x] \in {"idle", "loadAdd", "deleteRows", "deleteState"} => ~HasRumor(x)'
  BY DEF HasRumor

LEMMA ClearedStep ==
    ASSUME Typed, Cleared, [Next]_vars
    PROVE  Cleared'
  <1>0. /\ cutoff \in Int /\ signed \in [Rumors -> 0..MaxClock] /\ clock \in 1..MaxClock
        /\ \A y \in Workers : job[y].r \in Rumors
    BY TypedFacts DEF TDb, None
  <1>a. ASSUME UNCHANGED Data  PROVE  Kept /\ \A r \in Rumors : row'[r] > 0 => row[r] > 0
    BY <1>a DEF Data, Kept
  <1>b. ASSUME NEW r \in Rumors, Stores(r), UNCHANGED <<signed, cutoff, spared>>
        PROVE  Kept /\ \A q \in Rumors : row'[q] > 0 => row[q] > 0 \/ q = r
    BY <1>b DEF Stores, Kept
  <1>1. CASE (UNCHANGED vars) \/ Tick \/ Block
    <2>1. UNCHANGED Data /\ UNCHANGED workVars
      BY <1>1, AsideSteps
    <2>2. QED  BY <1>a, <2>1, ClearedAside DEF Data
  <1>2. ASSUME NEW r \in Rumors, NEW k \in 1..Copies, Publish(r, k)  PROVE  Cleared'
    <2>1. UNCHANGED <<row, cutoff, spared>> /\ UNCHANGED workVars /\ (signed' = signed \/ Signs(r))
      BY <1>2, PublishStep
    <2>2. Kept
      BY <2>1, KeptSigns DEF Kept
    <2>3. QED  BY <2>1, <2>2, ClearedAside
  <1>3. ASSUME NEW x \in Intake, NEW w \in Wraps, Deliver(x, w)  PROVE  Cleared'
    <2>0. x \in Workers /\ UNCHANGED Data
      BY <1>3, Basics, DeliverStep
    <2>1. CASE UNCHANGED workVars
      BY <1>a, <2>0, <2>1, ClearedAside DEF Data
    <2>2. CASE ~(UNCHANGED workVars)
      <3>1. PICK p \in {"exists", "saveEdit"}, j \in Job :
                    pc[x] = "idle" /\ Moves(x, p, j) /\ signed[j.r] > cutoff
        BY <1>3, <2>2, DeliverStep
      <3>2. signed'[job'[x].r] > cutoff /\ signed'[job'[x].r] \in Int
        <4>1. j.r \in Rumors
          BY DEF Job
        <4>2. QED  BY <1>0, <2>0, <3>1, <4>1 DEF Data, Moves
      <3>3. QED  BY <1>a, <2>0, <3>1, <3>2, ClearedWorker DEF Moves
    <2>3. QED  BY <2>1, <2>2
  <1>4. ASSUME NEW x \in Workers, Exists(x) \/ Heal(x) \/ Add(x) \/ ReconcileRead(x) \/ ReconcileApply(x) \/ SendAck(x)
                                  \/ SaveChat(x) \/ EditCheck(x) \/ Stumbles(x) \/ GivesUp(x)
        PROVE  Cleared'
    <2>1. /\ UNCHANGED <<signed, row, cutoff, spared>> /\ Others(x)
          /\ pc[x] \notin {"idle", "loadAdd", "deleteRows", "deleteState"}
          /\ pc'[x] = "idle" \/ job'[x].r = job[x].r
      <3>1. CASE Exists(x) \/ Heal(x) \/ Add(x) \/ ReconcileRead(x) \/ ReconcileApply(x)
        BY <3>1, ExistsStep, HealStep, AddStep, ReadStep, ApplyStep DEF Moves, Data
      <3>2. CASE SendAck(x) \/ SaveChat(x) \/ EditCheck(x) \/ Stumbles(x) \/ GivesUp(x)
        BY <3>2, SendAckStep, SaveChatStep, EditCheckStep DEF Stumbles, GivesUp, Moves, Data
      <3>3. QED  BY <1>4, <3>1, <3>2
    <2>2. HasRumor(x) /\ (pc'[x] = "idle" => ~HasRumor(x)')
      BY <2>1 DEF HasRumor
    <2>3. QED  BY <2>1, <2>2, ClearedWorker DEF Kept
  <1>5. ASSUME NEW x \in Workers, Persist(x) \/ SaveEdit(x) \/ EditSave(x)  PROVE  Cleared'
    <2>1. /\ UNCHANGED <<signed, cutoff, spared>> /\ Others(x) /\ pc[x] \in {"persist", "saveEdit", "editSave"}
          /\ Stores(job[x].r) \/ UNCHANGED Data
          /\ pc'[x] = "idle" \/ job'[x].r = job[x].r
      BY <1>5, PersistStep, SaveEditStep, EditSaveStep DEF Moves
    <2>2. HasRumor(x) /\ (pc'[x] = "idle" => ~HasRumor(x)')
      BY <2>1 DEF HasRumor
    <2>3. Kept /\ \A r \in Rumors : row'[r] > 0 => row[r] > 0 \/ (HasRumor(x) /\ r = job[x].r)
      BY <1>0, <1>a, <1>b, <2>1, <2>2
    <2>4. QED  BY <2>1, <2>2, <2>3, ClearedWorker
  <1>6. ASSUME NEW x \in Workers, SendFail(x) \/ SendWrap(x) \/ EditPublish(x)  PROVE  Cleared'
    <2>1. /\ UNCHANGED Data /\ Others(x) /\ pc[x] \in {"publish", "selfWrap", "editPublish"}
          /\ pc'[x] = "idle" \/ job'[x].r = job[x].r
      BY <1>6, QuietSteps DEF Moves
    <2>2. HasRumor(x) /\ (pc'[x] = "idle" => ~HasRumor(x)')
      BY <2>1 DEF HasRumor
    <2>3. QED  BY <1>a, <2>1, <2>2, ClearedWorker
  <1>7. ASSUME NEW x \in Workers, LoadAdd(x) \/ DeleteState(x)  PROVE  Cleared'
    <2>1. /\ UNCHANGED <<signed, row, cutoff, spared>> /\ Others(x) /\ pc'[x] = "idle" /\ pc[x] # "deleteRows"
      BY <1>7, LoadAddStep, DeleteStateStep DEF Moves
    <2>2. ~HasRumor(x)'
      BY <2>1 DEF HasRumor
    <2>3. QED  BY <2>1, <2>2, ClearedWorker DEF Kept
  <1>8. ASSUME NEW x \in Intake, TimeOut(x)  PROVE  Cleared'
    <2>1. /\ UNCHANGED <<signed, row, cutoff, spared>> /\ Others(x) /\ pc'[x] = "idle" /\ pc[x] # "deleteRows" /\ x \in Workers
      BY <1>8, TimeOutStep, Basics DEF Moves, IntakePcs
    <2>2. ~HasRumor(x)'
      BY <2>1 DEF HasRumor
    <2>3. QED  BY <2>1, <2>2, ClearedWorker DEF Kept
  <1>9. ASSUME NEW c \in Commands, NEW r \in Rumors,
               (r \in Texts /\ SendStart(c, r)) \/ (r \in Edits /\ EditStart(c, r))
        PROVE  Cleared'
    <2>1. /\ UNCHANGED <<row, cutoff>> /\ Signs(r) /\ pc[c] = "idle" /\ spared \subseteq spared'
          /\ (clock <= cutoff => r \in spared') /\ Others(c) /\ job'[c].r = r /\ c \in Workers
      BY <1>9, WriteSteps, Basics DEF Moves
    <2>2. Kept /\ signed'[r] = clock
      BY <2>1, KeptSigns
    <2>3. job'[c].r \in spared' \/ (signed'[job'[c].r] > cutoff /\ signed'[job'[c].r] \in Int)
      BY <1>0, <2>1, <2>2
    <2>4. QED  BY <2>1, <2>2, <2>3, ClearedWorker
  <1>10. ASSUME NEW c \in Commands, LoadStart(c)  PROVE  Cleared'
    <2>1. UNCHANGED Data /\ pc[c] = "idle" /\ Others(c) /\ pc'[c] = "loadAdd" /\ c \in Workers
      BY <1>10, LoadStartStep, Basics DEF Moves
    <2>2. ~HasRumor(c)'
      BY <2>1 DEF HasRumor
    <2>3. QED  BY <1>a, <2>1, <2>2, ClearedWorker
  <1>11. CASE Evict
    BY <1>11, EvictStep, ClearedAside DEF Kept
  <1>12. ASSUME NEW c \in Commands, DeleteStart(c)  PROVE  Cleared'
    <2>1. /\ signed' = signed /\ spared' = InFlight /\ pc'[c] = "deleteRows" /\ Others(c) /\ c \in Workers
      BY <1>12, DeleteStartStep, Basics DEF Moves
    <2>2. \A y \in Workers : HasRumor(y)' => HasRumor(y) /\ job'[y] = job[y]
      BY <2>1 DEF Others, HasRumor
    <2>3. \A y \in Workers : HasRumor(y) => job[y].r \in InFlight
      BY DEF InFlight
    <2>4. QED  BY <2>1, <2>2, <2>3 DEF Cleared
  <1>13. ASSUME NEW c \in Workers, DeleteRows(c)  PROVE  Cleared'
    <2>1. /\ signed' = signed /\ cutoff' = cutoff /\ spared \subseteq spared' /\ row' = NoRows
          /\ pc'[c] = "deleteState" /\ Others(c)
      BY <1>13, DeleteRowsStep DEF Moves
    <2>2. \A y \in Workers : HasRumor(y)' => HasRumor(y) /\ job'[y] = job[y]
      BY <2>1 DEF Others, HasRumor
    <2>3. \A r \in Rumors : row'[r] = 0
      BY <2>1 DEF NoRows
    <2>4. QED  BY <2>1, <2>2, <2>3 DEF Cleared
  <1>14. CASE Restart
    <2>1. /\ UNCHANGED <<signed, row, cutoff>> /\ \A x \in Workers : pc'[x] = "idle"
          /\ \/ spared' = spared /\ \A c \in Commands : pc[c] # "deleteRows"
             \/ spared' = {r \in Rumors : row[r] > 0}
      BY <1>14, RestartStep
    <2>2. \A x \in Workers : ~HasRumor(x)'
      BY <2>1 DEF HasRumor
    <2>3. \A x \in Intake : pc[x] # "deleteRows"
      BY Basics, TypedFacts DEF Holds, IntakePcs
    <2>4. QED  BY <2>1, <2>2, <2>3 DEF Cleared, Workers
  <1>15. ASSUME NEW x \in Workers, DbError(x)  PROVE  Cleared'
    <2>1. CASE Stumbles(x) \/ GivesUp(x)
      BY <1>4, <2>1
    <2>2. CASE Undeleted(x)
      <3>1. spared' = Rumors /\ pc'[x] = "idle" /\ Others(x)
        BY <2>2 DEF Undeleted, Moves
      <3>2. \A y \in Workers : HasRumor(y)' => job'[y].r \in Rumors
        BY <1>0, <3>1 DEF HasRumor, Others
      <3>3. QED  BY <3>1, <3>2 DEF Cleared
    <2>3. QED  BY <1>15, <2>1, <2>2, DbErrorStep
  <1>16. QED
    BY <1>1, <1>2, <1>3, <1>4, <1>5, <1>6, <1>7, <1>8, <1>9, <1>10, <1>11, <1>12, <1>13, <1>14, <1>15, Basics
    DEF Next, Handle

LEMMA ClearedInit == Init => Cleared
  BY DEF Init, Cleared, HasRumor, NoRows, None

-----------------------------------------------------------------------------
(* What is shown is stored, or on its way to the store. *)

Abandoned(t) == <<t, "abandoned">> \in excused
Unsaved(t) == <<t, "unsaved">> \in excused
\* The worker x is about to store its text.
Storer(x, t) == pc[x] \in {"saveChat", "persist"} /\ job[x].r = t

\* A text on the screen is stored, or some worker is about to store it; a page holds stored
\* texts, and so does a handler that found its text in the table.
Durable ==
    /\ \A t \in shown : \/ row[t] > 0 \/ t \in spared \/ Abandoned(t) \/ Unsaved(t) \/ Deleting
                        \/ \E x \in Workers : Storer(x, t)
    /\ \A x \in Workers : /\ \A t \in job[x].view : row[t] > 0 \/ t \in spared
                          /\ pc[x] = "heal" => row[job[x].r] > 0 \/ job[x].r \in spared

\* Rows, exceptions and deletions under way stay.
Stays == /\ \A r \in Rumors : row[r] > 0 => row'[r] > 0
         /\ spared \subseteq spared' /\ excused \subseteq excused'

LEMMA DurableWorker ==
    ASSUME Typed, Durable, NEW x \in Workers, Others(x), Stays,
           pc[x] \notin {"deleteRows", "deleteState"},
           pc[x] \in {"saveChat", "persist"} =>
              \/ row'[job[x].r] > 0
              \/ <<job[x].r, "abandoned">> \in excused' \/ <<job[x].r, "unsaved">> \in excused'
              \/ (pc'[x] = "persist" /\ job'[x] = job[x]),
           \A t \in shown' : t \in shown \/ row'[t] > 0 \/ t \in spared' \/ Storer(x, t)',
           \A t \in job'[x].view : row'[t] > 0 \/ t \in spared',
           pc'[x] = "heal" => row'[job'[x].r] > 0 \/ job'[x].r \in spared'
    PROVE  Durable'
  <1>0. shown \subseteq Rumors /\ \A y \in Workers : job[y].r \in Rumors /\ job[y].view \subseteq Rumors
    BY TypedFacts DEF Rumors
  <1>1. Deleting => Deleting'
    BY DEF Deleting, Others
  <1>2. ASSUME NEW t \in shown'
        PROVE  \/ row'[t] > 0 \/ t \in spared' \/ Abandoned(t)' \/ Unsaved(t)' \/ Deleting'
               \/ \E y \in Workers : Storer(y, t)'
    <2>1. CASE t \in shown
      <3>1. CASE row[t] > 0 \/ t \in spared \/ Abandoned(t) \/ Unsaved(t) \/ Deleting
        BY <1>0, <1>1, <2>1, <3>1 DEF Stays, Abandoned, Unsaved
      <3>2. ASSUME NEW y \in Workers, Storer(y, t)
            PROVE  \/ row'[t] > 0 \/ Abandoned(t)' \/ Unsaved(t)'
                   \/ \E z \in Workers : Storer(z, t)'
        <4>1. CASE y = x
          BY <3>2, <4>1 DEF Abandoned, Unsaved, Storer
        <4>2. CASE y # x
          BY <3>2, <4>2 DEF Others, Storer
        <4>3. QED  BY <4>1, <4>2
      <3>3. QED  BY <2>1, <3>1, <3>2 DEF Durable
    <2>2. CASE t \notin shown
      BY <1>2, <2>2
    <2>3. QED  BY <2>1, <2>2
  <1>3. ASSUME NEW y \in Workers
        PROVE  /\ \A t \in job'[y].view : row'[t] > 0 \/ t \in spared'
               /\ pc'[y] = "heal" => row'[job'[y].r] > 0 \/ job'[y].r \in spared'
    <2>1. CASE y = x
      BY <2>1
    <2>2. CASE y # x
      BY <1>0, <2>2 DEF Others, Durable, Stays
    <2>3. QED  BY <2>1, <2>2
  <1>4. QED  BY <1>2, <1>3 DEF Durable

LEMMA DurableAside ==
    ASSUME Typed, Durable, UNCHANGED workVars, UNCHANGED <<row, excused, spared>>, shown' \subseteq shown
    PROVE  Durable'
  <1>1. Deleting => Deleting'
    BY DEF Deleting, workVars
  <1>2. QED  BY <1>1 DEF Durable, Abandoned, Unsaved, Storer, workVars

LEMMA DurableStep ==
    ASSUME Typed, Durable, [Next]_vars
    PROVE  Durable'
  <1>0. shown \subseteq Rumors /\ \A y \in Workers : job[y].r \in Rumors /\ job[y].view \subseteq Rumors
    BY TypedFacts DEF Rumors
  <1>a. NoJob.view = {}
    BY Basics
  <1>b. \A y \in Workers : \A t \in job[y].view : row[t] > 0 \/ t \in spared
    BY DEF Durable
  <1>c. ASSUME NEW x \in Workers, Others(x), UNCHANGED <<row, shown, excused, spared>>,
               pc[x] \notin {"saveChat", "persist", "deleteRows", "deleteState"},
               job'[x].view \subseteq job[x].view, pc'[x] # "heal"
        PROVE  Durable'
    BY <1>b, <1>c, DurableWorker DEF Stays
  <1>1. CASE (UNCHANGED vars) \/ Tick \/ Block
    BY <1>1, AsideSteps, DurableAside DEF Data
  <1>2. ASSUME NEW r \in Rumors, NEW k \in 1..Copies, Publish(r, k)  PROVE  Durable'
    BY <1>2, PublishStep, DurableAside
  <1>3. ASSUME NEW x \in Intake, NEW w \in Wraps, Deliver(x, w)  PROVE  Durable'
    <2>0. x \in Workers /\ UNCHANGED <<row, shown, excused, spared>>
      BY <1>3, Basics, DeliverStep DEF Data
    <2>1. CASE UNCHANGED workVars
      BY <2>0, <2>1, DurableAside
    <2>2. CASE ~(UNCHANGED workVars)
      <3>1. pc[x] = "idle" /\ Others(x) /\ pc'[x] # "heal" /\ job'[x].view = {}
        BY <1>3, <2>2, DeliverStep DEF Moves
      <3>2. QED  BY <1>c, <2>0, <3>1
    <2>3. QED  BY <2>1, <2>2
  <1>4. ASSUME NEW x \in Workers, Exists(x)  PROVE  Durable'
    <2>1. /\ UNCHANGED <<row, shown, excused, spared>> /\ pc[x] = "exists" /\ Others(x) /\ job'[x] = job[x]
          /\ pc'[x] \in {"heal", "add"} /\ (pc'[x] = "heal" => row[job[x].r] > 0)
      BY <1>4, ExistsStep DEF Moves, Data
    <2>2. QED  BY <1>b, <2>1, DurableWorker DEF Stays
  <1>5. ASSUME NEW x \in Workers, Heal(x)  PROVE  Durable'
    <2>1. /\ UNCHANGED <<row, excused, spared>> /\ shown' = shown \cup {job[x].r} /\ pc[x] = "heal"
          /\ Others(x) /\ pc'[x] = "read" /\ job'[x] = job[x]
      BY <1>5, HealStep DEF Moves
    <2>2. row[job[x].r] > 0 \/ job[x].r \in spared
      BY <2>1 DEF Durable
    <2>3. QED  BY <1>b, <2>1, <2>2, DurableWorker DEF Stays
  <1>6. ASSUME NEW x \in Workers, Add(x)  PROVE  Durable'
    <2>1. /\ UNCHANGED <<row, excused, spared>> /\ shown' = shown \cup {job[x].r} /\ pc[x] = "add" /\ Others(x)
          /\ \/ job[x].r \in shown /\ pc'[x] = "idle" /\ job'[x] = NoJob
             \/ pc'[x] = "persist" /\ job'[x] = job[x]
      BY <1>6, AddStep DEF Moves
    <2>2. QED  BY <1>a, <1>b, <2>1, DurableWorker DEF Stays, Storer
  <1>7. ASSUME NEW x \in Workers, Persist(x) \/ SaveEdit(x) \/ EditSave(x)  PROVE  Durable'
    <2>1. /\ UNCHANGED <<shown, excused, spared>> /\ pc[x] \in {"persist", "saveEdit", "editSave"} /\ Others(x)
          /\ Stores(job[x].r) \/ (pc[x] # "persist" /\ UNCHANGED Data)
          /\ pc'[x] \in {"idle", "read", "editCheck"} /\ (job'[x] = job[x] \/ job'[x] = NoJob)
      BY <1>7, PersistStep, SaveEditStep, EditSaveStep DEF Moves
    <2>2. Stays /\ (pc[x] = "persist" => row'[job[x].r] > 0)
      BY <1>0, <2>1 DEF Stays, Stores, Data
    <2>3. \A t \in job'[x].view : row'[t] > 0 \/ t \in spared'
      BY <1>0, <1>a, <1>b, <2>1, <2>2 DEF Stays
    <2>4. QED  BY <2>1, <2>2, <2>3, DurableWorker
  <1>8. ASSUME NEW x \in Workers, ReconcileRead(x) \/ ReconcileApply(x) \/ SendFail(x) \/ SendWrap(x) \/ EditPublish(x)
                                  \/ EditCheck(x)
        PROVE  Durable'
    <2>1. /\ UNCHANGED <<row, shown, excused, spared>> /\ Others(x)
          /\ pc[x] \in {"read", "apply", "publish", "selfWrap", "editPublish", "editCheck"}
          /\ pc'[x] \in {"idle", "selfWrap", "apply", "editSave"}
          /\ job'[x].view = job[x].view \/ job'[x] = NoJob
      BY <1>8, ReadStep, ApplyStep, QuietSteps, EditCheckStep DEF Moves, Data
    <2>2. QED  BY <1>a, <1>c, <2>1
  <1>9. ASSUME NEW x \in Workers, SendAck(x)  PROVE  Durable'
    <2>1. /\ UNCHANGED <<row, excused, spared>> /\ Others(x) /\ pc[x] = "publish" /\ job'[x] = job[x]
          /\ \/ shown' = shown \cup {job[x].r} /\ pc'[x] = "saveChat"
             \/ shown' = shown /\ pc'[x] = "selfWrap"
      BY <1>9, SendAckStep DEF Moves
    <2>2. QED  BY <1>b, <2>1, DurableWorker DEF Stays, Storer
  <1>10. ASSUME NEW x \in Intake, TimeOut(x)  PROVE  Durable'
    <2>1. /\ UNCHANGED <<row, shown, spared>> /\ Others(x) /\ pc'[x] = "idle" /\ job'[x] = NoJob /\ x \in Workers
          /\ pc[x] \in IntakePcs /\ excused' = excused \cup {<<TextOf(job[x].r), "abandoned">>}
      BY <1>10, TimeOutStep, Basics DEF Moves
    <2>2. pc[x] = "persist" => TextOf(job[x].r) = job[x].r
      BY <2>1, TypedFacts, Basics DEF Holds, TextPcs
    <2>3. pc[x] = "persist" => <<job[x].r, "abandoned">> \in excused'
      BY <2>1, <2>2 DEF Abandoned
    <2>4. QED  BY <1>a, <2>1, <2>3, DurableWorker DEF Stays, IntakePcs
  <1>11. ASSUME NEW c \in Commands, NEW r \in Rumors,
                (r \in Texts /\ SendStart(c, r)) \/ (r \in Edits /\ EditStart(c, r))
         PROVE  Durable'
    <2>1. /\ UNCHANGED <<row, shown, excused>> /\ pc[c] = "idle" /\ spared \subseteq spared' /\ Others(c)
          /\ job'[c].view = {} /\ pc'[c] \in {"publish", "editPublish"} /\ c \in Workers
      BY <1>11, WriteSteps, Basics DEF Moves
    <2>2. QED  BY <2>1, DurableWorker DEF Stays
  <1>12. ASSUME NEW c \in Commands, LoadStart(c)  PROVE  Durable'
    <2>1. /\ UNCHANGED <<row, shown, excused, spared>> /\ pc[c] = "idle" /\ Others(c) /\ pc'[c] = "loadAdd"
          /\ c \in Workers /\ \A t \in job'[c].view : row[t] > 0
      BY <1>12, LoadStartStep, Basics DEF Moves, Data
    <2>2. QED  BY <2>1, DurableWorker DEF Stays
  <1>13. ASSUME NEW c \in Workers, LoadAdd(c)  PROVE  Durable'
    <2>1. /\ UNCHANGED <<row, spared>> /\ excused \subseteq excused' /\ pc[c] = "loadAdd" /\ Others(c)
          /\ pc'[c] = "idle" /\ job'[c] = NoJob /\ shown' \subseteq shown \cup job[c].view
      BY <1>13, LoadAddStep DEF Moves
    <2>2. QED  BY <1>a, <1>b, <2>1, DurableWorker DEF Stays
  <1>14. CASE Evict
    BY <1>14, EvictStep, DurableAside
  <1>15. ASSUME NEW c \in Commands, DeleteStart(c)  PROVE  Durable'
    <2>1. /\ spared' = InFlight /\ pc'[c] = "deleteRows" /\ job'[c] = job[c] /\ Others(c) /\ c \in Workers
      BY <1>15, DeleteStartStep, Basics DEF Moves
    <2>2. Deleting' /\ \A y \in Workers : job'[y] = job[y] /\ (pc'[y] = "heal" => HasRumor(y))
      BY <2>1 DEF Others, Deleting, HasRumor
    <2>3. \A y \in Workers : job[y].view \subseteq InFlight /\ (HasRumor(y) => job[y].r \in InFlight)
      BY DEF InFlight
    <2>4. QED  BY <2>1, <2>2, <2>3 DEF Durable
  <1>16. ASSUME NEW c \in Workers, DeleteRows(c)  PROVE  Durable'
    <2>1. /\ InFlight \subseteq spared' /\ pc'[c] = "deleteState" /\ job'[c] = job[c] /\ Others(c)
      BY <1>16, DeleteRowsStep DEF Moves
    <2>2. Deleting' /\ \A y \in Workers : job'[y] = job[y] /\ (pc'[y] = "heal" => HasRumor(y))
      BY <2>1 DEF Others, Deleting, HasRumor
    <2>3. \A y \in Workers : job[y].view \subseteq InFlight /\ (HasRumor(y) => job[y].r \in InFlight)
      BY DEF InFlight
    <2>4. QED  BY <2>1, <2>2, <2>3 DEF Durable
  <1>17. ASSUME NEW c \in Workers, DeleteState(c)  PROVE  Durable'
    <2>1. UNCHANGED <<row, spared>> /\ shown' = {} /\ pc'[c] = "idle" /\ job'[c] = NoJob /\ Others(c)
      BY <1>17, DeleteStateStep DEF Moves
    <2>2. QED  BY <1>a, <2>1 DEF Durable, Others
  <1>18. CASE Restart
    <2>1. /\ row' = row /\ shown' \subseteq {t \in Texts : row[t] > 0}
          /\ \A x \in Workers : pc'[x] = "idle" /\ job'[x] = NoJob
      BY <1>18, RestartStep
    <2>2. QED  BY <1>a, <2>1 DEF Durable
  <1>19. ASSUME NEW x \in Workers, SaveChat(x)  PROVE  Durable'
    <2>1. /\ UNCHANGED <<row, shown, excused, spared>> /\ Others(x) /\ pc[x] = "saveChat"
          /\ pc'[x] = "persist" /\ job'[x] = job[x]
      BY <1>19, SaveChatStep DEF Moves, Data
    <2>2. QED  BY <1>b, <2>1, DurableWorker DEF Stays
  <1>20. ASSUME NEW x \in Workers, DbError(x)  PROVE  Durable'
    <2>1. CASE Stumbles(x)
      <3>1. /\ UNCHANGED <<row, shown, excused, spared>> /\ Others(x)
            /\ pc[x] \in {"exists", "saveEdit", "editSave"} \/ (pc[x] = "saveChat" /\ pc'[x] = "persist" /\ job'[x] = job[x])
            /\ pc'[x] # "heal" /\ (job'[x] = job[x] \/ job'[x] = NoJob)
        BY <2>1 DEF Stumbles, Moves, Data
      <3>2. \A t \in job'[x].view : row'[t] > 0 \/ t \in spared'
        BY <1>a, <1>b, <3>1
      <3>3. QED  BY <3>1, <3>2, DurableWorker DEF Stays
    <2>2. CASE GivesUp(x)
      <3>1. /\ UNCHANGED <<row, shown, spared>> /\ Others(x) /\ pc[x] \in {"persist", "read", "editCheck"}
            /\ pc'[x] # "heal" /\ (job'[x] = job[x] \/ job'[x] = NoJob) /\ excused \subseteq excused'
            /\ pc[x] = "persist" => row[job[x].r] > 0 \/ <<TextOf(job[x].r), "unsaved">> \in excused'
        BY <2>2 DEF GivesUp, Moves
      <3>2. pc[x] = "persist" => TextOf(job[x].r) = job[x].r
        BY TypedFacts, Basics DEF Holds, TextPcs
      <3>3. pc[x] = "persist" => row'[job[x].r] > 0 \/ <<job[x].r, "unsaved">> \in excused'
        BY <3>1, <3>2
      <3>4. \A t \in job'[x].view : row'[t] > 0 \/ t \in spared'
        BY <1>a, <1>b, <3>1
      <3>5. QED  BY <3>1, <3>3, <3>4, DurableWorker DEF Stays
    <2>3. CASE Undeleted(x)
      <3>1. shown' = shown /\ spared' = Rumors /\ pc'[x] = "idle" /\ job'[x] = NoJob /\ Others(x)
        BY <2>3 DEF Undeleted, Moves
      <3>2. \A y \in Workers : job'[y].view \subseteq Rumors /\ (pc'[y] = "heal" => job'[y].r \in Rumors)
        BY <1>0, <1>a, <3>1 DEF Others
      <3>3. QED  BY <1>0, <3>1, <3>2 DEF Durable
    <2>4. QED  BY <1>20, <2>1, <2>2, <2>3, DbErrorStep
  <1>21. QED
    BY <1>1, <1>2, <1>3, <1>4, <1>5, <1>6, <1>7, <1>8, <1>9, <1>10, <1>11, <1>12, <1>13, <1>14, <1>15, <1>16,
       <1>17, <1>18, <1>19, <1>20, Basics DEF Next, Handle

LEMMA DurableInit == Init => Durable
  BY Basics DEF Init, Durable

LEMMA DurableShown ==
    ASSUME Typed, Durable
    PROVE  ShownIsDurable
  <1>1. ASSUME NEW t \in shown, AtRest(t)
        PROVE  row[t] > 0 \/ t \in spared \/ <<t, "abandoned">> \in excused \/ <<t, "unsaved">> \in excused
    <2>1. ~Deleting
      BY <1>1 DEF AtRest, Deleting
    <2>2. TextOf(t) = t
      BY TypedFacts, Basics
    <2>3. \A x \in Workers : ~Storer(x, t)
      BY <1>1, <2>2 DEF AtRest, HasRumor, Storer
    <2>4. QED  BY <2>1, <2>3 DEF Durable, Abandoned, Unsaved
  <1>2. QED  BY <1>1 DEF ShownIsDurable

-----------------------------------------------------------------------------
(* The edits on the screen are the store's. *)

Backs(e) == e \in authorized_edits(Of[e], row) \/ e \in spared

\* What a worker read is authorised, or in flight at a deletion; so is what is on the screen.
ReadSet == \A x \in Workers : \A e \in job[x].edits : Backs(e)
Backed == Deleting \/ \A t \in shown : \A e \in applied[t] : Backs(e)

\* The worker x will apply the edit e of t.
Brings(x, t, e) ==
    /\ TextOf(job[x].r) = t
    /\ \/ pc[x] \in {"heal", "saveChat", "persist", "read"}
       \/ pc[x] = "apply" /\ e \in job[x].edits
       \/ pc[x] = "editCheck" /\ job[x].r = e

\* An authorised edit of a text on the screen is applied, or brought by some worker.
Excused(t) == \E how \in Excuses \ {"unsaved"} : <<t, how>> \in excused
CaughtUp(t) == \/ Excused(t) \/ Spared(t)
               \/ \A e \in authorized_edits(t, row) \ applied[t] : \E x \in Workers : Brings(x, t, e)
Caught == Deleting \/ \A t \in shown : CaughtUp(t)

\* Authorised edits and spared rumors stay.
Lasts == (\A e \in Edits : e \in authorized_edits(Of[e], row) => e \in authorized_edits(Of[e], row)')
         /\ spared \subseteq spared'

LEMMA LastsSame ==
    ASSUME Typed, mine' = mine, \A r \in Rumors : signed[r] > 0 => signed'[r] = signed[r], row' = row,
           spared \subseteq spared'
    PROVE  Lasts /\ \A t \in Texts : authorized_edits(t, row)' = authorized_edits(t, row)
  <1>1. \A t \in Texts : authorized_edits(t, row)' = authorized_edits(t, row)
    BY AuthSame
  <1>2. ASSUME NEW e \in Edits, e \in authorized_edits(Of[e], row)  PROVE  e \in authorized_edits(Of[e], row)'
    <2>1. PICK t \in Texts : t = Of[e]
      BY Basics
    <2>2. authorized_edits(t, row)' = authorized_edits(t, row)
      BY <1>1
    <2>3. QED  BY <1>2, <2>1, <2>2
  <1>3. QED  BY <1>1, <1>2 DEF Lasts

LEMMA LastsStored ==
    ASSUME Typed, NEW r \in Rumors, Stores(r), UNCHANGED <<mine, signed, spared>>
    PROVE  Lasts
  <1>2. ASSUME NEW e \in Edits, e \in authorized_edits(Of[e], row)  PROVE  e \in authorized_edits(Of[e], row)'
    <2>1. PICK t \in Texts : t = Of[e]
      BY Basics
    <2>2. authorized_edits(t, row) \subseteq authorized_edits(t, row)'
      BY AuthStored
    <2>3. QED  BY <1>2, <2>1, <2>2
  <1>3. QED  BY <1>2 DEF Lasts

LEMMA BacksLasts ==
    ASSUME Lasts, NEW e \in Edits, Backs(e)
    PROVE  Backs(e)'
  BY DEF Lasts, Backs

\* Every step but the two of a deletion, and its failure, keeps what backs an edit.
LEMMA LastsStep ==
    ASSUME Typed, [Next]_vars, \A c \in Commands : ~DeleteStart(c), \A c \in Workers : ~DeleteRows(c) /\ ~Undeleted(c),
           ~Restart
    PROVE  Lasts
  <1>1. CASE (UNCHANGED vars) \/ Tick \/ Block
    BY <1>1, AsideSteps, LastsSame DEF Data
  <1>2. ASSUME NEW r \in Rumors, NEW k \in 1..Copies, Publish(r, k)  PROVE  Lasts
    BY <1>2, PublishStep, SignsKeep, LastsSame
  <1>3. ASSUME NEW x \in Intake, NEW w \in Wraps, Deliver(x, w)  PROVE  Lasts
    BY <1>3, DeliverStep, LastsSame DEF Data
  <1>4. ASSUME NEW x \in Workers, Exists(x) \/ Heal(x) \/ Add(x) \/ ReconcileRead(x) \/ ReconcileApply(x)
                                  \/ SaveChat(x) \/ SendAck(x) \/ SendFail(x) \/ SendWrap(x) \/ EditPublish(x)
                                  \/ EditCheck(x) \/ LoadAdd(x) \/ DeleteState(x) \/ DbError(x)
        PROVE  Lasts
    <2>1. UNCHANGED <<mine, signed, row, spared>>
      <3>1. CASE DbError(x)
        BY <3>1, DbErrorStep DEF Stumbles, GivesUp, Data
      <3>2. CASE ~DbError(x)
        BY <1>4, <3>2, ExistsStep, HealStep, AddStep, ReadStep, ApplyStep, SaveChatStep, SendAckStep, QuietSteps,
           EditCheckStep, LoadAddStep, DeleteStateStep DEF Data
      <3>3. QED  BY <3>1, <3>2
    <2>2. QED  BY <2>1, LastsSame
  <1>5. ASSUME NEW x \in Workers, Persist(x) \/ SaveEdit(x) \/ EditSave(x)  PROVE  Lasts
    <2>1. job[x].r \in Rumors
      BY TypedFacts
    <2>2. UNCHANGED <<mine, signed, spared>> /\ (Stores(job[x].r) \/ row' = row)
      BY <1>5, PersistStep, SaveEditStep, EditSaveStep DEF Data
    <2>3. QED  BY <2>1, <2>2, LastsSame, LastsStored
  <1>6. ASSUME NEW x \in Intake, TimeOut(x)  PROVE  Lasts
    BY <1>6, TimeOutStep, LastsSame
  <1>7. ASSUME NEW c \in Commands, NEW r \in Rumors,
               (r \in Texts /\ SendStart(c, r)) \/ (r \in Edits /\ EditStart(c, r))
        PROVE  Lasts
    BY <1>7, WriteSteps, SignsKeep, LastsSame
  <1>8. ASSUME NEW c \in Commands, LoadStart(c)  PROVE  Lasts
    BY <1>8, LoadStartStep, LastsSame DEF Data
  <1>9. CASE Evict
    BY <1>9, EvictStep, LastsSame
  <1>10. QED
    BY <1>1, <1>2, <1>3, <1>4, <1>5, <1>6, <1>7, <1>8, <1>9, Basics DEF Next, Handle

\* A worker's locals after a step: the ones it had, none, or what it read now.
LEMMA JobsStep ==
    ASSUME Typed, [Next]_vars, NEW x \in Workers
    PROVE  \A e \in job'[x].edits : e \in job[x].edits \/ (row' = row /\ mine' = mine /\ signed' = signed
                                                          /\ e \in authorized_edits(Of[e], row))
  <1> DEFINE Now(e) == row' = row /\ mine' = mine /\ signed' = signed /\ e \in authorized_edits(Of[e], row)
             Goal == \A e \in job'[x].edits : e \in job[x].edits \/ Now(e)
  <1>0. NoJob.edits = {}
    BY Basics
  <1>a. ASSUME NEW y \in Workers, Others(y), job'[y] = job[y] \/ job'[y].edits = {}  PROVE  Goal
    BY <1>a DEF Others
  <1>b. ASSUME NEW y \in Workers, Others(y), \A e \in job'[y].edits : Now(e)  PROVE  Goal
    BY <1>b DEF Others
  <1>c. ASSUME UNCHANGED workVars  PROVE  Goal
    BY <1>c DEF workVars
  <1>d. ASSUME NEW e, NEW t, e \in authorized_edits(t, row)  PROVE  e \in authorized_edits(Of[e], row)
    BY <1>d DEF authorized_edits, EditsOf
  <1> HIDE DEF Goal
  <1>1. CASE (UNCHANGED vars) \/ Tick \/ Block \/ Evict
    <2>1. UNCHANGED workVars
      BY <1>1, AsideSteps, EvictStep
    <2>2. QED  BY <1>c, <2>1 DEF Goal
  <1>2. ASSUME NEW r \in Rumors, NEW k \in 1..Copies, Publish(r, k)  PROVE  Goal
    BY <1>2, <1>c, PublishStep
  <1>3. ASSUME NEW y \in Intake, NEW w \in Wraps, Deliver(y, w)  PROVE  Goal
    <2>1. (UNCHANGED workVars) \/ (Others(y) /\ job'[y].edits = {})
      BY <1>3, DeliverStep DEF Moves
    <2>2. QED  BY <1>a, <1>c, <2>1, Basics
  <1>4. ASSUME NEW y \in Workers, Exists(y) \/ Heal(y) \/ Add(y) \/ ReconcileApply(y) \/ Persist(y) \/ SaveEdit(y)
                                  \/ EditSave(y) \/ SaveChat(y) \/ SendAck(y) \/ SendFail(y) \/ SendWrap(y)
                                  \/ EditPublish(y) \/ LoadAdd(y) \/ DeleteRows(y) \/ DeleteState(y) \/ DbError(y)
        PROVE  Goal
    <2>1. Others(y) /\ (job'[y] = job[y] \/ job'[y] = NoJob)
      <3>1. CASE DbError(y)
        BY <3>1, DbErrorStep DEF Stumbles, GivesUp, Undeleted, Moves
      <3>2. CASE ~DbError(y)
        BY <1>4, <3>2, ExistsStep, HealStep, AddStep, ApplyStep, PersistStep, SaveEditStep, EditSaveStep,
           SaveChatStep, SendAckStep, QuietSteps, LoadAddStep, DeleteRowsStep, DeleteStateStep DEF Moves
      <3>3. QED  BY <3>1, <3>2
    <2>2. QED  BY <1>0, <1>a, <2>1
  <1>5. ASSUME NEW y \in Workers, ReconcileRead(y)  PROVE  Goal
    <2>1. /\ row' = row /\ mine' = mine /\ signed' = signed /\ Others(y)
          /\ \/ job'[y] = job[y] \/ job'[y] = NoJob
             \/ job'[y].edits = authorized_edits(TextOf(job[y].r), row)
      BY <1>5, ReadStep DEF Moves, Data
    <2>2. CASE job'[y] = job[y] \/ job'[y] = NoJob
      BY <1>0, <1>a, <2>1, <2>2
    <2>3. CASE job'[y].edits = authorized_edits(TextOf(job[y].r), row)
      BY <1>b, <1>d, <2>1, <2>3
    <2>4. QED  BY <2>1, <2>2, <2>3
  <1>6. ASSUME NEW y \in Intake, TimeOut(y)  PROVE  Goal
    BY <1>0, <1>6, <1>a, TimeOutStep, Basics DEF Moves
  <1>7. ASSUME NEW c \in Commands, NEW r \in Rumors,
               (r \in Texts /\ SendStart(c, r)) \/ (r \in Edits /\ EditStart(c, r))
        PROVE  Goal
    BY <1>7, <1>a, WriteSteps, Basics DEF Moves
  <1>8. ASSUME NEW c \in Commands, LoadStart(c)  PROVE  Goal
    <2>1. /\ row' = row /\ mine' = mine /\ signed' = signed /\ Others(c) /\ c \in Workers
          /\ \A e \in job'[c].edits : \E t \in job'[c].view : e \in authorized_edits(t, row)
      BY <1>8, LoadStartStep, Basics DEF Moves, Data
    <2>2. QED  BY <1>b, <1>d, <2>1
  <1>9. ASSUME NEW c \in Commands, DeleteStart(c)  PROVE  Goal
    BY <1>9, <1>a, DeleteStartStep, Basics DEF Moves
  <1>10. CASE Restart
    BY <1>0, <1>10, RestartStep DEF Goal
  <1>11. ASSUME NEW y \in Workers, EditCheck(y)  PROVE  Goal
    <2>1. /\ row' = row /\ mine' = mine /\ signed' = signed /\ Others(y)
          /\ \/ job'[y] = NoJob
             \/ job'[y].edits = {job[y].r} /\ job[y].r \in authorized_edits(Of[job[y].r], row)
      BY <1>11, EditCheckStep DEF Moves, Data
    <2>2. QED  BY <1>0, <1>a, <1>b, <2>1
  <1>12. QED
    BY <1>1, <1>2, <1>3, <1>4, <1>5, <1>6, <1>7, <1>8, <1>9, <1>10, <1>11, Basics DEF Next, Handle, Goal

LEMMA ReadSetStep ==
    ASSUME Typed, Typed', ReadSet, [Next]_vars
    PROVE  ReadSet'
  <1>0. \A x \in Workers : job[x].edits \subseteq Edits
    BY TypedFacts
  <1>a. ASSUME NEW e \in Edits, row' = row /\ mine' = mine /\ signed' = signed /\ e \in authorized_edits(Of[e], row)
        PROVE  Backs(e)'
    BY <1>a DEF Backs, authorized_edits, edit_is_authorized
  <1>b. \A x \in Workers : job'[x].edits \subseteq Edits
    BY DEF Typed, TypeOK
  <1>1. CASE \A e \in Edits : Backs(e) => Backs(e)'
    <2>1. ASSUME NEW x \in Workers, NEW e \in job'[x].edits  PROVE  Backs(e)'
      <3>1. e \in job[x].edits \/ (row' = row /\ mine' = mine /\ signed' = signed /\ e \in authorized_edits(Of[e], row))
        BY <2>1, JobsStep
      <3>2. QED  BY <1>0, <1>1, <1>a, <1>b, <2>1, <3>1 DEF ReadSet
    <2>2. QED  BY <2>1 DEF ReadSet
  <1>2. CASE \A y \in Workers : job'[y].edits \subseteq spared'
    BY <1>2 DEF ReadSet, Backs
  <1>3. ASSUME NEW c \in Workers, (c \in Commands /\ DeleteStart(c)) \/ DeleteRows(c)  PROVE  ReadSet'
    <2>1. \A y \in Workers : job'[y].edits = job[y].edits /\ InFlight \subseteq spared'
      BY <1>3, DeleteStartStep, DeleteRowsStep DEF Moves, Others
    <2>2. \A y \in Workers : job[y].edits \subseteq InFlight
      BY DEF InFlight
    <2>3. QED  BY <1>2, <2>1, <2>2
  <1>4. CASE Restart
    BY <1>4, RestartStep, Basics DEF ReadSet
  <1>5. ASSUME NEW c \in Workers, Undeleted(c)  PROVE  ReadSet'
    <2>1. spared' = Rumors
      BY <1>5 DEF Undeleted
    <2>2. QED  BY <1>2, <1>b, <2>1 DEF Rumors
  <1>6. CASE (\A c \in Commands : ~DeleteStart(c)) /\ (\A c \in Workers : ~DeleteRows(c) /\ ~Undeleted(c)) /\ ~Restart
    BY <1>1, <1>6, LastsStep, BacksLasts
  <1>7. QED  BY <1>3, <1>4, <1>5, <1>6, Basics

\* A deletion is under way until its last step, its failure, or a restart.
LEMMA DeletingStep ==
    ASSUME Typed, [Next]_vars, \A c \in Workers : ~DeleteState(c) /\ ~Undeleted(c), ~Restart, Deleting
    PROVE  Deleting'
  <1>a. ASSUME NEW x \in Workers, Others(x),
               pc[x] \notin {"deleteRows", "deleteState"} \/ pc'[x] \in {"deleteRows", "deleteState"}
        PROVE  Deleting'
    BY <1>a DEF Others, Deleting
  <1>b. ASSUME UNCHANGED workVars  PROVE  Deleting'
    BY <1>b DEF Deleting, workVars
  <1>1. CASE (UNCHANGED vars) \/ Tick \/ Block \/ Evict
    <2>1. UNCHANGED workVars
      BY <1>1, AsideSteps, EvictStep
    <2>2. QED  BY <1>b, <2>1
  <1>2. ASSUME NEW r \in Rumors, NEW k \in 1..Copies, Publish(r, k)  PROVE  Deleting'
    BY <1>2, <1>b, PublishStep
  <1>3. ASSUME NEW y \in Intake, NEW w \in Wraps, Deliver(y, w)  PROVE  Deleting'
    <2>1. (UNCHANGED workVars) \/ (Others(y) /\ pc[y] = "idle")
      BY <1>3, DeliverStep DEF Moves
    <2>2. QED  BY <1>a, <1>b, <2>1, Basics
  <1>4. ASSUME NEW y \in Workers, Exists(y) \/ Heal(y) \/ Add(y) \/ ReconcileRead(y) \/ ReconcileApply(y) \/ Persist(y)
                                  \/ SaveEdit(y) \/ EditSave(y) \/ SendAck(y) \/ SendFail(y) \/ SendWrap(y)
                                  \/ EditPublish(y) \/ EditCheck(y) \/ SaveChat(y) \/ LoadAdd(y) \/ DeleteRows(y)
                                  \/ DbError(y)
        PROVE  Deleting'
    <2>1. Others(y) /\ (pc[y] \notin {"deleteRows", "deleteState"} \/ pc'[y] = "deleteState")
      <3>1. CASE Exists(y) \/ Heal(y) \/ Add(y) \/ Persist(y) \/ SaveEdit(y)
        BY <3>1, ExistsStep, HealStep, AddStep, PersistStep, SaveEditStep DEF Moves
      <3>2. CASE ReconcileRead(y) \/ ReconcileApply(y) \/ EditSave(y) \/ SendAck(y)
        BY <3>2, ReadStep, ApplyStep, EditSaveStep, SendAckStep DEF Moves
      <3>3. CASE SendFail(y) \/ SendWrap(y) \/ EditPublish(y) \/ EditCheck(y) \/ SaveChat(y) \/ LoadAdd(y) \/ DeleteRows(y)
        BY <3>3, QuietSteps, EditCheckStep, SaveChatStep, LoadAddStep, DeleteRowsStep DEF Moves
      <3>4. CASE DbError(y)
        BY <3>4, DbErrorStep DEF Stumbles, GivesUp, Moves
      <3>5. QED  BY <1>4, <3>1, <3>2, <3>3, <3>4
    <2>2. QED  BY <1>a, <2>1
  <1>5. ASSUME NEW y \in Intake, TimeOut(y)  PROVE  Deleting'
    BY <1>5, <1>a, TimeOutStep, Basics DEF Moves, IntakePcs
  <1>6. ASSUME NEW c \in Commands, NEW r \in Rumors,
               (r \in Texts /\ SendStart(c, r)) \/ (r \in Edits /\ EditStart(c, r))
        PROVE  Deleting'
    BY <1>6, <1>a, WriteSteps, Basics DEF Moves
  <1>7. ASSUME NEW c \in Commands, LoadStart(c) \/ DeleteStart(c)  PROVE  Deleting'
    <2>1. Others(c) /\ pc[c] = "idle" /\ c \in Workers
      BY <1>7, LoadStartStep, DeleteStartStep, Basics DEF Moves
    <2>2. QED  BY <1>a, <2>1
  <1>8. QED
    BY <1>1, <1>2, <1>3, <1>4, <1>5, <1>6, <1>7, Basics DEF Next, Handle

\* Once a deletion has started, nothing is claimed of the screen.
LEMMA DeletionBegins ==
    ASSUME Typed, NEW c \in Workers, (c \in Commands /\ DeleteStart(c)) \/ DeleteRows(c)
    PROVE  Deleting'
  BY DeleteStartStep, DeleteRowsStep DEF Moves, Deleting

LEMMA BackedStep ==
    ASSUME Typed, Screen, ReadSet, Backed, [Next]_vars
    PROVE  Backed'
  <1>0. /\ shown \subseteq Texts /\ applied \in [Texts -> SUBSET Edits]
        /\ \A x \in Workers : job[x].edits \subseteq Edits /\ \A e \in job[x].edits : Backs(e)
        /\ \A t \in Texts : t \notin shown => applied[t] = {}
    BY TypedFacts DEF ReadSet, Screen
  <1>a. ASSUME Lasts, Deleting => Deleting', shown' \subseteq Texts,
               \A t \in shown' : \A e \in applied'[t] : (t \in shown /\ e \in applied[t]) \/ (e \in Edits /\ Backs(e))
        PROVE  Backed'
    <2>1. CASE Deleting
      BY <1>a, <2>1 DEF Backed
    <2>2. CASE ~Deleting
      <3>1. ASSUME NEW t \in shown', NEW e \in applied'[t]  PROVE  Backs(e)'
        <4>1. e \in Edits /\ Backs(e)
          BY <1>0, <1>a, <2>2, <3>1 DEF Backed
        <4>2. QED  BY <1>a, <4>1, BacksLasts
      <3>2. QED  BY <3>1 DEF Backed
    <2>3. QED  BY <2>1, <2>2
  <1>1. ASSUME NEW c \in Workers, (c \in Commands /\ DeleteStart(c)) \/ DeleteRows(c)  PROVE  Backed'
    BY <1>1, DeletionBegins DEF Backed
  <1>2. ASSUME NEW c \in Workers, DeleteState(c)  PROVE  Backed'
    BY <1>2, DeleteStateStep DEF Backed
  <1>3. CASE Restart
    <2>1. /\ UNCHANGED <<mine, signed, row>> /\ shown' \subseteq Texts
          /\ applied' = [t \in Texts |-> IF t \in shown' THEN authorized_edits(t, row) ELSE {}]
      BY <1>3, RestartStep
    <2>2. ASSUME NEW t \in shown', NEW e \in applied'[t]  PROVE  Backs(e)'
      <3>1. e \in authorized_edits(t, row)
        BY <2>1, <2>2
      <3>2. Of[e] = t
        BY <3>1 DEF authorized_edits, EditsOf
      <3>3. QED  BY <2>1, <3>1, <3>2 DEF Backs, authorized_edits, edit_is_authorized
    <2>3. QED  BY <2>2 DEF Backed
  <1>4. CASE /\ \A c \in Commands : ~DeleteStart(c)
             /\ \A c \in Workers : ~DeleteRows(c) /\ ~DeleteState(c) /\ ~Undeleted(c)
             /\ ~Restart
    <2>0. Lasts /\ (Deleting => Deleting')
      BY <1>4, LastsStep, DeletingStep
    <2>a. ASSUME shown' \subseteq Texts, \A t \in shown' : applied'[t] \subseteq applied[t]  PROVE  Backed'
      BY <1>0, <1>a, <2>0, <2>a
    <2>1. CASE (UNCHANGED vars) \/ Tick \/ Block
      BY <1>0, <2>1, <2>a, AsideSteps DEF Data
    <2>2. ASSUME NEW r \in Rumors, NEW k \in 1..Copies, Publish(r, k)  PROVE  Backed'
      BY <1>0, <2>2, <2>a, PublishStep
    <2>3. ASSUME NEW x \in Intake, NEW w \in Wraps, Deliver(x, w)  PROVE  Backed'
      BY <1>0, <2>3, <2>a, DeliverStep DEF Data
    <2>4. ASSUME NEW x \in Workers, Exists(x) \/ Heal(x) \/ Add(x) \/ ReconcileRead(x) \/ Persist(x) \/ SaveEdit(x)
                    \/ EditSave(x) \/ EditCheck(x) \/ SaveChat(x) \/ SendAck(x) \/ SendFail(x) \/ SendWrap(x)
                    \/ EditPublish(x) \/ DbError(x)
          PROVE  Backed'
      <3>1. applied' = applied /\ shown' \subseteq Texts
        <4>1. CASE DbError(x)
          BY <1>0, <4>1, DbErrorStep DEF Stumbles, GivesUp, Undeleted, Data
        <4>2. CASE ~DbError(x)
          BY <1>0, <2>4, <4>2, ExistsStep, HealStep, AddStep, ReadStep, PersistStep, SaveEditStep, EditSaveStep,
             EditCheckStep, SaveChatStep, SendAckStep, QuietSteps DEF Data
        <4>3. QED  BY <4>1, <4>2
      <3>2. QED  BY <2>a, <3>1
    <2>5. ASSUME NEW x \in Workers, ReconcileApply(x)  PROVE  Backed'
      <3>1. shown' = shown /\ Merges(TextOf(job[x].r), job[x].edits)
        BY <2>5, ApplyStep
      <3>2. \A t \in shown' : \A e \in applied'[t] : (t \in shown /\ e \in applied[t]) \/ (e \in Edits /\ Backs(e))
        BY <1>0, <3>1 DEF Merges
      <3>3. QED  BY <1>0, <1>a, <2>0, <3>1, <3>2
    <2>7. ASSUME NEW x \in Workers, LoadAdd(x)  PROVE  Backed'
      <3>1. PICK page \in SUBSET (job[x].view \ shown) :
                /\ shown' = shown \cup page
                /\ \A t \in Texts : applied'[t] = IF t \in page THEN job[x].edits \cap EditsOf(t) ELSE applied[t]
        BY <2>7, LoadAddStep
      <3>2. shown' \subseteq Texts
        BY <1>0, <3>1, TypedFacts
      <3>3. \A t \in shown' : \A d \in applied'[t] : (t \in shown /\ d \in applied[t]) \/ (d \in Edits /\ Backs(d))
        <4>1. \A t \in shown' : (t \in shown /\ applied'[t] = applied[t]) \/ applied'[t] \subseteq job[x].edits
          BY <3>1, <3>2
        <4>2. QED  BY <1>0, <4>1
      <3>4. QED  BY <1>a, <2>0, <3>2, <3>3
    <2>8. ASSUME NEW x \in Intake, TimeOut(x)  PROVE  Backed'
      BY <1>0, <2>8, <2>a, TimeOutStep
    <2>9. ASSUME NEW c \in Commands, NEW r \in Rumors,
                 (r \in Texts /\ SendStart(c, r)) \/ (r \in Edits /\ EditStart(c, r))
          PROVE  Backed'
      BY <1>0, <2>9, <2>a, WriteSteps
    <2>10. ASSUME NEW c \in Commands, LoadStart(c)  PROVE  Backed'
      BY <1>0, <2>10, <2>a, LoadStartStep DEF Data
    <2>11. CASE Evict
      BY <1>0, <2>11, <2>a, EvictStep
    <2>12. QED
      BY <1>4, <2>1, <2>2, <2>3, <2>4, <2>5, <2>7, <2>8, <2>9, <2>10, <2>11, Basics DEF Next, Handle
  <1>5. ASSUME NEW c \in Workers, Undeleted(c)  PROVE  Backed'
    <2>1. UNCHANGED <<shown, applied>> /\ spared' = Rumors
      BY <1>5 DEF Undeleted
    <2>2. \A t \in shown' : \A e \in applied'[t] : e \in spared'
      BY <1>0, <2>1 DEF Rumors
    <2>3. QED  BY <2>2 DEF Backed, Backs
  <1>6. QED  BY <1>1, <1>2, <1>3, <1>4, <1>5, Basics

\* After a step of x: it brings every missing edit of t; or what was missing is still missing
\* and brought by another, or is brought by x.
Served(x, t) == \A e \in authorized_edits(t, row)' : e \in applied'[t] \/ Brings(x, t, e)'
Carried(x, t) ==
    t \in shown /\ \A e \in authorized_edits(t, row)' :
        \/ e \in applied'[t] \/ Brings(x, t, e)'
        \/ e \in authorized_edits(t, row) /\ e \notin applied[t] /\ ~Brings(x, t, e)

LEMMA CaughtWorker ==
    ASSUME Caught, NEW x \in Workers, Others(x), excused \subseteq excused', spared \subseteq spared',
           Deleting => Deleting', \A t \in shown' : Served(x, t) \/ Carried(x, t) \/ Excused(t)'
    PROVE  Caught'
  <1>1. CASE Deleting
    BY <1>1 DEF Caught
  <1>2. ASSUME ~Deleting, NEW t \in shown'  PROVE  CaughtUp(t)'
    <2>1. CASE Served(x, t)
      BY <2>1 DEF Served, CaughtUp
    <2>2. CASE Carried(x, t)
      <3>1. t \in shown /\ CaughtUp(t)
        BY <1>2, <2>2 DEF Caught, Carried
      <3>2. CASE Excused(t) \/ Spared(t)
        BY <3>2 DEF CaughtUp, Excused, Spared, EditsOf
      <3>3. CASE \A e \in authorized_edits(t, row) \ applied[t] : \E y \in Workers : Brings(y, t, e)
        <4>1. ASSUME NEW e \in authorized_edits(t, row)' \ applied'[t]
              PROVE  \E y \in Workers : Brings(y, t, e)'
          <5>1. CASE Brings(x, t, e)'
            BY <5>1
          <5>2. CASE ~(Brings(x, t, e)')
            <6>1. e \in authorized_edits(t, row) /\ e \notin applied[t] /\ ~Brings(x, t, e)
              BY <2>2, <4>1, <5>2 DEF Carried
            <6>2. PICK y \in Workers : Brings(y, t, e)
              BY <3>3, <6>1
            <6>3. pc'[y] = pc[y] /\ job'[y] = job[y]
              BY <6>1, <6>2 DEF Others
            <6>4. Brings(y, t, e)'
              BY <6>2, <6>3 DEF Brings, TextOf
            <6>5. QED  BY <6>4
          <5>3. QED  BY <5>1, <5>2
        <4>2. QED  BY <4>1 DEF CaughtUp
      <3>4. QED  BY <3>1, <3>2, <3>3 DEF CaughtUp
    <2>3. QED  BY <1>2, <2>1, <2>2 DEF CaughtUp
  <1>3. QED  BY <1>1, <1>2 DEF Caught

LEMMA CaughtStep ==
    ASSUME Typed, Screen, Caught, [Next]_vars
    PROVE  Caught'
  <1>0. /\ shown \subseteq Texts /\ \A x \in Workers : TextOf(job[x].r) \in Texts
        /\ \A t \in Texts : t \notin shown => applied[t] = {}
    BY TypedFacts, Basics DEF Screen
  <1>1. ASSUME NEW c \in Workers, (c \in Commands /\ DeleteStart(c)) \/ DeleteRows(c)  PROVE  Caught'
    BY <1>1, DeletionBegins DEF Caught
  <1>2. ASSUME NEW c \in Workers, DeleteState(c)  PROVE  Caught'
    BY <1>2, DeleteStateStep DEF Caught
  <1>3. CASE Restart
    <2>1. /\ UNCHANGED <<mine, signed, row>> /\ shown' \subseteq Texts
          /\ applied' = [t \in Texts |-> IF t \in shown' THEN authorized_edits(t, row) ELSE {}]
      BY <1>3, RestartStep
    <2>2. \A t \in shown' : authorized_edits(t, row)' = authorized_edits(t, row) /\ applied'[t] = authorized_edits(t, row)
      BY <2>1 DEF authorized_edits, edit_is_authorized
    <2>3. QED  BY <2>2 DEF Caught, CaughtUp
  <1>4. CASE /\ \A c \in Commands : ~DeleteStart(c)
             /\ \A c \in Workers : ~DeleteRows(c) /\ ~DeleteState(c) /\ ~Undeleted(c)
             /\ ~Restart
    <2>0. (Deleting => Deleting') /\ spared \subseteq spared'
      BY <1>4, DeletingStep, LastsStep DEF Lasts
    \* Steps that bring nothing, and leave store and screen alone.
    <2>a. ASSUME NEW x \in Workers, Others(x), UNCHANGED <<mine, row, shown, applied, excused>>,
                 \A r \in Rumors : signed[r] > 0 => signed'[r] = signed[r],
                 pc[x] \notin {"heal", "saveChat", "persist", "read", "apply", "editCheck"}
          PROVE  Caught'
      <3>1. \A t \in Texts : authorized_edits(t, row)' = authorized_edits(t, row)
        BY <2>a, AuthSame
      <3>2. \A t, e : ~Brings(x, t, e)
        BY <2>a DEF Brings
      <3>3. \A t \in shown' : Carried(x, t)
        BY <1>0, <2>a, <3>1, <3>2 DEF Carried
      <3>4. QED  BY <2>0, <2>a, <3>3, CaughtWorker
    \* Steps after which a worker will read the edits of its text.
    <2>b. ASSUME NEW x \in Workers, Others(x), UNCHANGED <<applied, excused>>, job'[x] = job[x],
                 pc'[x] \in {"saveChat", "persist", "read"}, shown' \subseteq shown \cup {TextOf(job[x].r)},
                 \A t \in Texts : t # TextOf(job[x].r) => authorized_edits(t, row)' = authorized_edits(t, row)
          PROVE  Caught'
      <3>1. ASSUME NEW t \in shown'  PROVE  Served(x, t) \/ Carried(x, t)
        <4>1. CASE t = TextOf(job[x].r)
          <5>1. \A e : Brings(x, t, e)'
            BY <2>b, <4>1 DEF Brings, TextOf
          <5>2. QED  BY <5>1 DEF Served
        <4>2. CASE t # TextOf(job[x].r)
          <5>1. \A e : ~Brings(x, t, e)
            BY <4>2 DEF Brings
          <5>2. t \in shown /\ t \in Texts
            BY <1>0, <2>b, <3>1, <4>2
          <5>3. authorized_edits(t, row)' = authorized_edits(t, row) /\ applied'[t] = applied[t]
            BY <2>b, <4>2, <5>2
          <5>4. QED  BY <5>1, <5>2, <5>3 DEF Carried
        <4>3. QED  BY <4>1, <4>2
      <3>2. QED  BY <2>0, <2>b, <3>1, CaughtWorker
    <2>c. ASSUME UNCHANGED workVars, UNCHANGED <<mine, row, excused>>,
                 \A r \in Rumors : signed[r] > 0 => signed'[r] = signed[r],
                 shown' \subseteq shown, \A t \in shown' : applied'[t] = applied[t]
          PROVE  Caught'
      <3>1. \A t \in Texts : authorized_edits(t, row)' = authorized_edits(t, row)
        BY <2>c, AuthSame
      <3>2. \A y \in Workers : pc'[y] = pc[y] /\ job'[y] = job[y]
        BY <2>c DEF workVars
      <3>3. \A y \in Workers : \A t, e : Brings(y, t, e) => Brings(y, t, e)'
        BY <3>2 DEF Brings, TextOf
      <3>4. \A t \in shown' : CaughtUp(t) => CaughtUp(t)'
        BY <1>0, <2>0, <2>c, <3>1, <3>3 DEF CaughtUp, Excused, Spared, EditsOf
      <3>5. QED  BY <2>0, <2>c, <3>4 DEF Caught
    <2>1. CASE (UNCHANGED vars) \/ Tick \/ Block
      BY <2>1, <2>c, AsideSteps DEF Data
    <2>2. ASSUME NEW r \in Rumors, NEW k \in 1..Copies, Publish(r, k)  PROVE  Caught'
      BY <2>2, <2>c, PublishStep, SignsKeep
    <2>3. ASSUME NEW x \in Intake, NEW w \in Wraps, Deliver(x, w)  PROVE  Caught'
      <3>1. UNCHANGED Data /\ x \in Workers /\ ((UNCHANGED workVars) \/ (Others(x) /\ pc[x] = "idle"))
        BY <2>3, DeliverStep, Basics DEF Moves
      <3>2. QED  BY <2>a, <2>c, <3>1 DEF Data
    <2>4. ASSUME NEW x \in Workers, Exists(x) \/ SendFail(x) \/ SendWrap(x) \/ EditPublish(x)  PROVE  Caught'
      <3>1. UNCHANGED Data /\ Others(x) /\ pc[x] \in {"exists", "publish", "selfWrap", "editPublish"}
        BY <2>4, ExistsStep, QuietSteps DEF Moves
      <3>2. QED  BY <2>a, <3>1 DEF Data
    <2>5. ASSUME NEW x \in Workers, Heal(x) \/ Add(x) \/ SendAck(x)  PROVE  Caught'
      <3>1. /\ UNCHANGED <<mine, signed, row, applied, excused>> /\ Others(x) /\ job[x].r \in Texts
            /\ pc[x] \in {"heal", "add", "publish"}
            /\ \/ shown' = shown /\ pc[x] # "heal"
               \/ shown' = shown \cup {job[x].r} /\ pc'[x] \in {"saveChat", "persist", "read"} /\ job'[x] = job[x]
        BY <2>5, HealStep, AddStep, SendAckStep DEF Moves
      <3>2. \A t \in Texts : authorized_edits(t, row)' = authorized_edits(t, row)
        BY <3>1, AuthSame
      <3>3. TextOf(job[x].r) = job[x].r
        BY <3>1, Basics
      <3>4. CASE shown' = shown /\ pc[x] # "heal"
        BY <2>a, <3>1, <3>4
      <3>5. CASE shown' = shown \cup {job[x].r} /\ pc'[x] \in {"saveChat", "persist", "read"} /\ job'[x] = job[x]
        BY <2>b, <3>1, <3>2, <3>3, <3>5
      <3>6. QED  BY <3>1, <3>4, <3>5
    <2>6. ASSUME NEW x \in Workers, Persist(x) \/ SaveEdit(x)  PROVE  Caught'
      <3>1. /\ UNCHANGED <<mine, signed, shown, applied, excused>> /\ Others(x) /\ pc[x] \in {"persist", "saveEdit"}
            /\ \/ Stores(job[x].r) /\ pc'[x] = "read" /\ job'[x] = job[x]
               \/ UNCHANGED Data /\ pc[x] = "saveEdit"
        BY <2>6, PersistStep, SaveEditStep DEF Moves
      <3>2. CASE UNCHANGED Data /\ pc[x] = "saveEdit"
        BY <2>a, <3>1, <3>2 DEF Data
      <3>3. CASE Stores(job[x].r) /\ pc'[x] = "read" /\ job'[x] = job[x]
        <4>1. PICK r \in Rumors : r = job[x].r
          BY TypedFacts
        <4>2. \A t \in Texts : t # TextOf(r) => authorized_edits(t, row)' = authorized_edits(t, row)
          BY <3>1, <3>3, <4>1, AuthStored
        <4>3. \A t \in Texts : t # TextOf(job[x].r) => authorized_edits(t, row)' = authorized_edits(t, row)
          BY <4>1, <4>2
        <4>4. QED  BY <2>b, <3>1, <3>3, <4>3
      <3>4. QED  BY <3>1, <3>2, <3>3
    <2>7. ASSUME NEW x \in Workers, ReconcileRead(x)  PROVE  Caught'
      <3>0. PICK u \in Texts : u = TextOf(job[x].r)
        BY <1>0
      <3>1. /\ UNCHANGED <<mine, signed, row, shown, applied, excused>> /\ pc[x] = "read" /\ Others(x)
            /\ \/ authorized_edits(u, row) = {}
               \/ pc'[x] = "apply" /\ job'[x].r = job[x].r /\ job'[x].edits = authorized_edits(u, row)
        BY <2>7, <3>0, ReadStep DEF Moves, Data
      <3>2. \A t \in Texts : authorized_edits(t, row)' = authorized_edits(t, row)
        BY <3>1, AuthSame
      <3>3. ASSUME NEW t \in shown'  PROVE  Served(x, t) \/ Carried(x, t)
        <4>1. CASE t = u
          <5>1. CASE authorized_edits(u, row) = {}
            BY <3>2, <4>1, <5>1 DEF Served
          <5>2. CASE pc'[x] = "apply" /\ job'[x].r = job[x].r /\ job'[x].edits = authorized_edits(u, row)
            <6>1. \A e \in authorized_edits(u, row) : Brings(x, u, e)'
              BY <3>0, <5>2 DEF Brings, TextOf
            <6>2. QED  BY <3>2, <4>1, <6>1 DEF Served
          <5>3. QED  BY <3>1, <5>1, <5>2
        <4>2. CASE t # u
          <5>1. \A e : ~Brings(x, t, e)
            BY <3>0, <4>2 DEF Brings
          <5>2. t \in shown /\ t \in Texts
            BY <1>0, <3>1, <3>3
          <5>3. QED  BY <3>1, <3>2, <5>1, <5>2 DEF Carried
        <4>3. QED  BY <4>1, <4>2
      <3>4. QED  BY <2>0, <3>1, <3>3, CaughtWorker
    <2>8. ASSUME NEW x \in Workers, ReconcileApply(x)  PROVE  Caught'
      <3>0. PICK u \in Texts : u = TextOf(job[x].r)
        BY <1>0
      <3>1. /\ UNCHANGED <<mine, signed, row, shown, excused>> /\ pc[x] = "apply" /\ Others(x)
            /\ Merges(u, job[x].edits)
        BY <2>8, <3>0, ApplyStep DEF Moves
      <3>2. \A t \in Texts : authorized_edits(t, row)' = authorized_edits(t, row)
        BY <3>1, AuthSame
      <3>3. ASSUME NEW t \in shown'  PROVE  Carried(x, t)
        <4>0. t \in shown /\ t \in Texts
          BY <1>0, <3>1, <3>3
        <4>1. applied[t] \subseteq applied'[t]
          BY <3>1, <4>0 DEF Merges
        <4>2. \A e : Brings(x, t, e) => e \in applied'[t]
          <5>1. ASSUME NEW e, Brings(x, t, e)  PROVE  e \in applied'[t]
            <6>1. t = u /\ e \in job[x].edits
              BY <3>0, <3>1, <5>1 DEF Brings
            <6>2. QED  BY <3>1, <4>0, <6>1 DEF Merges
          <5>2. QED  BY <5>1
        <4>3. QED  BY <3>2, <4>0, <4>1, <4>2 DEF Carried
      <3>4. QED  BY <2>0, <3>1, <3>3, CaughtWorker
    <2>9. ASSUME NEW x \in Workers, EditSave(x)  PROVE  Caught'
      <3>0. PICK r \in Edits : r = job[x].r /\ r \in Rumors /\ TextOf(r) = Of[r]
        BY <2>9, EditSaveStep, Basics
      <3>1. /\ UNCHANGED <<mine, signed, shown, applied, excused>> /\ Stores(r) /\ pc[x] = "editSave" /\ Others(x)
            /\ pc'[x] = "editCheck" /\ job'[x] = job[x]
        BY <2>9, <3>0, EditSaveStep DEF Moves
      <3>2. \A t, e : ~Brings(x, t, e)
        BY <3>1 DEF Brings
      <3>3. ASSUME NEW t \in shown'  PROVE  Carried(x, t)
        <4>0. t \in shown /\ t \in Texts /\ r # t /\ applied'[t] = applied[t]
          BY <1>0, <3>0, <3>1, <3>3, Basics
        <4>1. ASSUME NEW e \in authorized_edits(t, row)'
              PROVE  e \in authorized_edits(t, row) \/ Brings(x, t, e)'
          <5>1. e \in authorized_edits(t, row) \/ r = e
            BY <3>0, <3>1, <4>0, <4>1, AuthStored
          <5>2. Of[e] = t
            BY <4>1 DEF authorized_edits, EditsOf
          <5>3. r = e => Brings(x, t, e)'
            BY <3>0, <3>1, <5>2 DEF Brings, TextOf
          <5>4. QED  BY <5>1, <5>3
        <4>2. QED  BY <3>2, <4>0, <4>1 DEF Carried
      <3>4. QED  BY <2>0, <3>1, <3>3, CaughtWorker
    <2>10. ASSUME NEW x \in Workers, EditCheck(x)  PROVE  Caught'
      <3>0. PICK r \in Edits : r = job[x].r /\ TextOf(r) = Of[r]
        BY <2>10, EditCheckStep, Basics
      <3>1. /\ UNCHANGED <<mine, signed, row, shown, applied, excused>> /\ pc[x] = "editCheck" /\ Others(x)
            /\ \/ r \notin authorized_edits(Of[r], row)
               \/ pc'[x] = "apply" /\ job'[x].r = r /\ job'[x].edits = {r}
        BY <2>10, <3>0, EditCheckStep DEF Moves, Data
      <3>2. \A t \in Texts : authorized_edits(t, row)' = authorized_edits(t, row)
        BY <3>1, AuthSame
      <3>3. ASSUME NEW t \in shown'  PROVE  Carried(x, t)
        <4>0. t \in shown /\ t \in Texts
          BY <1>0, <3>1, <3>3
        <4>1. ASSUME NEW e \in authorized_edits(t, row), Brings(x, t, e)  PROVE  Brings(x, t, e)'
          <5>1. e = r /\ t = Of[r]
            BY <3>0, <3>1, <4>1 DEF Brings
          <5>2. QED  BY <3>0, <3>1, <4>1, <5>1 DEF Brings, TextOf
        <4>2. QED  BY <3>1, <3>2, <4>0, <4>1 DEF Carried
      <3>4. QED  BY <2>0, <3>1, <3>3, CaughtWorker
    <2>11. ASSUME NEW x \in Workers, LoadAdd(x)  PROVE  Caught'
      <3>1. /\ UNCHANGED <<mine, signed, row>> /\ pc[x] = "loadAdd" /\ Others(x) /\ excused \subseteq excused'
        BY <2>11, LoadAddStep DEF Moves
      <3>2. PICK page \in SUBSET (job[x].view \ shown) :
                /\ shown' = shown \cup page
                /\ \A t \in Texts : applied'[t] = IF t \in page THEN job[x].edits \cap EditsOf(t) ELSE applied[t]
                /\ \A t \in page : \/ authorized_edits(t, row) = job[x].edits \cap EditsOf(t)
                                   \/ <<t, "overtaken">> \in excused'
        BY <2>11, LoadAddStep
      <3>3. \A t \in Texts : authorized_edits(t, row)' = authorized_edits(t, row)
        BY <3>1, AuthSame
      <3>4. \A t, e : ~Brings(x, t, e)
        BY <3>1 DEF Brings
      <3>5. ASSUME NEW t \in shown'  PROVE  Served(x, t) \/ Carried(x, t) \/ Excused(t)'
        <4>1. CASE t \in page
          <5>1. t \in Texts
            BY <4>1, TypedFacts
          <5>2. applied'[t] = job[x].edits \cap EditsOf(t)
            BY <3>2, <4>1, <5>1
          <5>3. QED  BY <3>2, <3>3, <4>1, <5>1, <5>2 DEF Served, Excused, Excuses
        <4>2. CASE t \notin page
          <5>1. t \in shown /\ t \in Texts
            BY <1>0, <3>2, <3>5, <4>2
          <5>2. applied'[t] = applied[t]
            BY <3>2, <4>2, <5>1
          <5>3. QED  BY <3>3, <3>4, <5>1, <5>2 DEF Carried
        <4>3. QED  BY <4>1, <4>2
      <3>6. QED  BY <2>0, <3>1, <3>5, CaughtWorker
    \* Steps that stop the handling of a text, and excuse it.
    <2>d. ASSUME NEW x \in Workers, Others(x), UNCHANGED <<mine, signed, row, shown, applied>>,
                 NEW how \in Excuses \ {"unsaved"}, excused' = excused \cup {<<TextOf(job[x].r), how>>}
          PROVE  Caught'
      <3>1. excused \subseteq excused' /\ <<TextOf(job[x].r), how>> \in excused'
        BY <2>d
      <3>2. \A t \in Texts : authorized_edits(t, row)' = authorized_edits(t, row)
        BY <2>d, AuthSame
      <3>3. ASSUME NEW t \in shown'  PROVE  Carried(x, t) \/ Excused(t)'
        <4>1. CASE t = TextOf(job[x].r)
          BY <3>1, <4>1 DEF Excused
        <4>2. CASE t # TextOf(job[x].r)
          <5>1. \A e : ~Brings(x, t, e)
            BY <4>2 DEF Brings
          <5>2. t \in shown /\ t \in Texts
            BY <1>0, <2>d, <3>3
          <5>3. QED  BY <2>d, <3>2, <5>1, <5>2 DEF Carried
        <4>3. QED  BY <4>1, <4>2
      <3>4. QED  BY <2>0, <2>d, <3>1, <3>3, CaughtWorker
    <2>12. ASSUME NEW x \in Intake, TimeOut(x)  PROVE  Caught'
      <3>1. /\ UNCHANGED <<mine, signed, row, shown, applied>> /\ Others(x) /\ x \in Workers
            /\ excused' = excused \cup {<<TextOf(job[x].r), "abandoned">>}
        BY <2>12, TimeOutStep, Basics DEF Moves
      <3>2. QED  BY <2>d, <3>1 DEF Excuses
    <2>13. ASSUME NEW c \in Commands, NEW r \in Rumors,
                  (r \in Texts /\ SendStart(c, r)) \/ (r \in Edits /\ EditStart(c, r))
           PROVE  Caught'
      <3>1. /\ UNCHANGED <<mine, row, shown, applied, excused>> /\ Signs(r) /\ pc[c] = "idle" /\ Others(c) /\ c \in Workers
        BY <2>13, WriteSteps, Basics DEF Moves
      <3>2. QED  BY <2>a, <3>1, SignsKeep
    <2>14. ASSUME NEW c \in Commands, LoadStart(c)  PROVE  Caught'
      <3>1. UNCHANGED Data /\ pc[c] = "idle" /\ Others(c) /\ c \in Workers
        BY <2>14, LoadStartStep, Basics DEF Moves
      <3>2. QED  BY <2>a, <3>1 DEF Data
    <2>15. CASE Evict
      <3>1. /\ UNCHANGED <<mine, signed, row, excused>> /\ UNCHANGED workVars /\ shown' \subseteq shown
            /\ \A t \in shown' : applied'[t] = applied[t]
        BY <1>0, <2>15, EvictStep
      <3>2. QED  BY <2>c, <3>1
    <2>16. ASSUME NEW x \in Workers, SaveChat(x) \/ (pc[x] = "saveChat" /\ Stumbles(x))  PROVE  Caught'
      <3>1. UNCHANGED Data /\ Others(x) /\ pc'[x] = "persist" /\ job'[x] = job[x]
        BY <2>16, SaveChatStep DEF Stumbles, Moves
      <3>2. \A t \in Texts : authorized_edits(t, row)' = authorized_edits(t, row)
        BY <3>1, AuthSame DEF Data
      <3>3. QED  BY <2>b, <3>1, <3>2 DEF Data
    <2>17. ASSUME NEW x \in Workers, DbError(x)  PROVE  Caught'
      <3>1. CASE Stumbles(x)
        <4>1. CASE pc[x] = "saveChat"
          BY <2>16, <3>1, <4>1
        <4>2. CASE pc[x] # "saveChat"
          <5>1. UNCHANGED Data /\ Others(x) /\ pc[x] \in {"exists", "saveEdit", "editSave"}
            BY <3>1, <4>2 DEF Stumbles, Moves
          <5>2. QED  BY <2>a, <5>1 DEF Data
        <4>3. QED  BY <4>1, <4>2
      <3>2. CASE GivesUp(x)
        <4>1. UNCHANGED <<mine, signed, row, shown, applied>> /\ Others(x)
          BY <3>2 DEF GivesUp, Moves
        <4>2. CASE excused' = excused \cup {<<TextOf(job[x].r), "unmerged">>}
          BY <2>d, <4>1, <4>2 DEF Excuses
        <4>3. CASE /\ excused' = excused \cup {<<TextOf(job[x].r), "unsaved">>} /\ pc[x] = "persist"
                   /\ row[job[x].r] = 0
          <5>1. TextOf(job[x].r) = job[x].r
            BY <4>3, TypedFacts, Basics DEF Holds, TextPcs
          <5>2. \A t \in Texts : authorized_edits(t, row)' = authorized_edits(t, row)
            BY <4>1, AuthSame
          <5>3. authorized_edits(job[x].r, row) = {}
            BY <4>3 DEF authorized_edits, edit_received_in_time
          <5>4. ASSUME NEW t \in shown'  PROVE  Served(x, t) \/ Carried(x, t)
            <6>0. t \in shown /\ t \in Texts
              BY <1>0, <4>1, <5>4
            <6>1. CASE t = job[x].r
              BY <5>2, <5>3, <6>0, <6>1 DEF Served
            <6>2. CASE t # job[x].r
              <7>1. \A e : ~Brings(x, t, e)
                BY <5>1, <6>2 DEF Brings
              <7>2. QED  BY <4>1, <5>2, <6>0, <7>1 DEF Carried
            <6>3. QED  BY <6>1, <6>2
          <5>5. excused \subseteq excused'
            BY <4>3
          <5>6. QED  BY <2>0, <4>1, <5>4, <5>5, CaughtWorker
        <4>4. QED  BY <3>2, <4>2, <4>3 DEF GivesUp
      <3>3. QED  BY <1>4, <2>17, <3>1, <3>2, DbErrorStep
    <2>18. QED
      BY <1>4, <2>1, <2>2, <2>3, <2>4, <2>5, <2>6, <2>7, <2>8, <2>9, <2>10, <2>11, <2>12, <2>13, <2>14, <2>15,
         <2>16, <2>17, Basics DEF Next, Handle
  <1>5. ASSUME NEW c \in Workers, Undeleted(c)  PROVE  Caught'
    <2>1. shown' = shown /\ spared' = Rumors
      BY <1>5 DEF Undeleted
    <2>2. \A t \in shown' : Spared(t)'
      BY <1>0, <2>1 DEF Spared, Rumors
    <2>3. QED  BY <2>2 DEF Caught, CaughtUp
  <1>6. QED  BY <1>1, <1>2, <1>3, <1>4, <1>5, Basics

LEMMA MemoryInit == Init => ReadSet /\ Backed /\ Caught
  BY Basics DEF Init, ReadSet, Backed, Caught

LEMMA MemoryFollows ==
    ASSUME Typed, Screen, Backed, Caught
    PROVE  MemoryFollowsStore
  <1>1. SUFFICES ASSUME NEW t \in shown, AtRest(t), ~Spared(t), ~Excused(t)
                 PROVE  applied[t] = authorized_edits(t, row)
    BY DEF MemoryFollowsStore, Excused
  <1>2. t \in Texts /\ ~Deleting
    BY <1>1, TypedFacts DEF AtRest, Deleting
  <1>3. applied[t] \subseteq EditsOf(t)
    BY <1>2 DEF Screen
  <1>4. ASSUME NEW e \in applied[t]  PROVE  e \in authorized_edits(t, row)
    <2>1. Of[e] = t /\ e \notin spared
      BY <1>1, <1>3, <1>4 DEF Spared, EditsOf
    <2>2. QED  BY <1>2, <1>4, <2>1 DEF Backed, Backs
  <1>5. ASSUME NEW e \in authorized_edits(t, row), e \notin applied[t]  PROVE  FALSE
    <2>1. PICK x \in Workers : Brings(x, t, e)
      BY <1>1, <1>2, <1>5 DEF Caught, CaughtUp
    <2>2. HasRumor(x) /\ TextOf(job[x].r) = t
      BY <2>1 DEF Brings, HasRumor
    <2>3. QED  BY <1>1, <2>2 DEF AtRest
  <1>6. QED  BY <1>4, <1>5

-----------------------------------------------------------------------------
(* The theorems. *)

\* Everything at once.
Inv == Typed /\ Permitted /\ Screen /\ Cleared /\ Durable /\ ReadSet /\ Backed /\ Caught

LEMMA Invariance == Spec => []Inv
  <1>1. Init => Inv
    BY TypedInit, LedgerInvInit, ClearedInit, DurableInit, MemoryInit DEF Inv
  <1>2. Inv /\ [Next]_vars => Inv'
    <2>1. SUFFICES ASSUME Inv, [Next]_vars  PROVE  Inv'
      OBVIOUS
    <2>2. Typed'
      BY <2>1, TypedStep DEF Inv
    <2>3. Permitted' /\ Screen'
      BY <2>1, PermittedStep, ScreenStep DEF Inv
    <2>4. Cleared' /\ Durable'
      BY <2>1, ClearedStep, DurableStep DEF Inv
    <2>5. ReadSet' /\ Backed' /\ Caught'
      BY <2>1, <2>2, ReadSetStep, BackedStep, CaughtStep DEF Inv
    <2>6. QED  BY <2>2, <2>3, <2>4, <2>5 DEF Inv
  <1>3. QED  BY <1>1, <1>2, PTL DEF Spec

\* TypeOK holds of every behaviour of the chat: the wraps the tables and the cache know were
\* on the relays, no chat in memory has no messages, no timeout count passes the faults that
\* happened.
THEOREM TypeCorrect == Spec => []TypeOK
  <1>1. Inv => TypeOK
    BY DEF Inv, Typed
  <1>2. QED  BY <1>1, Invariance, PTL

\* Deletion (delete_dm_chat against handle_event's cutoff check): once no deletion is under
\* way, a row stamped at or before the last cutoff is one that was past the check, or being
\* sent, when the deletion ran.
THEOREM DeletionHolds == Spec => []DeletedStaysDeleted
  <1>1. Inv => DeletedStaysDeleted
    BY DEF Inv, Cleared, DeletedStaysDeleted, Deleting
  <1>2. QED  BY <1>1, Invariance, PTL

\* Durability (handle_text_message, message): a text on the screen that nothing is at work on
\* is in the events table, whichever handlers, sends and page loads ran side by side and
\* whichever database calls failed; the exceptions are a text whose own save failed, one whose
\* handling the deadline cut short, and one a deletion spared.
THEOREM ShownDurable == Spec => []ShownIsDurable
  <1>1. Inv => ShownIsDurable
    BY DurableShown DEF Inv
  <1>2. QED  BY <1>1, Invariance, PTL

\* Reconciliation (reconcile_message_edits, edit_message, get_message_views): at rest, the
\* edits applied to a text in memory are the ones the store authorises, in whichever order
\* the text, its edits, sends and page loads came.  A failed save or read, the deadline, an
\* overtaken page and a deletion excuse the text they hit, and no other.
THEOREM MemoryFaithful == Spec => []MemoryFollowsStore
  <1>1. Inv => MemoryFollowsStore
    BY MemoryFollows DEF Inv
  <1>2. QED  BY <1>1, Invariance, PTL

\* The chat implements EditLedger: receipts are set once and only deletion clears them, and
\* the screen only ever shows edits the store has authorised, and keeps them.
THEOREM ImplementsLedger == Spec => KeepsLedger
  <1>1. Init => Ledger!Init
    BY LedgerInit
  <1>2. Inv /\ Inv' /\ [Next]_vars => [Ledger!Next]_(Ledger!ledgerVars)
    BY LedgerStep DEF Inv
  <1>3. QED  BY <1>1, <1>2, Invariance, PTL DEF Spec, KeepsLedger, Ledger!Spec
=============================================================================
