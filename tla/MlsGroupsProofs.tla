-------------------------- MODULE MlsGroupsProofs --------------------------
(***************************************************************************)
(* Safety of MlsGroups for any sets of groups and tasks and any bounds.    *)
(***************************************************************************)
EXTENDS MlsGroups, FiniteSetTheorems, TLAPS

Wrapper == [kind : {"msg", "remove"}, at : Nat]
Job == [snap : [Groups -> Nat], since : Nat, until : Nat, todo : SUBSET Nat,
        last : Nat, buf : SUBSET (Groups \X Nat), evicted : BOOLEAN]

\* The types of the tasks' locals and of the state they share.
TaskTyped ==
    /\ pc \in [Tasks -> Pcs] /\ grp \in [Tasks -> Groups \cup {NoGroup}]
    /\ seen \in [Tasks -> [Groups -> {"none", "live", "evicted"}]]
    /\ job \in [Tasks -> Job]
StoreTyped ==
    /\ clock \in Nat /\ log \in [Groups -> Seq(Wrapper)]
    /\ belongs \subseteq Groups /\ welcome \in [Groups -> Nat \cup {None}]
    /\ joinedAt \in [Groups -> Nat]
    /\ engine \in [Groups -> {"none", "member", "out"}]
    /\ row \in [Groups -> {"none", "live", "evicted"}]
    /\ chat \subseteq Groups /\ cursor \in [Groups -> Nat]
    /\ lock \in Tasks \cup {NoTask}
    /\ stored \cup shown \cup lost \subseteq consumed /\ faults \in 0..MaxFaults
    /\ consumed \cup delivered \cup refused \subseteq Wrappers
Typed == TaskTyped /\ StoreTyped

\* What a task holds: a group, only wrappers that are on the relays and, between opening
\* and storing them, only messages the engine has opened.
JobInv ==
    \A t \in Tasks :
        /\ pc[t] \notin {"idle", "reapRead", "reapDelete"} => grp[t] \in Groups
        /\ pc[t] = "idle" => job[t] = NoJob
        /\ pc[t] \in {"syncItem", "liveItem"} => job[t].todo \subseteq 1..Len(log[grp[t]])
        /\ job[t].buf \subseteq consumed
        /\ job[t].buf # {} => pc[t] \in {"syncItem", "syncStore", "liveStore"}

\* What the guard protects: the group a command is about to write a live row for is in the
\* engine, and a sweep has not missed a live row.
GuardInv ==
    /\ GuardHeld
    /\ \A t \in Tasks :
        /\ pc[t] \in {"createSave", "acceptRead", "acceptSave"} => engine[grp[t]] # "none"
        /\ pc[t] = "reapDelete" => \A g \in Groups : seen[t][g] = "none" => row[g] # "live"

USE GroupsAssumption

-----------------------------------------------------------------------------
\* A wrapper is a group and a position in its log.
LEMMA WrapperIn ==
    ASSUME Typed
    PROVE  /\ \A g \in Groups : \A i \in 1..Len(log[g]) : <<g, i>> \in Wrappers
           /\ \A w \in Wrappers : /\ w \in Groups \X Nat /\ w = <<w[1], w[2]>>
                                  /\ w[1] \in Groups /\ w[2] \in 1..Len(log[w[1]])
  <1>1. \A g \in Groups : Len(log[g]) \in Nat
    BY DEF Typed, StoreTyped
  <1>2. QED  BY <1>1 DEF Wrappers

\* What a wrapper carries.
LEMMA EntryFields ==
    ASSUME Typed, NEW g \in Groups, NEW i \in 1..Len(log[g])
    PROVE  log[g][i].kind \in {"msg", "remove"} /\ log[g][i].at \in Nat
  <1>1. log[g] \in Seq(Wrapper)
    BY DEF Typed, StoreTyped
  <1>2. log[g][i] \in Wrapper
    BY <1>1
  <1>3. QED  BY <1>2 DEF Wrapper

LEMMA WrapperFields ==
    ASSUME Typed, NEW w \in Wrappers
    PROVE  Kind(w) \in {"msg", "remove"} /\ At(w) \in Nat
  <1>1. w[1] \in Groups /\ w[2] \in 1..Len(log[w[1]])
    BY WrapperIn
  <1>2. QED  BY <1>1, EntryFields DEF Kind, At

\* Logs only grow.
LEMMA PublishGrows ==
    ASSUME Typed, NEW g \in Groups, NEW kind \in {"msg", "remove"}, Publish(g, kind)
    PROVE  /\ clock' \in Nat /\ clock' >= clock
           /\ log' \in [Groups -> Seq(Wrapper)]
           /\ \A h \in Groups : h # g => log'[h] = log[h]
           /\ Len(log'[g]) = Len(log[g]) + 1
           /\ \A i \in 1..Len(log[g]) : log'[g][i] = log[g][i]
           /\ log'[g][Len(log[g]) + 1] = [kind |-> kind, at |-> clock']
  <1>1. clock' \in Nat /\ clock' >= clock
    BY DEF Publish, Typed, StoreTyped
  <1>2. log' = [log EXCEPT ![g] = Append(log[g], [kind |-> kind, at |-> clock'])]
    BY DEF Publish
  <1>3. log[g] \in Seq(Wrapper) /\ [kind |-> kind, at |-> clock'] \in Wrapper
    BY <1>1 DEF Typed, StoreTyped, Wrapper
  <1>4. QED  BY <1>1, <1>2, <1>3 DEF Typed, StoreTyped

\* What was a wrapper stays one, of the same kind.
LEMMA WrappersGrow ==
    ASSUME Typed, NEW g \in Groups, NEW kind \in {"msg", "remove"}, Publish(g, kind)
    PROVE  /\ Wrappers' = Wrappers \cup {<<g, Len(log[g]) + 1>>}
           /\ <<g, Len(log[g]) + 1>> \notin Wrappers
           /\ \A w \in Wrappers : Kind(w)' = Kind(w)
  <1>1. /\ log' \in [Groups -> Seq(Wrapper)]
        /\ \A h \in Groups : h # g => log'[h] = log[h]
        /\ Len(log'[g]) = Len(log[g]) + 1
        /\ \A i \in 1..Len(log[g]) : log'[g][i] = log[g][i]
    BY PublishGrows
  <1>2. \A h \in Groups : Len(log[h]) \in Nat
    BY DEF Typed, StoreTyped
  <1>3. Wrappers' = Wrappers \cup {<<g, Len(log[g]) + 1>>}
    <2>1. 1..Len(log'[g]) = (1..Len(log[g])) \cup {Len(log[g]) + 1}
      BY <1>1, <1>2
    <2>2. \A h \in Groups : h # g => 1..Len(log'[h]) = 1..Len(log[h])
      BY <1>1
    <2>3. \A w : w \in Wrappers <=> \E h \in Groups : \E i \in 1..Len(log[h]) : w = <<h, i>>
      BY DEF Wrappers
    <2>4. \A w : w \in Wrappers' <=> \E h \in Groups : \E i \in 1..Len(log'[h]) : w = <<h, i>>
      BY DEF Wrappers
    <2> HIDE DEF Wrappers
    <2>5. ASSUME NEW w \in Wrappers'  PROVE  w \in Wrappers \cup {<<g, Len(log[g]) + 1>>}
      <3>1. PICK h \in Groups : \E i \in 1..Len(log'[h]) : w = <<h, i>>
        BY <2>4
      <3>2. PICK i \in 1..Len(log'[h]) : w = <<h, i>>
        BY <3>1
      <3>3. CASE h # g
        BY <2>2, <2>3, <3>2, <3>3
      <3>4. CASE h = g
        BY <2>1, <2>3, <3>2, <3>4
      <3>5. QED  BY <3>3, <3>4
    <2>6. ASSUME NEW w \in Wrappers  PROVE  w \in Wrappers'
      <3>1. PICK h \in Groups : \E i \in 1..Len(log[h]) : w = <<h, i>>
        BY <2>3
      <3>2. PICK i \in 1..Len(log[h]) : w = <<h, i>>
        BY <3>1
      <3>3. i \in 1..Len(log'[h])
        BY <2>1, <2>2
      <3>4. QED  BY <2>4, <3>2, <3>3
    <2>7. <<g, Len(log[g]) + 1>> \in Wrappers'
      BY <2>1, <2>4
    <2>8. QED  BY <2>5, <2>6, <2>7
  <1>4. <<g, Len(log[g]) + 1>> \notin Wrappers
    BY <1>2, WrapperIn
  <1>5. \A w \in Wrappers : Kind(w)' = Kind(w)
    <2> SUFFICES ASSUME NEW w \in Wrappers PROVE Kind(w)' = Kind(w)
      OBVIOUS
    <2>1. w[1] \in Groups /\ w[2] \in 1..Len(log[w[1]])
      BY WrapperIn
    <2>2. QED  BY <1>1, <2>1 DEF Kind
  <1>6. QED  BY <1>3, <1>4, <1>5

\* Nothing published, nothing new.
LEMMA SameLog ==
    ASSUME log' = log
    PROVE  Wrappers' = Wrappers /\ \A w : Kind(w)' = Kind(w)
  BY DEF Wrappers, Kind

\* The locals of a task that does nothing.
LEMMA NoJobType ==
    /\ NoJob \in Job /\ NoRows \in [Groups -> {"none", "live", "evicted"}]
    /\ NoJob.todo = {} /\ NoJob.buf = {} /\ NoJob.last = 0 /\ ~NoJob.evicted
    /\ \A g \in Groups : NoJob.snap[g] = 0
  BY DEF NoJob, Job, NoRows

\* What a sync or a live handler changes of its locals.
LEMMA JobChanges ==
    ASSUME NEW j \in Job
    PROVE  /\ \A m \in [Groups -> Nat] :
                /\ [j EXCEPT !.snap = m] \in Job /\ [j EXCEPT !.snap = m].snap = m
                /\ [j EXCEPT !.snap = m].buf = j.buf /\ [j EXCEPT !.snap = m].last = j.last
                /\ [j EXCEPT !.snap = m].evicted = j.evicted
           /\ \A s \in SUBSET Nat :
                /\ [j EXCEPT !.todo = s] \in Job /\ [j EXCEPT !.todo = s].todo = s
                /\ [j EXCEPT !.todo = s].buf = j.buf /\ [j EXCEPT !.todo = s].last = j.last
                /\ [j EXCEPT !.todo = s].snap = j.snap
                /\ [j EXCEPT !.todo = s].evicted = j.evicted
           /\ \A b \in SUBSET (Groups \X Nat) :
                /\ [j EXCEPT !.buf = b] \in Job /\ [j EXCEPT !.buf = b].buf = b
                /\ [j EXCEPT !.buf = b].snap = j.snap /\ [j EXCEPT !.buf = b].last = j.last
                /\ [j EXCEPT !.buf = b].evicted = j.evicted
  BY DEF Job

\* What a sync remembers of a wrapper it offered.
LEMMA NotedFields ==
    ASSUME NEW j \in Job, NEW w \in Groups \X Nat, NEW answer \in Results, At(w) \in Nat
    PROVE  /\ Noted(j, w, answer) \in Job
           /\ Noted(j, w, answer).todo = j.todo \ {w[2]}
           /\ Noted(j, w, answer).snap = j.snap
           /\ answer = "msg" => Noted(j, w, answer).buf = j.buf \cup {w}
           /\ answer # "msg" => Noted(j, w, answer).buf = j.buf
           /\ answer \in {"error", "evicted"} => Noted(j, w, answer).last = j.last
           /\ answer \notin {"error", "evicted"} => Noted(j, w, answer).last = At(w)
           /\ answer = "evicted" => Noted(j, w, answer).evicted
           /\ answer # "evicted" => Noted(j, w, answer).evicted = j.evicted
  <1> DEFINE b == IF answer = "msg" THEN j.buf \cup {w} ELSE j.buf
             l == IF answer \in {"error", "evicted"} THEN j.last ELSE At(w)
             e == IF answer = "evicted" THEN TRUE ELSE j.evicted
             n == Noted(j, w, answer)
  <1>1. n = [j EXCEPT !.todo = j.todo \ {w[2]}, !.buf = b, !.last = l, !.evicted = e]
    BY DEF Noted, Buffered
  <1>2. j.buf \in SUBSET (Groups \X Nat)
    BY DEF Job
  <1>3. j.evicted \in BOOLEAN
    BY DEF Job
  <1>4. l \in Nat /\ j.todo \ {w[2]} \in SUBSET Nat
    BY DEF Job
  <1>5. b \in SUBSET (Groups \X Nat)
    BY <1>2
  <1>6. e \in BOOLEAN
    BY <1>3
  <1> HIDE DEF b, l, e, n
  <1>7. n \in Job /\ n.todo = j.todo \ {w[2]} /\ n.snap = j.snap /\ n.buf = b /\ n.last = l
    BY <1>1, <1>4, <1>5, <1>6 DEF Job
  <1>8. n.evicted = e
    BY <1>1, <1>4, <1>5, <1>6 DEF Job
  <1>9. /\ answer = "msg" => n.buf = j.buf \cup {w}
        /\ answer # "msg" => n.buf = j.buf
    BY <1>7 DEF b
  <1>10. /\ answer \in {"error", "evicted"} => n.last = j.last
         /\ answer \notin {"error", "evicted"} => n.last = At(w)
    BY <1>7 DEF l
  <1>11. /\ answer = "evicted" => n.evicted
         /\ answer # "evicted" => n.evicted = j.evicted
    BY <1>8 DEF e
  <1>12. QED  BY <1>7, <1>9, <1>10, <1>11 DEF n

\* A task that ends gives everything back.
LEMMA EndKeeps ==
    ASSUME Typed, JobInv, NEW t \in Tasks, End(t), log' = log, consumed \subseteq consumed'
    PROVE  TaskTyped' /\ JobInv'
  <1>1. TaskTyped'
    BY NoJobType DEF Typed, TaskTyped, End, Pcs
  <1>2. JobInv'
    BY NoJobType DEF Typed, TaskTyped, JobInv, End
  <1>3. QED  BY <1>1, <1>2

\* A task that has nothing open moves on.
LEMMA GoKeeps ==
    ASSUME Typed, JobInv, NEW t \in Tasks, NEW next \in Pcs \ {"idle", "syncItem", "liveItem"},
           Go(t, next), next = "reapDelete" \/ grp[t] \in Groups, job[t].buf = {},
           job' = job, log' = log, consumed' = consumed,
           seen' = seen \/ seen' = [seen EXCEPT ![t] = row]
    PROVE  TaskTyped' /\ JobInv'
  <1>1. TaskTyped'
    <2>1. CASE seen' = seen
      BY <2>1 DEF Typed, TaskTyped, Go
    <2>2. CASE seen' = [seen EXCEPT ![t] = row]
      BY <2>2 DEF Typed, TaskTyped, StoreTyped, Go
    <2>3. QED  BY <2>1, <2>2
  <1>2. JobInv'
    BY DEF Typed, TaskTyped, JobInv, Go
  <1>3. QED  BY <1>1, <1>2

\* An idle task takes up a command.
LEMMA StartKeeps ==
    ASSUME Typed, JobInv, NEW t \in Tasks, NEW next \in Pcs \ {"idle", "syncItem", "liveItem"},
           NEW g \in Groups \cup {NoGroup}, g = NoGroup => next = "reapRead", Start(t, g, next),
           UNCHANGED <<seen, job>>, log' = log, consumed' = consumed
    PROVE  TaskTyped' /\ JobInv'
  <1>1. TaskTyped'
    BY DEF Typed, TaskTyped, Start
  <1>2. JobInv'
    BY NoJobType DEF Typed, TaskTyped, JobInv, Start
  <1>3. QED  BY <1>1, <1>2

\* What saving a chat, writing cursors, dropping a chat and storing messages do, whatever
\* fails on the way.
LEMMA SaveChatDoes ==
    ASSUME Typed, NEW g \in Groups, SaveChat(g)
    PROVE  chat' \subseteq Groups /\ faults' \in 0..MaxFaults /\ (faults' = 0 => faults = 0)
  BY DEF SaveChat, Fault, Typed, StoreTyped

LEMMA WriteCursorsDoes ==
    ASSUME Typed, NEW map \in [Groups -> Nat], WriteCursors(map)
    PROVE  /\ cursor' \in [Groups -> Nat] /\ faults' \in 0..MaxFaults /\ (faults' = 0 => faults = 0)
           /\ \A g \in Groups : cursor'[g] = cursor[g] \/ (cursor'[g] = map[g] /\ map[g] # 0)
  <1>1. PICK written \in SUBSET {g \in Groups : map[g] # 0} :
            /\ cursor' = [g \in Groups |-> IF g \in written THEN map[g] ELSE cursor[g]]
            /\ Fault(\E g \in Groups \ written : map[g] # 0)
    BY DEF WriteCursors
  <1>2. faults' \in 0..MaxFaults /\ (faults' = 0 => faults = 0)
    BY <1>1 DEF Fault, Typed, StoreTyped
  <1>3. QED  BY <1>1, <1>2 DEF Typed, StoreTyped

LEMMA DropShownDoes ==
    ASSUME NEW g \in Groups, DropShown(g)
    PROVE  /\ UNCHANGED <<chat, stored, faults>> /\ shown' \subseteq shown
           /\ lost \subseteq lost' /\ lost' \subseteq lost \cup shown
           /\ shown \subseteq shown' \cup stored' \cup lost'
  BY DEF DropShown, InGroup

LEMMA DropChatDoes ==
    ASSUME Typed, NEW g \in Groups, DropChat(g)
    PROVE  /\ chat' \subseteq Groups /\ shown' = shown
           /\ faults' \in 0..MaxFaults /\ (faults' = 0 => faults = 0)
           /\ lost \subseteq lost' /\ lost' \subseteq lost \cup stored
           /\ stored' \subseteq stored /\ stored \subseteq stored' \cup lost'
  <1>1. PICK gone \in {InGroup(stored, g), {}} :
            /\ stored' = stored \ gone /\ lost' = lost \cup gone /\ shown' = shown
            /\ \/ chat' = chat \ {g} /\ Fault(FALSE)
               \/ chat' = chat /\ Fault(TRUE)
    BY DEF DropChat
  <1>2. gone \subseteq stored
    BY DEF InGroup
  <1>3. faults' \in 0..MaxFaults /\ (faults' = 0 => faults = 0)
    BY <1>1 DEF Fault, Typed, StoreTyped
  <1>4. QED  BY <1>1, <1>2, <1>3 DEF Typed, StoreTyped

LEMMA StoreMessagesDoes ==
    ASSUME Typed, NEW g \in Groups, NEW msgs \in SUBSET consumed, NEW all \in BOOLEAN,
           StoreMessages(g, msgs, all)
    PROVE  /\ chat' \subseteq Groups /\ stored' \cup shown' \cup lost' \subseteq consumed
           /\ stored \subseteq stored' /\ lost \subseteq lost' /\ shown \subseteq shown'
           /\ msgs \subseteq shown' \cup lost' /\ shown' \subseteq shown \cup msgs
           /\ faults' \in 0..MaxFaults
           /\ faults' = 0 => faults = 0 /\ msgs \subseteq stored'
  <1>1. PICK dropped \in SUBSET msgs :
            LET added == msgs \ dropped
                open == IF added = {} THEN {} ELSE (InGroup(shown, g) \cup added) \ stored
            IN  \E saved \in SUBSET open :
                    /\ shown' = shown \cup added
                    /\ stored' = stored \cup saved
                    /\ lost' = lost \cup dropped
                    /\ \/ added # {} /\ chat' = chat \cup {g}
                       \/ saved = {} /\ chat' = chat
                    /\ Fault(~((IF all THEN open \cup msgs ELSE msgs) \subseteq saved))
    BY DEF StoreMessages
  <1> DEFINE added == msgs \ dropped
             open == IF added = {} THEN {} ELSE (InGroup(shown, g) \cup added) \ stored
             due == IF all THEN open \cup msgs ELSE msgs
  <1>2. PICK saved \in SUBSET open :
            /\ shown' = shown \cup added /\ stored' = stored \cup saved
            /\ lost' = lost \cup dropped
            /\ \/ chat' = chat \cup {g} \/ chat' = chat
            /\ Fault(~(due \subseteq saved))
    BY <1>1
  <1>3. open \subseteq shown \cup msgs
    BY DEF InGroup
  <1>4. msgs \subseteq due
    OBVIOUS
  <1> HIDE DEF open, due
  <1>5. /\ faults' \in 0..MaxFaults
        /\ faults' = 0 => faults = 0 /\ due \subseteq saved
    <2>1. CASE due \subseteq saved
      BY <1>2, <2>1 DEF Fault, Typed, StoreTyped
    <2>2. CASE ~(due \subseteq saved)
      BY <1>2, <2>2 DEF Fault, Typed, StoreTyped
    <2>3. QED  BY <2>1, <2>2
  <1>6. stored' \cup shown' \cup lost' \subseteq consumed
    BY <1>2, <1>3 DEF Typed, StoreTyped
  <1>7. QED  BY <1>2, <1>4, <1>5, <1>6 DEF Typed, StoreTyped

\* What the engine's answer changes beside what it opened.
LEMMA ProcessDoes ==
    ASSUME Typed, NEW w \in Wrappers, NEW answer \in Results, Process(w, answer)
    PROVE  /\ refused \subseteq refused' /\ refused' \subseteq refused \cup {w}
           /\ faults' \in 0..MaxFaults /\ (faults' = 0 => faults = 0)
           /\ consumed \subseteq consumed' /\ consumed' \subseteq consumed \cup {w}
           /\ engine' \in [Groups -> {"none", "member", "out"}]
           /\ welcome' = welcome /\ joinedAt' = joinedAt
           /\ answer = "msg" => w \in consumed'
  <1>1. refused \subseteq refused' /\ refused' \subseteq refused \cup {w}
    BY DEF Process
  <1>2. faults' \in 0..MaxFaults /\ (faults' = 0 => faults = 0)
    <2>1. Fault(Fails(w, answer))
      BY DEF Process
    <2>2. QED  BY <2>1 DEF Fault, Typed, StoreTyped
  <1>3. QED  BY <1>1, <1>2 DEF Process, Typed, StoreTyped

-----------------------------------------------------------------------------
\* Every step keeps the types and what tasks may hold.
LEMMA TypedStep ==
    ASSUME Typed, JobInv, [Next]_vars
    PROVE  Typed' /\ JobInv'
  <1>1. ASSUME NEW t \in Tasks, NEW g \in Groups, CreateEngine(t, g)  PROVE  Typed' /\ JobInv'
    <2>1. TaskTyped' /\ JobInv'
      BY <1>1, StartKeeps DEF CreateEngine, Pcs, Locked, netVars, memberVars, storeVars
    <2>2. StoreTyped'
      BY <1>1, SameLog DEF Typed, TaskTyped, StoreTyped, JobInv, CreateEngine, Start, Acquire, netVars, memberVars, storeVars
    <2>3. QED  BY <2>1, <2>2 DEF Typed
  <1>2. ASSUME NEW t \in Tasks, NEW g \in Groups, AcceptEngine(t, g)  PROVE  Typed' /\ JobInv'
    <2>1. TaskTyped' /\ JobInv'
      BY <1>2, StartKeeps DEF AcceptEngine, Pcs, Locked, netVars, memberVars, storeVars
    <2>2. StoreTyped'
      BY <1>2, SameLog DEF Typed, TaskTyped, StoreTyped, JobInv, AcceptEngine, Start, Acquire, netVars, memberVars, storeVars
    <2>3. QED  BY <2>1, <2>2 DEF Typed
  <1>3. ASSUME NEW t \in Tasks, NEW g \in Groups, LeaveStart(t, g)  PROVE  Typed' /\ JobInv'
    <2>1. TaskTyped' /\ JobInv'
      BY <1>3, StartKeeps DEF LeaveStart, Pcs, Locked, netVars, memberVars, storeVars
    <2>2. StoreTyped'
      BY <1>3, SameLog DEF Typed, StoreTyped, LeaveStart, netVars, memberVars, storeVars
    <2>3. QED  BY <2>1, <2>2 DEF Typed
  <1>4. ASSUME NEW t \in Tasks, NEW g \in Groups, SyncNow(t, g)  PROVE  Typed' /\ JobInv'
    <2>1. TaskTyped' /\ JobInv'
      BY <1>4, StartKeeps DEF SyncNow, Pcs, Locked, netVars, memberVars, storeVars
    <2>2. StoreTyped'
      BY <1>4, SameLog DEF Typed, StoreTyped, SyncNow, netVars, memberVars, storeVars
    <2>3. QED  BY <2>1, <2>2 DEF Typed
  <1>5. ASSUME NEW t \in Tasks, NEW g \in Groups, SendRefused(t, g)  PROVE  Typed' /\ JobInv'
    <2>1. TaskTyped' /\ JobInv'
      BY <1>5, StartKeeps DEF SendRefused, Pcs, Locked, netVars, memberVars, storeVars
    <2>2. StoreTyped'
      BY <1>5, SameLog DEF Typed, StoreTyped, SendRefused, netVars, memberVars, storeVars
    <2>3. QED  BY <2>1, <2>2 DEF Typed
  <1>6. ASSUME NEW t \in Tasks, ReapStart(t)  PROVE  Typed' /\ JobInv'
    <2>1. TaskTyped' /\ JobInv'
      BY <1>6, StartKeeps DEF ReapStart, Pcs, Locked, netVars, memberVars, storeVars
    <2>2. StoreTyped'
      BY <1>6, SameLog DEF Typed, TaskTyped, StoreTyped, JobInv, ReapStart, Start, Acquire, netVars, memberVars, storeVars
    <2>3. QED  BY <2>1, <2>2 DEF Typed
  <1>7. ASSUME NEW t \in Tasks, CreateSave(t)  PROVE  Typed' /\ JobInv'
    <2>1. TaskTyped' /\ JobInv'
      <3>1. CASE End(t)
        BY <1>7, <3>1, EndKeeps DEF CreateSave, netVars, memberVars, storeVars
      <3>2. CASE Go(t, "createChat") /\ seen' = seen /\ job' = job
        BY <1>7, <3>2, GoKeeps DEF CreateSave, JobInv, Pcs, Locked, netVars, memberVars, storeVars
      <3>3. QED  BY <1>7, <3>1, <3>2 DEF CreateSave
    <2>2. StoreTyped'
      <3>1. row' \in [Groups -> {"none", "live", "evicted"}] /\ lock' = NoTask
        BY <1>7 DEF Typed, StoreTyped, JobInv, CreateSave, SaveRow
      <3>2. QED  BY <1>7, <3>1, SameLog DEF Typed, StoreTyped, CreateSave, netVars, memberVars, storeVars
    <2>3. QED  BY <2>1, <2>2 DEF Typed
  <1>8. ASSUME NEW t \in Tasks, CreateChat(t)  PROVE  Typed' /\ JobInv'
    <2>1. TaskTyped' /\ JobInv'
      BY <1>8, EndKeeps DEF CreateChat, netVars, memberVars, storeVars
    <2>2. StoreTyped'
      <3>1. SaveChat(grp[t]) /\ grp[t] \in Groups
        BY <1>8 DEF CreateChat, JobInv
      <3>2. QED  BY <1>8, <3>1, SaveChatDoes, SameLog DEF Typed, StoreTyped, CreateChat, netVars, memberVars
    <2>3. QED  BY <2>1, <2>2 DEF Typed
  <1>9. ASSUME NEW t \in Tasks, AcceptRead(t)  PROVE  Typed' /\ JobInv'
    <2>1. TaskTyped' /\ JobInv'
      BY <1>9, GoKeeps DEF AcceptRead, JobInv, Pcs, Locked, netVars, memberVars, storeVars
    <2>2. StoreTyped'
      BY <1>9, SameLog DEF Typed, StoreTyped, AcceptRead, netVars, memberVars, storeVars
    <2>3. QED  BY <2>1, <2>2 DEF Typed
  <1>10. ASSUME NEW t \in Tasks, AcceptSave(t)  PROVE  Typed' /\ JobInv'
    <2>1. TaskTyped' /\ JobInv'
      <3>1. CASE End(t)
        BY <1>10, <3>1, EndKeeps DEF AcceptSave, netVars, memberVars, storeVars
      <3>2. CASE Go(t, "acceptChat") /\ seen' = seen /\ job' = job
        BY <1>10, <3>2, GoKeeps DEF AcceptSave, JobInv, Pcs, Locked, netVars, memberVars, storeVars
      <3>3. QED  BY <1>10, <3>1, <3>2 DEF AcceptSave
    <2>2. StoreTyped'
      BY <1>10, SameLog DEF Typed, TaskTyped, StoreTyped, JobInv, AcceptSave, SaveRow, netVars, memberVars, storeVars
    <2>3. QED  BY <2>1, <2>2 DEF Typed
  <1>11. ASSUME NEW t \in Tasks, AcceptChat(t)  PROVE  Typed' /\ JobInv'
    <2>1. TaskTyped' /\ JobInv'
      BY <1>11, GoKeeps DEF AcceptChat, JobInv, Pcs, Locked, netVars, memberVars, storeVars
    <2>2. StoreTyped'
      <3>1. (SaveChat(grp[t]) \/ UNCHANGED <<chat, faults>>) /\ grp[t] \in Groups
        BY <1>11 DEF AcceptChat, JobInv
      <3>2. chat' \subseteq Groups /\ faults' \in 0..MaxFaults
        BY <3>1, SaveChatDoes DEF Typed, StoreTyped
      <3>3. QED  BY <1>11, <3>2, SameLog DEF Typed, StoreTyped, AcceptChat, netVars, memberVars
    <2>3. QED  BY <2>1, <2>2 DEF Typed
  <1>12. ASSUME NEW t \in Tasks, LeavePublish(t)  PROVE  Typed' /\ JobInv'
    <2>1. TaskTyped' /\ JobInv'
      <3>1. CASE End(t)
        BY <1>12, <3>1, EndKeeps DEF LeavePublish, netVars, memberVars, storeVars
      <3>2. CASE Go(t, "leaveRow") /\ seen' = seen /\ job' = job
        BY <1>12, <3>2, GoKeeps DEF LeavePublish, JobInv, Pcs, Locked, netVars, memberVars, storeVars
      <3>3. QED  BY <1>12, <3>1, <3>2 DEF LeavePublish
    <2>2. StoreTyped'
      BY <1>12, SameLog DEF Typed, StoreTyped, LeavePublish, netVars, memberVars, storeVars
    <2>3. QED  BY <2>1, <2>2 DEF Typed
  <1>13. ASSUME NEW t \in Tasks, LeaveRow(t)  PROVE  Typed' /\ JobInv'
    <2>1. TaskTyped' /\ JobInv'
      <3>1. CASE End(t)
        BY <1>13, <3>1, EndKeeps DEF LeaveRow, netVars, memberVars, storeVars
      <3>2. CASE Go(t, "leaveState") /\ seen' = seen /\ job' = job
        BY <1>13, <3>2, GoKeeps DEF LeaveRow, JobInv, Pcs, Locked, netVars, memberVars, storeVars
      <3>3. QED  BY <1>13, <3>1, <3>2 DEF LeaveRow
    <2>2. StoreTyped'
      <3>1. row' \in [Groups -> {"none", "live", "evicted"}]
        BY <1>13 DEF Typed, StoreTyped, LeaveRow
      <3>2. QED  BY <1>13, <3>1, SameLog DEF Typed, StoreTyped, LeaveRow, netVars, memberVars, storeVars
    <2>3. QED  BY <2>1, <2>2 DEF Typed
  <1>14. ASSUME NEW t \in Tasks, LeaveChat(t)  PROVE  Typed' /\ JobInv'
    <2>1. TaskTyped' /\ JobInv'
      BY <1>14, GoKeeps DEF LeaveChat, JobInv, Pcs, Locked, netVars, memberVars, storeVars
    <2>2. StoreTyped'
      <3>1. DropChat(grp[t]) /\ grp[t] \in Groups
        BY <1>14 DEF LeaveChat, JobInv
      <3>2. QED  BY <1>14, <3>1, DropChatDoes, SameLog DEF Typed, StoreTyped, LeaveChat, netVars, memberVars
    <2>3. QED  BY <2>1, <2>2 DEF Typed
  <1>14a. ASSUME NEW t \in Tasks, LeaveState(t)  PROVE  Typed' /\ JobInv'
    <2>1. TaskTyped' /\ JobInv'
      BY <1>14a, GoKeeps DEF LeaveState, JobInv, Pcs, Locked, netVars, memberVars, storeVars
    <2>2. StoreTyped'
      <3>1. DropShown(grp[t]) /\ grp[t] \in Groups
        BY <1>14a DEF LeaveState, JobInv
      <3>2. QED  BY <1>14a, <3>1, DropShownDoes, SameLog DEF Typed, StoreTyped, LeaveState, netVars, memberVars
    <2>3. QED  BY <2>1, <2>2 DEF Typed
  <1>15. ASSUME NEW t \in Tasks, LeaveRead(t)  PROVE  Typed' /\ JobInv'
    <2>1. TaskTyped' /\ JobInv'
      <3>1. CASE End(t)
        BY <1>15, <3>1, EndKeeps DEF LeaveRead, netVars, memberVars, storeVars
      <3>2. CASE /\ Go(t, "leaveWrite") /\ seen' = seen
                  /\ job' = [job EXCEPT ![t] = [@ EXCEPT !.snap = [cursor EXCEPT ![grp[t]] = 0]]]
        <4>1. grp[t] \in Groups /\ job[t].buf = {} /\ [cursor EXCEPT ![grp[t]] = 0] \in [Groups -> Nat]
          BY <1>15 DEF LeaveRead, JobInv, Typed, StoreTyped
        <4> DEFINE m == [cursor EXCEPT ![grp[t]] = 0]
                   j == [job[t] EXCEPT !.snap = m]
        <4>a. job[t] \in Job /\ m \in [Groups -> Nat] /\ job' = [job EXCEPT ![t] = j]
          BY <3>2, <4>1 DEF Typed, TaskTyped
        <4> HIDE DEF m
        <4>2. j \in Job /\ j.buf = {}
          BY <4>1, <4>a, JobChanges
        <4> HIDE DEF j
        <4>3. /\ pc' = [pc EXCEPT ![t] = "leaveWrite"] /\ grp' = grp /\ seen' = seen
              /\ log' = log /\ consumed' = consumed
          BY <1>15, <3>2 DEF LeaveRead, Go, storeVars, netVars
        <4>4. QED  BY <4>1, <4>a, <4>2, <4>3 DEF Typed, TaskTyped, JobInv, Pcs
      <3>3. QED  BY <1>15, <3>1, <3>2 DEF LeaveRead
    <2>2. StoreTyped'
      BY <1>15, SameLog DEF Typed, StoreTyped, LeaveRead, netVars, memberVars, storeVars
    <2>3. QED  BY <2>1, <2>2 DEF Typed
  <1>16. ASSUME NEW t \in Tasks, LeaveWrite(t)  PROVE  Typed' /\ JobInv'
    <2>1. TaskTyped' /\ JobInv'
      BY <1>16, EndKeeps DEF LeaveWrite, netVars
    <2>2. StoreTyped'
      <3>1. WriteCursors(job[t].snap) /\ job[t].snap \in [Groups -> Nat]
        BY <1>16 DEF LeaveWrite, Typed, TaskTyped, Job
      <3>2. QED  BY <1>16, <3>1, WriteCursorsDoes, SameLog DEF Typed, StoreTyped, LeaveWrite, netVars, memberVars
    <2>3. QED  BY <2>1, <2>2 DEF Typed
  <1>17. ASSUME NEW t \in Tasks, SyncStart(t)  PROVE  Typed' /\ JobInv'
    <2>1. TaskTyped' /\ JobInv'
      <3>1. CASE End(t)
        BY <1>17, <3>1, EndKeeps DEF SyncStart, netVars, memberVars, storeVars
      <3>2. CASE /\ Go(t, "syncFetch") /\ seen' = seen
                  /\ job' = [job EXCEPT ![t] = [NoJob EXCEPT !.snap = cursor,
                                    !.since = Since(cursor[grp[t]]), !.until = clock]]
        <4>1. grp[t] \in Groups /\ cursor \in [Groups -> Nat] /\ clock \in Nat
          BY <1>17 DEF SyncStart, JobInv, Typed, StoreTyped
        <4>2. Since(cursor[grp[t]]) \in Nat
          BY <4>1 DEF Since
        <4>3. [NoJob EXCEPT !.snap = cursor, !.since = Since(cursor[grp[t]]), !.until = clock] \in Job
          BY <4>1, <4>2, NoJobType DEF Job
        <4>4. job'[t].buf = {}
          BY <3>2, NoJobType DEF Typed, TaskTyped, Job
        <4>5. QED  BY <1>17, <3>2, <4>1, <4>3, <4>4 DEF SyncStart, Go, Typed, TaskTyped, JobInv, Pcs, storeVars, netVars
      <3>3. QED  BY <1>17, <3>1, <3>2 DEF SyncStart
    <2>2. StoreTyped'
      BY <1>17, SameLog DEF Typed, StoreTyped, SyncStart, netVars, memberVars, storeVars
    <2>3. QED  BY <2>1, <2>2 DEF Typed
  <1>18. ASSUME NEW t \in Tasks, SyncFetch(t)  PROVE  Typed' /\ JobInv'
    <2>1. TaskTyped' /\ JobInv'
      <3>1. CASE End(t)
        BY <1>18, <3>1, EndKeeps DEF SyncFetch, netVars, memberVars, storeVars
      <3>2. CASE /\ Go(t, "syncItem") /\ seen' = seen
                  /\ job' = [job EXCEPT ![t].todo =
                                Newest(Matching(grp[t], job[t].since, job[t].until))]
        <4>1. grp[t] \in Groups /\ job[t].buf = {}
          BY <1>18 DEF SyncFetch, JobInv
        <4>2. /\ Newest(Matching(grp[t], job[t].since, job[t].until)) \subseteq 1..Len(log[grp[t]])
              /\ Newest(Matching(grp[t], job[t].since, job[t].until)) \subseteq Nat
          BY DEF Newest, Matching
        <4> DEFINE j == [job[t] EXCEPT !.todo = Newest(Matching(grp[t], job[t].since, job[t].until))]
        <4>3. /\ j \in Job /\ j.buf = {} /\ j.todo \subseteq 1..Len(log[grp[t]])
              /\ job' = [job EXCEPT ![t] = j]
          BY <3>2, <4>1, <4>2 DEF Typed, TaskTyped, Job
        <4> HIDE DEF j
        <4>4. QED
          BY <1>18, <3>2, <4>1, <4>3 DEF SyncFetch, Go, Typed, TaskTyped, JobInv, Pcs, storeVars, netVars
      <3>3. QED  BY <1>18, <3>1, <3>2 DEF SyncFetch
    <2>2. StoreTyped'
      BY <1>18, SameLog DEF Typed, StoreTyped, SyncFetch, netVars, memberVars, storeVars
    <2>3. QED  BY <2>1, <2>2 DEF Typed
  <1>19. ASSUME NEW t \in Tasks, SyncItem(t)  PROVE  Typed' /\ JobInv'
    <2> DEFINE g == grp[t]
    <2>1. PICK i \in Oldest(job[t].todo), answer \in Results :
            /\ Process(<<g, i>>, answer)
            /\ job' = [job EXCEPT ![t] = Noted(job[t], <<g, i>>, answer)]
            /\ Go(t, IF job[t].todo = {i} THEN "syncStore" ELSE "syncItem")
      BY <1>19 DEF SyncItem
    <2>2. g \in Groups /\ i \in 1..Len(log[g]) /\ i \in Nat /\ job[t] \in Job
      BY <1>19 DEF SyncItem, Oldest, JobInv, Typed, TaskTyped
    <2>3. PICK w \in Groups \X Nat : /\ w = <<g, i>> /\ w[2] = i
                                     /\ w \in Wrappers /\ At(w) \in Nat
      <3>1. log[g][i] \in Wrapper
        BY <2>2 DEF Typed, StoreTyped
      <3>2. <<g, i>> \in Wrappers /\ At(<<g, i>>) \in Nat
        BY <2>2, <3>1, WrapperIn DEF At, Wrapper
      <3>3. QED  BY <2>2, <3>2
    <2>4. /\ consumed \subseteq consumed' /\ consumed' \subseteq consumed \cup {w}
          /\ engine' \in [Groups -> {"none", "member", "out"}]
          /\ welcome' = welcome /\ joinedAt' = joinedAt
          /\ answer = "msg" => w \in consumed'
          /\ refused' \subseteq refused \cup {w} /\ faults' \in 0..MaxFaults
      BY <2>1, <2>3, ProcessDoes
    <2> DEFINE j == Noted(job[t], w, answer)
    <2>5. /\ j \in Job /\ j.todo = job[t].todo \ {i}
          /\ answer = "msg" => j.buf = job[t].buf \cup {w}
          /\ answer # "msg" => j.buf = job[t].buf
      BY <2>2, <2>3, NotedFields
    <2> HIDE DEF j
    <2>6. j.buf \subseteq consumed'
      BY <2>4, <2>5 DEF JobInv
    <2>7. job' = [job EXCEPT ![t] = j]
      BY <2>1, <2>3 DEF j
    <2>8. /\ UNCHANGED <<grp, seen, log>> /\ pc[t] = "syncItem"
          /\ pc' = [pc EXCEPT ![t] = IF job[t].todo = {i} THEN "syncStore" ELSE "syncItem"]
      BY <1>19, <2>1 DEF SyncItem, Go, netVars
    <2>9. TaskTyped'
      BY <2>5, <2>7, <2>8 DEF Typed, TaskTyped, Pcs
    <2>10. JobInv'
      BY <2>2, <2>4, <2>5, <2>6, <2>7, <2>8 DEF Typed, TaskTyped, JobInv
    <2>11. StoreTyped'
      BY <1>19, <2>3, <2>4, SameLog DEF SyncItem, Typed, StoreTyped, netVars
    <2>12. QED  BY <2>9, <2>10, <2>11 DEF Typed
  <1>20. ASSUME NEW t \in Tasks, SyncStore(t)  PROVE  Typed' /\ JobInv'
    <2>1. TaskTyped' /\ JobInv'
      <3>1. grp[t] \in Groups /\ job[t] \in Job /\ [job[t] EXCEPT !.buf = {}] \in Job
        BY <1>20 DEF SyncStore, JobInv, Typed, TaskTyped, Job
      <3>2. QED  BY <1>20, <3>1 DEF SyncStore, Go, Typed, TaskTyped, JobInv, Pcs, Job, netVars
    <2>2. StoreTyped'
      <3>1. grp[t] \in Groups /\ job[t].buf \in SUBSET consumed
        BY <1>20 DEF SyncStore, JobInv
      <3>2. CASE lost' = lost \cup job[t].buf /\ UNCHANGED <<chat, stored, shown, faults>>
        BY <1>20, <3>1, <3>2, SameLog DEF Typed, StoreTyped, SyncStore, netVars, memberVars
      <3>3. CASE StoreMessages(grp[t], job[t].buf, FALSE)
        BY <1>20, <3>1, <3>3, StoreMessagesDoes, SameLog DEF Typed, StoreTyped, SyncStore, netVars, memberVars
      <3>4. QED  BY <1>20, <3>2, <3>3 DEF SyncStore
    <2>3. QED  BY <2>1, <2>2 DEF Typed
  <1>21. ASSUME NEW t \in Tasks, SyncCursor(t)  PROVE  Typed' /\ JobInv'
    <2>1. TaskTyped' /\ JobInv'
      <3>1. CASE End(t)
        BY <1>21, <3>1, EndKeeps DEF SyncCursor, netVars, memberVars, storeVars
      <3>2. CASE Go(t, "evictRead") /\ seen' = seen /\ job' = job
        BY <1>21, <3>2, GoKeeps DEF SyncCursor, JobInv, Pcs, Locked, netVars, memberVars, storeVars
      <3>3. QED  BY <1>21, <3>1, <3>2 DEF SyncCursor
    <2>2. StoreTyped'
      <3>1. grp[t] \in Groups /\ job[t] \in Job
        BY <1>21 DEF SyncCursor, JobInv, Typed, TaskTyped
      <3>2. CursorMap(job[t], grp[t]) \in [Groups -> Nat]
        BY <3>1 DEF CursorMap, Job
      <3>3. cursor' \in [Groups -> Nat] /\ faults' \in 0..MaxFaults
        BY <1>21, <3>2, WriteCursorsDoes DEF SyncCursor, Typed, StoreTyped
      <3>4. QED  BY <1>21, <3>3, SameLog DEF SyncCursor, Typed, StoreTyped, netVars, memberVars
    <2>3. QED  BY <2>1, <2>2 DEF Typed
  <1>22. ASSUME NEW t \in Tasks, LiveItem(t)  PROVE  Typed' /\ JobInv'
    <2> DEFINE g == grp[t]
    <2>1. PICK i \in job[t].todo, answer \in Results :
            /\ Process(<<g, i>>, answer)
            /\ \/ /\ answer = "msg" /\ Go(t, "liveStore")
                  /\ job' = [job EXCEPT ![t].buf = {<<g, i>>}] /\ UNCHANGED seen
               \/ answer \in {"remove", "evicted"} /\ Go(t, "evictRead") /\ UNCHANGED <<seen, job>>
               \/ answer \in {"remove", "repeated", "error"} /\ End(t)
      BY <1>22 DEF LiveItem
    <2>2. /\ g \in Groups /\ i \in 1..Len(log[g]) /\ i \in Nat /\ job[t] \in Job
          /\ job[t].buf = {} /\ pc[t] = "liveItem" /\ log' = log
      BY <1>22 DEF LiveItem, JobInv, Typed, TaskTyped, netVars
    <2>3. <<g, i>> \in Wrappers /\ <<g, i>> \in Groups \X Nat
      BY <2>2, WrapperIn
    <2>4. /\ consumed \subseteq consumed' /\ consumed' \subseteq consumed \cup {<<g, i>>}
          /\ engine' \in [Groups -> {"none", "member", "out"}]
          /\ welcome' = welcome /\ joinedAt' = joinedAt
          /\ answer = "msg" => <<g, i>> \in consumed'
          /\ refused' \subseteq refused \cup {<<g, i>>} /\ faults' \in 0..MaxFaults
      BY <2>1, <2>3, ProcessDoes
    <2>5. TaskTyped' /\ JobInv'
      <3>1. CASE answer = "msg" /\ Go(t, "liveStore") /\ seen' = seen
                  /\ job' = [job EXCEPT ![t].buf = {<<g, i>>}]
        <4> DEFINE b == {<<g, i>>}
                   j == [job[t] EXCEPT !.buf = b]
        <4>a. b \in SUBSET (Groups \X Nat) /\ job' = [job EXCEPT ![t] = j] /\ b \subseteq consumed'
          BY <2>3, <2>4, <3>1
        <4> HIDE DEF b
        <4>1. j \in Job /\ j.buf = b
          BY <2>2, <4>a, JobChanges
        <4> HIDE DEF j
        <4>2. QED  BY <2>2, <2>4, <3>1, <4>a, <4>1 DEF Go, Typed, TaskTyped, JobInv, Pcs
      <3>2. CASE Go(t, "evictRead") /\ seen' = seen /\ job' = job
        BY <2>2, <2>4, <3>2 DEF Go, Typed, TaskTyped, JobInv, Pcs
      <3>3. CASE End(t)
        BY <2>2, <2>4, <3>3, EndKeeps
      <3>4. QED  BY <2>1, <3>1, <3>2, <3>3
    <2>6. StoreTyped'
      BY <1>22, <2>3, <2>4, SameLog DEF LiveItem, Typed, StoreTyped, netVars
    <2>7. QED  BY <2>5, <2>6 DEF Typed
  <1>23. ASSUME NEW t \in Tasks, LiveStore(t)  PROVE  Typed' /\ JobInv'
    <2>1. TaskTyped' /\ JobInv'
      BY <1>23, EndKeeps DEF LiveStore, netVars, memberVars, storeVars
    <2>2. StoreTyped'
      <3>1. /\ grp[t] \in Groups /\ job[t].buf \in SUBSET consumed
            /\ StoreMessages(grp[t], job[t].buf, TRUE)
        BY <1>23 DEF LiveStore, JobInv
      <3>2. QED  BY <1>23, <3>1, StoreMessagesDoes, SameLog DEF Typed, StoreTyped, LiveStore, netVars, memberVars
    <2>3. QED  BY <2>1, <2>2 DEF Typed
  <1>24. ASSUME NEW t \in Tasks, EvictRead(t)  PROVE  Typed' /\ JobInv'
    <2>1. TaskTyped' /\ JobInv'
      BY <1>24, GoKeeps DEF EvictRead, JobInv, Pcs, Locked, netVars, memberVars, storeVars
    <2>2. StoreTyped'
      BY <1>24, SameLog DEF Typed, StoreTyped, EvictRead, netVars, memberVars, storeVars
    <2>3. QED  BY <2>1, <2>2 DEF Typed
  <1>25. ASSUME NEW t \in Tasks, EvictSave(t)  PROVE  Typed' /\ JobInv'
    <2>1. TaskTyped' /\ JobInv'
      BY <1>25, GoKeeps DEF EvictSave, JobInv, Pcs, Locked, netVars, memberVars, storeVars
    <2>2. StoreTyped'
      BY <1>25, SameLog DEF Typed, TaskTyped, StoreTyped, JobInv, EvictSave, SaveRow, netVars, memberVars, storeVars
    <2>3. QED  BY <2>1, <2>2 DEF Typed
  <1>26. ASSUME NEW t \in Tasks, EvictChat(t)  PROVE  Typed' /\ JobInv'
    <2>1. TaskTyped' /\ JobInv'
      BY <1>26, EndKeeps DEF EvictChat, netVars, memberVars, storeVars
    <2>2. StoreTyped'
      <3>1. DropChat(grp[t]) /\ grp[t] \in Groups
        BY <1>26 DEF EvictChat, JobInv
      <3>2. QED  BY <1>26, <3>1, DropChatDoes, SameLog DEF Typed, StoreTyped, EvictChat, netVars, memberVars
    <2>3. QED  BY <2>1, <2>2 DEF Typed
  <1>26a. ASSUME NEW t \in Tasks, EvictState(t)  PROVE  Typed' /\ JobInv'
    <2>1. TaskTyped' /\ JobInv'
      BY <1>26a, GoKeeps DEF EvictState, JobInv, Pcs, Locked, netVars, memberVars, storeVars
    <2>2. StoreTyped'
      <3>1. DropShown(grp[t]) /\ grp[t] \in Groups
        BY <1>26a DEF EvictState, JobInv
      <3>2. QED  BY <1>26a, <3>1, DropShownDoes, SameLog DEF Typed, StoreTyped, EvictState, netVars, memberVars
    <2>3. QED  BY <2>1, <2>2 DEF Typed
  <1>27. ASSUME NEW t \in Tasks, ReapRead(t)  PROVE  Typed' /\ JobInv'
    <2>1. TaskTyped' /\ JobInv'
      <3>1. CASE End(t)
        BY <1>27, <3>1, EndKeeps DEF ReapRead, netVars, storeVars
      <3>2. CASE Go(t, "reapDelete") /\ seen' = [seen EXCEPT ![t] = row] /\ job' = job
        BY <1>27, <3>2, GoKeeps DEF ReapRead, JobInv, Pcs, Locked, netVars, storeVars
      <3>3. QED  BY <1>27, <3>1, <3>2 DEF ReapRead
    <2>2. StoreTyped'
      BY <1>27, SameLog DEF Typed, TaskTyped, StoreTyped, JobInv, ReapRead, netVars, memberVars, storeVars
    <2>3. QED  BY <2>1, <2>2 DEF Typed
  <1>28. ASSUME NEW t \in Tasks, ReapDelete(t)  PROVE  Typed' /\ JobInv'
    <2>1. TaskTyped' /\ JobInv'
      BY <1>28, EndKeeps DEF ReapDelete, netVars, storeVars
    <2>2. StoreTyped'
      <3>1. engine' \in [Groups -> {"none", "member", "out"}]
        BY <1>28 DEF ReapDelete, Typed, StoreTyped
      <3>2. QED  BY <1>28, <3>1, SameLog DEF ReapDelete, Typed, StoreTyped, netVars, storeVars
    <2>3. QED  BY <2>1, <2>2 DEF Typed
  <1>29. ASSUME NEW t \in Tasks, NEW w \in Wrappers, LiveStart(t, w)  PROVE  Typed' /\ JobInv'
    <2>1. w[1] \in Groups /\ w[2] \in 1..Len(log[w[1]]) /\ w[2] \in Nat
      BY WrapperIn
    <2>2. log' = log /\ consumed' = consumed /\ seen' = seen /\ pc[t] = "idle"
      BY <1>29 DEF LiveStart, storeVars
    <2>3. TaskTyped' /\ JobInv'
      <3>1. CASE /\ pc' = [pc EXCEPT ![t] = "liveItem"]
                 /\ grp' = [grp EXCEPT ![t] = w[1]]
                 /\ job' = [job EXCEPT ![t] = [NoJob EXCEPT !.todo = {w[2]}]]
        <4>1. /\ [NoJob EXCEPT !.todo = {w[2]}] \in Job
              /\ [NoJob EXCEPT !.todo = {w[2]}].todo = {w[2]}
              /\ [NoJob EXCEPT !.todo = {w[2]}].buf = {}
          BY <2>1, NoJobType DEF Job
        <4>2. QED  BY <2>1, <2>2, <3>1, <4>1 DEF Typed, TaskTyped, JobInv, Pcs
      <3>2. CASE UNCHANGED <<pc, grp, job>>
        BY <2>2, <3>2 DEF Typed, TaskTyped, JobInv
      <3>3. QED  BY <1>29, <3>1, <3>2 DEF LiveStart
    <2>4. StoreTyped'
      BY <1>29, SameLog DEF LiveStart, Typed, StoreTyped, memberVars, storeVars
    <2>5. QED  BY <2>3, <2>4 DEF Typed
  <1>30. ASSUME NEW g \in Groups, NEW kind \in {"msg", "remove"}, Publish(g, kind)  PROVE  Typed' /\ JobInv'
    <2>1. /\ clock' \in Nat /\ log' \in [Groups -> Seq(Wrapper)]
          /\ \A h \in Groups : Len(log'[h]) \in Nat /\ Len(log[h]) \in Nat /\ Len(log[h]) <= Len(log'[h])
      <3>1. /\ clock' \in Nat /\ log' \in [Groups -> Seq(Wrapper)]
            /\ \A h \in Groups : h # g => log'[h] = log[h]
            /\ Len(log'[g]) = Len(log[g]) + 1
        BY <1>30, PublishGrows
      <3>2. \A h \in Groups : Len(log[h]) \in Nat
        BY DEF Typed, StoreTyped
      <3>3. QED  BY <3>1, <3>2
    <2>2. Wrappers \subseteq Wrappers'
      BY <1>30, WrappersGrow
    <2>3. TaskTyped' /\ JobInv'
      BY <1>30, <2>1 DEF Publish, Typed, TaskTyped, JobInv, taskVars, storeVars
    <2>4. StoreTyped'
      BY <1>30, <2>1, <2>2 DEF Publish, Typed, StoreTyped, memberVars, storeVars
    <2>5. QED  BY <2>3, <2>4 DEF Typed
  <1>31. ASSUME NEW g \in Groups, Invite(g)  PROVE  Typed' /\ JobInv'
    BY <1>31, SameLog DEF Invite, Typed, TaskTyped, StoreTyped, JobInv, storeVars, taskVars
  <1>32. ASSUME Crash  PROVE  Typed' /\ JobInv'
    <2>1. TaskTyped' /\ JobInv'
      BY <1>32, NoJobType DEF Crash, TaskTyped, JobInv, Pcs
    <2>2. InHand \subseteq consumed
      BY DEF JobInv, InHand
    <2>3. StoreTyped'
      <3>1. lost' = lost \cup InHand \cup (shown \ stored) /\ shown' = {}
        BY <1>32 DEF Crash
      <3>2. lost' \subseteq consumed
        BY <2>2, <3>1 DEF Typed, StoreTyped
      <3>3. QED  BY <1>32, <3>1, <3>2, SameLog DEF Crash, Typed, StoreTyped, netVars, memberVars
    <2>4. QED  BY <2>1, <2>3 DEF Typed
  <1>33. CASE UNCHANGED vars
    BY <1>33, SameLog DEF vars, Typed, TaskTyped, StoreTyped, JobInv
  <1>34. QED
    BY <1>1, <1>2, <1>3, <1>4, <1>5, <1>6, <1>7, <1>8, <1>9, <1>10, <1>11, <1>12, <1>13, <1>14, <1>14a, <1>15, <1>16, <1>17, <1>18, <1>19, <1>20, <1>21, <1>22, <1>23, <1>24, <1>25, <1>26, <1>26a, <1>27, <1>28, <1>29, <1>30, <1>31, <1>32, <1>33
    DEF Next, Begin, Step, Create, Accept, Leave, Sync, Live, Evict, Reap

\* Tasks do not touch each other's locals.
Only(t) ==
    \A u \in Tasks \ {t} : /\ pc'[u] = pc[u] /\ grp'[u] = grp[u]
                           /\ seen'[u] = seen[u] /\ job'[u] = job[u]

LEMMA EndOnly ==
    ASSUME Typed, NEW t \in Tasks, End(t)
    PROVE  Only(t) /\ pc'[t] = "idle" /\ job'[t] = NoJob /\ grp'[t] = NoGroup
  BY DEF Typed, TaskTyped, End, Only

LEMMA GoOnly ==
    ASSUME Typed, NEW t \in Tasks, NEW next, Go(t, next),
           seen' = seen \/ seen' = [seen EXCEPT ![t] = row],
           job' = job \/ \E j : job' = [job EXCEPT ![t] = j]
    PROVE  Only(t) /\ pc'[t] = next /\ grp' = grp
  BY DEF Typed, TaskTyped, Go, Only

LEMMA StartOnly ==
    ASSUME Typed, NEW t \in Tasks, NEW g, NEW next, Start(t, g, next), UNCHANGED <<seen, job>>
    PROVE  Only(t) /\ pc[t] = "idle" /\ pc'[t] = next /\ grp'[t] = g
  BY DEF Typed, TaskTyped, Start, Only

LEMMA Locality ==
    ASSUME Typed, NEW t \in Tasks, Begin(t) \/ Step(t)
    PROVE  Only(t)
  <1>1. ASSUME NEW g \in Groups, CreateEngine(t, g)  PROVE  Only(t)
    BY <1>1, StartOnly DEF CreateEngine
  <1>2. ASSUME NEW g \in Groups, AcceptEngine(t, g)  PROVE  Only(t)
    BY <1>2, StartOnly DEF AcceptEngine
  <1>3. ASSUME NEW g \in Groups, LeaveStart(t, g)  PROVE  Only(t)
    BY <1>3, StartOnly DEF LeaveStart
  <1>4. ASSUME NEW g \in Groups, SyncNow(t, g)  PROVE  Only(t)
    BY <1>4, StartOnly DEF SyncNow
  <1>5. ASSUME NEW g \in Groups, SendRefused(t, g)  PROVE  Only(t)
    BY <1>5, StartOnly DEF SendRefused
  <1>6. CASE ReapStart(t)
    BY <1>6, StartOnly DEF ReapStart
  <1>7. ASSUME NEW w \in Wrappers, LiveStart(t, w)  PROVE  Only(t)
    BY <1>7 DEF LiveStart, Only, Typed, TaskTyped
  <1>8. CASE CreateSave(t)
    BY <1>8, EndOnly, GoOnly DEF CreateSave
  <1>9. CASE CreateChat(t)
    BY <1>9, EndOnly DEF CreateChat
  <1>10. CASE AcceptRead(t)
    BY <1>10, GoOnly DEF AcceptRead
  <1>11. CASE AcceptSave(t)
    BY <1>11, EndOnly, GoOnly DEF AcceptSave
  <1>12. CASE AcceptChat(t)
    BY <1>12, GoOnly DEF AcceptChat
  <1>13. CASE LeavePublish(t)
    BY <1>13, EndOnly, GoOnly DEF LeavePublish
  <1>14. CASE LeaveRow(t)
    BY <1>14, EndOnly, GoOnly DEF LeaveRow
  <1>15. CASE LeaveChat(t)
    BY <1>15, GoOnly DEF LeaveChat
  <1>15a. CASE LeaveState(t)
    BY <1>15a, GoOnly DEF LeaveState
  <1>16. CASE LeaveRead(t)
    BY <1>16, EndOnly, GoOnly DEF LeaveRead
  <1>17. CASE LeaveWrite(t)
    BY <1>17, EndOnly DEF LeaveWrite
  <1>18. CASE SyncStart(t)
    BY <1>18, EndOnly, GoOnly DEF SyncStart
  <1>19. CASE SyncFetch(t)
    BY <1>19, EndOnly, GoOnly DEF SyncFetch
  <1>20. CASE SyncItem(t)
    BY <1>20, GoOnly DEF SyncItem
  <1>21. CASE SyncStore(t)
    BY <1>21, GoOnly DEF SyncStore
  <1>22. CASE SyncCursor(t)
    BY <1>22, EndOnly, GoOnly DEF SyncCursor
  <1>23. CASE LiveItem(t)
    BY <1>23, EndOnly, GoOnly DEF LiveItem
  <1>24. CASE LiveStore(t)
    BY <1>24, EndOnly DEF LiveStore
  <1>25. CASE EvictRead(t)
    BY <1>25, GoOnly DEF EvictRead
  <1>26. CASE EvictSave(t)
    BY <1>26, GoOnly DEF EvictSave
  <1>27. CASE EvictChat(t)
    BY <1>27, EndOnly DEF EvictChat
  <1>27a. CASE EvictState(t)
    BY <1>27a, GoOnly DEF EvictState
  <1>28. CASE ReapRead(t)
    BY <1>28, EndOnly, GoOnly DEF ReapRead
  <1>29. CASE ReapDelete(t)
    BY <1>29, EndOnly DEF ReapDelete
  <1>30. QED
    BY <1>1, <1>2, <1>3, <1>4, <1>5, <1>6, <1>7, <1>8, <1>9, <1>10, <1>11, <1>12, <1>13, <1>14, <1>15, <1>15a, <1>16, <1>17, <1>18, <1>19, <1>20, <1>21, <1>22, <1>23, <1>24, <1>25, <1>26, <1>27, <1>27a, <1>28, <1>29
    DEF Begin, Step, Create, Accept, Leave, Sync, Live, Evict, Reap

-----------------------------------------------------------------------------
\* Whoever does not hold the guard neither writes a live row nor empties the engine.
LEMMA OutsideGuard ==
    ASSUME Typed, JobInv, GuardInv, RowHasEngine, NEW t \in Tasks, Only(t),
           pc[t] \notin Locked, pc'[t] \notin Locked, lock' = lock,
           \A g \in Groups : /\ row'[g] = "live" => row[g] = "live"
                             /\ engine'[g] = "none" => engine[g] = "none"
    PROVE  GuardInv' /\ RowHasEngine'
  <1>1. GuardHeld'
    BY DEF GuardInv, GuardHeld, Only
  <1>2. ASSUME NEW u \in Tasks, pc'[u] \in {"createSave", "acceptRead", "acceptSave"}
        PROVE  engine'[grp'[u]] # "none"
    <2>1. u # t
      BY <1>2 DEF Locked
    <2>2. pc[u] \in {"createSave", "acceptRead", "acceptSave"} /\ grp'[u] = grp[u]
      BY <1>2, <2>1 DEF Only
    <2>3. grp[u] \in Groups
      BY <2>2 DEF JobInv
    <2>4. QED  BY <2>2, <2>3 DEF GuardInv
  <1>3. ASSUME NEW u \in Tasks, pc'[u] = "reapDelete", NEW g \in Groups, seen'[u][g] = "none"
        PROVE  row'[g] # "live"
    BY <1>3 DEF GuardInv, Only, Locked
  <1>4. RowHasEngine'
    BY DEF RowHasEngine
  <1>5. QED  BY <1>1, <1>2, <1>3, <1>4 DEF GuardInv

\* While the guard is free, nobody is inside.
LEMMA FreeGuard ==
    ASSUME GuardInv, lock = NoTask
    PROVE  \A u \in Tasks : pc[u] \notin Locked
  BY DEF GuardInv, GuardHeld

\* While a task holds it, nobody else is inside.
LEMMA OneInside ==
    ASSUME GuardInv, NEW t \in Tasks, pc[t] \in Locked
    PROVE  lock = t /\ \A u \in Tasks \ {t} : pc[u] \notin Locked
  BY DEF GuardInv, GuardHeld

\* Every step keeps the guard's discipline and, with it, RowHasEngine.
LEMMA GuardStep ==
    ASSUME Typed, JobInv, GuardInv, RowHasEngine, [Next]_vars
    PROVE  GuardInv' /\ RowHasEngine'
  <1> USE DEF Locked
  <1>1. CASE UNCHANGED vars
    BY <1>1 DEF vars, GuardInv, GuardHeld, RowHasEngine
  <1>2. CASE Crash
    BY <1>2 DEF Crash, memberVars, GuardInv, GuardHeld, RowHasEngine
  <1>3. ASSUME NEW g \in Groups, NEW kind \in {"msg", "remove"}, Publish(g, kind)  PROVE  GuardInv' /\ RowHasEngine'
    BY <1>3 DEF Publish, memberVars, taskVars, GuardInv, GuardHeld, RowHasEngine
  <1>4. ASSUME NEW g \in Groups, Invite(g)  PROVE  GuardInv' /\ RowHasEngine'
    BY <1>4 DEF Invite, taskVars, GuardInv, GuardHeld, RowHasEngine
  <1>5. ASSUME NEW t \in Tasks, NEW g \in Groups, LeaveStart(t, g)  PROVE  GuardInv' /\ RowHasEngine'
    BY <1>5, StartOnly, OutsideGuard DEF LeaveStart, memberVars
  <1>6. ASSUME NEW t \in Tasks, NEW g \in Groups, SyncNow(t, g)  PROVE  GuardInv' /\ RowHasEngine'
    BY <1>6, StartOnly, OutsideGuard DEF SyncNow, memberVars
  <1>7. ASSUME NEW t \in Tasks, NEW g \in Groups, SendRefused(t, g)  PROVE  GuardInv' /\ RowHasEngine'
    BY <1>7, StartOnly, OutsideGuard DEF SendRefused, memberVars
  <1>8. ASSUME NEW t \in Tasks, NEW w \in Wrappers, LiveStart(t, w)  PROVE  GuardInv' /\ RowHasEngine'
    <2>1. Only(t)
      BY <1>8, Locality DEF Begin
    <2>2. pc[t] = "idle" /\ pc'[t] \in {"idle", "liveItem"} /\ UNCHANGED <<lock, row, engine>>
      BY <1>8 DEF LiveStart, memberVars, Typed, TaskTyped
    <2>3. QED  BY <2>1, <2>2, OutsideGuard
  <1>9. ASSUME NEW t \in Tasks, CreateChat(t)  PROVE  GuardInv' /\ RowHasEngine'
    <2>1. Only(t)
      BY <1>9, Locality DEF Step, Create
    <2>2. pc[t] = "createChat" /\ pc'[t] \in {"idle"} /\ lock' = lock
      BY <1>9 DEF CreateChat, End, Typed, TaskTyped
    <2>3. \A g \in Groups : /\ row'[g] = "live" => row[g] = "live"
                            /\ engine'[g] = "none" => engine[g] = "none"
      BY <1>9 DEF CreateChat, memberVars, Typed, StoreTyped
    <2>4. QED  BY <2>1, <2>2, <2>3, OutsideGuard
  <1>10. ASSUME NEW t \in Tasks, AcceptChat(t)  PROVE  GuardInv' /\ RowHasEngine'
    <2>1. Only(t)
      BY <1>10, Locality DEF Step, Accept
    <2>2. pc[t] = "acceptChat" /\ pc'[t] \in {"syncStart"} /\ lock' = lock
      BY <1>10 DEF AcceptChat, Go, Typed, TaskTyped
    <2>3. \A g \in Groups : /\ row'[g] = "live" => row[g] = "live"
                            /\ engine'[g] = "none" => engine[g] = "none"
      BY <1>10 DEF AcceptChat, memberVars, Typed, StoreTyped
    <2>4. QED  BY <2>1, <2>2, <2>3, OutsideGuard
  <1>11. ASSUME NEW t \in Tasks, LeavePublish(t)  PROVE  GuardInv' /\ RowHasEngine'
    <2>1. Only(t)
      BY <1>11, Locality DEF Step, Leave
    <2>2. pc[t] = "leavePublish" /\ pc'[t] \in {"idle", "leaveRow"} /\ lock' = lock
      BY <1>11 DEF LeavePublish, End, Go, Typed, TaskTyped
    <2>3. \A g \in Groups : /\ row'[g] = "live" => row[g] = "live"
                            /\ engine'[g] = "none" => engine[g] = "none"
      BY <1>11 DEF LeavePublish, memberVars, Typed, StoreTyped
    <2>4. QED  BY <2>1, <2>2, <2>3, OutsideGuard
  <1>12. ASSUME NEW t \in Tasks, LeaveRow(t)  PROVE  GuardInv' /\ RowHasEngine'
    <2>1. Only(t)
      BY <1>12, Locality DEF Step, Leave
    <2>2. pc[t] = "leaveRow" /\ pc'[t] \in {"idle", "leaveState"} /\ lock' = lock
      BY <1>12 DEF LeaveRow, End, Go, Typed, TaskTyped
    <2>3. \A g \in Groups : /\ row'[g] = "live" => row[g] = "live"
                            /\ engine'[g] = "none" => engine[g] = "none"
      BY <1>12 DEF LeaveRow, memberVars, Typed, StoreTyped
    <2>4. QED  BY <2>1, <2>2, <2>3, OutsideGuard
  <1>13. ASSUME NEW t \in Tasks, LeaveChat(t)  PROVE  GuardInv' /\ RowHasEngine'
    <2>1. Only(t)
      BY <1>13, Locality DEF Step, Leave
    <2>2. pc[t] = "leaveChat" /\ pc'[t] \in {"leaveRead"} /\ lock' = lock
      BY <1>13 DEF LeaveChat, Go, Typed, TaskTyped
    <2>3. \A g \in Groups : /\ row'[g] = "live" => row[g] = "live"
                            /\ engine'[g] = "none" => engine[g] = "none"
      BY <1>13 DEF LeaveChat, memberVars, Typed, StoreTyped
    <2>4. QED  BY <2>1, <2>2, <2>3, OutsideGuard
  <1>13a. ASSUME NEW t \in Tasks, LeaveState(t)  PROVE  GuardInv' /\ RowHasEngine'
    <2>1. Only(t)
      BY <1>13a, Locality DEF Step, Leave
    <2>2. pc[t] = "leaveState" /\ pc'[t] \in {"leaveChat"} /\ lock' = lock
      BY <1>13a DEF LeaveState, Go, Typed, TaskTyped
    <2>3. \A g \in Groups : /\ row'[g] = "live" => row[g] = "live"
                            /\ engine'[g] = "none" => engine[g] = "none"
      BY <1>13a DEF LeaveState, memberVars, Typed, StoreTyped
    <2>4. QED  BY <2>1, <2>2, <2>3, OutsideGuard
  <1>14. ASSUME NEW t \in Tasks, LeaveRead(t)  PROVE  GuardInv' /\ RowHasEngine'
    <2>1. Only(t)
      BY <1>14, Locality DEF Step, Leave
    <2>2. pc[t] = "leaveRead" /\ pc'[t] \in {"idle", "leaveWrite"} /\ lock' = lock
      BY <1>14 DEF LeaveRead, End, Go, Typed, TaskTyped
    <2>3. \A g \in Groups : /\ row'[g] = "live" => row[g] = "live"
                            /\ engine'[g] = "none" => engine[g] = "none"
      BY <1>14 DEF LeaveRead, memberVars, Typed, StoreTyped
    <2>4. QED  BY <2>1, <2>2, <2>3, OutsideGuard
  <1>15. ASSUME NEW t \in Tasks, LeaveWrite(t)  PROVE  GuardInv' /\ RowHasEngine'
    <2>1. Only(t)
      BY <1>15, Locality DEF Step, Leave
    <2>2. pc[t] = "leaveWrite" /\ pc'[t] \in {"idle"} /\ lock' = lock
      BY <1>15 DEF LeaveWrite, End, Typed, TaskTyped
    <2>3. \A g \in Groups : /\ row'[g] = "live" => row[g] = "live"
                            /\ engine'[g] = "none" => engine[g] = "none"
      BY <1>15 DEF LeaveWrite, memberVars, Typed, StoreTyped
    <2>4. QED  BY <2>1, <2>2, <2>3, OutsideGuard
  <1>16. ASSUME NEW t \in Tasks, SyncStart(t)  PROVE  GuardInv' /\ RowHasEngine'
    <2>1. Only(t)
      BY <1>16, Locality DEF Step, Sync
    <2>2. pc[t] = "syncStart" /\ pc'[t] \in {"idle", "syncFetch"} /\ lock' = lock
      BY <1>16 DEF SyncStart, End, Go, Typed, TaskTyped
    <2>3. \A g \in Groups : /\ row'[g] = "live" => row[g] = "live"
                            /\ engine'[g] = "none" => engine[g] = "none"
      BY <1>16 DEF SyncStart, memberVars, Typed, StoreTyped
    <2>4. QED  BY <2>1, <2>2, <2>3, OutsideGuard
  <1>17. ASSUME NEW t \in Tasks, SyncFetch(t)  PROVE  GuardInv' /\ RowHasEngine'
    <2>1. Only(t)
      BY <1>17, Locality DEF Step, Sync
    <2>2. pc[t] = "syncFetch" /\ pc'[t] \in {"idle", "syncItem"} /\ lock' = lock
      BY <1>17 DEF SyncFetch, End, Go, Typed, TaskTyped
    <2>3. \A g \in Groups : /\ row'[g] = "live" => row[g] = "live"
                            /\ engine'[g] = "none" => engine[g] = "none"
      BY <1>17 DEF SyncFetch, memberVars, Typed, StoreTyped
    <2>4. QED  BY <2>1, <2>2, <2>3, OutsideGuard
  <1>18. ASSUME NEW t \in Tasks, SyncItem(t)  PROVE  GuardInv' /\ RowHasEngine'
    <2>1. Only(t)
      BY <1>18, Locality DEF Step, Sync
    <2>2. pc[t] = "syncItem" /\ pc'[t] \in {"syncItem", "syncStore"} /\ lock' = lock
      BY <1>18 DEF SyncItem, Go, Process, Typed, TaskTyped
    <2>3. \A g \in Groups : /\ row'[g] = "live" => row[g] = "live"
                            /\ engine'[g] = "none" => engine[g] = "none"
      BY <1>18 DEF SyncItem, Process, Typed, StoreTyped
    <2>4. QED  BY <2>1, <2>2, <2>3, OutsideGuard
  <1>19. ASSUME NEW t \in Tasks, SyncStore(t)  PROVE  GuardInv' /\ RowHasEngine'
    <2>1. Only(t)
      BY <1>19, Locality DEF Step, Sync
    <2>2. pc[t] = "syncStore" /\ pc'[t] \in {"syncCursor"} /\ lock' = lock
      BY <1>19 DEF SyncStore, Go, Typed, TaskTyped
    <2>3. \A g \in Groups : /\ row'[g] = "live" => row[g] = "live"
                            /\ engine'[g] = "none" => engine[g] = "none"
      BY <1>19 DEF SyncStore, memberVars, Typed, StoreTyped
    <2>4. QED  BY <2>1, <2>2, <2>3, OutsideGuard
  <1>20. ASSUME NEW t \in Tasks, SyncCursor(t)  PROVE  GuardInv' /\ RowHasEngine'
    <2>1. Only(t)
      BY <1>20, Locality DEF Step, Sync
    <2>2. pc[t] = "syncCursor" /\ pc'[t] \in {"idle", "evictRead"} /\ lock' = lock
      BY <1>20 DEF SyncCursor, End, Go, Typed, TaskTyped
    <2>3. \A g \in Groups : /\ row'[g] = "live" => row[g] = "live"
                            /\ engine'[g] = "none" => engine[g] = "none"
      BY <1>20 DEF SyncCursor, memberVars, Typed, StoreTyped
    <2>4. QED  BY <2>1, <2>2, <2>3, OutsideGuard
  <1>21. ASSUME NEW t \in Tasks, LiveItem(t)  PROVE  GuardInv' /\ RowHasEngine'
    <2>1. Only(t)
      BY <1>21, Locality DEF Step, Live
    <2>2. pc[t] = "liveItem" /\ pc'[t] \in {"idle", "liveStore", "evictRead"} /\ lock' = lock
      BY <1>21 DEF LiveItem, End, Go, Process, Typed, TaskTyped
    <2>3. \A g \in Groups : /\ row'[g] = "live" => row[g] = "live"
                            /\ engine'[g] = "none" => engine[g] = "none"
      BY <1>21 DEF LiveItem, Process, Typed, StoreTyped
    <2>4. QED  BY <2>1, <2>2, <2>3, OutsideGuard
  <1>22. ASSUME NEW t \in Tasks, LiveStore(t)  PROVE  GuardInv' /\ RowHasEngine'
    <2>1. Only(t)
      BY <1>22, Locality DEF Step, Live
    <2>2. pc[t] = "liveStore" /\ pc'[t] \in {"idle"} /\ lock' = lock
      BY <1>22 DEF LiveStore, End, Typed, TaskTyped
    <2>3. \A g \in Groups : /\ row'[g] = "live" => row[g] = "live"
                            /\ engine'[g] = "none" => engine[g] = "none"
      BY <1>22 DEF LiveStore, memberVars, Typed, StoreTyped
    <2>4. QED  BY <2>1, <2>2, <2>3, OutsideGuard
  <1>23. ASSUME NEW t \in Tasks, EvictRead(t)  PROVE  GuardInv' /\ RowHasEngine'
    <2>1. Only(t)
      BY <1>23, Locality DEF Step, Evict
    <2>2. pc[t] = "evictRead" /\ pc'[t] \in {"evictSave"} /\ lock' = lock
      BY <1>23 DEF EvictRead, Go, Typed, TaskTyped
    <2>3. \A g \in Groups : /\ row'[g] = "live" => row[g] = "live"
                            /\ engine'[g] = "none" => engine[g] = "none"
      BY <1>23 DEF EvictRead, memberVars, Typed, StoreTyped
    <2>4. QED  BY <2>1, <2>2, <2>3, OutsideGuard
  <1>24. ASSUME NEW t \in Tasks, EvictSave(t)  PROVE  GuardInv' /\ RowHasEngine'
    <2>1. Only(t)
      BY <1>24, Locality DEF Step, Evict
    <2>2. pc[t] = "evictSave" /\ pc'[t] \in {"evictState"} /\ lock' = lock
      BY <1>24 DEF EvictSave, Go, SaveRow, Typed, TaskTyped
    <2>3. \A g \in Groups : /\ row'[g] = "live" => row[g] = "live"
                            /\ engine'[g] = "none" => engine[g] = "none"
      BY <1>24 DEF EvictSave, SaveRow, memberVars, Typed, StoreTyped
    <2>4. QED  BY <2>1, <2>2, <2>3, OutsideGuard
  <1>25. ASSUME NEW t \in Tasks, EvictChat(t)  PROVE  GuardInv' /\ RowHasEngine'
    <2>1. Only(t)
      BY <1>25, Locality DEF Step, Evict
    <2>2. pc[t] = "evictChat" /\ pc'[t] \in {"idle"} /\ lock' = lock
      BY <1>25 DEF EvictChat, End, Typed, TaskTyped
    <2>3. \A g \in Groups : /\ row'[g] = "live" => row[g] = "live"
                            /\ engine'[g] = "none" => engine[g] = "none"
      BY <1>25 DEF EvictChat, memberVars, Typed, StoreTyped
    <2>4. QED  BY <2>1, <2>2, <2>3, OutsideGuard
  <1>25a. ASSUME NEW t \in Tasks, EvictState(t)  PROVE  GuardInv' /\ RowHasEngine'
    <2>1. Only(t)
      BY <1>25a, Locality DEF Step, Evict
    <2>2. pc[t] = "evictState" /\ pc'[t] \in {"evictChat"} /\ lock' = lock
      BY <1>25a DEF EvictState, Go, Typed, TaskTyped
    <2>3. \A g \in Groups : /\ row'[g] = "live" => row[g] = "live"
                            /\ engine'[g] = "none" => engine[g] = "none"
      BY <1>25a DEF EvictState, memberVars, Typed, StoreTyped
    <2>4. QED  BY <2>1, <2>2, <2>3, OutsideGuard
  <1>26. ASSUME NEW t \in Tasks, NEW g \in Groups, CreateEngine(t, g)  PROVE  GuardInv' /\ RowHasEngine'
    <2>1. Only(t) /\ pc'[t] \in Locked \ {"reapDelete"} /\ grp'[t] = g
      BY <1>26, StartOnly DEF CreateEngine
    <2>2. lock' = t /\ \A u \in Tasks : pc[u] \notin Locked
      BY <1>26, FreeGuard DEF CreateEngine, Acquire
    <2>3. engine'[g] = "member" /\ row' = row /\ \A h \in Groups \ {g} : engine'[h] = engine[h]
      BY <1>26 DEF CreateEngine, Typed, StoreTyped
    <2>4. QED  BY <2>1, <2>2, <2>3 DEF GuardInv, GuardHeld, RowHasEngine, Only
  <1>27. ASSUME NEW t \in Tasks, NEW g \in Groups, AcceptEngine(t, g)  PROVE  GuardInv' /\ RowHasEngine'
    <2>1. Only(t) /\ pc'[t] \in Locked \ {"reapDelete"} /\ grp'[t] = g
      BY <1>27, StartOnly DEF AcceptEngine
    <2>2. lock' = t /\ \A u \in Tasks : pc[u] \notin Locked
      BY <1>27, FreeGuard DEF AcceptEngine, Acquire
    <2>3. engine'[g] = "member" /\ row' = row /\ \A h \in Groups \ {g} : engine'[h] = engine[h]
      BY <1>27 DEF AcceptEngine, Typed, StoreTyped
    <2>4. QED  BY <2>1, <2>2, <2>3 DEF GuardInv, GuardHeld, RowHasEngine, Only
  <1>28. ASSUME NEW t \in Tasks, ReapStart(t)  PROVE  GuardInv' /\ RowHasEngine'
    <2>1. Only(t) /\ pc'[t] = "reapRead"
      BY <1>28, StartOnly DEF ReapStart
    <2>2. lock' = t /\ \A u \in Tasks : pc[u] \notin Locked
      BY <1>28, FreeGuard DEF ReapStart, Acquire
    <2>3. QED
      BY <1>28, <2>1, <2>2 DEF ReapStart, memberVars, GuardInv, GuardHeld, RowHasEngine, Only
  <1>29. ASSUME NEW t \in Tasks, CreateSave(t)  PROVE  GuardInv' /\ RowHasEngine'
    <2>1. Only(t) /\ pc'[t] \notin Locked /\ lock' = NoTask /\ engine' = engine
      BY <1>29, EndOnly, GoOnly DEF CreateSave, memberVars
    <2>2. \A u \in Tasks \ {t} : pc[u] \notin Locked
      BY <1>29, OneInside DEF CreateSave
    <2>3. row' = row \/ row' = [row EXCEPT ![grp[t]] = "live"]
      BY <1>29 DEF CreateSave, SaveRow
    <2>4. grp[t] \in Groups /\ engine[grp[t]] # "none"
      BY <1>29 DEF CreateSave, JobInv, GuardInv
    <2>5. RowHasEngine'
      BY <2>1, <2>3, <2>4 DEF RowHasEngine, Typed, StoreTyped
    <2>6. QED  BY <2>1, <2>2, <2>5 DEF GuardInv, GuardHeld, Only
  <1>30. ASSUME NEW t \in Tasks, AcceptSave(t)  PROVE  GuardInv' /\ RowHasEngine'
    <2>1. Only(t) /\ pc'[t] \notin Locked /\ lock' = NoTask /\ engine' = engine
      BY <1>30, EndOnly, GoOnly DEF AcceptSave, memberVars
    <2>2. \A u \in Tasks \ {t} : pc[u] \notin Locked
      BY <1>30, OneInside DEF AcceptSave
    <2>3. row' = row \/ row' = [row EXCEPT ![grp[t]] = "live"]
      BY <1>30 DEF AcceptSave, SaveRow
    <2>4. grp[t] \in Groups /\ engine[grp[t]] # "none"
      BY <1>30 DEF AcceptSave, JobInv, GuardInv
    <2>5. RowHasEngine'
      BY <2>1, <2>3, <2>4 DEF RowHasEngine, Typed, StoreTyped
    <2>6. QED  BY <2>1, <2>2, <2>5 DEF GuardInv, GuardHeld, Only
  <1>31. ASSUME NEW t \in Tasks, AcceptRead(t)  PROVE  GuardInv' /\ RowHasEngine'
    <2>1. Only(t) /\ pc'[t] = "acceptSave" /\ grp' = grp
      BY <1>31, GoOnly DEF AcceptRead
    <2>2. \A u \in Tasks \ {t} : pc[u] \notin Locked
      BY <1>31, OneInside DEF AcceptRead
    <2>3. QED
      BY <1>31, <2>1, <2>2 DEF AcceptRead, memberVars, GuardInv, GuardHeld, RowHasEngine, Only
  <1>32. ASSUME NEW t \in Tasks, ReapRead(t)  PROVE  GuardInv' /\ RowHasEngine'
    <2>1. \A u \in Tasks \ {t} : pc[u] \notin Locked
      BY <1>32, OneInside DEF ReapRead
    <2>2. row' = row /\ engine' = engine /\ pc[t] = "reapRead"
      BY <1>32 DEF ReapRead, memberVars
    <2>3. CASE End(t) /\ lock' = NoTask
      BY <2>1, <2>2, <2>3, EndOnly DEF GuardInv, GuardHeld, RowHasEngine, Only
    <2>4. CASE Go(t, "reapDelete") /\ seen' = [seen EXCEPT ![t] = row] /\ UNCHANGED <<lock, job>>
      <3>1. Only(t) /\ pc'[t] = "reapDelete" /\ seen'[t] = row
        BY <2>4, GoOnly DEF Typed, TaskTyped
      <3>2. QED  BY <2>1, <2>2, <2>4, <3>1 DEF GuardInv, GuardHeld, RowHasEngine, Only
    <2>5. QED  BY <1>32, <2>3, <2>4 DEF ReapRead
  <1>33. ASSUME NEW t \in Tasks, ReapDelete(t)  PROVE  GuardInv' /\ RowHasEngine'
    <2>1. Only(t) /\ pc'[t] = "idle" /\ lock' = NoTask /\ row' = row /\ pc[t] = "reapDelete"
      BY <1>33, EndOnly DEF ReapDelete
    <2>2. \A u \in Tasks \ {t} : pc[u] \notin Locked
      BY <2>1, OneInside
    <2>3. \A g \in Groups : engine'[g] = "none" => engine[g] = "none" \/ seen[t][g] = "none"
      BY <1>33 DEF ReapDelete, Orphans
    <2>4. RowHasEngine'
      BY <2>1, <2>3 DEF GuardInv, RowHasEngine
    <2>5. QED  BY <2>1, <2>2, <2>4 DEF GuardInv, GuardHeld, Only
  <1>34. QED
    BY <1>1, <1>2, <1>3, <1>4, <1>5, <1>6, <1>7, <1>8, <1>9, <1>10, <1>11, <1>12, <1>13, <1>13a, <1>14, <1>15, <1>16, <1>17, <1>18, <1>19, <1>20, <1>21, <1>22, <1>23, <1>24, <1>25, <1>25a, <1>26, <1>27, <1>28, <1>29, <1>30, <1>31, <1>32, <1>33
    DEF Next, Begin, Step, Create, Accept, Leave, Sync, Live, Evict, Reap

-----------------------------------------------------------------------------
\* What was open is still open, stored, shown or accounted for.
LEMMA LossKeeps ==
    ASSUME NoSilentLoss, NEW t \in Tasks, Only(t), log' = log, consumed' = consumed,
           stored \cup shown \cup lost \subseteq stored' \cup shown' \cup lost',
           job[t].buf \subseteq job'[t].buf \cup stored' \cup shown' \cup lost',
           faults' = 0 => shown' \subseteq stored' \cup lost'
    PROVE  NoSilentLoss'
  <1>1. \A u \in Tasks : job[u].buf \subseteq job'[u].buf \cup stored' \cup shown' \cup lost'
    BY DEF Only
  <1>2. QED  BY <1>1, SameLog DEF NoSilentLoss, InHand

\* A step that stores and deletes nothing.
LEMMA LossFrame ==
    ASSUME NoSilentLoss, NEW t \in Tasks, Only(t), log' = log, consumed' = consumed,
           UNCHANGED <<stored, shown, lost>>, faults' = 0 => faults = 0,
           job[t].buf \subseteq job'[t].buf
    PROVE  NoSilentLoss'
  <1>1. faults' = 0 => shown' \subseteq stored' \cup lost'
    BY DEF NoSilentLoss, InHand
  <1>2. QED  BY <1>1, LossKeeps

\* The engine answers with a message only for a message, and a removal is none.
LEMMA Opened ==
    ASSUME Typed, NEW w \in Wrappers, NEW answer \in Results, Process(w, answer)
    PROVE  /\ consumed' = IF answer \in {"msg", "remove"} THEN consumed \cup {w} ELSE consumed
           /\ answer \in {"msg", "remove"} =>
                /\ answer = Kind(w) /\ Readable(w) /\ w \notin consumed
                /\ engine[w[1]] = "member"
           /\ answer = "remove" => engine' = [engine EXCEPT ![w[1]] = "out"]
           /\ answer # "remove" => engine' = engine
           /\ answer \in {"repeated", "error"} =>
                w \in consumed \/ w \in refused' \/ (~Readable(w) /\ engine[w[1]] = "member")
           /\ answer = "evicted" => engine[w[1]] = "out"
           /\ engine[w[1]] = "none" => answer = "error"
           /\ engine[w[1]] = "out" => answer = "evicted" \/ w \in consumed
  <1>1. answer \in Answers(w)
    BY DEF Process
  <1>2. engine[w[1]] \in {"none", "member", "out"}
    BY WrapperIn DEF Typed, StoreTyped
  <1>3. CASE engine[w[1]] = "none"
    <2>1. answer = "error"
      BY <1>1, <1>3 DEF Answers
    <2>2. w \in consumed \/ Refuses(w, answer)
      BY <1>3, <2>1 DEF Refuses
    <2>3. w \in consumed \/ w \in refused'
      BY <2>2 DEF Process
    <2>4. QED  BY <1>3, <2>1, <2>3 DEF Process
  <1>4. CASE engine[w[1]] = "out"
    <2>1. answer = "evicted" \/ (answer \in {"repeated", "error"} /\ w \in consumed)
      BY <1>1, <1>4 DEF Answers
    <2>2. QED  BY <1>4, <2>1 DEF Process
  <1>5. CASE engine[w[1]] = "member" /\ w \in consumed
    <2>1. answer \in {"repeated", "error"}
      BY <1>1, <1>5 DEF Answers
    <2>2. QED  BY <1>5, <2>1 DEF Process
  <1>6. CASE engine[w[1]] = "member" /\ w \notin consumed /\ Readable(w)
    <2>1. answer = Kind(w) \/ answer = "error" \/ (answer = "repeated" /\ w \in refused)
      BY <1>1, <1>6 DEF Answers
    <2>2. Kind(w) \in {"msg", "remove"}
      BY WrapperFields
    <2>3. answer = "error" => Refuses(w, answer)
      BY <1>6 DEF Refuses, Fails
    <2>4. answer \in {"repeated", "error"} => w \in refused'
      BY <2>1, <2>2, <2>3 DEF Process
    <2>5. QED  BY <1>6, <2>1, <2>2, <2>4 DEF Process
  <1>7. CASE engine[w[1]] = "member" /\ w \notin consumed /\ ~Readable(w)
    <2>1. answer \in {"repeated", "error"}
      BY <1>1, <1>7 DEF Answers
    <2>2. QED  BY <1>7, <2>1 DEF Process
  <1>8. QED  BY <1>2, <1>3, <1>4, <1>5, <1>6, <1>7

\* Every step accounts for what the engine has opened.
LEMMA LossStep ==
    ASSUME Typed, JobInv, NoSilentLoss, [Next]_vars
    PROVE  NoSilentLoss'
  <1>1. CASE UNCHANGED vars
    BY <1>1, SameLog DEF vars, NoSilentLoss, InHand
  <1>2. CASE Crash
    <2>1. log' = log /\ consumed' = consumed /\ stored' = stored /\ shown' = {}
      BY <1>2 DEF Crash, netVars
    <2>2. lost' = lost \cup InHand \cup (shown \ stored)
      BY <1>2 DEF Crash
    <2>3. \A w \in consumed : Kind(w) = "msg" => w \in stored \cup lost'
      BY <2>2 DEF NoSilentLoss
    <2>4. \A w : Kind(w)' = Kind(w)
      BY <2>1, SameLog
    <2>5. QED  BY <2>1, <2>3, <2>4 DEF NoSilentLoss, InHand
  <1>3. ASSUME NEW g \in Groups, NEW kind \in {"msg", "remove"}, Publish(g, kind)  PROVE  NoSilentLoss'
    <2>1. \A w \in consumed : Kind(w)' = Kind(w)
      BY <1>3, WrappersGrow DEF Typed, StoreTyped
    <2>2. QED  BY <1>3, <2>1 DEF Publish, storeVars, taskVars, NoSilentLoss, InHand
  <1>4. ASSUME NEW g \in Groups, Invite(g)  PROVE  NoSilentLoss'
    BY <1>4, SameLog DEF Invite, storeVars, taskVars, NoSilentLoss, InHand
  <1>5. ASSUME NEW t \in Tasks, NEW g \in Groups, CreateEngine(t, g)  PROVE  NoSilentLoss'
    BY <1>5, StartOnly, LossFrame DEF CreateEngine, netVars, storeVars
  <1>6. ASSUME NEW t \in Tasks, NEW g \in Groups, AcceptEngine(t, g)  PROVE  NoSilentLoss'
    BY <1>6, StartOnly, LossFrame DEF AcceptEngine, netVars, storeVars
  <1>7. ASSUME NEW t \in Tasks, NEW g \in Groups, LeaveStart(t, g)  PROVE  NoSilentLoss'
    BY <1>7, StartOnly, LossFrame DEF LeaveStart, netVars, storeVars
  <1>8. ASSUME NEW t \in Tasks, NEW g \in Groups, SyncNow(t, g)  PROVE  NoSilentLoss'
    BY <1>8, StartOnly, LossFrame DEF SyncNow, netVars, storeVars
  <1>9. ASSUME NEW t \in Tasks, NEW g \in Groups, SendRefused(t, g)  PROVE  NoSilentLoss'
    BY <1>9, StartOnly, LossFrame DEF SendRefused, netVars, storeVars
  <1>10. ASSUME NEW t \in Tasks, ReapStart(t)  PROVE  NoSilentLoss'
    BY <1>10, StartOnly, LossFrame DEF ReapStart, netVars, storeVars
  <1>11. ASSUME NEW t \in Tasks, NEW w \in Wrappers, LiveStart(t, w)  PROVE  NoSilentLoss'
    <2>1. Only(t)
      BY <1>11, Locality DEF Begin
    <2>2. job[t].buf = {} /\ UNCHANGED <<log, consumed, lost, stored, shown, faults>>
      BY <1>11, NoJobType DEF LiveStart, JobInv, storeVars
    <2>3. QED  BY <2>1, <2>2, LossFrame
  <1>12. ASSUME NEW t \in Tasks, CreateSave(t)  PROVE  NoSilentLoss'
    <2>1. Only(t)
      BY <1>12, Locality DEF Step, Create
    <2>2. job[t].buf = {} /\ UNCHANGED <<log, consumed, lost, stored, shown, faults>>
      BY <1>12 DEF CreateSave, JobInv, netVars, storeVars
    <2>3. QED  BY <2>1, <2>2, LossFrame
  <1>13. ASSUME NEW t \in Tasks, CreateChat(t)  PROVE  NoSilentLoss'
    <2>1. Only(t)
      BY <1>13, Locality DEF Step, Create
    <2>2. job[t].buf = {} /\ UNCHANGED <<log, consumed, lost, stored, shown>> /\ grp[t] \in Groups
      BY <1>13 DEF CreateChat, JobInv, netVars
    <2>3. faults' = 0 => faults = 0
      BY <1>13, <2>2, SaveChatDoes DEF CreateChat
    <2>4. QED  BY <2>1, <2>2, <2>3, LossFrame
  <1>14. ASSUME NEW t \in Tasks, AcceptRead(t)  PROVE  NoSilentLoss'
    <2>1. Only(t)
      BY <1>14, Locality DEF Step, Accept
    <2>2. job[t].buf = {} /\ UNCHANGED <<log, consumed, lost, stored, shown, faults>>
      BY <1>14 DEF AcceptRead, JobInv, netVars, storeVars
    <2>3. QED  BY <2>1, <2>2, LossFrame
  <1>15. ASSUME NEW t \in Tasks, AcceptSave(t)  PROVE  NoSilentLoss'
    <2>1. Only(t)
      BY <1>15, Locality DEF Step, Accept
    <2>2. job[t].buf = {} /\ UNCHANGED <<log, consumed, lost, stored, shown, faults>>
      BY <1>15 DEF AcceptSave, JobInv, netVars, storeVars
    <2>3. QED  BY <2>1, <2>2, LossFrame
  <1>16. ASSUME NEW t \in Tasks, AcceptChat(t)  PROVE  NoSilentLoss'
    <2>1. Only(t)
      BY <1>16, Locality DEF Step, Accept
    <2>2. job[t].buf = {} /\ UNCHANGED <<log, consumed, lost, stored, shown>> /\ grp[t] \in Groups
      BY <1>16 DEF AcceptChat, JobInv, netVars
    <2>3. faults' = 0 => faults = 0
      BY <1>16, <2>2, SaveChatDoes DEF AcceptChat
    <2>4. QED  BY <2>1, <2>2, <2>3, LossFrame
  <1>17. ASSUME NEW t \in Tasks, LeavePublish(t)  PROVE  NoSilentLoss'
    <2>1. Only(t)
      BY <1>17, Locality DEF Step, Leave
    <2>2. job[t].buf = {} /\ UNCHANGED <<log, consumed, lost, stored, shown, faults>>
      BY <1>17 DEF LeavePublish, JobInv, netVars, storeVars
    <2>3. QED  BY <2>1, <2>2, LossFrame
  <1>18. ASSUME NEW t \in Tasks, LeaveRow(t)  PROVE  NoSilentLoss'
    <2>1. Only(t)
      BY <1>18, Locality DEF Step, Leave
    <2>2. job[t].buf = {} /\ UNCHANGED <<log, consumed, lost, stored, shown, faults>>
      BY <1>18 DEF LeaveRow, JobInv, netVars, storeVars
    <2>3. QED  BY <2>1, <2>2, LossFrame
  <1>19. ASSUME NEW t \in Tasks, LeaveChat(t)  PROVE  NoSilentLoss'
    <2>1. Only(t)
      BY <1>19, Locality DEF Step, Leave
    <2>2. UNCHANGED <<log, consumed>> /\ job[t].buf = {} /\ grp[t] \in Groups /\ DropChat(grp[t])
      BY <1>19 DEF LeaveChat, JobInv, netVars
    <2>3. /\ shown' = shown /\ lost \subseteq lost' /\ stored \subseteq stored' \cup lost'
          /\ faults' = 0 => faults = 0
      BY <2>2, DropChatDoes
    <2>4. faults' = 0 => shown' \subseteq stored' \cup lost'
      BY <2>3 DEF NoSilentLoss, InHand
    <2>5. QED  BY <2>1, <2>2, <2>3, <2>4, LossKeeps
  <1>19a. ASSUME NEW t \in Tasks, LeaveState(t)  PROVE  NoSilentLoss'
    <2>1. Only(t)
      BY <1>19a, Locality DEF Step, Leave
    <2>2. UNCHANGED <<log, consumed>> /\ job[t].buf = {} /\ grp[t] \in Groups /\ DropShown(grp[t])
      BY <1>19a DEF LeaveState, JobInv, netVars
    <2>3. /\ UNCHANGED <<stored, faults>> /\ lost \subseteq lost' /\ shown' \subseteq shown
          /\ shown \subseteq shown' \cup stored' \cup lost'
      BY <2>2, DropShownDoes
    <2>4. faults' = 0 => shown' \subseteq stored' \cup lost'
      BY <2>3 DEF NoSilentLoss, InHand
    <2>5. QED  BY <2>1, <2>2, <2>3, <2>4, LossKeeps
  <1>20. ASSUME NEW t \in Tasks, LeaveRead(t)  PROVE  NoSilentLoss'
    <2>1. Only(t)
      BY <1>20, Locality DEF Step, Leave
    <2>2. job[t].buf = {} /\ UNCHANGED <<log, consumed, lost, stored, shown, faults>>
      BY <1>20 DEF LeaveRead, JobInv, netVars, storeVars
    <2>3. QED  BY <2>1, <2>2, LossFrame
  <1>21. ASSUME NEW t \in Tasks, LeaveWrite(t)  PROVE  NoSilentLoss'
    <2>1. Only(t)
      BY <1>21, Locality DEF Step, Leave
    <2>2. job[t].buf = {} /\ UNCHANGED <<log, consumed, lost, stored, shown>>
      BY <1>21 DEF LeaveWrite, JobInv, netVars
    <2>a. WriteCursors(job[t].snap) /\ job[t].snap \in [Groups -> Nat]
      BY <1>21 DEF LeaveWrite, Typed, TaskTyped, Job
    <2>3. faults' = 0 => faults = 0
      BY <2>a, WriteCursorsDoes
    <2>4. QED  BY <2>1, <2>2, <2>3, LossFrame
  <1>22. ASSUME NEW t \in Tasks, SyncStart(t)  PROVE  NoSilentLoss'
    <2>1. Only(t)
      BY <1>22, Locality DEF Step, Sync
    <2>2. job[t].buf = {} /\ UNCHANGED <<log, consumed, lost, stored, shown, faults>>
      BY <1>22 DEF SyncStart, JobInv, netVars, storeVars
    <2>3. QED  BY <2>1, <2>2, LossFrame
  <1>23. ASSUME NEW t \in Tasks, SyncFetch(t)  PROVE  NoSilentLoss'
    <2>1. Only(t)
      BY <1>23, Locality DEF Step, Sync
    <2>2. job[t].buf = {} /\ UNCHANGED <<log, consumed, lost, stored, shown, faults>>
      BY <1>23 DEF SyncFetch, JobInv, netVars, storeVars
    <2>3. QED  BY <2>1, <2>2, LossFrame
  <1>24. ASSUME NEW t \in Tasks, SyncStore(t)  PROVE  NoSilentLoss'
    <2>1. Only(t)
      BY <1>24, Locality DEF Step, Sync
    <2>2. UNCHANGED <<log, consumed>> /\ grp[t] \in Groups /\ job[t].buf \in SUBSET consumed
      BY <1>24 DEF SyncStore, JobInv, netVars
    <2>3. CASE lost' = lost \cup job[t].buf /\ UNCHANGED <<chat, stored, shown, faults>>
      <3>1. faults' = 0 => shown' \subseteq stored' \cup lost'
        BY <2>3 DEF NoSilentLoss, InHand
      <3>2. QED  BY <2>1, <2>2, <2>3, <3>1, LossKeeps
    <2>4. CASE StoreMessages(grp[t], job[t].buf, FALSE)
      <3>1. /\ stored \subseteq stored' /\ lost \subseteq lost' /\ shown \subseteq shown'
            /\ job[t].buf \subseteq shown' \cup lost' /\ shown' \subseteq shown \cup job[t].buf
            /\ faults' = 0 => faults = 0 /\ job[t].buf \subseteq stored'
        BY <2>2, <2>4, StoreMessagesDoes
      <3>2. faults' = 0 => shown' \subseteq stored' \cup lost'
        BY <3>1 DEF NoSilentLoss, InHand
      <3>3. QED  BY <2>1, <2>2, <3>1, <3>2, LossKeeps
    <2>5. QED  BY <1>24, <2>3, <2>4 DEF SyncStore
  <1>25. ASSUME NEW t \in Tasks, SyncCursor(t)  PROVE  NoSilentLoss'
    <2>1. Only(t)
      BY <1>25, Locality DEF Step, Sync
    <2>2. job[t].buf = {} /\ UNCHANGED <<log, consumed, lost, stored, shown>>
      BY <1>25 DEF SyncCursor, JobInv, netVars
    <2>a. grp[t] \in Groups /\ job[t] \in Job
      BY <1>25 DEF SyncCursor, JobInv, Typed, TaskTyped
    <2>b. CursorMap(job[t], grp[t]) \in [Groups -> Nat]
      BY <2>a DEF CursorMap, Job
    <2>3. faults' = 0 => faults = 0
      BY <1>25, <2>b, WriteCursorsDoes DEF SyncCursor
    <2>4. QED  BY <2>1, <2>2, <2>3, LossFrame
  <1>26. ASSUME NEW t \in Tasks, LiveStore(t)  PROVE  NoSilentLoss'
    <2>1. Only(t)
      BY <1>26, Locality DEF Step, Live
    <2>2. /\ UNCHANGED <<log, consumed>> /\ grp[t] \in Groups /\ job[t].buf \in SUBSET consumed
          /\ StoreMessages(grp[t], job[t].buf, TRUE)
      BY <1>26 DEF LiveStore, JobInv, netVars
    <2>3. /\ stored \subseteq stored' /\ lost \subseteq lost' /\ shown \subseteq shown'
          /\ job[t].buf \subseteq shown' \cup lost' /\ shown' \subseteq shown \cup job[t].buf
          /\ faults' = 0 => faults = 0 /\ job[t].buf \subseteq stored'
      BY <2>2, StoreMessagesDoes
    <2>4. faults' = 0 => shown' \subseteq stored' \cup lost'
      BY <2>3 DEF NoSilentLoss, InHand
    <2>5. QED  BY <2>1, <2>2, <2>3, <2>4, LossKeeps
  <1>27. ASSUME NEW t \in Tasks, EvictRead(t)  PROVE  NoSilentLoss'
    <2>1. Only(t)
      BY <1>27, Locality DEF Step, Evict
    <2>2. job[t].buf = {} /\ UNCHANGED <<log, consumed, lost, stored, shown, faults>>
      BY <1>27 DEF EvictRead, JobInv, netVars, storeVars
    <2>3. QED  BY <2>1, <2>2, LossFrame
  <1>28. ASSUME NEW t \in Tasks, EvictSave(t)  PROVE  NoSilentLoss'
    <2>1. Only(t)
      BY <1>28, Locality DEF Step, Evict
    <2>2. job[t].buf = {} /\ UNCHANGED <<log, consumed, lost, stored, shown, faults>>
      BY <1>28 DEF EvictSave, JobInv, netVars, storeVars
    <2>3. QED  BY <2>1, <2>2, LossFrame
  <1>29. ASSUME NEW t \in Tasks, EvictChat(t)  PROVE  NoSilentLoss'
    <2>1. Only(t)
      BY <1>29, Locality DEF Step, Evict
    <2>2. UNCHANGED <<log, consumed>> /\ job[t].buf = {} /\ grp[t] \in Groups /\ DropChat(grp[t])
      BY <1>29 DEF EvictChat, JobInv, netVars
    <2>3. /\ shown' = shown /\ lost \subseteq lost' /\ stored \subseteq stored' \cup lost'
          /\ faults' = 0 => faults = 0
      BY <2>2, DropChatDoes
    <2>4. faults' = 0 => shown' \subseteq stored' \cup lost'
      BY <2>3 DEF NoSilentLoss, InHand
    <2>5. QED  BY <2>1, <2>2, <2>3, <2>4, LossKeeps
  <1>29a. ASSUME NEW t \in Tasks, EvictState(t)  PROVE  NoSilentLoss'
    <2>1. Only(t)
      BY <1>29a, Locality DEF Step, Evict
    <2>2. UNCHANGED <<log, consumed>> /\ job[t].buf = {} /\ grp[t] \in Groups /\ DropShown(grp[t])
      BY <1>29a DEF EvictState, JobInv, netVars
    <2>3. /\ UNCHANGED <<stored, faults>> /\ lost \subseteq lost' /\ shown' \subseteq shown
          /\ shown \subseteq shown' \cup stored' \cup lost'
      BY <2>2, DropShownDoes
    <2>4. faults' = 0 => shown' \subseteq stored' \cup lost'
      BY <2>3 DEF NoSilentLoss, InHand
    <2>5. QED  BY <2>1, <2>2, <2>3, <2>4, LossKeeps
  <1>30. ASSUME NEW t \in Tasks, ReapRead(t)  PROVE  NoSilentLoss'
    <2>1. Only(t)
      BY <1>30, Locality DEF Step, Reap
    <2>2. job[t].buf = {} /\ UNCHANGED <<log, consumed, lost, stored, shown, faults>>
      BY <1>30 DEF ReapRead, JobInv, netVars, storeVars
    <2>3. QED  BY <2>1, <2>2, LossFrame
  <1>31. ASSUME NEW t \in Tasks, ReapDelete(t)  PROVE  NoSilentLoss'
    <2>1. Only(t)
      BY <1>31, Locality DEF Step, Reap
    <2>2. job[t].buf = {} /\ UNCHANGED <<log, consumed, lost, stored, shown, faults>>
      BY <1>31 DEF ReapDelete, JobInv, netVars, storeVars
    <2>3. QED  BY <2>1, <2>2, LossFrame
  <1>32. ASSUME NEW t \in Tasks, SyncItem(t)  PROVE  NoSilentLoss'
    <2>1. PICK i \in Oldest(job[t].todo), answer \in Results :
            /\ Process(<<grp[t], i>>, answer)
            /\ job' = [job EXCEPT ![t] = Noted(job[t], <<grp[t], i>>, answer)]
      BY <1>32 DEF SyncItem
    <2>2. grp[t] \in Groups /\ i \in 1..Len(log[grp[t]]) /\ i \in Nat /\ job[t] \in Job
      BY <1>32 DEF SyncItem, Oldest, JobInv, Typed, TaskTyped
    <2>3. <<grp[t], i>> \in Wrappers /\ <<grp[t], i>> \in Groups \X Nat
      BY <2>2, WrapperIn
    <2>4. PICK w \in Wrappers : w = <<grp[t], i>> /\ w \in Groups \X Nat
      BY <2>3
    <2>5. job'[t] = Noted(job[t], w, answer) /\ At(w) \in Nat
      BY <2>1, <2>4, WrapperFields DEF Typed, TaskTyped
    <2>6. /\ answer = "msg" => job'[t].buf = job[t].buf \cup {w}
          /\ answer # "msg" => job'[t].buf = job[t].buf
      BY <2>2, <2>4, <2>5, NotedFields
    <2>7. \A u \in Tasks \ {t} : job'[u] = job[u]
      BY <1>32, Locality DEF Step, Sync, Only
    <2>8. /\ answer \in {"msg", "remove"} => answer = Kind(w)
          /\ consumed' = IF answer \in {"msg", "remove"} THEN consumed \cup {w} ELSE consumed
      BY <2>1, <2>4, Opened
    <2>9. \A v \in consumed : Kind(v) = "msg" =>
            v \in stored \cup shown \cup lost \cup InHand'
      BY <2>6, <2>7 DEF NoSilentLoss, InHand
    <2>10. ASSUME answer = "msg"  PROVE  w \in InHand'
      BY <2>6, <2>10 DEF InHand
    <2>11. \A v \in consumed' : Kind(v) = "msg" =>
            v \in stored \cup shown \cup lost \cup InHand'
      BY <2>8, <2>9, <2>10
    <2>12. faults' = 0 => faults = 0
      BY <2>1, <2>4, ProcessDoes
    <2>13. QED  BY <1>32, <2>11, <2>12, SameLog DEF SyncItem, NoSilentLoss, InHand, netVars
  <1>33. ASSUME NEW t \in Tasks, LiveItem(t)  PROVE  NoSilentLoss'
    <2>1. PICK i \in job[t].todo, answer \in Results :
            /\ Process(<<grp[t], i>>, answer)
            /\ answer = "msg" => job' = [job EXCEPT ![t].buf = {<<grp[t], i>>}]
      BY <1>33 DEF LiveItem
    <2>2. /\ grp[t] \in Groups /\ i \in 1..Len(log[grp[t]]) /\ i \in Nat
          /\ job[t] \in Job /\ job[t].buf = {}
      BY <1>33 DEF LiveItem, JobInv, Typed, TaskTyped
    <2>3. PICK w \in Wrappers : w = <<grp[t], i>>
      BY <2>2, WrapperIn
    <2>4. answer = "msg" => job'[t].buf = {w}
      BY <2>1, <2>2, <2>3 DEF Typed, TaskTyped, Job
    <2>5. \A u \in Tasks \ {t} : job'[u] = job[u]
      BY <1>33, Locality DEF Step, Live, Only
    <2>6. /\ answer \in {"msg", "remove"} => answer = Kind(w)
          /\ consumed' = IF answer \in {"msg", "remove"} THEN consumed \cup {w} ELSE consumed
      BY <2>1, <2>3, Opened
    <2>7. \A v \in consumed : Kind(v) = "msg" =>
            v \in stored \cup shown \cup lost \cup InHand'
      BY <2>2, <2>5 DEF NoSilentLoss, InHand
    <2>8. ASSUME answer = "msg"  PROVE  w \in InHand'
      BY <2>4, <2>8 DEF InHand
    <2>9. \A v \in consumed' : Kind(v) = "msg" =>
            v \in stored \cup shown \cup lost \cup InHand'
      BY <2>6, <2>7, <2>8
    <2>10. faults' = 0 => faults = 0
      BY <2>1, <2>3, ProcessDoes
    <2>11. QED  BY <1>33, <2>9, <2>10, SameLog DEF LiveItem, NoSilentLoss, InHand, netVars
  <1>34. QED
    BY <1>1, <1>2, <1>3, <1>4, <1>5, <1>6, <1>7, <1>8, <1>9, <1>10, <1>11, <1>12, <1>13, <1>14, <1>15, <1>16, <1>17, <1>18, <1>19, <1>19a, <1>20, <1>21, <1>22, <1>23, <1>24, <1>25, <1>26, <1>27, <1>28, <1>29, <1>29a, <1>30, <1>31, <1>32, <1>33
    DEF Next, Begin, Step, Create, Accept, Leave, Sync, Live, Evict, Reap

-----------------------------------------------------------------------------
\* The initial states satisfy all of it.
LEMMA InitInv == Init => Typed /\ JobInv /\ GuardInv /\ RowHasEngine /\ NoSilentLoss
  <1> SUFFICES ASSUME Init  PROVE  Typed /\ JobInv /\ GuardInv /\ RowHasEngine /\ NoSilentLoss
    OBVIOUS
  <1>1. TaskTyped /\ JobInv
    BY NoJobType DEF Init, TaskTyped, JobInv, Pcs
  <1>2. StoreTyped
    BY DEF Init, StoreTyped, None
  <1>3. GuardInv /\ RowHasEngine
    BY DEF Init, GuardInv, GuardHeld, RowHasEngine, Locked
  <1>4. NoSilentLoss
    BY DEF Init, NoSilentLoss, InHand
  <1>5. QED  BY <1>1, <1>2, <1>3, <1>4 DEF Typed

\* The inductive invariant of the four theorems below.
IInv == Typed /\ JobInv /\ GuardInv /\ RowHasEngine /\ NoSilentLoss

LEMMA Inductive == Spec => []IInv
  <1>1. Init => IInv
    BY InitInv DEF IInv
  <1>2. IInv /\ [Next]_vars => IInv'
    BY TypedStep, GuardStep, LossStep DEF IInv
  <1>3. QED  BY <1>1, <1>2, PTL DEF Spec

\* Rows, cursors, chats and the engine keep their types, nothing is stored or lost that the
\* engine did not open, and nothing is opened that is not on the relays.
THEOREM TypeCorrect == Spec => []TypeOK
  <1>1. IInv => TypeOK
    BY DEF IInv, Typed, TaskTyped, StoreTyped, TypeOK
  <1>2. QED  BY <1>1, Inductive, PTL

\* MLS_GROUPS_ENGINE_CREATE_LOCK is held exactly by the command between its first and its
\* last access to what it protects, errors and crashes included.
THEOREM GuardSafe == Spec => []GuardHeld
  <1>1. IInv => GuardHeld
    BY DEF IInv, GuardInv
  <1>2. QED  BY <1>1, Inductive, PTL

\* The orphan reaper never deletes the engine group of a live row, whatever create, accept,
\* leave and cleanup are doing, for any number of them and of groups.
THEOREM RowsHaveEngine == Spec => []RowHasEngine
  <1>1. IInv => RowHasEngine
    BY DEF IInv
  <1>2. QED  BY <1>1, Inductive, PTL

\* What sync and live handling open is stored, in a task's hands, or accounted for.
THEOREM NothingLostSilently == Spec => []NoSilentLoss
  <1>1. IInv => NoSilentLoss
    BY DEF IInv
  <1>2. QED  BY <1>1, Inductive, PTL

-----------------------------------------------------------------------------
(* NoSkip. *)

\* The log is in the order of created_at, and nothing on it is from the future.
LogInv ==
    /\ 1 <= clock /\ (clock <= MaxClock \/ clock = 1)
    /\ \A g \in Groups : \A i \in 1..Len(log[g]) :
          /\ log[g][i].at <= clock
          /\ \A j \in 1..Len(log[g]) : i <= j => log[g][i].at <= log[g][j].at
    /\ IsFiniteSet(Wrappers) /\ Cardinality(Wrappers) <= MaxLog

Removes(g) == {i \in 1..Len(log[g]) : log[g][i].kind = "remove"}

\* Where this device stands in a group.  After a welcome, or after the start of a
\* membership, at most one removal follows, it ends the log, and nobody has opened it; a
\* welcome that is pending while the engine is still a member comes after the removal the
\* engine has not seen.
Standing(g) ==
    /\ joinedAt[g] <= Len(log[g]) /\ welcome[g] <= Len(log[g])
    /\ welcome[g] # None =>
        /\ g \notin belongs => Len(log[g]) \in Removes(g) /\ Len(log[g]) > welcome[g]
        /\ \A r \in Removes(g) : r > welcome[g] =>
                r = Len(log[g]) /\ g \notin belongs /\ <<g, r>> \notin consumed
    /\ engine[g] = "member" =>
        /\ \A r \in Removes(g) : Readable(<<g, r>>) => <<g, r>> \notin consumed
        /\ welcome[g] = None =>
            /\ \A r \in Removes(g) : r > joinedAt[g] => r = Len(log[g]) /\ g \notin belongs
            /\ g \notin belongs => Len(log[g]) > joinedAt[g] /\ Len(log[g]) \in Removes(g)
        /\ welcome[g] # None => \E r \in Removes(g) : r <= welcome[g] /\ Readable(<<g, r>>)
MemberInv == \A g \in Groups : Standing(g)

\* The wrappers a member must get to see: those of its membership and those after a
\* welcome it may still accept.
Alive(g, i) ==
    \/ engine[g] = "member" /\ Readable(<<g, i>>)
    \/ welcome[g] # None /\ i > welcome[g]
Handled(g, i) == <<g, i>> \in refused \/ (log[g][i].kind = "msg" /\ <<g, i>> \in consumed)

\* Position c leaves nothing behind it.
Behind(g, c) == \A i \in 1..Len(log[g]) : Alive(g, i) /\ log[g][i].at < c => Handled(g, i)
Safe(g, c) == c <= clock /\ Behind(g, c)

\* What a running sync may write back, and what it has passed over in its batch.
Walk(t) ==
    /\ \A g \in Groups : Safe(g, job[t].snap[g])
    /\ job[t].last <= clock
    /\ grp[t] \in Groups /\ ~job[t].evicted => Behind(grp[t], job[t].last)
    /\ pc[t] = "syncFetch" => job[t].since = job[t].snap[grp[t]]
    /\ pc[t] = "syncItem" /\ ~job[t].evicted =>
        \A j \in job[t].todo : \A i \in 1..Len(log[grp[t]]) :
            i < j /\ Alive(grp[t], i) /\ i \notin job[t].todo => Handled(grp[t], i)
CursorInv ==
    /\ \A g \in Groups : Safe(g, cursor[g])
    /\ \A t \in Tasks : Walk(t)

\* Only a new wrapper changes the log.
LEMMA LogFixed ==
    ASSUME [Next]_vars
    PROVE  \/ \E g \in Groups, kind \in {"msg", "remove"} : Publish(g, kind)
           \/ UNCHANGED <<clock, log>>
  <1>1. CASE UNCHANGED vars
    BY <1>1 DEF vars
  <1>2. CASE Crash \/ \E g \in Groups : Publish(g, "msg") \/ Publish(g, "remove") \/ Invite(g)
    BY <1>2 DEF Crash, Invite, netVars
  <1>3. ASSUME NEW t \in Tasks, Begin(t)  PROVE  UNCHANGED <<clock, log>>
    BY <1>3 DEF Begin, CreateEngine, AcceptEngine, LeaveStart, SyncNow, SendRefused, ReapStart,
                LiveStart, netVars
  <1>4. ASSUME NEW t \in Tasks, Create(t) \/ Accept(t) \/ Leave(t)  PROVE  UNCHANGED <<clock, log>>
    BY <1>4 DEF Create, CreateSave, CreateChat, Accept, AcceptRead, AcceptSave, AcceptChat,
                Leave, LeavePublish, LeaveRow, LeaveState, LeaveChat, LeaveRead, LeaveWrite, netVars
  <1>5. ASSUME NEW t \in Tasks, Sync(t) \/ Live(t)  PROVE  UNCHANGED <<clock, log>>
    BY <1>5 DEF Sync, SyncStart, SyncFetch, SyncItem, SyncStore, SyncCursor,
                Live, LiveItem, LiveStore, netVars
  <1>6. ASSUME NEW t \in Tasks, Evict(t) \/ Reap(t)  PROVE  UNCHANGED <<clock, log>>
    BY <1>6 DEF Evict, EvictRead, EvictSave, EvictState, EvictChat, Reap, ReapRead, ReapDelete, netVars
  <1>7. QED  BY <1>1, <1>2, <1>3, <1>4, <1>5, <1>6 DEF Next, Step

LEMMA LogStep ==
    ASSUME Typed, LogInv, [Next]_vars
    PROVE  LogInv'
  <1>1. CASE UNCHANGED <<clock, log>>
    BY <1>1, SameLog DEF LogInv
  <1>2. ASSUME NEW g \in Groups, NEW kind \in {"msg", "remove"}, Publish(g, kind)
        PROVE  LogInv'
    <2>1. /\ clock' \in Nat /\ clock' >= clock /\ clock \in Nat
          /\ \A h \in Groups : h # g => log'[h] = log[h]
          /\ Len(log'[g]) = Len(log[g]) + 1
          /\ \A i \in 1..Len(log[g]) : log'[g][i] = log[g][i]
          /\ log'[g][Len(log[g]) + 1].at = clock'
      BY <1>2, PublishGrows DEF Typed, StoreTyped
    <2>2. \A h \in Groups : Len(log[h]) \in Nat
      BY DEF Typed, StoreTyped
    <2>3. \A h \in Groups : \A i \in 1..Len(log[h]) : log[h][i].at \in Nat
      BY EntryFields
    <2>4. clock' <= MaxClock \/ clock' = 1
      BY <1>2, <2>1 DEF Publish, LogInv
    <2>5. ASSUME NEW h \in Groups, NEW i \in 1..Len(log'[h])
          PROVE  /\ log'[h][i].at <= clock'
                 /\ \A j \in 1..Len(log'[h]) : i <= j => log'[h][i].at <= log'[h][j].at
      <3>0. \A k \in 1..Len(log[h]) : /\ log[h][k].at <= clock
                                     /\ \A j \in 1..Len(log[h]) : k <= j => log[h][k].at <= log[h][j].at
        BY DEF LogInv
      <3>1. CASE h # g
        BY <2>1, <2>2, <2>3, <2>5, <3>1, <3>0
      <3>2. CASE h = g /\ i <= Len(log[g])
        <4>1. i \in 1..Len(log[g]) /\ log'[g][i].at = log[g][i].at /\ log[g][i].at \in Nat
          BY <2>1, <2>2, <2>3, <2>5, <3>2
        <4>2. log'[g][i].at <= clock'
          BY <2>1, <3>2, <3>0, <4>1
        <4>3. ASSUME NEW j \in 1..Len(log'[g]), i <= j  PROVE  log'[g][i].at <= log'[g][j].at
          <5>1. CASE j \in 1..Len(log[g])
            BY <2>1, <3>2, <3>0, <4>1, <4>3, <5>1
          <5>2. CASE j = Len(log[g]) + 1
            BY <2>1, <4>1, <4>2, <5>2
          <5>3. QED  BY <2>1, <2>2, <4>3, <5>1, <5>2
        <4>4. QED  BY <3>2, <4>2, <4>3
      <3>3. CASE h = g /\ i = Len(log[g]) + 1
        BY <2>1, <2>2, <2>5, <3>3
      <3>4. QED  BY <2>1, <2>2, <2>5, <3>1, <3>2, <3>3
    <2>6. IsFiniteSet(Wrappers)' /\ Cardinality(Wrappers)' <= MaxLog
      <3>1. Wrappers' = Wrappers \cup {<<g, Len(log[g]) + 1>>} /\ <<g, Len(log[g]) + 1>> \notin Wrappers
        BY <1>2, WrappersGrow
      <3>2. IsFiniteSet(Wrappers) /\ Cardinality(Wrappers) < MaxLog /\ Cardinality(Wrappers) \in Nat
        BY <1>2, FS_CardinalityType DEF Publish, LogInv
      <3>3. IsFiniteSet(Wrappers') /\ Cardinality(Wrappers') = Cardinality(Wrappers) + 1
        BY <3>1, <3>2, FS_AddElement
      <3>4. QED  BY <3>2, <3>3
    <2>7. QED  BY <2>1, <2>4, <2>5, <2>6 DEF LogInv
  <1>3. QED  BY <1>1, <1>2, LogFixed

\* Under the limit, a relay's answer is everything that matches.
LEMMA NewestAll ==
    ASSUME Typed, LogInv, MaxLog <= Limit, NEW g \in Groups,
           NEW S \in SUBSET (1..Len(log[g]))
    PROVE  Newest(S) = S
  <1> SUFFICES ASSUME NEW i \in S  PROVE  Cardinality({j \in S : j > i}) < Limit
    BY DEF Newest
  <1> DEFINE T == {j \in S : j > i}
             P == {<<g, j>> : j \in T}
             V == Wrappers \ {<<g, i>>}
             f == [j \in T |-> <<g, j>>]
  <1>1. <<g, i>> \in Wrappers /\ \A j \in T : <<g, j>> \in V
    BY WrapperIn
  <1>2. IsFiniteSet(Wrappers) /\ Cardinality(Wrappers) <= MaxLog /\ Cardinality(Wrappers) \in Nat
    BY FS_CardinalityType DEF LogInv
  <1>3. IsFiniteSet(V) /\ Cardinality(V) = Cardinality(Wrappers) - 1
    BY <1>1, <1>2, FS_RemoveElement
  <1>4. f \in Injection(T, V)
    BY <1>1 DEF Injection, IsInjective
  <1>5. IsFiniteSet(T) /\ Cardinality(T) <= Cardinality(V)
    BY <1>3, <1>4, FS_Injection
  <1>6. Cardinality(T) \in Nat
    BY <1>5, FS_CardinalityType
  <1>7. QED  BY <1>2, <1>3, <1>5, <1>6

\* What was opened or refused stays so.
LEMMA HandledGrows ==
    ASSUME [Next]_vars
    PROVE  consumed \subseteq consumed' /\ refused \subseteq refused'
  <1>1. CASE UNCHANGED vars \/ Crash \/ \E g \in Groups : Publish(g, "msg") \/ Publish(g, "remove") \/ Invite(g)
    BY <1>1 DEF vars, Crash, Publish, Invite, storeVars
  <1>2. ASSUME NEW t \in Tasks, Begin(t)  PROVE  UNCHANGED <<consumed, refused>>
    BY <1>2 DEF Begin, CreateEngine, AcceptEngine, LeaveStart, SyncNow, SendRefused, ReapStart,
                LiveStart, storeVars
  <1>3. ASSUME NEW t \in Tasks, Create(t) \/ Accept(t) \/ Leave(t)
        PROVE  UNCHANGED <<consumed, refused>>
    BY <1>3 DEF Create, CreateSave, CreateChat, Accept, AcceptRead, AcceptSave, AcceptChat,
                Leave, LeavePublish, LeaveRow, LeaveState, LeaveChat, LeaveRead, LeaveWrite, storeVars
  <1>4. ASSUME NEW t \in Tasks, SyncItem(t) \/ LiveItem(t)
        PROVE  consumed \subseteq consumed' /\ refused \subseteq refused'
    BY <1>4 DEF SyncItem, LiveItem, Process
  <1>5. ASSUME NEW t \in Tasks, Sync(t) \/ Live(t)
        PROVE  SyncItem(t) \/ LiveItem(t) \/ UNCHANGED <<consumed, refused>>
    BY <1>5 DEF Sync, SyncStart, SyncFetch, SyncStore, SyncCursor, Live, LiveStore, storeVars
  <1>6. ASSUME NEW t \in Tasks, Evict(t) \/ Reap(t)  PROVE  UNCHANGED <<consumed, refused>>
    BY <1>6 DEF Evict, EvictRead, EvictSave, EvictState, EvictChat, Reap, ReapRead, ReapDelete, storeVars
  <1>7. QED  BY <1>1, <1>2, <1>3, <1>4, <1>5, <1>6 DEF Next, Step

\* The fields of the log after a step.
LEMMA EntryNext ==
    ASSUME Typed', NEW g \in Groups, NEW i \in 1..Len(log'[g])
    PROVE  log'[g][i].kind \in {"msg", "remove"} /\ log'[g][i].at \in Nat
  <1>1. log'[g] \in Seq(Wrapper)
    BY DEF Typed, StoreTyped
  <1>2. log'[g][i] \in Wrapper
    BY <1>1
  <1>3. QED  BY <1>2 DEF Wrapper

\* Which steps change memberships or open wrappers.
LEMMA MembersFixed ==
    ASSUME [Next]_vars
    PROVE  \/ UNCHANGED <<log, belongs, welcome, joinedAt, engine, consumed>>
           \/ \E g \in Groups, kind \in {"msg", "remove"} : Publish(g, kind)
           \/ \E g \in Groups : Invite(g)
           \/ \E t \in Tasks, g \in Groups : CreateEngine(t, g) \/ AcceptEngine(t, g)
           \/ \E t \in Tasks : SyncItem(t) \/ LiveItem(t) \/ ReapDelete(t)
  <1> DEFINE same == UNCHANGED <<log, belongs, welcome, joinedAt, engine, consumed>>
  <1>1. CASE UNCHANGED vars
    BY <1>1 DEF vars
  <1>2. CASE Crash \/ \E g \in Groups : Publish(g, "msg") \/ Publish(g, "remove") \/ Invite(g)
    BY <1>2 DEF Crash, netVars, memberVars
  <1>3. ASSUME NEW t \in Tasks, Begin(t)
        PROVE  same \/ \E g \in Groups : CreateEngine(t, g) \/ AcceptEngine(t, g)
    BY <1>3 DEF Begin, LeaveStart, SyncNow, SendRefused, ReapStart, LiveStart, netVars,
                memberVars, storeVars
  <1>4. ASSUME NEW t \in Tasks, Create(t) \/ Accept(t) \/ Leave(t)  PROVE  same
    BY <1>4 DEF Create, CreateSave, CreateChat, Accept, AcceptRead, AcceptSave, AcceptChat,
                Leave, LeavePublish, LeaveRow, LeaveState, LeaveChat, LeaveRead, LeaveWrite, netVars,
                memberVars, storeVars
  <1>5. ASSUME NEW t \in Tasks, Sync(t) \/ Live(t)  PROVE  same \/ SyncItem(t) \/ LiveItem(t)
    BY <1>5 DEF Sync, SyncStart, SyncFetch, SyncStore, SyncCursor, Live, LiveStore, netVars,
                memberVars, storeVars
  <1>6. ASSUME NEW t \in Tasks, Evict(t) \/ Reap(t)  PROVE  same \/ ReapDelete(t)
    BY <1>6 DEF Evict, EvictRead, EvictSave, EvictState, EvictChat, Reap, ReapRead, netVars, memberVars,
                storeVars
  <1>7. QED  BY <1>1, <1>2, <1>3, <1>4, <1>5, <1>6 DEF Next, Step

\* A group nothing happened to stands where it stood.
LEMMA StandingFrame ==
    ASSUME NEW g \in Groups, Standing(g), log'[g] = log[g], joinedAt'[g] = joinedAt[g],
           welcome'[g] = welcome[g], engine'[g] = engine[g] \/ engine'[g] # "member",
           g \in belongs' <=> g \in belongs,
           \A i : <<g, i>> \in consumed' => <<g, i>> \in consumed
    PROVE  Standing(g)'
  BY DEF Standing, Removes, Readable

\* Opening a wrapper: a removal that is opened ends the membership it belongs to.
LEMMA StandingProcess ==
    ASSUME Typed, MemberInv, NEW w \in Wrappers, NEW answer \in Results, Process(w, answer),
           UNCHANGED <<log, belongs>>
    PROVE  MemberInv'
  <1> SUFFICES ASSUME NEW g \in Groups  PROVE  Standing(g)'
    BY DEF MemberInv
  <1>1. UNCHANGED <<welcome, joinedAt>> /\ Standing(g)
    BY DEF Process, MemberInv
  <1>2. w \in Groups \X Nat /\ w = <<w[1], w[2]>> /\ w[1] \in Groups /\ w[2] \in 1..Len(log[w[1]])
    BY WrapperIn
  <1>3. CASE answer \notin {"msg", "remove"}
    BY <1>1, <1>3, Opened, StandingFrame
  <1>4. CASE w[1] # g
    <2>1. \A i : <<g, i>> \in consumed' => <<g, i>> \in consumed
      BY <1>2, <1>4, Opened
    <2>2. engine'[g] = engine[g]
      <3>1. engine' = engine \/ engine' = [engine EXCEPT ![w[1]] = "out"]
        BY Opened
      <3>2. engine \in [Groups -> {"none", "member", "out"}]
        BY DEF Typed, StoreTyped
      <3>3. QED  BY <1>4, <3>1, <3>2
    <2>3. QED  BY <1>1, <2>1, <2>2, StandingFrame
  <1>5. CASE w[1] = g /\ answer = "msg"
    <2>1. Kind(w) = "msg" /\ engine' = engine /\ consumed' = consumed \cup {w}
      BY <1>5, Opened
    <2>2. \A r \in Removes(g) : <<g, r>> \in consumed' => <<g, r>> \in consumed
      BY <1>2, <1>5, <2>1 DEF Removes, Kind
    <2>3. Removes(g)' = Removes(g) /\ \A i : Readable(<<g, i>>)' = Readable(<<g, i>>)
      BY <1>1 DEF Removes, Readable
    <2>4. QED  BY <1>1, <2>1, <2>2, <2>3 DEF Standing
  <1>6. CASE w[1] = g /\ answer = "remove"
    <2>1. /\ engine[g] = "member" /\ engine'[g] = "out" /\ consumed' = consumed \cup {w}
          /\ Readable(w) /\ Kind(w) = "remove"
      BY <1>2, <1>6, Opened DEF Typed, StoreTyped
    <2>2. ASSUME welcome[g] # None  PROVE  w[2] <= welcome[g]
      <3>1. PICK r \in Removes(g) : r <= welcome[g] /\ Readable(<<g, r>>)
        BY <1>1, <2>1, <2>2 DEF Standing
      <3>2. /\ r \in Nat /\ r > joinedAt[g] /\ log[g][r].kind = "remove"
            /\ joinedAt[g] \in Nat /\ w[2] \in Nat /\ welcome[g] \in Nat
        BY <1>2, <2>2, <3>1 DEF Removes, Readable, Typed, StoreTyped
      <3>3. ~(r < w[2])
        BY <1>6, <2>1, <3>2 DEF Readable
      <3>4. QED  BY <3>1, <3>2, <3>3
    <2>3. \A r \in Removes(g) : welcome[g] # None /\ r > welcome[g] /\ <<g, r>> \in consumed'
                                    => <<g, r>> \in consumed
      <3> SUFFICES ASSUME NEW r \in Removes(g), welcome[g] # None, r > welcome[g],
                          <<g, r>> \in consumed'
                   PROVE  <<g, r>> \in consumed
        OBVIOUS
      <3>1. r # w[2]
        BY <1>2, <2>2 DEF Removes, Typed, StoreTyped
      <3>2. QED  BY <1>2, <2>1, <3>1
    <2>4. Removes(g)' = Removes(g)
      BY DEF Removes
    <2>5. QED  BY <1>1, <2>1, <2>3, <2>4 DEF Standing
  <1>7. QED  BY <1>3, <1>4, <1>5, <1>6

\* Every step keeps the standing of every group.
LEMMA MemberStep ==
    ASSUME Typed, JobInv, MemberInv, [Next]_vars
    PROVE  MemberInv'
  <1> USE DEF MemberInv
  <1>1. CASE UNCHANGED <<log, belongs, welcome, joinedAt, engine, consumed>>
    BY <1>1, StandingFrame
  <1>2. ASSUME NEW g \in Groups, NEW kind \in {"msg", "remove"}, Publish(g, kind)
        PROVE  MemberInv'
    <2> DEFINE n == Len(log[g]) + 1
    <2>1. /\ \A h \in Groups : h # g => log'[h] = log[h]
          /\ Len(log'[g]) = n
          /\ \A i \in 1..Len(log[g]) : log'[g][i] = log[g][i]
          /\ log'[g][n].kind = kind
      BY <1>2, PublishGrows
    <2>2. /\ UNCHANGED <<welcome, joinedAt, engine, consumed>> /\ g \in belongs
          /\ belongs' = IF kind = "remove" THEN belongs \ {g} ELSE belongs
      BY <1>2 DEF Publish, memberVars, storeVars
    <2>3. \A h \in Groups \ {g} : Standing(h)'
      BY <2>1, <2>2, StandingFrame
    <2>4. Len(log[g]) \in Nat /\ joinedAt[g] \in Nat /\ welcome[g] \in Nat \cup {None}
      BY DEF Typed, StoreTyped
    <2>5. <<g, n>> \notin consumed
      BY <1>2, WrappersGrow DEF Typed, StoreTyped
    <2>6. Removes(g)' = IF kind = "remove" THEN Removes(g) \cup {n} ELSE Removes(g)
      BY <2>1, <2>4 DEF Removes
    <2>7. \A i \in 1..Len(log[g]) : Readable(<<g, i>>)' <=> Readable(<<g, i>>)
      <3> SUFFICES ASSUME NEW i \in 1..Len(log[g])
                   PROVE  Readable(<<g, i>>)' <=> Readable(<<g, i>>)
        OBVIOUS
      <3>1. \A k \in joinedAt[g] + 1 .. i - 1 : log'[g][k] = log[g][k]
        BY <2>1, <2>4
      <3>2. QED  BY <2>2, <3>1 DEF Readable
    <2>8. Removes(g) \subseteq 1..Len(log[g])
      BY DEF Removes
    <2>9. Standing(g)'
      <3>1. Standing(g)
        OBVIOUS
      <3>2. joinedAt'[g] <= n /\ welcome'[g] <= n /\ Len(log'[g]) = n /\ n > Len(log[g])
        BY <2>1, <2>2, <2>4, <3>1 DEF Standing, None
      <3>3. CASE kind = "msg"
        BY <2>2, <2>4, <2>6, <2>7, <2>8, <3>1, <3>2, <3>3 DEF Standing
      <3>4. CASE kind = "remove"
        <4>1. Removes(g)' = Removes(g) \cup {n} /\ g \notin belongs'
          BY <2>2, <2>6, <3>4
        <4>2. ASSUME welcome[g] # None
              PROVE  /\ n > welcome[g]
                     /\ \A r \in Removes(g)' : r > welcome[g] => r = n /\ <<g, r>> \notin consumed
          BY <2>2, <2>4, <2>5, <3>1, <3>2, <4>1, <4>2 DEF Standing
        <4>3. ASSUME engine[g] = "member"
              PROVE  /\ \A r \in Removes(g)' : Readable(<<g, r>>)' => <<g, r>> \notin consumed
                     /\ welcome[g] = None => \A r \in Removes(g)' : r > joinedAt[g] => r = n
                     /\ welcome[g] = None => n > joinedAt[g]
                     /\ welcome[g] # None =>
                            \E r \in Removes(g)' : r <= welcome[g] /\ Readable(<<g, r>>)'
          BY <2>2, <2>4, <2>5, <2>7, <2>8, <3>1, <3>2, <4>1, <4>3 DEF Standing
        <4>4. QED  BY <2>2, <3>2, <4>1, <4>2, <4>3 DEF Standing
      <3>5. QED  BY <3>3, <3>4
    <2>10. QED  BY <2>3, <2>9
  <1>3. ASSUME NEW g \in Groups, Invite(g)  PROVE  MemberInv'
    <2>1. /\ g \notin belongs /\ welcome[g] = None /\ belongs' = belongs \cup {g}
          /\ welcome' = [welcome EXCEPT ![g] = Len(log[g])]
          /\ UNCHANGED <<log, joinedAt, engine, consumed>>
      BY <1>3 DEF Invite, storeVars
    <2>2. \A h \in Groups \ {g} : Standing(h)'
      BY <2>1, StandingFrame DEF Typed, StoreTyped
    <2>3. Len(log[g]) \in Nat /\ joinedAt[g] \in Nat /\ welcome'[g] = Len(log[g])
      BY <2>1 DEF Typed, StoreTyped
    <2>4. Removes(g)' = Removes(g) /\ \A i : Readable(<<g, i>>)' = Readable(<<g, i>>)
      BY <2>1 DEF Removes, Readable
    <2>5. ASSUME engine[g] = "member"
          PROVE  Len(log[g]) \in Removes(g) /\ Readable(<<g, Len(log[g])>>)
      BY <2>1, <2>3, <2>5 DEF Standing, Removes, Readable
    <2>6. Removes(g) \subseteq 1..Len(log[g])
      BY DEF Removes
    <2>7. Standing(g)'
      BY <2>1, <2>3, <2>4, <2>5, <2>6 DEF Standing, None
    <2>8. QED  BY <2>2, <2>7
  <1>4. ASSUME NEW t \in Tasks, NEW g \in Groups, CreateEngine(t, g)  PROVE  MemberInv'
    <2>1. /\ g \notin belongs /\ log[g] = <<>> /\ belongs' = belongs \cup {g}
          /\ engine' = [engine EXCEPT ![g] = "member"]
          /\ UNCHANGED <<log, joinedAt, welcome, consumed>>
      BY <1>4 DEF CreateEngine, storeVars
    <2>2. \A h \in Groups \ {g} : Standing(h)'
      BY <2>1, StandingFrame DEF Typed, StoreTyped
    <2>3. Removes(g) = {} /\ Removes(g)' = {}
      BY <2>1 DEF Removes
    <2>4. welcome[g] = None
      BY <2>1, <2>3 DEF Standing
    <2>5. Standing(g)'
      BY <2>1, <2>3, <2>4 DEF Standing
    <2>6. QED  BY <2>2, <2>5
  <1>5. ASSUME NEW t \in Tasks, NEW g \in Groups, AcceptEngine(t, g)  PROVE  MemberInv'
    <2>1. /\ welcome[g] # None /\ UNCHANGED <<log, belongs, consumed>>
          /\ engine' = [engine EXCEPT ![g] = "member"]
          /\ joinedAt' = [joinedAt EXCEPT ![g] = welcome[g]]
          /\ welcome' = [welcome EXCEPT ![g] = None]
      BY <1>5 DEF AcceptEngine, storeVars, netVars
    <2>2. \A h \in Groups \ {g} : Standing(h)'
      BY <2>1, StandingFrame DEF Typed, StoreTyped
    <2>3. /\ Len(log[g]) \in Nat /\ welcome[g] \in Nat
          /\ joinedAt'[g] = welcome[g] /\ welcome'[g] = None
      BY <2>1 DEF Typed, StoreTyped
    <2>4. Removes(g)' = Removes(g)
      BY <2>1 DEF Removes
    <2>5. \A r : Readable(<<g, r>>)' => r > welcome[g]
      BY <2>3 DEF Readable
    <2>6. /\ \A r \in Removes(g) : r > welcome[g] =>
                r = Len(log[g]) /\ g \notin belongs /\ <<g, r>> \notin consumed
          /\ g \notin belongs => Len(log[g]) \in Removes(g) /\ Len(log[g]) > welcome[g]
          /\ welcome[g] <= Len(log[g]) /\ None <= Len(log[g])
      BY <2>1, <2>3 DEF Standing, None
    <2>7. Standing(g)'
      BY <2>1, <2>3, <2>4, <2>5, <2>6 DEF Standing
    <2>8. QED  BY <2>2, <2>7
  <1>6. ASSUME NEW t \in Tasks, SyncItem(t)  PROVE  MemberInv'
    <2>1. PICK i \in job[t].todo, answer \in Results : Process(<<grp[t], i>>, answer)
      BY <1>6 DEF SyncItem, Oldest
    <2>2. <<grp[t], i>> \in Wrappers
      BY <1>6, WrapperIn DEF SyncItem, JobInv
    <2>3. QED  BY <1>6, <2>1, <2>2, StandingProcess DEF SyncItem, netVars
  <1>7. ASSUME NEW t \in Tasks, LiveItem(t)  PROVE  MemberInv'
    <2>1. PICK i \in job[t].todo, answer \in Results : Process(<<grp[t], i>>, answer)
      BY <1>7 DEF LiveItem
    <2>2. <<grp[t], i>> \in Wrappers
      BY <1>7, WrapperIn DEF LiveItem, JobInv
    <2>3. QED  BY <1>7, <2>1, <2>2, StandingProcess DEF LiveItem, netVars
  <1>8. ASSUME NEW t \in Tasks, ReapDelete(t)  PROVE  MemberInv'
    <2>1. \A g \in Groups : engine'[g] = engine[g] \/ engine'[g] = "none"
      BY <1>8 DEF ReapDelete
    <2>2. UNCHANGED <<log, belongs, welcome, joinedAt, consumed>>
      BY <1>8 DEF ReapDelete, netVars, storeVars
    <2>3. QED  BY <2>1, <2>2, StandingFrame
  <1>9. QED  BY <1>1, <1>2, <1>3, <1>4, <1>5, <1>6, <1>7, <1>8, MembersFixed

-----------------------------------------------------------------------------
\* A step brings nothing to life that was published before, and forgets nothing handled.
Calm ==
    /\ clock' >= clock
    /\ \A g \in Groups : \A i \in 1..Len(log'[g]) :
        Alive(g, i)' => \/ i <= Len(log[g]) /\ Alive(g, i)
                        \/ i > Len(log[g]) /\ log'[g][i].at >= clock
    /\ \A g \in Groups : /\ Len(log[g]) <= Len(log'[g])
                         /\ \A i \in 1..Len(log[g]) : log'[g][i] = log[g][i]
    /\ consumed \subseteq consumed' /\ refused \subseteq refused'

LEMMA CalmStep ==
    ASSUME Typed, JobInv, MemberInv, [Next]_vars
    PROVE  Calm
  <1>0. \A g \in Groups : Len(log[g]) \in Nat /\ clock \in Nat
    BY DEF Typed, StoreTyped
  <1>a. consumed \subseteq consumed' /\ refused \subseteq refused'
    BY HandledGrows
  <1>1. CASE UNCHANGED <<log, welcome, joinedAt>> /\ \A g \in Groups : engine'[g] # engine[g] => engine'[g] # "member"
    <2>1. UNCHANGED clock \/ \E g \in Groups, kind \in {"msg", "remove"} : Publish(g, kind)
      BY LogFixed
    <2>2. clock' >= clock
      BY <1>0, <2>1, PublishGrows DEF Typed, StoreTyped
    <2>3. QED  BY <1>0, <1>a, <1>1, <2>2 DEF Calm, Alive, Readable
  <1>2. ASSUME NEW g \in Groups, NEW kind \in {"msg", "remove"}, Publish(g, kind)  PROVE  Calm
    <2>1. /\ clock' \in Nat /\ clock' >= clock
          /\ \A h \in Groups : h # g => log'[h] = log[h]
          /\ Len(log'[g]) = Len(log[g]) + 1
          /\ \A i \in 1..Len(log[g]) : log'[g][i] = log[g][i]
          /\ log'[g][Len(log[g]) + 1].at = clock'
      BY <1>2, PublishGrows
    <2>2. UNCHANGED <<welcome, joinedAt, engine>>
      BY <1>2 DEF Publish, memberVars
    <2>3. ASSUME NEW h \in Groups, NEW i \in 1..Len(log'[h]), Alive(h, i)'
          PROVE  \/ i <= Len(log[h]) /\ Alive(h, i)
                 \/ i > Len(log[h]) /\ log'[h][i].at >= clock
      <3>1. CASE h # g
        BY <1>0, <2>1, <2>2, <2>3, <3>1 DEF Alive, Readable
      <3>2. CASE h = g /\ i = Len(log[g]) + 1
        BY <1>0, <2>1, <3>2
      <3>3. CASE h = g /\ i \in 1..Len(log[g])
        <4>1. joinedAt[g] \in Nat
          BY DEF Typed, StoreTyped
        <4>2. \A k \in joinedAt[g] + 1 .. i - 1 : log'[g][k] = log[g][k]
          BY <1>0, <2>1, <3>3, <4>1
        <4>3. QED  BY <1>0, <2>2, <2>3, <3>3, <4>2 DEF Alive, Readable
      <3>4. QED  BY <1>0, <2>1, <2>3, <3>1, <3>2, <3>3
    <2>4. QED  BY <1>0, <1>a, <2>1, <2>3 DEF Calm
  <1>3. ASSUME NEW g \in Groups, Invite(g)  PROVE  Calm
    <2>1. /\ welcome' = [welcome EXCEPT ![g] = Len(log[g])]
          /\ UNCHANGED <<clock, log, joinedAt, engine>>
      BY <1>3 DEF Invite
    <2>2. welcome'[g] = Len(log[g]) /\ \A h \in Groups \ {g} : welcome'[h] = welcome[h]
      BY <2>1 DEF Typed, StoreTyped
    <2>3. QED  BY <1>0, <1>a, <2>1, <2>2 DEF Calm, Alive, Readable
  <1>4. ASSUME NEW t \in Tasks, NEW g \in Groups, CreateEngine(t, g)  PROVE  Calm
    <2>1. /\ log[g] = <<>> /\ \A h \in Groups \ {g} : engine'[h] = engine[h]
          /\ UNCHANGED <<clock, log, joinedAt, welcome>>
      BY <1>4 DEF CreateEngine, Typed, StoreTyped
    <2>2. QED  BY <1>0, <1>a, <2>1 DEF Calm, Alive, Readable
  <1>5. ASSUME NEW t \in Tasks, NEW g \in Groups, AcceptEngine(t, g)  PROVE  Calm
    <2>1. /\ welcome[g] # None /\ welcome'[g] = None /\ joinedAt'[g] = welcome[g]
          /\ \A h \in Groups \ {g} : /\ engine'[h] = engine[h] /\ welcome'[h] = welcome[h]
                                     /\ joinedAt'[h] = joinedAt[h]
          /\ UNCHANGED <<clock, log>>
      BY <1>5 DEF AcceptEngine, netVars, Typed, StoreTyped
    <2>2. \A i : Alive(g, i)' => Alive(g, i)
      BY <2>1 DEF Alive, Readable
    <2>3. \A h \in Groups \ {g} : \A i : Alive(h, i)' => Alive(h, i)
      BY <2>1 DEF Alive, Readable
    <2>4. QED  BY <1>0, <1>a, <2>1, <2>2, <2>3 DEF Calm
  <1>6. ASSUME NEW t \in Tasks, SyncItem(t) \/ LiveItem(t)
        PROVE  UNCHANGED <<log, welcome, joinedAt>> /\ \A g \in Groups : engine'[g] # engine[g] => engine'[g] # "member"
    <2>1. PICK i, answer : Process(<<grp[t], i>>, answer)
      BY <1>6 DEF SyncItem, LiveItem
    <2>2. QED  BY <1>6, <2>1 DEF SyncItem, LiveItem, Process, netVars, Typed, StoreTyped
  <1>7. ASSUME NEW t \in Tasks, ReapDelete(t)
        PROVE  UNCHANGED <<log, welcome, joinedAt>> /\ \A g \in Groups : engine'[g] # engine[g] => engine'[g] # "member"
    BY <1>7 DEF ReapDelete, netVars
  <1>8. QED  BY <1>1, <1>2, <1>3, <1>4, <1>5, <1>6, <1>7, MembersFixed

\* A position that leaves nothing behind stays one.
LEMMA SafeKeeps ==
    ASSUME Typed, Typed', Calm, NEW g \in Groups, NEW c \in Nat, Safe(g, c)
    PROVE  Safe(g, c)'
  <1>1. /\ clock \in Nat /\ clock' \in Nat /\ clock' >= clock
        /\ Len(log[g]) \in Nat /\ Len(log'[g]) \in Nat
    BY DEF Typed, StoreTyped, Calm
  <1>2. ASSUME NEW i \in 1..Len(log'[g]), Alive(g, i)', log'[g][i].at < c
        PROVE  Handled(g, i)'
    <2>1. i \in 1..Len(log[g]) /\ Alive(g, i) /\ log'[g][i] = log[g][i]
      <3>1. log'[g][i].at \in Nat
        BY EntryNext
      <3>2. ~(log'[g][i].at >= clock)
        BY <1>1, <1>2, <3>1 DEF Safe
      <3>3. QED  BY <1>1, <1>2, <3>2 DEF Calm
    <2>2. Handled(g, i)
      BY <1>2, <2>1 DEF Safe, Behind
    <2>3. QED  BY <2>1, <2>2 DEF Handled, Calm
  <1>3. QED  BY <1>1, <1>2 DEF Safe, Behind

\* Position 0 leaves nothing behind.
LEMMA SafeZero ==
    ASSUME Typed, NEW g \in Groups
    PROVE  Safe(g, 0)
  <1>1. \A i \in 1..Len(log[g]) : log[g][i].at \in Nat
    BY EntryFields
  <1>2. QED  BY <1>1 DEF Safe, Behind, Typed, StoreTyped

LEMMA SafeZeroNext ==
    ASSUME Typed', NEW g \in Groups
    PROVE  Safe(g, 0)'
  <1>1. \A i \in 1..Len(log'[g]) : log'[g][i].at \in Nat
    BY EntryNext
  <1>2. QED  BY <1>1 DEF Safe, Behind, Typed, StoreTyped

\* The types of a task's locals.
LEMMA JobFields ==
    ASSUME Typed, NEW t \in Tasks
    PROVE  /\ job[t] \in Job /\ job[t].last \in Nat /\ job[t].todo \subseteq Nat
           /\ job[t].since \in Nat /\ job[t].until \in Nat
           /\ \A g \in Groups : job[t].snap[g] \in Nat
  BY DEF Typed, TaskTyped, Job

\* The steps of others do not disturb a sync, nor does its own progress elsewhere.
LEMMA WalkKeeps ==
    ASSUME Typed, Typed', JobInv, Calm, NEW t \in Tasks, Walk(t),
           job'[t].snap = job[t].snap, job'[t].last = job[t].last,
           job'[t].evicted = job[t].evicted, grp'[t] = grp[t],
           \/ pc'[t] = pc[t] /\ job'[t] = job[t]
           \/ pc'[t] \notin {"syncFetch", "syncItem"}
    PROVE  Walk(t)'
  <1>1. \A g \in Groups : Safe(g, job[t].snap[g])'
    <2> SUFFICES ASSUME NEW g \in Groups  PROVE  Safe(g, job[t].snap[g])'
      OBVIOUS
    <2>1. PICK c \in Nat : c = job[t].snap[g] /\ c = job'[t].snap[g]
      BY JobFields
    <2>2. Safe(g, c)
      BY <2>1 DEF Walk
    <2>3. Safe(g, c)'
      BY <2>2, SafeKeeps
    <2>4. QED  BY <2>1, <2>3 DEF Safe, Behind
  <1>2. job'[t].last <= clock'
    BY JobFields DEF Walk, Calm, Typed, StoreTyped
  <1>3. ASSUME grp[t] \in Groups, ~job'[t].evicted  PROVE  Behind(grp[t], job[t].last)'
    <2>1. PICK c \in Nat, g \in Groups : c = job[t].last /\ c = job'[t].last /\ g = grp[t]
      BY <1>3, JobFields
    <2>2. Safe(g, c)
      BY <1>3, <2>1 DEF Walk, Safe
    <2>3. Safe(g, c)'
      BY <2>2, SafeKeeps
    <2>4. QED  BY <2>1, <2>3 DEF Safe, Behind
  <1>4. ASSUME pc'[t] = "syncFetch"  PROVE  job'[t].since = job'[t].snap[grp[t]]
    BY <1>4 DEF Walk
  <1>5. ASSUME pc'[t] = "syncItem", ~job'[t].evicted, NEW j \in job'[t].todo,
               NEW i \in 1..Len(log'[grp[t]]), i < j, Alive(grp[t], i)', i \notin job'[t].todo
        PROVE  Handled(grp[t], i)'
    <2>1. pc[t] = "syncItem" /\ job'[t] = job[t]
      BY <1>5
    <2>2. PICK g \in Groups : g = grp[t] /\ job[t].todo \subseteq 1..Len(log[g])
      BY <2>1 DEF JobInv
    <2>3. Len(log[g]) \in Nat /\ j \in 1..Len(log[g]) /\ i \in 1..Len(log[g])
      BY <1>5, <2>1, <2>2 DEF Typed, StoreTyped
    <2>4. Alive(g, i) /\ log'[g][i] = log[g][i]
      BY <1>5, <2>2, <2>3 DEF Calm
    <2>5. Handled(g, i)
      BY <1>5, <2>1, <2>2, <2>3, <2>4 DEF Walk
    <2>6. QED  BY <2>2, <2>4, <2>5 DEF Handled, Calm
  <1>6. QED  BY <1>1, <1>2, <1>3, <1>4, <1>5 DEF Walk

\* A task that has read and found nothing yet.
LEMMA WalkFresh ==
    ASSUME Typed', NEW t \in Tasks, \A g \in Groups : job'[t].snap[g] = 0, job'[t].last = 0,
           pc'[t] \notin {"syncFetch", "syncItem"}
    PROVE  Walk(t)'
  <1>1. \A g \in Groups : Safe(g, 0)'
    BY SafeZeroNext
  <1>2. clock' \in Nat
    BY DEF Typed, StoreTyped
  <1>3. QED  BY <1>1, <1>2 DEF Walk, Safe

\* Every value written to a cursor comes from a cursor, a snapshot or a finished batch.
LEMMA CursorKeeps ==
    ASSUME Typed, Typed', Calm, CursorInv, NEW g \in Groups,
           \/ cursor'[g] = cursor[g]
           \/ cursor'[g] = 0
           \/ \E t \in Tasks : cursor'[g] = job[t].snap[g]
           \/ \E t \in Tasks : g = grp[t] /\ ~job[t].evicted /\ cursor'[g] = job[t].last
    PROVE  Safe(g, cursor[g])'
  <1>1. CASE cursor'[g] = 0
    <2>1. Safe(g, 0)'
      BY SafeZeroNext
    <2>2. QED  BY <1>1, <2>1 DEF Safe, Behind
  <1>2. CASE cursor'[g] # 0
    <2>1. PICK c \in Nat : c = cursor'[g] /\ Safe(g, c)
      <3>1. cursor'[g] \in Nat
        BY DEF Typed, StoreTyped
      <3>2. Safe(g, cursor'[g])
        BY <1>2 DEF CursorInv, Walk, Safe
      <3>3. QED  BY <3>1, <3>2
    <2>2. Safe(g, c)'
      BY <2>1, SafeKeeps
    <2>3. QED  BY <2>1, <2>2 DEF Safe, Behind
  <1>3. QED  BY <1>1, <1>2

\* A step of one task.
LEMMA CursorFrame ==
    ASSUME Typed, Typed', JobInv, Calm, CursorInv, NEW t \in Tasks, Only(t), Walk(t)',
           \A g \in Groups : \/ cursor'[g] = cursor[g]
                             \/ cursor'[g] = 0
                             \/ cursor'[g] = job[t].snap[g]
                             \/ g = grp[t] /\ ~job[t].evicted /\ cursor'[g] = job[t].last
    PROVE  CursorInv'
  <1>1. \A g \in Groups : Safe(g, cursor[g])'
    BY CursorKeeps
  <1>2. ASSUME NEW u \in Tasks, u # t  PROVE  Walk(u)'
    BY <1>2, WalkKeeps DEF CursorInv, Only
  <1>3. QED  BY <1>1, <1>2 DEF CursorInv

\* A step of one task that writes no cursor and reads none.
LEMMA CursorQuiet ==
    ASSUME Typed, Typed', JobInv, Calm, CursorInv, NEW t \in Tasks, Only(t), cursor' = cursor,
           pc'[t] \notin {"syncFetch", "syncItem"},
           \/ job'[t] = NoJob
           \/ /\ grp'[t] = grp[t] /\ job'[t].snap = job[t].snap
              /\ job'[t].last = job[t].last /\ job'[t].evicted = job[t].evicted
    PROVE  CursorInv'
  <1>1. CASE job'[t] = NoJob
    <2>1. Walk(t)'
      BY <1>1, NoJobType, WalkFresh
    <2>2. QED  BY <2>1, CursorFrame
  <1>2. CASE /\ grp'[t] = grp[t] /\ job'[t].snap = job[t].snap
             /\ job'[t].last = job[t].last /\ job'[t].evicted = job[t].evicted
    <2>1. Walk(t)'
      BY <1>2, WalkKeeps DEF CursorInv
    <2>2. QED  BY <2>1, CursorFrame
  <1>3. QED  BY <1>1, <1>2

\* sync_group_since_cursor reads the cursors: within the backfill, it starts from the cursor.
LEMMA WalkSyncStart ==
    ASSUME Backfill >= MaxClock, Backfill >= 1, Typed, Typed', JobInv, LogInv, CursorInv, Calm,
           NEW t \in Tasks, SyncStart(t)
    PROVE  CursorInv'
  <1>1. Only(t) /\ cursor' = cursor /\ grp[t] \in Groups
    BY Locality DEF Step, Sync, SyncStart, storeVars, JobInv
  <1>2. CASE End(t)
    BY <1>1, <1>2, EndOnly, CursorQuiet
  <1>3. CASE /\ Go(t, "syncFetch") /\ seen' = seen
             /\ job' = [job EXCEPT ![t] = [NoJob EXCEPT !.snap = cursor,
                                    !.since = Since(cursor[grp[t]]), !.until = clock]]
    <2>1. clock \in Nat /\ cursor \in [Groups -> Nat] /\ clock <= Backfill
      BY DEF Typed, StoreTyped, LogInv
    <2>2. Since(cursor[grp[t]]) = cursor[grp[t]]
      BY <1>1, <2>1 DEF Since
    <2> DEFINE j == [NoJob EXCEPT !.snap = cursor, !.since = cursor[grp[t]], !.until = clock]
    <2>3. j \in Job /\ j.snap = cursor /\ j.since = cursor[grp[t]] /\ j.last = 0
      BY <1>1, <2>1, NoJobType DEF Job
    <2>4. pc'[t] = "syncFetch" /\ grp' = grp /\ job'[t] = j
      BY <1>3, <2>2 DEF Go, Typed, TaskTyped
    <2> HIDE DEF j
    <2>5. \A g \in Groups : Safe(g, cursor[g])'
      BY <1>1, CursorKeeps
    <2>6. Safe(grp[t], 0)'
      BY <1>1, <2>4, SafeZeroNext
    <2>7. clock' \in Nat
      BY DEF Typed, StoreTyped
    <2>8. Walk(t)'
      BY <1>1, <2>3, <2>4, <2>5, <2>6, <2>7 DEF Walk, Safe, Behind
    <2>9. QED  BY <1>1, <2>8, CursorFrame
  <1>4. QED  BY <1>2, <1>3 DEF SyncStart

\* The batch: whatever it leaves out lies before the cursor it starts from.
LEMMA WalkSyncFetch ==
    ASSUME MaxLog <= Limit, Typed, Typed', JobInv, LogInv, CursorInv, Calm,
           NEW t \in Tasks, SyncFetch(t)
    PROVE  CursorInv'
  <1>1. /\ Only(t) /\ grp[t] \in Groups /\ pc[t] = "syncFetch"
        /\ UNCHANGED <<cursor, log, clock, consumed, refused, welcome, joinedAt, engine>>
    BY Locality DEF Step, Sync, SyncFetch, netVars, memberVars, storeVars, JobInv
  <1>2. CASE End(t)
    BY <1>1, <1>2, EndOnly, CursorQuiet
  <1>3. CASE /\ Go(t, "syncItem") /\ seen' = seen
             /\ job' = [job EXCEPT ![t].todo =
                            Newest(Matching(grp[t], job[t].since, job[t].until))]
    <2> DEFINE S == Matching(grp[t], job[t].since, job[t].until)
    <2>1. S \subseteq 1..Len(log[grp[t]]) /\ S \in SUBSET Nat
      BY DEF Matching
    <2>2. Newest(S) = S
      BY <1>1, <2>1, NewestAll
    <2> DEFINE j == [job[t] EXCEPT !.todo = S]
    <2>3. pc'[t] = "syncItem" /\ grp' = grp /\ job'[t] = j /\ job[t] \in Job
      BY <1>3, <2>2 DEF Go, Typed, TaskTyped
    <2>4. /\ j.todo = S /\ j.snap = job[t].snap /\ j.last = job[t].last
          /\ j.evicted = job[t].evicted
      <3> HIDE DEF S
      <3>1. QED  BY <2>1, <2>3, JobChanges
    <2> HIDE DEF j
    <2>5. ASSUME NEW k \in S, NEW i \in 1..Len(log[grp[t]]), i < k, Alive(grp[t], i), i \notin S
          PROVE  Handled(grp[t], i)
      <3>1. /\ log[grp[t]][i].at \in Nat /\ log[grp[t]][k].at \in Nat
            /\ job[t].since \in Nat /\ job[t].until \in Nat /\ k \in 1..Len(log[grp[t]])
        BY <1>1, <2>1, <2>5, EntryFields, JobFields
      <3>2. log[grp[t]][i].at <= log[grp[t]][k].at
        BY <1>1, <2>5, <3>1 DEF LogInv
      <3>3. log[grp[t]][k].at <= job[t].until
        BY <2>5 DEF Matching
      <3>4. log[grp[t]][i].at < job[t].since
        BY <2>5, <3>1, <3>2, <3>3 DEF Matching
      <3>5. job[t].since = job[t].snap[grp[t]] /\ Behind(grp[t], job[t].snap[grp[t]])
        BY <1>1 DEF CursorInv, Walk, Safe
      <3>6. QED  BY <2>5, <3>4, <3>5 DEF Behind
    <2>6. \A g \in Groups : \A i : /\ Alive(g, i)' <=> Alive(g, i)
                                   /\ Handled(g, i)' <=> Handled(g, i)
      BY <1>1 DEF Alive, Readable, Handled
    <2>7. Walk(t)
      BY DEF CursorInv
    <2> HIDE DEF S
    <2>8. Walk(t)'
      BY <1>1, <2>3, <2>4, <2>5, <2>6, <2>7 DEF Walk, Safe, Behind
    <2>9. QED  BY <1>1, <2>8, CursorFrame
  <1>4. QED  BY <1>2, <1>3 DEF SyncFetch

\* One wrapper of the batch.  A wrapper a member must see is opened, was opened or is
\* refused; it is taken for a result without content only after the removal before it, and
\* the removal comes first in the batch.
LEMMA WalkSyncItem ==
    ASSUME Typed, Typed', JobInv, LogInv, MemberInv, CursorInv, Calm, NEW t \in Tasks, SyncItem(t)
    PROVE  CursorInv'
  <1>0. PICK g \in Groups : g = grp[t] /\ job[t].todo \subseteq 1..Len(log[g])
    BY DEF SyncItem, JobInv
  <1>1. PICK i \in Oldest(job[t].todo), answer \in Results :
            /\ Process(<<g, i>>, answer)
            /\ job' = [job EXCEPT ![t] = Noted(job[t], <<g, i>>, answer)]
            /\ Go(t, IF job[t].todo = {i} THEN "syncStore" ELSE "syncItem")
    BY <1>0 DEF SyncItem
  <1>2. /\ Only(t) /\ UNCHANGED <<cursor, log, clock, seen>> /\ pc[t] = "syncItem" /\ Walk(t)
    BY Locality DEF Step, Sync, SyncItem, netVars, CursorInv
  <1>a. i \in job[t].todo /\ \A k \in job[t].todo : i <= k
    BY DEF Oldest
  <1>b. Len(log[g]) \in Nat
    BY DEF Typed, StoreTyped
  <1>3. /\ g \in Groups /\ i \in job[t].todo /\ job[t].todo \subseteq 1..Len(log[g])
        /\ i \in 1..Len(log[g]) /\ i \in Nat /\ \A k \in job[t].todo : i <= k
        /\ Len(log[g]) \in Nat
    BY <1>0, <1>a, <1>b
  <1>4. PICK w \in Wrappers : w = <<g, i>> /\ w \in Groups \X Nat /\ w[1] = g /\ w[2] = i
    BY <1>3, WrapperIn
  <1>5. /\ pc'[t] \in {"syncItem", "syncStore"} /\ grp' = grp
        /\ job'[t] = Noted(job[t], w, answer) /\ job[t] \in Job /\ At(w) \in Nat
    BY <1>0, <1>1, <1>4, WrapperFields DEF Go, Typed, TaskTyped
  <1>6. /\ job'[t].todo = job[t].todo \ {i} /\ job'[t].snap = job[t].snap
        /\ answer \in {"error", "evicted"} => job'[t].last = job[t].last
        /\ answer \notin {"error", "evicted"} => job'[t].last = At(w)
        /\ answer = "evicted" => job'[t].evicted
        /\ answer # "evicted" => job'[t].evicted = job[t].evicted
    BY <1>4, <1>5, NotedFields
  <1>7. \A k \in 1..Len(log[g]) : Alive(g, k)' => Alive(g, k)
    BY <1>2, <1>3 DEF Calm
  <1>8. \A k : Handled(g, k) => Handled(g, k)'
    BY <1>2 DEF Handled, Calm
  \* What comes before this wrapper in the log is out of the batch already.
  <1>9. ASSUME ~job[t].evicted, NEW k \in 1..Len(log[g]), k < i, Alive(g, k)
        PROVE  Handled(g, k)
    BY <1>0, <1>2, <1>3, <1>9 DEF Walk
  <1>10. ASSUME ~job[t].evicted, answer # "evicted", NEW k \in job[t].todo, i < k, Alive(g, i)'
         PROVE  Handled(g, i)'
    <2>1. Alive(g, i) /\ Standing(g) /\ i # Len(log[g])
      BY <1>3, <1>7, <1>10 DEF MemberInv
    <2>2. log[g][i].kind \in {"msg", "remove"} /\ Kind(w) = log[g][i].kind
      BY <1>3, <1>4, EntryFields DEF Kind
    <2>3. /\ welcome[g] \in Nat \cup {None} /\ joinedAt[g] \in Nat
          /\ engine[g] \in {"none", "member", "out"}
      BY <1>3 DEF Typed, StoreTyped
    <2>4. welcome[g] # None /\ i > welcome[g] => log[g][i].kind = "msg"
      BY <1>3, <2>1, <2>2 DEF Standing, Removes
    <2>5. CASE engine[g] = "none"
      <3>1. log[g][i].kind = "msg"
        BY <2>1, <2>4, <2>5 DEF Alive
      <3>2. <<g, i>> \in consumed \/ <<g, i>> \in refused'
        BY <1>1, <1>4, <2>5, Opened
      <3>3. QED  BY <1>2, <1>8, <3>1, <3>2 DEF Handled
    <2>6. CASE engine[g] = "out"
      <3>1. log[g][i].kind = "msg" /\ <<g, i>> \in consumed
        BY <1>1, <1>4, <1>10, <2>1, <2>4, <2>6, Opened DEF Alive
      <3>2. QED  BY <1>8, <3>1 DEF Handled
    <2>7. CASE engine[g] = "member" /\ Readable(<<g, i>>)
      <3>1. CASE log[g][i].kind = "msg"
        <4>1. <<g, i>> \in consumed' \/ <<g, i>> \in refused' \/ <<g, i>> \in consumed
          BY <1>1, <1>4, <1>10, <2>2, <2>7, <3>1, Opened DEF Results
        <4>2. QED  BY <1>2, <1>8, <3>1, <4>1 DEF Handled
      <3>2. CASE log[g][i].kind = "remove"
        <4>1. <<g, i>> \notin consumed
          BY <1>3, <2>1, <2>7, <3>2 DEF Standing, Removes
        <4>2. answer = "remove" \/ <<g, i>> \in refused'
          BY <1>1, <1>4, <1>10, <2>2, <2>7, <3>2, <4>1, Opened DEF Results
        <4>3. CASE answer = "remove"
          <5>1. engine'[g] = "out" /\ welcome' = welcome
            BY <1>1, <1>3, <1>4, <4>3, Opened DEF Process, Typed, StoreTyped
          <5>2. welcome[g] # None /\ i > welcome[g]
            BY <1>10, <5>1 DEF Alive
          <5>3. QED  BY <2>4, <3>2, <5>2
        <4>4. QED  BY <4>2, <4>3 DEF Handled
      <3>3. QED  BY <2>2, <3>1, <3>2
    <2>8. CASE engine[g] = "member" /\ ~Readable(<<g, i>>)
      <3>1. welcome[g] # None /\ i > welcome[g]
        BY <2>1, <2>8 DEF Alive
      <3>2. PICK r \in Removes(g) : r <= welcome[g] /\ Readable(<<g, r>>)
        BY <2>1, <2>8, <3>1 DEF Standing
      <3>3. r \in 1..Len(log[g]) /\ r < i /\ Alive(g, r) /\ log[g][r].kind = "remove"
        BY <1>3, <2>3, <2>8, <3>1, <3>2 DEF Removes, Alive
      <3>4. Handled(g, r)
        BY <1>9, <1>10, <3>3
      <3>5. <<g, r>> \in refused
        BY <3>3, <3>4 DEF Handled
      <3>6. answer \in {"repeated", "error"} /\ log[g][i].kind = "msg"
        BY <1>1, <1>4, <1>10, <2>4, <2>8, <3>1, Opened DEF Results
      <3>7. CASE w \in consumed
        BY <1>2, <1>4, <1>8, <3>6, <3>7 DEF Handled
      <3>8. CASE w \notin consumed
        <4>1. r \in 1..w[2] - 1 /\ <<w[1], r>> \in refused /\ log[w[1]][r].kind = "remove"
          BY <1>3, <1>4, <3>3, <3>5
        <4>2. Refuses(w, answer)
          BY <3>6, <3>8, <4>1 DEF Refuses
        <4>3. w \in refused'
          BY <1>1, <1>4, <4>2 DEF Process
        <4>4. QED  BY <1>4, <4>3 DEF Handled
      <3>9. QED  BY <3>7, <3>8
    <2>9. QED  BY <2>3, <2>5, <2>6, <2>7, <2>8
  <1>11. \A h \in Groups : Safe(h, job[t].snap[h])'
    <2> SUFFICES ASSUME NEW h \in Groups  PROVE  Safe(h, job[t].snap[h])'
      OBVIOUS
    <2>1. PICK c \in Nat : c = job[t].snap[h]
      BY JobFields
    <2>2. Safe(h, c)'
      BY <1>2, <2>1, SafeKeeps DEF Walk
    <2>3. QED  BY <1>6, <2>1, <2>2 DEF Safe, Behind
  <1>12. job'[t].last <= clock' /\ (~job'[t].evicted => Behind(g, job[t].last)')
    <2>1. CASE answer \in {"error", "evicted"}
      <3>1. PICK c \in Nat : c = job[t].last
        BY JobFields
      <3>2. c <= clock
        BY <1>2, <3>1 DEF Walk
      <3>3. CASE ~job'[t].evicted
        <4>1. Safe(g, c)
          BY <1>0, <1>2, <1>3, <1>6, <2>1, <3>1, <3>2, <3>3 DEF Walk, Safe
        <4>2. Safe(g, c)'
          BY <1>3, <4>1, SafeKeeps
        <4>3. QED  BY <1>5, <1>6, <2>1, <3>1, <4>2 DEF Safe, Behind
      <3>4. QED  BY <1>2, <1>6, <2>1, <3>1, <3>2, <3>3
    <2>2. CASE answer \notin {"error", "evicted"}
      <3>1. job'[t].last = At(w) /\ At(w) = log[g][i].at /\ log[g][i].at <= clock
        BY <1>3, <1>4, <1>6, <2>2 DEF At, LogInv
      <3>2. ASSUME ~job'[t].evicted, NEW k \in 1..Len(log[g]), Alive(g, k)', log[g][k].at < At(w)
            PROVE  Handled(g, k)'
        <4>1. log[g][k].at \in Nat /\ log[g][i].at \in Nat /\ k \in Nat
          BY <1>3, <3>2, EntryFields
        <4>a. i <= k => log[g][i].at <= log[g][k].at
          BY <1>3, <3>2 DEF LogInv
        <4>2. k < i
          BY <1>3, <3>1, <3>2, <4>1, <4>a
        <4>3. Handled(g, k)
          BY <1>6, <1>7, <1>9, <2>2, <3>2, <4>2
        <4>4. QED  BY <1>8, <4>3
      <3>3. QED  BY <1>2, <1>5, <3>1, <3>2 DEF Behind
    <2>3. QED  BY <2>1, <2>2
  <1>13. ASSUME pc'[t] = "syncItem", ~job'[t].evicted, NEW j \in job'[t].todo,
                NEW k \in 1..Len(log[g]), k < j, Alive(g, k)', k \notin job'[t].todo
         PROVE  Handled(g, k)'
    <2>1. /\ ~job[t].evicted /\ answer # "evicted" /\ j \in job[t].todo /\ j # i
          /\ k = i \/ k \notin job[t].todo
      BY <1>6, <1>13 DEF Job
    <2>2. CASE k = i
      BY <1>3, <1>10, <1>13, <2>1, <2>2
    <2>3. CASE k \notin job[t].todo
      <3>1. Handled(g, k)
        BY <1>0, <1>2, <1>7, <1>13, <2>1, <2>3 DEF Walk
      <3>2. QED  BY <1>8, <3>1
    <2>4. QED  BY <2>1, <2>2, <2>3
  <1>14. Walk(t)'
    BY <1>0, <1>2, <1>5, <1>6, <1>11, <1>12, <1>13 DEF Walk
  <1>15. QED  BY <1>2, <1>14, CursorFrame

\* leave_group reads the map of all cursors and drops its own group from it.
LEMMA WalkLeaveRead ==
    ASSUME Typed, Typed', JobInv, CursorInv, Calm, NEW t \in Tasks, LeaveRead(t)
    PROVE  CursorInv'
  <1>1. Only(t) /\ cursor' = cursor /\ grp[t] \in Groups /\ Walk(t)
    BY Locality DEF Step, Leave, LeaveRead, storeVars, JobInv, CursorInv
  <1>2. CASE End(t)
    BY <1>1, <1>2, EndOnly, CursorQuiet
  <1>3. CASE /\ Go(t, "leaveWrite") /\ seen' = seen
             /\ job' = [job EXCEPT ![t] = [@ EXCEPT !.snap = [cursor EXCEPT ![grp[t]] = 0]]]
    <2> DEFINE m == [cursor EXCEPT ![grp[t]] = 0]
               j == [job[t] EXCEPT !.snap = m]
    <2>1. m \in [Groups -> Nat] /\ \A g \in Groups : m[g] = cursor[g] \/ m[g] = 0
      BY <1>1 DEF Typed, StoreTyped
    <2>2. pc'[t] = "leaveWrite" /\ grp' = grp /\ job'[t] = j /\ job[t] \in Job
      BY <1>3 DEF Go, Typed, TaskTyped
    <2> HIDE DEF m
    <2>3. j.snap = m /\ j.last = job[t].last /\ j.evicted = job[t].evicted
      BY <2>1, <2>2, JobChanges
    <2> HIDE DEF j
    <2>4. \A g \in Groups : Safe(g, job[t].snap[g])'
      <3> SUFFICES ASSUME NEW g \in Groups  PROVE  Safe(g, job[t].snap[g])'
        OBVIOUS
      <3>1. Safe(g, cursor[g])'
        BY <1>1, CursorKeeps
      <3>2. Safe(g, 0)'
        BY SafeZeroNext
      <3>3. job'[t].snap[g] = cursor'[g] \/ job'[t].snap[g] = 0
        BY <1>1, <2>1, <2>2, <2>3
      <3>4. QED  BY <3>1, <3>2, <3>3 DEF Safe, Behind
    <2>5. PICK c \in Nat, g \in Groups : c = job[t].last /\ g = grp[t] /\ c = job'[t].last
      BY <1>1, <2>2, <2>3, JobFields
    <2>6. c <= clock /\ (~job[t].evicted => Safe(g, c))
      BY <1>1, <2>5 DEF Walk, Safe
    <2>7. ~job[t].evicted => Safe(g, c)'
      BY <2>6, SafeKeeps
    <2>8. ~job[t].evicted => Behind(grp[t], job[t].last)'
      BY <2>2, <2>5, <2>7 DEF Safe, Behind
    <2>9. job'[t].last <= clock'
      BY <2>5, <2>6 DEF Calm, Typed, StoreTyped
    <2>10. Walk(t)'
      BY <2>2, <2>3, <2>4, <2>8, <2>9 DEF Walk
    <2>11. QED  BY <1>1, <2>10, CursorFrame
  <1>4. QED  BY <1>2, <1>3 DEF LeaveRead

\* save_mls_event_cursors: what leave_group and a finished sync write was safe when they
\* read or reached it, and still is.
LEMMA CursorWrites ==
    ASSUME Typed, Typed', JobInv, CursorInv, Calm, NEW t \in Tasks, LeaveWrite(t) \/ SyncCursor(t)
    PROVE  CursorInv'
  <1>1. Only(t) /\ grp[t] \in Groups /\ Walk(t) /\ job[t].snap \in [Groups -> Nat]
    BY Locality DEF Step, Leave, LeaveWrite, Sync, SyncCursor, JobInv, CursorInv, Typed,
                    TaskTyped, Job
  <1>2. CASE LeaveWrite(t)
    <2>1. \A g \in Groups : cursor'[g] = cursor[g] \/ cursor'[g] = job[t].snap[g]
      BY <1>1, <1>2, WriteCursorsDoes DEF LeaveWrite
    <2>2. Walk(t)'
      BY <1>2, EndOnly, NoJobType, WalkFresh DEF LeaveWrite
    <2>3. QED  BY <1>1, <2>1, <2>2, CursorFrame
  <1>3. CASE SyncCursor(t)
    <2>1. \A g \in Groups : \/ cursor'[g] = cursor[g] \/ cursor'[g] = 0
                            \/ cursor'[g] = job[t].snap[g]
                            \/ g = grp[t] /\ ~job[t].evicted /\ cursor'[g] = job[t].last
      <3>1. CASE job[t].evicted
        <4> DEFINE m == [job[t].snap EXCEPT ![grp[t]] = 0]
        <4>1. CursorMap(job[t], grp[t]) = m
          BY <3>1 DEF CursorMap
        <4>2. \A g \in Groups : m[g] = 0 \/ m[g] = job[t].snap[g]
          BY <1>1
        <4>3. WriteCursors(m) /\ m \in [Groups -> Nat]
          BY <1>1, <1>3, <3>1, <4>1 DEF SyncCursor
        <4> HIDE DEF m
        <4>a. \A g \in Groups : cursor'[g] = cursor[g] \/ cursor'[g] = m[g]
          BY <4>3, WriteCursorsDoes
        <4>4. QED  BY <4>2, <4>a
      <3>2. CASE ~job[t].evicted /\ job[t].last # 0
        <4> DEFINE m == [job[t].snap EXCEPT ![grp[t]] = job[t].last]
        <4>1. CursorMap(job[t], grp[t]) = m
          BY <3>2 DEF CursorMap
        <4>2. \A g \in Groups : (g = grp[t] /\ m[g] = job[t].last) \/ m[g] = job[t].snap[g]
          BY <1>1
        <4>3. WriteCursors(m) /\ m \in [Groups -> Nat]
          BY <1>1, <1>3, <3>2, <4>1, JobFields DEF SyncCursor
        <4> HIDE DEF m
        <4>a. \A g \in Groups : cursor'[g] = cursor[g] \/ cursor'[g] = m[g]
          BY <4>3, WriteCursorsDoes
        <4>4. QED  BY <3>2, <4>2, <4>a
      <3>3. CASE ~job[t].evicted /\ job[t].last = 0
        BY <1>3, <3>3 DEF SyncCursor
      <3>4. QED  BY <3>1, <3>2, <3>3
    <2>2. CASE End(t)
      <3>1. Walk(t)'
        BY <2>2, EndOnly, NoJobType, WalkFresh
      <3>2. QED  BY <1>1, <2>1, <3>1, CursorFrame
    <2>3. CASE Go(t, "evictRead") /\ UNCHANGED <<seen, job>>
      <3>1. pc'[t] = "evictRead" /\ grp' = grp /\ job' = job
        BY <2>3, GoOnly
      <3>2. Walk(t)'
        BY <1>1, <3>1, WalkKeeps
      <3>3. QED  BY <1>1, <2>1, <3>2, CursorFrame
    <2>4. QED  BY <1>3, <2>2, <2>3 DEF SyncCursor
  <1>4. QED  BY <1>2, <1>3

\* A command that starts has neither a snapshot nor a batch.
LEMMA CursorBegin ==
    ASSUME Typed, Typed', JobInv, CursorInv, Calm, NEW t \in Tasks, Begin(t)
    PROVE  CursorInv'
  <1>1. Only(t) /\ cursor' = cursor
    BY Locality DEF Begin, CreateEngine, AcceptEngine, LeaveStart, SyncNow, SendRefused,
                    ReapStart, LiveStart, storeVars
  <1>2. ASSUME NEW g, NEW next, Start(t, g, next), UNCHANGED <<seen, job>>,
               next \notin {"syncFetch", "syncItem"}
        PROVE  Walk(t)'
    <2>1. pc[t] = "idle" /\ pc'[t] = next /\ job' = job
      BY <1>2, StartOnly
    <2>2. job'[t] = NoJob
      BY <2>1 DEF JobInv
    <2>3. QED  BY <1>2, <2>1, <2>2, NoJobType, WalkFresh
  <1>3. ASSUME NEW w \in Wrappers, LiveStart(t, w)  PROVE  Walk(t)'
    <2>1. CASE /\ pc' = [pc EXCEPT ![t] = "liveItem"]
               /\ job' = [job EXCEPT ![t] = [NoJob EXCEPT !.todo = {w[2]}]]
      <3>1. w[2] \in Nat /\ NoJob \in Job
        BY NoJobType, WrapperIn
      <3>2. pc'[t] = "liveItem" /\ job'[t] = [NoJob EXCEPT !.todo = {w[2]}]
        BY <2>1 DEF Typed, TaskTyped
      <3>3. job'[t].snap = NoJob.snap /\ job'[t].last = NoJob.last
        BY <3>1, <3>2, JobChanges
      <3>4. QED  BY <3>2, <3>3, NoJobType, WalkFresh
    <2>2. CASE UNCHANGED <<pc, grp, job>>
      BY <2>2, WalkKeeps DEF CursorInv
    <2>3. QED  BY <1>3, <2>1, <2>2 DEF LiveStart
  <1>4. ASSUME NEW g \in Groups, CreateEngine(t, g) \/ AcceptEngine(t, g)  PROVE  Walk(t)'
    BY <1>2, <1>4 DEF CreateEngine, AcceptEngine
  <1>5. ASSUME NEW g \in Groups, LeaveStart(t, g) \/ SyncNow(t, g) \/ SendRefused(t, g)
        PROVE  Walk(t)'
    BY <1>2, <1>5 DEF LeaveStart, SyncNow, SendRefused
  <1>6. ASSUME ReapStart(t)  PROVE  Walk(t)'
    <2>1. Start(t, NoGroup, "reapRead") /\ UNCHANGED <<seen, job>>
      BY <1>6 DEF ReapStart
    <2>2. "reapRead" \notin {"syncFetch", "syncItem"}
      OBVIOUS
    <2>3. QED  BY <1>2, <2>1, <2>2, Zenon
  <1>7. Walk(t)'
    <2>1. CASE \E g \in Groups : CreateEngine(t, g) \/ AcceptEngine(t, g)
      BY <1>4, <2>1
    <2>2. CASE \E g \in Groups : LeaveStart(t, g) \/ SyncNow(t, g) \/ SendRefused(t, g)
      BY <1>5, <2>2
    <2>3. CASE \E w \in Wrappers : LiveStart(t, w)
      BY <1>3, <2>3
    <2>4. QED  BY <1>6, <2>1, <2>2, <2>3, Zenon DEF Begin
  <1>8. QED  BY <1>1, <1>7, CursorFrame

\* The other steps of a command touch neither cursors nor what it knows of them.
LEMMA CursorOther ==
    ASSUME Typed, Typed', JobInv, CursorInv, Calm, NEW t \in Tasks,
           \/ Create(t) \/ Accept(t) \/ LeavePublish(t) \/ LeaveRow(t) \/ LeaveState(t)
           \/ LeaveChat(t) \/ SyncStore(t) \/ Live(t) \/ Evict(t) \/ Reap(t)
    PROVE  CursorInv'
  <1>1. Only(t)
    BY Locality DEF Step, Leave, Sync
  <1>2. cursor' = cursor
    BY DEF Create, CreateSave, CreateChat, Accept, AcceptRead, AcceptSave, AcceptChat,
           LeavePublish, LeaveRow, LeaveState, LeaveChat, SyncStore, Live, LiveItem, LiveStore, Evict,
           EvictRead, EvictSave, EvictState, EvictChat, Reap, ReapRead, ReapDelete, storeVars
  <1>3. CASE End(t)
    BY <1>1, <1>2, <1>3, EndOnly, CursorQuiet
  <1>4. ASSUME NEW next, Go(t, next), job' = job, next \notin {"syncFetch", "syncItem"}
        PROVE  CursorInv'
    <2>1. pc'[t] = next /\ grp' = grp
      BY <1>4 DEF Go, Typed, TaskTyped
    <2>2. QED  BY <1>1, <1>2, <1>4, <2>1, CursorQuiet
  <1>5. ASSUME NEW next, Go(t, next), NEW b \in SUBSET (Groups \X Nat),
               job' = [job EXCEPT ![t].buf = b], next \notin {"syncFetch", "syncItem"}
        PROVE  CursorInv'
    <2>1. /\ pc'[t] = next /\ grp' = grp /\ job[t] \in Job
          /\ job'[t] = [job[t] EXCEPT !.buf = b]
      BY <1>5 DEF Go, Typed, TaskTyped
    <2>2. /\ job'[t].snap = job[t].snap /\ job'[t].last = job[t].last
          /\ job'[t].evicted = job[t].evicted
      BY <2>1, JobChanges
    <2>3. QED  BY <1>1, <1>2, <1>5, <2>1, <2>2, CursorQuiet
  <1>6. CASE Create(t) \/ Accept(t)
    BY <1>3, <1>4, <1>6 DEF Create, CreateSave, CreateChat, Accept, AcceptRead, AcceptSave,
                            AcceptChat
  <1>7. CASE LeavePublish(t) \/ LeaveRow(t) \/ LeaveState(t) \/ LeaveChat(t)
    BY <1>3, <1>4, <1>7 DEF LeavePublish, LeaveRow, LeaveState, LeaveChat
  <1>8. CASE SyncStore(t)
    <2>1. Go(t, "syncCursor") /\ job' = [job EXCEPT ![t].buf = {}]
      BY <1>8 DEF SyncStore
    <2>2. {} \in SUBSET (Groups \X Nat)
      OBVIOUS
    <2>3. "syncCursor" \notin {"syncFetch", "syncItem"}
      OBVIOUS
    <2>4. QED  BY <1>5, <2>1, <2>2, <2>3, Zenon
  <1>9. CASE LiveItem(t)
    <2>1. PICK i \in job[t].todo, answer \in Results :
            \/ Go(t, "liveStore") /\ job' = [job EXCEPT ![t].buf = {<<grp[t], i>>}]
            \/ Go(t, "evictRead") /\ job' = job
            \/ End(t)
      BY <1>9 DEF LiveItem
    <2>2. {<<grp[t], i>>} \in SUBSET (Groups \X Nat)
      <3>1. grp[t] \in Groups
        BY <1>9 DEF LiveItem, JobInv
      <3>2. i \in Nat
        BY <2>1, JobFields
      <3>3. QED  BY <3>1, <3>2
    <2>3. CASE Go(t, "liveStore") /\ job' = [job EXCEPT ![t].buf = {<<grp[t], i>>}]
      <3>1. "liveStore" \notin {"syncFetch", "syncItem"}
        OBVIOUS
      <3>2. QED  BY <1>5, <2>2, <2>3, <3>1, Zenon
    <2>4. CASE Go(t, "evictRead") /\ job' = job
      BY <1>4, <2>4
    <2>5. QED  BY <1>3, <2>1, <2>3, <2>4
  <1>10. CASE LiveStore(t) \/ Evict(t) \/ Reap(t)
    BY <1>3, <1>4, <1>10 DEF LiveStore, Evict, EvictRead, EvictSave, EvictState, EvictChat, Reap, ReapRead,
                             ReapDelete
  <1>11. QED  BY <1>6, <1>7, <1>8, <1>9, <1>10 DEF Live

\* Every step keeps every cursor, and every value on its way to a cursor, safe.
LEMMA CursorStep ==
    ASSUME Backfill >= MaxClock, Backfill >= 1, MaxLog <= Limit, Typed, Typed', JobInv, LogInv,
           MemberInv, CursorInv, [Next]_vars
    PROVE  CursorInv'
  <1>0. Calm
    BY CalmStep
  <1>1. CASE UNCHANGED <<cursor, taskVars>>
    <2>1. \A t \in Tasks : Walk(t)'
      BY <1>0, <1>1, WalkKeeps DEF taskVars, CursorInv
    <2>2. \A g \in Groups : Safe(g, cursor[g])'
      BY <1>0, <1>1, CursorKeeps
    <2>3. QED  BY <2>1, <2>2 DEF CursorInv
  <1>2. CASE Crash
    <2>1. cursor' = cursor /\ \A t \in Tasks : pc'[t] = "idle" /\ job'[t] = NoJob
      BY <1>2 DEF Crash
    <2>2. \A t \in Tasks : Walk(t)'
      BY <2>1, NoJobType, WalkFresh
    <2>3. \A g \in Groups : Safe(g, cursor[g])'
      BY <1>0, <2>1, CursorKeeps
    <2>4. QED  BY <2>2, <2>3 DEF CursorInv
  <1>3. ASSUME NEW t \in Tasks, Begin(t)  PROVE  CursorInv'
    BY <1>0, <1>3, CursorBegin
  <1>4. ASSUME NEW t \in Tasks, Step(t)  PROVE  CursorInv'
    BY <1>0, <1>4, CursorOther, WalkLeaveRead, CursorWrites, WalkSyncStart, WalkSyncFetch,
       WalkSyncItem
    DEF Step, Leave, Sync
  <1>5. CASE UNCHANGED vars \/ \E g \in Groups : Publish(g, "msg") \/ Publish(g, "remove") \/ Invite(g)
    BY <1>1, <1>5 DEF vars, Publish, Invite, storeVars, taskVars
  <1>6. QED  BY <1>2, <1>3, <1>4, <1>5 DEF Next

LEMMA InitSkip == Init => LogInv /\ MemberInv /\ CursorInv
  <1> SUFFICES ASSUME Init  PROVE  LogInv /\ MemberInv /\ CursorInv
    OBVIOUS
  <1>1. Typed
    BY InitInv
  <1>2. \A g \in Groups : Len(log[g]) = 0 /\ 1..Len(log[g]) = {}
    BY DEF Init
  <1>3. LogInv
    <2>1. Wrappers = {}
      BY <1>2 DEF Wrappers
    <2>2. QED  BY <1>2, <2>1, FS_EmptySet DEF Init, LogInv
  <1>4. MemberInv
    BY <1>2 DEF Init, MemberInv, Standing, Removes, None
  <1>5. \A g \in Groups : Safe(g, 0)
    BY <1>1, SafeZero
  <1>6. CursorInv
    BY <1>5, NoJobType DEF Init, CursorInv, Walk, Safe
  <1>7. QED  BY <1>3, <1>4, <1>6

\* Cursors never pass a message of the membership that the engine has not been offered,
\* for any groups, tasks and interleaving of syncs, leaves, evictions, re-invitations and
\* crashes.  The hypotheses say what the fetch of sync_group_since_cursor relies on: a sync
\* without a cursor looks back far enough (48 h) to reach the first wrapper, and the log is
\* within the 1000 wrappers a relay returns.  Beyond either, messages are skipped by design.
THEOREM NothingSkipped ==
    ASSUME Backfill >= MaxClock, Backfill >= 1, MaxLog <= Limit
    PROVE  Spec => []NoSkip
  <1> DEFINE SkipInv == IInv /\ LogInv /\ MemberInv /\ CursorInv
  <1>1. Init => SkipInv
    BY InitInv, InitSkip DEF IInv
  <1>2. SkipInv /\ [Next]_vars => SkipInv'
    <2> SUFFICES ASSUME SkipInv, [Next]_vars  PROVE  SkipInv'
      OBVIOUS
    <2>1. IInv' /\ Typed' /\ Typed /\ JobInv
      BY TypedStep, GuardStep, LossStep DEF IInv
    <2>2. LogInv' /\ MemberInv' /\ CursorInv'
      BY <2>1, LogStep, MemberStep, CursorStep
    <2>3. QED  BY <2>1, <2>2
  <1>3. SkipInv => NoSkip
    <2> SUFFICES ASSUME SkipInv, NEW g \in Groups, engine[g] = "member",
                        NEW i \in 1..Len(log[g]), Readable(<<g, i>>), log[g][i].at < cursor[g]
                 PROVE  <<g, i>> \in consumed \cup refused
      BY DEF NoSkip
    <2>1. Safe(g, cursor[g]) /\ Alive(g, i)
      BY DEF CursorInv, Alive
    <2>2. QED  BY <2>1 DEF Safe, Behind, Handled
  <1>4. QED  BY <1>1, <1>2, <1>3, PTL DEF Spec

====
