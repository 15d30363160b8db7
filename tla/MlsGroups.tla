----------------------------- MODULE MlsGroups -----------------------------
(***************************************************************************)
(* The life of MLS groups on one device: create_group, accept of a         *)
(* welcome, leave_group, sync_group_since_cursor, the live subscription,   *)
(* cleanup_evicted_group and the orphan reaper, over the four stores they  *)
(* share: the MDK engine, the mls_groups rows, the chats and the event     *)
(* cursors.  Create, accept and reap hold MLS_GROUPS_ENGINE_CREATE_LOCK;   *)
(* leave, sync, live handling and cleanup hold nothing while they wait.    *)
(*                                                                         *)
(* A group's relay log is the sequence of its wrappers, in the order of    *)
(* their created_at.  The engine opens a wrapper once: what it consumed    *)
(* and nobody stored is gone.                                              *)
(***************************************************************************)
EXTENDS Integers, FiniteSets, Sequences

CONSTANTS
    Groups,
    Existing,       \* groups this device is in when the process starts
    Tasks,          \* commands and handlers that may run at the same time
    NoTask, NoGroup,
    Backfill,       \* how far back a sync without a cursor looks (48 h)
    Limit,          \* how many wrappers a relay returns, the newest first (1000)
    MaxClock,       \* bound: seconds in which wrappers are published
    MaxLog,         \* bound: wrappers on the relays, all groups together
    MaxLive,        \* bound: wrappers the live subscription delivers
    MaxInvites,     \* bound: welcomes sent to this device
    MaxOps,         \* bound: commands the user and the frontend start
    MaxFaults       \* bound: failed writes of the database, failed rumors, failed unwrappings
                    \* and process crashes, together

ASSUME GroupsAssumption ==
    /\ NoTask \notin Tasks /\ NoGroup \notin Groups
    /\ Existing \subseteq Groups /\ IsFiniteSet(Groups) /\ IsFiniteSet(Tasks)
    /\ Backfill \in Nat /\ Limit \in Nat \ {0}
    /\ MaxClock \in Nat /\ MaxLog \in Nat /\ MaxLive \in Nat
    /\ MaxInvites \in Nat /\ MaxOps \in Nat /\ MaxFaults \in Nat

VARIABLES
    clock,
    log,        \* per group: the wrappers on the relays
    belongs,    \* groups whose members, as the relays' log has it, include this device
    welcome,    \* per group: log length at the welcome the engine holds, None without one
    joinedAt,   \* per group: log length where this device's membership starts
    engine,     \* per group: "none", "member" or "out" (removed by a commit)
    row,        \* per group: its mls_groups row: "none", "live" or "evicted"
    chat,       \* groups with a chat row
    cursor,     \* per group: last_seen_at of its cursor row, 0 when there is none
    consumed,   \* wrappers <<g, i>> the engine has opened
    stored,     \* messages <<g, i>> with a row
    shown,      \* messages this process put into STATE
    lost,       \* history: opened messages that were dropped or deleted (see NoSilentLoss)
    refused,    \* history: wrappers the engine had no group for or failed on (see Refuses)
    faults,
    lock,       \* holder of MLS_GROUPS_ENGINE_CREATE_LOCK
    pc,         \* per task: the next step
    grp,        \* per task: its group
    seen,       \* per task: the rows it read
    job,        \* per task: the locals of a sync, a cleanup or a leave
    delivered,  \* wrappers the live subscription delivered
    invites, ops, crashes

vars == <<clock, log, belongs, welcome, joinedAt, engine, row, chat, cursor, consumed, stored,
          shown, lost, refused, faults, lock, pc, grp, seen, job, delivered, invites, ops, crashes>>
taskVars == <<pc, grp, seen, job>>
netVars == <<clock, log, belongs, delivered, invites>>
storeVars == <<chat, cursor, consumed, stored, shown, lost, refused, faults>>
memberVars == <<welcome, joinedAt, engine>>
countVars == <<ops, crashes>>

Wrappers == UNION {{<<g, i>> : i \in 1..Len(log[g])} : g \in Groups}
Kind(w) == log[w[1]][w[2]].kind
At(w) == log[w[1]][w[2]].at
None == -1
\* Wrappers of the current membership: the engine has keys for no others.
Readable(w) ==
    /\ w[2] > joinedAt[w[1]]
    /\ \A i \in joinedAt[w[1]] + 1 .. w[2] - 1 : log[w[1]][i].kind # "remove"

NoJob == [snap |-> [g \in Groups |-> 0], since |-> 0, until |-> 0, todo |-> {},
          last |-> 0, buf |-> {}, evicted |-> FALSE]

NoRows == [g \in Groups |-> "none"]

Locked == {"createSave", "acceptRead", "acceptSave", "reapRead", "reapDelete"}
Pcs == Locked \cup
    {"idle", "createChat", "acceptChat", "leavePublish", "leaveRow", "leaveState",
     "leaveChat", "leaveRead", "leaveWrite", "syncStart", "syncFetch", "syncItem",
     "syncStore", "syncCursor", "liveItem", "liveStore", "evictRead", "evictSave",
     "evictState", "evictChat"}

Init ==
    /\ clock = 1
    /\ log = [g \in Groups |-> <<>>]
    /\ belongs = Existing /\ welcome = [g \in Groups |-> None]
    /\ joinedAt = [g \in Groups |-> 0]
    /\ engine = [g \in Groups |-> IF g \in Existing THEN "member" ELSE "none"]
    /\ row = [g \in Groups |-> IF g \in Existing THEN "live" ELSE "none"]
    /\ chat = Existing /\ cursor = [g \in Groups |-> 0]
    /\ consumed = {} /\ stored = {} /\ shown = {} /\ lost = {} /\ refused = {}
    /\ faults = 0
    /\ lock = NoTask
    /\ pc = [t \in Tasks |-> "idle"]
    /\ grp = [t \in Tasks |-> NoGroup]
    /\ seen = [t \in Tasks |-> NoRows]
    /\ job = [t \in Tasks |-> NoJob]
    /\ delivered = {} /\ invites = 0 /\ ops = 0 /\ crashes = 0

----------------------------------------------------------------------------
(* Relays and other members. *)

\* A member sends a message, or a commit that removes this device, in the current second
\* or in a later one.
Publish(g, kind) ==
    /\ g \in belongs /\ Cardinality(Wrappers) < MaxLog
    /\ clock' \in clock .. (IF clock < MaxClock THEN clock + 1 ELSE clock)
    /\ log' = [log EXCEPT ![g] = Append(@, [kind |-> kind, at |-> clock'])]
    /\ belongs' = IF kind = "remove" THEN belongs \ {g} ELSE belongs
    /\ UNCHANGED <<delivered, invites, memberVars, row, storeVars, lock, taskVars, countVars>>

\* An admin invites this device: the welcome reaches the engine as a gift wrap.
Invite(g) ==
    /\ g \notin belongs /\ welcome[g] = None /\ invites < MaxInvites
    /\ belongs' = belongs \cup {g} /\ invites' = invites + 1
    /\ welcome' = [welcome EXCEPT ![g] = Len(log[g])]
    /\ UNCHANGED <<clock, log, delivered, joinedAt, engine, row, storeVars, lock, taskVars,
                   countVars>>

----------------------------------------------------------------------------
(* Tasks: how they start, move on and end. *)

Start(t, g, next) ==
    /\ pc[t] = "idle" /\ ops < MaxOps /\ ops' = ops + 1
    /\ pc' = [pc EXCEPT ![t] = next]
    /\ grp' = [grp EXCEPT ![t] = g]
    /\ crashes' = crashes
\* Mutant: a second lock, as if create, accept and the reaper each had their own.
Acquire_Own(t) == lock' = t
Acquire(t) == lock = NoTask /\ lock' = t
Go(t, next) ==
    /\ pc' = [pc EXCEPT ![t] = next]
    /\ UNCHANGED <<grp, countVars>>
End(t) ==
    /\ pc' = [pc EXCEPT ![t] = "idle"]
    /\ job' = [job EXCEPT ![t] = NoJob]
    /\ grp' = [grp EXCEPT ![t] = NoGroup]
    /\ seen' = [seen EXCEPT ![t] = NoRows]
    /\ UNCHANGED countVars

\* Whether something the step calls fails, an error that is logged or discarded.
Fault(fails) ==
    /\ fails => faults < MaxFaults /\ faults + crashes < MaxFaults
    /\ faults' = IF fails THEN faults + 1 ELSE faults

\* save_mls_group: an upsert of the whole row.
SaveRow(g, r) == row' = [row EXCEPT ![g] = r]

\* save_mls_event_cursors: every cursor of the map is inserted or replaced, none is deleted.
\* The statements share no transaction; the first that fails ends the loop.
WriteCursors(map) ==
    \E written \in SUBSET {g \in Groups : map[g] # 0} :
        /\ cursor' = [g \in Groups |-> IF g \in written THEN map[g] ELSE cursor[g]]
        /\ Fault(\E g \in Groups \ written : map[g] # 0)

\* save_chat of a new chat; its error is logged or discarded.
SaveChat(g) ==
    \/ chat' = chat \cup {g} /\ Fault(FALSE)
    \/ chat' = chat /\ Fault(TRUE)

----------------------------------------------------------------------------
(* create_group and do_accept_mls_welcome: the engine first, then the row. *)

CreateEngine(t, g) ==
    /\ Start(t, g, "createSave") /\ Acquire(t)
    /\ engine[g] = "none" /\ row[g] = "none" /\ log[g] = <<>> /\ g \notin belongs
    /\ engine' = [engine EXCEPT ![g] = "member"]
    /\ belongs' = belongs \cup {g}
    /\ UNCHANGED <<clock, log, delivered, invites, welcome, joinedAt, row, storeVars, seen,
                   job>>

\* The metadata row; an error of the database drops the guard and leaves the engine's group.
CreateSave(t) ==
    LET g == grp[t] IN
    /\ pc[t] = "createSave" /\ lock' = NoTask
    /\ \/ SaveRow(g, "live") /\ Go(t, "createChat") /\ UNCHANGED <<seen, job>>
       \/ UNCHANGED row /\ End(t)
    /\ UNCHANGED <<netVars, memberVars, storeVars>>

CreateChat(t) ==
    /\ pc[t] = "createChat" /\ End(t)
    /\ SaveChat(grp[t])
    /\ UNCHANGED <<netVars, memberVars, row, cursor, consumed, stored, shown, lost, refused,
                   lock>>

AcceptEngine(t, g) ==
    /\ Start(t, g, "acceptRead") /\ Acquire(t)
    /\ welcome[g] # None
    /\ engine' = [engine EXCEPT ![g] = "member"]
    /\ joinedAt' = [joinedAt EXCEPT ![g] = welcome[g]]
    /\ welcome' = [welcome EXCEPT ![g] = None]
    /\ UNCHANGED <<netVars, row, storeVars, seen, job>>

AcceptRead(t) ==
    /\ pc[t] = "acceptRead" /\ Go(t, "acceptSave")
    /\ seen' = [seen EXCEPT ![t] = row]
    /\ UNCHANGED <<netVars, memberVars, row, storeVars, lock, job>>

\* A live row is left as it is; the guard is dropped before the chat is created.
AcceptSave(t) ==
    LET g == grp[t] IN
    /\ pc[t] = "acceptSave" /\ lock' = NoTask
    /\ \/ /\ IF seen[t][g] = "live" THEN UNCHANGED row ELSE SaveRow(g, "live")
          /\ Go(t, "acceptChat") /\ UNCHANGED <<seen, job>>
       \/ seen[t][g] # "live" /\ UNCHANGED row /\ End(t)
    /\ UNCHANGED <<netVars, memberVars, storeVars>>

\* The chat is created only for a group that had no row; then the first sync.
AcceptChat(t) ==
    LET g == grp[t] IN
    /\ pc[t] = "acceptChat" /\ Go(t, "syncStart")
    /\ IF seen[t][g] = "none" THEN SaveChat(g) ELSE UNCHANGED <<chat, faults>>
    /\ UNCHANGED <<netVars, memberVars, row, cursor, consumed, stored, shown, lost, refused,
                   lock, seen, job>>

----------------------------------------------------------------------------
(* leave_group. *)

LeaveStart(t, g) ==
    /\ row[g] # "none" /\ engine[g] # "out"
    /\ Start(t, g, IF engine[g] = "none" THEN "leaveRow" ELSE "leavePublish")
    /\ UNCHANGED <<netVars, memberVars, row, storeVars, lock, seen, job>>

\* The proposal: relays may refuse it, and then nothing is removed locally.
LeavePublish(t) ==
    /\ pc[t] = "leavePublish"
    /\ \/ Go(t, "leaveRow") /\ UNCHANGED <<seen, job>>
       \/ End(t)
    /\ UNCHANGED <<netVars, memberVars, row, storeVars, lock>>

\* delete_mls_group; an error ends the command before anything else is removed.
LeaveRow(t) ==
    /\ pc[t] = "leaveRow"
    /\ \/ /\ row' = [row EXCEPT ![grp[t]] = "none"]
          /\ Go(t, "leaveState") /\ UNCHANGED <<seen, job>>
       \/ UNCHANGED row /\ End(t)
    /\ UNCHANGED <<netVars, memberVars, storeVars, lock>>

InGroup(S, g) == {w \in S : w[1] = g}

\* STATE.chats: a message whose save had failed is nowhere any more.
DropShown(g) ==
    /\ shown' = shown \ InGroup(shown, g)
    /\ lost' = lost \cup (InGroup(shown, g) \ stored)
    /\ UNCHANGED <<chat, stored, faults>>

\* delete_chat: the events, then the chat row; an error of either is only logged.
DropChat(g) ==
    \E gone \in {InGroup(stored, g), {}} :
        /\ stored' = stored \ gone
        /\ lost' = lost \cup gone
        /\ \/ gone = InGroup(stored, g) /\ chat' = chat \ {g} /\ Fault(FALSE)
           \/ chat' = chat /\ Fault(TRUE)
        /\ UNCHANGED shown

LeaveState(t) ==
    /\ pc[t] = "leaveState" /\ Go(t, "leaveChat") /\ DropShown(grp[t])
    /\ UNCHANGED <<netVars, memberVars, row, cursor, consumed, refused, lock, seen, job>>

LeaveChat(t) ==
    /\ pc[t] = "leaveChat" /\ Go(t, "leaveRead") /\ DropChat(grp[t])
    /\ UNCHANGED <<netVars, memberVars, row, cursor, consumed, refused, lock, seen, job>>

\* The map is written back only when it had a cursor of this group.
LeaveRead(t) ==
    /\ pc[t] = "leaveRead"
    /\ \/ /\ cursor[grp[t]] # 0 /\ Go(t, "leaveWrite")
          /\ job' = [job EXCEPT ![t] = [@ EXCEPT !.snap = [cursor EXCEPT ![grp[t]] = 0]]]
          /\ UNCHANGED seen
       \/ cursor[grp[t]] = 0 /\ End(t)
    /\ UNCHANGED <<netVars, memberVars, row, storeVars, lock>>

LeaveWrite(t) ==
    /\ pc[t] = "leaveWrite" /\ End(t)
    /\ WriteCursors(job[t].snap)
    /\ UNCHANGED <<netVars, memberVars, row, chat, consumed, stored, shown, lost, refused, lock>>

----------------------------------------------------------------------------
(* sync_group_since_cursor.                                                *)

SyncNow(t, g) ==
    /\ row[g] # "none" /\ Start(t, g, "syncStart")
    /\ UNCHANGED <<netVars, memberVars, row, storeVars, lock, seen, job>>

\* Mutant: without a cursor, nothing older than this second.
Since_Now(c) == IF c # 0 THEN c ELSE clock
Since(c) == IF c # 0 THEN c ELSE IF clock > Backfill THEN clock - Backfill ELSE 0

\* The cursors of all groups are read here and written back at the end.
SyncStart(t) ==
    LET g == grp[t] IN
    /\ pc[t] = "syncStart"
    /\ \/ row[g] = "evicted" /\ End(t)
       \/ /\ row[g] # "evicted" /\ Go(t, "syncFetch")
          /\ job' = [job EXCEPT ![t] = [NoJob EXCEPT !.snap = cursor,
                                        !.since = Since(cursor[g]), !.until = clock]]
          /\ UNCHANGED seen
    /\ UNCHANGED <<netVars, memberVars, row, storeVars, lock>>

\* What the filter matches, both ends included.
Matching(g, since, until) ==
    {i \in 1..Len(log[g]) : log[g][i].at >= since /\ log[g][i].at <= until}
\* A relay answers with the newest of them; they are processed oldest first.
Newest(S) == {i \in S : Cardinality({j \in S : j > i}) < Limit}
Oldest(S) == {i \in S : \A j \in S : i <= j}

SyncFetch(t) ==
    LET g == grp[t]
        found == Newest(Matching(g, job[t].since, job[t].until))
    IN  /\ pc[t] = "syncFetch"
        /\ \/ /\ found # {} /\ Go(t, "syncItem")
              /\ job' = [job EXCEPT ![t].todo = found]
              /\ UNCHANGED seen
           \/ End(t)               \* nothing found, or the fetch failed
        /\ UNCHANGED <<netVars, memberVars, row, storeVars, lock>>

Results == {"msg", "remove", "repeated", "error", "evicted"}
\* What process_message may answer for wrapper w.  A wrapper handled before is answered
\* from the engine's record of it, as an error or as a result without content; one it fails
\* on it may open, fail on or report as failed when it sees it again.
Answers(w) ==
    LET again == IF w \in consumed THEN {"repeated", "error"} ELSE {} IN
    IF engine[w[1]] = "none" THEN {"error"}
    ELSE IF engine[w[1]] = "out" THEN {"evicted"} \cup again
    ELSE IF w \in consumed THEN again
    ELSE IF Readable(w) THEN {Kind(w), "error"} \cup (IF w \in refused THEN {"repeated"} ELSE {})
    ELSE {"repeated", "error"}

\* A wrapper of a group the engine does not have, one of this membership that it fails on,
\* or one that comes after a removal it failed on.
Fails(w, answer) == answer = "error" /\ engine[w[1]] # "none" /\ Readable(w) /\ w \notin consumed
Refuses(w, answer) ==
    /\ answer \in {"repeated", "error"} /\ w \notin consumed
    /\ \/ engine[w[1]] = "none" \/ Fails(w, answer)
       \/ \E i \in 1..w[2] - 1 : <<w[1], i>> \in refused /\ log[w[1]][i].kind = "remove"

\* process_message: an application message is opened, a removal commit is merged.
Process(w, answer) ==
    /\ answer \in Answers(w)
    /\ refused' = IF Refuses(w, answer) THEN refused \cup {w} ELSE refused
    /\ Fault(Fails(w, answer))
    /\ consumed' = IF answer \in {"msg", "remove"} THEN consumed \cup {w} ELSE consumed
    /\ engine' = IF answer = "remove" THEN [engine EXCEPT ![w[1]] = "out"] ELSE engine
    /\ UNCHANGED <<welcome, joinedAt>>

\* Mutant: whatever the engine answers with Ok is taken for a message.
Buffered_AnyOk(buf, w, answer) == IF answer \in {"error", "evicted"} THEN buf ELSE buf \cup {w}
Buffered(buf, w, answer) == IF answer = "msg" THEN buf \cup {w} ELSE buf

\* Any Ok moves the cursor candidate; only an error that names the eviction sets the flag.
Noted(j, w, answer) ==
    [j EXCEPT !.todo = @ \ {w[2]},
              !.buf = Buffered(@, w, answer),
              !.last = IF answer \in {"error", "evicted"} THEN @ ELSE At(w),
              !.evicted = IF answer = "evicted" THEN TRUE ELSE @]

SyncItem(t) ==
    /\ pc[t] = "syncItem"
    /\ \E i \in Oldest(job[t].todo), answer \in Results :
        LET w == <<grp[t], i>> IN
        /\ Process(w, answer)
        /\ job' = [job EXCEPT ![t] = Noted(job[t], w, answer)]
        /\ Go(t, IF job[t].todo = {i} THEN "syncStore" ELSE "syncItem")
    /\ UNCHANGED <<netVars, row, chat, cursor, stored, shown, lost, lock, seen>>

\* Mutant: messages go only into a chat that is there.
StoreMessages_Known(g, msgs, all) ==
    /\ shown' = IF g \in chat THEN shown \cup msgs ELSE shown
    /\ stored' = IF g \in chat THEN stored \cup msgs ELSE stored
    /\ UNCHANGED <<chat, lost>> /\ Fault(FALSE)
\* Each message opened goes through process_rumor, an error of which drops it, then into
\* STATE, where the chat is created when it is missing, and then to the database with its
\* chat.  The saves also reach messages an earlier save has missed: all those of the chat,
\* or only some.  Every message is saved by itself, and no error of a save is looked at.
StoreMessages(g, msgs, all) ==
    \E dropped \in SUBSET msgs :
        LET added == msgs \ dropped
            open == IF added = {} THEN {} ELSE (InGroup(shown, g) \cup added) \ stored
        IN  \E saved \in SUBSET open :
                /\ shown' = shown \cup added
                /\ stored' = stored \cup saved
                /\ lost' = lost \cup dropped
                /\ \/ added # {} /\ chat' = chat \cup {g}
                   \/ saved = {} /\ chat' = chat
                /\ Fault(~((IF all THEN open \cup msgs ELSE msgs) \subseteq saved))

\* The buffered messages, unless the eviction was noticed: its cleanup deletes the chat.
SyncStore(t) ==
    /\ pc[t] = "syncStore" /\ Go(t, "syncCursor")
    /\ \/ job[t].evicted /\ lost' = lost \cup job[t].buf /\ UNCHANGED <<chat, stored, shown, faults>>
       \/ ~job[t].evicted /\ StoreMessages(grp[t], job[t].buf, FALSE)
    /\ job' = [job EXCEPT ![t].buf = {}]
    /\ UNCHANGED <<netVars, memberVars, row, cursor, consumed, refused, lock, seen>>

CursorMap(j, g) ==
    IF j.evicted THEN [j.snap EXCEPT ![g] = 0]
    ELSE IF j.last # 0 THEN [j.snap EXCEPT ![g] = j.last] ELSE j.snap

SyncCursor(t) ==
    /\ pc[t] = "syncCursor"
    /\ IF job[t].evicted \/ job[t].last # 0 THEN WriteCursors(CursorMap(job[t], grp[t]))
       ELSE UNCHANGED <<cursor, faults>>
    /\ \/ job[t].evicted /\ Go(t, "evictRead") /\ UNCHANGED <<seen, job>>
       \/ ~job[t].evicted /\ End(t)
    /\ UNCHANGED <<netVars, memberVars, row, chat, consumed, stored, shown, lost, refused, lock>>

----------------------------------------------------------------------------
(* The live subscription: one wrapper, no cursor. *)

LiveStart(t, w) ==
    /\ pc[t] = "idle" /\ w \in Wrappers \ delivered /\ Cardinality(delivered) < MaxLive
    /\ delivered' = delivered \cup {w}
    /\ \/ /\ row[w[1]] # "none"
          /\ pc' = [pc EXCEPT ![t] = "liveItem"]
          /\ grp' = [grp EXCEPT ![t] = w[1]]
          /\ job' = [job EXCEPT ![t] = [NoJob EXCEPT !.todo = {w[2]}]]
       \/ row[w[1]] = "none" /\ UNCHANGED <<pc, grp, job>>
    /\ UNCHANGED <<clock, log, belongs, invites, memberVars, row, storeVars, lock, seen,
                   countVars>>

\* Without a positive answer to whether this device is still a member nothing is cleaned up.
LiveItem(t) ==
    /\ pc[t] = "liveItem"
    /\ \E i \in job[t].todo, answer \in Results :
        LET w == <<grp[t], i>> IN
        /\ Process(w, answer)
        /\ \/ /\ answer = "msg" /\ Go(t, "liveStore")
              /\ job' = [job EXCEPT ![t].buf = {w}] /\ UNCHANGED seen
           \/ answer \in {"remove", "evicted"} /\ Go(t, "evictRead") /\ UNCHANGED <<seen, job>>
           \/ answer \in {"remove", "repeated", "error"} /\ End(t)
    /\ UNCHANGED <<netVars, row, chat, cursor, stored, shown, lost, lock>>

LiveStore(t) ==
    /\ pc[t] = "liveStore" /\ End(t)
    /\ StoreMessages(grp[t], job[t].buf, TRUE)
    /\ UNCHANGED <<netVars, memberVars, row, cursor, consumed, refused, lock>>

----------------------------------------------------------------------------
(* cleanup_evicted_group: also what a send does when the engine refuses. *)

SendRefused(t, g) ==
    /\ row[g] # "none" /\ engine[g] # "member" /\ Start(t, g, "evictRead")
    /\ UNCHANGED <<netVars, memberVars, row, storeVars, lock, seen, job>>

EvictRead(t) ==
    /\ pc[t] = "evictRead" /\ Go(t, "evictSave")
    /\ seen' = [seen EXCEPT ![t] = row]
    /\ UNCHANGED <<netVars, memberVars, row, storeVars, lock, job>>

\* The row as it was read, marked evicted: whatever was written meanwhile is overwritten.
EvictSave(t) ==
    LET g == grp[t] IN
    /\ pc[t] = "evictSave" /\ Go(t, "evictState")
    /\ \/ seen[t][g] # "none" /\ SaveRow(g, "evicted")
       \/ UNCHANGED row           \* no row was read, or its save failed and is only logged
    /\ UNCHANGED <<netVars, memberVars, storeVars, lock, seen, job>>

EvictState(t) ==
    /\ pc[t] = "evictState" /\ Go(t, "evictChat") /\ DropShown(grp[t])
    /\ UNCHANGED <<netVars, memberVars, row, cursor, consumed, refused, lock, seen, job>>

EvictChat(t) ==
    /\ pc[t] = "evictChat" /\ End(t) /\ DropChat(grp[t])
    /\ UNCHANGED <<netVars, memberVars, row, cursor, consumed, refused, lock>>

----------------------------------------------------------------------------
(* reap_orphaned_engine_groups. *)

ReapStart(t) ==
    /\ Start(t, NoGroup, "reapRead") /\ Acquire(t)
    /\ UNCHANGED <<netVars, memberVars, row, storeVars, seen, job>>

\* The cooldown, or an error of the database, ends the sweep here.
ReapRead(t) ==
    /\ pc[t] = "reapRead"
    /\ \/ /\ Go(t, "reapDelete") /\ seen' = [seen EXCEPT ![t] = row]
          /\ UNCHANGED <<lock, job>>
       \/ End(t) /\ lock' = NoTask
    /\ UNCHANGED <<netVars, memberVars, row, storeVars>>

Orphans(t) == {g \in Groups : engine[g] # "none" /\ seen[t][g] = "none"}

\* Without any row the sweep is refused; deleting one group may fail.
ReapDelete(t) ==
    /\ pc[t] = "reapDelete" /\ End(t) /\ lock' = NoTask
    /\ IF \A g \in Groups : seen[t][g] = "none" THEN UNCHANGED engine
       ELSE \E gone \in SUBSET Orphans(t) :
                engine' = [g \in Groups |-> IF g \in gone THEN "none" ELSE engine[g]]
    /\ UNCHANGED <<netVars, welcome, joinedAt, row, storeVars>>

----------------------------------------------------------------------------
(* A crash: tasks, guard, buffers and STATE are gone, the stores remain. *)

\* Messages the engine has opened and a task has yet to store.
InHand == UNION {job[t].buf : t \in Tasks}

Crash ==
    /\ faults + crashes < MaxFaults /\ crashes' = crashes + 1
    /\ lost' = lost \cup InHand \cup (shown \ stored)
    /\ shown' = {}
    /\ lock' = NoTask
    /\ pc' = [t \in Tasks |-> "idle"]
    /\ job' = [t \in Tasks |-> NoJob]
    /\ grp' = [t \in Tasks |-> NoGroup] /\ seen' = [t \in Tasks |-> NoRows]
    /\ UNCHANGED <<netVars, memberVars, row, chat, cursor, consumed, stored, refused, faults, ops>>

Begin(t) ==
    \/ \E g \in Groups : CreateEngine(t, g) \/ AcceptEngine(t, g) \/ LeaveStart(t, g)
                            \/ SyncNow(t, g) \/ SendRefused(t, g)
    \/ ReapStart(t)
    \/ \E w \in Wrappers : LiveStart(t, w)
Create(t) == CreateSave(t) \/ CreateChat(t)
Accept(t) == AcceptRead(t) \/ AcceptSave(t) \/ AcceptChat(t)
Leave(t) == LeavePublish(t) \/ LeaveRow(t) \/ LeaveState(t) \/ LeaveChat(t) \/ LeaveRead(t)
                \/ LeaveWrite(t)
Sync(t) == SyncStart(t) \/ SyncFetch(t) \/ SyncItem(t) \/ SyncStore(t) \/ SyncCursor(t)
Live(t) == LiveItem(t) \/ LiveStore(t)
Evict(t) == EvictRead(t) \/ EvictSave(t) \/ EvictState(t) \/ EvictChat(t)
Reap(t) == ReapRead(t) \/ ReapDelete(t)
Step(t) == Create(t) \/ Accept(t) \/ Leave(t) \/ Sync(t) \/ Live(t) \/ Evict(t) \/ Reap(t)

Next ==
    \/ Crash
    \/ \E g \in Groups : Publish(g, "msg") \/ Publish(g, "remove") \/ Invite(g)
    \/ \E t \in Tasks : Begin(t) \/ Step(t)

Spec == Init /\ [][Next]_vars
\* A started command is driven to its end by the runtime: every await in it returns, the
\* relays' ones with a timeout.
FairSpec == Spec /\ \A t \in Tasks : WF_vars(Step(t))

----------------------------------------------------------------------------
(* Properties. *)

TypeOK ==
    /\ belongs \subseteq Groups /\ welcome \in [Groups -> Nat \cup {None}]
    /\ joinedAt \in [Groups -> Nat]
    /\ engine \in [Groups -> {"none", "member", "out"}]
    /\ row \in [Groups -> {"none", "live", "evicted"}]
    /\ chat \subseteq Groups /\ cursor \in [Groups -> Nat]
    /\ lock \in Tasks \cup {NoTask}
    /\ pc \in [Tasks -> Pcs] /\ grp \in [Tasks -> Groups \cup {NoGroup}]
    /\ seen \in [Tasks -> [Groups -> {"none", "live", "evicted"}]]
    /\ stored \cup shown \cup lost \subseteq consumed /\ faults \in 0..MaxFaults
    /\ consumed \cup delivered \cup refused \subseteq Wrappers

\* MLS_GROUPS_ENGINE_CREATE_LOCK: the row of a group that is not evicted always has its
\* group in the engine.  No sweep deletes a group whose row create or accept is still about
\* to write, and no stale write of a cleanup or a leave brings back a row whose group was
\* swept (mls_orphan_reaper.rs, create_group, do_accept_mls_welcome).
RowHasEngine == \A g \in Groups : row[g] = "live" => engine[g] # "none"

\* The guard is held exactly by the task that is between its engine change or row read and
\* its row write or engine deletion: what RowHasEngine rests on.
GuardHeld == \A t \in Tasks : (lock = t) <=> (pc[t] \in Locked)

\* sync_group_since_cursor: when a group is in good standing, no message of this membership
\* lies before its cursor unopened, whatever syncs, live wrappers, leaves, evictions and
\* stale writes of the whole cursor map happened.  Excepted: what the engine was offered and
\* refused: because it failed on it, or on a removal before it (the sync goes on and its
\* cursor moves past them), or had no such group since a leave and a sweep.
NoSkip ==
    \A g \in Groups : engine[g] = "member" =>
        \A i \in 1..Len(log[g]) :
            /\ Readable(<<g, i>>) /\ log[g][i].kind = "msg"
            /\ log[g][i].at < cursor[g]
            => <<g, i>> \in consumed \cup refused

\* The engine opens a message once.  A message it opened has its row, is shown by this
\* process, or is in the hands of a task that will store it; the only others were dropped by
\* an error of process_rumor, by a sync that noticed an eviction, with the chat that a leave
\* or a cleanup deleted, or by a crash.  As long as no write failed, whatever is shown has
\* its row or lost it to such a deletion: the next start shows it again.
NoSilentLoss ==
    /\ \A w \in consumed : Kind(w) = "msg" =>
        w \in stored \cup shown \cup lost \cup InHand
    /\ faults = 0 => shown \subseteq stored \cup lost

\* Whatever a task does, it ends, and with it the guard it may hold is free again.
TasksEnd == \A t \in Tasks : pc[t] # "idle" ~> pc[t] = "idle"

\* What mls.rs:2985 says ("Remove cursor for this group (will be reset if re-invited)"):
\* once the cleanup is over, an evicted group has no cursor.
CursorGone ==
    \A g \in Groups : row[g] = "evicted" /\ (\A t \in Tasks : pc[t] = "idle") => cursor[g] = 0

\* What cmds/relays.rs:661 says ("Only evict if we can POSITIVELY CONFIRM removal"): a row
\* is marked evicted only while the engine is not a member of its group.
EvictsOnlyRemoved ==
    [][\A g \in Groups : row[g] = "live" /\ row'[g] = "evicted" => engine[g] # "member"]_vars
====
