--------------------------- MODULE DirectMessages ---------------------------
(***************************************************************************)
(* One direct-message chat on one device: the gift-wrap intake             *)
(* (handle_event behind its deadline), the messages in memory, the events  *)
(* table, and the commands that touch both: message, edit_message,         *)
(* delete_dm_chat, get_message_views, evict_chat_messages, block.          *)
(*                                                                         *)
(* The live subscription and the sync slice each handle one wrap at a      *)
(* time, side by side.  A command or a handler gives up the processor at   *)
(* every await: each of its actions below is what it does between two      *)
(* awaits that others can see.                                             *)
(***************************************************************************)
EXTENDS Integers, FiniteSets

CONSTANTS
    Texts, Edits,
    Of,             \* per edit: the message whose content it replaces
    Chats,          \* which rumors may be the local user's, the others being the peer's
    Window,         \* EDIT_WINDOW_SECS
    Copies,         \* how many wraps of one rumor the sender's retries publish
    TimeoutLimit,   \* GIFTWRAP_TIMEOUT_DISCARD_AFTER
    Commands,       \* commands that may run at the same time
    MaxClock,       \* bound: seconds
    MaxOps,         \* bound: commands the user starts, each fault counting as one
    MaxFaults       \* bound: attempts that outlive EVENT_HANDLING_TIMEOUT, failed database
                    \* calls, and restarts

Rumors == Texts \cup Edits
Intake == {"live", "sync"}
Workers == Intake \cup Commands

ASSUME DirectMessagesAssumption ==
    /\ Texts # {} /\ Texts \cap Edits = {} /\ Of \in [Edits -> Texts] /\ Chats \subseteq SUBSET Rumors
    /\ Intake \cap Commands = {} /\ IsFiniteSet(Rumors)
    /\ Window \in Nat /\ Copies \in Nat \ {0} /\ TimeoutLimit \in Nat \ {0}
    /\ MaxClock \in Nat \ {0} /\ MaxOps \in Nat /\ MaxFaults \in Nat

VARIABLES
    clock,
    mine,       \* rumors of the local user
    signed,     \* per rumor: created_at, 0 before it is written
    net,        \* wraps <<r, k>> addressed to this account on the relays
    fresh,      \* wraps the live subscription has yet to deliver
    chatRow,    \* the chat has a row in the chats table
    row,        \* per rumor: received_at of its event row, 0 when it has none
    wrapped,    \* wraps recorded in the event rows (wrapper_event_id)
    discarded,  \* discarded_giftwraps
    cutoff,     \* dm_deletion_cutoffs: the last deletion, None before the first
    blocked,    \* the peer is blocked
    chatMem,    \* STATE holds the chat
    shown,      \* texts STATE holds under their rumor id
    applied,    \* per text in STATE: the edits applied to it
    sending,    \* own texts STATE holds under a pending id, failed ones included
    cache,      \* WRAPPER_ID_CACHE
    timeouts,   \* per wrap: GIFTWRAP_TIMEOUT_COUNTS
    pc, job,    \* per worker: its next step and its locals
    granted,    \* history: edits that were authorised at some time
    excused,    \* history: texts whose handling was cut short, and how (see MemoryFollowsStore)
    spared,     \* history: rumors a deletion need not remove (see DeletedStaysDeleted)
    ops, faults

netVars == <<mine, signed, net, fresh>>
dbVars == <<chatRow, row, wrapped, discarded, cutoff>>
memVars == <<chatMem, shown, applied, sending>>
intakeVars == <<cache, timeouts>>
workVars == <<pc, job>>
historyVars == <<granted, excused, spared>>
countVars == <<ops, faults>>
vars == <<clock, netVars, dbVars, blocked, memVars, intakeVars, workVars, historyVars, countVars>>

None == -1
Wraps == Rumors \X (1..Copies)
EditsOf(t) == {e \in Edits : Of[e] = t}
TextOf(r) == IF r \in Texts THEN r ELSE Of[r]
NoRows == [r \in Rumors |-> 0]
Excuses == {"abandoned", "overtaken", "unsaved", "unmerged"}

\* A worker's locals: the rumor and wrap it handles, the receipt it took, and what it read.
SomeText == CHOOSE t \in Texts : TRUE
NoJob == [r |-> SomeText, w |-> <<SomeText, 1>>, at |-> 0, view |-> {}, edits |-> {}]

Pcs == {"idle", "exists", "heal", "add", "persist", "saveEdit", "read", "apply",
        "publish", "saveChat", "selfWrap", "editPublish", "editSave", "editCheck",
        "loadAdd", "deleteRows", "deleteState"}

Init ==
    /\ clock = 1
    /\ mine \in Chats /\ signed = NoRows /\ net = {} /\ fresh = {}
    /\ chatRow = FALSE /\ row = NoRows /\ wrapped = {} /\ discarded = {} /\ cutoff = None
    /\ blocked = FALSE
    /\ chatMem = FALSE /\ shown = {} /\ applied = [t \in Texts |-> {}] /\ sending = {}
    /\ cache = {} /\ timeouts = [w \in Wraps |-> 0]
    /\ pc = [x \in Workers |-> "idle"] /\ job = [x \in Workers |-> NoJob]
    /\ granted = {} /\ excused = {} /\ spared = {}
    /\ ops = 0 /\ faults = 0

----------------------------------------------------------------------------
(* Time, the peer and the relays. *)

Tick ==
    /\ clock < MaxClock /\ clock' = clock + 1
    /\ UNCHANGED <<netVars, dbVars, blocked, memVars, intakeVars, workVars, historyVars, countVars>>

\* The peer, or another device of the user, publishes a rumor, or a second wrap of it when
\* its first attempt got no acknowledgement.  An edit is written after its text.
Publish(r, k) ==
    /\ <<r, k>> \notin net /\ \A j \in 1 .. k - 1 : <<r, j>> \in net
    /\ IF k = 1 THEN signed[r] = 0 ELSE r \notin mine
    /\ r \in Edits => signed[Of[r]] > 0
    /\ signed' = [signed EXCEPT ![r] = IF k = 1 THEN clock ELSE @]
    /\ net' = net \cup {<<r, k>>} /\ fresh' = fresh \cup {<<r, k>>}
    /\ UNCHANGED <<clock, mine, dbVars, blocked, memVars, intakeVars, workVars, historyVars, countVars>>

----------------------------------------------------------------------------
(* The store. *)

\* The author test and the signed window of edit_is_authorized.
edit_is_authorized(e) ==
    /\ e \in mine <=> Of[e] \in mine
    /\ signed[e] \in signed[Of[e]] .. signed[Of[e]] + Window

\* An edit may be received before its text, never more than Window after it.
edit_received_in_time(at, editAt) == at > 0 /\ editAt > 0 /\ editAt - at <= Window

authorized_edits(t, rows) ==
    {e \in EditsOf(t) : edit_is_authorized(e) /\ edit_received_in_time(rows[t], rows[e])}

\* Mutant: INSERT OR REPLACE.
InsertOrIgnore_Replace(r, at) == row' = [row EXCEPT ![r] = at]
InsertOrIgnore(r, at) == row' = [row EXCEPT ![r] = IF @ = 0 THEN at ELSE @]

\* save_event, and the edits it makes authorised.
save_event(r, at, w) ==
    /\ InsertOrIgnore(r, at)
    /\ wrapped' = IF row[r] = 0 THEN wrapped \cup w ELSE wrapped
    /\ granted' = granted \cup UNION {authorized_edits(t, row') : t \in Texts}

----------------------------------------------------------------------------
(* Workers. *)

Go(x, next) == pc' = [pc EXCEPT ![x] = next] /\ UNCHANGED job
GoWith(x, next, j) == pc' = [pc EXCEPT ![x] = next] /\ job' = [job EXCEPT ![x] = j]
End(x) == GoWith(x, "idle", NoJob)

\* The end of a handling: its count of timeouts is cleared.
Handled(x) ==
    /\ End(x)
    /\ timeouts' = IF x \in Intake THEN [timeouts EXCEPT ![job[x].w] = 0] ELSE timeouts

discard(w) == discarded' = discarded \cup {w} /\ cache' = cache \cup {w}

----------------------------------------------------------------------------
(* Intake: handle_event_guarded, handle_event, handle_text_message. *)

\* A historical wrap is dropped when the cache or the database knows it; a live one is not
\* looked up, and comes once.
Known(w) == w \in cache \cup wrapped \cup discarded

\* Mutant: a rumor of the second of the deletion passes.
Refused_Before(r) == (r \notin mine /\ blocked) \/ signed[r] < cutoff
Refused(r) == (r \notin mine /\ blocked) \/ signed[r] <= cutoff

\* The lookup of the wrap, the block list and the deletion cutoff.  An edit takes its receipt
\* here, when its event is built.
Deliver(x, w) ==
    LET r == w[1] IN
    /\ pc[x] = "idle"
    /\ IF x = "live" THEN w \in fresh ELSE w \in net /\ ~Known(w)
    /\ fresh' = IF x = "live" THEN fresh \ {w} ELSE fresh
    /\ \/ /\ Refused(r) /\ discard(w)
          /\ timeouts' = [timeouts EXCEPT ![w] = 0] /\ UNCHANGED workVars
       \/ /\ ~Refused(r) /\ UNCHANGED <<discarded, intakeVars>>
          /\ IF r \in Texts THEN GoWith(x, "exists", [NoJob EXCEPT !.r = r, !.w = w])
             ELSE GoWith(x, "saveEdit", [NoJob EXCEPT !.r = r, !.w = w, !.at = clock])
    /\ UNCHANGED <<clock, mine, signed, net, chatRow, row, wrapped, cutoff, blocked, memVars, historyVars,
                   countVars>>

Exists(x) ==
    /\ pc[x] = "exists"
    /\ Go(x, IF row[job[x].r] > 0 THEN "heal" ELSE "add")
    /\ UNCHANGED <<clock, netVars, dbVars, blocked, memVars, intakeVars, historyVars, countVars>>

\* add_message_to_participant: a text already in STATE is left as it is.
AddToState(t) == chatMem' = TRUE /\ shown' = shown \cup {t} /\ UNCHANGED <<applied, sending>>

\* update_wrapper_event_id: the row of an own text has no wrapper yet and takes this one; a
\* wrap that no row takes goes to the cache.
update_wrapper_event_id(w) ==
    IF row[w[1]] > 0 /\ \A v \in wrapped : v[1] # w[1]
    THEN wrapped' = wrapped \cup {w} /\ UNCHANGED cache
    ELSE cache' = cache \cup {w} /\ UNCHANGED wrapped

\* reconcile_existing_dm: the wrap is recorded, and STATE gets the text if it misses it.
Heal(x) ==
    /\ pc[x] = "heal"
    /\ update_wrapper_event_id(job[x].w)
    /\ AddToState(job[x].r)
    /\ Go(x, "read")
    /\ UNCHANGED <<clock, netVars, chatRow, row, discarded, cutoff, blocked, timeouts, historyVars,
                   countVars>>

Add(x) ==
    /\ pc[x] = "add"
    /\ AddToState(job[x].r)
    /\ IF job[x].r \in shown THEN Handled(x) ELSE Go(x, "persist") /\ UNCHANGED timeouts
    /\ UNCHANGED <<clock, netVars, dbVars, blocked, cache, historyVars, countVars>>

\* Mutant: the chat row is looked up, not made.
get_or_create_chat_id_Get == UNCHANGED chatRow
get_or_create_chat_id == chatRow' = TRUE

\* A send saves the chat first.
SaveChat(x) ==
    /\ pc[x] = "saveChat"
    /\ get_or_create_chat_id
    /\ Go(x, "persist")
    /\ UNCHANGED <<clock, netVars, row, wrapped, discarded, cutoff, blocked, memVars, intakeVars,
                   historyVars, countVars>>

\* save_message: the chat row is made if it is missing, the receipt is now.
Persist(x) ==
    /\ pc[x] = "persist"
    /\ get_or_create_chat_id
    /\ save_event(job[x].r, clock, IF x \in Intake THEN {job[x].w} ELSE {})
    /\ Go(x, "read")
    /\ UNCHANGED <<clock, netVars, discarded, cutoff, blocked, memVars, intakeVars, excused, spared,
                   countVars>>

\* receive_message_edit: without a chat row the edit is dropped.
SaveEdit(x) ==
    /\ pc[x] = "saveEdit"
    /\ \/ chatRow /\ save_event(job[x].r, job[x].at, {job[x].w}) /\ Go(x, "read")
          /\ UNCHANGED timeouts
       \/ ~chatRow /\ Handled(x) /\ UNCHANGED <<row, wrapped, granted>>
    /\ UNCHANGED <<clock, netVars, chatRow, discarded, cutoff, blocked, memVars, cache, excused,
                   spared, countVars>>

\* After the edits are merged: a handler or an edit is done, a send goes on to its self-wrap.
Merged(x) ==
    IF x \in Commands /\ job[x].r \in Texts THEN Go(x, "selfWrap") /\ UNCHANGED timeouts ELSE Handled(x)

\* reconcile_message_edits: read the authorised edits of the text, then, under the STATE
\* lock, apply those it does not have.
ReconcileRead(x) ==
    LET edits == authorized_edits(TextOf(job[x].r), row) IN
    /\ pc[x] = "read"
    /\ \/ edits = {} /\ Merged(x)
       \/ edits # {} /\ GoWith(x, "apply", [job[x] EXCEPT !.edits = edits]) /\ UNCHANGED timeouts
    /\ UNCHANGED <<clock, netVars, dbVars, blocked, memVars, cache, historyVars, countVars>>

\* Mutant: only the edit at hand is applied.
Merge_One(t, r, edits) ==
    applied' = IF t \in shown THEN [applied EXCEPT ![t] = @ \cup (edits \cap {r})] ELSE applied
Merge(t, r, edits) ==
    applied' = IF t \in shown THEN [applied EXCEPT ![t] = @ \cup edits] ELSE applied

ReconcileApply(x) ==
    /\ pc[x] = "apply"
    /\ Merge(TextOf(job[x].r), job[x].r, job[x].edits)
    /\ Merged(x)
    /\ UNCHANGED <<clock, netVars, dbVars, blocked, chatMem, shown, sending, cache, historyVars,
                   countVars>>

\* A call of the database fails, and the code goes on: a lookup that fails counts as "not
\* there", an error of save_chat is dropped, a text that cannot be saved stays in STATE
\* without its row and its edits, an edit that cannot be saved is dropped, and one whose
\* check or whose reading fails is not applied.  A failed deletion ends there, its events
\* deleted or not, and is reported.  A failure with the outcome of a success is left out.
Excuse(x, how) == excused' = excused \cup {<<TextOf(job[x].r), how>>}
DbError(x) ==
    LET r == job[x].r IN
    /\ faults < MaxFaults /\ ops + faults < MaxOps /\ faults' = faults + 1
    /\ \/ /\ pc[x] = "exists" /\ row[r] > 0 /\ Go(x, "add")
          /\ UNCHANGED <<chatRow, row, wrapped, timeouts, excused, spared>>
       \/ /\ pc[x] = "saveChat" /\ ~chatRow /\ Go(x, "persist")
          /\ UNCHANGED <<chatRow, row, wrapped, timeouts, excused, spared>>
       \/ /\ pc[x] = "persist" /\ Merged(x) /\ chatRow' \in {chatRow, TRUE}
          /\ Excuse(x, IF row[r] = 0 THEN "unsaved" ELSE "unmerged")
          /\ UNCHANGED <<row, wrapped, spared>>
       \/ /\ (pc[x] = "saveEdit" /\ chatRow) \/ pc[x] = "editSave"
          /\ Handled(x)
          /\ UNCHANGED <<chatRow, row, wrapped, excused, spared>>
       \/ /\ pc[x] \in {"read", "editCheck"} /\ authorized_edits(TextOf(r), row) # {}
          /\ Merged(x) /\ Excuse(x, "unmerged")
          /\ UNCHANGED <<chatRow, row, wrapped, spared>>
       \/ /\ pc[x] = "deleteRows" /\ End(x) /\ spared' = Rumors
          /\ \/ UNCHANGED <<row, wrapped>>
             \/ row' = NoRows /\ wrapped' = {}
          /\ UNCHANGED <<chatRow, timeouts, excused>>
    /\ UNCHANGED <<clock, netVars, discarded, cutoff, blocked, memVars, cache, granted, ops>>

\* The deadline: the attempt is abandoned where it stands; the wrap that times out
\* TimeoutLimit times is discarded.
TimeOut(x) ==
    LET w == job[x].w
        n == timeouts[w] + 1 IN
    /\ x \in Intake /\ pc[x] # "idle" /\ faults < MaxFaults /\ ops + faults < MaxOps
    /\ faults' = faults + 1
    /\ timeouts' = [timeouts EXCEPT ![w] = n]
    /\ IF n >= TimeoutLimit THEN discard(w) ELSE UNCHANGED <<discarded, cache>>
    /\ End(x)
    /\ excused' = excused \cup {<<TextOf(w[1]), "abandoned">>}
    /\ UNCHANGED <<clock, netVars, chatRow, row, wrapped, cutoff, blocked, memVars, granted, spared,
                   ops>>

----------------------------------------------------------------------------
(* Commands of the user. *)

Begin(c) == c \in Commands /\ pc[c] = "idle" /\ ops + faults < MaxOps /\ ops' = ops + 1
\* A rumor written in the second of a deletion, or with it under way, is not the deletion's.
SpareNew(r) == spared' = IF clock <= cutoff THEN spared \cup {r} ELSE spared

\* message: the text is in STATE as pending while its wrap is published.
SendStart(c, t) ==
    /\ Begin(c) /\ t \in mine \cap Texts /\ signed[t] = 0
    /\ signed' = [signed EXCEPT ![t] = clock]
    /\ chatMem' = TRUE /\ sending' = sending \cup {t}
    /\ GoWith(c, "publish", [NoJob EXCEPT !.r = t, !.w = <<t, 1>>])
    /\ SpareNew(t)
    /\ UNCHANGED <<clock, mine, net, fresh, dbVars, blocked, shown, applied, intakeVars, granted, excused,
                   faults>>

\* A trusted relay acknowledged: the pending text takes its rumor id, if it is still there.
SendAck(c) ==
    LET t == job[c].r IN
    /\ pc[c] = "publish"
    /\ \/ t \in sending /\ shown' = shown \cup {t} /\ sending' = sending \ {t} /\ Go(c, "saveChat")
       \/ t \notin sending /\ UNCHANGED <<shown, sending>> /\ Go(c, "selfWrap")
    /\ UNCHANGED <<clock, netVars, dbVars, blocked, chatMem, applied, intakeVars, historyVars,
                   countVars>>

\* No attempt was acknowledged: mark_message_failed keeps the text under its pending id.
SendFail(c) ==
    /\ pc[c] = "publish"
    /\ chatRow' = (chatRow \/ job[c].r \in sending)
    /\ End(c)
    /\ UNCHANGED <<clock, netVars, row, wrapped, discarded, cutoff, blocked, memVars, intakeVars,
                   historyVars, countVars>>

\* The copy for the user's own devices, best effort: the last step of a send, a step of an edit.
SelfWrap(c, next) ==
    LET w == <<job[c].r, 1>> IN
    /\ \/ net' = net \cup {w} /\ fresh' = fresh \cup ({w} \ net)
       \/ UNCHANGED <<net, fresh>>
    /\ IF next = "idle" THEN End(c) ELSE Go(c, next)
    /\ UNCHANGED <<clock, mine, signed, dbVars, blocked, memVars, intakeVars, historyVars, countVars>>
SendWrap(c) == pc[c] = "selfWrap" /\ SelfWrap(c, "idle")

\* edit_message: the target is an own text in STATE; the receipt is taken before transport
\* and checked against the stored row of the text.
EditStart(c, e) ==
    LET t == Of[e] IN
    /\ Begin(c) /\ e \in mine /\ t \in mine \cap shown /\ signed[e] = 0
    /\ chatRow
    /\ clock \in signed[t] .. signed[t] + Window
    /\ edit_received_in_time(row[t], clock)
    /\ signed' = [signed EXCEPT ![e] = clock]
    /\ GoWith(c, "editPublish", [NoJob EXCEPT !.r = e, !.w = <<e, 1>>, !.at = clock])
    /\ SpareNew(e)
    /\ UNCHANGED <<clock, mine, net, fresh, dbVars, blocked, memVars, intakeVars, granted, excused, faults>>

EditPublish(c) ==
    /\ pc[c] = "editPublish"
    /\ \/ SelfWrap(c, "editSave")
       \/ /\ End(c)
          /\ UNCHANGED <<clock, netVars, dbVars, blocked, memVars, intakeVars, historyVars, countVars>>

EditSave(c) ==
    /\ pc[c] = "editSave"
    /\ save_event(job[c].r, job[c].at, {})
    /\ Go(c, "editCheck")
    /\ UNCHANGED <<clock, netVars, chatRow, discarded, cutoff, blocked, memVars, intakeVars, excused,
                   spared, countVars>>

\* saved_edit_is_authorized decides from the rows; an edit it refuses is not applied.
EditCheck(c) ==
    LET e == job[c].r IN
    /\ pc[c] = "editCheck"
    /\ \/ e \in authorized_edits(Of[e], row) /\ GoWith(c, "apply", [job[c] EXCEPT !.edits = {e}])
       \/ e \notin authorized_edits(Of[e], row) /\ End(c)
    /\ UNCHANGED <<clock, netVars, dbVars, blocked, memVars, intakeVars, historyVars, countVars>>

\* get_message_views: a page of texts with their authorised edits is read, then the texts
\* that STATE misses are added as read.
LoadStart(c) ==
    /\ Begin(c) /\ chatRow
    /\ \E page \in SUBSET {t \in Texts : row[t] > 0} :
        /\ page # {}
        /\ GoWith(c, "loadAdd", [NoJob EXCEPT !.view = page,
                                              !.edits = UNION {authorized_edits(t, row) : t \in page}])
    /\ UNCHANGED <<clock, netVars, dbVars, blocked, memVars, intakeVars, historyVars, faults>>

LoadAdd(c) ==
    LET page == IF chatMem THEN job[c].view \ shown ELSE {} IN
    /\ pc[c] = "loadAdd"
    /\ shown' = shown \cup page
    /\ applied' = [t \in Texts |-> IF t \in page THEN job[c].edits \cap EditsOf(t) ELSE applied[t]]
    /\ excused' = excused \cup {<<t, "overtaken">> :
                      t \in {u \in page : authorized_edits(u, row) # job[c].edits \cap EditsOf(u)}}
    /\ End(c)
    /\ UNCHANGED <<clock, netVars, dbVars, blocked, chatMem, sending, intakeVars, granted, spared,
                   countVars>>

\* evict_chat_messages keeps the newest messages of the chat.
Evict ==
    /\ ops + faults < MaxOps /\ ops' = ops + 1
    /\ \E old \in SUBSET (shown \cup sending) :
        /\ old # {} /\ \A t \in old, u \in (shown \cup sending) \ old : signed[t] <= signed[u]
        /\ shown' = shown \ old /\ sending' = sending \ old
        /\ applied' = [t \in Texts |-> IF t \in old THEN {} ELSE applied[t]]
    /\ UNCHANGED <<clock, netVars, dbVars, blocked, chatMem, intakeVars, workVars, historyVars, faults>>

Block ==
    /\ ops + faults < MaxOps /\ ops' = ops + 1
    /\ blocked' = ~blocked
    /\ UNCHANGED <<clock, netVars, dbVars, memVars, intakeVars, workVars, historyVars, faults>>

\* delete_dm_chat: the cutoff, the rows, and the chat in STATE, in that order.  What a worker
\* is past that check with, or is sending, is not covered by the cutoff.
HasRumor(x) == pc[x] \notin {"idle", "loadAdd", "deleteRows", "deleteState"}
InFlight == {job[x].r : x \in {y \in Workers : HasRumor(y)}}
               \cup UNION {job[x].view \cup job[x].edits : x \in Workers}

DeleteStart(c) ==
    /\ Begin(c)
    /\ cutoff' = clock
    /\ spared' = InFlight
    /\ Go(c, "deleteRows")
    /\ UNCHANGED <<clock, netVars, chatRow, row, wrapped, discarded, blocked, memVars, intakeVars,
                   granted, excused, faults>>

DeleteRows(c) ==
    /\ pc[c] = "deleteRows"
    /\ chatRow' = FALSE /\ row' = NoRows /\ wrapped' = {}
    /\ spared' = spared \cup InFlight
    /\ Go(c, "deleteState")
    /\ UNCHANGED <<clock, netVars, discarded, cutoff, blocked, memVars, intakeVars, granted, excused,
                   countVars>>

\* Mutant: only what is pending is dropped.
drop_dm_chat_from_state_Pending == sending' = {} /\ UNCHANGED <<chatMem, shown, applied>>
drop_dm_chat_from_state ==
    chatMem' = FALSE /\ shown' = {} /\ applied' = [t \in Texts |-> {}] /\ sending' = {}

DeleteState(c) ==
    /\ pc[c] = "deleteState"
    /\ drop_dm_chat_from_state
    /\ End(c)
    /\ UNCHANGED <<clock, netVars, dbVars, blocked, intakeVars, historyVars, countVars>>

\* The process ends and starts again: STATE holds the chat with its newest message (which may
\* be a failed one), and the cache the recent wraps of the rows, if it is loaded.
Restart ==
    LET stored == {t \in Texts : row[t] > 0}
        last == {t \in stored : \A u \in stored : signed[u] <= signed[t]} IN
    /\ faults < MaxFaults /\ ops + faults < MaxOps /\ faults' = faults + 1
    /\ chatMem' = chatRow /\ sending' = {}
    /\ \E new \in SUBSET last :
        /\ Cardinality(new) <= 1
        /\ shown' = new
        /\ applied' = [t \in Texts |-> IF t \in new THEN authorized_edits(t, row) ELSE {}]
    /\ cache' \in SUBSET wrapped /\ timeouts' = [w \in Wraps |-> 0]
    /\ pc' = [x \in Workers |-> "idle"] /\ job' = [x \in Workers |-> NoJob]
    /\ excused' = {}
    /\ spared' = IF \E c \in Commands : pc[c] = "deleteRows"
                 THEN {r \in Rumors : row[r] > 0} ELSE spared
    /\ UNCHANGED <<clock, netVars, dbVars, blocked, granted, ops>>

----------------------------------------------------------------------------
Handle(x) ==
    \/ Exists(x) \/ Heal(x) \/ Add(x) \/ SaveChat(x) \/ Persist(x) \/ SaveEdit(x)
    \/ ReconcileRead(x) \/ ReconcileApply(x) \/ DbError(x)
    \/ SendAck(x) \/ SendFail(x) \/ SendWrap(x)
    \/ EditPublish(x) \/ EditSave(x) \/ EditCheck(x)
    \/ LoadAdd(x) \/ DeleteRows(x) \/ DeleteState(x)

Next ==
    \/ Tick \/ Evict \/ Block \/ Restart
    \/ \E r \in Rumors, k \in 1..Copies : Publish(r, k)
    \/ \E x \in Intake : TimeOut(x) \/ \E w \in Wraps : Deliver(x, w)
    \/ \E x \in Workers : Handle(x)
    \/ \E c \in Commands :
        \/ LoadStart(c) \/ DeleteStart(c)
        \/ \E t \in Texts : SendStart(c, t)
        \/ \E e \in Edits : EditStart(c, e)

Spec == Init /\ [][Next]_vars

----------------------------------------------------------------------------
(* Properties. *)

TypeOK ==
    /\ clock \in 1..MaxClock
    /\ mine \in Chats /\ signed \in [Rumors -> 0..MaxClock] /\ net \subseteq Wraps /\ fresh \subseteq net
    /\ chatRow \in BOOLEAN /\ row \in [Rumors -> 0..MaxClock]
    /\ wrapped \subseteq net /\ discarded \subseteq net /\ cutoff \in {None} \cup 1..MaxClock
    /\ blocked \in BOOLEAN
    /\ chatMem \in BOOLEAN /\ shown \subseteq Texts /\ sending \subseteq Texts
    /\ applied \in [Texts -> SUBSET Edits]
    /\ ~chatMem => shown \cup sending = {}
    /\ cache \subseteq net /\ timeouts \in [Wraps -> 0..MaxFaults]
    /\ pc \in [Workers -> Pcs]
    /\ job \in [Workers -> [r : Rumors, w : Wraps, at : 0..MaxClock, view : SUBSET Texts,
                             edits : SUBSET Edits]]
    /\ granted \subseteq Edits /\ spared \subseteq Rumors
    /\ excused \subseteq Texts \X Excuses
    /\ ops \in 0..MaxOps /\ faults \in 0..MaxFaults
    /\ (\E t \in Texts : row[t] > 0) => chatRow

\* Nothing is under way that reads or changes the text t.
AtRest(t) ==
    \A x \in Workers :
        /\ pc[x] \notin {"deleteRows", "deleteState"} /\ t \notin job[x].view
        /\ HasRumor(x) => TextOf(job[x].r) # t
Spared(t) == spared \cap ({t} \cup EditsOf(t)) # {}

\* What a restart would show is what is shown: once nothing is at work on a stored text, the
\* edits applied to it in STATE are the ones the events table authorises, in whichever order
\* text, edits, sends and page loads came.  Excepted: a text whose handling the deadline cut
\* short or the database failed, a page read before an edit was stored and added after it
\* was reconciled, and what was under way when the chat was deleted.
MemoryFollowsStore ==
    \A t \in shown :
        \/ ~AtRest(t) \/ row[t] = 0 \/ Spared(t)
        \/ \E how \in Excuses \ {"unsaved"} : <<t, how>> \in excused
        \/ applied[t] = authorized_edits(t, row)

\* A text on the screen is in the events table once nothing is at work on it: two handlers
\* of the same text, one of which finds it in STATE and stops, do not lose it.  Excepted: a
\* text whose handling the deadline cut short or whose save failed, until the next start
\* forgets it and its wrap is handled again, and what a deletion spared.
ShownIsDurable ==
    \A t \in shown :
        \/ ~AtRest(t) \/ row[t] > 0
        \/ t \in spared \/ <<t, "abandoned">> \in excused \/ <<t, "unsaved">> \in excused

\* After delete_dm_chat no replay brings back a row at or before the cutoff, but for what was
\* past the cutoff check, or being sent, when the deletion ran.
Deleting == \E x \in Workers : pc[x] \in {"deleteRows", "deleteState"}
DeletedStaysDeleted ==
    ~Deleting => \A r \in Rumors : row[r] > 0 /\ signed[r] <= cutoff => r \in spared

\* The chat implements the promise about edits: receipts never move, what is on the screen
\* was authorised by the store, and stays on the screen.
Ledger == INSTANCE EditLedger WITH receipt <- row
KeepsLedger == Ledger!Spec

----------------------------------------------------------------------------
(* Claims of the code's comments that its interleavings do not keep. *)

\* delete_dm_chat: "relay replay cannot restore history at or before the delete time".
DeletedForGood ==
    ~Deleting => \A r \in Rumors : row[r] > 0 => signed[r] > cutoff

\* edit_message: "ACK latency does not change when this device first saw the edit".  An edit
\* whose receipt was in time before transport is authorised when it has been saved.
OwnEditSeenOnce ==
    \A c \in Commands :
        pc[c] = "editCheck" /\ cutoff = None => job[c].r \in authorized_edits(Of[job[c].r], row)

\* IntakeOutcome::TimedOut: "Retryable until the same wrapper times out" the third time.  A
\* text whose wrap was handled in full is in the events table.
RetriedIsDurable ==
    [][\A x \in Intake :
        (/\ pc[x] = "add" /\ pc'[x] = "idle" /\ faults' = faults /\ cutoff = None
         /\ <<job[x].r, "unsaved">> \notin excused)
            => \/ row[job[x].r] > 0
               \/ \E y \in Workers \ {x} : pc[y] # "idle" /\ job[y].r = job[x].r]_vars
=============================================================================
