--------------------------- MODULE EventReminders ---------------------------
(***************************************************************************)
(* Reminders of one squad event on one device: the unlock-scoped scan loop,*)
(* set_squad_event_reminder_prefs, which scans too, and the Catch up       *)
(* entries of the reminders that came due while the app was locked.  A     *)
(* scan reads the event, commits its fire rows in one transaction, reads   *)
(* the notification level of the squad's chat, and only then hands what is *)
(* due to the notifier.  SCAN_LOCK orders scans among themselves, not      *)
(* against the prefs command's own writes, the chat or the session's lock. *)
(***************************************************************************)
EXTENDS Integers, FiniteSets

CONSTANTS
    Starts,         \* times the event may be moved to
    Leads,          \* lead times the member may choose
    Grace,          \* START_GRACE_MS, one scan interval
    Loops,          \* scan loops, one per unlock
    None,
    MaxTime,        \* bound: the clock
    MaxChanges,     \* bound: changes of the event, its RSVP, its prefs and its chat, and crashes
    MaxUnlocks      \* bound: unlocks

ASSUME RemindersAssumption ==
    /\ Starts \subseteq Nat /\ Leads \subseteq Nat /\ Starts # {} /\ Leads # {}
    /\ Grace \in Nat /\ MaxTime \in Nat /\ MaxChanges \in Nat
    /\ MaxUnlocks \in Nat
    /\ None \notin Int \cup Loops \cup {"prefs"} /\ "prefs" \notin Loops

VARIABLES
    clock,
    event,      \* the replica's row and the member's prefs (see Sources)
    fires,      \* per fire time: its squad_event_reminders row, NoFire without one
    entry,      \* per fire time: its Catch up entry: "none", "open" or "resolved"
    session,    \* the registered loop and its unlock time, NoSession while locked
    scanLock,   \* holder of SCAN_LOCK
    chat,       \* where the squad's chat is, with its notification level: "state", "db"
    pc, job,    \* per worker: its next step and its locals
    shown,      \* history: reminders handed to the notifier, per start
    cut,        \* history: starts whose delivery a lock, a crash or an error cut off
    silent,     \* history: starts that were not delivered for want of a level
    rowless,    \* history: the chat has been without its row
    changes, unlocks

vars == <<clock, event, fires, entry, session, scanLock, chat, pc, job, shown, cut, silent, rowless,
          changes, unlocks>>
dbVars == <<fires, entry>>
historyVars == <<shown, cut, silent>>
chatVars == <<chat, rowless>>
countVars == <<changes, unlocks>>

Workers == Loops \cup {"prefs"}
FireTimes == {s - l : s \in Starts, l \in Leads}
\* here: the event is in squad_events; attending: active, in the group, and accepted.
Sources == [start : Starts, here : BOOLEAN, attending : BOOLEAN, lead : Leads, muted : BOOLEAN]
FireStates == {"none", "scheduled", "fired", "missed", "dropped"}
NoFire == [state |-> "none", start |-> 0]
NoSession == [loop |-> None, at |-> 0]
\* A worker's locals: the unlock it scans for, what it read, when, what is due, and whether
\* the chats table had the level.
NoJob == [at |-> 0, src |-> None, now |-> 0, due |-> {}, level |-> FALSE, stop |-> FALSE]

Init ==
    /\ clock = 0
    /\ event \in {e \in Sources : e.here /\ e.attending /\ ~e.muted}
    /\ fires = [f \in FireTimes |-> NoFire]
    /\ entry = [f \in FireTimes |-> "none"]
    /\ session = NoSession /\ scanLock = None
    /\ chat = {"db"} /\ rowless = FALSE
    /\ pc = [w \in Workers |-> "idle"] /\ job = [w \in Workers |-> NoJob]
    /\ shown = [s \in Starts |-> 0] /\ cut = {} /\ silent = {}
    /\ changes = 0 /\ unlocks = 0

----------------------------------------------------------------------------
(* Workers. *)

\* Mutant: the guard of SCAN_LOCK outlives the scan.
End_Held(w) ==
    /\ pc' = [pc EXCEPT ![w] = "idle"]
    /\ job' = [job EXCEPT ![w] = NoJob]
    /\ UNCHANGED scanLock
End(w) ==
    /\ pc' = [pc EXCEPT ![w] = "idle"]
    /\ job' = [job EXCEPT ![w] = NoJob]
    /\ scanLock' = IF scanLock = w THEN None ELSE scanLock

----------------------------------------------------------------------------
(* Time, the session, the event and the member's choices. *)

Tick ==
    /\ clock < MaxTime /\ clock' = clock + 1
    /\ UNCHANGED <<event, dbVars, session, scanLock, chatVars, pc, job, historyVars, countVars>>

\* start_reminder_scan; a loop that is still running from an earlier unlock has its own id.
Unlock(w) ==
    /\ session = NoSession /\ pc[w] = "idle" /\ unlocks < MaxUnlocks
    /\ session' = [loop |-> w, at |-> clock]
    /\ unlocks' = unlocks + 1
    /\ UNCHANGED <<clock, event, dbVars, scanLock, chatVars, pc, job, historyVars, changes>>

\* clear(): the loop is aborted, at once when it waits, else at its next await.
Lock ==
    LET w == session.loop IN
    /\ session # NoSession
    /\ session' = NoSession
    /\ \/ pc[w] # "commit" /\ End(w) /\ cut' = cut \cup job[w].due
       \/ pc[w] = "commit" /\ job' = [job EXCEPT ![w].stop = TRUE] /\ UNCHANGED <<pc, scanLock, cut>>
    /\ UNCHANGED <<clock, event, dbVars, chatVars, shown, silent, countVars>>

\* The replica applies an edit, a cancel, an eviction or an RSVP, or a content policy deletes
\* the event.
ChangeEvent ==
    /\ event.here /\ changes < MaxChanges /\ changes' = changes + 1
    /\ \/ \E s \in Starts \ {event.start} : event' = [event EXCEPT !.start = s]
       \/ event' = [event EXCEPT !.attending = ~@]
       \/ event' = [event EXCEPT !.here = FALSE]
    /\ UNCHANGED <<clock, dbVars, session, scanLock, chatVars, pc, job, historyVars, unlocks>>

\* The chat is loaded at login or created by a message, and saved; the group is left and its
\* chat removed, from STATE and then from the table.
ChangeChat ==
    /\ changes < MaxChanges /\ changes' = changes + 1
    /\ \/ "state" \notin chat /\ chat' = chat \cup {"state"}
       \/ chat = {"state"} /\ chat' = {"state", "db"}
       \/ "state" \in chat /\ chat' = chat \ {"state"}
       \/ chat = {"db"} /\ chat' = {}
    /\ rowless' = (rowless \/ "db" \notin chat')
    /\ UNCHANGED <<clock, event, dbVars, session, scanLock, pc, job, historyVars, unlocks>>

\* resolve_event_reminder_entries.
Resolved == [f \in FireTimes |-> IF entry[f] = "open" THEN "resolved" ELSE entry[f]]

\* set_squad_event_reminder_prefs: save, then, when muting, resolve; then scan if a loop is
\* registered.
ScanIfUnlocked ==
    \/ /\ session = NoSession
       /\ pc' = [pc EXCEPT !["prefs"] = "idle"] /\ UNCHANGED job
    \/ /\ session # NoSession
       /\ pc' = [pc EXCEPT !["prefs"] = "wait"]
       /\ job' = [job EXCEPT !["prefs"].at = session.at]

SetPrefs ==
    /\ pc["prefs"] = "idle" /\ changes < MaxChanges /\ changes' = changes + 1
    /\ \E l \in Leads, m \in BOOLEAN :
        /\ event' = [event EXCEPT !.lead = l, !.muted = m]
        /\ \/ m /\ pc' = [pc EXCEPT !["prefs"] = "resolve"] /\ UNCHANGED job
           \/ ~m /\ ScanIfUnlocked
    /\ UNCHANGED <<clock, dbVars, session, scanLock, chatVars, historyVars, unlocks>>

\* An error ends the command before its scan.
PrefsResolve ==
    /\ pc["prefs"] = "resolve"
    /\ \/ entry' = Resolved /\ ScanIfUnlocked
       \/ UNCHANGED entry /\ pc' = [pc EXCEPT !["prefs"] = "idle"] /\ UNCHANGED job
    /\ UNCHANGED <<clock, event, fires, session, scanLock, chatVars, historyVars, countVars>>

\* resolve_squad_event_reminder_catch_up.
ResolveCatchUp ==
    /\ \E f \in FireTimes : entry[f] = "open"
    /\ entry' = Resolved
    /\ UNCHANGED <<clock, event, fires, session, scanLock, chatVars, pc, job, historyVars, countVars>>

----------------------------------------------------------------------------
(* scan_and_deliver. *)

\* SCAN_LOCK is free: take it, read the clock and the event.
ScanStart(w) ==
    /\ \/ w \in Loops /\ session.loop = w /\ pc[w] = "idle"
       \/ w = "prefs" /\ pc[w] = "wait"
    /\ scanLock = None /\ scanLock' = w
    /\ pc' = [pc EXCEPT ![w] = "commit"]
    /\ job' = [job EXCEPT ![w] = [at |-> IF w \in Loops THEN session.at ELSE job[w].at,
                                  src |-> event, now |-> clock, due |-> {}, level |-> FALSE,
                                  stop |-> FALSE]]
    /\ UNCHANGED <<clock, event, dbVars, session, chatVars, historyVars, countVars>>

desired_fire(src) ==
    IF src.here /\ src.attending /\ ~src.muted THEN src.start - src.lead ELSE None

\* A missed row follows the event's start.
FollowStart(rows, start) ==
    [f \in FireTimes |-> IF rows[f].state = "missed" THEN [rows[f] EXCEPT !.start = start] ELSE rows[f]]

drop_scheduled(rows, keep) ==
    [f \in FireTimes |-> IF rows[f].state = "scheduled" /\ f # keep
                         THEN [rows[f] EXCEPT !.state = "dropped"] ELSE rows[f]]

\* Mutant: no look at the other fires of the same start.
fired_for_start_Fire(rows, start) == FALSE
fired_for_start(rows, start) == \E f \in FireTimes : rows[f] = [state |-> "fired", start |-> start]

\* What becomes of the desired fire: "none" when the row is left as it is.
next_state(rows, fire, start, now, unlockedAt) ==
    LET prior == rows[fire].state IN
    CASE prior \in {"fired", "missed"} -> "none"
      [] prior \notin {"fired", "missed"} /\ fire > now -> "scheduled"
      [] prior = "scheduled" /\ fire <= now /\ fire < unlockedAt ->
            IF start > now THEN "missed" ELSE "dropped"
      [] OTHER -> IF fired_for_start(rows, start) THEN "none" ELSE "fired"

Kept(row, now) == row.start + Grace > now

\* Mutant: rows are deleted before the entries of started events are resolved.
started_Kept(row, now) == row.state = "missed" /\ row.start <= now /\ Kept(row, now)
started(row, now) == row.state = "missed" /\ row.start <= now

\* run_scan's transaction, and the level in the chats table.  An event that is gone by now
\* keeps no scheduled row.
ScanCommit(w) ==
    LET j == job[w]
        fire == desired_fire(j.src)
        rows == IF j.src.here THEN drop_scheduled(FollowStart(fires, j.src.start), fire) ELSE fires
        next == IF fire = None \/ j.src.start + Grace <= j.now THEN "none"
                ELSE next_state(rows, fire, j.src.start, j.now, j.at)
        upserted == IF next = "none" THEN rows
                    ELSE [rows EXCEPT ![fire] = [state |-> next, start |-> j.src.start]]
        written == IF event.here THEN upserted ELSE drop_scheduled(upserted, None)
        listed == IF next = "missed" /\ entry[fire] = "none"
                  THEN [entry EXCEPT ![fire] = "open"] ELSE entry IN
    /\ pc[w] = "commit"
    /\ fires' = [f \in FireTimes |-> IF Kept(written[f], j.now) THEN written[f] ELSE NoFire]
    /\ entry' = [f \in FireTimes |-> IF started(written[f], j.now) /\ listed[f] = "open"
                                     THEN "resolved" ELSE listed[f]]
    /\ pc' = [pc EXCEPT ![w] = "deliver"]
    /\ job' = [job EXCEPT ![w] = [NoJob EXCEPT !.due = IF next = "fired" THEN {j.src.start} ELSE {},
                                               !.level = next = "fired" /\ "db" \in chat, !.stop = j.stop]]
    /\ UNCHANGED <<clock, event, session, scanLock, chatVars, historyVars, countVars>>

\* No connection, or an error before the commit: nothing is written.
ScanFail(w) ==
    /\ pc[w] = "commit" /\ End(w)
    /\ UNCHANGED <<clock, event, dbVars, session, chatVars, historyVars, countVars>>

\* Mutant: a chat that STATE has not loaded yet has no level.
level_known_State(w) == "state" \in chat
\* The chat in STATE, else the row that was read.
level_known(w) == "state" \in chat \/ job[w].level

\* deliver: what is due goes to the notifier, which obeys the level; without one it is skipped.
\* A loop aborted meanwhile may still get through.
Deliver(w) ==
    /\ pc[w] = "deliver"
    /\ \/ /\ level_known(w) /\ UNCHANGED silent
          /\ shown' = [s \in Starts |-> IF s \in job[w].due THEN shown[s] + 1 ELSE shown[s]]
       \/ /\ ~level_known(w) /\ UNCHANGED shown
          /\ silent' = silent \cup job[w].due
    /\ End(w)
    /\ UNCHANGED <<clock, event, dbVars, session, chatVars, cut, countVars>>

\* The level could not be read: the scan is over, committed and not delivered.
LevelUnread(w) ==
    /\ pc[w] = "deliver" /\ job[w].due # {}
    /\ cut' = cut \cup job[w].due
    /\ End(w)
    /\ UNCHANGED <<clock, event, dbVars, session, chatVars, shown, silent, countVars>>

Aborted(w) ==
    /\ pc[w] = "deliver" /\ job[w].stop
    /\ cut' = cut \cup job[w].due
    /\ End(w)
    /\ UNCHANGED <<clock, event, dbVars, session, chatVars, shown, silent, countVars>>

Crash ==
    /\ changes < MaxChanges /\ changes' = changes + 1
    /\ session' = NoSession /\ scanLock' = None
    /\ pc' = [w \in Workers |-> "idle"] /\ job' = [w \in Workers |-> NoJob]
    /\ cut' = cut \cup UNION {job[w].due : w \in Workers}
    /\ chat' = chat \ {"state"}
    /\ UNCHANGED <<clock, event, dbVars, shown, silent, rowless, unlocks>>

Scan(w) == ScanStart(w) \/ ScanCommit(w) \/ ScanFail(w) \/ Deliver(w) \/ LevelUnread(w)

Next ==
    \/ Tick \/ Lock \/ ChangeEvent \/ ChangeChat \/ SetPrefs \/ PrefsResolve \/ ResolveCatchUp
    \/ Crash
    \/ \E w \in Loops : Unlock(w)
    \/ \E w \in Workers : Scan(w) \/ Aborted(w)

Spec == Init /\ [][Next]_vars

----------------------------------------------------------------------------
(* Properties. *)

TypeOK ==
    /\ clock \in 0..MaxTime /\ event \in Sources
    /\ fires \in [FireTimes -> [state : FireStates, start : Starts \cup {0}]]
    /\ entry \in [FireTimes -> {"none", "open", "resolved"}]
    /\ session \in [loop : Loops \cup {None}, at : 0..MaxTime]
    /\ scanLock \in Workers \cup {None}
    /\ pc \in [Workers -> {"idle", "resolve", "wait", "commit", "deliver"}]
    /\ job \in [Workers -> [at : 0..MaxTime, src : Sources \cup {None}, now : 0..MaxTime, due : SUBSET Starts,
                            level : BOOLEAN, stop : BOOLEAN]]
    /\ chat \subseteq {"state", "db"} /\ rowless \in BOOLEAN
    /\ shown \in [Starts -> Nat] /\ cut \subseteq Starts /\ silent \subseteq Starts
    /\ \A w \in Workers : pc[w] \in {"commit", "deliver"} <=> scanLock = w

\* One reminder per start of the event, however often its start, its lead or the session
\* changes: the loop and the prefs command never both show it.
OneReminderPerStart == \A s \in Starts : shown[s] <= 1

\* A fire marked "fired" has been handed to the notifier, or is about to be.  Four things come
\* between the commit and the delivery, and then it never is: a lock, a crash, an error reading
\* the chat's level, and a chat without a level.  The last needs a chat that has been without
\* its row: that STATE has not loaded it yet, or just dropped it, does not silence a reminder.
FiredIsShown ==
    /\ \A f \in FireTimes : fires[f].state = "fired" =>
        LET s == fires[f].start IN
        shown[s] = 1 \/ s \in cut \cup silent \/ \E w \in Workers : s \in job[w].due
    /\ silent # {} => rowless

\* An open Catch up entry still has its missed row: without it no scan would resolve the
\* entry once the event has started.
OpenEntryHasRow == \A f \in FireTimes : entry[f] = "open" => fires[f].state = "missed"

----------------------------------------------------------------------------
\* "Muting also resolves this event's missed reminders."  Once no scan is under way, a muted
\* event has no open entry.
MutedIsResolved ==
    event.muted /\ (\A w \in Workers : pc[w] = "idle") => \A f \in FireTimes : entry[f] # "open"
=============================================================================
