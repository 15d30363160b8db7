# TLA+ models of Pacto

Pacto is a desktop and mobile messenger for squads: a Tauri app whose Rust core
(`src-tauri/src`) talks Nostr and MLS to relays, keeps one SQLite database per
account, and serves a Svelte frontend (`src`). This directory holds models of the
parts of the core where several tasks, devices or restarts meet, the TLC runs
that check them, and proofs of their main invariants.

## 1. The system

### Components, their state and how they meet

| Component | State | Operations | Meets |
|---|---|---|---|
| Session lock, `session.rs` | one mutex: key, idle timer handle, reminder scan handle, timeout, last activity | unlock (PIN, biometric), heartbeat, set_session_timeout, logout, the timer task | every command that calls `heartbeat`; the frontend through `session_locked`; reminders |
| Squad events, `squad_event.rs` | per device: event row, RSVPs, queue of children that came before their create | send and ingest of create, update, cancel, RSVP; drain; purge | live subscription and group sync in parallel; admin list of the MLS group |
| MLS store reset, `mls_store_reset*.rs` | directory, archives, five settings, a lock per account | harvest, commit, move, mark; KeyPackage gate; replay of welcomes | every caller of `MlsService::new_persistent` |
| Notification coalescer, `notification/` | one window per chat, one task per window | emit, preempt, flush | all handlers that receive messages; window focus |
| Message sync, `cmds/chat.rs`, wake-sync.ts | one walk in `STATE`: mode, window, counters, claim, deferred slice, watermark | `fetch_messages` with its slices, wake, deep rescan, connect | the frontend drives the next slice; relay pool; both clocks |
| Direct messages, `message.rs`, `cmds/chat.rs`, `db/messaging.rs`, `lib.rs` | chats and messages in `STATE`, `events` table, wrapper ids, cutoff of a deletion | send, edit, intake of a gift wrap, page load, evict, block, delete | live subscription and sync in parallel; restart |
| MLS groups, `mls.rs`, `cmds/mls_groups.rs`, `db/mls.rs`, `cmds/relays.rs` | engine groups, `mls_groups` rows, chats, event cursors | create, accept, leave, eviction, sync, live wrapper | orphan reaper, reset, squad layer |
| Orphan reaper, `mls_orphan_reaper.rs` | last sweep | sweep | create and accept, through one lock |
| Event reminders, `squad_event_reminders.rs` | fires and their states | scan, deliver | session lock (owns the loop), squad events, Catch up |
| Accounts, `account_manager.rs` | current account, one pooled connection | get, return, switch | everything that touches the database |
| Governance writes, `evm/access_control` | a lock per signer | one- and two-signer writes | wallet, deployments |
| Join inbox, catalog, documents, polls, profiles, wallet, media | see `components` in PROJECT.json | | |

What makes these parts hard: Tauri commands and tokio tasks run in parallel and
give up a mutex between two related steps; SQLite statements of one logical
operation are mostly not in a transaction; relays deliver rumors in any order and
more than once; the app may be killed anywhere; timers race with the activity
that should reset them.

What makes each part correct:

* session: a locked session runs nothing; an unlocked one with auto-lock is
  guarded by exactly one timer; a lock reaches the UI;
* squad events: what a device stores depends on what it received, not on the
  order; a cancel is final; an edit needs a right to edit;
* reset: legacy bytes never reach the new engine, nothing harvested is lost, the
  account always gets through in the end;
* coalescer: a burst makes one banner with the right count; nothing is swallowed;
* groups and reaper: a joined group keeps its engine state and its row;
  a cursor never hides an event that was not processed;
* message sync: one slice at a time, no walk that nobody continues, no gap behind a
  catch-up, every walk ends;
* direct messages: what is on the screen is what the table says; an edit counts by
  when it was first received; what was deleted stays away;
* reminders: a reminder is delivered once, or recorded as missed;
* connections: a statement runs in the database of the account it was meant for.

`hazards` in PROJECT.json lists where in the code each of these could go wrong.

### Modules

| Module | Models | Proofs |
|---|---|---|
| `SessionLock` | session.rs; unlock and logout in `migration.rs`, `cmds/auth.rs`; `src/stores/auth.ts` | `SessionLockProofs` |
| `SquadEvent` | squad_event.rs, one event on several devices | `SquadEventProofs` |
| `MlsStoreReset` | mls_store_reset.rs, mls_store_reset_state.rs, open in mls.rs, KeyPackage refresh in cmds/mls_groups.rs | `MlsStoreResetProofs` |
| `NotificationCoalesce` | notification/{severity,emit,coalesce}.rs | `NotificationCoalesceProofs` |
| `MessageSync` | the walk of `fetch_messages` in cmds/chat.rs, its callers in cmds/auth.rs, cmds/relays.rs and wake-sync.ts | `MessageSyncProofs` |
| `MlsGroups` | create, accept, leave, sync, live wrapper and eviction in mls.rs, cmds/mls_groups.rs, cmds/relays.rs; db/mls.rs; mls_orphan_reaper.rs | `MlsGroupsProofs` |
| `DirectMessages` | one chat: intake, send, edit, load, evict, block, delete in message.rs, cmds/chat.rs, db/messaging.rs, lib.rs | `DirectMessagesProofs` |
| `EditLedger` | what the chat promises about edits; `DirectMessages` implements it | in `DirectMessagesProofs` |
| `EventReminders` | squad_event_reminders.rs, its Catch up entries, its loop in session.rs | `EventRemindersProofs` |

`MC*` modules extend these for TLC and define the symmetry sets. `map` in
PROJECT.json gives the source lines of each definition. Operators such as
`CommitMarks` or `OwnAny`, next to the definition they vary, are versions of the
code with a plausible bug; they show that the properties notice it and are used
nowhere else.

## 2. The models

### SessionLock

An action is one critical section of the `SessionManager` mutex or one step
outside it. Async commands (`Workers`) run on the tokio runtime; the plain
commands `session_heartbeat` and `set_session_timeout` run on the main thread,
where `Handle::try_current` fails: `SpawnTimerLocked(inRuntime)` keeps that
difference. The timer task takes the mutex twice (`CheckActivity`, then `Expire`
with `Clear`); `abort` only stops a task that sleeps. The scan loop is spawned
outside the mutex and registered later (`SpawnScanLoop`, `RegisterScan`). Task ids
are reused once free. `Clamped` and `LoadedTimeout` are the parsing of the stored
timeout: what is below a minute is raised, what is missing changes nothing.
`WrongPin` is a PIN unlock that fails: the key is installed before it is tried
(migration.rs:738, 750), so the command ends with an error and the session counts as
unlocked until it is cleared. Time is in minutes. Left out: mlock, the wording of events, `locked_at`.

### SquadEvent

Each device has a row, RSVPs and a queue, and `Handlers` that process a rumor
each: look up roles and read the row (`LoadRow`), write the fields (`Write`),
write the cancelled status in a second statement (`WriteStatus`), list the authors
of queued children, drain the queue. Nothing holds these together, as in the code.
A rumor is `[id, kind, by, stamp]`; the fields of the event are abstracted to the
id of the rumor that set them, and so is the content hash. `Stamp` keeps the
code's rule that a device stamps later than what it edits. `Purged` and `Trimmed`
are the queue's limits. `Crash` drops the handlers of one device and keeps its
database. Members of the model stay members, so the checks of membership in
`may_create` and `may_edit` always pass. Two pairs of statements are one step each:
`upsert_rsvp`'s SELECT and INSERT (squad_event.rs:938, 954), and the last write of a
drained op with its DELETE from the queue (1066, 1068), after which a crash would only
replay the op. The answers to RSVPs are checked with one handler per device, where the
first pair cannot be separated. `Reference` is the specification of convergence: the row that a set of
rumors stands for, whatever the order.

### MlsStoreReset

A worker is a task that opens the store. `Begin` creates the directory before
taking the lock, as `new_persistent_inner` does; under the lock it follows
`ensure_store_ready`: the fast path of the marker, refusal of a missing or
unsupported store, adoption of a fresh or current one, or `Commit` (harvest and
one transaction), `Move`, `Remake`, `Mark`. An I/O error or a crash may come at
any step; `RemakeFails` has the rollback and the case in which it fails too.
Outside the lock come the KeyPackage gate, the open of MDK, the refresh with its
replay of welcomes, and joining a lost group again; `MarkFails` is an error of the mark
or of reading the queue, which ends that call. Store contents are abstracted
to what `classify_store` distinguishes; legacy rows to the sets of groups and
welcomes, all of them well formed: the code leaves out a group whose JSON it cannot
parse and drops a queued id that is none (cmds/mls_groups.rs:364). MDK is external. `published`, `restored`, `handled` and `initial` are
history variables.

### NotificationCoalesce

`Emit` is the tier lookup and the first focus check; `Join`, `Open`, `Preempt`,
`Take` and `Skip` are what happens under the lock on `WINDOWS`; `Alert` and
`Flush` are the second focus check and the call to the OS after the lock was
released. A task is named by its window's generation. Calls of `emit` are numbered
in the order in which they are made; `stage` follows each through the coalescer,
`under` and `closedAt` are history. A banner that the OS refuses is logged and
skipped in the code and counts as shown here.

### MessageSync

A walk is a sequence of slices (`ForwardSync`, `BackwardSync`, `DeepRescan`,
`CatchUp`), each a time window. A call of `fetch_messages` claims one under `STATE`
(`FetchInit`, `ClaimSlice`, `FetchWake`, `DeepRescanStart`), asks the relays without
the lock (`Stream`, `StreamFails`), records the result (`RecordSlice`) and closes the
walk when it was the last (`CloseWalk`). A rescan claims its first window in two steps
(`DeepRescanStart`, `DeepRescanFetch`), as the command does. The frontend answers each
`sync_slice_finished` with the next call, and `connect` makes one of its own: `signals`
counts the calls still to come. The relay pool empties and fills (`EmptyPool`,
`Repopulate`); a slice claimed over an empty pool is deferred. `leaked` is history: a
call returned from its second look at the mode with its claim still set.
A wrap is on the relays from `created[w]` on, which need not be the time of its
publication: NIP-59 wrappers are backdated, so `Publish` may put one behind the
watermark. `now` is the wall clock, `mono` the monotonic one.

What the translation showed, beyond the properties: `found_then_empty` can never
hold, because a slice that found something resets the counter it needs (cmds/chat.rs:250);
the step from ForwardSync to BackwardSync jumps over the slice just below the oldest
message; the watermark is set to the time at which a slice is recorded while its
window ends at the time of the claim; and a stream that ends early counts as complete.
None of these breaks what the runs check. The `u8` count of all slices decides nothing
and is left out.

### MlsGroups

A group has an engine state, a row, a chat, a cursor and a log of wrappers on the
relays (a message, or a commit that removes this device). A task runs one operation;
its steps are the engine calls, the statements and the relay calls of the code, in
its order, and `lock` is `MLS_GROUPS_ENGINE_CREATE_LOCK`, held over the steps in
`Locked`. The cursor map is read whole by `SyncStart` and written whole by
`SyncCursor`, as the code does it; so are the rows that `cleanup_evicted_group`
writes back. `Process` is what MDK does with a wrapper, as this code uses it: it
opens a message once, may fail on any wrapper, and refuses what it cannot read. `Crash`
ends all tasks, drops what is in `STATE` and keeps engine and tables. `shown` is what
`STATE` holds, `stored` what the table holds. A fault (`Fault`) is an error that the code
logs or discards: of `process_rumor`, which drops the message (mls.rs:2950, relays.rs:647);
of a save of a message or chat, after which the message is in `STATE` only (mls.rs:2817,
2975, relays.rs:342); of `delete_chat`; of one of the statements that write the cursors;
and of the engine on a wrapper it could have opened, over which a sync goes on
(mls.rs:2613). `lost` and `refused` are history: the opened messages that were dropped or
deleted, and the wrappers the engine was offered and did not open.

`NoSilentLoss` says that the losses are the named ones: `process_rumor`, a noticed
eviction, a deleted chat, a crash before the save; and that without a fault whatever is
shown is in the table, or was deleted by a leave or a cleanup that had already emptied
`STATE`. `NoSkip` excepts what was refused, not what was never offered.

Simplifications: a sync takes the wrappers of its answer in the order of the log, a
relay answers in full up to its limit, and `created_at` never decreases along the
log; commits about other members are left out. The default backfill (48 h) and the
limit (1000) are constants. The saves of one batch are one step with any outcome: each
message by itself, the chat, and messages an earlier save missed. A crash between the
engine's accept and the row loses the membership (the engine group is an orphan, and
swept), and a sync that sees the removal leaves the cleanup to the live handler; so does
a live handler whose membership check fails. `GuardHeld` is proved and not in a standing
run; `TasksEnd` is stated and in none.

### DirectMessages and EditLedger

One chat, a few texts and edits, each of the user or of the peer (`mine`, chosen
initially). Two intake workers (`live`, `sync`) take gift wraps through the steps of
`handle_event`: dedup by wrapper id, the cutoff and block checks, the existence check,
memory, table, edits. Commands are `message`, `edit_message`, `get_message_views` and
`delete_dm_chat`, each cut where it releases `STATE` or awaits. A wrap is a rumor and a
copy number, so a relay may deliver the same rumor under two wrapper ids; `TimeOut` is
the intake deadline, which drops the future at any await and, after `TimeoutLimit`
times, quarantines the wrapper (a panic ends on the same path). `Restart` empties the
memory and keeps the tables. `row[r]` is the receipt time of the first row of `r`
(`INSERT OR IGNORE`), and an edit is authorised when it has the author of its text and
both its signed time and its receipt are within `Window` of the text's.

`DbError` is a call of the database that fails, where the code goes on: the lookup of a
text (which then counts as new), the save of a chat, a text or an edit, the reading or
the check of edits, a statement of the deletion. The error of a save is discarded after
the text has entered `STATE` (cmds/chat.rs:2766, message.rs:1995), so the text is shown
without a row until the next start. A failed deletion is reported to the user.

The exceptions of the properties are named history: `excused`, forgotten at the next
start, with "abandoned" (a deadline), "unsaved" (the save of a text failed), "unmerged"
(a call for its edits failed) and "overtaken" (a page read before an edit and added after
it), and `spared` (under way when the chat was deleted, or everything when the deletion
failed). `ShownIsDurable` admits "abandoned", "unsaved" and what was spared;
`MemoryFollowsStore`, about texts that have a row, all but "unsaved". An edit
whose chat has no row yet is dropped for now (message.rs:580-581). One chat id is
kept: in the code an own edit saved after a deletion leaves a row whose chat id
points nowhere (foreign keys are off, db/messaging.rs:139). Failed sends stay in
memory under their pending id. The chat row that `save_message` makes and the event row
are one step. After a restart the wrapper cache holds any part of the recorded wrappers:
the code loads it only with the integrity check, and 30 days of it, and asks the table
for the rest. Failing reads at start-up, reactions, typing, attachments and the clearing
of the wrapper cache at the end of a walk are left out.

`EditLedger` says what a user may rely on: a receipt never moves until the chat is
purged, an edit is displayed only if the ledger granted it, and stays as long as its
message does, until a restart. It knows no wraps, workers or commands. `KeepsLedger`
is the refinement, with `row` as the ledger's `receipt`.

### EventReminders

One event. A scan reads its sources (`ScanStart`), then reconciles, fires, misses and
drops in one transaction (`ScanCommit`), reads the chat's notification level, and delivers
(`Deliver`). An error before the commit ends the scan with nothing written (`ScanFail`);
one reading the level ends it with the fire committed and not delivered (`LevelUnread`).
`SCAN_LOCK` orders scans with their deliveries, but not the writes of the prefs command,
the chat or the session's lock. The loop belongs to the session: `Unlock` starts it,
`Lock` aborts it at its next await (`Aborted`). `SetPrefs` saves, resolves
(`PrefsResolve`) and runs a scan of its own.

The level is that of the chat in `STATE`, else of its row; `chat` says which of the two
there are, and `ChangeChat` loads, saves and removes it. Without a level a due reminder
is skipped (squad_event_reminders.rs:473): `silent` records it, `rowless` that the chat
has been without its row. `FiredIsShown` says that a fire is handed over, or cut off by a
lock, a crash or an error (`cut`), or silent; and that the last takes a chat that has
been without its row: one that is not loaded yet does not silence a reminder. `shown`
counts reminders handed to the emitter; the level itself may still silence them there.
A fire is keyed by its time, as in the table, so two leads may meet in one row. The clock
never goes back. Civil time and wording are left out.

## 3. The runs

| Run | Module, configuration | Checks |
|---|---|---|
| session | MCSessionLock, SessionLock.cfg | `LockedIsQuiet`, `NoStrayTask`, `LockOverrunsOnlyLateActivity`, `ArmedTimerResolves`, `AutoLockReachesUi`: a command, the main thread and two timer tasks |
| event_order | MCSquadEvent, SquadEventOrder.cfg | `RowIsReference`, `RsvpIsReference`, `QueuedUntilCreate` with one handler per device: any order, any repetition |
| event_races | MCSquadEvent, SquadEventRaces.cfg | `CancelIsSticky` with two handlers per device and a crash |
| event_roles | MCSquadEvent, SquadEventRoles.cfg | `EditsByRight` with a changing admin list, a queue of one and immediate expiry |
| reset_safety | MCMlsStoreReset, MlsStoreReset.cfg | `NeverOpensLegacy`, `HarvestKept`, `WelcomesKept`, `LegacyBytesKept`, `PausedUntilPublished` with two callers, two errors, one crash |
| reset_liveness | MCMlsStoreReset, MlsResetLiveness.cfg | `EventuallyReady` |
| notify | MCNotificationCoalesce, NotificationCoalesce.cfg | `BannerSpeaksForItsEvents`, `NoLingeringWindow`, `BurstsKeepTheirDistance`, `EveryInterruptSettles` |
| message_sync | MCMessageSync, MessageSync.cfg | `OneSlice`, `WalkHasOwner`, `CatchUpComplete`, `DeferredRetriedExactly`, `WalkEnds` with two calls, failing streams, an empty pool and a rescan |
| mls_groups | MCMlsGroups, MlsGroups.cfg | `RowHasEngine`, `NoSkip`, `NoSilentLoss` with two tasks, two groups, a new invitation, a fault or a crash |
| direct_messages | MCDirectMessages, DirectMessages.cfg | `MemoryFollowsStore`, `ShownIsDurable`, `DeletedStaysDeleted` and the refinement `KeepsLedger` with both intakes, two commands, or one and a deadline, a failed call or a restart |
| event_reminders | MCEventReminders, EventReminders.cfg | `OneReminderPerStart`, `FiredIsShown`, `OpenEntryHasRow` with moves, mutes, changes of the chat, errors, two unlocks and a crash |

Five of the runs also check the type invariant of their module. One standing
run, `session_rearm`, states what a comment says and finds that the code does
otherwise: a heartbeat from the frontend aborts the idle timer and starts none,
because it runs outside the tokio runtime. The quote is in `findings`.

### Further disagreements

These have their own configuration and are not part of the standing runs. TLC
refutes each of them.

| Property | Configuration | What happens |
|---|---|---|
| `PersistedTimeoutArmed` | SessionPersisted.cfg | biometric unlock arms the timer (cmds/auth.rs:506) before it loads the stored timeout (508); the PIN paths do it the other way round |
| `MissingSettingMeansDefault` | SessionMissing.cfg | `load_timeout_ms_from_conn` leaves the timeout alone when the setting is missing, so the next account inherits it |
| `LastWriteWins` | SquadEventLww.cfg | "last-updated_at_ms-wins" (squad_event.rs:4): two handlers read the same row and the older rumor is written last (763) |
| `ReplayIsStored` | SquadEventTorn.cfg | "Same write already stored" (squad_event.rs:706): a cancel stored by its first UPDATE only is later taken for a replay and deleted from the queue (914) |
| `QueuedUntilCreate` with two handlers | SquadEventOrphan.cfg | a child that read no row is queued after the create was inserted and drained, and stays there until the next op |
| `RefusesStrandedArchive` | MlsResetStranded.cfg | the directory is created before `mls_dir_missing_with_stale_archive` could see it missing |
| `ReplayedAtLogin` | MlsResetReplay.cfg | "for the next login" (cmds/mls_groups.rs:301): welcomes a relay did not return are not asked for again, since the cached KeyPackage ends the call first (155) |
| `RestoredNotLost` | MlsResetRestored.cfg | two groups restored at once: the second write of the list brings the first group back |
| `ClaimReleased` | MessageSyncClaim.cfg | "Every fetch_messages path that returns" (cmds/chat.rs:1830-1832) must release the claim: the return after the second look at the mode keeps it, and every later slice is refused until a login |
| `RescanCoversRecent` | MessageSyncRescan.cfg | "Start with a 2-day window from now" (cmds/auth.rs:582): the claim moves the window first, so the newest slice is not scanned |
| `OneSlice` with two logins | MessageSyncRelogin.cfg | "two slices still cannot run at the same time" (cmds/chat.rs:1849-1850): a second login resets the walk under a slice that still streams |
| `CatchUpComplete` with the clock set back | MessageSyncClock.cfg | the watermark is wall time: after the clock went back, a catch-up starts too late |
| `CursorGone` | MlsGroupsCursor.cfg | "Remove cursor for this group" (mls.rs:2985): cursors are only inserted or replaced (db/mls.rs:804), so the row stays |
| `EvictsOnlyRemoved` | MlsGroupsRejoin.cfg | "POSITIVELY CONFIRM removal" (cmds/relays.rs:661): the removal was confirmed, then a new welcome was accepted, then the row is marked evicted |
| `DeletedForGood` | DirectMessagesDeleted.cfg | "relay replay cannot restore history" (cmds/chat.rs:1713-1714): an intake past the cutoff check writes after the deletion |
| `OwnEditSeenOnce` | DirectMessagesOwnEdit.cfg | "ACK latency does not change when this device first saw the edit" (message.rs:4670-4671): the copy that comes back is received first, with a later time |
| `RetriedIsDurable` | DirectMessagesRetry.cfg | "Retryable" (lib.rs:652-653): the deadline falls between memory and table, and the retry finds the text in memory and stops |
| `MutedIsResolved` | EventRemindersMuted.cfg | "Muting also resolves" (squad_event_reminders.rs:552): a scan that read its sources before the mute records a missed reminder after it |

### Bounds, and why they are enough

* Two commands, callers or handlers: every race in this code is between one task
  that read and one that wrote in between. The session run has one async command
  beside the main thread, and the proof covers any number. Timer tasks: one
  registered and one that was aborted too late. Two devices: one sends, one receives.
* Clocks run to 1 or 2: enough for a timeout, a window or an age limit to pass and
  for one event on either side of it. In `SessionLock` no command starts after
  `MaxActivity`, so that every timer armed can still run out. In
  `NotificationCoalesce` the clock runs on while a task sleeps.
* `MaxOps` 3 or 4: create, two conflicting edits or an RSVP, a cancel. Two errors
  in the reset: a failed recreate and a failed rollback. One crash: recovery is
  idempotent, and after it the state is again one a start may find.
* `MaxPendingPerAuthor` 1 and `PendingTtl` 0 in `event_roles` put the queue at its
  limits; in `event_order` they are large enough never to drop anything, since
  `Reference` does not speak of dropped rumors.
* Three calls, two chats, windows of length 2: a window, a mention that drops it,
  and a second window opened while the first task still sleeps. `MaxWindows` is
  the number of calls, so it never stops one.
* `message_sync`: one wrap (a gap is a gap for one), two calls, so that one claims
  while the other works, three steps of the monotonic clock, one rescan, two calls owed
  by the frontend or `connect` at most (`MaxSignals`); the numbers of
  empty slices that end a phase are 1 or 2 instead of 3 to 15, the smallest that
  keep the phases apart.
* `mls_groups`: an existing group and one to create or join, two tasks of one operation each,
  two wrappers per log (a message and a removal, in both orders), one invitation, one
  live delivery, one fault or one crash (`MaxFaults` counts both; the proofs are for any value):
  2.7 million states. A sync that writes back another
  group's cursor over a third task's needs more operations, and is left to the proof.
  `Backfill` and `Limit` are out of reach, so that `NoSkip`
  speaks of the cursor and not of the documented horizon.
* `direct_messages`: one text and one edit, one copy of each wrap, `Window` 0, so that an edit
  one step later is too late; two commands, or one and one fault (a deadline, a failed call
  or a restart; `MaxOps` counts both): 920,000 states. `TimeoutLimit` 1 stands for 3:
  the first timeout quarantines; the retry is in DirectMessagesRetry.cfg.
* `event_reminders`: starts 2 and 3 and leads 1 and 2, whose fire times overlap, a clock
  to 4, two loops (one aborted late, one new): 1.5 million states.
  `MaxChanges` 2 counts the changes of event, RSVP, prefs and chat, and crashes, together. Errors need
  no bound: each ends its scan.
* Symmetry is used for interchangeable workers, handlers and ids, and only in runs
  without temporal properties other than action properties.

`CHECK_DEADLOCK FALSE`: all these systems may come to rest, at the bounds or when
nobody acts.

### Fairness

* `SessionLock`: weak fairness of the clock, of each timer task (tokio polls a task
  whose sleep is over) and of the webview handling an event. None of users.
* `MlsStoreReset`: weak fairness of a call that has begun; strong fairness of
  login, i.e. the user logs in again and again. The latter is an assumption about
  the user that both liveness properties need: nothing else starts a reset.
* `NotificationCoalesce`: weak fairness of a call that waits for the lock (the tokio
  mutex is fair and never held over an await), of the flush tasks and of the clock.
* `MessageSync`: weak fairness of each call's own steps (a call runs to its end; its
  stream has a deadline) and of the frontend answering `sync_slice_finished`. None of
  logins, wakes or rescans.

`MlsGroups`, `DirectMessages` and `EventReminders` are checked for safety only.

## 4. The proofs

TLAPS proves, for every value of the constants allowed by the named assumptions,
every safety property that a passing run checks:

| Module | Theorems |
|---|---|
| `SessionLockProofs` | `TypeCorrect`, `LockedQuiet`, `NoStray`, `LateActivityOnly` |
| `SquadEventProofs` | `TypeCorrect`, `CancelSticks`, `EditsOnlyByRight`; `LastWriteWinsAlone` (one handler); `NothingLeftQueued`, `RsvpFollowsRumors`, `RowFollowsRumors`, `ReplaysAreStored` (`Plain`) |
| `MlsStoreResetProofs` | `TypeCorrect`, `LegacyNeverOpened`, `HarvestSurvives`, `WelcomesSurvive`, `ArchivesAreLegacy`, `BytesSurvive`, `PauseHolds` |
| `NotificationCoalesceProofs` | `TypeCorrect`, `BannersAreExact`, `WindowsAreOwned`, `BurstsCollapse` |
| `MessageSyncProofs` | `TypeCorrect`, `WalksOwned`; `OneSliceAtATime`, `DeferredExact` (one login); `CatchUpLeavesNoGap` (one login, a clock that never goes back) |
| `MlsGroupsProofs` | `TypeCorrect`, `GuardSafe`, `RowsHaveEngine`, `NothingLostSilently`; `NothingSkipped` (within backfill and limit) |
| `DirectMessagesProofs` | `TypeCorrect`, `DeletionHolds`, `ShownDurable`, `MemoryFaithful`, `ImplementsLedger` |
| `EventRemindersProofs` | `TypeCorrect`, `OneReminder`, `FiredWasShown`, `OpenEntriesResolvable` |

Each rests on an inductive invariant, shown for `Init` and kept by every action. TLC
checked each invariant on the instance of its run before it was proved.

### The inductive invariants

* Session: `TimerInv` says that only the registered task sleeps and that it started
  at the last activity; a task past its check was right when it checked. `ScanInv`
  follows each scan loop from its spawn to its registration. Without these the
  properties are not inductive: `LockedIsQuiet` alone does not exclude a second
  sleeping task that survives the next `clear`.
* Reset: `LockInv` (who is inside), `PlaceInv` (where the store is at each step),
  `ArchiveInv` (where the legacy bytes are, and the stamp of the archive),
  `HarvestInv`, `WelcomeInv` and `RefreshInv` (what the transaction saved, also in
  the copies that workers hold outside the lock).
* Coalescer: `EventInv` and `TaskInv` tie stages to tasks, `NoLingeringWindow` ties
  windows to tasks, and `TimeInv` says that an open window was opened after every
  closed one of its chat. The count needs one fact about cardinalities
  (`CountOne`).
* Squad events, first part (`Inv`): rumors are numbered one by one (`Numbered`), a
  handler that applies has something to apply, and the row it read is an earlier state
  of the row that is there, with the same author (`Tasks`). The last is why an edit
  decided on a stale copy is still by right. `FirstIn` is the lemma about the queue's
  order: a nonempty set of rumors has exactly one first element, from the
  well-foundedness of the naturals.
* Squad events, second part (`PlainInv`): `Done(r)`, what was received and is not
  queued, is what the row reflects. `Newest` says that the row has the fields of the
  newest write of `Done(r)` and is cancelled exactly if `Done(r)` holds a cancel, with
  the op between its two UPDATEs counted in (`Half`); `Answers` says the same of
  RSVPs; `Queue` and `Stages` say what waits and what the handler knows at each point
  of `apply_op` and the drain; `Rights` says that nobody's rumor is refused. At rest
  `Done(r)` is everything that was received, and convergence follows.
* Message sync: `Owned` names who will take the next step of a running walk; `Solo`
  makes `slice_in_flight` a lock within a login; `Reached` says up to where a catch-up
  has brought in what was due, also while its slice is deferred.
* Groups: `GuardInv` (who holds `MLS_GROUPS_ENGINE_CREATE_LOCK`; the group it is about
  to write a row for is in the engine, and a sweep has missed no live row), `JobInv` (what a sync holds between opening and storing). For
  `NoSkip`: `LogInv` and `MemberInv` relate the log, the welcome and the engine's state;
  `CursorInv` says that the cursor, every copy of it in a task and the point a sync has
  reached are all safe, i.e. nothing of this membership before them was passed over.
* Chat: `Permitted` (what the table authorises was granted) and `Screen` give the
  refinement; `Cleared` follows each row back to the cutoff check of the handler that
  wrote it; `Durable` says who will still store a text that is shown; `ReadSet`,
  `Backed` and `Caught` say that every edit in a worker's hands or on the screen is
  authorised, and that every authorised edit is on the screen, in the hands of a worker
  that will apply it, or excused.
* Reminders: `Scans` and `LockHeld` (who holds `SCAN_LOCK`, and that its reading is
  not from the future), and `Settled`: a start that was shown, is due in a scan, was
  cut off or stayed silent keeps its row until it is past, so that no later scan fires it again.

### The refinement

`ImplementsLedger` proves `DirectMessages!Spec => EditLedger!Spec` with `row` as
`receipt`. Every step of the chat is shown to be of one of four kinds, and each kind to
be a step of the ledger or to leave its variables alone: a rumor is signed (`Sign`), a
row is stored by `INSERT OR IGNORE` (`Store`, or nothing where there is a row), the
screen changes (`Display`, also when a chat is evicted from memory; `Reopen` at a
restart), the rows of the chat are deleted (`Purge`). That what is displayed was authorised is `Screen` with `Permitted`.

### Hypotheses of single theorems

They are conditions under which the property is meant to hold; without them it fails,
and where a configuration shows how, it is named.

* `Plain` (SquadEvent): one handler per device, no crash, no change of role, no queued
  rumor expires, and all rumors but the create fit into one author's queue.
  SquadEventOrphan.cfg refutes `QueuedUntilCreate` and SquadEventLww.cfg
  `LastWriteWins` with two handlers; SquadEventTorn.cfg refutes `ReplayIsStored` with a
  crash. The row of a set of rumors says nothing of an editor who lost the right, or of
  rumors the queue dropped. `LastWriteWinsAlone` needs the one handler only, so the
  second handler is the whole cause of that disagreement.
* `MaxLogins <= 1` (MessageSync): MessageSyncRelogin.cfg is the second login.
  `ClockSteps \subseteq Nat`: MessageSyncClock.cfg is the clock that goes back.
* `Backfill >= MaxClock`, `Backfill >= 1`, `MaxLog <= Limit` (MlsGroups): a sync without
  a cursor looks back 48 h and a relay returns at most 1000 wrappers; what lies beyond
  is skipped by design.

### Assumptions

Bounds, times and limits are natural numbers, and limits that have to let one through
(a slice, a place in the queue, a copy of a wrap) are not zero; `None`, `NoOne`, `NoChat`, `NoWindow`, `NoTask`, `NoGroup` and
`NoRow` are none of the values they stand beside; sets of groups, tasks, wraps and
rumors are finite where they are counted; a chat has a text, an event a start and a
lead; the default timeout is a choice and not zero; and (SessionLock) the clock runs
long enough for each timer. TLC evaluates all of them in the runs.

### Only model-checked

* Liveness: `ArmedTimerResolves`, `AutoLockReachesUi`, `EventuallyReady`,
  `EveryInterruptSettles`, `WalkEnds`. Their proofs need fairness and ENABLED, which
  this prover does not handle.
* The violations: counterexamples come from TLC.

Shown by proof alone, and in no run: the type invariants of `SessionLock`,
`MlsStoreReset` and `NotificationCoalesce`, `ArchivesAreLegacy`, `GuardSafe`,
`LastWriteWinsAlone` and `ReplaysAreStored`.

## 5. Not modelled

See `components` in PROJECT.json for the parts and reasons: network and media I/O,
cryptography, the chain, rendering. Code outside this repository (MDK, nostr-sdk,
tokio, Tauri, SQLite) is modelled by how this code uses it. In particular the
models take one SQLite statement and one transaction as atomic.

The modules cover the parts where tasks, devices and restarts meet. Most of the
remaining lines are ABI and JSON encoding, validation of fields, listing and paging
queries, media, and code of the frontend, with no state of their own that
interleaves. Parts that do have such state and are not modelled yet: the pooled
database connection over an account switch, the signer locks of governance writes,
the replicas of catalog, documents and polls, the join inbox, the PIN migration, the
profile queue.

Known to be open, without a property: the connection that is tagged with the account
current at its return (account_manager.rs:533); two governance writes that hold one
signer lock each (evm/access_control/write_serialize.rs:37); two squad-event writes
with the same `updated_at_ms`, of which each replica keeps the first it saw
(squad_event.rs:888). For the order of timer and stored timeout at biometric unlock
(cmds/auth.rs:506) see the table of disagreements.

## 6. Plan

1. An abstract replicated-register specification that `SquadEvent` with one handler
   implements (`Newest` in `SquadEventProofs` is the mapping), and that the catalog,
   document and poll replicas can be compared with.
2. Weaker hypotheses: `RowIsReference` with role changes, for a `Reference` that knows
   which rumors were by right when they were applied; `OneSlice` over several logins
   for calls of the same login.
3. `DbConnection`: the pooled connection over an account switch, and
   `GovWriteLocks`: one or two signer locks in address order; deadlock freedom.
4. Join inbox and admission, PIN migration with restarts.
5. `MlsGroups` with welcomes between members, and its composition with `MlsStoreReset`.
