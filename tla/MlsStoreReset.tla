---------------------------- MODULE MlsStoreReset ----------------------------
(***************************************************************************)
(* The one-time reset of a legacy MLS store, from                          *)
(* src-tauri/src/mls_store_reset.rs and mls_store_reset_state.rs, and the  *)
(* callers that open the store: MlsService::new_persistent (mls.rs) and    *)
(* regenerate_device_keypackage (cmds/mls_groups.rs).                      *)
(*                                                                         *)
(* Every open first creates the directory, then takes the account's lock   *)
(* and runs harvest -> commit -> move -> mark, once; outside the lock it   *)
(* passes the KeyPackage gate and opens MDK.  A crash or an I/O error may  *)
(* come between any two of these.  One account is modelled.                *)
(***************************************************************************)
EXTENDS Integers

CONSTANTS
    Workers,      \* tasks that open the store
    Groups,       \* groups of mls_groups that are not evicted
    Wrappers,     \* pending welcomes of the legacy store
    Retention,    \* ARCHIVE_RETENTION_SECS
    MaxNow,       \* bound: last value of the clock
    MaxFailures,  \* bound: I/O and relay errors
    MaxCrashes,   \* bound: times the app is killed
    NoOne         \* the lock is free, or no group

ASSUME LimitAssumption ==
    /\ Retention \in Nat /\ MaxNow \in Nat
    /\ MaxFailures \in Nat /\ MaxCrashes \in Nat
ASSUME NoOneAssumption == NoOne \notin Workers /\ NoOne \notin Groups

VARIABLES
    now,
    dir,        \* the mls directory exists
    store,      \* what classify_store would say of the file in it
    archives,   \* mls.archive.* directories
    marker,     \* setting mls_store_reset_v1 = complete
    lost,       \* setting mls_store_reset_lost_groups
    queued,     \* setting mls_store_reset_pending_wrappers
    refresh,    \* setting mls_store_keypackage_refresh_required
    resetAt,    \* setting mls_store_reset_at
    admins,     \* groups with rows in mls_legacy_admins
    cached,     \* mls_keypackage_index names KeyPackages the relays still hold
    holder,     \* who holds the account's lock
    pc, call, at, force, seen, group, ids,   \* of each worker
    initial,    \* history: the store the app found
    published,  \* history: a KeyPackage of the current store was published
    restored,   \* history: groups joined again
    handled,    \* history: welcomes processed (wrapper_event_exists)
    failures, crashes

disk == <<dir, store, archives>>
settings == <<lost, queued, refresh, resetAt, admins>>
locals == <<call, at, force, seen, group, ids>>
history == <<initial, published, restored, handled>>
bounds == <<now, failures, crashes>>
vars == <<disk, marker, settings, cached, holder, pc, locals, history, bounds>>

Kinds == {"none", "current", "legacy", "unreadable", "unsupported"}
\* classify_store takes a file it cannot read for a legacy one.
LegacyKinds == {"legacy", "unreadable"}
Archive == [at : 0..MaxNow, holds : Kinds]
Calls == {"use", "login", "rotate"}

\* Where a worker holds the account's lock.
Locked == {"check", "move", "remake", "mark"}
Pcs == Locked \cup {"idle", "wait", "gate", "open", "engine", "restore", "force",
                    "publish", "refreshed", "replay", "retain"}

TypeOK ==
    /\ now \in 0..MaxNow
    /\ dir \in BOOLEAN /\ store \in Kinds /\ archives \subseteq Archive
    /\ marker \in BOOLEAN /\ refresh \in BOOLEAN /\ cached \in BOOLEAN
    /\ lost \subseteq Groups /\ admins \subseteq Groups /\ queued \subseteq Wrappers
    /\ resetAt \in 0..MaxNow
    /\ holder \in Workers \cup {NoOne}
    /\ pc \in [Workers -> Pcs] /\ call \in [Workers -> Calls]
    /\ at \in [Workers -> 0..MaxNow] /\ force \in [Workers -> BOOLEAN]
    /\ seen \in [Workers -> SUBSET Groups]
    /\ group \in [Workers -> Groups \cup {NoOne}]
    /\ ids \in [Workers -> SUBSET Wrappers]
    /\ initial \in Kinds /\ published \in BOOLEAN
    /\ restored \subseteq Groups /\ handled \subseteq Wrappers
    /\ failures \in 0..MaxFailures /\ crashes \in 0..MaxCrashes

Init ==
    /\ now = 0
    /\ store \in Kinds /\ dir = (store # "none") /\ archives = {}
    /\ marker = FALSE /\ refresh = FALSE /\ cached \in BOOLEAN
    /\ lost = {} /\ admins = {} /\ queued = {} /\ resetAt = 0
    /\ holder = NoOne
    /\ pc = [w \in Workers |-> "idle"] /\ call = [w \in Workers |-> "use"]
    /\ at = [w \in Workers |-> 0] /\ force = [w \in Workers |-> FALSE]
    /\ seen = [w \in Workers |-> {}] /\ group = [w \in Workers |-> NoOne]
    /\ ids = [w \in Workers |-> {}]
    /\ initial = store /\ published = FALSE
    /\ restored = {} /\ handled = {}
    /\ failures = 0 /\ crashes = 0

Go(w, next) == pc' = [pc EXCEPT ![w] = next]

\* Leaving ensure_store_ready, with a result or an error.
Release(w, next) == holder' = NoOne /\ Go(w, next)

-----------------------------------------------------------------------------
(* new_persistent_inner: directory, lock, reset.                           *)

\* get_mls_directory creates the directory, before the lock is taken.
Begin(w, kind) ==
    /\ pc[w] = "idle"
    /\ dir' = TRUE
    /\ call' = [call EXCEPT ![w] = kind]
    /\ Go(w, "wait")
    /\ UNCHANGED <<store, archives, marker, settings, cached, holder, at, force,
                   seen, group, ids, history, bounds>>

\* account_lock, then the time of this call.
Lock(w) ==
    /\ pc[w] = "wait" /\ holder = NoOne
    /\ holder' = w
    /\ at' = [at EXCEPT ![w] = now]
    /\ Go(w, "check")
    /\ UNCHANGED <<disk, marker, settings, cached, call, force, seen, group, ids,
                   history, bounds>>

\* Mutant: an archive of exactly the retention time is pruned.
PrunedEarly(S, t) == {a \in S : a.at > t - Retention}

\* prune_archives.
Pruned(S, t) == {a \in S : a.at >= t - Retention}

\* mls_dir_missing_with_stale_archive.
Stranded == ~dir /\ archives # {}

\* The marker is there: reconcile checksums, prune, go on.
FastPath(w) ==
    /\ pc[w] = "check" /\ marker
    /\ archives' = Pruned(archives, at[w])
    /\ Release(w, "gate")
    /\ UNCHANGED <<dir, store, marker, settings, cached, locals, history, bounds>>

Refuse(w) ==
    /\ pc[w] = "check" /\ ~marker
    /\ Stranded \/ store = "unsupported"
    /\ Release(w, "idle")
    /\ UNCHANGED <<disk, marker, settings, cached, locals, history, bounds>>

\* Mutant: a fresh store starts with no lost groups.
AdoptClearsLost(w) ==
    /\ pc[w] = "check" /\ ~marker
    /\ ~Stranded /\ store \in {"none", "current"}
    /\ marker' = TRUE
    /\ lost' = {}
    /\ archives' = Pruned(archives, at[w])
    /\ Release(w, "gate")
    /\ UNCHANGED <<dir, store, queued, refresh, resetAt, admins, cached, locals,
                   history, bounds>>

\* A fresh or current store only gets the marker.
Adopt(w) ==
    /\ pc[w] = "check" /\ ~marker
    /\ ~Stranded /\ store \in {"none", "current"}
    /\ marker' = TRUE
    /\ archives' = Pruned(archives, at[w])
    /\ Release(w, "gate")
    /\ UNCHANGED <<dir, store, settings, cached, locals, history, bounds>>

\* The harvest, by SQL: a file that is not a readable database yields nothing.
HarvestedAdmins(s) == IF s = "legacy" THEN Groups ELSE {}
HarvestedWelcomes(s) == IF s = "legacy" THEN Wrappers ELSE {}

\* Mutant: the reset is marked in the transaction, before the move.
CommitMarks(w) ==
    /\ pc[w] = "check" /\ ~marker
    /\ ~Stranded /\ store \in LegacyKinds
    /\ admins' = admins \cup HarvestedAdmins(store)
    /\ lost' = Groups
    /\ queued' = HarvestedWelcomes(store)
    /\ refresh' = TRUE /\ resetAt' = at[w]
    /\ marker' = TRUE
    /\ Go(w, "move")
    /\ UNCHANGED <<disk, cached, holder, locals, history, bounds>>

\* Mutant: the KeyPackage is not asked for again.
CommitNoRefresh(w) ==
    /\ pc[w] = "check" /\ ~marker
    /\ ~Stranded /\ store \in LegacyKinds
    /\ admins' = admins \cup HarvestedAdmins(store)
    /\ lost' = Groups
    /\ queued' = HarvestedWelcomes(store)
    /\ resetAt' = at[w]
    /\ Go(w, "move")
    /\ UNCHANGED <<disk, marker, refresh, cached, holder, locals, history, bounds>>

\* Harvest, then the transaction.  The admin rows are unique, so a retry adds none.
Commit(w) ==
    /\ pc[w] = "check" /\ ~marker
    /\ ~Stranded /\ store \in LegacyKinds
    /\ admins' = admins \cup HarvestedAdmins(store)
    /\ lost' = Groups
    /\ queued' = HarvestedWelcomes(store)
    /\ refresh' = TRUE /\ resetAt' = at[w]
    /\ Go(w, "move")
    /\ UNCHANGED <<disk, marker, cached, holder, locals, history, bounds>>

\* archive_store_directory: rename, then recreate.
Move(w) ==
    /\ pc[w] = "move"
    /\ archives' = archives \cup {[at |-> at[w], holds |-> store]}
    /\ store' = "none" /\ dir' = FALSE
    /\ Go(w, "remake")
    /\ UNCHANGED <<marker, settings, cached, holder, locals, history, bounds>>

Remake(w) ==
    /\ pc[w] = "remake"
    /\ dir' = TRUE
    /\ Go(w, "mark")
    /\ UNCHANGED <<store, archives, marker, settings, cached, holder, locals,
                   history, bounds>>

\* The directory cannot be recreated: the archive is renamed back, which can fail too.
RemakeFails(w) ==
    /\ pc[w] = "remake" /\ ~dir
    /\ failures < MaxFailures
    /\ failures' = failures + 1
    /\ \/ \E a \in archives :
             /\ a.at = at[w]
             /\ archives' = archives \ {a} /\ store' = a.holds /\ dir' = TRUE
       \/ UNCHANGED disk
    /\ Release(w, "idle")
    /\ UNCHANGED <<marker, settings, cached, locals, history, now, crashes>>

Mark(w) ==
    /\ pc[w] = "mark"
    /\ marker' = TRUE
    /\ archives' = Pruned(archives, at[w])
    /\ Release(w, "gate")
    /\ UNCHANGED <<dir, store, settings, cached, locals, history, bounds>>

\* Harvest, transaction, rename or marker fails: ensure_store_ready returns an error.
ResetFails(w) ==
    /\ pc[w] \in {"check", "move", "mark"}
    /\ failures < MaxFailures
    /\ failures' = failures + 1
    /\ Release(w, "idle")
    /\ UNCHANGED <<disk, marker, settings, cached, locals, history, now, crashes>>

-----------------------------------------------------------------------------
(* new_persistent_inner, outside the lock: the gate, then MDK.             *)

\* Ordinary callers are turned away until a fresh KeyPackage is published.
Gate(w) ==
    /\ pc[w] = "gate"
    /\ Go(w, IF refresh /\ call[w] = "use" THEN "idle" ELSE "open")
    /\ UNCHANGED <<disk, marker, settings, cached, holder, locals, history, bounds>>

\* MdkSqliteStorage::new_with_key creates the store if there is none.
OpenStore(w) ==
    /\ pc[w] = "open"
    /\ IF dir /\ store \in {"none", "current"}
       THEN /\ store' = "current"
            /\ Go(w, IF call[w] = "use" THEN "engine" ELSE "force")
       ELSE store' = store /\ Go(w, "idle")
    /\ UNCHANGED <<dir, archives, marker, settings, cached, holder, locals, history,
                   bounds>>

-----------------------------------------------------------------------------
(* What callers do with the engine.                                        *)

\* do_accept_mls_welcome joins the group again; mark_group_restored then reads ...
Accept(w, g) ==
    /\ pc[w] = "engine" /\ g \notin restored
    /\ restored' = restored \cup {g}
    /\ group' = [group EXCEPT ![w] = g]
    /\ seen' = [seen EXCEPT ![w] = lost]
    /\ Go(w, "restore")
    /\ UNCHANGED <<disk, marker, settings, cached, holder, call, at, force, ids,
                   initial, published, handled, bounds>>

\* ... and writes the list of lost groups.
MarkGroupRestored(w) ==
    /\ pc[w] = "restore"
    /\ lost' = seen[w] \ {group[w]}
    /\ Go(w, "idle")
    /\ UNCHANGED <<disk, marker, queued, refresh, resetAt, admins, cached, holder,
                   locals, history, bounds>>

Close(w) ==
    /\ pc[w] = "engine"
    /\ Go(w, "idle")
    /\ UNCHANGED <<disk, marker, settings, cached, holder, locals, history, bounds>>

\* regenerate_device_keypackage: a login (cache = true) whose cached KeyPackages are
\* still on the relays returns here, unless a refresh is required.
CacheHit(w) ==
    /\ pc[w] = "force"
    /\ call[w] = "login" /\ ~refresh /\ cached
    /\ Go(w, "idle")
    /\ UNCHANGED <<disk, marker, settings, cached, holder, locals, history, bounds>>

Rotate(w) ==
    /\ pc[w] = "force"
    /\ call[w] = "rotate" \/ refresh \/ ~cached
    /\ force' = [force EXCEPT ![w] = refresh]
    /\ Go(w, "publish")
    /\ UNCHANGED <<disk, marker, settings, cached, holder, call, at, seen, group, ids,
                   history, bounds>>

\* A KeyPackage of the store (opened again, past the marker) reaches a relay and is
\* recorded in the index.
Publish(w) ==
    /\ pc[w] = "publish"
    /\ published' = (published \/ store = "current")
    /\ cached' = TRUE
    /\ Go(w, "refreshed")
    /\ UNCHANGED <<disk, marker, settings, holder, locals, initial, restored, handled,
                   bounds>>

\* No relay takes it.
PublishFails(w) ==
    /\ pc[w] = "publish"
    /\ failures < MaxFailures
    /\ failures' = failures + 1
    /\ Go(w, "idle")
    /\ UNCHANGED <<disk, marker, settings, cached, holder, locals, history, now,
                   crashes>>

\* Mutant: the flag stays.
MarkRefreshedNever(w) ==
    /\ pc[w] = "refreshed"
    /\ ids' = [ids EXCEPT ![w] = queued]
    /\ Go(w, IF queued = {} THEN "idle" ELSE "replay")
    /\ UNCHANGED <<disk, marker, lost, queued, refresh, resetAt, admins, cached, holder,
                   call, at, force, seen, group, history, bounds>>

\* mark_keypackage_refreshed, then replay_reset_pending_welcomes reads the queue.
MarkRefreshed(w) ==
    /\ pc[w] = "refreshed"
    /\ refresh' = (refresh /\ ~force[w])
    /\ ids' = [ids EXCEPT ![w] = queued]
    /\ Go(w, IF queued = {} THEN "idle" ELSE "replay")
    /\ UNCHANGED <<disk, marker, lost, queued, resetAt, admins, cached, holder, call,
                   at, force, seen, group, history, bounds>>

\* The mark is not written, or the queue cannot be read: the call ends without a replay.
MarkFails(w) ==
    /\ pc[w] = "refreshed"
    /\ failures < MaxFailures /\ failures' = failures + 1
    /\ \/ UNCHANGED refresh
       \/ refresh' = (refresh /\ ~force[w])
    /\ Go(w, "idle")
    /\ UNCHANGED <<disk, marker, lost, queued, resetAt, admins, cached, holder, locals,
                   history, now, crashes>>

\* Every welcome is fetched and processed, or only those of S.
Replay(w, S) ==
    /\ pc[w] = "replay" /\ S \subseteq ids[w]
    /\ \/ S = ids[w] /\ failures' = failures
       \/ S # ids[w] /\ failures < MaxFailures /\ failures' = failures + 1
    /\ handled' = handled \cup S
    /\ ids' = [ids EXCEPT ![w] = @ \ S]
    /\ Go(w, "retain")
    /\ UNCHANGED <<disk, marker, settings, cached, holder, call, at, force, seen,
                   group, initial, published, restored, now, crashes>>

\* Mutant: the queue is cleared whatever is left of it.
RetainNothing(w) ==
    /\ pc[w] = "retain"
    /\ queued' = {}
    /\ Go(w, "idle")
    /\ UNCHANGED <<disk, marker, lost, refresh, resetAt, admins, cached, holder,
                   locals, history, bounds>>

\* retain_pending_wrapper_ids.
Retain(w) ==
    /\ pc[w] = "retain"
    /\ queued' = ids[w]
    /\ Go(w, "idle")
    /\ UNCHANGED <<disk, marker, lost, refresh, resetAt, admins, cached, holder,
                   locals, history, bounds>>

-----------------------------------------------------------------------------
(* Environment.                                                            *)

\* The relays drop the published KeyPackages.
LoseCache ==
    /\ cached /\ failures < MaxFailures
    /\ cached' = FALSE
    /\ failures' = failures + 1
    /\ UNCHANGED <<disk, marker, settings, holder, pc, locals, history, now, crashes>>

Crash ==
    /\ crashes < MaxCrashes
    /\ \E w \in Workers : pc[w] # "idle"
    /\ crashes' = crashes + 1
    /\ pc' = [w \in Workers |-> "idle"]
    /\ holder' = NoOne
    /\ UNCHANGED <<disk, marker, settings, cached, locals, history, now, failures>>

Tick ==
    /\ now < MaxNow
    /\ now' = now + 1
    /\ UNCHANGED <<disk, marker, settings, cached, holder, pc, locals, history,
                   failures, crashes>>

ResetStep(w) ==
    \/ Lock(w) \/ FastPath(w) \/ Refuse(w) \/ Adopt(w) \/ Commit(w)
    \/ Move(w) \/ Remake(w) \/ RemakeFails(w) \/ Mark(w) \/ ResetFails(w)

EngineStep(w) ==
    \/ Gate(w) \/ OpenStore(w) \/ Close(w) \/ MarkGroupRestored(w)
    \/ CacheHit(w) \/ Rotate(w) \/ Publish(w) \/ PublishFails(w)
    \/ MarkRefreshed(w) \/ MarkFails(w) \/ Retain(w)
    \/ \E g \in Groups : Accept(w, g)
    \/ \E S \in SUBSET Wrappers : Replay(w, S)

Next ==
    \/ \E w \in Workers : \/ \E kind \in Calls : Begin(w, kind)
                          \/ ResetStep(w) \/ EngineStep(w)
    \/ LoseCache \/ Crash \/ Tick

Spec == Init /\ [][Next]_vars

\* A call that was started goes on, and the user logs in again and again.
Fairness ==
    \A w \in Workers : /\ WF_vars(ResetStep(w) \/ EngineStep(w))
                       /\ SF_vars(Begin(w, "login"))

FairSpec == Spec /\ Fairness

-----------------------------------------------------------------------------
(* Properties.                                                             *)

WasReset == initial \in LegacyKinds /\ marker

\* "Detection and archive happen before MDK 0.8.0 can open legacy bytes": whoever is
\* past the gate finds no legacy, unreadable or unsupported store, whatever another
\* worker, a crash or a failed archive did in between.
NeverOpensLegacy ==
    \A w \in Workers : pc[w] = "open" => store \in {"none", "current"}

\* Harvest before move: once the legacy bytes have left the directory, every group is
\* listed as lost until it is joined again and every group of a readable store has
\* its admins recorded; a restart never overwrites that with a later, empty harvest.
HarvestKept ==
    (initial = "legacy" /\ store # "legacy")
        => Groups \subseteq admins /\ Groups \subseteq lost \cup restored

\* Every welcome that was pending in the legacy store is queued until it has been
\* processed, across concurrent replays that write back what they read earlier.
WelcomesKept ==
    (initial = "legacy" /\ store # "legacy") => Wrappers \subseteq queued \cup handled

\* Only a legacy store is ever archived, never one that MDK has created since.
OnlyLegacyArchived == \A a \in archives : a.holds \in LegacyKinds

\* The legacy bytes stay on disk until the reset is marked and the archive is older
\* than the retention time.
LegacyBytesKept ==
    initial \in LegacyKinds =>
        \/ store = initial
        \/ \E a \in archives : a.holds = initial
        \/ marker /\ now > resetAt + Retention

\* After a reset nobody but the refresh itself uses the engine before a KeyPackage of
\* the new store has been published.
PausedUntilPublished ==
    \A w \in Workers :
        (WasReset /\ pc[w] \in {"engine", "restore"}) => published

\* Errors and crashes do not wedge the account: as long as the user logs in, the reset
\* is completed and the pause is lifted.
EventuallyReady == initial # "unsupported" ~> [](marker /\ ~refresh)

\* "must not silently reclassify the account as fresh": with an archive and no marker,
\* the next open does not adopt the directory as fresh.
RefusesStrandedArchive ==
    [][ \A w \in Workers :
          (pc[w] = "check" /\ ~marker /\ archives # {}) => ~marker' ]_vars

\* "Keep the durable wrapper-id queue for the next login": what a replay left is
\* replayed at a later login.
ReplayedAtLogin == queued # {} ~> queued = {}

\* "it should stop showing up in reset-state UI": at rest, a group that was joined
\* again is not listed as lost.
RestoredNotLost ==
    (\A w \in Workers : pc[w] = "idle") => restored \cap lost = {}
=============================================================================
