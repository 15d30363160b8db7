------------------------------ MODULE SessionLock ------------------------------
(***************************************************************************)
(* The unlocked session of src-tauri/src/session.rs: the encryption key,   *)
(* the idle auto-lock timer and the reminder scan loop, all fields of one  *)
(* InnerState behind one mutex, and the commands that drive them: PIN and  *)
(* biometric unlock, heartbeats, set_session_timeout and logout.           *)
(*                                                                         *)
(* One action is one critical section of the mutex (or one step outside    *)
(* it).  The timer task takes the mutex twice, once to look at             *)
(* last_activity and once in clear(), and aborting a task has an effect    *)
(* only at an await point: that is where the interesting interleavings are.*)
(*                                                                         *)
(* Time is counted in the minutes of set_session_timeout.                  *)
(***************************************************************************)
EXTENDS Integers

CONSTANTS
    Workers,          \* async Tauri commands: they run on the tokio runtime
    TaskIds,          \* ids for timer tasks; free ids are reused
    ScanIds,          \* ids for reminder scan loops; free ids are reused
    Timeouts,         \* the minutes a user may choose; 0 disables auto-lock
    DefaultTimeout,   \* DEFAULT_IDLE_TIMEOUT_MS
    None,             \* no timer, no scan, no stored setting
    MaxActivity,      \* bound: no command starts after this time
    MaxTime           \* bound: the clock stops here

MinTimeout == 1       \* DEFAULT_IDLE_TIMEOUT_MS.min(60_000)

ASSUME TimeoutAssumption ==
    /\ Timeouts \subseteq Nat
    /\ DefaultTimeout \in Timeouts
    /\ 0 \notin {DefaultTimeout, MinTimeout}
ASSUME BoundAssumption ==
    /\ MaxActivity \in Nat /\ MaxTime \in Nat
    /\ \A ms \in Timeouts : MaxActivity + ms <= MaxTime
ASSUME NoneAssumption == None \notin TaskIds \cup ScanIds \cup Nat

VARIABLES
    clock,         \* Instant::now()
    session,       \* InnerState.key: "unlocked" when Some
    lastActivity,  \* InnerState.last_activity
    timer,         \* InnerState.timer: the registered task, or None
    scan,          \* InnerState.reminder_scan: the registered loop, or None
    timeout,       \* InnerState.timeout_ms
    persisted,     \* settings row session_idle_timeout_ms of the account
    task,          \* the spawned timer tasks, registered or not
    live,          \* reminder scan loops that are running
    cmd,           \* where each async command is, and the loop in its hands
    main,          \* where set_session_timeout is on the main thread
    appReady,      \* TAURI_APP has been set
    notice,        \* a session_locked event or a failed check is on its way
    ui             \* isAuthenticated of the frontend: "app" or "login"

vars == <<clock, session, lastActivity, timer, scan, timeout, persisted,
          task, live, cmd, main, appReady, notice, ui>>

TaskPcs == {"free", "sleeping", "woken", "expired", "cleared"}
NoTimer == [pc |-> "free", startedAt |-> 0, timeout |-> 0, checkedAt |-> 0]

CmdSteps == {"idle", "set_key", "scan", "register", "restore", "reuse",
             "reveal", "logout"}
Idle == [at |-> "idle", via |-> "pin", scan |-> None]
Unlocking(via) == [at |-> "set_key", via |-> via, scan |-> None]

MainIdle == [at |-> "idle", ms |-> DefaultTimeout]

TypeOK ==
    /\ clock \in 0..MaxTime
    /\ session \in {"locked", "unlocked"}
    /\ lastActivity \in 0..MaxTime
    /\ timer \in TaskIds \cup {None}
    /\ scan \in ScanIds \cup {None}
    /\ timeout \in Nat
    /\ persisted \in Timeouts \cup {None}
    /\ task \in [TaskIds -> [pc : TaskPcs, startedAt : Nat, timeout : Nat,
                             checkedAt : Nat]]
    /\ live \in SUBSET ScanIds
    /\ cmd \in [Workers -> [at : CmdSteps, via : {"pin", "bio"},
                            scan : ScanIds \cup {None}]]
    /\ main \in [at : {"idle", "beat", "persist"}, ms : Timeouts]
    /\ appReady \in BOOLEAN
    /\ notice \in BOOLEAN
    /\ ui \in {"app", "login"}

Init ==
    /\ clock = 0
    /\ session = "locked"
    /\ lastActivity = 0
    /\ timer = None
    /\ scan = None
    /\ timeout = DefaultTimeout
    /\ persisted \in Timeouts \cup {None}
    /\ task = [t \in TaskIds |-> NoTimer]
    /\ live = {}
    /\ cmd = [w \in Workers |-> Idle]
    /\ main = MainIdle
    /\ appReady = FALSE
    /\ notice = FALSE
    /\ ui = "login"

-----------------------------------------------------------------------------
(* Timer tasks.                                                            *)

\* abort() stops a task that is still waiting for its sleep; one that has been
\* woken runs to its end, because it does not await again.
Aborted(t) ==
    IF t # None /\ task[t].pc = "sleeping" THEN [task EXCEPT ![t] = NoTimer]
                                           ELSE task

\* Mutant: the old timer is not aborted.
SpawnTimerKeepingOld(inRuntime) ==
    IF inRuntime /\ timeout # 0
    THEN \E t \in TaskIds :
            /\ task[t].pc = "free"
            /\ timer' = t
            /\ task' = [task EXCEPT ![t] =
                   [pc |-> "sleeping", startedAt |-> clock,
                    timeout |-> timeout, checkedAt |-> 0]]
    ELSE timer' = None /\ task' = task

\* spawn_timer_locked: abort the old timer, then spawn a new one if there is a
\* runtime and auto-lock is not disabled.  The timeout is captured here.
SpawnTimerLocked(inRuntime) ==
    LET rest == Aborted(timer) IN
    IF inRuntime /\ timeout # 0
    THEN \E t \in TaskIds :
            /\ rest[t].pc = "free"
            /\ timer' = t
            /\ task' = [rest EXCEPT ![t] =
                   [pc |-> "sleeping", startedAt |-> clock,
                    timeout |-> timeout, checkedAt |-> 0]]
    ELSE timer' = None /\ task' = rest

\* The sleep of a timer task is over and the runtime polls it.
Wake(t) ==
    /\ task[t].pc = "sleeping"
    /\ clock >= task[t].startedAt + task[t].timeout
    /\ task' = [task EXCEPT ![t].pc = "woken"]
    /\ UNCHANGED <<clock, session, lastActivity, timer, scan, timeout, persisted,
                   live, cmd, main, appReady, notice, ui>>

Expired(t) == [pc |-> "expired", startedAt |-> task[t].startedAt,
               timeout |-> task[t].timeout, checkedAt |-> clock]

\* Mutant: the task does not look at last_activity again.
CheckActivityNever(t) ==
    /\ task[t].pc = "woken"
    /\ task' = [task EXCEPT ![t] = Expired(t)]
    /\ UNCHANGED <<clock, session, lastActivity, timer, scan, timeout, persisted,
                   live, cmd, main, appReady, notice, ui>>

\* Mutant: >= in place of >, so the task takes its own start for activity.
CheckActivityOwnStart(t) ==
    /\ task[t].pc = "woken"
    /\ task' = IF lastActivity >= task[t].startedAt
               THEN [task EXCEPT ![t] = NoTimer]
               ELSE [task EXCEPT ![t] = Expired(t)]
    /\ UNCHANGED <<clock, session, lastActivity, timer, scan, timeout, persisted,
                   live, cmd, main, appReady, notice, ui>>

\* last_activity_after: its own critical section, released before clear().
CheckActivity(t) ==
    /\ task[t].pc = "woken"
    /\ task' = IF lastActivity > task[t].startedAt
               THEN [task EXCEPT ![t] = NoTimer]
               ELSE [task EXCEPT ![t] = Expired(t)]
    /\ UNCHANGED <<clock, session, lastActivity, timer, scan, timeout, persisted,
                   live, cmd, main, appReady, notice, ui>>

\* Mutant: the scan handle is dropped but its loop is not aborted.
ClearKeepingScan(rest) ==
    /\ session' = "locked"
    /\ timer' = None
    /\ task' = rest
    /\ scan' = None
    /\ live' = live

\* clear(): drop the key, abort the registered timer and the registered scan.
\* "rest" is the task function the caller leaves behind.
Clear(rest) ==
    /\ session' = "locked"
    /\ timer' = None
    /\ task' = rest
    /\ scan' = None
    /\ live' = live \ {scan}

\* The second half of the timer task: clear(), whatever happened since its check.
Expire(t) ==
    /\ task[t].pc = "expired"
    /\ Clear([Aborted(timer) EXCEPT ![t].pc = "cleared"])
    /\ UNCHANGED <<clock, lastActivity, timeout, persisted, cmd, main, appReady,
                   notice, ui>>

\* Mutant: the task ends without telling the frontend.
EmitLockedSilently(t) ==
    /\ task[t].pc = "cleared"
    /\ task' = [task EXCEPT ![t] = NoTimer]
    /\ UNCHANGED <<clock, session, lastActivity, timer, scan, timeout, persisted,
                   live, cmd, main, appReady, notice, ui>>

\* emit_locked: the task ends.  Without an app handle nothing is emitted.
EmitLocked(t) ==
    /\ task[t].pc = "cleared"
    /\ task' = [task EXCEPT ![t] = NoTimer]
    /\ notice' = (notice \/ appReady)
    /\ UNCHANGED <<clock, session, lastActivity, timer, scan, timeout, persisted,
                   live, cmd, main, appReady, ui>>

-----------------------------------------------------------------------------
(* Unlocking.                                                              *)

\* load_timeout_ms_from_conn: a missing setting leaves the field as it is.
Clamped(ms) == IF ms # 0 /\ ms < MinTimeout THEN MinTimeout ELSE ms
LoadedTimeout == IF persisted = None THEN timeout ELSE Clamped(persisted)

\* PIN unlock and account creation restore the timeout, then install the key.
BeginPinUnlock(w) ==
    /\ cmd[w].at = "idle" /\ clock <= MaxActivity
    /\ timeout' = LoadedTimeout
    /\ cmd' = [cmd EXCEPT ![w] = Unlocking("pin")]
    /\ UNCHANGED <<clock, session, lastActivity, timer, scan, persisted, task,
                   live, main, appReady, notice, ui>>

\* Biometric unlock installs the key first.
BeginBioUnlock(w) ==
    /\ cmd[w].at = "idle" /\ clock <= MaxActivity
    /\ cmd' = [cmd EXCEPT ![w] = Unlocking("bio")]
    /\ UNCHANGED <<clock, session, lastActivity, timer, scan, timeout, persisted,
                   task, live, main, appReady, notice, ui>>

\* set_key_locked.
SetKeyLocked(w) ==
    /\ cmd[w].at = "set_key" /\ clock <= MaxActivity
    /\ session' = "unlocked"
    /\ lastActivity' = clock
    /\ SpawnTimerLocked(TRUE)
    /\ scan' = None
    /\ live' = live \ {scan}
    /\ cmd' = [cmd EXCEPT ![w].at = "scan"]
    /\ UNCHANGED <<clock, timeout, persisted, main, appReady, notice, ui>>

AfterKey(w) == IF cmd[w].via = "bio" THEN "restore" ELSE "reveal"

\* First half of start_reminder_scan, outside the mutex: spawn_scan_loop gives
\* nothing before the app handle exists.
SpawnScanLoop(w) ==
    /\ cmd[w].at = "scan"
    /\ IF appReady
       THEN \E s \in ScanIds \ live :
               /\ live' = live \cup {s}
               /\ cmd' = [cmd EXCEPT ![w] = [at |-> "register", via |-> cmd[w].via,
                                           scan |-> s]]
       ELSE cmd' = [cmd EXCEPT ![w].at = AfterKey(w)] /\ UNCHANGED live
    /\ UNCHANGED <<clock, session, lastActivity, timer, scan, timeout, persisted,
                   task, main, appReady, notice, ui>>

\* Second half: drop the new loop if the session is locked, else let it replace
\* and abort the one that is registered.
RegisterScan(w) ==
    /\ cmd[w].at = "register"
    /\ IF session = "locked"
       THEN live' = live \ {cmd[w].scan} /\ UNCHANGED scan
       ELSE live' = live \ {scan} /\ scan' = cmd[w].scan
    /\ cmd' = [cmd EXCEPT ![w] = [at |-> AfterKey(w), via |-> cmd[w].via,
                                 scan |-> None]]
    /\ UNCHANGED <<clock, session, lastActivity, timer, timeout, persisted, task,
                   main, appReady, notice, ui>>

\* Biometric unlock reads the stored timeout now, if it gets a connection.
RestoreTimeout(w) ==
    /\ cmd[w].at = "restore"
    /\ timeout' \in {LoadedTimeout, timeout}
    /\ cmd' = [cmd EXCEPT ![w].at = "reuse"]
    /\ UNCHANGED <<clock, session, lastActivity, timer, scan, persisted, task,
                   live, main, appReady, notice, ui>>

\* reuse_loaded_client_if_matching: on a mismatch the session is cleared again.
ReuseClient(w) ==
    /\ cmd[w].at = "reuse"
    /\ \/ /\ cmd' = [cmd EXCEPT ![w].at = "reveal"]
          /\ UNCHANGED <<session, timer, scan, task, live>>
       \/ /\ Clear(Aborted(timer))
          /\ cmd' = [cmd EXCEPT ![w] = Idle]
    /\ UNCHANGED <<clock, lastActivity, timeout, persisted, main, appReady,
                   notice, ui>>

\* The frontend's await returns: isAuthenticated.set(true).
Reveal(w) ==
    /\ cmd[w].at = "reveal"
    /\ ui' = "app"
    /\ cmd' = [cmd EXCEPT ![w] = Idle]
    /\ UNCHANGED <<clock, session, lastActivity, timer, scan, timeout, persisted,
                   task, live, main, appReady, notice>>

\* decrypt_with_password tries the key on the stored secrets after it has installed it: a
\* wrong PIN is an error of the command, and leaves the session unlocked.
WrongPin(w) ==
    /\ cmd[w].at = "reveal" /\ cmd[w].via = "pin"
    /\ cmd' = [cmd EXCEPT ![w] = Idle]
    /\ UNCHANGED <<clock, session, lastActivity, timer, scan, timeout, persisted,
                   task, live, main, appReady, notice, ui>>

-----------------------------------------------------------------------------
(* Activity, settings and logout.                                          *)

\* heartbeat(), which does nothing to a locked session.
Beat(inRuntime) ==
    IF session = "unlocked"
    THEN lastActivity' = clock /\ SpawnTimerLocked(inRuntime)
    ELSE UNCHANGED <<lastActivity, timer, task>>

\* A sensitive async command calls heartbeat() at entry.
Heartbeat(w) ==
    /\ cmd[w].at = "idle" /\ session = "unlocked" /\ clock <= MaxActivity
    /\ Beat(TRUE)
    /\ UNCHANGED <<clock, session, scan, timeout, persisted, live, cmd, main,
                   appReady, notice, ui>>

\* session_heartbeat is not an async fn: Tauri calls it on the main thread, which
\* is not inside the tokio runtime.
SessionHeartbeat ==
    /\ ui = "app" /\ main.at = "idle" /\ session = "unlocked" /\ clock <= MaxActivity
    /\ Beat(FALSE)
    /\ UNCHANGED <<clock, session, scan, timeout, persisted, live, cmd, main,
                   appReady, notice, ui>>

\* set_session_timeout, also on the main thread: store the value, beat, save it.
SetSessionTimeout(ms) ==
    /\ ui = "app" /\ main.at = "idle" /\ clock <= MaxActivity
    /\ timeout' = ms
    /\ main' = [at |-> "beat", ms |-> ms]
    /\ UNCHANGED <<clock, session, lastActivity, timer, scan, persisted, task,
                   live, cmd, appReady, notice, ui>>

SetSessionTimeoutBeat ==
    /\ main.at = "beat" /\ clock <= MaxActivity
    /\ Beat(FALSE)
    /\ main' = [main EXCEPT !.at = "persist"]
    /\ UNCHANGED <<clock, session, scan, timeout, persisted, live, cmd, appReady,
                   notice, ui>>

\* The row is written if a connection can be had; errors are ignored.
SetSessionTimeoutPersist ==
    /\ main.at = "persist"
    /\ persisted' \in {main.ms, persisted}
    /\ main' = MainIdle
    /\ UNCHANGED <<clock, session, lastActivity, timer, scan, timeout, task, live,
                   cmd, appReady, notice, ui>>

\* logout: the frontend leaves the app view, then the profile directory is
\* deleted, then the session is cleared.  The process goes on.
BeginLogout(w) ==
    /\ cmd[w].at = "idle" /\ ui = "app"
    /\ ui' = "login"
    /\ persisted' = None
    /\ cmd' = [cmd EXCEPT ![w].at = "logout"]
    /\ UNCHANGED <<clock, session, lastActivity, timer, scan, timeout, task, live,
                   main, appReady, notice>>

LogoutClear(w) ==
    /\ cmd[w].at = "logout"
    /\ Clear(Aborted(timer))
    /\ cmd' = [cmd EXCEPT ![w] = Idle]
    /\ UNCHANGED <<clock, lastActivity, timeout, persisted, main, appReady, notice,
                   ui>>

-----------------------------------------------------------------------------
(* The frontend and the environment.                                       *)

\* checkSession on focus or resume: a locked answer drops the frontend's state.
CheckSession ==
    /\ ui = "app" /\ session = "locked" /\ ~notice
    /\ notice' = TRUE
    /\ UNCHANGED <<clock, session, lastActivity, timer, scan, timeout, persisted,
                   task, live, cmd, main, appReady, ui>>

\* dropSessionState.
DropSessionState ==
    /\ notice
    /\ notice' = FALSE
    /\ ui' = "login"
    /\ UNCHANGED <<clock, session, lastActivity, timer, scan, timeout, persisted,
                   task, live, cmd, main, appReady>>

AppSetup ==
    /\ ~appReady
    /\ appReady' = TRUE
    /\ UNCHANGED <<clock, session, lastActivity, timer, scan, timeout, persisted,
                   task, live, cmd, main, notice, ui>>

Tick ==
    /\ clock < MaxTime
    /\ clock' = clock + 1
    /\ UNCHANGED <<session, lastActivity, timer, scan, timeout, persisted, task,
                   live, cmd, main, appReady, notice, ui>>

TimerStep(t) == Wake(t) \/ CheckActivity(t) \/ Expire(t) \/ EmitLocked(t)

Next ==
    \/ \E t \in TaskIds : TimerStep(t)
    \/ \E w \in Workers :
          \/ BeginPinUnlock(w) \/ BeginBioUnlock(w) \/ SetKeyLocked(w)
          \/ SpawnScanLoop(w) \/ RegisterScan(w) \/ RestoreTimeout(w)
          \/ ReuseClient(w) \/ Reveal(w) \/ WrongPin(w) \/ Heartbeat(w)
          \/ BeginLogout(w) \/ LogoutClear(w)
    \/ SessionHeartbeat
    \/ \E ms \in Timeouts : SetSessionTimeout(ms)
    \/ SetSessionTimeoutBeat \/ SetSessionTimeoutPersist
    \/ CheckSession \/ DropSessionState
    \/ AppSetup \/ Tick

Spec == Init /\ [][Next]_vars

\* Time passes, the runtime polls a task whose sleep is over and runs it to its
\* end, and the webview handles an event it was sent.  Nothing makes a user act.
FairSpec ==
    /\ Spec
    /\ WF_vars(Tick)
    /\ \A t \in TaskIds : WF_vars(TimerStep(t))
    /\ WF_vars(DropSessionState)

-----------------------------------------------------------------------------
(* Properties.                                                             *)

\* A locked session keeps nothing running: no timer and no scan is registered,
\* no timer task sleeps, and a scan loop that is still alive is in the hands of an
\* unlock that has yet to register it (clear, start_reminder_scan).
LockedIsQuiet ==
    session = "locked" =>
        /\ timer = None /\ scan = None
        /\ \A t \in TaskIds : task[t].pc # "sleeping"
        /\ \A s \in live : \E w \in Workers : cmd[w].scan = s

\* A rearmed timer leaves no second one behind: the only task that can still
\* sleep is the registered one, it started at the last activity, and a running
\* scan loop is the registered one or is about to be registered.
NoStrayTask ==
    /\ \A t \in TaskIds : task[t].pc = "sleeping" =>
          timer = t /\ task[t].startedAt = lastActivity
    /\ \A s \in live : scan = s \/ \E w \in Workers : cmd[w].scan = s

\* A timer task that goes on to lock the session has seen it idle for the whole
\* timeout; the only activity it can overrun is activity after its check, the
\* window between last_activity_after and clear.
LockOverrunsOnlyLateActivity ==
    \A t \in TaskIds : task[t].pc = "expired" =>
        /\ task[t].checkedAt >= task[t].startedAt + task[t].timeout
        /\ lastActivity <= task[t].startedAt \/ lastActivity >= task[t].checkedAt

\* An armed timer does not hang: it is aborted, replaced, or it locks the session.
ArmedTimerResolves ==
    \A t \in TaskIds : timer = t ~> timer # t

\* An auto-lock of the backend reaches the frontend, which shows the login view.
AutoLockReachesUi ==
    \A t \in TaskIds : (task[t].pc = "cleared" /\ appReady) ~> ui = "login"

\* "Reset the idle timer from the frontend": whatever records activity of an
\* unlocked session with auto-lock enabled leaves a timer armed.
ActivityRearmsTimer ==
    [][ (lastActivity' # lastActivity /\ session' = "unlocked" /\ timeout' # 0)
          => timer' # None ]_vars

Quiescent == main.at = "idle" /\ \A w \in Workers : cmd[w].at = "idle"

\* "Once installed, the account's persisted idle-lock timeout is restored": an
\* armed timer runs, once no command is under way, with the account's stored timeout.
PersistedTimeoutArmed ==
    (Quiescent /\ timer # None /\ persisted # None)
        => task[timer].timeout = Clamped(persisted)

\* "Falls back to the default if the setting is missing": an unlock of an account
\* that stored no timeout, from the login view, goes on with the default one.
MissingSettingMeansDefault ==
    [][ \A w \in Workers :
          (/\ cmd[w].at = "idle" /\ cmd'[w].at = "set_key" /\ cmd'[w].via = "pin"
           /\ persisted = None /\ Quiescent /\ ui = "login")
             => timeout' = DefaultTimeout ]_vars
=============================================================================
