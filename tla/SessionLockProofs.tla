--------------------------- MODULE SessionLockProofs ---------------------------
(***************************************************************************)
(* Safety of SessionLock for any number of commands, tasks and scan loops, *)
(* any set of timeouts and any bounds.                                     *)
(***************************************************************************)
EXTENDS SessionLock, TLAPS

\* What the timer obeys: only the registered task sleeps, it started at the last
\* activity, nothing is registered in a locked session, a task leaves its sleep
\* only when its timeout is over, and a task past its check was right about it.
TimerInv ==
    /\ lastActivity <= clock
    /\ session = "locked" => timer = None
    /\ \A t \in TaskIds :
         /\ task[t].startedAt <= clock
         /\ task[t].pc = "sleeping" =>
               timer = t /\ task[t].startedAt = lastActivity
         /\ task[t].pc = "woken" => clock >= task[t].startedAt + task[t].timeout
         /\ task[t].pc = "expired" =>
               /\ task[t].checkedAt <= clock
               /\ task[t].checkedAt >= task[t].startedAt + task[t].timeout
               /\ \/ lastActivity <= task[t].startedAt
                  \/ lastActivity >= task[t].checkedAt

\* What the scan loops obey: a loop in the hands of a command is alive, in no
\* other hands and not registered, and only a command about to register has one.
ScanInv ==
    /\ session = "locked" => scan = None
    /\ scan # None => scan \in live
    /\ \A s \in live : scan = s \/ \E w \in Workers : cmd[w].scan = s
    /\ \A w \in Workers :
         /\ cmd[w].scan # None =>
               /\ cmd[w].at = "register"
               /\ cmd[w].scan \in live
               /\ cmd[w].scan # scan
               /\ \A v \in Workers : cmd[v].scan = cmd[w].scan => v = w
         /\ cmd[w].at = "register" => cmd[w].scan # None

IInv == TypeOK /\ TimerInv /\ ScanInv

USE TimeoutAssumption, BoundAssumption, NoneAssumption

-----------------------------------------------------------------------------
\* The sleeping task that is aborted becomes free; the others are untouched.
LEMMA AbortedType ==
    ASSUME TypeOK, TimerInv
    PROVE  /\ Aborted(timer) \in [TaskIds -> [pc : TaskPcs, startedAt : Nat,
                                              timeout : Nat, checkedAt : Nat]]
           /\ \A t \in TaskIds :
                /\ Aborted(timer)[t] = task[t] \/ Aborted(timer)[t] = NoTimer
                /\ Aborted(timer)[t].pc # "sleeping"
  BY DEF TypeOK, TimerInv, Aborted, NoTimer, TaskPcs

\* Rearming keeps the typing of timer and task.
LEMMA SpawnType ==
    ASSUME TypeOK, TimerInv, NEW r \in BOOLEAN, SpawnTimerLocked(r)
    PROVE  /\ timer' \in TaskIds \cup {None}
           /\ task' \in [TaskIds -> [pc : TaskPcs, startedAt : Nat,
                                     timeout : Nat, checkedAt : Nat]]
  <1> DEFINE rest == Aborted(timer)
  <1>1. rest \in [TaskIds -> [pc : TaskPcs, startedAt : Nat,
                              timeout : Nat, checkedAt : Nat]]
    BY AbortedType
  <1>2. CASE r /\ timeout # 0
    <2>1. PICK t \in TaskIds :
             /\ timer' = t
             /\ task' = [rest EXCEPT ![t] =
                   [pc |-> "sleeping", startedAt |-> clock,
                    timeout |-> timeout, checkedAt |-> 0]]
      BY <1>2 DEF SpawnTimerLocked
    <2>2. QED  BY <1>1, <2>1 DEF TypeOK, TaskPcs
  <1>3. CASE ~(r /\ timeout # 0)
    BY <1>1, <1>3 DEF SpawnTimerLocked
  <1>4. QED  BY <1>2, <1>3

\* Rearming at an activity keeps the timer discipline.
LEMMA SpawnTimerInv ==
    ASSUME TypeOK, TimerInv, NEW r \in BOOLEAN, SpawnTimerLocked(r),
           lastActivity' = clock, clock' = clock, session' = "unlocked"
    PROVE  TimerInv'
  <1> DEFINE rest == Aborted(timer)
  <1>1. /\ rest \in [TaskIds -> [pc : TaskPcs, startedAt : Nat,
                                 timeout : Nat, checkedAt : Nat]]
        /\ \A t \in TaskIds : /\ rest[t] = task[t] \/ rest[t] = NoTimer
                              /\ rest[t].pc # "sleeping"
    BY AbortedType
  <1>a. clock \in Nat
    BY DEF TypeOK
  <1>2. CASE r /\ timeout # 0
    <2>1. PICK t \in TaskIds :
             /\ timer' = t
             /\ task' = [rest EXCEPT ![t] =
                   [pc |-> "sleeping", startedAt |-> clock,
                    timeout |-> timeout, checkedAt |-> 0]]
      BY <1>2 DEF SpawnTimerLocked
    <2>2. QED  BY <1>1, <1>a, <2>1 DEF TimerInv, NoTimer
  <1>3. CASE ~(r /\ timeout # 0)
    <2>1. timer' = None /\ task' = rest
      BY <1>3 DEF SpawnTimerLocked
    <2>2. QED  BY <1>1, <1>a, <2>1 DEF TimerInv, NoTimer
  <1>4. QED  BY <1>2, <1>3

\* clear() keeps the timer discipline.
LEMMA ClearTimerInv ==
    ASSUME TypeOK, TimerInv, Clear(Aborted(timer)),
           lastActivity' = lastActivity, clock' = clock
    PROVE  /\ task' \in [TaskIds -> [pc : TaskPcs, startedAt : Nat,
                                     timeout : Nat, checkedAt : Nat]]
           /\ TimerInv'
  BY AbortedType DEF Clear, TimerInv, TypeOK, NoTimer

\* The timer discipline says nothing about the other variables.
LEMMA TimerFrame ==
    ASSUME TimerInv, UNCHANGED <<clock, session, lastActivity, timer, task>>
    PROVE  TimerInv'
  BY DEF TimerInv

\* Nor does the scan discipline.
LEMMA ScanFrame ==
    ASSUME ScanInv, UNCHANGED <<session, scan, live, cmd>>
    PROVE  ScanInv'
  BY DEF ScanInv

-----------------------------------------------------------------------------
\* The initial states satisfy the inductive invariant.
LEMMA InitInv == Init => IInv
  <1> SUFFICES ASSUME Init PROVE IInv
    OBVIOUS
  <1>1. TypeOK
    <2>1. task \in [TaskIds -> [pc : TaskPcs, startedAt : Nat, timeout : Nat,
                                checkedAt : Nat]]
      BY DEF Init, NoTimer, TaskPcs
    <2>2. cmd \in [Workers -> [at : CmdSteps, via : {"pin", "bio"},
                               scan : ScanIds \cup {None}]]
      BY DEF Init, Idle, CmdSteps
    <2>3. main \in [at : {"idle", "beat", "persist"}, ms : Timeouts]
      BY DEF Init, MainIdle
    <2>4. /\ clock \in 0..MaxTime /\ lastActivity \in 0..MaxTime
          /\ timeout \in Nat
      BY DEF Init
    <2>5. appReady \in BOOLEAN /\ notice \in BOOLEAN
      BY DEF Init
    <2>6. QED  BY <2>1, <2>2, <2>3, <2>4, <2>5 DEF Init, TypeOK
  <1>2. TimerInv  BY DEF Init, TimerInv, NoTimer
  <1>3. ScanInv  BY DEF Init, ScanInv, Idle
  <1>4. QED  BY <1>1, <1>2, <1>3 DEF IInv

\* Every step keeps the types.
LEMMA TypeStep == IInv /\ [Next]_vars => TypeOK'
  <1> SUFFICES ASSUME IInv, [Next]_vars PROVE TypeOK'
    OBVIOUS
  <1> USE DEF IInv
  <1>1. ASSUME NEW t \in TaskIds, TimerStep(t) PROVE TypeOK'
    <2>1. CASE Wake(t)  BY <2>1 DEF Wake, TypeOK, TaskPcs
    <2>2. CASE CheckActivity(t)
      BY <2>2 DEF CheckActivity, Expired, TypeOK, TaskPcs, NoTimer
    <2>3. CASE Expire(t)
      BY <2>3, AbortedType DEF Expire, Clear, TypeOK, TaskPcs
    <2>4. CASE EmitLocked(t)  BY <2>4 DEF EmitLocked, TypeOK, TaskPcs, NoTimer
    <2>5. QED  BY <1>1, <2>1, <2>2, <2>3, <2>4 DEF TimerStep
  <1>2. ASSUME NEW w \in Workers, BeginPinUnlock(w) PROVE TypeOK'
    BY <1>2 DEF BeginPinUnlock, Unlocking, LoadedTimeout, Clamped, MinTimeout, TypeOK, CmdSteps
  <1>3. ASSUME NEW w \in Workers, BeginBioUnlock(w) PROVE TypeOK'
    BY <1>3 DEF BeginBioUnlock, Unlocking, TypeOK, CmdSteps
  <1>4. ASSUME NEW w \in Workers, SetKeyLocked(w) PROVE TypeOK'
    <2>1. SpawnTimerLocked(TRUE)
      BY <1>4 DEF SetKeyLocked
    <2>2. /\ timer' \in TaskIds \cup {None}
          /\ task' \in [TaskIds -> [pc : TaskPcs, startedAt : Nat,
                                    timeout : Nat, checkedAt : Nat]]
      BY <2>1, SpawnType
    <2>3. cmd' \in [Workers -> [at : CmdSteps, via : {"pin", "bio"},
                                scan : ScanIds \cup {None}]]
      <3>1. cmd' = [cmd EXCEPT ![w].at = "scan"]
        BY <1>4 DEF SetKeyLocked
      <3>2. QED  BY <3>1 DEF TypeOK, CmdSteps
    <2>4. QED  BY <1>4, <2>2, <2>3 DEF SetKeyLocked, TypeOK
  <1>5. ASSUME NEW w \in Workers, SpawnScanLoop(w) PROVE TypeOK'
    BY <1>5 DEF SpawnScanLoop, AfterKey, TypeOK, CmdSteps
  <1>6. ASSUME NEW w \in Workers, RegisterScan(w) PROVE TypeOK'
    BY <1>6 DEF RegisterScan, AfterKey, TypeOK, CmdSteps
  <1>7. ASSUME NEW w \in Workers, RestoreTimeout(w) PROVE TypeOK'
    BY <1>7 DEF RestoreTimeout, LoadedTimeout, Clamped, MinTimeout, TypeOK, CmdSteps
  <1>8. ASSUME NEW w \in Workers, ReuseClient(w) PROVE TypeOK'
    <2>1. CASE Clear(Aborted(timer)) /\ cmd' = [cmd EXCEPT ![w] = Idle]
      <3>1. cmd' \in [Workers -> [at : CmdSteps, via : {"pin", "bio"},
                                  scan : ScanIds \cup {None}]]
        BY <2>1 DEF TypeOK, CmdSteps, Idle
      <3>2. /\ session' = "locked" /\ timer' = None /\ scan' = None
            /\ task' = Aborted(timer) /\ live' = live \ {scan}
        BY <2>1 DEF Clear
      <3>3. UNCHANGED <<clock, lastActivity, timeout, persisted, main, appReady,
                        notice, ui>>
        BY <1>8 DEF ReuseClient
      <3>4. QED  BY <3>1, <3>2, <3>3, AbortedType DEF TypeOK
    <2>2. CASE /\ cmd' = [cmd EXCEPT ![w].at = "reveal"]
               /\ UNCHANGED <<session, timer, scan, task, live>>
      <3>1. cmd' \in [Workers -> [at : CmdSteps, via : {"pin", "bio"},
                                  scan : ScanIds \cup {None}]]
        BY <2>2 DEF TypeOK, CmdSteps
      <3>2. QED  BY <1>8, <2>2, <3>1 DEF ReuseClient, TypeOK
    <2>3. QED  BY <1>8, <2>1, <2>2 DEF ReuseClient
  <1>9. ASSUME NEW w \in Workers, Reveal(w) \/ WrongPin(w) PROVE TypeOK'
    BY <1>9 DEF Reveal, WrongPin, TypeOK, CmdSteps, Idle
  <1>10. ASSUME NEW w \in Workers, Heartbeat(w) PROVE TypeOK'
    BY <1>10, SpawnType DEF Heartbeat, Beat, TypeOK
  <1>11. ASSUME NEW w \in Workers, BeginLogout(w) PROVE TypeOK'
    BY <1>11 DEF BeginLogout, TypeOK, CmdSteps
  <1>12. ASSUME NEW w \in Workers, LogoutClear(w) PROVE TypeOK'
    BY <1>12, AbortedType DEF LogoutClear, Clear, TypeOK, CmdSteps, Idle
  <1>13. CASE SessionHeartbeat
    BY <1>13, SpawnType DEF SessionHeartbeat, Beat, TypeOK
  <1>14. ASSUME NEW ms \in Timeouts, SetSessionTimeout(ms) PROVE TypeOK'
    BY <1>14 DEF SetSessionTimeout, TypeOK
  <1>15. CASE SetSessionTimeoutBeat
    BY <1>15, SpawnType DEF SetSessionTimeoutBeat, Beat, TypeOK
  <1>16. CASE SetSessionTimeoutPersist
    BY <1>16 DEF SetSessionTimeoutPersist, TypeOK, MainIdle
  <1>17. CASE CheckSession  BY <1>17 DEF CheckSession, TypeOK
  <1>18. CASE DropSessionState  BY <1>18 DEF DropSessionState, TypeOK
  <1>19. CASE AppSetup  BY <1>19 DEF AppSetup, TypeOK
  <1>20. CASE Tick  BY <1>20 DEF Tick, TypeOK
  <1>21. CASE UNCHANGED vars  BY <1>21 DEF vars, TypeOK
  <1>22. QED
    BY <1>1, <1>2, <1>3, <1>4, <1>5, <1>6, <1>7, <1>8, <1>9, <1>10, <1>11, <1>12,
       <1>13, <1>14, <1>15, <1>16, <1>17, <1>18, <1>19, <1>20, <1>21 DEF Next

\* Every step keeps the timer discipline.
LEMMA TimerStepInv == IInv /\ [Next]_vars => TimerInv'
  <1> SUFFICES ASSUME IInv, [Next]_vars PROVE TimerInv'
    OBVIOUS
  <1> USE DEF IInv
  <1>1. ASSUME NEW t \in TaskIds, TimerStep(t) PROVE TimerInv'
    <2>1. CASE Wake(t)  BY <2>1 DEF Wake, TypeOK, TimerInv
    <2>2. CASE CheckActivity(t)
      BY <2>2 DEF CheckActivity, Expired, TypeOK, TimerInv, NoTimer
    <2>3. CASE Expire(t)
      BY <2>3, AbortedType DEF Expire, Clear, TypeOK, TimerInv, NoTimer
    <2>4. CASE EmitLocked(t)  BY <2>4 DEF EmitLocked, TypeOK, TimerInv, NoTimer
    <2>5. QED  BY <1>1, <2>1, <2>2, <2>3, <2>4 DEF TimerStep
  <1>2. ASSUME NEW w \in Workers,
               \/ BeginPinUnlock(w) \/ BeginBioUnlock(w) \/ SpawnScanLoop(w)
               \/ RegisterScan(w) \/ RestoreTimeout(w) \/ Reveal(w)
               \/ WrongPin(w) \/ BeginLogout(w)
        PROVE  TimerInv'
    BY <1>2, TimerFrame DEF BeginPinUnlock, BeginBioUnlock, SpawnScanLoop,
       RegisterScan, RestoreTimeout, Reveal, WrongPin, BeginLogout
  <1>3. ASSUME NEW w \in Workers, SetKeyLocked(w) PROVE TimerInv'
    BY <1>3, SpawnTimerInv DEF SetKeyLocked
  <1>4. ASSUME NEW w \in Workers, ReuseClient(w) PROVE TimerInv'
    BY <1>4, TimerFrame, ClearTimerInv DEF ReuseClient
  <1>5. ASSUME NEW w \in Workers, LogoutClear(w) PROVE TimerInv'
    BY <1>5, ClearTimerInv DEF LogoutClear
  <1>6. ASSUME NEW r \in BOOLEAN, Beat(r), UNCHANGED <<clock, session>>
        PROVE  TimerInv'
    BY <1>6, TimerFrame, SpawnTimerInv DEF Beat, TypeOK
  <1>7. ASSUME NEW w \in Workers, Heartbeat(w) PROVE TimerInv'
    BY <1>6, <1>7 DEF Heartbeat
  <1>8. CASE SessionHeartbeat  BY <1>6, <1>8 DEF SessionHeartbeat
  <1>9. CASE SetSessionTimeoutBeat  BY <1>6, <1>9 DEF SetSessionTimeoutBeat
  <1>10. CASE \/ \E ms \in Timeouts : SetSessionTimeout(ms)
              \/ SetSessionTimeoutPersist \/ CheckSession \/ DropSessionState
              \/ AppSetup \/ UNCHANGED vars
    BY <1>10, TimerFrame DEF SetSessionTimeout, SetSessionTimeoutPersist,
       CheckSession, DropSessionState, AppSetup, vars
  <1>11. CASE Tick  BY <1>11 DEF Tick, TypeOK, TimerInv
  <1>12. QED
    BY <1>1, <1>2, <1>3, <1>4, <1>5, <1>7, <1>8, <1>9, <1>10, <1>11 DEF Next

\* clear() keeps the scan discipline, if the command that calls it ends with no
\* loop in its hands.
LEMMA ClearScanInv ==
    ASSUME TypeOK, ScanInv, NEW rest, Clear(rest),
           \/ cmd' = cmd
           \/ \E w \in Workers : cmd[w].at # "register" /\ cmd' = [cmd EXCEPT ![w] = Idle]
    PROVE  ScanInv'
  <1>1. CASE cmd' = cmd
    BY <1>1 DEF Clear, TypeOK, ScanInv
  <1>2. ASSUME NEW w \in Workers, cmd[w].at # "register",
               cmd' = [cmd EXCEPT ![w] = Idle]
        PROVE  ScanInv'
    <2>1. cmd[w].scan = None
      BY <1>2 DEF ScanInv
    <2>2. \A v \in Workers : cmd'[v].scan = cmd[v].scan
      BY <1>2, <2>1 DEF TypeOK, Idle
    <2>3. \A v \in Workers : v # w => cmd'[v] = cmd[v]
      BY <1>2 DEF TypeOK
    <2>4. cmd'[w].at # "register"
      BY <1>2 DEF TypeOK, Idle
    <2>5. scan' = None /\ live' = live \ {scan}
      BY DEF Clear
    <2>6. \A s \in live' : scan' = s \/ \E v \in Workers : cmd'[v].scan = s
      BY <2>2, <2>5 DEF ScanInv
    <2>7. ASSUME NEW v \in Workers
          PROVE  /\ cmd'[v].scan # None =>
                       /\ cmd'[v].at = "register"
                       /\ cmd'[v].scan \in live'
                       /\ cmd'[v].scan # scan'
                       /\ \A u \in Workers : cmd'[u].scan = cmd'[v].scan => u = v
                 /\ cmd'[v].at = "register" => cmd'[v].scan # None
      <3>1. CASE v = w
        BY <2>1, <2>2, <2>4, <3>1
      <3>2. CASE v # w
        BY <2>2, <2>3, <2>5, <3>2 DEF ScanInv
      <3>3. QED  BY <3>1, <3>2
    <2>8. QED  BY <2>5, <2>6, <2>7 DEF ScanInv
  <1>3. QED  BY <1>1, <1>2

\* Every step keeps the scan discipline.
LEMMA ScanStepInv == IInv /\ [Next]_vars => ScanInv'
  <1> SUFFICES ASSUME IInv, [Next]_vars PROVE ScanInv'
    OBVIOUS
  <1> USE DEF IInv
  <1>1. ASSUME NEW t \in TaskIds, TimerStep(t) PROVE ScanInv'
    BY <1>1, ScanFrame, ClearScanInv
       DEF TimerStep, Wake, CheckActivity, Expire, EmitLocked
  <1>2. ASSUME NEW w \in Workers, NEW a \in CmdSteps \ {"register"},
               cmd[w].at # "register", cmd' = [cmd EXCEPT ![w].at = a],
               UNCHANGED <<session, scan, live>>
        PROVE  ScanInv'
    BY <1>2 DEF TypeOK, ScanInv
  <1>3. ASSUME NEW w \in Workers, BeginPinUnlock(w) \/ BeginBioUnlock(w)
        PROVE  ScanInv'
    BY <1>3 DEF BeginPinUnlock, BeginBioUnlock, Unlocking, TypeOK, ScanInv
  <1>4. ASSUME NEW w \in Workers, SetKeyLocked(w) PROVE ScanInv'
    BY <1>4 DEF SetKeyLocked, TypeOK, ScanInv
  <1>5. ASSUME NEW w \in Workers, SpawnScanLoop(w) PROVE ScanInv'
    <2>1. CASE appReady
      <3>1. PICK s \in ScanIds \ live :
               /\ live' = live \cup {s}
               /\ cmd' = [cmd EXCEPT ![w] = [at |-> "register", via |-> cmd[w].via,
                                            scan |-> s]]
        BY <1>5, <2>1 DEF SpawnScanLoop
      <3>2. QED  BY <1>5, <3>1 DEF SpawnScanLoop, TypeOK, ScanInv
    <2>2. CASE ~appReady
      BY <1>2, <1>5, <2>2 DEF SpawnScanLoop, AfterKey, CmdSteps
    <2>3. QED  BY <2>1, <2>2
  <1>6. ASSUME NEW w \in Workers, RegisterScan(w) PROVE ScanInv'
    <2>1. CASE session = "locked"
      BY <1>6, <2>1 DEF RegisterScan, AfterKey, TypeOK, ScanInv
    <2>2. CASE session # "locked"
      BY <1>6, <2>2 DEF RegisterScan, AfterKey, TypeOK, ScanInv
    <2>3. QED  BY <2>1, <2>2
  <1>7. ASSUME NEW w \in Workers, RestoreTimeout(w) \/ BeginLogout(w)
        PROVE  ScanInv'
    BY <1>2, <1>7 DEF RestoreTimeout, BeginLogout, CmdSteps
  <1>8. ASSUME NEW w \in Workers, ReuseClient(w) PROVE ScanInv'
    BY <1>2, <1>8, ClearScanInv DEF ReuseClient, CmdSteps
  <1>9. ASSUME NEW w \in Workers, LogoutClear(w) PROVE ScanInv'
    BY <1>9, ClearScanInv DEF LogoutClear
  <1>10. ASSUME NEW w \in Workers, Reveal(w) \/ WrongPin(w) PROVE ScanInv'
    BY <1>10 DEF Reveal, WrongPin, Idle, TypeOK, ScanInv
  <1>11. CASE \/ \E w \in Workers : Heartbeat(w)
              \/ SessionHeartbeat
              \/ \E ms \in Timeouts : SetSessionTimeout(ms)
              \/ SetSessionTimeoutBeat \/ SetSessionTimeoutPersist
              \/ CheckSession \/ DropSessionState \/ AppSetup \/ Tick
              \/ UNCHANGED vars
    BY <1>11, ScanFrame DEF Heartbeat, SessionHeartbeat, SetSessionTimeout,
       SetSessionTimeoutBeat, SetSessionTimeoutPersist, CheckSession,
       DropSessionState, AppSetup, Tick, vars
  <1>12. QED
    BY <1>1, <1>3, <1>4, <1>5, <1>6, <1>7, <1>8, <1>9, <1>10, <1>11 DEF Next

-----------------------------------------------------------------------------
\* The inductive invariant holds in every reachable state.
THEOREM Invariance == Spec => []IInv
  <1>1. IInv /\ [Next]_vars => IInv'
    BY TypeStep, TimerStepInv, ScanStepInv DEF IInv
  <1>2. QED  BY InitInv, <1>1, PTL DEF Spec

\* Every reachable state is well typed.
THEOREM TypeCorrect == Spec => []TypeOK
  <1>1. IInv => TypeOK  BY DEF IInv
  <1>2. QED  BY Invariance, <1>1, PTL

\* A locked session has no timer, no sleeping task, no registered scan, and only
\* such scan loops as an unlock is about to register or drop.
THEOREM LockedQuiet == Spec => []LockedIsQuiet
  <1>1. IInv => LockedIsQuiet
    BY DEF IInv, TypeOK, TimerInv, ScanInv, LockedIsQuiet
  <1>2. QED  BY Invariance, <1>1, PTL

\* Rearming never leaves a second sleeping timer or an unregistered scan behind.
THEOREM NoStray == Spec => []NoStrayTask
  <1>1. IInv => NoStrayTask
    BY DEF IInv, TimerInv, ScanInv, NoStrayTask
  <1>2. QED  BY Invariance, <1>1, PTL

\* An auto-lock was right about the idle time when it looked, so the activity it
\* can overrun is later than its check.
THEOREM LateActivityOnly == Spec => []LockOverrunsOnlyLateActivity
  <1>1. IInv => LockOverrunsOnlyLateActivity
    BY DEF IInv, TimerInv, LockOverrunsOnlyLateActivity
  <1>2. QED  BY Invariance, <1>1, PTL
=============================================================================
