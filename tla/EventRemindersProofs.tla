------------------------ MODULE EventRemindersProofs ------------------------
(***************************************************************************)
(* Safety of EventReminders for any starts, leads, scan loops and bounds.  *)
(***************************************************************************)
EXTENDS EventReminders, TLAPS

USE RemindersAssumption

Row == [state : FireStates, start : Starts \cup {0}]
Job == [at : 0..MaxTime, src : Sources \cup {None}, now : 0..MaxTime, due : SUBSET Starts,
        level : BOOLEAN, stop : BOOLEAN]

\* A row that exists belongs to a start of the event.
Dated(rows) == \A f \in FireTimes : rows[f].state # "none" => rows[f].start \in Starts

\* A registered session has a loop.  A scan has read the event, at a time not after now; only
\* a scan about to deliver has something due.
Scans ==
    /\ session.loop = None => session = NoSession
    /\ \A w \in Workers :
        /\ pc[w] = "commit" => job[w].src \in Sources /\ job[w].now <= clock
        /\ pc[w] # "deliver" => job[w].due = {}

Typed == TypeOK /\ Dated(fires) /\ Scans

LEMMA Basics ==
    /\ Starts \subseteq Int /\ FireTimes \subseteq Int /\ None \notin FireTimes
    /\ NoFire \in Row /\ NoJob \in Job /\ NoJob.due = {} /\ NoFire.state = "none"
    /\ None \notin Workers /\ "prefs" \in Workers /\ Loops \subseteq Workers
    /\ NoSession \in [loop : Loops \cup {None}, at : 0..MaxTime] /\ NoSession.loop = None
  <1>1. Starts \subseteq Int /\ FireTimes \subseteq Int /\ None \notin FireTimes
    BY DEF FireTimes
  <1>2. NoFire \in Row /\ NoFire.state = "none"
    BY DEF NoFire, Row, FireStates
  <1>3. NoJob \in Job /\ NoJob.due = {}
    BY DEF NoJob, Job
  <1>4. "prefs" \in Workers /\ Loops \subseteq Workers
    BY DEF Workers
  <1>5. None \notin Workers
    BY DEF Workers
  <1>6. NoSession \in [loop : Loops \cup {None}, at : 0..MaxTime] /\ NoSession.loop = None
    BY DEF NoSession
  <1>7. QED  BY <1>1, <1>2, <1>3, <1>4, <1>5, <1>6

-----------------------------------------------------------------------------
(* What a scan's transaction does. *)

\* The rows after a changed start and a changed desired fire: fired and missed rows stay so.
LEMMA Prepared ==
    ASSUME NEW rows \in [FireTimes -> Row], Dated(rows), NEW s \in Starts, NEW keep
    PROVE  LET r == drop_scheduled(FollowStart(rows, s), keep)
           IN  /\ r \in [FireTimes -> Row] /\ Dated(r)
               /\ \A f \in FireTimes : /\ rows[f].state = "fired" <=> r[f].state = "fired"
                                       /\ rows[f].state = "missed" <=> r[f].state = "missed"
                                       /\ rows[f].state = "fired" => r[f] = rows[f]
  <1> DEFINE g == FollowStart(rows, s)
             r == drop_scheduled(g, keep)
  <1>1. g \in [FireTimes -> Row]
    BY DEF FollowStart, Row
  <1>2. \A f \in FireTimes : /\ g[f].state = rows[f].state
                             /\ rows[f].state # "missed" => g[f] = rows[f]
                             /\ rows[f].state = "missed" => g[f].start = s
    BY DEF FollowStart, Row
  <1> HIDE DEF g
  <1>3. "dropped" \in FireStates
    BY DEF FireStates
  <1>4. r \in [FireTimes -> Row]
    BY <1>1, <1>3 DEF drop_scheduled, Row
  <1>5. \A f \in FireTimes : /\ g[f].state # "scheduled" => r[f] = g[f]
                             /\ g[f].state = "scheduled" => r[f].state \in {"scheduled", "dropped"}
                             /\ r[f].start = g[f].start
    BY <1>1 DEF drop_scheduled, Row
  <1> HIDE DEF r
  <1>6. Dated(r)
    BY <1>2, <1>5 DEF Dated
  <1>7. \A f \in FireTimes : /\ rows[f].state = "fired" <=> r[f].state = "fired"
                             /\ rows[f].state = "missed" <=> r[f].state = "missed"
                             /\ rows[f].state = "fired" => r[f] = rows[f]
    BY <1>2, <1>5
  <1>8. QED  BY <1>4, <1>6, <1>7 DEF r, g

\* An event that is gone keeps no scheduled row, and every other one.
LEMMA Orphaned ==
    ASSUME NEW rows \in [FireTimes -> Row], Dated(rows)
    PROVE  LET r == drop_scheduled(rows, None)
           IN  /\ r \in [FireTimes -> Row] /\ Dated(r)
               /\ \A f \in FireTimes : /\ rows[f].state \in {"fired", "missed"} => r[f] = rows[f]
                                       /\ r[f].state \in {"fired", "missed"} => r[f] = rows[f]
  <1> DEFINE r == drop_scheduled(rows, None)
  <1>1. "dropped" \in FireStates
    BY DEF FireStates
  <1>2. r \in [FireTimes -> Row]
    BY <1>1 DEF drop_scheduled, Row
  <1>3. \A f \in FireTimes : /\ rows[f].state # "scheduled" => r[f] = rows[f]
                             /\ rows[f].state = "scheduled" => r[f].state \in {"scheduled", "dropped"}
                             /\ r[f].start = rows[f].start
    BY DEF drop_scheduled, Row
  <1> HIDE DEF r
  <1>4. Dated(r)
    BY <1>3 DEF Dated
  <1>5. QED  BY <1>2, <1>3, <1>4 DEF r

\* A fired or a missed row is final, and one start fires once.
LEMMA NextState ==
    ASSUME NEW rows \in [FireTimes -> Row], NEW fire \in FireTimes, NEW s \in Starts,
           NEW now \in Nat, NEW at \in Nat
    PROVE  LET n == next_state(rows, fire, s, now, at)
           IN  /\ n \in FireStates
               /\ rows[fire].state \in {"fired", "missed"} => n = "none"
               /\ n = "fired" => ~fired_for_start(rows, s)
  BY DEF next_state, FireStates

LEMMA Commits ==
    ASSUME Typed, OpenEntryHasRow, NEW w \in Workers, ScanCommit(w)
    PROVE  LET s == job[w].src.start
               n == job[w].now
           IN  /\ fires' \in [FireTimes -> Row] /\ Dated(fires') /\ OpenEntryHasRow'
               /\ entry' \in [FireTimes -> {"none", "open", "resolved"}]
               /\ \A f \in FireTimes : fires[f].state = "fired" /\ Kept(fires[f], n) => fires'[f] = fires[f]
               /\ \A f \in FireTimes : fires'[f].state = "fired" =>
                        fires'[f] = fires[f] \/ job'[w].due = {fires'[f].start}
               /\ job'[w] \in Job /\ (job'[w].due # {} => job'[w].level \/ "db" \notin chat)
               /\ \A v \in Workers \ {w} : job'[v] = job[v]
               /\ \/ job'[w].due = {}
                  \/ /\ job'[w].due = {s} /\ s \in Starts /\ n < s + Grace
                     /\ ~fired_for_start(fires, s) /\ fired_for_start(fires', s)
  <1> DEFINE j == job[w]
             s == j.src.start
             n == j.now
             fire == desired_fire(j.src)
             rows == IF j.src.here THEN drop_scheduled(FollowStart(fires, s), fire) ELSE fires
             next == IF fire = None \/ s + Grace <= n THEN "none"
                     ELSE next_state(rows, fire, s, n, j.at)
             upserted == IF next = "none" THEN rows
                         ELSE [rows EXCEPT ![fire] = [state |-> next, start |-> s]]
             written == IF event.here THEN upserted ELSE drop_scheduled(upserted, None)
             listed == IF next = "missed" /\ entry[fire] = "none"
                       THEN [entry EXCEPT ![fire] = "open"] ELSE entry
             due == IF next = "fired" THEN {s} ELSE {}
  <1>1. /\ pc[w] = "commit"
        /\ fires' = [f \in FireTimes |-> IF Kept(written[f], n) THEN written[f] ELSE NoFire]
        /\ entry' = [f \in FireTimes |-> IF started(written[f], n) /\ listed[f] = "open"
                                         THEN "resolved" ELSE listed[f]]
        /\ job' = [job EXCEPT ![w] = [NoJob EXCEPT !.due = due,
                                                   !.level = next = "fired" /\ "db" \in chat,
                                                   !.stop = j.stop]]
    BY DEF ScanCommit
  <1>2. /\ j \in Job /\ j.src \in Sources /\ s \in Starts /\ n \in Nat /\ j.at \in Nat
        /\ fires \in [FireTimes -> Row] /\ entry \in [FireTimes -> {"none", "open", "resolved"}]
        /\ job \in [Workers -> Job] /\ Dated(fires)
    <2>1. /\ job \in [Workers -> Job] /\ fires \in [FireTimes -> Row] /\ Dated(fires)
          /\ entry \in [FireTimes -> {"none", "open", "resolved"}]
      BY DEF Typed, TypeOK, Job, Row
    <2>2. j \in Job /\ n \in Nat /\ j.at \in Nat
      BY <2>1 DEF Job
    <2>3. j.src \in Sources
      BY <1>1 DEF Typed, Scans
    <2>4. s \in Starts
      BY <2>3 DEF Sources
    <2>5. QED  BY <2>1, <2>2, <2>3, <2>4
  <1>3. fire = None \/ fire \in FireTimes
    <2>1. j.src.lead \in Leads /\ s \in Starts
      BY <1>2 DEF Sources
    <2>2. fire = None \/ fire = s - j.src.lead
      BY DEF desired_fire
    <2> HIDE DEF fire, s
    <2>3. \A a \in Starts, b \in Leads : a - b \in FireTimes
      BY DEF FireTimes
    <2>4. QED  BY <2>1, <2>2, <2>3
  <1> HIDE DEF j, s, n
  <1> HIDE DEF fire
  <1>4. /\ rows \in [FireTimes -> Row] /\ Dated(rows)
        /\ \A f \in FireTimes : /\ fires[f].state = "fired" <=> rows[f].state = "fired"
                                /\ fires[f].state = "missed" <=> rows[f].state = "missed"
                                /\ fires[f].state = "fired" => rows[f] = fires[f]
    BY <1>2, Prepared
  <1> HIDE DEF rows
  <1>5. /\ next \in FireStates
        /\ next # "none" => /\ fire \in FireTimes /\ n < s + Grace
                            /\ rows[fire].state \notin {"fired", "missed"}
        /\ next = "fired" => ~fired_for_start(rows, s)
    <2>1. CASE fire = None \/ s + Grace <= n
      BY <2>1 DEF FireStates
    <2>2. CASE ~(fire = None \/ s + Grace <= n)
      <3>1. fire \in FireTimes
        BY <1>3, <2>2
      <3>2. n < s + Grace
        BY <1>2, <2>2
      <3>3. next = next_state(rows, fire, s, n, j.at)
        BY <2>2
      <3> HIDE DEF next
      <3>4. QED  BY <1>2, <1>4, <3>1, <3>2, <3>3, NextState
    <2>3. QED  BY <2>1, <2>2
  <1> HIDE DEF next
  <1>6. /\ upserted \in [FireTimes -> Row]
        /\ next = "none" => upserted = rows
        /\ next # "none" => /\ upserted[fire] = [state |-> next, start |-> s]
                            /\ \A f \in FireTimes \ {fire} : upserted[f] = rows[f]
    BY <1>2, <1>4, <1>5 DEF Row
  <1> HIDE DEF upserted
  <1>6a. Dated(upserted)
    BY <1>2, <1>4, <1>5, <1>6 DEF Dated
  <1>6b. /\ written \in [FireTimes -> Row] /\ Dated(written)
         /\ \A f \in FireTimes : /\ upserted[f].state \in {"fired", "missed"} => written[f] = upserted[f]
                                 /\ written[f].state \in {"fired", "missed"} => written[f] = upserted[f]
    <2>1. CASE event.here
      BY <1>6, <1>6a, <2>1
    <2>2. CASE ~event.here
      BY <1>6, <1>6a, <2>2, Orphaned
    <2>3. QED  BY <2>1, <2>2
  <1> HIDE DEF written
  <1>7. \A f \in FireTimes : /\ rows[f].state \in {"fired", "missed"} => written[f] = rows[f]
                             /\ written[f].state = "fired" => written[f] = rows[f] \/ (next = "fired" /\ written[f].start = s)
    <2>1. \A f \in FireTimes : /\ rows[f].state \in {"fired", "missed"} => upserted[f] = rows[f]
                               /\ upserted[f].state = "fired" => upserted[f] = rows[f] \/ (next = "fired" /\ upserted[f].start = s)
      BY <1>5, <1>6
    <2>2. QED  BY <1>6b, <2>1
  <1>8. Dated(written)
    BY <1>6b
  <1>9. /\ fires' \in [FireTimes -> Row] /\ Dated(fires')
        /\ \A f \in FireTimes : /\ Kept(written[f], n) => fires'[f] = written[f]
                                /\ ~Kept(written[f], n) => fires'[f].state = "none"
    BY <1>1, <1>6b, Basics DEF Dated
  <1>10. \A f \in FireTimes : fires[f].state = "fired" /\ Kept(fires[f], n) => fires'[f] = fires[f]
    BY <1>4, <1>7, <1>9
  <1>11. \A f \in FireTimes : fires'[f].state = "fired" =>
                        fires'[f] = fires[f] \/ (next = "fired" /\ fires'[f].start = s)
    BY <1>4, <1>7, <1>9
  <1>12. /\ job'[w].due = due /\ job'[w] \in Job
         /\ job'[w].due # {} => job'[w].level \/ "db" \notin chat
         /\ \A v \in Workers \ {w} : job'[v] = job[v]
    <2>1. due \in SUBSET Starts /\ (due # {} => next = "fired")
      BY <1>2
    <2> HIDE DEF due
    <2> DEFINE k == [NoJob EXCEPT !.due = due, !.level = next = "fired" /\ "db" \in chat, !.stop = j.stop]
    <2>2. /\ k \in Job /\ k.due = due /\ (k.level <=> next = "fired" /\ "db" \in chat)
      BY <1>2, <2>1, Basics DEF Job, NoJob
    <2>3. job' = [job EXCEPT ![w] = k]
      BY <1>1
    <2> HIDE DEF k
    <2>4. QED  BY <1>2, <2>1, <2>2, <2>3
  <1>13. \A f \in FireTimes : fires'[f].state = "fired" =>
                        fires'[f] = fires[f] \/ job'[w].due = {fires'[f].start}
    BY <1>11, <1>12
  <1>14. \/ job'[w].due = {}
         \/ /\ job'[w].due = {s} /\ s \in Starts /\ n < s + Grace
            /\ ~fired_for_start(fires, s) /\ fired_for_start(fires', s)
    <2>1. CASE next # "fired"
      BY <1>12, <2>1
    <2>2. CASE next = "fired"
      <3>1. job'[w].due = {s} /\ n < s + Grace /\ fire \in FireTimes
        BY <1>5, <1>12, <2>2
      <3>2. ~fired_for_start(fires, s)
        <4>1. ~fired_for_start(rows, s)
          BY <1>5, <2>2
        <4>2. \A f \in FireTimes : fires[f] = [state |-> "fired", start |-> s] => rows[f] = fires[f]
          BY <1>4
        <4>3. QED  BY <4>1, <4>2 DEF fired_for_start
      <3>3. written[fire] = [state |-> "fired", start |-> s]
        BY <1>6, <1>6b, <2>2, <3>1
      <3>4. Kept(written[fire], n)
        BY <1>2, <3>1, <3>3 DEF Kept
      <3>5. fired_for_start(fires', s)
        BY <1>9, <3>1, <3>3, <3>4 DEF fired_for_start
      <3>6. QED  BY <1>2, <3>1, <3>2, <3>5
    <2>3. QED  BY <2>1, <2>2
  <1>15. /\ listed \in [FireTimes -> {"none", "open", "resolved"}]
         /\ \A f \in FireTimes : listed[f] = "open" => written[f].state = "missed"
    <2>1. CASE next = "missed" /\ entry[fire] = "none"
      <3>1. listed = [entry EXCEPT ![fire] = "open"] /\ fire \in FireTimes
            /\ written[fire].state = "missed"
        BY <1>5, <1>6, <1>6b, <2>1
      <3>2. \A f \in FireTimes : entry[f] = "open" => written[f].state = "missed"
        BY <1>4, <1>7 DEF OpenEntryHasRow
      <3>3. QED  BY <1>2, <3>1, <3>2
    <2>2. CASE ~(next = "missed" /\ entry[fire] = "none")
      <3>1. listed = entry
        BY <2>2
      <3>2. QED  BY <1>2, <1>4, <1>7, <3>1 DEF OpenEntryHasRow
    <2>3. QED  BY <2>1, <2>2
  <1> HIDE DEF listed
  <1>16. /\ entry' \in [FireTimes -> {"none", "open", "resolved"}]
         /\ \A f \in FireTimes : entry'[f] = "open" => listed[f] = "open" /\ ~started(written[f], n)
    BY <1>1, <1>15
  <1>17. ASSUME NEW f \in FireTimes, entry'[f] = "open"  PROVE  fires'[f].state = "missed"
    <2>1. written[f].state = "missed" /\ ~started(written[f], n)
      BY <1>15, <1>16, <1>17
    <2>2. written[f].start \in Nat
      BY <1>8, <2>1 DEF Dated
    <2>3. Kept(written[f], n)
      BY <1>2, <2>1, <2>2 DEF Kept, started
    <2>4. QED  BY <1>9, <2>1, <2>3
  <1>18. QED
    BY <1>9, <1>10, <1>12, <1>13, <1>14, <1>16, <1>17 DEF OpenEntryHasRow, j, s, n

-----------------------------------------------------------------------------
(* Types. *)

Pcs == {"idle", "resolve", "wait", "commit", "deliver"}
LockHeld == \A w \in Workers : pc[w] \in {"commit", "deliver"} <=> scanLock = w

\* A worker that ends is idle with nothing due and without the lock.
LEMMA EndFrame ==
    ASSUME Typed, NEW w \in Workers, End(w)
    PROVE  /\ pc' \in [Workers -> Pcs] /\ job' \in [Workers -> Job]
           /\ scanLock' \in Workers \cup {None} /\ LockHeld'
           /\ pc'[w] = "idle" /\ job'[w] = NoJob
           /\ \A v \in Workers \ {w} : pc'[v] = pc[v] /\ job'[v] = job[v]
  <1>1. /\ pc \in [Workers -> Pcs] /\ job \in [Workers -> Job] /\ NoJob \in Job
        /\ scanLock \in Workers \cup {None} /\ LockHeld
    BY Basics DEF Typed, TypeOK, Pcs, Job, LockHeld
  <1>2. /\ pc' \in [Workers -> Pcs] /\ pc'[w] = "idle" /\ \A v \in Workers \ {w} : pc'[v] = pc[v]
    BY <1>1 DEF End, Pcs
  <1>3. job' \in [Workers -> Job] /\ job'[w] = NoJob /\ \A v \in Workers \ {w} : job'[v] = job[v]
    BY <1>1 DEF End
  <1>4. scanLock' \in Workers \cup {None} /\ LockHeld'
    <2>1. scanLock' = IF scanLock = w THEN None ELSE scanLock
      BY DEF End
    <2>2. QED  BY <1>1, <1>2, <2>1, Basics DEF LockHeld
  <1>5. QED  BY <1>2, <1>3, <1>4

\* Whatever a worker's locals become, the others keep theirs.
LEMMA JobNext ==
    ASSUME Typed, NEW w \in Workers, NEW k \in Job, job' = [job EXCEPT ![w] = k]
    PROVE  job' \in [Workers -> Job] /\ job'[w] = k /\ \A v \in Workers \ {w} : job'[v] = job[v]
  BY DEF Typed, TypeOK, Job

LEMMA PcNext ==
    ASSUME Typed, NEW w \in Workers, NEW p \in Pcs, pc' = [pc EXCEPT ![w] = p]
    PROVE  pc' \in [Workers -> Pcs] /\ pc'[w] = p /\ \A v \in Workers \ {w} : pc'[v] = pc[v]
  BY DEF Typed, TypeOK, Pcs

LEMMA ResolvedType ==
    ASSUME Typed
    PROVE  /\ Resolved \in [FireTimes -> {"none", "open", "resolved"}]
           /\ \A f \in FireTimes : Resolved[f] # "open"
  BY DEF Typed, TypeOK, Resolved

\* The loop of the registered session, when it is locked.
LEMMA LockedLoop ==
    ASSUME Typed, session # NoSession
    PROVE  session.loop \in Loops /\ session.loop \in Workers
  BY Basics DEF Typed, TypeOK, Scans

LEMMA LockFrame ==
    ASSUME Typed, NEW w \in Workers, w = session.loop, Lock
    PROVE  /\ pc' \in [Workers -> Pcs] /\ job' \in [Workers -> Job]
           /\ scanLock' \in Workers \cup {None} /\ LockHeld' /\ session' = NoSession
           /\ UNCHANGED <<clock, event, fires, entry, shown>>
           /\ \A v \in Workers \ {w} : pc'[v] = pc[v] /\ job'[v] = job[v]
           /\ \/ pc'[w] = "idle" /\ job'[w] = NoJob /\ cut' = cut \cup job[w].due
              \/ /\ pc[w] = "commit" /\ pc'[w] = pc[w] /\ cut' = cut /\ job'[w].due = job[w].due
                 /\ job'[w].src = job[w].src /\ job'[w].now = job[w].now
  <1>0. /\ session' = NoSession /\ UNCHANGED <<clock, event, fires, entry, shown>>
    BY DEF Lock, dbVars
  <1>1. CASE End(w) /\ cut' = cut \cup job[w].due
    BY <1>0, <1>1, EndFrame
  <1>2. CASE pc[w] = "commit" /\ job' = [job EXCEPT ![w].stop = TRUE] /\ UNCHANGED <<pc, scanLock, cut>>
    <2>1. job[w] \in Job /\ job \in [Workers -> Job]
      BY DEF Typed, TypeOK, Job
    <2> DEFINE k == [job[w] EXCEPT !.stop = TRUE]
    <2>2. k \in Job /\ k.due = job[w].due /\ k.src = job[w].src /\ k.now = job[w].now
      BY <2>1 DEF Job
    <2>3. job' = [job EXCEPT ![w] = k]
      BY <1>2, <2>1
    <2> HIDE DEF k
    <2>4. job' \in [Workers -> Job] /\ job'[w] = k /\ \A v \in Workers \ {w} : job'[v] = job[v]
      BY <2>2, <2>3, JobNext
    <2>5. pc' \in [Workers -> Pcs] /\ scanLock' \in Workers \cup {None} /\ LockHeld'
      BY <1>2 DEF Typed, TypeOK, Pcs, LockHeld
    <2>6. QED  BY <1>0, <1>2, <2>2, <2>4, <2>5
  <1>3. QED  BY <1>1, <1>2 DEF Lock

\* The prefs command goes on to its scan, or ends.
LEMMA ScanIfUnlockedFrame ==
    ASSUME Typed, pc["prefs"] \in {"idle", "resolve"},
           ScanIfUnlocked \/ (UNCHANGED job /\ \E p \in {"idle", "resolve"} : pc' = [pc EXCEPT !["prefs"] = p])
    PROVE  /\ pc' \in [Workers -> Pcs] /\ job' \in [Workers -> Job]
           /\ pc'["prefs"] \in {"idle", "resolve", "wait"}
           /\ job["prefs"].due = {} /\ job'["prefs"].due = {}
           /\ \A v \in Workers \ {"prefs"} : pc'[v] = pc[v] /\ job'[v] = job[v]
  <1>1. /\ pc \in [Workers -> Pcs] /\ job \in [Workers -> Job] /\ job["prefs"] \in Job
        /\ job["prefs"].due = {} /\ session.at \in 0..MaxTime
    BY Basics DEF Typed, TypeOK, Scans, Pcs, Job
  <1>2. ASSUME NEW p \in {"idle", "resolve", "wait"}, pc' = [pc EXCEPT !["prefs"] = p]
        PROVE  /\ pc' \in [Workers -> Pcs] /\ pc'["prefs"] = p
               /\ \A v \in Workers \ {"prefs"} : pc'[v] = pc[v]
    BY <1>2, PcNext, Basics DEF Pcs
  <1>3. CASE UNCHANGED job /\ \E p \in {"idle", "resolve"} : pc' = [pc EXCEPT !["prefs"] = p]
    BY <1>1, <1>2, <1>3
  <1>4. CASE UNCHANGED job /\ pc' = [pc EXCEPT !["prefs"] = "idle"]
    BY <1>1, <1>2, <1>4
  <1>5. CASE pc' = [pc EXCEPT !["prefs"] = "wait"] /\ job' = [job EXCEPT !["prefs"].at = session.at]
    <2> DEFINE k == [job["prefs"] EXCEPT !.at = session.at]
    <2>1. k \in Job /\ k.due = {}
      BY <1>1 DEF Job
    <2>2. job' = [job EXCEPT !["prefs"] = k]
      BY <1>1, <1>5, Basics
    <2> HIDE DEF k
    <2>3. job' \in [Workers -> Job] /\ job'["prefs"] = k /\ \A v \in Workers \ {"prefs"} : job'[v] = job[v]
      BY <2>1, <2>2, JobNext, Basics
    <2>4. QED  BY <1>1, <1>2, <1>5, <2>1, <2>3
  <1>6. QED  BY <1>3, <1>4, <1>5 DEF ScanIfUnlocked

ChatType == chat \subseteq {"state", "db"} /\ rowless \in BOOLEAN /\ silent \subseteq Starts

LEMMA ChatStep ==
    ASSUME Typed, [Next]_vars
    PROVE  ChatType'
  <1>1. ChatType
    BY DEF Typed, TypeOK, ChatType
  <1>2. CASE UNCHANGED <<chat, rowless, silent>>
    BY <1>1, <1>2 DEF ChatType
  <1>3. CASE ChangeChat
    <2>1. silent' = silent /\ rowless' = (rowless \/ "db" \notin chat')
      BY <1>3 DEF ChangeChat, historyVars
    <2>2. chat' \subseteq {"state", "db"}
      BY <1>1, <1>3 DEF ChangeChat, ChatType
    <2>3. QED  BY <1>1, <2>1, <2>2 DEF ChatType
  <1>4. CASE Crash
    BY <1>1, <1>4 DEF Crash, ChatType
  <1>5. ASSUME NEW w \in Workers, Deliver(w)  PROVE  ChatType'
    <2>1. job[w].due \subseteq Starts
      BY DEF Typed, TypeOK
    <2>2. UNCHANGED <<chat, rowless>> /\ silent' \in {silent, silent \cup job[w].due}
      BY <1>5 DEF Deliver, chatVars
    <2>3. QED  BY <1>1, <2>1, <2>2 DEF ChatType
  <1>6. QED
    BY <1>2, <1>3, <1>4, <1>5
    DEF Next, Scan, Tick, Lock, ChangeEvent, SetPrefs, PrefsResolve, ResolveCatchUp, Unlock, ScanStart,
        ScanCommit, ScanFail, LevelUnread, Aborted, chatVars, historyVars, vars

LEMMA TypedStep ==
    ASSUME Typed, OpenEntryHasRow, [Next]_vars
    PROVE  Typed'
  <1>0. /\ clock \in 0..MaxTime /\ event \in Sources /\ pc \in [Workers -> Pcs]
        /\ job \in [Workers -> Job] /\ fires \in [FireTimes -> Row] /\ Dated(fires)
        /\ LockHeld /\ Scans /\ scanLock \in Workers \cup {None}
        /\ session \in [loop : Loops \cup {None}, at : 0..MaxTime]
        /\ shown \in [Starts -> Nat] /\ cut \subseteq Starts
    BY DEF Typed, TypeOK, Pcs, Job, Row, LockHeld
  <1>c. ChatType'
    BY ChatStep
  <1>1. CASE UNCHANGED vars \/ ChangeChat
    <2>1. UNCHANGED <<clock, event, fires, entry, session, scanLock, pc, job, shown, cut>>
      BY <1>1 DEF vars, ChangeChat, dbVars, historyVars
    <2>2. QED  BY <1>c, <1>c, <2>1 DEF ChatType, Typed, TypeOK, Dated, Scans, ChatType
  <1>2. CASE Tick
    <2>1. clock' \in 0..MaxTime /\ clock <= clock'
      BY <1>0, <1>2 DEF Tick
    <2>2. UNCHANGED <<event, fires, entry, session, scanLock, pc, job, shown, cut>>
      BY <1>2 DEF Tick, dbVars, historyVars
    <2>3. Scans'
      <3>1. \A w \in Workers : job[w].now \in Nat
        BY <1>0 DEF Job
      <3>2. QED  BY <1>0, <2>1, <2>2, <3>1 DEF Scans
    <2>4. QED  BY <1>c, <2>1, <2>2, <2>3 DEF ChatType, Typed, TypeOK, Dated
  <1>3. CASE Lock
    <2>1. PICK w \in Workers : w = session.loop
      BY <1>3, LockedLoop DEF Lock
    <2>2. /\ pc' \in [Workers -> Pcs] /\ job' \in [Workers -> Job]
          /\ scanLock' \in Workers \cup {None} /\ LockHeld' /\ session' = NoSession
          /\ UNCHANGED <<clock, event, fires, entry, shown>>
          /\ \A v \in Workers \ {w} : pc'[v] = pc[v] /\ job'[v] = job[v]
          /\ \/ pc'[w] = "idle" /\ job'[w] = NoJob /\ cut' = cut \cup job[w].due
             \/ /\ pc[w] = "commit" /\ pc'[w] = pc[w] /\ cut' = cut /\ job'[w].due = job[w].due
                /\ job'[w].src = job[w].src /\ job'[w].now = job[w].now
      BY <1>3, <2>1, LockFrame
    <2>3. cut' \subseteq Starts
      BY <1>0, <2>2 DEF Job
    <2>4. Scans'
      BY <1>0, <2>2, Basics DEF Scans
    <2>5. session' \in [loop : Loops \cup {None}, at : 0..MaxTime]
      BY <2>2, Basics
    <2>6. QED  BY <1>c, <2>2, <2>3, <2>4, <2>5 DEF ChatType, Typed, TypeOK, Dated, Pcs, Job, LockHeld
  <1>4. CASE ChangeEvent
    <2>1. event' \in Sources
      BY <1>0, <1>4 DEF ChangeEvent, Sources
    <2>2. UNCHANGED <<clock, fires, entry, session, scanLock, pc, job, shown, cut>>
      BY <1>4 DEF ChangeEvent, dbVars, historyVars
    <2>3. QED  BY <1>c, <2>1, <2>2 DEF ChatType, Typed, TypeOK, Dated, Scans
  <1>5. CASE SetPrefs \/ PrefsResolve
    <2>1. event' \in Sources
      BY <1>0, <1>5 DEF SetPrefs, PrefsResolve, Sources
    <2>2. UNCHANGED <<clock, fires, session, scanLock, shown, cut>> /\ pc["prefs"] \in {"idle", "resolve"}
      BY <1>5 DEF SetPrefs, PrefsResolve, dbVars, historyVars
    <2>3. entry' \in [FireTimes -> {"none", "open", "resolved"}]
      <3>1. entry' \in {entry, Resolved}
        BY <1>5 DEF SetPrefs, PrefsResolve, dbVars
      <3>2. QED  BY <3>1, ResolvedType DEF Typed, TypeOK
    <2>4. ScanIfUnlocked \/ (UNCHANGED job /\ \E p \in {"idle", "resolve"} : pc' = [pc EXCEPT !["prefs"] = p])
      BY <1>5 DEF SetPrefs, PrefsResolve
    <2>5. /\ pc' \in [Workers -> Pcs] /\ job' \in [Workers -> Job]
          /\ pc'["prefs"] \in {"idle", "resolve", "wait"}
          /\ job["prefs"].due = {} /\ job'["prefs"].due = {}
          /\ \A v \in Workers \ {"prefs"} : pc'[v] = pc[v] /\ job'[v] = job[v]
      BY <2>2, <2>4, ScanIfUnlockedFrame
    <2>6. LockHeld'
      BY <1>0, <2>2, <2>5, Basics DEF LockHeld
    <2>7. Scans'
      BY <1>0, <2>2, <2>5, Basics DEF Scans
    <2>8. QED  BY <1>c, <2>1, <2>2, <2>3, <2>5, <2>6, <2>7
               DEF ChatType, Typed, TypeOK, Dated, Pcs, Job, LockHeld
  <1>6. CASE ResolveCatchUp
    <2>1. entry' \in [FireTimes -> {"none", "open", "resolved"}]
      BY <1>6, ResolvedType DEF ResolveCatchUp
    <2>2. UNCHANGED <<clock, event, fires, session, scanLock, pc, job, shown, cut>>
      BY <1>6 DEF ResolveCatchUp, historyVars
    <2>3. QED  BY <1>c, <2>1, <2>2 DEF ChatType, Typed, TypeOK, Dated, Scans
  <1>7. CASE Crash
    <2>1. /\ pc' = [w \in Workers |-> "idle"] /\ job' = [w \in Workers |-> NoJob]
          /\ session' = NoSession /\ scanLock' = None /\ UNCHANGED <<clock, event, fires, entry, shown>>
          /\ cut' = cut \cup UNION {job[w].due : w \in Workers}
      BY <1>7 DEF Crash, dbVars
    <2>2. cut' \subseteq Starts
      <3>1. \A w \in Workers : job[w].due \subseteq Starts
        BY <1>0 DEF Job
      <3>2. QED  BY <1>0, <2>1, <3>1
    <2>3. pc' \in [Workers -> Pcs] /\ job' \in [Workers -> Job] /\ LockHeld' /\ Scans'
      BY <2>1, Basics DEF Pcs, LockHeld, Scans
    <2>4. session' \in [loop : Loops \cup {None}, at : 0..MaxTime]
      BY <2>1, Basics
    <2>5. QED  BY <1>c, <2>1, <2>2, <2>3, <2>4 DEF ChatType, Typed, TypeOK, Dated, Pcs, Job, LockHeld
  <1>8. ASSUME NEW w \in Loops, Unlock(w)  PROVE  Typed'
    <2>1. session' = [loop |-> w, at |-> clock]
          /\ UNCHANGED <<clock, event, fires, entry, scanLock, pc, job, shown, cut>>
      BY <1>8 DEF Unlock, dbVars, historyVars
    <2>2. session' \in [loop : Loops \cup {None}, at : 0..MaxTime] /\ session'.loop # None
      BY <1>0, <2>1, Basics
    <2>3. QED  BY <1>c, <2>1, <2>2 DEF ChatType, Typed, TypeOK, Dated, Scans
  <1>9. ASSUME NEW w \in Workers, ScanStart(w)  PROVE  Typed'
    <2> DEFINE k == [at |-> IF w \in Loops THEN session.at ELSE job[w].at,
                     src |-> event, now |-> clock, due |-> {}, level |-> FALSE, stop |-> FALSE]
    <2>1. /\ scanLock = None /\ scanLock' = w /\ pc' = [pc EXCEPT ![w] = "commit"]
          /\ job' = [job EXCEPT ![w] = k]
          /\ UNCHANGED <<clock, event, fires, entry, session, shown, cut>>
      BY <1>9 DEF ScanStart, dbVars, historyVars
    <2>2. k \in Job /\ k.src = event /\ k.now = clock /\ k.due = {}
      BY <1>0 DEF Job
    <2> HIDE DEF k
    <2>3. job' \in [Workers -> Job] /\ job'[w] = k /\ \A v \in Workers \ {w} : job'[v] = job[v]
      BY <2>1, <2>2, JobNext
    <2>4. pc' \in [Workers -> Pcs] /\ pc'[w] = "commit" /\ \A v \in Workers \ {w} : pc'[v] = pc[v]
      BY <2>1, PcNext DEF Pcs
    <2>5. LockHeld'
      BY <1>0, <2>1, <2>4, Basics DEF LockHeld
    <2>6. Scans'
      BY <1>0, <2>1, <2>2, <2>3, <2>4 DEF Scans
    <2>7. QED  BY <1>c, <2>1, <2>3, <2>4, <2>5, <2>6 DEF ChatType, Typed, TypeOK, Dated, Pcs, Job, LockHeld
  <1>10. ASSUME NEW w \in Workers, ScanCommit(w)  PROVE  Typed'
    <2>1. /\ pc[w] = "commit" /\ pc' = [pc EXCEPT ![w] = "deliver"]
          /\ UNCHANGED <<clock, event, session, scanLock, shown, cut>>
      BY <1>10 DEF ScanCommit, historyVars
    <2>2. /\ fires' \in [FireTimes -> Row] /\ Dated(fires')
          /\ entry' \in [FireTimes -> {"none", "open", "resolved"}]
          /\ job'[w] \in Job /\ \A v \in Workers \ {w} : job'[v] = job[v]
      BY <1>10, Commits
    <2>3. PICK k : job' = [job EXCEPT ![w] = k]
      BY <1>10 DEF ScanCommit
    <2>4. job' \in [Workers -> Job]
      BY <1>0, <2>2, <2>3
    <2>5. pc' \in [Workers -> Pcs] /\ pc'[w] = "deliver" /\ \A v \in Workers \ {w} : pc'[v] = pc[v]
      BY <2>1, PcNext DEF Pcs
    <2>6. LockHeld' /\ Scans'
      BY <1>0, <2>1, <2>2, <2>5 DEF LockHeld, Scans
    <2>7. QED  BY <1>c, <1>0, <2>1, <2>2, <2>4, <2>5, <2>6 DEF ChatType, Typed, TypeOK, Dated, Pcs, Job, Row, LockHeld
  <1>11. ASSUME NEW w \in Workers, Deliver(w) \/ Aborted(w) \/ LevelUnread(w) \/ ScanFail(w)  PROVE  Typed'
    <2>1. /\ End(w) /\ UNCHANGED <<clock, event, fires, entry, session>>
          /\ cut' = cut \/ cut' = cut \cup job[w].due
          /\ shown' = shown \/ shown' = [s \in Starts |-> IF s \in job[w].due THEN shown[s] + 1 ELSE shown[s]]
      BY <1>11 DEF Deliver, Aborted, LevelUnread, ScanFail, dbVars, historyVars
    <2>2. /\ pc' \in [Workers -> Pcs] /\ job' \in [Workers -> Job]
          /\ scanLock' \in Workers \cup {None} /\ LockHeld'
          /\ pc'[w] = "idle" /\ job'[w] = NoJob
          /\ \A v \in Workers \ {w} : pc'[v] = pc[v] /\ job'[v] = job[v]
      BY <2>1, EndFrame
    <2>3. cut' \subseteq Starts /\ shown' \in [Starts -> Nat]
      <3>1. job[w].due \subseteq Starts
        BY <1>0 DEF Job
      <3>2. cut' \subseteq Starts
        BY <1>0, <2>1, <3>1
      <3>3. shown' \in [Starts -> Nat]
        BY <1>0, <2>1
      <3>4. QED  BY <3>2, <3>3
    <2>4. Scans'
      BY <1>0, <2>1, <2>2, Basics DEF Scans
    <2>5. QED  BY <1>c, <2>1, <2>2, <2>3, <2>4 DEF ChatType, Typed, TypeOK, Dated, Pcs, Job, LockHeld
  <1>12. QED
    BY <1>1, <1>2, <1>3, <1>4, <1>5, <1>6, <1>7, <1>8, <1>9, <1>10, <1>11 DEF Next, Scan

-----------------------------------------------------------------------------
(* One reminder per start. *)

\* The reminder for a start was handed over, cut off or skipped, or is about to be handed over.
Handled(s) == shown[s] > 0 \/ s \in cut \cup silent \/ \E w \in Workers : s \in job[w].due

\* Such a start keeps its fired row until no scan, present or later, would fire it again.
RowUntilPast ==
    \A s \in Starts : Handled(s) /\ ~fired_for_start(fires, s) =>
        /\ s + Grace <= clock
        /\ \A w \in Workers : pc[w] = "commit" => s + Grace <= job[w].now
FiredHandled == \A f \in FireTimes : fires[f].state = "fired" => Handled(fires[f].start)
ShownOnce == \A s \in Starts : shown[s] <= 1 /\ \A w \in Workers : s \in job[w].due => shown[s] = 0
Settled == RowUntilPast /\ FiredHandled /\ ShownOnce

\* Only the holder of SCAN_LOCK has something due.
LEMMA OneDue ==
    ASSUME Typed, NEW v \in Workers, NEW w \in Workers, job[v].due # {}, pc[w] \in {"commit", "deliver"}
    PROVE  v = w
  BY DEF Typed, TypeOK, Scans

\* Steps that neither scan nor show.
LEMMA SettledFrame ==
    ASSUME Typed, Settled, UNCHANGED <<fires, shown>>, clock' \in Nat, clock <= clock',
           \A s \in Starts : Handled(s)' <=> Handled(s),
           \A w \in Workers : /\ job'[w].due = {} \/ job'[w].due = job[w].due
                              /\ pc'[w] = "commit" => (pc[w] = "commit" /\ job'[w].now = job[w].now)
                                                      \/ job'[w].now = clock
    PROVE  Settled'
  <1>1. clock \in Nat /\ Starts \subseteq Nat
    BY DEF Typed, TypeOK
  <1>2. RowUntilPast'
    <2>1. \A s \in Starts : fired_for_start(fires, s)' <=> fired_for_start(fires, s)
      BY DEF fired_for_start
    <2>2. QED  BY <1>1, <2>1 DEF Settled, RowUntilPast
  <1>3. FiredHandled'
    <2>1. \A f \in FireTimes : fires[f].state = "fired" => fires[f].start \in Starts
      BY DEF Typed, Dated
    <2>2. QED  BY <2>1 DEF Settled, FiredHandled
  <1>4. ShownOnce'
    BY DEF Settled, ShownOnce
  <1>5. QED  BY <1>2, <1>3, <1>4 DEF Settled

LEMMA SettledStep ==
    ASSUME Typed, OpenEntryHasRow, Settled, [Next]_vars
    PROVE  Settled'
  <1>0. /\ clock \in Nat /\ Starts \subseteq Nat /\ MaxTime \in Nat /\ shown \in [Starts -> Nat]
        /\ fires \in [FireTimes -> Row] /\ \A w \in Workers : job[w].now \in Nat
        /\ \A f \in FireTimes : fires[f].state = "fired" => fires[f].start \in Starts
    BY DEF Typed, TypeOK, Row, Dated
  <1>1. CASE UNCHANGED vars
    BY <1>0, <1>1, SettledFrame DEF vars, Handled
  <1>2. CASE Tick \/ ChangeEvent \/ ChangeChat \/ ResolveCatchUp \/ \E w \in Loops : Unlock(w)
    <2>1. UNCHANGED <<fires, shown, cut, silent, pc, job>> /\ clock' \in Nat /\ clock <= clock'
      BY <1>0, <1>2 DEF Tick, ChangeEvent, ChangeChat, ResolveCatchUp, Unlock, dbVars, historyVars
    <2>2. QED  BY <2>1, SettledFrame DEF Handled
  <1>3. CASE SetPrefs \/ PrefsResolve
    <2>1. UNCHANGED <<fires, shown, cut, silent, clock>> /\ pc["prefs"] \in {"idle", "resolve"}
      BY <1>3 DEF SetPrefs, PrefsResolve, dbVars, historyVars
    <2>2. ScanIfUnlocked \/ (UNCHANGED job /\ \E p \in {"idle", "resolve"} : pc' = [pc EXCEPT !["prefs"] = p])
      BY <1>3 DEF SetPrefs, PrefsResolve
    <2>3. /\ pc'["prefs"] \in {"idle", "resolve", "wait"}
          /\ job["prefs"].due = {} /\ job'["prefs"].due = {}
          /\ \A v \in Workers \ {"prefs"} : pc'[v] = pc[v] /\ job'[v] = job[v]
      BY <2>1, <2>2, ScanIfUnlockedFrame
    <2>4. \A w \in Workers : /\ job'[w].due = job[w].due
                             /\ pc'[w] = "commit" => pc[w] = "commit" /\ job'[w].now = job[w].now
      BY <2>3
    <2>5. \A s \in Starts : Handled(s)' <=> Handled(s)
      BY <2>1, <2>4 DEF Handled
    <2>6. QED  BY <1>0, <2>1, <2>4, <2>5, SettledFrame
  <1>4. CASE Lock
    <2>1. PICK w \in Workers : w = session.loop
      BY <1>4, LockedLoop DEF Lock
    <2>2. /\ UNCHANGED <<clock, fires, shown>>
          /\ \A v \in Workers \ {w} : pc'[v] = pc[v] /\ job'[v] = job[v]
          /\ \/ pc'[w] = "idle" /\ job'[w] = NoJob /\ cut' = cut \cup job[w].due
             \/ /\ pc[w] = "commit" /\ pc'[w] = pc[w] /\ cut' = cut /\ job'[w].due = job[w].due
                /\ job'[w].now = job[w].now
      BY <1>4, <2>1, LockFrame
    <2>s. silent' = silent
      BY <1>4 DEF Lock
    <2>3. \A s \in Starts : Handled(s)' <=> Handled(s)
      BY <2>2, <2>s, Basics DEF Handled
    <2>4. QED  BY <1>0, <2>2, <2>3, Basics, SettledFrame
  <1>5. CASE Crash
    <2>1. /\ UNCHANGED <<clock, fires, shown, silent>> /\ cut' = cut \cup UNION {job[w].due : w \in Workers}
          /\ \A w \in Workers : pc'[w] = "idle" /\ job'[w] = NoJob
      BY <1>5 DEF Crash, dbVars
    <2>2. \A s \in Starts : Handled(s)' <=> Handled(s)
      BY <2>1, Basics DEF Handled
    <2>3. QED  BY <1>0, <2>1, <2>2, Basics, SettledFrame
  <1>6. ASSUME NEW w \in Workers, ScanStart(w)  PROVE  Settled'
    <2>1. /\ UNCHANGED <<clock, fires, shown, cut, silent>> /\ pc[w] \in {"idle", "wait"}
          /\ pc' = [pc EXCEPT ![w] = "commit"]
      BY <1>6 DEF ScanStart, dbVars, historyVars
    <2>2. PICK a : job' = [job EXCEPT ![w] = [at |-> a, src |-> event, now |-> clock, due |-> {}, level |-> FALSE, stop |-> FALSE]]
      BY <1>6 DEF ScanStart
    <2>3. job'[w].due = {} /\ job'[w].now = clock /\ \A v \in Workers \ {w} : job'[v] = job[v] /\ pc'[v] = pc[v]
      BY <2>1, <2>2 DEF Typed, TypeOK
    <2>4. job[w].due = {}
      BY <2>1 DEF Typed, Scans
    <2>5. \A s \in Starts : Handled(s)' <=> Handled(s)
      BY <2>1, <2>3, <2>4 DEF Handled
    <2>6. QED  BY <1>0, <2>1, <2>3, <2>5, SettledFrame
  <1>7. ASSUME NEW w \in Workers, ScanCommit(w)  PROVE  Settled'
    <2> DEFINE s0 == job[w].src.start
               n == job[w].now
    <2>1. /\ pc[w] = "commit" /\ pc' = [pc EXCEPT ![w] = "deliver"]
          /\ UNCHANGED <<clock, shown, cut, silent>>
      BY <1>7 DEF ScanCommit, historyVars
    <2>2. /\ \A f \in FireTimes : fires[f].state = "fired" /\ Kept(fires[f], n) => fires'[f] = fires[f]
          /\ \A f \in FireTimes : fires'[f].state = "fired" =>
                 fires'[f] = fires[f] \/ job'[w].due = {fires'[f].start}
          /\ \A v \in Workers \ {w} : job'[v] = job[v]
          /\ \/ job'[w].due = {}
             \/ /\ job'[w].due = {s0} /\ s0 \in Starts /\ n < s0 + Grace
                /\ ~fired_for_start(fires, s0) /\ fired_for_start(fires', s0)
      BY <1>7, Commits
    <2> HIDE DEF s0
    <2>3. n \in Nat /\ n <= clock /\ job[w].due = {}
      BY <1>0, <2>1 DEF Typed, Scans
    <2> HIDE DEF n
    <2>4. \A v \in Workers : pc'[v] # "commit"
      BY <2>1 DEF Typed, TypeOK
    <2>5. \A v \in Workers \ {w} : job[v].due = {} /\ job'[v].due = {}
      BY <2>1, <2>2, OneDue
    <2>6. \A s \in Starts : Handled(s)' <=> Handled(s) \/ s \in job'[w].due
      BY <2>1, <2>3, <2>5 DEF Handled
    <2>7. \A s \in Starts : s \in job'[w].due => ~Handled(s)
      <3>1. CASE job'[w].due = {}
        BY <3>1
      <3>2. CASE job'[w].due # {}
        <4>1. job'[w].due = {s0} /\ s0 \in Starts /\ n < s0 + Grace /\ ~fired_for_start(fires, s0)
          BY <2>2, <3>2
        <4>2. s0 \in Nat
          BY <1>0, <4>1
        <4>3. Handled(s0) => s0 + Grace <= n
          BY <2>1, <4>1 DEF Settled, RowUntilPast, n
        <4>4. ~Handled(s0)
          BY <2>3, <4>1, <4>2, <4>3
        <4>5. QED  BY <4>1, <4>4
      <3>3. QED  BY <3>1, <3>2
    <2>8. RowUntilPast'
      <3>1. SUFFICES ASSUME NEW s \in Starts, Handled(s)', ~fired_for_start(fires', s)
                     PROVE  s + Grace <= clock
        BY <2>1, <2>4 DEF RowUntilPast, fired_for_start
      <3>2. CASE s \in job'[w].due
        BY <2>2, <3>1, <3>2
      <3>3. CASE s \notin job'[w].due
        <4>1. Handled(s)
          BY <2>6, <3>1, <3>3
        <4>2. CASE ~fired_for_start(fires, s)
          BY <4>1, <4>2 DEF Settled, RowUntilPast
        <4>3. CASE fired_for_start(fires, s)
          <5>1. PICK f \in FireTimes : fires[f] = [state |-> "fired", start |-> s]
            BY <4>3 DEF fired_for_start
          <5>2. fires[f].state = "fired" /\ fires[f].start = s
            BY <5>1
          <5>3. ~Kept(fires[f], n)
            BY <2>2, <3>1, <5>1, <5>2 DEF fired_for_start
          <5>4. s \in Nat /\ Grace \in Nat /\ clock \in Nat /\ n \in Nat /\ n <= clock
            BY <1>0, <2>3 DEF Typed, TypeOK
          <5>5. ~(s + Grace > n)
            BY <5>2, <5>3 DEF Kept
          <5>6. QED  BY <5>4, <5>5
        <4>4. QED  BY <4>2, <4>3
      <3>4. QED  BY <3>2, <3>3
    <2>9. FiredHandled'
      <3>1. SUFFICES ASSUME NEW f \in FireTimes, fires'[f].state = "fired"
                     PROVE  Handled(fires[f].start)'
        BY DEF FiredHandled
      <3>2. CASE fires'[f] = fires[f]
        <4>1. Handled(fires[f].start) /\ fires[f].start \in Starts
          BY <1>0, <3>1, <3>2 DEF Settled, FiredHandled
        <4>2. PICK s \in Starts : s = fires[f].start /\ s = fires'[f].start
          BY <3>2, <4>1
        <4>3. Handled(s)'
          BY <2>6, <4>1, <4>2
        <4>4. QED  BY <4>2, <4>3 DEF Handled
      <3>3. CASE job'[w].due = {fires'[f].start}
        BY <3>3 DEF Handled
      <3>4. QED  BY <2>2, <3>1, <3>2, <3>3
    <2>10. ShownOnce'
      <3>1. \A s \in Starts : shown'[s] <= 1
        BY <2>1 DEF Settled, ShownOnce
      <3>2. ASSUME NEW s \in Starts, NEW v \in Workers, s \in job'[v].due  PROVE  shown'[s] = 0
        <4>1. v = w
          BY <2>5, <3>2
        <4>2. ~Handled(s)
          BY <2>7, <3>2, <4>1
        <4>3. ~(shown[s] > 0) /\ shown[s] \in Nat
          BY <1>0, <4>2 DEF Handled
        <4>4. QED  BY <2>1, <4>3
      <3>3. QED  BY <3>1, <3>2 DEF ShownOnce
    <2>11. QED  BY <2>8, <2>9, <2>10 DEF Settled
  <1>8. ASSUME NEW w \in Workers, Deliver(w), level_known(w)  PROVE  Settled'
    <2>1. /\ pc[w] = "deliver" /\ End(w) /\ UNCHANGED <<clock, fires, cut, silent>>
          /\ shown' = [s \in Starts |-> IF s \in job[w].due THEN shown[s] + 1 ELSE shown[s]]
      BY <1>8 DEF Deliver, dbVars
    <2>2. job'[w].due = {} /\ \A v \in Workers \ {w} : pc'[v] = pc[v] /\ job'[v] = job[v]
      BY <2>1, EndFrame, Basics
    <2>3. \A v \in Workers : pc'[v] # "commit"
      BY <2>1, <2>2, EndFrame DEF Typed, TypeOK
    <2>4. \A v \in Workers : job'[v].due = {} /\ (v # w => job[v].due = {})
      BY <2>1, <2>2, OneDue
    <2>5. \A s \in Starts : /\ s \in job[w].due => shown'[s] = 1 /\ Handled(s)
                            /\ s \notin job[w].due => shown'[s] = shown[s]
      <3>1. SUFFICES ASSUME NEW s \in Starts
                     PROVE  /\ s \in job[w].due => shown'[s] = 1 /\ Handled(s)
                            /\ s \notin job[w].due => shown'[s] = shown[s]
        OBVIOUS
      <3>2. shown'[s] = IF s \in job[w].due THEN shown[s] + 1 ELSE shown[s]
        BY <2>1
      <3>3. ASSUME s \in job[w].due  PROVE  shown'[s] = 1 /\ Handled(s)
        <4>1. shown[s] = 0 /\ Handled(s)
          BY <3>3 DEF Settled, ShownOnce, Handled
        <4>2. shown'[s] = shown[s] + 1
          BY <3>2, <3>3
        <4>3. shown'[s] = 1
          BY <4>1, <4>2
        <4>4. QED  BY <4>1, <4>3
      <3>4. QED  BY <3>2, <3>3
    <2>6. \A s \in Starts : Handled(s)' <=> Handled(s)
      <3>1. SUFFICES ASSUME NEW s \in Starts
                     PROVE  Handled(s)' <=> Handled(s)
        OBVIOUS
      <3>2. CASE s \in job[w].due
        <4>1. Handled(s) /\ shown'[s] = 1
          BY <2>5, <3>2
        <4>2. Handled(s)'
          BY <4>1 DEF Handled
        <4>3. QED  BY <4>1, <4>2
      <3>3. CASE s \notin job[w].due
        <4>1. shown'[s] = shown[s]
          BY <2>5, <3>3
        <4>2. \A v \in Workers : s \notin job[v].due /\ s \notin job'[v].due
          BY <2>4, <3>3
        <4>3. QED  BY <2>1, <4>1, <4>2 DEF Handled
      <3>4. QED  BY <3>2, <3>3
    <2>7. RowUntilPast'
      BY <2>1, <2>3, <2>6 DEF Settled, RowUntilPast, fired_for_start
    <2>8. FiredHandled'
      BY <1>0, <2>1, <2>6 DEF Settled, FiredHandled
    <2>9. ShownOnce'
      BY <2>4, <2>5 DEF Settled, ShownOnce
    <2>10. QED  BY <2>7, <2>8, <2>9 DEF Settled
  <1>9. ASSUME NEW w \in Workers,
               Aborted(w) \/ LevelUnread(w) \/ ScanFail(w) \/ (Deliver(w) /\ ~level_known(w))
        PROVE  Settled'
    <2>1. /\ End(w) /\ UNCHANGED <<clock, fires, shown>>
          /\ \/ cut' = cut \cup job[w].due /\ silent' = silent
             \/ cut' = cut /\ silent' = silent \cup job[w].due
             \/ cut' = cut /\ silent' = silent /\ pc[w] = "commit"
      BY <1>9 DEF Aborted, LevelUnread, ScanFail, Deliver, dbVars, historyVars
    <2>2. /\ pc'[w] = "idle" /\ job'[w].due = {}
          /\ \A v \in Workers \ {w} : pc'[v] = pc[v] /\ job'[v] = job[v]
      BY <2>1, EndFrame, Basics
    <2>3. pc[w] = "commit" => job[w].due = {}
      BY DEF Typed, Scans
    <2>4. \A s \in Starts : Handled(s)' <=> Handled(s)
      BY <2>1, <2>2, <2>3 DEF Handled
    <2>5. QED  BY <1>0, <2>1, <2>2, <2>4, SettledFrame
  <1>10. QED
    BY <1>1, <1>2, <1>3, <1>4, <1>5, <1>6, <1>7, <1>8, <1>9 DEF Next, Scan

-----------------------------------------------------------------------------
(* Levels. *)

\* What is due goes without a level only when the chat's row is, or was, missing: the scan that
\* is about to deliver found the row, or found it missing.
Levels ==
    /\ "db" \notin chat => rowless
    /\ silent # {} => rowless
    /\ \A w \in Workers : job[w].due # {} => job[w].level \/ rowless

LEMMA LevelsStep ==
    ASSUME Typed, OpenEntryHasRow, Levels, [Next]_vars
    PROVE  Levels'
  <1>1. CASE /\ UNCHANGED <<chat, rowless, silent>>
             /\ \A w \in Workers : job'[w].due # {} => job'[w].due = job[w].due /\ job'[w].level = job[w].level
    BY <1>1 DEF Levels
  <1>2. CASE ChangeChat
    <2>1. UNCHANGED <<silent, job>> /\ rowless' = (rowless \/ "db" \notin chat')
      BY <1>2 DEF ChangeChat, historyVars
    <2>2. QED  BY <2>1 DEF Levels
  <1>3. CASE Crash
    <2>1. /\ chat' = chat \ {"state"} /\ UNCHANGED <<silent, rowless>>
          /\ \A w \in Workers : job'[w].due = {}
      BY <1>3, Basics DEF Crash
    <2>2. QED  BY <2>1 DEF Levels
  <1>4. CASE UNCHANGED vars \/ Tick \/ ChangeEvent \/ ResolveCatchUp \/ \E w \in Loops : Unlock(w)
    BY <1>1, <1>4 DEF vars, Tick, ChangeEvent, ResolveCatchUp, Unlock, chatVars, historyVars
  <1>5. CASE SetPrefs \/ PrefsResolve
    <2>1. UNCHANGED <<chat, rowless, silent>> /\ pc["prefs"] \in {"idle", "resolve"}
      BY <1>5 DEF SetPrefs, PrefsResolve, chatVars, historyVars
    <2>2. ScanIfUnlocked \/ (UNCHANGED job /\ \E p \in {"idle", "resolve"} : pc' = [pc EXCEPT !["prefs"] = p])
      BY <1>5 DEF SetPrefs, PrefsResolve
    <2>3. /\ job["prefs"].due = {} /\ job'["prefs"].due = {}
          /\ \A v \in Workers \ {"prefs"} : job'[v] = job[v]
      BY <2>1, <2>2, ScanIfUnlockedFrame
    <2>4. QED  BY <1>1, <2>1, <2>3
  <1>6. CASE Lock
    <2>1. PICK w \in Workers : w = session.loop
      BY <1>6, LockedLoop DEF Lock
    <2>2. /\ \A v \in Workers \ {w} : job'[v] = job[v]
          /\ job'[w] = NoJob \/ (pc[w] = "commit" /\ job'[w].due = job[w].due)
      BY <1>6, <2>1, LockFrame
    <2>3. pc[w] = "commit" => job[w].due = {}
      BY DEF Typed, Scans
    <2>4. job'[w].due = {}
      BY <2>2, <2>3, Basics
    <2>5. UNCHANGED <<chat, rowless, silent>>
      BY <1>6 DEF Lock, chatVars
    <2>6. QED  BY <1>1, <2>2, <2>4, <2>5
  <1>7. ASSUME NEW w \in Workers, ScanStart(w)  PROVE  Levels'
    <2>1. UNCHANGED <<chat, rowless, silent>>
      BY <1>7 DEF ScanStart, chatVars, historyVars
    <2>2. PICK a : job' = [job EXCEPT ![w] = [at |-> a, src |-> event, now |-> clock, due |-> {}, level |-> FALSE, stop |-> FALSE]]
      BY <1>7 DEF ScanStart
    <2>3. job'[w].due = {} /\ \A v \in Workers \ {w} : job'[v] = job[v]
      BY <2>2 DEF Typed, TypeOK
    <2>4. QED  BY <1>1, <2>1, <2>3
  <1>8. ASSUME NEW w \in Workers, ScanCommit(w)  PROVE  Levels'
    <2>1. UNCHANGED <<chat, rowless, silent>>
      BY <1>8 DEF ScanCommit, chatVars, historyVars
    <2>2. /\ job'[w].due # {} => job'[w].level \/ "db" \notin chat
          /\ \A v \in Workers \ {w} : job'[v] = job[v]
      BY <1>8, Commits
    <2>3. QED  BY <2>1, <2>2 DEF Levels
  <1>9. ASSUME NEW w \in Workers, Deliver(w) \/ Aborted(w) \/ LevelUnread(w) \/ ScanFail(w)
        PROVE  Levels'
    <2>1. End(w) /\ UNCHANGED <<chat, rowless>>
      BY <1>9 DEF Deliver, Aborted, LevelUnread, ScanFail, chatVars
    <2>2. job'[w].due = {} /\ \A v \in Workers \ {w} : job'[v] = job[v]
      BY <2>1, EndFrame, Basics
    <2>3. silent' = silent \/ (~job[w].level /\ silent' = silent \cup job[w].due)
      BY <1>9 DEF Deliver, Aborted, LevelUnread, ScanFail, historyVars, level_known
    <2>4. silent' # {} => rowless
      BY <2>3 DEF Levels
    <2>5. QED  BY <2>1, <2>2, <2>4 DEF Levels
  <1>10. QED
    BY <1>2, <1>3, <1>4, <1>5, <1>6, <1>7, <1>8, <1>9 DEF Next, Scan

LEMMA OpenStep ==
    ASSUME Typed, OpenEntryHasRow, [Next]_vars
    PROVE  OpenEntryHasRow'
  <1>1. CASE UNCHANGED <<fires, entry>>
    BY <1>1 DEF OpenEntryHasRow
  <1>2. CASE PrefsResolve \/ ResolveCatchUp
    <2>1. fires' = fires /\ entry' \in {entry, Resolved}
      BY <1>2 DEF PrefsResolve, ResolveCatchUp
    <2>2. QED  BY <2>1, ResolvedType DEF OpenEntryHasRow
  <1>3. ASSUME NEW w \in Workers, ScanCommit(w)  PROVE  OpenEntryHasRow'
    BY <1>3, Commits
  <1>4. QED
    BY <1>1, <1>2, <1>3
    DEF Next, Scan, Tick, Lock, ChangeEvent, ChangeChat, SetPrefs, Crash, Unlock, ScanStart, ScanFail,
        Deliver, LevelUnread, Aborted, dbVars, vars

-----------------------------------------------------------------------------
(* The theorems. *)

LEMMA Begins == Init => Typed /\ OpenEntryHasRow /\ Settled /\ Levels
  <1> SUFFICES ASSUME Init  PROVE  Typed /\ OpenEntryHasRow /\ Settled /\ Levels
    OBVIOUS
  <1>1. /\ \A w \in Workers : pc[w] = "idle" /\ job[w] = NoJob
        /\ \A f \in FireTimes : fires[f].state = "none" /\ entry[f] = "none"
        /\ \A s \in Starts : shown[s] = 0
    BY Basics DEF Init
  <1>2. Typed
    <2>1. pc \in [Workers -> Pcs] /\ job \in [Workers -> Job] /\ fires \in [FireTimes -> Row]
      BY Basics DEF Init, Pcs
    <2>2. entry \in [FireTimes -> {"none", "open", "resolved"}] /\ event \in Sources
          /\ clock \in 0..MaxTime /\ shown \in [Starts -> Nat]
      BY DEF Init
    <2>3. session \in [loop : Loops \cup {None}, at : 0..MaxTime]
      BY Basics DEF Init
    <2>4. LockHeld
      BY <1>1, Basics DEF Init, LockHeld
    <2>5. Dated(fires) /\ Scans
      BY <1>1, Basics DEF Init, Dated, Scans
    <2>6. QED  BY <2>1, <2>2, <2>3, <2>4, <2>5 DEF Init, Typed, TypeOK, Pcs, Job, Row, LockHeld
  <1>3. OpenEntryHasRow
    BY <1>1 DEF OpenEntryHasRow
  <1>4. \A s \in Starts : ~Handled(s)
    BY <1>1, Basics DEF Init, Handled
  <1>5. Settled
    <2>1. RowUntilPast
      BY <1>4 DEF RowUntilPast
    <2>2. FiredHandled
      BY <1>1 DEF FiredHandled
    <2>3. ShownOnce
      BY <1>1, Basics DEF ShownOnce
    <2>4. QED  BY <2>1, <2>2, <2>3 DEF Settled
  <1>6. Levels
    BY <1>1, Basics DEF Init, Levels
  <1>7. QED  BY <1>2, <1>3, <1>5, <1>6

LEMMA Always == Spec => [](Typed /\ OpenEntryHasRow /\ Settled /\ Levels)
  BY Begins, TypedStep, SettledStep, OpenStep, LevelsStep, PTL DEF Spec

\* Rows, entries, sessions and the scans' locals keep their types, and SCAN_LOCK is held exactly
\* by the worker between its read of the event and the end of its delivery.
THEOREM TypeCorrect == Spec => []TypeOK
  <1>1. Typed => TypeOK
    BY DEF Typed
  <1>2. QED  BY <1>1, Always, PTL

\* However often the event is moved, the lead or the mute changed, the session locked and
\* unlocked and the process killed: no start of the event is reminded of twice.
THEOREM OneReminder == Spec => []OneReminderPerStart
  <1>1. Settled => OneReminderPerStart
    BY DEF Settled, ShownOnce, OneReminderPerStart
  <1>2. QED  BY <1>1, Always, PTL

\* A row that says "fired" was handed to the notifier, is about to be, or lost its delivery after
\* run_scan's commit: to a lock, a crash or an error reading the level, or because the chat has
\* none; and the chat has none only when its row in the chats table was missing.
THEOREM FiredWasShown == Spec => []FiredIsShown
  <1>1. ASSUME Typed, Settled, Levels  PROVE  FiredIsShown
    <2>1. SUFFICES ASSUME NEW f \in FireTimes, fires[f].state = "fired"
                   PROVE  \/ shown[fires[f].start] = 1 \/ fires[f].start \in cut \cup silent
                          \/ \E w \in Workers : fires[f].start \in job[w].due
      BY <1>1 DEF FiredIsShown, Levels
    <2>2. PICK s \in Starts : s = fires[f].start
      BY <1>1, <2>1 DEF Typed, Dated
    <2>3. Handled(s) /\ shown[s] <= 1 /\ shown[s] \in Nat
      BY <1>1, <2>1, <2>2 DEF Settled, FiredHandled, ShownOnce, Typed, TypeOK
    <2>4. shown[s] > 0 => shown[s] = 1
      BY <2>3
    <2>5. QED  BY <2>2, <2>3, <2>4 DEF Handled
  <1>2. QED  BY <1>1, Always, PTL

\* An open Catch up entry always has the missed row through which a scan resolves it at the
\* event's start, whatever the interleaving of scans, mutes and the user's own resolution.
THEOREM OpenEntriesResolvable == Spec => []OpenEntryHasRow
  BY Always, PTL
=============================================================================
