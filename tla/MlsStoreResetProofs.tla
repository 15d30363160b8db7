------------------------- MODULE MlsStoreResetProofs -------------------------
(***************************************************************************)
(* Proofs about MlsStoreReset, for any workers, groups, welcomes, bounds.  *)
(***************************************************************************)
EXTENDS MlsStoreReset, TLAPS

\* Past the reset: only reached once the marker is set.
Past == Pcs \ (Locked \cup {"idle", "wait"})
\* Past MDK's open: the store is MDK's own.
Opened == Past \ {"gate", "open"}

\* The lock is held by the worker that is inside ensure_store_ready.
LockInv == \A w \in Workers : pc[w] \in Locked <=> holder = w

\* Where the store is.
PlaceInv ==
    /\ store \in {initial, "none", "current"}
    /\ marker => store \in {"none", "current"}
    /\ \A w \in Workers :
          /\ pc[w] \in Past => marker
          /\ pc[w] \in Opened => store = "current"
          /\ pc[w] = "move" => ~marker /\ store \in LegacyKinds
          /\ pc[w] \in {"remake", "mark"} =>
                ~marker /\ store = "none" /\ initial \in LegacyKinds

\* Where the legacy bytes are: in the directory, or in one archive stamped with the
\* time of the reset, which stays until it is too old.
ArchiveInv ==
    /\ archives \subseteq {[at |-> resetAt, holds |-> initial]}
    /\ resetAt <= now
    /\ initial \in LegacyKinds =>
          /\ store = initial => archives = {}
          /\ store # initial =>
                \/ [at |-> resetAt, holds |-> initial] \in archives
                \/ marker /\ now > resetAt + Retention
    /\ initial \notin LegacyKinds => archives = {}
    /\ \A w \in Workers :
          /\ at[w] <= now
          /\ pc[w] \in {"move", "remake", "mark"} => at[w] = resetAt

\* The transaction has been committed and not undone.
Committed == store # initial \/ \E w \in Workers : pc[w] = "move"

HarvestInv ==
    initial = "legacy" =>
        /\ Committed => Groups \subseteq admins /\ Groups \subseteq lost \cup restored
        /\ \A w \in Workers : pc[w] = "restore" =>
              group[w] \in restored /\ Groups \subseteq seen[w] \cup restored

WelcomeInv ==
    initial = "legacy" =>
        /\ Committed => Wrappers \subseteq queued \cup handled
        /\ \A w \in Workers : pc[w] \in {"replay", "retain"} =>
              Wrappers \subseteq ids[w] \cup handled

RefreshInv ==
    initial \in LegacyKinds =>
        /\ Committed => refresh \/ published
        /\ \A w \in Workers :
              /\ pc[w] = "move" => refresh
              /\ pc[w] \in {"engine", "restore", "refreshed"} => published
              /\ (pc[w] = "open" /\ call[w] = "use") => published

IInv == TypeOK /\ LockInv /\ PlaceInv /\ ArchiveInv /\ HarvestInv /\ WelcomeInv
        /\ RefreshInv

USE NoOneAssumption, LimitAssumption
USE DEF Go, Release, disk, settings, locals, history, bounds, IInv

\* The states the app can find at its start satisfy the invariant.
LEMMA InitStep == Init => IInv
<1> SUFFICES ASSUME Init PROVE IInv
    OBVIOUS
<1>1. TypeOK
  <2>1. dir \in BOOLEAN
      BY DEF Init
  <2>2. store \in Kinds /\ initial \in Kinds /\ archives \subseteq Archive
      BY DEF Init
  <2>3. marker \in BOOLEAN /\ refresh \in BOOLEAN /\ cached \in BOOLEAN
        /\ published \in BOOLEAN
      BY Zenon DEF Init
  <2>4. /\ now \in 0..MaxNow /\ resetAt \in 0..MaxNow
        /\ failures \in 0..MaxFailures /\ crashes \in 0..MaxCrashes
      BY DEF Init
  <2>5. /\ pc \in [Workers -> Pcs] /\ call \in [Workers -> Calls]
        /\ at \in [Workers -> 0..MaxNow] /\ force \in [Workers -> BOOLEAN]
      BY DEF Init, Pcs, Calls
  <2>6. /\ seen \in [Workers -> SUBSET Groups] /\ ids \in [Workers -> SUBSET Wrappers]
        /\ group \in [Workers -> Groups \cup {NoOne}]
      BY DEF Init
  <2> QED
      BY <2>1, <2>2, <2>3, <2>4, <2>5, <2>6 DEF Init, TypeOK
<1>2. LockInv /\ PlaceInv
    BY DEF Init, LockInv, PlaceInv, Locked, Past, Opened, Pcs
<1>3. ArchiveInv
    BY <1>1 DEF Init, ArchiveInv, TypeOK
<1>4. HarvestInv /\ WelcomeInv /\ RefreshInv
    BY DEF Init, HarvestInv, WelcomeInv, RefreshInv, Committed
<1> QED
    BY <1>1, <1>2, <1>3, <1>4

\* A step that changes nothing.
LEMMA StutterStep == IInv /\ UNCHANGED vars => IInv'
BY DEF vars, TypeOK, LockInv, PlaceInv, ArchiveInv, HarvestInv, WelcomeInv, RefreshInv,
       Committed

\* ensure_store_ready keeps the invariant: until the marker is set only the holder of the
\* lock moves the store, and what it moves has been harvested.
LEMMA ResetActions ==
    ASSUME IInv, NEW w \in Workers, ResetStep(w) PROVE IInv'
<1>1. CASE Lock(w)
    BY <1>1 DEF Lock, TypeOK, LockInv, PlaceInv, ArchiveInv, HarvestInv, WelcomeInv, RefreshInv,
        Pcs, Locked, Calls, Kinds, Archive, Pruned, Past, Opened, Committed, LegacyKinds,
        Stranded
<1>2. CASE FastPath(w)
    BY <1>2 DEF FastPath, TypeOK, LockInv, PlaceInv, ArchiveInv, HarvestInv, WelcomeInv, RefreshInv,
        Pcs, Locked, Calls, Kinds, Archive, Pruned, Past, Opened, Committed, LegacyKinds,
        Stranded
<1>3. CASE Refuse(w)
    BY <1>3 DEF Refuse, TypeOK, LockInv, PlaceInv, ArchiveInv, HarvestInv, WelcomeInv, RefreshInv,
        Pcs, Locked, Calls, Kinds, Archive, Pruned, Past, Opened, Committed, LegacyKinds,
        Stranded
<1>4. CASE Adopt(w)
    BY <1>4 DEF Adopt, TypeOK, LockInv, PlaceInv, ArchiveInv, HarvestInv, WelcomeInv, RefreshInv,
        Pcs, Locked, Calls, Kinds, Archive, Pruned, Past, Opened, Committed, LegacyKinds,
        Stranded
<1>5. CASE Commit(w)
  <2>1. TypeOK'
         BY <1>5 DEF Commit, HarvestedAdmins, HarvestedWelcomes,
                 TypeOK, Pcs, Locked, Calls, Kinds, Archive, Pruned
  <2>2. LockInv'
         BY <1>5 DEF Commit, HarvestedAdmins, HarvestedWelcomes,
                 LockInv, TypeOK, Locked
  <2>3. PlaceInv'
         BY <1>5 DEF Commit, HarvestedAdmins, HarvestedWelcomes,
                 PlaceInv, TypeOK, LockInv, Locked, Past,
                Opened, Pcs, LegacyKinds, Stranded
  <2>4. ArchiveInv'
         BY <1>5 DEF Commit, HarvestedAdmins, HarvestedWelcomes,
                 ArchiveInv, TypeOK, LockInv, PlaceInv, Locked, Past, Pcs, LegacyKinds, Kinds,
                Archive, Pruned, Stranded
  <2>5. HarvestInv'
         BY <1>5 DEF Commit, HarvestedAdmins, HarvestedWelcomes,
                 HarvestInv, TypeOK, PlaceInv, LockInv, Locked, Committed, Past, Pcs,
                Opened, LegacyKinds
  <2>6. WelcomeInv'
         BY <1>5 DEF Commit, HarvestedAdmins, HarvestedWelcomes,
                 WelcomeInv, TypeOK, PlaceInv, LockInv, Locked, Committed, Past, Pcs,
                Opened, LegacyKinds
  <2>7. RefreshInv'
         BY <1>5 DEF Commit, HarvestedAdmins, HarvestedWelcomes,
                 RefreshInv, TypeOK, PlaceInv, LockInv, Locked, Committed, Past, Opened,
                Pcs, LegacyKinds
  <2> QED
         BY <2>1, <2>2, <2>3, <2>4, <2>5, <2>6, <2>7
<1>6. CASE Move(w)
  <2>1. TypeOK'
    <3>1. [at |-> at[w], holds |-> store] \in Archive
           BY DEF TypeOK, Archive
    <3>2. archives' \subseteq Archive
           BY <1>6, <3>1 DEF Move, TypeOK
    <3> QED
           BY <1>6, <3>2 DEF Move, TypeOK, Pcs, Locked, Kinds
  <2>2. LockInv'
         BY <1>6 DEF Move, LockInv, TypeOK, Locked
  <2>3. PlaceInv'
         BY <1>6 DEF Move, PlaceInv, TypeOK, LockInv, Locked, Past,
                Opened, Pcs, LegacyKinds, Stranded
  <2>4. ArchiveInv'
         BY <1>6 DEF Move, ArchiveInv, TypeOK, LockInv, PlaceInv, Locked, Past, Pcs, LegacyKinds, Kinds,
                Archive, Pruned, Stranded
  <2>5. HarvestInv'
         BY <1>6 DEF Move, HarvestInv, TypeOK, PlaceInv, LockInv, Locked, Committed, Past, Pcs,
                Opened, LegacyKinds
  <2>6. WelcomeInv'
         BY <1>6 DEF Move, WelcomeInv, TypeOK, PlaceInv, LockInv, Locked, Committed, Past, Pcs,
                Opened, LegacyKinds
  <2>7. RefreshInv'
         BY <1>6 DEF Move, RefreshInv, TypeOK, PlaceInv, LockInv, Locked, Committed, Past, Opened,
                Pcs, LegacyKinds
  <2> QED
         BY <2>1, <2>2, <2>3, <2>4, <2>5, <2>6, <2>7
<1>7. CASE Remake(w)
    BY <1>7 DEF Remake, TypeOK, LockInv, PlaceInv, ArchiveInv, HarvestInv, WelcomeInv, RefreshInv,
        Pcs, Locked, Calls, Kinds, Archive, Pruned, Past, Opened, Committed, LegacyKinds,
        Stranded
<1>8. CASE RemakeFails(w)
  <2>1. TypeOK'
    <3>0. \A a \in archives : a.holds \in Kinds
           BY DEF TypeOK, Archive
    <3>1. archives' \subseteq Archive /\ store' \in Kinds
           BY <1>8, <3>0 DEF RemakeFails, TypeOK
    <3>2. dir' \in BOOLEAN
           BY <1>8, Zenon DEF RemakeFails, TypeOK
    <3> QED
           BY <1>8, <3>1, <3>2 DEF RemakeFails, TypeOK, Pcs, Locked
  <2>2. LockInv'
         BY <1>8 DEF RemakeFails, LockInv, TypeOK, Locked
  <2>3. PlaceInv'
         BY <1>8 DEF RemakeFails, PlaceInv, ArchiveInv, TypeOK, LockInv, Locked, Past,
                Opened, Pcs, LegacyKinds
  <2>4. ArchiveInv'
         BY <1>8 DEF RemakeFails, ArchiveInv, TypeOK, LockInv, PlaceInv, Locked, Past, Pcs, LegacyKinds, Kinds,
                Archive, Pruned, Stranded
  <2>5. HarvestInv'
         BY <1>8 DEF RemakeFails, HarvestInv, TypeOK, PlaceInv, LockInv, Locked, Committed, Past, Pcs,
                Opened, LegacyKinds
  <2>6. WelcomeInv'
         BY <1>8 DEF RemakeFails, WelcomeInv, TypeOK, PlaceInv, LockInv, Locked, Committed, Past, Pcs,
                Opened, LegacyKinds
  <2>7. RefreshInv'
         BY <1>8 DEF RemakeFails, RefreshInv, TypeOK, PlaceInv, LockInv, Locked, Committed, Past, Opened,
                Pcs, LegacyKinds
  <2> QED
         BY <2>1, <2>2, <2>3, <2>4, <2>5, <2>6, <2>7
<1>9. CASE Mark(w)
    BY <1>9 DEF Mark, TypeOK, LockInv, PlaceInv, ArchiveInv, HarvestInv, WelcomeInv, RefreshInv,
        Pcs, Locked, Calls, Kinds, Archive, Pruned, Past, Opened, Committed, LegacyKinds,
        Stranded
<1>10. CASE ResetFails(w)
    BY <1>10 DEF ResetFails, TypeOK, LockInv, PlaceInv, ArchiveInv, HarvestInv, WelcomeInv, RefreshInv,
        Pcs, Locked, Calls, Kinds, Archive, Pruned, Past, Opened, Committed, LegacyKinds,
        Stranded
<1> QED
    BY <1>1, <1>2, <1>3, <1>4, <1>5, <1>6, <1>7, <1>8, <1>9, <1>10 DEF ResetStep

\* Past the gate the store is MDK's own; the lists of lost groups and queued welcomes
\* are written back from values that still cover what is outstanding.
LEMMA EngineActions ==
    ASSUME IInv, NEW w \in Workers, EngineStep(w) PROVE IInv'
<1>1. CASE Gate(w)
    BY <1>1 DEF Gate, TypeOK, LockInv, PlaceInv, ArchiveInv, HarvestInv, WelcomeInv, RefreshInv,
        Pcs, Locked, Calls, Kinds, Archive, Pruned, Past, Opened, Committed, LegacyKinds,
        Stranded
<1>2. CASE OpenStore(w)
    BY <1>2 DEF OpenStore, TypeOK, LockInv, PlaceInv, ArchiveInv, HarvestInv, WelcomeInv, RefreshInv,
        Pcs, Locked, Calls, Kinds, Archive, Pruned, Past, Opened, Committed, LegacyKinds,
        Stranded
<1>3. CASE Close(w)
    BY <1>3 DEF Close, TypeOK, LockInv, PlaceInv, ArchiveInv, HarvestInv, WelcomeInv, RefreshInv,
        Pcs, Locked, Calls, Kinds, Archive, Pruned, Past, Opened, Committed, LegacyKinds,
        Stranded
<1>4. CASE MarkGroupRestored(w)
    BY <1>4 DEF MarkGroupRestored, TypeOK, LockInv, PlaceInv, ArchiveInv, HarvestInv, WelcomeInv, RefreshInv,
        Pcs, Locked, Calls, Kinds, Archive, Pruned, Past, Opened, Committed, LegacyKinds,
        Stranded
<1>5. CASE CacheHit(w)
    BY <1>5 DEF CacheHit, TypeOK, LockInv, PlaceInv, ArchiveInv, HarvestInv, WelcomeInv, RefreshInv,
        Pcs, Locked, Calls, Kinds, Archive, Pruned, Past, Opened, Committed, LegacyKinds,
        Stranded
<1>6. CASE Rotate(w)
    BY <1>6 DEF Rotate, TypeOK, LockInv, PlaceInv, ArchiveInv, HarvestInv, WelcomeInv, RefreshInv,
        Pcs, Locked, Calls, Kinds, Archive, Pruned, Past, Opened, Committed, LegacyKinds,
        Stranded
<1>7. CASE Publish(w)
    BY <1>7 DEF Publish, TypeOK, LockInv, PlaceInv, ArchiveInv, HarvestInv, WelcomeInv, RefreshInv,
        Pcs, Locked, Calls, Kinds, Archive, Pruned, Past, Opened, Committed, LegacyKinds,
        Stranded
<1>8. CASE PublishFails(w)
    BY <1>8 DEF PublishFails, TypeOK, LockInv, PlaceInv, ArchiveInv, HarvestInv, WelcomeInv, RefreshInv,
        Pcs, Locked, Calls, Kinds, Archive, Pruned, Past, Opened, Committed, LegacyKinds,
        Stranded
<1>9. CASE MarkRefreshed(w)
    BY <1>9 DEF MarkRefreshed, TypeOK, LockInv, PlaceInv, ArchiveInv, HarvestInv, WelcomeInv, RefreshInv,
        Pcs, Locked, Calls, Kinds, Archive, Pruned, Past, Opened, Committed, LegacyKinds,
        Stranded
<1>10. CASE Retain(w)
    BY <1>10 DEF Retain, TypeOK, LockInv, PlaceInv, ArchiveInv, HarvestInv, WelcomeInv, RefreshInv,
        Pcs, Locked, Calls, Kinds, Archive, Pruned, Past, Opened, Committed, LegacyKinds,
        Stranded
<1>11. ASSUME NEW g \in Groups, Accept(w, g) PROVE IInv'
    BY <1>11 DEF Accept, TypeOK, LockInv, PlaceInv, ArchiveInv, HarvestInv, WelcomeInv, RefreshInv,
        Pcs, Locked, Calls, Kinds, Archive, Pruned, Past, Opened, Committed, LegacyKinds,
        Stranded
<1>12. ASSUME NEW S \in SUBSET Wrappers, Replay(w, S) PROVE IInv'
    BY <1>12 DEF Replay, TypeOK, LockInv, PlaceInv, ArchiveInv, HarvestInv, WelcomeInv, RefreshInv,
        Pcs, Locked, Calls, Kinds, Archive, Pruned, Past, Opened, Committed, LegacyKinds,
        Stranded
<1>13. CASE MarkFails(w)
  <2>1. failures' \in 0..MaxFailures
    BY <1>13 DEF MarkFails, TypeOK
  <2>2. refresh' \in BOOLEAN
    BY <1>13, Zenon DEF MarkFails, TypeOK
  <2>3. TypeOK'
    BY <1>13, <2>1, <2>2 DEF MarkFails, TypeOK, Pcs
  <2>4. LockInv' /\ PlaceInv' /\ ArchiveInv'
    BY <1>13 DEF MarkFails, TypeOK, LockInv, PlaceInv, ArchiveInv, Pcs, Locked, Past, Opened,
        LegacyKinds, Stranded
  <2>5. HarvestInv' /\ WelcomeInv'
    BY <1>13 DEF MarkFails, TypeOK, HarvestInv, WelcomeInv, Pcs, Committed
  <2>6. RefreshInv'
    <3>1. Committed' => Committed
      BY <1>13 DEF MarkFails, TypeOK, Committed, Pcs
    <3>2. initial \in LegacyKinds => \A v \in Workers : pc[v] # "move"
      BY <1>13 DEF MarkFails, PlaceInv, Past, Pcs, Locked
    <3>3. initial \in LegacyKinds => published
      BY <1>13 DEF MarkFails, RefreshInv
    <3> QED
      BY <1>13, <3>1, <3>2, <3>3 DEF MarkFails, TypeOK, RefreshInv, Pcs
  <2> QED
    BY <2>3, <2>4, <2>5, <2>6
<1> QED
    BY <1>1, <1>2, <1>3, <1>4, <1>5, <1>6, <1>7, <1>8, <1>9,
        <1>10, <1>11, <1>12, <1>13 DEF EngineStep

\* Opening, losing the cached KeyPackages, a crash and time.
LEMMA OtherActions ==
    ASSUME IInv,
           \/ \E w \in Workers, kind \in Calls : Begin(w, kind)
           \/ LoseCache \/ Crash \/ Tick
    PROVE  IInv'
<1>1. ASSUME NEW w \in Workers, NEW kind \in Calls, Begin(w, kind) PROVE IInv'
    BY <1>1 DEF Begin, TypeOK, LockInv, PlaceInv, ArchiveInv, HarvestInv, WelcomeInv, RefreshInv,
        Pcs, Locked, Calls, Kinds, Archive, Pruned, Past, Opened, Committed, LegacyKinds,
        Stranded
<1>2. CASE LoseCache
  <2>1. TypeOK'
    <3>1. failures' \in 0..MaxFailures
           BY <1>2 DEF LoseCache, TypeOK
    <3>2. cached' \in BOOLEAN
           BY <1>2, Zenon DEF LoseCache
    <3> QED
           BY <1>2, <3>1, <3>2 DEF LoseCache, TypeOK
  <2>2. LockInv'
         BY <1>2 DEF LoseCache, LockInv, TypeOK, Locked
  <2>3. PlaceInv'
         BY <1>2 DEF LoseCache, PlaceInv, TypeOK, LockInv, Locked, Past,
                Opened, Pcs, LegacyKinds, Stranded
  <2>4. ArchiveInv'
         BY <1>2 DEF LoseCache, ArchiveInv, TypeOK, LockInv, PlaceInv, Locked, Past, Pcs, LegacyKinds, Kinds,
                Archive, Pruned, Stranded
  <2>5. HarvestInv'
         BY <1>2 DEF LoseCache, HarvestInv, TypeOK, PlaceInv, LockInv, Locked, Committed, Past, Pcs,
                Opened, LegacyKinds
  <2>6. WelcomeInv'
         BY <1>2 DEF LoseCache, WelcomeInv, TypeOK, PlaceInv, LockInv, Locked, Committed, Past, Pcs,
                Opened, LegacyKinds
  <2>7. RefreshInv'
         BY <1>2 DEF LoseCache, RefreshInv, TypeOK, PlaceInv, LockInv, Locked, Committed, Past, Opened,
                Pcs, LegacyKinds
  <2> QED
         BY <2>1, <2>2, <2>3, <2>4, <2>5, <2>6, <2>7
<1>3. CASE Crash
    BY <1>3 DEF Crash, TypeOK, LockInv, PlaceInv, ArchiveInv, HarvestInv, WelcomeInv, RefreshInv,
        Pcs, Locked, Calls, Kinds, Archive, Pruned, Past, Opened, Committed, LegacyKinds,
        Stranded
<1>4. CASE Tick
    BY <1>4 DEF Tick, TypeOK, LockInv, PlaceInv, ArchiveInv, HarvestInv, WelcomeInv, RefreshInv,
        Pcs, Locked, Calls, Kinds, Archive, Pruned, Past, Opened, Committed, LegacyKinds,
        Stranded
<1> QED
    BY <1>1, <1>2, <1>3, <1>4

\* The inductive invariant holds in every reachable state.
THEOREM Invariance == Spec => []IInv
<1>1. IInv /\ [Next]_vars => IInv'
  <2> SUFFICES ASSUME IInv, [Next]_vars PROVE IInv'
      OBVIOUS
  <2>1. CASE UNCHANGED vars
      BY <2>1, StutterStep
  <2>2. CASE \E w \in Workers : ResetStep(w)
      BY <2>2, ResetActions
  <2>3. CASE \E w \in Workers : EngineStep(w)
      BY <2>3, EngineActions
  <2>4. CASE \/ \E w \in Workers, kind \in Calls : Begin(w, kind)
             \/ LoseCache \/ Crash \/ Tick
      BY <2>4, OtherActions
  <2> QED
      BY <2>1, <2>2, <2>3, <2>4 DEF Next
<1> QED
    BY InitStep, <1>1, PTL DEF Spec

\* Type correctness, for every number of workers, groups, welcomes, errors and crashes.
THEOREM TypeCorrect == Spec => []TypeOK
<1>1. IInv => TypeOK
    OBVIOUS
<1> QED
    BY <1>1, Invariance, PTL

\* new_persistent_inner never hands MDK a store that was not reset, whatever another
\* worker, an I/O error or a crash did before.
THEOREM LegacyNeverOpened == Spec => []NeverOpensLegacy
<1>1. IInv => NeverOpensLegacy
    BY DEF NeverOpensLegacy, PlaceInv, Past, Pcs, Locked
<1> QED
    BY <1>1, Invariance, PTL

\* What was harvested from the legacy store is there once its bytes have moved.
THEOREM HarvestSurvives == Spec => []HarvestKept
<1>1. IInv => HarvestKept
    BY DEF HarvestKept, HarvestInv, Committed
<1> QED
    BY <1>1, Invariance, PTL

\* A welcome pending in the legacy store is never dropped from the replay queue before
\* it has been processed.
THEOREM WelcomesSurvive == Spec => []WelcomesKept
<1>1. IInv => WelcomesKept
    BY DEF WelcomesKept, WelcomeInv, Committed
<1> QED
    BY <1>1, Invariance, PTL

\* archive_store_directory never moves a store that MDK is using.
THEOREM ArchivesAreLegacy == Spec => []OnlyLegacyArchived
<1>1. IInv => OnlyLegacyArchived
    BY DEF OnlyLegacyArchived, ArchiveInv, LegacyKinds, TypeOK
<1> QED
    BY <1>1, Invariance, PTL

\* The legacy bytes are on disk until the archive of a completed reset is too old.
THEOREM BytesSurvive == Spec => []LegacyBytesKept
<1>1. IInv => LegacyBytesKept
    BY DEF LegacyBytesKept, ArchiveInv
<1> QED
    BY <1>1, Invariance, PTL

\* The gate keeps ordinary callers out until the new store's KeyPackage is published.
THEOREM PauseHolds == Spec => []PausedUntilPublished
<1>1. IInv => PausedUntilPublished
    BY DEF PausedUntilPublished, RefreshInv, WasReset
<1> QED
    BY <1>1, Invariance, PTL
=============================================================================
