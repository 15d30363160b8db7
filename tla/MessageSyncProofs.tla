------------------------- MODULE MessageSyncProofs -------------------------
(***************************************************************************)
(* Safety of MessageSync for any number of calls and wraps, any window     *)
(* width, any limits and any bounds.                                       *)
(***************************************************************************)
EXTENDS MessageSync, FiniteSetTheorems, TLAPS

Pcs == {"idle", "claimed", "streaming", "fetched", "closing", "rescan", "rescanFetch"}
SyncState ==
    [mode : Modes, syncing : BOOLEAN, start : Int, end : Int, empty : Nat, until : Nat,
     untilMono : Int, inFlight : BOOLEAN, relayWait : BOOLEAN, deferredLast : BOOLEAN]
CallState == [pc : Pcs, win : Window, found : 0..Cardinality(Wraps)]

Typed ==
    /\ now \in Nat \ {0} /\ mono \in 0..MaxMono
    /\ sync \in SyncState /\ call \in [Calls -> CallState]
    /\ signals \in Nat /\ pool \in BOOLEAN
    /\ created \in [Wraps -> Nat]
    /\ ingested \subseteq Wraps /\ withheld \subseteq Wraps /\ due \subseteq Wraps
    /\ leaked \in BOOLEAN /\ initDue \in BOOLEAN /\ logins \in Nat /\ rescans \in Nat

USE TimeAssumption, LimitAssumption

-----------------------------------------------------------------------------
(* What the pure decisions return. *)

LEMMA NewType == NewChatState \in SyncState /\ Idle \in CallState /\ NoWindow \in Window
  <1>1. Cardinality(Wraps) \in Nat
    BY FS_CardinalityType
  <1>2. QED  BY <1>1 DEF NewChatState, SyncState, Modes, Never, Idle, CallState, Pcs, NoWindow, Window

\* The next window of a catch-up: it starts where the last one ended.
LEMMA CatchUpNext ==
    ASSUME NEW start \in Int, NEW t \in Nat \ {0}
    PROVE  LET w == catch_up_window(start, t, FALSE)
           IN  /\ w \in Window /\ w.until <= t /\ (w.last => w.until = t)
               /\ start >= 1 => w.since = start /\ w.until >= 1
  <1> DEFINE a == IF start = 0 THEN Larger(start, SaturatingSub(t, Slice)) ELSE start
             b == Smaller(t, a + Slice)
  <1>1. a \in Int /\ b \in Int /\ b <= t /\ (start >= 1 => a = start /\ b >= 1)
    BY DEF Larger, Smaller, SaturatingSub
  <1>2. PICK l \in BOOLEAN : l <=> b >= t
    OBVIOUS
  <1>3. catch_up_window(start, t, FALSE) = [since |-> a, until |-> b, last |-> b >= t]
    BY DEF catch_up_window
  <1>4. (b >= t) = l
    BY <1>2
  <1>5. catch_up_window(start, t, FALSE) = [since |-> a, until |-> b, last |-> l]
    BY <1>3, <1>4, Zenon
  <1> DEFINE w == catch_up_window(start, t, FALSE)
  <1> HIDE DEF a, b
  <1>a. w = [since |-> a, until |-> b, last |-> l]
    BY <1>5
  <1>6. w \in Window /\ w.since = a /\ w.until = b /\ (w.last <=> l)
    <2> HIDE DEF w
    <2>1. QED  BY <1>1, <1>2, <1>a DEF Window
  <1> HIDE DEF w
  <1>7. w.last => w.until = t
    BY <1>1, <1>2, <1>6
  <1>8. QED  BY <1>1, <1>6, <1>7 DEF w

\* The first one: it starts the overlap before the watermark, or one slice back without one.
LEMMA CatchUpFirst ==
    ASSUME NEW start \in Nat, NEW t \in Nat \ {0}
    PROVE  LET w == catch_up_window(start, t, TRUE)
           IN  /\ w \in Window /\ w.until <= t /\ (w.last => w.until = t) /\ w.until >= 1
               /\ w.since >= 0
               /\ start # 0 => w.since <= start - Overlap \/ w.since = 0
               /\ start = 0 => w.since <= t - Slice \/ w.since = 0
  <1> DEFINE r == SaturatingSub(start, Overlap)
             a == IF start = 0 THEN Larger(r, SaturatingSub(t, Slice)) ELSE r
             b == Smaller(t, a + Slice)
  <1>1. /\ a \in Int /\ b \in Int /\ b <= t /\ b >= 1 /\ a >= 0
        /\ start # 0 => a <= start - Overlap \/ a = 0
        /\ start = 0 => a <= t - Slice \/ a = 0
    BY DEF Larger, Smaller, SaturatingSub
  <1>2. PICK l \in BOOLEAN : l <=> b >= t
    OBVIOUS
  <1>3. catch_up_window(start, t, TRUE) = [since |-> a, until |-> b, last |-> b >= t]
    BY DEF catch_up_window
  <1>4. (b >= t) = l
    BY <1>2
  <1>5. catch_up_window(start, t, TRUE) = [since |-> a, until |-> b, last |-> l]
    BY <1>3, <1>4, Zenon
  <1> DEFINE w == catch_up_window(start, t, TRUE)
  <1> HIDE DEF a, b
  <1>a. w = [since |-> a, until |-> b, last |-> l]
    BY <1>5
  <1>6. w \in Window /\ w.since = a /\ w.until = b /\ (w.last <=> l)
    <2> HIDE DEF w
    <2>1. QED  BY <1>1, <1>2, <1>a DEF Window
  <1> HIDE DEF w
  <1>7. w.last => w.until = t
    BY <1>1, <1>2, <1>6
  <1>8. QED  BY <1>1, <1>6, <1>7 DEF w

\* The window a call is handed: a deferred one as it was.
LEMMA NextWindow ==
    ASSUME NEW s \in SyncState, NEW t \in Nat \ {0}
    PROVE  /\ next_window(s, t) \in Window
           /\ s.relayWait => next_window(s, t) =
                [since |-> s.start, until |-> s.end, last |-> s.deferredLast]
           /\ ~s.relayWait /\ s.mode = "CatchUp" => next_window(s, t) = catch_up_window(s.end, t, FALSE)
           /\ ~s.relayWait /\ s.mode = "Finished" => next_window(s, t) = catch_up_window(s.until, t, TRUE)
  <1>1. s.start \in Int /\ s.end \in Int /\ s.until \in Nat /\ s.deferredLast \in BOOLEAN
    BY DEF SyncState
  <1>2. catch_up_window(s.end, t, FALSE) \in Window /\ catch_up_window(s.until, t, TRUE) \in Window
    BY <1>1, CatchUpNext, CatchUpFirst
  <1>3. [since |-> s.start, until |-> s.end, last |-> s.deferredLast] \in Window
    BY <1>1 DEF Window
  <1>4. [since |-> s.start - Slice, until |-> s.start, last |-> FALSE] \in Window
    BY <1>1 DEF Window
  <1>5. QED  BY <1>2, <1>3, <1>4 DEF next_window

\* What next_sync_slice leaves behind.
LEMMA Claimed ==
    ASSUME NEW s \in SyncState, NEW t \in Nat \ {0}
    PROVE  LET n == next_sync_slice(s, t)
               w == next_window(s, t)
           IN  /\ n \in SyncState /\ n.inFlight /\ ~n.relayWait /\ n.until = s.until
               /\ n.deferredLast = s.deferredLast
               /\ s.relayWait => n.start = s.start /\ n.end = s.end
               /\ ~s.relayWait => n.start = w.since /\ n.end = w.until
               /\ s.relayWait \/ s.mode # "Finished" => n.mode = s.mode /\ n.syncing = s.syncing
               /\ ~s.relayWait /\ s.mode = "Finished" => n.mode = "CatchUp"
  <1> DEFINE w == next_window(s, t)
  <1>1. w \in Window /\ w.since \in Int /\ w.until \in Int
    BY NextWindow DEF Window
  <1> HIDE DEF w
  <1>2. CASE s.relayWait
    <2>1. next_sync_slice(s, t) = [s EXCEPT !.relayWait = FALSE, !.inFlight = TRUE]
      BY <1>2 DEF next_sync_slice, SyncState
    <2>2. QED  BY <1>2, <2>1 DEF SyncState
  <1>3. CASE ~s.relayWait /\ s.mode = "Finished"
    <2>1. next_sync_slice(s, t) = [s EXCEPT !.mode = "CatchUp", !.syncing = TRUE, !.empty = 0,
                                   !.start = w.since, !.end = w.until, !.inFlight = TRUE]
      BY <1>3 DEF next_sync_slice, SyncState, w
    <2> DEFINE n == next_sync_slice(s, t)
    <2> HIDE DEF n
    <2>2. n = [s EXCEPT !.mode = "CatchUp", !.syncing = TRUE, !.empty = 0,
                        !.start = w.since, !.end = w.until, !.inFlight = TRUE]
      BY <2>1 DEF n
    <2>3. "CatchUp" \in Modes
      BY DEF Modes
    <2>4. n \in SyncState
      BY <1>1, <2>2, <2>3 DEF SyncState
    <2>5. /\ n.inFlight /\ ~n.relayWait /\ n.until = s.until /\ n.start = w.since /\ n.end = w.until
          /\ n.mode = "CatchUp" /\ n.deferredLast = s.deferredLast
      BY <1>3, <2>2 DEF SyncState
    <2>6. QED  BY <1>3, <2>4, <2>5 DEF n, w
  <1>4. CASE ~s.relayWait /\ s.mode # "Finished"
    <2>1. next_sync_slice(s, t) = [s EXCEPT !.start = w.since, !.end = w.until, !.inFlight = TRUE]
      BY <1>4 DEF next_sync_slice, SyncState, w
    <2>2. QED  BY <1>1, <1>4, <2>1 DEF SyncState, w
  <1>5. QED  BY <1>2, <1>3, <1>4

\* What record_slice_result leaves behind.
LEMMA Recorded ==
    ASSUME NEW s \in SyncState, NEW k \in CallState, NEW oldest \in Nat,
           NEW t \in Nat \ {0}, NEW m \in Nat
    PROVE  LET r == record_slice_result(s, k.found, k.win.last, oldest, t, m)
               ends == SliceEndsWalk(CountSlice(s, k.found), k.win.last)
           IN  /\ r \in SyncState /\ ~r.inFlight
               /\ r.relayWait = s.relayWait /\ r.syncing = s.syncing /\ r.deferredLast = s.deferredLast
               /\ ends => r.mode = "Finished"
               /\ ~ends => r.mode # "Finished" /\ r.until = s.until
               /\ s.mode = "CatchUp" => r.start = s.start /\ r.end = s.end /\ (ends <=> k.win.last)
               /\ r.mode = "CatchUp" => s.mode = "CatchUp"
  <1> DEFINE found == k.found
             last == k.win.last
             c == CountSlice(s, found)
             from == IF oldest = 0 THEN t - Recent ELSE oldest
             moved == IF c.mode = "ForwardSync" /\ BackwardDue(c, found)
                      THEN [c EXCEPT !.mode = "BackwardSync", !.empty = 0,
                                     !.end = from, !.start = from - Slice]
                      ELSE c
             ended == IF SliceEndsWalk(c, last)
                      THEN [moved EXCEPT !.mode = "Finished", !.until = t, !.untilMono = m]
                      ELSE moved
  <1>0. found \in Nat /\ last \in BOOLEAN
    <2>1. Cardinality(Wraps) \in Nat
      BY FS_CardinalityType
    <2>2. QED  BY <2>1 DEF CallState, Window
  <1> HIDE DEF found, last
  <1>1. /\ c \in SyncState /\ c.mode = s.mode /\ c.start = s.start /\ c.end = s.end
        /\ c.until = s.until /\ c.relayWait = s.relayWait /\ c.syncing = s.syncing
        /\ c.deferredLast = s.deferredLast
    BY <1>0 DEF CountSlice, SyncState
  <1>2. from \in Int
    OBVIOUS
  <1> HIDE DEF from, c
  <1>3. /\ moved \in SyncState /\ moved.until = s.until /\ moved.relayWait = s.relayWait
        /\ moved.syncing = s.syncing /\ moved.deferredLast = s.deferredLast
        /\ s.mode # "ForwardSync" => moved = c
        /\ s.mode = "ForwardSync" => moved.mode \in {"ForwardSync", "BackwardSync"}
    <2>1. CASE c.mode = "ForwardSync" /\ BackwardDue(c, found)
      <3>1. moved = [c EXCEPT !.mode = "BackwardSync", !.empty = 0, !.end = from, !.start = from - Slice]
        BY <2>1
      <3> HIDE DEF moved
      <3>2. "BackwardSync" \in Modes /\ from - Slice \in Int
        BY <1>2 DEF Modes
      <3>3. moved \in SyncState
        BY <1>1, <1>2, <3>1, <3>2 DEF SyncState
      <3>4. /\ moved.until = c.until /\ moved.relayWait = c.relayWait /\ moved.syncing = c.syncing
            /\ moved.deferredLast = c.deferredLast /\ moved.mode = "BackwardSync"
        BY <1>1, <3>1 DEF SyncState
      <3>5. QED  BY <1>1, <2>1, <3>3, <3>4
    <2>2. CASE ~(c.mode = "ForwardSync" /\ BackwardDue(c, found))
      <3>1. moved = c
        BY <2>2
      <3> HIDE DEF moved
      <3>2. QED  BY <1>1, <2>2, <3>1
    <2>3. QED  BY <2>1, <2>2
  <1>4. c.mode \in Modes /\ moved.mode \in Modes
    BY <1>1, <1>3 DEF SyncState
  <1> HIDE DEF moved
  <1>5. /\ s.mode = "CatchUp" => (SliceEndsWalk(c, last) <=> last)
        /\ s.mode = "Finished" => SliceEndsWalk(c, last)
        /\ s.mode = "ForwardSync" => ~SliceEndsWalk(c, last)
    BY <1>1, <1>4 DEF SliceEndsWalk, Modes
  <1>6. /\ ended \in SyncState /\ ended.relayWait = s.relayWait
        /\ ended.syncing = s.syncing /\ ended.deferredLast = s.deferredLast
        /\ ended.start = moved.start /\ ended.end = moved.end
        /\ SliceEndsWalk(c, last) => ended.mode = "Finished"
        /\ ~SliceEndsWalk(c, last) => ended = moved
    <2>1. CASE SliceEndsWalk(c, last)
      <3>1. ended = [moved EXCEPT !.mode = "Finished", !.until = t, !.untilMono = m]
        BY <2>1
      <3> HIDE DEF ended
      <3>2. "Finished" \in Modes /\ m \in Int /\ t \in Nat
        BY DEF Modes
      <3>3. ended \in SyncState
        BY <1>3, <3>1, <3>2 DEF SyncState
      <3>4. /\ ended.start = moved.start /\ ended.end = moved.end /\ ended.mode = "Finished"
            /\ ended.relayWait = moved.relayWait /\ ended.syncing = moved.syncing
            /\ ended.deferredLast = moved.deferredLast
        BY <1>3, <3>1 DEF SyncState
      <3>5. QED  BY <1>3, <2>1, <3>3, <3>4
    <2>2. CASE ~SliceEndsWalk(c, last)
      <3>1. ended = moved
        BY <2>2
      <3> HIDE DEF ended
      <3>2. QED  BY <1>3, <2>2, <3>1
    <2>3. QED  BY <2>1, <2>2
  <1>7. record_slice_result(s, found, last, oldest, t, m) = [ended EXCEPT !.inFlight = FALSE]
    BY DEF record_slice_result, ended, moved, from, c
  <1> HIDE DEF ended
  <1> DEFINE r == [ended EXCEPT !.inFlight = FALSE]
  <1>8. /\ r \in SyncState /\ ~r.inFlight /\ r.relayWait = ended.relayWait
        /\ r.syncing = ended.syncing /\ r.deferredLast = ended.deferredLast
        /\ r.mode = ended.mode /\ r.start = ended.start /\ r.end = ended.end
        /\ r.until = ended.until
    BY <1>6 DEF SyncState
  <1> HIDE DEF r
  <1>9. QED  BY <1>1, <1>3, <1>4, <1>5, <1>6, <1>7, <1>8 DEF r, c, found, last

-----------------------------------------------------------------------------
(* Types. *)

\* What a call may become.
LEMMA CallChanges ==
    ASSUME NEW k \in CallState
    PROVE  /\ \A w \in Window : [pc |-> "claimed", win |-> w, found |-> 0] \in CallState
           /\ \A p \in Pcs : /\ [k EXCEPT !.pc = p] \in CallState
                             /\ [k EXCEPT !.pc = p].pc = p /\ [k EXCEPT !.pc = p].win = k.win
           /\ \A n \in 0..Cardinality(Wraps) :
                /\ [k EXCEPT !.pc = "fetched", !.found = n] \in CallState
                /\ [k EXCEPT !.pc = "fetched", !.found = n].pc = "fetched"
                /\ [k EXCEPT !.pc = "fetched", !.found = n].win = k.win
  <1>1. Cardinality(Wraps) \in Nat
    BY FS_CardinalityType
  <1>2. \A w \in Window : [pc |-> "claimed", win |-> w, found |-> 0] \in CallState
    BY <1>1 DEF CallState, Pcs
  <1>3. \A p \in Pcs : /\ [k EXCEPT !.pc = p] \in CallState
                       /\ [k EXCEPT !.pc = p].pc = p /\ [k EXCEPT !.pc = p].win = k.win
    BY DEF CallState
  <1>4. ASSUME NEW n \in 0..Cardinality(Wraps)
        PROVE  /\ [k EXCEPT !.pc = "fetched", !.found = n] \in CallState
               /\ [k EXCEPT !.pc = "fetched", !.found = n].pc = "fetched"
               /\ [k EXCEPT !.pc = "fetched", !.found = n].win = k.win
    <2>1. "fetched" \in Pcs
      BY DEF Pcs
    <2>2. QED  BY <2>1 DEF CallState
  <1>5. QED  BY <1>2, <1>3, <1>4

LEMMA CallNext ==
    ASSUME Typed, NEW c \in Calls, NEW k \in CallState, call' = [call EXCEPT ![c] = k]
    PROVE  call' \in [Calls -> CallState] /\ call'[c] = k /\ \A d \in Calls \ {c} : call'[d] = call[d]
  BY DEF Typed

LEMMA WrapSubsets ==
    ASSUME NEW S, S \subseteq Wraps
    PROVE  Cardinality(S) \in 0..Cardinality(Wraps)
  <1>1. IsFiniteSet(S) /\ Cardinality(S) <= Cardinality(Wraps)
    BY FS_Subset
  <1>2. Cardinality(S) \in Nat /\ Cardinality(Wraps) \in Nat
    BY <1>1, FS_CardinalityType
  <1>3. QED  BY <1>1, <1>2

\* A claim of the next window, or nothing.
LEMMA ClaimTypes ==
    ASSUME Typed, NEW c \in Calls, ClaimSlice(c)
    PROVE  sync' \in SyncState /\ call' \in [Calls -> CallState] /\ due' \subseteq Wraps
  <1>1. sync \in SyncState /\ now \in Nat \ {0} /\ due \subseteq Wraps
    BY DEF Typed
  <1>2. CASE SliceAvailable(sync, now, mono)
    <2>1. sync' = next_sync_slice(sync, now) /\ Enter(c, next_window(sync, now))
          /\ due' \in {due, Owed}
      BY <1>2 DEF ClaimSlice
    <2>2. [pc |-> "claimed", win |-> next_window(sync, now), found |-> 0] \in CallState
      BY <1>1, NextWindow, NewType, CallChanges
    <2>3. call' \in [Calls -> CallState]
      BY <2>1, <2>2, CallNext DEF Enter
    <2>4. Owed \subseteq Wraps
      BY DEF Owed, Between, OnRelays
    <2>5. sync' \in SyncState
      BY <1>1, <2>1, Claimed
    <2>6. QED  BY <1>1, <2>1, <2>3, <2>4, <2>5
  <1>3. CASE ~SliceAvailable(sync, now, mono)
    <2>1. call' = [call EXCEPT ![c] = Idle] /\ sync' = sync /\ due' = due
      BY <1>3 DEF ClaimSlice
    <2>2. QED  BY <1>1, <2>1, NewType, CallNext
  <1>4. QED  BY <1>2, <1>3

LEMMA TypedStep ==
    ASSUME Typed, [Next]_vars
    PROVE  Typed'
  <1>0. /\ now \in Nat \ {0} /\ mono \in Nat /\ sync \in SyncState /\ created \in [Wraps -> Nat]
        /\ MaxMono \in Nat /\ now \in Int /\ Slice \in Nat
    BY DEF Typed
  <1>a. \A c \in Calls : call[c] \in CallState
    BY DEF Typed
  <1>b. \A a, b : Between(a, b) \subseteq Wraps
    BY DEF Between, OnRelays
  <1>1. CASE UNCHANGED vars
    BY <1>1 DEF vars, Typed
  <1>2. CASE Login
    <2>1. sync' \in SyncState /\ leaked' \in BOOLEAN /\ initDue' \in BOOLEAN
      BY <1>2, NewType, Zenon DEF Login
    <2>2. logins' \in Nat
      BY <1>2 DEF Login, Typed
    <2>3. QED  BY <1>2, <2>1, <2>2 DEF Login, Typed, netVars
  <1>3. CASE Connect \/ EmptyPool \/ Repopulate
    <2>1. signals' \in Nat
      BY <1>3 DEF Connect, EmptyPool, Repopulate, Typed
    <2>a. pool' \in BOOLEAN
      BY <1>3, Zenon DEF Connect, EmptyPool, Repopulate
    <2>2. UNCHANGED <<leaked, initDue, now, mono, sync, call, netVars, logins, rescans>>
      BY <1>3 DEF Connect, EmptyPool, Repopulate
    <2>3. QED  BY <2>1, <2>a, <2>2 DEF Typed, netVars
  <1>4. CASE SingleRelaySync
    BY <1>4, <1>b DEF SingleRelaySync, Typed
  <1>5. CASE Tick
    <2>1. PICK d \in Int : now' = Larger(1, now + d)
      BY <1>5 DEF Tick
    <2>2. now' \in Nat \ {0}
      BY <1>0, <2>1 DEF Larger
    <2>3. mono' \in 0..MaxMono
      BY <1>0, <1>5 DEF Tick
    <2>4. QED  BY <1>5, <2>2, <2>3 DEF Tick, Typed, netVars
  <1>6. ASSUME NEW w \in Wraps, Publish(w)  PROVE  Typed'
    <2>1. PICK t \in Larger(1, now - Slice)..now : created' = [created EXCEPT ![w] = t]
      BY <1>6 DEF Publish
    <2>2. t \in Nat
      BY <1>0 DEF Larger
    <2>3. created' \in [Wraps -> Nat]
      BY <1>0, <2>1, <2>2
    <2>4. QED  BY <1>6, <2>3 DEF Publish, Typed
  <1>7. ASSUME NEW c \in Calls, FetchInit(c)  PROVE  Typed'
    <2>1. sync' = [sync EXCEPT !.syncing = TRUE, !.inFlight = TRUE, !.mode = "ForwardSync",
                               !.empty = 0, !.start = now - Slice, !.end = now]
      BY <1>7 DEF FetchInit
    <2>2. "ForwardSync" \in Modes /\ now - Slice \in Int /\ now \in Int
      BY <1>0 DEF Modes
    <2>3. sync' \in SyncState
      BY <1>0, <2>1, <2>2 DEF SyncState
    <2>4. [since |-> now - Slice, until |-> now, last |-> FALSE] \in Window
      BY <2>2 DEF Window
    <2>5. call' \in [Calls -> CallState]
      BY <1>7, <2>4, NewType, CallChanges, CallNext DEF FetchInit, Enter
    <2>6. QED  BY <1>7, <2>3, <2>5 DEF FetchInit, Typed, netVars
  <1>8. ASSUME NEW c \in Calls, FetchContinue(c)  PROVE  Typed'
    BY <1>8, ClaimTypes DEF FetchContinue, Typed
  <1>9. ASSUME NEW c \in Calls, FetchWake(c)  PROVE  Typed'
    BY <1>9, ClaimTypes DEF FetchWake, Typed
  <1>10. ASSUME NEW c \in Calls, DeepRescanFetch(c)  PROVE  Typed'
    BY <1>10, ClaimTypes DEF DeepRescanFetch, Typed
  <1>11. ASSUME NEW c \in Calls, DeepRescanCheck(c)  PROVE  Typed'
    <2>1. [Idle EXCEPT !.pc = "rescan"] \in CallState
      BY NewType, CallChanges DEF Pcs
    <2>2. call' \in [Calls -> CallState]
      BY <1>11, <2>1, CallNext DEF DeepRescanCheck
    <2>3. QED  BY <1>11, <2>2 DEF DeepRescanCheck, Typed, netVars
  <1>12. ASSUME NEW c \in Calls, DeepRescanStart(c)  PROVE  Typed'
    <2>1. "DeepRescan" \in Modes /\ now - Slice \in Int /\ "rescanFetch" \in Pcs
      BY <1>0 DEF Modes, Pcs
    <2>2. sync' = [sync EXCEPT !.syncing = TRUE, !.mode = "DeepRescan", !.empty = 0,
                               !.start = now - Slice, !.end = now]
      BY <1>12 DEF DeepRescanStart
    <2>3. sync' \in SyncState
      BY <1>0, <2>1, <2>2 DEF SyncState
    <2>4. [call[c] EXCEPT !.pc = "rescanFetch"] \in CallState
      BY <1>a, <2>1, CallChanges
    <2>5. call' \in [Calls -> CallState]
      BY <1>12, <2>4, CallNext DEF DeepRescanStart
    <2>6. QED  BY <1>b, <1>12, <2>3, <2>5 DEF DeepRescanStart, Typed
  <1>13. ASSUME NEW c \in Calls, CheckMode(c)  PROVE  Typed'
    <2>1. [call[c] EXCEPT !.pc = "streaming"] \in CallState
      BY <1>a, CallChanges DEF Pcs
    <2>2. call' \in [Calls -> CallState]
      BY <1>13, <2>1, CallNext, NewType DEF CheckMode
    <2>3. leaked' \in BOOLEAN
      BY <1>13, <1>0 DEF CheckMode, Typed, SyncState
    <2>4. QED  BY <1>13, <2>2, <2>3 DEF CheckMode, Typed, netVars
  <1>14. ASSUME NEW c \in Calls, StreamFails(c)  PROVE  Typed'
    <2>1. call[c].win.last \in BOOLEAN
      BY <1>a DEF CallState, Window
    <2>2. abandon_sync_slice(sync) \in SyncState
      BY <1>0 DEF abandon_sync_slice, SyncState, Modes
    <2>3. defer_sync_slice_for_empty_pool(sync, call[c].win.last) \in SyncState
      BY <1>0, <2>1 DEF defer_sync_slice_for_empty_pool, SyncState
    <2>4. sync' \in SyncState /\ call' \in [Calls -> CallState]
      BY <1>14, <2>2, <2>3, CallNext, NewType DEF StreamFails
    <2>5. QED  BY <1>14, <2>4 DEF StreamFails, Typed, netVars
  <1>15. ASSUME NEW c \in Calls, Stream(c)  PROVE  Typed'
    <2> DEFINE B == Between(call[c].win.since, call[c].win.until)
    <2>1. PICK missing \in SUBSET B :
            /\ ingested' = ingested \cup (B \ missing)
            /\ withheld' = withheld \cup (missing \ ingested)
            /\ call' = [call EXCEPT ![c].pc = "fetched",
                                    ![c].found = Cardinality((B \ missing) \ ingested)]
      BY <1>15 DEF Stream
    <2>2. B \subseteq Wraps /\ ingested \subseteq Wraps /\ withheld \subseteq Wraps
      BY <1>b DEF Typed
    <2> HIDE DEF B
    <2>3. Cardinality((B \ missing) \ ingested) \in 0..Cardinality(Wraps)
      BY <2>2, WrapSubsets
    <2>4. call' = [call EXCEPT ![c] = [call[c] EXCEPT !.pc = "fetched",
                                        !.found = Cardinality((B \ missing) \ ingested)]]
      BY <2>1 DEF Typed
    <2>5. call' \in [Calls -> CallState]
      BY <1>a, <2>3, <2>4, CallChanges, CallNext
    <2>6. ingested' \subseteq Wraps /\ withheld' \subseteq Wraps
      BY <2>1, <2>2
    <2>7. QED  BY <1>15, <2>5, <2>6 DEF Stream, Typed
  <1>16. ASSUME NEW c \in Calls, RecordSlice(c)  PROVE  Typed'
    <2>2. PICK oldest \in OldestTimes :
            sync' = record_slice_result(sync, call[c].found, call[c].win.last, oldest, now, mono)
      BY <1>16 DEF RecordSlice
    <2>3. oldest \in Nat
      BY <1>0 DEF OldestTimes, Typed
    <2>4. sync' \in SyncState
      BY <1>0, <1>a, <2>2, <2>3, Recorded
    <2>5. [Idle EXCEPT !.pc = "closing"] \in CallState
      BY NewType, CallChanges DEF Pcs
    <2>6. call' \in [Calls -> CallState] /\ signals' \in Nat
      <3>1. call' \in [Calls -> CallState]
        BY <1>16, <2>5, NewType, CallNext DEF RecordSlice
      <3>2. QED  BY <1>16, <3>1 DEF RecordSlice, Typed
    <2>7. QED  BY <1>16, <2>4, <2>6 DEF RecordSlice, Typed, netVars
  <1>17. ASSUME NEW c \in Calls, CloseWalk(c)  PROVE  Typed'
    <2>1. [sync EXCEPT !.mode = "Finished", !.syncing = FALSE, !.empty = 0] \in SyncState
      BY <1>0 DEF SyncState, Modes
    <2>2. QED  BY <1>17, <2>1, NewType, CallNext DEF CloseWalk, Typed, netVars
  <1>18. QED
    BY <1>1, <1>2, <1>3, <1>4, <1>5, <1>6, <1>7, <1>8, <1>9, <1>10, <1>11, <1>12, <1>13, <1>14,
       <1>15, <1>16, <1>17
    DEF Next, CallStep

-----------------------------------------------------------------------------
(* Every claim and every walk has an owner. *)

Runs == {"claimed", "streaming", "fetched"}
Owned ==
    /\ sync.inFlight /\ ~leaked => \E c \in Calls : call[c].pc \in Runs
    /\ sync.syncing /\ sync.mode = "Finished" => \E c \in Calls : call[c].pc = "closing"

\* The steps of others leave the walk and the calls alone.
Aside == Connect \/ EmptyPool \/ Repopulate \/ SingleRelaySync \/ Tick \/ (\E w \in Wraps : Publish(w))

LEMMA AsideFrame ==
    ASSUME Aside \/ UNCHANGED vars
    PROVE  UNCHANGED <<sync, call, leaked, due, withheld, initDue, logins>> /\ (signals' = signals \/ Connect)
  BY DEF Aside, Connect, EmptyPool, Repopulate, SingleRelaySync, Tick, Publish, netVars, vars

\* A claim: the call holds the window, or nothing was available.
LEMMA ClaimEffect ==
    ASSUME Typed, NEW c \in Calls, ClaimSlice(c)
    PROVE  /\ \A d \in Calls \ {c} : call'[d] = call[d]
           /\ \/ /\ SliceAvailable(sync, now, mono) /\ sync' = next_sync_slice(sync, now)
                 /\ call'[c] = [pc |-> "claimed", win |-> next_window(sync, now), found |-> 0]
                 /\ call'[c].pc = "claimed" /\ call'[c].win = next_window(sync, now)
                 /\ due' = IF sync.mode = "Finished" /\ ~sync.relayWait THEN Owed ELSE due
              \/ /\ ~SliceAvailable(sync, now, mono) /\ sync' = sync /\ due' = due
                 /\ call'[c] = Idle /\ call'[c].pc = "idle"
  <1>1. sync \in SyncState /\ now \in Nat \ {0}
    BY DEF Typed
  <1>2. CASE SliceAvailable(sync, now, mono)
    <2>1. /\ sync' = next_sync_slice(sync, now) /\ Enter(c, next_window(sync, now))
          /\ due' = IF sync.mode = "Finished" /\ ~sync.relayWait THEN Owed ELSE due
      BY <1>2 DEF ClaimSlice
    <2> DEFINE k == [pc |-> "claimed", win |-> next_window(sync, now), found |-> 0]
    <2>2. k \in CallState
      BY <1>1, NextWindow, NewType, CallChanges
    <2>3. call' = [call EXCEPT ![c] = k] /\ k.pc = "claimed" /\ k.win = next_window(sync, now)
      BY <2>1 DEF Enter
    <2> HIDE DEF k
    <2>4. call'[c] = k /\ \A d \in Calls \ {c} : call'[d] = call[d]
      BY <2>2, <2>3, CallNext
    <2>5. QED  BY <1>2, <2>1, <2>3, <2>4 DEF k
  <1>3. CASE ~SliceAvailable(sync, now, mono)
    <2>1. call' = [call EXCEPT ![c] = Idle] /\ sync' = sync /\ due' = due
      BY <1>3 DEF ClaimSlice
    <2>2. Idle \in CallState /\ Idle.pc = "idle"
      BY NewType DEF Idle
    <2>3. call'[c] = Idle /\ \A d \in Calls \ {c} : call'[d] = call[d]
      BY <2>1, <2>2, CallNext
    <2>4. QED  BY <1>3, <2>1, <2>2, <2>3
  <1>4. QED  BY <1>2, <1>3

\* The steps of one call: which call moves, and where to.
LEMMA CallMoves ==
    ASSUME Typed, NEW c \in Calls
    PROVE  /\ FetchInit(c) =>
                /\ call'[c] = [pc |-> "claimed", found |-> 0, win |->
                                [since |-> now - Slice, until |-> now, last |-> FALSE]]
                /\ call'[c].pc = "claimed" /\ \A d \in Calls \ {c} : call'[d] = call[d]
           /\ DeepRescanCheck(c) =>
                /\ call'[c].pc = "rescan" /\ \A d \in Calls \ {c} : call'[d] = call[d]
           /\ DeepRescanStart(c) =>
                /\ call'[c].pc = "rescanFetch" /\ \A d \in Calls \ {c} : call'[d] = call[d]
           /\ CheckMode(c) =>
                /\ call'[c].pc = IF sync.mode = "Finished" THEN "idle" ELSE "streaming"
                /\ sync.mode # "Finished" => call'[c].win = call[c].win
                /\ \A d \in Calls \ {c} : call'[d] = call[d]
           /\ StreamFails(c) \/ CloseWalk(c) =>
                /\ call'[c].pc = "idle" /\ \A d \in Calls \ {c} : call'[d] = call[d]
           /\ Stream(c) =>
                /\ call'[c].pc = "fetched" /\ call'[c].win = call[c].win
                /\ \A d \in Calls \ {c} : call'[d] = call[d]
           /\ RecordSlice(c) =>
                /\ call'[c].pc = IF SliceEndsWalk(CountSlice(sync, call[c].found), call[c].win.last)
                                 THEN "closing" ELSE "idle"
                /\ \A d \in Calls \ {c} : call'[d] = call[d]
  <1>0. /\ call[c] \in CallState /\ call \in [Calls -> CallState]
        /\ Idle.pc = "idle" /\ Idle \in CallState
    BY NewType DEF Typed, Idle
  <1>1. ASSUME FetchInit(c)
        PROVE  /\ call'[c] = [pc |-> "claimed", found |-> 0, win |->
                                [since |-> now - Slice, until |-> now, last |-> FALSE]]
               /\ call'[c].pc = "claimed" /\ \A d \in Calls \ {c} : call'[d] = call[d]
    BY <1>0, <1>1 DEF FetchInit, Enter
  <1>2. ASSUME DeepRescanCheck(c)
        PROVE  call'[c].pc = "rescan" /\ \A d \in Calls \ {c} : call'[d] = call[d]
    BY <1>0, <1>2 DEF DeepRescanCheck, CallState
  <1>3. ASSUME DeepRescanStart(c)
        PROVE  call'[c].pc = "rescanFetch" /\ \A d \in Calls \ {c} : call'[d] = call[d]
    BY <1>0, <1>3 DEF DeepRescanStart, CallState
  <1>4. ASSUME CheckMode(c)
        PROVE  /\ call'[c].pc = IF sync.mode = "Finished" THEN "idle" ELSE "streaming"
               /\ sync.mode # "Finished" => call'[c].win = call[c].win
               /\ \A d \in Calls \ {c} : call'[d] = call[d]
    BY <1>0, <1>4 DEF CheckMode, CallState
  <1>5. ASSUME StreamFails(c) \/ CloseWalk(c)
        PROVE  call'[c].pc = "idle" /\ \A d \in Calls \ {c} : call'[d] = call[d]
    BY <1>0, <1>5 DEF StreamFails, CloseWalk
  <1>6. ASSUME Stream(c)
        PROVE  /\ call'[c].pc = "fetched" /\ call'[c].win = call[c].win
               /\ \A d \in Calls \ {c} : call'[d] = call[d]
    <2>1. PICK n : call' = [call EXCEPT ![c].pc = "fetched", ![c].found = n]
      BY <1>6 DEF Stream
    <2>2. QED  BY <1>0, <2>1 DEF CallState
  <1>7. ASSUME RecordSlice(c)
        PROVE  /\ call'[c].pc = IF SliceEndsWalk(CountSlice(sync, call[c].found), call[c].win.last)
                                THEN "closing" ELSE "idle"
               /\ \A d \in Calls \ {c} : call'[d] = call[d]
    BY <1>0, <1>7 DEF RecordSlice, CallState
  <1>8. QED  BY <1>1, <1>2, <1>3, <1>4, <1>5, <1>6, <1>7

\* What a step of one call does to the walk.
LEMMA WalkMoves ==
    ASSUME Typed, NEW c \in Calls
    PROVE  /\ FetchInit(c) => /\ sync'.mode = "ForwardSync" /\ sync'.inFlight
                              /\ sync'.relayWait = sync.relayWait
           /\ DeepRescanStart(c) =>
                /\ sync'.mode = "DeepRescan" /\ sync'.inFlight = sync.inFlight
                /\ sync'.relayWait = sync.relayWait
           /\ DeepRescanCheck(c) \/ CheckMode(c) \/ Stream(c) => sync' = sync
           /\ StreamFails(c) =>
                /\ ~sync'.inFlight /\ sync'.start = sync.start /\ sync'.end = sync.end
                /\ pool => /\ ~sync'.syncing /\ sync'.mode = "Finished"
                           /\ sync'.relayWait = sync.relayWait
                           /\ sync'.deferredLast = sync.deferredLast
                /\ ~pool => /\ sync'.relayWait /\ sync'.mode = sync.mode
                            /\ sync'.syncing = sync.syncing
                            /\ sync'.deferredLast = call[c].win.last
           /\ CloseWalk(c) =>
                /\ sync'.mode = "Finished" /\ ~sync'.syncing
                /\ sync'.inFlight = sync.inFlight /\ sync'.relayWait = sync.relayWait
                /\ sync'.start = sync.start /\ sync'.end = sync.end
                /\ sync'.deferredLast = sync.deferredLast /\ sync'.until = sync.until
           /\ RecordSlice(c) =>
                LET ends == SliceEndsWalk(CountSlice(sync, call[c].found), call[c].win.last)
                IN  /\ ~sync'.inFlight
                    /\ sync'.relayWait = sync.relayWait /\ sync'.syncing = sync.syncing
                    /\ sync'.deferredLast = sync.deferredLast
                    /\ ends => sync'.mode = "Finished"
                    /\ ~ends => sync'.mode # "Finished" /\ sync'.until = sync.until
                    /\ sync.mode = "CatchUp" => /\ sync'.start = sync.start /\ sync'.end = sync.end
                                                /\ (ends <=> call[c].win.last)
                    /\ sync'.mode = "CatchUp" => sync.mode = "CatchUp"
  <1>0. sync \in SyncState /\ now \in Nat \ {0} /\ mono \in Nat /\ call[c] \in CallState
    BY DEF Typed
  <1>1. ASSUME FetchInit(c)
        PROVE  sync'.mode = "ForwardSync" /\ sync'.inFlight /\ sync'.relayWait = sync.relayWait
    BY <1>0, <1>1 DEF FetchInit, SyncState
  <1>2. ASSUME DeepRescanStart(c)
        PROVE  /\ sync'.mode = "DeepRescan" /\ sync'.inFlight = sync.inFlight
               /\ sync'.relayWait = sync.relayWait
    BY <1>0, <1>2 DEF DeepRescanStart, SyncState
  <1>3. ASSUME DeepRescanCheck(c) \/ CheckMode(c) \/ Stream(c)  PROVE  sync' = sync
    BY <1>3 DEF DeepRescanCheck, CheckMode, Stream
  <1>4. ASSUME StreamFails(c)
        PROVE  /\ ~sync'.inFlight /\ sync'.start = sync.start /\ sync'.end = sync.end
               /\ pool => /\ ~sync'.syncing /\ sync'.mode = "Finished"
                          /\ sync'.relayWait = sync.relayWait
                          /\ sync'.deferredLast = sync.deferredLast
               /\ ~pool => /\ sync'.relayWait /\ sync'.mode = sync.mode
                           /\ sync'.syncing = sync.syncing
                           /\ sync'.deferredLast = call[c].win.last
    <2>1. CASE pool
      <3>1. sync' = abandon_sync_slice(sync)
        BY <1>4, <2>1 DEF StreamFails
      <3>2. QED  BY <1>0, <2>1, <3>1 DEF abandon_sync_slice, SyncState
    <2>2. CASE ~pool
      <3>1. sync' = defer_sync_slice_for_empty_pool(sync, call[c].win.last)
        BY <1>4, <2>2 DEF StreamFails
      <3>2. QED  BY <1>0, <2>2, <3>1 DEF defer_sync_slice_for_empty_pool, SyncState
    <2>3. QED  BY <2>1, <2>2
  <1>5. ASSUME CloseWalk(c)
        PROVE  /\ sync'.mode = "Finished" /\ ~sync'.syncing
               /\ sync'.inFlight = sync.inFlight /\ sync'.relayWait = sync.relayWait
               /\ sync'.start = sync.start /\ sync'.end = sync.end
               /\ sync'.deferredLast = sync.deferredLast /\ sync'.until = sync.until
    BY <1>0, <1>5 DEF CloseWalk, SyncState
  <1>6. ASSUME RecordSlice(c)
        PROVE  LET ends == SliceEndsWalk(CountSlice(sync, call[c].found), call[c].win.last)
               IN  /\ ~sync'.inFlight
                   /\ sync'.relayWait = sync.relayWait /\ sync'.syncing = sync.syncing
                   /\ sync'.deferredLast = sync.deferredLast
                   /\ ends => sync'.mode = "Finished"
                   /\ ~ends => sync'.mode # "Finished" /\ sync'.until = sync.until
                   /\ sync.mode = "CatchUp" => /\ sync'.start = sync.start /\ sync'.end = sync.end
                                               /\ (ends <=> call[c].win.last)
                   /\ sync'.mode = "CatchUp" => sync.mode = "CatchUp"
    <2>2. PICK oldest \in Nat :
            sync' = record_slice_result(sync, call[c].found, call[c].win.last, oldest, now, mono)
      BY <1>6 DEF RecordSlice, OldestTimes, Typed
    <2> DEFINE r == record_slice_result(sync, call[c].found, call[c].win.last, oldest, now, mono)
               ends == SliceEndsWalk(CountSlice(sync, call[c].found), call[c].win.last)
    <2>3. /\ ~r.inFlight
          /\ r.relayWait = sync.relayWait /\ r.syncing = sync.syncing
          /\ r.deferredLast = sync.deferredLast
          /\ ends => r.mode = "Finished"
          /\ ~ends => r.mode # "Finished" /\ r.until = sync.until
          /\ sync.mode = "CatchUp" => /\ r.start = sync.start /\ r.end = sync.end
                                      /\ (ends <=> call[c].win.last)
          /\ r.mode = "CatchUp" => sync.mode = "CatchUp"
      BY <1>0, Recorded
    <2>4. QED  BY <2>2, <2>3, Zenon
  <1>7. QED  BY <1>1, <1>2, <1>3, <1>4, <1>5, <1>6

\* Whoever gets no window has not left the walk alone.
LEMMA NoneAvailable ==
    ASSUME Typed, Owned, sync.syncing, ~leaked, ~SliceAvailable(sync, now, mono)
    PROVE  \E d \in Calls : call[d].pc \in Runs \cup {"closing"}
  <1>1. ~sync.relayWait /\ (sync.inFlight \/ sync.mode = "Finished")
    BY DEF SliceAvailable
  <1>2. QED  BY <1>1 DEF Owned, Runs

LEMMA OwnedClaim ==
    ASSUME Typed, Owned, NEW c \in Calls, call[c].pc \in {"idle", "rescanFetch"}, ClaimSlice(c),
           leaked' = leaked
    PROVE  Owned' /\ WalkHasOwner'
  <1>0. sync \in SyncState /\ now \in Nat \ {0}
    BY DEF Typed
  <1>1. CASE /\ sync' = next_sync_slice(sync, now) /\ call'[c].pc = "claimed"
             /\ \A d \in Calls \ {c} : call'[d] = call[d]
    <2>1. /\ sync.relayWait \/ sync.mode # "Finished" => sync'.mode = sync.mode /\ sync'.syncing = sync.syncing
          /\ ~sync.relayWait /\ sync.mode = "Finished" => sync'.mode = "CatchUp"
      BY <1>0, <1>1, Claimed
    <2>2. sync'.syncing /\ sync'.mode = "Finished" => \E d \in Calls : call'[d].pc = "closing"
      BY <1>1, <2>1 DEF Owned
    <2>3. Owned'
      BY <1>1, <2>2 DEF Owned, Runs
    <2>4. QED  BY <1>1, <2>3 DEF WalkHasOwner
  <1>2. CASE /\ ~SliceAvailable(sync, now, mono) /\ sync' = sync /\ call'[c].pc = "idle"
             /\ \A d \in Calls \ {c} : call'[d] = call[d]
    <2>1. \A d \in Calls : call[d].pc \in Runs \cup {"closing"} => call'[d] = call[d]
      BY <1>2 DEF Runs
    <2>2. Owned'
      BY <1>2, <2>1 DEF Owned
    <2>3. ASSUME sync.syncing, ~leaked  PROVE  \E d \in Calls : call'[d].pc # "idle"
      BY <1>2, <2>1, <2>3, NoneAvailable DEF Runs
    <2>4. QED  BY <1>2, <2>2, <2>3 DEF WalkHasOwner
  <1>3. QED  BY <1>1, <1>2, ClaimEffect

LEMMA OwnedStep ==
    ASSUME Typed, Owned, WalkHasOwner, [Next]_vars
    PROVE  Owned' /\ WalkHasOwner'
  <1>1. CASE Aside \/ UNCHANGED vars
    <2>1. UNCHANGED <<sync, call, leaked>> /\ (signals' = signals \/ Connect)
      BY <1>1, AsideFrame
    <2>2. signals' >= signals /\ signals \in Nat /\ signals' \in Nat
      BY <2>1 DEF Connect, Typed
    <2>3. QED  BY <2>1, <2>2 DEF Owned, WalkHasOwner
  <1>2. CASE Login
    BY <1>2 DEF Login, NewChatState, Owned, WalkHasOwner
  <1>3. ASSUME NEW c \in Calls, FetchInit(c)  PROVE  Owned' /\ WalkHasOwner'
    <2>1. call'[c].pc = "claimed" /\ sync'.mode = "ForwardSync"
      BY <1>3, CallMoves, WalkMoves
    <2>2. QED  BY <2>1 DEF Owned, WalkHasOwner, Runs
  <1>4. ASSUME NEW c \in Calls, FetchContinue(c) \/ FetchWake(c) \/ DeepRescanFetch(c)
        PROVE  Owned' /\ WalkHasOwner'
    <2>1. ClaimSlice(c) /\ call[c].pc \in {"idle", "rescanFetch"} /\ leaked' = leaked
      BY <1>4 DEF FetchContinue, FetchWake, DeepRescanFetch
    <2>2. QED  BY <2>1, OwnedClaim
  <1>5. ASSUME NEW c \in Calls, DeepRescanCheck(c)  PROVE  Owned' /\ WalkHasOwner'
    <2>1. /\ call'[c].pc = "rescan" /\ sync' = sync /\ call[c].pc = "idle" /\ leaked' = leaked
          /\ \A d \in Calls \ {c} : call'[d] = call[d]
      BY <1>5, CallMoves, WalkMoves DEF DeepRescanCheck
    <2>2. QED  BY <2>1 DEF Owned, WalkHasOwner, Runs
  <1>6. ASSUME NEW c \in Calls, DeepRescanStart(c)  PROVE  Owned' /\ WalkHasOwner'
    <2>1. /\ call'[c].pc = "rescanFetch" /\ sync'.mode = "DeepRescan" /\ call[c].pc = "rescan"
          /\ leaked' = leaked /\ sync'.inFlight = sync.inFlight
          /\ \A d \in Calls \ {c} : call'[d] = call[d]
      BY <1>6, CallMoves, WalkMoves DEF DeepRescanStart
    <2>2. QED  BY <2>1 DEF Owned, WalkHasOwner, Runs
  <1>7. ASSUME NEW c \in Calls, CheckMode(c)  PROVE  Owned' /\ WalkHasOwner'
    <2>1. /\ sync' = sync /\ call[c].pc = "claimed"
          /\ \A d \in Calls \ {c} : call'[d] = call[d]
      BY <1>7, CallMoves, WalkMoves DEF CheckMode
    <2>2. CASE sync.mode = "Finished"
      <3>1. call'[c].pc = "idle" /\ (leaked' <=> leaked \/ sync.inFlight)
        BY <1>7, <2>2, CallMoves DEF CheckMode
      <3>2. sync.syncing => \E d \in Calls : d # c /\ call[d].pc = "closing"
        BY <2>1, <2>2 DEF Owned
      <3>3. QED  BY <2>1, <3>1, <3>2 DEF Owned, WalkHasOwner
    <2>3. CASE sync.mode # "Finished"
      <3>1. call'[c].pc = "streaming" /\ leaked' = leaked
        BY <1>7, <2>3, CallMoves DEF CheckMode
      <3>2. QED  BY <2>1, <2>3, <3>1 DEF Owned, WalkHasOwner, Runs
    <2>4. QED  BY <2>2, <2>3
  <1>8. ASSUME NEW c \in Calls, StreamFails(c)  PROVE  Owned' /\ WalkHasOwner'
    <2>1. /\ ~sync'.inFlight /\ call[c].pc = "streaming" /\ call'[c].pc = "idle"
          /\ leaked' = leaked /\ \A d \in Calls \ {c} : call'[d] = call[d]
          /\ pool => ~sync'.syncing
          /\ ~pool => sync'.relayWait /\ sync'.mode = sync.mode /\ sync'.syncing = sync.syncing
      BY <1>8, CallMoves, WalkMoves DEF StreamFails
    <2>2. QED  BY <2>1 DEF Owned, WalkHasOwner
  <1>9. ASSUME NEW c \in Calls, Stream(c)  PROVE  Owned' /\ WalkHasOwner'
    <2>1. /\ sync' = sync /\ call[c].pc = "streaming" /\ call'[c].pc = "fetched"
          /\ leaked' = leaked /\ \A d \in Calls \ {c} : call'[d] = call[d]
      BY <1>9, CallMoves, WalkMoves DEF Stream
    <2>2. QED  BY <2>1 DEF Owned, WalkHasOwner, Runs
  <1>10. ASSUME NEW c \in Calls, RecordSlice(c)  PROVE  Owned' /\ WalkHasOwner'
    <2> DEFINE ends == SliceEndsWalk(CountSlice(sync, call[c].found), call[c].win.last)
    <2>1. /\ ~sync'.inFlight /\ call[c].pc = "fetched" /\ leaked' = leaked
          /\ \A d \in Calls \ {c} : call'[d] = call[d]
          /\ ends => call'[c].pc = "closing"
          /\ ~ends => sync'.mode # "Finished"
      BY <1>10, CallMoves, WalkMoves DEF RecordSlice
    <2>2. ~ends => signals' > 0
      BY <1>10 DEF RecordSlice, Typed
    <2>3. QED  BY <2>1, <2>2 DEF Owned, WalkHasOwner
  <1>11. ASSUME NEW c \in Calls, CloseWalk(c)  PROVE  Owned' /\ WalkHasOwner'
    <2>1. /\ ~sync'.syncing /\ sync'.inFlight = sync.inFlight /\ leaked' = leaked
          /\ call[c].pc = "closing" /\ \A d \in Calls \ {c} : call'[d] = call[d]
      BY <1>11, CallMoves, WalkMoves DEF CloseWalk
    <2>2. QED  BY <2>1 DEF Owned, WalkHasOwner, Runs
  <1>12. QED
    BY <1>1, <1>2, <1>3, <1>4, <1>5, <1>6, <1>7, <1>8, <1>9, <1>10, <1>11
    DEF Next, CallStep, Aside

-----------------------------------------------------------------------------
(* One slice at a time, within one login of the process. *)

\* Until the login's own fetch there is nothing to continue; after it, slice_in_flight
\* stands for the one call that runs, and a deferred window is nobody's.
Fresh == logins = 0 \/ initDue
Solo ==
    /\ logins <= 1 /\ (initDue => logins # 0)
    /\ Fresh => sync = NewChatState /\ signals = 0 /\ \A c \in Calls : call[c].pc = "idle"
    /\ \A c, d \in Calls : call[c].pc \in Runs /\ call[d].pc \in Runs => c = d
    /\ \A c \in Calls : call[c].pc \in Runs => sync.inFlight
    /\ sync.relayWait => ~sync.inFlight

LEMMA SoloClaim ==
    ASSUME Typed, Solo, ~Fresh, NEW c \in Calls, call[c].pc \notin Runs, ClaimSlice(c),
           UNCHANGED <<initDue, logins>>
    PROVE  Solo'
  <1>0. sync \in SyncState /\ now \in Nat \ {0}
    BY DEF Typed
  <1>1. CASE /\ SliceAvailable(sync, now, mono) /\ sync' = next_sync_slice(sync, now)
             /\ call'[c].pc = "claimed" /\ \A d \in Calls \ {c} : call'[d] = call[d]
    <2>1. sync'.inFlight /\ ~sync'.relayWait
      BY <1>0, <1>1, Claimed
    <2>2. ~sync.inFlight
      BY <1>1 DEF SliceAvailable, Solo
    <2>3. QED  BY <1>1, <2>1, <2>2 DEF Solo, Fresh
  <1>2. CASE sync' = sync /\ call'[c].pc = "idle" /\ \A d \in Calls \ {c} : call'[d] = call[d]
    BY <1>2 DEF Solo, Fresh, Runs
  <1>3. QED  BY <1>1, <1>2, ClaimEffect

\* A step of a call that leaves at most that one running.
LEMMA SoloCall ==
    ASSUME Typed, Solo, ~Fresh, NEW c \in Calls, UNCHANGED <<initDue, logins>>,
           \A d \in Calls \ {c} : call'[d] = call[d],
           call'[c].pc \in Runs => call[c].pc \in Runs /\ sync'.inFlight,
           \/ sync'.inFlight = sync.inFlight
           \/ ~sync'.inFlight /\ call[c].pc \in Runs /\ call'[c].pc \notin Runs,
           \/ sync'.relayWait = sync.relayWait /\ sync'.inFlight = sync.inFlight
           \/ ~sync'.inFlight
    PROVE  Solo'
  <1>1. \A d \in Calls \ {c} : call'[d].pc \in Runs => call[d].pc \in Runs
    OBVIOUS
  <1>2. \A d \in Calls : call'[d].pc \in Runs => call[d].pc \in Runs
    BY <1>1
  <1>3. \A d \in Calls : call'[d].pc \in Runs => sync'.inFlight
    BY <1>1, <1>2 DEF Solo
  <1>4. QED  BY <1>2, <1>3 DEF Solo, Fresh

LEMMA SoloStep ==
    ASSUME MaxLogins <= 1, Typed, Solo, [Next]_vars
    PROVE  Solo'
  <1>1. CASE Aside \/ UNCHANGED vars
    <2>1. UNCHANGED <<sync, call, initDue, logins>> /\ (signals' = signals \/ Connect)
      BY <1>1, AsideFrame
    <2>2. Fresh => signals' = signals
      BY <2>1 DEF Connect, Solo, NewChatState
    <2>3. QED  BY <2>1, <2>2 DEF Solo, Fresh
  <1>2. CASE Login
    <2>1. logins = 0 /\ logins' = 1 /\ sync' = NewChatState /\ UNCHANGED <<call, signals>>
      BY <1>2 DEF Login, Typed
    <2>2. Fresh
      BY <2>1 DEF Fresh
    <2>3. \A c \in Calls : call'[c].pc \notin Runs
      BY <2>1, <2>2 DEF Solo, Runs
    <2>4. ~sync'.relayWait
      BY <2>1 DEF NewChatState
    <2>5. QED  BY <2>1, <2>2, <2>3, <2>4 DEF Solo
  <1>3. ASSUME NEW c \in Calls, FetchInit(c)  PROVE  Solo'
    <2>1. /\ call'[c].pc = "claimed" /\ \A d \in Calls \ {c} : call'[d] = call[d]
          /\ sync'.inFlight /\ sync'.relayWait = sync.relayWait /\ initDue /\ ~initDue'
          /\ logins' = logins
      BY <1>3, CallMoves, WalkMoves DEF FetchInit
    <2>2. /\ sync = NewChatState /\ \A d \in Calls : call[d].pc = "idle"
      BY <2>1 DEF Solo, Fresh
    <2>3. ~sync.relayWait
      BY <2>2 DEF NewChatState
    <2>4. logins' # 0
      BY <2>1 DEF Solo
    <2>5. QED  BY <2>1, <2>2, <2>3, <2>4 DEF Solo, Fresh, Runs
  <1>4. ASSUME NEW c \in Calls, FetchContinue(c) \/ FetchWake(c) \/ DeepRescanFetch(c)
        PROVE  Solo'
    <2>1. /\ ClaimSlice(c) /\ call[c].pc \notin Runs /\ UNCHANGED <<initDue, logins>>
          /\ signals > 0 \/ (logins > 0 /\ ~initDue) \/ call[c].pc # "idle"
      BY <1>4 DEF FetchContinue, FetchWake, DeepRescanFetch, Runs
    <2>2. ~Fresh
      BY <2>1 DEF Solo, Fresh, Typed
    <2>3. QED  BY <2>1, <2>2, SoloClaim
  <1>5. ASSUME NEW c \in Calls, DeepRescanCheck(c)  PROVE  Solo'
    <2>1. /\ call'[c].pc = "rescan" /\ \A d \in Calls \ {c} : call'[d] = call[d]
          /\ sync' = sync /\ UNCHANGED <<initDue, logins>> /\ ~Fresh
      BY <1>5, CallMoves, WalkMoves DEF DeepRescanCheck, Fresh, Typed
    <2>2. QED  BY <2>1, SoloCall DEF Runs
  <1>6. ASSUME NEW c \in Calls, CallStep(c), ~DeepRescanFetch(c)  PROVE  Solo'
    <2>1. UNCHANGED <<initDue, logins>> /\ call[c].pc # "idle"
      BY <1>6 DEF CallStep, CheckMode, StreamFails, Stream, RecordSlice, CloseWalk, DeepRescanStart
    <2>2. ~Fresh
      BY <2>1 DEF Solo
    <2>3. CASE DeepRescanStart(c)
      <3>1. /\ call'[c].pc = "rescanFetch" /\ \A d \in Calls \ {c} : call'[d] = call[d]
            /\ sync'.inFlight = sync.inFlight /\ sync'.relayWait = sync.relayWait
        BY <2>3, CallMoves, WalkMoves
      <3>2. QED  BY <2>1, <2>2, <3>1, SoloCall DEF Runs
    <2>4. CASE CheckMode(c)
      <3>1. /\ call'[c].pc \in {"idle", "streaming"} /\ \A d \in Calls \ {c} : call'[d] = call[d]
            /\ sync' = sync /\ call[c].pc = "claimed"
        BY <2>4, CallMoves, WalkMoves DEF CheckMode
      <3>2. call[c].pc \in Runs /\ sync.inFlight
        BY <3>1 DEF Solo, Runs
      <3>3. QED  BY <2>1, <2>2, <3>1, <3>2, SoloCall
    <2>5. CASE StreamFails(c)
      <3>1. /\ call'[c].pc = "idle" /\ \A d \in Calls \ {c} : call'[d] = call[d]
            /\ ~sync'.inFlight /\ call[c].pc = "streaming"
        BY <2>5, CallMoves, WalkMoves DEF StreamFails
      <3>2. QED  BY <2>1, <2>2, <3>1, SoloCall DEF Runs
    <2>6. CASE Stream(c)
      <3>1. /\ call'[c].pc = "fetched" /\ \A d \in Calls \ {c} : call'[d] = call[d]
            /\ sync' = sync /\ call[c].pc = "streaming"
        BY <2>6, CallMoves, WalkMoves DEF Stream
      <3>2. call[c].pc \in Runs /\ sync.inFlight
        BY <3>1 DEF Solo, Runs
      <3>3. QED  BY <2>1, <2>2, <3>1, <3>2, SoloCall
    <2>7. CASE RecordSlice(c)
      <3>1. /\ call'[c].pc \in {"idle", "closing"} /\ \A d \in Calls \ {c} : call'[d] = call[d]
            /\ ~sync'.inFlight /\ call[c].pc = "fetched"
        BY <2>7, CallMoves, WalkMoves DEF RecordSlice
      <3>2. QED  BY <2>1, <2>2, <3>1, SoloCall DEF Runs
    <2>8. CASE CloseWalk(c)
      <3>1. /\ call'[c].pc = "idle" /\ \A d \in Calls \ {c} : call'[d] = call[d]
            /\ sync'.inFlight = sync.inFlight /\ sync'.relayWait = sync.relayWait
        BY <2>8, CallMoves, WalkMoves
      <3>2. QED  BY <2>1, <2>2, <3>1, SoloCall DEF Runs
    <2>9. QED  BY <1>6, <2>3, <2>4, <2>5, <2>6, <2>7, <2>8 DEF CallStep
  <1>7. QED
    BY <1>1, <1>2, <1>3, <1>4, <1>5, <1>6 DEF Next, CallStep, Aside

\* OneSlice in terms of sets.
LEMMA SoloOne ==
    ASSUME Typed, Solo
    PROVE  OneSlice
  <1>1. CASE Running = {}
    BY <1>1, FS_EmptySet DEF OneSlice
  <1>2. CASE Running # {}
    <2>1. PICK c \in Calls : call[c].pc \in Runs /\ Running = {c}
      BY <1>2 DEF Running, Runs, Solo
    <2>2. Cardinality(Running) = 1 /\ sync.inFlight
      BY <2>1, FS_Singleton DEF Solo
    <2>3. QED  BY <2>2 DEF OneSlice
  <1>3. QED  BY <1>1, <1>2

\* While a slice waits, only its own retry, a rescan or a login ends the wait.
LEMMA WaitStep ==
    ASSUME Typed, Solo, sync.relayWait, Next
    PROVE  \/ sync' = NewChatState
           \/ \E c \in Calls : call[c].pc = "rescan" /\ call'[c].pc = "rescanFetch"
           \/ /\ sync'.start = sync.start /\ sync'.end = sync.end
              /\ sync'.deferredLast = sync.deferredLast
              /\ \/ sync'.relayWait
                 \/ \E c \in Calls : call'[c] = [pc |-> "claimed", found |-> 0, win |->
                        [since |-> sync.start, until |-> sync.end, last |-> sync.deferredLast]]
  <1>0. sync \in SyncState /\ now \in Nat \ {0}
    BY DEF Typed
  <1>a. \A c \in Calls : call[c].pc \notin Runs
    BY DEF Solo
  <1>b. ~initDue
    BY DEF Solo, Fresh, NewChatState
  <1>1. CASE Aside
    BY <1>1, AsideFrame
  <1>2. CASE Login
    BY <1>2 DEF Login
  <1>3. ASSUME NEW c \in Calls, FetchInit(c)  PROVE  FALSE
    BY <1>3, <1>b DEF FetchInit
  <1>4. ASSUME NEW c \in Calls, FetchContinue(c) \/ FetchWake(c) \/ DeepRescanFetch(c)
        PROVE  /\ sync'.start = sync.start /\ sync'.end = sync.end
               /\ sync'.deferredLast = sync.deferredLast
               /\ call'[c] = [pc |-> "claimed", found |-> 0, win |->
                        [since |-> sync.start, until |-> sync.end, last |-> sync.deferredLast]]
    <2>1. ClaimSlice(c) /\ SliceAvailable(sync, now, mono)
      BY <1>4 DEF FetchContinue, FetchWake, DeepRescanFetch, SliceAvailable
    <2>2. /\ sync' = next_sync_slice(sync, now)
          /\ call'[c] = [pc |-> "claimed", win |-> next_window(sync, now), found |-> 0]
      BY <2>1, ClaimEffect
    <2>3. next_window(sync, now) = [since |-> sync.start, until |-> sync.end, last |-> sync.deferredLast]
      BY <1>0, NextWindow
    <2>4. QED  BY <1>0, <2>2, <2>3, Claimed
  <1>5. ASSUME NEW c \in Calls, DeepRescanCheck(c)  PROVE  sync' = sync
    BY <1>5, WalkMoves
  <1>6. ASSUME NEW c \in Calls, DeepRescanStart(c)
        PROVE  call[c].pc = "rescan" /\ call'[c].pc = "rescanFetch"
    BY <1>6, CallMoves DEF DeepRescanStart
  <1>7. ASSUME NEW c \in Calls, CheckMode(c) \/ StreamFails(c) \/ Stream(c) \/ RecordSlice(c)
        PROVE  FALSE
    BY <1>7, <1>a DEF CheckMode, StreamFails, Stream, RecordSlice, Runs
  <1>8. ASSUME NEW c \in Calls, CloseWalk(c)
        PROVE  /\ sync'.start = sync.start /\ sync'.end = sync.end
               /\ sync'.deferredLast = sync.deferredLast /\ sync'.relayWait
    BY <1>8, WalkMoves
  <1>9. QED
    BY <1>1, <1>2, <1>3, <1>4, <1>5, <1>6, <1>7, <1>8 DEF Next, CallStep, Aside

-----------------------------------------------------------------------------
(* What a catch-up has brought in so far. *)

\* What it owes was on the relays when it began.
DueHeld == \A w \in due : created[w] # 0 /\ created[w] <= now

\* A window that was handed out and has not been streamed yet.
Pending == sync.relayWait \/ \E c \in Calls : call[c].pc \in {"claimed", "streaming"}
Before(t) == \A w \in due : created[w] < t => w \in ingested \cup withheld
UpTo(t) == \A w \in due : created[w] <= t => w \in ingested \cup withheld
AllBy(t) == \A w \in due : created[w] <= t

\* Everything owed lies behind the window in work or is in already, and the last window
\* reaches everything owed.
Reached ==
    sync.mode = "CatchUp" =>
        /\ 1 <= sync.end /\ sync.end <= now
        /\ \A c \in Calls : call[c].pc \in Runs =>
                call[c].win.since = sync.start /\ call[c].win.until = sync.end
        /\ Pending => Before(sync.start)
        /\ ~Pending => UpTo(sync.end)
        /\ sync.relayWait /\ sync.deferredLast => AllBy(sync.end)
        /\ \A c \in Calls : call[c].pc \in Runs /\ call[c].win.last => AllBy(sync.end)

\* Steps that touch neither the walk nor what is owed.
LEMMA ReachedAside ==
    ASSUME ClockSteps \subseteq Nat, Typed, DueHeld, Reached, Aside \/ UNCHANGED vars
    PROVE  DueHeld' /\ Reached'
  <1>0. /\ now \in Nat /\ created \in [Wraps -> Nat] /\ due \subseteq Wraps /\ sync.end \in Int
        /\ sync.start \in Int
    BY DEF Typed, SyncState
  <1>1. UNCHANGED <<sync, call, due, withheld>>
    BY AsideFrame
  <1>2. ingested \subseteq ingested'
    BY DEF Aside, Connect, EmptyPool, Repopulate, SingleRelaySync, Tick, Publish, netVars, vars
  <1>3. now' \in Nat /\ now <= now'
    <2>1. CASE Tick
      <3>1. PICK d \in Nat : now' = Larger(1, now + d)
        BY <2>1 DEF Tick
      <3>2. QED  BY <1>0, <3>1 DEF Larger
    <2>2. CASE ~Tick
      BY <1>0, <2>2 DEF Aside, Connect, EmptyPool, Repopulate, SingleRelaySync, Publish, vars
    <2>3. QED  BY <2>1, <2>2
  <1>4. \A w \in due : created'[w] = created[w]
    <2>1. CASE \E x \in Wraps : Publish(x)
      <3>1. PICK x \in Wraps : Publish(x)
        BY <2>1
      <3>2. PICK t : created' = [created EXCEPT ![x] = t]
        BY <3>1 DEF Publish
      <3>3. x \notin due
        BY <3>1 DEF Publish, DueHeld
      <3>4. QED  BY <1>0, <3>2, <3>3
    <2>2. CASE ~\E x \in Wraps : Publish(x)
      BY <2>2 DEF Aside, Connect, EmptyPool, Repopulate, SingleRelaySync, Tick, netVars, vars
    <2>3. QED  BY <2>1, <2>2
  <1>5. DueHeld'
    BY <1>0, <1>1, <1>3, <1>4 DEF DueHeld
  <1>6. Pending' <=> Pending
    BY <1>1 DEF Pending
  <1>7. ASSUME sync.mode = "CatchUp"
        PROVE  /\ 1 <= sync.end /\ sync.end <= now'
               /\ Pending => Before(sync.start)'
               /\ ~Pending => UpTo(sync.end)'
               /\ AllBy(sync.end) => AllBy(sync.end)'
    <2>1. 1 <= sync.end /\ sync.end <= now
      BY <1>7 DEF Reached
    <2>2. Before(sync.start) => Before(sync.start)'
      BY <1>1, <1>2, <1>4 DEF Before
    <2>3. UpTo(sync.end) => UpTo(sync.end)'
      BY <1>1, <1>2, <1>4 DEF UpTo
    <2>4. AllBy(sync.end) => AllBy(sync.end)'
      BY <1>1, <1>4 DEF AllBy
    <2>5. QED  BY <1>0, <1>3, <1>7, <2>1, <2>2, <2>3, <2>4 DEF Reached
  <1>8. QED  BY <1>1, <1>5, <1>6, <1>7 DEF Reached

\* A claim: a deferred window again, the next window of the walk, or a promotion.
LEMMA ReachedClaim ==
    ASSUME Typed, Solo, DueHeld, Reached, NEW c \in Calls, call[c].pc \notin Runs, ClaimSlice(c),
           UNCHANGED <<now, created, ingested, withheld>>
    PROVE  DueHeld' /\ Reached'
  <1>0. /\ sync \in SyncState /\ now \in Nat \ {0} /\ created \in [Wraps -> Nat] /\ due \subseteq Wraps
        /\ sync.end \in Int /\ sync.start \in Int /\ sync.until \in Nat
    BY DEF Typed, SyncState
  <1> DEFINE w == next_window(sync, now)
  <1>1. CASE ~SliceAvailable(sync, now, mono)
    <2>1. /\ sync' = sync /\ due' = due /\ call'[c].pc = "idle"
          /\ \A d \in Calls \ {c} : call'[d] = call[d]
      BY <1>1, ClaimEffect
    <2>2. \A d \in Calls : /\ call'[d].pc \in Runs => call[d].pc \in Runs /\ call'[d] = call[d]
                           /\ call'[d].pc \in {"claimed", "streaming"} <=> call[d].pc \in {"claimed", "streaming"}
      BY <2>1 DEF Runs
    <2>3. (Pending' <=> Pending) /\ DueHeld'
      BY <2>1, <2>2 DEF Pending, DueHeld
    <2>4. QED  BY <2>1, <2>2, <2>3 DEF Reached, Before, UpTo, AllBy
  <1>2. CASE SliceAvailable(sync, now, mono)
    <2>1. /\ sync' = next_sync_slice(sync, now)
          /\ call'[c].pc = "claimed" /\ call'[c].win = w
          /\ \A d \in Calls \ {c} : call'[d] = call[d]
          /\ due' = IF sync.mode = "Finished" /\ ~sync.relayWait THEN Owed ELSE due
      BY <1>2, ClaimEffect
    <2>2. /\ sync' \in SyncState /\ sync'.inFlight /\ ~sync'.relayWait
          /\ sync.relayWait => sync'.start = sync.start /\ sync'.end = sync.end
          /\ ~sync.relayWait => sync'.start = w.since /\ sync'.end = w.until
          /\ sync.relayWait \/ sync.mode # "Finished" => sync'.mode = sync.mode
          /\ ~sync.relayWait /\ sync.mode = "Finished" => sync'.mode = "CatchUp"
      BY <1>0, <2>1, Claimed
    <2>3. ~sync.inFlight
      BY <1>2 DEF SliceAvailable, Solo
    <2>4. \A d \in Calls : call'[d].pc \in Runs => d = c
      BY <2>1, <2>3 DEF Solo
    <2>5. Pending'
      BY <2>1 DEF Pending
    <2>6. ~sync.relayWait => ~Pending
      BY <2>3 DEF Solo, Pending, Runs
    <2>7. w \in Window
      BY <1>0, NextWindow
    <2> HIDE DEF w
    <2>8. DueHeld'
      <3>1. Owed \subseteq {x \in Wraps : created[x] # 0 /\ created[x] <= now}
        BY DEF Owed, Between, OnRelays
      <3>2. QED  BY <2>1, <3>1 DEF DueHeld
    <2>9. SUFFICES ASSUME sync'.mode = "CatchUp"
                   PROVE  /\ 1 <= sync'.end /\ sync'.end <= now
                          /\ w.since = sync'.start /\ w.until = sync'.end
                          /\ Before(sync.start)'
                          /\ w.last => AllBy(sync.end)'
      BY <2>1, <2>2, <2>4, <2>5, <2>8 DEF Reached, Before, UpTo, AllBy
    <2>10. CASE sync.relayWait
      <3>1. w = [since |-> sync.start, until |-> sync.end, last |-> sync.deferredLast]
        BY <1>0, <2>10, NextWindow DEF w
      <3>2. Pending /\ sync.mode = "CatchUp" /\ due' = due
        BY <2>1, <2>2, <2>9, <2>10 DEF Pending
      <3>3. Before(sync.start) /\ (sync.deferredLast => AllBy(sync.end))
            /\ 1 <= sync.end /\ sync.end <= now
        BY <2>10, <3>2 DEF Reached
      <3>4. w.since = sync.start /\ w.until = sync.end /\ w.last = sync.deferredLast
        BY <3>1
      <3>5. QED  BY <2>2, <2>10, <3>2, <3>3, <3>4 DEF Before, AllBy
    <2>11. CASE ~sync.relayWait /\ sync.mode = "CatchUp"
      <3>1. w = catch_up_window(sync.end, now, FALSE) /\ due' = due
        BY <1>0, <2>1, <2>11, NextWindow DEF w
      <3>2. UpTo(sync.end) /\ 1 <= sync.end
        BY <2>6, <2>11 DEF Reached
      <3>3. w.until <= now /\ (w.last => w.until = now) /\ w.since = sync.end /\ w.until >= 1
        BY <1>0, <3>1, <3>2, CatchUpNext
      <3>4. sync'.start = sync.end /\ sync'.end = w.until /\ sync'.start = w.since
        BY <2>2, <2>11, <3>3
      <3>5. Before(sync.start)'
        <4>1. \A x \in due : created[x] < sync.end => created[x] <= sync.end
          BY <1>0
        <4>2. QED  BY <3>1, <3>2, <3>4, <4>1 DEF Before, UpTo
      <3>6. w.last => AllBy(sync.end)'
        BY <3>1, <3>3, <3>4 DEF AllBy, DueHeld
      <3>7. w.until \in Int
        BY <2>7 DEF Window
      <3>8. QED  BY <3>3, <3>4, <3>5, <3>6, <3>7
    <2>12. CASE ~sync.relayWait /\ sync.mode = "Finished"
      <3>1. w = catch_up_window(sync.until, now, TRUE) /\ due' = Owed
        BY <1>0, <2>1, <2>12, NextWindow DEF w
      <3>2. /\ w.until <= now /\ (w.last => w.until = now) /\ w.until >= 1 /\ w.since >= 0
            /\ sync.until # 0 => w.since <= sync.until - Overlap \/ w.since = 0
            /\ sync.until = 0 => w.since <= now - Slice \/ w.since = 0
        BY <1>0, <3>1, CatchUpFirst
      <3>3. w.until \in Int /\ w.since \in Int
        BY <2>7 DEF Window
      <3>4. sync'.start = w.since /\ sync'.end = w.until
        BY <2>2, <2>12
      <3>5. \A x \in Owed : created[x] \in Nat /\ created[x] >= w.since /\ created[x] <= now
        <4>1. CASE sync.until = 0
          <5>1. \A x \in Owed : /\ created[x] \in Nat /\ created[x] # 0
                                /\ now - Slice <= created[x] /\ created[x] <= now
            BY <1>0, <4>1 DEF Owed, Between, OnRelays
          <5>2. QED  BY <1>0, <3>2, <3>3, <4>1, <5>1
        <4>2. CASE sync.until # 0
          <5>1. \A x \in Owed : /\ created[x] \in Nat /\ created[x] # 0
                                /\ sync.until - Overlap <= created[x] /\ created[x] <= now
            BY <1>0, <4>2 DEF Owed, Between, OnRelays
          <5>2. QED  BY <1>0, <3>2, <3>3, <4>2, <5>1
        <4>3. QED  BY <4>1, <4>2
      <3>6. Before(sync.start)'
        <4>1. \A x \in Owed : ~(created[x] < w.since)
          BY <3>3, <3>5
        <4>2. QED  BY <3>1, <3>4, <4>1 DEF Before
      <3>7. w.last => AllBy(sync.end)'
        BY <3>1, <3>2, <3>4, <3>5 DEF AllBy
      <3>8. QED  BY <3>2, <3>3, <3>4, <3>6, <3>7
    <2>13. QED  BY <2>2, <2>9, <2>10, <2>11, <2>12
  <1>3. QED  BY <1>1, <1>2

LEMMA ReachedStep ==
    ASSUME MaxLogins <= 1, ClockSteps \subseteq Nat, Typed, Solo, DueHeld, Reached, [Next]_vars
    PROVE  DueHeld' /\ Reached'
  <1>0. /\ sync \in SyncState /\ now \in Nat \ {0} /\ created \in [Wraps -> Nat] /\ due \subseteq Wraps
        /\ sync.end \in Int /\ sync.start \in Int
    BY DEF Typed, SyncState
  <1>1. CASE Aside \/ UNCHANGED vars
    BY <1>1, ReachedAside
  <1>2. CASE Login
    BY <1>2 DEF Login, NewChatState, DueHeld, Reached, netVars
  <1>3. ASSUME NEW c \in Calls, FetchInit(c)  PROVE  DueHeld' /\ Reached'
    <2>1. sync'.mode = "ForwardSync" /\ UNCHANGED <<now, created, due>>
      BY <1>3, WalkMoves DEF FetchInit, netVars
    <2>2. QED  BY <2>1 DEF DueHeld, Reached
  <1>4. ASSUME NEW c \in Calls, FetchContinue(c) \/ FetchWake(c) \/ DeepRescanFetch(c)
        PROVE  DueHeld' /\ Reached'
    <2>1. ClaimSlice(c) /\ call[c].pc \notin Runs /\ UNCHANGED <<now, created, ingested, withheld>>
      BY <1>4 DEF FetchContinue, FetchWake, DeepRescanFetch, Runs
    <2>2. QED  BY <2>1, ReachedClaim
  <1>5. ASSUME NEW c \in Calls, DeepRescanCheck(c)  PROVE  DueHeld' /\ Reached'
    <2>1. /\ call'[c].pc = "rescan" /\ call[c].pc = "idle" /\ \A d \in Calls \ {c} : call'[d] = call[d]
          /\ sync' = sync /\ UNCHANGED <<now, created, due, ingested, withheld>>
      BY <1>5, CallMoves, WalkMoves DEF DeepRescanCheck, netVars
    <2>2. \A d \in Calls : /\ call'[d].pc \in Runs => call[d].pc \in Runs /\ call'[d] = call[d]
                           /\ call'[d].pc \in {"claimed", "streaming"} <=> call[d].pc \in {"claimed", "streaming"}
      BY <2>1 DEF Runs
    <2>3. (Pending' <=> Pending) /\ DueHeld'
      BY <2>1, <2>2 DEF Pending, DueHeld
    <2>4. QED  BY <2>1, <2>2, <2>3 DEF Reached, Before, UpTo, AllBy
  <1>6. ASSUME NEW c \in Calls, DeepRescanStart(c)  PROVE  DueHeld' /\ Reached'
    <2>1. /\ sync'.mode = "DeepRescan" /\ due' = Between(now - Slice, now)
          /\ UNCHANGED <<now, created>>
      BY <1>6, WalkMoves DEF DeepRescanStart
    <2>2. DueHeld'
      BY <2>1 DEF DueHeld, Between, OnRelays
    <2>3. QED  BY <2>1, <2>2 DEF Reached
  <1>7. ASSUME NEW c \in Calls, CheckMode(c)  PROVE  DueHeld' /\ Reached'
    <2>1. /\ sync' = sync /\ UNCHANGED <<now, created, due, ingested, withheld>>
          /\ call[c].pc = "claimed" /\ \A d \in Calls \ {c} : call'[d] = call[d]
          /\ sync.mode # "Finished" => call'[c].pc = "streaming" /\ call'[c].win = call[c].win
      BY <1>7, CallMoves, WalkMoves DEF CheckMode, netVars
    <2>2. DueHeld'
      BY <2>1 DEF DueHeld
    <2>3. CASE sync.mode # "CatchUp"
      BY <2>1, <2>2, <2>3 DEF Reached
    <2>4. CASE sync.mode = "CatchUp"
      <3>1. /\ \A d \in Calls : call'[d].pc \in Runs => call[d].pc \in Runs /\ call'[d].win = call[d].win
            /\ Pending /\ Pending'
        BY <2>1, <2>4 DEF Pending, Runs
      <3>2. QED  BY <2>1, <2>2, <2>4, <3>1 DEF Reached, Before, AllBy
    <2>5. QED  BY <2>3, <2>4
  <1>8. ASSUME NEW c \in Calls, StreamFails(c)  PROVE  DueHeld' /\ Reached'
    <2>1. /\ call[c].pc = "streaming" /\ call'[c].pc = "idle" /\ \A d \in Calls \ {c} : call'[d] = call[d]
          /\ sync'.start = sync.start /\ sync'.end = sync.end
          /\ pool => sync'.mode = "Finished"
          /\ ~pool => /\ sync'.relayWait /\ sync'.mode = sync.mode
                      /\ sync'.deferredLast = call[c].win.last
          /\ UNCHANGED <<now, created, due, ingested, withheld>>
      BY <1>8, CallMoves, WalkMoves DEF StreamFails, netVars
    <2>2. DueHeld'
      BY <2>1 DEF DueHeld
    <2>3. CASE pool
      BY <2>1, <2>2, <2>3 DEF Reached
    <2>4. CASE ~pool
      <3>1. \A d \in Calls : call'[d].pc \notin Runs
        BY <2>1 DEF Solo, Runs
      <3>2. Pending /\ Pending' /\ call[c].pc \in Runs
        BY <2>1, <2>4 DEF Pending, Runs
      <3>3. QED  BY <2>1, <2>2, <2>4, <3>1, <3>2 DEF Reached, Before, AllBy
    <2>5. QED  BY <2>3, <2>4
  <1>9. ASSUME NEW c \in Calls, Stream(c)  PROVE  DueHeld' /\ Reached'
    <2>1. /\ call[c].pc = "streaming" /\ call'[c].pc = "fetched" /\ call'[c].win = call[c].win
          /\ \A d \in Calls \ {c} : call'[d] = call[d]
          /\ sync' = sync /\ UNCHANGED <<now, created, due>>
      BY <1>9, CallMoves, WalkMoves DEF Stream
    <2>2. DueHeld'
      BY <2>1 DEF DueHeld
    <2>3. SUFFICES ASSUME sync.mode = "CatchUp"  PROVE  Reached'
      BY <2>1, <2>2 DEF Reached
    <2>4. call[c].pc \in Runs /\ sync.inFlight /\ ~sync.relayWait
      BY <2>1 DEF Solo, Runs
    <2>5. \A d \in Calls : call'[d].pc \in Runs => d = c
      BY <2>1, <2>4 DEF Solo
    <2>6. ~Pending'
      BY <2>1, <2>4, <2>5 DEF Pending, Runs
    <2>7. Pending
      BY <2>1 DEF Pending
    <2>8. call[c].win.since = sync.start /\ call[c].win.until = sync.end
      BY <2>3, <2>4 DEF Reached
    <2>9. Between(sync.start, sync.end) \subseteq ingested' \cup withheld'
          /\ ingested \cup withheld \subseteq ingested' \cup withheld'
      BY <1>9, <2>8 DEF Stream
    <2>10. UpTo(sync.end)'
      <3>1. Before(sync.start)
        BY <2>3, <2>7 DEF Reached
      <3>2. ASSUME NEW x \in due, created[x] <= sync.end  PROVE  x \in ingested' \cup withheld'
        <4>1. created[x] \in Nat /\ created[x] # 0 /\ x \in Wraps
          BY <1>0 DEF DueHeld
        <4>2. CASE created[x] < sync.start
          BY <2>9, <3>1, <4>2 DEF Before
        <4>3. CASE sync.start <= created[x]
          <5>1. x \in Between(sync.start, sync.end)
            BY <3>2, <4>1, <4>3 DEF Between, OnRelays
          <5>2. QED  BY <2>9, <5>1
        <4>4. QED  BY <1>0, <4>1, <4>2, <4>3
      <3>3. QED  BY <2>1, <3>2 DEF UpTo
    <2>11. QED  BY <2>1, <2>3, <2>4, <2>5, <2>6, <2>8, <2>10 DEF Reached, AllBy
  <1>10. ASSUME NEW c \in Calls, RecordSlice(c)  PROVE  DueHeld' /\ Reached'
    <2>1. /\ call[c].pc = "fetched" /\ call'[c].pc \in {"idle", "closing"}
          /\ \A d \in Calls \ {c} : call'[d] = call[d]
          /\ sync'.relayWait = sync.relayWait
          /\ UNCHANGED <<now, created, due, ingested, withheld>>
          /\ sync'.mode = "CatchUp" => sync.mode = "CatchUp"
          /\ sync.mode = "CatchUp" => sync'.start = sync.start /\ sync'.end = sync.end
      BY <1>10, CallMoves, WalkMoves DEF RecordSlice, netVars
    <2>2. DueHeld'
      BY <2>1 DEF DueHeld
    <2>3. SUFFICES ASSUME sync.mode = "CatchUp", sync'.mode = "CatchUp"  PROVE  Reached'
      BY <2>1, <2>2 DEF Reached
    <2>4. call[c].pc \in Runs /\ sync.inFlight /\ ~sync.relayWait
      BY <2>1 DEF Solo, Runs
    <2>5. \A d \in Calls : call'[d].pc \notin Runs
      BY <2>1, <2>4 DEF Solo, Runs
    <2>6. \A d \in Calls : call[d].pc \in Runs => d = c
      BY <2>4 DEF Solo
    <2>7. ~Pending /\ ~Pending'
      <3>1. \A d \in Calls : call[d].pc \notin {"claimed", "streaming"}
        BY <2>1, <2>6 DEF Runs
      <3>2. QED  BY <2>1, <2>4, <2>5, <3>1 DEF Pending, Runs
    <2>8. QED  BY <2>1, <2>3, <2>4, <2>5, <2>7 DEF Reached, UpTo
  <1>11. ASSUME NEW c \in Calls, CloseWalk(c)  PROVE  DueHeld' /\ Reached'
    <2>1. sync'.mode = "Finished" /\ UNCHANGED <<now, created, due>>
      BY <1>11, WalkMoves DEF CloseWalk, netVars
    <2>2. QED  BY <2>1 DEF DueHeld, Reached
  <1>12. QED
    BY <1>1, <1>2, <1>3, <1>4, <1>5, <1>6, <1>7, <1>8, <1>9, <1>10, <1>11
    DEF Next, CallStep, Aside

\* The step that ends a catch-up.
LEMMA CompleteStep ==
    ASSUME MaxLogins <= 1, Typed, Solo, Reached, Next,
           sync.mode = "CatchUp", sync'.mode = "Finished", sync'.until # sync.until
    PROVE  due \subseteq ingested \cup withheld
  <1>0. sync \in SyncState /\ now \in Nat \ {0}
    BY DEF Typed
  <1>1. ASSUME Aside  PROVE  FALSE
    BY <1>1, AsideFrame
  <1>2. ASSUME Login  PROVE  FALSE
    <2>1. Fresh
      BY <1>2 DEF Login, Fresh, Typed
    <2>2. QED  BY <2>1 DEF Solo, NewChatState
  <1>3. ASSUME NEW c \in Calls, FetchInit(c) \/ DeepRescanStart(c)  PROVE  FALSE
    BY <1>3, WalkMoves
  <1>4. ASSUME NEW c \in Calls, FetchContinue(c) \/ FetchWake(c) \/ DeepRescanFetch(c)
        PROVE  FALSE
    <2>1. ClaimSlice(c)
      BY <1>4 DEF FetchContinue, FetchWake, DeepRescanFetch
    <2>2. sync' = sync \/ sync' = next_sync_slice(sync, now)
      BY <2>1, ClaimEffect
    <2>3. QED  BY <1>0, <2>2, Claimed
  <1>5. ASSUME NEW c \in Calls, DeepRescanCheck(c) \/ CheckMode(c) \/ Stream(c)  PROVE  FALSE
    BY <1>5, WalkMoves
  <1>6. ASSUME NEW c \in Calls, StreamFails(c)  PROVE  FALSE
    BY <1>0, <1>6 DEF StreamFails, abandon_sync_slice, defer_sync_slice_for_empty_pool, SyncState
  <1>7. ASSUME NEW c \in Calls, CloseWalk(c)  PROVE  FALSE
    BY <1>7, WalkMoves
  <1>8. ASSUME NEW c \in Calls, RecordSlice(c)  PROVE  due \subseteq ingested \cup withheld
    <2>1. call[c].pc = "fetched" /\ call[c].win.last
      BY <1>8, WalkMoves DEF RecordSlice
    <2>2. call[c].pc \in Runs /\ ~sync.relayWait
      BY <2>1 DEF Solo, Runs
    <2>3. \A d \in Calls : call[d].pc \in Runs => d = c
      BY <2>2 DEF Solo
    <2>4. ~Pending
      <3>1. \A d \in Calls : call[d].pc \notin {"claimed", "streaming"}
        BY <2>1, <2>3 DEF Runs
      <3>2. QED  BY <2>2, <3>1 DEF Pending
    <2>5. UpTo(sync.end) /\ AllBy(sync.end)
      BY <2>1, <2>2, <2>4 DEF Reached
    <2>6. QED  BY <2>5 DEF UpTo, AllBy
  <1>9. QED
    BY <1>1, <1>2, <1>3, <1>4, <1>5, <1>6, <1>7, <1>8 DEF Next, CallStep, Aside

-----------------------------------------------------------------------------
(* The theorems. *)

LEMMA Starts == Init => Typed /\ Owned /\ WalkHasOwner /\ Solo /\ DueHeld /\ Reached
  <1> SUFFICES ASSUME Init
               PROVE  Typed /\ Owned /\ WalkHasOwner /\ Solo /\ DueHeld /\ Reached
    OBVIOUS
  <1>1. \A c \in Calls : call[c].pc = "idle"
    BY DEF Init, Idle
  <1>2. Typed
    <2>1. call \in [Calls -> CallState] /\ sync \in SyncState
      BY NewType DEF Init
    <2>2. created \in [Wraps -> Nat] /\ now \in Nat \ {0} /\ mono \in 0..MaxMono
      BY DEF Init
    <2>3. pool \in BOOLEAN /\ leaked \in BOOLEAN /\ initDue \in BOOLEAN
      BY Zenon DEF Init
    <2>4. QED  BY <2>1, <2>2, <2>3 DEF Init, Typed
  <1>3. Owned /\ WalkHasOwner
    BY DEF Init, NewChatState, Owned, WalkHasOwner
  <1>4. Solo
    BY <1>1 DEF Init, NewChatState, Solo, Runs
  <1>5. DueHeld /\ Reached
    BY DEF Init, NewChatState, DueHeld, Reached
  <1>6. QED  BY <1>2, <1>3, <1>4, <1>5

LEMMA AlwaysTyped == Spec => []Typed
  BY Starts, TypedStep, PTL DEF Spec

LEMMA AlwaysSolo ==
    ASSUME MaxLogins <= 1
    PROVE  Spec => []Solo
  BY Starts, SoloStep, AlwaysTyped, PTL DEF Spec

\* Every variable of the sync, every claimed window and every count keeps its type, whatever
\* the interleaving of fetch_messages calls, rescans, wakes, relay changes and logins.
THEOREM TypeCorrect == Spec => []TypeOK
  <1>1. Typed => TypeOK
    BY DEF Typed, TypeOK, SyncState, CallState, Pcs
  <1>2. QED  BY <1>1, AlwaysTyped, PTL

\* However often the process logs in: is_syncing stays set only while some call, some owed
\* continuation or a parked slice can still end the walk, or once a call has returned from the
\* second look at the mode with its claim still set.
THEOREM WalksOwned == Spec => []WalkHasOwner
  BY Starts, OwnedStep, AlwaysTyped, PTL DEF Spec

\* Within one login slice_in_flight is a lock: no two fetch_messages calls work on a window at
\* once.  A second login clears the flag under a call that still runs, which the hypothesis
\* excludes.
THEOREM OneSliceAtATime ==
    ASSUME MaxLogins <= 1
    PROVE  Spec => []OneSlice
  BY AlwaysSolo, AlwaysTyped, SoloOne, PTL

\* Within one login a slice deferred for an empty pool is retried with exactly its window.
THEOREM DeferredExact ==
    ASSUME MaxLogins <= 1
    PROVE  Spec => DeferredRetriedExactly
  <1> DEFINE Kept == sync.relayWait =>
        \/ sync' = NewChatState
        \/ \E c \in Calls : call[c].pc = "rescan" /\ call'[c].pc = "rescanFetch"
        \/ /\ sync'.start = sync.start /\ sync'.end = sync.end
           /\ sync'.deferredLast = sync.deferredLast
           /\ \/ sync'.relayWait
              \/ \E c \in Calls : call'[c] = [pc |-> "claimed", found |-> 0, win |->
                    [since |-> sync.start, until |-> sync.end, last |-> sync.deferredLast]]
  <1>1. ASSUME Typed, Solo, [Next]_vars  PROVE  [Kept]_vars
    BY <1>1, WaitStep
  <1>2. Spec => [][Kept]_vars
    <2> HIDE DEF Kept
    <2>1. QED  BY <1>1, AlwaysSolo, AlwaysTyped, PTL DEF Spec
  <1>3. QED  BY <1>2 DEF DeferredRetriedExactly

\* Within one login, with a wall clock that never goes back: a catch-up that finishes leaves no
\* wrap behind that the relays held when it began, from the watermark less the overlap on,
\* except what a relay's own stream left out.  It holds for any number of slices and of
\* deferrals, and whatever a rescan does in between.
THEOREM CatchUpLeavesNoGap ==
    ASSUME MaxLogins <= 1, ClockSteps \subseteq Nat
    PROVE  Spec => CatchUpComplete
  <1> DEFINE Full == sync.mode = "CatchUp" /\ sync'.mode = "Finished" /\ sync'.until # sync.until
                        => due \subseteq ingested \cup withheld
  <1>1. Spec => [](DueHeld /\ Reached)
    BY Starts, ReachedStep, AlwaysTyped, AlwaysSolo, PTL DEF Spec
  <1>2. ASSUME Typed, Solo, Reached, [Next]_vars  PROVE  [Full]_vars
    BY <1>2, CompleteStep
  <1>3. Spec => [][Full]_vars
    <2> HIDE DEF Full
    <2>1. QED  BY <1>1, <1>2, AlwaysSolo, AlwaysTyped, PTL DEF Spec
  <1>4. QED  BY <1>3 DEF CatchUpComplete
=============================================================================
