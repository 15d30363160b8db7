---------------------------- MODULE MessageSync ----------------------------
(***************************************************************************)
(* The account-wide gift wrap sync behind the fetch_messages command       *)
(* (cmds/chat.rs): the slices of the login walk (ForwardSync, then         *)
(* BackwardSync), of a deep rescan and of a catch-up after sleep, claimed  *)
(* under the STATE mutex by calls that run concurrently and that hold no   *)
(* lock while they wait for the relays.                                    *)
(*                                                                         *)
(* Time is in abstract units.  The constants of the code (two days, 30 s,  *)
(* 60 s, the 5, 3, 5 and 15 empty iterations) are parameters.              *)
(***************************************************************************)
EXTENDS Integers, FiniteSets, FiniteSetsExt

CONSTANTS
    Wraps,          \* gift wraps addressed to this account
    Calls,          \* fetch_messages calls that may run at the same time
    Slice,          \* CATCH_UP_SLICE_SECS, the width of every window
    Overlap,        \* CATCH_UP_OVERLAP_SECS
    Grace,          \* CATCH_UP_GRACE_SECS
    ForwardEmpty,   \* empty slices that end ForwardSync
    FoundEmpty,     \* empty slices after messages were found (see BackwardDue)
    BackwardEmpty,  \* empty slices that end BackwardSync
    DeepEmpty,      \* empty slices that end DeepRescan
    Recent,         \* how far back BackwardSync starts when no chat has a message
    Start,          \* wall clock when the process starts
    ClockSteps,     \* what one tick adds to the wall clock
    MaxMono,        \* bound: ticks of the monotonic clock
    MaxLogins,      \* bound: logins of the process
    MaxRescans,     \* bound: deep_rescan commands
    MaxSignals      \* bound: no wake or connect while this many continuations are unanswered

ASSUME TimeAssumption ==
    /\ Slice \in Nat \ {0} /\ Overlap \in Nat /\ Grace \in Nat
    /\ Recent \in Nat /\ Start \in Nat \ {0} /\ ClockSteps \subseteq Int
ASSUME LimitAssumption ==
    /\ IsFiniteSet(Wraps)
    /\ ForwardEmpty \in Nat \ {0} /\ FoundEmpty \in Nat \ {0}
    /\ BackwardEmpty \in Nat \ {0} /\ DeepEmpty \in Nat \ {0}
    /\ MaxMono \in Nat /\ MaxLogins \in Nat /\ MaxRescans \in Nat
    /\ MaxSignals \in Nat \ {0}

VARIABLES
    now,        \* wall clock, Timestamp::now()
    mono,       \* monotonic clock, monotonic_now_secs()
    sync,       \* the sync fields of ChatState
    call,       \* per call: where it is and the window it claimed
    signals,    \* fetch_messages(false) calls the frontend or connect still has to make
    pool,       \* whether the relay pool has a relay
    created,    \* created_at of every wrap the relays hold, 0 for one not yet published
    ingested,   \* wraps handle_event has accepted
    withheld,   \* history: wraps inside a window that the relays' stream left out
    due,        \* history: wraps a running catch-up or rescan has to bring in
    leaked,     \* history: a call of this login returned and kept its claim (see CheckMode)
    initDue,    \* the frontend still has to make this login's fetch_messages(true)
    logins, rescans

vars == <<now, mono, sync, call, signals, pool, created, ingested, withheld, due,
          leaked, initDue, logins, rescans>>
netVars == <<created, ingested, withheld, due>>

Modes == {"ForwardSync", "BackwardSync", "DeepRescan", "CatchUp", "Finished"}
Never == -1                     \* last_catch_up_monotonic = None
Window == [since : Int, until : Int, last : BOOLEAN]
NoWindow == [since |-> 0, until |-> 0, last |-> FALSE]
Idle == [pc |-> "idle", win |-> NoWindow, found |-> 0]

\* ChatState::new, the sync fields.
NewChatState ==
    [mode |-> "Finished", syncing |-> FALSE, start |-> 0, end |-> 0, empty |-> 0,
     until |-> 0, untilMono |-> Never, inFlight |-> FALSE, relayWait |-> FALSE,
     deferredLast |-> FALSE]

SaturatingSub(a, b) == IF a > b THEN a - b ELSE 0
OnRelays == {w \in Wraps : created[w] # 0}
Between(a, b) == {w \in OnRelays : a <= created[w] /\ created[w] <= b}
Larger(a, b) == IF a > b THEN a ELSE b
Smaller(a, b) == IF a < b THEN a ELSE b

----------------------------------------------------------------------------
(* The pure decisions: which window comes next, and what follows a slice. *)

should_enter_catch_up(s, t, m) ==
    LET wall == SaturatingSub(t, s.until)
        elapsed == IF s.untilMono = Never THEN wall
                   ELSE Larger(wall, SaturatingSub(m, s.untilMono))
    IN  elapsed > Grace

\* Mutant: only the latest slice, as the fetch of a single relay is capped.
catch_up_window_Latest(start, t, overlap) ==
    [since |-> SaturatingSub(t, Slice), until |-> t, last |-> TRUE]

catch_up_window(start, t, overlap) ==
    LET raw   == IF overlap THEN SaturatingSub(start, Overlap) ELSE start
        since == IF start = 0 THEN Larger(raw, SaturatingSub(t, Slice)) ELSE raw
        until == Smaller(t, since + Slice)
    IN  [since |-> since, until |-> until, last |-> until >= t]

should_promote_to_catch_up(s, t, m) ==
    s.mode = "Finished" /\ ~s.syncing /\ should_enter_catch_up(s, t, m)

\* Mutant: slice_in_flight is not looked at.
SliceAvailable_NoGuard(s, t, m) ==
    s.relayWait \/ s.mode # "Finished" \/ should_promote_to_catch_up(s, t, m)

\* Whether this call gets a window at all.
SliceAvailable(s, t, m) ==
    \/ s.relayWait
    \/ ~s.inFlight /\ (s.mode # "Finished" \/ should_promote_to_catch_up(s, t, m))

\* Mutant: the deferred window is not kept.
next_window_Advance(s, t) ==
    IF s.mode = "CatchUp" THEN catch_up_window(s.end, t, FALSE)
    ELSE [since |-> s.start - Slice, until |-> s.start, last |-> FALSE]

next_window(s, t) ==
    IF s.relayWait THEN [since |-> s.start, until |-> s.end, last |-> s.deferredLast]
    ELSE IF s.mode = "CatchUp" THEN catch_up_window(s.end, t, FALSE)
    ELSE IF s.mode = "Finished" THEN catch_up_window(s.until, t, TRUE)
    ELSE [since |-> s.start - Slice, until |-> s.start, last |-> FALSE]

\* The state next_sync_slice leaves behind: the window claimed, a promotion entered.
next_sync_slice(s, t) ==
    LET w == next_window(s, t)
        promoted == [s EXCEPT !.mode = "CatchUp", !.syncing = TRUE, !.empty = 0]
        claimed == IF s.relayWait THEN [s EXCEPT !.relayWait = FALSE]
                   ELSE [(IF s.mode = "Finished" THEN promoted ELSE s)
                            EXCEPT !.start = w.since, !.end = w.until]
    IN  [claimed EXCEPT !.inFlight = TRUE]

\* ForwardSync gives way to BackwardSync.  The first disjunct can never hold: a slice
\* that found messages has just reset the counter of empty ones.
BackwardDue(s, found) ==
    (found > 0 /\ s.empty >= FoundEmpty) \/ s.empty >= ForwardEmpty

SliceEndsWalk(s, last) ==
    CASE s.mode = "ForwardSync"  -> FALSE
      [] s.mode = "BackwardSync" -> s.empty >= BackwardEmpty
      [] s.mode = "DeepRescan"   -> s.empty >= DeepEmpty
      [] s.mode = "CatchUp"      -> last
      [] OTHER                   -> TRUE

CountSlice(s, found) == [s EXCEPT !.empty = IF found > 0 THEN 0 ELSE @ + 1]

\* Mutant: the claim is not released.
record_slice_result_Keep(s, found, last, oldest, t, m) ==
    LET c == CountSlice(s, found)
    IN  IF SliceEndsWalk(c, last)
        THEN [c EXCEPT !.mode = "Finished", !.until = t, !.untilMono = m]
        ELSE c

record_slice_result(s, found, last, oldest, t, m) ==
    LET c == CountSlice(s, found)
        from == IF oldest = 0 THEN t - Recent ELSE oldest
        moved == IF c.mode = "ForwardSync" /\ BackwardDue(c, found)
                 THEN [c EXCEPT !.mode = "BackwardSync", !.empty = 0,
                                !.end = from, !.start = from - Slice]
                 ELSE c
        ended == IF SliceEndsWalk(c, last)
                 THEN [moved EXCEPT !.mode = "Finished", !.until = t, !.untilMono = m]
                 ELSE moved
    IN  [ended EXCEPT !.inFlight = FALSE]

abandon_sync_slice(s) ==
    [s EXCEPT !.syncing = FALSE, !.inFlight = FALSE, !.mode = "Finished", !.empty = 0]

\* Mutant: the wait is not recorded.
defer_sync_slice_for_empty_pool_Drop(s, last) == [s EXCEPT !.inFlight = FALSE]

defer_sync_slice_for_empty_pool(s, last) ==
    [s EXCEPT !.inFlight = FALSE, !.relayWait = TRUE, !.deferredLast = last]

single_relay_fetch_since(until, t) ==
    Larger(SaturatingSub(t, Slice), SaturatingSub(until, Overlap))

----------------------------------------------------------------------------
Init ==
    /\ now = Start /\ mono = 0
    /\ sync = NewChatState
    /\ call = [c \in Calls |-> Idle]
    /\ signals = 0
    /\ pool \in BOOLEAN
    /\ created = [w \in Wraps |-> 0]
    /\ ingested = {} /\ withheld = {} /\ due = {}
    /\ leaked = FALSE /\ initDue = FALSE /\ logins = 0 /\ rescans = 0

Enter(c, w) == call' = [call EXCEPT ![c] = [pc |-> "claimed", win |-> w, found |-> 0]]

\* complete_login_from_keys: the session's state is cleared, calls still running are not
\* stopped.  The frontend then asks for the login sync.
Login ==
    /\ logins < MaxLogins
    /\ logins' = logins + 1
    /\ sync' = NewChatState
    /\ initDue' = TRUE
    /\ leaked' = FALSE
    /\ UNCHANGED <<now, mono, call, signals, pool, netVars, rescans>>

\* fetch_messages(true), once per login: the walk starts over with the last two days.
FetchInit(c) ==
    /\ initDue /\ call[c].pc = "idle"
    /\ initDue' = FALSE
    /\ sync' = [sync EXCEPT !.syncing = TRUE, !.inFlight = TRUE, !.mode = "ForwardSync",
                            !.empty = 0, !.start = now - Slice, !.end = now]
    /\ Enter(c, [since |-> now - Slice, until |-> now, last |-> FALSE])
    /\ UNCHANGED <<leaked, now, mono, signals, pool, netVars, logins, rescans>>

\* The locked part of fetch_messages(false).  A catch-up that starts here owes every wrap
\* the relays hold from the last watermark on; from two days back when there is none.
Owed == IF sync.until = 0 THEN Between(now - Slice, now)
        ELSE Between(sync.until - Overlap, now)

ClaimSlice(c) ==
    LET w == next_window(sync, now)
    IN  IF SliceAvailable(sync, now, mono)
        THEN /\ sync' = next_sync_slice(sync, now)
             /\ Enter(c, w)
             /\ due' = IF sync.mode = "Finished" /\ ~sync.relayWait
                       THEN Owed ELSE due
        ELSE /\ call' = [call EXCEPT ![c] = Idle]
             /\ UNCHANGED <<sync, due>>

\* Mutant: a continuation nobody asked for.
FetchContinue_Unasked(c) ==
    /\ call[c].pc = "idle"
    /\ signals' = signals - 1
    /\ ClaimSlice(c)
    /\ UNCHANGED <<leaked, initDue, now, mono, pool, created, ingested, withheld, logins, rescans>>

\* fetch_messages(false) after sync_slice_finished, or spawned by connect.
FetchContinue(c) ==
    /\ signals > 0 /\ call[c].pc = "idle"
    /\ signals' = signals - 1
    /\ ClaimSlice(c)
    /\ UNCHANGED <<leaked, initDue, now, mono, pool, created, ingested, withheld, logins, rescans>>

\* fetch_messages(false) from focus, visibility, resume or a message just sent.  Before the
\* login's own fetch the frontend's status is 'syncing' and it does not ask.
FetchWake(c) ==
    /\ logins > 0 /\ ~initDue /\ signals < MaxSignals /\ call[c].pc = "idle"
    /\ SliceAvailable(sync, now, mono)
    /\ ClaimSlice(c)
    /\ UNCHANGED <<leaked, initDue, now, mono, signals, pool, created, ingested, withheld, logins, rescans>>

\* deep_rescan looks at is_syncing under one lock and sets the walk up under the next, so a
\* catch-up may start in between.  Its first slice is claimed by a fetch_messages(false).
DeepRescanCheck(c) ==
    /\ logins > 0 /\ ~initDue /\ rescans < MaxRescans /\ call[c].pc = "idle"
    /\ ~sync.syncing
    /\ rescans' = rescans + 1
    /\ call' = [call EXCEPT ![c] = [Idle EXCEPT !.pc = "rescan"]]
    /\ UNCHANGED <<leaked, initDue, now, mono, sync, signals, pool, netVars, logins>>

DeepRescanStart(c) ==
    /\ call[c].pc = "rescan"
    /\ sync' = [sync EXCEPT !.syncing = TRUE, !.mode = "DeepRescan", !.empty = 0,
                            !.start = now - Slice, !.end = now]
    /\ call' = [call EXCEPT ![c].pc = "rescanFetch"]
    /\ due' = Between(now - Slice, now)
    /\ UNCHANGED <<leaked, initDue, now, mono, signals, pool, created, ingested, withheld,
                   logins, rescans>>

DeepRescanFetch(c) ==
    /\ call[c].pc = "rescanFetch"
    /\ ClaimSlice(c)
    /\ UNCHANGED <<leaked, initDue, now, mono, signals, pool, created, ingested, withheld,
                   logins, rescans>>

\* The second look at the mode.  The return it guards keeps slice_in_flight set.
CheckMode(c) ==
    /\ call[c].pc = "claimed"
    /\ IF sync.mode = "Finished"
       THEN call' = [call EXCEPT ![c] = Idle] /\ leaked' = (leaked \/ sync.inFlight)
       ELSE call' = [call EXCEPT ![c].pc = "streaming"] /\ leaked' = leaked
    /\ UNCHANGED <<initDue, now, mono, sync, signals, pool, netVars, logins, rescans>>

\* The stream.  An empty pool defers the slice, any other error abandons it.
StreamFails(c) ==
    /\ call[c].pc = "streaming"
    /\ sync' = IF pool THEN abandon_sync_slice(sync)
               ELSE defer_sync_slice_for_empty_pool(sync, call[c].win.last)
    /\ call' = [call EXCEPT ![c] = Idle]
    /\ UNCHANGED <<leaked, initDue, now, mono, signals, pool, netVars, logins, rescans>>

\* The stream's events go through handle_event_guarded one by one.  What the relays leave
\* out before the stream's timeout is not fetched.
Stream(c) ==
    /\ call[c].pc = "streaming" /\ pool
    /\ \E missing \in SUBSET Between(call[c].win.since, call[c].win.until) :
         LET got == Between(call[c].win.since, call[c].win.until) \ missing
         IN  /\ ingested' = ingested \cup got
             /\ withheld' = withheld \cup (missing \ ingested)
             /\ call' = [call EXCEPT ![c].pc = "fetched",
                                     ![c].found = Cardinality(got \ ingested)]
    /\ UNCHANGED <<leaked, initDue, now, mono, sync, signals, pool, created, due, logins, rescans>>

\* oldest_message_time: the oldest of the chats' last messages, 0 for none.
OldestTimes == {0} \cup {created[w] : w \in ingested}

RecordSlice(c) ==
    /\ call[c].pc = "fetched"
    /\ \E oldest \in OldestTimes :
         sync' = record_slice_result(sync, call[c].found, call[c].win.last, oldest, now, mono)
    /\ IF SliceEndsWalk(CountSlice(sync, call[c].found), call[c].win.last)
       THEN /\ call' = [call EXCEPT ![c] = [Idle EXCEPT !.pc = "closing"]]
            /\ UNCHANGED signals
       ELSE /\ call' = [call EXCEPT ![c] = Idle]
            /\ signals' = signals + 1
    /\ UNCHANGED <<leaked, initDue, now, mono, pool, netVars, logins, rescans>>

\* The walk is over: a second lock clears the flags, sync_finished is emitted.
CloseWalk(c) ==
    /\ call[c].pc = "closing"
    /\ sync' = [sync EXCEPT !.mode = "Finished", !.syncing = FALSE, !.empty = 0]
    /\ call' = [call EXCEPT ![c] = Idle]
    /\ UNCHANGED <<leaked, initDue, now, mono, signals, pool, netVars, logins, rescans>>

\* connect: the pool gains a relay and a deferred slice is retried at once.
Connect ==
    /\ ~pool /\ pool' = TRUE /\ signals < MaxSignals
    /\ signals' = IF sync.relayWait THEN signals + 1 ELSE signals
    /\ UNCHANGED <<leaked, initDue, now, mono, sync, call, netVars, logins, rescans>>

\* The user removes or disables the last relay, or the pool is rebuilt for another transport.
EmptyPool ==
    /\ pool /\ pool' = FALSE
    /\ UNCHANGED <<leaked, initDue, now, mono, sync, call, signals, netVars, logins, rescans>>

\* A relay is added or enabled, or the rebuild ends: nothing retries a deferred slice.
Repopulate ==
    /\ ~pool /\ pool' = TRUE
    /\ UNCHANGED <<leaked, initDue, now, mono, sync, call, signals, netVars, logins, rescans>>

\* The single-relay fetch after a reconnection; it never touches the sync state.
SingleRelaySync ==
    /\ logins > 0 /\ pool
    /\ LET got == Between(single_relay_fetch_since(sync.until, now), now)
       IN  got \ ingested # {} /\ ingested' = ingested \cup got
    /\ UNCHANGED <<leaked, initDue, now, mono, sync, call, signals, pool, created, withheld, due,
                   logins, rescans>>

\* A wrap reaches the relays; the live subscription brings it in, or misses it.
Publish(w) ==
    /\ created[w] = 0
    /\ \E t \in Larger(1, now - Slice)..now : created' = [created EXCEPT ![w] = t]
    /\ \/ UNCHANGED ingested
       \/ logins > 0 /\ ingested' = ingested \cup {w}
    /\ UNCHANGED <<leaked, initDue, now, mono, sync, call, signals, pool, withheld, due, logins, rescans>>

Tick ==
    /\ mono < MaxMono
    /\ mono' = mono + 1
    /\ \E d \in ClockSteps : now' = Larger(1, now + d)
    /\ UNCHANGED <<leaked, initDue, sync, call, signals, pool, netVars, logins, rescans>>

CallStep(c) ==
    \/ CheckMode(c) \/ StreamFails(c) \/ Stream(c) \/ RecordSlice(c) \/ CloseWalk(c)
    \/ DeepRescanStart(c) \/ DeepRescanFetch(c)

Next ==
    \/ Login \/ Connect \/ EmptyPool \/ Repopulate \/ SingleRelaySync \/ Tick
    \/ \E w \in Wraps : Publish(w)
    \/ \E c \in Calls : FetchInit(c) \/ FetchContinue(c) \/ FetchWake(c) \/ DeepRescanCheck(c)
                        \/ CallStep(c)

Spec == Init /\ [][Next]_vars

\* A call runs to its end, and the frontend answers every sync_slice_finished.
FairSpec ==
    /\ Spec
    /\ \A c \in Calls : WF_vars(CallStep(c))
    /\ WF_vars(\E c \in Calls : FetchContinue(c))

----------------------------------------------------------------------------
TypeOK ==
    /\ now \in Int /\ mono \in 0..MaxMono
    /\ sync.mode \in Modes /\ sync.start \in Int /\ sync.end \in Int
    /\ sync.syncing \in BOOLEAN /\ sync.inFlight \in BOOLEAN /\ sync.relayWait \in BOOLEAN
    /\ call \in [Calls -> [pc : {"idle", "claimed", "streaming", "fetched", "closing",
                                 "rescan", "rescanFetch"},
                           win : Window, found : 0..Cardinality(Wraps)]]
    /\ signals \in Nat
    /\ ingested \subseteq Wraps /\ withheld \subseteq Wraps /\ due \subseteq Wraps

Running == {c \in Calls : call[c].pc \in {"claimed", "streaming", "fetched"}}

\* At most one call works on a window, and only while slice_in_flight says so: a wake, a
\* continuation, a rescan and a deferred window handed out again never overlap.
OneSlice == Cardinality(Running) <= IF sync.inFlight THEN 1 ELSE 0

\* "Every fetch_messages path that returns before record_slice_result must use this": a claim
\* no running call holds would refuse every later slice of the session.
ClaimReleased == sync.inFlight => Running # {}

\* A walk that is marked as running has a next step: a call that holds its slice or closes it,
\* a continuation the frontend still owes, or a slice parked for an empty pool.  Excepted: a
\* session in which a call kept its claim when it returned, which no walk survives.
WalkHasOwner ==
    sync.syncing /\ ~leaked =>
                    \/ \E c \in Calls : call[c].pc # "idle"
                    \/ signals > 0
                    \/ sync.relayWait

\* A finished catch-up brought in every wrap that was on the relays when it began, from the
\* last watermark (less the overlap) on, unless a relay's stream left it out.
CatchUpComplete ==
    [][sync.mode = "CatchUp" /\ sync'.mode = "Finished" /\ sync'.until # sync.until
        => due \subseteq ingested \cup withheld]_vars

\* A deferred slice is retried as it was: the wait keeps its window, and it ends only with a
\* claim of exactly that window or a new login.  Excepted: a deep_rescan that looked at
\* is_syncing before the slice was claimed sets up its own window in its place.
DeferredRetriedExactly ==
    [][sync.relayWait =>
        \/ sync' = NewChatState
        \/ \E c \in Calls : call[c].pc = "rescan" /\ call'[c].pc = "rescanFetch"
        \/ /\ sync'.start = sync.start /\ sync'.end = sync.end
           /\ sync'.deferredLast = sync.deferredLast
           /\ \/ sync'.relayWait
              \/ \E c \in Calls : call'[c] = [pc |-> "claimed", found |-> 0, win |->
                    [since |-> sync.start, until |-> sync.end, last |-> sync.deferredLast]]]_vars

\* Every walk ends, or waits for the relay pool, in a session where no claim was kept.
WalkEnds == sync.syncing /\ ~leaked ~> (~sync.syncing \/ sync.relayWait \/ leaked)

\* "Start with a 2-day window from now": a finished rescan saw the last two days too.
RescanCoversRecent ==
    [][sync.mode = "DeepRescan" /\ sync'.mode = "Finished" /\ sync'.until # sync.until
        => due \subseteq ingested \cup withheld]_vars
=============================================================================
