------------------------- MODULE NotificationCoalesce -------------------------
(***************************************************************************)
(* Burst coalescing of Interrupt banners, from                             *)
(* src-tauri/src/notification/{severity,emit,coalesce}.rs.                 *)
(*                                                                         *)
(* The first Interrupt of a chat opens a window and spawns the task that   *)
(* will flush it; further ones are counted; a mention drops the window     *)
(* and shows its own banner.  emit reads the focus, then awaits the lock   *)
(* on WINDOWS; the flush task and a mention release that lock before they  *)
(* read the focus again and call the OS.  Calls of emit come from handlers *)
(* that run in parallel, so all of these steps interleave.                 *)
(***************************************************************************)
EXTENDS Integers, FiniteSets

CONSTANTS
    MaxEvents,   \* bound: calls of emit
    Chats,
    Window,      \* COALESCE_WINDOW
    MaxWindows,  \* bound: windows ever opened
    MaxNow,      \* bound: the clock runs on past it only while a task sleeps
    NoChat,      \* a call that has not been made
    NoWindow     \* no entry in the map

ASSUME LimitAssumption ==
    /\ MaxEvents \in Nat /\ Window \in Nat
    /\ MaxWindows \in Nat /\ MaxNow \in Nat
ASSUME ChatsAssumption == NoChat \notin Chats

\* Calls of emit, numbered in the order in which they are made.
Events == 1..MaxEvents
Kinds == {"GroupMessage", "DirectMessage", "ActionPrompt", "EventReminder"}
Levels == {"Nothing", "Mentions", "All"}
Generations == 0..(MaxWindows - 1)
NoGeneration == -1

\* struct ChatWindow; `single` is the banner of the event that opened it.
ChatWindow == [pending : Nat, generation : Generations, single : Events]
ASSUME NoWindowAssumption == NoWindow \notin ChatWindow

VARIABLES
    now, focused,
    windows,         \* WINDOWS
    nextGeneration,  \* NEXT_GENERATION
    pc,              \* the flush task of each generation
    home,            \* the chat it was spawned for
    due,             \* when its sleep ends
    taken,           \* the window it removed
    stage,           \* how far each call of emit, and then its event, has come
    chat,            \* its chat
    under,           \* history: the generation the event was counted under
    closedAt         \* history: when the task removed a window

emitters == <<stage, chat, under>>
tasks == <<pc, home, due, taken, closedAt>>
vars == <<now, focused, windows, nextGeneration, tasks, emitters>>

Stages == {"new", "queued", "counted", "taken", "dropped",
           "calling", "alerting", "shown", "seen"}
Settled == {"dropped", "shown", "seen"}

Init ==
    /\ now = 0
    /\ focused \in BOOLEAN
    /\ windows = [c \in Chats |-> NoWindow]
    /\ nextGeneration = 0
    /\ pc = [g \in Generations |-> "unborn"]
    /\ home = [g \in Generations |-> NoChat]
    /\ due = [g \in Generations |-> 0]
    /\ taken = [g \in Generations |-> NoWindow]
    /\ closedAt = [g \in Generations |-> 0]
    /\ stage = [e \in Events |-> "new"]
    /\ chat = [e \in Events |-> NoChat]
    /\ under = [e \in Events |-> NoGeneration]

----------------------------------------------------------------------------
\* resolve_tier
Tier(kind, level, own, mention) ==
    IF own THEN "Passive"
    ELSE IF \/ level = "Nothing"
            \/ kind = "GroupMessage" /\ ~mention /\ level = "Mentions"
         THEN "Record"
         ELSE "Interrupt"

\* emit up to the lock.  A call of a lower tier, or one made while the app is
\* focused, returns and leaves nothing behind.
Emit(e) ==
    /\ stage[e] = "new" /\ \A d \in Events : d < e => stage[d] # "new"
    /\ ~focused
    /\ \E kind \in Kinds, level \in Levels, own, mention \in BOOLEAN :
        /\ Tier(kind, level, own, mention) = "Interrupt"
        /\ stage' = [stage EXCEPT ![e] = IF mention THEN "calling" ELSE "queued"]
    /\ \E c \in Chats : chat' = [chat EXCEPT ![e] = c]
    /\ UNCHANGED <<now, focused, windows, nextGeneration, tasks, under>>

CountedNever(w) == w
Counted(w) == [w EXCEPT !.pending = @ + 1]

\* register_interrupt, the window of the chat is open
Join(e) ==
    /\ stage[e] = "queued"
    /\ windows[chat[e]] # NoWindow
    /\ windows' = [windows EXCEPT ![chat[e]] = Counted(@)]
    /\ under' = [under EXCEPT ![e] = windows[chat[e]].generation]
    /\ stage' = [stage EXCEPT ![e] = "counted"]
    /\ UNCHANGED <<now, focused, nextGeneration, tasks, chat>>

\* The spawned task sleeps for COALESCE_WINDOW.
SleepUntil == now + Window

\* register_interrupt, no window: open one and spawn the task that flushes it
Open(e) ==
    /\ stage[e] = "queued"
    /\ windows[chat[e]] = NoWindow
    /\ nextGeneration < MaxWindows
    /\ windows' = [windows EXCEPT ![chat[e]] =
            [pending |-> 1, generation |-> nextGeneration, single |-> e]]
    /\ nextGeneration' = nextGeneration + 1
    /\ pc' = [pc EXCEPT ![nextGeneration] = "sleeping"]
    /\ home' = [home EXCEPT ![nextGeneration] = chat[e]]
    /\ due' = [due EXCEPT ![nextGeneration] = SleepUntil]
    /\ under' = [under EXCEPT ![e] = nextGeneration]
    /\ stage' = [stage EXCEPT ![e] = "counted"]
    /\ UNCHANGED <<now, focused, taken, closedAt, chat>>

\* The events counted in the open window of a chat, or under a generation.
Pending(c) == {e \in Events : stage[e] = "counted" /\ chat[e] = c}
Batch(g, s) == {e \in Events : stage[e] = s /\ under[e] = g}

Moved(es, s) == [e \in Events |-> IF e \in es THEN s ELSE stage[e]]

\* preempt_and_emit under the lock: the pending summary is dropped.
Preempt(e) ==
    /\ stage[e] = "calling"
    /\ windows' = [windows EXCEPT ![chat[e]] = NoWindow]
    /\ stage' = [Moved(Pending(chat[e]), "dropped") EXCEPT ![e] = "alerting"]
    /\ UNCHANGED <<now, focused, nextGeneration, tasks, chat, under>>

AlertLater(e) ==
    /\ stage[e] = "alerting" /\ ~focused
    /\ stage' = [stage EXCEPT ![e] = "shown"]
    /\ UNCHANGED <<now, focused, windows, nextGeneration, tasks, chat, under>>

\* preempt_and_emit after the lock: focus, then the mention's own banner
Alert(e) ==
    /\ stage[e] = "alerting"
    /\ stage' = [stage EXCEPT ![e] = IF focused THEN "seen" ELSE "shown"]
    /\ UNCHANGED <<now, focused, windows, nextGeneration, tasks, chat, under>>

OwnAny(g) == windows[home[g]] # NoWindow

\* The window a woken task may remove is the one it was spawned for.
Own(g) ==
    /\ windows[home[g]] # NoWindow
    /\ windows[home[g]].generation = g

RemainingAll(g) == windows
Remaining(g) == [windows EXCEPT ![home[g]] = NoWindow]

\* flush under the lock
Take(g) ==
    /\ pc[g] = "sleeping" /\ now >= due[g] /\ Own(g)
    /\ windows' = Remaining(g)
    /\ taken' = [taken EXCEPT ![g] = windows[home[g]]]
    /\ closedAt' = [closedAt EXCEPT ![g] = now]
    /\ pc' = [pc EXCEPT ![g] = "flushing"]
    /\ stage' = Moved(Pending(home[g]), "taken")
    /\ UNCHANGED <<now, focused, nextGeneration, home, due, chat, under>>

\* flush under the lock: preempted meanwhile
Skip(g) ==
    /\ pc[g] = "sleeping" /\ now >= due[g] /\ ~Own(g)
    /\ pc' = [pc EXCEPT ![g] = "gone"]
    /\ UNCHANGED <<now, focused, windows, nextGeneration, home, due, taken, closedAt, emitters>>

\* flush after the lock: nothing if the app is focused, else one banner
Flush(g) ==
    /\ pc[g] = "flushing"
    /\ pc' = [pc EXCEPT ![g] = IF focused THEN "gone" ELSE "bannered"]
    /\ stage' = Moved(Batch(g, "taken"), IF focused THEN "seen" ELSE "shown")
    /\ UNCHANGED <<now, focused, windows, nextGeneration, home, due, taken, closedAt, chat, under>>

\* The user comes and goes.
Focus ==
    /\ focused' = ~focused
    /\ UNCHANGED <<now, windows, nextGeneration, tasks, emitters>>

Tick ==
    /\ now < MaxNow \/ \E g \in Generations : pc[g] = "sleeping" /\ now < due[g]
    /\ now' = now + 1
    /\ UNCHANGED <<focused, windows, nextGeneration, tasks, emitters>>

EmitStep(e) == Join(e) \/ Open(e) \/ Preempt(e) \/ Alert(e)
TaskStep(g) == Take(g) \/ Skip(g) \/ Flush(g)

Next ==
    \/ \E e \in Events : Emit(e) \/ EmitStep(e)
    \/ \E g \in Generations : TaskStep(g)
    \/ Focus
    \/ Tick

Spec == Init /\ [][Next]_vars

\* The runtime polls a call that got the lock and a task whose sleep is over,
\* and time passes.  New calls and the user's focus carry no fairness.
FairSpec ==
    /\ Spec
    /\ \A e \in Events : WF_vars(EmitStep(e))
    /\ \A g \in Generations : WF_vars(TaskStep(g))
    /\ WF_vars(Tick)

----------------------------------------------------------------------------
TypeOK ==
    /\ now \in Nat
    /\ focused \in BOOLEAN
    /\ windows \in [Chats -> ChatWindow \cup {NoWindow}]
    /\ nextGeneration \in 0..MaxWindows
    /\ pc \in [Generations -> {"unborn", "sleeping", "flushing", "bannered", "gone"}]
    /\ home \in [Generations -> Chats \cup {NoChat}]
    /\ due \in [Generations -> Nat]
    /\ taken \in [Generations -> ChatWindow \cup {NoWindow}]
    /\ closedAt \in [Generations -> Nat]
    /\ stage \in [Events -> Stages]
    /\ chat \in [Events -> Chats \cup {NoChat}]
    /\ under \in [Events -> Generations \cup {NoGeneration}]

\* What a window, or a window that was taken, says of the events it stands for.
Speaks(w, es) ==
    /\ w.pending = Cardinality(es)
    /\ w.single \in es

\* A banner speaks for exactly the events counted under its window: "n new
\* messages" has the right n and a single banner is that event's own
\* (coalesce.rs register_interrupt, flush), whatever joined, was dropped or
\* was registered again while the flush task slept or waited for the lock.
BannerSpeaksForItsEvents ==
    /\ \A c \in Chats : windows[c] # NoWindow =>
            Speaks(windows[c], Batch(windows[c].generation, "counted"))
    /\ \A g \in Generations :
        /\ pc[g] = "flushing" => Speaks(taken[g], Batch(g, "taken"))
        /\ pc[g] = "bannered" => Speaks(taken[g], Batch(g, "shown"))

\* Every open window still has its own task asleep, so it cannot linger and
\* swallow the chat's later messages; every counted event is in the open
\* window of its chat (register_interrupt spawns once per window, flush and
\* preempt_and_emit remove it).
NoLingeringWindow ==
    /\ \A c \in Chats : windows[c] # NoWindow =>
        /\ pc[windows[c].generation] = "sleeping"
        /\ home[windows[c].generation] = c
    /\ \A e \in Events : stage[e] = "counted" =>
        /\ windows[chat[e]] # NoWindow
        /\ windows[chat[e]].generation = under[e]

Closed(g) == taken[g] # NoWindow

\* A burst makes one banner: a window is removed only after it was open for
\* COALESCE_WINDOW, and two windows of one chat are removed at least that far
\* apart, also when a mention dropped the window in between and its task woke
\* later (the generation check of flush).
BurstsKeepTheirDistance ==
    /\ \A g \in Generations : Closed(g) => due[taken[g].generation] <= closedAt[g]
    /\ \A g, h \in Generations :
        g < h /\ Closed(g) /\ Closed(h) /\ home[g] = home[h]
            => closedAt[g] + Window <= closedAt[h]

\* Every Interrupt that reached the coalescer is settled: in a banner,
\* withheld because the app was focused, or dropped for a mention.
EveryInterruptSettles ==
    \A e \in Events : stage[e] \in {"queued", "calling"} ~> stage[e] \in Settled

=============================================================================
