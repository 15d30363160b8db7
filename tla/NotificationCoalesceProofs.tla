---------------------- MODULE NotificationCoalesceProofs ----------------------
(***************************************************************************)
(* Proofs about NotificationCoalesce, for any chats, window length, number *)
(* of calls and bounds.                                                    *)
(***************************************************************************)
EXTENDS NotificationCoalesce, FiniteSetTheorems, TLAPS

\* What an event's stage says of its chat and of the window it was counted in.
EventInv ==
    \A e \in Events :
        /\ stage[e] # "new" => chat[e] \in Chats
        /\ stage[e] \in {"new", "queued", "calling", "alerting"} => under[e] = NoGeneration
        /\ under[e] < nextGeneration
        /\ stage[e] = "taken" => under[e] \in Generations /\ pc[under[e]] = "flushing"
        /\ stage[e] = "shown" /\ under[e] \in Generations => pc[under[e]] = "bannered"

\* What a task's pc says of its chat and of the window it removed.
TaskInv ==
    \A g \in Generations :
        /\ pc[g] = "unborn" <=> g >= nextGeneration
        /\ pc[g] # "unborn" => home[g] \in Chats
        /\ pc[g] \in {"unborn", "sleeping"} => taken[g] = NoWindow
        /\ pc[g] \in {"flushing", "bannered"} => taken[g] # NoWindow

\* A removed window was the task's own and was full; an open window was opened
\* after every removed one of its chat.
TimeInv ==
    /\ \A g \in Generations : Closed(g) =>
        /\ taken[g].generation = g
        /\ due[g] <= closedAt[g]
        /\ closedAt[g] <= now
    /\ \A c \in Chats, h \in Generations :
        windows[c] # NoWindow /\ Closed(h) /\ home[h] = c =>
            /\ h < windows[c].generation
            /\ closedAt[h] + Window <= due[windows[c].generation]
    /\ \A g, h \in Generations :
        g < h /\ Closed(g) /\ Closed(h) /\ home[g] = home[h]
            => closedAt[g] + Window <= closedAt[h]

IInv ==
    /\ TypeOK
    /\ EventInv
    /\ TaskInv
    /\ NoLingeringWindow
    /\ TimeInv
    /\ BannerSpeaksForItsEvents

USE LimitAssumption, ChatsAssumption, NoWindowAssumption
USE DEF emitters, tasks

\* Sets of calls are finite, so counting one more call adds one.
LEMMA CountOne ==
    ASSUME NEW S \in SUBSET Events, NEW e \in Events, e \notin S
    PROVE  Cardinality(S \cup {e}) = Cardinality(S) + 1
<1>1. IsFiniteSet(Events)
  BY FS_Interval DEF Events
<1>2. IsFiniteSet(S)
  BY <1>1, FS_Subset
<1> QED
  BY <1>2, FS_AddElement

LEMMA Initially == Init => IInv
BY DEF Init, IInv, TypeOK, EventInv, TaskInv, NoLingeringWindow, TimeInv,
       BannerSpeaksForItsEvents, Stages, Generations, NoGeneration, Closed

\* A new call touches no window and no task.
LEMMA EmitKeeps ==
    ASSUME IInv, NEW e \in Events, Emit(e)
    PROVE  IInv'
<1>1. TypeOK' /\ EventInv'
  BY DEF IInv, TypeOK, EventInv, Emit, Stages
<1>2. TaskInv' /\ TimeInv' /\ NoLingeringWindow'
  BY DEF IInv, TypeOK, TaskInv, TimeInv, NoLingeringWindow, Emit, Closed
<1>3. \A g \in Generations, s \in {"counted", "taken", "shown"} : Batch(g, s)' = Batch(g, s)
  BY DEF IInv, TypeOK, Emit, Batch
<1>4. BannerSpeaksForItsEvents'
  BY <1>3 DEF IInv, TypeOK, Emit, BannerSpeaksForItsEvents, Speaks, ChatWindow
<1> QED
  BY <1>1, <1>2, <1>4 DEF IInv

LEMMA JoinKeeps ==
    ASSUME IInv, NEW e \in Events, Join(e)
    PROVE  IInv'
<1>1. PICK c \in Chats, w \in ChatWindow, n \in Generations :
        /\ c = chat[e] /\ w = windows[c] /\ n = w.generation
        /\ pc[n] = "sleeping" /\ home[n] = c
  BY DEF IInv, TypeOK, EventInv, NoLingeringWindow, Join, ChatWindow
<1>2. /\ Counted(w) \in ChatWindow
      /\ Counted(w).pending = w.pending + 1
      /\ Counted(w).generation = n /\ Counted(w).single = w.single
  BY <1>1 DEF Counted, ChatWindow
<1>3. windows' = [windows EXCEPT ![c] = Counted(w)]
  BY <1>1 DEF IInv, TypeOK, Join
<1>4. n < nextGeneration
  BY <1>1 DEF IInv, TypeOK, TaskInv, Generations
<1>5. TypeOK'
  BY <1>1, <1>2, <1>3 DEF IInv, TypeOK, Join, Stages
<1>6. EventInv'
  BY <1>1, <1>4 DEF IInv, TypeOK, EventInv, Join
<1>7. TaskInv'
  BY DEF IInv, TaskInv, Join
<1>8. NoLingeringWindow'
  BY <1>1, <1>2, <1>3 DEF IInv, TypeOK, NoLingeringWindow, Join
<1>9. TimeInv'
  BY <1>1, <1>2, <1>3 DEF IInv, TypeOK, TimeInv, Join, Closed
<1>10. /\ Batch(n, "counted")' = Batch(n, "counted") \cup {e}
       /\ e \notin Batch(n, "counted")
       /\ \A g \in Generations \ {n} : Batch(g, "counted")' = Batch(g, "counted")
       /\ \A g \in Generations, s \in {"taken", "shown"} : Batch(g, s)' = Batch(g, s)
  BY <1>1 DEF IInv, TypeOK, Join, Batch
<1>11. Cardinality(Batch(n, "counted")') = Cardinality(Batch(n, "counted")) + 1
  BY <1>10, CountOne DEF Batch
<1>12. Speaks(Counted(w), Batch(n, "counted")')
  BY <1>1, <1>2, <1>10, <1>11 DEF IInv, TypeOK, Join, BannerSpeaksForItsEvents, Speaks
<1>13. ASSUME NEW d \in Chats, windows'[d] # NoWindow
       PROVE  Speaks(windows[d], Batch(windows[d].generation, "counted"))'
  <2>1. CASE d = c
    <3>1. windows'[d] = Counted(w) /\ windows'[d].generation = n
      BY <2>1, <1>1, <1>2, <1>3 DEF IInv, TypeOK
    <3>2. Batch(windows[d].generation, "counted")' = Batch(n, "counted")'
      BY <3>1 DEF Batch
    <3> QED
      BY <3>1, <3>2, <1>12 DEF Speaks
  <2>2. CASE d # c
    <3>1. windows'[d] = windows[d] /\ windows[d].generation \in Generations \ {n}
      BY <2>2, <1>1, <1>3, <1>13 DEF IInv, TypeOK, NoLingeringWindow, ChatWindow
    <3>2. Batch(windows[d].generation, "counted")' = Batch(windows[d].generation, "counted")
      BY <3>1, <1>10 DEF Batch
    <3> QED
      BY <3>1, <3>2, <1>13 DEF IInv, BannerSpeaksForItsEvents, Speaks
  <2> QED
    BY <2>1, <2>2
<1>14. BannerSpeaksForItsEvents'
  <2>1. taken' = taken /\ pc' = pc
    BY DEF Join
  <2> QED
    BY <2>1, <1>10, <1>13 DEF IInv, BannerSpeaksForItsEvents, Speaks
<1> QED
  BY <1>5, <1>6, <1>7, <1>8, <1>9, <1>14 DEF IInv

\* Opening uses a generation no window, task or event has used.
LEMMA OpenKeeps ==
    ASSUME IInv, NEW e \in Events, Open(e)
    PROVE  IInv'
<1>1. PICK c \in Chats, n \in Generations : c = chat[e] /\ n = nextGeneration
  BY DEF IInv, TypeOK, EventInv, Open, Generations
<1> DEFINE w == [pending |-> 1, generation |-> n, single |-> e]
<1>2. /\ w \in ChatWindow /\ w # NoWindow
      /\ w.pending = 1 /\ w.generation = n /\ w.single = e
  BY DEF ChatWindow
<1>3. /\ windows' = [windows EXCEPT ![c] = w]
      /\ pc' = [pc EXCEPT ![n] = "sleeping"]
      /\ home' = [home EXCEPT ![n] = c]
      /\ due' = [due EXCEPT ![n] = now + Window]
      /\ under' = [under EXCEPT ![e] = n]
      /\ stage' = [stage EXCEPT ![e] = "counted"]
      /\ nextGeneration' = n + 1
      /\ UNCHANGED <<now, focused, taken, closedAt, chat>>
  BY <1>1 DEF Open, SleepUntil
<1>4. stage[e] = "queued" /\ windows[c] = NoWindow /\ nextGeneration < MaxWindows
  BY <1>1 DEF Open
<1> HIDE DEF w
<1>5. pc[n] = "unborn" /\ taken[n] = NoWindow
  BY <1>1 DEF IInv, TypeOK, TaskInv, Generations
<1>6. TypeOK'
  <2>1. nextGeneration' \in 0..MaxWindows
    BY <1>1, <1>3, <1>4 DEF IInv, TypeOK
  <2>2. now + Window \in Nat
    BY DEF IInv, TypeOK
  <2> QED
    BY <1>1, <1>2, <1>3, <2>1, <2>2 DEF IInv, TypeOK, Stages
<1>7. EventInv'
  <2> SUFFICES ASSUME NEW f \in Events PROVE EventInv!(f)'
    BY DEF EventInv
  <2>1. under[f] < nextGeneration /\ nextGeneration' = nextGeneration + 1
    BY <1>1, <1>3 DEF IInv, EventInv
  <2>2. CASE f = e
    BY <2>2, <1>1, <1>3, <1>4 DEF IInv, TypeOK, EventInv, Generations
  <2>3. CASE f # e
    <3>1. under'[f] = under[f] /\ stage'[f] = stage[f] /\ chat'[f] = chat[f]
      BY <2>3, <1>3 DEF IInv, TypeOK
    <3>2. under[f] \in Generations => pc'[under[f]] = pc[under[f]]
      BY <2>1, <1>1, <1>3 DEF IInv, TypeOK, Generations
    <3>3. under'[f] < nextGeneration'
      BY <2>1, <3>1 DEF IInv, TypeOK, Generations, NoGeneration
    <3> QED
      BY <3>1, <3>2, <3>3 DEF IInv, EventInv
  <2> QED
    BY <2>2, <2>3
<1>8. TaskInv'
  BY <1>1, <1>3, <1>5 DEF IInv, TypeOK, TaskInv, Generations
<1>9. NoLingeringWindow'
  BY <1>1, <1>2, <1>3, <1>4, <1>5 DEF IInv, TypeOK, EventInv, NoLingeringWindow, ChatWindow
<1>10. TimeInv'
  <2>1. \A h \in Generations : Closed(h)' <=> Closed(h)
    BY <1>3 DEF Closed
  <2>2. \A h \in Generations : Closed(h) => h < n /\ home'[h] = home[h] /\ due'[h] = due[h]
    BY <1>1, <1>3, <1>5 DEF IInv, TypeOK, TaskInv, Closed, Generations
  <2>3. \A d \in Chats \ {c} : windows[d] # NoWindow =>
            windows[d].generation # n /\ windows[d].generation \in Generations
    BY <1>5 DEF IInv, TypeOK, NoLingeringWindow, ChatWindow
  <2> QED
    BY <1>1, <1>2, <1>3, <1>5, <2>1, <2>2, <2>3 DEF IInv, TypeOK, TimeInv, Closed
<1>11. /\ Batch(n, "counted")' = {e}
       /\ \A g \in Generations \ {n} : Batch(g, "counted")' = Batch(g, "counted")
       /\ \A g \in Generations, s \in {"taken", "shown"} : Batch(g, s)' = Batch(g, s)
  BY <1>1, <1>3, <1>4 DEF IInv, TypeOK, EventInv, Batch
<1>12. Speaks(w, Batch(n, "counted")')
  BY <1>2, <1>11, FS_Singleton DEF Speaks
<1>13. ASSUME NEW d \in Chats, windows'[d] # NoWindow
       PROVE  Speaks(windows[d], Batch(windows[d].generation, "counted"))'
  <2>1. CASE d = c
    <3>1. windows'[d] = w /\ windows'[d].generation = n
      BY <2>1, <1>1, <1>2, <1>3 DEF IInv, TypeOK
    <3>2. Batch(windows[d].generation, "counted")' = Batch(n, "counted")'
      BY <3>1 DEF Batch
    <3> QED
      BY <3>1, <3>2, <1>12 DEF Speaks
  <2>2. CASE d # c
    <3>1. windows'[d] = windows[d] /\ windows[d].generation \in Generations \ {n}
      BY <2>2, <1>1, <1>3, <1>5, <1>13 DEF IInv, TypeOK, NoLingeringWindow, ChatWindow
    <3>2. Batch(windows[d].generation, "counted")' = Batch(windows[d].generation, "counted")
      BY <3>1, <1>11 DEF Batch
    <3> QED
      BY <3>1, <3>2, <1>13 DEF IInv, BannerSpeaksForItsEvents, Speaks
  <2> QED
    BY <2>1, <2>2
<1>14. BannerSpeaksForItsEvents'
  <2>1. taken' = taken /\ \A g \in Generations : pc'[g] \in {"flushing", "bannered"} => pc'[g] = pc[g]
    BY <1>1, <1>3 DEF IInv, TypeOK
  <2> QED
    BY <2>1, <1>11, <1>13 DEF IInv, TypeOK, BannerSpeaksForItsEvents, Speaks
<1> QED
  BY <1>6, <1>7, <1>8, <1>9, <1>10, <1>14 DEF IInv

\* A mention drops the window of its chat together with the events counted in it.
LEMMA PreemptKeeps ==
    ASSUME IInv, NEW e \in Events, Preempt(e)
    PROVE  IInv'
<1>1. PICK c \in Chats : c = chat[e]
  BY DEF IInv, TypeOK, EventInv, Preempt
<1>2. /\ windows' = [windows EXCEPT ![c] = NoWindow]
      /\ stage[e] = "calling"
      /\ UNCHANGED <<now, focused, nextGeneration, tasks, chat, under>>
  BY <1>1 DEF Preempt
<1>3. /\ stage' \in [Events -> Stages]
      /\ stage'[e] = "alerting"
      /\ \A d \in Events \ {e} :
            stage'[d] = IF stage[d] = "counted" /\ chat[d] = c THEN "dropped" ELSE stage[d]
  BY <1>1 DEF IInv, TypeOK, Preempt, Moved, Pending, Stages
<1>4. TypeOK'
  BY <1>1, <1>2, <1>3 DEF IInv, TypeOK
<1>5. EventInv'
  BY <1>1, <1>2, <1>3 DEF IInv, TypeOK, EventInv
<1>6. TaskInv' /\ TimeInv'
  BY <1>1, <1>2 DEF IInv, TypeOK, TaskInv, TimeInv, Closed
<1>7. NoLingeringWindow'
  BY <1>1, <1>2, <1>3 DEF IInv, TypeOK, EventInv, NoLingeringWindow
<1>8. \A g \in Generations, s \in {"taken", "shown"} : Batch(g, s)' = Batch(g, s)
  BY <1>1, <1>2, <1>3 DEF IInv, TypeOK, Batch
<1>9. ASSUME NEW d \in Chats, windows'[d] # NoWindow
      PROVE  Speaks(windows[d], Batch(windows[d].generation, "counted"))'
  <2>1. d # c /\ windows'[d] = windows[d]
    BY <1>1, <1>2, <1>9 DEF IInv, TypeOK
  <2>2. \A f \in Events : stage[f] = "counted" /\ under[f] = windows[d].generation => chat[f] = d
    BY <2>1, <1>9 DEF IInv, TypeOK, EventInv, NoLingeringWindow
  <2>3. Batch(windows[d].generation, "counted")' = Batch(windows[d].generation, "counted")
    BY <2>1, <2>2, <1>1, <1>2, <1>3 DEF IInv, TypeOK, Batch
  <2> QED
    BY <2>1, <2>3, <1>9 DEF IInv, BannerSpeaksForItsEvents, Speaks
<1>10. BannerSpeaksForItsEvents'
  BY <1>2, <1>8, <1>9 DEF IInv, BannerSpeaksForItsEvents, Speaks
<1> QED
  BY <1>4, <1>5, <1>6, <1>7, <1>10 DEF IInv

\* The mention's own banner belongs to no window.
LEMMA AlertKeeps ==
    ASSUME IInv, NEW e \in Events, Alert(e)
    PROVE  IInv'
<1>1. TypeOK' /\ EventInv'
  BY DEF IInv, TypeOK, EventInv, Alert, Stages, Generations, NoGeneration
<1>2. TaskInv' /\ TimeInv' /\ NoLingeringWindow'
  BY DEF IInv, TypeOK, TaskInv, TimeInv, NoLingeringWindow, Alert, Closed
<1>3. under[e] \notin Generations
  BY DEF IInv, EventInv, Alert, Generations, NoGeneration
<1>4. \A g \in Generations, s \in {"counted", "taken", "shown"} : Batch(g, s)' = Batch(g, s)
  BY <1>3 DEF IInv, TypeOK, Alert, Batch
<1>5. BannerSpeaksForItsEvents'
  BY <1>4 DEF IInv, TypeOK, Alert, BannerSpeaksForItsEvents, Speaks, ChatWindow
<1> QED
  BY <1>1, <1>2, <1>5 DEF IInv

\* A task that finds its own window takes exactly the events counted in it.
LEMMA TakeKeeps ==
    ASSUME IInv, NEW g \in Generations, Take(g)
    PROVE  IInv'
<1>1. PICK c \in Chats, w \in ChatWindow :
        /\ c = home[g] /\ w = windows[c] /\ w # NoWindow /\ w.generation = g
  BY DEF IInv, TypeOK, TaskInv, Take, Own
<1>2. /\ windows' = [windows EXCEPT ![c] = NoWindow]
      /\ taken' = [taken EXCEPT ![g] = w]
      /\ closedAt' = [closedAt EXCEPT ![g] = now]
      /\ pc' = [pc EXCEPT ![g] = "flushing"]
      /\ UNCHANGED <<now, focused, nextGeneration, home, due, chat, under>>
  BY <1>1 DEF Take, Remaining
<1>3. pc[g] = "sleeping" /\ now >= due[g]
  BY DEF Take
<1>4. \A e \in Events :
        stage[e] = "counted" => (chat[e] = c <=> under[e] = g)
  BY <1>1 DEF IInv, TypeOK, EventInv, NoLingeringWindow
<1>5. /\ stage' \in [Events -> Stages]
      /\ \A e \in Events :
            stage'[e] = IF stage[e] = "counted" /\ under[e] = g THEN "taken" ELSE stage[e]
  BY <1>1, <1>4 DEF IInv, TypeOK, Take, Moved, Pending, Stages
<1>6. TypeOK'
  BY <1>1, <1>2, <1>5 DEF IInv, TypeOK
<1>7. EventInv'
  BY <1>1, <1>2, <1>3, <1>5 DEF IInv, TypeOK, EventInv
<1>8. TaskInv'
  BY <1>1, <1>2, <1>3 DEF IInv, TypeOK, TaskInv
<1>9. NoLingeringWindow'
  BY <1>1, <1>2, <1>3, <1>4, <1>5 DEF IInv, TypeOK, EventInv, NoLingeringWindow, ChatWindow
<1>10. TimeInv'
  <2>1. ~Closed(g) /\ \A h \in Generations \ {g} : Closed(h)' <=> Closed(h)
    BY <1>2, <1>3 DEF IInv, TypeOK, TaskInv, Closed
  <2>2. \A h \in Generations : Closed(h) /\ home[h] = c =>
            h < g /\ closedAt[h] + Window <= due[g]
    BY <1>1 DEF IInv, TimeInv
  <2>3. \A h \in Generations : Closed(h) /\ home[h] = c => closedAt[h] + Window <= now
    BY <1>3, <2>2 DEF IInv, TypeOK
  <2>4. /\ closedAt'[g] = now /\ taken'[g] = w
        /\ \A h \in Generations \ {g} : closedAt'[h] = closedAt[h] /\ taken'[h] = taken[h]
    BY <1>2 DEF IInv, TypeOK
  <2>5. TimeInv!1'
    BY <1>1, <1>2, <1>3, <2>1, <2>4 DEF IInv, TypeOK, TimeInv
  <2>6. TimeInv!2'
    BY <1>1, <1>2, <2>1, <2>4 DEF IInv, TypeOK, TimeInv
  <2>7. TimeInv!3'
    <3> SUFFICES ASSUME NEW a \in Generations, NEW b \in Generations,
                        a < b, Closed(a)', Closed(b)', home[a] = home[b]
                 PROVE  closedAt'[a] + Window <= closedAt'[b]
      BY <1>2
    <3>1. CASE a # g /\ b # g
      BY <3>1, <2>1, <2>4 DEF IInv, TimeInv
    <3>2. CASE b = g
      <4>1. a # g /\ Closed(a) /\ home[a] = c
        BY <3>2, <1>1, <2>1 DEF Generations
      <4> QED
        BY <4>1, <3>2, <2>3, <2>4
    <3>3. CASE a = g
      BY <3>3, <1>1, <2>1, <2>2 DEF Generations
    <3> QED
      BY <3>1, <3>2, <3>3
  <2> QED
    BY <2>5, <2>6, <2>7 DEF TimeInv
<1>11. Batch(g, "taken")' = Batch(g, "counted")
  BY <1>2, <1>3, <1>5 DEF IInv, TypeOK, EventInv, Batch
<1>12. /\ \A h \in Generations \ {g} : Batch(h, "taken")' = Batch(h, "taken")
       /\ \A h \in Generations \ {g} : Batch(h, "counted")' = Batch(h, "counted")
       /\ \A h \in Generations : Batch(h, "shown")' = Batch(h, "shown")
  BY <1>2, <1>5 DEF IInv, TypeOK, Batch
<1>13. ASSUME NEW d \in Chats, windows'[d] # NoWindow
       PROVE  Speaks(windows[d], Batch(windows[d].generation, "counted"))'
  <2>1. windows'[d] = windows[d] /\ windows[d].generation \in Generations \ {g}
    BY <1>1, <1>2, <1>13 DEF IInv, TypeOK, NoLingeringWindow, ChatWindow
  <2>2. Batch(windows[d].generation, "counted")' = Batch(windows[d].generation, "counted")
    BY <2>1, <1>12 DEF Batch
  <2> QED
    BY <2>1, <2>2, <1>13 DEF IInv, BannerSpeaksForItsEvents, Speaks
<1>14. Speaks(w, Batch(g, "taken")')
  BY <1>1, <1>11 DEF IInv, BannerSpeaksForItsEvents
<1>15. BannerSpeaksForItsEvents'
  <2>1. ASSUME NEW h \in Generations
        PROVE  /\ pc'[h] = "flushing" => Speaks(taken[h], Batch(h, "taken"))'
               /\ pc'[h] = "bannered" => Speaks(taken[h], Batch(h, "shown"))'
    <3>1. CASE h = g
      BY <3>1, <1>2, <1>14 DEF IInv, TypeOK, Speaks
    <3>2. CASE h # g
      BY <3>2, <1>2, <1>12 DEF IInv, TypeOK, BannerSpeaksForItsEvents, Speaks
    <3> QED
      BY <3>1, <3>2
  <2> QED
    BY <2>1, <1>13 DEF BannerSpeaksForItsEvents
<1> QED
  BY <1>6, <1>7, <1>8, <1>9, <1>10, <1>15 DEF IInv

\* A task whose window was dropped ends; no open window was waiting for it.
LEMMA SkipKeeps ==
    ASSUME IInv, NEW g \in Generations, Skip(g)
    PROVE  IInv'
<1>1. /\ pc[g] = "sleeping" /\ pc' = [pc EXCEPT ![g] = "gone"]
      /\ home[g] \in Chats
      /\ UNCHANGED <<now, focused, windows, nextGeneration, home, due, taken, closedAt, emitters>>
  BY DEF IInv, TaskInv, Skip
<1>2. TypeOK' /\ EventInv' /\ TaskInv'
  BY <1>1 DEF IInv, TypeOK, EventInv, TaskInv, Generations
<1>3. NoLingeringWindow'
  BY <1>1 DEF IInv, TypeOK, NoLingeringWindow, Skip, Own
<1>4. TimeInv'
  BY <1>1 DEF IInv, TimeInv, Closed
<1>5. \A h \in Generations, s \in {"counted", "taken", "shown"} : Batch(h, s)' = Batch(h, s)
  BY <1>1 DEF Batch
<1>6. BannerSpeaksForItsEvents'
  BY <1>1, <1>5 DEF IInv, TypeOK, BannerSpeaksForItsEvents, Speaks, ChatWindow
<1> QED
  BY <1>2, <1>3, <1>4, <1>6 DEF IInv

\* The banner is sent for exactly the events that were taken.
LEMMA FlushKeeps ==
    ASSUME IInv, NEW g \in Generations, Flush(g)
    PROVE  IInv'
<1>1. PICK last \in {"gone", "bannered"}, s \in {"seen", "shown"} :
        /\ last = "bannered" <=> s = "shown"
        /\ pc' = [pc EXCEPT ![g] = last]
        /\ stage' = Moved(Batch(g, "taken"), s)
  <2>1. CASE focused
    BY <2>1 DEF Flush
  <2>2. CASE ~focused
    BY <2>2 DEF Flush
  <2> QED
    BY <2>1, <2>2
<1>2. /\ pc[g] = "flushing"
      /\ UNCHANGED <<now, focused, windows, nextGeneration, home, due, taken, closedAt, chat, under>>
  BY DEF Flush
<1>3. /\ stage' \in [Events -> Stages]
      /\ \A e \in Events :
            stage'[e] = IF stage[e] = "taken" /\ under[e] = g THEN s ELSE stage[e]
  BY <1>1 DEF IInv, TypeOK, Moved, Batch, Stages
<1>4. TypeOK'
  BY <1>1, <1>2, <1>3 DEF IInv, TypeOK
<1>5. EventInv'
  BY <1>1, <1>2, <1>3 DEF IInv, TypeOK, EventInv
<1>6. TaskInv'
  BY <1>1, <1>2 DEF IInv, TypeOK, TaskInv
<1>7. NoLingeringWindow'
  BY <1>1, <1>2, <1>3 DEF IInv, TypeOK, NoLingeringWindow, ChatWindow
<1>8. TimeInv'
  BY <1>2 DEF IInv, TimeInv, Closed
<1>9. /\ last = "bannered" => Batch(g, "shown")' = Batch(g, "taken")
      /\ \A h \in Generations : Batch(h, "counted")' = Batch(h, "counted")
      /\ \A h \in Generations \ {g} : Batch(h, "taken")' = Batch(h, "taken")
      /\ \A h \in Generations \ {g} : Batch(h, "shown")' = Batch(h, "shown")
  BY <1>1, <1>2, <1>3 DEF IInv, TypeOK, EventInv, Batch
<1>10. ASSUME NEW d \in Chats, windows'[d] # NoWindow
       PROVE  Speaks(windows[d], Batch(windows[d].generation, "counted"))'
  <2>1. windows'[d] = windows[d] /\ windows[d].generation \in Generations
    BY <1>2, <1>10 DEF IInv, TypeOK, ChatWindow
  <2>2. Batch(windows[d].generation, "counted")' = Batch(windows[d].generation, "counted")
    BY <2>1, <1>9 DEF Batch
  <2> QED
    BY <2>1, <2>2, <1>10 DEF IInv, BannerSpeaksForItsEvents, Speaks
<1>11. ASSUME NEW h \in Generations
       PROVE  /\ pc'[h] = "flushing" => Speaks(taken[h], Batch(h, "taken"))'
              /\ pc'[h] = "bannered" => Speaks(taken[h], Batch(h, "shown"))'
  <2>1. CASE h = g
    BY <2>1, <1>1, <1>2, <1>9 DEF IInv, TypeOK, BannerSpeaksForItsEvents, Speaks
  <2>2. CASE h # g
    BY <2>2, <1>1, <1>2, <1>9 DEF IInv, TypeOK, BannerSpeaksForItsEvents, Speaks
  <2> QED
    BY <2>1, <2>2
<1>12. BannerSpeaksForItsEvents'
  BY <1>10, <1>11 DEF BannerSpeaksForItsEvents
<1> QED
  BY <1>4, <1>5, <1>6, <1>7, <1>8, <1>12 DEF IInv

\* The clock, the focus and stuttering change nothing the invariant counts.
LEMMA RestKeeps ==
    ASSUME IInv, Focus \/ Tick \/ UNCHANGED vars
    PROVE  IInv'
<1>1. /\ now' \in Nat /\ now <= now'
      /\ UNCHANGED <<windows, nextGeneration, pc, home, due, taken, closedAt, stage, chat, under>>
  BY DEF IInv, TypeOK, Focus, Tick, vars
<1>2. focused' \in BOOLEAN
  BY Zenon DEF IInv, TypeOK, Focus, Tick, vars
<1>3. TypeOK'
  BY <1>1, <1>2 DEF IInv, TypeOK
<1>4. EventInv' /\ TaskInv' /\ NoLingeringWindow'
  BY <1>1 DEF IInv, EventInv, TaskInv, NoLingeringWindow
<1>5. TimeInv'
  BY <1>1 DEF IInv, TypeOK, TimeInv, Closed
<1>6. BannerSpeaksForItsEvents'
  BY <1>1 DEF IInv, BannerSpeaksForItsEvents, Speaks, Batch
<1> QED
  BY <1>3, <1>4, <1>5, <1>6 DEF IInv

\* IInv is an inductive invariant of the coalescer.
THEOREM Invariance == Spec => []IInv
<1>1. IInv /\ [Next]_vars => IInv'
  BY EmitKeeps, JoinKeeps, OpenKeeps, PreemptKeeps, AlertKeeps, TakeKeeps, SkipKeeps,
     FlushKeeps, RestKeeps DEF Next, EmitStep, TaskStep
<1> QED
  BY <1>1, Initially, PTL DEF Spec

\* Every reachable state of the coalescer is well typed.
THEOREM TypeCorrect == Spec => []TypeOK
<1>1. IInv => TypeOK
  BY DEF IInv
<1> QED
  BY <1>1, Invariance, PTL

\* A summary banner counts exactly the events it stands for, and a single
\* banner is its event's own (register_interrupt, flush).
THEOREM BannersAreExact == Spec => []BannerSpeaksForItsEvents
<1>1. IInv => BannerSpeaksForItsEvents
  BY DEF IInv
<1> QED
  BY <1>1, Invariance, PTL

\* An open window always has its own task asleep (register_interrupt, flush).
THEOREM WindowsAreOwned == Spec => []NoLingeringWindow
<1>1. IInv => NoLingeringWindow
  BY DEF IInv
<1> QED
  BY <1>1, Invariance, PTL

\* Windows of one chat are closed at least COALESCE_WINDOW apart (flush).
THEOREM BurstsCollapse == Spec => []BurstsKeepTheirDistance
<1>1. IInv => BurstsKeepTheirDistance
  BY DEF IInv, TimeInv, BurstsKeepTheirDistance
<1> QED
  BY <1>1, Invariance, PTL
=============================================================================
