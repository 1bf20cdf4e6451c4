------------------------- MODULE TimedPromptsProofs -------------------------
(***************************************************************************)
(* Proofs about TimedPrompts, for every limit of the timers and any number *)
(* of open undo requests.                                                  *)
(***************************************************************************)
EXTENDS TimedPrompts, SequenceTheorems, TLAPS

-----------------------------------------------------------------------------
(* What the operations of a timer preserve *)

Sound(t) == t \in Timer /\ TimerOK(t)

\* A timer is sound when the game starts.
LEMMA NewTimerIsSound == Sound(NewTimer)
  BY ByoyomiAssumption DEF Sound, Timer, SimpleTimer, TimerOK, NewTimer, Off, Paused, Started, IsRunning

\* A tick leaves the mode of a timer, and the time of one that does not count.
LEMMA TickedTimer ==
  ASSUME NEW s \in SimpleTimer
  PROVE  /\ Ticked(s) \in SimpleTimer
         /\ Ticked(s).mode = s.mode
         /\ s.mode # "counting" => Ticked(s).left = s.left
         /\ Ticked(s).left <= s.left
  BY DEF Ticked, SimpleTimer, IsRunning

\* Starting, stopping, pausing and resuming keep a timer sound.
LEMMA OperationsAreSound ==
  ASSUME NEW t, Sound(t)
  PROVE  /\ Sound(StartOrResume(t)) /\ Sound(Stop(t)) /\ Sound(Pause(t))
         /\ Sound(TurnExpired(t)) /\ Sound(Elapsed(t))
         /\ Sound([t EXCEPT !.main = Fired(@)])
<1> USE ByoyomiAssumption DEF Sound, Timer, SimpleTimer, TimerOK, IsRunning
<1>1. Sound(StartOrResume(t))
  BY DEF StartOrResume, Start, Resume, Started, Paused, Resumed
<1>2. Sound(Stop(t))
  BY DEF Stop, Off, Paused
<1>3. Sound(Pause(t))
  BY DEF Pause, Paused
<1>4. Sound(TurnExpired(t))
  BY DEF TurnExpired, Fired, Resumed
<1>5. Sound(Elapsed(t))
  <2>1. t.turn \in SimpleTimer /\ t.main \in SimpleTimer
    OBVIOUS
  <2>2. Elapsed(t) \in Timer
    BY <2>1, TickedTimer DEF Elapsed
  <2>3. TimerOK(Elapsed(t))
    BY <2>1, TickedTimer DEF Elapsed
  <2> QED BY <2>2, <2>3
<1>6. Sound([t EXCEPT !.main = Fired(@)])
  BY DEF Fired
<1> QED BY <1>1, <1>2, <1>3, <1>4, <1>5, <1>6

\* None of them gives main time.
LEMMA MainTimeOnlyShrinks ==
  ASSUME NEW t, Sound(t)
  PROVE  /\ StartOrResume(t).main.left <= t.main.left
         /\ Stop(t).main.left <= t.main.left
         /\ Pause(t).main.left <= t.main.left
         /\ TurnExpired(t).main.left <= t.main.left
         /\ Elapsed(t).main.left <= t.main.left
         /\ [t EXCEPT !.main = Fired(@)].main.left <= t.main.left
<1> USE DEF Sound, Timer, SimpleTimer, TimerOK, IsRunning
<1>1. StartOrResume(t).main.left <= t.main.left
  BY DEF StartOrResume, Start, Resume, Started, Paused, Resumed
<1>2. Stop(t).main.left <= t.main.left
  BY DEF Stop, Off, Paused
<1>3. Pause(t).main.left <= t.main.left
  BY DEF Pause, Paused
<1>4. TurnExpired(t).main.left <= t.main.left
  BY DEF TurnExpired, Fired, Resumed
<1>5. Elapsed(t).main.left <= t.main.left
  BY DEF Elapsed, Ticked
<1>6. [t EXCEPT !.main = Fired(@)].main.left <= t.main.left
  BY DEF Fired
<1> QED BY <1>1, <1>2, <1>3, <1>4, <1>5, <1>6

-----------------------------------------------------------------------------
(* What a prompt does to the timers *)

AllSound(ts) == ts \in [Players -> Timer] /\ \A p \in Players : Sound(ts[p])

NoneGains(ts, old) == \A p \in Players : ts[p].main.left <= old[p].main.left

\* No time is given from one set of timers to the next, and so to the one after.
LEMMA NoneGainsTransitive ==
  ASSUME NEW ts, NEW us, NEW old, AllSound(ts), AllSound(us), AllSound(old),
         NoneGains(ts, us), NoneGains(us, old)
  PROVE  NoneGains(ts, old)
  BY DEF NoneGains, AllSound, Sound, Timer, SimpleTimer

\* Setting a prompt keeps the timers sound and gives no main time.
LEMMA SetPromptIsSound ==
  ASSUME NEW ts, AllSound(ts), NEW active, NEW before, NEW first, NEW confirmation
  PROVE  /\ AllSound(SetPrompt(ts, active, before, first, confirmation))
         /\ NoneGains(SetPrompt(ts, active, before, first, confirmation), ts)
<1> DEFINE us == SetPrompt(ts, active, before, first, confirmation)
<1>1. \A p \in Players : us[p] \in {StartOrResume(ts[p]), ts[p], Pause(ts[p]), Stop(ts[p])}
  BY DEF SetPrompt
<1>2. \A p \in Players : Sound(us[p])
  BY <1>1, OperationsAreSound DEF AllSound
<1>3. us \in [Players -> Timer]
  BY <1>2 DEF SetPrompt, Sound
<1>4. \A p \in Players : us[p].main.left <= ts[p].main.left
  <2> SUFFICES ASSUME NEW p \in Players PROVE us[p].main.left <= ts[p].main.left
    OBVIOUS
  <2>1. Sound(ts[p]) /\ ts[p].main.left \in Nat
    BY DEF AllSound, Sound, Timer, SimpleTimer
  <2>2. ts[p].main.left <= ts[p].main.left
    BY <2>1
  <2> QED BY <1>1, <2>1, <2>2, MainTimeOnlyShrinks
<1> QED BY <1>2, <1>3, <1>4 DEF AllSound, NoneGains

\* So does stopping the timers of some players.
LEMMA StoppedForIsSound ==
  ASSUME NEW ts, AllSound(ts), NEW players
  PROVE  AllSound(StoppedFor(ts, players)) /\ NoneGains(StoppedFor(ts, players), ts)
<1> DEFINE us == StoppedFor(ts, players)
<1>1. \A p \in Players : us[p] \in {ts[p], Stop(ts[p])}
  BY DEF StoppedFor
<1>2. \A p \in Players : Sound(us[p])
  BY <1>1, OperationsAreSound DEF AllSound
<1>3. us \in [Players -> Timer]
  BY <1>2 DEF StoppedFor, Sound
<1>4. \A p \in Players : us[p].main.left <= ts[p].main.left
  <2> SUFFICES ASSUME NEW p \in Players PROVE us[p].main.left <= ts[p].main.left
    OBVIOUS
  <2>1. Sound(ts[p]) /\ ts[p].main.left \in Nat
    BY DEF AllSound, Sound, Timer, SimpleTimer
  <2>2. ts[p].main.left <= ts[p].main.left
    BY <2>1
  <2> QED BY <1>1, <2>1, <2>2, MainTimeOnlyShrinks
<1> QED BY <1>2, <1>3, <1>4 DEF AllSound, NoneGains

-----------------------------------------------------------------------------
(* Type correctness and main time *)

\* The opponent is a player.
LEMMA OpponentIsAPlayer ==
  ASSUME NEW p \in Players
  PROVE  Opponent(p) \in Players /\ Opponent(p) # p
  BY TimedAssumption DEF Opponent

TypeAsSound == TimerTypeOK <=> /\ AllSound(timers)
                               /\ prompt \in [kind : {"initiative", "window", "menu", "all"},
                                              asked : SUBSET Players,
                                              active : (SUBSET Players) \ {{}}, reset : BOOLEAN]
                               /\ activeBefore \subseteq Players /\ winners \subseteq Players
                               /\ requests \in Seq(Players)

\* The type invariant speaks of sound timers.
LEMMA TypeIsSound == TypeAsSound
  BY DEF TypeAsSound, TimerTypeOK, AllSound, Sound

\* Whoever is prompted is a player, whatever requests are open.
LEMMA SomePlayersArePrompted ==
  ASSUME TimerTypeOK, NEW open \in Seq(Players)
  PROVE  PromptedUnder(open) \subseteq Players /\ PromptedUnder(open) # {}
<1>1. CASE open = <<>>
  BY <1>1 DEF PromptedUnder, TimerTypeOK
<1>2. CASE open # <<>>
  <2>1. open[Len(open)] \in Players
    BY <1>2
  <2> QED BY <1>2, <2>1, OpponentIsAPlayer DEF PromptedUnder
<1> QED BY <1>1, <1>2

\* Every prompt that may come next is one of the kinds, put to players.
LEMMA NextPromptsAreTyped ==
  ASSUME NEW next \in GamePrompts
  PROVE  next \in [kind : {"initiative", "window", "menu", "all"}, asked : SUBSET Players,
                   active : (SUBSET Players) \ {{}}, reset : BOOLEAN]
<1>1. Players # {}
  BY TimedAssumption
<1>2. CASE \E p \in Players : next = Window(p) \/ next = Menu(p)
  <2> PICK p \in Players : next = Window(p) \/ next = Menu(p)
    BY <1>2
  <2>1. {p} \in (SUBSET Players) \ {{}}
    OBVIOUS
  <2>2. CASE next = Window(p)
    BY <2>1, <2>2, Zenon DEF Window
  <2>3. CASE next = Menu(p)
    BY <2>1, <2>3, Zenon DEF Menu
  <2> QED BY <2>2, <2>3
<1>3. CASE \E reset \in BOOLEAN : next = AllPlayers(reset)
  BY <1>1, <1>3 DEF AllPlayers
<1> QED BY <1>2, <1>3 DEF GamePrompts

\* Timers after a prompt has continued.
LEMMA ContinuingIsSound ==
  ASSUME NEW ts, AllSound(ts), NEW active, NEW confirmation,
         Open(ts, active, confirmation) \/ Again(ts, active, confirmation)
  PROVE  AllSound(timers') /\ NoneGains(timers', ts) /\ activeBefore' = active
  BY SetPromptIsSound DEF Open, Again

\* Timers after a rollback has rebuilt the pipeline.
LEMMA RebuildingIsSound ==
  ASSUME NEW ts, AllSound(ts), NEW next, Rebuild(ts, next)
  PROVE  AllSound(timers') /\ NoneGains(timers', ts)
<1> DEFINE us == SetPrompt(ts, next.active, activeBefore, TRUE, FALSE)
<1>1. AllSound(us) /\ NoneGains(us, ts)
  BY SetPromptIsSound
<1>2. timers' = SetPrompt(us, next.active, next.active, FALSE, FALSE)
  BY DEF Rebuild
<1>3. AllSound(timers') /\ NoneGains(timers', us)
  BY <1>1, <1>2, SetPromptIsSound
<1> QED BY <1>1, <1>3, NoneGainsTransitive

\* The first prompt starts the timer of the player it is put to.
LEMMA FirstStateIsTyped == TimedInit => TimerTypeOK
<1> SUFFICES ASSUME TimedInit PROVE TimerTypeOK
  OBVIOUS
<1>1. PICK p \in Players : /\ prompt = Initiative(p)
                           /\ timers = SetPrompt([q \in Players |-> NewTimer], {p}, {}, TRUE, FALSE)
                           /\ activeBefore = {p} /\ requests = <<>> /\ winners = {}
  BY DEF TimedInit
<1>2. AllSound([q \in Players |-> NewTimer])
  BY NewTimerIsSound DEF AllSound, Sound
<1>3. AllSound(timers)
  BY <1>1, <1>2, SetPromptIsSound
<1>4. prompt \in [kind : {"initiative", "window", "menu", "all"}, asked : SUBSET Players,
                  active : (SUBSET Players) \ {{}}, reset : BOOLEAN]
  BY <1>1 DEF Initiative
<1>5. requests \in Seq(Players)
  BY <1>1
<1> QED BY <1>1, <1>3, <1>4, <1>5, TypeIsSound DEF TypeAsSound

PromptTyped(record) == record \in [kind : {"initiative", "window", "menu", "all"},
                                   asked : SUBSET Players,
                                   active : (SUBSET Players) \ {{}}, reset : BOOLEAN]

\* A step keeps the types and gives nobody main time.
LEMMA StepIsTyped ==
  ASSUME TimerTypeOK, [TimedNext]_timedVars
  PROVE  TimerTypeOK' /\ NoneGains(timers', timers)
<1> USE DEF PromptTyped
<1>1. AllSound(timers) /\ PromptTyped(prompt) /\ requests \in Seq(Players)
      /\ activeBefore \subseteq Players /\ winners \subseteq Players
  BY DEF TimerTypeOK, AllSound, Sound
<1>2. NoneGains(timers, timers)
  BY <1>1 DEF NoneGains, AllSound, Sound, Timer, SimpleTimer
<1>3. SUFFICES /\ AllSound(timers') /\ NoneGains(timers', timers)
               /\ PromptTyped(prompt') /\ requests' \in Seq(Players)
               /\ activeBefore' \subseteq Players /\ winners' \subseteq Players
  BY <1>3 DEF TimerTypeOK, AllSound, Sound
<1>4. Prompted \subseteq Players /\ prompt.active \subseteq Players
  BY <1>1, SomePlayersArePrompted DEF Prompted
<1>5. CASE Tick
  <2>1. \A p \in Players : Sound(Elapsed(timers[p]))
                           /\ Elapsed(timers[p]).main.left <= timers[p].main.left
    BY <1>1, OperationsAreSound, MainTimeOnlyShrinks DEF AllSound
  <2>2. timers' = [p \in Players |-> Elapsed(timers[p])]
    BY <1>5 DEF Tick
  <2>3. AllSound(timers') /\ NoneGains(timers', timers)
    BY <2>1, <2>2 DEF AllSound, NoneGains, Sound
  <2> QED BY <1>1, <1>5, <2>3 DEF Tick
<1>6. ASSUME NEW p \in Players, TurnExpires(p)
      PROVE  /\ AllSound(timers') /\ NoneGains(timers', timers)
             /\ PromptTyped(prompt') /\ requests' \in Seq(Players)
             /\ activeBefore' \subseteq Players /\ winners' \subseteq Players
  <2>1. timers' = [timers EXCEPT ![p] = TurnExpired(timers[p])]
    BY <1>6 DEF TurnExpires
  <2>2. Sound(TurnExpired(timers[p])) /\ TurnExpired(timers[p]).main.left <= timers[p].main.left
    BY <1>1, OperationsAreSound, MainTimeOnlyShrinks DEF AllSound
  <2>3. AllSound(timers') /\ NoneGains(timers', timers)
    BY <1>1, <1>2, <2>1, <2>2 DEF AllSound, NoneGains, Sound
  <2> QED BY <1>1, <1>6, <2>3 DEF TurnExpires
<1>7. ASSUME NEW p \in Players, MainExpires(p)
      PROVE  /\ AllSound(timers') /\ NoneGains(timers', timers)
             /\ PromptTyped(prompt') /\ requests' \in Seq(Players)
             /\ activeBefore' \subseteq Players /\ winners' \subseteq Players
  <2> DEFINE fired == [timers EXCEPT ![p] = [timers[p] EXCEPT !.main = Fired(@)]]
  <2>1. /\ Sound([timers[p] EXCEPT !.main = Fired(@)])
        /\ [timers[p] EXCEPT !.main = Fired(@)].main.left <= timers[p].main.left
    BY <1>1, OperationsAreSound, MainTimeOnlyShrinks DEF AllSound
  <2>2. AllSound(fired) /\ NoneGains(fired, timers)
    BY <1>1, <1>2, <2>1 DEF AllSound, NoneGains, Sound
  <2>3. AllSound(StoppedFor(fired, Players)) /\ NoneGains(StoppedFor(fired, Players), timers)
    BY <1>1, <2>2, StoppedForIsSound, NoneGainsTransitive
  <2>4. fired = [timers EXCEPT ![p].main = Fired(@)]
    BY <1>1 DEF AllSound, Sound, Timer
  <2>5. WinnersByTimeout(p) \subseteq Players
    BY OpponentIsAPlayer DEF WinnersByTimeout
  <2> HIDE DEF fired
  <2> QED BY <1>1, <1>7, <2>2, <2>3, <2>4, <2>5 DEF MainExpires
<1>8. CASE Message
  <2>1. AllSound(timers') /\ NoneGains(timers', timers) /\ activeBefore' = Prompted
    BY <1>1, <1>8, ContinuingIsSound DEF Message
  <2> QED BY <1>1, <1>4, <1>8, <2>1 DEF Message
<1>9. CASE DenyUndo
  <2>1. requests' = SubSeq(requests, 1, Len(requests) - 1) /\ requests # <<>>
    BY <1>9 DEF DenyUndo
  <2>2. requests' \in Seq(Players)
    BY <1>1, <2>1
  <2>3. PromptedUnder(requests') \subseteq Players
    BY <2>2, SomePlayersArePrompted
  <2>4. AllSound(timers') /\ NoneGains(timers', timers) /\ activeBefore' = PromptedUnder(requests')
    BY <1>1, <1>9, ContinuingIsSound DEF DenyUndo
  <2> QED BY <1>1, <1>9, <2>2, <2>3, <2>4 DEF DenyUndo
<1>10. ASSUME NEW p \in Players, AnswerInPart(p)
      PROVE  /\ AllSound(timers') /\ NoneGains(timers', timers)
             /\ PromptTyped(prompt') /\ requests' \in Seq(Players)
             /\ activeBefore' \subseteq Players /\ winners' \subseteq Players
  <2>1. prompt' = [prompt EXCEPT !.active = prompt.active \ {p}]
        /\ p \in prompt.active /\ prompt.active # {p}
    BY <1>10 DEF AnswerInPart
  <2>2. prompt'.active = prompt.active \ {p} /\ PromptTyped(prompt')
    BY <1>1, <2>1
  <2>3. AllSound(timers') /\ NoneGains(timers', timers) /\ activeBefore' = prompt'.active
    BY <1>1, <1>10, ContinuingIsSound DEF AnswerInPart
  <2> QED BY <1>1, <1>10, <2>2, <2>3 DEF AnswerInPart
<1>11. ASSUME NEW p \in Players, NEW next \in GamePrompts, NEW ends \in BOOLEAN,
              AnswerLast(p, next, ends)
      PROVE  /\ AllSound(timers') /\ NoneGains(timers', timers)
             /\ PromptTyped(prompt') /\ requests' \in Seq(Players)
             /\ activeBefore' \subseteq Players /\ winners' \subseteq Players
  <2> DEFINE completed == Completed(timers)
             ts == IF ends THEN StoppedFor(completed, Players) ELSE completed
             made == Made(ts, next)
  <2>1. AllSound(completed) /\ NoneGains(completed, timers)
    BY <1>1, <1>2, StoppedForIsSound DEF Completed
  <2>2. AllSound(ts) /\ NoneGains(ts, timers)
    BY <1>1, <2>1, StoppedForIsSound, NoneGainsTransitive
  <2>3. AllSound(made) /\ NoneGains(made, timers)
    BY <1>1, <2>2, StoppedForIsSound, NoneGainsTransitive DEF Made
  <2> HIDE DEF completed
  <2>4. Open(made, next.active, FALSE) \/ Again(ts, next.active, FALSE)
    BY <1>11 DEF AnswerLast, completed
  <2> HIDE DEF ts, made
  <2>5. AllSound(timers') /\ NoneGains(timers', timers) /\ activeBefore' = next.active
    BY <1>1, <2>2, <2>3, <2>4, ContinuingIsSound, NoneGainsTransitive
  <2>6. PromptTyped(next) /\ next.active \subseteq Players
    BY NextPromptsAreTyped
  <2> QED BY <1>1, <1>11, <2>5, <2>6 DEF AnswerLast
<1>12. ASSUME NEW p \in Players, Concede(p)
      PROVE  /\ AllSound(timers') /\ NoneGains(timers', timers)
             /\ PromptTyped(prompt') /\ requests' \in Seq(Players)
             /\ activeBefore' \subseteq Players /\ winners' \subseteq Players
  <2>1. AllSound(StoppedFor(timers, Players)) /\ NoneGains(StoppedFor(timers, Players), timers)
    BY <1>1, StoppedForIsSound
  <2>2. AllSound(timers') /\ NoneGains(timers', timers) /\ activeBefore' = Prompted
    BY <1>1, <1>12, <2>1, ContinuingIsSound, NoneGainsTransitive DEF Concede
  <2> QED BY <1>1, <1>4, <1>12, <2>2, OpponentIsAPlayer DEF Concede
<1>13. ASSUME NEW p \in Players, RequestUndo(p)
      PROVE  /\ AllSound(timers') /\ NoneGains(timers', timers)
             /\ PromptTyped(prompt') /\ requests' \in Seq(Players)
             /\ activeBefore' \subseteq Players /\ winners' \subseteq Players
  <2>1. AllSound(timers') /\ NoneGains(timers', timers) /\ activeBefore' = {Opponent(p)}
    BY <1>1, <1>13, ContinuingIsSound DEF RequestUndo
  <2> QED BY <1>1, <1>13, <2>1, OpponentIsAPlayer DEF RequestUndo
<1>14. ASSUME NEW ts, AllSound(ts), NoneGains(ts, timers), NEW next \in GamePrompts, Rebuild(ts, next)
      PROVE  /\ AllSound(timers') /\ NoneGains(timers', timers)
             /\ PromptTyped(prompt') /\ requests' \in Seq(Players)
             /\ activeBefore' \subseteq Players /\ winners' \subseteq Players
  <2>1. AllSound(timers') /\ NoneGains(timers', timers)
    BY <1>1, <1>14, RebuildingIsSound, NoneGainsTransitive
  <2>2. prompt' = next /\ requests' = <<>> /\ activeBefore' = next.active /\ winners' \in {winners, {}}
    BY <1>14 DEF Rebuild
  <2>3. PromptTyped(next) /\ next.active \subseteq Players
    BY NextPromptsAreTyped
  <2> QED BY <1>1, <2>1, <2>2, <2>3
<1>15. ASSUME NEW next \in GamePrompts, Undo(next)
      PROVE  /\ AllSound(timers') /\ NoneGains(timers', timers)
             /\ PromptTyped(prompt') /\ requests' \in Seq(Players)
             /\ activeBefore' \subseteq Players /\ winners' \subseteq Players
  <2>1. AllSound(Made(timers, next)) /\ NoneGains(Made(timers, next), timers)
    BY <1>1, StoppedForIsSound DEF Made
  <2>2. Rebuild(Made(timers, next), next)
    BY <1>15 DEF Undo
  <2> QED BY <2>1, <2>2, <1>14
<1>16. ASSUME NEW p \in Players, NEW player \in Players, RecoverCost(p, player)
      PROVE  /\ AllSound(timers') /\ NoneGains(timers', timers)
             /\ PromptTyped(prompt') /\ requests' \in Seq(Players)
             /\ activeBefore' \subseteq Players /\ winners' \subseteq Players
  <2> DEFINE ts == [timers EXCEPT ![p] = Pause(timers[p])]
  <2>1. Sound(Pause(timers[p])) /\ Pause(timers[p]).main.left <= timers[p].main.left
    BY <1>1, OperationsAreSound, MainTimeOnlyShrinks DEF AllSound
  <2>2. AllSound(ts) /\ NoneGains(ts, timers)
    BY <1>1, <1>2, <2>1 DEF AllSound, NoneGains, Sound
  <2>3. Window(player) \in GamePrompts
    BY DEF GamePrompts
  <2>4. Rebuild(ts, Window(player))
    BY <1>16 DEF RecoverCost
  <2> QED BY <2>2, <2>3, <2>4, <1>14
<1>17. CASE UNCHANGED timedVars
  BY <1>1, <1>2, <1>17 DEF timedVars
<1> QED
  BY <1>5, <1>6, <1>7, <1>8, <1>9, <1>10, <1>11, <1>12, <1>13, <1>15, <1>16, <1>17
  DEF TimedNext, TimePasses

\* TimerTypeOK, for every limit of the timers and any number of requests: no order
\* of starting, stopping, pausing, resuming and expiring pauses a timer with nothing
\* left, or loses the main timer.
THEOREM TimersAreTyped == TimedSpec => []TimerTypeOK
<1>1. TimerTypeOK /\ [TimedNext]_timedVars => TimerTypeOK'
  BY StepIsTyped
<1> QED BY FirstStateIsTyped, <1>1, PTL DEF TimedSpec

\* MainTimeNeverReturns: no prompt, request, denial, rollback or recovery, however
\* often and in whatever order, gives a player main time.
THEOREM MainTimeIsSpentOnce == TimedSpec => MainTimeNeverReturns
<1>1. TimerTypeOK /\ [TimedNext]_timedVars =>
        [\A p \in Players : timers'[p].main.left <= timers[p].main.left]_timedVars
  BY StepIsTyped DEF NoneGains
<1> QED BY TimersAreTyped, <1>1, PTL DEF TimedSpec, MainTimeNeverReturns

-----------------------------------------------------------------------------
(* Who loses on time *)

\* Only the stage a timer is in may count.
Exclusive(t) == /\ t.turn.mode = "counting" => ~t.onMain
                /\ t.main.mode = "counting" => t.onMain

Idle(t) == t.turn.mode # "counting" /\ t.main.mode # "counting"

AllExclusive(ts) == \A p \in Players : Exclusive(ts[p])

NoneDue(ts) == \A p \in Players : ~Due(ts[p])

IdleOutside(ts, active) == \A p \in Players : p \notin active => Idle(ts[p])

\* Of the players, only those who are prompted have a timer that counts.
IdleInv == AllExclusive(timers) /\ IdleOutside(timers, Prompted)

\* A timer that is not due is idle once stopped or paused, and is not due once started.
LEMMA OperationsAreExclusive ==
  ASSUME NEW t, Sound(t), Exclusive(t), ~Due(t)
  PROVE  /\ Exclusive(Stop(t)) /\ Idle(Stop(t)) /\ ~Due(Stop(t))
         /\ Exclusive(Pause(t)) /\ Idle(Pause(t)) /\ ~Due(Pause(t))
         /\ Exclusive(StartOrResume(t)) /\ ~Due(StartOrResume(t))
<1> USE ByoyomiAssumption
    DEF Sound, Timer, SimpleTimer, TimerOK, IsRunning, Exclusive, Idle, Due, IsDue
<1>1. Exclusive(Stop(t)) /\ Idle(Stop(t)) /\ ~Due(Stop(t))
  BY DEF Stop, Off, Paused
<1>2. Exclusive(Pause(t)) /\ Idle(Pause(t)) /\ ~Due(Pause(t))
  BY DEF Pause, Paused
<1>3. Exclusive(StartOrResume(t)) /\ ~Due(StartOrResume(t))
  BY DEF StartOrResume, Start, Resume, Started, Paused, Resumed
<1> QED BY <1>1, <1>2, <1>3

\* Stopping a timer that is due leaves it in its stage.
LEMMA StoppingIsExclusive ==
  ASSUME NEW t, Sound(t), Exclusive(t)
  PROVE  Exclusive(Stop(t)) /\ (Idle(t) => Idle(Stop(t)))
  BY DEF Sound, Timer, SimpleTimer, Exclusive, Idle, Stop, Off, Paused, IsRunning

\* Setting a prompt leaves the timers of all other players idle, if none was due.
LEMMA SetPromptLeavesIdle ==
  ASSUME NEW ts, AllSound(ts), AllExclusive(ts), NoneDue(ts),
         NEW active, NEW before, NEW first, NEW confirmation
  PROVE  LET us == SetPrompt(ts, active, before, first, confirmation)
         IN AllSound(us) /\ AllExclusive(us) /\ NoneDue(us) /\ IdleOutside(us, active)
<1> DEFINE us == SetPrompt(ts, active, before, first, confirmation)
<1>1. \A p \in Players : us[p] \in {StartOrResume(ts[p]), ts[p], Pause(ts[p]), Stop(ts[p])}
  BY DEF SetPrompt
<1>2. \A p \in Players : p \notin active => us[p] \in {Pause(ts[p]), Stop(ts[p])}
  BY DEF SetPrompt
<1>3. AllSound(us)
  BY SetPromptIsSound
<1> HIDE DEF us
<1>4. \A p \in Players : Sound(ts[p]) /\ Exclusive(ts[p]) /\ ~Due(ts[p])
  BY DEF AllSound, AllExclusive, NoneDue
<1>5. \A p \in Players : Exclusive(us[p]) /\ ~Due(us[p])
  BY <1>1, <1>4, OperationsAreExclusive
<1>6. \A p \in Players : p \notin active => Idle(us[p])
  BY <1>2, <1>4, OperationsAreExclusive
<1> QED BY <1>3, <1>5, <1>6 DEF AllExclusive, NoneDue, IdleOutside, us

\* Stopping the timers of some players starts nobody's.
LEMMA StoppedForLeavesIdle ==
  ASSUME NEW ts, AllSound(ts), AllExclusive(ts), NEW players
  PROVE  LET us == StoppedFor(ts, players)
         IN /\ AllSound(us) /\ AllExclusive(us)
            /\ NoneDue(ts) => NoneDue(us)
            /\ \A active : IdleOutside(ts, active) => IdleOutside(us, active)
<1> DEFINE us == StoppedFor(ts, players)
<1>1. \A p \in Players : us[p] \in {ts[p], Stop(ts[p])}
  BY DEF StoppedFor
<1>2. AllSound(us)
  BY StoppedForIsSound
<1> HIDE DEF us
<1>3. \A p \in Players : Sound(ts[p]) /\ Exclusive(ts[p])
  BY DEF AllSound, AllExclusive
<1>4. \A p \in Players : Exclusive(us[p]) /\ (Idle(ts[p]) => Idle(us[p]))
  BY <1>1, <1>3, StoppingIsExclusive
<1>5. NoneDue(ts) => NoneDue(us)
  BY <1>1, <1>3, OperationsAreExclusive DEF NoneDue
<1> QED BY <1>2, <1>4, <1>5 DEF AllExclusive, IdleOutside, us

\* After a prompt has continued only the players it is put to may be timed.
LEMMA ContinuingLeavesIdle ==
  ASSUME NEW ts, AllSound(ts), AllExclusive(ts), NoneDue(ts), NEW active, NEW confirmation,
         Open(ts, active, confirmation) \/ Again(ts, active, confirmation)
  PROVE  AllExclusive(timers') /\ IdleOutside(timers', active)
  BY SetPromptLeavesIdle DEF Open, Again

\* After a rollback only the players of the rebuilt prompt may be timed.
LEMMA RebuildingLeavesIdle ==
  ASSUME NEW ts, AllSound(ts), AllExclusive(ts), NoneDue(ts), NEW next, Rebuild(ts, next)
  PROVE  IdleInv'
<1> DEFINE us == SetPrompt(ts, next.active, activeBefore, TRUE, FALSE)
<1>1. AllSound(us) /\ AllExclusive(us) /\ NoneDue(us)
  BY SetPromptLeavesIdle
<1>2. /\ timers' = SetPrompt(us, next.active, next.active, FALSE, FALSE)
      /\ prompt' = next /\ requests' = <<>>
  BY DEF Rebuild
<1>3. AllExclusive(timers') /\ IdleOutside(timers', next.active)
  BY <1>1, <1>2, SetPromptLeavesIdle
<1>4. Prompted' = next.active
  BY <1>2 DEF Prompted, PromptedUnder
<1> QED BY <1>3, <1>4 DEF IdleInv, AllExclusive, IdleOutside

\* At the start only the player who is asked first is timed.
LEMMA FirstStateIsIdle == TimedInit => IdleInv
<1> SUFFICES ASSUME TimedInit PROVE IdleInv
  OBVIOUS
<1> DEFINE fresh == [q \in Players |-> NewTimer]
<1>1. PICK p \in Players : /\ prompt = Initiative(p)
                           /\ timers = SetPrompt(fresh, {p}, {}, TRUE, FALSE)
                           /\ requests = <<>>
  BY DEF TimedInit
<1>2. AllSound(fresh)
  BY NewTimerIsSound DEF AllSound, Sound
<1>3. Exclusive(NewTimer) /\ ~Due(NewTimer)
  BY ByoyomiAssumption DEF NewTimer, Exclusive, Due, IsDue, Off, Paused, Started, IsRunning
<1>4. AllExclusive(fresh) /\ NoneDue(fresh)
  BY <1>3 DEF AllExclusive, NoneDue
<1>5. AllExclusive(timers) /\ IdleOutside(timers, {p})
  BY <1>1, <1>2, <1>4, SetPromptLeavesIdle
<1>6. Prompted = {p}
  BY <1>1 DEF Prompted, PromptedUnder, Initiative
<1> QED BY <1>5, <1>6 DEF IdleInv

\* When messages wait for the timers that are due, every step leaves the players
\* who are not prompted with timers that do not count.
LEMMA StepLeavesIdle ==
  ASSUME Punctual, TimerTypeOK, IdleInv, [TimedNext]_timedVars
  PROVE  IdleInv'
<1>1. AllSound(timers) /\ AllExclusive(timers) /\ IdleOutside(timers, Prompted)
  BY DEF TimerTypeOK, AllSound, Sound, IdleInv
<1>2. Handled => NoneDue(timers)
  BY DEF Handled, SomeoneIsDue, NoneDue
<1>3. ASSUME UNCHANGED <<prompt, requests>>,
             AllExclusive(timers'), IdleOutside(timers', Prompted)
      PROVE  IdleInv'
  BY <1>3 DEF IdleInv, AllExclusive, IdleOutside, Prompted, PromptedUnder
<1>4. CASE Tick
  <2>1. timers' = [p \in Players |-> Elapsed(timers[p])] /\ UNCHANGED <<prompt, requests>>
    BY <1>4 DEF Tick
  <2>2. ASSUME NEW p \in Players
        PROVE  /\ timers'[p].turn.mode = timers[p].turn.mode
               /\ timers'[p].main.mode = timers[p].main.mode
               /\ timers'[p].onMain = timers[p].onMain
    <3>1. timers[p] \in Timer /\ timers'[p] = Elapsed(timers[p])
      BY <1>1, <2>1 DEF AllSound
    <3>2. timers[p].turn \in SimpleTimer /\ timers[p].main \in SimpleTimer
      BY <3>1 DEF Timer
    <3> QED BY <3>1, <3>2, TickedTimer DEF Elapsed, Timer
  <2> QED BY <1>1, <1>3, <2>1, <2>2 DEF AllExclusive, IdleOutside, Exclusive, Idle
<1>5. ASSUME NEW p \in Players, TurnExpires(p)
      PROVE  IdleInv'
  <2>1. /\ timers' = [timers EXCEPT ![p] = TurnExpired(timers[p])]
        /\ timers[p].turn.mode = "counting" /\ UNCHANGED <<prompt, requests>>
    BY <1>5 DEF TurnExpires, IsDue
  <2>2. p \in Prompted
    BY <1>1, <2>1 DEF IdleOutside, Idle
  <2>3. Exclusive(TurnExpired(timers[p]))
    BY <1>1 DEF AllSound, Timer, SimpleTimer, TurnExpired, Fired, Resumed, Exclusive
  <2>4. \A q \in Players : timers'[q] = IF q = p THEN TurnExpired(timers[p]) ELSE timers[q]
    BY <1>1, <2>1 DEF AllSound
  <2> QED BY <1>1, <1>3, <2>1, <2>2, <2>3, <2>4 DEF AllExclusive, IdleOutside
<1>6. ASSUME NEW p \in Players, MainExpires(p)
      PROVE  IdleInv'
  <2> DEFINE fired == [timers EXCEPT ![p] = [timers[p] EXCEPT !.main = Fired(@)]]
  <2>1. Sound([timers[p] EXCEPT !.main = Fired(@)])
    BY <1>1, OperationsAreSound DEF AllSound
  <2>2. /\ Exclusive([timers[p] EXCEPT !.main = Fired(@)])
        /\ Idle(timers[p]) => Idle([timers[p] EXCEPT !.main = Fired(@)])
    BY <1>1 DEF AllSound, AllExclusive, Timer, SimpleTimer, Fired, Exclusive, Idle
  <2>3. AllSound(fired) /\ AllExclusive(fired) /\ IdleOutside(fired, Prompted)
    BY <1>1, <2>1, <2>2 DEF AllSound, AllExclusive, IdleOutside, Sound
  <2>4. fired = [timers EXCEPT ![p].main = Fired(@)]
    BY <1>1 DEF AllSound, Sound, Timer
  <2> HIDE DEF fired
  <2>5. timers' \in {fired, StoppedFor(fired, Players)} /\ UNCHANGED <<prompt, requests>>
    BY <1>6, <2>4 DEF MainExpires
  <2>6. AllExclusive(timers') /\ IdleOutside(timers', Prompted)
    BY <2>3, <2>5, StoppedForLeavesIdle
  <2> QED BY <1>3, <2>5, <2>6
<1>7. CASE Message
  BY <1>1, <1>2, <1>3, <1>7, ContinuingLeavesIdle DEF Message
<1>8. CASE DenyUndo
  <2>1. AllExclusive(timers') /\ IdleOutside(timers', PromptedUnder(requests'))
    BY <1>1, <1>2, <1>8, ContinuingLeavesIdle DEF DenyUndo
  <2>2. Prompted' = PromptedUnder(requests')
    BY <1>8 DEF DenyUndo, Prompted, PromptedUnder
  <2> QED BY <2>1, <2>2 DEF IdleInv, AllExclusive, IdleOutside
<1>9. ASSUME NEW p \in Players, AnswerInPart(p)
      PROVE  IdleInv'
  <2>1. AllExclusive(timers') /\ IdleOutside(timers', prompt'.active)
    BY <1>1, <1>2, <1>9, ContinuingLeavesIdle DEF AnswerInPart
  <2>2. Prompted' = prompt'.active
    BY <1>9 DEF AnswerInPart, Prompted, PromptedUnder
  <2> QED BY <2>1, <2>2 DEF IdleInv, AllExclusive, IdleOutside
<1>10. ASSUME NEW p \in Players, NEW next \in GamePrompts, NEW ends \in BOOLEAN,
              AnswerLast(p, next, ends)
       PROVE  IdleInv'
  <2> DEFINE completed == Completed(timers)
             ts == IF ends THEN StoppedFor(completed, Players) ELSE completed
             made == Made(ts, next)
  <2>1. NoneDue(timers)
    BY <1>2, <1>10 DEF AnswerLast
  <2>2. AllSound(completed) /\ AllExclusive(completed) /\ NoneDue(completed)
    BY <1>1, <2>1, StoppedForLeavesIdle DEF Completed
  <2>3. AllSound(ts) /\ AllExclusive(ts) /\ NoneDue(ts)
    BY <2>2, StoppedForLeavesIdle
  <2>4. AllSound(made) /\ AllExclusive(made) /\ NoneDue(made)
    BY <2>3, StoppedForLeavesIdle DEF Made
  <2>5. Open(made, next.active, FALSE) \/ Again(ts, next.active, FALSE)
    BY <1>10 DEF AnswerLast
  <2> HIDE DEF completed, ts, made
  <2>6. AllExclusive(timers') /\ IdleOutside(timers', next.active)
    BY <2>3, <2>4, <2>5, ContinuingLeavesIdle
  <2>7. Prompted' = next.active
    BY <1>10 DEF AnswerLast, Prompted, PromptedUnder
  <2> QED BY <2>6, <2>7 DEF IdleInv, AllExclusive, IdleOutside
<1>11. ASSUME NEW p \in Players, Concede(p)
       PROVE  IdleInv'
  <2>1. /\ AllSound(StoppedFor(timers, Players)) /\ AllExclusive(StoppedFor(timers, Players))
        /\ NoneDue(StoppedFor(timers, Players))
    BY <1>1, <1>2, <1>11, StoppedForLeavesIdle DEF Concede
  <2>2. AllExclusive(timers') /\ IdleOutside(timers', Prompted)
    BY <1>11, <2>1, ContinuingLeavesIdle DEF Concede
  <2> QED BY <1>3, <1>11, <2>2 DEF Concede
<1>12. ASSUME NEW p \in Players, RequestUndo(p)
       PROVE  IdleInv'
  <2>1. AllExclusive(timers') /\ IdleOutside(timers', {Opponent(p)})
    BY <1>1, <1>2, <1>12, ContinuingLeavesIdle DEF RequestUndo
  <2>2. requests \in Seq(Players) /\ requests' = Append(requests, p)
    BY <1>12 DEF TimerTypeOK, RequestUndo
  <2>3. requests' # <<>> /\ requests'[Len(requests')] = p
    BY <2>2
  <2>4. Prompted' = {Opponent(p)}
    BY <2>3 DEF Prompted, PromptedUnder
  <2> QED BY <2>1, <2>4 DEF IdleInv, AllExclusive, IdleOutside
<1>13. ASSUME NEW next \in GamePrompts, Undo(next)
       PROVE  IdleInv'
  <2>1. AllSound(Made(timers, next)) /\ AllExclusive(Made(timers, next)) /\ NoneDue(Made(timers, next))
    BY <1>1, <1>2, <1>13, StoppedForLeavesIdle DEF Undo, Made
  <2> QED BY <1>13, <2>1, RebuildingLeavesIdle DEF Undo
<1>14. ASSUME NEW p \in Players, NEW player \in Players, RecoverCost(p, player)
       PROVE  IdleInv'
  <2> DEFINE ts == [timers EXCEPT ![p] = Pause(timers[p])]
  <2>1. NoneDue(timers) /\ Rebuild(ts, Window(player))
    BY <1>2, <1>14 DEF RecoverCost
  <2>2. Sound(Pause(timers[p])) /\ Exclusive(Pause(timers[p])) /\ ~Due(Pause(timers[p]))
    BY <1>1, <2>1, OperationsAreSound, OperationsAreExclusive DEF AllSound, AllExclusive, NoneDue
  <2>3. AllSound(ts) /\ AllExclusive(ts) /\ NoneDue(ts)
    BY <1>1, <2>1, <2>2 DEF AllSound, AllExclusive, NoneDue, Sound
  <2> QED BY <2>1, <2>3, RebuildingLeavesIdle
<1>15. CASE UNCHANGED timedVars
  BY <1>1, <1>3, <1>15 DEF timedVars
<1> QED
  BY <1>4, <1>5, <1>6, <1>7, <1>8, <1>9, <1>10, <1>11, <1>12, <1>13, <1>14, <1>15
  DEF TimedNext, TimePasses

\* OnlyPromptedPlayersLose: as long as messages wait for the timers that are due,
\* nobody loses a game on time without being prompted, whatever the prompts are.
THEOREM PunctualTimersSpareTheIdle == Punctual => (TimedSpec => OnlyPromptedPlayersLose)
<1> SUFFICES ASSUME Punctual PROVE TimedSpec => OnlyPromptedPlayersLose
  OBVIOUS
<1>1. TimerTypeOK /\ IdleInv /\ [TimedNext]_timedVars => IdleInv'
  BY StepLeavesIdle
<1>2. IdleInv => \A p \in Players : MainFires(p) /\ ~Ended => p \in Prompted
  BY DEF IdleInv, IdleOutside, Idle, MainFires
<1>3. IdleInv => [\A p \in Players : MainFires(p) /\ ~Ended => p \in Prompted]_timedVars
  BY <1>2
<1> QED BY TimersAreTyped, FirstStateIsIdle, <1>1, <1>3, PTL DEF TimedSpec, OnlyPromptedPlayersLose

-----------------------------------------------------------------------------
(* Whoever is prompted is timed *)

\* A paused timer that has something to resume.
Parked(t) == t.paused /\ (IF t.onMain THEN t.main.mode ELSE t.turn.mode) = "paused"

NoneFired(ts) == \A p \in Players : ts[p].main.mode # "fired"

\* No timer counts while it is flagged as paused.
PausedAreStill(ts) == \A p \in Players : Running(ts[p]) => ~ts[p].paused

\* What a prompt needs of the timers in order to set them right.
Settable(ts) == /\ AllSound(ts) /\ AllExclusive(ts) /\ NoneDue(ts)
                /\ NoneFired(ts) /\ PausedAreStill(ts)

\* While the game goes on the main timers are left, whoever is prompted is timed, and
\* of the players who are not only one who asked for an undo may be flagged as paused:
\* with something to resume, if the prompt below is theirs.
ServedInv ==
  /\ Len(requests) <= 1
  /\ ~Ended =>
       /\ NoneFired(timers)
       /\ \A p \in Prompted : (Running(timers[p]) \/ Due(timers[p])) /\ ~timers[p].paused
       /\ \A p \in Players \ Prompted :
            IF requests = <<>> THEN ~timers[p].paused ELSE p \in prompt.active => Parked(timers[p])

\* A timer that has its main time counts once it is started, or resumed where it
\* has something to resume.
LEMMA OperationsServe ==
  ASSUME NEW t, Sound(t), Exclusive(t), ~Due(t), t.main.mode # "fired"
  PROVE  /\ ~StartOrResume(t).paused /\ ~Stop(t).paused
         /\ ~t.paused \/ Parked(t) => Running(StartOrResume(t))
         /\ Running(t) \/ Parked(t) => Parked(Pause(t))
         /\ Parked(t) => ~Running(t)
         /\ StartOrResume(t).main.mode # "fired" /\ Stop(t).main.mode # "fired"
         /\ Pause(t).main.mode # "fired"
<1> USE ByoyomiAssumption
    DEF Sound, Timer, SimpleTimer, TimerOK, IsRunning, Exclusive, Due, IsDue, Parked, Running
<1>1. ~StartOrResume(t).paused /\ ~Stop(t).paused
  BY DEF StartOrResume, Start, Resume, Stop
<1>2. ~t.paused \/ Parked(t) => Running(StartOrResume(t))
  BY DEF StartOrResume, Start, Resume, Started, Paused, Resumed
<1>3. Running(t) \/ Parked(t) => Parked(Pause(t))
  BY DEF Pause, Paused
<1>4. Parked(t) => ~Running(t)
  OBVIOUS
<1>5. StartOrResume(t).main.mode # "fired" /\ Stop(t).main.mode # "fired" /\ Pause(t).main.mode # "fired"
  BY DEF StartOrResume, Start, Resume, Started, Paused, Resumed, Stop, Pause
<1> QED BY <1>1, <1>2, <1>3, <1>4, <1>5

\* Setting a prompt times those it is put to. The others are not paused, unless the
\* prompt asks to confirm an undo: then a timer that ran has something to resume.
LEMMA SetPromptServes ==
  ASSUME NEW ts, Settable(ts), NEW active, NEW before, NEW first, NEW confirmation
  PROVE  LET us == SetPrompt(ts, active, before, first, confirmation)
         IN /\ AllSound(us) /\ AllExclusive(us) /\ NoneDue(us) /\ NoneFired(us)
            /\ \A p \in Players \cap active :
                 /\ ~us[p].paused
                 /\ ~ts[p].paused \/ Parked(ts[p]) => Running(us[p])
            /\ \A p \in Players \ active :
                 IF confirmation THEN Running(ts[p]) \/ Parked(ts[p]) => Parked(us[p])
                 ELSE ~us[p].paused
<1> DEFINE us == SetPrompt(ts, active, before, first, confirmation)
<1>1. \A p \in Players : /\ Sound(ts[p]) /\ Exclusive(ts[p]) /\ ~Due(ts[p])
                         /\ ts[p].main.mode # "fired" /\ (Running(ts[p]) => ~ts[p].paused)
  BY DEF Settable, AllSound, AllExclusive, NoneDue, NoneFired, PausedAreStill
<1>2. \A p \in Players \cap active :
        us[p] = StartOrResume(ts[p]) \/ (us[p] = ts[p] /\ Running(ts[p]))
  BY DEF SetPrompt
<1>3. \A p \in Players \ active : us[p] = IF confirmation THEN Pause(ts[p]) ELSE Stop(ts[p])
  BY DEF SetPrompt
<1> HIDE DEF us
<1>4. NoneFired(us)
  BY <1>1, <1>2, <1>3, OperationsServe DEF NoneFired
<1>5. \A p \in Players \cap active :
        /\ ~us[p].paused
        /\ ~ts[p].paused \/ Parked(ts[p]) => Running(us[p])
  BY <1>1, <1>2, OperationsServe
<1>6. \A p \in Players \ active :
        IF confirmation THEN Running(ts[p]) \/ Parked(ts[p]) => Parked(us[p])
        ELSE ~us[p].paused
  BY <1>1, <1>3, OperationsServe
<1>7. AllSound(us) /\ AllExclusive(us) /\ NoneDue(us)
  BY SetPromptLeavesIdle DEF Settable, us
<1> QED BY <1>4, <1>5, <1>6, <1>7 DEF us

\* Stopping timers leaves none paused that was not.
LEMMA StoppedForServes ==
  ASSUME NEW ts, Settable(ts), NEW players
  PROVE  LET us == StoppedFor(ts, players)
         IN Settable(us) /\ \A p \in Players : ~ts[p].paused => ~us[p].paused
<1> DEFINE us == StoppedFor(ts, players)
<1>1. \A p \in Players : us[p] = ts[p] \/ (us[p] = Stop(ts[p]) /\ ~us[p].paused)
  BY DEF Settable, StoppedFor, Stop, AllSound, Sound, Timer
<1>2. \A p \in Players : Sound(ts[p]) /\ Exclusive(ts[p]) /\ ~Due(ts[p]) /\ ts[p].main.mode # "fired"
  BY DEF Settable, AllSound, AllExclusive, NoneDue, NoneFired
<1>3. AllSound(us) /\ AllExclusive(us) /\ NoneDue(us)
  BY StoppedForLeavesIdle DEF Settable
<1> HIDE DEF us
<1>4. NoneFired(us)
  BY <1>1, <1>2, OperationsServe DEF NoneFired
<1>5. PausedAreStill(us) /\ \A p \in Players : ~ts[p].paused => ~us[p].paused
  BY <1>1 DEF Settable, PausedAreStill
<1> QED BY <1>3, <1>4, <1>5 DEF Settable, us

\* A rollback sets the prompt twice, so that a pause with nothing to resume is over
\* after the first time and the timer starts the second.
LEMMA RebuildingServes ==
  ASSUME NEW ts, Settable(ts), NEW next \in GamePrompts, Rebuild(ts, next), ~UndoPastEnd,
         TimerTypeOK
  PROVE  ServedInv'
<1> DEFINE us == SetPrompt(ts, next.active, activeBefore, TRUE, FALSE)
<1>1. /\ AllSound(us) /\ AllExclusive(us) /\ NoneDue(us) /\ NoneFired(us)
      /\ \A p \in Players : ~us[p].paused
  BY SetPromptServes
<1>2. Settable(us)
  BY <1>1 DEF Settable, PausedAreStill
<1>3. /\ timers' = SetPrompt(us, next.active, next.active, FALSE, FALSE)
      /\ prompt' = next /\ requests' = <<>>
  BY DEF Rebuild
<1> HIDE DEF us
<1>4. /\ NoneFired(timers')
      /\ \A p \in Players \cap next.active : ~timers'[p].paused /\ Running(timers'[p])
      /\ \A p \in Players \ next.active : ~timers'[p].paused
  BY <1>1, <1>2, <1>3, SetPromptServes
<1>5. Prompted' = next.active /\ next.active \subseteq Players
  BY <1>3 DEF Prompted, PromptedUnder, GamePrompts, Window, Menu, AllPlayers
<1>6. Len(requests') <= 1
  BY <1>3
<1> QED BY <1>3, <1>4, <1>5, <1>6 DEF ServedInv, NoneFired

LEMMA ContinuingServes ==
  ASSUME NEW ts, Settable(ts), NEW active, NEW confirmation,
         Open(ts, active, confirmation) \/ Again(ts, active, confirmation)
  PROVE  /\ NoneFired(timers')
         /\ \A p \in Players \cap active :
              /\ ~timers'[p].paused
              /\ ~ts[p].paused \/ Parked(ts[p]) => Running(timers'[p])
         /\ \A p \in Players \ active :
              IF confirmation THEN Running(ts[p]) \/ Parked(ts[p]) => Parked(timers'[p])
              ELSE ~timers'[p].paused
  BY SetPromptServes DEF Open, Again

\* Asked one after the other, one of the two players is timed from the start.
LEMMA FirstStateServes == TimedInit => ServedInv
<1> SUFFICES ASSUME TimedInit PROVE ServedInv
  OBVIOUS
<1> DEFINE fresh == [q \in Players |-> NewTimer]
<1>1. PICK p \in Players : /\ prompt = Initiative(p)
                           /\ timers = SetPrompt(fresh, {p}, {}, TRUE, FALSE)
                           /\ requests = <<>>
  BY DEF TimedInit
<1>2. AllSound(fresh)
  BY NewTimerIsSound DEF AllSound, Sound
<1>3. /\ Exclusive(NewTimer) /\ ~Due(NewTimer) /\ ~NewTimer.paused /\ NewTimer.main.mode # "fired"
      /\ ~Running(NewTimer)
  BY ByoyomiAssumption DEF NewTimer, Exclusive, Due, IsDue, Off, Paused, Started, IsRunning, Running
<1>4. Settable(fresh) /\ \A q \in Players : ~fresh[q].paused
  BY <1>2, <1>3 DEF Settable, AllExclusive, NoneDue, NoneFired, PausedAreStill
<1> HIDE DEF fresh
<1>5. /\ NoneFired(timers)
      /\ ~timers[p].paused /\ Running(timers[p])
      /\ \A q \in Players \ {p} : ~timers[q].paused
  BY <1>1, <1>4, SetPromptServes
<1>6. Prompted = {p} /\ Len(requests) <= 1
  BY <1>1 DEF Prompted, PromptedUnder, Initiative
<1>7. \A q \in Prompted : (Running(timers[q]) \/ Due(timers[q])) /\ ~timers[q].paused
  BY <1>5, <1>6
<1>8. \A q \in Players \ Prompted : ~timers[q].paused
  BY <1>5, <1>6
<1> QED BY <1>1, <1>5, <1>6, <1>7, <1>8 DEF ServedInv

\* When messages wait for the timers that are due and nobody can be asked twice at
\* once, every step leaves whoever is prompted timed, until the game has ended.
LEMMA StepServes ==
  ASSUME Punctual, ~UndoPastEnd, MaxRequests <= 1,
         TimerTypeOK, TimerTypeOK', IdleInv, ServedInv, [TimedNext]_timedVars
  PROVE  ServedInv'
<1>1. /\ AllSound(timers) /\ AllExclusive(timers) /\ IdleOutside(timers, Prompted)
      /\ prompt.active \in SUBSET Players /\ requests \in Seq(Players) /\ requests' \in Seq(Players)
  BY DEF TimerTypeOK, AllSound, Sound, IdleInv
<1>2. ASSUME Handled, ~Ended
      PROVE  /\ Settable(timers)
             /\ \A p \in Prompted : Running(timers[p]) /\ ~timers[p].paused
  <2>1. NoneDue(timers)
    BY <1>2 DEF Handled, SomeoneIsDue, NoneDue
  <2>2. Prompted \subseteq Players
    BY <1>1, OpponentIsAPlayer DEF Prompted, PromptedUnder
  <2>3. \A p \in Prompted : Running(timers[p]) /\ ~timers[p].paused
    BY <1>2, <2>1, <2>2 DEF ServedInv, NoneDue
  <2>4. \A p \in Players \ Prompted : ~Running(timers[p])
    BY <1>1 DEF IdleOutside, Idle, Running, IsRunning
  <2>5. PausedAreStill(timers)
    BY <2>3, <2>4 DEF PausedAreStill
  <2> QED BY <1>1, <1>2, <2>1, <2>3, <2>5 DEF Settable, ServedInv
<1>3. Ended' /\ Len(requests') <= 1 => ServedInv'
  BY DEF ServedInv
<1>4. ASSUME UNCHANGED <<prompt, requests>>,
             ~Ended' => /\ NoneFired(timers')
                        /\ \A p \in Prompted : (Running(timers'[p]) \/ Due(timers'[p])) /\ ~timers'[p].paused
                        /\ \A p \in Players \ Prompted :
                             IF requests = <<>> THEN ~timers'[p].paused
                             ELSE p \in prompt.active => Parked(timers'[p])
      PROVE  ServedInv'
  BY <1>4 DEF ServedInv, NoneFired, Prompted, PromptedUnder
<1>5. CASE Tick
  <2>1. /\ timers' = [p \in Players |-> Elapsed(timers[p])]
        /\ UNCHANGED <<prompt, requests, winners>>
    BY <1>5 DEF Tick
  <2>2. ASSUME NEW p \in Players
        PROVE  /\ timers'[p].main.mode = timers[p].main.mode
               /\ timers'[p].paused = timers[p].paused
               /\ Parked(timers[p]) => Parked(timers'[p])
               /\ Running(timers[p]) => Running(timers'[p]) \/ Due(timers'[p])
    <3>1. timers[p] \in Timer /\ timers'[p] = Elapsed(timers[p]) /\ ~Due(timers[p])
      BY <1>1, <1>5, <2>1 DEF AllSound, Tick, SomeoneIsDue
    <3>2. timers[p].turn \in SimpleTimer /\ timers[p].main \in SimpleTimer
      BY <3>1 DEF Timer
    <3>3. /\ timers'[p].turn = Ticked(timers[p].turn) /\ timers'[p].main = Ticked(timers[p].main)
          /\ timers'[p].paused = timers[p].paused /\ timers'[p].onMain = timers[p].onMain
      BY <3>1 DEF Elapsed, Timer
    <3>4. \A s \in SimpleTimer : /\ Ticked(s).mode = s.mode
                                 /\ IsRunning(s) => IsRunning(Ticked(s)) \/ IsDue(Ticked(s))
      BY DEF Ticked, SimpleTimer, IsRunning, IsDue
    <3> QED BY <3>2, <3>3, <3>4 DEF Parked, Running, Due
  <2>3. \A p \in Players : ~Due(timers[p])
    BY <1>5 DEF Tick, SomeoneIsDue
  <2>4. Prompted \subseteq Players /\ Ended' = Ended
    BY <1>1, <2>1, OpponentIsAPlayer DEF Prompted, PromptedUnder, Ended
  <2>5. ~Ended => /\ NoneFired(timers')
                  /\ \A p \in Prompted : (Running(timers'[p]) \/ Due(timers'[p])) /\ ~timers'[p].paused
                  /\ \A p \in Players \ Prompted :
                       IF requests = <<>> THEN ~timers'[p].paused
                       ELSE p \in prompt.active => Parked(timers'[p])
    BY <2>2, <2>3, <2>4 DEF ServedInv, NoneFired
  <2> QED BY <1>4, <2>1, <2>4, <2>5
<1>6. ASSUME NEW p \in Players, TurnExpires(p)
      PROVE  ServedInv'
  <2>1. /\ timers' = [timers EXCEPT ![p] = TurnExpired(timers[p])]
        /\ IsDue(timers[p].turn) /\ UNCHANGED <<prompt, requests, winners>>
    BY <1>6 DEF TurnExpires
  <2>2. p \in Prompted
    BY <1>1, <2>1 DEF IdleOutside, Idle, IsDue
  <2>3. timers[p].main.mode # "fired" /\ ~timers[p].paused =>
          /\ Running(TurnExpired(timers[p])) /\ ~TurnExpired(timers[p]).paused
          /\ TurnExpired(timers[p]).main.mode # "fired"
    BY <1>1, <2>1 DEF AllSound, AllExclusive, Exclusive, Sound, Timer, SimpleTimer, TimerOK,
                      TurnExpired, Fired, Resumed, Running, IsRunning, IsDue
  <2>4. \A q \in Players : timers'[q] = IF q = p THEN TurnExpired(timers[p]) ELSE timers[q]
    BY <1>1, <2>1 DEF AllSound
  <2>5. Prompted \subseteq Players /\ Ended' = Ended
    BY <1>1, <2>1, OpponentIsAPlayer DEF Prompted, PromptedUnder, Ended
  <2>6. ~Ended => /\ NoneFired(timers')
                  /\ \A q \in Prompted : (Running(timers'[q]) \/ Due(timers'[q])) /\ ~timers'[q].paused
                  /\ \A q \in Players \ Prompted :
                       IF requests = <<>> THEN ~timers'[q].paused
                       ELSE q \in prompt.active => Parked(timers'[q])
    BY <2>2, <2>3, <2>4, <2>5 DEF ServedInv, NoneFired
  <2> QED BY <1>4, <2>1, <2>5, <2>6
<1>7. ASSUME NEW p \in Players, MainExpires(p)
      PROVE  ServedInv'
  <2>1. Ended' /\ Len(requests') <= 1
    BY <1>7 DEF MainExpires, Ended, WinnersByTimeout, ServedInv
  <2> QED BY <2>1 DEF ServedInv
<1>8. CASE Message
  <2>1. Handled /\ Again(timers, Prompted, requests # <<>>) /\ UNCHANGED <<prompt, requests, winners>>
    BY <1>8 DEF Message
  <2>2. CASE Ended
    BY <1>3, <2>1, <2>2 DEF Ended, ServedInv
  <2>3. CASE ~Ended
    <3>1. Settable(timers) /\ \A p \in Prompted : ~timers[p].paused
      BY <1>2, <2>1, <2>3
    <3>2. /\ NoneFired(timers')
          /\ \A p \in Players \cap Prompted : ~timers'[p].paused /\ Running(timers'[p])
          /\ \A p \in Players \ Prompted :
               IF requests # <<>> THEN Parked(timers[p]) => Parked(timers'[p]) ELSE ~timers'[p].paused
      BY <2>1, <3>1, ContinuingServes
    <3>3. Prompted \subseteq Players
      BY <1>1, OpponentIsAPlayer DEF Prompted, PromptedUnder
    <3>4. \A p \in Players \ Prompted : requests # <<>> /\ p \in prompt.active => Parked(timers[p])
      BY <2>3 DEF ServedInv
    <3> QED BY <1>4, <2>1, <3>2, <3>3, <3>4
  <2> QED BY <2>2, <2>3
<1>9. CASE DenyUndo
  <2>1. /\ Handled /\ requests # <<>> /\ requests' = SubSeq(requests, 1, Len(requests) - 1)
        /\ UNCHANGED <<prompt, winners>>
    BY <1>9 DEF DenyUndo
  <2>2. requests' = <<>> /\ Len(requests') <= 1
    <3>1. Len(requests) = 1
      <4>1. Len(requests) \in Nat /\ Len(requests) <= 1
        BY <1>1, LenProperties DEF ServedInv
      <4>2. Len(requests) # 0
        BY <1>1, <2>1, EmptySeq
      <4>3. \A n \in Nat : n <= 1 /\ n # 0 => n = 1
        OBVIOUS
      <4> QED BY <4>1, <4>2, <4>3
    <3>2. SubSeq(requests, 1, 0) = <<>>
      BY <1>1
    <3> QED BY <2>1, <3>1, <3>2
  <2>3. CASE Ended
    BY <1>3, <2>1, <2>2, <2>3 DEF Ended
  <2>4. CASE ~Ended
    <3>1. Settable(timers) /\ \A p \in Prompted : ~timers[p].paused
      BY <1>2, <2>1, <2>4
    <3>2. Again(timers, prompt.active, FALSE)
      BY <1>9, <2>2 DEF DenyUndo, PromptedUnder
    <3>3. \A p \in prompt.active : ~timers[p].paused \/ Parked(timers[p])
      BY <1>1, <2>1, <2>4, <3>1 DEF ServedInv
    <3>4. /\ NoneFired(timers')
          /\ \A p \in prompt.active : ~timers'[p].paused /\ Running(timers'[p])
          /\ \A p \in Players \ prompt.active : ~timers'[p].paused
      BY <1>1, <3>1, <3>2, <3>3, ContinuingServes
    <3>5. Prompted' = prompt.active
      BY <2>1, <2>2 DEF Prompted, PromptedUnder
    <3> QED BY <2>2, <3>4, <3>5 DEF ServedInv, NoneFired
  <2> QED BY <2>3, <2>4
<1>10. ASSUME NEW ts, NEW next \in SUBSET Players, Handled, ~Ended, requests = <<>>, UNCHANGED requests,
              Settable(ts), \A p \in Players : ~ts[p].paused,
              Open(ts, next, FALSE) \/ Again(ts, next, FALSE), prompt'.active = next
       PROVE  ServedInv'
  <2>1. /\ NoneFired(timers')
        /\ \A p \in next : ~timers'[p].paused /\ Running(timers'[p])
        /\ \A p \in Players \ next : ~timers'[p].paused
    BY <1>10, ContinuingServes
  <2>2. Prompted' = next /\ Len(requests') <= 1
    BY <1>10 DEF Prompted, PromptedUnder, ServedInv
  <2> QED BY <1>10, <2>1, <2>2 DEF ServedInv, NoneFired
<1>11. ASSUME Handled, ~Ended, requests = <<>>
       PROVE  /\ \A p \in Players : ~timers[p].paused
              /\ \A p \in prompt.active : Running(timers[p])
  BY <1>2, <1>11 DEF ServedInv, Prompted, PromptedUnder
<1>12. ASSUME NEW p \in Players, AnswerInPart(p)
       PROVE  ServedInv'
  <2>1. /\ Handled /\ requests = <<>> /\ UNCHANGED <<requests, winners>>
        /\ Again(timers, prompt'.active, FALSE)
    BY <1>12 DEF AnswerInPart
  <2>2. prompt'.active \in SUBSET Players
    BY DEF TimerTypeOK
  <2>3. CASE Ended
    BY <1>3, <2>1, <2>3 DEF Ended, ServedInv
  <2>4. CASE ~Ended
    BY <1>2, <1>10, <1>11, <2>1, <2>2, <2>4
  <2> QED BY <2>3, <2>4
<1>13. ASSUME NEW p \in Players, NEW next \in GamePrompts, NEW ends \in BOOLEAN,
              AnswerLast(p, next, ends)
       PROVE  ServedInv'
  <2> DEFINE completed == Completed(timers)
             made == Made(completed, next)
  <2>1. /\ Handled /\ requests = <<>> /\ UNCHANGED requests /\ prompt' = next
        /\ IF ends THEN winners' # {} ELSE UNCHANGED winners
    BY <1>13 DEF AnswerLast
  <2>2. CASE Ended'
    BY <1>3, <2>1, <2>2 DEF ServedInv
  <2>3. CASE ~Ended'
    <3>1. ~ends /\ ~Ended
      BY <2>1, <2>3 DEF Ended
    <3>2. Settable(timers) /\ \A q \in Players : ~timers[q].paused
      BY <1>2, <1>11, <2>1, <3>1
    <3>3. Settable(completed) /\ \A q \in Players : ~completed[q].paused
      BY <3>2, StoppedForServes DEF Completed
    <3>4. Settable(made) /\ \A q \in Players : ~made[q].paused
      BY <3>3, StoppedForServes DEF Made
    <3>5. Open(made, next.active, FALSE) \/ Again(completed, next.active, FALSE)
      BY <1>13, <3>1 DEF AnswerLast
    <3>6. next.active \in SUBSET Players
      BY DEF GamePrompts, Window, Menu, AllPlayers
    <3> HIDE DEF completed, made
    <3>7. CASE Open(made, next.active, FALSE)
      BY <1>10, <2>1, <3>1, <3>4, <3>6, <3>7
    <3>8. CASE Again(completed, next.active, FALSE)
      BY <1>10, <2>1, <3>1, <3>3, <3>6, <3>8
    <3> QED BY <3>5, <3>7, <3>8
  <2> QED BY <2>2, <2>3
<1>14. ASSUME NEW p \in Players, Concede(p)
       PROVE  ServedInv'
  BY <1>3, <1>14 DEF Concede, Ended, ServedInv
<1>15. ASSUME NEW p \in Players, RequestUndo(p)
       PROVE  ServedInv'
  <2>1. /\ Handled /\ Len(requests) < MaxRequests /\ requests' = Append(requests, p)
        /\ Open(timers, {Opponent(p)}, TRUE) /\ UNCHANGED <<prompt, winners>>
    BY <1>15 DEF RequestUndo
  <2>2. requests = <<>> /\ Len(requests') = 1 /\ requests' # <<>> /\ requests'[Len(requests')] = p
    <3>1. Len(requests) = 0
      BY <1>1, <2>1, TimedAssumption
    <3>2. requests = <<>>
      BY <1>1, <3>1, EmptySeq
    <3> QED BY <1>1, <2>1, <3>1, <3>2
  <2>3. CASE Ended
    BY <1>3, <2>1, <2>2, <2>3 DEF Ended
  <2>4. CASE ~Ended
    <3>1. /\ Settable(timers) /\ \A q \in Players : ~timers[q].paused
          /\ \A q \in prompt.active : Running(timers[q])
      BY <1>2, <1>11, <2>1, <2>2, <2>4
    <3>2. /\ NoneFired(timers')
          /\ \A q \in {Opponent(p)} : ~timers'[q].paused /\ Running(timers'[q])
          /\ \A q \in Players \ {Opponent(p)} : Running(timers[q]) => Parked(timers'[q])
      BY <2>1, <3>1, OpponentIsAPlayer, ContinuingServes
    <3>3. Prompted' = {Opponent(p)}
      BY <2>2 DEF Prompted, PromptedUnder
    <3> QED BY <2>1, <2>2, <3>1, <3>2, <3>3 DEF ServedInv, NoneFired
  <2> QED BY <2>3, <2>4
<1>16. ASSUME NEW ts, NEW next \in GamePrompts, Rebuild(ts, next), Ended \/ Settable(ts)
       PROVE  ServedInv'
  <2>1. CASE Ended
    BY <1>3, <1>16, <2>1 DEF Rebuild, Ended
  <2>2. CASE Settable(ts)
    BY <1>16, <2>2, RebuildingServes
  <2> QED BY <1>16, <2>1, <2>2
<1>17. ASSUME NEW next \in GamePrompts, Undo(next)
       PROVE  ServedInv'
  <2>1. Handled /\ Rebuild(Made(timers, next), next)
    BY <1>17 DEF Undo
  <2>2. ~Ended => Settable(Made(timers, next))
    BY <1>2, <2>1, StoppedForServes DEF Made
  <2> QED BY <1>16, <2>1, <2>2
<1>18. ASSUME NEW p \in Players, NEW player \in Players, RecoverCost(p, player)
       PROVE  ServedInv'
  <2> DEFINE ts == [timers EXCEPT ![p] = Pause(timers[p])]
  <2>1. /\ Handled /\ requests = <<>> /\ prompt = Menu(p) /\ Rebuild(ts, Window(player))
        /\ Window(player) \in GamePrompts
    BY <1>18 DEF RecoverCost, GamePrompts
  <2>2. ~Ended => Settable(ts)
    <3> SUFFICES ASSUME ~Ended PROVE Settable(ts)
      OBVIOUS
    <3>1. Settable(timers) /\ Running(timers[p])
      BY <1>2, <1>11, <2>1 DEF Menu
    <3>2. Sound(timers[p]) /\ Exclusive(timers[p]) /\ ~Due(timers[p]) /\ timers[p].main.mode # "fired"
      BY <3>1 DEF Settable, AllSound, AllExclusive, NoneDue, NoneFired
    <3>3. /\ Sound(Pause(timers[p])) /\ Exclusive(Pause(timers[p])) /\ ~Due(Pause(timers[p]))
          /\ Idle(Pause(timers[p])) /\ Pause(timers[p]).main.mode # "fired"
      BY <3>2, OperationsAreSound, OperationsAreExclusive, OperationsServe
    <3>4. ~Running(Pause(timers[p]))
      BY <3>3 DEF Idle, Running, IsRunning
    <3> QED BY <3>1, <3>3, <3>4
            DEF Settable, AllSound, AllExclusive, NoneDue, NoneFired, PausedAreStill, Sound
  <2> QED BY <1>16, <2>1, <2>2
<1>19. CASE UNCHANGED timedVars
  BY <1>19 DEF timedVars, ServedInv, NoneFired, Prompted, PromptedUnder, Ended
<1> QED
  BY <1>5, <1>6, <1>7, <1>8, <1>9, <1>12, <1>13, <1>14, <1>15, <1>17, <1>18, <1>19
  DEF TimedNext, TimePasses

\* PromptedPlayersAreTimed: as long as messages wait for the timers that are due, one
\* request is open at a time and no undo leads back behind the end of a game, no order
\* of prompts, requests, denials, rollbacks and recoveries leaves a player who is
\* prompted without a timer (UiPrompt.setPrompt).
THEOREM PunctualTimersReachThePrompted ==
  Punctual /\ ~UndoPastEnd /\ MaxRequests <= 1 => (TimedSpec => []PromptedPlayersAreTimed)
<1> SUFFICES ASSUME Punctual, ~UndoPastEnd, MaxRequests <= 1
             PROVE  TimedSpec => []PromptedPlayersAreTimed
  OBVIOUS
<1>1. TimerTypeOK /\ IdleInv /\ [TimedNext]_timedVars => IdleInv'
  BY StepLeavesIdle
<1>2. TimerTypeOK /\ TimerTypeOK' /\ IdleInv /\ ServedInv /\ [TimedNext]_timedVars => ServedInv'
  BY StepServes
<1>3. ServedInv => PromptedPlayersAreTimed
  BY DEF ServedInv, PromptedPlayersAreTimed
<1> QED BY TimersAreTyped, FirstStateIsIdle, FirstStateServes, <1>1, <1>2, <1>3, PTL DEF TimedSpec

-----------------------------------------------------------------------------
(* What a refused request costs *)

\* Whoever a prompt was last set for is still prompted.
LastPrompted == activeBefore = Prompted

LEMMA FirstIsLastPrompted == TimedInit => LastPrompted
BY DEF TimedInit, Initiative, LastPrompted, Prompted, PromptedUnder

\* Every step that changes the prompts sets them for those they are put to.
LEMMA StepKeepsLastPrompted ==
  ASSUME TimerTypeOK, LastPrompted, [TimedNext]_timedVars
  PROVE  LastPrompted'
<1>1. CASE TimePasses \/ UNCHANGED timedVars
  BY <1>1 DEF TimePasses, Tick, TurnExpires, MainExpires, timedVars, LastPrompted, Prompted, PromptedUnder
<1>2. CASE Message \/ \E p \in Players : Concede(p)
  BY <1>2 DEF Message, Concede, Again, LastPrompted, Prompted, PromptedUnder
<1>3. ASSUME NEW p \in Players, AnswerInPart(p) PROVE LastPrompted'
  BY <1>3 DEF AnswerInPart, Again, LastPrompted, Prompted, PromptedUnder
<1>4. ASSUME NEW p, NEW next, NEW ends, AnswerLast(p, next, ends) PROVE LastPrompted'
  BY <1>4 DEF AnswerLast, Open, Again, LastPrompted, Prompted, PromptedUnder
<1>5. ASSUME NEW ts, NEW next, Rebuild(ts, next) PROVE LastPrompted'
  BY <1>5 DEF Rebuild, LastPrompted, Prompted, PromptedUnder
<1>6. ASSUME NEW p \in Players, RequestUndo(p) PROVE LastPrompted'
  <2>1. requests \in Seq(Players) /\ requests' = Append(requests, p) /\ activeBefore' = {Opponent(p)}
    BY <1>6 DEF RequestUndo, Open, TimerTypeOK
  <2>2. requests' # <<>> /\ requests'[Len(requests')] = p
    BY <2>1
  <2> QED BY <2>1, <2>2 DEF LastPrompted, Prompted, PromptedUnder
<1>7. CASE DenyUndo
  BY <1>7 DEF DenyUndo, Again, LastPrompted, Prompted, PromptedUnder
<1> QED
  BY <1>1, <1>2, <1>3, <1>4, <1>5, <1>6, <1>7 DEF TimedNext, Undo, RecoverCost

\* To pause and to resume leaves the turn the time it had.
LEMMA PausingKeepsTime ==
  ASSUME NEW t, Sound(t)
  PROVE  /\ Pause(t).turn.left = t.turn.left
         /\ t.paused => StartOrResume(t).turn.left = t.turn.left
BY DEF Sound, Timer, SimpleTimer, Pause, Paused, StartOrResume, Resume, Resumed

\* RefusedUndoGivesNoTime: where handlers are on time and one request is open at once,
\* asking for an undo and being refused one starts no timer afresh of those the prompt
\* below has put under time (UiPrompt.setPrompt, UndoConfirmationPrompt).
THEOREM RefusalsGiveNoTime ==
  Punctual /\ ~UndoPastEnd /\ MaxRequests <= 1 => (TimedSpec => RefusedUndoGivesNoTime)
<1> SUFFICES ASSUME Punctual, ~UndoPastEnd, MaxRequests <= 1
             PROVE  TimedSpec => RefusedUndoGivesNoTime
  OBVIOUS
<1>1. TimerTypeOK /\ IdleInv /\ [TimedNext]_timedVars => IdleInv'
  BY StepLeavesIdle
<1>2. TimerTypeOK /\ TimerTypeOK' /\ IdleInv /\ ServedInv /\ [TimedNext]_timedVars => ServedInv'
  BY StepServes
<1>3. TimerTypeOK /\ LastPrompted /\ [TimedNext]_timedVars => LastPrompted'
  BY StepKeepsLastPrompted
<1>4. TimerTypeOK /\ ServedInv /\ LastPrompted /\ [TimedNext]_timedVars =>
        [~Ended /\ ((\E p \in Players : RequestUndo(p)) \/ DenyUndo) =>
           \A p \in prompt.active : timers'[p].turn.left <= timers[p].turn.left]_timedVars
  <2> SUFFICES ASSUME TimerTypeOK, ServedInv, LastPrompted, ~Ended,
                      (\E p \in Players : RequestUndo(p)) \/ DenyUndo,
                      NEW q \in prompt.active
               PROVE  timers'[q].turn.left <= timers[q].turn.left
    OBVIOUS
  <2>0. requests \in Seq(Players) /\ Len(requests) \in Nat /\ Len(requests) <= 1
    BY DEF TimerTypeOK, ServedInv
  <2>1. /\ requests \in Seq(Players)
        /\ q \in Players /\ Sound(timers[q]) /\ timers[q].turn.left \in Nat
    BY TypeIsSound DEF TypeAsSound, AllSound, TimerTypeOK, ServedInv, Sound, Timer, SimpleTimer
  <2>2. \A p \in Prompted : Running(timers[p])
    <3>1. \A p \in Prompted : p \in Players => ~Due(timers[p])
      BY DEF RequestUndo, DenyUndo, Handled, SomeoneIsDue
    <3>2. Prompted \subseteq Players
      BY <2>1, OpponentIsAPlayer DEF Prompted, PromptedUnder, TimerTypeOK
    <3> QED BY <3>1, <3>2 DEF ServedInv
  <2>3. ASSUME NEW p \in Players, RequestUndo(p)
        PROVE  timers'[q].turn.left <= timers[q].turn.left
    <3>1. Len(requests) = 0 /\ timers' = SetPrompt(timers, {Opponent(p)}, activeBefore, TRUE, TRUE)
      BY <2>0, <2>3, TimedAssumption DEF RequestUndo, Open
    <3>2. requests = <<>>
      BY <2>1, <3>1, EmptySeq
    <3>3. q \in Prompted /\ q \in activeBefore /\ Running(timers[q])
      BY <2>2, <3>2 DEF Prompted, PromptedUnder, LastPrompted
    <3>4. timers'[q] = IF q = Opponent(p) THEN timers[q] ELSE Pause(timers[q])
      BY <2>1, <3>1, <3>3 DEF SetPrompt
    <3> QED BY <2>1, <3>4, PausingKeepsTime
  <2>4. CASE DenyUndo
    <3>1. /\ requests # <<>> /\ requests' = SubSeq(requests, 1, Len(requests) - 1)
          /\ timers' = SetPrompt(timers, PromptedUnder(requests'), activeBefore, FALSE, requests' # <<>>)
      BY <2>4 DEF DenyUndo, Again
    <3>2. Len(requests) = 1 /\ requests' = <<>>
      <4>1. Len(requests) = 1
        <5>1. Len(requests) # 0
          BY <2>0, <3>1, EmptySeq
        <5> DEFINE n == Len(requests)
        <5>2. n \in Nat /\ n <= 1 /\ n # 0
          BY <2>0, <5>1
        <5> HIDE DEF n
        <5>3. n = 1
          BY <5>2
        <5> QED BY <5>3 DEF n
      <4>2. \A s \in Seq(Players) : SubSeq(s, 1, 0) = <<>>
        OBVIOUS
      <4> QED BY <2>1, <3>1, <4>1, <4>2
    <3>3. timers'[q] = IF ~Running(timers[q]) THEN StartOrResume(timers[q]) ELSE timers[q]
      BY <2>1, <3>1, <3>2 DEF SetPrompt, PromptedUnder
    <3>4. ~Running(timers[q]) => timers[q].paused
      BY <2>1, <2>2, <3>1 DEF ServedInv, Parked
    <3> QED BY <2>1, <3>3, <3>4, PausingKeepsTime
  <2> QED BY <2>3, <2>4
<1> QED
  BY TimersAreTyped, FirstStateIsIdle, FirstStateServes, FirstIsLastPrompted, <1>1, <1>2, <1>3, <1>4, PTL
  DEF TimedSpec, RefusedUndoGivesNoTime
=============================================================================
