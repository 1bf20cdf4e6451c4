---------------------------- MODULE MCRoundFlow ----------------------------
(***************************************************************************)
(* RoundFlow with a record of what each player did last in the action      *)
(* phase, which the engine itself does not keep: the rules of the game     *)
(* that its flags implement speak of that.  A card played undoes the pass  *)
(* before it.                                                              *)
(***************************************************************************)
EXTENDS RoundFlow, TLC

CONSTANTS p1, p2

VARIABLES
  lastChoice,      \* per player: "none", "pass", "claim", "card", or "bonus", a card giving an action
  lastActor        \* who acted last in this action phase

MCPlayers == {p1, p2}
EveryFormat == {{"initiative"}, {"initiative", "plan", "blast"}}
EveryStep == {"startOfAction", "action", "endOfAction",
              "startOfRegroup", "drawTwo", "readyAllCards", "endOfRegroup"}

mcVars == <<roundVars, lastChoice, lastActor>>

Made(p, choice) ==
  /\ lastActor' = p
  /\ lastChoice' = [q \in Players |->
                      IF q = p THEN choice
                      ELSE IF choice \in {"card", "bonus"} /\ lastChoice[q] = "pass" THEN "none"
                      ELSE lastChoice[q]]

MCInit == /\ RoundInit
          /\ lastChoice = [p \in Players |-> "none"]
          /\ lastActor = NoPlayer

\* The rounds of the model are over: the game goes on, the model does not.
LastRoundOver == pc = "beginRound" /\ game.round = MaxRounds /\ asking = <<>> /\ UNCHANGED mcVars

MCNext ==
  \/ /\ Pipeline \/ Answer
     /\ IF pc = "setupActionPhase"
        THEN lastChoice' = [p \in Players |-> "none"] /\ lastActor' = NoPlayer
        ELSE UNCHANGED <<lastChoice, lastActor>>
  \/ \E p \in Players :
       \/ /\ Mulligan(p) \/ SetupResource(p) \/ RegroupResource(p)
          /\ UNCHANGED <<lastChoice, lastActor>>
       \/ Pass(p) /\ Made(p, "pass")
       \/ TakeCardAction(p) /\ Made(p, IF p \in game'.extra THEN "bonus" ELSE "card")
       \/ (\E counter \in game.counters : ClaimCounter(p, counter)) /\ Made(p, "claim")
  \/ LastRoundOver

MCSpec == MCInit /\ [][MCNext]_mcVars /\ RoundFairness

AtActionWindow == pc = "actionWindow" /\ asking = <<>>

\* The action phase is over only when the last thing each player did in it was to
\* pass or to claim a counter, with no card played since (ActionWindow.pass and
\* rotateActivePlayer decide it from two flags).
OnlyWhenBothAreDone ==
  pc = "tearDown" => \A p \in Players : lastChoice[p] \in {"pass", "claim"}

\* And it is over as soon as that is so: no window opens once both have passed in
\* a row, or one has claimed and the other passed.
OverOnceBothAreDone ==
  AtActionWindow => \E p \in Players : lastChoice[p] \notin {"pass", "claim"}

\* The action phase ends when, and only when, both players are done with it.
OverExactlyWhenBothAreDone == OnlyWhenBothAreDone /\ OverOnceBothAreDone

\* Who has claimed a counter takes no further action in the phase.
ClaimerIsOut == AtActionWindow => lastChoice[game.active] # "claim"

\* Players alternate: the same player acts twice in a row only after an action that
\* gave another one, or when the opponent is out.
PlayersAlternate ==
  AtActionWindow /\ game.active = lastActor =>
    \/ lastChoice[game.active] = "bonus"
    \/ lastChoice[Opponent(game.active)] = "claim"

\* With three counters every player leaves the action phase with exactly one of
\* them: passing is not possible before (rule 12.6.1.A, quoted at Game.ts:215).
OneCounterEach ==
  pc = "tearDown" /\ Cardinality(game.counters) = 3 =>
    /\ Cardinality(game.claimed) = 2
    /\ \A p \in Players : lastChoice[p] = "claim"

\* Every round is played to its end and followed by the next: no prompt, trigger
\* or chain of passes and claims keeps the pipeline in a phase for ever.
EveryRoundIsPlayed ==
  \A r \in 0 .. MaxRounds - 1 : (game.round = r) ~> (game.round = r + 1)
=============================================================================
