---------------------------- MODULE ByoyomiTimer ----------------------------
(***************************************************************************)
(* The two-stage timer of a player (ByoyomiTimer.ts) over the timers it    *)
(* wraps (SimpleActionTimer.ts): a turn timer, and a main timer that       *)
(* takes over when the turn timer expires.  Operations are functions of    *)
(* the timer.  Time is relative: what a timer has left replaces endTime    *)
(* minus now.  A timer that counts with nothing left is due: its handler   *)
(* is scheduled and has not run yet.                                       *)
(***************************************************************************)
EXTENDS Naturals

CONSTANTS
  TurnLimit,       \* TurnTimeLimitSeconds, 20 in the code
  MainLimit        \* MainTimeLimitSeconds, 120 in the code

ASSUME ByoyomiAssumption == TurnLimit \in Nat \ {0} /\ MainLimit \in Nat \ {0}

-----------------------------------------------------------------------------
(* SimpleActionTimer *)

SimpleTimer == [mode : {"off", "counting", "paused", "fired"}, left : Nat]

Off == [mode |-> "off", left |-> 0]

Started(limit) == [mode |-> "counting", left |-> limit]

IsRunning(s) == s.mode = "counting" /\ s.left > 0

IsDue(s) == s.mode = "counting" /\ s.left = 0

\* Pausing a timer that does not run does nothing: one that is due stays scheduled.
Paused(s) == IF IsRunning(s) THEN [s EXCEPT !.mode = "paused"] ELSE s

Resumed(s) == IF s.mode = "paused" THEN [s EXCEPT !.mode = "counting"] ELSE s

Fired(s) == [s EXCEPT !.mode = "fired"]

\* A tick of the clock, for a timer or for one that does not count.
Ticked(s) == IF IsRunning(s) THEN [s EXCEPT !.left = @ - 1] ELSE s

-----------------------------------------------------------------------------
(* ByoyomiTimer *)

Timer == [turn : SimpleTimer, main : SimpleTimer,
          onMain : BOOLEAN,       \* isOnMainTimer
          paused : BOOLEAN]       \* _isPaused

\* What is paused has time left to resume with, and the main timer is never stopped.
TimerOK(t) == /\ t.turn.mode = "paused" => t.turn.left > 0
              /\ t.main.mode = "paused" => t.main.left > 0
              /\ t.main.mode # "off"

NewTimer == [turn |-> Off, main |-> Paused(Started(MainLimit)), onMain |-> FALSE, paused |-> FALSE]

Running(t) == IsRunning(t.turn) \/ IsRunning(t.main)

Due(t) == IsDue(t.turn) \/ IsDue(t.main)

\* mainTimeRemainingSeconds: no time left reads as null, and null as the whole limit.
MainTimeRemaining(t) == IF t.main.left > 0 THEN t.main.left ELSE MainLimit

\* totalTimeRemainingSeconds
TotalTimeRemaining(t) ==
  (IF t.onMain THEN 0 ELSE t.turn.left) + MainTimeRemaining(t)

Start(t) ==
  [turn |-> Started(TurnLimit), main |-> Paused(t.main), onMain |-> FALSE, paused |-> FALSE]

StopTurn(t) == [t EXCEPT !.turn = Off, !.paused = FALSE]     \* variant: the main timer is forgotten

\* onMain stays as it was.
Stop(t) == [t EXCEPT !.turn = Off, !.main = Paused(@), !.paused = FALSE]

Pause(t) == IF t.onMain THEN [t EXCEPT !.main = Paused(@), !.paused = TRUE]
                        ELSE [t EXCEPT !.turn = Paused(@), !.paused = TRUE]

Resume(t) == IF t.onMain THEN [t EXCEPT !.main = Resumed(@), !.paused = FALSE]
                         ELSE [t EXCEPT !.turn = Resumed(@), !.paused = FALSE]

\* startPlayerActionTimer (UiPrompt.ts)
StartOrResume(t) == IF t.paused THEN Resume(t) ELSE Start(t)

TurnExpiredForGood(t) == [t EXCEPT !.turn = Fired(@)]        \* variant: nothing takes over

TurnExpiredAfresh(t) ==                                      \* variant: the whole buffer each time
  [t EXCEPT !.turn = Fired(@), !.onMain = TRUE, !.main = Started(MainLimit)]

\* onTurnTimerExpired
TurnExpired(t) == [t EXCEPT !.turn = Fired(@), !.onMain = TRUE, !.main = Resumed(@)]

Elapsed(t) == [t EXCEPT !.turn = Ticked(@), !.main = Ticked(@)]
=============================================================================
