--------------------------- MODULE TriggerWindow ---------------------------
(* Event windows and the triggers they collect, on the pipeline of a game:  *)
(* EventWindow.ts, TriggerWindowBase.ts, TriggeredAbilityWindow.ts, and of  *)
(* AbilityResolver.ts and CardAbilityStep.ts what opens further windows.    *)
(*                                                                          *)
(* The pipeline is a stack of frames: an event window, the trigger window   *)
(* it runs near its end, or the resolver of one ability.  A step that       *)
(* queues another step pushes a frame; the pushed frame ends before the     *)
(* next step of the one below it.  An action is a step of the top frame.    *)
(*                                                                          *)
(* Events are numbered and reused once the outermost window has closed; of  *)
(* an event only who listens to it matters.  What a card's code does in a   *)
(* handler is a choice.  The event that initiates an ability has no         *)
(* listeners here, so it is the flag `initiates` of its window.             *)
EXTENDS Integers, FiniteSets, SequencesExt, Functions

CONSTANTS Players,
          Abilities,       \* triggered abilities
          Controller,      \* Controller[a]: the player who resolves ability a
          SubStepOf,       \* SubStepOf[a]: what follows the effect of a
          Unsteady,        \* abilities whose card may come, go or be blanked
          Listening,       \* sets of abilities that may listen to an event
          MaxEvents,       \* bound: events of one outermost window
          MaxSimultaneous, \* bound: events an outermost window opens with
          MaxChanges       \* bound: changes to cards in one outermost window

ASSUME PlayersAssumption == IsFiniteSet(Players)
ASSUME ControllerAssumption == Controller \in [Abilities -> Players]
ASSUME AbilitiesAssumption == /\ Unsteady \subseteq Abilities
                              /\ Listening \subseteq SUBSET Abilities
                              /\ SubStepOf \in [Abilities -> {"none", "then", "ifYouDoNot"}]
ASSUME BoundsAssumption ==
  MaxEvents \in Nat \ {0} /\ MaxSimultaneous \in 1..MaxEvents /\ MaxChanges \in Nat

VARIABLES stack,           \* the pipeline, the step that runs now last
          current,         \* game.currentEventWindow: an index of stack, or 0
          events,          \* events[e]: the state of event e
          presence,        \* presence[a]: is a on its card, blanked, or away
          legal,           \* the abilities that would have some effect
          changes          \* changes made since the outermost window opened
vars == <<stack, current, events, presence, legal, changes>>

EventIds == 1..MaxEvents
Statuses == {"unused", "created", "cancelled", "replaced", "resolved"}
Presences == {"on", "blanked", "away"}
(* A trigger: an ability and the event that triggered it. *)
Triggers == Abilities \X EventIds

n == Len(stack)
Top == stack[n]
WindowIndexes == {i \in DOMAIN stack : stack[i].kind = "window"}

-----------------------------------------------------------------------------
(* Events.  `due`, `missed`, `times` and `excused` are the history the      *)
(* properties speak of: the abilities that ought to trigger, those that were *)
(* blanked at the first emission, how often each trigger was dealt with,    *)
(* and those dropped while they would have had no effect.                   *)

NewEvent(listeners) ==
  [status |-> "created", listeners |-> listeners, by |-> 0,
   due |-> {}, missed |-> {}, excused |-> {}, times |-> [a \in Abilities |-> 0]]
UnusedEvent == [NewEvent({}) EXCEPT !.status = "unused"]

Unused == {e \in EventIds : events[e].status = "unused"}
NextUnused == CHOOSE e \in Unused : \A f \in Unused : e <= f

(* isResolvedOrReplacementResolved *)
HasResolved(e) ==
  \/ events[e].status = "resolved"
  \/ /\ events[e].status = "replaced"
     /\ events[e].by # 0 => events[events[e].by].status = "resolved"

-----------------------------------------------------------------------------
(* The trigger window of an event window (TriggerWindowBase).               *)

(* `unresolved` is how often each trigger waits: the players' lists, in     *)
(* which the player may pick any entry. *)
NewTriggerWindow(evs) ==
  [triggering |-> evs, unresolved |-> [t \in Triggers |-> 0],
   seen |-> {}, missed |-> {}, started |-> FALSE, order |-> <<>>]

Waiting(tw) == {t \in Triggers : tw.unresolved[t] > 0}
WaitingOf(tw, p) == {t \in Waiting(tw) : Controller[t[1]] = p}
Keep(tw, ts) ==
  [tw EXCEPT !.unresolved = [t \in Triggers |-> IF t \in ts THEN @[t] ELSE 0]]

(* What a frame of each kind holds. *)
EventWindow(evs, mode, subMode, subStep, trigger) ==
  [kind |-> "window", step |-> "setParentEventWindow", mode |-> mode,
   subMode |-> subMode, subStep |-> subStep, trigger |-> trigger,
   initiates |-> FALSE, events |-> evs, resolved |-> <<>>, subwindow |-> <<>>,
   queued |-> <<>>, opened |-> evs, parent |-> 0, owner |-> 0,
   triggers |-> NewTriggerWindow(IF mode = "resolves" THEN ToSet(evs) ELSE {})]

InitiateWindow(resolver) ==
  [EventWindow(<<>>, resolver.mode, "resolves", resolver.subStep,
               resolver.trigger) EXCEPT !.initiates = TRUE]

TriggeredAbilityWindow == [kind |-> "triggers"]

AbilityResolver(trigger, mode, role) ==
  [kind |-> "resolver", step |-> "checkAbility", trigger |-> trigger,
   mode |-> mode, role |-> role, resolutionCommitted |-> FALSE,
   subStep |-> IF role = "trigger" THEN SubStepOf[trigger[1]] ELSE "none"]

(* With a bug: every sub-step passes its triggers on. *)
SubAbilityStepPasses(trigger, subStep) == AbilityResolver(trigger, "passes", "subStep")

(* "Then" passes its triggers on, "if you do not" has a window of its own. *)
SubAbilityStep(trigger, subStep) ==
  AbilityResolver(trigger, IF subStep = "then" THEN "passes" ELSE "resolves",
                  "subStep")

(* emitEvents: every listening ability that is on its card triggers, unless *)
(* the window has seen the trigger or it was missed by a blanked card.      *)
AddedBy(tw, evs) ==
  {t \in Triggers : /\ t[2] \in ToSet(evs) \cap tw.triggering
                    /\ events[t[2]].status \in {"created", "resolved"}
                    /\ t[1] \in events[t[2]].listeners
                    /\ presence[t[1]] = "on"
                    /\ t \notin tw.missed
                    /\ t \notin tw.seen}

(* With a bug: a blanked ability does not miss the event. *)
MissedByNone(tw, evs) == {}

MissedBy(tw, evs) ==
  {t \in Triggers : /\ t[2] \in ToSet(evs)
                    /\ events[t[2]].status \in {"created", "resolved"}
                    /\ t[1] \in events[t[2]].listeners
                    /\ presence[t[1]] = "blanked"}

Emit(tw, evs) ==
  LET added == AddedBy(tw, evs)
  IN  [tw EXCEPT
        !.seen = @ \cup added,
        !.missed = @ \cup MissedBy(tw, evs),
        !.unresolved = [t \in Triggers |-> IF t \in added THEN @[t] + 1 ELSE @[t]]]

AnyLegal(ts) == \E t \in ts : t[1] \in legal
ByResolved == {t \in Triggers : events[t[2]].status = "resolved"}

(* With a bug: all triggers are dropped when one can have no effect. *)
CleanUpUnlessAllLegal(tw) ==
  LET kept == Keep(tw, ByResolved)
  IN  IF Waiting(kept) \subseteq legal \X EventIds THEN kept ELSE Keep(tw, {})

(* cleanUpTriggers *)
CleanUpTriggers(tw) ==
  LET kept == Keep(tw, ByResolved)
  IN  IF AnyLegal(Waiting(kept)) THEN kept ELSE Keep(tw, {})

WithTriggers(tw) == {p \in Players : WaitingOf(tw, p) # {}}

(* With a bug: the triggers that can have no effect are kept. *)
SkipUnableKeeps(tw) ==
  IF AnyLegal(WaitingOf(tw, Head(tw.order))) THEN tw ELSE [tw EXCEPT !.order = Tail(@)]

(* promptUnresolvedAbilities up to the choice: a player none of whose       *)
(* triggers can have an effect loses them, and the next player has a turn.  *)
SkipUnable(tw) ==
  LET p == Head(tw.order)
  IN  IF AnyLegal(WaitingOf(tw, p)) THEN tw
      ELSE [Keep(tw, Triggers \ WaitingOf(tw, p)) EXCEPT !.order = Tail(@)]

(* NextPlayer: when everyone had a turn, whoever still has triggers goes on. *)
NextPlayer(tw) ==
  LET skipped == SkipUnable(tw)
  IN  IF skipped.order = <<>>
      THEN [skipped EXCEPT !.order = SetToSeq(WithTriggers(skipped))]
      ELSE skipped

Dropped(before, after) == Waiting(before) \ Waiting(after)

(* The drop of a trigger is excused when it would have had no effect. *)
Excuse(evs, dropped) ==
  [e \in EventIds |-> [evs[e] EXCEPT
     !.excused = @ \cup {a \in Abilities \ legal : <<a, e>> \in dropped}]]

-----------------------------------------------------------------------------
(* The stack.                                                               *)

SetTop(frame) == [stack EXCEPT ![n] = frame]
Step(name) == SetTop([Top EXCEPT !.step = name])
Pop == SubSeq(stack, 1, n - 1)
(* The trigger window of window w, its own or its parent's. *)
TriggersOf(w) == stack[w.owner].triggers
AtStep(kind, step) == stack # <<>> /\ Top.kind = kind /\ Top.step = step

(* game.addSubwindowEvents *)
AddSubwindowEvents(st, evs) == [st EXCEPT ![current].subwindow = @ \o evs]

-----------------------------------------------------------------------------
(* An event window.                                                         *)

(* A window of the game flow or of a player's action, with one or more      *)
(* simultaneous events. *)
OpenOuterWindow(listeners) ==
  /\ stack = <<>>
  /\ events' = [e \in EventIds |-> IF e \in DOMAIN listeners
                                   THEN NewEvent(listeners[e]) ELSE UnusedEvent]
  /\ stack' = <<EventWindow([e \in DOMAIN listeners |-> e], "resolves", "resolves",
                            "none", <<>>)>>
  /\ changes' = 0
  /\ legal' = Abilities
  /\ UNCHANGED <<current, presence>>

SetParentEventWindow ==
  /\ AtStep("window", "setParentEventWindow")
  /\ stack' = SetTop([Top EXCEPT
                !.step = IF Top.events = <<>> THEN "resolveEvents"
                         ELSE "openReplacementEffectWindow",
                !.parent = current,
                !.owner = IF Top.mode = "resolves" THEN n ELSE stack[current].owner])
  /\ current' = n
  /\ UNCHANGED <<events, presence, legal, changes>>

(* A replacement effect may apply to one of the events. *)

(* replaceWithNoEffect *)
EventPrevented(e) ==
  /\ AtStep("window", "openReplacementEffectWindow")
  /\ e \in ToSet(Top.events)
  /\ events' = [events EXCEPT ![e].status = "replaced"]
  /\ stack' = SetTop([Top EXCEPT !.step = "emitEvents",
                                 !.events = RemoveFirst(@, e)])
  /\ UNCHANGED <<current, presence, legal, changes>>

(* setReplacementEvent, and addEvent of the replacement *)
EventReplaced(e, listeners) ==
  /\ AtStep("window", "openReplacementEffectWindow")
  /\ e \in ToSet(Top.events)
  /\ Unused # {}
  /\ events' = [events EXCEPT ![e].status = "replaced", ![e].by = NextUnused,
                              ![NextUnused] = NewEvent(listeners)]
  /\ stack' = SetTop([Top EXCEPT !.step = "emitEvents",
                                 !.events = Append(@, NextUnused)])
  /\ UNCHANGED <<current, presence, legal, changes>>

(* The history of an emission: who ought to trigger, and who missed it. *)
Heard(evs, first) ==
  [e \in EventIds |->
     IF e \notin ToSet(evs) \/ events[e].status \notin {"created", "resolved"}
     THEN events[e]
     ELSE LET on == {a \in events[e].listeners : presence[a] = "on"}
              missed == IF first THEN {a \in events[e].listeners : presence[a] = "blanked"}
                        ELSE events[e].missed
          IN  [events[e] EXCEPT !.missed = missed, !.due = @ \cup (on \ missed)]]

(* resolveEvents, first part: triggers are collected before any handler *)
EmitEvents ==
  /\ \/ AtStep("window", "openReplacementEffectWindow")
     \/ AtStep("window", "emitEvents")
  /\ LET tw == [TriggersOf(Top) EXCEPT !.triggering = @ \cup ToSet(Top.events)]
     IN  stack' = [Step("resolveEvents") EXCEPT
                     ![Top.owner].triggers = Emit(tw, Top.events)]
  /\ events' = Heard(Top.events, TRUE)
  /\ UNCHANGED <<current, presence, legal, changes>>

Unresolved(w) == {i \in DOMAIN w.events : events[w.events[i]].status = "created"}
IsNext(e) ==
  /\ AtStep("window", "resolveEvents")
  /\ \E i \in Unresolved(Top) : /\ Top.events[i] = e
                              /\ \A j \in Unresolved(Top) : i <= j

(* checkCondition: the event fizzles because of what happened before it *)
EventFizzles(e) ==
  /\ IsNext(e)
  /\ events' = [events EXCEPT ![e].status = "cancelled"]
  /\ stack' = SetTop([Top EXCEPT !.events = RemoveFirst(@, e)])
  /\ UNCHANGED <<current, presence, legal, changes>>

Resolved(e) == [events EXCEPT ![e].status = "resolved"]
TopResolved(e) == SetTop([Top EXCEPT !.resolved = Append(@, e)])

(* executeHandler, with nothing the windows depend on *)
EventResolves(e) ==
  /\ IsNext(e)
  /\ events' = Resolved(e)
  /\ stack' = TopResolved(e)
  /\ UNCHANGED <<current, presence, legal, changes>>

CountChange == changes < MaxChanges /\ changes' = changes + 1

(* A handler changes whether an unsteady ability would have an effect. *)
EventChangesEffect(e, a) ==
  /\ IsNext(e)
  /\ events' = Resolved(e)
  /\ stack' = TopResolved(e)
  /\ legal' = IF a \in legal THEN legal \ {a} ELSE legal \cup {a}
  /\ CountChange
  /\ UNCHANGED <<current, presence>>

(* A handler blanks its card, or ends what blanked it. *)
EventBlanksCard(e, a) ==
  /\ IsNext(e)
  /\ events' = Resolved(e)
  /\ stack' = TopResolved(e)
  /\ presence[a] # "away"
  /\ presence' = [presence EXCEPT ![a] = IF @ = "on" THEN "blanked" ELSE "on"]
  /\ CountChange
  /\ UNCHANGED <<current, legal>>

(* A handler defeats a card: an event for the current window's sub-window. *)
EventDefeatsCard(e, listeners) ==
  /\ IsNext(e)
  /\ Unused # {}
  /\ events' = [Resolved(e) EXCEPT ![NextUnused] = NewEvent(listeners)]
  /\ stack' = AddSubwindowEvents(TopResolved(e), <<NextUnused>>)
  /\ UNCHANGED <<current, presence, legal, changes>>

(* A handler opens a window: the effects of a card that enters play, or an  *)
(* attack or the play of another card. *)
NestedModes == {<<"passes", "passes">>, <<"resolves", "resolves">>}
EventOpensWindow(e, modes, listeners) ==
  /\ IsNext(e)
  /\ Unused # {}
  /\ events' = [Resolved(e) EXCEPT ![NextUnused] = NewEvent(listeners)]
  /\ stack' = SetTop([Top EXCEPT
                !.resolved = Append(@, e),
                !.queued = Append(@, [event |-> NextUnused, modes |-> modes])])
  /\ UNCHANGED <<current, presence, legal, changes>>

EventsAreResolved == AtStep("window", "resolveEvents") /\ Unresolved(Top) = {}

(* The windows the handlers queued come before the window's next step. *)
QueuedWindow ==
  /\ EventsAreResolved /\ Top.queued # <<>>
  /\ LET q == Head(Top.queued)
     IN  stack' = SetTop([Top EXCEPT !.queued = Tail(@)])
                    \o <<EventWindow(<<q.event>>, q.modes[1], q.modes[2], "none", <<>>)>>
  /\ UNCHANGED <<current, events, presence, legal, changes>>

(* queueInitiateAbilitySteps, executeHandler and executeGameActions of the  *)
(* ability the window initiates: a window for the effect's event ... *)
InitiatedAbilityActs(listeners) ==
  /\ EventsAreResolved /\ Top.initiates /\ Unused # {}
  /\ events' = [events EXCEPT ![NextUnused] = NewEvent(listeners)]
  /\ stack' = SetTop([Top EXCEPT !.initiates = FALSE, !.subStep = "none"])
                \o <<EventWindow(<<NextUnused>>, "passes", "resolves", Top.subStep,
                                 Top.trigger)>>
  /\ UNCHANGED <<current, presence, legal, changes>>

(* ... or, without an event, its sub-step at once.  To bound the instances,  *)
(* an effect has an event as long as there are any. *)
InitiatedAbilityHasNoEvent ==
  /\ EventsAreResolved /\ Top.initiates /\ Unused = {}
  /\ stack' = SetTop([Top EXCEPT !.initiates = FALSE, !.subStep = "none"])
                \o IF Top.subStep = "none" THEN <<>>
                   ELSE <<SubAbilityStep(Top.trigger, Top.subStep)>>
  /\ UNCHANGED <<current, events, presence, legal, changes>>

NothingQueued == EventsAreResolved /\ Top.queued = <<>> /\ ~Top.initiates

(* checkUniqueRule and resolveGameState: the abilities of moved cards start *)
(* or stop to listen, effects end, and units without hit points are defeated. *)
GameStateChangesCard(a) ==
  /\ NothingQueued
  /\ stack' = Step("postResolutionTriggers")
  /\ \E p \in Presences \ {presence[a]} : presence' = [presence EXCEPT ![a] = p]
  /\ CountChange
  /\ UNCHANGED <<current, events, legal>>

GameStateDefeatsCard(listeners) ==
  /\ NothingQueued
  /\ Unused # {}
  /\ events' = [events EXCEPT ![NextUnused] = NewEvent(listeners)]
  /\ stack' = AddSubwindowEvents(Step("postResolutionTriggers"), <<NextUnused>>)
  /\ UNCHANGED <<current, presence, legal, changes>>

(* The steps that remain after the second emission, without those that do   *)
(* nothing in window w. *)
AfterSubAbilityStep(w) ==
  IF w.mode = "resolves" THEN "resolveTriggersIfNecessary" ELSE "cleanup"
AfterSubwindowEvents(w) ==
  IF w.subStep # "none" THEN "resolveSubAbilityStep" ELSE AfterSubAbilityStep(w)
(* With a bug: the sub-step comes before the sub-window. *)
AfterTriggersSubStep(w) == AfterSubwindowEvents(w)
AfterTriggers(w) ==
  IF w.subwindow # <<>> THEN "resolveSubwindowEvents" ELSE AfterSubwindowEvents(w)

(* The second emission is for cards that came into play meanwhile. *)
PostResolutionTriggers ==
  /\ NothingQueued \/ AtStep("window", "postResolutionTriggers")
  /\ stack' = [Step(AfterTriggers(Top)) EXCEPT
                 ![Top.owner].triggers = Emit(TriggersOf(Top), Top.resolved)]
  /\ events' = Heard(Top.resolved, FALSE)
  /\ UNCHANGED <<current, presence, legal, changes>>

ResolveSubwindowEvents ==
  /\ AtStep("window", "resolveSubwindowEvents")
  /\ IF Top.subMode = "passes"
     THEN stack' = [SetTop([Top EXCEPT !.step = AfterSubwindowEvents(Top),
                                       !.subwindow = <<>>]) EXCEPT
                      ![Top.parent].subwindow = @ \o Top.subwindow]
     ELSE stack' = Append(Step(AfterSubwindowEvents(Top)),
                          EventWindow(Top.subwindow, "passes", "resolves", "none", <<>>))
  /\ UNCHANGED <<current, events, presence, legal, changes>>

(* "Then" always follows; "if you do not" when the effect did not happen.   *)
SubAbilityStepDue ==
  \/ Top.subStep = "then"
  \/ Top.subStep = "ifYouDoNot" /\ ~HasResolved(Last(Top.opened))

ResolveSubAbilityStep ==
  /\ AtStep("window", "resolveSubAbilityStep")
  /\ stack' = Step(AfterSubAbilityStep(Top))
                \o IF SubAbilityStepDue
                   THEN <<SubAbilityStep(Top.trigger, Top.subStep)>> ELSE <<>>
  /\ UNCHANGED <<current, events, presence, legal, changes>>

ResolveTriggersIfNecessary ==
  /\ AtStep("window", "resolveTriggersIfNecessary")
  /\ stack' = Append(Step("cleanup"), TriggeredAbilityWindow)
  /\ UNCHANGED <<current, events, presence, legal, changes>>

(* With a bug: no window is current once a nested one has closed. *)
CleanupForgetsParent ==
  /\ AtStep("window", "cleanup")
  /\ stack' = Pop
  /\ current' = 0
  /\ UNCHANGED <<events, presence, legal, changes>>

Cleanup ==
  /\ AtStep("window", "cleanup")
  /\ stack' = Pop
  /\ current' = Top.parent
  /\ UNCHANGED <<events, presence, legal, changes>>

-----------------------------------------------------------------------------
(* The trigger window that runs as a step of the window below it.           *)

InTriggerWindow == stack # <<>> /\ Top.kind = "triggers"
OwnTriggers == stack[n - 1].triggers
SetTriggers(tw) == [stack EXCEPT ![n - 1].triggers = tw]

(* Who resolves first: the one player with triggers, or the active player's *)
(* choice. *)
Orders(tw) == SetToSeqs(WithTriggers(tw))

StartResolving ==
  /\ InTriggerWindow /\ ~OwnTriggers.started
  /\ LET tw == CleanUpTriggers(OwnTriggers)
     IN  /\ events' = Excuse(events, Dropped(OwnTriggers, tw))
         /\ IF WithTriggers(tw) = {}
            THEN stack' = SubSeq(SetTriggers(tw), 1, n - 1)
            ELSE \E order \in Orders(tw) :
                   stack' = SetTriggers([tw EXCEPT !.started = TRUE, !.order = order])
  /\ UNCHANGED <<current, presence, legal, changes>>

(* promptUnresolvedAbilities: the player whose turn it is picks a trigger. *)
ResolveNextTrigger ==
  /\ InTriggerWindow /\ OwnTriggers.started
  /\ LET tw == NextPlayer(OwnTriggers)
     IN  /\ events' = Excuse(events, Dropped(OwnTriggers, tw))
         /\ IF tw.order = <<>>
            THEN stack' = SubSeq(SetTriggers(tw), 1, n - 1)
            ELSE \E t \in WaitingOf(tw, Head(tw.order)) :
                   stack' = Append(SetTriggers(tw),
                                   AbilityResolver(t, "resolves", "trigger"))
  /\ UNCHANGED <<current, presence, legal, changes>>

-----------------------------------------------------------------------------
(* The resolver of an ability.                                              *)

(* The resolver's last step, with the resolution committed. *)
Committed == SetTop([Top EXCEPT !.step = "done", !.resolutionCommitted = TRUE])

OpenInitiateAbilityEventWindow ==
  /\ AtStep("resolver", "checkAbility")
  /\ Top.trigger[1] \in legal
  /\ stack' = Append(Committed, InitiateWindow(Top))
  /\ UNCHANGED <<current, events, presence, legal, changes>>

(* With a bug: declining an ability is taken for a click on "cancel". *)
CancelledIsNotCommitted ==
  /\ AtStep("resolver", "checkAbility")
  /\ stack' = Step("done")
  /\ UNCHANGED <<current, events, presence, legal, changes>>

(* checkResolveThenIfYouDoNot: the ability can have no effect, or an        *)
(* optional one is declined; what it does instead is resolved.  No card has *)
(* an optional trigger whose "then" follows when it is declined. *)
AbilityIsCancelled ==
  /\ AtStep("resolver", "checkAbility")
  /\ stack' = Committed \o IF Top.subStep = "ifYouDoNot"
                           THEN <<SubAbilityStep(Top.trigger, Top.subStep)>>
                           ELSE <<>>
  /\ UNCHANGED <<current, events, presence, legal, changes>>

(* postResolutionUpdate *)
PostResolutionUpdate(tw, t) == [tw EXCEPT !.unresolved[t] = @ - 1]

(* The step after the resolver of a trigger: one that was not committed     *)
(* stays among the unresolved triggers. *)
TriggerIsResolved ==
  /\ AtStep("resolver", "done") /\ Top.role = "trigger"
  /\ LET tw == stack[n - 2].triggers
     IN  IF Top.resolutionCommitted
         THEN /\ stack' = [Pop EXCEPT ![n - 2].triggers =
                             PostResolutionUpdate(tw, Top.trigger)]
              /\ events' = [events EXCEPT ![Top.trigger[2]].times[Top.trigger[1]] =
                             IF @ < 2 THEN @ + 1 ELSE @]
         ELSE stack' = Pop /\ UNCHANGED events
  /\ UNCHANGED <<current, presence, legal, changes>>

SubStepIsResolved ==
  /\ AtStep("resolver", "done") /\ Top.role = "subStep"
  /\ stack' = Pop
  /\ UNCHANGED <<current, events, presence, legal, changes>>

-----------------------------------------------------------------------------
TriggerWindowInit ==
  /\ stack = <<>>
  /\ current = 0
  /\ events = [e \in EventIds |-> UnusedEvent]
  /\ presence \in [Abilities -> Presences]
  /\ \A a \in Abilities \ Unsteady : presence[a] = "on"
  /\ legal = Abilities
  /\ changes = 0

WindowStep ==
  \/ SetParentEventWindow \/ EmitEvents
  \/ \E e \in EventIds : EventPrevented(e) \/ EventFizzles(e) \/ EventResolves(e)
  \/ \E e \in EventIds, listeners \in Listening :
       \/ EventReplaced(e, listeners) \/ EventDefeatsCard(e, listeners)
       \/ \E modes \in NestedModes : EventOpensWindow(e, modes, listeners)
  \/ \E e \in EventIds, a \in Unsteady : EventChangesEffect(e, a) \/ EventBlanksCard(e, a)
  \/ QueuedWindow \/ InitiatedAbilityHasNoEvent
  \/ \E listeners \in Listening :
       InitiatedAbilityActs(listeners) \/ GameStateDefeatsCard(listeners)
  \/ \E a \in Unsteady : GameStateChangesCard(a)
  \/ PostResolutionTriggers \/ ResolveSubwindowEvents \/ ResolveSubAbilityStep
  \/ ResolveTriggersIfNecessary \/ Cleanup

AbilityStep ==
  \/ StartResolving \/ ResolveNextTrigger
  \/ OpenInitiateAbilityEventWindow \/ AbilityIsCancelled
  \/ TriggerIsResolved \/ SubStepIsResolved

PipelineStep == WindowStep \/ AbilityStep

TriggerWindowNext ==
  \/ PipelineStep
  \/ \E k \in 1..MaxSimultaneous :
       \E listeners \in [1..k -> Listening] : OpenOuterWindow(listeners)

(* The pipeline runs while it can, and players answer their prompts. *)
TriggerWindowSpec ==
  TriggerWindowInit /\ [][TriggerWindowNext]_vars /\ WF_vars(PipelineStep)

-----------------------------------------------------------------------------
(* Properties.                                                              *)

TriggerSets == SUBSET Triggers
TriggerWindowTyped(tw) ==
  /\ tw.triggering \subseteq EventIds
  /\ tw.unresolved \in [Triggers -> Nat]
  /\ tw.seen \in TriggerSets /\ tw.missed \in TriggerSets
  /\ tw.started \in BOOLEAN /\ tw.order \in Seq(Players)

(* game.currentEventWindow is always the innermost window that has begun,   *)
(* and each window's parent is the one that began before it: what a handler *)
(* or the state check queues for "the current window" goes to the right one. *)
CurrentIsInnermost ==
  LET begun == {i \in WindowIndexes : stack[i].step # "setParentEventWindow"}
      Below(i) == {j \in begun : j < i}
      Innermost(s) == IF s = {} THEN 0 ELSE CHOOSE i \in s : \A j \in s : j <= i
  IN  /\ current = Innermost(begun)
      /\ \A i \in begun : stack[i].parent = Innermost(Below(i))

(* The pipeline alternates as the code queues its steps: a trigger window   *)
(* only above the window that owns it, a resolver only above a window or a  *)
(* trigger window, and never a window that passes its triggers with no      *)
(* window below it (the assertions of setParentEventWindow); and the current *)
(* window is the innermost. *)
TriggerWindowTypeOK ==
  /\ \A e \in EventIds : /\ events[e].status \in Statuses
                          /\ events[e].due \subseteq events[e].listeners
                          /\ events[e].times \in [Abilities -> 0..2]
  /\ presence \in [Abilities -> Presences] /\ legal \subseteq Abilities
  /\ \A i \in WindowIndexes : /\ TriggerWindowTyped(stack[i].triggers)
                               /\ stack[i].mode = "passes" => i > 1
                               /\ ToSet(stack[i].events \o stack[i].subwindow)
                                    \subseteq EventIds
  /\ \A i \in DOMAIN stack \ WindowIndexes :
       IF stack[i].kind = "triggers"
       THEN i > 1 /\ i - 1 \in WindowIndexes /\ stack[i - 1].owner = i - 1
       ELSE i > 1
  /\ CurrentIsInnermost

(* Every event is emitted twice, but an ability triggers once for it. *)
TriggeredOnce ==
  /\ \A e \in EventIds, a \in Abilities : events[e].times[a] <= 1
  /\ \A i \in WindowIndexes, t \in Triggers : stack[i].triggers.unresolved[t] <= 1

(* Nothing triggers that ought not to: an ability that was blanked when the *)
(* event was first emitted has missed it, even if the event itself brings   *)
(* it back before the second emission (TriggerWindowBase.missedTriggers). *)
OnlyDueTriggers ==
  /\ \A e \in EventIds, a \in Abilities :
       events[e].times[a] > 0 => a \in events[e].due
  /\ \A i \in WindowIndexes :
       \A t \in Waiting(stack[i].triggers) : t[1] \in events[t[2]].due

Settled(e) ==
  events[e].status = "resolved" =>
    \A a \in events[e].due : events[e].times[a] > 0 \/ a \in events[e].excused

(* The events the windows on the stack still have to deal with. *)
Collected == UNION {stack[i].triggers.triggering : i \in WindowIndexes}
Held == UNION {ToSet(stack[i].events) \cup ToSet(stack[i].subwindow) \cup
               {q.event : q \in ToSet(stack[i].queued)}
                 : i \in WindowIndexes}

(* An ability triggers for an event if it ought to, and then once, although *)
(* the event is emitted before and after its handler. *)
TriggeredOnceIfDue == TriggeredOnce /\ OnlyDueTriggers

(* Triggers that come up while an ability resolves are dealt with before    *)
(* the next ability (SWU 7.6.11), and none is lost: whenever a trigger      *)
(* window is about to go on, or the pipeline is empty, all events outside   *)
(* the windows still open have happened and all their due triggers have     *)
(* been resolved, declined, or dropped without any possible effect. *)
NestedTriggersFirst ==
  (stack = <<>> \/ Top.kind = "triggers") =>
     \A e \in EventIds \ (Collected \cup Held) :
       events[e].status # "created" /\ Settled(e)

(* One player resolves all triggers of a window before the other begins     *)
(* (SWU 7.6.10): a player who is no longer in the order has none left. *)
OnePlayerFirst ==
  \A i \in WindowIndexes :
    stack[i].triggers.started =>
      WithTriggers(stack[i].triggers) \subseteq ToSet(stack[i].triggers.order)

(* Sub-window events, the defeats, take place before the sub-step of the    *)
(* ability and before the triggers of the window they were queued in.       *)
SubwindowEventsFirst ==
  \A i \in WindowIndexes :
    (IF i = n THEN Top.step = "cleanup" ELSE stack[i + 1].kind # "window") =>
      \A e \in ToSet(stack[i].subwindow) : events[e].status # "created"

(* A trigger window that has begun to resolve gets no new triggers (the     *)
(* assertion assertWindowResolutionNotStarted). *)
StartedGetNoTriggers ==
  [][\A i \in WindowIndexes :
       stack[i].triggers.started /\ i \in DOMAIN stack' =>
         stack'[i].triggers.seen = stack[i].triggers.seen]_vars

(* Every window closes: the pipeline of an outermost window runs empty. *)
WindowsClose == []<>(stack = <<>>)
=============================================================================
