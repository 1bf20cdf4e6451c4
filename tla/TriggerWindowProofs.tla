------------------------ MODULE TriggerWindowProofs ------------------------
(* What TLAPS proves of TriggerWindow, for any abilities, events and bounds. *)
(* The stack is described by Fits: which frames may lie on which, whose      *)
(* triggers a window collects, and which window is current.                  *)
EXTENDS TriggerWindow, FiniteSetTheorems, SequenceTheorems, WellFoundedInduction, TLAPS

-----------------------------------------------------------------------------
(* Frames and their types *)

Modes == {"resolves", "passes"}
SubSteps == {"none", "then", "ifYouDoNot"}
WindowSteps ==
  {"setParentEventWindow", "openReplacementEffectWindow", "emitEvents",
   "resolveEvents", "postResolutionTriggers", "resolveSubwindowEvents",
   "resolveSubAbilityStep", "resolveTriggersIfNecessary", "cleanup"}

\* Once the players' order is settled, whoever has triggers is in it.
TurnsInOrder(tw) == tw.started => WithTriggers(tw) \subseteq ToSet(tw.order)

TriggerRecords ==
  [triggering : SUBSET EventIds, unresolved : [Triggers -> Nat],
   seen : SUBSET Triggers, missed : SUBSET Triggers, started : BOOLEAN,
   order : Seq(Players)]
TriggerWindows == {tw \in TriggerRecords : TurnsInOrder(tw)}

QueuedWindows == [event : EventIds, modes : NestedModes]

WindowRecords ==
  [kind : {"window"}, step : WindowSteps, mode : Modes, subMode : Modes,
   subStep : SubSteps, trigger : Triggers \cup {<<>>}, initiates : BOOLEAN,
   events : Seq(EventIds), resolved : Seq(EventIds), subwindow : Seq(EventIds),
   queued : Seq(QueuedWindows), opened : Seq(EventIds), parent : Nat,
   owner : Nat, triggers : TriggerWindows]

\* A window that initiates an ability, or has a sub-step to resolve, knows of which.
KnowsItsTrigger(f) == f.initiates \/ f.subStep # "none" => f.trigger \in Triggers
Windows == {f \in WindowRecords : KnowsItsTrigger(f)}

Resolvers ==
  [kind : {"resolver"}, step : {"checkAbility", "done"}, trigger : Triggers,
   mode : Modes, role : {"trigger", "subStep"}, resolutionCommitted : BOOLEAN,
   subStep : SubSteps]

Frames == Windows \cup {TriggeredAbilityWindow} \cup Resolvers

EventRecords ==
  [status : Statuses, listeners : SUBSET Abilities, by : EventIds \cup {0},
   due : SUBSET Abilities, missed : SUBSET Abilities, excused : SUBSET Abilities,
   times : [Abilities -> 0 .. 2]]

Types ==
  /\ stack \in Seq(Frames)
  /\ current \in Nat
  /\ events \in [EventIds -> EventRecords]
  /\ presence \in [Abilities -> Presences]
  /\ legal \in SUBSET Abilities
  /\ changes \in Nat

\* What a stack is made of, place by place.
LEMMA FramesOfKinds ==
  ASSUME NEW f \in Frames
  PROVE  /\ f.kind \in {"window", "triggers", "resolver"}
         /\ f.kind = "window" => f \in Windows
         /\ f.kind = "triggers" => f = TriggeredAbilityWindow
         /\ f.kind = "resolver" => f \in Resolvers
BY DEF Frames, Windows, WindowRecords, Resolvers, TriggeredAbilityWindow

-----------------------------------------------------------------------------
(* How frames lie on each other, in a stack s with current window c *)

BegunAt(s, i) ==
  /\ i \in 1 .. Len(s) /\ s[i].kind = "window"
  /\ s[i].step # "setParentEventWindow"

\* A window that has begun knows the window that began before it, and collects its
\* triggers above every trigger window below it.
BegunFits(s, i) ==
  /\ s[i].parent \in 0 .. i - 1
  /\ s[i].parent # 0 => BegunAt(s, s[i].parent)
  /\ \A j \in 1 .. i - 1 : BegunAt(s, j) => j <= s[i].parent
  /\ s[i].owner \in 1 .. i
  /\ s[s[i].owner].kind = "window" /\ s[s[i].owner].mode = "resolves"
  /\ s[i].mode = "resolves" => s[i].owner = i
  /\ \A k \in 1 .. i - 1 : s[k].kind = "triggers" => k < s[i].owner

WindowFits(s, i) ==
  /\ i < Len(s) => s[i].step # "setParentEventWindow"
  /\ i < Len(s) /\ s[i].step = "cleanup" /\ s[i].mode = "resolves"
       => s[i + 1].kind = "triggers"
  /\ s[i].step = "resolveTriggersIfNecessary" => s[i].mode = "resolves"
  /\ s[i].triggers.started => s[i].step = "cleanup" /\ s[i].mode = "resolves"
  /\ s[i].mode = "passes" =>
       \/ s[i - 1].kind = "window"
       \/ s[i - 1].kind = "resolver" /\ s[i - 1].mode = "passes"
  /\ s[i].step # "setParentEventWindow" => BegunFits(s, i)

TriggersFit(s, i) ==
  /\ s[i - 1].kind = "window" /\ s[i - 1].mode = "resolves" /\ s[i - 1].step = "cleanup"
  /\ s[i - 1].triggers.started => s[i - 1].triggers.order # <<>>
  /\ i < Len(s) => s[i + 1].kind = "resolver" /\ s[i + 1].role = "trigger"

\* The trigger a resolver deals with still waits, and it is its player's turn.
ResolvesWaiting(tw, t) ==
  /\ tw.started
  /\ tw.unresolved[t] > 0
  /\ Controller[t[1]] = Head(tw.order)

ResolverFits(s, i) ==
  /\ i < Len(s) => s[i].step = "done" /\ s[i].resolutionCommitted
  /\ s[i].mode = "passes" => s[i - 1].kind = "window"
  /\ s[i].role = "trigger" =>
       /\ s[i].mode = "resolves" /\ i > 2
       /\ s[i - 1].kind = "triggers" /\ s[i - 2].kind = "window"
       /\ ResolvesWaiting(s[i - 2].triggers, s[i].trigger)
  /\ s[i].role = "subStep" => s[i - 1].kind # "triggers"

FitsAt(s, i) ==
  /\ i = 1 => s[i].kind = "window" /\ s[i].mode = "resolves"
  /\ s[i].kind = "window" => WindowFits(s, i)
  /\ s[i].kind = "triggers" => TriggersFit(s, i)
  /\ s[i].kind = "resolver" => ResolverFits(s, i)

Fits(s, c) ==
  /\ c \in 0 .. Len(s)
  /\ c # 0 => BegunAt(s, c)
  /\ \A i \in 1 .. Len(s) : BegunAt(s, i) => i <= c
  /\ \A i \in 1 .. Len(s) : FitsAt(s, i)

StackFits == Fits(stack, current)

\* Frames that play the same part: g may stand for f at the same place of a stack.
SameRole(f, g) ==
  /\ g.kind = f.kind
  /\ f.kind = "window" => g.mode = f.mode /\ g.parent = f.parent /\ g.owner = f.owner
  /\ f.kind = "resolver" =>
       g.mode = f.mode /\ g.role = f.role /\ g.trigger = f.trigger

SameTurn(old, new) ==
  /\ new.started = old.started /\ new.order = old.order
  /\ \A t \in Triggers : new.unresolved[t] >= old.unresolved[t]

\* What the top of the stack may turn into.
TopMayBe(f, g) ==
  f.kind = "window" =>
    /\ (g.step = "setParentEventWindow") <=> (f.step = "setParentEventWindow")
    /\ g.step = "resolveTriggersIfNecessary" => f.mode = "resolves"
    /\ g.triggers.started => g.step = "cleanup" /\ f.mode = "resolves"

SameStep(f, g) ==
  /\ f.kind \in {"window", "resolver"} => g.step = f.step
  /\ f.kind = "resolver" => g.resolutionCommitted = f.resolutionCommitted

\* Whose triggers may change: those of the window on top, and those of the window
\* below its trigger window.
TriggersMayBe(s, i, f, g) ==
  \/ SameTurn(f.triggers, g.triggers)
  \/ i = Len(s)
  \/ /\ i = Len(s) - 1 /\ s[Len(s)].kind = "triggers"
     /\ g.triggers.started => g.triggers.order # <<>>

\* A stack still fits when its frames change without changing their parts.
LEMMA StillFits ==
  ASSUME NEW s \in Seq(Frames), NEW t \in Seq(Frames), NEW c, Fits(s, c),
         Len(t) = Len(s),
         \A i \in 1 .. Len(s) : SameRole(s[i], t[i]),
         \A i \in 1 .. Len(s) - 1 : SameStep(s[i], t[i]),
         \A i \in 1 .. Len(s) : s[i].kind = "window" => TriggersMayBe(s, i, s[i], t[i]),
         s # <<>> => TopMayBe(s[Len(s)], t[Len(s)])
  PROVE  Fits(t, c)
<1> Len(s) \in Nat
  OBVIOUS
<1>1. \A i \in 1 .. Len(s) : BegunAt(t, i) <=> BegunAt(s, i)
  <2>1. \A i \in 1 .. Len(s) : s[i].kind = "window" =>
          ((t[i].step = "setParentEventWindow") <=> (s[i].step = "setParentEventWindow"))
    BY DEF SameStep, TopMayBe
  <2> QED BY <2>1 DEF BegunAt, SameRole
<1>2. ASSUME NEW i \in 1 .. Len(t) PROVE FitsAt(t, i)
  <2>1. i \in 1 .. Len(s) /\ FitsAt(s, i)
    BY DEF Fits
  <2>2. CASE s[i].kind = "window"
    <3>1. WindowFits(s, i) /\ t[i].kind = "window" /\ SameRole(s[i], t[i])
      BY <2>1, <2>2 DEF FitsAt, SameRole
    <3>2. i < Len(t) => SameStep(s[i], t[i]) /\ i + 1 \in 1 .. Len(s) /\ SameRole(s[i + 1], t[i + 1])
      BY <2>1
    <3>3. i = Len(t) => TopMayBe(s[i], t[i])
      BY <2>1
    <3>4. BegunFits(s, i) => BegunFits(t, i)
      <4> SUFFICES ASSUME BegunFits(s, i) PROVE BegunFits(t, i)
        OBVIOUS
      <4>1. t[i].parent = s[i].parent /\ t[i].owner = s[i].owner /\ t[i].mode = s[i].mode
        BY <3>1, <2>2 DEF SameRole
      <4>2. s[i].owner \in 1 .. Len(s) /\ (s[i].parent # 0 => s[i].parent \in 1 .. Len(s))
        BY <2>1 DEF BegunFits
      <4>3. SameRole(s[s[i].owner], t[s[i].owner])
        BY <4>2
      <4>4. \A k \in 1 .. i - 1 : t[k].kind = s[k].kind /\ k \in 1 .. Len(s)
        BY <2>1 DEF SameRole
      <4>5. \A k \in 1 .. i - 1 : BegunAt(t, k) <=> BegunAt(s, k)
        BY <4>4, <1>1
      <4>6. t[i].parent # 0 => BegunAt(t, t[i].parent)
        BY <4>1, <4>2, <1>1 DEF BegunFits
      <4> QED BY <4>1, <4>2, <4>3, <4>4, <4>5, <4>6 DEF BegunFits, SameRole
    <3>5. t[i].step # "setParentEventWindow" => s[i].step # "setParentEventWindow"
      BY <3>2, <3>3, <2>1, <2>2 DEF SameStep, TopMayBe
    <3>6. t[i].mode = "passes" =>
            \/ t[i - 1].kind = "window"
            \/ t[i - 1].kind = "resolver" /\ t[i - 1].mode = "passes"
      <4>1. i > 1 => i - 1 \in 1 .. Len(s) /\ SameRole(s[i - 1], t[i - 1])
        BY <2>1
      <4>2. t[i].mode = s[i].mode
        BY <3>1, <2>2 DEF SameRole
      <4>3. i = 1 => t[i].mode = "resolves"
        BY <4>2, <2>1 DEF FitsAt
      <4> QED BY <4>1, <4>2, <4>3, <3>1, <2>1 DEF WindowFits, SameRole
    <3>7. i < Len(t) => t[i].step = s[i].step
      BY <3>2, <2>2 DEF SameStep
    <3>8. t[i].triggers.started => t[i].step = "cleanup" /\ t[i].mode = "resolves"
      <4>1. CASE SameTurn(s[i].triggers, t[i].triggers)
        BY <4>1, <3>1, <3>3, <3>7, <2>1, <2>2 DEF WindowFits, SameRole, SameTurn, TopMayBe
      <4>2. CASE i = Len(s)
        BY <4>2, <3>1, <3>3, <2>2 DEF SameRole, TopMayBe
      <4>3. CASE i = Len(s) - 1 /\ s[Len(s)].kind = "triggers"
        <5>1. FitsAt(s, Len(s)) /\ Len(s) - 1 = i
          BY <4>3, <2>1 DEF Fits
        <5>2. s[i].mode = "resolves" /\ s[i].step = "cleanup"
          BY <5>1, <4>3 DEF FitsAt, TriggersFit
        <5> QED BY <5>2, <4>3, <3>1, <3>7, <2>2 DEF SameRole
      <4> QED BY <4>1, <4>2, <4>3, <2>1, <2>2 DEF TriggersMayBe
    <3>9. t[i].step = "resolveTriggersIfNecessary" => t[i].mode = "resolves"
      BY <3>1, <3>3, <3>7, <2>1, <2>2 DEF WindowFits, SameRole, TopMayBe
    <3>10. WindowFits(t, i)
      BY <3>1, <3>2, <3>4, <3>5, <3>6, <3>7, <3>8, <3>9, <2>2 DEF WindowFits, SameRole
    <3> QED BY <3>1, <3>10, <2>1, <2>2 DEF FitsAt, SameRole
  <2>3. CASE s[i].kind = "triggers"
    <3>1. TriggersFit(s, i) /\ t[i].kind = "triggers" /\ i > 1
      BY <2>1, <2>3 DEF FitsAt, SameRole
    <3>2. i - 1 \in 1 .. Len(s) - 1 /\ SameRole(s[i - 1], t[i - 1]) /\ SameStep(s[i - 1], t[i - 1])
      BY <2>1, <3>1
    <3>3. i < Len(t) => i + 1 \in 1 .. Len(s) /\ SameRole(s[i + 1], t[i + 1])
      BY <2>1
    <3>4. t[i - 1].triggers.started => t[i - 1].triggers.order # <<>>
      <4>1. TriggersMayBe(s, i - 1, s[i - 1], t[i - 1]) /\ i - 1 # Len(s)
        BY <3>1, <3>2, <2>1 DEF TriggersFit
      <4> QED BY <4>1, <3>1 DEF TriggersMayBe, SameTurn, TriggersFit
    <3>5. TriggersFit(t, i)
      BY <3>1, <3>2, <3>3, <3>4 DEF TriggersFit, SameRole, SameStep
    <3> QED BY <3>1, <3>5 DEF FitsAt
  <2>4. CASE s[i].kind = "resolver"
    <3>1. ResolverFits(s, i) /\ t[i].kind = "resolver" /\ i > 1 /\ SameRole(s[i], t[i])
      BY <2>1, <2>4 DEF FitsAt, SameRole
    <3>2. i - 1 \in 1 .. Len(s) - 1 /\ SameRole(s[i - 1], t[i - 1])
      BY <2>1, <3>1
    <3>3. i > 2 => i - 2 \in 1 .. Len(s) /\ SameRole(s[i - 2], t[i - 2])
      BY <2>1
    <3>4. i < Len(t) => SameStep(s[i], t[i])
      BY <2>1
    <3>5. s[i].role = "trigger" => ResolvesWaiting(t[i - 2].triggers, t[i].trigger)
      <4> SUFFICES ASSUME s[i].role = "trigger" PROVE ResolvesWaiting(t[i - 2].triggers, t[i].trigger)
        OBVIOUS
      <4>1. s[i - 2].kind = "window" /\ ResolvesWaiting(s[i - 2].triggers, s[i].trigger) /\ i > 2
        BY <3>1 DEF ResolverFits
      <4>2. s[i].trigger \in Triggers /\ t[i].trigger = s[i].trigger
        <5>1. s[i] \in Frames
          BY <2>1
        <5>2. s[i] \in Resolvers
          BY <5>1, <2>4, FramesOfKinds
        <5> QED BY <5>2, <3>1, <2>4 DEF Resolvers, SameRole
      <4>3. i - 2 \in 1 .. Len(s) /\ s[i - 2] \in Frames /\ t[i - 2] \in Frames
        BY <2>1, <4>1
      <4>4. s[i - 2] \in Windows /\ t[i - 2] \in Windows
        BY <4>1, <4>3, <3>3, FramesOfKinds DEF SameRole
      <4>5. /\ s[i - 2].triggers.unresolved[s[i].trigger] \in Nat
            /\ t[i - 2].triggers.unresolved[s[i].trigger] \in Nat
        BY <4>4, <4>2 DEF Windows, WindowRecords, TriggerWindows, TriggerRecords
      <4>6. SameTurn(s[i - 2].triggers, t[i - 2].triggers)
        BY <4>1, <4>3, <2>1 DEF TriggersMayBe
      <4> QED BY <4>1, <4>2, <4>5, <4>6 DEF ResolvesWaiting, SameTurn
    <3>6. ResolverFits(t, i)
      BY <3>1, <3>2, <3>3, <3>4, <3>5, <2>4 DEF ResolverFits, SameRole, SameStep
    <3> QED BY <3>1, <3>6 DEF FitsAt
  <2>5. s[i].kind \in {"window", "triggers", "resolver"}
    <3>1. s[i] \in Frames
      BY <2>1
    <3> QED BY <3>1, FramesOfKinds
  <2> QED BY <2>2, <2>3, <2>4, <2>5
<1>3. c \in 0 .. Len(t) /\ (c # 0 => BegunAt(t, c)) /\ \A i \in 1 .. Len(t) : BegunAt(t, i) => i <= c
  BY <1>1 DEF Fits
<1> QED BY <1>2, <1>3 DEF Fits

\* What a frame needs of the frame it is put on.
MayLieOn(g, f) ==
  /\ f.kind = "window" =>
       /\ f.step # "setParentEventWindow"
       /\ f.step = "cleanup" /\ f.mode = "resolves" => g.kind = "triggers"
  /\ f.kind = "resolver" => f.step = "done" /\ f.resolutionCommitted
  /\ f.kind = "triggers" => g.kind = "resolver" /\ g.role = "trigger"
  /\ g.kind = "window" =>
       /\ g.step = "setParentEventWindow" /\ ~g.triggers.started
       /\ g.mode = "passes" =>
            f.kind = "window" \/ (f.kind = "resolver" /\ f.mode = "passes")
  /\ g.kind = "triggers" =>
       /\ f.kind = "window" /\ f.mode = "resolves" /\ f.step = "cleanup"
       /\ f.triggers.started => f.triggers.order # <<>>
  /\ g.kind = "resolver" =>
       /\ g.mode = "passes" => f.kind = "window"
       /\ g.role = "subStep" => f.kind # "triggers"

LEMMA PushedFits ==
  ASSUME NEW s \in Seq(Frames), NEW c, Fits(s, c), s # <<>>,
         NEW g \in Frames, MayLieOn(g, s[Len(s)]),
         g.kind = "resolver" /\ g.role = "trigger" =>
           /\ g.mode = "resolves" /\ Len(s) > 1
           /\ s[Len(s)].kind = "triggers" /\ s[Len(s) - 1].kind = "window"
           /\ ResolvesWaiting(s[Len(s) - 1].triggers, g.trigger)
  PROVE  Fits(Append(s, g), c)
<1> DEFINE t == Append(s, g)
<1>1. Len(s) \in Nat \ {0} /\ Len(t) = Len(s) + 1 /\ t[Len(t)] = g
  OBVIOUS
<1>2. \A i \in 1 .. Len(s) : t[i] = s[i]
  OBVIOUS
<1>a. t \in Seq(Frames)
  OBVIOUS
<1> HIDE DEF t
<1>3. \A i \in 1 .. Len(s) : BegunAt(t, i) <=> BegunAt(s, i)
  BY <1>1, <1>2 DEF BegunAt
<1>4. ~BegunAt(t, Len(t))
  BY <1>1 DEF BegunAt, MayLieOn
<1>5. c \in 0 .. Len(t) /\ (c # 0 => BegunAt(t, c)) /\ \A i \in 1 .. Len(t) : BegunAt(t, i) => i <= c
  <2>1. \A i \in 1 .. Len(t) : i \in 1 .. Len(s) \/ i = Len(t)
    BY <1>1
  <2> QED BY <1>1, <1>3, <1>4, <2>1 DEF Fits
<1>6. ASSUME NEW i \in 1 .. Len(s) PROVE FitsAt(t, i)
  <2>1. FitsAt(s, i) /\ t[i] = s[i] /\ i < Len(t)
    BY <1>1, <1>2 DEF Fits
  <2>2. i < Len(s) => i + 1 \in 1 .. Len(s) /\ t[i + 1] = s[i + 1]
    BY <1>1, <1>2
  <2>3. i = Len(s) => t[i + 1] = g /\ s[i] = s[Len(s)]
    BY <1>1
  <2>4. i > 1 => t[i - 1] = s[i - 1]
    BY <1>1, <1>2
  <2>5. CASE s[i].kind = "window"
    <3>1. WindowFits(s, i)
      BY <2>1, <2>5 DEF FitsAt
    <3>2. BegunFits(s, i) => BegunFits(t, i)
      <4> SUFFICES ASSUME BegunFits(s, i) PROVE BegunFits(t, i)
        OBVIOUS
      <4>1. s[i].owner \in 1 .. Len(s) /\ (s[i].parent # 0 => s[i].parent \in 1 .. Len(s))
        BY <1>1 DEF BegunFits
      <4>2. \A k \in 1 .. i - 1 : t[k] = s[k] /\ k \in 1 .. Len(s)
        BY <1>1, <1>2
      <4>3. \A k \in 1 .. i - 1 : BegunAt(t, k) <=> BegunAt(s, k)
        BY <4>2, <1>3
      <4> QED BY <4>1, <4>2, <4>3, <1>2, <1>3, <2>1 DEF BegunFits
    <3>3. s[i].mode = "passes" => i > 1
      BY <2>1, <2>5, <1>1 DEF FitsAt
    <3>4. WindowFits(t, i)
      BY <3>1, <3>2, <3>3, <2>1, <2>2, <2>3, <2>4, <2>5, <1>1 DEF WindowFits, MayLieOn
    <3> QED BY <3>4, <2>1, <2>5 DEF FitsAt
  <2>6. CASE s[i].kind = "triggers"
    <3>1. TriggersFit(s, i) /\ i > 1
      BY <2>1, <2>6, <1>1 DEF FitsAt
    <3>2. TriggersFit(t, i)
      BY <3>1, <2>1, <2>2, <2>3, <2>4, <2>6, <1>1 DEF TriggersFit, MayLieOn
    <3> QED BY <3>1, <3>2, <2>1, <2>6 DEF FitsAt
  <2>7. CASE s[i].kind = "resolver"
    <3>1. ResolverFits(s, i) /\ i > 1
      BY <2>1, <2>7, <1>1 DEF FitsAt
    <3>2. i > 2 => t[i - 2] = s[i - 2]
      BY <1>1, <1>2
    <3>3. ResolverFits(t, i)
      BY <3>1, <3>2, <2>1, <2>2, <2>3, <2>4, <2>7, <1>1 DEF ResolverFits, MayLieOn
    <3> QED BY <3>1, <3>3, <2>1, <2>7 DEF FitsAt
  <2> QED BY <2>5, <2>6, <2>7, FramesOfKinds
<1>7. FitsAt(t, Len(t))
  <2>1. Len(t) > 1 /\ t[Len(t) - 1] = s[Len(s)] /\ (Len(s) > 1 => t[Len(t) - 2] = s[Len(s) - 1])
    BY <1>1, <1>2
  <2>2. CASE g.kind = "window"
    <3>1. g \in Windows
      BY <2>2, FramesOfKinds
    <3>2. WindowFits(t, Len(t))
      BY <2>1, <2>2, <1>1, <3>1 DEF WindowFits, MayLieOn
    <3> QED BY <2>1, <2>2, <1>1, <3>2 DEF FitsAt
  <2>3. CASE g.kind = "triggers"
    <3>1. TriggersFit(t, Len(t))
      BY <2>1, <2>3, <1>1 DEF TriggersFit, MayLieOn
    <3> QED BY <2>1, <2>3, <1>1, <3>1 DEF FitsAt
  <2>4. CASE g.kind = "resolver"
    <3>1. ResolverFits(t, Len(t))
      BY <2>1, <2>4, <1>1 DEF ResolverFits, MayLieOn
    <3> QED BY <2>1, <2>4, <1>1, <3>1 DEF FitsAt
  <2> QED BY <2>2, <2>3, <2>4, FramesOfKinds
<1>8. \A i \in 1 .. Len(t) : FitsAt(t, i)
  BY <1>1, <1>6, <1>7
<1> QED BY <1>5, <1>8 DEF Fits, t

\* The current window once the top of the stack has ended.
CurrentBelow(s, c) ==
  IF BegunAt(s, Len(s)) THEN s[Len(s)].parent ELSE c

LEMMA PoppedFits ==
  ASSUME NEW s \in Seq(Frames), NEW c, Fits(s, c), s # <<>>
  PROVE  Fits(SubSeq(s, 1, Len(s) - 1), CurrentBelow(s, c))
<1> DEFINE t == SubSeq(s, 1, Len(s) - 1)
           d == CurrentBelow(s, c)
<1>0. Len(s) \in Nat \ {0}
  OBVIOUS
<1>1. Len(s) \in Nat \ {0} /\ Len(t) = Len(s) - 1
  <2>1. \A i \in 1 .. Len(s) - 1 : s[i] \in Frames
    BY <1>0
  <2>2. Len(t) = IF 1 <= Len(s) - 1 THEN (Len(s) - 1) - 1 + 1 ELSE 0
    BY <1>0, <2>1, SubSeqProperties
  <2>3. CASE 1 <= Len(s) - 1
    <3> HIDE DEF t
    <3> QED BY <1>0, <2>2, <2>3
  <2>4. CASE ~(1 <= Len(s) - 1)
    <3> HIDE DEF t
    <3>1. Len(t) = 0
      BY <2>2, <2>4
    <3>2. Len(s) = 1
      BY <1>0, <2>4, SMTT(40)
    <3> QED BY <3>1, <3>2
  <2> QED BY <2>3, <2>4
<1>2. \A i \in 1 .. Len(t) : t[i] = s[i] /\ i \in 1 .. Len(s)
  <2>1. 1 \in Int /\ Len(s) - 1 \in Int /\ \A i \in 1 .. Len(s) - 1 : s[i] \in Frames
    BY <1>0
  <2>2. \A i \in 1 .. Len(s) - 1 : t[i] = s[1 + i - 1]
    BY <2>1, <1>0, SubSeqProperties
  <2> QED BY <1>0, <1>1, <2>2
<1> HIDE DEF t, d
<1>3. \A i \in 1 .. Len(t) : BegunAt(t, i) <=> BegunAt(s, i)
  BY <1>1, <1>2 DEF BegunAt
<1>4. d \in 0 .. Len(t) /\ (d # 0 => BegunAt(t, d)) /\ \A i \in 1 .. Len(t) : BegunAt(t, i) => i <= d
  <2>1. CASE BegunAt(s, Len(s))
    <3>1. BegunFits(s, Len(s))
      <4>1. FitsAt(s, Len(s))
        BY <1>1 DEF Fits
      <4> QED BY <4>1, <2>1 DEF FitsAt, WindowFits, BegunAt
    <3>2. d = s[Len(s)].parent
      BY <2>1 DEF d, CurrentBelow
    <3> QED BY <3>1, <3>2, <1>1, <1>3 DEF BegunFits
  <2>2. CASE ~BegunAt(s, Len(s))
    <3>1. d = c
      BY <2>2 DEF d, CurrentBelow
    <3>2. c # Len(s)
      BY <2>2, <1>1 DEF Fits
    <3>3. c \in 0 .. Len(t)
      BY <3>2, <1>1 DEF Fits
    <3> QED BY <3>1, <3>3, <1>1, <1>2, <1>3 DEF Fits
  <2> QED BY <2>1, <2>2
<1>5. ASSUME NEW i \in 1 .. Len(t) PROVE FitsAt(t, i)
  <2>1. FitsAt(s, i) /\ t[i] = s[i] /\ i < Len(s)
    BY <1>1, <1>2 DEF Fits
  <2>2. i < Len(t) => t[i + 1] = s[i + 1]
    BY <1>1, <1>2
  <2>4. i > 1 => t[i - 1] = s[i - 1]
    BY <1>1, <1>2
  <2>5. CASE s[i].kind = "window"
    <3>1. WindowFits(s, i)
      BY <2>1, <2>5 DEF FitsAt
    <3>2. BegunFits(s, i) => BegunFits(t, i)
      <4> SUFFICES ASSUME BegunFits(s, i) PROVE BegunFits(t, i)
        OBVIOUS
      <4>1. s[i].owner \in 1 .. Len(t) /\ (s[i].parent # 0 => s[i].parent \in 1 .. Len(t))
        BY <1>1 DEF BegunFits
      <4>2. \A k \in 1 .. i - 1 : t[k] = s[k] /\ k \in 1 .. Len(t)
        BY <1>1, <1>2
      <4>3. \A k \in 1 .. i - 1 : BegunAt(t, k) <=> BegunAt(s, k)
        BY <4>2, <1>3
      <4> QED BY <4>1, <4>2, <4>3, <1>2, <1>3, <2>1 DEF BegunFits
    <3>3. s[i].mode = "passes" => i > 1
      BY <2>1, <2>5, <1>1 DEF FitsAt
    <3>4. WindowFits(t, i)
      BY <3>1, <3>2, <3>3, <2>1, <2>2, <2>4, <2>5, <1>1 DEF WindowFits
    <3> QED BY <3>4, <2>1, <2>5 DEF FitsAt
  <2>6. CASE s[i].kind = "triggers"
    <3>1. TriggersFit(s, i) /\ i > 1
      BY <2>1, <2>6, <1>1 DEF FitsAt
    <3>2. TriggersFit(t, i)
      BY <3>1, <2>1, <2>2, <2>4, <2>6, <1>1 DEF TriggersFit
    <3> QED BY <3>1, <3>2, <2>1, <2>6 DEF FitsAt
  <2>7. CASE s[i].kind = "resolver"
    <3>1. ResolverFits(s, i) /\ i > 1
      BY <2>1, <2>7, <1>1 DEF FitsAt
    <3>2. i > 2 => t[i - 2] = s[i - 2]
      BY <1>1, <1>2
    <3>3. ResolverFits(t, i)
      BY <3>1, <3>2, <2>1, <2>2, <2>4, <2>7, <1>1 DEF ResolverFits
    <3> QED BY <3>1, <3>3, <2>1, <2>7 DEF FitsAt
  <2> QED BY <2>5, <2>6, <2>7, FramesOfKinds, <1>2
<1> QED BY <1>4, <1>5 DEF Fits, t, d

-----------------------------------------------------------------------------
(* The top of the stack *)

PipelineInv == Types /\ StackFits

LEMMA TopIsFrame ==
  ASSUME Types, stack # <<>>
  PROVE  /\ n \in Nat \ {0} /\ DOMAIN stack = 1 .. n /\ n \in 1 .. n
         /\ stack \in Seq(Frames) /\ Top \in Frames
         /\ \A i \in 1 .. n : stack[i] \in Frames
BY DEF Types, n, Top

LEMMA TopReplaced ==
  ASSUME NEW s \in Seq(Frames), s # <<>>, NEW g \in Frames, NEW t,
         t = [s EXCEPT ![Len(s)] = g]
  PROVE  /\ t \in Seq(Frames) /\ Len(t) = Len(s) /\ t[Len(s)] = g /\ t # <<>>
         /\ \A i \in 1 .. Len(s) - 1 : t[i] = s[i]
BY SMTT(40)

LEMMA TopReplacedFits ==
  ASSUME NEW s \in Seq(Frames), s # <<>>, NEW c, Fits(s, c),
         NEW g \in Frames, SameRole(s[Len(s)], g), TopMayBe(s[Len(s)], g),
         NEW t, t = [s EXCEPT ![Len(s)] = g]
  PROVE  Fits(t, c)
<1>1. /\ t \in Seq(Frames) /\ Len(t) = Len(s) /\ t[Len(s)] = g
      /\ \A i \in 1 .. Len(s) - 1 : t[i] = s[i]
  BY TopReplaced, SMTT(40)
<1>2. \A i \in 1 .. Len(s) - 1 : SameRole(s[i], t[i]) /\ SameStep(s[i], t[i])
  BY <1>1, ZenonT(60) DEF SameRole, SameStep
<1>3. \A i \in 1 .. Len(s) : i \in 1 .. Len(s) - 1 \/ i = Len(s)
  OBVIOUS
<1>4. \A i \in 1 .. Len(s) : SameRole(s[i], t[i])
  BY <1>1, <1>2, <1>3, ZenonT(60)
<1>5. \A i \in 1 .. Len(s) : s[i].kind = "window" => TriggersMayBe(s, i, s[i], t[i])
  <2> SUFFICES ASSUME NEW i \in 1 .. Len(s) - 1, s[i].kind = "window"
               PROVE  SameTurn(s[i].triggers, t[i].triggers)
    BY <1>3 DEF TriggersMayBe
  <2>1. s[i] \in Windows
    BY FramesOfKinds
  <2>2. \A x \in Triggers : s[i].triggers.unresolved[x] \in Nat
    BY <2>1 DEF Windows, WindowRecords, TriggerWindows, TriggerRecords
  <2>3. \A x \in Triggers : s[i].triggers.unresolved[x] >= s[i].triggers.unresolved[x]
    BY <2>2
  <2>4. SameTurn(s[i].triggers, s[i].triggers)
    BY <2>3 DEF SameTurn
  <2> QED BY <1>1, <2>4
<1> QED BY <1>1, <1>2, <1>4, <1>5, StillFits

\* A window that has begun and is on top is the current one, and the window that
\* collects its triggers does not resolve them yet.
LEMMA TopWindowIsCurrent ==
  ASSUME PipelineInv, stack # <<>>, Top.kind = "window", Top.step # "setParentEventWindow"
  PROVE  /\ current = n /\ Top \in Windows
         /\ Top.parent \in 0 .. n - 1 /\ Top.owner \in 1 .. n
         /\ Top.parent # 0 => stack[Top.parent] \in Windows
         /\ stack[Top.owner] \in Windows
         /\ Top.step # "cleanup" => ~stack[Top.owner].triggers.started
<1>1. n \in Nat \ {0} /\ n \in 1 .. n /\ Top \in Frames /\ \A i \in 1 .. n : stack[i] \in Frames
  BY TopIsFrame DEF PipelineInv
<1>2. Top \in Windows
  BY <1>1, FramesOfKinds
<1>3. BegunAt(stack, n) /\ FitsAt(stack, n) /\ Fits(stack, current)
  BY <1>1 DEF PipelineInv, StackFits, Fits, BegunAt, n, Top
<1>4. current = n
  BY <1>1, <1>3 DEF Fits, n
<1>5. WindowFits(stack, n) /\ BegunFits(stack, n)
  BY <1>3 DEF FitsAt, WindowFits, BegunAt
<1>6. /\ Top.parent \in 0 .. n - 1 /\ Top.owner \in 1 .. n
      /\ stack[Top.owner].kind = "window" /\ stack[Top.owner].mode = "resolves"
      /\ Top.parent # 0 => stack[Top.parent].kind = "window" /\ Top.parent \in 1 .. n
      /\ \A k \in 1 .. n - 1 : stack[k].kind = "triggers" => k < Top.owner
  BY <1>5, <1>1 DEF BegunFits, BegunAt, Top
<1>7. stack[Top.owner] \in Windows /\ (Top.parent # 0 => stack[Top.parent] \in Windows)
  BY <1>1, <1>6, FramesOfKinds
<1>8. ASSUME stack[Top.owner].triggers.started PROVE Top.step = "cleanup"
  <2> DEFINE o == Top.owner
  <2>1. o \in 1 .. n /\ WindowFits(stack, o)
    BY <1>3, <1>6 DEF Fits, FitsAt, n
  <2>2. stack[o].step = "cleanup" /\ stack[o].mode = "resolves"
    BY <2>1, <1>8 DEF WindowFits
  <2>3. CASE o = n
    BY <2>2, <2>3 DEF Top
  <2>4. CASE o < n
    <3>1. stack[o + 1].kind = "triggers"
      BY <2>1, <2>2, <2>4 DEF WindowFits, n
    <3>2. o + 1 # n
      BY <3>1 DEF Top
    <3>3. o + 1 \in 1 .. n - 1
      BY <2>1, <2>4, <3>2, <1>1
    <3> QED BY <3>1, <3>3, <1>6
  <2> QED BY <2>1, <2>3, <2>4, <1>1
<1> QED BY <1>2, <1>4, <1>6, <1>7, <1>8

-----------------------------------------------------------------------------
(* Events *)

LEMMA NewEventTyped ==
  ASSUME NEW listeners \in Listening
  PROVE  NewEvent(listeners) \in EventRecords
<1>1. listeners \subseteq Abilities
  BY AbilitiesAssumption
<1> QED BY <1>1 DEF NewEvent, EventRecords, Statuses

LEMMA UnusedEventTyped == UnusedEvent \in EventRecords
<1>1. NewEvent({}) \in EventRecords
  BY DEF NewEvent, EventRecords, Statuses
<1> QED BY <1>1 DEF UnusedEvent, EventRecords, Statuses

\* A set of numbers has a smallest element.
LEMMA SmallerIsWellFounded ==
  \E smaller : /\ IsWellFoundedOn(smaller, Nat)
               /\ \A j, k \in Nat : <<j, k>> \in smaller <=> j < k
<1>1. \A j, k \in Nat : <<j, k>> \in OpToRel(<, Nat) <=> j < k
  BY DEF OpToRel
<1> QED BY <1>1, NatLessThanWellFounded, Zenon

LEMMA SmallestOfNats ==
  ASSUME NEW S \in SUBSET Nat, S # {}
  PROVE  \E k \in S : \A j \in S : k <= j
<1>1. PICK smaller : /\ IsWellFoundedOn(smaller, Nat)
                     /\ \A j, k \in Nat : <<j, k>> \in smaller <=> j < k
  BY SmallerIsWellFounded
<1>2. IsWellFoundedOn(smaller, Nat)
  BY <1>1
<1>3. \E k \in S : \A j \in S : ~(<<j, k>> \in smaller)
  BY <1>2, WFMin
<1>4. PICK k \in S : \A j \in S : ~(<<j, k>> \in smaller)
  BY <1>3
<1>5. ASSUME NEW j \in S PROVE k <= j
  <2>1. j \in Nat /\ k \in Nat
    OBVIOUS
  <2>2. ~(<<j, k>> \in smaller)
    BY <1>4
  <2>3. ~(j < k)
    BY <1>1, <2>1, <2>2
  <2> QED BY <2>1, <2>3
<1> QED BY <1>5

LEMMA NextUnusedIsUnused ==
  ASSUME Unused # {}
  PROVE  NextUnused \in EventIds /\ events[NextUnused].status = "unused"
<1>1. Unused \subseteq Nat
  BY BoundsAssumption DEF Unused, EventIds
<1>2. \E e \in Unused : \A f \in Unused : e <= f
  BY <1>1, SmallestOfNats
<1>3. NextUnused \in Unused
  BY <1>2 DEF NextUnused
<1> QED BY <1>3 DEF Unused

LEMMA StatusTyped ==
  ASSUME events \in [EventIds -> EventRecords], NEW e \in EventIds, NEW x \in Statuses
  PROVE  [events EXCEPT ![e].status = x] \in [EventIds -> EventRecords]
BY DEF EventRecords

LEMMA HeardTyped ==
  ASSUME events \in [EventIds -> EventRecords], NEW evs \in Seq(EventIds),
         NEW first \in BOOLEAN
  PROVE  Heard(evs, first) \in [EventIds -> EventRecords]
<1> SUFFICES ASSUME NEW e \in EventIds PROVE Heard(evs, first)[e] \in EventRecords
  BY DEF Heard
<1>1. events[e] \in EventRecords
  OBVIOUS
<1> DEFINE on == {a \in events[e].listeners : presence[a] = "on"}
           missed == IF first THEN {a \in events[e].listeners : presence[a] = "blanked"}
                     ELSE events[e].missed
<1>2. on \in SUBSET Abilities /\ missed \in SUBSET Abilities
  BY <1>1 DEF EventRecords
<1>3. [events[e] EXCEPT !.missed = missed, !.due = @ \cup (on \ missed)] \in EventRecords
  <2> HIDE DEF on, missed
  <2> QED BY <1>1, <1>2 DEF EventRecords
<1> QED BY <1>1, <1>3 DEF Heard

-----------------------------------------------------------------------------
(* Steps that change the window on top *)

LEMMA TopWindowChanges ==
  ASSUME PipelineInv, stack # <<>>, Top.kind = "window",
         NEW g \in Windows, g.mode = Top.mode, g.parent = Top.parent,
         g.owner = Top.owner, g.triggers = Top.triggers,
         (g.step = "setParentEventWindow") <=> (Top.step = "setParentEventWindow"),
         g.step = "resolveTriggersIfNecessary" => g.mode = "resolves",
         Top.step = "cleanup" => g.step = "cleanup",
         NEW t, t = SetTop(g)
  PROVE  t \in Seq(Frames) /\ Fits(t, current)
<1>1. /\ n \in 1 .. n /\ Top \in Frames /\ stack \in Seq(Frames) /\ g \in Frames
      /\ Fits(stack, current)
  BY TopIsFrame DEF PipelineInv, StackFits, Frames
<1>2. Top \in Windows /\ g.kind = "window" /\ WindowFits(stack, n)
  BY <1>1, FramesOfKinds DEF Fits, FitsAt, n, Top, Windows, WindowRecords
<1>3. SameRole(Top, g)
  BY <1>2 DEF SameRole
<1>4. TopMayBe(Top, g)
  BY <1>2 DEF TopMayBe, WindowFits, Top
<1>5. t \in Seq(Frames)
  BY <1>1, TopReplaced DEF SetTop, n
<1>6. Fits(t, current)
  BY <1>1, <1>3, <1>4, TopReplacedFits DEF SetTop, n, Top
<1> QED BY <1>5, <1>6

LEMMA ElementsOfRemoveAt ==
  ASSUME NEW S, NEW s \in Seq(S), NEW i \in 1 .. Len(s)
  PROVE  RemoveAt(s, i) \in Seq(S) /\ ToSet(RemoveAt(s, i)) \subseteq ToSet(s)
<1> DEFINE front == SubSeq(s, 1, i - 1)
           back == SubSeq(s, i + 1, Len(s))
<1>1. /\ front \in Seq(S)
      /\ \A j \in 1 .. Len(front) : front[j] \in ToSet(s)
  <2>1. \A j \in 1 .. i - 1 : s[j] \in S
    OBVIOUS
  <2>2. front \in Seq(S) /\ Len(front) = IF 1 <= i - 1 THEN i - 1 - 1 + 1 ELSE 0
    BY <2>1, SubSeqProperties
  <2>3. \A j \in 1 .. (i - 1) - 1 + 1 : front[j] = s[1 + j - 1]
    BY <2>1, SubSeqProperties
  <2>4. Len(front) = i - 1
    <3> HIDE DEF front
    <3>1. CASE 1 <= i - 1
      BY <2>2, <3>1
    <3>2. CASE ~(1 <= i - 1)
      <4>1. Len(front) = 0
        BY <2>2, <3>2
      <4>2. i = 1
        BY <3>2
      <4> QED BY <4>1, <4>2
    <3> QED BY <3>1, <3>2
  <2> HIDE DEF front
  <2>5. ASSUME NEW j \in 1 .. Len(front) PROVE front[j] \in ToSet(s)
    <3>1. j \in 1 .. Len(s) /\ front[j] = s[j]
      BY <2>3, <2>4
    <3> QED BY <3>1 DEF ToSet
  <2> QED BY <2>2, <2>5
<1>2. /\ back \in Seq(S)
      /\ \A j \in 1 .. Len(back) : back[j] \in ToSet(s)
  <2>0. Len(s) \in Nat
    OBVIOUS
  <2>1. \A j \in i + 1 .. Len(s) : s[j] \in S
    OBVIOUS
  <2>2. back \in Seq(S) /\ Len(back) = IF i + 1 <= Len(s) THEN Len(s) - (i + 1) + 1 ELSE 0
    BY <2>0, <2>1, SubSeqProperties
  <2>3. \A j \in 1 .. Len(s) - (i + 1) + 1 : back[j] = s[i + 1 + j - 1]
    BY <2>0, <2>1, SubSeqProperties
  <2>4. Len(back) = Len(s) - i
    <3> HIDE DEF back
    <3>1. CASE i + 1 <= Len(s)
      BY <2>0, <2>2, <3>1
    <3>2. CASE ~(i + 1 <= Len(s))
      <4>1. Len(back) = 0
        BY <2>2, <3>2
      <4>2. i = Len(s)
        BY <2>0, <3>2
      <4> QED BY <4>1, <4>2
    <3> QED BY <3>1, <3>2
  <2> HIDE DEF back
  <2>5. ASSUME NEW j \in 1 .. Len(back) PROVE back[j] \in ToSet(s)
    <3>1. i + j \in 1 .. Len(s) /\ back[j] = s[i + j]
      BY <2>0, <2>3, <2>4
    <3> QED BY <3>1 DEF ToSet
  <2> QED BY <2>2, <2>5
<1> HIDE DEF front, back
<1>3. front \o back \in Seq(S) /\ ToSet(front \o back) \subseteq ToSet(s)
  <2>1. ASSUME NEW j \in DOMAIN (front \o back) PROVE (front \o back)[j] \in ToSet(s)
    <3>1. Len(front) \in Nat /\ Len(back) \in Nat /\ j \in 1 .. Len(front) + Len(back)
      BY <1>1, <1>2
    <3>2. CASE j <= Len(front)
      BY <1>1, <1>2, <3>1, <3>2
    <3>3. CASE j > Len(front)
      <4>1. j - Len(front) \in 1 .. Len(back) /\ (front \o back)[j] = back[j - Len(front)]
        BY <1>1, <1>2, <3>1, <3>3
      <4> QED BY <4>1, <1>2
    <3> QED BY <3>1, <3>2, <3>3
  <2> QED BY <1>1, <1>2, <2>1 DEF ToSet
<1> QED BY <1>3 DEF RemoveAt, front, back

LEMMA ElementsOfRemoveFirst ==
  ASSUME NEW S, NEW s \in Seq(S), NEW e
  PROVE  RemoveFirst(s, e) \in Seq(S) /\ ToSet(RemoveFirst(s, e)) \subseteq ToSet(s)
<1>1. CASE ~\E i \in 1 .. Len(s) : s[i] = e
  BY <1>1 DEF RemoveFirst
<1>2. CASE \E i \in 1 .. Len(s) : s[i] = e
  <2> DEFINE I == {i \in 1 .. Len(s) : s[i] = e}
  <2>1. I \in SUBSET Nat /\ I # {}
    BY <1>2
  <2>2. \E k \in I : \A j \in I : k <= j
    BY <2>1, SmallestOfNats
  <2>3. SelectInSeq(s, LAMBDA v : v = e) = Min(I)
    BY <2>1 DEF SelectInSeq
  <2>4. Min(I) \in 1 .. Len(s)
    BY <2>2 DEF Min
  <2>5. RemoveFirst(s, e) = RemoveAt(s, Min(I))
    BY <1>2, <2>3 DEF RemoveFirst
  <2> QED BY <2>4, <2>5, ElementsOfRemoveAt
<1> QED BY <1>1, <1>2

LEMMA EventPreventedKeeps ==
  ASSUME PipelineInv, NEW e \in EventIds, EventPrevented(e)
  PROVE  PipelineInv'
<1> DEFINE g == [Top EXCEPT !.step = "emitEvents", !.events = RemoveFirst(@, e)]
<1>1. /\ stack # <<>> /\ Top.kind = "window" /\ Top.step = "openReplacementEffectWindow"
  BY DEF EventPrevented, AtStep
<1>2. Top \in Windows
  BY <1>1, TopWindowIsCurrent
<1>3. RemoveFirst(Top.events, e) \in Seq(EventIds)
  BY <1>2, ElementsOfRemoveFirst DEF Windows, WindowRecords
<1>4. g \in Windows
  BY <1>2, <1>3 DEF Windows, WindowRecords, WindowSteps, KnowsItsTrigger
<1>5. /\ g.mode = Top.mode /\ g.parent = Top.parent /\ g.owner = Top.owner
      /\ g.triggers = Top.triggers /\ g.step = "emitEvents"
  BY <1>2 DEF Windows, WindowRecords
<1> HIDE DEF g
<1>6. stack' \in Seq(Frames) /\ Fits(stack', current)
  <2>1. stack' = SetTop(g)
    BY DEF EventPrevented, g
  <2> QED BY <1>1, <1>4, <1>5, <2>1, TopWindowChanges
<1>7. events' \in [EventIds -> EventRecords]
  BY StatusTyped DEF EventPrevented, PipelineInv, Types, Statuses
<1> QED BY <1>6, <1>7 DEF EventPrevented, PipelineInv, Types, StackFits

LEMMA EventReplacedKeeps ==
  ASSUME PipelineInv, NEW e \in EventIds, NEW listeners \in Listening,
         EventReplaced(e, listeners)
  PROVE  PipelineInv'
<1> DEFINE g == [Top EXCEPT !.step = "emitEvents", !.events = Append(@, NextUnused)]
<1>1. /\ stack # <<>> /\ Top.kind = "window" /\ Top.step = "openReplacementEffectWindow"
  BY DEF EventReplaced, AtStep
<1>2. Top \in Windows
  BY <1>1, TopWindowIsCurrent
<1>3. NextUnused \in EventIds
  BY NextUnusedIsUnused DEF EventReplaced
<1>4. g \in Windows
  <2>1. ASSUME NEW evs \in Seq(EventIds)
        PROVE  [Top EXCEPT !.step = "emitEvents", !.events = evs] \in Windows
    BY <1>2 DEF Windows, WindowRecords, WindowSteps, KnowsItsTrigger
  <2>2. Append(Top.events, NextUnused) \in Seq(EventIds)
    BY <1>2, <1>3 DEF Windows, WindowRecords
  <2> QED BY <2>1, <2>2
<1>5. /\ g.mode = Top.mode /\ g.parent = Top.parent /\ g.owner = Top.owner
      /\ g.triggers = Top.triggers /\ g.step = "emitEvents"
  BY <1>2 DEF Windows, WindowRecords
<1> HIDE DEF g
<1>6. stack' \in Seq(Frames) /\ Fits(stack', current)
  <2>1. stack' = SetTop(g)
    BY DEF EventReplaced, g
  <2> QED BY <1>1, <1>4, <1>5, <2>1, TopWindowChanges
<1>7. events' \in [EventIds -> EventRecords]
  <2> DEFINE evs == [events EXCEPT ![e].status = "replaced"]
  <2>1. evs \in [EventIds -> EventRecords]
    BY StatusTyped DEF PipelineInv, Types, Statuses
  <2>2. [evs EXCEPT ![e].by = NextUnused] \in [EventIds -> EventRecords]
    <3> HIDE DEF evs
    <3> QED BY <2>1, <1>3 DEF EventRecords
  <2>3. NewEvent(listeners) \in EventRecords
    BY NewEventTyped
  <2>4. events' = [[evs EXCEPT ![e].by = NextUnused] EXCEPT ![NextUnused] = NewEvent(listeners)]
    BY DEF EventReplaced
  <2> QED BY <1>3, <2>2, <2>3, <2>4
<1> QED BY <1>6, <1>7 DEF EventReplaced, PipelineInv, Types, StackFits

\* An event that happens: the next of the events of the window on top.
LEMMA NextEvent ==
  ASSUME PipelineInv, NEW e, IsNext(e)
  PROVE  /\ stack # <<>> /\ Top.kind = "window" /\ Top.step = "resolveEvents"
         /\ Top \in Windows /\ e \in EventIds /\ current = n
         /\ e \in ToSet(Top.events) /\ events[e].status = "created"
<1>1. /\ stack # <<>> /\ Top.kind = "window" /\ Top.step = "resolveEvents"
  BY DEF IsNext, AtStep
<1>2. Top \in Windows /\ current = n
  BY <1>1, TopWindowIsCurrent
<1>3. PICK i \in Unresolved(Top) : Top.events[i] = e
  BY DEF IsNext
<1>4. i \in DOMAIN Top.events /\ events[e].status = "created"
  BY <1>3 DEF Unresolved
<1>5. e \in EventIds /\ e \in ToSet(Top.events)
  BY <1>2, <1>3, <1>4 DEF Windows, WindowRecords, ToSet
<1> QED BY <1>1, <1>2, <1>4, <1>5

LEMMA ResolvedTyped ==
  ASSUME PipelineInv, NEW e \in EventIds
  PROVE  Resolved(e) \in [EventIds -> EventRecords]
BY StatusTyped DEF Resolved, PipelineInv, Types, Statuses

LEMMA TopResolvedFits ==
  ASSUME PipelineInv, NEW e, IsNext(e)
  PROVE  TopResolved(e) \in Seq(Frames) /\ Fits(TopResolved(e), current)
<1> DEFINE g == [Top EXCEPT !.resolved = Append(@, e)]
<1>1. /\ stack # <<>> /\ Top.kind = "window" /\ Top.step = "resolveEvents"
      /\ Top \in Windows /\ e \in EventIds
  BY NextEvent
<1>2. g \in Windows
  <2>1. ASSUME NEW evs \in Seq(EventIds) PROVE [Top EXCEPT !.resolved = evs] \in Windows
    BY <1>1 DEF Windows, WindowRecords, KnowsItsTrigger
  <2>2. Append(Top.resolved, e) \in Seq(EventIds)
    BY <1>1 DEF Windows, WindowRecords
  <2> QED BY <2>1, <2>2
<1>3. /\ g.mode = Top.mode /\ g.parent = Top.parent /\ g.owner = Top.owner
      /\ g.triggers = Top.triggers /\ g.step = Top.step
  BY <1>1 DEF Windows, WindowRecords
<1> HIDE DEF g
<1>4. TopResolved(e) = SetTop(g)
  BY DEF TopResolved, g
<1> QED BY <1>1, <1>2, <1>3, <1>4, TopWindowChanges

LEMMA EventFizzlesKeeps ==
  ASSUME PipelineInv, NEW e \in EventIds, EventFizzles(e)
  PROVE  PipelineInv'
<1> DEFINE g == [Top EXCEPT !.events = RemoveFirst(@, e)]
<1>1. /\ stack # <<>> /\ Top.kind = "window" /\ Top.step = "resolveEvents" /\ Top \in Windows
  BY NextEvent DEF EventFizzles
<1>2. RemoveFirst(Top.events, e) \in Seq(EventIds)
  BY <1>1, ElementsOfRemoveFirst DEF Windows, WindowRecords
<1>3. g \in Windows
  BY <1>1, <1>2 DEF Windows, WindowRecords, KnowsItsTrigger
<1>4. /\ g.mode = Top.mode /\ g.parent = Top.parent /\ g.owner = Top.owner
      /\ g.triggers = Top.triggers /\ g.step = Top.step
  BY <1>1 DEF Windows, WindowRecords
<1> HIDE DEF g
<1>5. stack' \in Seq(Frames) /\ Fits(stack', current)
  <2>1. stack' = SetTop(g)
    BY DEF EventFizzles, g
  <2> QED BY <1>1, <1>3, <1>4, <2>1, TopWindowChanges
<1>6. events' \in [EventIds -> EventRecords]
  BY StatusTyped DEF EventFizzles, PipelineInv, Types, Statuses
<1> QED BY <1>5, <1>6 DEF EventFizzles, PipelineInv, Types, StackFits

LEMMA EventResolvesKeeps ==
  ASSUME PipelineInv, NEW e \in EventIds, EventResolves(e)
  PROVE  PipelineInv'
<1>1. stack' \in Seq(Frames) /\ Fits(stack', current)
  BY TopResolvedFits DEF EventResolves
<1>2. events' \in [EventIds -> EventRecords]
  BY ResolvedTyped DEF EventResolves
<1> QED BY <1>1, <1>2 DEF EventResolves, PipelineInv, Types, StackFits

LEMMA EventChangesEffectKeeps ==
  ASSUME PipelineInv, NEW e \in EventIds, NEW a \in Unsteady, EventChangesEffect(e, a)
  PROVE  PipelineInv'
<1>1. stack' \in Seq(Frames) /\ Fits(stack', current)
  BY TopResolvedFits DEF EventChangesEffect
<1>2. events' \in [EventIds -> EventRecords]
  BY ResolvedTyped DEF EventChangesEffect
<1>3. legal' \in SUBSET Abilities /\ changes' \in Nat
  BY AbilitiesAssumption DEF EventChangesEffect, CountChange, PipelineInv, Types
<1> QED BY <1>1, <1>2, <1>3 DEF EventChangesEffect, PipelineInv, Types, StackFits

LEMMA EventBlanksCardKeeps ==
  ASSUME PipelineInv, NEW e \in EventIds, NEW a \in Unsteady, EventBlanksCard(e, a)
  PROVE  PipelineInv'
<1>1. stack' \in Seq(Frames) /\ Fits(stack', current)
  BY TopResolvedFits DEF EventBlanksCard
<1>2. events' \in [EventIds -> EventRecords]
  BY ResolvedTyped DEF EventBlanksCard
<1>3. presence' \in [Abilities -> Presences] /\ changes' \in Nat
  BY AbilitiesAssumption DEF EventBlanksCard, CountChange, PipelineInv, Types, Presences
<1> QED BY <1>1, <1>2, <1>3 DEF EventBlanksCard, PipelineInv, Types, StackFits

LEMMA NewTriggerWindowTyped ==
  ASSUME NEW evs \in SUBSET EventIds
  PROVE  NewTriggerWindow(evs) \in TriggerWindows /\ ~NewTriggerWindow(evs).started
<1>1. NewTriggerWindow(evs) \in TriggerRecords /\ ~NewTriggerWindow(evs).started
  BY DEF NewTriggerWindow, TriggerRecords
<1> QED BY <1>1 DEF TriggerWindows, TurnsInOrder

LEMMA EventWindowTyped ==
  ASSUME NEW evs \in Seq(EventIds), NEW mode \in Modes, NEW subMode \in Modes,
         NEW subStep \in SubSteps, NEW trigger \in Triggers \cup {<<>>},
         subStep # "none" => trigger \in Triggers,
         NEW w, w = EventWindow(evs, mode, subMode, subStep, trigger)
  PROVE  /\ w \in Windows /\ w.kind = "window" /\ w.step = "setParentEventWindow"
         /\ w.mode = mode /\ w.subMode = subMode /\ w.subStep = subStep
         /\ w.trigger = trigger /\ w.events = evs /\ w.opened = evs
         /\ w.subwindow = <<>> /\ w.queued = <<>> /\ w.resolved = <<>> /\ ~w.initiates
         /\ ~w.triggers.started
         /\ w.triggers = NewTriggerWindow(IF mode = "resolves" THEN ToSet(evs) ELSE {})
<1> DEFINE tw == NewTriggerWindow(IF mode = "resolves" THEN ToSet(evs) ELSE {})
<1>1. tw \in TriggerWindows /\ ~tw.started
  <2>1. ToSet(evs) \subseteq EventIds
    BY DEF ToSet
  <2> QED BY <2>1, NewTriggerWindowTyped
<1> HIDE DEF tw
<1>2. /\ w.kind = "window" /\ w.step = "setParentEventWindow"
      /\ w.mode = mode /\ w.subMode = subMode /\ w.subStep = subStep
      /\ w.trigger = trigger /\ w.events = evs /\ w.opened = evs
      /\ w.subwindow = <<>> /\ w.queued = <<>> /\ w.resolved = <<>> /\ ~w.initiates
      /\ w.triggers = tw
  BY DEF EventWindow, tw
<1>3. w \in WindowRecords
  BY <1>1 DEF EventWindow, tw, WindowRecords, WindowSteps
<1> QED BY <1>1, <1>2, <1>3 DEF Windows, KnowsItsTrigger, tw

LEMMA InitiateWindowTyped ==
  ASSUME NEW r \in Resolvers, NEW w, w = InitiateWindow(r)
  PROVE  /\ w \in Windows /\ w.kind = "window" /\ w.step = "setParentEventWindow"
         /\ w.mode = r.mode /\ w.subMode = "resolves" /\ w.events = <<>>
         /\ w.subwindow = <<>> /\ w.queued = <<>> /\ w.resolved = <<>>
         /\ ~w.triggers.started /\ w.triggers = NewTriggerWindow({})
<1> DEFINE v == EventWindow(<<>>, r.mode, "resolves", r.subStep, r.trigger)
<1>1. r.mode \in Modes /\ r.subStep \in SubSteps /\ r.trigger \in Triggers
  BY DEF Resolvers
<1>2. /\ v \in Windows /\ v.kind = "window" /\ v.step = "setParentEventWindow"
      /\ v.mode = r.mode /\ v.subMode = "resolves" /\ v.events = <<>>
      /\ v.subwindow = <<>> /\ v.queued = <<>> /\ v.resolved = <<>>
      /\ ~v.triggers.started /\ v.trigger = r.trigger
      /\ v.triggers = NewTriggerWindow(IF r.mode = "resolves" THEN ToSet(<<>>) ELSE {})
  <2>1. <<>> \in Seq(EventIds) /\ "resolves" \in Modes /\ r.trigger \in Triggers \cup {<<>>}
    BY <1>1 DEF Modes
  <2>2. v = EventWindow(<<>>, r.mode, "resolves", r.subStep, r.trigger)
    OBVIOUS
  <2> HIDE DEF v
  <2>3. ASSUME NEW evs \in Seq(EventIds), NEW mode \in Modes, NEW subStep \in SubSteps,
               NEW trigger \in Triggers, v = EventWindow(evs, mode, "resolves", subStep, trigger)
        PROVE  /\ v \in Windows /\ v.kind = "window" /\ v.step = "setParentEventWindow"
               /\ v.mode = mode /\ v.subMode = "resolves" /\ v.events = evs
               /\ v.subwindow = <<>> /\ v.queued = <<>> /\ v.resolved = <<>>
               /\ ~v.triggers.started /\ v.trigger = trigger
               /\ v.triggers = NewTriggerWindow(IF mode = "resolves" THEN ToSet(evs) ELSE {})
    BY <2>1, <2>3, EventWindowTyped
  <2> QED BY <1>1, <2>1, <2>2, <2>3, Zenon
<1>3. ToSet(<<>>) = {}
  BY DEF ToSet
<1>4. w = [v EXCEPT !.initiates = TRUE]
  BY DEF InitiateWindow
<1> HIDE DEF v
<1>5. w \in Windows
  BY <1>1, <1>2, <1>4 DEF Windows, WindowRecords, KnowsItsTrigger
<1>6. v \in WindowRecords
  BY <1>2 DEF Windows
<1>7. /\ w.kind = v.kind /\ w.step = v.step /\ w.mode = v.mode /\ w.subMode = v.subMode
      /\ w.events = v.events /\ w.subwindow = v.subwindow /\ w.queued = v.queued
      /\ w.resolved = v.resolved /\ w.triggers = v.triggers
  BY <1>4, <1>6 DEF WindowRecords
<1> QED BY <1>2, <1>3, <1>5, <1>7

LEMMA AbilityResolverTyped ==
  ASSUME NEW trigger \in Triggers, NEW mode \in Modes, NEW role \in {"trigger", "subStep"},
         NEW r, r = AbilityResolver(trigger, mode, role)
  PROVE  /\ r \in Resolvers /\ r.kind = "resolver" /\ r.mode = mode /\ r.role = role
         /\ r.trigger = trigger
<1>1. trigger[1] \in Abilities
  BY DEF Triggers
<1>2. SubStepOf[trigger[1]] \in SubSteps
  BY <1>1, AbilitiesAssumption DEF SubSteps
<1> QED BY <1>2 DEF AbilityResolver, Resolvers, SubSteps

LEMMA SubAbilityStepTyped ==
  ASSUME NEW trigger \in Triggers, NEW subStep, NEW r, r = SubAbilityStep(trigger, subStep)
  PROVE  /\ r \in Resolvers /\ r.kind = "resolver" /\ r.role = "subStep"
         /\ r.mode = IF subStep = "then" THEN "passes" ELSE "resolves"
<1> DEFINE mode == IF subStep = "then" THEN "passes" ELSE "resolves"
<1>1. mode \in Modes
  BY DEF Modes
<1> HIDE DEF mode
<1>2. r = AbilityResolver(trigger, mode, "subStep")
  BY DEF SubAbilityStep, mode
<1>3. /\ r \in Resolvers /\ r.kind = "resolver" /\ r.role = "subStep" /\ r.mode = mode
  BY <1>1, <1>2, AbilityResolverTyped
<1> QED BY <1>3 DEF mode

\* The window on top queues a step: the step lies on the changed window.
LEMMA PushedOnWindow ==
  ASSUME PipelineInv, stack # <<>>, Top.kind = "window",
         NEW g \in Windows, g.mode = Top.mode, g.parent = Top.parent,
         g.owner = Top.owner, g.triggers = Top.triggers,
         (g.step = "setParentEventWindow") <=> (Top.step = "setParentEventWindow"),
         g.step = "resolveTriggersIfNecessary" => g.mode = "resolves",
         Top.step = "cleanup" => g.step = "cleanup",
         NEW f \in Frames, MayLieOn(f, g), f.kind = "resolver" => f.role = "subStep",
         NEW t, t = SetTop(g) \o <<f>> \/ t = Append(SetTop(g), f)
  PROVE  t \in Seq(Frames) /\ Fits(t, current)
<1> DEFINE s == SetTop(g)
<1>1. s \in Seq(Frames) /\ Fits(s, current)
  BY TopWindowChanges
<1>2. s # <<>> /\ s[Len(s)] = g
  <2>1. stack \in Seq(Frames) /\ g \in Frames
    BY TopIsFrame DEF PipelineInv, Frames
  <2> QED BY <2>1, TopReplaced DEF SetTop, n
<1> HIDE DEF s
<1>3. t = Append(s, f)
  BY <1>1 DEF s
<1>4. t \in Seq(Frames)
  BY <1>1, <1>3
<1>5. ~(f.kind = "resolver" /\ f.role = "trigger")
  OBVIOUS
<1>6. Fits(t, current)
  BY <1>1, <1>2, <1>3, <1>5, PushedFits
<1> QED BY <1>4, <1>6

\* The first unused event becomes a new one.
LEMMA NewEventAdded ==
  ASSUME NEW evs \in [EventIds -> EventRecords], Unused # {}, NEW listeners \in Listening
  PROVE  [evs EXCEPT ![NextUnused] = NewEvent(listeners)] \in [EventIds -> EventRecords]
BY NextUnusedIsUnused, NewEventTyped

LEMMA EventDefeatsCardKeeps ==
  ASSUME PipelineInv, NEW e \in EventIds, NEW listeners \in Listening,
         EventDefeatsCard(e, listeners)
  PROVE  PipelineInv'
<1> DEFINE h == [Top EXCEPT !.resolved = Append(@, e)]
           g == [h EXCEPT !.subwindow = @ \o <<NextUnused>>]
<1>1. /\ stack # <<>> /\ Top.kind = "window" /\ Top.step = "resolveEvents"
      /\ Top \in Windows /\ current = n
  BY NextEvent DEF EventDefeatsCard
<1>2. NextUnused \in EventIds
  BY NextUnusedIsUnused DEF EventDefeatsCard
<1>3. h \in Windows /\ h.subwindow = Top.subwindow /\ h.mode = Top.mode
      /\ h.parent = Top.parent /\ h.owner = Top.owner
      /\ h.triggers = Top.triggers /\ h.step = Top.step
  <2>1. ASSUME NEW evs \in Seq(EventIds) PROVE [Top EXCEPT !.resolved = evs] \in Windows
    BY <1>1 DEF Windows, WindowRecords, KnowsItsTrigger
  <2>2. Append(Top.resolved, e) \in Seq(EventIds)
    BY <1>1 DEF Windows, WindowRecords
  <2> QED BY <1>1, <2>1, <2>2 DEF Windows, WindowRecords
<1>4. stack' = SetTop(g)
  <2>1. n \in DOMAIN stack
    BY <1>1, TopIsFrame DEF PipelineInv
  <2>2. stack' = [SetTop(h) EXCEPT ![n].subwindow = @ \o <<NextUnused>>]
    BY <1>1 DEF EventDefeatsCard, AddSubwindowEvents, TopResolved
  <2> HIDE DEF h
  <2> QED BY <2>1, <2>2 DEF SetTop
<1> HIDE DEF h
<1>5. g \in Windows /\ g.mode = h.mode /\ g.parent = h.parent /\ g.owner = h.owner
      /\ g.triggers = h.triggers /\ g.step = h.step
  <2>1. ASSUME NEW evs \in Seq(EventIds) PROVE [h EXCEPT !.subwindow = evs] \in Windows
    BY <1>3 DEF Windows, WindowRecords, KnowsItsTrigger
  <2>2. h.subwindow \o <<NextUnused>> \in Seq(EventIds)
    BY <1>2, <1>3 DEF Windows, WindowRecords
  <2>3. g \in Windows
    BY <2>1, <2>2
  <2> QED BY <1>3, <2>3 DEF Windows, WindowRecords
<1> HIDE DEF g
<1>6. stack' \in Seq(Frames) /\ Fits(stack', current)
  BY <1>1, <1>3, <1>4, <1>5, TopWindowChanges
<1>7. events' \in [EventIds -> EventRecords]
  BY ResolvedTyped, NewEventAdded DEF EventDefeatsCard
<1> QED BY <1>6, <1>7 DEF EventDefeatsCard, PipelineInv, Types, StackFits

LEMMA EventOpensWindowKeeps ==
  ASSUME PipelineInv, NEW e \in EventIds, NEW listeners \in Listening,
         NEW modes \in NestedModes, EventOpensWindow(e, modes, listeners)
  PROVE  PipelineInv'
<1> DEFINE q == [event |-> NextUnused, modes |-> modes]
           g == [Top EXCEPT !.resolved = Append(@, e), !.queued = Append(@, q)]
<1>1. /\ stack # <<>> /\ Top.kind = "window" /\ Top.step = "resolveEvents"
      /\ Top \in Windows
  BY NextEvent DEF EventOpensWindow
<1>2. q \in QueuedWindows
  BY NextUnusedIsUnused DEF EventOpensWindow, QueuedWindows
<1>3. stack' = SetTop(g)
  BY DEF EventOpensWindow
<1> HIDE DEF q
<1>4. g \in Windows
  <2>1. ASSUME NEW evs \in Seq(EventIds), NEW qs \in Seq(QueuedWindows)
        PROVE [Top EXCEPT !.resolved = evs, !.queued = qs] \in Windows
    BY <1>1 DEF Windows, WindowRecords, KnowsItsTrigger
  <2>2. Append(Top.resolved, e) \in Seq(EventIds) /\ Append(Top.queued, q) \in Seq(QueuedWindows)
    BY <1>1, <1>2 DEF Windows, WindowRecords
  <2> QED BY <2>1, <2>2
<1>5. /\ g.mode = Top.mode /\ g.parent = Top.parent /\ g.owner = Top.owner
      /\ g.triggers = Top.triggers /\ g.step = Top.step
  BY <1>1 DEF Windows, WindowRecords
<1> HIDE DEF g
<1>6. stack' \in Seq(Frames) /\ Fits(stack', current)
  BY <1>1, <1>3, <1>4, <1>5, TopWindowChanges
<1>7. events' \in [EventIds -> EventRecords]
  BY ResolvedTyped, NewEventAdded DEF EventOpensWindow
<1> QED BY <1>6, <1>7 DEF EventOpensWindow, PipelineInv, Types, StackFits

LEMMA QueuedWindowKeeps ==
  ASSUME PipelineInv, QueuedWindow
  PROVE  PipelineInv'
<1> DEFINE q == Head(Top.queued)
           f == EventWindow(<<q.event>>, q.modes[1], q.modes[2], "none", <<>>)
           g == [Top EXCEPT !.queued = Tail(@)]
<1>1. /\ stack # <<>> /\ Top.kind = "window" /\ Top.step = "resolveEvents" /\ Top.queued # <<>>
  BY DEF QueuedWindow, EventsAreResolved, AtStep
<1>2. Top \in Windows /\ Top.queued \in Seq(QueuedWindows)
  <2>1. Top \in Windows
    BY <1>1, TopWindowIsCurrent
  <2> QED BY <2>1 DEF Windows, WindowRecords
<1>3. q \in QueuedWindows /\ Tail(Top.queued) \in Seq(QueuedWindows)
  BY <1>1, <1>2
<1>4. stack' = SetTop(g) \o <<f>>
  BY DEF QueuedWindow
<1>5. g \in Windows
  <2>1. ASSUME NEW qs \in Seq(QueuedWindows) PROVE [Top EXCEPT !.queued = qs] \in Windows
    BY <1>2 DEF Windows, WindowRecords, KnowsItsTrigger
  <2> QED BY <1>3, <2>1
<1>6. /\ g.mode = Top.mode /\ g.parent = Top.parent /\ g.owner = Top.owner
      /\ g.triggers = Top.triggers /\ g.step = Top.step /\ g.kind = "window"
  BY <1>2 DEF Windows, WindowRecords
<1> HIDE DEF g
<1>7. f \in Windows /\ f.kind = "window" /\ f.step = "setParentEventWindow" /\ ~f.triggers.started
  <2> HIDE DEF q
  <2>1. <<q.event>> \in Seq(EventIds) /\ q.modes[1] \in Modes /\ q.modes[2] \in Modes
    BY <1>3 DEF QueuedWindows, NestedModes, Modes
  <2>2. "none" \in SubSteps /\ <<>> \in Triggers \cup {<<>>}
    BY DEF SubSteps
  <2> DEFINE evs == <<q.event>>
             m1 == q.modes[1]
             m2 == q.modes[2]
  <2>3. f = EventWindow(evs, m1, m2, "none", <<>>)
    OBVIOUS
  <2> HIDE DEF f, evs, m1, m2
  <2>4. evs \in Seq(EventIds) /\ m1 \in Modes /\ m2 \in Modes
    BY <2>1 DEF evs, m1, m2
  <2> QED BY <2>2, <2>3, <2>4, EventWindowTyped
<1> HIDE DEF f
<1>8. stack' \in Seq(Frames) /\ Fits(stack', current)
  <2>1. MayLieOn(f, g)
    BY <1>1, <1>6, <1>7 DEF MayLieOn
  <2>2. f \in Frames
    BY <1>7 DEF Frames
  <2> QED BY <1>1, <1>4, <1>5, <1>6, <1>7, <2>1, <2>2, PushedOnWindow
<1> QED BY <1>8 DEF QueuedWindow, PipelineInv, Types, StackFits

\* The window that initiated the ability has done so.
LEMMA InitiatedTyped ==
  ASSUME NEW w \in Windows, NEW g, g = [w EXCEPT !.initiates = FALSE, !.subStep = "none"]
  PROVE  /\ g \in Windows /\ g.kind = "window" /\ g.mode = w.mode /\ g.parent = w.parent
         /\ g.owner = w.owner /\ g.triggers = w.triggers /\ g.step = w.step
BY DEF Windows, WindowRecords, KnowsItsTrigger, SubSteps

LEMMA InitiatedAbilityActsKeeps ==
  ASSUME PipelineInv, NEW listeners \in Listening, InitiatedAbilityActs(listeners)
  PROVE  PipelineInv'
<1> DEFINE f == EventWindow(<<NextUnused>>, "passes", "resolves", Top.subStep, Top.trigger)
           g == [Top EXCEPT !.initiates = FALSE, !.subStep = "none"]
<1>1. /\ stack # <<>> /\ Top.kind = "window" /\ Top.step = "resolveEvents" /\ Top.initiates
  BY DEF InitiatedAbilityActs, EventsAreResolved, AtStep
<1>2. Top \in Windows
  BY <1>1, TopWindowIsCurrent
<1>3. stack' = SetTop(g) \o <<f>>
  BY DEF InitiatedAbilityActs
<1>4. f \in Windows /\ f.kind = "window" /\ f.step = "setParentEventWindow" /\ ~f.triggers.started
  <2> DEFINE evs == <<NextUnused>>
  <2>1. evs \in Seq(EventIds)
    BY NextUnusedIsUnused DEF InitiatedAbilityActs
  <2>2. Top.subStep \in SubSteps /\ Top.trigger \in Triggers /\ "passes" \in Modes
        /\ "resolves" \in Modes /\ f = EventWindow(evs, "passes", "resolves", Top.subStep, Top.trigger)
    BY <1>1, <1>2 DEF Windows, WindowRecords, KnowsItsTrigger, Modes
  <2> HIDE DEF f, evs
  <2>3. ASSUME NEW subStep \in SubSteps, NEW trigger \in Triggers,
               f = EventWindow(evs, "passes", "resolves", subStep, trigger)
        PROVE  f \in Windows /\ f.kind = "window" /\ f.step = "setParentEventWindow"
               /\ ~f.triggers.started
    BY <2>1, <2>2, <2>3, EventWindowTyped
  <2> QED BY <2>2, <2>3
<1> HIDE DEF f
<1>5. /\ g \in Windows /\ g.kind = "window" /\ g.mode = Top.mode /\ g.parent = Top.parent
      /\ g.owner = Top.owner /\ g.triggers = Top.triggers /\ g.step = Top.step
  BY <1>2, InitiatedTyped
<1> HIDE DEF g
<1>6. stack' \in Seq(Frames) /\ Fits(stack', current)
  <2>1. MayLieOn(f, g)
    BY <1>1, <1>4, <1>5 DEF MayLieOn
  <2>2. f \in Frames
    BY <1>4 DEF Frames
  <2> QED BY <1>1, <1>3, <1>4, <1>5, <2>1, <2>2, PushedOnWindow
<1>7. events' \in [EventIds -> EventRecords]
  BY NewEventAdded DEF InitiatedAbilityActs, PipelineInv, Types
<1> QED BY <1>6, <1>7 DEF InitiatedAbilityActs, PipelineInv, Types, StackFits

LEMMA InitiatedAbilityHasNoEventKeeps ==
  ASSUME PipelineInv, InitiatedAbilityHasNoEvent
  PROVE  PipelineInv'
<1> DEFINE f == SubAbilityStep(Top.trigger, Top.subStep)
           g == [Top EXCEPT !.initiates = FALSE, !.subStep = "none"]
<1>1. /\ stack # <<>> /\ Top.kind = "window" /\ Top.step = "resolveEvents" /\ Top.initiates
  BY DEF InitiatedAbilityHasNoEvent, EventsAreResolved, AtStep
<1>2. Top \in Windows /\ Top.trigger \in Triggers
  <2>1. Top \in Windows
    BY <1>1, TopWindowIsCurrent
  <2> QED BY <1>1, <2>1 DEF Windows, KnowsItsTrigger
<1>3. /\ g \in Windows /\ g.kind = "window" /\ g.mode = Top.mode /\ g.parent = Top.parent
      /\ g.owner = Top.owner /\ g.triggers = Top.triggers /\ g.step = Top.step
  BY <1>2, InitiatedTyped
<1>4. stack' = SetTop(g) \o (IF Top.subStep = "none" THEN <<>> ELSE <<f>>)
  BY DEF InitiatedAbilityHasNoEvent
<1>5. f \in Resolvers /\ f.kind = "resolver" /\ f.role = "subStep"
  BY <1>2, SubAbilityStepTyped
<1> HIDE DEF f, g
<1>6. stack' \in Seq(Frames) /\ Fits(stack', current)
  <2>1. CASE Top.subStep = "none"
    <3>1. SetTop(g) \in Seq(Frames) /\ Fits(SetTop(g), current)
      BY <1>1, <1>3, TopWindowChanges
    <3>2. stack' = SetTop(g)
      BY <1>4, <2>1, <3>1
    <3> QED BY <3>1, <3>2
  <2>2. CASE Top.subStep # "none"
    <3>1. MayLieOn(f, g)
      BY <1>1, <1>3, <1>5 DEF MayLieOn
    <3>2. f \in Frames /\ stack' = SetTop(g) \o <<f>>
      BY <1>4, <1>5, <2>2 DEF Frames
    <3> QED BY <1>1, <1>3, <1>5, <3>1, <3>2, PushedOnWindow
  <2> QED BY <2>1, <2>2
<1> QED BY <1>6 DEF InitiatedAbilityHasNoEvent, PipelineInv, Types, StackFits

LEMMA FrameReplaced ==
  ASSUME NEW s \in Seq(Frames), NEW i \in 1 .. Len(s), NEW g \in Frames, NEW t,
         t = [s EXCEPT ![i] = g]
  PROVE  /\ t \in Seq(Frames) /\ Len(t) = Len(s) /\ t[i] = g
         /\ \A j \in 1 .. Len(s) : j # i => t[j] = s[j]
OBVIOUS

LEMMA StepTyped ==
  ASSUME NEW w \in Windows, NEW step \in WindowSteps, NEW g, g = [w EXCEPT !.step = step]
  PROVE  /\ g \in Windows /\ g.kind = "window" /\ g.mode = w.mode /\ g.parent = w.parent
         /\ g.owner = w.owner /\ g.triggers = w.triggers /\ g.step = step
         /\ g.subMode = w.subMode /\ g.subStep = w.subStep /\ g.events = w.events
         /\ g.resolved = w.resolved /\ g.subwindow = w.subwindow /\ g.queued = w.queued
         /\ g.opened = w.opened /\ g.initiates = w.initiates /\ g.trigger = w.trigger
BY DEF Windows, WindowRecords, KnowsItsTrigger

LEMMA TriggersTyped ==
  ASSUME NEW w \in Windows, NEW tw \in TriggerWindows, NEW g, g = [w EXCEPT !.triggers = tw]
  PROVE  /\ g \in Windows /\ g.kind = "window" /\ g.mode = w.mode /\ g.parent = w.parent
         /\ g.owner = w.owner /\ g.triggers = tw /\ g.step = w.step
         /\ g.subMode = w.subMode /\ g.subStep = w.subStep /\ g.events = w.events
         /\ g.resolved = w.resolved /\ g.subwindow = w.subwindow /\ g.queued = w.queued
         /\ g.opened = w.opened /\ g.initiates = w.initiates /\ g.trigger = w.trigger
BY DEF Windows, WindowRecords, KnowsItsTrigger

\* The window on top passes its triggers to the window that collects them.
LEMMA EmittedFits ==
  ASSUME PipelineInv, stack # <<>>, Top.kind = "window",
         Top.step \notin {"setParentEventWindow", "cleanup"},
         NEW step \in WindowSteps, step # "setParentEventWindow",
         step = "resolveTriggersIfNecessary" => Top.mode = "resolves",
         NEW tw \in TriggerWindows, SameTurn(TriggersOf(Top), tw),
         NEW t, t = [Step(step) EXCEPT ![Top.owner].triggers = tw]
  PROVE  t \in Seq(Frames) /\ Fits(t, current)
<1> DEFINE o == Top.owner
           g == [Top EXCEPT !.step = step]
           s == SetTop(g)
<1>1. /\ n \in 1 .. n /\ n \in Nat /\ Len(stack) = n /\ stack \in Seq(Frames)
      /\ Fits(stack, current) /\ \A i \in 1 .. n : stack[i] \in Frames
  BY TopIsFrame DEF PipelineInv, StackFits, n
<1>2. /\ Top \in Windows /\ o \in 1 .. n /\ stack[o] \in Windows
      /\ ~stack[o].triggers.started
  BY TopWindowIsCurrent
<1>3. /\ g \in Windows /\ g.kind = "window" /\ g.mode = Top.mode /\ g.parent = Top.parent
      /\ g.owner = Top.owner /\ g.triggers = Top.triggers /\ g.step = step
  BY <1>2, StepTyped
<1>4. t = [s EXCEPT ![o].triggers = tw]
  BY DEF Step
<1> HIDE DEF g, o
<1>5. s \in Seq(Frames) /\ Len(s) = n /\ s[n] = g /\ \A i \in 1 .. n - 1 : s[i] = stack[i]
  BY <1>1, <1>3, TopReplaced DEF SetTop, n, Frames
<1>6. /\ s[o] \in Windows /\ s[o].kind = "window" /\ s[o].mode = stack[o].mode
      /\ s[o].parent = stack[o].parent /\ s[o].owner = stack[o].owner
      /\ o # n => s[o].step = stack[o].step
  <2>1. CASE o = n
    BY <1>2, <1>3, <1>5, <2>1 DEF Top
  <2>2. CASE o # n
    <3>1. s[o] = stack[o]
      BY <1>2, <1>5, <2>2
    <3> QED BY <1>2, <2>2, <3>1 DEF Windows, WindowRecords
  <2> QED BY <2>1, <2>2
<1> HIDE DEF s
<1> DEFINE h == [s[o] EXCEPT !.triggers = tw]
<1>7. /\ h \in Windows /\ h.kind = "window" /\ h.mode = s[o].mode /\ h.parent = s[o].parent
      /\ h.owner = s[o].owner /\ h.triggers = tw /\ h.step = s[o].step
  BY <1>6, TriggersTyped
<1> DEFINE u == [s EXCEPT ![o] = h]
<1>8. t = u
  BY <1>4
<1> HIDE DEF h
<1>9. /\ u \in Seq(Frames) /\ Len(u) = n /\ u[o] = h
      /\ \A i \in 1 .. n : i # o => u[i] = s[i]
  <2>1. o \in 1 .. Len(s) /\ h \in Frames
    BY <1>2, <1>5, <1>7 DEF Frames
  <2>2. u \in Seq(Frames) /\ Len(u) = Len(s) /\ u[o] = h
        /\ \A i \in 1 .. Len(s) : i # o => u[i] = s[i]
    BY <1>5, <2>1, FrameReplaced
  <2> QED BY <1>5, <2>2
<1> HIDE DEF u
<1>10. ASSUME NEW i \in 1 .. n PROVE SameRole(stack[i], u[i])
  <2>1. CASE i = o
    BY <1>2, <1>6, <1>7, <1>9, <2>1 DEF SameRole, Windows, WindowRecords
  <2>2. CASE i # o /\ i = n
    <3>1. u[i] = g /\ stack[i] = Top
      BY <1>5, <1>9, <2>2 DEF Top
    <3> QED BY <1>2, <1>3, <3>1 DEF SameRole, Windows, WindowRecords
  <2>3. CASE i # o /\ i # n
    <3>1. u[i] = stack[i]
      BY <1>1, <1>5, <1>9, <2>3
    <3> QED BY <3>1 DEF SameRole
  <2> QED BY <2>1, <2>2, <2>3
<1>11. ASSUME NEW i \in 1 .. n - 1 PROVE SameStep(stack[i], u[i])
  <2>1. CASE i = o
    <3>1. o # n /\ u[i] = h /\ stack[i] = stack[o]
      BY <1>1, <1>9, <2>1
    <3>2. u[i].step = stack[i].step /\ stack[i].kind = "window"
      BY <3>1, <1>2, <1>6, <1>7 DEF Windows, WindowRecords
    <3> QED BY <3>2 DEF SameStep
  <2>2. CASE i # o
    <3>1. u[i] = stack[i]
      BY <1>1, <1>5, <1>9, <2>2
    <3> QED BY <3>1 DEF SameStep
  <2> QED BY <2>1, <2>2
<1>12. ASSUME NEW i \in 1 .. n, stack[i].kind = "window"
       PROVE  TriggersMayBe(stack, i, stack[i], u[i])
  <2>1. CASE i = n
    BY <2>1, <1>1 DEF TriggersMayBe
  <2>2. CASE i = o
    BY <2>2, <1>7, <1>9 DEF TriggersMayBe, TriggersOf, o
  <2>3. CASE i # o /\ i # n
    <3>1. u[i] = stack[i]
      BY <1>1, <1>5, <1>9, <2>3
    <3>2. stack[i] \in Windows
      BY <1>1, <1>12, FramesOfKinds
    <3>3. \A x \in Triggers : stack[i].triggers.unresolved[x] \in Nat
      BY <3>2 DEF Windows, WindowRecords, TriggerWindows, TriggerRecords
    <3>4. \A x \in Triggers : stack[i].triggers.unresolved[x] >= stack[i].triggers.unresolved[x]
      BY <3>3
    <3>5. SameTurn(stack[i].triggers, stack[i].triggers)
      BY <3>4 DEF SameTurn
    <3> QED BY <3>1, <3>5 DEF TriggersMayBe
  <2> QED BY <2>1, <2>2, <2>3
<1>13. TopMayBe(stack[n], u[n])
  <2>1. FitsAt(stack, n) /\ Top.kind = "window"
    BY <1>1 DEF Fits
  <2>2. Top.triggers.started => Top.step = "cleanup"
    BY <2>1 DEF FitsAt, WindowFits, Top
  <2>3. ~tw.started
    BY <1>2 DEF SameTurn, TriggersOf, o
  <2>4. u[n].step = step /\ ~u[n].triggers.started
    <3>1. CASE o = n
      BY <3>1, <1>3, <1>5, <1>7, <1>9, <2>3
    <3>2. CASE o # n
      BY <3>2, <1>1, <1>3, <1>5, <1>9, <2>2
    <3> QED BY <3>1, <3>2
  <2> QED BY <2>4 DEF TopMayBe, Top
<1>14. Fits(u, current)
  BY <1>1, <1>9, <1>10, <1>11, <1>12, <1>13, StillFits
<1> QED BY <1>8, <1>9, <1>14

LEMMA EmitTyped ==
  ASSUME NEW tw \in TriggerWindows, ~tw.started, NEW more \in SUBSET EventIds,
         NEW evs \in Seq(EventIds),
         NEW new, new = Emit([tw EXCEPT !.triggering = @ \cup more], evs)
                  \/ new = Emit(tw, evs)
  PROVE  new \in TriggerWindows /\ SameTurn(tw, new)
<1>1. tw \in TriggerRecords
  BY DEF TriggerWindows
<1>2. ASSUME NEW old \in TriggerRecords, old.unresolved = tw.unresolved,
             old.started = tw.started, old.order = tw.order, new = Emit(old, evs)
      PROVE  new \in TriggerRecords /\ SameTurn(tw, new)
  <2> DEFINE added == AddedBy(old, evs)
             more2 == MissedBy(old, evs)
             waiting == [t \in Triggers |-> IF t \in added THEN old.unresolved[t] + 1
                                           ELSE old.unresolved[t]]
  <2>1. added \in SUBSET Triggers /\ more2 \in SUBSET Triggers
    BY DEF AddedBy, MissedBy
  <2>2. new = [old EXCEPT !.seen = @ \cup added, !.missed = @ \cup more2,
                          !.unresolved = waiting]
    BY <1>2 DEF Emit
  <2> HIDE DEF added, more2
  <2>3. waiting \in [Triggers -> Nat] /\ \A t \in Triggers : waiting[t] >= tw.unresolved[t]
    BY <1>2, <1>1 DEF TriggerRecords
  <2> HIDE DEF waiting
  <2>4. new \in TriggerRecords /\ new.unresolved = waiting /\ new.started = old.started
        /\ new.order = old.order
    BY <1>2, <2>1, <2>2, <2>3 DEF TriggerRecords
  <2> QED BY <1>2, <2>3, <2>4 DEF SameTurn
<1>3. new \in TriggerRecords /\ SameTurn(tw, new)
  <2>1. CASE new = Emit(tw, evs)
    BY <1>1, <1>2, <2>1
  <2>2. CASE new = Emit([tw EXCEPT !.triggering = @ \cup more], evs)
    <3> DEFINE old == [tw EXCEPT !.triggering = @ \cup more]
    <3>1. old \in TriggerRecords /\ old.unresolved = tw.unresolved
          /\ old.started = tw.started /\ old.order = tw.order
      BY <1>1 DEF TriggerRecords
    <3> HIDE DEF old
    <3>2. new = Emit(old, evs)
      BY <2>2 DEF old
    <3> QED BY <1>2, <3>1, <3>2
  <2> QED BY <2>1, <2>2
<1> QED BY <1>3 DEF TriggerWindows, TurnsInOrder, SameTurn

LEMMA EmitEventsKeeps ==
  ASSUME PipelineInv, EmitEvents
  PROVE  PipelineInv'
<1> DEFINE tw == Emit([TriggersOf(Top) EXCEPT !.triggering = @ \cup ToSet(Top.events)], Top.events)
<1>1. /\ stack # <<>> /\ Top.kind = "window"
      /\ Top.step \in {"openReplacementEffectWindow", "emitEvents"}
  BY DEF EmitEvents, AtStep
<1>2. /\ Top \in Windows /\ stack[Top.owner] \in Windows
      /\ ~stack[Top.owner].triggers.started
  BY <1>1, TopWindowIsCurrent
<1>3. /\ TriggersOf(Top) \in TriggerWindows /\ ~TriggersOf(Top).started
      /\ Top.events \in Seq(EventIds) /\ ToSet(Top.events) \in SUBSET EventIds
  <2>1. Top.events \in Seq(EventIds)
    BY <1>2 DEF Windows, WindowRecords
  <2>2. ToSet(Top.events) \in SUBSET EventIds
    BY <2>1 DEF ToSet
  <2> QED BY <1>2, <2>1, <2>2 DEF TriggersOf, Windows, WindowRecords
<1>4. tw \in TriggerWindows /\ SameTurn(TriggersOf(Top), tw)
  BY <1>3, EmitTyped
<1>5. stack' = [Step("resolveEvents") EXCEPT ![Top.owner].triggers = tw]
  BY DEF EmitEvents
<1> HIDE DEF tw
<1>6. stack' \in Seq(Frames) /\ Fits(stack', current)
  <2>1. "resolveEvents" \in WindowSteps
    BY DEF WindowSteps
  <2> QED BY <1>1, <1>4, <1>5, <2>1, EmittedFits
<1>7. events' \in [EventIds -> EventRecords]
  BY <1>3, HeardTyped DEF EmitEvents, PipelineInv, Types
<1> QED BY <1>6, <1>7 DEF EmitEvents, PipelineInv, Types, StackFits

\* Where a window goes on after its events.
LEMMA StepsAfterEvents ==
  ASSUME NEW w \in Windows
  PROVE  /\ AfterTriggers(w) \in WindowSteps \ {"setParentEventWindow"}
         /\ AfterSubwindowEvents(w) \in WindowSteps \ {"setParentEventWindow"}
         /\ AfterSubAbilityStep(w) \in WindowSteps \ {"setParentEventWindow"}
         /\ AfterTriggers(w) = "resolveTriggersIfNecessary" => w.mode = "resolves"
         /\ AfterSubwindowEvents(w) = "resolveTriggersIfNecessary" => w.mode = "resolves"
         /\ AfterSubAbilityStep(w) = "resolveTriggersIfNecessary" => w.mode = "resolves"
         /\ AfterTriggers(w) = "cleanup" => w.mode = "passes"
         /\ AfterSubwindowEvents(w) = "cleanup" => w.mode = "passes"
         /\ AfterSubAbilityStep(w) = "cleanup" => w.mode = "passes"
BY DEF AfterTriggers, AfterSubwindowEvents, AfterSubAbilityStep, WindowSteps, Windows,
       WindowRecords, Modes

LEMMA PostResolutionTriggersKeeps ==
  ASSUME PipelineInv, PostResolutionTriggers
  PROVE  PipelineInv'
<1> DEFINE tw == Emit(TriggersOf(Top), Top.resolved)
<1>1. /\ stack # <<>> /\ Top.kind = "window"
      /\ Top.step \in {"resolveEvents", "postResolutionTriggers"}
  BY DEF PostResolutionTriggers, NothingQueued, EventsAreResolved, AtStep
<1>2. /\ Top \in Windows /\ stack[Top.owner] \in Windows
      /\ ~stack[Top.owner].triggers.started
  BY <1>1, TopWindowIsCurrent
<1>3. /\ TriggersOf(Top) \in TriggerWindows /\ ~TriggersOf(Top).started
      /\ Top.resolved \in Seq(EventIds)
  BY <1>2 DEF TriggersOf, Windows, WindowRecords
<1>4. tw \in TriggerWindows /\ SameTurn(TriggersOf(Top), tw)
  BY <1>3, EmitTyped
<1>5. stack' = [Step(AfterTriggers(Top)) EXCEPT ![Top.owner].triggers = tw]
  BY DEF PostResolutionTriggers
<1> HIDE DEF tw
<1>6. stack' \in Seq(Frames) /\ Fits(stack', current)
  BY <1>1, <1>2, <1>4, <1>5, StepsAfterEvents, EmittedFits
<1>7. events' \in [EventIds -> EventRecords]
  BY <1>3, HeardTyped DEF PostResolutionTriggers, PipelineInv, Types
<1> QED BY <1>6, <1>7 DEF PostResolutionTriggers, PipelineInv, Types, StackFits

LEMMA EventsDone ==
  ASSUME PipelineInv, NothingQueued
  PROVE  /\ stack # <<>> /\ Top.kind = "window" /\ Top.step = "resolveEvents"
         /\ Top \in Windows /\ current = n /\ Top.queued = <<>> /\ ~Top.initiates
<1>1. /\ stack # <<>> /\ Top.kind = "window" /\ Top.step = "resolveEvents"
      /\ Top.queued = <<>> /\ ~Top.initiates
  BY DEF NothingQueued, EventsAreResolved, AtStep
<1> QED BY <1>1, TopWindowIsCurrent

LEMMA GameStateChangesCardKeeps ==
  ASSUME PipelineInv, NEW a \in Unsteady, GameStateChangesCard(a)
  PROVE  PipelineInv'
<1> DEFINE g == [Top EXCEPT !.step = "postResolutionTriggers"]
<1>1. /\ stack # <<>> /\ Top.kind = "window" /\ Top.step = "resolveEvents" /\ Top \in Windows
  BY EventsDone DEF GameStateChangesCard
<1>2. /\ g \in Windows /\ g.mode = Top.mode /\ g.parent = Top.parent
      /\ g.owner = Top.owner /\ g.triggers = Top.triggers /\ g.step = "postResolutionTriggers"
  BY <1>1, StepTyped DEF WindowSteps
<1>3. stack' = SetTop(g)
  BY DEF GameStateChangesCard, Step
<1> HIDE DEF g
<1>4. stack' \in Seq(Frames) /\ Fits(stack', current)
  BY <1>1, <1>2, <1>3, TopWindowChanges
<1>5. presence' \in [Abilities -> Presences] /\ changes' \in Nat
  BY AbilitiesAssumption DEF GameStateChangesCard, CountChange, PipelineInv, Types
<1> QED BY <1>4, <1>5 DEF GameStateChangesCard, PipelineInv, Types, StackFits

LEMMA GameStateDefeatsCardKeeps ==
  ASSUME PipelineInv, NEW listeners \in Listening, GameStateDefeatsCard(listeners)
  PROVE  PipelineInv'
<1> DEFINE h == [Top EXCEPT !.step = "postResolutionTriggers"]
           g == [h EXCEPT !.subwindow = @ \o <<NextUnused>>]
<1>1. /\ stack # <<>> /\ Top.kind = "window" /\ Top.step = "resolveEvents"
      /\ Top \in Windows /\ current = n
  BY EventsDone DEF GameStateDefeatsCard
<1>2. NextUnused \in EventIds
  BY NextUnusedIsUnused DEF GameStateDefeatsCard
<1>3. /\ h \in Windows /\ h.mode = Top.mode /\ h.parent = Top.parent
      /\ h.owner = Top.owner /\ h.triggers = Top.triggers /\ h.step = "postResolutionTriggers"
  BY <1>1, StepTyped DEF WindowSteps
<1>4. stack' = SetTop(g)
  <2>1. n \in DOMAIN stack
    BY <1>1, TopIsFrame DEF PipelineInv
  <2>2. stack' = [SetTop(h) EXCEPT ![n].subwindow = @ \o <<NextUnused>>]
    BY <1>1 DEF GameStateDefeatsCard, AddSubwindowEvents, Step
  <2> HIDE DEF h
  <2> QED BY <2>1, <2>2 DEF SetTop
<1> HIDE DEF h
<1>5. g \in Windows /\ g.mode = h.mode /\ g.parent = h.parent /\ g.owner = h.owner
      /\ g.triggers = h.triggers /\ g.step = h.step
  <2>1. ASSUME NEW evs \in Seq(EventIds) PROVE [h EXCEPT !.subwindow = evs] \in Windows
    BY <1>3 DEF Windows, WindowRecords, KnowsItsTrigger
  <2>2. h.subwindow \o <<NextUnused>> \in Seq(EventIds)
    BY <1>2, <1>3 DEF Windows, WindowRecords
  <2>3. g \in Windows
    BY <2>1, <2>2
  <2> QED BY <1>3, <2>3 DEF Windows, WindowRecords
<1> HIDE DEF g
<1>6. stack' \in Seq(Frames) /\ Fits(stack', current)
  BY <1>1, <1>3, <1>4, <1>5, TopWindowChanges
<1>7. events' \in [EventIds -> EventRecords]
  BY NewEventAdded DEF GameStateDefeatsCard, PipelineInv, Types
<1> QED BY <1>6, <1>7 DEF GameStateDefeatsCard, PipelineInv, Types, StackFits

LEMMA ResolveSubAbilityStepKeeps ==
  ASSUME PipelineInv, ResolveSubAbilityStep
  PROVE  PipelineInv'
<1> DEFINE f == SubAbilityStep(Top.trigger, Top.subStep)
           g == [Top EXCEPT !.step = AfterSubAbilityStep(Top)]
<1>1. /\ stack # <<>> /\ Top.kind = "window" /\ Top.step = "resolveSubAbilityStep"
  BY DEF ResolveSubAbilityStep, AtStep
<1>2. Top \in Windows
  BY <1>1, TopWindowIsCurrent
<1>3. /\ AfterSubAbilityStep(Top) \in WindowSteps \ {"setParentEventWindow"}
      /\ AfterSubAbilityStep(Top) = "resolveTriggersIfNecessary" => Top.mode = "resolves"
      /\ AfterSubAbilityStep(Top) = "cleanup" => Top.mode = "passes"
  BY <1>2, StepsAfterEvents
<1>4. /\ g \in Windows /\ g.kind = "window" /\ g.mode = Top.mode /\ g.parent = Top.parent
      /\ g.owner = Top.owner /\ g.triggers = Top.triggers /\ g.step = AfterSubAbilityStep(Top)
  <2> DEFINE step == AfterSubAbilityStep(Top)
  <2>1. step \in WindowSteps
    BY <1>3
  <2>2. g = [Top EXCEPT !.step = step]
    OBVIOUS
  <2> HIDE DEF step, g
  <2>3. /\ g \in Windows /\ g.kind = "window" /\ g.mode = Top.mode /\ g.parent = Top.parent
        /\ g.owner = Top.owner /\ g.triggers = Top.triggers /\ g.step = step
    BY <1>2, <2>1, <2>2 DEF Windows, WindowRecords, KnowsItsTrigger
  <2> QED BY <2>3 DEF step
<1>5. stack' = SetTop(g) \o (IF SubAbilityStepDue THEN <<f>> ELSE <<>>)
  BY DEF ResolveSubAbilityStep, Step
<1> HIDE DEF g
<1>6. stack' \in Seq(Frames) /\ Fits(stack', current)
  <2>1. CASE ~SubAbilityStepDue
    <3>1. SetTop(g) \in Seq(Frames) /\ Fits(SetTop(g), current)
      BY <1>1, <1>3, <1>4, TopWindowChanges
    <3>2. stack' = SetTop(g)
      BY <1>5, <2>1, <3>1
    <3> QED BY <3>1, <3>2
  <2>2. CASE SubAbilityStepDue
    <3>1. Top.trigger \in Triggers
      <4>1. Top.subStep # "none"
        BY <2>2 DEF SubAbilityStepDue
      <4> QED BY <1>2, <4>1 DEF Windows, KnowsItsTrigger
    <3>2. f \in Resolvers /\ f.kind = "resolver" /\ f.role = "subStep"
      BY <3>1, SubAbilityStepTyped
    <3> HIDE DEF f
    <3>3. MayLieOn(f, g)
      <4>1. Top.mode \in Modes /\ ~(g.step = "cleanup" /\ g.mode = "resolves")
            /\ g.step # "setParentEventWindow"
        BY <1>2, <1>3, <1>4 DEF Windows, WindowRecords
      <4> QED BY <1>4, <3>2, <4>1 DEF MayLieOn
    <3>4. f \in Frames /\ stack' = SetTop(g) \o <<f>>
      BY <1>5, <2>2, <3>2 DEF Frames
    <3> QED BY <1>1, <1>3, <1>4, <3>2, <3>3, <3>4, PushedOnWindow
  <2> QED BY <2>1, <2>2
<1> QED BY <1>6 DEF ResolveSubAbilityStep, PipelineInv, Types, StackFits

LEMMA ResolveTriggersIfNecessaryKeeps ==
  ASSUME PipelineInv, ResolveTriggersIfNecessary
  PROVE  PipelineInv'
<1> DEFINE g == [Top EXCEPT !.step = "cleanup"]
<1>1. /\ stack # <<>> /\ Top.kind = "window" /\ Top.step = "resolveTriggersIfNecessary"
  BY DEF ResolveTriggersIfNecessary, AtStep
<1>2. Top \in Windows /\ Top.mode = "resolves" /\ ~Top.triggers.started
  <2>1. n \in 1 .. Len(stack) /\ Top \in Windows
    BY <1>1, TopWindowIsCurrent, TopIsFrame DEF PipelineInv, n
  <2>2. WindowFits(stack, n)
    BY <1>1, <2>1 DEF PipelineInv, StackFits, Fits, FitsAt, Top
  <2> QED BY <1>1, <2>1, <2>2 DEF WindowFits, Top
<1>3. /\ g \in Windows /\ g.kind = "window" /\ g.mode = Top.mode /\ g.parent = Top.parent
      /\ g.owner = Top.owner /\ g.triggers = Top.triggers /\ g.step = "cleanup"
  <2>1. "cleanup" \in WindowSteps
    BY DEF WindowSteps
  <2> QED BY <1>2, <2>1 DEF Windows, WindowRecords, KnowsItsTrigger
<1>4. stack' = Append(SetTop(g), TriggeredAbilityWindow)
  BY DEF ResolveTriggersIfNecessary, Step
<1> HIDE DEF g
<1>5. stack' \in Seq(Frames) /\ Fits(stack', current)
  <2>1. TriggeredAbilityWindow \in Frames /\ TriggeredAbilityWindow.kind = "triggers"
    BY DEF Frames, TriggeredAbilityWindow
  <2>2. MayLieOn(TriggeredAbilityWindow, g)
    BY <1>2, <1>3, <2>1 DEF MayLieOn
  <2> QED BY <1>1, <1>3, <1>4, <2>1, <2>2, PushedOnWindow
<1> QED BY <1>5 DEF ResolveTriggersIfNecessary, PipelineInv, Types, StackFits

LEMMA PopTyped ==
  ASSUME NEW s \in Seq(Frames), s # <<>>, NEW t, t = SubSeq(s, 1, Len(s) - 1)
  PROVE  /\ t \in Seq(Frames) /\ Len(t) = Len(s) - 1
         /\ \A i \in 1 .. Len(s) - 1 : t[i] = s[i]
<1>0. Len(s) \in Nat \ {0}
  OBVIOUS
<1>1. \A i \in 1 .. Len(s) - 1 : s[i] \in Frames
  BY <1>0
<1>2. /\ t \in Seq(Frames)
      /\ Len(t) = IF 1 <= Len(s) - 1 THEN (Len(s) - 1) - 1 + 1 ELSE 0
  BY <1>0, <1>1, SubSeqProperties
<1>3. \A i \in 1 .. Len(s) - 1 : t[i] = s[1 + i - 1]
  BY <1>0, <1>1, SubSeqProperties
<1>4. CASE 1 <= Len(s) - 1
  BY <1>0, <1>2, <1>3, <1>4
<1>5. CASE ~(1 <= Len(s) - 1)
  <2>1. Len(t) = 0
    BY <1>2, <1>5
  <2>2. Len(s) = 1
    <3> DEFINE k == Len(s)
    <3> HIDE DEF k
    <3>1. k \in Nat \ {0} /\ ~(1 <= k - 1)
      BY <1>0, <1>5 DEF k
    <3>2. k = 1
      BY <3>1
    <3> QED BY <3>2 DEF k
  <2> QED BY <1>2, <2>1, <2>2
<1> QED BY <1>4, <1>5

LEMMA CleanupKeeps ==
  ASSUME PipelineInv, Cleanup
  PROVE  PipelineInv'
<1>1. /\ stack # <<>> /\ Top.kind = "window" /\ Top.step = "cleanup"
  BY DEF Cleanup, AtStep
<1>2. stack \in Seq(Frames) /\ n \in 1 .. Len(stack) /\ Fits(stack, current)
  BY <1>1, TopIsFrame DEF PipelineInv, StackFits, n
<1>3. BegunAt(stack, Len(stack))
  BY <1>1, <1>2 DEF BegunAt, Top, n
<1>4. stack' = SubSeq(stack, 1, Len(stack) - 1) /\ current' = CurrentBelow(stack, current)
  BY <1>3 DEF Cleanup, Pop, n, CurrentBelow, Top
<1>5. Fits(stack', current')
  BY <1>1, <1>2, <1>4, PoppedFits
<1>6. stack' \in Seq(Frames)
  BY <1>1, <1>2, <1>4, PopTyped
<1>7. current' \in Nat
  BY <1>5, <1>6 DEF Fits
<1> QED BY <1>5, <1>6, <1>7 DEF Cleanup, PipelineInv, Types, StackFits

LEMMA SameTurnItself ==
  ASSUME NEW w \in Windows
  PROVE  SameTurn(w.triggers, w.triggers)
<1>1. \A x \in Triggers : w.triggers.unresolved[x] \in Nat
  BY DEF Windows, WindowRecords, TriggerWindows, TriggerRecords
<1>2. \A x \in Triggers : w.triggers.unresolved[x] >= w.triggers.unresolved[x]
  BY <1>1
<1> QED BY <1>2 DEF SameTurn

\* Sub-window events may be added to any window of the stack.
LEMMA SubwindowFits ==
  ASSUME NEW s \in Seq(Frames), NEW c, Fits(s, c), NEW i \in 1 .. Len(s),
         s[i].kind = "window", NEW evs \in Seq(EventIds),
         NEW t, t = [s EXCEPT ![i] = [s[i] EXCEPT !.subwindow = evs]]
  PROVE  t \in Seq(Frames) /\ Fits(t, c)
<1> DEFINE g == [s[i] EXCEPT !.subwindow = evs]
           u == [s EXCEPT ![i] = g]
<1>1. s[i] \in Windows
  <2>1. s[i] \in Frames
    OBVIOUS
  <2> QED BY <2>1, FramesOfKinds
<1>2. /\ g \in Windows /\ g.kind = "window" /\ g.mode = s[i].mode /\ g.parent = s[i].parent
      /\ g.owner = s[i].owner /\ g.triggers = s[i].triggers /\ g.step = s[i].step
  BY <1>1 DEF Windows, WindowRecords, KnowsItsTrigger
<1>3. t = u
  OBVIOUS
<1> HIDE DEF g
<1>4. u \in Seq(Frames) /\ Len(u) = Len(s) /\ u[i] = g
      /\ \A j \in 1 .. Len(s) : j # i => u[j] = s[j]
  BY <1>2, FrameReplaced DEF Frames
<1> HIDE DEF u
<1>5. \A j \in 1 .. Len(s) : SameRole(s[j], u[j]) /\ SameStep(s[j], u[j])
  BY <1>2, <1>4 DEF SameRole, SameStep
<1>6. ASSUME NEW j \in 1 .. Len(s), s[j].kind = "window"
      PROVE  TriggersMayBe(s, j, s[j], u[j])
  <2>1. u[j].triggers = s[j].triggers
    BY <1>2, <1>4
  <2>2. s[j] \in Windows
    <3>1. s[j] \in Frames
      OBVIOUS
    <3> QED BY <3>1, <1>6, FramesOfKinds
  <2> QED BY <2>1, <2>2, SameTurnItself DEF TriggersMayBe
<1>7. s # <<>> => TopMayBe(s[Len(s)], u[Len(s)])
  <2>1. Len(s) \in 1 .. Len(s) /\ FitsAt(s, Len(s))
    BY DEF Fits
  <2>2. s[Len(s)].kind = "window" =>
          u[Len(s)].triggers = s[Len(s)].triggers /\ u[Len(s)].step = s[Len(s)].step
    BY <2>1, <1>2, <1>4
  <2> QED BY <2>1, <2>2 DEF TopMayBe, FitsAt, WindowFits
<1>8. \A j \in 1 .. Len(s) - 1 : SameStep(s[j], u[j])
  BY <1>5
<1>9. Fits(u, c)
  BY <1>4, <1>5, <1>6, <1>7, <1>8, StillFits
<1> QED BY <1>3, <1>4, <1>9

LEMMA ResolveSubwindowEventsKeeps ==
  ASSUME PipelineInv, ResolveSubwindowEvents
  PROVE  PipelineInv'
<1> DEFINE step == AfterSubwindowEvents(Top)
           g == [Top EXCEPT !.step = step]
           h == [Top EXCEPT !.step = step, !.subwindow = <<>>]
           f == EventWindow(Top.subwindow, "passes", "resolves", "none", <<>>)
<1>1. /\ stack # <<>> /\ Top.kind = "window" /\ Top.step = "resolveSubwindowEvents"
  BY DEF ResolveSubwindowEvents, AtStep
<1>2. /\ Top \in Windows /\ Top.parent \in 0 .. n - 1
      /\ Top.parent # 0 => stack[Top.parent] \in Windows
  BY <1>1, TopWindowIsCurrent
<1>3. /\ n \in 1 .. n /\ n \in Nat /\ stack \in Seq(Frames) /\ Len(stack) = n
  BY <1>1, TopIsFrame DEF PipelineInv, n
<1>4. /\ step \in WindowSteps /\ step # "setParentEventWindow"
      /\ step = "resolveTriggersIfNecessary" => Top.mode = "resolves"
      /\ step = "cleanup" => Top.mode = "passes"
  BY <1>2, StepsAfterEvents
<1>5. /\ IF Top.subMode = "passes"
         THEN stack' = [SetTop(h) EXCEPT ![Top.parent].subwindow = @ \o Top.subwindow]
         ELSE stack' = Append(SetTop(g), f)
  BY DEF ResolveSubwindowEvents, Step
<1> HIDE DEF step
<1>6. /\ g \in Windows /\ g.kind = "window" /\ g.mode = Top.mode /\ g.parent = Top.parent
      /\ g.owner = Top.owner /\ g.triggers = Top.triggers /\ g.step = step
  BY <1>2, <1>4 DEF Windows, WindowRecords, KnowsItsTrigger
<1>7. /\ h \in Windows /\ h.mode = Top.mode /\ h.parent = Top.parent
      /\ h.owner = Top.owner /\ h.triggers = Top.triggers /\ h.step = step
  <2>1. <<>> \in Seq(EventIds)
    OBVIOUS
  <2>2. h \in Windows
    BY <2>1, <1>2, <1>4 DEF Windows, WindowRecords, KnowsItsTrigger
  <2> QED BY <2>2, <1>2 DEF Windows, WindowRecords
<1> HIDE DEF g, h
<1>8. Top.subwindow \in Seq(EventIds)
  BY <1>2 DEF Windows, WindowRecords
<1>9. stack' \in Seq(Frames) /\ Fits(stack', current)
  <2>1. CASE Top.subMode = "passes"
    <3> DEFINE s == SetTop(h)
               p == Top.parent
    <3>1. s \in Seq(Frames) /\ Fits(s, current)
      BY <1>1, <1>4, <1>7, TopWindowChanges
    <3>2. Len(s) = n /\ (\A i \in 1 .. n - 1 : s[i] = stack[i])
      BY <1>3, <1>7, TopReplaced DEF SetTop, n, Frames
    <3>3. stack' = [s EXCEPT ![p].subwindow = @ \o Top.subwindow]
      BY <1>5, <2>1
    <3> HIDE DEF s, p
    <3>4. CASE p = 0
      <4>1. p \notin DOMAIN s
        BY <3>1, <3>2, <3>4, <1>3
      <4> DEFINE u == [s EXCEPT ![p].subwindow = @ \o Top.subwindow]
      <4>2. DOMAIN u = DOMAIN s /\ \A i \in DOMAIN s : u[i] = s[i]
        BY <4>1
      <4>3. u = [i \in DOMAIN s |-> u[i]]
        BY <4>1
      <4>6. s = [i \in DOMAIN s |-> s[i]]
        BY <3>1
      <4>4. stack' = u
        BY <3>3
      <4> HIDE DEF u
      <4>5. stack' = s
        BY <4>2, <4>3, <4>4, <4>6
      <4> QED BY <3>1, <4>5
    <3>5. CASE p # 0
      <4>1. p \in 1 .. Len(s) /\ s[p] = stack[p] /\ s[p] \in Windows
        BY <3>2, <3>5, <1>2, <1>3 DEF p
      <4>2. s[p].subwindow \o Top.subwindow \in Seq(EventIds) /\ s[p].kind = "window"
        BY <1>8, <4>1 DEF Windows, WindowRecords
      <4>3. stack' = [s EXCEPT ![p] = [s[p] EXCEPT !.subwindow = s[p].subwindow \o Top.subwindow]]
        BY <3>3
      <4> DEFINE evs == s[p].subwindow \o Top.subwindow
      <4> HIDE DEF evs
      <4>4. stack' = [s EXCEPT ![p] = [s[p] EXCEPT !.subwindow = evs]]
        BY <4>3 DEF evs
      <4>5. evs \in Seq(EventIds)
        BY <4>2 DEF evs
      <4> QED BY <3>1, <4>1, <4>2, <4>4, <4>5, SubwindowFits
    <3> QED BY <3>4, <3>5
  <2>2. CASE Top.subMode # "passes"
    <3>1. f \in Windows /\ f.kind = "window" /\ f.step = "setParentEventWindow"
          /\ ~f.triggers.started
      <4>1. "passes" \in Modes /\ "resolves" \in Modes /\ "none" \in SubSteps
            /\ <<>> \in Triggers \cup {<<>>}
        BY DEF Modes, SubSteps
      <4>2. f = EventWindow(Top.subwindow, "passes", "resolves", "none", <<>>)
        OBVIOUS
      <4> HIDE DEF f
      <4>3. ASSUME NEW evs \in Seq(EventIds), f = EventWindow(evs, "passes", "resolves", "none", <<>>)
            PROVE  f \in Windows /\ f.kind = "window" /\ f.step = "setParentEventWindow"
                   /\ ~f.triggers.started
        BY <4>1, <4>3, EventWindowTyped
      <4> QED BY <1>8, <4>2, <4>3
    <3> HIDE DEF f
    <3>2. MayLieOn(f, g)
      <4>1. Top.mode \in Modes /\ ~(g.step = "cleanup" /\ g.mode = "resolves")
            /\ g.step # "setParentEventWindow"
        BY <1>2, <1>4, <1>6 DEF Windows, WindowRecords
      <4> QED BY <1>6, <3>1, <4>1 DEF MayLieOn
    <3>3. f \in Frames /\ stack' = Append(SetTop(g), f)
      BY <1>5, <2>2, <3>1 DEF Frames
    <3> QED BY <1>1, <1>4, <1>6, <3>1, <3>2, <3>3, PushedOnWindow
  <2> QED BY <2>1, <2>2
<1> QED BY <1>9 DEF ResolveSubwindowEvents, PipelineInv, Types, StackFits

\* A window that passes its triggers begins above the current window, directly or as
\* what the resolver of that window's sub-step initiates.
LEMMA PassingBegins ==
  ASSUME PipelineInv, stack # <<>>, Top.kind = "window", Top.step = "setParentEventWindow",
         Top.mode = "passes"
  PROVE  /\ current \in 1 .. n - 1
         /\ stack[current] \in Windows /\ BegunFits(stack, current)
         /\ \A k \in current + 1 .. n - 1 : stack[k].kind = "resolver"
<1>1. /\ n \in Nat \ {0} /\ Len(stack) = n /\ Fits(stack, current)
      /\ \A i \in 1 .. n : stack[i] \in Frames /\ FitsAt(stack, i)
  BY TopIsFrame DEF PipelineInv, StackFits, Fits, n
<1>2. WindowFits(stack, n) /\ n > 1
  <2>1. FitsAt(stack, n)
    BY <1>1
  <2>2. Top.mode # "resolves"
    OBVIOUS
  <2> QED BY <1>1, <2>1, <2>2 DEF FitsAt, Top
<1>3. n - 1 \in 1 .. n - 1
  BY <1>1, <1>2
<1>4. ~BegunAt(stack, n)
  BY DEF BegunAt, Top
<1>5. current \in 0 .. n - 1
  <2>1. current \in 0 .. n
    BY <1>1 DEF Fits
  <2>2. current # n
    BY <1>1, <1>4 DEF Fits
  <2> QED BY <1>1, <2>1, <2>2
<1>6. ASSUME NEW i \in 1 .. n - 1, stack[i].kind = "window"
      PROVE  BegunAt(stack, i) /\ i <= current
  <2>1. FitsAt(stack, i) /\ i < n
    BY <1>1
  <2>2. BegunAt(stack, i)
    BY <1>1, <1>6, <2>1 DEF FitsAt, WindowFits, BegunAt
  <2> QED BY <1>1, <2>2 DEF Fits
<1>7. current \in 1 .. n - 1 /\ \A k \in current + 1 .. n - 1 : stack[k].kind = "resolver"
  <2>1. CASE stack[n - 1].kind = "window"
    BY <1>1, <1>3, <1>5, <1>6, <2>1
  <2>2. CASE stack[n - 1].kind = "resolver" /\ stack[n - 1].mode = "passes"
    <3>1. FitsAt(stack, n - 1) /\ n - 1 # 1
      <4>1. FitsAt(stack, n - 1)
        BY <1>1, <1>3
      <4> QED BY <1>1, <2>2, <4>1 DEF FitsAt
    <3>2. n - 2 \in 1 .. n - 1 /\ n - 1 - 1 = n - 2
      BY <1>1, <1>3, <3>1
    <3>3. stack[n - 2].kind = "window"
      BY <2>2, <3>1, <3>2 DEF FitsAt, ResolverFits
    <3>4. n - 2 <= current
      BY <1>6, <3>2, <3>3
    <3>5. current \in {n - 2, n - 1}
      BY <1>1, <1>5, <3>4
    <3>6. \A k \in current + 1 .. n - 1 : k = n - 1
      BY <1>1, <3>5
    <3> QED BY <1>1, <1>3, <3>2, <3>5, <3>6, <2>2
  <2> QED BY <1>2, <2>1, <2>2 DEF WindowFits, Top
<1>8. BegunAt(stack, current) /\ FitsAt(stack, current) /\ stack[current] \in Frames
  BY <1>1, <1>7 DEF Fits
<1>9. stack[current] \in Windows /\ BegunFits(stack, current)
  BY <1>8, FramesOfKinds DEF BegunAt, FitsAt, WindowFits
<1> QED BY <1>7, <1>9

LEMMA SetParentEventWindowKeeps ==
  ASSUME PipelineInv, SetParentEventWindow
  PROVE  PipelineInv'
<1> DEFINE step == IF Top.events = <<>> THEN "resolveEvents" ELSE "openReplacementEffectWindow"
           owner == IF Top.mode = "resolves" THEN n ELSE stack[current].owner
           g == [Top EXCEPT !.step = step, !.parent = current, !.owner = owner]
           t == SetTop(g)
<1>1. /\ stack # <<>> /\ Top.kind = "window" /\ Top.step = "setParentEventWindow"
  BY DEF SetParentEventWindow, AtStep
<1>2. /\ n \in Nat \ {0} /\ Len(stack) = n /\ Fits(stack, current) /\ Top \in Windows
      /\ stack \in Seq(Frames)
      /\ \A i \in 1 .. n : stack[i] \in Frames /\ FitsAt(stack, i)
  <2>1. Top \in Frames
    BY <1>1, TopIsFrame DEF PipelineInv
  <2> QED BY <1>1, <2>1, TopIsFrame, FramesOfKinds DEF PipelineInv, StackFits, Fits, n
<1>3. /\ owner \in 1 .. n /\ current \in 0 .. n - 1
      /\ Top.mode = "resolves" => owner = n
      /\ Top.mode # "resolves" =>
           /\ owner < n /\ stack[owner].kind = "window" /\ stack[owner].mode = "resolves"
           /\ \A k \in 1 .. n - 1 : stack[k].kind = "triggers" => k < owner
  <2>1. CASE Top.mode = "resolves"
    <3>1. current \in 0 .. n /\ current # n
      BY <1>1, <1>2 DEF Fits, BegunAt, Top
    <3> QED BY <1>2, <2>1, <3>1
  <2>2. CASE Top.mode # "resolves"
    <3>1. Top.mode = "passes"
      BY <1>2, <2>2 DEF Windows, WindowRecords, Modes
    <3>2. /\ current \in 1 .. n - 1
          /\ stack[current] \in Windows /\ BegunFits(stack, current)
          /\ \A k \in current + 1 .. n - 1 : stack[k].kind = "resolver"
      BY <1>1, <3>1, PassingBegins
    <3>3. /\ owner = stack[current].owner /\ owner \in 1 .. current
          /\ stack[owner].kind = "window" /\ stack[owner].mode = "resolves"
      BY <2>2, <3>2 DEF BegunFits
    <3>4. ASSUME NEW k \in 1 .. n - 1, stack[k].kind = "triggers" PROVE k < owner
      <4>1. stack[current].kind = "window"
        BY <3>2 DEF Windows, WindowRecords
      <4>2. k \in 1 .. current - 1
        BY <1>2, <3>2, <3>4, <4>1
      <4> QED BY <3>2, <3>3, <3>4, <4>2 DEF BegunFits
    <3> QED BY <1>2, <2>2, <3>2, <3>3, <3>4
  <2> QED BY <2>1, <2>2
<1>4. step \in WindowSteps /\ step # "setParentEventWindow" /\ step # "resolveTriggersIfNecessary"
  BY DEF WindowSteps
<1>5. stack' = t /\ current' = n
  BY DEF SetParentEventWindow
<1> HIDE DEF step, owner
<1>6. /\ g \in Windows /\ g.kind = "window" /\ g.mode = Top.mode /\ g.step = step
      /\ g.parent = current /\ g.owner = owner /\ g.triggers = Top.triggers
  <2>1. owner \in Nat /\ current \in Nat /\ Top \in Windows
    BY <1>2, <1>3
  <2>3. g = [Top EXCEPT !.step = step, !.parent = current, !.owner = owner]
    OBVIOUS
  <2> HIDE DEF g
  <2>4. step \in WindowSteps
    BY <1>4
  <2> QED BY <2>1, <2>3, <2>4 DEF Windows, WindowRecords, KnowsItsTrigger
<1> HIDE DEF g
<1>7. /\ t \in Seq(Frames) /\ Len(t) = n /\ t[n] = g
      /\ \A i \in 1 .. n - 1 : t[i] = stack[i]
  BY <1>1, <1>2, <1>6, TopReplaced DEF SetTop, n, Frames
<1> HIDE DEF t
<1>8. /\ BegunAt(t, n) /\ ~BegunAt(stack, n)
      /\ \A i \in 1 .. n - 1 : BegunAt(t, i) <=> BegunAt(stack, i)
  BY <1>1, <1>2, <1>4, <1>6, <1>7 DEF BegunAt, Top
<1>9. ASSUME NEW i \in 1 .. n - 1 PROVE FitsAt(t, i)
  <2>1. FitsAt(stack, i) /\ t[i] = stack[i] /\ i < n
    BY <1>2, <1>7
  <2>2. t[i + 1].kind = stack[i + 1].kind /\ (stack[i + 1].kind # "window" => t[i + 1] = stack[i + 1])
    <3>1. CASE i + 1 = n
      BY <1>1, <1>6, <1>7, <3>1 DEF Top
    <3>2. CASE i + 1 # n
      BY <1>2, <1>7, <3>2
    <3> QED BY <3>1, <3>2
  <2>3. i > 1 => t[i - 1] = stack[i - 1]
    BY <1>2, <1>7
  <2>4. CASE stack[i].kind = "window"
    <3>1. WindowFits(stack, i)
      BY <2>1, <2>4 DEF FitsAt
    <3>2. BegunFits(stack, i) => BegunFits(t, i)
      <4> SUFFICES ASSUME BegunFits(stack, i) PROVE BegunFits(t, i)
        OBVIOUS
      <4>1. stack[i].owner \in 1 .. n - 1 /\ (stack[i].parent # 0 => stack[i].parent \in 1 .. n - 1)
        BY <1>2 DEF BegunFits
      <4>2. \A k \in 1 .. i - 1 : t[k] = stack[k] /\ k \in 1 .. n - 1
        BY <1>2, <1>7
      <4>3. \A k \in 1 .. i - 1 : BegunAt(t, k) <=> BegunAt(stack, k)
        BY <4>2, <1>8
      <4> QED BY <4>1, <4>2, <4>3, <1>7, <1>8, <2>1 DEF BegunFits
    <3>3. stack[i].mode = "passes" => i > 1
      BY <2>1, <2>4, <1>2 DEF FitsAt
    <3>4. WindowFits(t, i)
      BY <3>1, <3>2, <3>3, <2>1, <2>2, <2>3, <2>4, <1>2, <1>7 DEF WindowFits
    <3> QED BY <3>4, <2>1, <2>4 DEF FitsAt
  <2>5. CASE stack[i].kind = "triggers"
    <3>1. TriggersFit(stack, i) /\ i > 1
      BY <2>1, <2>5, <1>2 DEF FitsAt
    <3>2. TriggersFit(t, i)
      BY <3>1, <2>1, <2>2, <2>3, <2>5, <1>2, <1>7 DEF TriggersFit
    <3> QED BY <3>1, <3>2, <2>1, <2>5 DEF FitsAt
  <2>6. CASE stack[i].kind = "resolver"
    <3>1. ResolverFits(stack, i) /\ i > 1
      BY <2>1, <2>6, <1>2 DEF FitsAt
    <3>2. i > 2 => t[i - 2] = stack[i - 2]
      BY <1>2, <1>7
    <3>3. ResolverFits(t, i)
      BY <3>1, <3>2, <2>1, <2>3, <2>6, <1>2, <1>7 DEF ResolverFits
    <3> QED BY <3>1, <3>3, <2>1, <2>6 DEF FitsAt
  <2> QED BY <2>4, <2>5, <2>6, FramesOfKinds, <1>2
<1>10. FitsAt(t, n)
  <2>1. WindowFits(stack, n) /\ (n = 1 => Top.mode = "resolves")
    BY <1>1, <1>2 DEF FitsAt, Top
  <2>2. n > 1 => t[n - 1] = stack[n - 1]
    BY <1>2, <1>7
  <2>3. ~Top.triggers.started
    BY <1>1, <2>1 DEF WindowFits, Top
  <2>4. BegunFits(t, n)
    <3>1. current # 0 => BegunAt(t, current)
      BY <1>2, <1>3, <1>8 DEF Fits
    <3>2. \A j \in 1 .. n - 1 : BegunAt(t, j) => j <= current
      BY <1>2, <1>8 DEF Fits
    <3>3. t[owner].kind = "window" /\ t[owner].mode = "resolves"
      <4>1. CASE Top.mode = "resolves"
        BY <1>3, <1>6, <1>7, <4>1
      <4>2. CASE Top.mode # "resolves"
        BY <1>2, <1>3, <1>7, <4>2
      <4> QED BY <4>1, <4>2
    <3>4. \A k \in 1 .. n - 1 : t[k].kind = "triggers" => k < owner
      BY <1>2, <1>3, <1>7
    <3> QED BY <1>3, <1>6, <1>7, <3>1, <3>2, <3>3, <3>4 DEF BegunFits
  <2>5. Top.mode = "passes" => t[n - 1] = stack[n - 1]
    <3>1. Top.mode = "passes" => n # 1
      BY <2>1
    <3> QED BY <3>1, <1>2, <2>2
  <2>6. WindowFits(t, n)
    BY <1>2, <1>4, <1>6, <1>7, <2>1, <2>3, <2>4, <2>5 DEF WindowFits, Top
  <2> QED BY <1>6, <1>7, <2>1, <2>6 DEF FitsAt
<1>11. Fits(t, n)
  <2>1. \A i \in 1 .. n : i \in 1 .. n - 1 \/ i = n
    BY <1>2
  <2> QED BY <1>2, <1>7, <1>8, <1>9, <1>10, <2>1 DEF Fits
<1> QED BY <1>2, <1>5, <1>7, <1>11 DEF SetParentEventWindow, PipelineInv, Types, StackFits

LEMMA OpenOuterWindowKeeps ==
  ASSUME PipelineInv, NEW k \in 1 .. MaxSimultaneous, NEW listeners \in [1 .. k -> Listening],
         OpenOuterWindow(listeners)
  PROVE  PipelineInv'
<1> DEFINE evs == [e \in DOMAIN listeners |-> e]
           f == EventWindow(evs, "resolves", "resolves", "none", <<>>)
<1>1. evs \in Seq(EventIds)
  <2>1. 1 .. k \subseteq EventIds /\ k \in Nat
    BY BoundsAssumption DEF EventIds
  <2>2. evs \in [1 .. k -> EventIds]
    BY <2>1
  <2> QED BY <2>1, <2>2
<1>2. f \in Windows /\ f.kind = "window" /\ f.step = "setParentEventWindow"
      /\ f.mode = "resolves" /\ ~f.triggers.started
  <2>1. "resolves" \in Modes /\ "none" \in SubSteps /\ <<>> \in Triggers \cup {<<>>}
    BY DEF Modes, SubSteps
  <2>2. f = EventWindow(evs, "resolves", "resolves", "none", <<>>)
    OBVIOUS
  <2> HIDE DEF f, evs
  <2> QED BY <1>1, <2>1, <2>2, EventWindowTyped
<1>3. stack = <<>> /\ stack' = <<f>>
  BY DEF OpenOuterWindow
<1> HIDE DEF f
<1>4. stack' \in Seq(Frames) /\ Len(stack') = 1 /\ stack'[1] = f
  BY <1>2, <1>3 DEF Frames
<1>5. current = 0
  BY <1>3 DEF PipelineInv, StackFits, Fits
<1>6. Fits(stack', current)
  <2>1. \A i \in 1 .. Len(stack') : i = 1
    BY <1>4
  <2>2. ~BegunAt(stack', 1)
    BY <1>2, <1>4 DEF BegunAt
  <2>3. FitsAt(stack', 1)
    <3>1. WindowFits(stack', 1)
      BY <1>2, <1>4 DEF WindowFits
    <3> QED BY <1>2, <1>4, <3>1 DEF FitsAt
  <2> QED BY <1>4, <1>5, <2>1, <2>2, <2>3 DEF Fits
<1>7. events' \in [EventIds -> EventRecords]
  <2>1. ASSUME NEW e \in EventIds
        PROVE  (IF e \in DOMAIN listeners THEN NewEvent(listeners[e]) ELSE UnusedEvent) \in EventRecords
    BY NewEventTyped, UnusedEventTyped
  <2> QED BY <2>1 DEF OpenOuterWindow
<1> QED BY <1>4, <1>6, <1>7 DEF OpenOuterWindow, PipelineInv, Types, StackFits

-----------------------------------------------------------------------------
(* Trigger windows *)

\* The order the players resolve in has each of them once.
LEMMA OrderOfAll ==
  ASSUME NEW P \in SUBSET Players, NEW order \in SetToSeqs(P)
  PROVE  /\ order \in Seq(Players) /\ ToSet(order) = P
         /\ P # {} => order # <<>>
<1> DEFINE k == Cardinality(P)
           D == 1 .. k
<1>1. IsFiniteSet(P)
  BY PlayersAssumption, FS_Subset
<1>2. k \in Nat
  BY <1>1, FS_CardinalityType
<1>3. order \in [D -> P] /\ \A i, j \in D : i # j => order[i] # order[j]
  BY DEF SetToSeqs
<1>4. order \in Seq(Players) /\ DOMAIN order = D /\ Len(order) = k
  BY <1>2, <1>3
<1>5. Cardinality(D) = k
  <2>1. Cardinality(D) = IF 1 > k THEN 0 ELSE k - 1 + 1
    BY <1>2, FS_Interval
  <2> HIDE DEF k
  <2> QED BY <2>1, <1>2
<1> HIDE DEF k, D
<1>6. order \in Injection(D, P)
  BY <1>3 DEF Injection, IsInjective
<1>7. Cardinality(D) = Cardinality(P) <=> order \in Surjection(D, P)
  BY <1>1, <1>6, FS_Injection
<1>8. order \in Surjection(D, P)
  BY <1>5, <1>7 DEF k
<1>9. ToSet(order) = P
  BY <1>3, <1>4, <1>8 DEF ToSet, Surjection
<1>10. ASSUME P # {} PROVE order # <<>>
  BY <1>9, <1>10 DEF ToSet
<1> QED BY <1>4, <1>9, <1>10

LEMMA NobodyInOrder ==
  SetToSeq({}) = <<>>
<1>1. Cardinality({}) = 0
  BY FS_EmptySet
<1>2. SetToSeq({}) = CHOOSE f \in [1 .. 0 -> {}] : IsInjective(f)
  BY <1>1 DEF SetToSeq
<1>3. \A f \in [1 .. 0 -> {}] : f = <<>>
  OBVIOUS
<1>4. <<>> \in [1 .. 0 -> {}] /\ IsInjective(<<>>)
  BY DEF IsInjective
<1> QED BY <1>2, <1>3, <1>4

LEMMA KeepKeeps ==
  ASSUME NEW tw \in TriggerRecords, NEW ts
  PROVE  /\ Keep(tw, ts) \in TriggerRecords
         /\ Keep(tw, ts).started = tw.started /\ Keep(tw, ts).order = tw.order
         /\ Keep(tw, ts).seen = tw.seen /\ Keep(tw, ts).missed = tw.missed
         /\ Keep(tw, ts).triggering = tw.triggering
         /\ \A t \in Triggers :
              Keep(tw, ts).unresolved[t] = IF t \in ts THEN tw.unresolved[t] ELSE 0
         /\ Waiting(Keep(tw, ts)) = Waiting(tw) \cap ts
<1> DEFINE f == [t \in Triggers |-> IF t \in ts THEN tw.unresolved[t] ELSE 0]
           kept == Keep(tw, ts)
<1>1. f \in [Triggers -> Nat] /\ \A t \in Triggers : f[t] = IF t \in ts THEN tw.unresolved[t] ELSE 0
  BY DEF TriggerRecords
<1>2. kept = [tw EXCEPT !.unresolved = f]
  BY DEF Keep
<1> HIDE DEF f, kept
<1>3. /\ kept \in TriggerRecords /\ kept.started = tw.started /\ kept.order = tw.order
      /\ kept.seen = tw.seen /\ kept.missed = tw.missed /\ kept.triggering = tw.triggering
      /\ kept.unresolved = f
  BY <1>1, <1>2 DEF TriggerRecords
<1>4. Waiting(kept) = Waiting(tw) \cap ts
  BY <1>1, <1>3 DEF Waiting
<1> QED BY <1>1, <1>3, <1>4 DEF kept

LEMMA CleanUpKeeps ==
  ASSUME NEW tw \in TriggerRecords, NEW new, new = CleanUpTriggers(tw)
  PROVE  /\ new \in TriggerRecords /\ new.started = tw.started /\ new.order = tw.order
         /\ new.seen = tw.seen /\ new.missed = tw.missed /\ new.triggering = tw.triggering
         /\ Waiting(new) \subseteq Waiting(tw)
         /\ \A t \in Triggers : new.unresolved[t] <= tw.unresolved[t]
<1> DEFINE ts == IF AnyLegal(Waiting(Keep(tw, ByResolved))) THEN ByResolved ELSE {}
<1>1. new = Keep(tw, ts)
  BY DEF CleanUpTriggers
<1> HIDE DEF ts
<1>2. /\ new \in TriggerRecords /\ new.started = tw.started /\ new.order = tw.order
      /\ new.seen = tw.seen /\ new.missed = tw.missed /\ new.triggering = tw.triggering
      /\ \A t \in Triggers : new.unresolved[t] = IF t \in ts THEN tw.unresolved[t] ELSE 0
      /\ Waiting(new) = Waiting(tw) \cap ts
  BY <1>1, KeepKeeps
<1>3. \A t \in Triggers : tw.unresolved[t] \in Nat
  BY DEF TriggerRecords
<1> QED BY <1>2, <1>3

\* With fewer triggers waiting, no player comes in who had none.
LEMMA FewerTriggers ==
  ASSUME NEW old, NEW new, Waiting(new) \subseteq Waiting(old)
  PROVE  WithTriggers(new) \subseteq WithTriggers(old)
BY DEF WithTriggers, WaitingOf

LEMMA SkippingKeeps ==
  ASSUME NEW tw \in TriggerWindows, tw.started = TRUE, tw.order # <<>>,
         NEW new, new = SkipUnable(tw)
  PROVE  /\ new \in TriggerWindows /\ new.started = TRUE
         /\ new.seen = tw.seen /\ new.missed = tw.missed /\ new.triggering = tw.triggering
         /\ Waiting(new) \subseteq Waiting(tw)
         /\ \A t \in Triggers : new.unresolved[t] <= tw.unresolved[t]
<1> DEFINE p == Head(tw.order)
           kept == Keep(tw, Triggers \ WaitingOf(tw, p))
           rest == Tail(tw.order)
<1>1. tw \in TriggerRecords /\ WithTriggers(tw) \subseteq ToSet(tw.order)
      /\ tw.order \in Seq(Players)
  BY DEF TriggerWindows, TurnsInOrder, TriggerRecords
<1>2. \A t \in Triggers : tw.unresolved[t] \in Nat
  BY <1>1 DEF TriggerRecords
<1>3. CASE AnyLegal(WaitingOf(tw, p))
  BY <1>2, <1>3 DEF SkipUnable
<1>4. CASE ~AnyLegal(WaitingOf(tw, p))
  <2>1. new = [kept EXCEPT !.order = Tail(@)]
    BY <1>4 DEF SkipUnable
  <2> DEFINE ts == Triggers \ WaitingOf(tw, p)
  <2>2. /\ kept \in TriggerRecords /\ kept.started = tw.started /\ kept.order = tw.order
        /\ kept.seen = tw.seen /\ kept.missed = tw.missed /\ kept.triggering = tw.triggering
        /\ \A t \in Triggers : kept.unresolved[t] = IF t \in ts THEN tw.unresolved[t] ELSE 0
        /\ Waiting(kept) = Waiting(tw) \cap ts
    <3>1. kept = Keep(tw, ts)
      OBVIOUS
    <3>2. tw \in TriggerRecords
      BY <1>1
    <3> HIDE DEF kept, ts, p, rest
    <3> QED BY <3>1, <3>2, KeepKeeps
  <2> HIDE DEF kept
  <2>3. rest \in Seq(Players) /\ ToSet(tw.order) \subseteq ToSet(rest) \cup {p}
    <3>1. /\ Len(tw.order) \in Nat \ {0} /\ rest \in Seq(Players) /\ Len(rest) = Len(tw.order) - 1
          /\ \A i \in 1 .. Len(rest) : rest[i] = tw.order[i + 1]
          /\ p = tw.order[1]
      BY <1>1
    <3> HIDE DEF rest, p
    <3>2. ASSUME NEW i \in 1 .. Len(tw.order), i # 1 PROVE tw.order[i] \in ToSet(rest)
      <4>1. i - 1 \in 1 .. Len(rest) /\ rest[i - 1] = tw.order[i]
        BY <3>1, <3>2
      <4>2. DOMAIN rest = 1 .. Len(rest)
        BY <3>1
      <4> QED BY <4>1, <4>2 DEF ToSet
    <3>3. ASSUME NEW i \in DOMAIN tw.order PROVE tw.order[i] \in ToSet(rest) \cup {p}
      <4>1. i \in 1 .. Len(tw.order)
        BY <1>1
      <4>2. CASE i = 1
        BY <3>1, <4>2
      <4>3. CASE i # 1
        BY <3>2, <4>1, <4>3
      <4> QED BY <4>2, <4>3
    <3> QED BY <3>1, <3>3 DEF ToSet
  <2>4. WithTriggers(kept) \subseteq WithTriggers(tw) \ {p}
    BY <2>2 DEF WithTriggers, WaitingOf
  <2>5. new = [kept EXCEPT !.order = rest]
    BY <2>1, <2>2
  <2> HIDE DEF rest, p
  <2>6. /\ new \in TriggerRecords /\ new.started = kept.started /\ new.order = rest
        /\ new.seen = kept.seen /\ new.missed = kept.missed
        /\ new.triggering = kept.triggering /\ new.unresolved = kept.unresolved
    BY <2>2, <2>3, <2>5 DEF TriggerRecords
  <2>7. Waiting(new) = Waiting(kept) /\ WithTriggers(new) = WithTriggers(kept)
    BY <2>6 DEF Waiting, WithTriggers, WaitingOf
  <2>8. TurnsInOrder(new)
    BY <1>1, <2>3, <2>4, <2>6, <2>7 DEF TurnsInOrder
  <2>9. Waiting(new) \subseteq Waiting(tw)
    BY <2>2, <2>7
  <2>10. \A t \in Triggers : new.unresolved[t] <= tw.unresolved[t]
    BY <1>2, <2>2, <2>6
  <2> QED BY <2>2, <2>6, <2>8, <2>9, <2>10 DEF TriggerWindows
<1> QED BY <1>3, <1>4

\* When everyone in the order had a turn, no triggers are left.
LEMMA NextPlayerKeeps ==
  ASSUME NEW tw \in TriggerWindows, tw.started = TRUE, tw.order # <<>>,
         NEW new, new = NextPlayer(tw)
  PROVE  /\ new \in TriggerWindows /\ new.started = TRUE
         /\ new.seen = tw.seen /\ new.missed = tw.missed /\ new.triggering = tw.triggering
         /\ Waiting(new) \subseteq Waiting(tw)
         /\ \A t \in Triggers : new.unresolved[t] <= tw.unresolved[t]
         /\ new.order = <<>> => Waiting(new) = {}
<1> DEFINE skipped == SkipUnable(tw)
<1>1. /\ skipped \in TriggerWindows /\ skipped.started = TRUE
      /\ skipped.seen = tw.seen /\ skipped.missed = tw.missed
      /\ skipped.triggering = tw.triggering
      /\ Waiting(skipped) \subseteq Waiting(tw)
      /\ \A t \in Triggers : skipped.unresolved[t] <= tw.unresolved[t]
  BY SkippingKeeps
<1>2. /\ skipped.order = <<>> => new = [skipped EXCEPT !.order = SetToSeq(WithTriggers(skipped))]
      /\ skipped.order # <<>> => new = skipped
  BY DEF NextPlayer
<1> HIDE DEF skipped
<1>3. ASSUME skipped.order = <<>> PROVE new = skipped /\ Waiting(skipped) = {}
  <2>1. WithTriggers(skipped) \subseteq ToSet(<<>>)
    BY <1>1, <1>3 DEF TriggerWindows, TurnsInOrder
  <2>2. WithTriggers(skipped) = {}
    BY <2>1 DEF ToSet
  <2>3. new = [skipped EXCEPT !.order = skipped.order]
    BY <1>2, <1>3, <2>2, NobodyInOrder
  <2>4. skipped \in TriggerRecords
    BY <1>1 DEF TriggerWindows
  <2>5. new = skipped
    BY <2>3, <2>4 DEF TriggerRecords
  <2>6. ASSUME NEW t \in Waiting(skipped) PROVE FALSE
    <3>1. t \in Triggers /\ Controller[t[1]] \in Players
      BY ControllerAssumption DEF Waiting, Triggers
    <3>2. t \in WaitingOf(skipped, Controller[t[1]])
      BY DEF WaitingOf
    <3> QED BY <2>2, <3>1, <3>2 DEF WithTriggers
  <2> QED BY <2>5, <2>6
<1> QED BY <1>1, <1>2, <1>3

LEMMA SameFrames ==
  ASSUME NEW s \in Seq(Frames), NEW t \in Seq(Frames), Len(s) = Len(t),
         \A i \in 1 .. Len(s) : s[i] = t[i]
  PROVE  s = t
OBVIOUS

\* Stack s with frame g in place i.
Replaced(s, i, g) == [s EXCEPT ![i] = g]

\* A window may be replaced by one that plays the same part at the same step, and
\* whose triggers differ as they may at this place.
LEMMA WindowReplaced ==
  ASSUME NEW s \in Seq(Frames), NEW c, Fits(s, c), NEW i \in 1 .. Len(s),
         s[i].kind = "window", NEW g \in Windows, SameRole(s[i], g), g.step = s[i].step,
         TriggersMayBe(s, i, s[i], g), TopMayBe(s[i], g)
  PROVE  LET u == Replaced(s, i, g)
         IN  /\ u \in Seq(Frames) /\ Fits(u, c) /\ Len(u) = Len(s) /\ u[i] = g
             /\ \A j \in 1 .. Len(s) : j # i => u[j] = s[j]
<1> DEFINE u == Replaced(s, i, g)
<1>4. u \in Seq(Frames) /\ Len(u) = Len(s) /\ u[i] = g
      /\ \A j \in 1 .. Len(s) : j # i => u[j] = s[j]
  BY FrameReplaced DEF Frames, Replaced
<1> HIDE DEF u
<1>5. \A j \in 1 .. Len(s) : SameRole(s[j], u[j]) /\ SameStep(s[j], u[j])
  BY <1>4 DEF SameRole, SameStep
<1>6. ASSUME NEW j \in 1 .. Len(s), s[j].kind = "window"
      PROVE  TriggersMayBe(s, j, s[j], u[j])
  <2>1. CASE j = i
    BY <2>1, <1>4
  <2>2. CASE j # i
    <3>1. s[j] \in Windows
      <4>1. s[j] \in Frames
        OBVIOUS
      <4> QED BY <4>1, <1>6, FramesOfKinds
    <3> QED BY <2>2, <3>1, <1>4, SameTurnItself DEF TriggersMayBe
  <2> QED BY <2>1, <2>2
<1>7. s # <<>> => TopMayBe(s[Len(s)], u[Len(s)])
  <2>1. Len(s) \in 1 .. Len(s) /\ FitsAt(s, Len(s))
    BY DEF Fits
  <2>2. CASE i = Len(s)
    BY <2>2, <1>4
  <2>3. CASE i # Len(s)
    <3>1. u[Len(s)] = s[Len(s)]
      BY <1>4, <2>1, <2>3
    <3> QED BY <2>1, <3>1 DEF TopMayBe, FitsAt, WindowFits
  <2> QED BY <2>2, <2>3
<1>8. \A j \in 1 .. Len(s) - 1 : SameStep(s[j], u[j])
  BY <1>5
<1>9. Fits(u, c)
  BY <1>4, <1>5, <1>6, <1>7, <1>8, StillFits
<1> QED BY <1>4, <1>9 DEF u

\* What changes of a window with its triggers.
Retriggered(f, tw) == [f EXCEPT !.triggers = tw]

LEMMA RetriggeredWindow ==
  ASSUME NEW f \in Windows, NEW tw \in TriggerWindows
  PROVE  LET g == Retriggered(f, tw)
         IN  /\ g \in Windows /\ g.kind = "window" /\ g.step = f.step /\ g.mode = f.mode
             /\ g.parent = f.parent /\ g.owner = f.owner /\ g.triggers = tw
             /\ SameRole(f, g)
BY DEF Retriggered, SameRole, Windows, WindowRecords, KnowsItsTrigger

\* Once the order of a window's players is settled, it is someone's turn.
SomeonesTurn(tw) == tw.started => tw.order # <<>>

\* At the last step, on top or below its trigger window, a window's triggers may
\* change in any way that keeps the players' order.
LEMMA RetriggeredFits ==
  ASSUME NEW s \in Seq(Frames), NEW c, Fits(s, c), NEW i \in 1 .. Len(s),
         s[i].kind = "window", s[i].step = "cleanup", s[i].mode = "resolves",
         NEW tw \in TriggerWindows,
         i # Len(s) =>
           i = Len(s) - 1 /\ s[Len(s)].kind = "triggers" /\ SomeonesTurn(tw)
  PROVE  LET t == Replaced(s, i, Retriggered(s[i], tw))
         IN  /\ t \in Seq(Frames) /\ Fits(t, c) /\ Len(t) = Len(s)
             /\ t[i] \in Windows /\ t[i].kind = "window" /\ t[i].triggers = tw
             /\ t[i] = Retriggered(s[i], tw)
             /\ \A j \in 1 .. Len(s) : j # i => t[j] = s[j]
<1> DEFINE g == Retriggered(s[i], tw)
<1>1. s[i] \in Windows
  <2>1. s[i] \in Frames
    OBVIOUS
  <2> QED BY <2>1, FramesOfKinds
<1>2. /\ g \in Windows /\ g.kind = "window" /\ g.triggers = tw /\ g.step = s[i].step
      /\ SameRole(s[i], g)
  BY <1>1, RetriggeredWindow
<1> HIDE DEF g
<1>3. TriggersMayBe(s, i, s[i], g)
  BY <1>2 DEF TriggersMayBe, SomeonesTurn
<1>4. TopMayBe(s[i], g)
  BY <1>2 DEF TopMayBe
<1>5. LET t == Replaced(s, i, g)
      IN  /\ t \in Seq(Frames) /\ Fits(t, c) /\ Len(t) = Len(s) /\ t[i] = g
          /\ \A j \in 1 .. Len(s) : j # i => t[j] = s[j]
  BY <1>2, <1>3, <1>4, WindowReplaced
<1> QED BY <1>2, <1>5 DEF g

\* A trigger window lies on the window whose triggers it resolves.
LEMMA TriggersOnTop ==
  ASSUME PipelineInv, InTriggerWindow
  PROVE  /\ stack # <<>> /\ n - 1 \in 1 .. n /\ n \in Nat \ {0} /\ Top.kind = "triggers"
         /\ stack[n - 1] \in Windows /\ stack[n - 1].kind = "window"
         /\ stack[n - 1].step = "cleanup" /\ stack[n - 1].mode = "resolves"
         /\ OwnTriggers \in TriggerWindows
         /\ SomeonesTurn(OwnTriggers)
<1>1. stack # <<>> /\ Top.kind = "triggers"
  BY DEF InTriggerWindow
<1>2. /\ n \in Nat \ {0} /\ \A i \in 1 .. n : stack[i] \in Frames
      /\ FitsAt(stack, n)
  BY <1>1, TopIsFrame DEF PipelineInv, StackFits, Fits, n
<1>3. TriggersFit(stack, n) /\ n # 1
  BY <1>1, <1>2 DEF FitsAt, Top
<1>4. n - 1 \in 1 .. n
  BY <1>2, <1>3
<1>5. stack[n - 1] \in Windows
  BY <1>2, <1>3, <1>4, FramesOfKinds DEF TriggersFit
<1> QED BY <1>1, <1>2, <1>3, <1>4, <1>5
        DEF TriggersFit, OwnTriggers, SomeonesTurn, Windows, WindowRecords

LEMMA PoppedTriggersFit ==
  ASSUME PipelineInv, InTriggerWindow
  PROVE  /\ Pop \in Seq(Frames) /\ Len(Pop) = n - 1 /\ Fits(Pop, current)
         /\ \A i \in 1 .. n - 1 : Pop[i] = stack[i]
<1>1. stack # <<>> /\ n \in Nat \ {0} /\ Top.kind = "triggers" /\ stack \in Seq(Frames)
      /\ Fits(stack, current)
  BY TriggersOnTop DEF PipelineInv, Types, StackFits
<1>2. CurrentBelow(stack, current) = current
  BY <1>1 DEF CurrentBelow, BegunAt, Top, n
<1>3. Fits(SubSeq(stack, 1, Len(stack) - 1), CurrentBelow(stack, current))
  BY <1>1, PoppedFits
<1>4. Fits(Pop, current)
  BY <1>2, <1>3 DEF Pop, n
<1>5. Pop \in Seq(Frames) /\ Len(Pop) = Len(stack) - 1
      /\ \A i \in 1 .. Len(stack) - 1 : Pop[i] = stack[i]
  <2>1. Pop = SubSeq(stack, 1, Len(stack) - 1)
    BY DEF Pop, n
  <2> QED BY <1>1, <2>1, PopTyped
<1> QED BY <1>4, <1>5 DEF n

\* The trigger window is done: the window below goes on, with its triggers changed.
LEMMA TriggerWindowEnds ==
  ASSUME PipelineInv, InTriggerWindow, NEW tw \in TriggerWindows
  PROVE  LET t == SubSeq(SetTriggers(tw), 1, n - 1)
         IN  t \in Seq(Frames) /\ Fits(t, current)
<1> DEFINE k == n - 1
           g == Retriggered(stack[k], tw)
           u == Replaced(Pop, k, g)
           v == SetTriggers(tw)
           t == SubSeq(v, 1, n - 1)
<1>1. /\ Pop \in Seq(Frames) /\ Len(Pop) = k /\ Fits(Pop, current)
      /\ \A i \in 1 .. k : Pop[i] = stack[i]
  BY PoppedTriggersFit
<1>2. stack \in Seq(Frames) /\ Len(stack) = n
  BY DEF PipelineInv, Types, n
<1>3. k \in 1 .. k /\ n \in Nat /\ stack[k] \in Windows /\ k \in 1 .. n /\ n = k + 1
  BY TriggersOnTop
<1>4. stack[k].kind = "window" /\ stack[k].step = "cleanup" /\ stack[k].mode = "resolves"
  BY TriggersOnTop
<1> HIDE DEF k
<1>5. g = Retriggered(Pop[k], tw) /\ g \in Windows
  BY <1>1, <1>3, RetriggeredWindow
<1>6. /\ u \in Seq(Frames) /\ Fits(u, current) /\ Len(u) = k /\ u[k] = g
      /\ \A j \in 1 .. k : j # k => u[j] = Pop[j]
  <2>1. Pop[k] = stack[k] /\ k \in 1 .. Len(Pop) /\ k = Len(Pop)
    BY <1>1, <1>3
  <2>2. Pop[k].kind = "window" /\ Pop[k].step = "cleanup" /\ Pop[k].mode = "resolves"
    BY <1>4, <2>1
  <2>3. u = Replaced(Pop, k, Retriggered(Pop[k], tw))
    BY <1>5
  <2> HIDE DEF u
  <2>4. /\ u \in Seq(Frames) /\ Fits(u, current) /\ Len(u) = Len(Pop)
        /\ u[k] = Retriggered(Pop[k], tw)
        /\ \A j \in 1 .. Len(Pop) : j # k => u[j] = Pop[j]
    BY <1>1, <2>1, <2>2, <2>3, RetriggeredFits
  <2> QED BY <1>1, <1>5, <2>4
<1>7. /\ v \in Seq(Frames) /\ Len(v) = n /\ v[k] = g
      /\ \A j \in 1 .. n : j # k => v[j] = stack[j]
  <2> DEFINE x == [stack EXCEPT ![k] = g]
  <2>1. v = x
    BY DEF SetTriggers, k, Retriggered
  <2>2. k \in 1 .. Len(stack) /\ g \in Frames
    BY <1>2, <1>3, <1>5 DEF Frames
  <2> HIDE DEF g
  <2>3. /\ x \in Seq(Frames) /\ Len(x) = Len(stack) /\ x[k] = g
        /\ \A j \in 1 .. Len(stack) : j # k => x[j] = stack[j]
    BY <1>2, <2>2, FrameReplaced
  <2> QED BY <1>2, <2>1, <2>3
<1> HIDE DEF g, u, v, t
<1>8. t = u
  <2>1. v # <<>> /\ t = SubSeq(v, 1, Len(v) - 1)
    BY <1>3, <1>7 DEF t
  <2>2. t \in Seq(Frames) /\ Len(t) = k /\ \A i \in 1 .. k : t[i] = v[i]
    BY <1>3, <1>7, <2>1, PopTyped
  <2>3. ASSUME NEW i \in 1 .. k PROVE t[i] = u[i]
    <3>1. CASE i = k
      BY <1>3, <1>6, <1>7, <2>2, <3>1
    <3>2. CASE i # k
      <4>1. i \in 1 .. n /\ v[i] = stack[i]
        BY <1>3, <1>7, <3>2
      <4> QED BY <1>1, <1>6, <2>2, <3>2, <4>1
    <3> QED BY <3>1, <3>2
  <2> QED BY <1>6, <2>2, <2>3, SameFrames
<1> QED BY <1>6, <1>8 DEF t, v

LEMMA ExcuseTyped ==
  ASSUME Types, NEW dropped, NEW evs, evs = Excuse(events, dropped)
  PROVE  evs \in [EventIds -> EventRecords]
<1> DEFINE more(e) == {a \in Abilities \ legal : <<a, e>> \in dropped}
<1>1. ASSUME NEW e \in EventIds, NEW as, as = more(e)
      PROVE  [events[e] EXCEPT !.excused = @ \cup as] \in EventRecords
  BY <1>1 DEF Types, EventRecords
<1>2. \A e \in EventIds : [events[e] EXCEPT !.excused = @ \cup more(e)] \in EventRecords
  BY <1>1
<1> QED BY <1>2 DEF Excuse

\* The triggers of the window below may change while its trigger window runs.
LEMMA TriggersSetFit ==
  ASSUME PipelineInv, InTriggerWindow, NEW tw \in TriggerWindows, SomeonesTurn(tw)
  PROVE  LET t == SetTriggers(tw)
         IN  /\ t \in Seq(Frames) /\ Fits(t, current) /\ Len(t) = n
             /\ t[n] = Top /\ t[n].kind = "triggers"
             /\ t[n - 1].kind = "window" /\ t[n - 1].triggers = tw
<1> DEFINE k == n - 1
           t == SetTriggers(tw)
<1>1. stack \in Seq(Frames) /\ Len(stack) = n /\ Fits(stack, current)
  BY DEF PipelineInv, Types, StackFits, n
<1>2. k \in 1 .. n /\ n \in 1 .. n /\ k # n /\ n - 1 = k
  BY TriggersOnTop
<1>3. /\ stack[k].kind = "window" /\ stack[k].step = "cleanup" /\ stack[k].mode = "resolves"
      /\ stack[n].kind = "triggers" /\ Top = stack[n]
  BY TriggersOnTop DEF Top
<1>4. t = Replaced(stack, k, Retriggered(stack[k], tw))
  BY DEF SetTriggers, Replaced, Retriggered
<1> HIDE DEF k, t
<1>5. /\ t \in Seq(Frames) /\ Fits(t, current) /\ Len(t) = Len(stack)
      /\ t[k].kind = "window" /\ t[k].triggers = tw
      /\ \A j \in 1 .. Len(stack) : j # k => t[j] = stack[j]
  BY <1>1, <1>2, <1>3, <1>4, RetriggeredFits
<1>6. t[n] = stack[n]
  BY <1>1, <1>2, <1>5
<1> QED BY <1>1, <1>2, <1>3, <1>5, <1>6 DEF t

\* Before the players' order is settled, any triggers are in order.
LEMMA UnstartedInOrder ==
  ASSUME NEW tw \in TriggerRecords, tw.started = FALSE
  PROVE  tw \in TriggerWindows
BY DEF TriggerWindows, TurnsInOrder

\* The order that is chosen has everyone with triggers.
LEMMA StartedInOrder ==
  ASSUME NEW tw \in TriggerRecords, NEW order \in Orders(tw), WithTriggers(tw) # {},
         NEW new, new = [tw EXCEPT !.started = TRUE, !.order = order]
  PROVE  /\ new \in TriggerWindows /\ SomeonesTurn(new)
         /\ new.started = TRUE /\ new.order = order
         /\ new.seen = tw.seen /\ new.missed = tw.missed /\ new.triggering = tw.triggering
         /\ new.unresolved = tw.unresolved
<1>1. WithTriggers(tw) \in SUBSET Players
  BY DEF WithTriggers
<1>2. order \in Seq(Players) /\ ToSet(order) = WithTriggers(tw) /\ order # <<>>
  BY <1>1, OrderOfAll DEF Orders
<1>3. /\ new \in TriggerRecords /\ new.started = TRUE /\ new.order = order
      /\ new.seen = tw.seen /\ new.missed = tw.missed /\ new.triggering = tw.triggering
      /\ new.unresolved = tw.unresolved
  BY <1>2 DEF TriggerRecords
<1>4. WithTriggers(new) = WithTriggers(tw)
  BY <1>3 DEF WithTriggers, WaitingOf, Waiting
<1>5. new \in TriggerWindows
  BY <1>2, <1>3, <1>4 DEF TriggerWindows, TurnsInOrder
<1>6. SomeonesTurn(new)
  BY <1>2, <1>3 DEF SomeonesTurn
<1> QED BY <1>3, <1>5, <1>6

LEMMA StartResolvingKeeps ==
  ASSUME PipelineInv, StartResolving
  PROVE  PipelineInv'
<1> DEFINE tw == CleanUpTriggers(OwnTriggers)
<1>1. InTriggerWindow /\ OwnTriggers \in TriggerWindows
  BY TriggersOnTop DEF StartResolving
<1>2. tw \in TriggerRecords /\ tw.started = FALSE
  <2>1. OwnTriggers \in TriggerRecords
    BY <1>1 DEF TriggerWindows
  <2>2. OwnTriggers.started = FALSE
    BY <2>1 DEF StartResolving, TriggerRecords
  <2> HIDE DEF tw
  <2>3. tw \in TriggerRecords /\ tw.started = OwnTriggers.started
    BY <2>1, CleanUpKeeps DEF tw
  <2> QED BY <2>2, <2>3
<1>3. events' \in [EventIds -> EventRecords]
  BY ExcuseTyped DEF StartResolving, PipelineInv
<1>4. \/ WithTriggers(tw) = {} /\ stack' = SubSeq(SetTriggers(tw), 1, n - 1)
      \/ /\ WithTriggers(tw) # {}
         /\ \E order \in Orders(tw) :
              stack' = SetTriggers([tw EXCEPT !.started = TRUE, !.order = order])
  BY DEF StartResolving
<1> HIDE DEF tw
<1>5. stack' \in Seq(Frames) /\ Fits(stack', current)
  <2>1. CASE stack' = SubSeq(SetTriggers(tw), 1, n - 1)
    <3>1. tw \in TriggerWindows
      BY <1>2, UnstartedInOrder
    <3> QED BY <1>1, <2>1, <3>1, TriggerWindowEnds
  <2>2. CASE /\ WithTriggers(tw) # {}
             /\ \E order \in Orders(tw) :
                  stack' = SetTriggers([tw EXCEPT !.started = TRUE, !.order = order])
    <3>1. PICK order \in Orders(tw) :
            stack' = SetTriggers([tw EXCEPT !.started = TRUE, !.order = order])
      BY <2>2
    <3> DEFINE new == [tw EXCEPT !.started = TRUE, !.order = order]
    <3>2. new \in TriggerWindows /\ SomeonesTurn(new)
      BY <1>2, <2>2, StartedInOrder
    <3>3. stack' = SetTriggers(new)
      BY <3>1
    <3> HIDE DEF new
    <3> QED BY <1>1, <3>2, <3>3, TriggersSetFit
  <2> QED BY <1>4, <2>1, <2>2
<1> QED BY <1>3, <1>5 DEF StartResolving, PipelineInv, Types, StackFits

\* A trigger is resolved by the player whose turn it is.
LEMMA ResolveNextTriggerKeeps ==
  ASSUME PipelineInv, ResolveNextTrigger
  PROVE  PipelineInv'
<1> DEFINE tw == NextPlayer(OwnTriggers)
<1>1. InTriggerWindow /\ OwnTriggers \in TriggerWindows /\ SomeonesTurn(OwnTriggers)
  BY TriggersOnTop DEF ResolveNextTrigger
<1>2. /\ tw \in TriggerWindows /\ tw.started = TRUE
      /\ tw.order = <<>> => Waiting(tw) = {}
  <2>1. OwnTriggers.started = TRUE
    BY <1>1 DEF TriggerWindows, TriggerRecords, ResolveNextTrigger
  <2>2. OwnTriggers.order # <<>>
    BY <1>1, <2>1 DEF SomeonesTurn
  <2> HIDE DEF tw
  <2> QED BY <1>1, <2>1, <2>2, NextPlayerKeeps DEF tw
<1>3. events' \in [EventIds -> EventRecords]
  BY ExcuseTyped DEF ResolveNextTrigger, PipelineInv
<1>4. \/ stack' = SubSeq(SetTriggers(tw), 1, n - 1)
      \/ /\ tw.order # <<>>
         /\ \E t \in WaitingOf(tw, Head(tw.order)) :
              stack' = Append(SetTriggers(tw), AbilityResolver(t, "resolves", "trigger"))
  BY DEF ResolveNextTrigger
<1> HIDE DEF tw
<1>5. stack' \in Seq(Frames) /\ Fits(stack', current)
  <2>1. CASE stack' = SubSeq(SetTriggers(tw), 1, n - 1)
    BY <1>1, <1>2, <2>1, TriggerWindowEnds
  <2>2. CASE /\ tw.order # <<>>
             /\ \E t \in WaitingOf(tw, Head(tw.order)) :
                  stack' = Append(SetTriggers(tw), AbilityResolver(t, "resolves", "trigger"))
    <3>1. PICK t \in WaitingOf(tw, Head(tw.order)) :
            stack' = Append(SetTriggers(tw), AbilityResolver(t, "resolves", "trigger"))
      BY <2>2
    <3> DEFINE r == AbilityResolver(t, "resolves", "trigger")
               s == SetTriggers(tw)
    <3>2. t \in Triggers /\ tw.unresolved[t] > 0 /\ Controller[t[1]] = Head(tw.order)
      BY DEF WaitingOf, Waiting
    <3>3. /\ r \in Resolvers /\ r.kind = "resolver" /\ r.mode = "resolves"
          /\ r.role = "trigger" /\ r.trigger = t
      <4>1. "resolves" \in Modes /\ "trigger" \in {"trigger", "subStep"}
        BY DEF Modes
      <4> QED BY <3>2, <4>1, AbilityResolverTyped
    <3>4. SomeonesTurn(tw)
      BY <2>2 DEF SomeonesTurn
    <3>5. /\ s \in Seq(Frames) /\ Fits(s, current) /\ Len(s) = n
          /\ s[n].kind = "triggers"
          /\ s[n - 1].kind = "window" /\ s[n - 1].triggers = tw
      BY <1>1, <1>2, <3>4, TriggersSetFit
    <3>6. n \in Nat /\ n > 1
      BY <1>1, TriggersOnTop
    <3>7. stack' = Append(s, r)
      BY <3>1
    <3> HIDE DEF r, s
    <3>8. MayLieOn(r, s[Len(s)])
      BY <3>3, <3>5 DEF MayLieOn
    <3>9. ResolvesWaiting(s[Len(s) - 1].triggers, r.trigger)
      BY <1>2, <3>2, <3>3, <3>5 DEF ResolvesWaiting
    <3>10. r \in Frames /\ s # <<>> /\ Len(s) > 1
      BY <3>3, <3>5, <3>6 DEF Frames
    <3>11. Fits(Append(s, r), current)
      BY <3>3, <3>5, <3>8, <3>9, <3>10, PushedFits
    <3>12. Append(s, r) \in Seq(Frames)
      BY <3>5, <3>10
    <3> QED BY <3>7, <3>11, <3>12
  <2> QED BY <1>4, <2>1, <2>2
<1> QED BY <1>3, <1>5 DEF ResolveNextTrigger, PipelineInv, Types, StackFits

\* A resolver that commits itself stays what it is.
LEMMA CommittedFits ==
  ASSUME PipelineInv, AtStep("resolver", "checkAbility")
  PROVE  LET t == Committed
         IN  /\ Top \in Resolvers /\ t \in Seq(Frames) /\ Fits(t, current) /\ t # <<>>
             /\ t[Len(t)].kind = "resolver" /\ t[Len(t)].step = "done"
             /\ t[Len(t)].resolutionCommitted = TRUE /\ t[Len(t)].mode = Top.mode
<1> DEFINE g == [Top EXCEPT !.step = "done", !.resolutionCommitted = TRUE]
           t == Committed
<1>1. stack # <<>> /\ Top.kind = "resolver"
  BY DEF AtStep
<1>2. Top \in Resolvers /\ Top = stack[Len(stack)]
  BY <1>1, TopIsFrame, FramesOfKinds DEF PipelineInv, Top, n
<1>3. /\ g \in Resolvers /\ g.kind = "resolver" /\ g.step = "done" /\ g.role = Top.role
      /\ g.resolutionCommitted = TRUE /\ g.mode = Top.mode /\ g.trigger = Top.trigger
  BY <1>2 DEF Resolvers
<1>4. stack \in Seq(Frames) /\ Fits(stack, current) /\ t = [stack EXCEPT ![Len(stack)] = g]
  BY DEF PipelineInv, Types, StackFits, Committed, SetTop, n
<1> HIDE DEF g, t
<1>5. g \in Frames /\ SameRole(stack[Len(stack)], g) /\ TopMayBe(stack[Len(stack)], g)
  BY <1>1, <1>2, <1>3 DEF Frames, SameRole, TopMayBe
<1>6. t \in Seq(Frames) /\ Len(t) = Len(stack) /\ t[Len(stack)] = g /\ t # <<>>
  BY <1>1, <1>4, <1>5, TopReplaced
<1>7. Fits(t, current)
  BY <1>1, <1>4, <1>5, TopReplacedFits
<1> QED BY <1>2, <1>3, <1>6, <1>7 DEF t

LEMMA OpenInitiateAbilityEventWindowKeeps ==
  ASSUME PipelineInv, OpenInitiateAbilityEventWindow
  PROVE  PipelineInv'
<1> DEFINE w == InitiateWindow(Top)
           s == Committed
<1>1. /\ Top \in Resolvers /\ s \in Seq(Frames) /\ Fits(s, current) /\ s # <<>>
      /\ s[Len(s)].kind = "resolver" /\ s[Len(s)].step = "done"
      /\ s[Len(s)].resolutionCommitted = TRUE /\ s[Len(s)].mode = Top.mode
  BY CommittedFits DEF OpenInitiateAbilityEventWindow
<1>2. stack' = Append(s, w)
  BY DEF OpenInitiateAbilityEventWindow
<1>3. /\ w \in Windows /\ w.kind = "window" /\ w.step = "setParentEventWindow"
      /\ w.mode = Top.mode /\ ~w.triggers.started
  BY <1>1, InitiateWindowTyped
<1> HIDE DEF w, s
<1>4. MayLieOn(w, s[Len(s)])
  BY <1>1, <1>3 DEF MayLieOn
<1>5. w \in Frames
  BY <1>3 DEF Frames
<1>6. Fits(Append(s, w), current) /\ Append(s, w) \in Seq(Frames)
  BY <1>1, <1>3, <1>4, <1>5, PushedFits
<1> QED BY <1>2, <1>6 DEF OpenInitiateAbilityEventWindow, PipelineInv, Types, StackFits

LEMMA AbilityIsCancelledKeeps ==
  ASSUME PipelineInv, AbilityIsCancelled
  PROVE  PipelineInv'
<1> DEFINE r == SubAbilityStep(Top.trigger, Top.subStep)
           s == Committed
<1>1. /\ Top \in Resolvers /\ s \in Seq(Frames) /\ Fits(s, current) /\ s # <<>>
      /\ s[Len(s)].kind = "resolver" /\ s[Len(s)].step = "done"
      /\ s[Len(s)].resolutionCommitted = TRUE /\ s[Len(s)].mode = Top.mode
  BY CommittedFits DEF AbilityIsCancelled
<1>2. stack' = s \o (IF Top.subStep = "ifYouDoNot" THEN <<r>> ELSE <<>>)
  BY DEF AbilityIsCancelled
<1>3. /\ r \in Resolvers /\ r.kind = "resolver" /\ r.role = "subStep"
      /\ Top.subStep = "ifYouDoNot" => r.mode = "resolves"
  <2>1. Top.trigger \in Triggers
    BY <1>1 DEF Resolvers
  <2> QED BY <2>1, SubAbilityStepTyped
<1> HIDE DEF r, s
<1>4. stack' \in Seq(Frames) /\ Fits(stack', current)
  <2>1. CASE Top.subStep # "ifYouDoNot"
    BY <1>1, <1>2, <2>1
  <2>2. CASE Top.subStep = "ifYouDoNot"
    <3>1. stack' = Append(s, r) /\ r \in Frames
      BY <1>1, <1>2, <1>3, <2>2 DEF Frames
    <3>2. MayLieOn(r, s[Len(s)])
      BY <1>1, <1>3, <2>2 DEF MayLieOn
    <3>3. Fits(Append(s, r), current) /\ Append(s, r) \in Seq(Frames)
      BY <1>1, <1>3, <3>1, <3>2, PushedFits
    <3> QED BY <3>1, <3>3
  <2> QED BY <2>1, <2>2
<1> QED BY <1>4 DEF AbilityIsCancelled, PipelineInv, Types, StackFits

\* Without the resolver on top the stack fits as it did.
LEMMA PoppedResolverFits ==
  ASSUME PipelineInv, AtStep("resolver", "done")
  PROVE  LET s == Pop
         IN  /\ stack # <<>> /\ n \in Nat \ {0} /\ Top \in Resolvers
             /\ ResolverFits(stack, n)
             /\ s \in Seq(Frames) /\ Len(s) = n - 1 /\ Fits(s, current)
             /\ \A i \in 1 .. n - 1 : s[i] = stack[i]
<1> DEFINE s == Pop
<1>1. stack # <<>> /\ Top.kind = "resolver"
  BY DEF AtStep
<1>2. /\ n \in Nat \ {0} /\ Top \in Resolvers /\ stack \in Seq(Frames)
      /\ n \in 1 .. n /\ n = Len(stack) /\ Top = stack[Len(stack)]
  BY <1>1, TopIsFrame, FramesOfKinds DEF PipelineInv, Top, n
<1>3. Fits(stack, current)
  BY DEF PipelineInv, StackFits
<1>4. ResolverFits(stack, n)
  BY <1>1, <1>2, <1>3 DEF Fits, FitsAt
<1>5. CurrentBelow(stack, current) = current
  BY <1>1, <1>2 DEF CurrentBelow, BegunAt
<1>6. s = SubSeq(stack, 1, Len(stack) - 1)
  BY <1>2 DEF Pop
<1> HIDE DEF s
<1>7. Fits(s, current)
  BY <1>1, <1>2, <1>3, <1>5, <1>6, PoppedFits
<1>8. s \in Seq(Frames) /\ Len(s) = Len(stack) - 1 /\ \A i \in 1 .. Len(stack) - 1 : s[i] = stack[i]
  BY <1>1, <1>2, <1>6, PopTyped
<1> QED BY <1>1, <1>2, <1>4, <1>7, <1>8 DEF s

LEMMA SubStepIsResolvedKeeps ==
  ASSUME PipelineInv, SubStepIsResolved
  PROVE  PipelineInv'
<1>1. Pop \in Seq(Frames) /\ Fits(Pop, current)
  BY PoppedResolverFits DEF SubStepIsResolved
<1> QED BY <1>1 DEF SubStepIsResolved, PipelineInv, Types, StackFits

\* Once resolved a trigger waits no more; the player's turn goes on.
LEMMA PostResolutionUpdateTyped ==
  ASSUME NEW tw \in TriggerWindows, NEW t \in Triggers, tw.unresolved[t] > 0,
         NEW new, new = PostResolutionUpdate(tw, t)
  PROVE  /\ new \in TriggerWindows /\ new.started = tw.started /\ new.order = tw.order
         /\ new.seen = tw.seen /\ new.missed = tw.missed /\ new.triggering = tw.triggering
         /\ new.unresolved = [tw.unresolved EXCEPT ![t] = @ - 1]
         /\ Waiting(new) \subseteq Waiting(tw)
<1> DEFINE f == [tw.unresolved EXCEPT ![t] = @ - 1]
<1>1. tw.unresolved \in [Triggers -> Nat] /\ tw \in TriggerRecords
  BY DEF TriggerWindows, TriggerRecords
<1>2. f \in [Triggers -> Nat] /\ \A x \in Triggers : f[x] <= tw.unresolved[x]
  <2>1. tw.unresolved[t] - 1 \in Nat
    BY <1>1
  <2> QED BY <1>1, <2>1
<1>3. new = [tw EXCEPT !.unresolved = f]
  BY DEF PostResolutionUpdate
<1> HIDE DEF f
<1>4. /\ new \in TriggerRecords /\ new.started = tw.started /\ new.order = tw.order
      /\ new.seen = tw.seen /\ new.missed = tw.missed /\ new.triggering = tw.triggering
      /\ new.unresolved = f
  BY <1>1, <1>2, <1>3 DEF TriggerRecords
<1>5. Waiting(new) \subseteq Waiting(tw)
  BY <1>1, <1>2, <1>4 DEF Waiting
<1>6. WithTriggers(new) \subseteq WithTriggers(tw)
  BY <1>5, FewerTriggers
<1>7. new \in TriggerWindows
  BY <1>4, <1>6 DEF TriggerWindows, TurnsInOrder
<1> QED BY <1>4, <1>5, <1>7 DEF f

\* The window whose trigger the resolver on top has dealt with.
LEMMA ResolvedTriggerOnTop ==
  ASSUME PipelineInv, AtStep("resolver", "done"), Top.role = "trigger"
  PROVE  /\ n \in Nat /\ n - 2 \in 1 .. n - 1 /\ n - 2 = (n - 1) - 1
         /\ Top.trigger \in Triggers /\ stack[n - 2] \in Windows
         /\ stack[n - 2].kind = "window" /\ stack[n - 2].step = "cleanup"
         /\ stack[n - 2].mode = "resolves" /\ stack[n - 1].kind = "triggers"
         /\ stack[n - 2].triggers \in TriggerWindows
         /\ stack[n - 2].triggers.unresolved[Top.trigger] > 0
         /\ stack[n - 2].triggers.started = TRUE
         /\ SomeonesTurn(stack[n - 2].triggers)
<1>1. /\ n \in Nat \ {0} /\ Top \in Resolvers /\ ResolverFits(stack, n) /\ stack # <<>>
  BY PoppedResolverFits
<1>2. /\ n > 2 /\ stack[n - 1].kind = "triggers" /\ stack[n - 2].kind = "window"
      /\ ResolvesWaiting(stack[n - 2].triggers, Top.trigger)
  BY <1>1 DEF ResolverFits, Top
<1>3. n - 1 \in 1 .. n /\ n - 2 \in 1 .. n - 1 /\ n - 2 = (n - 1) - 1 /\ n - 2 \in 1 .. n
  BY <1>1, <1>2
<1>4. \A i \in 1 .. n : stack[i] \in Frames /\ FitsAt(stack, i)
  BY <1>1, TopIsFrame DEF PipelineInv, StackFits, Fits, n
<1>5. TriggersFit(stack, n - 1)
  BY <1>2, <1>3, <1>4 DEF FitsAt
<1>6. /\ stack[n - 2].step = "cleanup" /\ stack[n - 2].mode = "resolves"
      /\ SomeonesTurn(stack[n - 2].triggers)
  BY <1>3, <1>5 DEF TriggersFit, SomeonesTurn
<1>7. stack[n - 2] \in Windows
  BY <1>2, <1>3, <1>4, FramesOfKinds
<1>8. stack[n - 2].triggers \in TriggerWindows /\ Top.trigger \in Triggers
  BY <1>1, <1>7 DEF Windows, WindowRecords, Resolvers
<1>9. stack[n - 2].triggers.started = TRUE /\ stack[n - 2].triggers.unresolved[Top.trigger] > 0
  BY <1>2, <1>8 DEF ResolvesWaiting, TriggerWindows, TriggerRecords
<1> QED BY <1>1, <1>2, <1>3, <1>6, <1>7, <1>8, <1>9

LEMMA TriggerIsResolvedKeeps ==
  ASSUME PipelineInv, TriggerIsResolved
  PROVE  PipelineInv'
<1> DEFINE k == n - 2
           tw == stack[k].triggers
           new == PostResolutionUpdate(tw, Top.trigger)
           s == Pop
           t == Replaced(s, k, Retriggered(s[k], new))
           a == Top.trigger[1]
           e == Top.trigger[2]
<1>1. AtStep("resolver", "done") /\ Top.role = "trigger"
  BY DEF TriggerIsResolved
<1>2. /\ n \in Nat /\ k \in 1 .. n - 1 /\ k = (n - 1) - 1
      /\ Top.trigger \in Triggers /\ stack[k] \in Windows
      /\ stack[k].kind = "window" /\ stack[k].step = "cleanup"
      /\ stack[k].mode = "resolves" /\ stack[n - 1].kind = "triggers"
      /\ tw \in TriggerWindows /\ tw.unresolved[Top.trigger] > 0 /\ SomeonesTurn(tw)
  BY <1>1, ResolvedTriggerOnTop
<1>3. /\ s \in Seq(Frames) /\ Len(s) = n - 1 /\ Fits(s, current)
      /\ \A i \in 1 .. n - 1 : s[i] = stack[i]
  BY <1>1, PoppedResolverFits
<1>4. stack' = s \/ stack' = t
  BY DEF TriggerIsResolved, Replaced, Retriggered
<1>5. events' \in [EventIds -> EventRecords]
  <2>1. a \in Abilities /\ e \in EventIds /\ events[e] \in EventRecords
    BY <1>2 DEF Triggers, PipelineInv, Types
  <2> HIDE DEF a, e
  <2>2. ASSUME NEW m \in 0 .. 2
        PROVE  [events EXCEPT ![e].times[a] = m] \in [EventIds -> EventRecords]
    <3>1. [events[e] EXCEPT !.times[a] = m] \in EventRecords
      <4>1. [events[e].times EXCEPT ![a] = m] \in [Abilities -> 0 .. 2]
        BY <2>1 DEF EventRecords
      <4>2. ASSUME NEW f \in [Abilities -> 0 .. 2]
            PROVE  [events[e] EXCEPT !.times = f] \in EventRecords
        BY <2>1 DEF EventRecords
      <4> QED BY <4>1, <4>2
    <3> QED BY <3>1 DEF PipelineInv, Types
  <2>3. events[e].times[a] \in 0 .. 2
    BY <2>1 DEF EventRecords
  <2> DEFINE m == IF events[e].times[a] < 2 THEN events[e].times[a] + 1 ELSE events[e].times[a]
  <2>4. m \in 0 .. 2
    BY <2>3
  <2>5. events' = [events EXCEPT ![e].times[a] = m] \/ events' = events
    BY DEF TriggerIsResolved, a, e
  <2> HIDE DEF m
  <2> QED BY <2>2, <2>4, <2>5 DEF PipelineInv, Types
<1> HIDE DEF k, tw, new, s, t
<1>6. t \in Seq(Frames) /\ Fits(t, current)
  <2>1. new \in TriggerWindows /\ new.started = tw.started /\ new.order = tw.order
    BY <1>2, PostResolutionUpdateTyped, ZenonT(60) DEF new
  <2>2. SomeonesTurn(new)
    BY <1>2, <2>1 DEF SomeonesTurn
  <2>3. /\ k \in 1 .. Len(s) /\ k = Len(s) - 1 /\ s[k] = stack[k]
        /\ Len(s) \in 1 .. n - 1 /\ s[Len(s)] = stack[n - 1]
    BY <1>2, <1>3
  <2>4. /\ s[k].kind = "window" /\ s[k].step = "cleanup" /\ s[k].mode = "resolves"
        /\ s[Len(s)].kind = "triggers"
    BY <1>2, <2>3
  <2> QED BY <1>3, <2>1, <2>2, <2>3, <2>4, RetriggeredFits DEF t
<1>7. stack' \in Seq(Frames) /\ Fits(stack', current)
  BY <1>3, <1>4, <1>6
<1>8. current' = current /\ presence' = presence /\ legal' = legal /\ changes' = changes
  BY DEF TriggerIsResolved
<1> QED BY <1>5, <1>7, <1>8 DEF PipelineInv, Types, StackFits

LEMMA InitFits ==
  ASSUME TriggerWindowInit
  PROVE  PipelineInv
<1>1. stack = <<>> /\ stack \in Seq(Frames) /\ Len(stack) = 0 /\ current = 0
  BY DEF TriggerWindowInit
<1>2. events \in [EventIds -> EventRecords]
  BY UnusedEventTyped DEF TriggerWindowInit
<1>3. presence \in [Abilities -> Presences] /\ legal \in SUBSET Abilities /\ changes \in Nat
  BY DEF TriggerWindowInit
<1>4. StackFits
  BY <1>1 DEF StackFits, Fits
<1> QED BY <1>1, <1>2, <1>3, <1>4 DEF PipelineInv, Types

LEMMA StepsKeep ==
  ASSUME PipelineInv, [TriggerWindowNext]_vars
  PROVE  PipelineInv'
<1>1. CASE WindowStep
  <2>1. CASE SetParentEventWindow
    BY <2>1, SetParentEventWindowKeeps
  <2>2. CASE EmitEvents
    BY <2>2, EmitEventsKeeps
  <2>3. CASE \E e \in EventIds : EventPrevented(e) \/ EventFizzles(e) \/ EventResolves(e)
    BY <2>3, EventPreventedKeeps, EventFizzlesKeeps, EventResolvesKeeps
  <2>4. CASE \E e \in EventIds, listeners \in Listening :
               \/ EventReplaced(e, listeners) \/ EventDefeatsCard(e, listeners)
               \/ \E modes \in NestedModes : EventOpensWindow(e, modes, listeners)
    BY <2>4, EventReplacedKeeps, EventDefeatsCardKeeps, EventOpensWindowKeeps
  <2>5. CASE \E e \in EventIds, a \in Unsteady :
               EventChangesEffect(e, a) \/ EventBlanksCard(e, a)
    BY <2>5, EventChangesEffectKeeps, EventBlanksCardKeeps
  <2>6. CASE QueuedWindow \/ InitiatedAbilityHasNoEvent
    BY <2>6, QueuedWindowKeeps, InitiatedAbilityHasNoEventKeeps
  <2>7. CASE \E listeners \in Listening :
               InitiatedAbilityActs(listeners) \/ GameStateDefeatsCard(listeners)
    BY <2>7, InitiatedAbilityActsKeeps, GameStateDefeatsCardKeeps
  <2>8. CASE \E a \in Unsteady : GameStateChangesCard(a)
    BY <2>8, GameStateChangesCardKeeps
  <2>9. CASE PostResolutionTriggers \/ ResolveSubwindowEvents \/ ResolveSubAbilityStep
    BY <2>9, PostResolutionTriggersKeeps, ResolveSubwindowEventsKeeps,
       ResolveSubAbilityStepKeeps
  <2>10. CASE ResolveTriggersIfNecessary \/ Cleanup
    BY <2>10, ResolveTriggersIfNecessaryKeeps, CleanupKeeps
  <2> QED BY <1>1, <2>1, <2>2, <2>3, <2>4, <2>5, <2>6, <2>7, <2>8, <2>9, <2>10
          DEF WindowStep
<1>2. CASE AbilityStep
  BY <1>2, StartResolvingKeeps, ResolveNextTriggerKeeps, OpenInitiateAbilityEventWindowKeeps,
     AbilityIsCancelledKeeps, TriggerIsResolvedKeeps, SubStepIsResolvedKeeps DEF AbilityStep
<1>3. ASSUME NEW k \in 1 .. MaxSimultaneous, NEW listeners \in [1 .. k -> Listening],
             OpenOuterWindow(listeners)
      PROVE  PipelineInv'
  BY <1>3, OpenOuterWindowKeeps
<1>4. CASE UNCHANGED vars
  BY <1>4 DEF vars, PipelineInv, Types, StackFits
<1> QED BY <1>1, <1>2, <1>3, <1>4 DEF TriggerWindowNext, PipelineStep

\* The pipeline is always stacked as its steps expect.
THEOREM PipelineFits == TriggerWindowSpec => []PipelineInv
<1>1. TriggerWindowInit => PipelineInv
  BY InitFits
<1>2. PipelineInv /\ [TriggerWindowNext]_vars => PipelineInv'
  BY StepsKeep
<1> QED BY <1>1, <1>2, PTL DEF TriggerWindowSpec

\* One player resolves all triggers of a window before the other begins: a player who is no
\* longer in the order has none left.
THEOREM TurnsAreTakenInOrder == TriggerWindowSpec => []OnePlayerFirst
<1>1. PipelineInv => OnePlayerFirst
  <2> SUFFICES ASSUME PipelineInv, NEW i \in WindowIndexes, stack[i].triggers.started
               PROVE  WithTriggers(stack[i].triggers) \subseteq ToSet(stack[i].triggers.order)
    BY DEF OnePlayerFirst
  <2>1. stack[i] \in Frames /\ stack[i].kind = "window"
    BY DEF PipelineInv, Types, WindowIndexes
  <2>2. stack[i].triggers \in TriggerWindows
    BY <2>1, FramesOfKinds DEF Windows, WindowRecords
  <2> QED BY <2>2 DEF TriggerWindows, TurnsInOrder
<1> QED BY <1>1, PipelineFits, PTL
=============================================================================
