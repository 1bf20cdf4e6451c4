------------------------ MODULE TriggerHistoryProofs ------------------------
(* What TLAPS proves of the events of TriggerWindow and of the triggers they *)
(* cause: where every event is until it is dealt with, that no ability       *)
(* triggers twice for it, and that neither an event nor a trigger is lost.   *)
(* The proofs rest on how the stack fits together (TriggerWindowProofs).     *)
EXTENDS TriggerWindowProofs

-----------------------------------------------------------------------------
(* Where the events are: among the events of a window, in its sub-window, or *)
(* in the windows its handlers have queued. *)

PreSteps == {"setParentEventWindow", "openReplacementEffectWindow", "emitEvents"}
SubwindowSteps ==
  PreSteps \cup {"resolveEvents", "postResolutionTriggers", "resolveSubwindowEvents"}

Emitted(f) == f.step \notin PreSteps
Own(f) == ToSet(f.events) \cup ToSet(f.resolved)
Sub(f) == IF f.step \in SubwindowSteps THEN ToSet(f.subwindow) ELSE {}
Queue(f) == {f.queued[k].event : k \in DOMAIN f.queued}
Places(f) == Own(f) \cup Sub(f) \cup Queue(f)

\* The events a window has not emitted.
Ahead(f) == Sub(f) \cup Queue(f) \cup (IF Emitted(f) THEN {} ELSE Own(f))

WindowAt(s, i) == i \in 1 .. Len(s) /\ s[i].kind = "window"

QueuesOnce(f) ==
  \A j, k \in DOMAIN f.queued : f.queued[j].event = f.queued[k].event => j = k

\* A window keeps its events apart, and has resolved none before it emits them.
Apart(f) ==
  /\ Own(f) \cap Sub(f) = {} /\ Own(f) \cap Queue(f) = {} /\ Sub(f) \cap Queue(f) = {}
  /\ QueuesOnce(f)
  /\ ~Emitted(f) => f.resolved = <<>>

\* No event is in two places.
InPlace(s) ==
  /\ \A i \in 1 .. Len(s) : WindowAt(s, i) => Apart(s[i])
  /\ \A i, j \in 1 .. Len(s) :
       WindowAt(s, i) /\ WindowAt(s, j) /\ i # j => Places(s[i]) \cap Places(s[j]) = {}

Fresh(r) == r.due = {} /\ r.missed = {} /\ \A a \in Abilities : r.times[a] = 0

\* Nothing has heard of the events ahead.
InUse(s, evs) ==
  \A i \in 1 .. Len(s) : WindowAt(s, i) =>
    /\ \A e \in Places(s[i]) : evs[e].status # "unused"
    /\ \A e \in Ahead(s[i]) : Fresh(evs[e])

\* What the owner of a window knows of an event the window has emitted.
HeardIn(s, evs, o, e) ==
  /\ WindowAt(s, o)
  /\ \A a \in Abilities : evs[e].times[a] > 0 => <<a, e>> \in s[o].triggers.seen
  /\ \A a \in evs[e].missed : <<a, e>> \in s[o].triggers.missed
  /\ \A j \in 1 .. Len(s) : WindowAt(s, j) =>
       \A t \in s[j].triggers.seen : t[2] = e => j = o

OwnersKnow(s, evs) ==
  \A i \in 1 .. Len(s) : WindowAt(s, i) /\ Emitted(s[i]) =>
    \A e \in Own(s[i]) : s[i].owner \in 1 .. i /\ HeardIn(s, evs, s[i].owner, e)

\* A trigger that waits has not been resolved, and waits in one window.
SeenBy(f, evs) ==
  /\ \A t \in f.triggers.seen : t[1] \in evs[t[2]].due /\ evs[t[2]].status # "unused"
  /\ \A t \in Triggers :
       /\ f.triggers.unresolved[t] > 0 => t \in f.triggers.seen
       /\ f.triggers.unresolved[t] > 0 =>
            f.triggers.unresolved[t] = 1 /\ evs[t[2]].times[t[1]] = 0

SeenOnce(s, evs) ==
  /\ \A i \in 1 .. Len(s) : WindowAt(s, i) => SeenBy(s[i], evs)
  /\ \A i, j \in 1 .. Len(s) :
       WindowAt(s, i) /\ WindowAt(s, j) /\ i # j =>
         s[i].triggers.seen \cap s[j].triggers.seen = {}

EventFits(r) ==
  /\ r.due \subseteq r.listeners
  /\ \A a \in Abilities : r.times[a] <= 1 /\ (r.times[a] > 0 => a \in r.due)

\* A window that passes its sub-window on lies on the window whose handler queued it.
PassesUp(s) ==
  \A i \in 1 .. Len(s) : WindowAt(s, i) /\ s[i].subMode = "passes" =>
    i > 1 /\ WindowAt(s, i - 1) /\ s[i - 1].step = "resolveEvents"

History(s, evs) ==
  /\ InPlace(s) /\ InUse(s, evs) /\ OwnersKnow(s, evs) /\ SeenOnce(s, evs)
  /\ \A e \in EventIds : EventFits(evs[e])
  /\ PassesUp(s)

HistoryInv == PipelineInv /\ History(stack, events)

-----------------------------------------------------------------------------
(* How events and windows go on *)

EventKept(r, q) ==
  /\ q.due = r.due /\ q.missed = r.missed /\ q.times = r.times /\ q.listeners = r.listeners
  /\ (q.status = "unused") <=> (r.status = "unused")
EventBegins(r, q) == r.status = "unused" /\ q.status # "unused" /\ Fresh(q)
EventsGoOn(evs, fvs) ==
  \A e \in EventIds : EventKept(evs[e], fvs[e]) \/ EventBegins(evs[e], fvs[e])

\* A window that has seen the same triggers, of which not more wait.
SameSeen(f, g) ==
  /\ g.triggers.seen = f.triggers.seen /\ g.triggers.missed = f.triggers.missed
  /\ \A t \in Triggers : g.triggers.unresolved[t] <= f.triggers.unresolved[t]

NothingSeen(f) ==
  f.triggers.seen = {} /\ \A t \in Triggers : f.triggers.unresolved[t] = 0

\* Events that may be put in a place: in use, in no place yet, and not heard of.
Placeable(s, evs, fvs, X) ==
  \A e \in X :
    /\ fvs[e].status # "unused" /\ Fresh(fvs[e])
    /\ \A j \in 1 .. Len(s) : WindowAt(s, j) => e \notin Places(s[j])

\* The elements of a sequence.
LEMMA ToSetOf ==
  ASSUME NEW S, NEW q \in Seq(S)
  PROVE  ToSet(q) \in SUBSET S /\ ToSet(q) = {q[i] : i \in 1 .. Len(q)}
BY DEF ToSet

LEMMA PlacesTyped ==
  ASSUME NEW f \in Windows
  PROVE  /\ Places(f) \in SUBSET EventIds /\ Ahead(f) \subseteq Places(f)
         /\ Own(f) \subseteq Places(f)
<1>1. /\ f.events \in Seq(EventIds) /\ f.resolved \in Seq(EventIds)
      /\ f.subwindow \in Seq(EventIds) /\ f.queued \in Seq(QueuedWindows)
  BY DEF Windows, WindowRecords
<1>2. ToSet(f.events) \in SUBSET EventIds /\ ToSet(f.resolved) \in SUBSET EventIds
      /\ ToSet(f.subwindow) \in SUBSET EventIds
  BY <1>1, ToSetOf
<1>3. Queue(f) \in SUBSET EventIds
  <2>1. \A k \in DOMAIN f.queued : f.queued[k] \in QueuedWindows
    BY <1>1
  <2>2. \A k \in DOMAIN f.queued : f.queued[k].event \in EventIds
    BY <2>1 DEF QueuedWindows
  <2> QED BY <2>2 DEF Queue
<1> QED BY <1>2, <1>3 DEF Places, Ahead, Own, Sub

LEMMA WindowsAreTyped ==
  ASSUME NEW s \in Seq(Frames), NEW i, WindowAt(s, i)
  PROVE  /\ i \in 1 .. Len(s) /\ s[i] \in Windows /\ s[i].kind = "window"
         /\ s[i].triggers.unresolved \in [Triggers -> Nat]
         /\ s[i].triggers.seen \in SUBSET Triggers
         /\ Places(s[i]) \in SUBSET EventIds /\ Ahead(s[i]) \subseteq Places(s[i])
         /\ Own(s[i]) \subseteq Places(s[i])
<1>1. i \in 1 .. Len(s) /\ s[i] \in Frames /\ s[i].kind = "window"
  BY DEF WindowAt
<1>2. s[i] \in Windows
  BY <1>1, FramesOfKinds
<1>3. s[i].triggers \in TriggerRecords
  BY <1>2 DEF Windows, WindowRecords, TriggerWindows
<1> QED BY <1>1, <1>2, <1>3, PlacesTyped DEF TriggerRecords

\* An event that may be put in a place stays as fresh, and a used one as it was.
LEMMA UsedIsKept ==
  ASSUME NEW evs, NEW fvs, EventsGoOn(evs, fvs), NEW e \in EventIds,
         evs[e].status # "unused"
  PROVE  EventKept(evs[e], fvs[e])
BY DEF EventsGoOn, EventBegins

\* A window goes on at its place: it has seen what it had, and may take in events that
\* are placeable.
LEMMA WindowGoesOn ==
  ASSUME NEW s \in Seq(Frames), NEW evs \in [EventIds -> EventRecords],
         NEW fvs \in [EventIds -> EventRecords], History(s, evs), EventsGoOn(evs, fvs),
         NEW i, WindowAt(s, i), NEW g \in Windows, g.kind = "window",
         NEW X \in SUBSET EventIds, Placeable(s, evs, fvs, X),
         g.subMode = s[i].subMode, i < Len(s) => g.step = s[i].step,
         SameSeen(s[i], g), Apart(g),
         Places(g) \subseteq Places(s[i]) \cup X, Ahead(g) \subseteq Ahead(s[i]) \cup X,
         \/ ~Emitted(g) \/ Own(g) = {}
         \/ Emitted(s[i]) /\ g.owner = s[i].owner /\ Own(g) \subseteq Own(s[i])
  PROVE  History(Replaced(s, i, g), fvs)
<1> DEFINE t == Replaced(s, i, g)
<1>1. /\ t \in Seq(Frames) /\ Len(t) = Len(s) /\ t[i] = g /\ i \in 1 .. Len(s)
      /\ \A j \in 1 .. Len(s) : j # i => t[j] = s[j]
  BY FrameReplaced DEF Replaced, Frames, WindowAt
<1> HIDE DEF t
<1>2. \A j : WindowAt(t, j) <=> WindowAt(s, j)
  BY <1>1 DEF WindowAt
<1>3. InPlace(t)
  <2>1. ASSUME NEW j \in 1 .. Len(t), WindowAt(t, j) PROVE Apart(t[j])
    BY <1>1, <1>2, <2>1 DEF History, InPlace
  <2>2. ASSUME NEW j, NEW k, WindowAt(s, j), WindowAt(s, k), j # k
        PROVE  Places(s[j]) \cap Places(s[k]) = {}
    BY <2>2 DEF History, InPlace, WindowAt
  <2>3. ASSUME NEW k, WindowAt(s, k), k # i PROVE Places(g) \cap Places(s[k]) = {}
    <3>1. X \cap Places(s[k]) = {}
      BY <2>3 DEF Placeable, WindowAt
    <3>2. Places(s[i]) \cap Places(s[k]) = {}
      BY <2>2, <2>3
    <3> QED BY <3>1, <3>2
  <2>4. ASSUME NEW j \in 1 .. Len(t), NEW k \in 1 .. Len(t), WindowAt(t, j), WindowAt(t, k), j # k
        PROVE  Places(t[j]) \cap Places(t[k]) = {}
    <3>1. CASE j = i
      BY <1>1, <1>2, <2>3, <2>4, <3>1
    <3>2. CASE k = i
      BY <1>1, <1>2, <2>3, <2>4, <3>2
    <3>3. CASE j # i /\ k # i
      BY <1>1, <1>2, <2>2, <2>4, <3>3
    <3> QED BY <3>1, <3>2, <3>3
  <2> QED BY <2>1, <2>4 DEF InPlace
<1>4. ASSUME NEW j, WindowAt(s, j)
      PROVE  /\ \A e \in Places(s[j]) : e \in EventIds /\ EventKept(evs[e], fvs[e])
             /\ \A e \in Places(s[j]) : fvs[e].status # "unused"
             /\ \A e \in Ahead(s[j]) : Fresh(fvs[e])
  <2>1. /\ \A e \in Places(s[j]) : evs[e].status # "unused"
        /\ \A e \in Ahead(s[j]) : Fresh(evs[e])
    BY <1>4 DEF History, InUse, WindowAt
  <2>2. Places(s[j]) \in SUBSET EventIds /\ Ahead(s[j]) \subseteq Places(s[j])
    BY <1>4, WindowsAreTyped
  <2>3. \A e \in Places(s[j]) : EventKept(evs[e], fvs[e])
    BY <2>1, <2>2, UsedIsKept
  <2>4. \A e \in Places(s[j]) : fvs[e].status # "unused"
    BY <2>1, <2>3 DEF EventKept
  <2>5. \A e \in Ahead(s[j]) : Fresh(fvs[e])
    BY <2>1, <2>2, <2>3 DEF EventKept, Fresh
  <2> QED BY <2>2, <2>3, <2>4, <2>5
<1>5. InUse(t, fvs)
  <2>1. ASSUME NEW j \in 1 .. Len(t), WindowAt(t, j)
        PROVE  /\ \A e \in Places(t[j]) : fvs[e].status # "unused"
               /\ \A e \in Ahead(t[j]) : Fresh(fvs[e])
    <3>1. CASE j # i
      BY <1>1, <1>2, <1>4, <2>1, <3>1
    <3>2. CASE j = i
      <4>1. \A e \in X : fvs[e].status # "unused" /\ Fresh(fvs[e])
        BY DEF Placeable
      <4> QED BY <1>1, <1>4, <3>2, <4>1
    <3> QED BY <3>1, <3>2
  <2> QED BY <2>1 DEF InUse
<1>6. ASSUME NEW j, WindowAt(s, j) PROVE SameSeen(s[j], t[j])
  <2>1. CASE j = i
    BY <1>1, <2>1
  <2>2. CASE j # i
    <3>1. t[j] = s[j] /\ s[j].triggers.unresolved \in [Triggers -> Nat]
      BY <1>1, <1>6, <2>2, WindowsAreTyped DEF WindowAt
    <3> QED BY <3>1 DEF SameSeen
  <2> QED BY <2>1, <2>2
<1>7. ASSUME NEW o, NEW e \in EventIds, HeardIn(s, evs, o, e), EventKept(evs[e], fvs[e])
      PROVE  HeardIn(t, fvs, o, e)
  <2>1. WindowAt(t, o) /\ SameSeen(s[o], t[o])
    BY <1>2, <1>6, <1>7 DEF HeardIn
  <2>2. \A j \in 1 .. Len(t) : WindowAt(t, j) => t[j].triggers.seen = s[j].triggers.seen
    BY <1>2, <1>6 DEF SameSeen
  <2> QED BY <1>1, <1>2, <1>7, <2>1, <2>2 DEF HeardIn, SameSeen, EventKept
<1>8. OwnersKnow(t, fvs)
  <2>1. ASSUME NEW j \in 1 .. Len(t), WindowAt(t, j), Emitted(t[j]), NEW e \in Own(t[j])
        PROVE  t[j].owner \in 1 .. j /\ HeardIn(t, fvs, t[j].owner, e)
    <3>1. Emitted(s[j]) /\ t[j].owner = s[j].owner /\ e \in Own(s[j]) /\ WindowAt(s, j)
      BY <1>1, <1>2, <2>1
    <3>2. s[j].owner \in 1 .. j /\ HeardIn(s, evs, s[j].owner, e)
      BY <3>1 DEF History, OwnersKnow, WindowAt
    <3>3. e \in Places(s[j])
      BY <3>1, WindowsAreTyped
    <3> QED BY <1>4, <1>7, <3>1, <3>2, <3>3
  <2> QED BY <2>1 DEF OwnersKnow
<1>9. SeenOnce(t, fvs)
  <2>1. ASSUME NEW j, WindowAt(s, j) PROVE SeenBy(t[j], fvs)
    <3>1. SeenBy(s[j], evs) /\ SameSeen(s[j], t[j])
      BY <1>6, <2>1 DEF History, SeenOnce, WindowAt
    <3>2. /\ s[j].triggers.unresolved \in [Triggers -> Nat] /\ s[j].triggers.seen \in SUBSET Triggers
          /\ t[j].triggers.unresolved \in [Triggers -> Nat]
      BY <1>1, <1>2, <2>1, WindowsAreTyped
    <3>3. ASSUME NEW x \in s[j].triggers.seen
          PROVE  EventKept(evs[x[2]], fvs[x[2]])
      <4>1. x[2] \in EventIds /\ evs[x[2]].status # "unused"
        BY <3>1, <3>2 DEF SeenBy, Triggers
      <4> QED BY <4>1, UsedIsKept
    <3>4. \A x \in t[j].triggers.seen : x[1] \in fvs[x[2]].due /\ fvs[x[2]].status # "unused"
      BY <3>1, <3>3 DEF SeenBy, SameSeen, EventKept
    <3>5. ASSUME NEW x \in Triggers, t[j].triggers.unresolved[x] > 0
          PROVE  x \in t[j].triggers.seen /\ t[j].triggers.unresolved[x] = 1
                 /\ fvs[x[2]].times[x[1]] = 0
      <4>1. s[j].triggers.unresolved[x] > 0 /\ t[j].triggers.unresolved[x] <= s[j].triggers.unresolved[x]
        BY <3>1, <3>2, <3>5 DEF SameSeen
      <4>2. x \in s[j].triggers.seen /\ s[j].triggers.unresolved[x] = 1 /\ evs[x[2]].times[x[1]] = 0
        BY <3>1, <4>1 DEF SeenBy
      <4> QED BY <3>1, <3>2, <3>3, <3>5, <4>1, <4>2 DEF SameSeen, EventKept
    <3> QED BY <3>4, <3>5 DEF SeenBy
  <2>2. ASSUME NEW j, NEW k, WindowAt(s, j), WindowAt(s, k), j # k
        PROVE  t[j].triggers.seen \cap t[k].triggers.seen = {}
    BY <1>6, <2>2 DEF History, SeenOnce, WindowAt, SameSeen
  <2> QED BY <1>2, <2>1, <2>2 DEF SeenOnce
<1>10. \A e \in EventIds : EventFits(fvs[e])
  <2> SUFFICES ASSUME NEW e \in EventIds PROVE EventFits(fvs[e])
    OBVIOUS
  <2>1. EventFits(evs[e]) /\ fvs[e] \in EventRecords
    BY DEF History
  <2>2. EventKept(evs[e], fvs[e]) \/ Fresh(fvs[e])
    BY DEF EventsGoOn, EventBegins
  <2> QED BY <2>1, <2>2 DEF EventKept, Fresh, EventFits
<1>11. PassesUp(t)
  <2> SUFFICES ASSUME NEW j \in 1 .. Len(t), WindowAt(t, j), t[j].subMode = "passes"
               PROVE  j > 1 /\ WindowAt(t, j - 1) /\ t[j - 1].step = "resolveEvents"
    BY DEF PassesUp
  <2>1. s[j].subMode = "passes" /\ WindowAt(s, j) /\ j \in 1 .. Len(s)
    BY <1>1, <1>2
  <2>2. j > 1 /\ WindowAt(s, j - 1) /\ s[j - 1].step = "resolveEvents"
    BY <2>1 DEF History, PassesUp
  <2>3. j - 1 = i => i < Len(s)
    BY <1>1, <2>1
  <2>4. t[j - 1].step = s[j - 1].step
    BY <1>1, <2>1, <2>2, <2>3 DEF WindowAt
  <2> QED BY <1>2, <2>2, <2>4
<1> QED BY <1>3, <1>5, <1>8, <1>9, <1>10, <1>11 DEF History, t

\* Windows end, or other frames come and go above them.
LEMMA WindowsRemain ==
  ASSUME NEW s \in Seq(Frames), NEW t \in Seq(Frames),
         NEW evs \in [EventIds -> EventRecords], NEW fvs \in [EventIds -> EventRecords],
         History(s, evs), EventsGoOn(evs, fvs),
         \A i : WindowAt(t, i) => WindowAt(s, i) /\ t[i] = s[i],
         \A i \in 1 .. Len(t) : WindowAt(s, i) => WindowAt(t, i)
  PROVE  History(t, fvs)
<1>1. InPlace(t)
  BY DEF History, InPlace, WindowAt
<1>2. ASSUME NEW j, WindowAt(s, j)
      PROVE  /\ \A e \in Places(s[j]) : e \in EventIds /\ EventKept(evs[e], fvs[e])
             /\ \A e \in Places(s[j]) : fvs[e].status # "unused"
             /\ \A e \in Ahead(s[j]) : Fresh(fvs[e])
  <2>1. /\ \A e \in Places(s[j]) : evs[e].status # "unused"
        /\ \A e \in Ahead(s[j]) : Fresh(evs[e])
    BY <1>2 DEF History, InUse, WindowAt
  <2>2. Places(s[j]) \in SUBSET EventIds /\ Ahead(s[j]) \subseteq Places(s[j])
    BY <1>2, WindowsAreTyped
  <2>3. \A e \in Places(s[j]) : EventKept(evs[e], fvs[e])
    BY <2>1, <2>2, UsedIsKept
  <2>4. \A e \in Places(s[j]) : fvs[e].status # "unused"
    BY <2>1, <2>3 DEF EventKept
  <2>5. \A e \in Ahead(s[j]) : Fresh(fvs[e])
    BY <2>1, <2>2, <2>3 DEF EventKept, Fresh
  <2> QED BY <2>2, <2>3, <2>4, <2>5
<1>3. InUse(t, fvs)
  BY <1>2 DEF InUse
<1>4. OwnersKnow(t, fvs)
  <2>1. ASSUME NEW j \in 1 .. Len(t), WindowAt(t, j), Emitted(t[j]), NEW e \in Own(t[j])
        PROVE  t[j].owner \in 1 .. j /\ HeardIn(t, fvs, t[j].owner, e)
    <3> DEFINE o == s[j].owner
    <3>1. WindowAt(s, j) /\ t[j] = s[j]
      BY <2>1
    <3>2. o \in 1 .. j /\ HeardIn(s, evs, o, e)
      BY <2>1, <3>1 DEF History, OwnersKnow, WindowAt
    <3>3. EventKept(evs[e], fvs[e])
      <4>1. e \in Places(s[j])
        BY <2>1, <3>1, WindowsAreTyped
      <4> QED BY <1>2, <3>1, <4>1
    <3>4. WindowAt(t, o) /\ t[o] = s[o]
      <4>1. o \in 1 .. Len(t) /\ WindowAt(s, o)
        BY <2>1, <3>2 DEF HeardIn
      <4> QED BY <4>1
    <3> HIDE DEF o
    <3>5. HeardIn(t, fvs, o, e)
      <4>1. \A k \in 1 .. Len(t) : WindowAt(t, k) => k \in 1 .. Len(s) /\ WindowAt(s, k) /\ t[k] = s[k]
        BY DEF WindowAt
      <4> QED BY <3>2, <3>3, <3>4, <4>1 DEF HeardIn, EventKept
    <3> QED BY <3>1, <3>2, <3>5 DEF o
  <2> QED BY <2>1 DEF OwnersKnow
<1>5. SeenOnce(t, fvs)
  <2>1. ASSUME NEW j, WindowAt(s, j) PROVE SeenBy(s[j], fvs)
    <3>1. SeenBy(s[j], evs)
      BY <2>1 DEF History, SeenOnce, WindowAt
    <3>2. s[j].triggers.seen \in SUBSET Triggers
      BY <2>1, WindowsAreTyped
    <3>3. ASSUME NEW x \in s[j].triggers.seen
          PROVE  EventKept(evs[x[2]], fvs[x[2]])
      <4>1. x[2] \in EventIds /\ evs[x[2]].status # "unused"
        BY <3>1, <3>2 DEF SeenBy, Triggers
      <4> QED BY <4>1, UsedIsKept
    <3> QED BY <3>1, <3>3 DEF SeenBy, EventKept
  <2> QED BY <2>1 DEF History, SeenOnce, WindowAt
<1>6. \A e \in EventIds : EventFits(fvs[e])
  <2> SUFFICES ASSUME NEW e \in EventIds PROVE EventFits(fvs[e])
    OBVIOUS
  <2>1. EventFits(evs[e]) /\ fvs[e] \in EventRecords
    BY DEF History
  <2>2. EventKept(evs[e], fvs[e]) \/ Fresh(fvs[e])
    BY DEF EventsGoOn, EventBegins
  <2> QED BY <2>1, <2>2 DEF EventKept, Fresh, EventFits
<1>7. PassesUp(t)
  <2> SUFFICES ASSUME NEW j \in 1 .. Len(t), WindowAt(t, j), t[j].subMode = "passes"
               PROVE  j > 1 /\ WindowAt(t, j - 1) /\ t[j - 1].step = "resolveEvents"
    BY DEF PassesUp
  <2>1. j > 1 /\ WindowAt(s, j - 1) /\ s[j - 1].step = "resolveEvents"
    BY DEF History, PassesUp, WindowAt
  <2>2. j - 1 \in 1 .. Len(t)
    BY <2>1
  <2> QED BY <2>1, <2>2
<1> QED BY <1>1, <1>3, <1>4, <1>5, <1>6, <1>7 DEF History

\* A window may open for events that are placeable.
LEMMA WindowOpens ==
  ASSUME NEW s \in Seq(Frames), NEW evs \in [EventIds -> EventRecords], History(s, evs),
         NEW w \in Windows, w.kind = "window", w.step = "setParentEventWindow",
         w.resolved = <<>>, w.subwindow = <<>>, w.queued = <<>>, NothingSeen(w),
         Placeable(s, evs, evs, ToSet(w.events)),
         w.subMode = "passes" =>
           s # <<>> /\ s[Len(s)].kind = "window" /\ s[Len(s)].step = "resolveEvents"
  PROVE  History(Append(s, w), evs)
<1> DEFINE t == Append(s, w)
<1>1. /\ Len(s) \in Nat /\ t \in Seq(Frames) /\ Len(t) = Len(s) + 1 /\ t[Len(t)] = w
      /\ \A j \in 1 .. Len(s) : t[j] = s[j]
  BY DEF Frames
<1> HIDE DEF t
<1>2. /\ \A j : WindowAt(s, j) => WindowAt(t, j) /\ t[j] = s[j] /\ j # Len(t)
      /\ \A j : WindowAt(t, j) => WindowAt(s, j) \/ j = Len(t)
  BY <1>1 DEF WindowAt
<1>3. /\ Own(w) = ToSet(w.events) /\ Sub(w) = {} /\ Queue(w) = {}
      /\ Places(w) = ToSet(w.events) /\ Ahead(w) = ToSet(w.events) /\ ~Emitted(w)
  <2>1. ToSet(w.resolved) = {} /\ ToSet(w.subwindow) = {}
    BY DEF ToSet
  <2>2. Queue(w) = {} /\ QueuesOnce(w)
    BY DEF Queue, QueuesOnce
  <2>3. ~Emitted(w)
    BY DEF Emitted, PreSteps
  <2> QED BY <2>1, <2>2, <2>3 DEF Own, Sub, Places, Ahead
<1>4. Apart(w)
  BY <1>3 DEF Apart, QueuesOnce
<1>5. InPlace(t)
  <2>1. ASSUME NEW j \in 1 .. Len(t), WindowAt(t, j) PROVE Apart(t[j])
    BY <1>1, <1>2, <1>4, <2>1 DEF History, InPlace, WindowAt
  <2>2. ASSUME NEW j, WindowAt(s, j) PROVE Places(s[j]) \cap Places(w) = {}
    BY <1>3, <2>2 DEF Placeable, WindowAt
  <2>3. ASSUME NEW j, NEW k, WindowAt(s, j), WindowAt(s, k), j # k
        PROVE  Places(s[j]) \cap Places(s[k]) = {}
    BY <2>3 DEF History, InPlace, WindowAt
  <2>4. ASSUME NEW j \in 1 .. Len(t), NEW k \in 1 .. Len(t), WindowAt(t, j), WindowAt(t, k), j # k
        PROVE  Places(t[j]) \cap Places(t[k]) = {}
    <3>1. CASE j = Len(t)
      BY <1>1, <1>2, <2>2, <2>4, <3>1
    <3>2. CASE k = Len(t)
      BY <1>1, <1>2, <2>2, <2>4, <3>2
    <3>3. CASE j # Len(t) /\ k # Len(t)
      BY <1>2, <2>3, <2>4, <3>3
    <3> QED BY <3>1, <3>2, <3>3
  <2> QED BY <2>1, <2>4 DEF InPlace
<1>6. InUse(t, evs)
  <2> SUFFICES ASSUME NEW j \in 1 .. Len(t), WindowAt(t, j)
               PROVE  /\ \A e \in Places(t[j]) : evs[e].status # "unused"
                      /\ \A e \in Ahead(t[j]) : Fresh(evs[e])
    BY DEF InUse
  <2>1. CASE j = Len(t)
    BY <1>1, <1>3, <2>1 DEF Placeable
  <2>2. CASE WindowAt(s, j)
    BY <1>2, <2>2 DEF History, InUse, WindowAt
  <2> QED BY <1>2, <2>1, <2>2
<1>7. ASSUME NEW o, NEW e, HeardIn(s, evs, o, e) PROVE HeardIn(t, evs, o, e)
  <2>1. WindowAt(t, o) /\ t[o] = s[o] /\ w.triggers.seen = {}
    BY <1>2, <1>7 DEF HeardIn, NothingSeen
  <2>2. \A j \in 1 .. Len(t) : WindowAt(t, j) =>
          (j \in 1 .. Len(s) /\ WindowAt(s, j) /\ t[j] = s[j]) \/ t[j] = w
    BY <1>1, <1>2 DEF WindowAt
  <2> QED BY <1>7, <2>1, <2>2 DEF HeardIn
<1>8. OwnersKnow(t, evs)
  <2> SUFFICES ASSUME NEW j \in 1 .. Len(t), WindowAt(t, j), Emitted(t[j]), NEW e \in Own(t[j])
               PROVE  t[j].owner \in 1 .. j /\ HeardIn(t, evs, t[j].owner, e)
    BY DEF OwnersKnow
  <2>1. WindowAt(s, j) /\ t[j] = s[j]
    BY <1>1, <1>2, <1>3
  <2>2. s[j].owner \in 1 .. j /\ HeardIn(s, evs, s[j].owner, e)
    BY <2>1 DEF History, OwnersKnow, WindowAt
  <2> QED BY <1>7, <2>1, <2>2
<1>9. SeenOnce(t, evs)
  <2>1. ASSUME NEW j \in 1 .. Len(t), WindowAt(t, j) PROVE SeenBy(t[j], evs)
    <3>1. CASE j = Len(t)
      <4>1. SeenBy(w, evs)
        BY DEF SeenBy, NothingSeen
      <4> QED BY <1>1, <3>1, <4>1
    <3>2. CASE WindowAt(s, j)
      BY <1>2, <3>2 DEF History, SeenOnce, WindowAt
    <3> QED BY <1>2, <2>1, <3>1, <3>2
  <2>2. ASSUME NEW j, NEW k, WindowAt(t, j), WindowAt(t, k), j # k
        PROVE  t[j].triggers.seen \cap t[k].triggers.seen = {}
    <3>1. CASE j = Len(t) \/ k = Len(t)
      BY <1>1, <2>2, <3>1 DEF NothingSeen
    <3>2. CASE WindowAt(s, j) /\ WindowAt(s, k)
      BY <1>2, <2>2, <3>2 DEF History, SeenOnce, WindowAt
    <3> QED BY <1>2, <2>2, <3>1, <3>2
  <2> QED BY <2>1, <2>2 DEF SeenOnce
<1>10. PassesUp(t)
  <2> SUFFICES ASSUME NEW j \in 1 .. Len(t), WindowAt(t, j), t[j].subMode = "passes"
               PROVE  j > 1 /\ WindowAt(t, j - 1) /\ t[j - 1].step = "resolveEvents"
    BY DEF PassesUp
  <2>1. CASE j = Len(t)
    <3>1. w.subMode = "passes"
      BY <1>1, <2>1
    <3>2. s # <<>> /\ s[Len(s)].kind = "window" /\ s[Len(s)].step = "resolveEvents"
      BY <3>1
    <3>3. Len(s) \in 1 .. Len(s) /\ j - 1 = Len(s) /\ j > 1
      BY <1>1, <2>1, <3>2
    <3> QED BY <1>1, <1>2, <3>2, <3>3 DEF WindowAt
  <2>2. CASE WindowAt(s, j)
    <3>1. j > 1 /\ WindowAt(s, j - 1) /\ s[j - 1].step = "resolveEvents"
      BY <1>2, <2>2 DEF History, PassesUp, WindowAt
    <3> QED BY <1>2, <3>1
  <2> QED BY <1>2, <2>1, <2>2
<1> QED BY <1>5, <1>6, <1>8, <1>9, <1>10 DEF History, t

\* The window on top goes on, and may take in events that are placeable.
LEMMA TopGoesOn ==
  ASSUME HistoryInv, stack # <<>>, Top.kind = "window",
         NEW fvs \in [EventIds -> EventRecords], EventsGoOn(events, fvs),
         NEW g \in Windows, g.triggers = Top.triggers, g.subMode = Top.subMode,
         NEW X \in SUBSET EventIds, Placeable(stack, events, fvs, X), Apart(g),
         Places(g) \subseteq Places(Top) \cup X, Ahead(g) \subseteq Ahead(Top) \cup X,
         \/ ~Emitted(g) \/ Own(g) = {}
         \/ Emitted(Top) /\ g.owner = Top.owner /\ Own(g) \subseteq Own(Top)
  PROVE  History(SetTop(g), fvs)
<1>1. /\ stack \in Seq(Frames) /\ events \in [EventIds -> EventRecords]
      /\ History(stack, events)
  BY DEF HistoryInv, PipelineInv, Types
<1>2. n \in 1 .. n /\ n = Len(stack) /\ Top = stack[n] /\ WindowAt(stack, n)
  BY TopIsFrame DEF HistoryInv, PipelineInv, Top, n, WindowAt
<1>3. g.kind = "window"
  BY DEF Windows, WindowRecords
<1>4. SameSeen(stack[n], g)
  <2>1. stack[n].triggers.unresolved \in [Triggers -> Nat]
    BY <1>1, <1>2, WindowsAreTyped
  <2> QED BY <1>2, <2>1 DEF SameSeen
<1>5. SetTop(g) = Replaced(stack, n, g)
  BY DEF SetTop, Replaced
<1>6. ~(n < Len(stack))
  BY <1>2
<1> DEFINE i == n
<1>7. /\ i < Len(stack) => g.step = stack[i].step
      /\ g.subMode = stack[i].subMode /\ SameSeen(stack[i], g) /\ WindowAt(stack, i)
      /\ Places(g) \subseteq Places(stack[i]) \cup X /\ Ahead(g) \subseteq Ahead(stack[i]) \cup X
      /\ \/ ~Emitted(g) \/ Own(g) = {}
         \/ Emitted(stack[i]) /\ g.owner = stack[i].owner /\ Own(g) \subseteq Own(stack[i])
  BY <1>2, <1>4, <1>6
<1> HIDE DEF i
<1>8. History(Replaced(stack, i, g), fvs)
  BY <1>1, <1>3, <1>7, WindowGoesOn
<1> QED BY <1>5, <1>8 DEF i

\* The window on top goes on to its next step.
LEMMA TopStays ==
  ASSUME HistoryInv, stack # <<>>, Top.kind = "window",
         NEW fvs \in [EventIds -> EventRecords], EventsGoOn(events, fvs),
         NEW g \in Windows, g.triggers = Top.triggers, g.subMode = Top.subMode,
         g.subwindow = Top.subwindow, g.queued = Top.queued, Own(g) \subseteq Own(Top),
         Emitted(g) \/ g.resolved = Top.resolved,
         Emitted(Top) => Emitted(g),
         g.step \in SubwindowSteps => Top.step \in SubwindowSteps,
         \/ ~Emitted(g) \/ Own(g) = {}
         \/ Emitted(Top) /\ g.owner = Top.owner
  PROVE  History(SetTop(g), fvs)
<1>1. Apart(Top)
  <2>1. n \in 1 .. n /\ n = Len(stack) /\ Top = stack[n] /\ WindowAt(stack, n)
    BY TopIsFrame DEF HistoryInv, PipelineInv, Top, n, WindowAt
  <2> QED BY <2>1 DEF HistoryInv, History, InPlace
<1>2. Sub(g) \subseteq Sub(Top) /\ Queue(g) = Queue(Top)
  BY DEF Sub, Queue
<1>3. Places(g) \subseteq Places(Top) \cup {} /\ Ahead(g) \subseteq Ahead(Top) \cup {}
  BY <1>2 DEF Places, Ahead
<1>4. Apart(g)
  BY <1>1, <1>2 DEF Apart, QueuesOnce
<1>5. Placeable(stack, events, fvs, {})
  BY DEF Placeable
<1> QED BY <1>3, <1>4, <1>5, TopGoesOn

LEMMA EventsStay ==
  EventsGoOn(events, events)
BY DEF EventsGoOn, EventKept

\* Used events change their state.
LEMMA StatusGoesOn ==
  ASSUME events \in [EventIds -> EventRecords], NEW e \in EventIds, NEW x,
         events[e].status # "unused", x # "unused"
  PROVE  EventsGoOn(events, [events EXCEPT ![e].status = x])
<1>1. \A f \in EventIds : events[f] \in EventRecords
  OBVIOUS
<1>2. EventKept(events[e], [events[e] EXCEPT !.status = x])
  BY <1>1 DEF EventKept, EventRecords
<1> QED BY <1>1, <1>2 DEF EventsGoOn, EventKept

\* An unused event is in no place.
LEMMA UnusedIsNowhere ==
  ASSUME NEW s, NEW evs, InUse(s, evs), NEW u, evs[u].status = "unused",
         NEW j, WindowAt(s, j)
  PROVE  u \notin Places(s[j])
BY DEF InUse, WindowAt

LEMMA NewEventIsFresh ==
  ASSUME NEW listeners
  PROVE  Fresh(NewEvent(listeners)) /\ NewEvent(listeners).status # "unused"
BY DEF Fresh, NewEvent

\* An event comes up, which may be put in a place.
LEMMA NewEventGoesOn ==
  ASSUME HistoryInv, NEW evs \in [EventIds -> EventRecords], EventsGoOn(events, evs),
         NEW u \in EventIds, events[u].status = "unused", NEW listeners,
         NEW fvs, fvs = [evs EXCEPT ![u] = NewEvent(listeners)]
  PROVE  EventsGoOn(events, fvs) /\ Placeable(stack, events, fvs, {u})
<1>1. fvs[u] = NewEvent(listeners) /\ \A e \in EventIds : e # u => fvs[e] = evs[e]
  OBVIOUS
<1>2. Fresh(fvs[u]) /\ fvs[u].status # "unused"
  BY <1>1, NewEventIsFresh
<1>3. EventsGoOn(events, fvs)
  BY <1>1, <1>2 DEF EventsGoOn, EventBegins
<1>4. \A j \in 1 .. Len(stack) : WindowAt(stack, j) => u \notin Places(stack[j])
  BY UnusedIsNowhere DEF HistoryInv, History
<1> QED BY <1>2, <1>3, <1>4 DEF Placeable

LEMMA TopFrameTyped ==
  ASSUME stack # <<>>, stack \in Seq(Frames), NEW g, SetTop(g) \in Seq(Frames)
  PROVE  g \in Frames
<1>1. SetTop(g)[n] = g /\ n \in 1 .. Len(SetTop(g))
  BY DEF SetTop, n
<1> QED BY <1>1

LEMMA AppendedElements ==
  ASSUME NEW S, NEW q \in Seq(S), NEW e \in S
  PROVE  ToSet(Append(q, e)) = ToSet(q) \cup {e}
<1>1. /\ Len(q) \in Nat /\ Append(q, e) \in Seq(S) /\ Len(Append(q, e)) = Len(q) + 1
      /\ Append(q, e)[Len(q) + 1] = e /\ \A i \in 1 .. Len(q) : Append(q, e)[i] = q[i]
  OBVIOUS
<1> DEFINE r == Append(q, e)
<1> HIDE DEF r
<1>2. ToSet(q) = {q[i] : i \in 1 .. Len(q)} /\ ToSet(r) = {r[i] : i \in 1 .. Len(r)}
  BY <1>1, ToSetOf DEF r
<1>3. \A i \in 1 .. Len(r) : i \in 1 .. Len(q) \/ i = Len(q) + 1
  BY <1>1 DEF r
<1>4. \A i \in 1 .. Len(q) : i \in 1 .. Len(r) /\ r[i] = q[i]
  BY <1>1 DEF r
<1>5. Len(q) + 1 \in 1 .. Len(r) /\ r[Len(q) + 1] = e
  BY <1>1 DEF r
<1> QED BY <1>2, <1>3, <1>4, <1>5 DEF r

LEMMA CombinedElements ==
  ASSUME NEW S, NEW q \in Seq(S), NEW r \in Seq(S)
  PROVE  ToSet(q \o r) = ToSet(q) \cup ToSet(r)
<1> DEFINE c == q \o r
<1>1. /\ Len(q) \in Nat /\ Len(r) \in Nat /\ c \in Seq(S) /\ Len(c) = Len(q) + Len(r)
      /\ \A i \in 1 .. Len(q) : c[i] = q[i]
      /\ \A i \in 1 .. Len(r) : c[Len(q) + i] = r[i]
  OBVIOUS
<1> HIDE DEF c
<1>2. /\ ToSet(q) = {q[i] : i \in 1 .. Len(q)} /\ ToSet(r) = {r[i] : i \in 1 .. Len(r)}
      /\ ToSet(c) = {c[i] : i \in 1 .. Len(c)}
  BY <1>1, ToSetOf
<1>3. ASSUME NEW i \in 1 .. Len(c) PROVE c[i] \in ToSet(q) \cup ToSet(r)
  <2>1. CASE i \in 1 .. Len(q)
    BY <1>1, <1>2, <2>1
  <2>2. CASE i \notin 1 .. Len(q)
    <3>1. i - Len(q) \in 1 .. Len(r) /\ c[i] = r[i - Len(q)]
      <4>1. i - Len(q) \in 1 .. Len(r)
        BY <1>1, <2>2
      <4>2. Len(q) + (i - Len(q)) = i
        BY <1>1
      <4> QED BY <1>1, <4>1, <4>2
    <3> QED BY <1>2, <3>1
  <2> QED BY <2>1, <2>2
<1>4. ASSUME NEW i \in 1 .. Len(q) PROVE q[i] \in ToSet(c)
  BY <1>1, <1>2, <1>4
<1>5. ASSUME NEW i \in 1 .. Len(r) PROVE r[i] \in ToSet(c)
  BY <1>1, <1>2, <1>5
<1> QED BY <1>2, <1>3, <1>4, <1>5 DEF c

LEMMA EventPreventedHistory ==
  ASSUME HistoryInv, NEW e \in EventIds, EventPrevented(e)
  PROVE  History(stack', events')
<1> DEFINE g == [Top EXCEPT !.step = "emitEvents", !.events = RemoveFirst(@, e)]
<1>1. /\ PipelineInv /\ stack # <<>> /\ Top.kind = "window"
      /\ Top.step = "openReplacementEffectWindow" /\ Top \in Windows
  <2>1. PipelineInv /\ stack # <<>> /\ Top.kind = "window" /\ Top.step = "openReplacementEffectWindow"
    BY DEF EventPrevented, AtStep, HistoryInv
  <2> QED BY <2>1, TopWindowIsCurrent
<1>2. stack' = SetTop(g) /\ events' = [events EXCEPT ![e].status = "replaced"]
  BY DEF EventPrevented
<1>3. /\ stack' \in Seq(Frames) /\ events' \in [EventIds -> EventRecords]
      /\ stack \in Seq(Frames) /\ events \in [EventIds -> EventRecords]
  BY <1>1, EventPreventedKeeps DEF PipelineInv, Types
<1>4. /\ g.kind = "window" /\ g.step = "emitEvents" /\ g.triggers = Top.triggers
      /\ g.subMode = Top.subMode /\ g.subwindow = Top.subwindow /\ g.queued = Top.queued
      /\ g.events = RemoveFirst(Top.events, e) /\ g.resolved = Top.resolved
  BY <1>1 DEF Windows, WindowRecords
<1> HIDE DEF g
<1>5. g \in Windows
  BY <1>1, <1>2, <1>3, <1>4, TopFrameTyped, FramesOfKinds
<1>6. Own(g) \subseteq Own(Top)
  <2>1. Top.events \in Seq(EventIds)
    BY <1>1 DEF Windows, WindowRecords
  <2>2. ToSet(g.events) \subseteq ToSet(Top.events)
    BY <1>4, <2>1, ElementsOfRemoveFirst
  <2> QED BY <1>4, <2>2 DEF Own
<1>7. events[e].status # "unused"
  <2>1. e \in ToSet(Top.events)
    BY DEF EventPrevented
  <2>2. WindowAt(stack, n) /\ Top = stack[n] /\ n \in 1 .. Len(stack)
    BY <1>1, TopIsFrame DEF PipelineInv, WindowAt, n, Top
  <2> QED BY <2>1, <2>2 DEF HistoryInv, History, InUse, Places, Own
<1>8. EventsGoOn(events, events')
  BY <1>2, <1>3, <1>7, StatusGoesOn
<1>9. ~Emitted(g) /\ ~Emitted(Top) /\ Top.step \in SubwindowSteps
  BY <1>1, <1>4 DEF Emitted, PreSteps, SubwindowSteps
<1> QED BY <1>1, <1>2, <1>3, <1>4, <1>5, <1>6, <1>8, <1>9, TopStays

LEMMA SetParentEventWindowHistory ==
  ASSUME HistoryInv, SetParentEventWindow
  PROVE  History(stack', events')
<1> DEFINE step == IF Top.events = <<>> THEN "resolveEvents" ELSE "openReplacementEffectWindow"
           owner == IF Top.mode = "resolves" THEN n ELSE stack[current].owner
           g == [Top EXCEPT !.step = step, !.parent = current, !.owner = owner]
<1>1. /\ PipelineInv /\ stack # <<>> /\ Top.kind = "window"
      /\ Top.step = "setParentEventWindow"
  BY DEF SetParentEventWindow, AtStep, HistoryInv
<1>2. stack' = SetTop(g) /\ events' = events
  BY DEF SetParentEventWindow
<1>3. /\ stack' \in Seq(Frames) /\ events' \in [EventIds -> EventRecords]
      /\ stack \in Seq(Frames)
  BY <1>1, SetParentEventWindowKeeps DEF PipelineInv, Types
<1>4. Top \in Windows
  BY <1>1, TopIsFrame, FramesOfKinds DEF PipelineInv
<1>5. /\ g.kind = "window" /\ g.step = step /\ g.triggers = Top.triggers
      /\ g.subMode = Top.subMode /\ g.subwindow = Top.subwindow /\ g.queued = Top.queued
      /\ g.events = Top.events /\ g.resolved = Top.resolved
  BY <1>4 DEF Windows, WindowRecords
<1> HIDE DEF g
<1>6. g \in Windows
  BY <1>1, <1>2, <1>3, <1>5, TopFrameTyped, FramesOfKinds
<1>7. Own(g) = Own(Top)
  BY <1>5 DEF Own
<1>8. ~Emitted(Top) /\ Top.step \in SubwindowSteps
  BY <1>1 DEF Emitted, PreSteps, SubwindowSteps
<1>9. ~Emitted(g) \/ Own(g) = {}
  <2>1. CASE Top.events = <<>>
    <3>1. Top.resolved = <<>>
      <4>1. WindowAt(stack, n) /\ Top = stack[n] /\ n \in 1 .. Len(stack)
        BY <1>1, TopIsFrame DEF PipelineInv, WindowAt, n, Top
      <4> QED BY <1>8, <4>1 DEF HistoryInv, History, InPlace, Apart
    <3> QED BY <1>5, <2>1, <3>1 DEF Own, ToSet
  <2>2. CASE Top.events # <<>>
    BY <1>5, <2>2 DEF Emitted, PreSteps
  <2> QED BY <2>1, <2>2
<1> QED BY <1>1, <1>2, <1>3, <1>5, <1>6, <1>7, <1>8, <1>9, EventsStay, TopStays

LEMMA EventFizzlesHistory ==
  ASSUME HistoryInv, NEW e \in EventIds, EventFizzles(e)
  PROVE  History(stack', events')
<1> DEFINE g == [Top EXCEPT !.events = RemoveFirst(@, e)]
<1>1. /\ PipelineInv /\ stack # <<>> /\ Top.kind = "window" /\ Top.step = "resolveEvents"
      /\ Top \in Windows /\ events[e].status = "created"
  BY NextEvent DEF EventFizzles, HistoryInv
<1>2. stack' = SetTop(g) /\ events' = [events EXCEPT ![e].status = "cancelled"]
  BY DEF EventFizzles
<1>3. /\ stack' \in Seq(Frames) /\ events' \in [EventIds -> EventRecords]
      /\ stack \in Seq(Frames) /\ events \in [EventIds -> EventRecords]
  BY <1>1, EventFizzlesKeeps DEF PipelineInv, Types
<1>4. /\ g.kind = "window" /\ g.step = Top.step /\ g.triggers = Top.triggers
      /\ g.subMode = Top.subMode /\ g.subwindow = Top.subwindow /\ g.queued = Top.queued
      /\ g.events = RemoveFirst(Top.events, e) /\ g.resolved = Top.resolved
      /\ g.owner = Top.owner
  BY <1>1 DEF Windows, WindowRecords
<1> HIDE DEF g
<1>5. g \in Windows
  BY <1>1, <1>2, <1>3, <1>4, TopFrameTyped, FramesOfKinds
<1>6. Own(g) \subseteq Own(Top)
  <2>1. Top.events \in Seq(EventIds)
    BY <1>1 DEF Windows, WindowRecords
  <2>2. ToSet(g.events) \subseteq ToSet(Top.events)
    BY <1>4, <2>1, ElementsOfRemoveFirst
  <2> QED BY <1>4, <2>2 DEF Own
<1>7. EventsGoOn(events, events')
  BY <1>1, <1>2, <1>3, StatusGoesOn
<1>8. Emitted(g) /\ Emitted(Top)
  BY <1>1, <1>4 DEF Emitted, PreSteps
<1> QED BY <1>1, <1>2, <1>3, <1>4, <1>5, <1>6, <1>7, <1>8, TopStays

\* The window on top has resolved an event: what it holds, and what its handler queues.
LEMMA TopHasResolved ==
  ASSUME PipelineInv, NEW e, IsNext(e),
         NEW g, g = [Top EXCEPT !.resolved = Append(@, e)]
  PROVE  /\ g \in Windows /\ g.kind = "window" /\ g.step = Top.step /\ g.triggers = Top.triggers
         /\ g.subMode = Top.subMode /\ g.subwindow = Top.subwindow /\ g.queued = Top.queued
         /\ g.owner = Top.owner /\ Own(g) = Own(Top) /\ TopResolved(e) = SetTop(g)
         /\ Emitted(g) /\ Emitted(Top) /\ Top.step \in SubwindowSteps
<1>1. /\ stack # <<>> /\ Top.kind = "window" /\ Top.step = "resolveEvents"
      /\ Top \in Windows /\ e \in EventIds /\ e \in ToSet(Top.events)
  BY NextEvent
<1>2. Top.resolved \in Seq(EventIds)
  BY <1>1 DEF Windows, WindowRecords
<1>3. ASSUME NEW evs \in Seq(EventIds), NEW h, h = [Top EXCEPT !.resolved = evs]
      PROVE  /\ h \in Windows /\ h.kind = "window" /\ h.step = Top.step /\ h.triggers = Top.triggers
             /\ h.subMode = Top.subMode /\ h.subwindow = Top.subwindow /\ h.queued = Top.queued
             /\ h.owner = Top.owner /\ h.events = Top.events /\ h.resolved = evs
  BY <1>1, <1>3 DEF Windows, WindowRecords, KnowsItsTrigger
<1> DEFINE evs == Append(Top.resolved, e)
<1>4. evs \in Seq(EventIds)
  BY <1>1, <1>2
<1>5. ToSet(evs) = ToSet(Top.resolved) \cup {e}
  BY <1>1, <1>2, AppendedElements
<1>6. g = [Top EXCEPT !.resolved = evs]
  OBVIOUS
<1>7. TopResolved(e) = SetTop(g)
  BY DEF TopResolved
<1> HIDE DEF evs
<1>8. /\ g \in Windows /\ g.kind = "window" /\ g.step = Top.step /\ g.triggers = Top.triggers
      /\ g.subMode = Top.subMode /\ g.subwindow = Top.subwindow /\ g.queued = Top.queued
      /\ g.owner = Top.owner /\ g.events = Top.events /\ g.resolved = evs
  BY <1>3, <1>4, <1>6
<1>9. Own(g) = Own(Top)
  BY <1>1, <1>5, <1>8 DEF Own
<1>10. Emitted(g) /\ Emitted(Top) /\ Top.step \in SubwindowSteps
  BY <1>1, <1>8 DEF Emitted, PreSteps, SubwindowSteps
<1> QED BY <1>7, <1>8, <1>9, <1>10

LEMMA ResolvedGoesOn ==
  ASSUME PipelineInv, NEW e, IsNext(e)
  PROVE  /\ Resolved(e) \in [EventIds -> EventRecords]
         /\ EventsGoOn(events, Resolved(e)) /\ events[e].status = "created"
<1>1. e \in EventIds /\ events[e].status = "created"
  BY NextEvent
<1>2. Resolved(e) \in [EventIds -> EventRecords]
  BY <1>1, ResolvedTyped
<1>3. EventsGoOn(events, Resolved(e))
  BY <1>1, StatusGoesOn DEF Resolved, PipelineInv, Types
<1> QED BY <1>1, <1>2, <1>3

LEMMA ResolvedHistory ==
  ASSUME HistoryInv, NEW e, IsNext(e)
  PROVE  History(TopResolved(e), Resolved(e))
<1> DEFINE g == [Top EXCEPT !.resolved = Append(@, e)]
<1>1. PipelineInv /\ stack # <<>> /\ Top.kind = "window"
  BY NextEvent DEF HistoryInv
<1>2. /\ Resolved(e) \in [EventIds -> EventRecords] /\ EventsGoOn(events, Resolved(e))
  BY <1>1, ResolvedGoesOn
<1>3. /\ g \in Windows /\ g.kind = "window" /\ g.step = Top.step /\ g.triggers = Top.triggers
      /\ g.subMode = Top.subMode /\ g.subwindow = Top.subwindow /\ g.queued = Top.queued
      /\ g.owner = Top.owner /\ Own(g) = Own(Top) /\ TopResolved(e) = SetTop(g)
      /\ Emitted(g) /\ Emitted(Top) /\ Top.step \in SubwindowSteps
  BY <1>1, TopHasResolved
<1> HIDE DEF g
<1> QED BY <1>1, <1>2, <1>3, TopStays

LEMMA EventResolvesHistory ==
  ASSUME HistoryInv, NEW e \in EventIds, EventResolves(e)
  PROVE  History(stack', events')
BY ResolvedHistory DEF EventResolves

LEMMA EventChangesEffectHistory ==
  ASSUME HistoryInv, NEW e \in EventIds, NEW a \in Unsteady, EventChangesEffect(e, a)
  PROVE  History(stack', events')
BY ResolvedHistory DEF EventChangesEffect

LEMMA EventBlanksCardHistory ==
  ASSUME HistoryInv, NEW e \in EventIds, NEW a \in Unsteady, EventBlanksCard(e, a)
  PROVE  History(stack', events')
BY ResolvedHistory DEF EventBlanksCard

\* The replacement joins the events the window is about to emit.
LEMMA EventReplacedHistory ==
  ASSUME HistoryInv, NEW e \in EventIds, NEW listeners \in Listening,
         EventReplaced(e, listeners)
  PROVE  History(stack', events')
<1> DEFINE u == NextUnused
           g == [Top EXCEPT !.step = "emitEvents", !.events = Append(@, u)]
           evs == [events EXCEPT ![e].status = "replaced"]
           by == [evs EXCEPT ![e].by = u]
<1>1. /\ PipelineInv /\ stack # <<>> /\ Top.kind = "window"
      /\ Top.step = "openReplacementEffectWindow" /\ Top \in Windows
  <2>1. PipelineInv /\ stack # <<>> /\ Top.kind = "window" /\ Top.step = "openReplacementEffectWindow"
    BY DEF EventReplaced, AtStep, HistoryInv
  <2> QED BY <2>1, TopWindowIsCurrent
<1>2. /\ stack' = SetTop(g)
      /\ events' = [by EXCEPT ![u] = NewEvent(listeners)]
  BY DEF EventReplaced
<1>3. /\ stack' \in Seq(Frames) /\ events' \in [EventIds -> EventRecords]
      /\ stack \in Seq(Frames) /\ events \in [EventIds -> EventRecords]
  BY <1>1, EventReplacedKeeps DEF PipelineInv, Types
<1>4. u \in EventIds /\ events[u].status = "unused"
  BY NextUnusedIsUnused DEF EventReplaced
<1>5. Top.events \in Seq(EventIds)
  BY <1>1 DEF Windows, WindowRecords
<1>6. /\ g.kind = "window" /\ g.step = "emitEvents" /\ g.triggers = Top.triggers
      /\ g.subMode = Top.subMode /\ g.subwindow = Top.subwindow /\ g.queued = Top.queued
      /\ g.events = Append(Top.events, u) /\ g.resolved = Top.resolved
  BY <1>1 DEF Windows, WindowRecords
<1> HIDE DEF g, u
<1>7. g \in Windows
  BY <1>1, <1>2, <1>3, <1>6, TopFrameTyped, FramesOfKinds
<1>8. Own(g) = Own(Top) \cup {u}
  <2>1. ToSet(g.events) = ToSet(Top.events) \cup {u}
    BY <1>4, <1>5, <1>6, AppendedElements
  <2> QED BY <1>6, <2>1 DEF Own
<1>9. events[e].status # "unused"
  <2>1. e \in ToSet(Top.events)
    BY DEF EventReplaced
  <2>2. WindowAt(stack, n) /\ Top = stack[n] /\ n \in 1 .. Len(stack)
    BY <1>1, TopIsFrame DEF PipelineInv, WindowAt, n, Top
  <2> QED BY <2>1, <2>2 DEF HistoryInv, History, InUse, Places, Own
<1>10. EventsGoOn(events, evs) /\ evs \in [EventIds -> EventRecords]
  BY <1>3, <1>9, StatusGoesOn, StatusTyped DEF Statuses
<1> HIDE DEF evs
<1>11. EventsGoOn(events, by) /\ by \in [EventIds -> EventRecords]
  <2>1. by \in [EventIds -> EventRecords]
    BY <1>4, <1>10 DEF EventRecords
  <2>2. ASSUME NEW r \in EventRecords, NEW x
        PROVE  /\ [r EXCEPT !.by = x].due = r.due /\ [r EXCEPT !.by = x].missed = r.missed
               /\ [r EXCEPT !.by = x].times = r.times
               /\ [r EXCEPT !.by = x].listeners = r.listeners
               /\ [r EXCEPT !.by = x].status = r.status
    BY DEF EventRecords
  <2>3. by[e] = [evs[e] EXCEPT !.by = u] /\ evs[e] \in EventRecords
        /\ \A f \in EventIds : f # e => by[f] = evs[f]
    BY <1>10
  <2>4. EventKept(events[e], evs[e])
    BY <1>9, <1>10, UsedIsKept
  <2>5. EventKept(events[e], by[e])
    BY <2>2, <2>3, <2>4 DEF EventKept
  <2> QED BY <1>10, <2>1, <2>3, <2>5 DEF EventsGoOn
<1> HIDE DEF by
<1>12. EventsGoOn(events, events') /\ Placeable(stack, events, events', {u})
  BY <1>2, <1>4, <1>11, NewEventGoesOn
<1>13. ~Emitted(g) /\ ~Emitted(Top) /\ Sub(g) = Sub(Top) /\ Queue(g) = Queue(Top)
  BY <1>1, <1>6 DEF Emitted, PreSteps, SubwindowSteps, Sub, Queue
<1>14. Places(g) = Places(Top) \cup {u} /\ Ahead(g) = Ahead(Top) \cup {u}
  BY <1>8, <1>13 DEF Places, Ahead
<1>15. Apart(g)
  <2>1. WindowAt(stack, n) /\ Top = stack[n] /\ n \in 1 .. Len(stack)
    BY <1>1, TopIsFrame DEF PipelineInv, WindowAt, n, Top
  <2>2. Apart(Top) /\ u \notin Places(Top)
    BY <1>12, <2>1 DEF HistoryInv, History, InPlace, Placeable
  <2> QED BY <1>6, <1>8, <1>13, <2>2 DEF Apart, Places, QueuesOnce
<1>16. {u} \in SUBSET EventIds
  BY <1>4
<1> QED BY <1>1, <1>2, <1>3, <1>6, <1>7, <1>12, <1>13, <1>14, <1>15, <1>16, TopGoesOn

LEMMA TopIsApart ==
  ASSUME HistoryInv, stack # <<>>, Top.kind = "window"
  PROVE  Apart(Top) /\ WindowAt(stack, n) /\ Top = stack[n] /\ n \in 1 .. Len(stack)
         /\ n = Len(stack)
<1>1. n \in 1 .. n /\ n = Len(stack) /\ Top = stack[n] /\ WindowAt(stack, n)
  BY TopIsFrame DEF HistoryInv, PipelineInv, Top, n, WindowAt
<1> QED BY <1>1 DEF HistoryInv, History, InPlace

\* A defeat joins the sub-window of the window on top.
LEMMA SubwindowGains ==
  ASSUME HistoryInv, stack # <<>>, Top.kind = "window", Top.step = "resolveEvents",
         NEW fvs \in [EventIds -> EventRecords], EventsGoOn(events, fvs),
         NEW u \in EventIds, Placeable(stack, events, fvs, {u}),
         NEW h \in Windows, h.step \in {"resolveEvents", "postResolutionTriggers"},
         h.triggers = Top.triggers, h.subMode = Top.subMode, h.owner = Top.owner,
         h.subwindow = Top.subwindow, h.queued = Top.queued, Own(h) = Own(Top),
         NEW g, g = [h EXCEPT !.subwindow = @ \o <<u>>]
  PROVE  History(SetTop(g), fvs)
<1> DEFINE evs == h.subwindow \o <<u>>
<1>1. h.subwindow \in Seq(EventIds)
  BY DEF Windows, WindowRecords
<1>2. evs \in Seq(EventIds) /\ ToSet(evs) = ToSet(Top.subwindow) \cup {u}
  <2> DEFINE one == <<u>>
  <2>1. ToSet(one) = {u} /\ one \in Seq(EventIds)
    BY DEF ToSet
  <2>2. evs = h.subwindow \o one
    OBVIOUS
  <2> HIDE DEF one, evs
  <2>3. evs \in Seq(EventIds)
    BY <1>1, <2>1, <2>2
  <2>4. ToSet(evs) = ToSet(h.subwindow) \cup ToSet(one)
    BY <1>1, <2>1, <2>2, CombinedElements
  <2> QED BY <2>1, <2>3, <2>4
<1>3. g = [h EXCEPT !.subwindow = evs]
  OBVIOUS
<1> HIDE DEF evs
<1>4. /\ g \in Windows /\ g.step = h.step /\ g.triggers = h.triggers /\ g.subMode = h.subMode
      /\ g.owner = h.owner /\ g.queued = h.queued /\ g.events = h.events
      /\ g.resolved = h.resolved /\ g.subwindow = evs
  BY <1>2, <1>3 DEF Windows, WindowRecords, KnowsItsTrigger
<1>5. Emitted(g) /\ Emitted(Top) /\ g.step \in SubwindowSteps /\ Top.step \in SubwindowSteps
  BY <1>4 DEF Emitted, PreSteps, SubwindowSteps
<1>6. Own(g) = Own(Top) /\ Queue(g) = Queue(Top) /\ Sub(g) = Sub(Top) \cup {u}
  BY <1>2, <1>4, <1>5, ZenonT(60) DEF Own, Queue, Sub
<1>7. Places(g) = Places(Top) \cup {u} /\ Ahead(g) = Ahead(Top) \cup {u}
  BY <1>5, <1>6 DEF Places, Ahead
<1>8. Apart(g)
  <2>1. Apart(Top) /\ u \notin Places(Top)
    BY TopIsApart DEF Placeable
  <2>2. QueuesOnce(Top) /\ g.queued = Top.queued
    BY <1>4, <2>1 DEF Apart
  <2>3. QueuesOnce(g)
    BY <2>2 DEF QueuesOnce
  <2>4. /\ Own(g) \cap Sub(g) = {} /\ Own(g) \cap Queue(g) = {} /\ Sub(g) \cap Queue(g) = {}
    BY <1>6, <2>1 DEF Apart, Places
  <2> QED BY <1>5, <2>3, <2>4 DEF Apart
<1>9. {u} \in SUBSET EventIds
  OBVIOUS
<1> QED BY <1>4, <1>5, <1>6, <1>7, <1>8, <1>9, TopGoesOn

LEMMA NextUnusedGoesOn ==
  ASSUME HistoryInv, NEW evs \in [EventIds -> EventRecords], EventsGoOn(events, evs),
         Unused # {}, NEW listeners \in Listening,
         NEW fvs, fvs = [evs EXCEPT ![NextUnused] = NewEvent(listeners)]
  PROVE  /\ fvs \in [EventIds -> EventRecords] /\ EventsGoOn(events, fvs)
         /\ NextUnused \in EventIds /\ Placeable(stack, events, fvs, {NextUnused})
<1> DEFINE u == NextUnused
<1>1. u \in EventIds /\ events[u].status = "unused"
  BY NextUnusedIsUnused
<1>2. NewEvent(listeners) \in EventRecords
  BY NewEventTyped
<1> HIDE DEF u
<1>3. fvs = [evs EXCEPT ![u] = NewEvent(listeners)]
  BY DEF u
<1>4. fvs \in [EventIds -> EventRecords]
  BY <1>1, <1>2, <1>3
<1>5. EventsGoOn(events, fvs) /\ Placeable(stack, events, fvs, {u})
  BY <1>1, <1>3, NewEventGoesOn
<1> QED BY <1>1, <1>4, <1>5 DEF u

LEMMA EventDefeatsCardHistory ==
  ASSUME HistoryInv, NEW e \in EventIds, NEW listeners \in Listening,
         EventDefeatsCard(e, listeners)
  PROVE  History(stack', events')
<1> DEFINE h == [Top EXCEPT !.resolved = Append(@, e)]
           u == NextUnused
           g == [h EXCEPT !.subwindow = @ \o <<u>>]
<1>1. PipelineInv /\ IsNext(e)
  BY DEF EventDefeatsCard, HistoryInv
<1>2. /\ stack # <<>> /\ Top.kind = "window" /\ Top.step = "resolveEvents"
      /\ Top \in Windows /\ current = n
  BY <1>1, NextEvent
<1>3. /\ h \in Windows /\ h.step = Top.step /\ h.triggers = Top.triggers
      /\ h.subMode = Top.subMode /\ h.subwindow = Top.subwindow /\ h.queued = Top.queued
      /\ h.owner = Top.owner /\ Own(h) = Own(Top) /\ TopResolved(e) = SetTop(h)
  BY <1>1, TopHasResolved
<1>4. stack' = SetTop(g)
  <2>1. n \in DOMAIN stack
    BY <1>1, <1>2, TopIsFrame DEF PipelineInv
  <2>2. stack' = [SetTop(h) EXCEPT ![n].subwindow = @ \o <<u>>]
    BY <1>2 DEF EventDefeatsCard, AddSubwindowEvents, TopResolved
  <2> HIDE DEF h
  <2> QED BY <2>1, <2>2 DEF SetTop
<1>5. Resolved(e) \in [EventIds -> EventRecords] /\ EventsGoOn(events, Resolved(e))
  BY <1>1, ResolvedGoesOn
<1>6. /\ events' \in [EventIds -> EventRecords] /\ EventsGoOn(events, events')
      /\ u \in EventIds /\ Placeable(stack, events, events', {u})
  BY <1>5, NextUnusedGoesOn DEF EventDefeatsCard
<1> HIDE DEF h, u
<1> QED BY <1>2, <1>3, <1>4, <1>6, SubwindowGains

LEMMA GameStateDefeatsCardHistory ==
  ASSUME HistoryInv, NEW listeners \in Listening, GameStateDefeatsCard(listeners)
  PROVE  History(stack', events')
<1> DEFINE h == [Top EXCEPT !.step = "postResolutionTriggers"]
           u == NextUnused
           g == [h EXCEPT !.subwindow = @ \o <<u>>]
<1>1. /\ PipelineInv /\ stack # <<>> /\ Top.kind = "window" /\ Top.step = "resolveEvents"
      /\ Top \in Windows /\ current = n
  BY EventsDone DEF GameStateDefeatsCard, HistoryInv
<1>2. /\ h \in Windows /\ h.step = "postResolutionTriggers" /\ h.triggers = Top.triggers
      /\ h.subMode = Top.subMode /\ h.subwindow = Top.subwindow /\ h.queued = Top.queued
      /\ h.owner = Top.owner /\ h.events = Top.events /\ h.resolved = Top.resolved
  BY <1>1 DEF Windows, WindowRecords, WindowSteps, KnowsItsTrigger
<1>3. Own(h) = Own(Top)
  BY <1>2 DEF Own
<1>4. stack' = SetTop(g)
  <2>1. n \in DOMAIN stack
    BY <1>1, TopIsFrame DEF PipelineInv
  <2>2. stack' = [SetTop(h) EXCEPT ![n].subwindow = @ \o <<u>>]
    BY <1>1 DEF GameStateDefeatsCard, AddSubwindowEvents, Step
  <2> HIDE DEF h
  <2> QED BY <2>1, <2>2 DEF SetTop
<1>5. events \in [EventIds -> EventRecords]
  BY <1>1 DEF PipelineInv, Types
<1>6. /\ events' \in [EventIds -> EventRecords] /\ EventsGoOn(events, events')
      /\ u \in EventIds /\ Placeable(stack, events, events', {u})
  BY <1>5, NextUnusedGoesOn, EventsStay DEF GameStateDefeatsCard
<1> HIDE DEF h, u
<1> QED BY <1>1, <1>2, <1>3, <1>4, <1>6, SubwindowGains

LEMMA QueueGains ==
  ASSUME NEW f, f.queued \in Seq(QueuedWindows), NEW q \in QueuedWindows,
         NEW g, g.queued = Append(f.queued, q), q.event \notin Queue(f), QueuesOnce(f)
  PROVE  Queue(g) = Queue(f) \cup {q.event} /\ QueuesOnce(g)
<1> DEFINE qs == f.queued
           r == Append(qs, q)
<1>1. /\ Len(qs) \in Nat /\ DOMAIN qs = 1 .. Len(qs) /\ DOMAIN r = 1 .. Len(qs) + 1
      /\ r[Len(qs) + 1] = q /\ \A j \in 1 .. Len(qs) : r[j] = qs[j]
  OBVIOUS
<1>2. g.queued = r /\ f.queued = qs
  OBVIOUS
<1> HIDE DEF r, qs
<1>3. /\ Queue(g) = {r[k].event : k \in 1 .. Len(qs) + 1}
      /\ Queue(f) = {qs[k].event : k \in 1 .. Len(qs)}
      /\ \A j, k \in 1 .. Len(qs) : qs[j].event = qs[k].event => j = k
  BY <1>1, <1>2 DEF Queue, QueuesOnce
<1>4. \A k \in 1 .. Len(qs) + 1 : k \in 1 .. Len(qs) \/ k = Len(qs) + 1
  BY <1>1
<1>5. \A k \in 1 .. Len(qs) : k \in 1 .. Len(qs) + 1
  BY <1>1
<1>6. Len(qs) + 1 \in 1 .. Len(qs) + 1
  BY <1>1
<1>7. Queue(g) = Queue(f) \cup {q.event}
  BY <1>1, <1>3, <1>4, <1>5, <1>6
<1>8. \A k \in 1 .. Len(qs) : r[k].event # q.event
  BY <1>1, <1>3
<1>9. ASSUME NEW j \in 1 .. Len(qs) + 1, NEW k \in 1 .. Len(qs) + 1, r[j].event = r[k].event
      PROVE  j = k
  BY <1>1, <1>3, <1>4, <1>8, <1>9
<1> QED BY <1>1, <1>2, <1>7, <1>9 DEF QueuesOnce

LEMMA EventOpensWindowHistory ==
  ASSUME HistoryInv, NEW e \in EventIds, NEW listeners \in Listening,
         NEW modes \in NestedModes, EventOpensWindow(e, modes, listeners)
  PROVE  History(stack', events')
<1> DEFINE u == NextUnused
           q == [event |-> u, modes |-> modes]
           h == [Top EXCEPT !.resolved = Append(@, e)]
           g == [Top EXCEPT !.resolved = Append(@, e), !.queued = Append(@, q)]
<1>1. PipelineInv /\ IsNext(e)
  BY DEF EventOpensWindow, HistoryInv
<1>2. /\ stack # <<>> /\ Top.kind = "window" /\ Top.step = "resolveEvents" /\ Top \in Windows
  BY <1>1, NextEvent
<1>3. /\ h \in Windows /\ h.step = Top.step /\ h.triggers = Top.triggers
      /\ h.subMode = Top.subMode /\ h.subwindow = Top.subwindow /\ h.queued = Top.queued
      /\ h.owner = Top.owner /\ Own(h) = Own(Top)
  BY <1>1, TopHasResolved
<1>4. Resolved(e) \in [EventIds -> EventRecords] /\ EventsGoOn(events, Resolved(e))
  BY <1>1, ResolvedGoesOn
<1>5. /\ events' \in [EventIds -> EventRecords] /\ EventsGoOn(events, events')
      /\ u \in EventIds /\ Placeable(stack, events, events', {u})
  BY <1>4, NextUnusedGoesOn DEF EventOpensWindow
<1>6. stack' = SetTop(g) /\ stack' \in Seq(Frames) /\ stack \in Seq(Frames)
  BY <1>1, EventOpensWindowKeeps DEF EventOpensWindow, PipelineInv, Types
<1>7. g = [h EXCEPT !.queued = Append(@, q)]
  BY <1>2 DEF Windows, WindowRecords
<1>8. q \in QueuedWindows /\ q.event = u
  BY <1>5 DEF QueuedWindows
<1> HIDE DEF h, g, q, u
<1>9. /\ g.step = h.step /\ g.triggers = h.triggers /\ g.subMode = h.subMode
      /\ g.owner = h.owner /\ g.subwindow = h.subwindow /\ g.events = h.events
      /\ g.resolved = h.resolved /\ g.queued = Append(h.queued, q) /\ g.kind = "window"
  BY <1>3, <1>7 DEF Windows, WindowRecords
<1>10. g \in Windows
  BY <1>2, <1>6, <1>9, TopFrameTyped, FramesOfKinds
<1>11. Apart(Top) /\ u \notin Places(Top)
  BY <1>2, <1>5, TopIsApart DEF Placeable
<1>12. h.queued \in Seq(QueuedWindows)
  BY <1>3 DEF Windows, WindowRecords
<1>13. /\ Queue(g) = Queue(h) \cup {u}
       /\ QueuesOnce(g)
  <2>1. u \notin Queue(h) /\ QueuesOnce(h)
    BY <1>3, <1>11 DEF Apart, Places, Queue, QueuesOnce
  <2> QED BY <1>8, <1>9, <1>12, <2>1, QueueGains
<1>14. Emitted(g) /\ Emitted(Top)
  BY <1>2, <1>3, <1>9 DEF Emitted, PreSteps
<1>15. Own(g) = Own(Top) /\ Sub(g) = Sub(Top) /\ Queue(h) = Queue(Top)
  BY <1>3, <1>9 DEF Own, Sub, Queue
<1>16. Places(g) = Places(Top) \cup {u} /\ Ahead(g) = Ahead(Top) \cup {u}
  BY <1>13, <1>14, <1>15 DEF Places, Ahead
<1>17. Apart(g)
  BY <1>11, <1>13, <1>14, <1>15 DEF Apart, Places
<1>18. {u} \in SUBSET EventIds
  BY <1>5
<1> QED BY <1>2, <1>3, <1>5, <1>6, <1>9, <1>10, <1>14, <1>15, <1>16, <1>17, <1>18, TopGoesOn

\* A frame that is no window comes, or any frame goes.
LEMMA FramePushed ==
  ASSUME NEW s \in Seq(Frames), NEW evs \in [EventIds -> EventRecords], History(s, evs),
         NEW f \in Frames, f.kind # "window"
  PROVE  History(Append(s, f), evs)
<1> DEFINE t == Append(s, f)
<1>1. /\ Len(s) \in Nat /\ t \in Seq(Frames) /\ Len(t) = Len(s) + 1 /\ t[Len(t)] = f
      /\ \A j \in 1 .. Len(s) : t[j] = s[j]
  BY DEF Frames
<1> HIDE DEF t
<1>2. EventsGoOn(evs, evs)
  BY DEF EventsGoOn, EventKept
<1>3. \A i : WindowAt(t, i) => WindowAt(s, i) /\ t[i] = s[i]
  <2>1. \A i : i \in 1 .. Len(t) => i \in 1 .. Len(s) \/ i = Len(t)
    BY <1>1
  <2> QED BY <1>1, <2>1 DEF WindowAt
<1>4. \A i \in 1 .. Len(t) : WindowAt(s, i) => WindowAt(t, i)
  BY <1>1 DEF WindowAt
<1>5. History(t, evs)
  BY <1>1, <1>2, <1>3, <1>4, WindowsRemain
<1> QED BY <1>5 DEF t

LEMMA FramePopped ==
  ASSUME NEW s \in Seq(Frames), s # <<>>, NEW evs \in [EventIds -> EventRecords],
         History(s, evs)
  PROVE  History(SubSeq(s, 1, Len(s) - 1), evs)
<1> DEFINE t == SubSeq(s, 1, Len(s) - 1)
<1>1. /\ t \in Seq(Frames) /\ Len(t) = Len(s) - 1 /\ \A i \in 1 .. Len(s) - 1 : t[i] = s[i]
  BY PopTyped
<1> HIDE DEF t
<1>2. EventsGoOn(evs, evs)
  BY DEF EventsGoOn, EventKept
<1>3. Len(s) \in Nat
  OBVIOUS
<1>4. \A i : WindowAt(t, i) => WindowAt(s, i) /\ t[i] = s[i]
  BY <1>1, <1>3 DEF WindowAt
<1>5. \A i \in 1 .. Len(t) : WindowAt(s, i) => WindowAt(t, i)
  BY <1>1, <1>3 DEF WindowAt
<1>6. History(t, evs)
  BY <1>1, <1>2, <1>4, <1>5, WindowsRemain
<1> QED BY <1>6 DEF t

\* The window on top goes on to its next step, without a further change.
LEMMA TopStepHistory ==
  ASSUME HistoryInv, stack # <<>>, Top.kind = "window", NEW step \in WindowSteps,
         Emitted(Top), step \notin PreSteps,
         step \in SubwindowSteps => Top.step \in SubwindowSteps
  PROVE  Step(step) \in Seq(Frames) /\ Step(step) # <<>> /\ History(Step(step), events)
<1> DEFINE g == [Top EXCEPT !.step = step]
<1>1. /\ stack \in Seq(Frames) /\ events \in [EventIds -> EventRecords]
      /\ Top \in Windows /\ n = Len(stack)
  BY TopIsFrame, FramesOfKinds DEF HistoryInv, PipelineInv, Types, n
<1>2. /\ g \in Windows /\ g.owner = Top.owner /\ g.triggers = Top.triggers /\ g.step = step
      /\ g.subMode = Top.subMode /\ g.events = Top.events /\ g.resolved = Top.resolved
      /\ g.subwindow = Top.subwindow /\ g.queued = Top.queued
  BY <1>1, StepTyped
<1>3. Step(step) = SetTop(g)
  BY DEF Step
<1> HIDE DEF g
<1>4. Own(g) = Own(Top) /\ Emitted(g)
  BY <1>2 DEF Own, Emitted
<1>5. History(SetTop(g), events)
  BY <1>1, <1>2, <1>4, EventsStay, TopStays
<1>6. SetTop(g) \in Seq(Frames) /\ SetTop(g) # <<>>
  <2>1. SetTop(g) = [stack EXCEPT ![Len(stack)] = g] /\ g \in Frames
    BY <1>1, <1>2 DEF SetTop, Frames
  <2> QED BY <1>1, <2>1, TopReplaced
<1> QED BY <1>3, <1>5, <1>6

LEMMA GameStateChangesCardHistory ==
  ASSUME HistoryInv, NEW a \in Unsteady, GameStateChangesCard(a)
  PROVE  History(stack', events')
<1>1. /\ stack # <<>> /\ Top.kind = "window" /\ Top.step = "resolveEvents"
  BY EventsDone DEF GameStateChangesCard, HistoryInv
<1>2. stack' = Step("postResolutionTriggers") /\ events' = events
  BY DEF GameStateChangesCard
<1>3. Emitted(Top) /\ "postResolutionTriggers" \notin PreSteps /\ Top.step \in SubwindowSteps
      /\ "postResolutionTriggers" \in WindowSteps
  BY <1>1 DEF Emitted, PreSteps, SubwindowSteps, WindowSteps
<1> QED BY <1>1, <1>2, <1>3, TopStepHistory

LEMMA ResolveTriggersIfNecessaryHistory ==
  ASSUME HistoryInv, ResolveTriggersIfNecessary
  PROVE  History(stack', events')
<1>1. /\ stack # <<>> /\ Top.kind = "window" /\ Top.step = "resolveTriggersIfNecessary"
  BY DEF ResolveTriggersIfNecessary, AtStep
<1>2. stack' = Append(Step("cleanup"), TriggeredAbilityWindow) /\ events' = events
  BY DEF ResolveTriggersIfNecessary
<1>3. Emitted(Top) /\ "cleanup" \notin PreSteps /\ "cleanup" \notin SubwindowSteps
      /\ "cleanup" \in WindowSteps
  BY <1>1 DEF Emitted, PreSteps, SubwindowSteps, WindowSteps
<1>4. Step("cleanup") \in Seq(Frames) /\ History(Step("cleanup"), events)
  BY <1>1, <1>3, TopStepHistory
<1>5. TriggeredAbilityWindow \in Frames /\ TriggeredAbilityWindow.kind # "window"
  BY DEF Frames, TriggeredAbilityWindow
<1>6. events \in [EventIds -> EventRecords]
  BY DEF HistoryInv, PipelineInv, Types
<1> DEFINE s == Step("cleanup")
           f == TriggeredAbilityWindow
<1> HIDE DEF s, f
<1>7. History(Append(s, f), events)
  BY <1>4, <1>5, <1>6, FramePushed DEF s, f
<1> QED BY <1>2, <1>7 DEF s, f

\* The sub-step of an ability follows, or nothing.
LEMMA SubStepFollows ==
  ASSUME NEW s \in Seq(Frames), NEW evs \in [EventIds -> EventRecords], History(s, evs),
         NEW due \in BOOLEAN, NEW trigger, NEW subStep, due => trigger \in Triggers,
         NEW t, t = s \o IF due THEN <<SubAbilityStep(trigger, subStep)>> ELSE <<>>
  PROVE  History(t, evs)
<1> DEFINE f == SubAbilityStep(trigger, subStep)
<1>1. CASE due
  <2>1. f \in Resolvers /\ f.kind = "resolver"
    BY <1>1, SubAbilityStepTyped
  <2>2. f \in Frames /\ f.kind # "window"
    BY <2>1 DEF Frames
  <2>3. t = s \o <<f>>
    BY <1>1
  <2> HIDE DEF f
  <2>4. t = Append(s, f)
    BY <2>2, <2>3
  <2>5. History(Append(s, f), evs)
    BY <2>2, FramePushed
  <2> QED BY <2>4, <2>5
<1>2. CASE ~due
  <2>1. t = s
    BY <1>2
  <2> QED BY <2>1
<1> QED BY <1>1, <1>2

LEMMA ResolveSubAbilityStepHistory ==
  ASSUME HistoryInv, ResolveSubAbilityStep
  PROVE  History(stack', events')
<1> DEFINE step == AfterSubAbilityStep(Top)
           due == SubAbilityStepDue
<1>1. /\ stack # <<>> /\ Top.kind = "window" /\ Top.step = "resolveSubAbilityStep"
      /\ Top \in Windows
  <2>1. stack # <<>> /\ Top.kind = "window" /\ Top.step = "resolveSubAbilityStep"
    BY DEF ResolveSubAbilityStep, AtStep
  <2> QED BY <2>1, TopIsFrame, FramesOfKinds DEF HistoryInv, PipelineInv
<1>2. /\ stack' = Step(step) \o IF due THEN <<SubAbilityStep(Top.trigger, Top.subStep)>> ELSE <<>>
      /\ events' = events
  BY DEF ResolveSubAbilityStep
<1>3. Emitted(Top) /\ step \notin PreSteps /\ step \notin SubwindowSteps /\ step \in WindowSteps
  BY <1>1 DEF Emitted, PreSteps, SubwindowSteps, WindowSteps, AfterSubAbilityStep
<1>4. due => Top.trigger \in Triggers
  BY <1>1 DEF SubAbilityStepDue, Windows, KnowsItsTrigger
<1>5. due \in BOOLEAN
  BY DEF SubAbilityStepDue
<1> HIDE DEF step, due
<1>6. Step(step) \in Seq(Frames) /\ History(Step(step), events)
  BY <1>1, <1>3, TopStepHistory
<1>7. events \in [EventIds -> EventRecords]
  BY DEF HistoryInv, PipelineInv, Types
<1> DEFINE s == Step(step)
<1> HIDE DEF s
<1>8. s \in Seq(Frames) /\ History(s, events)
      /\ stack' = s \o IF due THEN <<SubAbilityStep(Top.trigger, Top.subStep)>> ELSE <<>>
  BY <1>2, <1>6 DEF s
<1>9. History(stack', events)
  BY <1>4, <1>5, <1>7, <1>8, SubStepFollows
<1> QED BY <1>2, <1>9

LEMMA InitiatedAbilityHasNoEventHistory ==
  ASSUME HistoryInv, InitiatedAbilityHasNoEvent
  PROVE  History(stack', events')
<1> DEFINE g == [Top EXCEPT !.initiates = FALSE, !.subStep = "none"]
           due == Top.subStep # "none"
           s == SetTop(g)
<1>1. /\ stack # <<>> /\ Top.kind = "window" /\ Top.step = "resolveEvents" /\ Top.initiates
  BY DEF InitiatedAbilityHasNoEvent, EventsAreResolved, AtStep
<1>2. Top \in Windows /\ stack \in Seq(Frames) /\ events \in [EventIds -> EventRecords]
  BY <1>1, TopIsFrame, FramesOfKinds DEF HistoryInv, PipelineInv, Types
<1>3. /\ stack' = s \o IF due THEN <<SubAbilityStep(Top.trigger, Top.subStep)>> ELSE <<>>
      /\ events' = events
  BY DEF InitiatedAbilityHasNoEvent
<1>4. /\ g \in Windows /\ g.owner = Top.owner /\ g.triggers = Top.triggers /\ g.step = Top.step
  BY <1>2, InitiatedTyped
<1>5. /\ g.subMode = Top.subMode /\ g.events = Top.events /\ g.resolved = Top.resolved
      /\ g.subwindow = Top.subwindow /\ g.queued = Top.queued
  BY <1>2 DEF Windows, WindowRecords
<1>6. Top.trigger \in Triggers
  BY <1>1, <1>2 DEF Windows, KnowsItsTrigger
<1>7. due \in BOOLEAN
  OBVIOUS
<1> HIDE DEF g, due
<1>8. Own(g) = Own(Top) /\ Emitted(g) /\ Emitted(Top)
  BY <1>1, <1>4, <1>5 DEF Own, Emitted, PreSteps
<1>9. History(s, events)
  BY <1>1, <1>2, <1>4, <1>5, <1>8, EventsStay, TopStays
<1>10. s \in Seq(Frames)
  <2>1. s = [stack EXCEPT ![Len(stack)] = g] /\ g \in Frames
    BY <1>4 DEF SetTop, Frames, n
  <2> QED BY <1>1, <1>2, <2>1, TopReplaced
<1> HIDE DEF s
<1>11. History(stack', events)
  BY <1>2, <1>3, <1>6, <1>7, <1>9, <1>10, SubStepFollows
<1> QED BY <1>3, <1>11

LEMMA CleanupHistory ==
  ASSUME HistoryInv, Cleanup
  PROVE  History(stack', events')
<1>1. stack # <<>> /\ stack' = SubSeq(stack, 1, Len(stack) - 1) /\ events' = events
  BY DEF Cleanup, AtStep, Pop, n
<1> QED BY <1>1, FramePopped DEF HistoryInv, PipelineInv, Types

LEMMA SubStepIsResolvedHistory ==
  ASSUME HistoryInv, SubStepIsResolved
  PROVE  History(stack', events')
<1>1. stack # <<>> /\ stack' = SubSeq(stack, 1, Len(stack) - 1) /\ events' = events
  BY DEF SubStepIsResolved, AtStep, Pop, n
<1> QED BY <1>1, FramePopped DEF HistoryInv, PipelineInv, Types

LEMMA CommittedHistory ==
  ASSUME HistoryInv, AtStep("resolver", "checkAbility")
  PROVE  /\ History(Committed, events) /\ Committed \in Seq(Frames) /\ Committed # <<>>
         /\ Committed[Len(Committed)].kind = "resolver"
<1> DEFINE t == Committed
<1>1. PipelineInv /\ stack # <<>> /\ Top.kind = "resolver"
  BY DEF HistoryInv, AtStep
<1>2. /\ t \in Seq(Frames) /\ t # <<>> /\ t[Len(t)].kind = "resolver"
  BY <1>1, CommittedFits
<1>3. Len(t) = Len(stack) /\ \A i \in 1 .. Len(stack) : i # Len(stack) => t[i] = stack[i]
  BY <1>1 DEF Committed, SetTop, n, PipelineInv, Types
<1> HIDE DEF t
<1>4. stack[Len(stack)].kind = "resolver" /\ stack \in Seq(Frames)
      /\ events \in [EventIds -> EventRecords] /\ History(stack, events)
  BY <1>1 DEF Top, n, HistoryInv, PipelineInv, Types
<1>5. \A i : WindowAt(t, i) <=> WindowAt(stack, i)
  BY <1>2, <1>3, <1>4 DEF WindowAt
<1>6. \A i : WindowAt(t, i) => WindowAt(stack, i) /\ t[i] = stack[i]
  BY <1>2, <1>3, <1>5 DEF WindowAt
<1>7. EventsGoOn(events, events)
  BY EventsStay
<1>8. History(t, events)
  BY <1>2, <1>4, <1>5, <1>6, <1>7, WindowsRemain
<1> QED BY <1>2, <1>8 DEF t

LEMMA AbilityIsCancelledHistory ==
  ASSUME HistoryInv, AbilityIsCancelled
  PROVE  History(stack', events')
<1> DEFINE s == Committed
           due == Top.subStep = "ifYouDoNot"
<1>1. AtStep("resolver", "checkAbility")
  BY DEF AbilityIsCancelled
<1>2. /\ stack' = s \o IF due THEN <<SubAbilityStep(Top.trigger, Top.subStep)>> ELSE <<>>
      /\ events' = events
  BY DEF AbilityIsCancelled
<1>3. Top \in Resolvers /\ events \in [EventIds -> EventRecords]
  BY <1>1, CommittedFits DEF HistoryInv, PipelineInv, Types
<1>4. Top.trigger \in Triggers
  BY <1>3 DEF Resolvers
<1>5. s \in Seq(Frames) /\ History(s, events)
  BY <1>1, CommittedHistory
<1>6. due \in BOOLEAN
  OBVIOUS
<1> HIDE DEF s, due
<1>7. History(stack', events)
  BY <1>2, <1>3, <1>4, <1>5, <1>6, SubStepFollows
<1> QED BY <1>2, <1>7

LEMMA NewWindowSawNothing ==
  ASSUME NEW evs, NEW w, w.triggers = NewTriggerWindow(evs)
  PROVE  NothingSeen(w)
BY DEF NothingSeen, NewTriggerWindow

LEMMA EventWindowOpens ==
  ASSUME NEW s \in Seq(Frames), NEW evs \in [EventIds -> EventRecords], History(s, evs),
         NEW opened \in Seq(EventIds), NEW mode \in Modes, NEW subMode \in Modes,
         NEW subStep \in SubSteps, NEW trigger \in Triggers \cup {<<>>},
         subStep # "none" => trigger \in Triggers,
         Placeable(s, evs, evs, ToSet(opened)),
         subMode = "passes" =>
           s # <<>> /\ s[Len(s)].kind = "window" /\ s[Len(s)].step = "resolveEvents",
         NEW w, w = EventWindow(opened, mode, subMode, subStep, trigger)
  PROVE  History(Append(s, w), evs)
<1>1. /\ w \in Windows /\ w.kind = "window" /\ w.step = "setParentEventWindow"
      /\ w.subMode = subMode /\ w.events = opened
      /\ w.subwindow = <<>> /\ w.queued = <<>> /\ w.resolved = <<>>
      /\ w.triggers = NewTriggerWindow(IF mode = "resolves" THEN ToSet(opened) ELSE {})
  BY EventWindowTyped
<1>2. NothingSeen(w)
  BY <1>1, NewWindowSawNothing
<1> QED BY <1>1, <1>2, WindowOpens

\* What may be put in a place still may when the top of the stack holds no more events.
LEMMA PlaceableStill ==
  ASSUME NEW s \in Seq(Frames), s # <<>>, s[Len(s)].kind = "window",
         NEW evs, NEW fvs, NEW X, Placeable(s, evs, fvs, X),
         NEW g \in Frames, Places(g) \subseteq Places(s[Len(s)]),
         NEW t, t = [s EXCEPT ![Len(s)] = g]
  PROVE  Placeable(t, fvs, fvs, X)
<1>1. Len(t) = Len(s) /\ t[Len(s)] = g /\ \A i \in 1 .. Len(s) : i # Len(s) => t[i] = s[i]
  OBVIOUS
<1>2. ASSUME NEW j \in 1 .. Len(t), WindowAt(t, j), NEW e \in X PROVE e \notin Places(t[j])
  <2>1. CASE j = Len(s)
    <3>1. WindowAt(s, j) /\ j \in 1 .. Len(s)
      BY <1>1, <1>2, <2>1 DEF WindowAt
    <3>2. e \notin Places(s[j])
      BY <3>1 DEF Placeable
    <3> QED BY <1>1, <2>1, <3>2, ZenonT(60)
  <2>2. CASE j # Len(s)
    <3>1. WindowAt(s, j) /\ j \in 1 .. Len(s) /\ t[j] = s[j]
      BY <1>1, <1>2, <2>2 DEF WindowAt
    <3> QED BY <3>1, SMTT(40) DEF Placeable
  <2> QED BY <2>1, <2>2, ZenonT(60)
<1> QED BY <1>2, ZenonT(60) DEF Placeable

LEMMA InitiatedAbilityActsHistory ==
  ASSUME HistoryInv, NEW listeners \in Listening, InitiatedAbilityActs(listeners)
  PROVE  History(stack', events')
<1> DEFINE g == [Top EXCEPT !.initiates = FALSE, !.subStep = "none"]
           u == NextUnused
           one == <<u>>
           w == EventWindow(one, "passes", "resolves", Top.subStep, Top.trigger)
           s == SetTop(g)
<1>1. /\ stack # <<>> /\ Top.kind = "window" /\ Top.step = "resolveEvents" /\ Top.initiates
      /\ Unused # {}
  BY DEF InitiatedAbilityActs, EventsAreResolved, AtStep
<1>2. /\ Top \in Windows /\ stack \in Seq(Frames) /\ events \in [EventIds -> EventRecords]
      /\ n = Len(stack) /\ Top = stack[Len(stack)]
  BY <1>1, TopIsFrame, FramesOfKinds DEF HistoryInv, PipelineInv, Types, n, Top
<1>3. stack' = s \o <<w>>
  BY DEF InitiatedAbilityActs
<1>4. /\ events' \in [EventIds -> EventRecords] /\ EventsGoOn(events, events')
      /\ u \in EventIds /\ Placeable(stack, events, events', {u})
  BY <1>1, <1>2, EventsStay, NextUnusedGoesOn DEF InitiatedAbilityActs
<1>5. /\ g \in Windows /\ g.owner = Top.owner /\ g.triggers = Top.triggers /\ g.step = Top.step
  BY <1>2, InitiatedTyped, ZenonT(60)
<1>6. /\ g.subMode = Top.subMode /\ g.events = Top.events /\ g.resolved = Top.resolved
      /\ g.subwindow = Top.subwindow /\ g.queued = Top.queued
  BY <1>2 DEF Windows, WindowRecords
<1>7. Top.trigger \in Triggers /\ Top.subStep \in SubSteps
  BY <1>1, <1>2 DEF Windows, KnowsItsTrigger, WindowRecords
<1>8. one \in Seq(EventIds) /\ ToSet(one) = {u}
  BY <1>4 DEF ToSet
<1> HIDE DEF g, u, one
<1>9. Own(g) = Own(Top) /\ Emitted(g) /\ Emitted(Top) /\ Places(g) = Places(Top)
  BY <1>1, <1>5, <1>6 DEF Own, Emitted, PreSteps, Places, Sub, Queue
<1>10. History(s, events')
  BY <1>1, <1>4, <1>5, <1>6, <1>9, TopStays
<1>11. s = [stack EXCEPT ![Len(stack)] = g] /\ g \in Frames
  BY <1>5 DEF SetTop, Frames, n
<1>12. s \in Seq(Frames)
  BY <1>1, <1>2, <1>11, TopReplaced
<1>13. Placeable(s, events', events', {u})
  BY <1>1, <1>2, <1>4, <1>9, <1>11, PlaceableStill
<1> HIDE DEF s
<1>14. "passes" \in Modes /\ "resolves" \in Modes
  BY DEF Modes
<1>15. History(Append(s, w), events')
  BY <1>4, <1>7, <1>8, <1>10, <1>12, <1>13, <1>14, EventWindowOpens
<1> HIDE DEF w
<1>16. stack' = Append(s, w)
  BY <1>3, <1>12
<1> QED BY <1>15, <1>16

LEMMA OpenInitiateAbilityEventWindowHistory ==
  ASSUME HistoryInv, OpenInitiateAbilityEventWindow
  PROVE  History(stack', events')
<1> DEFINE s == Committed
           w == InitiateWindow(Top)
<1>1. AtStep("resolver", "checkAbility") /\ stack' = Append(s, w) /\ events' = events
  BY DEF OpenInitiateAbilityEventWindow
<1>2. Top \in Resolvers /\ events \in [EventIds -> EventRecords]
  BY <1>1, CommittedFits DEF HistoryInv, PipelineInv, Types
<1>3. s \in Seq(Frames) /\ History(s, events)
  BY <1>1, CommittedHistory
<1>4. /\ w \in Windows /\ w.kind = "window" /\ w.step = "setParentEventWindow"
      /\ w.subMode = "resolves" /\ w.events = <<>>
      /\ w.subwindow = <<>> /\ w.queued = <<>> /\ w.resolved = <<>>
      /\ w.triggers = NewTriggerWindow({})
  BY <1>2, InitiateWindowTyped
<1> HIDE DEF s, w
<1>5. NothingSeen(w)
  BY <1>4, NewWindowSawNothing
<1>6. Placeable(s, events, events, ToSet(w.events))
  BY <1>4 DEF Placeable, ToSet
<1>7. History(Append(s, w), events)
  BY <1>2, <1>3, <1>4, <1>5, <1>6, WindowOpens
<1> QED BY <1>1, <1>7

LEMMA InitHistory ==
  ASSUME TriggerWindowInit
  PROVE  HistoryInv
<1>1. PipelineInv
  BY InitFits
<1>2. stack = <<>> /\ Len(stack) = 0 /\ \A e \in EventIds : events[e] = UnusedEvent
  BY DEF TriggerWindowInit
<1>3. UnusedEvent.due = {} /\ UnusedEvent.times = [a \in Abilities |-> 0]
  BY DEF UnusedEvent, NewEvent
<1>4. \A e \in EventIds : EventFits(events[e])
  BY <1>2, <1>3 DEF EventFits
<1>5. InPlace(stack) /\ InUse(stack, events) /\ OwnersKnow(stack, events)
      /\ SeenOnce(stack, events) /\ PassesUp(stack)
  BY <1>2 DEF InPlace, InUse, OwnersKnow, SeenOnce, PassesUp
<1> QED BY <1>1, <1>4, <1>5 DEF HistoryInv, History

LEMMA OpenOuterWindowHistory ==
  ASSUME HistoryInv, NEW k \in 1 .. MaxSimultaneous, NEW listeners \in [1 .. k -> Listening],
         OpenOuterWindow(listeners)
  PROVE  History(stack', events')
<1> DEFINE opened == [e \in DOMAIN listeners |-> e]
           w == EventWindow(opened, "resolves", "resolves", "none", <<>>)
           s == <<>>
<1>1. /\ DOMAIN listeners = 1 .. k /\ k \in Nat /\ 1 .. k \subseteq EventIds
  BY BoundsAssumption DEF EventIds
<1>2. opened \in Seq(EventIds) /\ ToSet(opened) = 1 .. k
  BY <1>1 DEF ToSet
<1>3. stack' = <<w>>
  BY DEF OpenOuterWindow
<1>4. /\ \A e \in 1 .. k : events'[e] = NewEvent(listeners[e])
      /\ \A e \in EventIds : e \notin 1 .. k => events'[e] = UnusedEvent
  BY <1>1 DEF OpenOuterWindow
<1>5. events' \in [EventIds -> EventRecords]
  BY OpenOuterWindowKeeps DEF HistoryInv, PipelineInv, Types
<1>6. s \in Seq(Frames) /\ Len(s) = 0
  OBVIOUS
<1> HIDE DEF s
<1>7. History(s, events')
  <2>1. InPlace(s) /\ InUse(s, events') /\ OwnersKnow(s, events')
        /\ SeenOnce(s, events') /\ PassesUp(s)
    BY <1>6 DEF InPlace, InUse, OwnersKnow, SeenOnce, PassesUp
  <2>2. ASSUME NEW e \in EventIds PROVE EventFits(events'[e])
    <3>1. \A l : NewEvent(l).due = {} /\ NewEvent(l).times = [a \in Abilities |-> 0]
      BY DEF NewEvent
    <3>2. UnusedEvent.due = {} /\ UnusedEvent.times = [a \in Abilities |-> 0]
      BY DEF UnusedEvent, NewEvent
    <3>3. events'[e].due = {} /\ events'[e].times = [a \in Abilities |-> 0]
      BY <1>4, <3>1, <3>2
    <3> QED BY <3>3 DEF EventFits
  <2> QED BY <2>1, <2>2 DEF History
<1>8. Placeable(s, events', events', ToSet(opened))
  <2>1. ASSUME NEW e \in 1 .. k PROVE Fresh(events'[e]) /\ events'[e].status # "unused"
    BY <1>4, NewEventIsFresh
  <2> QED BY <1>2, <1>6, <2>1 DEF Placeable
<1> HIDE DEF opened
<1>9. "resolves" \in Modes /\ "none" \in SubSteps /\ "resolves" # "passes"
  BY DEF Modes, SubSteps
<1>10. History(Append(s, w), events')
  BY <1>2, <1>5, <1>6, <1>7, <1>8, <1>9, EventWindowOpens
<1> HIDE DEF w
<1>11. stack' = Append(s, w)
  BY <1>3 DEF s
<1> QED BY <1>10, <1>11

LEMMA QueuedWindowHistory ==
  ASSUME HistoryInv, QueuedWindow
  PROVE  History(stack', events')
<1> DEFINE qs == Top.queued
           q == Head(qs)
           u == q.event
           g == [Top EXCEPT !.queued = Tail(@)]
           one == <<u>>
           w == EventWindow(one, q.modes[1], q.modes[2], "none", <<>>)
           s == SetTop(g)
<1>1. /\ stack # <<>> /\ Top.kind = "window" /\ Top.step = "resolveEvents" /\ qs # <<>>
  BY DEF QueuedWindow, EventsAreResolved, AtStep
<1>2. /\ Top \in Windows /\ stack \in Seq(Frames) /\ events \in [EventIds -> EventRecords]
      /\ n = Len(stack) /\ Top = stack[Len(stack)]
  BY <1>1, TopIsFrame, FramesOfKinds DEF HistoryInv, PipelineInv, Types, n, Top
<1>3. stack' = s \o <<w>> /\ events' = events
  BY DEF QueuedWindow
<1>4. qs \in Seq(QueuedWindows)
  BY <1>2 DEF Windows, WindowRecords
<1>5. q \in QueuedWindows /\ q = qs[1] /\ 1 \in DOMAIN qs
  BY <1>1, <1>4
<1>6. u \in EventIds /\ q.modes[1] \in Modes /\ q.modes[2] \in Modes
  BY <1>5 DEF QueuedWindows, NestedModes, Modes
<1>7. /\ Tail(qs) \in Seq(QueuedWindows)
      /\ \A k \in DOMAIN Tail(qs) : k + 1 \in DOMAIN qs /\ k + 1 # 1 /\ Tail(qs)[k] = qs[k + 1]
  BY <1>1, <1>4
<1>8. /\ g \in Windows /\ g.owner = Top.owner /\ g.triggers = Top.triggers /\ g.step = Top.step
      /\ g.subMode = Top.subMode /\ g.events = Top.events /\ g.resolved = Top.resolved
      /\ g.subwindow = Top.subwindow /\ g.queued = Tail(qs)
  <2> DEFINE rest == Tail(qs)
  <2>1. rest \in Seq(QueuedWindows) /\ g = [Top EXCEPT !.queued = rest]
    BY <1>7
  <2> HIDE DEF rest
  <2>2. /\ g \in Windows /\ g.owner = Top.owner /\ g.triggers = Top.triggers /\ g.step = Top.step
        /\ g.subMode = Top.subMode /\ g.events = Top.events /\ g.resolved = Top.resolved
        /\ g.subwindow = Top.subwindow /\ g.queued = rest
    BY <1>2, <2>1 DEF Windows, WindowRecords, KnowsItsTrigger
  <2> QED BY <2>2 DEF rest
<1>9. one \in Seq(EventIds) /\ ToSet(one) = {u}
  BY <1>6 DEF ToSet
<1>10. Apart(Top) /\ WindowAt(stack, n) /\ n \in 1 .. Len(stack)
  BY <1>1, TopIsApart
<1>11. u \in Queue(Top) /\ Queue(g) \subseteq Queue(Top) /\ u \notin Queue(g) /\ QueuesOnce(g)
  <2>1. \A j, k \in DOMAIN qs : qs[j].event = qs[k].event => j = k
    BY <1>10 DEF Apart, QueuesOnce
  <2>2. u \in Queue(Top)
    BY <1>5 DEF Queue
  <2>3. \A k \in DOMAIN g.queued : k + 1 \in DOMAIN qs /\ k + 1 # 1 /\ g.queued[k] = qs[k + 1]
    BY <1>7, <1>8
  <2>4. DOMAIN g.queued \subseteq Nat
    BY <1>7, <1>8
  <2> HIDE DEF g, q
  <2>5. Queue(g) \subseteq Queue(Top)
    BY <2>3 DEF Queue
  <2>6. u \notin Queue(g)
    BY <1>5, <2>1, <2>3 DEF Queue
  <2>7. QueuesOnce(g)
    BY <2>1, <2>3, <2>4 DEF QueuesOnce
  <2> QED BY <2>2, <2>5, <2>6, <2>7
<1> HIDE DEF g, q, qs
<1>12. /\ Own(g) = Own(Top) /\ Sub(g) = Sub(Top) /\ Emitted(g) /\ Emitted(Top)
  BY <1>1, <1>8 DEF Own, Sub, Emitted, PreSteps
<1>13. /\ Places(g) \subseteq Places(Top) /\ Ahead(g) \subseteq Ahead(Top) /\ u \notin Places(g)
       /\ u \in Ahead(Top) /\ u \in Places(Top)
  BY <1>10, <1>11, <1>12 DEF Places, Ahead, Apart
<1>14. Apart(g)
  BY <1>10, <1>11, <1>12 DEF Apart
<1>15. History(s, events)
  <2>1. Placeable(stack, events, events, {})
    BY DEF Placeable
  <2>2. /\ Places(g) \subseteq Places(Top) \cup {} /\ Ahead(g) \subseteq Ahead(Top) \cup {}
    BY <1>13
  <2> QED BY <1>1, <1>2, <1>8, <1>12, <1>14, <2>1, <2>2, EventsStay, TopGoesOn
<1>16. s = [stack EXCEPT ![Len(stack)] = g] /\ g \in Frames
  BY <1>8 DEF SetTop, Frames, n
<1>17. /\ s \in Seq(Frames) /\ Len(s) = Len(stack) /\ s[Len(stack)] = g /\ s # <<>>
       /\ \A j \in 1 .. Len(stack) - 1 : s[j] = stack[j]
  BY <1>1, <1>2, <1>16, TopReplaced
<1>18. events[u].status # "unused" /\ Fresh(events[u])
  BY <1>2, <1>10, <1>13 DEF HistoryInv, History, InUse
<1>19. Placeable(s, events, events, {u})
  <2> SUFFICES ASSUME NEW j \in 1 .. Len(s), WindowAt(s, j) PROVE u \notin Places(s[j])
    BY <1>18 DEF Placeable
  <2>1. CASE j = Len(stack)
    BY <1>13, <1>17, <2>1
  <2>2. CASE j # Len(stack)
    <3>1. j \in 1 .. Len(stack) - 1 /\ j \in 1 .. Len(stack)
      BY <1>17, <2>2
    <3>2. s[j] = stack[j] /\ WindowAt(stack, j)
      BY <1>17, <3>1 DEF WindowAt
    <3>3. Places(stack[j]) \cap Places(stack[n]) = {}
      BY <1>2, <1>10, <2>2, <3>1, <3>2 DEF HistoryInv, History, InPlace
    <3> QED BY <1>2, <1>13, <3>2, <3>3
  <2> QED BY <2>1, <2>2
<1> HIDE DEF s, one, u
<1>20. "none" \in SubSteps /\ <<>> \in Triggers \cup {<<>>}
  BY DEF SubSteps
<1>21. s[Len(s)].kind = "window" /\ s[Len(s)].step = "resolveEvents"
  BY <1>1, <1>8, <1>17 DEF Windows, WindowRecords
<1>22. History(Append(s, w), events)
  <2> DEFINE mode == q.modes[1]
             subMode == q.modes[2]
             trigger == <<>>
             none == "none"
  <2>1. w = EventWindow(one, mode, subMode, none, trigger)
        /\ mode \in Modes /\ subMode \in Modes /\ none \in SubSteps
        /\ (none # "none" => trigger \in Triggers) /\ trigger \in Triggers \cup {<<>>}
    BY <1>6, <1>20
  <2>2. Placeable(s, events, events, ToSet(one))
    BY <1>9, <1>19
  <2> HIDE DEF mode, subMode, trigger, none, w
  <2> QED BY <1>2, <1>9, <1>15, <1>17, <1>21, <2>1, <2>2, EventWindowOpens
<1> HIDE DEF w
<1>23. stack' = Append(s, w)
  BY <1>3, <1>17
<1> QED BY <1>3, <1>22, <1>23

\* What the top of the stack no longer holds may be put in another place.
LEMMA PlaceableMoved ==
  ASSUME HistoryInv, stack # <<>>, Top.kind = "window", NEW X, X \subseteq Ahead(Top),
         NEW g \in Frames, Places(g) \subseteq Places(Top), X \cap Places(g) = {},
         NEW s, s = SetTop(g)
  PROVE  Placeable(s, events, events, X)
<1>1. /\ WindowAt(stack, n) /\ Top = stack[n] /\ n \in 1 .. Len(stack) /\ n = Len(stack)
      /\ stack \in Seq(Frames) /\ Top \in Windows
  BY TopIsApart, FramesOfKinds, TopIsFrame DEF HistoryInv, PipelineInv, Types
<1>2. X \subseteq Places(Top)
  BY <1>1, PlacesTyped
<1>3. \A e \in X : events[e].status # "unused" /\ Fresh(events[e])
  BY <1>1, <1>2 DEF HistoryInv, History, InUse
<1>4. /\ Len(s) = n /\ s[n] = g
      /\ \A j \in 1 .. n : j # n => s[j] = stack[j]
  BY <1>1 DEF SetTop
<1>5. ASSUME NEW j \in 1 .. Len(s), WindowAt(s, j), NEW e \in X PROVE e \notin Places(s[j])
  <2>1. CASE j = n
    BY <1>4, <2>1
  <2>2. CASE j # n
    <3>1. s[j] = stack[j] /\ WindowAt(stack, j) /\ j \in 1 .. Len(stack)
      BY <1>1, <1>4, <1>5, <2>2 DEF WindowAt
    <3>2. Places(stack[j]) \cap Places(stack[n]) = {}
      BY <1>1, <2>2, <3>1 DEF HistoryInv, History, InPlace
    <3> QED BY <1>1, <1>2, <3>1, <3>2
  <2> QED BY <2>1, <2>2
<1> QED BY <1>3, <1>5 DEF Placeable

\* The window on top leaves its sub-window to another window.
LEMMA SubwindowLeft ==
  ASSUME HistoryInv, stack # <<>>, Top.kind = "window", Top.step = "resolveSubwindowEvents",
         NEW g \in Windows, g.step \in WindowSteps, g.step \notin SubwindowSteps,
         g.triggers = Top.triggers, g.subMode = Top.subMode, g.owner = Top.owner,
         g.events = Top.events, g.resolved = Top.resolved, g.queued = Top.queued
  PROVE  /\ SetTop(g) \in Seq(Frames) /\ History(SetTop(g), events)
         /\ Placeable(SetTop(g), events, events, ToSet(Top.subwindow))
<1>1. /\ stack \in Seq(Frames) /\ events \in [EventIds -> EventRecords]
      /\ n = Len(stack) /\ Apart(Top)
  BY TopIsApart DEF HistoryInv, PipelineInv, Types
<1>2. /\ Emitted(g) /\ Emitted(Top) /\ Own(g) = Own(Top) /\ Sub(g) = {} /\ Queue(g) = Queue(Top)
      /\ Sub(Top) = ToSet(Top.subwindow)
  BY DEF Emitted, PreSteps, SubwindowSteps, Own, Sub, Queue
<1>3. /\ Places(g) \subseteq Places(Top) /\ Ahead(g) \subseteq Ahead(Top)
      /\ ToSet(Top.subwindow) \cap Places(g) = {} /\ ToSet(Top.subwindow) \subseteq Ahead(Top)
  BY <1>1, <1>2 DEF Places, Ahead, Apart
<1>4. Apart(g)
  BY <1>1, <1>2 DEF Apart, QueuesOnce
<1>5. History(SetTop(g), events)
  <2>1. Placeable(stack, events, events, {})
    BY DEF Placeable
  <2>2. /\ Places(g) \subseteq Places(Top) \cup {} /\ Ahead(g) \subseteq Ahead(Top) \cup {}
    BY <1>3
  <2> QED BY <1>1, <1>2, <1>4, <2>1, <2>2, EventsStay, TopGoesOn
<1>6. g \in Frames
  BY DEF Frames
<1>7. SetTop(g) \in Seq(Frames)
  <2>1. SetTop(g) = [stack EXCEPT ![Len(stack)] = g]
    BY <1>1 DEF SetTop
  <2> QED BY <1>1, <1>6, <2>1, TopReplaced
<1>8. Placeable(SetTop(g), events, events, ToSet(Top.subwindow))
  BY <1>3, <1>6, PlaceableMoved
<1> QED BY <1>5, <1>7, <1>8

LEMMA ResolveSubwindowEventsHistory ==
  ASSUME HistoryInv, ResolveSubwindowEvents
  PROVE  History(stack', events')
<1> DEFINE step == AfterSubwindowEvents(Top)
           evs == Top.subwindow
           g == [Top EXCEPT !.step = step]
           h == [Top EXCEPT !.step = step, !.subwindow = <<>>]
           f == EventWindow(evs, "passes", "resolves", "none", <<>>)
<1>1. /\ stack # <<>> /\ Top.kind = "window" /\ Top.step = "resolveSubwindowEvents"
  BY DEF ResolveSubwindowEvents, AtStep
<1>2. /\ Top \in Windows /\ stack \in Seq(Frames) /\ events \in [EventIds -> EventRecords]
      /\ n = Len(stack) /\ Top = stack[n] /\ n \in Nat /\ PipelineInv
  BY <1>1, TopIsFrame, FramesOfKinds DEF HistoryInv, PipelineInv, Types, n, Top
<1>3. step \in WindowSteps /\ step \notin SubwindowSteps
  BY <1>2, StepsAfterEvents DEF AfterSubwindowEvents, AfterSubAbilityStep, SubwindowSteps, PreSteps
<1>4. /\ events' = events
      /\ IF Top.subMode = "passes"
         THEN stack' = [SetTop(h) EXCEPT ![Top.parent].subwindow = @ \o Top.subwindow]
         ELSE stack' = Append(SetTop(g), f)
  BY DEF ResolveSubwindowEvents, Step
<1> HIDE DEF step
<1>5. /\ g \in Windows /\ g.owner = Top.owner /\ g.triggers = Top.triggers /\ g.step = step
      /\ g.subMode = Top.subMode /\ g.events = Top.events /\ g.resolved = Top.resolved
      /\ g.queued = Top.queued
  BY <1>2, <1>3, StepTyped
<1>6. /\ h \in Windows /\ h.owner = Top.owner /\ h.triggers = Top.triggers /\ h.step = step
      /\ h.subMode = Top.subMode /\ h.events = Top.events /\ h.resolved = Top.resolved
      /\ h.queued = Top.queued
  <2>1. <<>> \in Seq(EventIds)
    OBVIOUS
  <2>2. h \in Windows
    BY <2>1, <1>2, <1>3 DEF Windows, WindowRecords, KnowsItsTrigger
  <2> QED BY <2>2, <1>2 DEF Windows, WindowRecords
<1> HIDE DEF g, h
<1>7. evs \in Seq(EventIds)
  BY <1>2 DEF Windows, WindowRecords
<1>8. CASE Top.subMode # "passes"
  <2> DEFINE s == SetTop(g)
  <2>1. s \in Seq(Frames) /\ History(s, events) /\ Placeable(s, events, events, ToSet(evs))
    BY <1>1, <1>3, <1>5, SubwindowLeft
  <2>2. "passes" \in Modes /\ "resolves" \in Modes /\ "none" \in SubSteps
        /\ <<>> \in Triggers \cup {<<>>}
    BY DEF Modes, SubSteps
  <2> DEFINE w == f
             passes == "passes"
             resolves == "resolves"
             none == "none"
             noTrigger == <<>>
  <2>3. w = EventWindow(evs, passes, resolves, none, noTrigger)
    OBVIOUS
  <2>4. resolves # "passes" /\ passes \in Modes /\ resolves \in Modes /\ none \in SubSteps
        /\ (none # "none" => noTrigger \in Triggers) /\ noTrigger \in Triggers \cup {<<>>}
    BY <2>2
  <2>5. stack' = Append(s, w)
    BY <1>4, <1>8
  <2> HIDE DEF s, f, w, passes, resolves, none, noTrigger, evs
  <2>6. History(Append(s, w), events)
    BY <1>2, <1>7, <2>1, <2>3, <2>4, EventWindowOpens
  <2> QED BY <1>4, <2>5, <2>6
<1>9. CASE Top.subMode = "passes"
  <2> DEFINE s == SetTop(h)
             p == n - 1
             all == s[p].subwindow \o evs
             k == [s[p] EXCEPT !.subwindow = all]
  <2>1. s \in Seq(Frames) /\ History(s, events) /\ Placeable(s, events, events, ToSet(evs))
    BY <1>1, <1>3, <1>6, SubwindowLeft
  <2>2. p \in 1 .. n - 1 /\ WindowAt(stack, p) /\ stack[p].step = "resolveEvents"
    <3>1. WindowAt(stack, n) /\ n \in 1 .. Len(stack)
      BY <1>1, TopIsApart
    <3> QED BY <1>2, <1>9, <3>1 DEF HistoryInv, History, PassesUp
  <2>3. Top.parent = p
    <3>1. FitsAt(stack, n) /\ n \in 1 .. Len(stack)
      BY <1>2, <2>2 DEF PipelineInv, StackFits, Fits
    <3>2. BegunFits(stack, n)
      BY <1>1, <1>2, <3>1 DEF FitsAt, WindowFits
    <3>3. BegunAt(stack, p) /\ p \in 1 .. n - 1
      BY <1>2, <2>2 DEF BegunAt, WindowAt
    <3> QED BY <1>2, <3>2, <3>3 DEF BegunFits
  <2>4. Len(s) = n /\ s[p] = stack[p] /\ p \in 1 .. Len(s) /\ WindowAt(s, p)
    <3>1. s = [stack EXCEPT ![Len(stack)] = h]
      BY <1>2 DEF SetTop
    <3>2. Len(s) = Len(stack) /\ \A i \in 1 .. Len(stack) - 1 : s[i] = stack[i]
      BY <1>1, <1>2, <1>6, <3>1, TopReplaced DEF Frames
    <3> QED BY <1>2, <2>2, <3>2 DEF WindowAt
  <2>5. /\ s[p] \in Windows /\ s[p].kind = "window" /\ s[p].step = "resolveEvents"
        /\ s[p].subwindow \in Seq(EventIds) /\ s[p].triggers.unresolved \in [Triggers -> Nat]
    <3>1. s[p] \in Windows /\ s[p].kind = "window" /\ s[p].triggers.unresolved \in [Triggers -> Nat]
      BY <2>1, <2>4, WindowsAreTyped
    <3> QED BY <2>2, <2>4, <3>1 DEF Windows, WindowRecords
  <2>6. stack' = Replaced(s, p, k)
    BY <1>4, <1>9, <2>3 DEF Replaced
  <2> HIDE DEF s, p
  <2>7. all \in Seq(EventIds) /\ ToSet(all) = ToSet(s[p].subwindow) \cup ToSet(evs)
    BY <1>7, <2>5, CombinedElements
  <2> HIDE DEF all, evs
  <2>8. /\ k \in Windows /\ k.kind = "window" /\ k.step = "resolveEvents"
        /\ k.triggers = s[p].triggers
        /\ k.subMode = s[p].subMode /\ k.owner = s[p].owner /\ k.queued = s[p].queued
        /\ k.events = s[p].events /\ k.resolved = s[p].resolved /\ k.subwindow = all
    BY <2>5, <2>7 DEF Windows, WindowRecords, KnowsItsTrigger
  <2> HIDE DEF k
  <2>9. ToSet(evs) \in SUBSET EventIds
    BY <1>7, ToSetOf
  <2>10. /\ Own(k) = Own(s[p]) /\ Queue(k) = Queue(s[p]) /\ Sub(k) = Sub(s[p]) \cup ToSet(evs)
         /\ Emitted(k) /\ Emitted(s[p])
    BY <2>5, <2>7, <2>8 DEF Own, Queue, Sub, Emitted, PreSteps, SubwindowSteps
  <2>11. /\ Places(k) = Places(s[p]) \cup ToSet(evs) /\ Ahead(k) = Ahead(s[p]) \cup ToSet(evs)
    BY <2>10 DEF Places, Ahead
  <2>12. Apart(k)
    <3>1. Apart(s[p])
      BY <2>1, <2>4 DEF History, InPlace
    <3>2. ToSet(evs) \cap Places(s[p]) = {}
      BY <2>1, <2>4 DEF Placeable
    <3>3. QueuesOnce(k)
      BY <2>8, <3>1 DEF Apart, QueuesOnce
    <3> QED BY <2>10, <3>1, <3>2, <3>3 DEF Apart, Places
  <2>13. SameSeen(s[p], k)
    BY <2>5, <2>8 DEF SameSeen
  <2> DEFINE X == ToSet(evs)
  <2> HIDE DEF X
  <2>14. History(Replaced(s, p, k), events)
    <3>1. /\ p < Len(s) => k.step = s[p].step
          /\ X \in SUBSET EventIds /\ Placeable(s, events, events, X)
          /\ Places(k) \subseteq Places(s[p]) \cup X /\ Ahead(k) \subseteq Ahead(s[p]) \cup X
          /\ \/ ~Emitted(k) \/ Own(k) = {}
             \/ Emitted(s[p]) /\ k.owner = s[p].owner /\ Own(k) \subseteq Own(s[p])
      BY <2>1, <2>5, <2>8, <2>9, <2>10, <2>11 DEF X
    <3> QED BY <1>2, <2>1, <2>4, <2>8, <2>12, <2>13, <3>1, EventsStay, WindowGoesOn
  <2> QED BY <1>4, <2>6, <2>14
<1> QED BY <1>8, <1>9

\* The triggers of the window below the trigger window become fewer.
LEMMA RetriggeredHistory ==
  ASSUME HistoryInv, InTriggerWindow, NEW fvs \in [EventIds -> EventRecords],
         EventsGoOn(events, fvs), NEW tw \in TriggerWindows,
         tw.seen = OwnTriggers.seen, tw.missed = OwnTriggers.missed,
         \A t \in Triggers : tw.unresolved[t] <= OwnTriggers.unresolved[t]
  PROVE  /\ SetTriggers(tw) \in Seq(Frames) /\ Len(SetTriggers(tw)) = n /\ n \in Nat \ {0}
         /\ History(SetTriggers(tw), fvs)
<1> DEFINE k == n - 1
           g == Retriggered(stack[k], tw)
<1>1. /\ PipelineInv /\ stack \in Seq(Frames) /\ events \in [EventIds -> EventRecords]
      /\ Len(stack) = n /\ n \in Nat \ {0}
  BY TriggersOnTop DEF HistoryInv, PipelineInv, Types, n
<1>2. k \in 1 .. n /\ stack[k] \in Windows /\ stack[k].kind = "window" /\ WindowAt(stack, k)
  BY <1>1, TriggersOnTop DEF WindowAt
<1>3. SetTriggers(tw) = Replaced(stack, k, g)
  BY DEF SetTriggers, Replaced, Retriggered
<1>4. /\ g \in Windows /\ g.kind = "window" /\ g.step = stack[k].step
      /\ g.owner = stack[k].owner /\ g.triggers = tw
  BY <1>2, RetriggeredWindow
<1>5. /\ g.subMode = stack[k].subMode /\ g.events = stack[k].events
      /\ g.resolved = stack[k].resolved /\ g.subwindow = stack[k].subwindow
      /\ g.queued = stack[k].queued
  BY <1>2 DEF Retriggered, Windows, WindowRecords
<1>6. SameSeen(stack[k], g)
  BY <1>4 DEF SameSeen, OwnTriggers
<1> HIDE DEF g, k
<1>7. /\ Own(g) = Own(stack[k]) /\ Sub(g) = Sub(stack[k]) /\ Queue(g) = Queue(stack[k])
      /\ (Emitted(g) <=> Emitted(stack[k])) /\ (QueuesOnce(g) <=> QueuesOnce(stack[k]))
  BY <1>4, <1>5 DEF Own, Sub, Queue, Emitted, QueuesOnce
<1>8. Places(g) = Places(stack[k]) /\ Ahead(g) = Ahead(stack[k])
  BY <1>7 DEF Places, Ahead
<1>9. Apart(g)
  <2>1. Apart(stack[k])
    BY <1>1, <1>2 DEF HistoryInv, History, InPlace
  <2> QED BY <1>5, <1>7, <2>1 DEF Apart
<1>10. /\ Placeable(stack, events, fvs, {}) /\ {} \in SUBSET EventIds
       /\ Places(g) \subseteq Places(stack[k]) \cup {} /\ Ahead(g) \subseteq Ahead(stack[k]) \cup {}
  BY <1>8 DEF Placeable
<1>11. \/ ~Emitted(g) \/ Own(g) = {}
       \/ Emitted(stack[k]) /\ g.owner = stack[k].owner /\ Own(g) \subseteq Own(stack[k])
  BY <1>4, <1>7
<1>12. k < Len(stack) => g.step = stack[k].step
  BY <1>4
<1>13. History(stack, events)
  BY DEF HistoryInv
<1>14. History(Replaced(stack, k, g), fvs)
  BY <1>1, <1>2, <1>4, <1>5, <1>6, <1>9, <1>10, <1>11, <1>12, <1>13, WindowGoesOn
<1>15. Replaced(stack, k, g) \in Seq(Frames) /\ Len(Replaced(stack, k, g)) = Len(stack)
  <2>1. g \in Frames
    BY <1>4 DEF Frames
  <2> QED BY <1>1, <1>2, <2>1, FrameReplaced DEF Replaced
<1> QED BY <1>1, <1>3, <1>14, <1>15

LEMMA ExcusedGoOn ==
  ASSUME events \in [EventIds -> EventRecords], NEW dropped
  PROVE  EventsGoOn(events, Excuse(events, dropped))
<1> DEFINE more(e) == {a \in Abilities \ legal : <<a, e>> \in dropped}
           fvs == Excuse(events, dropped)
<1>1. ASSUME NEW r \in EventRecords, NEW as
      PROVE  EventKept(r, [r EXCEPT !.excused = @ \cup as])
  BY DEF EventKept, EventRecords
<1>2. \A e \in EventIds : fvs[e] = [events[e] EXCEPT !.excused = @ \cup more(e)]
  BY DEF Excuse
<1>3. \A e \in EventIds : EventKept(events[e], [events[e] EXCEPT !.excused = @ \cup more(e)])
  BY <1>1
<1> HIDE DEF fvs
<1>4. \A e \in EventIds : EventKept(events[e], fvs[e])
  BY <1>2, <1>3
<1> QED BY <1>4 DEF EventsGoOn, fvs

LEMMA StartResolvingHistory ==
  ASSUME HistoryInv, StartResolving
  PROVE  History(stack', events')
<1> DEFINE tw == CleanUpTriggers(OwnTriggers)
           fvs == Excuse(events, Dropped(OwnTriggers, tw))
<1>1. InTriggerWindow /\ OwnTriggers \in TriggerWindows /\ OwnTriggers \in TriggerRecords
  <2>1. InTriggerWindow /\ OwnTriggers \in TriggerWindows
    BY TriggersOnTop DEF StartResolving, HistoryInv
  <2> QED BY <2>1 DEF TriggerWindows
<1>2. /\ fvs \in [EventIds -> EventRecords] /\ EventsGoOn(events, fvs) /\ events' = fvs
  <2>1. events \in [EventIds -> EventRecords] /\ Types
    BY DEF HistoryInv, PipelineInv, Types
  <2> QED BY <2>1, ExcuseTyped, ExcusedGoOn DEF StartResolving
<1>3. /\ tw \in TriggerRecords /\ tw.started = FALSE
      /\ tw.seen = OwnTriggers.seen /\ tw.missed = OwnTriggers.missed
      /\ \A t \in Triggers : tw.unresolved[t] <= OwnTriggers.unresolved[t]
  <2>1. OwnTriggers.started = FALSE
    BY <1>1 DEF StartResolving, TriggerRecords
  <2> HIDE DEF tw
  <2>2. /\ tw \in TriggerRecords /\ tw.started = OwnTriggers.started
        /\ tw.seen = OwnTriggers.seen /\ tw.missed = OwnTriggers.missed
        /\ \A t \in Triggers : tw.unresolved[t] <= OwnTriggers.unresolved[t]
    BY <1>1, CleanUpKeeps DEF tw
  <2> QED BY <2>1, <2>2
<1>4. \/ WithTriggers(tw) = {} /\ stack' = SubSeq(SetTriggers(tw), 1, n - 1)
      \/ /\ WithTriggers(tw) # {}
         /\ \E order \in Orders(tw) :
              stack' = SetTriggers([tw EXCEPT !.started = TRUE, !.order = order])
  BY DEF StartResolving
<1> HIDE DEF tw, fvs
<1>5. CASE stack' = SubSeq(SetTriggers(tw), 1, n - 1)
  <2> DEFINE s == SetTriggers(tw)
  <2>1. tw \in TriggerWindows
    BY <1>3, UnstartedInOrder
  <2>2. s \in Seq(Frames) /\ Len(s) = n /\ n \in Nat \ {0} /\ History(s, fvs)
    BY <1>1, <1>2, <1>3, <2>1, RetriggeredHistory
  <2> HIDE DEF s
  <2>3. s # <<>> /\ stack' = SubSeq(s, 1, Len(s) - 1)
    BY <1>5, <2>2 DEF s
  <2>4. History(SubSeq(s, 1, Len(s) - 1), fvs)
    BY <1>2, <2>2, <2>3, FramePopped
  <2> QED BY <1>2, <2>3, <2>4
<1>6. CASE /\ WithTriggers(tw) # {}
           /\ \E order \in Orders(tw) :
                stack' = SetTriggers([tw EXCEPT !.started = TRUE, !.order = order])
  <2>1. PICK order \in Orders(tw) :
          stack' = SetTriggers([tw EXCEPT !.started = TRUE, !.order = order])
    BY <1>6
  <2> DEFINE new == [tw EXCEPT !.started = TRUE, !.order = order]
  <2>2. stack' = SetTriggers(new) /\ new = [tw EXCEPT !.started = TRUE, !.order = order]
    BY <2>1
  <2> HIDE DEF new
  <2>5. tw \in TriggerRecords /\ WithTriggers(tw) # {} /\ order \in Orders(tw)
    BY <1>3, <1>6
  <2>6. new = [tw EXCEPT !.started = TRUE, !.order = order]
    BY <2>2
  <2>3. /\ new \in TriggerWindows /\ new.seen = tw.seen /\ new.missed = tw.missed
        /\ new.unresolved = tw.unresolved
    <3>1. new \in TriggerWindows
      BY <2>5, <2>6, StartedInOrder
    <3>2. new.seen = tw.seen /\ new.missed = tw.missed /\ new.unresolved = tw.unresolved
      BY <2>5, <2>6 DEF TriggerRecords
    <3> QED BY <3>1, <3>2
  <2>4. History(SetTriggers(new), fvs)
    BY <1>1, <1>2, <1>3, <2>3, RetriggeredHistory
  <2> QED BY <1>2, <2>2, <2>4
<1> QED BY <1>4, <1>5, <1>6

LEMMA ResolveNextTriggerHistory ==
  ASSUME HistoryInv, ResolveNextTrigger
  PROVE  History(stack', events')
<1> DEFINE tw == NextPlayer(OwnTriggers)
           fvs == Excuse(events, Dropped(OwnTriggers, tw))
           s == SetTriggers(tw)
<1>1. InTriggerWindow /\ OwnTriggers \in TriggerWindows /\ SomeonesTurn(OwnTriggers)
  BY TriggersOnTop DEF ResolveNextTrigger, HistoryInv
<1>2. /\ fvs \in [EventIds -> EventRecords] /\ EventsGoOn(events, fvs) /\ events' = fvs
  <2>1. events \in [EventIds -> EventRecords] /\ Types
    BY DEF HistoryInv, PipelineInv, Types
  <2> QED BY <2>1, ExcuseTyped, ExcusedGoOn DEF ResolveNextTrigger
<1>3. /\ tw \in TriggerWindows
      /\ tw.seen = OwnTriggers.seen /\ tw.missed = OwnTriggers.missed
      /\ \A t \in Triggers : tw.unresolved[t] <= OwnTriggers.unresolved[t]
  <2>1. OwnTriggers.started = TRUE
    BY <1>1 DEF TriggerWindows, TriggerRecords, ResolveNextTrigger
  <2>2. OwnTriggers.order # <<>>
    BY <1>1, <2>1 DEF SomeonesTurn
  <2> HIDE DEF tw
  <2> QED BY <1>1, <2>1, <2>2, NextPlayerKeeps DEF tw
<1>4. \/ stack' = SubSeq(s, 1, n - 1)
      \/ \E t \in WaitingOf(tw, Head(tw.order)) :
           stack' = Append(s, AbilityResolver(t, "resolves", "trigger"))
  BY DEF ResolveNextTrigger
<1> HIDE DEF tw, fvs
<1>5. s \in Seq(Frames) /\ Len(s) = n /\ n \in Nat \ {0} /\ History(s, fvs)
  BY <1>1, <1>2, <1>3, RetriggeredHistory
<1> HIDE DEF s
<1>6. CASE stack' = SubSeq(s, 1, n - 1)
  <2>1. s # <<>> /\ stack' = SubSeq(s, 1, Len(s) - 1)
    BY <1>5, <1>6
  <2>2. History(SubSeq(s, 1, Len(s) - 1), fvs)
    BY <1>2, <1>5, <2>1, FramePopped
  <2> QED BY <1>2, <2>1, <2>2
<1>7. ASSUME NEW t \in WaitingOf(tw, Head(tw.order)),
             stack' = Append(s, AbilityResolver(t, "resolves", "trigger"))
      PROVE  History(stack', events')
  <2> DEFINE r == AbilityResolver(t, "resolves", "trigger")
  <2>1. t \in Triggers /\ "resolves" \in Modes /\ "trigger" \in {"trigger", "subStep"}
    BY DEF WaitingOf, Waiting, Modes
  <2>2. r \in Resolvers /\ r.kind = "resolver"
    BY <2>1, AbilityResolverTyped
  <2>3. stack' = Append(s, r)
    BY <1>7
  <2> HIDE DEF r
  <2>4. r \in Frames /\ r.kind # "window"
    BY <2>2 DEF Frames
  <2>5. History(Append(s, r), fvs)
    BY <1>2, <1>5, <2>4, FramePushed, SMTT(40)
  <2> QED BY <1>2, <2>3, <2>5
<1> QED BY <1>4, <1>6, <1>7

\* A trigger of window i is resolved: it has waited there and only there.
LEMMA TriggerHistory ==
  ASSUME NEW s \in Seq(Frames), NEW evs \in [EventIds -> EventRecords], History(s, evs),
         NEW i, WindowAt(s, i), NEW x \in Triggers, s[i].triggers.unresolved[x] > 0,
         NEW g \in Windows, g.kind = "window", g.step = s[i].step, g.subMode = s[i].subMode,
         g.owner = s[i].owner, Own(g) = Own(s[i]), Sub(g) = Sub(s[i]), Queue(g) = Queue(s[i]),
         g.queued = s[i].queued, g.resolved = s[i].resolved,
         g.triggers.seen = s[i].triggers.seen, g.triggers.missed = s[i].triggers.missed,
         g.triggers.unresolved = [s[i].triggers.unresolved EXCEPT ![x] = @ - 1],
         NEW fvs, fvs = [evs EXCEPT ![x[2]].times[x[1]] = IF @ < 2 THEN @ + 1 ELSE @]
  PROVE  History(Replaced(s, i, g), fvs)
<1> DEFINE t == Replaced(s, i, g)
           b == x[1]
           f == x[2]
<1>1. /\ t \in Seq(Frames) /\ Len(t) = Len(s) /\ t[i] = g /\ i \in 1 .. Len(s)
      /\ \A j \in 1 .. Len(s) : j # i => t[j] = s[j]
  BY FrameReplaced DEF Replaced, Frames, WindowAt
<1>2. b \in Abilities /\ f \in EventIds /\ x = <<b, f>>
  BY DEF Triggers
<1>3. /\ s[i].triggers.unresolved \in [Triggers -> Nat] /\ x \in s[i].triggers.seen
      /\ s[i].triggers.unresolved[x] = 1 /\ evs[f].times[b] = 0
      /\ b \in evs[f].due
  BY WindowsAreTyped, <1>1, SMTT(40) DEF History, SeenOnce, SeenBy
<1> HIDE DEF t
<1>4. /\ \A e \in EventIds : /\ fvs[e].due = evs[e].due /\ fvs[e].missed = evs[e].missed
                             /\ fvs[e].listeners = evs[e].listeners
                             /\ fvs[e].status = evs[e].status
      /\ fvs[f].times[b] = 1
      /\ \A e \in EventIds, a \in Abilities : <<a, e>> # x => fvs[e].times[a] = evs[e].times[a]
  <2> DEFINE m == IF evs[f].times[b] < 2 THEN evs[f].times[b] + 1 ELSE evs[f].times[b]
             times == [evs[f].times EXCEPT ![b] = m]
             r == [evs[f] EXCEPT !.times = times]
  <2>1. fvs = [evs EXCEPT ![f] = r]
    OBVIOUS
  <2>2. evs[f] \in EventRecords
    BY <1>2
  <2>3. /\ times[b] = 1 /\ \A a \in Abilities : a # b => times[a] = evs[f].times[a]
    BY <1>2, <1>3, <2>2 DEF EventRecords
  <2> HIDE DEF times
  <2>4. /\ r.due = evs[f].due /\ r.missed = evs[f].missed /\ r.listeners = evs[f].listeners
        /\ r.status = evs[f].status /\ r.times = times
    BY <2>2 DEF EventRecords
  <2> HIDE DEF r
  <2>5. fvs[f] = r /\ \A e \in EventIds : e # f => fvs[e] = evs[e]
    BY <1>2, <2>1
  <2>6. /\ fvs[f].due = evs[f].due /\ fvs[f].missed = evs[f].missed
        /\ fvs[f].listeners = evs[f].listeners /\ fvs[f].status = evs[f].status
        /\ fvs[f].times = times
    BY <2>4, <2>5
  <2> HIDE DEF b, f
  <2>7. ASSUME NEW e \in EventIds
        PROVE  /\ fvs[e].due = evs[e].due /\ fvs[e].missed = evs[e].missed
               /\ fvs[e].listeners = evs[e].listeners /\ fvs[e].status = evs[e].status
    BY <2>5, <2>6
  <2>8. ASSUME NEW e \in EventIds, NEW a \in Abilities, <<a, e>> # x
        PROVE  fvs[e].times[a] = evs[e].times[a]
    <3>1. CASE e = f
      <4>1. a # b
        BY <1>2, <2>8, <3>1
      <4> QED BY <2>3, <2>6, <3>1, <4>1
    <3>2. CASE e # f
      BY <2>5, <3>2
    <3> QED BY <3>1, <3>2
  <2>9. fvs[f].times[b] = 1
    BY <2>3, <2>6
  <2> QED BY <2>7, <2>8, <2>9
<1> HIDE DEF b, f
<1>5. \A j : WindowAt(t, j) <=> WindowAt(s, j)
  BY <1>1 DEF WindowAt
<1>6. ASSUME NEW j, WindowAt(s, j)
      PROVE  /\ Own(t[j]) = Own(s[j]) /\ Places(t[j]) = Places(s[j])
             /\ Ahead(t[j]) = Ahead(s[j]) /\ (Apart(s[j]) => Apart(t[j]))
             /\ (Emitted(t[j]) <=> Emitted(s[j])) /\ t[j].owner = s[j].owner
             /\ t[j].step = s[j].step /\ t[j].subMode = s[j].subMode
             /\ t[j].triggers.seen = s[j].triggers.seen
             /\ t[j].triggers.missed = s[j].triggers.missed
             /\ \A y \in Triggers : t[j].triggers.unresolved[y] =
                  IF y = x /\ j = i THEN 0 ELSE s[j].triggers.unresolved[y]
  <2>1. CASE j = i
    <3>1. Emitted(g) <=> Emitted(s[i])
      BY DEF Emitted
    <3>2. Places(g) = Places(s[i]) /\ Ahead(g) = Ahead(s[i])
      BY <3>1 DEF Places, Ahead
    <3>3. Apart(s[i]) => Apart(g)
      BY <3>1 DEF Apart, QueuesOnce
    <3>4. \A y \in Triggers : g.triggers.unresolved[y] =
            IF y = x THEN 0 ELSE s[i].triggers.unresolved[y]
      BY <1>3
    <3> QED BY <1>1, <2>1, <3>1, <3>2, <3>3, <3>4
  <2>2. CASE j # i
    BY <1>1, <1>6, <2>2 DEF WindowAt
  <2> QED BY <2>1, <2>2
<1>7. InPlace(t)
  BY <1>1, <1>5, <1>6 DEF History, InPlace
<1>8. InUse(t, fvs)
  <2> SUFFICES ASSUME NEW j \in 1 .. Len(t), WindowAt(t, j)
               PROVE  /\ \A e \in Places(t[j]) : fvs[e].status # "unused"
                      /\ \A e \in Ahead(t[j]) : Fresh(fvs[e])
    BY DEF InUse
  <2>1. /\ WindowAt(s, j) /\ Places(t[j]) = Places(s[j]) /\ Ahead(t[j]) = Ahead(s[j])
        /\ Places(s[j]) \subseteq EventIds /\ Ahead(s[j]) \subseteq Places(s[j])
    BY <1>5, <1>6, WindowsAreTyped
  <2>2. /\ \A e \in Places(s[j]) : evs[e].status # "unused"
        /\ \A e \in Ahead(s[j]) : Fresh(evs[e])
    BY <1>1, <2>1 DEF History, InUse
  <2>3. \A e \in Ahead(s[j]) : Fresh(fvs[e])
    <3> SUFFICES ASSUME NEW e \in Ahead(s[j]) PROVE Fresh(fvs[e])
      OBVIOUS
    <3>1. Fresh(evs[e]) /\ e \in EventIds
      BY <2>1, <2>2
    <3>2. e # f
      BY <1>3, <3>1 DEF Fresh
    <3>3. \A a \in Abilities : <<a, e>> # x
      BY <1>2, <3>2
    <3> QED BY <1>4, <3>1, <3>3 DEF Fresh
  <2> QED BY <1>4, <2>1, <2>2, <2>3, ZenonT(60)
<1>9. OwnersKnow(t, fvs)
  <2> SUFFICES ASSUME NEW j \in 1 .. Len(t), WindowAt(t, j), Emitted(t[j]), NEW e \in Own(t[j])
               PROVE  t[j].owner \in 1 .. j /\ HeardIn(t, fvs, t[j].owner, e)
    BY DEF OwnersKnow
  <2> DEFINE o == s[j].owner
  <2>1. WindowAt(s, j) /\ t[j].owner = o /\ e \in Own(s[j]) /\ Emitted(s[j]) /\ e \in EventIds
    <3>1. WindowAt(s, j) /\ t[j].owner = o /\ e \in Own(s[j]) /\ Emitted(s[j])
      BY <1>5, <1>6
    <3> QED BY <3>1, WindowsAreTyped
  <2>2. o \in 1 .. j /\ HeardIn(s, evs, o, e)
    BY <1>1, <2>1 DEF History, OwnersKnow
  <2> HIDE DEF o
  <2>3. /\ WindowAt(s, o) /\ WindowAt(t, o)
        /\ t[o].triggers.seen = s[o].triggers.seen /\ t[o].triggers.missed = s[o].triggers.missed
    BY <1>5, <1>6, <2>2 DEF HeardIn
  <2>4. \A k \in 1 .. Len(t) : WindowAt(t, k) =>
          \A y \in t[k].triggers.seen : y[2] = e => k = o
    BY <1>1, <1>5, <1>6, <2>2 DEF HeardIn
  <2>5. ASSUME NEW a \in Abilities, fvs[e].times[a] > 0 PROVE <<a, e>> \in s[o].triggers.seen
    <3>1. CASE <<a, e>> = x
      <4>1. x[2] = e /\ WindowAt(s, i) /\ i \in 1 .. Len(s)
        BY <1>1, <3>1
      <4>2. i = o
        BY <1>3, <2>2, <4>1, SMTT(40) DEF HeardIn
      <4> QED BY <1>3, <3>1, <4>2
    <3>2. CASE <<a, e>> # x
      BY <1>4, <2>1, <2>2, <2>5, <3>2, SMTT(40) DEF HeardIn
    <3> QED BY <3>1, <3>2
  <2>6. \A a \in fvs[e].missed : <<a, e>> \in t[o].triggers.missed
    BY <1>4, <2>1, <2>2, <2>3, SMTT(40) DEF HeardIn
  <2>7. HeardIn(t, fvs, o, e)
    BY <2>3, <2>4, <2>5, <2>6 DEF HeardIn
  <2> QED BY <2>1, <2>2, <2>7
<1>10. SeenOnce(t, fvs)
  <2>1. ASSUME NEW j \in 1 .. Len(t), WindowAt(t, j) PROVE SeenBy(t[j], fvs)
    <3>1. WindowAt(s, j) /\ SeenBy(s[j], evs) /\ s[j].triggers.seen \in SUBSET Triggers
      BY <1>1, <1>5, <2>1, WindowsAreTyped DEF History, SeenOnce
    <3>2. ASSUME NEW y \in t[j].triggers.seen
          PROVE  y[1] \in fvs[y[2]].due /\ fvs[y[2]].status # "unused"
      <4>1. y \in s[j].triggers.seen /\ y[2] \in EventIds
        BY <1>6, <3>1 DEF Triggers
      <4> QED BY <1>4, <3>1, <4>1 DEF SeenBy
    <3>3. ASSUME NEW y \in Triggers, t[j].triggers.unresolved[y] > 0
          PROVE  y \in t[j].triggers.seen /\ t[j].triggers.unresolved[y] = 1
                 /\ fvs[y[2]].times[y[1]] = 0
      <4>1. ~(y = x /\ j = i) /\ t[j].triggers.unresolved[y] = s[j].triggers.unresolved[y]
        BY <1>6, <3>1, <3>3
      <4>2. y \in s[j].triggers.seen /\ s[j].triggers.unresolved[y] = 1 /\ evs[y[2]].times[y[1]] = 0
        BY <3>1, <3>3, <4>1 DEF SeenBy
      <4>3. y # x
        <5>1. CASE j = i
          BY <4>1, <5>1
        <5>2. CASE j # i
          <6>1. s[j].triggers.seen \cap s[i].triggers.seen = {}
            BY <1>1, <3>1, <5>2 DEF History, SeenOnce
          <6> QED BY <1>3, <4>2, <6>1
        <5> QED BY <5>1, <5>2
      <4>4. y[1] \in Abilities /\ y[2] \in EventIds /\ y = <<y[1], y[2]>>
        BY DEF Triggers
      <4>5. fvs[y[2]].times[y[1]] = evs[y[2]].times[y[1]]
        BY <1>4, <4>3, <4>4
      <4> QED BY <1>6, <3>1, <4>1, <4>2, <4>5
    <3> QED BY <3>2, <3>3 DEF SeenBy
  <2>2. ASSUME NEW j \in 1 .. Len(t), NEW k \in 1 .. Len(t), WindowAt(t, j), WindowAt(t, k), j # k
        PROVE  t[j].triggers.seen \cap t[k].triggers.seen = {}
    BY <1>1, <1>5, <1>6, <2>2 DEF History, SeenOnce
  <2> QED BY <2>1, <2>2 DEF SeenOnce
<1>11. ASSUME NEW e \in EventIds PROVE EventFits(fvs[e])
  <2>1. EventFits(evs[e])
    BY DEF History
  <2>2. ASSUME NEW a \in Abilities
        PROVE  fvs[e].times[a] <= 1 /\ (fvs[e].times[a] > 0 => a \in fvs[e].due)
    <3>1. CASE <<a, e>> = x
      <4>1. a = b /\ e = f
        BY <1>2, <3>1
      <4> QED BY <1>2, <1>3, <1>4, <4>1
    <3>2. CASE <<a, e>> # x
      BY <1>4, <2>1, <3>2 DEF EventFits
    <3> QED BY <3>1, <3>2
  <2> QED BY <1>4, <2>1, <2>2 DEF EventFits
<1>12. PassesUp(t)
  <2> SUFFICES ASSUME NEW j \in 1 .. Len(t), WindowAt(t, j), t[j].subMode = "passes"
               PROVE  j > 1 /\ WindowAt(t, j - 1) /\ t[j - 1].step = "resolveEvents"
    BY DEF PassesUp
  <2>1. WindowAt(s, j) /\ s[j].subMode = "passes"
    BY <1>5, <1>6
  <2>2. j > 1 /\ WindowAt(s, j - 1) /\ s[j - 1].step = "resolveEvents"
    BY <1>1, <2>1 DEF History, PassesUp
  <2>3. WindowAt(t, j - 1) /\ t[j - 1].step = s[j - 1].step
    BY <1>5, <1>6, <2>2
  <2> QED BY <2>2, <2>3
<1> QED BY <1>7, <1>8, <1>9, <1>10, <1>11, <1>12 DEF History, t

LEMMA TriggerIsResolvedHistory ==
  ASSUME HistoryInv, TriggerIsResolved
  PROVE  History(stack', events')
<1> DEFINE s == Pop
           i == n - 2
           x == Top.trigger
           before == stack[i].triggers
           tw == PostResolutionUpdate(before, x)
           g == Retriggered(s[i], tw)
<1>1. /\ PipelineInv /\ AtStep("resolver", "done") /\ Top.role = "trigger" /\ stack # <<>>
  BY DEF TriggerIsResolved, HistoryInv, AtStep
<1>2. stack \in Seq(Frames) /\ events \in [EventIds -> EventRecords] /\ n = Len(stack)
  BY <1>1 DEF PipelineInv, Types, n
<1>3. /\ s \in Seq(Frames) /\ Len(s) = n - 1 /\ \A j \in 1 .. n - 1 : s[j] = stack[j]
  BY <1>1, PoppedResolverFits
<1>4. /\ n \in Nat /\ i \in 1 .. n - 1 /\ x \in Triggers
      /\ stack[i] \in Windows /\ stack[i].kind = "window"
      /\ stack[i].triggers \in TriggerWindows /\ stack[i].triggers.unresolved[x] > 0
  BY <1>1, ResolvedTriggerOnTop
<1>5. History(s, events)
  <2>1. s = SubSeq(stack, 1, Len(stack) - 1)
    BY <1>2 DEF Pop
  <2> QED BY <1>1, <1>2, <2>1, FramePopped DEF HistoryInv
<1>6. CASE ~Top.resolutionCommitted
  BY <1>5, <1>6 DEF TriggerIsResolved
<1>7. CASE Top.resolutionCommitted
  <2>1. /\ stack' = [s EXCEPT ![i].triggers = tw]
        /\ events' = [events EXCEPT ![x[2]].times[x[1]] = IF @ < 2 THEN @ + 1 ELSE @]
    BY <1>7 DEF TriggerIsResolved
  <2>2. stack' = Replaced(s, i, g)
    BY <2>1 DEF Replaced, Retriggered
  <2>10. before \in TriggerWindows /\ x \in Triggers /\ before.unresolved[x] > 0
    BY <1>4
  <2> HIDE DEF s, i, x, before
  <2>3. /\ tw \in TriggerWindows /\ tw.seen = before.seen /\ tw.missed = before.missed
        /\ tw.unresolved = [before.unresolved EXCEPT ![x] = @ - 1]
    BY <2>10, PostResolutionUpdateTyped
  <2> HIDE DEF tw
  <2>4. s[i] = stack[i] /\ i \in 1 .. Len(s) /\ WindowAt(s, i) /\ s[i] \in Windows
    BY <1>3, <1>4 DEF WindowAt
  <2>5. /\ g \in Windows /\ g.kind = "window" /\ g.step = s[i].step
        /\ g.owner = s[i].owner /\ g.triggers = tw
    BY <2>3, <2>4, RetriggeredWindow
  <2>6. /\ g.subMode = s[i].subMode /\ g.events = s[i].events
        /\ g.resolved = s[i].resolved /\ g.subwindow = s[i].subwindow
        /\ g.queued = s[i].queued
    BY <2>4 DEF Retriggered, Windows, WindowRecords
  <2> HIDE DEF g
  <2>7. Own(g) = Own(s[i]) /\ Sub(g) = Sub(s[i]) /\ Queue(g) = Queue(s[i])
    BY <2>5, <2>6 DEF Own, Sub, Queue
  <2>8. /\ s[i].triggers.unresolved[x] > 0
        /\ g.triggers.seen = s[i].triggers.seen /\ g.triggers.missed = s[i].triggers.missed
        /\ g.triggers.unresolved = [s[i].triggers.unresolved EXCEPT ![x] = @ - 1]
    BY <2>3, <2>4, <2>5, <2>10 DEF before
  <2> DEFINE fvs == events'
  <2>11. fvs = [events EXCEPT ![x[2]].times[x[1]] = IF @ < 2 THEN @ + 1 ELSE @]
    BY <2>1
  <2> HIDE DEF fvs
  <2>12. s \in Seq(Frames) /\ x \in Triggers
    BY <1>3, <2>10, SMTT(40)
  <2>9. History(Replaced(s, i, g), fvs)
    BY <1>2, <1>5, <2>4, <2>5, <2>6, <2>7, <2>8, <2>11, <2>12, TriggerHistory
  <2> QED BY <2>2, <2>9 DEF fvs
<1> QED BY <1>6, <1>7

-----------------------------------------------------------------------------
(* Emissions *)

\* A frame that differs only in its step and in its triggers.
SameEvents(f, g) ==
  /\ g.kind = f.kind /\ g.subMode = f.subMode /\ g.owner = f.owner
  /\ g.events = f.events /\ g.resolved = f.resolved /\ g.subwindow = f.subwindow
  /\ g.queued = f.queued /\ g.mode = f.mode /\ g.opened = f.opened
  /\ g.initiates = f.initiates

LEMMA RetriggeredSameEvents ==
  ASSUME NEW f \in Windows, NEW tw \in TriggerWindows
  PROVE  SameEvents(f, Retriggered(f, tw)) /\ Retriggered(f, tw).step = f.step
         /\ Retriggered(f, tw).triggers = tw /\ Retriggered(f, tw) \in Windows
BY RetriggeredWindow DEF Retriggered, SameEvents, Windows, WindowRecords

\* The stack t after an emission of the window on top: its step is then step, and the window
\* at o has the triggers tw.
EmittedStack(t, step, o, tw) ==
  /\ Len(t) = n /\ n \in 1 .. n /\ n = Len(stack)
  /\ \A i \in 1 .. n : t[i].kind = stack[i].kind
  /\ \A i \in 1 .. n : stack[i].kind = "window" =>
       /\ SameEvents(stack[i], t[i])
       /\ t[i].step = IF i = n THEN step ELSE stack[i].step
       /\ t[i].triggers = IF i = o THEN tw ELSE stack[i].triggers

LEMMA EmittedFrames ==
  ASSUME PipelineInv, stack # <<>>, Top.kind = "window", NEW step \in WindowSteps,
         NEW o \in 1 .. n, stack[o] \in Windows, NEW tw \in TriggerWindows,
         NEW t, t = [Step(step) EXCEPT ![o].triggers = tw]
  PROVE  EmittedStack(t, step, o, tw)
<1> DEFINE g == [Top EXCEPT !.step = step]
           s == SetTop(g)
           h == Retriggered(s[o], tw)
<1>1. /\ n \in 1 .. n /\ n \in Nat /\ Len(stack) = n /\ stack \in Seq(Frames) /\ Top = stack[n]
      /\ Top \in Windows
  BY TopIsFrame, FramesOfKinds DEF PipelineInv, StackFits, n, Top
<1>2. /\ g \in Windows /\ g.step = step /\ SameEvents(Top, g) /\ g.triggers = Top.triggers
  <2>1. /\ g \in Windows /\ g.kind = "window" /\ g.owner = Top.owner /\ g.step = step
        /\ g.triggers = Top.triggers
        /\ g.subMode = Top.subMode /\ g.events = Top.events
        /\ g.resolved = Top.resolved /\ g.subwindow = Top.subwindow /\ g.queued = Top.queued
        /\ g.mode = Top.mode /\ g.opened = Top.opened /\ g.initiates = Top.initiates
    BY <1>1, StepTyped
  <2> QED BY <2>1 DEF SameEvents
<1>3. t = [s EXCEPT ![o].triggers = tw]
  BY DEF Step
<1> HIDE DEF g
<1>4. s \in Seq(Frames) /\ Len(s) = n /\ s[n] = g /\ \A i \in 1 .. n - 1 : s[i] = stack[i]
  BY <1>1, <1>2, TopReplaced DEF SetTop, Frames
<1>5. t = [s EXCEPT ![o] = h]
  BY <1>3 DEF Retriggered
<1> HIDE DEF s
<1>6. s[o] \in Windows
  <2>1. CASE o = n
    BY <1>2, <1>4, <2>1
  <2>2. CASE o # n
    BY <1>1, <1>4, <2>2
  <2> QED BY <2>1, <2>2
<1>7. h \in Windows /\ SameEvents(s[o], h) /\ h.step = s[o].step /\ h.triggers = tw
  BY <1>6, RetriggeredSameEvents
<1> HIDE DEF h
<1>8. Len(t) = n /\ t[o] = h /\ \A i \in 1 .. n : i # o => t[i] = s[i]
  BY <1>4, <1>5
<1>9. ASSUME NEW i \in 1 .. n
      PROVE  /\ s[i].kind = stack[i].kind
             /\ stack[i].kind = "window" =>
                  /\ SameEvents(stack[i], s[i]) /\ s[i].triggers = stack[i].triggers
                  /\ s[i].step = IF i = n THEN step ELSE stack[i].step
  <2>1. CASE i = n
    BY <1>1, <1>2, <1>4, <2>1 DEF SameEvents
  <2>2. CASE i # n
    <3>1. s[i] = stack[i]
      BY <1>1, <1>4, <2>2
    <3> QED BY <2>2, <3>1 DEF SameEvents
  <2> QED BY <2>1, <2>2
<1>10. ASSUME NEW i \in 1 .. n
       PROVE  /\ t[i].kind = stack[i].kind
              /\ stack[i].kind = "window" =>
                   /\ SameEvents(stack[i], t[i])
                   /\ t[i].step = IF i = n THEN step ELSE stack[i].step
                   /\ t[i].triggers = IF i = o THEN tw ELSE stack[i].triggers
  <2>1. CASE i = o
    <3>1. t[i] = h /\ SameEvents(s[i], h) /\ h.step = s[i].step /\ h.triggers = tw
      BY <1>7, <1>8, <2>1
    <3>2. h.kind = s[i].kind
      BY <3>1 DEF SameEvents
    <3>3. SameEvents(stack[i], s[i]) => SameEvents(stack[i], h)
      BY <3>1 DEF SameEvents
    <3> QED BY <1>9, <2>1, <3>1, <3>2, <3>3
  <2>2. CASE i # o
    BY <1>8, <1>9, <2>2
  <2> QED BY <2>1, <2>2
<1> QED BY <1>1, <1>8, <1>10 DEF EmittedStack

\* An event is emitted to those who listen to it, unless nothing comes of it.
HeardAs(fvs, evs, first, e) ==
  /\ fvs[e].times = events[e].times /\ fvs[e].status = events[e].status
  /\ fvs[e].excused = events[e].excused
  /\ fvs[e].listeners = events[e].listeners
  /\ ~(e \in ToSet(evs) /\ events[e].status \in {"created", "resolved"}) => fvs[e] = events[e]
  /\ e \in ToSet(evs) /\ events[e].status \in {"created", "resolved"} =>
       /\ fvs[e].missed = IF first THEN {a \in events[e].listeners : presence[a] = "blanked"}
                          ELSE events[e].missed
       /\ fvs[e].due = events[e].due \cup
            ({a \in events[e].listeners : presence[a] = "on"} \ fvs[e].missed)

LEMMA HeardEvents ==
  ASSUME events \in [EventIds -> EventRecords], NEW evs, NEW first \in BOOLEAN
  PROVE  \A e \in EventIds : HeardAs(Heard(evs, first), evs, first, e)
<1> DEFINE fvs == Heard(evs, first)
<1> SUFFICES ASSUME NEW e \in EventIds
             PROVE  HeardAs(fvs, evs, first, e)
  OBVIOUS
<1> DEFINE emitted == e \in ToSet(evs) /\ events[e].status \in {"created", "resolved"}
           on == {a \in events[e].listeners : presence[a] = "on"}
           blanked == {a \in events[e].listeners : presence[a] = "blanked"}
           missed == IF first THEN blanked ELSE events[e].missed
           due == events[e].due \cup (on \ missed)
           r == [events[e] EXCEPT !.missed = missed, !.due = due]
<1>1. events[e] \in EventRecords
  OBVIOUS
<1>2. /\ emitted => fvs[e] = r
      /\ ~emitted => fvs[e] = events[e]
  BY DEF Heard
<1> HIDE DEF fvs, on, missed, due
<1>3. /\ r.times = events[e].times /\ r.status = events[e].status
      /\ r.listeners = events[e].listeners /\ r.missed = missed /\ r.due = due
      /\ r.excused = events[e].excused
  BY <1>1 DEF EventRecords
<1> HIDE DEF r
<1>4. CASE emitted
  BY <1>2, <1>3, <1>4 DEF HeardAs, on, missed, due
<1>5. CASE ~emitted
  BY <1>2, <1>5 DEF HeardAs
<1> QED BY <1>4, <1>5

\* What an emission of evs may add to the triggers of tw.
MayTrigger(tw, evs) ==
  {x \in Triggers : /\ x[2] \in ToSet(evs) /\ events[x[2]].status \in {"created", "resolved"}
                    /\ x[1] \in events[x[2]].listeners /\ presence[x[1]] = "on"
                    /\ x \notin tw.missed /\ x \notin tw.seen}

\* tw is old with the triggers of an emission.
CollectedFrom(old, evs, added, tw) ==
  /\ added \subseteq MayTrigger(old, evs)
  /\ tw.seen = old.seen \cup added
  /\ tw.missed = old.missed \cup MissedBy(old, evs)
  /\ \A x \in Triggers :
       tw.unresolved[x] = IF x \in added THEN old.unresolved[x] + 1 ELSE old.unresolved[x]

\* Windows keep the places of their events when triggers are collected, and the window on
\* top may have emitted its events.
LEMMA EmittedPlaces ==
  ASSUME HistoryInv, stack # <<>>, Top.kind = "window",
         NEW step \in WindowSteps, step \notin PreSteps,
         step \in SubwindowSteps => Top.step \in SubwindowSteps,
         NEW t \in Seq(Frames), NEW o, NEW tw, EmittedStack(t, step, o, tw)
  PROVE  /\ \A i : WindowAt(t, i) <=> WindowAt(stack, i)
         /\ \A i : WindowAt(stack, i) =>
              /\ Own(t[i]) = Own(stack[i]) /\ Places(t[i]) \subseteq Places(stack[i])
              /\ Ahead(t[i]) \subseteq Ahead(stack[i])
              /\ Ahead(t[i]) \cap Own(Top) = {}
              /\ (i # n => Places(stack[i]) \cap Own(Top) = {})
              /\ Apart(t[i]) /\ t[i].owner = stack[i].owner /\ t[i].subMode = stack[i].subMode
              /\ (i # n => (Emitted(t[i]) <=> Emitted(stack[i])))
<1>1. /\ n = Len(stack) /\ stack \in Seq(Frames) /\ Top = stack[n] /\ WindowAt(stack, n)
      /\ n \in 1 .. n
  BY TopIsApart DEF HistoryInv, PipelineInv, Types
<1>2. /\ Len(t) = n
      /\ \A i \in 1 .. n : t[i].kind = stack[i].kind
      /\ \A i \in 1 .. n : stack[i].kind = "window" =>
           /\ SameEvents(stack[i], t[i])
           /\ t[i].step = IF i = n THEN step ELSE stack[i].step
  BY DEF EmittedStack
<1>5. \A i : WindowAt(t, i) <=> WindowAt(stack, i)
  BY <1>1, <1>2 DEF WindowAt
<1>3. ASSUME NEW i, WindowAt(stack, i)
      PROVE  /\ Own(t[i]) = Own(stack[i]) /\ Queue(t[i]) = Queue(stack[i])
             /\ Sub(t[i]) \subseteq Sub(stack[i])
             /\ Emitted(stack[i]) => Emitted(t[i])
             /\ i # n => (Emitted(t[i]) <=> Emitted(stack[i]))
             /\ i = n => Emitted(t[i])
             /\ t[i].owner = stack[i].owner /\ t[i].subMode = stack[i].subMode
             /\ QueuesOnce(stack[i]) => QueuesOnce(t[i])
             /\ t[i].resolved = stack[i].resolved
  <2>1. i \in 1 .. n /\ SameEvents(stack[i], t[i])
        /\ t[i].step = IF i = n THEN step ELSE stack[i].step
    BY <1>1, <1>2, <1>3 DEF WindowAt
  <2>2. /\ Own(t[i]) = Own(stack[i]) /\ Queue(t[i]) = Queue(stack[i])
        /\ t[i].owner = stack[i].owner /\ t[i].subMode = stack[i].subMode
        /\ QueuesOnce(stack[i]) => QueuesOnce(t[i])
        /\ t[i].subwindow = stack[i].subwindow /\ t[i].resolved = stack[i].resolved
    BY <2>1 DEF SameEvents, Own, Queue, QueuesOnce
  <2>3. CASE i = n
    <3>1. t[i].step = step /\ Emitted(t[i]) /\ stack[i] = Top
      BY <1>1, <2>1, <2>3 DEF Emitted
    <3>2. Sub(t[i]) \subseteq Sub(stack[i])
      BY <2>2, <3>1 DEF Sub
    <3> QED BY <2>2, <2>3, <3>1, <3>2
  <2>4. CASE i # n
    <3>1. t[i].step = stack[i].step
      BY <2>1, <2>4
    <3>2. Sub(t[i]) = Sub(stack[i]) /\ (Emitted(t[i]) <=> Emitted(stack[i]))
      BY <2>2, <3>1 DEF Sub, Emitted
    <3> QED BY <2>2, <2>4, <3>2
  <2> QED BY <2>3, <2>4
<1>4. ASSUME NEW i, WindowAt(stack, i)
      PROVE  /\ Places(t[i]) \subseteq Places(stack[i]) /\ Ahead(t[i]) \subseteq Ahead(stack[i])
             /\ i # n => Places(stack[i]) \cap Own(Top) = {}
             /\ Ahead(t[i]) \cap Own(Top) = {} /\ Apart(t[i])
  <2>1. Apart(stack[i]) /\ i \in 1 .. Len(stack)
    BY <1>4 DEF HistoryInv, History, InPlace, WindowAt
  <2>2. Places(t[i]) \subseteq Places(stack[i]) /\ Ahead(t[i]) \subseteq Ahead(stack[i])
    BY <1>3, <1>4 DEF Places, Ahead
  <2>3. i # n => Places(stack[i]) \cap Own(Top) = {}
    <3>1. i # n => Places(stack[i]) \cap Places(stack[n]) = {}
      BY <1>1, <1>4, <2>1 DEF HistoryInv, History, InPlace
    <3> QED BY <1>1, <3>1 DEF Places
  <2>4. Ahead(t[i]) \cap Own(Top) = {}
    <3>1. CASE i = n
      <4>1. Ahead(t[i]) = Sub(t[i]) \cup Queue(t[i])
        BY <1>3, <1>4, <3>1 DEF Ahead
      <4>2. Ahead(t[i]) \subseteq Sub(stack[i]) \cup Queue(stack[i])
        BY <1>3, <1>4, <4>1
      <4> QED BY <1>1, <2>1, <3>1, <4>2 DEF Apart
    <3>2. CASE i # n
      <4>1. Ahead(stack[i]) \subseteq Places(stack[i])
        BY <1>1, <1>4, WindowsAreTyped
      <4> QED BY <2>2, <2>3, <3>2, <4>1
    <3> QED BY <3>1, <3>2
  <2>5. Apart(t[i])
    BY <1>3, <1>4, <2>1 DEF Apart
  <2> QED BY <2>2, <2>3, <2>4, <2>5
<1> QED BY <1>3, <1>4, <1>5

\* What is known of the events the window on top emits, before it does.
LEMMA KnownOfOwn ==
  ASSUME HistoryInv, stack # <<>>, Top.kind = "window", Top.step # "setParentEventWindow",
         NEW e \in Own(Top)
  PROVE  /\ e \in EventIds /\ events[e].status # "unused"
         /\ ~Emitted(Top) => Fresh(events[e])
         /\ Emitted(Top) => HeardIn(stack, events, Top.owner, e)
<1>1. /\ n = Len(stack) /\ stack \in Seq(Frames) /\ Top = stack[n] /\ WindowAt(stack, n)
      /\ n \in 1 .. Len(stack)
  BY TopIsApart DEF HistoryInv, PipelineInv, Types
<1>2. e \in Places(Top) /\ e \in EventIds
  BY <1>1, WindowsAreTyped
<1>3. events[e].status # "unused"
  BY <1>1, <1>2 DEF HistoryInv, History, InUse
<1>4. ~Emitted(Top) => Fresh(events[e])
  BY <1>1 DEF HistoryInv, History, InUse, Ahead
<1>5. Emitted(Top) => HeardIn(stack, events, Top.owner, e)
  BY <1>1 DEF HistoryInv, History, OwnersKnow
<1> QED BY <1>2, <1>3, <1>4, <1>5

\* A trigger an emission may add has not been seen by any window, and its event has not
\* been missed.
LEMMA AddedIsNew ==
  ASSUME HistoryInv, stack # <<>>, Top.kind = "window", Top.step # "setParentEventWindow",
         NEW evs, ToSet(evs) \subseteq Own(Top), NEW x \in MayTrigger(TriggersOf(Top), evs)
  PROVE  /\ x \in Triggers /\ x[1] \in Abilities /\ x[2] \in EventIds /\ x[2] \in ToSet(evs)
         /\ x = <<x[1], x[2]>>
         /\ \A j : WindowAt(stack, j) => x \notin stack[j].triggers.seen
         /\ events[x[2]].times[x[1]] = 0
         /\ x[1] \notin events[x[2]].missed
<1>1. /\ x \in Triggers /\ x[1] \in Abilities /\ x[2] \in EventIds /\ x = <<x[1], x[2]>>
      /\ x[2] \in ToSet(evs) /\ x[2] \in Own(Top)
      /\ x \notin TriggersOf(Top).missed /\ x \notin TriggersOf(Top).seen
  BY DEF MayTrigger, Triggers
<1>2. CASE ~Emitted(Top)
  <2>1. Fresh(events[x[2]])
    BY <1>1, <1>2, KnownOfOwn
  <2>2. ASSUME NEW j, WindowAt(stack, j), x \in stack[j].triggers.seen PROVE FALSE
    <3>1. SeenBy(stack[j], events)
      BY <2>2 DEF HistoryInv, History, SeenOnce, WindowAt
    <3> QED BY <2>1, <2>2, <3>1 DEF SeenBy, Fresh
  <2> QED BY <1>1, <2>1, <2>2 DEF Fresh
<1>3. CASE Emitted(Top)
  <2> DEFINE o == Top.owner
  <2>1. HeardIn(stack, events, o, x[2]) /\ TriggersOf(Top) = stack[o].triggers
    BY <1>1, <1>3, KnownOfOwn DEF TriggersOf
  <2> HIDE DEF o
  <2>2. ASSUME NEW j, WindowAt(stack, j), x \in stack[j].triggers.seen PROVE FALSE
    <3>1. j \in 1 .. Len(stack)
      BY <2>2 DEF WindowAt
    <3>2. j = o
      BY <2>1, <2>2, <3>1 DEF HeardIn
    <3> QED BY <1>1, <2>1, <2>2, <3>2
  <2>3. events[x[2]].times[x[1]] = 0
    <3>1. events[x[2]].times[x[1]] \in Nat
      <4>1. events[x[2]] \in EventRecords
        BY <1>1 DEF HistoryInv, PipelineInv, Types
      <4> QED BY <1>1, <4>1 DEF EventRecords
    <3>2. ~(events[x[2]].times[x[1]] > 0)
      BY <1>1, <2>1 DEF HeardIn
    <3> QED BY <3>1, <3>2
  <2>4. x[1] \notin events[x[2]].missed
    BY <1>1, <2>1 DEF HeardIn
  <2> QED BY <1>1, <2>2, <2>3, <2>4
<1> QED BY <1>2, <1>3

\* The window on top emits events of its own, for the first or the second time.
LEMMA EmissionHistory ==
  ASSUME HistoryInv, stack # <<>>, Top.kind = "window",
         Top.step \notin {"setParentEventWindow", "cleanup"},
         NEW step \in WindowSteps, step \notin PreSteps,
         step \in SubwindowSteps => Top.step \in SubwindowSteps,
         NEW evs, ToSet(evs) \subseteq Own(Top),
         NEW first \in BOOLEAN, ~Emitted(Top) => first /\ Own(Top) = ToSet(evs),
         Emitted(Top) => ~first,
         NEW tw \in TriggerWindows, NEW added, CollectedFrom(TriggersOf(Top), evs, added, tw),
         NEW t \in Seq(Frames), EmittedStack(t, step, Top.owner, tw),
         NEW fvs, \A e \in EventIds : HeardAs(fvs, evs, first, e)
  PROVE  History(t, fvs)
<1> DEFINE o == Top.owner
           s == stack
<1>1. /\ PipelineInv /\ s \in Seq(Frames) /\ events \in [EventIds -> EventRecords]
      /\ Top \in Windows /\ o \in 1 .. n /\ s[o] \in Windows /\ TriggersOf(Top) = s[o].triggers
      /\ WindowAt(s, n) /\ n = Len(s) /\ Top = s[n]
  <2>1. PipelineInv /\ s \in Seq(Frames) /\ events \in [EventIds -> EventRecords]
    BY DEF HistoryInv, PipelineInv, Types
  <2>2. Top \in Windows /\ o \in 1 .. n /\ s[o] \in Windows
    BY <2>1, TopWindowIsCurrent
  <2> QED BY <2>1, <2>2, TopIsApart DEF TriggersOf
<1>2. WindowAt(s, o)
  BY <1>1 DEF WindowAt, Windows, WindowRecords
<1>3. /\ Len(t) = n /\ n \in 1 .. n
      /\ \A i \in 1 .. n : t[i].kind = s[i].kind
      /\ \A i \in 1 .. n : s[i].kind = "window" =>
           /\ SameEvents(s[i], t[i])
           /\ t[i].step = IF i = n THEN step ELSE s[i].step
           /\ t[i].triggers = IF i = o THEN tw ELSE s[i].triggers
  BY <1>1 DEF EmittedStack
<1>4. /\ \A i : WindowAt(t, i) <=> WindowAt(s, i)
      /\ \A i : WindowAt(s, i) =>
           /\ Own(t[i]) = Own(s[i]) /\ Places(t[i]) \subseteq Places(s[i])
           /\ Ahead(t[i]) \subseteq Ahead(s[i])
           /\ Ahead(t[i]) \cap Own(Top) = {}
           /\ (i # n => Places(s[i]) \cap Own(Top) = {})
           /\ Apart(t[i]) /\ t[i].owner = s[i].owner /\ t[i].subMode = s[i].subMode
           /\ (i # n => (Emitted(t[i]) <=> Emitted(s[i])))
  <2> HIDE DEF o
  <2>1. EmittedStack(t, step, o, tw)
    BY DEF o
  <2> QED BY <2>1, EmittedPlaces
<1>5. \A x \in added : /\ x \in Triggers /\ x[1] \in Abilities /\ x[2] \in EventIds
                       /\ x[2] \in ToSet(evs) /\ x = <<x[1], x[2]>>
                       /\ \A j : WindowAt(s, j) => x \notin s[j].triggers.seen
                       /\ events[x[2]].times[x[1]] = 0
                       /\ x[1] \notin events[x[2]].missed
                       /\ x \in MayTrigger(TriggersOf(Top), evs)
  <2>1. added \subseteq MayTrigger(TriggersOf(Top), evs)
    BY DEF CollectedFrom
  <2> QED BY <2>1, AddedIsNew
<1>6. \A e \in EventIds :
        /\ fvs[e].times = events[e].times /\ fvs[e].status = events[e].status
        /\ fvs[e].listeners = events[e].listeners
        /\ e \notin ToSet(evs) => fvs[e] = events[e]
        /\ events[e].due \subseteq fvs[e].due
        /\ EventFits(events[e]) => EventFits(fvs[e])
        /\ Emitted(Top) => fvs[e].missed = events[e].missed
        /\ e \in ToSet(evs) => \A a \in fvs[e].missed :
             a \in events[e].missed \/ <<a, e>> \in MissedBy(TriggersOf(Top), evs)
  <2> SUFFICES ASSUME NEW e \in EventIds
               PROVE  /\ fvs[e].times = events[e].times /\ fvs[e].status = events[e].status
                      /\ fvs[e].listeners = events[e].listeners
                      /\ e \notin ToSet(evs) => fvs[e] = events[e]
                      /\ events[e].due \subseteq fvs[e].due
                      /\ EventFits(events[e]) => EventFits(fvs[e])
                      /\ Emitted(Top) => fvs[e].missed = events[e].missed
                      /\ e \in ToSet(evs) => \A a \in fvs[e].missed :
                           a \in events[e].missed \/ <<a, e>> \in MissedBy(TriggersOf(Top), evs)
    OBVIOUS
  <2>1. /\ fvs[e].times = events[e].times /\ fvs[e].status = events[e].status
        /\ fvs[e].listeners = events[e].listeners
        /\ \/ fvs[e] = events[e]
           \/ /\ e \in ToSet(evs) /\ events[e].status \in {"created", "resolved"}
              /\ fvs[e].missed = IF first THEN {a \in events[e].listeners : presence[a] = "blanked"}
                                 ELSE events[e].missed
              /\ fvs[e].due = events[e].due \cup
                   ({a \in events[e].listeners : presence[a] = "on"} \ fvs[e].missed)
    BY DEF HeardAs
  <2>2. CASE fvs[e] = events[e]
    BY <2>2
  <2>3. CASE /\ e \in ToSet(evs) /\ events[e].status \in {"created", "resolved"}
             /\ fvs[e].missed = IF first THEN {a \in events[e].listeners : presence[a] = "blanked"}
                                ELSE events[e].missed
             /\ fvs[e].due = events[e].due \cup
                  ({a \in events[e].listeners : presence[a] = "on"} \ fvs[e].missed)
    <3>1. EventFits(events[e]) => EventFits(fvs[e])
      BY <2>1, <2>3 DEF EventFits
    <3>2. events[e].listeners \subseteq Abilities
      BY <1>1 DEF EventRecords
    <3>3. ASSUME NEW a \in fvs[e].missed
          PROVE  a \in events[e].missed \/ <<a, e>> \in MissedBy(TriggersOf(Top), evs)
      <4>1. CASE first
        <5>1. a \in events[e].listeners /\ presence[a] = "blanked"
          BY <2>3, <3>3, <4>1
        <5>2. <<a, e>> \in Triggers
          BY <3>2, <5>1 DEF Triggers
        <5> QED BY <2>3, <5>1, <5>2 DEF MissedBy
      <4>2. CASE ~first
        BY <2>3, <3>3, <4>2
      <4> QED BY <4>1, <4>2
    <3>4. Emitted(Top) => fvs[e].missed = events[e].missed
      BY <2>3
    <3> QED BY <2>1, <2>3, <3>1, <3>3, <3>4
  <2> QED BY <2>1, <2>2, <2>3
<1>7. /\ tw.seen = s[o].triggers.seen \cup added
      /\ tw.missed = s[o].triggers.missed \cup MissedBy(TriggersOf(Top), evs)
      /\ \A x \in Triggers : tw.unresolved[x] =
           IF x \in added THEN s[o].triggers.unresolved[x] + 1 ELSE s[o].triggers.unresolved[x]
  BY <1>1 DEF CollectedFrom
<1> HIDE DEF o, s
<1>8. ASSUME NEW j, WindowAt(s, j)
      PROVE  /\ j \in 1 .. Len(t) /\ j \in 1 .. Len(s) /\ s[j] \in Windows
             /\ s[j].triggers.unresolved \in [Triggers -> Nat]
             /\ s[j].triggers.seen \in SUBSET Triggers
             /\ Places(s[j]) \subseteq EventIds /\ Ahead(s[j]) \subseteq Places(s[j])
             /\ Own(s[j]) \subseteq Places(s[j])
             /\ t[j].triggers = IF j = o THEN tw ELSE s[j].triggers
  <2>1. s \in Seq(Frames)
    BY <1>1
  <2>2. /\ s[j] \in Windows /\ j \in 1 .. Len(s)
        /\ s[j].triggers.unresolved \in [Triggers -> Nat]
        /\ s[j].triggers.seen \in SUBSET Triggers
        /\ Places(s[j]) \subseteq EventIds /\ Ahead(s[j]) \subseteq Places(s[j])
        /\ Own(s[j]) \subseteq Places(s[j])
    BY <1>8, <2>1, WindowsAreTyped
  <2>3. j \in 1 .. n /\ s[j].kind = "window"
    BY <1>1, <1>8 DEF WindowAt
  <2> QED BY <1>1, <1>3, <2>2, <2>3
<1>9. ASSUME NEW j, WindowAt(s, j), NEW x \in t[j].triggers.seen
      PROVE  x \in s[j].triggers.seen \/ (j = o /\ x \in added)
  BY <1>7, <1>8, <1>9
<1>10. History(s, events)
  BY DEF HistoryInv, s
<1>11. InPlace(t)
  <2>1. \A j \in 1 .. Len(t) : WindowAt(t, j) => Apart(t[j])
    BY <1>4
  <2>2. ASSUME NEW j \in 1 .. Len(t), NEW k \in 1 .. Len(t), WindowAt(t, j), WindowAt(t, k), j # k
        PROVE  Places(t[j]) \cap Places(t[k]) = {}
    <3>1. WindowAt(s, j) /\ WindowAt(s, k) /\ j \in 1 .. Len(s) /\ k \in 1 .. Len(s)
      BY <1>4, <1>8, <2>2
    <3>2. Places(s[j]) \cap Places(s[k]) = {}
      BY <1>10, <2>2, <3>1 DEF History, InPlace
    <3> QED BY <1>4, <3>1, <3>2
  <2> QED BY <2>1, <2>2 DEF InPlace
<1>12. InUse(t, fvs)
  <2> SUFFICES ASSUME NEW j \in 1 .. Len(t), WindowAt(t, j)
               PROVE  /\ \A e \in Places(t[j]) : fvs[e].status # "unused"
                      /\ \A e \in Ahead(t[j]) : Fresh(fvs[e])
    BY DEF InUse
  <2>1. WindowAt(s, j)
    BY <1>4
  <2>2. /\ \A e \in Places(s[j]) : events[e].status # "unused"
        /\ \A e \in Ahead(s[j]) : Fresh(events[e])
    BY <1>8, <1>10, <2>1 DEF History, InUse
  <2>3. ASSUME NEW e \in Ahead(t[j]) PROVE Fresh(fvs[e])
    <3>1. e \in Ahead(s[j]) /\ e \in EventIds /\ e \notin ToSet(evs)
      BY <1>4, <1>8, <2>1
    <3> QED BY <1>6, <2>2, <3>1
  <2>4. ASSUME NEW e \in Places(t[j]) PROVE fvs[e].status # "unused"
    <3>1. e \in Places(s[j]) /\ e \in EventIds
      BY <1>4, <1>8, <2>1
    <3> QED BY <1>6, <2>2, <3>1
  <2> QED BY <2>3, <2>4
<1>13. OwnersKnow(t, fvs)
  <2> SUFFICES ASSUME NEW j \in 1 .. Len(t), WindowAt(t, j), Emitted(t[j]), NEW e \in Own(t[j])
               PROVE  t[j].owner \in 1 .. j /\ HeardIn(t, fvs, t[j].owner, e)
    BY DEF OwnersKnow
  <2> DEFINE w == s[j].owner
  <2>1. WindowAt(s, j) /\ e \in Own(s[j]) /\ e \in EventIds /\ t[j].owner = w
    <3>1. WindowAt(s, j) /\ e \in Own(s[j]) /\ t[j].owner = w
      BY <1>4
    <3> QED BY <1>8, <3>1
  <2>2. CASE j # n
    <3>1. Emitted(s[j]) /\ j \in 1 .. Len(s)
      BY <1>4, <1>8, <2>1, <2>2
    <3>2. w \in 1 .. j /\ HeardIn(s, events, w, e)
      BY <1>10, <2>1, <3>1 DEF History, OwnersKnow
    <3> HIDE DEF w
    <3>3. e \notin ToSet(evs) /\ fvs[e] = events[e]
      <4>1. e \in Places(s[j])
        BY <1>8, <2>1
      <4>2. e \notin ToSet(evs)
        BY <1>4, <2>1, <2>2, <4>1
      <4> QED BY <1>6, <2>1, <4>2
    <3>4. WindowAt(s, w) /\ WindowAt(t, w)
      BY <1>4, <3>2 DEF HeardIn
    <3>5. s[w].triggers.seen \subseteq t[w].triggers.seen
          /\ s[w].triggers.missed \subseteq t[w].triggers.missed
      BY <1>7, <1>8, <3>4
    <3>6. ASSUME NEW k \in 1 .. Len(t), WindowAt(t, k), NEW x \in t[k].triggers.seen, x[2] = e
          PROVE  k = w
      <4>1. WindowAt(s, k) /\ k \in 1 .. Len(s)
        BY <1>4, <1>8, <3>6
      <4>2. x \notin added
        BY <1>5, <3>3, <3>6
      <4>3. x \in s[k].triggers.seen
        BY <1>9, <3>6, <4>1, <4>2
      <4> QED BY <3>2, <3>6, <4>1, <4>3 DEF HeardIn
    <3>7. HeardIn(t, fvs, w, e)
      BY <3>2, <3>3, <3>4, <3>5, <3>6 DEF HeardIn
    <3> QED BY <2>1, <3>2, <3>7
  <2>3. CASE j = n
    <3>1. w = o /\ e \in Own(Top) /\ o \in 1 .. j /\ WindowAt(t, o)
      BY <1>1, <1>2, <1>4, <2>1, <2>3 DEF o
    <3> HIDE DEF w
    <3>2. t[o].triggers = tw
      BY <1>2, <1>8 DEF o, s
    <3>3. CASE Emitted(Top)
      <4>1. HeardIn(s, events, o, e)
        BY <3>1, <3>3, KnownOfOwn DEF o, s
      <4>2. fvs[e].times = events[e].times /\ fvs[e].missed = events[e].missed
        BY <1>6, <2>1, <3>3
      <4>3. ASSUME NEW k \in 1 .. Len(t), WindowAt(t, k), NEW x \in t[k].triggers.seen, x[2] = e
            PROVE  k = o
        <5>1. WindowAt(s, k) /\ k \in 1 .. Len(s)
          BY <1>4, <1>8, <4>3
        <5>2. x \in s[k].triggers.seen \/ k = o
          BY <1>9, <4>3, <5>1
        <5> QED BY <4>1, <4>3, <5>1, <5>2 DEF HeardIn
      <4>4. HeardIn(t, fvs, o, e)
        BY <1>7, <3>1, <3>2, <4>1, <4>2, <4>3 DEF HeardIn
      <4> QED BY <2>1, <3>1, <4>4
    <3>4. CASE ~Emitted(Top)
      <4>1. Fresh(events[e]) /\ e \in ToSet(evs)
        BY <3>1, <3>4, KnownOfOwn
      <4>2. \A a \in Abilities : fvs[e].times[a] = 0
        BY <1>6, <2>1, <4>1 DEF Fresh
      <4>3. \A a \in fvs[e].missed : <<a, e>> \in tw.missed
        BY <1>6, <1>7, <2>1, <4>1 DEF Fresh
      <4>4. ASSUME NEW k \in 1 .. Len(t), WindowAt(t, k), NEW x \in t[k].triggers.seen, x[2] = e
            PROVE  k = o
        <5>1. WindowAt(s, k) /\ k \in 1 .. Len(s)
          BY <1>4, <1>8, <4>4
        <5>2. x \notin s[k].triggers.seen
          <6>1. SeenBy(s[k], events)
            BY <1>10, <5>1 DEF History, SeenOnce
          <6> QED BY <4>1, <4>4, <6>1 DEF SeenBy, Fresh
        <5> QED BY <1>9, <4>4, <5>1, <5>2
      <4>5. HeardIn(t, fvs, o, e)
        <5>1. \A a \in Abilities : ~(fvs[e].times[a] > 0)
          BY <4>2
        <5>2. \A a \in fvs[e].missed : <<a, e>> \in t[o].triggers.missed
          BY <3>2, <4>3
        <5> QED BY <3>1, <4>4, <5>1, <5>2 DEF HeardIn
      <4> QED BY <2>1, <3>1, <4>5
    <3> QED BY <3>3, <3>4
  <2> QED BY <2>2, <2>3
<1>14. SeenOnce(t, fvs)
  <2>1. ASSUME NEW j \in 1 .. Len(t), WindowAt(t, j) PROVE SeenBy(t[j], fvs)
    <3>1. WindowAt(s, j) /\ SeenBy(s[j], events)
      <4>1. WindowAt(s, j) /\ j \in 1 .. Len(s)
        BY <1>4, <1>8, <2>1
      <4> QED BY <1>10, <4>1 DEF History, SeenOnce
    <3>2. s[j].triggers.seen \in SUBSET Triggers /\ s[j].triggers.unresolved \in [Triggers -> Nat]
      BY <1>8, <3>1
    <3>3. ASSUME NEW x \in t[j].triggers.seen
          PROVE  x[1] \in fvs[x[2]].due /\ fvs[x[2]].status # "unused"
      <4>1. CASE x \in s[j].triggers.seen
        <5>1. x[1] \in events[x[2]].due /\ events[x[2]].status # "unused" /\ x[2] \in EventIds
          BY <3>1, <3>2, <4>1 DEF SeenBy, Triggers
        <5> QED BY <1>6, <5>1
      <4>2. CASE x \in added
        <5> DEFINE e == x[2]
                   a == x[1]
        <5>1. /\ e \in EventIds /\ e \in ToSet(evs) /\ a \notin events[e].missed
              /\ events[e].status \in {"created", "resolved"} /\ a \in events[e].listeners
              /\ presence[a] = "on"
          BY <1>5, <4>2 DEF MayTrigger
        <5> HIDE DEF e, a
        <5>2. /\ fvs[e].missed = IF first THEN {b \in events[e].listeners : presence[b] = "blanked"}
                                 ELSE events[e].missed
              /\ fvs[e].due = events[e].due \cup
                   ({b \in events[e].listeners : presence[b] = "on"} \ fvs[e].missed)
          BY <5>1 DEF HeardAs
        <5>3. a \notin fvs[e].missed
          <6>1. CASE first
            BY <5>1, <5>2, <6>1
          <6>2. CASE ~first
            BY <5>1, <5>2, <6>2
          <6> QED BY <6>1, <6>2
        <5>4. a \in fvs[e].due
          BY <5>1, <5>2, <5>3
        <5>5. fvs[e].status # "unused"
          BY <1>6, <5>1
        <5> QED BY <5>4, <5>5 DEF e, a
      <4> QED BY <1>9, <3>1, <3>3, <4>1, <4>2
    <3>4. ASSUME NEW x \in Triggers, t[j].triggers.unresolved[x] > 0
          PROVE  x \in t[j].triggers.seen /\ t[j].triggers.unresolved[x] = 1
                 /\ fvs[x[2]].times[x[1]] = 0
      <4>1. x[1] \in Abilities /\ x[2] \in EventIds
        BY DEF Triggers
      <4>2. fvs[x[2]].times = events[x[2]].times
        BY <1>6, <4>1
      <4>3. CASE j = o /\ x \in added
        <5>1. x \notin s[j].triggers.seen /\ events[x[2]].times[x[1]] = 0
          BY <1>5, <3>1, <4>3
        <5>2. s[j].triggers.unresolved[x] = 0
          BY <3>1, <3>2, <5>1 DEF SeenBy
        <5>3. t[j].triggers = tw /\ tw.unresolved[x] = s[j].triggers.unresolved[x] + 1
              /\ x \in tw.seen
          BY <1>7, <1>8, <3>1, <4>3
        <5> QED BY <4>2, <5>1, <5>2, <5>3
      <4>4. CASE ~(j = o /\ x \in added)
        <5>1. t[j].triggers.unresolved[x] = s[j].triggers.unresolved[x]
              /\ s[j].triggers.seen \subseteq t[j].triggers.seen
          <6>1. CASE j = o
            BY <1>7, <1>8, <3>1, <4>4, <6>1
          <6>2. CASE j # o
            BY <1>8, <3>1, <6>2
          <6> QED BY <6>1, <6>2
        <5>2. x \in s[j].triggers.seen /\ s[j].triggers.unresolved[x] = 1
              /\ events[x[2]].times[x[1]] = 0
          BY <3>1, <3>4, <5>1 DEF SeenBy
        <5> QED BY <4>2, <5>1, <5>2
      <4> QED BY <4>3, <4>4
    <3> QED BY <3>3, <3>4 DEF SeenBy
  <2>2. ASSUME NEW j \in 1 .. Len(t), NEW k \in 1 .. Len(t), WindowAt(t, j), WindowAt(t, k), j # k,
               NEW x \in t[j].triggers.seen \cap t[k].triggers.seen
        PROVE  FALSE
    <3>1. WindowAt(s, j) /\ WindowAt(s, k) /\ j \in 1 .. Len(s) /\ k \in 1 .. Len(s)
      BY <1>4, <1>8, <2>2
    <3>2. s[j].triggers.seen \cap s[k].triggers.seen = {}
      BY <1>10, <2>2, <3>1 DEF History, SeenOnce
    <3>3. /\ x \in s[j].triggers.seen \/ (j = o /\ x \in added)
          /\ x \in s[k].triggers.seen \/ (k = o /\ x \in added)
      BY <1>9, <2>2, <3>1
    <3> QED BY <1>5, <2>2, <3>1, <3>2, <3>3
  <2> QED BY <2>1, <2>2 DEF SeenOnce
<1>15. \A e \in EventIds : EventFits(fvs[e])
  BY <1>6, <1>10 DEF History
<1>16. PassesUp(t)
  <2> SUFFICES ASSUME NEW j \in 1 .. Len(t), WindowAt(t, j), t[j].subMode = "passes"
               PROVE  j > 1 /\ WindowAt(t, j - 1) /\ t[j - 1].step = "resolveEvents"
    BY DEF PassesUp
  <2>1. WindowAt(s, j) /\ s[j].subMode = "passes" /\ j \in 1 .. Len(s)
    BY <1>4, <1>8
  <2>2. j > 1 /\ WindowAt(s, j - 1) /\ s[j - 1].step = "resolveEvents"
    BY <1>10, <2>1 DEF History, PassesUp
  <2>3. WindowAt(t, j - 1)
    BY <1>4, <2>2
  <2>4. j - 1 \in 1 .. n /\ j - 1 # n /\ s[j - 1].kind = "window"
    BY <1>3, <2>2, <2>3 DEF WindowAt
  <2>5. t[j - 1].step = s[j - 1].step
    BY <1>3, <2>4 DEF s
  <2> QED BY <2>2, <2>3, <2>5
<1> QED BY <1>11, <1>12, <1>13, <1>14, <1>15, <1>16 DEF History

\* The triggers of a window after an emission.
LEMMA EmitCollects ==
  ASSUME NEW tw \in TriggerWindows, NEW more \in SUBSET EventIds, NEW evs,
         NEW new, new = Emit([tw EXCEPT !.triggering = @ \cup more], evs)
                  \/ new = Emit(tw, evs)
  PROVE  \E added : CollectedFrom(tw, evs, added, new)
<1>1. tw \in TriggerRecords
  BY DEF TriggerWindows
<1>2. ASSUME NEW old \in TriggerRecords, old.unresolved = tw.unresolved, old.seen = tw.seen,
             old.missed = tw.missed, new = Emit(old, evs)
      PROVE  CollectedFrom(tw, evs, AddedBy(old, evs), new)
  <2> DEFINE added == AddedBy(old, evs)
             missed == MissedBy(old, evs)
             waiting == [t \in Triggers |-> IF t \in added THEN old.unresolved[t] + 1
                                           ELSE old.unresolved[t]]
  <2>1. added \subseteq MayTrigger(tw, evs) /\ missed = MissedBy(tw, evs)
    BY <1>2 DEF AddedBy, MayTrigger, MissedBy
  <2>2. new = [old EXCEPT !.seen = @ \cup added, !.missed = @ \cup missed,
                          !.unresolved = waiting]
    BY <1>2 DEF Emit
  <2> HIDE DEF added, missed
  <2>3. \A t \in Triggers :
          waiting[t] = IF t \in added THEN tw.unresolved[t] + 1 ELSE tw.unresolved[t]
    BY <1>2
  <2> HIDE DEF waiting
  <2>4. new.seen = tw.seen \cup added /\ new.missed = tw.missed \cup missed
        /\ new.unresolved = waiting
    BY <1>2, <2>2 DEF TriggerRecords
  <2>5. CollectedFrom(tw, evs, added, new)
    BY <2>1, <2>3, <2>4 DEF CollectedFrom
  <2> QED BY <2>5 DEF added
<1>3. CASE new = Emit(tw, evs)
  BY <1>1, <1>2, <1>3
<1>4. CASE new = Emit([tw EXCEPT !.triggering = @ \cup more], evs)
  <2> DEFINE old == [tw EXCEPT !.triggering = @ \cup more]
  <2>1. old \in TriggerRecords /\ old.unresolved = tw.unresolved /\ old.seen = tw.seen
        /\ old.missed = tw.missed
    BY <1>1 DEF TriggerRecords
  <2> HIDE DEF old
  <2>2. new = Emit(old, evs)
    BY <1>4 DEF old
  <2> QED BY <1>2, <2>1, <2>2
<1> QED BY <1>3, <1>4

LEMMA EmitEventsHistory ==
  ASSUME HistoryInv, EmitEvents
  PROVE  History(stack', events')
<1> DEFINE tw == Emit([TriggersOf(Top) EXCEPT !.triggering = @ \cup ToSet(Top.events)], Top.events)
           evs == Top.events
           o == Top.owner
           step == "resolveEvents"
<1>1. /\ PipelineInv /\ stack # <<>> /\ Top.kind = "window"
      /\ Top.step \in {"openReplacementEffectWindow", "emitEvents"}
  BY DEF HistoryInv, EmitEvents, AtStep
<1>2. /\ Top \in Windows /\ stack[o] \in Windows /\ ~stack[o].triggers.started
      /\ o \in 1 .. n
  BY <1>1, TopWindowIsCurrent
<1>3. /\ TriggersOf(Top) \in TriggerWindows /\ ~TriggersOf(Top).started
      /\ evs \in Seq(EventIds) /\ ToSet(evs) \in SUBSET EventIds
  <2>1. evs \in Seq(EventIds)
    BY <1>2 DEF Windows, WindowRecords
  <2>2. ToSet(evs) \in SUBSET EventIds
    BY <2>1 DEF ToSet
  <2> QED BY <1>2, <2>1, <2>2 DEF TriggersOf, Windows, WindowRecords
<1>4. tw \in TriggerWindows
  BY <1>3, EmitTyped
<1>5. \E added : CollectedFrom(TriggersOf(Top), evs, added, tw)
  BY <1>3, EmitCollects
<1>6. /\ stack' = [Step(step) EXCEPT ![o].triggers = tw]
      /\ events' = Heard(evs, TRUE)
  BY DEF EmitEvents
<1>7. PipelineInv'
  BY <1>1, EmitEventsKeeps
<1> DEFINE t == stack'
           fvs == events'
<1>8. t \in Seq(Frames)
  BY <1>7 DEF PipelineInv, Types
<1> HIDE DEF tw, evs, o
<1>9. step \in WindowSteps /\ step \notin PreSteps /\ Top.step \in SubwindowSteps
  BY <1>1 DEF WindowSteps, PreSteps, SubwindowSteps
<1> HIDE DEF step, t, fvs
<1>10. EmittedStack(t, step, o, tw)
  <2>1. t = [Step(step) EXCEPT ![o].triggers = tw]
    BY <1>6 DEF t
  <2> QED BY <1>1, <1>2, <1>4, <1>9, <2>1, EmittedFrames
<1>11. \A e \in EventIds : HeardAs(fvs, evs, TRUE, e)
  <2>1. events \in [EventIds -> EventRecords]
    BY <1>1 DEF PipelineInv, Types
  <2>2. fvs = Heard(evs, TRUE)
    BY <1>6 DEF fvs
  <2> QED BY <2>1, <2>2, HeardEvents
<1>12. ~Emitted(Top) /\ Own(Top) = ToSet(evs)
  <2>1. ~Emitted(Top) /\ Top.resolved = <<>>
    BY <1>1, TopIsApart DEF Apart, Emitted, PreSteps
  <2>2. ToSet(Top.resolved) = {}
    BY <2>1 DEF ToSet
  <2> QED BY <2>1, <2>2 DEF Own, evs
<1>13. PICK added : CollectedFrom(TriggersOf(Top), evs, added, tw)
  BY <1>5
<1>14. EmittedStack(t, step, Top.owner, tw)
  BY <1>10 DEF o
<1>15. History(t, fvs)
  BY <1>1, <1>4, <1>8, <1>9, <1>11, <1>12, <1>13, <1>14, EmissionHistory
<1> QED BY <1>15 DEF t, fvs

LEMMA PostResolutionTriggersHistory ==
  ASSUME HistoryInv, PostResolutionTriggers
  PROVE  History(stack', events')
<1> DEFINE tw == Emit(TriggersOf(Top), Top.resolved)
           evs == Top.resolved
           o == Top.owner
           step == AfterTriggers(Top)
<1>1. /\ PipelineInv /\ stack # <<>> /\ Top.kind = "window"
      /\ Top.step \in {"resolveEvents", "postResolutionTriggers"}
  BY DEF HistoryInv, PostResolutionTriggers, NothingQueued, EventsAreResolved, AtStep
<1>2. /\ Top \in Windows /\ stack[o] \in Windows /\ ~stack[o].triggers.started
      /\ o \in 1 .. n
  BY <1>1, TopWindowIsCurrent
<1>3. /\ TriggersOf(Top) \in TriggerWindows /\ ~TriggersOf(Top).started
      /\ evs \in Seq(EventIds)
  BY <1>2 DEF TriggersOf, Windows, WindowRecords
<1>4. tw \in TriggerWindows
  BY <1>3, EmitTyped
<1>5. \E added : CollectedFrom(TriggersOf(Top), evs, added, tw)
  BY <1>3, EmitCollects
<1>6. /\ stack' = [Step(step) EXCEPT ![o].triggers = tw]
      /\ events' = Heard(evs, FALSE)
  BY DEF PostResolutionTriggers
<1>7. PipelineInv'
  BY <1>1, PostResolutionTriggersKeeps
<1> DEFINE t == stack'
           fvs == events'
<1>8. t \in Seq(Frames)
  BY <1>7 DEF PipelineInv, Types
<1>9. step \in WindowSteps /\ step \notin PreSteps /\ Top.step \in SubwindowSteps
  <2>1. step \in WindowSteps
    BY <1>2, StepsAfterEvents
  <2>2. step \notin PreSteps
    BY DEF PreSteps, AfterTriggers, AfterSubwindowEvents, AfterSubAbilityStep
  <2> QED BY <1>1, <2>1, <2>2 DEF SubwindowSteps
<1> HIDE DEF tw, evs, o, step, t, fvs
<1>10. EmittedStack(t, step, o, tw)
  <2>1. t = [Step(step) EXCEPT ![o].triggers = tw]
    BY <1>6 DEF t
  <2> QED BY <1>1, <1>2, <1>4, <1>9, <2>1, EmittedFrames
<1>11. \A e \in EventIds : HeardAs(fvs, evs, FALSE, e)
  <2>1. events \in [EventIds -> EventRecords]
    BY <1>1 DEF PipelineInv, Types
  <2>2. fvs = Heard(evs, FALSE)
    BY <1>6 DEF fvs
  <2> QED BY <2>1, <2>2, HeardEvents
<1>12. Emitted(Top) /\ ToSet(evs) \subseteq Own(Top)
  BY <1>1 DEF Emitted, PreSteps, Own, evs
<1>13. PICK added : CollectedFrom(TriggersOf(Top), evs, added, tw)
  BY <1>5
<1>14. EmittedStack(t, step, Top.owner, tw)
  BY <1>10 DEF o
<1>15. History(t, fvs)
  BY <1>1, <1>4, <1>8, <1>9, <1>11, <1>12, <1>13, <1>14, EmissionHistory
<1> QED BY <1>15 DEF t, fvs

-----------------------------------------------------------------------------
(* The invariant and what follows from it *)

LEMMA HistoryKept ==
  ASSUME HistoryInv, [TriggerWindowNext]_vars
  PROVE  History(stack', events')
<1>1. CASE WindowStep
  <2>1. CASE SetParentEventWindow
    BY <2>1, SetParentEventWindowHistory
  <2>2. CASE EmitEvents
    BY <2>2, EmitEventsHistory
  <2>3. CASE \E e \in EventIds : EventPrevented(e) \/ EventFizzles(e) \/ EventResolves(e)
    BY <2>3, EventPreventedHistory, EventFizzlesHistory, EventResolvesHistory
  <2>4. CASE \E e \in EventIds, listeners \in Listening :
               \/ EventReplaced(e, listeners) \/ EventDefeatsCard(e, listeners)
               \/ \E modes \in NestedModes : EventOpensWindow(e, modes, listeners)
    BY <2>4, EventReplacedHistory, EventDefeatsCardHistory, EventOpensWindowHistory
  <2>5. CASE \E e \in EventIds, a \in Unsteady :
               EventChangesEffect(e, a) \/ EventBlanksCard(e, a)
    BY <2>5, EventChangesEffectHistory, EventBlanksCardHistory
  <2>6. CASE QueuedWindow \/ InitiatedAbilityHasNoEvent
    BY <2>6, QueuedWindowHistory, InitiatedAbilityHasNoEventHistory
  <2>7. CASE \E listeners \in Listening :
               InitiatedAbilityActs(listeners) \/ GameStateDefeatsCard(listeners)
    BY <2>7, InitiatedAbilityActsHistory, GameStateDefeatsCardHistory
  <2>8. CASE \E a \in Unsteady : GameStateChangesCard(a)
    BY <2>8, GameStateChangesCardHistory
  <2>9. CASE PostResolutionTriggers \/ ResolveSubwindowEvents \/ ResolveSubAbilityStep
    BY <2>9, PostResolutionTriggersHistory, ResolveSubwindowEventsHistory,
       ResolveSubAbilityStepHistory
  <2>10. CASE ResolveTriggersIfNecessary \/ Cleanup
    BY <2>10, ResolveTriggersIfNecessaryHistory, CleanupHistory
  <2> QED BY <1>1, <2>1, <2>2, <2>3, <2>4, <2>5, <2>6, <2>7, <2>8, <2>9, <2>10
          DEF WindowStep
<1>2. CASE AbilityStep
  BY <1>2, StartResolvingHistory, ResolveNextTriggerHistory,
     OpenInitiateAbilityEventWindowHistory, AbilityIsCancelledHistory,
     TriggerIsResolvedHistory, SubStepIsResolvedHistory DEF AbilityStep
<1>3. ASSUME NEW k \in 1 .. MaxSimultaneous, NEW listeners \in [1 .. k -> Listening],
             OpenOuterWindow(listeners)
      PROVE  History(stack', events')
  BY <1>3, OpenOuterWindowHistory
<1>4. CASE UNCHANGED vars
  BY <1>4 DEF vars, HistoryInv
<1> QED BY <1>1, <1>2, <1>3, <1>4 DEF TriggerWindowNext, PipelineStep

\* Every event is in one place until it is dealt with, and the windows know of the
\* triggers of those they have emitted.
THEOREM HistoryHolds == TriggerWindowSpec => []HistoryInv
<1>1. TriggerWindowInit => HistoryInv
  BY InitHistory
<1>2. HistoryInv /\ [TriggerWindowNext]_vars => HistoryInv'
  BY HistoryKept, StepsKeep DEF HistoryInv
<1> QED BY <1>1, <1>2, PTL DEF TriggerWindowSpec

LEMMA WindowOfIndex ==
  ASSUME HistoryInv, NEW i \in WindowIndexes
  PROVE  /\ i \in 1 .. Len(stack) /\ WindowAt(stack, i) /\ stack[i] \in Windows
         /\ stack[i].triggers \in TriggerRecords /\ FitsAt(stack, i) /\ WindowFits(stack, i)
<1>1. stack \in Seq(Frames) /\ i \in 1 .. Len(stack) /\ stack[i].kind = "window"
  BY DEF HistoryInv, PipelineInv, Types, WindowIndexes
<1>2. stack[i] \in Windows
  BY <1>1, FramesOfKinds
<1>3. FitsAt(stack, i)
  BY <1>1 DEF HistoryInv, PipelineInv, StackFits, Fits
<1> QED BY <1>1, <1>2, <1>3 DEF WindowAt, Windows, WindowRecords, TriggerWindows, FitsAt

\* An ability triggers once for an event, although the event is emitted before and after
\* its handler, and only if it ought to: one that was blanked at the first emission does
\* not, even if the event brings it back.
THEOREM TriggersOnceIfDue == TriggerWindowSpec => []TriggeredOnceIfDue
<1>1. HistoryInv => TriggeredOnceIfDue
  <2> SUFFICES ASSUME HistoryInv PROVE TriggeredOnceIfDue
    OBVIOUS
  <2>1. \A e \in EventIds, a \in Abilities :
          events[e].times[a] <= 1 /\ (events[e].times[a] > 0 => a \in events[e].due)
    BY DEF HistoryInv, History, EventFits
  <2>2. ASSUME NEW i \in WindowIndexes, NEW t \in Triggers
        PROVE  /\ stack[i].triggers.unresolved[t] <= 1
               /\ stack[i].triggers.unresolved[t] > 0 => t[1] \in events[t[2]].due
    <3>1. /\ SeenBy(stack[i], events) /\ stack[i].triggers.unresolved[t] \in Nat
      BY WindowOfIndex DEF HistoryInv, History, SeenOnce, TriggerRecords
    <3>2. stack[i].triggers.unresolved[t] > 0 =>
            stack[i].triggers.unresolved[t] = 1 /\ t[1] \in events[t[2]].due
      BY <3>1 DEF SeenBy
    <3> QED BY <3>1, <3>2
  <2>3. TriggeredOnce
    BY <2>1, <2>2 DEF TriggeredOnce
  <2>4. OnlyDueTriggers
    BY <2>1, <2>2 DEF OnlyDueTriggers, Waiting
  <2> QED BY <2>3, <2>4 DEF TriggeredOnceIfDue
<1> QED BY <1>1, HistoryHolds, PTL

\* The innermost window that has begun is the current one, and a window's parent is the
\* one that began before it.
LEMMA InnermostIsCurrent ==
  ASSUME HistoryInv
  PROVE  CurrentIsInnermost
<1> DEFINE begun == {i \in WindowIndexes : stack[i].step # "setParentEventWindow"}
           Below(i) == {j \in begun : j < i}
           Innermost(s) == IF s = {} THEN 0 ELSE CHOOSE i \in s : \A j \in s : j <= i
<1>1. \A i : i \in begun <=> BegunAt(stack, i)
  BY DEF HistoryInv, PipelineInv, Types, WindowIndexes, BegunAt
<1>2. /\ current \in 0 .. Len(stack) /\ (current # 0 => BegunAt(stack, current))
      /\ \A i \in 1 .. Len(stack) : BegunAt(stack, i) => i <= current
  BY DEF HistoryInv, PipelineInv, StackFits, Fits
<1>3. begun \subseteq 1 .. Len(stack)
  BY <1>1 DEF BegunAt
<1> HIDE DEF begun
<1>4. ASSUME NEW s \in SUBSET (1 .. Len(stack)), NEW c \in 0 .. Len(stack),
             c # 0 => c \in s, \A j \in s : j <= c
      PROVE  c = Innermost(s)
  <2>1. CASE c = 0
    BY <1>4, <2>1
  <2>2. CASE c # 0
    <3> DEFINE m == CHOOSE i \in s : \A j \in s : j <= i
    <3>1. \E i \in s : \A j \in s : j <= i
      BY <1>4, <2>2
    <3>2. m \in s /\ \A j \in s : j <= m
      BY <3>1
    <3>3. Innermost(s) = m
      BY <1>4, <2>2
    <3> HIDE DEF Innermost, m
    <3>4. c <= m /\ m <= c /\ m \in Nat /\ c \in Nat
      BY <1>4, <2>2, <3>2
    <3> QED BY <3>3, <3>4
  <2> QED BY <2>1, <2>2
<1> HIDE DEF Innermost
<1>5. current = Innermost(begun)
  BY <1>1, <1>2, <1>3, <1>4
<1>6. ASSUME NEW i \in begun
      PROVE  stack[i].parent = Innermost(Below(i))
  <2>1. i \in 1 .. Len(stack) /\ BegunAt(stack, i) /\ BegunFits(stack, i)
    <3>1. i \in WindowIndexes /\ BegunAt(stack, i)
      BY <1>1, <1>6 DEF begun
    <3> QED BY <3>1, WindowOfIndex DEF WindowFits, BegunAt
  <2>2. /\ stack[i].parent \in 0 .. i - 1
        /\ stack[i].parent # 0 => stack[i].parent \in begun
        /\ \A j \in 1 .. i - 1 : j \in begun => j <= stack[i].parent
    BY <1>1, <2>1 DEF BegunFits
  <2> DEFINE below == Below(i)
             p == stack[i].parent
  <2>3. below \in SUBSET (1 .. Len(stack)) /\ p \in 0 .. Len(stack)
    BY <1>3, <2>1, <2>2
  <2>4. (p # 0 => p \in below) /\ \A j \in below : j <= p
    BY <1>3, <2>1, <2>2
  <2> HIDE DEF below, p
  <2>5. p = Innermost(below)
    BY <1>4, <2>3, <2>4
  <2> QED BY <2>5 DEF below, p
<1> QED BY <1>5, <1>6 DEF CurrentIsInnermost, Innermost, begun

\* The pipeline alternates as the code queues its steps, and game.currentEventWindow is
\* the innermost window that has begun.
THEOREM PipelineTypes == TriggerWindowSpec => []TriggerWindowTypeOK
<1>1. HistoryInv => TriggerWindowTypeOK
  <2> SUFFICES ASSUME HistoryInv PROVE TriggerWindowTypeOK
    OBVIOUS
  <2>1. ASSUME NEW e \in EventIds
        PROVE  /\ events[e].status \in Statuses /\ events[e].due \subseteq events[e].listeners
               /\ events[e].times \in [Abilities -> 0..2]
    <3>1. events[e] \in EventRecords /\ EventFits(events[e])
      BY DEF HistoryInv, PipelineInv, Types, History
    <3> QED BY <3>1 DEF EventRecords, EventFits
  <2>2. presence \in [Abilities -> Presences] /\ legal \subseteq Abilities
    BY DEF HistoryInv, PipelineInv, Types
  <2>3. ASSUME NEW i \in WindowIndexes
        PROVE  /\ TriggerWindowTyped(stack[i].triggers)
               /\ stack[i].mode = "passes" => i > 1
               /\ ToSet(stack[i].events \o stack[i].subwindow) \subseteq EventIds
    <3>1. /\ i \in 1 .. Len(stack) /\ stack[i] \in Windows /\ FitsAt(stack, i)
          /\ stack[i].triggers \in TriggerRecords
      BY WindowOfIndex
    <3>2. TriggerWindowTyped(stack[i].triggers)
      BY <3>1 DEF TriggerRecords, TriggerWindowTyped, TriggerSets
    <3>3. stack[i].events \in Seq(EventIds) /\ stack[i].subwindow \in Seq(EventIds)
      BY <3>1 DEF Windows, WindowRecords
    <3>4. stack[i].events \o stack[i].subwindow \in Seq(EventIds)
      BY <3>3
    <3> DEFINE both == stack[i].events \o stack[i].subwindow
    <3>a. both \in Seq(EventIds)
      BY <3>4
    <3> HIDE DEF both
    <3>b. ToSet(both) \subseteq EventIds
      BY <3>a DEF ToSet
    <3>5. ToSet(stack[i].events \o stack[i].subwindow) \subseteq EventIds
      BY <3>b DEF both
    <3>6. stack[i].mode = "passes" => i > 1
      BY <3>1 DEF FitsAt
    <3> QED BY <3>2, <3>5, <3>6
  <2>4. ASSUME NEW i \in DOMAIN stack \ WindowIndexes
        PROVE  IF stack[i].kind = "triggers"
               THEN i > 1 /\ i - 1 \in WindowIndexes /\ stack[i - 1].owner = i - 1
               ELSE i > 1
    <3>1. stack \in Seq(Frames) /\ i \in 1 .. Len(stack) /\ stack[i].kind # "window"
          /\ FitsAt(stack, i) /\ DOMAIN stack = 1 .. Len(stack)
      BY DEF HistoryInv, PipelineInv, Types, StackFits, Fits, WindowIndexes
    <3>2. i > 1 /\ i - 1 \in 1 .. Len(stack)
      BY <3>1 DEF FitsAt
    <3>3. ASSUME stack[i].kind = "triggers"
          PROVE  i - 1 \in WindowIndexes /\ stack[i - 1].owner = i - 1
      <4>1. /\ stack[i - 1].kind = "window" /\ stack[i - 1].mode = "resolves"
            /\ stack[i - 1].step = "cleanup"
        BY <3>1, <3>3 DEF FitsAt, TriggersFit
      <4>2. i - 1 \in WindowIndexes
        BY <3>1, <3>2, <4>1 DEF WindowIndexes
      <4>3. WindowFits(stack, i - 1)
        BY <4>2, WindowOfIndex
      <4>4. stack[i - 1].owner = i - 1
        BY <4>1, <4>3, SMTT(40) DEF WindowFits, BegunFits
      <4> QED BY <4>2, <4>4
    <3> QED BY <3>2, <3>3
  <2> QED BY <2>1, <2>2, <2>3, <2>4, InnermostIsCurrent DEF TriggerWindowTypeOK
<1> QED BY <1>1, HistoryHolds, PTL

-----------------------------------------------------------------------------
(* Windows that resolve their triggers *)

\* A step at the top of the stack leaves the frames below it alone.
LEMMA LowerFramesStay ==
  ASSUME NEW S, NEW s \in Seq(S), s # <<>>, NEW g, NEW f, NEW i \in 1 .. Len(s) - 1
  PROVE  /\ [s EXCEPT ![Len(s)] = g][i] = s[i]
         /\ ([s EXCEPT ![Len(s)] = g] \o <<>>)[i] = s[i]
         /\ ([s EXCEPT ![Len(s)] = g] \o <<f>>)[i] = s[i]
         /\ Append([s EXCEPT ![Len(s)] = g], f)[i] = s[i]
<1> DEFINE T == S \cup {g, f}
           t == [s EXCEPT ![Len(s)] = g]
<1>1. s \in Seq(T)
  OBVIOUS
<1>2. t \in Seq(T) /\ Len(t) = Len(s) /\ t[i] = s[i] /\ f \in T
  BY <1>1
<1> HIDE DEF t, T
<1>3. i \in 1 .. Len(t)
  BY <1>2
<1>4. (t \o <<>>)[i] = t[i]
  BY <1>2, <1>3
<1>5. (t \o <<f>>)[i] = t[i]
  <2>1. <<f>> \in Seq(T)
    BY <1>2
  <2> QED BY <1>2, <1>3, <2>1
<1>6. Append(t, f)[i] = t[i]
  BY <1>2, <1>3
<1> QED BY <1>2, <1>4, <1>5, <1>6 DEF t

LEMMA StartedIsBelow ==
  ASSUME HistoryInv, NEW i \in WindowIndexes, stack[i].triggers.started
  PROVE  /\ stack \in Seq(Frames) /\ n = Len(stack) /\ n \in Nat /\ i \in 1 .. n
         /\ stack # <<>> /\ stack[i] \in Windows
         /\ stack[i].step = "cleanup" /\ stack[i].mode = "resolves"
         /\ i < n => stack[i + 1].kind = "triggers" /\ i + 1 \in 1 .. n
<1>1. stack \in Seq(Frames) /\ n = Len(stack) /\ n \in Nat
  BY DEF HistoryInv, PipelineInv, Types, n
<1>2. i \in 1 .. n /\ stack[i] \in Windows /\ WindowFits(stack, i)
  BY <1>1, WindowOfIndex
<1> QED BY <1>1, <1>2 DEF WindowFits

\* While a window runs, those that resolve their triggers lie below it and do not collect
\* the triggers it emits.
LEMMA WindowsAboveStarted ==
  ASSUME HistoryInv, NEW i \in WindowIndexes, stack[i].triggers.started,
         Top.kind = "window", Top.step # "cleanup"
  PROVE  /\ i \in 1 .. Len(stack) - 1 /\ i \in 1 .. n - 1
         /\ Top.step # "setParentEventWindow" => i # Top.owner /\ current = n
<1>1. /\ stack \in Seq(Frames) /\ n = Len(stack) /\ n \in Nat /\ i \in 1 .. n /\ stack # <<>>
      /\ stack[i].step = "cleanup"
  BY StartedIsBelow
<1>2. i # n
  BY <1>1 DEF Top
<1>3. Top.step # "setParentEventWindow" => i # Top.owner /\ current = n
  BY <1>1, TopWindowIsCurrent DEF HistoryInv
<1> QED BY <1>1, <1>2, <1>3

LEMMA StartedSeenKept ==
  ASSUME HistoryInv, [TriggerWindowNext]_vars, NEW i \in WindowIndexes,
         stack[i].triggers.started, i \in DOMAIN stack'
  PROVE  stack'[i].triggers.seen = stack[i].triggers.seen
<1>1. /\ stack \in Seq(Frames) /\ n = Len(stack) /\ n \in Nat /\ i \in 1 .. n
      /\ stack # <<>> /\ stack[i] \in Windows /\ stack[i].step = "cleanup"
      /\ i < n => stack[i + 1].kind = "triggers" /\ i + 1 \in 1 .. n
  BY StartedIsBelow
<1>2. \A g, f : i \in 1 .. n - 1 =>
        /\ SetTop(g)[i] = stack[i] /\ (SetTop(g) \o <<>>)[i] = stack[i]
        /\ (SetTop(g) \o <<f>>)[i] = stack[i] /\ Append(SetTop(g), f)[i] = stack[i]
  BY <1>1, LowerFramesStay DEF SetTop
<1>3. CASE WindowStep
  <2>1. CASE \/ SetParentEventWindow
             \/ \E e \in EventIds : EventPrevented(e) \/ EventFizzles(e) \/ EventResolves(e)
             \/ \E e \in EventIds, listeners \in Listening :
                  \/ EventReplaced(e, listeners)
                  \/ \E modes \in NestedModes : EventOpensWindow(e, modes, listeners)
             \/ \E e \in EventIds, a \in Unsteady :
                  EventChangesEffect(e, a) \/ EventBlanksCard(e, a)
             \/ \E a \in Unsteady : GameStateChangesCard(a)
    <3>1. /\ Top.kind = "window" /\ Top.step # "cleanup"
          /\ \E g : stack' = SetTop(g)
      BY <2>1 DEF SetParentEventWindow, EventPrevented, EventFizzles, EventResolves,
         EventReplaced, EventOpensWindow, EventChangesEffect, EventBlanksCard,
         GameStateChangesCard, AtStep, IsNext, NothingQueued, EventsAreResolved,
         TopResolved, Step
    <3>2. i \in 1 .. n - 1
      BY <3>1, WindowsAboveStarted
    <3> QED BY <1>2, <3>1, <3>2
  <2>2. CASE \/ \E e \in EventIds, listeners \in Listening : EventDefeatsCard(e, listeners)
             \/ \E listeners \in Listening : GameStateDefeatsCard(listeners)
    <3>1. /\ Top.kind = "window" /\ Top.step = "resolveEvents"
          /\ \E g, x : stack' = [SetTop(g) EXCEPT ![current].subwindow = x]
      BY <2>2 DEF EventDefeatsCard, GameStateDefeatsCard, AtStep, IsNext, NothingQueued,
         EventsAreResolved, TopResolved, Step, AddSubwindowEvents
    <3>2. i \in 1 .. n - 1 /\ current = n
      BY <3>1, WindowsAboveStarted
    <3>3. PICK g, x : stack' = [SetTop(g) EXCEPT ![current].subwindow = x]
      BY <3>1
    <3>4. stack'[i] = SetTop(g)[i]
      BY <1>1, <3>2, <3>3 DEF SetTop
    <3> QED BY <1>2, <3>2, <3>4
  <2>3. CASE \/ QueuedWindow \/ InitiatedAbilityHasNoEvent
             \/ \E listeners \in Listening : InitiatedAbilityActs(listeners)
             \/ ResolveSubAbilityStep \/ ResolveTriggersIfNecessary
    <3>1. /\ Top.kind = "window" /\ Top.step # "cleanup"
          /\ \E g, f : stack' \in {SetTop(g) \o <<>>, SetTop(g) \o <<f>>, Append(SetTop(g), f)}
      BY <2>3 DEF QueuedWindow, InitiatedAbilityHasNoEvent, InitiatedAbilityActs,
         ResolveSubAbilityStep, ResolveTriggersIfNecessary, AtStep, EventsAreResolved, Step
    <3>2. i \in 1 .. n - 1
      BY <3>1, WindowsAboveStarted
    <3> QED BY <1>2, <3>1, <3>2
  <2>4. CASE EmitEvents \/ PostResolutionTriggers
    <3>1. /\ Top.kind = "window" /\ Top.step \notin {"setParentEventWindow", "cleanup"}
          /\ \E g, x : stack' = [SetTop(g) EXCEPT ![Top.owner].triggers = x]
      BY <2>4 DEF EmitEvents, PostResolutionTriggers, AtStep, NothingQueued,
         EventsAreResolved, Step
    <3>2. i \in 1 .. n - 1 /\ i # Top.owner
      BY <3>1, WindowsAboveStarted
    <3>3. PICK g, x : stack' = [SetTop(g) EXCEPT ![Top.owner].triggers = x]
      BY <3>1
    <3>4. stack'[i] = SetTop(g)[i]
      BY <1>1, <3>2, <3>3 DEF SetTop
    <3> QED BY <1>2, <3>2, <3>4
  <2>5. CASE ResolveSubwindowEvents
    <3>1. /\ Top.kind = "window" /\ Top.step \notin {"setParentEventWindow", "cleanup"}
          /\ \/ \E g, p, x : stack' = [SetTop(g) EXCEPT ![p].subwindow = x]
             \/ \E g, f : stack' = Append(SetTop(g), f)
      <4>1. Top.kind = "window" /\ Top.step = "resolveSubwindowEvents"
        BY <2>5 DEF ResolveSubwindowEvents, AtStep
      <4>2. CASE Top.subMode = "passes"
        <5> DEFINE g == [Top EXCEPT !.step = AfterSubwindowEvents(Top), !.subwindow = <<>>]
                   x == SetTop(g)[Top.parent].subwindow \o Top.subwindow
        <5>1. stack' = [SetTop(g) EXCEPT ![Top.parent].subwindow = x]
          BY <2>5, <4>2 DEF ResolveSubwindowEvents
        <5> HIDE DEF g, x
        <5> QED BY <4>1, <5>1
      <4>3. CASE Top.subMode # "passes"
        <5> DEFINE g == [Top EXCEPT !.step = AfterSubwindowEvents(Top)]
                   f == EventWindow(Top.subwindow, "passes", "resolves", "none", <<>>)
        <5>1. stack' = Append(SetTop(g), f)
          BY <2>5, <4>3 DEF ResolveSubwindowEvents, Step
        <5> HIDE DEF g, f
        <5> QED BY <4>1, <5>1
      <4> QED BY <4>2, <4>3
    <3>2. i \in 1 .. n - 1
      BY <3>1, WindowsAboveStarted
    <3>3. CASE \E g, p, x : stack' = [SetTop(g) EXCEPT ![p].subwindow = x]
      <4>1. PICK g, p, x : stack' = [SetTop(g) EXCEPT ![p].subwindow = x]
        BY <3>3
      <4>2. i \in DOMAIN SetTop(g)
        BY <1>1 DEF SetTop
      <4>3. stack'[i] = stack[i] \/ stack'[i] = [stack[i] EXCEPT !.subwindow = x]
        BY <1>2, <3>2, <4>1, <4>2
      <4>4. [stack[i] EXCEPT !.subwindow = x].triggers = stack[i].triggers
        BY <1>1 DEF Windows, WindowRecords
      <4> QED BY <4>3, <4>4
    <3>4. CASE \E g, f : stack' = Append(SetTop(g), f)
      BY <1>2, <3>2, <3>4
    <3> QED BY <3>1, <3>3, <3>4
  <2>6. CASE Cleanup
    <3>1. stack' = SubSeq(stack, 1, n - 1)
      BY <2>6 DEF Cleanup, Pop
    <3> QED BY <1>1, <3>1
  <2> QED BY <1>3, <2>1, <2>2, <2>3, <2>4, <2>5, <2>6 DEF WindowStep
<1>4. CASE StartResolving \/ ResolveNextTrigger
  <2>1. InTriggerWindow /\ PipelineInv
    BY <1>4 DEF HistoryInv, StartResolving, ResolveNextTrigger
  <2>2. /\ OwnTriggers \in TriggerWindows /\ OwnTriggers \in TriggerRecords
        /\ n - 1 \in 1 .. n /\ stack[n - 1] \in Windows /\ SomeonesTurn(OwnTriggers)
        /\ Top.kind = "triggers"
    BY <2>1, TriggersOnTop DEF TriggerWindows
  <2>3. i \in 1 .. n - 1
    <3>1. stack[i].kind = "window"
      BY WindowOfIndex DEF WindowAt
    <3>2. i # n
      BY <2>2, <3>1 DEF Top
    <3> QED BY <1>1, <3>2
  <2>4. \E tw : /\ tw.seen = OwnTriggers.seen
                /\ \/ stack' = SubSeq(SetTriggers(tw), 1, n - 1) \/ stack' = SetTriggers(tw)
                   \/ \E f : stack' = Append(SetTriggers(tw), f)
    <3>1. CASE StartResolving
      <4> DEFINE tw == CleanUpTriggers(OwnTriggers)
      <4>1. tw \in TriggerRecords /\ tw.seen = OwnTriggers.seen
        BY <2>2, CleanUpKeeps
      <4>2. \/ stack' = SubSeq(SetTriggers(tw), 1, n - 1)
            \/ \E order : stack' = SetTriggers([tw EXCEPT !.started = TRUE, !.order = order])
        BY <3>1 DEF StartResolving
      <4> HIDE DEF tw
      <4>3. \A order : [tw EXCEPT !.started = TRUE, !.order = order].seen = tw.seen
        BY <4>1 DEF TriggerRecords
      <4> QED BY <4>1, <4>2, <4>3
    <3>2. CASE ResolveNextTrigger
      <4> DEFINE tw == NextPlayer(OwnTriggers)
      <4>1. OwnTriggers.started = TRUE /\ OwnTriggers.order # <<>>
        BY <2>2, <3>2 DEF SomeonesTurn, ResolveNextTrigger, TriggerRecords
      <4>2. \/ stack' = SubSeq(SetTriggers(tw), 1, n - 1)
            \/ \E f : stack' = Append(SetTriggers(tw), f)
        BY <3>2 DEF ResolveNextTrigger
      <4>3. tw.seen = OwnTriggers.seen
        BY <2>2, <4>1, NextPlayerKeeps
      <4> QED BY <4>2, <4>3
    <3> QED BY <1>4, <3>1, <3>2
  <2>5. PICK tw : /\ tw.seen = OwnTriggers.seen
                  /\ \/ stack' = SubSeq(SetTriggers(tw), 1, n - 1) \/ stack' = SetTriggers(tw)
                     \/ \E f : stack' = Append(SetTriggers(tw), f)
    BY <2>4
  <2> DEFINE g == [stack[n - 1] EXCEPT !.triggers = tw]
             s == SetTriggers(tw)
             S == Frames \cup {g}
  <2>6. g.triggers = tw
    BY <2>2 DEF Windows, WindowRecords
  <2>7. s = [stack EXCEPT ![n - 1] = g]
    BY DEF SetTriggers
  <2> HIDE DEF g, s
  <2>8. /\ s \in Seq(S) /\ Len(s) = n
        /\ s[i] = IF i = n - 1 THEN g ELSE stack[i]
    BY <1>1, <2>2, <2>7
  <2> HIDE DEF S
  <2>9. s[i].triggers.seen = stack[i].triggers.seen
    BY <2>5, <2>6, <2>8 DEF OwnTriggers
  <2>10. stack' = SubSeq(s, 1, n - 1) \/ stack' = s \/ \E f : stack' = Append(s, f)
    BY <2>5 DEF s
  <2>11. stack'[i] = s[i]
    <3>1. CASE stack' = SubSeq(s, 1, n - 1)
      BY <1>1, <2>3, <2>8, <3>1
    <3>2. CASE \E f : stack' = Append(s, f)
      <4>1. PICK f : stack' = Append(s, f)
        BY <3>2
      <4>2. s \in Seq(S \cup {f}) /\ i \in 1 .. Len(s)
        BY <1>1, <2>8
      <4> QED BY <4>1, <4>2
    <3> QED BY <2>10, <3>1, <3>2
  <2> QED BY <2>9, <2>11
<1>5. CASE \/ OpenInitiateAbilityEventWindow \/ AbilityIsCancelled
  <2>1. /\ Top.kind = "resolver"
        /\ \E g, f : stack' \in {SetTop(g) \o <<>>, SetTop(g) \o <<f>>, Append(SetTop(g), f)}
    BY <1>5 DEF OpenInitiateAbilityEventWindow, AbilityIsCancelled, AtStep, Committed
  <2>2. i \in 1 .. n - 1
    BY <1>1, <2>1 DEF Top, Windows, WindowRecords
  <2> QED BY <1>2, <2>1, <2>2
<1>6. CASE SubStepIsResolved
  <2>1. Top.kind = "resolver" /\ stack' = SubSeq(stack, 1, n - 1)
    BY <1>6 DEF SubStepIsResolved, AtStep, Pop
  <2> QED BY <1>1, <2>1
<1>7. CASE TriggerIsResolved
  <2> DEFINE s == Pop
             o == n - 2
             x == Top.trigger
  <2>1. PipelineInv /\ AtStep("resolver", "done") /\ Top.role = "trigger"
    BY <1>7 DEF HistoryInv, TriggerIsResolved
  <2>2. /\ s \in Seq(Frames) /\ Len(s) = n - 1 /\ \A j \in 1 .. n - 1 : s[j] = stack[j]
    BY <2>1, PoppedResolverFits
  <2>3. o \in 1 .. n - 1 /\ stack[o] \in Windows /\ Top.kind = "resolver"
        /\ stack[o].triggers \in TriggerRecords
    BY <2>1, ResolvedTriggerOnTop DEF AtStep, TriggerWindows
  <2>4. i \in 1 .. n - 1
    BY <1>1, <2>3 DEF Top, Windows, WindowRecords
  <2>5. \/ stack' = s
        \/ stack' = [s EXCEPT ![o].triggers = PostResolutionUpdate(stack[o].triggers, x)]
    BY <1>7 DEF TriggerIsResolved
  <2>6. PostResolutionUpdate(stack[o].triggers, x).seen = stack[o].triggers.seen
    BY <2>3 DEF PostResolutionUpdate, TriggerRecords
  <2> DEFINE tw == PostResolutionUpdate(stack[o].triggers, x)
  <2> HIDE DEF s, o, x, tw
  <2>7. /\ tw.seen = stack[o].triggers.seen
        /\ stack' = s \/ stack' = [s EXCEPT ![o].triggers = tw]
    BY <2>5, <2>6 DEF tw
  <2>8. s[i] = stack[i] /\ s[o] = stack[o]
    BY <2>2, <2>3, <2>4
  <2>9. [stack[o] EXCEPT !.triggers = tw].triggers = tw
    BY <2>3 DEF Windows, WindowRecords
  <2>10. stack'[i] = stack[i] \/ (i = o /\ stack'[i] = [stack[o] EXCEPT !.triggers = tw])
    BY <2>2, <2>4, <2>7, <2>8
  <2> QED BY <2>7, <2>9, <2>10
<1>8. CASE \E k \in 1 .. MaxSimultaneous :
             \E listeners \in [1 .. k -> Listening] : OpenOuterWindow(listeners)
  BY <1>1, <1>8 DEF OpenOuterWindow
<1>9. CASE UNCHANGED vars
  BY <1>9 DEF vars
<1> QED BY <1>3, <1>4, <1>5, <1>6, <1>7, <1>8, <1>9
        DEF TriggerWindowNext, PipelineStep, AbilityStep

\* A trigger window that has begun to resolve gets no new triggers: those of the windows
\* its abilities open are for these windows.
THEOREM StartedWindowsAreClosed == TriggerWindowSpec => StartedGetNoTriggers
<1>1. HistoryInv /\ [TriggerWindowNext]_vars =>
        [\A i \in WindowIndexes :
           stack[i].triggers.started /\ i \in DOMAIN stack' =>
             stack'[i].triggers.seen = stack[i].triggers.seen]_vars
  BY StartedSeenKept
<1> QED BY <1>1, HistoryHolds, PTL DEF TriggerWindowSpec, StartedGetNoTriggers

-----------------------------------------------------------------------------
(* What still has to happen.  An event that has not happened is among those a *)
(* window on the stack will come to, and a due trigger waits until it is      *)
(* resolved or dropped.                                                       *)

EarlySteps == PreSteps \cup {"resolveEvents", "postResolutionTriggers"}

\* The events window f will resolve, hand on or emit again.
Live(f) ==
  IF f.kind = "window"
  THEN Sub(f) \cup Queue(f) \cup (IF f.step \in EarlySteps THEN Own(f) ELSE {})
  ELSE {}
HasFuture(s, e) == \E i \in 1 .. Len(s) : e \in Live(s[i])
Waits(s, t) == \E i \in 1 .. Len(s) : WindowAt(s, i) /\ s[i].triggers.unresolved[t] > 0
MissedIn(s, t) == \E i \in 1 .. Len(s) : WindowAt(s, i) /\ t \in s[i].triggers.missed

\* A window knows events that are in use, and is done with those it has left behind.
Orderly(f, evs) ==
  /\ \A e \in Own(f) \cup ToSet(f.subwindow) \cup ToSet(f.opened) : evs[e].status # "unused"
  /\ \A e \in ToSet(f.resolved) : evs[e].status = "resolved"
  /\ f.step \notin PreSteps \cup {"resolveEvents"} =>
       f.queued = <<>> /\ \A e \in ToSet(f.events) : evs[e].status # "created"
  /\ \A e \in ToSet(f.opened) : evs[e].status = "created" => e \in ToSet(f.events)
  /\ f.initiates => /\ f.step \in {"setParentEventWindow", "resolveEvents"}
                    /\ f.events = <<>> /\ f.subwindow = <<>> /\ f.queued = <<>>
  /\ f.mode = "passes" => Waiting(f.triggers) = {}

\* On top, the sub-window of a window past it has happened, and a window that resolves
\* its triggers has none left at its last step.
Rests(f, evs) ==
  /\ f.step \notin SubwindowSteps =>
       \A e \in ToSet(f.subwindow) : evs[e].status # "created"
  /\ f.mode = "resolves" /\ f.step = "cleanup" => Waiting(f.triggers) = {}

\* Under a frame, its sub-window has happened or is that frame, and an ability resolves on
\* it before its sub-window only if that is empty.
Bears(f, g, evs) ==
  /\ f.step \notin SubwindowSteps =>
       \/ \A e \in ToSet(f.subwindow) : evs[e].status # "created"
       \/ g.kind = "window" /\ g.opened = f.subwindow
  /\ ~f.initiates
  /\ g.kind = "resolver" => f.step \notin SubwindowSteps \/ f.subwindow = <<>>

Adjacent(s, i, evs) ==
  /\ i = Len(s) => Rests(s[i], evs)
  /\ i < Len(s) => Bears(s[i], s[i + 1], evs)

\* The owner's trigger window collects the triggers of all events that were emitted.
Tended(s, i) ==
  /\ Emitted(s[i]) => Own(s[i]) \subseteq s[s[i].owner].triggers.triggering
  /\ \A t \in s[i].triggers.seen : t[2] \in s[i].triggers.triggering

Paced(s, evs) ==
  \A i \in 1 .. Len(s) : WindowAt(s, i) =>
    Orderly(s[i], evs) /\ Adjacent(s, i, evs) /\ Tended(s, i)

Placed(s, evs) == \A e \in EventIds : evs[e].status = "created" => HasFuture(s, e)

Dealt(s, evs) ==
  \A e \in EventIds : evs[e].status \in {"created", "resolved"} =>
    \A a \in evs[e].due :
      evs[e].times[a] > 0 \/ a \in evs[e].excused \/ Waits(s, <<a, e>>)

\* What a window missed of an event that has a future, the event knows.
MissedMatch(s, evs) ==
  \A t \in Triggers : MissedIn(s, t) =>
    /\ evs[t[2]].status # "unused"
    /\ t[1] \in evs[t[2]].missed \/ ~HasFuture(s, t[2])

Future(s, evs) ==
  Paced(s, evs) /\ Placed(s, evs) /\ Dealt(s, evs) /\ MissedMatch(s, evs)

FutureInv == HistoryInv /\ Future(stack, events)

-----------------------------------------------------------------------------
(* How the future goes on *)

EventMovesOn(r, q) ==
  /\ r.status # "unused" /\ q.status # "unused"
  /\ q.status = "created" => r.status = "created"
  /\ q.status = "resolved" => r.status \in {"created", "resolved"}
  /\ q.due = r.due /\ q.missed = r.missed /\ q.times = r.times
  /\ r.excused \subseteq q.excused
EventStarts(r, q) == r.status = "unused" /\ q.status = "created" /\ q.due = {}
Onward(evs, fvs) ==
  \A e \in EventIds :
    fvs[e] = evs[e] \/ EventMovesOn(evs[e], fvs[e]) \/ EventStarts(evs[e], fvs[e])

\* A window whose triggers alone have changed, as those of an owner may.
LooksAs(f, g) ==
  /\ g.kind = f.kind
  /\ f.kind = "window" =>
       /\ g.step = f.step /\ g.mode = f.mode /\ g.events = f.events
       /\ g.resolved = f.resolved /\ g.subwindow = f.subwindow /\ g.queued = f.queued
       /\ g.opened = f.opened /\ g.initiates = f.initiates /\ g.owner = f.owner
       /\ f.triggers.triggering \subseteq g.triggers.triggering
       /\ \A t \in g.triggers.seen :
            t \in f.triggers.seen \/ t[2] \in g.triggers.triggering
       /\ f.mode = "passes" => Waiting(g.triggers) \subseteq Waiting(f.triggers)

\* What the window below sees of a frame.
SameFace(f, g) == g.kind = f.kind /\ (f.kind = "window" => g.opened = f.opened)

LEMMA EqualLooksAs ==
  ASSUME NEW f
  PROVE  LooksAs(f, f) /\ SameFace(f, f)
BY DEF LooksAs, SameFace

LEMMA LookAlikes ==
  ASSUME NEW f, NEW g, LooksAs(f, g)
  PROVE  SameFace(f, g) /\ Live(g) = Live(f)
<1>1. CASE f.kind = "window"
  BY <1>1 DEF LooksAs, SameFace, Live, Sub, Queue, Own
<1>2. CASE f.kind # "window"
  BY <1>2 DEF LooksAs, SameFace, Live
<1> QED BY <1>1, <1>2

\* The events a window knows.
LEMMA KnownEvents ==
  ASSUME NEW f \in Windows
  PROVE  /\ Own(f) \in SUBSET EventIds /\ ToSet(f.subwindow) \in SUBSET EventIds
         /\ ToSet(f.opened) \in SUBSET EventIds /\ ToSet(f.resolved) \in SUBSET EventIds
         /\ ToSet(f.events) \in SUBSET EventIds /\ Live(f) \in SUBSET EventIds
<1>1. /\ f.events \in Seq(EventIds) /\ f.resolved \in Seq(EventIds)
      /\ f.subwindow \in Seq(EventIds) /\ f.opened \in Seq(EventIds)
  BY DEF Windows, WindowRecords
<1>2. /\ ToSet(f.events) \in SUBSET EventIds /\ ToSet(f.resolved) \in SUBSET EventIds
      /\ ToSet(f.subwindow) \in SUBSET EventIds /\ ToSet(f.opened) \in SUBSET EventIds
  BY <1>1, ToSetOf
<1>3. Live(f) \subseteq Places(f)
  BY DEF Live, Places
<1> QED BY <1>2, <1>3, PlacesTyped DEF Own

LEMMA OrderlyStays ==
  ASSUME NEW f \in Windows, NEW evs, NEW fvs, Onward(evs, fvs), Orderly(f, evs),
         NEW g, LooksAs(f, g), f.kind = "window",
         \A e \in ToSet(f.resolved) : fvs[e].status = "resolved"
  PROVE  Orderly(g, fvs)
<1>1. /\ Own(f) \in SUBSET EventIds /\ ToSet(f.subwindow) \in SUBSET EventIds
      /\ ToSet(f.opened) \in SUBSET EventIds /\ ToSet(f.events) \in SUBSET EventIds
  BY KnownEvents
<1>2. /\ g.step = f.step /\ g.mode = f.mode /\ g.events = f.events
      /\ g.resolved = f.resolved /\ g.subwindow = f.subwindow /\ g.queued = f.queued
      /\ g.opened = f.opened /\ g.initiates = f.initiates
      /\ f.mode = "passes" => Waiting(g.triggers) \subseteq Waiting(f.triggers)
  BY DEF LooksAs
<1>3. \A e \in EventIds : evs[e].status # "unused" =>
        fvs[e].status # "unused" /\ (fvs[e].status = "created" => evs[e].status = "created")
  BY DEF Onward, EventMovesOn, EventStarts
<1>4. Own(g) = Own(f)
  BY <1>2 DEF Own
<1>5. \A e \in Own(g) \cup ToSet(g.subwindow) \cup ToSet(g.opened) : fvs[e].status # "unused"
  BY <1>1, <1>2, <1>3, <1>4 DEF Orderly
<1>6. g.step \notin PreSteps \cup {"resolveEvents"} =>
        g.queued = <<>> /\ \A e \in ToSet(g.events) : fvs[e].status # "created"
  <2>1. ToSet(f.events) \subseteq Own(f)
    BY DEF Own
  <2> QED BY <2>1, <1>1, <1>2, <1>3 DEF Orderly
<1>7. \A e \in ToSet(g.opened) : fvs[e].status = "created" => e \in ToSet(g.events)
  BY <1>1, <1>2, <1>3 DEF Orderly
<1>8. g.mode = "passes" => Waiting(g.triggers) = {}
  BY <1>2 DEF Orderly
<1> QED BY <1>2, <1>5, <1>6, <1>7, <1>8 DEF Orderly

LEMMA TendedStays ==
  ASSUME NEW s, NEW t, NEW i, WindowAt(s, i), Tended(s, i),
         LooksAs(s[i], t[i]),
         Emitted(s[i]) => /\ s[s[i].owner].kind = "window"
                          /\ LooksAs(s[s[i].owner], t[s[i].owner])
  PROVE  Tended(t, i)
<1>1. /\ t[i].step = s[i].step /\ t[i].owner = s[i].owner /\ Own(t[i]) = Own(s[i])
      /\ s[i].triggers.triggering \subseteq t[i].triggers.triggering
      /\ \A x \in t[i].triggers.seen :
            x \in s[i].triggers.seen \/ x[2] \in t[i].triggers.triggering
  BY DEF LooksAs, WindowAt, Own
<1>2. Emitted(t[i]) => Own(t[i]) \subseteq t[t[i].owner].triggers.triggering
  <2> SUFFICES ASSUME Emitted(t[i]) PROVE Own(t[i]) \subseteq t[t[i].owner].triggers.triggering
    OBVIOUS
  <2>1. Emitted(s[i])
    BY <1>1 DEF Emitted
  <2>2. s[s[i].owner].triggers.triggering \subseteq t[s[i].owner].triggers.triggering
    BY <2>1 DEF LooksAs
  <2>3. Own(s[i]) \subseteq s[s[i].owner].triggers.triggering
    BY <2>1 DEF Tended
  <2> QED BY <1>1, <2>2, <2>3
<1>3. \A x \in t[i].triggers.seen : x[2] \in t[i].triggers.triggering
  BY <1>1 DEF Tended
<1> QED BY <1>2, <1>3 DEF Tended

\* The windows below place m look as before: they are still in order, and below m, or at m
\* under a frame that looks the same, as their neighbours see them.
LEMMA PacedBelow ==
  ASSUME NEW s \in Seq(Frames), NEW t \in Seq(Frames), NEW c, Fits(s, c),
         NEW evs, NEW fvs, Onward(evs, fvs), Paced(s, evs),
         NEW m \in Nat, m <= Len(s), m <= Len(t),
         \A i \in 1 .. m : LooksAs(s[i], t[i]),
         \A i \in 1 .. m : WindowAt(s, i) =>
           \A e \in ToSet(s[i].resolved) : fvs[e].status = "resolved",
         NEW i \in 1 .. m, WindowAt(t, i)
  PROVE  /\ Orderly(t[i], fvs) /\ Tended(t, i)
         /\ (i < m \/ (m < Len(s) /\ m < Len(t) /\ SameFace(s[m + 1], t[m + 1])))
              => Adjacent(t, i, fvs)
<1>0. Len(s) \in Nat /\ Len(t) \in Nat
  OBVIOUS
<1>1. i \in 1 .. Len(s) /\ i \in 1 .. Len(t) /\ LooksAs(s[i], t[i])
  BY <1>0
<1>2. WindowAt(s, i)
  BY <1>1 DEF WindowAt, LooksAs
<1>3. /\ Orderly(s[i], evs) /\ Adjacent(s, i, evs) /\ Tended(s, i)
  BY <1>1, <1>2 DEF Paced
<1>4. s[i] \in Windows /\ s[i].kind = "window"
  BY <1>2, WindowsAreTyped
<1>5. Orderly(t[i], fvs)
  BY <1>1, <1>2, <1>3, <1>4, OrderlyStays
<1>6. Tended(t, i)
  <2>1. ASSUME Emitted(s[i])
        PROVE  s[s[i].owner].kind = "window" /\ LooksAs(s[s[i].owner], t[s[i].owner])
    <3>1. BegunFits(s, i)
      <4>1. s[i].step # "setParentEventWindow"
        BY <2>1 DEF Emitted, PreSteps
      <4> QED BY <4>1, <1>1, <1>4 DEF Fits, FitsAt, WindowFits
    <3>2. s[i].owner \in 1 .. i /\ s[s[i].owner].kind = "window"
      BY <3>1 DEF BegunFits
    <3>3. s[i].owner \in 1 .. m
      BY <3>2
    <3> QED BY <3>2, <3>3
  <2> QED BY <1>1, <1>2, <1>3, <2>1, TendedStays
<1>7. ASSUME i < m \/ (m < Len(s) /\ m < Len(t) /\ SameFace(s[m + 1], t[m + 1]))
      PROVE  Adjacent(t, i, fvs)
  <2>1. /\ i < Len(s) /\ i < Len(t) /\ SameFace(s[i + 1], t[i + 1])
    <3>1. CASE i < m
      <4>1. i + 1 \in 1 .. m /\ i < Len(s) /\ i < Len(t)
        BY <3>1, <1>0
      <4> QED BY <4>1, LookAlikes
    <3>2. CASE ~(i < m)
      <4>1. i = m
        BY <3>2
      <4> QED BY <4>1, <1>7
    <3> QED BY <3>1, <3>2
  <2>2. /\ t[i].step = s[i].step /\ t[i].subwindow = s[i].subwindow
        /\ t[i].initiates = s[i].initiates
    BY <1>1, <1>4 DEF LooksAs
  <2>3. \A e \in EventIds : fvs[e].status = "created" => evs[e].status \in {"created", "unused"}
    BY DEF Onward, EventMovesOn, EventStarts
  <2>4. ToSet(s[i].subwindow) \in SUBSET EventIds
    BY <1>4, KnownEvents
  <2>5. (\A e \in ToSet(s[i].subwindow) : evs[e].status # "created")
          => \A e \in ToSet(t[i].subwindow) : fvs[e].status # "created"
    BY <2>2, <2>3, <2>4, <1>3 DEF Orderly
  <2>6. t[i + 1].kind = s[i + 1].kind /\ (s[i + 1].kind = "window" => t[i + 1].opened = s[i + 1].opened)
    BY <2>1 DEF SameFace
  <2>7. i # Len(t)
    BY <2>1
  <2>8. Bears(s[i], s[i + 1], evs)
    BY <2>1, <1>3 DEF Adjacent
  <2>9. Bears(t[i], t[i + 1], fvs)
    BY <2>2, <2>5, <2>6, <2>8 DEF Bears
  <2> QED BY <2>7, <2>9 DEF Adjacent
<1> QED BY <1>5, <1>6, <1>7

\* Below or above place m: where an event has its future.
FutureAbove(s, m, e) == \E i \in m + 1 .. Len(s) : e \in Live(s[i])

LEMMA FutureSplits ==
  ASSUME NEW s \in Seq(Frames), NEW m \in Nat, m <= Len(s), NEW e
  PROVE  HasFuture(s, e) <=> (\E i \in 1 .. m : e \in Live(s[i])) \/ FutureAbove(s, m, e)
<1>1. Len(s) \in Nat
  OBVIOUS
<1>2. \A i : i \in 1 .. Len(s) <=> i \in 1 .. m \/ i \in m + 1 .. Len(s)
  BY <1>1
<1> QED BY <1>2 DEF HasFuture, FutureAbove

\* The events above place m keep their future, and only new ones gain one.
LiveGoesOn(s, t, m, evs, fvs) ==
  \A e \in EventIds :
    /\ fvs[e].status = "created" /\ (evs[e].status # "created" \/ FutureAbove(s, m, e))
         => FutureAbove(t, m, e)
    /\ FutureAbove(t, m, e) => evs[e].status = "unused" \/ FutureAbove(s, m, e)

LEMMA PlacedGoesOn ==
  ASSUME NEW s \in Seq(Frames), NEW t \in Seq(Frames), NEW evs, NEW fvs,
         NEW m \in Nat, m <= Len(s), m <= Len(t),
         \A i \in 1 .. m : LooksAs(s[i], t[i]),
         Placed(s, evs), LiveGoesOn(s, t, m, evs, fvs)
  PROVE  /\ Placed(t, fvs)
         /\ \A e \in EventIds : HasFuture(t, e) => evs[e].status = "unused" \/ HasFuture(s, e)
<1>1. \A i \in 1 .. m : Live(t[i]) = Live(s[i])
  BY LookAlikes
<1>2. ASSUME NEW e \in EventIds
      PROVE  /\ fvs[e].status = "created" => HasFuture(t, e)
             /\ HasFuture(t, e) => evs[e].status = "unused" \/ HasFuture(s, e)
  <2>1. /\ fvs[e].status = "created" /\ (evs[e].status # "created" \/ FutureAbove(s, m, e))
             => FutureAbove(t, m, e)
        /\ FutureAbove(t, m, e) => evs[e].status = "unused" \/ FutureAbove(s, m, e)
    BY DEF LiveGoesOn
  <2>2. HasFuture(s, e) <=> (\E i \in 1 .. m : e \in Live(s[i])) \/ FutureAbove(s, m, e)
    BY FutureSplits
  <2>3. HasFuture(t, e) <=> (\E i \in 1 .. m : e \in Live(t[i])) \/ FutureAbove(t, m, e)
    BY FutureSplits
  <2>4. evs[e].status = "created" => HasFuture(s, e)
    BY DEF Placed
  <2> QED BY <1>1, <2>1, <2>2, <2>3, <2>4
<1> QED BY <1>2 DEF Placed

\* Triggers go on to wait, and none is missed anew.
LEMMA DealtGoesOn ==
  ASSUME NEW s \in Seq(Frames), NEW t \in Seq(Frames), NEW evs, NEW fvs, Onward(evs, fvs),
         evs \in [EventIds -> EventRecords],
         Dealt(s, evs), MissedMatch(s, evs),
         \A x \in Triggers : Waits(s, x) => Waits(t, x),
         \A x \in Triggers : MissedIn(t, x) => MissedIn(s, x),
         \A e \in EventIds : HasFuture(t, e) => evs[e].status = "unused" \/ HasFuture(s, e)
  PROVE  Dealt(t, fvs) /\ MissedMatch(t, fvs)
<1>1. ASSUME NEW e \in EventIds, fvs[e].status \in {"created", "resolved"},
             NEW a \in fvs[e].due
      PROVE  fvs[e].times[a] > 0 \/ a \in fvs[e].excused \/ Waits(t, <<a, e>>)
  <2>1. fvs[e] = evs[e] \/ EventMovesOn(evs[e], fvs[e])
    BY <1>1 DEF Onward, EventStarts
  <2>2. /\ evs[e].status \in {"created", "resolved"} /\ a \in evs[e].due
        /\ fvs[e].times = evs[e].times /\ evs[e].excused \subseteq fvs[e].excused
    BY <1>1, <2>1 DEF EventMovesOn
  <2>3. <<a, e>> \in Triggers
    BY <2>2 DEF EventRecords, Triggers
  <2> QED BY <2>2, <2>3 DEF Dealt
<1>2. ASSUME NEW x \in Triggers, MissedIn(t, x)
      PROVE  fvs[x[2]].status # "unused" /\ (x[1] \in fvs[x[2]].missed \/ ~HasFuture(t, x[2]))
  <2>1. x[2] \in EventIds
    BY DEF Triggers
  <2>2. evs[x[2]].status # "unused" /\ (x[1] \in evs[x[2]].missed \/ ~HasFuture(s, x[2]))
    BY <1>2 DEF MissedMatch
  <2>3. fvs[x[2]].status # "unused" /\ fvs[x[2]].missed = evs[x[2]].missed
    BY <2>1, <2>2 DEF Onward, EventMovesOn, EventStarts
  <2> QED BY <2>1, <2>2, <2>3
<1> QED BY <1>1, <1>2 DEF Dealt, MissedMatch

WaitsAbove(s, m, x) ==
  \E i \in m + 1 .. Len(s) : WindowAt(s, i) /\ s[i].triggers.unresolved[x] > 0
MissedAbove(s, m, x) ==
  \E i \in m + 1 .. Len(s) : WindowAt(s, i) /\ x \in s[i].triggers.missed

PacedAbove(s, m, evs) ==
  \A i \in m + 1 .. Len(s) : WindowAt(s, i) =>
    Orderly(s[i], evs) /\ Adjacent(s, i, evs) /\ Tended(s, i)

\* The frames above place m change, and those up to m stay.
LEMMA FutureGoesOn ==
  ASSUME NEW s \in Seq(Frames), NEW t \in Seq(Frames), NEW c, Fits(s, c),
         NEW evs \in [EventIds -> EventRecords], NEW fvs, Onward(evs, fvs),
         Future(s, evs),
         NEW m \in Nat, m <= Len(s), m <= Len(t), \A i \in 1 .. m : t[i] = s[i],
         \A i \in 1 .. m : WindowAt(s, i) =>
           \A e \in ToSet(s[i].resolved) : fvs[e].status = "resolved",
         PacedAbove(t, m, fvs),
         \/ Adjacent(t, m, fvs) \/ ~WindowAt(t, m)
         \/ m < Len(s) /\ m < Len(t) /\ SameFace(s[m + 1], t[m + 1]),
         LiveGoesOn(s, t, m, evs, fvs),
         \A x \in Triggers : WaitsAbove(s, m, x) => WaitsAbove(t, m, x),
         \A x \in Triggers : MissedAbove(t, m, x) => MissedAbove(s, m, x)
  PROVE  Future(t, fvs)
<1>0. Len(s) \in Nat /\ Len(t) \in Nat
  OBVIOUS
<1>1. \A i \in 1 .. m : LooksAs(s[i], t[i])
  BY EqualLooksAs
<1>2. Paced(t, fvs)
  <2> SUFFICES ASSUME NEW i \in 1 .. Len(t), WindowAt(t, i)
               PROVE  Orderly(t[i], fvs) /\ Adjacent(t, i, fvs) /\ Tended(t, i)
    BY DEF Paced
  <2>1. CASE i \in 1 .. m
    <3>1. /\ Orderly(t[i], fvs) /\ Tended(t, i)
          /\ (i < m \/ (m < Len(s) /\ m < Len(t) /\ SameFace(s[m + 1], t[m + 1])))
              => Adjacent(t, i, fvs)
      BY <1>1, <2>1, PacedBelow DEF Future
    <3>2. i < m \/ i = m
      BY <2>1
    <3> QED BY <3>1, <3>2
  <2>2. CASE i \notin 1 .. m
    <3>1. i \in m + 1 .. Len(t)
      BY <2>2, <1>0
    <3> QED BY <3>1 DEF PacedAbove
  <2> QED BY <2>1, <2>2
<1>3. /\ Placed(t, fvs)
      /\ \A e \in EventIds : HasFuture(t, e) => evs[e].status = "unused" \/ HasFuture(s, e)
  BY <1>1, PlacedGoesOn DEF Future
<1>4. \A i : i \in 1 .. Len(s) <=> i \in 1 .. m \/ i \in m + 1 .. Len(s)
  BY <1>0
<1>5. \A i : i \in 1 .. Len(t) <=> i \in 1 .. m \/ i \in m + 1 .. Len(t)
  BY <1>0
<1>6. \A i \in 1 .. m : WindowAt(t, i) <=> WindowAt(s, i)
  BY <1>0 DEF WindowAt
<1>7. ASSUME NEW x \in Triggers, Waits(s, x) PROVE Waits(t, x)
  <2>1. PICK i \in 1 .. Len(s) : WindowAt(s, i) /\ s[i].triggers.unresolved[x] > 0
    BY <1>7 DEF Waits
  <2>2. CASE i \in 1 .. m
    BY <2>1, <2>2, <1>5, <1>6 DEF Waits
  <2>3. CASE i \in m + 1 .. Len(s)
    <3>1. WaitsAbove(t, m, x)
      BY <2>1, <2>3 DEF WaitsAbove
    <3> QED BY <3>1, <1>5 DEF Waits, WaitsAbove
  <2> QED BY <2>2, <2>3, <1>4
<1>8. ASSUME NEW x \in Triggers, MissedIn(t, x) PROVE MissedIn(s, x)
  <2>1. PICK i \in 1 .. Len(t) : WindowAt(t, i) /\ x \in t[i].triggers.missed
    BY <1>8 DEF MissedIn
  <2>2. CASE i \in 1 .. m
    BY <2>1, <2>2, <1>4, <1>6 DEF MissedIn
  <2>3. CASE i \in m + 1 .. Len(t)
    <3>1. MissedAbove(s, m, x)
      BY <2>1, <2>3 DEF MissedAbove
    <3> QED BY <3>1, <1>4 DEF MissedIn, MissedAbove
  <2> QED BY <2>2, <2>3, <1>5
<1>9. Dealt(t, fvs) /\ MissedMatch(t, fvs)
  BY <1>3, <1>7, <1>8, DealtGoesOn DEF Future
<1> QED BY <1>2, <1>3, <1>9 DEF Future

\* The events a window has resolved stay so when a place above it deals with others.
ResolvedBelow(s, fvs) ==
  \A i \in 1 .. Len(s) - 1 : WindowAt(s, i) =>
    \A e \in ToSet(s[i].resolved) : fvs[e].status = "resolved"

\* The events of frame f go on into the frames G.
LivesOn(f, G, evs, fvs) ==
  \A e \in EventIds :
    /\ fvs[e].status = "created" /\ (evs[e].status # "created" \/ e \in Live(f))
         => \E g \in G : e \in Live(g)
    /\ (\E g \in G : e \in Live(g)) => evs[e].status = "unused" \/ e \in Live(f)

\* The window on top goes on, and collects no triggers.
LEMMA TopFuture ==
  ASSUME NEW s \in Seq(Frames), s # <<>>, NEW c, Fits(s, c),
         NEW evs \in [EventIds -> EventRecords], NEW fvs, Onward(evs, fvs),
         Future(s, evs), ResolvedBelow(s, fvs),
         s[Len(s)].kind = "window",
         NEW g \in Windows, g.opened = s[Len(s)].opened, g.triggers = s[Len(s)].triggers,
         NEW t, t = Replaced(s, Len(s), g),
         Orderly(g, fvs), Adjacent(t, Len(s), fvs), Tended(t, Len(s)),
         LivesOn(s[Len(s)], {g}, evs, fvs)
  PROVE  Future(t, fvs)
<1> DEFINE m == Len(s) - 1
<1>1. /\ Len(s) \in Nat \ {0} /\ t \in Seq(Frames) /\ Len(t) = Len(s) /\ t[Len(s)] = g
      /\ \A i \in 1 .. m : t[i] = s[i]
  BY TopReplaced DEF Replaced, Frames
<1>2. m \in Nat /\ m + 1 = Len(s) /\ m < Len(s) /\ m < Len(t)
  BY <1>1
<1>3. \A i \in m + 1 .. Len(s) : i = Len(s)
  BY <1>1
<1>4. Len(s) \in m + 1 .. Len(s)
  BY <1>1
<1> HIDE DEF m
<1>5. g.kind = "window" /\ WindowAt(t, Len(s)) /\ WindowAt(s, Len(s))
  BY <1>1 DEF Windows, WindowRecords, WindowAt
<1>6. SameFace(s[m + 1], t[m + 1])
  BY <1>1, <1>2, <1>5 DEF SameFace
<1>7. PacedAbove(t, m, fvs)
  BY <1>1, <1>3 DEF PacedAbove
<1>8. \A e : FutureAbove(s, m, e) <=> e \in Live(s[Len(s)])
  BY <1>1, <1>3, <1>4 DEF FutureAbove
<1>9. \A e : FutureAbove(t, m, e) <=> e \in Live(g)
  BY <1>1, <1>3, <1>4 DEF FutureAbove
<1>10. LiveGoesOn(s, t, m, evs, fvs)
  BY <1>8, <1>9 DEF LivesOn, LiveGoesOn
<1>11. \A x \in Triggers : WaitsAbove(s, m, x) => WaitsAbove(t, m, x)
  BY <1>1, <1>3, <1>4, <1>5 DEF WaitsAbove
<1>12. \A x \in Triggers : MissedAbove(t, m, x) => MissedAbove(s, m, x)
  BY <1>1, <1>3, <1>4, <1>5 DEF MissedAbove
<1>13. \A i \in 1 .. m : WindowAt(s, i) =>
         \A e \in ToSet(s[i].resolved) : fvs[e].status = "resolved"
  BY DEF ResolvedBelow, m
<1> QED BY <1>1, <1>2, <1>6, <1>7, <1>10, <1>11, <1>12, <1>13, FutureGoesOn, SMTT(40)

\* The owner of the top window's triggers still collects those of its events.
LEMMA TopTended ==
  ASSUME NEW s \in Seq(Frames), s # <<>>, NEW c, Fits(s, c), NEW evs, Paced(s, evs),
         WindowAt(s, Len(s)), NEW t,
         \A i \in 1 .. Len(s) : WindowAt(s, i) => t[i].triggers = s[i].triggers,
         LET g == t[Len(s)] f == s[Len(s)]
         IN  \/ ~Emitted(g) \/ Own(g) = {}
             \/ Emitted(f) /\ g.owner = f.owner /\ Own(g) \subseteq Own(f)
  PROVE  Tended(t, Len(s))
<1> DEFINE k == Len(s)
           f == s[k]
           g == t[k]
<1>1. k \in 1 .. k /\ WindowAt(s, k) /\ k = Len(s)
  OBVIOUS
<1>2. Tended(s, k)
  BY <1>1 DEF Paced
<1>3. g.triggers = f.triggers
  BY <1>1
<1>4. ASSUME Emitted(f), g.owner = f.owner, Own(g) \subseteq Own(f)
      PROVE  Own(g) \subseteq t[g.owner].triggers.triggering
  <2>1. BegunFits(s, k)
    <3>1. f.step # "setParentEventWindow"
      BY <1>4 DEF Emitted, PreSteps
    <3> QED BY <3>1, <1>1 DEF Fits, FitsAt, WindowFits, WindowAt
  <2>2. f.owner \in 1 .. k /\ WindowAt(s, f.owner)
    BY <2>1, <1>1 DEF BegunFits, WindowAt
  <2>3. t[f.owner].triggers = s[f.owner].triggers
    BY <2>2, <1>1
  <2>4. Own(f) \subseteq s[f.owner].triggers.triggering
    BY <1>2, <1>4 DEF Tended
  <2> QED BY <2>3, <2>4, <1>4
<1>5. Emitted(g) => Own(g) \subseteq t[g.owner].triggers.triggering
  <2>1. CASE Emitted(f) /\ g.owner = f.owner /\ Own(g) \subseteq Own(f)
    BY <1>4, <2>1
  <2>2. CASE ~Emitted(g) \/ Own(g) = {}
    BY <2>2
  <2> QED BY <2>1, <2>2
<1>6. \A x \in g.triggers.seen : x[2] \in g.triggers.triggering
  BY <1>2, <1>3 DEF Tended
<1> QED BY <1>5, <1>6 DEF Tended

\* A frame is put on the one on top, which changes.
LEMMA PushedFuture ==
  ASSUME NEW s \in Seq(Frames), s # <<>>, NEW c, Fits(s, c),
         NEW evs \in [EventIds -> EventRecords], NEW fvs, Onward(evs, fvs),
         Future(s, evs), ResolvedBelow(s, fvs),
         NEW g \in Frames, SameFace(s[Len(s)], g),
         g.kind = "window" => g.triggers = s[Len(s)].triggers,
         NEW w \in Frames, NEW t, t = Append(Replaced(s, Len(s), g), w),
         g.kind = "window" =>
           Orderly(g, fvs) /\ Bears(g, w, fvs) /\ Tended(t, Len(s)),
         w.kind = "window" =>
           /\ Orderly(w, fvs) /\ Rests(w, fvs) /\ Tended(t, Len(s) + 1)
           /\ w.triggers.missed = {},
         LivesOn(s[Len(s)], {g, w}, evs, fvs)
  PROVE  Future(t, fvs)
<1> DEFINE m == Len(s) - 1
           k == Len(s)
           u == Replaced(s, k, g)
<1>1. /\ k \in Nat \ {0} /\ u \in Seq(Frames) /\ Len(u) = k /\ u[k] = g
      /\ \A i \in 1 .. m : u[i] = s[i]
  BY TopReplaced DEF Replaced
<1>2. m \in Nat /\ m + 1 = k /\ m < k /\ k = Len(s)
  BY <1>1
<1> HIDE DEF m, u, k
<1>3. /\ t \in Seq(Frames) /\ Len(t) = k + 1 /\ t[k + 1] = w
      /\ \A i \in 1 .. k : t[i] = u[i]
  BY <1>1 DEF u, k
<1>4. t[k] = g /\ \A i \in 1 .. m : t[i] = s[i]
  BY <1>1, <1>2, <1>3
<1>5. \A i \in m + 1 .. k : i = k
  BY <1>1, <1>2
<1>6. k \in m + 1 .. Len(s) /\ k \in m + 1 .. Len(t) /\ k + 1 \in m + 1 .. Len(t)
  BY <1>1, <1>2, <1>3
<1>7. \A i \in m + 1 .. Len(t) : i = k \/ i = k + 1
  BY <1>1, <1>2, <1>3
<1>8. SameFace(s[m + 1], t[m + 1])
  BY <1>2, <1>4
<1>9. PacedAbove(t, m, fvs)
  <2> SUFFICES ASSUME NEW i \in m + 1 .. Len(t), WindowAt(t, i)
               PROVE  Orderly(t[i], fvs) /\ Adjacent(t, i, fvs) /\ Tended(t, i)
    BY DEF PacedAbove
  <2>1. CASE i = k
    BY <2>1, <1>1, <1>2, <1>3, <1>4 DEF WindowAt, Adjacent
  <2>2. CASE i = k + 1
    BY <2>2, <1>1, <1>2, <1>3 DEF WindowAt, Adjacent
  <2> QED BY <2>1, <2>2, <1>7
<1>10. \A e : FutureAbove(s, m, e) <=> e \in Live(s[k])
  BY <1>2, <1>5, <1>6 DEF FutureAbove
<1>11. \A e : FutureAbove(t, m, e) <=> e \in Live(g) \/ e \in Live(w)
  BY <1>3, <1>4, <1>6, <1>7 DEF FutureAbove
<1>12. LiveGoesOn(s, t, m, evs, fvs)
  BY <1>2, <1>10, <1>11 DEF LivesOn, LiveGoesOn
<1>13. ASSUME NEW x \in Triggers, WaitsAbove(s, m, x) PROVE WaitsAbove(t, m, x)
  <2>1. WindowAt(s, k) /\ s[k].triggers.unresolved[x] > 0
    BY <1>2, <1>5, <1>13 DEF WaitsAbove
  <2>2. WindowAt(t, k) /\ t[k].triggers = s[k].triggers
    BY <2>1, <1>1, <1>2, <1>3, <1>4 DEF WindowAt, SameFace
  <2> QED BY <2>1, <2>2, <1>6 DEF WaitsAbove
<1>14. ASSUME NEW x \in Triggers, MissedAbove(t, m, x) PROVE MissedAbove(s, m, x)
  <2>1. PICK i \in m + 1 .. Len(t) : WindowAt(t, i) /\ x \in t[i].triggers.missed
    BY <1>14 DEF MissedAbove
  <2>2. i # k + 1
    BY <2>1, <1>3 DEF WindowAt
  <2>3. i = k
    BY <2>2, <1>7
  <2>4. WindowAt(s, k) /\ t[k].triggers = s[k].triggers
    BY <2>1, <2>3, <1>1, <1>2, <1>4 DEF WindowAt, SameFace
  <2> QED BY <2>1, <2>3, <2>4, <1>6 DEF MissedAbove
<1>15. \A i \in 1 .. m : WindowAt(s, i) =>
         \A e \in ToSet(s[i].resolved) : fvs[e].status = "resolved"
  BY DEF ResolvedBelow, m
<1>16. m < Len(s) /\ m < Len(t) /\ m <= Len(s) /\ m <= Len(t)
  BY <1>1, <1>2, <1>3
<1> QED BY <1>2, <1>3, <1>4, <1>8, <1>9, <1>12, <1>13, <1>14, <1>15, <1>16, FutureGoesOn

\* The frame on top ends, with no event that has not happened and no trigger that waits.
LEMMA PoppedFuture ==
  ASSUME NEW s \in Seq(Frames), s # <<>>, NEW c, Fits(s, c),
         NEW evs \in [EventIds -> EventRecords], NEW fvs, Onward(evs, fvs),
         Future(s, evs), ResolvedBelow(s, fvs),
         NEW t \in Seq(Frames), Len(t) = Len(s) - 1,
         \A i \in 1 .. Len(s) - 1 : t[i] = s[i],
         WindowAt(t, Len(t)) => Rests(t[Len(t)], fvs),
         LivesOn(s[Len(s)], {}, evs, fvs),
         WindowAt(s, Len(s)) => Waiting(s[Len(s)].triggers) = {}
  PROVE  Future(t, fvs)
<1> DEFINE m == Len(s) - 1
<1>1. /\ m \in Nat /\ m + 1 = Len(s) /\ m <= Len(s) /\ m <= Len(t) /\ Len(t) = m
      /\ \A i \in 1 .. m : t[i] = s[i]
  OBVIOUS
<1>2. \A i \in 1 .. m : WindowAt(s, i) =>
         \A e \in ToSet(s[i].resolved) : fvs[e].status = "resolved"
  BY DEF ResolvedBelow, m
<1> HIDE DEF m
<1>3. ~\E i \in m + 1 .. Len(t) : TRUE
  BY <1>1
<1>4. \A i \in m + 1 .. Len(s) : i = Len(s)
  BY <1>1
<1>5. Len(s) \in m + 1 .. Len(s)
  BY <1>1
<1>6. PacedAbove(t, m, fvs) /\ (\A x \in Triggers : ~MissedAbove(t, m, x))
      /\ \A e : ~FutureAbove(t, m, e)
  BY <1>3 DEF PacedAbove, MissedAbove, FutureAbove
<1>7. \A e : FutureAbove(s, m, e) <=> e \in Live(s[Len(s)])
  BY <1>4, <1>5 DEF FutureAbove
<1>8. LiveGoesOn(s, t, m, evs, fvs)
  BY <1>6, <1>7 DEF LivesOn, LiveGoesOn
<1>9. \A x \in Triggers : ~WaitsAbove(s, m, x)
  BY <1>4 DEF WaitsAbove, Waiting
<1>10. Adjacent(t, m, fvs) \/ ~WindowAt(t, m)
  BY <1>1 DEF Adjacent
<1> QED BY <1>1, <1>2, <1>6, <1>8, <1>9, <1>10, FutureGoesOn

LEMMA FutureOfTop ==
  ASSUME FutureInv, stack # <<>>
  PROVE  /\ stack \in Seq(Frames) /\ events \in [EventIds -> EventRecords]
         /\ n = Len(stack) /\ n \in 1 .. Len(stack) /\ Top = stack[n] /\ Top = stack[Len(stack)]
         /\ Fits(stack, current) /\ Future(stack, events) /\ History(stack, events)
         /\ Top.kind = "window" =>
              /\ Top \in Windows /\ WindowAt(stack, n) /\ Orderly(Top, events)
              /\ Rests(Top, events) /\ Apart(Top)
<1>1. PipelineInv /\ Types /\ HistoryInv
  BY DEF FutureInv, HistoryInv, PipelineInv
<1>2. /\ stack \in Seq(Frames) /\ events \in [EventIds -> EventRecords]
      /\ n = Len(stack) /\ n \in 1 .. Len(stack) /\ Top = stack[n] /\ Top \in Frames
  BY <1>1, TopIsFrame DEF Types, n, Top
<1>3. Fits(stack, current) /\ Future(stack, events) /\ History(stack, events)
  BY <1>1 DEF FutureInv, PipelineInv, StackFits, HistoryInv
<1>4. ASSUME Top.kind = "window"
      PROVE  /\ Top \in Windows /\ WindowAt(stack, n) /\ Orderly(Top, events)
             /\ Rests(Top, events) /\ Apart(Top)
  <2>1. Top \in Windows /\ WindowAt(stack, n)
    BY <1>2, <1>4, FramesOfKinds DEF WindowAt
  <2>2. Orderly(stack[n], events) /\ Adjacent(stack, n, events)
    BY <1>2, <1>3, <2>1 DEF Future, Paced
  <2> QED BY <1>1, <1>2, <1>4, <2>1, <2>2, TopIsApart DEF Adjacent
<1> QED BY <1>2, <1>3, <1>4

LEMMA ResolvedBelowStays ==
  ASSUME FutureInv, stack # <<>>,
         NEW fvs, NEW X, X = {} \/ (Top.kind = "window" /\ X \subseteq Places(Top)),
         \A e \in EventIds : e \notin X /\ events[e].status = "resolved"
                               => fvs[e].status = "resolved"
  PROVE  ResolvedBelow(stack, fvs)
<1> SUFFICES ASSUME NEW i \in 1 .. Len(stack) - 1, WindowAt(stack, i),
                    NEW e \in ToSet(stack[i].resolved)
             PROVE  fvs[e].status = "resolved"
  BY DEF ResolvedBelow
<1>1. /\ stack \in Seq(Frames) /\ n = Len(stack) /\ n \in 1 .. Len(stack) /\ Top = stack[n]
      /\ Future(stack, events) /\ History(stack, events)
      /\ Top.kind = "window" => WindowAt(stack, n)
  BY FutureOfTop
<1>2. i \in 1 .. Len(stack) /\ i # n /\ stack[i] \in Windows
  BY <1>1, WindowsAreTyped
<1>3. e \in EventIds
  BY <1>2, KnownEvents
<1>4. events[e].status = "resolved"
  BY <1>1, <1>2 DEF Future, Paced, Orderly
<1>5. e \in Places(stack[i])
  BY DEF Places, Own
<1>6. Top.kind = "window" => e \notin Places(Top)
  BY <1>1, <1>2, <1>5 DEF History, InPlace
<1> QED BY <1>3, <1>4, <1>6

\* The events a window in its first steps has before it or has just resolved.
Known(f) == Own(f) \cup ToSet(f.subwindow) \cup Queue(f)

LEMMA LiveEarly ==
  ASSUME NEW f, f.kind = "window", f.step \in EarlySteps
  PROVE  Live(f) = Known(f) /\ f.step \in SubwindowSteps
BY DEF Live, Known, Sub, EarlySteps, SubwindowSteps

\* The window on top goes through its first steps: N are the events that come up.
LEMMA EarlyTopFuture ==
  ASSUME FutureInv, stack # <<>>, Top.kind = "window", Top.step \in EarlySteps,
         NEW fvs, Onward(events, fvs),
         \A e \in EventIds : e \notin Places(Top) /\ events[e].status = "resolved"
                               => fvs[e].status = "resolved",
         NEW g \in Windows, g.step \in EarlySteps, g.opened = Top.opened,
         g.triggers = Top.triggers, g.mode = Top.mode,
         NEW N \in SUBSET EventIds,
         \A e \in N : events[e].status = "unused" /\ fvs[e].status # "unused",
         \A e \in EventIds : fvs[e].status = "created" =>
           events[e].status = "created" \/ e \in N,
         Known(g) \subseteq Known(Top) \cup N, N \subseteq Known(g),
         \A e \in Known(Top) : fvs[e].status = "created" => e \in Known(g),
         \A e \in ToSet(g.resolved) : fvs[e].status = "resolved",
         g.step = "postResolutionTriggers" =>
           g.queued = <<>> /\ \A e \in ToSet(g.events) : fvs[e].status # "created",
         \A e \in ToSet(g.opened) : fvs[e].status = "created" => e \in ToSet(g.events),
         g.initiates =>
           /\ g.step \in {"setParentEventWindow", "resolveEvents"}
           /\ g.events = <<>> /\ g.subwindow = <<>> /\ g.queued = <<>>,
         \/ ~Emitted(g) \/ Own(g) = {}
         \/ Emitted(Top) /\ g.owner = Top.owner /\ Own(g) \subseteq Own(Top)
  PROVE  Future(SetTop(g), fvs)
<1> DEFINE t == Replaced(stack, Len(stack), g)
<1>1. /\ stack \in Seq(Frames) /\ events \in [EventIds -> EventRecords]
      /\ n = Len(stack) /\ n \in 1 .. Len(stack) /\ Top = stack[n] /\ Top = stack[Len(stack)]
      /\ Fits(stack, current) /\ Future(stack, events) /\ History(stack, events)
      /\ Top \in Windows /\ WindowAt(stack, n) /\ Orderly(Top, events)
  BY FutureOfTop
<1>2. g.kind = "window"
  BY DEF Windows, WindowRecords
<1>3. Live(g) = Known(g) /\ g.step \in SubwindowSteps /\ g.step # "cleanup"
  BY <1>2, LiveEarly DEF EarlySteps, PreSteps
<1>4. Live(Top) = Known(Top)
  BY LiveEarly
<1>5. ResolvedBelow(stack, fvs)
  BY ResolvedBelowStays
<1>6. Known(Top) \in SUBSET EventIds /\ Known(g) \in SUBSET EventIds
  BY <1>1, <1>3, <1>4, KnownEvents
<1>7. \A e \in EventIds : events[e].status # "unused" => fvs[e].status # "unused"
  BY DEF Onward, EventMovesOn, EventStarts
<1>8. Orderly(g, fvs)
  <2>1. \A e \in Queue(Top) : events[e].status # "unused"
    BY <1>1 DEF History, InUse, Places
  <2>2. \A e \in Known(Top) : events[e].status # "unused"
    BY <1>1, <2>1 DEF Known, Orderly
  <2>3. \A e \in Known(g) : fvs[e].status # "unused"
    BY <1>6, <1>7, <2>2
  <2>4. \A e \in ToSet(g.opened) : fvs[e].status # "unused"
    BY <1>1, <1>7, KnownEvents DEF Orderly
  <2>5. \A e \in Own(g) \cup ToSet(g.subwindow) \cup ToSet(g.opened) : fvs[e].status # "unused"
    BY <2>3, <2>4 DEF Known
  <2>6. g.step \notin PreSteps \cup {"resolveEvents"} => g.step = "postResolutionTriggers"
    BY DEF EarlySteps
  <2>7. g.mode = "passes" => Waiting(g.triggers) = {}
    BY <1>1 DEF Orderly
  <2> QED BY <2>5, <2>6, <2>7 DEF Orderly
<1>9. /\ t \in Seq(Frames) /\ Len(t) = Len(stack) /\ t[Len(stack)] = g
      /\ \A i \in 1 .. Len(stack) - 1 : t[i] = stack[i]
  BY <1>1, TopReplaced DEF Replaced, Frames
<1> HIDE DEF t
<1>10. Adjacent(t, Len(stack), fvs)
  BY <1>3, <1>9 DEF Adjacent, Rests
<1>11. Tended(t, Len(stack))
  <2>1. \A i \in 1 .. Len(stack) : t[i].triggers = stack[i].triggers
    <3>1. \A i \in 1 .. Len(stack) : i \in 1 .. Len(stack) - 1 \/ i = Len(stack)
      BY <1>1
    <3> QED BY <1>1, <1>9, <3>1
  <2> QED BY <1>1, <1>9, <2>1, TopTended DEF Future
<1>12. LivesOn(Top, {g}, events, fvs)
  <2> SUFFICES ASSUME NEW e \in EventIds
               PROVE  /\ fvs[e].status = "created" /\ (events[e].status # "created" \/ e \in Live(Top))
                           => e \in Live(g)
                      /\ e \in Live(g) => events[e].status = "unused" \/ e \in Live(Top)
    BY DEF LivesOn
  <2> QED BY <1>3, <1>4
<1>13. Future(t, fvs)
  BY <1>1, <1>5, <1>8, <1>10, <1>11, <1>12, TopFuture DEF t
<1>14. SetTop(g) = t
  BY <1>1 DEF SetTop, Replaced, t
<1> QED BY <1>13, <1>14

\* ... and when none comes up.
LEMMA EarlyTopKeeps ==
  ASSUME FutureInv, stack # <<>>, Top.kind = "window", Top.step \in EarlySteps,
         NEW fvs, Onward(events, fvs),
         \A e \in EventIds : e \notin Places(Top) /\ events[e].status = "resolved"
                               => fvs[e].status = "resolved",
         NEW g \in Windows, g.step \in EarlySteps, g.opened = Top.opened,
         g.triggers = Top.triggers, g.mode = Top.mode,
         \A e \in EventIds : fvs[e].status = "created" => events[e].status = "created",
         Known(g) \subseteq Known(Top),
         \A e \in Known(Top) : fvs[e].status = "created" => e \in Known(g),
         \A e \in ToSet(g.resolved) : fvs[e].status = "resolved",
         g.step = "postResolutionTriggers" =>
           g.queued = <<>> /\ \A e \in ToSet(g.events) : fvs[e].status # "created",
         \A e \in ToSet(g.opened) : fvs[e].status = "created" => e \in ToSet(g.events),
         g.initiates =>
           /\ g.step \in {"setParentEventWindow", "resolveEvents"}
           /\ g.events = <<>> /\ g.subwindow = <<>> /\ g.queued = <<>>,
         \/ ~Emitted(g) \/ Own(g) = {}
         \/ Emitted(Top) /\ g.owner = Top.owner /\ Own(g) \subseteq Own(Top)
  PROVE  Future(SetTop(g), fvs)
<1> DEFINE N == {}
<1>1. /\ N \in SUBSET EventIds /\ N \subseteq Known(g) /\ Known(g) \subseteq Known(Top) \cup N
      /\ \A e \in N : events[e].status = "unused" /\ fvs[e].status # "unused"
      /\ \A e \in EventIds : fvs[e].status = "created" => events[e].status = "created" \/ e \in N
  OBVIOUS
<1> HIDE DEF N
<1> QED BY <1>1, EarlyTopFuture

LEMMA EventsOnward ==
  ASSUME NEW evs
  PROVE  Onward(evs, evs)
BY DEF Onward

\* The other events stay when one is removed.
LEMMA OthersRemain ==
  ASSUME NEW S, NEW q \in Seq(S), NEW i \in 1 .. Len(q), NEW j \in 1 .. Len(q), i # j
  PROVE  q[j] \in ToSet(RemoveAt(q, i))
<1> DEFINE front == SubSeq(q, 1, i - 1)
           back == SubSeq(q, i + 1, Len(q))
<1>1. Len(q) \in Nat /\ \A k \in 1 .. Len(q) : q[k] \in S
  OBVIOUS
<1>2. front \in Seq(S) /\ Len(front) = i - 1 /\ \A k \in 1 .. i - 1 : front[k] = q[k]
  <2>1. \A k \in 1 .. i - 1 : q[k] \in S
    BY <1>1
  <2>2. front \in Seq(S) /\ Len(front) = IF 1 <= i - 1 THEN i - 1 - 1 + 1 ELSE 0
    BY <2>1, SubSeqProperties
  <2>3. \A k \in 1 .. (i - 1) - 1 + 1 : front[k] = q[1 + k - 1]
    BY <2>1, SubSeqProperties
  <2> HIDE DEF front
  <2>4. Len(front) = i - 1
    <3>1. CASE 1 <= i - 1
      BY <2>2, <3>1
    <3>2. CASE ~(1 <= i - 1)
      <4>1. Len(front) = 0 /\ i = 1
        BY <2>2, <3>2
      <4> QED BY <4>1
    <3> QED BY <3>1, <3>2
  <2>5. \A k \in 1 .. i - 1 : front[k] = q[k]
    BY <2>3
  <2> QED BY <2>2, <2>4, <2>5
<1>3. back \in Seq(S) /\ Len(back) = Len(q) - i /\ \A k \in 1 .. Len(q) - i : back[k] = q[i + k]
  <2>1. \A k \in i + 1 .. Len(q) : q[k] \in S
    BY <1>1
  <2>2. back \in Seq(S) /\ Len(back) = IF i + 1 <= Len(q) THEN Len(q) - (i + 1) + 1 ELSE 0
    BY <1>1, <2>1, SubSeqProperties
  <2>3. \A k \in 1 .. Len(q) - (i + 1) + 1 : back[k] = q[i + 1 + k - 1]
    BY <1>1, <2>1, SubSeqProperties
  <2> HIDE DEF back
  <2>4. Len(back) = Len(q) - i
    <3>1. CASE i + 1 <= Len(q)
      BY <1>1, <2>2, <3>1
    <3>2. CASE ~(i + 1 <= Len(q))
      <4>1. Len(back) = 0 /\ i = Len(q)
        BY <1>1, <2>2, <3>2
      <4> QED BY <4>1
    <3> QED BY <3>1, <3>2
  <2>5. ASSUME NEW k \in 1 .. Len(q) - i PROVE back[k] = q[i + k]
    <3>1. k \in 1 .. Len(q) - (i + 1) + 1 /\ i + 1 + k - 1 = i + k
      BY <1>1
    <3>2. back[k] = q[i + 1 + k - 1]
      BY <2>3, <3>1
    <3> QED BY <3>1, <3>2
  <2> QED BY <2>2, <2>4, <2>5
<1> HIDE DEF front, back
<1>4. ToSet(front \o back) = ToSet(front) \cup ToSet(back)
  BY <1>2, <1>3, CombinedElements
<1>5. q[j] \in ToSet(front) \cup ToSet(back)
  <2>1. CASE j < i
    <3>1. j \in 1 .. Len(front) /\ front[j] = q[j]
      BY <1>2, <2>1
    <3> QED BY <3>1, <1>2 DEF ToSet
  <2>2. CASE j > i
    <3>1. j - i \in 1 .. Len(back) /\ back[j - i] = q[j]
      BY <1>1, <1>3, <2>2
    <3> QED BY <3>1, <1>3 DEF ToSet
  <2> QED BY <2>1, <2>2
<1> QED BY <1>4, <1>5 DEF RemoveAt, front, back

LEMMA RemoveFirstElements ==
  ASSUME NEW S, NEW q \in Seq(S), NEW e
  PROVE  /\ RemoveFirst(q, e) \in Seq(S) /\ ToSet(RemoveFirst(q, e)) \subseteq ToSet(q)
         /\ ToSet(q) \ {e} \subseteq ToSet(RemoveFirst(q, e))
<1>1. RemoveFirst(q, e) \in Seq(S) /\ ToSet(RemoveFirst(q, e)) \subseteq ToSet(q)
  BY ElementsOfRemoveFirst
<1>2. CASE ~\E i \in 1 .. Len(q) : q[i] = e
  <2>1. RemoveFirst(q, e) = q
    BY <1>2 DEF RemoveFirst
  <2> QED BY <1>1, <2>1
<1>3. CASE \E i \in 1 .. Len(q) : q[i] = e
  <2> DEFINE I == {i \in 1 .. Len(q) : q[i] = e}
  <2>1. I \in SUBSET Nat /\ I # {}
    BY <1>3
  <2>2. \E k \in I : \A j \in I : k <= j
    BY <2>1, SmallestOfNats
  <2>3. SelectInSeq(q, LAMBDA v : v = e) = Min(I)
    BY <2>1 DEF SelectInSeq
  <2>4. Min(I) \in 1 .. Len(q) /\ q[Min(I)] = e
    BY <2>2 DEF Min
  <2>5. RemoveFirst(q, e) = RemoveAt(q, Min(I))
    BY <1>3, <2>3 DEF RemoveFirst
  <2> DEFINE k == Min(I)
  <2>6. k \in 1 .. Len(q) /\ q[k] = e /\ RemoveFirst(q, e) = RemoveAt(q, k)
    BY <2>4, <2>5
  <2> HIDE DEF k, I
  <2>7. ASSUME NEW f \in ToSet(q), f # e PROVE f \in ToSet(RemoveAt(q, k))
    <3>1. PICK j \in 1 .. Len(q) : q[j] = f
      BY <2>7, ToSetOf
    <3>2. j # k
      BY <3>1, <2>6, <2>7
    <3> QED BY <3>1, <3>2, <2>6, OthersRemain
  <2> QED BY <1>1, <2>6, <2>7
<1> QED BY <1>2, <1>3

-----------------------------------------------------------------------------
(* Steps of a window on top *)

LEMMA SetParentEventWindowFuture ==
  ASSUME FutureInv, SetParentEventWindow
  PROVE  Future(stack', events')
<1> DEFINE step == IF Top.events = <<>> THEN "resolveEvents" ELSE "openReplacementEffectWindow"
           owner == IF Top.mode = "resolves" THEN n ELSE stack[current].owner
           g == [Top EXCEPT !.step = step, !.parent = current, !.owner = owner]
<1>1. /\ stack # <<>> /\ Top.kind = "window" /\ Top.step = "setParentEventWindow"
      /\ PipelineInv
  BY DEF SetParentEventWindow, AtStep, FutureInv, HistoryInv
<1>2. stack' = SetTop(g) /\ events' = events
  BY DEF SetParentEventWindow
<1>3. /\ Top \in Windows /\ Orderly(Top, events) /\ Apart(Top)
      /\ stack \in Seq(Frames) /\ stack' \in Seq(Frames)
  BY <1>1, FutureOfTop, SetParentEventWindowKeeps DEF PipelineInv, Types
<1>4. /\ g.kind = "window" /\ g.step = step /\ g.triggers = Top.triggers /\ g.mode = Top.mode
      /\ g.subwindow = Top.subwindow /\ g.queued = Top.queued /\ g.opened = Top.opened
      /\ g.events = Top.events /\ g.resolved = Top.resolved /\ g.initiates = Top.initiates
  BY <1>3 DEF Windows, WindowRecords
<1> HIDE DEF g
<1>5. g \in Windows
  BY <1>1, <1>2, <1>3, <1>4, TopFrameTyped, FramesOfKinds
<1>6. Known(g) = Known(Top)
  BY <1>4 DEF Known, Own, Queue
<1>7. ~Emitted(g) \/ Own(g) = {}
  <2>1. CASE Top.events = <<>>
    <3>1. Top.resolved = <<>>
      BY <1>1, <1>3 DEF Apart, Emitted, PreSteps
    <3> QED BY <1>4, <2>1, <3>1 DEF Own, ToSet
  <2>2. CASE Top.events # <<>>
    BY <1>4, <2>2 DEF Emitted, PreSteps
  <2> QED BY <2>1, <2>2
<1>8. Top.step \in EarlySteps /\ g.step \in EarlySteps /\ g.step # "postResolutionTriggers"
  BY <1>1, <1>4 DEF EarlySteps, PreSteps
<1>9. g.initiates => /\ g.step \in {"setParentEventWindow", "resolveEvents"}
                     /\ g.events = <<>> /\ g.subwindow = <<>> /\ g.queued = <<>>
  BY <1>3, <1>4 DEF Orderly
<1>10. /\ \A e \in ToSet(g.resolved) : events[e].status = "resolved"
       /\ \A e \in ToSet(g.opened) : events[e].status = "created" => e \in ToSet(g.events)
  BY <1>3, <1>4 DEF Orderly
<1>11. Future(SetTop(g), events)
  <2>1. Onward(events, events)
    BY EventsOnward
  <2> QED BY <1>1, <1>4, <1>5, <1>6, <1>7, <1>8, <1>9, <1>10, <2>1, EarlyTopKeeps
<1> QED BY <1>2, <1>11

LEMMA TopEventUsed ==
  ASSUME FutureInv, stack # <<>>, Top.kind = "window", NEW e \in ToSet(Top.events)
  PROVE  e \in EventIds /\ events[e].status # "unused" /\ e \in Places(Top)
         /\ Top.initiates = FALSE
<1>1. Top \in Windows /\ Orderly(Top, events)
  BY FutureOfTop
<1>2. e \in EventIds
  BY <1>1, KnownEvents
<1>3. e \in Own(Top) /\ e \in Places(Top)
  BY DEF Own, Places
<1>4. Top.initiates \in BOOLEAN
  BY <1>1 DEF Windows, WindowRecords
<1>5. Top.events # <<>>
  BY DEF ToSet
<1> QED BY <1>1, <1>2, <1>3, <1>4, <1>5 DEF Orderly

\* One of the events before the window on top will not happen.
LEMMA TopLosesEvent ==
  ASSUME FutureInv, stack # <<>>, Top.kind = "window", Top.step \in EarlySteps,
         Top.step # "postResolutionTriggers",
         NEW e \in ToSet(Top.events), NEW x \in {"cancelled", "replaced"},
         NEW fvs, fvs = [events EXCEPT ![e].status = x],
         e \notin ToSet(Top.resolved),
         NEW g \in Windows, g.step \in EarlySteps, g.step # "postResolutionTriggers",
         g.triggers = Top.triggers, g.mode = Top.mode,
         g.subwindow = Top.subwindow, g.queued = Top.queued, g.opened = Top.opened,
         g.resolved = Top.resolved, g.initiates = Top.initiates,
         g.events = RemoveFirst(Top.events, e),
         ~Emitted(g) \/ (Emitted(Top) /\ g.owner = Top.owner)
  PROVE  Future(SetTop(g), fvs)
<1>1. /\ Top \in Windows /\ Orderly(Top, events) /\ events \in [EventIds -> EventRecords]
  BY FutureOfTop
<1>2. e \in EventIds /\ events[e].status # "unused" /\ e \in Places(Top) /\ Top.initiates = FALSE
  BY TopEventUsed
<1>3. Onward(events, fvs) /\ fvs[e].status = x /\ \A f \in EventIds : f # e => fvs[f] = events[f]
  <2>1. events[e] \in EventRecords /\ fvs[e] = [events[e] EXCEPT !.status = x]
        /\ \A f \in EventIds : f # e => fvs[f] = events[f]
    BY <1>1, <1>2
  <2>2. /\ fvs[e].status = x /\ fvs[e].due = events[e].due /\ fvs[e].missed = events[e].missed
        /\ fvs[e].times = events[e].times /\ fvs[e].excused = events[e].excused
    BY <2>1 DEF EventRecords
  <2>3. EventMovesOn(events[e], fvs[e])
    BY <1>2, <2>2 DEF EventMovesOn
  <2> QED BY <2>1, <2>2, <2>3 DEF Onward
<1>4. /\ ToSet(g.events) \subseteq ToSet(Top.events)
      /\ ToSet(Top.events) \ {e} \subseteq ToSet(g.events)
  <2>1. Top.events \in Seq(EventIds)
    BY <1>1 DEF Windows, WindowRecords
  <2> QED BY <2>1, RemoveFirstElements
<1>5. Own(g) \subseteq Own(Top) /\ Own(Top) \ {e} \subseteq Own(g) /\ Queue(g) = Queue(Top)
  BY <1>4 DEF Own, Queue
<1>6. Known(g) \subseteq Known(Top) /\ Known(Top) \ {e} \subseteq Known(g)
  BY <1>5 DEF Known
<1>7. fvs[e].status # "created"
  BY <1>3
<1>8. \A f \in ToSet(g.resolved) : fvs[f].status = "resolved"
  <2>1. \A f \in ToSet(g.resolved) : f # e /\ f \in EventIds
    BY <1>1, KnownEvents
  <2> QED BY <2>1, <1>1, <1>3 DEF Orderly
<1>9. \A f \in ToSet(g.opened) : fvs[f].status = "created" => f \in ToSet(g.events)
  <2>1. \A f \in ToSet(g.opened) : f \in EventIds
    BY <1>1, KnownEvents
  <2> QED BY <2>1, <1>1, <1>3, <1>4, <1>7 DEF Orderly
<1>10. \A f \in Known(Top) : fvs[f].status = "created" => f \in Known(g)
  BY <1>6, <1>7
<1>11. \A f \in EventIds : f \notin Places(Top) /\ events[f].status = "resolved"
         => fvs[f].status = "resolved"
  BY <1>2, <1>3
<1>12. \A f \in EventIds : fvs[f].status = "created" => events[f].status = "created"
  BY <1>3, <1>7
<1> QED BY <1>2, <1>3, <1>5, <1>6, <1>8, <1>9, <1>10, <1>11, <1>12, EarlyTopKeeps

LEMMA EventPreventedFuture ==
  ASSUME FutureInv, NEW e \in EventIds, EventPrevented(e)
  PROVE  Future(stack', events')
<1> DEFINE g == [Top EXCEPT !.step = "emitEvents", !.events = RemoveFirst(@, e)]
<1>1. /\ PipelineInv /\ stack # <<>> /\ Top.kind = "window"
      /\ Top.step = "openReplacementEffectWindow" /\ e \in ToSet(Top.events)
  BY DEF EventPrevented, AtStep, HistoryInv, FutureInv
<1>2. stack' = SetTop(g) /\ events' = [events EXCEPT ![e].status = "replaced"]
  BY DEF EventPrevented
<1>3. /\ stack' \in Seq(Frames) /\ stack \in Seq(Frames) /\ Top \in Windows /\ Apart(Top)
  BY <1>1, EventPreventedKeeps, FutureOfTop DEF PipelineInv, Types
<1>4. /\ g.kind = "window" /\ g.step = "emitEvents" /\ g.triggers = Top.triggers
      /\ g.mode = Top.mode /\ g.subwindow = Top.subwindow /\ g.queued = Top.queued
      /\ g.opened = Top.opened /\ g.resolved = Top.resolved /\ g.initiates = Top.initiates
      /\ g.events = RemoveFirst(Top.events, e)
  BY <1>3 DEF Windows, WindowRecords
<1> HIDE DEF g
<1>5. g \in Windows
  BY <1>1, <1>2, <1>3, <1>4, TopFrameTyped, FramesOfKinds
<1>6. /\ Top.step \in EarlySteps /\ g.step \in EarlySteps /\ ~Emitted(g) /\ ~Emitted(Top)
      /\ Top.step # "postResolutionTriggers" /\ g.step # "postResolutionTriggers"
  BY <1>1, <1>4 DEF EarlySteps, Emitted, PreSteps
<1>7. e \notin ToSet(Top.resolved)
  <2>1. Top.resolved = <<>>
    BY <1>3, <1>6 DEF Apart
  <2> QED BY <2>1 DEF ToSet
<1> QED BY <1>1, <1>2, <1>4, <1>5, <1>6, <1>7, TopLosesEvent

LEMMA EventFizzlesFuture ==
  ASSUME FutureInv, NEW e \in EventIds, EventFizzles(e)
  PROVE  Future(stack', events')
<1> DEFINE g == [Top EXCEPT !.events = RemoveFirst(@, e)]
<1>1. /\ PipelineInv /\ stack # <<>> /\ Top.kind = "window" /\ Top.step = "resolveEvents"
      /\ e \in ToSet(Top.events) /\ events[e].status = "created"
  BY NextEvent DEF EventFizzles, HistoryInv, FutureInv
<1>2. stack' = SetTop(g) /\ events' = [events EXCEPT ![e].status = "cancelled"]
  BY DEF EventFizzles
<1>3. /\ stack' \in Seq(Frames) /\ stack \in Seq(Frames) /\ Top \in Windows
      /\ Orderly(Top, events)
  BY <1>1, EventFizzlesKeeps, FutureOfTop DEF PipelineInv, Types
<1>4. /\ g.kind = "window" /\ g.step = "resolveEvents" /\ g.triggers = Top.triggers
      /\ g.mode = Top.mode /\ g.subwindow = Top.subwindow /\ g.queued = Top.queued
      /\ g.opened = Top.opened /\ g.resolved = Top.resolved /\ g.initiates = Top.initiates
      /\ g.events = RemoveFirst(Top.events, e) /\ g.owner = Top.owner
  BY <1>1, <1>3 DEF Windows, WindowRecords
<1> HIDE DEF g
<1>5. g \in Windows
  BY <1>1, <1>2, <1>3, <1>4, TopFrameTyped, FramesOfKinds
<1>6. /\ Top.step \in EarlySteps /\ g.step \in EarlySteps /\ Emitted(Top)
      /\ Top.step # "postResolutionTriggers" /\ g.step # "postResolutionTriggers"
  BY <1>1, <1>4 DEF EarlySteps, Emitted, PreSteps
<1>7. e \notin ToSet(Top.resolved)
  BY <1>1, <1>3 DEF Orderly
<1> QED BY <1>1, <1>2, <1>4, <1>5, <1>6, <1>7, TopLosesEvent

LEMMA ResolvedOnward ==
  ASSUME PipelineInv, NEW e, IsNext(e)
  PROVE  /\ Resolved(e) \in [EventIds -> EventRecords] /\ Onward(events, Resolved(e))
         /\ Resolved(e)[e].status = "resolved"
         /\ \A f \in EventIds : f # e => Resolved(e)[f] = events[f]
<1>1. e \in EventIds /\ events[e].status = "created"
  BY NextEvent
<1>2. events \in [EventIds -> EventRecords] /\ Resolved(e) \in [EventIds -> EventRecords]
  BY ResolvedGoesOn DEF PipelineInv, Types
<1>3. /\ events[e] \in EventRecords /\ Resolved(e)[e] = [events[e] EXCEPT !.status = "resolved"]
      /\ \A f \in EventIds : f # e => Resolved(e)[f] = events[f]
  BY <1>1, <1>2 DEF Resolved
<1> DEFINE r == Resolved(e)[e]
<1>4. /\ r.status = "resolved" /\ r.due = events[e].due /\ r.missed = events[e].missed
      /\ r.times = events[e].times /\ r.excused = events[e].excused
  BY <1>3 DEF EventRecords
<1>5. EventMovesOn(events[e], r)
  BY <1>1, <1>4 DEF EventMovesOn
<1> QED BY <1>2, <1>3, <1>4, <1>5 DEF Onward

\* The window on top resolves event e, whose handler brings up the events N.
LEMMA HandledFuture ==
  ASSUME FutureInv, NEW e, IsNext(e), NEW fvs, Onward(events, fvs),
         fvs[e].status = "resolved", NEW N \in SUBSET EventIds,
         \A f \in EventIds : f # e /\ f \notin N => fvs[f] = events[f],
         \A f \in N : events[f].status = "unused" /\ fvs[f].status = "created",
         NEW g \in Windows, g.step = "resolveEvents", g.opened = Top.opened,
         g.triggers = Top.triggers, g.mode = Top.mode, g.owner = Top.owner,
         g.events = Top.events, g.initiates = Top.initiates,
         g.resolved = Append(Top.resolved, e), Own(g) = Own(Top),
         ToSet(g.subwindow) \cup Queue(g) = ToSet(Top.subwindow) \cup Queue(Top) \cup N
  PROVE  Future(SetTop(g), fvs)
<1>1. /\ stack # <<>> /\ Top.kind = "window" /\ Top.step = "resolveEvents"
      /\ e \in EventIds /\ e \in ToSet(Top.events) /\ events[e].status = "created"
  BY NextEvent DEF FutureInv, HistoryInv
<1>2. /\ Top \in Windows /\ Orderly(Top, events)
  BY <1>1, FutureOfTop
<1>3. e \in Places(Top) /\ Top.initiates = FALSE
  BY <1>1, TopEventUsed
<1>4. Top.step \in EarlySteps /\ Emitted(Top) /\ Top.step # "postResolutionTriggers"
      /\ g.step \in EarlySteps /\ g.step # "postResolutionTriggers"
  BY <1>1 DEF EarlySteps, Emitted, PreSteps
<1>5. /\ Known(g) \subseteq Known(Top) \cup N /\ N \subseteq Known(g)
      /\ Known(Top) \subseteq Known(g)
  BY DEF Known
<1>6. \A f \in ToSet(g.resolved) : fvs[f].status = "resolved"
  <2>1. Top.resolved \in Seq(EventIds)
    BY <1>2 DEF Windows, WindowRecords
  <2>2. ToSet(g.resolved) = ToSet(Top.resolved) \cup {e}
    BY <1>1, <2>1, AppendedElements
  <2>3. ToSet(Top.resolved) \in SUBSET EventIds
    BY <1>2, KnownEvents
  <2> QED BY <1>2, <2>2, <2>3 DEF Orderly
<1>7. \A f \in ToSet(g.opened) : fvs[f].status = "created" => f \in ToSet(g.events)
  <2>1. ToSet(Top.opened) \in SUBSET EventIds
    BY <1>2, KnownEvents
  <2> QED BY <1>2, <2>1 DEF Orderly
<1>8. \A f \in EventIds : f \notin Places(Top) /\ events[f].status = "resolved"
                            => fvs[f].status = "resolved"
  OBVIOUS
<1>9. \A f \in EventIds : fvs[f].status = "created" => events[f].status = "created" \/ f \in N
  OBVIOUS
<1>10. \A f \in N : events[f].status = "unused" /\ fvs[f].status # "unused"
  OBVIOUS
<1>11. \A f \in Known(Top) : fvs[f].status = "created" => f \in Known(g)
  BY <1>5
<1> QED BY <1>1, <1>3, <1>4, <1>5, <1>6, <1>7, <1>8, <1>9, <1>10, <1>11, EarlyTopFuture

LEMMA ResolvedFuture ==
  ASSUME FutureInv, NEW e, IsNext(e)
  PROVE  Future(TopResolved(e), Resolved(e))
<1> DEFINE g == [Top EXCEPT !.resolved = Append(@, e)]
           N == {}
<1>1. PipelineInv /\ Top \in Windows /\ Top.step = "resolveEvents"
  BY NextEvent DEF FutureInv, HistoryInv
<1>2. /\ g \in Windows /\ g.step = Top.step /\ g.triggers = Top.triggers
      /\ g.subwindow = Top.subwindow /\ g.queued = Top.queued /\ g.owner = Top.owner
      /\ Own(g) = Own(Top) /\ TopResolved(e) = SetTop(g)
  BY <1>1, TopHasResolved
<1>3. /\ g.opened = Top.opened /\ g.mode = Top.mode /\ g.events = Top.events
      /\ g.initiates = Top.initiates /\ g.resolved = Append(Top.resolved, e)
  BY <1>1 DEF Windows, WindowRecords
<1> HIDE DEF g
<1>4. ToSet(g.subwindow) \cup Queue(g) = ToSet(Top.subwindow) \cup Queue(Top) \cup N
  BY <1>2 DEF Queue
<1>5. N \in SUBSET EventIds /\ \A f : f \notin N
  OBVIOUS
<1> HIDE DEF N
<1> DEFINE fvs == Resolved(e)
<1>6. /\ Onward(events, fvs) /\ fvs[e].status = "resolved"
      /\ \A f \in EventIds : f # e => fvs[f] = events[f]
  BY <1>1, ResolvedOnward
<1> HIDE DEF fvs
<1>7. Future(SetTop(g), fvs)
  BY <1>1, <1>2, <1>3, <1>4, <1>5, <1>6, HandledFuture
<1> QED BY <1>2, <1>7 DEF fvs

LEMMA EventResolvesFuture ==
  ASSUME FutureInv, NEW e \in EventIds, EventResolves(e)
  PROVE  Future(stack', events')
BY ResolvedFuture DEF EventResolves

LEMMA EventChangesEffectFuture ==
  ASSUME FutureInv, NEW e \in EventIds, NEW a \in Unsteady, EventChangesEffect(e, a)
  PROVE  Future(stack', events')
BY ResolvedFuture DEF EventChangesEffect

LEMMA EventBlanksCardFuture ==
  ASSUME FutureInv, NEW e \in EventIds, NEW a \in Unsteady, EventBlanksCard(e, a)
  PROVE  Future(stack', events')
BY ResolvedFuture DEF EventBlanksCard

\* The handler of event e brings up event u.
BringsUp(e, u, listeners, fvs) ==
  /\ Unused # {} /\ u = NextUnused
  /\ fvs = [Resolved(e) EXCEPT ![u] = NewEvent(listeners)]

LEMMA HandledEvents ==
  ASSUME PipelineInv, NEW e, IsNext(e), NEW listeners, NEW u, NEW fvs,
         BringsUp(e, u, listeners, fvs)
  PROVE  /\ Onward(events, fvs) /\ fvs[e].status = "resolved"
         /\ u \in EventIds /\ events[u].status = "unused" /\ fvs[u].status = "created"
         /\ \A f \in EventIds : f # e /\ f # u => fvs[f] = events[f]
<1>1. /\ Resolved(e) \in [EventIds -> EventRecords] /\ Onward(events, Resolved(e))
      /\ Resolved(e)[e].status = "resolved"
      /\ \A f \in EventIds : f # e => Resolved(e)[f] = events[f]
  BY ResolvedOnward
<1>2. u \in EventIds /\ events[u].status = "unused"
  BY NextUnusedIsUnused DEF BringsUp
<1>3. e \in EventIds /\ e # u
  BY <1>2, NextEvent
<1> DEFINE gvs == Resolved(e)
<1>4. fvs = [gvs EXCEPT ![u] = NewEvent(listeners)]
  BY DEF BringsUp
<1>5. gvs \in [EventIds -> EventRecords]
  BY <1>1
<1> HIDE DEF gvs
<1>6. fvs[u] = NewEvent(listeners) /\ \A f \in EventIds : f # u => fvs[f] = gvs[f]
  BY <1>2, <1>4, <1>5
<1>7. EventStarts(events[u], fvs[u]) /\ fvs[u].status = "created"
  BY <1>2, <1>6 DEF EventStarts, NewEvent
<1>8. Onward(events, fvs)
  BY <1>1, <1>6, <1>7 DEF Onward, gvs
<1> QED BY <1>1, <1>2, <1>3, <1>6, <1>7, <1>8 DEF gvs

LEMMA QueueElements ==
  ASSUME NEW f
  PROVE  Queue(f) = {x.event : x \in ToSet(f.queued)}
<1> DEFINE q == f.queued
<1>1. Queue(f) = {q[k].event : k \in DOMAIN q}
  BY DEF Queue
<1> HIDE DEF q
<1>2. ToSet(q) = {q[k] : k \in DOMAIN q}
  BY DEF ToSet
<1>3. {q[k].event : k \in DOMAIN q} = {x.event : x \in ToSet(q)}
  BY <1>2
<1> QED BY <1>1, <1>3 DEF q

LEMMA EventDefeatsCardFuture ==
  ASSUME FutureInv, NEW e \in EventIds, NEW listeners \in Listening,
         EventDefeatsCard(e, listeners)
  PROVE  Future(stack', events')
<1> DEFINE h == [Top EXCEPT !.resolved = Append(@, e)]
           u == NextUnused
           g == [h EXCEPT !.subwindow = @ \o <<u>>]
           N == {u}
<1>1. PipelineInv /\ IsNext(e)
  BY DEF EventDefeatsCard, HistoryInv, FutureInv
<1>2. /\ stack # <<>> /\ Top.kind = "window" /\ Top.step = "resolveEvents"
      /\ Top \in Windows /\ current = n
  BY <1>1, NextEvent
<1>3. /\ h \in Windows /\ h.step = Top.step /\ h.triggers = Top.triggers
      /\ h.subwindow = Top.subwindow /\ h.queued = Top.queued
      /\ h.owner = Top.owner /\ Own(h) = Own(Top) /\ TopResolved(e) = SetTop(h)
  BY <1>1, TopHasResolved
<1>4. h.opened = Top.opened /\ h.mode = Top.mode /\ h.events = Top.events
      /\ h.initiates = Top.initiates /\ h.resolved = Append(Top.resolved, e)
  BY <1>2 DEF Windows, WindowRecords
<1>5. stack' = SetTop(g)
  <2>1. n \in DOMAIN stack
    BY <1>1, <1>2, TopIsFrame DEF PipelineInv
  <2>2. stack' = [SetTop(h) EXCEPT ![n].subwindow = @ \o <<u>>]
    BY <1>2 DEF EventDefeatsCard, AddSubwindowEvents, TopResolved
  <2> HIDE DEF h
  <2> QED BY <2>1, <2>2 DEF SetTop
<1> DEFINE fvs == [Resolved(e) EXCEPT ![u] = NewEvent(listeners)]
<1>6. events' = fvs /\ BringsUp(e, u, listeners, fvs)
  BY DEF EventDefeatsCard, BringsUp
<1> HIDE DEF u, fvs
<1>7. /\ Onward(events, fvs) /\ fvs[e].status = "resolved"
      /\ u \in EventIds /\ events[u].status = "unused" /\ fvs[u].status = "created"
      /\ \A f \in EventIds : f # e /\ f # u => fvs[f] = events[f]
  BY <1>1, <1>6, HandledEvents
<1> HIDE DEF h, g, N
<1>8. h.subwindow \in Seq(EventIds)
  BY <1>3 DEF Windows, WindowRecords
<1>9. h.subwindow \o <<u>> \in Seq(EventIds)
      /\ ToSet(h.subwindow \o <<u>>) = ToSet(h.subwindow) \cup {u}
  <2> DEFINE q == h.subwindow
  <2>1. q \in Seq(EventIds) /\ u \in EventIds
    BY <1>7, <1>8
  <2> HIDE DEF q
  <2>2. q \o <<u>> = Append(q, u) /\ Append(q, u) \in Seq(EventIds)
    BY <2>1
  <2>3. ToSet(Append(q, u)) = ToSet(q) \cup {u}
    BY <2>1, AppendedElements
  <2> QED BY <2>2, <2>3 DEF q
<1>10. /\ g.subwindow = h.subwindow \o <<u>> /\ g.step = h.step /\ g.triggers = h.triggers
       /\ g.queued = h.queued /\ g.owner = h.owner /\ g.opened = h.opened /\ g.mode = h.mode
       /\ g.events = h.events /\ g.initiates = h.initiates /\ g.resolved = h.resolved
       /\ g \in Windows
  BY <1>3, <1>9 DEF g, Windows, WindowRecords, KnowsItsTrigger
<1>11. Own(g) = Own(Top) /\ Queue(g) = Queue(Top)
  BY <1>3, <1>10 DEF Own, Queue
<1>12. ToSet(g.subwindow) \cup Queue(g) = ToSet(Top.subwindow) \cup Queue(Top) \cup N
  BY <1>3, <1>9, <1>10, <1>11 DEF N
<1>13. /\ N \in SUBSET EventIds
       /\ \A f \in EventIds : f # e /\ f \notin N => fvs[f] = events[f]
       /\ \A f \in N : events[f].status = "unused" /\ fvs[f].status = "created"
  BY <1>7 DEF N
<1>15. /\ g.step = "resolveEvents" /\ g.opened = Top.opened /\ g.triggers = Top.triggers
       /\ g.mode = Top.mode /\ g.owner = Top.owner /\ g.events = Top.events
       /\ g.initiates = Top.initiates /\ g.resolved = Append(Top.resolved, e) /\ g \in Windows
  BY <1>2, <1>3, <1>4, <1>10
<1>14. Future(SetTop(g), fvs)
  BY <1>1, <1>7, <1>11, <1>12, <1>13, <1>15, HandledFuture
<1> QED BY <1>5, <1>6, <1>14

LEMMA EventOpensWindowFuture ==
  ASSUME FutureInv, NEW e \in EventIds, NEW listeners \in Listening,
         NEW modes \in NestedModes, EventOpensWindow(e, modes, listeners)
  PROVE  Future(stack', events')
<1> DEFINE u == NextUnused
           q == [event |-> u, modes |-> modes]
           g == [Top EXCEPT !.resolved = Append(@, e), !.queued = Append(@, q)]
           N == {u}
           fvs == [Resolved(e) EXCEPT ![u] = NewEvent(listeners)]
<1>1. PipelineInv /\ IsNext(e)
  BY DEF EventOpensWindow, HistoryInv, FutureInv
<1>2. /\ stack # <<>> /\ Top.kind = "window" /\ Top.step = "resolveEvents" /\ Top \in Windows
      /\ e \in ToSet(Top.events)
  BY <1>1, NextEvent
<1>3. /\ stack' = SetTop(g) /\ stack' \in Seq(Frames) /\ stack \in Seq(Frames)
      /\ events' = fvs /\ BringsUp(e, u, listeners, fvs)
  BY <1>1, EventOpensWindowKeeps DEF EventOpensWindow, BringsUp, PipelineInv, Types
<1> HIDE DEF g, q, N, u, fvs
<1>4. /\ Onward(events, fvs) /\ fvs[e].status = "resolved"
      /\ u \in EventIds /\ events[u].status = "unused" /\ fvs[u].status = "created"
      /\ \A f \in EventIds : f # e /\ f # u => fvs[f] = events[f]
  BY <1>1, <1>3, HandledEvents
<1>5. q \in QueuedWindows /\ q.event = u
  BY <1>4 DEF q, QueuedWindows
<1>6. /\ g.step = Top.step /\ g.triggers = Top.triggers /\ g.kind = "window"
      /\ g.owner = Top.owner /\ g.subwindow = Top.subwindow /\ g.events = Top.events
      /\ g.resolved = Append(Top.resolved, e) /\ g.queued = Append(Top.queued, q)
      /\ g.opened = Top.opened /\ g.mode = Top.mode /\ g.initiates = Top.initiates
  BY <1>2 DEF g, Windows, WindowRecords
<1>7. g \in Windows
  BY <1>2, <1>3, <1>6, TopFrameTyped, FramesOfKinds
<1>8. Queue(g) = Queue(Top) \cup {u}
  <2>1. Top.queued \in Seq(QueuedWindows)
    BY <1>2 DEF Windows, WindowRecords
  <2>2. ToSet(g.queued) = ToSet(Top.queued) \cup {q}
    BY <1>5, <1>6, <2>1, AppendedElements
  <2> QED BY <1>5, <2>2, QueueElements
<1>9. Own(g) = Own(Top)
  <2>1. Top.resolved \in Seq(EventIds)
    BY <1>2 DEF Windows, WindowRecords
  <2>2. ToSet(g.resolved) = ToSet(Top.resolved) \cup {e}
    BY <1>6, <2>1, AppendedElements
  <2> QED BY <1>2, <1>6, <2>2 DEF Own
<1>10. ToSet(g.subwindow) \cup Queue(g) = ToSet(Top.subwindow) \cup Queue(Top) \cup N
  BY <1>6, <1>8 DEF N
<1>11. /\ N \in SUBSET EventIds
       /\ \A f \in EventIds : f # e /\ f \notin N => fvs[f] = events[f]
       /\ \A f \in N : events[f].status = "unused" /\ fvs[f].status = "created"
  BY <1>4 DEF N
<1>13. /\ g.step = "resolveEvents" /\ g.opened = Top.opened /\ g.triggers = Top.triggers
       /\ g.mode = Top.mode /\ g.owner = Top.owner /\ g.events = Top.events
       /\ g.initiates = Top.initiates /\ g.resolved = Append(Top.resolved, e)
  BY <1>2, <1>6
<1>12. Future(SetTop(g), fvs)
  BY <1>1, <1>4, <1>7, <1>9, <1>10, <1>11, <1>13, HandledFuture
<1> QED BY <1>3, <1>12

\* The replacement is among the events the window is about to emit.
LEMMA EventReplacedFuture ==
  ASSUME FutureInv, NEW e \in EventIds, NEW listeners \in Listening,
         EventReplaced(e, listeners)
  PROVE  Future(stack', events')
<1> DEFINE u == NextUnused
           g == [Top EXCEPT !.step = "emitEvents", !.events = Append(@, u)]
           fvs == [events EXCEPT ![e].status = "replaced", ![e].by = u,
                                 ![u] = NewEvent(listeners)]
           N == {u}
<1>1. /\ PipelineInv /\ stack # <<>> /\ Top.kind = "window"
      /\ Top.step = "openReplacementEffectWindow" /\ e \in ToSet(Top.events)
  BY DEF EventReplaced, AtStep, HistoryInv, FutureInv
<1>2. stack' = SetTop(g) /\ events' = fvs
  BY DEF EventReplaced
<1>3. /\ stack' \in Seq(Frames) /\ stack \in Seq(Frames)
  BY <1>1, EventReplacedKeeps DEF PipelineInv, Types
<1>4. u \in EventIds /\ events[u].status = "unused"
  BY NextUnusedIsUnused DEF EventReplaced
<1>5. /\ Top \in Windows /\ Orderly(Top, events) /\ Apart(Top)
      /\ events \in [EventIds -> EventRecords]
  BY <1>1, FutureOfTop
<1>6. events[e].status # "unused" /\ e \in Places(Top) /\ Top.initiates = FALSE /\ e # u
  BY <1>1, <1>4, TopEventUsed
<1> HIDE DEF u
<1>7. /\ fvs[u] = NewEvent(listeners)
      /\ fvs[e] = [[events[e] EXCEPT !.status = "replaced"] EXCEPT !.by = u]
      /\ \A f \in EventIds : f # e /\ f # u => fvs[f] = events[f]
  BY <1>4, <1>5, <1>6
<1> HIDE DEF fvs, g
<1>8. Onward(events, fvs) /\ fvs[e].status = "replaced" /\ fvs[u].status = "created"
  <2>1. EventStarts(events[u], fvs[u]) /\ fvs[u].status = "created"
    BY <1>4, <1>7 DEF EventStarts, NewEvent
  <2>2. events[e] \in EventRecords
    BY <1>5
  <2>3. /\ fvs[e].status = "replaced" /\ fvs[e].due = events[e].due
        /\ fvs[e].missed = events[e].missed
        /\ fvs[e].times = events[e].times /\ fvs[e].excused = events[e].excused
    BY <1>7, <2>2 DEF EventRecords
  <2>4. EventMovesOn(events[e], fvs[e])
    BY <1>6, <2>3 DEF EventMovesOn
  <2> QED BY <1>7, <2>1, <2>3, <2>4 DEF Onward
<1>9. /\ g.kind = "window" /\ g.step = "emitEvents" /\ g.triggers = Top.triggers
      /\ g.mode = Top.mode /\ g.subwindow = Top.subwindow /\ g.queued = Top.queued
      /\ g.opened = Top.opened /\ g.initiates = Top.initiates
      /\ g.events = Append(Top.events, u) /\ g.resolved = Top.resolved
  BY <1>5 DEF g, Windows, WindowRecords
<1>10. g \in Windows
  BY <1>1, <1>2, <1>3, <1>9, TopFrameTyped, FramesOfKinds
<1>11. ToSet(g.events) = ToSet(Top.events) \cup {u}
  <2>1. Top.events \in Seq(EventIds)
    BY <1>5 DEF Windows, WindowRecords
  <2> QED BY <1>4, <1>9, <2>1, AppendedElements
<1>12. Known(g) = Known(Top) \cup N
  <2>1. Own(g) = Own(Top) \cup {u} /\ Queue(g) = Queue(Top)
    BY <1>9, <1>11 DEF Own, Queue
  <2> QED BY <1>9, <2>1 DEF Known
<1>13. /\ Top.step \in EarlySteps /\ g.step \in EarlySteps /\ ~Emitted(g) /\ ~Emitted(Top)
       /\ g.step # "postResolutionTriggers"
  BY <1>1, <1>9 DEF EarlySteps, Emitted, PreSteps
<1>14. \A f \in ToSet(g.resolved) : fvs[f].status = "resolved"
  <2>1. Top.resolved = <<>>
    BY <1>5, <1>13 DEF Apart
  <2> QED BY <1>9, <2>1 DEF ToSet
<1>15. \A f \in ToSet(g.opened) : fvs[f].status = "created" => f \in ToSet(g.events)
  <2>1. ToSet(Top.opened) \in SUBSET EventIds
    BY <1>5, KnownEvents
  <2> QED BY <1>5, <1>7, <1>8, <1>9, <1>11, <2>1, ZenonT(60) DEF Orderly
<1>16. \A f \in EventIds : f \notin Places(Top) /\ events[f].status = "resolved"
                             => fvs[f].status = "resolved"
  BY <1>4, <1>6, <1>7
<1>17. /\ \A f \in EventIds : fvs[f].status = "created" => events[f].status = "created" \/ f \in N
       /\ \A f \in N : events[f].status = "unused" /\ fvs[f].status # "unused"
       /\ N \in SUBSET EventIds
  BY <1>4, <1>7, <1>8
<1> HIDE DEF N
<1>18. /\ Known(g) \subseteq Known(Top) \cup N /\ N \subseteq Known(g)
       /\ \A f \in Known(Top) : fvs[f].status = "created" => f \in Known(g)
  BY <1>12
<1>19. g.initiates = FALSE
  BY <1>6, <1>9
<1>20. Future(SetTop(g), fvs)
  BY <1>1, <1>8, <1>9, <1>10, <1>13, <1>14, <1>15, <1>16, <1>17, <1>18, <1>19, EarlyTopFuture
<1> QED BY <1>2, <1>20

\* The window on top is done with its events, and all of them have happened or will not.
LEMMA DoneEvents ==
  ASSUME FutureInv, NothingQueued
  PROVE  /\ PipelineInv /\ stack # <<>> /\ Top.kind = "window" /\ Top.step = "resolveEvents"
         /\ Top \in Windows /\ current = n /\ Top.queued = <<>> /\ Top.initiates = FALSE
         /\ Orderly(Top, events) /\ \A e \in ToSet(Top.events) : events[e].status # "created"
<1>1. /\ PipelineInv /\ stack # <<>> /\ Top.kind = "window" /\ Top.step = "resolveEvents"
      /\ Top \in Windows /\ current = n /\ Top.queued = <<>> /\ ~Top.initiates
  BY EventsDone DEF FutureInv, HistoryInv
<1>2. Top.initiates = FALSE
  BY <1>1 DEF Windows, WindowRecords
<1>3. Orderly(Top, events)
  BY <1>1, FutureOfTop
<1>4. \A e \in ToSet(Top.events) : events[e].status # "created"
  <2>1. Unresolved(Top) = {}
    BY DEF NothingQueued, EventsAreResolved
  <2>2. Top.events \in Seq(EventIds)
    BY <1>1 DEF Windows, WindowRecords
  <2> DEFINE q == Top.events
  <2>3. \A i \in DOMAIN q : events[q[i]].status # "created"
    BY <2>1 DEF Unresolved
  <2> HIDE DEF q
  <2>4. \A e \in ToSet(q) : events[e].status # "created"
    BY <2>3 DEF ToSet
  <2> QED BY <2>4 DEF q
<1> QED BY <1>1, <1>2, <1>3, <1>4

\* The second emission is due, and the state check brings up the events N.
LEMMA CheckedFuture ==
  ASSUME FutureInv, NothingQueued, NEW fvs, Onward(events, fvs), NEW N \in SUBSET EventIds,
         \A f \in EventIds : f \notin N => fvs[f] = events[f],
         \A f \in N : events[f].status = "unused" /\ fvs[f].status = "created",
         NEW g \in Windows, g.step = "postResolutionTriggers", g.opened = Top.opened,
         g.triggers = Top.triggers, g.mode = Top.mode, g.owner = Top.owner,
         g.events = Top.events, g.initiates = Top.initiates, g.queued = Top.queued,
         g.resolved = Top.resolved,
         ToSet(g.subwindow) = ToSet(Top.subwindow) \cup N
  PROVE  Future(SetTop(g), fvs)
<1>1. /\ PipelineInv /\ stack # <<>> /\ Top.kind = "window" /\ Top.step = "resolveEvents"
      /\ Top \in Windows /\ current = n /\ Top.queued = <<>> /\ Top.initiates = FALSE
      /\ Orderly(Top, events) /\ \A e \in ToSet(Top.events) : events[e].status # "created"
  BY DoneEvents
<1>2. /\ Top.step \in EarlySteps /\ g.step \in EarlySteps /\ Emitted(Top)
  BY <1>1 DEF EarlySteps, PreSteps, Emitted
<1>3. Own(g) = Own(Top) /\ Queue(g) = Queue(Top)
  BY DEF Own, Queue
<1>4. /\ Known(g) \subseteq Known(Top) \cup N /\ N \subseteq Known(g)
      /\ \A f \in Known(Top) : fvs[f].status = "created" => f \in Known(g)
  BY <1>3 DEF Known
<1>5. \A f \in EventIds : events[f].status # "unused" => fvs[f] = events[f]
  OBVIOUS
<1>6. /\ ToSet(Top.resolved) \in SUBSET EventIds /\ ToSet(Top.events) \in SUBSET EventIds
      /\ ToSet(Top.opened) \in SUBSET EventIds
  BY <1>1, KnownEvents
<1>7. \A f \in ToSet(g.resolved) : fvs[f].status = "resolved"
  BY <1>1, <1>5, <1>6 DEF Orderly
<1>8. \A f \in ToSet(g.opened) : fvs[f].status = "created" => f \in ToSet(g.events)
  BY <1>1, <1>5, <1>6 DEF Orderly
<1>9. g.queued = <<>> /\ \A f \in ToSet(g.events) : fvs[f].status # "created"
  <2>1. ToSet(Top.events) \subseteq Own(Top)
    BY DEF Own
  <2> QED BY <1>1, <1>5, <1>6, <2>1 DEF Orderly
<1>10. /\ \A f \in EventIds : fvs[f].status = "created" => events[f].status = "created" \/ f \in N
       /\ \A f \in N : events[f].status = "unused" /\ fvs[f].status # "unused"
       /\ \A f \in EventIds : f \notin Places(Top) /\ events[f].status = "resolved"
                                => fvs[f].status = "resolved"
  BY <1>5
<1>11. Own(g) \subseteq Own(Top) /\ g.initiates = FALSE
  BY <1>1, <1>3
<1> QED BY <1>1, <1>2, <1>4, <1>7, <1>8, <1>9, <1>10, <1>11, EarlyTopFuture

LEMMA GameStateChangesCardFuture ==
  ASSUME FutureInv, NEW a \in Unsteady, GameStateChangesCard(a)
  PROVE  Future(stack', events')
<1> DEFINE g == [Top EXCEPT !.step = "postResolutionTriggers"]
           N == {}
<1>1. NothingQueued /\ stack' = SetTop(g) /\ events' = events
  BY DEF GameStateChangesCard, Step
<1>2. Top \in Windows
  BY <1>1, DoneEvents
<1>3. /\ g \in Windows /\ g.step = "postResolutionTriggers" /\ g.opened = Top.opened
      /\ g.triggers = Top.triggers /\ g.mode = Top.mode /\ g.owner = Top.owner
      /\ g.events = Top.events /\ g.initiates = Top.initiates /\ g.queued = Top.queued
      /\ g.resolved = Top.resolved /\ g.subwindow = Top.subwindow
  BY <1>2 DEF Windows, WindowRecords, WindowSteps, KnowsItsTrigger
<1> HIDE DEF g
<1>4. /\ N \in SUBSET EventIds /\ ToSet(g.subwindow) = ToSet(Top.subwindow) \cup N
      /\ \A f \in N : events[f].status = "unused" /\ events[f].status = "created"
  BY <1>3
<1> HIDE DEF N
<1>5. Onward(events, events) /\ \A f \in EventIds : f \notin N => events[f] = events[f]
  BY EventsOnward
<1>6. ASSUME NEW fvs, fvs = events PROVE Future(SetTop(g), fvs)
  BY <1>1, <1>3, <1>4, <1>5, <1>6, CheckedFuture
<1> QED BY <1>1, <1>6

LEMMA GameStateDefeatsCardFuture ==
  ASSUME FutureInv, NEW listeners \in Listening, GameStateDefeatsCard(listeners)
  PROVE  Future(stack', events')
<1> DEFINE h == [Top EXCEPT !.step = "postResolutionTriggers"]
           u == NextUnused
           g == [h EXCEPT !.subwindow = @ \o <<u>>]
           fvs == [events EXCEPT ![u] = NewEvent(listeners)]
           N == {u}
<1>1. /\ PipelineInv /\ stack # <<>> /\ Top \in Windows /\ current = n /\ NothingQueued
  BY DoneEvents DEF GameStateDefeatsCard
<1>2. /\ h \in Windows /\ h.step = "postResolutionTriggers" /\ h.triggers = Top.triggers
      /\ h.subwindow = Top.subwindow /\ h.queued = Top.queued /\ h.mode = Top.mode
      /\ h.opened = Top.opened /\ h.initiates = Top.initiates
      /\ h.owner = Top.owner /\ h.events = Top.events /\ h.resolved = Top.resolved
  BY <1>1 DEF Windows, WindowRecords, WindowSteps, KnowsItsTrigger
<1>3. stack' = SetTop(g) /\ events' = fvs
  <2>1. n \in DOMAIN stack
    BY <1>1, TopIsFrame DEF PipelineInv
  <2>2. stack' = [SetTop(h) EXCEPT ![n].subwindow = @ \o <<u>>] /\ events' = fvs
    BY <1>1 DEF GameStateDefeatsCard, AddSubwindowEvents, Step
  <2> HIDE DEF h, fvs
  <2> QED BY <2>1, <2>2 DEF SetTop
<1>4. u \in EventIds /\ events[u].status = "unused"
  BY NextUnusedIsUnused DEF GameStateDefeatsCard
<1> HIDE DEF h, g, u
<1>5. fvs[u] = NewEvent(listeners) /\ \A f \in EventIds : f # u => fvs[f] = events[f]
  BY <1>1, <1>4 DEF PipelineInv, Types
<1> HIDE DEF fvs
<1>6. EventStarts(events[u], fvs[u]) /\ fvs[u].status = "created"
  BY <1>4, <1>5 DEF EventStarts, NewEvent
<1>7. Onward(events, fvs)
  BY <1>5, <1>6 DEF Onward
<1>8. h.subwindow \o <<u>> \in Seq(EventIds)
      /\ ToSet(h.subwindow \o <<u>>) = ToSet(h.subwindow) \cup {u}
  <2> DEFINE q == h.subwindow
  <2>1. q \in Seq(EventIds)
    BY <1>2 DEF Windows, WindowRecords
  <2> HIDE DEF q
  <2>2. q \o <<u>> = Append(q, u) /\ Append(q, u) \in Seq(EventIds)
    BY <1>4, <2>1
  <2>3. ToSet(Append(q, u)) = ToSet(q) \cup {u}
    BY <1>4, <2>1, AppendedElements
  <2> QED BY <2>2, <2>3 DEF q
<1>9. /\ g.subwindow = h.subwindow \o <<u>> /\ g.step = h.step /\ g.triggers = h.triggers
      /\ g.queued = h.queued /\ g.owner = h.owner /\ g.opened = h.opened /\ g.mode = h.mode
      /\ g.events = h.events /\ g.initiates = h.initiates /\ g.resolved = h.resolved
      /\ g \in Windows
  BY <1>2, <1>8 DEF g, Windows, WindowRecords, KnowsItsTrigger
<1>10. /\ N \in SUBSET EventIds /\ ToSet(g.subwindow) = ToSet(Top.subwindow) \cup N
       /\ \A f \in N : events[f].status = "unused" /\ fvs[f].status = "created"
       /\ \A f \in EventIds : f \notin N => fvs[f] = events[f]
  BY <1>2, <1>4, <1>5, <1>6, <1>8, <1>9
<1> HIDE DEF N
<1>11. Future(SetTop(g), fvs)
  <2>1. /\ g.step = "postResolutionTriggers" /\ g.opened = Top.opened
        /\ g.triggers = Top.triggers /\ g.mode = Top.mode /\ g.owner = Top.owner
        /\ g.events = Top.events /\ g.initiates = Top.initiates /\ g.queued = Top.queued
        /\ g.resolved = Top.resolved
    BY <1>2, <1>9
  <2> QED BY <1>1, <1>7, <1>9, <1>10, <2>1, CheckedFuture
<1> QED BY <1>3, <1>11

-----------------------------------------------------------------------------
(* Windows that begin, and frames that change under them *)

\* A window that has yet to begin.
Begins(w, fvs) ==
  /\ w.kind = "window" /\ w.step = "setParentEventWindow" /\ w.events = w.opened
  /\ w.resolved = <<>> /\ w.subwindow = <<>> /\ w.queued = <<>>
  /\ w.initiates => w.events = <<>>
  /\ w.triggers.seen = {} /\ w.triggers.missed = {} /\ Waiting(w.triggers) = {}
  /\ \A e \in ToSet(w.events) : fvs[e].status # "unused"

NewOnTop(w, fvs) ==
  w.kind = "window" =>
    /\ Orderly(w, fvs) /\ Rests(w, fvs) /\ ~Emitted(w)
    /\ w.triggers.seen = {} /\ w.triggers.missed = {}

LEMMA BegunWindow ==
  ASSUME NEW w, NEW fvs, Begins(w, fvs)
  PROVE  NewOnTop(w, fvs) /\ Live(w) = ToSet(w.events)
<1>1. /\ w.kind = "window" /\ w.step = "setParentEventWindow" /\ w.events = w.opened
      /\ w.resolved = <<>> /\ w.subwindow = <<>> /\ w.queued = <<>>
      /\ w.initiates => w.events = <<>>
      /\ w.triggers.seen = {} /\ w.triggers.missed = {} /\ Waiting(w.triggers) = {}
      /\ \A e \in ToSet(w.events) : fvs[e].status # "unused"
  BY DEF Begins
<1> DEFINE none == <<>>
<1>2. ToSet(none) = {} /\ DOMAIN none = {}
  BY DEF ToSet
<1>3. w.resolved = none /\ w.subwindow = none /\ w.queued = none
  BY <1>1
<1> HIDE DEF none
<1>4. /\ ToSet(w.resolved) = {} /\ ToSet(w.subwindow) = {} /\ Queue(w) = {}
      /\ Own(w) = ToSet(w.events)
  BY <1>2, <1>3 DEF Queue, Own
<1>5. ~Emitted(w) /\ w.step \in EarlySteps /\ w.step \in SubwindowSteps /\ w.step # "cleanup"
  BY <1>1 DEF Emitted, EarlySteps, PreSteps, SubwindowSteps
<1>6. Live(w) = ToSet(w.events)
  BY <1>1, <1>4, <1>5 DEF Live, Sub
<1>7. Rests(w, fvs)
  BY <1>5 DEF Rests
<1>8. Orderly(w, fvs)
  BY <1>1, <1>4, <1>5 DEF Orderly, Emitted
<1> QED BY <1>1, <1>5, <1>6, <1>7, <1>8 DEF NewOnTop

\* Frame g on top and a frame w pushed on it have the events of the frame that was on top.
Shared(f, g, w, evs, fvs) ==
  \A e \in EventIds :
    /\ fvs[e].status = "created" /\ (evs[e].status # "created" \/ e \in Live(f))
         => e \in Live(g) \/ e \in Live(w)
    /\ e \in Live(g) \/ e \in Live(w) => evs[e].status = "unused" \/ e \in Live(f)

\* The window on top that remains under a frame w.
RemainsUnder(f, g, w, fvs) ==
  g.kind = "window" =>
    /\ g.triggers = f.triggers /\ Orderly(g, fvs) /\ Bears(g, w, fvs)
    /\ \/ ~Emitted(g) \/ Own(g) = {}
       \/ Emitted(f) /\ g.owner = f.owner /\ Own(g) \subseteq Own(f)

LEMMA PushedOnTop ==
  ASSUME FutureInv, stack # <<>>, NEW fvs, Onward(events, fvs), ResolvedBelow(stack, fvs),
         NEW g \in Frames, NEW w \in Frames, SameFace(Top, g),
         RemainsUnder(Top, g, w, fvs), NewOnTop(w, fvs), Shared(Top, g, w, events, fvs),
         NEW t, t = Append(SetTop(g), w)
  PROVE  Future(t, fvs)
<1> DEFINE s == SetTop(g)
<1>1. /\ stack \in Seq(Frames) /\ events \in [EventIds -> EventRecords]
      /\ n = Len(stack) /\ n \in 1 .. Len(stack) /\ Top = stack[n] /\ Top = stack[Len(stack)]
      /\ Fits(stack, current) /\ Future(stack, events)
  BY FutureOfTop
<1>2. s = Replaced(stack, Len(stack), g)
  BY <1>1 DEF SetTop, Replaced
<1>3. /\ s \in Seq(Frames) /\ Len(s) = Len(stack) /\ s[Len(stack)] = g
      /\ \A i \in 1 .. Len(stack) - 1 : s[i] = stack[i]
  BY <1>1, <1>2, TopReplaced DEF Replaced
<1> HIDE DEF s
<1>4. /\ t \in Seq(Frames) /\ Len(t) = Len(stack) + 1 /\ t[Len(stack) + 1] = w
      /\ \A i \in 1 .. Len(stack) : t[i] = s[i]
  BY <1>3 DEF s
<1>5. t[Len(stack)] = g /\ \A i \in 1 .. Len(stack) : i < Len(stack) => t[i] = stack[i]
  BY <1>1, <1>3, <1>4
<1>6. ASSUME g.kind = "window"
      PROVE  Orderly(g, fvs) /\ Bears(g, w, fvs) /\ Tended(t, Len(stack))
             /\ g.triggers = stack[Len(stack)].triggers
  <2>1. g.triggers = Top.triggers /\ Orderly(g, fvs) /\ Bears(g, w, fvs)
        /\ \/ ~Emitted(g) \/ Own(g) = {}
           \/ Emitted(Top) /\ g.owner = Top.owner /\ Own(g) \subseteq Own(Top)
    BY <1>6 DEF RemainsUnder
  <2>2. WindowAt(stack, Len(stack))
    BY <1>1, <1>6 DEF SameFace, WindowAt
  <2>3. \A i \in 1 .. Len(stack) : WindowAt(stack, i) => t[i].triggers = stack[i].triggers
    <3> SUFFICES ASSUME NEW i \in 1 .. Len(stack) PROVE t[i].triggers = stack[i].triggers
      OBVIOUS
    <3>1. i < Len(stack) \/ i = Len(stack)
      BY <1>1
    <3> QED BY <3>1, <1>1, <1>5, <2>1
  <2>4. Paced(stack, events)
    BY <1>1 DEF Future
  <2>5. Tended(t, Len(stack))
    BY <1>1, <1>5, <2>1, <2>2, <2>3, <2>4, TopTended
  <2> QED BY <2>1, <2>5, <1>1
<1>7. ASSUME w.kind = "window"
      PROVE  Orderly(w, fvs) /\ Rests(w, fvs) /\ Tended(t, Len(stack) + 1)
             /\ w.triggers.missed = {}
  <2>1. /\ Orderly(w, fvs) /\ Rests(w, fvs) /\ ~Emitted(w)
        /\ w.triggers.seen = {} /\ w.triggers.missed = {}
    BY <1>7 DEF NewOnTop
  <2> QED BY <1>4, <2>1 DEF Tended
<1>8. LivesOn(stack[Len(stack)], {g, w}, events, fvs)
  <2>1. \A e : (\E x \in {g, w} : e \in Live(x)) <=> e \in Live(g) \/ e \in Live(w)
    OBVIOUS
  <2> QED BY <1>1, <2>1 DEF LivesOn, Shared
<1>9. SameFace(stack[Len(stack)], g)
  BY <1>1
<1>10. t = Append(Replaced(stack, Len(stack), g), w)
  BY <1>2 DEF s
<1> QED BY <1>1, <1>6, <1>7, <1>8, <1>9, <1>10, PushedFuture

\* Nothing else happens when a window is put on the one on top.
LEMMA ResolvedBelowSame ==
  ASSUME FutureInv, stack # <<>>
  PROVE  ResolvedBelow(stack, events) /\ Onward(events, events)
<1> DEFINE N == {}
<1>1. N = {} \/ (Top.kind = "window" /\ N \subseteq Places(Top))
  OBVIOUS
<1>2. \A e \in EventIds : e \notin N /\ events[e].status = "resolved" => events[e].status = "resolved"
  OBVIOUS
<1> HIDE DEF N
<1>3. ASSUME NEW fvs, fvs = events PROVE ResolvedBelow(stack, fvs)
  <2>1. \A e \in EventIds : e \notin N /\ events[e].status = "resolved" => fvs[e].status = "resolved"
    BY <1>3
  <2> QED BY <1>1, <2>1, ResolvedBelowStays
<1> QED BY <1>3, EventsOnward

LEMMA EventWindowBegins ==
  ASSUME NEW evs \in Seq(EventIds), NEW mode \in Modes, NEW subMode \in Modes,
         NEW subStep \in SubSteps, NEW trigger \in Triggers \cup {<<>>},
         subStep # "none" => trigger \in Triggers,
         NEW w, w = EventWindow(evs, mode, subMode, subStep, trigger),
         NEW fvs, \A e \in ToSet(evs) : fvs[e].status # "unused"
  PROVE  /\ w \in Windows /\ w \in Frames /\ w.kind = "window" /\ w.opened = evs
         /\ NewOnTop(w, fvs) /\ Live(w) = ToSet(evs)
<1>1. /\ w \in Windows /\ w.kind = "window" /\ w.step = "setParentEventWindow"
      /\ w.events = evs /\ w.opened = evs
      /\ w.subwindow = <<>> /\ w.queued = <<>> /\ w.resolved = <<>> /\ ~w.initiates
      /\ w.triggers = NewTriggerWindow(IF mode = "resolves" THEN ToSet(evs) ELSE {})
  BY EventWindowTyped
<1>2. /\ w.triggers.seen = {} /\ w.triggers.missed = {} /\ Waiting(w.triggers) = {}
  BY <1>1 DEF NewTriggerWindow, Waiting
<1>3. Begins(w, fvs)
  BY <1>1, <1>2 DEF Begins
<1> QED BY <1>1, <1>3, BegunWindow DEF Frames

LEMMA SubAbilityStepOnTop ==
  ASSUME NEW trigger \in Triggers, NEW subStep, NEW r, r = SubAbilityStep(trigger, subStep),
         NEW fvs
  PROVE  r \in Frames /\ r.kind = "resolver" /\ NewOnTop(r, fvs) /\ Live(r) = {}
<1>1. r \in Frames /\ r.kind = "resolver"
  BY SubAbilityStepTyped DEF Frames
<1> QED BY <1>1 DEF NewOnTop, Live

LEMMA QueuedWindowFuture ==
  ASSUME FutureInv, QueuedWindow
  PROVE  Future(stack', events')
<1> DEFINE qs == Top.queued
           q == Head(qs)
           u == q.event
           rest == Tail(qs)
           g == [Top EXCEPT !.queued = rest]
           one == <<u>>
           w == EventWindow(one, q.modes[1], q.modes[2], "none", <<>>)
<1>1. /\ stack # <<>> /\ Top.kind = "window" /\ Top.step = "resolveEvents" /\ qs # <<>>
  BY DEF QueuedWindow, EventsAreResolved, AtStep
<1>2. /\ Top \in Windows /\ Orderly(Top, events) /\ stack \in Seq(Frames)
      /\ History(stack, events) /\ WindowAt(stack, n) /\ Top = stack[n] /\ n = Len(stack)
  BY <1>1, FutureOfTop
<1>3. stack' = SetTop(g) \o <<w>> /\ events' = events
  BY DEF QueuedWindow
<1>4. qs \in Seq(QueuedWindows)
  BY <1>2 DEF Windows, WindowRecords
<1>5. q \in QueuedWindows /\ q = qs[1] /\ 1 \in DOMAIN qs
  BY <1>1, <1>4
<1>6. u \in EventIds /\ q.modes[1] \in Modes /\ q.modes[2] \in Modes
  BY <1>5 DEF QueuedWindows, NestedModes, Modes
<1>7. rest \in Seq(QueuedWindows) /\ ToSet(qs) = {q} \cup ToSet(rest)
  <2>1. rest \in Seq(QueuedWindows) /\ Len(rest) = Len(qs) - 1 /\ Len(qs) \in Nat \ {0}
        /\ \A k \in 1 .. Len(qs) - 1 : rest[k] = qs[k + 1]
    BY <1>1, <1>4
  <2> HIDE DEF rest, q, qs
  <2>2. \A x : x \in ToSet(qs) <=> \E k \in 1 .. Len(qs) : x = qs[k]
    BY <1>4, ToSetOf
  <2>3. \A x : x \in ToSet(rest) <=> \E k \in 1 .. Len(rest) : x = rest[k]
    BY <2>1, ToSetOf
  <2>4. ASSUME NEW x \in ToSet(qs) PROVE x = q \/ x \in ToSet(rest)
    <3>1. PICK k \in 1 .. Len(qs) : x = qs[k]
      BY <2>2
    <3>2. CASE k = 1
      BY <3>1, <3>2, <1>5
    <3>3. CASE k # 1
      <4>1. k - 1 \in 1 .. Len(rest) /\ k - 1 \in 1 .. Len(qs) - 1 /\ (k - 1) + 1 = k
        BY <2>1, <3>3
      <4>2. rest[k - 1] = qs[k]
        BY <2>1, <4>1
      <4> QED BY <2>3, <3>1, <4>1, <4>2
    <3> QED BY <3>2, <3>3
  <2>5. ASSUME NEW x \in ToSet(rest) PROVE x \in ToSet(qs)
    <3>1. PICK k \in 1 .. Len(rest) : x = rest[k]
      BY <2>3
    <3>2. k + 1 \in 1 .. Len(qs) /\ k \in 1 .. Len(qs) - 1
      BY <2>1
    <3>3. rest[k] = qs[k + 1]
      BY <2>1, <3>2
    <3> QED BY <2>2, <3>1, <3>2, <3>3
  <2>6. q \in ToSet(qs)
    <3>1. 1 \in 1 .. Len(qs)
      BY <2>1
    <3> QED BY <1>5, <2>2, <3>1
  <2> QED BY <2>1, <2>4, <2>5, <2>6
<1>8. one \in Seq(EventIds) /\ ToSet(one) = {u}
  BY <1>6 DEF ToSet
<1> HIDE DEF rest
<1>9. /\ g \in Windows /\ g.owner = Top.owner /\ g.triggers = Top.triggers /\ g.step = Top.step
      /\ g.kind = "window" /\ g.events = Top.events /\ g.resolved = Top.resolved
      /\ g.subwindow = Top.subwindow /\ g.queued = rest /\ g.opened = Top.opened
      /\ g.mode = Top.mode /\ g.initiates = Top.initiates
  BY <1>1, <1>2, <1>7 DEF Windows, WindowRecords, KnowsItsTrigger
<1> HIDE DEF g, w, q, one, u
<1>10. Queue(Top) = {u} \cup Queue(g) /\ Own(g) = Own(Top)
  <2>1. Queue(Top) = {x.event : x \in ToSet(qs)} /\ Queue(g) = {x.event : x \in ToSet(rest)}
    BY <1>9, QueueElements
  <2>2. {x.event : x \in {q} \cup ToSet(rest)} = {q.event} \cup {x.event : x \in ToSet(rest)}
    OBVIOUS
  <2> QED BY <1>7, <1>9, <2>1, <2>2 DEF u, Own
<1>11. events[u].status # "unused"
  <2>1. u \in Places(stack[n])
    BY <1>2, <1>10 DEF Places
  <2> QED BY <1>2, <2>1 DEF History, InUse, WindowAt
<1>12. /\ w \in Frames /\ w.kind = "window" /\ NewOnTop(w, events) /\ Live(w) = {u}
  <2>1. "none" \in SubSteps /\ <<>> \in Triggers \cup {<<>>}
    BY DEF SubSteps
  <2>2. \A e \in ToSet(one) : events[e].status # "unused"
    BY <1>8, <1>11
  <2> QED BY <1>6, <1>8, <2>1, <2>2, EventWindowBegins DEF w
<1>13. g.step \in EarlySteps /\ g.step \in SubwindowSteps /\ Emitted(Top)
  BY <1>1, <1>9 DEF EarlySteps, SubwindowSteps, PreSteps, Emitted
<1>14. Shared(Top, g, w, events, events)
  <2>1. Live(Top) = Known(Top) /\ Live(g) = Known(g)
    BY <1>1, <1>9, <1>13, LiveEarly
  <2>2. Known(Top) = Known(g) \cup {u}
    BY <1>9, <1>10 DEF Known
  <2> QED BY <1>12, <2>1, <2>2 DEF Shared
<1>15. RemainsUnder(Top, g, w, events)
  <2>1. g.initiates = FALSE
    BY <1>1, <1>2, <1>9 DEF Orderly, Windows, WindowRecords
  <2>2. g.step \in PreSteps \cup {"resolveEvents"}
    BY <1>1, <1>9
  <2>3. Orderly(g, events)
    BY <1>2, <1>9, <1>10, <2>1, <2>2 DEF Orderly
  <2>4. Bears(g, w, events)
    BY <1>12, <1>13, <2>1 DEF Bears
  <2> QED BY <1>9, <1>10, <1>13, <2>3, <2>4 DEF RemainsUnder
<1>16. stack' = Append(SetTop(g), w)
  <2>1. SetTop(g) \in Seq(Frames)
    <3>1. SetTop(g) = [stack EXCEPT ![Len(stack)] = g] /\ g \in Frames
      BY <1>2, <1>9 DEF SetTop, Frames
    <3> QED BY <1>1, <1>2, <3>1, TopReplaced
  <2> QED BY <1>3, <1>12, <2>1 DEF g
<1>17. SameFace(Top, g) /\ g \in Frames
  BY <1>1, <1>9 DEF SameFace, Frames
<1>18. ResolvedBelow(stack, events) /\ Onward(events, events)
  BY <1>1, ResolvedBelowSame
<1>19. ASSUME NEW fvs, fvs = events, NEW t, t = Append(SetTop(g), w) PROVE Future(t, fvs)
  <2>1. /\ RemainsUnder(Top, g, w, fvs) /\ NewOnTop(w, fvs) /\ Shared(Top, g, w, events, fvs)
        /\ ResolvedBelow(stack, fvs) /\ Onward(events, fvs)
    BY <1>12, <1>14, <1>15, <1>18, <1>19
  <2> QED BY <1>1, <1>12, <1>17, <1>19, <2>1, PushedOnTop
<1> QED BY <1>3, <1>16, <1>19

LEMMA PushedForm ==
  ASSUME PipelineInv, stack # <<>>, NEW g \in Frames, NEW w \in Frames
  PROVE  SetTop(g) \o <<w>> = Append(SetTop(g), w) /\ SetTop(g) \o <<>> = SetTop(g)
<1>1. stack \in Seq(Frames) /\ SetTop(g) = [stack EXCEPT ![Len(stack)] = g]
  BY DEF SetTop, PipelineInv, Types, n
<1> DEFINE s == SetTop(g)
<1>2. s \in Seq(Frames)
  BY <1>1, TopReplaced
<1> HIDE DEF s
<1>3. s \o <<w>> = Append(s, w) /\ s \o <<>> = s
  BY <1>2
<1> QED BY <1>3 DEF s

\* A frame is put on the window on top, and the events stay as they are.
LEMMA PushedCalmly ==
  ASSUME FutureInv, stack # <<>>, NEW g \in Frames, NEW w \in Frames, SameFace(Top, g),
         RemainsUnder(Top, g, w, events), NewOnTop(w, events),
         \A e : e \in Live(Top) <=> e \in Live(g) \/ e \in Live(w)
  PROVE  Future(Append(SetTop(g), w), events)
<1>1. ResolvedBelow(stack, events) /\ Onward(events, events)
  BY ResolvedBelowSame
<1>2. Shared(Top, g, w, events, events)
  BY DEF Shared
<1>3. ASSUME NEW fvs, fvs = events, NEW t, t = Append(SetTop(g), w) PROVE Future(t, fvs)
  <2>1. /\ RemainsUnder(Top, g, w, fvs) /\ NewOnTop(w, fvs) /\ Shared(Top, g, w, events, fvs)
        /\ ResolvedBelow(stack, fvs) /\ Onward(events, fvs)
    BY <1>1, <1>2, <1>3
  <2> QED BY <1>3, <2>1, PushedOnTop
<1> QED BY <1>3

\* The window on top changes, and the events stay as they are.
LEMMA TopCalmly ==
  ASSUME FutureInv, stack # <<>>, Top.kind = "window",
         NEW g \in Windows, g.opened = Top.opened, g.triggers = Top.triggers,
         Orderly(g, events), Rests(g, events), Live(g) = Live(Top),
         \/ ~Emitted(g) \/ Own(g) = {}
         \/ Emitted(Top) /\ g.owner = Top.owner /\ Own(g) \subseteq Own(Top)
  PROVE  Future(SetTop(g), events)
<1> DEFINE t == Replaced(stack, Len(stack), g)
<1>1. /\ stack \in Seq(Frames) /\ events \in [EventIds -> EventRecords]
      /\ n = Len(stack) /\ n \in 1 .. Len(stack) /\ Top = stack[n] /\ Top = stack[Len(stack)]
      /\ Fits(stack, current) /\ Future(stack, events) /\ WindowAt(stack, n)
  BY FutureOfTop
<1>2. /\ t \in Seq(Frames) /\ Len(t) = Len(stack) /\ t[Len(stack)] = g
      /\ \A i \in 1 .. Len(stack) - 1 : t[i] = stack[i]
  BY <1>1, TopReplaced DEF Replaced, Frames
<1>3. ResolvedBelow(stack, events) /\ Onward(events, events)
  BY ResolvedBelowSame
<1>4. SetTop(g) = t
  BY <1>1 DEF SetTop, Replaced
<1>5. ASSUME NEW fvs, fvs = events, NEW u, u = t PROVE Future(u, fvs)
  <2> HIDE DEF t
  <2>1. Adjacent(u, Len(stack), fvs)
    BY <1>2, <1>5 DEF Adjacent
  <2>2. \A i \in 1 .. Len(stack) : WindowAt(stack, i) => u[i].triggers = stack[i].triggers
    <3> SUFFICES ASSUME NEW i \in 1 .. Len(stack) PROVE u[i].triggers = stack[i].triggers
      OBVIOUS
    <3>1. i \in 1 .. Len(stack) - 1 \/ i = Len(stack)
      BY <1>1
    <3> QED BY <3>1, <1>1, <1>2, <1>5
  <2>3. Tended(u, Len(stack))
    <3>1. Paced(stack, events) /\ WindowAt(stack, Len(stack)) /\ u[Len(stack)] = g
      BY <1>1, <1>2, <1>5 DEF Future
    <3> QED BY <1>1, <2>2, <3>1, TopTended
  <2>4. LivesOn(stack[Len(stack)], {g}, events, fvs)
    BY <1>1, <1>5 DEF LivesOn
  <2>5. /\ u = Replaced(stack, Len(stack), g) /\ Orderly(g, fvs) /\ ResolvedBelow(stack, fvs)
        /\ Onward(events, fvs)
    BY <1>3, <1>5 DEF t
  <2> QED BY <1>1, <2>1, <2>3, <2>4, <2>5, TopFuture
<1> QED BY <1>4, <1>5

\* The window on top has initiated its ability.
LEMMA InitiatedRemains ==
  ASSUME FutureInv, stack # <<>>, Top.kind = "window", Top.step = "resolveEvents",
         Top.initiates,
         NEW g, g = [Top EXCEPT !.initiates = FALSE, !.subStep = "none"],
         NEW fvs, \A e \in EventIds : events[e].status # "unused" => fvs[e] = events[e]
  PROVE  /\ g \in Windows /\ g \in Frames /\ SameFace(Top, g) /\ Live(g) = Live(Top)
         /\ g.kind = "window" /\ g.opened = Top.opened /\ g.triggers = Top.triggers
         /\ g.owner = Top.owner /\ Own(g) = Own(Top) /\ Emitted(Top)
         /\ Orderly(g, fvs) /\ Rests(g, fvs) /\ g.initiates = FALSE
         /\ g.step \in SubwindowSteps /\ g.subwindow = <<>>
         /\ Top.trigger \in Triggers /\ Top.subStep \in SubSteps
<1>1. Top \in Windows /\ Orderly(Top, events)
  BY FutureOfTop
<1>2. /\ g \in Windows /\ g.kind = "window" /\ g.mode = Top.mode
      /\ g.owner = Top.owner /\ g.triggers = Top.triggers /\ g.step = Top.step
  BY <1>1, InitiatedTyped
<1>3. /\ g.events = Top.events /\ g.resolved = Top.resolved /\ g.subwindow = Top.subwindow
      /\ g.queued = Top.queued /\ g.opened = Top.opened /\ g.initiates = FALSE
  BY <1>1 DEF Windows, WindowRecords
<1>4. g.step \in SubwindowSteps /\ g.step \in PreSteps \cup {"resolveEvents"} /\ Emitted(Top)
      /\ g.step # "cleanup" /\ Top.initiates
  BY <1>2 DEF SubwindowSteps, Emitted, PreSteps
<1>5. Own(g) = Own(Top) /\ Live(g) = Live(Top)
  BY <1>2, <1>3 DEF Own, Live, Sub, Queue
<1>6. /\ Own(Top) \in SUBSET EventIds /\ ToSet(Top.subwindow) \in SUBSET EventIds
      /\ ToSet(Top.opened) \in SUBSET EventIds /\ ToSet(Top.resolved) \in SUBSET EventIds
  BY <1>1, KnownEvents
<1>7. \A e \in EventIds : events[e].status # "unused" => fvs[e].status = events[e].status
  OBVIOUS
<1>8. /\ \A e \in Own(g) \cup ToSet(g.subwindow) \cup ToSet(g.opened) : fvs[e].status # "unused"
      /\ \A e \in ToSet(g.resolved) : fvs[e].status = "resolved"
      /\ \A e \in ToSet(g.opened) : fvs[e].status = "created" => e \in ToSet(g.events)
      /\ g.mode = "passes" => Waiting(g.triggers) = {}
      /\ g.subwindow = <<>>
  BY <1>1, <1>2, <1>3, <1>4, <1>5, <1>6, <1>7 DEF Orderly
<1>9. Orderly(g, fvs)
  BY <1>3, <1>4, <1>8 DEF Orderly
<1>10. Rests(g, fvs)
  BY <1>4 DEF Rests
<1>11. Top.trigger \in Triggers /\ Top.subStep \in SubSteps
  BY <1>1 DEF Windows, KnowsItsTrigger, WindowRecords
<1> QED BY <1>2, <1>3, <1>4, <1>5, <1>8, <1>9, <1>10, <1>11 DEF SameFace, Frames

LEMMA InitiatedAbilityActsFuture ==
  ASSUME FutureInv, NEW listeners \in Listening, InitiatedAbilityActs(listeners)
  PROVE  Future(stack', events')
<1> DEFINE g == [Top EXCEPT !.initiates = FALSE, !.subStep = "none"]
           u == NextUnused
           one == <<u>>
           w == EventWindow(one, "passes", "resolves", Top.subStep, Top.trigger)
           fvs == [events EXCEPT ![u] = NewEvent(listeners)]
<1>1. /\ stack # <<>> /\ Top.kind = "window" /\ Top.step = "resolveEvents" /\ Top.initiates
      /\ Unused # {}
  BY DEF InitiatedAbilityActs, EventsAreResolved, AtStep
<1>2. stack' = SetTop(g) \o <<w>> /\ events' = fvs
  BY DEF InitiatedAbilityActs
<1>3. u \in EventIds /\ events[u].status = "unused"
  BY <1>1, NextUnusedIsUnused
<1>4. one \in Seq(EventIds) /\ ToSet(one) = {u}
  BY <1>3 DEF ToSet
<1> HIDE DEF w, one, u
<1>5. fvs[u] = NewEvent(listeners) /\ \A f \in EventIds : f # u => fvs[f] = events[f]
  BY <1>1, <1>3, FutureOfTop
<1> HIDE DEF fvs
<1>6. EventStarts(events[u], fvs[u]) /\ fvs[u].status = "created"
  BY <1>3, <1>5 DEF EventStarts, NewEvent
<1>7. Onward(events, fvs)
  BY <1>5, <1>6 DEF Onward
<1>8. \A e \in EventIds : events[e].status # "unused" => fvs[e] = events[e]
  BY <1>3, <1>5
<1>9. /\ g \in Windows /\ g \in Frames /\ SameFace(Top, g) /\ Live(g) = Live(Top)
      /\ g.kind = "window" /\ g.triggers = Top.triggers
      /\ g.owner = Top.owner /\ Own(g) = Own(Top) /\ Emitted(Top)
      /\ Orderly(g, fvs) /\ g.initiates = FALSE
      /\ g.step \in SubwindowSteps /\ Top.trigger \in Triggers /\ Top.subStep \in SubSteps
  BY <1>1, <1>8, InitiatedRemains
<1> HIDE DEF g
<1>10. /\ w \in Frames /\ w.kind = "window" /\ NewOnTop(w, fvs) /\ Live(w) = {u}
  <2>1. "passes" \in Modes /\ "resolves" \in Modes /\ Top.trigger \in Triggers \cup {<<>>}
    BY <1>9 DEF Modes
  <2>2. \A e \in ToSet(one) : fvs[e].status # "unused"
    BY <1>4, <1>6
  <2> QED BY <1>4, <1>9, <2>1, <2>2, EventWindowBegins DEF w
<1>11. RemainsUnder(Top, g, w, fvs)
  <2>1. Bears(g, w, fvs)
    BY <1>9, <1>10 DEF Bears
  <2> QED BY <1>9, <2>1 DEF RemainsUnder
<1>12. Shared(Top, g, w, events, fvs)
  BY <1>3, <1>5, <1>9, <1>10 DEF Shared
<1>13. ResolvedBelow(stack, fvs)
  <2> DEFINE N == {}
  <2>1. N = {} \/ (Top.kind = "window" /\ N \subseteq Places(Top))
    OBVIOUS
  <2>2. \A e \in EventIds : e \notin N /\ events[e].status = "resolved"
                              => fvs[e].status = "resolved"
    BY <1>8
  <2> HIDE DEF N
  <2> QED BY <1>1, <2>1, <2>2, ResolvedBelowStays
<1>14. stack' = Append(SetTop(g), w)
  BY <1>1, <1>2, <1>9, <1>10, PushedForm DEF FutureInv, HistoryInv
<1>15. ASSUME NEW t, t = Append(SetTop(g), w) PROVE Future(t, fvs)
  BY <1>1, <1>7, <1>9, <1>10, <1>11, <1>12, <1>13, <1>15, PushedOnTop
<1> QED BY <1>2, <1>14, <1>15

LEMMA InitiatedAbilityHasNoEventFuture ==
  ASSUME FutureInv, InitiatedAbilityHasNoEvent
  PROVE  Future(stack', events')
<1> DEFINE g == [Top EXCEPT !.initiates = FALSE, !.subStep = "none"]
           r == SubAbilityStep(Top.trigger, Top.subStep)
<1>1. /\ stack # <<>> /\ Top.kind = "window" /\ Top.step = "resolveEvents" /\ Top.initiates
  BY DEF InitiatedAbilityHasNoEvent, EventsAreResolved, AtStep
<1>2. /\ events' = events
      /\ stack' = SetTop(g) \o IF Top.subStep = "none" THEN <<>> ELSE <<r>>
  BY DEF InitiatedAbilityHasNoEvent
<1>3. /\ g \in Windows /\ g \in Frames /\ SameFace(Top, g) /\ Live(g) = Live(Top)
      /\ g.kind = "window" /\ g.triggers = Top.triggers /\ g.opened = Top.opened
      /\ g.owner = Top.owner /\ Own(g) = Own(Top) /\ Emitted(Top)
      /\ Orderly(g, events) /\ Rests(g, events) /\ g.initiates = FALSE
      /\ g.step \in SubwindowSteps /\ g.subwindow = <<>> /\ Top.trigger \in Triggers
  <2>1. \A e \in EventIds : events[e].status # "unused" => events[e] = events[e]
    OBVIOUS
  <2> QED BY <1>1, <2>1, InitiatedRemains
<1> HIDE DEF g
<1>4. r \in Frames /\ r.kind = "resolver" /\ NewOnTop(r, events) /\ Live(r) = {}
  BY <1>3, SubAbilityStepOnTop
<1> HIDE DEF r
<1>5. SetTop(g) \o <<r>> = Append(SetTop(g), r) /\ SetTop(g) \o <<>> = SetTop(g)
  BY <1>1, <1>3, <1>4, PushedForm DEF FutureInv, HistoryInv
<1>6. CASE Top.subStep = "none"
  <2>1. Future(SetTop(g), events)
    BY <1>1, <1>3, TopCalmly
  <2> QED BY <1>2, <1>5, <1>6, <2>1
<1>7. CASE Top.subStep # "none"
  <2>1. RemainsUnder(Top, g, r, events)
    <3>1. Bears(g, r, events)
      BY <1>3, <1>4 DEF Bears
    <3> QED BY <1>3, <3>1 DEF RemainsUnder
  <2>2. \A e : e \in Live(Top) <=> e \in Live(g) \/ e \in Live(r)
    BY <1>3, <1>4
  <2>3. Future(Append(SetTop(g), r), events)
    BY <1>1, <1>3, <1>4, <2>1, <2>2, PushedCalmly
  <2> QED BY <1>2, <1>5, <1>7, <2>3
<1> QED BY <1>6, <1>7

GoesToStep(f, g, step) == g = [f EXCEPT !.step = step]

\* The window on top goes on to one of its last steps.
LEMMA LateStep ==
  ASSUME FutureInv, stack # <<>>, Top.kind = "window", Top.step \notin EarlySteps,
         NEW step \in WindowSteps \ SubwindowSteps,
         NEW g, GoesToStep(Top, g, step)
  PROVE  /\ g \in Windows /\ g \in Frames /\ SameFace(Top, g)
         /\ g.kind = "window" /\ g.opened = Top.opened /\ g.triggers = Top.triggers
         /\ g.owner = Top.owner /\ Own(g) = Own(Top) /\ Emitted(Top) /\ g.step = step
         /\ Orderly(g, events) /\ g.initiates = FALSE /\ g.subwindow = Top.subwindow
         /\ g.mode = Top.mode
         /\ Live(g) = {} /\ Live(Top) = Sub(Top)
         /\ \A e \in ToSet(Top.subwindow) : events[e].status # "unused"
         /\ Top.step \notin SubwindowSteps =>
              \A e \in ToSet(Top.subwindow) : events[e].status # "created"
<1>1. Top \in Windows /\ Orderly(Top, events) /\ Rests(Top, events)
  BY FutureOfTop
<1>2. /\ g \in Windows /\ g.kind = "window" /\ g.mode = Top.mode /\ g.step = step
      /\ g.owner = Top.owner /\ g.triggers = Top.triggers
      /\ g.events = Top.events /\ g.resolved = Top.resolved /\ g.subwindow = Top.subwindow
      /\ g.queued = Top.queued /\ g.opened = Top.opened /\ g.initiates = Top.initiates
  BY <1>1 DEF GoesToStep, Windows, WindowRecords, KnowsItsTrigger
<1>3. /\ step \notin EarlySteps /\ step \notin PreSteps \cup {"resolveEvents"}
      /\ Top.step \notin PreSteps \cup {"resolveEvents"} /\ Emitted(Top)
  BY DEF EarlySteps, SubwindowSteps, PreSteps, Emitted
<1>4. /\ Top.initiates = FALSE /\ Top.queued = <<>>
  <2>1. Top.initiates \in BOOLEAN
    BY <1>1 DEF Windows, WindowRecords
  <2> QED BY <2>1, <1>1, <1>3 DEF Orderly, PreSteps
<1>5. Queue(Top) = {} /\ Queue(g) = {}
  <2> DEFINE none == <<>>
  <2>1. DOMAIN none = {} /\ Top.queued = none /\ g.queued = none
    BY <1>2, <1>4
  <2> HIDE DEF none
  <2> QED BY <2>1 DEF Queue
<1>6. Own(g) = Own(Top)
  BY <1>2 DEF Own
<1>7. Live(g) = {} /\ Live(Top) = Sub(Top)
  BY <1>2, <1>3, <1>5 DEF Live, Sub
<1>8. Orderly(g, events)
  BY <1>1, <1>2, <1>3, <1>4, <1>6 DEF Orderly
<1> QED BY <1>1, <1>2, <1>3, <1>4, <1>6, <1>7, <1>8 DEF SameFace, Frames, Orderly, Rests

LEMMA ResolveSubAbilityStepFuture ==
  ASSUME FutureInv, ResolveSubAbilityStep
  PROVE  Future(stack', events')
<1> DEFINE step == AfterSubAbilityStep(Top)
           g == [Top EXCEPT !.step = step]
           r == SubAbilityStep(Top.trigger, Top.subStep)
           due == SubAbilityStepDue
<1>1. /\ stack # <<>> /\ Top.kind = "window" /\ Top.step = "resolveSubAbilityStep"
  BY DEF ResolveSubAbilityStep, AtStep
<1>2. /\ events' = events
      /\ stack' = SetTop(g) \o IF due THEN <<r>> ELSE <<>>
  BY DEF ResolveSubAbilityStep, Step
<1>3. Top \in Windows
  BY <1>1, FutureOfTop
<1>4. step \in WindowSteps \ SubwindowSteps /\ (step = "cleanup" => Top.mode = "passes")
  <2>1. step \in WindowSteps /\ (step = "cleanup" => Top.mode = "passes")
    BY <1>3, StepsAfterEvents
  <2>2. step \notin SubwindowSteps
    BY DEF AfterSubAbilityStep, SubwindowSteps, PreSteps
  <2> QED BY <2>1, <2>2
<1>5. due => Top.trigger \in Triggers
  BY <1>1, <1>3 DEF SubAbilityStepDue, Windows, KnowsItsTrigger
<1>6. due \in BOOLEAN
  BY DEF SubAbilityStepDue
<1>7. Top.step \notin EarlySteps /\ Top.step \notin SubwindowSteps
  BY <1>1 DEF EarlySteps, SubwindowSteps, PreSteps
<1>12. GoesToStep(Top, g, step)
  BY DEF GoesToStep
<1> HIDE DEF step, r, due, g
<1>8. /\ g \in Windows /\ g \in Frames /\ SameFace(Top, g)
      /\ g.kind = "window" /\ g.opened = Top.opened /\ g.triggers = Top.triggers
      /\ g.owner = Top.owner /\ Own(g) = Own(Top) /\ Emitted(Top) /\ g.step = step
      /\ Orderly(g, events) /\ g.initiates = FALSE /\ g.subwindow = Top.subwindow
      /\ g.mode = Top.mode
      /\ Live(g) = {} /\ Live(Top) = Sub(Top)
      /\ \A e \in ToSet(Top.subwindow) : events[e].status # "created"
  BY <1>1, <1>4, <1>7, <1>12, LateStep, ZenonT(60)
<1>9. Live(Top) = {}
  BY <1>7, <1>8 DEF Sub
<1>10. CASE ~due
  <2>1. Rests(g, events)
    BY <1>4, <1>8 DEF Rests
  <2>2. Future(SetTop(g), events)
    BY <1>1, <1>8, <1>9, <2>1, TopCalmly
  <2>3. SetTop(g) \o <<>> = SetTop(g)
    BY <1>1, <1>8, PushedForm DEF FutureInv, HistoryInv
  <2> QED BY <1>2, <1>10, <2>2, <2>3
<1>11. CASE due
  <2>1. r \in Frames /\ r.kind = "resolver" /\ NewOnTop(r, events) /\ Live(r) = {}
    BY <1>5, <1>11, SubAbilityStepOnTop DEF r
  <2>2. SetTop(g) \o <<r>> = Append(SetTop(g), r)
    BY <1>1, <1>8, <2>1, PushedForm DEF FutureInv, HistoryInv
  <2>3. Bears(g, r, events)
    BY <1>4, <1>8 DEF Bears
  <2>4. RemainsUnder(Top, g, r, events)
    BY <1>8, <2>3 DEF RemainsUnder
  <2>5. \A e : e \in Live(Top) <=> e \in Live(g) \/ e \in Live(r)
    BY <1>8, <1>9, <2>1
  <2>6. Future(Append(SetTop(g), r), events)
    BY <1>1, <1>8, <2>1, <2>4, <2>5, PushedCalmly
  <2> QED BY <1>2, <1>11, <2>2, <2>6
<1> QED BY <1>6, <1>10, <1>11

LEMMA ResolveTriggersIfNecessaryFuture ==
  ASSUME FutureInv, ResolveTriggersIfNecessary
  PROVE  Future(stack', events')
<1> DEFINE step == "cleanup"
           g == [Top EXCEPT !.step = step]
           r == TriggeredAbilityWindow
<1>1. /\ stack # <<>> /\ Top.kind = "window" /\ Top.step = "resolveTriggersIfNecessary"
      /\ stack' = Append(SetTop(g), r) /\ events' = events
  BY DEF ResolveTriggersIfNecessary, AtStep, Step
<1>2. step \in WindowSteps \ SubwindowSteps
  BY DEF WindowSteps, SubwindowSteps, PreSteps
<1>3. Top.step \notin EarlySteps /\ Top.step \notin SubwindowSteps
  BY <1>1 DEF EarlySteps, SubwindowSteps, PreSteps
<1>4. r \in Frames /\ r.kind = "triggers"
  BY DEF TriggeredAbilityWindow, Frames
<1>12. GoesToStep(Top, g, step)
  BY DEF GoesToStep
<1> HIDE DEF step, r, g
<1>5. /\ g \in Windows /\ g \in Frames /\ SameFace(Top, g)
      /\ g.kind = "window" /\ g.triggers = Top.triggers
      /\ g.owner = Top.owner /\ Own(g) = Own(Top) /\ Emitted(Top)
      /\ Orderly(g, events) /\ g.initiates = FALSE /\ g.subwindow = Top.subwindow
      /\ Live(g) = {} /\ Live(Top) = Sub(Top)
      /\ \A e \in ToSet(Top.subwindow) : events[e].status # "created"
  BY <1>1, <1>2, <1>3, <1>12, LateStep, ZenonT(60)
<1>6. NewOnTop(r, events) /\ Live(r) = {}
  BY <1>4 DEF NewOnTop, Live
<1>7. Live(Top) = {}
  BY <1>3, <1>5 DEF Sub
<1>8. Bears(g, r, events)
  BY <1>4, <1>5 DEF Bears
<1>9. RemainsUnder(Top, g, r, events)
  BY <1>5, <1>8 DEF RemainsUnder
<1>10. \A e : e \in Live(Top) <=> e \in Live(g) \/ e \in Live(r)
  BY <1>5, <1>6, <1>7
<1>11. Future(Append(SetTop(g), r), events)
  BY <1>1, <1>4, <1>5, <1>6, <1>9, <1>10, PushedCalmly
<1> QED BY <1>1, <1>11

LEMMA SubwindowOpensFuture ==
  ASSUME FutureInv, ResolveSubwindowEvents, Top.subMode # "passes"
  PROVE  Future(stack', events')
<1> DEFINE step == AfterSubwindowEvents(Top)
           evs == Top.subwindow
           g == [Top EXCEPT !.step = step]
           passes == "passes"
           resolves == "resolves"
           none == "none"
           noTrigger == <<>>
           w == EventWindow(evs, passes, resolves, none, noTrigger)
<1>1. /\ stack # <<>> /\ Top.kind = "window" /\ Top.step = "resolveSubwindowEvents"
      /\ stack' = Append(SetTop(g), w) /\ events' = events
  BY DEF ResolveSubwindowEvents, AtStep, Step
<1>2. Top \in Windows
  BY <1>1, FutureOfTop
<1>3. step \in WindowSteps \ SubwindowSteps
  BY <1>2, StepsAfterEvents DEF AfterSubwindowEvents, AfterSubAbilityStep, SubwindowSteps, PreSteps
<1>4. Top.step \notin EarlySteps /\ Top.step \in SubwindowSteps
  BY <1>1 DEF EarlySteps, SubwindowSteps, PreSteps
<1>5. /\ evs \in Seq(EventIds) /\ passes \in Modes /\ resolves \in Modes /\ none \in SubSteps
      /\ (none # "none" => noTrigger \in Triggers) /\ noTrigger \in Triggers \cup {<<>>}
  BY <1>2 DEF Windows, WindowRecords, Modes, SubSteps
<1>6. GoesToStep(Top, g, step)
  BY DEF GoesToStep
<1> HIDE DEF step, evs, g, w, passes, resolves, none, noTrigger
<1>7. /\ g \in Windows /\ g \in Frames /\ SameFace(Top, g)
      /\ g.kind = "window" /\ g.triggers = Top.triggers
      /\ g.owner = Top.owner /\ Own(g) = Own(Top) /\ Emitted(Top) /\ g.step = step
      /\ Orderly(g, events) /\ g.initiates = FALSE /\ g.subwindow = Top.subwindow
      /\ Live(g) = {} /\ Live(Top) = Sub(Top)
      /\ \A e \in ToSet(Top.subwindow) : events[e].status # "unused"
  <2>1. stack # <<>> /\ Top.kind = "window" /\ Top.step \notin EarlySteps
    BY <1>1, <1>4
  <2> QED BY <1>3, <1>6, <2>1, LateStep, ZenonT(60)
<1>8. /\ w \in Frames /\ w.kind = "window" /\ w.opened = evs
      /\ NewOnTop(w, events) /\ Live(w) = ToSet(evs)
  <2> DEFINE q == evs
  <2>1. q \in Seq(EventIds) /\ \A e \in ToSet(q) : events[e].status # "unused"
    BY <1>5, <1>7 DEF evs
  <2>2. w = EventWindow(q, passes, resolves, none, noTrigger)
    BY DEF w
  <2> HIDE DEF q
  <2>3. /\ w \in Frames /\ w.kind = "window" /\ w.opened = q
        /\ NewOnTop(w, events) /\ Live(w) = ToSet(q)
    BY <1>5, <2>1, <2>2, EventWindowBegins
  <2> QED BY <2>3 DEF q
<1>9. Bears(g, w, events)
  BY <1>7, <1>8 DEF Bears, evs
<1>10. RemainsUnder(Top, g, w, events)
  BY <1>7, <1>9 DEF RemainsUnder
<1>11. \A e : e \in Live(Top) <=> e \in Live(g) \/ e \in Live(w)
  BY <1>4, <1>7, <1>8 DEF Sub, evs
<1>12. Future(Append(SetTop(g), w), events)
  BY <1>1, <1>7, <1>8, <1>10, <1>11, PushedCalmly
<1> QED BY <1>1, <1>12

\* The window on top hands what is left of it on to the window below.
LEMMA HandedUp ==
  ASSUME NEW s \in Seq(Frames), NEW c, Fits(s, c), NEW evs \in [EventIds -> EventRecords],
         Future(s, evs), NEW k \in Nat, k = Len(s), k > 1, WindowAt(s, k), WindowAt(s, k - 1),
         NEW h \in Windows, NEW g \in Windows, NEW t \in Seq(Frames), Len(t) = k,
         t[k] = g, t[k - 1] = h, \A i \in 1 .. k - 2 : t[i] = s[i],
         h.triggers = s[k - 1].triggers, g.triggers = s[k].triggers,
         h.opened = s[k - 1].opened, Own(h) = Own(s[k - 1]), h.owner = s[k - 1].owner,
         Emitted(h) => Emitted(s[k - 1]),
         Own(g) = Own(s[k]), g.owner = s[k].owner, Emitted(g) => Emitted(s[k]),
         Orderly(h, evs), Bears(h, g, evs), Orderly(g, evs), Rests(g, evs),
         \A e : e \in Live(h) \/ e \in Live(g) <=> e \in Live(s[k - 1]) \/ e \in Live(s[k])
  PROVE  Future(t, evs)
<1> DEFINE m == k - 2
           p == k - 1
<1>1. /\ m \in Nat /\ m + 1 = p /\ p + 1 = k /\ m < Len(s) /\ m < Len(t) /\ p # k
      /\ m <= Len(s) /\ m <= Len(t)
  OBVIOUS
<1>2. /\ \A i \in m + 1 .. Len(s) : i = p \/ i = k
      /\ p \in m + 1 .. Len(s) /\ k \in m + 1 .. Len(s)
      /\ p \in 1 .. Len(s) /\ k \in 1 .. Len(s)
  OBVIOUS
<1>3. \A i \in 1 .. Len(s) : i \in 1 .. m \/ i = p \/ i = k
  OBVIOUS
<1>4. t[p] = h /\ \A i \in 1 .. m : t[i] = s[i]
  OBVIOUS
<1>5. /\ WindowAt(s, p) /\ h.triggers = s[p].triggers /\ Own(h) = Own(s[p])
      /\ h.owner = s[p].owner /\ h.opened = s[p].opened /\ (Emitted(h) => Emitted(s[p]))
  OBVIOUS
<1>6. \A e : e \in Live(h) \/ e \in Live(g) <=> e \in Live(s[p]) \/ e \in Live(s[k])
  OBVIOUS
<1> HIDE DEF m, p
<1>7. /\ WindowAt(t, p) /\ WindowAt(t, k) /\ s[p].kind = "window" /\ h.kind = "window"
  BY <1>2, <1>4, <1>5 DEF WindowAt, Windows, WindowRecords
<1>8. \A i \in 1 .. Len(s) : t[i].triggers = s[i].triggers
  BY <1>3, <1>4, <1>5
<1>9. \A i \in 1 .. Len(s) : WindowAt(s, i) <=> WindowAt(t, i)
  <2> SUFFICES ASSUME NEW i \in 1 .. Len(s) PROVE WindowAt(s, i) <=> WindowAt(t, i)
    OBVIOUS
  <2>1. CASE i \in 1 .. m
    BY <2>1, <1>4 DEF WindowAt
  <2> QED BY <2>1, <1>3, <1>5, <1>7
<1>10. ASSUME NEW i \in {p, k} PROVE Tended(t, i)
  <2>1. i \in 1 .. Len(s) /\ WindowAt(s, i)
    BY <1>2, <1>5
  <2>2. Tended(s, i)
    BY <2>1 DEF Future, Paced
  <2>3. /\ Own(t[i]) = Own(s[i]) /\ t[i].owner = s[i].owner /\ (Emitted(t[i]) => Emitted(s[i]))
        /\ t[i].triggers = s[i].triggers
    BY <1>4, <1>5, <1>8, <2>1
  <2>4. ASSUME Emitted(t[i]) PROVE Own(t[i]) \subseteq t[t[i].owner].triggers.triggering
    <3>1. s[i].step # "setParentEventWindow" /\ Emitted(s[i])
      BY <2>3, <2>4 DEF Emitted, PreSteps
    <3>2. BegunFits(s, i)
      BY <2>1, <3>1 DEF Fits, FitsAt, WindowFits, WindowAt
    <3>3. s[i].owner \in 1 .. Len(s)
      BY <2>1, <3>2 DEF BegunFits
    <3>4. t[s[i].owner].triggers = s[s[i].owner].triggers
      BY <1>8, <3>3
    <3> QED BY <2>2, <2>3, <3>1, <3>4 DEF Tended
  <2> QED BY <2>2, <2>3, <2>4 DEF Tended
<1>11. PacedAbove(t, m, evs)
  <2> SUFFICES ASSUME NEW i \in m + 1 .. Len(t), WindowAt(t, i)
               PROVE  Orderly(t[i], evs) /\ Adjacent(t, i, evs) /\ Tended(t, i)
    BY DEF PacedAbove
  <2>1. CASE i = p
    <3>1. p < Len(t) /\ p # Len(t)
      BY <1>1
    <3> QED BY <2>1, <3>1, <1>1, <1>4, <1>10 DEF Adjacent
  <2>2. CASE i = k
    BY <2>2, <1>1, <1>4, <1>10 DEF Adjacent
  <2> QED BY <2>1, <2>2, <1>2
<1>12. SameFace(s[m + 1], t[m + 1])
  BY <1>1, <1>4, <1>5, <1>7 DEF SameFace
<1>13. \A e : FutureAbove(s, m, e) <=> e \in Live(s[p]) \/ e \in Live(s[k])
  BY <1>2 DEF FutureAbove
<1>14. \A e : FutureAbove(t, m, e) <=> e \in Live(h) \/ e \in Live(g)
  BY <1>2, <1>4 DEF FutureAbove
<1>15. LiveGoesOn(s, t, m, evs, evs)
  <2>1. \A e \in EventIds : evs[e].status = "created" => HasFuture(s, e)
    BY DEF Future, Placed
  <2> QED BY <1>6, <1>13, <1>14 DEF LiveGoesOn
<1>16. \A i \in m + 1 .. Len(s) : i \in 1 .. Len(s)
  BY <1>1
<1>17. \A x \in Triggers : WaitsAbove(s, m, x) => WaitsAbove(t, m, x)
  BY <1>8, <1>9, <1>16 DEF WaitsAbove
<1>18. \A x \in Triggers : MissedAbove(t, m, x) => MissedAbove(s, m, x)
  BY <1>8, <1>9, <1>16 DEF MissedAbove
<1>19. \A i \in 1 .. m : WindowAt(s, i) =>
         \A e \in ToSet(s[i].resolved) : evs[e].status = "resolved"
  <2>1. \A i \in 1 .. m : i \in 1 .. Len(s)
    BY <1>1
  <2> QED BY <2>1 DEF Future, Paced, Orderly
<1>20. Onward(evs, evs)
  BY EventsOnward
<1>21. ASSUME NEW fvs, fvs = evs PROVE Future(t, fvs)
  <2>1. /\ Onward(evs, fvs) /\ PacedAbove(t, m, fvs) /\ LiveGoesOn(s, t, m, evs, fvs)
        /\ \A i \in 1 .. m : WindowAt(s, i) =>
             \A e \in ToSet(s[i].resolved) : fvs[e].status = "resolved"
    BY <1>11, <1>15, <1>19, <1>20, <1>21
  <2> QED BY <1>1, <1>4, <1>12, <1>17, <1>18, <2>1, FutureGoesOn
<1> QED BY <1>21

LEMMA SubwindowPassesFuture ==
  ASSUME FutureInv, ResolveSubwindowEvents, Top.subMode = "passes"
  PROVE  Future(stack', events')
<1> DEFINE step == AfterSubwindowEvents(Top)
           evs == Top.subwindow
           g == [Top EXCEPT !.step = step, !.subwindow = <<>>]
           p == n - 1
           s == SetTop(g)
           all == s[p].subwindow \o evs
           h == [s[p] EXCEPT !.subwindow = all]
<1>1. /\ stack # <<>> /\ Top.kind = "window" /\ Top.step = "resolveSubwindowEvents"
      /\ stack' = [s EXCEPT ![Top.parent].subwindow = @ \o evs] /\ events' = events
  BY DEF ResolveSubwindowEvents, AtStep
<1>2. /\ Top \in Windows /\ Orderly(Top, events) /\ stack \in Seq(Frames) /\ n = Len(stack)
      /\ Top = stack[n] /\ WindowAt(stack, n) /\ n \in 1 .. Len(stack)
      /\ events \in [EventIds -> EventRecords]
      /\ Fits(stack, current) /\ Future(stack, events) /\ History(stack, events) /\ PipelineInv
  BY <1>1, FutureOfTop DEF FutureInv, HistoryInv
<1>3. step \in WindowSteps \ SubwindowSteps /\ (step = "cleanup" => Top.mode = "passes")
  BY <1>2, StepsAfterEvents DEF AfterSubwindowEvents, AfterSubAbilityStep, SubwindowSteps, PreSteps
<1>4. p \in 1 .. n - 1 /\ WindowAt(stack, p) /\ stack[p].step = "resolveEvents"
  BY <1>2 DEF History, PassesUp
<1>5. Top.parent = p
  <2>1. FitsAt(stack, n)
    BY <1>2 DEF Fits
  <2>2. BegunFits(stack, n)
    BY <1>1, <1>2, <2>1 DEF FitsAt, WindowFits
  <2>3. BegunAt(stack, p)
    BY <1>2, <1>4 DEF BegunAt, WindowAt
  <2> QED BY <1>2, <1>4, <2>2, <2>3 DEF BegunFits
<1>6. evs \in Seq(EventIds) /\ <<>> \in Seq(EventIds)
  BY <1>2 DEF Windows, WindowRecords
<1> HIDE DEF step
<1>7. /\ g \in Windows /\ g.kind = "window" /\ g.owner = Top.owner /\ g.triggers = Top.triggers
      /\ g.step = step /\ g.mode = Top.mode /\ g.events = Top.events
      /\ g.resolved = Top.resolved /\ g.queued = Top.queued /\ g.opened = Top.opened
      /\ g.subwindow = <<>> /\ g.initiates = Top.initiates
  <2>1. g \in Windows
    BY <1>2, <1>3, <1>6 DEF Windows, WindowRecords, KnowsItsTrigger
  <2> QED BY <2>1, <1>2 DEF Windows, WindowRecords
<1> HIDE DEF g
<1>8. /\ s \in Seq(Frames) /\ Len(s) = n /\ s[n] = g /\ \A i \in 1 .. n - 1 : s[i] = stack[i]
  <2>1. s = [stack EXCEPT ![Len(stack)] = g] /\ g \in Frames
    BY <1>2, <1>7 DEF SetTop, Frames
  <2> HIDE DEF s
  <2> QED BY <1>1, <1>2, <2>1, TopReplaced
<1>9. /\ s[p] = stack[p] /\ stack[p] \in Windows /\ stack[p].kind = "window"
      /\ Orderly(stack[p], events) /\ Bears(stack[p], Top, events)
  <2>1. p \in 1 .. Len(stack) /\ p < Len(stack) /\ p + 1 = n
    BY <1>2, <1>4
  <2>2. Orderly(stack[p], events) /\ Adjacent(stack, p, events)
    BY <1>2, <1>4, <2>1 DEF Future, Paced
  <2> QED BY <1>2, <1>4, <1>8, <2>1, <2>2, WindowsAreTyped DEF Adjacent
<1> DEFINE old == stack[p].subwindow
<1>10. stack' = [s EXCEPT ![p] = h] /\ all = old \o evs
  BY <1>1, <1>5, <1>9
<1> HIDE DEF s, p
<1>11. old \in Seq(EventIds)
  BY <1>9 DEF Windows, WindowRecords
<1>12. all \in Seq(EventIds) /\ ToSet(all) = ToSet(old) \cup ToSet(evs)
  <2> HIDE DEF old, evs, all
  <2>1. old \o evs \in Seq(EventIds) /\ ToSet(old \o evs) = ToSet(old) \cup ToSet(evs)
    BY <1>6, <1>11, CombinedElements
  <2> QED BY <1>10, <2>1
<1> HIDE DEF all
<1>13. /\ h \in Windows /\ h.kind = "window" /\ h.owner = stack[p].owner
       /\ h.triggers = stack[p].triggers /\ h.step = "resolveEvents" /\ h.mode = stack[p].mode
       /\ h.events = stack[p].events /\ h.resolved = stack[p].resolved
       /\ h.queued = stack[p].queued /\ h.opened = stack[p].opened
       /\ h.subwindow = all /\ h.initiates = stack[p].initiates
  BY <1>4, <1>9, <1>12 DEF Windows, WindowRecords, KnowsItsTrigger
<1> HIDE DEF h, old, evs
<1>14. /\ stack' \in Seq(Frames) /\ Len(stack') = n /\ stack'[n] = g /\ stack'[p] = h
       /\ \A i \in 1 .. n - 2 : stack'[i] = stack[i]
  <2>1. h \in Frames /\ n \in Nat /\ p \in 1 .. Len(s) /\ p # n /\ n \in 1 .. Len(s)
    BY <1>2, <1>4, <1>8, <1>13 DEF Frames
  <2>2. stack' \in Seq(Frames) /\ Len(stack') = n /\ stack'[p] = h
        /\ \A i \in 1 .. n : i # p => stack'[i] = s[i]
    BY <1>8, <1>10, <2>1
  <2>3. \A i \in 1 .. n - 2 : i \in 1 .. n /\ i \in 1 .. n - 1 /\ i # p
    BY <2>1 DEF p
  <2> QED BY <1>8, <2>1, <2>2, <2>3
<1>15. /\ Top.initiates = FALSE /\ Top.queued = <<>> /\ stack[p].initiates = FALSE
  <2>1. Top.initiates \in BOOLEAN /\ stack[p].initiates \in BOOLEAN
    BY <1>2, <1>9 DEF Windows, WindowRecords
  <2> QED BY <2>1, <1>1, <1>2, <1>9 DEF Orderly, PreSteps, Bears
<1> DEFINE nothing == <<>>
<1>16. /\ ToSet(nothing) = {} /\ DOMAIN nothing = {}
       /\ g.queued = nothing /\ Top.queued = nothing /\ g.subwindow = nothing
  BY <1>7, <1>15 DEF ToSet
<1> HIDE DEF nothing
<1>17. /\ Own(g) = Own(Top) /\ Own(h) = Own(stack[p]) /\ Queue(g) = {} /\ Queue(Top) = {}
       /\ Queue(h) = Queue(stack[p])
  BY <1>7, <1>13, <1>16 DEF Own, Queue
<1>18. /\ Emitted(Top) /\ Emitted(stack[p]) /\ g.step \notin SubwindowSteps
       /\ g.step \notin EarlySteps /\ g.step \notin PreSteps \cup {"resolveEvents"}
       /\ Top.step \notin EarlySteps /\ Top.step \in SubwindowSteps
       /\ h.step \in EarlySteps /\ h.step \in SubwindowSteps /\ stack[p].step \in EarlySteps
       /\ stack[p].step \in SubwindowSteps /\ h.step \in PreSteps \cup {"resolveEvents"}
  BY <1>1, <1>3, <1>4, <1>7, <1>13 DEF Emitted, PreSteps, SubwindowSteps, EarlySteps
<1>19. \A e : e \in Live(h) \/ e \in Live(g) <=> e \in Live(stack[p]) \/ e \in Live(Top)
  <2>1. Live(g) = {} /\ Live(Top) = ToSet(evs)
    BY <1>1, <1>7, <1>17, <1>18 DEF Live, Sub, evs
  <2>2. /\ Live(h) = ToSet(all) \cup Queue(stack[p]) \cup Own(stack[p])
        /\ Live(stack[p]) = ToSet(old) \cup Queue(stack[p]) \cup Own(stack[p])
    BY <1>9, <1>13, <1>17, <1>18 DEF Live, Sub, old
  <2> QED BY <1>12, <2>1, <2>2
<1>20. Orderly(h, events)
  <2>1. \A e \in ToSet(h.subwindow) : events[e].status # "unused"
    <3>1. ToSet(h.subwindow) = ToSet(old) \cup ToSet(evs)
      BY <1>12, <1>13
    <3> QED BY <1>2, <1>9, <3>1 DEF Orderly, old, evs
  <2> QED BY <2>1, <1>9, <1>13, <1>15, <1>17, <1>18 DEF Orderly
<1>21. Orderly(g, events)
  <2>1. ToSet(g.subwindow) = {}
    BY <1>16
  <2>2. Top.step \notin PreSteps \cup {"resolveEvents"}
    BY <1>1 DEF PreSteps
  <2> QED BY <2>1, <2>2, <1>2, <1>7, <1>15, <1>17, <1>18 DEF Orderly
<1>22. Bears(h, g, events)
  BY <1>7, <1>13, <1>15, <1>18 DEF Bears
<1>23. Rests(g, events)
  <2>1. ToSet(g.subwindow) = {}
    BY <1>16
  <2> QED BY <2>1, <1>3, <1>7 DEF Rests
<1>24. n \in Nat /\ n > 1
  BY <1>2, <1>4
<1>25. Future(stack', events)
  <2> DEFINE t == stack'
  <2>1. /\ t \in Seq(Frames) /\ Len(t) = n /\ t[n] = g /\ t[n - 1] = h
        /\ \A i \in 1 .. n - 2 : t[i] = stack[i]
    BY <1>14 DEF p
  <2>2. /\ WindowAt(stack, n - 1) /\ h.triggers = stack[n - 1].triggers
        /\ h.opened = stack[n - 1].opened /\ Own(h) = Own(stack[n - 1])
        /\ h.owner = stack[n - 1].owner /\ Emitted(stack[n - 1])
        /\ \A e : e \in Live(h) \/ e \in Live(g) <=> e \in Live(stack[n - 1]) \/ e \in Live(stack[n])
    BY <1>2, <1>4, <1>13, <1>17, <1>18, <1>19 DEF p
  <2>3. /\ g.triggers = stack[n].triggers /\ Own(g) = Own(stack[n]) /\ g.owner = stack[n].owner
        /\ Emitted(stack[n])
    BY <1>2, <1>7, <1>17, <1>18
  <2> HIDE DEF t
  <2>4. Future(t, events)
    BY <1>2, <1>7, <1>13, <1>20, <1>21, <1>22, <1>23, <1>24, <2>1, <2>2, <2>3, HandedUp
  <2> QED BY <2>4 DEF t
<1> QED BY <1>1, <1>25

LEMMA ResolveSubwindowEventsFuture ==
  ASSUME FutureInv, ResolveSubwindowEvents
  PROVE  Future(stack', events')
BY SubwindowOpensFuture, SubwindowPassesFuture

\* A frame on top that is no window changes.
LEMMA FrameCalmly ==
  ASSUME FutureInv, stack # <<>>, Top.kind # "window", NEW g \in Frames, g.kind = Top.kind
  PROVE  Future(SetTop(g), events)
<1> DEFINE t == SetTop(g)
           m == Len(stack) - 1
<1>1. /\ stack \in Seq(Frames) /\ events \in [EventIds -> EventRecords]
      /\ n = Len(stack) /\ n \in 1 .. Len(stack) /\ Top = stack[n] /\ Top = stack[Len(stack)]
      /\ Fits(stack, current) /\ Future(stack, events)
  BY FutureOfTop
<1>2. /\ t \in Seq(Frames) /\ Len(t) = Len(stack) /\ t[Len(stack)] = g
      /\ \A i \in 1 .. m : t[i] = stack[i]
  <2>1. t = [stack EXCEPT ![Len(stack)] = g]
    BY <1>1 DEF SetTop
  <2> HIDE DEF t
  <2> QED BY <1>1, <2>1, TopReplaced
<1>3. /\ m \in Nat /\ m + 1 = Len(stack) /\ m <= Len(stack) /\ m <= Len(t)
      /\ m < Len(stack) /\ m < Len(t)
  BY <1>1, <1>2
<1>4. \A i \in m + 1 .. Len(stack) : i = Len(stack)
  BY <1>1
<1>5. \A i \in 1 .. m : WindowAt(stack, i) =>
         \A e \in ToSet(stack[i].resolved) : events[e].status = "resolved"
  <2>1. ResolvedBelow(stack, events)
    BY ResolvedBelowSame
  <2> QED BY <2>1 DEF ResolvedBelow
<1> HIDE DEF t, m
<1>6. /\ ~WindowAt(t, Len(stack)) /\ ~WindowAt(stack, Len(stack))
      /\ Live(t[Len(stack)]) = {} /\ Live(stack[Len(stack)]) = {}
  BY <1>1, <1>2 DEF WindowAt, Live
<1>7. /\ PacedAbove(t, m, events)
      /\ \A x : ~WaitsAbove(stack, m, x) /\ ~MissedAbove(t, m, x)
      /\ \A e : ~FutureAbove(stack, m, e) /\ ~FutureAbove(t, m, e)
  BY <1>2, <1>4, <1>6 DEF PacedAbove, WaitsAbove, MissedAbove, FutureAbove
<1>8. LiveGoesOn(stack, t, m, events, events)
  BY <1>7 DEF LiveGoesOn
<1>9. SameFace(stack[m + 1], t[m + 1])
  BY <1>1, <1>2, <1>3 DEF SameFace
<1>10. Onward(events, events)
  BY EventsOnward
<1>11. ASSUME NEW fvs, fvs = events PROVE Future(t, fvs)
  <2>1. /\ Onward(events, fvs) /\ PacedAbove(t, m, fvs) /\ LiveGoesOn(stack, t, m, events, fvs)
        /\ \A i \in 1 .. m : WindowAt(stack, i) =>
             \A e \in ToSet(stack[i].resolved) : fvs[e].status = "resolved"
    BY <1>5, <1>7, <1>8, <1>10, <1>11
  <2> QED BY <1>1, <1>2, <1>3, <1>7, <1>9, <2>1, FutureGoesOn
<1> QED BY <1>11 DEF t

LEMMA CommittedFrame ==
  ASSUME FutureInv, AtStep("resolver", "checkAbility")
  PROVE  \E g \in Frames :
           /\ Committed = SetTop(g) /\ g.kind = "resolver" /\ Top \in Resolvers
           /\ stack # <<>> /\ Top.kind = "resolver" /\ Live(g) = {} /\ Live(Top) = {}
           /\ SameFace(Top, g) /\ \A w, fvs : RemainsUnder(Top, g, w, fvs)
<1> DEFINE g == [Top EXCEPT !.step = "done", !.resolutionCommitted = TRUE]
<1>1. stack # <<>> /\ Top.kind = "resolver" /\ Top \in Frames
  BY TopIsFrame DEF AtStep, FutureInv, HistoryInv, PipelineInv
<1>2. Top \in Resolvers
  BY <1>1, FramesOfKinds
<1>3. g \in Resolvers /\ g.kind = "resolver"
  BY <1>2 DEF Resolvers
<1>4. Committed = SetTop(g)
  BY DEF Committed
<1> HIDE DEF g
<1>5. Live(g) = {} /\ Live(Top) = {} /\ SameFace(Top, g)
      /\ \A w, fvs : RemainsUnder(Top, g, w, fvs)
  BY <1>1, <1>3 DEF Live, SameFace, RemainsUnder
<1>6. g \in Frames
  BY <1>3 DEF Frames
<1> QED BY <1>1, <1>2, <1>3, <1>4, <1>5, <1>6

LEMMA OpenInitiateAbilityEventWindowFuture ==
  ASSUME FutureInv, OpenInitiateAbilityEventWindow
  PROVE  Future(stack', events')
<1> DEFINE w == InitiateWindow(Top)
<1>1. AtStep("resolver", "checkAbility") /\ stack' = Append(Committed, w) /\ events' = events
  BY DEF OpenInitiateAbilityEventWindow
<1>2. PICK g \in Frames :
           /\ Committed = SetTop(g) /\ g.kind = "resolver" /\ Top \in Resolvers
           /\ stack # <<>> /\ Top.kind = "resolver" /\ Live(g) = {} /\ Live(Top) = {}
           /\ SameFace(Top, g) /\ \A x, fvs : RemainsUnder(Top, g, x, fvs)
  BY <1>1, CommittedFrame
<1>3. /\ w \in Windows /\ w.kind = "window" /\ w.step = "setParentEventWindow"
      /\ w.events = <<>> /\ w.subwindow = <<>> /\ w.queued = <<>> /\ w.resolved = <<>>
      /\ w.triggers = NewTriggerWindow({})
  BY <1>2, InitiateWindowTyped
<1>4. w.opened = <<>>
  BY DEF InitiateWindow, EventWindow
<1> HIDE DEF w
<1>5. ToSet(w.events) = {}
  <2> DEFINE nothing == <<>>
  <2>1. ToSet(nothing) = {} /\ w.events = nothing
    BY <1>3 DEF ToSet
  <2> HIDE DEF nothing
  <2> QED BY <2>1
<1>6. w.triggers.seen = {} /\ w.triggers.missed = {} /\ Waiting(w.triggers) = {}
  BY <1>3 DEF NewTriggerWindow, Waiting
<1>7. Begins(w, events)
  BY <1>3, <1>4, <1>5, <1>6 DEF Begins
<1>8. NewOnTop(w, events) /\ Live(w) = {} /\ w \in Frames
  BY <1>3, <1>5, <1>7, BegunWindow DEF Frames
<1>9. Future(Append(SetTop(g), w), events)
  <2>1. RemainsUnder(Top, g, w, events) /\ \A e : e \in Live(Top) <=> e \in Live(g) \/ e \in Live(w)
    BY <1>2, <1>8
  <2> QED BY <1>2, <1>8, <2>1, PushedCalmly
<1> QED BY <1>1, <1>2, <1>9

LEMMA AbilityIsCancelledFuture ==
  ASSUME FutureInv, AbilityIsCancelled
  PROVE  Future(stack', events')
<1> DEFINE r == SubAbilityStep(Top.trigger, Top.subStep)
           due == Top.subStep = "ifYouDoNot"
<1>1. /\ AtStep("resolver", "checkAbility") /\ events' = events
      /\ stack' = Committed \o IF due THEN <<r>> ELSE <<>>
  BY DEF AbilityIsCancelled
<1>2. PICK g \in Frames :
           /\ Committed = SetTop(g) /\ g.kind = "resolver" /\ Top \in Resolvers
           /\ stack # <<>> /\ Top.kind = "resolver" /\ Live(g) = {} /\ Live(Top) = {}
           /\ SameFace(Top, g) /\ \A x, fvs : RemainsUnder(Top, g, x, fvs)
  BY <1>1, CommittedFrame
<1>3. r \in Frames /\ r.kind = "resolver" /\ NewOnTop(r, events) /\ Live(r) = {}
  BY <1>2, SubAbilityStepOnTop DEF Resolvers
<1>4. due \in BOOLEAN
  OBVIOUS
<1> HIDE DEF r, due
<1>5. SetTop(g) \o <<r>> = Append(SetTop(g), r) /\ SetTop(g) \o <<>> = SetTop(g)
  BY <1>2, <1>3, PushedForm DEF FutureInv, HistoryInv
<1>6. CASE ~due
  <2>1. Future(SetTop(g), events)
    BY <1>2, FrameCalmly
  <2> QED BY <1>1, <1>2, <1>5, <1>6, <2>1
<1>7. CASE due
  <2>1. RemainsUnder(Top, g, r, events) /\ \A e : e \in Live(Top) <=> e \in Live(g) \/ e \in Live(r)
    BY <1>2, <1>3
  <2>2. Future(Append(SetTop(g), r), events)
    BY <1>2, <1>3, <2>1, PushedCalmly
  <2> QED BY <1>1, <1>2, <1>5, <1>7, <2>2
<1> QED BY <1>4, <1>6, <1>7

-----------------------------------------------------------------------------
(* Frames that are done *)

\* The frame on top, a window that is done or a resolver, leaves the window below at rest.
LEMMA PoppedCalmly ==
  ASSUME FutureInv, stack # <<>>, Live(Top) = {}, Top.kind # "triggers",
         Top.kind = "window" => Top.step = "cleanup" /\ Waiting(Top.triggers) = {},
         NEW t, t = SubSeq(stack, 1, Len(stack) - 1)
  PROVE  Future(t, events)
<1>1. /\ stack \in Seq(Frames) /\ events \in [EventIds -> EventRecords]
      /\ n = Len(stack) /\ n \in 1 .. Len(stack) /\ Top = stack[n] /\ Top = stack[Len(stack)]
      /\ Fits(stack, current) /\ Future(stack, events)
      /\ Top.kind = "window" => Orderly(Top, events) /\ WindowAt(stack, n)
  BY FutureOfTop
<1>2. t \in Seq(Frames) /\ Len(t) = Len(stack) - 1 /\ \A i \in 1 .. Len(stack) - 1 : t[i] = stack[i]
  BY <1>1, PopTyped
<1> DEFINE m == Len(stack) - 1
<1>3. ASSUME WindowAt(t, m) PROVE Rests(t[m], events)
  <2>1. /\ m \in 1 .. Len(stack) /\ m < Len(stack) /\ m + 1 = Len(stack) /\ WindowAt(stack, m)
        /\ t[m] = stack[m]
    BY <1>1, <1>2, <1>3 DEF WindowAt
  <2>2. Bears(stack[m], Top, events)
    BY <1>1, <2>1 DEF Future, Paced, Adjacent
  <2>3. WindowFits(stack, m)
    BY <1>1, <2>1 DEF Fits, FitsAt, WindowAt
  <2>4. ~(stack[m].step = "cleanup" /\ stack[m].mode = "resolves")
    BY <1>1, <2>1, <2>3 DEF WindowFits
  <2>5. ASSUME stack[m].step \notin SubwindowSteps, NEW e \in ToSet(stack[m].subwindow)
        PROVE  events[e].status # "created"
    <3>1. CASE Top.kind = "window" /\ Top.opened = stack[m].subwindow
      <4>1. Top.step \notin PreSteps \cup {"resolveEvents"}
        BY <3>1 DEF PreSteps
      <4> QED BY <1>1, <2>5, <3>1, <4>1 DEF Orderly
    <3>2. CASE ~(Top.kind = "window" /\ Top.opened = stack[m].subwindow)
      BY <2>2, <2>5, <3>2 DEF Bears
    <3> QED BY <3>1, <3>2
  <2> QED BY <2>1, <2>4, <2>5 DEF Rests
<1>4. WindowAt(t, Len(t)) => Rests(t[Len(t)], events)
  BY <1>2, <1>3
<1> HIDE DEF m
<1> DEFINE N == {}
<1>5. ~\E g \in N : TRUE
  OBVIOUS
<1> HIDE DEF N
<1>6. LivesOn(stack[Len(stack)], N, events, events)
  BY <1>1, <1>5 DEF LivesOn
<1>7. WindowAt(stack, Len(stack)) => Waiting(stack[Len(stack)].triggers) = {}
  BY <1>1 DEF WindowAt
<1>8. ResolvedBelow(stack, events) /\ Onward(events, events)
  BY ResolvedBelowSame
<1>9. ASSUME NEW fvs, fvs = events PROVE Future(t, fvs)
  <2>1. /\ LivesOn(stack[Len(stack)], {}, events, fvs) /\ Onward(events, fvs)
        /\ ResolvedBelow(stack, fvs) /\ (WindowAt(t, Len(t)) => Rests(t[Len(t)], fvs))
    BY <1>4, <1>6, <1>8, <1>9 DEF N
  <2> QED BY <1>1, <1>2, <1>7, <2>1, PoppedFuture
<1> QED BY <1>9

LEMMA CleanupFuture ==
  ASSUME FutureInv, Cleanup
  PROVE  Future(stack', events')
<1>1. /\ stack # <<>> /\ Top.kind = "window" /\ Top.step = "cleanup" /\ events' = events
      /\ stack' = SubSeq(stack, 1, Len(stack) - 1)
  BY DEF Cleanup, AtStep, Pop, n
<1>2. Top \in Windows /\ Orderly(Top, events) /\ Rests(Top, events)
  BY <1>1, FutureOfTop
<1>3. Top.mode \in {"resolves", "passes"}
  BY <1>2 DEF Windows, WindowRecords, Modes
<1>4. Waiting(Top.triggers) = {}
  BY <1>1, <1>2, <1>3 DEF Orderly, Rests
<1>5. Top.step \notin PreSteps \cup {"resolveEvents"} /\ Top.step \notin SubwindowSteps
      /\ Top.step \notin EarlySteps
  BY <1>1 DEF PreSteps, SubwindowSteps, EarlySteps
<1> DEFINE nothing == <<>>
<1>6. DOMAIN nothing = {} /\ Top.queued = nothing
  BY <1>2, <1>5 DEF Orderly
<1> HIDE DEF nothing
<1>7. Live(Top) = {}
  BY <1>1, <1>5, <1>6 DEF Live, Sub, Queue
<1>8. ASSUME NEW t, t = SubSeq(stack, 1, Len(stack) - 1) PROVE Future(t, events)
  BY <1>1, <1>4, <1>7, <1>8, PoppedCalmly
<1> QED BY <1>1, <1>8

LEMMA SubStepIsResolvedFuture ==
  ASSUME FutureInv, SubStepIsResolved
  PROVE  Future(stack', events')
<1>1. /\ stack # <<>> /\ Top.kind = "resolver" /\ events' = events
      /\ stack' = SubSeq(stack, 1, Len(stack) - 1)
  BY DEF SubStepIsResolved, AtStep, Pop, n
<1>2. Live(Top) = {}
  BY <1>1 DEF Live
<1>3. ASSUME NEW t, t = SubSeq(stack, 1, Len(stack) - 1) PROVE Future(t, events)
  BY <1>1, <1>2, <1>3, PoppedCalmly
<1> QED BY <1>1, <1>3

-----------------------------------------------------------------------------
(* What an emission leaves to be done *)

\* An emission of events whose triggers the window collects adds all it may.
LEMMA EmitGathers ==
  ASSUME NEW tw \in TriggerWindows, NEW old \in TriggerRecords, NEW evs,
         old.unresolved = tw.unresolved, old.seen = tw.seen, old.missed = tw.missed,
         ToSet(evs) \subseteq old.triggering, NEW new, new = Emit(old, evs)
  PROVE  CollectedFrom(tw, evs, MayTrigger(tw, evs), new) /\ new.triggering = old.triggering
<1> DEFINE added == AddedBy(old, evs)
           missed == MissedBy(old, evs)
           waiting == [t \in Triggers |-> IF t \in added THEN old.unresolved[t] + 1
                                         ELSE old.unresolved[t]]
<1>1. added = MayTrigger(tw, evs) /\ missed = MissedBy(tw, evs)
  BY DEF AddedBy, MayTrigger, MissedBy
<1>2. new = [old EXCEPT !.seen = @ \cup added, !.missed = @ \cup missed,
                        !.unresolved = waiting]
  BY DEF Emit
<1> HIDE DEF added, missed
<1>3. \A t \in Triggers :
        waiting[t] = IF t \in added THEN tw.unresolved[t] + 1 ELSE tw.unresolved[t]
  OBVIOUS
<1> HIDE DEF waiting
<1>4. new.seen = tw.seen \cup added /\ new.missed = tw.missed \cup missed
      /\ new.unresolved = waiting /\ new.triggering = old.triggering
  BY <1>2 DEF TriggerRecords
<1> QED BY <1>1, <1>3, <1>4 DEF CollectedFrom

\* Of an event, the order and the future of windows depend on its status only.
SameStatuses(evs, fvs) == \A e \in EventIds : fvs[e].status = evs[e].status

LEMMA StatusesDecide ==
  ASSUME NEW s \in Seq(Frames), NEW evs, NEW fvs, SameStatuses(evs, fvs),
         Paced(s, evs), Placed(s, evs)
  PROVE  Paced(s, fvs) /\ Placed(s, fvs)
<1>1. \A e \in EventIds : fvs[e].status = evs[e].status
  BY DEF SameStatuses
<1>2. Placed(s, fvs)
  BY <1>1 DEF Placed
<1>3. ASSUME NEW i \in 1 .. Len(s), WindowAt(s, i)
      PROVE  Orderly(s[i], fvs) /\ Adjacent(s, i, fvs) /\ Tended(s, i)
  <2>1. Orderly(s[i], evs) /\ Adjacent(s, i, evs) /\ Tended(s, i)
    BY <1>3 DEF Paced
  <2>2. s[i] \in Windows
    BY <1>3, WindowsAreTyped
  <2>3. /\ Own(s[i]) \in SUBSET EventIds /\ ToSet(s[i].subwindow) \in SUBSET EventIds
        /\ ToSet(s[i].opened) \in SUBSET EventIds /\ ToSet(s[i].resolved) \in SUBSET EventIds
        /\ ToSet(s[i].events) \in SUBSET EventIds
    BY <2>2, KnownEvents
  <2>4. Orderly(s[i], fvs)
    BY <1>1, <2>1, <2>3 DEF Orderly
  <2>5. Rests(s[i], evs) => Rests(s[i], fvs)
    BY <1>1, <2>3 DEF Rests
  <2>6. Bears(s[i], s[i + 1], evs) => Bears(s[i], s[i + 1], fvs)
    BY <1>1, <2>3 DEF Bears
  <2> QED BY <2>1, <2>4, <2>5, <2>6 DEF Adjacent
<1> QED BY <1>2, <1>3 DEF Paced

\* The window on top and the triggers of others change, and its events live on.
LEMMA TopAndTriggers ==
  ASSUME FutureInv, stack # <<>>, WindowAt(stack, n),
         NEW t \in Seq(Frames), Len(t) = n, \A i \in 1 .. n - 1 : LooksAs(stack[i], t[i]),
         SameFace(Top, t[n]), Orderly(t[n], events), Rests(t[n], events), Tended(t, n),
         Live(t[n]) \subseteq Live(Top),
         \A e \in Live(Top) : events[e].status = "created" => e \in Live(t[n])
  PROVE  /\ Paced(t, events) /\ Placed(t, events)
         /\ \A e \in EventIds : HasFuture(t, e) => HasFuture(stack, e)
<1> DEFINE m == Len(stack) - 1
<1>1. /\ stack \in Seq(Frames) /\ events \in [EventIds -> EventRecords]
      /\ n = Len(stack) /\ n \in 1 .. Len(stack) /\ Top = stack[n] /\ Top = stack[Len(stack)]
      /\ Fits(stack, current) /\ Future(stack, events)
  BY FutureOfTop
<1>2. /\ m \in Nat /\ m + 1 = Len(stack) /\ m <= Len(stack) /\ m <= Len(t)
      /\ m < Len(stack) /\ m < Len(t) /\ m + 1 = n /\ Len(t) = n
  BY <1>1
<1>3. \A i \in m + 1 .. Len(stack) : i = n
  BY <1>1
<1>4. \A i \in 1 .. m : LooksAs(stack[i], t[i])
  BY <1>1
<1>5. ResolvedBelow(stack, events) /\ Onward(events, events)
  BY ResolvedBelowSame
<1>6. \A i \in 1 .. m : WindowAt(stack, i) =>
        \A e \in ToSet(stack[i].resolved) : events[e].status = "resolved"
  BY <1>5 DEF ResolvedBelow
<1> HIDE DEF m
<1>7. \A i \in 1 .. n : i \in 1 .. m \/ i = n
  BY <1>1, <1>2
<1>8. SameFace(stack[m + 1], t[m + 1])
  BY <1>1, <1>2
<1>9. ASSUME NEW fvs, fvs = events, NEW i \in 1 .. m, WindowAt(t, i)
      PROVE  Orderly(t[i], fvs) /\ Adjacent(t, i, fvs) /\ Tended(t, i)
  <2>1. Onward(events, fvs) /\ Paced(stack, events)
        /\ \A k \in 1 .. m : WindowAt(stack, k) =>
             \A e \in ToSet(stack[k].resolved) : fvs[e].status = "resolved"
    BY <1>1, <1>5, <1>6, <1>9 DEF Future
  <2>2. i < m \/ (m < Len(stack) /\ m < Len(t) /\ SameFace(stack[m + 1], t[m + 1]))
    BY <1>2, <1>8
  <2> QED BY <1>1, <1>2, <1>4, <1>9, <2>1, <2>2, PacedBelow
<1>10. Paced(t, events)
  <2> SUFFICES ASSUME NEW i \in 1 .. Len(t), WindowAt(t, i)
               PROVE  Orderly(t[i], events) /\ Adjacent(t, i, events) /\ Tended(t, i)
    BY DEF Paced
  <2>1. CASE i \in 1 .. m
    BY <1>9, <2>1
  <2>2. CASE i = n
    BY <1>2, <2>2 DEF Adjacent
  <2> QED BY <1>2, <1>7, <2>1, <2>2
<1>11. \A e : FutureAbove(stack, m, e) <=> e \in Live(Top)
  <2>1. n \in m + 1 .. Len(stack)
    BY <1>1, <1>2
  <2> QED BY <1>1, <1>3, <2>1 DEF FutureAbove
<1>12. \A e : FutureAbove(t, m, e) <=> e \in Live(t[n])
  <2>1. n \in m + 1 .. Len(t) /\ \A i \in m + 1 .. Len(t) : i = n
    BY <1>1, <1>2
  <2> QED BY <2>1 DEF FutureAbove
<1>13. LiveGoesOn(stack, t, m, events, events)
  BY <1>11, <1>12 DEF LiveGoesOn
<1>14. ASSUME NEW fvs, fvs = events
       PROVE  /\ Placed(t, fvs)
              /\ \A e \in EventIds :
                   HasFuture(t, e) => events[e].status = "unused" \/ HasFuture(stack, e)
  <2>1. LiveGoesOn(stack, t, m, events, fvs) /\ Placed(stack, events)
    BY <1>1, <1>13, <1>14 DEF Future
  <2> QED BY <1>1, <1>2, <1>4, <2>1, PlacedGoesOn
<1>15. ASSUME NEW e \in EventIds, HasFuture(t, e) PROVE HasFuture(stack, e)
  <2>1. (\E i \in 1 .. m : e \in Live(t[i])) \/ FutureAbove(t, m, e)
    BY <1>2, <1>15, FutureSplits
  <2>2. \A i \in 1 .. m : Live(t[i]) = Live(stack[i])
    BY <1>4, LookAlikes
  <2>3. (\E i \in 1 .. m : e \in Live(stack[i])) \/ FutureAbove(stack, m, e)
    BY <1>11, <1>12, <2>1, <2>2
  <2> QED BY <1>1, <1>2, <2>3, FutureSplits
<1> QED BY <1>10, <1>14, <1>15

\* What an emission makes due waits, and what it makes missed the event knows.
LEMMA EmissionMatches ==
  ASSUME FutureInv, stack # <<>>, Top.kind = "window", Top.step # "setParentEventWindow",
         Top.step \in EarlySteps,
         NEW evs, ToSet(evs) \subseteq Own(Top), NEW first \in BOOLEAN, first <=> ~Emitted(Top),
         NEW tw, CollectedFrom(TriggersOf(Top), evs, MayTrigger(TriggersOf(Top), evs), tw),
         NEW t \in Seq(Frames), NEW step, EmittedStack(t, step, Top.owner, tw),
         NEW fvs, \A e \in EventIds : HeardAs(fvs, evs, first, e),
         \A e \in EventIds : HasFuture(t, e) => HasFuture(stack, e),
         ~first => \A e \in ToSet(evs) : ~HasFuture(t, e)
  PROVE  Dealt(t, fvs) /\ MissedMatch(t, fvs)
<1> DEFINE o == Top.owner
           s == stack
           old == TriggersOf(Top)
<1>1. /\ s \in Seq(Frames) /\ events \in [EventIds -> EventRecords]
      /\ n = Len(s) /\ n \in 1 .. Len(s) /\ Top = s[n] /\ WindowAt(s, n) /\ Top \in Windows
      /\ Future(s, events) /\ History(s, events) /\ PipelineInv /\ HistoryInv
  BY FutureOfTop DEF FutureInv, HistoryInv
<1>2. o \in 1 .. n /\ WindowAt(s, o) /\ old = s[o].triggers
  <2>1. o \in 1 .. n /\ s[o] \in Windows
    BY <1>1, TopWindowIsCurrent
  <2> QED BY <1>1, <2>1 DEF WindowAt, TriggersOf, Windows, WindowRecords
<1>3. ASSUME NEW i, WindowAt(s, i)
      PROVE  /\ WindowAt(t, i) /\ t[i].triggers = IF i = o THEN tw ELSE s[i].triggers
             /\ i \in 1 .. Len(t) /\ i \in 1 .. Len(s)
             /\ s[i].triggers.unresolved \in [Triggers -> Nat]
  BY <1>1, <1>3, WindowsAreTyped DEF EmittedStack, WindowAt
<1>4. \A i : WindowAt(t, i) => WindowAt(s, i)
  BY <1>1 DEF EmittedStack, WindowAt
<1>5. /\ tw.missed = old.missed \cup MissedBy(old, evs)
      /\ \A x \in Triggers : tw.unresolved[x] = IF x \in MayTrigger(old, evs)
                                               THEN old.unresolved[x] + 1 ELSE old.unresolved[x]
  BY DEF CollectedFrom
<1>6. ASSUME NEW e \in ToSet(evs)
      PROVE  /\ e \in EventIds /\ HasFuture(s, e) /\ (first => Fresh(events[e]))
  <2>1. e \in EventIds /\ (first => Fresh(events[e]))
    BY <1>1, <1>6, KnownOfOwn
  <2>2. e \in Live(s[n])
    BY <1>1, <1>6, LiveEarly DEF Known
  <2> QED BY <1>1, <2>1, <2>2 DEF HasFuture
<1>7. ASSUME NEW x \in Triggers, Waits(s, x) \/ x \in MayTrigger(old, evs) PROVE Waits(t, x)
  <2>1. ASSUME NEW i, WindowAt(s, i), s[i].triggers.unresolved[x] > 0 PROVE Waits(t, x)
    <3>1. t[i].triggers.unresolved[x] > 0
      <4>1. s[i].triggers.unresolved[x] \in Nat
        BY <1>3, <2>1
      <4>2. CASE i = o
        BY <1>2, <1>3, <1>5, <2>1, <4>1, <4>2, SMTT(40)
      <4>3. CASE i # o
        BY <1>3, <2>1, <4>3
      <4> QED BY <4>2, <4>3
    <3> QED BY <1>3, <2>1, <3>1 DEF Waits
  <2>2. ASSUME x \in MayTrigger(old, evs) PROVE Waits(t, x)
    <3>1. s[o].triggers.unresolved[x] \in Nat
      BY <1>2, <1>3
    <3>2. t[o].triggers.unresolved[x] > 0
      BY <1>2, <1>3, <1>5, <2>2, <3>1
    <3> QED BY <1>2, <1>3, <3>2 DEF Waits
  <2> QED BY <1>7, <2>1, <2>2 DEF Waits
<1>8. ASSUME NEW e \in EventIds, fvs[e].status \in {"created", "resolved"}, NEW a \in fvs[e].due
      PROVE  fvs[e].times[a] > 0 \/ a \in fvs[e].excused \/ Waits(t, <<a, e>>)
  <2>1. /\ fvs[e].times = events[e].times /\ fvs[e].status = events[e].status
        /\ fvs[e].excused = events[e].excused
        /\ ~(e \in ToSet(evs) /\ events[e].status \in {"created", "resolved"})
             => fvs[e] = events[e]
        /\ e \in ToSet(evs) /\ events[e].status \in {"created", "resolved"} =>
             /\ fvs[e].missed = IF first THEN {b \in events[e].listeners : presence[b] = "blanked"}
                                ELSE events[e].missed
             /\ fvs[e].due = events[e].due \cup
                  ({b \in events[e].listeners : presence[b] = "on"} \ fvs[e].missed)
    BY DEF HeardAs
  <2>2. CASE a \in events[e].due
    <3>1. events[e].times[a] > 0 \/ a \in events[e].excused \/ Waits(s, <<a, e>>)
      BY <1>1, <1>8, <2>1, <2>2 DEF Future, Dealt
    <3>2. <<a, e>> \in Triggers
      BY <1>1, <2>2 DEF EventRecords, Triggers
    <3> QED BY <1>7, <2>1, <3>1, <3>2
  <2>3. CASE a \notin events[e].due
    <3> DEFINE x == <<a, e>>
    <3>1. /\ e \in ToSet(evs) /\ events[e].status \in {"created", "resolved"}
          /\ a \in events[e].listeners /\ presence[a] = "on" /\ a \notin fvs[e].missed
      BY <1>8, <2>1, <2>3
    <3>2. x \in Triggers /\ x[1] = a /\ x[2] = e
      BY <1>1, <3>1 DEF EventRecords, Triggers
    <3> HIDE DEF x
    <3>3. x \notin old.seen
      <4>1. SeenBy(s[o], events)
        BY <1>1, <1>2 DEF History, SeenOnce, WindowAt
      <4> QED BY <1>2, <2>3, <3>2, <4>1 DEF SeenBy
    <3>4. a \notin events[e].missed
      BY <1>6, <2>1, <3>1 DEF Fresh
    <3>5. x \notin old.missed
      <4>1. SUFFICES ASSUME x \in old.missed PROVE FALSE
        OBVIOUS
      <4>2. MissedIn(s, x)
        BY <1>2, <1>3, <4>1 DEF MissedIn
      <4>3. x[1] \in events[x[2]].missed \/ ~HasFuture(s, x[2])
        BY <1>1, <3>2, <4>2 DEF Future, MissedMatch
      <4> QED BY <1>6, <3>1, <3>2, <3>4, <4>3
    <3>6. x \in MayTrigger(old, evs)
      BY <3>1, <3>2, <3>3, <3>5 DEF MayTrigger
    <3> QED BY <1>7, <3>2, <3>6 DEF x
  <2> QED BY <2>2, <2>3
<1>9. ASSUME NEW x \in Triggers, MissedIn(t, x)
      PROVE  fvs[x[2]].status # "unused" /\ (x[1] \in fvs[x[2]].missed \/ ~HasFuture(t, x[2]))
  <2> DEFINE e == x[2]
             a == x[1]
  <2>1. e \in EventIds
    BY DEF Triggers
  <2>2. PICK i \in 1 .. Len(t) : WindowAt(t, i) /\ x \in t[i].triggers.missed
    BY <1>9 DEF MissedIn
  <2>3. WindowAt(s, i) /\ t[i].triggers = IF i = o THEN tw ELSE s[i].triggers
    BY <1>3, <1>4, <2>2
  <2> HIDE DEF e, a
  <2>4. /\ fvs[e].status = events[e].status
        /\ ~(e \in ToSet(evs) /\ events[e].status \in {"created", "resolved"})
             => fvs[e] = events[e]
        /\ e \in ToSet(evs) /\ events[e].status \in {"created", "resolved"} =>
             fvs[e].missed = IF first THEN {b \in events[e].listeners : presence[b] = "blanked"}
                             ELSE events[e].missed
    BY <2>1 DEF HeardAs
  <2>5. CASE x \in MissedBy(old, evs)
    <3>1. /\ e \in ToSet(evs) /\ events[e].status \in {"created", "resolved"}
          /\ a \in events[e].listeners /\ presence[a] = "blanked"
      BY <2>5 DEF MissedBy, e, a
    <3>2. CASE first
      BY <2>4, <3>1, <3>2 DEF e, a
    <3>3. CASE ~first
      BY <2>4, <3>1, <3>3 DEF e, a
    <3> QED BY <3>2, <3>3
  <2>6. CASE x \notin MissedBy(old, evs)
    <3>1. x \in s[i].triggers.missed
      BY <1>2, <1>5, <2>2, <2>3, <2>6
    <3>2. MissedIn(s, x)
      BY <1>3, <2>3, <3>1 DEF MissedIn
    <3>3. events[e].status # "unused" /\ (a \in events[e].missed \/ ~HasFuture(s, e))
      BY <1>1, <3>2 DEF Future, MissedMatch, e, a
    <3>4. HasFuture(t, e) => HasFuture(s, e)
      BY <2>1
    <3>5. e \in ToSet(evs) /\ first => ~(a \in events[e].missed) /\ HasFuture(s, e)
      BY <1>6 DEF Fresh
    <3> QED BY <2>4, <3>3, <3>4, <3>5 DEF e, a
  <2> QED BY <2>5, <2>6
<1> QED BY <1>8, <1>9 DEF Dealt, MissedMatch

\* The windows below the one that emits look as before.
LEMMA EmittedLooks ==
  ASSUME PipelineInv, stack # <<>>, NEW step, NEW o, NEW tw, NEW t, EmittedStack(t, step, o, tw),
         WindowAt(stack, o), stack[o].mode = "resolves",
         stack[o].triggers.triggering \subseteq tw.triggering,
         \A x \in tw.seen : x \in stack[o].triggers.seen \/ x[2] \in tw.triggering
  PROVE  /\ \A i \in 1 .. n - 1 : LooksAs(stack[i], t[i])
         /\ SameFace(Top, t[n])
<1>1. /\ Len(t) = n /\ n \in 1 .. n /\ n = Len(stack)
      /\ \A i \in 1 .. n : t[i].kind = stack[i].kind
      /\ \A i \in 1 .. n : stack[i].kind = "window" =>
           /\ SameEvents(stack[i], t[i])
           /\ t[i].step = IF i = n THEN step ELSE stack[i].step
           /\ t[i].triggers = IF i = o THEN tw ELSE stack[i].triggers
  BY DEF EmittedStack
<1>2. n \in Nat /\ Top = stack[n]
  BY <1>1 DEF Top
<1>3. ASSUME NEW i \in 1 .. n - 1 PROVE LooksAs(stack[i], t[i])
  <2>1. i \in 1 .. n /\ i # n
    BY <1>2
  <2>2. CASE stack[i].kind = "window"
    <3>1. /\ SameEvents(stack[i], t[i]) /\ t[i].step = stack[i].step
          /\ t[i].triggers = IF i = o THEN tw ELSE stack[i].triggers
      BY <1>1, <2>1, <2>2
    <3>2. CASE i = o
      BY <1>1, <2>1, <3>1, <3>2 DEF LooksAs, SameEvents
    <3>3. CASE i # o
      BY <1>1, <2>1, <3>1, <3>3 DEF LooksAs, SameEvents
    <3> QED BY <3>2, <3>3
  <2>3. CASE stack[i].kind # "window"
    BY <1>1, <2>1, <2>3 DEF LooksAs
  <2> QED BY <2>2, <2>3
<1>4. SameFace(Top, t[n])
  BY <1>1, <1>2 DEF SameFace, SameEvents
<1> QED BY <1>3, <1>4

\* Window f is done with its events and goes on to a later step.
DoneGoesTo(f, evs, step) ==
  /\ step \notin EarlySteps
  /\ f.queued = <<>> /\ ~f.initiates /\ \A e \in ToSet(f.events) : evs[e].status # "created"
  /\ step \notin SubwindowSteps => f.subwindow = <<>>
  /\ ~(step = "cleanup" /\ f.mode = "resolves")

\* The window on top after an emission.
LEMMA EmittedTop ==
  ASSUME FutureInv, stack # <<>>, Top.kind = "window", Top.step \in EarlySteps,
         NEW step, step = "resolveEvents" \/ DoneGoesTo(Top, events, step),
         NEW g, SameEvents(Top, g), g.step = step,
         g.triggers = Top.triggers \/ Top.mode = "resolves"
  PROVE  /\ Orderly(g, events) /\ Rests(g, events) /\ Live(g) \subseteq Live(Top)
         /\ \A e \in Live(Top) : events[e].status = "created" => e \in Live(g)
         /\ Own(g) = Own(Top)
         /\ step # "resolveEvents" => Live(g) \cap Own(Top) = {}
<1>1. /\ g.kind = "window" /\ g.owner = Top.owner /\ g.events = Top.events
      /\ g.resolved = Top.resolved /\ g.subwindow = Top.subwindow /\ g.queued = Top.queued
      /\ g.mode = Top.mode /\ g.opened = Top.opened /\ g.initiates = Top.initiates
  BY DEF SameEvents
<1>2. Top \in Windows /\ Orderly(Top, events) /\ Apart(Top)
  BY FutureOfTop
<1>3. Own(g) = Own(Top) /\ Queue(g) = Queue(Top) /\ Known(g) = Known(Top)
  BY <1>1 DEF Own, Queue, Known
<1>4. Live(Top) = Known(Top) /\ Sub(Top) = ToSet(Top.subwindow)
  BY LiveEarly DEF Sub
<1>5. Top.mode \in {"resolves", "passes"}
  BY <1>2 DEF Windows, WindowRecords, Modes
<1>6. g.mode = "passes" => Waiting(g.triggers) = {}
  BY <1>1, <1>2, <1>5 DEF Orderly
<1>7. CASE step = "resolveEvents"
  <2>1. Live(g) = Known(g) /\ g.step \in SubwindowSteps
    BY <1>1, <1>7, LiveEarly DEF EarlySteps
  <2>2. g.step \in PreSteps \cup {"resolveEvents"} /\ g.step # "cleanup"
        /\ g.step \in {"setParentEventWindow", "resolveEvents"}
    BY <1>7
  <2>3. Orderly(g, events)
    BY <1>1, <1>2, <1>3, <1>6, <2>2 DEF Orderly
  <2> QED BY <1>3, <1>4, <1>7, <2>1, <2>2, <2>3 DEF Rests
<1>8. CASE DoneGoesTo(Top, events, step) /\ step # "resolveEvents"
  <2>1. /\ step \notin EarlySteps /\ Top.queued = <<>> /\ ~Top.initiates
        /\ \A e \in ToSet(Top.events) : events[e].status # "created"
        /\ step \notin SubwindowSteps => Top.subwindow = <<>>
        /\ ~(step = "cleanup" /\ Top.mode = "resolves")
    BY <1>8 DEF DoneGoesTo
  <2> DEFINE nothing == <<>>
  <2>2. ToSet(nothing) = {} /\ DOMAIN nothing = {} /\ Top.queued = nothing
        /\ (step \notin SubwindowSteps => Top.subwindow = nothing)
    BY <2>1 DEF ToSet
  <2> HIDE DEF nothing
  <2>3. Queue(Top) = {} /\ (step \notin SubwindowSteps => ToSet(Top.subwindow) = {})
    BY <2>2 DEF Queue
  <2>4. Live(g) = Sub(Top)
    BY <1>1, <1>3, <1>4, <2>1, <2>3 DEF Live, Sub
  <2>5. Rests(g, events)
    BY <1>1, <2>1, <2>3 DEF Rests
  <2>6. Orderly(g, events)
    BY <1>1, <1>2, <1>3, <1>6, <2>1 DEF Orderly
  <2>7. \A e \in ToSet(Top.resolved) : events[e].status # "created"
    BY <1>2 DEF Orderly
  <2>8. \A e \in Live(Top) : events[e].status = "created" => e \in Live(g)
    BY <1>4, <2>1, <2>3, <2>4, <2>7 DEF Known, Own
  <2>9. Live(g) \cap Own(Top) = {}
    BY <1>2, <2>4 DEF Apart
  <2> QED BY <1>3, <1>4, <2>4, <2>5, <2>6, <2>8, <2>9 DEF Known
<1> QED BY <1>7, <1>8

LEMMA EmissionFuture ==
  ASSUME FutureInv, stack # <<>>, Top.kind = "window", Top.step # "setParentEventWindow",
         Top.step \in EarlySteps,
         NEW step, step = "resolveEvents" \/ DoneGoesTo(Top, events, step),
         NEW evs, ToSet(evs) \subseteq Own(Top), NEW first \in BOOLEAN, first <=> ~Emitted(Top),
         ~first => step # "resolveEvents",
         NEW tw, CollectedFrom(TriggersOf(Top), evs, MayTrigger(TriggersOf(Top), evs), tw),
         TriggersOf(Top).triggering \subseteq tw.triggering, Own(Top) \subseteq tw.triggering,
         NEW t \in Seq(Frames), EmittedStack(t, step, Top.owner, tw),
         NEW fvs, \A e \in EventIds : HeardAs(fvs, evs, first, e)
  PROVE  Future(t, fvs)
<1> DEFINE o == Top.owner
           old == TriggersOf(Top)
           g == t[n]
<1>1. /\ stack \in Seq(Frames) /\ events \in [EventIds -> EventRecords]
      /\ n = Len(stack) /\ n \in 1 .. Len(stack) /\ Top = stack[n] /\ WindowAt(stack, n)
      /\ Top \in Windows /\ Fits(stack, current)
      /\ Future(stack, events) /\ History(stack, events) /\ PipelineInv /\ HistoryInv
  BY FutureOfTop DEF FutureInv, HistoryInv
<1>2. BegunFits(stack, n)
  BY <1>1 DEF Fits, FitsAt, WindowFits
<1>3. /\ o \in 1 .. n /\ WindowAt(stack, o) /\ old = stack[o].triggers
      /\ stack[o].mode = "resolves"
  BY <1>1, <1>2 DEF BegunFits, WindowAt, TriggersOf
<1>4. /\ Len(t) = n /\ g.step = step /\ SameEvents(Top, g)
      /\ g.triggers = IF n = o THEN tw ELSE Top.triggers
      /\ t[o].triggers = tw
  BY <1>1, <1>3 DEF EmittedStack, WindowAt
<1>5. g.triggers = Top.triggers \/ Top.mode = "resolves"
  BY <1>1, <1>3, <1>4
<1>6. /\ Orderly(g, events) /\ Rests(g, events) /\ Live(g) \subseteq Live(Top)
      /\ \A e \in Live(Top) : events[e].status = "created" => e \in Live(g)
      /\ Own(g) = Own(Top)
      /\ step # "resolveEvents" => Live(g) \cap Own(Top) = {}
  <2> HIDE DEF g
  <2> QED BY <1>4, <1>5, EmittedTop
<1>7. tw.seen = old.seen \cup MayTrigger(old, evs)
  BY DEF CollectedFrom
<1>8. \A x \in tw.seen : x \in old.seen \/ x[2] \in tw.triggering
  BY <1>7 DEF MayTrigger
<1>9. \A i \in 1 .. n - 1 : LooksAs(stack[i], t[i])
  <2> HIDE DEF o
  <2>1. EmittedStack(t, step, o, tw)
    BY DEF o
  <2> QED BY <1>1, <1>3, <1>8, <2>1, EmittedLooks
<1>10. Tended(t, n)
  <2>1. Tended(stack, n)
    BY <1>1 DEF Future, Paced
  <2>2. g.owner = o
    BY <1>4 DEF SameEvents
  <2>3. \A x \in g.triggers.seen : x[2] \in g.triggers.triggering
    <3>1. CASE n = o
      <4>1. \A x \in old.seen : x[2] \in old.triggering
        BY <1>1, <1>3, <2>1, <3>1 DEF Tended
      <4> QED BY <1>4, <1>8, <3>1, <4>1, SMTT(40)
    <3>2. CASE n # o
      BY <1>1, <1>4, <2>1, <3>2 DEF Tended
    <3> QED BY <3>1, <3>2
  <2> HIDE DEF g
  <2>4. Own(g) \subseteq t[g.owner].triggers.triggering
    BY <1>4, <1>6, <2>2
  <2> QED BY <2>3, <2>4 DEF Tended, g
<1>11. SameFace(Top, g)
  BY <1>4 DEF SameEvents, SameFace
<1>12. /\ Paced(t, events) /\ Placed(t, events)
       /\ \A e \in EventIds : HasFuture(t, e) => HasFuture(stack, e)
  BY <1>1, <1>4, <1>6, <1>9, <1>10, <1>11, TopAndTriggers
<1>13. ASSUME ~first, NEW e \in ToSet(evs), HasFuture(t, e) PROVE FALSE
  <2>1. e \in Own(Top) /\ e \in Places(stack[n]) /\ Live(g) \cap Own(Top) = {}
    BY <1>1, <1>6, <1>13 DEF Places
  <2>2. PICK i \in 1 .. n : e \in Live(t[i])
    BY <1>4, <1>13 DEF HasFuture
  <2>3. i # n
    BY <2>1, <2>2
  <2>4. i \in 1 .. n - 1
    BY <1>1, <2>3
  <2>5. e \in Live(stack[i])
    BY <1>9, <2>2, <2>4, LookAlikes
  <2>6. WindowAt(stack, i) /\ e \in Places(stack[i])
    BY <1>1, <2>5 DEF Live, Places, WindowAt
  <2>7. Places(stack[i]) \cap Places(stack[n]) = {}
    BY <1>1, <2>3, <2>6 DEF History, InPlace
  <2> QED BY <2>1, <2>6, <2>7
<1>14. Dealt(t, fvs) /\ MissedMatch(t, fvs)
  BY <1>12, <1>13, EmissionMatches
<1>15. SameStatuses(events, fvs)
  BY DEF SameStatuses, HeardAs
<1>16. Paced(t, fvs) /\ Placed(t, fvs)
  BY <1>12, <1>15, StatusesDecide
<1> QED BY <1>14, <1>16 DEF Future

LEMMA EmitEventsFuture ==
  ASSUME FutureInv, EmitEvents
  PROVE  Future(stack', events')
<1> DEFINE mine == TriggersOf(Top)
           evs == Top.events
           more == ToSet(evs)
           old == [mine EXCEPT !.triggering = @ \cup more]
           tw == Emit(old, evs)
           o == Top.owner
           step == "resolveEvents"
<1>1. /\ PipelineInv /\ HistoryInv /\ stack # <<>> /\ Top.kind = "window"
      /\ Top.step \in {"openReplacementEffectWindow", "emitEvents"}
      /\ events \in [EventIds -> EventRecords]
  BY DEF FutureInv, HistoryInv, EmitEvents, AtStep, PipelineInv, Types
<1>2. /\ Top \in Windows /\ stack[o] \in Windows /\ ~stack[o].triggers.started
      /\ o \in 1 .. n
  BY <1>1, TopWindowIsCurrent
<1>3. /\ mine \in TriggerWindows /\ ~mine.started
      /\ evs \in Seq(EventIds) /\ more \in SUBSET EventIds
  <2>1. evs \in Seq(EventIds)
    BY <1>2 DEF Windows, WindowRecords
  <2>2. more \in SUBSET EventIds
    BY <2>1 DEF ToSet
  <2> QED BY <1>2, <2>1, <2>2 DEF TriggersOf, Windows, WindowRecords
<1>4. tw \in TriggerWindows
  BY <1>3, EmitTyped
<1>5. /\ old \in TriggerRecords /\ old.unresolved = mine.unresolved /\ old.seen = mine.seen
      /\ old.missed = mine.missed /\ old.triggering = mine.triggering \cup more
  <2> HIDE DEF mine, more
  <2> QED BY <1>3 DEF TriggerWindows, TriggerRecords
<1>6. stack' = [Step(step) EXCEPT ![o].triggers = tw] /\ events' = Heard(evs, TRUE)
  BY DEF EmitEvents
<1>7. PipelineInv'
  BY <1>1, EmitEventsKeeps
<1> DEFINE t == stack'
           fvs == events'
<1>8. t \in Seq(Frames)
  BY <1>7 DEF PipelineInv, Types
<1> HIDE DEF old
<1>9. CollectedFrom(mine, evs, MayTrigger(mine, evs), tw) /\ tw.triggering = old.triggering
  <2> HIDE DEF mine, evs, tw
  <2>1. ToSet(evs) \subseteq old.triggering /\ tw = Emit(old, evs)
    BY <1>5 DEF tw
  <2> QED BY <1>3, <1>5, <2>1, EmitGathers
<1>10. step \in WindowSteps /\ step \notin PreSteps /\ Top.step \in SubwindowSteps
       /\ Top.step \in EarlySteps /\ Top.step # "setParentEventWindow"
  BY <1>1 DEF WindowSteps, PreSteps, SubwindowSteps, EarlySteps
<1> HIDE DEF tw, evs, o, t, fvs
<1>11. EmittedStack(t, step, o, tw)
  <2> HIDE DEF step
  <2>1. t = [Step(step) EXCEPT ![o].triggers = tw]
    BY <1>6 DEF t
  <2> QED BY <1>1, <1>2, <1>4, <1>10, <2>1, EmittedFrames
<1>12. \A e \in EventIds : HeardAs(fvs, evs, TRUE, e)
  <2>1. fvs = Heard(evs, TRUE)
    BY <1>6 DEF fvs
  <2> QED BY <1>1, <2>1, HeardEvents
<1>13. ~Emitted(Top) /\ Own(Top) = more
  <2>1. ~Emitted(Top) /\ Top.resolved = <<>>
    BY <1>1, TopIsApart DEF Apart, Emitted, PreSteps
  <2>2. ToSet(Top.resolved) = {}
    BY <2>1 DEF ToSet
  <2> QED BY <2>1, <2>2 DEF Own, evs
<1>14. /\ EmittedStack(t, step, Top.owner, tw)
       /\ CollectedFrom(TriggersOf(Top), evs, MayTrigger(TriggersOf(Top), evs), tw)
       /\ TriggersOf(Top).triggering \subseteq tw.triggering /\ Own(Top) \subseteq tw.triggering
       /\ ToSet(evs) \subseteq Own(Top)
  BY <1>5, <1>9, <1>11, <1>13 DEF o
<1> DEFINE first == TRUE
<1>15. /\ first \in BOOLEAN /\ (first <=> ~Emitted(Top)) /\ (~first => step # "resolveEvents")
       /\ \A e \in EventIds : HeardAs(fvs, evs, first, e)
  BY <1>12, <1>13
<1> HIDE DEF first
<1>16. step = "resolveEvents"
  OBVIOUS
<1> HIDE DEF step
<1>17. Future(t, fvs)
  BY <1>1, <1>8, <1>10, <1>14, <1>15, <1>16, EmissionFuture
<1> QED BY <1>17 DEF t, fvs

LEMMA PostResolutionTriggersFuture ==
  ASSUME FutureInv, PostResolutionTriggers
  PROVE  Future(stack', events')
<1> DEFINE tw == Emit(TriggersOf(Top), Top.resolved)
           evs == Top.resolved
           o == Top.owner
           step == AfterTriggers(Top)
<1>1. /\ PipelineInv /\ HistoryInv /\ stack # <<>> /\ Top.kind = "window"
      /\ NothingQueued \/ Top.step = "postResolutionTriggers"
      /\ events \in [EventIds -> EventRecords]
  BY DEF FutureInv, HistoryInv, PostResolutionTriggers, NothingQueued, EventsAreResolved, AtStep,
         PipelineInv, Types
<1>2. /\ Top.step \in {"resolveEvents", "postResolutionTriggers"} /\ Orderly(Top, events)
      /\ Top.queued = <<>> /\ ~Top.initiates
      /\ \A e \in ToSet(Top.events) : events[e].status # "created"
  <2>1. CASE NothingQueued
    BY <2>1, DoneEvents
  <2>2. CASE Top.step = "postResolutionTriggers"
    <3>1. Orderly(Top, events)
      BY <1>1, FutureOfTop
    <3> QED BY <2>2, <3>1 DEF Orderly, PreSteps
  <2> QED BY <1>1, <2>1, <2>2
<1>3. /\ Top \in Windows /\ stack[o] \in Windows /\ ~stack[o].triggers.started
      /\ o \in 1 .. n
  BY <1>1, <1>2, TopWindowIsCurrent
<1>4. /\ TriggersOf(Top) \in TriggerWindows /\ ~TriggersOf(Top).started
      /\ evs \in Seq(EventIds)
  BY <1>3 DEF TriggersOf, Windows, WindowRecords
<1>5. tw \in TriggerWindows
  BY <1>4, EmitTyped
<1>6. stack' = [Step(step) EXCEPT ![o].triggers = tw] /\ events' = Heard(evs, FALSE)
  BY DEF PostResolutionTriggers
<1>7. PipelineInv'
  BY <1>1, PostResolutionTriggersKeeps
<1> DEFINE t == stack'
           fvs == events'
<1>8. t \in Seq(Frames)
  BY <1>7 DEF PipelineInv, Types
<1>9. /\ step \in WindowSteps /\ step # "resolveEvents" /\ DoneGoesTo(Top, events, step)
  <2>1. step \in WindowSteps
    BY <1>3, StepsAfterEvents
  <2>2. /\ step \in {"resolveSubwindowEvents", "resolveSubAbilityStep",
                     "resolveTriggersIfNecessary", "cleanup"}
        /\ step # "resolveSubwindowEvents" => Top.subwindow = <<>>
        /\ ~(step = "cleanup" /\ Top.mode = "resolves")
    BY DEF AfterTriggers, AfterSubwindowEvents, AfterSubAbilityStep
  <2> HIDE DEF step
  <2>3. /\ step \notin EarlySteps /\ (step \notin SubwindowSteps => step # "resolveSubwindowEvents")
    BY <2>2 DEF EarlySteps, PreSteps, SubwindowSteps
  <2> QED BY <1>2, <2>1, <2>2, <2>3 DEF DoneGoesTo
<1> HIDE DEF tw, evs, o, step, t, fvs
<1>10. EmittedStack(t, step, o, tw)
  <2>1. t = [Step(step) EXCEPT ![o].triggers = tw]
    BY <1>6 DEF t
  <2> QED BY <1>1, <1>3, <1>5, <1>9, <2>1, EmittedFrames
<1>11. \A e \in EventIds : HeardAs(fvs, evs, FALSE, e)
  <2>1. fvs = Heard(evs, FALSE)
    BY <1>6 DEF fvs
  <2> QED BY <1>1, <2>1, HeardEvents
<1>12. Emitted(Top) /\ ToSet(evs) \subseteq Own(Top) /\ Top.step \in EarlySteps
       /\ Top.step # "setParentEventWindow"
  BY <1>2 DEF Emitted, PreSteps, EarlySteps, Own, evs
<1>13. Own(Top) \subseteq TriggersOf(Top).triggering
  <2>1. WindowAt(stack, n) /\ Future(stack, events) /\ Top = stack[n] /\ n \in 1 .. Len(stack)
    BY <1>1, FutureOfTop
  <2> QED BY <1>12, <2>1 DEF Future, Paced, Tended, TriggersOf
<1>14. CollectedFrom(TriggersOf(Top), evs, MayTrigger(TriggersOf(Top), evs), tw)
       /\ tw.triggering = TriggersOf(Top).triggering
  <2> DEFINE old == TriggersOf(Top)
  <2>1. /\ old \in TriggerWindows /\ old \in TriggerRecords /\ ToSet(evs) \subseteq old.triggering
        /\ tw = Emit(old, evs)
    BY <1>4, <1>12, <1>13 DEF TriggerWindows, tw, evs
  <2> HIDE DEF old
  <2>2. CollectedFrom(old, evs, MayTrigger(old, evs), tw) /\ tw.triggering = old.triggering
    BY <2>1, EmitGathers
  <2> QED BY <2>2 DEF old
<1>15. /\ EmittedStack(t, step, Top.owner, tw)
       /\ TriggersOf(Top).triggering \subseteq tw.triggering /\ Own(Top) \subseteq tw.triggering
  BY <1>10, <1>13, <1>14 DEF o
<1> DEFINE first == FALSE
<1>16. /\ first \in BOOLEAN /\ (first <=> ~Emitted(Top)) /\ (~first => step # "resolveEvents")
       /\ \A e \in EventIds : HeardAs(fvs, evs, first, e)
  BY <1>9, <1>11, <1>12
<1> HIDE DEF first
<1>17. Future(t, fvs)
  BY <1>1, <1>8, <1>9, <1>12, <1>14, <1>15, <1>16, EmissionFuture
<1> QED BY <1>17 DEF t, fvs

-----------------------------------------------------------------------------
(* Triggers that are resolved or dropped *)

\* The history an event has after the triggers of a window were dealt with.
DealtOnward(evs, fvs) ==
  \A e \in EventIds :
    /\ fvs[e].status = evs[e].status /\ fvs[e].due = evs[e].due
    /\ fvs[e].missed = evs[e].missed /\ evs[e].excused \subseteq fvs[e].excused
    /\ \A a \in Abilities : evs[e].times[a] > 0 => fvs[e].times[a] > 0

\* The triggers of window k have become those of tw, in order to be resolved or dropped,
\* and the frames above it belong to their resolution.
TriggersDealt(s, t, k, tw) ==
  /\ WindowAt(s, k) /\ k < Len(s) /\ s[k + 1].kind = "triggers"
  /\ s[k].step = "cleanup" /\ s[k].mode = "resolves"
  /\ \A i \in k + 1 .. Len(s) : s[i].kind # "window"
  /\ t \in Seq(Frames) /\ k <= Len(t)
  /\ \A i \in 1 .. k - 1 : t[i] = s[i]
  /\ t[k] = Retriggered(s[k], tw)
  /\ \A i \in k + 1 .. Len(t) : t[i].kind # "window"
  /\ k < Len(t) => t[k + 1].kind = "triggers"
  /\ k = Len(t) => Waiting(tw) = {}

LEMMA DealtLooks ==
  ASSUME NEW s \in Seq(Frames), NEW t, NEW k, NEW tw \in TriggerWindows,
         TriggersDealt(s, t, k, tw),
         tw.seen = s[k].triggers.seen, tw.triggering = s[k].triggers.triggering
  PROVE  /\ k \in 1 .. Len(s) /\ k \in 1 .. Len(t) /\ Len(s) \in Nat /\ Len(t) \in Nat
         /\ \A i \in 1 .. k : LooksAs(s[i], t[i])
         /\ t[k].triggers = tw /\ t[k].kind = "window" /\ t[k].step = "cleanup"
         /\ t[k].mode = "resolves" /\ t[k].subwindow = s[k].subwindow
<1>1. /\ k \in 1 .. Len(s) /\ k \in 1 .. Len(t) /\ Len(s) \in Nat /\ Len(t) \in Nat
      /\ s[k] \in Windows /\ s[k].kind = "window"
  BY WindowsAreTyped DEF TriggersDealt, WindowAt
<1>2. /\ t[k].triggers = tw /\ t[k].kind = "window" /\ t[k].step = s[k].step
      /\ t[k].mode = s[k].mode /\ t[k].owner = s[k].owner
  BY <1>1, RetriggeredWindow DEF TriggersDealt
<1>3. /\ t[k].events = s[k].events /\ t[k].resolved = s[k].resolved
      /\ t[k].subwindow = s[k].subwindow /\ t[k].queued = s[k].queued
      /\ t[k].opened = s[k].opened /\ t[k].initiates = s[k].initiates
  BY <1>1 DEF TriggersDealt, Retriggered, Windows, WindowRecords
<1>4. s[k].mode # "passes"
  BY DEF TriggersDealt
<1>5. LooksAs(s[k], t[k])
  BY <1>1, <1>2, <1>3, <1>4 DEF LooksAs
<1>6. \A i \in 1 .. k : i # k => i \in 1 .. k - 1
  BY <1>1
<1>7. \A i \in 1 .. k : LooksAs(s[i], t[i])
  BY <1>5, <1>6, EqualLooksAs DEF TriggersDealt
<1> QED BY <1>1, <1>2, <1>3, <1>7 DEF TriggersDealt

LEMMA DealtPaced ==
  ASSUME NEW s \in Seq(Frames), NEW c, Fits(s, c), NEW evs, Paced(s, evs), Placed(s, evs),
         \A i \in 1 .. Len(s) : WindowAt(s, i) =>
           \A e \in ToSet(s[i].resolved) : evs[e].status = "resolved",
         NEW t \in Seq(Frames), NEW k, NEW tw \in TriggerWindows, TriggersDealt(s, t, k, tw),
         tw.seen = s[k].triggers.seen, tw.triggering = s[k].triggers.triggering
  PROVE  /\ Paced(t, evs) /\ Placed(t, evs)
         /\ \A e : HasFuture(t, e) => HasFuture(s, e)
<1>1. /\ k \in 1 .. Len(s) /\ k \in 1 .. Len(t) /\ Len(s) \in Nat /\ Len(t) \in Nat
      /\ \A i \in 1 .. k : LooksAs(s[i], t[i])
      /\ t[k].triggers = tw /\ t[k].kind = "window" /\ t[k].step = "cleanup"
      /\ t[k].mode = "resolves" /\ t[k].subwindow = s[k].subwindow
  BY DealtLooks
<1>2. k \in Nat /\ k <= Len(s) /\ k <= Len(t) /\ k < Len(s)
  BY <1>1 DEF TriggersDealt
<1>3. \A i \in 1 .. k : WindowAt(s, i) =>
        \A e \in ToSet(s[i].resolved) : evs[e].status = "resolved"
  BY <1>1
<1>4. ASSUME NEW i \in 1 .. k, WindowAt(t, i)
      PROVE  /\ Orderly(t[i], evs) /\ Tended(t, i)
             /\ (i < k \/ (k < Len(s) /\ k < Len(t) /\ SameFace(s[k + 1], t[k + 1])))
                  => Adjacent(t, i, evs)
  <2>1. ASSUME NEW fvs, fvs = evs
        PROVE  /\ Orderly(t[i], fvs) /\ Tended(t, i)
               /\ (i < k \/ (k < Len(s) /\ k < Len(t) /\ SameFace(s[k + 1], t[k + 1])))
                    => Adjacent(t, i, fvs)
    <3>1. Onward(evs, fvs)
      BY <2>1, EventsOnward
    <3>2. \A j \in 1 .. k : WindowAt(s, j) =>
            \A e \in ToSet(s[j].resolved) : fvs[e].status = "resolved"
      BY <1>3, <2>1
    <3> QED BY <1>1, <1>2, <1>4, <3>1, <3>2, PacedBelow
  <2> QED BY <2>1
<1>5. k < Len(t) => SameFace(s[k + 1], t[k + 1])
  BY DEF TriggersDealt, SameFace
<1>6. ASSUME k = Len(t) PROVE Adjacent(t, k, evs)
  <2>1. Bears(s[k], s[k + 1], evs)
    BY <1>1, <1>2 DEF Paced, Adjacent, TriggersDealt
  <2>2. s[k + 1].kind = "triggers" /\ s[k].step = "cleanup" /\ Waiting(tw) = {}
    BY <1>6 DEF TriggersDealt
  <2>3. "cleanup" \notin SubwindowSteps
    BY DEF SubwindowSteps, PreSteps
  <2>4. \A e \in ToSet(s[k].subwindow) : evs[e].status # "created"
    BY <2>1, <2>2, <2>3 DEF Bears
  <2>5. Rests(t[k], evs)
    BY <1>1, <2>2, <2>4 DEF Rests
  <2> QED BY <1>6, <2>5 DEF Adjacent
<1>7. \A i : WindowAt(t, i) => i \in 1 .. k
  <2>1. \A i \in 1 .. Len(t) : i \in 1 .. k \/ i \in k + 1 .. Len(t)
    BY <1>1
  <2> QED BY <2>1 DEF TriggersDealt, WindowAt
<1>8. Paced(t, evs)
  <2> SUFFICES ASSUME NEW i \in 1 .. Len(t), WindowAt(t, i)
               PROVE  Orderly(t[i], evs) /\ Adjacent(t, i, evs) /\ Tended(t, i)
    BY DEF Paced
  <2>1. i \in 1 .. k /\ (i < k \/ i = k)
    BY <1>1, <1>7
  <2>2. i = k => k = Len(t) \/ k < Len(t)
    BY <1>1
  <2> QED BY <1>2, <1>4, <1>5, <1>6, <2>1, <2>2
<1>9. \A i \in 1 .. k : Live(t[i]) = Live(s[i])
  BY <1>1, LookAlikes
<1>10. \A i \in k + 1 .. Len(s) : Live(s[i]) = {}
  BY DEF TriggersDealt, Live
<1>11. \A i \in k + 1 .. Len(t) : Live(t[i]) = {}
  BY DEF TriggersDealt, Live
<1>12. \A e : HasFuture(t, e) <=> HasFuture(s, e)
  <2>1. \A i \in 1 .. Len(t) : i \in 1 .. k \/ i \in k + 1 .. Len(t)
    BY <1>1
  <2>2. \A i \in 1 .. Len(s) : i \in 1 .. k \/ i \in k + 1 .. Len(s)
    BY <1>1
  <2>3. \A i \in 1 .. k : i \in 1 .. Len(s) /\ i \in 1 .. Len(t)
    BY <1>1
  <2> QED BY <1>9, <1>10, <1>11, <2>1, <2>2, <2>3 DEF HasFuture
<1>13. Placed(t, evs)
  BY <1>12 DEF Placed
<1> QED BY <1>8, <1>12, <1>13

\* The triggers window k no longer has are resolved, dropped without effect, or of events
\* that have not happened and will not.
DealtWith(evs, fvs, old, tw) ==
  \A x \in Triggers :
    old.unresolved[x] > 0 /\ ~(tw.unresolved[x] > 0) /\ evs[x[2]].status \in {"created", "resolved"} =>
      fvs[x[2]].times[x[1]] > 0 \/ x[1] \in fvs[x[2]].excused

LEMMA OwnerFuture ==
  ASSUME NEW s \in Seq(Frames), NEW c, Fits(s, c),
         NEW evs \in [EventIds -> EventRecords], Future(s, evs),
         NEW fvs, DealtOnward(evs, fvs),
         NEW t \in Seq(Frames), NEW k, NEW tw \in TriggerWindows, TriggersDealt(s, t, k, tw),
         tw.seen = s[k].triggers.seen, tw.triggering = s[k].triggers.triggering,
         tw.missed = s[k].triggers.missed,
         DealtWith(evs, fvs, s[k].triggers, tw)
  PROVE  Future(t, fvs)
<1>1. /\ k \in 1 .. Len(s) /\ k \in 1 .. Len(t) /\ Len(s) \in Nat /\ Len(t) \in Nat
      /\ t[k].triggers = tw /\ t[k].kind = "window" /\ s[k].kind = "window"
  BY DealtLooks DEF TriggersDealt, WindowAt
<1>2. \A i \in 1 .. Len(s) : WindowAt(s, i) =>
        \A e \in ToSet(s[i].resolved) : evs[e].status = "resolved"
  BY DEF Future, Paced, Orderly
<1>3. /\ Paced(t, evs) /\ Placed(t, evs) /\ \A e : HasFuture(t, e) => HasFuture(s, e)
  BY <1>2, DealtPaced DEF Future
<1>4. Paced(t, fvs) /\ Placed(t, fvs)
  <2>1. SameStatuses(evs, fvs)
    BY DEF DealtOnward, SameStatuses
  <2> QED BY <1>3, <2>1, StatusesDecide
<1>5. ASSUME NEW i, WindowAt(s, i), i # k PROVE WindowAt(t, i) /\ t[i] = s[i]
  <2>1. i \in 1 .. Len(s) /\ s[i].kind = "window"
    BY <1>5 DEF WindowAt
  <2>2. i \in 1 .. k - 1
    <3>1. i \notin k + 1 .. Len(s)
      BY <2>1 DEF TriggersDealt
    <3> QED BY <1>1, <1>5, <2>1, <3>1
  <2>3. t[i] = s[i] /\ i \in 1 .. Len(t)
    BY <1>1, <2>2 DEF TriggersDealt
  <2> QED BY <2>1, <2>3 DEF WindowAt
<1>6. ASSUME NEW i, WindowAt(t, i), i # k PROVE WindowAt(s, i) /\ t[i] = s[i]
  <2>1. i \in 1 .. Len(t) /\ t[i].kind = "window"
    BY <1>6 DEF WindowAt
  <2>2. i \in 1 .. k - 1
    <3>1. i \notin k + 1 .. Len(t)
      BY <2>1 DEF TriggersDealt
    <3> QED BY <1>1, <1>6, <2>1, <3>1
  <2>3. t[i] = s[i] /\ i \in 1 .. Len(s)
    BY <1>1, <2>2 DEF TriggersDealt
  <2> QED BY <2>1, <2>3 DEF WindowAt
<1>7. ASSUME NEW x, Waits(s, x), ~Waits(t, x)
      PROVE  s[k].triggers.unresolved[x] > 0 /\ ~(tw.unresolved[x] > 0)
  <2>1. PICK i \in 1 .. Len(s) : WindowAt(s, i) /\ s[i].triggers.unresolved[x] > 0
    BY <1>7 DEF Waits
  <2>2. i = k
    <3>1. ASSUME i # k PROVE FALSE
      <4>1. WindowAt(t, i) /\ t[i] = s[i] /\ i \in 1 .. Len(t)
        BY <1>5, <2>1, <3>1 DEF WindowAt
      <4> QED BY <1>7, <2>1, <4>1 DEF Waits
    <3> QED BY <3>1
  <2>3. ~(tw.unresolved[x] > 0)
    BY <1>1, <1>7 DEF Waits, WindowAt
  <2> QED BY <2>1, <2>2, <2>3
<1>8. Dealt(t, fvs)
  <2> SUFFICES ASSUME NEW e \in EventIds, fvs[e].status \in {"created", "resolved"},
                      NEW a \in fvs[e].due
               PROVE  fvs[e].times[a] > 0 \/ a \in fvs[e].excused \/ Waits(t, <<a, e>>)
    BY DEF Dealt
  <2>1. /\ evs[e].status \in {"created", "resolved"} /\ a \in evs[e].due
        /\ evs[e].excused \subseteq fvs[e].excused
        /\ \A b \in Abilities : evs[e].times[b] > 0 => fvs[e].times[b] > 0
    BY DEF DealtOnward
  <2>2. a \in Abilities /\ <<a, e>> \in Triggers
    BY <2>1 DEF EventRecords, Triggers
  <2>3. evs[e].times[a] > 0 \/ a \in evs[e].excused \/ Waits(s, <<a, e>>)
    BY <2>1 DEF Future, Dealt
  <2>4. ASSUME Waits(s, <<a, e>>), ~Waits(t, <<a, e>>)
        PROVE  fvs[e].times[a] > 0 \/ a \in fvs[e].excused
    <3> DEFINE x == <<a, e>>
    <3>1. x[1] = a /\ x[2] = e /\ x \in Triggers /\ Waits(s, x) /\ ~Waits(t, x)
      BY <2>2, <2>4
    <3> HIDE DEF x
    <3>2. s[k].triggers.unresolved[x] > 0 /\ ~(tw.unresolved[x] > 0)
      BY <1>7, <3>1
    <3>3. evs[x[2]].status \in {"created", "resolved"}
      BY <2>1, <3>1
    <3>4. fvs[x[2]].times[x[1]] > 0 \/ x[1] \in fvs[x[2]].excused
      BY <3>1, <3>2, <3>3 DEF DealtWith
    <3> QED BY <3>1, <3>4
  <2> QED BY <2>1, <2>2, <2>3, <2>4
<1>9. MissedMatch(t, fvs)
  <2> SUFFICES ASSUME NEW x \in Triggers, MissedIn(t, x)
               PROVE  /\ fvs[x[2]].status # "unused"
                      /\ x[1] \in fvs[x[2]].missed \/ ~HasFuture(t, x[2])
    BY DEF MissedMatch
  <2>1. x[2] \in EventIds
    BY DEF Triggers
  <2>2. MissedIn(s, x)
    <3>1. PICK i \in 1 .. Len(t) : WindowAt(t, i) /\ x \in t[i].triggers.missed
      BY DEF MissedIn
    <3>2. WindowAt(s, i) /\ x \in s[i].triggers.missed
      <4>1. CASE i = k
        BY <1>1, <3>1, <4>1 DEF WindowAt
      <4>2. CASE i # k
        BY <1>6, <3>1, <4>2
      <4> QED BY <4>1, <4>2
    <3> QED BY <3>2 DEF MissedIn, WindowAt
  <2>3. evs[x[2]].status # "unused" /\ (x[1] \in evs[x[2]].missed \/ ~HasFuture(s, x[2]))
    BY <2>2 DEF Future, MissedMatch
  <2> QED BY <1>3, <2>1, <2>3 DEF DealtOnward
<1> QED BY <1>4, <1>8, <1>9 DEF Future

\* When a trigger window runs, all events whose triggers wait in it have happened.
LEMMA WaitingHaveHappened ==
  ASSUME FutureInv, NEW k, WindowAt(stack, k), stack[k].step = "cleanup",
         \A i \in k + 1 .. n : stack[i].kind # "window",
         NEW x \in Triggers, stack[k].triggers.unresolved[x] > 0
  PROVE  events[x[2]].status # "created"
<1> SUFFICES ASSUME events[x[2]].status = "created" PROVE FALSE
  OBVIOUS
<1> DEFINE e == x[2]
<1>1. /\ stack \in Seq(Frames) /\ Len(stack) = n /\ n \in Nat
      /\ Future(stack, events) /\ History(stack, events) /\ e \in EventIds
  BY DEF FutureInv, HistoryInv, PipelineInv, Types, n, Triggers
<1> HIDE DEF e
<1>2. PICK j \in 1 .. Len(stack) : e \in Live(stack[j])
  BY <1>1 DEF Future, Placed, HasFuture, e
<1>3. WindowAt(stack, j) /\ j \in 1 .. k
  <2>1. stack[j].kind = "window"
    BY <1>2 DEF Live
  <2>2. j \notin k + 1 .. n
    BY <2>1
  <2>3. k \in 1 .. n
    BY <1>1 DEF WindowAt
  <2> QED BY <1>1, <1>2, <2>1, <2>2, <2>3 DEF WindowAt
<1>4. SeenBy(stack[k], events) /\ x \in stack[k].triggers.seen
  <2>1. SeenBy(stack[k], events)
    BY <1>1 DEF History, SeenOnce, WindowAt
  <2> QED BY <2>1 DEF SeenBy
<1>5. ~Fresh(events[e])
  BY <1>4 DEF SeenBy, Fresh, e
<1>6. e \notin Ahead(stack[j])
  BY <1>1, <1>3, <1>5 DEF History, InUse
<1>7. stack[j].step \in EarlySteps /\ e \in Own(stack[j]) /\ Emitted(stack[j])
  BY <1>2, <1>6 DEF Live, Ahead
<1>8. stack[j].owner \in 1 .. j /\ HeardIn(stack, events, stack[j].owner, e)
  BY <1>1, <1>3, <1>7 DEF History, OwnersKnow
<1>9. k = stack[j].owner
  BY <1>4, <1>8 DEF HeardIn, WindowAt, e
<1>10. j = k
  BY <1>3, <1>8, <1>9
<1> QED BY <1>7, <1>10 DEF EarlySteps, PreSteps

\* The triggers a trigger window drops are excused when none of them can have an effect.
LEMMA DroppedAreExcused ==
  ASSUME events \in [EventIds -> EventRecords], NEW old, NEW tw \in TriggerRecords,
         old \in TriggerRecords,
         \A x \in Triggers : x \in Dropped(old, tw) =>
           events[x[2]].status \notin {"created", "resolved"} \/ x[1] \notin legal,
         NEW fvs, fvs = Excuse(events, Dropped(old, tw))
  PROVE  DealtOnward(events, fvs) /\ DealtWith(events, fvs, old, tw)
<1> DEFINE dropped == Dropped(old, tw)
           more(e) == {a \in Abilities \ legal : <<a, e>> \in dropped}
<1>1. ASSUME NEW e \in EventIds
      PROVE  /\ fvs[e].status = events[e].status /\ fvs[e].due = events[e].due
             /\ fvs[e].missed = events[e].missed /\ fvs[e].times = events[e].times
             /\ fvs[e].excused = events[e].excused \cup more(e)
  <2>1. fvs[e] = [events[e] EXCEPT !.excused = @ \cup more(e)]
    BY DEF Excuse
  <2>2. ASSUME NEW r \in EventRecords, NEW as, NEW q, q = [r EXCEPT !.excused = @ \cup as]
        PROVE  /\ q.status = r.status /\ q.due = r.due /\ q.missed = r.missed
               /\ q.times = r.times /\ q.excused = r.excused \cup as
    BY <2>2 DEF EventRecords
  <2>3. events[e] \in EventRecords
    OBVIOUS
  <2> HIDE DEF more
  <2> QED BY <2>1, <2>2, <2>3
<1>2. DealtOnward(events, fvs)
  <2> HIDE DEF more
  <2> QED BY <1>1 DEF DealtOnward
<1>3. DealtWith(events, fvs, old, tw)
  <2> SUFFICES ASSUME NEW x \in Triggers, old.unresolved[x] > 0, ~(tw.unresolved[x] > 0),
                      events[x[2]].status \in {"created", "resolved"}
               PROVE  x[1] \in fvs[x[2]].excused
    BY DEF DealtWith
  <2>1. x[1] \in Abilities /\ x[2] \in EventIds /\ x = <<x[1], x[2]>>
    BY DEF Triggers
  <2>2. x \in dropped
    BY DEF Dropped, Waiting
  <2>3. x[1] \notin legal
    BY <2>2
  <2>4. x[1] \in more(x[2])
    BY <2>1, <2>2, <2>3
  <2> HIDE DEF more
  <2> QED BY <1>1, <2>1, <2>4
<1> QED BY <1>2, <1>3

\* cleanUpTriggers drops the triggers of events that did not happen, and all when none
\* can have an effect.
LEMMA CleanUpDrops ==
  ASSUME NEW old \in TriggerRecords, NEW tw, tw = CleanUpTriggers(old),
         NEW x \in Dropped(old, tw)
  PROVE  events[x[2]].status # "resolved" \/ x[1] \notin legal
<1> DEFINE kept == Keep(old, ByResolved)
<1>1. x \in Triggers /\ x \in Waiting(old) /\ x \notin Waiting(tw)
  BY DEF Dropped, Waiting
<1>2. Waiting(kept) = Waiting(old) \cap ByResolved
  <2> DEFINE ts == ByResolved
  <2> HIDE DEF ts
  <2>1. Waiting(Keep(old, ts)) = Waiting(old) \cap ts
    BY KeepKeeps
  <2> QED BY <2>1 DEF ts
<1>3. tw = kept \/ ~AnyLegal(Waiting(kept))
  BY DEF CleanUpTriggers
<1> HIDE DEF kept
<1>4. CASE tw = kept
  <2>1. x \notin ByResolved
    BY <1>1, <1>2, <1>4
  <2> QED BY <1>1, <2>1 DEF ByResolved
<1>5. CASE ~AnyLegal(Waiting(kept))
  <2>1. x \in ByResolved => x[1] \notin legal
    BY <1>1, <1>2, <1>5 DEF AnyLegal
  <2> QED BY <1>1, <2>1 DEF ByResolved
<1> QED BY <1>3, <1>4, <1>5

\* The turn passes from a player whose triggers cannot have an effect, and drops them.
LEMMA NextPlayerDrops ==
  ASSUME NEW old \in TriggerWindows, old.started = TRUE, old.order # <<>>,
         NEW tw, tw = NextPlayer(old), NEW x \in Dropped(old, tw)
  PROVE  x[1] \notin legal
<1> DEFINE p == Head(old.order)
           skipped == SkipUnable(old)
           ts == Triggers \ WaitingOf(old, p)
           kept == Keep(old, ts)
<1>1. x \in Triggers /\ x \in Waiting(old) /\ x \notin Waiting(tw)
  BY DEF Dropped, Waiting
<1>2. skipped \in TriggerRecords
  BY SkippingKeeps DEF TriggerWindows
<1>3. tw.unresolved = skipped.unresolved
  <2> HIDE DEF skipped
  <2>1. tw = skipped \/ tw = [skipped EXCEPT !.order = SetToSeq(WithTriggers(skipped))]
    BY DEF NextPlayer, skipped
  <2> QED BY <1>2, <2>1 DEF TriggerRecords
<1>4. Waiting(tw) = Waiting(skipped)
  <2> HIDE DEF skipped
  <2> QED BY <1>3 DEF Waiting
<1>5. old \in TriggerRecords
  BY DEF TriggerWindows
<1>6. kept \in TriggerRecords /\ Waiting(kept) = Waiting(old) \cap ts
  <2> HIDE DEF ts
  <2> QED BY <1>5, KeepKeeps
<1>7. skipped = old \/ (~AnyLegal(WaitingOf(old, p)) /\ skipped = [kept EXCEPT !.order = Tail(@)])
  BY DEF SkipUnable
<1>8. skipped # old
  BY <1>1, <1>4
<1>9. Waiting(skipped) = Waiting(kept)
  <2> HIDE DEF kept, skipped
  <2>1. skipped.unresolved = kept.unresolved
    BY <1>6, <1>7, <1>8 DEF TriggerRecords
  <2> QED BY <2>1 DEF Waiting
<1>10. x \in WaitingOf(old, p)
  <2> HIDE DEF kept, skipped, p
  <2> QED BY <1>1, <1>4, <1>6, <1>9
<1> QED BY <1>7, <1>8, <1>10 DEF AnyLegal

\* The frames as a trigger window is done, goes on, or has a trigger resolved.
LEMMA OwnerRetriggered ==
  ASSUME FutureInv, InTriggerWindow, NEW tw \in TriggerWindows
  PROVE  LET s == SetTriggers(tw)
             k == n - 1
         IN  /\ s \in Seq(Frames) /\ Len(s) = n /\ n \in Nat \ {0} /\ k \in 1 .. n
             /\ Waiting(tw) = {} => TriggersDealt(stack, SubSeq(s, 1, k), k, tw)
             /\ TriggersDealt(stack, s, k, tw)
             /\ \A r \in Frames : r.kind # "window" => TriggersDealt(stack, Append(s, r), k, tw)
<1> DEFINE s == SetTriggers(tw)
           k == n - 1
<1>1. /\ stack \in Seq(Frames) /\ Len(stack) = n /\ n \in Nat \ {0} /\ k \in 1 .. n /\ k \in Nat
      /\ k + 1 = n /\ k < n
      /\ stack[k] \in Windows /\ stack[k].kind = "window" /\ stack[k].step = "cleanup"
      /\ stack[k].mode = "resolves" /\ stack[n].kind = "triggers"
  BY TriggersOnTop DEF FutureInv, HistoryInv, PipelineInv, Types, n, Top
<1> DEFINE g == Retriggered(stack[k], tw)
<1>2. g \in Frames
  BY <1>1, RetriggeredWindow DEF Frames
<1>3. s = [stack EXCEPT ![k] = g]
  BY DEF SetTriggers, Retriggered
<1> HIDE DEF g
<1>4. /\ s \in Seq(Frames) /\ Len(s) = n /\ s[k] = g
      /\ \A i \in 1 .. n : i # k => s[i] = stack[i]
  <2> HIDE DEF s, k
  <2> QED BY <1>1, <1>2, <1>3, FrameReplaced
<1> HIDE DEF s, k
<1>5. /\ WindowAt(stack, k) /\ k < Len(stack) /\ stack[k + 1].kind = "triggers"
      /\ \A i \in k + 1 .. Len(stack) : stack[i].kind # "window"
  <2>1. \A i \in k + 1 .. Len(stack) : i = n
    BY <1>1
  <2> QED BY <1>1, <2>1 DEF WindowAt
<1>6. \A i \in 1 .. k - 1 : s[i] = stack[i] /\ i \in 1 .. k
  BY <1>1, <1>4
<1>7. ASSUME Waiting(tw) = {} PROVE TriggersDealt(stack, SubSeq(s, 1, k), k, tw)
  <2> DEFINE t == SubSeq(s, 1, k)
  <2>1. t \in Seq(Frames) /\ Len(t) = k /\ \A i \in 1 .. k : t[i] = s[i]
    BY <1>1, <1>4
  <2>2. \A i \in k + 1 .. Len(t) : FALSE
    BY <1>1, <2>1
  <2> HIDE DEF t
  <2>3. ~(k < Len(t)) /\ k <= Len(t)
    BY <1>1, <2>1
  <2>4. t[k] = g /\ \A i \in 1 .. k - 1 : t[i] = stack[i]
    BY <1>1, <1>4, <1>6, <2>1
  <2>5. TriggersDealt(stack, t, k, tw)
    BY <1>1, <1>5, <1>7, <2>1, <2>2, <2>3, <2>4 DEF TriggersDealt, g
  <2> QED BY <2>5 DEF t
<1>8. TriggersDealt(stack, s, k, tw)
  <2>1. \A i \in k + 1 .. Len(s) : i = n
    BY <1>1, <1>4
  <2>2. k # Len(s) /\ k <= Len(s) /\ s[k + 1] = stack[n] /\ s[n] = stack[n]
    BY <1>1, <1>4
  <2> QED BY <1>1, <1>4, <1>5, <1>6, <2>1, <2>2 DEF TriggersDealt, g
<1>9. ASSUME NEW r \in Frames, r.kind # "window"
      PROVE  TriggersDealt(stack, Append(s, r), k, tw)
  <2> DEFINE t == Append(s, r)
  <2>1. /\ t \in Seq(Frames) /\ Len(t) = n + 1 /\ t[n + 1] = r
        /\ \A i \in 1 .. n : t[i] = s[i]
    BY <1>1, <1>4
  <2> HIDE DEF t
  <2>2. \A i \in k + 1 .. Len(t) : i = n \/ i = n + 1
    BY <1>1, <2>1
  <2>3. k # Len(t) /\ k <= Len(t) /\ t[k + 1] = stack[n] /\ t[n] = stack[n] /\ t[k] = g
    BY <1>1, <1>4, <2>1
  <2>4. \A i \in k + 1 .. Len(t) : t[i].kind # "window"
    BY <1>1, <1>9, <2>1, <2>2, <2>3
  <2>5. \A i \in 1 .. k - 1 : t[i] = stack[i]
    BY <1>1, <1>6, <2>1
  <2>6. TriggersDealt(stack, t, k, tw)
    BY <1>1, <1>5, <2>1, <2>3, <2>4, <2>5 DEF TriggersDealt, g
  <2> QED BY <2>6 DEF t
<1> QED BY <1>1, <1>4, <1>7, <1>8, <1>9 DEF s, k

\* What the trigger window drops is excused; the events go on.
LEMMA DroppingFuture ==
  ASSUME FutureInv, InTriggerWindow, NEW tw \in TriggerWindows,
         tw.seen = OwnTriggers.seen, tw.missed = OwnTriggers.missed,
         tw.triggering = OwnTriggers.triggering,
         \A x \in Dropped(OwnTriggers, tw) :
           events[x[2]].status # "resolved" \/ x[1] \notin legal,
         NEW dropping, dropping \in TriggerRecords, dropping.unresolved = tw.unresolved,
         NEW fvs, fvs = Excuse(events, Dropped(OwnTriggers, dropping)),
         NEW t \in Seq(Frames), TriggersDealt(stack, t, n - 1, tw)
  PROVE  Future(t, fvs)
<1> DEFINE old == OwnTriggers
           k == n - 1
<1>1. /\ stack \in Seq(Frames) /\ Len(stack) = n /\ n \in Nat \ {0} /\ Fits(stack, current)
      /\ events \in [EventIds -> EventRecords] /\ Future(stack, events)
  BY TriggersOnTop DEF FutureInv, HistoryInv, PipelineInv, StackFits, Types, n
<1>2. /\ old \in TriggerWindows /\ old \in TriggerRecords /\ old = stack[k].triggers
      /\ k \in 1 .. n /\ stack[k].step = "cleanup" /\ k + 1 = n /\ WindowAt(stack, k)
      /\ stack[n].kind = "triggers"
  BY <1>1, TriggersOnTop DEF FutureInv, HistoryInv, OwnTriggers, TriggerWindows, WindowAt, Top
<1>3. \A i \in k + 1 .. n : stack[i].kind # "window"
  <2>1. \A i \in k + 1 .. n : i = n
    BY <1>1, <1>2
  <2> QED BY <1>2, <2>1
<1>4. Dropped(old, dropping) = Dropped(old, tw) /\ Dropped(old, tw) \subseteq Waiting(old)
      /\ fvs = Excuse(events, Dropped(old, tw)) /\ tw \in TriggerRecords
  BY DEF Dropped, Waiting, TriggerWindows
<1>5. ASSUME NEW x \in Triggers, x \in Dropped(old, tw)
      PROVE  events[x[2]].status \notin {"created", "resolved"} \/ x[1] \notin legal
  <2>1. stack[k].triggers.unresolved[x] > 0
    BY <1>2, <1>4, <1>5 DEF Waiting
  <2> HIDE DEF k
  <2>2. events[x[2]].status # "created"
    BY <1>2, <1>3, <2>1, WaitingHaveHappened
  <2> QED BY <1>5, <2>2
<1> HIDE DEF old, k
<1>6. DealtOnward(events, fvs) /\ DealtWith(events, fvs, old, tw)
  BY <1>1, <1>2, <1>4, <1>5, DroppedAreExcused
<1>7. /\ TriggersDealt(stack, t, k, tw) /\ DealtWith(events, fvs, stack[k].triggers, tw)
      /\ tw.seen = stack[k].triggers.seen /\ tw.missed = stack[k].triggers.missed
      /\ tw.triggering = stack[k].triggers.triggering
  <2>1. TriggersDealt(stack, t, k, tw)
    BY DEF k
  <2>2. tw.seen = old.seen /\ tw.missed = old.missed /\ tw.triggering = old.triggering
    BY DEF old
  <2> QED BY <1>2, <1>6, <2>1, <2>2
<1> QED BY <1>1, <1>6, <1>7, OwnerFuture

LEMMA StartResolvingFuture ==
  ASSUME FutureInv, StartResolving
  PROVE  Future(stack', events')
<1> DEFINE tw == CleanUpTriggers(OwnTriggers)
           s == SetTriggers(tw)
           t == stack'
<1>1. InTriggerWindow /\ OwnTriggers \in TriggerWindows /\ OwnTriggers \in TriggerRecords
  <2>1. InTriggerWindow /\ OwnTriggers \in TriggerWindows
    BY TriggersOnTop DEF StartResolving, FutureInv, HistoryInv
  <2> QED BY <2>1 DEF TriggerWindows
<1>2. /\ tw \in TriggerRecords /\ tw.started = FALSE
      /\ tw.seen = OwnTriggers.seen /\ tw.missed = OwnTriggers.missed
      /\ tw.triggering = OwnTriggers.triggering
  <2>1. OwnTriggers.started = FALSE
    BY <1>1 DEF StartResolving, TriggerRecords
  <2> HIDE DEF tw
  <2>2. /\ tw \in TriggerRecords /\ tw.started = OwnTriggers.started
        /\ tw.seen = OwnTriggers.seen /\ tw.missed = OwnTriggers.missed
        /\ tw.triggering = OwnTriggers.triggering
    BY <1>1, CleanUpKeeps DEF tw
  <2> QED BY <2>1, <2>2
<1>3. \A x \in Dropped(OwnTriggers, tw) :
        events[x[2]].status # "resolved" \/ x[1] \notin legal
  <2> HIDE DEF tw
  <2> QED BY <1>1, CleanUpDrops DEF tw
<1>4. events' = Excuse(events, Dropped(OwnTriggers, tw))
  BY DEF StartResolving
<1>5. \/ WithTriggers(tw) = {} /\ stack' = SubSeq(s, 1, n - 1)
      \/ /\ WithTriggers(tw) # {}
         /\ \E order \in Orders(tw) :
              stack' = SetTriggers([tw EXCEPT !.started = TRUE, !.order = order])
  BY DEF StartResolving
<1>6. t \in Seq(Frames)
  <2>1. PipelineInv'
    BY StartResolvingKeeps DEF FutureInv, HistoryInv
  <2> QED BY <2>1 DEF PipelineInv, Types
<1> HIDE DEF tw, t
<1>7. CASE WithTriggers(tw) = {} /\ stack' = SubSeq(s, 1, n - 1)
  <2>1. tw \in TriggerWindows
    BY <1>2, UnstartedInOrder
  <2>2. Waiting(tw) = {}
    <3> SUFFICES ASSUME NEW x \in Waiting(tw) PROVE FALSE
      OBVIOUS
    <3>1. x \in Triggers /\ Controller[x[1]] \in Players
      BY ControllerAssumption DEF Waiting, Triggers
    <3>2. x \in WaitingOf(tw, Controller[x[1]])
      BY DEF WaitingOf
    <3> QED BY <1>7, <3>1, <3>2 DEF WithTriggers
  <2>3. TriggersDealt(stack, t, n - 1, tw)
    BY <1>1, <1>7, <2>1, <2>2, OwnerRetriggered DEF t
  <2>4. ASSUME NEW fvs, fvs = events' PROVE Future(t, fvs)
    <3>1. fvs = Excuse(events, Dropped(OwnTriggers, tw))
      BY <1>4, <2>4
    <3> QED BY <1>1, <1>2, <1>3, <1>6, <2>1, <2>3, <3>1, DroppingFuture
  <2> QED BY <2>4 DEF t
<1>8. CASE /\ WithTriggers(tw) # {}
           /\ \E order \in Orders(tw) :
                stack' = SetTriggers([tw EXCEPT !.started = TRUE, !.order = order])
  <2>1. PICK order \in Orders(tw) :
          stack' = SetTriggers([tw EXCEPT !.started = TRUE, !.order = order])
    BY <1>8
  <2> DEFINE new == [tw EXCEPT !.started = TRUE, !.order = order]
  <2>2. t = SetTriggers(new)
    BY <2>1 DEF t
  <2>3. new = [tw EXCEPT !.started = TRUE, !.order = order]
    OBVIOUS
  <2> HIDE DEF new
  <2>4. new \in TriggerWindows
    BY <1>2, <1>8, <2>1, <2>3, StartedInOrder
  <2>5. /\ new.seen = tw.seen /\ new.missed = tw.missed /\ new.triggering = tw.triggering
        /\ new.unresolved = tw.unresolved
    BY <1>2, <2>3 DEF TriggerRecords
  <2>6. Dropped(OwnTriggers, new) = Dropped(OwnTriggers, tw)
    BY <2>5 DEF Dropped, Waiting
  <2>7. TriggersDealt(stack, t, n - 1, new)
    BY <1>1, <2>2, <2>4, OwnerRetriggered
  <2>8. ASSUME NEW fvs, fvs = events' PROVE Future(t, fvs)
    <3>1. fvs = Excuse(events, Dropped(OwnTriggers, tw))
      BY <1>4, <2>8
    <3>2. /\ new.seen = OwnTriggers.seen /\ new.missed = OwnTriggers.missed
          /\ new.triggering = OwnTriggers.triggering /\ tw.unresolved = new.unresolved
          /\ \A x \in Dropped(OwnTriggers, new) :
               events[x[2]].status # "resolved" \/ x[1] \notin legal
      BY <1>2, <1>3, <2>5, <2>6
    <3> QED BY <1>1, <1>2, <1>6, <2>4, <2>7, <3>1, <3>2, DroppingFuture
  <2> QED BY <2>8 DEF t
<1> QED BY <1>5, <1>7, <1>8

LEMMA ResolveNextTriggerFuture ==
  ASSUME FutureInv, ResolveNextTrigger
  PROVE  Future(stack', events')
<1> DEFINE tw == NextPlayer(OwnTriggers)
           s == SetTriggers(tw)
           t == stack'
<1>1. InTriggerWindow /\ OwnTriggers \in TriggerWindows /\ SomeonesTurn(OwnTriggers)
  BY TriggersOnTop DEF ResolveNextTrigger, FutureInv, HistoryInv
<1>2. OwnTriggers.started = TRUE /\ OwnTriggers.order # <<>>
  <2>1. OwnTriggers.started = TRUE
    BY <1>1 DEF TriggerWindows, TriggerRecords, ResolveNextTrigger
  <2> QED BY <1>1, <2>1 DEF SomeonesTurn
<1>3. /\ tw \in TriggerWindows /\ tw \in TriggerRecords
      /\ tw.seen = OwnTriggers.seen /\ tw.missed = OwnTriggers.missed
      /\ tw.triggering = OwnTriggers.triggering
      /\ tw.order = <<>> => Waiting(tw) = {}
  <2> HIDE DEF tw
  <2>1. /\ tw \in TriggerWindows
        /\ tw.seen = OwnTriggers.seen /\ tw.missed = OwnTriggers.missed
        /\ tw.triggering = OwnTriggers.triggering
        /\ tw.order = <<>> => Waiting(tw) = {}
    BY <1>1, <1>2, NextPlayerKeeps DEF tw
  <2> QED BY <2>1 DEF TriggerWindows
<1>4. \A x \in Dropped(OwnTriggers, tw) :
        events[x[2]].status # "resolved" \/ x[1] \notin legal
  <2> HIDE DEF tw
  <2> QED BY <1>1, <1>2, NextPlayerDrops DEF tw
<1>5. events' = Excuse(events, Dropped(OwnTriggers, tw))
  BY DEF ResolveNextTrigger
<1>6. \/ tw.order = <<>> /\ stack' = SubSeq(s, 1, n - 1)
      \/ \E x \in WaitingOf(tw, Head(tw.order)) :
           stack' = Append(s, AbilityResolver(x, "resolves", "trigger"))
  BY DEF ResolveNextTrigger
<1>7. t \in Seq(Frames)
  <2>1. PipelineInv'
    BY ResolveNextTriggerKeeps DEF FutureInv, HistoryInv
  <2> QED BY <2>1 DEF PipelineInv, Types
<1> HIDE DEF tw, t
<1>8. TriggersDealt(stack, t, n - 1, tw)
  <2>1. CASE tw.order = <<>> /\ stack' = SubSeq(s, 1, n - 1)
    <3>1. Waiting(tw) = {}
      BY <1>3, <2>1
    <3> QED BY <1>1, <1>3, <2>1, <3>1, OwnerRetriggered DEF t
  <2>2. ASSUME NEW x \in WaitingOf(tw, Head(tw.order)),
               stack' = Append(s, AbilityResolver(x, "resolves", "trigger"))
        PROVE  TriggersDealt(stack, t, n - 1, tw)
    <3> DEFINE r == AbilityResolver(x, "resolves", "trigger")
    <3>1. x \in Triggers /\ "resolves" \in Modes /\ "trigger" \in {"trigger", "subStep"}
      BY DEF WaitingOf, Waiting, Modes
    <3>2. r \in Resolvers /\ r.kind = "resolver"
      BY <3>1, AbilityResolverTyped
    <3>3. t = Append(s, r)
      BY <2>2 DEF t
    <3> HIDE DEF r
    <3>4. r \in Frames /\ r.kind # "window"
      BY <3>2 DEF Frames
    <3> QED BY <1>1, <1>3, <3>3, <3>4, OwnerRetriggered
  <2> QED BY <1>6, <2>1, <2>2
<1>9. ASSUME NEW fvs, fvs = events' PROVE Future(t, fvs)
  <2>1. fvs = Excuse(events, Dropped(OwnTriggers, tw)) /\ tw.unresolved = tw.unresolved
    BY <1>5, <1>9
  <2> QED BY <1>1, <1>3, <1>4, <1>7, <1>8, <2>1, DroppingFuture
<1> QED BY <1>9 DEF t

\* A trigger that is resolved was dealt with once.
LEMMA ResolvedIsDealtWith ==
  ASSUME NEW evs \in [EventIds -> EventRecords], NEW x \in Triggers,
         NEW old \in TriggerRecords, NEW tw \in TriggerRecords,
         tw.unresolved = [old.unresolved EXCEPT ![x] = @ - 1],
         evs[x[2]].times[x[1]] = 0,
         NEW fvs, fvs = [evs EXCEPT ![x[2]].times[x[1]] = IF @ < 2 THEN @ + 1 ELSE @]
  PROVE  DealtOnward(evs, fvs) /\ DealtWith(evs, fvs, old, tw)
<1> DEFINE b == x[1]
           f == x[2]
<1>1. b \in Abilities /\ f \in EventIds /\ x = <<b, f>> /\ evs[f] \in EventRecords
  BY DEF Triggers
<1> DEFINE times == [evs[f].times EXCEPT ![b] = 1]
           r == [evs[f] EXCEPT !.times = times]
<1>2. fvs = [evs EXCEPT ![f] = r]
  <2> DEFINE m == IF evs[f].times[b] < 2 THEN evs[f].times[b] + 1 ELSE evs[f].times[b]
  <2>1. m = 1
    OBVIOUS
  <2>2. fvs = [evs EXCEPT ![f] = [evs[f] EXCEPT !.times = [evs[f].times EXCEPT ![b] = m]]]
    OBVIOUS
  <2> HIDE DEF m
  <2> QED BY <2>1, <2>2
<1> HIDE DEF b, f
<1>3. times[b] = 1 /\ \A a \in Abilities : a # b => times[a] = evs[f].times[a]
  BY <1>1 DEF EventRecords
<1> HIDE DEF times
<1>4. /\ r.status = evs[f].status /\ r.due = evs[f].due /\ r.missed = evs[f].missed
      /\ r.excused = evs[f].excused /\ r.times = times
  BY <1>1 DEF EventRecords
<1> HIDE DEF r
<1>5. fvs[f] = r /\ \A e \in EventIds : e # f => fvs[e] = evs[e]
  BY <1>1, <1>2
<1>6. \A a \in Abilities : r.times[a] = IF a = b THEN 1 ELSE evs[f].times[a]
  BY <1>3, <1>4
<1>7. DealtOnward(evs, fvs)
  <2> SUFFICES ASSUME NEW e \in EventIds
               PROVE  /\ fvs[e].status = evs[e].status /\ fvs[e].due = evs[e].due
                      /\ fvs[e].missed = evs[e].missed /\ evs[e].excused \subseteq fvs[e].excused
                      /\ \A a \in Abilities : evs[e].times[a] > 0 => fvs[e].times[a] > 0
    BY DEF DealtOnward
  <2>1. CASE e = f
    BY <1>4, <1>5, <1>6, <2>1
  <2>2. CASE e # f
    BY <1>5, <2>2
  <2> QED BY <2>1, <2>2
<1>8. DealtWith(evs, fvs, old, tw)
  <2> SUFFICES ASSUME NEW y \in Triggers, old.unresolved[y] > 0, ~(tw.unresolved[y] > 0)
               PROVE  fvs[y[2]].times[y[1]] > 0
    BY DEF DealtWith
  <2>1. y = x
    BY DEF TriggerRecords
  <2>2. r.times[b] = 1
    BY <1>3, <1>4
  <2>3. y[1] = b /\ y[2] = f
    BY <2>1 DEF b, f
  <2>4. fvs[f] = r
    BY <1>5
  <2>5. fvs[f].times[b] > 0
    <3> HIDE DEF r
    <3>1. fvs[f].times[b] = 1
      BY <2>2, <2>4
    <3> QED BY <3>1
  <2> QED BY <2>3, <2>5
<1> QED BY <1>7, <1>8

LEMMA TriggerIsResolvedFuture ==
  ASSUME FutureInv, TriggerIsResolved
  PROVE  Future(stack', events')
<1> DEFINE s == Pop
           i == n - 2
           x == Top.trigger
           old == stack[i].triggers
           tw == PostResolutionUpdate(old, x)
           g == Retriggered(stack[i], tw)
           t == stack'
<1>1. /\ PipelineInv /\ AtStep("resolver", "done") /\ Top.role = "trigger" /\ stack # <<>>
      /\ Top.kind = "resolver"
  BY DEF TriggerIsResolved, FutureInv, HistoryInv, AtStep
<1>2. /\ stack \in Seq(Frames) /\ events \in [EventIds -> EventRecords] /\ n = Len(stack)
      /\ Fits(stack, current) /\ Future(stack, events) /\ History(stack, events)
  BY <1>1 DEF PipelineInv, Types, StackFits, n, FutureInv, HistoryInv
<1>3. /\ s \in Seq(Frames) /\ Len(s) = n - 1 /\ \A j \in 1 .. n - 1 : s[j] = stack[j]
  BY <1>1, PoppedResolverFits
<1>4. /\ n \in Nat /\ i \in 1 .. n - 1 /\ i = (n - 1) - 1 /\ x \in Triggers
      /\ stack[i] \in Windows /\ stack[i].kind = "window" /\ stack[i].step = "cleanup"
      /\ stack[i].mode = "resolves" /\ stack[n - 1].kind = "triggers"
      /\ old \in TriggerWindows /\ old.unresolved[x] > 0
  BY <1>1, ResolvedTriggerOnTop
<1>5. t \in Seq(Frames)
  <2>1. PipelineInv'
    BY <1>1, TriggerIsResolvedKeeps
  <2> QED BY <2>1 DEF PipelineInv, Types
<1>6. CASE ~Top.resolutionCommitted
  <2>1. events' = events /\ stack' = SubSeq(stack, 1, Len(stack) - 1)
    BY <1>2, <1>6 DEF TriggerIsResolved, Pop
  <2>2. Live(Top) = {}
    BY <1>1 DEF Live
  <2>3. ASSUME NEW u, u = SubSeq(stack, 1, Len(stack) - 1) PROVE Future(u, events)
    BY <1>1, <2>2, <2>3, PoppedCalmly
  <2> QED BY <2>1, <2>3
<1>7. CASE Top.resolutionCommitted
  <2>1. /\ t = [s EXCEPT ![i].triggers = tw]
        /\ events' = [events EXCEPT ![x[2]].times[x[1]] = IF @ < 2 THEN @ + 1 ELSE @]
    BY <1>7 DEF TriggerIsResolved
  <2>2. WindowAt(stack, i) /\ old.unresolved[x] > 0 /\ x \in Triggers
    BY <1>2, <1>4 DEF WindowAt
  <2>3. events[x[2]].times[x[1]] = 0
    <3>1. SeenBy(stack[i], events)
      BY <1>2, <2>2 DEF History, SeenOnce, WindowAt
    <3> QED BY <2>2, <3>1 DEF SeenBy
  <2> HIDE DEF s, x, old, t
  <2>4. /\ tw \in TriggerWindows /\ tw.seen = old.seen /\ tw.missed = old.missed
        /\ tw.triggering = old.triggering
        /\ tw.unresolved = [old.unresolved EXCEPT ![x] = @ - 1]
    BY <1>4, PostResolutionUpdateTyped
  <2> HIDE DEF tw
  <2>5. g \in Frames
    BY <1>4, <2>4, RetriggeredWindow DEF Frames
  <2>6. t = [s EXCEPT ![i] = g]
    <3>1. s[i] = stack[i]
      BY <1>3, <1>4
    <3> QED BY <2>1, <3>1 DEF Retriggered
  <2> HIDE DEF i, g
  <2>7. /\ Len(t) = n - 1 /\ t[i] = g /\ \A j \in 1 .. n - 1 : j # i => t[j] = stack[j]
    <3>1. i \in 1 .. Len(s)
      BY <1>3, <1>4
    <3>2. Len(t) = Len(s) /\ t[i] = g /\ \A j \in 1 .. Len(s) : j # i => t[j] = s[j]
      BY <1>3, <2>5, <2>6, <3>1, FrameReplaced
    <3> QED BY <1>3, <3>2
  <2>8. i \in Nat /\ i + 1 = n - 1 /\ i < n - 1 /\ i + 1 # i
    BY <1>4
  <2>9. TriggersDealt(stack, t, i, tw)
    <3>1. \A j \in i + 1 .. Len(stack) : j = n - 1 \/ j = n
      BY <1>2, <1>4, <2>8
    <3>2. stack[n].kind = "resolver"
      BY <1>1 DEF Top
    <3>3. \A j \in i + 1 .. Len(stack) : stack[j].kind # "window"
      BY <1>4, <3>1, <3>2
    <3>4. t[n - 1] = stack[n - 1]
      BY <1>4, <2>7, <2>8
    <3>5. \A j \in i + 1 .. Len(t) : j = n - 1
      BY <1>4, <2>7, <2>8
    <3>6. \A j \in i + 1 .. Len(t) : t[j].kind # "window"
      BY <1>4, <3>4, <3>5
    <3>7. \A j \in 1 .. i - 1 : t[j] = stack[j]
      BY <1>4, <2>7, <2>8
    <3>8. i < Len(stack) /\ stack[i + 1].kind = "triggers"
      BY <1>2, <1>4, <2>8
    <3>9. i <= Len(t) /\ i # Len(t) /\ t[i + 1].kind = "triggers"
      BY <1>4, <2>7, <2>8, <3>4
    <3> QED BY <1>4, <1>5, <2>2, <2>7, <3>3, <3>6, <3>7, <3>8, <3>9 DEF TriggersDealt, g
  <2>10. old \in TriggerRecords /\ tw \in TriggerRecords
    BY <1>4, <2>4 DEF TriggerWindows
  <2>11. ASSUME NEW fvs, fvs = events' PROVE Future(t, fvs)
    <3>1. fvs = [events EXCEPT ![x[2]].times[x[1]] = IF @ < 2 THEN @ + 1 ELSE @]
      BY <2>1, <2>11
    <3>2. DealtOnward(events, fvs) /\ DealtWith(events, fvs, old, tw)
      BY <1>2, <2>2, <2>3, <2>4, <2>10, <3>1, ResolvedIsDealtWith
    <3>3. /\ DealtWith(events, fvs, stack[i].triggers, tw)
          /\ tw.seen = stack[i].triggers.seen /\ tw.missed = stack[i].triggers.missed
          /\ tw.triggering = stack[i].triggers.triggering
      BY <2>4, <3>2 DEF old
    <3> QED BY <1>2, <1>5, <2>4, <2>9, <3>2, <3>3, OwnerFuture
  <2> QED BY <2>11 DEF t
<1> QED BY <1>6, <1>7

-----------------------------------------------------------------------------
(* The invariant of the future and what follows from it *)

LEMMA InitFuture ==
  ASSUME TriggerWindowInit
  PROVE  FutureInv
<1>1. HistoryInv
  BY InitHistory
<1>2. stack = <<>> /\ Len(stack) = 0 /\ \A e \in EventIds : events[e] = UnusedEvent
  BY DEF TriggerWindowInit
<1>3. UnusedEvent.status = "unused"
  BY DEF UnusedEvent, NewEvent
<1>4. \A e \in EventIds : events[e].status = "unused"
  BY <1>2, <1>3
<1>5. Paced(stack, events) /\ MissedMatch(stack, events)
  BY <1>2 DEF Paced, MissedMatch, MissedIn
<1>6. Placed(stack, events) /\ Dealt(stack, events)
  BY <1>4 DEF Placed, Dealt
<1> QED BY <1>1, <1>5, <1>6 DEF FutureInv, Future

LEMMA OpenOuterWindowFuture ==
  ASSUME FutureInv, NEW k \in 1 .. MaxSimultaneous, NEW listeners \in [1 .. k -> Listening],
         OpenOuterWindow(listeners)
  PROVE  Future(stack', events')
<1> DEFINE opened == [e \in DOMAIN listeners |-> e]
           w == EventWindow(opened, "resolves", "resolves", "none", <<>>)
           t == stack'
           fvs == events'
<1>1. /\ DOMAIN listeners = 1 .. k /\ k \in Nat /\ 1 .. k \subseteq EventIds
  BY BoundsAssumption DEF EventIds
<1>2. opened \in Seq(EventIds) /\ ToSet(opened) = 1 .. k
  BY <1>1 DEF ToSet
<1>3. t = <<w>>
  BY DEF OpenOuterWindow
<1>4. \A l : NewEvent(l).status = "created" /\ NewEvent(l).due = {}
  BY DEF NewEvent
<1>5. UnusedEvent.status = "unused"
  BY DEF UnusedEvent, NewEvent
<1>6. /\ \A e \in 1 .. k : fvs[e] = NewEvent(listeners[e])
      /\ \A e \in EventIds : e \notin 1 .. k => fvs[e] = UnusedEvent
  BY <1>1 DEF OpenOuterWindow
<1> HIDE DEF opened, t, fvs
<1>7. /\ \A e \in 1 .. k : fvs[e].status = "created" /\ fvs[e].due = {}
      /\ \A e \in EventIds : e \notin 1 .. k => fvs[e].status = "unused"
  BY <1>4, <1>5, <1>6
<1>8. /\ w.kind = "window" /\ NewOnTop(w, fvs) /\ Live(w) = 1 .. k
  <2>1. "resolves" \in Modes /\ "none" \in SubSteps /\ <<>> \in Triggers \cup {<<>>}
    BY DEF Modes, SubSteps
  <2>2. \A e \in ToSet(opened) : fvs[e].status # "unused"
    BY <1>2, <1>7
  <2>3. w = EventWindow(opened, "resolves", "resolves", "none", <<>>)
    OBVIOUS
  <2> HIDE DEF w
  <2>4. w.kind = "window" /\ NewOnTop(w, fvs) /\ Live(w) = ToSet(opened)
    <3> DEFINE none == "none"
               nothing == <<>>
    <3>1. none \in SubSteps /\ nothing \in Triggers \cup {<<>>} /\ none = "none"
      BY <2>1
    <3>2. w = EventWindow(opened, "resolves", "resolves", none, nothing)
      BY <2>3
    <3> HIDE DEF none, nothing
    <3> QED BY <1>2, <2>1, <2>2, <3>1, <3>2, EventWindowBegins
  <2> QED BY <1>2, <2>4
<1> HIDE DEF w
<1>9. Len(t) = 1 /\ t[1] = w /\ \A i \in 1 .. Len(t) : i = 1 /\ i = Len(t)
  BY <1>3
<1>10. Orderly(w, fvs) /\ Rests(w, fvs) /\ ~Emitted(w) /\ w.triggers.seen = {} /\ w.triggers.missed = {}
  BY <1>8 DEF NewOnTop
<1>11. Paced(t, fvs)
  BY <1>9, <1>10 DEF Paced, Adjacent, Tended
<1>12. Placed(t, fvs)
  <2> SUFFICES ASSUME NEW e \in EventIds, fvs[e].status = "created"
               PROVE  HasFuture(t, e)
    BY DEF Placed
  <2>1. e \in 1 .. k
    BY <1>7
  <2>2. 1 \in 1 .. Len(t) /\ e \in Live(t[1])
    BY <1>8, <1>9, <2>1
  <2> QED BY <2>2 DEF HasFuture
<1>13. Dealt(t, fvs)
  BY <1>7 DEF Dealt
<1>14. MissedMatch(t, fvs)
  BY <1>9, <1>10 DEF MissedMatch, MissedIn
<1>15. Future(t, fvs)
  BY <1>11, <1>12, <1>13, <1>14 DEF Future
<1> QED BY <1>15 DEF t, fvs

LEMMA FutureKept ==
  ASSUME FutureInv, [TriggerWindowNext]_vars
  PROVE  Future(stack', events')
<1>1. CASE WindowStep
  <2>1. CASE SetParentEventWindow
    BY <2>1, SetParentEventWindowFuture
  <2>2. CASE EmitEvents
    BY <2>2, EmitEventsFuture
  <2>3. CASE \E e \in EventIds : EventPrevented(e) \/ EventFizzles(e) \/ EventResolves(e)
    BY <2>3, EventPreventedFuture, EventFizzlesFuture, EventResolvesFuture
  <2>4. CASE \E e \in EventIds, listeners \in Listening :
               \/ EventReplaced(e, listeners) \/ EventDefeatsCard(e, listeners)
               \/ \E modes \in NestedModes : EventOpensWindow(e, modes, listeners)
    BY <2>4, EventReplacedFuture, EventDefeatsCardFuture, EventOpensWindowFuture
  <2>5. CASE \E e \in EventIds, a \in Unsteady :
               EventChangesEffect(e, a) \/ EventBlanksCard(e, a)
    BY <2>5, EventChangesEffectFuture, EventBlanksCardFuture
  <2>6. CASE QueuedWindow \/ InitiatedAbilityHasNoEvent
    BY <2>6, QueuedWindowFuture, InitiatedAbilityHasNoEventFuture
  <2>7. CASE \E listeners \in Listening :
               InitiatedAbilityActs(listeners) \/ GameStateDefeatsCard(listeners)
    BY <2>7, InitiatedAbilityActsFuture, GameStateDefeatsCardFuture
  <2>8. CASE \E a \in Unsteady : GameStateChangesCard(a)
    BY <2>8, GameStateChangesCardFuture
  <2>9. CASE PostResolutionTriggers \/ ResolveSubwindowEvents \/ ResolveSubAbilityStep
    BY <2>9, PostResolutionTriggersFuture, ResolveSubwindowEventsFuture,
       ResolveSubAbilityStepFuture
  <2>10. CASE ResolveTriggersIfNecessary \/ Cleanup
    BY <2>10, ResolveTriggersIfNecessaryFuture, CleanupFuture
  <2> QED BY <1>1, <2>1, <2>2, <2>3, <2>4, <2>5, <2>6, <2>7, <2>8, <2>9, <2>10
          DEF WindowStep
<1>2. CASE AbilityStep
  BY <1>2, StartResolvingFuture, ResolveNextTriggerFuture,
     OpenInitiateAbilityEventWindowFuture, AbilityIsCancelledFuture,
     TriggerIsResolvedFuture, SubStepIsResolvedFuture DEF AbilityStep
<1>3. ASSUME NEW k \in 1 .. MaxSimultaneous, NEW listeners \in [1 .. k -> Listening],
             OpenOuterWindow(listeners)
      PROVE  Future(stack', events')
  BY <1>3, OpenOuterWindowFuture
<1>4. CASE UNCHANGED vars
  BY <1>4 DEF vars, FutureInv
<1> QED BY <1>1, <1>2, <1>3, <1>4 DEF TriggerWindowNext, PipelineStep

\* An event that has not happened is among those a window on the stack will come to, and
\* a due trigger waits until it is resolved or dropped.
THEOREM FutureHolds == TriggerWindowSpec => []FutureInv
<1>1. TriggerWindowInit => FutureInv
  BY InitFuture
<1>2. FutureInv /\ [TriggerWindowNext]_vars => FutureInv'
  BY FutureKept, HistoryKept, StepsKeep DEF FutureInv, HistoryInv
<1> QED BY <1>1, <1>2, PTL DEF TriggerWindowSpec

\* Before the next trigger is resolved, and when the pipeline is empty, all events outside
\* the windows still open have happened, and all their due triggers have been resolved,
\* declined, or dropped without any possible effect: none is lost.
THEOREM NestedTriggersComeFirst == TriggerWindowSpec => []NestedTriggersFirst
<1>1. FutureInv => NestedTriggersFirst
  <2> SUFFICES ASSUME FutureInv, NEW e \in EventIds \ (Collected \cup Held)
               PROVE  events[e].status # "created" /\ Settled(e)
    BY DEF NestedTriggersFirst
  <2>1. /\ HistoryInv /\ stack \in Seq(Frames) /\ events \in [EventIds -> EventRecords]
        /\ Future(stack, events) /\ History(stack, events)
    BY DEF FutureInv, HistoryInv, PipelineInv, Types
  <2>2. \A i : WindowAt(stack, i) => i \in WindowIndexes
    BY <2>1 DEF WindowAt, WindowIndexes
  <2>3. ASSUME events[e].status = "created" PROVE FALSE
    <3>1. PICK i \in 1 .. Len(stack) : e \in Live(stack[i])
      BY <2>1, <2>3 DEF Future, Placed, HasFuture
    <3>2. stack[i].kind = "window" /\ WindowAt(stack, i) /\ i \in WindowIndexes
      BY <2>2, <3>1 DEF Live, WindowAt
    <3>3. e \notin ToSet(stack[i].events) /\ e \notin ToSet(stack[i].subwindow)
          /\ e \notin {q.event : q \in ToSet(stack[i].queued)}
      BY <3>2 DEF Held
    <3>4. e \notin Sub(stack[i])
      BY <3>3 DEF Sub
    <3>5. e \notin Queue(stack[i])
      BY <3>3 DEF Queue, ToSet
    <3>6. e \in ToSet(stack[i].resolved)
      BY <3>1, <3>3, <3>4, <3>5 DEF Live, Own
    <3>7. events[e].status = "resolved"
      BY <2>1, <3>2, <3>6 DEF Future, Paced, Orderly
    <3> QED BY <2>3, <3>7
  <2>4. ASSUME events[e].status = "resolved", NEW a \in events[e].due
        PROVE  events[e].times[a] > 0 \/ a \in events[e].excused
    <3> SUFFICES ASSUME Waits(stack, <<a, e>>) PROVE FALSE
      BY <2>1, <2>4 DEF Future, Dealt
    <3> DEFINE x == <<a, e>>
    <3>1. x \in Triggers /\ x[2] = e
      BY <2>1 DEF Triggers, EventRecords
    <3>2. PICK i \in 1 .. Len(stack) : WindowAt(stack, i) /\ stack[i].triggers.unresolved[x] > 0
      BY DEF Waits
    <3> HIDE DEF x
    <3>3. x \in stack[i].triggers.seen
      BY <2>1, <3>1, <3>2 DEF History, SeenOnce, SeenBy
    <3>4. e \in stack[i].triggers.triggering
      BY <2>1, <3>1, <3>2, <3>3 DEF Future, Paced, Tended
    <3>5. i \in WindowIndexes
      BY <2>2, <3>2
    <3> QED BY <3>4, <3>5 DEF Collected
  <2> QED BY <2>3, <2>4 DEF Settled
<1> QED BY <1>1, FutureHolds, PTL

\* The defeats an event brings about have happened before the sub-step of its ability and
\* before its triggers, and at the latest when its window closes.
THEOREM SubwindowsComeFirst == TriggerWindowSpec => []SubwindowEventsFirst
<1>1. FutureInv => SubwindowEventsFirst
  <2> SUFFICES ASSUME FutureInv, NEW i \in WindowIndexes,
                      IF i = n THEN Top.step = "cleanup" ELSE stack[i + 1].kind # "window",
                      NEW e \in ToSet(stack[i].subwindow)
               PROVE  events[e].status # "created"
    BY DEF SubwindowEventsFirst
  <2>1. HistoryInv /\ stack \in Seq(Frames) /\ Len(stack) = n /\ n \in Nat /\ Future(stack, events)
    BY DEF FutureInv, HistoryInv, PipelineInv, Types, n
  <2>2. i \in 1 .. Len(stack) /\ WindowAt(stack, i)
    BY <2>1, WindowOfIndex
  <2>3. Adjacent(stack, i, events)
    BY <2>1, <2>2 DEF Future, Paced
  <2>4. CASE i = n
    <3>1. stack[i].step = "cleanup" /\ Rests(stack[i], events)
      BY <2>1, <2>3, <2>4 DEF Adjacent, Top
    <3>2. "cleanup" \notin SubwindowSteps
      BY DEF SubwindowSteps, PreSteps
    <3> QED BY <3>1, <3>2 DEF Rests
  <2>5. CASE i # n
    <3>1. i < Len(stack) /\ stack[i + 1].kind # "window" /\ i + 1 \in 1 .. Len(stack)
      BY <2>1, <2>2, <2>5
    <3>2. Bears(stack[i], stack[i + 1], events)
      BY <2>3, <3>1 DEF Adjacent
    <3>3. CASE stack[i].step \notin SubwindowSteps
      BY <3>1, <3>2, <3>3 DEF Bears
    <3>4. CASE stack[i].step \in SubwindowSteps
      <4>1. stack[i + 1].kind # "triggers"
        <5>1. ASSUME stack[i + 1].kind = "triggers" PROVE FALSE
          <6>1. TriggersFit(stack, i + 1)
            BY <2>1, <3>1, <5>1 DEF HistoryInv, PipelineInv, StackFits, Fits, FitsAt
          <6>2. stack[i].step = "cleanup"
            BY <2>2, <6>1 DEF TriggersFit
          <6> QED BY <3>4, <6>2 DEF SubwindowSteps, PreSteps
        <5> QED BY <5>1
      <4>2. stack[i + 1].kind = "resolver"
        <5>1. stack[i + 1] \in Frames
          BY <2>1, <3>1
        <5> QED BY <3>1, <4>1, <5>1, FramesOfKinds
      <4>3. stack[i].subwindow = <<>>
        BY <3>2, <3>4, <4>2 DEF Bears
      <4> QED BY <4>3 DEF ToSet
    <3> QED BY <3>3, <3>4
  <2> QED BY <2>4, <2>5
<1> QED BY <1>1, FutureHolds, PTL
=============================================================================
