SPECIFICATION TriggerWindowSpec
CONSTANTS
  p1 = p1
  p2 = p2
  a1 = a1
  b1 = b1
  Players <- TwoPlayers
  Abilities <- TwoAbilities
  Controller <- Controllers
  SubStepOf <- SubStepsOfAll
  Unsteady <- OneUnsteady
  Listening <- SomeListening
  MaxEvents = 3
  MaxSimultaneous = 2
  MaxChanges = 1
INVARIANTS
  TriggerWindowTypeOK
  TriggeredOnceIfDue
  NestedTriggersFirst
  OnePlayerFirst
  SubwindowEventsFirst
PROPERTIES
  StartedGetNoTriggers
  WindowsClose
