SPECIFICATION Spec
CONSTANTS
  e1 = e1  e2 = e2  s1 = s1  s2 = s2  r1 = r1  r2 = r2  ev1 = ev1  ev2 = ev2
  Nobody = Nobody
  Engines = {e1, e2}
  Schedulers = {s1, s2}
  Events = {ev1}
  Runs = {r1}
  Versions <- ThreeVersions
  FirstVersion = 1
  StepsOf <- ReminderEdited
  PayloadOf <- PlainPayload
  Batch = 2
  Copies = 2
  MaxNotifications = 2
  MaxEdits = 2
  MaxFaults = 1
SYMMETRY Symmetry
INVARIANTS
  RunningRunsWake
  AcceptedEventsKept
PROPERTIES
  ImplementsLifecycle
CHECK_DEADLOCK FALSE
