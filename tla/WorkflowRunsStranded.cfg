SPECIFICATION Spec
CONSTANTS
  e1 = e1  e2 = e2  s1 = s1  s2 = s2  r1 = r1  r2 = r2  ev1 = ev1  ev2 = ev2
  Nobody = Nobody
  Engines = {e1, e2}
  Schedulers = {s1}
  Events = {ev1}
  Runs = {r1, r2}
  Versions <- OneVersion
  FirstVersion = 1
  StepsOf <- DripOnly
  PayloadOf <- PlainPayload
  Batch = 1
  Copies = 2
  MaxNotifications = 4
  MaxEdits = 0
  MaxFaults = 1
SYMMETRY Symmetry
INVARIANTS
  PausedRunsAreWokenUp
CHECK_DEADLOCK FALSE
