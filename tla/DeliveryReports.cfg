SPECIFICATION Spec
CONSTANTS
  Kinds = {"delivered", "bounced", "opened"}
  MaxSends = 2
  MaxCalls = 2
  MaxFaults = 1
  Addresses = {a1, a2}
  NoAddress = none
  MaxChanges = 1
INVARIANTS
  BouncesAreWhole
  ReportsAreStoredOnce
PROPERTIES
  OutcomeIsKept
  ReportsArrive
  CallbacksArrive
CHECK_DEADLOCK FALSE
