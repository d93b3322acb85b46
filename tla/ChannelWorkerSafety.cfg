SPECIFICATION Spec
CONSTANTS
  w1 = w1
  w2 = w2
  j1 = j1
  Nobody = Nobody
  Workers = {w1, w2}
  Jobs = {j1}
  Promotional = {j1}
  Channels = {"email", "sms", "whatsapp", "webhook", "inapp"}
  Providers = 2
  MaxDeliver = 3
  MaxFaults = 2
  MaxTurns = 1
INVARIANTS
  TypeOK
  AcknowledgedJobsAreDone
  DuplicateSendsBounded
  ReportsAreTrue
  FinishedJobsLeaveATrace
CHECK_DEADLOCK FALSE
