SPECIFICATION FairSpec
CONSTANTS
  w1 = w1
  w2 = w2
  j1 = j1
  Nobody = Nobody
  Workers = {w1, w2}
  Jobs = {j1}
  Promotional = {j1}
  Channels = {"email", "sms", "whatsapp", "webhook", "inapp"}
  Providers = 1
  MaxDeliver = 2
  MaxFaults = 1
  MaxTurns = 2
PROPERTIES
  JobsSettle
  SuppressionHolds
  PromotionalsAreScreened
CHECK_DEADLOCK FALSE
