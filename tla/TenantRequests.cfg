SPECIFICATION Spec
CONSTANTS
  MaxRequests = 3
  MaxConcurrent = 2
  MaxFaults = 2
  MaxLoad = 3
INVARIANTS
  TypeOK
  RequestsAreAtomic
  AnsweredMeansCommitted
  ConsentIsOnRecord
  PublishedVersionExists
  MutationsAreAudited
PROPERTIES
  EndedStaysEnded
  RequestsEnd
CHECK_DEADLOCK FALSE
