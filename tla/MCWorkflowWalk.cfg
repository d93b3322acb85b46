SPECIFICATION Spec
CONSTANTS
  Calls <- MCCalls
INVARIANTS
  OutcomeIsExact
  NoStepTwiceUnlessFailing
  ComparisonsAgree
PROPERTIES
  Returns
