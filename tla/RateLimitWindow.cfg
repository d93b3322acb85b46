SPECIFICATION LimiterSpec
CONSTANTS
  Limit = 2
  Window = 2
PROPERTY
  OnlyBusyTenantsRefused
