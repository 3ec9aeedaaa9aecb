CONSTANTS
  MaxProjects = 2
  None = None
  MaxMishaps = 1
  MaxFlights = 1
SPECIFICATION FairSpec
CHECK_DEADLOCK FALSE
INVARIANTS
  OneMishapHeals
  KeysKeepUp
PROPERTIES
  WelcomeHandsOff
  WelcomeEnds
  SettlesOnChoice
