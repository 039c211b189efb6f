CONSTANTS
  a = a
  n = n
  Messages <- MCMessages
  NoCompany = n
  MaxRps = 2
  Second = 2
SPECIFICATION FairSpec
INVARIANTS TypeOK FetchesAreLimited
PROPERTIES EveryFetchBegins FetchesAreIndependent
CHECK_DEADLOCK FALSE
