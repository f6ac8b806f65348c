SPECIFICATION ClaimSpec
CONSTANTS
  Names = {n1, n2, n3}
  ListLimit = 2
  MaxChanges = 4
  MaxFaults = 2
INVARIANTS
  ToldTruly
  StraysBounded
  WholeListTried
  MovedIsSynced
CHECK_DEADLOCK FALSE
