SPECIFICATION FairSpec
CONSTANTS
  Resource <- MCResource
  Jobs <- MCJobs
INVARIANTS
  TypeOK
  Exclusive
  DependenciesFirst
  IssueOrder
  NothingLost
PROPERTIES
  Earliest
  Implements
  Terminates
CHECK_DEADLOCK FALSE
