SPECIFICATION FairSpec
CONSTANTS
  GemmComputeResources <- MCGemmComputeResources
  StagePolicies <- MCStagePolicies
  Resource <- MCResource
  Jobs <- MCJobs
INVARIANTS
  DataReady
  OneHolder
  Complete
CHECK_DEADLOCK FALSE
