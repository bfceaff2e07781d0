SPECIFICATION BriefSpec
CONSTANTS
  Private <- MCPrivate
  Public <- MCPublic
  Threshold <- MCThreshold
  SpiFallback = TRUE
  LateralPorts <- MCLateralPorts
  FixedPorts <- MCFixedPorts
  MergeWindow = 300
  Overlap = 70
  MaxContext = 2
  Themes <- MCUndated
  MayFail <- MCMayFail
  MaxMembers = 2
  MaxRows = 5
  GroupGap = 300
  Cluster <- MCCluster
CHECK_DEADLOCK FALSE
INVARIANT RejectedLineHarmless
