SPECIFICATION BriefSpec
CONSTANTS
  Private <- MCPrivate
  Public <- MCPublic
  Threshold <- MCThreshold
  SpiFallback = TRUE
  LateralPorts <- MCLateralPorts
  FixedPorts <- MCFixedPorts
  MergeWindow = 300
  Overlap = 70
  MaxContext = 2
  Themes <- MCThemes
  MayFail <- MCMayFail
  MaxMembers = 2
  MaxRows = 1
  GroupGap = 300
  Cluster <- MCCluster
CHECK_DEADLOCK FALSE
INVARIANT SignalsToldOnce EventsAccounted SeverityFollowsEvents EligibleRepresented UrgentShown AssetsAgree BlockedAccounted
