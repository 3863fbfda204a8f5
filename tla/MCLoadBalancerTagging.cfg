SPECIFICATION FairSpec
CONSTANTS
  u1 = u1
  u2 = u2
  p1 = p1
  p2 = p2
  p3 = p3
  r1 = r1
  r2 = r2
  r3 = r3
  r4 = r4
  None = None
  Unsupported = Unsupported
  Named = Named
  Targets <- MCTargets
  Specs <- MCSpecsGood
  UserIPs <- MCUserIPs
  PoolIPs <- MCPoolIPs
  RuleIds <- MCRuleIds
  Operator = {}
  FaultPoints = {"tagRule"}
  MaxFaults = 1
  MaxEdits = 0
CHECK_DEADLOCK FALSE
PROPERTIES WantedIsEnsured
