SPECIFICATION MCSpec
CONSTANTS
  n1 = n1
  n2 = n2
  v1 = v1
  v2 = v2
  v3 = v3
  controller = controller
  None = None
  Nodes <- MCNodes
  Vms <- MCVms
  Callers <- MCCallers
  NetworkOf <- MCNetworkOf
  AssignNetworks = TRUE
  MaxChanges = 2
  MaxFaults = 1
CHECK_DEADLOCK FALSE
INVARIANTS TypeOK NetworkFirst
PROPERTIES NeverEmptied Converges
