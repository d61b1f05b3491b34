SPECIFICATION Spec
CONSTANTS
  EnabledRegions <- MCEnabled
  DefaultRegions <- MCDefault
  IdleBillable = {"nat_gateways", "rds_instances", "global_accelerators"}
  Calls <- MCCalls
  StateChecked = {"nat_gateways"}
  ListDeleted = {"nat_gateways", "rds_instances"}
  gateway = gateway
  another = another
  database = database
  accelerator = accelerator
  Resources <- MCResources
  RegionOf <- MCRegionOf
  KindOf <- MCKindOf
  PageSize = 1
  NoExit = NoExit
  MaxChanges = 2
SYMMETRY GatewaySymmetry
CHECK_DEADLOCK FALSE
INVARIANTS
  CleanMeansLooked
  NothingHidesTheRest
  FindingsAreReal
