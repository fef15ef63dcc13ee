\* The listener and -1, and every point at which descriptors may run out.
SPECIFICATION FairSpec
CONSTANTS
  NULL = NULL
  ann = ann
  bob = bob
  sloth = sloth
  Client = {ann, bob, sloth}
  Idle = {sloth}
  Denials = {{}, {bob}}
  Refusals = {{}, {ann}}
  FdLimits = {4, 5, 6, 9}
INVARIANT TypeOK
INVARIANT ThreeEach
PROPERTY EveryoneIsAccepted
PROPERTY EveryoneIsTold
PROPERTY OneShotExits
CHECK_DEADLOCK FALSE
