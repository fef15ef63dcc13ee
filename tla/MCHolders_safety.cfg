\* Safety: two holders, one of every kind of unit, no failing I/O.
SPECIFICATION Spec
CONSTANTS
  NULL = NULL
  Holder = {h1, h2}
  Method <- MCMethod
  Canonical <- MCCanonical
  Target <- MCTarget
  Header <- MCHeader
  ResponseHeader <- MCResponseHeader
  Octet = {0}
  Bindings <- MCBindings
  grant <- MCGrant
  OriginResponse <- MCOriginResponse
  HolderUnit <- MCHolderUnit
  MAX_HEAD_LEN = 2
  CHUNK_FRAMING = 5
  CHUNKED_SLACK = 4
  REFUSAL_LEN = 1
  Capacity = 2
  READ = 2
  MaxWrites = 3
  IoErrors = FALSE
SYMMETRY MCSymmetry
INVARIANTS
  TypeOK
  OneRequestConveyed
  RefusalLeavesOriginAlone
  OneAnswer
  NeverSilent
PROPERTIES
  ImplementsCapability
