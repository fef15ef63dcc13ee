\* A chunked body past the cap.
SPECIFICATION Spec
CONSTANTS
  NULL = NULL
  Holder = {h1}
  Method <- MCMethod
  Canonical <- MCCanonical
  Target <- MCTarget
  Header <- MCHeader
  ResponseHeader <- MCResponseHeader
  Octet = {0}
  Bindings <- MCBindings
  grant <- MCGrant
  OriginResponse <- MCOriginResponse
  HolderUnit <- MCChunkedUnit
  MAX_HEAD_LEN = 2
  CHUNK_FRAMING = 5
  CHUNKED_SLACK = 4
  REFUSAL_LEN = 1
  Capacity = 2
  READ = 2
  MaxWrites = 4
  IoErrors = FALSE
INVARIANTS
  CapIsReportedAsCap
