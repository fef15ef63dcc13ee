\* Streams that pass every limit, failing I/O, and abandoned descriptors.
SPECIFICATION FairSpec
CONSTANTS
  NULL = NULL
  Holder = {h1}
  Method <- MCMethod
  Canonical <- MCCanonical
  Target <- MCTarget
  Header <- MCHeader
  ResponseHeader <- MCResponseHeader
  Octet = {0}
  Bindings <- MCBindings
  grant <- MCGrant
  OriginResponse <- MCOriginResponse
  HolderUnit <- MCEndlessUnit
  MAX_HEAD_LEN = 2
  CHUNK_FRAMING = 5
  CHUNKED_SLACK = 1
  REFUSAL_LEN = 1
  Capacity = 2
  READ = 1
  MaxWrites = 7
  IoErrors = TRUE
INVARIANTS
  BufferBounded
PROPERTIES
  ImplementsCapability
  AbandonedTaskEnds
