\* The shipped client, every mistake its caller can make.
SPECIFICATION FairSpec
CONSTANTS
  NULL = NULL
  Client = client
  Holder = {client}
  ClientHead <- MCClientHead
  Bulky <- MCBulky
  Method <- MCMethod
  Canonical <- MCCanonical
  Target <- MCTarget
  Header <- MCHeader
  ResponseHeader <- MCResponseHeader
  Octet = {0, 1}
  Bindings <- MCBindings
  grant <- MCGrant
  OriginResponse <- MCOriginResponse
  MAX_HEAD_LEN = 2
  CHUNK_FRAMING = 5
  CHUNKED_SLACK = 4
  REFUSAL_LEN = 1
  Capacity = 3
  READ = 2
  IoErrors = FALSE
INVARIANTS
  TypeOK
  WholeAnswer
  RoundTrip
  RefusalIsJust
  
  ZeroIsAnAnswer
PROPERTIES
  ImplementsHolders
  ClientFinishes
  TaskFinishes
