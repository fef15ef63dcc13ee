\* An origin that sends the marker of a refusal itself.
SPECIFICATION Spec
CONSTANTS
  NULL = NULL
  Client = client
  Holder = {client}
  ClientHead <- MCPlainHead
  Bulky <- MCBulky
  Method <- MCMethod
  Canonical <- MCCanonical
  Target <- MCTarget
  Header <- MCHeader
  ResponseHeader <- MCResponseHeader
  Octet = {0}
  Bindings <- MCBindings
  grant <- MCGrant
  OriginResponse <- MCMarkedOrigin
  MAX_HEAD_LEN = 2
  CHUNK_FRAMING = 5
  CHUNKED_SLACK = 4
  REFUSAL_LEN = 1
  Capacity = 3
  READ = 2
  IoErrors = FALSE
INVARIANTS
  MarkerIsTheDaemons
