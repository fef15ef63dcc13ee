\* Open and pinned endpoints of both scopes, with failing i/o.
SPECIFICATION FairSpec
CONSTANTS
  NULL = NULL
  GET = GET
  get = get
  POST = POST
  junk = junk
  Name = {"v", "x"}
  Word <- MCWord
  Canonical <- MCCanonical
  Endpoints <- MCEndpoints
  Asks <- MCAsks
  OtherScript <- MCOtherScript
  IoErrors = TRUE
INVARIANT TypeOK
INVARIANT ReportIsBinding
INVARIANT Confined
INVARIANT NothingRepaired
INVARIANT MintIsAnswered
PROPERTY MintEnds
PROPERTY TaskEnds
