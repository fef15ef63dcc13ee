\* What capcurl takes for a pinned endpoint, at one that pins nothing.
SPECIFICATION Spec
CONSTANTS
  NULL = NULL
  GET = GET
  get = get
  POST = POST
  junk = junk
  Name = {"v", "x"}
  Word <- MCWord
  Canonical <- MCCanonical
  Endpoints <- MCOpen
  Asks <- MCAskedWords
  OtherScript <- MCOtherScript
  IoErrors = FALSE
INVARIANT OnlyPinnedDiffers
