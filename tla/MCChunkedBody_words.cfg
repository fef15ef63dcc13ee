\* A size that wraps, behind a body.
SPECIFICATION Spec
CONSTANTS
  RADIX = 16
  DIGITS = 2
  SLACK = 8
  Scripts <- MCHugeScripts
  Limits = {2}
INVARIANT Answers
CHECK_DEADLOCK FALSE
