\* Every cut of every script; no limit, no body, and limits between.
SPECIFICATION Spec
CONSTANTS
  RADIX = 16
  DIGITS = 2
  SLACK = 8
  Scripts <- MCScripts
  Limits = {0, 2, 3, 255}
INVARIANT TypeOK
INVARIANT DecodesTheGrammar
INVARIANT CutsDoNotMatter
INVARIANT UnitsAgree
CHECK_DEADLOCK FALSE
