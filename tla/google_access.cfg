SPECIFICATION Spec
CONSTANTS
  Candidates = {c1, c2}
  Readers = {r1, r2}
  Checkers = {h1}
  Editors = {e1, e2}
  MaxGeneration = 3
  None = None
SYMMETRY Symmetry
INVARIANTS
  CredentialInStep
PROPERTIES
  RowKept
CHECK_DEADLOCK FALSE
