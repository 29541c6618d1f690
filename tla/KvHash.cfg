SPECIFICATION Spec
CONSTANTS
  Key <- MCKey
  Value = {v1, v2}
  NULL = NULL
  Lost = Lost
  MAX_TABLE_SIZE = 2
  MallocMayFail = TRUE
INVARIANTS TypeOK TableConsistent
PROPERTY ImplementsKvMap
SYMMETRY MCSymmetry
