SPECIFICATION Spec
CONSTANTS
  Key = {k1, k2, k3, k4}
  Value = {v1, v2}
  NULL = NULL
  Junk = Junk
  Lost = Lost
  KVS_ARRAY_SIZE = 3
  MallocMayFail = TRUE
SYMMETRY MCSymmetry
INVARIANT TableConsistent
PROPERTY NoEntryOverwritten
