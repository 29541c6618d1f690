SPECIFICATION Spec
CONSTANTS
  Key = {1, 2, 3, 4, 5, 6, 7, 8, 9}
  Value = {v1, v2}
  v1 = v1
  v2 = v2
  NULL = NULL
  Lost = Lost
  Workload <- MCWorkload
VIEW Shape
INVARIANT WellFormed
PROPERTY ImplementsKvMap
