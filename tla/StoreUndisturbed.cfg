SPECIFICATION Spec
CONSTANTS
  Handler = {h1}
  Controlled = TRUE
  Fallback = TRUE
  Requeuing = FALSE
  Size = {1, 2}
  MaxSaves = 3
  MaxFaults = 0
INVARIANTS
  ReadableUndisturbed
