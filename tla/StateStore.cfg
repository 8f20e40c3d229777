SPECIFICATION FairSpec
CONSTANTS
  Handler = {h1}
  Controlled = TRUE
  Fallback = TRUE
  Requeuing = TRUE
  Size = {1, 2}
  MaxSaves = 2
  MaxFaults = 2
INVARIANTS
  TypeOK
  DamageExplained
  MetadataAgrees
  StatusNeverAhead
PROPERTIES
  StatusFollows
  UnreadableIsKept
  ServedOrGone
