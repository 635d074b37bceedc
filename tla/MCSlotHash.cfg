\* A list of three entries over twelve slots, up to two skipped in a row.
SPECIFICATION MCSpec
CONSTANTS
  MAX_ENTRIES = 3
  Strides = {1, 2, 3}
  MaxSlot = 12
INVARIANTS
  LookupTellsAge
PROPERTIES
  LookupOnlyMovesOn
CHECK_DEADLOCK FALSE
