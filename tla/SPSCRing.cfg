CONSTANTS
  Item = {a, b}
  NoItem = NoItem
  Capacity = 4
  Laps = 2
  MaxCounts <- MCMaxCounts
SPECIFICATION Spec
INVARIANTS TypeOK Positions NoSlotShared
PROPERTY RefinesFifo
