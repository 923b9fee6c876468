\* Logs of up to 4 rows; pools of 3 rows, tables of 2 entries.
CONSTANTS
  Rows <- LogRows
  PoolCapacity = 3
  MaxCanIds = 2
  MaxChannels = 2
  MaxDirections = 1
  MaxRows = 4
SPECIFICATION Spec
INVARIANTS
  ReadsAPrefix
  EveryRowIndexed
  EntriesAreDisjoint
CHECK_DEADLOCK FALSE
