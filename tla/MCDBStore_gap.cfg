SPECIFICATION Spec
CONSTANTS
  Keys = {1, 2, 3}
  kNumLevels = 4
  kMaxMemCompactLevel = 2
  kL0_CompactionTrigger = 2
  kL0_StopWritesTrigger = 2
  MaxFileSize = 4
  GrandParentLimit = 4
  ExpandedLimit = 8
  LevelBase = 3
  LevelGrowth = 2
  write_buffer_size = 1
  AllowedSeeks = 1
  Deletions = {FALSE}
  ManualRanges <- WholeRange
  Budgets <- FiveWrites
CHECK_DEADLOCK FALSE
INVARIANT LevelsDisjoint
