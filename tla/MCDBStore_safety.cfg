SPECIFICATION Spec
CONSTANTS
  Keys = {1, 2}
  kNumLevels = 4
  kMaxMemCompactLevel = 2
  kL0_CompactionTrigger = 1
  kL0_StopWritesTrigger = 2
  MaxFileSize = 4
  GrandParentLimit = 1
  ExpandedLimit = 4
  LevelBase = 1
  LevelGrowth = 2
  write_buffer_size = 1
  AllowedSeeks = 1
  Deletions = {TRUE, FALSE}
  ManualRanges <- WholeRange
  Budgets <- Mixed
CHECK_DEADLOCK FALSE
INVARIANTS TypeOK NewerAbove LevelsDisjoint NeededFilesExist WorkIsScheduled
PROPERTY ImplementsKVStore
