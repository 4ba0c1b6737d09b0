SPECIFICATION PartsSpec
CONSTANTS
  kBlockSize = 6
  kHeaderSize = 2
  RecordSizes = {0, 9}
  MaxRecords = 3
  MaxLogFaults = 1
  kNumShards = 1
  InitialLength = 1
  Capacity = 2
  CacheKeys = {0, 1, 2}
  Charges = {1, 2}
  CacheThreads = {1, 2}
  MaxHandles = 3
  UserKeys = {1, 2}
  kMaxHeight = 2
  ArenaBlockSize = 16
  Align = 2
  EntrySize = 3
  NodeSize = 2
  PointerSize = 1
  MaxEntries = 3
  MaxBatch = 2
  MaxLookups = 2
  LockThreads = {1, 2, 3}
  ProcessOf <- TwoProcesses
  FileThreads = {1, 2, 3}
  MmapLimit = 1
  FdLimit = 1
  MaxScheduled = 2
  DescBudgets <- MCDescBudgets
  MaxByte = 2
  TableKeys <- MCTableKeys
  SeekKeys <- MCSeekKeys
  RestartInterval = 2
  BlockSize = 20
  kFilterBase = 40
  BitsPerKey = 3
  MaxTableFaults = 1
  IterKeys = {1, 2}
  NumChildren = 2
  OldEntries = 3
  NewEntries = 1
  Group = 8
  Narrow = 32
  Wide = 256
  Fixed32Size = 2
  Fixed64Size = 3
  WordBits = 2
  MaxRequired = 4
  NoValue = NoValue
  PbCases <- MCPbCases
CHECK_DEADLOCK FALSE
INVARIANTS LogReadsBack NoForgedRecords CacheConsistent MemTableSound LockExcludes EnvSound
INVARIANTS TableSound IteratorReadsSnapshot DescriptorSound CodecSound
PROPERTIES InsertMakesRoom
