SPECIFICATION Spec
CONSTANTS
  t1 = t1
  t2 = t2
  t3 = t3
  Threads = {t1, t2, t3}
  BatchCount = 2
  MaxGroup = 2
  write_buffer_size = 1
  L0_CompactionTrigger = 1
  L0_SlowdownWritesTrigger = 1
  L0_StopWritesTrigger = 2
  Failures = {"append", "sync", "newfile", "build", "manifest"}
  CrashKinds = {"process", "machine"}
  MaxCalls = 3
  MaxFailures = 1
  MaxCrashes = 1
SYMMETRY ThreadSymmetry
CHECK_DEADLOCK FALSE
INVARIANTS TypeOK OneLogger BatchesAtomic AckedVisible NoLossOnProcessCrash SyncedSurvive SequenceOrder
