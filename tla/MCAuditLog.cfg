SPECIFICATION AuditSpec
CONSTANTS
  Buffer = 2
  BatchSize = 2
  MaxEntries = 5
CHECK_DEADLOCK FALSE
INVARIANTS Accounted CloseFlushes
PROPERTY EntrySettles
