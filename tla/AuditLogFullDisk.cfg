\* A disk that may be full when the temporary file is flushed.
CONSTANTS
  MaxEntries = 2
  Keep = 1
  MaxLog = 4
  MaxDay = 3
  Faults = {"flush"}
SPECIFICATION AuditSpec
INVARIANT Retained
