SPECIFICATION Spec
CONSTANTS
  CHUNK_SIZE = 4
  Limit = 2
  MaxBytes = 8
  MaxFiles = 2
INVARIANTS
  TailIsOfFile
