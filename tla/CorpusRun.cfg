SPECIFICATION Spec
CONSTANTS
  t1 = t1
  t2 = t2
  Uris = {u1, u2}
  Texts = {t1, t2}
  NoText = NoText
  ChunkCount <- TextChunks
  MaxDocuments = 9
  MaxChunks = 4
  HnswThreshold = 2
  Savers = {s1, s2}
  NoFile = NoFile
  Torn = Torn
  MaxAttempts = 3
  MaxSaves = 2
  MaxFaults = 1
  MaxCrashes = 1
CHECK_DEADLOCK FALSE
SYMMETRY Symmetry
INVARIANTS
    RestartKeeps
    SavedIsOnDisk
PROPERTIES
    FileNeverGoesBack
