SPECIFICATION Spec
CONSTANTS
  Documents = {d1, d2}
  Contents = {c1, c2}
  NoDoc = NoDoc
  Dims = {2, 3}
  Stagers = {s1, s2}
  NoFile = NoFile
  NoManifest = NoManifest
  MaxCalls = 4
  MaxFaults = 1
  MaxRestarts = 3
INVARIANTS AckedOnDisk  SearchAnswers
CHECK_DEADLOCK FALSE
SYMMETRY Symmetry
