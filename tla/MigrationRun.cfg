SPECIFICATION Spec
CONSTANTS
  Keys = {1, 2, 3}
  Old = Old
  New = New
  Gone = Gone
  NoProgress = NoProgress
  BatchSize = 2
  MaxRuns = 2
  MaxChanges = 2
CHECK_DEADLOCK FALSE
INVARIANTS
    
    ResumeInv
PROPERTIES
    ReportIsTrue
    CommandEnds
