SPECIFICATION Spec
CONSTANTS
  j1 = j1
  j2 = j2
  f1 = f1
  f2 = f2
  w1 = w1
  v1 = v1
  v2 = v2
  a = a
  b = b
  Jobs = {j1, j2}
  SourcesOf <- FilesAndWeb
  Web = {w1}
  Versions = {v1, v2}
  ChunksOf <- TwoVersions
  MaxPages = 2
  TopK = 2
  MaxRuns = 2
  MaxEdits = 1
INVARIANTS SearchIsExact DocumentsAreWhole
CHECK_DEADLOCK FALSE
