CONSTANTS
  r1 = r1
  r2 = r2
  c1 = c1
  Requests = {r1, r2}
  Commands = {c1}
  MaxRows = 3
  MaxFiles = 2
  MaxTampering = 1
SYMMETRY Symmetry
SPECIFICATION Spec
INVARIANTS
  TrailTypeOK
  BrokenForAReason
  EditFoundOut
  RemovalFoundOut
  DocumentsHaveFiles
  BackupsComplete
