SPECIFICATION Spec
CONSTANTS
  Operators = {o1, o2}
  Main = Main
  v0 = v0
  v1 = v1
  v2 = v2
  Versions <- MCVersions
  Reread <- MCReread
  Default = v0
  Uploads = {v1}
  Empty = Empty
  Odd = Odd
  PIECES = 2
SYMMETRY Symmetry
INVARIANTS
  TypeOK
  ConfWhole
  RestartKeeps
