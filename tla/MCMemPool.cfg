SPECIFICATION Spec
CONSTANTS
  MP_COUNT = 2
  HeapBlocks = 2
  Threads = {t1, t2}
  U64 = 5
SYMMETRY Symmetry
INVARIANTS
  TypeOK
  BlocksPartitioned
  CountersAgree
