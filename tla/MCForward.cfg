SPECIFICATION Spec
CONSTANTS
  Workers = {w1}
  Arena = {a1, a2}
  Heap = {h1}
  None = None
  Keys <- MCKeys
  Ifaces <- MCIfaces
  TASK_CAP = 2
  PEND_MAX = 1
  PEND_CHAIN_MAX = 2
  ARP_RETRY_MAX = 1
INVARIANTS
  TypeOK
  SingleOwner
  NoLeak
PROPERTIES
  FramesLeave
