SPECIFICATION Spec
CONSTANTS
  Workers = {w1, w2}
  TASK_CAP = 2
INVARIANTS
  RemoteComesBack
