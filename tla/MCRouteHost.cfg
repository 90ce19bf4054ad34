SPECIFICATION Spec
CONSTANTS
  W = 2
  ifindex <- MCIfindex
  Operators = {o1}
  Workers = {w1}
  Setups <- OneSetup
  Statics <- HostStatics
  Dsts = {1}
  MAX_ROUTE = 3
  ClzOfZero = 1
  NoOne = NoOne
SYMMETRY Symmetry
INVARIANTS
  LongestPrefix
