SPECIFICATION Spec
CONSTANTS
  W = 2
  ifindex <- MCIfindex
  Operators = {o1, o2}
  Workers = {w1}
  Setups <- MCSetups
  Statics <- MCStatics
  Dsts = {1}
  MAX_ROUTE = 2
  ClzOfZero = 2
  NoOne = NoOne
SYMMETRY Symmetry
INVARIANTS
  TypeOK
  ConnectedInSync
  LongestPrefix
  OnLinkFirst
