SPECIFICATION FileSpec
CONSTANTS
  W = 2
  ifindex <- MCIfindex
  Operators = {o1, o2}
  Workers = {}
  Setups <- MCSetups
  Statics <- MCStatics
  Dsts = {}
  MAX_ROUTE = 2
  ClzOfZero = 2
  NoOne = NoOne
SYMMETRY Symmetry
INVARIANTS
  RoutesPersist
