SPECIFICATION Spec
CONSTANTS
  ARP_CAP = 2
  Buckets = {0, 1}
  Ips = {1, 2}
  Ifs = {if1, if2}
  Macs = {m1, m2}
  hash_ip <- MCHash
  Lookers = {}
  Timer = timer
  Receiver = rx
  Secs = {0, 1, 2}
  MIN_TMO = 1
  U64 = 8
  MaxClock = 2
  NoMac = NoMac
  NoKey = NoKey
INVARIANTS
  TypeOK
  ChainsSound
  KeysUnique
PROPERTIES
  ImplementsArpCache
SYMMETRY Symmetry
