SPECIFICATION Spec
CONSTANTS
  Conns = {c1, c2}
  NoConn = NoConn
  NoSha = NoSha
  BadSha = BadSha
  AuthLine = AuthLine
  ExitLine = ExitLine
  PutLine = PutLine
  UpLine = UpLine
  Magic <- MCMagic
  MAX_UPLOAD = 3
  Runnable <- MCRunnable
  MaxSuffix = 1
  Lines <- MCLines
  Uploads <- MCUploads
  Configs <- MCConfigs
  Hasty <- MCHasty
  c1 = c1
  c2 = c2
  BLOCK = 2
  LENGTH = 1
  IBUF = 5
  LINE_MAX = 3
  MAX_CONFIG = 2
  NetCap = 4
INVARIANTS
  TypeOK
  FramingSound
  SessionOwned
  DigestOfUpload
  NoStall
PROPERTIES
  InstallsWhatWasSent
