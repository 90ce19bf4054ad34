SPECIFICATION FwSpec
CONSTANTS
  W = 2
  ClzOfZero = 1
  Admins = {o1, o2}
  Commands <- MCCommands
  Files <- MCFiles
  Frames <- MCFrames
  Words <- MCWords
  MAX_RULE = 2
  MaxCommands = 6
SYMMETRY Symmetry
INVARIANTS
  FwTypeOK
  SaveFaithful
  ReloadFaithful
  ReloadOnlyOpens
