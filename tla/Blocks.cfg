CONSTANTS
  Programs <- MCPrograms
  WordIn <- MCWordIn
  FrameIn <- MCFrameIn
  PageSize = 16
  UserBase = 256
  ResetVector = 64
  Vector = 144
  FirstLevel = 4
  SecondLevel = 2
  MaxBlock = 12
SPECIFICATION Spec
INVARIANTS TypeOK CacheCurrent
PROPERTIES ImplementsISA InterruptTaken
CHECK_DEADLOCK FALSE
