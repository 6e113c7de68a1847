CONSTANTS
  NumCores = 2
  DeviceSources = {UART1}
  MBOX0 = MBOX0
  MBOX1 = MBOX1
  LowerBits = {l}
  UpperBits = {u}
  NMIBits = {0, 1, 2}
  Stores <- MCStores
SPECIFICATION Spec
INVARIANTS TypeOK LinesFollowEnables SummariesAgree
PROPERTIES MailboxHeld
CHECK_DEADLOCK FALSE
