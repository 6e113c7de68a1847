SPECIFICATION Spec
CONSTANTS
  Keys <- MCKeys
  Follow = {"a"}
  MaxKeys = 5
  MaxSends = 2
  MaxFlushes = 1
  Mishaps = {}
  None = None
INVARIANTS TypeOK KeyRead KeyAnnounced Printed
PROPERTIES KeyServed AllPrinted
CHECK_DEADLOCK FALSE
