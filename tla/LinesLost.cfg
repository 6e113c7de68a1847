CONSTANTS
  Sources = {UART1, GPIO0}
  Enabled = {UART1}
  CoreOps = {"exception", "compare", "watchdog", "tick"}
SPECIFICATION Spec
INVARIANTS NothingLost
