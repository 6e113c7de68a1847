CONSTANTS
  Sources = {MBOX0, UART1}
  Enabled = {MBOX0, UART1}
  CoreOps = {"exception", "compare", "watchdog", "tick"}
SPECIFICATION Spec
PROPERTIES QuietUpdateRepairs
SYMMETRY SourceSymmetry
