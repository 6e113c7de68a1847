CONSTANTS
  Cores = {c1}
  NoPost = NoPost
  MaxPosts = 6
  LateDevice = FALSE
  SpuriousWakeups = FALSE
SPECIFICATION FairSpec
INVARIANTS ReadUpToDate
PROPERTIES NoOverwrite InOrderOnce ImplementsDeviceOps PostTakesEffect
