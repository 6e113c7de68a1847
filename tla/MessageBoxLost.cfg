CONSTANTS
  Cores = {c1, c2}
  NoPost = NoPost
  MaxPosts = 1
  LateDevice = TRUE
  SpuriousWakeups = FALSE
SPECIFICATION FairSpec
PROPERTIES PostTakesEffect
CHECK_DEADLOCK FALSE
