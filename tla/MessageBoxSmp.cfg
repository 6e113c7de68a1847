CONSTANTS
  Cores = {c1, c2, c3}
  NoPost = NoPost
  MaxPosts = 2
  LateDevice = FALSE
  SpuriousWakeups = TRUE
SPECIFICATION FairSpec
INVARIANTS TypeOK OneAccessor WholeMessage
PROPERTIES BoxComesFree
