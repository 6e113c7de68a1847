CONSTANTS
  c1 = c1
  c2 = c2
  t1 = t1
  t2 = t2
  Cores = {c1}
  Threads = {t1, t2}
  coreOf <- OneCore
  Addrs = {x, y}
  KernelAddr = KernelAddr
  NoAddr = NoAddr
  Values = {0, 1}
  Zero = 0
SPECIFICATION Spec
PROPERTIES SCAtomic
