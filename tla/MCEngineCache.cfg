SPECIFICATION Spec
CONSTANTS
  Thread = {th1, th2}
  Key = {k1, k2, k3}
  Engine = {e1, e2, e3, e4}
  NoEngine = NoEngine
  CacheSize = 2
  IdleTtl = 1
  MaxDelay = 1
  MaxClock = 3
SYMMETRY Symmetry
INVARIANTS CacheBounded NoPoolForgotten
PROPERTIES IdleMeansIdle EvictsColdest
CHECK_DEADLOCK FALSE
