SPECIFICATION RegistrySpec
CONSTANTS
  Threads = {t1, t2}
  NoThread = NoThread
  MaxFresh = 2
  MaxGeneration = 2
  MaxObjects = 4
INVARIANTS RegistryInv HandleNamesOne NeverWaits
PROPERTIES FreshLeavesHeadroom
SYMMETRY Symmetry
CHECK_DEADLOCK FALSE
