SPECIFICATION Spec
CONSTANTS
  Nobody = Nobody
  Threads = {t1, t2}
  Mutexes = {1, 2, 3}
  Level <- LevelBelow
  Nested = TRUE
  MaxLockers = 3
INVARIANTS
  ListsAreHeld
  CountsAreLockers
  LastLockerLetsGo
  NoDeadlock
PROPERTIES
  LimitedCallsEnd
  ImplementsLocks
