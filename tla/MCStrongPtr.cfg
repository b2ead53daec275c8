CONSTANTS
  Null = Null
  t1 = t1
  t2 = t2
  o1 = o1
  o2 = o2
  Threads = {t1, t2}
  Objects = {o1, o2}
  Pointers = {1, 2, 3, 4, 5}
  Strong = {1, 3, 5}
  User <- UserOf
  Member <- InsideOf
  Conditions <- AllConditions
SPECIFICATION Spec
INVARIANTS
  CopointersAgree
  NothingLeaks
PROPERTIES
  ImplementsShared
  DoomedAreDeleted
