CONSTANTS
  Size = 5
  Slots = 4
  Jobs = 8
  Children = {t1, t2}
  Turns = 3
SPECIFICATION MainSpec
INVARIANTS
  NoIncrementIsLost
  TypeOK
  SlotsAreConserved
  AddAndPopSucceed
  StrayWritesAreBounded
PROPERTIES
  ImplementsBoundedQueue
  ConsumerFinishes
CHECK_DEADLOCK FALSE
