SPECIFICATION Spec
CONSTANTS
  c3 = c3
  Callers = {c1, c2, c3}
  MaxAddr = 7
  NoAddr = NoAddr
  MaxInt = 3
  MaxUint = 5
  RangeLists <- MCRangeLists
  StaticLists <- MCStaticLists
  InitialHeld <- MCInitialHeld
INVARIANTS NoDoubleHandOut ExactAccounting
PROPERTIES TakesFreeAddressOfRange FailsOnlyWhenExhausted
CHECK_DEADLOCK TRUE
