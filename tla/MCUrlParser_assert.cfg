SPECIFICATION Spec
CONSTANTS
  Letter = {"a"}
  Digit = {"1"}
  Other = {":", "/", "@", "[", "?", "#"}
  MaxLength = 10
  MaxPart = 2
INVARIANT
  NothingPending
CHECK_DEADLOCK FALSE
