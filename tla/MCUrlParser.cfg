SPECIFICATION Spec
CONSTANTS
  Letter = {"a"}
  Digit = {"1"}
  Other = {":", "/", "@", "[", "?", "#"}
  MaxLength = 10
  MaxPart = 2
INVARIANTS
  PartsAreTheInput
  PendingIsTheLastPort
PROPERTY
  SlashIsOptional
CHECK_DEADLOCK FALSE
