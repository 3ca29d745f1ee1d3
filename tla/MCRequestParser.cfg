SPECIFICATION Spec
CONSTANTS
  Offered <- Tokens
  Absolute = {"http://h/"}
  Huge = {"99999999999999999999"}
  MaxHeaders = 2
  MaxPart <- PartLengths
  MaxVersion = 10
  MaxLength = 28
INVARIANTS
  HeadIsTheInput
  ReaderAndParserAgree
  BodyAsDeclared
  ForwardedHeadIsRead
CHECK_DEADLOCK FALSE
