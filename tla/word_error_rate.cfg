SPECIFICATION Spec
CONSTANTS
  Words = {a, b}
  MaxLength = 4
  Texts <- ShortTexts
CHECK_DEADLOCK FALSE
INVARIANTS
  TypeOK
  BreakdownIsOptimal
