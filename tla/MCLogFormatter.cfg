SPECIFICATION Spec
CONSTANTS
  Letters <- MCLetters
  Others <- MCOthers
  Known <- MCKnown
  MaxLength = 6
INVARIANTS
  TypeOK
  Faithful
  ErrorExact
  PaddingLocal
