SPECIFICATION Spec
CONSTANTS
  Null = Null
  t1 = t1
  t2 = t2
  Threads <- MCThreads
  Integer <- MCInteger
  WordsOf <- MCWordsOf
  BadWords <- MCBadWords
  Names <- MCNames
  TypesOf <- MCTypesOf
  Values <- MCValues
  Documents <- MCDocuments
  Nodes <- MCNodes
  Depth <- MCDepth
SYMMETRY Symmetry
INVARIANTS
  TypeOK
  OneVariable
  Loaded
  ReadBack
PROPERTIES
  StableUnderVisit
