SPECIFICATION Spec
CONSTANTS
  t1 = t1
  t2 = t2
  r = r
  q = q
  root = root
  app = app
  f1 = f1
  f2 = f2
  Writers = {t1, t2}
  Reloaders = {r}
  Root = root
  Names = {app}
  Formats = {f1, f2}
  BadFormat = BadFormat
  NoFormat = NoFormat
  DefaultFormat = DefaultFormat
  Null = Null
  Defines <- DefinesOfRoot
  Levels = {2, 4}
SYMMETRY WriterSymmetry
INVARIANTS
  FallbackExists
