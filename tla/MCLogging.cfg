SPECIFICATION Spec
CONSTANTS
  t1 = t1
  t2 = t2
  r = r
  q = q
  root = root
  app = app
  f1 = f1
  f2 = f2
  Writers = {t1}
  Reloaders = {r, q}
  Root = root
  Names = {app}
  Formats = {f1, f2}
  BadFormat = BadFormat
  NoFormat = NoFormat
  DefaultFormat = DefaultFormat
  Null = Null
  Defines <- DefinesOfBoth
  Levels = {2}
SYMMETRY ReloaderSymmetry
INVARIANTS
  TypeOK
  LocksExact
  FormatInherited
  Reconfigured
  NullsFollowed
PROPERTIES
  ListStable
