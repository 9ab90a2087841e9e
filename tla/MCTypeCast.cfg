\* Every hierarchy of three classes and every list with their root.
SPECIFICATION CastSpec
CONSTANTS
  Casters = {t1, t2}
  ClassCount = 3
INVARIANT CastCorrect
PROPERTY CastReturns
