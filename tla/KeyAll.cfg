\* Collisions, keys that cannot be converted, keys of another algorithm.
\* A NULL pointer may be followed, after which nothing happens.
SPECIFICATION Spec
CONSTANTS
  a = a  b = b  d1 = d1  d2 = d2  bad = bad
  Keys <- AllKinds
  Materials = {d1, d2, bad}
  Bad = {bad}
  Sources = {0, 1}
  Hole = Hole
  MaxSize = 4
INVARIANTS
  TypeOK
  SortedUnique
  OnlyKeyVerifies
PROPERTIES
  ImplementsRegistry
CHECK_DEADLOCK FALSE
