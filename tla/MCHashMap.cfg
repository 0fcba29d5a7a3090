CONSTANTS
  Keys = {k1, k2, k3}
  Values = {v1, v2}
  Empty = Empty
  Deleted = Deleted
  Nothing = Nothing
  SlotCount = 2
  LoadLimit = 1
  InitialGroups = 1
  MaxGroups = 4
  Hashes = {0, 3}
SPECIFICATION Spec
INVARIANTS TypeOK CountsExact InsertableAlways EnumerationExact
PROPERTY ImplementsMap
