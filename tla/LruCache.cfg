SPECIFICATION Spec
CONSTANTS
  Items = {a, b, c}
  NoItem = NoItem
  NoCell = NoCell
  MaxSize = 3
  MaxOps = 5
INVARIANTS WellFormed InSync WithinCapacity EvictionsExact
PROPERTIES EvictsLeastRecent ImplementsOrder
