SPECIFICATION CopySpec
CONSTANTS
  Keys <- AllKeys
  Items = {item1, item2}
  Traversers = {t1, t2}
  Clients <- SomeClients
  NULL = NULL
  Header = Header
  Freed = Freed
  Unset = Unset
  item1 = item1
  item2 = item2
  t1 = t1
  t2 = t2
INVARIANTS
  Rebalancing
  StackIsPath
  TraverserStackFresh
  CopySound
PROPERTIES
  ImplementsOrderedMap
