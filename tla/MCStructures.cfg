CONSTANTS
  Item = {x, y, z}
  size = 4
  Heads = {h1, h2, h3}
  Nodes = {a, b, c, d}
  NULL = NULL
  Ready = h1
  Vectors = Vectors
SPECIFICATION StructuresSpec
INVARIANTS RingTypeOK CountsAgree LinksSpellLists TornOnlySo
PROPERTIES IsFifo
CHECK_DEADLOCK FALSE
