SPECIFICATION Spec
CONSTANTS
  Docs = {d1}
  NoDoc = NoDoc
  Handles = {h1, h2, h3}
  NoHandle = NoHandle
  MaxActs = 4
INVARIANTS NothingStranded ShownIsFound
PROPERTIES Settles
CHECK_DEADLOCK FALSE
