SPECIFICATION Spec
CONSTANTS
  Docs = {d1}
  NoDoc = NoDoc
  Handles = {h1, h2, h3}
  NoHandle = NoHandle
  MaxActs = 3
INVARIANT NoneWiped
CHECK_DEADLOCK FALSE
