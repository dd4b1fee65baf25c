SPECIFICATION Spec
CONSTANTS
  Docs = {d1}
  NoDoc = NoDoc
  Handles = {h1, h2, h3}
  NoHandle = NoHandle
  MaxActs = 4
INVARIANT BuffersCarried
CHECK_DEADLOCK FALSE
