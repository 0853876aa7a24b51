SPECIFICATION FairSpec
CONSTANTS
  Handlers = {h1, h2}
  Endpoints = {e1}
  Keys = {k1}
  Sections = {web_search}
  Settings = {off, on}
  Default = off
  Models = {m1}
  Prices = {p1}
  MaxCrashes = 1
  None = None
  Truncated = Truncated
  Garbled = Garbled
INVARIANTS FileWhole NoUpdateLost
PROPERTIES KeysKept UpdateEnds
