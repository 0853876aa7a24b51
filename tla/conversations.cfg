SPECIFICATION TalkSpec
CONSTANTS
  None = None
  MaxMessages = 4
  MaxCalls = 2
INVARIANTS CallsSeen ChatWellFormed AnthropicWellFormed TranscriptKept
CHECK_DEADLOCK FALSE
