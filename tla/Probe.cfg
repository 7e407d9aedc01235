CONSTANTS
  a = a
  b = b
  Pinned <- MCPinned
  Sources <- MCSources
  AgeCap = 2
  Conversations <- MCConversations
  Stanzas = 6
SPECIFICATION Spec
INVARIANTS CompleteMeansClean OnlyPinnedCodeRuns
PROPERTY ProbeEnds
CHECK_DEADLOCK FALSE
