SPECIFICATION MCSpec
CONSTANTS
  MaxRetries = 3
  Symbols <- MCSymbols
  OpenTags <- MCTags
  Heads <- MCHeads
  Formats = {"anthropic", "openai"}
  Modes = {"as_reasoning_content", "remove", "pass"}
  Pieces <- MCPieces
  ToolNames = {"f"}
  InputPieces = {}
  UsageKinds = {"usage", "context_usage"}
  MaxEvents = 4
  Cuts <- MCCuts
  MaxPieces = 5
INVARIANTS AnsweredRight ConnectionsClosed ChunkProtocol TextComplete CallsDelivered CutsNoticed SameCollected SplitAnywhere EventsFound
PROPERTIES Answered BlockProtocol ResponseClosed
CHECK_DEADLOCK FALSE
