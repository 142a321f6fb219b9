SPECIFICATION MCSpec
CONSTANTS
  Symbols <- MCSymbols
  OpenTags <- MCTags
  Heads <- MCHeads
  Formats = {"anthropic", "openai"}
  Modes = {"pass", "strip_tags"}
  Pieces <- MCPieces
  ToolNames = {}
  InputPieces = {}
  UsageKinds = {"usage", "context_usage"}
  MaxEvents = 4
  MaxRetries = 3
  Cuts <- MCCuts
  MaxPieces = 5
INVARIANT PassedOn
CHECK_DEADLOCK FALSE
