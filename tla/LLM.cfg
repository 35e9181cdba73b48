SPECIFICATION MCSpec
CONSTANTS
  Caller = {a, b}
  Keys <- TwoKeys
  NoKey = NoKey
  Own = "k1"
  Backends = {"universal", "anthropic", "openai"}
  MaxRetries = 2
  MaxTokens = 1
  DeepThinker = FALSE
  MaxCalls = 2
  Call = {c1, c2}
  Threaded = {c2}
  Chain <- TwoModels
  Clients = {"litellm", "universal", "sdk"}
  Errors = {"RATE_LIMIT", "SERVICE_UNAVAILABLE", "CONTEXT_WINDOW", "AUTH", "QUOTA"}
  MaxResets = 1
  BufferSize = 2
  HighWatermark = 2
  LowWatermark = 1
  MaxChunks = 2
  MaxDeltas = 2
  KeepFirst = 1
  LoopLength = 2
  NoCall = NoCall
  Window = 2
  Tools = {t1}
  MaxAdded = 5
  MaxApplied = 2
CHECK_DEADLOCK FALSE
INVARIANTS
  OverrunBounded
  ChainTried
  DoneIsFinal
PROPERTIES
  CooldownsObserved
  CondensedWell
  EverythingEnds
