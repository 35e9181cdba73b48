SPECIFICATION MCSpec
CONSTANTS
  Scenarios = {"front", "handlers", "requests", "tasks", "agent", "roles", "plan"}
  Delivery = {d1, d2, d3}
  Handler = {h1, h2}
  Resolving = {h2}
  Traffic <- AnyTraffic
  MaxRetries = 1
  MaxQueue = 1
  MaxSeen = 1
  MaxStops = 1
  Direct = {r1, r2}
  Command = {c1}
  Shared = shared
  AutoApply = {r1}
  MaxConcurrent = 1
  d1 = d1
  d2 = d2
  d3 = d3
  Task = {t1, t2}
  Prompt = {p1, p2}
  PromptOf <- TwoPrompts
  PriorityOf <- TwoPriorities
  t1 = t1
  t2 = t2
  p1 = p1
  p2 = p2
  None = None
  Worker = {w1}
  Client = {q1}
  MaxSessions = 3
  MaxSteps = 1
  MaxFaults = 1
  StepLimit = 2
  ToolRetries = 2
  ReflectRetries = 2
  Replies <- FourReplies
  Role = {product_manager, engineer, qa, stranger}
  Known = {product_manager, engineer, qa}
  Pipelines <- SixPipelines
  MaxPlan = 3
  product_manager = product_manager
  engineer = engineer
  qa = qa
  stranger = stranger
CHECK_DEADLOCK FALSE
INVARIANTS
  ProcessedOnce
  AgentKept
  PlansKept
PROPERTIES
  ResolutionsKept
  TasksKept
  EverythingEnds
