SPECIFICATION Spec
CONSTANTS
  Managers = {"execution", "delivery", "proposal", "wake", "conference", "handoff"}
  MaxIds <- MCMaxIds
  MaxEvents = 2
  MaxEventId <- MCMaxEventId
  PageLimits = {1, 2}
  RetryLimits = {0, 2}
  NodeA = a
  NodeB = b
  NodeC = c
  Nodes = {a, b, c}
  Origin = a
  Troubles = {"sender_crash"}
  HopLimits = {1, 2}
  Members = {a, b}
  Chair = a
  Times = {1, 2, 4}
  IdleTimeout = 2
  MinQuorum = 1
  RequireChair = TRUE
  MaxContributions = 1
  MaxSeq = 6
  HasTimeout = TRUE
  StreamKinds = {"task", "operator", "assignment"}
  Clients = {"c1", "c2"}
  Jobs = {"j1", "j2"}
  Alerts = {"a1", "a2"}
  MaxBuffered = 2
  MaxUpdates = 3
  MaxProcess = 2
  GitHubWorkers = {"w1", "w2"}
  Bodies <- MCBodies
  MaxDeliveries = 2
  MaxClock = 2
  MaxGitHubCrashes = 1
  Shas = {"s1", "s2"}
  CheckNames = {"lint", "test"}
  MaxRecoveryIds = 3
  MaxReceivedAt = 2
  Pollers = {1, 2}
  MaxEventsPerPoll = 3
  MaxBatch = 4
  PollInterval = 3
  MaxBackoff = 10
  Targets = {"t1", "t2"}
  Callers = {"c1"}
  PeerLimit = 1
  PeerWindow = 2
  RecomputeCap = 1
  SlotsTotal = 1
  PeerStates <- MCPeerStates
  MaxNow = 3
  RateKeys = {"c1", "c2"}
  MaxRequests = 2
  RateWindow = 3
  MaxRateNow = 5
  Handoffs <- MCHandoffs
  HomeWorkers = {"w1", "w2"}
  ThesisAgent = "x"
  AntithesisAgent = "y"
  SynthAgent = "z"
  RebuttalAgent = "nobody"
  People = {"u", "w"}
  SlowRoutes = {"tasks/cancel"}
  CuTasks = {1}
  CuWorkers = {1, 2}
  CuRetention = 0
  CuCaps = {0, 1}
  CuMaxRows = 1
  MaxCuNow = 2
  Roster = {a, b, c}
  ExcludedRoster = {c}
  Sightings <- MCSightings
  RoundFilters <- MCRoundFilters
  RoundClocks = {1, 3, 4}
  StaleAfter = 2
  MaxSightings = 3
  HandlerTasks <- MCHandlerTasks
  HandlerEnvs <- MCHandlerEnvs
  RunnerReplies <- MCRunnerReplies
  BridgeReplies <- MCBridgeReplies
INVARIANTS EffectsBounded RecordsTell  RunSettles SubscribersMissNothing  BucketTells PollingBounded  LimitersHold    CloseoutTells LinksAreEarned
PROPERTIES IssueEndsTasks 
CHECK_DEADLOCK FALSE
