SPECIFICATION Spec
CONSTANTS
  Servers = {a, b, c}
  NoLease = NoLease
  Ttl = 2
  Heartbeat = 1
  AcquireTimeout = 4
  PollInterval = 1
  Delay = 0
  MaxMisses = 1
  MaybeSlow = {a}
  ForUpdate = TRUE
  Users = {u, v}
  NoPid = NoPid
  StartupTimeout = 1
  StopTimeout = 1
  MaxCommands = 3
  Tokens <- MCTokens
  MaxGrowth = 1
  NoBudget = NoBudget
  Budgets = {2, NoBudget}
  VerbatimBudgets = {0, 3}
  MaxSeeds = 1
  MaxLeaves = 8
  MaxTokens = 3
  MaxInput = 2
  MaxTarget = 2
  Threshold = 50
  MaxRetries = 2
  MaxTries = 2
  Calls = {1, 2, 3}
  NoSession = NoSession
  MaxIterations = 1
  MaxParallel = 1
  MaxOverlap = 2
  SessionTtl = 1
  MaxClock = 2
  None = None
  Texts = {t1, t2}
  MaxIds = 3
  MaxPlaces = 3
  Budget = 2
  MostSeeds = 1
  Multiplier = 1
  Backend = "chroma"
INVARIANTS OneIndexer OnlyRivalsStarve FilesTellTheTruth TilingCoversWindow AnswerIsSmallest OnlyCutsFail BestReplyIsStored TurnsAreRemembered AnswersAreDelivered SeedsAreFound IndexesAgree
SYMMETRY Alike
CHECK_DEADLOCK FALSE
