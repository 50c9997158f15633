SPECIFICATION MCSpec
CONSTANTS
  Parts = {"pipeline", "board", "fetch", "window", "allocator", "guard", "scheduler", "refresh", "measurement", "portfolio", "simulator"}
  Missing = Missing
  NoRecord = NoRecord
  Signals <- MCSignals
  Outcomes <- MCOutcomes
  Contexts <- MCContexts
  Stores <- MCStores
  Batches <- MCBatches
  Legacy <- MCLegacy
  MaxRecords = 3
  MaxRedeploys = 1
  Feeds <- MCFeeds
  Files <- MCFiles
  Tables <- MCTables
  Forecasts = {0, 100}
  Today = 100
  Retries = 2
  Backoffs <- MCBackoffs
  StartDay = 100
  FirstOffset = 46
  LastOffset = 48
  MaxWorkers = 2
  CentParts = 4
  Budgets = {0, 159996, 160008, 160015, 200024, 400000}
  CandidateLists <- MCLists
  r1 = r1
  r2 = r2
  r3 = r3
  Requests = {r1, r2, r3}
  Clients = {"a"}
  Budget = 1
  Limit = 1
  Window = 2
  DayTicks = 2
  MaxTick = 2
  MaxRestarts = 1
  MaxFailures = 2
  RetryDelay = 1
  Interval = 3
  MaxStarts = 3
  MaxSweeps = 4
  CohortStores = {1}
  Readers = {"x", "y"}
  CampaignStart = 1
  TicksPerDay = 2
  Cooldown = 2
  WindowDays = 1
  MaxClock = 5
  MaxLog = 3
  MaxLosses = 1
  DayLength = 2
  BaselineDays = 4
  RecentDays = 2
  EvaluationDays = 5
  MinBaselineDays = 2
  MinRecentDays = 1
  WeekDays = 2
  StartedAt = 100
  EndedAt = 106
  RunCampaign = "18"
  RunTiming = "12-18"
  MaxWeeks = 2
  MaxPosts = 2
  Provided <- MCProvided
  Posted <- MCPosted
  Replays <- MCReplays
  Controls <- MCControls
  AsOfs = {105, 110, 115}
  CampaignEnd = 2
  MinHouseholds = 3
  MaxStores = 3
  Requested <- MCRequested
  Ledgers <- MCLedgers
  Households <- MCHouseholds
  StoreTables <- MCStoreTables
  References = {8, 14}
  StartDays = {4, 10}
  Feedbacks <- MCFeedbacks
  StoreRows <- MCStoreRows
  Costs <- MCCosts
  Rates <- MCRates
  KnownLifts <- MCKnownLifts
INVARIANTS
  ServicesTypeOK
  ProofComesFirst
  RecordReadsTrue
  BoardFollowsLog
  SurfacesAgree
  SignalIsTrue
  WindowIsWhole
  AllocationIsSound
  CeilingsHold
  RefreshIsCoherent
  
  PortfolioAddsUp
  AdviceIsSound
PROPERTIES
  LoopsKeepPace
  RefreshesAreSpaced
  
  ServicesProgress
CHECK_DEADLOCK FALSE
