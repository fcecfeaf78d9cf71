\* Every timer one or two ticks; two images, two publishers, two attempts, one retry.
SPECIFICATION Spec
CONSTANTS
  ConnectTimeout = 4
  Stability = 2
  StallTimeout = 2
  ReportEvery = 2
  SinkFactory = "rtmp2sink"
  MaxStep = 1
  ConnectLimit = 1
  TeardownLimit = 1
  LivenessLimit = 2
  NaturalLimit = 1
  TerminateLimit = 1
  KillLimit = 1
  HeartbeatEvery = 1
  RetryInitial = 1
  RetryMax = 2
  JitterPercent = 20
  MaxAttempts = 2
  PipeSize = 1
  InputTimeout = 1
  StableWindow = 2
  HandoffDelay = 1
  Images = {"a", "b"}
  Horizon = 1
  MaxRetries = 1
  Sources = {"s", "t"}
  ViolationSamples = 2
  LowSamples = 2
\* Attempt, gateway and agent end; a publisher's ids are used up.
CHECK_DEADLOCK FALSE
INVARIANTS
  StandbyPromise
  AttemptPromise
  GatewayPromise
  AgentPromise
PROPERTIES
  ContinuityPromise
  IngestPolicyPromise
  NothingHangs
