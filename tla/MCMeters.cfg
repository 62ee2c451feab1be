CONSTANTS
  Lookups = {c1, c2}
  Addresses = {ip1}
  Limit = 1
  OsintFlushers = {job}
  MaxCalls = 5
  MaxOsintFails = 1
  LlmCallers = {a1, a2}
  LlmFlushers = {f1, f2}
  MaxLlmCalls = 4
  MaxLlmFails = 1
  Pairs = {pair}
  MaxFlows = 2
  MaxNetFails = 1
  BucketKeep = 1
  MaxClock = 3
  Scanners = {s1, s2}
  Lookback = 1
  Gap = 2
  PushCap = 1
  NoRow = norow
  MaxEvents = 2
  MaxEdits = 1
  Receivers = {r1, r2}
  Backends = {b1}
  Scores = {score}
  NoScore = noscore
  MaxExpiries = 2
  AlertItems = {a1}
  EventItems = {e1}
  DetectionItems = {}
  LoginItems = {l1}
  CentralCycles = {s1, s2}
  LoginCycles = {lc}
  CentralOverlap = 2
  LoginOverlap = 2
  LoginReach = 3
  CentralLag = 1
  LoginLag = 1
  CycleTime = 1
  MaxCollectTime = 3
  MaxCycles = 2
SYMMETRY Symmetry
SPECIFICATION Spec
INVARIANT OvershootBounded EventsSpaced PaidOnce NoGap
PROPERTY MetersImplementCounters
CHECK_DEADLOCK FALSE
