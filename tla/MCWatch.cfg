CONSTANTS
  Parts = {"verdicts", "rules", "sign_ins", "sophos", "honeypots",
           "names", "identities", "telegram"}
  AnomalyRuns = {address_job}
  ConnRuns = {w1, w2}
  TriageRuns = {triage_button}
  Forced = {triage_button}
  Dsts = {x1, x2}
  Inside = {}
  Ratings = {"suspicious", "benign"}
  FreshFor = 2
  TriageFor = 1
  AlarmCap = 1
  AnomalyCap = 1
  MaxSpent = 3
  MaxVerdictClock = 2
  Explored = {"event", "waf", "failed_login", "user"}
  Subjects = {x1, x2}
  Passes = {w1, w2}
  BlockHold = 0
  NoActionHold = 1
  UserHold = 2
  UserRecheck = 1
  MaxHour = 2
  MaxPasses = 3
  Keys = {x1, x2}
  Looks = {w1, w2}
  WatchBack = 1
  MaxLogins = 3
  MaxLooks = 3
  MaxSignInTime = 2
  Accounts = {acc1, acc2}
  NoAccount = nobody
  SophosCalls = {w1, w2}
  MaxSaves = 2
  MaxSophosCalls = 4
  Services = {ssh}
  Sources = {src}
  QueueSize = 2
  BatchSize = 2
  MaxHits = 2
  MaxChanges = 1
  Ingests = {w1, w2}
  MuteFor = 1
  PushLimit = 1
  MaxPodTime = 1
  Hosts = {h}
  HostLabels = {n1, n2}
  Macs = {m1}
  None = none
  Resolvers = {w1, w2}
  MaxHostWork = 4
  Inventory = {x1, x2}
  Cards = {c1, c2}
  Titles = {t1, t2}
  Unknown = unknown
  Scans = {w1, w2}
  AlarmLimit = 1
  MaxScans = 3
  MaxRebound = 3
  FirstId <- MCFirstId
  PollLimit = 2
  MaxUpdates = 3
  MaxPollFaults = 2
SYMMETRY Symmetry
SPECIFICATION Spec
INVARIANT WatchTypeOK AlarmsSpaced DecisionsSpaced RevokeAskedOnce OneAccount TouchReportedOnce OperatorNameStands IdentityReportedOnce UpdatesHandled
PROPERTY HumanLostOnlyToStaleSweep
CHECK_DEADLOCK FALSE
