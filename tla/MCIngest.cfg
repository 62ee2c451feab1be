CONSTANTS
  pub = pub
  priv = priv
  odd = odd
  Public = {pub}
  Private = {priv}
  Special = {odd}
  NoIp = noip
  Messages <- MCMessages
  MaxIds = 3
  MaxFaults = 1
  QueueSize = 2
  BatchSize = 2
  Refreshers = {job, manual}
  Jobs = {job}
  Nobody = nobody
  IdChunk = 2
  Rounds = 2
  ConnDays = 1
  KeepDays = 1
  PurgeBatch = 1
  MaxDay = 2
  LoginJobs = {sweep, alert}
  TopUpMax = 2
  CacheWindow = 1
  Cold = cold
SPECIFICATION FairSpec
INVARIANT ArrivalOrder CountedOnce NoneSkipped PinIsAttacker CursorSkipsNothing
PROPERTY QueueDrains CatchesUp ReachCache
