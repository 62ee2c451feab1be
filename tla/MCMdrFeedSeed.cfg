CONSTANTS
  f1 = f1
  f2 = f2
  Firewalls = {f1, f2}
  Flaky = {f2}
  Targetings <- MCTargetings
  Tables = {ip}
  Vals = {1}
  Wildcards = {}
  Callers = {scheduler}
  Chunk = 2
  Lag = 2
  MaxDelay = 1
  MaxTime = 3
  MaxFaults = 0
  None = none
  NoCursor = nocursor
SPECIFICATION OwedSpec
PROPERTY AbortedPushIsRetried
