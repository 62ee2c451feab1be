CONSTANTS
  f1 = f1
  f2 = f2
  Firewalls = {f1, f2}
  Flaky = {f2}
  Targetings <- MCBothTargeted
  Tables = {ip}
  Vals = {1, 2}
  Wildcards = {2}
  Callers = {scheduler}
  Chunk = 2
  Lag = 2
  MaxDelay = 1
  MaxTime = 3
  MaxFaults = 1
  None = none
  NoCursor = nocursor
SPECIFICATION FairSpec
PROPERTY Delivered
