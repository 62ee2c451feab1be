CONSTANTS
  Ips = {i1}
  Names = {}
  Labels = {l1}
  Manual = manual
  Absent = absent
  Human = human
  Owners <- MCOwners
  Workers = {w1}
  ListOps = {"block_ip", "add_whitelist", "refresh"}
  Decisions <- MCDecisions
  Rules = {r1}
  Acts = {"block_ip", "acknowledge", "isolate"}
  Threshold = 1
  MaxHistory = 1
  TaskOps <- AllTaskOps
SPECIFICATION FairSpec
INVARIANT NoOverlap ApprovalCountsOnce RowsOfStandingDecisions
PROPERTY ExecutedTakesEffect TasksEnd
