CONSTANTS
  Ips = {i1}
  Names = {}
  Labels = {l1, l2}
  Manual = manual
  Absent = absent
  Human = human
  Owners <- MCOwners
  Workers = {w1, w2}
  ListOps = {}
  Decisions <- MCDecisions
  Rules = {r1}
  Acts = {"block_ip"}
  Threshold = 1
  MaxHistory = 1
  TaskOps = {"agent", "approve"}
SPECIFICATION Spec
INVARIANT ApprovalCountsOnce
