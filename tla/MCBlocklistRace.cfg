CONSTANTS
  Ips = {i1}
  Names = {}
  Labels = {l1, l2}
  Manual = manual
  Absent = absent
  Human = human
  Agent = agent
  Owners <- MCOwners
  Workers = {w1, w2}
  ListOps <- AllListOps
SPECIFICATION SharedSpec
PROPERTY ManualKept
