CONSTANTS
  Ips = {i1}
  Names = {n1}
  Labels = {l1, l2}
  Manual = manual
  Absent = absent
  Human = human
  Agent = agent
  Owners <- MCOwners
  Workers = {w1, w2}
  ListOps <- AllListOps
SPECIFICATION SharedSpec
INVARIANT ListTypeOK
PROPERTY ManualLostOnlyToStaleRefresh AttributionKept
SYMMETRY Symmetry
