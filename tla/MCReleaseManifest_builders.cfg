SPECIFICATION Spec
CONSTANTS
  Inventory <- MCTwo
  Extra = {"stray"}
  Values = {"v1", "v2"}
  Commits = {"c0", "c1"}
  Tree <- MCTree
  Hidden = {"manifest"}
  Builders = {b1, b2}
  Outputs = {"o1", "o2"}
  Refused = {"o2"}
  MaxRuns = 2
  MaxEdits = 4
  MaxTampers = 1
  MaxShared = 1
  Absent = Absent
  Linked = Linked
  Mixed = Mixed
  Garbage = Garbage
CHECK_DEADLOCK FALSE
SYMMETRY MCBuilders
INVARIANTS PassDescribesCommit PassNeverMixes PassReadsBack
PROPERTY PassedOutputStands
