SPECIFICATION Spec
CONSTANTS
  NoFile = NoFile
  Torn = Torn
  Publishers = {q1}
  Runs = {r1}
  Passports = {b0, p1, p2, p3}
  Targets = {b0, p1}
  BasePassport = b0
  Derivable = {p1, p2, p3}
  Verifies = {b0, p1, p2}
  TwinRefused = {b0, p1, p3}
  Reissue = FALSE
  MaxId = 3
  MaxCrashes = 1
  Cases = {"case1"}
  Reasons = {"block_a"}
  Declared = {"block_a", "block_x"}
  NotReachable = {"block_x"}
  Corpora = {"v1"}
  Inputs = {1}
  Provokes <- MCFixedProvokes
  Suite <- MCFixedSuite
INVARIANTS NoDuplicateClaim
