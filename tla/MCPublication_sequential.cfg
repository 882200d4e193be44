SPECIFICATION Spec
CONSTANTS
  NoFile = NoFile
  Torn = Torn
  Publishers = {q1}
  Runs = {r1, r2}
  Passports = {b0, p1, p2, p3}
  Targets = {b0, p1}
  BasePassport = b0
  Derivable = {p1, p2, p3}
  Verifies = {b0, p1, p2}
  TwinRefused = {b0, p1, p3}
  Reissue = FALSE
  MaxId = 3
  MaxCrashes = 1
  Cases = {"case1", "case2", "case3"}
  Reasons = {"block_a", "block_b"}
  Declared = {"block_a", "block_b", "block_x"}
  NotReachable = {"block_x"}
  Corpora = {"v1", "v2", "v3"}
  Inputs = {1, 2, 3}
  Provokes <- MCProvokes
  Suite <- MCSuite
INVARIANTS LedgerDescribesRecords
PROPERTIES NoSilentPartial GenerateRepairs PublishedIsAccepted ImplementsPublicRecord
