SPECIFICATION Spec
CONSTANTS
  NoFile = NoFile
  Torn = Torn
  Publishers = {q1, q2}
  Runs = {r1, r2}
  Passports = {p1, p2}
  Targets = {p1}
  BasePassport = p1
  Derivable = {p1, p2}
  Verifies = {p1, p2}
  TwinRefused = {p1}
  Reissue = FALSE
  MaxId = 2
  MaxCrashes = 0
  Cases = {}
  Reasons = {}
  Declared = {"block_x"}
  NotReachable = {"block_x"}
  Corpora = {"v1"}
  Inputs = {}
  Provokes <- MCNoProvokes
  Suite <- MCNoSuite
SYMMETRY MCPublishers
INVARIANTS OnlyProvenArtifacts
