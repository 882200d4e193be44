SPECIFICATION Spec
CONSTANTS
  Journals <- MCJournals
  Depth = 4
  CheckUrls = TRUE
CHECK_DEADLOCK FALSE
INVARIANTS CyclesRefused WalksAreLinear ProofIsPinned PagesTellTheTruth SourcesAnswered
PROPERTY Ends
