SPECIFICATION Spec
CONSTANTS
  Trees <- MCTrees
  Ledgers <- MCNewLedgers
  Records <- MCNewRecords
  Readmes <- MCReadmes
  Pages <- MCPages
  Workflows <- MCWorkflows
  RequirePublished = TRUE
CHECK_DEADLOCK FALSE
INVARIANTS TypeOK ReproducibleIsPublic AgreedPasses PassIsScanned DigestsBind PassIsShown PassIsPinned
