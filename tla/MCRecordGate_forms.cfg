SPECIFICATION Spec
CONSTANTS
  Trees <- MCWorkflowTrees
  Ledgers <- MCNewLedgers
  Records <- MCNewRecords
  Readmes <- MCReadmes
  Pages <- MCPages
  Workflows <- MCOtherForms
  RequirePublished = TRUE
CHECK_DEADLOCK FALSE
INVARIANT LooseIsRefused
