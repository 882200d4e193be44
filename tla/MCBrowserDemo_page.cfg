SPECIFICATION Spec
CONSTANTS
  Origins <- MCOrigins
  Length <- MCLength
  Passing <- MCPassing
  Published <- MCPublished
  Replacements <- MCReplacements
  Runtimes <- MCLoadsOrNot
  Activations <- MCActivations
  Window = 2
  Deadline = 2
  MaxLoaderFaults = 1
  MaxFixtureFaults = 1
  MaxEdits = 2
INVARIANTS TypeOK PageShowsCurrent CompleteIsEarned
PROPERTIES RunsEnd ReadsRecover
