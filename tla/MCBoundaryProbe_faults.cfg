SPECIFICATION Spec
CONSTANTS
  Passports <- MCPassports
  Hosts <- MCHosts
  MaxInterrupts = 2
  MaxKills = 1
INVARIANTS PassIsEnforced PassStands NoSilentLitter
PROPERTY Terminates
