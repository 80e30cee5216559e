SPECIFICATION FairSpec
CONSTANTS
  Port <- MCPort
  Watchdog <- MCWatchdog
  Shell <- MCShell
  None = None
  MaxFaults = 2
INVARIANTS
  TypeOK
  HarmOnlyInRace
PROPERTIES
  ResumableSweep
  PoisonCleared
