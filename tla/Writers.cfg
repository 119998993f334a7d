SPECIFICATION FileSpec
CONSTANTS
  Procs = {"proxy", "command"}
  Appenders = {"proxy", "command"}
  Bodies = {"decided", "granted"}
  MaxLines = 4
  MaxFaults = 2
INVARIANTS
  ChainTellsWhoMissed
  ReturnedStay
  MemoryIsOfTheFile
  FileInv
PROPERTIES
  AppendLeavesReadable
