CONSTANTS
  Ranks <- MCRanks
  Programs <- MCPrograms
  Invocations <- MCInvocations
  BufSize = 9
  Canonical <- MCCanonical
SPECIFICATION Spec
INVARIANTS
  TraceComplete
  MetaDescribesTrace
  WritesPlaced
  ReplaysAreCuts
  CutsAreReplayed
