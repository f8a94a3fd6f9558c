CONSTANTS
  Services <- MCServices
  Programs <- MCPrograms
SPECIFICATION Spec
INVARIANT HappensBeforeKept
