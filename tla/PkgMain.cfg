SPECIFICATION MainSpec
CONSTANTS
  Packages <- MCPackages
  Hex <- HexIds
  Flags <- MCFlags
  Sizes <- MCSizes
INVARIANTS
  LoadedAsWritten
  LossNoticed
  LoadedSafe
  FaultExplained
PROPERTIES
  DataKept
