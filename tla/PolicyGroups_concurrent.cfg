SPECIFICATION Spec
CONSTANTS
  dev = dev
  BadName = BadName
  Group <- MCGroup
  ValidName <- MCValidName
  Description = {d1, d2}
  Handler = {h1, h2, h3}
  Missing = Missing
  CallFaults = TRUE
  CreateOverwrites = FALSE
SYMMETRY Symmetry
INVARIANTS
  OneCreateWins
PROPERTIES
  ImplementsRegistry
