SPECIFICATION Spec
CONSTANTS
  Policy = {p1, p2}
  Rego = {r1}
  MaxVersion = 1
  Group = {g1}
  ValidName = {g1}
  Description = {d1}
  Handler = {h1, h2}
  Missing = Missing
  CallFaults = TRUE
  CreateOverwrites = FALSE
  WaitsForRefresh = TRUE
SYMMETRY Symmetry
INVARIANTS
  AssignmentNamesItsPath
  AssignmentsResolve
PROPERTIES
  AssignedWhileLive
  DeletesWhatIsSearchable
