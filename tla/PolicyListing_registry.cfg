SPECIFICATION ListingSpec
CONSTANTS
  Policy = {p1}
  Handler = {h1}
  Name = {n1, n2}
  r1 = r1
  r2 = r2
  empty = empty
  Rego <- MCRego
  ValidRego <- MCValidRego
  EmptyRego = empty
  Missing = Missing
  MaxVersion = 4
  IdVersions <- PlainIds
  CallFaults = TRUE
  ItemFaults = FALSE
  WaitsForRefresh = TRUE
SYMMETRY Symmetry
INVARIANTS
  ListsWhatWasTold
  MissingOnlyBesideBulk
PROPERTIES
  ImplementsRegistry
