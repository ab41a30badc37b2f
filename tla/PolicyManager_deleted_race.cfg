SPECIFICATION Spec
CONSTANTS
  Policy = {p1}
  Handler = {h1, h2}
  Name = {n1}
  r1 = r1
  r2 = r2
  empty = empty
  Rego <- MCRego
  ValidRego <- MCValidRego
  EmptyRego = empty
  Missing = Missing
  MaxVersion = 3
  IdVersions <- PlainIds
  CallFaults = FALSE
  ItemFaults = FALSE
SYMMETRY Symmetry
PROPERTIES
  DeletedIsFinal
