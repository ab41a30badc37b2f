SPECIFICATION Spec
CONSTANTS
  good = good
  bad = bad
  other = other
  package1 = package1
  package2 = package2
  Policy = {p1}
  Rego <- MCRego
  MaxVersion = 2
  MaxStored = 2
  PackageOf <- MCOnePackage
  Passing = {good, other}
  Handler = {h1}
  Missing = Missing
  CallFaults = FALSE
  ItemFaults = FALSE
  OpaRestarts = FALSE
SYMMETRY Symmetry
INVARIANTS
  CurrentSourceEvaluated
