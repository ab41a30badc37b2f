SPECIFICATION ListingSpec
CONSTANTS
  good = good
  bad = bad
  other = other
  package1 = package1
  package2 = package2
  Policy = {p1, p2}
  Rego <- MCRego
  MaxVersion = 2
  MaxStored = 2
  PackageOf <- MCPackageOf
  Passing = {good, other}
  Handler = {h1, h2}
  Missing = Missing
  CallFaults = TRUE
  ItemFaults = TRUE
  OpaRestarts = TRUE
  WaitsForRefresh = TRUE
  HitsPerSearch = {1, 2}
SYMMETRY Symmetry
INVARIANTS
  VerdictOfItsVersion
  ListedVerdictsAgree
  AnsweredEvaluationsFound
  OnlyRestartsPanic
