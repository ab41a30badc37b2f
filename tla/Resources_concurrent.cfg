SPECIFICATION Spec
CONSTANTS
  image = image
  library = library
  repo = repo
  image1 = image1
  library1 = library1
  ambiguous = ambiguous
  unparsable = unparsable
  latest = latest
  tagged = tagged
  Resource <- MCResource
  Uri <- MCUri
  ResourcesOf <- MCResourcesOf
  NameList = {latest, tagged}
  NoNames = NoNames
  Batches <- MCBatches
  Handler = {h1, h2}
  Missing = Missing
  CallFaults = TRUE
  ItemFaults = TRUE
SYMMETRY Symmetry
INVARIANTS
  AcknowledgedBatchStored
PROPERTIES
  ParentsFirst
  NamesSurviveLaterBatches
