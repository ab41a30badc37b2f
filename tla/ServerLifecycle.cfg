SPECIFICATION Spec
CONSTANTS
  Replica = {a, b}
  GrpcCall = {g}
  HttpCall = {w}
  Nowhere = Nowhere
  MaxFaults = 2
INVARIANTS
  ServesPrepared
PROPERTIES
  StopLosesNothing
  EveryReplicaServes
  SignalEnds
  NoCallHangs
