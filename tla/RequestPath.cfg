SPECIFICATION Spec
CONSTANTS
  Width = 2
  Claims <- MCClaims
  Ids <- MCIds
  Sources <- MCSources
  HttpRequests <- MCHttpRequests
  MaxChanges = 3
INVARIANTS
  TypeOK
  RolesMatchMethods
  PanicsAnswered
  ReadsTheVersionNamed
  KindsKept
  ValidationExact
PROPERTIES
  OnlyVerifiedCallersWrite
  PathDecides
  RefusedChangesNothing
  ListingsAnswered
