SPECIFICATION Spec
CONSTANTS
  A = A
  B = B
  C = C
  QRLDomain = QRLDomain
  Structs = {QRLDomain, A, B, C}
  Names = {"x", "y", "z"}
  TypeMaps <- Payloads
  MaxTypes = 4
  MaxFieldsPerType = 3
  MaxTotalFields = 6
  MaxTypeGraphDepth = 2
  MaxArrayNesting = 1
  MaxArrayLength = 2
  MaxEncodedValues = 8
INVARIANTS
  VerdictIsRight
  SchemeFits
CHECK_DEADLOCK FALSE
