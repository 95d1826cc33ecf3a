SPECIFICATION Spec
CONSTANTS
  port_scan = port_scan
  brute_force = brute_force
  malware = malware
  i1 = i1
  i2 = i2
  Keys <- MCKeys
  SeverityOf <- MCSeverityOf
  Assignees = {ana}
  Nobody = Nobody
  MinOccurrences = 2
  AlertIds = {i1, i2}
  NoId = NoId
  NoAlert = NoAlert
  MaxOccurrences = 3
  MaxAudit = 5
SYMMETRY MCSymmetry
INVARIANTS
  TypeOK
  OneAlertPerKey
  NoNoisyNewAlert
  AuditReplaysStatus
PROPERTIES
  FinalAndImmutable
  ImplementsRegister
CHECK_DEADLOCK FALSE
