SPECIFICATION Spec
CONSTANTS
  c1 = c1
  c2 = c2
  Clients = {c1, c2}
  IncidentIds = {i1}
  Alerts = {a1}
  EvidenceIds = {e1}
  u1 = u1
  Users = {u1}
  Nobody = Nobody
  NoId = NoId
  NoIncident = NoIncident
  Changes <- MCChanges
  MaxRequests = 4
INVARIANT
  PromotedIsStored
