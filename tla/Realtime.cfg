SPECIFICATION Spec
CONSTANTS
  Connections = {1, 2, 3}
  alerts = alerts
  Channels = {alerts}
  NoChannel = NoChannel
  Grants <- MCGrants
  MaxConnections = 2
  MaxMessages = 2
  None = None
INVARIANTS
  WithinLimit
  StreamPermitted
  StreamComplete
PROPERTIES
  BridgeGoesOn
\* The system really stops: the application ends the bridge and its sockets.
CHECK_DEADLOCK FALSE
