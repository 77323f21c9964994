SPECIFICATION BrokerSpec
CONSTANTS
  User = {alice}
  Target = {bastion}
  Policy = {ops}
  WebTarget = {}
  RdpTarget = {}
  MfaPolicy = {ops}
  SessionId = {s1, s2}
  Conn = {c1}
  Worker = {c1, web}
  TicketLifetime = 1
  Duration = {1}
  Quota = {1}
  Fault = {}
  NoGroup = NoGroup
  NoConn = NoConn
  NoSession = NoSession
PROPERTIES
  TicketCarriesItsMfa
