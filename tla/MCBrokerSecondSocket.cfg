SPECIFICATION FairBrokerSpec
CONSTANTS
  User = {alice}
  Target = {bastion}
  Policy = {ops}
  WebTarget = {}
  RdpTarget = {}
  MfaPolicy = {}
  SessionId = {s1}
  Conn = {c1, c2}
  Worker = {c1, c2, web}
  TicketLifetime = 1
  Duration = {1}
  Quota = {1}
  Fault = {}
  NoGroup = NoGroup
  NoConn = NoConn
  NoSession = NoSession
PROPERTIES
  TerminationReachesStream
