SPECIFICATION FairSpec
CONSTANTS
  User = {alice}
  Target = {bastion, portal}
  Policy = {ops}
  WebTarget = {portal}
  SessionId = {s1, s2}
  Worker = {w1, w2}
  TicketLifetime = 1
  Duration = {1, 2}
  Quota = {1, 2}
  NoGroup = NoGroup
INVARIANTS
  PresentedStaysPresentable
  TicketMatchesSession
PROPERTIES
  KeepsContract
  UnusedTicketsFreeTheirPlace
