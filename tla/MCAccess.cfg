SPECIFICATION Spec
CONSTANTS
  ann = ann
  bob = bob
  cyd = cyd
  ops = ops
  root = root
  host = host
  staff = staff
  leads = leads
  hosts = hosts
  night = night
  User = {ann, bob, cyd}
  Superuser = {}
  UserGroup = {staff, leads}
  TargetGroup = {hosts}
  Target = {host}
  Credential = {root}
  Policy = {ops}
  TimeFrame = {night}
  TargetOf <- MCTargetOf
  ProtocolOf <- MCProtocolOf
  Role <- MCRole
  RoleAssignment <- MCRoleAssignment
  Address = {"office", "home"}
  PolicyForm <- MCPolicyForm
  GroupForm <- MCGroupForm
  FrameForm <- MCFrameForm
  TargetGroupForm <- MCTargetGroupForm
  Switchable = {root}
  DayLength = 3
  Horizon = 2
  NoTime = NoTime
  Request = {r1, r2}
  Duration = {1}
  NoUser = NoUser
  NoRow = NoRow
  Lease = {l1}
  Enrolled = {bob}
  TotpCredential = {root}
  LeaseLifetime = 1
  TotpLifetime = 1
  MfaWindow = 1
  NoLease = NoLease
  Campaign = {k1}
  NoItem = NoItem
SYMMETRY MCSymmetry
INVARIANTS
  WindowsWrapAround
  
  SecretsAreApproved
  TotpFollowsReveal

  
  
CHECK_DEADLOCK FALSE
