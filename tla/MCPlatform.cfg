SPECIFICATION MCSpec
CONSTANTS
  MfaWorker = {w1, w2}
  Device = {1, 2}
  MaxSecret = 2
  MaxBatch = 2
  LastCounter = 1
  NoDevice = NoDevice
  NoCounter = NoCounter
  Thread = {w1, w2}
  MaxLogin = 1
  WebHorizon = 4
  SecurityForm <- MCSecurityForm
  NoSession = NoSession
  NoRequest = NoRequest
  Never = Never
  ad = ad
  idp = idp
  wheel = wheel
  team = team
  staff = staff
  ops = ops
  Ldap = {ad}
  Oidc = {idp}
  Mapping = {wheel, team}
  SourceOf <- MCSourceOf
  UserGroup = {staff, ops}
  MappingForm <- MCMappingForm
  SourceForm <- MCSourceForm
  Syncer = {y1}
  NoUserGroup = NoUserGroup
  NoEntry = NoEntry
  Saver = {w1, w2}
  Settings <- MCSettings
  MaxRows = 7
  NoLimit = NoLimit
  NoDocument = NoDocument
  Page <- MCPage
  Ladder <- MCLadder
  Rival = {69, 80}
  TopRisks = 1
  HostKey = {k1, k2}
  Link = {w1, w2}
  NoKey = NoKey
  Caller = {w1, w2}
  Limit = 2
  Window = 3
  Delay = 1
  KeyringHorizon = 6
  NoStamp = NoStamp
SYMMETRY MCSymmetry
INVARIANTS
  ConfirmedByItsSecret
  AcceptedOnce
  RecoveryCodesOnce
  
  
  
  
  ReopeningAddsNothing
  CriticalIsReported
  OpensOnTrustedKeys
  LearnsOneKey
  AdmitsTheLimit
PROPERTIES
  LooserIsRiskier
  OnlyBusyIsRefused
CHECK_DEADLOCK FALSE
