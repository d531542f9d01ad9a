SPECIFICATION MCSpec
CONSTANTS
  Callers = {c1, c2}
  MaxHistory = 8
  MaxRows = 6
  VisaApplications = {v1}
  JobApplications = {j1, j2}
  Reviewers = {w1, w2}
  ReviewLimit = 6
  AgencyAdmins = {m1, m2}
  LastApproval = 3
  s1 = s1
  s2 = s2
  s3 = s3
  s4 = s4
  k1 = k1
  d1 = d1
  d2 = d2
  SessionRequests = {s1, s2, s3, s4}
  SessionScenarios <- MCSessionScenarios
  BackupCodes = {d1, d2}
  ResetLinks = {k1}
  SessionCrashAllowed = TRUE
  FactorRequests = {s1, s2}
  LastSecret = 3
  SecretBytes <- MCSecrets
  TimeStep = 3
  Drift = 4
  LastSecond = 8
  Attempts = {q1, q2, q3}
  MaxAttempts = 3
  CountLimit = 6
  ThrottleCrashAllowed = TRUE
  RoleUsers = {u1, u2}
  FirstAdmin = u1
  OtherRoles = {"OPS_SUPPORT"}
  RoleRequests = {m1, m2}
INVARIANTS
  OfficeTypeOK
  HistoriesSound
  AccountsSound
  SecretsSurviveEncoding
  SomeoneManagesRoles
PROPERTIES
  StatusFollowsTable
  FirstApprovalKept
  LockoutEnds
  ChangesAreAuthorised
CHECK_DEADLOCK FALSE
