SPECIFICATION MigrationSpec
CONSTANTS
  Passwords = {p1, p2}
  Salts = {s1, s2, s3, s4}
  SessionRows = {session}
  OauthRows = {oauth}
  None = None
  Torn = Torn
  IOErrors = TRUE
INVARIANT TypeOK
INVARIANT NeverHalfMigrated
INVARIANT SaltSurvives
INVARIANT LiveKeyIsVaultKey
INVARIANT QuietVaultConsistent
PROPERTY AnswersHonest
PROPERTY ImplementsPasswordChange
