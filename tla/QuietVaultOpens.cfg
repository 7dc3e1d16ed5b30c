SPECIFICATION OwnSpec
CONSTANTS
  Passwords = {p1, p2}
  Salts = {s1, s2, s3, s4}
  SessionRows = {session}
  OauthRows = {oauth}
  None = None
  Torn = Torn
  IOErrors = FALSE
INVARIANT QuietVaultOpens
