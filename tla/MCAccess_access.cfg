SPECIFICATION FairAccessSpec
CONSTANTS
  c1 = c1
  c2 = c2
  a1 = a1
  a2 = a2
  k1 = k1
  s1 = s1
  s2 = s2
  home = home
  proxy = proxy
  away = away
  Clients = {c1, c2}
  Admins = {a1}
  Keys = {k1}
  Kids = {s1, s2}
  Addresses = {home, proxy, away}
  TrustedProxies = {proxy}
  RoleOf <- MCRoleOf
  Limits <- MCLimits
  Calls <- MCCalls
  Expiries = {1}
  Modes = {"disabled", "api_key", "oidc", "hybrid"}
  Backends <- MCBackends
  Window = 4
  JwksTtl = 1
  RevokeTries = 2
  RevokeAttempts = 1
  Watched <- MCWatched
  MaxCalls <- MCMaxCalls
  Horizon <- MCHorizon
INVARIANTS RevocationReported AdmissionsBounded
PROPERTIES CredentialsRespected WithdrawnKeyRefused RotatedKeyAccepted RequestsEnd
CHECK_DEADLOCK FALSE
