SPECIFICATION AccessSpec
CONSTANTS
  c1 = c1
  c2 = c2
  a1 = a1
  a2 = a2
  k1 = k1
  s1 = s1
  s2 = s2
  home = home
  proxy = proxy
  away = away
  Clients = {c1}
  Admins = {a1}
  Keys = {k1}
  Kids = {s1, s2}
  Addresses = {home, proxy, away}
  TrustedProxies = {proxy}
  RoleOf <- MCRoleOf
  Limits <- MCTwoLimits
  Calls <- MCCalls
  Expiries = {1}
  Modes = {"disabled"}
  Backends <- MCBackends
  Window = 4
  JwksTtl = 1
  RevokeTries = 2
  RevokeAttempts = 1
  Watched <- MCWatched
  MaxCalls <- MCMaxCalls
  Horizon <- MCHorizon
INVARIANT RefusedOnlyOverLimit
CHECK_DEADLOCK FALSE
