\* Two requests at a time everywhere; guard, cache and rate table with less room than keys.
SPECIFICATION Spec
CONSTANTS
  k1 = k1
  k2 = k2
  r1 = r1
  r2 = r2
  i1 = i1
  i2 = i2
  u1 = u1
  Secrets = {k1, k2}
  Requests = {r1, r2}
  Ttl = 2
  Deadline = 2
  CpAge = 1
  NodeAge = 2
  UpTimeout = 1
  CacheMax = 1
  MaxReaders = 1
  Addresses = {i1, i2}
  Usernames = {u1}
  Attempts = {r1, r2}
  MaxPerIp = 2
  MaxPerUsername = 2
  Window = 1
  Lockout = 2
  BlockedInterval = 1
  BucketLimit = 2
  Logins = {r1, r2}
  Emails = {u1}
  Passwords = {k1, k2}
  MaxConcurrent = 1
  SessionTtl = 1
  MaxDeletions = 1
  MaxSessions = 2
  MaxLag = 1
  Pairs = {i1, i2}
  BurstLimit = 2
  BurstWindow = 2
  SustainedLimit = 3
  SustainedWindow = 4
  MaxTrackedKeys = 1
  MaxWait = 1
  RateWorkers = {r1, r2}
  SecretReads = 2
INVARIANT RateLimitPromise
PROPERTIES
  ProxyPromise
  GuardPromise
  AccountPromise
  LocksAndSessionsEnd
