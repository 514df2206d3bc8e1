CONSTANTS
  t1 = t1
  t2 = t2
  k1 = k1
  k2 = k2
  Threads = {t1, t2}
  NoThread = NoThread
  Kids = {k1, k2}
  Tokens <- MCTokens
  NoToken = NoToken
  TTL = 2
  ReplyDelay = 1
  MaxTime = 3
  MaxVersions = 1
SPECIFICATION MCSpec
PROPERTY GoodTokenRefusedOnlyByFailure
PROPERTY OnlyAuthorizedServed
PROPERTY KeyRecentlyServed
PROPERTY CacheNeverGoesBack
PROPERTY EveryRequestAnswered
