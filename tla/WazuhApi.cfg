SPECIFICATION FairSpec
CONSTANTS
  TTL = 3
  Lifetime = 5
  MaxDelay = 2
  MaxRestarts = 2
  NoToken = NoToken
INVARIANTS AtMostTwoLogins NeverRacesExpiry
PROPERTIES RetryRecovers EveryGetEnds
