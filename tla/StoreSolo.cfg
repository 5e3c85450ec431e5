SPECIFICATION FairSpec
CONSTANTS
  Daemon = daemon
  NoInode = NoInode
  a1 = a1
  a2 = a2
  b1 = b1
  b2 = b2
  bCR = bCR
  bad = bad
  factory = factory
  key = key
  card = card
  Hole = Hole
  NoRuleset = NoRuleset
  Block <- MCBlock
  TextRead <- MCTextRead
  Parseable <- MCParseable
  Undecodable <- MCUndecodable
  Bundled <- Factory
  Loaders = {daemon}
  Inodes = {i1, i2}
  Payloads <- MCPayloadsCR
  InitialCaches <- MCCorruptCaches
  CacheMayFail = TRUE
  MaxKills = 2
INVARIANTS TypeOK CacheWhole
PROPERTIES NeverForgets NoRegression PublishedReachesDaemon
