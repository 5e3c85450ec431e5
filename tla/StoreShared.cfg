SPECIFICATION FairSpec
CONSTANTS
  Daemon = daemon
  NoInode = NoInode
  a1 = a1
  a2 = a2
  b1 = b1
  b2 = b2
  bCR = bCR
  bad = bad
  factory = factory
  key = key
  card = card
  Hole = Hole
  NoRuleset = NoRuleset
  Block <- MCBlock
  TextRead <- MCTextRead
  Parseable <- MCParseable
  Undecodable <- MCUndecodable
  Bundled <- Factory
  Loaders = {daemon, ctl}
  Inodes = {i1, i2, i3}
  Payloads <- MCPayloadsShort
  InitialCaches <- MCJunkCache
  CacheMayFail = TRUE
  MaxKills = 1
INVARIANTS NeverDisarmed
PROPERTIES CellSpec PublishedReachesDaemon
