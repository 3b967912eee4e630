\* Two passwords of one address, of which one is right.  No symmetry, which liveness
\* checking does not allow.
CONSTANTS
  Procs = {p1, p2}
  NoProc = NoProc
  Addresses = {"A"}
  Passwords = {"empty", "right"}
  Settings <- RedisSettings
  NoSettings = NoSettings
  Server <- RedisServer
  KeyOf <- RedisKey
  Accepted <- MCAccepted
  Malformed = {}
  Handles = {h1}
  NoHandle = NoHandle
  PingTimesOut = TRUE
  Readers = {p2}
  Keys <- MCKeys
  Cursors = 3
  Bucket <- MCBucket
  Limits = {0, 3, 9}
  defaultScanLimit = 1
  maxScanBatches = 2
  Half = 16
  Second = 10
  Words <- MCWords
  Chars = {"x", "blank"}
SPECIFICATION CommandsFairSpec
INVARIANTS SavedKeyAnswered ValueOfType ScanComplete WordsKept
PROPERTY RequestsEnd
