\* One goroutine and an untouched key.
CONSTANTS
  Procs = {p1}
  NoProc = NoProc
  Addresses = {"A"}
  Passwords = {"empty", "right"}
  Settings <- RedisSettings
  NoSettings = NoSettings
  Server <- RedisServer
  KeyOf <- RedisKey
  Accepted <- MCAccepted
  Malformed = {}
  Handles = {h1, h2}
  NoHandle = NoHandle
  PingTimesOut = TRUE
  Readers = {p1}
  Keys <- MCKeys
  Cursors = 3
  Bucket <- MCBucket
  Limits = {0, 1, 9}
  defaultScanLimit = 2
  maxScanBatches = 2
  Half = 16
  Second = 10
  Words <- MCWords
  Chars = {"x", "blank"}
SPECIFICATION CommandsSpec
INVARIANT TtlShown
