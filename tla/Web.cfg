\* Half-second ticks, so that cutting to seconds shows; three tables for two
\* recent ones; two calls, so that one can overtake the other.
CONSTANTS
  Browsers = {b1}
  Names = {"admin", "admin "}
  Passwords = {"pw"}
  Secrets = {s1, s2}
  TTLs = {0, 2}
  DefaultTTL = 3
  Second = 2
  TrimSpace <- MCTrim
  Unset = Unset
  NoCookie = NoCookie
  MaxTime = 3
  Me = b1
  Tables = {t1, t2, t3}
  NoTable = NoTable
  MAX_RECENT_TABLES = 2
  MaxCalls = 2
  MaxLog = 3
SYMMETRY MCSymmetry
SPECIFICATION WebSpec
INVARIANTS Locked SessionLasts PaneOfActiveTable RecentAreLatest
