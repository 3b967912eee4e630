\* A load or a generation may race a save or another load between its two locks.  No
\* symmetry, which liveness checking does not allow.
CONSTANTS
  Procs = {p1, p2}
  NoProc = NoProc
  Configs <- ImageConfigs
  NoConfig = NoConfig
  Default <- ImageDefault
  Norm <- ImageNorm
  CachesRaw = TRUE
  StreamLines <- MCStreamLines
SPECIFICATION GenFairSpec
INVARIANTS RestartKeepsMeaning SaveRepairs KeyWithItsURL StreamsRead
PROPERTIES LoadsCurrent NoTornLoad RequestsEnd
