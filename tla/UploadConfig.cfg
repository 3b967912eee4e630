\* Two goroutines: an upload may race a save of another bucket.
CONSTANTS
  Procs = {p1, p2}
  NoProc = NoProc
  Configs <- UploadConfigs
  NoConfig = NoConfig
  Default <- UploadDefault
  Norm <- UploadNorm
  CachesRaw = FALSE
  Expiries <- MCExpiries
  Half = 4194304
  Second = 1000
SPECIFICATION ServiceSpec
INVARIANTS CacheIsFile UrlOfItsBucket SignedLasts NoNeedlessOrphan
