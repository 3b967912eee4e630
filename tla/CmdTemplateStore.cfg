\* One name and one command: two valid templates of different kinds, and blank ones.
\* No symmetry, which liveness checking does not allow.
CONSTANTS
  Procs = {p1, p2}
  NoProc = NoProc
  IDs = {i1, i2, i3}
  TemplateNames = {"ping"}
  Commands = {"select 1"}
  Blank = ""
  Keys <- ValidTemplates
  InvalidKeys <- BlankTemplates
  CustomNames = {}
  NoName = NoName
  AutoName <- TemplateName
SPECIFICATION TemplateFairSpec
INVARIANTS SaveIsIdempotent KindsApart
PROPERTY EveryCallEnds
