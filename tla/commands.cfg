\* Two shells on one layer; one of them brings its device up and down over it.
SPECIFICATION ObdSpec
CONSTANTS
  n1 = n1  a1 = a1  m1 = m1  cw = cw   l1 = l1
  Names = {n1}
  OurNames = {n1}
  Naas = {a1}
  OurNaas = {a1}
  Mountpoints = {m1}
  SweptMounts = {m1}
  MountsUnreadable = TRUE
  NoName = NoName
  Actors = {p1}
  Shells = {p1, s2}
  Tools = {t1, t2}
  NoActor = NoActor  NoTool = NoTool
  Confs = {cw}
  NoConf = NoConf  NoMount = NoMount  NoDevice = NoDevice
  Layers = {l1}
  NoLayer = NoLayer  NoLaunch = NoLaunch
  Launches <- BothLaunches
  Upper <- OneUpper
  EnableTries = 1
  UnmountTries = 1
INVARIANTS ObdTypeOK CommitReadsWhole OutputsAreOwn
PROPERTIES UpIsAsAsked
