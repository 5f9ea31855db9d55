\* A signal while the process holds a Mounted.
SPECIFICATION SweepSpec
CONSTANTS
  n1 = n1  f1 = f1  a1 = a1  b1 = b1
  Names = {n1}
  OurNames = {n1}
  Naas = {a1}
  OurNaas = {a1}
  Mountpoints = {m1}
  SweptMounts = {m1}
  MountsUnreadable = FALSE
  NoName = NoName
  Actors = {p1}
  NoActor = NoActor
  Confs = {c1}
  NoConf = NoConf  NoMount = NoMount  NoDevice = NoDevice
  EnableTries = 1
  UnmountTries = 1
PROPERTIES SignalUnmounts
