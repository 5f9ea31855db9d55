\* A sweep over leftovers of one actor, one name, one nexus, a foreign device.
SPECIFICATION SweepSpec
CONSTANTS
  n1 = n1  f1 = f1  a1 = a1  b1 = b1
  Names = {n1, f1}
  OurNames = {n1}
  Naas = {a1, b1}
  OurNaas = {a1}
  Mountpoints = {m1}
  SweptMounts = {m1}
  MountsUnreadable = TRUE
  NoName = NoName
  Actors = {p1}
  NoActor = NoActor
  Confs = {c1}
  NoConf = NoConf  NoMount = NoMount  NoDevice = NoDevice
  EnableTries = 1
  UnmountTries = 1
INVARIANTS SweepTypeOK QuietSweepIsComplete
PROPERTIES SweepForeignUntouched OwnResult
