\* Two actors, two names, one nexus between them, another owner's device.
SPECIFICATION Spec
CONSTANTS
  n1 = n1  n2 = n2  f1 = f1  a1 = a1  a2 = a2  b1 = b1
  Names = {n1, n2, f1}
  OurNames = {n1, n2}
  Naas = {a1, b1}
  OurNaas = {a1}
  Mountpoints = {}
  NoName = NoName
  Actors = {p1, p2}
  Confs = {c1}
  Later = Later  NoConf = NoConf  NoMount = NoMount  NoDevice = NoDevice
  EnableTries = 1
  UnmountTries = 1
SYMMETRY ActorSymmetry
INVARIANTS Exclusive HandleIsUp
PROPERTIES ForeignUntouched
