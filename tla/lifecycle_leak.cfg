\* A failed up, no process killed.
SPECIFICATION SpecNoCrash
CONSTANTS
  n1 = n1  n2 = n2  f1 = f1  a1 = a1  a2 = a2  b1 = b1
  Names = {n1}
  OurNames = {n1}
  Naas = {a1}
  OurNaas = {a1}
  Mountpoints = {m1}
  NoName = NoName
  Actors = {p1}
  Confs = {c1}
  Later = Later  NoConf = NoConf  NoMount = NoMount  NoDevice = NoDevice
  EnableTries = 1
  UnmountTries = 1
INVARIANTS NothingLeftBehind
