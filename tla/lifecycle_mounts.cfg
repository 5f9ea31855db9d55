\* Two actors on one name and two nexuses, one mountpoint, every retry loop.
SPECIFICATION Spec
CONSTANTS
  n1 = n1  n2 = n2  f1 = f1  a1 = a1  a2 = a2  b1 = b1
  Names = {n1}
  OurNames = {n1}
  Naas = {a1, a2}
  OurNaas = {a1, a2}
  Mountpoints = {m1}
  NoName = NoName
  Actors = {p1, p2}
  Confs = {c1}
  Later = Later  NoConf = NoConf  NoMount = NoMount  NoDevice = NoDevice
  EnableTries = 2
  UnmountTries = 2
SYMMETRY ActorSymmetry
INVARIANTS TypeOK HandleIsUp PersistedIsUp
PROPERTIES ImplementsOwnership TeardownUnpins CallsAreBounded
