\* Ups and teardowns back to back.
SPECIFICATION CarefulSpec
CONSTANTS
  Devs = {d1, d2}
  Addrs = {h1, h2}
  Nodes = {sda, sdb, sdc}
  DevTs <- ThreeNumbers
  None = None
SYMMETRY Symmetry
INVARIANTS TypeOK
PROPERTIES OwnDisk
