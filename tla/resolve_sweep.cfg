\* A sweep, and an up right after it.
SPECIFICATION SweepSpec
CONSTANTS
  Devs = {d1, d2}
  Addrs = {h1, h2}
  Nodes = {sda, sdb}
  DevTs <- TwoNumbers
  None = None
SYMMETRY Symmetry
PROPERTIES OwnDisk
