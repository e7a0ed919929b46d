SPECIFICATION Spec
CONSTANTS
  Paths = {sda, sdb}
  Disks = {u1, u2, d1}
  Removable = {u1, u2}
  Absent = Absent
  MaxCrashes = 1
  MaxReplugs = 2
SYMMETRY Symmetry
INVARIANTS
  USBSound
PROPERTIES
  WritesOwnDisk
CHECK_DEADLOCK FALSE
