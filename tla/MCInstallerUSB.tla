--------------------------- MODULE MCInstallerUSB ---------------------------
EXTENDS InstallerUSB, TLC

\* Nothing tells paths apart, nor the disks of one kind.
Symmetry == Permutations(Paths) \cup Permutations(Removable) \cup Permutations(Disks \ Removable)
=============================================================================
