CONSTANTS
  p1 = p1
  p2 = p2
  OtherDev = OtherDev
  hello = hello
  missing = missing
  RamDisk0 = RamDisk0
  NULL = NULL
  Procs <- MCProcs
  DevNames <- MCDevNames
  HostNames <- MCHostNames
  HostFiles <- MCHostFiles
  MAX_FILES = 5
  MAX_DEV = 2
  RAMDISK0_BLOCK = 128
  MaxNFile = 7
  PGSIZE = 8
  IntBits = 8
  UBits = 12
  BufVAs = {16, 21, 29}
  Counts = {0, 2, 5, 12}
SPECIFICATION Spec
INVARIANT TypeOK
INVARIANT HostEntriesAreOpen
CHECK_DEADLOCK FALSE
