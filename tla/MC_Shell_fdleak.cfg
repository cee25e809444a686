CONSTANTS
  NPROC = 4
  NPAGES = 30
  MaxCmds = 2
  MaxHeap = 2
  NForks = 2
  ShImage <- MCShImage
  Progs <- MCProgs
  Images <- MCProgs
  NoImage = NoImage
  NULL = NULL
  StackVA = StackVA
  TrapSecVA = TrapSecVA
  FreeVAs = {}
  CodeVA = CodeVA
  DataVA = DataVA
  hello = hello
  missing = missing
  HostNames <- MCHostNames
  HostFiles <- MCHostFiles
  MAX_FILES = 4
  MAX_DEV = 2
  RAMDISK0_BLOCK = 16
  RamDisk0 = RamDisk0
  DevNames = {RamDisk0}
  PGSIZE = 8
  IntBits = 8
  UBits = 12
  CatBufVA = 21
  MAXBUF = 12
SPECIFICATION ShSpec
INVARIANT HostFdsReleased
CHECK_DEADLOCK FALSE
