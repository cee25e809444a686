CONSTANTS
  NPROC = 3
  NPAGES = 19
  MaxHeap = 1
  Images <- MCImages
  NoImage = NoImage
  NULL = NULL
  StackVA = StackVA
  TrapSecVA = TrapSecVA
  FreeVAs <- MCFreeCode
  CodeVA = CodeVA
  DataVA = DataVA
SPECIFICATION Spec
CHECK_DEADLOCK FALSE
VIEW View
INVARIANT OnlyCodeShared
