CONSTANTS
  NPROC = 3
  NPAGES = 16
  MaxHeap = 1
  Images <- MCImages
  NoImage = NoImage
  NULL = NULL
  StackVA = StackVA
  TrapSecVA = TrapSecVA
  FreeVAs <- MCFreeHeap
  CodeVA = CodeVA
  DataVA = DataVA
SPECIFICATION Spec
CHECK_DEADLOCK FALSE
VIEW View
INVARIANT ExecArgsFromLivePages
