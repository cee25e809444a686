CONSTANTS
  NPROC = 3
  NPAGES = 19
  MaxHeap = 1
  Images <- MCImages
  NoImage = NoImage
  NULL = NULL
  StackVA = StackVA
  TrapSecVA = TrapSecVA
  FreeVAs <- MCFreeHeap
  CodeVA = CodeVA
  DataVA = DataVA
SPECIFICATION Spec
INVARIANT TypeOK
INVARIANT NoUseAfterFree
INVARIANT OnlyCodeShared
INVARIANT MappedInfoMatchesPageTable
INVARIANT NoDoubleFree
INVARIANT RunnableHaveCode
PROPERTY LifecycleRefined
CHECK_DEADLOCK FALSE
VIEW View
