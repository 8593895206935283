\* Two threads fault on the shared mm while a writer changes its VMAs.
SPECIFICATION Spec
CONSTANTS
  NoVma = NoVma
  NoPkey = NoPkey
  UserPages <- MC_UserPages
  TASK_SIZE_MAX = 4
  VSYSCALL_ADDR = 5
  VmaIds <- MC_VmaIds
  InitVmas <- MC_InitVmas
  STACK_GUARD_GAP = 1
  Pkeys = {0, 1}
  DeniedPkeys = {1}
  ProtChoices <- MC_Protections
  Threads = {t1, t2}
  FaultAddrs = {0, 2}
  AccessKinds = {"read", "write"}
  Origins <- MC_ConcOrigins
  MmFaultResults <- MC_ConcResults
  SMAP = TRUE
  PrefetchFaults = FALSE
  MaxFaults = 1
  MaxWrites = 2
SYMMETRY Symm
INVARIANT PtesWithinVmas
INVARIANT MmapLockProtectsVma
