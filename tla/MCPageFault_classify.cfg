\* One thread, every origin, address class and resolver result.
SPECIFICATION Spec
CONSTANTS
  NoVma = NoVma
  NoPkey = NoPkey
  UserPages <- MC_UserPages
  TASK_SIZE_MAX = 4
  VSYSCALL_ADDR = 5
  VmaIds <- MC_VmaIds
  InitVmas <- MC_InitVmas
  STACK_GUARD_GAP = 1
  Pkeys = {0, 1}
  DeniedPkeys = {1}
  ProtChoices <- MC_Protections
  Threads = {t1}
  FaultAddrs = {0, 1, 2, 4, 5}
  AccessKinds = {"read", "write", "exec"}
  Origins <- MC_AllOrigins
  MmFaultResults <- MC_AllResults
  SMAP = FALSE
  PrefetchFaults = TRUE
  MaxFaults = 2
  MaxWrites = 2
INVARIANT TypeOK
INVARIANT SupervisorFaultNeverSignalled
INVARIANT SignalArchinfoCurrent
