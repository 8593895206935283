\* The pkey reported with SEGV_PKUERR against a concurrent pkey_mprotect.
SPECIFICATION Spec
CONSTANTS
  NoVma = NoVma
  NoPkey = NoPkey
  UserPages <- MC_UserPages
  TASK_SIZE_MAX = 4
  VSYSCALL_ADDR = 5
  VmaIds <- MC_VmaIds
  InitVmas <- MC_InitVmas
  STACK_GUARD_GAP = 1
  Pkeys = {0, 1}
  DeniedPkeys = {1}
  ProtChoices <- MC_Protections
  Threads = {t1, t2}
  FaultAddrs = {0}
  AccessKinds = {"read"}
  Origins <- MC_UserOrigins
  MmFaultResults = {{}}
  SMAP = TRUE
  PrefetchFaults = FALSE
  MaxFaults = 1
  MaxWrites = 2
INVARIANT ReportedPkeyIsFaultingKey
