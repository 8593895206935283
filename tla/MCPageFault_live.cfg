\* Progress of faults and of the mmap_lock writer.
SPECIFICATION Spec
CONSTANTS
  NoVma = NoVma
  NoPkey = NoPkey
  UserPages <- MC_UserPages
  TASK_SIZE_MAX = 4
  VSYSCALL_ADDR = 5
  VmaIds <- MC_VmaIds
  InitVmas <- MC_InitVmas
  STACK_GUARD_GAP = 1
  Pkeys = {0, 1}
  DeniedPkeys = {1}
  ProtChoices <- MC_Protections
  Threads = {t1, t2}
  FaultAddrs = {2}
  AccessKinds = {"write"}
  Origins <- MC_LiveOrigins
  MmFaultResults <- MC_LiveResults
  SMAP = TRUE
  PrefetchFaults = FALSE
  MaxFaults = 1
  MaxWrites = 2
PROPERTY FatalSignalEndsFault
PROPERTY WriterProgress
