\* Two areas in one pmd slot, two processes, two CPUs, up to two tasks
\* sharing an mm.
SPECIFICATION Spec
CONSTANTS
  Procs = {p1, p2}
  InitProcs = {p1}
  Cpus = {c1, c2}
  Areas = {"a1", "a2"}
  Slots = {"s1"}
  AreaSlot <- MC_AreaSlot
  MaxAccesses = 1
  MaxUsers = 2
INVARIANT SyncedAfterVmalloc
INVARIANT VmallocAccessNeverOops
INVARIANT ActiveMmAllocated
INVARIANT MmCountAccounted
PROPERTY VmallocRefinesAbstract
