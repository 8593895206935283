---------------------------- MODULE VmallocSync -----------------------------
(***************************************************************************)
(* Lazy synchronisation of vmalloc mappings on x86-32 (arch/x86/mm/       *)
(* fault.c, CONFIG_X86_32).  Every process has its own copy of the kernel  *)
(* pmd entries in its pgd.  vmalloc installs a pmd in the reference table  *)
(* (init_mm) and calls arch_sync_kernel_mappings(), which copies it into   *)
(* every pgd on pgd_list under pgd_lock.  A vmalloc that finds the pmd     *)
(* already present does not sync, so a process may still miss it: its     *)
(* first access faults, and vmalloc_fault() copies the pmd from the        *)
(* reference table without taking any lock.                                *)
(*                                                                         *)
(* A pgd lives as long as its mm_struct: mm_users counts the tasks using   *)
(* the address space, mm_count the references to the structure, all users *)
(* together holding one (include/linux/mm_types.h).  A CPU switching to a  *)
(* kernel thread keeps the previous mm loaded (lazy TLB) and holds an      *)
(* mm_count reference to it; init_mm (mm/init-mm.c), whose pgd is the     *)
(* reference table swapper_pg_dir, is where the CPUs start.               *)
(***************************************************************************)
EXTENDS Naturals, FiniteSets

CONSTANTS
  Procs,        \* processes, each with its own pgd
  InitProcs,    \* processes alive at the start
  Cpus,         \* CPUs accessing vmalloc memory
  Areas,        \* vmalloc() calls
  Slots,        \* pmd slots of the vmalloc range
  AreaSlot,     \* the slot each area lies in
  MaxAccesses,  \* accesses per CPU
  MaxUsers      \* tasks sharing one mm

None == "none"

\* init_mm: the kernel's mm_struct, never on pgd_list.
InitMm == "init_mm"
Mms == Procs \cup {InitMm}

VARIABLES
  ref,       \* init_mm.pgd: slot -> pmd present
  pgd,       \* proc -> slot -> pmd present in that process's pgd
  pgdList,   \* pgd_list: the pgds arch_sync_kernel_mappings() visits
  alive,     \* processes whose pgd is allocated
  lockOwner, \* pgd_lock: None, the area syncing or the pgd being built
  vm,        \* area -> [pc, synced, todo]: the vmalloc() calls
  mapped,    \* areas whose ptes are installed
  cpu,       \* cpu -> [pc, proc, area, outcome]
  naccesses,
  users,     \* mm -> mm_users
  count,     \* mm -> mm_count
  active,    \* cpu -> the mm whose pgd is loaded (active_mm)
  lazy,      \* cpu -> runs a kernel thread on a borrowed mm
  freed      \* processes whose pgd has been freed (a pid is not reused)

vars == <<ref, pgd, pgdList, alive, lockOwner, vm, mapped, cpu, naccesses,
          users, count, active, lazy, freed>>
mmvars == <<users, count, active, lazy, freed>>

\* The pgd of an mm: init_mm.pgd is swapper_pg_dir, the reference table.
PgdOf(g) == IF g = InitMm THEN ref ELSE pgd[g]

-----------------------------------------------------------------------------
(* vmalloc() and arch_sync_kernel_mappings().                              *)

\* vmap_range(): the area's ptes are installed; if its pmd was absent from
\* the reference table it is allocated there, and the caller must sync.
VmapRange(v) ==
  LET s == AreaSlot[v] IN
  /\ vm[v].pc = "idle"
  /\ ref' = [ref EXCEPT ![s] = TRUE]
  /\ mapped' = mapped \cup {v}
  /\ vm' = [vm EXCEPT ![v].pc = IF ref[s] THEN "done" ELSE "sync",
                      ![v].synced = ~ref[s]]
  /\ UNCHANGED <<pgd, pgdList, alive, lockOwner, cpu, naccesses, mmvars>>

\* Mutation: the walk of pgd_list starts without pgd_lock.
SyncStartNoLock(v) ==
  /\ vm[v].pc = "sync"
  /\ vm' = [vm EXCEPT ![v].pc = "walk", ![v].todo = pgdList]
  /\ UNCHANGED <<ref, pgd, pgdList, alive, lockOwner, mapped, cpu, naccesses, mmvars>>

\* arch_sync_kernel_mappings(): spin_lock(&pgd_lock), then walk pgd_list.
SyncStart(v) ==
  /\ vm[v].pc = "sync" /\ lockOwner = None
  /\ lockOwner' = v
  /\ vm' = [vm EXCEPT ![v].pc = "walk", ![v].todo = pgdList]
  /\ UNCHANGED <<ref, pgd, pgdList, alive, mapped, cpu, naccesses, mmvars>>

\* Mutation: vmalloc_sync_one() leaves out the set_pmd().
VmallocSyncOneNoSet(g, s) == [present |-> ref[s], pgd |-> PgdOf(g)]

\* Mutation: vmalloc_sync_one() tests the process's pmd instead of the
\* reference one before returning NULL.
VmallocSyncOneWrongPmd(g, s) ==
  [present |-> PgdOf(g)[s], pgd |-> [PgdOf(g) EXCEPT ![s] = ref[s] \/ @]]

\* vmalloc_sync_one(): copy the reference pmd if the process's differs
\* in presence; the result says whether the reference pmd is present
\* (pmd_k, or NULL).  The BUG_ON on differing pfns cannot fire: a pmd of
\* the vmalloc range is never freed or replaced.  For init_mm pgd is
\* pgd_k and nothing changes.
VmallocSyncOne(g, s) ==
  [present |-> ref[s], pgd |-> [PgdOf(g) EXCEPT ![s] = ref[s]]]

\* One pgd of the list: spin_lock(pgt_lock) and vmalloc_sync_one().
SyncOne(v) ==
  /\ vm[v].pc = "walk"
  /\ \E g \in vm[v].todo :
       /\ pgd' = [pgd EXCEPT ![g] = VmallocSyncOne(g, AreaSlot[v]).pgd]
       /\ vm' = [vm EXCEPT ![v].todo = @ \ {g}]
  /\ UNCHANGED <<ref, pgdList, alive, lockOwner, mapped, cpu, naccesses, mmvars>>

\* spin_unlock(&pgd_lock): vmalloc() returns the area.
SyncEnd(v) ==
  /\ vm[v].pc = "walk" /\ vm[v].todo = {}
  /\ vm' = [vm EXCEPT ![v].pc = "done"]
  /\ lockOwner' = IF lockOwner = v THEN None ELSE lockOwner
  /\ UNCHANGED <<ref, pgd, pgdList, alive, mapped, cpu, naccesses, mmvars>>

-----------------------------------------------------------------------------
(* Processes: pgd_alloc() and pgd_free() (arch/x86/mm/pgtable.c), and the *)
(* mm_struct reference counts that decide when pgd_free() runs.            *)

\* pgd_alloc(): spin_lock(&pgd_lock), then pgd_ctor() clones the kernel
\* part of swapper_pg_dir ...
PgdCtorClone(g) ==
  /\ g \notin alive /\ g \notin freed /\ lockOwner = None
  /\ lockOwner' = g
  /\ pgd' = [pgd EXCEPT ![g] = ref]
  /\ UNCHANGED <<ref, pgdList, alive, vm, mapped, cpu, naccesses, mmvars>>

\* ... and puts the pgd on pgd_list; spin_unlock(&pgd_lock).  The new mm
\* has one user, its first task, and one mm_count for its users.
PgdCtorListAdd(g) ==
  /\ lockOwner = g
  /\ lockOwner' = None
  /\ pgdList' = pgdList \cup {g}
  /\ alive' = alive \cup {g}
  /\ users' = [users EXCEPT ![g] = 1]
  /\ count' = [count EXCEPT ![g] = 1]
  /\ UNCHANGED <<ref, pgd, vm, mapped, cpu, naccesses, active, lazy, freed>>

\* __mmdrop() after the last mmdrop(): pgd_free(), whose pgd_dtor() takes
\* the pgd off pgd_list under pgd_lock.
PgdFree(g) ==
  /\ g \in alive /\ count[g] = 0 /\ lockOwner = None
  /\ pgdList' = pgdList \ {g}
  /\ alive' = alive \ {g}
  /\ freed' = freed \cup {g}
  /\ UNCHANGED <<ref, pgd, lockOwner, vm, mapped, cpu, naccesses, users, count,
                 active, lazy>>

\* The tasks of g on CPUs.
Running(g) == {c \in Cpus : active[c] = g /\ ~lazy[c]}

\* mmgrab() and mmdrop() on mm_count.
mmgrab(cnt, g) == [cnt EXCEPT ![g] = @ + 1]
mmdrop(cnt, g) == [cnt EXCEPT ![g] = @ - 1]

\* Mutation: the previous mm of a lazy CPU is not dropped.
SwitchToTaskNoDrop(c, g) ==
  /\ cpu[c].pc = "idle" /\ g \in alive
  /\ users[g] > Cardinality(Running(g))
  /\ active' = [active EXCEPT ![c] = g]
  /\ lazy' = [lazy EXCEPT ![c] = FALSE]
  /\ UNCHANGED <<users, count, freed>>

\* context_switch() to a task of g: switch_mm() loads g's pgd; a kernel
\* thread's borrowed mm is mmdrop()ped in finish_task_switch().
SwitchToTask(c, g) ==
  /\ cpu[c].pc = "idle" /\ g \in alive
  /\ users[g] > Cardinality(Running(g))
  /\ active' = [active EXCEPT ![c] = g]
  /\ lazy' = [lazy EXCEPT ![c] = FALSE]
  /\ count' = IF lazy[c] THEN mmdrop(count, active[c]) ELSE count
  /\ UNCHANGED <<users, freed>>

\* Mutation: the kernel thread borrows the mm without mmgrab().
SwitchToKernelThreadNoGrab(c) ==
  /\ cpu[c].pc = "idle" /\ ~lazy[c]
  /\ lazy' = [lazy EXCEPT ![c] = TRUE]
  /\ UNCHANGED <<users, count, active, freed>>

\* context_switch() from a task to a kernel thread: active_mm stays, and
\* is mmgrab()bed.  (From a kernel thread the reference is handed over.)
SwitchToKernelThread(c) ==
  /\ cpu[c].pc = "idle" /\ ~lazy[c]
  /\ lazy' = [lazy EXCEPT ![c] = TRUE]
  /\ count' = mmgrab(count, active[c])
  /\ UNCHANGED <<users, active, freed>>

\* clone(CLONE_VM) by a task of g: mmget().
CloneVm(c) ==
  LET g == active[c] IN
  /\ cpu[c].pc = "idle" /\ ~lazy[c] /\ users[g] < MaxUsers
  /\ users' = [users EXCEPT ![g] = @ + 1]
  /\ UNCHANGED <<count, active, lazy, freed>>

\* do_exit() -> exit_mm(): mmgrab(mm), current->mm = NULL, then mmput():
\* the last user's __mmput() tears the address space down and mmdrop()s
\* the users' reference.  The exiting task runs on as a lazy one.
ExitMm(c) ==
  LET g == active[c] IN
  /\ cpu[c].pc = "idle" /\ ~lazy[c] /\ g # InitMm
  /\ users' = [users EXCEPT ![g] = @ - 1]
  /\ count' = IF users[g] = 1 THEN count ELSE mmgrab(count, g)
  /\ lazy' = [lazy EXCEPT ![c] = TRUE]
  /\ UNCHANGED <<active, freed>>

SchedStep(c) ==
  /\ \/ \E g \in Procs : SwitchToTask(c, g)
     \/ SwitchToKernelThread(c) \/ CloneVm(c) \/ ExitMm(c)
  /\ UNCHANGED <<ref, pgd, pgdList, alive, lockOwner, vm, mapped, cpu, naccesses>>

-----------------------------------------------------------------------------
(* CPUs: accesses, and the fault path do_kern_addr_fault() ->              *)
(* vmalloc_fault().                                                        *)

\* A CPU touches an area vmalloc() has returned through the pgd loaded.
StartAccess(c) ==
  /\ cpu[c].pc = "idle" /\ naccesses[c] < MaxAccesses
  /\ \E v \in Areas :
       /\ vm[v].pc = "done"
       /\ cpu' = [cpu EXCEPT ![c] = [pc |-> "access", proc |-> active[c],
                                      area |-> v, outcome |-> None]]
  /\ naccesses' = [naccesses EXCEPT ![c] = @ + 1]
  /\ UNCHANGED <<ref, pgd, pgdList, alive, lockOwner, vm, mapped, mmvars>>

\* The MMU walks the pgd of cr3; a missing pmd is a not-present fault with
\* no RSVD, USER or PROT bit, which goes to vmalloc_fault().
Access(c) ==
  LET hit == PgdOf(cpu[c].proc)[AreaSlot[cpu[c].area]] IN
  /\ cpu[c].pc = "access"
  /\ cpu' = [cpu EXCEPT ![c].pc = IF hit THEN "idle" ELSE "fault",
                        ![c].outcome = IF hit THEN "done" ELSE None]
  /\ UNCHANGED <<ref, pgd, pgdList, alive, lockOwner, vm, mapped, naccesses,
                 mmvars>>

\* vmalloc_fault(): sync the pgd of cr3 with the reference table, then
\* check the pte.  On success the access is retried; on -1 the fault is
\* not spurious (it is not-present) and bad_area_nosemaphore() oopses.
VmallocFault(c) ==
  LET g == cpu[c].proc
      s == AreaSlot[cpu[c].area]
      r == VmallocSyncOne(g, s)
  IN
  /\ cpu[c].pc = "fault"
  /\ pgd' = IF g = InitMm THEN pgd ELSE [pgd EXCEPT ![g] = r.pgd]
  /\ cpu' = [cpu EXCEPT ![c].pc = IF r.present /\ cpu[c].area \in mapped
                                  THEN "access" ELSE "idle",
                        ![c].outcome = IF r.present /\ cpu[c].area \in mapped
                                       THEN None ELSE "oops"]
  /\ UNCHANGED <<ref, pgdList, alive, lockOwner, vm, mapped, naccesses, mmvars>>

-----------------------------------------------------------------------------
\* After boot: init_mm as mm/init-mm.c defines it (two users, so it is
\* never torn down, and one mm_count), plus the mmgrab(&init_mm) of each
\* CPU's idle task, which runs lazily on it.
Init ==
  /\ ref = [s \in Slots |-> FALSE]
  /\ pgd = [g \in Procs |-> [s \in Slots |-> FALSE]]
  /\ pgdList = InitProcs
  /\ alive = InitProcs
  /\ lockOwner = None
  /\ vm = [v \in Areas |-> [pc |-> "idle", synced |-> FALSE, todo |-> {}]]
  /\ mapped = {}
  /\ cpu = [c \in Cpus |-> [pc |-> "idle", proc |-> None, area |-> None,
                            outcome |-> None]]
  /\ naccesses = [c \in Cpus |-> 0]
  /\ users = [g \in Mms |-> IF g = InitMm THEN 2 ELSE IF g \in InitProcs THEN 1 ELSE 0]
  /\ count = [g \in Mms |-> IF g = InitMm THEN 1 + Cardinality(Cpus)
                            ELSE IF g \in InitProcs THEN 1 ELSE 0]
  /\ active = [c \in Cpus |-> InitMm]
  /\ lazy = [c \in Cpus |-> TRUE]
  /\ freed = {}

VmallocStep(v) == VmapRange(v) \/ SyncStart(v) \/ SyncOne(v) \/ SyncEnd(v)
CpuStep(c) == Access(c) \/ VmallocFault(c)

\* Every vmalloc() has returned and every CPU is idle.
Quiescent ==
  /\ \A v \in Areas : vm[v].pc = "done"
  /\ \A c \in Cpus : cpu[c].pc = "idle"
  /\ UNCHANGED vars

Next ==
  \/ \E v \in Areas : VmallocStep(v)
  \/ \E c \in Cpus : StartAccess(c) \/ CpuStep(c) \/ SchedStep(c)
  \/ \E g \in Procs : PgdCtorClone(g) \/ PgdCtorListAdd(g) \/ PgdFree(g)
  \/ Quiescent

Spec ==
  /\ Init /\ [][Next]_vars
  /\ \A v \in Areas : WF_vars(VmallocStep(v))
  /\ \A c \in Cpus : WF_vars(CpuStep(c))
  /\ \A v \in Areas : SF_vars(SyncStart(v))
  /\ \A g \in Procs : WF_vars(PgdCtorListAdd(g))

-----------------------------------------------------------------------------
(* Properties.                                                             *)

(***************************************************************************)
(* When a vmalloc() that allocated a pmd has returned, every pgd on        *)
(* pgd_list has that pmd (the ARCH_PAGE_TABLE_SYNC_MASK contract).  The  *)
(* clone and list insertion of pgd_ctor() and the walk of                  *)
(* arch_sync_kernel_mappings() all hold pgd_lock, so a process forked      *)
(* during the sync either copies the new pmd or is on the list the sync    *)
(* walks.                                                                  *)
(***************************************************************************)
SyncedAfterVmalloc ==
  \A v \in Areas :
    vm[v].pc = "done" /\ vm[v].synced => \A g \in pgdList : pgd[g][AreaSlot[v]]

(***************************************************************************)
(* An access to memory vmalloc() has returned never oopses, in whatever    *)
(* order the allocations, syncs, forks and faults happen: a pgd that       *)
(* missed the sync gets the pmd from vmalloc_fault().                      *)
(***************************************************************************)
VmallocAccessNeverOops ==
  \A c \in Cpus : cpu[c].outcome # "oops"

(***************************************************************************)
(* Every access ends: vmalloc_fault() leaves the pgd so that the retried   *)
(* access does not fault again.                                            *)
(***************************************************************************)
AccessEnds ==
  \A c \in Cpus : cpu[c].pc # "idle" ~> cpu[c].pc = "idle"

(***************************************************************************)
(* The pgd in any CPU's cr3 is allocated: pgd_free() never frees the pgd   *)
(* of an mm that a CPU still runs on, even lazily in a kernel thread after *)
(* the mm's last task exited, because the borrowing switch, exit_mm() and  *)
(* finish_task_switch() keep mm_count above zero until the last CPU has    *)
(* switched away.  A freed pgd in cr3 is walked by every later access.     *)
(***************************************************************************)
ActiveMmAllocated ==
  \A c \in Cpus : active[c] \in alive \cup {InitMm}

(***************************************************************************)
(* mm_count is exact: one reference for all the users together and one for *)
(* each CPU running lazily on the mm, so an mm no one uses is freed (no    *)
(* leak) and one in use is not (no early free), across forks, thread       *)
(* clones, exits and context switches in any order.                        *)
(***************************************************************************)
MmCountAccounted ==
  \A g \in alive \cup {InitMm} :
    count[g] = (IF users[g] > 0 THEN 1 ELSE 0)
               + Cardinality({c \in Cpus : active[c] = g /\ lazy[c]})

-----------------------------------------------------------------------------
(* Refinement of VmallocAbstract.  An area is returned when its vmalloc()  *)
(* is done; a CPU that faulted on it is still in its access; the page      *)
(* tables, pgd_list, pgd_lock and the sync walk are hidden.                *)

Abs == INSTANCE VmallocAbstract WITH
         Procs <- Mms, InitProcs <- InitProcs \cup {InitMm},
         alive <- alive \cup {InitMm},
         done <- {v \in Areas : vm[v].pc = "done"},
         cpu <- [c \in Cpus |->
                   [cpu[c] EXCEPT !.pc = IF @ = "idle" THEN "idle" ELSE "access"]]

(***************************************************************************)
(* The page-table mechanism implements vmalloc()'s promise: every         *)
(* behaviour of vmap_range(), arch_sync_kernel_mappings(), pgd_alloc(),    *)
(* pgd_free() and the accesses with their vmalloc_fault() retries is one   *)
(* in which a returned area is at once usable from every process, each     *)
(* access completes, and each vmalloc() returns.                           *)
(***************************************************************************)
VmallocRefinesAbstract == Abs!Spec
=============================================================================
