------------------------------ MODULE PageFault ------------------------------
(***************************************************************************)
(* The x86-64 page-fault pipeline of arch/x86/mm/fault.c: exc_page_fault   *)
(* -> handle_page_fault -> do_kern_addr_fault | do_user_addr_fault, and    *)
(* the outcome paths __bad_area_nosemaphore, no_context, mm_fault_error    *)
(* and do_sigbus.                                                          *)
(*                                                                         *)
(* Several threads of one process take faults concurrently on one shared   *)
(* mm.  Another thread of the process changes the VMAs (munmap, mmap,      *)
(* mprotect, pkey_mprotect) holding mmap_lock for writing.  The memory     *)
(* resolver handle_mm_fault, the vsyscall emulator, expand_stack and the   *)
(* MMU that raises the fault are collaborators outside src/ and are        *)
(* modelled from their contracts.                                          *)
(*                                                                         *)
(* Data is abstracted to pages: an address is a page number, a PTE is one  *)
(* of "none", "ro", "rw", and the hardware error code and the vm_fault_t   *)
(* returned by handle_mm_fault are sets of flag names.                     *)
(***************************************************************************)
EXTENDS Naturals, FiniteSets

CONSTANTS
  Threads,         \* tasks of the process; they share one mm
  UserPages,       \* pages below TASK_SIZE_MAX
  TASK_SIZE_MAX,   \* first page of the kernel half of the address space
  VSYSCALL_ADDR,   \* the legacy vsyscall page, above TASK_SIZE_MAX
  FaultAddrs,      \* the addresses CR2 may hold
  VmaIds,          \* the VMAs the mm may contain
  InitVmas,        \* their layout when the process starts
  STACK_GUARD_GAP, \* stack_guard_gap, in pages
  Pkeys,           \* protection keys a VMA may carry
  DeniedPkeys,     \* keys whose access PKRU disables
  ProtChoices,     \* protections mprotect may set
  Origins,         \* who performed the access (user, or kernel code kinds)
  MmFaultResults,  \* vm_fault_t values handle_mm_fault may return
  SMAP,            \* cpu_feature_enabled(X86_FEATURE_SMAP)
  PrefetchFaults,  \* whether a prefetch instruction may raise a fault
  AccessKinds,     \* kinds of access that may fault: read, write, exec
  MaxFaults,       \* faults each thread takes
  MaxWrites,       \* VMA changes the writer makes
  NoVma, NoPkey

\* Hardware error-code bits (arch/x86/include/asm/trap_pf.h).
PF_PROT == "PROT"    PF_WRITE == "WRITE"  PF_USER == "USER"
PF_INSTR == "INSTR"  PF_PK == "PK"
\* vm_fault_t bits (include/linux/mm_types.h).
VM_FAULT_ERROR == {"OOM", "SIGBUS", "SIGSEGV", "HWPOISON", "HWPOISON_LARGE", "FALLBACK"}
VmFlags == {"READ", "WRITE", "EXEC", "GROWSDOWN"}

ASSUME TASK_SIZE_MAX \in Nat /\ VSYSCALL_ADDR > TASK_SIZE_MAX
ASSUME \A p \in UserPages : p < TASK_SIZE_MAX
ASSUME \A o \in Origins : o.sigerr => (o.ctx = "task" /\ o.fixup)

VARIABLES
  pc,          \* per thread: where in the handler it is
  fault,       \* per thread: CR2, hardware error code, origin of the access
  vma,         \* per thread: the vma the handler looked up
  result,      \* per thread: how its last fault ended
  faultPkey,   \* per thread: pkey of the PTE the hardware refused (history)
  nfaults,     \* per thread: faults taken so far
  vmas,        \* mm->mmap: the VMAs of the process
  ptes,        \* the user page table
  readers,     \* threads holding mmap_lock for reading
  writer,      \* "none" or "waiting": a writer queued on mmap_lock
  nwrites,     \* VMA changes made so far
  fatalPending,\* fatal_signal_pending(): SIGKILL queued for the process
  sigPending,  \* per thread: signal_pending()
  thread       \* per thread: tsk->thread.cr2 and .error_code of the last signal

vars == <<pc, fault, vma, result, faultPkey, nfaults, vmas, ptes, readers,
          writer, nwrites, fatalPending, sigPending, thread>>

-----------------------------------------------------------------------------
(* Outcomes of one fault.                                                  *)
\* arch is what the path saved with set_signal_archinfo(), NoArch if nothing.
NoArch == [cr2 |-> 0, err |-> {}]
Outcome(k) == [kind |-> k, sig |-> "none", code |-> "none", info |-> NoPkey, arch |-> NoArch]
Signal(s, c, i) == [Outcome("signal") EXCEPT !.sig = s, !.code = c, !.info = i]
FixupSignal(s, c) == [Outcome("fixup") EXCEPT !.sig = s, !.code = c]

Mapped(v) == vmas[v].mapped
Covers(v, a) == Mapped(v) /\ vmas[v].start <= a /\ a < vmas[v].end
CoveringVma(a) == IF \E v \in VmaIds : Covers(v, a)
                  THEN CHOOSE v \in VmaIds : Covers(v, a) ELSE NoVma

\* find_vma(): the first VMA whose end lies above the address.
FindVma(a) ==
  LET above == {v \in VmaIds : Mapped(v) /\ a < vmas[v].end}
  IN IF above = {} THEN NoVma
     ELSE CHOOSE v \in above : \A w \in above : vmas[v].end <= vmas[w].end

\* vma_is_accessible()
VmaIsAccessible(v) == vmas[v].flags \cap {"READ", "WRITE", "EXEC"} # {}

\* arch_vma_access_permitted(): PKRU is consulted for data accesses only.
ArchVmaAccessPermitted(v, write, execute) ==
  execute \/ vmas[v].pkey \notin DeniedPkeys

\* fault_in_kernel_space() and is_vsyscall_vaddr()
IsVsyscallVaddr(a) == a = VSYSCALL_ADDR
FaultInKernelSpace(a) == ~IsVsyscallVaddr(a) /\ a >= TASK_SIZE_MAX

-----------------------------------------------------------------------------
(* The MMU: when an access faults and which error code it pushes.  The     *)
(* vsyscall page is not mapped (vsyscall=xonly); whether a kernel page is  *)
(* present is not modelled here and is a free choice.                      *)
HwPresent(a, kpresent) ==
  IF a \in UserPages THEN ptes[a] # "none"
  ELSE a # VSYSCALL_ADDR /\ kpresent

HwPkDenied(a, kind) ==
  /\ a \in UserPages /\ ptes[a] # "none" /\ kind # "exec"
  /\ vmas[CoveringVma(a)].pkey \in DeniedPkeys

HwFaults(a, kind, o, kpresent) ==
  IF a \in UserPages
  THEN \/ ptes[a] = "none"
       \/ kind = "write" /\ ptes[a] = "ro"
       \/ HwPkDenied(a, kind)
       \/ kind = "exec" /\ ptes[a] # "none" /\ "EXEC" \notin vmas[CoveringVma(a)].flags
       \/ SMAP /\ ~o.umode /\ ~o.ac
  ELSE o.umode \/ ~kpresent \/ kind = "write"

Bit(b, cond) == IF cond THEN {b} ELSE {}

HwErrorCode(a, kind, o, kpresent) ==
  Bit(PF_PROT, HwPresent(a, kpresent)) \cup Bit(PF_WRITE, kind = "write")
  \cup Bit(PF_INSTR, kind = "exec") \cup Bit(PF_USER, o.pfuser)
  \cup Bit(PF_PK, HwPkDenied(a, kind))

-----------------------------------------------------------------------------
(* Per-fault predicates of the handler, for thread t.                      *)
Addr(t) == fault[t].addr
PF(t, bit) == bit \in fault[t].err
UserMode(t) == fault[t].origin.umode

\* is_prefetch(): an instruction fetch is never a prefetch.
IsPrefetch(t) == ~PF(t, PF_INSTR) /\ fault[t].prefetch

\* set_signal_archinfo() (and __bad_area_nosemaphore() before it): a
\* user-mode access to a kernel address is reported as a protection fault
\* whether or not the page is present.
HideKernelLayout(a, err) == IF a >= TASK_SIZE_MAX THEN err \cup {PF_PROT} ELSE err

\* set_signal_archinfo(): cr2 and error_code saved in tsk->thread for the
\* sigcontext (trap_nr is always X86_TRAP_PF and is left out), recorded
\* in the outcome r of the path that calls it.
SetSignalArchinfo(t, r) ==
  [r EXCEPT !.arch = [cr2 |-> Addr(t),
                      err |-> HideKernelLayout(Addr(t), fault[t].err) \cup {PF_USER}]]

\* no_context(): exception fixup, the prefetch erratum, or oops.
NoContext(t, signal, code) ==
  LET o == fault[t].origin IN
  IF UserMode(t) THEN Outcome("oops")
  ELSE IF o.fixup
       THEN IF o.ctx # "irq" /\ o.sigerr /\ signal # "none"
            THEN SetSignalArchinfo(t, FixupSignal(signal, code))
            ELSE Outcome("fixup")
  ELSE IF IsPrefetch(t) THEN Outcome("ignored")
  ELSE Outcome("oops")

\* __bad_area_nosemaphore(): SIGSEGV for user accesses, else no_context().
BadAreaNosemaphore(t, pkey, code) ==
  IF UserMode(t) /\ PF(t, PF_USER)
  THEN IF IsPrefetch(t) THEN Outcome("ignored")
       ELSE SetSignalArchinfo(t, Signal("SIGSEGV", code, pkey))
  ELSE NoContext(t, "SIGSEGV", code)

\* Mutation: do_sigbus() without the kernel-mode test.
DoSigbusNoModeCheck(t, r) ==
  IF IsPrefetch(t) THEN Outcome("ignored")
  ELSE SetSignalArchinfo(t,
         IF r \cap {"HWPOISON", "HWPOISON_LARGE"} # {}
         THEN Signal("SIGBUS", "BUS_MCEERR_AR",
                     IF "HWPOISON" \in r THEN "PAGE_SHIFT" ELSE "HSTATE_SHIFT")
         ELSE Signal("SIGBUS", "BUS_ADRERR", NoPkey))

\* Mutation: the lsb is set for VM_FAULT_HWPOISON_LARGE only, leaving 0
\* (no granularity) for a VM_FAULT_HWPOISON page.
DoSigbusLargeLsbOnly(t, r) ==
  IF ~PF(t, PF_USER) THEN NoContext(t, "SIGBUS", "BUS_ADRERR")
  ELSE IF IsPrefetch(t) THEN Outcome("ignored")
  ELSE SetSignalArchinfo(t,
         IF r \cap {"HWPOISON", "HWPOISON_LARGE"} # {}
         THEN Signal("SIGBUS", "BUS_MCEERR_AR",
                     IF "HWPOISON_LARGE" \in r THEN "HSTATE_SHIFT" ELSE NoPkey)
         ELSE Signal("SIGBUS", "BUS_ADRERR", NoPkey))

\* Mutation: do_sigbus() forces the signal without set_signal_archinfo().
DoSigbusNoArchinfo(t, r) ==
  IF ~PF(t, PF_USER) THEN NoContext(t, "SIGBUS", "BUS_ADRERR")
  ELSE IF IsPrefetch(t) THEN Outcome("ignored")
  ELSE IF r \cap {"HWPOISON", "HWPOISON_LARGE"} # {}
       THEN Signal("SIGBUS", "BUS_MCEERR_AR",
                   IF "HWPOISON" \in r THEN "PAGE_SHIFT" ELSE "HSTATE_SHIFT")
  ELSE Signal("SIGBUS", "BUS_ADRERR", NoPkey)

\* do_sigbus(): set_signal_archinfo(), then the signal.
DoSigbus(t, r) ==
  IF ~PF(t, PF_USER) THEN NoContext(t, "SIGBUS", "BUS_ADRERR")
  ELSE IF IsPrefetch(t) THEN Outcome("ignored")
  ELSE SetSignalArchinfo(t,
         IF r \cap {"HWPOISON", "HWPOISON_LARGE"} # {}
         THEN Signal("SIGBUS", "BUS_MCEERR_AR",
                     IF "HWPOISON" \in r THEN "PAGE_SHIFT" ELSE "HSTATE_SHIFT")
         ELSE Signal("SIGBUS", "BUS_ADRERR", NoPkey))

\* mm_fault_error()
MmFaultError(t, r) ==
  IF fatalPending /\ ~PF(t, PF_USER) THEN NoContext(t, "none", "none")
  ELSE IF "OOM" \in r
       THEN IF ~PF(t, PF_USER) THEN NoContext(t, "SIGSEGV", "SEGV_MAPERR")
            ELSE Outcome("oom")
  ELSE IF r \cap {"SIGBUS", "HWPOISON", "HWPOISON_LARGE"} # {} THEN DoSigbus(t, r)
  ELSE IF "SIGSEGV" \in r THEN BadAreaNosemaphore(t, NoPkey, "SEGV_MAPERR")
  ELSE Outcome("oops")                                           \* BUG()

\* access_error()
AccessError(t, v) ==
  \/ PF(t, PF_PK)
  \/ ~ArchVmaAccessPermitted(v, PF(t, PF_WRITE), PF(t, PF_INSTR))
  \/ PF(t, PF_WRITE) /\ "WRITE" \notin vmas[v].flags
  \/ ~PF(t, PF_WRITE) /\ PF(t, PF_PROT)
  \/ ~PF(t, PF_WRITE) /\ ~VmaIsAccessible(v)

\* bad_area_access_from_pkeys() (OSPKE enabled)
BadAreaAccessFromPkeys(t, v) ==
  PF(t, PF_PK) \/ ~ArchVmaAccessPermitted(v, PF(t, PF_WRITE), PF(t, PF_INSTR))

\* bad_area_access_error(): the pkey reported is the one the VMA has now.
BadAreaAccessError(t, v) ==
  IF BadAreaAccessFromPkeys(t, v)
  THEN BadAreaNosemaphore(t, vmas[v].pkey, "SEGV_PKUERR")
  ELSE BadAreaNosemaphore(t, NoPkey, "SEGV_ACCERR")

\* emulate_vsyscall(): only a user-mode instruction fetch is emulated.
EmulateVsyscall(t) == PF(t, PF_USER) /\ PF(t, PF_INSTR) /\ ~PF(t, PF_WRITE)

\* Mutation: only a non-fatal signal to a user-mode fault stops the retry.
FaultSignalPendingUserOnly(t, r) ==
  "RETRY" \in r /\ UserMode(t) /\ sigPending[t]

\* fault_signal_pending(): VM_FAULT_RETRY with a signal to deliver.
FaultSignalPending(t, r) ==
  "RETRY" \in r /\ (fatalPending \/ (UserMode(t) /\ sigPending[t]))

\* expand_stack() -> expand_downwards(): the guard gap to the VMA below.
ExpandStackFails(v, a) ==
  /\ a < vmas[v].start
  /\ \E w \in VmaIds \ {v} :
       /\ Mapped(w) /\ vmas[w].end <= vmas[v].start
       /\ "GROWSDOWN" \notin vmas[w].flags /\ VmaIsAccessible(w)
       /\ vmas[w].end + STACK_GUARD_GAP > a

\* The PTE left by a successful handle_mm_fault().
InstalledPte(t) ==
  IF PF(t, PF_WRITE) THEN "rw"
  ELSE IF ptes[Addr(t)] = "none" THEN "ro" ELSE ptes[Addr(t)]

-----------------------------------------------------------------------------
(* Steps of a thread.                                                      *)
\* The fault ends with outcome r; tsk->thread keeps what the path saved.
Finish(t, r) ==
  /\ pc' = [pc EXCEPT ![t] = "idle"]
  /\ result' = [result EXCEPT ![t] = r]
  /\ thread' = IF r.arch # NoArch THEN [thread EXCEPT ![t] = r.arch] ELSE thread

\* The handler's local vma pointer is dead once it leaves good_area.
DropVma(t) == vma' = [vma EXCEPT ![t] = NoVma]

Goto(t, l) == pc' = [pc EXCEPT ![t] = l] /\ UNCHANGED thread

\* mmap_lock is free for a new reader when no writer holds it or waits.
ReadLockFree == writer = "none"

\* The MMU raises a fault on thread t (CR2 and the error code are saved).
HwFault(t) ==
  /\ pc[t] = "idle" /\ nfaults[t] < MaxFaults /\ ~fatalPending
  /\ \E a \in FaultAddrs, kind \in AccessKinds, o \in Origins,
        kp \in BOOLEAN, pf \in BOOLEAN :
       /\ o.umode \/ kind # "exec"
       /\ o.umode /\ ~o.pfuser => FaultInKernelSpace(a)
       /\ pf => PrefetchFaults /\ kind = "read"
       /\ kp => FaultInKernelSpace(a)
       /\ HwFaults(a, kind, o, kp)
       /\ fault' = [fault EXCEPT ![t] = [addr |-> a, origin |-> o, prefetch |-> pf,
                                         err |-> HwErrorCode(a, kind, o, kp)]]
       /\ faultPkey' = [faultPkey EXCEPT ![t] =
                          IF HwPkDenied(a, kind) THEN vmas[CoveringVma(a)].pkey
                          ELSE NoPkey]
  /\ nfaults' = [nfaults EXCEPT ![t] = @ + 1]
  /\ result' = [result EXCEPT ![t] = Outcome("none")]
  /\ Goto(t, "entry")
  /\ UNCHANGED <<vma, vmas, ptes, readers, writer, nwrites,
                 fatalPending, sigPending>>

\* do_kern_addr_fault(): spurious_kernel_fault() reads the kernel page
\* tables, which this module does not model: a write or instruction fetch
\* on a present page may be found spurious.
DoKernAddrFault(t) ==
  \/ /\ fault[t].err \in {{PF_WRITE, PF_PROT}, {PF_INSTR, PF_PROT}}
     /\ Finish(t, Outcome("ignored"))
  \/ Finish(t, BadAreaNosemaphore(t, NoPkey, "SEGV_MAPERR"))

\* handle_page_fault(): route on the faulting address.
HandlePageFault(t) ==
  /\ pc[t] = "entry"
  /\ \/ FaultInKernelSpace(Addr(t)) /\ DoKernAddrFault(t)
     \/ ~FaultInKernelSpace(Addr(t)) /\ Goto(t, "user") /\ UNCHANGED result
  /\ UNCHANGED <<fault, vma, faultPkey, nfaults, vmas, ptes, readers, writer,
                 nwrites, fatalPending, sigPending>>

\* A supervisor access to user memory outside a STAC section.
SmapViolation(t) == SMAP /\ ~PF(t, PF_USER) /\ ~fault[t].origin.ac

\* faulthandler_disabled(): in interrupt or with pagefault_disable().
FaulthandlerDisabled(t) == fault[t].origin.ctx # "task"

\* do_user_addr_fault(), up to taking mmap_lock.
DoUserAddrFault(t) ==
  /\ pc[t] = "user"
  /\ \/ /\ SmapViolation(t) \/ FaulthandlerDisabled(t)
        /\ Finish(t, BadAreaNosemaphore(t, NoPkey, "SEGV_MAPERR"))
     \/ /\ ~SmapViolation(t) /\ ~FaulthandlerDisabled(t)
        /\ IsVsyscallVaddr(Addr(t)) /\ EmulateVsyscall(t)
        /\ Finish(t, Outcome("emulated"))
     \/ /\ ~SmapViolation(t) /\ ~FaulthandlerDisabled(t)
        /\ ~(IsVsyscallVaddr(Addr(t)) /\ EmulateVsyscall(t))
        /\ Goto(t, "trylock") /\ UNCHANGED result
  /\ UNCHANGED <<fault, vma, faultPkey, nfaults, vmas, ptes, readers, writer,
                 nwrites, fatalPending, sigPending>>

\* mmap_read_trylock(); on failure a kernel access with no exception-table
\* entry gives up rather than risk a deadlock.
MmapReadTrylock(t) ==
  /\ pc[t] = "trylock"
  /\ \/ /\ ReadLockFree
        /\ readers' = readers \cup {t} /\ Goto(t, "lookup") /\ UNCHANGED result
     \/ /\ ~ReadLockFree /\ ~UserMode(t) /\ ~fault[t].origin.fixup
        /\ Finish(t, BadAreaNosemaphore(t, NoPkey, "SEGV_MAPERR"))
        /\ UNCHANGED readers
     \/ /\ ~ReadLockFree /\ (UserMode(t) \/ fault[t].origin.fixup)
        /\ Goto(t, "lock") /\ UNCHANGED <<result, readers>>
  /\ UNCHANGED <<fault, vma, faultPkey, nfaults, vmas, ptes, writer, nwrites,
                 fatalPending, sigPending>>

\* retry: mmap_read_lock() blocks until no writer holds or waits.
MmapReadLock(t) ==
  /\ pc[t] = "lock" /\ ReadLockFree
  /\ readers' = readers \cup {t}
  /\ Goto(t, "lookup")
  /\ UNCHANGED <<fault, vma, result, faultPkey, nfaults, vmas, ptes, writer,
                 nwrites, fatalPending, sigPending>>

\* Mutation: the access-error exit forgets mmap_read_unlock().
GoodAreaNoUnlock(t, v) ==
  IF AccessError(t, v)
  THEN Finish(t, BadAreaAccessError(t, v)) /\ UNCHANGED readers /\ DropVma(t)
  ELSE Goto(t, "handle") /\ vma' = [vma EXCEPT ![t] = v]
       /\ UNCHANGED <<result, readers>>

\* good_area: access_error() check, then on to handle_mm_fault().
GoodArea(t, v) ==
  IF AccessError(t, v)
  THEN Finish(t, BadAreaAccessError(t, v)) /\ readers' = readers \ {t}
       /\ DropVma(t)
  ELSE Goto(t, "handle") /\ vma' = [vma EXCEPT ![t] = v]
       /\ UNCHANGED <<result, readers>>

\* Mutation: bad_area() forgets mmap_read_unlock().
BadAreaKeepsLock(t) ==
  /\ UNCHANGED readers
  /\ Finish(t, BadAreaNosemaphore(t, NoPkey, "SEGV_MAPERR"))
  /\ DropVma(t)

\* bad_area(): drop mmap_lock, then __bad_area_nosemaphore().
BadArea(t) ==
  /\ readers' = readers \ {t}
  /\ Finish(t, BadAreaNosemaphore(t, NoPkey, "SEGV_MAPERR"))
  /\ DropVma(t)

\* find_vma() and the classification of the address against it.
LookupVma(t) ==
  LET a == Addr(t)
      v == FindVma(a)
  IN
  /\ pc[t] = "lookup"
  /\ \/ v = NoVma /\ BadArea(t)
     \/ v # NoVma /\ vmas[v].start <= a /\ GoodArea(t, v)
     \/ /\ v # NoVma /\ vmas[v].start > a
        /\ "GROWSDOWN" \notin vmas[v].flags /\ BadArea(t)
     \/ /\ v # NoVma /\ vmas[v].start > a /\ "GROWSDOWN" \in vmas[v].flags
        /\ Goto(t, "expand") /\ vma' = [vma EXCEPT ![t] = v]
        /\ UNCHANGED <<result, readers>>
  /\ UNCHANGED <<fault, faultPkey, nfaults, vmas, ptes, writer, nwrites,
                 fatalPending, sigPending>>

\* expand_stack() under the read lock, then good_area.
ExpandStack(t) ==
  LET a == Addr(t)
      v == vma[t]
  IN
  /\ pc[t] = "expand"
  /\ \/ ExpandStackFails(v, a) /\ BadArea(t) /\ UNCHANGED vmas
     \/ /\ ~ExpandStackFails(v, a)
        /\ vmas' = [vmas EXCEPT ![v].start = IF a < @ THEN a ELSE @]
        /\ GoodArea(t, v)
  /\ UNCHANGED <<fault, faultPkey, nfaults, ptes, writer, nwrites,
                 fatalPending, sigPending>>

\* Mutation: after VM_FAULT_RETRY, go back to good_area with the old vma
\* instead of retaking mmap_lock and looking the VMA up again.
HandleMmFaultRetryToGoodArea(t) ==
  /\ pc[t] = "handle"
  /\ \E r \in MmFaultResults :
       /\ readers' = readers \ {t}
       /\ \/ /\ FaultSignalPending(t, r)
             /\ Finish(t, IF UserMode(t) THEN Outcome("sigreturn")
                          ELSE NoContext(t, "SIGBUS", "BUS_ADRERR"))
             /\ UNCHANGED ptes /\ DropVma(t)
          \/ /\ "RETRY" \in r /\ ~FaultSignalPending(t, r)
             /\ UNCHANGED <<pc, result, ptes, vma, thread>>
          \/ /\ "RETRY" \notin r /\ r \cap VM_FAULT_ERROR # {}
             /\ Finish(t, MmFaultError(t, r)) /\ UNCHANGED ptes /\ DropVma(t)
          \/ /\ "RETRY" \notin r /\ r \cap VM_FAULT_ERROR = {}
             /\ ptes' = [ptes EXCEPT ![Addr(t)] = InstalledPte(t)]
             /\ Finish(t, Outcome("resolved")) /\ DropVma(t)
  /\ UNCHANGED <<fault, faultPkey, nfaults, vmas, writer, nwrites,
                 fatalPending, sigPending>>

\* handle_mm_fault() and what do_user_addr_fault() does with its result.
\* With VM_FAULT_RETRY the resolver has already dropped mmap_lock.
HandleMmFault(t) ==
  /\ pc[t] = "handle"
  /\ \E r \in MmFaultResults :
       /\ readers' = readers \ {t}
       /\ DropVma(t)
       /\ \/ /\ FaultSignalPending(t, r)
             /\ Finish(t, IF UserMode(t) THEN Outcome("sigreturn")
                          ELSE NoContext(t, "SIGBUS", "BUS_ADRERR"))
             /\ UNCHANGED ptes
          \/ /\ "RETRY" \in r /\ ~FaultSignalPending(t, r)
             /\ Goto(t, "lock") /\ UNCHANGED <<result, ptes>>
          \/ /\ "RETRY" \notin r /\ r \cap VM_FAULT_ERROR # {}
             /\ Finish(t, MmFaultError(t, r)) /\ UNCHANGED ptes
          \/ /\ "RETRY" \notin r /\ r \cap VM_FAULT_ERROR = {}
             /\ ptes' = [ptes EXCEPT ![Addr(t)] = InstalledPte(t)]
             /\ Finish(t, Outcome("resolved"))
  /\ UNCHANGED <<fault, faultPkey, nfaults, vmas, writer, nwrites,
                 fatalPending, sigPending>>

-----------------------------------------------------------------------------
(* The environment: signals, and a thread changing the address space.      *)
SendSigkill ==
  /\ ~fatalPending /\ fatalPending' = TRUE
  /\ UNCHANGED <<pc, fault, vma, result, faultPkey, nfaults, vmas, ptes,
                 readers, writer, nwrites, sigPending, thread>>

SendSignal(t) ==
  /\ ~sigPending[t] /\ sigPending' = [sigPending EXCEPT ![t] = TRUE]
  /\ UNCHANGED <<pc, fault, vma, result, faultPkey, nfaults, vmas, ptes,
                 readers, writer, nwrites, fatalPending, thread>>

\* mmap_write_lock(): the writer queues, and new readers queue behind it.
MmapWriteLock ==
  /\ writer = "none" /\ nwrites < MaxWrites
  /\ writer' = "waiting"
  /\ UNCHANGED <<pc, fault, vma, result, faultPkey, nfaults, vmas, ptes,
                 readers, nwrites, fatalPending, sigPending, thread>>

InRange(v, p) == vmas[v].start <= p /\ p < vmas[v].end

\* munmap(): the VMA goes and its PTEs are zapped.
Munmap(v) ==
  /\ Mapped(v)
  /\ vmas' = [vmas EXCEPT ![v].mapped = FALSE]
  /\ ptes' = [p \in UserPages |-> IF InRange(v, p) THEN "none" ELSE ptes[p]]

\* mmap(MAP_FIXED_NOREPLACE) of the VMA at its original place.
MmapFixed(v) ==
  /\ ~Mapped(v)
  /\ \A w \in VmaIds \ {v} : Mapped(w) =>
        vmas[w].end <= InitVmas[v].start \/ InitVmas[v].end <= vmas[w].start
  /\ vmas' = [vmas EXCEPT ![v] = InitVmas[v]]
  /\ UNCHANGED ptes

\* mprotect(): new protection; PTEs lose write, or all access for PROT_NONE.
Mprotect(v, prot) ==
  /\ Mapped(v)
  /\ vmas' = [vmas EXCEPT ![v].flags = (@ \ {"READ", "WRITE", "EXEC"}) \cup prot]
  /\ ptes' = [p \in UserPages |->
                IF ~InRange(v, p) THEN ptes[p]
                ELSE IF prot = {} THEN "none"
                ELSE IF "WRITE" \notin prot /\ ptes[p] = "rw" THEN "ro"
                ELSE ptes[p]]

\* pkey_mprotect(): the VMA and its PTEs take the new key.
PkeyMprotect(v, k) ==
  /\ Mapped(v)
  /\ vmas' = [vmas EXCEPT ![v].pkey = k]
  /\ UNCHANGED ptes

\* The writer, once every reader has left, changes the VMAs and unlocks.
MmapWrite ==
  /\ writer = "waiting" /\ readers = {}
  /\ \E v \in VmaIds :
       \/ Munmap(v)
       \/ MmapFixed(v)
       \/ \E prot \in ProtChoices : Mprotect(v, prot)
       \/ \E k \in Pkeys : PkeyMprotect(v, k)
  /\ writer' = "none"
  /\ nwrites' = nwrites + 1
  /\ UNCHANGED <<pc, fault, vma, result, faultPkey, nfaults, readers,
                 fatalPending, sigPending, thread>>

\* Nothing in flight: the system may stay as it is.
Quiescent ==
  /\ \A t \in Threads : pc[t] = "idle"
  /\ writer = "none"
  /\ UNCHANGED vars

-----------------------------------------------------------------------------
Init ==
  /\ pc = [t \in Threads |-> "idle"]
  /\ fault = [t \in Threads |-> [addr |-> 0, origin |-> CHOOSE o \in Origins : TRUE,
                                 prefetch |-> FALSE, err |-> {}]]
  /\ vma = [t \in Threads |-> NoVma]
  /\ result = [t \in Threads |-> Outcome("none")]
  /\ faultPkey = [t \in Threads |-> NoPkey]
  /\ nfaults = [t \in Threads |-> 0]
  /\ vmas = InitVmas
  /\ ptes = [p \in UserPages |-> "none"]
  /\ readers = {}
  /\ writer = "none"
  /\ nwrites = 0
  /\ fatalPending = FALSE
  /\ sigPending = [t \in Threads |-> FALSE]
  /\ thread = [t \in Threads |-> NoArch]

\* The handler's own steps: these run whenever the CPU runs the thread.
HandlerStep(t) ==
  \/ HandlePageFault(t)
  \/ DoUserAddrFault(t)
  \/ MmapReadTrylock(t)
  \/ MmapReadLock(t)
  \/ LookupVma(t)
  \/ ExpandStack(t)
  \/ HandleMmFault(t)

Next ==
  \/ \E t \in Threads : HwFault(t) \/ HandlerStep(t) \/ SendSignal(t)
  \/ SendSigkill
  \/ MmapWriteLock
  \/ MmapWrite
  \/ Quiescent

Fairness ==
  /\ \A t \in Threads : WF_vars(HandlerStep(t))
  /\ WF_vars(MmapWrite)

Spec == Init /\ [][Next]_vars /\ Fairness

-----------------------------------------------------------------------------
(* Properties.                                                             *)
Pcs == {"idle", "entry", "user", "trylock", "lock", "lookup", "expand", "handle"}
Kinds == {"none", "resolved", "emulated", "ignored", "fixup", "signal", "oom",
          "oops", "sigreturn"}

SegvCodes == {"SEGV_MAPERR", "SEGV_ACCERR", "SEGV_PKUERR"}
\* A result is a bare outcome, SIGSEGV with si_code (and si_pkey for
\* SEGV_PKUERR), SIGBUS with BUS_ADRERR, or BUS_MCEERR_AR with a nonzero
\* si_addr_lsb; an exception fixup may carry the signal it would raise.
Results ==
  {Outcome(k) : k \in Kinds \ {"signal", "fixup"}}
  \cup {Signal("SIGSEGV", c, NoPkey) : c \in SegvCodes \ {"SEGV_PKUERR"}}
  \cup {Signal("SIGSEGV", "SEGV_PKUERR", k) : k \in Pkeys}
  \cup {Signal("SIGBUS", "BUS_ADRERR", NoPkey)}
  \cup {Signal("SIGBUS", "BUS_MCEERR_AR", l) : l \in {"PAGE_SHIFT", "HSTATE_SHIFT"}}
  \cup {Outcome("fixup")}
  \cup {FixupSignal(s, c) : <<s, c>> \in ({"SIGSEGV"} \X SegvCodes) \cup {<<"SIGBUS", "BUS_ADRERR">>}}

\* Every variable has its type, and every signal carries the si_code and
\* extra field do_sigbus() and __bad_area_nosemaphore() give it.
TypeOK ==
  /\ pc \in [Threads -> Pcs]
  /\ \A t \in Threads :
       /\ fault[t].addr \in FaultAddrs \cup {0} /\ fault[t].origin \in Origins
       /\ fault[t].err \subseteq {PF_PROT, PF_WRITE, PF_USER, PF_INSTR, PF_PK}
       /\ [result[t] EXCEPT !.arch = NoArch] \in Results
  /\ vma \in [Threads -> VmaIds \cup {NoVma}]
  /\ faultPkey \in [Threads -> Pkeys \cup {NoPkey}]
  /\ nfaults \in [Threads -> 0..MaxFaults]
  /\ \A v \in VmaIds : vmas[v].flags \subseteq VmFlags /\ vmas[v].pkey \in Pkeys
  /\ ptes \in [UserPages -> {"none", "ro", "rw"}]
  /\ readers \subseteq Threads
  /\ writer \in {"none", "waiting"}
  /\ nwrites \in 0..MaxWrites
  /\ fatalPending \in BOOLEAN
  /\ sigPending \in [Threads -> BOOLEAN]
  /\ \A t \in Threads : thread[t].cr2 \in FaultAddrs \cup {0}
                      /\ thread[t].err \subseteq {PF_PROT, PF_WRITE, PF_USER, PF_INSTR, PF_PK}

(***************************************************************************)
(* Every present PTE lies inside a mapped, accessible VMA, and is writable *)
(* only if the VMA is.  Faults install PTEs under the read lock after      *)
(* looking the VMA up; munmap and mprotect change VMAs and PTEs under the  *)
(* write lock.  A handler that resolved a fault on a VMA looked up before  *)
(* it dropped mmap_lock (the VM_FAULT_RETRY path) would break this.        *)
(***************************************************************************)
PtesWithinVmas ==
  \A p \in UserPages : ptes[p] # "none" =>
     LET v == CoveringVma(p) IN
     /\ v # NoVma
     /\ VmaIsAccessible(v)
     /\ ptes[p] = "rw" => "WRITE" \in vmas[v].flags

LockedPcs == {"lookup", "expand", "handle"}

(***************************************************************************)
(* mmap_lock is held for reading by exactly the threads between taking it *)
(* and the unlock on each exit of do_user_addr_fault (bad_area, the       *)
(* access-error path, the unlock after handle_mm_fault, or the resolver   *)
(* dropping it with VM_FAULT_RETRY), and a thread about to call           *)
(* handle_mm_fault holds the VMA that find_vma returns now.               *)
(***************************************************************************)
MmapLockProtectsVma ==
  /\ readers = {t \in Threads : pc[t] \in LockedPcs}
  /\ \A t \in Threads : pc[t] = "handle" =>
        vma[t] = FindVma(Addr(t)) /\ Covers(vma[t], Addr(t))

(***************************************************************************)
(* A fault raised by supervisor code (no X86_PF_USER) never ends in a     *)
(* signal, whichever of bad_area, mm_fault_error, do_sigbus or the        *)
(* signal-pending retry exit it takes; the one exception is the           *)
(* exception fixup of a uaccess inside vsyscall emulation, which also     *)
(* signals (sig_on_uaccess_err).                                          *)
(***************************************************************************)
SupervisorFaultNeverSignalled ==
  \A t \in Threads : pc[t] = "idle" /\ result[t].sig # "none" =>
     \/ fault[t].origin.pfuser
     \/ result[t].kind = "fixup" /\ fault[t].origin.sigerr

(***************************************************************************)
(* The pkey reported with SEGV_PKUERR is the key of the PTE the hardware  *)
(* refused.  bad_area_access_error() reads vma_pkey() after the fault, so *)
(* a pkey_mprotect() by another thread in between changes what is         *)
(* reported; its comment says so.                                         *)
(***************************************************************************)
ReportedPkeyIsFaultingKey ==
  \A t \in Threads :
     pc[t] = "idle" /\ result[t].code = "SEGV_PKUERR" /\ faultPkey[t] # NoPkey
       => result[t].info = faultPkey[t]

(***************************************************************************)
(* Once SIGKILL is pending, every fault in progress ends, even if the     *)
(* resolver keeps answering VM_FAULT_RETRY: fault_signal_pending() stops  *)
(* the retry loop.                                                        *)
(***************************************************************************)
FatalSignalEndsFault ==
  \A t \in Threads : (fatalPending /\ pc[t] # "idle") ~> pc[t] = "idle"

(***************************************************************************)
(* A writer queued on mmap_lock eventually gets it: every path out of the *)
(* fault handler releases the read lock, and retrying readers queue       *)
(* behind the writer.                                                     *)
(***************************************************************************)
WriterProgress == writer = "waiting" ~> writer = "none"

(***************************************************************************)
(* Whichever path signalled the last fault (__bad_area_nosemaphore, the   *)
(* pkey path, do_sigbus, or the vsyscall uaccess fixup in no_context),    *)
(* tsk->thread holds that fault's address and error code when the signal  *)
(* is delivered, not those of an earlier fault of the task: each of these *)
(* paths must call set_signal_archinfo() before forcing the signal.       *)
(***************************************************************************)
SignalArchinfoCurrent ==
  \A t \in Threads : pc[t] = "idle" /\ result[t].sig # "none" =>
     /\ thread[t].cr2 = Addr(t)
     /\ (thread[t].err \ {PF_PROT}) = (fault[t].err \ {PF_PROT}) \cup {PF_USER}

=============================================================================
