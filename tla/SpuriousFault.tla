--------------------------- MODULE SpuriousFault ----------------------------
(***************************************************************************)
(* Faults on kernel addresses on x86-64: do_kern_addr_fault() and its      *)
(* lock-free spurious_kernel_fault() walk of the kernel page tables        *)
(* (arch/x86/mm/fault.c), against CPUs whose TLBs cache translations and   *)
(* against changes of page attributes whose TLB flush comes after the      *)
(* table update.  A fault taken on a stale, less permissive TLB entry is   *)
(* spurious: the handler returns and the access is retried.                *)
(***************************************************************************)
EXTENDS Naturals, FiniteSets

CONSTANTS
  Cpus,         \* CPUs making kernel-address accesses
  Pages,        \* kernel pages
  InitTables,   \* the initial kernel page-table leaves
  Kinds,        \* "read", "write", "exec"
  Origins,      \* [user: BOOLEAN, fixup: BOOLEAN]: who accesses, and
                \* whether the kernel instruction has an exception entry
  MaxAccesses,  \* accesses per CPU
  MaxChanges    \* page-attribute changes and splits

PF_PROT == "PROT"
PF_WRITE == "WRITE"
PF_USER == "USER"
PF_INSTR == "INSTR"

\* The leaf translating a page, and the level it sits at: a 1G page at the
\* pud, a 2M page at the pmd, or a 4K pte.
Leaf == [level: {"pud", "pmd", "pte"}, present: BOOLEAN, write: BOOLEAN,
         nx: BOOLEAN]
\* A TLB entry caches the permissions of a present translation.
NoEntry == [present |-> FALSE]
Perms(l) == [present |-> TRUE, write |-> l.write, nx |-> l.nx]

VARIABLES
  tables,     \* init_mm's page tables: page -> leaf
  tlb,        \* cpu -> page -> cached permissions or NoEntry
  flushPend,  \* pages changed and not yet flushed (cpa_flush())
  pc,         \* cpu -> "idle", "access", "check", "pud", "pmd", "pte"
  acc,        \* cpu -> the access being made
  err,        \* cpu -> hardware error code of the last fault
  outcome,    \* cpu -> how the last access ended
  granted,    \* cpu -> the tables allowed the access throughout (ghost)
  naccesses, nchanges

vars == <<tables, tlb, flushPend, pc, acc, err, outcome, granted,
          naccesses, nchanges>>

\* The permissions the MMU needs: a kernel page is never user-accessible.
Allows(e, a) ==
  /\ e.present /\ ~a.origin.user
  /\ a.kind = "write" => e.write
  /\ a.kind = "exec" => ~e.nx

\* The error code the MMU pushes for a translation that denies access a.
ErrorCode(e, a) ==
  {b \in {PF_PROT, PF_WRITE, PF_USER, PF_INSTR} :
     \/ b = PF_PROT /\ e.present
     \/ b = PF_WRITE /\ a.kind = "write"
     \/ b = PF_INSTR /\ a.kind = "exec"
     \/ b = PF_USER /\ a.origin.user}

Goto(c, l) == pc' = [pc EXCEPT ![c] = l]
Finish(c, o) ==
  /\ pc' = [pc EXCEPT ![c] = "idle"]
  /\ outcome' = [outcome EXCEPT ![c] = o]
  /\ err' = [err EXCEPT ![c] = {}]

-----------------------------------------------------------------------------
(* The CPU.                                                                *)

\* A CPU starts an access to a kernel address.
StartAccess(c) ==
  /\ pc[c] = "idle" /\ naccesses[c] < MaxAccesses
  /\ \E p \in Pages, k \in Kinds, o \in Origins :
       /\ acc' = [acc EXCEPT ![c] = [page |-> p, kind |-> k, origin |-> o]]
       /\ granted' = [granted EXCEPT ![c] =
                        Allows(tables[p], [page |-> p, kind |-> k, origin |-> o])]
  /\ naccesses' = [naccesses EXCEPT ![c] = @ + 1]
  /\ Goto(c, "access")
  /\ UNCHANGED <<tables, tlb, flushPend, err, outcome, nchanges>>

\* The MMU: a TLB hit that allows the access completes it; a miss walks
\* the tables and caches a present translation; a denial raises #PF and
\* drops the TLB entry for the address.
Access(c) ==
  LET a == acc[c]
      e == IF tlb[c][a.page].present THEN tlb[c][a.page] ELSE tables[a.page]
  IN
  /\ pc[c] = "access"
  /\ IF Allows(e, a)
     THEN /\ tlb' = [tlb EXCEPT ![c][a.page] = Perms(e)]
          /\ Finish(c, "done")
     ELSE /\ tlb' = [tlb EXCEPT ![c][a.page] = NoEntry]
          /\ err' = [err EXCEPT ![c] = ErrorCode(e, a)]
          /\ Goto(c, "check")
          /\ UNCHANGED outcome
  /\ UNCHANGED <<tables, flushPend, acc, granted, naccesses, nchanges>>

-----------------------------------------------------------------------------
(* The handler: do_kern_addr_fault() on x86-64.                            *)

\* bad_area_nosemaphore(): SIGSEGV for a user access; a kernel access is
\* fixed up through its exception-table entry or oopses.
BadArea(c) ==
  Finish(c, IF acc[c].origin.user THEN "signal"
            ELSE IF acc[c].origin.fixup THEN "fixup" ELSE "oops")

\* spurious_kernel_fault_check()
SpuriousKernelFaultCheck(ec, l) ==
  /\ PF_WRITE \in ec => l.write
  /\ PF_INSTR \in ec => ~l.nx

\* The walk's verdict on a leaf: spurious (return, retry the access) or
\* not (fall through to bad_area_nosemaphore()).
Verdict(c, l) ==
  IF l.present /\ SpuriousKernelFaultCheck(err[c], l)
  THEN Goto(c, "access") /\ err' = [err EXCEPT ![c] = {}]
       /\ UNCHANGED outcome
  ELSE BadArea(c)

\* Mutation: the error code is tested for the write and protection bits
\* only, so a user access to a kernel page passes the filter.
SpuriousErrorCodeMasked(ec) ==
  {PF_WRITE, PF_PROT} \subseteq ec \/ {PF_INSTR, PF_PROT} \subseteq ec

\* Only a write to a read-only page or a fetch from an NX page, made by
\* the kernel, can be spurious.
SpuriousErrorCode(ec) ==
  ec = {PF_WRITE, PF_PROT} \/ ec = {PF_INSTR, PF_PROT}

\* spurious_kernel_fault(): the error-code filter.  kprobe_page_fault()
\* does not claim faults here.
CheckErrorCode(c) ==
  /\ pc[c] = "check"
  /\ IF SpuriousErrorCode(err[c]) THEN Goto(c, "pud") /\ UNCHANGED <<outcome, err>>
     ELSE BadArea(c)
  /\ UNCHANGED <<tables, tlb, flushPend, acc, granted, naccesses, nchanges>>

\* Mutation: pud_large() is not tested, and a 1G leaf is walked as if it
\* pointed to a pmd table.
WalkPudNoLarge(c) ==
  /\ pc[c] = "pud"
  /\ Goto(c, "pmd") /\ UNCHANGED <<outcome, err>>
  /\ UNCHANGED <<tables, tlb, flushPend, acc, granted, naccesses, nchanges>>

\* pgd, p4d (never large on x86-64) and pud: a large pud is the leaf.
WalkPud(c) ==
  LET l == tables[acc[c].page] IN
  /\ pc[c] = "pud"
  /\ IF l.level = "pud" THEN Verdict(c, l)
     ELSE Goto(c, "pmd") /\ UNCHANGED <<outcome, err>>
  /\ UNCHANGED <<tables, tlb, flushPend, acc, granted, naccesses, nchanges>>

\* pmd: absent below a 1G leaf, the leaf if large, else a pte table.
WalkPmd(c) ==
  LET l == tables[acc[c].page] IN
  /\ pc[c] = "pmd"
  /\ CASE l.level = "pud" -> BadArea(c)
       [] l.level = "pmd" -> Verdict(c, l)
       [] OTHER -> Goto(c, "pte") /\ UNCHANGED <<outcome, err>>
  /\ UNCHANGED <<tables, tlb, flushPend, acc, granted, naccesses, nchanges>>

\* pte, then the pmd pointing to it, which the kernel maps _KERNPG_TABLE
\* (writable, executable), so its check passes.
WalkPte(c) ==
  LET l == tables[acc[c].page] IN
  /\ pc[c] = "pte"
  /\ IF l.level = "pte" THEN Verdict(c, l) ELSE BadArea(c)
  /\ UNCHANGED <<tables, tlb, flushPend, acc, granted, naccesses, nchanges>>

-----------------------------------------------------------------------------
(* Kernel page-attribute changes (set_memory_*(), vunmap, split).          *)

\* __change_page_attr(): the leaf gets new permissions or is unmapped;
\* cpa_flush() follows as a separate step.  Accesses in flight that the
\* new leaf no longer allows lose their ghost "granted".
ChangeAttr(p) ==
  /\ nchanges < MaxChanges
  /\ \E w \in BOOLEAN, nx \in BOOLEAN, pr \in BOOLEAN :
       LET l == [tables[p] EXCEPT !.write = w, !.nx = nx, !.present = pr] IN
       /\ l # tables[p]
       /\ tables' = [tables EXCEPT ![p] = l]
       /\ granted' = [c \in Cpus |->
                        granted[c] /\ (acc[c].page = p => Allows(l, acc[c]))]
  /\ flushPend' = flushPend \cup {p}
  /\ nchanges' = nchanges + 1
  /\ UNCHANGED <<tlb, pc, acc, err, outcome, naccesses>>

\* split_large_page(): a large leaf becomes a table of smaller leaves with
\* the same permissions.
SplitLarge(p) ==
  /\ nchanges < MaxChanges /\ tables[p].level # "pte"
  /\ tables' = [tables EXCEPT ![p].level =
                  IF @ = "pud" THEN "pmd" ELSE "pte"]
  /\ flushPend' = flushPend \cup {p}
  /\ nchanges' = nchanges + 1
  /\ UNCHANGED <<tlb, pc, acc, err, outcome, granted, naccesses>>

\* cpa_flush(): every CPU's TLB entry for the page goes.
Flush(p) ==
  /\ p \in flushPend
  /\ flushPend' = flushPend \ {p}
  /\ tlb' = [c \in Cpus |-> [tlb[c] EXCEPT ![p] = NoEntry]]
  /\ UNCHANGED <<tables, pc, acc, err, outcome, granted, naccesses, nchanges>>

-----------------------------------------------------------------------------
Init ==
  /\ tables = InitTables
  \* a CPU may have cached the translation of an earlier access
  /\ tlb \in [Cpus -> {f \in [Pages -> {NoEntry} \cup {Perms(l) : l \in Leaf}] :
                       \A p \in Pages : f[p] \in {NoEntry, Perms(InitTables[p])}}]
  /\ flushPend = {}
  /\ pc = [c \in Cpus |-> "idle"]
  /\ acc = [c \in Cpus |->
              CHOOSE a \in [page: Pages, kind: Kinds, origin: Origins] : TRUE]
  /\ err = [c \in Cpus |-> {}]
  /\ outcome = [c \in Cpus |-> "none"]
  /\ granted = [c \in Cpus |-> FALSE]
  /\ naccesses = [c \in Cpus |-> 0]
  /\ nchanges = 0

CpuStep(c) ==
  \/ Access(c) \/ CheckErrorCode(c) \/ WalkPud(c) \/ WalkPmd(c) \/ WalkPte(c)

\* The system may stop once every CPU is idle and nothing is left to do.
Quiescent ==
  /\ \A c \in Cpus : pc[c] = "idle"
  /\ flushPend = {}
  /\ UNCHANGED vars

Next ==
  \/ \E c \in Cpus : StartAccess(c) \/ CpuStep(c)
  \/ \E p \in Pages : ChangeAttr(p) \/ SplitLarge(p) \/ Flush(p)
  \/ Quiescent

\* A CPU in the fault handler keeps running it; a pending flush is done.
Spec == Init /\ [][Next]_vars
        /\ \A c \in Cpus : WF_vars(CpuStep(c))
        /\ \A p \in Pages : WF_vars(Flush(p))

-----------------------------------------------------------------------------
(* Properties.                                                             *)

(***************************************************************************)
(* A kernel access that the page tables allowed from its start to its end  *)
(* never oopses or is diverted to its fixup: a fault on a stale TLB entry, *)
(* or one racing a split of the large page, is found spurious by the walk  *)
(* of spurious_kernel_fault() and the access retried.                      *)
(***************************************************************************)
PermittedAccessNeverFails ==
  \A c \in Cpus :
    pc[c] = "idle" /\ granted[c] => outcome[c] \in {"none", "done"}

(***************************************************************************)
(* Every access ends: a spurious verdict is given only when the retried    *)
(* access will not fault the same way again, so do_kern_addr_fault()       *)
(* never makes a CPU fault on the same access forever.                     *)
(***************************************************************************)
AccessEnds ==
  \A c \in Cpus : pc[c] # "idle" ~> pc[c] = "idle"
=============================================================================
