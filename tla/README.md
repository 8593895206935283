# TLA+ models of the x86 page-fault handler and the slab common code (Linux 5.10.104)

These modules model `arch/x86/mm/fault.c` and `mm/slab_common.c` and check
them with TLC. The handler
decides, for every page fault the MMU raises, whether to resolve it, emulate
it, ignore it, apply an exception fixup, signal the task or oops. It does so
while other threads fault on the same `mm` and while `munmap`, `mmap`,
`mprotect` and `pkey_mprotect` change the VMAs under `mmap_lock`.

## Inventory

### Parts of the system and how they interact

| Part | Code | State it reads or changes |
|---|---|---|
| Dispatcher | `exc_page_fault`, `handle_page_fault` (fault.c 1456-1558) | CR2 and the hardware error code; passes them to one resolver |
| Address Classifier | `fault_in_kernel_space`, `is_vsyscall_vaddr` (805-808, 1155-1166) | the address only |
| Kernel Resolver | `do_kern_addr_fault`, `spurious_kernel_fault`, x86-32 `vmalloc_fault` (1013-1109, 1173-1236) | kernel page tables |
| User Resolver | `do_user_addr_fault` (1241-1436), `access_error` (1114-1153) | `mmap_lock`, the VMA list, PTEs via `handle_mm_fault`, pending signals |
| Outcome Dispatcher | `no_context`, `__bad_area_nosemaphore`, `bad_area`, `bad_area_access_error`, `do_sigbus`, `mm_fault_error` (651-1011) | releases `mmap_lock` on the locked exits; raises the signal or applies the fixup |
| Erratum Filter | `is_prefetch`, `check_prefetch_opcode`, `is_errata93`, `is_errata100`, `is_f00f_bug` (65-151, 446-497) | the faulting instruction bytes |
| Diagnostics | `dump_pagetable`, `show_fault_oops`, `show_ldttss`, `show_signal_msg` | none (printing only) |
| Data types | `mm_types.h`: `vm_area_struct`, `vm_fault_reason`, `VM_FAULT_ERROR`, `mm_struct`'s `mm_users` and `mm_count` | VMA bounds, flags, pkey; fault result bits; mm reference counts |
| `init_mm` | `init-mm.c` 40-53 | the kernel mm: its pgd is `swapper_pg_dir`, its initial counts |
| x86-32 vmalloc sync | `vmalloc_sync_one`, `vmalloc_fault`, `arch_sync_kernel_mappings` (fault.c 157-286) | per-process pgds, `init_mm`'s reference pgd, `pgd_list` under `pgd_lock` |
| kmalloc size classes | `size_index[]`, `kmalloc_slab`, `setup_kmalloc_cache_index_table`, `create_kmalloc_caches` (slab_common.c 598-823) | the size table, the kmalloc cache array |
| kmem_cache life cycle | `find_mergeable`, `create_cache`, `kmem_cache_create_usercopy`, `shutdown_cache`, `kmem_cache_destroy`, `kmem_cache_shrink`, the RCU destroy worker, `cache_random_seq_create` and `freelist_randomize` (slab_common.c 132-538, 877-912); `struct kmem_cache` (slub_def.h 103-186) | `slab_caches`, refcounts, `slab_caches_to_rcu_destroy`, the work item, the random freelist order |
| kmalloc object interface | `kmalloc_order`, `__do_krealloc`, `krealloc`, `kfree_sensitive`, `ksize` (slab_common.c 826-863, 1083-1199) | kmalloc objects, their sizes and contents, the caller's pointer |
| `memory_model.h`, `af_unix.h`, `tcp_states.h` | static data and macros | none at run time |

The Dispatcher hands a fault to the Kernel Resolver or the User Resolver. Both
end in the Outcome Dispatcher, which consults the Erratum Filter before it
signals or oopses. The User Resolver is the only part that runs against other
actors. Other faulting threads share `mmap_lock` as readers. A writer
(`munmap`/`mmap`/`mprotect`/`pkey_mprotect`) waits for the readers to leave
and then changes VMAs and zaps PTEs. Signal senders set pending signals,
which end the `VM_FAULT_RETRY` loop.

### What is hard here

- `handle_mm_fault` may return `VM_FAULT_RETRY` having dropped `mmap_lock`.
  The handler must then retake the lock and look the VMA up again. The old
  `vma` pointer is stale by then.
- Every exit taken under the lock must unlock exactly once. A leak starves
  every later writer.
- The retry loop ends only through `fault_signal_pending` or a non-retry
  result.
- `bad_area_access_error` reports `vma_pkey(vma)`, read under the lock after
  the fault. A concurrent `pkey_mprotect` may have changed it.
- `is_prefetch` decodes instruction bytes by nibble masks and reads the
  byte after 0x0F with a different accessor from the rest.
- `spurious_kernel_fault` walks kernel page tables without a lock, while
  `change_page_attr` splits large pages and flushes TLBs lazily.
- On x86-32 a vmalloc pmd reaches each process's pgd either through
  `arch_sync_kernel_mappings` under `pgd_lock`, racing `pgd_alloc`, or
  lazily through `vmalloc_fault`.
- `size_index[]` is patched at boot for the architecture's
  `KMALLOC_MIN_SIZE`. It must agree with the set of caches that
  `create_kmalloc_caches` creates.
- `krealloc` keeps an object whose `ksize` (its class size, not the size
  asked for) is big enough, and otherwise copies and frees it; a failed
  allocation must leave the old object alone. `kfree_sensitive` must zero
  the whole class size, since callers may use it.
- Merged caches are shared through a refcount. SLAB_TYPESAFE_BY_RCU caches
  are released by a worker after `rcu_barrier`, while new destroys keep
  queueing.
- A kernel-mode access must never get a signal, except through the
  `sig_on_uaccess_err` fixup of vsyscall emulation.
- A signal must carry the address and error code of the fault that raised
  it, and must not tell user space which kernel pages are mapped.
- `mmap_read_trylock` failing in kernel mode without an exception-table entry
  gives up rather than risk a self-deadlock.

## Modules

**`PageFault.tla`** models the Dispatcher, the Address Classifier, the
x86-64 Kernel Resolver at error-code level, the User Resolver, the Outcome
Dispatcher and, abstractly, the Erratum Filter. It also models the concurrent
`mmap_lock` writer.

State:

| Variable | What it is |
|---|---|
| `pc[t]` | which label of the handler thread `t` is at |
| `fault[t]` | address, error code, origin (user mode; `PF_USER`; EFLAGS.AC; an exception-table entry; a pagefault-disabled or irq context; `sig_on_uaccess_err`) and whether it is a prefetch |
| `vma[t]` | the handler's local `vma` pointer |
| `result[t]` | the outcome of the last fault: kind, signal, si_code, si_pkey / si_addr_lsb |
| `faultPkey[t]` | the protection key the MMU checked |
| `vmas` | the VMA table: mapped, start, end, flags, pkey |
| `ptes` | user PTEs: `none`, `ro`, `rw` |
| `readers` | holders of `mmap_lock` for read |
| `writer` | state of the `mmap_lock` writer |
| `fatalPending`, `sigPending[t]` | pending signals |
| `thread[t]` | `tsk->thread.cr2` and `.error_code`, saved by `set_signal_archinfo` for the signal handler |

Actions, in code order:

| Action | Code |
|---|---|
| `HwFault` | the MMU plus `exc_page_fault` |
| `HandlePageFault` | `handle_page_fault`, with `fault_in_kernel_space` |
| `DoKernAddrFault` | `do_kern_addr_fault` |
| `DoUserAddrFault` | the preamble of `do_user_addr_fault`: SMAP, `faulthandler_disabled`, vsyscall emulation |
| `MmapReadTrylock` | `mmap_read_trylock` and its exception-table check |
| `MmapReadLock` | the `retry:` label |
| `LookupVma` | `find_vma` and the `GROWSDOWN` test |
| `ExpandStack` | `expand_stack` |
| `HandleMmFault` | `handle_mm_fault` and what follows it |

`GoodArea` (with `access_error`) and `BadArea` are parts of these actions.
The outcome operators `NoContext`, `BadAreaNosemaphore`, `BadAreaAccessError`,
`DoSigbus` and `MmFaultError` follow their functions branch by branch.
Each signalling branch (`__bad_area_nosemaphore`, `do_sigbus`, the
`sig_on_uaccess_err` fixup of `no_context`) calls `SetSignalArchinfo` itself,
as the code does. That call records the saved cr2 and error code in the
outcome's `arch` field, and `HideKernelLayout` forces `PF_PROT` for addresses
at or above `TASK_SIZE_MAX`. `Finish` copies a recorded `arch` into
`thread[t]`; an outcome without one leaves `thread[t]` as the last signal
left it.

The environment:

- `MmapWriteLock` and `MmapWrite` are a writer that takes `mmap_lock` and
  performs one of `Munmap`, `MmapFixed`, `Mprotect` or `PkeyMprotect`.
- `SendSignal` and `SendSigkill` deliver signals.

Collaborators outside this source tree are modelled from their documented
behaviour:

- `handle_mm_fault` is a nondeterministic member of `MmFaultResults`. On
  success it installs a PTE.
- `expand_stack` obeys the stack guard gap.
- `emulate_vsyscall` handles user instruction fetches only.
- `arch_vma_access_permitted` denies keys in `DeniedPkeys` for data accesses.
- The MMU raises a fault only where the access is not allowed, and sets the
  error-code bits accordingly.

**`MCPageFault.tla`** instantiates the model:

- four user pages: a data VMA at page 0, and a `GROWSDOWN` stack VMA at
  page 3 that may grow to page 2 (the guard gap forbids page 1);
- page 4 is kernel space and page 5 is the vsyscall page;
- origin records for user code, implicit supervisor accesses, `copy_*_user`,
  `*_nofault`, vsyscall uaccess and a wild kernel access.

**`PrefetchQuirk.tla`** models `is_prefetch` and `check_prefetch_opcode`
(fault.c 65-151), one loop iteration per step.

- State: the mode (kernel, 64-bit user, compat user), whether the fault is
  an instruction fetch, the bytes at the IP, the scan position, `prefetch`,
  and the phase.
- `CheckPrefetchOpcode` is the switch on the high nibble, with the same
  masks (`Bitwise`).
- The byte after 0x0F is read through `NofaultByte`. It models
  `get_kernel_nofault`, which x86 refuses for user addresses unless the
  constant `NofaultReadsUser` says otherwise.
- `IsPrefetchInsn` is the reference: valid prefixes for the mode, then
  0F 0D or 0F 18, inside the window.
- `MCPrefetchQuirk.tla` takes twelve byte values: the opcodes, the
  prefixes of every class, and non-prefixes next to them. It uses every
  readable prefix of a 4-byte window (`MaxInsn` = 3).

**`SpuriousFault.tla`** models the kernel-address path of
`do_kern_addr_fault` for a fault on a present page: `spurious_kernel_fault`
and `spurious_kernel_fault_check` (fault.c 1013-1109). CPUs access one kernel
page through a TLB. `__change_page_attr` changes its permissions,
`split_large_page` turns a large pud into smaller entries, and `cpa_flush`
flushes TLBs later. Collaborators outside this tree (`__change_page_attr`,
`split_large_page`, `cpa_flush`, the MMU) are spec_modelled. A fault walks
the live tables without a lock (`WalkPud`, `WalkPmd`, `WalkPte`), stopping at
a large entry. If the walk says spurious the access retries; otherwise it
ends in the fixup or an oops. A ghost variable `granted` records whether the
tables allowed the access throughout.

**`VmallocSync.tla`** models x86-32 lazy vmalloc synchronisation (fault.c
157-286).

- `vmalloc` installs a pmd in `init_mm`'s reference table.
  `arch_sync_kernel_mappings` takes `pgd_lock` and copies the pmd into every
  pgd on `pgd_list`, one step per pgd (`SyncStart`, `SyncOne`, `SyncEnd`).
- `pgd_alloc` is split into a clone under `pgd_lock` and a list insertion
  before the unlock (`PgdCtorClone`, `PgdCtorListAdd`). `pgd_free` removes
  a pgd from the list.
- CPUs running in a process access vmalloc areas. A missing pmd faults into
  `vmalloc_fault`, which calls `vmalloc_sync_one` on the pgd of cr3 without
  a lock. A CPU accesses through the pgd of its `active_mm`.
- Each mm has `users` (`mm_users`) and `count` (`mm_count`), after the
  comments at mm_types.h 524-542: all users together hold one `mm_count`.
  Each CPU has an `active_mm` and a `lazy` flag. The scheduler steps
  (`SchedStep`) are modelled from the documented behaviour of
  `context_switch`, `exit_mm` and `mmput`, which are not in the repository:
  - `SwitchToKernelThread` keeps `active_mm` and `mmgrab`s it (lazy TLB);
  - `SwitchToTask` runs a user of the mm and `mmdrop`s a lazily held one;
  - `CloneVm` adds a user (`CLONE_VM`);
  - `ExitMm` `mmgrab`s the mm, drops the user and leaves the CPU lazy on
    it; the last user's `mmput` gives back the users' shared `mm_count`.
  `PgdFree` runs only when `mm_count` is 0, and a freed mm's pid is never
  reused (`freed`).
- `init_mm` (init-mm.c 40-53) is an mm whose pgd is the reference table
  (`PgdOf`). It starts with `mm_users` 2 and `mm_count` 1 plus one
  `mmgrab` for each CPU's idle task, and every CPU starts lazily on it.
- `Abs` instantiates `VmallocAbstract` with a refinement mapping:
  - an area is returned when its `vmalloc` is done;
  - a CPU that is faulting on an access is still in that access;
  - the page tables, `pgd_list`, `pgd_lock` and the sync walk are hidden.

  Sync steps, faults and `vmalloc_fault` retries are stutters of the
  abstract spec. An oops has no abstract step.

**`VmallocAbstract.tla`** states what `vmalloc` promises, with no page
tables. An area it has returned is usable at once from every process,
alive or forked later. Every access completes, and every `vmalloc`
returns (weak fairness on `Vmalloc` and `Access`).

**`KmallocIndex.tla`** models the kmalloc size classes (slab_common.c
598-823).

- `KMALLOC_MIN_SIZE` is chosen once in `Init` from `MinSizes`, one value
  per build.
- `SetupIndexTable` is `setup_kmalloc_cache_index_table`: the first loop,
  then the fix-ups for 64 and 128, in that order.
- `CreateStep` is one iteration of `create_kmalloc_caches`, with
  kmalloc-96 after kmalloc-64 and kmalloc-192 after kmalloc-128.
- `KmallocSlab` is `kmalloc_slab`: `size_index[]` up to 192 bytes, then
  `fls(size - 1)`.
- `Fls` and the log are RECURSIVE operators.
- `InitSizeIndex` is the static `size_index[]` initialiser.
  `slab_is_available` guards `KmallocSlab`. In `MCKmallocIndex.tla` the
  requests are every size up to 512 and the sizes next to every power of
  two up to one past `KMALLOC_MAX_CACHE_SIZE`, which covers every boundary.
- One kmalloc type is modelled: the normal, reclaim and DMA types use the
  same indices.

**`SlabCache.tla`** models the `kmem_cache` life cycle (slab_common.c
132-508).

- `KmemCacheCreate` is `kmem_cache_create_usercopy` under `slab_mutex`:
  the usercopy fail-closed check, then `__kmem_cache_alias`, then
  `create_cache`.
  - `__kmem_cache_alias` calls `find_mergeable`, with
    `calculate_alignment`, `slab_unmergeable` and the reverse walk of
    `slab_caches`. It takes a reference, or its sysfs alias fails.
  - `create_cache` allocates a structure, sets refcount 1 and adds the
    cache at the head of `slab_caches`. It fails with -ENOMEM when none is
    free.
- `KmemCacheDestroy` drops a reference. The last one runs `ShutdownCache`:
  - -EBUSY with live objects;
  - otherwise off the list, then released at once, or queued for the RCU
    worker with `schedule_work`.
- The worker `slab_caches_to_rcu_destroy_workfn` splices the list under
  the mutex (`WorkSplice`). It waits in `rcu_barrier` until the callbacks
  of its caches have run, then releases them (`WorkRelease`).
- `Alloc`, `Free` and `RcuCallback` stand for SLUB (`mm/slub.c`, not in
  this tree). Freeing in an RCU cache may discard a slab through
  `call_rcu`, whose callback dereferences the cache.
- `KmemCacheShrink` is `kmem_cache_shrink`. It runs without `slab_mutex`
  and discards empty slabs, through `call_rcu` in an RCU cache.
- `create_cache` makes the cache's random freelist order through
  `cache_random_seq_create`, with `SlabObjects` objects per slab. When
  `kcalloc` fails, the structure is freed and `kmem_cache_create` returns
  NULL.
- A cache record holds the fields of `struct kmem_cache` (slub_def.h) that
  the properties tell apart: `refcount`, `size`, the flags as `mergeable`
  and `rcu`, and the list link as membership of `slabCaches`.

**`FreelistRandom.tla`** has no state. It gives `freelist_randomize` as a
RECURSIVE operator: the set of lists the Fisher-Yates loop can produce,
with `rand % (i + 1)` ranging over `0..i`. The reference `Orderings(n)` is
TLC's `Permutations(0..n-1)`. SlabCache instantiates the module.

**`Krealloc.tla`** models the kmalloc object interface (slab_common.c
826-863, 1083-1199).

- Threads each hold one pointer. They call `kmalloc`, write their whole
  usable size, call `ksize` to use the whole object, call `krealloc` with
  the idiom `new = krealloc(p, n); if (new) p = new;`, and call `kfree`
  and `kfree_sensitive`.
- The size of an object is the class that KmallocIndex picks after boot
  patching. `Krealloc` instantiates `KmallocIndex` three times: to read the static
  table, to run `setup_kmalloc_cache_index_table` on it, and to call
  `kmalloc_slab` with the patched table. Above `KMALLOC_MAX_CACHE_SIZE`, `kmalloc_order` gives a
  page block of `PAGE_SIZE << get_order(size)`.
- Object contents are two byte counts:
  - `valid`, the leading bytes that hold the holder's data;
  - `dirty`, the end of any data written.

  `__do_krealloc` keeps the object when `ksize >= new_size`. Otherwise it
  copies `ksize` bytes into a new object, and `krealloc` frees the old one
  unless the allocation failed. Any allocation may fail.
- `kmalloc` and `kfree` (`slab.h`, `mm/slub.c`) are modelled from their
  documented behaviour. KASAN is off.

## Runs

| Run | Checks | Shows |
|---|---|---|
| `conc` | `PtesWithinVmas`, `MmapLockProtectsVma` | Two threads and a writer. No PTE survives outside its VMA or exceeds its permissions. The reader set of `mmap_lock` is exactly the threads at the locked labels. The VMA they hold is the one `find_vma` would return now. |
| `classify` | `TypeOK`, `SupervisorFaultNeverSignalled`, `SignalArchinfoCurrent` | One thread, every origin, address class, access kind and `handle_mm_fault` result, including HWPOISON and OOM. Every outcome is well formed. A kernel-mode fault never signals except through the vsyscall fixup. Whichever path signals, the task's saved cr2 and error code are those of the fault that signalled, not of an earlier fault. |
| `live` | `FatalSignalEndsFault`, `WriterProgress` | With `RETRY` possible forever, a SIGKILL ends every in-flight fault. A waiting writer always gets `mmap_lock`. |
| `pkey_stale` (violation) | `ReportedPkeyIsFaultingKey` | The key in `si_pkey` can differ from the key that faulted. |
| `prefetch` | `PrefetchSound`, `PrefetchCompleteKernel` | In every mode and over every byte string, `is_prefetch` reports a prefetch only for valid prefixes followed by 0F 0D or 0F 18. Every kernel-mode prefetch inside the window is recognised. |
| `prefetch_user` (violation) | `PrefetchComplete` | No user-mode prefetch is recognised. |
| `spurious` | `PermittedAccessNeverFails`, `AccessEnds` | Attribute changes, splits and lazy flushes race the lockless walk. An access the tables allowed throughout never oopses or takes its fixup. Every access ends: a spurious verdict never loops. |
| `vmalloc` | `SyncedAfterVmalloc`, `VmallocAccessNeverOops`, `ActiveMmAllocated`, `MmCountAccounted`, `VmallocRefinesAbstract` | Syncs race forks, exits, context switches and faults. A synced vmalloc leaves every listed pgd with the pmd. No access to returned memory oopses. No CPU's `active_mm` is ever freed, including one borrowed lazily from an exited task. `mm_count` is always one for the users plus one per lazy CPU. The whole mechanism implements `VmallocAbstract`, which also says that every access ends. |
| `kmalloc` | `KmallocServesRequest`, `KmallocBestFit` | For `KMALLOC_MIN_SIZE` from 8 to 128, every request up to 8 KiB goes to the smallest created cache that holds it with the required alignment. |
| `kmalloc_min256` (violation) | `KmallocServesRequest` | With `KMALLOC_MIN_SIZE` = 256, 65-96-byte requests go to a cache that was never created. |
| `slab_lifecycle` | `RefcountMatchesHandles`, `NoReleaseBeforeRcu`, `FreelistShuffleUniform`, `RcuDestroyCompletes` | Two users create, merge, use, shrink and destroy caches, some RCU, while the worker runs. Refcounts equal the handles held and every handle is live. No cache is released under a pending RCU callback. Every live cache's random freelist order can be any ordering of its slab, each from exactly one draw sequence. Every RCU cache shut down is released. |
| `krealloc` | `OwnershipExact`, `HolderSeesOwnData`, `SensitiveFreeZeroed` | Two threads, three objects, four calls each, over the class boundaries 64, 100, 192 and 200 and a page block. Every live object has exactly one holder. A holder never exceeds its object and reads back what it wrote across every `krealloc`. An object freed by `kfree_sensitive` holds no data. |

Each property of a passing run has a mutant in `PROJECT.json`. The mutant
replaces one definition by a plausible bug, and TLC then finds the property
violated:

| Mutant | Breaks |
|---|---|
| retry without relocking | `PtesWithinVmas` |
| `good_area` without unlocking | `MmapLockProtectsVma` |
| `do_sigbus` without the `PF_USER` test | `SupervisorFaultNeverSignalled` |
| `do_sigbus` without `set_signal_archinfo` | `SignalArchinfoCurrent` |
| HWPOISON lsb left 0 | `TypeOK` |
| signal check for user mode only | `FatalSignalEndsFault` |
| `bad_area` keeping the lock | `WriterProgress` |
| 0xF1 taken as a prefix | `PrefetchSound` |
| 0x6? prefix mask 0xE | `PrefetchCompleteKernel` |
| the pud walk ignoring large pages | `PermittedAccessNeverFails` |
| the spurious error-code test masked | `AccessEnds` (spurious) |
| `arch_sync_kernel_mappings` without `pgd_lock` | `SyncedAfterVmalloc` |
| `vmalloc_sync_one` testing the wrong pmd | `VmallocAccessNeverOops` |
| a switch to a kernel thread without `mmgrab` | `ActiveMmAllocated` |
| a switch to a task without `mmdrop` of the lazy mm | `MmCountAccounted` |
| `vmalloc_sync_one` testing the wrong pmd | `VmallocRefinesAbstract` |
| the 128-byte fix-up left out | `KmallocServesRequest` |
| `fls(size)` for `fls(size - 1)` | `KmallocBestFit` |
| alias without a reference | `RefcountMatchesHandles` |
| release without `rcu_barrier` | `NoReleaseBeforeRcu` |
| `schedule_work` lost while the worker runs | `RcuDestroyCompletes` |
| `rand %= i` in the Fisher-Yates loop | `FreelistShuffleUniform` |
| `krealloc` freeing `p` even when the allocation failed | `OwnershipExact` |
| `__do_krealloc` keeping any object whatever its size | `HolderSeesOwnData` |
| `kfree_sensitive` zeroing only the requested size | `SensitiveFreeZeroed` |

### Findings

1. **Stale protection key** (fault.c:936, spec-code divergence).
   `bad_area_access_error` reports `vma_pkey(vma)`, read after the fault
   under `mmap_lock`:
   1. Thread t1 maps page 0 read-only.
   2. `pkey_mprotect` gives the VMA key 1, which is access-denied.
   3. t2's read faults with `PF_PK` on key 1.
   4. `pkey_mprotect` restores key 0.
   5. t2 reports key 0.

   The code's comment admits the race. The spec says the offending key is
   reported.
2. **User prefetches never recognised** (fault.c:97, spec-code divergence).
   `is_prefetch` reads user-mode instruction bytes with `get_user`. The
   byte after 0x0F, however, is read with `get_kernel_nofault`, and x86's
   `copy_from_kernel_nofault_allowed` refuses user addresses. So `0F 0D` or `0F 18` in
   user mode is never taken for a prefetch. The spec says the Erratum
   Filter suppresses spurious prefetch faults.
3. **kmalloc-128 missing at `KMALLOC_MIN_SIZE` = 256** (slab_common.c:743,
   code bug). The BUILD_BUG_ON and the comment permit 256. The first loop
   sets every entry to `KMALLOC_SHIFT_LOW` = 8. The `>= 64` fix-up then
   sets the 72-96-byte entries to 7. `create_kmalloc_caches` starts at
   index 8, so `kmalloc_slab(65..96)` returns NULL. TLC reports it for a
   65-byte request.

### Bounds

- **PageFault:**
  - Two threads are the fewest that interleave on `mmap_lock`.
  - `MaxFaults` = 1 per thread in the concurrent runs and 2 in `classify`.
    With 2, a second fault sees the PTE the first installed.
  - `MaxWrites` = 2 writer operations suffice to unmap then remap, or to
    change a key and change it back.
  - The pages cover every address class: inside a VMA, the stack-growth
    window, the guard gap, kernel space and the vsyscall page.
  - `conc` uses symmetry over the threads. This is sound because threads
    are interchangeable and the properties quantify over all of them.
- **PrefetchQuirk:** a 4-byte window (`MaxInsn` = 3) holds the longest
  interesting case: a prefix, then 0x0F and its successor. A second prefix
  class is reached by the stepwise scan in every position. The byte set
  contains a member of every prefix class and its non-prefix neighbours.
- **SpuriousFault:**
  - two CPUs, so one can change attributes while the other walks;
  - one page, since the walk of each page is independent;
  - two changes or splits: one split plus one permission change, or a
    grant then a revoke;
  - the TLB may start with the initial permissions cached, so stale
    entries occur with one access per CPU.
- **VmallocSync:** two processes, one alive at the start, so a fork can
  race a sync. Two areas share one pmd slot, so the second vmalloc finds
  the pmd present and skips the sync. Two CPUs, one access each.
  `MaxUsers` 2 lets one mm have two users, so an exit need not be the
  last; with two CPUs one can borrow an mm lazily while the other exits
  from it. Pids are not reused, which keeps the state space finite.
- **KmallocIndex:** every permitted `KMALLOC_MIN_SIZE`. `KMALLOC_SHIFT_HIGH`
  is 13, SLUB with 4 KiB pages. The request sizes contain every boundary
  of `size_index[]` and of `fls`.
- **SlabCache:**
  - two users and two cache structures, so a merge can be shared and the
    pool can run out;
  - requests: a 24-byte base cache, which two users creating it share
    by merging; a 20-byte `SLAB_HWCACHE_ALIGN` request, which
    `calculate_alignment` rounds to 32 bytes so that it never merges; an
    RCU cache and a usercopy cache;
  - one object per user, two creates per user, one pending RCU callback
    per cache;
  - four objects per slab of the 24-byte caches, so the shuffle is checked
    against all 24 orderings, and one per slab of the others, which takes
    the `count < 2` exit.
- **Krealloc:**
  - two threads and three objects, so both threads can hold an object
    while one of them moves;
  - four calls per thread: enough to allocate, write, shrink in place
    and free sensitively, or to grow into a new object and free it;
  - sizes 64 (a class exactly), 100 (kmalloc-128), 192 (exactly),
    200 (kmalloc-256) and 8193 (an order-2 page block), and 0;
  - symmetry over threads and over objects. Both are model values that no
    definition orders, and the properties quantify over all of them.

### Fairness

- Weak fairness on each thread's handler steps. A thread that has taken a
  fault runs until it returns. The scheduler may delay it but the code never
  parks it, except on `mmap_lock`, which the model represents as a disabled
  step.
- Weak fairness on the writer's critical section. `mmap_write_lock` is
  granted once readers drain, since rwsem readers queue behind a waiting
  writer.
- No fairness on new faults, signal senders or the writer's arrival. They
  are the environment.
- SpuriousFault and VmallocSync: weak fairness on each CPU's fault steps
  and on the lazy TLB flush, and, in VmallocSync, on each vmalloc. A
  `cpa_flush` IPI is always delivered eventually. Changes, forks and new
  accesses are unfair.
- VmallocSync also assumes strong fairness on `SyncStart` and weak
  fairness on `PgdCtorListAdd`. The first is justified because `pgd_lock`
  is a queued spinlock, granted in FIFO order: forks and exits cannot keep
  taking it ahead of a waiting sync. The second holds because a spinlock
  critical section runs to its end. Without the first, TLC finds a fork and
  exit loop that keeps a `vmalloc` from ever returning, which breaks the
  refinement.
- The scheduler steps of VmallocSync (switches, `CLONE_VM`, exits) have
  no fairness: the scheduler is the environment, and the properties about
  them are invariants. Every access ends by the refinement alone, because
  `VmallocAbstract` has weak fairness on `Access`.
- Krealloc and KmallocIndex check only invariants, so they assume no
  fairness.
- SlabCache: weak fairness on the workqueue worker and on each RCU
  callback. A queued work item runs, and a grace period ends. Users are
  the environment.

## Not modelled

| What | Why |
|---|---|
| Reserved-bit faults (`pgtable_bad`), kprobes, kmmio, KVM async page faults | They end the fault before the resolvers, or only in debug configurations. |
| `is_errata93`, `is_errata100`, `is_f00f_bug`, EFI quirks, the VMAP stack-overflow path | Hardware- and firmware-specific oops-path quirks. |
| The diagnostic dumps | Printing only. |
| `VM_FAULT_FALLBACK` reaching `BUG()` | `handle_mm_fault` never returns it to the arch handler. |
| The DMA kmalloc copies | They repeat the normal indices. |
| KASAN in `ksize` and `krealloc`, `kmalloc_fix_flags` | KASAN is a debugging build; fixing the flags only prints and clears bits that do not change the outcome. |
| `create_boot_cache` and `create_kmalloc_cache` | Run once at boot before any concurrency. |
| slabinfo, the memcg and sysfs glue, tracepoints | I/O. |
| `memory_model.h`, `af_unix.h`, `tcp_states.h` | Macros and declarations; no operation changes state. |
| `tlb_flush_pending` and its accessors (mm_types.h 718-790) | A counter whose protocol (increment before the PTL, decrement after `flush_tlb_range`) lives in its callers, `change_protection`, `mmu_gather`, migration and NUMA faults, none of which is in the repository. |
| The rest of `init_mm` (`mm_rb`, locks, `mmlist`, `user_ns`) | Initializers no modelled operation reads. |

## Plan

1. `FaultAbstract`: an atomic "fault resolves or reports" specification that
   `PageFault` implements via `INSTANCE ... WITH`.
2. A violation run for a fault with an exception-table fixup taken while
   the thread already holds `mmap_lock` and a writer is queued.
3. Feed `PrefetchQuirk`'s verdict into `PageFault` in place of the
   nondeterministic `IsPrefetch`.
4. `SlabCache`: a destroy racing allocations on a merged cache across CPUs.
