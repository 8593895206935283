----------------------------- MODULE SlabCache ------------------------------
(***************************************************************************)
(* The kmem_cache life cycle of mm/slab_common.c with SLUB: creation, with *)
(* merging into a compatible cache (__kmem_cache_alias() and               *)
(* find_mergeable()), destruction by reference count (kmem_cache_destroy() *)
(* and shutdown_cache()), and the deferred release of SLAB_TYPESAFE_BY_RCU *)
(* caches by slab_caches_to_rcu_destroy_workfn() after rcu_barrier().      *)
(* Creation and destruction hold slab_mutex throughout, so each is one     *)
(* step; the worker splices its list under slab_mutex and waits for RCU    *)
(* outside it.                                                             *)
(***************************************************************************)
EXTENDS Naturals, Sequences, SequencesExt

CONSTANTS
  Users,      \* callers of kmem_cache_create() / kmem_cache_destroy()
  Ids,        \* the kmem_cache structures kmem_cache_zalloc() can hand out
  Requests,   \* the argument records kmem_cache_create() is called with
  MaxObjs,    \* objects a user holds at a time
  MaxOps,     \* kmem_cache_create() calls per user
  MaxPending, \* pending RCU callbacks per cache
  SlabObjects(_) \* oo_objects(): objects per slab for an object size

NULL == "NULL"
WordSize == 8            \* sizeof(void *)
ARCH_SLAB_MINALIGN == 8  \* __alignof__(unsigned long long) on x86
CacheLineSize == 64      \* cache_line_size()

FR == INSTANCE FreelistRandom

AlignUp(x, a) == ((x + a - 1) \div a) * a
MaxOf(a, b) == IF a >= b THEN a ELSE b

VARIABLES
  cache,        \* id -> [state, refcount, size, mergeable, rcu, objects, pending]
  slabCaches,   \* slab_caches, head first
  rcuDestroy,   \* slab_caches_to_rcu_destroy
  toDestroy,    \* the worker's local to_destroy list
  workQueued,   \* slab_caches_to_rcu_destroy_work is pending
  workPc,       \* "idle" or "barrier": where the worker is
  handle,       \* user -> the kmem_cache pointer it holds, or NULL
  objs,         \* user -> objects it has allocated from its cache
  ops           \* user -> kmem_cache_create() calls made

vars == <<cache, slabCaches, rcuDestroy, toDestroy, workQueued, workPc,
          handle, objs, ops>>

\* A zeroed struct kmem_cache (include/linux/slub_def.h): of its fields the
\* model keeps refcount and size, the flags as mergeable and rcu
\* (SLAB_TYPESAFE_BY_RCU), and the list link as membership of slabCaches;
\* objects and pending stand for the slabs behind cpu_slab and node[].
FreeCache == [state |-> "free", refcount |-> 0, size |-> 0, mergeable |-> FALSE,
              rcu |-> FALSE, objects |-> 0, pending |-> 0]

\* slab_kmem_cache_release(): the structure goes back to kmem_cache; RCU
\* callbacks still queued keep pointing at it.
slab_kmem_cache_release(c) == [FreeCache EXCEPT !.pending = cache[c].pending]

-----------------------------------------------------------------------------
(* kmem_cache_create().                                                    *)

\* calculate_alignment(): SLAB_HWCACHE_ALIGN halves the cache line while
\* the object fits in half of it.
RECURSIVE HwcacheAlign(_, _)
HwcacheAlign(ralign, size) ==
  IF size <= ralign \div 2 THEN HwcacheAlign(ralign \div 2, size) ELSE ralign

calculate_alignment(hwalign, align, size) ==
  LET a1 == IF hwalign THEN MaxOf(align, HwcacheAlign(CacheLineSize, size))
            ELSE align
      a2 == IF a1 < ARCH_SLAB_MINALIGN THEN ARCH_SLAB_MINALIGN ELSE a1
  IN AlignUp(a2, WordSize)

\* The object size SLUB's calculate_sizes() gives a cache (no debugging).
CacheSize(r) ==
  AlignUp(AlignUp(r.size, WordSize),
          calculate_alignment(r.hwalign, r.align, r.size))

\* slab_unmergeable(): a constructor, a usercopy region or a
\* SLAB_NEVER_MERGE flag (SLAB_TYPESAFE_BY_RCU among them).
slab_unmergeable(c) == ~cache[c].mergeable

\* The usersize that survives the fail-closed check.
UserSize(r) == IF r.size < r.usersize THEN 0 ELSE r.usersize

\* find_mergeable(): the oldest cache on slab_caches (the reverse walk)
\* whose objects fit the request and are aligned for it, or NULL.
find_mergeable(r) ==
  LET size == AlignUp(r.size, WordSize)
      align == calculate_alignment(r.hwalign, r.align, size)
      sz == AlignUp(size, align)
      Fits(c) == /\ ~slab_unmergeable(c)
                 /\ sz <= cache[c].size
                 /\ cache[c].size % align = 0
                 /\ cache[c].size - sz < WordSize
      k == SelectLastInSeq(slabCaches, Fits)
  IN IF r.ctor \/ r.rcu \/ k = 0 THEN NULL ELSE slabCaches[k]

\* Mutation: __kmem_cache_alias() returns the cache without taking a
\* reference.
AliasNoRef(u, s) ==
  /\ handle' = [handle EXCEPT ![u] = s]
  /\ UNCHANGED cache

\* __kmem_cache_alias() (mm/slub.c): take a reference on the cache found.
Alias(u, s) ==
  /\ cache' = [cache EXCEPT ![s].refcount = @ + 1]
  /\ handle' = [handle EXCEPT ![u] = s]

\* cache_random_seq_create(): nothing to do for fewer than two objects or
\* a sequence already made; kcalloc() may fail; otherwise the shuffled
\* list.  The outcomes are records [err, seq]; a NULL random_seq is the
\* empty list NoSeq.
NoSeq == <<>>
cache_random_seq_create(seq, count) ==
  IF count < 2 \/ seq # NoSeq THEN {[err |-> 0, seq |-> seq]}
  ELSE {[err |-> 1, seq |-> NoSeq]}  \* -ENOMEM
       \cup {[err |-> 0, seq |-> l] : l \in FR!freelist_randomize(count)}

\* create_cache(): kmem_cache_zalloc() a structure, then refcount 1 and
\* list_add() to the head of slab_caches; -ENOMEM if none is free.
\* __kmem_cache_create() (mm/slub.c) makes the random_seq of the zeroed
\* structure; when that fails the structure is freed and
\* kmem_cache_create() returns NULL.  The sequence itself is not kept:
\* FreelistShuffleUniform checks it apart.
CreateCache(u, r) ==
  \/ /\ \E id \in Ids, o \in cache_random_seq_create(NoSeq, SlabObjects(CacheSize(r))) :
          /\ cache[id].state = "free"
          /\ o.err # 0
          /\ UNCHANGED <<cache, slabCaches, handle>>
  \/ /\ \E id \in Ids, o \in cache_random_seq_create(NoSeq, SlabObjects(CacheSize(r))) :
          /\ cache[id].state = "free"
          /\ o.err = 0
          /\ cache' = [cache EXCEPT ![id] =
                [state |-> "live", refcount |-> 1, size |-> CacheSize(r),
                 mergeable |-> ~r.ctor /\ ~r.rcu /\ UserSize(r) = 0,
                 rcu |-> r.rcu, objects |-> 0, pending |-> cache[id].pending]]
          /\ slabCaches' = <<id>> \o slabCaches
          /\ handle' = [handle EXCEPT ![u] = id]
  \/ /\ \A id \in Ids : cache[id].state # "free"
     /\ UNCHANGED <<cache, slabCaches, handle>>

\* kmem_cache_create_usercopy() under slab_mutex: a request without a
\* usercopy region is first offered to __kmem_cache_alias(), whose
\* sysfs_slab_alias() may fail; otherwise a new cache is created.
KmemCacheCreate(u) ==
  /\ handle[u] = NULL /\ objs[u] = 0 /\ ops[u] < MaxOps
  /\ \E r \in Requests :
       LET s == IF UserSize(r) = 0 THEN find_mergeable(r) ELSE NULL IN
       IF s # NULL
       THEN \/ Alias(u, s) /\ UNCHANGED slabCaches
            \/ CreateCache(u, r)
       ELSE CreateCache(u, r)
  /\ ops' = [ops EXCEPT ![u] = @ + 1]
  /\ UNCHANGED <<rcuDestroy, toDestroy, workQueued, workPc, objs>>

-----------------------------------------------------------------------------
(* Objects.                                                                *)

\* kmem_cache_alloc() on the user's cache.
Alloc(u) ==
  /\ handle[u] # NULL /\ objs[u] < MaxObjs
  /\ cache' = [cache EXCEPT ![handle[u]].objects = @ + 1]
  /\ objs' = [objs EXCEPT ![u] = @ + 1]
  /\ UNCHANGED <<slabCaches, rcuDestroy, toDestroy, workQueued, workPc,
                 handle, ops>>

\* kmem_cache_free(): in a SLAB_TYPESAFE_BY_RCU cache an emptied slab is
\* discarded through call_rcu(), whose callback reads the kmem_cache.
Free(u) ==
  LET c == handle[u] IN
  /\ c # NULL /\ objs[u] > 0
  /\ objs' = [objs EXCEPT ![u] = @ - 1]
  /\ \E discard \in BOOLEAN :
       /\ discard => cache[c].rcu /\ cache[c].pending < MaxPending
       /\ cache' = [cache EXCEPT ![c].objects = @ - 1,
                                 ![c].pending = IF discard THEN @ + 1 ELSE @]
  /\ UNCHANGED <<slabCaches, rcuDestroy, toDestroy, workQueued, workPc,
                 handle, ops>>

\* kmem_cache_shrink() on the user's cache, without slab_mutex:
\* __kmem_cache_shrink() (mm/slub.c) discards the empty slabs, through
\* call_rcu() for a SLAB_TYPESAFE_BY_RCU cache.
KmemCacheShrink(u) ==
  LET c == handle[u] IN
  /\ c # NULL /\ cache[c].rcu /\ cache[c].pending < MaxPending
  /\ cache' = [cache EXCEPT ![c].pending = @ + 1]
  /\ UNCHANGED <<slabCaches, rcuDestroy, toDestroy, workQueued, workPc,
                 handle, objs, ops>>

\* rcu_free_slab(): a grace period has passed; the callback frees the
\* slab through its kmem_cache.
RcuCallback(c) ==
  /\ cache[c].pending > 0
  /\ cache' = [cache EXCEPT ![c].pending = @ - 1]
  /\ UNCHANGED <<slabCaches, rcuDestroy, toDestroy, workQueued, workPc,
                 handle, objs, ops>>

-----------------------------------------------------------------------------
(* kmem_cache_destroy().                                                   *)

\* Mutation: shutdown_cache() queues the cache but schedule_work() is
\* lost when the worker is already running.
ScheduleWorkLost == IF workPc = "idle" THEN TRUE ELSE workQueued

\* schedule_work(): a running work item is queued to run again.
ScheduleWork == TRUE

\* shutdown_cache(): __kmem_cache_shutdown() fails with -EBUSY while
\* objects remain (the cache stays on slab_caches with refcount 0);
\* otherwise the cache leaves slab_caches, its empty slabs are discarded
\* (through RCU for SLAB_TYPESAFE_BY_RCU), and it is released now or
\* queued for the worker.
ShutdownCache(c) ==
  IF cache[c].objects # 0
  THEN /\ cache' = [cache EXCEPT ![c].refcount = @ - 1]
       /\ UNCHANGED <<slabCaches, rcuDestroy, workQueued>>
  ELSE /\ slabCaches' = Remove(slabCaches, c)
       /\ IF cache[c].rcu
          THEN /\ cache' = [cache EXCEPT ![c].refcount = @ - 1,
                                         ![c].state = "rcu_destroy",
                                         ![c].pending =
                                           IF @ < MaxPending THEN @ + 1 ELSE @]
               /\ rcuDestroy' = Append(rcuDestroy, c)
               /\ workQueued' = ScheduleWork
          ELSE /\ cache' = [cache EXCEPT ![c] = slab_kmem_cache_release(c)]
               /\ UNCHANGED <<rcuDestroy, workQueued>>

\* Mutation: the cache is shut down whatever its reference count.
KmemCacheDestroyNoRefcheck(u) ==
  LET c == handle[u] IN
  /\ c # NULL
  /\ ShutdownCache(c)
  /\ handle' = [handle EXCEPT ![u] = NULL]
  /\ objs' = [objs EXCEPT ![u] = 0]
  /\ UNCHANGED <<toDestroy, workPc, ops>>

\* kmem_cache_destroy() under slab_mutex: drop the reference; the last
\* one shuts the cache down.  Objects the user still holds are leaked.
KmemCacheDestroy(u) ==
  LET c == handle[u] IN
  /\ c # NULL
  /\ IF cache[c].refcount - 1 # 0
     THEN /\ cache' = [cache EXCEPT ![c].refcount = @ - 1]
          /\ UNCHANGED <<slabCaches, rcuDestroy, workQueued>>
     ELSE ShutdownCache(c)
  /\ handle' = [handle EXCEPT ![u] = NULL]
  /\ objs' = [objs EXCEPT ![u] = 0]
  /\ UNCHANGED <<toDestroy, workPc, ops>>

-----------------------------------------------------------------------------
(* slab_caches_to_rcu_destroy_workfn().                                    *)

\* Under slab_mutex: list_splice_init() onto to_destroy; an empty list
\* ends the work.
WorkSplice ==
  /\ workQueued /\ workPc = "idle"
  /\ workQueued' = FALSE
  /\ toDestroy' = rcuDestroy
  /\ rcuDestroy' = <<>>
  /\ workPc' = IF rcuDestroy = <<>> THEN "idle" ELSE "barrier"
  /\ UNCHANGED <<cache, slabCaches, handle, objs, ops>>

\* Mutation: the caches are released without waiting for rcu_barrier().
WorkReleaseNoBarrier ==
  /\ workPc = "barrier"
  /\ cache' = [c \in Ids |-> IF c \in Range(toDestroy) THEN slab_kmem_cache_release(c) ELSE cache[c]]
  /\ toDestroy' = <<>>
  /\ workPc' = "idle"
  /\ UNCHANGED <<slabCaches, rcuDestroy, workQueued, handle, objs, ops>>

\* rcu_barrier() returns once every callback queued before it has run;
\* then slab_kmem_cache_release() frees each cache of to_destroy.
WorkRelease ==
  /\ workPc = "barrier"
  /\ \A i \in 1..Len(toDestroy) : cache[toDestroy[i]].pending = 0
  /\ cache' = [c \in Ids |-> IF c \in Range(toDestroy) THEN slab_kmem_cache_release(c) ELSE cache[c]]
  /\ toDestroy' = <<>>
  /\ workPc' = "idle"
  /\ UNCHANGED <<slabCaches, rcuDestroy, workQueued, handle, objs, ops>>

-----------------------------------------------------------------------------
Init ==
  /\ cache = [c \in Ids |-> FreeCache]
  /\ slabCaches = <<>>
  /\ rcuDestroy = <<>>
  /\ toDestroy = <<>>
  /\ workQueued = FALSE
  /\ workPc = "idle"
  /\ handle = [u \in Users |-> NULL]
  /\ objs = [u \in Users |-> 0]
  /\ ops = [u \in Users |-> 0]

UserStep(u) == KmemCacheCreate(u) \/ Alloc(u) \/ Free(u) \/ KmemCacheShrink(u)
                \/ KmemCacheDestroy(u)
Worker == WorkSplice \/ WorkRelease

\* Every user has made its calls and destroyed its cache; nothing is
\* left for the worker or RCU.
Quiescent ==
  /\ \A u \in Users : ops[u] = MaxOps /\ handle[u] = NULL
  /\ ~workQueued /\ workPc = "idle"
  /\ \A c \in Ids : cache[c].pending = 0
  /\ UNCHANGED vars

Next ==
  \/ \E u \in Users : UserStep(u)
  \/ \E c \in Ids : RcuCallback(c)
  \/ Worker
  \/ Quiescent

Spec == Init /\ [][Next]_vars
        /\ WF_vars(Worker)
        /\ \A c \in Ids : WF_vars(RcuCallback(c))

-----------------------------------------------------------------------------
(* Properties.                                                             *)

Holders(c) == {u \in Users : handle[u] = c}

(***************************************************************************)
(* The random freelist order of every live cache with two or more objects *)
(* per slab is drawn so that every ordering of the slab's objects can     *)
(* come out, each from exactly one of the count! possible random draws of *)
(* the Fisher-Yates loop of freelist_randomize(): the shuffle is uniform   *)
(* up to prandom's modulo bias, and no object index is lost or repeated.   *)
(***************************************************************************)
FreelistShuffleUniform ==
  \A c \in Ids :
     LET n == SlabObjects(cache[c].size) IN
     cache[c].state = "live" /\ n >= 2 => FR!freelist_randomize(n) = FR!Orderings(n)

(***************************************************************************)
(* The reference count of every cache on slab_caches is the number of      *)
(* users holding it, through kmem_cache_create() or an alias of it, and    *)
(* every held pointer is to a live cache: no sequence of creates, merges  *)
(* and destroys leaves a user with a freed or reused kmem_cache.           *)
(***************************************************************************)
RefcountMatchesHandles ==
  /\ \A u \in Users : handle[u] # NULL => cache[handle[u]].state = "live"
  /\ \A c \in Ids : cache[c].state = "live" =>
       cache[c].refcount = Cardinality(Holders(c))

(***************************************************************************)
(* No RCU callback that frees a slab of a SLAB_TYPESAFE_BY_RCU cache is    *)
(* pending when the kmem_cache it dereferences has been released: the      *)
(* worker's rcu_barrier() orders the release after every such callback.    *)
(***************************************************************************)
NoReleaseBeforeRcu ==
  \A c \in Ids : cache[c].pending > 0 => cache[c].state # "free"

(***************************************************************************)
(* Every SLAB_TYPESAFE_BY_RCU cache shut down is eventually released,      *)
(* even when shutdown_cache() queues it while the worker is inside         *)
(* rcu_barrier() for an earlier batch.                                     *)
(***************************************************************************)
RcuDestroyCompletes ==
  \A c \in Ids : cache[c].state = "rcu_destroy" ~> cache[c].state = "free"
=============================================================================
