------------------------------ MODULE Krealloc -------------------------------
(***************************************************************************)
(* The kmalloc object interface at the end of mm/slab_common.c: kmalloc()  *)
(* of a size class or, above KMALLOC_MAX_CACHE_SIZE, of pages              *)
(* (kmalloc_order()); ksize(); krealloc() with __do_krealloc(); kfree()    *)
(* and kfree_sensitive().  The size class of an object, and so its ksize(),*)
(* is the one KmallocIndex chooses once boot has patched size_index[]:     *)
(* this module instantiates KmallocIndex for that.  Callers are threads    *)
(* each holding one pointer, used with the idiom                           *)
(*     new = krealloc(p, n, gfp); if (new) p = new;                        *)
(* Object contents are abstracted to two byte counts: how many leading     *)
(* bytes hold the holder's data, and up to where any data written remains. *)
(* KASAN and memory tags are off: ksize() of a valid object is its size.   *)
(***************************************************************************)
EXTENDS Naturals

CONSTANTS
  Users,               \* threads holding a kmalloc pointer
  Objs,                \* the objects (slab objects or page blocks)
  ReqSizes,            \* sizes passed to kmalloc() and krealloc()
  MinSize,             \* KMALLOC_MIN_SIZE of the build
  KMALLOC_SHIFT_HIGH,  \* PAGE_SHIFT + 1 for SLUB
  MaxOps               \* calls per thread

NULL == "NULL"
ZERO_SIZE_PTR == "ZERO_SIZE_PTR"
PAGE_SIZE == 4096

\* size_index[] after setup_kmalloc_cache_index_table() for this build.
Static == INSTANCE KmallocIndex WITH
            KMALLOC_MIN_SIZE <- MinSize, MinSizes <- {MinSize}, Sizes <- ReqSizes,
            size_index <- <<>>, caches <- {}, i <- 0, phase <- "boot",
            req <- 0, res <- "ZERO"
Boot == INSTANCE KmallocIndex WITH
          KMALLOC_MIN_SIZE <- MinSize, MinSizes <- {MinSize}, Sizes <- ReqSizes,
          size_index <- Static!InitSizeIndex, caches <- {}, i <- 0, phase <- "boot",
          req <- 0, res <- "ZERO"
BootSizeIndex == Boot!SetupKmallocCacheIndexTable
K == INSTANCE KmallocIndex WITH
       KMALLOC_MIN_SIZE <- MinSize, MinSizes <- {MinSize}, Sizes <- ReqSizes,
       size_index <- BootSizeIndex, caches <- {}, i <- 0, phase <- "up",
       req <- 0, res <- "ZERO"

\* get_order(): the smallest order whose block holds size bytes.
RECURSIVE OrderFrom(_, _)
OrderFrom(o, size) == IF PAGE_SIZE * 2 ^ o >= size THEN o ELSE OrderFrom(o + 1, size)
get_order(size) == OrderFrom(0, size)

\* The bytes an allocation of size > 0 bytes really gets, its ksize():
\* kmalloc_large() -> kmalloc_order() above KMALLOC_MAX_CACHE_SIZE,
\* otherwise the class kmalloc_slab() picks.
KmallocCap(size) ==
  IF size > K!KMALLOC_MAX_CACHE_SIZE THEN PAGE_SIZE * 2 ^ get_order(size)
  ELSE K!KmallocInfoSize(K!KmallocSlabIndex(size))

VARIABLES
  heap,   \* obj -> [live, cap, valid, dirty]
  ptr,    \* user -> the pointer it holds
  size,   \* user -> bytes it may use through its pointer
  known,  \* user -> leading bytes it has written and expects to read back
  sensitiveFreed, \* objects whose last free was kfree_sensitive()
  ops

vars == <<heap, ptr, size, known, sensitiveFreed, ops>>

\* ksize(): 0 for NULL and ZERO_SIZE_PTR, otherwise the object's size.
ksize(p) == IF p \in {NULL, ZERO_SIZE_PTR} THEN 0 ELSE heap[p].cap

\* kfree(): NULL and ZERO_SIZE_PTR are ignored.
kfree(h, p) == IF p \in Objs THEN [h EXCEPT ![p].live = FALSE] ELSE h

MinOf(a, b) == IF a <= b THEN a ELSE b
MaxOf(a, b) == IF a >= b THEN a ELSE b

\* The outcomes of kmalloc(sz): the new heap and the pointer returned.
\* A slab or page allocation may fail and return NULL.  The data of an
\* object's earlier holders is not tracked.
KmallocOutcomes(h, sz) ==
  IF sz = 0 THEN {[heap |-> h, ret |-> ZERO_SIZE_PTR]}
  ELSE {[heap |-> h, ret |-> NULL]} \cup
       {[heap |-> [h EXCEPT ![o] = [live |-> TRUE, cap |-> KmallocCap(sz), valid |-> 0,
                                    dirty |-> 0]],
         ret |-> o] : o \in {q \in Objs : ~h[q].live}}

\* memcpy(dst, src, len)
Memcpy(h, dst, src, len) ==
  IF len = 0 THEN h
  ELSE [h EXCEPT ![dst].valid = MinOf(h[src].valid, len),
                 ![dst].dirty = MaxOf(@, MinOf(h[src].dirty, len))]

\* Mutation: the object is kept whenever there is one, whatever its size.
DoKreallocNoSizeCheck(h, p, n) ==
  IF p \in Objs THEN {[heap |-> h, ret |-> p]}
  ELSE {[heap |-> IF o.ret # NULL /\ p # NULL THEN Memcpy(o.heap, o.ret, p, ksize(p))
                  ELSE o.heap,
         ret |-> o.ret] : o \in KmallocOutcomes(h, n)}

\* __do_krealloc(): keep the object if it is big enough; otherwise
\* kmalloc() a new one and copy all ksize(p) bytes of the old.
DoKrealloc(h, p, n) ==
  LET ks == ksize(p) IN
  IF ks >= n THEN {[heap |-> h, ret |-> p]}
  ELSE {[heap |-> IF o.ret # NULL /\ p # NULL THEN Memcpy(o.heap, o.ret, p, ks)
                  ELSE o.heap,
         ret |-> o.ret] : o \in KmallocOutcomes(h, n)}

\* Mutation: the old object is freed even when the allocation failed.
KreallocFreesOldNoNullCheck(p, ret) == p # ret

\* krealloc() frees p when __do_krealloc() returned another object.
KreallocFreesOld(p, ret) == ret # NULL /\ p # ret

-----------------------------------------------------------------------------
(* The threads' calls.                                                     *)

Step(u) == ops[u] < MaxOps /\ ops' = [ops EXCEPT ![u] = @ + 1]

\* p = kmalloc(n, gfp) by a thread holding nothing.
Kmalloc(u) ==
  /\ Step(u) /\ ptr[u] \in {NULL, ZERO_SIZE_PTR}
  /\ \E n \in ReqSizes : \E o \in KmallocOutcomes(heap, n) :
       /\ heap' = o.heap
       /\ ptr' = [ptr EXCEPT ![u] = o.ret]
       /\ size' = [size EXCEPT ![u] = IF o.ret \in Objs THEN n ELSE 0]
       /\ sensitiveFreed' = sensitiveFreed \ {o.ret}
  /\ known' = [known EXCEPT ![u] = 0]

\* The thread fills every byte it may use.
Write(u) ==
  LET p == ptr[u] IN
  /\ Step(u) /\ p \in Objs /\ size[u] > 0
  /\ heap' = [heap EXCEPT ![p].valid = MaxOf(@, size[u]),
                          ![p].dirty = MaxOf(@, size[u])]
  /\ known' = [known EXCEPT ![u] = size[u]]
  /\ UNCHANGED <<ptr, size, sensitiveFreed>>

\* n = ksize(p): the caller may use the whole object.
Ksize(u) ==
  /\ Step(u) /\ ptr[u] \in Objs
  /\ size' = [size EXCEPT ![u] = ksize(ptr[u])]
  /\ UNCHANGED <<heap, ptr, known, sensitiveFreed>>

\* new = krealloc(p, n, gfp); if (new) p = new;
Krealloc(u) ==
  LET p == ptr[u] IN
  /\ Step(u)
  /\ \E n \in ReqSizes :
       IF n = 0
       THEN /\ heap' = kfree(heap, p)
            /\ ptr' = [ptr EXCEPT ![u] = ZERO_SIZE_PTR]
            /\ size' = [size EXCEPT ![u] = 0]
            /\ known' = [known EXCEPT ![u] = 0]
            /\ UNCHANGED sensitiveFreed
       ELSE \E o \in DoKrealloc(heap, p, n) :
              /\ heap' = IF KreallocFreesOld(p, o.ret) THEN kfree(o.heap, p)
                         ELSE o.heap
              /\ sensitiveFreed' = sensitiveFreed \ {o.ret}
              /\ IF o.ret = NULL
                 THEN UNCHANGED <<ptr, size, known>>
                 ELSE /\ ptr' = [ptr EXCEPT ![u] = o.ret]
                      /\ size' = [size EXCEPT ![u] = n]
                      /\ known' = [known EXCEPT ![u] = MinOf(@, n)]

Released(u) ==
  /\ ptr' = [ptr EXCEPT ![u] = NULL]
  /\ size' = [size EXCEPT ![u] = 0]
  /\ known' = [known EXCEPT ![u] = 0]

\* kfree(p); p = NULL;
Kfree(u) ==
  /\ Step(u) /\ ptr[u] \in Objs
  /\ heap' = kfree(heap, ptr[u])
  /\ Released(u)
  /\ sensitiveFreed' = sensitiveFreed \ {ptr[u]}

\* memzero_explicit(mem, len): the first len bytes of the object.
Memzero(h, p, len) ==
  [h EXCEPT ![p].valid = IF len > 0 THEN 0 ELSE @,
            ![p].dirty = IF len >= @ THEN 0 ELSE @]

\* Mutation: only the size the caller asked for is zeroed.
KfreeSensitiveRequested(u) ==
  LET p == ptr[u] IN
  /\ Step(u) /\ p \in Objs
  /\ heap' = kfree(Memzero(heap, p, size[u]), p)
  /\ Released(u)
  /\ sensitiveFreed' = sensitiveFreed \cup {p}

\* kfree_sensitive(p); p = NULL;  all ksize(p) bytes are zeroed.
KfreeSensitive(u) ==
  LET p == ptr[u] IN
  /\ Step(u) /\ p \in Objs
  /\ heap' = kfree(Memzero(heap, p, ksize(p)), p)
  /\ Released(u)
  /\ sensitiveFreed' = sensitiveFreed \cup {p}

Init ==
  /\ heap = [o \in Objs |-> [live |-> FALSE, cap |-> 0, valid |-> 0, dirty |-> 0]]
  /\ ptr = [u \in Users |-> NULL]
  /\ size = [u \in Users |-> 0]
  /\ known = [u \in Users |-> 0]
  /\ sensitiveFreed = {}
  /\ ops = [u \in Users |-> 0]

\* Every thread has made its calls.
Done == (\A u \in Users : ops[u] = MaxOps) /\ UNCHANGED vars

Next ==
  \/ \E u \in Users : Kmalloc(u) \/ Write(u) \/ Ksize(u) \/ Krealloc(u)
                      \/ Kfree(u) \/ KfreeSensitive(u)
  \/ Done

Spec == Init /\ [][Next]_vars

-----------------------------------------------------------------------------
(* Properties.                                                             *)

(***************************************************************************)
(* Every live object is held by exactly one thread and every object a      *)
(* thread holds is live, whatever mix of kmalloc(), krealloc() (growing,   *)
(* shrinking, to 0, from NULL or ZERO_SIZE_PTR, failing) and kfree() ran:  *)
(* krealloc() frees the old object exactly when it hands back another.    *)
(***************************************************************************)
OwnershipExact ==
  /\ \A o \in Objs : heap[o].live <=> \E u \in Users : ptr[u] = o
  /\ \A u, v \in Users : u # v /\ ptr[u] \in Objs => ptr[u] # ptr[v]

(***************************************************************************)
(* A thread never uses more bytes than its object has, and reads back what *)
(* it wrote: krealloc() preserves the contents up to the lesser of the old *)
(* and new sizes, the old size being ksize(), which callers may use whole. *)
(***************************************************************************)
HolderSeesOwnData ==
  \A u \in Users : ptr[u] \in Objs =>
     /\ size[u] <= heap[ptr[u]].cap
     /\ heap[ptr[u]].valid >= known[u]

(***************************************************************************)
(* An object freed by kfree_sensitive() holds none of the data written to  *)
(* it, including bytes past the requested size that a caller reached      *)
(* through ksize() or that a shrinking krealloc() left in place.          *)
(***************************************************************************)
SensitiveFreeZeroed ==
  \A o \in sensitiveFreed : heap[o].dirty = 0
=============================================================================
