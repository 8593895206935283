---------------------------- MODULE KmallocIndex ----------------------------
(***************************************************************************)
(* The kmalloc size classes of mm/slab_common.c: the boot-time patching of *)
(* size_index[] (setup_kmalloc_cache_index_table()), the creation of the   *)
(* kmalloc caches (create_kmalloc_caches()), and the choice of cache for a *)
(* request (kmalloc_slab()).  The three kmalloc types (normal, reclaim,    *)
(* DMA) get the same indices, so one type is modelled.                     *)
(***************************************************************************)
EXTENDS Naturals

CONSTANTS
  MinSizes,            \* the KMALLOC_MIN_SIZE values of the builds checked
  KMALLOC_SHIFT_HIGH,  \* PAGE_SHIFT + 1 for SLUB
  Sizes                \* the request sizes kmalloc() is called with

\* ARCH_DMA_MINALIGN, or 8: chosen once per build and never changed.
VARIABLE KMALLOC_MIN_SIZE

\* ilog2(KMALLOC_MIN_SIZE): the smallest cache index.
RECURSIVE Log2(_)
Log2(n) == IF n <= 1 THEN 0 ELSE 1 + Log2(n \div 2)
KMALLOC_SHIFT_LOW == Log2(KMALLOC_MIN_SIZE)
KMALLOC_MAX_CACHE_SIZE == 2 ^ KMALLOC_SHIFT_HIGH

\* fls(): the position of the most significant set bit, 0 for 0.
RECURSIVE Fls(_)
Fls(x) == IF x = 0 THEN 0 ELSE 1 + Fls(x \div 2)

\* kmalloc_info[idx].size
KmallocInfoSize(idx) == CASE idx = 1 -> 96 [] idx = 2 -> 192 [] OTHER -> 2 ^ idx

size_index_elem(bytes) == (bytes - 1) \div 8

\* The static initialiser of size_index[]: entry e serves the sizes
\* 8e + 1 .. 8e + 8 (1 is kmalloc-96, 2 is kmalloc-192).
InitSizeIndex ==
  [e \in 0..23 |->
     CASE e = 0 -> 3 [] e = 1 -> 4 [] e \in 2..3 -> 5 [] e \in 4..7 -> 6
       [] e \in 8..11 -> 1 [] e \in 12..15 -> 7 [] OTHER -> 2]

VARIABLES
  size_index,  \* size_index[]
  caches,      \* indices i with kmalloc_caches[type][i] created
  i,           \* the loop counter of create_kmalloc_caches()
  phase,       \* "boot", "create", "up"
  req,         \* the size of the last kmalloc() request
  res          \* the index kmalloc_slab() chose, "ZERO" or "NULL"

vars == <<KMALLOC_MIN_SIZE, size_index, caches, i, phase, req, res>>

\* One loop of setup_kmalloc_cache_index_table(): set the entries for
\* the sizes lo, lo + 8, ..., hi to idx.
Patch(t, lo, hi, idx) ==
  [e \in DOMAIN t |->
     IF \E b \in lo..hi : b % 8 = lo % 8 /\ size_index_elem(b) = e THEN idx ELSE t[e]]

\* Mutation: the fix-up for a 128-byte minimum is left out.
SetupKmallocCacheIndexTableNo128 ==
  LET t1 == Patch(size_index, 8, KMALLOC_MIN_SIZE - 1, KMALLOC_SHIFT_LOW)
  IN IF KMALLOC_MIN_SIZE >= 64 THEN Patch(t1, 64 + 8, 96, 7) ELSE t1

\* setup_kmalloc_cache_index_table(): the first loop breaks at the end
\* of the table; the two fix-ups follow it in this order.
SetupKmallocCacheIndexTable ==
  LET t1 == Patch(size_index, 8, KMALLOC_MIN_SIZE - 1, KMALLOC_SHIFT_LOW)
      t2 == IF KMALLOC_MIN_SIZE >= 64 THEN Patch(t1, 64 + 8, 96, 7) ELSE t1
      t3 == IF KMALLOC_MIN_SIZE >= 128 THEN Patch(t2, 128 + 8, 192, 8) ELSE t2
  IN t3

SetupIndexTable ==
  /\ phase = "boot"
  /\ size_index' = SetupKmallocCacheIndexTable
  /\ phase' = "create"
  /\ UNCHANGED <<KMALLOC_MIN_SIZE, caches, i, req, res>>

\* One iteration of create_kmalloc_caches(): the cache of 2^i bytes, and
\* kmalloc-96 after kmalloc-64, kmalloc-192 after kmalloc-128.
CreateStep ==
  /\ phase = "create" /\ i <= KMALLOC_SHIFT_HIGH
  /\ caches' = caches \cup {i}
               \cup (IF KMALLOC_MIN_SIZE <= 32 /\ i = 6 THEN {1} ELSE {})
               \cup (IF KMALLOC_MIN_SIZE <= 64 /\ i = 7 THEN {2} ELSE {})
  /\ i' = i + 1
  /\ UNCHANGED <<KMALLOC_MIN_SIZE, size_index, phase, req, res>>

\* slab_state = UP: the kmalloc array is usable.
CreateDone ==
  /\ phase = "create" /\ i > KMALLOC_SHIFT_HIGH
  /\ phase' = "up"
  /\ UNCHANGED <<KMALLOC_MIN_SIZE, size_index, caches, i, req, res>>

\* Mutation: fls(size) instead of fls(size - 1).
KmallocSlabIndexFlsSize(size) ==
  IF size <= 192
  THEN IF size = 0 THEN "ZERO" ELSE size_index[size_index_elem(size)]
  ELSE IF size > KMALLOC_MAX_CACHE_SIZE THEN "NULL" ELSE Fls(size)

\* kmalloc_slab(): the cache index for a request of size bytes.
KmallocSlabIndex(size) ==
  IF size <= 192
  THEN IF size = 0 THEN "ZERO" ELSE size_index[size_index_elem(size)]
  ELSE IF size > KMALLOC_MAX_CACHE_SIZE THEN "NULL" ELSE Fls(size - 1)

\* slab_is_available(): slab_state >= UP.
slab_is_available == phase = "up"

KmallocSlab ==
  /\ slab_is_available
  /\ \E size \in Sizes :
       /\ req' = size
       /\ res' = KmallocSlabIndex(size)
  /\ UNCHANGED <<KMALLOC_MIN_SIZE, size_index, caches, i, phase>>

Init ==
  /\ KMALLOC_MIN_SIZE \in MinSizes
  /\ size_index = InitSizeIndex
  /\ caches = {}
  /\ i = KMALLOC_SHIFT_LOW
  /\ phase = "boot"
  /\ req = 0
  /\ res = "ZERO"

Next == SetupIndexTable \/ CreateStep \/ CreateDone \/ KmallocSlab

Spec == Init /\ [][Next]_vars

-----------------------------------------------------------------------------
(* Properties.                                                             *)

\* A request of 1..KMALLOC_MAX_CACHE_SIZE bytes got a cache index.
Served == phase = "up" /\ req \in 1..KMALLOC_MAX_CACHE_SIZE

(***************************************************************************)
(* kmalloc_slab() sends every request it accepts to a kmalloc cache that   *)
(* create_kmalloc_caches() created, whose objects hold the request and are *)
(* aligned to KMALLOC_MIN_SIZE: size_index[], patched at boot, agrees with *)
(* the set of caches created for the architecture's minimum size.          *)
(***************************************************************************)
KmallocServesRequest ==
  Served =>
    /\ res \in caches
    /\ KmallocInfoSize(res) >= req
    /\ KmallocInfoSize(res) % KMALLOC_MIN_SIZE = 0

(***************************************************************************)
(* The cache chosen is the smallest created one that holds the request:    *)
(* kmalloc-96 and kmalloc-192 are used where they exist, and fls(size - 1) *)
(* rounds up to the next power of two only.                                *)
(***************************************************************************)
KmallocBestFit ==
  Served /\ res \in caches =>
    \A j \in caches :
      KmallocInfoSize(j) >= req => KmallocInfoSize(j) >= KmallocInfoSize(res)
=============================================================================
