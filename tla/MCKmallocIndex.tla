--------------------------- MODULE MCKmallocIndex ---------------------------
EXTENDS KmallocIndex

\* Every size up to 512, and the sizes around each power of two up to
\* one past KMALLOC_MAX_CACHE_SIZE: every boundary of size_index[] and of
\* fls(size - 1).
MC_Sizes ==
  (0..512) \cup {2 ^ k + d - 1 : k \in 9..KMALLOC_SHIFT_HIGH, d \in 0..2}
=============================================================================
