---------------------------- MODULE MCSlabCache -----------------------------
EXTENDS SlabCache, TLC

CONSTANTS u1, u2, k1, k2

Req(size, hw, rcu, ctor, usersize) ==
  [size |-> size, align |-> 0, hwalign |-> hw, rcu |-> rcu, ctor |-> ctor,
   usersize |-> usersize]

\* A 24-byte cache, which two creators of the same request share by
\* merging; a 20-byte SLAB_HWCACHE_ALIGN request, which
\* calculate_alignment() rounds to 32 bytes so it never merges with it; a
\* SLAB_TYPESAFE_BY_RCU cache and one with a usercopy region.
MC_Requests ==
  {Req(24, FALSE, FALSE, FALSE, 0), Req(20, TRUE, FALSE, FALSE, 0),
   Req(24, FALSE, TRUE, FALSE, 0), Req(24, FALSE, FALSE, FALSE, 8)}

\* Four objects to a slab of 24-byte objects, one to a slab of any other.
MC_SlabObjects(size) == IF size <= 24 THEN 4 ELSE 1
====
