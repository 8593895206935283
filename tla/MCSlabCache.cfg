\* Two users, two kmem_cache structures.
CONSTANTS
  u1 = u1
  u2 = u2
  k1 = k1
  k2 = k2
  Users = {u1, u2}
  Ids = {k1, k2}
  Requests <- MC_Requests
  MaxObjs = 1
  MaxOps = 2
  MaxPending = 1
  SlabObjects <- MC_SlabObjects
SPECIFICATION Spec
INVARIANT RefcountMatchesHandles
INVARIANT NoReleaseBeforeRcu
INVARIANT FreelistShuffleUniform
PROPERTY RcuDestroyCompletes
