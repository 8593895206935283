\* Two threads, three objects, four calls each.
SPECIFICATION Spec
CONSTANTS
  Users = {u1, u2}
  Objs = {o1, o2, o3}
  ReqSizes = {0, 64, 100, 192, 200, 8193}
  MinSize = 8
  KMALLOC_SHIFT_HIGH = 13
  MaxOps = 4
SYMMETRY Symm
INVARIANT OwnershipExact
INVARIANT HolderSeesOwnData
INVARIANT SensitiveFreeZeroed
