\* Every permitted KMALLOC_MIN_SIZE below 256, SLUB with 4 KiB pages
\* (KMALLOC_SHIFT_HIGH = 13).
CONSTANTS
  MinSizes = {8, 16, 32, 64, 128}
  KMALLOC_SHIFT_HIGH = 13
  Sizes <- MC_Sizes
INIT Init
NEXT Next
INVARIANT KmallocServesRequest
INVARIANT KmallocBestFit
CHECK_DEADLOCK FALSE
