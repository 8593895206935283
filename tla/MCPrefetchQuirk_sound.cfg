\* Every mode: is_prefetch() never ignores a non-prefetch fault, and in
\* kernel mode it recognises every prefetch.
SPECIFICATION Spec
CONSTANTS
  Bytes <- MC_Bytes
  MaxInsn = 3
  Modes <- AllModes
  NofaultReadsUser = FALSE
INVARIANT PrefetchSound
INVARIANT PrefetchCompleteKernel
\* is_prefetch() returns: the scan ends in "done".
CHECK_DEADLOCK FALSE
