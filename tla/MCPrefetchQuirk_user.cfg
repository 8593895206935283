\* User-mode faults: the byte after 0x0F is read with get_kernel_nofault().
SPECIFICATION Spec
CONSTANTS
  Bytes <- MC_Bytes
  MaxInsn = 3
  Modes <- MC_UserModes
  NofaultReadsUser = FALSE
INVARIANT PrefetchComplete
\* is_prefetch() returns: the scan ends in "done".
CHECK_DEADLOCK FALSE
