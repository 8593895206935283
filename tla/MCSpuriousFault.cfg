\* Two CPUs, one kernel page, two attribute changes or splits.  No symmetry:
\* the liveness property is checked in the same run.
SPECIFICATION Spec
CONSTANTS
  Cpus = {c1, c2}
  Pages <- MC_Pages
  InitTables <- MC_InitTables
  Kinds = {"read", "write", "exec"}
  Origins <- MC_Origins
  MaxAccesses = 1
  MaxChanges = 2
INVARIANT PermittedAccessNeverFails
PROPERTY AccessEnds
