--------------------------- MODULE MCVmallocSync ----------------------------
(***************************************************************************)
(* VmallocSync with two vmalloc() calls in the same pmd slot, so that the  *)
(* second finds the pmd present and skips the sync; one process alive and  *)
(* one that may be forked during the sync and exit.                        *)
(***************************************************************************)
EXTENDS VmallocSync

MC_AreaSlot == [v \in {"a1", "a2"} |-> "s1"]
=============================================================================
