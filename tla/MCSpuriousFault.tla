-------------------------- MODULE MCSpuriousFault ---------------------------
(***************************************************************************)
(* SpuriousFault with one kernel page, first mapped by a read-only, NX 1G  *)
(* page: permission upgrades and downgrades, splits down to 4K and         *)
(* unmapping all happen while CPUs fault on it.                            *)
(***************************************************************************)
EXTENDS SpuriousFault, TLC

MC_Pages == {"kpage"}
MC_InitTables ==
  [p \in MC_Pages |-> [level |-> "pud", present |-> TRUE, write |-> FALSE, nx |-> TRUE]]
\* Kernel code, with and without an exception-table entry, and user code.
MC_Origins == {[user |-> FALSE, fixup |-> FALSE], [user |-> FALSE, fixup |-> TRUE],
               [user |-> TRUE, fixup |-> FALSE]}
=============================================================================
