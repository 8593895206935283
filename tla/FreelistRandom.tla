---------------------------- MODULE FreelistRandom ----------------------------
(***************************************************************************)
(* CONFIG_SLAB_FREELIST_RANDOM in mm/slab_common.c: freelist_randomize(), *)
(* the Fisher-Yates shuffle behind a cache's random_seq.  A list is a      *)
(* function from 0..count-1 (the unsigned int array).  prandom_u32_state() *)
(* may return any 32-bit value, so rand % (i + 1) may be any of 0..i; the  *)
(* operators give the set of lists the shuffle can produce.                *)
(***************************************************************************)
EXTENDS Naturals, FiniteSets, TLC

\* swap(list[i], list[rand])
Swap(l, a, b) == [l EXCEPT ![a] = l[b], ![b] = l[a]]

\* Mutation: rand %= i, so position i never keeps its own entry
\* (Sattolo's cyclic shuffle).
RECURSIVE FisherYatesModI(_, _)
FisherYatesModI(l, i) ==
  IF i = 0 THEN {l}
  ELSE UNION {FisherYatesModI(Swap(l, i, r), i - 1) : r \in 0..(i - 1)}

\* The loop for (i = count - 1; i > 0; i--), from a given i down to 1.
RECURSIVE FisherYates(_, _)
FisherYates(l, i) ==
  IF i = 0 THEN {l}
  ELSE UNION {FisherYates(Swap(l, i, r), i - 1) : r \in 0..i}

\* freelist_randomize(state, list, count) for count >= 1: list[i] = i,
\* then the shuffle.
freelist_randomize(count) == FisherYates([k \in 0..(count - 1) |-> k], count - 1)

\* The reference: every ordering of the object indices of a slab.
Orderings(count) == Permutations(0..(count - 1))

=============================================================================
