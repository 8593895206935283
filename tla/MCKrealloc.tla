----------------------------- MODULE MCKrealloc ------------------------------
(***************************************************************************)
(* Krealloc on x86-64 (KMALLOC_MIN_SIZE 8, KMALLOC_SHIFT_HIGH 13), with    *)
(* sizes at the class boundaries: 64 is its own class, 100 lands in        *)
(* kmalloc-128, 192 is kmalloc-192 exactly, 200 lands in kmalloc-256, and  *)
(* 8193 goes to the page allocator as an order-2 block.                    *)
(***************************************************************************)
EXTENDS Krealloc, TLC

\* Objects and threads are interchangeable: no definition orders them.
Symm == Permutations(Objs) \cup Permutations(Users)
=============================================================================
