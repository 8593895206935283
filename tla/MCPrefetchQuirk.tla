-------------------------- MODULE MCPrefetchQuirk ---------------------------
(***************************************************************************)
(* PrefetchQuirk over a three-byte scan window and bytes chosen to hit     *)
(* every case of check_prefetch_opcode() and its near misses:              *)
(*   0x0F 0x0D 0x18  the prefetch encodings; 0x0E a 0x0? non-prefetch;     *)
(*   0x26 a segment prefix, 0x2F its neighbour that is not one;            *)
(*   0x41 REX (a prefix only in long mode); 0x66 operand size, 0x68 not;   *)
(*   0xF2 rep, 0xF1 not a prefix; 0x90 any other opcode.                   *)
(***************************************************************************)
EXTENDS PrefetchQuirk

MC_Bytes == {15, 13, 24, 14, 38, 47, 65, 102, 104, 242, 241, 144}
MC_KernelModes == {m \in AllModes : ~m.user}
MC_UserModes == {m \in AllModes : m.user}
=============================================================================
