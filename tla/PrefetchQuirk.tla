--------------------------- MODULE PrefetchQuirk ----------------------------
(***************************************************************************)
(* The prefetch erratum filter of arch/x86/mm/fault.c: is_prefetch() and   *)
(* check_prefetch_opcode().  Some CPUs report a page fault for a prefetch  *)
(* instruction; is_prefetch() reads the bytes at the faulting IP, skips    *)
(* the prefixes valid in the current mode and recognises 0F 0D / 0F 18.    *)
(* Each step of the model is one iteration of the scan loop.               *)
(***************************************************************************)
EXTENDS Naturals, Bitwise

CONSTANTS
  Bytes,            \* the byte values the instruction may contain
  MaxInsn,          \* max_instr - instr: the length of the scan window (15)
  Modes,            \* the modes the fault may come from
  NofaultReadsUser  \* whether get_kernel_nofault() reads a user address

\* A byte that cannot be read (get_user() / get_kernel_nofault() fails).
Unreadable == 256

\* kernel, 64-bit user, 32-bit (compat) user
AllModes == {[user |-> FALSE, user64 |-> FALSE],
             [user |-> TRUE, user64 |-> TRUE],
             [user |-> TRUE, user64 |-> FALSE]}

\* The bytes at IP: a readable prefix followed by unreadable bytes.
Memories ==
  UNION {{m \in [0..MaxInsn -> Bytes \cup {Unreadable}] :
            \A i \in 0..MaxInsn : m[i] = Unreadable <=> i >= r} :
         r \in 0..MaxInsn + 1}

VARIABLES
  mode,      \* user_mode(regs) and user_64bit_mode(regs)
  exec,      \* error_code & X86_PF_INSTR
  mem,       \* the bytes at convert_ip_to_linear(current, regs)
  pos,       \* instr - the start of the instruction
  prefetch,  \* the local "prefetch"
  st         \* "entry", "scan" or "done"

vars == <<mode, exec, mem, pos, prefetch, st>>

\* The loop's read: get_user() in user mode, get_kernel_nofault() else.
LoopByte(i) == mem[i]

\* get_kernel_nofault() on the byte after 0x0F.  x86 refuses it for
\* user addresses (copy_from_kernel_nofault_allowed()).
NofaultByte(i) ==
  IF mode.user /\ ~NofaultReadsUser THEN Unreadable ELSE mem[i]

\* Mutation: the 0x6? prefix test masks with 0xE instead of 0xC, losing
\* 0x66 and 0x67.
CheckPrefetchOpcodeWrongMask(opcode, next) ==
  LET hi == opcode & 240
      lo == opcode & 15
  IN CASE hi \in {32, 48} -> [cont |-> (lo & 7) = 6, pf |-> prefetch]
       [] hi = 64 -> [cont |-> ~mode.user \/ mode.user64, pf |-> prefetch]
       [] hi = 96 -> [cont |-> (lo & 14) = 4, pf |-> prefetch]
       [] hi = 240 -> [cont |-> lo = 0 \/ shiftR(lo, 1) = 1, pf |-> prefetch]
       [] hi = 0 ->
            [cont |-> FALSE,
             pf |-> IF NofaultByte(next) = Unreadable THEN prefetch
                    ELSE lo = 15 /\ NofaultByte(next) \in {13, 24}]
       [] OTHER -> [cont |-> FALSE, pf |-> prefetch]

\* Mutation: 0xF1 taken as a prefix like 0xF0, 0xF2 and 0xF3.
CheckPrefetchOpcodeF1(opcode, next) ==
  LET hi == opcode & 240
      lo == opcode & 15
  IN CASE hi \in {32, 48} -> [cont |-> (lo & 7) = 6, pf |-> prefetch]
       [] hi = 64 -> [cont |-> ~mode.user \/ mode.user64, pf |-> prefetch]
       [] hi = 96 -> [cont |-> (lo & 12) = 4, pf |-> prefetch]
       [] hi = 240 -> [cont |-> shiftR(lo, 1) <= 1, pf |-> prefetch]
       [] hi = 0 ->
            [cont |-> FALSE,
             pf |-> IF NofaultByte(next) = Unreadable THEN prefetch
                    ELSE lo = 15 /\ NofaultByte(next) \in {13, 24}]
       [] OTHER -> [cont |-> FALSE, pf |-> prefetch]

\* check_prefetch_opcode() (CONFIG_X86_64): whether the scan goes on past
\* "opcode", and the new value of "prefetch"; "next" is the index of the
\* byte after it.
CheckPrefetchOpcode(opcode, next) ==
  LET hi == opcode & 240
      lo == opcode & 15
  IN CASE hi \in {32, 48} -> [cont |-> (lo & 7) = 6, pf |-> prefetch]
       [] hi = 64 -> [cont |-> ~mode.user \/ mode.user64, pf |-> prefetch]
       [] hi = 96 -> [cont |-> (lo & 12) = 4, pf |-> prefetch]
       [] hi = 240 -> [cont |-> lo = 0 \/ shiftR(lo, 1) = 1, pf |-> prefetch]
       [] hi = 0 ->
            [cont |-> FALSE,
             pf |-> IF NofaultByte(next) = Unreadable THEN prefetch
                    ELSE lo = 15 /\ NofaultByte(next) \in {13, 24}]
       [] OTHER -> [cont |-> FALSE, pf |-> prefetch]

Init ==
  /\ mode \in Modes
  /\ exec \in BOOLEAN
  /\ mem \in Memories
  /\ pos = 0
  /\ prefetch = FALSE
  /\ st = "entry"

\* is_prefetch(): an instruction fetch fault is never ignored.
Entry ==
  /\ st = "entry"
  /\ st' = IF exec THEN "done" ELSE "scan"
  /\ UNCHANGED <<mode, exec, mem, pos, prefetch>>

\* One iteration of the while loop: read, advance, check.
ScanByte ==
  /\ st = "scan" /\ pos < MaxInsn
  /\ IF LoopByte(pos) = Unreadable
     THEN st' = "done" /\ UNCHANGED <<pos, prefetch>>
     ELSE LET c == CheckPrefetchOpcode(LoopByte(pos), pos + 1) IN
          /\ pos' = pos + 1
          /\ prefetch' = c.pf
          /\ st' = IF c.cont THEN "scan" ELSE "done"
  /\ UNCHANGED <<mode, exec, mem>>

\* The loop ends at max_instr.
ScanEnd ==
  /\ st = "scan" /\ pos >= MaxInsn
  /\ st' = "done"
  /\ UNCHANGED <<mode, exec, mem, pos, prefetch>>

Next == Entry \/ ScanByte \/ ScanEnd

Spec == Init /\ [][Next]_vars /\ WF_vars(Next)

-----------------------------------------------------------------------------
(* Reference: the x86 encoding of a prefetch.                              *)
LegacyPrefixes == {38, 46, 54, 62, 100, 101, 102, 103, 240, 242, 243}
RexPrefixes == 64..79
\* In long mode (the kernel, 64-bit user code) 0x40..0x4F are REX prefixes.
ValidPrefixes ==
  LegacyPrefixes \cup (IF ~mode.user \/ mode.user64 THEN RexPrefixes ELSE {})

\* The instruction at IP is readable prefixes, then 0F 0D or 0F 18, with
\* the 0x0F inside the scan window.
IsPrefetchInsn ==
  \E k \in 0..MaxInsn - 1 :
    /\ \A i \in 0..k - 1 : mem[i] \in ValidPrefixes
    /\ mem[k] = 15
    /\ mem[k + 1] \in {13, 24}

(***************************************************************************)
(* is_prefetch() never tells the fault handler to ignore a fault that was  *)
(* not raised by a prefetch: a non-prefetch that no_context() or           *)
(* __bad_area_nosemaphore() ignores would be retried forever.              *)
(***************************************************************************)
PrefetchSound ==
  st = "done" /\ prefetch => ~exec /\ IsPrefetchInsn

(***************************************************************************)
(* is_prefetch() recognises every data fault raised by a prefetch          *)
(* instruction: the erratum the filter exists for is suppressed.           *)
(***************************************************************************)
PrefetchComplete ==
  st = "done" /\ ~exec /\ IsPrefetchInsn => prefetch

(***************************************************************************)
(* For faults raised in kernel mode is_prefetch() recognises every         *)
(* prefetch instruction: both opcode reads go through                      *)
(* get_kernel_nofault(), which can read kernel text.                       *)
(***************************************************************************)
PrefetchCompleteKernel ==
  ~mode.user => PrefetchComplete
=============================================================================
