--------------------------- MODULE VmallocAbstract ---------------------------
(***************************************************************************)
(* What vmalloc() promises to the rest of the kernel, with no page tables: *)
(* once vmalloc() has returned an area, any CPU, running in any process    *)
(* alive now or forked later, can access it, and the access completes.     *)
(* The per-process pgds, pgd_list, pgd_lock and vmalloc_fault() of         *)
(* VmallocSync are the mechanism that implements this; VmallocSync         *)
(* instantiates this module with a mapping of its state and checks Spec.   *)
(***************************************************************************)
EXTENDS Naturals

CONSTANTS Procs, InitProcs, Cpus, Areas, MaxAccesses

None == "none"

VARIABLES
  done,      \* areas vmalloc() has returned
  alive,     \* processes that exist
  cpu,       \* cpu -> [pc ("idle" or "access"), proc, area, outcome]
  naccesses

avars == <<done, alive, cpu, naccesses>>

\* vmalloc() returns the area, visible to all processes at once.
Vmalloc(v) ==
  /\ v \notin done
  /\ done' = done \cup {v}
  /\ UNCHANGED <<alive, cpu, naccesses>>

Fork(g) ==
  /\ g \notin alive
  /\ alive' = alive \cup {g}
  /\ UNCHANGED <<done, cpu, naccesses>>

Exit(g) ==
  /\ g \in alive
  /\ \A c \in Cpus : cpu[c].pc # "idle" => cpu[c].proc # g
  /\ alive' = alive \ {g}
  /\ UNCHANGED <<done, cpu, naccesses>>

StartAccess(c) ==
  /\ cpu[c].pc = "idle" /\ naccesses[c] < MaxAccesses
  /\ \E g \in alive, v \in done :
       cpu' = [cpu EXCEPT ![c] = [pc |-> "access", proc |-> g, area |-> v,
                                  outcome |-> None]]
  /\ naccesses' = [naccesses EXCEPT ![c] = @ + 1]
  /\ UNCHANGED <<done, alive>>

\* The access completes; there is no other outcome.
Access(c) ==
  /\ cpu[c].pc = "access"
  /\ cpu' = [cpu EXCEPT ![c].pc = "idle", ![c].outcome = "done"]
  /\ UNCHANGED <<done, alive, naccesses>>

Init ==
  /\ done = {}
  /\ alive = InitProcs
  /\ cpu = [c \in Cpus |-> [pc |-> "idle", proc |-> None, area |-> None,
                            outcome |-> None]]
  /\ naccesses = [c \in Cpus |-> 0]

Next ==
  \/ \E v \in Areas : Vmalloc(v)
  \/ \E g \in Procs : Fork(g) \/ Exit(g)
  \/ \E c \in Cpus : StartAccess(c) \/ Access(c)

\* Every vmalloc() call returns and every access completes.
Spec == Init /\ [][Next]_avars
        /\ \A v \in Areas : WF_avars(Vmalloc(v))
        /\ \A c \in Cpus : WF_avars(Access(c))
=============================================================================
