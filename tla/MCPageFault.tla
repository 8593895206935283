---------------------------- MODULE MCPageFault -----------------------------
(***************************************************************************)
(* Model-checking instance of PageFault: four user pages with a data VMA  *)
(* at page 0 and a stack VMA at page 3 that may grow down to page 2 (the   *)
(* one-page guard gap forbids page 1); page 4 is a kernel page and page 5  *)
(* the vsyscall page.                                                      *)
(***************************************************************************)
EXTENDS PageFault, TLC

MC_UserPages == 0..3
MC_VmaIds == {"data", "stack"}
MC_InitVmas ==
  [v \in MC_VmaIds |->
     IF v = "data"
     THEN [mapped |-> TRUE, start |-> 0, end |-> 1, flags |-> {"READ", "WRITE"}, pkey |-> 0]
     ELSE [mapped |-> TRUE, start |-> 3, end |-> 4,
           flags |-> {"READ", "WRITE", "GROWSDOWN"}, pkey |-> 0]]

\* The code that performed the access.
UserAccess == [umode |-> TRUE, pfuser |-> TRUE, ac |-> FALSE, fixup |-> FALSE,
               ctx |-> "task", sigerr |-> FALSE]
\* A supervisor access made on behalf of user mode (GDT, LDT, IDT).
ImplicitAccess == [UserAccess EXCEPT !.pfuser = FALSE]
\* copy_{to,from}_user(): STAC, with an exception-table entry.
Uaccess == [umode |-> FALSE, pfuser |-> FALSE, ac |-> TRUE, fixup |-> TRUE,
            ctx |-> "task", sigerr |-> FALSE]
\* copy_from_user_nofault(): pagefault_disable()d.
UaccessNofault == [Uaccess EXCEPT !.ctx = "pfdisabled"]
\* a uaccess inside emulate_vsyscall(): sig_on_uaccess_err set.
VsyscallUaccess == [Uaccess EXCEPT !.sigerr = TRUE]
\* a kernel bug: a plain dereference of a user pointer.
WildAccess == [Uaccess EXCEPT !.ac = FALSE, !.fixup = FALSE]

MC_AllOrigins == {UserAccess, ImplicitAccess, Uaccess, UaccessNofault,
                  VsyscallUaccess, WildAccess}
MC_ConcOrigins == {UserAccess, Uaccess, WildAccess}
MC_UserOrigins == {UserAccess}
MC_LiveOrigins == {UserAccess, Uaccess}

MC_AllResults == {{}, {"MAJOR"}, {"RETRY"}, {"OOM"}, {"SIGBUS"}, {"HWPOISON"},
                  {"HWPOISON_LARGE"}, {"SIGSEGV"}}
MC_ConcResults == {{}, {"RETRY"}, {"SIGBUS"}}
MC_LiveResults == {{}, {"RETRY"}}

MC_Protections == {{"READ"}, {}}

Symm == Permutations(Threads)
=============================================================================
