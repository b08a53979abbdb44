------------------------------ MODULE MCSignals ------------------------------
(***************************************************************************)
(* An instance of Signals for TLC.                                         *)
(***************************************************************************)
EXTENDS Signals

\* SIGKILL, SIGUSR2, SIGSTKFLT and SIGCHLD as Linux numbers them.  Interix's
\* SIGUSR2 has the number of Linux's SIGCHLD; it has no SIGSTKFLT.
MCNumber == [l \in {9, 12, 16, 17} |->
               CASE l = 9 -> 9 [] l = 12 -> 17 [] l = 16 -> -1 [] l = 17 -> 18]

MCSets == {{12, 16, 17}}

Act(h, m, f) == [handler |-> h, mask |-> m, flags |-> f]

\* One action asks for flags that LBW drops.
MCActions == {Act("default", {}, {}),
              Act("catch", {17}, {"SA_RESETHAND", "SA_NODEFER", "SA_NOCLDWAIT"})}

\* SIGUSR2 is caught, or both are.
MCStarts == {[l \in {9, 12, 17} |->
                CASE l = 12 -> Act("catch", {17}, {"SA_SIGINFO"})
                  [] l = 17 -> a
                  [] OTHER -> Act("default", {}, {})] :
             a \in {Act("default", {}, {}), Act("catch", {}, {"SA_RESETHAND"})}}
=============================================================================
