---------------------------- MODULE PosixSignals ----------------------------
(***************************************************************************)
(* What POSIX says of signals and of the processes that exchange them, for *)
(* one numbering of signals.  Signals.tla uses it twice: with Interix's    *)
(* numbers it is the system LBW runs on, and with Linux's numbers it is    *)
(* what the program was written for.                                       *)
(***************************************************************************)
EXTENDS Integers, Sequences

CONSTANTS
  Process,      \* process identifiers
  First,        \* the process there is at the beginning
  Signal,       \* the numbers of the signals
  Kill,         \* SIGKILL's
  Child,        \* SIGCHLD's
  Flag,         \* the flags an action can have
  Ignored       \* the signals whose default action is to do nothing

VARIABLES
  life,         \* life[p]: unborn, running, zombie, or gone (waited for)
  parent,       \* parent[p]
  cause,        \* cause[p]: the signal that ended p, 0 for exit
  blocked,      \* blocked[p]: p's signal mask
  pending,      \* pending[p]: signals sent to p and not yet delivered
  action,       \* action[p][s]: the action of signal s in p
  handlers      \* handlers[p]: the handlers p is in, innermost last: the
                \* signal caught, whether the handler gets a siginfo_t, and
                \* the mask to put back

vars == <<life, parent, cause, blocked, pending, action, handlers>>

Default == [handler |-> "default", mask |-> {}, flags |-> {}]

Action == [handler : {"default", "ignore", "catch"}, mask : SUBSET Signal,
           flags : SUBSET Flag]

Frame == [sig : Signal, info : BOOLEAN, saved : SUBSET Signal]

Running(p) == life[p] = "running"

Ignores(act, s) == \/ act.handler = "ignore"
                   \/ act.handler = "default" /\ s \in Ignored

Deliverable(p, s) == Running(p) /\ s \in pending[p] /\ s \notin blocked[p]

-----------------------------------------------------------------------------
(* System calls                                                            *)

Masked(how, old, set) ==
  CASE how = "block"   -> old \cup set
    [] how = "unblock" -> old \ set
    [] how = "set"     -> set

SetMask(p, how, set) ==
  /\ Running(p)
  /\ blocked' = [blocked EXCEPT ![p] = Masked(how, @, set) \ {Kill}]
  /\ UNCHANGED <<life, parent, cause, pending, action, handlers>>

\* A signal that is ignored from now on is no longer pending.
SetAction(p, s, act) ==
  /\ Running(p)
  /\ s # Kill
  /\ action' = [action EXCEPT ![p][s] = act]
  /\ pending' = [pending EXCEPT ![p] = IF Ignores(act, s) THEN @ \ {s} ELSE @]
  /\ UNCHANGED <<life, parent, cause, blocked, handlers>>

\* A zombie can be sent signals, which do nothing.
Send(p, q, s) ==
  /\ Running(p)
  /\ life[q] \in {"running", "zombie"}
  /\ pending' = [pending EXCEPT ![q] = IF Running(q) THEN @ \cup {s} ELSE @]
  /\ UNCHANGED <<life, parent, cause, blocked, action, handlers>>

\* A signal from outside: a terminal, a timer, another program.
Arrive(p, s) ==
  /\ Running(p)
  /\ pending' = [pending EXCEPT ![p] = @ \cup {s}]
  /\ UNCHANGED <<life, parent, cause, blocked, action, handlers>>

\* The child is in the same handlers, with the same mask and actions.
Fork(p, q) ==
  /\ Running(p)
  /\ life[q] = "unborn"
  /\ life' = [life EXCEPT ![q] = "running"]
  /\ parent' = [parent EXCEPT ![q] = p]
  /\ blocked' = [blocked EXCEPT ![q] = blocked[p]]
  /\ action' = [action EXCEPT ![q] = action[p]]
  /\ handlers' = [handlers EXCEPT ![q] = handlers[p]]
  /\ UNCHANGED <<cause, pending>>

\* Handlers and flags do not survive an exec; the mask and what is ignored do.
Exec(p) ==
  /\ Running(p)
  /\ action' = [action EXCEPT ![p] =
       [s \in Signal |-> IF action[p][s].handler = "catch" THEN Default
                         ELSE [action[p][s] EXCEPT !.flags = {}]]]
  /\ handlers' = [handlers EXCEPT ![p] = <<>>]
  /\ UNCHANGED <<life, parent, cause, blocked, pending>>

\* Children of such a process are not waited for.
LeavesNoZombies(q) == \/ action[q][Child].handler = "ignore"
                      \/ "SA_NOCLDWAIT" \in action[q][Child].flags

End(p, why) ==
  /\ life' = [life EXCEPT ![p] =
                IF LeavesNoZombies(parent[p]) THEN "gone" ELSE "zombie"]
  /\ cause' = [cause EXCEPT ![p] = why]
  /\ pending' = [q \in Process |->
       IF q = p THEN {}
       ELSE IF q = parent[p] /\ Running(q) THEN pending[q] \cup {Child}
       ELSE pending[q]]
  /\ handlers' = [handlers EXCEPT ![p] = <<>>]
  /\ UNCHANGED <<parent, blocked, action>>

Exit(p) == Running(p) /\ End(p, 0)

Wait(p, q) ==
  /\ Running(p)
  /\ parent[q] = p
  /\ life[q] = "zombie"
  /\ life' = [life EXCEPT ![q] = "gone"]
  /\ UNCHANGED <<parent, cause, blocked, pending, action, handlers>>

-----------------------------------------------------------------------------
(* The delivery of a signal                                                *)

Discard(p, s) ==
  /\ Deliverable(p, s)
  /\ Ignores(action[p][s], s)
  /\ pending' = [pending EXCEPT ![p] = @ \ {s}]
  /\ UNCHANGED <<life, parent, cause, blocked, action, handlers>>

Terminate(p, s) ==
  /\ Deliverable(p, s)
  /\ action[p][s].handler = "default"
  /\ s \notin Ignored
  /\ End(p, s)

\* A signal is blocked in its own handler, unless the action says otherwise.
Deferred(act, s) == IF "SA_NODEFER" \in act.flags THEN {} ELSE {s}

Catch(p, s) ==
  /\ Deliverable(p, s)
  /\ action[p][s].handler = "catch"
  /\ pending' = [pending EXCEPT ![p] = @ \ {s}]
  /\ handlers' = [handlers EXCEPT ![p] =
       Append(@, [sig |-> s, info |-> "SA_SIGINFO" \in action[p][s].flags,
                  saved |-> blocked[p]])]
  /\ blocked' = [blocked EXCEPT ![p] =
       (@ \cup action[p][s].mask \cup Deferred(action[p][s], s)) \ {Kill}]
  /\ action' = [action EXCEPT ![p][s] =
       IF "SA_RESETHAND" \in @.flags THEN Default ELSE @]
  /\ UNCHANGED <<life, parent, cause>>

Return(p) ==
  /\ Running(p)
  /\ handlers[p] # <<>>
  /\ blocked' = [blocked EXCEPT ![p] = handlers[p][Len(handlers[p])].saved]
  /\ handlers' = [handlers EXCEPT ![p] = SubSeq(@, 1, Len(@) - 1)]
  /\ UNCHANGED <<life, parent, cause, pending, action>>

-----------------------------------------------------------------------------
\* The first process has set its actions; nothing else has happened.
Start(actions) ==
  /\ life = [p \in Process |-> IF p = First THEN "running" ELSE "unborn"]
  /\ parent = [p \in Process |-> First]
  /\ cause = [p \in Process |-> 0]
  /\ blocked = [p \in Process |-> {}]
  /\ pending = [p \in Process |-> {}]
  /\ action = [p \in Process |-> IF p = First THEN actions
                                 ELSE [s \in Signal |-> Default]]
  /\ handlers = [p \in Process |-> <<>>]

Init ==
  /\ action[First] \in [Signal -> Action]
  /\ Start(action[First])

\* Any action may be set: it is the one there is afterwards.
SetsAction(p, s) ==
  /\ action'[p][s] \in Action
  /\ SetAction(p, s, action'[p][s])

Next ==
  \E p \in Process :
    \/ \E how \in {"block", "unblock", "set"}, set \in SUBSET Signal :
         SetMask(p, how, set)
    \/ \E s \in Signal : SetsAction(p, s)
    \/ \E q \in Process, s \in Signal : Send(p, q, s)
    \/ \E q \in Process : Fork(p, q) \/ Wait(p, q)
    \/ Exec(p) \/ Exit(p) \/ Return(p)
    \/ \E s \in Signal : \/ Arrive(p, s)
                        \/ Discard(p, s) \/ Terminate(p, s) \/ Catch(p, s)

Spec == Init /\ [][Next]_vars
=============================================================================
