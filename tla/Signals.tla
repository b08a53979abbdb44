------------------------------- MODULE Signals -------------------------------
(***************************************************************************)
(* Signals and processes under LBW: signals.cc, clone.cc, the waiting of   *)
(* process.cc, and the process lock of user.cc.  Masks, actions and        *)
(* handlers are Interix's own, set by calls which translate the program's  *)
(* numbers into Interix's.  Signals arrive in the middle of LBW's calls,   *)
(* which hold a lock, and the program's handlers fork there.               *)
(***************************************************************************)
EXTENDS Integers, Sequences, FiniteSets

CONSTANTS
  Process, First,    \* see PosixSignals
  LinuxSignal,       \* the numbers the program uses for signals
  Number,            \* Number[l]: Interix's number of signal l, -1 for none
  LinuxKill, LinuxChild, LinuxIgnored,
  Sets,              \* the masks the program uses
  Actions,           \* the actions it sets
  Starts,            \* the actions it may have set before the behaviour begins
  Outside,           \* the signals that come from outside
  MaxCalls,          \* bound: calls the program makes
  MaxArrivals        \* bound: signals from outside

Supported == {l \in LinuxSignal : Number[l] # -1}

NamedSet(is) == {l \in Supported : Number[l] \in is}

\* The flags of an action that mean something here.  (SA_RESTART and
\* SA_NOCLDSTOP are about interrupted calls and stopped children; SA_ONSTACK is
\* about a stack that sigaltstack refuses to set.)
Flag == {"SA_RESETHAND", "SA_NODEFER", "SA_SIGINFO", "SA_NOCLDWAIT"}

LinuxAction == [handler : {"default", "ignore", "catch"},
                mask : SUBSET LinuxSignal, flags : SUBSET Flag]

ASSUME NumberAssumption ==
  /\ Number \in [LinuxSignal -> (Nat \ {0}) \cup {-1}]
  /\ \A k, l \in Supported : Number[k] = Number[l] => k = l
  /\ 0 \notin LinuxSignal
  /\ LinuxKill \in Supported /\ LinuxChild \in Supported

ASSUME ProgramAssumption ==
  /\ First \in Process /\ "none" \notin Process
  /\ Sets \subseteq SUBSET LinuxSignal
  /\ Actions \subseteq LinuxAction
  /\ Starts \subseteq [Supported -> LinuxAction]
  /\ MaxCalls \in Nat /\ MaxArrivals \in Nat

VARIABLES
  life, parent, cause, blocked, pending, action, handlers, \* Interix's
  calls,     \* calls[p]: for the program and each handler p is in, how far it
             \* is with a call: none in progress, wants or holds the lock
  lock,      \* lock[p]: owner and count of p's recursive mutex
  savedSet,  \* savedSet[p]: the mask p was last told it had
  savedAct,  \* savedAct[p]: the action of a signal that p was last told
  made,      \* the number of calls made
  arrived,   \* the number of signals from outside
  due,       \* history: signals successfully sent and not acted upon
  reported   \* history: pairs of a process and the status its parent got

memory == <<savedSet, savedAct>>
kernel == <<life, parent, cause, blocked, pending, action, handlers>>
vars == <<kernel, calls, lock, memory, made, arrived, due, reported>>

\* No pointer to a set or an action, and a program that has not asked for one.
NoSet == {0}
NoAction == [handler |-> "none", mask |-> {}, flags |-> {}]
NotSaved == [sig |-> 0, act |-> NoAction]

-----------------------------------------------------------------------------
(* The conversions                                                         *)

convert_signal_l2i(l) == IF l \in LinuxSignal THEN Number[l] ELSE -1

\* Fault variant: no signal is left out.
convert_sigset_l2iAll(ls) == {convert_signal_l2i(l) : l \in ls}

\* Signals that Interix does not have are left out.
convert_sigset_l2i(ls) == {convert_signal_l2i(l) : l \in ls \cap Supported}

\* The source is emptied before it is read, and bits are only ever set in the
\* destination: what it held stays, and nothing is added.
convert_sigset_i2l(is, ls) == LET emptied == {} IN ls \cup NamedSet(emptied)

\* The other flags are dropped, in both directions, and nobody is told: the
\* warnings are compiled out.
Converted(flags) == flags \cap {"SA_RESETHAND"}

\* Fault variant: the mask of a handler is forgotten.
convert_sigaction_l2iMaskless(act) ==
  [handler |-> act.handler, mask |-> {}, flags |-> Converted(act.flags)]

\* The handler is the program's own: Interix will call it with its own number
\* of the signal, and without a siginfo_t.
convert_sigaction_l2i(act) ==
  [handler |-> act.handler, mask |-> convert_sigset_l2i(act.mask),
   flags |-> Converted(act.flags)]

convert_sigaction_i2l(act) ==
  [handler |-> act.handler, mask |-> convert_sigset_i2l(act.mask, {}),
   flags |-> Converted(act.flags)]

InterixSignal == {Number[l] : l \in Supported}

Interix == INSTANCE PosixSignals WITH
  Signal <- InterixSignal, Kill <- Number[LinuxKill],
  Child <- Number[LinuxChild], Ignored <- convert_sigset_l2i(LinuxIgnored)

-----------------------------------------------------------------------------
(* What the program sees: everything in Linux's numbers.                   *)

Named(i) == IF i = 0 THEN 0 ELSE CHOOSE l \in Supported : Number[l] = i

NamedAction(act) ==
  [handler |-> act.handler, mask |-> NamedSet(act.mask), flags |-> act.flags]

\* The signal that was caught; the number its handler is given is f.sig itself.
NamedFrame(f) ==
  [sig |-> Named(f.sig), info |-> f.info, saved |-> NamedSet(f.saved)]

NamedFrames(h) == [k \in 1 .. Len(h) |-> NamedFrame(h[k])]

linuxCause == [p \in Process |-> Named(cause[p])]
linuxBlocked == [p \in Process |-> NamedSet(blocked[p])]
linuxPending == [p \in Process |-> NamedSet(pending[p])]
linuxAction ==
  [p \in Process |-> [l \in Supported |-> NamedAction(action[p][Number[l]])]]
linuxHandlers == [p \in Process |-> NamedFrames(handlers[p])]

Linux == INSTANCE PosixSignals WITH
  Signal <- Supported, Kill <- LinuxKill, Child <- LinuxChild,
  Ignored <- LinuxIgnored \cap Supported,
  cause <- linuxCause, blocked <- linuxBlocked, pending <- linuxPending,
  action <- linuxAction, handlers <- linuxHandlers

-----------------------------------------------------------------------------
(* The lock, and the entry of a call                                       *)

Unlocked == [owner |-> "none", count |-> 0]

Available(p) == lock[p].owner \in {"none", p}

Context(p) == Len(calls[p])

InCall(p) == calls[p][Context(p)]

Traps(p) ==
  /\ Interix!Running(p)
  /\ InCall(p) = "none"
  /\ made < MaxCalls
  /\ made' = made + 1
  /\ arrived' = arrived

\* handler_cb takes the lock, and releases it, before any call begins.
Enters(p) == Traps(p) /\ Available(p)

\* A call that keeps the lock while it works: those of FD.cc, the VFS, mmap.cc
\* and memory.cc.
Begin(p) ==
  /\ Traps(p)
  /\ calls' = [calls EXCEPT ![p][Context(p)] = "wants"]
  /\ UNCHANGED <<kernel, lock, memory, due, reported>>

Lock(p) ==
  /\ Interix!Running(p)
  /\ InCall(p) = "wants"
  /\ Available(p)
  /\ lock' = [lock EXCEPT ![p] = [owner |-> p, count |-> @.count + 1]]
  /\ calls' = [calls EXCEPT ![p][Context(p)] = "holds"]
  /\ UNCHANGED <<kernel, memory, made, due, reported, arrived>>

\* Fault variant: an outermost hold is not given up.
ReleasedInner(l, p) ==
  IF l.owner # p \/ l.count = 1 THEN l ELSE [l EXCEPT !.count = @ - 1]

\* A mutex that is not the caller's refuses, and nobody looks at the result.
Released(l, p) ==
  IF l.owner # p THEN l
  ELSE IF l.count = 1 THEN Unlocked
  ELSE [l EXCEPT !.count = @ - 1]

Unlock(p) ==
  /\ Interix!Running(p)
  /\ InCall(p) = "holds"
  /\ lock' = [lock EXCEPT ![p] = Released(@, p)]
  /\ calls' = [calls EXCEPT ![p][Context(p)] = "none"]
  /\ UNCHANGED <<kernel, memory, made, due, reported, arrived>>

-----------------------------------------------------------------------------
(* signals.cc                                                              *)

\* The mask is set, if one is given.
Sigprocmask(p, how, set) ==
  IF set = NoSet THEN UNCHANGED kernel
  ELSE Interix!SetMask(p, how, convert_sigset_l2i(set))

\* The old mask is wanted in a variable that held `before`.
sys32_rt_sigprocmask(p, how, set, before) ==
  /\ Enters(p)
  /\ IF how \in {"block", "unblock", "set"}
     THEN /\ Sigprocmask(p, how, set)
          /\ savedSet' = IF before = NoSet THEN savedSet ELSE
               [savedSet EXCEPT ![p] = convert_sigset_i2l(blocked[p], before)]
     ELSE UNCHANGED <<kernel, savedSet>>
  /\ UNCHANGED <<calls, lock, savedAct, due, reported>>

\* The end of a critical section: the program puts the old mask back.
RestoreMask(p) ==
  /\ Enters(p)
  /\ Sigprocmask(p, "set", savedSet[p])
  /\ UNCHANGED <<calls, lock, memory, due, reported>>

\* An ignored signal is no longer awaited.
Undue(p, l, act) ==
  IF Interix!Ignores(act, Number[l]) THEN due \ {<<p, l>>} ELSE due

SetAction(p, l, act) ==
  /\ Interix!SetAction(p, Number[l], convert_sigaction_l2i(act))
  /\ due' = Undue(p, l, act)

sys32_rt_sigaction(p, l, act, wanted) ==
  /\ Enters(p)
  /\ \/ /\ convert_signal_l2i(l) = -1 \/ (l = LinuxKill /\ act # NoAction)
        /\ UNCHANGED <<kernel, savedAct, due>>
     \/ /\ convert_signal_l2i(l) # -1
        /\ IF act = NoAction THEN UNCHANGED <<kernel, due>>
           ELSE SetAction(p, l, act)
        /\ savedAct' = IF ~wanted THEN savedAct ELSE
             [savedAct EXCEPT ![p] =
                [sig |-> l,
                 act |-> convert_sigaction_i2l(action[p][Number[l]])]]
  /\ UNCHANGED <<calls, lock, savedSet, reported>>

\* The program puts back the action it was told.
RestoreAction(p) ==
  /\ Enters(p)
  /\ savedAct[p].sig # 0
  /\ SetAction(p, savedAct[p].sig, savedAct[p].act)
  /\ UNCHANGED <<calls, lock, memory, reported>>

\* Fault variant: the number is not converted.
SentUnconverted(p, q, l) ==
  IF convert_signal_l2i(l) = -1
  THEN UNCHANGED <<kernel, due>>
  ELSE /\ Interix!Send(p, q, l)
       /\ due' = IF Interix!Running(q) THEN due \cup {<<q, l>>} ELSE due

\* Signal 0 and those Interix does not have are refused, and so is a thread
\* that is not the process.
Sent(p, q, l) ==
  IF convert_signal_l2i(l) = -1
  THEN UNCHANGED <<kernel, due>>
  ELSE /\ Interix!Send(p, q, convert_signal_l2i(l))
       /\ due' = IF Interix!Running(q) THEN due \cup {<<q, l>>} ELSE due

sys32_kill(p, q, l) ==
  /\ Enters(p)
  /\ Sent(p, q, l)
  /\ UNCHANGED <<calls, lock, memory, reported>>

sys_tgkill(p, group, q, l) ==
  /\ Enters(p)
  /\ IF group = q THEN Sent(p, q, l)
     ELSE UNCHANGED <<kernel, due>>
  /\ UNCHANGED <<calls, lock, memory, reported>>

-----------------------------------------------------------------------------
(* clone.cc, process.cc, exec.cc                                           *)

\* Fault variant: the child keeps the lock of the thread that forked.
InitProcessKept(l) == l

\* The lock as the child finds it.
InitProcess(l) == Unlocked

\* The child is in the same handlers and the calls they interrupted.
stub32_fork(p, q) ==
  /\ Enters(p)
  /\ Interix!Fork(p, q)
  /\ calls' = [calls EXCEPT ![q] = calls[p]]
  /\ lock' = [lock EXCEPT ![q] = InitProcess(lock[p])]
  /\ savedSet' = [savedSet EXCEPT ![q] = savedSet[p]]
  /\ savedAct' = [savedAct EXCEPT ![q] = savedAct[p]]
  /\ UNCHANGED <<due, reported>>

Ended(p) == due' = {d \in due : d[1] # p}

sys_exit(p) ==
  /\ Enters(p)
  /\ Interix!Exit(p)
  /\ Ended(p)
  /\ UNCHANGED <<calls, lock, memory, reported>>

\* The status is Interix's own.
Status(q) == cause[q]

sys32_waitpid(p, q) ==
  /\ Enters(p)
  /\ Interix!Wait(p, q)
  /\ reported' = reported \cup {<<q, Status(q)>>}
  /\ UNCHANGED <<calls, lock, memory, due>>

\* A new LBW, with new memory.
sys32_execve(p) ==
  /\ Enters(p)
  /\ Interix!Exec(p)
  /\ calls' = [calls EXCEPT ![p] = <<"none">>]
  /\ lock' = [lock EXCEPT ![p] = InitProcess(@)]
  /\ savedSet' = [savedSet EXCEPT ![p] = {}]
  /\ savedAct' = [savedAct EXCEPT ![p] = NotSaved]
  /\ UNCHANGED <<due, reported>>

-----------------------------------------------------------------------------
(* Delivery: the handler is the program's own, entered by Interix wherever *)
(* the process is.                                                         *)

Deliver(p, i) ==
  /\ \/ Interix!Discard(p, i) /\ calls' = calls
     \/ Interix!Terminate(p, i) /\ calls' = calls
     \/ Interix!Catch(p, i) /\ calls' = [calls EXCEPT ![p] = Append(@, "none")]
  /\ due' = {d \in due : d # <<p, Named(i)>> /\ life'[d[1]] = "running"}
  /\ UNCHANGED <<lock, memory, made, reported, arrived>>

\* A terminal, a timer or a program outside sends a signal.
Arrive(p, i) ==
  /\ Named(i) \in Outside
  /\ arrived < MaxArrivals
  /\ arrived' = arrived + 1
  /\ Interix!Arrive(p, i)
  /\ UNCHANGED <<calls, lock, memory, made, due, reported>>

Return(p) ==
  /\ InCall(p) = "none"
  /\ Interix!Return(p)
  /\ calls' = [calls EXCEPT ![p] = SubSeq(@, 1, Len(@) - 1)]
  /\ UNCHANGED <<lock, memory, made, due, reported, arrived>>

-----------------------------------------------------------------------------
Init ==
  /\ \E start \in Starts :
       Interix!Start([i \in InterixSignal |->
                        convert_sigaction_l2i(start[Named(i)])])
  /\ calls = [p \in Process |-> <<"none">>]
  /\ lock = [p \in Process |-> Unlocked]
  /\ savedSet = [p \in Process |-> {}]
  /\ savedAct = [p \in Process |-> NotSaved]
  /\ made = 0
  /\ arrived = 0
  /\ due = {}
  /\ reported = {}

Call(p) ==
  \/ Begin(p)
  \/ \E how \in {"block", "unblock", "set", "other"},
        set, before \in Sets \cup {NoSet} :
       sys32_rt_sigprocmask(p, how, set, before)
  \/ \E l \in LinuxSignal, act \in Actions \cup {NoAction}, wanted \in BOOLEAN :
       sys32_rt_sigaction(p, l, act, wanted)
  \/ RestoreMask(p)
  \/ RestoreAction(p)
  \/ \E q \in Process, l \in LinuxSignal \cup {0} : sys32_kill(p, q, l)
  \/ \E g, q \in Process, l \in LinuxSignal : sys_tgkill(p, g, q, l)
  \/ \E q \in Process : stub32_fork(p, q) \/ sys32_waitpid(p, q)
  \/ sys_exit(p)
  \/ sys32_execve(p)

Finish(p) == Lock(p) \/ Unlock(p)

Next ==
  \E p \in Process :
    \/ Call(p) \/ Finish(p) \/ Return(p)
    \/ \E i \in InterixSignal : Deliver(p, i) \/ Arrive(p, i)

\* LBW's calls end, the system delivers every signal it can, and the program's
\* handlers return.  Nothing makes the program call anything.
Fairness ==
  \A p \in Process :
    /\ WF_vars(Finish(p))
    /\ WF_vars(Return(p))
    /\ WF_vars(\E i \in InterixSignal : Deliver(p, i))

Spec == Init /\ [][Next]_vars
FairSpec == Spec /\ Fairness

-----------------------------------------------------------------------------
SavedAction == [sig : Supported, act : LinuxAction]

TypeOK ==
  /\ life \in [Process -> {"unborn", "running", "zombie", "gone"}]
  /\ parent \in [Process -> Process]
  /\ cause \in [Process -> InterixSignal \cup {0}]
  /\ blocked \in [Process -> SUBSET InterixSignal]
  /\ pending \in [Process -> SUBSET InterixSignal]
  /\ action \in [Process -> [InterixSignal -> Interix!Action]]
  /\ handlers \in [Process -> Seq(Interix!Frame)]
  /\ calls \in [Process -> Seq({"none", "wants", "holds"})]
  /\ lock \in [Process -> [owner : Process \cup {"none"}, count : Nat]]
  /\ savedSet \in [Process -> SUBSET LinuxSignal]
  /\ savedAct \in [Process -> SavedAction \cup {NotSaved}]
  /\ made \in 0 .. MaxCalls /\ arrived \in 0 .. MaxArrivals
  /\ due \subseteq Process \X Supported
  /\ reported \subseteq Process \X (InterixSignal \cup {0})

\* The flags LBW takes from every action a program sets.
Lost == {"SA_NODEFER", "SA_SIGINFO", "SA_NOCLDWAIT"}

\* An action as far as Interix knows its signals and LBW its flags.
Kept(act) == [handler |-> act.handler, mask |-> act.mask \cap Supported,
              flags |-> act.flags \ Lost]

\* A call does to masks, actions and pending signals what the program asks for,
\* as far as Interix knows the signals it names and LBW the flags.
Obeyed(p) ==
  /\ \A how \in {"block", "unblock", "set"}, set \in Sets,
        before \in Sets \cup {NoSet} :
       sys32_rt_sigprocmask(p, how, set, before) =>
         Linux!SetMask(p, how, set \cap Supported)
  /\ \A l \in Supported \ {LinuxKill}, act \in Actions, wanted \in BOOLEAN :
       sys32_rt_sigaction(p, l, act, wanted) =>
         Linux!SetAction(p, l, Kept(act))
  /\ \A q \in Process, l \in Supported :
       sys32_kill(p, q, l) => Linux!Send(p, q, l)

\* Every call and every delivery is, in Linux's numbers, what Linux would do,
\* and for the signals the program named: masks, actions, pending signals,
\* handlers and what ends a process survive the conversions, fork, exec and
\* nested handlers (signals.cc:76, 150, 208).  That is Linux for a program that
\* asks for none of the flags in Lost: they are dropped (signals.cc:215), so a
\* handler that wanted its own signal while it runs does not get it, no handler
\* gets a siginfo_t, and children stay to be waited for.  Nor is the number
\* compared that a handler is called with, which is Interix's (signals.cc:222).
ActsAsLinux == Linux!Spec /\ [][\A p \in Process : Obeyed(p)]_vars

\* A signal for which kill returned success is acted upon by the process it was
\* sent to, unless the process, as Linux would see it, blocks the signal
\* (signals.cc:322): the numbers of the sender, of the mask and of the action
\* agree, in the middle of a call as between calls.
SentIsTaken ==
  \A p \in Process, l \in Supported :
    <<p, l>> \in due ~> \/ <<p, l>> \notin due
                       \/ l \in NamedSet(blocked[p])

\* Every call that takes the lock ends, whichever handlers interrupt it, also in
\* a child that was forked in one of them (user.cc:23, clone.cc:47).
CallsEnd ==
  \A p \in Process :
    InCall(p) # "none" ~> InCall(p) = "none" \/ ~Interix!Running(p)

Holding(contexts) == {k \in 1 .. Len(contexts) : contexts[k] = "holds"}

\* The lock never stays taken: it is free when no context of a process works
\* under it, and only a process that was forked in the middle of calls has
\* fewer holds than contexts (user.cc:49, globals.h:97).
LockBalanced ==
  \A p \in Process : Interix!Running(p) =>
    /\ lock[p].owner \in {"none", p}
    /\ lock[p].count <= Cardinality(Holding(calls[p]))

\* "Luckily, Interix and Linux wait statuses are compatible." (process.cc:376):
\* the signal in the status a parent gets is the one that ended its child.
StatusesCompatible == \A r \in reported : r[2] = Named(cause[r[1]])
=============================================================================
