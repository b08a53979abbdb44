---------------------------- MODULE SignalsProofs ----------------------------
(***************************************************************************)
(* Proofs about Signals, for every set of processes, every numbering of    *)
(* the signals and every program: the types; the lock is never left taken; *)
(* and LBW on Interix implements PosixSignals with Linux's numbers.        *)
(***************************************************************************)
EXTENDS Signals, TLAPS, SequenceTheorems, FiniteSetTheorems

(* The part of TypeOK about Interix's state.                               *)
KernelOK ==
  /\ life \in [Process -> {"unborn", "running", "zombie", "gone"}]
  /\ parent \in [Process -> Process]
  /\ cause \in [Process -> InterixSignal \cup {0}]
  /\ blocked \in [Process -> SUBSET InterixSignal]
  /\ pending \in [Process -> SUBSET InterixSignal]
  /\ action \in [Process -> [InterixSignal -> Interix!Action]]
  /\ handlers \in [Process -> Seq(Interix!Frame)]

-----------------------------------------------------------------------------
(* The conversions                                                         *)

(* Named is the inverse of Number.                                         *)
LEMMA Names ==
  /\ \A l \in Supported : Number[l] \in InterixSignal /\ Named(Number[l]) = l
  /\ \A i \in InterixSignal : Named(i) \in Supported /\ Number[Named(i)] = i
  /\ 0 \notin InterixSignal /\ 0 \notin Supported
  /\ Named(0) = 0
<1>1. \A l \in Supported : Number[l] # 0 /\ Number[l] \in InterixSignal
  BY NumberAssumption DEF Supported, InterixSignal
<1>2. ASSUME NEW l \in Supported PROVE Named(Number[l]) = l
  BY <1>1, NumberAssumption DEF Named
<1>3. ASSUME NEW i \in InterixSignal
      PROVE Named(i) \in Supported /\ Number[Named(i)] = i
  <2>1. PICK l \in Supported : i = Number[l]
    BY DEF InterixSignal
  <2>2. QED
    BY <2>1, <1>2
<1>4. 0 \notin InterixSignal /\ 0 \notin Supported /\ Named(0) = 0
  BY <1>1, NumberAssumption DEF InterixSignal, Named, Supported
<1>5. QED
  BY <1>1, <1>2, <1>3, <1>4

(* A set of signals survives the way there and back, but for those that    *)
(* Interix does not have.                                                  *)
LEMMA SetThere ==
  ASSUME NEW ls
  PROVE  /\ convert_sigset_l2i(ls) \subseteq InterixSignal
         /\ NamedSet(convert_sigset_l2i(ls)) = ls \cap Supported
<1>1. convert_sigset_l2i(ls) = {Number[l] : l \in ls \cap Supported}
  BY DEF convert_sigset_l2i, convert_signal_l2i, Supported
<1>2. QED
  BY <1>1, NumberAssumption DEF NamedSet, InterixSignal

LEMMA ActionThere ==
  ASSUME NEW act \in LinuxAction
  PROVE  /\ convert_sigaction_l2i(act) \in Interix!Action
         /\ NamedAction(convert_sigaction_l2i(act)) = Kept(act)
<1>1. Converted(act.flags) = act.flags \ Lost /\ act.flags \subseteq Flag
  BY DEF Converted, Flag, Lost, LinuxAction
<1>2. convert_sigaction_l2i(act) \in Interix!Action
  BY <1>1, SetThere DEF convert_sigaction_l2i, Interix!Action, LinuxAction
<1>3. NamedAction(convert_sigaction_l2i(act)) = Kept(act)
  BY <1>1, SetThere DEF convert_sigaction_l2i, NamedAction, Kept
<1>4. QED
  BY <1>2, <1>3

LEMMA ActionBack ==
  ASSUME NEW act \in Interix!Action
  PROVE  /\ convert_sigaction_i2l(act) \in LinuxAction
         /\ NamedAction(act) \in Linux!Action
         /\ NamedAction(act) \in LinuxAction
<1>1. Converted(act.flags) \subseteq Flag
  BY DEF Converted, Flag
<1>2. QED
  BY <1>1 DEF convert_sigaction_i2l, convert_sigset_i2l, NamedAction, NamedSet,
              Interix!Action, Linux!Action, LinuxAction, Supported

(* What is reported of a mask is a set of the program's signals.           *)
LEMMA SetBack ==
  ASSUME NEW is, NEW ls \in SUBSET LinuxSignal
  PROVE  convert_sigset_i2l(is, ls) \in SUBSET LinuxSignal
BY DEF convert_sigset_i2l, NamedSet, Supported

-----------------------------------------------------------------------------
(* Types                                                                   *)

LEMMA SetMaskOK ==
  ASSUME KernelOK, NEW p \in Process, NEW how \in {"block", "unblock", "set"},
         NEW set \in SUBSET InterixSignal, Interix!SetMask(p, how, set)
  PROVE  KernelOK'
BY DEF KernelOK, Interix!SetMask, Interix!Masked

LEMMA SetActionOK ==
  ASSUME KernelOK, NEW p \in Process, NEW i \in InterixSignal,
         NEW act \in Interix!Action, Interix!SetAction(p, i, act)
  PROVE  KernelOK'
<1>1. action' \in [Process -> [InterixSignal -> Interix!Action]]
  BY DEF KernelOK, Interix!SetAction
<1>2. pending' \in [Process -> SUBSET InterixSignal]
  BY DEF KernelOK, Interix!SetAction
<1>3. QED
  BY <1>1, <1>2 DEF KernelOK, Interix!SetAction

LEMMA SendOK ==
  ASSUME KernelOK, NEW p \in Process, NEW q \in Process,
         NEW i \in InterixSignal,
         Interix!Send(p, q, i) \/ Interix!Arrive(q, i)
  PROVE  KernelOK'
<1>1. pending' \in [Process -> SUBSET InterixSignal]
  <2>1. CASE Interix!Send(p, q, i)
    BY <2>1 DEF KernelOK, Interix!Send
  <2>2. CASE Interix!Arrive(q, i)
    BY <2>2 DEF KernelOK, Interix!Arrive
  <2>3. QED
    BY <2>1, <2>2
<1>2. UNCHANGED <<life, parent, cause, blocked, action, handlers>>
  BY DEF Interix!Send, Interix!Arrive
<1>3. QED
  BY <1>1, <1>2 DEF KernelOK

LEMMA ForkOK ==
  ASSUME KernelOK, NEW p \in Process, NEW q \in Process,
         Interix!Fork(p, q) \/ Interix!Wait(p, q)
  PROVE  KernelOK'
<1>1. CASE Interix!Fork(p, q)
  BY <1>1 DEF KernelOK, Interix!Fork
<1>2. CASE Interix!Wait(p, q)
  BY <1>2 DEF KernelOK, Interix!Wait
<1>3. QED
  BY <1>1, <1>2

LEMMA DefaultOK == Interix!Default \in Interix!Action
BY DEF Interix!Default, Interix!Action

(* So is an action without its flags.                                      *)
LEMMA FlaglessOK ==
  ASSUME NEW act \in Interix!Action
  PROVE  [act EXCEPT !.flags = {}] \in Interix!Action
BY DEF Interix!Action

LEMMA ExecOK ==
  ASSUME KernelOK, NEW p \in Process, Interix!Exec(p)
  PROVE  KernelOK'
<1>1. \A i \in InterixSignal :
        [action[p][i] EXCEPT !.flags = {}] \in Interix!Action
  BY FlaglessOK DEF KernelOK
<1>2. action' \in [Process -> [InterixSignal -> Interix!Action]]
  BY <1>1, DefaultOK DEF KernelOK, Interix!Exec
<1>3. handlers' \in [Process -> Seq(Interix!Frame)]
  BY EmptySeq DEF KernelOK, Interix!Exec
<1>4. QED
  BY <1>2, <1>3 DEF KernelOK, Interix!Exec

LEMMA EndOK ==
  ASSUME KernelOK, NEW p \in Process, NEW why \in InterixSignal \cup {0},
         Interix!End(p, why)
  PROVE  KernelOK'
<1>1. Number[LinuxChild] \in InterixSignal
  BY Names, NumberAssumption
<1>2. QED
  BY <1>1, EmptySeq DEF KernelOK, Interix!End

LEMMA CatchOK ==
  ASSUME KernelOK, NEW p \in Process, NEW i \in InterixSignal,
         Interix!Catch(p, i)
  PROVE  KernelOK'
<1> DEFINE info == "SA_SIGINFO" \in action[p][i].flags
           frame == [sig |-> i, info |-> info, saved |-> blocked[p]]
<1>1. frame \in Interix!Frame
  BY DEF KernelOK, Interix!Frame
<1>2. Append(handlers[p], frame) \in Seq(Interix!Frame)
  BY <1>1, AppendProperties DEF KernelOK
<1>3. handlers' \in [Process -> Seq(Interix!Frame)]
  BY <1>2 DEF KernelOK, Interix!Catch
<1>4. /\ action[p][i].mask \in SUBSET InterixSignal
      /\ Interix!Deferred(action[p][i], i) \in SUBSET InterixSignal
  BY DEF KernelOK, Interix!Action, Interix!Deferred
<1>5. blocked' \in [Process -> SUBSET InterixSignal]
  BY <1>4 DEF KernelOK, Interix!Catch
<1>6. action' \in [Process -> [InterixSignal -> Interix!Action]]
  BY DefaultOK DEF KernelOK, Interix!Catch
<1>7. QED
  BY <1>3, <1>5, <1>6 DEF KernelOK, Interix!Catch

(* The last handler of a process that is in one.                           *)
LEMMA LastHandler ==
  ASSUME KernelOK, NEW p \in Process, handlers[p] # <<>>
  PROVE  /\ Len(handlers[p]) \in Nat \ {0}
         /\ handlers[p][Len(handlers[p])] \in Interix!Frame
BY EmptySeq, ElementOfSeq DEF KernelOK

LEMMA ReturnOK ==
  ASSUME KernelOK, NEW p \in Process, Interix!Return(p)
  PROVE  KernelOK'
<1>1. handlers[p] \in Seq(Interix!Frame) /\ handlers[p] # <<>>
  BY DEF KernelOK, Interix!Return
<1>2. SubSeq(handlers[p], 1, Len(handlers[p]) - 1) \in Seq(Interix!Frame)
  BY <1>1, LastHandler, SubSeqProperties, ElementOfSeq
<1>3. handlers[p][Len(handlers[p])].saved \in SUBSET InterixSignal
  BY <1>1, LastHandler DEF Interix!Frame
<1>4. QED
  BY <1>2, <1>3 DEF KernelOK, Interix!Return

LEMMA DeliverOK ==
  ASSUME KernelOK, NEW p \in Process, NEW i \in InterixSignal,
         Interix!Discard(p, i) \/ Interix!Terminate(p, i) \/ Interix!Catch(p, i)
  PROVE  KernelOK'
<1>1. CASE Interix!Discard(p, i)
  BY <1>1 DEF KernelOK, Interix!Discard
<1>2. CASE Interix!Terminate(p, i)
  BY <1>2, EndOK DEF Interix!Terminate
<1>3. CASE Interix!Catch(p, i)
  BY <1>3, CatchOK
<1>4. QED
  BY <1>1, <1>2, <1>3

(* A mask the program gives, or a mask it was told, arrives as one.        *)
LEMMA SigprocmaskOK ==
  ASSUME KernelOK, NEW p \in Process, NEW how \in {"block", "unblock", "set"},
         NEW set, Sigprocmask(p, how, set)
  PROVE  KernelOK'
<1>1. CASE set = NoSet
  BY <1>1 DEF Sigprocmask, kernel, KernelOK
<1>2. CASE set # NoSet
  BY <1>2, SetThere, SetMaskOK DEF Sigprocmask
<1>3. QED
  BY <1>1, <1>2

LEMMA SentOK ==
  ASSUME KernelOK, NEW p \in Process, NEW q \in Process,
         NEW l \in LinuxSignal \cup {0}, Sent(p, q, l)
  PROVE  KernelOK'
<1>1. CASE convert_signal_l2i(l) = -1
  BY <1>1 DEF Sent, kernel, KernelOK
<1>2. CASE convert_signal_l2i(l) # -1
  <2>1. l \in Supported /\ convert_signal_l2i(l) = Number[l]
    BY <1>2, NumberAssumption DEF convert_signal_l2i, Supported
  <2>2. QED
    BY <1>2, <2>1, Names, SendOK DEF Sent
<1>3. QED
  BY <1>1, <1>2

LEMMA ProgramActionOK ==
  ASSUME KernelOK, NEW p \in Process, NEW l \in Supported,
         NEW act \in LinuxAction, SetAction(p, l, act)
  PROVE  KernelOK'
BY ActionThere, Names, SetActionOK DEF SetAction

-----------------------------------------------------------------------------
(* Every step leaves Interix's state well typed.                           *)
LEMMA KernelTypes ==
  ASSUME TypeOK, [Next]_vars
  PROVE  KernelOK'
<1> USE DEF TypeOK
<1>0. KernelOK
  BY DEF KernelOK
<1>1. CASE UNCHANGED vars
  BY <1>0, <1>1 DEF vars, kernel, KernelOK
<1>2. ASSUME NEW p \in Process, Call(p) PROVE KernelOK'
  <2>1. CASE Begin(p)
    BY <1>0, <2>1 DEF Begin, kernel, KernelOK
  <2>2. ASSUME NEW how, NEW set, NEW before,
               sys32_rt_sigprocmask(p, how, set, before)
        PROVE  KernelOK'
    <3>1. CASE how \in {"block", "unblock", "set"}
      BY <1>0, <2>2, <3>1, SigprocmaskOK DEF sys32_rt_sigprocmask
    <3>2. CASE how \notin {"block", "unblock", "set"}
      BY <1>0, <2>2, <3>2 DEF sys32_rt_sigprocmask, kernel, KernelOK
    <3>3. QED
      BY <3>1, <3>2
  <2>3. ASSUME NEW l \in LinuxSignal, NEW act \in Actions \cup {NoAction},
               NEW wanted, sys32_rt_sigaction(p, l, act, wanted)
        PROVE  KernelOK'
    <3>1. CASE UNCHANGED kernel
      BY <1>0, <3>1 DEF kernel, KernelOK
    <3>2. CASE convert_signal_l2i(l) # -1 /\ act # NoAction /\ SetAction(p, l, act)
      <4>1. l \in Supported /\ act \in LinuxAction
        BY <3>2, ProgramAssumption DEF convert_signal_l2i, Supported
      <4>2. QED
        BY <1>0, <3>2, <4>1, ProgramActionOK
    <3>3. QED
      BY <2>3, <3>1, <3>2 DEF sys32_rt_sigaction
  <2>4. CASE RestoreMask(p)
    BY <1>0, <2>4, SigprocmaskOK DEF RestoreMask
  <2>5. CASE RestoreAction(p)
    <3>1. savedAct[p].sig \in Supported /\ savedAct[p].act \in LinuxAction
      BY <2>5 DEF RestoreAction, SavedAction, NotSaved
    <3>2. QED
      BY <1>0, <2>5, <3>1, ProgramActionOK DEF RestoreAction
  <2>6. ASSUME NEW q \in Process, NEW l \in LinuxSignal \cup {0},
               sys32_kill(p, q, l)
        PROVE  KernelOK'
    BY <1>0, <2>6, SentOK DEF sys32_kill
  <2>7. ASSUME NEW g, NEW q \in Process, NEW l \in LinuxSignal,
               sys_tgkill(p, g, q, l)
        PROVE  KernelOK'
    <3>1. CASE g = q
      BY <1>0, <2>7, <3>1, SentOK DEF sys_tgkill
    <3>2. CASE g # q
      BY <1>0, <2>7, <3>2 DEF sys_tgkill, kernel, KernelOK
    <3>3. QED
      BY <3>1, <3>2
  <2>8. ASSUME NEW q \in Process, stub32_fork(p, q) \/ sys32_waitpid(p, q)
        PROVE  KernelOK'
    BY <1>0, <2>8, ForkOK DEF stub32_fork, sys32_waitpid
  <2>9. CASE sys_exit(p)
    BY <1>0, <2>9, EndOK DEF sys_exit, Interix!Exit
  <2>10. CASE sys32_execve(p)
    BY <1>0, <2>10, ExecOK DEF sys32_execve
  <2>11. QED
    BY <1>2, <2>1, <2>2, <2>3, <2>4, <2>5, <2>6, <2>7, <2>8, <2>9, <2>10
       DEF Call
<1>3. ASSUME NEW p \in Process, Finish(p) PROVE KernelOK'
  BY <1>0, <1>3 DEF Finish, Lock, Unlock, kernel, KernelOK
<1>4. ASSUME NEW p \in Process, Return(p) PROVE KernelOK'
  BY <1>0, <1>4, ReturnOK DEF Return
<1>5. ASSUME NEW p \in Process, NEW i \in InterixSignal,
             Deliver(p, i) \/ Arrive(p, i)
      PROVE  KernelOK'
  BY <1>0, <1>5, DeliverOK, SendOK DEF Deliver, Arrive
<1>6. QED
  BY <1>1, <1>2, <1>3, <1>4, <1>5 DEF Next

-----------------------------------------------------------------------------
(* The lock.  The calls of a running process are those of the program and  *)
(* of each handler it is in.                                               *)

ContextsOK ==
  \A p \in Process :
    Interix!Running(p) => Len(calls[p]) = Len(handlers[p]) + 1

LockOK ==
  \A p \in Process :
    /\ lock[p].owner = "none" <=> lock[p].count = 0
    /\ Interix!Running(p) =>
         /\ lock[p].owner \in {"none", p}
         /\ lock[p].count <= Cardinality(Holding(calls[p]))

IInv == TypeOK /\ ContextsOK /\ LockOK

Progress == {"none", "wants", "holds"}

LEMMA HoldingFinite ==
  ASSUME NEW c \in Seq(Progress)
  PROVE  IsFiniteSet(Holding(c)) /\ Cardinality(Holding(c)) \in Nat
<1>1. IsFiniteSet(1 .. Len(c))
  BY FS_Interval, LenProperties
<1>2. Holding(c) \in SUBSET (1 .. Len(c))
  BY DEF Holding
<1>3. QED
  BY <1>1, <1>2, FS_Subset, FS_CardinalityType

LEMMA HoldingExcept ==
  ASSUME NEW c \in Seq(Progress), NEW k \in 1 .. Len(c), NEW v \in Progress
  PROVE  Holding([c EXCEPT ![k] = v])
           = IF v = "holds" THEN Holding(c) \cup {k} ELSE Holding(c) \ {k}
BY ExceptSeq DEF Holding

LEMMA HoldingAppend ==
  ASSUME NEW c \in Seq(Progress)
  PROVE  Holding(Append(c, "none")) = Holding(c)
<1>1. /\ Len(Append(c, "none")) = Len(c) + 1
      /\ \A k \in 1 .. Len(c) : Append(c, "none")[k] = c[k]
      /\ Append(c, "none")[Len(c) + 1] = "none"
  BY AppendProperties DEF Progress
<1>2. Len(c) \in Nat
  BY LenProperties
<1>3. QED
  BY <1>1, <1>2 DEF Holding

LEMMA HoldingFront ==
  ASSUME NEW c \in Seq(Progress), Len(c) > 0, c[Len(c)] = "none"
  PROVE  /\ SubSeq(c, 1, Len(c) - 1) \in Seq(Progress)
         /\ Len(SubSeq(c, 1, Len(c) - 1)) = Len(c) - 1
         /\ Holding(SubSeq(c, 1, Len(c) - 1)) = Holding(c)
<1>1. Len(c) \in Nat /\ \A k \in 1 .. Len(c) : c[k] \in Progress
  BY LenProperties, ElementOfSeq
<1>2. /\ SubSeq(c, 1, Len(c) - 1) \in Seq(Progress)
      /\ Len(SubSeq(c, 1, Len(c) - 1)) = Len(c) - 1
      /\ \A k \in 1 .. Len(c) - 1 : SubSeq(c, 1, Len(c) - 1)[k] = c[k]
  <2>1. PICK n \in Nat : Len(c) = n + 1
    BY <1>1
  <2>2. \A k \in 1 .. n : c[k] \in Progress
    BY <1>1, <2>1
  <2>3. /\ SubSeq(c, 1, n) \in Seq(Progress)
        /\ Len(SubSeq(c, 1, n)) = IF 1 <= n THEN n - 1 + 1 ELSE 0
        /\ \A k \in 1 .. n - 1 + 1 : SubSeq(c, 1, n)[k] = c[1 + k - 1]
    BY <2>2, SubSeqProperties
  <2>4. Len(c) - 1 = n
    BY <2>1
  <2>5. Len(SubSeq(c, 1, n)) = n /\ \A k \in 1 .. n : SubSeq(c, 1, n)[k] = c[k]
    BY <2>3
  <2>6. QED
    BY <2>3, <2>4, <2>5
<1>3. QED
  BY <1>1, <1>2 DEF Holding

(* The context a running process is in, if it is between two steps of its  *)
(* own.                                                                    *)
LEMMA Innermost ==
  ASSUME TypeOK, ContextsOK, NEW p \in Process, Interix!Running(p)
  PROVE  /\ calls[p] \in Seq(Progress)
         /\ Context(p) = Len(calls[p]) /\ Context(p) \in 1 .. Len(calls[p])
         /\ Len(handlers[p]) \in Nat
         /\ Len(calls[p]) = Len(handlers[p]) + 1
BY LenProperties DEF TypeOK, ContextsOK, Context, Progress

-----------------------------------------------------------------------------
(* The types of LBW's and the program's own state.                         *)

OthersOK ==
  /\ calls \in [Process -> Seq(Progress)]
  /\ lock \in [Process -> [owner : Process \cup {"none"}, count : Nat]]
  /\ savedSet \in [Process -> SUBSET LinuxSignal]
  /\ savedAct \in [Process -> SavedAction \cup {NotSaved}]
  /\ made \in 0 .. MaxCalls /\ arrived \in 0 .. MaxArrivals
  /\ due \subseteq Process \X Supported
  /\ reported \subseteq Process \X (InterixSignal \cup {0})

LEMMA TrapsOK ==
  ASSUME TypeOK, NEW p \in Process, Traps(p)
  PROVE  made' \in 0 .. MaxCalls /\ arrived' \in 0 .. MaxArrivals
BY ProgramAssumption DEF TypeOK, Traps

LEMMA ProgramSet ==
  ASSUME NEW set \in Sets \cup {NoSet}, set # NoSet
  PROVE  set \in SUBSET LinuxSignal
BY ProgramAssumption

LEMMA CallOthers ==
  ASSUME IInv, NEW p \in Process, Call(p)
  PROVE  OthersOK'
<1> USE DEF IInv, TypeOK, OthersOK, Progress
<1>0. /\ made' \in 0 .. MaxCalls /\ arrived' \in 0 .. MaxArrivals
      /\ Interix!Running(p)
  <2>1. Traps(p)
    BY DEF Call, Begin, Enters, sys32_rt_sigprocmask, sys32_rt_sigaction,
           RestoreMask, RestoreAction, sys32_kill, sys_tgkill, stub32_fork,
           sys32_waitpid, sys_exit, sys32_execve
  <2>2. QED
    BY <2>1, TrapsOK DEF Traps
<1>1. CASE Begin(p)
  <2>1. [calls[p] EXCEPT ![Context(p)] = "wants"] \in Seq(Progress)
    BY <1>0, Innermost, ExceptSeq
  <2>2. calls' = [calls EXCEPT ![p] = [calls[p] EXCEPT ![Context(p)] = "wants"]]
    BY <1>1 DEF Begin
  <2>3. calls' \in [Process -> Seq(Progress)]
    BY <2>1, <2>2
  <2>4. QED
    BY <1>0, <1>1, <2>3 DEF Begin, memory
<1>2. ASSUME NEW how, NEW set, NEW before \in Sets \cup {NoSet},
             sys32_rt_sigprocmask(p, how, set, before)
      PROVE  OthersOK'
  <2>1. CASE savedSet' = savedSet
    BY <1>0, <1>2, <2>1 DEF sys32_rt_sigprocmask
  <2>2. CASE /\ before # NoSet
             /\ savedSet' = [savedSet EXCEPT ![p] =
                              convert_sigset_i2l(blocked[p], before)]
    <3>1. convert_sigset_i2l(blocked[p], before) \in SUBSET LinuxSignal
      BY <2>2, ProgramSet, SetBack
    <3>2. savedSet' \in [Process -> SUBSET LinuxSignal]
      BY <2>2, <3>1
    <3>3. QED
      BY <1>0, <1>2, <3>2 DEF sys32_rt_sigprocmask
  <2>3. QED
    BY <1>2, <2>1, <2>2 DEF sys32_rt_sigprocmask
<1>3. ASSUME NEW l \in LinuxSignal, NEW act \in Actions \cup {NoAction},
             NEW wanted, sys32_rt_sigaction(p, l, act, wanted)
      PROVE  OthersOK'
  <2>1. due' \subseteq Process \X Supported
    BY <1>3 DEF sys32_rt_sigaction, SetAction, Undue
  <2>2. savedAct' \in [Process -> SavedAction \cup {NotSaved}]
    <3>1. CASE savedAct' = savedAct
      BY <3>1
    <3>2. CASE convert_signal_l2i(l) # -1
      <4>1. l \in Supported /\ Number[l] \in InterixSignal
        BY <3>2, Names DEF convert_signal_l2i, Supported
      <4>2. action[p][Number[l]] \in Interix!Action
        BY <4>1
      <4>3. [sig |-> l, act |-> convert_sigaction_i2l(action[p][Number[l]])]
              \in SavedAction
        BY <4>1, <4>2, ActionBack DEF SavedAction
      <4>4. CASE savedAct' = [savedAct EXCEPT ![p] =
               [sig |-> l, act |-> convert_sigaction_i2l(action[p][Number[l]])]]
        BY <4>3, <4>4
      <4>5. QED
        BY <1>3, <3>1, <4>4 DEF sys32_rt_sigaction
    <3>3. QED
      BY <1>3, <3>1, <3>2 DEF sys32_rt_sigaction
  <2>3. UNCHANGED <<calls, lock, savedSet, reported>>
    BY <1>3 DEF sys32_rt_sigaction
  <2>4. QED
    BY <1>0, <2>1, <2>2, <2>3
<1>4. CASE RestoreMask(p)
  BY <1>0, <1>4 DEF RestoreMask, memory
<1>5. CASE RestoreAction(p)
  BY <1>0, <1>5 DEF RestoreAction, SetAction, Undue, memory
<1>6. ASSUME NEW q \in Process, NEW l \in LinuxSignal \cup {0}, Sent(p, q, l)
      PROVE  due' \subseteq Process \X Supported
  <2>1. CASE convert_signal_l2i(l) = -1
    BY <1>6, <2>1 DEF Sent
  <2>2. CASE convert_signal_l2i(l) # -1
    <3>1. l \in Supported
      BY <2>2 DEF convert_signal_l2i, Supported
    <3>2. QED
      BY <1>6, <2>2, <3>1 DEF Sent
  <2>3. QED
    BY <2>1, <2>2
<1>7. ASSUME NEW q \in Process, NEW l \in LinuxSignal \cup {0},
             sys32_kill(p, q, l)
      PROVE  OthersOK'
  BY <1>0, <1>6, <1>7 DEF sys32_kill, memory
<1>8. ASSUME NEW g, NEW q \in Process, NEW l \in LinuxSignal,
             sys_tgkill(p, g, q, l)
      PROVE  OthersOK'
  BY <1>0, <1>6, <1>8 DEF sys_tgkill, memory
<1>9. ASSUME NEW q \in Process, stub32_fork(p, q)
      PROVE  OthersOK'
  BY <1>0, <1>9 DEF stub32_fork, InitProcess, Unlocked
<1>10. ASSUME NEW q \in Process, sys32_waitpid(p, q)
       PROVE  OthersOK'
  BY <1>0, <1>10 DEF sys32_waitpid, Status, memory
<1>11. CASE sys_exit(p)
  BY <1>0, <1>11 DEF sys_exit, Ended, memory
<1>12. CASE sys32_execve(p)
  <2>1. <<"none">> \in Seq(Progress)
    OBVIOUS
  <2>2. QED
    BY <1>0, <1>12, <2>1
       DEF sys32_execve, InitProcess, Unlocked, NotSaved
<1>13. QED
  BY <1>1, <1>2, <1>3, <1>4, <1>5, <1>7, <1>8, <1>9, <1>10, <1>11, <1>12
     DEF Call

LEMMA SystemOthers ==
  ASSUME IInv, NEW p \in Process, NEW i \in InterixSignal,
         Finish(p) \/ Return(p) \/ Deliver(p, i) \/ Arrive(p, i)
  PROVE  OthersOK'
<1> USE DEF IInv, TypeOK, OthersOK, Progress
<1>0. Interix!Running(p)
  BY DEF Finish, Lock, Unlock, Return, Interix!Return, Deliver, Arrive,
         Interix!Discard, Interix!Terminate, Interix!Catch,
         Interix!Deliverable, Interix!Arrive
<1>1. ASSUME NEW v \in Progress,
             calls' = [calls EXCEPT ![p][Context(p)] = v]
      PROVE  calls' \in [Process -> Seq(Progress)]
  <2>1. [calls[p] EXCEPT ![Context(p)] = v] \in Seq(Progress)
    BY <1>0, Innermost, ExceptSeq
  <2>2. calls' = [calls EXCEPT ![p] = [calls[p] EXCEPT ![Context(p)] = v]]
    BY <1>1
  <2>3. QED
    BY <2>1, <2>2
<1>2. CASE Lock(p)
  <2>1. calls' \in [Process -> Seq(Progress)]
    BY <1>1, <1>2 DEF Lock
  <2>2. QED
    BY <1>2, <2>1 DEF Lock, memory
<1>3. CASE Unlock(p)
  <2>1. calls' \in [Process -> Seq(Progress)]
    BY <1>1, <1>3 DEF Unlock
  <2>2. Released(lock[p], p) \in [owner : Process \cup {"none"}, count : Nat]
    <3>1. CASE lock[p].owner # p
      BY <3>1 DEF Released
    <3>2. CASE lock[p].owner = p /\ lock[p].count = 1
      BY <3>2 DEF Released, Unlocked
    <3>3. CASE lock[p].owner = p /\ lock[p].count # 1
      <4>1. lock[p] \in [owner : Process \cup {"none"}, count : Nat]
        OBVIOUS
      <4>2. lock[p].count - 1 \in Nat
        BY <3>3, <4>1, ProgramAssumption DEF LockOK
      <4>3. Released(lock[p], p) = [lock[p] EXCEPT !.count = lock[p].count - 1]
        BY <3>3 DEF Released
      <4>4. QED
        BY <4>1, <4>2, <4>3
    <3>4. QED
      BY <3>1, <3>2, <3>3
  <2>3. QED
    BY <1>3, <2>1, <2>2 DEF Unlock, memory
<1>4. CASE Return(p)
  <2>1. SubSeq(calls[p], 1, Len(calls[p]) - 1) \in Seq(Progress)
    BY <1>0, <1>4, Innermost, HoldingFront DEF Return, InCall
  <2>2. QED
    BY <1>4, <2>1 DEF Return, memory
<1>5. CASE Deliver(p, i)
  <2>1. Append(calls[p], "none") \in Seq(Progress)
    BY AppendProperties
  <2>2. calls' \in [Process -> Seq(Progress)]
    BY <1>5, <2>1 DEF Deliver
  <2>3. QED
    BY <1>5, <2>2 DEF Deliver, memory
<1>6. CASE Arrive(p, i)
  BY <1>6, ProgramAssumption DEF Arrive, memory
<1>7. QED
  BY <1>2, <1>3, <1>4, <1>5, <1>6 DEF Finish

-----------------------------------------------------------------------------
(* The contexts and the lock                                               *)

(* A step that leaves the lock and the contexts alone, and adds no running *)
(* process.                                                                *)
LEMMA Quiet ==
  ASSUME IInv, UNCHANGED <<calls, lock>>,
         \A q \in Process : (Interix!Running(q))' =>
                             Interix!Running(q) /\ handlers'[q] = handlers[q]
  PROVE  ContextsOK' /\ LockOK'
BY DEF IInv, ContextsOK, LockOK

LEMMA CallLock ==
  ASSUME IInv, NEW p \in Process, Call(p)
  PROVE  ContextsOK' /\ LockOK'
<1> USE DEF IInv, TypeOK
<1>1. ASSUME UNCHANGED <<life, handlers, calls, lock>>
      PROVE  ContextsOK' /\ LockOK'
  BY <1>1, Quiet DEF Interix!Running
<1>2. ASSUME NEW how, NEW set, Sigprocmask(p, how, set)
      PROVE  UNCHANGED life /\ UNCHANGED handlers
  BY <1>2 DEF Sigprocmask, kernel, Interix!SetMask
<1>3. ASSUME NEW l, NEW act, SetAction(p, l, act)
      PROVE  UNCHANGED life /\ UNCHANGED handlers
  BY <1>3 DEF SetAction, Interix!SetAction
<1>4. ASSUME NEW q, NEW l, Sent(p, q, l)
      PROVE  UNCHANGED life /\ UNCHANGED handlers
  BY <1>4 DEF Sent, kernel, Interix!Send
<1>5. CASE Begin(p)
  <2>1. Interix!Running(p) /\ InCall(p) = "none" /\ UNCHANGED <<life, handlers, lock>>
    BY <1>5 DEF Begin, Traps, kernel
  <2>2. calls' = [calls EXCEPT ![p] = [calls[p] EXCEPT ![Context(p)] = "wants"]]
    BY <1>5 DEF Begin
  <2>3. /\ calls[p] \in Seq(Progress) /\ Context(p) \in 1 .. Len(calls[p])
        /\ calls[p][Context(p)] = "none"
    BY <2>1, Innermost DEF InCall
  <2>4. /\ Len(calls'[p]) = Len(calls[p])
        /\ Holding(calls'[p]) = Holding(calls[p])
    BY <2>2, <2>3, ExceptSeq, HoldingExcept DEF Progress, Holding
  <2>5. QED
    BY <2>1, <2>2, <2>4 DEF ContextsOK, LockOK, Interix!Running
<1>6. ASSUME NEW how, NEW set, NEW before,
             sys32_rt_sigprocmask(p, how, set, before)
      PROVE  ContextsOK' /\ LockOK'
  BY <1>1, <1>2, <1>6 DEF sys32_rt_sigprocmask, kernel
<1>7. ASSUME NEW l, NEW act, NEW wanted, sys32_rt_sigaction(p, l, act, wanted)
      PROVE  ContextsOK' /\ LockOK'
  BY <1>1, <1>3, <1>7 DEF sys32_rt_sigaction, kernel
<1>8. CASE RestoreMask(p) \/ RestoreAction(p)
  BY <1>1, <1>2, <1>3, <1>8 DEF RestoreMask, RestoreAction
<1>9. ASSUME NEW g, NEW q, NEW l, sys32_kill(p, q, l) \/ sys_tgkill(p, g, q, l)
      PROVE  ContextsOK' /\ LockOK'
  BY <1>1, <1>4, <1>9 DEF sys32_kill, sys_tgkill, kernel
<1>10. ASSUME NEW q \in Process, stub32_fork(p, q)
       PROVE  ContextsOK' /\ LockOK'
  <2>1. \A r \in Process : (Interix!Running(r))' => Interix!Running(r) \/ r = q
    BY <1>10 DEF stub32_fork, Interix!Fork, Interix!Running
  <2>2. /\ calls'[q] = calls[p] /\ handlers'[q] = handlers[p]
        /\ Interix!Running(p) /\ calls[p] \in Seq(Progress)
        /\ \A r \in Process : r # q => calls'[r] = calls[r]
    BY <1>10 DEF stub32_fork, Interix!Fork, Progress
  <2>3. lock'[q] = Unlocked /\ \A r \in Process : r # q => lock'[r] = lock[r]
    BY <1>10 DEF stub32_fork, InitProcess
  <2>4. Cardinality(Holding(calls[p])) \in Nat
    BY <2>2, HoldingFinite
  <2>5. 0 <= Cardinality(Holding(calls'[q]))
    BY <2>2, <2>4
  <2>6. lock'[q].owner = "none" /\ lock'[q].count = 0
    BY <2>3 DEF Unlocked
  <2>7. \A r \in Process : r # q => handlers'[r] = handlers[r]
    BY <1>10 DEF stub32_fork, Interix!Fork
  <2>8. ContextsOK'
    BY <2>1, <2>2, <2>7 DEF ContextsOK
  <2>9. LockOK'
    BY <2>1, <2>2, <2>3, <2>5, <2>6 DEF LockOK
  <2>10. QED
    BY <2>8, <2>9
<1>11. ASSUME NEW q \in Process, sys32_waitpid(p, q)
       PROVE  ContextsOK' /\ LockOK'
  BY <1>11, Quiet DEF sys32_waitpid, Interix!Wait, Interix!Running
<1>12. CASE sys_exit(p)
  <2>1. \A q \in Process : (Interix!Running(q))' =>
          Interix!Running(q) /\ handlers'[q] = handlers[q]
    BY <1>12 DEF sys_exit, Interix!Exit, Interix!End, Interix!Running
  <2>2. QED
    BY <1>12, <2>1, Quiet DEF sys_exit
<1>13. CASE sys32_execve(p)
  <2>1. /\ calls'[p] = <<"none">> /\ lock'[p] = Unlocked /\ handlers'[p] = <<>>
        /\ life' = life
        /\ \A q \in Process \ {p} : /\ handlers'[q] = handlers[q]
                                   /\ calls'[q] = calls[q] /\ lock'[q] = lock[q]
    BY <1>13 DEF sys32_execve, InitProcess, Interix!Exec
  <2>2. <<"none">> \in Seq(Progress)
    BY DEF Progress
  <2>3. Cardinality(Holding(<<"none">>)) \in Nat
    BY <2>2, HoldingFinite
  <2>4. 0 <= Cardinality(Holding(calls'[p]))
    BY <2>1, <2>3
  <2>5. lock'[p].owner = "none" /\ lock'[p].count = 0
    BY <2>1 DEF Unlocked
  <2>6. ContextsOK'
    <3>1. Len(calls'[p]) = 1 /\ Len(handlers'[p]) = 0
      BY <2>1
    <3>2. \A q \in Process \ {p} : life'[q] = "running" =>
                                   Len(calls'[q]) = Len(handlers'[q]) + 1
      BY <2>1 DEF ContextsOK, Interix!Running
    <3>3. Len(calls'[p]) = Len(handlers'[p]) + 1
      BY <3>1
    <3>4. QED
      BY <3>2, <3>3 DEF ContextsOK, Interix!Running
  <2>7. QED
    BY <2>1, <2>4, <2>5, <2>6 DEF LockOK, Interix!Running
<1>14. QED
  BY <1>1, <1>5, <1>6, <1>7, <1>8, <1>9, <1>10, <1>11, <1>12, <1>13 DEF Call

LEMMA SystemLock ==
  ASSUME IInv, NEW p \in Process, NEW i \in InterixSignal,
         Finish(p) \/ Return(p) \/ Deliver(p, i) \/ Arrive(p, i)
  PROVE  ContextsOK' /\ LockOK'
<1> USE DEF IInv, TypeOK
<1>0. Interix!Running(p)
  BY DEF Finish, Lock, Unlock, Return, Interix!Return, Deliver, Arrive,
         Interix!Discard, Interix!Terminate, Interix!Catch,
         Interix!Deliverable, Interix!Arrive
<1>1. /\ calls[p] \in Seq(Progress) /\ Context(p) \in 1 .. Len(calls[p])
      /\ IsFiniteSet(Holding(calls[p])) /\ Cardinality(Holding(calls[p])) \in Nat
  BY <1>0, Innermost, HoldingFinite
<1>2. CASE Lock(p)
  <2>1. /\ UNCHANGED <<life, handlers>>
        /\ calls' = [calls EXCEPT ![p] = [calls[p] EXCEPT ![Context(p)] = "holds"]]
        /\ calls[p][Context(p)] = "wants"
        /\ lock[p].owner \in {"none", p}
        /\ lock' = [lock EXCEPT ![p] = [owner |-> p, count |-> lock[p].count + 1]]
    BY <1>2 DEF Lock, kernel, InCall, Available
  <2>2. /\ Len(calls'[p]) = Len(calls[p])
        /\ Holding(calls'[p]) = Holding(calls[p]) \cup {Context(p)}
        /\ Context(p) \notin Holding(calls[p])
    BY <1>1, <2>1, ExceptSeq, HoldingExcept DEF Progress, Holding
  <2>3. Cardinality(Holding(calls'[p])) = Cardinality(Holding(calls[p])) + 1
    BY <1>1, <2>2, FS_AddElement
  <2>4. /\ lock[p].count \in Nat /\ lock[p].count <= Cardinality(Holding(calls[p]))
        /\ lock'[p].owner = p /\ lock'[p].count = lock[p].count + 1
    BY <1>0, <2>1 DEF LockOK
  <2>5. lock'[p].count <= Cardinality(Holding(calls'[p])) /\ lock'[p].count # 0
    BY <1>1, <2>3, <2>4
  <2>6. QED
    BY <2>1, <2>2, <2>4, <2>5, ProgramAssumption DEF ContextsOK, LockOK, Interix!Running
<1>3. CASE Unlock(p)
  <2>1. /\ UNCHANGED <<life, handlers>>
        /\ calls' = [calls EXCEPT ![p] = [calls[p] EXCEPT ![Context(p)] = "none"]]
        /\ calls[p][Context(p)] = "holds"
        /\ lock' = [lock EXCEPT ![p] = Released(lock[p], p)]
    BY <1>3 DEF Unlock, kernel, InCall
  <2>2. /\ Len(calls'[p]) = Len(calls[p])
        /\ Holding(calls'[p]) = Holding(calls[p]) \ {Context(p)}
        /\ Context(p) \in Holding(calls[p])
    BY <1>1, <2>1, ExceptSeq, HoldingExcept DEF Progress, Holding
  <2>3. Cardinality(Holding(calls'[p])) = Cardinality(Holding(calls[p])) - 1
    <3>1. Cardinality(Holding(calls[p]) \ {Context(p)})
            = Cardinality(Holding(calls[p])) - 1
      <4>1. IsFiniteSet(Holding(calls[p])) /\ Context(p) \in Holding(calls[p])
        BY <1>1, <2>2
      <4>2. \A S, x : IsFiniteSet(S) => Cardinality(S \ {x}) =
              IF x \in S THEN Cardinality(S) - 1 ELSE Cardinality(S)
        BY FS_RemoveElement, Zenon
      <4>3. QED
        BY <4>1, <4>2
    <3>2. QED
      BY <2>2, <3>1
  <2>4. /\ lock[p].count \in Nat /\ lock[p].count <= Cardinality(Holding(calls[p]))
        /\ lock[p].owner = "none" <=> lock[p].count = 0
        /\ lock[p] \in [owner : Process \cup {"none"}, count : Nat]
        /\ lock[p].owner \in {"none", p}
    BY <1>0 DEF LockOK
  <2>5. Cardinality(Holding(calls'[p])) \in Nat
    BY <1>1, <2>2, FS_RemoveElement, FS_CardinalityType
  <2>6. /\ lock'[p].owner = "none" <=> lock'[p].count = 0
        /\ lock'[p].owner \in {"none", p}
        /\ lock'[p].count <= Cardinality(Holding(calls'[p]))
    <3>1. CASE lock[p].owner # p
      BY <1>1, <2>1, <2>3, <2>4, <2>5, <3>1 DEF Released
    <3>2. CASE lock[p].owner = p /\ lock[p].count = 1
      BY <2>1, <2>5, <3>2 DEF Released, Unlocked
    <3>3. CASE lock[p].owner = p /\ lock[p].count # 1
      <4>1. lock'[p] = [lock[p] EXCEPT !.count = lock[p].count - 1]
        BY <2>1, <3>3 DEF Released
      <4>2. lock'[p].owner = p /\ lock'[p].count = lock[p].count - 1
        BY <2>4, <3>3, <4>1
      <4>3. QED
        BY <1>1, <2>3, <2>4, <3>3, <4>2, ProgramAssumption
    <3>4. QED
      BY <3>1, <3>2, <3>3
  <2>7. QED
    BY <2>1, <2>2, <2>6 DEF ContextsOK, LockOK, Interix!Running
<1>4. CASE Return(p)
  <2>1. /\ UNCHANGED <<life, lock>>
        /\ calls' = [calls EXCEPT ![p] = SubSeq(calls[p], 1, Len(calls[p]) - 1)]
        /\ handlers' = [handlers EXCEPT ![p] = SubSeq(handlers[p], 1, Len(handlers[p]) - 1)]
        /\ calls[p][Len(calls[p])] = "none" /\ handlers[p] # <<>>
    BY <1>4 DEF Return, Interix!Return, InCall, Context
  <2>2. /\ Len(calls'[p]) = Len(calls[p]) - 1
        /\ Holding(calls'[p]) = Holding(calls[p])
    BY <1>1, <2>1, HoldingFront
  <2>3. Len(handlers'[p]) = Len(handlers[p]) - 1
    <3>1. KernelOK
      BY DEF KernelOK
    <3>2. Len(handlers[p]) \in Nat \ {0} /\ handlers[p] \in Seq(Interix!Frame)
      BY <2>1, <3>1, LastHandler
    <3>3. \A k \in 1 .. Len(handlers[p]) - 1 : handlers[p][k] \in Interix!Frame
      BY <3>2, ElementOfSeq
    <3>4. PICK n \in Nat : Len(handlers[p]) = n + 1
      <4>1. Len(handlers[p]) - 1 \in Nat /\ Len(handlers[p]) = Len(handlers[p]) - 1 + 1
        BY <3>2
      <4>2. QED
        BY <4>1
    <3>5. Len(SubSeq(handlers[p], 1, n)) = n
      BY <3>3, <3>4, SubSeqProperties
    <3>6. Len(handlers[p]) - 1 = n /\ handlers'[p] = SubSeq(handlers[p], 1, n)
      BY <2>1, <3>4
    <3>7. QED
      BY <3>5, <3>6
  <2>4. /\ Len(calls[p]) \in Nat /\ Len(handlers[p]) \in Nat
        /\ calls'[p] = SubSeq(calls[p], 1, Len(calls[p]) - 1)
    BY <1>1, <2>1, LenProperties
  <2>5. \A q \in Process \ {p} : handlers'[q] = handlers[q] /\ calls'[q] = calls[q]
    BY <2>1
  <2>6. ContextsOK'
    BY <2>1, <2>2, <2>3, <2>4, <2>5 DEF ContextsOK, Interix!Running
  <2>7. LockOK'
    BY <2>1, <2>2, <2>5 DEF LockOK, Interix!Running
  <2>8. QED
    BY <2>6, <2>7
<1>5. CASE Deliver(p, i)
  <2>1. CASE calls' = calls /\ (Interix!Discard(p, i) \/ Interix!Terminate(p, i))
    <3>1. UNCHANGED <<calls, lock>>
      BY <1>5, <2>1 DEF Deliver
    <3>2. CASE Interix!Discard(p, i)
      <4>1. UNCHANGED <<life, handlers>>
        BY <3>2 DEF Interix!Discard
      <4>2. QED
        BY <3>1, <4>1, Quiet DEF Interix!Running
    <3>3. CASE Interix!Terminate(p, i)
      <4>1. Interix!Running(p) /\ Interix!End(p, i)
        BY <3>3 DEF Interix!Terminate, Interix!Deliverable
      <4>2. \A q \in Process : (Interix!Running(q))' =>
                Interix!Running(q) /\ handlers'[q] = handlers[q]
        BY <4>1 DEF Interix!End, Interix!Running
      <4>3. QED
        BY <3>1, <4>2, Quiet
    <3>4. QED
      BY <2>1, <3>2, <3>3
  <2>2. CASE Interix!Catch(p, i) /\ calls' = [calls EXCEPT ![p] = Append(@, "none")]
    <3>1. Len(handlers'[p]) = Len(handlers[p]) + 1
      <4> DEFINE info == "SA_SIGINFO" \in action[p][i].flags
                 frame == [sig |-> i, info |-> info, saved |-> blocked[p]]
      <4>1. frame \in Interix!Frame
        BY DEF Interix!Frame
      <4>2. handlers'[p] = Append(handlers[p], frame)
        BY <2>2 DEF Interix!Catch
      <4>3. QED
        BY <4>1, <4>2, AppendProperties
    <3>2. /\ Len(calls'[p]) = Len(calls[p]) + 1
          /\ Holding(calls'[p]) = Holding(calls[p])
      BY <1>1, <2>2, AppendProperties, HoldingAppend DEF Progress
    <3>3. /\ UNCHANGED <<life, lock>>
          /\ \A q \in Process \ {p} : handlers'[q] = handlers[q] /\ calls'[q] = calls[q]
      BY <1>5, <2>2 DEF Deliver, Interix!Catch
    <3>4. QED
      BY <3>1, <3>2, <3>3 DEF ContextsOK, LockOK, Interix!Running
  <2>3. QED
    BY <1>5, <2>1, <2>2 DEF Deliver
<1>6. CASE Arrive(p, i)
  BY <1>6, Quiet DEF Arrive, Interix!Arrive, Interix!Running
<1>7. QED
  BY <1>2, <1>3, <1>4, <1>5, <1>6 DEF Finish

-----------------------------------------------------------------------------
(* The invariant                                                           *)

LEMMA TypeParts == TypeOK <=> KernelOK /\ OthersOK
BY DEF TypeOK, KernelOK, OthersOK, Progress

LEMMA InvInit == Init => IInv
<1> SUFFICES ASSUME Init PROVE IInv
  OBVIOUS
<1>1. PICK start \in Starts :
        Interix!Start([i \in InterixSignal |->
                         convert_sigaction_l2i(start[Named(i)])])
  BY DEF Init
<1>2. [i \in InterixSignal |-> convert_sigaction_l2i(start[Named(i)])]
        \in [InterixSignal -> Interix!Action]
  BY ProgramAssumption, Names, ActionThere
<1>3. KernelOK
  BY <1>1, <1>2, DefaultOK, EmptySeq, ProgramAssumption
     DEF KernelOK, Interix!Start
<1>4. <<"none">> \in Seq(Progress) /\ Len(<<"none">>) = 1
  BY DEF Progress
<1>5. OthersOK
  BY <1>4, ProgramAssumption DEF Init, OthersOK, Unlocked, NotSaved
<1>6. ContextsOK
  <2>1. \A p \in Process : handlers[p] = <<>> /\ calls[p] = <<"none">>
    BY <1>1 DEF Init, Interix!Start
  <2>2. Len(handlers[First]) = 0 /\ \A p \in Process : Len(handlers[p]) = 0
    BY <2>1, ProgramAssumption
  <2>3. \A p \in Process : Len(calls[p]) = 1
    BY <2>1, <1>4
  <2>4. ASSUME NEW p \in Process PROVE Len(calls[p]) = Len(handlers[p]) + 1
    <3>1. Len(calls[p]) = 1 /\ Len(handlers[p]) = 0
      BY <2>2, <2>3
    <3>2. QED
      BY <3>1
  <2>5. QED
    BY <2>4 DEF ContextsOK
<1>7. LockOK
  <2>1. Cardinality(Holding(<<"none">>)) \in Nat
    BY <1>4, HoldingFinite
  <2>2. \A p \in Process : calls[p] = <<"none">> /\ lock[p] = Unlocked
    BY DEF Init
  <2>3. \A p \in Process : 0 <= Cardinality(Holding(calls[p]))
    BY <2>1, <2>2
  <2>4. \A p \in Process : lock[p].owner = "none" /\ lock[p].count = 0
    BY <2>2 DEF Unlocked
  <2>5. QED
    BY <2>3, <2>4 DEF LockOK
<1>8. QED
  BY <1>3, <1>5, <1>6, <1>7, TypeParts DEF IInv

LEMMA InvNext == IInv /\ [Next]_vars => IInv'
<1> SUFFICES ASSUME IInv, [Next]_vars PROVE IInv'
  OBVIOUS
<1>1. KernelOK'
  BY KernelTypes DEF IInv
<1>2. OthersOK' /\ ContextsOK' /\ LockOK'
  <2>1. CASE UNCHANGED vars
    <3>1. OthersOK
      BY TypeParts DEF IInv
    <3>2. OthersOK'
      BY <2>1, <3>1 DEF OthersOK, vars, memory
    <3>3. UNCHANGED <<calls, lock, life, handlers>>
      BY <2>1 DEF vars, kernel
    <3>4. QED
      BY <3>2, <3>3, Quiet DEF Interix!Running
  <2>2. ASSUME NEW p \in Process, Call(p) PROVE OthersOK' /\ ContextsOK' /\ LockOK'
    BY <2>2, CallOthers, CallLock
  <2>3. ASSUME NEW p \in Process, Finish(p) \/ Return(p)
        PROVE  OthersOK' /\ ContextsOK' /\ LockOK'
    <3>1. Number[LinuxKill] \in InterixSignal
      BY Names, NumberAssumption
    <3>2. QED
      BY <2>3, <3>1, SystemOthers, SystemLock
  <2>4. ASSUME NEW p \in Process, NEW i \in InterixSignal,
               Deliver(p, i) \/ Arrive(p, i)
        PROVE  OthersOK' /\ ContextsOK' /\ LockOK'
    BY <2>4, SystemOthers, SystemLock
  <2>5. QED
    BY <2>1, <2>2, <2>3, <2>4 DEF Next
<1>3. TypeOK'
  BY <1>1, <1>2 DEF TypeOK, KernelOK, OthersOK, Progress
<1>4. QED
  BY <1>2, <1>3 DEF IInv

LEMMA Invariance == Spec => []IInv
BY InvInit, InvNext, PTL DEF Spec

(* The types hold for every numbering of the signals: what the program is  *)
(* told are masks and actions of its own signals (signals.cc:113, 190).    *)
THEOREM TypeCorrect == Spec => []TypeOK
BY Invariance, PTL DEF IInv

(* Whatever the program calls, wherever its handlers interrupt it, fork,   *)
(* exit or exec, the lock of a process is held at most once per call that  *)
(* works under it, by that process (user.cc:49, clone.cc:47).              *)
THEOREM BalancedLock == Spec => []LockBalanced
<1>1. IInv => LockBalanced
  BY DEF IInv, LockOK, LockBalanced
<1>2. QED
  BY <1>1, Invariance, PTL

-----------------------------------------------------------------------------
(* The refinement: what Interix does to a process is, in Linux's numbers,  *)
(* what Linux does.  First the numbers.                                    *)

LEMMA NamedOps ==
  ASSUME NEW A, NEW B, NEW l \in Supported
  PROVE  /\ NamedSet(A \cup B) = NamedSet(A) \cup NamedSet(B)
         /\ NamedSet(A \ B) = NamedSet(A) \ NamedSet(B)
         /\ NamedSet(A \cup {Number[l]}) = NamedSet(A) \cup {l}
         /\ NamedSet(A \ {Number[l]}) = NamedSet(A) \ {l}
         /\ l \in NamedSet(A) <=> Number[l] \in A
BY NumberAssumption DEF NamedSet

LEMMA NamedFrameType ==
  ASSUME NEW f \in Interix!Frame
  PROVE  NamedFrame(f) \in Linux!Frame
BY Names DEF NamedFrame, NamedSet, Interix!Frame, Linux!Frame

LEMMA FramesType ==
  ASSUME NEW h \in Seq(Interix!Frame)
  PROVE  /\ NamedFrames(h) \in Seq(Linux!Frame)
         /\ Len(NamedFrames(h)) = Len(h)
         /\ \A k \in 1 .. Len(h) : NamedFrames(h)[k] = NamedFrame(h[k])
<1>1. Len(h) \in Nat /\ \A k \in 1 .. Len(h) : h[k] \in Interix!Frame
  BY LenProperties, ElementOfSeq
<1>2. \A k \in 1 .. Len(h) : NamedFrame(h[k]) \in Linux!Frame
  BY <1>1, NamedFrameType
<1>3. NamedFrames(h) \in Seq(Linux!Frame) /\ Len(NamedFrames(h)) = Len(h)
  BY <1>1, <1>2, IsASeq DEF NamedFrames
<1>4. QED
  BY <1>3 DEF NamedFrames

LEMMA FramesEmpty == NamedFrames(<<>>) = <<>>
<1>1. Len(<<>>) = 0 /\ <<>> \in Seq(Interix!Frame)
  BY EmptySeq
<1>2. NamedFrames(<<>>) \in Seq(Linux!Frame) /\ Len(NamedFrames(<<>>)) = 0
  BY <1>1, FramesType
<1>3. QED
  BY <1>2, EmptySeq, SeqEqual

LEMMA FramesAppend ==
  ASSUME NEW h \in Seq(Interix!Frame), NEW f \in Interix!Frame
  PROVE  NamedFrames(Append(h, f)) = Append(NamedFrames(h), NamedFrame(f))
<1> DEFINE s == NamedFrames(Append(h, f))
           t == Append(NamedFrames(h), NamedFrame(f))
<1>1. Len(h) \in Nat
  BY LenProperties
<1>2. /\ Append(h, f) \in Seq(Interix!Frame) /\ Len(Append(h, f)) = Len(h) + 1
      /\ \A k \in 1 .. Len(h) : Append(h, f)[k] = h[k]
      /\ Append(h, f)[Len(h) + 1] = f
  BY AppendProperties
<1>3. /\ s \in Seq(Linux!Frame) /\ Len(s) = Len(h) + 1
      /\ \A k \in 1 .. Len(h) + 1 : s[k] = NamedFrame(Append(h, f)[k])
  BY <1>2, FramesType
<1>4. /\ t \in Seq(Linux!Frame) /\ Len(t) = Len(h) + 1
      /\ \A k \in 1 .. Len(h) : t[k] = NamedFrames(h)[k]
      /\ t[Len(h) + 1] = NamedFrame(f)
  <2>1. /\ NamedFrames(h) \in Seq(Linux!Frame) /\ Len(NamedFrames(h)) = Len(h)
        /\ NamedFrame(f) \in Linux!Frame
    BY FramesType, NamedFrameType
  <2>2. QED
    BY <2>1, AppendProperties
<1>5. \A k \in 1 .. Len(h) + 1 : s[k] = t[k]
  <2>1. \A k \in 1 .. Len(h) : s[k] = t[k]
    BY <1>1, <1>2, <1>3, <1>4, FramesType
  <2>2. s[Len(h) + 1] = t[Len(h) + 1]
    BY <1>1, <1>2, <1>3, <1>4
  <2>3. \A k \in 1 .. Len(h) + 1 : k \in 1 .. Len(h) \/ k = Len(h) + 1
    BY <1>1
  <2>4. QED
    BY <2>1, <2>2, <2>3, Zenon
<1>6. QED
  BY <1>3, <1>4, <1>5, SeqEqual

LEMMA FramesFront ==
  ASSUME NEW h \in Seq(Interix!Frame), NEW n \in Nat, Len(h) = n + 1
  PROVE  /\ SubSeq(h, 1, n) \in Seq(Interix!Frame)
         /\ NamedFrames(SubSeq(h, 1, n)) = SubSeq(NamedFrames(h), 1, n)
<1> DEFINE s == NamedFrames(SubSeq(h, 1, n))
           t == SubSeq(NamedFrames(h), 1, n)
<1>1. \A k \in 1 .. n : h[k] \in Interix!Frame
  BY ElementOfSeq
<1>2. /\ SubSeq(h, 1, n) \in Seq(Interix!Frame) /\ Len(SubSeq(h, 1, n)) = n
      /\ \A k \in 1 .. n : SubSeq(h, 1, n)[k] = h[k]
  BY <1>1, SubSeqProperties
<1>3. /\ s \in Seq(Linux!Frame) /\ Len(s) = n
      /\ \A k \in 1 .. n : s[k] = NamedFrame(h[k])
  BY <1>2, FramesType
<1>4. /\ t \in Seq(Linux!Frame) /\ Len(t) = n
      /\ \A k \in 1 .. n : t[k] = NamedFrame(h[k])
  <2>1. \A k \in 1 .. n : /\ NamedFrames(h)[k] = NamedFrame(h[k])
                          /\ NamedFrames(h)[k] \in Linux!Frame
    BY <1>1, FramesType, NamedFrameType
  <2>2. QED
    BY <2>1, SubSeqProperties
<1>5. s = t
  BY <1>3, <1>4, SeqEqual
<1>6. QED
  BY <1>2, <1>5

-----------------------------------------------------------------------------
(* Each action of Interix is the action of the same name of Linux.         *)

LEMMA SetMaskMaps ==
  ASSUME KernelOK, NEW p \in Process, NEW how \in {"block", "unblock", "set"},
         NEW ls, Interix!SetMask(p, how, convert_sigset_l2i(ls))
  PROVE  Linux!SetMask(p, how, ls \cap Supported)
<1> DEFINE is == convert_sigset_l2i(ls)
<1>1. LinuxKill \in Supported
  BY NumberAssumption
<1>2. NamedSet(Interix!Masked(how, blocked[p], is))
        = Linux!Masked(how, NamedSet(blocked[p]), ls \cap Supported)
  <2>1. NamedSet(is) = ls \cap Supported
    BY SetThere
  <2>2. /\ NamedSet(blocked[p] \cup is) = NamedSet(blocked[p]) \cup NamedSet(is)
        /\ NamedSet(blocked[p] \ is) = NamedSet(blocked[p]) \ NamedSet(is)
    BY NamedOps, <1>1
  <2>3. QED
    BY <2>1, <2>2 DEF Interix!Masked, Linux!Masked
<1>3. blocked' = [blocked EXCEPT ![p] =
                    Interix!Masked(how, blocked[p], is) \ {Number[LinuxKill]}]
  BY DEF Interix!SetMask
<1>4. NamedSet(Interix!Masked(how, blocked[p], is) \ {Number[LinuxKill]})
        = Linux!Masked(how, NamedSet(blocked[p]), ls \cap Supported) \ {LinuxKill}
  <2>1. \A M : NamedSet(M \ {Number[LinuxKill]}) = NamedSet(M) \ {LinuxKill}
    BY <1>1, NamedOps
  <2>2. QED
    BY <1>2, <2>1, Zenon
<1>5. linuxBlocked' = [linuxBlocked EXCEPT ![p] =
        Linux!Masked(how, NamedSet(blocked[p]), ls \cap Supported) \ {LinuxKill}]
  BY <1>3, <1>4 DEF linuxBlocked, KernelOK
<1>6. UNCHANGED <<life, parent, linuxCause, linuxPending, linuxAction, linuxHandlers>>
  BY DEF Interix!SetMask, linuxCause, linuxPending, linuxAction, linuxHandlers
<1>7. linuxBlocked[p] = NamedSet(blocked[p])
  BY DEF linuxBlocked
<1>8. QED
  BY <1>5, <1>6, <1>7
     DEF Linux!SetMask, Linux!Running, Interix!SetMask, Interix!Running

LEMMA IgnoresMaps ==
  ASSUME NEW act, NEW l \in Supported
  PROVE  Interix!Ignores(act, Number[l]) <=> Linux!Ignores(NamedAction(act), l)
<1>1. Number[l] \in convert_sigset_l2i(LinuxIgnored)
        <=> l \in LinuxIgnored \cap Supported
  BY SetThere, NamedOps
<1>2. QED
  BY <1>1 DEF Interix!Ignores, Linux!Ignores, NamedAction

LEMMA PendingMaps ==
  ASSUME KernelOK, NEW p \in Process, NEW S,
         pending' = [pending EXCEPT ![p] = S]
  PROVE  linuxPending' = [linuxPending EXCEPT ![p] = NamedSet(S)]
BY DEF linuxPending, KernelOK

LEMMA SetActionMaps ==
  ASSUME KernelOK, NEW p \in Process, NEW l \in Supported, NEW act,
         act \in LinuxAction,
         Interix!SetAction(p, Number[l], convert_sigaction_l2i(act))
  PROVE  Linux!SetAction(p, l, Kept(act))
<1> DEFINE ia == convert_sigaction_l2i(act)
           la == NamedAction(ia)
<1>1. linuxAction' = [linuxAction EXCEPT ![p][l] = la]
  <2>1. action' = [action EXCEPT ![p][Number[l]] = ia]
    BY DEF Interix!SetAction
  <2>2. \A q \in Process, k \in Supported :
          action'[q][Number[k]] = IF q = p /\ k = l THEN ia ELSE action[q][Number[k]]
    BY <2>1, Names, NumberAssumption DEF KernelOK
  <2>3. \A k \in Supported :
          NamedAction(action'[p][Number[k]])
            = IF k = l THEN la ELSE NamedAction(action[p][Number[k]])
    BY <2>2
  <2>4. linuxAction'[p] = [linuxAction[p] EXCEPT ![l] = la]
    BY <2>3 DEF linuxAction
  <2>5. ASSUME NEW q \in Process \ {p} PROVE linuxAction'[q] = linuxAction[q]
    BY <2>2 DEF linuxAction
  <2>6. DOMAIN linuxAction = Process /\ linuxAction' = [q \in Process |-> linuxAction'[q]]
    BY DEF linuxAction
  <2>7. QED
    BY <2>4, <2>5, <2>6
<1>2. linuxPending' = [linuxPending EXCEPT ![p] =
        IF Linux!Ignores(la, l) THEN linuxPending[p] \ {l} ELSE linuxPending[p]]
  <2>1. pending' = [pending EXCEPT ![p] =
          IF Interix!Ignores(ia, Number[l]) THEN pending[p] \ {Number[l]} ELSE pending[p]]
    BY DEF Interix!SetAction
  <2>2. linuxPending[p] = NamedSet(pending[p])
    BY DEF linuxPending
  <2>3. NamedSet(pending[p] \ {Number[l]}) = NamedSet(pending[p]) \ {l}
    BY NamedOps
  <2>4. NamedSet(IF Interix!Ignores(ia, Number[l]) THEN pending[p] \ {Number[l]}
                 ELSE pending[p])
          = IF Linux!Ignores(la, l) THEN linuxPending[p] \ {l} ELSE linuxPending[p]
    BY <2>2, <2>3, IgnoresMaps
  <2>5. QED
    BY <2>1, <2>4, PendingMaps
<1>3. UNCHANGED <<life, parent, linuxCause, linuxBlocked, linuxHandlers>>
  BY DEF Interix!SetAction, linuxCause, linuxBlocked, linuxHandlers
<1>4. l # LinuxKill /\ life[p] = "running"
  BY DEF Interix!SetAction, Interix!Running
<1>5. Linux!SetAction(p, l, la)
  BY <1>1, <1>2, <1>3, <1>4 DEF Linux!SetAction, Linux!Running
<1>6. la = Kept(act)
  BY ActionThere
<1>7. QED
  BY <1>5, <1>6

LEMMA SendMaps ==
  ASSUME KernelOK, NEW p \in Process, NEW q \in Process, NEW l \in Supported,
         Interix!Send(p, q, Number[l])
  PROVE  Linux!Send(p, q, l)
<1>1. NamedSet(pending[q] \cup {Number[l]}) = NamedSet(pending[q]) \cup {l}
  BY NamedOps
<1>2. linuxPending[q] = NamedSet(pending[q])
  BY DEF linuxPending
<1>3. pending' = [pending EXCEPT ![q] =
        IF life[q] = "running" THEN pending[q] \cup {Number[l]} ELSE pending[q]]
  BY DEF Interix!Send, Interix!Running
<1>4. linuxPending' = [linuxPending EXCEPT ![q] =
        IF life[q] = "running" THEN linuxPending[q] \cup {l} ELSE linuxPending[q]]
  BY <1>1, <1>2, <1>3, PendingMaps
<1>5. UNCHANGED <<life, parent, linuxCause, linuxBlocked, linuxAction, linuxHandlers>>
  BY DEF Interix!Send, linuxCause, linuxBlocked, linuxAction, linuxHandlers
<1>6. QED
  BY <1>4, <1>5 DEF Linux!Send, Linux!Running, Interix!Send, Interix!Running

LEMMA ArriveMaps ==
  ASSUME KernelOK, NEW p \in Process, NEW l \in Supported,
         Interix!Arrive(p, Number[l])
  PROVE  Linux!Arrive(p, l)
<1>1. NamedSet(pending[p] \cup {Number[l]}) = NamedSet(pending[p]) \cup {l}
  BY NamedOps
<1>2. linuxPending[p] = NamedSet(pending[p])
  BY DEF linuxPending
<1>3. linuxPending' = [linuxPending EXCEPT ![p] = linuxPending[p] \cup {l}]
  BY <1>1, <1>2, PendingMaps DEF Interix!Arrive
<1>4. UNCHANGED <<life, parent, linuxCause, linuxBlocked, linuxAction, linuxHandlers>>
  BY DEF Interix!Arrive, linuxCause, linuxBlocked, linuxAction, linuxHandlers
<1>5. QED
  BY <1>3, <1>4 DEF Linux!Arrive, Linux!Running, Interix!Arrive, Interix!Running

(* The child inherits what its parent has.                                 *)
LEMMA ForkMaps ==
  ASSUME KernelOK, NEW p \in Process, NEW q \in Process, Interix!Fork(p, q)
  PROVE  Linux!Fork(p, q)
<1>1. linuxBlocked' = [linuxBlocked EXCEPT ![q] = linuxBlocked[p]]
  BY DEF Interix!Fork, linuxBlocked, KernelOK
<1>2. linuxAction' = [linuxAction EXCEPT ![q] = linuxAction[p]]
  BY DEF Interix!Fork, linuxAction, KernelOK
<1>3. linuxHandlers' = [linuxHandlers EXCEPT ![q] = linuxHandlers[p]]
  BY DEF Interix!Fork, linuxHandlers, KernelOK
<1>4. UNCHANGED <<linuxCause, linuxPending>>
  BY DEF Interix!Fork, linuxCause, linuxPending
<1>5. QED
  BY <1>1, <1>2, <1>3, <1>4
     DEF Interix!Fork, Interix!Running, Linux!Fork, Linux!Running

LEMMA WaitMaps ==
  ASSUME NEW p \in Process, NEW q \in Process, Interix!Wait(p, q)
  PROVE  Linux!Wait(p, q)
<1>1. UNCHANGED <<linuxCause, linuxBlocked, linuxPending, linuxAction, linuxHandlers>>
  BY DEF Interix!Wait, linuxCause, linuxBlocked, linuxPending, linuxAction,
         linuxHandlers
<1>2. QED
  BY <1>1 DEF Interix!Wait, Interix!Running, Linux!Wait, Linux!Running

LEMMA ActionMaps ==
  ASSUME KernelOK, NEW p \in Process, NEW l \in Supported
  PROVE  /\ action[p][Number[l]] \in Interix!Action
         /\ linuxAction[p][l] = NamedAction(action[p][Number[l]])
         /\ linuxAction[p][l].handler = action[p][Number[l]].handler
         /\ linuxAction[p][l].mask = NamedSet(action[p][Number[l]].mask)
         /\ linuxAction[p][l].flags = action[p][Number[l]].flags
<1>1. action[p][Number[l]] \in Interix!Action
  BY Names DEF KernelOK
<1>2. linuxAction[p][l] = NamedAction(action[p][Number[l]])
  BY DEF linuxAction
<1>3. QED
  BY <1>1, <1>2 DEF NamedAction, Interix!Action

LEMMA DefaultMaps ==
  NamedAction(Interix!Default) = Linux!Default
BY DEF NamedAction, NamedSet, Interix!Default, Linux!Default

LEMMA FlaglessMaps ==
  ASSUME NEW act \in Interix!Action
  PROVE  NamedAction([act EXCEPT !.flags = {}])
           = [NamedAction(act) EXCEPT !.flags = {}]
BY DEF NamedAction, Interix!Action

LEMMA ExecMaps ==
  ASSUME KernelOK, NEW p \in Process, Interix!Exec(p)
  PROVE  Linux!Exec(p)
<1>1. action' = [action EXCEPT ![p] =
        [i \in InterixSignal |-> IF action[p][i].handler = "catch"
                                 THEN Interix!Default
                                 ELSE [action[p][i] EXCEPT !.flags = {}]]]
  BY DEF Interix!Exec
<1>2. ASSUME NEW l \in Supported
      PROVE  NamedAction(action'[p][Number[l]])
               = IF linuxAction[p][l].handler = "catch" THEN Linux!Default
                 ELSE [linuxAction[p][l] EXCEPT !.flags = {}]
  <2>1. linuxAction[p][l] = NamedAction(action[p][Number[l]])
    BY DEF linuxAction
  <2>2. /\ action[p][Number[l]] \in Interix!Action
        /\ linuxAction[p][l].handler = action[p][Number[l]].handler
    BY ActionMaps
  <2>3. action'[p][Number[l]]
          = IF action[p][Number[l]].handler = "catch" THEN Interix!Default
            ELSE [action[p][Number[l]] EXCEPT !.flags = {}]
    BY <1>1, Names DEF KernelOK
  <2>4. QED
    BY <2>1, <2>2, <2>3, DefaultMaps, FlaglessMaps
<1>3. linuxAction'[p] = [l \in Supported |->
        IF linuxAction[p][l].handler = "catch" THEN Linux!Default
        ELSE [linuxAction[p][l] EXCEPT !.flags = {}]]
  BY <1>2 DEF linuxAction
<1>4. ASSUME NEW q \in Process \ {p} PROVE linuxAction'[q] = linuxAction[q]
  BY <1>1 DEF linuxAction, KernelOK
<1>5. linuxAction' = [linuxAction EXCEPT ![p] = [l \in Supported |->
        IF linuxAction[p][l].handler = "catch" THEN Linux!Default
        ELSE [linuxAction[p][l] EXCEPT !.flags = {}]]]
  <2>1. DOMAIN linuxAction = Process /\ linuxAction' = [q \in Process |-> linuxAction'[q]]
    BY DEF linuxAction
  <2>2. QED
    BY <1>3, <1>4, <2>1
<1>6. linuxHandlers' = [linuxHandlers EXCEPT ![p] = <<>>]
  BY FramesEmpty DEF Interix!Exec, linuxHandlers, KernelOK
<1>7. UNCHANGED <<life, parent, linuxCause, linuxBlocked, linuxPending>>
  BY DEF Interix!Exec, linuxCause, linuxBlocked, linuxPending
<1>8. QED
  BY <1>5, <1>6, <1>7
     DEF Interix!Exec, Interix!Running, Linux!Exec, Linux!Running

(* The end of a process, and the SIGCHLD its parent gets.                  *)
LEMMA EndMaps ==
  ASSUME KernelOK, NEW p \in Process, NEW why \in InterixSignal \cup {0},
         Interix!End(p, why)
  PROVE  Linux!End(p, Named(why))
<1>1. linuxCause' = [linuxCause EXCEPT ![p] = Named(why)]
  BY DEF Interix!End, linuxCause, KernelOK
<1>2. linuxPending' = [q \in Process |->
        IF q = p THEN {}
        ELSE IF q = parent[p] /\ life[q] = "running"
             THEN linuxPending[q] \cup {LinuxChild}
        ELSE linuxPending[q]]
  <2>1. LinuxChild \in Supported
    BY NumberAssumption
  <2>2. \A q \in Process : NamedSet(pending[q] \cup {Number[LinuxChild]})
                             = NamedSet(pending[q]) \cup {LinuxChild}
    BY <2>1, NamedOps
  <2>3. NamedSet({}) = {}
    BY DEF NamedSet
  <2>4. QED
    BY <2>2, <2>3 DEF Interix!End, Interix!Running, linuxPending
<1>3. linuxHandlers' = [linuxHandlers EXCEPT ![p] = <<>>]
  BY FramesEmpty DEF Interix!End, linuxHandlers, KernelOK
<1>4. UNCHANGED <<parent, linuxBlocked, linuxAction>>
  BY DEF Interix!End, linuxBlocked, linuxAction
<1>5. Interix!LeavesNoZombies(parent[p]) <=> Linux!LeavesNoZombies(parent[p])
  <2>1. parent[p] \in Process /\ LinuxChild \in Supported
    BY NumberAssumption DEF KernelOK
  <2>2. QED
    BY <2>1, ActionMaps DEF Interix!LeavesNoZombies, Linux!LeavesNoZombies
<1>6. QED
  BY <1>1, <1>2, <1>3, <1>4, <1>5 DEF Interix!End, Linux!End, Linux!Running

LEMMA DeliverableMaps ==
  ASSUME NEW p \in Process, NEW l \in Supported,
         Interix!Deliverable(p, Number[l])
  PROVE  Linux!Deliverable(p, l)
BY NamedOps DEF Interix!Deliverable, Interix!Running, Linux!Deliverable,
                Linux!Running, linuxPending, linuxBlocked

LEMMA DiscardMaps ==
  ASSUME KernelOK, NEW p \in Process, NEW l \in Supported,
         Interix!Discard(p, Number[l])
  PROVE  Linux!Discard(p, l)
<1>1. Linux!Deliverable(p, l)
  BY DeliverableMaps DEF Interix!Discard
<1>2. Linux!Ignores(linuxAction[p][l], l)
  BY IgnoresMaps, ActionMaps DEF Interix!Discard
<1>3. linuxPending' = [linuxPending EXCEPT ![p] = linuxPending[p] \ {l}]
  <2>1. NamedSet(pending[p] \ {Number[l]}) = linuxPending[p] \ {l}
    BY NamedOps DEF linuxPending
  <2>2. QED
    BY <2>1, PendingMaps DEF Interix!Discard
<1>4. UNCHANGED <<life, parent, linuxCause, linuxBlocked, linuxAction, linuxHandlers>>
  BY DEF Interix!Discard, linuxCause, linuxBlocked, linuxAction, linuxHandlers
<1>5. QED
  BY <1>1, <1>2, <1>3, <1>4 DEF Linux!Discard

LEMMA TerminateMaps ==
  ASSUME KernelOK, NEW p \in Process, NEW l \in Supported,
         Interix!Terminate(p, Number[l])
  PROVE  Linux!Terminate(p, l)
<1>1. Linux!Deliverable(p, l)
  BY DeliverableMaps DEF Interix!Terminate
<1>2. linuxAction[p][l].handler = "default"
  BY ActionMaps DEF Interix!Terminate
<1>3. l \notin LinuxIgnored \cap Supported
  <2>1. Number[l] \notin convert_sigset_l2i(LinuxIgnored)
    BY DEF Interix!Terminate
  <2>2. QED
    BY <2>1, SetThere, NamedOps
<1>4. Linux!End(p, l)
  BY Names, EndMaps DEF Interix!Terminate
<1>5. QED
  BY <1>1, <1>2, <1>3, <1>4 DEF Linux!Terminate

LEMMA CatchMaps ==
  ASSUME KernelOK, NEW p \in Process, NEW l \in Supported,
         Interix!Catch(p, Number[l])
  PROVE  Linux!Catch(p, l)
<1> DEFINE i == Number[l]
           info == "SA_SIGINFO" \in action[p][i].flags
           frame == [sig |-> i, info |-> info, saved |-> blocked[p]]
           linuxFrame ==
             [sig |-> l, info |-> "SA_SIGINFO" \in linuxAction[p][l].flags,
              saved |-> linuxBlocked[p]]
           own == Interix!Deferred(action[p][i], i)
           linuxOwn == Linux!Deferred(linuxAction[p][l], l)
           mask == (blocked[p] \cup action[p][i].mask \cup own)
                     \ {Number[LinuxKill]}
           once == "SA_RESETHAND" \in action[p][i].flags
           linuxOnce == "SA_RESETHAND" \in linuxAction[p][l].flags
<1>1. Linux!Deliverable(p, l) /\ linuxAction[p][l].handler = "catch"
  BY DeliverableMaps, ActionMaps DEF Interix!Catch
<1>2. linuxPending' = [linuxPending EXCEPT ![p] = linuxPending[p] \ {l}]
  <2>1. NamedSet(pending[p] \ {i}) = linuxPending[p] \ {l}
    BY NamedOps DEF linuxPending
  <2>2. QED
    BY <2>1, PendingMaps DEF Interix!Catch
<1>3. linuxHandlers' = [linuxHandlers EXCEPT ![p] =
        Append(linuxHandlers[p], linuxFrame)]
  <2>1. i \in InterixSignal /\ Named(i) = l
    BY Names
  <2>2. frame \in Interix!Frame
    BY <2>1 DEF KernelOK, Interix!Frame
  <2>3. NamedFrames(Append(handlers[p], frame))
          = Append(NamedFrames(handlers[p]), NamedFrame(frame))
    BY <2>2, FramesAppend DEF KernelOK
  <2>4. NamedFrame(frame) = linuxFrame
    <3>1. linuxAction[p][l].flags = action[p][i].flags
      BY ActionMaps
    <3>2. linuxFrame = [sig |-> l, info |-> info, saved |-> NamedSet(blocked[p])]
      BY <3>1 DEF linuxBlocked
    <3>3. NamedFrame(frame) = [sig |-> Named(i), info |-> info,
                               saved |-> NamedSet(blocked[p])]
      BY DEF NamedFrame
    <3>4. QED
      BY <2>1, <3>2, <3>3
  <2>5. handlers' = [handlers EXCEPT ![p] = Append(handlers[p], frame)]
    BY DEF Interix!Catch
  <2>6. linuxHandlers[p] = NamedFrames(handlers[p])
    BY DEF linuxHandlers
  <2>7. NamedFrames(Append(handlers[p], frame))
          = Append(linuxHandlers[p], linuxFrame)
    BY <2>3, <2>4, <2>6
  <2>8. QED
    BY <2>5, <2>7 DEF linuxHandlers, KernelOK
<1>4. linuxBlocked' = [linuxBlocked EXCEPT ![p] =
        (linuxBlocked[p] \cup linuxAction[p][l].mask \cup linuxOwn) \ {LinuxKill}]
  <2>1. blocked' = [blocked EXCEPT ![p] = mask]
    BY DEF Interix!Catch
  <2>2. LinuxKill \in Supported
    BY NumberAssumption
  <2>3. NamedSet(blocked[p] \cup action[p][i].mask)
          = linuxBlocked[p] \cup linuxAction[p][l].mask
    <3>1. NamedSet(blocked[p] \cup action[p][i].mask)
            = NamedSet(blocked[p]) \cup NamedSet(action[p][i].mask)
      BY NamedOps
    <3>2. /\ linuxBlocked[p] = NamedSet(blocked[p])
          /\ linuxAction[p][l].mask = NamedSet(action[p][i].mask)
      BY ActionMaps DEF linuxBlocked
    <3>3. QED
      BY <3>1, <3>2
  <2>4. NamedSet(blocked[p] \cup action[p][i].mask \cup own)
          = linuxBlocked[p] \cup linuxAction[p][l].mask \cup linuxOwn
    <3>1. \A A : /\ NamedSet(A \cup {i}) = NamedSet(A) \cup {l}
                 /\ NamedSet(A \cup {}) = NamedSet(A) \cup {}
      BY NamedOps
    <3>2. \/ own = {i} /\ linuxOwn = {l}
          \/ own = {} /\ linuxOwn = {}
      BY ActionMaps DEF Interix!Deferred, Linux!Deferred
    <3>3. QED
      BY <2>3, <3>1, <3>2, Zenon
  <2>5. NamedSet(mask)
          = (linuxBlocked[p] \cup linuxAction[p][l].mask \cup linuxOwn) \ {LinuxKill}
    <3>1. \A A : NamedSet(A \ {Number[LinuxKill]}) = NamedSet(A) \ {LinuxKill}
      BY <2>2, NamedOps
    <3>2. QED
      BY <2>4, <3>1, Zenon
  <2>6. QED
    BY <2>1, <2>5 DEF linuxBlocked, KernelOK
<1>5. linuxAction' = [linuxAction EXCEPT ![p][l] =
        IF linuxOnce THEN Linux!Default ELSE linuxAction[p][l]]
  <2>1. action' = [action EXCEPT ![p][i] =
          IF once THEN Interix!Default ELSE action[p][i]]
    BY DEF Interix!Catch
  <2>2. \A q \in Process, k \in Supported : action'[q][Number[k]] =
          IF q = p /\ k = l /\ once THEN Interix!Default
          ELSE action[q][Number[k]]
    BY <2>1, Names, NumberAssumption DEF KernelOK
  <2>3. \A q \in Process, k \in Supported : NamedAction(action'[q][Number[k]]) =
          IF q = p /\ k = l /\ once THEN Linux!Default
          ELSE linuxAction[q][k]
    BY <2>2, DefaultMaps DEF linuxAction
  <2>4. linuxOnce <=> once
    BY ActionMaps
  <2>5. linuxAction'[p] = [linuxAction[p] EXCEPT ![l] =
          IF linuxOnce THEN Linux!Default ELSE linuxAction[p][l]]
    BY <2>3, <2>4 DEF linuxAction
  <2>6. ASSUME NEW q \in Process \ {p} PROVE linuxAction'[q] = linuxAction[q]
    BY <2>3 DEF linuxAction
  <2>7. DOMAIN linuxAction = Process /\ linuxAction' = [q \in Process |-> linuxAction'[q]]
    BY DEF linuxAction
  <2>8. QED
    BY <2>5, <2>6, <2>7
<1>6. UNCHANGED <<life, parent, linuxCause>>
  BY DEF Interix!Catch, linuxCause
<1>7. QED
  BY <1>1, <1>2, <1>3, <1>4, <1>5, <1>6 DEF Linux!Catch

LEMMA ReturnMaps ==
  ASSUME KernelOK, NEW p \in Process, Interix!Return(p)
  PROVE  Linux!Return(p)
<1>1. handlers[p] \in Seq(Interix!Frame) /\ Len(handlers[p]) \in Nat \ {0}
  BY LastHandler DEF KernelOK, Interix!Return
<1>2. PICK n \in Nat : Len(handlers[p]) = n + 1
  <2>1. Len(handlers[p]) - 1 \in Nat /\ Len(handlers[p]) = Len(handlers[p]) - 1 + 1
    BY <1>1
  <2>2. QED
    BY <2>1
<1>3. Len(handlers[p]) - 1 = n /\ Len(handlers[p]) \in 1 .. Len(handlers[p])
  BY <1>2
<1>4. /\ linuxHandlers[p] = NamedFrames(handlers[p])
      /\ Len(linuxHandlers[p]) = Len(handlers[p])
      /\ linuxHandlers[p][Len(handlers[p])] = NamedFrame(handlers[p][Len(handlers[p])])
  BY <1>1, <1>3, FramesType DEF linuxHandlers
<1>5. linuxHandlers[p] # <<>>
  BY <1>1, <1>4, EmptySeq
<1>6. linuxBlocked' = [linuxBlocked EXCEPT ![p] =
        linuxHandlers[p][Len(linuxHandlers[p])].saved]
  <2>1. NamedSet(handlers[p][Len(handlers[p])].saved)
          = linuxHandlers[p][Len(linuxHandlers[p])].saved
    BY <1>4 DEF NamedFrame
  <2>2. QED
    BY <2>1 DEF Interix!Return, linuxBlocked, KernelOK
<1>7. linuxHandlers' = [linuxHandlers EXCEPT ![p] =
        SubSeq(linuxHandlers[p], 1, Len(linuxHandlers[p]) - 1)]
  <2>1. handlers' = [handlers EXCEPT ![p] = SubSeq(handlers[p], 1, n)]
    BY <1>3 DEF Interix!Return
  <2>2. NamedFrames(SubSeq(handlers[p], 1, n)) = SubSeq(linuxHandlers[p], 1, n)
    BY <1>1, <1>2, <1>4, FramesFront
  <2>3. Len(linuxHandlers[p]) - 1 = n
    BY <1>3, <1>4
  <2>4. QED
    BY <2>1, <2>2, <2>3 DEF linuxHandlers, KernelOK
<1>8. UNCHANGED <<life, parent, linuxCause, linuxPending, linuxAction>>
  BY DEF Interix!Return, linuxCause, linuxPending, linuxAction
<1>9. QED
  BY <1>5, <1>6, <1>7, <1>8
     DEF Interix!Return, Interix!Running, Linux!Return, Linux!Running

LEMMA InitMaps == Init => Linux!Init
<1> SUFFICES ASSUME Init PROVE Linux!Init
  OBVIOUS
<1>1. PICK start \in Starts :
        Interix!Start([i \in InterixSignal |->
                         convert_sigaction_l2i(start[Named(i)])])
  BY DEF Init
<1> DEFINE actions == [l \in Supported |-> NamedAction(convert_sigaction_l2i(start[l]))]
<1>2. actions \in [Supported -> Linux!Action]
  BY ProgramAssumption, ActionThere, ActionBack
<1>3. linuxAction = [p \in Process |-> IF p = First THEN actions
                                       ELSE [l \in Supported |-> Linux!Default]]
  <2>1. \A p \in Process, l \in Supported : action[p][Number[l]] =
          IF p = First THEN convert_sigaction_l2i(start[l]) ELSE Interix!Default
    BY <1>1, Names DEF Interix!Start
  <2>2. ASSUME NEW p \in Process
        PROVE  linuxAction[p] = IF p = First THEN actions
                                ELSE [l \in Supported |-> Linux!Default]
    BY <2>1, DefaultMaps DEF linuxAction
  <2>3. QED
    BY <2>2 DEF linuxAction
<1>4. NamedSet({}) = {}
  BY DEF NamedSet
<1>5. /\ linuxCause = [p \in Process |-> 0]
      /\ linuxBlocked = [p \in Process |-> {}]
      /\ linuxPending = [p \in Process |-> {}]
      /\ linuxHandlers = [p \in Process |-> <<>>]
  BY <1>1, <1>4, Names, FramesEmpty
     DEF Interix!Start, linuxCause, linuxBlocked, linuxPending, linuxHandlers
<1>6. Linux!Start(actions)
  BY <1>1, <1>3, <1>5 DEF Interix!Start, Linux!Start
<1>7. linuxAction[First] = actions
  BY <1>3, ProgramAssumption
<1>8. QED
  BY <1>2, <1>6, <1>7 DEF Linux!Init

LEMMA KernelStutters ==
  ASSUME UNCHANGED kernel
  PROVE  UNCHANGED Linux!vars
BY DEF kernel, Linux!vars, linuxCause, linuxBlocked, linuxPending,
       linuxAction, linuxHandlers

(* What LBW does to a mask, an action or a process is a step of Linux.     *)
LEMMA SigprocmaskMaps ==
  ASSUME KernelOK, NEW p \in Process, NEW how \in {"block", "unblock", "set"},
         NEW set, Sigprocmask(p, how, set)
  PROVE  [Linux!Next]_(Linux!vars)
<1>1. CASE set = NoSet
  BY <1>1, KernelStutters DEF Sigprocmask
<1>2. CASE set # NoSet
  <2>1. Linux!SetMask(p, how, set \cap Supported)
    BY <1>2, SetMaskMaps DEF Sigprocmask
  <2>2. set \cap Supported \in SUBSET Supported
    OBVIOUS
  <2>3. QED
    BY <2>1, <2>2 DEF Linux!Next
<1>3. QED
  BY <1>1, <1>2

LEMMA ProgramActionMaps ==
  ASSUME KernelOK, NEW p \in Process, NEW l \in Supported,
         NEW act \in LinuxAction, SetAction(p, l, act)
  PROVE  [Linux!Next]_(Linux!vars)
<1> DEFINE a == Kept(act)
<1>1. Linux!SetAction(p, l, a)
  BY SetActionMaps DEF SetAction
<1>2. a \in Linux!Action
  BY ActionThere, ActionBack
<1>3. linuxAction'[p][l] = a
  <2>1. linuxAction' = [linuxAction EXCEPT ![p][l] = a]
    BY <1>1 DEF Linux!SetAction
  <2>2. p \in DOMAIN linuxAction /\ l \in DOMAIN linuxAction[p]
    BY DEF linuxAction
  <2>3. QED
    BY <2>1, <2>2
<1>4. Linux!SetsAction(p, l)
  BY <1>1, <1>2, <1>3 DEF Linux!SetsAction
<1>5. QED
  BY <1>4 DEF Linux!Next

LEMMA SentMaps ==
  ASSUME KernelOK, NEW p \in Process, NEW q \in Process,
         NEW l \in LinuxSignal \cup {0}, Sent(p, q, l)
  PROVE  [Linux!Next]_(Linux!vars)
<1>1. CASE convert_signal_l2i(l) = -1
  BY <1>1, KernelStutters DEF Sent
<1>2. CASE convert_signal_l2i(l) # -1
  <2>1. l \in Supported /\ convert_signal_l2i(l) = Number[l]
    BY <1>2, NumberAssumption DEF convert_signal_l2i, Supported
  <2>2. Linux!Send(p, q, l)
    BY <1>2, <2>1, SendMaps DEF Sent
  <2>3. QED
    BY <2>1, <2>2 DEF Linux!Next
<1>3. QED
  BY <1>1, <1>2

LEMMA CallMaps ==
  ASSUME IInv, NEW p \in Process, Call(p)
  PROVE  [Linux!Next]_(Linux!vars)
<1>0. KernelOK
  BY TypeParts DEF IInv
<1>1. CASE Begin(p)
  BY <1>1, KernelStutters DEF Begin
<1>2. ASSUME NEW how, NEW set, NEW before,
             sys32_rt_sigprocmask(p, how, set, before)
      PROVE  [Linux!Next]_(Linux!vars)
  <2>1. CASE how \in {"block", "unblock", "set"}
    BY <1>0, <1>2, <2>1, SigprocmaskMaps DEF sys32_rt_sigprocmask
  <2>2. CASE how \notin {"block", "unblock", "set"}
    <3>1. UNCHANGED kernel
      BY <1>2, <2>2 DEF sys32_rt_sigprocmask
    <3>2. QED
      BY <3>1, KernelStutters
  <2>3. QED
    BY <2>1, <2>2
<1>3. ASSUME NEW l \in LinuxSignal, NEW act \in Actions \cup {NoAction},
             NEW wanted, sys32_rt_sigaction(p, l, act, wanted)
      PROVE  [Linux!Next]_(Linux!vars)
  <2>1. CASE UNCHANGED kernel
    BY <2>1, KernelStutters
  <2>2. CASE convert_signal_l2i(l) # -1 /\ act # NoAction /\ SetAction(p, l, act)
    <3>1. l \in Supported /\ act \in LinuxAction
      BY <2>2, ProgramAssumption DEF convert_signal_l2i, Supported
    <3>2. QED
      BY <1>0, <2>2, <3>1, ProgramActionMaps
  <2>3. UNCHANGED kernel \/ (convert_signal_l2i(l) # -1 /\ act # NoAction
                             /\ SetAction(p, l, act))
    BY <1>3 DEF sys32_rt_sigaction
  <2>4. QED
    BY <2>1, <2>2, <2>3
<1>4. CASE RestoreMask(p)
  BY <1>0, <1>4, SigprocmaskMaps DEF RestoreMask
<1>5. CASE RestoreAction(p)
  <2>1. savedAct[p].sig \in Supported /\ savedAct[p].act \in LinuxAction
    BY <1>5 DEF RestoreAction, SavedAction, NotSaved, IInv, TypeOK
  <2>2. QED
    BY <1>0, <1>5, <2>1, ProgramActionMaps DEF RestoreAction
<1>6. ASSUME NEW q \in Process, NEW l \in LinuxSignal \cup {0},
             sys32_kill(p, q, l)
      PROVE  [Linux!Next]_(Linux!vars)
  BY <1>0, <1>6, SentMaps DEF sys32_kill
<1>7. ASSUME NEW g, NEW q \in Process, NEW l \in LinuxSignal,
             sys_tgkill(p, g, q, l)
      PROVE  [Linux!Next]_(Linux!vars)
  <2>1. CASE g = q
    BY <1>0, <1>7, <2>1, SentMaps DEF sys_tgkill
  <2>2. CASE g # q
    <3>1. UNCHANGED kernel
      BY <1>7, <2>2 DEF sys_tgkill
    <3>2. QED
      BY <3>1, KernelStutters
  <2>3. QED
    BY <2>1, <2>2
<1>8. ASSUME NEW q \in Process, stub32_fork(p, q) \/ sys32_waitpid(p, q)
      PROVE  [Linux!Next]_(Linux!vars)
  <2>1. Linux!Fork(p, q) \/ Linux!Wait(p, q)
    BY <1>0, <1>8, ForkMaps, WaitMaps DEF stub32_fork, sys32_waitpid
  <2>2. QED
    BY <2>1 DEF Linux!Next
<1>9. CASE sys_exit(p)
  <2>1. Linux!End(p, 0)
    BY <1>0, <1>9, Names, EndMaps DEF sys_exit, Interix!Exit
  <2>2. Linux!Exit(p)
    BY <1>9, <2>1
       DEF sys_exit, Interix!Exit, Interix!Running, Linux!Exit, Linux!Running
  <2>3. QED
    BY <2>2 DEF Linux!Next
<1>10. CASE sys32_execve(p)
  <2>1. Linux!Exec(p)
    BY <1>0, <1>10, ExecMaps DEF sys32_execve
  <2>2. QED
    BY <2>1 DEF Linux!Next
<1>11. QED
  BY <1>1, <1>2, <1>3, <1>4, <1>5, <1>6, <1>7, <1>8, <1>9, <1>10 DEF Call

LEMMA StepMaps == IInv /\ [Next]_vars => [Linux!Next]_(Linux!vars)
<1> SUFFICES ASSUME IInv, [Next]_vars PROVE [Linux!Next]_(Linux!vars)
  OBVIOUS
<1>0. KernelOK
  BY TypeParts DEF IInv
<1>1. CASE UNCHANGED vars
  BY <1>1, KernelStutters DEF vars
<1>2. ASSUME NEW p \in Process, Call(p) PROVE [Linux!Next]_(Linux!vars)
  BY <1>2, CallMaps
<1>3. ASSUME NEW p \in Process, Finish(p) PROVE [Linux!Next]_(Linux!vars)
  BY <1>3, KernelStutters DEF Finish, Lock, Unlock
<1>4. ASSUME NEW p \in Process, Return(p) PROVE [Linux!Next]_(Linux!vars)
  <2>1. Linux!Return(p)
    BY <1>0, <1>4, ReturnMaps DEF Return
  <2>2. QED
    BY <2>1 DEF Linux!Next
<1>5. ASSUME NEW p \in Process, NEW i \in InterixSignal,
             Deliver(p, i) \/ Arrive(p, i)
      PROVE  [Linux!Next]_(Linux!vars)
  <2>1. Named(i) \in Supported /\ Number[Named(i)] = i
    BY Names
  <2>2. \/ Linux!Arrive(p, Named(i)) \/ Linux!Discard(p, Named(i))
        \/ Linux!Terminate(p, Named(i)) \/ Linux!Catch(p, Named(i))
    BY <1>0, <1>5, <2>1, ArriveMaps, DiscardMaps, TerminateMaps, CatchMaps
       DEF Deliver, Arrive
  <2>3. QED
    BY <2>1, <2>2 DEF Linux!Next
<1>6. QED
  BY <1>1, <1>2, <1>3, <1>4, <1>5 DEF Next

(* And it is the step the program asked for.                               *)
LEMMA StepObeys ==
  ASSUME IInv, NEW p \in Process
  PROVE  Obeyed(p)
<1>0. KernelOK
  BY TypeParts DEF IInv
<1>1. ASSUME NEW how \in {"block", "unblock", "set"}, NEW set \in Sets,
             NEW before \in Sets \cup {NoSet},
             sys32_rt_sigprocmask(p, how, set, before)
      PROVE  Linux!SetMask(p, how, set \cap Supported)
  <2>1. set # NoSet
    BY NumberAssumption, ProgramAssumption DEF NoSet
  <2>2. QED
    BY <1>0, <1>1, <2>1, SetMaskMaps DEF sys32_rt_sigprocmask, Sigprocmask
<1>2. ASSUME NEW l \in Supported \ {LinuxKill}, NEW act \in Actions,
             NEW wanted \in BOOLEAN, sys32_rt_sigaction(p, l, act, wanted)
      PROVE  Linux!SetAction(p, l, Kept(act))
  <2>1. l \in LinuxSignal /\ convert_signal_l2i(l) # -1
    BY DEF convert_signal_l2i, Supported
  <2>2. act \in LinuxAction /\ act # NoAction
    BY ProgramAssumption DEF LinuxAction, NoAction
  <2>3. SetAction(p, l, act)
    BY <1>2, <2>1, <2>2 DEF sys32_rt_sigaction
  <2>4. QED
    BY <1>0, <2>2, <2>3, SetActionMaps DEF SetAction
<1>3. ASSUME NEW q \in Process, NEW l \in Supported, sys32_kill(p, q, l)
      PROVE  Linux!Send(p, q, l)
  <2>1. convert_signal_l2i(l) = Number[l] /\ Number[l] # -1
    BY DEF convert_signal_l2i, Supported
  <2>2. QED
    BY <1>0, <1>3, <2>1, SendMaps DEF sys32_kill, Sent
<1>4. QED
  BY <1>1, <1>2, <1>3 DEF Obeyed

(* For every numbering in which no two signals share a number, and every   *)
(* program, taken as though it asked for none of the flags in Lost, which  *)
(* LBW drops without a word (signals.cc:215): masks, actions, pending      *)
(* signals, handlers and deaths are, in Linux's numbers, those of Linux    *)
(* (signals.cc:76, 150, 208).  The number a handler is called with is      *)
(* Interix's, and not compared (signals.cc:222).                           *)
THEOREM Refines == Spec => ActsAsLinux
<1>1. IInv => \A p \in Process : Obeyed(p)
  BY StepObeys
<1>2. QED
  BY <1>1, InitMaps, StepMaps, Invariance, PTL DEF Spec, ActsAsLinux, Linux!Spec
=============================================================================
