----------------------- MODULE ExceptionHandlerProofs -----------------------
(***************************************************************************)
(* Proofs about ExceptionHandler, for every program and every depth of     *)
(* nested signal handlers: as long as no context has trapped inside the    *)
(* emulation of another one, or run the instruction another is patching,   *)
(* the process goes on, every trap returns to the next instruction and     *)
(* makes the access of its own instruction.                                *)
(***************************************************************************)
EXTENDS ExceptionHandler, TLAPS

(* The code does the work of the instruction l.                            *)
Replaces(code, l) ==
  /\ code.kind \in {"sys", "gs"}
  /\ code.insn = l
  /\ code.ret = After(l)

Trampolining == {"built", "trampoline", "pushed"}

(* The contexts in progress: 1 .. level.                                   *)
Active == {i \in Level : i <= level}

(* The trampoline belongs to the context that is going to run it: no       *)
(* context outside it is being emulated, and those inside it have not come *)
(* as far as the exception handler.                                        *)
OwnsTrampoline(i) ==
  /\ Replaces(tramp, ctx[i].due)
  /\ \A j \in Active : j < i => ctx[j].at \notin Emulating
  /\ \A j \in Active : j > i => ctx[j].at \in {"program", "raised", "fragment"}

(* What each context in progress knows about the instruction it is at.     *)
ContextInv(i) ==
  /\ ctx[i].at = "raised" => ~Patched(ctx[i].due)
  /\ ctx[i].at \in Trampolining => OwnsTrampoline(i)
  /\ ctx[i].at = "built" => tramp.kind = "gs"
  /\ ctx[i].at \in {"pushed", "kernel"} => ctx[i].ret = After(ctx[i].due)
  /\ ctx[i].at \in {"patching", "fragment"} => ctx[i].loc = ctx[i].due /\ Patched(ctx[i].loc)

PatchInv == \A l \in Loc : Patched(l) => patch[l].kind = "gs" /\ Replaces(patch[l], l)

Safe ==
  /\ ~exited
  /\ access.insn = access.due
  /\ PatchInv
  /\ \A i \in Active : ContextInv(i)

Inv == TypeOK /\ (~overtaken => Safe)

(* Code for %gs carries a base, and the base was the thread area's.        *)
BaseInv ==
  /\ \A i \in Level : ctx[i].at = "raised" /\ ctx[i].due \in UsesGs => area # 0
  /\ tramp.kind = "gs" => tramp.base # 0 /\ area # 0
  /\ \A l \in Loc : patch[l].kind = "gs" => patch[l].base # 0 /\ area # 0

(***************************************************************************)
(* Types.                                                                  *)
(***************************************************************************)
(* The instruction after one of the program is one of the program.         *)
LEMMA AfterInLoc ==
  ASSUME NEW l \in Loc
  PROVE  After(l) \in Loc
<1>1. l + 1 \in Int /\ CodeSize \in Nat \ {0}
  BY ProgramAssumption DEF Loc
<1>2. (l + 1) % CodeSize \in 0 .. CodeSize - 1
  BY <1>1
<1>3. QED
  BY <1>2 DEF After, Loc

(* The types hold in the initial state.                                    *)
LEMMA TypesHold == Init => TypeOK
<1>1. SUFFICES ASSUME Init PROVE TypeOK
  OBVIOUS
<1>2. 0 \in Loc /\ 1 \in Level /\ 0 \in Area
  BY ProgramAssumption, BoundsAssumption DEF Loc, Level, Area
<1>3. NoCode \in Code /\ Running(0) \in Context
  BY <1>2 DEF NoCode, Code, Running, Context
<1>4. QED
  BY <1>1, <1>2, <1>3 DEF Init, TypeOK

(* The running context, and what replaces it.                              *)
LEMMA CurInContext ==
  ASSUME TypeOK
  PROVE  cur \in Context
  BY DEF TypeOK, cur

(* Moving the running context keeps the type of the contexts.              *)
LEMMA GotoType ==
  ASSUME TypeOK, NEW c \in Context, Goto(c)
  PROVE  ctx' \in [Level -> Context]
  BY DEF TypeOK, Goto

(* A context that runs the program is a context.                           *)
LEMMA RunningType ==
  ASSUME NEW l \in Loc
  PROVE  Running(l) \in Context
  BY ProgramAssumption DEF Running, Context, Loc

(* What handler_cb writes into the trampoline is replacement code.         *)
LEMMA CodeType ==
  ASSUME TypeOK, NEW l \in Loc
  PROVE  SysCode(l) \in Code /\ GsCode(l) \in Code
<1>1. After(l) \in Loc /\ 0 \in Area
  BY AfterInLoc, BoundsAssumption DEF Area
<1>2. QED
  BY <1>1 DEF TypeOK, SysCode, GsCode, Code

(* A piece of replacement code keeps the types whatever context runs it.   *)
LEMMA PerformType ==
  ASSUME TypeOK, NEW code \in Code, NEW ret \in Loc, Perform(code, ret)
  PROVE  /\ ctx' \in [Level -> Context]
         /\ access' \in [insn : Loc, base : Area, due : Loc, area : Area]
<1>1. cur \in Context
  BY CurInContext
<1>2. CASE code.kind = "sys"
  <2>1. [cur EXCEPT !.at = "kernel", !.ret = ret] \in Context
    BY <1>1 DEF Context
  <2>2. QED
    BY <1>2, <2>1, GotoType DEF Perform, TypeOK
<1>3. CASE code.kind # "sys"
  <2>1. [cur EXCEPT !.at = "program", !.loc = ret, !.done = TRUE] \in Context
    BY <1>1 DEF Context
  <2>2. code.insn \in Loc /\ code.base \in Area /\ cur.due \in Loc /\ area \in Area
    BY <1>1 DEF Code, Context, TypeOK
  <2>3. QED
    BY <1>3, <2>1, <2>2, GotoType DEF Perform
<1>4. QED
  BY <1>2, <1>3

(* Every step keeps the types.                                             *)
LEMMA TypesStay == TypeOK /\ [Next]_vars => TypeOK'
<1> SUFFICES ASSUME TypeOK, [Next]_vars PROVE TypeOK'
  OBVIOUS
<1>c. cur \in Context
  BY CurInContext
<1>d. cur.loc \in Loc /\ cur.due \in Loc /\ cur.ret \in Loc
  BY <1>c DEF Context
<1>a. After(cur.loc) \in Loc /\ After(cur.due) \in Loc
  BY <1>d, AfterInLoc
<1>1. CASE Step
  BY <1>1, <1>a, RunningType, GotoType DEF Step, Resume, TypeOK
<1>2. CASE Jump
  <2>1. [cur EXCEPT !.at = "fragment", !.due = cur.loc, !.done = FALSE] \in Context
    BY <1>c, <1>d DEF Context
  <2>2. QED
    BY <1>2, <2>1, GotoType DEF Jump, TypeOK
<1>3. CASE Raise
  <2>1. [cur EXCEPT !.at = "raised", !.due = cur.loc, !.done = FALSE] \in Context
    BY <1>c, <1>d DEF Context
  <2>2. QED
    BY <1>3, <2>1, GotoType DEF Raise, TypeOK
<1>4. ASSUME NEW l \in Loc, Signal(l) PROVE TypeOK'
  <2>1. level + 1 \in Level
    BY <1>4, BoundsAssumption DEF Signal, TypeOK, Level
  <2>2. QED
    BY <1>4, <2>1, RunningType DEF Signal, TypeOK
<1>5. CASE SignalReturn
  <2>1. level - 1 \in Level /\ 0 \in Loc
    BY <1>5, BoundsAssumption, ProgramAssumption DEF SignalReturn, TypeOK, Level, Loc
  <2>2. QED
    BY <1>5, <2>1, RunningType DEF SignalReturn, TypeOK
<1>6. CASE HandleExit
  BY <1>6 DEF HandleExit, TypeOK
<1>7. CASE HandleSysCall
  <2>1. [cur EXCEPT !.at = "trampoline"] \in Context
    BY <1>c DEF Context
  <2>2. overtaken' \in BOOLEAN
    BY <1>7 DEF HandleSysCall
  <2>3. QED
    BY <1>7, <1>d, <2>1, <2>2, GotoType, CodeType DEF HandleSysCall, TypeOK
<1>8. CASE HandleGs
  <2>1. [cur EXCEPT !.at = "built"] \in Context
    BY <1>c DEF Context
  <2>2. overtaken' \in BOOLEAN
    BY <1>8 DEF HandleGs
  <2>3. QED
    BY <1>8, <1>d, <2>1, <2>2, GotoType, CodeType DEF HandleGs, TypeOK
<1>9. CASE HandleGsLoad
  BY <1>9, <1>a, RunningType, GotoType DEF HandleGsLoad, Resume, TypeOK
<1>10. CASE CopyLong
  <2>1. [cur EXCEPT !.at = "patching", !.loc = cur.due] \in Context
    BY <1>c, <1>d DEF Context
  <2>2. patch' \in [Loc -> Code] /\ torn' \subseteq Loc
    BY <1>10, <1>d DEF CopyLong, TypeOK
  <2>3. QED
    BY <1>10, <2>1, <2>2, GotoType DEF CopyLong, TypeOK
<1>11. CASE CopyLongFails
  <2>1. [cur EXCEPT !.at = "program", !.loc = After(cur.due)] \in Context
    BY <1>c, <1>a DEF Context
  <2>2. QED
    BY <1>11, <2>1, GotoType DEF CopyLongFails, TypeOK
<1>12. CASE JumpShort
  <2>1. [cur EXCEPT !.at = "trampoline"] \in Context
    BY <1>c DEF Context
  <2>2. QED
    BY <1>12, <2>1, GotoType DEF JumpShort, TypeOK
<1>13. CASE Push
  <2>1. tramp.ret \in Loc
    BY DEF TypeOK, Code
  <2>2. [cur EXCEPT !.at = "pushed", !.ret = tramp.ret] \in Context
    BY <1>c, <2>1 DEF Context
  <2>3. QED
    BY <1>13, <2>2, GotoType DEF Push, TypeOK
<1>14. CASE RunTrampoline
  <2>1. tramp \in Code
    BY DEF TypeOK
  <2>2. QED
    BY <1>14, <1>d, <2>1, PerformType DEF RunTrampoline, TypeOK
<1>15. CASE RunFragment
  <2>1. patch[cur.loc] \in Code /\ patch[cur.loc].ret \in Loc
    BY <1>d DEF TypeOK, Code
  <2>2. QED
    BY <1>15, <2>1, PerformType DEF RunFragment, TypeOK
<1>16. ASSUME NEW a \in Area, Kernel(a) PROVE TypeOK'
  <2>1. [cur EXCEPT !.at = "program", !.loc = cur.ret, !.done = TRUE] \in Context
    BY <1>c, <1>d DEF Context
  <2>2. QED
    BY <1>16, <2>1, GotoType DEF Kernel, TypeOK
<1>17. CASE UNCHANGED vars
  BY <1>17 DEF vars, TypeOK
<1>18. CASE Stray
  BY <1>18 DEF Stray, TypeOK
<1>19. CASE WriteTarget
  <2>1. [cur EXCEPT !.at = "fragment"] \in Context
    BY <1>c DEF Context
  <2>2. torn' \subseteq Loc
    BY <1>19 DEF WriteTarget, TypeOK
  <2>3. QED
    BY <1>19, <2>1, <2>2, GotoType DEF WriteTarget, TypeOK
<1>20. QED
  BY <1>1, <1>2, <1>3, <1>4, <1>5, <1>6, <1>7, <1>8, <1>9, <1>10, <1>11, <1>12,
     <1>13, <1>14, <1>15, <1>16, <1>17, <1>18, <1>19 DEF Next

(* Every variable keeps its type, whatever traps and signals arrive.       *)
THEOREM TypeCorrect == Spec => []TypeOK
<1>1. Init => TypeOK
  BY TypesHold
<1>2. TypeOK /\ [Next]_vars => TypeOK'
  BY TypesStay
<1>3. QED
  BY <1>1, <1>2, PTL DEF Spec

(***************************************************************************)
(* The emulation.                                                          *)
(***************************************************************************)
(* At the start nothing is patched and no trap is in progress.             *)
LEMMA InitSafe == Init => Safe
  BY ProgramAssumption, BoundsAssumption
  DEF Init, Safe, PatchInv, ContextInv, Patched, NoCode, Running, Active, Level, Loc, Trampolining

(* A step of the running context alone: the contexts outside it keep what  *)
(* they know if the trampoline and the patches they rely on stay.          *)
LEMMA OuterContexts ==
  ASSUME TypeOK, Safe, NEW c \in Context, Goto(c), level' = level,
         tramp' = tramp,
         c.at \in {"program", "raised", "fragment"}
           \/ cur.at \notin {"program", "raised", "fragment"},
         patch' = patch \/ cur.at \in Trampolining,
         \A l \in Loc : Patched(l) => Patched(l)',
         NEW i \in Active, i # level
  PROVE  ContextInv(i)'
<1>1. /\ i \in Level /\ i < level /\ level \in Level /\ ctx'[i] = ctx[i]
      /\ ctx[i] \in Context
  BY DEF Active, Goto, TypeOK, Level
<1>2. ContextInv(i) /\ ContextInv(level)
  BY <1>1 DEF Safe, Active, Level
<1>3. ctx[i].at = "raised" => patch' = patch
  <2>1. cur.at \in Trampolining => ctx[i].at \notin Emulating
    BY <1>1, <1>2 DEF ContextInv, OwnsTrampoline, cur
  <2>2. QED
    BY <2>1 DEF Emulating
<1>4. ctx[i].at \in Trampolining => OwnsTrampoline(i)'
  <2>1. SUFFICES ASSUME ctx[i].at \in Trampolining PROVE OwnsTrampoline(i)'
    OBVIOUS
  <2>2. OwnsTrampoline(i)
    BY <1>2, <2>1 DEF ContextInv
  <2>3. cur.at \in {"program", "raised", "fragment"}
    BY <1>1, <2>2 DEF OwnsTrampoline, Active, cur, Level
  <2>4. c.at \in {"program", "raised", "fragment"}
    BY <2>3
  <2>5. \A j \in Active' : ctx'[j] = IF j = level THEN c ELSE ctx[j]
    BY DEF Goto, TypeOK, Active
  <2>6. Active' = Active
    BY DEF Active
  <2>7. Replaces(tramp, ctx[i].due)'
    BY <1>1, <2>2 DEF OwnsTrampoline, Replaces
  <2>8. ASSUME NEW j \in Active', j < i PROVE ctx'[j].at \notin Emulating
    <3>1. j \in Active /\ j # level
      BY <1>1, <2>6, <2>8 DEF Active, Level
    <3>2. QED
      BY <2>2, <2>5, <2>8, <3>1 DEF OwnsTrampoline
  <2>9. ASSUME NEW j \in Active', j > i PROVE ctx'[j].at \in {"program", "raised", "fragment"}
    BY <2>2, <2>4, <2>5, <2>6, <2>9 DEF OwnsTrampoline
  <2>10. QED
    BY <2>7, <2>8, <2>9 DEF OwnsTrampoline, Emulating
<1>5. ctx[i].loc \in Loc
  BY <1>1 DEF Context
<1>6. QED
  BY <1>1, <1>2, <1>3, <1>4, <1>5 DEF ContextInv, Patched, Trampolining

(* The parts of Safe after a step that stays on its level.                 *)
LEMMA SafeByParts ==
  ASSUME TypeOK, level' = level, ~exited', (access.insn = access.due)', PatchInv',
         ContextInv(level)',
         \A i \in Active : i # level => ContextInv(i)'
  PROVE  Safe'
<1>1. Active' = Active
  BY DEF Active
<1>2. QED
  BY <1>1 DEF Safe

(* The running context is one of those in progress.                        *)
LEMMA CurKnows ==
  ASSUME TypeOK, Safe
  PROVE  /\ ContextInv(level)
         /\ level \in Active
         /\ cur \in Context
  BY DEF TypeOK, Safe, Active, Level, cur

(* The program's own steps: nothing is known about a context that is back  *)
(* in the program, so nothing can go wrong with it.                        *)
LEMMA BackInProgram ==
  ASSUME TypeOK, Safe, NEW c \in Context, c.at = "program", Goto(c),
         level' = level, exited' = exited, tramp' = tramp, patch' = patch,
         (access.insn = access.due)'
  PROVE  Safe'
<1>1. ctx'[level] = c
  BY DEF Goto, TypeOK
<1>2. ContextInv(level)'
  BY <1>1 DEF ContextInv, Trampolining
<1>3. \A i \in Active : i # level => ContextInv(i)'
  BY OuterContexts DEF Patched
<1>4. PatchInv'
  BY DEF Safe, PatchInv, Patched, Replaces
<1>5. ~exited'
  BY DEF Safe
<1>6. QED
  BY <1>2, <1>3, <1>4, <1>5, SafeByParts

(* Executing an instruction keeps Safe.                                    *)
LEMMA StepSafe ==
  ASSUME TypeOK, Safe, Step
  PROVE  Safe'
<1>1. Running(After(cur.loc)) \in Context
  BY CurInContext, AfterInLoc, RunningType DEF Context
<1>2. (access.insn = access.due)'
  BY DEF Step, Safe
<1>3. QED
  BY <1>1, <1>2, BackInProgram DEF Step, Resume, Running

(* So does jumping from a patched instruction to its fragment.             *)
LEMMA JumpSafe ==
  ASSUME TypeOK, Safe, Jump
  PROVE  Safe'
<1> DEFINE c == [cur EXCEPT !.at = "fragment", !.due = cur.loc, !.done = FALSE]
<1>1. cur \in Context /\ ContextInv(level)
  BY CurKnows
<1>2. c \in Context /\ c.at = "fragment" /\ c.loc = cur.loc /\ c.due = cur.loc
  BY <1>1 DEF Context
<1>3. ctx'[level] = c /\ Goto(c) /\ level' = level
  BY DEF Jump, Goto, TypeOK
<1>4. ContextInv(level)'
  BY <1>2, <1>3 DEF ContextInv, Trampolining, Jump, Patched
<1>5. tramp' = tramp /\ patch' = patch
  BY DEF Jump
<1>6. \A i \in Active : i # level => ContextInv(i)'
  BY <1>2, <1>3, <1>5, OuterContexts DEF Patched
<1>7. PatchInv'
  BY <1>5 DEF Safe, PatchInv, Patched, Replaces
<1>8. ~exited' /\ (access.insn = access.due)'
  BY DEF Jump, Safe
<1>9. QED
  BY <1>3, <1>4, <1>6, <1>7, <1>8, SafeByParts

(* A new exception is raised at an instruction that is not patched.        *)
LEMMA RaiseSafe ==
  ASSUME TypeOK, Safe, Raise
  PROVE  Safe'
<1> DEFINE c == [cur EXCEPT !.at = "raised", !.due = cur.loc, !.done = FALSE]
<1>1. cur \in Context /\ ContextInv(level)
  BY CurKnows
<1>2. c \in Context /\ c.at = "raised" /\ c.due = cur.loc
  BY <1>1 DEF Context
<1>3. ctx'[level] = c /\ Goto(c) /\ level' = level
  BY DEF Raise, Goto, TypeOK
<1>4. ContextInv(level)'
  BY <1>2, <1>3 DEF ContextInv, Trampolining, Raise, Patched
<1>5. tramp' = tramp /\ patch' = patch
  BY DEF Raise
<1>6. \A i \in Active : i # level => ContextInv(i)'
  BY <1>2, <1>3, <1>5, OuterContexts DEF Patched
<1>7. PatchInv'
  BY <1>5 DEF Safe, PatchInv, Patched, Replaces
<1>8. ~exited' /\ (access.insn = access.due)'
  BY DEF Raise, Safe
<1>9. QED
  BY <1>3, <1>4, <1>6, <1>7, <1>8, SafeByParts

(* A signal handler starts in the program, above every other context.      *)
LEMMA SignalSafe ==
  ASSUME TypeOK, Safe, NEW l \in Loc, Signal(l)
  PROVE  Safe'
<1>1. /\ level' = level + 1 /\ level + 1 \in Level /\ level \in Level
      /\ ctx'[level + 1] = Running(l)
      /\ \A i \in Active : ctx'[i] = ctx[i]
  BY BoundsAssumption DEF Signal, TypeOK, Level, Active
<1>2. Active' = Active \cup {level + 1}
  BY <1>1 DEF Active, Level
<1>3. tramp' = tramp /\ patch' = patch /\ ~exited' /\ (access.insn = access.due)'
  BY DEF Signal, Safe
<1>4. PatchInv'
  BY <1>3 DEF Safe, PatchInv, Patched, Replaces
<1>5. ASSUME NEW i \in {level + 1} PROVE ContextInv(i)'
  BY <1>1, <1>5 DEF ContextInv, Trampolining, Running
<1>6. ASSUME NEW i \in Active PROVE ContextInv(i)'
  <2>1. ContextInv(i) /\ ctx'[i] = ctx[i] /\ i < level + 1
    BY <1>1 DEF Safe, Active, Level
  <2>2. ASSUME OwnsTrampoline(i) PROVE OwnsTrampoline(i)'
    <3>1. Replaces(tramp, ctx[i].due)'
      BY <1>3, <2>1, <2>2 DEF OwnsTrampoline, Replaces
    <3>2. \A j \in Active' : j < i => ctx'[j].at \notin Emulating
      BY <1>1, <1>2, <2>1, <2>2 DEF OwnsTrampoline, Level, Active
    <3>3. \A j \in Active' : j > i => ctx'[j].at \in {"program", "raised", "fragment"}
      BY <1>1, <1>2, <2>2 DEF OwnsTrampoline, Running
    <3>4. QED
      BY <3>1, <3>2, <3>3 DEF OwnsTrampoline, Emulating
  <2>3. QED
    BY <1>3, <2>1, <2>2 DEF ContextInv, Patched
<1>7. QED
  BY <1>2, <1>3, <1>4, <1>5, <1>6 DEF Safe

(* The innermost signal handler goes, and no other context notices.        *)
LEMMA SignalReturnSafe ==
  ASSUME TypeOK, Safe, SignalReturn
  PROVE  Safe'
<1>1. /\ level' = level - 1 /\ level \in Level
      /\ \A i \in Active : i < level => ctx'[i] = ctx[i]
  BY DEF SignalReturn, TypeOK, Level, Active
<1>2. Active' = {i \in Active : i < level}
  BY <1>1 DEF Active, Level
<1>3. tramp' = tramp /\ patch' = patch /\ ~exited' /\ (access.insn = access.due)'
  BY DEF SignalReturn, Safe
<1>4. PatchInv'
  BY <1>3 DEF Safe, PatchInv, Patched, Replaces
<1>5. ASSUME NEW i \in Active, i < level PROVE ContextInv(i)'
  <2>1. ContextInv(i) /\ ctx'[i] = ctx[i]
    BY <1>1, <1>5 DEF Safe
  <2>2. ASSUME OwnsTrampoline(i) PROVE OwnsTrampoline(i)'
    <3>1. Replaces(tramp, ctx[i].due)'
      BY <1>3, <2>1, <2>2 DEF OwnsTrampoline, Replaces
    <3>2. \A j \in Active' : j < i => ctx'[j].at \notin Emulating
      BY <1>1, <1>2, <2>2 DEF OwnsTrampoline
    <3>3. \A j \in Active' : j > i => ctx'[j].at \in {"program", "raised", "fragment"}
      BY <1>1, <1>2, <2>2 DEF OwnsTrampoline
    <3>4. QED
      BY <3>1, <3>2, <3>3 DEF OwnsTrampoline, Emulating
  <2>3. QED
    BY <1>3, <2>1, <2>2 DEF ContextInv, Patched
<1>6. QED
  BY <1>2, <1>3, <1>4, <1>5 DEF Safe

(***************************************************************************)
(* handler_cb.                                                             *)
(***************************************************************************)
(* The context that fills the trampoline owns it, unless it overtakes.     *)
LEMMA TrampolineFilled ==
  ASSUME TypeOK, Safe, ~Overtaking,
         NEW c \in Context, Goto(c), c.at \in {"built", "trampoline"},
         c.due = cur.due, c.at = "built" => tramp'.kind = "gs",
         Replaces(tramp', cur.due),
         level' = level, patch' = patch, exited' = exited, access' = access
  PROVE  Safe'
<1>1. /\ level \in Active /\ ctx'[level] = c /\ Active' = Active
      /\ \A i \in Active : i # level => i < level /\ ctx'[i] = ctx[i]
  BY CurKnows DEF Goto, TypeOK, Active, Level
<1>2. \A i \in Active : i < level => ctx[i].at \notin Emulating
  BY DEF Overtaking, Active
<1>3. OwnsTrampoline(level)'
  <2>1. Replaces(tramp, ctx[level].due)'
    BY <1>1 DEF Replaces
  <2>2. \A j \in Active' : j < level' => ctx'[j].at \notin Emulating
    BY <1>1, <1>2 DEF Active, Level
  <2>3. \A j \in Active' : ~(j > level')
    BY <1>1 DEF Active, Level
  <2>4. QED
    BY <2>1, <2>2, <2>3 DEF OwnsTrampoline, Emulating
<1>4. ContextInv(level)'
  BY <1>1, <1>3 DEF ContextInv, Trampolining
<1>5. ASSUME NEW i \in Active, i # level PROVE ContextInv(i)'
  <2>1. ContextInv(i) /\ ctx'[i] = ctx[i] /\ ctx[i].at \notin Emulating
    BY <1>1, <1>2, <1>5 DEF Safe
  <2>2. QED
    BY <2>1 DEF ContextInv, Patched, Emulating, Trampolining
<1>6. PatchInv' /\ ~exited' /\ (access.insn = access.due)'
  BY DEF Safe, PatchInv, Patched, Replaces
<1>7. QED
  BY <1>4, <1>5, <1>6, SafeByParts

(* handler_cb makes the trampoline of a system call.                       *)
LEMMA HandleSysCallSafe ==
  ASSUME TypeOK, Safe, HandleSysCall, ~overtaken'
  PROVE  Safe'
<1> DEFINE c == [cur EXCEPT !.at = "trampoline"]
<1>1. c \in Context /\ c.at = "trampoline" /\ c.due = cur.due
  BY CurInContext DEF Context
<1>2. Replaces(tramp', cur.due)
  BY DEF HandleSysCall, Replaces, SysCode
<1>3. Goto(c) /\ ~Overtaking
  BY DEF HandleSysCall
<1>4. QED
  BY <1>1, <1>2, <1>3, TrampolineFilled DEF HandleSysCall

(* handler_cb translates an instruction that uses %gs.                     *)
LEMMA HandleGsSafe ==
  ASSUME TypeOK, Safe, HandleGs, ~overtaken'
  PROVE  Safe'
<1> DEFINE c == [cur EXCEPT !.at = "built"]
<1>1. c \in Context /\ c.at = "built" /\ c.due = cur.due
  BY CurInContext DEF Context
<1>2. Replaces(tramp', cur.due) /\ tramp'.kind = "gs"
  BY DEF HandleGs, Replaces, GsCode
<1>3. Goto(c) /\ ~Overtaking
  BY DEF HandleGs
<1>4. QED
  BY <1>1, <1>2, <1>3, TrampolineFilled DEF HandleGs

(* handler_cb steps over a load of %gs.                                    *)
LEMMA HandleGsLoadSafe ==
  ASSUME TypeOK, Safe, HandleGsLoad
  PROVE  Safe'
<1>1. Running(After(cur.due)) \in Context
  BY CurInContext, AfterInLoc, RunningType DEF Context
<1>2. (access.insn = access.due)'
  BY DEF HandleGsLoad, Safe
<1>3. QED
  BY <1>1, <1>2, BackInProgram DEF HandleGsLoad, Resume, Running

(* An instruction is not patched behind the back of a context that is      *)
(* about to handle it: that would need another context's trap.             *)
LEMMA NeverExits ==
  ASSUME TypeOK, Safe
  PROVE  ~HandleExit
  BY CurKnows DEF HandleExit, ContextInv, At, cur

(* copy_or_jump patches only the instruction the trampoline was made for.  *)
LEMMA CopyLongSafe ==
  ASSUME TypeOK, Safe, CopyLong
  PROVE  Safe'
<1> DEFINE c == [cur EXCEPT !.at = "patching", !.loc = cur.due]
<1>1. cur \in Context /\ cur.at = "built" /\ cur.due \in Loc
  BY CurKnows DEF CopyLong, At, Context
<1>2. c \in Context /\ c.at = "patching" /\ c.loc = cur.due /\ c.due = cur.due
  BY <1>1 DEF Context
<1>3. ctx'[level] = c /\ Goto(c) /\ level' = level /\ tramp' = tramp
  BY DEF CopyLong, Goto, TypeOK
<1>4. Replaces(tramp, cur.due) /\ tramp.kind = "gs"
  BY <1>1, CurKnows DEF ContextInv, OwnsTrampoline, Trampolining, cur
<1>5. /\ patch'[cur.due] = tramp
      /\ \A l \in Loc : l # cur.due => patch'[l] = patch[l]
  BY <1>1 DEF CopyLong, TypeOK
<1>6. \A l \in Loc : Patched(l) => Patched(l)'
  BY <1>4, <1>5 DEF Patched
<1>8. ContextInv(level)'
  BY <1>2, <1>3, <1>4, <1>5 DEF ContextInv, Trampolining, Patched
<1>9. \A i \in Active : i # level => ContextInv(i)'
  BY <1>1, <1>2, <1>3, <1>6, OuterContexts DEF Trampolining
<1>10. PatchInv'
  BY <1>4, <1>5 DEF Safe, PatchInv, Patched, Replaces
<1>11. ~exited' /\ (access.insn = access.due)'
  BY DEF CopyLong, Safe
<1>12. QED
  BY <1>3, <1>8, <1>9, <1>10, <1>11, SafeByParts

(* copy_or_jump completes the jump and follows it.                         *)
LEMMA WriteTargetSafe ==
  ASSUME TypeOK, Safe, WriteTarget
  PROVE  Safe'
<1> DEFINE c == [cur EXCEPT !.at = "fragment"]
<1>1. cur \in Context /\ cur.at = "patching" /\ ContextInv(level)
  BY CurKnows DEF WriteTarget, At
<1>2. c \in Context /\ c.at = "fragment" /\ c.loc = cur.loc /\ c.due = cur.due
  BY <1>1 DEF Context
<1>3. Goto(c) /\ level' = level /\ tramp' = tramp /\ patch' = patch
  BY DEF WriteTarget
<1>4. ctx'[level] = c
  BY <1>3 DEF Goto, TypeOK
<1>5. cur.loc = cur.due /\ Patched(cur.loc)
  BY <1>1 DEF ContextInv, cur
<1>6. ContextInv(level)'
  BY <1>2, <1>3, <1>4, <1>5 DEF ContextInv, Trampolining, Patched
<1>7. \A i \in Active : i # level => ContextInv(i)'
  BY <1>1, <1>2, <1>3, OuterContexts DEF Patched
<1>8. PatchInv' /\ ~exited' /\ (access.insn = access.due)'
  BY <1>3 DEF WriteTarget, Safe, PatchInv, Patched, Replaces
<1>9. QED
  BY <1>3, <1>6, <1>7, <1>8, SafeByParts

(* copy_or_jump fails and leaves the trampoline to nobody.                 *)
LEMMA CopyLongFailsSafe ==
  ASSUME TypeOK, Safe, CopyLongFails
  PROVE  Safe'
<1> DEFINE c == [cur EXCEPT !.at = "program", !.loc = After(cur.due)]
<1>1. cur \in Context
  BY CurKnows
<1>2. After(cur.due) \in Loc
  BY <1>1, AfterInLoc DEF Context
<1>3. c \in Context /\ c.at = "program"
  BY <1>1, <1>2 DEF Context
<1>4. Goto(c) /\ (access.insn = access.due)'
  BY DEF CopyLongFails, Safe
<1>5. QED
  BY <1>3, <1>4, BackInProgram DEF CopyLongFails

(* A step inside the trampoline keeps the context its owner.               *)
LEMMA InTrampoline ==
  ASSUME TypeOK, Safe, cur.at \in Trampolining,
         NEW c \in Context, Goto(c), c.at \in {"trampoline", "pushed"},
         c.due = cur.due, c.at = "pushed" => c.ret = After(cur.due),
         level' = level, tramp' = tramp, patch' = patch, exited' = exited, access' = access
  PROVE  Safe'
<1>1. /\ level \in Active /\ ctx'[level] = c /\ Active' = Active
      /\ \A i \in Active : i # level => i < level /\ ctx'[i] = ctx[i]
  BY CurKnows DEF Goto, TypeOK, Active, Level
<1>2. OwnsTrampoline(level)
  BY CurKnows DEF ContextInv, cur
<1>3. OwnsTrampoline(level)'
  <2>1. Replaces(tramp, ctx[level].due)'
    BY <1>1, <1>2 DEF OwnsTrampoline, Replaces, cur
  <2>2. \A j \in Active' : j < level' => ctx'[j].at \notin Emulating
    BY <1>1, <1>2 DEF OwnsTrampoline, Active, Level
  <2>3. \A j \in Active' : ~(j > level')
    BY <1>1 DEF Active, Level
  <2>4. QED
    BY <2>1, <2>2, <2>3 DEF OwnsTrampoline, Emulating
<1>4. ContextInv(level)'
  BY <1>1, <1>3 DEF ContextInv, Trampolining
<1>5. \A i \in Active : i # level => ContextInv(i)'
  BY OuterContexts DEF Trampolining, Patched
<1>6. PatchInv' /\ ~exited' /\ (access.insn = access.due)'
  BY DEF Safe, PatchInv, Patched, Replaces
<1>7. QED
  BY <1>4, <1>5, <1>6, SafeByParts

(* copy_or_jump enters the trampoline.                                     *)
LEMMA JumpShortSafe ==
  ASSUME TypeOK, Safe, JumpShort
  PROVE  Safe'
<1> DEFINE c == [cur EXCEPT !.at = "trampoline"]
<1>1. c \in Context /\ c.at = "trampoline" /\ c.due = cur.due
  BY CurInContext DEF Context
<1>2. Goto(c) /\ cur.at \in Trampolining
  BY DEF JumpShort, At, Trampolining
<1>3. QED
  BY <1>1, <1>2, InTrampoline DEF JumpShort

(* The address pushed is the one handler_cb stored.                        *)
LEMMA PushSafe ==
  ASSUME TypeOK, Safe, Push
  PROVE  Safe'
<1> DEFINE c == [cur EXCEPT !.at = "pushed", !.ret = tramp.ret]
<1>1. tramp.ret \in Loc /\ cur \in Context
  BY CurInContext DEF TypeOK, Code
<1>2. c \in Context /\ c.at = "pushed" /\ c.due = cur.due /\ c.ret = tramp.ret
  BY <1>1 DEF Context
<1>3. Goto(c) /\ cur.at \in Trampolining
  BY DEF Push, At, Trampolining
<1>4. tramp.ret = After(cur.due)
  BY <1>3, CurKnows DEF ContextInv, OwnsTrampoline, Replaces, cur
<1>5. QED
  BY <1>2, <1>3, <1>4, InTrampoline DEF Push

(***************************************************************************)
(* Replacement code, and the kernel.                                       *)
(***************************************************************************)
(* The end of an emulated system call, of whoever owned the trampoline.    *)
LEMMA EntersKernel ==
  ASSUME TypeOK, Safe, cur.at \in Trampolining,
         NEW c \in Context, Goto(c), c.at = "kernel", c.ret = After(c.due),
         level' = level, tramp' = tramp, patch' = patch, exited' = exited, access' = access
  PROVE  Safe'
<1>1. ctx'[level] = c
  BY DEF Goto, TypeOK
<1>2. ContextInv(level)'
  BY <1>1 DEF ContextInv, Trampolining
<1>3. \A i \in Active : i # level => ContextInv(i)'
  BY OuterContexts DEF Trampolining, Patched
<1>4. PatchInv' /\ ~exited' /\ (access.insn = access.due)'
  BY DEF Safe, PatchInv, Patched, Replaces
<1>5. QED
  BY <1>2, <1>3, <1>4, SafeByParts

(* The trampoline does the work of the instruction that trapped.           *)
LEMMA RunTrampolineSafe ==
  ASSUME TypeOK, Safe, RunTrampoline
  PROVE  Safe'
<1>1. cur \in Context /\ cur.at = "pushed" /\ cur.ret = After(cur.due) /\ cur.ret \in Loc
  BY CurKnows DEF RunTrampoline, At, ContextInv, cur, Context
<1>2. tramp.insn = cur.due /\ cur.at \in Trampolining
  BY <1>1, CurKnows DEF ContextInv, OwnsTrampoline, Replaces, Trampolining, cur
<1>3. CASE tramp.kind = "sys"
  <2> DEFINE c == [cur EXCEPT !.at = "kernel", !.ret = cur.ret]
  <2>1. c \in Context /\ c.at = "kernel" /\ c.ret = After(c.due)
    BY <1>1 DEF Context
  <2>2. Goto(c) /\ access' = access
    BY <1>3 DEF RunTrampoline, Perform
  <2>3. QED
    BY <1>2, <2>1, <2>2, EntersKernel DEF RunTrampoline
<1>4. CASE tramp.kind # "sys"
  <2> DEFINE c == [cur EXCEPT !.at = "program", !.loc = cur.ret, !.done = TRUE]
  <2>1. c \in Context /\ c.at = "program"
    BY <1>1 DEF Context
  <2>2. Goto(c) /\ (access.insn = access.due)'
    BY <1>2, <1>4 DEF RunTrampoline, Perform
  <2>3. QED
    BY <2>1, <2>2, BackInProgram DEF RunTrampoline
<1>5. QED
  BY <1>3, <1>4

(* A fragment does the work of the instruction that jumped to it.          *)
LEMMA RunFragmentSafe ==
  ASSUME TypeOK, Safe, RunFragment
  PROVE  Safe'
<1> DEFINE c == [cur EXCEPT !.at = "program", !.loc = patch[cur.loc].ret, !.done = TRUE]
<1>1. cur \in Context /\ cur.loc \in Loc /\ cur.loc = cur.due /\ Patched(cur.loc)
  BY CurKnows DEF RunFragment, At, ContextInv, cur, Context
<1>2. patch[cur.loc].kind = "gs" /\ Replaces(patch[cur.loc], cur.due)
  BY <1>1 DEF Safe, PatchInv
<1>3. patch[cur.loc].ret \in Loc
  BY <1>1 DEF TypeOK, Code
<1>4. c \in Context /\ c.at = "program"
  BY <1>1, <1>3 DEF Context
<1>5. Goto(c) /\ (access.insn = access.due)'
  BY <1>2 DEF RunFragment, Perform, Replaces
<1>6. QED
  BY <1>4, <1>5, BackInProgram DEF RunFragment

(* A system call returns.                                                  *)
LEMMA KernelSafe ==
  ASSUME TypeOK, Safe, NEW a \in Area, Kernel(a)
  PROVE  Safe'
<1> DEFINE c == [cur EXCEPT !.at = "program", !.loc = cur.ret, !.done = TRUE]
<1>1. c \in Context /\ c.at = "program"
  BY CurInContext DEF Context
<1>2. Goto(c) /\ (access.insn = access.due)'
  BY DEF Kernel, Safe
<1>3. QED
  BY <1>1, <1>2, BackInProgram DEF Kernel

(***************************************************************************)
(* The invariant.                                                          *)
(***************************************************************************)
(* Once a context was overtaken, that is remembered.                       *)
LEMMA OvertakenStays ==
  ASSUME TypeOK, [Next]_vars, ~overtaken'
  PROVE  ~overtaken
  BY DEF Next, vars, TypeOK, Step, Jump, Stray, Raise, Signal, SignalReturn, HandleExit, HandleSysCall,
         HandleGs, HandleGsLoad, CopyLong, WriteTarget, CopyLongFails, JumpShort, Push,
         RunTrampoline, RunFragment, Kernel

(* Every step keeps Safe, unless a context is overtaken in it.             *)
LEMMA SafeStays ==
  ASSUME Inv, [Next]_vars, ~overtaken'
  PROVE  Safe'
<1>1. TypeOK
  BY DEF Inv
<1>2. ~overtaken
  BY <1>1, OvertakenStays
<1>3. Safe
  BY <1>2 DEF Inv
<1>4. CASE UNCHANGED vars
  BY <1>3, <1>4 DEF vars, Safe, PatchInv, Patched, Replaces, Active, ContextInv, OwnsTrampoline
<1>5. CASE Next
  <2>1. ~Stray
    BY DEF Stray
  <2>2. QED
    BY <1>1, <1>3, <1>5, <2>1, StepSafe, JumpSafe, RaiseSafe, SignalSafe, SignalReturnSafe, NeverExits,
     HandleSysCallSafe, HandleGsSafe, HandleGsLoadSafe, CopyLongSafe, WriteTargetSafe,
     CopyLongFailsSafe, JumpShortSafe, PushSafe, RunTrampolineSafe, RunFragmentSafe, KernelSafe DEF Next
<1>6. QED
  BY <1>4, <1>5

(* The inductive invariant.                                                *)
THEOREM Invariance == Spec => []Inv
<1>1. Init => Inv
  BY TypesHold, InitSafe DEF Inv
<1>2. Inv /\ [Next]_vars => Inv'
  BY TypesStay, SafeStays DEF Inv
<1>3. QED
  BY <1>1, <1>2, PTL DEF Spec

(* Unless a context traps inside the emulation of another, or runs the     *)
(* instruction another is patching, the exception handler never ends a     *)
(* program it can run.                                                     *)
THEOREM GoesOn == Spec => []EmulatorGoesOn
<1>1. Inv => EmulatorGoesOn
  BY DEF Inv, Safe, EmulatorGoesOn
<1>2. QED
  BY <1>1, Invariance, PTL

(* With the same exception, every trap returns to the instruction after    *)
(* the one that raised it.                                                 *)
THEOREM TrapsReturn == Spec => ReturnsToNext
<1>1. Inv /\ [Next]_vars =>
        [Completes /\ ~overtaken => ctx'[level].loc = After(cur.due)]_vars
  <2>1. SUFFICES ASSUME Inv, Next, Completes, ~overtaken
                 PROVE  ctx'[level].loc = After(cur.due)
    BY DEF vars
  <2>2. TypeOK /\ Safe
    BY <2>1 DEF Inv
  <2>3. ContextInv(level) /\ cur \in Context /\ level \in Level
    BY <2>2, CurKnows DEF TypeOK
  <2>4. \A c : Goto(c) => ctx'[level] = c
    BY <2>2 DEF Goto, TypeOK
  <2>5. level' = level /\ cur.at # "program" /\ ctx'[level].at = "program"
    BY <2>1 DEF Completes
  <2>6. CASE HandleGsLoad
    BY <2>4, <2>6 DEF HandleGsLoad, Resume, Running
  <2>7. CASE CopyLongFails
    <3>1. [cur EXCEPT !.at = "program", !.loc = After(cur.due)].loc = After(cur.due)
      BY <2>3 DEF Context
    <3>2. QED
      BY <2>4, <2>7, <3>1 DEF CopyLongFails
  <2>8. CASE RunTrampoline
    <3>1. cur.at = "pushed" /\ cur.ret = After(cur.due)
      BY <2>3, <2>8 DEF RunTrampoline, At, ContextInv, cur
    <3>2. tramp.kind # "sys"
      BY <2>3, <2>4, <2>5, <2>8 DEF RunTrampoline, Perform, Context
    <3>3. QED
      BY <2>3, <2>4, <2>8, <3>1, <3>2 DEF RunTrampoline, Perform, Context
  <2>9. CASE RunFragment
    <3>1. cur.loc \in Loc /\ cur.loc = cur.due /\ Patched(cur.loc)
      BY <2>3, <2>9 DEF RunFragment, At, ContextInv, cur, Context
    <3>2. patch[cur.loc].kind = "gs" /\ patch[cur.loc].ret = After(cur.due)
      BY <2>2, <3>1 DEF Safe, PatchInv, Replaces
    <3>3. QED
      BY <2>3, <2>4, <2>9, <3>2 DEF RunFragment, Perform, Context
  <2>10. ASSUME NEW a \in Area, Kernel(a) PROVE ctx'[level].loc = After(cur.due)
    <3>1. cur.at = "kernel" /\ cur.ret = After(cur.due)
      BY <2>3, <2>10 DEF Kernel, At, ContextInv, cur
    <3>2. QED
      BY <2>3, <2>4, <2>10, <3>1 DEF Kernel, Context
  <2>11. CASE Step \/ Jump \/ Stray \/ Raise
    BY <2>5, <2>11 DEF Step, Jump, Stray, Raise, At
  <2>12. ASSUME NEW l \in Loc, Signal(l) PROVE FALSE
    BY <2>3, <2>5, <2>12 DEF Signal, Level
  <2>13. CASE SignalReturn \/ HandleExit
    BY <2>2, <2>3, <2>5, <2>13, NeverExits DEF SignalReturn, Level
  <2>14. CASE HandleSysCall \/ HandleGs \/ CopyLong \/ WriteTarget \/ JumpShort \/ Push
    BY <2>3, <2>4, <2>5, <2>14 DEF HandleSysCall, HandleGs, CopyLong, WriteTarget, JumpShort, Push, Context
  <2>15. QED
    BY <2>1, <2>6, <2>7, <2>8, <2>9, <2>10, <2>11, <2>12, <2>13, <2>14 DEF Next
<1>2. QED
  BY <1>1, Invariance, PTL DEF Spec, ReturnsToNext

(***************************************************************************)
(* The thread area.                                                        *)
(***************************************************************************)
(* At the start there is no code for %gs.                                  *)
LEMMA BaseInit == Init => BaseInv
  BY DEF Init, BaseInv, NoCode, Running

(* What a step may do to code for %gs: only HandleGs makes it, and the     *)
(* thread area was there when the exception was raised.                    *)
LEMMA BaseStays == TypeOK /\ BaseInv /\ [Next]_vars => BaseInv'
<1> SUFFICES ASSUME TypeOK, BaseInv, [Next]_vars PROVE BaseInv'
  OBVIOUS
<1> DEFINE Unraised(c) == c.at = "raised" /\ c.due \in UsesGs => area # 0
<1>1. cur \in Context /\ Unraised(cur) /\ level \in Level
  BY CurInContext DEF TypeOK, BaseInv, cur
<1>2. ASSUME NEW c \in Context, Goto(c), c.at # "raised", area' = area \/ area' # 0,
             tramp' = tramp, patch' = patch
      PROVE  BaseInv'
  BY <1>2 DEF BaseInv, Goto, TypeOK
<1>3. CASE Step \/ HandleGsLoad
  <2>1. After(cur.loc) \in Loc /\ After(cur.due) \in Loc
    BY <1>1, AfterInLoc DEF Context
  <2>2. PICK l \in Loc : Goto(Running(l))
    BY <1>3, <2>1 DEF Step, HandleGsLoad, Resume
  <2>3. QED
    BY <1>2, <1>3, <2>2, RunningType DEF Step, HandleGsLoad, Running
<1>4. CASE Jump
  <2>1. [cur EXCEPT !.at = "fragment", !.due = cur.loc, !.done = FALSE] \in Context
    BY <1>1 DEF Context
  <2>2. QED
    BY <1>2, <1>4, <2>1 DEF Jump, Context
<1>5. CASE Raise
  <2> DEFINE c == [cur EXCEPT !.at = "raised", !.due = cur.loc, !.done = FALSE]
  <2>1. c.due = cur.loc
    BY <1>1 DEF Context
  <2>2. cur.loc \in UsesGs => area # 0
    BY <1>5, ProgramAssumption DEF Raise, UsesGs
  <2>3. \A i \in Level : ctx'[i] = ctx[i] \/ ctx'[i] = c
    BY <1>5 DEF Raise, Goto, TypeOK
  <2>4. QED
    BY <1>5, <2>1, <2>2, <2>3 DEF Raise, BaseInv
<1>6. ASSUME NEW l \in Loc, Signal(l) PROVE BaseInv'
  BY <1>6 DEF Signal, Running, BaseInv, TypeOK
<1>7. CASE SignalReturn
  BY <1>7 DEF SignalReturn, Running, BaseInv, TypeOK
<1>8. CASE HandleExit \/ Stray \/ UNCHANGED vars
  BY <1>8 DEF HandleExit, Stray, vars, BaseInv
<1>9. CASE HandleSysCall
  <2>1. [cur EXCEPT !.at = "trampoline"].at = "trampoline"
    BY <1>1 DEF Context
  <2>2. tramp'.kind = "sys"
    BY <1>9 DEF HandleSysCall, SysCode
  <2>3. QED
    BY <1>9, <2>1, <2>2 DEF HandleSysCall, Goto, BaseInv, TypeOK
<1>10. CASE HandleGs
  <2>1. [cur EXCEPT !.at = "built"].at = "built"
    BY <1>1 DEF Context
  <2>2. tramp'.base = area /\ area # 0
    BY <1>1, <1>10 DEF HandleGs, GsCode, At
  <2>3. QED
    BY <1>10, <2>1, <2>2 DEF HandleGs, Goto, BaseInv, TypeOK
<1>11. CASE CopyLong
  <2>1. [cur EXCEPT !.at = "patching", !.loc = cur.due].at = "patching"
    BY <1>1 DEF Context
  <2>2. QED
    BY <1>11, <2>1 DEF CopyLong, Goto, BaseInv, TypeOK
<1>12. CASE CopyLongFails
  <2>1. After(cur.due) \in Loc
    BY <1>1, AfterInLoc DEF Context
  <2>2. [cur EXCEPT !.at = "program", !.loc = After(cur.due)] \in Context
    BY <1>1, <2>1 DEF Context
  <2>3. QED
    BY <1>2, <1>12, <2>2 DEF CopyLongFails, Context
<1>13. CASE JumpShort
  <2>1. [cur EXCEPT !.at = "trampoline"] \in Context
    BY <1>1 DEF Context
  <2>2. QED
    BY <1>2, <1>13, <2>1 DEF JumpShort, Context
<1>14. CASE Push
  <2>1. [cur EXCEPT !.at = "pushed", !.ret = tramp.ret] \in Context
    BY <1>1 DEF Context, TypeOK, Code
  <2>2. QED
    BY <1>2, <1>14, <2>1 DEF Push, Context
<1>15. CASE RunTrampoline \/ RunFragment
  <2>1. PICK code \in Code, ret \in Loc : Perform(code, ret)
    <3>1. tramp \in Code /\ patch[cur.loc] \in Code /\ patch[cur.loc].ret \in Loc /\ cur.ret \in Loc
      BY <1>1 DEF TypeOK, Context, Code
    <3>2. QED
      BY <1>15, <3>1 DEF RunTrampoline, RunFragment
  <2>2. [cur EXCEPT !.at = "kernel", !.ret = ret].at = "kernel"
    BY <1>1 DEF Context
  <2>3. [cur EXCEPT !.at = "program", !.loc = ret, !.done = TRUE].at = "program"
    BY <1>1 DEF Context
  <2>4. PICK c : Goto(c) /\ c.at # "raised"
    BY <2>1, <2>2, <2>3 DEF Perform
  <2>5. QED
    BY <1>15, <2>4 DEF RunTrampoline, RunFragment, Goto, BaseInv, TypeOK
<1>16. ASSUME NEW a \in Area, Kernel(a) PROVE BaseInv'
  <2>1. [cur EXCEPT !.at = "program", !.loc = cur.ret, !.done = TRUE] \in Context
    BY <1>1 DEF Context
  <2>2. area' = area \/ area' # 0
    BY <1>16 DEF Kernel, TypeOK, Area
  <2>3. QED
    BY <1>2, <1>16, <2>1, <2>2 DEF Kernel, Context
<1>17. CASE WriteTarget
  <2>1. [cur EXCEPT !.at = "fragment"] \in Context
    BY <1>1 DEF Context
  <2>2. QED
    BY <1>2, <1>17, <2>1 DEF WriteTarget, Context
<1>18. QED
  BY <1>3, <1>4, <1>5, <1>6, <1>7, <1>8, <1>9, <1>10, <1>11, <1>12, <1>13, <1>14, <1>15, <1>16,
     <1>17 DEF Next

(* When the thread area is set at most once, every access for %gs is the   *)
(* one its instruction asks for and goes to the thread area.               *)
THEOREM AccessesRight ==
  ASSUME MaxAreas <= 1
  PROVE  Spec => []AccessesThreadArea
<1> DEFINE All == Inv /\ BaseInv /\ AccessesThreadArea
<1>1. Init => All
  <2>1. Init => AccessesThreadArea
    BY DEF Init, AccessesThreadArea
  <2>2. QED
    BY <2>1, TypesHold, InitSafe, BaseInit DEF Inv
<1>2. All /\ [Next]_vars => All'
  <2>1. SUFFICES ASSUME Inv, BaseInv, AccessesThreadArea, [Next]_vars
                 PROVE  Inv' /\ BaseInv' /\ AccessesThreadArea'
    OBVIOUS
  <2>2. Inv' /\ BaseInv'
    BY <2>1, TypesStay, SafeStays, BaseStays DEF Inv
  <2>3. SUFFICES ASSUME ~overtaken' PROVE AccessesThreadArea'
    BY <2>2 DEF AccessesThreadArea
  <2>4. (access.insn = access.due)'
    BY <2>2, <2>3 DEF Inv, Safe
  <2>5. CASE RunTrampoline \/ RunFragment
    <3>1. TypeOK /\ Safe
      BY <2>1, <2>3, <2>5 DEF Inv, RunTrampoline, RunFragment
    <3>2. ContextInv(level) /\ cur \in Context
      BY <3>1, CurKnows
    <3>3. CASE RunTrampoline
      <4>1. tramp.kind \in {"sys", "gs"} /\ tramp.base \in Area /\ area \in Area
        BY <3>1, <3>2, <3>3 DEF RunTrampoline, At, ContextInv, OwnsTrampoline, Replaces,
                            Trampolining, TypeOK, Code, cur
      <4>2. tramp.kind = "gs" => tramp.base = area
        BY <2>1, <4>1, BoundsAssumption DEF BaseInv, Area
      <4>3. QED
        BY <2>1, <2>4, <3>3, <4>1, <4>2 DEF RunTrampoline, Perform, AccessesThreadArea
    <3>4. CASE RunFragment
      <4>1. cur.loc \in Loc /\ Patched(cur.loc)
        BY <3>2, <3>4 DEF RunFragment, At, ContextInv, cur, Context
      <4>2. patch[cur.loc].kind = "gs" /\ patch[cur.loc].base \in Area /\ area \in Area
        BY <3>1, <4>1 DEF Safe, PatchInv, TypeOK, Code
      <4>3. patch[cur.loc].base = area
        BY <2>1, <4>1, <4>2, BoundsAssumption DEF BaseInv, Area
      <4>4. QED
        BY <2>4, <3>4, <4>2, <4>3 DEF RunFragment, Perform, AccessesThreadArea
    <3>5. QED
      BY <2>5, <3>3, <3>4
  <2>6. CASE ~(RunTrampoline \/ RunFragment)
    <3>1. access' = access
      BY <2>1, <2>6 DEF Next, vars, Step, Jump, Stray, Raise, Signal, SignalReturn, HandleExit,
         HandleSysCall, HandleGs, HandleGsLoad, CopyLong, WriteTarget, CopyLongFails, JumpShort, Push, Kernel
    <3>2. ~overtaken
      BY <2>1, <2>3, OvertakenStays DEF Inv
    <3>3. QED
      BY <2>1, <3>1, <3>2 DEF AccessesThreadArea
  <2>7. QED
    BY <2>5, <2>6
<1>3. All => AccessesThreadArea
  OBVIOUS
<1>4. QED
  BY <1>1, <1>2, <1>3, PTL DEF Spec
=============================================================================
