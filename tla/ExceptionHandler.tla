-------------------------- MODULE ExceptionHandler --------------------------
(***************************************************************************)
(* How LBW takes over the instructions a Linux program cannot execute on   *)
(* Interix (src/src/ehandler.cc).  `int 0x80` and instructions that use    *)
(* %gs raise an access violation; handler_cb writes a replacement into one *)
(* static trampoline and continues there.  The replacement of a %gs        *)
(* instruction of at least five bytes is copied into a fragment of its own *)
(* and a jump to it is patched over the instruction.                       *)
(*                                                                         *)
(* A signal handler of the program can start between any two steps, also   *)
(* while handler_cb runs, and it traps like the rest of the program; its   *)
(* lock is recursive.  A signal handler returns before what it interrupted *)
(* goes on, so the contexts form a stack.                                  *)
(***************************************************************************)
EXTENDS Integers

CONSTANTS
  CodeSize,   (* the program: its instructions are numbered from 0, and the  *)
              (* last one jumps to the first                                 *)
  SysCall,    (* int 0x80                                                    *)
  LongGs,     (* instructions that use %gs and have at least five bytes      *)
  ShortGs,    (* instructions that use %gs and have fewer                    *)
  GsLoad,     (* mov %eax, %gs                                               *)
  Leave,      (* where a signal handler may return                           *)
  MaxDepth,   (* bound: 1 + the signal handlers that nest                    *)
  MaxAreas    (* bound: calls of set_thread_area                             *)

Loc == 0 .. CodeSize - 1
After(l) == (l + 1) % CodeSize

ASSUME ProgramAssumption ==
  /\ CodeSize \in Nat \ {0}
  /\ SysCall \cup LongGs \cup ShortGs \cup GsLoad \subseteq Loc
  /\ Leave \subseteq Loc \ (SysCall \cup LongGs \cup ShortGs \cup GsLoad)
  /\ SysCall \cap (LongGs \cup ShortGs \cup GsLoad) = {}
  /\ LongGs \cap (ShortGs \cup GsLoad) = {}
  /\ ShortGs \cap GsLoad = {}

ASSUME BoundsAssumption ==
  /\ MaxDepth \in Nat \ {0}
  /\ MaxAreas \in Nat

VARIABLES
  tramp,      (* the static trampoline                                       *)
  patch,      (* the fragments that instructions now jump to                 *)
  torn,       (* the instructions whose jump has no target yet               *)
  area,       (* the base of the thread area; 0 before it is set             *)
  ctx,        (* the contexts: the program, then signal handlers inside it   *)
  level,      (* the context that runs                                       *)
  exited,     (* has handler_cb ended the process?                           *)
  access,     (* history: the last memory access made for %gs, the           *)
              (* instruction it was made for, and the area at that time      *)
  overtaken   (* history: has a context trapped inside the emulation of      *)
              (* another, or run an instruction another is patching?         *)

vars == <<tramp, patch, torn, area, ctx, level, exited, access, overtaken>>

Level == 1 .. MaxDepth
Area == 0 .. MaxAreas

(* Replacement code: push ret; then either go to Linux_MCE, or make the    *)
(* access of the instruction insn with the base compiled in, and return.   *)
Code == [kind : {"none", "sys", "gs"}, ret : Loc, insn : Loc, base : Area]
NoCode == [kind |-> "none", ret |-> 0, insn |-> 0, base |-> 0]
SysCode(l) == [kind |-> "sys", ret |-> After(l), insn |-> l, base |-> 0]
(* Fault variants: the return address is stored before translation has     *)
(* moved Eip; the displacement is left as it was.                          *)
GsCodeEarly(l) == [kind |-> "gs", ret |-> l, insn |-> l, base |-> area]
GsCodeUnbased(l) == [kind |-> "gs", ret |-> After(l), insn |-> l, base |-> 0]

GsCode(l) == [kind |-> "gs", ret |-> After(l), insn |-> l, base |-> area]

(* at is where the context runs: in the "program" at loc; the access       *)
(* violation was "raised"; the trampoline is "built"; at the start of the  *)
(* "trampoline"; in it, behind the "pushed" return address; "patching" the *)
(* instruction; in a "fragment"; in the "kernel", which is Linux_MCE.  due *)
(* is the instruction that trapped, done whether its effect has taken      *)
(* place, ret the return address pushed.                                   *)
Context == [at : {"program", "raised", "built", "trampoline", "pushed",
                  "patching", "fragment", "kernel"},
            loc : Loc, due : Loc, ret : Loc, done : BOOLEAN]
Running(l) == [at |-> "program", loc |-> l, due |-> 0, ret |-> 0, done |-> TRUE]

TypeOK ==
  /\ tramp \in Code
  /\ patch \in [Loc -> Code]
  /\ torn \subseteq Loc
  /\ area \in Area
  /\ ctx \in [Level -> Context]
  /\ level \in Level
  /\ exited \in BOOLEAN
  /\ access \in [insn : Loc, base : Area, due : Loc, area : Area]
  /\ overtaken \in BOOLEAN

cur == ctx[level]
At(place) == ~exited /\ cur.at = place
Goto(c) == ctx' = [ctx EXCEPT ![level] = c]
Resume(l) == Goto(Running(l))

(***************************************************************************)
(* The program.                                                            *)
(***************************************************************************)
Patched(l) == patch[l].kind # "none"
UsesGs == LongGs \cup ShortGs

(* An instruction the processor can execute.                               *)
Step ==
  /\ At("program")
  /\ cur.loc \notin SysCall \cup UsesGs \cup GsLoad
  /\ Resume(After(cur.loc))
  /\ UNCHANGED <<tramp, patch, torn, area, level, exited, access, overtaken>>

(* Fault variant: fragments are not executable, and fetching one traps.    *)
JumpTraps ==
  /\ At("program")
  /\ Patched(cur.loc)
  /\ cur.loc \notin torn
  /\ Goto([cur EXCEPT !.at = "raised", !.due = cur.loc, !.done = FALSE])
  /\ UNCHANGED <<tramp, patch, torn, area, level, exited, access, overtaken>>

(* A patched instruction jumps to its fragment.                            *)
Jump ==
  /\ At("program")
  /\ Patched(cur.loc)
  /\ cur.loc \notin torn
  /\ Goto([cur EXCEPT !.at = "fragment", !.due = cur.loc, !.done = FALSE])
  /\ UNCHANGED <<tramp, patch, torn, area, level, exited, access, overtaken>>

(* A signal handler runs the instruction that is being patched: a jump to  *)
(* nowhere.  The process is lost.                                          *)
Stray ==
  /\ At("program")
  /\ cur.loc \in torn
  /\ exited' = TRUE
  /\ overtaken' = TRUE
  /\ UNCHANGED <<tramp, patch, torn, area, ctx, level, access>>

(* The program uses %gs only once it has a thread area.                    *)
Raise ==
  /\ At("program")
  /\ ~Patched(cur.loc)
  /\ \/ cur.loc \in SysCall \cup GsLoad
     \/ cur.loc \in UsesGs /\ area # 0
  /\ Goto([cur EXCEPT !.at = "raised", !.due = cur.loc, !.done = FALSE])
  /\ UNCHANGED <<tramp, patch, torn, area, level, exited, access, overtaken>>

Signal(l) ==
  /\ ~exited
  /\ level < MaxDepth
  /\ level' = level + 1
  /\ ctx' = [ctx EXCEPT ![level + 1] = Running(l)]
  /\ UNCHANGED <<tramp, patch, torn, area, exited, access, overtaken>>

SignalReturn ==
  /\ At("program")
  /\ level > 1
  /\ cur.loc \in Leave
  /\ level' = level - 1
  /\ ctx' = [ctx EXCEPT ![level] = Running(0)]
  /\ UNCHANGED <<tramp, patch, torn, area, exited, access, overtaken>>

(***************************************************************************)
(* handler_cb.                                                             *)
(***************************************************************************)
Emulating == {"raised", "built", "trampoline", "pushed"}

(* It looks at the instruction again: if it has been patched since the     *)
(* exception was raised it is a jump, which handler_cb does not know.      *)
HandleExit ==
  /\ At("raised")
  /\ Patched(cur.due)
  /\ exited' = TRUE
  /\ UNCHANGED <<tramp, patch, torn, area, ctx, level, access, overtaken>>

Overtaking == \E i \in Level : i < level /\ ctx[i].at \in Emulating

HandleSysCall ==
  /\ At("raised")
  /\ cur.due \in SysCall
  /\ tramp' = SysCode(cur.due)
  /\ Goto([cur EXCEPT !.at = "trampoline"])
  /\ overtaken' = (overtaken \/ Overtaking)
  /\ UNCHANGED <<patch, torn, area, level, exited, access>>

HandleGs ==
  /\ At("raised")
  /\ cur.due \in UsesGs
  /\ ~Patched(cur.due)
  /\ tramp' = GsCode(cur.due)
  /\ Goto([cur EXCEPT !.at = "built"])
  /\ overtaken' = (overtaken \/ Overtaking)
  /\ UNCHANGED <<patch, torn, area, level, exited, access>>

(* mov %eax, %gs has no effect.                                            *)
HandleGsLoad ==
  /\ At("raised")
  /\ cur.due \in GsLoad
  /\ Resume(After(cur.due))
  /\ UNCHANGED <<tramp, patch, torn, area, level, exited, access, overtaken>>

(***************************************************************************)
(* copy_or_jump.  By now translate_gs_instruction has moved the context's  *)
(* instruction pointer behind the instruction.                             *)
(***************************************************************************)
CopyLong ==
  /\ At("built")
  /\ cur.due \in LongGs
  /\ patch' = [patch EXCEPT ![cur.due] = tramp]
  /\ torn' = torn \cup {cur.due}
  /\ Goto([cur EXCEPT !.at = "patching", !.loc = cur.due])
  /\ UNCHANGED <<tramp, area, level, exited, access, overtaken>>

(* writeJumpInstruction stores the opcode first, then the target.          *)
WriteTarget ==
  /\ At("patching")
  /\ torn' = torn \ {cur.due}
  /\ Goto([cur EXCEPT !.at = "fragment"])
  /\ UNCHANGED <<tramp, patch, area, level, exited, access, overtaken>>

(* MakeWriteable or allocateFragment throws.                               *)
CopyLongFails ==
  /\ At("built")
  /\ cur.due \in LongGs
  /\ Goto([cur EXCEPT !.at = "program", !.loc = After(cur.due)])
  /\ UNCHANGED <<tramp, patch, torn, area, level, exited, access, overtaken>>

JumpShort ==
  /\ At("built")
  /\ cur.due \in ShortGs
  /\ Goto([cur EXCEPT !.at = "trampoline"])
  /\ UNCHANGED <<tramp, patch, torn, area, level, exited, access, overtaken>>

(***************************************************************************)
(* Replacement code.  It takes what is in memory when it runs.             *)
(***************************************************************************)
Push ==
  /\ At("trampoline")
  /\ Goto([cur EXCEPT !.at = "pushed", !.ret = tramp.ret])
  /\ UNCHANGED <<tramp, patch, torn, area, level, exited, access, overtaken>>

Perform(code, ret) ==
  IF code.kind = "sys"
  THEN /\ Goto([cur EXCEPT !.at = "kernel", !.ret = ret])
       /\ UNCHANGED access
  ELSE /\ access' = [insn |-> code.insn, base |-> code.base,
                       due |-> cur.due, area |-> area]
       /\ Goto([cur EXCEPT !.at = "program", !.loc = ret, !.done = TRUE])

RunTrampoline ==
  /\ At("pushed")
  /\ Perform(tramp, cur.ret)
  /\ UNCHANGED <<tramp, patch, torn, area, level, exited, overtaken>>

RunFragment ==
  /\ At("fragment")
  /\ Perform(patch[cur.loc], patch[cur.loc].ret)
  /\ UNCHANGED <<tramp, patch, torn, area, level, exited, overtaken>>

(***************************************************************************)
(* Linux_MCE: the system call, and the return to the address on the stack. *)
(***************************************************************************)
(* Fault variant: set_thread_area stores the selector, not the base.       *)
KernelSelector(a) ==
  /\ At("kernel")
  /\ a \in {area, area + 1} \cap Area
  /\ area' = IF a = area THEN area ELSE 87
  /\ Goto([cur EXCEPT !.at = "program", !.loc = cur.ret, !.done = TRUE])
  /\ UNCHANGED <<tramp, patch, torn, level, exited, access, overtaken>>

Kernel(a) ==
  /\ At("kernel")
  /\ a \in {area, area + 1} \cap Area
  /\ area' = a
  /\ Goto([cur EXCEPT !.at = "program", !.loc = cur.ret, !.done = TRUE])
  /\ UNCHANGED <<tramp, patch, torn, level, exited, access, overtaken>>

Init ==
  /\ tramp = NoCode
  /\ patch = [l \in Loc |-> NoCode]
  /\ torn = {}
  /\ area = 0
  /\ ctx = [i \in Level |-> Running(0)]
  /\ level = 1
  /\ exited = FALSE
  /\ access = [insn |-> 0, base |-> 0, due |-> 0, area |-> 0]
  /\ overtaken = FALSE

Next ==
  \/ Step \/ Jump \/ Stray \/ Raise
  \/ \E l \in Loc : Signal(l)
  \/ SignalReturn
  \/ HandleExit \/ HandleSysCall \/ HandleGs \/ HandleGsLoad
  \/ CopyLong \/ WriteTarget \/ CopyLongFails \/ JumpShort
  \/ Push \/ RunTrampoline \/ RunFragment
  \/ \E a \in Area : Kernel(a)

Spec == Init /\ [][Next]_vars

(***************************************************************************)
(* Properties.                                                             *)
(***************************************************************************)
(* The context that runs leaves the emulation and is back in the program.  *)
Completes == /\ level' = level
             /\ cur.at # "program"
             /\ ctx'[level].at = "program"

(* Every system call and every %gs instruction goes on at the instruction  *)
(* after it, whatever signals arrive in system calls and in the program,   *)
(* as long as no signal handler traps between the exception of another     *)
(* context and the end of its trampoline, and none runs the instruction    *)
(* another context is patching.                                            *)
ReturnsToNext ==
  [][Completes /\ ~overtaken => ctx'[level].loc = After(cur.due)]_vars

(* An access for %gs is the one the instruction asks for, and goes to the  *)
(* thread area, also after set_thread_area in another context.             *)
AccessesThreadArea ==
  ~overtaken => access.insn = access.due /\ access.base = access.area

(* A program that LBW can run is not ended by the exception handler: it    *)
(* never meets an instruction it does not know, such as its own jumps.     *)
EmulatorGoesOn == ~overtaken => ~exited

(* "fall back to the old behaviour" when a fragment cannot be made: the    *)
(* instruction is still executed.                                          *)
NothingSkipped ==
  [][Completes /\ ~overtaken /\ cur.due \notin GsLoad => ctx'[level].done]_vars
=============================================================================
