-------------------------------- MODULE Exec -------------------------------
(***************************************************************************)
(* execve: src/src/exec/exec.cc in the old process, src/src/main.cc in the *)
(* new one.  Linux replaces the program and keeps the rest of the process. *)
(* LBW executes itself, and hands what Interix does not keep, its options, *)
(* the root and the working directory, to the new process as LBW_...       *)
(* variables of its environment.  The nodes become paths on that way; the  *)
(* open directory loses its node, and can no longer be a base.             *)
(*                                                                         *)
(* The new process reads the variables in steps of its own, and an error   *)
(* in any of them ends it.  Scripts, whose interpreter is executed in the  *)
(* same way, and Interix's own programs, which leave LBW, are left out.    *)
(***************************************************************************)
EXTENDS Vfs

CONSTANTS
  ExecPaths      (* the paths the program executes                           *)

ASSUME ExecPathsAssumption == \A p \in ExecPaths : IsPath(p)

VARIABLES
  phase,   (* "program", or the next step of a new LBW: "root", "cwd", "load" *)
  env,     (* the LBW_... variables, when there are any                      *)
  given,   (* history: the options the family of processes was started with  *)
  exe      (* history: the file Linux would run, if the paths were fresh     *)

execVars == <<vars, phase, env, given, exe>>

NoEnv == [none |-> TRUE]

ExecTypeOK ==
  /\ TypeOK
  /\ phase \in {"program", "root", "cwd", "load"}
  /\ phase = "program" <=> env = NoEnv
  /\ given \in StartOptions
  /\ exe \in Files \cup {None}

ExecInit ==
  /\ Init
  /\ phase = "program" /\ env = NoEnv /\ exe = None
  /\ given \in StartOptions
  /\ options.FakeRoot = given.FakeRoot /\ options.Warnings = given.Warnings
  /\ given.ForceLoad => options.ForceLoad

(* A call of the Vfs; a new process makes none before it has loaded.       *)
Program ==
  /\ phase = "program"
  /\ Next
  /\ UNCHANGED <<phase, env, given, exe>>

(* OpenFile(NULL, path) for a file to run: the directory it ends up in and *)
(* the file, if there is one.                                              *)
Opened(r, d, x) ==
  [wd |-> IF r.leaf \in Names THEN Arrive(d, r.wd) ELSE r.wd,
   looping |-> r.state = "loop",
   obj |-> IF r.leaf \in Names /\ d # None /\ x.obj \in Files THEN x.obj ELSE None]
FileIn(r, d) == Opened(r, d, Walk(tree, Top, Arrive(d, r.wd), <<r.leaf>>, TRUE))
FileOf(r) == FileIn(r, IF r.state = "found" THEN Inode(r.node) ELSE None)
OpenToRun(path) == FileOf(ResolveFrom("none", path, TRUE, wd))

(* VFS::GetCWD.                                                            *)
(* Fault variant: the real path, outside the chroot.                       *)
GetRealCWD == [abs |-> TRUE, names |-> GetRealPath(cwd)]
GetCWD == [abs |-> TRUE, names |-> cwd.names]

(* linux_exec makes room for eight variables beside the program's own and  *)
(* their terminator, which it counts as one of them; with every option set *)
(* there are eight and the array is not terminated.                        *)
(* Fault variant: --fakeroot ends with the first exec.                     *)
EnvironmentNoFakeRoot(path) ==
  [FakeRoot |-> FALSE, Warnings |-> options.Warnings,
   ForceLoad |-> options.ForceLoad, Chroot |-> options.Chroot,
   CWD |-> GetCWD, LinuxExe |-> path]
Environment(path) ==
  [FakeRoot |-> options.FakeRoot, Warnings |-> options.Warnings,
   ForceLoad |-> options.ForceLoad, Chroot |-> options.Chroot,
   CWD |-> GetCWD, LinuxExe |-> path]
Unterminated == options.FakeRoot /\ options.Warnings /\ options.ForceLoad

LinuxRuns(path) ==
  LET o == Walk(tree, linux.root, IF path.abs THEN linux.root ELSE linux.cwd,
                path.names, TRUE).obj
  IN IF RootFresh /\ options.Chroot = root /\ IsFresh(cwd, linux.cwd) /\ o \in Files
     THEN o ELSE None

ExecFile(path, f) ==
  /\ status = "running" /\ phase = "program" /\ frames = <<>>
  /\ calls < MaxCalls /\ calls' = calls + 1
  /\ ~f.looping
  /\ wd' = IF f.obj = None THEN f.wd ELSE Touch(cwd, f.wd)
  /\ got' = None
  /\ IF f.obj = None
     THEN UNCHANGED <<status, phase, env, dirfd, exe>>
     ELSE /\ \/ status' = status
             \/ Unterminated /\ status' = "exited"
          /\ phase' = "root"
          /\ env' = Environment(path)
          /\ dirfd' = None
          /\ exe' = LinuxRuns(path)
  /\ UNCHANGED <<tree, root, cwd, frames, options, linux, given>>
Exec(path) == ExecFile(path, OpenToRun(path))

(* main of the new process.  LBW_FORCELOAD is stored as Warnings.          *)
StartRoot ==
  /\ phase = "root" /\ status = "running"
  /\ options' = [FakeRoot |-> env.FakeRoot, Warnings |-> env.ForceLoad,
                 ForceLoad |-> FALSE, Chroot |-> env.Chroot]
  /\ IF DirAt(tree, env.Chroot) = None
     THEN status' = "exited" /\ UNCHANGED <<root, cwd, wd>>
     ELSE /\ status' = status
          /\ root' = env.Chroot
          /\ cwd' = [root |-> env.Chroot, names |-> <<>>]
          /\ wd' = DirAt(tree, env.Chroot)
  /\ phase' = "cwd"
  /\ UNCHANGED <<tree, dirfd, frames, got, calls, linux, env, given, exe>>

SetCWD(r, n, d) ==       (* n is the node r leads to, d its directory *)
  /\ IF r.state = "found" /\ IsMade(r.leaf, d)
     THEN status' = status /\ cwd' = n /\ wd' = IF r.leaf \in Names THEN d ELSE r.wd
     ELSE /\ status' = IF r.state = "loop" THEN "overflow" ELSE "exited"
          /\ wd' = r.wd
          /\ UNCHANGED cwd
SetCWDFrom(r) == SetCWD(r, Traverse(r.node, r.leaf), Inode(Traverse(r.node, r.leaf)))
StartCWD ==
  /\ phase = "cwd" /\ status = "running"
  /\ SetCWDFrom(ResolveFrom("none", env.CWD, TRUE, wd))
  /\ phase' = "load"
  /\ UNCHANGED <<tree, root, dirfd, frames, got, options, calls, linux, env, given, exe>>

LoadFile(f) ==
  /\ status' = CASE f.looping     -> "overflow"
                 [] ~f.looping /\ f.obj = None -> "exited"
                 [] OTHER         -> status
  /\ wd' = f.wd
  /\ got' = f.obj
Load ==
  /\ phase = "load" /\ status = "running"
  /\ LoadFile(OpenToRun(env.LinuxExe))
  /\ phase' = "program" /\ env' = NoEnv /\ exe' = None
  /\ UNCHANGED <<tree, root, cwd, dirfd, frames, options, calls, linux, given>>

ExecNext ==
  \/ Program
  \/ \E path \in ExecPaths : Exec(path)
  \/ StartRoot
  \/ StartCWD
  \/ Load

ExecSpec == ExecInit /\ [][ExecNext]_execVars

-----------------------------------------------------------------------------
(* Properties.                                                             *)

(* From a fresh working directory an exec arrives: the new process runs    *)
(* the file Linux would, in the same directory under the same root, though *)
(* both went through the environment as paths (exec.cc:70, main.cc:212).   *)
ExecArrives ==
  [][phase # "program" /\ exe # None =>
       /\ status' = "running"
       /\ phase' = "program" => /\ got' = exe
                                /\ IsFresh(cwd, linux.cwd)']_execVars

(* A program's descendants run under --fakeroot exactly if it does.        *)
FakeRootKept ==
  status = "running" /\ phase # "root" => options.FakeRoot = given.FakeRoot

(* The help text, main.cc:129: --forceload means that code is loaded, for  *)
(* every process of the family.                                            *)
ForceLoadKept ==
  status = "running" /\ phase # "root" => options.ForceLoad = given.ForceLoad
=============================================================================
