-------------------------------- MODULE Vfs --------------------------------
(***************************************************************************)
(* The virtual file system: src/src/filesystem/VFS.cc and its nodes, and   *)
(* the system calls of src/src/syscalls/file.cc and stat.cc.               *)
(*                                                                         *)
(* A process keeps its root, its working directory and the directories it  *)
(* has open as VFSNodes, and a node is only a path.  To act in a node, LBW *)
(* makes it Interix's working directory and uses a name relative to that;  *)
(* nothing else keeps Interix's working directory, so every resolution     *)
(* moves it.  The lock around this is recursive: the program's signal      *)
(* handlers run on the same thread between any two steps of a call, and    *)
(* the calls they make move it too.  A call made by a handler completes    *)
(* before the one it interrupted goes on, so the calls in progress form a  *)
(* stack of frames.                                                        *)
(*                                                                         *)
(* /dev, which RootVFSNode and its fake nodes put together, is left out,   *)
(* as are empty names and slashes at the end of a path, and so is the data *)
(* of files: what a call is about is the object it reaches.  ReadLink's    *)
(* buffer is taken to hold a zero behind the path readlink writes there.   *)
(***************************************************************************)
EXTENDS FileTree

CONSTANTS
  StartTrees,    (* what Interix's disk holds at the start                   *)
  StartRoots,    (* --chroot: real paths, as sequences of names              *)
  StartOptions,  (* --fakeroot, --warnings and --forceload                   *)
  Ops,           (* the calls the program makes                              *)
  HandlerOps,    (* those that its signal handlers make                      *)
  Paths,         (* the paths it names                                       *)
  PairPaths,     (* those it names in calls that take two                    *)
  MaxCalls,      (* bound: calls in a behaviour                              *)
  MaxDepth       (* bound: 1 + the number of handlers nested in a call       *)

ASSUME BoundsAssumption ==
  /\ MaxCalls \in Nat /\ MaxDepth \in Nat \ {0}
  /\ StartTrees \subseteq Trees
  /\ \A t \in StartTrees, r \in StartRoots : PlainDir(t, Top, r) \in Dirs

(* A path names something, if only the root.                               *)
Slash == [abs |-> TRUE, names |-> <<>>]
NoPath == [abs |-> FALSE, names |-> <<>>]
IsPath(p) == /\ p \in [abs : BOOLEAN, names : Seq(Element)]
             /\ p = Slash \/ p.names # <<>>

ASSUME CallsAssumption ==
  /\ StartRoots \subseteq Seq(Names)
  /\ StartOptions \subseteq [FakeRoot : BOOLEAN, Warnings : BOOLEAN, ForceLoad : BOOLEAN]
  /\ \A p \in Paths : IsPath(p)
  /\ PairPaths \subseteq Paths

VARIABLES
  status,   (* running, or how the process ended: "overflow" of the stack in
               a loop of links, or "exited"                                  *)
  tree,     (* Interix's directories                                         *)
  wd,       (* Interix's working directory                                   *)
  root,     (* the real path of the root node                                *)
  cwd,      (* the node of the program's working directory                   *)
  dirfd,    (* the node of the directory it opened last                      *)
  frames,   (* the calls in progress, outermost first                        *)
  got,      (* the object the last call reached                              *)
  options,  (* Options                                                       *)
  calls,    (* how many calls were made                                      *)
  linux     (* history: the root, working and open directory under Linux     *)

vars == <<status, tree, wd, root, cwd, dirfd, frames, got, options, calls, linux>>

NodeSpace == [root : Seq(Names), names : Seq(Names)]

(* The calls, by what they do with the last name of their path.            *)
(* Fault variant: the working directory is set without following links.   *)
FollowingButChdir == {"stat", "access", "chown", "open", "create", "opendir"}
Following == {"stat", "access", "chown", "open", "create", "chdir", "opendir"}
Making    == {"mkdir", "mknod", "symlink"}
TakesName == Making \cup {"rmdir", "unlink", "readlink"}
TwoPaths  == {"rename", "link"}
Opening   == {"open", "create", "opennofollow"}
Places    == {"chdir", "opendir", "chroot"}
TakesBase == Opening \cup
  {"stat", "lstat", "access", "chown", "utimes", "rmdir", "unlink", "opendir"}

-----------------------------------------------------------------------------
(* Nodes.                                                                  *)

RootNode == [root |-> root, names |-> <<>>]
GetRealPath(n) == n.root \o n.names
GetParent(n) == IF n.names = <<>> THEN n ELSE [n EXCEPT !.names = Front(@)]
GetName(n) == IF n.names = <<>> THEN "" ELSE Last(n.names)

Inode(n) == DirAt(tree, GetRealPath(n))        (* where chdir(_path) arrives *)

In(d, name) == IF d = None THEN None ELSE Entry(tree, Top, d, name)
TypeOf(o) ==
  CASE o \in Dirs  -> "directory"
    [] o \in Links -> "link"
    [] o \in Files -> "file"
    [] OTHER       -> "missing"
GetFileType(n, name) ==
  IF name \in {".", ".."} THEN "directory" ELSE TypeOf(In(Inode(n), name))

Traverse(n, name) ==
  CASE name \in {"", "."} -> n
    [] name = ".."        -> GetParent(n)
    [] OTHER              -> [n EXCEPT !.names = Append(@, name)]

(* A node for a name is made only if Interix can change to its path.       *)
IsMade(name, d) == name \in {"", ".", ".."} \/ d # None
Opens(n, name) == IsMade(name, Inode(Traverse(n, name)))

(* Where a resolution is: at a leaf of a node, and where Interix's working *)
(* directory is then.                                                      *)
Resolution(state, n, leaf, w) == [state |-> state, node |-> n, leaf |-> leaf, wd |-> w]
(* Fault variant: setup() does not look at the result of chdir.            *)
TouchUnchecked(n, w) == Inode(n)
Arrive(d, w) == IF d = None THEN w ELSE d
Touch(n, w) == Arrive(Inode(n), w)

Descend(at) ==                  (* into what a name led to *)
  IF at.state # "found" THEN at
  ELSE IF GetFileType(at.node, at.leaf) = "directory" /\ Opens(at.node, at.leaf)
  THEN Resolution("found", Traverse(at.node, at.leaf), ".",
                  IF at.leaf \in {".", ".."} THEN at.wd
                  ELSE Inode(Traverse(at.node, at.leaf)))
  ELSE [at EXCEPT !.state = "failed"]

ReadLink(n, e, target, w, links) ==      (* where link e of node n leads *)
  links[[node |-> IF target.abs THEN RootNode ELSE n, names |-> target.names, wd |-> w]]
VisitIn(in, e, follow, links) ==         (* the next name, e, of a node *)
  LET w == IF e \in {".", ".."} THEN in.wd ELSE Touch(in.node, in.wd)
  IN IF in.state # "found" THEN in
     ELSE IF GetFileType(in.node, e) # "link" \/ ~follow
          THEN Resolution("found", in.node, e, w)
     ELSE ReadLink(in.node, e, LinkPath[In(Inode(in.node), e)], w, links)
Visit(at, e, follow, links) == VisitIn(Descend(at), e, follow, links)

Visited(n, names, follow, w, links) ==   (* the loop over the names *)
  LET at[i \in 0..Len(names)] ==
        IF i = 0 THEN Resolution("found", n, ".", w)
        ELSE Visit(at[i-1], names[i], i < Len(names) \/ follow, links)
  IN at[Len(names)]

(* Links are resolved by a nested call, which nothing bounds: a loop is    *)
(* followed until the stack overflows.                                     *)
Nested ==
  LET links[k \in 0..MaxLinks] ==
        [r \in [node : NodeSpace, names : Seq(Element), wd : Dirs] |->
           IF k = 0 THEN Resolution("loop", r.node, ".", r.wd)
           ELSE Visited(r.node, r.names, TRUE, r.wd, links[k-1])]
  IN links[MaxLinks]

(* VFSNode::Resolve: the node and the leaf.                                *)
Resolve(n, names, follow, w) == Visited(n, names, follow, w, Nested)

(* VFS::Resolve.  A base is the node of a descriptor, the working directory*)
(* passed as AT_FDCWD, or "none" in calls without a descriptor.            *)
BaseNode(base) == IF base = "dirfd" THEN dirfd ELSE cwd
ResolveFrom(base, path, follow, w) ==
  IF path = Slash
  THEN Resolution("found", IF base = "none" THEN RootNode ELSE BaseNode(base), ".", w)
  ELSE Resolve(IF path.abs THEN RootNode ELSE BaseNode(base), path.names, follow, w)

-----------------------------------------------------------------------------
(* Calls.                                                                  *)

Bases(op, path) ==
  {"none"} \cup
  (IF op \in TakesBase /\ dirfd # None /\ ~path.abs THEN {"dirfd"} ELSE {}) \cup
  (IF op \in TakesBase /\ path = Slash THEN {"cwd"} ELSE {}) \cup
  (IF op = "chdir" /\ dirfd # None /\ path.names = <<".">> THEN {"dirfd"} ELSE {})

Frame == [op : Ops, base : {"none", "cwd", "dirfd"}, path : Paths, to : Paths \cup {NoPath},
          at : {"resolved", "ready", "checked", "failed"},
          node : NodeSpace, leaf : Element \cup {""},
          tonode : NodeSpace, toleaf : Element \cup {""}, disturbed : BOOLEAN]

TypeOK ==
  /\ status \in {"running", "overflow", "exited"}
  /\ tree \in Trees
  /\ wd \in Dirs
  /\ root \in Seq(Names)
  /\ cwd \in NodeSpace
  /\ dirfd \in NodeSpace \cup {None}
  /\ frames \in Seq(Frame) /\ Len(frames) <= MaxDepth
  /\ got \in Objects \cup {None}
  /\ options \in [FakeRoot : BOOLEAN, Warnings : BOOLEAN, ForceLoad : BOOLEAN,
                 Chroot : Seq(Names)]
  /\ calls \in 0 .. MaxCalls
  /\ linux \in [root : Dirs, cwd : Dirs, dirfd : Dirs \cup {None}]

call == Last(frames)

(* VFS::RmDir names a directory that is given as "." by its own name.      *)
RmDirTarget(r) ==
  IF r.state = "found" /\ r.leaf \in {".", ""}
  THEN [r EXCEPT !.leaf = GetName(r.node), !.node = GetParent(r.node)]
  ELSE r

(* The frame of a call once its paths are resolved.                        *)
Resolved(op, base, path, to, r, q) ==
  [op |-> op, base |-> base, path |-> path, to |-> to,
   at |-> IF r.state = "found" /\ q.state = "found" THEN "resolved" ELSE "failed",
   node |-> r.node, leaf |-> r.leaf, tonode |-> q.node, toleaf |-> q.leaf,
   disturbed |-> FALSE]

(* A call begins with the resolution of its paths, the results of which    *)
(* are r and q.  It disturbs the calls it was made in the middle of.       *)
Call(op, base, path, to, r, q) ==
  /\ status = "running"
  /\ calls < MaxCalls /\ calls' = calls + 1
  /\ Len(frames) < MaxDepth
  /\ wd' = q.wd
  /\ got' = None
  /\ IF "loop" \in {r.state, q.state}
     THEN status' = "overflow" /\ frames' = <<>>
     ELSE /\ status' = status
          /\ frames' = Append([i \in DOMAIN frames |-> [frames[i] EXCEPT !.disturbed = TRUE]],
                              Resolved(op, base, path, to, r, q))
  /\ UNCHANGED <<tree, root, cwd, dirfd, options, linux>>

From(op, base, path) ==
  LET r == ResolveFrom(base, path, op \in Following, wd)
  IN IF op = "rmdir" THEN RmDirTarget(r) ELSE r
To(op, to, r) ==
  IF op \in TwoPaths /\ r.state = "found" THEN ResolveFrom("none", to, FALSE, r.wd) ELSE r
CallFrom(op, base, path, to, r) == Call(op, base, path, to, r, To(op, to, r))

Begin ==
  \E op \in Ops, path \in Paths :
    \E base \in Bases(op, path), to \in IF op \in TwoPaths THEN PairPaths ELSE {NoPath} :
      /\ op \in TwoPaths => path \in PairPaths
      /\ frames # <<>> => op \in HandlerOps
      /\ CallFrom(op, base, path, to, From(op, base, path))

Goes(at, w) ==             (* the call goes on to its next step *)
  /\ frames' = Append(Front(frames), [call EXCEPT !.at = at])
  /\ wd' = w
  /\ UNCHANGED <<status, tree, root, cwd, dirfd, got, options, calls, linux>>

(* What Linux keeps of a process, when this call is over.                  *)
LinuxBase(f) ==
  IF f.path.abs THEN linux.root ELSE IF f.base = "dirfd" THEN linux.dirfd ELSE linux.cwd
LinuxFollows(op) ==
  op \notin {"lstat", "opennofollow", "rmdir", "unlink", "readlink", "rename", "link"} \cup Making
LinuxWalk(f) ==
  Walk(tree, linux.root, LinuxBase(f), f.path.names, LinuxFollows(f.op))
LinuxAfter(f) ==
  LET d == LinuxWalk(f).obj
  IN IF d \notin Dirs THEN linux
     ELSE CASE f.op = "chdir"  -> [linux EXCEPT !.cwd = d]
            [] f.op = "chroot" -> [linux EXCEPT !.root = d]
            [] f.op \in {"opendir"} \cup Opening -> [linux EXCEPT !.dirfd = d]
            [] OTHER -> linux

Returns(t, o) ==           (* the call is over *)
  /\ frames' = Front(frames)
  /\ tree' = t
  /\ got' = o
  /\ linux' = LinuxAfter(call)
  /\ UNCHANGED <<status, calls>>
Stays == UNCHANGED <<root, cwd, dirfd, options>>

(* The step before a call acts: the names it refuses, and setup(), which   *)
(* changes to the node.                                                    *)
NotNames == {"", ".", ".."}
Refused(f) ==
  \/ f.at = "failed"
  \/ f.op \in TakesName /\ f.leaf \in NotNames
  \/ f.op \in TwoPaths /\ {f.leaf, f.toleaf} \cap NotNames # {}

(* "." is there already, MkDir says; the others throw.                     *)
Refuse ==
  /\ frames # <<>> /\ call.at \in {"resolved", "failed"} /\ Refused(call)
  /\ Returns(tree, None)
  /\ UNCHANGED wd
  /\ Stays

IsOpenedDirectory(f) == f.op \in Opening /\ f.leaf \in {".", ".."}

(* Fault variant: StatFile leaves ".." to Interix, like every other name.  *)
SetupNodeOnly(f) == IF f.op = "link" THEN f.tonode ELSE f.node
(* The node to change to.  StatFile takes ".." to be "." of the parent     *)
(* node; link acts in the directory of its second path.                    *)
SetupNode(f) ==
  CASE f.op \in {"stat", "lstat"} /\ f.leaf = ".." -> GetParent(f.node)
    [] f.op = "link" -> f.tonode
    [] OTHER -> f.node
StatLeaf(f) ==
  IF f.op \in {"stat", "lstat"} /\ f.leaf = ".." THEN "." ELSE f.leaf

Setup ==
  /\ frames # <<>> /\ call.at = "resolved"
  /\ ~Refused(call) /\ call.op \notin Places /\ ~IsOpenedDirectory(call)
  /\ IF Inode(SetupNode(call)) = None
     THEN Returns(tree, None) /\ Stays /\ UNCHANGED wd
     ELSE Goes("ready", Inode(SetupNode(call)))

(* OpenFile looks at the type of the name first, which changes to the node *)
(* again, and throws EISDIR for a directory.                               *)
Check ==
  /\ frames # <<>> /\ call.at = "ready" /\ call.op \in Opening
  /\ GetFileType(call.node, call.leaf) # "directory"
  /\ Goes("checked", Touch(call.node, wd))

-----------------------------------------------------------------------------
(* Calls that make a node the process's own.                               *)

Enter(r, n, d) ==          (* n is the node r leads to, d its directory *)
  LET place == IF call.op \in Opening THEN "opendir" ELSE call.op
      made == r.state = "found" /\ IsMade(r.leaf, d)
      found == made /\ (place # "chdir" => d # None)
  IN /\ wd' = IF r.state = "found" /\ d # None
                 /\ (r.leaf \in Names \/ place = "chroot") THEN d ELSE r.wd
     /\ cwd' = IF found /\ place = "chdir" THEN n ELSE cwd
     /\ dirfd' = IF found /\ place = "opendir" THEN n ELSE dirfd
     /\ root' = IF found /\ place = "chroot" THEN GetRealPath(n) ELSE root
     /\ options' = IF made /\ place = "chroot"
                   THEN [options EXCEPT !.Chroot = GetRealPath(n)] ELSE options
     /\ Returns(tree, IF found THEN d ELSE None)
EnterFrom(r) == Enter(r, Traverse(r.node, r.leaf), Inode(Traverse(r.node, r.leaf)))

(* chdir, fchdir, chroot, and open of a directory.                         *)
EnterPlace ==
  /\ frames # <<>> /\ call.at = "resolved" /\ call.op \in Places
  /\ EnterFrom(Resolution("found", call.node, call.leaf, wd))

(* OpenFile threw EISDIR: do_open resolves the path again and opens it as  *)
(* a directory.                                                            *)
Reopen(r) == r.state # "loop" /\ EnterFrom(r)
OpenAgain ==
  /\ frames # <<>> /\ call.op \in Opening
  /\ \/ call.at = "resolved" /\ IsOpenedDirectory(call)
     \/ call.at = "ready" /\ GetFileType(call.node, call.leaf) = "directory"
  /\ Reopen(ResolveFrom(call.base, call.path, call.op \in Following, wd))

-----------------------------------------------------------------------------
(* Calls that act on a name relative to Interix's working directory.       *)

Held == {wd} \cup {linux.root, linux.cwd, linux.dirfd}
NewObject(op, t) ==
  CASE op = "mkdir"   -> Unused(t, Dirs, Held)
    [] op = "symlink" -> Unused(t, Links, {})
    [] OTHER          -> Unused(t, Files, {})

(* A call, once names are resolved: x is what its path leads to, y what    *)
(* the second one does.  Interix and Linux agree on this.                  *)
EffectTree(op, x, y) ==
  CASE op \in Making  -> Add(tree, x.dir, x.name, NewObject(op, tree))
    [] op = "create" /\ x.obj = None -> Add(tree, x.dir, x.name, NewObject(op, tree))
    [] op = "rmdir"   -> RemoveDir(tree, x.dir, x.name)
    [] op = "unlink"  -> RemoveName(tree, x.dir, x.name)
    [] op = "rename"  -> Move(tree, x.dir, x.name, y.dir, y.name)
    [] op = "link"    -> HardLink(tree, y.dir, y.name, x.dir, x.name)
    [] OTHER -> tree
EffectGot(op, x) ==
  CASE op = "readlink" -> IF x.obj \in Links THEN x.obj ELSE None
    [] op = "create" /\ x.obj = None -> IF EffectTree(op, x, x) # tree
                                        THEN NewObject(op, tree) ELSE None
    [] op = "create" /\ x.obj \in Dirs -> None
    [] op \in TwoPaths \cup Making \cup {"rmdir", "unlink"} -> None
    [] OTHER -> x.obj

(* What the names are for Interix.  rename and link give one of theirs as  *)
(* an absolute path.  chmod and its like leave links to Interix.           *)
InterixFollows(op) == op \in {"access", "chown", "utimes"} \cup Opening
Reached(f) ==
  IF f.op = "link"
  THEN [dir |-> Inode(f.node), name |-> f.leaf, obj |-> None]
  ELSE Walk(tree, Top, wd, <<StatLeaf(f)>>, InterixFollows(f.op))
ReachedTo(f) ==
  CASE f.op = "link"   -> [dir |-> wd, name |-> f.toleaf, obj |-> None]
    [] f.op = "rename" -> [dir |-> Inode(f.tonode), name |-> f.toleaf, obj |-> None]
    [] OTHER -> NotFound

(* In fakeroot mode chown does nothing more.                               *)
Act ==
  /\ frames # <<>>
  /\ call.at = IF call.op \in Opening THEN "checked" ELSE "ready"
  /\ Returns(EffectTree(call.op, Reached(call), ReachedTo(call)),
             IF call.op = "chown" /\ options.FakeRoot THEN None
             ELSE EffectGot(call.op, Reached(call)))
  /\ UNCHANGED wd
  /\ Stays

-----------------------------------------------------------------------------
(* The first process of a family: SetRoot, then the working directory.     *)
(* ArgumentParser does not initialise ForceLoad.                           *)
Init ==
  \E r \in StartRoots, o \in StartOptions :
    /\ status = "running"
    /\ tree \in StartTrees
    /\ wd = PlainDir(tree, Top, r)
    /\ root = r
    /\ cwd = [root |-> r, names |-> <<>>]
    /\ dirfd = None
    /\ frames = <<>>
    /\ got = None
    /\ options \in [FakeRoot : {o.FakeRoot}, Warnings : {o.Warnings},
                    ForceLoad : IF o.ForceLoad THEN {TRUE} ELSE BOOLEAN, Chroot : {r}]
    /\ calls = 0
    /\ linux = [root |-> PlainDir(tree, Top, r), cwd |-> PlainDir(tree, Top, r), dirfd |-> None]

Next ==
  \/ Begin
  \/ Refuse
  \/ Setup
  \/ Check
  \/ EnterPlace
  \/ OpenAgain
  \/ Act

Spec == Init /\ [][Next]_vars

-----------------------------------------------------------------------------
(* Properties.                                                             *)

(* A node is fresh when its path, from the present root, still leads to    *)
(* the directory Linux would have kept, with no link on the way.           *)
RootFresh == DirAt(tree, root) = linux.root
IsFresh(n, d) ==
  IF n = None THEN d = None
  ELSE /\ RootFresh
       /\ n.root = root
       /\ PlainDir(tree, linux.root, n.names) = d
BaseFresh(f) ==
  RootFresh /\ (f.path.abs \/ IsFresh(BaseNode(f.base), LinuxBase(f)))

(* What Linux does otherwise, knowingly or not, whatever came before:      *)
(* "/" next to a descriptor names that directory (VFS.cc:69); rmdir takes  *)
(* "." (VFS.cc:181); O_CREAT opens a directory (fd.cc:51); and under a     *)
(* chroot a leaf that Interix resolves by itself sees Interix's root.      *)
Differs(f) ==
  \/ f.path = Slash /\ f.base # "none"
  \/ f.op = "rmdir" /\ f.path.names # <<>> /\ Last(f.path.names) = "."
  \/ f.op = "create" /\ LinuxWalk(f).obj \in Dirs
  \/ /\ root # <<>>
     /\ \/ f.op = "utimes"
        \/ f.op \in {"access", "chown"} /\ f.leaf = ".."
        \/ f.op = "chroot" /\ GetFileType(f.node, f.leaf) = "link"

Completes(f) == frames # <<>> /\ f = call /\ frames' = Front(frames) /\ status' = "running"

LinuxTo(f) ==
  IF f.op \in TwoPaths
  THEN Walk(tree, linux.root, IF f.to.abs THEN linux.root ELSE linux.cwd, f.to.names, FALSE)
  ELSE NotFound

(* A call whose base directory is still where its path says, and which no  *)
(* handler disturbed, reaches and changes what Linux would, through links, *)
(* "..", chroot and descriptors (VFSNode::Resolve, the setup() of every    *)
(* call, the absolute second paths of rename and link).                    *)
CallsAsLinux ==
  [][\A f \in Range(frames) :
       /\ Completes(f) /\ f.op \notin Places
       /\ ~f.disturbed /\ BaseFresh(f)
       /\ f.op \in TwoPaths => IsFresh(cwd, linux.cwd)
       /\ ~Differs(f)
       => /\ tree' = EffectTree(f.op, LinuxWalk(f), LinuxTo(f))
          /\ got' = IF f.op = "chown" /\ options.FakeRoot THEN None
                    ELSE EffectGot(f.op, LinuxWalk(f))]_vars

(* A call that changes the root, the working directory or the open         *)
(* directory from a fresh base leaves all of them where Linux has them, by *)
(* paths without links: ".." from there is the parent Linux would find.    *)
PlacesAsLinux ==
  [][\A f \in Range(frames) :
       /\ Completes(f)
       /\ ~f.disturbed /\ BaseFresh(f) /\ ~Differs(f)
       /\ IsFresh(cwd, linux.cwd) /\ IsFresh(dirfd, linux.dirfd)
       => IF f.op = "chroot" THEN RootFresh'
          ELSE tree' = tree => /\ IsFresh(cwd, linux.cwd)'
                               /\ IsFresh(dirfd, linux.dirfd)']_vars
=============================================================================
