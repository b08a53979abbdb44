----------------------------- MODULE ExecProofs -----------------------------
(***************************************************************************)
(* Proofs about Vfs and Exec, for every disk, path, bound and interleaving *)
(* with signal handlers: resolutions and nodes are well formed, and what a *)
(* process hands over an exec keeps its type; --fakeroot is handed on.     *)
(***************************************************************************)
EXTENDS Exec, FileTreeProofs

(* All but the last element of a sequence.                                 *)
LEMMA FrontLast ==
  ASSUME NEW S, NEW s \in Seq(S), s # <<>>
  PROVE  Front(s) \in Seq(S) /\ Last(s) \in S
  BY DEF Front, Last

LEMMA NoNames ==
  ASSUME NEW S
  PROVE  <<>> \in Seq(S)
  OBVIOUS

(***************************************************************************)
(* Resolution.                                                             *)
(***************************************************************************)
At == [state : {"found", "failed", "loop"}, node : NodeSpace, leaf : Element, wd : Dirs]
Turn == [node : NodeSpace, names : Seq(Element), wd : Dirs]

(* What the VFS keeps of the process is well formed.                       *)
Grounded == tree \in Trees /\ root \in Seq(Names)

(* The node's directory, if Interix finds one.                             *)
LEMMA InodeType ==
  ASSUME NEW n
  PROVE  Inode(n) \in Dirs \cup {None}
  BY DirAtType DEF Inode

(* chdir that fails leaves the working directory alone.                    *)
LEMMA TouchType ==
  ASSUME NEW n, NEW w \in Dirs
  PROVE  Touch(n, w) \in Dirs
  BY InodeType DEF Touch, Arrive

(* What a name is in a node's directory.                                   *)
LEMMA InType ==
  ASSUME Grounded, NEW d \in Dirs \cup {None}, NEW name
  PROVE  In(d, name) \in Objects \cup {None}
  BY EntryType DEF In, Grounded

(* The node of a name in a node.                                           *)
LEMMA BelowType ==
  ASSUME NEW n \in NodeSpace, NEW name \in Names
  PROVE  [n EXCEPT !.names = Append(@, name)] \in NodeSpace
<1>1. Append(n.names, name) \in Seq(Names)
  <2>1. n.names \in Seq(Names)
    BY DEF NodeSpace
  <2>2. QED
    BY <2>1
<1>2. QED
  BY <1>1 DEF NodeSpace

(* A node made for an element of a path is a node.                         *)
LEMMA TraverseType ==
  ASSUME NEW n \in NodeSpace, NEW name \in Element \cup {""}
  PROVE  Traverse(n, name) \in NodeSpace
<1>1. name \in {"", "."} => Traverse(n, name) = n
  BY NamesAssumption DEF Traverse
<1>2. name = ".." => Traverse(n, name) \in NodeSpace
  <2>1. name = ".." => Traverse(n, name) = GetParent(n)
    BY NamesAssumption DEF Traverse
  <2>2. n.names # <<>> => Front(n.names) \in Seq(Names)
    BY FrontLast DEF NodeSpace
  <2>3. GetParent(n) \in NodeSpace
    BY <2>2 DEF GetParent, NodeSpace
  <2>4. QED
    BY <2>1, <2>3
<1>3. name \in Names => Traverse(n, name) \in NodeSpace
  <2>1. name \in Names => Traverse(n, name) = [n EXCEPT !.names = Append(@, name)]
    BY NamesAssumption DEF Traverse
  <2>2. QED
    BY <2>1, BelowType
<1>4. QED
  BY <1>1, <1>2, <1>3 DEF Element

(* A name that is a link is one of the disk's symbolic links.              *)
LEMMA LinkFound ==
  ASSUME Grounded, NEW n, NEW e, GetFileType(n, e) = "link"
  PROVE  In(Inode(n), e) \in Links
  BY DEF GetFileType, TypeOf

(* Going into a directory: its node, from which Interix's working          *)
(* directory is the directory.                                             *)
LEMMA DescendType ==
  ASSUME Grounded, NEW at \in At
  PROVE  Descend(at) \in At
<1> DEFINE n == Traverse(at.node, at.leaf)
<1>1. /\ at.node \in NodeSpace /\ at.leaf \in Element /\ at.wd \in Dirs
      /\ at.state \in {"found", "failed", "loop"}
  BY DEF At
<1>2. n \in NodeSpace
  BY <1>1, TraverseType
<1>3. Opens(at.node, at.leaf) /\ at.leaf \notin {".", ".."} => Inode(n) \in Dirs
  BY <1>1, InodeType, NamesAssumption DEF Opens, IsMade, Element
<1>4. "." \in Element
  BY DEF Element
<1>5. [at EXCEPT !.state = "failed"] \in At
  BY DEF At
<1>6. ASSUME NEW w \in Dirs PROVE Resolution("found", n, ".", w) \in At
  BY <1>2, <1>4 DEF Resolution, At
<1>7. QED
  BY <1>1, <1>3, <1>5, <1>6 DEF Descend

(* One element of a path.                                                  *)
LEMMA VisitType ==
  ASSUME Grounded, NEW at \in At, NEW e \in Element, NEW follow \in BOOLEAN,
         NEW links \in [Turn -> At]
  PROVE  Visit(at, e, follow, links) \in At
<1> DEFINE in == Descend(at)
           w == IF e \in {".", ".."} THEN in.wd ELSE Touch(in.node, in.wd)
           target == LinkPath[In(Inode(in.node), e)]
<1>1. in \in At
  BY DescendType
<1>2. in.node \in NodeSpace /\ in.wd \in Dirs
  BY <1>1 DEF At
<1>3. w \in Dirs
  BY <1>2, TouchType
<1>4. Resolution("found", in.node, e, w) \in At
  BY <1>2, <1>3 DEF Resolution, At
<1>5. ASSUME GetFileType(in.node, e) = "link"
      PROVE  ReadLink(in.node, e, target, w, links) \in At
  <2>1. target \in [abs : BOOLEAN, names : Seq(Element)]
    BY <1>5, LinkFound, NamesAssumption DEF Element
  <2>2. RootNode \in NodeSpace
    BY DEF RootNode, NodeSpace, Grounded
  <2> HIDE DEF target, w, in
  <2>3. [node |-> IF target.abs THEN RootNode ELSE in.node,
         names |-> target.names, wd |-> w] \in Turn
    BY <1>2, <1>3, <2>1, <2>2 DEF Turn
  <2>4. QED
    BY <2>3 DEF ReadLink
<1> HIDE DEF target, w
<1>6. QED
  BY <1>1, <1>4, <1>5 DEF Visit, VisitIn, w, target

(* A path's elements, one by one.                                          *)
LEMMA VisitedType ==
  ASSUME Grounded, NEW n \in NodeSpace, NEW names \in Seq(Element),
         NEW follow \in BOOLEAN, NEW w \in Dirs,
         NEW links \in [Turn -> At]
  PROVE  Visited(n, names, follow, w, links) \in At
<1> DEFINE Fol(i) == i < Len(names) \/ follow
           at[i \in 0..Len(names)] ==
             IF i = 0 THEN Resolution("found", n, ".", w)
             ELSE Visit(at[i-1], names[i], i < Len(names) \/ follow, links)
           F == [i \in 1..Len(names) |-> [a \in At |-> Visit(a, names[i], Fol(i), links)]]
           x == Resolution("found", n, ".", w)
<1>1. Len(names) \in Nat /\ \A i \in 1..Len(names) : names[i] \in Element
  OBVIOUS
<1>2. x \in At
  BY DEF Resolution, At, Element
<1>3. \A i \in 1..Len(names), a \in At : Visit(a, names[i], Fol(i), links) \in At
  <2>1. \A i \in 1..Len(names) : Fol(i) \in BOOLEAN
    OBVIOUS
  <2> HIDE DEF Fol
  <2>2. QED
    BY <1>1, <2>1, VisitType
<1>4. F \in [1..Len(names) -> [At -> At]]
  BY <1>3
<1>5. PICK h : IsLoop(h, Len(names), At, x, F)
  <2> DEFINE L == Len(names)
  <2>1. L \in Nat /\ F \in [1..L -> [At -> At]]
    BY <1>1, <1>4
  <2> HIDE DEF F, L, at, x
  <2>2. \E h : IsLoop(h, L, At, x, F)
    BY <1>2, <2>1, LoopDefined
  <2>3. QED
    BY <2>2 DEF L
<1>6. h = [i \in 0..Len(names) |->
             IF i = 0 THEN x ELSE Visit(h[i-1], names[i], Fol(i), links)]
  <2>1. /\ h \in [0..Len(names) -> At]
        /\ \A i \in 0..Len(names) : h[i] = IF i = 0 THEN x ELSE F[i][h[i-1]]
    BY <1>5 DEF IsLoop
  <2>2. ASSUME NEW i \in 0..Len(names)
        PROVE  h[i] = IF i = 0 THEN x ELSE Visit(h[i-1], names[i], Fol(i), links)
    <3>1. i # 0 => i \in 1..Len(names) /\ h[i-1] \in At
      <4>1. i # 0 => i \in 1..Len(names) /\ i-1 \in 0..Len(names)
        BY <1>1
      <4>2. QED
        BY <2>1, <4>1
    <3>2. h[i] = IF i = 0 THEN x ELSE F[i][h[i-1]]
      BY <2>1
    <3>3. QED
      BY <3>1, <3>2
  <2> HIDE DEF F, at, x
  <2>3. QED
    BY <2>1, <2>2
<1>7. at = [i \in 0..Len(names) |->
              IF i = 0 THEN x ELSE Visit(at[i-1], names[i], Fol(i), links)]
  <2> HIDE DEF F
  <2>1. QED
    BY <1>6
<1>8. Visited(n, names, follow, w, links) = at[Len(names)]
  BY DEF Visited
<1> HIDE DEF at, F, x
<1>9. at[0] = x /\ \A i \in 1..Len(names) : at[i] = Visit(at[i-1], names[i], Fol(i), links)
  BY <1>1, <1>7
<1>10. at[Len(names)] \in At
  <2> DEFINE L == Len(names)
  <2>1. L \in Nat /\ at[0] \in At
    BY <1>1, <1>2, <1>9
  <2>2. \A i \in 1..L : at[i-1] \in At => at[i] \in At
    BY <1>3, <1>9
  <2> HIDE DEF L
  <2>3. \A i \in 0..L : at[i] \in At
    BY <2>1, <2>2, LoopStays
  <2>4. at[L] \in At
    BY <2>1, <2>3
  <2>5. QED
    BY <2>4 DEF L
<1>11. QED
  BY <1>8, <1>10

(* Links within links, followed up to any depth.                           *)
LEMMA NestedType ==
  ASSUME Grounded
  PROVE  Nested \in [Turn -> At]
<1> DEFINE Step(links) == [r \in Turn |-> Visited(r.node, r.names, TRUE, r.wd, links)]
           loop == [r \in Turn |-> Resolution("loop", r.node, ".", r.wd)]
           at[k \in 0..MaxLinks] ==
             [r \in [node : NodeSpace, names : Seq(Element), wd : Dirs] |->
                IF k = 0 THEN Resolution("loop", r.node, ".", r.wd)
                ELSE Visited(r.node, r.names, TRUE, r.wd, at[k-1])]
           S == [Turn -> At]
           F == [k \in 1..MaxLinks |-> [links \in S |-> Step(links)]]
<1>1. MaxLinks \in Nat /\ loop \in S
  BY ObjectsAssumption DEF Resolution, At, Turn, Element
<1>2. \A links \in S : Step(links) \in S
  BY VisitedType DEF Turn
<1>3. F \in [1..MaxLinks -> [S -> S]]
  BY <1>2
<1>4. PICK h : IsLoop(h, MaxLinks, S, loop, F)
  <2>1. loop \in S /\ MaxLinks \in Nat /\ F \in [1..MaxLinks -> [S -> S]]
    BY <1>1, <1>3
  <2> HIDE DEF loop, S, F, at, Step
  <2>2. QED
    BY <2>1, LoopDefined
<1>5. ASSUME NEW k \in 0..MaxLinks
      PROVE  h[k] = [r \in Turn |-> IF k = 0 THEN Resolution("loop", r.node, ".", r.wd)
                                    ELSE Visited(r.node, r.names, TRUE, r.wd, h[k-1])]
  <2>1. /\ h \in [0..MaxLinks -> S]
        /\ h[k] = IF k = 0 THEN loop ELSE F[k][h[k-1]]
    BY <1>4 DEF IsLoop
  <2>2. CASE k = 0
    BY <2>1, <2>2
  <2>3. CASE k # 0
    <3>1. k \in 1..MaxLinks /\ k - 1 \in 0..MaxLinks
      BY <1>1, <2>3
    <3>2. h[k-1] \in S
      BY <2>1, <3>1
    <3>3. F[k][h[k-1]] = Step(h[k-1])
      BY <3>1, <3>2
    <3>4. QED
      BY <2>1, <2>3, <3>3
  <2>4. QED
    BY <2>2, <2>3
<1>6. h = [k \in 0..MaxLinks |->
             [r \in Turn |-> IF k = 0 THEN Resolution("loop", r.node, ".", r.wd)
                             ELSE Visited(r.node, r.names, TRUE, r.wd, h[k-1])]]
  <2>1. h \in [0..MaxLinks -> S]
    BY <1>4 DEF IsLoop
  <2> HIDE DEF S, F, at, Step, loop
  <2>2. QED
    BY <1>5, <2>1
<1>7. at = [k \in 0..MaxLinks |->
              [r \in Turn |-> IF k = 0 THEN Resolution("loop", r.node, ".", r.wd)
                              ELSE Visited(r.node, r.names, TRUE, r.wd, at[k-1])]]
  <2> HIDE DEF F, S, loop, Step
  <2>1. QED
    BY <1>6 DEF Turn
<1>8. Nested = at[MaxLinks]
  BY DEF Nested
<1> HIDE DEF at, F
<1>9. at[0] = loop
  BY <1>1, <1>7
<1>10. ASSUME NEW k \in 1..MaxLinks PROVE at[k] = Step(at[k-1])
  <2>1. k \in 0..MaxLinks /\ k # 0
    BY <1>1
  <2>2. at[k] = [r \in Turn |-> IF k = 0 THEN Resolution("loop", r.node, ".", r.wd)
                                ELSE Visited(r.node, r.names, TRUE, r.wd, at[k-1])]
    BY <1>7, <2>1
  <2>3. QED
    BY <2>1, <2>2
<1>11. at[MaxLinks] \in S
  <2> HIDE DEF S, Step, loop
  <2>1. QED
    BY <1>1, <1>2, <1>9, <1>10, LoopStays
<1>12. QED
  BY <1>8, <1>11

(* VFSNode::Resolve ends at an element of a node, in a directory.          *)
LEMMA ResolveType ==
  ASSUME Grounded, NEW n \in NodeSpace, NEW names \in Seq(Element),
         NEW follow \in BOOLEAN, NEW w \in Dirs
  PROVE  Resolve(n, names, follow, w) \in At
  BY NestedType, VisitedType DEF Resolve

(* VFS::Resolve, from a node that is there.                                *)
LEMMA ResolveFromType ==
  ASSUME Grounded, NEW base \in {"none", "cwd", "dirfd"}, NEW path, IsPath(path),
         cwd \in NodeSpace, base = "dirfd" => dirfd \in NodeSpace,
         NEW follow \in BOOLEAN, NEW w \in Dirs
  PROVE  ResolveFrom(base, path, follow, w) \in At
<1>1. RootNode \in NodeSpace /\ BaseNode(base) \in NodeSpace
  BY DEF RootNode, BaseNode, NodeSpace, Grounded
<1>2. path \in [abs : BOOLEAN, names : Seq(Element)] /\ (path = Slash \/ path.names # <<>>)
  BY DEF IsPath
<1>3. CASE path = Slash
  BY <1>1, <1>3 DEF ResolveFrom, Resolution, At, Element
<1>4. CASE path # Slash
  <2> DEFINE n == IF path.abs THEN RootNode ELSE BaseNode(base)
  <2>1. n \in NodeSpace /\ path.names \in Seq(Element) /\ path.names # <<>>
    BY <1>1, <1>2, <1>4
  <2> HIDE DEF n
  <2>2. Resolve(n, path.names, follow, w) \in At
    BY <2>1, ResolveType
  <2>3. QED
    BY <1>4, <2>2 DEF ResolveFrom, n
<1>5. QED
  BY <1>3, <1>4
-----------------------------------------------------------------------------
(***************************************************************************)
(* The calls.                                                              *)
(***************************************************************************)

(* A call in progress that was given a descriptor still has a node for it: *)
(* calls replace the open directory, and only an exec forgets it.          *)
OpenBases == \A i \in DOMAIN frames : frames[i].base = "dirfd" => dirfd \in NodeSpace

VfsInv == TypeOK /\ OpenBases

(* Where a call's path led, the name rmdir puts for "." included.          *)
Reach == [state : {"found", "failed", "loop"}, node : NodeSpace,
          leaf : Element \cup {""}, wd : Dirs]

LEMMA AtReach == At \subseteq Reach
  BY DEF At, Reach

LEMMA TypeGrounded ==
  ASSUME TypeOK
  PROVE  Grounded
  BY DEF TypeOK, Grounded

LEMMA GetParentType ==
  ASSUME NEW n \in NodeSpace
  PROVE  GetParent(n) \in NodeSpace /\ GetName(n) \in Element \cup {""}
<1>1. n.names # <<>> => Front(n.names) \in Seq(Names) /\ Last(n.names) \in Names
  BY FrontLast DEF NodeSpace
<1>2. QED
  BY <1>1 DEF GetParent, GetName, NodeSpace, Element

LEMMA RmDirTargetType ==
  ASSUME NEW r \in At
  PROVE  RmDirTarget(r) \in Reach
<1>1. GetParent(r.node) \in NodeSpace /\ GetName(r.node) \in Element \cup {""}
  BY GetParentType DEF At
<1>2. [r EXCEPT !.leaf = GetName(r.node), !.node = GetParent(r.node)] \in Reach
  BY <1>1 DEF At, Reach
<1>3. QED
  BY <1>2, AtReach DEF RmDirTarget

(* The bases a call may have; a descriptor only when one is open.          *)
LEMMA BasesType ==
  ASSUME TypeOK, NEW op, NEW path, NEW base \in Bases(op, path)
  PROVE  base \in {"none", "cwd", "dirfd"} /\ (base = "dirfd" => dirfd \in NodeSpace)
  BY DEF Bases, TypeOK

LEMMA FromType ==
  ASSUME TypeOK, NEW op, NEW path \in Paths, NEW base \in Bases(op, path)
  PROVE  From(op, base, path) \in Reach
<1>1. Grounded /\ cwd \in NodeSpace /\ wd \in Dirs
  BY TypeGrounded DEF TypeOK
<1>2. IsPath(path)
  BY CallsAssumption
<1>3. base \in {"none", "cwd", "dirfd"} /\ (base = "dirfd" => dirfd \in NodeSpace)
  BY BasesType
<1>4. ResolveFrom(base, path, op \in Following, wd) \in At
  <2>1. (op \in Following) \in BOOLEAN
    OBVIOUS
  <2>2. QED
    BY <1>1, <1>2, <1>3, <2>1, ResolveFromType
<1>5. QED
  BY <1>4, AtReach, RmDirTargetType DEF From

LEMMA ToType ==
  ASSUME TypeOK, NEW op, NEW to \in Paths \cup {NoPath}, NEW r \in Reach,
         op \in TwoPaths => to \in Paths
  PROVE  To(op, to, r) \in Reach
<1>1. Grounded /\ cwd \in NodeSpace /\ r.wd \in Dirs
  BY TypeGrounded DEF TypeOK, Reach
<1>2. ASSUME op \in TwoPaths PROVE ResolveFrom("none", to, FALSE, r.wd) \in At
  <2>1. IsPath(to)
    BY <1>2, CallsAssumption
  <2>2. QED
    BY <1>1, <2>1, ResolveFromType
<1>3. QED
  BY <1>2, AtReach DEF To

LEMMA FrameType ==
  ASSUME NEW op \in Ops, NEW base \in {"none", "cwd", "dirfd"}, NEW path \in Paths,
         NEW to \in Paths \cup {NoPath}, NEW r \in Reach, NEW q \in Reach
  PROVE  Resolved(op, base, path, to, r, q) \in Frame
  BY DEF Resolved, Frame, Reach

(* A call begins.                                                          *)
LEMMA CallKeeps ==
  ASSUME VfsInv, NEW op \in Ops, NEW base \in {"none", "cwd", "dirfd"},
         base = "dirfd" => dirfd \in NodeSpace,
         NEW path \in Paths, NEW to \in Paths \cup {NoPath},
         NEW r \in Reach, NEW q \in Reach, Call(op, base, path, to, r, q)
  PROVE  VfsInv'
<1> DEFINE old == [i \in DOMAIN frames |-> [frames[i] EXCEPT !.disturbed = TRUE]]
           new == Resolved(op, base, path, to, r, q)
<1>1. frames \in Seq(Frame) /\ Len(frames) \in Nat /\ Len(frames) < MaxDepth /\ MaxDepth \in Nat
  BY BoundsAssumption DEF VfsInv, TypeOK, Call
<1>2. old \in Seq(Frame) /\ Len(old) = Len(frames) /\ DOMAIN old = DOMAIN frames
  <2>1. \A i \in 1..Len(frames) : [frames[i] EXCEPT !.disturbed = TRUE] \in Frame
    <3>1. \A i \in 1..Len(frames) : frames[i] \in Frame
      BY <1>1
    <3>2. QED
      BY <3>1 DEF Frame
  <2>2. DOMAIN frames = 1..Len(frames)
    BY <1>1
  <2>3. old \in [1..Len(frames) -> Frame]
    BY <2>1, <2>2
  <2> HIDE DEF old
  <2>4. QED
    BY <1>1, <2>2, <2>3
<1>3. new \in Frame /\ new.base = base
  BY FrameType DEF Resolved
<1>4. \A i \in DOMAIN old : old[i].base = frames[i].base
  <2>1. \A i \in DOMAIN frames : frames[i] \in Frame
    BY <1>1
  <2>2. QED
    BY <2>1 DEF Frame
<1>5. /\ Append(old, new) \in Seq(Frame)
      /\ Len(Append(old, new)) <= MaxDepth
      /\ \A i \in DOMAIN Append(old, new) :
           Append(old, new)[i].base = "dirfd" => dirfd \in NodeSpace
  <2> HIDE DEF old, new
  <2>1. Append(old, new) \in Seq(Frame) /\ Len(Append(old, new)) <= MaxDepth
    BY <1>1, <1>2, <1>3
  <2>2. ASSUME NEW i \in DOMAIN Append(old, new), Append(old, new)[i].base = "dirfd"
        PROVE  dirfd \in NodeSpace
    <3>1. CASE i \in DOMAIN old
      BY <1>2, <1>4, <2>2, <3>1 DEF VfsInv, OpenBases
    <3>2. CASE i \notin DOMAIN old
      BY <1>2, <1>3, <2>2, <3>2
    <3>3. QED
      BY <3>1, <3>2
  <2>3. QED
    BY <2>1, <2>2
<1>6. frames' = <<>> \/ frames' = Append(old, new)
  BY DEF Call
<1>7. frames' \in Seq(Frame) /\ Len(frames') <= MaxDepth
  <2> HIDE DEF old, new
  <2>1. CASE frames' = <<>>
    <3>1. <<>> \in Seq(Frame) /\ Len(<<>>) = 0 /\ 0 <= MaxDepth
      BY <1>1
    <3>2. QED
      BY <2>1, <3>1
  <2>2. CASE frames' = Append(old, new)
    BY <1>5, <2>2
  <2>3. QED
    BY <1>6, <2>1, <2>2
<1>8. OpenBases'
  <2>1. dirfd' = dirfd
    BY DEF Call
  <2> HIDE DEF old, new
  <2>2. QED
    BY <1>5, <1>6, <2>1 DEF OpenBases
<1>9. status' \in {"running", "overflow", "exited"} /\ calls' \in 0..MaxCalls
  BY BoundsAssumption DEF Call, VfsInv, TypeOK
<1>10. wd' \in Dirs /\ got' \in Objects \cup {None}
  BY DEF Call, Reach
<1>11. /\ tree' \in Trees /\ root' \in Seq(Names) /\ cwd' \in NodeSpace
       /\ dirfd' \in NodeSpace \cup {None}
       /\ options' \in [FakeRoot : BOOLEAN, Warnings : BOOLEAN, ForceLoad : BOOLEAN,
                        Chroot : Seq(Names)]
       /\ linux' \in [root : Dirs, cwd : Dirs, dirfd : Dirs \cup {None}]
  BY DEF Call, VfsInv, TypeOK
<1>12. QED
  BY <1>7, <1>8, <1>9, <1>10, <1>11 DEF VfsInv, TypeOK

LEMMA BeginKeeps ==
  ASSUME VfsInv, Begin
  PROVE  VfsInv'
<1>1. PICK op \in Ops, path \in Paths :
        \E base \in Bases(op, path), to \in IF op \in TwoPaths THEN PairPaths ELSE {NoPath} :
          CallFrom(op, base, path, to, From(op, base, path))
  BY DEF Begin
<1>2. PICK base \in Bases(op, path), to \in IF op \in TwoPaths THEN PairPaths ELSE {NoPath} :
        CallFrom(op, base, path, to, From(op, base, path))
  BY <1>1
<1> DEFINE r == From(op, base, path)
<1>3. to \in Paths \cup {NoPath} /\ (op \in TwoPaths => to \in Paths)
  BY CallsAssumption
<1>4. r \in Reach
  BY FromType DEF VfsInv
<1>5. To(op, to, r) \in Reach
  <2> HIDE DEF r
  <2>1. QED
    BY <1>3, <1>4, ToType DEF VfsInv
<1>6. base \in {"none", "cwd", "dirfd"} /\ (base = "dirfd" => dirfd \in NodeSpace)
  BY BasesType DEF VfsInv
<1>7. Call(op, base, path, to, r, To(op, to, r))
  BY <1>2 DEF CallFrom
<1> HIDE DEF r
<1>8. QED
  BY <1>3, <1>4, <1>5, <1>6, <1>7, CallKeeps

(* Leaving out the last element changes nothing else.                      *)
LEMMA FrontKeeps ==
  ASSUME NEW S, NEW s \in Seq(S), Len(s) # 0
  PROVE  /\ Len(Front(s)) = Len(s) - 1
         /\ \A i \in DOMAIN Front(s) : i \in DOMAIN s /\ Front(s)[i] = s[i]
<1>1. Front(s) = SubSeq(s, 1, Len(s) - 1) /\ Len(s) \in Nat
  BY DEF Front
<1>2. ASSUME NEW i \in 1..Len(s) - 1 PROVE i \in DOMAIN s /\ Front(s)[i] = s[i]
  BY <1>1
<1>3. DOMAIN Front(s) = 1..Len(s) - 1
  BY <1>1
<1>4. Len(Front(s)) = Len(s) - 1
  <2>1. Front(s) \in Seq(S) /\ Len(s) - 1 \in Nat
    BY <1>1, FrontLast
  <2>2. QED
    BY <1>3, <2>1
<1>5. QED
  BY <1>2, <1>3, <1>4

(* The innermost call in progress, and those it was made in the middle of. *)
LEMMA CallType ==
  ASSUME VfsInv, frames # <<>>
  PROVE  /\ call \in Frame
         /\ Front(frames) \in Seq(Frame)
         /\ Len(Front(frames)) = Len(frames) - 1
         /\ \A i \in DOMAIN Front(frames) : i \in DOMAIN frames /\ Front(frames)[i] = frames[i]
         /\ call.base = "dirfd" => dirfd \in NodeSpace
<1>1. frames \in Seq(Frame) /\ Len(frames) \in Nat \ {0}
  BY DEF VfsInv, TypeOK
<1>2. call \in Frame /\ Front(frames) \in Seq(Frame)
  BY <1>1, FrontLast DEF call
<1>3. /\ Len(Front(frames)) = Len(frames) - 1
      /\ \A i \in DOMAIN Front(frames) : i \in DOMAIN frames /\ Front(frames)[i] = frames[i]
  BY <1>1, FrontKeeps
<1>4. call = frames[Len(frames)] /\ Len(frames) \in DOMAIN frames
  BY <1>1 DEF call, Last
<1>5. QED
  BY <1>2, <1>3, <1>4 DEF VfsInv, OpenBases

LEMMA LinuxAfterType ==
  ASSUME VfsInv, NEW f
  PROVE  LinuxAfter(f) \in [root : Dirs, cwd : Dirs, dirfd : Dirs \cup {None}]
<1>1. linux \in [root : Dirs, cwd : Dirs, dirfd : Dirs \cup {None}]
  BY DEF VfsInv, TypeOK
<1> DEFINE d == LinuxWalk(f).obj
<1>2. d \in Dirs =>
        /\ [linux EXCEPT !.cwd = d] \in [root : Dirs, cwd : Dirs, dirfd : Dirs \cup {None}]
        /\ [linux EXCEPT !.root = d] \in [root : Dirs, cwd : Dirs, dirfd : Dirs \cup {None}]
        /\ [linux EXCEPT !.dirfd = d] \in [root : Dirs, cwd : Dirs, dirfd : Dirs \cup {None}]
  BY <1>1
<1> HIDE DEF d
<1>3. LinuxAfter(f) = IF d \notin Dirs THEN linux
     ELSE CASE f.op = "chdir"  -> [linux EXCEPT !.cwd = d]
            [] f.op = "chroot" -> [linux EXCEPT !.root = d]
            [] f.op \in {"opendir"} \cup Opening -> [linux EXCEPT !.dirfd = d]
            [] OTHER -> linux
  BY DEF LinuxAfter, d
<1>4. QED
  BY <1>1, <1>2, <1>3 DEF Opening

(* A call is over.                                                         *)
LEMMA ReturnsKeeps ==
  ASSUME VfsInv, frames # <<>>, NEW t \in Trees, NEW o \in Objects \cup {None}, Returns(t, o),
         wd' \in Dirs, root' \in Seq(Names), cwd' \in NodeSpace,
         dirfd' = dirfd \/ dirfd' \in NodeSpace,
         options' \in [FakeRoot : BOOLEAN, Warnings : BOOLEAN, ForceLoad : BOOLEAN,
                       Chroot : Seq(Names)]
  PROVE  VfsInv'
<1>1. /\ frames' = Front(frames) /\ tree' = t /\ got' = o /\ linux' = LinuxAfter(call)
      /\ status' = status /\ calls' = calls
  BY DEF Returns
<1>2. /\ frames' \in Seq(Frame) /\ Len(frames') <= MaxDepth
      /\ \A i \in DOMAIN frames' : i \in DOMAIN frames /\ frames'[i] = frames[i]
  <2>1. Len(frames) \in Nat /\ Len(frames) <= MaxDepth /\ MaxDepth \in Nat
    BY BoundsAssumption DEF VfsInv, TypeOK
  <2>2. QED
    BY <1>1, <2>1, CallType
<1>3. OpenBases'
  BY <1>2 DEF VfsInv, OpenBases
<1>4. linux' \in [root : Dirs, cwd : Dirs, dirfd : Dirs \cup {None}]
  BY <1>1, LinuxAfterType
<1>5. dirfd' \in NodeSpace \cup {None} /\ status' \in {"running", "overflow", "exited"}
      /\ calls' \in 0..MaxCalls
  BY <1>1 DEF VfsInv, TypeOK
<1>6. QED
  BY <1>1, <1>2, <1>3, <1>4, <1>5 DEF VfsInv, TypeOK

(* A call that leaves the process's places alone.                          *)
LEMMA StaysKeeps ==
  ASSUME VfsInv, frames # <<>>, NEW t \in Trees, NEW o \in Objects \cup {None}, Returns(t, o),
         UNCHANGED wd, Stays
  PROVE  VfsInv'
<1>1. /\ wd' \in Dirs /\ root' \in Seq(Names) /\ cwd' \in NodeSpace /\ dirfd' = dirfd
      /\ options' \in [FakeRoot : BOOLEAN, Warnings : BOOLEAN, ForceLoad : BOOLEAN,
                       Chroot : Seq(Names)]
  BY DEF VfsInv, TypeOK, Stays
<1>2. QED
  BY <1>1, ReturnsKeeps

LEMMA GoesKeeps ==
  ASSUME VfsInv, frames # <<>>, NEW at \in {"ready", "checked"}, NEW w \in Dirs, Goes(at, w)
  PROVE  VfsInv'
<1> DEFINE f == [call EXCEPT !.at = at]
<1>1. f \in Frame /\ f.base = call.base
  BY CallType DEF Frame
<1>2. /\ frames' = Append(Front(frames), f) /\ wd' = w
      /\ UNCHANGED <<status, tree, root, cwd, dirfd, got, options, calls, linux>>
  BY DEF Goes
<1>3. Len(frames) \in Nat /\ Len(frames) <= MaxDepth /\ MaxDepth \in Nat
  BY BoundsAssumption DEF VfsInv, TypeOK
<1> HIDE DEF f
<1>4. frames' \in Seq(Frame) /\ Len(frames') <= MaxDepth
  BY <1>1, <1>2, <1>3, CallType
<1>5. OpenBases'
  <2>1. ASSUME NEW i \in DOMAIN frames', frames'[i].base = "dirfd" PROVE dirfd \in NodeSpace
    <3>1. Front(frames) \in Seq(Frame)
      BY CallType
    <3>2. CASE i \in DOMAIN Front(frames)
      <4>1. frames'[i] = frames[i] /\ i \in DOMAIN frames
        BY <1>1, <1>2, <3>1, <3>2, CallType
      <4>2. QED
        BY <2>1, <4>1 DEF VfsInv, OpenBases
    <3>3. CASE i \notin DOMAIN Front(frames)
      <4>1. frames'[i] = f
        BY <1>1, <1>2, <3>1, <3>3
      <4>2. QED
        BY <1>1, <2>1, <4>1, CallType
    <3>4. QED
      BY <3>2, <3>3
  <2>2. QED
    BY <1>2, <2>1 DEF OpenBases
<1>6. QED
  BY <1>2, <1>4, <1>5 DEF VfsInv, TypeOK

LEMMA RefuseKeeps ==
  ASSUME VfsInv, Refuse
  PROVE  VfsInv'
<1>1. frames # <<>> /\ Returns(tree, None) /\ UNCHANGED wd /\ Stays
  BY DEF Refuse
<1>2. tree \in Trees
  BY DEF VfsInv, TypeOK
<1>3. QED
  BY <1>1, <1>2, StaysKeeps

LEMMA SetupKeeps ==
  ASSUME VfsInv, Setup
  PROVE  VfsInv'
<1>1. frames # <<>> /\ tree \in Trees
  BY DEF Setup, VfsInv, TypeOK
<1>2. CASE Inode(SetupNode(call)) = None
  <2>1. Returns(tree, None) /\ Stays /\ UNCHANGED wd
    BY <1>2 DEF Setup
  <2>2. QED
    BY <1>1, <2>1, StaysKeeps
<1>3. CASE Inode(SetupNode(call)) # None
  <2>1. Goes("ready", Inode(SetupNode(call)))
    BY <1>3 DEF Setup
  <2>2. Inode(SetupNode(call)) \in Dirs
    BY <1>3, InodeType
  <2>3. QED
    BY <1>1, <2>1, <2>2, GoesKeeps
<1>4. QED
  BY <1>2, <1>3

LEMMA CheckKeeps ==
  ASSUME VfsInv, Check
  PROVE  VfsInv'
<1>1. frames # <<>> /\ Goes("checked", Touch(call.node, wd))
  BY DEF Check
<1>2. Touch(call.node, wd) \in Dirs
  BY TouchType DEF VfsInv, TypeOK
<1>3. QED
  BY <1>1, <1>2, GoesKeeps

(* A node the process keeps is one.                                        *)
LEMMA EnterKeeps ==
  ASSUME VfsInv, frames # <<>>, NEW r \in Reach, EnterFrom(r)
  PROVE  VfsInv'
<1> DEFINE n == Traverse(r.node, r.leaf)
           d == Inode(n)
<1>1. n \in NodeSpace /\ d \in Dirs \cup {None} /\ r.wd \in Dirs
  BY TraverseType, InodeType DEF Reach
<1>2. GetRealPath(n) \in Seq(Names)
  <2>1. n.root \in Seq(Names) /\ n.names \in Seq(Names)
    BY <1>1 DEF NodeSpace
  <2> HIDE DEF n
  <2>2. QED
    BY <2>1 DEF GetRealPath
<1>3. Enter(r, n, d)
  BY DEF EnterFrom
<1> HIDE DEF n, d
<1>4. PICK o \in Objects \cup {None} : Returns(tree, o)
  <2>1. \E found \in BOOLEAN : Returns(tree, IF found THEN d ELSE None)
    BY <1>3 DEF Enter
  <2>2. QED
    BY <1>1, <2>1 DEF Objects
<1>5. wd' \in Dirs
  BY <1>1, <1>3, ObjectsAssumption DEF Enter
<1>6. cwd' \in NodeSpace /\ (dirfd' = dirfd \/ dirfd' \in NodeSpace)
  BY <1>1, <1>3 DEF Enter, VfsInv, TypeOK
<1>7. root' \in Seq(Names)
  BY <1>2, <1>3 DEF Enter, VfsInv, TypeOK
<1>8. options' \in [FakeRoot : BOOLEAN, Warnings : BOOLEAN, ForceLoad : BOOLEAN,
                    Chroot : Seq(Names)]
  <2>1. options \in [FakeRoot : BOOLEAN, Warnings : BOOLEAN, ForceLoad : BOOLEAN,
                     Chroot : Seq(Names)]
    BY DEF VfsInv, TypeOK
  <2>2. options' = options \/ options' = [options EXCEPT !.Chroot = GetRealPath(n)]
    BY <1>3 DEF Enter
  <2>3. QED
    BY <1>2, <2>1, <2>2
<1>9. tree \in Trees
  BY DEF VfsInv, TypeOK
<1>10. QED
  BY <1>4, <1>5, <1>6, <1>7, <1>8, <1>9, ReturnsKeeps

LEMMA EnterPlaceKeeps ==
  ASSUME VfsInv, EnterPlace
  PROVE  VfsInv'
<1>1. frames # <<>> /\ EnterFrom(Resolution("found", call.node, call.leaf, wd))
  BY DEF EnterPlace
<1>2. Resolution("found", call.node, call.leaf, wd) \in Reach
  <2>1. call.node \in NodeSpace /\ call.leaf \in Element \cup {""} /\ wd \in Dirs
    BY <1>1, CallType DEF Frame, VfsInv, TypeOK
  <2>2. QED
    BY <2>1 DEF Resolution, Reach
<1>3. QED
  BY <1>1, <1>2, EnterKeeps

LEMMA OpenAgainKeeps ==
  ASSUME VfsInv, OpenAgain
  PROVE  VfsInv'
<1> DEFINE r == ResolveFrom(call.base, call.path, call.op \in Following, wd)
<1>1. frames # <<>> /\ EnterFrom(r)
  BY DEF OpenAgain, Reopen
<1>2. r \in At
  <2>1. /\ call.base \in {"none", "cwd", "dirfd"} /\ call.path \in Paths
        /\ (call.base = "dirfd" => dirfd \in NodeSpace)
    BY <1>1, CallType DEF Frame
  <2>2. Grounded /\ cwd \in NodeSpace /\ wd \in Dirs /\ IsPath(call.path)
    BY <2>1, TypeGrounded, CallsAssumption DEF VfsInv, TypeOK
  <2>3. (call.op \in Following) \in BOOLEAN
    OBVIOUS
  <2>4. QED
    BY <2>1, <2>2, <2>3, ResolveFromType
<1>3. r \in Reach
  BY <1>2, AtReach
<1> HIDE DEF r
<1>4. QED
  BY <1>1, <1>3, EnterKeeps

(* What a call changes is a tree, and what it reaches an object.           *)
LEMMA NewObjectType ==
  ASSUME NEW op, NEW t
  PROVE  NewObject(op, t) \in Objects \cup {None}
<1>1. /\ Unused(t, Dirs, Held) \in Dirs \cup {None}
      /\ Unused(t, Links, {}) \in Links \cup {None}
      /\ Unused(t, Files, {}) \in Files \cup {None}
  BY UnusedType
<1>2. QED
  BY <1>1 DEF NewObject, Objects

LEMMA EffectType ==
  ASSUME tree \in Trees, NEW op, NEW x, NEW y, x.obj \in Objects \cup {None}
  PROVE  EffectTree(op, x, y) \in Trees /\ EffectGot(op, x) \in Objects \cup {None}
<1>1. /\ Add(tree, x.dir, x.name, NewObject(op, tree)) \in Trees
      /\ RemoveDir(tree, x.dir, x.name) \in Trees
      /\ RemoveName(tree, x.dir, x.name) \in Trees
      /\ Move(tree, x.dir, x.name, y.dir, y.name) \in Trees
      /\ HardLink(tree, y.dir, y.name, x.dir, x.name) \in Trees
  BY AddType, RemoveType, MoveType, HardLinkType, NewObjectType
<1>2. EffectTree(op, x, y) \in Trees
  BY <1>1 DEF EffectTree
<1>3. EffectGot(op, x) \in Objects \cup {None}
  BY NewObjectType DEF EffectGot
<1>4. QED
  BY <1>2, <1>3

LEMMA ReachedType ==
  ASSUME VfsInv, NEW f \in Frame
  PROVE  Reached(f).obj \in Objects \cup {None}
<1>1. CASE f.op = "link"
  BY <1>1 DEF Reached
<1>2. CASE f.op # "link"
  <2>1. tree \in Trees /\ wd \in Dirs /\ Top \in Dirs
    BY ObjectsAssumption DEF VfsInv, TypeOK
  <2>2. InterixFollows(f.op) \in BOOLEAN
    BY DEF InterixFollows
  <2>3. StatLeaf(f) \in Element \cup {""}
    BY DEF StatLeaf, Frame, Element
  <2>4. Walk(tree, Top, wd, <<StatLeaf(f)>>, InterixFollows(f.op)) \in Place
    <3>1. <<StatLeaf(f)>> \in Seq(Word)
      BY <2>3, OneWord DEF Word
    <3>2. QED
      BY <2>1, <2>2, <3>1, WalkType
  <2>5. QED
    BY <1>2, <2>4 DEF Reached, Place
<1>3. QED
  BY <1>1, <1>2

LEMMA ActKeeps ==
  ASSUME VfsInv, Act
  PROVE  VfsInv'
<1> DEFINE t == EffectTree(call.op, Reached(call), ReachedTo(call))
           o == IF call.op = "chown" /\ options.FakeRoot THEN None
                ELSE EffectGot(call.op, Reached(call))
<1>1. frames # <<>> /\ Returns(t, o) /\ UNCHANGED wd /\ Stays
  BY DEF Act
<1>2. Reached(call).obj \in Objects \cup {None}
  BY <1>1, CallType, ReachedType
<1>3. t \in Trees /\ o \in Objects \cup {None}
  BY <1>2, EffectType DEF VfsInv, TypeOK
<1> HIDE DEF t, o
<1>4. QED
  BY <1>1, <1>3, StaysKeeps

LEMMA VfsUnchanged ==
  ASSUME VfsInv, UNCHANGED vars
  PROVE  VfsInv'
  BY DEF VfsInv, TypeOK, OpenBases, vars

LEMMA VfsNext ==
  ASSUME VfsInv, Next
  PROVE  VfsInv'
  BY BeginKeeps, RefuseKeeps, SetupKeeps, CheckKeeps, EnterPlaceKeeps, OpenAgainKeeps, ActKeeps
     DEF Next

(* The first process of a family starts in a directory.                    *)
LEMMA VfsInit ==
  ASSUME Init
  PROVE  VfsInv
<1>1. PICK r \in StartRoots, o \in StartOptions :
        /\ status = "running" /\ tree \in StartTrees
        /\ wd = PlainDir(tree, Top, r) /\ root = r
        /\ cwd = [root |-> r, names |-> <<>>]
        /\ dirfd = None /\ frames = <<>> /\ got = None
        /\ options \in [FakeRoot : {o.FakeRoot}, Warnings : {o.Warnings},
                        ForceLoad : IF o.ForceLoad THEN {TRUE} ELSE BOOLEAN, Chroot : {r}]
        /\ calls = 0
        /\ linux = [root |-> PlainDir(tree, Top, r), cwd |-> PlainDir(tree, Top, r),
                    dirfd |-> None]
  BY DEF Init
<1>2. tree \in Trees /\ PlainDir(tree, Top, r) \in Dirs
  BY <1>1, BoundsAssumption
<1>3. r \in Seq(Names) /\ o \in [FakeRoot : BOOLEAN, Warnings : BOOLEAN, ForceLoad : BOOLEAN]
  BY CallsAssumption
<1>4. <<>> \in Seq(Names) /\ <<>> \in Seq(Frame)
  BY NoNames
<1>5. cwd \in NodeSpace
  BY <1>1, <1>3, <1>4 DEF NodeSpace
<1>6. frames \in Seq(Frame) /\ Len(frames) <= MaxDepth /\ OpenBases
  BY <1>1, <1>4, BoundsAssumption DEF OpenBases
<1>7. options \in [FakeRoot : BOOLEAN, Warnings : BOOLEAN, ForceLoad : BOOLEAN,
                   Chroot : Seq(Names)]
  BY <1>1, <1>3
<1>8. calls \in 0..MaxCalls
  BY <1>1, BoundsAssumption
<1>9. linux \in [root : Dirs, cwd : Dirs, dirfd : Dirs \cup {None}]
  BY <1>1, <1>2
<1>10. QED
  BY <1>1, <1>2, <1>3, <1>5, <1>6, <1>7, <1>8, <1>9 DEF VfsInv, TypeOK

-----------------------------------------------------------------------------
(***************************************************************************)
(* exec.                                                                   *)
(***************************************************************************)

(* What the environment holds until the new process has read it.           *)
EnvSpace ==
  [FakeRoot : BOOLEAN, Warnings : BOOLEAN, ForceLoad : BOOLEAN, Chroot : Seq(Names),
   CWD : [abs : {TRUE}, names : Seq(Names)], LinuxExe : ExecPaths]

ExecInv ==
  /\ ExecTypeOK
  /\ OpenBases
  /\ phase # "program" => env \in EnvSpace

OptionSpace == [FakeRoot : BOOLEAN, Warnings : BOOLEAN, ForceLoad : BOOLEAN,
                Chroot : Seq(Names)]

LEMMA ExecGrounded ==
  ASSUME ExecInv
  PROVE  /\ VfsInv /\ Grounded
         /\ cwd \in NodeSpace /\ wd \in Dirs /\ root \in Seq(Names)
         /\ options \in OptionSpace
  BY TypeGrounded DEF ExecInv, ExecTypeOK, VfsInv, TypeOK, OptionSpace

(* An environment is not the lack of one.                                  *)
LEMMA EnvIsSome ==
  ASSUME NEW e \in EnvSpace
  PROVE  e # NoEnv
<1>1. "FakeRoot" \in DOMAIN e
  BY DEF EnvSpace
<1>2. DOMAIN NoEnv = {"none"} /\ "FakeRoot" # "none"
  BY DEF NoEnv
<1>3. QED
  BY <1>1, <1>2

(* The path of the working directory is a path, if only the root.          *)
LEMMA CWDIsPath ==
  ASSUME NEW p \in [abs : {TRUE}, names : Seq(Names)]
  PROVE  IsPath(p)
<1>1. p.names \in Seq(Element)
  <2>1. p.names \in Seq(Names)
    OBVIOUS
  <2>2. \A s \in Seq(Names) : s \in Seq(Element)
    BY DEF Element
  <2>3. QED
    BY <2>1, <2>2
<1>2. p = [abs |-> TRUE, names |-> p.names]
  OBVIOUS
<1>3. p \in [abs : BOOLEAN, names : Seq(Element)]
  <2> DEFINE s == p.names
  <2>1. s \in Seq(Element) /\ p = [abs |-> TRUE, names |-> s]
    BY <1>1, <1>2
  <2> HIDE DEF s
  <2>2. QED
    BY <2>1
<1>4. p = Slash \/ p.names # <<>>
  BY <1>2 DEF Slash
<1>5. QED
  BY <1>3, <1>4 DEF IsPath

(* Opening a file to run ends in a directory, with a file or without.      *)
LEMMA OpenToRunType ==
  ASSUME ExecInv, NEW path, IsPath(path)
  PROVE  /\ OpenToRun(path).wd \in Dirs
         /\ OpenToRun(path).obj \in Files \cup {None}
<1> DEFINE r == ResolveFrom("none", path, TRUE, wd)
           d == IF r.state = "found" THEN Inode(r.node) ELSE None
           x == Walk(tree, Top, Arrive(d, r.wd), <<r.leaf>>, TRUE)
<1>1. r \in At
  BY ExecGrounded, ResolveFromType
<1>2. r.wd \in Dirs /\ d \in Dirs \cup {None}
  BY <1>1, InodeType DEF At
<1> HIDE DEF r, d, x
<1>3. OpenToRun(path) = Opened(r, d, x)
  BY DEF OpenToRun, FileOf, FileIn, r, d, x
<1>4. Opened(r, d, x).wd \in Dirs /\ Opened(r, d, x).obj \in Files \cup {None}
  BY <1>2 DEF Opened, Arrive
<1>5. QED
  BY <1>3, <1>4

(* The invariant, when the program's own state is as it was.               *)
LEMMA ProgramKeeps ==
  ASSUME ExecInv, Program
  PROVE  ExecInv'
<1>1. VfsInv'
  BY ExecGrounded, VfsNext DEF Program
<1>2. UNCHANGED <<phase, env, given, exe>>
  BY DEF Program
<1>3. QED
  BY <1>1, <1>2 DEF ExecInv, ExecTypeOK, VfsInv

LEMMA LinuxRunsType ==
  ASSUME NEW path
  PROVE  LinuxRuns(path) \in Files \cup {None}
  BY DEF LinuxRuns

LEMMA EnvironmentType ==
  ASSUME ExecInv, NEW path \in ExecPaths
  PROVE  Environment(path) \in EnvSpace
<1>1. cwd.names \in Seq(Names)
  BY ExecGrounded DEF NodeSpace
<1>2. GetCWD \in [abs : {TRUE}, names : Seq(Names)]
  BY <1>1 DEF GetCWD
<1>3. QED
  BY <1>2, ExecGrounded DEF Environment, EnvSpace, OptionSpace

(* What a step of exec leaves alone, and what it leaves behind.            *)
HandsOn ==
  /\ tree' = tree /\ frames' = frames /\ linux' = linux /\ given' = given
  /\ dirfd' = dirfd \/ (frames = <<>> /\ dirfd' = None)
  /\ status' \in {"running", "overflow", "exited"} /\ calls' \in 0..MaxCalls
  /\ wd' \in Dirs /\ root' \in Seq(Names) /\ cwd' \in NodeSpace
  /\ got' \in Objects \cup {None} /\ options' \in OptionSpace
  /\ phase' \in {"program", "root", "cwd", "load"}
  /\ IF phase' = "program" THEN env' = NoEnv ELSE env' \in EnvSpace
  /\ exe' \in Files \cup {None}

LEMMA HandsOnKeeps ==
  ASSUME ExecInv, HandsOn
  PROVE  ExecInv'
<1>1. dirfd' \in NodeSpace \cup {None}
  BY DEF HandsOn, ExecInv, ExecTypeOK, TypeOK
<1>2. TypeOK'
  BY <1>1 DEF HandsOn, ExecInv, ExecTypeOK, TypeOK, OptionSpace
<1>3. OpenBases'
  BY DEF HandsOn, ExecInv, OpenBases
<1>4. phase' = "program" <=> env' = NoEnv
  BY EnvIsSome DEF HandsOn
<1>5. given' \in StartOptions
  BY DEF HandsOn, ExecInv, ExecTypeOK
<1>6. QED
  BY <1>2, <1>3, <1>4, <1>5 DEF HandsOn, ExecInv, ExecTypeOK

LEMMA ExecKeeps ==
  ASSUME ExecInv, NEW path \in ExecPaths, Exec(path)
  PROVE  ExecInv'
<1> DEFINE f == OpenToRun(path)
<1>1. f.wd \in Dirs /\ f.obj \in Files \cup {None}
  BY ExecPathsAssumption, OpenToRunType
<1>2. ExecFile(path, f)
  BY DEF Exec
<1> HIDE DEF f
<1>3. /\ UNCHANGED <<tree, frames, linux, given, root, cwd, options>>
      /\ frames = <<>> /\ phase = "program"
      /\ calls < MaxCalls /\ calls' = calls + 1 /\ got' = None
      /\ wd' = IF f.obj = None THEN f.wd ELSE Touch(cwd, f.wd)
  BY <1>2 DEF ExecFile
<1>4. wd' \in Dirs /\ calls' \in 0..MaxCalls /\ got' \in Objects \cup {None}
  <2>1. calls \in 0..MaxCalls
    BY DEF ExecInv, ExecTypeOK, TypeOK
  <2>2. QED
    BY <1>1, <1>3, <2>1, TouchType, BoundsAssumption
<1>5. root' \in Seq(Names) /\ cwd' \in NodeSpace /\ options' \in OptionSpace
  BY <1>3, ExecGrounded
<1>6. /\ status' \in {"running", "overflow", "exited"} /\ (dirfd' = dirfd \/ dirfd' = None)
      /\ phase' \in {"program", "root", "cwd", "load"}
      /\ IF phase' = "program" THEN env' = NoEnv ELSE env' \in EnvSpace
      /\ exe' \in Files \cup {None}
  <2>1. /\ status \in {"running", "overflow", "exited"} /\ env = NoEnv
        /\ exe \in Files \cup {None}
    BY <1>3 DEF ExecInv, ExecTypeOK, TypeOK
  <2>2. CASE f.obj = None
    <3>1. UNCHANGED <<status, phase, env, dirfd, exe>>
      BY <1>2, <2>2 DEF ExecFile
    <3>2. QED
      BY <1>3, <2>1, <3>1
  <2>3. CASE f.obj # None
    <3>1. /\ status' = status \/ status' = "exited"
          /\ phase' = "root" /\ env' = Environment(path) /\ dirfd' = None
          /\ exe' = LinuxRuns(path)
      BY <1>2, <2>3 DEF ExecFile
    <3>2. QED
      BY <2>1, <3>1, LinuxRunsType, EnvironmentType
  <2>4. QED
    BY <2>2, <2>3
<1>7. HandsOn
  BY <1>3, <1>4, <1>5, <1>6 DEF HandsOn
<1>8. QED
  BY <1>7, HandsOnKeeps

(* The environment in the phases that read it.                             *)
LEMMA EnvType ==
  ASSUME ExecInv, phase # "program"
  PROVE  /\ env \in EnvSpace
         /\ env.FakeRoot \in BOOLEAN /\ env.ForceLoad \in BOOLEAN
         /\ env.Chroot \in Seq(Names)
         /\ IsPath(env.CWD) /\ IsPath(env.LinuxExe)
<1>1. env \in EnvSpace
  BY DEF ExecInv
<1>2. env.CWD \in [abs : {TRUE}, names : Seq(Names)] /\ env.LinuxExe \in ExecPaths
  BY <1>1 DEF EnvSpace
<1>3. QED
  BY <1>1, <1>2, CWDIsPath, ExecPathsAssumption DEF EnvSpace

(* What no step of a new process changes.                                  *)
LEMMA Rest ==
  ASSUME ExecInv
  PROVE  /\ status \in {"running", "overflow", "exited"} /\ calls \in 0..MaxCalls
         /\ got \in Objects \cup {None} /\ exe \in Files \cup {None}
         /\ given \in StartOptions
  BY DEF ExecInv, ExecTypeOK, TypeOK

LEMMA StartRootKeeps ==
  ASSUME ExecInv, StartRoot
  PROVE  ExecInv'
<1>1. /\ env \in EnvSpace /\ env.FakeRoot \in BOOLEAN /\ env.ForceLoad \in BOOLEAN
      /\ env.Chroot \in Seq(Names)
  BY EnvType DEF StartRoot
<1> DEFINE d == DirAt(tree, env.Chroot)
<1>2. d \in Dirs \cup {None}
  BY DirAtType
<1>3. /\ UNCHANGED <<tree, dirfd, frames, got, calls, linux, env, given, exe>>
      /\ phase' = "cwd"
      /\ options' = [FakeRoot |-> env.FakeRoot, Warnings |-> env.ForceLoad,
                     ForceLoad |-> FALSE, Chroot |-> env.Chroot]
      /\ IF d = None
         THEN status' = "exited" /\ UNCHANGED <<root, cwd, wd>>
         ELSE /\ status' = status /\ root' = env.Chroot
              /\ cwd' = [root |-> env.Chroot, names |-> <<>>] /\ wd' = d
  BY DEF StartRoot
<1> HIDE DEF d
<1>4. options' \in OptionSpace
  BY <1>1, <1>3 DEF OptionSpace
<1>5. [root |-> env.Chroot, names |-> <<>>] \in NodeSpace
  BY <1>1, NoNames DEF NodeSpace
<1>6. /\ status' \in {"running", "overflow", "exited"}
      /\ wd' \in Dirs /\ root' \in Seq(Names) /\ cwd' \in NodeSpace
  BY <1>1, <1>2, <1>3, <1>5, ExecGrounded, Rest
<1>7. env' \in EnvSpace /\ phase' # "program" /\ phase' \in {"program", "root", "cwd", "load"}
  BY <1>1, <1>3
<1>8. calls' \in 0..MaxCalls /\ got' \in Objects \cup {None} /\ exe' \in Files \cup {None}
  BY <1>3, Rest
<1>9. HandsOn
  BY <1>3, <1>4, <1>6, <1>7, <1>8 DEF HandsOn
<1>10. QED
  BY <1>9, HandsOnKeeps

LEMMA StartCWDKeeps ==
  ASSUME ExecInv, StartCWD
  PROVE  ExecInv'
<1>1. env \in EnvSpace /\ IsPath(env.CWD)
  BY EnvType DEF StartCWD
<1> DEFINE r == ResolveFrom("none", env.CWD, TRUE, wd)
           n == Traverse(r.node, r.leaf)
           d == Inode(n)
<1>2. r \in At
  BY <1>1, ExecGrounded, ResolveFromType
<1>3. n \in NodeSpace /\ d \in Dirs \cup {None} /\ r.wd \in Dirs
      /\ r.leaf \in Element
  BY <1>2, TraverseType, InodeType DEF At
<1>4. SetCWD(r, n, d)
  BY DEF StartCWD, SetCWDFrom
<1>5. /\ UNCHANGED <<tree, root, dirfd, frames, got, options, calls, linux, env, given, exe>>
      /\ phase' = "load"
  BY DEF StartCWD
<1> HIDE DEF r, n, d
<1>6. /\ status' \in {"running", "overflow", "exited"} /\ cwd' \in NodeSpace
      /\ wd' \in Dirs
  <2>1. r.leaf \in Names /\ IsMade(r.leaf, d) => d \in Dirs
    BY <1>3, NamesAssumption DEF IsMade
  <2>2. QED
    BY <1>3, <1>4, <2>1, ExecGrounded, Rest DEF SetCWD
<1>7. env' \in EnvSpace /\ phase' # "program" /\ phase' \in {"program", "root", "cwd", "load"}
  BY <1>1, <1>5
<1>8. /\ calls' \in 0..MaxCalls /\ got' \in Objects \cup {None} /\ exe' \in Files \cup {None}
      /\ root' \in Seq(Names) /\ options' \in OptionSpace
  BY <1>5, Rest, ExecGrounded
<1>9. HandsOn
  BY <1>5, <1>6, <1>7, <1>8 DEF HandsOn
<1>10. QED
  BY <1>9, HandsOnKeeps

LEMMA LoadKeeps ==
  ASSUME ExecInv, Load
  PROVE  ExecInv'
<1> DEFINE f == OpenToRun(env.LinuxExe)
<1>1. f.wd \in Dirs /\ f.obj \in Files \cup {None}
  BY EnvType, OpenToRunType DEF Load
<1>2. /\ LoadFile(f) /\ phase' = "program" /\ env' = NoEnv /\ exe' = None
      /\ UNCHANGED <<tree, root, cwd, dirfd, frames, options, calls, linux, given>>
  BY DEF Load
<1> HIDE DEF f
<1>3. /\ status' \in {"running", "overflow", "exited"}
      /\ wd' \in Dirs /\ got' \in Objects \cup {None}
  BY <1>1, <1>2, Rest DEF LoadFile, Objects
<1>4. /\ calls' \in 0..MaxCalls /\ root' \in Seq(Names) /\ cwd' \in NodeSpace
      /\ options' \in OptionSpace /\ exe' \in Files \cup {None}
  BY <1>2, Rest, ExecGrounded
<1>5. phase' = "program" /\ phase' \in {"program", "root", "cwd", "load"}
  BY <1>2
<1>6. HandsOn
  BY <1>2, <1>3, <1>4, <1>5 DEF HandsOn
<1>7. QED
  BY <1>6, HandsOnKeeps

LEMMA ExecInitInv ==
  ASSUME ExecInit
  PROVE  ExecInv
  BY VfsInit DEF ExecInit, ExecInv, ExecTypeOK, VfsInv

LEMMA ExecNextInv ==
  ASSUME ExecInv, [ExecNext]_execVars
  PROVE  ExecInv'
<1>1. CASE ExecNext
  BY <1>1, ProgramKeeps, ExecKeeps, StartRootKeeps, StartCWDKeeps, LoadKeeps DEF ExecNext
<1>2. CASE UNCHANGED execVars
  BY <1>2 DEF execVars, vars, ExecInv, ExecTypeOK, TypeOK, OpenBases
<1>3. QED
  BY <1>1, <1>2

(* In every process of the family, at every step of a call, of a handler's *)
(* call in the middle of it, and of an exec, what the VFS keeps is well    *)
(* formed: nodes hold real names only, whatever "..", links and chroots    *)
(* they were made through, Interix's working directory is a directory, and *)
(* a call in progress still has the base it was given (VFSNode.cc:75,      *)
(* VFS.cc:58, exec.cc:24, main.cc:140).                                    *)
THEOREM ExecTypeCorrect == ExecSpec => []ExecTypeOK
<1>1. ExecInit => ExecInv
  BY ExecInitInv
<1>2. ExecInv /\ [ExecNext]_execVars => ExecInv'
  BY ExecNextInv
<1>3. ExecInv => ExecTypeOK
  BY DEF ExecInv
<1>4. QED
  BY <1>1, <1>2, <1>3, PTL DEF ExecSpec

-----------------------------------------------------------------------------
(***************************************************************************)
(* --fakeroot.                                                             *)
(***************************************************************************)

(* The option is with the process, or in the environment of the next one.  *)
FakeRootHanded ==
  /\ phase # "root" => options.FakeRoot = given.FakeRoot
  /\ phase = "root" => env.FakeRoot = given.FakeRoot

(* chroot changes the options, but not this one.                           *)
LEMMA ProgramFakeRoot ==
  ASSUME ExecInv, Program
  PROVE  options'.FakeRoot = options.FakeRoot
<1>1. options \in OptionSpace
  BY ExecGrounded
<1>2. ASSUME NEW r, EnterFrom(r) PROVE options'.FakeRoot = options.FakeRoot
  BY <1>1, <1>2 DEF EnterFrom, Enter, OptionSpace
<1>3. CASE EnterPlace \/ OpenAgain
  BY <1>2, <1>3 DEF EnterPlace, OpenAgain, Reopen
<1>4. CASE Begin \/ Refuse \/ Setup \/ Check \/ Act
  <2>1. ASSUME NEW op, NEW base, NEW path, NEW to, NEW r, CallFrom(op, base, path, to, r)
        PROVE  options' = options
    BY <2>1 DEF CallFrom, Call
  <2>2. ASSUME Begin PROVE options' = options
    BY <2>1, <2>2 DEF Begin
  <2>3. ASSUME NEW at, NEW w, Goes(at, w) PROVE options' = options
    BY <2>3 DEF Goes
  <2>4. ASSUME Setup \/ Check PROVE options' = options
    BY <2>3, <2>4 DEF Setup, Check, Stays
  <2>5. ASSUME Refuse \/ Act PROVE options' = options
    BY <2>5 DEF Refuse, Act, Stays
  <2>6. QED
    BY <1>4, <2>2, <2>4, <2>5
<1>5. QED
  BY <1>3, <1>4 DEF Program, Next

LEMMA FakeRootNext ==
  ASSUME ExecInv, FakeRootHanded, [ExecNext]_execVars
  PROVE  FakeRootHanded'
<1>1. CASE Program
  <2>1. UNCHANGED <<phase, env, given>> /\ phase = "program"
    BY <1>1 DEF Program
  <2>2. QED
    BY <1>1, <2>1, ProgramFakeRoot DEF FakeRootHanded
<1>2. ASSUME NEW path \in ExecPaths, Exec(path) PROVE FakeRootHanded'
  <2>1. /\ phase = "program" /\ UNCHANGED <<options, given>>
        /\ \/ UNCHANGED <<phase, env>>
           \/ phase' = "root" /\ env' = Environment(path)
    BY <1>2 DEF Exec, ExecFile
  <2>2. Environment(path).FakeRoot = options.FakeRoot
    BY DEF Environment
  <2>3. QED
    BY <2>1, <2>2 DEF FakeRootHanded
<1>3. CASE StartRoot
  <2>1. /\ phase = "root" /\ phase' = "cwd" /\ given' = given
        /\ options' = [FakeRoot |-> env.FakeRoot, Warnings |-> env.ForceLoad,
                       ForceLoad |-> FALSE, Chroot |-> env.Chroot]
    BY <1>3 DEF StartRoot
  <2>2. options'.FakeRoot = env.FakeRoot
    BY <2>1
  <2>3. QED
    BY <2>1, <2>2 DEF FakeRootHanded
<1>4. CASE StartCWD
  BY <1>4 DEF StartCWD, FakeRootHanded
<1>5. CASE Load
  BY <1>5 DEF Load, FakeRootHanded
<1>6. CASE UNCHANGED execVars
  BY <1>6 DEF execVars, vars, FakeRootHanded
<1>7. QED
  BY <1>1, <1>2, <1>3, <1>4, <1>5, <1>6 DEF ExecNext

(* Every process of the family, however many execs it took to get there    *)
(* and whatever roots were set on the way, runs under --fakeroot exactly   *)
(* if the first one was started so (exec.cc:70, main.cc:140).              *)
THEOREM FakeRootHandedOn == ExecSpec => []FakeRootKept
<1>1. ExecInit => ExecInv /\ FakeRootHanded
  <2>1. ASSUME ExecInit PROVE FakeRootHanded
    <3>1. phase = "program" /\ options.FakeRoot = given.FakeRoot
      BY <2>1 DEF ExecInit
    <3>2. QED
      BY <3>1 DEF FakeRootHanded
  <2>2. QED
    BY <2>1, ExecInitInv
<1>2. ExecInv /\ FakeRootHanded /\ [ExecNext]_execVars => (ExecInv /\ FakeRootHanded)'
  BY ExecNextInv, FakeRootNext
<1>3. ExecInv /\ FakeRootHanded => FakeRootKept
  BY DEF FakeRootHanded, FakeRootKept
<1>4. QED
  BY <1>1, <1>2, <1>3, PTL DEF ExecSpec
=============================================================================
