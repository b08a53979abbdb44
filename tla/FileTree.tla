------------------------------ MODULE FileTree ------------------------------
(***************************************************************************)
(* What Interix's kernel provides to the VFS: a tree of directories, files *)
(* and symbolic links, the walk that resolves a path in it, and the calls  *)
(* that change it, each with its first argument the tree.                  *)
(*                                                                         *)
(* The walk is POSIX's, by inodes, so it is also what Linux would do with  *)
(* the program's root in place of the top of the tree: the reference the   *)
(* VFS is compared with.                                                   *)
(***************************************************************************)
EXTENDS Integers, Sequences, SequencesExt

CONSTANTS
  Top,       (* the root directory of Interix                                *)
  Dirs,      (* directories, Top among them                                  *)
  Files,     (* everything that is neither a directory nor a symbolic link   *)
  Links,     (* symbolic links                                               *)
  Names,     (* names of directory entries                                   *)
  LinkPath,  (* the path each symbolic link holds                            *)
  MaxLinks,  (* bound: links within links before a walk counts as a loop       *)
  None       (* no entry, nothing found                                      *)

ASSUME ObjectsAssumption ==
  /\ Top \in Dirs
  /\ Dirs \cap Files = {} /\ Dirs \cap Links = {} /\ Files \cap Links = {}
  /\ None \notin Dirs \cup Files \cup Links
  /\ MaxLinks \in Nat

ASSUME NamesAssumption ==
  /\ "." \notin Names /\ ".." \notin Names /\ "" \notin Names
  /\ LinkPath \in [Links -> [abs : BOOLEAN, names : Seq(Names \cup {".", ".."})]]

Objects == Dirs \cup Files \cup Links
Trees == [Dirs -> [Names -> Objects \cup {None}]]

Entries(t) == {o \in Objects : \E d \in Dirs, n \in Names : t[d][n] = o}
Alive(t, d) == d = Top \/ d \in Entries(t)
IsEmpty(t, d) == \A n \in Names : t[d][n] = None

(* The directory that holds directory d; its own for the top, and for one  *)
(* that has been removed.                                                  *)
ParentDir(t, d) ==
  IF \E p \in Dirs, n \in Names : t[p][n] = d
  THEN CHOOSE p \in Dirs : \E n \in Names : t[p][n] = d
  ELSE d

(* Is d the directory e or somewhere below it?                             *)
Within(t, d, e) ==
  \A S \in SUBSET Dirs :
    d \in S /\ (\A c \in S : ParentDir(t, c) \in S) => e \in S

(* What name n is in directory d, for a process whose root is root.        *)
Entry(t, root, d, n) ==
  CASE n = "."   -> d
    [] n = ".."  -> IF d = root THEN d ELSE ParentDir(t, d)
    [] n \in Names -> t[d][n]
    [] OTHER     -> None

(* The walk.  What it has found is an object (None if there is none) and   *)
(* the directory and name it has, or would have if it were made.  A link   *)
(* on the way is followed: from its directory, or the root, by its path.   *)
NotFound == [dir |-> None, name |-> "", obj |-> None]
Here(d) == [dir |-> d, name |-> ".", obj |-> d]

Look(t, root, at, n, follow, links) ==    (* name n of the directory found *)
  LET d == at.obj
      o == Entry(t, root, d, n)
  IN IF d \notin Dirs THEN NotFound
     ELSE IF o \in Links /\ follow
          THEN links[[dir |-> IF LinkPath[o].abs THEN root ELSE d, names |-> LinkPath[o].names]]
     ELSE [dir |-> d, name |-> n, obj |-> o]

Through(t, root, d, names, follow, links) ==     (* name by name *)
  LET at[i \in 0..Len(names)] ==
        IF i = 0 THEN Here(d)
        ELSE Look(t, root, at[i-1], names[i], i < Len(names) \/ follow, links)
  IN at[Len(names)]

(* Where the paths of links lead, with up to k links within links.         *)
Element == Names \cup {".", ".."}
Routes == [dir : Dirs, names : Seq(Element)]
Followed(t, root) ==
  LET links[k \in 0..MaxLinks] ==
        [r \in Routes |-> IF k = 0 THEN NotFound
                          ELSE Through(t, root, r.dir, r.names, TRUE, links[k-1])]
  IN links[MaxLinks]

Walk(t, root, d, names, follow) == Through(t, root, d, names, follow, Followed(t, root))

(* The directory Interix finds at an absolute path.                        *)
DirectoryOf(at) == IF at.obj \in Dirs THEN at.obj ELSE None
DirAt(t, names) == DirectoryOf(Walk(t, Top, Top, names, TRUE))

(* The directory that names leads to from d, without any link on the way.  *)
PlainDir(t, d, names) ==
  LET at[i \in 0..Len(names)] ==
        IF i = 0 THEN d
        ELSE IF at[i-1] \in Dirs /\ t[at[i-1]][names[i]] \in Dirs
             THEN t[at[i-1]][names[i]] ELSE None
  IN at[Len(names)]

-----------------------------------------------------------------------------
(* The calls.  One that fails leaves the tree as it is.                    *)

Add(t, d, n, o) ==              (* mkdir, mknod, open with O_CREAT, symlink  *)
  IF d \in Dirs /\ Alive(t, d) /\ n \in Names /\ o # None /\ t[d][n] = None
  THEN [t EXCEPT ![d][n] = o]
  ELSE t

RemoveDir(t, d, n) ==           (* rmdir *)
  IF d \in Dirs /\ n \in Names /\ t[d][n] \in Dirs /\ IsEmpty(t, t[d][n])
  THEN [t EXCEPT ![d][n] = None]
  ELSE t

RemoveName(t, d, n) ==          (* unlink *)
  IF d \in Dirs /\ n \in Names /\ t[d][n] \in Files \cup Links
  THEN [t EXCEPT ![d][n] = None]
  ELSE t

Move(t, d, n, e, m) ==          (* rename name n of d to name m of e *)
  IF /\ {d, e} \subseteq Dirs /\ Alive(t, e) /\ {n, m} \subseteq Names
     /\ t[d][n] # None /\ t[d][n] # t[e][m]
     /\ IF t[d][n] \in Dirs
        THEN /\ ~Within(t, e, t[d][n])
             /\ \/ t[e][m] = None
                \/ t[e][m] \in Dirs /\ IsEmpty(t, t[e][m])
        ELSE t[e][m] \notin Dirs
  THEN LET o == t[d][n]
       IN [[t EXCEPT ![d][n] = None] EXCEPT ![e][m] = o]
  ELSE t

HardLink(t, d, n, e, m) ==      (* link: name m of e, once more as n of d *)
  IF e \in Dirs /\ m \in Names /\ t[e][m] \in Files \cup Links
  THEN Add(t, d, n, t[e][m])
  ELSE t

(* Something of a kind that is in use nowhere; None if there is nothing.   *)
Unused(t, kind, held) ==
  LET free == kind \ ({Top} \cup Entries(t) \cup held)
  IN IF free = {} THEN None ELSE CHOOSE o \in free : TRUE
=============================================================================
