--------------------------- MODULE FileTreeProofs ---------------------------
(***************************************************************************)
(* Proofs about FileTree: a walk, however long and through whatever links, *)
(* finds an object of the tree or nothing, and the calls leave a tree.     *)
(* The walks are loops over names and over links within links; that such a *)
(* loop is defined, and what it preserves, is proved from the fact that    *)
(* the natural numbers are well founded.                                   *)
(***************************************************************************)
EXTENDS FileTree, WellFoundedInduction, TLAPS

(***************************************************************************)
(* Loops.                                                                  *)
(***************************************************************************)
LEMMA Least ==
  ASSUME NEW T, T \in SUBSET Nat, T # {}
  PROVE  \E n \in T : \A m \in T : n <= m
<1> DEFINE R == OpToRel(<, Nat)
<1>1. IsWellFoundedOn(R, Nat)
  BY NatLessThanWellFounded
<1>2. \A x, y \in Nat : x < y => <<x, y>> \in R
  BY DEF OpToRel
<1> HIDE DEF R
<1>3. PICK n \in T : \A m \in T : ~(<<m, n>> \in R)
  BY <1>1, WFMin
<1>4. ASSUME NEW m \in T PROVE n <= m
  <2>1. n \in Nat /\ m \in Nat
    OBVIOUS
  <2>2. ~(m < n)
    BY <1>2, <1>3, <2>1
  <2>3. QED
    BY <2>1, <2>2
<1>5. QED
  BY <1>4

(* A set that holds the first number and each number's successor holds all. *)
LEMMA Induct ==
  ASSUME NEW S, 0 \in S, \A n \in Nat : n \in S => n + 1 \in S
  PROVE  Nat \subseteq S
<1> SUFFICES ASSUME Nat \ S # {} PROVE FALSE
  OBVIOUS
<1>1. PICK n \in Nat \ S : \A m \in Nat \ S : n <= m
  BY Least
<1>2. n # 0 /\ n - 1 \in Nat
  BY <1>1
<1>3. n - 1 \in S
  BY <1>1, <1>2
<1>4. QED
  BY <1>1, <1>2, <1>3

(* The values h a loop goes through: x, and F[i] of the one before.        *)
IsLoop(h, L, S, x, F) ==
  /\ h \in [0..L -> S]
  /\ \A i \in 0..L : h[i] = IF i = 0 THEN x ELSE F[i][h[i-1]]

(* A loop whose steps stay in S has values to go through.                  *)
LEMMA LoopDefined ==
  ASSUME NEW L \in Nat, NEW S, NEW x \in S, NEW F \in [1..L -> [S -> S]]
  PROVE  \E h : IsLoop(h, L, S, x, F)
<1> DEFINE Upto(m) == \E h \in [0..m -> S] :
                        \A i \in 0..m : h[i] = IF i = 0 THEN x ELSE F[i][h[i-1]]
           T == {m \in Nat : m <= L => Upto(m)}
<1>1. 0 \in T
  <2> DEFINE h == [i \in 0..0 |-> x]
  <2>1. h \in [0..0 -> S] /\ \A i \in 0..0 : i = 0 /\ h[i] = x
    OBVIOUS
  <2> HIDE DEF h
  <2>2. Upto(0)
    BY <2>1
  <2>3. QED
    BY <2>2
<1>2. ASSUME NEW m \in Nat, m \in T, m + 1 <= L PROVE Upto(m + 1)
  <2>1. PICK h \in [0..m -> S] : \A i \in 0..m : h[i] = IF i = 0 THEN x ELSE F[i][h[i-1]]
    BY <1>2
  <2> DEFINE g == [i \in 0..m+1 |-> IF i <= m THEN h[i] ELSE F[m+1][h[m]]]
  <2>2. h[m] \in S /\ F[m+1] \in [S -> S]
    BY <1>2, <2>1
  <2>3. g \in [0..m+1 -> S]
    BY <1>2, <2>1, <2>2
  <2>4. ASSUME NEW i \in 0..m+1 PROVE g[i] = IF i = 0 THEN x ELSE F[i][g[i-1]]
    <3>1. CASE i <= m
      <4>1. i \in 0..m /\ g[i] = h[i]
        BY <3>1, <1>2
      <4>2. i # 0 => g[i-1] = h[i-1]
        BY <4>1, <1>2
      <4>3. QED
        BY <2>1, <4>1, <4>2
    <3>2. CASE i = m + 1
      BY <1>2, <3>2
    <3>3. QED
      BY <1>2, <3>1, <3>2
  <2> HIDE DEF g
  <2>5. QED
    BY <2>3, <2>4
<1>3. Nat \subseteq T
  <2>1. \A m \in Nat : m \in T => m + 1 \in T
    BY <1>2
  <2> HIDE DEF T
  <2>2. QED
    BY <1>1, <2>1, Induct
<1>4. QED
  BY <1>3 DEF IsLoop

(* A loop that starts in S and whose steps stay in S stays in S.           *)
LEMMA LoopStays ==
  ASSUME NEW L \in Nat, NEW S, NEW at, at[0] \in S,
         \A i \in 1..L : at[i-1] \in S => at[i] \in S
  PROVE  \A i \in 0..L : at[i] \in S
<1> DEFINE T == {m \in Nat : m <= L => at[m] \in S}
<1>1. 0 \in T
  OBVIOUS
<1>2. ASSUME NEW m \in Nat, m \in T PROVE m + 1 \in T
  <2>1. SUFFICES ASSUME m + 1 <= L PROVE at[m+1] \in S
    OBVIOUS
  <2>2. m + 1 \in 1..L /\ (m + 1) - 1 = m /\ at[m] \in S
    BY <1>2, <2>1
  <2>3. QED
    BY <2>2
<1>3. Nat \subseteq T
  <2> HIDE DEF T
  <2>1. QED
    BY <1>1, <1>2, Induct
<1>4. QED
  BY <1>3
-----------------------------------------------------------------------------
(***************************************************************************)
(* The walk.                                                               *)
(***************************************************************************)
Place == [dir : Dirs \cup {None}, name : Element \cup {""}, obj : Objects \cup {None}]

(* A directory's parent is a directory.                                    *)
LEMMA ParentDirType ==
  ASSUME NEW t, NEW d \in Dirs
  PROVE  ParentDir(t, d) \in Dirs
  BY DEF ParentDir

(* A name in a directory is an object or nothing.                          *)
LEMMA EntryType ==
  ASSUME NEW t \in Trees, NEW root, NEW d \in Dirs, NEW n
  PROVE  Entry(t, root, d, n) \in Objects \cup {None}
<1>1. n = "." => Entry(t, root, d, n) = d
  BY NamesAssumption DEF Entry
<1>2. n = ".." => Entry(t, root, d, n) \in Dirs
  BY ParentDirType, NamesAssumption DEF Entry
<1>3. n \in Names => Entry(t, root, d, n) \in Objects \cup {None}
  BY NamesAssumption DEF Entry, Trees
<1>4. n \notin Names \cup {".", ".."} => Entry(t, root, d, n) = None
  BY DEF Entry
<1>5. QED
  BY <1>1, <1>2, <1>3, <1>4 DEF Objects

(* What may stand for a name: names, ".", ".." and nothing.                *)
Word == Element \cup {""}

(* One name of a walk.                                                     *)
LEMMA LookType ==
  ASSUME NEW t \in Trees, NEW root \in Dirs, NEW at \in Place, NEW n \in Word,
         NEW follow \in BOOLEAN, NEW links \in [Routes -> Place]
  PROVE  Look(t, root, at, n, follow, links) \in Place
<1> DEFINE d == at.obj
           o == Entry(t, root, d, n)
           r == [dir |-> IF LinkPath[o].abs THEN root ELSE d, names |-> LinkPath[o].names]
<1>1. NotFound \in Place
  BY DEF NotFound, Place
<1>2. d \in Dirs => o \in Objects \cup {None}
  BY EntryType
<1>3. ASSUME d \in Dirs, o \in Links PROVE r \in Routes
  BY <1>3, NamesAssumption DEF Routes, Element
<1>4. d \in Dirs => [dir |-> d, name |-> n, obj |-> o] \in Place
  BY <1>2 DEF Place, Word
<1>5. QED
  BY <1>1, <1>3, <1>4 DEF Look

LEMMA SeqWithin ==
  ASSUME NEW S, NEW T, S \subseteq T, NEW s \in Seq(S)
  PROVE  s \in Seq(T)
  OBVIOUS

LEMMA OneWord ==
  ASSUME NEW S, NEW s \in S
  PROVE  <<s>> \in Seq(S)
  OBVIOUS

(* A path walked name by name.                                             *)
LEMMA ThroughType ==
  ASSUME NEW t \in Trees, NEW root \in Dirs, NEW d \in Dirs,
         NEW names \in Seq(Word), NEW follow \in BOOLEAN,
         NEW links \in [Routes -> Place]
  PROVE  Through(t, root, d, names, follow, links) \in Place
<1> DEFINE Fol(i) == i < Len(names) \/ follow
           at[i \in 0..Len(names)] ==
             IF i = 0 THEN Here(d)
             ELSE Look(t, root, at[i-1], names[i], i < Len(names) \/ follow, links)
           F == [i \in 1..Len(names) |->
                   [a \in Place |-> Look(t, root, a, names[i], Fol(i), links)]]
<1>1. Len(names) \in Nat /\ \A i \in 1..Len(names) : names[i] \in Word
  OBVIOUS
<1>2. Here(d) \in Place
  BY DEF Here, Place, Element, Objects
<1>3. \A i \in 1..Len(names), a \in Place : Look(t, root, a, names[i], Fol(i), links) \in Place
  <2>1. \A i \in 1..Len(names) : Fol(i) \in BOOLEAN
    OBVIOUS
  <2> HIDE DEF Fol
  <2>2. QED
    BY <1>1, <2>1, LookType
<1>4. F \in [1..Len(names) -> [Place -> Place]]
  BY <1>3
<1>5. PICK h \in [0..Len(names) -> Place] :
             \A i \in 0..Len(names) : h[i] = IF i = 0 THEN Here(d) ELSE F[i][h[i-1]]
  <2> DEFINE L == Len(names)
  <2>1. L \in Nat /\ F \in [1..L -> [Place -> Place]]
    BY <1>1, <1>4
  <2> HIDE DEF F, L, at
  <2>2. \E h : IsLoop(h, L, Place, Here(d), F)
    BY <1>2, <2>1, LoopDefined
  <2>3. QED
    BY <2>2 DEF L, IsLoop
<1>6. h = [i \in 0..Len(names) |->
             IF i = 0 THEN Here(d) ELSE Look(t, root, h[i-1], names[i], Fol(i), links)]
  <2>1. ASSUME NEW i \in 0..Len(names)
        PROVE  h[i] = IF i = 0 THEN Here(d) ELSE Look(t, root, h[i-1], names[i], Fol(i), links)
    <3>1. i # 0 => i \in 1..Len(names) /\ h[i-1] \in Place
      <4>1. i # 0 => i \in 1..Len(names) /\ i-1 \in 0..Len(names)
        BY <1>1
      <4>2. QED
        BY <1>5, <4>1
    <3>2. h[i] = IF i = 0 THEN Here(d) ELSE F[i][h[i-1]]
      BY <1>5
    <3>3. QED
      BY <3>1, <3>2
  <2>2. QED
    BY <1>5, <2>1
<1>7. at = [i \in 0..Len(names) |->
              IF i = 0 THEN Here(d) ELSE Look(t, root, at[i-1], names[i], Fol(i), links)]
  <2> HIDE DEF F
  <2>1. QED
    BY <1>6
<1>8. Through(t, root, d, names, follow, links) = at[Len(names)]
  BY DEF Through
<1> HIDE DEF at, F
<1>9. at[0] = Here(d) /\ \A i \in 1..Len(names) :
                            at[i] = Look(t, root, at[i-1], names[i], Fol(i), links)
  BY <1>1, <1>7
<1>10. at[Len(names)] \in Place
  <2> DEFINE L == Len(names)
  <2>1. L \in Nat /\ at[0] \in Place
    BY <1>1, <1>2, <1>9
  <2>2. \A i \in 1..L : at[i-1] \in Place => at[i] \in Place
    BY <1>3, <1>9
  <2> HIDE DEF L
  <2>3. \A i \in 0..L : at[i] \in Place
    BY <2>1, <2>2, LoopStays
  <2>4. at[L] \in Place
    BY <2>1, <2>3
  <2>5. QED
    BY <2>4 DEF L
<1>11. QED
  BY <1>8, <1>10

(* Links within links.                                                     *)
LEMMA FollowedType ==
  ASSUME NEW t \in Trees, NEW root \in Dirs
  PROVE  Followed(t, root) \in [Routes -> Place]
<1> DEFINE Step(links) == [r \in Routes |-> Through(t, root, r.dir, r.names, TRUE, links)]
           none == [r \in Routes |-> NotFound]
           at[k \in 0..MaxLinks] ==
             [r \in Routes |-> IF k = 0 THEN NotFound
                               ELSE Through(t, root, r.dir, r.names, TRUE, at[k-1])]
           S == [Routes -> Place]
           F == [k \in 1..MaxLinks |-> [links \in S |-> Step(links)]]
<1>1. MaxLinks \in Nat /\ none \in S
  BY ObjectsAssumption DEF NotFound, Place
<1>2. \A links \in S : Step(links) \in S
  <2>1. ASSUME NEW r \in Routes, NEW links \in S
        PROVE  Through(t, root, r.dir, r.names, TRUE, links) \in Place
    <3>1. r.dir \in Dirs /\ r.names \in Seq(Word)
      BY SeqWithin DEF Routes, Word
    <3>2. QED
      BY <3>1, ThroughType
  <2>2. QED
    BY <2>1
<1>3. F \in [1..MaxLinks -> [S -> S]]
  BY <1>2
<1>4. PICK h \in [0..MaxLinks -> S] :
             \A k \in 0..MaxLinks : h[k] = IF k = 0 THEN none ELSE F[k][h[k-1]]
  <2>1. none \in S /\ MaxLinks \in Nat /\ F \in [1..MaxLinks -> [S -> S]]
    BY <1>1, <1>3
  <2> HIDE DEF none, S, F, at, Step
  <2>2. \E h : IsLoop(h, MaxLinks, S, none, F)
    BY <2>1, LoopDefined
  <2>3. QED
    BY <2>2 DEF IsLoop
<1>5. ASSUME NEW k \in 0..MaxLinks
      PROVE  h[k] = [r \in Routes |-> IF k = 0 THEN NotFound
                                      ELSE Through(t, root, r.dir, r.names, TRUE, h[k-1])]
  <2>1. h[k] = IF k = 0 THEN none ELSE F[k][h[k-1]]
    BY <1>4
  <2>2. CASE k = 0
    BY <2>1, <2>2
  <2>3. CASE k # 0
    <3>1. k \in 1..MaxLinks /\ k - 1 \in 0..MaxLinks
      BY <1>1, <2>3
    <3>2. h[k-1] \in S
      BY <1>4, <3>1
    <3>3. F[k][h[k-1]] = Step(h[k-1])
      BY <3>1, <3>2
    <3>4. QED
      BY <2>1, <2>3, <3>3
  <2>4. QED
    BY <2>2, <2>3
<1>6. h = [k \in 0..MaxLinks |->
             [r \in Routes |-> IF k = 0 THEN NotFound
                               ELSE Through(t, root, r.dir, r.names, TRUE, h[k-1])]]
  BY <1>4, <1>5
<1>7. at = [k \in 0..MaxLinks |->
              [r \in Routes |-> IF k = 0 THEN NotFound
                                ELSE Through(t, root, r.dir, r.names, TRUE, at[k-1])]]
  <2> HIDE DEF F, S, none, Step
  <2>1. QED
    BY <1>6
<1>8. Followed(t, root) = at[MaxLinks]
  BY DEF Followed
<1> HIDE DEF at, F
<1>9. at[0] = none
  BY <1>1, <1>7
<1>10. ASSUME NEW k \in 1..MaxLinks PROVE at[k] = Step(at[k-1])
  <2>1. k \in 0..MaxLinks /\ k # 0
    BY <1>1
  <2>2. at[k] = [r \in Routes |-> IF k = 0 THEN NotFound
                                  ELSE Through(t, root, r.dir, r.names, TRUE, at[k-1])]
    BY <1>7, <2>1
  <2>3. QED
    BY <2>1, <2>2
<1>11. at[MaxLinks] \in S
  <2> HIDE DEF S, Step, none
  <2>1. QED
    BY <1>1, <1>2, <1>9, <1>10, LoopStays
<1>12. QED
  BY <1>8, <1>11

(* A walk finds an object of the tree, or nothing, whatever the path: a    *)
(* name may even be empty.                                                 *)
LEMMA WalkType ==
  ASSUME NEW t \in Trees, NEW root \in Dirs, NEW d \in Dirs,
         NEW names \in Seq(Word), NEW follow \in BOOLEAN
  PROVE  Walk(t, root, d, names, follow) \in Place
  BY FollowedType, ThroughType DEF Walk

(* chdir to a path arrives in a directory, or nowhere.                     *)
LEMMA DirAtType ==
  ASSUME NEW t, NEW names
  PROVE  DirAt(t, names) \in Dirs \cup {None}
  BY DEF DirAt, DirectoryOf

-----------------------------------------------------------------------------
(***************************************************************************)
(* The calls leave a tree.                                                 *)
(***************************************************************************)
LEMMA EntryChanged ==
  ASSUME NEW t \in Trees, NEW d \in Dirs, NEW n \in Names, NEW o \in Objects \cup {None}
  PROVE  [t EXCEPT ![d][n] = o] \in Trees
  BY DEF Trees

(* mkdir and its like.                                                     *)
LEMMA AddType ==
  ASSUME NEW t \in Trees, NEW d, NEW n, NEW o \in Objects \cup {None}
  PROVE  Add(t, d, n, o) \in Trees
  BY EntryChanged DEF Add

(* rmdir and unlink.                                                       *)
LEMMA RemoveType ==
  ASSUME NEW t \in Trees, NEW d, NEW n
  PROVE  RemoveDir(t, d, n) \in Trees /\ RemoveName(t, d, n) \in Trees
  BY EntryChanged DEF RemoveDir, RemoveName

(* rename.                                                                 *)
LEMMA MoveType ==
  ASSUME NEW t \in Trees, NEW d, NEW n, NEW e, NEW m
  PROVE  Move(t, d, n, e, m) \in Trees
<1>1. ASSUME d \in Dirs, e \in Dirs, n \in Names, m \in Names
      PROVE  [[t EXCEPT ![d][n] = None] EXCEPT ![e][m] = t[d][n]] \in Trees
  <2>1. t[d][n] \in Objects \cup {None}
    BY <1>1 DEF Trees
  <2>2. [t EXCEPT ![d][n] = None] \in Trees
    BY <1>1, EntryChanged
  <2>3. QED
    BY <1>1, <2>1, <2>2, EntryChanged
<1>2. QED
  BY <1>1 DEF Move

(* link.                                                                   *)
LEMMA HardLinkType ==
  ASSUME NEW t \in Trees, NEW d, NEW n, NEW e, NEW m
  PROVE  HardLink(t, d, n, e, m) \in Trees
  BY AddType DEF HardLink, Objects

(* A new object is one of the kind asked for.                              *)
LEMMA UnusedType ==
  ASSUME NEW t, NEW kind, NEW held
  PROVE  Unused(t, kind, held) \in kind \cup {None}
  BY DEF Unused
=============================================================================
