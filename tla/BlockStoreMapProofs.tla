------------------------ MODULE BlockStoreMapProofs ------------------------
(***************************************************************************)
(* Proofs about BlockStore in every configuration, mapped files included.  *)
(* What a call does to the table takes one of three forms: it uses pages   *)
(* (GetPageMap and UsePage), it gives pages up (UnusePage and the deletion *)
(* of whole blocks), or it puts MappedBlocks in their place.  Each form is *)
(* shown once to keep the table sound and the program's pages where they   *)
(* are; each call is shown to have one of them.                            *)
(***************************************************************************)
EXTENDS BlockStoreProofs

(* The table is well formed whatever the program does.                     *)
Sound == TypeOK /\ BlocksSound

(* The mappings mmap.cc copes with: none, or none that replaces pages in   *)
(* use in its blocks and none that reaches past the end of the file.       *)
CopesWith == ForceLoad \/ (~TailSharing /\ ~PastEof)

(* How every call but msync leaves the counters: only a failure stops the  *)
(* emulator, and a failure is counted.                                     *)
Ended == /\ status' \in {"running", "aborted", "crashed", "dangling"}
         /\ failures' \in 0..MaxFailures
         /\ failures' = 0 => status' = "running"
         /\ ret' \in {"ok", "error"}

(* The condition under which a step keeps the program's pages.             *)
Keeps == CopesWith /\ status' # "dangling"

UsesPages(T, U) ==
  /\ U \in SUBSET Page /\ BlocksOf(U) \subseteq T
  /\ block' = FragmentedBlocks(T, U)
  /\ mem' \in [Page -> Content \cup {NoPage}]
  /\ vma' \in [Page -> {"none", "data", "beyond", "leaked"}]
  /\ Ended
  /\ Keeps => /\ \A p \in U : mem'[p] # NoPage
              /\ \A p \in Page \ U : /\ mem'[p] = FragmentedMem(T)[p]
                                     /\ vma'[p] \in {"data", "beyond"} => vma'[p] = vma[p]

GivesUpPages(D, P) ==
  /\ block' = UnusedBlocks(D, P)
  /\ mem' \in [Page -> Content \cup {NoPage}]
  /\ vma' \in [Page -> {"none", "data", "beyond", "leaked"}]
  /\ Ended
  /\ Keeps => \A p \in Page :
                /\ mem'[p] = UnusedMem(D, P)[p]
                /\ vma'[p] \in {"data", "beyond"}
                     => vma'[p] = vma[p] /\ p \notin P /\ BlockOf(p) \notin D

MapsPages(M) ==
  /\ M \in SUBSET Page
  /\ block' = MappedBlocks(M)
  /\ mem' \in [Page -> Content \cup {NoPage}]
  /\ vma' \in [Page -> {"none", "data", "beyond", "leaked"}]
  /\ Ended
  /\ Keeps => \A p \in Page :
                \/ p \in M /\ mem'[p] # NoPage
                \/ vma'[p] \in {"none", "leaked"}
                \/ BlockOf(p) \notin BlocksOf(M) /\ vma'[p] = vma[p] /\ mem'[p] = mem[p]

(* A block that loses its last page is freed.                              *)
Emptied == \A b \in Block : block[b].pages # {} /\ block'[b].pages = {}
                              => block'[b].kind = "none"

(* What each form achieves.                                                *)
StepDone == /\ Sound' /\ Emptied
            /\ failures' = 0 => status' = "running"
            /\ Kept /\ Keeps => Kept'
-----------------------------------------------------------------------------
(* The table stays typed when each of its blocks does.                     *)
LEMMA PagesTyped ==
  ASSUME NEW b \in Block
  PROVE  PagesOf[b] \in SUBSET Page
  BY DEF PagesOf

(* Pages GetPageMap and UsePage add to what a block holds.                 *)
LEMMA UsesPagesStep ==
  ASSUME Sound, NEW T, NEW U, UsesPages(T, U)
  PROVE  StepDone
<1>1. ASSUME NEW b \in Block
      PROVE  /\ block'[b] \in BlockState
             /\ block'[b].pages \subseteq PagesOf[b]
             /\ block'[b].kind = "none" => block'[b].pages = {}
             /\ block[b].pages \subseteq block'[b].pages
             /\ b \in T => U \cap PagesOf[b] \subseteq block'[b].pages
  <2>1. /\ block[b] \in BlockState
        /\ block[b].pages \subseteq PagesOf[b]
        /\ block[b].kind = "none" => block[b].pages = {}
    BY DEF Sound, TypeOK, BlocksSound
  <2>2. block'[b] = IF b \in T THEN Frag(Held(b) \cup (U \cap PagesOf[b])) ELSE block[b]
    BY DEF UsesPages, FragmentedBlocks
  <2>3. block[b].pages \subseteq Held(b) /\ Held(b) \subseteq PagesOf[b]
    BY <2>1 DEF Held
  <2>4. CASE b \in T
    <3>1. Held(b) \cup (U \cap PagesOf[b]) \in SUBSET Page
      BY <2>3, PagesTyped
    <3>2. block'[b] = Frag(Held(b) \cup (U \cap PagesOf[b]))
      BY <2>2, <2>4
    <3>3. /\ block'[b].pages = Held(b) \cup (U \cap PagesOf[b])
          /\ block'[b].kind = "frag"
          /\ block'[b] \in BlockState
      BY <3>1, <3>2 DEF Frag, BlockState
    <3>4. QED
      BY <3>3, <2>3
  <2>5. CASE b \notin T
    BY <2>1, <2>2, <2>5
  <2>6. QED
    BY <2>4, <2>5
<1>2. block' \in [Block -> BlockState]
  <2>1. block' = [b \in Block |-> block'[b]]
    BY DEF UsesPages, FragmentedBlocks
  <2>2. QED
    BY <2>1, <1>1
<1>3. Sound'
  BY <1>1, <1>2 DEF Sound, TypeOK, BlocksSound, UsesPages, Ended
<1>4. Emptied
  BY <1>1 DEF Emptied
<1>5. ASSUME Kept, Keeps
      PROVE  Kept'
  <2>1. ASSUME NEW p \in Page, vma'[p] \in {"data", "beyond"}
        PROVE  p \in block'[BlockOf(p)].pages /\ mem'[p] # NoPage
    <3>1. BlockOf(p) \in Block /\ p \in PagesOf[BlockOf(p)]
      BY BlockOfPage, PagesOfBlock
    <3>2. CASE p \in U
      <4>1. BlockOf(p) \in T
        BY <3>2 DEF UsesPages, BlocksOf
      <4>2. QED
        BY <1>1, <1>5, <3>1, <3>2, <4>1 DEF UsesPages
    <3>3. CASE p \notin U
      <4>1. /\ vma[p] \in {"data", "beyond"}
            /\ mem'[p] = FragmentedMem(T)[p]
        BY <1>5, <2>1, <3>3 DEF UsesPages
      <4>2. p \in block[BlockOf(p)].pages /\ mem[p] # NoPage
        BY <1>5, <4>1 DEF Kept, ProgramPages
      <4>3. mem'[p] = mem[p]
        BY <4>1, <4>2 DEF FragmentedMem
      <4>4. QED
        BY <1>1, <3>1, <4>2, <4>3
    <3>4. QED
      BY <3>2, <3>3
  <2>2. QED
    BY <1>3, <2>1 DEF Kept, Sound, ProgramPages
<1>6. QED
  BY <1>3, <1>4, <1>5 DEF StepDone, UsesPages, Ended

(* UnusePage leaves a block its other pages, and nothing of an empty one.  *)
LEMMA GivesUpPagesStep ==
  ASSUME Sound, NEW D, NEW P, GivesUpPages(D, P)
  PROVE  StepDone
<1>1. ASSUME NEW b \in Block
      PROVE  /\ block'[b] \in BlockState
             /\ block'[b].pages \subseteq PagesOf[b]
             /\ block'[b].kind = "none" => block'[b].pages = {}
             /\ b \notin D => block[b].pages \ P \subseteq block'[b].pages
             /\ block[b].pages # {} /\ block'[b].pages = {} => block'[b].kind = "none"
  <2>1. /\ block[b] \in BlockState
        /\ block[b].pages \subseteq PagesOf[b]
        /\ block[b].kind = "none" => block[b].pages = {}
    BY DEF Sound, TypeOK, BlocksSound
  <2>2. block'[b] = IF b \in D THEN NoBlock
                    ELSE IF P \cap PagesOf[b] = {} THEN block[b]
                    ELSE IF Held(b) \subseteq P THEN NoBlock
                    ELSE Frag(Held(b) \ P)
    BY DEF GivesUpPages, UnusedBlocks
  <2>3. block[b].pages \subseteq Held(b) /\ Held(b) \subseteq PagesOf[b]
    BY <2>1 DEF Held
  <2>4. NoBlock \in BlockState /\ NoBlock.pages = {} /\ NoBlock.kind = "none"
    BY DEF NoBlock, BlockState
  <2>5. CASE b \in D
    BY <2>2, <2>4, <2>5
  <2>6. CASE b \notin D /\ P \cap PagesOf[b] = {}
    BY <2>1, <2>2, <2>6
  <2>7. CASE b \notin D /\ P \cap PagesOf[b] # {} /\ Held(b) \subseteq P
    BY <2>2, <2>3, <2>4, <2>7
  <2>8. CASE b \notin D /\ P \cap PagesOf[b] # {} /\ ~(Held(b) \subseteq P)
    <3>1. block'[b] = Frag(Held(b) \ P)
      BY <2>2, <2>8
    <3>2. Held(b) \ P \in SUBSET Page /\ Held(b) \ P # {}
      BY <2>3, <2>8, PagesTyped
    <3>3. /\ block'[b].pages = Held(b) \ P
          /\ block'[b].kind = "frag"
          /\ block'[b] \in BlockState
      BY <3>1, <3>2 DEF Frag, BlockState
    <3>4. QED
      BY <2>3, <3>2, <3>3
  <2>9. QED
    BY <2>5, <2>6, <2>7, <2>8
<1>2. block' \in [Block -> BlockState]
  <2>1. block' = [b \in Block |-> block'[b]]
    BY DEF GivesUpPages, UnusedBlocks
  <2>2. QED
    BY <2>1, <1>1
<1>3. Sound'
  BY <1>1, <1>2 DEF Sound, TypeOK, BlocksSound, GivesUpPages, Ended
<1>4. Emptied
  BY <1>1 DEF Emptied
<1>5. ASSUME Kept, Keeps
      PROVE  Kept'
  <2>1. ASSUME NEW p \in Page, vma'[p] \in {"data", "beyond"}
        PROVE  p \in block'[BlockOf(p)].pages /\ mem'[p] # NoPage
    <3>1. /\ vma[p] \in {"data", "beyond"} /\ p \notin P /\ BlockOf(p) \notin D
          /\ mem'[p] = UnusedMem(D, P)[p]
      BY <1>5, <2>1 DEF GivesUpPages
    <3>2. p \in block[BlockOf(p)].pages /\ mem[p] # NoPage
      BY <1>5, <3>1 DEF Kept, ProgramPages
    <3>3. ~(Held(BlockOf(p)) \subseteq P)
      BY <3>1, <3>2, BlockOfPage DEF Held, Sound, BlocksSound
    <3>4. mem'[p] = mem[p]
      BY <3>1, <3>2, <3>3 DEF UnusedMem
    <3>5. QED
      BY <1>1, <3>1, <3>2, <3>4, BlockOfPage
  <2>2. QED
    BY <1>3, <2>1 DEF Kept, Sound, ProgramPages
<1>6. QED
  BY <1>3, <1>4, <1>5 DEF StepDone, GivesUpPages, Ended

(* Map's MappedBlocks hold exactly the mapped pages, at least one each.    *)
LEMMA MapsPagesStep ==
  ASSUME Sound, NEW M, MapsPages(M)
  PROVE  StepDone
<1>1. ASSUME NEW b \in Block
      PROVE  /\ block'[b] \in BlockState
             /\ block'[b].pages \subseteq PagesOf[b]
             /\ block'[b].kind = "none" => block'[b].pages = {}
             /\ block'[b] = IF b \in BlocksOf(M) THEN Mapped(M \cap PagesOf[b]) ELSE block[b]
             /\ b \in BlocksOf(M) => block'[b].pages = M \cap PagesOf[b]
             /\ block[b].pages # {} /\ block'[b].pages = {} => block'[b].kind = "none"
  <2>1. /\ block[b] \in BlockState
        /\ block[b].pages \subseteq PagesOf[b]
        /\ block[b].kind = "none" => block[b].pages = {}
    BY DEF Sound, TypeOK, BlocksSound
  <2>2. block'[b] = IF b \in BlocksOf(M) THEN Mapped(M \cap PagesOf[b]) ELSE block[b]
    BY DEF MapsPages, MappedBlocks
  <2>3. CASE b \in BlocksOf(M)
    <3>1. M \cap PagesOf[b] \in SUBSET Page
      BY PagesTyped
    <3>2. M \cap PagesOf[b] # {}
      <4>1. PICK p \in M : BlockOf(p) = b
        BY <2>3 DEF BlocksOf
      <4>2. QED
        BY <4>1, PagesOfBlock DEF MapsPages
    <3>3. block'[b] = Mapped(M \cap PagesOf[b])
      BY <2>2, <2>3
    <3>4. /\ block'[b].pages = M \cap PagesOf[b]
          /\ block'[b].kind = "mapped"
          /\ block'[b] \in BlockState
      BY <3>1, <3>3 DEF Mapped, BlockState
    <3>5. QED
      BY <2>2, <3>2, <3>4
  <2>4. CASE b \notin BlocksOf(M)
    BY <2>1, <2>2, <2>4
  <2>5. QED
    BY <2>3, <2>4
<1>2. block' \in [Block -> BlockState]
  <2>1. block' = [b \in Block |-> block'[b]]
    BY DEF MapsPages, MappedBlocks
  <2>2. QED
    BY <2>1, <1>1
<1>3. Sound'
  BY <1>1, <1>2 DEF Sound, TypeOK, BlocksSound, MapsPages, Ended
<1>4. Emptied
  BY <1>1 DEF Emptied
<1>5. ASSUME Kept, Keeps
      PROVE  Kept'
  <2>1. ASSUME NEW p \in Page, vma'[p] \in {"data", "beyond"}
        PROVE  p \in block'[BlockOf(p)].pages /\ mem'[p] # NoPage
    <3>1. BlockOf(p) \in Block /\ p \in PagesOf[BlockOf(p)]
      BY BlockOfPage, PagesOfBlock
    <3>2. CASE p \in M /\ mem'[p] # NoPage
      <4>1. BlockOf(p) \in BlocksOf(M)
        BY <3>2 DEF BlocksOf
      <4>2. QED
        BY <1>1, <3>1, <3>2, <4>1
    <3>3. CASE BlockOf(p) \notin BlocksOf(M) /\ vma'[p] = vma[p] /\ mem'[p] = mem[p]
      BY <1>1, <1>5, <2>1, <3>1, <3>3 DEF Kept, ProgramPages
    <3>4. QED
      BY <1>5, <2>1, <3>2, <3>3 DEF MapsPages
  <2>2. QED
    BY <1>3, <2>1 DEF Kept, Sound, ProgramPages
<1>6. QED
  BY <1>3, <1>4, <1>5 DEF StepDone, MapsPages, Ended
-----------------------------------------------------------------------------
(***************************************************************************)
(* Every call has one of the forms.                                        *)
(***************************************************************************)

(* A call that succeeds, is refused, or fails in a block, ends as it must. *)
LEMMA EndsWell ==
  ASSUME TypeOK, status = "running"
  PROVE  /\ Succeed => Ended
         /\ CountFailure => /\ failures' \in 1..MaxFailures
                            /\ ret' \in {"ok", "error"}
         /\ \A f : FailIn(f) => Ended
<1>1. Succeed => Ended
  BY DEF TypeOK, Succeed, Ended
<1>2. CountFailure => failures' \in 1..MaxFailures /\ ret' \in {"ok", "error"}
  BY SizesAssumption DEF TypeOK, CountFailure
<1>3. ASSUME NEW f, FailIn(f) PROVE Ended
  <2>1. status' \in {"running", "dangling"} /\ CountFailure
    BY <1>3 DEF FailIn
  <2>2. QED
    BY <1>2, <2>1, SizesAssumption DEF Ended
<1>4. QED
  BY <1>1, <1>2, <1>3

(* What a failed call leaves in vma never looks new to the program.        *)
LEMMA LeakAddsNothing ==
  ASSUME NEW P, NEW p \in Page, vma' = Leak(P), vma'[p] \in {"data", "beyond"}
  PROVE  vma'[p] = vma[p]
  BY DEF Leak

(* An anonymous mmap uses the pages of its span, or those before it failed. *)
LEMMA AnonymousForm ==
  ASSUME Sound, status = "running", NEW lo \in Page, NEW n \in Length,
         MmapAnonymousCall(lo, n)
  PROVE  StepDone
<1>0. TypeOK
  BY DEF Sound
<1>1. ASSUME NEW fixed \in BOOLEAN, MmapAnonymous(fixed, lo, n)
      PROVE  StepDone
  <2> DEFINE R == Span(lo, n)
  <2>1. /\ R \in SUBSET Page
        /\ mem' = [p \in Page |-> IF p \in R THEN Zero ELSE FragmentedMem(BlocksOf(R))[p]]
        /\ vma' = [p \in Page |-> IF p \in R THEN "data" ELSE vma[p]]
        /\ block' = FragmentedBlocks(BlocksOf(R), R)
        /\ Ended
    BY <1>0, <1>1, EndsWell DEF MmapAnonymous, Place
  <2> HIDE DEF R
  <2>2. /\ mem' \in [Page -> Content \cup {NoPage}]
        /\ vma' \in [Page -> {"none", "data", "beyond", "leaked"}]
        /\ \A p \in R : mem'[p] # NoPage
        /\ \A p \in Page \ R : /\ mem'[p] = FragmentedMem(BlocksOf(R))[p]
                               /\ vma'[p] = vma[p]
    BY <1>0, <2>1, FragmentedMemType, ContentsAssumption DEF Content, TypeOK
  <2>3. UsesPages(BlocksOf(R), R)
    BY <2>1, <2>2 DEF UsesPages
  <2>4. QED
    BY <2>3, UsesPagesStep
<1>2. ASSUME NEW f \in 0..BlockCount, MmapAnonymousFails(lo, n, f)
      PROVE  StepDone
  <2> DEFINE R == UpTo(Span(lo, n), f)
  <2>1. /\ R \in SUBSET Page
        /\ mem' = [p \in Page |-> IF p \in R THEN Zero
                                  ELSE IF Lost(f, p) THEN NoPage
                                  ELSE FragmentedMem(BlocksOf(R))[p]]
        /\ vma' = Leak(R)
        /\ block' = FragmentedBlocks(BlocksOf(R), R)
        /\ FailIn(f) /\ Ended
    BY <1>0, <1>2, EndsWell, UpToInRange DEF MmapAnonymousFails
  <2> HIDE DEF R
  <2>2. /\ mem' \in [Page -> Content \cup {NoPage}]
        /\ vma' \in [Page -> {"none", "data", "beyond", "leaked"}]
        /\ \A p \in R : mem'[p] # NoPage
    BY <1>0, <2>1, FragmentedMemType, LeakFacts, ContentsAssumption DEF Content
  <2>3. Keeps => \A p \in Page \ R : mem'[p] = FragmentedMem(BlocksOf(R))[p]
    BY <2>1, NothingLostUnlessDangling DEF Keeps
  <2>4. UsesPages(BlocksOf(R), R)
    BY <2>1, <2>2, <2>3, LeakAddsNothing DEF UsesPages
  <2>5. QED
    BY <2>4, UsesPagesStep
<1>3. QED
  BY <1>1, <1>2 DEF MmapAnonymousCall

(* Loading a file uses the pages of the span, or those before it failed.   *)
LEMMA LoadForm ==
  ASSUME Sound, status = "running",
         NEW lo \in Page, NEW n \in Length, NEW off \in Offset,
         \/ \E fixed \in BOOLEAN : MmapLoad(fixed, lo, n, off)
         \/ \E f \in 0..BlockCount : MmapLoadFails(lo, n, off, f)
         \/ \E q \in Page : MmapReadFails(lo, n, off, q)
  PROVE  StepDone
<1>0. TypeOK
  BY DEF Sound
<1>1. ASSUME NEW p \in Span(lo, n) PROVE lo <= p
  BY SizesAssumption DEF Span, Page
<1>2. ASSUME NEW fixed \in BOOLEAN, MmapLoad(fixed, lo, n, off)
      PROVE  StepDone
  <2> DEFINE R == Span(lo, n)
  <2>1. /\ R \in SUBSET Page
        /\ mem' = LoadedMem(BlocksOf(R), R, lo, off)
        /\ vma' = FileVma(lo, n, off)
        /\ block' = FragmentedBlocks(BlocksOf(R), R)
        /\ Ended
    BY <1>0, <1>2, EndsWell DEF MmapLoad, Place
  <2>2. /\ vma' \in [Page -> {"none", "data", "beyond", "leaked"}]
        /\ \A p \in Page \ R : vma'[p] = vma[p]
    BY <1>0, <2>1 DEF TypeOK, FileVma
  <2>3. \A p \in R : BlockOf(p) \in BlocksOf(R) /\ lo <= p
    BY <1>1 DEF BlocksOf
  <2> HIDE DEF R
  <2>4. /\ mem' \in [Page -> Content \cup {NoPage}]
        /\ \A p \in R : mem'[p] # NoPage
        /\ \A p \in Page \ R : mem'[p] = FragmentedMem(BlocksOf(R))[p]
    BY <1>0, <2>1, <2>3, LoadedMemFacts
  <2>5. UsesPages(BlocksOf(R), R)
    BY <2>1, <2>2, <2>4 DEF UsesPages
  <2>6. QED
    BY <2>5, UsesPagesStep
<1>3. ASSUME NEW f \in 0..BlockCount, MmapLoadFails(lo, n, off, f)
      PROVE  StepDone
  <2> DEFINE R == UpTo(Span(lo, n), f)
  <2>1. /\ R \in SUBSET Page
        /\ mem' = [p \in Page |-> IF Lost(f, p) THEN NoPage
                                  ELSE LoadedMem(BlocksOf(R), R, lo, off)[p]]
        /\ vma' = Leak(R)
        /\ block' = FragmentedBlocks(BlocksOf(R), R)
        /\ FailIn(f) /\ Ended
    BY <1>0, <1>3, EndsWell, UpToInRange DEF MmapLoadFails
  <2>2. \A p \in R : BlockOf(p) \in BlocksOf(R) /\ lo <= p
    BY <1>1 DEF BlocksOf, UpTo
  <2> HIDE DEF R
  <2>3. /\ LoadedMem(BlocksOf(R), R, lo, off) \in [Page -> Content \cup {NoPage}]
        /\ \A p \in R : LoadedMem(BlocksOf(R), R, lo, off)[p] # NoPage
        /\ \A p \in Page \ R : LoadedMem(BlocksOf(R), R, lo, off)[p]
                                 = FragmentedMem(BlocksOf(R))[p]
    BY <1>0, <2>1, <2>2, LoadedMemFacts
  <2>4. /\ mem' \in [Page -> Content \cup {NoPage}]
        /\ vma' \in [Page -> {"none", "data", "beyond", "leaked"}]
    BY <1>0, <2>1, <2>3, LeakFacts
  <2>5. Keeps => \A p \in Page : mem'[p] = LoadedMem(BlocksOf(R), R, lo, off)[p]
    BY <2>1, NothingLostUnlessDangling DEF Keeps
  <2>6. UsesPages(BlocksOf(R), R)
    BY <2>1, <2>3, <2>4, <2>5, LeakAddsNothing DEF UsesPages
  <2>7. QED
    BY <2>6, UsesPagesStep
<1>4. ASSUME NEW q \in Page, MmapReadFails(lo, n, off, q)
      PROVE  StepDone
  <2> DEFINE R == lo..q
  <2>1. /\ R \in SUBSET Page
        /\ mem' = LoadedMem(BlocksOf(R), R \ {q}, lo, off)
        /\ vma' = Leak(R)
        /\ block' = FragmentedBlocks(BlocksOf(R), R)
        /\ CountFailure /\ status' = "running"
        /\ \A p \in R : lo <= p
    BY <1>4 DEF MmapReadFails
  <2>2. \A p \in R : BlockOf(p) \in BlocksOf(R)
    BY DEF BlocksOf
  <2> HIDE DEF R
  <2>3. /\ mem' \in [Page -> Content \cup {NoPage}]
        /\ \A p \in R : mem'[p] # NoPage
        /\ \A p \in Page \ R : mem'[p] = FragmentedMem(BlocksOf(R))[p]
    BY <1>0, <2>1, <2>2, LoadedMemFacts
  <2>4. Ended
    BY <1>0, <2>1, EndsWell, SizesAssumption DEF Ended
  <2>5. UsesPages(BlocksOf(R), R)
    BY <1>0, <2>1, <2>3, <2>4, LeakFacts, LeakAddsNothing DEF UsesPages
  <2>6. QED
    BY <2>5, UsesPagesStep
<1>5. QED
  BY <1>2, <1>3, <1>4

(* Where nothing lies past the end of the file, the whole span is mapped.  *)
LEMMA WholeSpanMapped ==
  ASSUME NEW lo \in Page, NEW n \in Length, NEW off \in Offset
  PROVE  /\ RealLen(n, off) \in Int /\ RealLen(n, off) <= n
         /\ RealLen(n, off) <= FileLen - off
         /\ off + n <= FileLen => RealLen(n, off) = n
  BY SizesAssumption DEF RealLen

(* Mapping a file maps the pages the file has.                             *)
LEMMA MapForm ==
  ASSUME Sound, status = "running", NEW fixed \in BOOLEAN,
         NEW lo \in Page, NEW n \in Length, NEW off \in Offset,
         MmapMap(fixed, lo, n, off)
  PROVE  StepDone
<1> DEFINE M == Span(lo, RealLen(n, off))
<1>0. TypeOK
  BY DEF Sound
<1>1. /\ block' = MappedBlocks(M)
      /\ mem' = MappedMem(M, lo, off)
      /\ vma' = FileVma(lo, n, off)
      /\ Span(lo, n) \subseteq Page
      /\ Maps(lo, n, off)
      /\ Ended
  BY <1>0, EndsWell DEF MmapMap, Place
<1>2. M \subseteq Span(lo, n) /\ lo \in Int /\ off \in Int /\ n \in Int /\ FileLen \in Nat
  BY WholeSpanMapped, SizesAssumption DEF Span, Page
<1>3. ASSUME NEW p \in M PROVE off + p - lo \in 0..FileLen-1
  <2> DEFINE r == RealLen(n, off)
  <2>1. r \in Int /\ r <= FileLen - off /\ off \in 0..FileLen
    BY WholeSpanMapped, SizesAssumption
  <2>2. p \in lo .. lo + r - 1
    BY <1>3 DEF Span
  <2> HIDE DEF r
  <2>3. QED
    BY <1>2, <2>1, <2>2
<1>4. mem' \in [Page -> Content \cup {NoPage}] /\ \A p \in M : mem'[p] # NoPage
  BY <1>0, <1>1, <1>2, <1>3, ContentsAssumption DEF MappedMem, Content, TypeOK
<1>5. vma' \in [Page -> {"none", "data", "beyond", "leaked"}]
  BY <1>0, <1>1 DEF FileVma, TypeOK
<1>6. ASSUME Keeps, NEW p \in Page
      PROVE  \/ p \in M /\ mem'[p] # NoPage
             \/ vma'[p] \in {"none", "leaked"}
             \/ BlockOf(p) \notin BlocksOf(M) /\ vma'[p] = vma[p] /\ mem'[p] = mem[p]
  <2>1. ~TailSharing /\ ~PastEof
    BY <1>1, <1>6 DEF Keeps, CopesWith, Maps, Loads
  <2>2. M = Span(lo, n)
    BY <1>1, <2>1, WholeSpanMapped DEF Maps, FileRequest
  <2>3. CASE p \in M
    BY <1>4, <2>3
  <2>4. CASE p \notin M /\ BlockOf(p) \in BlocksOf(M)
    <3>1. vma[p] \notin {"data", "beyond"}
      BY <1>1, <2>1, <2>2, <2>4 DEF Maps
    <3>2. vma'[p] = vma[p]
      BY <1>1, <2>2, <2>4 DEF FileVma
    <3>3. QED
      BY <1>0, <3>1, <3>2 DEF TypeOK
  <2>5. CASE p \notin M /\ BlockOf(p) \notin BlocksOf(M)
    BY <1>1, <2>2, <2>5 DEF FileVma, MappedMem
  <2>6. QED
    BY <2>3, <2>4, <2>5
<1>7. MapsPages(M)
  <2>1. M \in SUBSET Page
    BY <1>1, <1>2
  <2> HIDE DEF M
  <2>2. QED
    BY <1>1, <1>4, <1>5, <1>6, <2>1 DEF MapsPages
<1>8. QED
  BY <1>7, MapsPagesStep

(* A mapping that fails gives up every block it was going to replace.      *)
LEMMA MapFailsForm ==
  ASSUME Sound, status = "running", NEW f \in 0..BlockCount,
         NEW lo \in Page, NEW n \in Length, NEW off \in Offset,
         MmapMapFails(lo, n, off, f)
  PROVE  StepDone
<1> DEFINE M == Span(lo, RealLen(n, off))
           gone == BlocksOf(M)
           S == {p \in Span(lo, n) : BlockOf(p) \in gone}
<1>0. TypeOK
  BY DEF Sound
<1>1. /\ block' = [b \in Block |-> IF b \in gone THEN NoBlock ELSE block[b]]
      /\ mem' = [p \in Page |-> IF BlockOf(p) \in gone THEN NoPage ELSE mem[p]]
      /\ vma' = Forget(S)
      /\ Maps(lo, n, off)
      /\ CountFailure
      /\ status' \in {"running", "aborted", "crashed"}
  BY DEF MmapMapFails
<1>2. Ended
  BY <1>0, <1>1, EndsWell, SizesAssumption DEF Ended
<1>3. ASSUME Keeps, NEW p \in Page, vma'[p] \in {"data", "beyond"}
      PROVE  vma'[p] = vma[p] /\ BlockOf(p) \notin gone
  <2>1. ~TailSharing
    BY <1>1, <1>3 DEF Keeps, CopesWith, Maps, Loads
  <2>2. p \notin S /\ vma'[p] = vma[p]
    BY <1>1, <1>3 DEF Forget
  <2>3. CASE p \in Span(lo, n)
    BY <2>2, <2>3
  <2>4. CASE p \notin Span(lo, n)
    BY <1>1, <1>3, <2>1, <2>2, <2>4 DEF Maps
  <2>5. QED
    BY <2>2, <2>3, <2>4
<1> HIDE DEF gone, S
<1>4. block' = UnusedBlocks(gone, {}) /\ mem' = UnusedMem(gone, {})
  BY <1>1 DEF UnusedBlocks, UnusedMem
<1>5. /\ mem' \in [Page -> Content \cup {NoPage}]
      /\ vma' \in [Page -> {"none", "data", "beyond", "leaked"}]
  BY <1>0, <1>1 DEF TypeOK, Forget
<1>6. GivesUpPages(gone, {})
  BY <1>2, <1>3, <1>4, <1>5 DEF GivesUpPages
<1>7. QED
  BY <1>6, GivesUpPagesStep

(* A munmap gives up whole blocks and loose pages.                         *)
LEMMA MunmapForm ==
  ASSUME Sound, status = "running", NEW lo \in Page, NEW n \in Length,
         MunmapCall(lo, n)
  PROVE  StepDone
<1> DEFINE W == WholeBlocks(lo, n)
           L == LoosePages(lo, n)
<1>0. TypeOK /\ Zero \in Content
  BY DEF Sound, Content
<1>1. /\ L \in SUBSET Span(lo, n)
      /\ \A p \in Page : p \in Span(lo, n) <=> BlockOf(p) \in W \/ p \in L
  BY MunmapParts
<1>2. \A D, P : UnusedMem(D, P) \in [Page -> Content \cup {NoPage}]
  BY <1>0 DEF UnusedMem, TypeOK
<1>3. \A S : Forget(S) \in [Page -> {"none", "data", "beyond", "leaked"}]
  BY <1>0 DEF Forget, TypeOK
<1>4. CASE Munmap(lo, n)
  <2>1. /\ block' = UnusedBlocks(W, L)
        /\ mem' = UnusedMem(W, L)
        /\ vma' = Forget(Span(lo, n))
        /\ Ended
    BY <1>0, <1>4, EndsWell DEF Munmap
  <2> HIDE DEF W, L
  <2>2. \A p \in Page : vma'[p] \in {"data", "beyond"}
                          => vma'[p] = vma[p] /\ p \notin L /\ BlockOf(p) \notin W
    BY <1>1, <2>1 DEF Forget
  <2>3. GivesUpPages(W, L)
    BY <1>2, <1>3, <2>1, <2>2 DEF GivesUpPages
  <2>4. QED
    BY <2>3, GivesUpPagesStep
<1>5. ASSUME NEW f \in 0..BlockCount, MunmapFails(lo, n, f)
      PROVE  StepDone
  <2> DEFINE D == {b \in W : b < f}
             P == UpTo(L, IF Recreates(f, L) THEN f + 1 ELSE f)
             S == {p \in Span(lo, n) : BlockOf(p) \in D} \cup P
  <2>1. /\ block' = UnusedBlocks(D, P)
        /\ mem' = [p \in Page |-> IF Lost(f, p) THEN NoPage ELSE UnusedMem(D, P)[p]]
        /\ vma' = Forget(S)
        /\ FailIn(f) /\ Ended
    BY <1>0, <1>5, EndsWell DEF MunmapFails
  <2>2. \A p \in Page : BlockOf(p) \in D \/ p \in P => p \in S
    BY <1>1
  <2> HIDE DEF W, L, D, P, S
  <2>3. /\ mem' \in [Page -> Content \cup {NoPage}]
        /\ vma' \in [Page -> {"none", "data", "beyond", "leaked"}]
    BY <1>2, <1>3, <2>1
  <2>4. Keeps => \A p \in Page : mem'[p] = UnusedMem(D, P)[p]
    BY <2>1, NothingLostUnlessDangling DEF Keeps
  <2>5. \A p \in Page : vma'[p] \in {"data", "beyond"}
                          => vma'[p] = vma[p] /\ p \notin P /\ BlockOf(p) \notin D
    BY <2>1, <2>2 DEF Forget
  <2>6. GivesUpPages(D, P)
    BY <2>1, <2>3, <2>4, <2>5 DEF GivesUpPages
  <2>7. QED
    BY <2>6, GivesUpPagesStep
<1>6. QED
  BY <1>4, <1>5 DEF MunmapCall

(* MakeWriteable uses no page, only blocks.                                *)
LEMMA PatchForm ==
  ASSUME Sound, status = "running", NEW p \in Page, NEW spill \in 0..4,
         PatchCall(p, spill)
  PROVE  StepDone
<1>0. /\ TypeOK
      /\ \A T : BlocksOf({}) \subseteq T
      /\ \A T : FragmentedMem(T) \in [Page -> Content \cup {NoPage}]
  <2>1. TypeOK
    BY DEF Sound
  <2>2. ASSUME NEW T PROVE FragmentedMem(T) \in [Page -> Content \cup {NoPage}]
    <3>1. FragmentedMem(T) = [q \in Page |-> FragmentedMem(T)[q]]
      BY DEF FragmentedMem
    <3>2. QED
      BY <2>1, <3>1, FragmentedMemType
  <2>3. QED
    BY <2>1, <2>2 DEF BlocksOf
<1>1. CASE MakeWriteable(p, spill)
  <2> DEFINE T == CodeBlocks(p, spill)
  <2>1. /\ block' = FragmentedBlocks(T, {})
        /\ mem' = FragmentedMem(T)
        /\ vma' = vma
        /\ Ended
    BY <1>0, <1>1 DEF MakeWriteable, Ended, TypeOK
  <2> HIDE DEF T
  <2>2. UsesPages(T, {})
    BY <1>0, <2>1 DEF UsesPages, TypeOK
  <2>3. QED
    BY <2>2, UsesPagesStep
<1>2. ASSUME NEW f \in Block, MakeWriteableFails(p, spill, f)
      PROVE  StepDone
  <2> DEFINE T == {b \in CodeBlocks(p, spill) : b < f}
  <2>1. /\ block' = FragmentedBlocks(T, {})
        /\ mem' = [q \in Page |-> IF Lost(f, q) THEN NoPage ELSE FragmentedMem(T)[q]]
        /\ vma' = vma /\ ret' = ret
        /\ failures < MaxFailures /\ failures' = failures + 1
        /\ status' = IF block[f].kind = "mapped" THEN "dangling" ELSE "running"
    BY <1>2 DEF MakeWriteableFails
  <2>2. Ended
    BY <1>0, <2>1, SizesAssumption DEF Ended, TypeOK
  <2>3. Keeps => \A q \in Page : mem'[q] = FragmentedMem(T)[q]
    BY <2>1 DEF Keeps, Lost
  <2> HIDE DEF T
  <2>4. mem' \in [Page -> Content \cup {NoPage}]
    BY <1>0, <2>1
  <2>5. UsesPages(T, {})
    BY <1>0, <2>1, <2>2, <2>3, <2>4 DEF UsesPages, TypeOK
  <2>6. QED
    BY <2>5, UsesPagesStep
<1>3. QED
  BY <1>1, <1>2 DEF PatchCall
-----------------------------------------------------------------------------
(***************************************************************************)
(* The three results: types and freed blocks in every configuration, no    *)
(* undefined behaviour without a failed call, and Linux's memory.          *)
(***************************************************************************)

(* The table starts empty and sound.                                       *)
LEMMA InitSound == Init => Sound /\ Kept
  BY SizesAssumption, ContentsAssumption
  DEF Init, Sound, Kept, TypeOK, BlocksSound, ProgramPages, BlockState, NoBlock, Content

(* A program that syncs pages it has finds a block under each; one that    *)
(* syncs others may end the emulator, but changes nothing.                 *)
LEMMA MsyncStays ==
  ASSUME Sound, status = "running", NEW lo \in Page, NEW n \in Length, MsyncCall(lo, n)
  PROVE  /\ UNCHANGED <<block, mem, vma>>
         /\ failures' \in 0..MaxFailures /\ ret' \in {"ok", "error"}
         /\ status' \in {"running", "crashed", "badsync"}
         /\ Kept => status' # "crashed"
<1>1. UNCHANGED <<block, mem, vma>>
  BY DEF MsyncCall, Msync, MsyncFails, MsyncNull
<1>2. CASE Msync(lo, n)
  BY <1>1, <1>2 DEF Msync, Succeed, Sound, TypeOK
<1>3. ASSUME NEW f \in 0..BlockCount, MsyncFails(lo, n, f)
      PROVE  /\ failures' \in 0..MaxFailures /\ ret' \in {"ok", "error"}
             /\ status' = "running"
  BY <1>3, SizesAssumption DEF MsyncFails, CountFailure, Sound, TypeOK
<1>4. ASSUME NEW f \in 0..BlockCount, MsyncNull(lo, n, f)
      PROVE  /\ failures' \in 0..MaxFailures /\ ret' \in {"ok", "error"}
             /\ status' \in {"crashed", "badsync"}
             /\ Kept => status' # "crashed"
  <2>1. PICK q \in Span(lo, n) : BlockOf(q) = f /\ f \in Block
    BY <1>4 DEF MsyncNull, BlocksOf
  <2>2. block[f].kind = "none"
    BY <1>4, <2>1 DEF MsyncNull, Present
  <2>3. Kept /\ q \in Page /\ vma[q] \in {"data", "beyond"} => block[f].kind # "none"
    BY <2>1, BlockOfPage DEF Kept, BlocksSound, ProgramPages
  <2>4. QED
    BY <1>4, <2>1, <2>2, <2>3 DEF MsyncNull, Sound, TypeOK
<1>5. QED
  BY <1>1, <1>2, <1>3, <1>4 DEF MsyncCall

(* What a step that leaves the table and the program's pages alone keeps.  *)
LEMMA SameTable ==
  ASSUME Sound, UNCHANGED <<block, mem, vma>>,
         status' \in {"running", "aborted", "crashed", "badsync", "dangling"},
         failures' \in 0..MaxFailures, ret' \in {"ok", "error"}
  PROVE  Sound' /\ Emptied /\ (Kept => Kept')
<1>1. Sound'
  BY DEF Sound, TypeOK, BlocksSound
<1>2. Emptied
  BY DEF Emptied, Sound, BlocksSound
<1>3. Kept => Kept'
  BY <1>1 DEF Kept, Sound, ProgramPages
<1>4. QED
  BY <1>1, <1>2, <1>3

(* A store writes to a page that is there already.                         *)
LEMMA StoreSound ==
  ASSUME Sound, NEW p \in Page, Store(p)
  PROVE  Sound' /\ Emptied /\ (Kept => Kept')
<1>1. /\ mem' \in [Page -> Content \cup {NoPage}]
      /\ \A q \in Page : mem'[q] = NoPage <=> mem[q] = NoPage
  BY ContentsAssumption DEF Store, Sound, TypeOK, Content
<1>2. UNCHANGED <<block, status, failures, ret, vma>>
  BY DEF Store
<1>3. Sound'
  BY <1>1, <1>2 DEF Sound, TypeOK, BlocksSound
<1>4. Emptied
  BY <1>2 DEF Emptied, Sound, BlocksSound
<1>5. Kept => Kept'
  BY <1>1, <1>2, <1>3 DEF Kept, Sound, ProgramPages
<1>6. QED
  BY <1>3, <1>4, <1>5

(* What one step of any kind does.                                         *)
LEMMA StepSound ==
  ASSUME Sound, [Next]_vars
  PROVE  /\ Sound' /\ Emptied
         /\ Kept /\ Keeps => Kept'
         /\ Kept /\ DefinedUnlessFailed => DefinedUnlessFailed'
<1> DEFINE Goal == /\ Sound' /\ Emptied
                   /\ Kept /\ Keeps => Kept'
                   /\ Kept /\ DefinedUnlessFailed => DefinedUnlessFailed'
<1>1. ASSUME UNCHANGED vars PROVE Goal
  BY <1>1, SameTable DEF vars, Sound, TypeOK, DefinedUnlessFailed, StaysDefined
<1>2. ASSUME StepDone PROVE Goal
  BY <1>2 DEF StepDone, DefinedUnlessFailed, StaysDefined
<1>3. ASSUME status = "running", MmapRefused PROVE Goal
  <2>1. /\ UNCHANGED <<block, mem, status, vma>>
        /\ failures' \in 1..MaxFailures /\ ret' \in {"ok", "error"}
    BY <1>3, EndsWell DEF MmapRefused, Sound
  <2>2. failures' \in 0..MaxFailures
    BY <2>1, SizesAssumption
  <2>3. Sound' /\ Emptied /\ (Kept => Kept')
    BY <1>3, <2>1, <2>2, SameTable
  <2>4. QED
    BY <1>3, <2>1, <2>3 DEF DefinedUnlessFailed, StaysDefined
<1>4. ASSUME status = "running", NEW lo \in Page, NEW n \in Length, MsyncCall(lo, n)
      PROVE  Goal
  <2>1. Sound' /\ Emptied /\ (Kept => Kept')
    BY <1>4, MsyncStays, SameTable
  <2>2. QED
    BY <1>4, <2>1, MsyncStays DEF DefinedUnlessFailed, StaysDefined
<1>5. ASSUME status = "running", NEW p \in Page, Store(p) PROVE Goal
  BY <1>5, StoreSound DEF Store, DefinedUnlessFailed, StaysDefined
<1>6. ASSUME status = "running", NEW lo \in Page, NEW n \in Length, NEW off \in Offset,
             MmapFileCall(lo, n, off)
      PROVE  StepDone
  BY <1>6, LoadForm, MapForm, MapFailsForm DEF MmapFileCall
<1> HIDE DEF Goal
<1>7. Goal
  BY <1>1, <1>2, <1>3, <1>4, <1>5, <1>6, AnonymousForm, MunmapForm, PatchForm DEF Next
<1>8. QED
  BY <1>7 DEF Goal

(* In every configuration the table stays well formed.                     *)
THEOREM SoundAlways == Spec => []Sound
<1>1. Init => Sound
  BY InitSound
<1>2. Sound /\ [Next]_vars => Sound'
  BY StepSound
<1>3. QED
  BY <1>1, <1>2, PTL DEF Spec

(* In every configuration the variables always have their types, whatever  *)
(* is mapped over what and whichever calls fail.                           *)
THEOREM TypeCorrect == Spec => []TypeOK
<1>1. Sound => TypeOK
  BY DEF Sound
<1>2. QED
  BY SoundAlways, <1>1, PTL

(* In every configuration a Block whose last bit is cleared is deleted: by *)
(* UnusePage (mmap.cc:326), by Unmap, or for the MappedBlock put there.    *)
LEMMA LastBitFrees == Sound /\ [Next]_vars => [Emptied]_vars
  BY StepSound

(* With --forceload the bits are those of the pages Linux would have       *)
(* mapped, or a failed call has left: so the Block goes with the last of   *)
(* them, in whatever order they go and whichever calls fail.               *)
THEOREM EmptiedBlocksAreFreed == ForceLoad => (Spec => EmptiedIsFreed)
<1> SUFFICES ASSUME ForceLoad PROVE Spec => EmptiedIsFreed
  OBVIOUS
<1>1. ASSUME Sound, Inv, Inv', [Next]_vars,
             NEW b \in Block,
             \E p \in PagesOf[b] : vma[p] # "none",
             \A p \in PagesOf[b] : vma'[p] = "none"
      PROVE  block'[b].kind = "none"
  <2>1. \A p \in PagesOf[b] : p \in Page /\ BlockOf(p) = b
    BY DEF PagesOf
  <2>2. block[b].pages # {}
    BY <1>1, <2>1 DEF Inv, BitsExact
  <2>3. block'[b].pages = {}
    <3>1. \A p \in PagesOf[b] : p \notin block'[b].pages
      BY <1>1, <2>1 DEF Inv, BitsExact
    <3>2. block'[b].pages \subseteq PagesOf[b]
      BY <1>1 DEF Inv, OnlyFragments
    <3>3. QED
      BY <3>1, <3>2
  <2>4. QED
    BY <1>1, <2>2, <2>3, StepSound DEF Emptied
<1>2. Sound /\ Inv /\ Inv' /\ [Next]_vars
        => [\A b \in Block :
              (\E p \in PagesOf[b] : vma[p] # "none") /\ (\A p \in PagesOf[b] : vma'[p] = "none")
                => block'[b].kind = "none"]_vars
  BY <1>1
<1>3. QED
  BY SoundAlways, Invariance, <1>2, PTL DEF Spec, EmptiedIsFreed

(* The invariant where files are mapped: the program's pages are kept as   *)
(* long as no deleted Block is in the table, and only a failed call ends   *)
(* the emulator.                                                           *)
MapInv == /\ Sound
          /\ status # "dangling" => Kept
          /\ DefinedUnlessFailed

(* Every step of a program mmap.cc copes with preserves that invariant.    *)
LEMMA NextMapInv == CopesWith /\ MapInv /\ [Next]_vars => MapInv'
<1> SUFFICES ASSUME CopesWith, MapInv, [Next]_vars PROVE MapInv'
  OBVIOUS
<1>1. CASE UNCHANGED vars
  <2>1. Sound' /\ (Kept => Kept')
    BY <1>1, SameTable DEF vars, MapInv, Sound, TypeOK
  <2>2. QED
    BY <1>1, <2>1 DEF vars, MapInv, DefinedUnlessFailed, StaysDefined
<1>2. CASE Next
  <2>1. status = "running" /\ Kept
    BY <1>2 DEF Next, MapInv
  <2>2. QED
    BY <2>1, StepSound DEF MapInv, Keeps, DefinedUnlessFailed, StaysDefined
<1>3. QED
  BY <1>1, <1>2

(* Such a program keeps its pages in every state.                          *)
LEMMA MapInvariance == CopesWith => (Spec => []MapInv)
<1> SUFFICES ASSUME CopesWith PROVE Spec => []MapInv
  OBVIOUS
<1>1. Init => MapInv
  BY InitSound DEF Init, MapInv, DefinedUnlessFailed, StaysDefined
<1>2. MapInv /\ [Next]_vars => MapInv'
  BY NextMapInv
<1>3. QED
  BY <1>1, <1>2, PTL DEF Spec

(* Where files are mapped only over whole blocks, or blocks with nothing   *)
(* else in use, and not past their end, no assertion fails and no NULL or  *)
(* deleted Block is used before a call to Interix fails, unless the        *)
(* program msyncs pages it has not mapped.                                 *)
THEOREM MappingNeedsAFailure == CopesWith => (Spec => []DefinedUnlessFailed)
<1>1. MapInv => DefinedUnlessFailed
  BY DEF MapInv
<1>2. QED
  BY MapInvariance, <1>1, PTL
-----------------------------------------------------------------------------
(* A file that is mapped is one mapped by Linux.                           *)
LEMMA MapRefines ==
  ASSUME CopesWith, Kept, Kept', NEW fixed \in BOOLEAN,
         NEW lo \in Page, NEW n \in Length, NEW off \in Offset,
         MmapMap(fixed, lo, n, off)
  PROVE  Linux!MapFile(fixed, lo, n, off)
<1> DEFINE M == Span(lo, RealLen(n, off))
<1>1. /\ mem' = MappedMem(M, lo, off)
      /\ vma' = FileVma(lo, n, off)
      /\ Maps(lo, n, off)
      /\ ret' = "ok"
  BY DEF MmapMap, Succeed
<1>2. ~TailSharing /\ ~PastEof
  BY <1>1 DEF CopesWith, Maps, Loads
<1>3. M = Span(lo, n) /\ off + n <= FileLen
  BY <1>1, <1>2, WholeSpanMapped DEF Maps, FileRequest
<1> HIDE DEF M
<1>4. ASSUME NEW p \in Page
      PROVE  View'[p] = IF p \in M THEN Linux!FilePage(off + p - lo) ELSE View[p]
  <2>1. CASE p \in M
    <3>1. off + p - lo < FileLen
      BY <1>3, <2>1, SizesAssumption DEF Span, Page
    <3>2. vma'[p] = "data" /\ mem'[p] = off + p - lo
      BY <1>1, <1>3, <2>1, <3>1 DEF FileVma, MappedMem
    <3>3. QED
      BY <2>1, <3>1, <3>2, ViewCorrectNext DEF ViewFacts, Linux!FilePage
  <2>2. CASE p \notin M
    <3>1. vma'[p] = vma[p]
      BY <1>1, <1>3, <2>2 DEF FileVma
    <3>2. vma[p] = "data" => BlockOf(p) \notin BlocksOf(M)
      BY <1>1, <1>2, <1>3, <2>2 DEF Maps, M
    <3>3. vma[p] = "data" => mem'[p] = mem[p]
      BY <1>1, <2>2, <3>2 DEF MappedMem
    <3>4. QED
      BY <2>2, <3>1, <3>3, SameView
  <2>3. QED
    BY <2>1, <2>2
<1>5. View' = [p \in Page |-> IF p \in M THEN Linux!FilePage(off + p - lo) ELSE View[p]]
  BY <1>4, ViewCorrectNext DEF ViewFacts
<1>6. Linux!Place(fixed, lo, n)
  BY PlaceRefines DEF MmapMap
<1>7. QED
  BY <1>1, <1>3, <1>5, <1>6 DEF Linux!MapFile, Linux!Span, Span

(* A file that could not be mapped costs the program only the span.        *)
LEMMA MapFailsRefines ==
  ASSUME CopesWith, Kept, Kept', NEW f \in 0..BlockCount,
         NEW lo \in Page, NEW n \in Length, NEW off \in Offset,
         MmapMapFails(lo, n, off, f)
  PROVE  Linux!Fail(lo, n)
<1> DEFINE gone == BlocksOf(Span(lo, RealLen(n, off)))
           S == {p \in Span(lo, n) : BlockOf(p) \in gone}
<1>1. /\ mem' = [p \in Page |-> IF BlockOf(p) \in gone THEN NoPage ELSE mem[p]]
      /\ vma' = Forget(S)
      /\ Maps(lo, n, off)
      /\ ret' = "error"
  BY DEF MmapMapFails, CountFailure
<1>2. ~TailSharing
  BY <1>1 DEF CopesWith, Maps, Loads
<1>3. ASSUME NEW p \in Page \ Span(lo, n)
      PROVE  View'[p] = View[p]
  <2>1. vma'[p] = vma[p]
    BY <1>1 DEF Forget
  <2>2. vma[p] = "data" => BlockOf(p) \notin gone
    BY <1>1, <1>2, <1>3 DEF Maps
  <2>3. vma[p] = "data" => mem'[p] = mem[p]
    BY <1>1, <2>2
  <2>4. QED
    BY <2>1, <2>3, SameView
<1>4. QED
  BY <1>1, <1>3, FailRefines

(* Every step but one that leaves a deleted Block is a step of Linux.      *)
LEMMA MapNextRefines ==
  CopesWith /\ MapInv /\ MapInv' /\ [Next]_vars
    => [Linux!Next \/ status' = "dangling"]_Linux!vars
<1> SUFFICES ASSUME CopesWith, MapInv, MapInv', [Next]_vars, status' # "dangling"
             PROVE  [Linux!Next]_Linux!vars
  OBVIOUS
<1>1. CASE UNCHANGED vars
  BY <1>1 DEF vars, View, Linux!vars
<1>2. CASE Next
  <2>0. Kept /\ Kept'
    BY <1>2 DEF Next, MapInv
  <2>1. ASSUME NEW lo \in Page, NEW n \in Length, MmapRefused PROVE Linux!Next
    BY <2>0, <2>1, RefusedRefines
  <2>2. ASSUME NEW lo \in Page, NEW n \in Length, MmapAnonymousCall(lo, n)
        PROVE  Linux!Next
    BY <2>0, <2>2, AnonymousRefines
  <2>3. ASSUME NEW lo \in Page, NEW n \in Length, NEW off \in Offset,
               MmapFileCall(lo, n, off)
        PROVE  Linux!Next
    BY <2>0, <2>3, LoadRefines, MapRefines, MapFailsRefines DEF MmapFileCall, Linux!Next
  <2>4. ASSUME NEW lo \in Page, NEW n \in Length, MunmapCall(lo, n) PROVE Linux!Next
    BY <2>0, <2>4, MunmapRefines
  <2>5. ASSUME NEW lo \in Page, NEW n \in Length, MsyncCall(lo, n)
        PROVE  [Linux!Next]_Linux!vars
    BY <2>0, <2>5, MsyncRefines
  <2>6. ASSUME NEW p \in Page, NEW spill \in 0..4, PatchCall(p, spill)
        PROVE  UNCHANGED Linux!vars
    BY <2>0, <2>6, PatchRefines
  <2>7. ASSUME NEW p \in Page, Store(p) PROVE Linux!Next
    BY <2>0, <2>7, StoreRefines DEF Linux!Next
  <2>8. QED
    BY <1>2, <2>1, <2>2, <2>3, <2>4, <2>5, <2>6, <2>7 DEF Next
<1>3. QED
  BY <1>1, <1>2

(* Such a program sees Linux's memory until a failed conversion leaves a   *)
(* deleted Block behind: mapped, loaded and anonymous pages may be         *)
(* converted into each other, given up and patched in any order, and any   *)
(* other failed call costs it no page it did not name.                     *)
THEOREM MappingImplementsLinux == CopesWith => (Spec => LinuxUnlessDangling)
<1> SUFFICES ASSUME CopesWith PROVE Spec => LinuxUnlessDangling
  OBVIOUS
<1>1. MapInv /\ MapInv' /\ [Next]_vars
        => [Linux!Next \/ status' = "dangling"]_Linux!vars
  BY MapNextRefines
<1>2. Spec => []MapInv
  BY MapInvariance
<1>3. QED
  BY InitRefines, <1>1, <1>2, PTL DEF Spec, LinuxUnlessDangling
=============================================================================
