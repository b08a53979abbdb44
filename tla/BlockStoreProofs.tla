-------------------------- MODULE BlockStoreProofs --------------------------
(***************************************************************************)
(* Proofs about BlockStore with --forceload: no file is ever mapped, every *)
(* block is a FragmentedBlock, and the store keeps Linux's page table      *)
(* exactly, for every number and size of blocks and every length of file,  *)
(* also when any of its calls to Interix fail.                             *)
(***************************************************************************)
EXTENDS BlockStore, TLAPS

(***************************************************************************)
(* Arithmetic of blocks.                                                   *)
(***************************************************************************)
LEMMA DivMod ==
  ASSUME NEW K \in Nat \ {0}, NEW a \in Int
  PROVE  /\ a \div K \in Int
         /\ a % K \in 0..K-1
         /\ a = K * (a \div K) + (a % K)
  OBVIOUS

(* Multiplication by the size of a block preserves the order.              *)
LEMMA MulMono ==
  ASSUME NEW K \in Nat \ {0}, NEW a \in Int, NEW b \in Int, a <= b
  PROVE  K * a <= K * b
  OBVIOUS

(* Every page of the range lies in a block of the table.                   *)
LEMMA BlockOfPage ==
  ASSUME NEW p \in Page
  PROVE  BlockOf(p) \in Block
<1>1. BlockOf(p) \in Int
  BY SizesAssumption, DivMod DEF BlockOf, Page
<1>2. BlockOf(p) >= 0
  <2>1. SUFFICES ASSUME BlockOf(p) <= -1 PROVE FALSE
    BY <1>1
  <2>2. BlockPages * BlockOf(p) <= BlockPages * (-1)
    BY <1>1, <2>1, MulMono, SizesAssumption
  <2>3. QED
    BY <2>2, DivMod, SizesAssumption DEF BlockOf, Page
<1>3. BlockOf(p) <= BlockCount - 1
  <2>1. SUFFICES ASSUME BlockCount <= BlockOf(p) PROVE FALSE
    BY <1>1, SizesAssumption
  <2>2. BlockPages * BlockCount <= BlockPages * BlockOf(p)
    BY <1>1, <2>1, MulMono, SizesAssumption
  <2>3. QED
    BY <2>2, DivMod, SizesAssumption DEF BlockOf, Page
<1>4. QED
  BY <1>1, <1>2, <1>3, SizesAssumption DEF Block

(* PagesOf and BlockOf agree on which pages a block has.                   *)
LEMMA PagesOfBlock ==
  ASSUME NEW b \in Block, NEW p \in Page
  PROVE  p \in PagesOf[b] <=> BlockOf(p) = b
  BY DEF PagesOf

(* A block do_munmap deletes whole lies inside the span it was given: only *)
(* whole blocks remain once the length is rounded down.                    *)
LEMMA WholeBlocksInSpan ==
  ASSUME NEW lo \in Page, NEW n \in Length,
         NEW p \in Page, BlockOf(p) \in WholeBlocks(lo, n)
  PROVE  p \in Span(lo, n)
<1> DEFINE K == BlockPages
           w == WholeLen(lo, n)
           m == n \div K
           a == lo \div K
<1>1. /\ K \in Nat \ {0} /\ n \in Nat /\ lo \in Int /\ p \in Int
  BY SizesAssumption DEF Page
<1>2. PICK q \in Span(lo, w) : BlockOf(q) = BlockOf(p)
  BY DEF WholeBlocks, BlocksOf
<1>3. Aligned(lo) /\ w = n - (n % K)
  BY <1>1, <1>2, SizesAssumption DEF WholeLen, Span
<1> DEFINE i == BlockOf(p)
<1>4. lo = K * a /\ w = K * m /\ a \in Int /\ m \in Int
  <2>1. n = K * m + (n % K) /\ m \in Int
    BY <1>1, DivMod
  <2>2. lo = K * a + (lo % K) /\ a \in Int
    BY <1>1, DivMod
  <2>3. lo % K = 0
    BY <1>3 DEF Aligned
  <2> HIDE DEF m, a, K, w
  <2>4. QED
    BY <2>1, <2>2, <2>3, <1>1, <1>3
<1>5. /\ q \in Int /\ i \in Int
      /\ K * i <= q /\ q < K * i + K
      /\ K * i <= p /\ p < K * i + K
  <2>1. q \in Int
    BY <1>1, <1>3, DivMod DEF Span
  <2>2. q = K * (q \div K) + (q % K) /\ q % K \in 0..K-1 /\ q \div K \in Int
    BY <1>1, <2>1, DivMod
  <2>3. p = K * (p \div K) + (p % K) /\ p % K \in 0..K-1
    BY <1>1, DivMod
  <2>4. q \div K = i /\ p \div K = i
    BY <1>2 DEF BlockOf
  <2> HIDE DEF K, i
  <2>5. QED
    BY <1>1, <2>1, <2>2, <2>3, <2>4
<1>6. K * a <= q /\ q < K * a + K * m
  BY <1>1, <1>2, <1>4, <1>5 DEF Span
<1> HIDE DEF K, i, a, m, w
<1>7. a <= i
  <2>1. SUFFICES ASSUME i + 1 <= a PROVE FALSE
    BY <1>4, <1>5
  <2>2. K * (i + 1) <= K * a
    BY <1>1, <1>4, <1>5, <2>1, MulMono
  <2>3. QED
    BY <1>1, <1>4, <1>5, <1>6, <2>2
<1>8. i + 1 <= a + m
  <2>1. SUFFICES ASSUME a + m <= i PROVE FALSE
    BY <1>4, <1>5
  <2>2. K * (a + m) <= K * i
    BY <1>1, <1>4, <1>5, <2>1, MulMono
  <2>3. QED
    BY <1>1, <1>4, <1>5, <1>6, <2>2
<1>9. K * a <= K * i /\ K * (i + 1) <= K * (a + m)
  BY <1>1, <1>4, <1>5, <1>7, <1>8, MulMono
<1>10. lo <= p /\ p < lo + w
  BY <1>1, <1>4, <1>5, <1>9
<1>11. w <= n
  BY <1>1, <1>3, DivMod
<1>12. QED
  BY <1>1, <1>10, <1>11, <1>3, DivMod DEF Span
(* A loop that stops before the end of the range has met only its pages.   *)
LEMMA UpToInRange ==
  ASSUME NEW lo \in Page, NEW n \in Length, NEW S \in SUBSET Span(lo, n),
         NEW f \in 0..BlockCount
  PROVE  UpTo(S, f) \in SUBSET Page
<1> SUFFICES ASSUME NEW p \in S, BlockOf(p) < f PROVE p \in Page
  BY DEF UpTo
<1> DEFINE K == BlockPages
           i == BlockOf(p)
<1>1. p \in Int /\ 0 <= p /\ K \in Nat \ {0} /\ BlockCount \in Nat
  BY SizesAssumption DEF Page, Span
<1>2. p = K * i + (p % K) /\ p % K \in 0..K-1 /\ i \in Int
  BY <1>1, DivMod DEF BlockOf
<1> HIDE DEF i
<1>3. K * (i + 1) <= K * BlockCount
  <2>1. i + 1 <= BlockCount
    BY <1>1, <1>2 DEF i
  <2>2. QED
    BY <1>1, <1>2, <2>1, MulMono
<1> HIDE DEF K
<1>4. p < K * BlockCount
  BY <1>1, <1>2, <1>3
<1>5. QED
  BY <1>1, <1>4 DEF Page, K

(* do_munmap's two parts, whole blocks and loose pages, are the span.      *)
LEMMA MunmapParts ==
  ASSUME NEW lo \in Page, NEW n \in Length
  PROVE  /\ LoosePages(lo, n) \in SUBSET Span(lo, n)
         /\ \A p \in Page : p \in Span(lo, n) <=> \/ BlockOf(p) \in WholeBlocks(lo, n)
                                                  \/ p \in LoosePages(lo, n)
<1> DEFINE w == WholeLen(lo, n)
<1>1. n \in Nat /\ lo \in Int /\ Page \subseteq Int
  BY SizesAssumption DEF Page
<1>2. w \in Nat /\ w <= n
  <2>1. /\ n = BlockPages * (n \div BlockPages) + (n % BlockPages)
        /\ n % BlockPages \in 0..BlockPages-1
        /\ n \div BlockPages \in Int
    BY <1>1, DivMod, SizesAssumption
  <2>2. 0 <= n \div BlockPages
    BY <1>1, SizesAssumption
  <2>3. BlockPages * 0 <= BlockPages * (n \div BlockPages)
    BY <2>1, <2>2, MulMono, SizesAssumption
  <2>4. n % BlockPages <= n
    BY <1>1, <2>1, <2>3, SizesAssumption
  <2>5. QED
    BY <1>1, <2>1, <2>4, SizesAssumption DEF WholeLen
<1> HIDE DEF w
<1>3. LoosePages(lo, n) = lo + w .. lo + n - 1
  BY <1>1, <1>2 DEF LoosePages, Span, w
<1>4. ASSUME NEW p \in Page, p \in Span(lo, n), p \notin LoosePages(lo, n)
      PROVE  BlockOf(p) \in WholeBlocks(lo, n)
  <2>1. p \in Span(lo, w)
    BY <1>1, <1>2, <1>3, <1>4 DEF Span
  <2>2. QED
    BY <2>1 DEF WholeBlocks, BlocksOf, w
<1>5. LoosePages(lo, n) \in SUBSET Span(lo, n)
  BY <1>1, <1>2, <1>3 DEF Span
<1>6. QED
  BY <1>4, <1>5, WholeBlocksInSpan
-----------------------------------------------------------------------------
(***************************************************************************)
(* The inductive invariant.  BitsExact and MemoryInBlocks are not          *)
(* inductive alone: a bit set in another block's bitset, a bit kept by a   *)
(* deleted block or a MappedBlock (whose conversion sets bits nobody asked *)
(* for) would break them at the next step.                                 *)
(***************************************************************************)
OnlyFragments ==
  \A b \in Block : /\ block[b].kind \in {"none", "frag"}
                   /\ block[b].pages \subseteq PagesOf[b]
                   /\ block[b].kind = "none" => block[b].pages = {}

Inv == TypeOK /\ StaysDefined /\ OnlyFragments /\ BitsExact /\ MemoryInBlocks

(* The empty table of BlockStore's constructor satisfies the invariant.    *)
LEMMA InitInv == Init => Inv
  BY BlockOfPage, SizesAssumption, ContentsAssumption
  DEF Init, Inv, TypeOK, StaysDefined, OnlyFragments, BitsExact, MemoryInBlocks,
      BlockState, NoBlock, Content

(* What a call does to the counters besides the memory.                    *)
Counted == /\ status' \in {"running", "badsync"}
           /\ failures' \in 0..MaxFailures
           /\ ret' \in {"ok", "error"}

(* The three ways a call ends keep the counters in range.                  *)
LEMMA SucceedCounts == TypeOK /\ StaysDefined /\ Succeed => Counted
  BY DEF TypeOK, StaysDefined, Succeed, Counted

(* The same of a call refused before it did anything.                      *)
LEMMA CountFailureCounts ==
  TypeOK /\ CountFailure => failures' \in 0..MaxFailures /\ ret' \in {"ok", "error"}
  BY SizesAssumption DEF TypeOK, CountFailure

(* The same of one that fails in a block, where none is mapped.            *)
LEMMA FailInCounts ==
  ASSUME Inv, NEW f, FailIn(f)
  PROVE  Counted
<1>1. TypeOK
  BY DEF Inv
<1>2. QED
  BY <1>1, CountFailureCounts DEF Inv, OnlyFragments, FailIn, Counted

(* GetPageMap on the blocks T and UsePage on the pages U, whatever is then *)
(* stored in U, keep the invariant when all of U is recorded as mapped.    *)
LEMMA UseStep ==
  ASSUME Inv, NEW U \in SUBSET Page, NEW T, BlocksOf(U) \subseteq T, Counted,
         block' = FragmentedBlocks(T, U),
         mem' \in [Page -> Content \cup {NoPage}],
         \A p \in U : mem'[p] # NoPage,
         \A p \in Page \ U : mem'[p] = FragmentedMem(T)[p],
         vma' \in [Page -> {"none", "data", "beyond", "leaked"}],
         \A p \in U : vma'[p] # "none",
         \A p \in Page \ U : vma'[p] = vma[p]
  PROVE  Inv'
<1>1. \A p \in Page : /\ BlockOf(p) \in Block
                      /\ p \in U => BlockOf(p) \in T
                      /\ \A b \in Block : p \in PagesOf[b] <=> BlockOf(p) = b
  BY BlockOfPage, PagesOfBlock DEF BlocksOf
<1>2. \A b \in Block : PagesOf[b] \subseteq Page
  BY DEF PagesOf
<1>3. \A p \in Page \ U : mem'[p] = IF BlockOf(p) \in T /\ mem[p] = NoPage
                                      THEN Zero ELSE mem[p]
  BY DEF FragmentedMem
<1>4. ASSUME NEW b \in Block
      PROVE  /\ block'[b].pages = IF b \in T THEN block[b].pages \cup (U \cap PagesOf[b])
                                             ELSE block[b].pages
             /\ block'[b].kind = IF b \in T THEN "frag" ELSE block[b].kind
             /\ block'[b] \in BlockState
  <2>1. /\ block[b] \in BlockState
        /\ block[b].pages \subseteq Page
        /\ Held(b) = block[b].pages
    BY DEF Inv, TypeOK, OnlyFragments, BlockState, Held
  <2>2. block'[b] = IF b \in T THEN Frag(Held(b) \cup (U \cap PagesOf[b]))
                               ELSE block[b]
    BY DEF FragmentedBlocks
  <2>3. CASE b \in T
    <3>1. /\ block'[b] = Frag(block[b].pages \cup (U \cap PagesOf[b]))
          /\ block[b].pages \cup (U \cap PagesOf[b]) \in SUBSET Page
      BY <2>1, <2>2, <2>3
    <3>2. QED
      BY <3>1, <2>3 DEF Frag, BlockState
  <2>4. CASE b \notin T
    BY <2>1, <2>2, <2>4
  <2>5. QED
    BY <2>3, <2>4
<1>5. TypeOK'
  <2>1. block' \in [Block -> BlockState]
    <3>1. block' = [b \in Block |-> block'[b]]
      BY DEF FragmentedBlocks
    <3>2. QED
      BY <3>1, <1>4
  <2>2. QED
    BY <2>1 DEF TypeOK, Counted
<1>6. OnlyFragments'
  <2> SUFFICES ASSUME NEW b \in Block
               PROVE  /\ block'[b].kind \in {"none", "frag"}
                      /\ block'[b].pages \subseteq PagesOf[b]
                      /\ block'[b].kind = "none" => block'[b].pages = {}
    BY DEF OnlyFragments
  <2>1. /\ block[b].kind \in {"none", "frag"}
        /\ block[b].pages \subseteq PagesOf[b]
        /\ block[b].kind = "none" => block[b].pages = {}
    BY DEF Inv, OnlyFragments
  <2>2. QED
    BY <1>4, <2>1
<1>7. BitsExact'
  <2> SUFFICES ASSUME NEW p \in Page
               PROVE  p \in block'[BlockOf(p)].pages <=> vma'[p] # "none"
    BY DEF BitsExact
  <2> DEFINE b == BlockOf(p)
  <2>1. b \in Block /\ p \in PagesOf[b] /\ (p \in U => b \in T)
    BY <1>1
  <2>2. p \in block[b].pages <=> vma[p] # "none"
    BY DEF Inv, BitsExact
  <2> HIDE DEF b
  <2>3. p \in block'[b].pages <=> p \in block[b].pages \/ p \in U
    BY <1>4, <2>1
  <2>4. QED
    BY <2>2, <2>3 DEF b
<1>8. MemoryInBlocks'
  <2> SUFFICES ASSUME NEW p \in Page
               PROVE  mem'[p] # NoPage <=> block'[BlockOf(p)].kind = "frag"
    BY <1>1, <1>6 DEF MemoryInBlocks, OnlyFragments
  <2> DEFINE b == BlockOf(p)
  <2>1. b \in Block /\ block[b].kind \in {"none", "frag"} /\ (p \in U => b \in T)
    BY <1>1 DEF Inv, OnlyFragments
  <2>2. mem[p] # NoPage <=> block[b].kind = "frag"
    BY <2>1 DEF Inv, MemoryInBlocks
  <2>3. p \notin U => mem'[p] = IF b \in T /\ mem[p] = NoPage THEN Zero ELSE mem[p]
    BY <1>3
  <2>4. Zero # NoPage
    BY ContentsAssumption
  <2> HIDE DEF b
  <2>5. block'[b].kind = IF b \in T THEN "frag" ELSE block[b].kind
    BY <1>4, <2>1
  <2>6. mem'[p] # NoPage <=> block'[b].kind = "frag"
    BY <2>1, <2>2, <2>3, <2>4, <2>5
  <2>7. QED
    BY <2>6 DEF b
<1>9. QED
  BY <1>5, <1>6, <1>7, <1>8 DEF Inv, StaysDefined, Counted

(* A loop of UnusePage over the pages P, after the blocks of D were        *)
(* deleted, keeps the invariant when Linux forgets the same pages.         *)
LEMMA UnuseStep ==
  ASSUME Inv, NEW D \in SUBSET Block, NEW P \in SUBSET Page, NEW S, Counted,
         block' = UnusedBlocks(D, P),
         mem' = UnusedMem(D, P),
         vma' = Forget(S),
         \A p \in Page : p \in S <=> BlockOf(p) \in D \/ p \in P
  PROVE  Inv'
<1>1. \A b \in Block : block'[b] = IF b \in D THEN NoBlock
                                   ELSE IF P \cap PagesOf[b] = {} THEN block[b]
                                   ELSE IF block[b].pages \subseteq P THEN NoBlock
                                   ELSE Frag(block[b].pages \ P)
  BY DEF UnusedBlocks, Held, Inv, OnlyFragments
<1>11. ASSUME NEW b \in Block
      PROVE  /\ block'[b].pages = IF b \in D THEN {} ELSE block[b].pages \ P
             /\ block'[b].kind =
                  IF b \in D \/ (P \cap PagesOf[b] # {} /\ block[b].pages \subseteq P)
                  THEN "none"
                  ELSE IF P \cap PagesOf[b] = {} THEN block[b].kind ELSE "frag"
             /\ block'[b] \in BlockState
  <2>1. /\ block[b] \in BlockState
        /\ block[b].pages \subseteq PagesOf[b]
        /\ block[b].pages \subseteq Page
    BY DEF Inv, TypeOK, OnlyFragments, BlockState
  <2>2. CASE b \in D
    <3>1. block'[b] = NoBlock
      BY <1>1, <2>2
    <3>2. /\ block'[b].pages = {}
          /\ block'[b].kind = "none"
          /\ block'[b] \in BlockState
      BY <3>1 DEF NoBlock, BlockState
    <3>3. QED
      BY <3>2, <2>2
  <2>3. CASE b \notin D /\ P \cap PagesOf[b] = {}
    <3>1. block'[b] = block[b] /\ block[b].pages \ P = block[b].pages
      BY <1>1, <2>1, <2>3
    <3>2. QED
      BY <3>1, <2>1, <2>3
  <2>4. CASE b \notin D /\ P \cap PagesOf[b] # {} /\ block[b].pages \subseteq P
    <3>1. block'[b] = NoBlock /\ block[b].pages \ P = {}
      BY <1>1, <2>4
    <3>2. QED
      BY <3>1, <2>4 DEF NoBlock, BlockState
  <2>5. CASE b \notin D /\ P \cap PagesOf[b] # {} /\ ~(block[b].pages \subseteq P)
    <3>1. block'[b] = Frag(block[b].pages \ P) /\ block[b].pages \ P \in SUBSET Page
      BY <1>1, <2>1, <2>5
    <3>2. /\ block'[b].pages = block[b].pages \ P
          /\ block'[b].kind = "frag"
          /\ block'[b] \in BlockState
      BY <3>1 DEF Frag, BlockState
    <3>3. QED
      BY <3>2, <2>5
  <2>6. QED
    BY <2>2, <2>3, <2>4, <2>5
<1>2. \A p \in Page : /\ BlockOf(p) \in Block
                      /\ \A b \in Block : p \in PagesOf[b] <=> BlockOf(p) = b
  BY BlockOfPage, PagesOfBlock
<1>3. \A b \in Block : PagesOf[b] \subseteq Page
  BY DEF PagesOf
<1>4. \A p \in Page :
        mem'[p] = IF \/ BlockOf(p) \in D
                     \/ /\ P \cap PagesOf[BlockOf(p)] # {}
                        /\ block[BlockOf(p)].pages \subseteq P
                  THEN NoPage
                  ELSE IF P \cap PagesOf[BlockOf(p)] # {} /\ mem[p] = NoPage THEN Zero
                  ELSE mem[p]
  BY <1>2 DEF UnusedMem, Held, Inv, OnlyFragments
<1>5. Zero \in Content /\ Zero # NoPage
  BY ContentsAssumption DEF Content
<1>6. TypeOK'
  <2>1. block' \in [Block -> BlockState]
    <3>1. block' = [b \in Block |-> block'[b]]
      BY DEF UnusedBlocks
    <3>2. \A b \in Block : block'[b] \in BlockState
      BY <1>11
    <3>3. QED
      BY <3>1, <3>2
  <2>2. mem' \in [Page -> Content \cup {NoPage}]
    <3>1. mem' = [p \in Page |-> mem'[p]]
      BY DEF UnusedMem
    <3>2. \A p \in Page : mem'[p] \in Content \cup {NoPage}
      BY <1>4, <1>5 DEF Inv, TypeOK
    <3>3. QED
      BY <3>1, <3>2
  <2>3. vma' \in [Page -> {"none", "data", "beyond", "leaked"}]
    BY DEF Forget, Inv, TypeOK
  <2>4. QED
    BY <2>1, <2>2, <2>3 DEF TypeOK, Counted
<1>7. OnlyFragments'
  <2> SUFFICES ASSUME NEW b \in Block
               PROVE  /\ block'[b].kind \in {"none", "frag"}
                      /\ block'[b].pages \subseteq PagesOf[b]
                      /\ block'[b].kind = "none" => block'[b].pages = {}
    BY DEF OnlyFragments
  <2>1. /\ block[b].kind \in {"none", "frag"}
        /\ block[b].pages \subseteq PagesOf[b]
        /\ block[b].kind = "none" => block[b].pages = {}
    BY DEF Inv, OnlyFragments
  <2>2. QED
    BY <1>11, <2>1
<1>8. BitsExact'
  <2> SUFFICES ASSUME NEW p \in Page
               PROVE  p \in block'[BlockOf(p)].pages <=> vma'[p] # "none"
    BY DEF BitsExact
  <2> DEFINE b == BlockOf(p)
  <2>1. b \in Block /\ (p \in S <=> b \in D \/ p \in P)
    BY <1>2
  <2>2. p \in block[b].pages <=> vma[p] # "none"
    BY DEF Inv, BitsExact
  <2>3. vma'[p] = IF p \in S THEN "none" ELSE vma[p]
    BY DEF Forget
  <2> HIDE DEF b
  <2>4. block'[b].pages = IF b \in D THEN {} ELSE block[b].pages \ P
    BY <1>11, <2>1
  <2>5. p \in block'[b].pages <=> vma'[p] # "none"
    BY <2>1, <2>2, <2>3, <2>4
  <2>6. QED
    BY <2>5 DEF b
<1>9. MemoryInBlocks'
  <2> SUFFICES ASSUME NEW p \in Page
               PROVE  mem'[p] # NoPage <=> block'[BlockOf(p)].kind = "frag"
    BY <1>2, <1>7 DEF MemoryInBlocks, OnlyFragments
  <2> DEFINE b == BlockOf(p)
             gone == b \in D \/ (P \cap PagesOf[b] # {} /\ block[b].pages \subseteq P)
  <2>1. b \in Block /\ block[b].kind \in {"none", "frag"}
    BY <1>2 DEF Inv, OnlyFragments
  <2>2. mem[p] # NoPage <=> block[b].kind = "frag"
    BY <2>1 DEF Inv, MemoryInBlocks
  <2>3. mem'[p] = IF gone THEN NoPage
                  ELSE IF P \cap PagesOf[b] # {} /\ mem[p] = NoPage THEN Zero
                  ELSE mem[p]
    BY <1>4
  <2> HIDE DEF b
  <2>4. block'[b].kind = IF gone THEN "none"
                         ELSE IF P \cap PagesOf[b] = {} THEN block[b].kind ELSE "frag"
    BY <1>11, <2>1
  <2> HIDE DEF gone
  <2>5. mem'[p] # NoPage <=> block'[b].kind = "frag"
    BY <1>5, <2>1, <2>2, <2>3, <2>4
  <2>6. QED
    BY <2>5 DEF b
<1>10. QED
  BY <1>6, <1>7, <1>8, <1>9 DEF Inv, StaysDefined, Counted
-----------------------------------------------------------------------------
(***************************************************************************)
(* Every call keeps the invariant.                                         *)
(***************************************************************************)
LEMMA Stutter == Inv /\ UNCHANGED vars => Inv'
<1> SUFFICES ASSUME Inv, UNCHANGED vars PROVE Inv'
  OBVIOUS
<1>1. TypeOK' /\ StaysDefined'
  BY DEF vars, Inv, TypeOK, StaysDefined
<1>2. OnlyFragments' /\ BitsExact' /\ MemoryInBlocks'
  BY DEF vars, Inv, OnlyFragments, BitsExact, MemoryInBlocks
<1>3. QED
  BY <1>1, <1>2 DEF Inv

(* The contents GetPageMap leaves behind are contents of pages.            *)
LEMMA FragmentedMemType ==
  ASSUME TypeOK, NEW T, NEW p \in Page
  PROVE  /\ FragmentedMem(T)[p] \in Content \cup {NoPage}
         /\ BlockOf(p) \in T => FragmentedMem(T)[p] # NoPage
  BY ContentsAssumption DEF TypeOK, FragmentedMem, Content

(* No block is a MappedBlock, so no failure loses a page.                  *)
LEMMA NothingLost ==
  ASSUME Inv, NEW f, NEW p \in Page
  PROVE  ~Lost(f, p)
  BY BlockOfPage DEF Inv, OnlyFragments, Lost

(* What a failed call leaves in vma: its first pages, nothing else new.    *)
LEMMA LeakFacts ==
  ASSUME TypeOK, NEW P
  PROVE  /\ Leak(P) \in [Page -> {"none", "data", "beyond", "leaked"}]
         /\ \A p \in Page : p \in P => Leak(P)[p] # "none"
         /\ \A p \in Page : p \notin P => Leak(P)[p] = vma[p]
  BY DEF TypeOK, Leak

(* What pread leaves in the pages L of a load whose blocks are in T.       *)
LEMMA LoadedMemFacts ==
  ASSUME TypeOK, NEW lo \in Page, NEW off \in Offset, NEW T,
         NEW L \in SUBSET Page, \A p \in L : lo <= p
  PROVE  /\ LoadedMem(T, L, lo, off) \in [Page -> Content \cup {NoPage}]
         /\ \A p \in Page : BlockOf(p) \in T => LoadedMem(T, L, lo, off)[p] # NoPage
         /\ \A p \in Page \ L : LoadedMem(T, L, lo, off)[p] = FragmentedMem(T)[p]
<1>1. ASSUME NEW p \in Page, p \in L, off + p - lo < FileLen
      PROVE  off + p - lo \in Content \ {NoPage}
  <2>1. off + p - lo \in 0..FileLen-1
    BY <1>1, SizesAssumption DEF Page
  <2>2. QED
    BY <2>1, ContentsAssumption DEF Content
<1>2. QED
  BY <1>1, FragmentedMemType DEF LoadedMem

(* An anonymous mmap, successful or not, preserves the invariant.          *)
LEMMA AnonymousStep ==
  ASSUME Inv, NEW lo \in Page, NEW n \in Length, MmapAnonymousCall(lo, n)
  PROVE  Inv'
<1>0. TypeOK /\ StaysDefined
  BY DEF Inv
<1>1. ASSUME NEW fixed \in BOOLEAN, MmapAnonymous(fixed, lo, n)
      PROVE  Inv'
  <2> DEFINE R == Span(lo, n)
  <2>1. R \in SUBSET Page
    BY <1>1 DEF MmapAnonymous, Place
  <2>2. /\ mem' = [p \in Page |-> IF p \in R THEN Zero ELSE FragmentedMem(BlocksOf(R))[p]]
        /\ vma' = [p \in Page |-> IF p \in R THEN "data" ELSE vma[p]]
        /\ block' = FragmentedBlocks(BlocksOf(R), R)
        /\ Counted
    BY <1>0, <1>1, SucceedCounts DEF MmapAnonymous
  <2> HIDE DEF R
  <2>3. /\ mem' \in [Page -> Content \cup {NoPage}]
        /\ \A p \in R : mem'[p] # NoPage
        /\ \A p \in Page \ R : mem'[p] = FragmentedMem(BlocksOf(R))[p]
    BY <1>0, <2>1, <2>2, FragmentedMemType, ContentsAssumption DEF Content
  <2>4. /\ vma' \in [Page -> {"none", "data", "beyond", "leaked"}]
        /\ \A p \in R : vma'[p] # "none"
        /\ \A p \in Page \ R : vma'[p] = vma[p]
    BY <2>1, <2>2 DEF Inv, TypeOK
  <2>5. QED
    BY <2>1, <2>2, <2>3, <2>4, UseStep
<1>2. ASSUME NEW f \in 0..BlockCount, MmapAnonymousFails(lo, n, f)
      PROVE  Inv'
  <2> DEFINE R == UpTo(Span(lo, n), f)
  <2>1. R \in SUBSET Page
    BY UpToInRange
  <2>2. /\ mem' = [p \in Page |-> IF p \in R THEN Zero
                                  ELSE IF Lost(f, p) THEN NoPage
                                  ELSE FragmentedMem(BlocksOf(R))[p]]
        /\ vma' = Leak(R)
        /\ block' = FragmentedBlocks(BlocksOf(R), R)
        /\ Counted
    BY <1>2, FailInCounts DEF MmapAnonymousFails
  <2> HIDE DEF R
  <2>3. /\ mem' \in [Page -> Content \cup {NoPage}]
        /\ \A p \in R : mem'[p] # NoPage
        /\ \A p \in Page \ R : mem'[p] = FragmentedMem(BlocksOf(R))[p]
    BY <1>0, <2>1, <2>2, FragmentedMemType, NothingLost, ContentsAssumption DEF Content
  <2>4. QED
    BY <1>0, <2>1, <2>2, <2>3, LeakFacts, UseStep
<1>3. QED
  BY <1>1, <1>2 DEF MmapAnonymousCall

(* A file mmap, which --forceload always loads, preserves the invariant.   *)
LEMMA FileStep ==
  ASSUME Inv, ForceLoad,
         NEW lo \in Page, NEW n \in Length, NEW off \in Offset,
         MmapFileCall(lo, n, off)
  PROVE  Inv'
<1>0. TypeOK /\ StaysDefined
  BY DEF Inv
<1>1. ASSUME NEW p \in Span(lo, n) PROVE lo <= p
  BY SizesAssumption DEF Span, Page
<1>2. ASSUME NEW fixed \in BOOLEAN, MmapLoad(fixed, lo, n, off)
      PROVE  Inv'
  <2> DEFINE R == Span(lo, n)
  <2>1. R \in SUBSET Page
    BY <1>2 DEF MmapLoad, Place
  <2>2. /\ mem' = LoadedMem(BlocksOf(R), R, lo, off)
        /\ vma' = FileVma(lo, n, off)
        /\ block' = FragmentedBlocks(BlocksOf(R), R)
        /\ Counted
    BY <1>0, <1>2, SucceedCounts DEF MmapLoad
  <2>3. /\ vma' \in [Page -> {"none", "data", "beyond", "leaked"}]
        /\ \A p \in R : vma'[p] # "none"
        /\ \A p \in Page \ R : vma'[p] = vma[p]
    BY <2>1, <2>2 DEF Inv, TypeOK, FileVma
  <2>4. \A p \in R : BlockOf(p) \in BlocksOf(R) /\ lo <= p
    BY <1>1 DEF BlocksOf
  <2> HIDE DEF R
  <2>5. /\ mem' \in [Page -> Content \cup {NoPage}]
        /\ \A p \in R : mem'[p] # NoPage
        /\ \A p \in Page \ R : mem'[p] = FragmentedMem(BlocksOf(R))[p]
    BY <1>0, <2>1, <2>2, <2>4, LoadedMemFacts
  <2>6. QED
    BY <2>1, <2>2, <2>3, <2>5, UseStep
<1>3. ASSUME NEW f \in 0..BlockCount, MmapLoadFails(lo, n, off, f)
      PROVE  Inv'
  <2> DEFINE R == UpTo(Span(lo, n), f)
  <2>1. R \in SUBSET Page
    BY UpToInRange
  <2>2. /\ mem' = [p \in Page |-> IF Lost(f, p) THEN NoPage
                                  ELSE LoadedMem(BlocksOf(R), R, lo, off)[p]]
        /\ vma' = Leak(R)
        /\ block' = FragmentedBlocks(BlocksOf(R), R)
        /\ Counted
    BY <1>3, FailInCounts DEF MmapLoadFails
  <2>3. \A p \in R : BlockOf(p) \in BlocksOf(R) /\ lo <= p
    BY <1>1 DEF BlocksOf, UpTo
  <2> HIDE DEF R
  <2>4. \A p \in Page : mem'[p] = LoadedMem(BlocksOf(R), R, lo, off)[p]
    BY <2>2, NothingLost
  <2>5. /\ \A p \in Page : mem'[p] \in Content \cup {NoPage}
        /\ \A p \in R : mem'[p] # NoPage
        /\ \A p \in Page \ R : mem'[p] = FragmentedMem(BlocksOf(R))[p]
    BY <1>0, <2>1, <2>3, <2>4, LoadedMemFacts
  <2>6. mem' \in [Page -> Content \cup {NoPage}]
    <3>1. mem' = [p \in Page |-> mem'[p]]
      BY <2>2
    <3>2. QED
      BY <3>1, <2>5
  <2>7. QED
    BY <1>0, <2>1, <2>2, <2>5, <2>6, LeakFacts, UseStep
<1>4. ASSUME NEW q \in Page, MmapReadFails(lo, n, off, q)
      PROVE  Inv'
  <2> DEFINE R == lo..q
  <2>1. /\ R \in SUBSET Page
        /\ \A p \in R : lo <= p
    BY <1>4 DEF MmapReadFails
  <2>2. /\ mem' = LoadedMem(BlocksOf(R), R \ {q}, lo, off)
        /\ vma' = Leak(R)
        /\ block' = FragmentedBlocks(BlocksOf(R), R)
        /\ Counted
    BY <1>0, <1>4, CountFailureCounts DEF MmapReadFails, Counted, Inv, StaysDefined
  <2>3. \A p \in R : BlockOf(p) \in BlocksOf(R)
    BY DEF BlocksOf
  <2> HIDE DEF R
  <2>4. /\ mem' \in [Page -> Content \cup {NoPage}]
        /\ \A p \in R : mem'[p] # NoPage
        /\ \A p \in Page \ R : mem'[p] = FragmentedMem(BlocksOf(R))[p]
    BY <1>0, <2>1, <2>2, <2>3, LoadedMemFacts
  <2>5. QED
    BY <1>0, <2>1, <2>2, <2>4, LeakFacts, UseStep
<1>5. /\ \A fixed \in BOOLEAN : ~MmapMap(fixed, lo, n, off)
      /\ \A f \in 0..BlockCount : ~MmapMapFails(lo, n, off, f)
  BY DEF MmapMap, MmapMapFails, Maps, Loads
<1>6. \/ \E fixed \in BOOLEAN : MmapLoad(fixed, lo, n, off)
      \/ \E f \in 0..BlockCount : MmapLoadFails(lo, n, off, f)
      \/ \E q \in Page : MmapReadFails(lo, n, off, q)
  BY <1>5, SizesAssumption DEF MmapFileCall
<1>7. QED
  BY <1>2, <1>3, <1>4, <1>6

(* A munmap, whether it succeeds or fails, preserves the invariant.        *)
LEMMA MunmapStep ==
  ASSUME Inv, NEW lo \in Page, NEW n \in Length, MunmapCall(lo, n)
  PROVE  Inv'
<1> DEFINE W == WholeBlocks(lo, n)
           L == LoosePages(lo, n)
<1>1. /\ L \in SUBSET Span(lo, n)
      /\ \A p \in Page : p \in Span(lo, n) <=> BlockOf(p) \in W \/ p \in L
  BY MunmapParts
<1>2. CASE Munmap(lo, n)
  <2>1. /\ Span(lo, n) \in SUBSET Page
        /\ block' = UnusedBlocks(W, L)
        /\ mem' = UnusedMem(W, L)
        /\ vma' = Forget(Span(lo, n))
        /\ Counted
    BY <1>2, SucceedCounts DEF Munmap, Inv
  <2>2. Span(lo, WholeLen(lo, n)) \subseteq Span(lo, n)
    <3>1. n \in Nat /\ lo \in Int
      BY SizesAssumption DEF Page
    <3>2. WholeLen(lo, n) \in Int /\ WholeLen(lo, n) <= n
      BY <3>1, DivMod, SizesAssumption DEF WholeLen
    <3>3. QED
      BY <3>1, <3>2 DEF Span
  <2>3. W \in SUBSET Block
    BY <2>1, <2>2, BlockOfPage DEF WholeBlocks, BlocksOf
  <2> HIDE DEF W, L
  <2>4. QED
    BY <1>1, <2>1, <2>3, UnuseStep
<1>3. ASSUME NEW f \in 0..BlockCount, MunmapFails(lo, n, f)
      PROVE  Inv'
  <2> DEFINE D == {b \in W : b < f}
             g == IF Recreates(f, L) THEN f + 1 ELSE f
             P == UpTo(L, g)
             S == {p \in Span(lo, n) : BlockOf(p) \in D} \cup P
  <2>1. g \in 0..BlockCount
    BY SizesAssumption DEF Recreates, Block
  <2>2. P \in SUBSET Page
    BY <1>1, <2>1, UpToInRange
  <2>3. D \in SUBSET Block
    <3>1. Span(lo, WholeLen(lo, n)) \subseteq Span(lo, n)
      <4>1. n \in Nat /\ lo \in Int
        BY SizesAssumption DEF Page
      <4>2. WholeLen(lo, n) \in Int /\ WholeLen(lo, n) <= n
        BY <4>1, DivMod, SizesAssumption DEF WholeLen
      <4>3. QED
        BY <4>1, <4>2 DEF Span
    <3>2. SUFFICES ASSUME NEW q \in Span(lo, WholeLen(lo, n)), BlockOf(q) < f
                   PROVE  BlockOf(q) \in Block
      BY DEF WholeBlocks, BlocksOf
    <3>3. q \in UpTo(Span(lo, n), f)
      BY <3>1, <3>2 DEF UpTo
    <3>4. QED
      BY <3>3, UpToInRange, BlockOfPage
  <2>4. /\ block' = UnusedBlocks(D, P)
        /\ mem' = [p \in Page |-> IF Lost(f, p) THEN NoPage ELSE UnusedMem(D, P)[p]]
        /\ vma' = Forget(S)
        /\ Counted
    BY <1>3, FailInCounts DEF MunmapFails
  <2>5. mem' = UnusedMem(D, P)
    <3>1. mem' = [p \in Page |-> UnusedMem(D, P)[p]]
      BY <2>4, NothingLost
    <3>2. QED
      BY <3>1 DEF UnusedMem
  <2>6. \A p \in Page : p \in S <=> BlockOf(p) \in D \/ p \in P
    BY <1>1
  <2> HIDE DEF D, P, S
  <2>7. QED
    BY <2>2, <2>3, <2>4, <2>5, <2>6, UnuseStep
<1>4. QED
  BY <1>2, <1>3 DEF MunmapCall

(* A call of MakeWriteable preserves the invariant: no bit changes.        *)
LEMMA PatchStep ==
  ASSUME Inv, NEW p \in Page, NEW spill \in 0..4, PatchCall(p, spill)
  PROVE  Inv'
<1>1. ASSUME NEW T, Counted, vma' = vma,
             block' = FragmentedBlocks(T, {}), mem' = FragmentedMem(T)
      PROVE  Inv'
  <2>1. BlocksOf({}) \subseteq T
    BY DEF BlocksOf
  <2>2. mem' \in [Page -> Content \cup {NoPage}]
    BY <1>1, FragmentedMemType DEF FragmentedMem, Inv
  <2>3. QED
    BY <1>1, <2>1, <2>2, UseStep DEF Inv, TypeOK
<1>2. CASE MakeWriteable(p, spill)
  BY <1>1, <1>2 DEF MakeWriteable, Counted, Inv, TypeOK, StaysDefined
<1>3. ASSUME NEW f \in Block, MakeWriteableFails(p, spill, f)
      PROVE  Inv'
  <2> DEFINE T == {b \in CodeBlocks(p, spill) : b < f}
  <2>1. /\ block' = FragmentedBlocks(T, {})
        /\ mem' = [q \in Page |-> IF Lost(f, q) THEN NoPage ELSE FragmentedMem(T)[q]]
        /\ vma' = vma
    BY <1>3 DEF MakeWriteableFails
  <2>2. Counted
    BY <1>3, SizesAssumption
    DEF MakeWriteableFails, Counted, Inv, TypeOK, OnlyFragments
  <2> HIDE DEF T
  <2>3. mem' = FragmentedMem(T)
    BY <2>1, NothingLost DEF FragmentedMem
  <2>4. QED
    BY <1>1, <2>1, <2>2, <2>3
<1>4. QED
  BY <1>2, <1>3 DEF PatchCall

(* msync of mapped pages finds a block under every page; of others it may  *)
(* end the emulator.  In no case does it change the table or the memory.   *)
LEMMA MsyncStep ==
  ASSUME Inv, NEW lo \in Page, NEW n \in Length, MsyncCall(lo, n)
  PROVE  Inv'
<1>1. UNCHANGED <<block, mem, vma>>
  BY DEF MsyncCall, Msync, MsyncFails, MsyncNull
<1>2. ASSUME NEW f \in 0..BlockCount, MsyncNull(lo, n, f) PROVE status' = "badsync"
  <2>1. PICK q \in Span(lo, n) : BlockOf(q) = f /\ f \in Block
    BY <1>2 DEF MsyncNull, BlocksOf
  <2>2. block[f].kind = "none"
    BY <1>2, <2>1 DEF MsyncNull, Present
  <2>3. q \in Page /\ vma[q] # "none" => block[f].kind # "none"
    BY <2>1, BlockOfPage DEF Inv, BitsExact, OnlyFragments
  <2>4. QED
    BY <1>2, <2>1, <2>2, <2>3 DEF MsyncNull
<1>3. Counted
  <2>1. CASE Msync(lo, n)
    BY <2>1, SucceedCounts DEF Msync, Inv
  <2>2. ASSUME NEW f \in 0..BlockCount, MsyncFails(lo, n, f) PROVE Counted
    BY <2>2, CountFailureCounts DEF MsyncFails, Inv, StaysDefined, Counted
  <2>3. ASSUME NEW f \in 0..BlockCount, MsyncNull(lo, n, f) PROVE Counted
    BY <1>2, <2>3 DEF MsyncNull, Inv, TypeOK, Counted
  <2>4. QED
    BY <2>1, <2>2, <2>3 DEF MsyncCall
<1>4. TypeOK' /\ StaysDefined' /\ OnlyFragments' /\ BitsExact'
  BY <1>1, <1>3 DEF Inv, Counted, TypeOK, StaysDefined, OnlyFragments, BitsExact
<1>5. MemoryInBlocks'
  BY <1>1 DEF Inv, MemoryInBlocks
<1>6. QED
  BY <1>4, <1>5 DEF Inv

(* A store reaches only pages that are in memory already.                  *)
LEMMA StoreStep ==
  ASSUME Inv, NEW p \in Page, Store(p)
  PROVE  Inv'
<1>1. /\ mem' \in [Page -> Content \cup {NoPage}]
      /\ \A q \in Page : mem'[q] = NoPage <=> mem[q] = NoPage
  BY ContentsAssumption DEF Store, Inv, TypeOK, Content
<1>2. UNCHANGED <<block, status, failures, ret, vma>>
  BY DEF Store
<1>3. TypeOK' /\ StaysDefined' /\ OnlyFragments' /\ BitsExact'
  BY <1>1, <1>2 DEF Inv, TypeOK, StaysDefined, OnlyFragments, BitsExact
<1>4. MemoryInBlocks'
  BY <1>1, <1>2 DEF Inv, MemoryInBlocks
<1>5. QED
  BY <1>3, <1>4 DEF Inv

(* Every step of the --forceload configuration preserves the invariant.    *)
LEMMA NextInv == ForceLoad /\ Inv /\ [Next]_vars => Inv'
<1> SUFFICES ASSUME ForceLoad, Inv, [Next]_vars PROVE Inv'
  OBVIOUS
<1>1. CASE MmapRefused
  BY <1>1, CountFailureCounts
  DEF MmapRefused, Inv, TypeOK, StaysDefined, OnlyFragments, BitsExact, MemoryInBlocks
<1>2. ASSUME NEW lo \in Page, NEW n \in Length, MmapAnonymousCall(lo, n) PROVE Inv'
  BY <1>2, AnonymousStep
<1>3. ASSUME NEW lo \in Page, NEW n \in Length, NEW off \in Offset,
             MmapFileCall(lo, n, off)
      PROVE  Inv'
  BY <1>3, FileStep
<1>4. ASSUME NEW lo \in Page, NEW n \in Length, MunmapCall(lo, n) PROVE Inv'
  BY <1>4, MunmapStep
<1>5. ASSUME NEW lo \in Page, NEW n \in Length, MsyncCall(lo, n) PROVE Inv'
  BY <1>5, MsyncStep
<1>6. ASSUME NEW p \in Page, NEW spill \in 0..4, PatchCall(p, spill) PROVE Inv'
  BY <1>6, PatchStep
<1>7. ASSUME NEW p \in Page, Store(p) PROVE Inv'
  BY <1>7, StoreStep
<1>8. CASE UNCHANGED vars
  BY <1>8, Stutter
<1>9. QED
  BY <1>1, <1>2, <1>3, <1>4, <1>5, <1>6, <1>7, <1>8 DEF Next

(* With --forceload the invariant holds in every state.                    *)
THEOREM Invariance == ForceLoad => (Spec => []Inv)
<1> SUFFICES ASSUME ForceLoad PROVE Spec => []Inv
  OBVIOUS
<1>1. Inv /\ [Next]_vars => Inv'
  BY NextInv
<1>2. QED
  BY InitInv, <1>1, PTL DEF Spec

(* With --forceload no assertion fails and no NULL or deleted Block is     *)
(* used, whichever calls of Interix fail; but for the NULL an msync of     *)
(* pages the program has not mapped may follow.                            *)
THEOREM NeverCrashes == ForceLoad => (Spec => []StaysDefined)
<1>1. Inv => StaysDefined
  BY DEF Inv
<1>2. QED
  BY Invariance, <1>1, PTL

(* With --forceload UnusePage frees a block exactly when its last page     *)
(* goes: bits are neither lost nor left over.                              *)
THEOREM BitsAreExact == ForceLoad => (Spec => []BitsExact)
<1>1. Inv => BitsExact
  BY DEF Inv
<1>2. QED
  BY Invariance, <1>1, PTL

(* With --forceload the process has memory exactly where the table has a   *)
(* block: what GetPageMap takes and UnusePage gives back never drift apart *)
(* (mmap.cc:245, 307).                                                     *)
THEOREM MemoryIsHeld == ForceLoad => (Spec => []MemoryInBlocks)
<1>1. Inv => MemoryInBlocks
  BY DEF Inv
<1>2. QED
  BY Invariance, <1>1, PTL
-----------------------------------------------------------------------------
(***************************************************************************)
(* The store implements LinuxMemory as long as it keeps the program's      *)
(* pages: with --forceload always, and with mapped files for as long as no *)
(* deleted Block is left in the table (BlockStoreMapProofs).               *)
(***************************************************************************)

(* A block's bits are its own, and a free block has none.                  *)
BlocksSound ==
  \A b \in Block : /\ block[b].pages \subseteq PagesOf[b]
                   /\ block[b].kind = "none" => block[b].pages = {}

(* A page the program has is known to its block and in memory.             *)
ProgramPages ==
  \A p \in Page : vma[p] \in {"data", "beyond"}
                    => p \in block[BlockOf(p)].pages /\ mem[p] # NoPage

Kept == TypeOK /\ BlocksSound /\ ProgramPages

(* With --forceload the invariant keeps the program's pages.               *)
LEMMA InvKept == Inv => Kept /\ status # "dangling"
<1> SUFFICES ASSUME Inv PROVE Kept /\ status # "dangling"
  OBVIOUS
<1>1. BlocksSound /\ TypeOK /\ status # "dangling"
  BY DEF Inv, OnlyFragments, BlocksSound, StaysDefined
<1>2. ASSUME NEW p \in Page, vma[p] \in {"data", "beyond"}
      PROVE  p \in block[BlockOf(p)].pages /\ mem[p] # NoPage
  <2>1. p \in block[BlockOf(p)].pages
    BY <1>2 DEF Inv, BitsExact
  <2>2. block[BlockOf(p)].kind = "frag"
    BY <2>1, BlockOfPage DEF Inv, OnlyFragments
  <2>3. QED
    BY <2>1, <2>2 DEF Inv, MemoryInBlocks
<1>3. QED
  BY <1>1, <1>2 DEF Kept, ProgramPages

(* The same of the next state.                                             *)
LEMMA InvKeptNext == Inv' => Kept' /\ status' # "dangling"
<1>1. (Inv => Kept /\ status # "dangling")'
  BY InvKept, PTL
<1>2. QED
  BY <1>1

(* A page the program has data in is in memory, with typed contents.       *)
LEMMA DataInMemory ==
  ASSUME Kept, NEW p \in Page, vma[p] = "data"
  PROVE  /\ mem[p] # NoPage /\ mem[p] \in Content
         /\ p \in block[BlockOf(p)].pages
  BY DEF Kept, ProgramPages, TypeOK

(* A call that fails loses memory only when it leaves a deleted Block.     *)
LEMMA NothingLostUnlessDangling ==
  ASSUME NEW f, FailIn(f), status' # "dangling", NEW p \in Page
  PROVE  ~Lost(f, p)
  BY BlockOfPage DEF FailIn, Lost

(* What the program sees is what its pages hold.                           *)
ViewFacts ==
  /\ View \in [Page -> Linux!Seen]
  /\ \A p \in Page : /\ vma[p] = "data" => View[p] = mem[p]
                     /\ vma[p] = "beyond" => View[p] = Beyond
                     /\ vma[p] \in {"none", "leaked"} => View[p] = Unmapped

(* The facts about the view hold in every state of the invariant.          *)
LEMMA ViewCorrect == Kept => ViewFacts
<1> SUFFICES ASSUME Kept PROVE ViewFacts
  OBVIOUS
<1>1. \A p \in Page : /\ vma[p] = "data" => View[p] = mem[p] /\ mem[p] \in Content
                      /\ vma[p] = "beyond" => View[p] = Beyond
                      /\ vma[p] \in {"none", "leaked"} => View[p] = Unmapped
  BY DataInMemory DEF View
<1>2. \A p \in Page : View[p] \in Linux!Seen
  BY <1>1 DEF Kept, TypeOK, Content, Linux!Seen, Linux!Content
<1>3. QED
  BY <1>1, <1>2 DEF View, ViewFacts

(* The same of the next state, where the invariant holds there.            *)
LEMMA ViewCorrectNext == Kept' => ViewFacts'
  BY ViewCorrect, PTL

(* Converting, creating and freeing blocks disturbs no page with data.     *)
LEMMA FragmentedKeepsData ==
  ASSUME Kept, NEW T, NEW p \in Page, vma[p] = "data"
  PROVE  FragmentedMem(T)[p] = mem[p]
  BY DataInMemory DEF FragmentedMem

(* UnusePage keeps the contents of every page still in use.                *)
LEMMA UnusedKeepsData ==
  ASSUME Kept, NEW D, NEW P, NEW p \in Page, vma[p] = "data",
         p \notin P, BlockOf(p) \notin D
  PROVE  UnusedMem(D, P)[p] = mem[p]
<1>1. /\ mem[p] # NoPage
      /\ p \in block[BlockOf(p)].pages
  BY DataInMemory
<1>2. block[BlockOf(p)].pages \subseteq Held(BlockOf(p))
  BY BlockOfPage DEF Held, Kept, BlocksSound
<1>3. ~(Held(BlockOf(p)) \subseteq P)
  BY <1>1, <1>2
<1>4. QED
  BY <1>1, <1>3 DEF UnusedMem

(* A failed call that left the other pages alone is a failed Linux call.   *)
LEMMA FailRefines ==
  ASSUME Kept, Kept', NEW lo \in Page, NEW n \in Length, ret' = "error",
         \A p \in Page \ Span(lo, n) :
           View'[p] = View[p]
  PROVE  Linux!Fail(lo, n)
<1>1. View' \in [Page -> Linux!Seen]
  BY ViewCorrectNext DEF ViewFacts
<1>2. QED
  BY <1>1 DEF Linux!Fail, Linux!Span, Span

(* A view is determined by its values on the pages.                        *)
LEMMA SameView ==
  ASSUME Kept, Kept', NEW p \in Page,
         vma'[p] = vma[p] \/ {vma[p], vma'[p]} \subseteq {"none", "leaked"},
         vma[p] = "data" => mem'[p] = mem[p]
  PROVE  View'[p] = View[p]
  BY ViewCorrect, ViewCorrectNext DEF ViewFacts, Kept, TypeOK

(* A mapping of a span shows the program what Linux would show it, given   *)
(* the memory it leaves, and where it may land when it is not fixed.       *)
LEMMA PlaceRefines ==
  ASSUME Kept, NEW fixed \in BOOLEAN, NEW lo \in Page, NEW n \in Length,
         Place(fixed, lo, n)
  PROVE  Linux!Place(fixed, lo, n)
<1>1. ASSUME ~fixed, NEW p \in Span(lo, n)
      PROVE  View[p] = Unmapped
  <2>1. p \in Page /\ block[BlockOf(p)].kind = "none"
    BY <1>1 DEF Place
  <2>2. vma[p] \in {"none", "leaked"}
    BY <2>1, BlockOfPage DEF Kept, BlocksSound, ProgramPages, TypeOK
  <2>3. QED
    BY <2>1, <2>2, ViewCorrect DEF ViewFacts
<1>2. QED
  BY <1>1 DEF Place, Linux!Place, Linux!Span, Span

(* A leaked page looks unmapped, as it did before.                         *)
LEMMA LeakKeepsView ==
  ASSUME Kept, NEW P, NEW p \in Page, vma' = Leak(P)
  PROVE  vma'[p] = vma[p] \/ {vma[p], vma'[p]} \subseteq {"none", "leaked"}
  BY DEF Leak

(* An anonymous mmap is one of Linux, or a failed call of Linux.           *)
LEMMA AnonymousRefines ==
  ASSUME Kept, Kept', status' # "dangling",
         NEW lo \in Page, NEW n \in Length, MmapAnonymousCall(lo, n)
  PROVE  Linux!Next
<1>1. ASSUME NEW fixed \in BOOLEAN, MmapAnonymous(fixed, lo, n)
      PROVE  Linux!MapAnonymous(fixed, lo, n)
  <2> DEFINE R == Span(lo, n)
  <2>1. /\ mem' = [p \in Page |-> IF p \in R THEN Zero ELSE FragmentedMem(BlocksOf(R))[p]]
        /\ vma' = [p \in Page |-> IF p \in R THEN "data" ELSE vma[p]]
        /\ ret' = "ok"
    BY <1>1 DEF MmapAnonymous, Succeed
  <2> HIDE DEF R
  <2>2. ASSUME NEW p \in Page
        PROVE  View'[p] = IF p \in R THEN Zero ELSE View[p]
    <3>1. CASE p \in R
      BY <2>1, <3>1, ViewCorrectNext DEF ViewFacts
    <3>2. CASE p \notin R
      <4>1. vma'[p] = vma[p] /\ (vma[p] = "data" => mem'[p] = mem[p])
        BY <2>1, <3>2, FragmentedKeepsData
      <4>2. QED
        BY <3>2, <4>1, SameView
    <3>3. QED
      BY <3>1, <3>2
  <2>3. View' = [p \in Page |-> IF p \in R THEN Zero ELSE View[p]]
    BY <2>2, ViewCorrectNext DEF ViewFacts
  <2>4. Linux!Place(fixed, lo, n)
    BY <1>1, PlaceRefines DEF MmapAnonymous
  <2>5. QED
    BY <2>1, <2>3, <2>4 DEF Linux!MapAnonymous, Linux!Span, Span, R
<1>2. ASSUME NEW f \in 0..BlockCount, MmapAnonymousFails(lo, n, f)
      PROVE  Linux!Fail(lo, n)
  <2> DEFINE R == UpTo(Span(lo, n), f)
  <2>1. /\ mem' = [p \in Page |-> IF p \in R THEN Zero
                                  ELSE IF Lost(f, p) THEN NoPage
                                  ELSE FragmentedMem(BlocksOf(R))[p]]
        /\ vma' = Leak(R)
        /\ ret' = "error"
        /\ \A p \in Page : ~Lost(f, p)
    BY <1>2, NothingLostUnlessDangling DEF MmapAnonymousFails, FailIn, CountFailure
  <2>2. R \subseteq Span(lo, n)
    BY DEF UpTo
  <2> HIDE DEF R
  <2>3. \A p \in Page \ Span(lo, n) : View'[p] = View[p]
    BY <2>1, <2>2, SameView, LeakKeepsView, FragmentedKeepsData
  <2>4. QED
    BY <2>1, <2>3, FailRefines
<1>3. QED
  BY <1>1, <1>2 DEF MmapAnonymousCall, Linux!Next

(* A file that is loaded, or fails to be, is one mapped by Linux, or not.  *)
LEMMA LoadRefines ==
  ASSUME Kept, Kept', status' # "dangling",
         NEW lo \in Page, NEW n \in Length, NEW off \in Offset,
         \/ \E fixed \in BOOLEAN : MmapLoad(fixed, lo, n, off)
         \/ \E f \in 0..BlockCount : MmapLoadFails(lo, n, off, f)
         \/ \E q \in Page : MmapReadFails(lo, n, off, q)
  PROVE  Linux!Next
<1>1. ASSUME NEW fixed \in BOOLEAN, MmapLoad(fixed, lo, n, off)
      PROVE  Linux!MapFile(fixed, lo, n, off)
  <2> DEFINE R == Span(lo, n)
  <2>1. /\ mem' = LoadedMem(BlocksOf(R), R, lo, off)
        /\ vma' = FileVma(lo, n, off)
        /\ ret' = "ok"
    BY <1>1 DEF MmapLoad, Succeed
  <2>2. ASSUME NEW p \in Page
        PROVE  View'[p] = IF p \in R THEN Linux!FilePage(off + p - lo) ELSE View[p]
    <3>1. CASE p \in R /\ off + p - lo < FileLen
      <4>1. vma'[p] = "data" /\ mem'[p] = off + p - lo
        BY <2>1, <3>1 DEF FileVma, LoadedMem
      <4>2. QED
        BY <3>1, <4>1, ViewCorrectNext DEF ViewFacts, Linux!FilePage
    <3>2. CASE p \in R /\ ~(off + p - lo < FileLen)
      <4>1. vma'[p] = "beyond"
        BY <2>1, <3>2 DEF FileVma
      <4>2. QED
        BY <3>2, <4>1, ViewCorrectNext DEF ViewFacts, Linux!FilePage
    <3>3. CASE p \notin R
      <4>1. vma'[p] = vma[p] /\ (vma[p] = "data" => mem'[p] = mem[p])
        BY <2>1, <3>3, FragmentedKeepsData DEF FileVma, LoadedMem
      <4>2. QED
        BY <3>3, <4>1, SameView
    <3>4. QED
      BY <3>1, <3>2, <3>3
  <2>3. View' = [p \in Page |-> IF p \in R THEN Linux!FilePage(off + p - lo)
                                           ELSE View[p]]
    BY <2>2, ViewCorrectNext DEF ViewFacts
  <2>4. Linux!Place(fixed, lo, n)
    BY <1>1, PlaceRefines DEF MmapLoad
  <2>5. QED
    BY <2>1, <2>3, <2>4 DEF Linux!MapFile, Linux!Span, Span
<1>2. ASSUME NEW f \in 0..BlockCount, MmapLoadFails(lo, n, off, f)
      PROVE  Linux!Fail(lo, n)
  <2> DEFINE R == UpTo(Span(lo, n), f)
  <2>1. /\ mem' = [p \in Page |-> IF Lost(f, p) THEN NoPage
                                  ELSE LoadedMem(BlocksOf(R), R, lo, off)[p]]
        /\ vma' = Leak(R)
        /\ ret' = "error"
        /\ \A p \in Page : ~Lost(f, p)
    BY <1>2, NothingLostUnlessDangling DEF MmapLoadFails, FailIn, CountFailure
  <2>2. R \subseteq Span(lo, n)
    BY DEF UpTo
  <2> HIDE DEF R
  <2>3. \A p \in Page \ Span(lo, n) : vma[p] = "data" => mem'[p] = mem[p]
    BY <2>1, <2>2, FragmentedKeepsData DEF LoadedMem
  <2>4. \A p \in Page \ Span(lo, n) : View'[p] = View[p]
    BY <2>1, <2>3, SameView, LeakKeepsView
  <2>5. QED
    BY <2>1, <2>4, FailRefines
<1>3. ASSUME NEW q \in Page, MmapReadFails(lo, n, off, q)
      PROVE  Linux!Fail(lo, n)
  <2> DEFINE R == lo..q
  <2>1. /\ mem' = LoadedMem(BlocksOf(R), R \ {q}, lo, off)
        /\ vma' = Leak(R)
        /\ ret' = "error"
    BY <1>3 DEF MmapReadFails, CountFailure
  <2>2. R \subseteq Span(lo, n)
    BY <1>3, SizesAssumption DEF MmapReadFails, Span, Page
  <2> HIDE DEF R
  <2>3. \A p \in Page \ Span(lo, n) : vma[p] = "data" => mem'[p] = mem[p]
    BY <2>1, <2>2, FragmentedKeepsData DEF LoadedMem
  <2>4. \A p \in Page \ Span(lo, n) : View'[p] = View[p]
    BY <2>1, <2>3, SameView, LeakKeepsView
  <2>5. QED
    BY <2>1, <2>4, FailRefines
<1>4. QED
  BY <1>1, <1>2, <1>3 DEF Linux!Next

(* With --forceload every mmap of a file loads it.                         *)
LEMMA FileRefines ==
  ASSUME Kept, Kept', status' # "dangling", ForceLoad,
         NEW lo \in Page, NEW n \in Length, NEW off \in Offset,
         MmapFileCall(lo, n, off)
  PROVE  Linux!Next
<1>1. /\ \A fixed \in BOOLEAN : ~MmapMap(fixed, lo, n, off)
      /\ \A f \in 0..BlockCount : ~MmapMapFails(lo, n, off, f)
  BY DEF MmapMap, MmapMapFails, Maps, Loads
<1>2. QED
  BY <1>1, LoadRefines DEF MmapFileCall

(* A munmap is one of Linux, or a failed call of Linux.                    *)
LEMMA MunmapRefines ==
  ASSUME Kept, Kept', status' # "dangling",
         NEW lo \in Page, NEW n \in Length, MunmapCall(lo, n)
  PROVE  Linux!Next
<1> DEFINE W == WholeBlocks(lo, n)
           L == LoosePages(lo, n)
<1>1. /\ L \in SUBSET Span(lo, n)
      /\ \A p \in Page : p \in Span(lo, n) <=> BlockOf(p) \in W \/ p \in L
  BY MunmapParts
<1>2. ASSUME Munmap(lo, n)
      PROVE  Linux!Unmap(lo, n)
  <2>1. /\ mem' = UnusedMem(W, L)
        /\ vma' = Forget(Span(lo, n))
        /\ ret' = "ok"
    BY <1>2 DEF Munmap, Succeed
  <2> HIDE DEF W, L
  <2>2. ASSUME NEW p \in Page
        PROVE  View'[p] = IF p \in Span(lo, n) THEN Unmapped ELSE View[p]
    <3>1. CASE p \in Span(lo, n)
      BY <2>1, <3>1, ViewCorrectNext DEF ViewFacts, Forget
    <3>2. CASE p \notin Span(lo, n)
      <4>1. vma'[p] = vma[p] /\ (vma[p] = "data" => mem'[p] = mem[p])
        BY <1>1, <2>1, <3>2, UnusedKeepsData DEF Forget
      <4>2. QED
        BY <3>2, <4>1, SameView
    <3>3. QED
      BY <3>1, <3>2
  <2>3. View' = [p \in Page |-> IF p \in Span(lo, n) THEN Unmapped ELSE View[p]]
    BY <2>2, ViewCorrectNext DEF ViewFacts
  <2>4. QED
    BY <2>1, <2>3 DEF Linux!Unmap, Linux!Span, Span
<1>3. ASSUME NEW f \in 0..BlockCount, MunmapFails(lo, n, f)
      PROVE  Linux!Fail(lo, n)
  <2> DEFINE D == {b \in W : b < f}
             P == UpTo(L, IF Recreates(f, L) THEN f + 1 ELSE f)
             S == {p \in Span(lo, n) : BlockOf(p) \in D} \cup P
  <2>1. /\ mem' = [p \in Page |-> IF Lost(f, p) THEN NoPage ELSE UnusedMem(D, P)[p]]
        /\ vma' = Forget(S)
        /\ ret' = "error"
        /\ \A p \in Page : ~Lost(f, p)
    BY <1>3, NothingLostUnlessDangling DEF MunmapFails, FailIn, CountFailure
  <2>2. /\ P \subseteq Span(lo, n)
        /\ S \subseteq Span(lo, n)
        /\ \A p \in Page : BlockOf(p) \in D => p \in Span(lo, n)
    BY <1>1 DEF UpTo
  <2> HIDE DEF D, P, S
  <2>3. \A p \in Page \ Span(lo, n) : /\ vma'[p] = vma[p]
                                      /\ vma[p] = "data" => mem'[p] = mem[p]
    BY <2>1, <2>2, UnusedKeepsData DEF Forget
  <2>4. \A p \in Page \ Span(lo, n) : View'[p] = View[p]
    BY <2>3, SameView
  <2>5. QED
    BY <2>1, <2>4, FailRefines
<1>4. QED
  BY <1>2, <1>3 DEF MunmapCall, Linux!Next

(* MakeWriteable is invisible to the program.                              *)
LEMMA PatchRefines ==
  ASSUME Kept, Kept', status' # "dangling",
         NEW p \in Page, NEW spill \in 0..4, PatchCall(p, spill)
  PROVE  UNCHANGED Linux!vars
<1>1. ASSUME NEW T, vma' = vma, ret' = ret,
             \A q \in Page : mem'[q] = FragmentedMem(T)[q]
      PROVE  UNCHANGED Linux!vars
  <2>1. \A q \in Page : View'[q] = View[q]
    BY <1>1, SameView, FragmentedKeepsData
  <2>2. View' = View
    BY <2>1, ViewCorrect, ViewCorrectNext DEF ViewFacts
  <2>3. QED
    BY <1>1, <2>2 DEF Linux!vars
<1>2. CASE MakeWriteable(p, spill)
  BY <1>1, <1>2 DEF MakeWriteable
<1>3. ASSUME NEW f \in Block, MakeWriteableFails(p, spill, f)
      PROVE  UNCHANGED Linux!vars
  <2> DEFINE T == {b \in CodeBlocks(p, spill) : b < f}
  <2>1. /\ mem' = [q \in Page |-> IF Lost(f, q) THEN NoPage ELSE FragmentedMem(T)[q]]
        /\ vma' = vma /\ ret' = ret
        /\ \A q \in Page : ~Lost(f, q)
    BY <1>3, BlockOfPage DEF MakeWriteableFails, Lost
  <2> HIDE DEF T
  <2>2. \A q \in Page : mem'[q] = FragmentedMem(T)[q]
    BY <2>1
  <2>3. QED
    BY <1>1, <2>1, <2>2
<1>4. QED
  BY <1>2, <1>3 DEF PatchCall

(* A store to mapped memory is the same store on Linux.                    *)
LEMMA StoreRefines ==
  ASSUME Kept, Kept', NEW p \in Page, Store(p)
  PROVE  Linux!Store(p)
<1>1. /\ vma[p] = "data" /\ vma' = vma /\ ret' = ret
      /\ mem' = [mem EXCEPT ![p] = Dirty] /\ mem \in [Page -> Content \cup {NoPage}]
  BY DEF Store, Kept, TypeOK
<1>2. View[p] \in Linux!Content
  BY <1>1, DataInMemory, ViewCorrect DEF ViewFacts, Content, Linux!Content
<1>3. View'[p] = Dirty
  BY <1>1, ViewCorrectNext DEF ViewFacts
<1>4. \A q \in Page \ {p} : View'[q] = View[q]
  BY <1>1, SameView
<1>5. View' = [View EXCEPT ![p] = Dirty]
  BY <1>3, <1>4, ViewCorrect, ViewCorrectNext DEF ViewFacts
<1>6. QED
  BY <1>1, <1>2, <1>5 DEF Linux!Store

(* An mmap Interix refuses is a failed call that changes nothing.          *)
LEMMA RefusedRefines ==
  ASSUME Kept, Kept', NEW lo \in Page, NEW n \in Length, MmapRefused
  PROVE  Linux!Next
<1>1. vma' = vma /\ mem' = mem /\ ret' = "error"
  BY DEF MmapRefused, CountFailure
<1>2. \A p \in Page \ Span(lo, n) : View'[p] = View[p]
  BY <1>1, SameView
<1>3. QED
  BY <1>1, <1>2, FailRefines DEF Linux!Next

(* An msync leaves the view alone, whether it succeeds, fails or ends the  *)
(* emulator.                                                               *)
LEMMA MsyncRefines ==
  ASSUME Kept, Kept', NEW lo \in Page, NEW n \in Length, MsyncCall(lo, n)
  PROVE  [Linux!Next]_Linux!vars
<1>1. vma' = vma /\ mem' = mem
  BY DEF MsyncCall, Msync, MsyncFails, MsyncNull
<1>2. View' = View
  BY <1>1 DEF View
<1>3. CASE Msync(lo, n)
  BY <1>2, <1>3 DEF Msync, Succeed, Linux!Sync, Linux!Next
<1>4. ASSUME NEW f \in 0..BlockCount, MsyncFails(lo, n, f) PROVE Linux!Next
  BY <1>2, <1>4, FailRefines DEF MsyncFails, CountFailure, Linux!Next
<1>5. ASSUME NEW f \in 0..BlockCount, MsyncNull(lo, n, f) PROVE UNCHANGED Linux!vars
  BY <1>2, <1>5 DEF MsyncNull, Linux!vars
<1>6. QED
  BY <1>3, <1>4, <1>5 DEF MsyncCall

(* The program starts with nothing mapped, as on Linux.                    *)
LEMMA InitRefines == Init => Linux!Init
  BY DEF Init, Linux!Init, View

(* Every step is a step of Linux or leaves its view unchanged.             *)
LEMMA NextRefines ==
  ForceLoad /\ Inv /\ Inv' /\ [Next]_vars => [Linux!Next]_Linux!vars
<1> SUFFICES ASSUME ForceLoad, Inv, Inv', [Next]_vars
             PROVE  [Linux!Next]_Linux!vars
  OBVIOUS
<1>0. Kept /\ Kept' /\ status' # "dangling"
  BY InvKept, InvKeptNext
<1>1. ASSUME NEW lo \in Page, NEW n \in Length, MmapRefused PROVE Linux!Next
  BY <1>0, <1>1, RefusedRefines
<1>2. ASSUME NEW lo \in Page, NEW n \in Length, MmapAnonymousCall(lo, n)
      PROVE  Linux!Next
  BY <1>0, <1>2, AnonymousRefines
<1>3. ASSUME NEW lo \in Page, NEW n \in Length, NEW off \in Offset,
             MmapFileCall(lo, n, off)
      PROVE  Linux!Next
  BY <1>0, <1>3, FileRefines
<1>4. ASSUME NEW lo \in Page, NEW n \in Length, MunmapCall(lo, n) PROVE Linux!Next
  BY <1>0, <1>4, MunmapRefines
<1>5. ASSUME NEW lo \in Page, NEW n \in Length, MsyncCall(lo, n)
      PROVE  [Linux!Next]_Linux!vars
  BY <1>0, <1>5, MsyncRefines
<1>6. ASSUME NEW p \in Page, NEW spill \in 0..4, PatchCall(p, spill)
      PROVE  UNCHANGED Linux!vars
  BY <1>0, <1>6, PatchRefines
<1>7. ASSUME NEW p \in Page, Store(p) PROVE Linux!Next
  BY <1>0, <1>7, StoreRefines DEF Linux!Next
<1>8. CASE UNCHANGED vars
  BY <1>8 DEF vars, View, Linux!vars
<1>9. QED
  BY <1>1, <1>2, <1>3, <1>4, <1>5, <1>6, <1>7, <1>8 DEF Next

(* With --forceload the program sees Linux's memory: every call does to    *)
(* the pages it names what Linux does and nothing to any other, for every  *)
(* size of block, range and file and whichever calls fail.                 *)
THEOREM LoadImplementsLinux == ForceLoad => (Spec => ImplementsLinux)
<1> SUFFICES ASSUME ForceLoad PROVE Spec => ImplementsLinux
  OBVIOUS
<1>1. Inv /\ Inv' /\ [Next]_vars => [Linux!Next]_Linux!vars
  BY NextRefines
<1>2. Spec => []Inv
  BY Invariance
<1>3. QED
  BY InitRefines, <1>1, <1>2, PTL DEF Spec, ImplementsLinux, Linux!Spec
=============================================================================
