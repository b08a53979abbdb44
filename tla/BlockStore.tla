----------------------------- MODULE BlockStore -----------------------------
(***************************************************************************)
(* The mmap emulation of src/src/syscalls/mmap.cc.  Interix maps memory    *)
(* only at 64kB boundaries; the BlockStore keeps one Block object per 64kB *)
(* of the emulated range and fakes Linux's 4kB pages on top of them:       *)
(*                                                                         *)
(*   FragmentedBlock  anonymous memory for the whole block, with a bit per *)
(*                    page in use; file pages are read into it;            *)
(*   MappedBlock      a real mapping of at most one block of a file.       *)
(*                                                                         *)
(* Addresses, lengths and offsets are counted in pages from RANGE_BOTTOM.  *)
(* One action is one whole system call made by the program or one call of  *)
(* MakeWriteable by the exception handler.  One file is mapped, private    *)
(* and writeable; its length is a whole number of pages.                   *)
(***************************************************************************)
EXTENDS Integers, FiniteSets

CONSTANTS
  BlockPages,   (* BLOCK_SIZE / PAGE_SIZE: 16 in the code                    *)
  BlockCount,   (* BLOCK_COUNT: 30720 in the code                            *)
  FileLen,      (* st_size of the file, in pages                             *)
  Length,       (* bound: the lengths programs pass                          *)
  Offset,       (* bound: the file offsets programs pass, up to FileLen      *)
  MaxFailures,  (* bound: how many calls may fail                            *)
  ForceLoad,    (* Options.ForceLoad: load files, never map them             *)
  TailSharing,  (* may a file be mapped over a block whose other pages the   *)
                (* program is using?                                         *)
  PastEof,      (* may a file be mapped past its end?                        *)
  Zero, Dirty,  (* contents of a page: zeros, stored to by the program; the  *)
                (* contents of a file page are named by its number           *)
  NoPage,       (* the "contents" of a page Interix has nothing mapped at    *)
  Unmapped, Beyond   (* what LinuxMemory shows of pages without data         *)

ASSUME SizesAssumption ==
  /\ BlockPages \in Nat \ {0}
  /\ BlockCount \in Nat \ {0}
  /\ FileLen \in Nat
  /\ Length \subseteq Nat \ {0}
  /\ Offset \subseteq 0..FileLen
  /\ MaxFailures \in Nat

ASSUME OptionsAssumption ==
  /\ ForceLoad \in BOOLEAN
  /\ TailSharing \in BOOLEAN
  /\ PastEof \in BOOLEAN

(* Free memory is recognisable: no page's contents look like no page.      *)
ASSUME ContentsAssumption == NoPage \notin {Zero, Dirty} \cup (0..FileLen-1)

VARIABLES
  block,     (* BlockStore::_blocks: the Block object of each 64kB block     *)
  mem,       (* the contents of each page of the process's address space     *)
  status,    (* "running", or how the emulator ended: "aborted" by an        *)
             (* assertion, "crashed" on a bad pointer, "badsync" on one     *)
             (* that an msync of pages never mapped has followed, "dangling" *)
             (* once the table points to a deleted Block                     *)
  failures,  (* calls that have failed so far                                *)
  ret,       (* did the program's last call succeed?                         *)
  vma        (* history: what Linux's own table would hold for each page     *)

vars == <<block, mem, status, failures, ret, vma>>

Block == 0 .. BlockCount - 1
Page  == 0 .. BlockPages * BlockCount - 1

Content == {Zero, Dirty} \cup (0..FileLen-1)

BlockOf(p) == p \div BlockPages
PagesOf == [b \in Block |-> {p \in Page : BlockOf(p) = b}]
Span(lo, n) == lo .. lo + n - 1
Aligned(p) == p % BlockPages = 0

(* The pages a Block holds: the bits of a FragmentedBlock, or the pages    *)
(* within _length of a MappedBlock.                                        *)
BlockState == [kind : {"none", "frag", "mapped"}, pages : SUBSET Page]
NoBlock == [kind |-> "none", pages |-> {}]
Frag(P) == [kind |-> "frag", pages |-> P]
Mapped(P) == [kind |-> "mapped", pages |-> P]

TypeOK ==
  /\ block \in [Block -> BlockState]
  /\ mem \in [Page -> Content \cup {NoPage}]
  /\ status \in {"running", "aborted", "crashed", "badsync", "dangling"}
  /\ failures \in 0..MaxFailures
  /\ ret \in {"ok", "error"}
  /\ vma \in [Page -> {"none", "data", "beyond", "leaked"}]

Init ==
  /\ block = [b \in Block |-> NoBlock]
  /\ mem = [p \in Page |-> NoPage]
  /\ status = "running"
  /\ failures = 0
  /\ ret = "ok"
  /\ vma = [p \in Page |-> "none"]
-----------------------------------------------------------------------------
(***************************************************************************)
(* BlockStore's own operations.                                            *)
(***************************************************************************)
BlocksOf(P) == {BlockOf(p) : p \in P}

(* The pages GetPageMap finds in use in block b.  Converting a MappedBlock *)
(* sets every bit.                                                         *)
Held(b) == IF block[b].kind = "mapped" THEN PagesOf[b] ELSE block[b].pages

(* GetPageMap on every block of T and the bits of P set: a missing block   *)
(* is created; a MappedBlock's contents are copied to a new                *)
(* FragmentedBlock, zero past its length.                                  *)
FragmentedBlocks(T, P) ==
  [b \in Block |-> IF b \in T THEN Frag(Held(b) \cup (P \cap PagesOf[b]))
                              ELSE block[b]]

(* Fault variant: a conversion that does not copy the contents back.       *)
FragmentedMemUncopied(T) ==
  [p \in Page |-> IF BlockOf(p) \in T /\ (mem[p] = NoPage \/ block[BlockOf(p)].kind = "mapped")
                  THEN Zero ELSE mem[p]]

FragmentedMem(T) ==
  [p \in Page |-> IF BlockOf(p) \in T /\ mem[p] = NoPage THEN Zero ELSE mem[p]]

(* Fault variants of UnusePage: it frees the block when a bit is left,     *)
(* never frees it, leaves the bit set, or drops a MappedBlock instead of   *)
(* converting it.                                                          *)
UnusedBlocksFreeEarly(D, P) ==
  [b \in Block |-> IF b \in D \/ P \cap PagesOf[b] # {} THEN NoBlock ELSE block[b]]

UnusedBlocksKeepEmpty(D, P) ==
  [b \in Block |->
     IF b \in D THEN NoBlock
     ELSE IF P \cap PagesOf[b] = {} THEN block[b]
     ELSE Frag(Held(b) \ P)]

UnusedBlocksKeepBit(D, P) ==
  [b \in Block |->
     IF b \in D THEN NoBlock
     ELSE IF P \cap PagesOf[b] # {} /\ Held(b) \subseteq P THEN NoBlock
     ELSE block[b]]

UnusedBlocksDropMapped(D, P) ==
  [b \in Block |->
     IF b \in D \/ (P \cap PagesOf[b] # {} /\ block[b].kind = "mapped") THEN NoBlock
     ELSE IF P \cap PagesOf[b] = {} THEN block[b]
     ELSE IF Held(b) \subseteq P THEN NoBlock
     ELSE Frag(Held(b) \ P)]

(* UnusePage on every page of P, after the blocks of D were deleted whole: *)
(* a block left without a bit is deleted.                                  *)
UnusedBlocks(D, P) ==
  [b \in Block |->
     IF b \in D THEN NoBlock
     ELSE IF P \cap PagesOf[b] = {} THEN block[b]
     ELSE IF Held(b) \subseteq P THEN NoBlock
     ELSE Frag(Held(b) \ P)]

(* Fault variant: a FragmentedBlock that does not unmap its memory.        *)
UnusedMemKept(D, P) ==
  [p \in Page |-> IF BlockOf(p) \in D THEN NoPage
                  ELSE IF P \cap PagesOf[BlockOf(p)] # {} /\ mem[p] = NoPage THEN Zero
                  ELSE mem[p]]

UnusedMem(D, P) ==
  [p \in Page |->
     IF \/ BlockOf(p) \in D
        \/ P \cap PagesOf[BlockOf(p)] # {} /\ Held(BlockOf(p)) \subseteq P
     THEN NoPage
     ELSE IF P \cap PagesOf[BlockOf(p)] # {} /\ mem[p] = NoPage THEN Zero
     ELSE mem[p]]

(* Map replaces every block of the mapping, whole, by a MappedBlock of     *)
(* those of the mapped pages M that lie in it.                             *)
MappedBlocks(M) ==
  [b \in Block |-> IF b \in BlocksOf(M) THEN Mapped(M \cap PagesOf[b])
                                        ELSE block[b]]

MappedMem(M, lo, off) ==
  [p \in Page |-> IF p \in M THEN off + p - lo
                  ELSE IF BlockOf(p) \in BlocksOf(M) THEN NoPage
                  ELSE mem[p]]
-----------------------------------------------------------------------------
(***************************************************************************)
(* How a call ends.                                                        *)
(***************************************************************************)
Succeed == /\ ret' = "ok"
           /\ UNCHANGED <<status, failures>>

CountFailure == /\ failures < MaxFailures
                /\ failures' = failures + 1
                /\ ret' = "error"

(* A loop over a span's pages can fail in block f: at an address past      *)
(* RANGE_TOP, or when GetPageMap asks Interix for a FragmentedBlock.       *)
CanFailIn(f) == \/ f = BlockCount
                \/ f \in Block /\ block[f].kind # "frag"

(* GetPageMap deletes a MappedBlock before it creates its successor.  If   *)
(* that fails the memory is gone and the table keeps the deleted Block.    *)
FailIn(f) == /\ CountFailure
             /\ status' = IF f \in Block /\ block[f].kind = "mapped"
                          THEN "dangling" ELSE "running"

Lost(f, p) == BlockOf(p) = f /\ block[f].kind = "mapped"

(* The loops do not undo what they did: pages used by a call that fails    *)
(* later keep their bits although Linux would leave nothing there.         *)
Leak(P) == [p \in Page |-> IF p \in P /\ vma[p] = "none" THEN "leaked" ELSE vma[p]]

(* What was there before is gone, as far as the program can tell.          *)
Forget(P) == [p \in Page |-> IF p \in P THEN "none" ELSE vma[p]]

UpTo(S, f) == {p \in S : BlockOf(p) < f}
-----------------------------------------------------------------------------
(***************************************************************************)
(* do_mmap.                                                                *)
(***************************************************************************)

(* Without MAP_FIXED, Interix is asked for an unused area: it starts at a  *)
(* 64kB boundary and overlaps no block of the store.                       *)
Place(fixed, lo, n) ==
  /\ Span(lo, n) \subseteq Page
  /\ ~fixed => /\ Aligned(lo)
               /\ \A p \in Span(lo, n) : block[BlockOf(p)].kind = "none"

(* Interix has no such area, or picks one outside the emulated range.      *)
MmapRefused ==
  /\ CountFailure
  /\ UNCHANGED <<block, mem, status, vma>>

(* Fault variant: pages of a block already there are not cleared.          *)
MmapAnonymousDirty(fixed, lo, n) ==
  LET R == Span(lo, n)
  IN  /\ Place(fixed, lo, n)
      /\ block' = FragmentedBlocks(BlocksOf(R), R)
      /\ mem' = FragmentedMem(BlocksOf(R))
      /\ vma' = [p \in Page |-> IF p \in R THEN "data" ELSE vma[p]]
      /\ Succeed

MmapAnonymous(fixed, lo, n) ==
  LET R == Span(lo, n)
  IN  /\ Place(fixed, lo, n)
      /\ block' = FragmentedBlocks(BlocksOf(R), R)
      /\ mem' = [p \in Page |-> IF p \in R THEN Zero
                                ELSE FragmentedMem(BlocksOf(R))[p]]
      /\ vma' = [p \in Page |-> IF p \in R THEN "data" ELSE vma[p]]
      /\ Succeed

MmapAnonymousFails(lo, n, f) ==
  LET R == UpTo(Span(lo, n), f)
  IN  /\ f \in BlocksOf(Span(lo, n)) /\ CanFailIn(f)
      /\ block' = FragmentedBlocks(BlocksOf(R), R)
      /\ mem' = [p \in Page |-> IF p \in R THEN Zero
                                ELSE IF Lost(f, p) THEN NoPage
                                ELSE FragmentedMem(BlocksOf(R))[p]]
      /\ vma' = Leak(R)
      /\ FailIn(f)

Loads(lo, off) == ForceLoad \/ ~Aligned(lo) \/ ~Aligned(off)

(* Linux's view of the span after a file was mapped: past the end of the   *)
(* file there are pages, but no data.                                      *)
FileVma(lo, n, off) ==
  [p \in Page |-> IF p \notin Span(lo, n) THEN vma[p]
                  ELSE IF off + p - lo < FileLen THEN "data" ELSE "beyond"]

(* Fault variant: reading goes on past the end of the file.                *)
LoadedMemPastEnd(T, L, lo, off) ==
  [p \in Page |-> IF p \in L THEN off + p - lo ELSE FragmentedMem(T)[p]]

(* pread at the end of the file reads nothing: the page keeps its contents. *)
LoadedMem(T, L, lo, off) ==
  [p \in Page |-> IF p \in L /\ off + p - lo < FileLen THEN off + p - lo
                  ELSE FragmentedMem(T)[p]]

FileRequest(n, off) == PastEof \/ off + n <= FileLen

MmapLoad(fixed, lo, n, off) ==
  LET R == Span(lo, n)
  IN  /\ Loads(lo, off) /\ FileRequest(n, off)
      /\ Place(fixed, lo, n)
      /\ block' = FragmentedBlocks(BlocksOf(R), R)
      /\ mem' = LoadedMem(BlocksOf(R), R, lo, off)
      /\ vma' = FileVma(lo, n, off)
      /\ Succeed

MmapLoadFails(lo, n, off, f) ==
  LET R == UpTo(Span(lo, n), f)
      T == BlocksOf(R)
  IN  /\ Loads(lo, off) /\ FileRequest(n, off)
      /\ f \in BlocksOf(Span(lo, n)) /\ CanFailIn(f)
      /\ block' = FragmentedBlocks(T, R)
      /\ mem' = [p \in Page |-> IF Lost(f, p) THEN NoPage
                                ELSE LoadedMem(T, R, lo, off)[p]]
      /\ vma' = Leak(R)
      /\ FailIn(f)

(* pread fails at page q, which is in use by then.                         *)
MmapReadFails(lo, n, off, q) ==
  LET R == lo..q
  IN  /\ Loads(lo, off) /\ FileRequest(n, off)
      /\ q \in Span(lo, n) /\ R \subseteq Page
      /\ block' = FragmentedBlocks(BlocksOf(R), R)
      /\ mem' = LoadedMem(BlocksOf(R), R \ {q}, lo, off)
      /\ vma' = Leak(R)
      /\ CountFailure
      /\ UNCHANGED status

(* Only as much as the file has is mapped.                                 *)
RealLen(n, off) == IF n < FileLen - off THEN n ELSE FileLen - off

Maps(lo, n, off) ==
  LET M == Span(lo, RealLen(n, off))
  IN  /\ ~Loads(lo, off) /\ FileRequest(n, off)
      /\ \/ TailSharing
         \/ \A p \in Page \ Span(lo, n) :
              BlockOf(p) \in BlocksOf(M) => vma[p] \notin {"data", "beyond"}

MmapMap(fixed, lo, n, off) ==
  LET M == Span(lo, RealLen(n, off))
  IN  /\ Maps(lo, n, off)
      /\ Place(fixed, lo, n)
      /\ block' = MappedBlocks(M)
      /\ mem' = MappedMem(M, lo, off)
      /\ vma' = FileVma(lo, n, off)
      /\ Succeed

(* MappedBlock's mmap fails in block f, or f is past RANGE_TOP.  Map       *)
(* cleans up with Unmap(address, length), whose assertion wants a length   *)
(* of whole blocks, and which deletes block f again if there was one.      *)
MmapMapFails(lo, n, off, f) ==
  LET M == Span(lo, RealLen(n, off))
      gone == BlocksOf(M)
  IN  /\ Maps(lo, n, off)
      /\ f \in gone /\ f <= BlockCount
      /\ block' = [b \in Block |-> IF b \in gone THEN NoBlock ELSE block[b]]
      /\ mem' = [p \in Page |-> IF BlockOf(p) \in gone THEN NoPage ELSE mem[p]]
      /\ vma' = Forget({p \in Span(lo, n) : BlockOf(p) \in gone})
      /\ CountFailure
      /\ status' = IF ~Aligned(RealLen(n, off)) THEN "aborted"
                   ELSE IF f \in Block /\ block[f].kind # "none" THEN "crashed"
                   ELSE "running"
-----------------------------------------------------------------------------
(***************************************************************************)
(* do_munmap: at a 64kB boundary the whole blocks of the span go at once;  *)
(* what is left is given up page by page.                                  *)
(***************************************************************************)
WholeLen(lo, n) == IF Aligned(lo) THEN n - (n % BlockPages) ELSE 0
WholeBlocks(lo, n) == BlocksOf(Span(lo, WholeLen(lo, n)))
LoosePages(lo, n) == Span(lo + WholeLen(lo, n), n - WholeLen(lo, n))

Munmap(lo, n) ==
  /\ Span(lo, n) \subseteq Page
  /\ block' = UnusedBlocks(WholeBlocks(lo, n), LoosePages(lo, n))
  /\ mem' = UnusedMem(WholeBlocks(lo, n), LoosePages(lo, n))
  /\ vma' = Forget(Span(lo, n))
  /\ Succeed

(* UnusePage creates a block for a page that has none: also in a block     *)
(* whose last bit an earlier page of the same call has cleared.            *)
Recreates(f, P) ==
  /\ f \in Block
  /\ block[f].kind = "frag"
  /\ \E p \in P \cap PagesOf[f] : \A q \in block[f].pages : q \in P /\ q < p

MunmapFails(lo, n, f) ==
  LET again == Recreates(f, LoosePages(lo, n))
      D == {b \in WholeBlocks(lo, n) : b < f}
      P == UpTo(LoosePages(lo, n), IF again THEN f + 1 ELSE f)
  IN  /\ f \in BlocksOf(Span(lo, n))
      /\ \/ f = BlockCount
         \/ f \notin WholeBlocks(lo, n) /\ (CanFailIn(f) \/ again)
      /\ block' = UnusedBlocks(D, P)
      /\ mem' = [p \in Page |-> IF Lost(f, p) THEN NoPage ELSE UnusedMem(D, P)[p]]
      /\ vma' = Forget({p \in Span(lo, n) : BlockOf(p) \in D} \cup P)
      /\ FailIn(f)
-----------------------------------------------------------------------------
(***************************************************************************)
(* The other users of the store.                                           *)
(***************************************************************************)

(* sys_msync asks every block from that of the first page to that of the   *)
(* last to Msync, whatever is mapped there; here f is the first block of   *)
(* the span it does not get past.                                          *)
Present(T) == \A b \in T : b \in Block /\ block[b].kind # "none"

Msync(lo, n) ==
  /\ Present(BlocksOf(Span(lo, n)))
  /\ Succeed
  /\ UNCHANGED <<block, mem, vma>>

(* f is past RANGE_TOP, or Interix's msync of it fails.  (An EIO is taken  *)
(* for a success.)                                                         *)
MsyncFails(lo, n, f) ==
  /\ f \in BlocksOf(Span(lo, n))
  /\ Present(BlocksOf(UpTo(Span(lo, n), f)))
  /\ f = BlockCount \/ Present({f})
  /\ CountFailure
  /\ UNCHANGED <<block, mem, status, vma>>

(* There is no Block f: the code calls Msync through a NULL pointer, where *)
(* Linux answers ENOMEM if a page of the span is not mapped.               *)
MsyncNull(lo, n, f) ==
  /\ f \in BlocksOf(Span(lo, n)) \cap Block
  /\ Present(BlocksOf(UpTo(Span(lo, n), f))) /\ ~Present({f})
  /\ status' = IF \A p \in Span(lo, n) : p \in Page /\ vma[p] \in {"data", "beyond"}
               THEN "crashed" ELSE "badsync"
  /\ UNCHANGED <<block, mem, failures, ret, vma>>

(* MakeWriteable(addr, 5) for an instruction that starts in page p and     *)
(* has its last `spill' bytes in the next block: AlignUp(addr + 5 - 1).    *)
CodeBlocks(p, spill) ==
  {BlockOf(p), IF spill <= 1 THEN BlockOf(p) + 1 ELSE BlockOf(p) + 2}

Executes(p, spill) ==
  /\ vma[p] = "data" /\ mem[p] # NoPage
  /\ spill > 0 => Aligned(p + 1)

MakeWriteable(p, spill) ==
  /\ Executes(p, spill)
  /\ block' = FragmentedBlocks(CodeBlocks(p, spill), {})
  /\ mem' = FragmentedMem(CodeBlocks(p, spill))
  /\ UNCHANGED <<status, failures, ret, vma>>

MakeWriteableFails(p, spill, f) ==
  LET T == {b \in CodeBlocks(p, spill) : b < f}
  IN  /\ Executes(p, spill)
      /\ f \in CodeBlocks(p, spill) \cap Block /\ CanFailIn(f)
      /\ block' = FragmentedBlocks(T, {})
      /\ mem' = [q \in Page |-> IF Lost(f, q) THEN NoPage ELSE FragmentedMem(T)[q]]
      /\ failures < MaxFailures /\ failures' = failures + 1
      /\ status' = IF block[f].kind = "mapped" THEN "dangling" ELSE "running"
      /\ UNCHANGED <<ret, vma>>

(* The program stores to a page it has mapped and can reach.               *)
Store(p) ==
  /\ vma[p] = "data" /\ mem[p] # NoPage
  /\ mem' = [mem EXCEPT ![p] = Dirty]
  /\ UNCHANGED <<block, status, failures, ret, vma>>
-----------------------------------------------------------------------------
MmapAnonymousCall(lo, n) ==
  \/ \E fixed \in BOOLEAN : MmapAnonymous(fixed, lo, n)
  \/ \E f \in 0..BlockCount : MmapAnonymousFails(lo, n, f)

MmapFileCall(lo, n, off) ==
  \/ \E fixed \in BOOLEAN : MmapLoad(fixed, lo, n, off) \/ MmapMap(fixed, lo, n, off)
  \/ \E f \in 0..BlockCount : \/ MmapLoadFails(lo, n, off, f)
                              \/ MmapMapFails(lo, n, off, f)
  \/ \E q \in Page : MmapReadFails(lo, n, off, q)

MunmapCall(lo, n) ==
  \/ Munmap(lo, n)
  \/ \E f \in 0..BlockCount : MunmapFails(lo, n, f)

MsyncCall(lo, n) ==
  \/ Msync(lo, n)
  \/ \E f \in 0..BlockCount : MsyncFails(lo, n, f) \/ MsyncNull(lo, n, f)

PatchCall(p, spill) ==
  \/ MakeWriteable(p, spill)
  \/ \E f \in Block : MakeWriteableFails(p, spill, f)

Next ==
  /\ status = "running"
  /\ \/ \E lo \in Page, n \in Length :
          \/ MmapRefused
          \/ MmapAnonymousCall(lo, n)
          \/ \E off \in Offset : MmapFileCall(lo, n, off)
          \/ MunmapCall(lo, n)
          \/ MsyncCall(lo, n)
     \/ \E p \in Page, spill \in 0..4 : PatchCall(p, spill)
     \/ \E p \in Page : Store(p)

Spec == Init /\ [][Next]_vars
-----------------------------------------------------------------------------
(***************************************************************************)
(* Properties.                                                             *)
(***************************************************************************)

(* The pages the program sees: those Linux would show it, with the         *)
(* contents they really have.                                              *)
View == [p \in Page |-> IF vma[p] = "data"
                          THEN IF mem[p] = NoPage THEN Unmapped ELSE mem[p]
                        ELSE IF vma[p] = "beyond" THEN Beyond
                        ELSE Unmapped]

Linux == INSTANCE LinuxMemory WITH view <- View

(* The emulation keeps mmap.cc's promise: whatever the program maps,       *)
(* unmaps, syncs, stores and executes, in whatever order, it sees what a   *)
(* Linux kernel with 4kB pages would have shown it.  (What msync answers   *)
(* where nothing is mapped is not compared: LinuxMemory leaves it open.)   *)
ImplementsLinux == Linux!Spec

(* The emulator never fails an assertion and never follows a NULL or       *)
(* deleted Block pointer, but for the NULL of an msync that names a page   *)
(* the program has not mapped, which sys_msync does not look out for.  In  *)
(* particular there is a Block under every page the program has mapped.    *)
StaysDefined == status \in {"running", "badsync"}

(* The same where files are mapped and calls may fail: only a failure that *)
(* leaves a deleted Block in the table reaches pages no call named.        *)
LinuxUnlessDangling ==
  /\ Linux!Init
  /\ [][Linux!Next \/ status' = "dangling"]_Linux!vars

(* Where files are mapped, it takes a failed call, or an msync of pages    *)
(* the program has not mapped, to break the emulator.                      *)
DefinedUnlessFailed == failures = 0 => StaysDefined

(* A block's bits are exact: set for the pages Linux would have mapped and *)
(* for those of calls that failed half way, and for no other.  A bit too   *)
(* few lets UnusePage delete memory in use; one too many leaks the block.  *)
BitsExact ==
  \A p \in Page : p \in block[BlockOf(p)].pages <=> vma[p] # "none"

(* No page of the process is accessible behind the store's back: memory is *)
(* there exactly where a FragmentedBlock is, or a MappedBlock's file.      *)
MemoryInBlocks ==
  \A p \in Page :
    mem[p] # NoPage <=> \/ block[BlockOf(p)].kind = "frag"
                        \/ /\ block[BlockOf(p)].kind = "mapped"
                           /\ p \in block[BlockOf(p)].pages

(* With --forceload, once Linux would have nothing mapped in a block any   *)
(* more the block is freed: the call that gives up its last page, in       *)
(* whatever order the pages go, deletes the Block and unmaps its memory.   *)
(* (Without, the bits a conversion sets for all 16 pages may keep it.)     *)
EmptiedIsFreed ==
  [][\A b \in Block :
        (\E p \in PagesOf[b] : vma[p] # "none") /\ (\A p \in PagesOf[b] : vma'[p] = "none")
          => block'[b].kind = "none"]_vars

(* "emulate 4kB blocks on top of 64kB blocks": a page the program has      *)
(* mapped and not given up is in memory.  False of the code when a file is *)
(* mapped over part of a block: Map replaces the block whole.              *)
ProgramMemoryPresent ==
  \A p \in Page : vma[p] = "data" => mem[p] # NoPage

(* "length must be 64kB-aligned": Unmap's assertion about its callers.     *)
(* False of the code when Map cleans up after itself.                      *)
AssertionsHold == status # "aborted"
=============================================================================
