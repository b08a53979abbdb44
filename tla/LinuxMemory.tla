---------------------------- MODULE LinuxMemory ----------------------------
(***************************************************************************)
(* What mmap(), munmap() and a store mean to a Linux program: memory is a  *)
(* table of 4kB pages and every call acts on exactly the pages it names.   *)
(* This is the promise the emulation layer of src/src/syscalls/mmap.cc     *)
(* makes ("emulate 4kB blocks on top of 64kB blocks"); BlockStore.tla is   *)
(* the layer itself and is shown to implement this module.                 *)
(***************************************************************************)
EXTENDS Integers

CONSTANTS
  Page,       (* the pages of the address space, a set of integers           *)
  Length,     (* the lengths programs pass, in pages                         *)
  Offset,     (* the file offsets programs pass, in pages                    *)
  FileLen,    (* length of the file programs map, in pages                   *)
  Zero,       (* contents of a zero-filled page                              *)
  Dirty,      (* contents of a page the program has stored to                *)
  Unmapped,   (* the view of a page with no mapping                          *)
  Beyond      (* the view of a page mapped past the end of its file          *)

VARIABLES
  view,       (* what the program sees of each page                          *)
  ret         (* did the program's last call succeed?                        *)

vars == <<view, ret>>

Content == {Zero, Dirty} \cup (0..FileLen-1)

Seen == Content \cup {Unmapped, Beyond}

(* Page k of the file: its contents are named by its number.               *)
FilePage(k) == IF k < FileLen THEN k ELSE Beyond

Span(lo, n) == lo .. lo + n - 1

TypeOK ==
  /\ view \in [Page -> Seen]
  /\ ret \in {"ok", "error"}

Init ==
  /\ view = [p \in Page |-> Unmapped]
  /\ ret = "ok"

(***************************************************************************)
(* A mapping that succeeds replaces exactly the pages of its span; one     *)
(* without MAP_FIXED lands where nothing was mapped.                       *)
(***************************************************************************)
Place(fixed, lo, n) ==
  /\ Span(lo, n) \subseteq Page
  /\ ~fixed => \A p \in Span(lo, n) : view[p] = Unmapped

MapAnonymous(fixed, lo, n) ==
  /\ Place(fixed, lo, n)
  /\ view' = [p \in Page |-> IF p \in Span(lo, n) THEN Zero ELSE view[p]]
  /\ ret' = "ok"

MapFile(fixed, lo, n, off) ==
  /\ Place(fixed, lo, n)
  /\ view' = [p \in Page |-> IF p \in Span(lo, n) THEN FilePage(off + p - lo)
                                                  ELSE view[p]]
  /\ ret' = "ok"

Unmap(lo, n) ==
  /\ view' = [p \in Page |-> IF p \in Span(lo, n) THEN Unmapped ELSE view[p]]
  /\ ret' = "ok"

(* msync leaves the pages as they are.  Linux answers ENOMEM if a page of  *)
(* the span is not mapped; the layer does not promise that answer.         *)
Sync == /\ UNCHANGED view
        /\ ret' = "ok"

(* A call that fails may have done part of its work, but outside the span  *)
(* it named nothing has changed.                                           *)
Fail(lo, n) ==
  /\ view' \in [Page -> Seen]
  /\ \A p \in Page \ Span(lo, n) : view'[p] = view[p]
  /\ ret' = "error"

Store(p) ==
  /\ view[p] \in Content
  /\ view' = [view EXCEPT ![p] = Dirty]
  /\ UNCHANGED ret

Next ==
  \/ \E lo \in Page, n \in Length :
       \/ \E fixed \in BOOLEAN : MapAnonymous(fixed, lo, n)
       \/ \E fixed \in BOOLEAN, off \in Offset : MapFile(fixed, lo, n, off)
       \/ Unmap(lo, n)
       \/ Fail(lo, n)
  \/ Sync
  \/ \E p \in Page : Store(p)

Spec == Init /\ [][Next]_vars
=============================================================================
