------------------------------ MODULE FdTable ------------------------------
(***************************************************************************)
(* File descriptors: Interix's own table beside the map from numbers to FD *)
(* objects of src/src/filesystem/FD.cc.  The object of a number remembers  *)
(* what Interix cannot: that the descriptor stands for a directory node of *)
(* the VFS.  Real directories are opened read only, fake ones (/dev/pts,   *)
(* the root of a chroot) are sockets that only hold the number.            *)
(*                                                                         *)
(* The program's signal handlers are installed with Interix as they are    *)
(* and run on the process's one thread, between any two steps of a system  *)
(* call; the lock of FD.cc is recursive and does not stop them.  A call    *)
(* made by a handler completes before the call it interrupted goes on, so  *)
(* the calls in progress form a stack of frames.                           *)
(*                                                                         *)
(* A call that is refused before it changes anything is not an action, and *)
(* neither is fork, which copies every table.  The close-on-exec flags are *)
(* not kept: an exec closes any set of numbers.                            *)
(***************************************************************************)
EXTENDS Integers, FiniteSets

CONSTANTS
  FdCount,    (* bound: Interix's limit on descriptors per process           *)
  MaxDepth,   (* bound: 1 + the number of handlers nested in a call          *)
  File,       (* anything but a directory: file, pipe, socket, terminal      *)
  Dir,        (* directories, of Interix or of the VFS only                  *)
  Closed,     (* a number that is not open                                   *)
  NULL        (* no object, no node                                          *)

ASSUME BoundsAssumption ==
  /\ FdCount \in Nat \ {0}
  /\ MaxDepth \in Nat \ {0}

ASSUME KindsAssumption ==
  /\ File \notin Dir
  /\ NULL \notin Dir
  /\ NULL \notin Nat
  /\ Closed \notin {File} \cup Dir

VARIABLES
  phase,       (* "loading" the executable, "running" the program, or "dead" *)
  kern,        (* Interix's table                                            *)
  fds,         (* the map of FD.cc: number to FD object                      *)
  obj,         (* the FD objects: _fd and _node                              *)
  frame,       (* the frames of the calls in progress, outermost first       *)
  level,       (* how many calls are in progress                             *)
  given,       (* the program's view: how it came by each number             *)
  overlaid,    (* history: numbers a dup2 replaced while they were open      *)
  interrupted  (* history: has a handler made a call inside another call?    *)

vars == <<phase, kern, fds, obj, frame, level, given, overlaid, interrupted>>

Fd == 0 .. FdCount - 1
Level == 1 .. MaxDepth
Object == 1 .. FdCount + MaxDepth

Kind == {File} \cup Dir
FdObject == [fd : Fd \cup {-1}, node : Dir \cup {NULL}]
Deleted == [fd |-> -1, node |-> NULL]

(* op is the call, at the step it takes next; n and m its numbers, what    *)
(* the thing it opens, ref the FD object a Ref in it holds.                *)
Frame ==
  [op : {"none", "use", "close", "dup", "open", "pipe"},
   at : {"none", "new", "set", "op", "unset", "ctor", "second", "done"},
   n : Fd, m : Fd \cup {-1}, what : Kind, ref : Object \cup {NULL}]
NoFrame == [op |-> "none", at |-> "none", n |-> 0, m |-> 0, what |-> File, ref |-> NULL]

TypeOK ==
  /\ phase \in {"loading", "running", "dead"}
  /\ kern \in [Fd -> Kind \cup {Closed}]
  /\ fds \in [Fd -> Object \cup {NULL}]
  /\ obj \in [Object -> FdObject]
  /\ frame \in [Level -> Frame]
  /\ level \in 0 .. MaxDepth
  /\ given \in [Fd -> {"no", "yes", "opendir"}]
  /\ overlaid \subseteq Fd
  /\ interrupted \in BOOLEAN

IsOpen(k) == k \in Fd /\ kern[k] # Closed
Unused == {k \in Fd : kern[k] = Closed}
Lowest(S) == {k \in S : \A l \in S : k <= l}   (* at most one number *)

call == frame[level]
fdOf == obj[call.ref].fd   (* GetFD() of the object the call holds           *)

(* References to objects: from the map and from the frames.                *)
Referenced(table, frames) ==
  {table[k] : k \in Fd} \cup {frames[i].ref : i \in Level}

(* The tables after a step; an object without references is deleted.       *)
Settle(table, objects, frames) ==
  /\ fds' = table
  /\ frame' = frames
  /\ obj' = [o \in Object |->
               IF o \in Referenced(table, frames) THEN objects[o] ELSE Deleted]

(* Where a constructor's new object may be: of the free places any would   *)
(* do, and a fixed choice keeps the number of states down.                 *)
FreshObject(k) ==
  LET free == Object \ Referenced(fds, frame)
  IN IF k + 1 \in free THEN {k + 1} ELSE {o \in free : \A p \in free : o <= p}

(* The current call goes on to its next step, or is over.                  *)
Proceed(table, objects, f) ==
  /\ Settle(table, objects, [frame EXCEPT ![level] = f])
  /\ UNCHANGED level
Return(table, objects) ==
  /\ Settle(table, objects, [frame EXCEPT ![level] = NoFrame])
  /\ level' = level - 1

Enter(f) ==
  /\ phase = "running"
  /\ level < MaxDepth
  /\ level' = level + 1
  /\ interrupted' = (interrupted \/ level > 0)
  /\ Settle(fds, obj, [frame EXCEPT ![level + 1] = f])

At(op, step) == level > 0 /\ call.op = op /\ call.at = step

(* Numbers that belong to calls in progress; the program has not been told *)
(* them yet.                                                               *)
InFlight ==
  UNION {{frame[i].n, frame[i].m} : i \in {j \in Level :
           frame[j].op \in {"open", "pipe"}}}

(* Outside handlers a program may name any number, as loops that close     *)
(* every descriptor do.  In a handler it names those it was given.         *)
Nameable == IF level = 0 THEN Fd ELSE {k \in Fd : given[k] # "no"}

(* Fault variant: a directory gets a RealFD.                               *)
NodeOfRealFD(what) == NULL

NodeOf(what) == IF what \in Dir THEN what ELSE NULL

(* new RealFD or new FakeDirFD, for the number k, and on to the next step. *)
Construct(k, step) ==
  \E o \in FreshObject(k) :
    Proceed([fds EXCEPT ![k] = o],
            [obj EXCEPT ![o] = [fd |-> k, node |-> NodeOf(call.what)]],
            [call EXCEPT !.at = step, !.ref = o])

(***************************************************************************)
(* FD::Get, the first step of every call that names a descriptor.  It      *)
(* finds the object in the map, or makes one without a node for a number   *)
(* Interix knows: the constructor enters it in the map, and so does        *)
(* create_new_fdo again before Get returns.                                *)
(***************************************************************************)
Get(op, k, m) ==
  /\ k \in Nameable
  /\ IsOpen(k) \/ fds[k] # NULL
  /\ Enter([op |-> op, at |-> IF fds[k] # NULL THEN "op" ELSE "new",
            n |-> k, m |-> m, what |-> File, ref |-> fds[k]])
  /\ UNCHANGED <<phase, kern, given, overlaid>>

NewFdo ==
  /\ level > 0 /\ call.at = "new"
  /\ Construct(call.n, "set")
  /\ UNCHANGED <<phase, kern, given, overlaid, interrupted>>

SetFdo ==
  /\ level > 0 /\ call.at = "set"
  /\ Proceed([fds EXCEPT ![call.n] = call.ref], obj, [call EXCEPT !.at = "op"])
  /\ UNCHANGED <<phase, kern, given, overlaid, interrupted>>

(* Calls that use the object and change no table: read, getdents, fchdir,  *)
(* the node of an *at call, ...                                            *)
Use == /\ At("use", "op")
       /\ Return(fds, obj)
       /\ UNCHANGED <<phase, kern, given, overlaid, interrupted>>

(***************************************************************************)
(* close: first Interix's descriptor, then the entry of the map.  Which    *)
(* number that is the object tells, at each of the two steps.              *)
(***************************************************************************)
CloseKernel ==
  /\ At("close", "op")
  /\ IsOpen(fdOf)
  /\ kern' = [kern EXCEPT ![fdOf] = Closed]
  /\ given' = [given EXCEPT ![fdOf] = "no"]
  /\ overlaid' = overlaid \ {fdOf}
  /\ Proceed(fds, obj, [call EXCEPT !.at = "unset"])
  /\ UNCHANGED <<phase, interrupted>>

CloseRefused ==
  /\ At("close", "op")
  /\ ~IsOpen(fdOf)
  /\ Return(fds, obj)
  /\ UNCHANGED <<phase, kern, given, overlaid, interrupted>>

(* Fault variants of FD::Unset: it leaves the entry, or a null reference.  *)
UnsetTableKept == fds
UnsetTableNull == [k \in Fd |-> IF k = fdOf THEN 0 ELSE fds[k]]

UnsetTable == [k \in Fd |-> IF k = fdOf THEN NULL ELSE fds[k]]
CloseUnset ==
  /\ At("close", "unset")
  /\ Return(UnsetTable, [obj EXCEPT ![call.ref].fd = -1])
  /\ UNCHANGED <<phase, kern, given, overlaid, interrupted>>

(***************************************************************************)
(* dup, F_DUPFD and dup2: all of Interix, none of the map.  A dup2 to -1   *)
(* is a dup.                                                               *)
(***************************************************************************)
Duplicate(k, m) ==
  /\ kern' = [kern EXCEPT ![m] = kern[k]]
  /\ given' = [given EXCEPT ![m] = "yes"]
  /\ overlaid' = IF IsOpen(m) THEN overlaid \cup {m} ELSE overlaid

Dup ==
  /\ At("dup", "op")
  /\ LET target == (IF call.m = -1 THEN Lowest(Unused) ELSE {call.m}) \ {fdOf}
     IN IF IsOpen(fdOf) /\ target # {}
        THEN \E m \in target : Duplicate(fdOf, m)
        ELSE UNCHANGED <<kern, given, overlaid>>
  /\ Return(fds, obj)
  /\ UNCHANGED <<phase, interrupted>>

(***************************************************************************)
(* Calls that open something (open, openat, socket): Interix's open, or a  *)
(* socket that stands for a fake directory; the constructor of the FD      *)
(* object, which enters it in the map; and the return to the program.      *)
(* Directories get a node.                                                 *)
(***************************************************************************)
OpenKernel(what) ==
  /\ \E k \in Lowest(Unused) :
       /\ kern' = [kern EXCEPT ![k] = what]
       /\ Enter([op |-> "open", at |-> "ctor", n |-> k, m |-> k, what |-> what, ref |-> NULL])
  /\ UNCHANGED <<phase, given, overlaid>>

OpenConstruct ==
  /\ At("open", "ctor")
  /\ Construct(call.n, "op")
  /\ UNCHANGED <<phase, kern, given, overlaid, interrupted>>

OpenReturn ==
  /\ At("open", "op")
  /\ given' = [given EXCEPT ![call.n] = IF call.what \in Dir THEN "opendir" ELSE "yes"]
  /\ Return(fds, obj)
  /\ UNCHANGED <<phase, kern, overlaid, interrupted>>

(***************************************************************************)
(* pipe: two numbers from Interix, then an object for each.                *)
(***************************************************************************)
PipeKernel ==
  /\ \E k \in Lowest(Unused) : \E l \in Lowest(Unused \ {k}) :
       /\ kern' = [kern EXCEPT ![k] = File, ![l] = File]
       /\ Enter([op |-> "pipe", at |-> "ctor", n |-> k, m |-> l, what |-> File, ref |-> NULL])
  /\ UNCHANGED <<phase, given, overlaid>>

PipeFirst ==
  /\ At("pipe", "ctor")
  /\ Construct(call.n, "second")
  /\ UNCHANGED <<phase, kern, given, overlaid, interrupted>>

PipeSecond ==
  /\ At("pipe", "second")
  /\ Construct(call.m, "op")
  /\ UNCHANGED <<phase, kern, given, overlaid, interrupted>>

PipeReturn ==
  /\ At("pipe", "op")
  /\ given' = [given EXCEPT ![call.n] = "yes", ![call.m] = "yes"]
  /\ Return(fds, obj)
  /\ UNCHANGED <<phase, kern, overlaid, interrupted>>

(***************************************************************************)
(* execve.  The file is opened to see what it is, and nobody closes it.  A *)
(* script is opened once more to read its first line, and its interpreter  *)
(* is executed the same way, so an exec that succeeds has opened an odd    *)
(* number of files.  Handlers that run during execve are not modelled.     *)
(***************************************************************************)
Lowermost(N) == N \subseteq Unused /\ \A k \in N, l \in Unused \ N : k < l

CanExec == phase = "running" /\ level < MaxDepth

ExecUnknown ==
  /\ CanExec
  /\ \E k \in Lowest(Unused) :
       /\ kern' = [kern EXCEPT ![k] = File]
       /\ \E o \in FreshObject(k) :
            Settle([fds EXCEPT ![k] = o], [obj EXCEPT ![o] = [fd |-> k, node |-> NULL]], frame)
  /\ interrupted' = (interrupted \/ level > 0)
  /\ UNCHANGED <<phase, level, given, overlaid>>

(* A process whose tables are those of a process that just started.        *)
Process(p, kernel, numbers) ==
  /\ phase' = p
  /\ kern' = kernel
  /\ given' = numbers
  /\ fds' = [k \in Fd |-> NULL]
  /\ obj' = [o \in Object |-> Deleted]
  /\ frame' = [i \in Level |-> NoFrame]
  /\ level' = 0
  /\ overlaid' = {}
  /\ interrupted' = FALSE

Exit == Process("dead", [k \in Fd |-> Closed], [k \in Fd |-> "no"])

(* Once the type of the file is known a failure is fatal.                  *)
ExecFails == CanExec /\ Exit

(* The new process inherits the numbers in S, those without the            *)
(* close-on-exec flag, and the numbers N that execve opened.               *)
ExecElf(S, N) ==
  /\ CanExec
  /\ Lowermost(N) /\ Cardinality(N) % 2 = 1
  /\ Process("loading",
             [k \in Fd |-> IF k \in S THEN kern[k] ELSE IF k \in N THEN File ELSE Closed],
             [k \in Fd |-> IF k \in S /\ given[k] # "no" THEN "yes" ELSE "no"])

(***************************************************************************)
(* ElfLoader::Open and Load, for the executable and perhaps its            *)
(* interpreter: open, mark close-on-exec, and drop the reference at the    *)
(* end.  The program's handlers do not exist yet.                          *)
(***************************************************************************)
Load(N) ==
  /\ phase = "loading"
  /\ N # {} /\ Lowermost(N)
  /\ phase' = "running"
  /\ kern' = [k \in Fd |-> IF k \in N THEN File ELSE kern[k]]
  /\ fds' = [k \in Fd |-> IF k \in N THEN k + 1 ELSE NULL]
  /\ obj' = [o \in Object |-> IF o - 1 \in N THEN [fd |-> o - 1, node |-> NULL] ELSE Deleted]
  /\ UNCHANGED <<frame, level, given, overlaid, interrupted>>

LoadFails ==
  /\ phase = "loading"
  /\ Exit

(* The first LBW process inherits what its parent left open: files, and    *)
(* directories no object knows.                                            *)
Init ==
  /\ phase = "loading"
  /\ kern \in [Fd -> {File, Closed} \cup Dir]
  /\ given = [k \in Fd |-> IF kern[k] = Closed THEN "no" ELSE "yes"]
  /\ fds = [k \in Fd |-> NULL]
  /\ obj = [o \in Object |-> Deleted]
  /\ frame = [i \in Level |-> NoFrame]
  /\ level = 0
  /\ overlaid = {}
  /\ interrupted = FALSE

Next ==
  \/ \E N \in SUBSET Unused : Load(N)
  \/ LoadFails
  \/ \E k \in Fd : \E op \in {"use", "close"} : Get(op, k, 0)
  \/ \E k \in Fd : \E m \in (Fd \cup {-1}) \ InFlight : Get("dup", k, m)
  \/ NewFdo \/ SetFdo
  \/ Use
  \/ CloseKernel \/ CloseRefused \/ CloseUnset
  \/ Dup
  \/ \E what \in Kind : OpenKernel(what)
  \/ OpenConstruct
  \/ OpenReturn
  \/ PipeKernel \/ PipeFirst \/ PipeSecond \/ PipeReturn
  \/ ExecUnknown \/ ExecFails
  \/ \E S \in SUBSET (Fd \ Unused), N \in SUBSET Unused : ExecElf(S, N)

Spec == Init /\ [][Next]_vars

(***************************************************************************)
(* Properties.                                                             *)
(***************************************************************************)
Quiet == phase = "running" /\ level = 0

(* A directory call never works on a directory that is not the one its     *)
(* number stands for, whatever handlers did inside close, open and Get:    *)
(* between calls, the node in the map is what Interix's descriptor is open *)
(* on.  The exception are numbers a dup2 replaced while they were open.    *)
NodeNeverWrong ==
  Quiet =>
    \A k \in Fd \ overlaid :
      fds[k] # NULL /\ obj[fds[k]].node # NULL =>
        IsOpen(k) /\ kern[k] = obj[fds[k]].node

(* Without handlers inside calls the map is exact: an object belongs to an *)
(* open descriptor and names it, and the descriptor of a directory the     *)
(* program opened has its node, so that the directory can be listed.       *)
MapExact ==
  Quiet /\ ~interrupted =>
    \A k \in Fd \ overlaid :
      /\ fds[k] # NULL => IsOpen(k) /\ obj[fds[k]].fd = k
      /\ given[k] = "opendir" =>
           fds[k] # NULL /\ obj[fds[k]].node = kern[k]
=============================================================================
