------------------------------- MODULE Listing -------------------------------
(***************************************************************************)
(* getdents and getdents64: how FD.cc lists directories.  The first call   *)
(* on an FD object copies the names of the directory into it; every call   *)
(* hands out names from there and looks each of them up again, relative to *)
(* Interix's working directory, which it first moves to the directory.     *)
(*                                                                         *)
(* Meanwhile other processes create and remove names, the program's        *)
(* handlers run in the middle of a call and list, open or move elsewhere   *)
(* themselves, and Interix may refuse a chdir.  The calls in progress are  *)
(* a stack, the innermost handler's last.  "." and ".." are names that     *)
(* always exist.  The directories are Interix's: the VFS's own keep their  *)
(* few names in memory and need no working directory.                      *)
(***************************************************************************)
EXTENDS Naturals, Sequences, FiniteSets

CONSTANTS
  Dir,         \* directories
  Fixed,       \* those in which nothing changes
  Name,        \* the names that come and go in the others
  Size,        \* Size[n]: how much of the program's buffer n's entry takes
  Rooms,       \* the sizes of the buffers the program gives
  Descriptor,  \* the program's descriptors
  Closed,      \* a descriptor that is not open
  MaxDepth     \* bound: calls in progress at once

ASSUME ListingAssumption ==
  /\ Fixed \subseteq Dir
  /\ IsFiniteSet(Name)
  /\ Size \in [Name -> Nat \ {0}]
  /\ Rooms \subseteq Nat
  /\ Closed \notin Dir
  /\ MaxDepth \in Nat \ {0}

VARIABLES
  present,   \* present[d]: the names in directory d
  cwd,       \* Interix's working directory
  node,      \* node[f]: the directory descriptor f stands for
  dirdata,   \* dirdata[f]: does f's object have its copy?
  contents,  \* contents[f]: the copy
  pos,       \* pos[f]: how many of its names were handed out or skipped
  calls,     \* the calls in progress
  crashed,   \* has the emulator followed a pointer that leads nowhere?
  told,      \* history: the names the program got from f
  twice,     \* history: did it get one of them twice?
  stayed,    \* history: the names that were there ever since f was opened
  known,     \* history: the names that were there at any time since
  ended,     \* history: was the program told that there are no more?
  excused    \* history: did something happen to f that the code cannot bear?

copy == <<node, dirdata, contents, pos>>
history == <<told, twice, stayed, known, ended, excused>>
vars == <<present, cwd, copy, calls, crashed, history>>

Frame ==
  [fd : Descriptor, at : {"get", "enumerate", "opendir", "loop", "stat"},
   room : Nat, wrote : BOOLEAN, name : Name \cup {Closed}]

TypeOK ==
  /\ present \in [Dir -> SUBSET Name]
  /\ cwd \in Dir
  /\ node \in [Descriptor -> Dir \cup {Closed}]
  /\ dirdata \in [Descriptor -> BOOLEAN]
  /\ contents \in [Descriptor -> Seq(Name)]
  /\ pos \in [Descriptor -> Nat]
  /\ calls \in Seq(Frame) /\ Len(calls) <= MaxDepth
  /\ crashed \in BOOLEAN
  /\ told \in [Descriptor -> SUBSET Name]
  /\ twice \in [Descriptor -> BOOLEAN]
  /\ stayed \in [Descriptor -> SUBSET Name]
  /\ known \in [Descriptor -> SUBSET Name]
  /\ ended \in [Descriptor -> BOOLEAN]
  /\ excused \in [Descriptor -> BOOLEAN]

-----------------------------------------------------------------------------
depth == Len(calls)
call == calls[depth]
fd == call.fd

At(step) == depth > 0 /\ ~crashed /\ call.at = step

\* A call of the program, or of a handler in the middle of others.
MayCall == depth < MaxDepth /\ ~crashed

\* The call on top goes on, with its frame changed or only at another step, or
\* is over.
GoOn(c) == calls' = [calls EXCEPT ![depth] = c]
GoTo(step) == GoOn([call EXCEPT !.at = step])
Over == calls' = SubSeq(calls, 1, depth - 1)

\* The descriptors whose calls, among the outermost n, are about to use the
\* working directory they have moved to.
Relying(n) ==
  {calls[i].fd : i \in {j \in 1 .. n : calls[j].at \in {"opendir", "stat"}}}

\* Interix's working directory moves; the calls below the n-th are not told.
Chdir(d, n) ==
  /\ cwd' = d
  /\ excused' = [f \in Descriptor |->
                   excused[f] \/ (d # cwd /\ f \in Relying(n))]

\* Fault variant: the working directory is taken to be there already.
ArriveNot(d, n) == UNCHANGED <<cwd, excused>>

\* InterixVFSNode::setup.
Arrive(d, n) == Chdir(d, n)

Excuse(f) == excused' = [excused EXCEPT ![f] = TRUE]

-----------------------------------------------------------------------------
(* Other calls, and other processes.                                       *)

OpenDirectory(f, d) ==
  /\ MayCall
  /\ node[f] = Closed
  /\ node' = [node EXCEPT ![f] = d]
  /\ told' = [told EXCEPT ![f] = {}]
  /\ twice' = [twice EXCEPT ![f] = FALSE]
  /\ stayed' = [stayed EXCEPT ![f] = present[d]]
  /\ known' = [known EXCEPT ![f] = present[d]]
  /\ ended' = [ended EXCEPT ![f] = FALSE]
  /\ excused' = [excused EXCEPT ![f] = FALSE]
  /\ UNCHANGED <<present, cwd, dirdata, contents, pos, calls, crashed>>

\* The object goes, and its copy with it.
Dropped(f) ==
  /\ dirdata' = [dirdata EXCEPT ![f] = FALSE]
  /\ contents' = [contents EXCEPT ![f] = << >>]
  /\ pos' = [pos EXCEPT ![f] = 0]

\* A handler that closes what the calls below it read is FdTable's matter.
Close(f) ==
  /\ MayCall
  /\ node[f] # Closed
  /\ \A i \in 1 .. depth : calls[i].fd # f
  /\ node' = [node EXCEPT ![f] = Closed]
  /\ Dropped(f)
  /\ UNCHANGED <<present, cwd, calls, crashed, history>>

\* chdir, and whatever else resolves a path.
PathCall(d) ==
  /\ MayCall
  /\ Chdir(d, depth)
  /\ UNCHANGED <<present, copy, calls, crashed, told, twice, stayed, known, ended>>

Create(d, n) ==
  /\ n \notin present[d]
  /\ present' = [present EXCEPT ![d] = @ \cup {n}]
  /\ known' = [f \in Descriptor |->
                 IF node[f] = d THEN known[f] \cup {n} ELSE known[f]]
  /\ UNCHANGED <<cwd, copy, calls, crashed, told, twice, stayed, ended, excused>>

Remove(d, n) ==
  /\ n \in present[d]
  /\ present' = [present EXCEPT ![d] = @ \ {n}]
  /\ stayed' = [f \in Descriptor |->
                  IF node[f] = d THEN stayed[f] \ {n} ELSE stayed[f]]
  /\ UNCHANGED <<cwd, copy, calls, crashed, told, twice, known, ended, excused>>

-----------------------------------------------------------------------------
(* FD::GetDents, FD::GetDents64                                            *)

\* The lock is recursive: a call in progress on the same object does not keep a
\* handler out.
Begin(f, room) ==
  /\ MayCall
  /\ node[f] # Closed
  /\ calls' = Append(calls, [fd |-> f, at |-> "get", room |-> room,
                             wrote |-> FALSE, name |-> Closed])
  /\ excused' = [excused EXCEPT
                   ![f] = @ \/ \E i \in 1 .. depth : calls[i].fd = f]
  /\ UNCHANGED <<present, cwd, copy, crashed, told, twice, stayed, known, ended>>

\* get_dirdata: an empty copy is there before the directory is read.
GetDirData ==
  /\ At("get")
  /\ dirdata' = [dirdata EXCEPT ![fd] = TRUE]
  /\ GoTo(IF dirdata[fd] THEN "loop" ELSE "enumerate")
  /\ UNCHANGED <<present, cwd, node, contents, pos, crashed, history>>

Enumerate ==
  /\ At("enumerate")
  /\ Arrive(node[fd], depth - 1)
  /\ GoTo("opendir")
  /\ UNCHANGED <<present, copy, crashed, told, twice, stayed, known, ended>>

\* The error goes to the program, and the empty copy stays.
EnumerateFails ==
  /\ At("enumerate")
  /\ Over
  /\ Excuse(fd)
  /\ UNCHANGED <<present, cwd, copy, crashed, told, twice, stayed, known, ended>>

\* In which order Interix lists a directory is its own affair.
Orders(S) ==
  LET Index == 1 .. Cardinality(S)
  IN {s \in [Index -> S] :
        /\ \A n \in S : \E i \in Index : s[i] = n
        /\ \A i, j \in Index : s[i] = s[j] => i = j}

ReadDir ==
  /\ At("opendir")
  /\ \E s \in Orders(present[cwd]) :
       contents' = [contents EXCEPT ![fd] = s]
  /\ GoTo("loop")
  /\ UNCHANGED <<present, cwd, node, dirdata, pos, crashed, history>>

\* opendir's result is not looked at: readdir gets a null pointer when Interix
\* has no descriptor left for it, or the directory may not be read.
OpenDirFails ==
  /\ At("opendir")
  /\ crashed' = TRUE
  /\ Excuse(fd)
  /\ UNCHANGED <<present, cwd, copy, calls, told, twice, stayed, known, ended>>

\* An answer without a name tells the program that there are no more.
Answer(cramped) ==
  /\ Over
  /\ ended' = [ended EXCEPT ![fd] = @ \/ ~call.wrote]
  /\ excused' = [excused EXCEPT ![fd] = @ \/ (cramped /\ ~call.wrote)]

NothingLeft ==
  /\ At("loop")
  /\ pos[fd] = Len(contents[fd])
  /\ Answer(FALSE)
  /\ UNCHANGED <<present, cwd, copy, crashed, told, twice, stayed, known>>

\* StatFile: first its setup, then the lstat.
Setup ==
  /\ At("loop")
  /\ pos[fd] < Len(contents[fd])
  /\ Arrive(node[fd], depth - 1)
  /\ GoOn([call EXCEPT !.at = "stat", !.name = contents[fd][pos[fd] + 1]])
  /\ UNCHANGED <<present, copy, crashed, told, twice, stayed, known, ended>>

\* Whatever the string beyond the end is taken for.
Overrun ==
  /\ At("loop")
  /\ pos[fd] > Len(contents[fd])
  /\ crashed' = TRUE
  /\ UNCHANGED <<present, cwd, copy, calls, history>>

\* Fault variants: the name is passed over backwards, not at all, or in twos.
AdvancedBack == [pos EXCEPT ![fd] = @ - 1]
AdvancedNot == pos
AdvancedTwice == [pos EXCEPT ![fd] = @ + 2]

Advanced == [pos EXCEPT ![fd] = @ + 1]

SetupFails ==
  /\ At("loop")
  /\ pos[fd] < Len(contents[fd])
  /\ pos' = Advanced
  /\ Excuse(fd)
  /\ UNCHANGED <<present, cwd, node, dirdata, contents, calls, crashed,
                 told, twice, stayed, known, ended>>

Fits == Size[call.name] <= call.room

Report ==
  /\ At("stat")
  /\ call.name \in present[cwd]
  /\ Fits
  /\ told' = [told EXCEPT ![fd] = @ \cup {call.name}]
  /\ twice' = [twice EXCEPT ![fd] = @ \/ call.name \in told[fd]]
  /\ pos' = Advanced
  /\ GoOn([call EXCEPT !.at = "loop", !.wrote = TRUE,
                        !.room = @ - Size[call.name]])
  /\ UNCHANGED <<present, cwd, node, dirdata, contents, crashed,
                 stayed, known, ended, excused>>

BufferFull ==
  /\ At("stat")
  /\ call.name \in present[cwd]
  /\ ~Fits
  /\ Answer(TRUE)
  /\ UNCHANGED <<present, cwd, copy, crashed, told, twice, stayed, known>>

\* A name that has gone is passed over.
Skip ==
  /\ At("stat")
  /\ call.name \notin present[cwd]
  /\ pos' = Advanced
  /\ GoTo("loop")
  /\ UNCHANGED <<present, cwd, node, dirdata, contents, crashed, history>>

-----------------------------------------------------------------------------
Init ==
  /\ present \in [Dir -> SUBSET Name]
  /\ cwd \in Dir
  /\ node = [f \in Descriptor |-> Closed]
  /\ dirdata = [f \in Descriptor |-> FALSE]
  /\ contents = [f \in Descriptor |-> << >>]
  /\ pos = [f \in Descriptor |-> 0]
  /\ calls = << >>
  /\ crashed = FALSE
  /\ told = [f \in Descriptor |-> {}]
  /\ twice = [f \in Descriptor |-> FALSE]
  /\ stayed = [f \in Descriptor |-> {}]
  /\ known = [f \in Descriptor |-> {}]
  /\ ended = [f \in Descriptor |-> FALSE]
  /\ excused = [f \in Descriptor |-> FALSE]

Others ==
  \/ \E d \in Dir : PathCall(d)
  \/ \E f \in Descriptor, d \in Dir : OpenDirectory(f, d)
  \/ \E f \in Descriptor : Close(f)
  \/ \E d \in Dir \ Fixed, n \in Name : Create(d, n) \/ Remove(d, n)

\* What the call on top does next.
Step ==
  \/ GetDirData
  \/ Enumerate \/ EnumerateFails \/ OpenDirFails \/ ReadDir
  \/ NothingLeft
  \/ Setup \/ SetupFails \/ Overrun
  \/ Report \/ BufferFull \/ Skip

Next ==
  \/ Others
  \/ \E f \in Descriptor, room \in Rooms : Begin(f, room)
  \/ Step

\* Handlers return, and whenever they have, the call they interrupted goes on:
\* it cannot be interrupted for ever before it takes its next step.
Fairness == \A k \in 1 .. MaxDepth : SF_vars(depth = k /\ Step)

Spec == Init /\ [][Next]_vars
FairSpec == Spec /\ Fairness

-----------------------------------------------------------------------------
\* A reader of a directory gets no name twice and none that was never there, and
\* when it is told that there are no more it has got every name that was there
\* all the time, whatever was created and removed and whatever else was listed,
\* opened and resolved in between (FD.cc:179, 212, 262).  Excused are: a handler
\* that reads the same descriptor in the middle of a call, or moves the working
\* directory between a call's chdir and its use; a chdir or an opendir that
\* Interix refuses; and a buffer without room for the next name.
ListsExactly ==
  \A f \in Descriptor : node[f] # Closed /\ ~excused[f] =>
    /\ ~twice[f]
    /\ told[f] \subseteq known[f]
    /\ ended[f] => stayed[f] \subseteq told[f]

\* Nothing is read from beyond the end of a copy, or from a directory that was
\* not opened, as long as no handler reads the descriptor of the call it
\* interrupts and Interix opens the directory (FD.cc:224, InterixVFSNode.cc:122).
PositionInRange ==
  /\ crashed => \E f \in Descriptor : excused[f]
  /\ \A f \in Descriptor : ~excused[f] => pos[f] <= Len(contents[f])

\* Every call returns, whatever is created while it lists.
CallsReturn ==
  \A k \in 1 .. MaxDepth : depth >= k ~> depth < k \/ crashed

Returned(f) == depth > 0 /\ fd = f /\ Len(calls') < depth

\* A program that calls getdents again and again on a descriptor is told in the
\* end that there are no more names, though other processes may create some for
\* ever: the copy is finite.
ListingEnds ==
  \A f \in Descriptor :
    []<><<Returned(f)>>_vars => (node[f] # Closed ~> ended[f] \/ node[f] = Closed)
=============================================================================
