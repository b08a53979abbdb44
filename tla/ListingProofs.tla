---------------------------- MODULE ListingProofs ----------------------------
(***************************************************************************)
(* That a reader of a directory gets exactly what it should, for any       *)
(* number of directories, names, descriptors and nested calls: the         *)
(* invariant relates what an object's copy still holds to what the program *)
(* was told, and each call in progress to the object it reads.             *)
(***************************************************************************)
EXTENDS Listing, FiniteSetTheorems, SequenceTheorems, TLAPS

(***************************************************************************)
(* The inductive invariant.                                                *)
(***************************************************************************)
Reads(f) == \E i \in 1 .. depth : calls[i].fd = f
Started(f) == \E i \in 1 .. depth : calls[i].fd = f /\ calls[i].at # "get"
Copying(f) ==
  \E i \in 1 .. depth : calls[i].fd = f /\ calls[i].at \in {"enumerate", "opendir"}

\* The names of a copy that are still to come, and those that were passed.
Left(f) == {contents[f][i] : i \in pos[f] + 1 .. Len(contents[f])}
Passed(f) == {contents[f][i] : i \in 1 .. pos[f]}

\* A descriptor without a copy, and one that is closed.
NoCopy ==
  \A f \in Descriptor :
    /\ ~dirdata[f] => contents[f] = << >> /\ pos[f] = 0 /\ ~Started(f)
    /\ node[f] = Closed => ~dirdata[f] /\ ~Reads(f)

\* Only a handler makes two calls read one descriptor.
OneReader ==
  \A i, j \in 1 .. depth :
    calls[i].fd = calls[j].fd /\ ~excused[calls[i].fd] => i = j

\* A call in progress and the object it reads.
CallOK(c) ==
  ~excused[c.fd] =>
    /\ c.at \in {"enumerate", "opendir"} =>
         /\ dirdata[c.fd] /\ contents[c.fd] = << >> /\ pos[c.fd] = 0
         /\ told[c.fd] = {} /\ ~ended[c.fd]
    /\ c.at \in {"loop", "stat"} => dirdata[c.fd]
    /\ c.at \in {"opendir", "stat"} => cwd = node[c.fd]
    /\ c.at = "stat" => /\ pos[c.fd] < Len(contents[c.fd])
                        /\ c.name = contents[c.fd][pos[c.fd] + 1]

CallsOK == \A i \in 1 .. depth : CallOK(calls[i])

\* An open descriptor, its copy, and what the program was told.
ReaderOK(f) ==
  node[f] # Closed /\ ~excused[f] =>
    /\ pos[f] <= Len(contents[f])
    /\ \A i, j \in 1 .. Len(contents[f]) : contents[f][i] = contents[f][j] => i = j
    /\ \A i \in 1 .. Len(contents[f]) : contents[f][i] \in known[f]
    /\ told[f] \subseteq Passed(f)
    /\ stayed[f] \subseteq present[node[f]]
    /\ present[node[f]] \subseteq known[f]
    /\ ~twice[f]
    /\ ended[f] => stayed[f] \subseteq told[f]
    /\ ~dirdata[f] => told[f] = {} /\ ~ended[f]
    /\ dirdata[f] /\ ~Copying(f) => stayed[f] \subseteq told[f] \cup Left(f)

ReadersOK == \A f \in Descriptor : ReaderOK(f)

CrashExcused == crashed => \E f \in Descriptor : excused[f]

IInv == TypeOK /\ NoCopy /\ OneReader /\ CallsOK /\ ReadersOK /\ CrashExcused

-----------------------------------------------------------------------------
(* The stack of calls                                                      *)

LEMMA GoOnCalls ==
  ASSUME TypeOK, depth > 0, NEW c \in Frame, GoOn(c)
  PROVE  /\ calls' \in Seq(Frame) /\ Len(calls') = depth
         /\ \A i \in 1 .. depth - 1 : calls'[i] = calls[i]
         /\ calls'[depth] = c
BY DEF TypeOK, GoOn, depth

LEMMA OverCalls ==
  ASSUME TypeOK, depth > 0, Over
  PROVE  /\ calls' \in Seq(Frame) /\ Len(calls') = depth - 1
         /\ \A i \in 1 .. depth - 1 : calls'[i] = calls[i]
<1>1. calls \in Seq(Frame) /\ depth \in Nat
  BY DEF TypeOK, depth
<1> DEFINE n == depth - 1
<1>2. n \in 0 .. Len(calls) /\ calls' = SubSeq(calls, 1, n)
  BY <1>1 DEF Over, depth
<1>3. calls[depth] \in Frame
  BY <1>1, ElementOfSeq DEF depth
<1>4. \A i \in 1 .. n : calls[i] \in Frame
  BY <1>1, <1>2, ElementOfSeq
<1> HIDE DEF n
<1>5. /\ SubSeq(calls, 1, n) \in Seq(Frame)
      /\ Len(SubSeq(calls, 1, n)) = IF 1 <= n THEN n - 1 + 1 ELSE 0
      /\ \A i \in 1 .. n - 1 + 1 : SubSeq(calls, 1, n)[i] = calls[1 + i - 1]
  BY <1>1, <1>2, <1>4, SubSeqProperties
<1>6. Len(SubSeq(calls, 1, n)) = n /\ \A i \in 1 .. n : SubSeq(calls, 1, n)[i] = calls[i]
  BY <1>2, <1>5
<1> QED
  BY <1>2, <1>5, <1>6 DEF n

LEMMA Top ==
  ASSUME TypeOK, depth > 0
  PROVE  depth \in 1 .. depth /\ call \in Frame /\ fd \in Descriptor
<1>1. calls \in Seq(Frame) /\ depth \in Nat
  BY DEF TypeOK, depth
<1>2. depth \in 1 .. depth
  BY <1>1
<1>3. call \in Frame
  BY <1>1, <1>2, ElementOfSeq DEF call, depth
<1> QED
  BY <1>2, <1>3 DEF fd, Frame

LEMMA FramesTyped ==
  ASSUME TypeOK
  PROVE  \A i \in 1 .. depth : calls[i].fd \in Descriptor
<1> SUFFICES ASSUME NEW i \in 1 .. depth PROVE calls[i].fd \in Descriptor
  OBVIOUS
<1>1. calls \in Seq(Frame) /\ i \in 1 .. Len(calls)
  BY DEF TypeOK, depth
<1>2. calls[i] \in Frame
  BY <1>1, ElementOfSeq
<1> QED
  BY <1>2 DEF Frame

LEMMA ChdirTypes ==
  ASSUME TypeOK, NEW d \in Dir, NEW n, Chdir(d, n)
  PROVE  cwd' \in Dir /\ excused' \in [Descriptor -> BOOLEAN]
BY DEF TypeOK, Chdir

-----------------------------------------------------------------------------
(* Type correctness                                                        *)

LEMMA InitTypes == Init => TypeOK
<1> SUFFICES ASSUME Init PROVE TypeOK
  OBVIOUS
<1>1. calls \in Seq(Frame) /\ Len(calls) <= MaxDepth
  BY ListingAssumption DEF Init
<1>2. << >> \in Seq(Name)
  OBVIOUS
<1>3. contents \in [Descriptor -> Seq(Name)]
  BY <1>2 DEF Init
<1>4. /\ node \in [Descriptor -> Dir \cup {Closed}]
      /\ dirdata \in [Descriptor -> BOOLEAN]
      /\ pos \in [Descriptor -> Nat]
      /\ told \in [Descriptor -> SUBSET Name]
      /\ twice \in [Descriptor -> BOOLEAN]
      /\ stayed \in [Descriptor -> SUBSET Name]
      /\ known \in [Descriptor -> SUBSET Name]
      /\ ended \in [Descriptor -> BOOLEAN]
      /\ excused \in [Descriptor -> BOOLEAN]
  BY DEF Init
<1> QED
  BY <1>1, <1>3, <1>4 DEF Init, TypeOK

LEMMA OthersTypes ==
  ASSUME TypeOK, Others
  PROVE  TypeOK'
<1> USE DEF TypeOK
<1>1. ASSUME NEW d \in Dir, PathCall(d) PROVE TypeOK'
  BY <1>1, ChdirTypes DEF PathCall, copy
<1>2. ASSUME NEW f \in Descriptor, NEW d \in Dir, OpenDirectory(f, d) PROVE TypeOK'
  BY <1>2 DEF OpenDirectory
<1>3. ASSUME NEW f \in Descriptor, Close(f) PROVE TypeOK'
  <2>1. << >> \in Seq(Name)
    OBVIOUS
  <2> QED
    BY <1>3, <2>1 DEF Close, Dropped, history
<1>4. ASSUME NEW d \in Dir, NEW n \in Name, Create(d, n) PROVE TypeOK'
  BY <1>4 DEF Create, copy
<1>5. ASSUME NEW d \in Dir, NEW n \in Name, Remove(d, n) PROVE TypeOK'
  BY <1>5 DEF Remove, copy
<1> QED
  BY <1>1, <1>2, <1>3, <1>4, <1>5 DEF Others

LEMMA BeginTypes ==
  ASSUME TypeOK, NEW f \in Descriptor, NEW room \in Rooms, Begin(f, room)
  PROVE  TypeOK'
<1> DEFINE c == [fd |-> f, at |-> "get", room |-> room, wrote |-> FALSE, name |-> Closed]
<1>1. c \in Frame
  BY ListingAssumption DEF Frame
<1>2. calls \in Seq(Frame) /\ calls' = Append(calls, c) /\ Len(calls) < MaxDepth
  BY DEF TypeOK, Begin, MayCall, depth
<1> HIDE DEF c
<1>3. calls' \in Seq(Frame) /\ Len(calls') = Len(calls) + 1
  BY <1>1, <1>2, AppendProperties
<1>4. Len(calls') <= MaxDepth
  BY <1>2, <1>3, ListingAssumption
<1>5. excused' \in [Descriptor -> BOOLEAN]
  BY DEF TypeOK, Begin
<1> QED
  BY <1>3, <1>4, <1>5 DEF TypeOK, Begin, copy

LEMMA Ordered ==
  ASSUME NEW S, S \subseteq Name, NEW s \in Orders(S)
  PROVE  /\ s \in Seq(Name)
         /\ \A n \in S : \E i \in 1 .. Len(s) : s[i] = n
         /\ \A i \in 1 .. Len(s) : s[i] \in S
         /\ \A i, j \in 1 .. Len(s) : s[i] = s[j] => i = j
<1>1. IsFiniteSet(S)
  BY ListingAssumption, FS_Subset
<1>2. Cardinality(S) \in Nat
  BY <1>1, FS_CardinalityType
<1>3. s \in Seq(S) /\ Len(s) = Cardinality(S)
  BY <1>2 DEF Orders
<1>4. s \in Seq(Name)
  BY <1>3
<1> QED
  BY <1>2, <1>3, <1>4 DEF Orders

LEMMA StepTypes ==
  ASSUME TypeOK, NoCopy, Step
  PROVE  TypeOK'
<1> SUFFICES ASSUME depth > 0 PROVE TypeOK'
  BY DEF Step, GetDirData, Enumerate, EnumerateFails, OpenDirFails, ReadDir, NothingLeft, Setup,
         SetupFails, Overrun, Report, BufferFull, Skip, At
<1>0. call \in Frame /\ fd \in Descriptor /\ depth \in 1 .. depth /\ depth <= MaxDepth
  BY Top DEF TypeOK, depth
<1>1. ASSUME NEW c \in Frame, GoOn(c)
      PROVE  calls' \in Seq(Frame) /\ Len(calls') <= MaxDepth
  BY <1>0, <1>1, GoOnCalls
<1>2. ASSUME NEW step \in {"enumerate", "opendir", "loop"}, GoTo(step)
      PROVE  calls' \in Seq(Frame) /\ Len(calls') <= MaxDepth
  <2>1. [call EXCEPT !.at = step] \in Frame
    BY <1>0 DEF Frame
  <2> QED
    BY <1>1, <1>2, <2>1 DEF GoTo
<1>3. ASSUME Over
      PROVE  calls' \in Seq(Frame) /\ Len(calls') <= MaxDepth
  BY <1>0, <1>3, OverCalls, ListingAssumption
<1>4. node[fd] \in Dir
  BY <1>0 DEF TypeOK, NoCopy, Reads, fd, call
<1>5. Advanced \in [Descriptor -> Nat]
  BY <1>0 DEF TypeOK, Advanced
<1>6. Excuse(fd) => excused' \in [Descriptor -> BOOLEAN]
  BY <1>0 DEF TypeOK, Excuse
<1>7. ASSUME NEW b, Answer(b)
      PROVE  /\ calls' \in Seq(Frame) /\ Len(calls') <= MaxDepth
             /\ ended' \in [Descriptor -> BOOLEAN]
             /\ excused' \in [Descriptor -> BOOLEAN]
  BY <1>0, <1>3, <1>7 DEF TypeOK, Answer
<1>8. CASE GetDirData
  BY <1>0, <1>2, <1>8 DEF TypeOK, GetDirData, history
<1>9. CASE Enumerate
  BY <1>0, <1>2, <1>4, <1>9, ChdirTypes DEF TypeOK, Enumerate, Arrive, copy
<1>10. CASE EnumerateFails
  BY <1>3, <1>6, <1>10 DEF TypeOK, EnumerateFails, copy
<1>11. CASE ReadDir
  <2>1. PICK s \in Orders(present[cwd]) : contents' = [contents EXCEPT ![fd] = s]
    BY <1>11 DEF ReadDir
  <2>2. s \in Seq(Name)
    BY <2>1, Ordered DEF TypeOK
  <2>3. contents' \in [Descriptor -> Seq(Name)]
    BY <1>0, <2>1, <2>2 DEF TypeOK
  <2> QED
    BY <1>2, <1>11, <2>3 DEF TypeOK, ReadDir, history
<1>12. CASE NothingLeft
  BY <1>7, <1>12 DEF TypeOK, NothingLeft, copy
<1>13. CASE Setup
  <2>1. contents[fd] \in Seq(Name) /\ pos[fd] + 1 \in 1 .. Len(contents[fd])
    BY <1>0, <1>13 DEF TypeOK, Setup
  <2>2. contents[fd][pos[fd] + 1] \in Name
    BY <2>1, ElementOfSeq
  <2>3. [call EXCEPT !.at = "stat", !.name = contents[fd][pos[fd] + 1]] \in Frame
    BY <1>0, <2>2 DEF Frame
  <2> QED
    BY <1>1, <1>4, <1>13, <2>3, ChdirTypes DEF TypeOK, Setup, Arrive, copy
<1>14. CASE SetupFails
  BY <1>5, <1>6, <1>14 DEF TypeOK, SetupFails
<1>15. CASE Overrun
  BY <1>15 DEF TypeOK, Overrun, copy, history
<1>16. CASE Report
  <2>1. call.name \in Name
    BY <1>16 DEF TypeOK, Report
  <2>2. call.room - Size[call.name] \in Nat
    BY <1>0, <1>16, <2>1, ListingAssumption DEF Report, Fits, Frame
  <2>3. [call EXCEPT !.at = "loop", !.wrote = TRUE,
                     !.room = call.room - Size[call.name]] \in Frame
    BY <1>0, <2>2 DEF Frame
  <2>4. /\ told' \in [Descriptor -> SUBSET Name]
        /\ twice' \in [Descriptor -> BOOLEAN]
    BY <1>0, <1>16, <2>1 DEF TypeOK, Report
  <2> QED
    BY <1>1, <1>5, <1>16, <2>3, <2>4 DEF TypeOK, Report
<1>17. CASE BufferFull
  BY <1>7, <1>17 DEF TypeOK, BufferFull, copy
<1>18. CASE Skip
  BY <1>2, <1>5, <1>18 DEF TypeOK, Skip, history
<1>19. CASE OpenDirFails
  BY <1>6, <1>19 DEF TypeOK, OpenDirFails, copy
<1> QED
  BY <1>8, <1>9, <1>10, <1>11, <1>12, <1>13, <1>14, <1>15, <1>16, <1>17, <1>18, <1>19
  DEF Step

-----------------------------------------------------------------------------
(* The initial states, and what others do                                  *)

LEMMA InitInvariant == Init => IInv
<1> SUFFICES ASSUME Init PROVE IInv
  OBVIOUS
<1>1. TypeOK
  BY InitTypes
<1>2. depth = 0 /\ 1 .. depth = {}
  BY DEF Init, depth
<1>3. NoCopy /\ OneReader /\ CallsOK
  BY <1>2 DEF Init, NoCopy, Reads, Started, OneReader, CallsOK
<1>4. ReadersOK /\ CrashExcused
  BY DEF Init, ReadersOK, ReaderOK, CrashExcused
<1> QED
  BY <1>1, <1>3, <1>4 DEF IInv

\* The parts of the invariant that TypeOK is not.
Parts == NoCopy /\ OneReader /\ CallsOK /\ ReadersOK /\ CrashExcused

LEMMA PathCallParts ==
  ASSUME IInv, NEW d \in Dir, PathCall(d)
  PROVE  Parts'
<1> USE DEF IInv
<1>1. UNCHANGED <<present, node, dirdata, contents, pos, calls, crashed,
                  told, twice, stayed, known, ended>>
  BY DEF PathCall, copy
<1>2. \A f \in Descriptor : excused[f] => excused'[f]
  BY DEF PathCall, Chdir, TypeOK
<1>3. \A i \in 1 .. depth : calls[i].fd \in Descriptor
  BY FramesTyped
<1>4. NoCopy'
  BY <1>1 DEF NoCopy, Reads, Started, depth
<1>5. OneReader'
  BY <1>1, <1>2, <1>3 DEF OneReader, depth
<1>6. CallsOK'
  <2> SUFFICES ASSUME NEW i \in 1 .. depth, ~excused'[calls[i].fd]
               PROVE  calls[i].at \in {"opendir", "stat"} => cwd' = cwd
    BY <1>1, <1>2, <1>3 DEF CallsOK, CallOK, depth
  <2> QED
    BY <1>3 DEF PathCall, Chdir, Relying
<1>7. ReadersOK'
  <2> SUFFICES ASSUME NEW f \in Descriptor PROVE ReaderOK(f)'
    BY DEF ReadersOK
  <2>1. ReaderOK(f) /\ Copying(f)' = Copying(f) /\ Left(f)' = Left(f) /\ Passed(f)' = Passed(f)
    BY <1>1 DEF ReadersOK, Copying, Left, Passed, depth
  <2> QED
    BY <1>1, <1>2, <2>1 DEF ReaderOK
<1>8. CrashExcused'
  BY <1>1, <1>2 DEF CrashExcused
<1> QED
  BY <1>4, <1>5, <1>6, <1>7, <1>8 DEF Parts

LEMMA OpenDirectoryParts ==
  ASSUME IInv, NEW f \in Descriptor, NEW d \in Dir, OpenDirectory(f, d)
  PROVE  Parts'
<1> USE DEF IInv
<1>1. /\ UNCHANGED <<present, cwd, dirdata, contents, pos, calls, crashed>>
      /\ node[f] = Closed /\ ~crashed
  BY DEF OpenDirectory, MayCall
<1>2. \A g \in Descriptor \ {f} :
        /\ node'[g] = node[g] /\ told'[g] = told[g] /\ twice'[g] = twice[g]
        /\ stayed'[g] = stayed[g] /\ known'[g] = known[g]
        /\ ended'[g] = ended[g] /\ excused'[g] = excused[g]
  BY DEF OpenDirectory, TypeOK
<1>3. \A i \in 1 .. depth : calls[i].fd \in Descriptor \ {f}
  BY <1>1, FramesTyped DEF NoCopy, Reads
<1>4. ~dirdata[f] /\ contents[f] = << >> /\ pos[f] = 0
  BY <1>1 DEF NoCopy
<1>5. /\ node'[f] = d /\ told'[f] = {} /\ ~twice'[f] /\ ~ended'[f]
      /\ stayed'[f] = present[d] /\ known'[f] = present[d]
  BY DEF OpenDirectory, TypeOK
<1>6. NoCopy'
  BY <1>1, <1>2, <1>3, <1>4 DEF NoCopy, Reads, Started, depth
<1>7. OneReader'
  BY <1>1, <1>2, <1>3 DEF OneReader, depth
<1>8. CallsOK'
  BY <1>1, <1>2, <1>3 DEF CallsOK, CallOK, depth
<1>9. ReadersOK'
  <2> SUFFICES ASSUME NEW g \in Descriptor PROVE ReaderOK(g)'
    BY DEF ReadersOK
  <2>1. ReaderOK(g) /\ Copying(g)' = Copying(g) /\ Left(g)' = Left(g) /\ Passed(g)' = Passed(g)
    BY <1>1 DEF ReadersOK, Copying, Left, Passed, depth
  <2>2. CASE g # f
    BY <1>1, <1>2, <2>1, <2>2 DEF ReaderOK
  <2>3. CASE g = f
    BY <1>1, <1>4, <1>5, <2>3 DEF ReaderOK
  <2> QED
    BY <2>2, <2>3
<1>10. CrashExcused'
  BY <1>1 DEF CrashExcused
<1> QED
  BY <1>6, <1>7, <1>8, <1>9, <1>10 DEF Parts

LEMMA CloseParts ==
  ASSUME IInv, NEW f \in Descriptor, Close(f)
  PROVE  Parts'
<1> USE DEF IInv
<1>1. /\ UNCHANGED <<present, cwd, calls, crashed, told, twice, stayed, known, ended, excused>>
      /\ ~crashed /\ \A i \in 1 .. depth : calls[i].fd # f
  BY DEF Close, MayCall, history
<1>2. \A g \in Descriptor \ {f} :
        /\ node'[g] = node[g] /\ dirdata'[g] = dirdata[g]
        /\ contents'[g] = contents[g] /\ pos'[g] = pos[g]
  BY DEF Close, Dropped, TypeOK
<1>3. node'[f] = Closed /\ ~dirdata'[f] /\ contents'[f] = << >> /\ pos'[f] = 0
  BY DEF Close, Dropped, TypeOK
<1>4. \A i \in 1 .. depth : calls[i].fd \in Descriptor \ {f}
  BY <1>1, FramesTyped
<1>5. NoCopy'
  BY <1>1, <1>2, <1>3 DEF NoCopy, Reads, Started, depth
<1>6. OneReader'
  BY <1>1 DEF OneReader, depth
<1>7. CallsOK'
  BY <1>1, <1>2, <1>4 DEF CallsOK, CallOK, depth
<1>8. ReadersOK'
  <2> SUFFICES ASSUME NEW g \in Descriptor, g # f PROVE ReaderOK(g)'
    BY <1>3 DEF ReadersOK, ReaderOK
  <2>1. ReaderOK(g) /\ Copying(g)' = Copying(g) /\ Left(g)' = Left(g) /\ Passed(g)' = Passed(g)
    BY <1>1, <1>2 DEF ReadersOK, Copying, Left, Passed, depth
  <2> QED
    BY <1>1, <1>2, <2>1 DEF ReaderOK
<1>9. CrashExcused'
  BY <1>1 DEF CrashExcused
<1> QED
  BY <1>5, <1>6, <1>7, <1>8, <1>9 DEF Parts

LEMMA ChangeParts ==
  ASSUME IInv, NEW d \in Dir, NEW n \in Name, Create(d, n) \/ Remove(d, n)
  PROVE  Parts'
<1> USE DEF IInv
<1>1. UNCHANGED <<cwd, node, dirdata, contents, pos, calls, crashed,
                  told, twice, ended, excused>>
  BY DEF Create, Remove, copy
<1>2. NoCopy' /\ OneReader' /\ CallsOK' /\ CrashExcused'
  BY <1>1 DEF NoCopy, Reads, Started, OneReader, CallsOK, CallOK, CrashExcused, depth
<1>3. ReadersOK'
  <2> SUFFICES ASSUME NEW f \in Descriptor, node[f] # Closed, ~excused[f] PROVE ReaderOK(f)'
    BY <1>1 DEF ReadersOK, ReaderOK
  <2>1. ReaderOK(f) /\ Copying(f)' = Copying(f) /\ Left(f)' = Left(f) /\ Passed(f)' = Passed(f)
    BY <1>1 DEF ReadersOK, Copying, Left, Passed, depth
  <2>2. node[f] \in Dir
    BY DEF TypeOK
  <2>3. stayed[f] \subseteq present[node[f]] /\ present[node[f]] \subseteq known[f]
    BY <2>1 DEF ReaderOK
  <2>4. /\ stayed'[f] \subseteq stayed[f] /\ known[f] \subseteq known'[f]
        /\ stayed'[f] \subseteq present'[node[f]]
        /\ present'[node[f]] \subseteq known'[f]
    <3>1. CASE Create(d, n)
      <4>1. CASE node[f] = d
        BY <2>3, <3>1, <4>1 DEF Create, TypeOK
      <4>2. CASE node[f] # d
        BY <2>2, <2>3, <3>1, <4>2 DEF Create, TypeOK
      <4> QED
        BY <4>1, <4>2
    <3>2. CASE Remove(d, n)
      <4>1. CASE node[f] = d
        BY <2>3, <3>2, <4>1 DEF Remove, TypeOK
      <4>2. CASE node[f] # d
        BY <2>2, <2>3, <3>2, <4>2 DEF Remove, TypeOK
      <4> QED
        BY <4>1, <4>2
    <3> QED
      BY <3>1, <3>2
  <2> QED
    BY <1>1, <2>1, <2>4 DEF ReaderOK
<1> QED
  BY <1>2, <1>3 DEF Parts

-----------------------------------------------------------------------------
(* A call begins                                                           *)

LEMMA BeginParts ==
  ASSUME IInv, NEW f \in Descriptor, NEW room \in Rooms, Begin(f, room)
  PROVE  Parts'
<1> USE DEF IInv
<1> DEFINE c == [fd |-> f, at |-> "get", room |-> room, wrote |-> FALSE, name |-> Closed]
<1>1. /\ UNCHANGED <<present, cwd, node, dirdata, contents, pos, crashed,
                     told, twice, stayed, known, ended>>
      /\ ~crashed /\ node[f] # Closed
  BY DEF Begin, MayCall, copy
<1>2. \A g \in Descriptor : excused[g] => excused'[g]
  BY DEF Begin, TypeOK
<1>3. ~excused'[f] => ~Reads(f)
  BY DEF Begin, Reads, TypeOK
<1>4. c \in Frame /\ calls \in Seq(Frame) /\ calls' = Append(calls, c)
  BY ListingAssumption DEF Begin, TypeOK, Frame
<1>5. c.fd = f /\ c.at = "get"
  OBVIOUS
<1> HIDE DEF c
<1>6. /\ depth \in Nat /\ depth' = depth + 1
      /\ \A i \in 1 .. depth : calls'[i] = calls[i]
      /\ calls'[depth + 1] = c
  BY <1>4, AppendProperties DEF depth
<1>7. \A i \in 1 .. depth' : i \in 1 .. depth \/ i = depth + 1
  BY <1>6
<1>8. \A i \in 1 .. depth : calls[i].fd \in Descriptor
  BY FramesTyped
<1>9. NoCopy'
  <2> SUFFICES ASSUME NEW g \in Descriptor
               PROVE  /\ node[g] = Closed => ~Reads(g)'
                      /\ Started(g)' => Started(g)
    BY <1>1 DEF NoCopy
  <2>1. node[g] = Closed => ~Reads(g)'
    BY <1>1, <1>5, <1>6, <1>7 DEF NoCopy, Reads
  <2>2. Started(g)' => Started(g)
    BY <1>5, <1>6, <1>7 DEF Started
  <2> QED
    BY <2>1, <2>2
<1>10. OneReader'
  <2> SUFFICES ASSUME NEW i \in 1 .. depth', NEW j \in 1 .. depth',
                      calls'[i].fd = calls'[j].fd, ~excused'[calls'[i].fd]
               PROVE  i = j
    BY DEF OneReader
  <2>1. CASE i \in 1 .. depth /\ j \in 1 .. depth
    BY <1>2, <1>6, <1>8, <2>1 DEF OneReader
  <2>2. CASE i = depth + 1 /\ j \in 1 .. depth
    BY <1>3, <1>5, <1>6, <2>2 DEF Reads
  <2>3. CASE i \in 1 .. depth /\ j = depth + 1
    BY <1>3, <1>5, <1>6, <2>3 DEF Reads
  <2> QED
    BY <1>7, <2>1, <2>2, <2>3
<1>11. CallsOK'
  <2> SUFFICES ASSUME NEW i \in 1 .. depth', ~excused'[calls'[i].fd] PROVE CallOK(calls[i])'
    BY DEF CallsOK, CallOK
  <2>1. CASE i \in 1 .. depth
    BY <1>1, <1>2, <1>6, <1>8, <2>1 DEF CallsOK, CallOK
  <2>2. CASE i = depth + 1
    BY <1>5, <1>6, <2>2 DEF CallOK
  <2> QED
    BY <1>7, <2>1, <2>2
<1>12. ReadersOK'
  <2> SUFFICES ASSUME NEW g \in Descriptor PROVE ReaderOK(g)'
    BY DEF ReadersOK
  <2>1. Copying(g)' = Copying(g)
    BY <1>5, <1>6, <1>7 DEF Copying
  <2>2. ReaderOK(g) /\ Left(g)' = Left(g) /\ Passed(g)' = Passed(g)
    BY <1>1 DEF ReadersOK, Left, Passed
  <2> QED
    BY <1>1, <1>2, <2>1, <2>2 DEF ReaderOK
<1>13. CrashExcused'
  BY <1>1 DEF CrashExcused
<1> QED
  BY <1>9, <1>10, <1>11, <1>12, <1>13 DEF Parts

-----------------------------------------------------------------------------
(* What a step leaves alone: other calls and other descriptors             *)

SameBut(f) ==
  \A g \in Descriptor \ {f} :
    /\ dirdata'[g] = dirdata[g] /\ contents'[g] = contents[g] /\ pos'[g] = pos[g]
    /\ told'[g] = told[g] /\ twice'[g] = twice[g] /\ stayed'[g] = stayed[g]
    /\ known'[g] = known[g] /\ ended'[g] = ended[g]

\* The working directory stays, or calls that rely on it are excused.
CwdKept ==
  \A i \in 1 .. depth - 1 :
    calls[i].at \in {"opendir", "stat"} /\ ~excused'[calls[i].fd] => cwd' = cwd

Sticky == \A g \in Descriptor : excused[g] => excused'[g]

LEMMA Below ==
  ASSUME IInv, depth > 0
  PROVE  /\ \A i \in 1 .. depth - 1 : ~excused[calls[i].fd] => calls[i].fd # fd
         /\ fd \in Descriptor /\ Reads(fd)
<1>1. depth \in 1 .. depth /\ depth \in Nat /\ fd \in Descriptor
  BY Top DEF IInv
<1>2. ASSUME NEW i \in 1 .. depth - 1, ~excused[calls[i].fd], calls[i].fd = fd
      PROVE  FALSE
  <2>1. i \in 1 .. depth /\ i # depth
    BY <1>1
  <2>2. calls[i].fd = calls[depth].fd
    BY <1>2 DEF fd, call
  <2>3. i = depth
    BY <1>1, <1>2, <2>1, <2>2 DEF IInv, OneReader
  <2> QED
    BY <2>1, <2>3
<1> QED
  BY <1>1, <1>2 DEF Reads, fd, call

LEMMA GoOnParts ==
  ASSUME IInv, depth > 0, NEW c \in Frame, c.fd = fd, GoOn(c),
         UNCHANGED node, SameBut(fd), CwdKept, Sticky, CallOK(c)'
  PROVE  /\ OneReader' /\ CallsOK'
         /\ \A g \in Descriptor : Reads(g)' <=> Reads(g)
         /\ \A g \in Descriptor \ {fd} : Copying(g)' <=> Copying(g)
         /\ \A g \in Descriptor \ {fd} : Started(g)' <=> Started(g)
         /\ ~excused[fd] => /\ Copying(fd)' <=> c.at \in {"enumerate", "opendir"}
                            /\ Copying(fd) <=> call.at \in {"enumerate", "opendir"}
<1>1. depth \in 1 .. depth /\ depth \in Nat /\ fd \in Descriptor
  BY Top DEF IInv
<1>2. /\ depth' = depth
      /\ \A i \in 1 .. depth - 1 : calls'[i] = calls[i]
      /\ calls'[depth] = c
  BY GoOnCalls DEF IInv, depth
<1>3. \A i \in 1 .. depth : i \in 1 .. depth - 1 \/ i = depth
  BY <1>1
<1>4. \A i \in 1 .. depth - 1 : i \in 1 .. depth
  BY <1>1
<1>5. calls[depth].fd = fd /\ call = calls[depth]
  BY DEF fd, call
<1>6. \A i \in 1 .. depth : calls[i].fd \in Descriptor
  BY FramesTyped DEF IInv
<1>7. \A i \in 1 .. depth : calls'[i].fd = calls[i].fd
  BY <1>2, <1>3, <1>5
<1>8. OneReader'
  BY <1>2, <1>6, <1>7 DEF IInv, OneReader, Sticky
<1>9. CallsOK'
  <2> SUFFICES ASSUME NEW i \in 1 .. depth, ~excused'[calls'[i].fd] PROVE CallOK(calls[i])'
    BY <1>2 DEF CallsOK, CallOK
  <2>1. CASE i = depth
    BY <1>2, <2>1 DEF CallOK
  <2>2. CASE i \in 1 .. depth - 1
    <3>1. calls'[i] = calls[i] /\ calls[i].fd \in Descriptor /\ ~excused[calls[i].fd]
      BY <1>2, <1>4, <1>6, <2>2 DEF Sticky
    <3>2. calls[i].fd # fd
      BY <2>2, <3>1, Below
    <3>3. CallOK(calls[i])
      BY <1>4, <2>2 DEF IInv, CallsOK
    <3>4. calls[i].at \in {"opendir", "stat"} => cwd' = cwd
      BY <2>2, <3>1 DEF CwdKept
    <3> QED
      BY <3>1, <3>2, <3>3, <3>4 DEF CallOK, SameBut
  <2> QED
    BY <1>3, <2>1, <2>2
<1>10. \A g \in Descriptor : Reads(g)' <=> Reads(g)
  BY <1>2, <1>7 DEF Reads
<1>11. /\ \A g \in Descriptor \ {fd} : Copying(g)' <=> Copying(g)
       /\ \A g \in Descriptor \ {fd} : Started(g)' <=> Started(g)
  BY <1>2, <1>3, <1>4, <1>5 DEF Copying, Started
<1>12. ASSUME ~excused[fd]
       PROVE  /\ Copying(fd)' <=> c.at \in {"enumerate", "opendir"}
              /\ Copying(fd) <=> call.at \in {"enumerate", "opendir"}
  <2>1. \A i \in 1 .. depth : calls[i].fd = fd <=> i = depth
    BY <1>1, <1>5, <1>12 DEF IInv, OneReader
  <2>2. \A i \in 1 .. depth : calls'[i].fd = fd <=> i = depth
    BY <1>7, <2>1
  <2>3. Copying(fd) <=> call.at \in {"enumerate", "opendir"}
    BY <1>1, <1>5, <2>1 DEF Copying
  <2>4. Copying(fd)' <=> \E i \in 1 .. depth : calls'[i].fd = fd
                                         /\ calls'[i].at \in {"enumerate", "opendir"}
    <3>1. fd' = fd
      BY <1>2 DEF fd, call
    <3> QED
      BY <1>2, <3>1 DEF Copying
  <2> QED
    BY <1>1, <1>2, <2>2, <2>3, <2>4
<1> QED
  BY <1>8, <1>9, <1>10, <1>11, <1>12

LEMMA OverParts ==
  ASSUME IInv, depth > 0, Over, NEW f \in Descriptor, f = fd,
         UNCHANGED <<node, cwd>>, SameBut(f), Sticky
  PROVE  /\ OneReader' /\ CallsOK'
         /\ \A g \in Descriptor : Reads(g)' => Reads(g)
         /\ \A g \in Descriptor : Started(g)' => Started(g)
         /\ \A g \in Descriptor \ {f} : Copying(g)' <=> Copying(g)
         /\ ~excused[f] => /\ ~Copying(f)'
                           /\ Copying(f) <=> call.at \in {"enumerate", "opendir"}
<1>1. depth \in 1 .. depth /\ depth \in Nat
  BY Top DEF IInv
<1>2. depth' = depth - 1 /\ \A i \in 1 .. depth - 1 : calls'[i] = calls[i]
  BY OverCalls DEF IInv, depth
<1>3. \A i \in 1 .. depth : i \in 1 .. depth - 1 \/ i = depth
  BY <1>1
<1>4. \A i \in 1 .. depth - 1 : i \in 1 .. depth
  BY <1>1
<1>5. calls[depth].fd = f /\ call = calls[depth]
  BY DEF fd, call
<1>6. \A i \in 1 .. depth : calls[i].fd \in Descriptor
  BY FramesTyped DEF IInv
<1>7. OneReader'
  BY <1>2, <1>4, <1>6 DEF IInv, OneReader, Sticky
<1>8. CallsOK'
  <2> SUFFICES ASSUME NEW i \in 1 .. depth - 1, ~excused'[calls'[i].fd] PROVE CallOK(calls[i])'
    BY <1>2 DEF CallsOK, CallOK
  <2>1. calls'[i] = calls[i] /\ calls[i].fd \in Descriptor /\ ~excused[calls[i].fd]
    BY <1>2, <1>4, <1>6 DEF Sticky
  <2>2. calls[i].fd # f
    BY <2>1, Below
  <2>3. CallOK(calls[i])
    BY <1>4 DEF IInv, CallsOK
  <2> QED
    BY <2>1, <2>2, <2>3 DEF CallOK, SameBut
<1>9. /\ \A g \in Descriptor : Reads(g)' => Reads(g)
      /\ \A g \in Descriptor : Started(g)' => Started(g)
  BY <1>2, <1>4 DEF Reads, Started
<1>10. \A g \in Descriptor \ {f} : Copying(g)' <=> Copying(g)
  BY <1>2, <1>3, <1>4, <1>5 DEF Copying
<1>11. ASSUME ~excused[f]
       PROVE  /\ ~Copying(f)'
              /\ Copying(f) <=> call.at \in {"enumerate", "opendir"}
  <2>1. \A i \in 1 .. depth : calls[i].fd = f <=> i = depth
    BY <1>1, <1>5, <1>11 DEF IInv, OneReader
  <2>2. \A i \in 1 .. depth - 1 : calls[i].fd # f
    BY <1>1, <1>4, <2>1
  <2> QED
    BY <1>1, <1>2, <1>5, <2>1, <2>2 DEF Copying
<1> QED
  BY <1>7, <1>8, <1>9, <1>10, <1>11

LEMMA OtherReaders ==
  ASSUME IInv, NEW f \in Descriptor, NEW g \in Descriptor \ {f},
         UNCHANGED <<present, node>>, SameBut(f), Sticky, Copying(g)' <=> Copying(g)
  PROVE  ReaderOK(g)'
<1>1. ReaderOK(g) /\ Left(g)' = Left(g) /\ Passed(g)' = Passed(g)
  BY DEF IInv, ReadersOK, SameBut, Left, Passed
<1> QED
  BY <1>1 DEF ReaderOK, SameBut, Sticky

LEMMA CopiesKept ==
  ASSUME IInv, NEW f \in Descriptor, UNCHANGED node, SameBut(f),
         \A g \in Descriptor : Reads(g)' => Reads(g),
         \A g \in Descriptor \ {f} : Started(g)' => Started(g),
         ~dirdata'[f] => contents'[f] = << >> /\ pos'[f] = 0 /\ ~Started(f)',
         Reads(f)
  PROVE  NoCopy'
BY DEF IInv, NoCopy, SameBut

\* What remains to be shown of a step: the object that the call reads.
LEMMA GoOnAll ==
  ASSUME IInv, depth > 0, NEW c \in Frame, c.fd = fd, GoOn(c),
         NEW f \in Descriptor, f = fd,
         UNCHANGED <<present, node, crashed>>, SameBut(f), CwdKept, Sticky, CallOK(c)',
         dirdata'[f],
         /\ node[f] # Closed /\ ~excused[f] /\ ~excused'[f] /\ ReaderOK(f) /\ CallOK(call)
         /\ Copying(f)' <=> c.at \in {"enumerate", "opendir"}
         /\ Copying(f) <=> call.at \in {"enumerate", "opendir"}
         => ReaderOK(f)'
  PROVE  Parts'
<1>1. /\ OneReader' /\ CallsOK'
      /\ \A g \in Descriptor : Reads(g)' <=> Reads(g)
      /\ \A g \in Descriptor \ {f} : Started(g)' <=> Started(g)
      /\ \A g \in Descriptor \ {f} : Copying(g)' <=> Copying(g)
      /\ ~excused[f] => /\ Copying(f)' <=> c.at \in {"enumerate", "opendir"}
                        /\ Copying(f) <=> call.at \in {"enumerate", "opendir"}
  <2>1. depth' = depth /\ calls'[depth] = c
    BY GoOnCalls DEF IInv, depth
  <2>2. fd' = fd
    BY <2>1 DEF fd, call
  <2>3. Copying(fd)' <=> Copying(f)'
    BY <2>2
  <2> QED
    BY <2>3, GoOnParts
<1>2. Reads(f) /\ depth \in 1 .. depth
  BY Below, Top DEF IInv
<1>3. NoCopy'
  BY <1>1, <1>2, CopiesKept
<1>4. ReadersOK'
  <2>1. \A g \in Descriptor \ {f} : ReaderOK(g)'
    BY <1>1, OtherReaders
  <2>2. ReaderOK(f)'
    <3> SUFFICES ASSUME node'[f] # Closed, ~excused'[f] PROVE ReaderOK(f)'
      BY DEF ReaderOK
    <3>1. ReaderOK(f) /\ CallOK(call) /\ ~excused[f] /\ node[f] # Closed
      BY <1>2 DEF IInv, ReadersOK, CallsOK, Sticky, call
    <3> QED
      BY <1>1, <3>1
  <2> QED
    BY <2>1, <2>2 DEF ReadersOK
<1>5. CrashExcused'
  BY DEF IInv, CrashExcused, Sticky
<1> QED
  BY <1>1, <1>3, <1>4, <1>5 DEF Parts

LEMMA OverAll ==
  ASSUME IInv, depth > 0, Over, NEW f \in Descriptor, f = fd,
         UNCHANGED <<present, node, cwd, dirdata, contents, pos, crashed>>,
         SameBut(f), Sticky,
         /\ node[f] # Closed /\ ~excused[f] /\ ~excused'[f] /\ ReaderOK(f) /\ CallOK(call)
         /\ ~Copying(f)'
         /\ Copying(f) <=> call.at \in {"enumerate", "opendir"}
         => ReaderOK(f)'
  PROVE  Parts'
<1>1. /\ OneReader' /\ CallsOK'
      /\ \A g \in Descriptor : Reads(g)' => Reads(g)
      /\ \A g \in Descriptor : Started(g)' => Started(g)
      /\ \A g \in Descriptor \ {f} : Copying(g)' <=> Copying(g)
      /\ ~excused[f] => /\ ~Copying(f)'
                        /\ Copying(f) <=> call.at \in {"enumerate", "opendir"}
  BY OverParts
<1>2. Reads(f) /\ depth \in 1 .. depth
  BY Below, Top DEF IInv
<1>3. NoCopy'
  BY <1>1, <1>2, CopiesKept DEF IInv, NoCopy
<1>4. ReadersOK'
  <2>1. \A g \in Descriptor \ {f} : ReaderOK(g)'
    BY <1>1, OtherReaders
  <2>2. ReaderOK(f)'
    <3> SUFFICES ASSUME node'[f] # Closed, ~excused'[f] PROVE ReaderOK(f)'
      BY DEF ReaderOK
    <3>1. ReaderOK(f) /\ CallOK(call) /\ ~excused[f] /\ node[f] # Closed
      BY <1>2 DEF IInv, ReadersOK, CallsOK, Sticky, call
    <3> QED
      BY <1>1, <3>1
  <2> QED
    BY <2>1, <2>2 DEF ReadersOK
<1>5. CrashExcused'
  BY DEF IInv, CrashExcused, Sticky
<1> QED
  BY <1>1, <1>3, <1>4, <1>5 DEF Parts

\* The frame a step leaves, and what a move of the working directory excuses.
LEMMA Frames ==
  ASSUME TypeOK, depth > 0
  PROVE  /\ \A step \in {"enumerate", "opendir", "loop"} :
              LET c == [call EXCEPT !.at = step]
              IN c \in Frame /\ c.fd = fd /\ c.at = step
         /\ \A n \in Name :
              LET c == [call EXCEPT !.at = "stat", !.name = n]
              IN c \in Frame /\ c.fd = fd /\ c.at = "stat" /\ c.name = n
BY Top DEF Frame, fd

LEMMA Arrived ==
  ASSUME IInv, depth > 0, NEW d, Arrive(d, depth - 1)
  PROVE  cwd' = d /\ Sticky /\ CwdKept
<1>1. \A i \in 1 .. depth - 1 : i \in 1 .. depth
  BY Top DEF IInv
<1>2. \A i \in 1 .. depth - 1 : calls[i].fd \in Descriptor
  BY <1>1, FramesTyped DEF IInv
<1>3. \A i \in 1 .. depth - 1 :
        calls[i].at \in {"opendir", "stat"} => calls[i].fd \in Relying(depth - 1)
  BY DEF Relying
<1>4. cwd' = d /\ \A f \in Descriptor :
                    excused'[f] = (excused[f] \/ (d # cwd /\ f \in Relying(depth - 1)))
  BY DEF Arrive, Chdir
<1> QED
  BY <1>2, <1>3, <1>4 DEF Sticky, CwdKept

-----------------------------------------------------------------------------
(* The steps of a call                                                     *)

LEMMA GetDirDataParts ==
  ASSUME IInv, GetDirData
  PROVE  Parts'
<1>1. depth > 0 /\ fd \in Descriptor /\ call.at = "get"
  BY Below DEF GetDirData, At
<1>2. PICK f \in Descriptor : f = fd
  BY <1>1
<1>3. PICK c : c = [call EXCEPT !.at = IF dirdata[fd] THEN "loop" ELSE "enumerate"]
  OBVIOUS
<1>4. c \in Frame /\ c.fd = fd /\ c.at = (IF dirdata[fd] THEN "loop" ELSE "enumerate")
  BY <1>1, <1>3, Frames DEF IInv
<1>5. GoOn(c)
  BY <1>3 DEF GetDirData, GoTo
<1>6. /\ UNCHANGED <<present, cwd, node, contents, pos, crashed, told, twice, stayed,
                     known, ended, excused>>
      /\ dirdata'[f] /\ \A g \in Descriptor \ {f} : dirdata'[g] = dirdata[g]
  BY <1>2 DEF GetDirData, IInv, TypeOK, history
<1>7. SameBut(f) /\ CwdKept /\ Sticky
  BY <1>6 DEF SameBut, CwdKept, Sticky
<1>8. ReaderOK(f) /\ (~dirdata[f] => contents[f] = << >> /\ pos[f] = 0)
  BY DEF IInv, ReadersOK, NoCopy
<1>9. node[f] # Closed
  BY <1>1, <1>2, Below DEF IInv, NoCopy
<1>10. CallOK(c)'
  BY <1>2, <1>4, <1>6, <1>8, <1>9 DEF CallOK, ReaderOK
<1>11. ASSUME ~excused[f], Copying(f)' <=> c.at \in {"enumerate", "opendir"},
              Copying(f) <=> call.at \in {"enumerate", "opendir"}
       PROVE  ReaderOK(f)'
  <2>1. Left(f)' = Left(f) /\ Passed(f)' = Passed(f)
    BY <1>6 DEF Left, Passed
  <2>2. ~Copying(f) /\ (Copying(f)' <=> ~dirdata[f])
    BY <1>1, <1>2, <1>4, <1>11
  <2> QED
    BY <1>6, <1>8, <2>1, <2>2 DEF ReaderOK
<1> QED
  BY <1>1, <1>2, <1>4, <1>5, <1>6, <1>7, <1>10, <1>11, GoOnAll

LEMMA EnumerateParts ==
  ASSUME IInv, Enumerate
  PROVE  Parts'
<1>1. depth > 0 /\ fd \in Descriptor /\ call.at = "enumerate"
  BY Below DEF Enumerate, At
<1>2. PICK f \in Descriptor : f = fd
  BY <1>1
<1>3. PICK c : c = [call EXCEPT !.at = "opendir"]
  OBVIOUS
<1>4. c \in Frame /\ c.fd = fd /\ c.at = "opendir"
  BY <1>1, <1>3, Frames DEF IInv
<1>5. GoOn(c)
  BY <1>3 DEF Enumerate, GoTo
<1>6. UNCHANGED <<present, node, dirdata, contents, pos, crashed, told, twice, stayed,
                  known, ended>>
  BY DEF Enumerate, copy
<1>7. cwd' = node[f] /\ SameBut(f) /\ CwdKept /\ Sticky
  BY <1>1, <1>2, <1>6, Arrived DEF Enumerate, SameBut
<1>8. /\ CallOK(call) /\ call.fd = f
      /\ dirdata[f]
  BY <1>1, <1>2, Top DEF IInv, CallsOK, NoCopy, Started, call, fd
<1>9. CallOK(c)'
  BY <1>1, <1>2, <1>4, <1>6, <1>7, <1>8 DEF CallOK, Sticky
<1>10. ASSUME ~excused[f], ReaderOK(f), Copying(f)' <=> c.at \in {"enumerate", "opendir"}
       PROVE  ReaderOK(f)'
  <2>1. Passed(f)' = Passed(f) /\ Copying(f)'
    BY <1>4, <1>6, <1>10 DEF Passed
  <2> QED
    BY <1>6, <1>10, <2>1 DEF ReaderOK
<1> QED
  BY <1>1, <1>2, <1>4, <1>5, <1>6, <1>7, <1>8, <1>9, <1>10, GoOnAll

LEMMA EnumerateFailsParts ==
  ASSUME IInv, EnumerateFails
  PROVE  Parts'
<1>1. depth > 0 /\ fd \in Descriptor
  BY Below DEF EnumerateFails, At
<1>2. PICK f \in Descriptor : f = fd
  BY <1>1
<1>3. /\ UNCHANGED <<present, cwd, node, dirdata, contents, pos, crashed, told, twice,
                     stayed, known, ended>>
      /\ Over
  BY DEF EnumerateFails, copy
<1>4. excused'[f] /\ Sticky
  BY <1>2 DEF EnumerateFails, Excuse, IInv, TypeOK, Sticky
<1>5. SameBut(f)
  BY <1>3 DEF SameBut
<1> QED
  BY <1>1, <1>2, <1>3, <1>4, <1>5, OverAll

LEMMA ReadDirParts ==
  ASSUME IInv, ReadDir
  PROVE  Parts'
<1>1. depth > 0 /\ fd \in Descriptor /\ call.at = "opendir"
  BY Below DEF ReadDir, At
<1>2. PICK f \in Descriptor : f = fd
  BY <1>1
<1>3. PICK c : c = [call EXCEPT !.at = "loop"]
  OBVIOUS
<1>4. c \in Frame /\ c.fd = fd /\ c.at = "loop"
  BY <1>1, <1>3, Frames DEF IInv
<1>5. GoOn(c)
  BY <1>3 DEF ReadDir, GoTo
<1>6. PICK s \in Orders(present[cwd]) : contents' = [contents EXCEPT ![fd] = s]
  BY DEF ReadDir
<1>7. /\ \A n \in present[cwd] : \E i \in 1 .. Len(s) : s[i] = n
      /\ \A i \in 1 .. Len(s) : s[i] \in present[cwd]
      /\ \A i, j \in 1 .. Len(s) : s[i] = s[j] => i = j
      /\ Len(s) \in Nat
  <2>1. present[cwd] \subseteq Name
    BY DEF IInv, TypeOK
  <2>2. s \in Seq(Name)
    BY <1>6, <2>1, Ordered
  <2>3. Len(s) \in Nat
    BY <2>2
  <2> QED
    BY <1>6, <2>1, <2>3, Ordered
<1>8. /\ UNCHANGED <<present, cwd, node, dirdata, pos, crashed, told, twice, stayed,
                     known, ended, excused>>
      /\ contents'[f] = s /\ \A g \in Descriptor \ {f} : contents'[g] = contents[g]
  BY <1>2, <1>6 DEF ReadDir, IInv, TypeOK, history
<1>9. SameBut(f) /\ CwdKept /\ Sticky
  BY <1>8 DEF SameBut, CwdKept, Sticky
<1>10. /\ CallOK(call) /\ call.fd = f
       /\ dirdata[f]
  BY <1>1, <1>2, Top DEF IInv, CallsOK, NoCopy, Started, call, fd
<1>11. ~excused[f] => /\ dirdata[f] /\ pos[f] = 0 /\ told[f] = {} /\ ~ended[f]
                      /\ cwd = node[f]
  BY <1>1, <1>10 DEF CallOK
<1>12. CallOK(c)'
  BY <1>2, <1>4, <1>8, <1>11 DEF CallOK
<1>13. ASSUME node[f] # Closed, ~excused[f], ReaderOK(f)
       PROVE  ReaderOK(f)'
  <2>1. present[cwd] \subseteq known[f] /\ stayed[f] \subseteq present[cwd] /\ ~twice[f]
    BY <1>11, <1>13 DEF ReaderOK
  <2>2. stayed'[f] \subseteq Left(f)'
    <3> SUFFICES ASSUME NEW n \in stayed[f] PROVE n \in Left(f)'
      BY <1>8
    <3>1. PICK i \in 1 .. Len(s) : s[i] = n
      BY <1>7, <2>1
    <3>2. pos'[f] + 1 = 1
      BY <1>8, <1>11, <1>13
    <3> QED
      BY <1>8, <3>1, <3>2 DEF Left
  <2> QED
    BY <1>7, <1>8, <1>11, <2>1, <2>2 DEF ReaderOK
<1> QED
  BY <1>1, <1>2, <1>4, <1>5, <1>8, <1>9, <1>10, <1>12, <1>13, GoOnAll

LEMMA NothingLeftParts ==
  ASSUME IInv, NothingLeft
  PROVE  Parts'
<1>1. depth > 0 /\ fd \in Descriptor /\ call.at = "loop"
  BY Below DEF NothingLeft, At
<1>2. PICK f \in Descriptor : f = fd
  BY <1>1
<1>3. /\ UNCHANGED <<present, cwd, node, dirdata, contents, pos, crashed, told, twice,
                     stayed, known>>
      /\ Over /\ pos[f] = Len(contents[f])
  BY <1>2 DEF NothingLeft, Answer, copy
<1>4. /\ Sticky
      /\ \A g \in Descriptor \ {f} : ended'[g] = ended[g]
  BY <1>2 DEF NothingLeft, Answer, IInv, TypeOK, Sticky
<1>5. SameBut(f)
  BY <1>3, <1>4 DEF SameBut
<1>6. CallOK(call) /\ call.fd = f
  BY <1>1, <1>2, Top DEF IInv, CallsOK, call, fd
<1>7. ASSUME ~excused[f], ~excused'[f], node[f] # Closed, ReaderOK(f),
             ~Copying(f)', Copying(f) <=> call.at \in {"enumerate", "opendir"}
      PROVE  ReaderOK(f)'
  <2>1. dirdata[f] /\ ~Copying(f)
    BY <1>1, <1>6, <1>7 DEF CallOK
  <2>2. Len(contents[f]) \in Nat
    BY DEF IInv, TypeOK
  <2>3. Left(f) = {}
    BY <1>3, <2>2 DEF Left
  <2>4. stayed[f] \subseteq told[f]
    BY <1>7, <2>1, <2>3 DEF ReaderOK
  <2>5. Left(f)' = Left(f) /\ Passed(f)' = Passed(f)
    BY <1>3 DEF Left, Passed
  <2> QED
    BY <1>3, <1>7, <2>1, <2>4, <2>5 DEF ReaderOK
<1> QED
  BY <1>1, <1>2, <1>3, <1>4, <1>5, <1>7, OverAll

LEMMA BufferFullParts ==
  ASSUME IInv, BufferFull
  PROVE  Parts'
<1>1. depth > 0 /\ fd \in Descriptor /\ call.at = "stat"
  BY Below DEF BufferFull, At
<1>2. PICK f \in Descriptor : f = fd
  BY <1>1
<1>3. /\ UNCHANGED <<present, cwd, node, dirdata, contents, pos, crashed, told, twice,
                     stayed, known>>
      /\ Over
  BY DEF BufferFull, Answer, copy
<1>4. /\ Sticky
      /\ \A g \in Descriptor \ {f} : ended'[g] = ended[g]
      /\ ~excused'[f] => (ended'[f] <=> ended[f])
  BY <1>2 DEF BufferFull, Answer, IInv, TypeOK, Sticky
<1>5. SameBut(f)
  BY <1>3, <1>4 DEF SameBut
<1>6. ASSUME ~excused'[f], ReaderOK(f), ~Copying(f)',
             Copying(f) <=> call.at \in {"enumerate", "opendir"}
      PROVE  ReaderOK(f)'
  <2>1. Left(f)' = Left(f) /\ Passed(f)' = Passed(f) /\ ~Copying(f)
    BY <1>1, <1>3, <1>6 DEF Left, Passed
  <2> QED
    BY <1>3, <1>4, <1>6, <2>1 DEF ReaderOK, Sticky
<1> QED
  BY <1>1, <1>2, <1>3, <1>4, <1>5, <1>6, OverAll

\* The copy after one more name was passed.
LEMMA OneMore ==
  ASSUME IInv, NEW f \in Descriptor, pos[f] < Len(contents[f]),
         contents'[f] = contents[f], pos'[f] = pos[f] + 1
  PROVE  /\ pos'[f] <= Len(contents'[f])
         /\ Left(f) \subseteq Left(f)' \cup {contents[f][pos[f] + 1]}
         /\ Passed(f) \cup {contents[f][pos[f] + 1]} \subseteq Passed(f)'
<1> DEFINE p == pos[f]
           n == Len(contents[f])
<1>1. p \in Nat /\ n \in Nat /\ p < n
  BY DEF IInv, TypeOK
<1>2. pos'[f] = p + 1 /\ Len(contents'[f]) = n
  OBVIOUS
<1> HIDE DEF p, n
<1>3. p + 1 <= n
  BY <1>1
<1>4. \A i \in p + 1 .. n : i = p + 1 \/ i \in (p + 1) + 1 .. n
  BY <1>1
<1>5. \A i \in 1 .. p : i \in 1 .. p + 1
  BY <1>1
<1>6. p + 1 \in 1 .. p + 1
  BY <1>1
<1>7. Left(f) = {contents[f][i] : i \in p + 1 .. n} /\ Passed(f) = {contents[f][i] : i \in 1 .. p}
  BY DEF Left, Passed, p, n
<1>8. /\ Left(f)' = {contents[f][i] : i \in (p + 1) + 1 .. n}
      /\ Passed(f)' = {contents[f][i] : i \in 1 .. p + 1}
  BY <1>2 DEF Left, Passed
<1>9. contents[f][pos[f] + 1] = contents[f][p + 1]
  BY DEF p
<1> QED
  BY <1>2, <1>3, <1>4, <1>5, <1>6, <1>7, <1>8, <1>9

LEMMA SetupParts ==
  ASSUME IInv, Setup
  PROVE  Parts'
<1>1. depth > 0 /\ fd \in Descriptor /\ call.at = "loop"
  BY Below DEF Setup, At
<1>2. PICK f \in Descriptor : f = fd
  BY <1>1
<1>3. PICK n : n = contents[f][pos[f] + 1]
  OBVIOUS
<1>4. n \in Name /\ pos[f] < Len(contents[f])
  <2>1. contents[f] \in Seq(Name) /\ pos[f] + 1 \in 1 .. Len(contents[f])
    BY <1>2 DEF IInv, TypeOK, Setup
  <2> QED
    BY <1>2, <1>3, <2>1, ElementOfSeq DEF Setup
<1>5. PICK c : c = [call EXCEPT !.at = "stat", !.name = n]
  OBVIOUS
<1>6. c \in Frame /\ c.fd = fd /\ c.at = "stat" /\ c.name = n
  BY <1>1, <1>4, <1>5, Frames DEF IInv
<1>7. GoOn(c)
  BY <1>2, <1>3, <1>5 DEF Setup
<1>8. UNCHANGED <<present, node, dirdata, contents, pos, crashed, told, twice, stayed,
                  known, ended>>
  BY DEF Setup, copy
<1>9. cwd' = node[f] /\ SameBut(f) /\ CwdKept /\ Sticky
  BY <1>1, <1>2, <1>8, Arrived DEF Setup, SameBut
<1>10. dirdata[f]
  BY <1>1, <1>2, Top DEF IInv, NoCopy, Started, call, fd
<1>11. CallOK(c)'
  BY <1>2, <1>3, <1>4, <1>6, <1>8, <1>9, <1>10 DEF CallOK
<1>12. ASSUME ~excused[f], ReaderOK(f), Copying(f)' <=> c.at \in {"enumerate", "opendir"},
              Copying(f) <=> call.at \in {"enumerate", "opendir"}
       PROVE  ReaderOK(f)'
  <2>1. Left(f)' = Left(f) /\ Passed(f)' = Passed(f) /\ (Copying(f)' <=> Copying(f))
    BY <1>1, <1>6, <1>8, <1>12 DEF Left, Passed
  <2> QED
    BY <1>8, <1>12, <2>1 DEF ReaderOK
<1> QED
  BY <1>1, <1>2, <1>6, <1>7, <1>8, <1>9, <1>10, <1>11, <1>12, GoOnAll

LEMMA SetupFailsParts ==
  ASSUME IInv, SetupFails
  PROVE  Parts'
<1>1. depth > 0 /\ fd \in Descriptor /\ call.at = "loop" /\ call \in Frame
  BY Below, Top DEF IInv, SetupFails, At
<1>2. PICK f \in Descriptor : f = fd
  BY <1>1
<1>3. PICK c : c = call
  OBVIOUS
<1>4. c \in Frame /\ c.fd = fd
  BY <1>1, <1>3 DEF fd
<1>5. /\ UNCHANGED <<present, cwd, node, dirdata, contents, calls, crashed, told, twice,
                     stayed, known, ended>>
      /\ excused'[f] /\ Sticky
      /\ \A g \in Descriptor \ {f} : pos'[g] = pos[g]
  BY <1>2 DEF SetupFails, Excuse, Advanced, IInv, TypeOK, Sticky
<1>6. GoOn(c)
  BY <1>1, <1>3, <1>5, Top DEF IInv, TypeOK, GoOn, call
<1>7. SameBut(f) /\ CwdKept
  BY <1>5 DEF SameBut, CwdKept
<1>8. dirdata[f]
  BY <1>1, <1>2, Top DEF IInv, NoCopy, Started, call, fd
<1>9. CallOK(c)'
  BY <1>2, <1>4, <1>5 DEF CallOK
<1> QED
  BY <1>1, <1>2, <1>4, <1>5, <1>6, <1>7, <1>8, <1>9, GoOnAll

LEMMA OverrunParts ==
  ASSUME IInv, Overrun
  PROVE  Parts'
<1>1. depth > 0 /\ fd \in Descriptor
  BY Below DEF Overrun, At
<1>2. UNCHANGED <<present, cwd, node, dirdata, contents, pos, calls, told, twice, stayed,
                  known, ended, excused>>
  BY DEF Overrun, copy, history
<1>3. NoCopy' /\ OneReader' /\ CallsOK'
  BY <1>2 DEF IInv, NoCopy, Reads, Started, OneReader, CallsOK, CallOK, depth
<1>4. ReadersOK'
  <2> SUFFICES ASSUME NEW g \in Descriptor PROVE ReaderOK(g)'
    BY DEF ReadersOK
  <2>1. ReaderOK(g) /\ Copying(g)' = Copying(g) /\ Left(g)' = Left(g) /\ Passed(g)' = Passed(g)
    BY <1>2 DEF IInv, ReadersOK, Copying, Left, Passed, depth
  <2> QED
    BY <1>2, <2>1 DEF ReaderOK
<1>5. excused[fd]
  <2>1. node[fd] # Closed /\ ReaderOK(fd)
    BY <1>1, Below DEF IInv, NoCopy, ReadersOK
  <2>2. pos[fd] > Len(contents[fd]) /\ pos[fd] \in Nat /\ Len(contents[fd]) \in Nat
    BY <1>1 DEF Overrun, IInv, TypeOK
  <2> QED
    BY <2>1, <2>2 DEF ReaderOK
<1>6. CrashExcused'
  BY <1>1, <1>2, <1>5 DEF CrashExcused
<1> QED
  BY <1>3, <1>4, <1>6 DEF Parts

LEMMA OpenDirFailsParts ==
  ASSUME IInv, OpenDirFails
  PROVE  Parts'
<1>1. depth > 0 /\ fd \in Descriptor
  BY Below DEF OpenDirFails, At
<1>2. UNCHANGED <<present, cwd, node, dirdata, contents, pos, calls, told, twice, stayed,
                  known, ended>>
  BY DEF OpenDirFails, copy
<1>3. excused'[fd] /\ \A g \in Descriptor : excused[g] => excused'[g]
  BY <1>1 DEF OpenDirFails, Excuse, IInv, TypeOK
<1>4. NoCopy' /\ OneReader' /\ CallsOK'
  <2>1. NoCopy'
    BY <1>2 DEF IInv, NoCopy, Reads, Started, depth
  <2>2. \A i \in 1 .. depth : calls[i].fd \in Descriptor
    BY FramesTyped DEF IInv
  <2>3. OneReader'
    BY <1>2, <1>3, <2>2 DEF IInv, OneReader, depth
  <2>4. CallsOK'
    <3> SUFFICES ASSUME NEW i \in 1 .. depth, ~excused[calls[i].fd] PROVE CallOK(calls[i])'
      BY <1>2, <1>3, <2>2 DEF CallsOK, CallOK, depth
    <3> QED
      BY <1>2 DEF IInv, CallsOK, CallOK
  <2> QED
    BY <2>1, <2>3, <2>4
<1>5. ReadersOK'
  <2> SUFFICES ASSUME NEW g \in Descriptor PROVE ReaderOK(g)'
    BY DEF ReadersOK
  <2>1. ReaderOK(g) /\ Copying(g)' = Copying(g) /\ Left(g)' = Left(g) /\ Passed(g)' = Passed(g)
    BY <1>2 DEF IInv, ReadersOK, Copying, Left, Passed, depth
  <2> QED
    BY <1>2, <1>3, <2>1 DEF ReaderOK
<1>6. CrashExcused'
  BY <1>1, <1>3 DEF CrashExcused
<1> QED
  BY <1>4, <1>5, <1>6 DEF Parts

LEMMA ReportParts ==
  ASSUME IInv, Report
  PROVE  Parts'
<1>1. depth > 0 /\ fd \in Descriptor /\ call \in Frame /\ call.at = "stat"
  BY Below, Top DEF IInv, Report, At
<1>2. PICK f \in Descriptor : f = fd
  BY <1>1
<1>3. PICK c : c = [call EXCEPT !.at = "loop", !.wrote = TRUE,
                                !.room = call.room - Size[call.name]]
  OBVIOUS
<1>4. c \in Frame /\ c.fd = fd /\ c.at = "loop"
  <2>1. call.name \in Name
    BY DEF Report, IInv, TypeOK
  <2>2. call.room - Size[call.name] \in Nat
    BY <1>1, <2>1, ListingAssumption DEF Report, Fits, Frame
  <2> QED
    BY <1>1, <1>3, <2>2 DEF Frame, fd
<1>5. GoOn(c)
  BY <1>3 DEF Report
<1>6. /\ UNCHANGED <<present, cwd, node, dirdata, contents, crashed, stayed, known, ended,
                     excused>>
      /\ told'[f] = told[f] \cup {call.name}
      /\ twice'[f] <=> twice[f] \/ call.name \in told[f]
      /\ pos'[f] = pos[f] + 1
      /\ \A g \in Descriptor \ {f} :
           told'[g] = told[g] /\ twice'[g] = twice[g] /\ pos'[g] = pos[g]
  BY <1>2 DEF Report, Advanced, IInv, TypeOK
<1>7. SameBut(f) /\ CwdKept /\ Sticky
  BY <1>6 DEF SameBut, CwdKept, Sticky
<1>8. dirdata[f] /\ CallOK(call) /\ call.fd = f
  BY <1>1, <1>2, Top DEF IInv, CallsOK, NoCopy, Started, call, fd
<1>9. CallOK(c)'
  BY <1>2, <1>4, <1>6, <1>8 DEF CallOK
<1>10. ASSUME node[f] # Closed, ~excused[f], ReaderOK(f),
              Copying(f)' <=> c.at \in {"enumerate", "opendir"},
              Copying(f) <=> call.at \in {"enumerate", "opendir"}
       PROVE  ReaderOK(f)'
  <2>1. pos[f] < Len(contents[f]) /\ call.name = contents[f][pos[f] + 1] /\ ~Copying(f)
    BY <1>1, <1>8, <1>10 DEF CallOK
  <2>2. /\ pos'[f] <= Len(contents'[f])
        /\ Left(f) \subseteq Left(f)' \cup {call.name}
        /\ Passed(f) \cup {call.name} \subseteq Passed(f)'
    BY <1>6, <2>1, OneMore
  <2>3. call.name \notin Passed(f)
    <3> SUFFICES ASSUME NEW i \in 1 .. pos[f], contents[f][i] = contents[f][pos[f] + 1]
                 PROVE  FALSE
      BY <2>1 DEF Passed
    <3>1. pos[f] \in Nat /\ Len(contents[f]) \in Nat
      BY DEF IInv, TypeOK
    <3>2. i \in 1 .. Len(contents[f]) /\ pos[f] + 1 \in 1 .. Len(contents[f]) /\ i # pos[f] + 1
      BY <2>1, <3>1
    <3> QED
      BY <1>10, <3>2 DEF ReaderOK
  <2>4. told[f] \subseteq Passed(f) /\ ~twice[f] /\ stayed[f] \subseteq told[f] \cup Left(f)
    BY <1>8, <1>10, <2>1 DEF ReaderOK
  <2>5. ~twice'[f]
    BY <1>6, <2>3, <2>4
  <2>6. told'[f] \subseteq Passed(f)' /\ stayed'[f] \subseteq told'[f] \cup Left(f)'
    BY <1>6, <2>2, <2>4
  <2> QED
    BY <1>6, <1>8, <1>10, <2>2, <2>5, <2>6 DEF ReaderOK
<1> QED
  BY <1>1, <1>2, <1>4, <1>5, <1>6, <1>7, <1>8, <1>9, <1>10, GoOnAll

LEMMA SkipParts ==
  ASSUME IInv, Skip
  PROVE  Parts'
<1>1. depth > 0 /\ fd \in Descriptor /\ call.at = "stat"
  BY Below DEF Skip, At
<1>2. PICK f \in Descriptor : f = fd
  BY <1>1
<1>3. PICK c : c = [call EXCEPT !.at = "loop"]
  OBVIOUS
<1>4. c \in Frame /\ c.fd = fd /\ c.at = "loop"
  BY <1>1, <1>3, Frames DEF IInv
<1>5. GoOn(c)
  BY <1>3 DEF Skip, GoTo
<1>6. /\ UNCHANGED <<present, cwd, node, dirdata, contents, crashed, told, twice, stayed,
                     known, ended, excused>>
      /\ pos'[f] = pos[f] + 1
      /\ \A g \in Descriptor \ {f} : pos'[g] = pos[g]
  BY <1>2 DEF Skip, Advanced, IInv, TypeOK, history
<1>7. SameBut(f) /\ CwdKept /\ Sticky
  BY <1>6 DEF SameBut, CwdKept, Sticky
<1>8. dirdata[f] /\ CallOK(call) /\ call.fd = f
  BY <1>1, <1>2, Top DEF IInv, CallsOK, NoCopy, Started, call, fd
<1>9. CallOK(c)'
  BY <1>2, <1>4, <1>6, <1>8 DEF CallOK
<1>10. ASSUME node[f] # Closed, ~excused[f], ReaderOK(f),
              Copying(f)' <=> c.at \in {"enumerate", "opendir"},
              Copying(f) <=> call.at \in {"enumerate", "opendir"}
       PROVE  ReaderOK(f)'
  <2>1. /\ pos[f] < Len(contents[f]) /\ call.name = contents[f][pos[f] + 1]
        /\ cwd = node[f] /\ ~Copying(f)
    BY <1>1, <1>8, <1>10 DEF CallOK
  <2>2. /\ pos'[f] <= Len(contents'[f])
        /\ Left(f) \subseteq Left(f)' \cup {call.name}
        /\ Passed(f) \cup {call.name} \subseteq Passed(f)'
    BY <1>6, <2>1, OneMore
  <2>3. stayed[f] \subseteq present[cwd] /\ call.name \notin present[cwd]
    BY <1>10, <2>1 DEF ReaderOK, Skip
  <2>4. told[f] \subseteq Passed(f) /\ stayed[f] \subseteq told[f] \cup Left(f)
    BY <1>8, <1>10, <2>1 DEF ReaderOK
  <2>5. told'[f] \subseteq Passed(f)' /\ stayed'[f] \subseteq told'[f] \cup Left(f)'
    BY <1>6, <2>2, <2>3, <2>4
  <2> QED
    BY <1>6, <1>8, <1>10, <2>2, <2>5 DEF ReaderOK
<1> QED
  BY <1>1, <1>2, <1>4, <1>5, <1>6, <1>7, <1>8, <1>9, <1>10, GoOnAll

-----------------------------------------------------------------------------
(* The theorems                                                            *)

LEMMA NextInvariant == IInv /\ [Next]_vars => IInv'
<1> SUFFICES ASSUME IInv, [Next]_vars PROVE IInv'
  OBVIOUS
<1>1. CASE Others
  <2>1. TypeOK'
    BY <1>1, OthersTypes DEF IInv
  <2>2. Parts'
    BY <1>1, PathCallParts, OpenDirectoryParts, CloseParts, ChangeParts DEF Others
  <2> QED
    BY <2>1, <2>2 DEF Parts, IInv
<1>2. ASSUME NEW f \in Descriptor, NEW room \in Rooms, Begin(f, room)
      PROVE  IInv'
  BY <1>2, BeginTypes, BeginParts DEF Parts, IInv
<1>3. CASE Step
  <2>1. TypeOK'
    BY <1>3, StepTypes DEF IInv
  <2>2. Parts'
    BY <1>3, GetDirDataParts, EnumerateParts, EnumerateFailsParts, ReadDirParts,
       NothingLeftParts, SetupParts, SetupFailsParts, OverrunParts, OpenDirFailsParts, ReportParts,
       BufferFullParts, SkipParts DEF Step
  <2> QED
    BY <2>1, <2>2 DEF Parts, IInv
<1>4. CASE UNCHANGED vars
  <2> USE <1>4 DEF vars, copy, history
  <2>1. TypeOK'
    BY DEF IInv, TypeOK
  <2>2. NoCopy' /\ OneReader' /\ CallsOK' /\ CrashExcused'
    BY DEF IInv, NoCopy, Reads, Started, OneReader, CallsOK, CallOK, CrashExcused, depth
  <2>3. ReadersOK'
    BY DEF IInv, ReadersOK, ReaderOK, Copying, Left, Passed, depth
  <2> QED
    BY <2>1, <2>2, <2>3 DEF IInv
<1> QED
  BY <1>1, <1>2, <1>3, <1>4 DEF Next

LEMMA Invariance == Spec => []IInv
BY InitInvariant, NextInvariant, PTL DEF Spec

\* Every variable keeps its type, however many calls are nested (FD.cc:179).
THEOREM TypeCorrect == Spec => []TypeOK
<1>1. IInv => TypeOK
  BY DEF IInv
<1> QED
  BY <1>1, Invariance, PTL

\* A reader that nothing excused gets every name that stayed exactly once, and no
\* name that was never there, for any number of directories, names, descriptors
\* and nested calls (FD.cc:212, 262; InterixVFSNode.cc:49, 114).
THEOREM ExactListing == Spec => []ListsExactly
<1>1. ASSUME IInv PROVE ListsExactly
  <2> SUFFICES ASSUME NEW f \in Descriptor, node[f] # Closed, ~excused[f]
               PROVE  /\ ~twice[f]
                      /\ told[f] \subseteq known[f]
                      /\ ended[f] => stayed[f] \subseteq told[f]
    BY DEF ListsExactly
  <2>1. ReaderOK(f)
    BY <1>1 DEF IInv, ReadersOK
  <2>2. pos[f] \in Nat /\ Len(contents[f]) \in Nat
    BY <1>1 DEF IInv, TypeOK
  <2>3. Passed(f) \subseteq known[f]
    BY <2>1, <2>2 DEF ReaderOK, Passed
  <2> QED
    BY <2>1, <2>3 DEF ReaderOK
<1> QED
  BY <1>1, Invariance, PTL

\* Nothing is read from beyond the end of a copy unless a handler, a refused chdir
\* or a small buffer excuses it (FD.cc:224, 274).
THEOREM InRange == Spec => []PositionInRange
<1>1. ASSUME IInv PROVE PositionInRange
  <2> SUFFICES ASSUME NEW f \in Descriptor, ~excused[f]
               PROVE  pos[f] <= Len(contents[f])
    BY <1>1 DEF PositionInRange, IInv, CrashExcused
  <2>1. CASE node[f] # Closed
    BY <1>1, <2>1 DEF IInv, ReadersOK, ReaderOK
  <2>2. CASE node[f] = Closed
    <3>1. pos[f] = 0 /\ contents[f] = << >>
      BY <1>1, <2>2 DEF IInv, NoCopy
    <3> QED
      BY <3>1
  <2> QED
    BY <2>1, <2>2
<1> QED
  BY <1>1, Invariance, PTL
=============================================================================
