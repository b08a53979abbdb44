---------------------------- MODULE FdTableProofs ----------------------------
(***************************************************************************)
(* For any number of descriptors and any nesting of handlers: the map of   *)
(* FD.cc never gives a descriptor another directory's node, and without    *)
(* handlers inside calls it is exact.                                      *)
(***************************************************************************)
EXTENDS FdTable, FiniteSetTheorems, TLAPS

(***************************************************************************)
(* The inductive invariant.                                                *)
(***************************************************************************)
InProgress == 1 .. level

NamesOne(f) == f.op \in {"use", "close", "dup"}
Opens(f) == f.op \in {"open", "pipe"}
Numbers(f) == {f.n} \cup IF f.op \in {"dup", "open", "pipe"} THEN {f.m} ELSE {}

\* What a call in progress may be doing, and the object it holds meanwhile: the
\* one of its number, unless another close has taken the number from it.
FrameOK(f) ==
  \/ NamesOne(f) /\ f.at = "new" /\ f.what = File
  \/ /\ NamesOne(f) /\ f.at \in {"set", "op", "unset"} /\ f.ref # NULL
     /\ f.at = "unset" => f.op = "close"
     /\ obj[f.ref].fd \in {f.n, -1}
     /\ f.at = "set" => obj[f.ref].node = NULL
  \/ f.op = "open" /\ f.at \in {"ctor", "op"} /\ f.m = f.n
  \/ f.op = "pipe" /\ f.at \in {"ctor", "second", "op"} /\ f.m \in Fd /\ f.what = File

FramesOK ==
  /\ \A i \in Level : i > level => frame[i] = NoFrame
  /\ \A i \in InProgress : FrameOK(frame[i])

\* The object in the map under a number is that number's, or a closed one.
MapOK == \A k \in Fd : fds[k] # NULL => obj[fds[k]].fd \in {k, -1}

\* The program does not know the numbers that are not open.
GivenOK == \A k \in Fd : kern[k] = Closed => given[k] = "no"

\* What a call is opening is open, and the program has not been told yet.
Untold(f) ==
  /\ kern[f.n] = f.what /\ kern[f.m] # Closed
  /\ given[f.n] = "no" /\ given[f.m] = "no"

\* It stays so, because the calls of handlers above it name other numbers.
FlightOK ==
  \A i \in InProgress : Opens(frame[i]) =>
    /\ Untold(frame[i])
    /\ \A j \in InProgress : j > i =>
         Numbers(frame[j]) \cap Numbers(frame[i]) = {}

\* Some call in progress is about to replace or remove the entry of k.
PendingBy(f, k) ==
  \/ f.at = "unset" /\ obj[f.ref].fd = k
  \/ f.at = "ctor" /\ k \in {f.n, f.m}
  \/ f.at = "second" /\ k = f.m
Pending(k) == \E i \in InProgress : PendingBy(frame[i], k)

\* A node is right, or its entry is about to go.
NodeOK(k) ==
  fds[k] # NULL /\ obj[fds[k]].node # NULL =>
    obj[fds[k]].node = kern[k] \/ Pending(k)
NodesOK == \A k \in Fd \ overlaid : NodeOK(k)

\* Without handlers: an object belongs to an open descriptor and names it, and a
\* directory the program opened has its node.
EntryExact(k) ==
  /\ fds[k] # NULL =>
       /\ obj[fds[k]].fd = k
       /\ IsOpen(k) \/ (level = 1 /\ frame[1].at = "unset" /\ frame[1].n = k)
  /\ given[k] = "opendir" /\ k \notin overlaid =>
       fds[k] # NULL /\ obj[fds[k]].node = kern[k]

\* The same of the call in progress.
FrameExact(f) ==
  /\ NamesOne(f) /\ f.ref # NULL => fds[f.n] = f.ref
  /\ NamesOne(f) /\ f.at = "new" => IsOpen(f.n) /\ fds[f.n] = NULL
  /\ f.at = "unset" => ~IsOpen(f.n)
  /\ f.op = "open" /\ f.at = "op" =>
       fds[f.n] # NULL /\ obj[fds[f.n]].node = NodeOf(f.what)

ExactOK ==
  ~interrupted =>
    /\ level <= 1
    /\ \A k \in Fd : EntryExact(k)
    /\ level = 1 => FrameExact(frame[1])

PhaseOK ==
  phase # "running" =>
    level = 0 /\ \A k \in Fd : fds[k] = NULL /\ given[k] # "opendir"

Good == FramesOK /\ MapOK /\ GivenOK /\ FlightOK /\ NodesOK /\ ExactOK /\ PhaseOK
IInv == TypeOK /\ Good

-----------------------------------------------------------------------------
(* Types                                                                   *)

LEMMA Bounds ==
  /\ FdCount \in Nat \ {0} /\ MaxDepth \in Nat \ {0}
  /\ Fd \subseteq Nat /\ Level \subseteq Nat /\ Object \subseteq Nat
  /\ -1 \notin Fd /\ NULL \notin Object /\ NULL \notin Dir /\ Closed \notin Kind
  /\ File \notin Dir /\ \A k \in Fd : k + 1 \in Object
BY BoundsAssumption, KindsAssumption DEF Fd, Level, Object, Kind

LEMMA TopTyped ==
  ASSUME TypeOK, level > 0
  PROVE  level \in Level /\ level \in InProgress /\ call \in Frame
<1>1. level \in Level /\ level \in InProgress
  BY Bounds DEF TypeOK, Level, InProgress
<1> QED
  BY <1>1 DEF TypeOK, call

LEMMA NoFrameTyped == NoFrame \in Frame
<1>1. 0 \in Fd
  BY BoundsAssumption DEF Fd
<1> QED
  BY <1>1 DEF NoFrame, Frame, Kind

LEMMA NodeTyped == \A what \in Kind : NodeOf(what) \in Dir \cup {NULL}
BY DEF NodeOf

\* What Settle leaves: the objects that are still referenced.
LEMMA Settled ==
  ASSUME NEW table, NEW objects, NEW frames, Settle(table, objects, frames),
         objects \in [Object -> FdObject]
  PROVE  /\ fds' = table /\ frame' = frames /\ obj' \in [Object -> FdObject]
         /\ \A k \in Fd : table[k] \in Object => obj'[table[k]] = objects[table[k]]
         /\ \A i \in Level : frames[i].ref \in Object =>
                               obj'[frames[i].ref] = objects[frames[i].ref]
<1>1. Deleted \in FdObject
  BY DEF Deleted, FdObject
<1> QED
  BY <1>1 DEF Settle, Referenced

LEMMA Constructed ==
  ASSUME TypeOK, level > 0, NEW k \in Fd,
         NEW step \in {"set", "op", "second"}, Construct(k, step)
  PROVE  \E o \in Object :
           /\ fds' = [fds EXCEPT ![k] = o]
           /\ frame' = [frame EXCEPT ![level] = [call EXCEPT !.at = step, !.ref = o]]
           /\ frame' \in [Level -> Frame]
           /\ level' = level
           /\ obj' \in [Object -> FdObject]
           /\ obj'[o] = [fd |-> k, node |-> NodeOf(call.what)]
           /\ \A l \in Fd : fds[l] # NULL => /\ fds[l] # o
                                             /\ l # k => obj'[fds[l]] = obj[fds[l]]
           /\ \A i \in Level \ {level} :
                frame[i].ref # NULL => /\ frame[i].ref # o
                                       /\ obj'[frame[i].ref] = obj[frame[i].ref]
<1>1. PICK o \in FreshObject(k) :
        Proceed([fds EXCEPT ![k] = o],
                [obj EXCEPT ![o] = [fd |-> k, node |-> NodeOf(call.what)]],
                [call EXCEPT !.at = step, !.ref = o])
  BY DEF Construct
<1>2. o \in Object /\ o \notin Referenced(fds, frame)
  BY <1>1, Bounds DEF FreshObject
<1>3. level \in Level /\ call \in Frame
  BY TopTyped
<1> DEFINE c == [call EXCEPT !.at = step, !.ref = o]
           table == [fds EXCEPT ![k] = o]
           objects == [obj EXCEPT ![o] = [fd |-> k, node |-> NodeOf(call.what)]]
           frames == [frame EXCEPT ![level] = c]
<1>4. call.what \in Kind /\ c \in Frame /\ c.ref = o
  BY <1>2, <1>3 DEF Frame
<1>5. [fd |-> k, node |-> NodeOf(call.what)] \in FdObject
  BY <1>4, NodeTyped DEF FdObject
<1>6. objects \in [Object -> FdObject]
  BY <1>2, <1>5 DEF TypeOK
<1>7. frames \in [Level -> Frame]
  BY <1>3, <1>4 DEF TypeOK
<1>8. Settle(table, objects, frames) /\ level' = level
  BY <1>1 DEF Proceed
<1>9. /\ \A l \in Fd : fds[l] # NULL => fds[l] \in Object /\ fds[l] # o
      /\ \A i \in Level : frame[i].ref # NULL => frame[i].ref \in Object /\ frame[i].ref # o
  BY <1>2 DEF TypeOK, Referenced, Frame
<1>10. table[k] = o /\ \A l \in Fd \ {k} : table[l] = fds[l]
  BY DEF TypeOK
<1>11. \A i \in Level \ {level} : frames[i] = frame[i]
  BY DEF TypeOK
<1>12. objects[o] = [fd |-> k, node |-> NodeOf(call.what)]
       /\ \A p \in Object \ {o} : objects[p] = obj[p]
  BY <1>2 DEF TypeOK
<1> HIDE DEF table, objects, frames
<1>13. /\ fds' = table /\ frame' = frames /\ obj' \in [Object -> FdObject]
       /\ \A l \in Fd : table[l] \in Object => obj'[table[l]] = objects[table[l]]
       /\ \A i \in Level : frames[i].ref \in Object =>
                             obj'[frames[i].ref] = objects[frames[i].ref]
  BY <1>6, <1>8, Settled
<1>14. obj'[o] = [fd |-> k, node |-> NodeOf(call.what)]
  BY <1>2, <1>10, <1>12, <1>13
<1>15. \A l \in Fd : fds[l] # NULL => fds[l] # o /\ (l # k => obj'[fds[l]] = obj[fds[l]])
  BY <1>9, <1>10, <1>12, <1>13
<1>16. \A i \in Level \ {level} :
         frame[i].ref # NULL => frame[i].ref # o /\ obj'[frame[i].ref] = obj[frame[i].ref]
  BY <1>9, <1>11, <1>12, <1>13
<1>17. fds' = [fds EXCEPT ![k] = o] /\ frame' = [frame EXCEPT ![level] = c]
  BY <1>13 DEF table, frames
<1>18. frame' \in [Level -> Frame]
  BY <1>7, <1>13
<1> QED
  BY <1>2, <1>8, <1>13, <1>14, <1>15, <1>16, <1>17, <1>18


-----------------------------------------------------------------------------
(* What the steps of calls leave alone                                     *)

\* A frame and the object it holds.
Still(i) ==
  /\ frame'[i] = frame[i]
  /\ frame[i].ref # NULL => obj'[frame[i].ref] = obj[frame[i].ref]

LEMMA Entered ==
  ASSUME TypeOK, NEW f \in Frame, Enter(f)
  PROVE  /\ phase = "running" /\ level < MaxDepth /\ level' = level + 1
         /\ level + 1 \in Level /\ level' \in 0 .. MaxDepth
         /\ interrupted' = (interrupted \/ level > 0)
         /\ fds' = fds /\ obj' \in [Object -> FdObject] /\ frame' \in [Level -> Frame]
         /\ frame'[level + 1] = f
         /\ \A i \in Level \ {level + 1} : Still(i)
         /\ \A k \in Fd : fds[k] # NULL => obj'[fds[k]] = obj[fds[k]]
         /\ f.ref # NULL => obj'[f.ref] = obj[f.ref]
<1>1. /\ phase = "running" /\ level < MaxDepth /\ level' = level + 1
      /\ interrupted' = (interrupted \/ level > 0)
      /\ Settle(fds, obj, [frame EXCEPT ![level + 1] = f])
  BY DEF Enter
<1>2. level + 1 \in Level /\ level' \in 0 .. MaxDepth
  BY <1>1, Bounds DEF TypeOK, Level
<1> DEFINE frames == [frame EXCEPT ![level + 1] = f]
<1>3. frames \in [Level -> Frame] /\ frames[level + 1] = f
      /\ \A i \in Level \ {level + 1} : frames[i] = frame[i]
  BY <1>2 DEF TypeOK
<1>4. /\ \A k \in Fd : fds[k] # NULL => fds[k] \in Object
      /\ \A i \in Level : frames[i].ref # NULL => frames[i].ref \in Object
      /\ obj \in [Object -> FdObject]
  BY <1>3 DEF TypeOK, Frame
<1> HIDE DEF frames
<1>5. /\ fds' = fds /\ frame' = frames /\ obj' \in [Object -> FdObject]
      /\ \A k \in Fd : fds[k] \in Object => obj'[fds[k]] = obj[fds[k]]
      /\ \A i \in Level : frames[i].ref \in Object => obj'[frames[i].ref] = obj[frames[i].ref]
  BY <1>1, <1>4, Settled DEF frames
<1> QED
  BY <1>1, <1>2, <1>3, <1>4, <1>5 DEF Still

LEMMA Proceeded ==
  ASSUME TypeOK, level > 0, NEW f \in Frame, NEW table \in [Fd -> Object \cup {NULL}],
         Proceed(table, obj, f)
  PROVE  /\ level' = level /\ level \in Level
         /\ fds' = table /\ obj' \in [Object -> FdObject] /\ frame' \in [Level -> Frame]
         /\ frame'[level] = f
         /\ \A i \in Level \ {level} : Still(i)
         /\ \A k \in Fd : table[k] # NULL => obj'[table[k]] = obj[table[k]]
         /\ f.ref # NULL => obj'[f.ref] = obj[f.ref]
<1>1. level' = level /\ Settle(table, obj, [frame EXCEPT ![level] = f])
  BY DEF Proceed
<1>2. level \in Level
  BY TopTyped
<1> DEFINE frames == [frame EXCEPT ![level] = f]
<1>3. frames \in [Level -> Frame] /\ frames[level] = f
      /\ \A i \in Level \ {level} : frames[i] = frame[i]
  BY <1>2 DEF TypeOK
<1>4. /\ \A k \in Fd : table[k] # NULL => table[k] \in Object
      /\ \A i \in Level : frames[i].ref # NULL => frames[i].ref \in Object
      /\ obj \in [Object -> FdObject]
  BY <1>3 DEF TypeOK, Frame
<1> HIDE DEF frames
<1>5. /\ fds' = table /\ frame' = frames /\ obj' \in [Object -> FdObject]
      /\ \A k \in Fd : table[k] \in Object => obj'[table[k]] = obj[table[k]]
      /\ \A i \in Level : frames[i].ref \in Object => obj'[frames[i].ref] = obj[frames[i].ref]
  BY <1>1, <1>4, Settled DEF frames
<1> QED
  BY <1>1, <1>2, <1>3, <1>4, <1>5 DEF Still

LEMMA Returned ==
  ASSUME TypeOK, level > 0, NEW table \in [Fd -> Object \cup {NULL}],
         NEW objects \in [Object -> FdObject], Return(table, objects)
  PROVE  /\ level' = level - 1 /\ level \in Level /\ level' \in 0 .. MaxDepth
         /\ fds' = table /\ obj' \in [Object -> FdObject] /\ frame' \in [Level -> Frame]
         /\ frame'[level] = NoFrame
         /\ \A i \in Level \ {level} :
              /\ frame'[i] = frame[i]
              /\ frame[i].ref # NULL => obj'[frame[i].ref] = objects[frame[i].ref]
         /\ \A k \in Fd : table[k] # NULL => obj'[table[k]] = objects[table[k]]
<1>1. level' = level - 1 /\ Settle(table, objects, [frame EXCEPT ![level] = NoFrame])
  BY DEF Return
<1>2. level \in Level /\ level' \in 0 .. MaxDepth
  BY <1>1, TopTyped, Bounds DEF TypeOK
<1> DEFINE frames == [frame EXCEPT ![level] = NoFrame]
<1>3. frames \in [Level -> Frame] /\ frames[level] = NoFrame
      /\ \A i \in Level \ {level} : frames[i] = frame[i]
  BY <1>2, NoFrameTyped DEF TypeOK
<1>4. /\ \A k \in Fd : table[k] # NULL => table[k] \in Object
      /\ \A i \in Level : frames[i].ref # NULL => frames[i].ref \in Object
  BY <1>3 DEF Frame
<1> HIDE DEF frames
<1>5. /\ fds' = table /\ frame' = frames /\ obj' \in [Object -> FdObject]
      /\ \A k \in Fd : table[k] \in Object => obj'[table[k]] = objects[table[k]]
      /\ \A i \in Level : frames[i].ref \in Object => obj'[frames[i].ref] = objects[frames[i].ref]
  BY <1>1, <1>4, Settled DEF frames
<1> QED
  BY <1>1, <1>2, <1>3, <1>4, <1>5

\* Calls that leave the map alone: use, dup, and whatever was refused.
LEMMA ReturnedStill ==
  ASSUME TypeOK, level > 0, Return(fds, obj)
  PROVE  /\ level' = level - 1 /\ level \in Level /\ level' \in 0 .. MaxDepth
         /\ fds' = fds /\ obj' \in [Object -> FdObject] /\ frame' \in [Level -> Frame]
         /\ frame'[level] = NoFrame
         /\ \A i \in Level \ {level} : Still(i)
         /\ \A k \in Fd : fds[k] # NULL => obj'[fds[k]] = obj[fds[k]]
<1>1. fds \in [Fd -> Object \cup {NULL}] /\ obj \in [Object -> FdObject]
  BY DEF TypeOK
<1> QED
  BY <1>1, Returned DEF Still

LEMMA StillOK ==
  ASSUME NEW i \in Level, Still(i), FrameOK(frame[i])
  PROVE  FrameOK(frame[i])'
BY DEF Still, FrameOK, NamesOne

LEMMA StillPending ==
  ASSUME NEW i \in Level, Still(i), FrameOK(frame[i]), NEW k \in Fd, PendingBy(frame[i], k)
  PROVE  PendingBy(frame[i], k)'
BY DEF Still, FrameOK, PendingBy

LEMMA StillUntold ==
  ASSUME NEW i \in Level, Still(i), frame[i] \in Frame, Untold(frame[i]),
         \A k \in Numbers(frame[i]) : kern'[k] = kern[k] /\ given'[k] = given[k],
         Opens(frame[i])
  PROVE  Untold(frame[i])'
BY DEF Still, Untold, Numbers, Opens


-----------------------------------------------------------------------------
(* A step of the call at level t, or of one that starts or ends there: the *)
(* calls below are as they were.                                           *)

StepAt(t) ==
  /\ level \in {t - 1, t} /\ level' \in {t - 1, t}
  /\ frame' \in [Level -> Frame]
  /\ \A i \in Level \ {t} : Still(i)

\* Nothing happens to the numbers that calls below t are opening.
NumbersKept(t) ==
  \A i \in 1 .. t - 1 : Opens(frame[i]) =>
    \A k \in Numbers(frame[i]) : kern'[k] = kern[k] /\ given'[k] = given[k]

LEMMA Lower ==
  ASSUME NEW t \in Level, level \in {t - 1, t}, level' \in {t - 1, t}
  PROVE  /\ t \in Nat /\ t > 0 /\ level \in Nat /\ level' \in Nat
         /\ 1 .. t - 1 \subseteq Level /\ t \notin 1 .. t - 1
         /\ 1 .. t - 1 \subseteq InProgress /\ 1 .. t - 1 \subseteq InProgress'
         /\ InProgress' = IF level' = t THEN 1 .. t - 1 \cup {t} ELSE 1 .. t - 1
         /\ InProgress = IF level = t THEN 1 .. t - 1 \cup {t} ELSE 1 .. t - 1
<1>1. t \in Nat /\ t > 0 /\ t <= MaxDepth /\ MaxDepth \in Nat
  BY Bounds DEF Level
<1>2. 1 .. t = 1 .. t - 1 \cup {t} /\ t \notin 1 .. t - 1 /\ 1 .. t - 1 \subseteq Level
  BY <1>1 DEF Level
<1>3. level \in Nat /\ level' \in Nat
  BY <1>1
<1>4. InProgress = IF level = t THEN 1 .. t - 1 \cup {t} ELSE 1 .. t - 1
  BY <1>1, <1>2 DEF InProgress
<1>5. InProgress' = IF level' = t THEN 1 .. t - 1 \cup {t} ELSE 1 .. t - 1
  BY <1>1, <1>2 DEF InProgress
<1> HIDE DEF InProgress
<1> QED
  BY <1>1, <1>2, <1>3, <1>4, <1>5

LEMMA FramesStep ==
  ASSUME IInv, NEW t \in Level, StepAt(t),
         level' = t => FrameOK(frame[t])',
         level' = t - 1 => frame'[t] = NoFrame
  PROVE  FramesOK'
<1>1. ASSUME NEW i \in Level, i > level' PROVE frame'[i] = NoFrame
  <2>1. CASE i = t
    BY <1>1, <2>1, Bounds DEF StepAt
  <2>2. CASE i # t
    <3>1. i > level /\ frame[i] = NoFrame
      BY <1>1, <2>2, Bounds DEF StepAt, IInv, Good, FramesOK
    <3> QED
      BY <2>2, <3>1 DEF StepAt, Still
  <2> QED
    BY <2>1, <2>2
<1>2. ASSUME NEW i \in InProgress' PROVE FrameOK(frame[i])'
  <2>1. CASE i = t
    BY <1>2, <2>1, Lower DEF StepAt
  <2>2. CASE i # t
    <3>1. i \in InProgress /\ i \in Level
      BY <1>2, <2>2, Lower DEF StepAt
    <3> QED
      BY <2>2, <3>1, StillOK DEF StepAt, IInv, Good, FramesOK
  <2> QED
    BY <2>1, <2>2
<1> QED
  BY <1>1, <1>2 DEF FramesOK

LEMMA PendingStep ==
  ASSUME IInv, NEW t \in Level, StepAt(t), NEW k \in Fd, Pending(k),
         level = t => ~PendingBy(frame[t], k)
  PROVE  Pending(k)'
<1>1. PICK i \in InProgress : PendingBy(frame[i], k)
  BY DEF Pending
<1>2. i # t
  BY <1>1, Lower DEF StepAt
<1>3. i \in Level /\ i \in InProgress'
  BY <1>2, Lower DEF StepAt
<1>4. FrameOK(frame[i]) /\ Still(i)
  BY <1>1, <1>2, <1>3 DEF StepAt, IInv, Good, FramesOK
<1> QED
  BY <1>1, <1>3, <1>4, StillPending DEF Pending

LEMMA FlightStep ==
  ASSUME IInv, NEW t \in Level, StepAt(t), NumbersKept(t),
         level' = t => /\ Opens(frame[t])' => Untold(frame[t])'
                       /\ \A i \in 1 .. t - 1 : Opens(frame[i]) =>
                            Numbers(frame'[t]) \cap Numbers(frame[i]) = {}
  PROVE  FlightOK'
<1> SUFFICES ASSUME NEW i \in InProgress', Opens(frame[i])'
             PROVE  /\ Untold(frame[i])'
                    /\ \A j \in InProgress' : j > i =>
                         Numbers(frame'[j]) \cap Numbers(frame'[i]) = {}
  BY DEF FlightOK, Numbers
<1>1. CASE i = t
  <2>1. level' = t /\ Untold(frame[t])'
    BY <1>1, Lower DEF StepAt
  <2>2. \A j \in InProgress' : ~(j > i)
    BY <1>1, <2>1, Bounds DEF InProgress, Level
  <2> QED
    BY <1>1, <2>1, <2>2
<1>2. CASE i # t
  <2>1. i \in 1 .. t - 1 /\ i \in InProgress /\ i \in Level
    BY <1>2, Lower DEF StepAt
  <2>2. Still(i) /\ frame'[i] = frame[i] /\ frame[i] \in Frame
    BY <1>2, <2>1 DEF StepAt, Still, IInv, TypeOK
  <2>3. Opens(frame[i]) /\ Untold(frame[i])
    BY <2>1, <2>2 DEF Opens, IInv, Good, FlightOK
  <2>4. Untold(frame[i])'
    BY <2>1, <2>2, <2>3, StillUntold DEF NumbersKept
  <2>5. ASSUME NEW j \in InProgress', j > i
        PROVE  Numbers(frame'[j]) \cap Numbers(frame'[i]) = {}
    <3>1. CASE j = t
      BY <2>1, <2>2, <2>3, <2>5, <3>1, Lower DEF StepAt
    <3>2. CASE j # t
      <4>1. j \in InProgress /\ j \in Level /\ frame'[j] = frame[j]
        BY <2>5, <3>2, Lower DEF StepAt, Still
      <4> QED
        BY <2>1, <2>2, <2>3, <2>5, <4>1 DEF IInv, Good, FlightOK
    <3> QED
      BY <3>1, <3>2
  <2> QED
    BY <2>4, <2>5
<1> QED
  BY <1>1, <1>2

\* A step that changes nothing in Interix's table, and one that leaves the map too.
LEMMA MapKept ==
  ASSUME IInv, fds' = fds, \A k \in Fd : fds[k] # NULL => obj'[fds[k]] = obj[fds[k]]
  PROVE  MapOK'
BY DEF IInv, Good, MapOK

LEMMA NodesKept ==
  ASSUME IInv, NEW t \in Level, StepAt(t), kern' = kern, overlaid' = overlaid, fds' = fds,
         \A k \in Fd : fds[k] # NULL => obj'[fds[k]] = obj[fds[k]],
         \A k \in Fd : level = t /\ PendingBy(frame[t], k) => Pending(k)'
  PROVE  NodesOK'
<1> SUFFICES ASSUME NEW k \in Fd \ overlaid PROVE NodeOK(k)'
  BY DEF NodesOK
<1>1. NodeOK(k)
  BY DEF IInv, Good, NodesOK
<1>2. Pending(k) => Pending(k)'
  BY PendingStep
<1> QED
  BY <1>1, <1>2 DEF NodeOK


-----------------------------------------------------------------------------
(* Calls that name a descriptor                                            *)

\* Where a call starts.
LEMMA NewLevel ==
  ASSUME IInv, NEW f \in Frame, Enter(f)
  PROVE  /\ level + 1 \in Level /\ StepAt(level + 1) /\ level' = level + 1
         /\ level + 1 # level /\ level \in Nat /\ 1 .. level + 1 - 1 = InProgress
<1>1. TypeOK
  BY DEF IInv
<1>2. level \in Nat
  BY <1>1, Bounds DEF TypeOK
<1> QED
  BY <1>1, <1>2, Entered DEF StepAt, InProgress

LEMMA GetInvariant ==
  ASSUME IInv, NEW k \in Fd, NEW op \in {"use", "close", "dup"}, NEW m \in Fd \cup {-1},
         op = "dup" => m \notin InFlight, Get(op, k, m)
  PROVE  IInv'
<1>1. PICK f : f = [op |-> op, at |-> IF fds[k] # NULL THEN "op" ELSE "new",
                    n |-> k, m |-> m, what |-> File, ref |-> fds[k]]
  OBVIOUS
<1>2. f \in Frame
  BY <1>1 DEF Frame, IInv, TypeOK, Kind
<1>3. Enter(f) /\ UNCHANGED <<phase, kern, given, overlaid>>
  BY <1>1 DEF Get
<1>4. PICK t \in Level : t = level + 1
  BY <1>2, <1>3, NewLevel
<1>5. /\ StepAt(t) /\ level' = t /\ t # level /\ level \in Nat /\ 1 .. t - 1 = InProgress
      /\ frame'[t] = f /\ fds' = fds /\ frame' \in [Level -> Frame]
      /\ \A l \in Fd : fds[l] # NULL => obj'[fds[l]] = obj[fds[l]]
      /\ interrupted' = (interrupted \/ level > 0) /\ phase = "running"
      /\ obj' \in [Object -> FdObject] /\ level' \in 0 .. MaxDepth
  BY <1>2, <1>3, <1>4, NewLevel, Entered DEF IInv
<1>6. TypeOK'
  BY <1>3, <1>5 DEF IInv, TypeOK
<1>7. FrameOK(frame[t])'
  <2>1. FrameOK(f)'
    BY <1>1, <1>5 DEF FrameOK, NamesOne, IInv, Good, MapOK
  <2> QED
    BY <1>5, <2>1 DEF FrameOK, NamesOne
<1>8. FramesOK'
  BY <1>5, <1>7, FramesStep
<1>9. MapOK' /\ GivenOK' /\ PhaseOK'
  BY <1>3, <1>5, MapKept DEF IInv, Good, GivenOK, PhaseOK
<1>10. FlightOK'
  <2>1. ~Opens(frame'[t])
    BY <1>1, <1>5 DEF Opens
  <2>2. ASSUME NEW i \in 1 .. t - 1, Opens(frame[i])
        PROVE  Numbers(f) \cap Numbers(frame[i]) = {}
    <3>1. i \in InProgress /\ i \in Level /\ frame[i] \in Frame
      BY <1>4, <1>5, <2>2, Lower DEF StepAt, IInv, TypeOK
    <3>2. given[frame[i].n] = "no" /\ given[frame[i].m] = "no" /\ FrameOK(frame[i])
      BY <2>2, <3>1 DEF IInv, Good, FlightOK, FramesOK, Untold
    <3>3. given[k] # "no"
      BY <1>5, <3>1, Bounds DEF Get, Nameable, InProgress
    <3>4. frame[i].n \in InFlight /\ frame[i].m \in InFlight
      BY <2>2, <3>1 DEF InFlight, Opens
    <3>5. Numbers(frame[i]) = {frame[i].n, frame[i].m}
      BY <2>2 DEF Numbers, Opens
    <3>6. Numbers(f) = IF op = "dup" THEN {k, m} ELSE {k}
      BY <1>1 DEF Numbers
    <3> QED
      BY <3>2, <3>3, <3>4, <3>5, <3>6
  <2>3. NumbersKept(t)
    BY <1>3 DEF NumbersKept
  <2> QED
    BY <1>5, <2>1, <2>2, <2>3, FlightStep DEF Opens
<1>11. NodesOK'
  BY <1>3, <1>5, NodesKept
<1>12. ExactOK'
  <2> SUFFICES ASSUME ~interrupted'
               PROVE  level' <= 1 /\ (\A l \in Fd : EntryExact(l)') /\ (level' = 1 => FrameExact(frame[1])')
    BY DEF ExactOK
  <2>1. level = 0 /\ t = 1 /\ ~interrupted
    <3>1. ~interrupted /\ ~(level > 0)
      BY <1>5, Zenon
    <3> QED
      BY <1>4, <1>5, <3>1
  <2>2. \A l \in Fd : EntryExact(l)
    BY <2>1 DEF IInv, Good, ExactOK
  <2>3. \A l \in Fd : EntryExact(l)'
    BY <1>3, <1>5, <2>1, <2>2 DEF EntryExact, IsOpen
  <2>4. FrameExact(f)'
    BY <1>1, <1>3, <1>5, <2>1, <2>2 DEF FrameExact, Get, IsOpen, EntryExact
  <2> QED
    BY <1>5, <2>1, <2>3, <2>4 DEF FrameExact
<1> QED
  BY <1>6, <1>8, <1>9, <1>10, <1>11, <1>12 DEF IInv, Good


-----------------------------------------------------------------------------
(* Calls that open something                                               *)

LEMMA OpensInvariant ==
  ASSUME IInv, NEW f \in Frame, Enter(f), f.at = "ctor", f.ref = NULL,
         (f.op = "open" /\ f.m = f.n) \/ (f.op = "pipe" /\ f.what = File),
         f.n \in Unused, f.m \in Unused,
         kern' = [l \in Fd |-> IF l \in {f.n, f.m} THEN f.what ELSE kern[l]],
         UNCHANGED <<phase, given, overlaid>>
  PROVE  IInv'
<1>1. PICK t \in Level : t = level + 1
  BY NewLevel
<1>2. /\ StepAt(t) /\ level' = t /\ t # level /\ level \in Nat /\ 1 .. t - 1 = InProgress
      /\ frame'[t] = f /\ fds' = fds /\ frame' \in [Level -> Frame]
      /\ \A l \in Fd : fds[l] # NULL => obj'[fds[l]] = obj[fds[l]]
      /\ interrupted' = (interrupted \/ level > 0) /\ phase = "running"
      /\ obj' \in [Object -> FdObject] /\ level' \in 0 .. MaxDepth
  BY <1>1, NewLevel, Entered DEF IInv
<1>3. /\ f.n \in Fd /\ f.m \in Fd /\ kern[f.n] = Closed /\ kern[f.m] = Closed
      /\ f.what \in Kind /\ f.what # Closed
  BY Bounds DEF Unused, Frame
<1>4. TypeOK'
  BY <1>2, <1>3 DEF IInv, TypeOK
<1>5. FrameOK(frame[t])'
  BY <1>2, <1>3 DEF FrameOK
<1>6. FramesOK'
  BY <1>2, <1>5, FramesStep
<1>7. MapOK' /\ GivenOK' /\ PhaseOK'
  BY <1>2, <1>3, MapKept DEF IInv, Good, GivenOK, PhaseOK
<1>8. given[f.n] = "no" /\ given[f.m] = "no"
  BY <1>3 DEF IInv, Good, GivenOK
<1>9. ASSUME NEW i \in 1 .. t - 1, Opens(frame[i])
      PROVE  /\ f.n \notin Numbers(frame[i]) /\ f.m \notin Numbers(frame[i])
             /\ Numbers(frame[i]) \subseteq Fd
  <2>1. i \in InProgress /\ i \in Level /\ frame[i] \in Frame
    BY <1>2, <1>9, Lower DEF StepAt, IInv, TypeOK
  <2>2. FrameOK(frame[i]) /\ Untold(frame[i])
    BY <1>9, <2>1 DEF IInv, Good, FlightOK, FramesOK
  <2>3. Numbers(frame[i]) = {frame[i].n, frame[i].m} /\ frame[i].n \in Fd /\ frame[i].m \in Fd
    BY <1>9, <2>1, <2>2 DEF Numbers, Opens, FrameOK, NamesOne, Frame
  <2>4. kern[frame[i].n] # Closed /\ kern[frame[i].m] # Closed
    BY <2>1, <2>2, Bounds DEF Untold, Frame
  <2> QED
    BY <1>3, <2>3, <2>4
<1>10. FlightOK'
  <2>1. Untold(f)'
    BY <1>3, <1>8 DEF Untold
  <2>2. Untold(frame[t])'
    BY <1>2, <2>1 DEF Untold
  <2>3. Numbers(f) = {f.n, f.m}
    BY DEF Numbers
  <2>4. NumbersKept(t)
    BY <1>9 DEF NumbersKept
  <2> QED
    BY <1>2, <1>9, <2>2, <2>3, <2>4, FlightStep
<1>11. NodesOK'
  <2> SUFFICES ASSUME NEW l \in Fd \ overlaid PROVE NodeOK(l)'
    BY DEF NodesOK
  <2>1. NodeOK(l)
    BY DEF IInv, Good, NodesOK
  <2>2. Pending(l) => Pending(l)'
    BY <1>2, PendingStep
  <2>3. l \in {f.n, f.m} => Pending(l)'
    <3>1. PendingBy(f, l)' <=> l \in {f.n, f.m}
      BY DEF PendingBy
    <3>2. PendingBy(frame[t], l)' <=> PendingBy(f, l)'
      BY <1>2 DEF PendingBy
    <3>3. t \in InProgress'
      BY <1>2, Lower DEF StepAt
    <3> QED
      BY <3>1, <3>2, <3>3 DEF Pending
  <2> QED
    BY <1>2, <2>1, <2>2, <2>3 DEF NodeOK
<1>12. ExactOK'
  <2> SUFFICES ASSUME ~interrupted'
               PROVE  level' <= 1 /\ (\A l \in Fd : EntryExact(l)') /\ (level' = 1 => FrameExact(frame[1])')
    BY DEF ExactOK
  <2>1. level = 0 /\ t = 1 /\ ~interrupted
    <3>1. ~interrupted /\ ~(level > 0)
      BY <1>2, Zenon
    <3> QED
      BY <1>1, <1>2, <3>1
  <2>2. \A l \in Fd : EntryExact(l)
    BY <2>1 DEF IInv, Good, ExactOK
  <2>3. \A l \in Fd : EntryExact(l)'
    BY <1>2, <1>3, <1>8, <2>1, <2>2 DEF EntryExact, IsOpen
  <2>4. FrameExact(f)'
    BY DEF FrameExact, NamesOne
  <2> QED
    BY <1>2, <2>1, <2>3, <2>4 DEF FrameExact
<1> QED
  BY <1>4, <1>6, <1>7, <1>10, <1>11, <1>12 DEF IInv, Good

LEMMA OpenKernelInvariant ==
  ASSUME IInv, NEW what \in Kind, OpenKernel(what)
  PROVE  IInv'
<1>1. PICK k \in Lowest(Unused) :
        /\ kern' = [kern EXCEPT ![k] = what]
        /\ Enter([op |-> "open", at |-> "ctor", n |-> k, m |-> k, what |-> what, ref |-> NULL])
  BY DEF OpenKernel
<1>2. PICK f : f = [op |-> "open", at |-> "ctor", n |-> k, m |-> k, what |-> what, ref |-> NULL]
  OBVIOUS
<1>3. k \in Unused /\ k \in Fd
  BY DEF Lowest, Unused
<1>4. f \in Frame
  BY <1>2, <1>3 DEF Frame
<1>5. kern' = [l \in Fd |-> IF l \in {f.n, f.m} THEN f.what ELSE kern[l]]
  BY <1>1, <1>2, <1>3 DEF IInv, TypeOK
<1> QED
  BY <1>1, <1>2, <1>3, <1>4, <1>5, OpensInvariant DEF OpenKernel

LEMMA PipeKernelInvariant ==
  ASSUME IInv, PipeKernel
  PROVE  IInv'
<1>1. PICK k \in Lowest(Unused) : \E l \in Lowest(Unused \ {k}) :
        /\ kern' = [kern EXCEPT ![k] = File, ![l] = File]
        /\ Enter([op |-> "pipe", at |-> "ctor", n |-> k, m |-> l, what |-> File, ref |-> NULL])
  BY DEF PipeKernel
<1>2. PICK l \in Lowest(Unused \ {k}) :
        /\ kern' = [kern EXCEPT ![k] = File, ![l] = File]
        /\ Enter([op |-> "pipe", at |-> "ctor", n |-> k, m |-> l, what |-> File, ref |-> NULL])
  BY <1>1
<1>3. PICK f : f = [op |-> "pipe", at |-> "ctor", n |-> k, m |-> l, what |-> File, ref |-> NULL]
  OBVIOUS
<1>4. k \in Unused /\ k \in Fd /\ l \in Unused /\ l \in Fd
  BY <1>1, <1>2 DEF Lowest, Unused
<1>5. f \in Frame
  BY <1>3, <1>4 DEF Frame, Kind
<1>6. kern' = [j \in Fd |-> IF j \in {f.n, f.m} THEN f.what ELSE kern[j]]
  BY <1>2, <1>3, <1>4 DEF IInv, TypeOK
<1> QED
  BY <1>2, <1>3, <1>4, <1>5, <1>6, OpensInvariant DEF PipeKernel


-----------------------------------------------------------------------------
(* Constructors                                                            *)

\* The call on top, as a constant.
LEMMA TopCall ==
  ASSUME IInv, level > 0
  PROVE  /\ level \in Level /\ level \in InProgress /\ call \in Frame /\ call = frame[level]
         /\ FrameOK(call)
         /\ Opens(call) => Untold(call)
         /\ phase = "running"
<1>1. level \in Level /\ level \in InProgress /\ call \in Frame /\ call = frame[level]
  BY TopTyped DEF IInv, call
<1>2. FrameOK(call) /\ (Opens(call) => Untold(call))
  BY <1>1 DEF IInv, Good, FramesOK, FlightOK
<1>3. phase = "running"
  BY DEF IInv, Good, PhaseOK
<1> QED
  BY <1>1, <1>2, <1>3

\* The four places where an object is made.
Makes(f, k, step) ==
  \/ NamesOne(f) /\ f.at = "new" /\ f.what = File /\ k = f.n /\ step = "set"
  \/ f.op = "open" /\ f.at = "ctor" /\ k = f.n /\ f.m = f.n /\ step = "op"
  \/ f.op = "pipe" /\ f.at = "ctor" /\ f.what = File /\ k = f.n /\ f.m \in Fd /\ step = "second"
  \/ f.op = "pipe" /\ f.at = "second" /\ f.what = File /\ k = f.m /\ step = "op"

LEMMA ConstructInvariant ==
  ASSUME IInv, level > 0, NEW k \in Fd, NEW step \in {"set", "op", "second"},
         Construct(k, step), Makes(call, k, step),
         UNCHANGED <<phase, kern, given, overlaid, interrupted>>
  PROVE  IInv'
<1>1. PICK t \in Level : t = level
  BY TopCall
<1>2. PICK c \in Frame : c = call
  BY TopCall
<1>3. PICK o \in Object :
        /\ fds' = [fds EXCEPT ![k] = o]
        /\ frame' = [frame EXCEPT ![level] = [call EXCEPT !.at = step, !.ref = o]]
        /\ frame' \in [Level -> Frame]
        /\ level' = level
        /\ obj' \in [Object -> FdObject]
        /\ obj'[o] = [fd |-> k, node |-> NodeOf(call.what)]
        /\ \A l \in Fd : fds[l] # NULL => /\ fds[l] # o
                                          /\ l # k => obj'[fds[l]] = obj[fds[l]]
        /\ \A i \in Level \ {level} :
             frame[i].ref # NULL => /\ frame[i].ref # o
                                    /\ obj'[frame[i].ref] = obj[frame[i].ref]
  BY Constructed DEF IInv
<1>4. PICK f : f = [c EXCEPT !.at = step, !.ref = o]
  OBVIOUS
<1>5. /\ f.op = c.op /\ f.n = c.n /\ f.m = c.m /\ f.what = c.what
      /\ f.at = step /\ f.ref = o /\ o # NULL
  BY <1>4, Bounds DEF Frame
<1>6. /\ Makes(c, k, step) /\ FrameOK(c) /\ (Opens(c) => Untold(c)) /\ phase = "running"
      /\ c = frame[t] /\ t \in InProgress
  BY <1>1, <1>2, TopCall
<1>7. /\ StepAt(t) /\ level' = t /\ level = t /\ frame'[t] = f
      /\ \A l \in Fd \ {k} : fds'[l] = fds[l]
      /\ \A l \in Fd \ {k} : fds[l] # NULL => obj'[fds[l]] = obj[fds[l]]
      /\ fds'[k] = o /\ obj'[o] = [fd |-> k, node |-> NodeOf(c.what)]
  <2>1. frame'[t] = f /\ \A i \in Level \ {t} : frame'[i] = frame[i]
    BY <1>1, <1>2, <1>3, <1>4 DEF IInv, TypeOK
  <2>2. StepAt(t)
    BY <1>1, <1>3, <2>1 DEF StepAt, Still
  <2>3. \A l \in Fd \ {k} : fds'[l] = fds[l]
    BY <1>3 DEF IInv, TypeOK
  <2>4. fds'[k] = o
    BY <1>3 DEF IInv, TypeOK
  <2> QED
    BY <1>1, <1>2, <1>3, <2>1, <2>2, <2>3, <2>4
<1>8. TypeOK'
  <2>1. fds' \in [Fd -> Object \cup {NULL}]
    BY <1>3 DEF IInv, TypeOK
  <2> QED
    BY <1>3, <2>1 DEF IInv, TypeOK
<1>9. \* A node comes from an open that is still in flight.
      NodeOf(c.what) = NULL \/ (c.what = kern[k] /\ NodeOf(c.what) = kern[k])
  BY <1>6, Bounds DEF Makes, NodeOf, Untold, Opens, NamesOne
<1>10. FrameOK(frame[t])'
  <2>1. FrameOK(f)'
    <3>1. CASE NamesOne(c)
      <4>1. step = "set" /\ k = c.n /\ NodeOf(c.what) = NULL
        BY <1>6, <3>1, Bounds DEF Makes, NamesOne, NodeOf
      <4>2. NamesOne(f) /\ obj'[f.ref].fd = f.n /\ obj'[f.ref].node = NULL
        BY <1>5, <1>7, <3>1, <4>1 DEF NamesOne
      <4> QED
        BY <1>5, <4>1, <4>2 DEF FrameOK, NamesOne
    <3>2. CASE ~NamesOne(c)
      BY <1>5, <1>6, <3>2 DEF Makes, FrameOK, NamesOne
    <3> QED
      BY <3>1, <3>2
  <2> QED
    BY <1>7, <2>1 DEF FrameOK, NamesOne
<1>11. FramesOK'
  BY <1>7, <1>10, FramesStep, Bounds
<1>12. MapOK'
  <2> SUFFICES ASSUME NEW l \in Fd, fds'[l] # NULL PROVE obj'[fds'[l]].fd \in {l, -1}
    BY DEF MapOK
  <2> QED
    BY <1>7 DEF IInv, Good, MapOK
<1>13. GivenOK' /\ PhaseOK'
  BY <1>6 DEF IInv, Good, GivenOK, PhaseOK
<1>14. FlightOK'
  <2>1. Opens(frame[t])' => Untold(frame[t])'
    BY <1>5, <1>6, <1>7 DEF Opens, Untold
  <2>2. Numbers(f) = Numbers(c)
    BY <1>5 DEF Numbers
  <2>3. ASSUME NEW i \in 1 .. t - 1, Opens(frame[i])
        PROVE  Numbers(f) \cap Numbers(frame[i]) = {}
    <3>1. i \in InProgress /\ t > i
      BY <1>7, Lower, Bounds DEF StepAt, Level
    <3> QED
      BY <1>6, <2>2, <2>3, <3>1 DEF IInv, Good, FlightOK
  <2>4. NumbersKept(t)
    BY DEF NumbersKept
  <2> QED
    BY <1>7, <2>1, <2>3, <2>4, FlightStep
<1>15. NodesOK'
  <2> SUFFICES ASSUME NEW l \in Fd \ overlaid PROVE NodeOK(l)'
    BY DEF NodesOK
  <2>1. CASE l = k
    BY <1>7, <1>9, <2>1 DEF NodeOK
  <2>2. CASE l # k
    <3>1. NodeOK(l)
      BY DEF IInv, Good, NodesOK
    <3>2. ASSUME PendingBy(c, l) PROVE Pending(l)'
      <4>1. c.op = "pipe" /\ c.at = "ctor" /\ l = c.m /\ step = "second"
        BY <1>6, <2>2, <3>2 DEF Makes, PendingBy
      <4>2. PendingBy(frame[t], l)'
        BY <1>5, <1>7, <4>1 DEF PendingBy
      <4>3. t \in InProgress'
        BY <1>7, Lower DEF StepAt
      <4> QED
        BY <4>2, <4>3 DEF Pending
    <3>3. Pending(l) => Pending(l)'
      <4>1. PendingBy(frame[t], l) => Pending(l)'
        BY <1>6, <3>2
      <4> QED
        BY <1>7, <4>1, PendingStep
    <3> QED
      BY <1>7, <2>2, <3>1, <3>3 DEF NodeOK
  <2> QED
    BY <2>1, <2>2
<1>16. ExactOK'
  <2> SUFFICES ASSUME ~interrupted
               PROVE  level' <= 1 /\ (\A l \in Fd : EntryExact(l)') /\ (level' = 1 => FrameExact(frame[1])')
    BY DEF ExactOK
  <2>1. level = 1 /\ t = 1 /\ (\A l \in Fd : EntryExact(l)) /\ FrameExact(c)
    <3>1. level <= 1 /\ (\A l \in Fd : EntryExact(l)) /\ (level = 1 => FrameExact(frame[1]))
      BY DEF IInv, Good, ExactOK
    <3>2. t = 1
      BY <1>1, <3>1, Bounds DEF Level
    <3> QED
      BY <1>1, <1>6, <3>1, <3>2
  <2>2. IsOpen(k) /\ (given[k] # "opendir" \/ k \in overlaid)
    <3>1. CASE NamesOne(c)
      BY <1>6, <2>1, <3>1 DEF Makes, FrameExact, EntryExact, NamesOne
    <3>2. CASE ~NamesOne(c)
      BY <1>6, <3>2, Bounds DEF Makes, Untold, Opens, IsOpen, Frame
    <3> QED
      BY <3>1, <3>2
  <2>3. \A l \in Fd : EntryExact(l)'
    <3> SUFFICES ASSUME NEW l \in Fd PROVE EntryExact(l)'
      OBVIOUS
    <3>1. CASE l = k
      BY <1>7, <2>2, <3>1 DEF EntryExact, IsOpen
    <3>2. CASE l # k
      <4>1. c.at # "unset"
        BY <1>6 DEF Makes
      <4> QED
        BY <1>6, <1>7, <2>1, <3>2, <4>1 DEF EntryExact, IsOpen
    <3> QED
      BY <3>1, <3>2
  <2>4. FrameExact(f)'
    BY <1>5, <1>6, <1>7 DEF FrameExact, NamesOne, Makes
  <2> QED
    BY <1>7, <2>1, <2>3, <2>4 DEF FrameExact
<1> QED
  BY <1>8, <1>11, <1>12, <1>13, <1>14, <1>15, <1>16 DEF IInv, Good

LEMMA MakersInvariant ==
  ASSUME IInv, NewFdo \/ OpenConstruct \/ PipeFirst \/ PipeSecond
  PROVE  IInv'
<1>1. level > 0
  BY DEF NewFdo, OpenConstruct, PipeFirst, PipeSecond, At
<1>2. call \in Frame /\ FrameOK(call)
  BY <1>1, TopCall
<1>3. CASE NewFdo
  <2>1. Makes(call, call.n, "set") /\ call.n \in Fd
    BY <1>2, <1>3 DEF NewFdo, FrameOK, Makes, Frame
  <2> QED
    BY <1>1, <1>3, <2>1, ConstructInvariant DEF NewFdo
<1>4. CASE OpenConstruct
  <2>1. Makes(call, call.n, "op") /\ call.n \in Fd
    BY <1>2, <1>4 DEF OpenConstruct, At, FrameOK, NamesOne, Makes, Frame
  <2> QED
    BY <1>1, <1>4, <2>1, ConstructInvariant DEF OpenConstruct
<1>5. CASE PipeFirst
  <2>1. Makes(call, call.n, "second") /\ call.n \in Fd
    BY <1>2, <1>5 DEF PipeFirst, At, FrameOK, NamesOne, Makes, Frame
  <2> QED
    BY <1>1, <1>5, <2>1, ConstructInvariant DEF PipeFirst
<1>6. CASE PipeSecond
  <2>1. Makes(call, call.m, "op") /\ call.m \in Fd
    BY <1>2, <1>6 DEF PipeSecond, At, FrameOK, NamesOne, Makes, Frame
  <2> QED
    BY <1>1, <1>6, <2>1, ConstructInvariant DEF PipeSecond
<1> QED
  BY <1>3, <1>4, <1>5, <1>6


LEMMA SetFdoInvariant ==
  ASSUME IInv, SetFdo
  PROVE  IInv'
<1>0. level > 0 /\ call.at = "set"
  BY DEF SetFdo
<1>1. PICK t \in Level : t = level
  BY <1>0, TopCall
<1>2. PICK c \in Frame : c = call
  BY <1>0, TopCall
<1>3. PICK f : f = [c EXCEPT !.at = "op"]
  OBVIOUS
<1>4. /\ f.op = c.op /\ f.n = c.n /\ f.m = c.m /\ f.what = c.what
      /\ f.at = "op" /\ f.ref = c.ref /\ f \in Frame
  BY <1>3 DEF Frame
<1>5. /\ FrameOK(c) /\ (Opens(c) => Untold(c)) /\ phase = "running"
      /\ c = frame[t] /\ t \in InProgress /\ c.at = "set"
  BY <1>0, <1>1, <1>2, TopCall
<1>6. /\ NamesOne(c) /\ c.ref # NULL /\ c.ref \in Object /\ c.n \in Fd
      /\ obj[c.ref].fd \in {c.n, -1} /\ obj[c.ref].node = NULL
  BY <1>5 DEF FrameOK, Frame
<1>7. PICK table : table = [fds EXCEPT ![c.n] = c.ref]
  OBVIOUS
<1>8. /\ table \in [Fd -> Object \cup {NULL}] /\ table[c.n] = c.ref
      /\ \A l \in Fd \ {c.n} : table[l] = fds[l]
  BY <1>6, <1>7 DEF IInv, TypeOK
<1>9. Proceed(table, obj, f) /\ UNCHANGED <<phase, kern, given, overlaid, interrupted>>
  BY <1>2, <1>3, <1>7 DEF SetFdo
<1>10. /\ level' = level /\ fds' = table /\ obj' \in [Object -> FdObject]
       /\ frame' \in [Level -> Frame] /\ frame'[level] = f
       /\ \A i \in Level \ {level} : Still(i)
       /\ \A k \in Fd : table[k] # NULL => obj'[table[k]] = obj[table[k]]
  BY <1>0, <1>4, <1>8, <1>9, Proceeded DEF IInv
<1>11. /\ StepAt(t) /\ level' = t /\ level = t /\ frame'[t] = f
       /\ obj'[c.ref] = obj[c.ref]
       /\ \A l \in Fd \ {c.n} : fds'[l] = fds[l] /\ (fds[l] # NULL => obj'[fds[l]] = obj[fds[l]])
       /\ fds'[c.n] = c.ref
  BY <1>1, <1>6, <1>8, <1>10 DEF StepAt
<1>12. TypeOK'
  BY <1>8, <1>9, <1>10 DEF IInv, TypeOK
<1>13. FramesOK'
  <2>1. FrameOK(f)'
    BY <1>4, <1>6, <1>11 DEF FrameOK, NamesOne
  <2>2. FrameOK(frame[t])'
    BY <1>11, <2>1 DEF FrameOK, NamesOne
  <2> QED
    BY <1>11, <2>2, FramesStep, Bounds
<1>14. MapOK'
  BY <1>6, <1>11 DEF IInv, Good, MapOK
<1>15. GivenOK' /\ PhaseOK'
  BY <1>5, <1>9 DEF IInv, Good, GivenOK, PhaseOK
<1>16. FlightOK'
  <2>1. ~Opens(frame[t])'
    BY <1>4, <1>6, <1>11 DEF Opens, NamesOne
  <2>2. ASSUME NEW i \in 1 .. t - 1, Opens(frame[i])
        PROVE  Numbers(f) \cap Numbers(frame[i]) = {}
    <3>1. i \in InProgress /\ t > i
      BY <1>11, Lower, Bounds DEF StepAt, Level
    <3>2. Numbers(f) = Numbers(c)
      BY <1>4 DEF Numbers
    <3> QED
      BY <1>5, <2>2, <3>1, <3>2 DEF IInv, Good, FlightOK
  <2>3. NumbersKept(t)
    BY <1>9 DEF NumbersKept
  <2> QED
    BY <1>11, <2>1, <2>2, <2>3, FlightStep
<1>17. NodesOK'
  <2> SUFFICES ASSUME NEW l \in Fd \ overlaid PROVE NodeOK(l)'
    BY <1>9 DEF NodesOK
  <2>1. CASE l = c.n
    BY <1>6, <1>11, <2>1 DEF NodeOK
  <2>2. CASE l # c.n
    <3>1. NodeOK(l)
      BY DEF IInv, Good, NodesOK
    <3>2. ~PendingBy(frame[t], l)
      BY <1>5 DEF PendingBy
    <3>3. Pending(l) => Pending(l)'
      BY <1>11, <3>2, PendingStep
    <3> QED
      BY <1>9, <1>11, <2>2, <3>1, <3>3 DEF NodeOK
  <2> QED
    BY <2>1, <2>2
<1>18. ExactOK'
  <2> SUFFICES ASSUME ~interrupted
               PROVE  level' <= 1 /\ (\A l \in Fd : EntryExact(l)') /\ (level' = 1 => FrameExact(frame[1])')
    BY <1>9 DEF ExactOK
  <2>1. level = 1 /\ t = 1 /\ (\A l \in Fd : EntryExact(l)) /\ FrameExact(c)
    <3>1. level <= 1 /\ (\A l \in Fd : EntryExact(l)) /\ (level = 1 => FrameExact(frame[1]))
      BY DEF IInv, Good, ExactOK
    <3>2. t = 1
      BY <1>1, <3>1, Bounds DEF Level
    <3> QED
      BY <1>1, <1>5, <3>1, <3>2
  <2>2. fds[c.n] = c.ref
    BY <1>6, <2>1 DEF FrameExact
  <2>3. \A l \in Fd : fds'[l] = fds[l] /\ (fds[l] # NULL => obj'[fds[l]] = obj[fds[l]])
    BY <1>6, <1>11, <2>2
  <2>4. \A l \in Fd : EntryExact(l)'
    BY <1>5, <1>9, <2>1, <2>3 DEF EntryExact, IsOpen
  <2>5. FrameExact(f)'
    BY <1>4, <1>6, <1>11 DEF FrameExact, NamesOne
  <2> QED
    BY <1>11, <2>1, <2>4, <2>5 DEF FrameExact
<1> QED
  BY <1>12, <1>13, <1>14, <1>15, <1>16, <1>17, <1>18 DEF IInv, Good

-----------------------------------------------------------------------------
(* Calls that return and leave the map alone                               *)

LEMMA ReturnInvariant ==
  ASSUME IInv, level > 0, Return(fds, obj), call.at = "op",
         UNCHANGED <<phase, interrupted>>,
         kern' \in [Fd -> Kind \cup {Closed}],
         given' \in [Fd -> {"no", "yes", "opendir"}],
         overlaid' \subseteq Fd,
         NumbersKept(level), GivenOK',
         \A k \in Fd \ overlaid' :
           kern'[k] = kern[k] \/ kern[k] = Closed,
         overlaid \subseteq overlaid',
         \A k \in Fd : kern'[k] = Closed => kern[k] = Closed,
         \A k \in Fd \ overlaid' : given'[k] = "opendir" =>
           \/ given[k] = "opendir" /\ kern'[k] = kern[k]
           \/ ~interrupted => fds[k] # NULL /\ obj[fds[k]].node = kern'[k]
  PROVE  IInv'
<1>1. PICK t \in Level : t = level
  BY TopCall
<1>2. /\ FrameOK(frame[t]) /\ phase = "running" /\ frame[t].at = "op" /\ t \in InProgress
  BY <1>1, TopCall
<1>3. /\ StepAt(t) /\ level' = t - 1 /\ level = t /\ frame'[t] = NoFrame /\ level' # t
      /\ level' \in 0 .. MaxDepth /\ fds' = fds /\ obj' \in [Object -> FdObject]
      /\ frame' \in [Level -> Frame]
      /\ \A k \in Fd : fds[k] # NULL => obj'[fds[k]] = obj[fds[k]]
  BY <1>1, ReturnedStill, Bounds DEF IInv, StepAt, Level
<1>4. TypeOK'
  BY <1>3 DEF IInv, TypeOK
<1>5. FramesOK'
  BY <1>3, FramesStep
<1>6. MapOK' /\ PhaseOK'
  BY <1>2, <1>3, MapKept DEF PhaseOK
<1>7. FlightOK'
  BY <1>3, FlightStep
<1>8. NodesOK'
  <2> SUFFICES ASSUME NEW k \in Fd \ overlaid', fds[k] # NULL, obj[fds[k]].node # NULL
               PROVE  obj[fds[k]].node = kern'[k] \/ Pending(k)'
    BY <1>3 DEF NodesOK, NodeOK
  <2>1. NodeOK(k)
    BY DEF IInv, Good, NodesOK
  <2>2. ~PendingBy(frame[t], k)
    BY <1>2 DEF PendingBy
  <2>3. Pending(k) => Pending(k)'
    BY <1>3, <2>2, PendingStep
  <2>4. obj[fds[k]].node # Closed
    BY Bounds DEF IInv, TypeOK, FdObject, Kind
  <2> QED
    BY <2>1, <2>3, <2>4 DEF NodeOK
<1>9. ExactOK'
  <2> SUFFICES ASSUME ~interrupted
               PROVE  level' <= 1 /\ (\A k \in Fd : EntryExact(k)') /\ level' # 1
    BY DEF ExactOK
  <2>1. level <= 1 /\ (\A k \in Fd : EntryExact(k))
    BY DEF IInv, Good, ExactOK
  <2>2. level = 1 /\ t = 1 /\ level' = 0
    BY <1>3, <2>1, Bounds DEF Level
  <2>3. \A k \in Fd : EntryExact(k)'
    <3> SUFFICES ASSUME NEW k \in Fd PROVE EntryExact(k)'
      OBVIOUS
    <3>1. fds[k] # NULL => obj[fds[k]].fd = k /\ IsOpen(k)
      BY <1>2, <2>1, <2>2 DEF EntryExact
    <3>2. given[k] = "opendir" /\ k \notin overlaid => fds[k] # NULL /\ obj[fds[k]].node = kern[k]
      BY <2>1 DEF EntryExact
    <3> QED
      BY <1>3, <2>2, <3>1, <3>2 DEF EntryExact, IsOpen
  <2> QED
    BY <2>2, <2>3
<1> QED
  BY <1>4, <1>5, <1>6, <1>7, <1>8, <1>9 DEF IInv, Good


LEMMA NothingReturned ==
  ASSUME IInv, Use \/ CloseRefused
  PROVE  IInv'
<1>1. /\ level > 0 /\ call.at = "op" /\ Return(fds, obj)
      /\ UNCHANGED <<phase, kern, given, overlaid, interrupted>>
  BY DEF Use, CloseRefused, At
<1>2. NumbersKept(level) /\ GivenOK'
  BY <1>1 DEF NumbersKept, IInv, Good, GivenOK
<1> QED
  BY <1>1, <1>2, ReturnInvariant DEF IInv, TypeOK

\* What a call tells the program on its return is open, and its own.
LEMMA OpenedReturned ==
  ASSUME IInv, level > 0, Return(fds, obj), call.at = "op", Opens(call),
         UNCHANGED <<phase, kern, overlaid, interrupted>>,
         given' \in [Fd -> {"no", "yes", "opendir"}],
         \A k \in Fd \ {call.n, call.m} : given'[k] = given[k],
         \A k \in {call.n, call.m} : given'[k] = "opendir" =>
           call.op = "open" /\ call.what \in Dir /\ k = call.n
  PROVE  IInv'
<1>1. PICK t \in Level : t = level
  BY TopCall
<1>2. PICK c \in Frame : c = call
  BY TopCall
<1>3. FrameOK(c) /\ Untold(c) /\ c = frame[t] /\ t \in InProgress /\ Opens(c) /\ c.at = "op"
  BY <1>1, <1>2, TopCall
<1>4. c.n \in Fd /\ c.m \in Fd
  BY <1>3 DEF FrameOK, Opens, NamesOne, Frame
<1>5. kern[c.n] # Closed /\ kern[c.m] # Closed
  BY <1>3, Bounds DEF Untold, Frame
<1>6. GivenOK'
  BY <1>2, <1>5 DEF IInv, Good, GivenOK
<1>7. NumbersKept(level)
  <2> SUFFICES ASSUME NEW i \in 1 .. t - 1, Opens(frame[i]), NEW k \in Numbers(frame[i])
               PROVE  given'[k] = given[k]
    BY <1>1 DEF NumbersKept
  <2>1. i \in InProgress /\ i \in Level /\ t > i /\ frame[i] \in Frame
    <3>1. i \in Level /\ t > i
      BY Bounds DEF Level
    <3>2. i \in InProgress
      BY <1>1, <3>1, Bounds DEF InProgress, Level
    <3> QED
      BY <3>1, <3>2 DEF IInv, TypeOK
  <2>2. Numbers(c) \cap Numbers(frame[i]) = {} /\ FrameOK(frame[i])
    BY <1>3, <2>1 DEF IInv, Good, FlightOK, FramesOK
  <2>3. k \notin {c.n, c.m}
    BY <1>3, <2>2 DEF Numbers, Opens
  <2>4. k \in Fd
    BY <2>1, <2>2 DEF Numbers, Opens, FrameOK, NamesOne, Frame
  <2> QED
    BY <1>2, <2>3, <2>4
<1>8. ASSUME NEW k \in Fd \ overlaid', given'[k] = "opendir"
      PROVE  \/ given[k] = "opendir" /\ kern'[k] = kern[k]
             \/ ~interrupted => fds[k] # NULL /\ obj[fds[k]].node = kern'[k]
  <2>1. CASE k \notin {c.n, c.m}
    BY <1>2, <1>8, <2>1
  <2>2. CASE k \in {c.n, c.m}
    <3>1. c.op = "open" /\ c.what \in Dir /\ k = c.n
      BY <1>2, <1>8, <2>2
    <3> SUFFICES ASSUME ~interrupted PROVE fds[k] # NULL /\ obj[fds[k]].node = kern'[k]
      OBVIOUS
    <3>2. level <= 1 /\ (level = 1 => FrameExact(frame[1]))
      BY DEF IInv, Good, ExactOK
    <3>3. FrameExact(c)
      BY <1>1, <1>3, <3>2, Bounds DEF Level
    <3> QED
      BY <1>3, <3>1, <3>3 DEF FrameExact, Untold, NodeOf
  <2> QED
    BY <2>1, <2>2
<1>9. kern' \in [Fd -> Kind \cup {Closed}] /\ overlaid' \subseteq Fd
  BY DEF IInv, TypeOK
<1> QED
  BY <1>6, <1>7, <1>8, <1>9, ReturnInvariant

LEMMA OpenReturnInvariant ==
  ASSUME IInv, OpenReturn
  PROVE  IInv'
<1>1. level > 0 /\ call.op = "open" /\ call.at = "op"
  BY DEF OpenReturn, At
<1>2. call.n \in Fd /\ call.m = call.n
  BY <1>1, TopCall DEF FrameOK, NamesOne, Frame
<1>3. /\ given' \in [Fd -> {"no", "yes", "opendir"}]
      /\ \A k \in Fd \ {call.n} : given'[k] = given[k]
      /\ given'[call.n] = "opendir" => call.what \in Dir
  BY <1>2 DEF OpenReturn, IInv, TypeOK
<1> QED
  BY <1>1, <1>2, <1>3, OpenedReturned DEF OpenReturn, Opens

LEMMA PipeReturnInvariant ==
  ASSUME IInv, PipeReturn
  PROVE  IInv'
<1>1. level > 0 /\ call.op = "pipe" /\ call.at = "op"
  BY DEF PipeReturn, At
<1>2. call.n \in Fd /\ call.m \in Fd
  BY <1>1, TopCall DEF FrameOK, NamesOne, Frame
<1>3. /\ given' \in [Fd -> {"no", "yes", "opendir"}]
      /\ \A k \in Fd \ {call.n, call.m} : given'[k] = given[k]
      /\ given'[call.n] # "opendir" /\ given'[call.m] # "opendir"
  BY <1>2 DEF PipeReturn, IInv, TypeOK
<1> QED
  BY <1>1, <1>2, <1>3, OpenedReturned DEF PipeReturn, Opens

LEMMA Duplicated ==
  ASSUME IInv, level > 0, call.op = "dup", call.at = "op", Return(fds, obj),
         UNCHANGED <<phase, interrupted>>,
         NEW k \in Fd, NEW m \in Fd, kern[k] # Closed, Duplicate(k, m),
         m \in Unused \/ m = call.m
  PROVE  IInv'
<1>1. PICK t \in Level : t = level
  BY TopCall
<1>2. PICK c \in Frame : c = call
  BY TopCall
<1>3. c = frame[t] /\ t \in InProgress /\ c.op = "dup"
  BY <1>1, <1>2, TopCall
<1>4. /\ kern'[m] = kern[k] /\ given'[m] = "yes"
      /\ \A l \in Fd \ {m} : kern'[l] = kern[l] /\ given'[l] = given[l]
      /\ overlaid \subseteq overlaid' /\ (IsOpen(m) => m \in overlaid')
  BY DEF Duplicate, IInv, TypeOK
<1>5. /\ kern' \in [Fd -> Kind \cup {Closed}] /\ overlaid' \subseteq Fd
      /\ given' \in [Fd -> {"no", "yes", "opendir"}]
  BY DEF Duplicate, IInv, TypeOK
<1>6. GivenOK'
  BY <1>4 DEF IInv, Good, GivenOK
<1>7. NumbersKept(level)
  <2> SUFFICES ASSUME NEW i \in 1 .. t - 1, Opens(frame[i]), NEW l \in Numbers(frame[i])
               PROVE  l \in Fd /\ l # m
    BY <1>1, <1>4 DEF NumbersKept
  <2>1. i \in InProgress /\ i \in Level /\ t > i /\ frame[i] \in Frame
    <3>1. i \in Level /\ t > i
      BY Bounds DEF Level
    <3>2. i \in InProgress
      BY <1>1, <3>1, Bounds DEF InProgress, Level
    <3> QED
      BY <3>1, <3>2 DEF IInv, TypeOK
  <2>2. /\ FrameOK(frame[i]) /\ Untold(frame[i]) /\ Numbers(c) \cap Numbers(frame[i]) = {}
    BY <1>3, <2>1 DEF IInv, Good, FlightOK, FramesOK
  <2>3. l \in Fd
    BY <2>1, <2>2 DEF Numbers, Opens, FrameOK, NamesOne, Frame
  <2>4. kern[l] # Closed
    BY <2>1, <2>2, Bounds DEF Numbers, Opens, Untold, Frame
  <2>5. l # c.m
    BY <1>3, <2>2 DEF Numbers
  <2> QED
    BY <1>2, <2>3, <2>4, <2>5 DEF Unused
<1>8. \A l \in Fd \ overlaid' : kern'[l] = kern[l] \/ kern[l] = Closed
  BY <1>4 DEF IsOpen
<1>9. \A l \in Fd : kern'[l] = Closed => kern[l] = Closed
  BY <1>4
<1>10. \A l \in Fd \ overlaid' : given'[l] = "opendir" => given[l] = "opendir" /\ kern'[l] = kern[l]
  BY <1>4
<1> QED
  BY <1>4, <1>5, <1>6, <1>7, <1>8, <1>9, <1>10, ReturnInvariant

LEMMA DupInvariant ==
  ASSUME IInv, Dup
  PROVE  IInv'
<1>1. /\ level > 0 /\ call.op = "dup" /\ call.at = "op" /\ Return(fds, obj)
      /\ UNCHANGED <<phase, interrupted>>
  BY DEF Dup, At
<1>2. CASE UNCHANGED <<kern, given, overlaid>>
  <2>1. NumbersKept(level) /\ GivenOK'
    BY <1>2 DEF NumbersKept, IInv, Good, GivenOK
  <2> QED
    BY <1>1, <1>2, <2>1, ReturnInvariant DEF IInv, TypeOK
<1>3. CASE ~UNCHANGED <<kern, given, overlaid>>
  <2>1. PICK m \in (IF call.m = -1 THEN Lowest(Unused) ELSE {call.m}) \ {fdOf} :
          IsOpen(fdOf) /\ Duplicate(fdOf, m)
    BY <1>3 DEF Dup
  <2>2. m \in Unused \/ (m = call.m /\ m # -1)
    BY <2>1 DEF Lowest
  <2>3. m \in Fd
    BY <1>1, <2>2, TopCall DEF Unused, Frame
  <2>4. PICK k \in Fd : k = fdOf
    BY <2>1 DEF IsOpen
  <2> QED
    BY <1>1, <2>1, <2>2, <2>3, <2>4, Duplicated DEF IsOpen
<1> QED
  BY <1>2, <1>3

-----------------------------------------------------------------------------
(* close                                                                   *)

LEMMA CloseKernelInvariant ==
  ASSUME IInv, CloseKernel
  PROVE  IInv'
<1>0. level > 0 /\ call.op = "close" /\ call.at = "op" /\ IsOpen(fdOf)
  BY DEF CloseKernel, At
<1>1. PICK t \in Level : t = level
  BY <1>0, TopCall
<1>2. PICK c \in Frame : c = call
  BY <1>0, TopCall
<1>3. PICK f : f = [c EXCEPT !.at = "unset"]
  OBVIOUS
<1>4. /\ f.op = c.op /\ f.n = c.n /\ f.m = c.m /\ f.what = c.what
      /\ f.at = "unset" /\ f.ref = c.ref /\ f \in Frame
  BY <1>3 DEF Frame
<1>5. /\ FrameOK(c) /\ phase = "running" /\ c.op = "close" /\ c.at = "op"
      /\ c = frame[t] /\ t \in InProgress
  BY <1>0, <1>1, <1>2, TopCall
<1>6. /\ NamesOne(c) /\ c.ref # NULL /\ c.ref \in Object /\ c.n \in Fd
      /\ obj[c.ref].fd = c.n /\ fdOf = c.n /\ kern[c.n] # Closed
  <2>1. NamesOne(c) /\ c.ref # NULL /\ c.n \in Fd /\ obj[c.ref].fd \in {c.n, -1}
    BY <1>5 DEF FrameOK, NamesOne, Frame
  <2>2. fdOf = obj[c.ref].fd
    BY <1>2 DEF fdOf
  <2> QED
    BY <1>0, <2>1, <2>2, Bounds DEF IsOpen, Frame
<1>7. /\ kern' = [kern EXCEPT ![c.n] = Closed]
      /\ given' = [given EXCEPT ![c.n] = "no"]
      /\ overlaid' = overlaid \ {c.n}
      /\ Proceed(fds, obj, f)
      /\ UNCHANGED <<phase, interrupted>>
  BY <1>2, <1>3, <1>6 DEF CloseKernel
<1>8. fds \in [Fd -> Object \cup {NULL}]
  BY DEF IInv, TypeOK
<1>9. /\ level' = level /\ fds' = fds /\ obj' \in [Object -> FdObject]
      /\ frame' \in [Level -> Frame] /\ frame'[level] = f
      /\ \A i \in Level \ {level} : Still(i)
      /\ \A k \in Fd : fds[k] # NULL => obj'[fds[k]] = obj[fds[k]]
      /\ obj'[c.ref] = obj[c.ref]
  BY <1>0, <1>4, <1>6, <1>7, <1>8, Proceeded DEF IInv
<1>10. StepAt(t) /\ level' = t /\ level = t /\ frame'[t] = f /\ level' # t - 1
  BY <1>1, <1>9, Bounds DEF StepAt, Level
<1>11. /\ kern'[c.n] = Closed /\ given'[c.n] = "no"
       /\ \A k \in Fd \ {c.n} : kern'[k] = kern[k] /\ given'[k] = given[k]
  BY <1>6, <1>7 DEF IInv, TypeOK
<1>12. TypeOK'
  BY <1>7, <1>9 DEF IInv, TypeOK
<1>13. FramesOK'
  <2>1. FrameOK(f)'
    BY <1>4, <1>5, <1>6, <1>9 DEF FrameOK, NamesOne
  <2>2. FrameOK(frame[t])'
    BY <1>10, <2>1 DEF FrameOK, NamesOne
  <2> QED
    BY <1>10, <2>2, FramesStep
<1>14. MapOK' /\ GivenOK' /\ PhaseOK'
  BY <1>5, <1>7, <1>9, <1>11, MapKept DEF IInv, Good, GivenOK, PhaseOK
<1>15. ASSUME NEW i \in 1 .. t - 1, Opens(frame[i])
       PROVE  /\ Numbers(f) \cap Numbers(frame[i]) = {} /\ c.n \notin Numbers(frame[i])
              /\ Numbers(frame[i]) \subseteq Fd
  <2>1. i \in InProgress /\ i \in Level /\ t > i /\ frame[i] \in Frame
    <3>1. i \in Level /\ t > i
      BY Bounds DEF Level
    <3>2. i \in InProgress
      BY <1>10, <3>1, Bounds DEF InProgress, Level
    <3> QED
      BY <3>1, <3>2 DEF IInv, TypeOK
  <2>2. FrameOK(frame[i]) /\ Numbers(c) \cap Numbers(frame[i]) = {}
    BY <1>5, <1>15, <2>1 DEF IInv, Good, FlightOK, FramesOK
  <2>3. Numbers(frame[i]) \subseteq Fd
    BY <1>15, <2>1, <2>2 DEF Numbers, Opens, FrameOK, NamesOne, Frame
  <2>4. Numbers(f) = Numbers(c) /\ c.n \in Numbers(c)
    BY <1>4 DEF Numbers
  <2> QED
    BY <2>2, <2>3, <2>4
<1>16. FlightOK'
  <2>1. ~Opens(frame[t])'
    BY <1>4, <1>5, <1>10 DEF Opens
  <2>2. NumbersKept(t)
    BY <1>11, <1>15 DEF NumbersKept
  <2> QED
    BY <1>10, <1>15, <2>1, <2>2, FlightStep
<1>17. NodesOK'
  <2> SUFFICES ASSUME NEW k \in Fd \ overlaid' PROVE NodeOK(k)'
    BY DEF NodesOK
  <2>1. CASE k = c.n
    <3>1. PendingBy(frame[t], k)'
      BY <1>4, <1>6, <1>9, <1>10, <2>1 DEF PendingBy
    <3>2. t \in InProgress'
      BY <1>10, Lower DEF StepAt
    <3> QED
      BY <3>1, <3>2 DEF NodeOK, Pending
  <2>2. CASE k # c.n
    <3>1. NodeOK(k)
      BY <1>7, <2>2 DEF IInv, Good, NodesOK
    <3>2. ~PendingBy(frame[t], k)
      BY <1>5 DEF PendingBy
    <3>3. Pending(k) => Pending(k)'
      BY <1>10, <3>2, PendingStep
    <3> QED
      BY <1>9, <1>11, <2>2, <3>1, <3>3 DEF NodeOK
  <2> QED
    BY <2>1, <2>2
<1>18. ExactOK'
  <2> SUFFICES ASSUME ~interrupted
               PROVE  level' <= 1 /\ (\A k \in Fd : EntryExact(k)') /\ (level' = 1 => FrameExact(frame[1])')
    BY <1>7 DEF ExactOK
  <2>1. level = 1 /\ t = 1 /\ (\A k \in Fd : EntryExact(k)) /\ FrameExact(c)
    <3>1. level <= 1 /\ (\A k \in Fd : EntryExact(k)) /\ (level = 1 => FrameExact(frame[1]))
      BY DEF IInv, Good, ExactOK
    <3>2. t = 1
      BY <1>1, <3>1, Bounds DEF Level
    <3> QED
      BY <1>1, <1>5, <3>1, <3>2
  <2>2. \A k \in Fd : EntryExact(k)'
    <3> SUFFICES ASSUME NEW k \in Fd PROVE EntryExact(k)'
      OBVIOUS
    <3>1. CASE k = c.n
      BY <1>4, <1>9, <1>10, <1>11, <2>1, <3>1 DEF EntryExact
    <3>2. CASE k # c.n
      BY <1>5, <1>7, <1>9, <1>11, <2>1, <3>2 DEF EntryExact, IsOpen
    <3> QED
      BY <3>1, <3>2
  <2>3. FrameExact(f)'
    BY <1>4, <1>5, <1>6, <1>9, <1>11, <2>1 DEF FrameExact, NamesOne, IsOpen
  <2> QED
    BY <1>10, <2>1, <2>2, <2>3 DEF FrameExact
<1> QED
  BY <1>12, <1>13, <1>14, <1>16, <1>17, <1>18 DEF IInv, Good


LEMMA CloseUnsetInvariant ==
  ASSUME IInv, CloseUnset
  PROVE  IInv'
<1>0. level > 0 /\ call.op = "close" /\ call.at = "unset"
  BY DEF CloseUnset, At
<1>1. PICK t \in Level : t = level
  BY <1>0, TopCall
<1>2. PICK c \in Frame : c = call
  BY <1>0, TopCall
<1>3. /\ FrameOK(c) /\ phase = "running" /\ c.op = "close" /\ c.at = "unset"
      /\ c = frame[t] /\ t \in InProgress
  BY <1>0, <1>1, <1>2, TopCall
<1>4. c.ref \in Object /\ c.n \in Fd
  BY <1>3 DEF FrameOK, NamesOne, Frame
<1>5. PICK q : q = obj[c.ref].fd
  OBVIOUS
<1>6. q \in {c.n, -1}
  BY <1>3, <1>5 DEF FrameOK, NamesOne
<1>7. PICK table : table = [k \in Fd |-> IF k = q THEN NULL ELSE fds[k]]
  OBVIOUS
<1>8. PICK objects : objects = [obj EXCEPT ![c.ref].fd = -1]
  OBVIOUS
<1>9. Return(table, objects) /\ UNCHANGED <<phase, kern, given, overlaid, interrupted>>
  BY <1>2, <1>5, <1>7, <1>8 DEF CloseUnset, UnsetTable, fdOf
<1>10. table \in [Fd -> Object \cup {NULL}]
  BY <1>7 DEF IInv, TypeOK
<1>11. /\ objects \in [Object -> FdObject]
       /\ objects[c.ref].fd = -1 /\ objects[c.ref].node = obj[c.ref].node
       /\ \A o \in Object \ {c.ref} : objects[o] = obj[o]
  BY <1>4, <1>8 DEF IInv, TypeOK, FdObject
<1>12. /\ level' = level - 1 /\ level' \in 0 .. MaxDepth
       /\ fds' = table /\ obj' \in [Object -> FdObject] /\ frame' \in [Level -> Frame]
       /\ frame'[level] = NoFrame
       /\ \A i \in Level \ {level} :
            /\ frame'[i] = frame[i]
            /\ frame[i].ref # NULL => obj'[frame[i].ref] = objects[frame[i].ref]
       /\ \A k \in Fd : table[k] # NULL => obj'[table[k]] = objects[table[k]]
  BY <1>0, <1>9, <1>10, <1>11, Returned DEF IInv
<1>13. /\ level = t /\ level' = t - 1 /\ level' # t
       /\ \A i \in 1 .. t - 1 : i \in Level \ {t} /\ i \in InProgress
       /\ InProgress' = 1 .. t - 1 /\ InProgress = 1 .. t - 1 \cup {t}
  <2>1. level = t /\ level' = t - 1 /\ level' # t
    BY <1>1, <1>12, Bounds DEF Level
  <2> QED
    BY <2>1, Lower
<1>14. \A i \in 1 .. t - 1 : frame[i].ref # NULL =>
         /\ frame[i].ref \in Object
         /\ obj'[frame[i].ref] = objects[frame[i].ref]
  BY <1>12, <1>13 DEF IInv, TypeOK, Frame
<1>15. TypeOK'
  BY <1>9, <1>10, <1>12 DEF IInv, TypeOK
<1>16. FramesOK'
  <2>1. ASSUME NEW i \in Level, i > level' PROVE frame'[i] = NoFrame
    <3>1. CASE i = t
      BY <1>12, <1>13, <3>1
    <3>2. CASE i # t
      BY <1>12, <1>13, <2>1, <3>2, Bounds DEF IInv, Good, FramesOK, Level
    <3> QED
      BY <3>1, <3>2
  <2>2. ASSUME NEW i \in 1 .. t - 1 PROVE FrameOK(frame[i])'
    <3>1. FrameOK(frame[i]) /\ frame'[i] = frame[i]
      BY <1>12, <1>13 DEF IInv, Good, FramesOK
    <3>2. frame[i].ref # NULL => /\ obj'[frame[i].ref].fd \in {obj[frame[i].ref].fd, -1}
                                 /\ obj'[frame[i].ref].node = obj[frame[i].ref].node
      BY <1>11, <1>14
    <3> QED
      BY <3>1, <3>2 DEF FrameOK, NamesOne
  <2> QED
    BY <1>13, <2>1, <2>2 DEF FramesOK
<1>17. \* The entries that stay, and their objects.
       \A k \in Fd : fds'[k] # NULL =>
         /\ k # q /\ fds'[k] = fds[k] /\ fds[k] \in Object
         /\ obj'[fds[k]].node = obj[fds[k]].node
         /\ obj'[fds[k]].fd \in {obj[fds[k]].fd, -1}
         /\ obj[fds[k]].fd # q => obj'[fds[k]].fd = obj[fds[k]].fd
  BY <1>5, <1>7, <1>10, <1>11, <1>12
<1>18. MapOK'
  BY <1>17 DEF IInv, Good, MapOK
<1>19. GivenOK' /\ PhaseOK'
  BY <1>3, <1>9 DEF IInv, Good, GivenOK, PhaseOK
<1>20. FlightOK'
  <2> SUFFICES ASSUME NEW i \in 1 .. t - 1, Opens(frame[i])'
               PROVE  /\ Untold(frame[i])'
                      /\ \A j \in 1 .. t - 1 : j > i =>
                           Numbers(frame'[j]) \cap Numbers(frame'[i]) = {}
    BY <1>13 DEF FlightOK, Numbers
  <2>1. \A j \in 1 .. t - 1 : frame'[j] = frame[j] /\ j \in InProgress
    BY <1>12, <1>13
  <2>2. Opens(frame[i])
    BY <2>1 DEF Opens
  <2>3. Untold(frame[i])'
    BY <1>9, <2>1, <2>2 DEF IInv, Good, FlightOK, Untold
  <2> QED
    BY <2>1, <2>2, <2>3 DEF IInv, Good, FlightOK
<1>21. NodesOK'
  <2> SUFFICES ASSUME NEW k \in Fd \ overlaid, fds'[k] # NULL PROVE NodeOK(k)'
    BY <1>9 DEF NodesOK, NodeOK
  <2>1. NodeOK(k) /\ k # q
    BY <1>17 DEF IInv, Good, NodesOK
  <2>2. ASSUME Pending(k) PROVE Pending(k)'
    <3>1. PICK i \in InProgress : PendingBy(frame[i], k)
      BY <2>2 DEF Pending
    <3>2. i # t
      BY <1>3, <1>5, <2>1, <3>1 DEF PendingBy
    <3>3. i \in 1 .. t - 1 /\ frame'[i] = frame[i]
      BY <1>12, <1>13, <3>1, <3>2
    <3>4. frame[i].at = "unset" => frame[i].ref # NULL
      BY <3>1 DEF IInv, Good, FramesOK, FrameOK
    <3>5. frame[i].at = "unset" /\ obj[frame[i].ref].fd = k => obj'[frame[i].ref].fd = k
      BY <1>5, <1>11, <1>14, <2>1, <3>3, <3>4
    <3>6. PendingBy(frame[i], k)'
      BY <3>1, <3>3, <3>5 DEF PendingBy
    <3> QED
      BY <1>13, <3>3, <3>6 DEF Pending
  <2> QED
    BY <1>9, <1>17, <2>1, <2>2 DEF NodeOK
<1>22. ExactOK'
  <2> SUFFICES ASSUME ~interrupted
               PROVE  level' <= 1 /\ (\A k \in Fd : EntryExact(k)') /\ level' # 1
    BY <1>9 DEF ExactOK
  <2>1. level = 1 /\ t = 1 /\ (\A k \in Fd : EntryExact(k)) /\ FrameExact(c)
    <3>1. level <= 1 /\ (\A k \in Fd : EntryExact(k)) /\ (level = 1 => FrameExact(frame[1]))
      BY DEF IInv, Good, ExactOK
    <3>2. t = 1
      BY <1>1, <3>1, Bounds DEF Level
    <3> QED
      BY <1>1, <1>3, <3>1, <3>2
  <2>2. fds[c.n] = c.ref /\ q = c.n /\ kern[c.n] = Closed /\ given[c.n] = "no"
    <3>1. fds[c.n] = c.ref /\ kern[c.n] = Closed
      BY <1>3, <1>4, <2>1, Bounds DEF FrameExact, NamesOne, IsOpen
    <3>2. q = c.n
      BY <1>4, <1>5, <2>1, <3>1, Bounds DEF EntryExact
    <3> QED
      BY <1>4, <3>1, <3>2 DEF IInv, Good, GivenOK
  <2>3. \A k \in Fd : EntryExact(k)'
    <3> SUFFICES ASSUME NEW k \in Fd PROVE EntryExact(k)'
      OBVIOUS
    <3>1. CASE k = c.n
      BY <1>9, <1>17, <2>2, <3>1 DEF EntryExact
    <3>2. CASE k # c.n
      <4>1. fds'[k] = fds[k]
        BY <1>7, <1>12, <2>2, <3>2
      <4>2. fds[k] # NULL => obj[fds[k]].fd = k /\ IsOpen(k)
        BY <1>3, <2>1, <3>2 DEF EntryExact
      <4>3. fds[k] # NULL => obj'[fds[k]].fd = k /\ obj'[fds[k]].node = obj[fds[k]].node
        BY <1>17, <2>2, <3>2, <4>1, <4>2
      <4>4. given[k] = "opendir" /\ k \notin overlaid =>
              fds[k] # NULL /\ obj[fds[k]].node = kern[k]
        BY <2>1 DEF EntryExact
      <4> QED
        BY <1>9, <4>1, <4>2, <4>3, <4>4 DEF EntryExact, IsOpen
    <3> QED
      BY <3>1, <3>2
  <2> QED
    BY <1>13, <2>1, <2>3, Bounds
<1> QED
  BY <1>15, <1>16, <1>18, <1>19, <1>20, <1>21, <1>22 DEF IInv, Good


-----------------------------------------------------------------------------
(* execve and the loader                                                   *)

LEMMA ExecUnknownInvariant ==
  ASSUME IInv, ExecUnknown
  PROVE  IInv'
<1>1. PICK k \in Lowest(Unused) :
        /\ kern' = [kern EXCEPT ![k] = File]
        /\ \E o \in FreshObject(k) :
             Settle([fds EXCEPT ![k] = o], [obj EXCEPT ![o] = [fd |-> k, node |-> NULL]], frame)
  BY DEF ExecUnknown
<1>2. PICK o \in FreshObject(k) :
        Settle([fds EXCEPT ![k] = o], [obj EXCEPT ![o] = [fd |-> k, node |-> NULL]], frame)
  BY <1>1
<1>3. /\ phase = "running" /\ interrupted' = (interrupted \/ level > 0)
      /\ UNCHANGED <<phase, level, given, overlaid>>
  BY DEF ExecUnknown, CanExec
<1>4. k \in Fd /\ kern[k] = Closed /\ given[k] = "no"
  BY DEF Lowest, Unused, IInv, Good, GivenOK
<1>5. o \in Object /\ o \notin Referenced(fds, frame) /\ o # NULL
  BY <1>4, Bounds DEF FreshObject
<1>6. PICK table : table = [fds EXCEPT ![k] = o]
  OBVIOUS
<1>7. PICK objects : objects = [obj EXCEPT ![o] = [fd |-> k, node |-> NULL]]
  OBVIOUS
<1>8. table \in [Fd -> Object \cup {NULL}] /\ table[k] = o /\ \A l \in Fd \ {k} : table[l] = fds[l]
  BY <1>4, <1>5, <1>6 DEF IInv, TypeOK
<1>9. /\ objects \in [Object -> FdObject] /\ objects[o] = [fd |-> k, node |-> NULL]
      /\ \A p \in Object \ {o} : objects[p] = obj[p]
  <2>1. [fd |-> k, node |-> NULL] \in FdObject
    BY <1>4 DEF FdObject
  <2> QED
    BY <1>5, <1>7, <2>1 DEF IInv, TypeOK
<1>10. /\ fds' = table /\ frame' = frame /\ obj' \in [Object -> FdObject]
       /\ \A l \in Fd : table[l] \in Object => obj'[table[l]] = objects[table[l]]
       /\ \A i \in Level : frame[i].ref \in Object => obj'[frame[i].ref] = objects[frame[i].ref]
  <2>1. Settle(table, objects, frame)
    BY <1>2, <1>6, <1>7
  <2> QED
    BY <1>9, <2>1, Settled
<1>11. /\ fds'[k] = o /\ obj'[o] = [fd |-> k, node |-> NULL]
       /\ \A l \in Fd \ {k} : fds'[l] = fds[l] /\ (fds[l] # NULL => obj'[fds[l]] = obj[fds[l]])
  <2>1. \A l \in Fd : fds[l] # o /\ fds[l] \in Object \cup {NULL}
    BY <1>5 DEF Referenced, IInv, TypeOK
  <2> QED
    BY <1>4, <1>5, <1>8, <1>9, <1>10, <2>1
<1>12. \A i \in Level : Still(i)
  <2>1. \A i \in Level : frame[i].ref # o /\ frame[i].ref \in Object \cup {NULL}
    BY <1>5 DEF Referenced, IInv, TypeOK, Frame
  <2> QED
    BY <1>9, <1>10, <2>1 DEF Still
<1>13. kern'[k] = File /\ \A l \in Fd \ {k} : kern'[l] = kern[l]
  BY <1>1, <1>4 DEF IInv, TypeOK
<1>14. TypeOK'
  <2>1. kern' \in [Fd -> Kind \cup {Closed}]
    BY <1>1 DEF IInv, TypeOK, Kind
  <2>2. interrupted' \in BOOLEAN
    BY <1>3
  <2> QED
    BY <1>3, <1>8, <1>10, <2>1, <2>2 DEF IInv, TypeOK
<1>15. InProgress' = InProgress /\ \A i \in InProgress : i \in Level
  BY <1>3, Bounds DEF InProgress, Level, IInv, TypeOK
<1>16. FramesOK'
  BY <1>3, <1>10, <1>12, <1>15, StillOK DEF IInv, Good, FramesOK
<1>17. MapOK'
  BY <1>11 DEF IInv, Good, MapOK
<1>18. GivenOK' /\ PhaseOK'
  BY <1>3, <1>4, <1>13 DEF IInv, Good, GivenOK, PhaseOK
<1>19. FlightOK'
  <2> SUFFICES ASSUME NEW i \in InProgress, Opens(frame[i])
               PROVE  /\ Untold(frame[i])'
                      /\ \A j \in InProgress : j > i =>
                           Numbers(frame[j]) \cap Numbers(frame[i]) = {}
    BY <1>10, <1>15 DEF FlightOK, Opens, Numbers
  <2>1. /\ Untold(frame[i]) /\ FrameOK(frame[i]) /\ frame[i] \in Frame
        /\ \A j \in InProgress : j > i => Numbers(frame[j]) \cap Numbers(frame[i]) = {}
    BY <1>15 DEF IInv, Good, FlightOK, FramesOK, TypeOK
  <2>2. frame[i].n \in Fd \ {k} /\ frame[i].m \in Fd \ {k}
    BY <1>4, <2>1, Bounds DEF FrameOK, NamesOne, Opens, Untold, Frame
  <2> QED
    BY <1>3, <1>10, <1>13, <2>1, <2>2 DEF Untold
<1>20. NodesOK'
  <2> SUFFICES ASSUME NEW l \in Fd \ overlaid PROVE NodeOK(l)'
    BY <1>3 DEF NodesOK
  <2>1. CASE l = k
    BY <1>11, <2>1 DEF NodeOK
  <2>2. CASE l # k
    <3>1. NodeOK(l)
      BY DEF IInv, Good, NodesOK
    <3>2. \A i \in InProgress : PendingBy(frame[i], l) => PendingBy(frame[i], l)'
      BY <1>12, <1>15, StillPending DEF IInv, Good, FramesOK
    <3>3. Pending(l) => Pending(l)'
      BY <1>15, <3>2 DEF Pending
    <3> QED
      BY <1>11, <1>13, <2>2, <3>1, <3>3 DEF NodeOK
  <2> QED
    BY <2>1, <2>2
<1>21. ExactOK'
  <2> SUFFICES ASSUME ~interrupted'
               PROVE  level' <= 1 /\ (\A l \in Fd : EntryExact(l)') /\ level' # 1
    BY DEF ExactOK
  <2>1. ~interrupted /\ ~(level > 0)
    BY <1>3, Zenon
  <2>2. level = 0 /\ level' = 0 /\ \A l \in Fd : EntryExact(l)
    BY <1>3, <2>1 DEF IInv, TypeOK, Good, ExactOK
  <2>3. \A l \in Fd : EntryExact(l)'
    <3> SUFFICES ASSUME NEW l \in Fd PROVE EntryExact(l)'
      OBVIOUS
    <3>1. CASE l = k
      BY <1>3, <1>4, <1>11, <1>13, <3>1, Bounds DEF EntryExact, IsOpen, Kind
    <3>2. CASE l # k
      BY <1>3, <1>11, <1>13, <2>2, <3>2 DEF EntryExact, IsOpen
    <3> QED
      BY <3>1, <3>2
  <2> QED
    BY <2>2, <2>3
<1> QED
  BY <1>14, <1>16, <1>17, <1>18, <1>19, <1>20, <1>21 DEF IInv, Good

\* A table without objects and without calls.
LEMMA FreshInvariant ==
  ASSUME phase \in {"loading", "running", "dead"},
         kern \in [Fd -> Kind \cup {Closed}],
         given \in [Fd -> {"no", "yes"}],
         \A k \in Fd : kern[k] = Closed => given[k] = "no",
         fds = [k \in Fd |-> NULL],
         obj = [o \in Object |-> Deleted],
         frame = [i \in Level |-> NoFrame],
         level = 0, overlaid = {}, interrupted = FALSE
  PROVE  IInv
<1>1. InProgress = {}
  BY DEF InProgress
<1>2. Deleted \in FdObject
  BY DEF Deleted, FdObject
<1>3. TypeOK
  <2>1. level \in 0 .. MaxDepth
    BY Bounds
  <2>2. frame \in [Level -> Frame] /\ obj \in [Object -> FdObject]
    BY <1>2, NoFrameTyped
  <2> QED
    BY <2>1, <2>2 DEF TypeOK
<1>4. FramesOK /\ FlightOK
  BY <1>1 DEF FramesOK, FlightOK
<1>5. MapOK /\ GivenOK /\ NodesOK /\ PhaseOK
  BY DEF MapOK, GivenOK, NodesOK, NodeOK, PhaseOK
<1>6. ExactOK
  BY DEF ExactOK, EntryExact
<1> QED
  BY <1>3, <1>4, <1>5, <1>6 DEF IInv, Good

LEMMA InitInvariant == Init => IInv
<1> SUFFICES ASSUME Init PROVE IInv
  OBVIOUS
<1>1. kern \in [Fd -> Kind \cup {Closed}]
  BY DEF Init, Kind
<1>2. given \in [Fd -> {"no", "yes"}] /\ \A k \in Fd : kern[k] = Closed => given[k] = "no"
  BY DEF Init
<1> QED
  BY <1>1, <1>2, FreshInvariant DEF Init

LEMMA ProcessInvariant ==
  ASSUME NEW p \in {"loading", "dead"}, NEW kernel \in [Fd -> Kind \cup {Closed}],
         NEW numbers \in [Fd -> {"no", "yes"}],
         \A k \in Fd : kernel[k] = Closed => numbers[k] = "no",
         Process(p, kernel, numbers)
  PROVE  IInv'
<1>1. InProgress' = {}
  BY DEF InProgress, Process
<1>2. Deleted \in FdObject
  BY DEF Deleted, FdObject
<1>3. TypeOK'
  <2>1. level' \in 0 .. MaxDepth
    BY Bounds DEF Process
  <2>2. frame' \in [Level -> Frame] /\ obj' \in [Object -> FdObject]
    BY <1>2, NoFrameTyped DEF Process
  <2> QED
    BY <2>1, <2>2 DEF TypeOK, Process
<1>4. FramesOK' /\ FlightOK'
  BY <1>1 DEF FramesOK, FlightOK, Process
<1>5. MapOK' /\ GivenOK' /\ NodesOK' /\ PhaseOK'
  BY DEF MapOK, GivenOK, NodesOK, NodeOK, PhaseOK, Process
<1>6. ExactOK'
  BY DEF ExactOK, EntryExact, Process
<1> QED
  BY <1>3, <1>4, <1>5, <1>6 DEF IInv, Good

LEMMA ExitInvariant == Exit => IInv'
BY ProcessInvariant DEF Exit

LEMMA ExecElfInvariant ==
  ASSUME IInv, NEW S \in SUBSET (Fd \ Unused), NEW N \in SUBSET Unused, ExecElf(S, N)
  PROVE  IInv'
<1>1. PICK kernel : kernel =
        [k \in Fd |-> IF k \in S THEN kern[k] ELSE IF k \in N THEN File ELSE Closed]
  OBVIOUS
<1>2. PICK numbers : numbers =
        [k \in Fd |-> IF k \in S /\ given[k] # "no" THEN "yes" ELSE "no"]
  OBVIOUS
<1>3. kernel \in [Fd -> Kind \cup {Closed}] /\ numbers \in [Fd -> {"no", "yes"}]
  BY <1>1, <1>2 DEF IInv, TypeOK, Kind
<1>4. \A k \in Fd : kernel[k] = Closed => numbers[k] = "no"
  BY <1>1, <1>2, Bounds DEF Unused, Kind
<1> QED
  BY <1>1, <1>2, <1>3, <1>4, ProcessInvariant DEF ExecElf

LEMMA LoadInvariant ==
  ASSUME IInv, NEW N \in SUBSET Unused, Load(N)
  PROVE  IInv'
<1>1. /\ phase' = "running" /\ level = 0
      /\ UNCHANGED <<frame, level, given, overlaid, interrupted>>
      /\ \A k \in Fd : given[k] # "opendir"
  BY DEF Load, IInv, Good, PhaseOK
<1>2. N \subseteq Fd /\ \A k \in N : kern[k] = Closed
  BY DEF Unused
<1>3. /\ kern' = [k \in Fd |-> IF k \in N THEN File ELSE kern[k]]
      /\ fds' = [k \in Fd |-> IF k \in N THEN k + 1 ELSE NULL]
      /\ obj' = [o \in Object |-> IF o - 1 \in N THEN [fd |-> o - 1, node |-> NULL] ELSE Deleted]
  BY DEF Load
<1>4. \A k \in Fd : k \in Nat /\ k + 1 \in Object /\ (k + 1) - 1 = k
  BY Bounds
<1>5. TypeOK'
  <2>1. Deleted \in FdObject /\ \A k \in N : [fd |-> k, node |-> NULL] \in FdObject
    BY <1>2 DEF Deleted, FdObject
  <2>2. obj' \in [Object -> FdObject]
    BY <1>3, <2>1
  <2>3. fds' \in [Fd -> Object \cup {NULL}] /\ kern' \in [Fd -> Kind \cup {Closed}]
    BY <1>3, <1>4 DEF IInv, TypeOK, Kind
  <2> QED
    BY <1>1, <2>2, <2>3 DEF IInv, TypeOK
<1>6. ASSUME NEW k \in Fd, fds'[k] # NULL
      PROVE  k \in N /\ obj'[fds'[k]].fd = k /\ obj'[fds'[k]].node = NULL
  <2>1. k \in N /\ fds'[k] = k + 1
    BY <1>3, <1>6
  <2>2. obj'[k + 1] = [fd |-> k, node |-> NULL]
    BY <1>3, <1>4, <2>1
  <2> QED
    BY <2>1, <2>2
<1>7. InProgress' = {}
  BY <1>1 DEF InProgress
<1>8. FramesOK' /\ FlightOK'
  BY <1>1, <1>7 DEF IInv, Good, FramesOK, FlightOK
<1>9. MapOK' /\ NodesOK' /\ PhaseOK'
  <2>1. MapOK'
    BY <1>6 DEF MapOK
  <2>2. NodesOK'
    BY <1>6 DEF NodesOK, NodeOK
  <2> QED
    BY <1>1, <2>1, <2>2 DEF PhaseOK
<1>10. GivenOK'
  BY <1>1, <1>3, <1>2 DEF IInv, Good, GivenOK
<1>11. ExactOK'
  BY <1>1, <1>2, <1>3, <1>6, Bounds DEF ExactOK, EntryExact, IsOpen, Kind
<1> QED
  BY <1>5, <1>8, <1>9, <1>10, <1>11 DEF IInv, Good

-----------------------------------------------------------------------------
(* The theorems                                                            *)

LEMMA NextInvariant == IInv /\ [Next]_vars => IInv'
<1> SUFFICES ASSUME IInv, [Next]_vars PROVE IInv'
  OBVIOUS
<1>1. ASSUME NEW N \in SUBSET Unused, Load(N) PROVE IInv'
  BY <1>1, LoadInvariant
<1>2. CASE LoadFails \/ ExecFails
  BY <1>2, ExitInvariant DEF LoadFails, ExecFails
<1>3. ASSUME NEW k \in Fd, NEW op \in {"use", "close"}, Get(op, k, 0) PROVE IInv'
  <2>1. 0 \in Fd
    BY Bounds DEF Fd
  <2> QED
    BY <1>3, <2>1, GetInvariant
<1>4. ASSUME NEW k \in Fd, NEW m \in (Fd \cup {-1}) \ InFlight, Get("dup", k, m) PROVE IInv'
  BY <1>4, GetInvariant
<1>5. CASE NewFdo \/ OpenConstruct \/ PipeFirst \/ PipeSecond
  BY <1>5, MakersInvariant
<1>6. CASE SetFdo
  BY <1>6, SetFdoInvariant
<1>7. CASE Use \/ CloseRefused
  BY <1>7, NothingReturned
<1>8. CASE CloseKernel
  BY <1>8, CloseKernelInvariant
<1>9. CASE CloseUnset
  BY <1>9, CloseUnsetInvariant
<1>10. CASE Dup
  BY <1>10, DupInvariant
<1>11. ASSUME NEW what \in Kind, OpenKernel(what) PROVE IInv'
  BY <1>11, OpenKernelInvariant
<1>12. CASE OpenReturn
  BY <1>12, OpenReturnInvariant
<1>13. CASE PipeKernel
  BY <1>13, PipeKernelInvariant
<1>14. CASE PipeReturn
  BY <1>14, PipeReturnInvariant
<1>15. CASE ExecUnknown
  BY <1>15, ExecUnknownInvariant
<1>16. ASSUME NEW S \in SUBSET (Fd \ Unused), NEW N \in SUBSET Unused, ExecElf(S, N) PROVE IInv'
  BY <1>16, ExecElfInvariant
<1>17. CASE UNCHANGED vars
  <2> USE <1>17 DEF vars
  <2>1. TypeOK' /\ InProgress' = InProgress
    BY DEF IInv, TypeOK, InProgress
  <2>2. FramesOK' /\ MapOK' /\ GivenOK' /\ PhaseOK'
    BY <2>1 DEF IInv, Good, FramesOK, FrameOK, MapOK, GivenOK, PhaseOK
  <2>3. FlightOK'
    BY <2>1 DEF IInv, Good, FlightOK, Untold, Opens, Numbers
  <2>4. NodesOK'
    BY <2>1 DEF IInv, Good, NodesOK, NodeOK, Pending, PendingBy
  <2>5. ExactOK'
    BY DEF IInv, Good, ExactOK, EntryExact, FrameExact, IsOpen
  <2> QED
    BY <2>1, <2>2, <2>3, <2>4, <2>5 DEF IInv, Good
<1> QED
  BY <1>1, <1>2, <1>3, <1>4, <1>5, <1>6, <1>7, <1>8, <1>9, <1>10, <1>11, <1>12, <1>13,
     <1>14, <1>15, <1>16, <1>17 DEF Next

LEMMA Invariance == Spec => []IInv
BY InitInvariant, NextInvariant, PTL DEF Spec

\* Every variable keeps its type, whatever handlers do in the middle of calls
\* (FD.cc:34-127).
THEOREM TypeCorrect == Spec => []TypeOK
<1>1. IInv => TypeOK
  BY DEF IInv
<1> QED
  BY <1>1, Invariance, PTL

\* Between calls a node in the map is what Interix's descriptor is open on, for
\* any number of descriptors and directories and any nesting of handlers inside
\* close, open, pipe, dup and Get (FD.cc:43-127).
THEOREM NodesRight == Spec => []NodeNeverWrong
<1>1. ASSUME IInv PROVE NodeNeverWrong
  <2> SUFFICES ASSUME level = 0, NEW k \in Fd \ overlaid, fds[k] # NULL, obj[fds[k]].node # NULL
               PROVE  IsOpen(k) /\ kern[k] = obj[fds[k]].node
    BY DEF NodeNeverWrong, Quiet
  <2>1. ~Pending(k)
    BY DEF Pending, InProgress
  <2>2. kern[k] = obj[fds[k]].node
    BY <1>1, <2>1 DEF IInv, Good, NodesOK, NodeOK
  <2>3. obj[fds[k]].node # Closed
    BY <1>1, Bounds DEF IInv, TypeOK, FdObject, Kind
  <2> QED
    BY <2>2, <2>3 DEF IsOpen
<1> QED
  BY <1>1, Invariance, PTL

\* Without handlers inside calls the map of FD.cc is exact (FD.cc:56-127).
THEOREM MapIsExact == Spec => []MapExact
<1>1. IInv => MapExact
  BY DEF IInv, Good, ExactOK, EntryExact, MapExact, Quiet
<1> QED
  BY <1>1, Invariance, PTL
=============================================================================
