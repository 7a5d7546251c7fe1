----------------------------- MODULE LogDepotProofs -----------------------------
(***************************************************************************)
(* What LoganThread guarantees about its files for any number of days and  *)
(* slices, any sizes and any course of the clock forwards: no line is lost *)
(* but by age or for room, and a directory keeps its newest slices.        *)
(***************************************************************************)
EXTENDS LogDepot, TLAPS, FiniteSetTheorems, WellFoundedInduction

AllSlices == depot \cup evicted

\* What belongs to the file of day d: what it holds and what is buffered for it
Held(d) == Content(d) \cup (IF target = d THEN buffer ELSE {})

\* The indices in use have a bound.
FiniteInv ==
    /\ IsFiniteSet(depot)
    /\ \E n \in Nat : \A s \in depot : s.idx <= n

\* Nothing is of a day the clock has not shown yet.
ClockInv ==
    /\ mCurrentDay <= target /\ target <= today
    /\ \A d \in Days : IsThere(d) => d <= today
    /\ \A d \in dirs : d <= today
    /\ \A s \in AllSlices : s.dir <= today /\ s.day = s.dir

BufferInv ==
    /\ buffer # {} => target \in Days /\ Content(target) # {}
    /\ Cardinality(buffer) < BufferCap
    /\ op.pc \in {"name", "move", "open", "rest"} => buffer = {}

\* An operation moves the file of the day it began on to the directory of a later
\* one only if nothing of a later day is there.
OpInv ==
    /\ op.pc \in {"slice", "append"} => target # 0
    /\ op.pc \in {"cut", "name", "move"} =>
          /\ op.file <= today /\ IsThere(op.file)
          /\ \A d \in Days : IsThere(d) => d <= op.file
          /\ \A s \in AllSlices : s.dir <= op.file
    /\ op.pc \in {"name", "move"} =>
          /\ root[op.file] # {} /\ op.file <= op.dir /\ op.dir <= today
          /\ op.dir \in dirs /\ \A d \in dirs : d <= op.dir
          /\ Cardinality(In(op.dir)) < mDepotFileNum
    /\ op.pc = "move" =>
          /\ op.dir <= op.day /\ op.day <= today /\ op.idx # 0
          /\ \A s \in In(op.dir) : s.idx < op.idx
    /\ op.pc = "open" => Content(today) = {}
    /\ op.pc = "rest" =>
          /\ op.day <= today
          /\ \A d \in op.rest : IsThere(d) /\ op.day <= d + mSaveTime

\* Lines are numbered as they are written, and none is nowhere.
LinesInv ==
    /\ \A d \in Days : Held(d) \subseteq 1..last
    /\ \A s \in AllSlices : s.logs \subseteq 1..last
    /\ \A x \in 1..last : \/ \E d \in Days : x \in Held(d)
                          \/ \E s \in AllSlices : x \in s.logs
                          \/ x \in expired

\* Before(S, T): every line of S is older than every line of T.
Before(S, T) == \A x \in S, y \in T : x < y

\* What a directory has lost is older than what it has, and that is older than what
\* it may still get.
OrderInv ==
    /\ \A s, t \in depot : s.dir = t.dir /\ s.idx = t.idx => s = t
    /\ \A s, t \in depot : s.dir = t.dir /\ s.idx < t.idx => Before(s.logs, t.logs)
    /\ \A e \in evicted : \A s \in In(e.dir) : Before(e.logs, s.logs)
    /\ \A s \in AllSlices : Before(s.logs, Held(s.dir))

RoomInv == \A d \in Days : Cardinality(In(d)) <= mDepotFileNum

\* The file of today has been cut in time; a midnight between the test and the write
\* lets the file of the last day have one line more.
SizeInv ==
    /\ \A d \in Days : Cardinality(Held(d)) <= mSimpleSize + BufferCap
    /\ Cardinality(Held(today)) < mSimpleSize + BufferCap
    /\ op.pc \in {"slice", "append"} => Cardinality(Held(target)) < mSimpleSize + BufferCap
    /\ op.pc = "append" /\ target = today => Cardinality(Content(today)) < mSimpleSize

DepotInv ==
    /\ TypeOK /\ FiniteInv /\ ClockInv /\ BufferInv /\ OpInv
    /\ LinesInv /\ OrderInv /\ RoomInv /\ SizeInv

\* With room for two slices a directory that has lost one has a later one, until the
\* directory itself is too old.
FreshInv ==
    /\ \A e \in evicted : \A s \in In(e.dir) : e.idx < s.idx
    /\ \A e, f \in evicted : e.dir = f.dir /\ e.idx = f.idx => e = f
    /\ \A e \in evicted :
          In(e.dir) = {} => e.dir + mSaveTime < IF op.pc = "rest" THEN op.day ELSE today
    /\ op.pc = "move" /\ op.dir = today => \A e \in evicted : e.dir = op.dir => e.idx < op.idx

-------------------------------------------------------------------------------
(* Sets of numbers *)

\* A set of natural numbers that is not empty has a least member ...
LEMMA LeastMember ==
  ASSUME NEW S \in SUBSET Nat, S # {}
  PROVE  \E x \in S : \A y \in S : x <= y
<1> DEFINE R == {p \in Nat \X Nat : p[1] < p[2]}
<1>1. IsWellFoundedOn(R, Nat)
  BY NatLessThanWellFounded DEF OpToRel
<1>2. \E x \in S : \A y \in S : <<y, x>> \notin R
  BY <1>1, WFMin
<1>3. \A x, y \in Nat : <<y, x>> \notin R => x <= y
  OBVIOUS
<1> HIDE DEF R
<1> QED
  BY <1>2, <1>3

\* ... and one that has a bound a greatest.
LEMMA MaxIsGreatest ==
  ASSUME NEW S \in SUBSET Nat, S # {}, NEW n \in Nat, \A x \in S : x <= n
  PROVE  Max(S) \in S /\ \A y \in S : y <= Max(S)
<1> DEFINE Below == {n - x : x \in S}
<1>1. Below \in SUBSET Nat /\ Below # {}
  <2>1. \A x \in S : n - x \in Nat
    OBVIOUS
  <2>2. PICK x \in S : TRUE
    OBVIOUS
  <2>3. n - x \in Below
    OBVIOUS
  <2> QED
    BY <2>1, <2>3
<1>2. PICK b \in Below : \A y \in Below : b <= y
  BY <1>1, LeastMember
<1>3. PICK x \in S : b = n - x
  OBVIOUS
<1>4. \A y \in S : y <= x
  <2> TAKE y \in S
  <2>1. n - y \in Below
    OBVIOUS
  <2> QED
    BY <1>2, <1>3, <2>1
<1>5. \E z \in S : \A y \in S : z >= y
  BY <1>4
<1> QED
  BY <1>5 DEF Max

-------------------------------------------------------------------------------
(* Directories *)

LEMMA NextIndexIsNew ==
  ASSUME NEW S \in SUBSET Slice, NEW n \in Nat, \A s \in S : s.idx <= n
  PROVE  NextIndex(S) \in Nat \ {0} /\ \A s \in S : s.idx < NextIndex(S)
<1> DEFINE I == {0} \cup {s.idx : s \in S}
<1>1. I \in SUBSET Nat /\ I # {} /\ \A i \in I : i <= n
  BY DEF Slice
<1>2. Max(I) \in I /\ \A i \in I : i <= Max(I)
  BY <1>1, MaxIsGreatest
<1>3. NextIndex(S) = 1 + Max(I)
  BY DEF NextIndex
<1>4. \A s \in S : s.idx \in I
  OBVIOUS
<1>5. 0 \in I /\ I \subseteq Nat
  BY <1>1
<1> HIDE DEF I
<1>6. Max(I) \in Nat
  BY <1>2, <1>5
<1>7. \A s \in S : s.idx \in Nat /\ s.idx <= Max(I)
  BY <1>2, <1>4, <1>5
<1> QED
  BY <1>3, <1>6, <1>7

\* What is deleted for room is one slice, the oldest, and it makes room.
LEMMA SurplusIsOldest ==
  ASSUME DepotInv, NEW d \in Days
  PROVE  /\ Surplus(d) \subseteq In(d) /\ IsFiniteSet(In(d))
         /\ Cardinality(In(d) \ Surplus(d)) < mDepotFileNum
         /\ \A o \in Surplus(d) : \A s \in In(d) : s # o => o.idx < s.idx
<1>1. In(d) \subseteq depot /\ depot \subseteq Slice /\ IsFiniteSet(depot)
  BY DEF DepotInv, TypeOK, FiniteInv, In
<1>2. IsFiniteSet(In(d)) /\ Cardinality(In(d)) \in Nat
  BY <1>1, FS_Subset, FS_CardinalityType
<1>3. Cardinality(In(d)) <= mDepotFileNum /\ mDepotFileNum \in Nat \ {0}
  BY DepotAssumption DEF DepotInv, RoomInv
<1>4. \A o \in Oldest(d) : o \in In(d) /\ \A s \in In(d) : s # o => o.idx < s.idx
  <2> SUFFICES ASSUME NEW o \in Oldest(d), NEW s \in In(d), s # o PROVE o \in In(d) /\ o.idx < s.idx
    BY DEF Oldest
  <2>1. o \in In(d) /\ o.idx <= s.idx /\ s.dir = d /\ o.dir = d
    BY DEF Oldest, In
  <2>2. o.idx # s.idx
    BY <1>1, <2>1 DEF DepotInv, OrderInv
  <2> QED
    BY <1>1, <2>1, <2>2 DEF Slice
<1>5. CASE Cardinality(In(d)) < mDepotFileNum
  <2>1. Surplus(d) = {} /\ In(d) \ Surplus(d) = In(d)
    BY <1>2, <1>3, <1>5 DEF Surplus
  <2> QED
    BY <1>2, <1>5, <2>1
<1>6. CASE ~(Cardinality(In(d)) < mDepotFileNum)
  <2>1. Surplus(d) = Oldest(d) /\ Cardinality(In(d)) = mDepotFileNum /\ In(d) # {}
    BY <1>2, <1>3, <1>6, FS_EmptySet DEF Surplus
  <2> DEFINE I == {s.idx : s \in In(d)}
  <2>2. I \in SUBSET Nat /\ I # {}
    BY <1>1, <2>1 DEF Slice
  <2>3. PICK i \in I : \A j \in I : i <= j
    BY <2>2, LeastMember
  <2>4. PICK o \in In(d) : o.idx = i
    OBVIOUS
  <2>5. o.day = d
    BY <1>1 DEF In, DepotInv, ClockInv, AllSlices
  <2>6. o \in Oldest(d)
    BY <2>3, <2>4, <2>5 DEF Oldest
  <2>7. \A s \in Oldest(d) : s = o
    BY <1>1, <1>4, <2>6 DEF Slice
  <2>8. Oldest(d) = {o}
    BY <2>6, <2>7
  <2>9. Cardinality(In(d) \ {o}) = Cardinality(In(d)) - 1
    BY <1>2, <2>4, FS_RemoveElement
  <2> QED
    BY <1>2, <1>3, <1>4, <2>1, <2>8, <2>9
<1> QED
  BY <1>5, <1>6

\* A slice under a new name replaces none.
LEMMA PutNew ==
  ASSUME NEW S, NEW s, \A t \in S : t.dir = s.dir => t.idx # s.idx
  PROVE  Put(S, s) = S \cup {s}
BY DEF Put

-------------------------------------------------------------------------------
(* Files and the buffer in front of them *)

RootType == [Days -> (SUBSET Logs) \cup {NoFile}]

LEMMA FlushedIsHeld ==
  ASSUME DepotInv
  PROVE  /\ Flushed \in RootType
         /\ \A d \in Days : /\ Flushed[d] # NoFile <=> IsThere(d)
                            /\ IsThere(d) => Flushed[d] = Held(d)
                            /\ ~IsThere(d) => Held(d) = {}
<1>1. /\ root \in RootType /\ buffer \subseteq Logs
      /\ buffer # {} => target \in Days /\ IsThere(target)
      /\ \A S \in SUBSET Logs : S # NoFile
  BY DepotAssumption DEF DepotInv, TypeOK, BufferInv, RootType, Content
<1>2. CASE buffer = {}
  <2>1. Flushed = root
    BY <1>2 DEF Flushed
  <2>2. \A d \in Days : Held(d) = Content(d)
    BY <1>2 DEF Held
  <2> QED
    BY <1>1, <2>1, <2>2 DEF Content, IsThere
<1>3. CASE buffer # {}
  <2>1. Flushed = [root EXCEPT ![target] = root[target] \cup buffer] /\ target \in Days
    BY <1>1, <1>3 DEF Flushed, Content
  <2>2. root[target] \in SUBSET Logs
    <3>1. root[target] \in (SUBSET Logs) \cup {NoFile}
      BY <1>1, <2>1 DEF RootType
    <3> QED
      BY <1>1, <1>3, <3>1 DEF IsThere
  <2> QED
    BY <1>1, <1>3, <2>1, <2>2 DEF Held, Content, IsThere, RootType
<1> QED
  BY <1>2, <1>3

\* A flush changes nothing of what belongs to a file.
LEMMA FlushKeeps ==
  ASSUME DepotInv, root' = Flushed, buffer' = {}
  PROVE  /\ root' \in RootType
         /\ \A d \in Days : /\ Held(d)' = Held(d) /\ Content(d)' = Held(d)
                            /\ IsThere(d)' <=> IsThere(d)
<1>1. /\ root' \in RootType
      /\ \A d \in Days : /\ root'[d] # NoFile <=> IsThere(d)
                         /\ IsThere(d) => root'[d] = Held(d)
                         /\ ~IsThere(d) => Held(d) = {}
  BY FlushedIsHeld
<1>2. \A d \in Days : IsThere(d)' <=> IsThere(d)
  BY <1>1 DEF IsThere
<1>3. \A d \in Days : Content(d)' = Held(d)
  BY <1>1, <1>2 DEF Content
<1>4. \A d \in Days : Held(d)' = Content(d)'
  BY DEF Held
<1> QED
  BY <1>1, <1>2, <1>3, <1>4

LEMMA OpenKeeps ==
  ASSUME DepotInv, NEW e \in Days, LoganOpen(e)
  PROVE  /\ root' \in RootType /\ buffer' = {} /\ target' = e
         /\ \A d \in Days : /\ Held(d)' = Held(d) /\ Content(d)' = Held(d)
                            /\ IsThere(d)' <=> IsThere(d) \/ d = e
<1>1. /\ root' = [Flushed EXCEPT ![e] = IF Flushed[e] = NoFile THEN {} ELSE Flushed[e]]
      /\ buffer' = {} /\ target' = e
  BY DEF LoganOpen
<1>2. /\ Flushed \in RootType
      /\ \A d \in Days : /\ Flushed[d] # NoFile <=> IsThere(d)
                         /\ IsThere(d) => Flushed[d] = Held(d)
                         /\ ~IsThere(d) => Held(d) = {}
  BY FlushedIsHeld
<1>3. {} # NoFile
  BY DepotAssumption
<1>4. root' \in RootType
  BY <1>1, <1>2 DEF RootType
<1>5. \A d \in Days : IsThere(d)' <=> IsThere(d) \/ d = e
  BY <1>1, <1>2, <1>3 DEF IsThere, RootType
<1>6. \A d \in Days : Content(d)' = Held(d)
  BY <1>1, <1>2, <1>3, <1>5 DEF Content, IsThere, RootType
<1>7. \A d \in Days : Held(d)' = Content(d)'
  BY <1>1 DEF Held
<1> QED
  BY <1>1, <1>4, <1>5, <1>6, <1>7

\* A write adds its line to the file that is open and to no other.
LEMMA WriteAdds ==
  ASSUME DepotInv, target \in Days, NEW w \in Logs, LoganWrite(w), target' = target
  PROVE  /\ root' \in RootType /\ buffer' \subseteq Logs /\ Cardinality(buffer') < BufferCap
         /\ buffer' # {} => Content(target)' # {}
         /\ Held(target)' = Held(target) \cup {w}
         /\ \A d \in Days \ {target} : Held(d)' = Held(d) /\ Content(d)' = Content(d)
         /\ \A d \in Days : IsThere(d)' <=> IsThere(d) \/ d = target
<1>1. /\ root \in RootType /\ buffer \subseteq Logs
      /\ buffer # {} => Content(target) # {}
      /\ \A S \in SUBSET Logs : S # NoFile
      /\ BufferCap \in Nat \ {0}
  BY DepotAssumption DEF DepotInv, TypeOK, BufferInv, RootType
<1>2. IsFiniteSet(buffer) /\ Cardinality(buffer) \in Nat /\ Cardinality(buffer) < BufferCap
  <2>1. IsFiniteSet(Logs)
    BY DepotAssumption, FS_Interval DEF Logs
  <2>2. IsFiniteSet(buffer)
    BY <1>1, <2>1, FS_Subset
  <2> QED
    BY <2>2, FS_CardinalityType DEF DepotInv, BufferInv
<1>3. Content(target) \in SUBSET Logs
  <2>1. root[target] \in (SUBSET Logs) \cup {NoFile}
    BY <1>1 DEF RootType
  <2> QED
    BY <2>1 DEF Content, IsThere
<1>4. CASE /\ root' = [root EXCEPT ![target] = Content(target) \cup buffer \cup {w}]
           /\ buffer' = {}
  <2>1. root'[target] = Content(target) \cup buffer \cup {w} /\ root'[target] \in SUBSET Logs
    BY <1>1, <1>3, <1>4 DEF RootType
  <2>2. \A d \in Days \ {target} : root'[d] = root[d]
    BY <1>4
  <2>3. root' \in RootType
    BY <1>1, <1>4, <2>1 DEF RootType
  <2>4. Content(target)' = Content(target) \cup buffer \cup {w}
    BY <1>1, <2>1 DEF Content, IsThere
  <2>5. \A d \in Days \ {target} : Content(d)' = Content(d)
    BY <2>2 DEF Content, IsThere
  <2>6. \A d \in Days : IsThere(d)' <=> IsThere(d) \/ d = target
    BY <1>1, <2>1, <2>2 DEF IsThere
  <2>7. Cardinality(buffer') < BufferCap
    BY <1>1, <1>4, FS_EmptySet
  <2> QED
    BY <1>1, <1>4, <2>3, <2>4, <2>5, <2>6, <2>7 DEF Held
<1>5. CASE /\ ~(Content(target) = {} \/ Cardinality(buffer) + 1 >= BufferCap)
           /\ buffer' = buffer \cup {w}
           /\ root' = [root EXCEPT ![target] = Content(target)]
  <2>1. root[target] = Content(target) /\ IsThere(target)
    BY <1>5 DEF Content
  <2>2. root' = root
    BY <1>1, <1>5, <2>1 DEF RootType
  <2>3. Cardinality(buffer') <= Cardinality(buffer) + 1 /\ Cardinality(buffer') \in Nat
    <3>1. Cardinality(buffer \cup {w}) = IF w \in buffer THEN Cardinality(buffer)
                                        ELSE Cardinality(buffer) + 1
      BY <1>2, FS_AddElement
    <3> QED
      BY <1>2, <1>5, <3>1
  <2>4. Cardinality(buffer') < BufferCap
    BY <1>1, <1>2, <1>5, <2>3
  <2>5. \A d \in Days : Content(d)' = Content(d) /\ IsThere(d)' = IsThere(d)
    BY <2>2 DEF Content, IsThere
  <2> QED
    BY <1>1, <1>5, <2>1, <2>2, <2>4, <2>5 DEF Held
<1> QED
  BY <1>4, <1>5 DEF LoganWrite

-------------------------------------------------------------------------------
(* What the steps do to the slices and lines *)

LEMMA SliceFacts ==
  ASSUME DepotInv
  PROVE  /\ depot \subseteq Slice /\ evicted \subseteq Slice /\ AllSlices \subseteq Slice
         /\ \A s \in AllSlices : s.dir \in Days /\ s.idx \in Nat /\ s.logs \subseteq Logs
         /\ \A d \in Days : IsFiniteSet(In(d)) /\ In(d) \subseteq depot
BY FS_Subset DEF DepotInv, TypeOK, FiniteInv, AllSlices, In, Slice

\* A step that moves no line to another file and no slice
LEMMA SameContents ==
  ASSUME DepotInv, UNCHANGED <<depot, evicted, expired, last>>,
         \A d \in Days : Held(d)' = Held(d)
  PROVE  /\ FiniteInv' /\ LinesInv' /\ OrderInv' /\ RoomInv' /\ AllSlices' = AllSlices
         /\ \A d \in Days : Cardinality(Held(d)') <= mSimpleSize + BufferCap
<1>1. AllSlices' = AllSlices /\ \A d : In(d)' = In(d)
  BY DEF AllSlices, In
<1>2. FiniteInv' /\ RoomInv'
  BY <1>1 DEF DepotInv, FiniteInv, RoomInv
<1>3. LinesInv'
  BY <1>1 DEF DepotInv, LinesInv
<1>4. OrderInv'
  BY <1>1, SliceFacts DEF DepotInv, OrderInv
<1> QED
  BY <1>1, <1>2, <1>3, <1>4 DEF DepotInv, SizeInv

\* The slices D of a directory, its oldest, are deleted.
LEMMA Evict ==
  ASSUME DepotInv, UNCHANGED <<expired, last>>, NEW d \in Days, NEW D \in SUBSET In(d),
         \A o \in D : \A s \in In(d) : s # o => o.idx < s.idx,
         depot' = depot \ D, evicted' = evicted \cup D,
         \A e \in Days : Held(e)' = Held(e)
  PROVE  /\ FiniteInv' /\ LinesInv' /\ OrderInv' /\ RoomInv' /\ AllSlices' = AllSlices
         /\ In(d)' = In(d) \ D
         /\ \A e \in Days : Cardinality(Held(e)') <= mSimpleSize + BufferCap
<1>1. AllSlices' = AllSlices /\ \A e : In(e)' \subseteq In(e)
  BY DEF AllSlices, In
<1>2. In(d)' = In(d) \ D
  BY DEF In
<1>3. FiniteInv'
  BY FS_Subset DEF DepotInv, FiniteInv
<1>4. RoomInv'
  <2> SUFFICES ASSUME NEW e \in Days PROVE Cardinality(In(e)') <= mDepotFileNum
    BY DEF RoomInv
  <2>1. IsFiniteSet(In(e)) /\ Cardinality(In(e)) \in Nat /\ Cardinality(In(e)) <= mDepotFileNum
    BY SliceFacts, FS_CardinalityType DEF DepotInv, RoomInv
  <2>2. Cardinality(In(e)') <= Cardinality(In(e)) /\ IsFiniteSet(In(e)')
    BY <1>1, <2>1, FS_Subset
  <2>3. Cardinality(In(e)') \in Nat
    BY <2>2, FS_CardinalityType
  <2> QED
    BY <2>1, <2>2, <2>3, DepotAssumption
<1>5. LinesInv'
  BY <1>1 DEF DepotInv, LinesInv
<1>6. OrderInv'
  <2>1. \A s, t \in depot' : s.dir = t.dir /\ s.idx = t.idx => s = t
    BY DEF DepotInv, OrderInv
  <2>2. \A s, t \in depot' : s.dir = t.dir /\ s.idx < t.idx => Before(s.logs, t.logs)
    BY DEF DepotInv, OrderInv
  <2>3. \A e \in evicted' : \A s \in In(e.dir)' : Before(e.logs, s.logs)
    <3> SUFFICES ASSUME NEW e \in evicted', NEW s \in In(e.dir)' PROVE Before(e.logs, s.logs)
      OBVIOUS
    <3>1. s \in In(e.dir) /\ s \notin D /\ s \in depot /\ s.dir = e.dir
      BY DEF In
    <3>2. CASE e \in evicted
      BY <3>1, <3>2 DEF DepotInv, OrderInv
    <3>3. CASE e \in D
      <4>1. e \in depot /\ e.dir = d /\ e.idx < s.idx
        BY <3>1, <3>3 DEF In
      <4> QED
        BY <3>1, <4>1 DEF DepotInv, OrderInv
    <3> QED
      BY <3>2, <3>3
  <2>4. \A s \in AllSlices' : Before(s.logs, Held(s.dir)')
    BY <1>1, SliceFacts DEF DepotInv, OrderInv
  <2> QED
    BY <2>1, <2>2, <2>3, <2>4 DEF OrderInv
<1> QED
  BY <1>1, <1>2, <1>3, <1>4, <1>5, <1>6 DEF DepotInv, SizeInv

\* The file of day f becomes the slice s, in the place of the oldest ones D.
LEMMA AddSlice ==
  ASSUME DepotInv, UNCHANGED <<expired, last>>, NEW f \in Days,
         NEW s \in Slice, NEW D \in SUBSET In(s.dir),
         \A o \in D : \A t \in In(s.dir) : t # o => o.idx < t.idx,
         depot' = (depot \ D) \cup {s}, evicted' = evicted \cup D,
         s.logs = Held(f), Held(f)' = {}, Held(s.dir)' = {},
         \A d \in Days : Held(d)' = Held(d) \/ Held(d) = {} \/ d = f,
         \A d \in Days : Held(d)' \subseteq Held(d),
         \A t \in In(s.dir) \ D : t.idx < s.idx,
         \A t \in AllSlices : t.dir = s.dir => Before(t.logs, s.logs),
         Cardinality(In(s.dir) \ D) < mDepotFileNum
  PROVE  /\ FiniteInv' /\ LinesInv' /\ OrderInv' /\ RoomInv' /\ AllSlices' = AllSlices \cup {s}
         /\ In(s.dir)' = (In(s.dir) \ D) \cup {s}
         /\ \A d \in Days : Cardinality(Held(d)') <= mSimpleSize + BufferCap
<1>0. s.dir \in Days /\ s.idx \in Nat \ {0} /\ s.logs \subseteq Logs
  BY DEF Slice
<1>1. AllSlices' = AllSlices \cup {s}
  BY DEF AllSlices, In
<1>2. In(s.dir)' = (In(s.dir) \ D) \cup {s} /\ \A d : d # s.dir => In(d)' = In(d)
  BY DEF In
<1>3. FiniteInv'
  <2>1. IsFiniteSet(depot')
    <3>1. IsFiniteSet(depot \ D)
      BY FS_Subset DEF DepotInv, FiniteInv
    <3> QED
      BY <3>1, FS_AddElement
  <2>2. PICK n \in Nat : \A t \in depot : t.idx <= n
    BY DEF DepotInv, FiniteInv
  <2>3. \A t \in depot' : t.idx <= n + s.idx
    BY <1>0, <2>2, SliceFacts DEF AllSlices
  <2>4. n + s.idx \in Nat
    BY <1>0
  <2> QED
    BY <2>1, <2>3, <2>4 DEF FiniteInv
<1>4. RoomInv'
  <2>1. IsFiniteSet(In(s.dir) \ D)
    BY <1>0, SliceFacts, FS_Subset
  <2>2. Cardinality(In(s.dir) \ D) \in Nat
    BY <2>1, FS_CardinalityType
  <2>3. Cardinality(In(s.dir)') = Cardinality(In(s.dir) \ D)
           \/ Cardinality(In(s.dir)') = Cardinality(In(s.dir) \ D) + 1
    BY <1>2, <2>1, FS_AddElement
  <2>4. Cardinality(In(s.dir)') <= mDepotFileNum
    BY <2>2, <2>3, DepotAssumption
  <2> QED
    BY <1>2, <2>4 DEF DepotInv, RoomInv
<1>5. LinesInv'
  <2>1. \A d \in Days : Held(d)' \subseteq 1..last
    BY DEF DepotInv, LinesInv
  <2>2. \A t \in AllSlices' : t.logs \subseteq 1..last
    BY <1>1 DEF DepotInv, LinesInv
  <2>3. \A x \in 1..last : \/ \E d \in Days : x \in Held(d)'
                           \/ \E t \in AllSlices' : x \in t.logs
                           \/ x \in expired
    BY <1>1 DEF DepotInv, LinesInv
  <2>4. last' = last /\ expired' = expired
    OBVIOUS
  <2> QED
    BY <2>1, <2>2, <2>3, <2>4 DEF LinesInv
<1>6. OrderInv'
  <2>1. \A t \in depot' : t.dir = s.dir => t = s \/ t \in In(s.dir) \ D
    BY DEF In
  <2>2. \A t, u \in depot' : t.dir = u.dir /\ t.idx = u.idx => t = u
    <3> SUFFICES ASSUME NEW t \in depot', NEW u \in depot', t.dir = u.dir, t.idx = u.idx
                 PROVE  t = u
      OBVIOUS
    <3>1. CASE t \in depot /\ u \in depot
      BY <3>1 DEF DepotInv, OrderInv
    <3>2. CASE t = s \/ u = s
      BY <1>0, <2>1, <3>2, SliceFacts DEF AllSlices
    <3> QED
      BY <3>1, <3>2
  <2>3. \A t, u \in depot' : t.dir = u.dir /\ t.idx < u.idx => Before(t.logs, u.logs)
    <3> SUFFICES ASSUME NEW t \in depot', NEW u \in depot', t.dir = u.dir, t.idx < u.idx
                 PROVE  Before(t.logs, u.logs)
      OBVIOUS
    <3>1. CASE t \in depot /\ u \in depot
      BY <3>1 DEF DepotInv, OrderInv
    <3>2. CASE t # s /\ u = s
      BY <3>2 DEF AllSlices
    <3>3. CASE t = s
      BY <1>0, <2>1, <3>3, SliceFacts DEF AllSlices
    <3> QED
      BY <3>1, <3>2, <3>3
  <2>4. \A e \in evicted' : \A t \in In(e.dir)' : Before(e.logs, t.logs)
    <3> SUFFICES ASSUME NEW e \in evicted', NEW t \in In(e.dir)' PROVE Before(e.logs, t.logs)
      OBVIOUS
    <3>1. t \in depot' /\ t.dir = e.dir
      BY DEF In
    <3>2. e \in AllSlices
      BY DEF AllSlices, In
    <3>3. CASE t = s
      BY <3>1, <3>2, <3>3
    <3>4. CASE t # s
      <4>1. t \in In(e.dir) /\ t \notin D
        BY <3>1, <3>4 DEF In
      <4>2. CASE e \in evicted
        BY <4>1, <4>2 DEF DepotInv, OrderInv
      <4>3. CASE e \in D
        <5>1. e \in depot /\ e.dir = s.dir /\ e.idx < t.idx /\ t \in depot
          BY <3>1, <4>1, <4>3 DEF In
        <5> QED
          BY <3>1, <5>1 DEF DepotInv, OrderInv
      <4> QED
        BY <4>2, <4>3
    <3> QED
      BY <3>3, <3>4
  <2>5. \A t \in AllSlices' : Before(t.logs, Held(t.dir)')
    <3> SUFFICES ASSUME NEW t \in AllSlices' PROVE Before(t.logs, Held(t.dir)')
      OBVIOUS
    <3>1. CASE t = s
      BY <3>1 DEF Before
    <3>2. CASE t \in AllSlices
      BY <3>2, SliceFacts DEF Before, DepotInv, OrderInv
    <3> QED
      BY <1>1, <3>1, <3>2
  <2> QED
    BY <2>2, <2>3, <2>4, <2>5 DEF OrderInv
<1>7. \A d \in Days : Cardinality(Held(d)') <= mSimpleSize + BufferCap
  <2> SUFFICES ASSUME NEW d \in Days PROVE Cardinality(Held(d)') <= mSimpleSize + BufferCap
    OBVIOUS
  <2>1. CASE Held(d)' = {}
    <3>1. Cardinality(Held(d)') = 0
      BY <2>1, FS_EmptySet
    <3> QED
      BY <3>1, DepotAssumption
  <2>2. CASE Held(d)' = Held(d)
    BY <2>2 DEF DepotInv, SizeInv
  <2>3. Held(d)' = {} \/ Held(d)' = Held(d)
    OBVIOUS
  <2> QED
    BY <2>1, <2>2, <2>3
<1> QED
  BY <1>1, <1>2, <1>3, <1>4, <1>5, <1>6, <1>7

-------------------------------------------------------------------------------
(* The operations *)

LEMMA Numbers ==
  ASSUME DepotInv
  PROVE  /\ Days \subseteq Nat \ {0} /\ LastDay \in Nat \ {0}
         /\ today \in Days /\ mCurrentDay \in Days \cup {0} /\ target \in Days \cup {0}
         /\ mSimpleSize \in Nat \ {0} /\ BufferCap \in Nat \ {0}
         /\ mDepotFileNum \in Nat \ {0} /\ mSaveTime \in Nat
         /\ op.file \in Days /\ op.dir \in Days /\ op.day \in Days /\ op.idx \in Nat
         /\ op.rest \subseteq Days
         /\ last \in Nat /\ root \in RootType /\ 0 < BufferCap
BY DepotAssumption DEF DepotInv, TypeOK, Op, Days, RootType

LEMMA IdleOp ==
  /\ Idle \in Op /\ Idle.pc = "idle" /\ Idle.idx = 0 /\ Idle.writing = FALSE
  /\ Idle.rest = {}
<1>1. 1 \in Days
  BY DepotAssumption DEF Days
<1> QED
  BY <1>1 DEF Idle, Op

LEMMA InitD == Init => DepotInv
<1> SUFFICES ASSUME Init PROVE DepotInv
  OBVIOUS
<1>0. /\ LastDay \in Nat \ {0} /\ 1 \in Days /\ Days \subseteq Nat \ {0}
      /\ mSimpleSize \in Nat \ {0} /\ BufferCap \in Nat \ {0} /\ mDepotFileNum \in Nat \ {0}
      /\ Budget \in [Events -> Nat]
  BY DepotAssumption DEF Days
<1>1. TypeOK
  <2>1. root \in [Days -> (SUBSET Logs) \cup {NoFile}]
    BY DEF Init
  <2>2. op \in Op /\ left \in [Events -> Nat]
    BY <1>0, IdleOp DEF Init
  <2>3. last \in 0..MaxWrites
    BY DepotAssumption DEF Init
  <2>4. /\ today \in Days /\ mCurrentDay \in Days \cup {0} /\ target \in Days \cup {0}
        /\ idle \in 0..2 /\ unchecked \in 0..2
    BY <1>0 DEF Init
  <2>5. dirs \subseteq Days /\ depot \subseteq Slice /\ buffer \subseteq Logs
        /\ evicted \subseteq Slice /\ expired \subseteq Logs
        /\ space \in BOOLEAN /\ mIsSDCard \in BOOLEAN
    BY DEF Init
  <2> QED
    BY <2>1, <2>2, <2>3, <2>4, <2>5 DEF TypeOK
<1>2. \A d \in Days : ~IsThere(d) /\ Content(d) = {} /\ Held(d) = {}
  BY DEF Init, IsThere, Content, Held
<1>3. /\ op.pc = "idle" /\ AllSlices = {} /\ \A d : In(d) = {}
      /\ Cardinality({}) = 0 /\ IsFiniteSet({})
  BY FS_EmptySet DEF Init, Idle, AllSlices, In
<1>4. FiniteInv
  BY <1>3 DEF Init, FiniteInv
<1>5. ClockInv /\ OpInv
  BY <1>0, <1>2, <1>3 DEF Init, ClockInv, OpInv
<1>6. BufferInv /\ LinesInv /\ RoomInv /\ OrderInv
  BY <1>0, <1>2, <1>3 DEF Init, BufferInv, LinesInv, RoomInv, OrderInv
<1>7. SizeInv
  <2>1. \A d \in Days : Cardinality(Held(d)) = 0
    BY <1>2, <1>3
  <2>2. 0 < mSimpleSize + BufferCap /\ 0 <= mSimpleSize + BufferCap
    BY <1>0
  <2> QED
    BY <1>0, <1>3, <2>1, <2>2 DEF Init, SizeInv
<1> QED
  BY <1>1, <1>4, <1>5, <1>6, <1>7 DEF DepotInv

LEMMA StartWriteD == ASSUME DepotInv, StartWrite PROVE DepotInv'
<1>1. /\ op.pc = "idle" /\ op' = [Idle EXCEPT !.pc = "slice", !.writing = TRUE]
      /\ UNCHANGED <<today, depot, last, space, mIsSDCard, idle, unchecked, left, evicted, expired>>
  BY DEF StartWrite, card
<1>2. op'.pc = "slice" /\ op' \in Op
  BY <1>1, IdleOp DEF Op
<1>3. /\ root' \in RootType /\ buffer' \subseteq Logs /\ target' = today
      /\ mCurrentDay' = today /\ dirs' \subseteq dirs \cup {today}
      /\ buffer' # {} => Content(target)' # {}
      /\ Cardinality(buffer') < BufferCap
      /\ \A d \in Days : Held(d)' = Held(d) /\ (IsThere(d)' => IsThere(d) \/ d = today)
  <2>1. CASE mCurrentDay # today
    <3>1. mCurrentDay' = today /\ dirs' = dirs \cup {today} /\ LoganOpen(today)
      BY <2>1 DEF StartWrite
    <3> QED
      BY <3>1, Numbers, OpenKeeps, FS_EmptySet
  <2>2. CASE mCurrentDay = today
    <3>1. UNCHANGED <<mCurrentDay, dirs, root, buffer, target>>
      BY <2>2 DEF StartWrite
    <3>2. target = today
      BY <2>2, Numbers DEF DepotInv, ClockInv
    <3>3. \A d \in Days : Held(d)' = Held(d) /\ IsThere(d)' = IsThere(d) /\ Content(d)' = Content(d)
      BY <3>1 DEF Held, IsThere, Content
    <3>4. /\ buffer \subseteq Logs /\ Cardinality(buffer) < BufferCap
          /\ buffer # {} => Content(target) # {}
      BY DEF DepotInv, TypeOK, BufferInv
    <3>5. buffer' # {} => Content(target)' # {}
      BY <3>1, <3>2, <3>3, <3>4, Numbers
    <3> QED
      BY <2>2, <3>1, <3>2, <3>3, <3>4, <3>5, Numbers
  <2> QED
    BY <2>1, <2>2
<1>4. /\ FiniteInv' /\ LinesInv' /\ OrderInv' /\ RoomInv' /\ AllSlices' = AllSlices
      /\ \A d \in Days : Cardinality(Held(d)') <= mSimpleSize + BufferCap
  BY <1>1, <1>3, SameContents
<1>5. TypeOK'
  BY <1>1, <1>2, <1>3, Numbers DEF DepotInv, TypeOK, RootType
<1>6. ClockInv'
  BY <1>1, <1>3, <1>4, Numbers DEF DepotInv, ClockInv
<1>7. BufferInv' /\ OpInv'
  BY <1>1, <1>2, <1>3, Numbers DEF BufferInv, OpInv
<1>8. SizeInv'
  BY <1>1, <1>2, <1>3, <1>4, Numbers DEF DepotInv, SizeInv
<1> QED
  BY <1>4, <1>5, <1>6, <1>7, <1>8 DEF DepotInv

\* A step that changes at most op, the clock and what is known of the card
LEMMA SameFiles ==
  ASSUME DepotInv, UNCHANGED <<files, mCurrentDay, last>>
  PROVE  /\ UNCHANGED <<root, dirs, depot, target, buffer, evicted, expired, mCurrentDay, last>>
         /\ FiniteInv' /\ LinesInv' /\ OrderInv' /\ RoomInv' /\ AllSlices' = AllSlices
         /\ \A d \in Days : /\ Cardinality(Held(d)') <= mSimpleSize + BufferCap
                            /\ Held(d)' = Held(d) /\ IsThere(d)' = IsThere(d)
                            /\ Content(d)' = Content(d) /\ In(d)' = In(d)
<1>1. /\ UNCHANGED <<root, dirs, depot, target, buffer, evicted, expired, mCurrentDay, last>>
      /\ \A d \in Days : /\ Held(d)' = Held(d) /\ IsThere(d)' = IsThere(d)
                         /\ Content(d)' = Content(d) /\ In(d)' = In(d)
  BY DEF files, Held, IsThere, Content, In
<1> QED
  BY <1>1, SameContents

LEMMA TestSliceD == ASSUME DepotInv, TestSlice PROVE DepotInv'
<1>1. /\ op.pc = "slice" /\ UNCHANGED <<today, space, mIsSDCard, idle, unchecked, left>>
      /\ UNCHANGED <<files, mCurrentDay, last>>
  BY DEF TestSlice, card
<1>2. \/ /\ SliceTest /\ op' = [op EXCEPT !.pc = "cut", !.file = today]
      \/ /\ ~SliceTest /\ op' = [op EXCEPT !.pc = "append"]
  BY DEF TestSlice
<1>3. op \in Op /\ today \in Days
  BY DEF DepotInv, TypeOK
<1>4. \/ SliceTest /\ op'.pc = "cut" /\ op'.file = today /\ op' \in Op
      \/ ~SliceTest /\ op'.pc = "append" /\ op' \in Op
  <2>1. [op EXCEPT !.pc = "cut", !.file = today] \in Op /\ [op EXCEPT !.pc = "append"] \in Op
    BY <1>3 DEF Op
  <2>2. \A o \in Op : /\ [o EXCEPT !.pc = "cut", !.file = today].pc = "cut"
                     /\ [o EXCEPT !.pc = "cut", !.file = today].file = today
                     /\ [o EXCEPT !.pc = "append"].pc = "append"
    BY DEF Op
  <2> QED
    BY <1>2, <1>3, <2>1, <2>2
<1>5. TypeOK'
  BY <1>1, <1>4, SameFiles DEF DepotInv, TypeOK
<1>6. ClockInv'
  BY <1>1, Numbers, SameFiles DEF DepotInv, ClockInv
<1>7. BufferInv'
  BY <1>1, <1>4, SameFiles DEF DepotInv, BufferInv
<1>8. OpInv'
  BY <1>1, <1>4, SameFiles, Numbers DEF DepotInv, ClockInv, OpInv, SliceTest
<1>9. SizeInv'
  <2>1. op'.pc = "append" => Cardinality(Content(today)) < mSimpleSize
    <3> SUFFICES ASSUME ~SliceTest PROVE Cardinality(Content(today)) < mSimpleSize
      BY <1>4
    <3>1. CASE ~IsThere(today)
      <4>1. Cardinality(Content(today)) = 0
        BY <3>1, FS_EmptySet DEF Content
      <4> QED
        BY <4>1, Numbers
    <3>2. CASE IsThere(today)
      <4>1. Content(today) = root[today] /\ root[today] \in SUBSET Logs
        <5>1. root[today] \in (SUBSET Logs) \cup {NoFile}
          BY Numbers DEF RootType
        <5> QED
          BY <3>2, <5>1 DEF Content, IsThere
      <4>2. IsFiniteSet(root[today])
        <5>1. IsFiniteSet(Logs)
          BY FS_Interval, DepotAssumption DEF Logs
        <5> QED
          BY <4>1, <5>1, FS_Subset
      <4>3. Cardinality(root[today]) \in Nat
        BY <4>2, FS_CardinalityType
      <4> QED
        BY <3>2, <4>1, <4>3, Numbers DEF SliceTest
    <3> QED
      BY <3>1, <3>2
  <2>2. op'.pc = "append" => target \in Days
    BY <1>1, Numbers DEF DepotInv, OpInv
  <2>3. \A d \in Days : Held(d)' = Held(d) /\ Content(d)' = Content(d)
    BY <1>1, SameFiles
  <2>4. target' = target /\ today' = today
    BY <1>1, SameFiles
  <2>5. Held(today)' = Held(today) /\ Content(today)' = Content(today)
    BY <2>3, <2>4, Numbers
  <2>6. op'.pc = "append" => Held(target)' = Held(target)
    BY <2>2, <2>3, <2>4
  <2> QED
    BY <1>1, <1>4, <2>1, <2>4, <2>5, <2>6, SameFiles DEF DepotInv, SizeInv
<1> QED
  BY <1>1, <1>5, <1>6, <1>7, <1>8, <1>9, SameFiles DEF DepotInv

LEMMA ReOpenD == ASSUME DepotInv, ReOpen PROVE DepotInv'
<1>1. /\ op.pc = "idle" /\ UNCHANGED <<today, space, mIsSDCard, idle, unchecked, left>>
      /\ UNCHANGED <<files, mCurrentDay, last>> /\ IsThere(today)
  BY DEF ReOpen, card
<1>2. op' = [Idle EXCEPT !.pc = "cut", !.file = today]
  BY DEF ReOpen
<1>3. op'.pc = "cut" /\ op'.file = today /\ op' \in Op
  BY <1>2, IdleOp, Numbers DEF Op
<1>4. TypeOK'
  BY <1>1, <1>3, SameFiles DEF DepotInv, TypeOK
<1>5. ClockInv' /\ BufferInv'
  BY <1>1, <1>3, Numbers, SameFiles DEF DepotInv, ClockInv, BufferInv
<1>6. OpInv'
  BY <1>1, <1>3, SameFiles, Numbers DEF DepotInv, ClockInv, OpInv
<1>7. SizeInv'
  BY <1>1, <1>3, SameFiles, Numbers DEF DepotInv, SizeInv
<1> QED
  BY <1>1, <1>4, <1>5, <1>6, <1>7, SameFiles DEF DepotInv

\* Room is made in the directory of today, or the empty file is deleted.
LEMMA CutD == ASSUME DepotInv, Cut PROVE DepotInv'
<1>1. /\ op.pc = "cut" /\ buffer' = {}
      /\ UNCHANGED <<today, mCurrentDay, target, last, space, mIsSDCard, idle, unchecked, left, expired>>
  BY DEF Cut, card
<1>2. /\ op \in Op /\ op.file \in Days /\ op.file <= today /\ IsThere(op.file)
      /\ \A d \in Days : IsThere(d) => d <= op.file
      /\ \A s \in AllSlices : s.dir <= op.file
  BY <1>1, Numbers DEF DepotInv, TypeOK, OpInv
<1>3. Flushed[op.file] = Held(op.file) /\ Flushed \in RootType
  BY <1>2, FlushedIsHeld
<1>4. CASE Flushed[op.file] = {}
  <2>1. /\ root' = [Flushed EXCEPT ![op.file] = NoFile] /\ op' = [op EXCEPT !.pc = "open"]
        /\ UNCHANGED <<dirs, depot, evicted>>
    BY <1>4 DEF Cut
  <2>2. root' \in RootType /\ op' \in Op /\ op'.pc = "open"
    BY <1>2, <1>3, <2>1 DEF RootType, Op
  <2>3. \A d \in Days : /\ IsThere(d)' <=> IsThere(d) /\ d # op.file
                        /\ Content(d)' = Held(d) /\ Held(d)' = Held(d)
    <3> SUFFICES ASSUME NEW d \in Days
                 PROVE  /\ IsThere(d)' <=> IsThere(d) /\ d # op.file
                        /\ Content(d)' = Held(d) /\ Held(d)' = Held(d)
      OBVIOUS
    <3>1. Held(d)' = Content(d)'
      BY <1>1 DEF Held
    <3>2. CASE d = op.file
      BY <1>2, <1>3, <1>4, <2>1, <3>1, <3>2 DEF RootType, IsThere, Content
    <3>3. CASE d # op.file
      <4>1. root'[d] = Flushed[d]
        BY <1>3, <2>1, <3>3 DEF RootType
      <4> QED
        BY <3>1, <3>3, <4>1, FlushedIsHeld DEF IsThere, Content
    <3> QED
      BY <3>2, <3>3
  <2>4. /\ FiniteInv' /\ LinesInv' /\ OrderInv' /\ RoomInv' /\ AllSlices' = AllSlices
        /\ \A d \in Days : Cardinality(Held(d)') <= mSimpleSize + BufferCap
    BY <1>1, <2>1, <2>3, SameContents
  <2>5. TypeOK'
    BY <1>1, <2>1, <2>2, Numbers DEF DepotInv, TypeOK, RootType
  <2>6. ClockInv'
    BY <1>1, <2>1, <2>3, <2>4, Numbers DEF DepotInv, ClockInv
  <2>7. BufferInv'
    BY <1>1, <2>2, FS_EmptySet, Numbers DEF BufferInv
  <2>8. Content(today)' = {}
    <3>1. CASE today = op.file
      BY <1>1, <1>2, <1>3, <1>4, <2>3, <3>1
    <3>2. CASE today # op.file
      <4>1. ~IsThere(today)
        BY <1>2, <3>2, Numbers
      <4> QED
        BY <1>1, <2>3, <4>1, FlushedIsHeld, Numbers
    <3> QED
      BY <3>1, <3>2
  <2>9. OpInv'
    BY <1>1, <2>2, <2>8 DEF OpInv
  <2>10. SizeInv'
    BY <1>1, <2>2, <2>3, <2>4, Numbers DEF DepotInv, SizeInv
  <2> QED
    BY <2>4, <2>5, <2>6, <2>7, <2>9, <2>10 DEF DepotInv
<1>5. CASE Flushed[op.file] # {}
  <2>1. /\ root' = Flushed /\ dirs' = dirs \cup {today} /\ depot' = depot \ Surplus(today)
        /\ evicted' = evicted \cup Surplus(today)
        /\ op' = [op EXCEPT !.pc = "name", !.dir = today]
    BY <1>5 DEF Cut
  <2>2. op' \in Op /\ op'.pc = "name" /\ op'.dir = today /\ op'.file = op.file
    BY <1>2, <2>1, Numbers DEF Op
  <2>3. /\ root' \in RootType
        /\ \A d \in Days : /\ Held(d)' = Held(d) /\ Content(d)' = Held(d)
                           /\ IsThere(d)' <=> IsThere(d)
    BY <1>1, <2>1, FlushKeeps
  <2>4. /\ today \in Days /\ Surplus(today) \subseteq In(today)
        /\ Cardinality(In(today) \ Surplus(today)) < mDepotFileNum
        /\ \A o \in Surplus(today) : \A s \in In(today) : s # o => o.idx < s.idx
    BY Numbers, SurplusIsOldest
  <2>5. /\ FiniteInv' /\ LinesInv' /\ OrderInv' /\ RoomInv' /\ AllSlices' = AllSlices
        /\ In(today)' = In(today) \ Surplus(today)
        /\ \A d \in Days : Cardinality(Held(d)') <= mSimpleSize + BufferCap
    BY <1>1, <2>1, <2>3, <2>4, Evict
  <2>6. TypeOK'
    <3>1. depot' \subseteq Slice /\ evicted' \subseteq Slice
      BY <2>1, <2>4, SliceFacts
    <3> QED
      BY <1>1, <2>1, <2>2, <2>3, <3>1, Numbers DEF DepotInv, TypeOK, RootType
  <2>7. ClockInv'
    BY <1>1, <2>1, <2>3, <2>5, Numbers DEF DepotInv, ClockInv
  <2>8. BufferInv'
    BY <1>1, <2>2, FS_EmptySet, Numbers DEF BufferInv
  <2>9. OpInv'
    <3>1. root'[op'.file] # {}
      BY <1>5, <2>1, <2>2
    <3>2. today \in dirs' /\ \A d \in dirs' : d <= today
      BY <2>1, Numbers DEF DepotInv, ClockInv
    <3>3. In(op.dir)' = In(today)'
      BY <1>1, <2>2 DEF In
    <3>4. Cardinality(In(op.dir)') < mDepotFileNum
      BY <2>4, <2>5, <3>3
    <3> QED
      BY <1>1, <1>2, <2>2, <2>3, <2>5, <3>1, <3>2, <3>4, Numbers DEF OpInv
  <2>10. SizeInv'
    BY <1>1, <2>2, <2>3, <2>5, Numbers DEF DepotInv, SizeInv
  <2> QED
    BY <2>5, <2>6, <2>7, <2>8, <2>9, <2>10 DEF DepotInv
<1> QED
  BY <1>4, <1>5

LEMMA NameD == ASSUME DepotInv, Name PROVE DepotInv'
<1>1. /\ op.pc = "name" /\ UNCHANGED <<today, space, mIsSDCard, idle, unchecked, left>>
      /\ UNCHANGED <<files, mCurrentDay, last>>
      /\ op' = [op EXCEPT !.pc = "move", !.day = today, !.idx = NextIndex(In(op.dir))]
  BY DEF Name, card
<1>2. NextIndex(In(op.dir)) \in Nat \ {0} /\ \A s \in In(op.dir) : s.idx < NextIndex(In(op.dir))
  <2>1. PICK n \in Nat : \A s \in depot : s.idx <= n
    BY DEF DepotInv, FiniteInv
  <2>2. In(op.dir) \in SUBSET Slice /\ \A s \in In(op.dir) : s.idx <= n
    BY <2>1, SliceFacts, Numbers
  <2> QED
    BY <2>2, NextIndexIsNew
<1>3. /\ op'.pc = "move" /\ op'.day = today /\ op'.idx = NextIndex(In(op.dir))
      /\ op'.file = op.file /\ op'.dir = op.dir /\ op' \in Op
  <2>1. op \in Op /\ today \in Days
    BY DEF DepotInv, TypeOK
  <2> QED
    BY <1>1, <1>2, <2>1 DEF Op
<1>4. TypeOK'
  BY <1>1, <1>3, SameFiles DEF DepotInv, TypeOK
<1>5. ClockInv' /\ BufferInv'
  BY <1>1, <1>3, SameFiles, Numbers DEF DepotInv, ClockInv, BufferInv
<1>6. OpInv'
  <2>1. In(op.dir)' = In(op.dir)
    BY <1>1, <1>3, SameFiles DEF In
  <2> QED
    BY <1>1, <1>2, <1>3, <2>1, SameFiles, Numbers DEF DepotInv, OpInv
<1>7. SizeInv'
  BY <1>1, <1>3, SameFiles, Numbers DEF DepotInv, SizeInv
<1> QED
  BY <1>1, <1>4, <1>5, <1>6, <1>7, SameFiles DEF DepotInv

\* The file gets a name nothing has, in the directory room was made in.
LEMMA MoveD == ASSUME DepotInv, Move PROVE DepotInv'
<1>1. /\ op.pc = "move" /\ op' = [op EXCEPT !.pc = "open"]
      /\ UNCHANGED <<today, mCurrentDay, dirs, target, buffer, last, space, mIsSDCard, idle,
                     unchecked, left, evicted, expired>>
  BY DEF Move, card
<1>2. op' \in Op /\ op'.pc = "open"
  <2>1. op \in Op
    BY DEF DepotInv, TypeOK
  <2> QED
    BY <1>1, <2>1 DEF Op
<1>3. /\ op.file <= today /\ IsThere(op.file) /\ root[op.file] # {}
      /\ \A d \in Days : IsThere(d) => d <= op.file
      /\ \A s \in AllSlices : s.dir <= op.file
      /\ op.file <= op.dir /\ op.dir <= op.day /\ op.day <= today
      /\ op.dir \in dirs /\ \A d \in dirs : d <= op.dir
      /\ Cardinality(In(op.dir)) < mDepotFileNum /\ op.idx # 0
      /\ \A s \in In(op.dir) : s.idx < op.idx
      /\ buffer = {}
  BY <1>1 DEF DepotInv, OpInv, BufferInv
<1>4. \A d \in Days : Held(d) = Content(d) /\ Held(d)' = Content(d)'
  BY <1>1, <1>3 DEF Held
<1>5. BufferInv'
  BY <1>1, <1>3, FS_EmptySet, Numbers DEF BufferInv
<1>6. CASE today \notin dirs
  <2>1. UNCHANGED <<depot, root>>
    BY <1>6 DEF Move
  <2>2. UNCHANGED <<files, mCurrentDay, last>>
    BY <1>1, <2>1 DEF files
  <2>3. TypeOK'
    BY <1>1, <1>2, <2>1 DEF DepotInv, TypeOK
  <2>4. ClockInv'
    BY <1>1, <2>2, SameFiles, Numbers DEF DepotInv, ClockInv
  <2>5. Content(today)' = {}
    <3>1. op.file # today
      BY <1>3, <1>6, Numbers
    <3>2. ~IsThere(today)
      BY <1>3, <3>1, Numbers
    <3> QED
      BY <1>1, <2>1, <3>2 DEF Content, IsThere
  <2>6. OpInv'
    BY <1>2, <2>5 DEF OpInv
  <2>7. SizeInv'
    BY <1>1, <1>2, <2>2, SameFiles, Numbers DEF DepotInv, SizeInv
  <2> QED
    BY <1>5, <2>2, <2>3, <2>4, <2>6, <2>7, SameFiles DEF DepotInv
<1>7. CASE today \in dirs
  <2>1. /\ depot' = Put(depot, [dir |-> today, day |-> op.day, idx |-> op.idx,
                                logs |-> root[op.file]])
        /\ root' = [root EXCEPT ![op.file] = NoFile]
        /\ UNCHANGED <<today, evicted, expired, last>>
    BY <1>1, <1>7 DEF Move
  <2>2. today = op.dir /\ op.day = today
    BY <1>3, <1>7, Numbers
  <2>3. root[op.file] \in SUBSET Logs
    <3>1. root[op.file] \in (SUBSET Logs) \cup {NoFile}
      BY Numbers DEF RootType
    <3> QED
      BY <1>3, <3>1, Numbers DEF IsThere, Content
  <2>4. PICK f \in Days : f = op.file
    BY Numbers
  <2>5. PICK s \in Slice : s = [dir |-> today, day |-> op.day, idx |-> op.idx, logs |-> root[op.file]]
    BY <1>3, <2>2, <2>3, Numbers DEF Slice
  <2>6. /\ s.dir = today /\ s.day = today /\ s.idx = op.idx /\ s.logs = Held(f)
        /\ depot' = Put(depot, s)
    BY <1>3, <1>4, <2>1, <2>2, <2>4, <2>5 DEF IsThere, Content
  <2>7. depot' = (depot \ {}) \cup {s}
    <3>1. \A t \in depot : t.dir = s.dir => t.idx # s.idx
      BY <1>3, <2>2, <2>6, SliceFacts, Numbers DEF In, AllSlices
    <3> QED
      BY <2>6, <3>1, PutNew
  <2>8. root' \in RootType
    BY <2>1, Numbers DEF RootType
  <2>9. \A d \in Days : /\ IsThere(d)' <=> IsThere(d) /\ d # f
                        /\ Content(d)' = IF d = f THEN {} ELSE Content(d)
                        /\ Held(d)' = IF d = f THEN {} ELSE Held(d)
    <3>1. \A d \in Days : /\ IsThere(d)' <=> IsThere(d) /\ d # f
                          /\ Content(d)' = IF d = f THEN {} ELSE Content(d)
      BY <2>1, <2>4, Numbers DEF RootType, IsThere, Content
    <3> QED
      BY <1>4, <3>1
  <2>10. Held(s.dir)' = {} /\ Held(f)' = {} /\ Content(s.dir)' = {}
    <3>1. CASE s.dir = f
      BY <1>4, <2>9, <3>1
    <3>2. CASE s.dir # f
      <4>1. ~IsThere(s.dir) /\ s.dir \in Days
        BY <1>3, <2>2, <2>4, <2>6, <3>2, Numbers
      <4>2. Content(s.dir) = {}
        BY <4>1 DEF Content
      <4> QED
        BY <1>4, <2>9, <4>1, <4>2
    <3> QED
      BY <3>1, <3>2
  <2>11. /\ FiniteInv' /\ LinesInv' /\ OrderInv' /\ RoomInv' /\ AllSlices' = AllSlices \cup {s}
         /\ \A d \in Days : Cardinality(Held(d)') <= mSimpleSize + BufferCap
    <3>1. \A t \in AllSlices : t.dir = s.dir => Before(t.logs, s.logs)
      <4> SUFFICES ASSUME NEW t \in AllSlices, t.dir = s.dir PROVE Before(t.logs, s.logs)
        OBVIOUS
      <4>1. t.dir = f
        BY <1>3, <2>2, <2>4, <2>6, Numbers
      <4> QED
        BY <2>6, <4>1 DEF DepotInv, OrderInv
    <3>2. \A t \in In(s.dir) \ {} : t.idx < s.idx
      BY <1>3, <2>2, <2>6
    <3>3. Cardinality(In(s.dir) \ {}) < mDepotFileNum
      <4>1. In(s.dir) \ {} = In(op.dir)
        BY <2>2, <2>6
      <4> QED
        BY <1>3, <4>1
    <3>4. evicted' = evicted \cup {} /\ UNCHANGED <<expired, last>>
      BY <2>1
    <3>5. \A d \in Days : /\ Held(d)' = Held(d) \/ Held(d) = {} \/ d = f
                          /\ Held(d)' \subseteq Held(d)
      BY <2>9
    <3> QED
      BY <2>6, <2>7, <2>10, <3>1, <3>2, <3>3, <3>4, <3>5, AddSlice
  <2>12. TypeOK'
    <3>1. depot' \subseteq Slice
      BY <2>7, SliceFacts
    <3> QED
      BY <1>1, <1>2, <2>8, <3>1 DEF DepotInv, TypeOK, RootType
  <2>13. ClockInv'
    BY <1>1, <2>6, <2>9, <2>11, Numbers DEF DepotInv, ClockInv
  <2>14. Content(today)' = {} /\ Held(today)' = {}
    BY <1>1, <2>6, <2>10 DEF Content, IsThere, Held
  <2>15. OpInv'
    BY <1>2, <2>14 DEF OpInv
  <2>16. SizeInv'
    <3>1. Cardinality(Held(today)') = 0
      BY <2>14, FS_EmptySet
    <3>2. 0 < mSimpleSize + BufferCap
      BY Numbers
    <3> QED
      BY <1>2, <2>11, <3>1, <3>2 DEF SizeInv
  <2> QED
    BY <1>5, <2>11, <2>12, <2>13, <2>15, <2>16 DEF DepotInv
<1> QED
  BY <1>6, <1>7

LEMMA OpenD == ASSUME DepotInv, Open PROVE DepotInv'
<1>1. /\ op.pc = "open" /\ LoganOpen(today)
      /\ op' = IF op.writing THEN [op EXCEPT !.pc = "append"] ELSE Idle
      /\ UNCHANGED <<today, mCurrentDay, dirs, depot, last, space, mIsSDCard, idle, unchecked,
                     left, evicted, expired>>
  BY DEF Open, card
<1>2. op' \in Op /\ op'.pc \in {"append", "idle"}
  <2>1. op \in Op
    BY DEF DepotInv, TypeOK
  <2> QED
    BY <1>1, <2>1, IdleOp DEF Op
<1>3. /\ root' \in RootType /\ buffer' = {} /\ target' = today
      /\ \A d \in Days : /\ Held(d)' = Held(d) /\ Content(d)' = Held(d)
                         /\ IsThere(d)' <=> IsThere(d) \/ d = today
  BY <1>1, OpenKeeps, Numbers
<1>4. /\ FiniteInv' /\ LinesInv' /\ OrderInv' /\ RoomInv' /\ AllSlices' = AllSlices
      /\ \A d \in Days : Cardinality(Held(d)') <= mSimpleSize + BufferCap
  BY <1>1, <1>3, SameContents
<1>5. TypeOK'
  BY <1>1, <1>2, <1>3, Numbers DEF DepotInv, TypeOK, RootType
<1>6. ClockInv'
  BY <1>1, <1>3, <1>4, Numbers DEF DepotInv, ClockInv
<1>7. BufferInv' /\ OpInv'
  BY <1>2, <1>3, FS_EmptySet, Numbers DEF BufferInv, OpInv
<1>8. SizeInv'
  <2>1. buffer = {} /\ Content(today) = {}
    BY <1>1 DEF DepotInv, OpInv, BufferInv
  <2>2. Held(today) = {}
    BY <2>1 DEF Held
  <2>3. \A d \in Days : d = today => Held(d)' = {} /\ Content(d)' = {}
    BY <1>3, <2>2
  <2>4. Held(today)' = {} /\ Content(today)' = {} /\ Held(target)' = {}
    BY <1>1, <1>3, <2>3, Numbers DEF Held, Content, IsThere
  <2>5. Cardinality({}) = 0 /\ 0 < mSimpleSize /\ 0 < mSimpleSize + BufferCap
    BY FS_EmptySet, Numbers
  <2> QED
    BY <1>4, <2>4, <2>5 DEF SizeInv
<1> QED
  BY <1>4, <1>5, <1>6, <1>7, <1>8 DEF DepotInv

LEMMA FlushD == ASSUME DepotInv, Flush PROVE DepotInv'
<1>1. /\ op.pc = "idle" /\ root' = Flushed /\ buffer' = {}
      /\ UNCHANGED <<today, mCurrentDay, dirs, depot, target, op, last, space, mIsSDCard, idle,
                     unchecked, left, evicted, expired>>
  BY DEF Flush, card
<1>2. /\ root' \in RootType
      /\ \A d \in Days : /\ Held(d)' = Held(d) /\ Content(d)' = Held(d)
                         /\ IsThere(d)' <=> IsThere(d)
  BY <1>1, FlushKeeps
<1>3. /\ FiniteInv' /\ LinesInv' /\ OrderInv' /\ RoomInv' /\ AllSlices' = AllSlices
      /\ \A d \in Days : Cardinality(Held(d)') <= mSimpleSize + BufferCap
  BY <1>1, <1>2, SameContents
<1>4. TypeOK'
  BY <1>1, <1>2 DEF DepotInv, TypeOK, RootType
<1>5. ClockInv'
  BY <1>1, <1>2, <1>3, Numbers DEF DepotInv, ClockInv
<1>6. BufferInv' /\ OpInv'
  BY <1>1, FS_EmptySet, Numbers DEF BufferInv, OpInv
<1>7. SizeInv'
  BY <1>1, <1>2, <1>3, Numbers DEF DepotInv, SizeInv
<1> QED
  BY <1>3, <1>4, <1>5, <1>6, <1>7 DEF DepotInv

\* The end of the process: what was buffered is written by the next one.
LEMMA CrashD == ASSUME DepotInv, Crash PROVE DepotInv'
<1>1. /\ root' = Flushed /\ buffer' = {} /\ target' = 0 /\ mCurrentDay' = 0 /\ op' = Idle
      /\ mIsSDCard' = FALSE /\ idle' = 2 /\ unchecked' = 2
      /\ left' = [left EXCEPT !["crash"] = @ - 1] /\ left["crash"] > 0
      /\ UNCHANGED <<today, dirs, depot, last, space, evicted, expired>>
  BY DEF Crash, Spend
<1>2. /\ root' \in RootType
      /\ \A d \in Days : /\ Held(d)' = Held(d) /\ Content(d)' = Held(d)
                         /\ IsThere(d)' <=> IsThere(d)
  BY <1>1, FlushKeeps
<1>3. /\ FiniteInv' /\ LinesInv' /\ OrderInv' /\ RoomInv' /\ AllSlices' = AllSlices
      /\ \A d \in Days : Cardinality(Held(d)') <= mSimpleSize + BufferCap
  BY <1>1, <1>2, SameContents
<1>4. TypeOK'
  <2>1. left' \in [Events -> Nat]
    BY <1>1 DEF DepotInv, TypeOK, Events
  <2>2. /\ mCurrentDay' \in Days \cup {0} /\ target' \in Days \cup {0} /\ buffer' \subseteq Logs
        /\ idle' \in 0..2 /\ unchecked' \in 0..2
    BY <1>1
  <2>5. mIsSDCard' \in BOOLEAN
    BY <1>1
  <2>3. op' \in Op /\ root' \in [Days -> (SUBSET Logs) \cup {NoFile}]
    BY <1>1, <1>2, IdleOp DEF RootType
  <2>4. /\ today' \in Days /\ dirs' \subseteq Days /\ depot' \subseteq Slice /\ last' \in 0..MaxWrites
        /\ space' \in BOOLEAN /\ evicted' \subseteq Slice /\ expired' \subseteq Logs
    BY <1>1 DEF DepotInv, TypeOK
  <2> QED
    BY <2>1, <2>2, <2>3, <2>4, <2>5 DEF TypeOK
<1>5. ClockInv'
  BY <1>1, <1>2, <1>3, Numbers DEF DepotInv, ClockInv
<1>6. BufferInv' /\ OpInv'
  BY <1>1, IdleOp, FS_EmptySet, Numbers DEF BufferInv, OpInv
<1>7. SizeInv'
  <2>1. \A d \in Days : d = today => Held(d)' = Held(d)
    BY <1>2
  <2>2. Held(today)' = Held(today)
    BY <1>1, <2>1, Numbers DEF Held, Content, IsThere
  <2> QED
    BY <1>1, <1>3, <2>2, IdleOp DEF DepotInv, SizeInv
<1> QED
  BY <1>3, <1>4, <1>5, <1>6, <1>7 DEF DepotInv

-------------------------------------------------------------------------------
(* A write *)

\* A write is begun only when there is a line left to write, and appends one line.
WriteInv ==
    /\ op.writing => last < MaxWrites
    /\ op.pc \in {"slice", "append"} => op.writing

LEMMA AppendD == ASSUME DepotInv, WriteInv, Append PROVE DepotInv'
<1>1. /\ op.pc = "append" /\ op' = Idle
      /\ UNCHANGED <<today, mCurrentDay, dirs, depot, target, space, left, evicted, expired>>
  BY DEF Append
<1>2. mIsSDCard' \in BOOLEAN /\ unchecked' \in 0..2 /\ idle' \in 0..2
  BY DEF Append, DepotInv, TypeOK
<1>3. last \in Nat /\ last < MaxWrites /\ last + 1 \in Logs /\ MaxWrites \in Nat
  BY <1>1, Numbers, DepotAssumption DEF WriteInv, Logs
<1>4. /\ target \in Days
      /\ Cardinality(Held(target)) < mSimpleSize + BufferCap
      /\ target = today => Cardinality(Content(today)) < mSimpleSize
  BY <1>1, Numbers DEF DepotInv, OpInv, SizeInv
<1>5. CASE mIsSDCard' = FALSE
  <2>1. UNCHANGED <<files, mCurrentDay, last>>
    BY <1>1, <1>5 DEF Append, files
  <2>2. TypeOK'
    BY <1>1, <1>2, <2>1, SameFiles, IdleOp DEF DepotInv, TypeOK
  <2>3. ClockInv' /\ BufferInv' /\ OpInv'
    BY <1>1, <2>1, SameFiles, IdleOp, Numbers DEF DepotInv, ClockInv, BufferInv, OpInv
  <2>4. SizeInv'
    BY <1>1, <2>1, SameFiles, IdleOp, Numbers DEF DepotInv, SizeInv
  <2> QED
    BY <2>1, <2>2, <2>3, <2>4, SameFiles DEF DepotInv
<1>6. CASE mIsSDCard' = TRUE
  <2>1. PICK w \in Logs : w = last + 1
    BY <1>3
  <2>2. LoganWrite(w) /\ last' = w
    BY <1>6, <2>1 DEF Append
  <2>3. PICK t \in Days : t = target
    BY <1>4
  <2>4. /\ root' \in RootType /\ buffer' \subseteq Logs /\ Cardinality(buffer') < BufferCap
        /\ buffer' # {} => Content(target)' # {}
        /\ Held(target)' = Held(target) \cup {w}
        /\ \A d \in Days \ {target} : Held(d)' = Held(d) /\ Content(d)' = Content(d)
        /\ \A d \in Days : IsThere(d)' <=> IsThere(d) \/ d = target
    BY <1>1, <1>4, <2>2, WriteAdds
  <2>5. \A d \in Days : Held(d)' = IF d = t THEN Held(d) \cup {w} ELSE Held(d)
    <3>1. Held(t)' = Held(t) \cup {w}
      BY <1>1, <2>3, <2>4 DEF Held, Content, IsThere
    <3> QED
      BY <2>3, <2>4, <3>1
  <2>6. AllSlices' = AllSlices /\ \A d : In(d)' = In(d)
    BY <1>1 DEF AllSlices, In
  <2>7. FiniteInv' /\ RoomInv'
    BY <1>1, <2>6 DEF DepotInv, FiniteInv, RoomInv
  <2>8. LinesInv'
    <3>1. 1..last' = 1..last \cup {w}
      BY <1>3, <2>1, <2>2
    <3>2. \A d \in Days : Held(d)' \subseteq 1..last'
      BY <2>5, <3>1 DEF DepotInv, LinesInv
    <3>3. \A s \in AllSlices' : s.logs \subseteq 1..last'
      BY <2>6, <3>1 DEF DepotInv, LinesInv
    <3>4. \A x \in 1..last' : \/ \E d \in Days : x \in Held(d)'
                              \/ \E s \in AllSlices' : x \in s.logs
                              \/ x \in expired'
      <4> SUFFICES ASSUME NEW x \in 1..last'
                   PROVE  \/ \E d \in Days : x \in Held(d)'
                          \/ \E s \in AllSlices' : x \in s.logs
                          \/ x \in expired'
        OBVIOUS
      <4>1. CASE x = w
        BY <2>5, <4>1
      <4>2. CASE x \in 1..last
        BY <1>1, <2>5, <2>6, <4>2 DEF DepotInv, LinesInv
      <4> QED
        BY <3>1, <4>1, <4>2
    <3> QED
      BY <3>2, <3>3, <3>4 DEF LinesInv
  <2>9. OrderInv'
    <3>1. \A s \in AllSlices' : Before(s.logs, Held(s.dir)')
      <4> SUFFICES ASSUME NEW s \in AllSlices PROVE Before(s.logs, Held(s.dir)')
        BY <2>6
      <4>1. s.dir \in Days /\ s.logs \subseteq 1..last /\ Before(s.logs, Held(s.dir))
        BY SliceFacts DEF DepotInv, LinesInv, OrderInv
      <4>2. \A x \in s.logs : x < w
        BY <1>3, <2>1, <4>1
      <4>3. Held(s.dir)' \subseteq Held(s.dir) \cup {w}
        BY <2>5, <4>1
      <4> QED
        BY <4>1, <4>2, <4>3 DEF Before
    <3> QED
      BY <1>1, <2>6, <3>1 DEF DepotInv, OrderInv
  <2>10. TypeOK'
    <3>1. last' \in 0..MaxWrites
      BY <1>3, <2>1, <2>2
    <3> QED
      BY <1>1, <1>2, <2>4, <3>1, IdleOp DEF DepotInv, TypeOK, RootType
  <2>11. ClockInv'
    BY <1>1, <1>4, <2>4, <2>6, Numbers DEF DepotInv, ClockInv
  <2>12. BufferInv' /\ OpInv'
    BY <1>1, <1>4, <2>4, IdleOp DEF BufferInv, OpInv
  <2>13. SizeInv'
    <3>1. IsFiniteSet(Logs)
      BY DepotAssumption, FS_Interval DEF Logs
    <3>2. Held(t) \subseteq Logs /\ Content(t) \subseteq Logs /\ buffer \subseteq Logs
      <4>1. Held(t) \subseteq 1..last /\ buffer \subseteq Logs
        BY DEF DepotInv, LinesInv, TypeOK
      <4> QED
        BY <1>3, <4>1 DEF Held, Logs
    <3>3. /\ IsFiniteSet(Held(t)) /\ Cardinality(Held(t)) \in Nat
          /\ IsFiniteSet(Content(t)) /\ Cardinality(Content(t)) \in Nat
          /\ IsFiniteSet(buffer) /\ Cardinality(buffer) \in Nat
      BY <3>1, <3>2, FS_Subset, FS_CardinalityType
    <3>4. Cardinality(Held(t)') <= Cardinality(Held(t)) + 1
      <4>1. Cardinality(Held(t) \cup {w}) = IF w \in Held(t) THEN Cardinality(Held(t))
                                           ELSE Cardinality(Held(t)) + 1
        BY <3>3, FS_AddElement
      <4> QED
        BY <2>5, <3>3, <4>1
    <3>5. Cardinality(Held(t)') \in Nat
      <4>1. IsFiniteSet(Held(t) \cup {w})
        BY <3>3, FS_AddElement
      <4> QED
        BY <2>5, <4>1, FS_CardinalityType
    <3>6. \A d \in Days : Cardinality(Held(d)') <= mSimpleSize + BufferCap
      <4>1. Cardinality(Held(t)') <= mSimpleSize + BufferCap
        BY <1>4, <2>3, <3>3, <3>4, <3>5, Numbers
      <4> QED
        BY <2>5, <4>1 DEF DepotInv, SizeInv
    <3>7. Cardinality(Held(today)') < mSimpleSize + BufferCap
      <4>1. CASE today # target
        <5>1. \A d \in Days : d = today => Held(d)' = Held(d)
          BY <2>3, <2>5, <4>1
        <5>2. Held(today)' = Held(today)
          BY <1>1, <5>1, Numbers DEF Held, Content, IsThere
        <5> QED
          BY <5>2 DEF DepotInv, SizeInv
      <4>2. CASE today = target
        <5>1. Cardinality(Content(t)) < mSimpleSize /\ Cardinality(buffer) < BufferCap
          BY <1>4, <2>3, <4>2 DEF DepotInv, BufferInv
        <5>2. Held(t) = Content(t) \cup buffer
          BY <2>3 DEF Held
        <5>3. Cardinality(Held(t)) <= Cardinality(Content(t)) + Cardinality(buffer)
          <6>1. Cardinality(Content(t) \cup buffer) =
                  Cardinality(Content(t)) + Cardinality(buffer) - Cardinality(Content(t) \cap buffer)
            BY <3>3, FS_Union
          <6>2. Cardinality(Content(t) \cap buffer) \in Nat
            BY <3>3, FS_Intersection, FS_CardinalityType
          <6> QED
            BY <3>3, <5>2, <6>1, <6>2
        <5>4. Cardinality(Held(t)') < mSimpleSize + BufferCap
          BY <3>3, <3>4, <3>5, <5>1, <5>3, Numbers
        <5>5. Held(today)' = Held(t)'
          BY <1>1, <2>3, <4>2 DEF Held, Content, IsThere
        <5> QED
          BY <5>4, <5>5
      <4> QED
        BY <4>1, <4>2
    <3> QED
      BY <1>1, <3>6, <3>7, IdleOp DEF SizeInv
  <2> QED
    BY <2>7, <2>8, <2>9, <2>10, <2>11, <2>12, <2>13 DEF DepotInv
<1> QED
  BY <1>2, <1>5, <1>6

-------------------------------------------------------------------------------
(* An arrange *)

LEMMA ArrangeD == ASSUME DepotInv, Arrange PROVE DepotInv'
<1>1. /\ op.pc = "idle" /\ buffer' = {}
      /\ root' = [d \in Days |-> IF Expired(d) THEN NoFile ELSE Flushed[d]]
      /\ dirs' = {d \in dirs : ~Expired(d)} /\ depot' = {s \in depot : ~Expired(s.dir)}
      /\ UNCHANGED <<today, mCurrentDay, target, last, space, mIsSDCard, idle, unchecked, left, evicted>>
  BY DEF Arrange, card
<1>2. expired' = expired \cup (UNION {s.logs : s \in depot \ depot'})
                    \cup (UNION {Flushed[d] : d \in {e \in Days : Expired(e) /\ IsThere(e)}})
  BY DEF Arrange
<1>3. op' = [Idle EXCEPT !.pc = "rest", !.day = today, !.rest = {d \in Days : root'[d] # NoFile}]
  BY DEF Arrange
<1>4. op'.pc = "rest" /\ op'.day = today /\ op' \in Op /\ op'.rest = {d \in Days : root'[d] # NoFile}
  BY <1>3, IdleOp, Numbers DEF Op
<1>5. root' \in RootType
  BY <1>1, FlushedIsHeld DEF RootType
<1>6. \A d \in Days : /\ IsThere(d)' <=> IsThere(d) /\ ~Expired(d)
                      /\ Content(d)' = (IF Expired(d) THEN {} ELSE Held(d))
                      /\ Held(d)' = (IF Expired(d) THEN {} ELSE Held(d))
  <2> SUFFICES ASSUME NEW d \in Days
               PROVE  /\ IsThere(d)' <=> IsThere(d) /\ ~Expired(d)
                      /\ Content(d)' = (IF Expired(d) THEN {} ELSE Held(d))
                      /\ Held(d)' = (IF Expired(d) THEN {} ELSE Held(d))
    OBVIOUS
  <2>1. Held(d)' = Content(d)'
    BY <1>1 DEF Held
  <2>2. root'[d] = IF Expired(d) THEN NoFile ELSE Flushed[d]
    BY <1>1
  <2> QED
    BY <2>1, <2>2, FlushedIsHeld DEF IsThere, Content
<1>7. AllSlices' \subseteq AllSlices /\ \A d \in Days : In(d)' \subseteq In(d)
  BY <1>1 DEF AllSlices, In
<1>8. FiniteInv'
  BY <1>1, FS_Subset DEF DepotInv, FiniteInv
<1>9. RoomInv'
  <2> SUFFICES ASSUME NEW d \in Days PROVE Cardinality(In(d)') <= mDepotFileNum
    BY DEF RoomInv
  <2>1. IsFiniteSet(In(d)) /\ Cardinality(In(d)) \in Nat /\ Cardinality(In(d)) <= mDepotFileNum
    BY SliceFacts, FS_CardinalityType DEF DepotInv, RoomInv
  <2>2. Cardinality(In(d)') <= Cardinality(In(d)) /\ IsFiniteSet(In(d)')
    BY <1>7, <2>1, FS_Subset
  <2>3. Cardinality(In(d)') \in Nat
    BY <2>2, FS_CardinalityType
  <2> QED
    BY <2>1, <2>2, <2>3, DepotAssumption
<1>12. \A x : x \in expired' <=> \/ x \in expired
                                 \/ \E s \in depot \ depot' : x \in s.logs
                                 \/ \E d \in Days : Expired(d) /\ IsThere(d) /\ x \in Flushed[d]
  <2> DEFINE Old == {d \in Days : Expired(d) /\ IsThere(d)}
             A == UNION {s.logs : s \in depot \ depot'}
             B == UNION {Flushed[d] : d \in Old}
  <2>1. expired' = expired \cup A \cup B
    BY <1>2
  <2>2. \A x : x \in A <=> \E s \in depot \ depot' : x \in s.logs
    OBVIOUS
  <2>3. \A d : d \in Old <=> d \in Days /\ Expired(d) /\ IsThere(d)
    OBVIOUS
  <2> HIDE DEF Old
  <2>4. \A x : x \in B <=> \E d \in Old : x \in Flushed[d]
    OBVIOUS
  <2> HIDE DEF A, B
  <2> QED
    BY <2>1, <2>2, <2>3, <2>4
<1>10. LinesInv'
  <2>1. \A d \in Days : Held(d)' \subseteq 1..last'
    BY <1>1, <1>6 DEF DepotInv, LinesInv
  <2>2. \A s \in AllSlices' : s.logs \subseteq 1..last'
    BY <1>1, <1>7 DEF DepotInv, LinesInv
  <2>3. \A x \in 1..last' : \/ \E d \in Days : x \in Held(d)'
                            \/ \E s \in AllSlices' : x \in s.logs
                            \/ x \in expired'
    <3> SUFFICES ASSUME NEW x \in 1..last
                 PROVE  \/ \E d \in Days : x \in Held(d)'
                        \/ \E s \in AllSlices' : x \in s.logs
                        \/ x \in expired'
      BY <1>1
    <3>1. CASE x \in expired
      BY <1>12, <3>1
    <3>2. ASSUME NEW d \in Days, x \in Held(d) PROVE x \in Held(d)' \/ x \in expired'
      <4>1. CASE ~Expired(d)
        BY <1>6, <3>2, <4>1
      <4>2. CASE Expired(d)
        <5>1. IsThere(d) /\ x \in Flushed[d]
          BY <3>2, FlushedIsHeld
        <5>2. d \in {e \in Days : Expired(e)}
          BY <4>2
        <5> QED
          BY <1>12, <5>1, <5>2
      <4> QED
        BY <4>1, <4>2
    <3>3. ASSUME NEW s \in AllSlices, x \in s.logs PROVE s \in AllSlices' \/ x \in expired'
      BY <1>1, <1>12, <3>3 DEF AllSlices
    <3> QED
      BY <3>1, <3>2, <3>3 DEF DepotInv, LinesInv
  <2> QED
    BY <2>1, <2>2, <2>3 DEF LinesInv
<1>11. OrderInv'
  <2>1. \A s \in AllSlices' : Before(s.logs, Held(s.dir)')
    <3> SUFFICES ASSUME NEW s \in AllSlices PROVE Before(s.logs, Held(s.dir)')
      BY <1>7
    <3>1. s.dir \in Days /\ Before(s.logs, Held(s.dir))
      BY SliceFacts DEF DepotInv, OrderInv
    <3> QED
      BY <1>6, <3>1 DEF Before
  <2>2. \A e \in evicted' : \A s \in In(e.dir)' : Before(e.logs, s.logs)
    <3>1. \A e \in evicted : In(e.dir)' \subseteq In(e.dir)
      BY <1>7, SliceFacts DEF AllSlices
    <3> QED
      BY <1>1, <3>1 DEF DepotInv, OrderInv
  <2> QED
    BY <1>1, <2>1, <2>2 DEF DepotInv, OrderInv
<1>17. TypeOK'
  <2>1. \A d \in Days : IsThere(d) => Flushed[d] \subseteq Logs
    BY FlushedIsHeld DEF RootType, IsThere
  <2>2. expired' \subseteq Logs
    <3>1. expired \subseteq Logs /\ \A s \in depot : s.logs \subseteq Logs
      BY DEF DepotInv, TypeOK, Slice
    <3> QED
      BY <1>12, <2>1, <3>1
  <2>3. depot' \subseteq Slice /\ dirs' \subseteq Days
    BY <1>1 DEF DepotInv, TypeOK
  <2> QED
    BY <1>1, <1>4, <1>5, <2>2, <2>3 DEF DepotInv, TypeOK, RootType
<1>13. ClockInv'
  BY <1>1, <1>6, <1>7, Numbers DEF DepotInv, ClockInv
<1>14. BufferInv'
  BY <1>1, FS_EmptySet, Numbers DEF BufferInv
<1>15. OpInv'
  <2>1. \A d \in op'.rest : IsThere(d)' /\ today <= d + mSaveTime
    <3> SUFFICES ASSUME NEW d \in Days, root'[d] # NoFile PROVE IsThere(d)' /\ today <= d + mSaveTime
      BY <1>4
    <3>1. IsThere(d)'
      BY DEF IsThere
    <3>2. ~Expired(d)
      BY <1>6, <3>1
    <3> QED
      BY <3>1, <3>2, Numbers DEF Expired
  <2> QED
    BY <1>1, <1>4, <2>1, Numbers DEF OpInv
<1>16. SizeInv'
  <2>1. \A d \in Days : Held(d)' = {} \/ Held(d)' = Held(d)
    BY <1>6
  <2>2. Cardinality({}) = 0 /\ 0 < mSimpleSize + BufferCap /\ 0 <= mSimpleSize + BufferCap
    BY FS_EmptySet, Numbers
  <2>3. \A d \in Days : Cardinality(Held(d)') <= mSimpleSize + BufferCap
    BY <2>1, <2>2 DEF DepotInv, SizeInv
  <2>4. Held(today)' = {} \/ Held(today)' = Held(today)
    <3>1. \A d \in Days : d = today => Held(d)' = {} \/ Held(d)' = Held(d)
      BY <2>1
    <3> QED
      BY <1>1, <3>1, Numbers DEF Held, Content, IsThere
  <2> QED
    BY <1>4, <2>2, <2>3, <2>4 DEF DepotInv, SizeInv
<1> QED
  BY <1>8, <1>9, <1>10, <1>11, <1>13, <1>14, <1>15, <1>16, <1>17 DEF DepotInv

LEMMA ArrangeRestD == ASSUME DepotInv, NEW d \in Days, ArrangeRest(d) PROVE DepotInv'
<1>1. /\ op.pc = "rest" /\ d \in op.rest
      /\ UNCHANGED <<today, mCurrentDay, target, buffer, last, space, mIsSDCard, idle, unchecked,
                     left, expired>>
  BY DEF ArrangeRest, card
<1>2. /\ IsThere(d) /\ buffer = {} /\ d <= today /\ root \in RootType /\ op \in Op
      /\ \A e \in Days : Held(e) = Content(e) /\ Held(e)' = Content(e)'
  BY <1>1 DEF DepotInv, TypeOK, OpInv, BufferInv, ClockInv, Held, RootType
<1>3. BufferInv'
  BY <1>1, <1>2, FS_EmptySet, Numbers DEF BufferInv
<1>4. CASE d = today /\ op' = [op EXCEPT !.rest = @ \ {d}] /\ UNCHANGED <<root, dirs, depot, evicted>>
  <2>1. UNCHANGED <<files, mCurrentDay, last>>
    BY <1>1, <1>4 DEF files
  <2>2. op' \in Op /\ op'.pc = "rest" /\ op'.rest \subseteq op.rest /\ op'.day = op.day
    BY <1>1, <1>2, <1>4 DEF Op
  <2>3. TypeOK'
    BY <1>1, <1>4, <2>2 DEF DepotInv, TypeOK
  <2>4. ClockInv'
    BY <1>1, <2>1, SameFiles, Numbers DEF DepotInv, ClockInv
  <2>5. OpInv'
    BY <1>1, <2>1, <2>2, SameFiles, Numbers DEF DepotInv, OpInv
  <2>6. SizeInv'
    BY <1>1, <2>1, <2>2, SameFiles, Numbers DEF DepotInv, SizeInv
  <2> QED
    BY <1>3, <2>1, <2>3, <2>4, <2>5, <2>6, SameFiles DEF DepotInv
<1>5. CASE /\ d # today /\ root[d] = {} /\ root' = [root EXCEPT ![d] = NoFile]
           /\ op' = [op EXCEPT !.rest = {}] /\ UNCHANGED <<dirs, depot, evicted>>
  <2>1. op' \in Op /\ op'.pc = "rest" /\ op'.rest = {} /\ op'.day = op.day
    BY <1>1, <1>2, <1>5 DEF Op
  <2>2. root' \in RootType
    BY <1>2, <1>5 DEF RootType
  <2>3. \A e \in Days : /\ IsThere(e)' <=> IsThere(e) /\ e # d
                        /\ Content(e)' = Content(e)
    BY <1>2, <1>5 DEF RootType, IsThere, Content
  <2>4. \A e \in Days : Held(e)' = Held(e)
    BY <1>2, <2>3
  <2>5. /\ FiniteInv' /\ LinesInv' /\ OrderInv' /\ RoomInv' /\ AllSlices' = AllSlices
        /\ \A e \in Days : Cardinality(Held(e)') <= mSimpleSize + BufferCap
    BY <1>1, <1>5, <2>4, SameContents
  <2>6. TypeOK'
    BY <1>1, <1>5, <2>1, <2>2 DEF DepotInv, TypeOK, RootType
  <2>7. ClockInv'
    BY <1>1, <1>5, <2>3, <2>5, Numbers DEF DepotInv, ClockInv
  <2>8. OpInv'
    BY <1>1, <2>1 DEF DepotInv, OpInv
  <2>9. SizeInv'
    BY <1>1, <2>1, <2>4, <2>5, Numbers DEF DepotInv, SizeInv
  <2> QED
    BY <1>3, <2>5, <2>6, <2>7, <2>8, <2>9 DEF DepotInv
<1>6. CASE /\ d # today /\ root[d] # {}
           /\ dirs' = dirs \cup {d}
           /\ depot' = Put(depot \ Surplus(d),
                           [dir |-> d, day |-> d, idx |-> NextIndex(In(d) \ Surplus(d)),
                            logs |-> root[d]])
           /\ evicted' = evicted \cup Surplus(d)
           /\ root' = [root EXCEPT ![d] = NoFile]
           /\ op' = [op EXCEPT !.rest = @ \ {d}]
  <2>1. op' \in Op /\ op'.pc = "rest" /\ op'.rest = op.rest \ {d} /\ op'.day = op.day
    BY <1>1, <1>2, <1>6 DEF Op
  <2>2. root' \in RootType
    BY <1>2, <1>6 DEF RootType
  <2>3. \A e \in Days : /\ IsThere(e)' <=> IsThere(e) /\ e # d
                        /\ Held(e)' = IF e = d THEN {} ELSE Held(e)
    <3>1. \A e \in Days : /\ IsThere(e)' <=> IsThere(e) /\ e # d
                          /\ Content(e)' = IF e = d THEN {} ELSE Content(e)
      BY <1>2, <1>6 DEF RootType, IsThere, Content
    <3> QED
      BY <1>2, <3>1
  <2>4. root[d] = Held(d) /\ root[d] \in SUBSET Logs
    <3>1. root[d] \in (SUBSET Logs) \cup {NoFile}
      BY <1>2 DEF RootType
    <3> QED
      BY <1>2, <3>1 DEF IsThere, Content
  <2>5. /\ Surplus(d) \subseteq In(d) /\ IsFiniteSet(In(d))
        /\ Cardinality(In(d) \ Surplus(d)) < mDepotFileNum
        /\ \A o \in Surplus(d) : \A s \in In(d) : s # o => o.idx < s.idx
    BY SurplusIsOldest
  <2>6. /\ NextIndex(In(d) \ Surplus(d)) \in Nat \ {0}
        /\ \A t \in In(d) \ Surplus(d) : t.idx < NextIndex(In(d) \ Surplus(d))
    <3>1. PICK n \in Nat : \A t \in depot : t.idx <= n
      BY DEF DepotInv, FiniteInv
    <3>2. In(d) \ Surplus(d) \in SUBSET Slice /\ \A t \in In(d) \ Surplus(d) : t.idx <= n
      BY <3>1, SliceFacts
    <3> QED
      BY <3>2, NextIndexIsNew
  <2>7. PICK s \in Slice : /\ s = [dir |-> d, day |-> d, idx |-> NextIndex(In(d) \ Surplus(d)),
                                   logs |-> root[d]]
                           /\ s.dir = d /\ s.day = d /\ s.logs = root[d]
                           /\ s.idx = NextIndex(In(d) \ Surplus(d))
    <3>1. [dir |-> d, day |-> d, idx |-> NextIndex(In(d) \ Surplus(d)), logs |-> root[d]] \in Slice
      BY <2>4, <2>6 DEF Slice
    <3> QED
      BY <3>1
  <2>8. PICK D \in SUBSET In(d) : D = Surplus(d)
    BY <2>5
  <2>9. \A t \in In(d) \ D : t.idx < s.idx
    BY <2>6, <2>7, <2>8
  <2>10. depot' = (depot \ D) \cup {s} /\ evicted' = evicted \cup D
    <3>1. \A t \in depot \ D : t.dir = s.dir => t.idx # s.idx
      BY <2>7, <2>9, SliceFacts DEF In, AllSlices, Slice
    <3> QED
      BY <1>6, <2>7, <2>8, <3>1, PutNew
  <2>11. /\ FiniteInv' /\ LinesInv' /\ OrderInv' /\ RoomInv' /\ AllSlices' = AllSlices \cup {s}
         /\ \A e \in Days : Cardinality(Held(e)') <= mSimpleSize + BufferCap
    <3>1. \A t \in AllSlices : t.dir = s.dir => Before(t.logs, s.logs)
      BY <2>4, <2>7 DEF DepotInv, OrderInv
    <3>2. s.logs = Held(d) /\ Held(d)' = {} /\ Held(s.dir)' = {}
      BY <2>3, <2>4, <2>7
    <3>3. /\ \A o \in D : \A t \in In(s.dir) : t # o => o.idx < t.idx
          /\ \A t \in In(s.dir) \ D : t.idx < s.idx
          /\ Cardinality(In(s.dir) \ D) < mDepotFileNum
          /\ D \in SUBSET In(s.dir)
      BY <2>5, <2>7, <2>8, <2>9
    <3>4. \A e \in Days : /\ Held(e)' = Held(e) \/ Held(e) = {} \/ e = d
                          /\ Held(e)' \subseteq Held(e)
      BY <2>3
    <3> QED
      BY <1>1, <2>10, <3>1, <3>2, <3>3, <3>4, AddSlice
  <2>12. TypeOK'
    <3>1. depot' \subseteq Slice /\ evicted' \subseteq Slice /\ dirs' \subseteq Days
      BY <1>6, <2>10, SliceFacts DEF DepotInv, TypeOK
    <3> QED
      BY <1>1, <2>1, <2>2, <3>1 DEF DepotInv, TypeOK, RootType
  <2>13. ClockInv'
    BY <1>1, <1>2, <1>6, <2>3, <2>7, <2>11, Numbers DEF DepotInv, ClockInv
  <2>14. OpInv'
    BY <1>1, <2>1, <2>3, Numbers DEF DepotInv, OpInv
  <2>15. SizeInv'
    <3>1. \A e \in Days : e = today => Held(e)' = Held(e)
      BY <1>6, <2>3
    <3>2. Held(today)' = Held(today)
      BY <1>1, <3>1, Numbers DEF Held, Content, IsThere
    <3> QED
      BY <2>1, <2>11, <3>2 DEF DepotInv, SizeInv
  <2> QED
    BY <1>3, <2>11, <2>12, <2>13, <2>14, <2>15 DEF DepotInv
<1> QED
  BY <1>4, <1>5, <1>6 DEF ArrangeRest

LEMMA ArrangeDoneD == ASSUME DepotInv, ArrangeDone PROVE DepotInv'
<1>1. /\ op' = Idle /\ UNCHANGED <<today, space, mIsSDCard, idle, unchecked, left>>
      /\ UNCHANGED <<files, mCurrentDay, last>>
  BY DEF ArrangeDone, card
<1>2. TypeOK'
  BY <1>1, SameFiles, IdleOp DEF DepotInv, TypeOK
<1>3. ClockInv' /\ BufferInv' /\ OpInv'
  BY <1>1, SameFiles, IdleOp, Numbers DEF DepotInv, ClockInv, BufferInv, OpInv
<1>4. SizeInv'
  BY <1>1, SameFiles, IdleOp, Numbers DEF DepotInv, SizeInv
<1> QED
  BY <1>1, <1>2, <1>3, <1>4, SameFiles DEF DepotInv

-------------------------------------------------------------------------------
(* The clock, the card and the steps together *)

\* A day begins on which nothing has happened.
LEMMA MidnightD == ASSUME DepotInv, Midnight PROVE DepotInv'
<1>1. /\ today < LastDay /\ today' = today + 1
      /\ left' = [left EXCEPT !["midnight"] = @ - 1] /\ left["midnight"] > 0
      /\ UNCHANGED <<op, space, mIsSDCard, idle, unchecked>>
      /\ UNCHANGED <<files, mCurrentDay, last>>
  BY DEF Midnight, Spend, card
<1>2. today' \in Days
  BY <1>1, DepotAssumption, Numbers DEF Days
<1>3. \A d \in Days : d = today' => ~IsThere(d) /\ d # target /\ Content(d) = {} /\ Held(d) = {}
  <2> SUFFICES ASSUME NEW d \in Days, d = today + 1
               PROVE  ~IsThere(d) /\ d # target /\ Content(d) = {} /\ Held(d) = {}
    BY <1>1
  <2>1. ~IsThere(d) /\ d # target
    <3>1. d \in Nat /\ today \in Nat /\ target \in Nat
      <4>1. Days \subseteq Nat
        BY DepotAssumption DEF Days
      <4>2. today \in Days /\ target \in Days \cup {0}
        BY DEF DepotInv, TypeOK
      <4> QED
        BY <4>1, <4>2
    <3>2. target <= today /\ (IsThere(d) => d <= today)
      BY DEF DepotInv, ClockInv
    <3> QED
      BY <3>1, <3>2
  <2> QED
    BY <2>1 DEF Content, Held
<1>4. Content(today)' = {} /\ Held(today)' = {}
  BY <1>1, <1>2, <1>3, SameFiles DEF Content, Held, IsThere
<1>5. TypeOK'
  <2>1. left' \in [Events -> Nat]
    BY <1>1 DEF DepotInv, TypeOK, Events
  <2> QED
    BY <1>1, <1>2, <2>1, SameFiles DEF DepotInv, TypeOK
<1>6. ClockInv'
  BY <1>1, SameFiles, Numbers DEF DepotInv, ClockInv, AllSlices, TypeOK, Slice
<1>7. BufferInv'
  BY <1>1, SameFiles, Numbers DEF DepotInv, BufferInv
<1>8. OpInv'
  BY <1>1, <1>4, SameFiles, Numbers DEF DepotInv, OpInv
<1>9. SizeInv'
  <2>1. Cardinality(Held(today)') = 0 /\ 0 < mSimpleSize + BufferCap
    BY <1>4, FS_EmptySet, Numbers
  <2>2. Cardinality(Content(today)') < mSimpleSize
    BY <1>4, FS_EmptySet, Numbers
  <2>3. op'.pc \in {"slice", "append"} => Cardinality(Held(target)') < mSimpleSize + BufferCap
    <3> SUFFICES ASSUME op.pc \in {"slice", "append"}
                 PROVE  Cardinality(Held(target)') < mSimpleSize + BufferCap
      BY <1>1
    <3>1. target \in Days
      BY Numbers DEF DepotInv, OpInv
    <3>2. Held(target)' = Held(target)
      BY <1>1, <3>1, SameFiles DEF Held, Content, IsThere
    <3> QED
      BY <3>2 DEF DepotInv, SizeInv
  <2> QED
    BY <1>1, <2>1, <2>2, <2>3, SameFiles DEF SizeInv
<1> QED
  BY <1>1, <1>5, <1>6, <1>7, <1>8, <1>9, SameFiles DEF DepotInv

LEMMA CardD == ASSUME DepotInv, Minute \/ SpaceChanges \/ UNCHANGED vars PROVE DepotInv'
<1>1. UNCHANGED <<today, op>> /\ UNCHANGED <<files, mCurrentDay, last>>
  BY DEF Minute, SpaceChanges, vars
<1>2. /\ space' \in BOOLEAN /\ mIsSDCard' \in BOOLEAN /\ idle' \in 0..2 /\ unchecked' \in 0..2
      /\ left' \in [Events -> Nat]
  <2>1. CASE UNCHANGED vars
    BY <2>1 DEF DepotInv, TypeOK, vars, card
  <2>2. CASE SpaceChanges
    BY <2>2 DEF DepotInv, TypeOK, SpaceChanges, Spend, Events
  <2>3. CASE Minute
    <3>1. \A x \in 0..2 : Min({2, x + 1}) \in 0..2
      BY DEF Min
    <3>2. idle' = Min({2, idle + 1}) /\ unchecked' = Min({2, unchecked + 1})
          /\ space' = space /\ mIsSDCard' = mIsSDCard
      BY <2>3 DEF Minute
    <3>3. left' \in [Events -> Nat]
      BY <2>3 DEF DepotInv, TypeOK, Minute, Spend, Events
    <3> QED
      BY <3>1, <3>2, <3>3 DEF DepotInv, TypeOK
  <2> QED
    BY <2>1, <2>2, <2>3
<1>3. TypeOK'
  BY <1>1, <1>2, SameFiles DEF DepotInv, TypeOK
<1>4. ClockInv' /\ BufferInv' /\ OpInv'
  <2>1. ClockInv'
    BY <1>1, SameFiles, Numbers DEF DepotInv, ClockInv
  <2>2. BufferInv'
    BY <1>1, SameFiles, Numbers DEF DepotInv, BufferInv
  <2>3. In(op.dir)' = In(op.dir) /\ Content(today)' = Content(today)
    BY <1>1, SameFiles DEF In, Content, IsThere
  <2>4. OpInv'
    BY <1>1, <2>3, SameFiles, Numbers DEF DepotInv, OpInv
  <2> QED
    BY <2>1, <2>2, <2>4
<1>5. SizeInv'
  <2>1. /\ Held(today)' = Held(today) /\ Content(today)' = Content(today)
        /\ Held(target)' = Held(target) /\ target' = target
    BY <1>1, SameFiles DEF Held, Content, IsThere
  <2> QED
    BY <1>1, <2>1, SameFiles, Numbers DEF DepotInv, SizeInv
<1> QED
  BY <1>1, <1>3, <1>4, <1>5, SameFiles DEF DepotInv

LEMMA WriteInvStep == ASSUME DepotInv, WriteInv, Next \/ UNCHANGED vars PROVE WriteInv'
<1>1. op \in Op /\ last \in Nat /\ MaxWrites \in Nat
  BY DepotAssumption DEF DepotInv, TypeOK
<1>2. CASE StartWrite
  BY <1>2, IdleOp DEF StartWrite, Idle, WriteInv
<1>3. CASE TestSlice
  <2>1. op'.writing = op.writing /\ last' = last /\ op.writing
    BY <1>1, <1>3 DEF TestSlice, WriteInv, Op
  <2> QED
    BY <2>1 DEF WriteInv
<1>4. CASE ReOpen \/ Append \/ Arrange \/ ArrangeDone \/ Crash
  <2>1. CASE ReOpen
    BY <2>1 DEF ReOpen, Idle, WriteInv
  <2>2. CASE Append \/ ArrangeDone \/ Crash
    <3>1. op' = Idle
      BY <2>2 DEF Append, ArrangeDone, Crash
    <3> QED
      BY <3>1, IdleOp DEF WriteInv
  <2>3. CASE Arrange
    <3> DEFINE rest == {d \in Days : root'[d] # NoFile}
    <3>1. op' = [Idle EXCEPT !.pc = "rest", !.day = today, !.rest = rest]
      BY <2>3 DEF Arrange
    <3> HIDE DEF rest
    <3> QED
      BY <3>1 DEF Idle, WriteInv
  <2> QED
    BY <1>4, <2>1, <2>2, <2>3
<1>5. CASE Cut \/ Name \/ Move
  <2>1. op'.writing = op.writing /\ op'.pc \in {"open", "name", "move"} /\ last' = last
    BY <1>1, <1>5 DEF Cut, Name, Move, Op
  <2> QED
    BY <2>1 DEF WriteInv
<1>6. CASE Open
  <2>1. CASE op.writing
    <3>1. op'.writing = op.writing /\ last' = last
      BY <1>1, <1>6, <2>1 DEF Open, Op
    <3> QED
      BY <2>1, <3>1 DEF WriteInv
  <2>2. CASE ~op.writing
    BY <1>6, <2>2 DEF Open, WriteInv, Idle
  <2> QED
    BY <2>1, <2>2
<1>7. CASE \E d \in Days : ArrangeRest(d)
  <2>1. op'.writing = op.writing /\ op'.pc = op.pc /\ last' = last
    BY <1>1, <1>7 DEF ArrangeRest, Op
  <2> QED
    BY <2>1 DEF WriteInv
<1>8. CASE Flush \/ Midnight \/ Minute \/ SpaceChanges \/ UNCHANGED vars
  <2>1. op' = op /\ last' = last
    BY <1>8 DEF Flush, Midnight, Minute, SpaceChanges, vars
  <2> QED
    BY <2>1 DEF WriteInv
<1> QED
  BY <1>2, <1>3, <1>4, <1>5, <1>6, <1>7, <1>8 DEF Next, LoganThread, Environment

LEMMA DepotStep == ASSUME DepotInv, WriteInv, Next \/ UNCHANGED vars PROVE DepotInv' /\ WriteInv'
<1>1. DepotInv'
  BY StartWriteD, TestSliceD, AppendD, ReOpenD, CutD, NameD, MoveD, OpenD, FlushD, ArrangeD,
     ArrangeRestD, ArrangeDoneD, MidnightD, CardD, CrashD DEF Next, LoganThread, Environment
<1> QED
  BY <1>1, WriteInvStep

\* What every step of the thread and of its environment keeps: the types, the order of
\* the clock, what the operation has made sure of, where each line is, the order of the
\* slices, the room of the directories and the sizes of the files (LoganThread 218-421).
THEOREM DepotInductive == Spec => [](DepotInv /\ WriteInv)
<1>1. Init => DepotInv /\ WriteInv
  BY InitD, IdleOp DEF Init, WriteInv
<1>2. DepotInv /\ WriteInv /\ [Next]_vars => (DepotInv /\ WriteInv)'
  BY DepotStep
<1> QED
  BY <1>1, <1>2, PTL DEF Spec

\* Every variable keeps its type: no index is 0, no slice is of a day that is none.
THEOREM DepotTypeCorrect == Spec => []TypeOK
<1>1. DepotInv => TypeOK
  BY DEF DepotInv
<1> QED
  BY <1>1, DepotInductive, PTL

\* No line the library took is lost but for its age or to make room, through moves,
\* re-opens, midnights between their steps and crashes, and the buffer belongs to a file
\* that has begun (LoganThread 218-421, clogan_core 372-490, 618-654).
THEOREM NoLineLost == Spec => []Durable
<1>1. DepotInv => Durable
  <2> SUFFICES ASSUME DepotInv PROVE Durable
    OBVIOUS
  <2>1. \A x \in 1..last : x \in Kept \/ x \in UNION {s.logs : s \in evicted} \/ x \in expired
    <3> TAKE x \in 1..last
    <3>1. ASSUME NEW d \in Days, x \in Held(d) PROVE x \in Kept
      BY <3>1 DEF Held, Kept
    <3>2. ASSUME NEW s \in AllSlices, x \in s.logs
          PROVE x \in Kept \/ x \in UNION {t.logs : t \in evicted}
      BY <3>2 DEF AllSlices, Kept
    <3> QED
      BY <3>1, <3>2 DEF DepotInv, LinesInv
  <2> QED
    BY <2>1 DEF DepotInv, BufferInv, Durable
<1> QED
  BY <1>1, DepotInductive, PTL

\* No file of a day grows past a slice and a buffer (LoganThread 234, clogan_core 639).
THEOREM FilesStayBounded == Spec => []FileBounded
<1>1. DepotInv => FileBounded
  <2> SUFFICES ASSUME DepotInv, NEW d \in Days
               PROVE Cardinality(Content(d)) <= mSimpleSize + BufferCap
    BY DEF FileBounded
  <2>1. Content(d) \subseteq Held(d) /\ Held(d) \subseteq 1..last /\ last \in Nat
    BY Numbers DEF Held, DepotInv, LinesInv
  <2>2. IsFiniteSet(Held(d)) /\ Cardinality(Held(d)) \in Nat
    <3>1. IsFiniteSet(1..last)
      BY <2>1, FS_Interval
    <3>2. IsFiniteSet(Held(d))
      BY <2>1, <3>1, FS_Subset
    <3> QED
      BY <3>2, FS_CardinalityType
  <2>3. Cardinality(Content(d)) <= Cardinality(Held(d)) /\ Cardinality(Content(d)) \in Nat
    BY <2>1, <2>2, FS_Subset, FS_CardinalityType
  <2> QED
    BY <2>2, <2>3, Numbers DEF DepotInv, SizeInv
<1> QED
  BY <1>1, DepotInductive, PTL

-------------------------------------------------------------------------------
(* No name is used twice *)

\* A step that leaves the slices and the clock alone
LEMMA FreshSame ==
  ASSUME DepotInv, FreshInv, UNCHANGED <<depot, evicted, today>>, op'.pc \notin {"move", "rest"}
  PROVE  FreshInv'
<1>1. \A e \in evicted : In(e.dir)' = In(e.dir) /\ e.dir \in Nat
  BY SliceFacts, Numbers DEF In, AllSlices
<1>2. op.pc = "rest" => op.day <= today
  BY DEF DepotInv, OpInv
<1>3. ASSUME NEW e \in evicted, In(e.dir) = {} PROVE e.dir + mSaveTime < today
  <2>1. e.dir \in Nat /\ mSaveTime \in Nat /\ today \in Nat /\ op.day \in Nat
    BY <1>1, Numbers
  <2>2. e.dir + mSaveTime < IF op.pc = "rest" THEN op.day ELSE today
    BY <1>3 DEF FreshInv
  <2> QED
    BY <1>2, <2>1, <2>2
<1>4. \A e \in evicted' :
         In(e.dir)' = {} => e.dir + mSaveTime < IF op'.pc = "rest" THEN op'.day ELSE today'
  BY <1>1, <1>3
<1> QED
  BY <1>1, <1>4 DEF FreshInv

\* What is deleted of a directory to make room is older than what stays there, and
\* with room for two something stays.
LEMMA FreshEvict ==
  ASSUME DepotInv, FreshInv, mDepotFileNum >= 2, NEW d \in Days
  PROVE  /\ \A e \in evicted \cup Surplus(d) : \A s \in In(e.dir) :
                e.dir # d \/ s \notin Surplus(d) => e.idx < s.idx
         /\ \A e, f \in evicted \cup Surplus(d) : e.dir = f.dir /\ e.idx = f.idx => e = f
         /\ Surplus(d) # {} => In(d) \ Surplus(d) # {}
<1>1. /\ Surplus(d) \subseteq In(d) /\ IsFiniteSet(In(d))
      /\ Cardinality(In(d) \ Surplus(d)) < mDepotFileNum
      /\ \A o \in Surplus(d) : \A s \in In(d) : s # o => o.idx < s.idx
  BY SurplusIsOldest
<1>2. \A s \in In(d) : s.dir = d /\ s \in depot
  BY DEF In
<1>3. \A s \in AllSlices : s.dir \in Days /\ s.idx \in Nat
  BY SliceFacts
<1>4. \A e \in evicted \cup Surplus(d) : \A s \in In(e.dir) :
         e.dir # d \/ s \notin Surplus(d) => e.idx < s.idx
  BY <1>1, <1>2 DEF FreshInv
<1>5. \A e, f \in evicted \cup Surplus(d) : e.dir = f.dir /\ e.idx = f.idx => e = f
  <2> SUFFICES ASSUME NEW e \in evicted \cup Surplus(d), NEW f \in evicted \cup Surplus(d),
                      e.dir = f.dir, e.idx = f.idx
               PROVE  e = f
    OBVIOUS
  <2>1. e.idx \in Nat /\ f.idx \in Nat
    BY <1>1, <1>2, <1>3 DEF AllSlices
  <2>2. CASE e \in evicted /\ f \in evicted
    BY <2>2 DEF FreshInv
  <2>3. CASE e \in Surplus(d) /\ f \in Surplus(d)
    BY <1>1, <2>1, <2>3
  <2>4. CASE e \in evicted /\ f \in Surplus(d)
    <3>1. f \in In(e.dir)
      BY <1>1, <1>2, <2>4 DEF In
    <3> QED
      BY <2>1, <2>4, <3>1 DEF FreshInv
  <2>5. CASE f \in evicted /\ e \in Surplus(d)
    <3>1. e \in In(f.dir)
      BY <1>1, <1>2, <2>5 DEF In
    <3> QED
      BY <2>1, <2>5, <3>1 DEF FreshInv
  <2> QED
    BY <2>2, <2>3, <2>4, <2>5
<1>6. Surplus(d) # {} => In(d) \ Surplus(d) # {}
  <2> SUFFICES ASSUME NEW o \in Surplus(d), In(d) \ Surplus(d) = {} PROVE FALSE
    OBVIOUS
  <2>1. \A s \in In(d) : s = o
    <3> SUFFICES ASSUME NEW s \in In(d), s # o PROVE FALSE
      OBVIOUS
    <3>1. s \in Surplus(d) /\ o \in In(d)
      BY <1>1
    <3>2. o.idx < s.idx /\ s.idx < o.idx
      BY <1>1, <3>1
    <3>3. o.idx \in Nat /\ s.idx \in Nat
      BY <1>2, <1>3, <3>1 DEF AllSlices
    <3> QED
      BY <3>2, <3>3
  <2>2. In(d) = {o}
    BY <1>1, <2>1
  <2>3. Cardinality(In(d)) = 1
    BY <2>2, FS_Singleton
  <2>4. Cardinality(In(d)) >= mDepotFileNum
    BY DEF Surplus
  <2> QED
    BY <2>3, <2>4, Numbers
<1> QED
  BY <1>4, <1>5, <1>6

LEMMA FreshCut == ASSUME DepotInv, FreshInv, mDepotFileNum >= 2, Cut PROVE FreshInv'
<1>1. op \in Op /\ today \in Days /\ op.pc = "cut"
  BY Numbers DEF Cut, DepotInv, TypeOK
<1>2. CASE Flushed[op.file] = {}
  <2>1. UNCHANGED <<depot, evicted, today>> /\ op'.pc = "open"
    BY <1>1, <1>2 DEF Cut, Op
  <2> QED
    BY <2>1, FreshSame
<1>3. CASE Flushed[op.file] # {}
  <2>1. depot' = depot \ Surplus(today) /\ evicted' = evicted \cup Surplus(today) /\ today' = today
    BY <1>3 DEF Cut
  <2>2. op'.pc = "name"
    BY <1>1, <1>3 DEF Cut, Op
  <2>3. /\ \A e \in evicted \cup Surplus(today) : \A s \in In(e.dir) :
                e.dir # today \/ s \notin Surplus(today) => e.idx < s.idx
        /\ \A e, f \in evicted \cup Surplus(today) : e.dir = f.dir /\ e.idx = f.idx => e = f
        /\ Surplus(today) # {} => In(today) \ Surplus(today) # {}
    BY <1>1, FreshEvict
  <2>4. \A e : In(e.dir)' = In(e.dir) \ Surplus(today)
    BY <2>1 DEF In
  <2>5. \A s \in Surplus(today) : s.dir = today
    BY <1>1, SurplusIsOldest DEF In
  <2>6. \A e \in evicted' : \A s \in In(e.dir)' : e.idx < s.idx
    BY <2>1, <2>3, <2>4
  <2>7. \A e \in evicted' : In(e.dir)' = {} => e.dir + mSaveTime < today'
    <3> SUFFICES ASSUME NEW e \in evicted', In(e.dir)' = {} PROVE e.dir + mSaveTime < today
      BY <2>1
    <3>1. CASE Surplus(today) # {} /\ e.dir = today
      BY <2>3, <2>4, <3>1
    <3>2. CASE ~(Surplus(today) # {} /\ e.dir = today)
      <4>1. e \in evicted
        BY <2>1, <2>5, <3>2
      <4>2. In(e.dir) = {}
        <5>1. \A s \in In(e.dir) : s.dir = e.dir
          BY DEF In
        <5> QED
          BY <2>4, <2>5, <3>2, <5>1
      <4> QED
        BY <1>1, <4>1, <4>2 DEF FreshInv
    <3> QED
      BY <3>1, <3>2
  <2> QED
    BY <2>1, <2>2, <2>3, <2>6, <2>7 DEF FreshInv
<1> QED
  BY <1>2, <1>3

LEMMA FreshName == ASSUME DepotInv, FreshInv, Name PROVE FreshInv'
<1>1. /\ op \in Op /\ op.pc = "name" /\ UNCHANGED <<today, depot, evicted>>
      /\ op' = [op EXCEPT !.pc = "move", !.day = today, !.idx = NextIndex(In(op.dir))]
  BY DEF Name, DepotInv, TypeOK, files
<1>2. op'.pc = "move" /\ op'.dir = op.dir /\ op'.idx = NextIndex(In(op.dir))
  BY <1>1 DEF Op
<1>3. \A e : In(e.dir)' = In(e.dir)
  BY <1>1 DEF In
<1>4. ASSUME op.dir = today, NEW e \in evicted, e.dir = op.dir PROVE e.idx < NextIndex(In(op.dir))
  <2>1. e.dir \in Nat /\ e.idx \in Nat /\ mSaveTime \in Nat
    BY SliceFacts, Numbers DEF AllSlices
  <2>2. In(e.dir) # {}
    BY <1>1, <1>4, <2>1 DEF FreshInv
  <2>3. PICK s \in In(e.dir) : TRUE
    BY <2>2
  <2>4. e.idx < s.idx
    BY <2>3 DEF FreshInv
  <2>5. /\ NextIndex(In(op.dir)) \in Nat \ {0}
        /\ \A t \in In(op.dir) : t.idx < NextIndex(In(op.dir))
    <3>1. PICK n \in Nat : \A t \in depot : t.idx <= n
      BY DEF DepotInv, FiniteInv
    <3>2. In(op.dir) \subseteq Slice /\ \A t \in In(op.dir) : t.idx <= n
      BY <3>1, SliceFacts DEF In
    <3> QED
      BY <3>2, NextIndexIsNew
  <2>6. s.idx \in Nat /\ s.idx < NextIndex(In(op.dir))
    BY <1>4, <2>3, <2>5, SliceFacts DEF In, AllSlices
  <2> QED
    BY <2>1, <2>4, <2>5, <2>6
<1> QED
  BY <1>1, <1>2, <1>3, <1>4 DEF FreshInv

\* A slice that is newer than everything its directory has and has lost is added to it.
LEMMA FreshAdd ==
  ASSUME FreshInv, DepotInv, NEW s \in Slice, NEW D \in SUBSET In(s.dir),
         depot' = (depot \ D) \cup {s}, evicted' = evicted \cup D,
         \A e \in evicted \cup D : \A t \in In(e.dir) : e.dir # s.dir \/ t \notin D => e.idx < t.idx,
         \A e \in evicted \cup D : e.dir = s.dir => e.idx < s.idx
  PROVE  /\ \A e \in evicted' : \A t \in In(e.dir)' : e.idx < t.idx
         /\ \A e \in evicted' : In(e.dir)' = {} => e \in evicted /\ In(e.dir) = {}
<1>1. \A t \in D : t.dir = s.dir
  BY DEF In
<1>2. \A e : \A t \in In(e.dir)' : t = s \/ (t \in In(e.dir) /\ t \notin D)
  BY DEF In
<1>3. \A e \in evicted' : \A t \in In(e.dir)' : e.idx < t.idx
  <2> SUFFICES ASSUME NEW e \in evicted', NEW t \in In(e.dir)' PROVE e.idx < t.idx
    OBVIOUS
  <2>1. t.dir = e.dir
    BY DEF In
  <2> QED
    BY <1>2, <2>1
<1>4. s \in In(s.dir)'
  BY DEF In
<1>5. \A e \in evicted' : In(e.dir)' = {} => e \in evicted /\ In(e.dir) = {}
  <2> SUFFICES ASSUME NEW e \in evicted', In(e.dir)' = {} PROVE e \in evicted /\ In(e.dir) = {}
    OBVIOUS
  <2>1. e.dir # s.dir
    BY <1>4
  <2>2. e \in evicted
    BY <1>1, <2>1
  <2>3. \A t \in In(e.dir) : t \in In(e.dir)'
    BY <1>1, <2>1 DEF In
  <2> QED
    BY <2>2, <2>3
<1> QED
  BY <1>3, <1>5

LEMMA FreshMove == ASSUME DepotInv, FreshInv, Move PROVE FreshInv'
<1>1. /\ op.pc = "move" /\ op' = [op EXCEPT !.pc = "open"] /\ op \in Op
      /\ UNCHANGED <<today, evicted>>
  BY DEF Move, DepotInv, TypeOK
<1>2. op'.pc = "open"
  BY <1>1 DEF Op
<1>3. CASE today \notin dirs
  <2>1. depot' = depot
    BY <1>3 DEF Move
  <2> QED
    BY <1>1, <1>2, <2>1, FreshSame
<1>4. CASE today \in dirs
  <2> DEFINE s == [dir |-> today, day |-> op.day, idx |-> op.idx, logs |-> root[op.file]]
  <2>1. /\ IsThere(op.file) /\ op.dir \in Days /\ today \in Days /\ op.file \in Days
        /\ op.day \in Days /\ op.idx \in Nat \ {0} /\ root \in RootType
        /\ op.dir <= today /\ \A d \in dirs : d <= op.dir
        /\ \A t \in In(op.dir) : t.idx < op.idx
    BY <1>1, Numbers DEF DepotInv, OpInv
  <2>2. op.dir = today
    <3>1. today <= op.dir
      BY <1>4, <2>1
    <3>2. today \in Nat /\ op.dir \in Nat
      BY Numbers
    <3> QED
      BY <2>1, <3>1, <3>2
  <2>3. s \in Slice
    BY <2>1 DEF Slice, RootType, IsThere
  <2>4. depot' = depot \cup {s}
    <3>1. depot' = Put(depot, s)
      BY <1>4 DEF Move
    <3>2. \A t \in depot : t.dir = s.dir => t.idx # s.idx
      <4> SUFFICES ASSUME NEW t \in depot, t.dir = today, t.idx = op.idx PROVE FALSE
        OBVIOUS
      <4>1. t \in In(op.dir)
        BY <2>2 DEF In
      <4> QED
        BY <2>1, <4>1
    <3> HIDE DEF s
    <3> QED
      BY <3>1, <3>2, PutNew
  <2>5. \A e \in evicted : e.dir = s.dir => e.idx < s.idx
    BY <1>1, <2>2 DEF FreshInv
  <2>6. s.dir = today
    OBVIOUS
  <2> HIDE DEF s
  <2>7. /\ \A e \in evicted' : \A t \in In(e.dir)' : e.idx < t.idx
        /\ \A e \in evicted' : In(e.dir)' = {} => e \in evicted /\ In(e.dir) = {}
    <3>1. depot' = (depot \ {}) \cup {s} /\ evicted' = evicted \cup {} /\ {} \in SUBSET In(s.dir)
      BY <1>1, <2>4
    <3>2. \A e \in evicted \cup {} : \A t \in In(e.dir) : e.dir # s.dir \/ t \notin {} => e.idx < t.idx
      BY DEF FreshInv
    <3>3. \A e \in evicted \cup {} : e.dir = s.dir => e.idx < s.idx
      BY <2>5
    <3> QED
      BY <2>3, <3>1, <3>2, <3>3, FreshAdd
  <2> QED
    BY <1>1, <1>2, <2>7 DEF FreshInv
<1> QED
  BY <1>3, <1>4

LEMMA FreshArrange == ASSUME DepotInv, FreshInv, Arrange PROVE FreshInv'
<1>1. /\ op.pc = "idle" /\ evicted' = evicted /\ today' = today
      /\ depot' = {s \in depot : ~Expired(s.dir)}
  BY DEF Arrange
<1>2. op'.pc = "rest" /\ op'.day = today
  <2> DEFINE rest == {d \in Days : root'[d] # NoFile}
  <2>1. op' = [Idle EXCEPT !.pc = "rest", !.day = today, !.rest = rest]
    BY DEF Arrange
  <2> HIDE DEF rest
  <2> QED
    BY <2>1 DEF Idle
<1>3. \A e : In(e.dir)' \subseteq In(e.dir)
  BY <1>1 DEF In
<1>4. \A e \in evicted : In(e.dir)' = {} => e.dir + mSaveTime < today
  <2> SUFFICES ASSUME NEW e \in evicted, In(e.dir)' = {} PROVE e.dir + mSaveTime < today
    OBVIOUS
  <2>1. CASE In(e.dir) = {}
    BY <1>1, <2>1 DEF FreshInv
  <2>2. ASSUME NEW s \in In(e.dir) PROVE e.dir + mSaveTime < today
    <3>1. s \in depot /\ s.dir = e.dir
      BY <2>2 DEF In
    <3>2. Expired(e.dir)
      BY <1>1, <3>1 DEF In
    <3> QED
      BY <3>2 DEF Expired
  <2> QED
    BY <2>1, <2>2
<1> QED
  BY <1>1, <1>2, <1>3, <1>4 DEF FreshInv

LEMMA FreshArrangeRest ==
  ASSUME DepotInv, FreshInv, mDepotFileNum >= 2, NEW d \in Days, ArrangeRest(d)
  PROVE  FreshInv'
<1>1. /\ op.pc = "rest" /\ d \in op.rest /\ op \in Op /\ today' = today
  BY DEF ArrangeRest, DepotInv, TypeOK
<1>2. op'.pc = "rest" /\ op'.day = op.day
  BY <1>1 DEF ArrangeRest, Op
<1>3. CASE UNCHANGED <<depot, evicted>>
  <2>1. \A e : In(e.dir)' = In(e.dir)
    BY <1>3 DEF In
  <2> QED
    BY <1>1, <1>2, <1>3, <2>1 DEF FreshInv
<1>4. CASE d # today /\ root[d] # {} /\ ~UNCHANGED <<depot, evicted>>
  <2> DEFINE S == In(d) \ Surplus(d)
             s == [dir |-> d, day |-> d, idx |-> NextIndex(S), logs |-> root[d]]
  <2>1. depot' = Put(depot \ Surplus(d), s) /\ evicted' = evicted \cup Surplus(d)
    BY <1>4 DEF ArrangeRest
  <2>2. /\ \A e \in evicted \cup Surplus(d) : \A t \in In(e.dir) :
                e.dir # d \/ t \notin Surplus(d) => e.idx < t.idx
        /\ \A e, f \in evicted \cup Surplus(d) : e.dir = f.dir /\ e.idx = f.idx => e = f
        /\ Surplus(d) # {} => S # {}
    BY FreshEvict
  <2>3. Surplus(d) \subseteq In(d) /\ In(d) \subseteq depot /\ \A t \in In(d) : t.dir = d
    BY SurplusIsOldest DEF In
  <2>4. NextIndex(S) \in Nat \ {0} /\ \A t \in S : t.idx < NextIndex(S)
    <3>1. PICK n \in Nat : \A t \in depot : t.idx <= n
      BY DEF DepotInv, FiniteInv
    <3>2. S \subseteq Slice /\ \A t \in S : t.idx <= n
      BY <2>3, <3>1, SliceFacts
    <3> QED
      BY <3>2, NextIndexIsNew
  <2>5. IsThere(d) /\ op.day <= d + mSaveTime
    BY <1>1 DEF DepotInv, OpInv
  <2>6. s \in Slice /\ s.dir = d /\ s.idx = NextIndex(S)
    <3>1. root[d] \in SUBSET Logs
      BY <2>5, Numbers DEF IsThere, RootType
    <3> QED
      BY <2>4, <3>1 DEF Slice
  <2>7. depot' = (depot \ Surplus(d)) \cup {s}
    <3>1. \A t \in depot \ Surplus(d) : t.dir = s.dir => t.idx # s.idx
      <4> SUFFICES ASSUME NEW t \in depot \ Surplus(d), t.dir = d, t.idx = NextIndex(S) PROVE FALSE
        BY <2>6
      <4>1. t \in S
        BY DEF In
      <4> QED
        BY <2>4, <4>1
    <3> HIDE DEF s, S
    <3> QED
      BY <2>1, <3>1, PutNew
  <2>8. \A e \in evicted \cup Surplus(d) : e.dir = d => e.idx < NextIndex(S)
    <3> SUFFICES ASSUME NEW e \in evicted \cup Surplus(d), e.dir = d PROVE e.idx < NextIndex(S)
      OBVIOUS
    <3>1. e.idx \in Nat
      BY <2>3, SliceFacts DEF AllSlices
    <3>2. S # {}
      <4>1. CASE Surplus(d) # {}
        BY <2>2, <4>1
      <4>2. CASE Surplus(d) = {}
        <5>1. e \in evicted /\ S = In(e.dir)
          BY <4>2
        <5>2. op.day \in Nat /\ d \in Nat /\ mSaveTime \in Nat
          BY Numbers
        <5>3. In(e.dir) # {}
          BY <1>1, <2>5, <5>1, <5>2 DEF FreshInv
        <5> QED
          BY <5>1, <5>3
      <4> QED
        BY <4>1, <4>2
    <3>3. PICK t \in S : TRUE
      BY <3>2
    <3>4. e.idx < t.idx /\ t.idx < NextIndex(S) /\ t.idx \in Nat
      BY <2>2, <2>3, <2>4, <3>3, SliceFacts DEF AllSlices
    <3> QED
      BY <2>4, <3>1, <3>4
  <2> HIDE DEF s, S
  <2>9. /\ \A e \in evicted' : \A t \in In(e.dir)' : e.idx < t.idx
        /\ \A e \in evicted' : In(e.dir)' = {} => e \in evicted /\ In(e.dir) = {}
    <3>1. Surplus(d) \in SUBSET In(s.dir)
      BY <2>3, <2>6
    <3>2. /\ \A e \in evicted \cup Surplus(d) : \A t \in In(e.dir) :
                e.dir # s.dir \/ t \notin Surplus(d) => e.idx < t.idx
          /\ \A e \in evicted \cup Surplus(d) : e.dir = s.dir => e.idx < s.idx
      BY <2>2, <2>6, <2>8
    <3> QED
      BY <2>1, <2>6, <2>7, <3>1, <3>2, FreshAdd
  <2> QED
    BY <1>1, <1>2, <2>1, <2>2, <2>9 DEF FreshInv
<1> QED
  BY <1>3, <1>4 DEF ArrangeRest

LEMMA FreshMidnight == ASSUME DepotInv, FreshInv, Midnight PROVE FreshInv'
<1>1. today' = today + 1 /\ UNCHANGED <<depot, evicted, op>>
  BY DEF Midnight, files
<1>2. \A e \in evicted : In(e.dir)' = In(e.dir) /\ e.dir \in Nat
  BY <1>1, SliceFacts, Numbers DEF In, AllSlices
<1>3. ASSUME NEW e \in evicted, In(e.dir) = {}
      PROVE e.dir + mSaveTime < IF op.pc = "rest" THEN op.day ELSE today + 1
  <2>1. e.dir + mSaveTime < IF op.pc = "rest" THEN op.day ELSE today
    BY <1>3 DEF FreshInv
  <2>2. e.dir \in Nat /\ mSaveTime \in Nat /\ today \in Nat
    BY <1>2, Numbers
  <2> QED
    BY <2>1, <2>2
<1>4. op.pc = "move" => op.dir # today + 1
  <2>1. op.pc = "move" => op.dir <= today
    BY DEF DepotInv, OpInv
  <2>2. today \in Nat /\ op.dir \in Nat
    BY Numbers
  <2> QED
    BY <2>1, <2>2
<1> QED
  BY <1>1, <1>2, <1>3, <1>4 DEF FreshInv

LEMMA FreshStep ==
  ASSUME DepotInv, FreshInv, mDepotFileNum >= 2, Next \/ UNCHANGED vars
  PROVE  FreshInv'
<1>1. op \in Op
  BY DEF DepotInv, TypeOK
<1>2. CASE StartWrite \/ TestSlice \/ ReOpen \/ Open \/ Append \/ ArrangeDone \/ Crash
  <2>1. UNCHANGED <<depot, evicted, today>>
    BY <1>2 DEF StartWrite, TestSlice, ReOpen, Open, Append, ArrangeDone, Crash, files
  <2>2. op'.pc \notin {"move", "rest"}
    BY <1>1, <1>2, IdleOp DEF StartWrite, TestSlice, ReOpen, Open, Append, ArrangeDone, Crash, Op, Idle
  <2> QED
    BY <2>1, <2>2, FreshSame
<1>3. CASE Flush \/ Minute \/ SpaceChanges \/ UNCHANGED vars
  <2>1. UNCHANGED <<depot, evicted, today, op>>
    BY <1>3 DEF Flush, Minute, SpaceChanges, vars, files
  <2>2. \A e : In(e.dir)' = In(e.dir)
    BY <2>1 DEF In
  <2> QED
    BY <2>1, <2>2 DEF FreshInv
<1> QED
  BY <1>2, <1>3, FreshCut, FreshName, FreshMove, FreshArrange, FreshArrangeRest, FreshMidnight
     DEF Next, LoganThread, Environment

\* A directory never holds more slices than it may and keeps the newest: what was deleted
\* to make room is older than everything that is there (LoganThread 328, 358, 385).
THEOREM NewestKept ==
  Spec => [](/\ \A d \in Days : Cardinality(In(d)) <= mDepotFileNum
             /\ \A e \in evicted : \A s \in In(e.dir) : \A x \in e.logs, y \in s.logs : x < y)
<1>1. DepotInv => /\ \A d \in Days : Cardinality(In(d)) <= mDepotFileNum
                  /\ \A e \in evicted : \A s \in In(e.dir) : \A x \in e.logs, y \in s.logs : x < y
  BY DEF DepotInv, RoomInv, OrderInv, Before
<1> QED
  BY <1>1, DepotInductive, PTL

\* With room for two slices no name is used twice either (LoganThread 404-421). With room
\* for one the deletion empties the directory, and its numbering begins anew.
THEOREM NoNameTwice == mDepotFileNum >= 2 /\ Spec => []DepotInOrder
<1> SUFFICES ASSUME mDepotFileNum >= 2 PROVE Spec => []DepotInOrder
  OBVIOUS
<1>1. Init => FreshInv
  BY DEF Init, FreshInv, Idle
<1>2. DepotInv /\ DepotInv' /\ FreshInv /\ [Next]_vars => FreshInv'
  BY FreshStep
<1>3. DepotInv /\ FreshInv => DepotInOrder
  <2> SUFFICES ASSUME DepotInv, FreshInv PROVE DepotInOrder
    OBVIOUS
  <2>1. \A s, t \in depot \cup evicted : <<s.dir, s.day, s.idx>> = <<t.dir, t.day, t.idx>> => s = t
    <3> SUFFICES ASSUME NEW s \in depot \cup evicted, NEW t \in depot \cup evicted,
                        s.dir = t.dir, s.idx = t.idx
                 PROVE  s = t
      OBVIOUS
    <3>1. s.idx \in Nat /\ t.idx \in Nat
      BY SliceFacts DEF AllSlices
    <3>2. CASE s \in depot /\ t \in depot
      BY <3>2 DEF DepotInv, OrderInv
    <3>3. CASE s \in evicted /\ t \in evicted
      BY <3>3 DEF FreshInv
    <3>4. CASE s \in evicted /\ t \in depot
      BY <3>1, <3>4 DEF FreshInv, In
    <3>5. CASE t \in evicted /\ s \in depot
      BY <3>1, <3>5 DEF FreshInv, In
    <3> QED
      BY <3>2, <3>3, <3>4, <3>5
  <2> QED
    BY <2>1 DEF DepotInv, RoomInv, OrderInv, Before, DepotInOrder
<1> QED
  BY <1>1, <1>2, <1>3, DepotInductive, PTL DEF Spec
===============================================================================
