------------------------------- MODULE LogDepot -------------------------------
(***************************************************************************)
(* The files of LoganThread, seen from its main-process instance: the file *)
(* of the day in the root directory, the native buffer in front of it, the *)
(* slices <day>_<index> in the directories of the days.                    *)
(*                                                                         *)
(* One thread executes the operations; the clock, the free space and the   *)
(* end of the process are the environment's.  LoganThread asks the clock   *)
(* anew in every line that needs the date, so every such line is a step,   *)
(* except within the opening of a new day.  A log line is the number of    *)
(* its write and has size 1; the native buffer is the mapped file, which   *)
(* survives the process.                                                   *)
(***************************************************************************)
EXTENDS Naturals, FiniteSets, FiniteSetsExt

CONSTANTS
    LastDay,       \* bound: the days are 1..LastDay
    NoFile,        \* root[d] when there is no file
    mSimpleSize,   \* size at which the file of the day is cut
    mDepotFileNum, \* slices a day may have
    mSaveTime,     \* days that files are kept
    BufferCap,     \* size at which the native buffer is written to its file
    MaxWrites,     \* bound: log lines written
    Budget         \* bound: how often each event of the environment happens

Days == 1..LastDay
Logs == 1..MaxWrites
Events == {"midnight", "back", "minute", "space", "crash"}

ASSUME DepotAssumption ==
    /\ LastDay \in Nat \ {0}
    /\ mSimpleSize \in Nat \ {0} /\ mDepotFileNum \in Nat \ {0}
    /\ mSaveTime \in Nat /\ BufferCap \in Nat \ {0} /\ MaxWrites \in Nat
    /\ Budget \in [Events -> Nat]
    /\ \A S \in SUBSET Logs : NoFile # S

VARIABLES
    today,        \* the date the clock shows
    mCurrentDay,  \* the day LoganThread has opened, 0 for none
    root,         \* root[d]: what the file of day d in the root directory holds
    dirs,         \* the days that have a directory
    depot,        \* the slices in the directories
    target,       \* the day whose file the native library has open, 0 for none
    buffer,       \* what the native buffer holds
    op,           \* the operation LoganThread executes
    last,         \* the number of the last log line the library took
    space,        \* isCanWriteSDCard()
    mIsSDCard,    \* what the last check of it said
    idle,         \* minutes since the last write, 2 for more than one
    unchecked,    \* minutes since the last check, 2 for more than one
    left,         \* bound: events of the environment that may still happen
    evicted,      \* history: slices deleted to make room
    expired       \* history: log lines deleted for their age

files == <<root, dirs, depot, target, buffer, evicted, expired>>
card  == <<space, mIsSDCard, idle, unchecked>>
vars  == <<today, mCurrentDay, files, op, last, card, left>>

Slice == [dir : Days, day : Days, idx : Nat \ {0}, logs : SUBSET Logs]

\* file: what is moved; dir, day, idx: where to; rest: root files to arrange
Op == [pc : {"idle", "slice", "cut", "name", "move", "open", "append", "rest"},
       writing : BOOLEAN, file : Days, dir : Days, day : Days, idx : Nat,
       rest : SUBSET Days]
Idle == [pc |-> "idle", writing |-> FALSE, file |-> 1, dir |-> 1, day |-> 1,
         idx |-> 0, rest |-> {}]

TypeOK ==
    /\ today \in Days /\ mCurrentDay \in Days \cup {0}
    /\ root \in [Days -> (SUBSET Logs) \cup {NoFile}]
    /\ dirs \subseteq Days
    /\ depot \subseteq Slice
    /\ target \in Days \cup {0}
    /\ buffer \subseteq Logs
    /\ op \in Op
    /\ last \in 0..MaxWrites
    /\ space \in BOOLEAN /\ mIsSDCard \in BOOLEAN
    /\ idle \in 0..2 /\ unchecked \in 0..2
    /\ left \in [Events -> Nat]
    /\ evicted \subseteq Slice
    /\ expired \subseteq Logs

-------------------------------------------------------------------------------
(* Directories *)

IsThere(d) == root[d] # NoFile
Content(d) == IF IsThere(d) THEN root[d] ELSE {}
In(d) == {s \in depot : s.dir = d}

\* Mutants: indices that count the slices, that fill gaps, that start at 0.
NextIndexByCount(S) == 1 + Cardinality(S)
NextIndexInGap(S) == Min({n \in 1..(1 + Cardinality(S)) : \A s \in S : s.idx # n})
NextIndexFromZero(S) == IF S = {} THEN 0 ELSE 1 + Max({s.idx : s \in S})

\* getLastestIndex: one more than the highest index of the directory's slices S
NextIndex(S) == 1 + Max({0} \cup {s.idx : s \in S})

\* Mutant: the highest index instead of the lowest.
Newest(d) == {s \in In(d) : s.day = d /\ \A t \in In(d) : s.idx >= t.idx}
\* getOldestFile: the lowest index, under the name of the directory's own day
Oldest(d) == {s \in In(d) : s.day = d /\ \A t \in In(d) : s.idx <= t.idx}

\* Mutant: one slice too many.
SurplusTooLate(d) == IF Cardinality(In(d)) > mDepotFileNum THEN Oldest(d) ELSE {}
\* What is deleted from directory d before a slice is added
Surplus(d) == IF Cardinality(In(d)) >= mDepotFileNum THEN Oldest(d) ELSE {}

\* renameTo: what has the name is replaced.
Put(S, s) == {t \in S : <<t.dir, t.day, t.idx>> # <<s.dir, s.day, s.idx>>} \cup {s}

-------------------------------------------------------------------------------
(* The native library: clogan_flush, clogan_open, clogan_write *)

Flushed == IF buffer = {} THEN root ELSE [root EXCEPT ![target] = Content(target) \cup buffer]

\* Mutant: what was buffered for the last file stays in the buffer.
LoganOpenUnflushed(d) ==
    /\ root' = [root EXCEPT ![d] = IF @ = NoFile THEN {} ELSE @]
    /\ UNCHANGED buffer
    /\ target' = d

LoganOpen(d) ==
    /\ root' = [Flushed EXCEPT ![d] = IF @ = NoFile THEN {} ELSE @]
    /\ buffer' = {}
    /\ target' = d

\* The first line of an empty file is written at once.
LoganWrite(w) ==
    IF Content(target) = {} \/ Cardinality(buffer) + 1 >= BufferCap
    THEN /\ root' = [root EXCEPT ![target] = Content(target) \cup buffer \cup {w}]
         /\ buffer' = {}
    ELSE /\ buffer' = buffer \cup {w}
         /\ root' = [root EXCEPT ![target] = Content(target)]

-------------------------------------------------------------------------------
(* The operations of LoganThread *)

\* doWriteLog2File: on a new day its directory and its file
StartWrite ==
    /\ op.pc = "idle"
    /\ last < MaxWrites
    /\ IF mCurrentDay # today
       THEN /\ mCurrentDay' = today
            /\ dirs' = dirs \cup {today}
            /\ LoganOpen(today)
       ELSE UNCHANGED <<mCurrentDay, dirs, root, buffer, target>>
    /\ op' = [Idle EXCEPT !.pc = "slice", !.writing = TRUE]
    /\ UNCHANGED <<today, depot, last, card, left, evicted, expired>>

\* Mutant: larger than a slice.
SliceTestLate == IsThere(today) /\ Cardinality(root[today]) > mSimpleSize + 1
\* Is the file of today as large as a slice?
SliceTest == IsThere(today) /\ Cardinality(root[today]) >= mSimpleSize

TestSlice ==
    /\ op.pc = "slice"
    /\ op' = IF SliceTest THEN [op EXCEPT !.pc = "cut", !.file = today]
             ELSE [op EXCEPT !.pc = "append"]
    /\ UNCHANGED <<today, mCurrentDay, files, last, card, left>>

\* doReOpenLogFile: nothing, not even the callback, without a file of today
ReOpen ==
    /\ op.pc = "idle"
    /\ IsThere(today)
    /\ op' = [Idle EXCEPT !.pc = "cut", !.file = today]
    /\ UNCHANGED <<today, mCurrentDay, files, last, card, left>>

\* moveCuttedFileToDir: an empty file is deleted, a full directory makes room.
Cut ==
    /\ op.pc = "cut"
    /\ buffer' = {}
    /\ IF Flushed[op.file] = {}
       THEN /\ root' = [Flushed EXCEPT ![op.file] = NoFile]
            /\ op' = [op EXCEPT !.pc = "open"]
            /\ UNCHANGED <<dirs, depot, evicted>>
       ELSE /\ root' = Flushed
            /\ dirs' = dirs \cup {today}
            /\ depot' = depot \ Surplus(today)
            /\ evicted' = evicted \cup Surplus(today)
            /\ op' = [op EXCEPT !.pc = "name", !.dir = today]
    /\ UNCHANGED <<today, mCurrentDay, target, last, card, left, expired>>

Name ==
    /\ op.pc = "name"
    /\ op' = [op EXCEPT !.pc = "move", !.day = today, !.idx = NextIndex(In(op.dir))]
    /\ UNCHANGED <<today, mCurrentDay, files, last, card, left>>

\* Without the directory renameTo fails, and nobody looks at its result.
Move ==
    /\ op.pc = "move"
    /\ IF today \in dirs
       THEN /\ depot' = Put(depot, [dir |-> today, day |-> op.day, idx |-> op.idx,
                                    logs |-> root[op.file]])
            /\ root' = [root EXCEPT ![op.file] = NoFile]
       ELSE UNCHANGED <<depot, root>>
    /\ op' = [op EXCEPT !.pc = "open"]
    /\ UNCHANGED <<today, mCurrentDay, dirs, target, buffer, last, card, left, evicted,
                   expired>>

Open ==
    /\ op.pc = "open"
    /\ LoganOpen(today)
    /\ op' = IF op.writing THEN [op EXCEPT !.pc = "append"] ELSE Idle
    /\ UNCHANGED <<today, mCurrentDay, dirs, depot, last, card, left, evicted, expired>>

\* The space is checked if the last write, not the last check, is over a minute ago.
Checks == idle > 1

Append ==
    /\ op.pc = "append"
    /\ mIsSDCard' = IF Checks THEN space ELSE mIsSDCard
    /\ unchecked' = IF Checks THEN 0 ELSE unchecked
    /\ idle' = 0
    /\ IF mIsSDCard'
       THEN LoganWrite(last + 1) /\ last' = last + 1
       ELSE UNCHANGED <<root, buffer, last>>
    /\ op' = Idle
    /\ UNCHANGED <<today, mCurrentDay, dirs, depot, target, space, left, evicted, expired>>

Flush ==
    /\ op.pc = "idle"
    /\ buffer # {}
    /\ root' = Flushed
    /\ buffer' = {}
    /\ UNCHANGED <<today, mCurrentDay, dirs, depot, target, op, last, card, left, evicted,
                   expired>>

\* doArrangeFile: flush, doCleanUseLessDir ...
Expired(d) == d + mSaveTime < today

Arrange ==
    /\ op.pc = "idle"
    /\ root' = [d \in Days |-> IF Expired(d) THEN NoFile ELSE Flushed[d]]
    /\ buffer' = {}
    /\ dirs' = {d \in dirs : ~Expired(d)}
    /\ depot' = {s \in depot : ~Expired(s.dir)}
    /\ expired' = expired \cup (UNION {s.logs : s \in depot \ depot'})
                     \cup (UNION {Flushed[d] : d \in {e \in Days : Expired(e) /\ IsThere(e)}})
    /\ op' = [Idle EXCEPT !.pc = "rest", !.day = today,
                          !.rest = {d \in Days : root'[d] # NoFile}]
    /\ UNCHANGED <<today, mCurrentDay, target, last, card, left, evicted>>

\* ... and moveRestLogFileDir: the files in any order, up to an empty one
ArrangeRest(d) ==
    /\ op.pc = "rest"
    /\ d \in op.rest
    /\ \/ /\ d = today
          /\ op' = [op EXCEPT !.rest = @ \ {d}]
          /\ UNCHANGED <<root, dirs, depot, evicted>>
       \/ /\ d # today /\ root[d] = {}
          /\ root' = [root EXCEPT ![d] = NoFile]
          /\ op' = [op EXCEPT !.rest = {}]
          /\ UNCHANGED <<dirs, depot, evicted>>
       \/ /\ d # today /\ root[d] # {}
          /\ dirs' = dirs \cup {d}
          /\ depot' = Put(depot \ Surplus(d),
                          [dir |-> d, day |-> d, idx |-> NextIndex(In(d) \ Surplus(d)),
                           logs |-> root[d]])
          /\ evicted' = evicted \cup Surplus(d)
          /\ root' = [root EXCEPT ![d] = NoFile]
          /\ op' = [op EXCEPT !.rest = @ \ {d}]
    /\ UNCHANGED <<today, mCurrentDay, target, buffer, last, card, left, expired>>

ArrangeDone ==
    /\ op.pc = "rest"
    /\ op.rest = {}
    /\ op' = Idle
    /\ UNCHANGED <<today, mCurrentDay, files, last, card, left>>

-------------------------------------------------------------------------------
(* The environment *)

Spend(e) == left[e] > 0 /\ left' = [left EXCEPT ![e] = @ - 1]

Midnight ==
    /\ today < LastDay
    /\ Spend("midnight")
    /\ today' = today + 1
    /\ UNCHANGED <<mCurrentDay, files, op, last, card>>

\* The clock is set back.
SetBack ==
    /\ today > 1
    /\ Spend("back")
    /\ today' = today - 1
    /\ UNCHANGED <<mCurrentDay, files, op, last, card>>

Minute ==
    /\ Spend("minute")
    /\ idle' = Min({2, idle + 1})
    /\ unchecked' = Min({2, unchecked + 1})
    /\ UNCHANGED <<today, mCurrentDay, files, op, last, space, mIsSDCard>>

SpaceChanges ==
    /\ Spend("space")
    /\ space' = ~space
    /\ UNCHANGED <<today, mCurrentDay, files, op, last, mIsSDCard, idle, unchecked>>

\* The process dies and starts anew: read_mmap_data_clogan writes what the
\* mapped buffer holds to the file it names.
Crash ==
    /\ Spend("crash")
    /\ root' = Flushed
    /\ buffer' = {}
    /\ target' = 0
    /\ mCurrentDay' = 0
    /\ op' = Idle
    /\ mIsSDCard' = FALSE
    /\ idle' = 2
    /\ unchecked' = 2
    /\ UNCHANGED <<today, dirs, depot, last, space, evicted, expired>>

Init ==
    /\ today = 1
    /\ mCurrentDay = 0
    /\ root = [d \in Days |-> NoFile]
    /\ dirs = {}
    /\ depot = {}
    /\ target = 0
    /\ buffer = {}
    /\ op = Idle
    /\ last = 0
    /\ space = TRUE
    /\ mIsSDCard = FALSE
    /\ idle = 2
    /\ unchecked = 2
    /\ left = Budget
    /\ evicted = {}
    /\ expired = {}

LoganThread ==
    \/ StartWrite \/ TestSlice \/ Append
    \/ ReOpen \/ Cut \/ Name \/ Move \/ Open
    \/ Flush
    \/ Arrange \/ (\E d \in Days : ArrangeRest(d)) \/ ArrangeDone

Environment == Midnight \/ Minute \/ SpaceChanges \/ Crash

Next == LoganThread \/ Environment

Spec == Init /\ [][Next]_vars

\* The same with a clock that may be set back.
BackSpec == Init /\ [][Next \/ SetBack]_vars

-------------------------------------------------------------------------------
(* Properties *)

\* Every log line the library took is in the buffer, in a file of the root
\* directory or in a slice, or was deleted because its slice was surplus or its
\* day too old (LoganThread 218-421): no move, re-open, crash or midnight
\* between them loses a line.  What the buffer holds belongs to a file that is still
\* in the root directory and has begun (clogan_core 372-490, 618-654): the recovery
\* after a crash continues that file and revives none that was moved away.
Kept == buffer \cup (UNION {Content(d) : d \in Days}) \cup (UNION {s.logs : s \in depot})
Durable ==
    /\ 1..last \subseteq Kept \cup (UNION {s.logs : s \in evicted}) \cup expired
    /\ buffer # {} => target \in Days /\ Content(target) # {}

\* The directory of a day keeps at most mDepotFileNum slices (LoganThread 328, 358),
\* and the newest: everything that was deleted to make room is older than what is
\* kept (385).  With room for two slices a name is never used twice (404-421): the
\* table of uploads knows files by name, and a row of a deleted slice that outlives
\* it must not describe another.
DepotInOrder ==
    /\ \A d \in Days : Cardinality(In(d)) <= mDepotFileNum
    /\ \A e \in evicted : \A s \in In(e.dir) : \A x \in e.logs, y \in s.logs : x < y
    /\ \A s, t \in depot \cup evicted :
          <<s.dir, s.day, s.idx>> = <<t.dir, t.day, t.idx>> => s = t

\* The file of a day never grows past a slice and a buffer (LoganThread 234,
\* clogan_core 639): the library's limit for a file is not reached, whatever
\* midnights, re-opens and failed moves do.
FileBounded == \A d \in Days : Cardinality(Content(d)) <= mSimpleSize + BufferCap

\* LoganThread:198, 302: an arrange leaves no lines of an earlier day behind.
RestArranged ==
    (op.pc = "rest" /\ op.rest = {}) => \A d \in Days : d < op.day => Content(d) = {}

\* LoganThread:243: the space is checked every minute: no line is written on the
\* word of an older check.
CheckedEachMinute == [][last' > last => unchecked' < 2]_vars
===============================================================================
