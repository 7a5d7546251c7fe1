------------------------------- MODULE CLoganInv -------------------------------
(***************************************************************************)
(* The inductive invariants of CLogan, and the notions they are made of.   *)
(***************************************************************************)
EXTENDS CLogan

-------------------------------------------------------------------------------
(* Phases *)

\* write_flush_clogan is under way and returns to r.
Flushing    == \/ pc \in {"flush", "flushed", "dest", "put", "clear", "cleared"}
               \/ pc \in {"total", "len"} /\ after \in {"flushed", "cleared"}
FlushFor(r) == Flushing /\ ret = r

\* clogan_write is under way.
Writing ==
    \/ pc \in {"compress", "unit", "ended", "section"}
    \/ pc \in {"total", "len"} /\ after \in {"unit", "ended"}
    \/ FlushFor("section")

\* The buffer has been written, and clear_clogan has yet to store the lengths.
Clearing == pc = "cleared" \/ (pc \in {"total", "len"} /\ after = "cleared")

PhaseInv ==
    /\ Writing => secs >= 1 /\ last \in Lines /\ m.is_open_ok
    /\ pc = "open" \/ FlushFor("open") => arg \in Names
    /\ pc = "close" \/ FlushFor("close") => ~m.is_open_ok
    /\ pc \in {"open", "close"} => m.total_len <= 1
    /\ pc = "down" => m = Fresh

\* What is in use of the buffer is there.
LenInv ==
    /\ m.total_len <= Len(area)
    /\ mode = "MMAP" \/ pc = "down" => mapTotal <= Len(area)
    /\ pc \in {"total", "len", "cleared"} \/ m.is_open_ok => Len(area) >= 1

\* No file is open, and nothing is in the buffer.
Closed == m.total_len = 0 /\ ~m.is_open_ok /\ pc \in {"idle", "open", "down"}

\* The stream writes to the file whose name the model and the mapped header have.
LinkInv ==
    /\ ~Closed => /\ m.path \in Names /\ m.fp = m.path
                  /\ mode = "MMAP" => mapName = m.path
    /\ pc = "put" => Exists(m.fp)

CoreInv == TypeOK /\ PhaseInv /\ LenInv /\ LinkInv

\* Untorn is for good once it is lost.
TearsLeft == left["tear"] <= Budget["tear"]

-------------------------------------------------------------------------------
(* What is in the buffer *)

\* A unit is begun with a header, and a stream of deflate fills a block at once.
UnitInv ==
    /\ Len(area) >= 1 => area[1][1] # "data"
    /\ m.is_open_ok /\ ~Clearing => m.total_len >= 1
    /\ Clearing => m.total_len = 0
    /\ m.remain # <<>> => m.zlib = "ING"
    /\ m.zlib = "ING" => m.total_len > 1
    /\ pc # "flush" /\ Flushing => m.zlib # "ING"
    /\ mapName = None => mapTotal = 0

\* The cell may be in the file of that name: if it belongs to a line, it is one of those
\* the line has so far, and the line was written while that file was open, or a recovery
\* could not open its file.
Of(c, p) ==
    c[1] = "data" => /\ c[2] \in 1..last /\ c[3] \in 1..size[c[2]]
                     /\ home[c[2]] = p \/ c[2] \in lost["stray"]

AllOf(s, n, p) == \A i \in 1..n : Of(s[i], p)
Stray(c) == c[1] = "data" => c[2] \in lost["stray"]

\* The line being written belongs to the file that is open, and so does what the
\* buffer holds.
BufferHome == /\ Writing => home[last] = m.path
              /\ AllOf(area, m.total_len, m.path)
              /\ AllOf(m.remain, Len(m.remain), m.path)

\* What the next process would write belongs to the file the mapped header names; and
\* with nothing in use any more, it has no lines but those of a failed recovery.
MappedHome ==
    mapTotal < BufLen =>
       /\ mode = "MMAP" \/ pc = "down" => AllOf(area, mapTotal, mapName)
       /\ mode = "MMAP" /\ m.total_len <= 1 /\ pc \notin {"down", "total"} =>
             \A i \in 1..mapTotal : Stray(area[i])

FilesHome == \A p \in Names : /\ Exists(p) => AllOf(files[p], Len(files[p]), p)
                              /\ AllOf(away[p], Len(away[p]), p)

HomeInv == BufferHome /\ MappedHome /\ FilesHome

DataInv == UnitInv /\ HomeInv

-------------------------------------------------------------------------------
(* Cells of complete units *)

IsHeader(c) == c[1] = "header"

\* Cell k is one of those the header at j announces.
InFrame(s, j, k) == IsHeader(s[j]) /\ j < k /\ k <= j + s[j][2]

\* The cells announced by the headers among the first n cells of s
FramesOf(s, n) == {s[k] : k \in {k \in 1..n : \E j \in 1..n : InFrame(s, j, k)}}

\* No header announces more than there is in the first n cells, or another header.
FitsIn(s, n) == \A j \in 1..n : IsHeader(s[j]) => j + s[j][2] <= n

Clean(s, n) == \A j \in 1..n, k \in 1..n : InFrame(s, j, k) => ~IsHeader(s[k])

Plain(s) == FitsIn(s, Len(s)) /\ Clean(s, Len(s))

\* The files consist of complete units.
FilesOK == \A p \in Names : Plain(Cells(p)) /\ Plain(away[p])

-------------------------------------------------------------------------------
(* The buffer *)

\* What the buffer holds up to the total length, and what the next process will read of
\* it, are complete units; a reset begins with an empty header.
AreaOK ==
    /\ Clean(area, Len(area))
    /\ FitsIn(area, m.total_len)
    /\ mode = "MMAP" \/ pc = "down" => FitsIn(area, mapTotal)
    /\ Clearing => area[1] = Hdr(0)

\* The unit being written ends at the total length, a tail included; its header announces
\* all of it as soon as update_length_clogan has run.
UnitOK ==
    /\ Len(m.remain) < B /\ \A c \in CellsIn(m.remain) : ~IsHeader(c)
    /\ m.is_open_ok => m.zlib # "NONE"
    /\ m.is_open_ok /\ ~Clearing =>
          /\ m.total_len = m.hp + m.content_len + (IF m.zlib = "END" THEN 1 ELSE 0)
          /\ IsHeader(area[m.hp]) /\ area[m.hp][2] <= m.content_len
          /\ pc \notin {"total", "len"} => area[m.hp][2] = m.content_len
          /\ \A i \in (m.hp + 1)..m.total_len : ~IsHeader(area[i])
    /\ ~m.is_open_ok \/ Clearing => m.hp = 1 /\ m.content_len = 0 /\ m.zlib \notin {"ING", "END"}

\* The stream ends in write_flush_clogan or at the end of a unit, the lengths change only
\* with a file open or in a reset, and only a recovery closes the file.
StageOK ==
    /\ m.zlib = "END" => \/ pc \in {"ended", "flush", "flushed", "dest", "put", "clear"}
                         \/ pc \in {"total", "len"} /\ after \in {"ended", "flushed"}
    /\ pc = "ended" \/ (pc \in {"total", "len"} /\ after = "ended") => m.zlib = "END"
    /\ pc \in {"total", "len"} => m.is_open_ok \/ Clearing
    /\ pc = "close" \/ FlushFor("close") => mode = "MMAP"

\* The length in the mapped buffer is that of the model, or not yet.
SyncOK ==
    mode = "MMAP" /\ pc \notin {"down", "total"} =>
       /\ mapTotal <= m.total_len \/ m.total_len <= 1
       /\ pc \in {"len", "unit", "ended"} => mapTotal = m.total_len

BufferOK == AreaOK /\ UnitOK /\ StageOK /\ SyncOK

FrameInv == BufferOK /\ FilesOK

-------------------------------------------------------------------------------
(* Room for a section *)

\* A section of a line, with what deflate and the cipher add to it, fits behind a third of
\* the buffer when it compresses to n bytes at most.
Fits(n) == /\ \A c \in CSizes : c <= n
           /\ BufLen \div 3 + GzHead + n + Trailer + 3 * B < BufLen

SectionFits == \E n \in Nat : Fits(n)

RoomInv(n) ==
    /\ mapTotal < BufLen
    /\ mode = "MMAP" =>
          /\ m.total_len < BufLen
          /\ pc = "compress" => m.total_len <= BufLen \div 3
          /\ pc \in {"total", "len"} /\ after = "unit" => m.total_len <= BufLen \div 3 + GzHead + n + B
          /\ pc = "unit" \/ (pc = "flush" /\ m.zlib = "ING") => m.total_len <= BufLen \div 3 + GzHead + n + B

-------------------------------------------------------------------------------
(* Where a line is *)

\* What is known of the lines is known of those that were begun.
LinesInv ==
    /\ taken \subseteq 1..last /\ \A w \in 1..last : home[w] \in Names
    /\ Writing => last \notin taken
    /\ \A w \in Lines : w > last => size[w] = 0

\* The lines that count: those clogan_write has returned for, and the one it is at.
Held == taken \cup {w \in Lines : Writing /\ w = last}

InItsFile(w) == \A k \in 1..size[w] : Data(w, k) \in InFile(home[w])

\* The cells of the unit being written
UnitFrame == {area[k] : k \in (m.hp + 1)..(m.hp + m.content_len)}

\* What the next flush, or the next process, writes to the file
Safe == IF pc = "down" THEN FramesOf(area, mapTotal)
                       ELSE FramesOf(area, m.total_len) \cup UnitFrame \cup CellsIn(m.remain)

Places == \A w \in Held \ Given : \A k \in 1..size[w] : Data(w, k) \in InFile(home[w]) \cup Safe

\* A line that a failed recovery kept, and that counts, is in its file.
StrayInv == \A w \in lost["stray"] \ Given : w \in taken /\ InItsFile(w)

\* Once the buffer is written, all lines are in their files.
PutInv == pc = "clear" => \A w \in Held \ Given : InItsFile(w)

PlacesInv == LinesInv /\ Places /\ StrayInv /\ PutInv

\* What a step needs to keep every line that counts in a place it will be read from
KeepInv == CoreInv /\ DataInv /\ FrameInv /\ PlacesInv

-------------------------------------------------------------------------------
(* What waits for a whole block *)

\* Cells of lines clogan_write has returned for that no header announces yet
Pending == {c \in UnitFrame \cup CellsIn(m.remain) :
              c[1] = "data" /\ c[2] \in taken /\ c \notin FramesOf(area, m.total_len)}

\* The mapped length covers all that headers announce.
Covers == mode = "MMAP" => FramesOf(area, m.total_len) \subseteq FramesOf(area, mapTotal)

\* While the process runs, fewer cells than a block wait, and the mapped length is right
\* about the rest.
RiskInv == pc # "down" => IsFiniteSet(Pending) /\ Cardinality(Pending) < B /\ Covers

-------------------------------------------------------------------------------
(* The call under way *)

\* Every line begun that counts is in its file.
AllIn == \A w \in Held \ Given : InItsFile(w)

\* The last cell of the line being written is not in its file yet.
Unwritten == size[last] >= 1 /\ Data(last, size[last]) \notin InFile(home[last])

\* Once a section of a line is compressed, its last cell waits for the write that empties
\* the buffer; and what was mapped ends with a process that wrote to memory.
LastInv == /\ Writing /\ pc # "compress" => AllIn \/ Unwritten
           /\ pc = "down" /\ mode # "MMAP" => mapTotal = 0

\* The file the buffer belongs to
Target == IF mode = "MMAP" THEN mapName ELSE m.path

-------------------------------------------------------------------------------
(* Torn units *)

\* Behind and Torn for the first n cells of s
BehindTo(s, n, j) == LET e == j + s[j][2] + 1 IN IF e <= n /\ s[e] = End THEN e + 1 ELSE e

Follows(s, n, j)  == \/ BehindTo(s, n, j) = n + 1
                     \/ BehindTo(s, n, j) <= n /\ IsHeader(s[BehindTo(s, n, j)])

TornTo(s, n) == {j \in 1..n : IsHeader(s[j]) /\ ~Follows(s, n, j)}

HeadFirst == Len(area) >= 1 => IsHeader(area[1])

LiveTorn == TornTo(area, m.total_len)

Live == Upto(area, m.total_len)

Tri(n) == (n * (n + 1)) \div 2

MappedTorn == TornTo(area, mapTotal)

Recovering == pc \in {"flush", "flushed", "dest", "put"} /\ ret = "close"

\* In the buffer at most the unit is torn that is being written, and that only until its
\* length is stored.
OpenTorn ==
    m.is_open_ok /\ ~Clearing => /\ LiveTorn \subseteq {m.hp}
                                 /\ m.zlib = "END" => area[m.total_len] = End

\* Without a file open the buffer is in use only in a recovery.
RecoveryInv == /\ Recovering => m.total_len = mapTotal
               /\ ~m.is_open_ok /\ m.total_len > 1 => Recovering \/ pc = "clear"

\* What a recovery will write adds no more than the crashes so far allow.
FilesTorn ==
    /\ left["crash"] <= Budget["crash"]
    /\ IsFiniteSet(TornUnits) /\ Cardinality(TornUnits) <= Tri(Crashes)
    /\ pc = "down" \/ Recovering =>
          /\ Cardinality(MappedTorn) <= Crashes
          /\ Cardinality(TornUnits) + Cardinality(MappedTorn) <= Tri(Crashes)

\* What a crash would leave in the mapped buffer
MappedBound ==
    mode = "MMAP" /\ pc # "down" => \/ Cardinality(MappedTorn \ {1}) <= Crashes
                                    \/ pc = "len" /\ MappedTorn \subseteq {m.hp}

TornInv == HeadFirst /\ OpenTorn /\ RecoveryInv /\ FilesTorn /\ MappedBound

-------------------------------------------------------------------------------
(* Copies *)

\* A cell of a line is one the line has.
Had(c) == c[1] = "data" => c[2] \in Lines /\ c[3] \in 1..size[c[2]]

Apart(s) == \A i, j \in 1..Len(s) : s[i] = s[j] /\ s[i][1] = "data" => i = j

NoneOf(s, t) == \A i \in 1..Len(s), j \in 1..Len(t) : s[i] = t[j] => s[i][1] # "data"

\* No cell of a line is twice in the buffer, or in the buffer and among those that wait.
CellsOnce ==
    /\ \A i \in 1..Len(area) : Had(area[i])
    /\ \A i \in 1..Len(m.remain) : Had(m.remain[i])
    /\ Apart(area) /\ Apart(m.remain) /\ NoneOf(area, m.remain)

\* What is to be written to a file, by this process or by the next
Ahead == IF pc = "down" THEN {area[i] : i \in 1..mapTotal}
         ELSE IF pc = "clear" \/ Clearing THEN {}
         ELSE {area[i] : i \in 1..m.total_len} \cup {m.remain[i] : i \in 1..Len(m.remain)}

CopiesBound == \A w \in Lines : \A k \in 1..size[w] :
    /\ IsFiniteSet(Copies(Data(w, k)))
    /\ Cardinality(Copies(Data(w, k))) + (IF Data(w, k) \in Ahead THEN 1 ELSE 0) <= 1 + Crashes

CopyInv == CellsOnce /\ CopiesBound
===============================================================================
