-------------------------------- MODULE CLogan --------------------------------
(***************************************************************************)
(* The native library (clogan_core.c, zlib_util.c): lines are compressed,  *)
(* encrypted in blocks of B bytes and put into a mapped buffer, from which *)
(* they are appended to the log file the buffer's header names.  The       *)
(* mapped buffer outlives the process, and clogan_init of the next process *)
(* writes what it holds to that file.                                      *)
(*                                                                         *)
(* One thread calls the library.  Crash is the end of the process between  *)
(* two steps, and Tear its end within one: a length is stored byte by byte *)
(* and a write to a file may be in pieces.  Only the next process reads    *)
(* what is left there, so these halves are states after a Tear and no      *)
(* others.  A cell stands for a byte, but the protocol header of a unit,   *)
(* with its content_len, is one cell; total_len counts cells.              *)
(***************************************************************************)
EXTENDS Naturals, Sequences, FiniteSets, FiniteSetsExt

CONSTANTS
    Names,         \* the log files
    None,          \* no file
    B,             \* the block of the cipher (16)
    GzHead,        \* bytes deflate emits before the first line of a stream
    Trailer,       \* bytes deflate emits at Z_FINISH
    CSizes,        \* what a section of a line may compress to
    MaxSections,   \* sections a line may have
    MaxUnit,       \* LOGAN_MAX_GZIP_UTIL
    BufLen,        \* LOGAN_MMAP_LENGTH, and LOGAN_MEMORY_LENGTH
    max_file_len,
    Byte,          \* what a byte of a length can tell apart (256)
    MaxWrites,     \* bound: lines written
    Budget         \* bound: how often each event of the environment happens

Lines == 1..MaxWrites
Events == {"crash", "tear", "noopen", "unmap", "away"}

ASSUME CLoganAssumption ==
    /\ None \notin Names
    /\ B \in Nat \ {0} /\ GzHead \in Nat /\ Trailer \in Nat
    /\ CSizes \subseteq Nat \ {0} /\ \A c \in CSizes : GzHead + c >= B
    /\ MaxSections \in Nat \ {0} /\ MaxUnit \in Nat \ {0}
    /\ BufLen \in Nat /\ max_file_len \in Nat /\ MaxWrites \in Nat
    /\ Budget \in [Events -> Nat]

\* The total is stored in three bytes (LOGAN_MMAP_TOTALLEN), content_len in four.
ASSUME ByteAssumption == Byte \in Nat /\ Byte >= 2 /\ BufLen <= Byte * Byte * Byte

VARIABLES
    files,     \* files[p]: the cells of log file p, or None
    away,      \* away[p]: the cells of what was moved away from p
    area,      \* the cells of the buffer
    mapName,   \* the file the mapped header names
    mapTotal,  \* the total length stored in the mapped buffer
    mapThere,  \* the mapped file exists
    mode,      \* buffer_type
    m,         \* logan_model and is_open_ok
    pc,        \* the next step
    after,     \* where update_length_clogan returns to
    ret,       \* where write_flush_clogan returns to
    arg,       \* the file being opened
    secs,      \* sections of the line that are still to be written
    last,      \* the number of the last line
    size,      \* history: the data cells of each line
    home,      \* history: the file that was open when a line was written
    taken,     \* history: lines whose clogan_write returned success
    lost,      \* history: lines given up, by cause
    left       \* bound: events of the environment that may still happen

disk   == <<files, away>>
mapped == <<mapName, mapTotal, mapThere, mode>>
ctl    == <<pc, after, ret, arg, secs>>
hist   == <<last, size, home, taken, lost>>
vars   == <<disk, area, mapped, m, ctl, hist, left>>

Hdr(n) == <<"header", n, 0>>   \* a unit's header, with its content_len
Data(w, k) == <<"data", w, k>>  \* the k-th byte line w compresses to
Pad     == <<"pad", 0, 0>>      \* deflate's own bytes and the padding of a block
End     == <<"tail", 0, 0>>
Cell == ({"header", "pad", "tail"} \X Nat \X {0}) \cup ({"data"} \X Lines \X Nat)

ASSUME NoneAssumption == None \notin Seq(Cell)

Pads(n) == [i \in 1..n |-> Pad]
Exists(p) == p # None /\ files[p] # None

\* zlib, remain, content_len: the unit being written; hp: where its header is
\* fp: the file the stream writes to
Fresh == [total_len |-> 0, content_len |-> 0, remain |-> <<>>, zlib |-> "NONE", hp |-> 1,
          stream |-> "NONE", fp |-> None, path |-> None, file_len |-> 0, is_open_ok |-> FALSE]

Causes == {"cut", "dropped", "unrecovered", "stray"}

TypeOK ==
    /\ files \in [Names -> Seq(Cell) \cup {None}] /\ away \in [Names -> Seq(Cell)]
    /\ area \in Seq(Cell)
    /\ mapName \in Names \cup {None} /\ mapTotal \in Nat /\ mapThere \in BOOLEAN
    /\ mode \in {"MMAP", "MEMORY"}
    /\ m \in [total_len : Nat, content_len : Nat, remain : Seq(Cell),
              zlib : {"NONE", "INIT", "ING", "END"}, hp : Nat \ {0},
              stream : {"NONE", "OPEN", "CLOSE"}, fp : Names \cup {None},
              path : Names \cup {None}, file_len : Nat, is_open_ok : BOOLEAN]
    /\ pc \in {"down", "idle", "compress", "total", "len", "unit", "ended", "section",
               "flush", "flushed", "dest", "put", "clear", "cleared", "open", "close"}
    /\ after \in {"unit", "ended", "flushed", "cleared"}
    /\ ret \in {"idle", "section", "open", "close"}
    /\ arg \in Names \cup {None} /\ secs \in 0..MaxSections
    /\ last \in 0..MaxWrites /\ size \in [Lines -> Nat]
    /\ home \in [Lines -> Names \cup {None}] /\ taken \subseteq Lines
    /\ lost \in [Causes -> SUBSET Lines]
    /\ left \in [Events -> Nat]

-------------------------------------------------------------------------------
(* The buffer *)

Upto(s, n) == SubSeq(s, 1, n)
PutAt(s, n, cells) == Upto(s, n) \o cells \o SubSeq(s, n + Len(cells) + 1, Len(s))

\* clogan_zlib: what deflate emits is encrypted in whole blocks; the rest waits.
Blocks(out) ==
    LET all == m.remain \o out
        n   == (Len(all) \div B) * B
    IN  /\ area' = PutAt(area, m.total_len, Upto(all, n))
        /\ m' = [m EXCEPT !.total_len = @ + n, !.content_len = @ + n, !.zlib = "ING",
                          !.remain = SubSeq(all, n + 1, Len(all))]

\* Mutant: the bytes that wait for a whole block are forgotten.
EndCompressNoRemain ==
    LET padded == Pads(Trailer) \o Pads(B - (Trailer % B))
    IN  /\ area' = PutAt(area, m.total_len, Append(padded, End))
        /\ m' = [m EXCEPT !.total_len = @ + Len(padded) + 1, !.content_len = @ + Len(padded),
                          !.zlib = "END", !.remain = <<>>]

\* clogan_zlib_end_compress: a padded block more, and the tail
EndCompress ==
    LET all    == m.remain \o Pads(Trailer)
        padded == all \o Pads(B - (Len(all) % B))
    IN  /\ area' = PutAt(area, m.total_len, Append(padded, End))
        /\ m' = [m EXCEPT !.total_len = @ + Len(padded) + 1, !.content_len = @ + Len(padded),
                          !.zlib = "END", !.remain = <<>>]

\* update_length_clogan stores two lengths into the buffer, in Total and Length.
UpdateLength(then) == /\ pc' = "total"
                      /\ after' = then

\* Mutant: the total does not count the last block.
TotalShort ==
    /\ pc = "total"
    /\ pc' = "len"
    /\ mapTotal' = IF mode = "MMAP" THEN (IF m.total_len > B THEN m.total_len - B ELSE 0) ELSE mapTotal
    /\ area' = Upto(area, Max({m.total_len, 1}))
    /\ UNCHANGED <<disk, mapName, mapThere, mode, m, after, ret, arg, secs, hist, left>>

\* What lies behind the total is not read any more.
Total ==
    /\ pc = "total"
    /\ pc' = "len"
    /\ mapTotal' = IF mode = "MMAP" THEN m.total_len ELSE mapTotal
    /\ area' = Upto(area, Max({m.total_len, 1}))
    /\ UNCHANGED <<disk, mapName, mapThere, mode, m, after, ret, arg, secs, hist, left>>

\* Mutant: the length of a unit goes to the first header of the buffer.
LengthOfFirst ==
    /\ pc = "len"
    /\ area' = [area EXCEPT ![1] = Hdr(m.content_len)]
    /\ pc' = after
    /\ UNCHANGED <<disk, mapped, m, after, ret, arg, secs, hist, left>>

Length ==
    /\ pc = "len"
    /\ area' = [area EXCEPT ![m.hp] = Hdr(m.content_len)]
    /\ pc' = after
    /\ UNCHANGED <<disk, mapped, m, after, ret, arg, secs, hist, left>>

-------------------------------------------------------------------------------
(* Log files *)

\* init_file_clogan; opening a file may fail.
Opened(mm, p) == [mm EXCEPT !.path = p, !.stream = "OPEN", !.fp = p,
                            !.file_len = IF Exists(p) THEN Len(files[p]) ELSE 0]
Created(p) == [files EXCEPT ![p] = IF @ = None THEN <<>> ELSE @]
Appended(p, cells) ==
    IF Exists(p) THEN /\ files' = [files EXCEPT ![p] = @ \o cells]
                      /\ UNCHANGED away
                 ELSE /\ away' = [away EXCEPT ![p] = @ \o cells]
                      /\ UNCHANGED files

\* write_flush_clogan
Flush ==
    /\ pc = "flush"
    /\ IF m.zlib = "ING" THEN /\ EndCompress
                              /\ UpdateLength("flushed")
                         ELSE /\ pc' = "flushed"
                              /\ UNCHANGED <<area, m, after>>
    /\ UNCHANGED <<disk, mapped, ret, arg, secs, hist, left>>

Flushed ==
    /\ pc = "flushed"
    /\ pc' = IF m.total_len > 1 THEN "dest" ELSE ret
    /\ UNCHANGED <<disk, area, mapped, m, after, ret, arg, secs, hist, left>>

\* Mutant: a file that was moved away is written to.
DestUnchecked ==
    /\ pc = "dest"
    /\ pc' = "put"
    /\ UNCHANGED <<disk, area, mapped, m, after, ret, arg, secs, hist, left>>

\* write_dest_clogan: a file that is gone is created, an empty one gets its header.
Dest ==
    /\ pc = "dest"
    /\ LET mm   == IF Exists(m.path) THEN m ELSE Opened(m, m.path)
           unit == <<Hdr(B)>> \o Pads(B) \o <<End>>
       IN  IF mm.file_len = 0
           THEN /\ files' = [Created(m.path) EXCEPT ![m.path] = @ \o unit]
                /\ m' = [mm EXCEPT !.file_len = Len(unit)]
           ELSE /\ UNCHANGED files
                /\ m' = mm
    /\ pc' = "put"
    /\ UNCHANGED <<away, area, mapped, after, ret, arg, secs, hist, left>>

PutOut ==
    /\ pc = "put"
    /\ Appended(m.fp, Upto(area, m.total_len))
    /\ m' = [m EXCEPT !.file_len = @ + m.total_len]
    /\ pc' = "clear"
    /\ UNCHANGED <<area, mapped, after, ret, arg, secs, hist, left>>

\* Mutant: what was written stays in the buffer.
ClearNothing ==
    /\ pc = "clear"
    /\ m' = [m EXCEPT !.zlib = IF @ = "END" THEN "INIT" ELSE @, !.remain = <<>>, !.content_len = 0,
                      !.hp = m.total_len + 1, !.total_len = @ + 1]
    /\ area' = PutAt(area, m.total_len, <<Hdr(0)>>)
    /\ pc' = ret
    /\ UNCHANGED <<disk, mapped, after, ret, arg, secs, hist, left>>

\* clear_clogan: the new header is in the buffer before the lengths are.
Clear ==
    /\ pc = "clear"
    /\ m' = [m EXCEPT !.total_len = 0, !.zlib = IF @ = "END" THEN "INIT" ELSE @,
                      !.remain = <<>>, !.content_len = 0, !.hp = 1]
    /\ area' = PutAt(area, 0, <<Hdr(0)>>)
    /\ UpdateLength("cleared")
    /\ UNCHANGED <<disk, mapped, ret, arg, secs, hist, left>>

Cleared ==
    /\ pc = "cleared"
    /\ m' = [m EXCEPT !.total_len = 1]
    /\ pc' = ret
    /\ UNCHANGED <<disk, area, mapped, after, ret, arg, secs, hist, left>>

-------------------------------------------------------------------------------
(* History: what can be read, and what was given up *)

\* What a reader finds who follows the headers, and looks for the next one
\* wherever there is none
Framed(s) ==
    LET n == Len(s)
        f[i \in Nat \ {0}] ==
            IF i > n THEN {}
            ELSE IF s[i][1] = "header"
                 THEN {s[k] : k \in (i + 1)..Min({i + s[i][2], n})} \cup f[i + 1 + s[i][2]]
                 ELSE f[i + 1]
    IN  f[1]
CellsIn(s) == {s[i] : i \in DOMAIN s}
Cells(p) == IF Exists(p) THEN files[p] ELSE <<>>
InFile(p) == Framed(Cells(p)) \cup Framed(away[p])
Given == UNION {lost[c] : c \in Causes \ {"stray"}}

\* The lines that can be read from the file that was open when they were written
Whole(cells) == {w \in taken : \A k \in 1..size[w] : Data(w, k) \in cells}
Stored(p) == {w \in Whole(InFile(p)) \ Given : home[w] = p}
LinesIn(cells) == {w \in Lines : \E i \in DOMAIN cells : cells[i][1] = "data" /\ cells[i][2] = w}
Lose(cause, W) == lost' = [lost EXCEPT ![cause] = @ \cup (W \ UNION {Stored(p) : p \in Names})]
Mapped == Framed(Upto(area, IF mode = "MMAP" THEN mapTotal ELSE 0))

\* Bytes of written lines that are neither in a file nor within the mapped lengths
AtRisk == (UNION {{Data(w, k) : k \in 1..size[w]} : w \in taken \ Given})
              \ (Mapped \cup UNION {InFile(p) : p \in Names})

-------------------------------------------------------------------------------
(* Calls *)

Fails == left["noopen"] > 0 /\ left' = [left EXCEPT !["noopen"] = @ - 1]

\* clogan_init and read_mmap_data_clogan: the mapped buffer is written to its file,
\* unless that cannot be opened.
clogan_init ==
    /\ pc = "down"
    /\ mapThere' = TRUE /\ mode' = "MMAP"
    /\ IF mapName # None /\ mapTotal > 1 /\ mapTotal < BufLen
       THEN \/ /\ files' = Created(mapName)
               /\ m' = [Opened(Fresh, mapName) EXCEPT !.total_len = mapTotal]
               /\ pc' = "flush" /\ ret' = "close"
               /\ UNCHANGED <<lost, left>>
            \/ /\ Fails
               /\ LET W == LinesIn(Upto(area, mapTotal))
                  IN  lost' = [lost EXCEPT !["stray"] = @ \cup W,
                                           !["unrecovered"] = @ \cup (W \ UNION {Stored(p) : p \in Names})]
               /\ m' = Fresh /\ pc' = "idle"
               /\ UNCHANGED <<files, ret>>
       ELSE /\ m' = Fresh /\ pc' = "idle"
            /\ UNCHANGED <<files, ret, lost, left>>
    /\ UNCHANGED <<away, area, mapName, mapTotal, after, arg, secs, last, size, home, taken>>

Recovered ==
    /\ pc = "close"
    /\ m' = [m EXCEPT !.stream = "CLOSE", !.total_len = 0, !.path = None]
    /\ pc' = "idle"
    /\ UNCHANGED <<disk, area, mapped, after, ret, arg, secs, hist, left>>

\* Mutant: what the buffer holds for the last file is not written.
clogan_open_unflushed(p) ==
    /\ pc = "idle"
    /\ arg' = p
    /\ pc' = "open"
    /\ UNCHANGED <<disk, area, mapped, m, after, ret, secs, hist, left>>

clogan_open(p) ==
    /\ pc = "idle"
    /\ arg' = p
    /\ IF m.total_len > 1 THEN pc' = "flush" /\ ret' = "open"
                          ELSE pc' = "open" /\ UNCHANGED ret
    /\ UNCHANGED <<disk, area, mapped, m, after, secs, hist, left>>

\* Mutant: the stream of the last file is not closed, so init_file_clogan keeps it.
OpenFileUnclosed ==
    /\ pc = "open"
    /\ pc' = "idle"
    /\ files' = Created(arg)
    /\ m' = [(IF m.stream = "OPEN" THEN [m EXCEPT !.path = arg] ELSE Opened(m, arg)) EXCEPT
                !.zlib = "INIT", !.total_len = 1, !.hp = 1, !.is_open_ok = TRUE]
    /\ mapName' = IF mode = "MMAP" THEN arg ELSE mapName
    /\ area' = PutAt(area, 0, <<Hdr(0)>>)
    /\ UNCHANGED <<away, mapTotal, mapThere, mode, after, ret, arg, secs, hist, left>>

OpenFile ==
    /\ pc = "open"
    /\ pc' = "idle"
    /\ \/ /\ files' = Created(arg)
          /\ m' = [Opened(m, arg) EXCEPT !.zlib = "INIT", !.total_len = 1, !.hp = 1,
                                         !.is_open_ok = TRUE]
          /\ mapName' = IF mode = "MMAP" THEN arg ELSE mapName
          /\ area' = PutAt(area, 0, <<Hdr(0)>>)
          /\ UNCHANGED left
       \/ /\ Fails
          /\ m' = [m EXCEPT !.path = arg, !.stream = "NONE", !.total_len = 0, !.is_open_ok = FALSE]
          /\ UNCHANGED <<files, mapName, area>>
    /\ UNCHANGED <<away, mapTotal, mapThere, mode, after, ret, arg, secs, hist>>

clogan_flush ==
    /\ pc = "idle" /\ m.total_len > 1
    /\ pc' = "flush" /\ ret' = "idle"
    /\ UNCHANGED <<disk, area, mapped, m, after, arg, secs, hist, left>>

\* clogan_write up to clogan_write_section: a file that is gone is created; a
\* mapped file that is gone is replaced by memory, with what it held dropped.
clogan_write ==
    /\ pc = "idle" /\ last < MaxWrites /\ m.is_open_ok
    /\ Exists(m.path) => m.file_len <= max_file_len
    /\ files' = Created(m.path)
    /\ LET mm == IF Exists(m.path) THEN m ELSE Opened(m, m.path)
       IN  IF mode = "MMAP" /\ ~mapThere
           THEN /\ mode' = "MEMORY"
                /\ area' = <<Hdr(0)>>
                /\ m' = [mm EXCEPT !.total_len = 1, !.content_len = 0, !.remain = <<>>,
                                   !.hp = 1, !.zlib = "INIT"]
                /\ Lose("dropped", LinesIn(Upto(area, m.total_len) \o m.remain))
           ELSE /\ m' = mm
                /\ UNCHANGED <<mode, area, lost>>
    /\ last' = last + 1
    /\ home' = [home EXCEPT ![last'] = m.path]
    /\ secs' \in 1..MaxSections
    /\ pc' = "compress"
    /\ UNCHANGED <<away, mapName, mapTotal, mapThere, after, ret, arg, size, taken, left>>

\* clogan_write2, for one section of the line
Compress ==
    /\ pc = "compress"
    /\ IF m.zlib \in {"INIT", "ING"}
       THEN \E c \in CSizes :
               /\ Blocks(Pads(IF m.zlib = "INIT" THEN GzHead ELSE 0)
                            \o [i \in 1..c |-> Data(last, size[last] + i)])
               /\ size' = [size EXCEPT ![last] = @ + c]
       ELSE /\ m' = [m EXCEPT !.zlib = "INIT"]
            /\ size' = [size EXCEPT ![last] = @ + 1]
            /\ UNCHANGED area
    /\ UpdateLength("unit")
    /\ UNCHANGED <<disk, mapped, ret, arg, secs, last, home, taken, lost, left>>

WriteOut == pc' = "flush" /\ ret' = "section"
Third == mode = "MMAP" /\ m.total_len >= BufLen \div 3

\* Mutant: the buffer is written only when a unit has ended.
UnitWithinThird ==
    /\ pc = "unit"
    /\ IF m.file_len = 0 \/ m.content_len >= MaxUnit
       THEN EndCompress /\ UpdateLength("ended") /\ UNCHANGED ret
       ELSE pc' = "section" /\ UNCHANGED <<area, m, after, ret>>
    /\ UNCHANGED <<disk, mapped, arg, secs, hist, left>>

Unit ==
    /\ pc = "unit"
    /\ IF m.file_len = 0 \/ m.content_len >= MaxUnit
       THEN EndCompress /\ UpdateLength("ended") /\ UNCHANGED ret
       ELSE /\ IF Third THEN WriteOut ELSE pc' = "section" /\ UNCHANGED ret
            /\ UNCHANGED <<area, m, after>>
    /\ UNCHANGED <<disk, mapped, arg, secs, hist, left>>

\* A unit has ended: it is written, or the next one starts behind it.
Ended ==
    /\ pc = "ended"
    /\ IF m.file_len = 0 \/ mode = "MEMORY" \/ Third
       THEN WriteOut /\ UNCHANGED <<area, m>>
       ELSE /\ area' = PutAt(area, m.total_len, <<Hdr(0)>>)
            /\ m' = [m EXCEPT !.content_len = 0, !.remain = <<>>, !.zlib = "INIT",
                              !.hp = m.total_len + 1, !.total_len = @ + 1]
            /\ pc' = "section" /\ UNCHANGED ret
    /\ UNCHANGED <<disk, mapped, after, arg, secs, hist, left>>

\* Mutant: the loop over the sections goes on once more.
SectionBeyond ==
    /\ pc = "section"
    /\ secs' = secs - 1
    /\ IF secs > 0 THEN pc' = "compress" /\ UNCHANGED taken
                   ELSE pc' = "idle" /\ taken' = taken \cup {last}
    /\ UNCHANGED <<disk, area, mapped, m, after, ret, arg, last, size, home, lost, left>>

Section ==
    /\ pc = "section"
    /\ secs' = secs - 1
    /\ IF secs > 1 THEN pc' = "compress" /\ UNCHANGED taken
                   ELSE pc' = "idle" /\ taken' = taken \cup {last}
    /\ UNCHANGED <<disk, area, mapped, m, after, ret, arg, last, size, home, lost, left>>

-------------------------------------------------------------------------------
(* The environment *)

Spend(e) == left[e] > 0 /\ left' = [left EXCEPT ![e] = @ - 1]

\* The process ends; the mapped buffer outlives it.
Crash ==
    /\ pc # "down" /\ Spend("crash")
    /\ pc' = "down" /\ secs' = 0 /\ m' = Fresh
    /\ IF mode = "MMAP" /\ mapThere
       THEN /\ area' = Upto(area, mapTotal)
            /\ Lose("cut", {c[2] : c \in AtRisk})
            /\ UNCHANGED mapTotal
       ELSE /\ area' = <<>> /\ mapTotal' = 0
            /\ Lose("dropped", LinesIn(Upto(area, m.total_len) \o m.remain))
    /\ UNCHANGED <<disk, mapName, mapThere, mode, after, ret, arg, last, size, home, taken>>

\* What a crash between two byte stores of a length leaves: the high bytes of one
\* length and the low bytes of the other.  The total is stored from its low byte on,
\* content_len from its high byte on.
Mixed(high, low) ==
    {((high \div q) * q) + (low % q) : q \in {Byte, Byte * Byte, Byte * Byte * Byte}} \ {high, low}

\* A total beyond both lengths is possible where an unsuccessful recovery left the old
\* one; it uncovers what earlier fills of the buffer left, of whatever line.
TearTotal ==
    /\ pc = "total" /\ mapTotal < BufLen
    /\ mapTotal' \in Mixed(mapTotal, m.total_len)
    /\ LET known == IF mapTotal > m.total_len THEN mapTotal ELSE m.total_len
       IN  /\ area' = Upto(Upto(area, known) \o Pads(mapTotal'), mapTotal')
           /\ lost' = [lost EXCEPT !["stray"] = @ \cup (IF mapTotal' > known THEN 1..last ELSE {})]
    /\ UNCHANGED <<files, mapName>>

Rewritten(i, n) == area' = [Upto(area, mapTotal) EXCEPT ![i] = Hdr(n)]

\* The length of the unit, or of the first one when clear_clogan puts its header anew
TearLength ==
    /\ pc \in {"len", "clear"}
    /\ LET i == IF pc = "len" THEN m.hp ELSE 1
           n == IF pc = "len" THEN m.content_len ELSE 0
       IN  i <= mapTotal /\ \E k \in Mixed(n, area[i][2]) : Rewritten(i, k)
    /\ UNCHANGED <<files, mapName, mapTotal, lost>>

\* After an unsuccessful recovery the old total covers what clogan_open and the first
\* section store: the name, of which a half may be any name, the header, and the blocks.
TearOpen ==
    /\ pc = "open" /\ mapTotal > 1
    /\ files' = Created(arg) /\ mapName' \in Names
    /\ \E k \in Mixed(0, area[1][2]) \cup {0, area[1][2]} : Rewritten(1, k)
    /\ UNCHANGED <<mapTotal, lost>>

TearBlocks ==
    /\ pc = "compress" /\ mapTotal > m.total_len
    /\ \E k \in 1..(mapTotal - m.total_len) :
          area' = Upto(PutAt(area, m.total_len, Pads(k)), mapTotal)
    /\ UNCHANGED <<files, mapName, mapTotal, lost>>

\* A part of the buffer is in the file.
TearWrite ==
    /\ pc = "put"
    /\ \E k \in 1..(m.total_len - 1) : Appended(m.fp, Upto(area, k))
    /\ IF mode = "MMAP" /\ mapThere THEN area' = Upto(area, mapTotal) /\ UNCHANGED mapTotal
                                   ELSE area' = <<>> /\ mapTotal' = 0
    /\ UNCHANGED <<mapName, lost>>

Tear ==
    /\ Spend("tear")
    /\ \/ TearWrite
       \/ /\ mode = "MMAP" /\ mapThere /\ UNCHANGED away
          /\ TearTotal \/ TearLength \/ TearOpen \/ TearBlocks
    /\ pc' = "down" /\ secs' = 0 /\ m' = Fresh
    /\ UNCHANGED <<mapThere, mode, after, ret, arg, last, size, home, taken>>

Unmap ==
    /\ mapThere /\ pc = "idle" /\ Spend("unmap")
    /\ mapThere' = FALSE
    /\ UNCHANGED <<disk, area, mapName, mapTotal, mode, m, ctl, hist>>

\* LoganThread moves a file of the day to its directory.
MoveAway(p) ==
    /\ pc = "idle" /\ Exists(p) /\ Spend("away")
    /\ away' = [away EXCEPT ![p] = @ \o files[p]]
    /\ files' = [files EXCEPT ![p] = None]
    /\ UNCHANGED <<area, mapped, m, ctl, hist>>

Init ==
    /\ files = [p \in Names |-> None] /\ away = [p \in Names |-> <<>>]
    /\ area = <<>> /\ mapName = None /\ mapTotal = 0 /\ mapThere = FALSE /\ mode = "MMAP"
    /\ m = Fresh
    /\ pc = "down" /\ after = "unit" /\ ret = "idle" /\ arg = None /\ secs = 0
    /\ last = 0 /\ size = [w \in Lines |-> 0] /\ home = [w \in Lines |-> None]
    /\ taken = {} /\ lost = [c \in Causes |-> {}]
    /\ left = Budget

Call == clogan_init \/ (\E p \in Names : clogan_open(p)) \/ clogan_flush \/ clogan_write
Steps ==
    \/ Call \/ Recovered \/ OpenFile
    \/ Compress \/ Total \/ Length \/ Unit \/ Ended \/ Section
    \/ Flush \/ Flushed \/ Dest \/ PutOut \/ Clear \/ Cleared
    \/ Crash \/ Unmap \/ (\E p \in Names : MoveAway(p))
Next == Steps \/ Tear

Spec == Init /\ [][Next]_vars

-------------------------------------------------------------------------------
(* Properties *)

\* No crash has fallen within a step so far.  One that does may leave a length that is
\* neither the old nor the new one: a total far below what is in use, or a header that
\* announces more than there is and, in the file, swallows what is appended later.
Untorn == left["tear"] = Budget["tear"]

InBuffer == IF pc = "down" THEN Framed(Upto(area, mapTotal))
                           ELSE CellsIn(Upto(area, m.total_len) \o m.remain)
Buffered == UNION {{w \in Whole(InFile(p) \cup InBuffer) \ Given : home[w] = p} \ Stored(p) : p \in Names}

\* A line whose clogan_write has returned can be read from its file, or from the
\* buffer this process or the next will write, unless it was given up; as long as
\* no crash falls within a step.
Durable == Untorn => taken \ Given \subseteq Buffered \cup UNION {Stored(p) : p \in Names}

\* With a mapped buffer, a crash costs less than a block of the lines written.  That is so
\* between any two steps, but not once a crash fell within one (CLoganTorn.cfg).
CrashCostsLessThanABlock == mode = "MMAP" /\ mapThere => Cardinality(AtRisk) < B
LessThanABlockAtRisk == Untorn => CrashCostsLessThanABlock

\* A line is in no file but the one that was open when it was written, unless a
\* recovery could not open that.
RightFile == \A p \in Names : \A w \in LinesIn(Cells(p) \o away[p]) :
                home[w] = p \/ w \in lost["stray"]

\* All that was ever written under a name, and the places where a cell is found there
Written(p) == away[p] \o Cells(p)
Copies(c) == UNION {{p} \X {i \in DOMAIN Written(p) : Written(p)[i] = c} : p \in Names}

\* The units, by the place of their header, after which a reader must look for the next
\* one: neither a header follows the cells announced, and the tail, nor the end.
Behind(s, j) == LET e == j + s[j][2] + 1
                IN  IF e <= Len(s) /\ s[e] = End THEN e + 1 ELSE e
Torn(s) == {j \in DOMAIN s : /\ s[j][1] = "header"
                             /\ Behind(s, j) # Len(s) + 1
                             /\ Behind(s, j) <= Len(s) => s[Behind(s, j)][1] # "header"}
TornUnits == UNION {{p} \X Torn(Written(p)) : p \in Names}

\* What crashes between steps cost the files.  A line is there once, and once more for every crash
\* that hits between the write and the reset of the buffer.  The headers say where the
\* next unit begins: a crash between a header and its length, or between the reset of
\* the header and that of the total, makes one exception; a recovery that is cut short
\* makes its exceptions again in the next one.  A crash within a step is not counted, and
\* ends the promise.
Crashes == Budget["crash"] - left["crash"]
CostOfCrashes ==
    Untorn => /\ \A w \in Lines : \A k \in 1..size[w] : Cardinality(Copies(Data(w, k))) <= 1 + Crashes
              /\ Cardinality(TornUnits) <= (Crashes * (Crashes + 1)) \div 2

\* When a section of a line is put into the mapped buffer, no more than a third of
\* it is in use; a section is less than a seventh of it.
RoomForSection == pc \in {"idle", "section"} /\ mode = "MMAP" => m.total_len <= BufLen \div 3

\* What LoganThread has moved away is not written to any more.
AwayIsFinal == [][\A p \in Names : away'[p] = away[p] \/ (Exists(p) /\ files'[p] = None)]_vars

\* To LoganThread the library is a store with a buffer: lines go to the file that
\* is open and all together, and another file is opened with an empty buffer.  It
\* breaks with a crash within a step, and with nothing else.
Store == INSTANCE LoganStore WITH
    broken <- ~Untorn, stored <- [p \in Names |-> Stored(p)], buffered <- Buffered,
    target <- IF mode = "MMAP" THEN mapName ELSE m.path
ImplementsStore == Store!Spec
===============================================================================
