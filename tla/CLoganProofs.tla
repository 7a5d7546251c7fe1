----------------------------- MODULE CLoganProofs -----------------------------
(***************************************************************************)
(* What CLogan guarantees for any names, block and buffer sizes, lines and *)
(* crashes.                                                                *)
(***************************************************************************)
EXTENDS CLoganInv, TLAPS, SequenceTheorems, FiniteSetTheorems, WellFoundedInduction

-------------------------------------------------------------------------------
(* The helpers of CLogan *)

ModelType == [total_len : Nat, content_len : Nat, remain : Seq(Cell),
              zlib : {"NONE", "INIT", "ING", "END"}, hp : Nat \ {0},
              stream : {"NONE", "OPEN", "CLOSE"}, fp : Names \cup {None},
              path : Names \cup {None}, file_len : Nat, is_open_ok : BOOLEAN]

LEMMA UptoIs ==
  ASSUME NEW S, NEW s \in Seq(S), NEW n \in Nat, n <= Len(s)
  PROVE  /\ Upto(s, n) \in Seq(S) /\ Len(Upto(s, n)) = n
         /\ \A i \in 1..n : Upto(s, n)[i] = s[i]
<1>1. \A i \in 1..n : s[i] \in S
  BY ElementOfSeq, LenProperties
<1>2. /\ SubSeq(s, 1, n) \in Seq(S)
      /\ Len(SubSeq(s, 1, n)) = IF 1 <= n THEN n - 1 + 1 ELSE 0
      /\ \A i \in 1..(n - 1 + 1) : SubSeq(s, 1, n)[i] = s[1 + i - 1]
  BY <1>1, SubSeqProperties
<1> HIDE DEF Upto
<1>3. Upto(s, n) = SubSeq(s, 1, n)
  BY DEF Upto
<1> QED
  BY <1>2, <1>3

LEMMA RestIs ==
  ASSUME NEW S, NEW s \in Seq(S), NEW n \in Nat
  PROVE  /\ SubSeq(s, n + 1, Len(s)) \in Seq(S)
         /\ n <= Len(s) => Len(SubSeq(s, n + 1, Len(s))) = Len(s) - n
         /\ \A i \in 1..Len(SubSeq(s, n + 1, Len(s))) :
               SubSeq(s, n + 1, Len(s))[i] = s[n + i] /\ n + i \in 1..Len(s)
<1>1. Len(s) \in Nat /\ \A i \in 1..Len(s) : s[i] \in S
  BY ElementOfSeq, LenProperties
<1> DEFINE l == Len(s)
           r == SubSeq(s, n + 1, l)
<1>2. l \in Nat /\ \A i \in (n + 1)..l : s[i] \in S
  BY <1>1
<1> HIDE DEF l
<1>3. /\ r \in Seq(S)
      /\ Len(r) = IF n + 1 <= l THEN l - (n + 1) + 1 ELSE 0
      /\ \A i \in 1..(l - (n + 1) + 1) : r[i] = s[n + 1 + i - 1]
  BY <1>2, SubSeqProperties
<1> HIDE DEF r
<1>4. \A i \in 1..Len(r) : r[i] = s[n + i] /\ n + i \in 1..l
  BY <1>2, <1>3
<1>5. n <= l => Len(r) = l - n
  BY <1>2, <1>3
<1> QED
  BY <1>3, <1>4, <1>5 DEF l, r

\* PutAt writes over the buffer, and beyond its end: elsewhere nothing changes.
LEMMA PutAtIs ==
  ASSUME NEW S, NEW s \in Seq(S), NEW n \in Nat, n <= Len(s), NEW cells \in Seq(S)
  PROVE  /\ PutAt(s, n, cells) \in Seq(S)
         /\ Len(PutAt(s, n, cells)) >= Len(s)
         /\ Len(PutAt(s, n, cells)) >= n + Len(cells)
         /\ \A i \in 1..n : PutAt(s, n, cells)[i] = s[i]
         /\ \A i \in 1..Len(PutAt(s, n, cells)) :
               \/ i - n \in 1..Len(cells) /\ PutAt(s, n, cells)[i] = cells[i - n]
               \/ /\ i \in 1..Len(s) /\ (i <= n \/ i > n + Len(cells))
                  /\ PutAt(s, n, cells)[i] = s[i]
<1> DEFINE a == Upto(s, n)
           k == Len(cells)
           r == SubSeq(s, n + k + 1, Len(s))
<1>1. k \in Nat /\ Len(s) \in Nat /\ n + k \in Nat
  BY LenProperties
<1>2. a \in Seq(S) /\ Len(a) = n /\ \A i \in 1..n : a[i] = s[i]
  BY UptoIs
<1> HIDE DEF k
<1>3. /\ r \in Seq(S) /\ Len(r) \in Nat
      /\ \A i \in 1..Len(r) : r[i] = s[n + k + i] /\ n + k + i \in 1..Len(s)
  BY <1>1, RestIs, LenProperties
<1>4. Len(r) = IF n + k + 1 <= Len(s) THEN Len(s) - (n + k + 1) + 1 ELSE 0
  BY <1>1, ElementOfSeq, SubSeqProperties
<1> DEFINE u == a \o cells
           v == u \o r
<1>5. PutAt(s, n, cells) = v
  BY DEF PutAt, k
<1> HIDE DEF a, r
<1>6. /\ u \in Seq(S) /\ Len(u) = n + k
      /\ \A i \in 1..(n + k) : u[i] = IF i <= n THEN a[i] ELSE cells[i - n]
  BY <1>2, ConcatProperties DEF k
<1> HIDE DEF u
<1>7. /\ v \in Seq(S) /\ Len(v) = n + k + Len(r)
      /\ \A i \in 1..(n + k + Len(r)) : v[i] = IF i <= n + k THEN u[i] ELSE r[i - (n + k)]
  <2>1. n + k \in Nat
    BY <1>1, <1>2
  <2>2. /\ u \o r \in Seq(S) /\ Len(u \o r) = Len(u) + Len(r)
        /\ \A i \in 1..Len(u) + Len(r) : (u \o r)[i] = IF i <= Len(u) THEN u[i] ELSE r[i - Len(u)]
    BY <1>3, <1>6, ConcatProperties
  <2> QED
    BY <1>6, <2>1, <2>2
<1> HIDE DEF v
<1>8. ASSUME NEW i \in 1..n PROVE v[i] = s[i]
  <2>1. i \in 1..(n + k) /\ i \in 1..(n + k + Len(r)) /\ i <= n + k /\ i <= n
    BY <1>1, <1>3
  <2>2. v[i] = u[i] /\ u[i] = a[i] /\ a[i] = s[i]
    BY <1>2, <1>6, <1>7, <2>1
  <2> QED
    BY <2>2
<1>9. ASSUME NEW i \in 1..Len(v)
      PROVE  \/ i - n \in 1..k /\ v[i] = cells[i - n]
             \/ i \in 1..Len(s) /\ (i <= n \/ i > n + k) /\ v[i] = s[i]
  <2>1. CASE i <= n
    BY <1>8, <2>1, <1>1
  <2>2. CASE i > n /\ i <= n + k
    BY <1>1, <1>3, <1>6, <1>7, <2>2
  <2>3. CASE i > n + k
    <3>1. i - (n + k) \in 1..Len(r)
      BY <1>1, <1>3, <1>7, <2>3
    <3>2. v[i] = r[i - (n + k)]
      BY <1>1, <1>3, <1>7, <2>3
    <3>3. r[i - (n + k)] = s[n + k + (i - (n + k))] /\ n + k + (i - (n + k)) \in 1..Len(s)
      BY <1>3, <3>1
    <3>4. n + k + (i - (n + k)) = i
      BY <1>1
    <3> QED
      BY <2>3, <3>2, <3>3, <3>4
  <2> QED
    BY <1>1, <2>1, <2>2, <2>3
<1> DEFINE l == Len(s)
<1>10. v \in Seq(S) /\ Len(v) >= l /\ Len(v) >= n + k
  <2>1. Len(r) \in Nat /\ l \in Nat /\ Len(r) = IF n + k + 1 <= l THEN l - (n + k + 1) + 1 ELSE 0
    BY <1>1, <1>3, <1>4
  <2>2. v \in Seq(S) /\ Len(v) = n + k + Len(r)
    BY <1>7
  <2> HIDE DEF l
  <2> QED
    BY <1>1, <2>1, <2>2
<1>11. /\ v \in Seq(S) /\ Len(v) >= Len(s) /\ Len(v) >= n + Len(cells)
       /\ \A i \in 1..n : v[i] = s[i]
       /\ \A i \in 1..Len(v) :
             \/ i - n \in 1..Len(cells) /\ v[i] = cells[i - n]
             \/ i \in 1..Len(s) /\ (i <= n \/ i > n + Len(cells)) /\ v[i] = s[i]
  BY <1>8, <1>9, <1>10 DEF k
<1> HIDE DEF PutAt
<1> QED
  BY <1>5, <1>11

LEMMA CellsAre ==
  /\ \A n \in Nat : Hdr(n) \in Cell /\ Hdr(n)[1] = "header"
  /\ \A w \in Lines, k \in Nat : /\ Data(w, k) \in Cell /\ Data(w, k)[1] = "data"
                                 /\ Data(w, k)[2] = w
  /\ Pad \in Cell /\ Pad[1] = "pad"
  /\ End \in Cell /\ End[1] = "tail"
BY DEF Hdr, Data, Pad, End, Cell

LEMMA PadsAre ==
  ASSUME NEW n \in Nat
  PROVE  Pads(n) \in Seq(Cell) /\ Len(Pads(n)) = n /\ \A i \in 1..n : Pads(n)[i] = Pad
BY CellsAre DEF Pads

LEMMA WholeBlocks ==
  ASSUME NEW k \in Nat
  PROVE  /\ (k \div B) * B \in Nat /\ (k \div B) * B <= k
         /\ k >= B => (k \div B) * B >= B
         /\ k - (k \div B) * B < B
         /\ k % B \in Nat /\ k % B < B
<1>1. B \in Nat /\ B > 0
  BY CLoganAssumption
<1> DEFINE q == k \div B
           r == k % B
<1>2. q \in Nat /\ r \in 0..(B - 1) /\ k = B * q + r
  BY <1>1
<1> HIDE DEF q, r
<1>3. q * B = B * q /\ B * q \in Nat
  BY <1>1, <1>2
<1>4. ASSUME k >= B PROVE B * q >= B
  <2>1. q # 0
    BY <1>1, <1>2, <1>4
  <2>2. PICK d \in Nat : q = d + 1
    BY <1>2, <2>1
  <2>3. B * (d + 1) = B * d + B /\ B * d \in Nat
    BY <1>1
  <2> QED
    BY <1>1, <2>2, <2>3
<1>5. /\ q * B \in Nat /\ q * B <= k /\ (k >= B => q * B >= B) /\ r \in Nat /\ r < B
      /\ k - q * B < B
  BY <1>1, <1>2, <1>3, <1>4
<1> QED
  BY <1>5 DEF q, r

\* Cells of S, and no others, have been put behind what is in use of the buffer or
\* wait to be put there.
Grown(S) ==
    /\ area' \in Seq(Cell) /\ Len(area') >= Len(area) /\ Len(area') >= m'.total_len
    /\ m' \in ModelType /\ m'.total_len >= m.total_len
    /\ m'.path = m.path /\ m'.fp = m.fp /\ m'.is_open_ok = m.is_open_ok
    /\ \A i \in 1..Len(area') :
          \/ i > m.total_len /\ area'[i] \in S
          \/ /\ i \in 1..Len(area) /\ (i <= m.total_len \/ i > m'.total_len)
             /\ area'[i] = area[i]
    /\ \A i \in 1..Len(m'.remain) : m'.remain[i] \in S

LEMMA PutGrows ==
  ASSUME area \in Seq(Cell), m \in ModelType, m.total_len <= Len(area),
         NEW S, NEW cells \in Seq(Cell), \A i \in 1..Len(cells) : cells[i] \in S,
         area' = PutAt(area, m.total_len, cells),
         m' \in ModelType, m'.total_len = m.total_len + Len(cells),
         m'.path = m.path, m'.fp = m.fp, m'.is_open_ok = m.is_open_ok,
         \A i \in 1..Len(m'.remain) : m'.remain[i] \in S
  PROVE  Grown(S)
<1> DEFINE n == m.total_len
           a == area'
<1>1. n \in Nat /\ Len(cells) \in Nat /\ n <= Len(area)
  BY LenProperties DEF ModelType
<1>2. /\ a \in Seq(Cell) /\ Len(a) >= Len(area) /\ Len(a) >= n + Len(cells)
      /\ \A i \in 1..Len(a) :
            \/ i - n \in 1..Len(cells) /\ a[i] = cells[i - n]
            \/ /\ i \in 1..Len(area) /\ (i <= n \/ i > n + Len(cells))
               /\ a[i] = area[i]
  <2> HIDE DEF n
  <2> QED
    <3> DEFINE q == PutAt(area, n, cells)
    <3>1. /\ q \in Seq(Cell) /\ Len(q) >= Len(area) /\ Len(q) >= n + Len(cells)
          /\ \A i \in 1..Len(q) :
                \/ i - n \in 1..Len(cells) /\ q[i] = cells[i - n]
                \/ /\ i \in 1..Len(area) /\ (i <= n \/ i > n + Len(cells))
                   /\ q[i] = area[i]
      BY <1>1, PutAtIs
    <3>2. area' = q
      BY DEF n
    <3> HIDE DEF q
    <3> QED
      BY <3>1, <3>2
<1> HIDE DEF n, a
<1>3. ASSUME NEW i \in 1..Len(a)
      PROVE  \/ i > n /\ a[i] \in S
             \/ /\ i \in 1..Len(area) /\ (i <= n \/ i > n + Len(cells))
                /\ a[i] = area[i]
  BY <1>1, <1>2
<1>4. m'.total_len >= m.total_len
  BY <1>1 DEF n
<1> QED
  BY <1>2, <1>3, <1>4 DEF Grown, n, a

\* They have all been put there, as part of the unit, or wait.
Moved(S) ==
    /\ m'.hp = m.hp /\ m'.content_len >= m.content_len
    /\ \A c \in S : \/ c \in CellsIn(m'.remain)
                   \/ \E i \in 1..(m'.content_len - m.content_len) : area'[m.total_len + i] = c

LEMMA PutMoves ==
  ASSUME area \in Seq(Cell), m \in ModelType, m.total_len <= Len(area),
         NEW cells \in Seq(Cell), area' = PutAt(area, m.total_len, cells)
  PROVE  \A i \in 1..Len(cells) : area'[m.total_len + i] = cells[i]
<1> DEFINE n == m.total_len
           q == PutAt(area, n, cells)
<1>1. n \in Nat /\ Len(cells) \in Nat /\ n <= Len(area)
  BY LenProperties DEF ModelType
<1>2. area' = q
  OBVIOUS
<1> HIDE DEF n
<1>3. /\ Len(q) \in Nat /\ Len(q) >= n + Len(cells)
      /\ \A i \in 1..Len(q) :
            \/ i - n \in 1..Len(cells) /\ q[i] = cells[i - n]
            \/ i \in 1..Len(area) /\ (i <= n \/ i > n + Len(cells)) /\ q[i] = area[i]
  BY <1>1, PutAtIs, LenProperties
<1> HIDE DEF q
<1>4. ASSUME NEW i \in 1..Len(cells) PROVE area'[n + i] = cells[i]
  <2> DEFINE j == n + i
  <2>1. j \in 1..Len(q) /\ j - n = i /\ ~(j <= n) /\ ~(j > n + Len(cells))
    BY <1>1, <1>3
  <2> HIDE DEF j
  <2>2. q[j] = cells[i]
    BY <1>3, <2>1
  <2> QED
    BY <1>2, <2>2 DEF j
<1> QED
  BY <1>4 DEF n

\* Each of the cells all goes to one place, and only there.
Laid(all) ==
    LET n == m'.total_len - m.total_len
    IN  /\ \A i \in 1..Len(area') :
              \/ i \in 1..Len(area) /\ area'[i] = area[i]
              \/ i <= m'.total_len /\ area'[i][1] # "data"
              \/ /\ i - m.total_len \in 1..n /\ i - m.total_len \in 1..Len(all)
                 /\ area'[i] = all[i - m.total_len]
        /\ \A i \in 1..Len(m'.remain) : n + i \in 1..Len(all) /\ m'.remain[i] = all[n + i]

LEMMA PutLays ==
  ASSUME area \in Seq(Cell), m \in ModelType, m.total_len <= Len(area),
         NEW cells \in Seq(Cell), area' = PutAt(area, m.total_len, cells), NEW all,
         m'.total_len = m.total_len + Len(cells),
         \A i \in 1..Len(cells) : cells[i][1] # "data" \/ (i \in 1..Len(all) /\ cells[i] = all[i]),
         \A i \in 1..Len(m'.remain) : /\ Len(cells) + i \in 1..Len(all)
                                      /\ m'.remain[i] = all[Len(cells) + i]
  PROVE  Laid(all)
<1> DEFINE n == m.total_len
           a == PutAt(area, n, cells)
<1>1. n \in Nat /\ Len(cells) \in Nat /\ n <= Len(area)
  BY LenProperties DEF ModelType
<1>2. m'.total_len - m.total_len = Len(cells)
  BY <1>1
<1> HIDE DEF n
<1>3. \A i \in 1..Len(a) :
         \/ i - n \in 1..Len(cells) /\ a[i] = cells[i - n]
         \/ i \in 1..Len(area) /\ a[i] = area[i]
  BY <1>1, PutAtIs
<1>4. area' = a
  BY DEF n
<1> HIDE DEF a
<1>5. ASSUME NEW i \in 1..Len(a)
      PROVE  \/ i \in 1..Len(area) /\ a[i] = area[i]
             \/ i <= n + Len(cells) /\ a[i][1] # "data"
             \/ i - n \in 1..Len(cells) /\ i - n \in 1..Len(all) /\ a[i] = all[i - n]
  <2>1. CASE i - n \in 1..Len(cells) /\ a[i] = cells[i - n]
    BY <1>1, <2>1
  <2> QED
    BY <1>3, <2>1
<1> QED
  BY <1>2, <1>4, <1>5 DEF Laid, n

LEMMA BlocksGrow ==
  ASSUME area \in Seq(Cell), m \in ModelType, m.total_len <= Len(area),
         NEW out \in Seq(Cell), Blocks(out)
  PROVE  /\ Grown(CellsIn(m.remain) \cup CellsIn(out)) /\ m'.zlib = "ING"
         /\ Len(out) >= B => m'.total_len >= m.total_len + B
         /\ Moved(CellsIn(m.remain) \cup CellsIn(out)) /\ Len(m'.remain) < B
         /\ m'.content_len - m.content_len = m'.total_len - m.total_len
         /\ m'.total_len <= m.total_len + Len(m.remain) + Len(out)
         /\ Laid(m.remain \o out)
<1> DEFINE all == m.remain \o out
           k   == Len(all)
           n   == (k \div B) * B
           S   == CellsIn(m.remain) \cup CellsIn(out)
<1>1. /\ m.remain \in Seq(Cell) /\ m.total_len \in Nat /\ m.content_len \in Nat
      /\ Len(m.remain) \in Nat /\ Len(out) \in Nat
  BY LenProperties DEF ModelType
<1>2. /\ all \in Seq(Cell) /\ k = Len(m.remain) + Len(out)
      /\ \A i \in 1..k : all[i] \in S
      /\ \A c \in S : \E i \in 1..k : c = all[i]
  <2>1. /\ all \in Seq(Cell) /\ k = Len(m.remain) + Len(out)
        /\ \A i \in 1..k : all[i] = IF i <= Len(m.remain) THEN m.remain[i]
                                                          ELSE out[i - Len(m.remain)]
    BY <1>1, ConcatProperties
  <2>2. DOMAIN m.remain = 1..Len(m.remain) /\ DOMAIN out = 1..Len(out)
    BY <1>1, LenProperties
  <2> HIDE DEF all, k
  <2>3. ASSUME NEW i \in 1..k PROVE all[i] \in S
    <3>1. CASE i <= Len(m.remain)
      <4>1. i \in DOMAIN m.remain /\ all[i] = m.remain[i]
        BY <1>1, <2>1, <2>2, <3>1
      <4> QED
        BY <4>1 DEF CellsIn
    <3>2. CASE ~(i <= Len(m.remain))
      <4>1. i - Len(m.remain) \in DOMAIN out /\ all[i] = out[i - Len(m.remain)]
        BY <1>1, <2>1, <2>2, <3>2
      <4> QED
        BY <4>1 DEF CellsIn
    <3> QED
      BY <3>1, <3>2
  <2>4. ASSUME NEW c \in CellsIn(m.remain) PROVE \E i \in 1..k : c = all[i]
    <3>1. PICK i \in 1..Len(m.remain) : c = m.remain[i]
      BY <2>2 DEF CellsIn
    <3>2. i \in 1..k /\ all[i] = c
      BY <1>1, <2>1, <3>1
    <3> QED
      BY <3>2
  <2>5. ASSUME NEW c \in CellsIn(out) PROVE \E i \in 1..k : c = all[i]
    <3>1. PICK i \in 1..Len(out) : c = out[i]
      BY <2>2 DEF CellsIn
    <3> DEFINE j == Len(m.remain) + i
    <3>2. j \in 1..k /\ ~(j <= Len(m.remain)) /\ j - Len(m.remain) = i
      BY <1>1, <2>1, <3>1
    <3> HIDE DEF j
    <3>3. j \in 1..k /\ all[j] = out[i]
      BY <2>1, <3>2
    <3> QED
      BY <3>1, <3>3
  <2> QED
    BY <2>1, <2>3, <2>4, <2>5
<1>3. n \in Nat /\ n <= k /\ (k >= B => n >= B) /\ k \in Nat /\ k - n < B
  <2>1. k \in Nat
    BY <1>1, <1>2
  <2> HIDE DEF k
  <2> QED
    BY <2>1, WholeBlocks
<1>4. /\ area' = PutAt(area, m.total_len, Upto(all, n))
      /\ m' = [m EXCEPT !.total_len = @ + n, !.content_len = @ + n, !.zlib = "ING",
                        !.remain = SubSeq(all, n + 1, Len(all))]
  BY DEF Blocks
<1> HIDE DEF all, n, S
<1> DEFINE cells == Upto(all, n)
           rest  == SubSeq(all, n + 1, Len(all))
<1>5. /\ cells \in Seq(Cell) /\ Len(cells) = n
      /\ \A i \in 1..Len(cells) : cells[i] \in S /\ cells[i] = all[i]
  <2>1. /\ cells \in Seq(Cell) /\ Len(cells) = n
        /\ \A i \in 1..n : cells[i] = all[i]
    BY <1>2, <1>3, UptoIs
  <2> HIDE DEF cells
  <2> QED
    BY <1>2, <1>3, <2>1
<1>6. /\ rest \in Seq(Cell)
      /\ \A i \in 1..Len(rest) : rest[i] \in S /\ rest[i] = all[n + i]
      /\ Len(rest) = k - n
  <2>1. /\ rest \in Seq(Cell) /\ Len(rest) = k - n
        /\ \A i \in 1..Len(rest) : rest[i] = all[n + i] /\ n + i \in 1..k
    BY <1>2, <1>3, RestIs
  <2> HIDE DEF rest
  <2> QED
    BY <1>2, <2>1
<1> HIDE DEF cells, rest, k
<1>7. /\ m' = [m EXCEPT !.total_len = m.total_len + n, !.content_len = m.content_len + n,
                        !.zlib = "ING", !.remain = rest]
      /\ area' = PutAt(area, m.total_len, cells)
  BY <1>4 DEF rest, cells
<1>8. m.total_len + n \in Nat /\ m.content_len + n \in Nat
  BY <1>1, <1>3
<1>9. /\ m' \in ModelType /\ m'.total_len = m.total_len + n
      /\ m'.path = m.path /\ m'.fp = m.fp /\ m'.is_open_ok = m.is_open_ok
      /\ m'.zlib = "ING" /\ m'.remain = rest /\ m'.hp = m.hp
      /\ m'.content_len = m.content_len + n
  BY <1>6, <1>7, <1>8 DEF ModelType
<1>10. Grown(S)
  BY <1>5, <1>6, <1>7, <1>9, PutGrows
<1>11. Len(out) >= B => m'.total_len >= m.total_len + B
  BY <1>1, <1>2, <1>3, <1>9, CLoganAssumption
<1>12. Moved(S)
  <2>1. \A i \in 1..n : area'[m.total_len + i] = all[i]
    BY <1>5, <1>7, PutMoves
  <2>2. m'.content_len - m.content_len = n
    BY <1>1, <1>3, <1>9
  <2>3. ASSUME NEW c \in S, c \notin CellsIn(rest) PROVE \E i \in 1..n : area'[m.total_len + i] = c
    <3>1. PICK i \in 1..k : c = all[i]
      BY <1>2
    <3>2. i <= n
      <4> SUFFICES ASSUME i > n PROVE FALSE
        BY <1>3
      <4>1. i - n \in 1..Len(rest) /\ i = n + (i - n)
        BY <1>3, <1>6
      <4>2. rest[i - n] = all[i] /\ DOMAIN rest = 1..Len(rest)
        BY <1>6, <4>1, LenProperties
      <4> QED
        BY <2>3, <3>1, <4>1, <4>2 DEF CellsIn
    <3>3. i \in 1..n
      BY <1>3, <3>2
    <3> QED
      BY <2>1, <3>1, <3>3
  <2> QED
    BY <1>1, <1>3, <1>9, <2>2, <2>3 DEF Moved
<1>13. /\ Len(m'.remain) < B /\ m'.content_len - m.content_len = m'.total_len - m.total_len
       /\ m'.total_len <= m.total_len + Len(m.remain) + Len(out)
  <2>1. Len(m'.remain) < B
    BY <1>3, <1>6, <1>9
  <2>2. m'.total_len - m.total_len = n /\ m'.content_len - m.content_len = n
    BY <1>1, <1>3, <1>9
  <2>3. m.total_len + n <= m.total_len + Len(m.remain) + Len(out)
    BY <1>1, <1>2, <1>3
  <2> QED
    BY <1>9, <2>1, <2>2, <2>3
<1>14. Laid(all)
  <2>1. Len(cells) = n /\ m'.total_len = m.total_len + Len(cells)
    BY <1>5, <1>9
  <2>2. \A i \in 1..Len(cells) : i \in 1..Len(all) /\ cells[i] = all[i]
    BY <1>2, <1>3, <1>5 DEF k
  <2>3. \A i \in 1..Len(m'.remain) : /\ Len(cells) + i \in 1..Len(all)
                                     /\ m'.remain[i] = all[Len(cells) + i]
    BY <1>2, <1>3, <1>5, <1>6, <1>9 DEF k
  <2> QED
    BY <1>5, <1>7, <2>1, <2>2, <2>3, PutLays
<1> QED
  BY <1>9, <1>10, <1>11, <1>12, <1>13, <1>14 DEF S, all

LEMMA EndGrows ==
  ASSUME area \in Seq(Cell), m \in ModelType, m.total_len <= Len(area), EndCompress
  PROVE  /\ Grown(CellsIn(m.remain) \cup {Pad, End})
         /\ m'.zlib = "END" /\ m'.remain = <<>> /\ m'.total_len >= m.total_len + 2
         /\ Moved(CellsIn(m.remain))
         /\ m'.content_len - m.content_len + 1 = m'.total_len - m.total_len
         /\ m'.total_len <= m.total_len + Len(m.remain) + Trailer + B + 1
         /\ Laid(m.remain) /\ area'[m'.total_len] = End
<1> DEFINE all == m.remain \o Pads(Trailer)
           pad == Pads(B - (Len(all) % B))
           padded == all \o pad
           cells == Append(padded, End)
           S == CellsIn(m.remain) \cup {Pad, End}
<1>1. /\ m.remain \in Seq(Cell) /\ m.total_len \in Nat /\ m.content_len \in Nat
      /\ Len(m.remain) \in Nat /\ DOMAIN m.remain = 1..Len(m.remain)
  BY LenProperties DEF ModelType
<1>2. \A i \in 1..Len(m.remain) : m.remain[i] \in S
  BY <1>1 DEF CellsIn
<1>3. /\ area' = PutAt(area, m.total_len, cells)
      /\ m' = [m EXCEPT !.total_len = @ + Len(padded) + 1, !.content_len = @ + Len(padded),
                        !.zlib = "END", !.remain = <<>>]
  BY DEF EndCompress
<1>4. Pad \in S /\ End \in S
  OBVIOUS
<1> HIDE DEF S
<1>5. /\ all \in Seq(Cell) /\ Len(all) \in Nat
      /\ \A i \in 1..Len(all) : all[i] \in S
      /\ Len(all) = Len(m.remain) + Trailer
      /\ \A i \in 1..Len(m.remain) : all[i] = m.remain[i] /\ i \in 1..Len(all)
      /\ \A i \in 1..Len(all) : i \in 1..Len(m.remain) \/ all[i] = Pad
  <2> DEFINE t == Pads(Trailer)
  <2>1. t \in Seq(Cell) /\ Len(t) = Trailer /\ Trailer \in Nat /\ \A i \in 1..Trailer : t[i] = Pad
    BY PadsAre, CLoganAssumption
  <2> HIDE DEF t
  <2>2. /\ m.remain \o t \in Seq(Cell) /\ Len(m.remain \o t) = Len(m.remain) + Trailer
        /\ \A i \in 1..Len(m.remain) + Trailer :
              (m.remain \o t)[i] = IF i <= Len(m.remain) THEN m.remain[i] ELSE t[i - Len(m.remain)]
    <3>1. m.remain \in Seq(Cell) /\ t \in Seq(Cell)
      BY <1>1, <2>1
    <3>2. /\ m.remain \o t \in Seq(Cell) /\ Len(m.remain \o t) = Len(m.remain) + Len(t)
          /\ \A i \in 1..Len(m.remain) + Len(t) :
                (m.remain \o t)[i] = IF i <= Len(m.remain) THEN m.remain[i] ELSE t[i - Len(m.remain)]
      BY <3>1, ConcatProperties
    <3> QED
      BY <2>1, <3>2
  <2>3. \A i \in 1..Len(m.remain) + Trailer : (m.remain \o t)[i] \in S
    BY <1>1, <1>2, <1>4, <2>1, <2>2
  <2>4. \A i \in 1..Len(m.remain) : i \in 1..(Len(m.remain) + Trailer) /\ (m.remain \o t)[i] = m.remain[i]
    BY <1>1, <2>1, <2>2
  <2>5. \A i \in 1..Len(m.remain) + Trailer : i \in 1..Len(m.remain) \/ (m.remain \o t)[i] = Pad
    BY <1>1, <2>1, <2>2
  <2> QED
    BY <1>1, <2>1, <2>2, <2>3, <2>4, <2>5 DEF t
<1> HIDE DEF all
<1>6. /\ pad \in Seq(Cell) /\ Len(pad) \in Nat /\ Len(pad) >= 1 /\ Len(pad) <= B
      /\ \A i \in 1..Len(pad) : pad[i] = Pad
  <2>1. B - (Len(all) % B) \in Nat /\ B - (Len(all) % B) >= 1 /\ B - (Len(all) % B) <= B
    <3>1. Len(all) \in Nat /\ B \in Nat
      BY <1>5, CLoganAssumption
    <3>2. Len(all) % B \in Nat /\ Len(all) % B < B
      BY <3>1, WholeBlocks
    <3> QED
      BY <3>1, <3>2
  <2> QED
    BY <2>1, PadsAre
<1> HIDE DEF pad
<1>7. /\ padded \in Seq(Cell) /\ Len(padded) \in Nat /\ Len(padded) >= 1
      /\ \A i \in 1..Len(padded) : padded[i] \in S
      /\ Len(padded) = Len(all) + Len(pad)
      /\ \A i \in 1..Len(all) : padded[i] = all[i] /\ i \in 1..Len(padded)
      /\ \A i \in 1..Len(padded) : i \in 1..Len(all) \/ padded[i] = Pad
  <2>1. /\ padded \in Seq(Cell) /\ Len(padded) = Len(all) + Len(pad)
        /\ \A i \in 1..Len(all) + Len(pad) :
              padded[i] = IF i <= Len(all) THEN all[i] ELSE pad[i - Len(all)]
    BY <1>5, <1>6, ConcatProperties
  <2> HIDE DEF padded
  <2>2. Len(all) \in Nat /\ Len(pad) \in Nat
    BY <1>5, <1>6
  <2>3. ASSUME NEW i \in 1..Len(padded) PROVE padded[i] \in S
    <3>1. CASE i <= Len(all)
      <4>1. i \in 1..Len(all) /\ padded[i] = all[i]
        BY <2>1, <2>2, <3>1
      <4> QED
        BY <1>5, <4>1
    <3>2. CASE ~(i <= Len(all))
      <4>1. i - Len(all) \in 1..Len(pad) /\ padded[i] = pad[i - Len(all)]
        BY <2>1, <2>2, <3>2
      <4> QED
        BY <1>4, <1>6, <4>1
    <3> QED
      BY <3>1, <3>2
  <2>4. /\ padded \in Seq(Cell) /\ Len(padded) \in Nat /\ Len(padded) >= 1
        /\ Len(padded) = Len(all) + Len(pad)
    BY <1>5, <1>6, <2>1
  <2>5. \A i \in 1..Len(all) : padded[i] = all[i] /\ i \in 1..Len(padded)
    BY <1>5, <1>6, <2>1
  <2>6. \A i \in 1..Len(padded) : i \in 1..Len(all) \/ padded[i] = Pad
    BY <1>6, <2>1, <2>2
  <2> QED
    BY <2>3, <2>4, <2>5, <2>6
<1> HIDE DEF padded
<1>8. /\ cells \in Seq(Cell) /\ Len(cells) = Len(padded) + 1
      /\ \A i \in 1..Len(cells) : cells[i] \in S
      /\ \A i \in 1..Len(padded) : cells[i] = padded[i]
      /\ cells[Len(padded) + 1] = End
  <2>1. /\ cells \in Seq(Cell) /\ Len(cells) = Len(padded) + 1
        /\ \A i \in 1..Len(padded) : cells[i] = padded[i]
        /\ cells[Len(padded) + 1] = End
    BY <1>7, CellsAre, AppendProperties
  <2> HIDE DEF cells
  <2> QED
    BY <1>4, <1>7, <2>1
<1> HIDE DEF cells
<1> DEFINE k == Len(padded)
<1>9. /\ m.total_len + k + 1 \in Nat /\ m.content_len + k \in Nat /\ k \in Nat /\ k >= 1
      /\ <<>> \in Seq(Cell)
  BY <1>1, <1>7
<1>10. m' = [m EXCEPT !.total_len = m.total_len + k + 1, !.content_len = m.content_len + k,
                      !.zlib = "END", !.remain = <<>>]
  BY <1>3
<1> HIDE DEF k
<1>11. /\ m' \in ModelType /\ m'.total_len = m.total_len + k + 1
       /\ m'.path = m.path /\ m'.fp = m.fp /\ m'.is_open_ok = m.is_open_ok
       /\ m'.zlib = "END" /\ m'.remain = <<>> /\ m'.hp = m.hp
       /\ m'.content_len = m.content_len + k
  BY <1>9, <1>10 DEF ModelType
<1>12. m'.total_len = m.total_len + Len(cells)
  <2>1. Len(cells) = k + 1 /\ m.total_len \in Nat
    BY <1>1, <1>8 DEF k
  <2> QED
    BY <1>9, <1>11, <2>1
<1>13. Grown(S)
  BY <1>11, <1>12, <1>3, <1>8, PutGrows
<1>14. Moved(CellsIn(m.remain))
  <2>1. \A i \in 1..Len(cells) : area'[m.total_len + i] = cells[i]
    BY <1>3, <1>8, PutMoves
  <2>2. m'.content_len - m.content_len = k
    BY <1>1, <1>9, <1>11
  <2>3. ASSUME NEW c \in CellsIn(m.remain) PROVE \E i \in 1..k : area'[m.total_len + i] = c
    <3>1. PICK i \in 1..Len(m.remain) : c = m.remain[i]
      BY <1>1 DEF CellsIn
    <3>2. i \in 1..Len(all) /\ all[i] = c
      BY <1>5, <3>1
    <3>3. i \in 1..Len(padded) /\ padded[i] = c
      BY <1>7, <3>2
    <3>4. i \in 1..k /\ i \in 1..Len(cells) /\ cells[i] = c
      BY <1>7, <1>8, <3>3 DEF k
    <3> QED
      BY <2>1, <3>4
  <2> QED
    BY <1>1, <1>9, <1>11, <2>2, <2>3 DEF Moved
<1>15. /\ m'.content_len - m.content_len + 1 = m'.total_len - m.total_len
       /\ m'.total_len <= m.total_len + Len(m.remain) + Trailer + B + 1
  <2>1. k = Len(m.remain) + Trailer + Len(pad)
    BY <1>5, <1>7 DEF k
  <2>2. Trailer \in Nat /\ B \in Nat
    BY CLoganAssumption
  <2>3. m'.total_len = m.total_len + k + 1 /\ m'.content_len = m.content_len + k
    BY <1>11
  <2>4. Len(pad) \in Nat /\ Len(pad) <= B
    BY <1>6
  <2>5. m.total_len \in Nat /\ m.content_len \in Nat /\ Len(m.remain) \in Nat /\ k \in Nat
    BY <1>1, <1>9
  <2>6. m'.content_len - m.content_len + 1 = m'.total_len - m.total_len
    BY <2>3, <2>5
  <2>7. k <= Len(m.remain) + Trailer + B
    BY <2>1, <2>2, <2>4, <2>5
  <2>8. m'.total_len <= m.total_len + Len(m.remain) + Trailer + B + 1
    BY <2>2, <2>3, <2>5, <2>7
  <2> QED
    BY <2>6, <2>8
<1>16. Laid(m.remain)
  <2>1. ASSUME NEW i \in 1..Len(cells), cells[i][1] = "data"
        PROVE  i \in 1..Len(m.remain) /\ cells[i] = m.remain[i]
    <3>1. Pad[1] # "data" /\ End[1] # "data"
      BY DEF Pad, End
    <3>2. i \in 1..Len(padded) /\ cells[i] = padded[i]
      BY <1>7, <1>8, <2>1, <3>1
    <3>3. i \in 1..Len(all) /\ padded[i] = all[i]
      BY <1>7, <2>1, <3>1, <3>2
    <3>4. i \in 1..Len(m.remain)
      BY <1>5, <2>1, <3>1, <3>2, <3>3
    <3> QED
      BY <1>5, <3>2, <3>3, <3>4
  <2>2. \A i \in 1..Len(m'.remain) : FALSE
    BY <1>11
  <2> QED
    BY <1>3, <1>8, <1>12, <2>1, <2>2, PutLays
<1>17. area'[m'.total_len] = End
  BY <1>12, <1>3, <1>7, <1>8, PutMoves
<1> QED
  BY <1>1, <1>9, <1>11, <1>13, <1>14, <1>15, <1>16, <1>17 DEF S

LEMMA FreshIs ==
  /\ Fresh \in ModelType /\ Fresh.total_len = 0 /\ Fresh.remain = <<>> /\ Fresh.zlib = "NONE"
  /\ Fresh.is_open_ok = FALSE /\ Fresh.path = None /\ Fresh.fp = None
BY DEF Fresh, ModelType

LEMMA OpenedIs ==
  ASSUME TypeOK, NEW mm \in ModelType, NEW p \in Names \cup {None}
  PROVE  /\ Opened(mm, p) \in ModelType
         /\ Opened(mm, p).path = p /\ Opened(mm, p).fp = p
         /\ Opened(mm, p).total_len = mm.total_len /\ Opened(mm, p).remain = mm.remain
         /\ Opened(mm, p).zlib = mm.zlib /\ Opened(mm, p).is_open_ok = mm.is_open_ok
         /\ ~Exists(p) => Opened(mm, p).file_len = 0
<1> DEFINE l == IF Exists(p) THEN Len(files[p]) ELSE 0
<1>1. l \in Nat
  BY LenProperties DEF Exists, TypeOK
<1>2. Opened(mm, p) = [mm EXCEPT !.path = p, !.stream = "OPEN", !.fp = p, !.file_len = l]
  BY DEF Opened
<1>3. ~Exists(p) => l = 0
  OBVIOUS
<1> HIDE DEF l, Opened
<1> QED
  <2> DEFINE o == Opened(mm, p)
  <2>1. o = [mm EXCEPT !.path = p, !.stream = "OPEN", !.fp = p, !.file_len = l]
    BY <1>2
  <2> HIDE DEF o
  <2>2. o \in ModelType
    BY <1>1, <2>1 DEF ModelType
  <2>3. /\ o.path = p /\ o.fp = p /\ o.total_len = mm.total_len /\ o.remain = mm.remain
        /\ o.zlib = mm.zlib /\ o.is_open_ok = mm.is_open_ok /\ o.file_len = l
    BY <2>1 DEF ModelType
  <2> QED
    BY <1>3, <2>2, <2>3 DEF o

LEMMA CreatedIs ==
  ASSUME TypeOK, NEW p \in Names \cup {None}
  PROVE  /\ Created(p) \in [Names -> Seq(Cell) \cup {None}]
         /\ p \in Names => Created(p)[p] # None
         /\ \A q \in Names : q # p => Created(p)[q] = files[q]
         /\ \A q \in Names : files[q] # None => Created(p)[q] = files[q]
         /\ \A q \in Names : files[q] = None => Created(p)[q] \in {None, <<>>}
<1>1. <<>> \in Seq(Cell)
  OBVIOUS
<1>2. None # <<>>
  BY <1>1, NoneAssumption
<1> QED
  BY <1>1, <1>2 DEF TypeOK, Created

-------------------------------------------------------------------------------
(* CoreInv is inductive *)

LEMMA InitCore == Init => CoreInv
<1> SUFFICES ASSUME Init PROVE CoreInv
  OBVIOUS
<1> USE DEF Init
<1>1. TypeOK
  <2>1. <<>> \in Seq(Cell) /\ m \in ModelType
    BY FreshIs
  <2>2. /\ files \in [Names -> Seq(Cell) \cup {None}] /\ away \in [Names -> Seq(Cell)]
        /\ size \in [Lines -> Nat] /\ home \in [Lines -> Names \cup {None}]
        /\ lost \in [Causes -> SUBSET Lines]
    BY <2>1
  <2>3. last \in 0..MaxWrites /\ secs \in 0..MaxSections /\ left \in [Events -> Nat]
    BY CLoganAssumption
  <2> QED
    BY <2>1, <2>2, <2>3 DEF TypeOK, ModelType
<1>2. PhaseInv
  BY DEF PhaseInv, Writing, FlushFor, Flushing
<1>3. LenInv
  BY FreshIs, LenProperties DEF LenInv
<1>4. LinkInv
  BY FreshIs DEF LinkInv, Closed
<1> QED
  BY <1>1, <1>2, <1>3, <1>4 DEF CoreInv

\* A step of control: the buffer, the files and the model stay.
LEMMA ControlCore ==
  ASSUME CoreInv, UNCHANGED <<files, away, mapName, mapTotal, mode, m, last, size, home, lost>>,
         area' \in Seq(Cell), Len(area') = Len(area),
         mapThere' \in BOOLEAN,
         pc' \in {"idle", "compress", "total", "len", "unit", "ended", "section",
                  "flush", "flushed", "dest", "clear", "cleared", "open", "close"},
         after' \in {"unit", "ended", "flushed", "cleared"},
         ret' \in {"idle", "section", "open", "close"}, arg' \in Names \cup {None},
         secs' \in 0..MaxSections, taken' \subseteq Lines, left' \in [Events -> Nat],
         PhaseInv', pc' \in {"total", "len", "cleared"} => Len(area) >= 1,
         Closed => pc' \in {"idle", "open"}
  PROVE  CoreInv'
<1> USE DEF CoreInv
<1>1. TypeOK'
  <2>1. TypeOK
    OBVIOUS
  <2>2. /\ files' \in [Names -> Seq(Cell) \cup {None}] /\ away' \in [Names -> Seq(Cell)]
        /\ mapName' \in Names \cup {None} /\ mapTotal' \in Nat /\ mode' \in {"MMAP", "MEMORY"}
    BY <2>1 DEF TypeOK
  <2>3. m' \in ModelType
    BY <2>1 DEF TypeOK, ModelType
  <2>4. /\ last' \in 0..MaxWrites /\ size' \in [Lines -> Nat]
        /\ home' \in [Lines -> Names \cup {None}] /\ lost' \in [Causes -> SUBSET Lines]
    BY <2>1 DEF TypeOK
  <2>5. pc' \in {"down", "idle", "compress", "total", "len", "unit", "ended", "section",
                 "flush", "flushed", "dest", "put", "clear", "cleared", "open", "close"}
    OBVIOUS
  <2> QED
    BY <2>2, <2>3, <2>4, <2>5 DEF TypeOK, ModelType
<1>2. LenInv'
  BY DEF LenInv
<1>3. LinkInv'
  BY DEF LinkInv, Closed
<1> QED
  BY <1>1, <1>2, <1>3

LEMMA FlushCore ==
  ASSUME CoreInv, (Flush /\ m.zlib # "ING") \/ Flushed
  PROVE  CoreInv'
<1> USE DEF CoreInv, Flush, Flushed, disk, mapped, hist
<1>1. /\ UNCHANGED <<files, away, area, mapName, mapTotal, mapThere, mode, m, last, size, home,
                     taken, lost, left, after, ret, arg, secs>>
      /\ pc' \in {"flushed", "dest"} \/ (pc' = ret /\ m.total_len <= 1)
      /\ Flushing /\ ret \in {"idle", "section", "open", "close"}
  BY DEF TypeOK, Flushing, ModelType
<1>2. pc' \in {"flushed", "dest", "idle", "section", "open", "close"}
  BY <1>1
<1>3. PhaseInv'
  BY <1>1 DEF PhaseInv, Writing, FlushFor, Flushing
<1>4. ~Closed
  BY DEF Closed
<1> HIDE DEF Flush, Flushed
<1> QED
  BY <1>1, <1>2, <1>3, <1>4, ControlCore DEF TypeOK

LEMMA OpenCallCore ==
  ASSUME CoreInv, NEW p \in Names, clogan_open(p)
  PROVE  CoreInv'
<1> USE DEF CoreInv, clogan_open, disk, mapped, hist
<1>1. /\ UNCHANGED <<files, away, area, mapName, mapTotal, mapThere, mode, m, last, size, home,
                     taken, lost, left, after, secs>>
      /\ \/ m.total_len > 1 /\ pc' = "flush" /\ ret' = "open"
         \/ m.total_len <= 1 /\ pc' = "open" /\ ret' = ret
      /\ arg' = p /\ pc = "idle"
  BY DEF TypeOK
<1>2. PhaseInv'
  BY <1>1 DEF PhaseInv, Writing, FlushFor, Flushing
<1>3. Closed => pc' \in {"idle", "open"}
  BY <1>1 DEF Closed
<1> HIDE DEF clogan_open
<1> QED
  BY <1>1, <1>2, <1>3, ControlCore DEF TypeOK

LEMMA FlushCallCore ==
  ASSUME CoreInv, clogan_flush
  PROVE  CoreInv'
<1> USE DEF CoreInv, clogan_flush, disk, mapped, hist
<1>1. /\ UNCHANGED <<files, away, area, mapName, mapTotal, mapThere, mode, m, last, size, home,
                     taken, lost, left, after, arg, secs>>
      /\ m.total_len > 1 /\ pc' = "flush" /\ ret' = "idle"
  OBVIOUS
<1>2. PhaseInv'
  BY <1>1 DEF PhaseInv, Writing, FlushFor, Flushing
<1>3. ~Closed
  BY <1>1 DEF Closed
<1> HIDE DEF clogan_flush
<1> QED
  BY <1>1, <1>2, <1>3, ControlCore DEF TypeOK

LEMMA UnitCore ==
  ASSUME CoreInv, (Unit /\ pc' # "total") \/ (Ended /\ pc' = "flush")
  PROVE  CoreInv'
<1> USE DEF CoreInv, Unit, Ended, UpdateLength, WriteOut, disk, mapped, hist
<1>1. /\ UNCHANGED <<files, away, area, mapName, mapTotal, mapThere, mode, m, last, size, home,
                     taken, lost, left, after, arg, secs>>
      /\ (pc' = "flush" /\ ret' = "section") \/ (pc' = "section" /\ ret' = ret)
      /\ pc \in {"unit", "ended"}
  OBVIOUS
<1>2. PhaseInv'
  BY <1>1 DEF PhaseInv, Writing, FlushFor, Flushing
<1>3. ~Closed
  BY <1>1 DEF Closed
<1> HIDE DEF Unit, Ended
<1> QED
  BY <1>1, <1>2, <1>3, ControlCore DEF TypeOK

LEMMA SectionCore ==
  ASSUME CoreInv, Section
  PROVE  CoreInv'
<1> USE DEF CoreInv, Section, disk, mapped, hist
<1>1. /\ UNCHANGED <<files, away, area, mapName, mapTotal, mapThere, mode, m, last, size, home,
                     lost, left, after, arg, ret>>
      /\ \/ secs > 1 /\ pc' = "compress" /\ taken' = taken
         \/ ~(secs > 1) /\ pc' = "idle" /\ taken' = taken \cup {last}
      /\ pc = "section" /\ secs' = secs - 1
  OBVIOUS
<1>2. secs >= 1 /\ last \in Lines /\ m.is_open_ok /\ secs \in 0..MaxSections
  BY <1>1 DEF PhaseInv, Writing, TypeOK
<1>3. secs' \in 0..MaxSections /\ (pc' = "compress" => secs' >= 1) /\ taken' \subseteq Lines
  <2>1. MaxSections \in Nat /\ secs' = secs - 1 /\ (pc' = "compress" => secs > 1)
    BY <1>1, CLoganAssumption
  <2>2. secs' \in 0..MaxSections /\ (pc' = "compress" => secs' >= 1)
    BY <1>2, <2>1
  <2>3. taken' \subseteq Lines
    BY <1>1, <1>2 DEF TypeOK
  <2> QED
    BY <2>2, <2>3
<1>4. PhaseInv'
  BY <1>1, <1>2, <1>3 DEF PhaseInv, Writing, FlushFor, Flushing
<1>5. ~Closed
  BY <1>1 DEF Closed
<1> HIDE DEF Section
<1> QED
  <2>1. /\ area' \in Seq(Cell) /\ mapThere' \in BOOLEAN /\ Len(area') = Len(area)
        /\ after' \in {"unit", "ended", "flushed", "cleared"}
        /\ ret' \in {"idle", "section", "open", "close"} /\ arg' \in Names \cup {None}
        /\ left' \in [Events -> Nat]
    BY <1>1 DEF TypeOK
  <2> QED
    BY <1>1, <1>3, <1>4, <1>5, <2>1, ControlCore

LEMMA HeaderIn ==
  ASSUME NEW s \in Seq(Cell), NEW i, NEW n \in Nat
  PROVE  LET t == [s EXCEPT ![i] = Hdr(n)]
         IN  t \in Seq(Cell) /\ Len(t) = Len(s) /\ \A j \in 1..Len(s) : t[j] = s[j] \/ t[j] = Hdr(n)
<1> DEFINE k == Len(s)
           t == [s EXCEPT ![i] = Hdr(n)]
<1>1. k \in Nat /\ s \in [1..k -> Cell] /\ Hdr(n) \in Cell
  BY CellsAre, LenProperties
<1>2. t \in [1..k -> Cell] /\ \A j \in 1..k : t[j] = s[j] \/ t[j] = Hdr(n)
  BY <1>1
<1>3. t \in Seq(Cell)
  BY <1>1, <1>2
<1>4. DOMAIN t = 1..k /\ DOMAIN t = 1..Len(t) /\ Len(t) \in Nat
  BY <1>2, <1>3, LenProperties
<1>5. Len(t) = k
  BY <1>1, <1>4
<1> QED
  BY <1>2, <1>3, <1>5

LEMMA LengthCells ==
  ASSUME CoreInv, area' = [area EXCEPT ![m.hp] = Hdr(m.content_len)]
  PROVE  area' \in Seq(Cell) /\ Len(area') = Len(area)
<1>1. area \in Seq(Cell) /\ m.content_len \in Nat
  BY DEF CoreInv, TypeOK, ModelType
<1> QED
  BY <1>1, HeaderIn, Zenon

LEMMA LengthCore ==
  ASSUME CoreInv, Length
  PROVE  CoreInv'
<1> USE DEF CoreInv, Length, disk, mapped, hist
<1>1. /\ UNCHANGED <<files, away, mapName, mapTotal, mapThere, mode, m, last, size, home,
                     taken, lost, left, after, arg, ret, secs>>
      /\ pc = "len" /\ pc' = after /\ after \in {"unit", "ended", "flushed", "cleared"}
      /\ area' = [area EXCEPT ![m.hp] = Hdr(m.content_len)]
  BY DEF TypeOK
<1>2. area' \in Seq(Cell) /\ Len(area') = Len(area)
  BY <1>1, LengthCells
<1>3. PhaseInv'
  BY <1>1 DEF PhaseInv, Writing, FlushFor, Flushing
<1>4. ~Closed /\ Len(area) >= 1
  BY <1>1 DEF Closed, LenInv
<1> HIDE DEF Length
<1> QED
  BY <1>1, <1>2, <1>3, <1>4, ControlCore DEF TypeOK

LEMMA SpentIs ==
  ASSUME TypeOK, NEW e \in Events, left[e] > 0, left' = [left EXCEPT ![e] = @ - 1]
  PROVE  left' \in [Events -> Nat]
<1>1. left[e] \in Nat /\ left \in [Events -> Nat]
  BY DEF TypeOK
<1>2. left[e] - 1 \in Nat
  BY <1>1
<1> QED
  BY <1>1, <1>2

LEMMA UnmapCore ==
  ASSUME CoreInv, Unmap
  PROVE  CoreInv'
<1> USE DEF CoreInv, Unmap, ctl, disk, hist
<1>1. /\ UNCHANGED <<files, away, area, mapName, mapTotal, mode, m, last, size, home,
                     taken, lost, after, arg, ret, secs, pc>>
      /\ mapThere' = FALSE /\ pc = "idle" /\ left' \in [Events -> Nat]
  BY SpentIs DEF Spend, Events
<1>2. PhaseInv'
  BY <1>1 DEF PhaseInv, Writing, FlushFor, Flushing
<1> HIDE DEF Unmap
<1> QED
  <2>1. /\ area' \in Seq(Cell) /\ mapThere' \in BOOLEAN /\ Len(area') = Len(area)
        /\ after' \in {"unit", "ended", "flushed", "cleared"}
        /\ ret' \in {"idle", "section", "open", "close"} /\ arg' \in Names \cup {None}
        /\ secs' \in 0..MaxSections /\ taken' \subseteq Lines
    BY <1>1 DEF TypeOK
  <2> QED
    BY <1>1, <1>2, <2>1, ControlCore

\* A step that compresses
LEMMA GrownCore ==
  ASSUME CoreInv, NEW S, Grown(S), ~Closed, pc # "down",
         UNCHANGED <<files, away, mapped, last, home, taken, lost, left, arg, secs>>,
         size' \in [Lines -> Nat],
         pc' \in {"total", "section"},
         after' \in {"unit", "ended", "flushed", "cleared"}, ret' = ret,
         PhaseInv', Len(area') >= 1
  PROVE  CoreInv'
<1> USE DEF CoreInv, mapped
<1>1. TypeOK'
  BY DEF TypeOK, Grown, ModelType
<1>2. LenInv'
  <2>1. Len(area) \in Nat /\ Len(area') \in Nat /\ mapTotal \in Nat
    BY LenProperties DEF TypeOK, Grown
  <2> QED
    BY <2>1 DEF LenInv, Grown
<1>3. LinkInv'
  BY DEF LinkInv, Closed, Grown
<1> QED
  BY <1>1, <1>2, <1>3

LEMMA Model == CoreInv => /\ m \in ModelType /\ area \in Seq(Cell) /\ Len(area) \in Nat
                          /\ m.total_len \in Nat /\ m.total_len <= Len(area)
                          /\ DOMAIN area = 1..Len(area)
BY LenProperties DEF CoreInv, TypeOK, ModelType, LenInv

LEMMA EndUnitCore ==
  ASSUME CoreInv, EndCompress, UpdateLength("flushed") \/ UpdateLength("ended"),
         (pc = "flush" /\ after' = "flushed") \/ (pc = "unit" /\ after' = "ended"),
         UNCHANGED <<files, away, mapped, last, home, taken, lost, left, arg, secs, size, ret>>
  PROVE  CoreInv'
<1> USE DEF UpdateLength
<1> DEFINE S == CellsIn(m.remain) \cup {Pad, End}
<1>1. Grown(S) /\ m'.total_len >= m.total_len + 2
  BY Model, EndGrows
<1> HIDE DEF S
<1>2. pc' = "total" /\ pc \in {"flush", "unit"} /\ after' \in {"flushed", "ended"}
  OBVIOUS
<1>3. Len(area') >= 1
  <2>1. m.total_len \in Nat /\ m'.total_len \in Nat /\ Len(area') \in Nat /\ Len(area') >= m'.total_len
    BY <1>1, Model, LenProperties DEF Grown, ModelType
  <2> QED
    BY <1>1, <2>1
<1>4. PhaseInv'
  BY <1>1, <1>2 DEF PhaseInv, Writing, FlushFor, Flushing, Grown, CoreInv
<1>5. ~Closed
  BY <1>2 DEF Closed
<1> HIDE DEF UpdateLength
<1> QED
  BY <1>1, <1>2, <1>3, <1>4, <1>5, GrownCore DEF CoreInv, TypeOK

LEMMA EndCore ==
  ASSUME CoreInv, \/ Flush /\ m.zlib = "ING"
                  \/ Unit /\ pc' = "total"
  PROVE  CoreInv'
  BY EndUnitCore DEF Flush, disk, hist, UpdateLength, Unit, WriteOut

\* What deflate emits for a section
Out(c) == Pads(IF m.zlib = "INIT" THEN GzHead ELSE 0)
              \o [i \in 1..c |-> Data(last, size[last] + i)]

LEMMA OutIs ==
  ASSUME CoreInv, last \in Lines, NEW c \in CSizes
  PROVE  /\ Out(c) \in Seq(Cell)
         /\ m.zlib = "INIT" => Len(Out(c)) >= B
         /\ \A x \in CellsIn(Out(c)) :
               /\ x[1] # "header"
               /\ x[1] = "data" => x[2] = last /\ x[3] \in 1..(size[last] + c)
         /\ \A i \in 1..c : Data(last, size[last] + i) \in CellsIn(Out(c))
         /\ Len(Out(c)) <= GzHead + c
<1> DEFINE g == IF m.zlib = "INIT" THEN GzHead ELSE 0
           d == [i \in 1..c |-> Data(last, size[last] + i)]
           o == Pads(g) \o d
<1>1. g \in Nat /\ g <= GzHead /\ GzHead \in Nat /\ c \in Nat /\ GzHead + c >= B /\ size[last] \in Nat /\ B \in Nat
  BY CLoganAssumption DEF CoreInv, TypeOK
<1>2. \A i \in 1..c : /\ d[i] \in Cell /\ d[i][1] = "data" /\ d[i][2] = last
                     /\ d[i][3] \in 1..(size[last] + c) /\ d[i] = Data(last, size[last] + i)
  <2> SUFFICES ASSUME NEW i \in 1..c
               PROVE  /\ d[i] \in Cell /\ d[i][1] = "data" /\ d[i][2] = last
                      /\ d[i][3] \in 1..(size[last] + c) /\ d[i] = Data(last, size[last] + i)
    OBVIOUS
  <2>1. d[i] = Data(last, size[last] + i) /\ size[last] + i \in 1..(size[last] + c)
    BY <1>1
  <2>2. Data(last, size[last] + i)[3] = size[last] + i
    BY DEF Data
  <2> HIDE DEF d
  <2> QED
    BY <1>1, <2>1, <2>2, CellsAre
<1>3. d \in Seq(Cell) /\ Len(d) = c
  <2>1. DOMAIN d = 1..c /\ d \in [1..c -> Cell]
    BY <1>1, <1>2
  <2> HIDE DEF d
  <2> QED
    BY <1>1, <2>1
<1>4. m.zlib = "INIT" => g + c >= B
  BY <1>1
<1> HIDE DEF g, d
<1>5. Pads(g) \in Seq(Cell) /\ Len(Pads(g)) = g /\ \A i \in 1..g : Pads(g)[i] = Pad
  BY <1>1, PadsAre
<1>6. /\ o \in Seq(Cell) /\ Len(o) = g + c /\ DOMAIN o = 1..(g + c)
      /\ \A i \in 1..(g + c) : o[i] = IF i <= g THEN Pads(g)[i] ELSE d[i - g]
  <2> DEFINE t == Pads(g)
  <2> HIDE DEF t
  <2>1. t \in Seq(Cell) /\ Len(t) = g
    BY <1>5 DEF t
  <2>2. /\ t \o d \in Seq(Cell) /\ Len(t \o d) = Len(t) + Len(d)
        /\ \A i \in 1..Len(t) + Len(d) : (t \o d)[i] = IF i <= Len(t) THEN t[i] ELSE d[i - Len(t)]
    BY <1>3, <2>1, ConcatProperties
  <2>3. DOMAIN (t \o d) = 1..Len(t \o d)
    BY <2>2, LenProperties
  <2> QED
    BY <1>3, <2>1, <2>2, <2>3 DEF t
<1> HIDE DEF o
<1>7. ASSUME NEW i \in DOMAIN o
      PROVE  /\ o[i][1] # "header"
             /\ o[i][1] = "data" => o[i][2] = last /\ o[i][3] \in 1..(size[last] + c)
  <2>1. CASE i <= g
    <3>1. o[i] = Pad
      BY <1>1, <1>5, <1>6, <2>1
    <3> QED
      BY <3>1, CellsAre
  <2>2. CASE ~(i <= g)
    <3>1. i - g \in 1..c /\ o[i] = d[i - g]
      BY <1>1, <1>6, <2>2
    <3>2. d[i - g][1] = "data" /\ d[i - g][2] = last /\ d[i - g][3] \in 1..(size[last] + c)
      BY <1>2, <3>1
    <3> QED
      BY <3>1, <3>2
  <2> QED
    BY <2>1, <2>2
<1>8. ASSUME NEW i \in 1..c PROVE Data(last, size[last] + i) \in CellsIn(o)
  <2>1. g + i \in DOMAIN o /\ o[g + i] = d[i]
    BY <1>1, <1>6
  <2> QED
    BY <1>2, <2>1 DEF CellsIn
<1>9. Out(c) = o
  BY DEF Out, o, g, d
<1>10. Len(o) <= GzHead + c
  BY <1>1, <1>6
<1> QED
  BY <1>4, <1>6, <1>7, <1>8, <1>9, <1>10 DEF CellsIn

LEMMA CompressCore ==
  ASSUME CoreInv, Compress
  PROVE  CoreInv'
<1>1. /\ pc = "compress" /\ pc' = "total" /\ after' = "unit"
      /\ UNCHANGED <<files, away, mapped, ret, arg, secs, last, home, taken, lost, left>>
  BY DEF Compress, UpdateLength, disk
<1>2. last \in Lines /\ secs >= 1 /\ m.is_open_ok /\ ~Closed /\ Len(area) >= 1
  BY <1>1 DEF CoreInv, PhaseInv, Writing, Closed, LenInv
<1>3. size' \in [Lines -> Nat]
  <2>1. PICK n \in Nat : size' = [size EXCEPT ![last] = @ + n]
    BY CLoganAssumption DEF Compress
  <2>2. size \in [Lines -> Nat]
    BY DEF CoreInv, TypeOK
  <2>3. size[last] + n \in Nat
    BY <1>2, <2>2
  <2> QED
    BY <1>2, <2>1, <2>2, <2>3
<1>4. \E S : Grown(S)
  <2>1. CASE m.zlib \in {"INIT", "ING"}
    <3>1. PICK c \in CSizes : Blocks(Out(c))
      BY <2>1 DEF Compress, Out
    <3> QED
      BY <1>2, <3>1, Model, OutIs, BlocksGrow
  <2>2. CASE m.zlib \notin {"INIT", "ING"}
    <3>1. m' = [m EXCEPT !.zlib = "INIT"] /\ area' = area
      BY <2>2 DEF Compress
    <3>2. /\ m' \in ModelType /\ m'.total_len = m.total_len /\ m'.remain = m.remain
          /\ m'.path = m.path /\ m'.fp = m.fp /\ m'.is_open_ok = m.is_open_ok
      BY <3>1, Model DEF ModelType
    <3> DEFINE S == CellsIn(m.remain)
    <3>3. \A i \in 1..Len(m.remain) : m.remain[i] \in S
      BY Model, LenProperties DEF CellsIn, ModelType
    <3>4. Grown(S)
      BY <3>1, <3>2, <3>3, Model DEF Grown
    <3> QED
      BY <3>4
  <2> QED
    BY <2>1, <2>2
<1>5. PICK S : Grown(S)
  BY <1>4
<1>6. PhaseInv'
  BY <1>1, <1>2, <1>5 DEF PhaseInv, Writing, FlushFor, Flushing, Grown, CoreInv
<1>7. Len(area') >= 1
  BY <1>2, <1>5, Model, LenProperties DEF Grown
<1> QED
  BY <1>1, <1>2, <1>3, <1>5, <1>6, <1>7, GrownCore

LEMMA HeaderPut ==
  ASSUME CoreInv, NEW n \in Nat, n <= Len(area), NEW k \in Nat,
         area' = PutAt(area, n, <<Hdr(k)>>)
  PROVE  /\ area' \in Seq(Cell) /\ Len(area') \in Nat
         /\ Len(area') >= Len(area) /\ Len(area') >= n + 1
         /\ \A i \in 1..Len(area') :
               \/ i = n + 1 /\ area'[i][1] = "header" /\ area'[i] = Hdr(k)
               \/ i \in 1..Len(area) /\ i # n + 1 /\ area'[i] = area[i]
<1> DEFINE h == <<Hdr(k)>>
<1>1. h \in Seq(Cell) /\ Len(h) = 1 /\ h[1][1] = "header" /\ h[1] = Hdr(k)
  BY CellsAre
<1> HIDE DEF h
<1>2. /\ PutAt(area, n, h) \in Seq(Cell)
      /\ Len(PutAt(area, n, h)) >= Len(area)
      /\ Len(PutAt(area, n, h)) >= n + Len(h)
      /\ \A i \in 1..Len(PutAt(area, n, h)) :
            \/ i - n \in 1..Len(h) /\ PutAt(area, n, h)[i] = h[i - n]
            \/ /\ i \in 1..Len(area) /\ (i <= n \/ i > n + Len(h))
               /\ PutAt(area, n, h)[i] = area[i]
  <2>1. area \in Seq(Cell) /\ h \in Seq(Cell) /\ n \in Nat /\ n <= Len(area)
    BY <1>1, Model
  <2> HIDE DEF PutAt
  <2>2. \A s \in Seq(Cell), c \in Seq(Cell) : n <= Len(s) =>
           /\ PutAt(s, n, c) \in Seq(Cell)
           /\ Len(PutAt(s, n, c)) >= Len(s)
           /\ Len(PutAt(s, n, c)) >= n + Len(c)
           /\ \A i \in 1..Len(PutAt(s, n, c)) :
                 \/ i - n \in 1..Len(c) /\ PutAt(s, n, c)[i] = c[i - n]
                 \/ /\ i \in 1..Len(s) /\ (i <= n \/ i > n + Len(c))
                    /\ PutAt(s, n, c)[i] = s[i]
    BY PutAtIs
  <2> QED
    BY <2>1, <2>2
<1>3. area' = PutAt(area, n, h)
  BY DEF h
<1> HIDE DEF PutAt
<1>4. area' \in Seq(Cell) /\ Len(area') \in Nat /\ Len(area') >= Len(area) /\ Len(area') >= n + 1
  BY <1>1, <1>2, <1>3, LenProperties
<1>5. ASSUME NEW i \in 1..Len(area')
      PROVE  \/ i = n + 1 /\ area'[i][1] = "header" /\ area'[i] = Hdr(k)
             \/ i \in 1..Len(area) /\ i # n + 1 /\ area'[i] = area[i]
  BY <1>1, <1>2, <1>3
<1> QED
  BY <1>4, <1>5

LEMMA EndedCore ==
  ASSUME CoreInv, Ended, pc' # "flush"
  PROVE  CoreInv'
<1>1. /\ pc = "ended" /\ pc' = "section"
      /\ UNCHANGED <<disk, mapped, after, arg, secs, hist, left, ret>>
      /\ area' = PutAt(area, m.total_len, <<Hdr(0)>>)
      /\ m' = [m EXCEPT !.content_len = 0, !.remain = <<>>, !.zlib = "INIT",
                        !.hp = m.total_len + 1, !.total_len = @ + 1]
  BY DEF Ended, WriteOut
<1>2. m \in ModelType /\ m.total_len \in Nat /\ m.total_len <= Len(area)
  BY Model
<1>3. /\ area' \in Seq(Cell) /\ Len(area') \in Nat
      /\ Len(area') >= Len(area) /\ Len(area') >= m.total_len + 1
      /\ \A i \in 1..Len(area') :
               \/ i = m.total_len + 1 /\ area'[i][1] = "header"
               \/ i \in 1..Len(area) /\ i # m.total_len + 1 /\ area'[i] = area[i]
  BY <1>1, <1>2, HeaderPut
<1>4. /\ m' \in ModelType /\ m'.total_len = m.total_len + 1 /\ m'.remain = <<>>
      /\ m'.path = m.path /\ m'.fp = m.fp /\ m'.is_open_ok = m.is_open_ok
  <2>1. m' = [m EXCEPT !.content_len = 0, !.remain = <<>>, !.zlib = "INIT",
                       !.hp = m.total_len + 1, !.total_len = m.total_len + 1]
    BY <1>1
  <2>2. m.total_len + 1 \in Nat \ {0} /\ m.total_len + 1 \in Nat /\ <<>> \in Seq(Cell)
    BY <1>2
  <2> QED
    BY <1>2, <2>1, <2>2 DEF ModelType
<1> DEFINE S == {area'[m.total_len + 1]}
<1>5. Grown(S)
  BY <1>2, <1>3, <1>4 DEF Grown
<1> HIDE DEF S
<1>6. PhaseInv'
  BY <1>1, <1>4 DEF Writing, hist, PhaseInv, CoreInv, FlushFor, Flushing
<1>7. ~Closed /\ Len(area') >= 1
  BY <1>1, <1>2, <1>3 DEF Closed
<1>8. /\ UNCHANGED <<files, away, last, home, taken, lost, size>>
      /\ after' \in {"unit", "ended", "flushed", "cleared"} /\ size' \in [Lines -> Nat]
  BY <1>1 DEF disk, hist, CoreInv, TypeOK
<1> QED
  BY <1>1, <1>5, <1>6, <1>7, <1>8, GrownCore

\* The buffer is cut behind the total length, or behind its first cell.
LEMMA TotalIs ==
  ASSUME CoreInv, Total
  PROVE  \E n \in Nat : /\ n <= Len(area) /\ n >= 1 /\ n >= m.total_len
                        /\ area' = Upto(area, n)
<1> DEFINE n == IF m.total_len >= 1 THEN m.total_len ELSE 1
<1>1. m.total_len \in Nat /\ m.total_len <= Len(area) /\ Len(area) >= 1 /\ Len(area) \in Nat
  BY Model DEF CoreInv, LenInv, Total
<1>2. n \in {m.total_len, 1} /\ \A x \in {m.total_len, 1} : n >= x
  BY <1>1
<1>3. \A y \in {m.total_len, 1} : (\A x \in {m.total_len, 1} : y >= x) => y = n
  BY <1>1
<1>4. Max({m.total_len, 1}) = n
  BY <1>2, <1>3 DEF Max
<1>5. n \in Nat /\ n <= Len(area) /\ n >= 1 /\ n >= m.total_len
  BY <1>1
<1>6. area' = Upto(area, n)
  BY <1>4 DEF Total
<1> QED
  BY <1>5, <1>6

LEMMA TotalCore ==
  ASSUME CoreInv, Total
  PROVE  CoreInv'
<1>1. /\ pc = "total" /\ pc' = "len"
      /\ mapTotal' = IF mode = "MMAP" THEN m.total_len ELSE mapTotal
      /\ area' = Upto(area, Max({m.total_len, 1}))
      /\ UNCHANGED <<files, away, mapName, mapThere, mode, m, after, ret, arg, secs, last, size,
                     home, taken, lost, left>>
  BY DEF Total, disk, hist
<1>2. m \in ModelType /\ area \in Seq(Cell) /\ m.total_len \in Nat /\ m.total_len <= Len(area)
      /\ Len(area) >= 1 /\ Len(area) \in Nat
  BY <1>1, Model DEF CoreInv, LenInv
<1>3. PICK n \in Nat : /\ n <= Len(area) /\ n >= 1 /\ n >= m.total_len
                       /\ area' = Upto(area, n)
  BY TotalIs
<1>4. area' \in Seq(Cell) /\ Len(area') = n
  BY <1>1, <1>2, <1>3, UptoIs
<1>5. TypeOK'
  <2>1. TypeOK /\ mapTotal' \in Nat /\ area' \in Seq(Cell)
    BY <1>1, <1>2, <1>4 DEF CoreInv, TypeOK
  <2> QED
    <3>1. /\ mapName' \in Names \cup {None} /\ mapThere' \in BOOLEAN /\ mode' \in {"MMAP", "MEMORY"}
          /\ after' \in {"unit", "ended", "flushed", "cleared"}
          /\ ret' \in {"idle", "section", "open", "close"} /\ arg' \in Names \cup {None}
          /\ secs' \in 0..MaxSections
      BY <1>1, <2>1 DEF TypeOK
    <3>2. /\ last' \in 0..MaxWrites /\ size' \in [Lines -> Nat] /\ taken' \subseteq Lines
          /\ home' \in [Lines -> Names \cup {None}] /\ lost' \in [Causes -> SUBSET Lines]
      BY <1>1, <2>1 DEF TypeOK
    <3>3. m' \in ModelType
      BY <1>1, <2>1 DEF TypeOK, ModelType
    <3>4. /\ files' \in [Names -> Seq(Cell) \cup {None}] /\ away' \in [Names -> Seq(Cell)]
          /\ left' \in [Events -> Nat] /\ mapTotal' \in Nat /\ area' \in Seq(Cell)
      BY <1>1, <2>1 DEF TypeOK
    <3> QED
      BY <1>1, <3>1, <3>2, <3>3, <3>4 DEF TypeOK, ModelType
<1>6. PhaseInv'
  BY <1>1 DEF PhaseInv, Writing, FlushFor, Flushing, CoreInv
<1>7. LenInv'
  BY <1>1, <1>2, <1>3, <1>4 DEF LenInv, CoreInv
<1>8. LinkInv'
  BY <1>1 DEF LinkInv, Closed, CoreInv
<1> QED
  BY <1>5, <1>6, <1>7, <1>8 DEF CoreInv

LEMMA ClearCore ==
  ASSUME CoreInv, Clear
  PROVE  CoreInv'
<1>1. /\ pc = "clear" /\ pc' = "total" /\ after' = "cleared"
      /\ m' = [m EXCEPT !.total_len = 0, !.zlib = IF @ = "END" THEN "INIT" ELSE @,
                      !.remain = <<>>, !.content_len = 0, !.hp = 1]
      /\ area' = PutAt(area, 0, <<Hdr(0)>>)
      /\ UNCHANGED <<files, away, mapped, ret, arg, secs, last, size, home, taken, lost, left>>
  BY DEF Clear, UpdateLength, disk, hist
<1>2. m \in ModelType /\ area \in Seq(Cell) /\ Len(area) \in Nat
  BY Model
<1>3. area' \in Seq(Cell) /\ Len(area') \in Nat /\ Len(area') >= Len(area) /\ Len(area') >= 1
  BY <1>1, <1>2, HeaderPut
<1>4. /\ m' \in ModelType /\ m'.total_len = 0
      /\ m'.path = m.path /\ m'.fp = m.fp /\ m'.is_open_ok = m.is_open_ok
  <2>1. PICK z \in {"NONE", "INIT", "ING", "END"} :
           m' = [m EXCEPT !.total_len = 0, !.zlib = z, !.remain = <<>>, !.content_len = 0, !.hp = 1]
    BY <1>1, <1>2 DEF ModelType
  <2>2. <<>> \in Seq(Cell) /\ 0 \in Nat /\ 1 \in Nat \ {0}
    OBVIOUS
  <2> QED
    BY <1>2, <2>1, <2>2 DEF ModelType
<1>5. TypeOK'
  BY <1>1, <1>3, <1>4 DEF CoreInv, TypeOK, ModelType, mapped
<1>6. PhaseInv'
  BY <1>1, <1>4 DEF PhaseInv, Writing, FlushFor, Flushing, CoreInv
<1>7. LenInv'
  BY <1>1, <1>2, <1>3, <1>4 DEF LenInv, CoreInv, TypeOK, mapped
<1>8. LinkInv'
  BY <1>1, <1>4 DEF LinkInv, Closed, CoreInv, mapped
<1> QED
  BY <1>5, <1>6, <1>7, <1>8 DEF CoreInv

LEMMA ClearedCore ==
  ASSUME CoreInv, Cleared
  PROVE  CoreInv'
<1>1. /\ pc = "cleared" /\ pc' = ret /\ m' = [m EXCEPT !.total_len = 1]
      /\ UNCHANGED <<files, away, area, mapped, after, ret, arg, secs, last, size, home, taken,
                     lost, left>>
  BY DEF Cleared, disk, hist
<1>2. m \in ModelType /\ area \in Seq(Cell) /\ Len(area) \in Nat /\ Len(area) >= 1
  BY <1>1, Model DEF CoreInv, LenInv
<1>3. /\ m' \in ModelType /\ m'.total_len = 1
      /\ m'.path = m.path /\ m'.fp = m.fp /\ m'.is_open_ok = m.is_open_ok
  BY <1>1, <1>2 DEF ModelType
<1>4. ret \in {"idle", "section", "open", "close"}
  BY DEF CoreInv, TypeOK
<1>5. TypeOK'
  BY <1>1, <1>3, <1>4 DEF CoreInv, TypeOK, ModelType, mapped
<1>6. PhaseInv'
  BY <1>1, <1>3, <1>4 DEF PhaseInv, Writing, FlushFor, Flushing, CoreInv
<1>7. LenInv'
  BY <1>1, <1>2, <1>3, <1>4 DEF LenInv, CoreInv, mapped
<1>8. LinkInv'
  BY <1>1, <1>3, <1>4 DEF LinkInv, Closed, CoreInv, mapped
<1> QED
  BY <1>5, <1>6, <1>7, <1>8 DEF CoreInv

LEMMA LoseIs ==
  ASSUME TypeOK, NEW cause \in Causes, NEW W \in SUBSET Lines, Lose(cause, W)
  PROVE  lost' \in [Causes -> SUBSET Lines]
<1> DEFINE U == W \ UNION {Stored(p) : p \in Names}
<1>1. U \subseteq Lines /\ lost' = [lost EXCEPT ![cause] = @ \cup U]
  BY DEF Lose
<1> HIDE DEF U
<1> QED
  BY <1>1 DEF TypeOK

\* A file that is there grows by cells.
LEMMA AppendedIs ==
  ASSUME NEW f \in [Names -> Seq(Cell) \cup {None}], NEW p \in Names, f[p] # None,
         NEW cells \in Seq(Cell)
  PROVE  /\ [f EXCEPT ![p] = @ \o cells] \in [Names -> Seq(Cell) \cup {None}]
         /\ [f EXCEPT ![p] = @ \o cells][p] # None
<1>1. f[p] \in Seq(Cell)
  OBVIOUS
<1>2. f[p] \o cells \in Seq(Cell)
  BY <1>1, ConcatProperties
<1>3. f[p] \o cells # None
  BY <1>2, NoneAssumption
<1> DEFINE g == f[p] \o cells
<1>4. [f EXCEPT ![p] = @ \o cells] = [f EXCEPT ![p] = g]
  OBVIOUS
<1> HIDE DEF g
<1> QED
  BY <1>2, <1>3, <1>4 DEF g

\* The header, the padding and the tail that an empty file begins with
LEMMA HeadIs == <<Hdr(B)>> \o Pads(B) \o <<End>> \in Seq(Cell)
<1>1. B \in Nat
  BY CLoganAssumption
<1>2. <<Hdr(B)>> \in Seq(Cell) /\ Pads(B) \in Seq(Cell) /\ <<End>> \in Seq(Cell)
  BY <1>1, CellsAre, PadsAre
<1> DEFINE h == <<Hdr(B)>>
           t == Pads(B)
           e == <<End>>
<1> HIDE DEF h, t, e
<1>3. h \o t \o e \in Seq(Cell)
  BY <1>2, ConcatProperties DEF h, t, e
<1> QED
  BY <1>3 DEF h, t, e

LEMMA DestCore ==
  ASSUME CoreInv, Dest
  PROVE  CoreInv'
<1> DEFINE p    == m.path
           mm   == IF Exists(p) THEN m ELSE Opened(m, p)
           unit == <<Hdr(B)>> \o Pads(B) \o <<End>>
<1>1. /\ pc = "dest" /\ pc' = "put"
      /\ UNCHANGED <<away, area, mapped, after, ret, arg, secs, last, size, home, taken, lost, left>>
      /\ \/ /\ mm.file_len = 0
            /\ files' = [Created(p) EXCEPT ![p] = @ \o unit]
            /\ m' = [mm EXCEPT !.file_len = Len(unit)]
         \/ mm.file_len # 0 /\ files' = files /\ m' = mm
  BY DEF Dest, hist
<1>2. p \in Names /\ m.fp = p /\ (mode = "MMAP" => mapName = p)
  BY <1>1 DEF CoreInv, LinkInv, Closed
<1>3. /\ mm \in ModelType /\ mm.path = p /\ mm.fp = p /\ mm.total_len = m.total_len
      /\ mm.is_open_ok = m.is_open_ok /\ (~Exists(p) => mm.file_len = 0)
  BY <1>2, Model, OpenedIs DEF CoreInv
<1>4. unit \in Seq(Cell) /\ Len(unit) \in Nat
  BY HeadIs, LenProperties
<1> HIDE DEF mm, unit
<1>5. /\ m' \in ModelType /\ m'.path = p /\ m'.fp = p /\ m'.total_len = m.total_len
      /\ m'.is_open_ok = m.is_open_ok
  BY <1>1, <1>3, <1>4 DEF ModelType
<1>6. files' \in [Names -> Seq(Cell) \cup {None}] /\ files'[p] # None
  <2>1. CASE files' = [Created(p) EXCEPT ![p] = @ \o unit]
    <3> DEFINE f == Created(p)
    <3>1. f \in [Names -> Seq(Cell) \cup {None}] /\ f[p] # None
      BY <1>2, CreatedIs DEF CoreInv
    <3> HIDE DEF f
    <3>2. files' = [f EXCEPT ![p] = @ \o unit]
      BY <2>1 DEF f
    <3> HIDE DEF p
    <3> QED
      BY <1>2, <1>4, <3>1, <3>2, AppendedIs
  <2>2. CASE mm.file_len # 0 /\ files' = files
    BY <1>2, <1>3, <2>2 DEF CoreInv, TypeOK, Exists
  <2> QED
    BY <1>1, <2>1, <2>2
<1>7. TypeOK'
  BY <1>1, <1>5, <1>6 DEF CoreInv, TypeOK, ModelType, mapped
<1>8. PhaseInv'
  BY <1>1, <1>5 DEF PhaseInv, Writing, FlushFor, Flushing, CoreInv
<1>9. LenInv'
  BY <1>1, <1>5 DEF LenInv, CoreInv, mapped
<1>10. LinkInv'
  <2>1. p # None
    BY <1>2, CLoganAssumption
  <2> QED
    BY <1>1, <1>2, <1>5, <1>6, <2>1 DEF LinkInv, Closed, mapped, Exists
<1> QED
  BY <1>7, <1>8, <1>9, <1>10 DEF CoreInv

LEMMA PutOutCore ==
  ASSUME CoreInv, PutOut
  PROVE  CoreInv' /\ UNCHANGED away
<1>1. /\ pc = "put" /\ pc' = "clear"
      /\ UNCHANGED <<area, mapped, after, ret, arg, secs, last, size, home, taken, lost, left>>
      /\ m' = [m EXCEPT !.file_len = @ + m.total_len]
  BY DEF PutOut, hist
<1>2. Exists(m.fp) /\ m.path \in Names /\ m.fp = m.path /\ (mode = "MMAP" => mapName = m.path)
  BY <1>1 DEF CoreInv, LinkInv, Closed
<1>3. UNCHANGED away /\ files' = [files EXCEPT ![m.fp] = @ \o Upto(area, m.total_len)]
  BY <1>2 DEF PutOut, Appended
<1>4. /\ m' \in ModelType /\ m'.path = m.path /\ m'.fp = m.fp /\ m'.total_len = m.total_len
      /\ m'.is_open_ok = m.is_open_ok
  <2>1. m \in ModelType /\ m.file_len + m.total_len \in Nat
    BY Model DEF ModelType
  <2>2. m' = [m EXCEPT !.file_len = m.file_len + m.total_len]
    BY <1>1
  <2> QED
    BY <2>1, <2>2 DEF ModelType
<1>5. files' \in [Names -> Seq(Cell) \cup {None}]
  <2> DEFINE c == Upto(area, m.total_len)
  <2>1. c \in Seq(Cell)
    BY Model, UptoIs
  <2> HIDE DEF c
  <2>2. files' = [files EXCEPT ![m.path] = @ \o c]
    BY <1>2, <1>3 DEF c
  <2> QED
    BY <1>2, <2>1, <2>2, AppendedIs DEF CoreInv, TypeOK, Exists
<1>6. TypeOK'
  BY <1>1, <1>3, <1>4, <1>5 DEF CoreInv, TypeOK, ModelType, mapped
<1>7. PhaseInv'
  BY <1>1, <1>4 DEF PhaseInv, Writing, FlushFor, Flushing, CoreInv
<1>8. LenInv'
  BY <1>1, <1>4 DEF LenInv, CoreInv, mapped
<1>9. LinkInv'
  BY <1>1, <1>2, <1>4 DEF LinkInv, Closed, mapped
<1> QED
  BY <1>3, <1>6, <1>7, <1>8, <1>9 DEF CoreInv

LEMMA RecoveredCore ==
  ASSUME CoreInv, Recovered
  PROVE  CoreInv'
<1>1. /\ pc = "close" /\ pc' = "idle"
      /\ UNCHANGED <<files, away, area, mapped, after, ret, arg, secs, last, size, home, taken,
                     lost, left>>
      /\ m' = [m EXCEPT !.stream = "CLOSE", !.total_len = 0, !.path = None]
  BY DEF Recovered, disk, hist
<1>2. ~m.is_open_ok /\ m \in ModelType /\ Len(area) \in Nat
  BY <1>1, Model DEF CoreInv, PhaseInv
<1>3. m' \in ModelType /\ m'.total_len = 0 /\ ~m'.is_open_ok
  BY <1>1, <1>2 DEF ModelType
<1>4. TypeOK'
  BY <1>1, <1>3 DEF CoreInv, TypeOK, ModelType, mapped
<1>5. PhaseInv'
  BY <1>1 DEF PhaseInv, Writing, FlushFor, Flushing
<1>6. LenInv'
  BY <1>1, <1>2, <1>3 DEF LenInv, CoreInv, mapped
<1>7. LinkInv'
  BY <1>1, <1>3 DEF LinkInv, Closed
<1> QED
  BY <1>4, <1>5, <1>6, <1>7 DEF CoreInv

LEMMA InitCallCore ==
  ASSUME CoreInv, clogan_init
  PROVE  CoreInv'
<1>1. /\ pc = "down" /\ mapThere' = TRUE /\ mode' = "MMAP"
      /\ UNCHANGED <<away, area, mapName, mapTotal, after, arg, secs, last, size, home, taken>>
  BY DEF clogan_init
<1>2. /\ mapTotal \in Nat /\ mapTotal <= Len(area) /\ Len(area) \in Nat
      /\ mapName \in Names \cup {None}
  BY <1>1, Model DEF CoreInv, LenInv, TypeOK
<1>3. CASE /\ mapName # None
           /\ files' = Created(mapName)
           /\ m' = [Opened(Fresh, mapName) EXCEPT !.total_len = mapTotal]
           /\ pc' = "flush" /\ ret' = "close"
           /\ UNCHANGED <<lost, left>>
  <2> DEFINE o == Opened(Fresh, mapName)
  <2>1. /\ o \in ModelType /\ o.path = mapName /\ o.fp = mapName /\ ~o.is_open_ok
        /\ Created(mapName) \in [Names -> Seq(Cell) \cup {None}]
    BY <1>2, FreshIs, OpenedIs, CreatedIs DEF CoreInv
  <2> HIDE DEF o
  <2>2. m' = [o EXCEPT !.total_len = mapTotal]
    BY <1>3 DEF o
  <2>3. /\ m' \in ModelType /\ m'.path = mapName /\ m'.fp = mapName /\ ~m'.is_open_ok
        /\ m'.total_len = mapTotal
    BY <1>2, <2>1, <2>2 DEF ModelType
  <2>4. TypeOK'
    BY <1>1, <1>3, <2>1, <2>3 DEF CoreInv, TypeOK, ModelType
  <2>5. PhaseInv'
    BY <1>3, <2>3 DEF PhaseInv, Writing, FlushFor, Flushing
  <2>6. LenInv'
    BY <1>1, <1>2, <1>3, <2>3 DEF LenInv
  <2>7. LinkInv'
    BY <1>1, <1>2, <1>3, <2>3 DEF LinkInv
  <2> QED
    BY <2>4, <2>5, <2>6, <2>7 DEF CoreInv
<1>4. CASE /\ m' = Fresh /\ pc' = "idle" /\ UNCHANGED <<files, ret>>
           /\ lost' \in [Causes -> SUBSET Lines] /\ left' \in [Events -> Nat]
  <2>1. m' \in ModelType /\ m'.total_len = 0 /\ ~m'.is_open_ok
    BY <1>4, FreshIs
  <2>2. TypeOK'
    BY <1>1, <1>4, <2>1 DEF CoreInv, TypeOK, ModelType
  <2>3. PhaseInv'
    BY <1>4 DEF PhaseInv, Writing, FlushFor, Flushing
  <2>4. LenInv'
    BY <1>1, <1>2, <1>4, <2>1 DEF LenInv
  <2>5. LinkInv'
    BY <1>4, <2>1 DEF LinkInv, Closed
  <2> QED
    BY <2>2, <2>3, <2>4, <2>5 DEF CoreInv
<1>5. CASE Fails /\ m' = Fresh /\ pc' = "idle" /\ UNCHANGED <<files, ret>>
           /\ LET W == LinesIn(Upto(area, mapTotal))
              IN  lost' = [lost EXCEPT !["stray"] = @ \cup W,
                                       !["unrecovered"] = @ \cup (W \ UNION {Stored(p) : p \in Names})]
  <2>1. left' \in [Events -> Nat]
    BY <1>5, SpentIs DEF Fails, Events, CoreInv
  <2> DEFINE W == LinesIn(Upto(area, mapTotal))
             U == W \ UNION {Stored(p) : p \in Names}
  <2>2. W \subseteq Lines /\ U \subseteq Lines
    BY DEF LinesIn
  <2>3. lost' = [lost EXCEPT !["stray"] = @ \cup W, !["unrecovered"] = @ \cup U]
    BY <1>5
  <2> HIDE DEF W, U
  <2>4. lost' \in [Causes -> SUBSET Lines]
    BY <2>2, <2>3 DEF CoreInv, TypeOK
  <2> QED
    BY <1>4, <1>5, <2>1, <2>4
<1>6. \/ /\ mapName # None
         /\ files' = Created(mapName)
         /\ m' = [Opened(Fresh, mapName) EXCEPT !.total_len = mapTotal]
         /\ pc' = "flush" /\ ret' = "close"
         /\ UNCHANGED <<lost, left>>
      \/ /\ Fails /\ m' = Fresh /\ pc' = "idle" /\ UNCHANGED <<files, ret>>
         /\ LET W == LinesIn(Upto(area, mapTotal))
            IN  lost' = [lost EXCEPT !["stray"] = @ \cup W,
                                     !["unrecovered"] = @ \cup (W \ UNION {Stored(p) : p \in Names})]
      \/ /\ m' = Fresh /\ pc' = "idle" /\ UNCHANGED <<files, ret>>
         /\ lost' = lost /\ left' = left
  BY DEF clogan_init
<1>7. lost \in [Causes -> SUBSET Lines] /\ left \in [Events -> Nat]
  BY DEF CoreInv, TypeOK
<1> QED
  BY <1>3, <1>4, <1>5, <1>6, <1>7

LEMMA OpenFileCore ==
  ASSUME CoreInv, OpenFile
  PROVE  CoreInv'
<1>1. /\ pc = "open" /\ pc' = "idle"
      /\ UNCHANGED <<away, mapTotal, mapThere, mode, after, ret, arg, secs, last, size, home, taken,
                     lost>>
  BY DEF OpenFile, hist
<1>2. arg \in Names /\ m \in ModelType /\ area \in Seq(Cell) /\ Len(area) \in Nat
  BY <1>1, Model DEF CoreInv, PhaseInv
<1>3. CASE /\ files' = Created(arg)
           /\ m' = [Opened(m, arg) EXCEPT !.zlib = "INIT", !.total_len = 1, !.hp = 1,
                                          !.is_open_ok = TRUE]
           /\ mapName' = IF mode = "MMAP" THEN arg ELSE mapName
           /\ area' = PutAt(area, 0, <<Hdr(0)>>)
           /\ UNCHANGED left
  <2> DEFINE o == Opened(m, arg)
  <2>1. /\ o \in ModelType /\ o.path = arg /\ o.fp = arg
        /\ Created(arg) \in [Names -> Seq(Cell) \cup {None}]
    BY <1>2, OpenedIs, CreatedIs DEF CoreInv
  <2> HIDE DEF o
  <2>2. m' = [o EXCEPT !.zlib = "INIT", !.total_len = 1, !.hp = 1, !.is_open_ok = TRUE]
    BY <1>3 DEF o
  <2>3. m' \in ModelType /\ m'.path = arg /\ m'.fp = arg /\ m'.total_len = 1
    <3>1. 1 \in Nat /\ 1 \in Nat \ {0} /\ TRUE \in BOOLEAN
      OBVIOUS
    <3> QED
      BY <2>1, <2>2, <3>1 DEF ModelType
  <2>4. area' \in Seq(Cell) /\ Len(area') \in Nat /\ Len(area') >= Len(area) /\ Len(area') >= 1
    BY <1>2, <1>3, HeaderPut
  <2>5. TypeOK'
    BY <1>1, <1>2, <1>3, <2>1, <2>3, <2>4 DEF CoreInv, TypeOK, ModelType
  <2>6. PhaseInv'
    BY <1>1 DEF PhaseInv, Writing, FlushFor, Flushing
  <2>7. LenInv'
    BY <1>1, <1>2, <2>3, <2>4 DEF LenInv, CoreInv, TypeOK
  <2>8. LinkInv'
    BY <1>1, <1>2, <1>3, <2>3 DEF LinkInv
  <2> QED
    BY <2>5, <2>6, <2>7, <2>8 DEF CoreInv
<1>4. CASE /\ Fails
           /\ m' = [m EXCEPT !.path = arg, !.stream = "NONE", !.total_len = 0, !.is_open_ok = FALSE]
           /\ UNCHANGED <<files, mapName, area>>
  <2>1. m' \in ModelType /\ m'.total_len = 0 /\ ~m'.is_open_ok
    BY <1>2, <1>4 DEF ModelType
  <2>2. left' \in [Events -> Nat]
    BY <1>4, SpentIs DEF Fails, Events, CoreInv
  <2>3. TypeOK'
    BY <1>1, <1>4, <2>1, <2>2 DEF CoreInv, TypeOK, ModelType
  <2>4. PhaseInv'
    BY <1>1 DEF PhaseInv, Writing, FlushFor, Flushing
  <2>5. LenInv'
    BY <1>1, <1>2, <1>4, <2>1 DEF LenInv, CoreInv
  <2>6. LinkInv'
    BY <1>1, <2>1 DEF LinkInv, Closed
  <2> QED
    BY <2>3, <2>4, <2>5, <2>6 DEF CoreInv
<1> QED
  BY <1>3, <1>4 DEF OpenFile

LEMMA WriteCore ==
  ASSUME CoreInv, clogan_write
  PROVE  CoreInv'
<1> DEFINE p    == m.path
           mm   == IF Exists(p) THEN m ELSE Opened(m, p)
<1>1. /\ pc = "idle" /\ pc' = "compress" /\ last < MaxWrites /\ m.is_open_ok
      /\ last' = last + 1 /\ home' = [home EXCEPT ![last + 1] = p] /\ secs' \in 1..MaxSections
      /\ files' = Created(p)
      /\ UNCHANGED <<away, mapName, mapTotal, mapThere, after, ret, arg, size, taken, left>>
      /\ \/ /\ mode' = "MEMORY"
            /\ area' = <<Hdr(0)>>
            /\ m' = [mm EXCEPT !.total_len = 1, !.content_len = 0, !.remain = <<>>,
                               !.hp = 1, !.zlib = "INIT"]
            /\ Lose("dropped", LinesIn(Upto(area, m.total_len) \o m.remain))
         \/ m' = mm /\ UNCHANGED <<mode, area, lost>>
  BY DEF clogan_write
<1>2. p \in Names /\ m.fp = p /\ (mode = "MMAP" => mapName = p)
  BY <1>1 DEF CoreInv, LinkInv, Closed
<1>3. /\ mm \in ModelType /\ mm.path = p /\ mm.fp = p /\ mm.total_len = m.total_len
      /\ mm.is_open_ok
  BY <1>1, <1>2, Model, OpenedIs DEF CoreInv
<1>4. files' \in [Names -> Seq(Cell) \cup {None}]
  BY <1>1, <1>2, CreatedIs DEF CoreInv
<1> HIDE DEF mm
<1>5. last' \in 0..MaxWrites /\ last' \in Lines /\ home' \in [Lines -> Names \cup {None}]
      /\ secs' \in 0..MaxSections /\ secs' >= 1
  <2>1. last \in Nat /\ MaxWrites \in Nat /\ MaxSections \in Nat
    BY CLoganAssumption DEF CoreInv, TypeOK
  <2>2. last + 1 \in 0..MaxWrites /\ last + 1 \in Lines
    BY <1>1, <2>1 DEF Lines
  <2> QED
    <3>1. secs' \in 1..MaxSections /\ last' = last + 1 /\ home' = [home EXCEPT ![last + 1] = p]
      BY <1>1
    <3>2. home \in [Lines -> Names \cup {None}]
      BY DEF CoreInv, TypeOK
    <3>3. home' \in [Lines -> Names \cup {None}]
      BY <1>2, <2>2, <3>1, <3>2
    <3> QED
      BY <2>1, <2>2, <3>1, <3>3
<1>6. /\ m' \in ModelType /\ m'.path = p /\ m'.fp = p /\ m'.is_open_ok
      /\ area' \in Seq(Cell) /\ m'.total_len <= Len(area') /\ Len(area') >= 1
      /\ mode' = "MEMORY" \/ (mode' = mode /\ area' = area)
      /\ lost' \in [Causes -> SUBSET Lines] /\ mode' \in {"MMAP", "MEMORY"}
  <2>1. CASE /\ mode' = "MEMORY"
             /\ area' = <<Hdr(0)>>
             /\ m' = [mm EXCEPT !.total_len = 1, !.content_len = 0, !.remain = <<>>,
                                !.hp = 1, !.zlib = "INIT"]
             /\ Lose("dropped", LinesIn(Upto(area, m.total_len) \o m.remain))
    <3>1. <<>> \in Seq(Cell) /\ 0 \in Nat /\ 1 \in Nat \ {0}
      OBVIOUS
    <3>2. /\ m' \in ModelType /\ m'.path = p /\ m'.fp = p /\ m'.is_open_ok
          /\ m'.total_len = 1
      BY <1>3, <2>1, <3>1 DEF ModelType
    <3>3. area' \in Seq(Cell) /\ Len(area') = 1
      BY <2>1, CellsAre
    <3>4. lost' \in [Causes -> SUBSET Lines]
      BY <2>1, LoseIs DEF LinesIn, CoreInv, Causes
    <3> QED
      BY <2>1, <3>2, <3>3, <3>4
  <2>2. CASE m' = mm /\ UNCHANGED <<mode, area, lost>>
    BY <1>1, <1>3, <2>2, Model DEF CoreInv, TypeOK, LenInv
  <2> QED
    BY <1>1, <2>1, <2>2
<1>7. TypeOK'
  BY <1>1, <1>4, <1>5, <1>6 DEF CoreInv, TypeOK, ModelType
<1>8. PhaseInv'
  BY <1>1, <1>5, <1>6 DEF PhaseInv, FlushFor, Flushing
<1>9. LenInv'
  BY <1>1, <1>6 DEF LenInv, CoreInv
<1>10. LinkInv'
  BY <1>1, <1>2, <1>6 DEF LinkInv
<1> QED
  BY <1>7, <1>8, <1>9, <1>10 DEF CoreInv

LEMMA CrashCore ==
  ASSUME CoreInv, Crash
  PROVE  CoreInv'
<1>1. /\ pc # "down" /\ pc' = "down" /\ secs' = 0 /\ m' = Fresh
      /\ UNCHANGED <<files, away, mapName, mapThere, mode, after, ret, arg, last, size, home, taken>>
      /\ \/ /\ mode = "MMAP" /\ area' = Upto(area, mapTotal) /\ mapTotal' = mapTotal
            /\ Lose("cut", {c[2] : c \in AtRisk})
         \/ /\ area' = <<>> /\ mapTotal' = 0
            /\ Lose("dropped", LinesIn(Upto(area, m.total_len) \o m.remain))
  BY DEF Crash, disk
<1>2. left' \in [Events -> Nat]
  BY SpentIs DEF Crash, Spend, Events, CoreInv
<1>3. area' \in Seq(Cell) /\ Len(area') \in Nat /\ mapTotal' \in Nat /\ mapTotal' <= Len(area')
      /\ lost' \in [Causes -> SUBSET Lines]
  <2>1. CASE /\ mode = "MMAP" /\ area' = Upto(area, mapTotal) /\ mapTotal' = mapTotal
             /\ Lose("cut", {c[2] : c \in AtRisk})
    <3>1. mapTotal \in Nat /\ mapTotal <= Len(area) /\ area \in Seq(Cell)
      BY <2>1 DEF CoreInv, TypeOK, LenInv
    <3>2. area' \in Seq(Cell) /\ Len(area') = mapTotal
      BY <2>1, <3>1, UptoIs
    <3>3. {c[2] : c \in AtRisk} \in SUBSET Lines
      <4>1. taken \subseteq Lines
        BY DEF CoreInv, TypeOK
      <4>2. \A c \in AtRisk : \E w \in taken : \E k : c = Data(w, k)
        BY DEF AtRisk
      <4>3. \A w, k : Data(w, k)[2] = w
        BY DEF Data
      <4> QED
        BY <4>1, <4>2, <4>3
    <3>4. lost' \in [Causes -> SUBSET Lines]
      BY <2>1, <3>3, LoseIs DEF CoreInv, Causes
    <3> QED
      BY <2>1, <3>1, <3>2, <3>4
  <2>2. CASE /\ area' = <<>> /\ mapTotal' = 0
             /\ Lose("dropped", LinesIn(Upto(area, m.total_len) \o m.remain))
    <3>1. LinesIn(Upto(area, m.total_len) \o m.remain) \in SUBSET Lines
      BY DEF LinesIn
    <3>2. lost' \in [Causes -> SUBSET Lines]
      BY <2>2, <3>1, LoseIs DEF CoreInv, Causes
    <3> QED
      BY <2>2, <3>2
  <2> QED
    BY <1>1, <2>1, <2>2
<1>4. m' \in ModelType /\ m'.total_len = 0 /\ ~m'.is_open_ok
  BY <1>1, FreshIs
<1>5. 0 \in 0..MaxSections
  BY CLoganAssumption
<1>6. TypeOK'
  BY <1>1, <1>2, <1>3, <1>4, <1>5 DEF CoreInv, TypeOK, ModelType
<1>7. PhaseInv'
  BY <1>1 DEF PhaseInv, Writing, FlushFor, Flushing
<1>8. LenInv'
  BY <1>1, <1>3, <1>4 DEF LenInv
<1>9. LinkInv'
  BY <1>1, <1>4 DEF LinkInv, Closed
<1> QED
  BY <1>6, <1>7, <1>8, <1>9 DEF CoreInv

LEMMA MoveAwayCore ==
  ASSUME CoreInv, NEW p \in Names, MoveAway(p)
  PROVE  /\ CoreInv' /\ Exists(p) /\ files'[p] = None
         /\ \A q \in Names : q # p => away'[q] = away[q]
<1>1. /\ pc = "idle" /\ Exists(p)
      /\ away' = [away EXCEPT ![p] = @ \o files[p]]
      /\ files' = [files EXCEPT ![p] = None]
      /\ UNCHANGED <<area, mapped, m, pc, after, ret, arg, secs, last, size, home, taken, lost>>
  BY DEF MoveAway, ctl, hist
<1>2. left' \in [Events -> Nat]
  BY SpentIs DEF MoveAway, Spend, Events, CoreInv
<1>3. away' \in [Names -> Seq(Cell)] /\ files' \in [Names -> Seq(Cell) \cup {None}]
  <2>1. files[p] \in Seq(Cell) /\ away[p] \in Seq(Cell)
    BY <1>1 DEF CoreInv, TypeOK, Exists
  <2>2. away[p] \o files[p] \in Seq(Cell)
    BY <2>1, ConcatProperties
  <2> DEFINE c == away[p] \o files[p]
  <2>3. away' = [away EXCEPT ![p] = c]
    BY <1>1
  <2> HIDE DEF c
  <2> QED
    <3>1. /\ away \in [Names -> Seq(Cell)] /\ files \in [Names -> Seq(Cell) \cup {None}]
          /\ files' = [files EXCEPT ![p] = None] /\ c \in Seq(Cell)
      BY <1>1, <2>2 DEF CoreInv, TypeOK, c
    <3> QED
      BY <2>3, <3>1
<1>4. TypeOK'
  <2>1. TypeOK
    BY DEF CoreInv
  <2> QED
    <3>1. /\ mapName' \in Names \cup {None} /\ mapThere' \in BOOLEAN /\ mode' \in {"MMAP", "MEMORY"}
          /\ after' \in {"unit", "ended", "flushed", "cleared"}
          /\ ret' \in {"idle", "section", "open", "close"} /\ arg' \in Names \cup {None}
          /\ secs' \in 0..MaxSections
      BY <1>1, <2>1 DEF TypeOK, mapped
    <3>2. /\ last' \in 0..MaxWrites /\ size' \in [Lines -> Nat] /\ taken' \subseteq Lines
          /\ home' \in [Lines -> Names \cup {None}] /\ lost' \in [Causes -> SUBSET Lines]
      BY <1>1, <2>1 DEF TypeOK
    <3>3. m' \in ModelType
      BY <1>1, <2>1 DEF TypeOK, ModelType
    <3>4. mapTotal' \in Nat /\ area' \in Seq(Cell)
      BY <1>1, <2>1 DEF TypeOK, mapped
    <3> QED
      BY <1>1, <1>2, <1>3, <3>1, <3>2, <3>3, <3>4 DEF TypeOK, ModelType
<1>5. PhaseInv'
  BY <1>1 DEF PhaseInv, Writing, FlushFor, Flushing, CoreInv
<1>6. LenInv'
  BY <1>1 DEF LenInv, CoreInv, mapped
<1>7. LinkInv'
  BY <1>1 DEF LinkInv, Closed, CoreInv, mapped
<1> QED
  BY <1>1, <1>4, <1>5, <1>6, <1>7 DEF CoreInv, TypeOK

LEMMA LengthsAre == \A c \in Cell : c[2] \in Nat
BY DEF Cell, Lines

LEMMA MixedIs == \A x, y \in Nat : Mixed(x, y) \subseteq Nat
<1> SUFFICES ASSUME NEW x \in Nat, NEW y \in Nat, NEW q \in Nat, q >= 1
             PROVE  ((x \div q) * q) + (y % q) \in Nat
  <2>1. Byte \in Nat /\ Byte * Byte \in Nat /\ Byte * Byte * Byte \in Nat
        /\ Byte >= 1 /\ Byte * Byte >= 1 /\ Byte * Byte * Byte >= 1
    BY ByteAssumption
  <2> QED
    BY <2>1 DEF Mixed
<1> DEFINE d == x \div q
<1>1. d \in Nat /\ y % q \in Nat
  OBVIOUS
<1> HIDE DEF d
<1>2. d * q \in Nat
  BY <1>1
<1> QED
  BY <1>1, <1>2 DEF d

\* The process ends within a step.
LEMMA TearIs ==
  ASSUME CoreInv, Tear
  PROVE  /\ pc # "down" /\ pc' = "down" /\ secs' = 0 /\ m' = Fresh
         /\ UNCHANGED <<mapThere, mode, after, ret, arg, last, size, home, taken>>
         /\ left["tear"] \in Nat /\ left'["tear"] = left["tear"] - 1 /\ left' \in [Events -> Nat]
  BY SpentIs DEF Tear, Spend, CoreInv, TypeOK, Events, TearWrite, TearTotal, TearLength, TearOpen, TearBlocks

\* It leaves cells of the buffer, and others that belong to no line.
LEMMA TearCells ==
  ASSUME CoreInv, Tear
  PROVE  /\ area' \in Seq(Cell) /\ mapTotal' \in Nat /\ Len(area') = mapTotal'
         /\ \A i \in 1..mapTotal' :
               \/ area'[i][1] # "data"
               \/ area'[i] = area[i] /\ (i <= mapTotal \/ (pc = "total" /\ i <= m.total_len))
         /\ mapTotal' = 0 \/ (mode = "MMAP" /\ (mapTotal' < BufLen => mapTotal < BufLen))
<1>1. /\ area \in Seq(Cell) /\ Len(area) \in Nat /\ mapTotal \in Nat
      /\ m.total_len \in Nat /\ m.total_len <= Len(area) /\ m.content_len \in Nat
      /\ m.hp \in Nat /\ m.hp >= 1
      /\ mode = "MMAP" => mapTotal <= Len(area)
  BY Model DEF CoreInv, TypeOK, LenInv, ModelType
<1> DEFINE a == Upto(area, mapTotal)
<1>2. mode = "MMAP" => a \in Seq(Cell) /\ Len(a) = mapTotal /\ \A i \in 1..mapTotal : a[i] = area[i]
  BY <1>1, UptoIs
<1> HIDE DEF a
<1>3. Pad[1] # "data" /\ \A k \in Nat : Hdr(k)[1] # "data"
  BY CellsAre
<1>4. CASE TearWrite
  <2>1. \/ mode = "MMAP" /\ area' = a /\ mapTotal' = mapTotal
        \/ area' = <<>> /\ mapTotal' = 0
    BY <1>4 DEF TearWrite, a
  <2>2. <<>> \in Seq(Cell) /\ Len(<<>>) = 0
    BY LenProperties
  <2>3. CASE mode = "MMAP" /\ area' = a /\ mapTotal' = mapTotal
    BY <1>1, <1>2, <2>3
  <2>4. CASE area' = <<>> /\ mapTotal' = 0
    BY <2>2, <2>4
  <2> QED
    BY <2>1, <2>3, <2>4
<1>5. CASE TearTotal /\ mode = "MMAP"
  <2> DEFINE n == IF mapTotal > m.total_len THEN mapTotal ELSE m.total_len
             t == mapTotal'
             b == Upto(area, n)
             z == Pads(t)
  <2>1. pc = "total" /\ mapTotal < BufLen /\ t \in Mixed(mapTotal, m.total_len) /\ area' = Upto(b \o z, t)
    BY <1>5 DEF TearTotal
  <2>2. t \in Nat
    BY <1>1, <2>1, MixedIs
  <2>3. n \in Nat /\ n <= Len(area) /\ \A i \in 1..n : i <= mapTotal \/ i <= m.total_len
    BY <1>1, <1>5
  <2> HIDE DEF n, t
  <2>4. b \in Seq(Cell) /\ Len(b) = n /\ \A i \in 1..n : b[i] = area[i]
    BY <1>1, <2>3, UptoIs
  <2>5. z \in Seq(Cell) /\ Len(z) = t /\ \A i \in 1..t : z[i] = Pad
    BY <2>2, PadsAre
  <2> HIDE DEF b, z
  <2>6. /\ b \o z \in Seq(Cell) /\ Len(b \o z) = Len(b) + Len(z)
        /\ \A i \in 1..(Len(b) + Len(z)) : (b \o z)[i] = IF i <= Len(b) THEN b[i] ELSE z[i - Len(b)]
    BY <2>4, <2>5, ConcatProperties
  <2>7. t <= Len(b \o z)
    BY <2>2, <2>3, <2>4, <2>5, <2>6
  <2>8. /\ area' \in Seq(Cell) /\ Len(area') = t
        /\ \A i \in 1..t : area'[i] = (b \o z)[i]
    BY <2>1, <2>2, <2>6, <2>7, UptoIs
  <2>9. ASSUME NEW i \in 1..t
        PROVE  area'[i] = Pad \/ (area'[i] = area[i] /\ (i <= mapTotal \/ i <= m.total_len))
    <3>1. i \in 1..(Len(b) + Len(z)) /\ i \in Nat
      BY <2>2, <2>3, <2>4, <2>5
    <3>2. CASE i <= n
      BY <2>3, <2>4, <2>6, <2>8, <3>1, <3>2
    <3>3. CASE ~(i <= n)
      <4>1. i - n \in 1..t
        BY <2>2, <2>3, <3>3
      <4> QED
        BY <2>4, <2>5, <2>6, <2>8, <3>1, <3>3, <4>1
    <3> QED
      BY <3>2, <3>3
  <2> QED
    BY <1>3, <1>5, <2>1, <2>2, <2>8, <2>9 DEF t
<1>6. CASE (TearLength \/ TearOpen) /\ mode = "MMAP"
  <2>1. mapTotal' = mapTotal
    BY <1>6 DEF TearLength, TearOpen
  <2>2. \A i \in 1..mapTotal : area[i][2] \in Nat
    BY <1>1, <1>6, ElementOfSeq, LengthsAre
  <2>3. \E i \in 1..mapTotal : \E k \in Nat : area' = [a EXCEPT ![i] = Hdr(k)]
    <3>1. CASE TearLength
      <4> DEFINE i == IF pc = "len" THEN m.hp ELSE 1
                 n == IF pc = "len" THEN m.content_len ELSE 0
      <4>1. i \in 1..mapTotal /\ n \in Nat /\ \E k \in Mixed(n, area[i][2]) : Rewritten(i, k)
        BY <1>1, <3>1 DEF TearLength
      <4> HIDE DEF i, n
      <4>2. Mixed(n, area[i][2]) \subseteq Nat
        BY <2>2, <4>1, MixedIs
      <4> QED
        BY <4>1, <4>2 DEF Rewritten, a
    <3>2. CASE TearOpen
      <4>1. 1 \in 1..mapTotal /\ \E k \in Mixed(0, area[1][2]) \cup {0, area[1][2]} : Rewritten(1, k)
        BY <1>1, <3>2 DEF TearOpen
      <4>2. Mixed(0, area[1][2]) \cup {0, area[1][2]} \subseteq Nat
        BY <2>2, <4>1, MixedIs
      <4> QED
        BY <4>1, <4>2 DEF Rewritten, a
    <3> QED
      BY <1>6, <3>1, <3>2
  <2>4. PICK i \in 1..mapTotal, k \in Nat : area' = [a EXCEPT ![i] = Hdr(k)]
    BY <2>3
  <2>5. /\ area' \in Seq(Cell) /\ Len(area') = mapTotal
        /\ \A j \in 1..mapTotal : area'[j] = a[j] \/ area'[j] = Hdr(k)
    <3>1. a \in Seq(Cell) /\ mapTotal = Len(a)
      BY <1>2, <1>6
    <3>2. LET t == [a EXCEPT ![i] = Hdr(k)]
          IN  t \in Seq(Cell) /\ Len(t) = Len(a) /\ \A j \in 1..Len(a) : t[j] = a[j] \/ t[j] = Hdr(k)
      BY <3>1, HeaderIn, Zenon
    <3> QED
      BY <2>4, <3>1, <3>2, Zenon
  <2>6. Hdr(k)[1] # "data"
    BY <1>3, <2>4
  <2> QED
    BY <1>1, <1>2, <1>6, <2>1, <2>5, <2>6
<1>7. CASE TearBlocks /\ mode = "MMAP"
  <2>1. mapTotal' = mapTotal
    BY <1>7 DEF TearBlocks
  <2>2. PICK k \in 1..(mapTotal - m.total_len) : area' = Upto(PutAt(area, m.total_len, Pads(k)), mapTotal)
    BY <1>7 DEF TearBlocks
  <2> DEFINE n == m.total_len
             z == Pads(k)
             b == PutAt(area, n, z)
  <2>3. z \in Seq(Cell) /\ Len(z) = k /\ \A i \in 1..k : z[i] = Pad
    BY <1>1, PadsAre
  <2>4. n \in Nat /\ n <= Len(area)
    BY <1>1
  <2> HIDE DEF z, n
  <2>5. /\ b \in Seq(Cell) /\ Len(b) >= Len(area)
        /\ \A i \in 1..Len(b) : \/ i - n \in 1..Len(z) /\ b[i] = z[i - n]
                               \/ b[i] = area[i]
    BY <1>1, <2>3, <2>4, PutAtIs
  <2> HIDE DEF b
  <2>6. Len(b) \in Nat /\ mapTotal <= Len(b)
    BY <1>1, <1>7, <2>5, LenProperties
  <2>7. area' = Upto(b, mapTotal)
    BY <2>2 DEF b, z, n
  <2>8. /\ area' \in Seq(Cell) /\ Len(area') = mapTotal
        /\ \A i \in 1..mapTotal : area'[i] = b[i]
    BY <1>1, <2>5, <2>6, <2>7, UptoIs
  <2>9. \A i \in 1..mapTotal : area'[i] = Pad \/ area'[i] = area[i]
    BY <1>1, <2>3, <2>5, <2>6, <2>8
  <2> QED
    BY <1>1, <1>3, <1>7, <2>1, <2>8, <2>9
<1> QED
  BY <1>4, <1>5, <1>6, <1>7 DEF Tear

\* The mapped header names the same file or another, and more lines may be stray.
LEMMA TearNames ==
  ASSUME CoreInv, Tear
  PROVE  /\ mapName' = mapName \/ (pc = "open" /\ mapName' \in Names)
         /\ lost' \in [Causes -> SUBSET Lines] /\ lost["stray"] \subseteq lost'["stray"]
<1>1. lost \in [Causes -> SUBSET Lines] /\ 1..last \subseteq Lines /\ "stray" \in Causes
  BY CLoganAssumption DEF CoreInv, TypeOK, Lines, Causes
<1>2. lost' = lost \/ \E U \in {1..last, {}} : lost' = [lost EXCEPT !["stray"] = @ \cup U]
  BY DEF Tear, TearWrite, TearTotal, TearLength, TearOpen, TearBlocks
<1>3. mapName' = mapName \/ (pc = "open" /\ mapName' \in Names)
  BY DEF Tear, TearWrite, TearTotal, TearLength, TearOpen, TearBlocks
<1> QED
  BY <1>1, <1>2, <1>3

\* A file is created, or has a part of the buffer.
LEMMA TearFiles ==
  ASSUME CoreInv, Tear
  PROVE  /\ UNCHANGED away
         /\ \/ files' = files
            \/ pc = "open" /\ files' = Created(arg)
            \/ /\ Exists(m.path) /\ m.path \in Names
               /\ \E n \in Nat : n <= m.total_len /\ files' = [files EXCEPT ![m.path] = @ \o Upto(area, n)]
<1>1. CASE TearWrite
  <2>1. Exists(m.fp) /\ m.path \in Names /\ m.fp = m.path
    BY <1>1 DEF TearWrite, CoreInv, LinkInv, Closed
  <2>2. PICK k \in 1..(m.total_len - 1) : Appended(m.fp, Upto(area, k))
    BY <1>1 DEF TearWrite
  <2>3. k \in Nat /\ k <= m.total_len
    BY Model
  <2> QED
    BY <2>1, <2>2, <2>3 DEF Appended
<1> QED
  BY <1>1 DEF Tear, TearTotal, TearLength, TearOpen, TearBlocks

LEMMA TearCore ==
  ASSUME CoreInv, Tear
  PROVE  CoreInv'
<1>1. files' \in [Names -> Seq(Cell) \cup {None}] /\ away' \in [Names -> Seq(Cell)]
  <2>1. TypeOK
    BY DEF CoreInv
  <2>2. CASE pc = "open" /\ files' = Created(arg)
    BY <2>1, <2>2, TearFiles, CreatedIs DEF TypeOK
  <2>3. ASSUME NEW n \in Nat, n <= m.total_len, files' = [files EXCEPT ![m.path] = @ \o Upto(area, n)],
               Exists(m.path), m.path \in Names
        PROVE  files' \in [Names -> Seq(Cell) \cup {None}]
    <3> DEFINE c == Upto(area, n)
    <3>1. c \in Seq(Cell)
      <4>1. area \in Seq(Cell) /\ n <= Len(area)
        <5> DEFINE k == m.total_len
                   z == Len(area)
        <5>1. area \in Seq(Cell) /\ z \in Nat /\ k \in Nat /\ k <= z /\ n \in Nat /\ n <= k
          BY <2>3, Model
        <5> HIDE DEF k, z
        <5>2. n <= z
          BY <5>1
        <5> QED
          BY <5>1, <5>2 DEF z
      <4> QED
        BY <2>3, <4>1, UptoIs
    <3> HIDE DEF c
    <3>2. files' = [files EXCEPT ![m.path] = @ \o c]
      BY <2>3 DEF c
    <3> QED
      <4>1. files \in [Names -> Seq(Cell) \cup {None}] /\ files[m.path] # None
        BY <2>1, <2>3 DEF TypeOK, Exists
      <4> QED
        <5>1. [files EXCEPT ![m.path] = @ \o c] \in [Names -> Seq(Cell) \cup {None}]
          BY <2>3, <3>1, <4>1, AppendedIs, Zenon
        <5> QED
          BY <3>2, <5>1, Zenon
  <2> QED
    BY <2>1, <2>2, <2>3, TearFiles DEF TypeOK
<1>2. m' \in ModelType /\ m'.total_len = 0 /\ ~m'.is_open_ok
  BY TearIs, FreshIs
<1>3. 0 \in 0..MaxSections /\ mapName' \in Names \cup {None}
  BY TearNames, CLoganAssumption DEF CoreInv, TypeOK
<1>4. TypeOK'
  BY <1>1, <1>2, <1>3, TearIs, TearCells, TearNames DEF CoreInv, TypeOK, ModelType
<1>5. PhaseInv'
  BY TearIs DEF PhaseInv, Writing, FlushFor, Flushing
<1>6. LenInv'
  BY <1>2, TearIs, TearCells DEF LenInv
<1>7. LinkInv'
  BY <1>2, TearIs DEF LinkInv, Closed
<1> QED
  BY <1>4, <1>5, <1>6, <1>7 DEF CoreInv

LEMMA StutterCore == CoreInv /\ UNCHANGED vars => CoreInv'
<1> SUFFICES ASSUME CoreInv, UNCHANGED vars PROVE CoreInv'
  OBVIOUS
<1>1. UNCHANGED <<files, away, area, mapName, mapTotal, mapThere, mode, m, pc, after, ret, arg,
                  secs, last, size, home, taken, lost, left>>
  BY DEF vars, disk, mapped, ctl, hist
<1>2. TypeOK'
  <2>1. TypeOK
    BY DEF CoreInv
  <2>2. /\ files' \in [Names -> Seq(Cell) \cup {None}] /\ away' \in [Names -> Seq(Cell)]
        /\ area' \in Seq(Cell) /\ left' \in [Events -> Nat]
        /\ mapName' \in Names \cup {None} /\ mapTotal' \in Nat /\ mapThere' \in BOOLEAN
        /\ mode' \in {"MMAP", "MEMORY"}
    BY <1>1, <2>1 DEF TypeOK
  <2>3. m' \in ModelType
    BY <1>1, <2>1 DEF TypeOK, ModelType
  <2>4. /\ pc' \in {"down", "idle", "compress", "total", "len", "unit", "ended", "section",
                    "flush", "flushed", "dest", "put", "clear", "cleared", "open", "close"}
        /\ after' \in {"unit", "ended", "flushed", "cleared"}
        /\ ret' \in {"idle", "section", "open", "close"}
        /\ arg' \in Names \cup {None} /\ secs' \in 0..MaxSections
    BY <1>1, <2>1 DEF TypeOK
  <2>5. /\ last' \in 0..MaxWrites /\ size' \in [Lines -> Nat] /\ taken' \subseteq Lines
        /\ home' \in [Lines -> Names \cup {None}] /\ lost' \in [Causes -> SUBSET Lines]
    BY <1>1, <2>1 DEF TypeOK
  <2> QED
    BY <2>2, <2>3, <2>4, <2>5 DEF TypeOK, ModelType
<1>3. PhaseInv'
  BY <1>1 DEF CoreInv, PhaseInv, Writing, FlushFor, Flushing
<1>4. LenInv' /\ LinkInv'
  BY <1>1 DEF CoreInv, LenInv, LinkInv, Closed, Exists
<1> QED
  BY <1>2, <1>3, <1>4 DEF CoreInv

LEMMA NextCore == CoreInv /\ [Steps]_vars => CoreInv'
<1> SUFFICES ASSUME CoreInv, [Steps]_vars PROVE CoreInv'
  OBVIOUS
<1>1. CASE Call
  BY <1>1, InitCallCore, OpenCallCore, FlushCallCore, WriteCore DEF Call
<1>2. CASE Recovered \/ OpenFile \/ Compress \/ Total \/ Length \/ Section
  BY <1>2, RecoveredCore, OpenFileCore, CompressCore, TotalCore, LengthCore, SectionCore
<1>3. CASE Unit \/ Ended
  BY <1>3, UnitCore, EndCore, EndedCore
<1>4. CASE Flush \/ Flushed \/ Dest \/ PutOut \/ Clear \/ Cleared
  BY <1>4, FlushCore, EndCore, DestCore, PutOutCore, ClearCore, ClearedCore
<1>5. CASE Crash \/ Unmap \/ \E p \in Names : MoveAway(p)
  BY <1>5, CrashCore, UnmapCore, MoveAwayCore
<1>6. CASE UNCHANGED vars
  BY <1>6, StutterCore
<1> QED
  BY <1>1, <1>2, <1>3, <1>4, <1>5, <1>6 DEF Steps

\* A flush runs to its end and comes back to the call that asked for it, the lengths in
\* use lie within the buffer, and the stream, the model and the mapped header name one
\* file.
THEOREM CoreInductive == Spec => []CoreInv
<1>1. Init => CoreInv
  BY InitCore
<1>2. CoreInv /\ [Next]_vars => CoreInv'
  BY NextCore, TearCore DEF Next
<1> QED
  BY <1>1, <1>2, PTL DEF Spec

\* The variables of the library keep their types.
THEOREM CLoganTypeCorrect == Spec => []TypeOK
<1>1. CoreInv => TypeOK
  BY DEF CoreInv
<1> QED
  BY <1>1, CoreInductive, PTL

-------------------------------------------------------------------------------
(* No crash within a step so far *)

LEMMA LeftIs ==
  ASSUME [Steps]_vars
  PROVE  \/ left' = left
         \/ Crash /\ left' = [left EXCEPT !["crash"] = @ - 1]
         \/ \E e \in {"noopen", "unmap", "away"} : left' = [left EXCEPT ![e] = @ - 1]
<1>1. CASE clogan_init \/ OpenFile
  BY <1>1 DEF clogan_init, OpenFile, Fails
<1>2. CASE (\E p \in Names : MoveAway(p)) \/ Unmap \/ Crash
  BY <1>2 DEF MoveAway, Unmap, Spend, Crash
<1>3. CASE (\E p \in Names : clogan_open(p)) \/ clogan_flush \/ Recovered \/ Compress \/ Total \/ Length
  BY <1>3 DEF clogan_open, clogan_flush, Recovered, Compress, Total, Length, hist
<1>4. CASE Unit \/ Ended \/ Section \/ Flush \/ Flushed \/ Clear \/ Cleared \/ clogan_write \/ Dest \/ PutOut
  BY <1>4 DEF Unit, Ended, Section, Flush, Flushed, Clear, Cleared, clogan_write, Dest, PutOut, hist
<1> QED
  BY <1>1, <1>2, <1>3, <1>4 DEF Steps, Call, vars

LEMMA UntornStep ==
  CoreInv /\ TearsLeft /\ [Next]_vars => TearsLeft' /\ (Untorn' => Untorn /\ [Steps]_vars)
<1> SUFFICES ASSUME CoreInv, TearsLeft, [Next]_vars
             PROVE  TearsLeft' /\ (Untorn' => Untorn /\ [Steps]_vars)
  OBVIOUS
<1>1. /\ left \in [Events -> Nat] /\ Budget["tear"] \in Nat /\ left["tear"] \in Nat
      /\ "tear" \in Events
  BY CLoganAssumption DEF CoreInv, TypeOK, Events
<1>2. CASE [Steps]_vars
  BY <1>1, <1>2, LeftIs DEF TearsLeft, Untorn
<1>3. CASE Tear
  BY <1>1, <1>3, TearIs DEF TearsLeft, Untorn
<1> QED
  BY <1>2, <1>3 DEF Next

LEMMA TearsAlways == Spec => [](CoreInv /\ TearsLeft)
<1>1. Init => TearsLeft
  BY CLoganAssumption DEF Init, TearsLeft, Events
<1> QED
  BY <1>1, UntornStep, CoreInductive, PTL DEF Spec

-------------------------------------------------------------------------------
(* What was moved away *)

LEMMA NextAway ==
  ASSUME CoreInv, [Steps]_vars, NEW p \in Names
  PROVE  away'[p] = away[p] \/ (Exists(p) /\ files'[p] = None)
<1>1. CASE PutOut
  BY <1>1, PutOutCore
<1>2. CASE \E q \in Names : MoveAway(q)
  BY <1>2, MoveAwayCore
<1>3. CASE Call
  BY <1>3 DEF Call, clogan_init, clogan_open, clogan_flush, clogan_write, disk
<1>4. CASE \/ Recovered \/ OpenFile \/ Compress \/ Total \/ Length \/ Unit \/ Ended \/ Section
           \/ Flush \/ Flushed \/ Dest \/ Clear \/ Cleared \/ Crash \/ Unmap \/ UNCHANGED vars
  BY <1>4 DEF Recovered, OpenFile, Compress, Total, Length, Unit, Ended, Section, Flush, Flushed,
              Dest, Clear, Cleared, Crash, Unmap, vars, disk
<1> QED
  BY <1>1, <1>2, <1>3, <1>4 DEF Steps

\* The library appends to the file it has open or has just created, and never to one
\* that LoganThread moved away: between write_dest_clogan and the write no file is moved.
THEOREM WhatIsAwayStays == Spec => AwayIsFinal
<1>1. CoreInv /\ [Next]_vars =>
        [\A p \in Names : away'[p] = away[p] \/ (Exists(p) /\ files'[p] = None)]_vars
  BY NextAway, TearFiles DEF Next
<1> QED
  BY <1>1, CoreInductive, PTL DEF Spec, AwayIsFinal

-------------------------------------------------------------------------------
(* Room for the next section *)

LEMMA NextRoom ==
  ASSUME BufLen >= 3, CoreInv, RoomForSection, [Steps]_vars
  PROVE  RoomForSection'
<1> DEFINE third == BufLen \div 3
<1>1. third \in Nat /\ third >= 1
  BY CLoganAssumption
<1>2. m \in ModelType /\ m.total_len \in Nat
  BY Model
<1>3. RoomForSection <=> (pc \in {"idle", "section"} /\ mode = "MMAP" => m.total_len <= third)
  BY DEF RoomForSection
<1>4. Third <=> (mode = "MMAP" /\ m.total_len >= third)
  BY DEF Third
<1>5. SUFFICES (pc' \in {"idle", "section"} /\ mode' = "MMAP" => m'.total_len <= third)
  BY DEF RoomForSection
<1> HIDE DEF third
<1>6. CASE Cleared
  <2>1. m'.total_len = 1
    BY <1>2, <1>6 DEF Cleared, ModelType
  <2> QED
    BY <1>1, <2>1
<1>7. CASE Flushed
  BY <1>1, <1>2, <1>7 DEF Flushed
<1>8. CASE Unit
  BY <1>1, <1>2, <1>4, <1>8 DEF Unit, WriteOut, UpdateLength, mapped
<1>9. CASE Ended
  <2>1. pc' = "section" => ~Third /\ mode' = mode
                           /\ m' = [m EXCEPT !.content_len = 0, !.remain = <<>>, !.zlib = "INIT",
                                             !.hp = m.total_len + 1, !.total_len = m.total_len + 1]
    BY <1>9 DEF Ended, WriteOut, mapped
  <2>2. pc' # "idle"
    BY <1>9 DEF Ended, WriteOut
  <2>3. pc' = "section" => m'.total_len = m.total_len + 1
    BY <1>2, <2>1 DEF ModelType
  <2> QED
    BY <1>1, <1>2, <1>4, <2>1, <2>2, <2>3
<1>10. CASE Section
  BY <1>3, <1>10 DEF Section, mapped
<1>11. CASE OpenFile
  <2>1. m'.total_len \in {0, 1}
    BY <1>2, <1>11 DEF OpenFile, Opened, ModelType
  <2> QED
    BY <1>1, <2>1
<1>12. CASE Recovered
  <2>1. m'.total_len = 0
    BY <1>2, <1>12 DEF Recovered, ModelType
  <2> QED
    BY <1>1, <2>1
<1>13. CASE clogan_init
  BY <1>1, <1>13, FreshIs DEF clogan_init
<1>14. CASE (\E p \in Names : clogan_open(p)) \/ clogan_flush \/ clogan_write \/ Compress \/ Total
            \/ Flush \/ Dest \/ PutOut \/ Clear \/ Crash
  <2>1. pc' \notin {"idle", "section"}
    BY <1>14 DEF clogan_open, clogan_flush, clogan_write, Compress, Total, Flush, Dest, PutOut,
                 Clear, Crash, UpdateLength
  <2> QED
    BY <2>1
<1>15. CASE Length
  BY <1>15 DEF Length, CoreInv, TypeOK
<1>16. CASE Unmap \/ (\E p \in Names : MoveAway(p)) \/ UNCHANGED vars
  BY <1>3, <1>16 DEF Unmap, MoveAway, vars, mapped, ctl
<1> QED
  BY <1>6, <1>7, <1>8, <1>9, <1>10, <1>11, <1>12, <1>13, <1>14, <1>15, <1>16 DEF Steps, Call

\* clogan_write hands a section to the mapped buffer only when at most a third of it is
\* in use, also right after a unit has ended and the next one has its header: any buffer
\* of three cells and more (LOGAN_MMAP_LENGTH is 150 KB).
THEOREM RoomIsLeft == BufLen >= 3 /\ Spec => []RoomForSection
<1> SUFFICES ASSUME BufLen >= 3 PROVE Spec => []RoomForSection
  OBVIOUS
<1>1. Init => RoomForSection
  BY DEF Init, RoomForSection
<1>2. CoreInv /\ RoomForSection /\ [Next]_vars => RoomForSection'
  BY NextRoom, TearIs DEF Next, RoomForSection
<1> QED
  BY <1>1, <1>2, CoreInductive, PTL DEF Spec

-------------------------------------------------------------------------------
(* Which file a line goes to *)

\* Of and Stray in the next state, of a cell that stays
OfNext(c, p) == c[1] = "data" => /\ c[2] \in 1..last' /\ c[3] \in 1..size'[c[2]]
                                 /\ home'[c[2]] = p \/ c[2] \in lost'["stray"]
StrayNext(c) == c[1] = "data" => c[2] \in lost'["stray"]

\* What is known of a line is kept.
Kept == /\ last' \in Nat /\ last' >= last
        /\ \A w \in 1..last : home'[w] = home[w] /\ 1..size[w] \subseteq 1..size'[w]
        /\ lost["stray"] \subseteq lost'["stray"]

LEMMA OfKept ==
  ASSUME CoreInv, Kept
  PROVE  /\ \A c, p : Of(c, p) => OfNext(c, p)
         /\ \A c : Stray(c) => StrayNext(c)
<1>1. last \in Nat
  BY CLoganAssumption DEF CoreInv, TypeOK
<1> QED
  BY <1>1 DEF Kept, Of, OfNext, Stray, StrayNext

LEMMA PlainOf == \A c, p : c[1] # "data" => Of(c, p) /\ OfNext(c, p) /\ Stray(c) /\ StrayNext(c)
BY DEF Of, OfNext, Stray, StrayNext

LEMMA SameKept == CoreInv /\ UNCHANGED <<last, size, home, lost>> => Kept
  BY CLoganAssumption DEF CoreInv, TypeOK, Kept

LEMMA BufferNext ==
  ASSUME Writing' => home'[last'] = m'.path,
         \A i \in 1..m'.total_len : OfNext(area'[i], m'.path),
         \A i \in 1..Len(m'.remain) : OfNext(m'.remain[i], m'.path)
  PROVE  BufferHome'
BY DEF BufferHome, AllOf, Of, OfNext

LEMMA MappedNext ==
  ASSUME mapTotal' < BufLen /\ (mode' = "MMAP" \/ pc' = "down") =>
            \A i \in 1..mapTotal' : OfNext(area'[i], mapName'),
         mapTotal' < BufLen /\ mode' = "MMAP" /\ m'.total_len <= 1 /\ pc' \notin {"down", "total"} =>
            \A i \in 1..mapTotal' : StrayNext(area'[i])
  PROVE  MappedHome'
BY DEF MappedHome, AllOf, Of, OfNext, Stray, StrayNext

LEMMA FilesNext ==
  ASSUME \A p \in Names : Exists(p)' => \A i \in 1..Len(files'[p]) : OfNext(files'[p][i], p),
         \A p \in Names : \A i \in 1..Len(away'[p]) : OfNext(away'[p][i], p)
  PROVE  FilesHome'
BY DEF FilesHome, AllOf, Of, OfNext

\* Files that stay
LEMMA SameFiles ==
  ASSUME CoreInv, FilesHome, Kept, UNCHANGED <<files, away>>
  PROVE  FilesHome'
  BY OfKept, FilesNext DEF Exists, FilesHome, AllOf

\* A file that is created is empty.
LEMMA CreatedFiles ==
  ASSUME CoreInv, FilesHome, Kept, NEW q \in Names \cup {None}, files' = Created(q),
         UNCHANGED away
  PROVE  FilesHome'
<1>1. ASSUME NEW p \in Names, Exists(p)', NEW i \in 1..Len(files'[p])
      PROVE  OfNext(files'[p][i], p)
  <2>1. CASE Exists(p)
    BY <2>1, CreatedIs, OfKept DEF CoreInv, Exists, FilesHome, AllOf
  <2>2. CASE ~Exists(p)
    BY <1>1, <2>2, CLoganAssumption, CreatedIs DEF CoreInv, Exists
  <2> QED
    BY <2>1, <2>2
<1>2. \A p \in Names : \A i \in 1..Len(away'[p]) : OfNext(away'[p][i], p)
  BY OfKept DEF FilesHome, AllOf
<1> QED
  BY <1>1, <1>2, FilesNext

\* A step that leaves the buffer as it is
LEMMA QuietUnit ==
  ASSUME UnitInv, UNCHANGED <<area, mapName, mapTotal>>,
         m'.total_len = m.total_len, m'.remain = m.remain, m'.zlib = m.zlib,
         m'.is_open_ok = m.is_open_ok, Clearing' <=> Clearing,
         pc' # "flush" /\ Flushing' => (pc # "flush" /\ Flushing) \/ m.zlib # "ING"
  PROVE  UnitInv'
BY DEF UnitInv

LEMMA QuietHome ==
  ASSUME CoreInv, HomeInv, UNCHANGED <<area, mapName, mapTotal, mode, last, size, home, lost>>,
         m'.total_len = m.total_len, m'.remain = m.remain, m'.path = m.path,
         pc \notin {"down", "total"}, pc' # "down", Writing' => Writing
  PROVE  BufferHome' /\ MappedHome'
  BY SameKept, OfKept, BufferNext, MappedNext DEF HomeInv, BufferHome, AllOf, MappedHome

LEMMA HeadPlain ==
  \A i \in 1..Len(<<Hdr(B)>> \o Pads(B) \o <<End>>) :
     (<<Hdr(B)>> \o Pads(B) \o <<End>>)[i][1] # "data"
<1> DEFINE h == <<Hdr(B)>>
           t == Pads(B)
           e == <<End>>
<1>1. B \in Nat
  BY CLoganAssumption
<1>2. /\ h \in Seq(Cell) /\ Len(h) = 1 /\ h[1][1] = "header"
      /\ t \in Seq(Cell) /\ Len(t) = B /\ \A i \in 1..B : t[i] = Pad
      /\ e \in Seq(Cell) /\ Len(e) = 1 /\ e[1] = End
      /\ Pad[1] = "pad" /\ End[1] = "tail"
  BY <1>1, CellsAre, PadsAre
<1> HIDE DEF h, t, e
<1>3. /\ h \o t \in Seq(Cell) /\ Len(h \o t) = 1 + B
      /\ \A i \in 1..(1 + B) : (h \o t)[i] = IF i <= 1 THEN h[i] ELSE t[i - 1]
  <2>1. h \in Seq(Cell) /\ t \in Seq(Cell) /\ Len(h) = 1 /\ Len(t) = B
    BY <1>2
  <2>2. /\ h \o t \in Seq(Cell) /\ Len(h \o t) = Len(h) + Len(t)
        /\ \A i \in 1..Len(h) + Len(t) :
              (h \o t)[i] = IF i <= Len(h) THEN h[i] ELSE t[i - Len(h)]
    BY <2>1, ConcatProperties
  <2> QED
    BY <1>1, <2>1, <2>2
<1> DEFINE u == h \o t
<1> HIDE DEF u
<1>4. \A i \in 1..(1 + B) : u[i][1] # "data"
  BY <1>1, <1>2, <1>3 DEF u
<1>5. /\ Len(u \o e) = 1 + B + 1
      /\ \A i \in 1..(1 + B + 1) : (u \o e)[i] = IF i <= 1 + B THEN u[i] ELSE e[i - (1 + B)]
  BY <1>2, <1>3, ConcatProperties DEF u
<1>6. ASSUME NEW i \in 1..Len(u \o e) PROVE (u \o e)[i][1] # "data"
  BY <1>1, <1>2, <1>4, <1>5
<1> QED
  BY <1>6 DEF u, h, t, e

LEMMA ControlData ==
  ASSUME CoreInv, DataInv,
         \/ \E p \in Names : clogan_open(p)
         \/ clogan_flush \/ Section \/ Flushed \/ Unmap
         \/ Flush /\ m.zlib # "ING"
         \/ Unit /\ pc' # "total"
         \/ Ended /\ pc' = "flush"
  PROVE  DataInv'
<1>1. /\ UNCHANGED <<area, mapName, mapTotal, mode, last, size, home, lost, files, away, m>>
      /\ pc \in {"idle", "section", "flushed", "flush", "unit", "ended"}
      /\ pc' \in {"flush", "open", "idle", "section", "compress", "dest", "flushed", "close"}
  BY DEF clogan_open, clogan_flush, Section, Flushed, Unmap, Flush, Unit, Ended, WriteOut,
         UpdateLength, disk, mapped, hist, ctl, CoreInv, TypeOK
<1>2. Writing' => Writing
  BY DEF Writing, FlushFor, Flushing, clogan_open, clogan_flush, Section, Flushed, Unmap, Flush,
         Unit, Ended, WriteOut, UpdateLength, ctl, CoreInv, TypeOK
<1>3. pc' # "flush" /\ Flushing' => (pc # "flush" /\ Flushing) \/ m.zlib # "ING"
  BY DEF Flushing, clogan_open, clogan_flush, Section, Flushed, Unmap, Flush, Unit, Ended,
         WriteOut, UpdateLength, ctl, CoreInv, TypeOK
<1>4. Clearing' <=> Clearing
  BY <1>1 DEF Clearing
<1>5. UnitInv'
  BY <1>1, <1>3, <1>4, QuietUnit DEF DataInv
<1>6. BufferHome' /\ MappedHome'
  BY <1>1, <1>2, QuietHome DEF DataInv
<1>7. FilesHome'
  BY <1>1, SameKept, SameFiles DEF DataInv, HomeInv
<1> QED
  BY <1>5, <1>6, <1>7 DEF DataInv, HomeInv

LEMMA JoinedOf ==
  ASSUME NEW g \in Seq(Cell), NEW c \in Seq(Cell), NEW q, \A k \in 1..Len(g) : OfNext(g[k], q),
         \A k \in 1..Len(c) : OfNext(c[k], q)
  PROVE  \A i \in 1..Len(g \o c) : OfNext((g \o c)[i], q)
  BY ConcatProperties, LenProperties

LEMMA DestData ==
  ASSUME CoreInv, DataInv, Dest
  PROVE  DataInv'
<1> DEFINE p    == m.path
           mm   == IF Exists(p) THEN m ELSE Opened(m, p)
           unit == <<Hdr(B)>> \o Pads(B) \o <<End>>
<1>1. /\ pc = "dest" /\ pc' = "put"
      /\ UNCHANGED <<away, area, mapped, after, ret, arg, secs, last, size, home, taken, lost, left>>
      /\ \/ /\ mm.file_len = 0
            /\ files' = [Created(p) EXCEPT ![p] = @ \o unit]
            /\ m' = [mm EXCEPT !.file_len = Len(unit)]
         \/ files' = files /\ m' = mm
  BY DEF Dest, hist
<1>2. p \in Names
  BY <1>1 DEF CoreInv, LinkInv, Closed
<1>3. /\ mm \in ModelType /\ mm.path = p /\ mm.total_len = m.total_len /\ mm.remain = m.remain
      /\ mm.is_open_ok = m.is_open_ok /\ mm.zlib = m.zlib
  BY <1>2, Model, OpenedIs DEF CoreInv
<1>4. unit \in Seq(Cell) /\ Len(unit) \in Nat /\ \A i \in 1..Len(unit) : unit[i][1] # "data"
  BY HeadIs, HeadPlain, LenProperties
<1> HIDE DEF mm, unit
<1>5. /\ m'.path = p /\ m'.total_len = m.total_len /\ m'.remain = m.remain
      /\ m'.is_open_ok = m.is_open_ok /\ m'.zlib = m.zlib
  BY <1>1, <1>3, <1>4 DEF ModelType
<1>6. Kept
  BY <1>1, SameKept
<1>7. FilesHome'
  <2>1. CASE files' = [Created(p) EXCEPT ![p] = @ \o unit]
    <3> DEFINE f == Created(p)
    <3>1. /\ f \in [Names -> Seq(Cell) \cup {None}] /\ f[p] # None
          /\ \A q \in Names : files[q] # None => f[q] = files[q]
          /\ \A q \in Names : q # p => f[q] = files[q]
          /\ files[p] = None => f[p] = <<>>
      BY <1>2, CreatedIs DEF CoreInv
    <3> HIDE DEF f
    <3>2. files' = [f EXCEPT ![p] = @ \o unit]
      BY <2>1 DEF f
    <3>3. ASSUME NEW q \in Names, Exists(q)', NEW i \in 1..Len(files'[q])
          PROVE  OfNext(files'[q][i], q)
      <4>1. q # None
        BY CLoganAssumption
      <4>2. CASE q # p
        <5>1. files'[q] = files[q] /\ Exists(q)
          BY <3>1, <3>2, <3>3, <4>1, <4>2 DEF Exists
        <5> QED
          BY <3>3, <5>1, <1>6, OfKept DEF DataInv, HomeInv, FilesHome, AllOf
      <4>3. CASE q = p
        <5>1. f[q] \in Seq(Cell) /\ Len(f[q]) \in Nat
          BY <3>1, <4>3, LenProperties
        <5> DEFINE g == f[q]
        <5>2. files'[q] = g \o unit
          BY <3>1, <3>2, <4>3
        <5>3. \A k \in 1..Len(g) : OfNext(g[k], q)
          BY <1>6, <3>1, <4>1, <4>3, OfKept DEF Exists, DataInv, HomeInv, FilesHome, AllOf
        <5> HIDE DEF g
        <5> QED
          BY <1>4, <3>3, <5>1, <5>2, <5>3, PlainOf, JoinedOf DEF g
      <4> QED
        BY <4>2, <4>3
    <3>4. \A q \in Names : \A i \in 1..Len(away'[q]) : OfNext(away'[q][i], q)
      BY <1>1, <1>6, OfKept DEF DataInv, HomeInv, FilesHome, AllOf
    <3> QED
      BY <3>3, <3>4, FilesNext
  <2>2. CASE files' = files
    BY <1>1, <1>6, <2>2, SameFiles DEF DataInv, HomeInv
  <2> QED
    BY <1>1, <2>1, <2>2
<1>8. UnitInv'
  BY <1>1, <1>5, QuietUnit DEF Clearing, Flushing, DataInv, mapped
<1>9. BufferHome' /\ MappedHome'
  BY <1>1, <1>5, QuietHome DEF Writing, FlushFor, Flushing, DataInv, mapped
<1> QED
  BY <1>7, <1>8, <1>9 DEF DataInv, HomeInv

\* The first cells in use are appended to the file that is open.
LEMMA AppendedFiles ==
  ASSUME CoreInv, HomeInv, Kept, Exists(m.path), m.path \in Names, UNCHANGED away,
         NEW n \in Nat, n <= m.total_len, files' = [files EXCEPT ![m.path] = @ \o Upto(area, n)]
  PROVE  FilesHome'
<1> DEFINE c == Upto(area, n)
           l == m.total_len
<1>1. files' = [files EXCEPT ![m.path] = @ \o c]
  OBVIOUS
<1>2. c \in Seq(Cell) /\ Len(c) \in Nat /\ \A i \in 1..Len(c) : OfNext(c[i], m.path)
  <2>1. area \in Seq(Cell) /\ Len(area) \in Nat /\ l \in Nat /\ l <= Len(area) /\ n <= l
    BY Model
  <2>2. \A i \in 1..l : OfNext(area[i], m.path)
    BY OfKept DEF HomeInv, BufferHome, AllOf
  <2> HIDE DEF l
  <2>3. n <= Len(area) /\ 1..n \subseteq 1..l
    BY <2>1
  <2>4. c \in Seq(Cell) /\ Len(c) = n /\ \A i \in 1..n : c[i] = area[i]
    BY <2>1, <2>3, UptoIs
  <2> HIDE DEF c
  <2> QED
    BY <2>2, <2>3, <2>4
<1> HIDE DEF c
<1>3. ASSUME NEW q \in Names, Exists(q)', NEW i \in 1..Len(files'[q])
      PROVE  OfNext(files'[q][i], q)
  <2>1. q # None /\ files \in [Names -> Seq(Cell) \cup {None}]
    BY CLoganAssumption DEF CoreInv, TypeOK
  <2>2. Exists(q) /\ \A k \in 1..Len(files[q]) : OfNext(files[q][k], q)
    BY <1>1, <1>3, <2>1, OfKept DEF Exists, HomeInv, FilesHome, AllOf
  <2>3. CASE q # m.path
    BY <1>1, <1>3, <2>1, <2>2, <2>3
  <2>4. CASE q = m.path
    <3> DEFINE g == files[q]
    <3>1. files'[q] = g \o c
      BY <1>1, <2>1, <2>4
    <3>2. g \in Seq(Cell) /\ \A k \in 1..Len(g) : OfNext(g[k], q)
      BY <2>1, <2>2 DEF Exists
    <3> HIDE DEF g
    <3>3. \A k \in 1..Len(g \o c) : OfNext((g \o c)[k], q)
      BY <1>2, <2>4, <3>2, JoinedOf, Zenon
    <3> QED
      BY <1>3, <3>1, <3>3, Zenon
  <2> QED
    BY <2>3, <2>4
<1>4. \A q \in Names : \A i \in 1..Len(away'[q]) : OfNext(away'[q][i], q)
  BY OfKept DEF HomeInv, FilesHome, AllOf
<1> QED
  BY <1>3, <1>4, FilesNext

LEMMA PutOutData ==
  ASSUME CoreInv, DataInv, PutOut
  PROVE  DataInv'
<1>1. /\ pc = "put" /\ pc' = "clear"
      /\ UNCHANGED <<area, mapped, after, ret, arg, secs, last, size, home, taken, lost, left>>
      /\ m' = [m EXCEPT !.file_len = @ + m.total_len]
  BY DEF PutOut, hist
<1>2. Exists(m.fp) /\ m.path \in Names /\ m.fp = m.path
  BY <1>1 DEF CoreInv, LinkInv, Closed
<1>3. UNCHANGED away /\ files' = [files EXCEPT ![m.path] = @ \o Upto(area, m.total_len)]
  BY <1>2 DEF PutOut, Appended
<1>4. /\ m'.path = m.path /\ m'.total_len = m.total_len /\ m'.remain = m.remain
      /\ m'.is_open_ok = m.is_open_ok /\ m'.zlib = m.zlib
  BY <1>1, Model DEF ModelType
<1>5. Kept
  BY <1>1, SameKept
<1>6. m.total_len \in Nat /\ m.total_len <= m.total_len
  BY Model
<1>7. FilesHome'
  BY <1>2, <1>3, <1>5, <1>6, AppendedFiles, Zenon DEF DataInv
<1>8. UnitInv'
  BY <1>1, <1>4, QuietUnit DEF Clearing, Flushing, DataInv, mapped
<1>9. BufferHome' /\ MappedHome'
  BY <1>1, <1>4, QuietHome DEF Writing, FlushFor, Flushing, DataInv, mapped
<1> QED
  BY <1>7, <1>8, <1>9 DEF DataInv, HomeInv

LEMMA MoveAwayData ==
  ASSUME CoreInv, DataInv, NEW p \in Names, MoveAway(p)
  PROVE  DataInv'
<1>1. /\ pc = "idle" /\ pc' = "idle" /\ Exists(p)
      /\ away' = [away EXCEPT ![p] = @ \o files[p]]
      /\ files' = [files EXCEPT ![p] = None]
      /\ UNCHANGED <<area, mapName, mapTotal, mode, m, after, ret, last, size, home, lost>>
  BY DEF MoveAway, ctl, hist, mapped
<1>2. Kept
  BY <1>1, SameKept
<1>3. files \in [Names -> Seq(Cell) \cup {None}] /\ away \in [Names -> Seq(Cell)]
  BY DEF CoreInv, TypeOK
<1>4. FilesHome'
  <2>1. \A q \in Names : Exists(q)' => Exists(q) /\ files'[q] = files[q]
    BY <1>1, <1>3 DEF Exists
  <2>2. \A q \in Names : Exists(q)' => \A i \in 1..Len(files'[q]) : OfNext(files'[q][i], q)
    BY <1>2, <2>1, OfKept DEF DataInv, HomeInv, FilesHome, AllOf
  <2>3. ASSUME NEW q \in Names, NEW i \in 1..Len(away'[q])
        PROVE  OfNext(away'[q][i], q)
    <3>1. \A k \in 1..Len(away[q]) : OfNext(away[q][k], q)
      BY <1>2, OfKept DEF DataInv, HomeInv, FilesHome, AllOf
    <3>2. CASE q # p
      BY <1>1, <1>3, <2>3, <3>1, <3>2
    <3>3. CASE q = p
      <4> DEFINE g == away[q]
                 c == files[q]
      <4>1. /\ away'[q] = g \o c
            /\ g \in Seq(Cell) /\ Len(g) \in Nat /\ c \in Seq(Cell) /\ Len(c) \in Nat
        BY <1>1, <1>3, <3>3, LenProperties DEF Exists
      <4>2. \A k \in 1..Len(c) : OfNext(c[k], q)
        BY <1>1, <1>2, <3>3, OfKept DEF DataInv, HomeInv, FilesHome, AllOf
      <4>3. \A k \in 1..Len(g) : OfNext(g[k], q)
        BY <3>1
      <4> HIDE DEF g, c
      <4> QED
        BY <2>3, <4>1, <4>2, <4>3, JoinedOf
    <3> QED
      BY <3>2, <3>3
  <2> QED
    BY <2>2, <2>3, FilesNext
<1>5. UnitInv'
  BY <1>1, QuietUnit DEF Clearing, Flushing, DataInv
<1>6. BufferHome' /\ MappedHome'
  BY <1>1, QuietHome DEF Writing, FlushFor, Flushing, DataInv
<1> QED
  BY <1>4, <1>5, <1>6 DEF DataInv, HomeInv

\* A step that puts no cell of a line into the buffer
LEMMA PlainHome ==
  ASSUME CoreInv, DataInv, pc \notin {"down", "total"}, pc' # "down",
         UNCHANGED <<mapName, mapTotal, mode, last, size, home, lost>>,
         \A i \in 1..Len(area') :
            area'[i][1] # "data" \/ (i \in 1..Len(area) /\ area'[i] = area[i]),
         m'.path = m.path, m'.remain = m.remain \/ m'.remain = <<>>,
         \A i \in 1..m'.total_len : i \in 1..Len(area') /\ (i <= m.total_len \/ area'[i][1] # "data"),
         m'.total_len <= 1 /\ pc' # "total" => m.total_len <= 1,
         mode = "MMAP" => mapTotal <= Len(area'), Writing' => Writing
  PROVE  BufferHome' /\ MappedHome'
<1>1. Kept
  BY SameKept
<1>2. m.total_len \in Nat /\ mapTotal \in Nat /\ Len(area) \in Nat
  BY Model DEF CoreInv, TypeOK
<1>3. BufferHome'
  <2>1. Writing' => home'[last'] = m'.path
    BY DEF DataInv, HomeInv, BufferHome
  <2>2. ASSUME NEW i \in 1..m'.total_len PROVE OfNext(area'[i], m'.path)
    BY <1>1, <1>2, <2>2, PlainOf, OfKept DEF DataInv, HomeInv, BufferHome, AllOf
  <2>3. \A i \in 1..Len(m'.remain) : OfNext(m'.remain[i], m'.path)
    BY <1>1, OfKept DEF DataInv, HomeInv, BufferHome, AllOf
  <2> QED
    BY <2>1, <2>2, <2>3, BufferNext
<1>4. MappedHome'
  <2>1. ASSUME mapTotal < BufLen, mode = "MMAP", NEW i \in 1..mapTotal
        PROVE  /\ OfNext(area'[i], mapName)
               /\ m'.total_len <= 1 /\ pc' # "total" => StrayNext(area'[i])
    BY <1>1, <1>2, <2>1, PlainOf, OfKept DEF DataInv, HomeInv, MappedHome, AllOf
  <2> QED
    BY <2>1, MappedNext
<1> QED
  BY <1>3, <1>4

LEMMA LengthData ==
  ASSUME CoreInv, DataInv, Length
  PROVE  DataInv'
<1>1. /\ UNCHANGED <<files, away, mapName, mapTotal, mode, m, last, size, home, lost, after, ret>>
      /\ pc = "len" /\ pc' = after /\ after \in {"unit", "ended", "flushed", "cleared"}
      /\ area' = [area EXCEPT ![m.hp] = Hdr(m.content_len)]
  BY DEF Length, disk, mapped, hist, CoreInv, TypeOK
<1>2. /\ area' \in Seq(Cell) /\ Len(area') = Len(area)
      /\ \A i \in 1..Len(area') : area'[i][1] # "data" \/ area'[i] = area[i]
  <2>1. m.content_len \in Nat /\ area \in Seq(Cell)
    BY DEF CoreInv, TypeOK
  <2>2. Hdr(m.content_len) \in Cell /\ Hdr(m.content_len)[1] # "data"
    BY <2>1, CellsAre
  <2> DEFINE n == Len(area)
             h == Hdr(m.content_len)
  <2>3. n \in Nat /\ area \in [1..n -> Cell]
    BY <2>1, LenProperties
  <2> HIDE DEF n, h
  <2>4. area' \in [1..n -> Cell] /\ \A i \in 1..n : area'[i] = h \/ area'[i] = area[i]
    BY <1>1, <2>2, <2>3 DEF h
  <2>5. area' \in Seq(Cell)
    BY <2>3, <2>4
  <2>6. Len(area') = n
    BY <2>3, <2>4, <2>5, LenProperties
  <2> QED
    BY <2>2, <2>4, <2>5, <2>6 DEF n, h
<1>3. UnitInv'
  BY <1>1, <1>2, LenProperties DEF DataInv, UnitInv, Clearing, Flushing
<1>4. BufferHome' /\ MappedHome'
  BY <1>1, <1>2, Model, PlainHome DEF Writing, FlushFor, Flushing, CoreInv, LenInv
<1>5. FilesHome'
  BY <1>1, SameKept, SameFiles DEF DataInv, HomeInv
<1> QED
  BY <1>3, <1>4, <1>5 DEF DataInv, HomeInv

LEMMA EndedData ==
  ASSUME CoreInv, DataInv, Ended, pc' # "flush"
  PROVE  DataInv'
<1>1. /\ pc = "ended" /\ pc' = "section"
      /\ UNCHANGED <<files, away, mapName, mapTotal, mode, last, size, home, lost>>
      /\ area' = PutAt(area, m.total_len, <<Hdr(0)>>)
      /\ m' = [m EXCEPT !.content_len = 0, !.remain = <<>>, !.zlib = "INIT",
                        !.hp = m.total_len + 1, !.total_len = m.total_len + 1]
  BY DEF Ended, WriteOut, disk, mapped, hist
<1>2. m \in ModelType /\ m.total_len \in Nat /\ m.total_len <= Len(area) /\ Len(area) \in Nat
  BY Model
<1>3. /\ Len(area') \in Nat /\ Len(area') >= Len(area) /\ Len(area') >= m.total_len + 1
      /\ \A i \in 1..Len(area') :
               \/ i = m.total_len + 1 /\ area'[i][1] = "header"
               \/ i \in 1..Len(area) /\ i # m.total_len + 1 /\ area'[i] = area[i]
  BY <1>1, <1>2, HeaderPut
<1>4. /\ m'.total_len = m.total_len + 1 /\ m'.remain = <<>> /\ m'.zlib = "INIT"
      /\ m'.path = m.path
  BY <1>1, <1>2 DEF ModelType
<1>5. UnitInv'
  <2>1. Len(area') >= 1 => area'[1][1] # "data"
    BY <1>2, <1>3 DEF DataInv, UnitInv
  <2>2. ~Clearing' /\ m'.total_len >= 1
    BY <1>1, <1>2, <1>4 DEF Clearing
  <2> QED
    BY <1>1, <1>4, <2>1, <2>2 DEF DataInv, UnitInv
<1>6. BufferHome' /\ MappedHome'
  <2>1. Writing
    BY <1>1 DEF Writing
  <2>2. mode = "MMAP" => mapTotal <= Len(area')
    BY <1>2, <1>3 DEF CoreInv, LenInv, TypeOK
  <2>3. \A i \in 1..m'.total_len :
           i \in 1..Len(area') /\ (i <= m.total_len \/ area'[i][1] # "data")
    BY <1>2, <1>3, <1>4
  <2>4. \A i \in 1..Len(area') :
           area'[i][1] # "data" \/ (i \in 1..Len(area) /\ area'[i] = area[i])
    BY <1>3
  <2>5. m'.total_len <= 1 => m.total_len <= 1
    BY <1>2, <1>4
  <2> QED
    BY <1>1, <1>4, <2>1, <2>2, <2>3, <2>4, <2>5, PlainHome
<1>7. FilesHome'
  BY <1>1, SameKept, SameFiles DEF DataInv, HomeInv
<1> QED
  BY <1>5, <1>6, <1>7 DEF DataInv, HomeInv

LEMMA ClearData ==
  ASSUME CoreInv, DataInv, Clear
  PROVE  DataInv'
<1>1. /\ pc = "clear" /\ pc' = "total" /\ after' = "cleared"
      /\ m' = [m EXCEPT !.total_len = 0, !.zlib = IF @ = "END" THEN "INIT" ELSE @,
                      !.remain = <<>>, !.content_len = 0, !.hp = 1]
      /\ area' = PutAt(area, 0, <<Hdr(0)>>)
      /\ UNCHANGED <<files, away, mapName, mapTotal, mode, ret, last, size, home, lost>>
  BY DEF Clear, UpdateLength, disk, mapped, hist
<1>2. m \in ModelType /\ m.total_len \in Nat /\ Len(area) \in Nat
  BY Model
<1>3. /\ Len(area') \in Nat /\ Len(area') >= Len(area)
      /\ \A i \in 1..Len(area') :
               \/ i = 1 /\ area'[i][1] = "header"
               \/ i \in 1..Len(area) /\ i # 1 /\ area'[i] = area[i]
  BY <1>1, <1>2, HeaderPut
<1>4. /\ m'.total_len = 0 /\ m'.remain = <<>> /\ (m'.zlib = "ING" => m.zlib = "ING")
      /\ m'.path = m.path
  BY <1>1, <1>2 DEF ModelType
<1>5. UnitInv'
  BY <1>1, <1>3, <1>4 DEF Clearing, DataInv, UnitInv, Flushing
<1>6. BufferHome' /\ MappedHome'
  <2>1. Writing' => Writing
    BY <1>1 DEF Writing, FlushFor, Flushing
  <2>2. mode = "MMAP" => mapTotal <= Len(area')
    BY <1>2, <1>3 DEF CoreInv, LenInv, TypeOK
  <2>3. \A i \in 1..m'.total_len :
           i \in 1..Len(area') /\ (i <= m.total_len \/ area'[i][1] # "data")
    BY <1>4
  <2>4. \A i \in 1..Len(area') :
           area'[i][1] # "data" \/ (i \in 1..Len(area) /\ area'[i] = area[i])
    BY <1>3
  <2> QED
    BY <1>1, <1>4, <2>1, <2>2, <2>3, <2>4, PlainHome
<1>7. FilesHome'
  BY <1>1, SameKept, SameFiles DEF DataInv, HomeInv
<1> QED
  BY <1>5, <1>6, <1>7 DEF DataInv, HomeInv

LEMMA ClearedData ==
  ASSUME CoreInv, DataInv, Cleared
  PROVE  DataInv'
<1>1. /\ pc = "cleared" /\ pc' = ret /\ m' = [m EXCEPT !.total_len = 1]
      /\ UNCHANGED <<files, away, area, mapName, mapTotal, mode, after, ret, last, size, home, lost>>
      /\ ret \in {"idle", "section", "open", "close"}
  BY DEF Cleared, disk, hist, mapped, CoreInv, TypeOK
<1>2. /\ m'.total_len = 1 /\ m'.remain = m.remain /\ m'.zlib = m.zlib /\ m'.path = m.path
      /\ m'.is_open_ok = m.is_open_ok
  BY <1>1, Model DEF ModelType
<1>3. /\ Len(area) \in Nat /\ Len(area) >= 1 /\ area[1][1] # "data" /\ m.total_len = 0
      /\ m.zlib # "ING"
  BY <1>1, Model DEF CoreInv, LenInv, DataInv, UnitInv, Clearing, Flushing
<1>4. UnitInv'
  BY <1>1, <1>2, <1>3 DEF Clearing, Flushing, DataInv, UnitInv
<1>5. BufferHome' /\ MappedHome'
  BY <1>1, <1>2, <1>3, PlainHome DEF Writing, FlushFor, Flushing, CoreInv, LenInv
<1>6. FilesHome'
  BY <1>1, SameKept, SameFiles DEF DataInv, HomeInv
<1> QED
  BY <1>4, <1>5, <1>6 DEF DataInv, HomeInv

\* With no more than a header in use, nothing waits for a block.
LEMMA NothingWaits == CoreInv /\ UnitInv /\ m.total_len <= 1 => m.remain = <<>> /\ m.zlib # "ING"
  BY Model DEF UnitInv

LEMMA RecoveredData ==
  ASSUME CoreInv, DataInv, Recovered
  PROVE  DataInv'
<1>1. /\ pc = "close" /\ pc' = "idle"
      /\ UNCHANGED <<files, away, area, mapName, mapTotal, mode, last, size, home, lost>>
      /\ m' = [m EXCEPT !.stream = "CLOSE", !.total_len = 0, !.path = None]
  BY DEF Recovered, disk, hist, mapped
<1>2. /\ m \in ModelType /\ m.total_len \in Nat /\ m.total_len <= 1 /\ ~m.is_open_ok
      /\ m.remain = <<>> /\ m.zlib # "ING"
  BY <1>1, Model, NothingWaits DEF CoreInv, PhaseInv, DataInv
<1>3. /\ m'.total_len = 0 /\ m'.remain = m.remain /\ m'.zlib = m.zlib
      /\ m'.is_open_ok = m.is_open_ok
  BY <1>1, <1>2 DEF ModelType
<1>4. Kept
  BY <1>1, SameKept
<1>5. UnitInv'
  BY <1>1, <1>2, <1>3 DEF Clearing, Flushing, DataInv, UnitInv
<1>6. BufferHome'
  <2>1. ~Writing'
    BY <1>1 DEF Writing, FlushFor, Flushing
  <2> QED
    BY <1>2, <1>3, <2>1, BufferNext
<1>7. MappedHome'
  BY <1>1, <1>2, <1>4, OfKept, MappedNext DEF DataInv, HomeInv, MappedHome, AllOf
<1>8. FilesHome'
  BY <1>1, <1>4, SameFiles DEF DataInv, HomeInv
<1> QED
  BY <1>5, <1>6, <1>7, <1>8 DEF DataInv, HomeInv

LEMMA OpenFileData ==
  ASSUME CoreInv, DataInv, OpenFile
  PROVE  DataInv'
<1>1. /\ pc = "open" /\ pc' = "idle"
      /\ UNCHANGED <<away, mapTotal, mode, last, size, home, lost>>
  BY DEF OpenFile, hist
<1>2. /\ arg \in Names /\ m \in ModelType /\ m.total_len \in Nat /\ Len(area) \in Nat
      /\ m.total_len <= 1 /\ m.remain = <<>> /\ m.zlib # "ING"
  BY <1>1, Model, NothingWaits DEF CoreInv, PhaseInv, DataInv
<1>3. Kept
  BY <1>1, SameKept
<1>4. mapTotal < BufLen /\ mode = "MMAP" =>
         \A i \in 1..mapTotal : Of(area[i], mapName) /\ Stray(area[i])
  BY <1>1, <1>2 DEF DataInv, HomeInv, MappedHome, AllOf
<1>5. ~Writing' /\ ~Clearing' /\ ~Flushing'
  BY <1>1 DEF Writing, FlushFor, Flushing, Clearing
<1>6. CASE /\ files' = Created(arg)
           /\ m' = [Opened(m, arg) EXCEPT !.zlib = "INIT", !.total_len = 1, !.hp = 1,
                                          !.is_open_ok = TRUE]
           /\ mapName' = IF mode = "MMAP" THEN arg ELSE mapName
           /\ area' = PutAt(area, 0, <<Hdr(0)>>)
  <2> DEFINE o == Opened(m, arg)
  <2>1. o \in ModelType /\ o.remain = <<>> /\ o.path = arg
    BY <1>2, OpenedIs DEF CoreInv
  <2> HIDE DEF o
  <2>2. m' = [o EXCEPT !.zlib = "INIT", !.total_len = 1, !.hp = 1, !.is_open_ok = TRUE]
    BY <1>6 DEF o
  <2>3. m'.total_len = 1 /\ m'.remain = <<>> /\ m'.zlib = "INIT"
    BY <2>1, <2>2 DEF ModelType
  <2>4. /\ Len(area') \in Nat /\ Len(area') >= Len(area) /\ Len(area') >= 1
        /\ \A i \in 1..Len(area') :
                 \/ i = 1 /\ area'[i][1] = "header"
                 \/ i \in 1..Len(area) /\ i # 1 /\ area'[i] = area[i]
    BY <1>2, <1>6, HeaderPut
  <2>5. area'[1][1] # "data"
    BY <2>4
  <2>6. UnitInv'
    BY <1>1, <1>2, <1>5, <1>6, <2>3, <2>5, CLoganAssumption DEF DataInv, UnitInv
  <2>7. BufferHome'
    BY <1>5, <2>3, <2>5, PlainOf, BufferNext
  <2>8. MappedHome'
    <3>1. ASSUME mapTotal < BufLen, mode = "MMAP", NEW i \in 1..mapTotal
          PROVE  OfNext(area'[i], mapName') /\ StrayNext(area'[i])
      <4>1. i \in 1..Len(area')
        BY <1>1, <1>2, <2>4, <3>1 DEF CoreInv, LenInv, TypeOK
      <4>2. CASE area'[i][1] # "data"
        BY <4>2, PlainOf
      <4>3. CASE area'[i] = area[i]
        BY <1>3, <1>4, <3>1, <4>3, OfKept DEF OfNext, StrayNext
      <4> QED
        BY <2>4, <4>1, <4>2, <4>3
    <3> QED
      BY <1>1, <3>1, MappedNext
  <2>9. FilesHome'
    BY <1>1, <1>2, <1>3, <1>6, CreatedFiles DEF DataInv, HomeInv
  <2> QED
    BY <2>6, <2>7, <2>8, <2>9 DEF DataInv, HomeInv
<1>7. CASE /\ m' = [m EXCEPT !.path = arg, !.stream = "NONE", !.total_len = 0, !.is_open_ok = FALSE]
           /\ UNCHANGED <<files, mapName, area>>
  <2>1. m'.total_len = 0 /\ m'.remain = <<>> /\ m'.zlib = m.zlib /\ ~m'.is_open_ok
    BY <1>2, <1>7 DEF ModelType
  <2>2. UnitInv'
    BY <1>1, <1>2, <1>5, <1>7, <2>1 DEF DataInv, UnitInv
  <2>3. BufferHome'
    BY <1>5, <2>1, BufferNext
  <2>4. MappedHome'
    BY <1>1, <1>3, <1>4, <1>7, OfKept, MappedNext
  <2>5. FilesHome'
    BY <1>1, <1>3, <1>7, SameFiles DEF DataInv, HomeInv
  <2> QED
    BY <2>2, <2>3, <2>4, <2>5 DEF DataInv, HomeInv
<1> QED
  BY <1>6, <1>7 DEF OpenFile

LEMMA CrashData ==
  ASSUME CoreInv, DataInv, Crash
  PROVE  DataInv'
<1>1. /\ pc' = "down" /\ m' = Fresh
      /\ UNCHANGED <<files, away, mapName, mode, last, size, home>>
      /\ \/ /\ mode = "MMAP" /\ area' = Upto(area, mapTotal) /\ mapTotal' = mapTotal
            /\ \E W : Lose("cut", W)
         \/ /\ area' = <<>> /\ mapTotal' = 0
            /\ \E W : Lose("dropped", W)
  BY DEF Crash, disk
<1>2. lost'["stray"] = lost["stray"]
  BY <1>1 DEF Lose, CoreInv, TypeOK, Causes
<1>3. Kept
  <2>1. last \in Nat
    BY CLoganAssumption DEF CoreInv, TypeOK
  <2> QED
    BY <1>1, <1>2, <2>1 DEF Kept
<1>4. CASE mode = "MMAP" /\ area' = Upto(area, mapTotal) /\ mapTotal' = mapTotal
  <2>1. mapTotal \in Nat /\ mapTotal <= Len(area) /\ area \in Seq(Cell) /\ Len(area) \in Nat
    BY <1>4, Model DEF CoreInv, TypeOK, LenInv
  <2>2. Len(area') = mapTotal /\ \A i \in 1..mapTotal : area'[i] = area[i]
    BY <1>4, <2>1, UptoIs
  <2>3. UnitInv'
    BY <1>1, <1>4, <2>1, <2>2, FreshIs DEF DataInv, UnitInv, Clearing, Flushing
  <2>4. MappedHome'
    BY <1>1, <1>3, <1>4, <2>2, OfKept, MappedNext DEF DataInv, HomeInv, MappedHome, AllOf
  <2> QED
    BY <1>1, <1>3, <2>3, <2>4, FreshIs, BufferNext, SameFiles
       DEF DataInv, HomeInv, Writing, FlushFor, Flushing
<1>5. CASE area' = <<>> /\ mapTotal' = 0
  <2>1. UnitInv'
    BY <1>1, <1>5, FreshIs, LenProperties DEF UnitInv, Clearing, Flushing
  <2>2. MappedHome'
    BY <1>1, <1>5, MappedNext
  <2> QED
    BY <1>1, <1>3, <2>1, <2>2, FreshIs, BufferNext, SameFiles
       DEF DataInv, HomeInv, Writing, FlushFor, Flushing
<1> QED
  BY <1>1, <1>4, <1>5

LEMMA TearData ==
  ASSUME CoreInv, DataInv, Tear
  PROVE  DataInv'
<1> DEFINE k == m.total_len
<1>1. /\ area \in Seq(Cell) /\ Len(area) \in Nat /\ mapTotal \in Nat /\ k \in Nat /\ k <= Len(area)
      /\ mode = "MMAP" => mapTotal <= Len(area)
  BY Model DEF CoreInv, TypeOK, LenInv
<1>2. Kept
  <2>1. last \in Nat
    BY CLoganAssumption DEF CoreInv, TypeOK
  <2> QED
    BY <2>1, TearIs, TearNames DEF Kept
<1> HIDE DEF k
<1>3. ASSUME NEW i \in 1..mapTotal', area'[i][1] = "data"
      PROVE  /\ mode = "MMAP" /\ i \in 1..Len(area) /\ area'[i] = area[i]
             /\ mapTotal' < BufLen => mapTotal < BufLen
             /\ i \in 1..mapTotal \/ (pc = "total" /\ i \in 1..k)
  BY <1>1, <1>3, TearCells DEF k
<1>4. UnitInv'
  <2>1. mapName' = None => mapTotal' = 0
    <3> SUFFICES ASSUME mapName' = None PROVE mapTotal' = 0
      OBVIOUS
    <3>1. mapName = None /\ mapTotal = 0
      BY TearNames, CLoganAssumption DEF DataInv, UnitInv
    <3>2. ~(pc = "total" /\ mode = "MMAP")
      BY <3>1, CLoganAssumption DEF CoreInv, LinkInv, Closed
    <3>3. mapTotal' \in {0, mapTotal} \/ (pc = "total" /\ mode = "MMAP")
      BY DEF Tear, TearWrite, TearTotal, TearLength, TearOpen, TearBlocks
    <3> QED
      BY <3>1, <3>2, <3>3
  <2>2. Len(area') >= 1 => area'[1][1] # "data"
    BY <1>1, <1>3, TearCells DEF DataInv, UnitInv
  <2> QED
    BY <2>1, <2>2, TearIs, FreshIs DEF UnitInv, Clearing, Flushing
<1>5. BufferHome'
  BY TearIs, FreshIs, BufferNext DEF Writing, FlushFor, Flushing
<1>6. MappedHome'
  <2> SUFFICES ASSUME mapTotal' < BufLen, NEW i \in 1..mapTotal', area'[i][1] = "data"
               PROVE  OfNext(area'[i], mapName')
    BY PlainOf, TearIs, MappedNext
  <2>1. CASE pc = "total" /\ i \in 1..k
    <3>1. mapName = m.path /\ mapName' = mapName
      BY <1>3, <2>1, TearNames DEF CoreInv, LinkInv, Closed
    <3> QED
      BY <1>2, <1>3, <2>1, <3>1, OfKept DEF DataInv, HomeInv, BufferHome, AllOf, k
  <2>2. CASE i \in 1..mapTotal
    <3>1. Of(area[i], mapName)
      BY <1>3, <2>2 DEF DataInv, HomeInv, MappedHome, AllOf
    <3>2. mapName' = mapName \/ Stray(area[i])
      BY <1>3, <2>2, TearNames DEF CoreInv, PhaseInv, DataInv, HomeInv, MappedHome
    <3>3. Of(area[i], mapName')
      BY <3>1, <3>2 DEF Of, Stray
    <3> QED
      BY <1>2, <1>3, <3>3, OfKept
  <2> QED
    BY <1>3, <2>1, <2>2
<1>7. FilesHome'
  <2>1. CASE files' = files
    BY <1>2, <2>1, TearFiles, SameFiles DEF DataInv, HomeInv
  <2>2. CASE files' = Created(arg)
    BY <1>2, <2>2, TearFiles, CreatedFiles DEF DataInv, HomeInv, CoreInv, TypeOK
  <2>3. ASSUME NEW n \in Nat, n <= m.total_len, files' = [files EXCEPT ![m.path] = @ \o Upto(area, n)],
               Exists(m.path), m.path \in Names
        PROVE  FilesHome'
    BY <1>2, <2>3, TearFiles, AppendedFiles, Zenon DEF DataInv
  <2> QED
    BY <2>1, <2>2, <2>3, TearFiles
<1> QED
  BY <1>4, <1>5, <1>6, <1>7 DEF DataInv, HomeInv

LEMMA InitCallData ==
  ASSUME CoreInv, DataInv, clogan_init
  PROVE  DataInv'
<1>1. /\ pc = "down" /\ mode' = "MMAP"
      /\ UNCHANGED <<away, area, mapName, mapTotal, last, size, home>>
  BY DEF clogan_init
<1>2. /\ mapTotal \in Nat /\ mapTotal <= Len(area) /\ Len(area) \in Nat /\ area \in Seq(Cell)
      /\ mapName \in Names \cup {None} /\ last \in Nat /\ 1..last \subseteq Lines
  BY <1>1, Model, CLoganAssumption DEF CoreInv, LenInv, TypeOK, Lines
<1>3. mapTotal < BufLen => \A i \in 1..mapTotal : Of(area[i], mapName)
  BY <1>1 DEF DataInv, HomeInv, MappedHome, AllOf
<1>4. ~Writing' /\ ~Clearing' /\ (pc' # "flush" => ~Flushing')
  BY DEF clogan_init, Writing, FlushFor, Flushing, Clearing
<1>5. CASE /\ mapTotal < BufLen
           /\ files' = Created(mapName)
           /\ m' = [Opened(Fresh, mapName) EXCEPT !.total_len = mapTotal]
           /\ mapTotal > 1 /\ pc' = "flush"
           /\ UNCHANGED lost
  <2> DEFINE o == Opened(Fresh, mapName)
  <2>1. /\ o \in ModelType /\ o.path = mapName /\ ~o.is_open_ok /\ o.remain = <<>>
        /\ o.zlib = "NONE"
    BY <1>2, FreshIs, OpenedIs DEF CoreInv
  <2> HIDE DEF o
  <2>2. m' = [o EXCEPT !.total_len = mapTotal]
    BY <1>5 DEF o
  <2>3. /\ m'.path = mapName /\ ~m'.is_open_ok /\ m'.total_len = mapTotal /\ m'.remain = <<>>
        /\ m'.zlib = "NONE"
    BY <2>1, <2>2 DEF ModelType
  <2>4. Kept
    BY <1>1, <1>5, SameKept
  <2>5. UnitInv'
    BY <1>1, <1>4, <2>3 DEF DataInv, UnitInv
  <2>6. BufferHome'
    BY <1>1, <1>3, <1>4, <1>5, <2>3, <2>4, OfKept, BufferNext
  <2>7. MappedHome'
    <3>1. mapTotal' < BufLen => \A i \in 1..mapTotal' : OfNext(area'[i], mapName')
      BY <1>1, <1>3, <2>4, OfKept
    <3>2. ~(m'.total_len <= 1)
      BY <1>2, <1>5, <2>3
    <3> QED
      BY <3>1, <3>2, MappedNext
  <2>8. FilesHome'
    BY <1>1, <1>2, <1>5, <2>4, CreatedFiles DEF DataInv, HomeInv
  <2> QED
    BY <2>5, <2>6, <2>7, <2>8 DEF DataInv, HomeInv
<1>6. CASE /\ m' = Fresh /\ pc' = "idle" /\ UNCHANGED files /\ Kept
           /\ mapTotal < BufLen => \A i \in 1..mapTotal : StrayNext(area[i])
  <2>1. UnitInv'
    BY <1>1, <1>4, <1>6, FreshIs DEF DataInv, UnitInv
  <2>2. BufferHome'
    BY <1>4, <1>6, FreshIs, BufferNext
  <2>3. MappedHome'
    BY <1>1, <1>3, <1>6, OfKept, MappedNext
  <2>4. FilesHome'
    BY <1>1, <1>6, SameFiles DEF DataInv, HomeInv
  <2> QED
    BY <2>1, <2>2, <2>3, <2>4 DEF DataInv, HomeInv
<1>7. CASE /\ mapTotal < BufLen
           /\ m' = Fresh /\ pc' = "idle" /\ UNCHANGED files
           /\ lost'["stray"] = lost["stray"] \cup LinesIn(Upto(area, mapTotal))
  <2>1. Kept
    BY <1>1, <1>2, <1>7 DEF Kept
  <2>2. ASSUME NEW i \in 1..mapTotal PROVE StrayNext(area[i])
    <3> DEFINE s == Upto(area, mapTotal)
    <3>1. s \in Seq(Cell) /\ Len(s) = mapTotal /\ s[i] = area[i]
      BY <1>2, <2>2, UptoIs
    <3>2. i \in DOMAIN s
      BY <3>1, LenProperties
    <3>3. Of(area[i], mapName)
      BY <1>3, <1>7, <2>2
    <3> HIDE DEF s
    <3>4. area[i][1] = "data" => area[i][2] \in LinesIn(s)
      BY <1>2, <3>1, <3>2, <3>3 DEF LinesIn, Of
    <3> QED
      BY <1>7, <3>4 DEF StrayNext, s
  <2> QED
    BY <1>6, <1>7, <2>1, <2>2
<1>8. CASE /\ m' = Fresh /\ pc' = "idle" /\ UNCHANGED <<files, lost>>
           /\ mapName = None \/ mapTotal <= 1 \/ mapTotal >= BufLen
  <2>1. Kept
    BY <1>1, <1>8, SameKept
  <2>2. ASSUME mapTotal < BufLen, NEW i \in 1..mapTotal PROVE StrayNext(area[i])
    <3>1. BufLen \in Nat
      BY CLoganAssumption
    <3>2. mapTotal <= 1
      BY <1>2, <1>8, <2>2, <3>1 DEF DataInv, UnitInv
    <3>3. i = 1 /\ Len(area) >= 1
      BY <1>2, <2>2, <3>2
    <3> QED
      BY <3>3, PlainOf DEF DataInv, UnitInv
  <2> QED
    BY <1>6, <1>8, <2>1, <2>2
<1>9. \/ /\ mapTotal < BufLen
         /\ files' = Created(mapName)
         /\ m' = [Opened(Fresh, mapName) EXCEPT !.total_len = mapTotal]
         /\ mapTotal > 1 /\ pc' = "flush"
         /\ UNCHANGED lost
      \/ /\ mapTotal < BufLen
         /\ m' = Fresh /\ pc' = "idle" /\ UNCHANGED files
         /\ lost'["stray"] = lost["stray"] \cup LinesIn(Upto(area, mapTotal))
      \/ /\ m' = Fresh /\ pc' = "idle" /\ UNCHANGED <<files, lost>>
         /\ mapName = None \/ mapTotal <= 1 \/ mapTotal >= BufLen
  <2>1. lost \in [Causes -> SUBSET Lines] /\ BufLen \in Nat
    BY CLoganAssumption DEF CoreInv, TypeOK
  <2> DEFINE W == LinesIn(Upto(area, mapTotal))
             V == W \ UNION {Stored(p) : p \in Names}
  <2>2. \A l : l = [lost EXCEPT !["stray"] = @ \cup W, !["unrecovered"] = @ \cup V] =>
                  l["stray"] = lost["stray"] \cup W
    <3> HIDE DEF W, V
    <3> QED
      BY <2>1 DEF Causes
  <2>3. \/ /\ mapTotal > 1 /\ mapTotal < BufLen
           /\ \/ /\ files' = Created(mapName)
                 /\ m' = [Opened(Fresh, mapName) EXCEPT !.total_len = mapTotal]
                 /\ pc' = "flush" /\ UNCHANGED lost
              \/ /\ lost' = [lost EXCEPT !["stray"] = @ \cup W, !["unrecovered"] = @ \cup V]
                 /\ m' = Fresh /\ pc' = "idle" /\ UNCHANGED files
        \/ /\ mapName = None \/ ~(mapTotal > 1) \/ ~(mapTotal < BufLen)
           /\ m' = Fresh /\ pc' = "idle" /\ UNCHANGED <<files, lost>>
    BY DEF clogan_init
  <2> HIDE DEF W, V
  <2>4. (~(mapTotal > 1) => mapTotal <= 1) /\ (~(mapTotal < BufLen) => mapTotal >= BufLen)
    BY <1>2, <2>1
  <2>5. CASE lost' = [lost EXCEPT !["stray"] = @ \cup W, !["unrecovered"] = @ \cup V]
    BY <2>2, <2>3, <2>4, <2>5 DEF W
  <2> QED
    BY <2>3, <2>4, <2>5
<1> QED
  BY <1>5, <1>7, <1>8, <1>9

LEMMA WriteData ==
  ASSUME CoreInv, DataInv, clogan_write
  PROVE  DataInv'
<1> DEFINE p    == m.path
           mm   == IF Exists(p) THEN m ELSE Opened(m, p)
<1>1. /\ pc = "idle" /\ pc' = "compress" /\ last < MaxWrites /\ m.is_open_ok
      /\ last' = last + 1 /\ home' = [home EXCEPT ![last + 1] = p]
      /\ files' = Created(p)
      /\ UNCHANGED <<away, mapName, mapTotal, size>>
      /\ \/ /\ mode' = "MEMORY"
            /\ area' = <<Hdr(0)>>
            /\ m' = [mm EXCEPT !.total_len = 1, !.content_len = 0, !.remain = <<>>,
                               !.hp = 1, !.zlib = "INIT"]
            /\ \E W : Lose("dropped", W)
         \/ m' = mm /\ UNCHANGED <<mode, area, lost>>
  BY DEF clogan_write
<1>2. p \in Names
  BY <1>1 DEF CoreInv, LinkInv, Closed
<1>3. /\ mm \in ModelType /\ mm.path = p /\ mm.total_len = m.total_len
      /\ mm.is_open_ok = m.is_open_ok /\ mm.remain = m.remain /\ mm.zlib = m.zlib
  BY <1>1, <1>2, Model, OpenedIs DEF CoreInv
<1> HIDE DEF mm
<1>4. lost'["stray"] = lost["stray"]
  BY <1>1 DEF Lose, CoreInv, TypeOK, Causes
<1>5. Kept /\ home'[last'] = p
  <2>1. last \in Nat /\ MaxWrites \in Nat /\ home \in [Lines -> Names \cup {None}]
    BY CLoganAssumption DEF CoreInv, TypeOK
  <2>2. last + 1 \in Lines /\ \A w \in 1..last : w # last + 1 /\ w \in Lines
    BY <1>1, <2>1 DEF Lines
  <2>3. home'[last + 1] = p /\ \A w \in 1..last : home'[w] = home[w]
    BY <1>1, <2>1, <2>2
  <2> QED
    BY <1>1, <1>4, <2>1, <2>3 DEF Kept
<1>6. ~Clearing /\ ~Clearing' /\ ~Flushing'
  BY <1>1 DEF Clearing, Flushing
<1>7. FilesHome'
  BY <1>1, <1>2, <1>5, CreatedFiles DEF DataInv, HomeInv
<1>8. CASE /\ mode' = "MEMORY"
           /\ area' = <<Hdr(0)>>
           /\ m' = [mm EXCEPT !.total_len = 1, !.content_len = 0, !.remain = <<>>,
                              !.hp = 1, !.zlib = "INIT"]
  <2>1. m'.path = p /\ m'.total_len = 1 /\ m'.remain = <<>> /\ m'.zlib = "INIT"
    BY <1>3, <1>8 DEF ModelType
  <2>2. area'[1][1] # "data"
    BY <1>8, CellsAre
  <2>3. UnitInv'
    BY <1>1, <1>6, <2>1, <2>2 DEF DataInv, UnitInv
  <2>4. BufferHome'
    BY <1>5, <2>1, <2>2, PlainOf, BufferNext
  <2>5. MappedHome'
    BY <1>1, <1>8, MappedNext
  <2> QED
    BY <1>7, <2>3, <2>4, <2>5 DEF DataInv, HomeInv
<1>9. CASE m' = mm /\ UNCHANGED <<mode, area, lost>>
  <2>1. UnitInv'
    BY <1>1, <1>3, <1>6, <1>9 DEF DataInv, UnitInv
  <2>2. BufferHome'
    BY <1>3, <1>5, <1>9, OfKept, BufferNext DEF DataInv, HomeInv, BufferHome, AllOf
  <2>3. MappedHome'
    BY <1>1, <1>3, <1>5, <1>9, OfKept, MappedNext DEF DataInv, HomeInv, MappedHome, AllOf
  <2> QED
    BY <1>7, <2>1, <2>2, <2>3 DEF DataInv, HomeInv
<1> QED
  BY <1>1, <1>8, <1>9

LEMMA TotalData ==
  ASSUME CoreInv, DataInv, Total
  PROVE  DataInv'
<1>1. /\ pc = "total" /\ pc' = "len"
      /\ mapTotal' = IF mode = "MMAP" THEN m.total_len ELSE mapTotal
      /\ area' = Upto(area, Max({m.total_len, 1}))
      /\ UNCHANGED <<files, away, mapName, mode, m, after, ret, last, size, home, lost>>
  BY DEF Total, disk, hist
<1>2. /\ area \in Seq(Cell) /\ m.total_len \in Nat /\ m.total_len <= Len(area)
      /\ Len(area) >= 1 /\ Len(area) \in Nat
  BY <1>1, Model DEF CoreInv, LenInv
<1>3. PICK n \in Nat : /\ n <= Len(area) /\ n >= 1 /\ n >= m.total_len
                       /\ area' = Upto(area, n)
  BY TotalIs
<1>4. \A i \in 1..n : area'[i] = area[i]
  BY <1>1, <1>2, <1>3, UptoIs
<1>5. area[1][1] # "data" /\ area'[1] = area[1]
  BY <1>2, <1>3, <1>4 DEF DataInv, UnitInv
<1>6. m.path \in Names /\ (mode = "MMAP" => mapName = m.path)
  BY <1>1 DEF CoreInv, LinkInv, Closed
<1>7. Kept
  BY <1>1, SameKept
<1>8. \A i \in 1..m.total_len : OfNext(area'[i], m.path)
  BY <1>2, <1>3, <1>4, <1>7, OfKept DEF DataInv, HomeInv, BufferHome, AllOf
<1>9. UnitInv'
  BY <1>1, <1>5, <1>6, CLoganAssumption DEF Clearing, Flushing, DataInv, UnitInv
<1>10. BufferHome'
  <2>1. Writing' => Writing
    BY <1>1 DEF Writing, FlushFor, Flushing
  <2> QED
    BY <1>1, <1>7, <1>8, <2>1, OfKept, BufferNext DEF DataInv, HomeInv, BufferHome, AllOf
<1>11. MappedHome'
  <2>1. mapTotal' < BufLen /\ (mode' = "MMAP" \/ pc' = "down") =>
           \A i \in 1..mapTotal' : OfNext(area'[i], mapName')
    BY <1>1, <1>6, <1>8
  <2>2. mapTotal' < BufLen /\ mode' = "MMAP" /\ m'.total_len <= 1 /\ pc' \notin {"down", "total"} =>
           \A i \in 1..mapTotal' : StrayNext(area'[i])
    <3> SUFFICES ASSUME mode = "MMAP", m.total_len <= 1, NEW i \in 1..m.total_len
                 PROVE  StrayNext(area'[i])
      BY <1>1
    <3>1. i = 1
      BY <1>2
    <3> QED
      BY <1>5, <3>1, PlainOf
  <2> QED
    BY <2>1, <2>2, MappedNext
<1>12. FilesHome'
  BY <1>1, <1>7, SameFiles DEF DataInv, HomeInv
<1> QED
  BY <1>9, <1>10, <1>11, <1>12 DEF DataInv, HomeInv

\* A step that compresses puts cells of the open file behind what is in use.
LEMMA GrownHome ==
  ASSUME CoreInv, DataInv, NEW S, Grown(S), ~Closed, m.total_len >= 1,
         pc # "down", pc' = "total",
         UNCHANGED <<files, away, mapName, mapTotal, mode, last, home, lost>>, Kept,
         \A c \in S : OfNext(c, m.path), Writing' => Writing
  PROVE  HomeInv' /\ (Len(area') >= 1 => area'[1][1] # "data")
<1>1. m.total_len \in Nat /\ Len(area) \in Nat /\ mapTotal \in Nat /\ m.total_len <= Len(area)
  BY Model DEF CoreInv, TypeOK
<1>2. /\ m'.total_len \in Nat /\ Len(area') \in Nat /\ Len(area') >= Len(area)
      /\ Len(area') >= m'.total_len /\ m'.path = m.path
      /\ \A i \in 1..Len(area') :
            \/ i > m.total_len /\ area'[i] \in S
            \/ /\ i \in 1..Len(area) /\ (i <= m.total_len \/ i > m'.total_len)
               /\ area'[i] = area[i]
      /\ \A i \in 1..Len(m'.remain) : m'.remain[i] \in S
  BY LenProperties DEF Grown, ModelType
<1>3. Kept
  OBVIOUS
<1>4. \A c \in S : OfNext(c, m.path)
  OBVIOUS
<1>5. BufferHome'
  <2>1. ASSUME NEW i \in 1..m'.total_len PROVE OfNext(area'[i], m'.path)
    BY <1>1, <1>2, <1>3, <1>4, OfKept DEF DataInv, HomeInv, BufferHome, AllOf
  <2>2. \A i \in 1..Len(m'.remain) : OfNext(m'.remain[i], m'.path)
    BY <1>2, <1>4
  <2>3. Writing' => home'[last'] = m'.path
    BY <1>2 DEF DataInv, HomeInv, BufferHome
  <2> QED
    BY <2>1, <2>2, <2>3, BufferNext
<1>6. MappedHome'
  <2>1. ASSUME mapTotal < BufLen, mode = "MMAP", NEW i \in 1..mapTotal
        PROVE  OfNext(area'[i], mapName)
    <3>1. i \in 1..Len(area') /\ mapName = m.path
      BY <1>1, <1>2, <2>1 DEF CoreInv, LenInv, LinkInv
    <3>2. CASE area'[i] \in S
      BY <1>4, <3>1, <3>2
    <3>3. CASE area'[i] = area[i]
      BY <1>3, <2>1, <3>3, OfKept DEF DataInv, HomeInv, MappedHome, AllOf
    <3> QED
      BY <1>2, <3>1, <3>2, <3>3
  <2> QED
    BY <2>1, MappedNext
<1>7. FilesHome'
  BY <1>3, SameFiles DEF DataInv, HomeInv
<1>8. Len(area') >= 1 => area'[1][1] # "data"
  BY <1>1, <1>2 DEF DataInv, UnitInv
<1> QED
  BY <1>5, <1>6, <1>7, <1>8 DEF HomeInv

LEMMA RemainOf ==
  CoreInv /\ DataInv => \A c \in CellsIn(m.remain) : Of(c, m.path)
<1> SUFFICES ASSUME CoreInv, DataInv, NEW c \in CellsIn(m.remain) PROVE Of(c, m.path)
  OBVIOUS
<1>1. DOMAIN m.remain = 1..Len(m.remain)
  BY LenProperties DEF CoreInv, TypeOK
<1>2. \A i \in 1..Len(m.remain) : Of(m.remain[i], m.path)
  BY DEF DataInv, HomeInv, BufferHome, AllOf
<1> QED
  BY <1>1, <1>2 DEF CellsIn

LEMMA EndUnitData ==
  ASSUME CoreInv, DataInv, EndCompress, pc' = "total",
         (pc = "flush" /\ after' = "flushed" /\ m.zlib = "ING") \/ (pc = "unit" /\ after' = "ended"),
         UNCHANGED <<files, away, mapName, mapTotal, mode, last, size, home, lost, ret>>
  PROVE  DataInv'
<1> DEFINE S == CellsIn(m.remain) \cup {Pad, End}
<1>1. Grown(S) /\ m'.zlib = "END" /\ m'.remain = <<>> /\ m'.total_len >= m.total_len + 2
  BY Model, EndGrows
<1>2. ~Closed /\ pc # "down" /\ ~Clearing /\ ~Clearing' /\ (Writing' => Writing)
  BY DEF Closed, Clearing, Writing, FlushFor, Flushing
<1>3. m.total_len >= 1
  BY <1>2, Model DEF DataInv, UnitInv, CoreInv, PhaseInv, Writing
<1>4. Kept /\ \A c \in S : OfNext(c, m.path)
  BY RemainOf, CellsAre, PlainOf, SameKept, OfKept
<1> HIDE DEF S
<1>5. HomeInv' /\ (Len(area') >= 1 => area'[1][1] # "data")
  BY <1>1, <1>2, <1>3, <1>4, GrownHome
<1>6. UnitInv'
  <2>1. m'.total_len >= 1
    BY <1>1, <1>3, Model DEF Grown, ModelType
  <2>2. mapName' = None => mapTotal' = 0
    BY DEF DataInv, UnitInv
  <2> QED
    BY <1>1, <1>2, <1>5, <2>1, <2>2 DEF UnitInv
<1> QED
  BY <1>5, <1>6 DEF DataInv

LEMMA CompressData ==
  ASSUME CoreInv, DataInv, Compress
  PROVE  DataInv'
<1>1. /\ pc = "compress" /\ pc' = "total" /\ after' = "unit"
      /\ UNCHANGED <<files, away, mapName, mapTotal, mode, last, home, lost>>
      /\ \E c \in Nat : size' = [size EXCEPT ![last] = @ + c]
  BY CLoganAssumption DEF Compress, UpdateLength, disk, mapped
<1>2. /\ last \in Lines /\ m.is_open_ok /\ ~Closed /\ Writing /\ ~Clearing /\ ~Clearing'
      /\ ~Flushing'
  BY <1>1 DEF CoreInv, PhaseInv, Writing, Closed, Clearing, Flushing
<1>3. m.total_len >= 1 /\ home[last] = m.path /\ m.total_len \in Nat /\ last \in 1..last
  BY <1>2, Model DEF DataInv, UnitInv, HomeInv, BufferHome, Lines
<1>4. Kept
  <2>1. PICK c \in Nat : size' = [size EXCEPT ![last] = @ + c]
    BY <1>1
  <2>2. size \in [Lines -> Nat] /\ last \in Nat /\ 1..last \subseteq Lines
    BY CLoganAssumption DEF CoreInv, TypeOK, Lines
  <2>3. ASSUME NEW w \in 1..last PROVE 1..size[w] \subseteq 1..size'[w]
    BY <2>1, <2>2
  <2> QED
    BY <1>1, <2>2, <2>3 DEF Kept
<1>5. CASE m.zlib \in {"INIT", "ING"}
  <2>1. PICK c \in CSizes : Blocks(Out(c)) /\ size' = [size EXCEPT ![last] = @ + c]
    BY <1>5 DEF Compress, Out
  <2>2. /\ Out(c) \in Seq(Cell) /\ (m.zlib = "INIT" => Len(Out(c)) >= B)
        /\ \A x \in CellsIn(Out(c)) :
              x[1] = "data" => x[2] = last /\ x[3] \in 1..(size[last] + c)
    BY <1>2, OutIs
  <2> DEFINE S == CellsIn(m.remain) \cup CellsIn(Out(c))
  <2>3. /\ Grown(S) /\ m'.zlib = "ING"
        /\ Len(Out(c)) >= B => m'.total_len >= m.total_len + B
    BY <2>1, <2>2, Model, BlocksGrow
  <2>4. \A x \in S : OfNext(x, m.path)
    <3>1. size'[last] = size[last] + c
      BY <1>2, <2>1 DEF CoreInv, TypeOK
    <3>2. \A x \in CellsIn(Out(c)) : OfNext(x, m.path)
      BY <1>1, <1>3, <2>2, <3>1 DEF OfNext
    <3> QED
      BY <1>4, <3>2, RemainOf, OfKept
  <2> HIDE DEF S
  <2>5. HomeInv' /\ (Len(area') >= 1 => area'[1][1] # "data")
    BY <1>1, <1>2, <1>3, <1>4, <2>3, <2>4, GrownHome
  <2>6. m'.total_len \in Nat /\ m'.total_len > 1
    <3>1. m'.total_len \in Nat /\ m'.total_len >= m.total_len
      BY <2>3 DEF Grown, ModelType
    <3>2. CASE m.zlib = "ING"
      BY <1>3, <3>1, <3>2 DEF DataInv, UnitInv
    <3>3. CASE m.zlib = "INIT"
      BY <1>3, <2>2, <2>3, <3>1, <3>3, CLoganAssumption
    <3> QED
      BY <1>5, <3>2, <3>3
  <2>7. UnitInv'
    BY <1>1, <1>2, <2>3, <2>5, <2>6 DEF DataInv, UnitInv
  <2> QED
    BY <2>5, <2>7 DEF DataInv
<1>6. CASE m.zlib \notin {"INIT", "ING"}
  <2>1. m' = [m EXCEPT !.zlib = "INIT"] /\ area' = area
    BY <1>6 DEF Compress
  <2>2. /\ m'.total_len = m.total_len /\ m'.remain = m.remain /\ m'.path = m.path
        /\ m'.is_open_ok = m.is_open_ok /\ m'.zlib = "INIT" /\ m'.fp = m.fp /\ m' \in ModelType
    BY <2>1, Model DEF ModelType
  <2> DEFINE S == CellsIn(m.remain)
  <2>3. Grown(S)
    <3>1. \A i \in 1..Len(m.remain) : m.remain[i] \in S
      BY Model, LenProperties DEF CellsIn, ModelType
    <3> QED
      BY <2>1, <2>2, <3>1, Model DEF Grown
  <2>4. \A x \in S : OfNext(x, m.path)
    BY <1>4, RemainOf, OfKept
  <2> HIDE DEF S
  <2>5. HomeInv' /\ (Len(area') >= 1 => area'[1][1] # "data")
    BY <1>1, <1>2, <1>3, <1>4, <2>3, <2>4, GrownHome
  <2>6. UnitInv'
    BY <1>1, <1>2, <1>3, <1>6, <2>2, <2>5 DEF DataInv, UnitInv
  <2> QED
    BY <2>5, <2>6 DEF DataInv
<1> QED
  BY <1>5, <1>6

LEMMA StutterData == CoreInv /\ DataInv /\ UNCHANGED vars => DataInv'
BY DEF DataInv, UnitInv, HomeInv, BufferHome, MappedHome, FilesHome, AllOf, Of, Stray, Exists,
       Clearing, Flushing, FlushFor, Writing, vars, disk, mapped, ctl, hist

LEMMA NextData == CoreInv /\ DataInv /\ [Steps]_vars => DataInv'
<1> SUFFICES ASSUME CoreInv, DataInv, [Steps]_vars PROVE DataInv'
  OBVIOUS
<1>1. CASE Call
  BY <1>1, InitCallData, ControlData, WriteData DEF Call
<1>2. CASE Recovered \/ OpenFile \/ Compress \/ Total \/ Length
  BY <1>2, RecoveredData, OpenFileData, CompressData, TotalData, LengthData
<1>3. CASE Section \/ Unmap \/ Flushed
  BY <1>3, ControlData
<1>4. CASE Unit
  BY <1>4, EndUnitData, ControlData DEF Unit, WriteOut, UpdateLength, disk, mapped, hist
<1>5. CASE Flush
  BY <1>5, EndUnitData, ControlData DEF Flush, UpdateLength, disk, mapped, hist
<1>6. CASE Ended
  BY <1>6, ControlData, EndedData
<1>7. CASE Dest \/ PutOut \/ Clear \/ Cleared
  BY <1>7, DestData, PutOutData, ClearData, ClearedData
<1>8. CASE Crash \/ \E p \in Names : MoveAway(p)
  BY <1>8, CrashData, MoveAwayData
<1>9. CASE UNCHANGED vars
  BY <1>9, StutterData
<1> QED
  BY <1>1, <1>2, <1>3, <1>4, <1>5, <1>6, <1>7, <1>8, <1>9 DEF Steps

LEMMA InitData == Init => DataInv
<1> SUFFICES ASSUME Init PROVE DataInv
  OBVIOUS
<1>1. /\ pc = "down" /\ m = Fresh /\ area = <<>> /\ mapTotal = 0
      /\ files = [p \in Names |-> None] /\ away = [p \in Names |-> <<>>]
  BY DEF Init
<1>2. ~Writing /\ ~Clearing /\ ~Flushing
  BY <1>1 DEF Writing, FlushFor, Flushing, Clearing
<1>3. UnitInv
  BY <1>1, <1>2, FreshIs, LenProperties DEF UnitInv
<1>4. BufferHome
  BY <1>1, <1>2, FreshIs DEF BufferHome, AllOf
<1>5. MappedHome
  BY <1>1 DEF MappedHome, AllOf
<1>6. FilesHome
  BY <1>1 DEF FilesHome, AllOf, Exists
<1> QED
  BY <1>3, <1>4, <1>5, <1>6 DEF DataInv, HomeInv

LEMMA HomeRight == CoreInv /\ DataInv => RightFile
<1> SUFFICES ASSUME CoreInv, DataInv, NEW p \in Names, NEW w \in LinesIn(Cells(p) \o away[p])
             PROVE  home[w] = p \/ w \in lost["stray"]
  BY DEF RightFile
<1> DEFINE a == Cells(p)
           b == away[p]
<1>1. a \in Seq(Cell) /\ Len(a) \in Nat /\ b \in Seq(Cell) /\ Len(b) \in Nat
  BY LenProperties DEF CoreInv, TypeOK, Cells, Exists
<1>2. (\A i \in 1..Len(a) : Of(a[i], p)) /\ (\A i \in 1..Len(b) : Of(b[i], p))
  BY DEF DataInv, HomeInv, FilesHome, AllOf, Cells
<1> HIDE DEF a, b
<1> DEFINE s == a \o b
<1>3. /\ s \in Seq(Cell) /\ Len(s) = Len(a) + Len(b) /\ DOMAIN s = 1..Len(s)
      /\ \A i \in 1..Len(a) + Len(b) : s[i] = IF i <= Len(a) THEN a[i] ELSE b[i - Len(a)]
  BY <1>1, ConcatProperties, LenProperties
<1>4. PICK i \in DOMAIN s : s[i][1] = "data" /\ s[i][2] = w
  BY DEF LinesIn, a, b
<1> HIDE DEF s
<1>5. Of(s[i], p)
  <2>1. CASE i <= Len(a)
    <3>1. i \in 1..Len(a) /\ s[i] = a[i]
      BY <1>1, <1>3, <1>4, <2>1
    <3> QED
      BY <1>2, <3>1
  <2>2. CASE ~(i <= Len(a))
    <3>1. i - Len(a) \in 1..Len(b) /\ s[i] = b[i - Len(a)]
      BY <1>1, <1>3, <2>2
    <3> QED
      BY <1>2, <3>1
  <2> QED
    BY <2>1, <2>2
<1> QED
  BY <1>4, <1>5 DEF Of

\* No cell of a line gets into a file but the one that was open when clogan_write was
\* called, whatever crashes, reopened files and deleted buffers come between: the buffer
\* only ever holds lines of the file the model names, the mapped buffer only lines of
\* the file its header names, and another file is opened with an empty buffer.  The
\* exception are lines a recovery kept although it could not open their file.
THEOREM LinesStayInTheirFile == Spec => []RightFile
<1>1. Init => DataInv
  BY InitData
<1>2. CoreInv /\ DataInv /\ [Next]_vars => DataInv'
  BY NextData, TearData DEF Next
<1>3. CoreInv /\ DataInv => RightFile
  BY HomeRight
<1> QED
  BY <1>1, <1>2, <1>3, CoreInductive, PTL DEF Spec

-------------------------------------------------------------------------------
(* What a reader finds who follows the headers *)

\* A set of natural numbers that is not empty has a least member.
LEMMA LeastMember ==
  ASSUME NEW S \in SUBSET Nat, S # {}
  PROVE  \E x \in S : \A y \in S : x <= y
<1> DEFINE R == {p \in Nat \X Nat : p[1] < p[2]}
<1>1. IsWellFoundedOn(R, Nat)
  BY NatLessThanWellFounded DEF OpToRel
<1>2. \E x \in S : \A y \in S : <<y, x>> \notin R
  BY <1>1, WFMin
<1>3. \A x, y \in Nat : <<y, x>> \notin R => x <= y
  OBVIOUS
<1> HIDE DEF R
<1> QED
  BY <1>2, <1>3

LEMMA MinIs ==
  ASSUME NEW a \in Nat, NEW b \in Nat, a <= b
  PROVE  Min({a, b}) = a
  BY DEF Min

\* Where headers announce what is there, following them from header to header finds
\* the cells that some header announces.
LEMMA FramedIs ==
  ASSUME NEW s \in Seq(Cell), Plain(s)
  PROVE  Framed(s) = FramesOf(s, Len(s))
<1> DEFINE n == Len(s)
           P == Nat \ {0}
           From(i) == {s[k] : k \in {k \in i..n : \E j \in i..n : InFrame(s, j, k)}}
           Step(f, i) == IF i > n THEN {}
                         ELSE IF s[i][1] = "header"
                              THEN {s[k] : k \in (i + 1)..Min({i + s[i][2], n})} \cup f[i + 1 + s[i][2]]
                              ELSE f[i + 1]
           g == [i \in P |-> From(i)]
<1>1. n \in Nat /\ \A i \in 1..n : s[i] \in Cell /\ s[i][2] \in Nat
  BY LengthsAre, LenProperties, ElementOfSeq
<1>2. /\ \A j \in 1..n : IsHeader(s[j]) => j + s[j][2] <= n
      /\ \A j \in 1..n, k \in 1..n : InFrame(s, j, k) => ~IsHeader(s[k])
  BY DEF Plain, FitsIn, Clean
<1> HIDE DEF n
<1>3. ASSUME NEW i \in P, i > n PROVE From(i) = {}
  BY <1>1, <1>3
<1>4. ASSUME NEW i \in P, i <= n, ~IsHeader(s[i]) PROVE From(i) = From(i + 1)
  BY <1>1, <1>4 DEF InFrame
<1>5. ASSUME NEW i \in P, i <= n, IsHeader(s[i])
      PROVE  /\ Min({i + s[i][2], n}) = i + s[i][2] /\ i + 1 + s[i][2] \in P
             /\ i + 1 + s[i][2] > i
             /\ From(i) = {s[k] : k \in (i + 1)..(i + s[i][2])} \cup From(i + 1 + s[i][2])
  <2> DEFINE l == s[i][2]
             e == i + 1 + l
  <2>1. i \in 1..n /\ l \in Nat /\ i + l <= n
    BY <1>1, <1>2, <1>5
  <2>2. Min({i + l, n}) = i + l
    <3>1. i + l \in Nat
      BY <2>1
    <3> QED
      BY <1>1, <2>1, <3>1, MinIs
  <2> HIDE DEF l
  <2>3. e \in P /\ e > i
    BY <2>1
  <2>4. ASSUME NEW k \in Int
        PROVE  (k \in i..n /\ \E j \in i..n : InFrame(s, j, k))
                 <=> (k \in (i + 1)..(i + l) \/ (k \in e..n /\ \E j \in e..n : InFrame(s, j, k)))
    <3>1. ASSUME k \in i..n, NEW j \in i..n, InFrame(s, j, k), k \notin (i + 1)..(i + l)
          PROVE  k \in e..n /\ j \in e..n
      <4>1. j \in 1..n /\ k \in 1..n /\ IsHeader(s[j]) /\ j < k
        BY <1>1, <2>1, <3>1 DEF InFrame
      <4>2. j # i
        BY <1>1, <2>1, <3>1 DEF InFrame, l
      <4>3. ~(j <= i + l)
        BY <1>1, <1>2, <1>5, <2>1, <4>1, <4>2 DEF InFrame, l
      <4> QED
        BY <1>1, <2>1, <3>1, <4>1, <4>3
    <3>2. ASSUME k \in (i + 1)..(i + l) PROVE k \in i..n /\ i \in i..n /\ InFrame(s, i, k)
      BY <1>1, <1>5, <2>1, <3>2 DEF InFrame, l
    <3>3. e..n \subseteq i..n
      BY <1>1, <2>1
    <3> QED
      BY <3>1, <3>2, <3>3
  <2>5. {k \in i..n : \E j \in i..n : InFrame(s, j, k)}
          = ((i + 1)..(i + l)) \cup {k \in e..n : \E j \in e..n : InFrame(s, j, k)}
    <3>1. i \in Int /\ e \in Int /\ l \in Int /\ n \in Int
      BY <1>1, <2>1, <2>3
    <3> QED
      BY <2>4, <3>1
  <2> HIDE DEF e
  <2>6. From(i) = {s[k] : k \in (i + 1)..(i + l)} \cup From(e)
    BY <2>5
  <2> QED
    BY <2>2, <2>3, <2>6 DEF l, e
<1>6. \A i \in P : Step(g, i) = From(i)
  <2> HIDE DEF From
  <2> SUFFICES ASSUME NEW i \in P PROVE Step(g, i) = From(i)
    OBVIOUS
  <2>1. CASE i > n
    BY <1>3, <2>1
  <2>2. CASE i <= n /\ IsHeader(s[i])
    <3>1. /\ Min({i + s[i][2], n}) = i + s[i][2] /\ i + 1 + s[i][2] \in P
          /\ From(i) = {s[k] : k \in (i + 1)..(i + s[i][2])} \cup From(i + 1 + s[i][2])
      BY <1>5, <2>2
    <3>2. g[i + 1 + s[i][2]] = From(i + 1 + s[i][2])
      BY <3>1
    <3> HIDE DEF g
    <3>3. Step(g, i) = {s[k] : k \in (i + 1)..Min({i + s[i][2], n})} \cup g[i + 1 + s[i][2]]
      BY <1>1, <2>2 DEF IsHeader
    <3> QED
      BY <3>1, <3>2, <3>3
  <2>3. CASE i <= n /\ ~IsHeader(s[i])
    <3>1. From(i) = From(i + 1) /\ i + 1 \in P
      BY <1>4, <2>3
    <3>2. g[i + 1] = From(i + 1)
      BY <3>1
    <3> HIDE DEF g
    <3>3. Step(g, i) = g[i + 1]
      BY <1>1, <2>3 DEF IsHeader
    <3> QED
      BY <3>1, <3>2, <3>3
  <2>4. i > n \/ i <= n
    BY <1>1
  <2> HIDE DEF Step, g
  <2> QED
    BY <2>1, <2>2, <2>3, <2>4
<1> HIDE DEF From
<1>7. g = [i \in P |-> Step(g, i)]
  BY <1>6
<1>8. ASSUME NEW f, f = [i \in P |-> Step(f, i)] PROVE f = g
  <2>1. \A i \in P : f[i] = Step(f, i) /\ g[i] = Step(g, i)
    BY <1>7, <1>8
  <2> DEFINE D == {d \in Nat : d < n /\ f[n - d] # g[n - d]}
  <2>2. D = {}
    <3> SUFFICES ASSUME D # {} PROVE FALSE
      OBVIOUS
    <3>1. PICK d \in D : \A y \in D : d <= y
      BY LeastMember
    <3> HIDE DEF D
    <3> DEFINE i == n - d
    <3>2. i \in P /\ i <= n /\ f[i] # g[i] /\ d \in Nat /\ d < n
      BY <1>1, <3>1 DEF D
    <3>3. \A k \in P : k > i => f[k] = g[k]
      <4> SUFFICES ASSUME NEW k \in P, k > i PROVE f[k] = g[k]
        OBVIOUS
      <4>1. CASE k > n
        BY <2>1, <4>1
      <4>2. CASE k <= n
        <5>1. n - k \in Nat /\ ~(d <= n - k) /\ n - (n - k) = k /\ n - k < n
          BY <1>1, <3>2, <4>2
        <5>2. n - k \notin D
          BY <3>1, <5>1
        <5> QED
          BY <5>1, <5>2 DEF D
      <4> QED
        BY <1>1, <4>1, <4>2
    <3> HIDE DEF i
    <3>4. f[i] = Step(f, i) /\ g[i] = Step(g, i)
      BY <2>1, <3>2
    <3> HIDE DEF g
    <3>5. CASE IsHeader(s[i])
      BY <1>5, <3>2, <3>3, <3>4, <3>5 DEF IsHeader
    <3>6. CASE ~IsHeader(s[i])
      BY <3>2, <3>3, <3>4, <3>6 DEF IsHeader
    <3> QED
      BY <3>5, <3>6
  <2>3. \A i \in P : f[i] = g[i]
    <3> SUFFICES ASSUME NEW i \in P PROVE f[i] = g[i]
      OBVIOUS
    <3>1. CASE i > n
      BY <2>1, <3>1
    <3>2. CASE i <= n
      <4>1. n - i \in Nat /\ n - i < n /\ n - (n - i) = i
        BY <1>1, <3>2
      <4> QED
        BY <2>2, <4>1
    <3> QED
      BY <1>1, <3>1, <3>2
  <2> HIDE DEF Step
  <2> QED
    BY <1>8, <2>3
<1>9. (CHOOSE f : f = [i \in P |-> Step(f, i)]) = g
  <2> HIDE DEF Step, g
  <2> QED
    BY <1>7, <1>8
<1>10. Framed(s) = (CHOOSE f : f = [i \in P |-> Step(f, i)])[1]
  BY DEF Framed, n
<1>11. g[1] = FramesOf(s, Len(s))
  BY <1>1 DEF FramesOf, From, n
<1> QED
  BY <1>9, <1>10, <1>11

LEMMA InFrames ==
  \A s, n, c : c \in FramesOf(s, n) <=> \E k \in 1..n : c = s[k] /\ \E j \in 1..n : InFrame(s, j, k)
BY DEF FramesOf

\* Only the first cells count.
LEMMA SameCells ==
  ASSUME NEW s, NEW t, NEW n \in Nat, \A i \in 1..n : s[i] = t[i]
  PROVE  /\ FramesOf(s, n) = FramesOf(t, n)
         /\ FitsIn(s, n) => FitsIn(t, n)
         /\ Clean(s, n) => Clean(t, n)
  BY DEF InFrame, FramesOf, FitsIn, Clean

LEMMA Prefixes ==
  ASSUME NEW s, NEW n \in Nat, NEW k \in Nat, k <= n
  PROVE  /\ Clean(s, n) => Clean(s, k)
         /\ FramesOf(s, k) \subseteq FramesOf(s, n)
  BY InFrames DEF Clean

LEMMA NoFrame ==
  ASSUME NEW s, NEW n \in Nat, n <= 1
  PROVE  FramesOf(s, n) = {}
  BY InFrames DEF InFrame

LEMMA UptoFrames ==
  ASSUME NEW s \in Seq(Cell), NEW n \in Nat, n <= Len(s), FitsIn(s, n), Clean(s, n)
  PROVE  Plain(Upto(s, n)) /\ Framed(Upto(s, n)) = FramesOf(s, n)
<1> DEFINE t == Upto(s, n)
<1>1. t \in Seq(Cell) /\ Len(t) = n /\ \A i \in 1..n : s[i] = t[i]
  BY UptoIs
<1> HIDE DEF t
<1>2. Plain(t) /\ FramesOf(s, n) = FramesOf(t, n)
  BY <1>1, SameCells DEF Plain
<1>3. Framed(t) = FramesOf(t, n)
  BY <1>1, <1>2, FramedIs
<1> QED
  BY <1>2, <1>3 DEF t

LEMMA NothingFramed == Plain(<<>>) /\ Framed(<<>>) = {} /\ <<>> \in Seq(Cell)
<1>1. <<>> \in Seq(Cell) /\ Len(<<>>) = 0
  OBVIOUS
<1>2. Plain(<<>>)
  BY <1>1 DEF Plain, FitsIn, Clean
<1>3. Framed(<<>>) = FramesOf(<<>>, 0)
  BY <1>1, <1>2, FramedIs
<1> QED
  BY <1>1, <1>2, <1>3, NoFrame

\* What is appended behind complete units is found, and nothing gets lost.
LEMMA FramedConcat ==
  ASSUME NEW s \in Seq(Cell), NEW t \in Seq(Cell), Plain(s), Plain(t)
  PROVE  Plain(s \o t) /\ Framed(s \o t) = Framed(s) \cup Framed(t) /\ s \o t \in Seq(Cell)
<1> DEFINE a == Len(s)
           b == Len(t)
           u == s \o t
<1>1. a \in Nat /\ b \in Nat
  BY LenProperties
<1>2. /\ u \in Seq(Cell) /\ Len(u) = a + b
      /\ \A i \in 1..(a + b) : u[i] = IF i <= a THEN s[i] ELSE t[i - a]
  BY ConcatProperties
<1>3. /\ \A j \in 1..a : IsHeader(s[j]) => j + s[j][2] <= a
      /\ \A j \in 1..a, k \in 1..a : InFrame(s, j, k) => ~IsHeader(s[k])
      /\ \A j \in 1..b : IsHeader(t[j]) => j + t[j][2] <= b
      /\ \A j \in 1..b, k \in 1..b : InFrame(t, j, k) => ~IsHeader(t[k])
      /\ \A i \in 1..a : s[i][2] \in Nat
      /\ \A i \in 1..b : t[i][2] \in Nat
  BY <1>1, ElementOfSeq, LengthsAre DEF Plain, FitsIn, Clean
<1> HIDE DEF a, b, u
<1>4. \A i \in 1..a : i \in 1..(a + b) /\ u[i] = s[i]
  BY <1>1, <1>2
<1>5. \A i \in 1..b : a + i \in 1..(a + b) /\ u[a + i] = t[i]
  BY <1>1, <1>2
<1>6. \A k \in 1..(a + b) : k \in 1..a \/ \E i \in 1..b : k = a + i
  BY <1>1
<1>7. ASSUME NEW j \in 1..a, NEW k \in 1..a PROVE InFrame(u, j, k) <=> InFrame(s, j, k)
  BY <1>4 DEF InFrame
<1>8. ASSUME NEW j \in 1..b, NEW k \in 1..b PROVE InFrame(u, a + j, a + k) <=> InFrame(t, j, k)
  <2>1. u[a + j] = t[j] /\ t[j][2] \in Nat
    BY <1>3, <1>5
  <2> QED
    BY <1>1, <2>1 DEF InFrame
<1>9. ASSUME NEW j \in 1..a, NEW k \in 1..b
      PROVE  ~InFrame(u, j, a + k) /\ ~InFrame(u, a + k, j)
  <2>1. u[j] = s[j] /\ (IsHeader(s[j]) => j + s[j][2] <= a)
    BY <1>3, <1>4
  <2> QED
    BY <1>1, <1>3, <2>1 DEF InFrame
<1>10. Plain(u)
  <2>1. ASSUME NEW j \in 1..(a + b), IsHeader(u[j]) PROVE j + u[j][2] <= a + b
    <3>1. CASE j \in 1..a
      BY <1>1, <1>3, <1>4, <2>1, <3>1
    <3>2. ASSUME NEW i \in 1..b, j = a + i PROVE j + u[j][2] <= a + b
      <4>1. u[j] = t[i] /\ IsHeader(t[i]) /\ t[i][2] \in Nat
        BY <1>3, <1>5, <2>1, <3>2
      <4> QED
        BY <1>1, <1>3, <3>2, <4>1
    <3> QED
      BY <1>6, <3>1, <3>2
  <2>2. ASSUME NEW j \in 1..(a + b), NEW k \in 1..(a + b), InFrame(u, j, k)
        PROVE  ~IsHeader(u[k])
    <3>1. CASE j \in 1..a /\ k \in 1..a
      BY <1>3, <1>4, <1>7, <2>2, <3>1
    <3>2. ASSUME NEW i \in 1..b, NEW l \in 1..b, j = a + i, k = a + l PROVE ~IsHeader(u[k])
      BY <1>3, <1>5, <1>8, <2>2, <3>2
    <3> QED
      BY <1>6, <1>9, <2>2, <3>1, <3>2
  <2> QED
    BY <1>2, <2>1, <2>2 DEF Plain, FitsIn, Clean
<1>11. FramesOf(u, a + b) = FramesOf(s, a) \cup FramesOf(t, b)
  <2>1. ASSUME NEW c \in FramesOf(u, a + b) PROVE c \in FramesOf(s, a) \cup FramesOf(t, b)
    <3>1. PICK k \in 1..(a + b), j \in 1..(a + b) : c = u[k] /\ InFrame(u, j, k)
      BY InFrames
    <3>2. CASE j \in 1..a /\ k \in 1..a
      BY <1>4, <1>7, <3>1, <3>2, InFrames
    <3>3. ASSUME NEW i \in 1..b, NEW l \in 1..b, j = a + i, k = a + l
          PROVE  c \in FramesOf(t, b)
      BY <1>5, <1>8, <3>1, <3>3, InFrames
    <3> QED
      BY <1>6, <1>9, <3>1, <3>2, <3>3
  <2>2. ASSUME NEW c \in FramesOf(s, a) PROVE c \in FramesOf(u, a + b)
    <3>1. PICK k \in 1..a, j \in 1..a : c = s[k] /\ InFrame(s, j, k)
      BY InFrames
    <3> QED
      BY <1>4, <1>7, <3>1, InFrames
  <2>3. ASSUME NEW c \in FramesOf(t, b) PROVE c \in FramesOf(u, a + b)
    <3>1. PICK k \in 1..b, j \in 1..b : c = t[k] /\ InFrame(t, j, k)
      BY InFrames
    <3>2. c = u[a + k] /\ InFrame(u, a + j, a + k) /\ a + k \in 1..(a + b) /\ a + j \in 1..(a + b)
      BY <1>5, <1>8, <3>1
    <3> QED
      BY <3>2, InFrames
  <2> QED
    BY <2>1, <2>2, <2>3
<1>12. Framed(u) = FramesOf(u, a + b) /\ Framed(s) = FramesOf(s, a) /\ Framed(t) = FramesOf(t, b)
  BY <1>2, <1>10, FramedIs DEF a, b
<1> QED
  BY <1>2, <1>10, <1>11, <1>12 DEF u

LEMMA FileIs ==
  ASSUME CoreInv, NEW p \in Names
  PROVE  Cells(p) \in Seq(Cell) /\ away[p] \in Seq(Cell) /\ p # None
         /\ (Exists(p) => Cells(p) = files[p]) /\ (~Exists(p) => Cells(p) = <<>>)
BY NothingFramed, CLoganAssumption DEF CoreInv, TypeOK, Cells, Exists

LEMMA FilesStay ==
  ASSUME FilesOK, UNCHANGED away, \A p \in Names : Cells(p)' = Cells(p)
  PROVE  FilesOK' /\ \A p \in Names : InFile(p)' = InFile(p)
  BY DEF FilesOK, InFile

LEMMA SameCellsOfFiles == UNCHANGED files => \A p : Cells(p)' = Cells(p)
BY DEF Cells, Exists

LEMMA CreatedCells ==
  ASSUME CoreInv, NEW q \in Names \cup {None}, files' = Created(q)
  PROVE  \A p \in Names : Cells(p)' = Cells(p)
  BY CLoganAssumption, CreatedIs DEF CoreInv, Cells, Exists

\* Units are appended to a file.
LEMMA FileGrows ==
  ASSUME CoreInv, FilesOK, UNCHANGED away, NEW q \in Names, NEW t \in Seq(Cell), Plain(t),
         \A p \in Names : Cells(p)' = IF p = q THEN Cells(p) \o t ELSE Cells(p)
  PROVE  FilesOK' /\ \A p \in Names : InFile(p)' = IF p = q THEN InFile(p) \cup Framed(t)
                                                            ELSE InFile(p)
<1>1. ASSUME NEW p \in Names
      PROVE  /\ Plain(Cells(p)') /\ Plain(away'[p])
             /\ Framed(Cells(p)') \cup Framed(away'[p])
                  = IF p = q THEN Framed(Cells(p)) \cup Framed(away[p]) \cup Framed(t)
                             ELSE Framed(Cells(p)) \cup Framed(away[p])
  <2>1. Plain(Cells(p)) /\ Plain(away[p]) /\ Cells(p) \in Seq(Cell)
    BY FileIs DEF FilesOK
  <2>2. CASE p = q
    <3>1. Plain(Cells(p) \o t) /\ Framed(Cells(p) \o t) = Framed(Cells(p)) \cup Framed(t)
      BY <2>1, FramedConcat
    <3> QED
      BY <2>1, <2>2, <3>1
  <2>3. CASE p # q
    BY <2>1, <2>3
  <2> QED
    BY <2>2, <2>3
<1>2. FilesOK'
  BY <1>1 DEF FilesOK
<1>3. \A p \in Names : InFile(p)' = IF p = q THEN InFile(p) \cup Framed(t) ELSE InFile(p)
  BY <1>1 DEF InFile
<1> QED
  BY <1>2, <1>3

\* What is moved away stays there.
LEMMA FileMoves ==
  ASSUME CoreInv, FilesOK, NEW q \in Names, MoveAway(q)
  PROVE  FilesOK' /\ \A p \in Names : InFile(p)' = InFile(p)
<1>0. /\ files \in [Names -> Seq(Cell) \cup {None}] /\ away \in [Names -> Seq(Cell)]
      /\ Exists(q) /\ away' = [away EXCEPT ![q] = @ \o files[q]] /\ files' = [files EXCEPT ![q] = None]
  BY DEF MoveAway, CoreInv, TypeOK
<1>1. ASSUME NEW p \in Names
      PROVE  /\ Plain(Cells(p)') /\ Plain(away'[p])
             /\ Framed(Cells(p)') \cup Framed(away'[p]) = Framed(Cells(p)) \cup Framed(away[p])
  BY <1>0, FileIs, FramedConcat, NothingFramed DEF FilesOK, Cells, Exists
<1>2. FilesOK'
  BY <1>1 DEF FilesOK
<1>3. \A p \in Names : InFile(p)' = InFile(p)
  BY <1>1 DEF InFile
<1> QED
  BY <1>2, <1>3

\* The unit an empty file begins with has no lines.
LEMMA HeadUnit ==
  LET unit == <<Hdr(B)>> \o Pads(B) \o <<End>>
  IN  Plain(unit) /\ \A c \in Framed(unit) : c[1] # "data"
<1> DEFINE h == <<Hdr(B)>>
           t == Pads(B)
           e == <<End>>
           u == (h \o t) \o e
<1>1. B \in Nat /\ B >= 1
  BY CLoganAssumption
<1>2. /\ h \in Seq(Cell) /\ Len(h) = 1 /\ h[1] = Hdr(B)
      /\ t \in Seq(Cell) /\ Len(t) = B /\ \A i \in 1..B : t[i] = Pad
      /\ e \in Seq(Cell) /\ Len(e) = 1 /\ e[1] = End
  BY <1>1, CellsAre, PadsAre
<1> HIDE DEF h, t, e
<1> DEFINE v == h \o t
<1>3. /\ v \in Seq(Cell) /\ Len(v) = 1 + B
      /\ \A i \in 1..(1 + B) : v[i] = IF i <= 1 THEN h[i] ELSE t[i - 1]
  <2>1. /\ v \in Seq(Cell) /\ Len(v) = Len(h) + Len(t)
        /\ \A i \in 1..(Len(h) + Len(t)) : v[i] = IF i <= Len(h) THEN h[i] ELSE t[i - Len(h)]
    BY <1>2, ConcatProperties
  <2> QED
    BY <1>1, <1>2, <2>1
<1> HIDE DEF v
<1>4. /\ v \o e \in Seq(Cell) /\ Len(v \o e) = 2 + B
      /\ \A i \in 1..(2 + B) : (v \o e)[i] = IF i <= 1 + B THEN v[i] ELSE e[i - (1 + B)]
  <2>1. /\ v \o e \in Seq(Cell) /\ Len(v \o e) = Len(v) + Len(e)
        /\ \A i \in 1..(Len(v) + Len(e)) : (v \o e)[i] = IF i <= Len(v) THEN v[i] ELSE e[i - Len(v)]
    BY <1>2, <1>3, ConcatProperties
  <2>2. Len(v) + Len(e) = 2 + B
    BY <1>1, <1>2, <1>3
  <2> QED
    BY <1>3, <2>1, <2>2
<1>5. u = v \o e
  BY DEF v
<1> HIDE DEF u
<1>6. u[1] = Hdr(B) /\ (\A i \in 2..(1 + B) : u[i] = Pad) /\ u[2 + B] = End
  <2>1. u[1] = Hdr(B)
    BY <1>1, <1>2, <1>3, <1>4, <1>5
  <2>2. ASSUME NEW i \in 2..(1 + B) PROVE u[i] = Pad
    BY <1>1, <1>2, <1>3, <1>4, <1>5
  <2>3. u[2 + B] = End
    <3> DEFINE j == 2 + B
    <3>1. j \in 1..(2 + B) /\ ~(j <= 1 + B) /\ j - (1 + B) = 1
      BY <1>1
    <3> HIDE DEF j
    <3>2. u[j] = e[j - (1 + B)]
      BY <1>4, <1>5, <3>1
    <3>3. u[j] = End
      BY <1>2, <3>1, <3>2
    <3> QED
      BY <3>3 DEF j
  <2> QED
    BY <2>1, <2>2, <2>3
<1>7. Hdr(B)[2] = B /\ Hdr(B)[1] = "header" /\ Pad[1] = "pad" /\ End[1] = "tail"
  BY DEF Hdr, Pad, End
<1>8. ASSUME NEW i \in 1..(2 + B)
      PROVE  (i = 1 /\ u[i] = Hdr(B)) \/ (i \in 2..(1 + B) /\ u[i] = Pad) \/ (i = 2 + B /\ u[i] = End)
  BY <1>1, <1>6
<1>9. ASSUME NEW j \in 1..(2 + B), IsHeader(u[j]) PROVE j = 1 /\ u[j][2] = B
  BY <1>7, <1>8, <1>9 DEF IsHeader
<1>10. ASSUME NEW j \in 1..(2 + B), NEW k \in 1..(2 + B), InFrame(u, j, k)
       PROVE  u[k] = Pad
  BY <1>1, <1>10, <1>6, <1>9 DEF InFrame
<1>11. Plain(u)
  <2>1. FitsIn(u, 2 + B)
    BY <1>1, <1>9 DEF FitsIn
  <2>2. Clean(u, 2 + B)
    BY <1>7, <1>10 DEF Clean, IsHeader
  <2> QED
    BY <1>4, <1>5, <2>1, <2>2 DEF Plain
<1>12. ASSUME NEW c \in Framed(u) PROVE c[1] # "data"
  <2>1. Framed(u) = FramesOf(u, 2 + B)
    BY <1>4, <1>5, <1>11, FramedIs
  <2>2. PICK k \in 1..(2 + B), j \in 1..(2 + B) : c = u[k] /\ InFrame(u, j, k)
    BY <2>1, InFrames
  <2> QED
    BY <1>7, <1>10, <2>2
<1> QED
  BY <1>11, <1>12 DEF u, h, t, e

-------------------------------------------------------------------------------
(* Headers come and go *)

LEMMA FewerHeaders ==
  ASSUME NEW s, NEW t, NEW a \in Nat, NEW b \in Nat, Clean(s, a),
         \A i \in 1..b : ~IsHeader(t[i]) \/ (i \in 1..a /\ t[i] = s[i])
  PROVE  Clean(t, b)
  BY DEF Clean, InFrame

\* What follows complete units announces nothing.
LEMMA SameFrames ==
  ASSUME NEW s, NEW t, NEW a \in Nat, NEW b \in Nat, a <= b, FitsIn(s, a),
         \A i \in 1..a : t[i] = s[i] /\ s[i][2] \in Nat,
         \A i \in (a + 1)..b : IsHeader(t[i]) => t[i][2] = 0
  PROVE  FitsIn(t, b) /\ FramesOf(t, b) = FramesOf(s, a)
<1>1. \A i \in 1..b : i \in 1..a \/ i \in (a + 1)..b
  OBVIOUS
<1>2. FitsIn(t, b)
  BY <1>1 DEF FitsIn
<1>3. ASSUME NEW j \in 1..b, NEW k \in 1..b, InFrame(t, j, k)
      PROVE  j \in 1..a /\ k \in 1..a /\ InFrame(s, j, k)
  BY <1>1, <1>3 DEF InFrame, FitsIn
<1>4. ASSUME NEW j \in 1..a, NEW k \in 1..a, InFrame(s, j, k)
      PROVE  j \in 1..b /\ k \in 1..b /\ InFrame(t, j, k)
  BY <1>4 DEF InFrame
<1>5. FramesOf(t, b) \subseteq FramesOf(s, a)
  <2> SUFFICES ASSUME NEW c \in FramesOf(t, b) PROVE c \in FramesOf(s, a)
    OBVIOUS
  <2>1. PICK k \in 1..b, j \in 1..b : c = t[k] /\ InFrame(t, j, k)
    BY InFrames
  <2>2. j \in 1..a /\ k \in 1..a /\ InFrame(s, j, k) /\ c = s[k]
    BY <1>3, <2>1
  <2> QED
    BY <2>2, InFrames
<1>6. FramesOf(s, a) \subseteq FramesOf(t, b)
  <2> SUFFICES ASSUME NEW c \in FramesOf(s, a) PROVE c \in FramesOf(t, b)
    OBVIOUS
  <2>1. PICK k \in 1..a, j \in 1..a : c = s[k] /\ InFrame(s, j, k)
    BY InFrames
  <2>2. j \in 1..b /\ k \in 1..b /\ InFrame(t, j, k) /\ c = t[k]
    BY <1>4, <2>1
  <2> QED
    BY <2>2, InFrames
<1> QED
  BY <1>2, <1>5, <1>6

\* A new header behind complete units announces nothing yet.
LEMMA EmptyHeader ==
  ASSUME NEW s, NEW t, NEW n \in Nat, NEW a \in Nat, NEW b \in Nat, n <= a, n + 1 <= b,
         FitsIn(s, n), Clean(s, a), \A i \in 1..a : s[i][2] \in Nat,
         \A i \in 1..b : \/ i = n + 1 /\ t[i] = Hdr(0)
                         \/ i \in 1..a /\ i # n + 1 /\ t[i] = s[i]
  PROVE  /\ Clean(t, b) /\ t[n + 1] = Hdr(0) /\ FitsIn(t, n + 1)
         /\ FramesOf(t, n + 1) = FramesOf(s, n)
         /\ \A x \in Nat : x <= a /\ x <= b /\ FitsIn(s, x) => FitsIn(t, x)
<1>1. Hdr(0)[1] = "header" /\ Hdr(0)[2] = 0
  BY DEF Hdr
<1>2. t[n + 1] = Hdr(0)
  BY n + 1 \in 1..b
<1>3. Clean(t, b)
  <2> SUFFICES ASSUME NEW j \in 1..b, NEW k \in 1..b, InFrame(t, j, k), IsHeader(t[k]) PROVE FALSE
    BY DEF Clean
  <2>1. j # n + 1
    BY <1>1, <1>2 DEF InFrame
  <2>2. j \in 1..a /\ t[j] = s[j] /\ s[j][2] \in Nat /\ IsHeader(s[j]) /\ j < k /\ k <= j + s[j][2]
    BY <2>1 DEF InFrame
  <2>3. CASE k = n + 1
    BY <2>2, <2>3 DEF FitsIn
  <2>4. CASE k # n + 1
    BY <2>2, <2>4 DEF InFrame, Clean
  <2> QED
    BY <2>3, <2>4
<1>4. FitsIn(t, n + 1) /\ FramesOf(t, n + 1) = FramesOf(s, n)
  <2>1. \A i \in 1..n : t[i] = s[i] /\ s[i][2] \in Nat
    OBVIOUS
  <2>2. \A i \in (n + 1)..(n + 1) : IsHeader(t[i]) => t[i][2] = 0
    BY <1>1, <1>2
  <2> DEFINE k == n + 1
  <2>3. k \in Nat /\ n <= k /\ FitsIn(s, n) /\ \A i \in (n + 1)..k : IsHeader(t[i]) => t[i][2] = 0
    BY <2>2
  <2> HIDE DEF k
  <2>4. FitsIn(t, k) /\ FramesOf(t, k) = FramesOf(s, n)
    BY <2>1, <2>3, SameFrames
  <2> QED
    BY <2>4 DEF k
<1>5. ASSUME NEW x \in Nat, x <= a, x <= b, FitsIn(s, x) PROVE FitsIn(t, x)
  BY <1>1, <1>2, <1>5 DEF FitsIn
<1> QED
  BY <1>2, <1>3, <1>4, <1>5

\* The header of a unit is told how long the unit is by now.
LEMMA LongerUnit ==
  ASSUME NEW s, NEW t, NEW a \in Nat, NEW n \in Nat, n <= a, NEW h \in 1..n, NEW c \in Nat,
         h + c <= n, FitsIn(s, n), Clean(s, a), \A i \in 1..a : s[i][2] \in Nat,
         IsHeader(s[h]), s[h][2] <= c, \A i \in (h + 1)..n : ~IsHeader(s[i]),
         t[h] = Hdr(c), \A i \in 1..a : i # h => t[i] = s[i]
  PROVE  /\ Clean(t, a) /\ FitsIn(t, n)
         /\ FramesOf(s, n) \subseteq FramesOf(t, n)
<1>1. t[h][1] = "header" /\ t[h][2] = c /\ IsHeader(t[h])
  BY DEF Hdr, IsHeader
<1>2. ASSUME NEW j \in 1..a, j # h PROVE \A k \in 1..a : InFrame(t, j, k) <=> InFrame(s, j, k)
  BY <1>2 DEF InFrame
<1>3. \A k \in 1..a : InFrame(s, h, k) => InFrame(t, h, k)
  BY <1>1 DEF InFrame
<1>4. Clean(t, a)
  BY <1>1, <1>2 DEF Clean, InFrame
<1>5. FitsIn(t, n)
  BY <1>1 DEF FitsIn
<1>6. FramesOf(s, n) \subseteq FramesOf(t, n)
  <2> SUFFICES ASSUME NEW x \in FramesOf(s, n) PROVE x \in FramesOf(t, n)
    OBVIOUS
  <2>1. PICK k \in 1..n, j \in 1..n : x = s[k] /\ InFrame(s, j, k)
    BY InFrames
  <2>2. j \in 1..a /\ k \in 1..a
    OBVIOUS
  <2>3. InFrame(t, j, k)
    BY <1>2, <1>3, <2>1, <2>2
  <2>4. ~IsHeader(s[k])
    BY <2>1, <2>2 DEF Clean
  <2>5. x = t[k]
    BY <2>1, <2>2, <2>4
  <2> QED
    BY <2>3, <2>5, InFrames
<1> QED
  BY <1>4, <1>5, <1>6

-------------------------------------------------------------------------------
(* The units in the buffer *)

LEMMA CellLengths ==
  ASSUME CoreInv
  PROVE  /\ \A i \in 1..Len(area) : area[i] \in Cell /\ area[i][2] \in Nat
         /\ \A i \in 1..Len(m.remain) : m.remain[i] \in Cell
         /\ DOMAIN m.remain = 1..Len(m.remain) /\ Len(m.remain) \in Nat
         /\ m.hp \in Nat /\ m.hp >= 1 /\ m.content_len \in Nat /\ mapTotal \in Nat
         /\ B \in Nat /\ B >= 1
<1>1. area \in Seq(Cell) /\ m \in ModelType /\ mapTotal \in Nat
  BY DEF CoreInv, TypeOK, ModelType
<1>2. m.remain \in Seq(Cell) /\ m.hp \in Nat /\ m.hp >= 1 /\ m.content_len \in Nat
  BY <1>1 DEF ModelType
<1>3. \A i \in 1..Len(area) : area[i] \in Cell /\ area[i][2] \in Nat
  BY <1>1, ElementOfSeq, LengthsAre
<1>4. \A i \in 1..Len(m.remain) : m.remain[i] \in Cell
  BY <1>2, ElementOfSeq
<1>5. B \in Nat /\ B >= 1
  BY CLoganAssumption
<1>6. DOMAIN m.remain = 1..Len(m.remain) /\ Len(m.remain) \in Nat
  BY <1>2, LenProperties
<1> QED
  BY <1>1, <1>2, <1>3, <1>4, <1>5, <1>6

\* The unit being written is within the total length.
LEMMA UnitIs ==
  ASSUME CoreInv, UnitInv, UnitOK
  PROVE  /\ m.is_open_ok /\ ~Clearing => m.hp + m.content_len <= m.total_len
         /\ ~m.is_open_ok \/ Clearing => m.hp + m.content_len = 1
         /\ \A i \in (m.hp + 1)..(m.hp + m.content_len) : i \in 1..m.total_len /\ i \in 1..Len(area)
<1>1. /\ m.hp \in Nat /\ m.hp >= 1 /\ m.content_len \in Nat /\ m.total_len \in Nat
      /\ Len(area) \in Nat /\ m.total_len <= Len(area)
  BY CellLengths, Model
<1>2. m.is_open_ok /\ ~Clearing => m.hp + m.content_len <= m.total_len
  BY <1>1 DEF UnitOK
<1>3. ~m.is_open_ok \/ Clearing => m.hp + m.content_len = 1 /\ m.hp = 1
  BY <1>1 DEF UnitOK
<1>4. m.hp + m.content_len = 1 /\ m.hp = 1 => (m.hp + 1)..(m.hp + m.content_len) = {}
  BY <1>1
<1> QED
  BY <1>1, <1>2, <1>3, <1>4

\* A step of the control leaves the buffer as it is.
LEMMA QuietBuffer ==
  ASSUME CoreInv, BufferOK, UNCHANGED <<area, mapTotal>>, mode' = mode,
         m'.total_len = m.total_len, m'.hp = m.hp, m'.content_len = m.content_len,
         m'.remain = m.remain, m'.zlib = m.zlib, m'.is_open_ok = m.is_open_ok,
         pc \notin {"down", "total", "len"}, pc' \notin {"down", "total", "len", "unit", "ended"},
         Clearing' <=> Clearing,
         m.zlib = "END" => pc' \in {"flush", "flushed", "dest", "put", "clear"},
         pc' = "close" \/ FlushFor("close")' => mode = "MMAP"
  PROVE  BufferOK'
  BY DEF BufferOK, AreaOK, UnitOK, StageOK, SyncOK

LEMMA ControlBuffer ==
  ASSUME CoreInv, UnitInv, BufferOK,
         \/ \E p \in Names : clogan_open(p)
         \/ clogan_flush \/ Section \/ Flushed \/ Unmap
         \/ Flush /\ m.zlib # "ING"
         \/ Unit /\ pc' # "total"
         \/ Ended /\ pc' = "flush"
  PROVE  BufferOK'
<1>1. UNCHANGED <<area, mapTotal, mode, m>> /\ pc # "down" /\ ret \in {"idle", "section", "open", "close"}
  BY DEF clogan_open, clogan_flush, Section, Flushed, Unmap, Flush, Unit, Ended, mapped, ctl,
         WriteOut, UpdateLength, CoreInv, TypeOK
<1>2. /\ pc \notin {"total", "len"} /\ pc' \notin {"down", "total", "len", "unit", "ended"}
      /\ ~Clearing /\ ~Clearing'
  BY <1>1 DEF clogan_open, clogan_flush, Section, Flushed, Unmap, Flush, Unit, Ended, ctl,
         WriteOut, UpdateLength, Clearing
<1>3. ~(m.total_len > 1) => m.zlib # "END"
  BY <1>1, <1>2, CellLengths, Model DEF BufferOK, UnitOK
<1>4. m.zlib = "END" => pc' \in {"flush", "flushed", "dest", "put", "clear"}
  BY <1>3 DEF BufferOK, StageOK, clogan_open, clogan_flush, Section, Flushed, Unmap, Flush, Unit,
         Ended, ctl, WriteOut, UpdateLength
<1>5. pc' = "close" \/ FlushFor("close")' => mode = "MMAP"
  BY <1>2 DEF BufferOK, StageOK, clogan_open, clogan_flush, Section, Flushed, Unmap, Flush, Unit,
         Ended, ctl, WriteOut, UpdateLength, FlushFor, Flushing
<1> QED
  BY <1>1, <1>2, <1>4, <1>5, QuietBuffer

LEMMA OpenedKeeps ==
  ASSUME TypeOK, NEW mm \in ModelType, NEW p \in Names \cup {None}
  PROVE  /\ Opened(mm, p).hp = mm.hp /\ Opened(mm, p).content_len = mm.content_len
         /\ Opened(mm, p).remain = mm.remain /\ Opened(mm, p).total_len = mm.total_len
         /\ Opened(mm, p).zlib = mm.zlib /\ Opened(mm, p).is_open_ok = mm.is_open_ok
         /\ Opened(mm, p).path = p /\ Opened(mm, p).fp = p /\ Opened(mm, p) \in ModelType
<1>1. Opened(mm, p) \in ModelType
  BY OpenedIs
<1> QED
  BY <1>1 DEF Opened, ModelType

LEMMA DestKeeps ==
  ASSUME CoreInv, Dest
  PROVE  /\ m'.total_len = m.total_len /\ m'.hp = m.hp /\ m'.zlib = m.zlib /\ m'.is_open_ok = m.is_open_ok
         /\ m'.remain = m.remain /\ m'.content_len = m.content_len /\ m'.path = m.path
         /\ pc = "dest" /\ pc' = "put" /\ UNCHANGED <<area, mapped, hist>>
<1> DEFINE mm == IF Exists(m.path) THEN m ELSE Opened(m, m.path)
<1>1. m \in ModelType /\ TypeOK
  BY Model DEF CoreInv
<1>2. m.path \in Names \cup {None}
  BY <1>1 DEF ModelType
<1>3. /\ Opened(m, m.path) \in ModelType
      /\ Opened(m, m.path).total_len = m.total_len /\ Opened(m, m.path).hp = m.hp
      /\ Opened(m, m.path).zlib = m.zlib /\ Opened(m, m.path).is_open_ok = m.is_open_ok
      /\ Opened(m, m.path).remain = m.remain /\ Opened(m, m.path).content_len = m.content_len
      /\ Opened(m, m.path).path = m.path
  BY <1>1, <1>2, OpenedKeeps
<1>4. /\ mm \in ModelType /\ mm.total_len = m.total_len /\ mm.hp = m.hp /\ mm.zlib = m.zlib
      /\ mm.is_open_ok = m.is_open_ok /\ mm.remain = m.remain /\ mm.content_len = m.content_len /\ mm.path = m.path
  <2>1. CASE mm = m
    BY <1>1, <2>1
  <2>2. CASE mm = Opened(m, m.path)
    BY <1>3, <2>2, Zenon
  <2> HIDE DEF mm
  <2>3. mm = m \/ mm = Opened(m, m.path)
    BY DEF mm
  <2> QED
    BY <2>1, <2>2, <2>3
<1>5. m' = mm \/ \E n \in Nat : m' = [mm EXCEPT !.file_len = n]
  BY HeadIs, LenProperties DEF Dest
<1>6. pc = "dest" /\ pc' = "put" /\ UNCHANGED <<area, mapped, hist>>
  BY Zenon DEF Dest
<1> HIDE DEF mm
<1> QED
  BY <1>4, <1>5, <1>6 DEF ModelType

LEMMA FileBuffer ==
  ASSUME CoreInv, UnitInv, BufferOK,
         Dest \/ PutOut \/ \E p \in Names : MoveAway(p)
  PROVE  BufferOK'
<1>1. /\ UNCHANGED <<area, mapTotal, mode>> /\ m \in ModelType
      /\ m'.total_len = m.total_len /\ m'.hp = m.hp /\ m'.content_len = m.content_len
      /\ m'.remain = m.remain /\ m'.zlib = m.zlib /\ m'.is_open_ok = m.is_open_ok
  <2>1. m \in ModelType
    BY Model
  <2>2. CASE Dest
    BY <2>1, <2>2, DestKeeps, Zenon DEF mapped
  <2>3. CASE PutOut
    BY <2>1, <2>3 DEF PutOut, ModelType, mapped
  <2>4. CASE \E p \in Names : MoveAway(p)
    BY <2>1, <2>4 DEF MoveAway, mapped
  <2> QED
    BY <2>2, <2>3, <2>4
<1>2. /\ pc \notin {"down", "total", "len"} /\ pc' \notin {"down", "total", "len", "unit", "ended"}
      /\ ~Clearing /\ ~Clearing'
  BY DEF Dest, PutOut, MoveAway, ctl, Clearing
<1>3. m.zlib = "END" => pc' \in {"flush", "flushed", "dest", "put", "clear"}
  BY DEF BufferOK, StageOK, Dest, PutOut, MoveAway, ctl
<1>4. pc' = "close" \/ FlushFor("close")' => mode = "MMAP"
  BY DEF BufferOK, StageOK, Dest, PutOut, MoveAway, ctl, FlushFor, Flushing
<1> QED
  BY <1>1, <1>2, <1>3, <1>4, QuietBuffer

\* Cells that are no headers are put behind the total length.
LEMMA GrownBuffer ==
  ASSUME CoreInv, UnitInv, BufferOK, NEW S, Grown(S), \A c \in S : ~IsHeader(c),
         m.is_open_ok, ~Clearing, m.zlib # "END", UNCHANGED <<mapTotal, mode>>, pc # "down",
         m'.hp = m.hp, m'.content_len >= m.content_len, Len(m'.remain) < B,
         m'.total_len - m.total_len
            = m'.content_len - m.content_len + (IF m'.zlib = "END" THEN 1 ELSE 0),
         \/ m'.zlib = "ING" /\ after' = "unit"
         \/ m'.zlib = "END" /\ after' \in {"ended", "flushed"},
         pc' = "total", FlushFor("close")' => FlushFor("close")
  PROVE  /\ BufferOK'
         /\ FramesOf(area', m'.total_len) = FramesOf(area, m.total_len)
         /\ \A x \in Nat : x <= m.total_len => FramesOf(area', x) = FramesOf(area, x)
<1> DEFINE n == m.total_len
           k == m'.total_len
<1>1. /\ n \in Nat /\ k \in Nat /\ n <= k /\ Len(area) \in Nat /\ Len(area') \in Nat
      /\ n <= Len(area) /\ Len(area) <= Len(area') /\ k <= Len(area')
      /\ \A i \in 1..Len(area) : area[i] \in Cell /\ area[i][2] \in Nat
      /\ area' \in Seq(Cell) /\ m' \in ModelType
      /\ m.hp \in Nat /\ m.hp >= 1 /\ m.content_len \in Nat /\ m'.content_len \in Nat
      /\ mapTotal \in Nat
  BY LenProperties, CellLengths, Model DEF Grown, ModelType
<1> HIDE DEF n, k
<1>2. \A i \in 1..Len(area') :
           \/ i > n /\ ~IsHeader(area'[i])
           \/ i \in 1..Len(area) /\ (i <= n \/ i > k) /\ area'[i] = area[i]
  BY DEF Grown, n, k
<1>3. \A i \in 1..n : i \in 1..Len(area) /\ area'[i] = area[i] /\ area[i][2] \in Nat
  <2> SUFFICES ASSUME NEW i \in 1..n
               PROVE  i \in 1..Len(area) /\ area'[i] = area[i] /\ area[i][2] \in Nat
    OBVIOUS
  <2>1. i \in 1..Len(area') /\ i \in 1..Len(area) /\ ~(i > n)
    BY <1>1
  <2> QED
    BY <1>1, <1>2, <2>1
<1>4. \A i \in (n + 1)..k : ~IsHeader(area'[i])
  BY <1>1, <1>2
<1>5. FitsIn(area', k) /\ FramesOf(area', k) = FramesOf(area, n)
  <2>1. FitsIn(area, n)
    BY DEF BufferOK, AreaOK, n
  <2>2. \A i \in 1..n : area'[i] = area[i] /\ area[i][2] \in Nat
    BY <1>3
  <2>3. \A i \in (n + 1)..k : IsHeader(area'[i]) => area'[i][2] = 0
    BY <1>4
  <2>4. n \in Nat /\ k \in Nat /\ n <= k
    BY <1>1
  <2> QED
    BY <2>1, <2>2, <2>3, <2>4, SameFrames
<1>6. AreaOK'
  <2>1. Clean(area', Len(area'))
    BY <1>1, <1>2, FewerHeaders DEF BufferOK, AreaOK
  <2>2. FitsIn(area', k)
    BY <1>5
  <2>3. mode' = "MMAP" => FitsIn(area', mapTotal')
    <3> SUFFICES ASSUME mode = "MMAP", NEW j \in 1..mapTotal, IsHeader(area'[j])
                 PROVE  j + area'[j][2] <= mapTotal
      BY DEF FitsIn
    <3>1. mapTotal <= Len(area) /\ FitsIn(area, mapTotal)
      BY DEF CoreInv, LenInv, BufferOK, AreaOK
    <3>2. j \in 1..Len(area')
      BY <1>1, <3>1
    <3>3. area'[j] = area[j]
      BY <1>2, <3>2
    <3> QED
      BY <3>1, <3>3 DEF FitsIn
  <2>4. ~Clearing' /\ pc' # "down"
    BY DEF Clearing
  <2> QED
    BY <2>1, <2>2, <2>3, <2>4 DEF AreaOK, k
<1>7. ASSUME NEW x \in Nat, x <= n PROVE FramesOf(area', x) = FramesOf(area, x)
  <2>1. \A i \in 1..x : area[i] = area'[i]
    <3> SUFFICES ASSUME NEW i \in 1..x PROVE area[i] = area'[i]
      OBVIOUS
    <3>1. i \in 1..n
      BY <1>1, <1>7
    <3> QED
      BY <1>3, <3>1
  <2> QED
    BY <2>1, SameCells
<1>8. UnitOK'
  <2>1. /\ n = m.hp + m.content_len /\ IsHeader(area[m.hp]) /\ area[m.hp][2] <= m.content_len
        /\ \A i \in (m.hp + 1)..n : ~IsHeader(area[i])
    BY <1>1 DEF BufferOK, UnitOK, n
  <2>2. m.hp \in 1..n /\ area'[m.hp] = area[m.hp] /\ area[m.hp][2] \in Nat
    <3>1. m.hp \in 1..n
      BY <1>1, <2>1
    <3> QED
      BY <1>3, <3>1
  <2>3. k = m.hp + m'.content_len + (IF m'.zlib = "END" THEN 1 ELSE 0)
    <3> DEFINE e == IF m'.zlib = "END" THEN 1 ELSE 0
               h == m.hp
               c == m.content_len
               x == m'.content_len
    <3>1. k - n = x - c + e /\ e \in Nat
      BY DEF n, k
    <3>2. n \in Nat /\ k \in Nat /\ h \in Nat /\ c \in Nat /\ x \in Nat /\ n = h + c
      BY <1>1, <2>1
    <3> HIDE DEF e, h, c, x
    <3>3. k = h + x + e
      BY <3>1, <3>2
    <3> QED
      BY <3>3 DEF e, h, c, x
  <2>4. \A i \in (m.hp + 1)..k : ~IsHeader(area'[i])
    <3> SUFFICES ASSUME NEW i \in (m.hp + 1)..k PROVE ~IsHeader(area'[i])
      OBVIOUS
    <3>1. CASE i <= n
      BY <1>1, <1>3, <2>1, <3>1
    <3>2. CASE ~(i <= n)
      BY <1>1, <1>4, <3>2
    <3> QED
      BY <3>1, <3>2
  <2>5. Len(m'.remain) < B /\ \A c \in CellsIn(m'.remain) : ~IsHeader(c)
    BY LenProperties DEF ModelType, Grown, CellsIn
  <2>6. m'.is_open_ok /\ ~Clearing' /\ m'.zlib # "NONE"
    BY DEF Grown, Clearing
  <2>7. area'[m.hp][2] <= m'.content_len
    <3> DEFINE h == area[m.hp][2]
               c == m.content_len
               x == m'.content_len
    <3>1. h \in Nat /\ c \in Nat /\ x \in Nat /\ h <= c /\ c <= x
      BY <1>1, <2>1, <2>2
    <3>2. area'[m.hp][2] = h
      BY <2>2
    <3> HIDE DEF h, c, x
    <3>3. h <= x
      BY <3>1
    <3> QED
      BY <3>2, <3>3 DEF x
  <2>8. /\ m'.total_len = m'.hp + m'.content_len + (IF m'.zlib = "END" THEN 1 ELSE 0)
        /\ \A i \in (m'.hp + 1)..m'.total_len : ~IsHeader(area'[i])
    BY <2>3, <2>4 DEF k
  <2>9. IsHeader(area'[m'.hp]) /\ area'[m'.hp][2] <= m'.content_len
    BY <2>1, <2>2, <2>7
  <2> QED
    BY <2>5, <2>6, <2>8, <2>9, Zenon DEF UnitOK
<1>9. StageOK'
  BY DEF Grown, BufferOK, StageOK
<1>10. SyncOK'
  BY DEF SyncOK
<1> QED
  BY <1>5, <1>6, <1>7, <1>8, <1>9, <1>10 DEF BufferOK, n, k

\* What write_flush_clogan, or the end of a unit, does to the buffer
LEMMA EndUnitBuffer ==
  ASSUME CoreInv, UnitInv, BufferOK, (Flush /\ m.zlib = "ING") \/ (Unit /\ pc' = "total")
  PROVE  /\ BufferOK' /\ Grown(CellsIn(m.remain) \cup {Pad, End}) /\ Moved(CellsIn(m.remain))
         /\ m.is_open_ok /\ ~Clearing /\ pc \notin {"down", "total", "len"} /\ pc' = "total"
         /\ UNCHANGED <<files, away, mapTotal, mode, mapName, mapThere, size, home, last, taken, lost>>
         /\ m'.zlib = "END" /\ m'.remain = <<>> /\ (Writing' <=> Writing)
         /\ FramesOf(area', m'.total_len) = FramesOf(area, m.total_len)
         /\ \A x \in Nat : x <= m.total_len => FramesOf(area', x) = FramesOf(area, x)
         /\ m'.content_len - m.content_len + 1 = m'.total_len - m.total_len
         /\ m'.total_len <= m.total_len + Len(m.remain) + Trailer + B + 1
         /\ Laid(m.remain) /\ area'[m'.total_len] = End
         /\ m.zlib # "END" /\ after' \in {"flushed", "ended"}
<1> DEFINE S == CellsIn(m.remain) \cup {Pad, End}
<1>1. /\ pc \notin {"down", "total", "len"} /\ pc' = "total" /\ EndCompress
      /\ UNCHANGED <<files, away, mapTotal, mode, mapName, mapThere, size, home, last, taken, lost>>
      /\ (pc = "flush" /\ after' = "flushed") \/ (pc = "unit" /\ after' = "ended")
      /\ ret' = ret
  BY DEF Flush, Unit, UpdateLength, WriteOut, disk, mapped, hist
<1>2. m.is_open_ok /\ ~Clearing /\ m.zlib # "END"
  BY <1>1 DEF Flush, Unit, BufferOK, UnitOK, StageOK, CoreInv, PhaseInv, Writing, Clearing
<1>3. /\ Grown(S) /\ m'.zlib = "END" /\ m'.remain = <<>> /\ Moved(CellsIn(m.remain))
      /\ m'.content_len - m.content_len + 1 = m'.total_len - m.total_len
      /\ m'.total_len <= m.total_len + Len(m.remain) + Trailer + B + 1
      /\ Laid(m.remain) /\ area'[m'.total_len] = End
  BY <1>1, EndGrows, Model
<1>4. \A c \in S : ~IsHeader(c)
  BY CellsAre DEF BufferOK, UnitOK, IsHeader
<1>5. m'.hp = m.hp /\ m'.content_len >= m.content_len /\ Len(m'.remain) < B
  BY <1>3, CellLengths, LenProperties DEF Moved
<1>6. FlushFor("close")' => FlushFor("close")
  BY <1>1 DEF FlushFor, Flushing
<1>7. Writing' <=> Writing
  BY <1>1 DEF Writing, FlushFor, Flushing
<1> HIDE DEF S
<1>8. m'.total_len - m.total_len
         = m'.content_len - m.content_len + (IF m'.zlib = "END" THEN 1 ELSE 0)
  BY <1>3
<1>9. /\ BufferOK'
      /\ FramesOf(area', m'.total_len) = FramesOf(area, m.total_len)
      /\ \A x \in Nat : x <= m.total_len => FramesOf(area', x) = FramesOf(area, x)
  BY <1>1, <1>2, <1>3, <1>4, <1>5, <1>6, <1>8, GrownBuffer
<1> QED
  BY <1>1, <1>2, <1>3, <1>7, <1>9 DEF S

\* What a section of a line does to the buffer
LEMMA CompressBuffer ==
  ASSUME CoreInv, UnitInv, BufferOK, Compress
  PROVE  /\ BufferOK' /\ pc = "compress" /\ pc' = "total" /\ after' = "unit"
         /\ m.is_open_ok /\ ~Clearing /\ last \in Lines /\ Writing /\ Writing'
         /\ UNCHANGED <<files, away, mapTotal, mode, mapName, mapThere, home, last, taken, lost>>
         /\ m'.zlib = "ING" /\ m.zlib # "END"
         /\ FramesOf(area', m'.total_len) = FramesOf(area, m.total_len)
         /\ \A x \in Nat : x <= m.total_len => FramesOf(area', x) = FramesOf(area, x)
         /\ \E c \in CSizes :
               /\ size' = [size EXCEPT ![last] = @ + c]
               /\ Grown(CellsIn(m.remain) \cup CellsIn(Out(c)))
               /\ Moved(CellsIn(m.remain) \cup CellsIn(Out(c)))
               /\ m'.content_len - m.content_len = m'.total_len - m.total_len
               /\ m'.total_len <= m.total_len + Len(m.remain) + Len(Out(c))
               /\ Laid(m.remain \o Out(c))
<1>1. /\ pc = "compress" /\ pc' = "total" /\ after' = "unit"
      /\ UNCHANGED <<files, away, mapTotal, mode, mapName, mapThere, home, last, taken, lost>>
  BY DEF Compress, UpdateLength, disk, mapped
<1>2. Writing /\ Writing' /\ ~Clearing /\ ~FlushFor("close")'
  BY <1>1 DEF Writing, Clearing, FlushFor, Flushing
<1>3. m.is_open_ok /\ last \in Lines
  BY <1>2 DEF CoreInv, PhaseInv
<1>4. m.zlib \in {"INIT", "ING"}
  BY <1>1, <1>3, Model DEF ModelType, BufferOK, UnitOK, StageOK
<1>5. PICK c \in CSizes : Blocks(Out(c)) /\ size' = [size EXCEPT ![last] = @ + c]
  BY <1>4 DEF Compress, Out
<1> DEFINE S == CellsIn(m.remain) \cup CellsIn(Out(c))
<1>6. Out(c) \in Seq(Cell) /\ \A x \in CellsIn(Out(c)) : ~IsHeader(x)
  BY <1>3, OutIs DEF IsHeader
<1>7. /\ Grown(S) /\ m'.zlib = "ING" /\ Moved(S) /\ Len(m'.remain) < B
      /\ m'.content_len - m.content_len = m'.total_len - m.total_len
      /\ m'.total_len <= m.total_len + Len(m.remain) + Len(Out(c))
      /\ Laid(m.remain \o Out(c))
  BY <1>5, <1>6, BlocksGrow, Model
<1>8. \A x \in S : ~IsHeader(x)
  BY <1>6 DEF BufferOK, UnitOK
<1> HIDE DEF S
<1>9. m'.hp = m.hp /\ m'.content_len >= m.content_len
  BY <1>7 DEF Moved
<1>10. m'.total_len - m.total_len
         = m'.content_len - m.content_len + (IF m'.zlib = "END" THEN 1 ELSE 0)
  <2>1. m' \in ModelType /\ m \in ModelType
    BY <1>7, Model DEF Grown
  <2>2. m'.total_len - m.total_len \in Int /\ m'.content_len - m.content_len \in Int
    BY <2>1 DEF ModelType
  <2> QED
    BY <1>7, <2>2
<1>11. /\ BufferOK'
       /\ FramesOf(area', m'.total_len) = FramesOf(area, m.total_len)
       /\ \A x \in Nat : x <= m.total_len => FramesOf(area', x) = FramesOf(area, x)
  BY <1>1, <1>2, <1>3, <1>4, <1>7, <1>8, <1>9, <1>10, GrownBuffer
<1> QED
  BY <1>1, <1>2, <1>3, <1>4, <1>5, <1>7, <1>11 DEF S

\* The total goes to the mapped buffer, and what lies behind it is given up.
LEMMA TotalBuffer ==
  ASSUME CoreInv, UnitInv, BufferOK, Total
  PROVE  /\ BufferOK' /\ m' = m /\ pc' = "len" /\ after' = after /\ pc = "total"
         /\ mode = "MMAP" => mapTotal' = m.total_len
         /\ UNCHANGED <<files, away, mode, mapName, mapThere, size, home, last, taken, lost>>
         /\ (Writing' <=> Writing) /\ area' \in Seq(Cell)
         /\ m.total_len <= Len(area') /\ Len(area') >= 1 /\ Len(area') <= Len(area)
         /\ \A i \in 1..Len(area') : area'[i] = area[i]
<1>1. /\ pc = "total" /\ pc' = "len" /\ after' = after /\ ret' = ret /\ m' = m /\ mode' = mode
      /\ UNCHANGED <<files, away, mode, mapName, mapThere, size, home, last, taken, lost>>
      /\ mode = "MMAP" => mapTotal' = m.total_len
  BY DEF Total, disk, hist
<1>2. (Clearing' <=> Clearing) /\ (Writing' <=> Writing) /\ (FlushFor("close")' => FlushFor("close"))
  BY <1>1 DEF Clearing, Writing, FlushFor, Flushing
<1> DEFINE n == m.total_len
<1>3. /\ n \in Nat /\ Len(area) \in Nat
      /\ \A i \in 1..Len(area) : area[i][2] \in Nat
      /\ m.hp \in Nat /\ m.hp >= 1 /\ m.content_len \in Nat
  BY CellLengths, Model
<1> HIDE DEF n
<1>4. PICK k \in Nat : k <= Len(area) /\ k >= 1 /\ k >= n /\ area' = Upto(area, k)
  BY TotalIs DEF n
<1>6. area' \in Seq(Cell) /\ Len(area') = k /\ \A i \in 1..k : area'[i] = area[i]
  BY <1>4, UptoIs, Model
<1>7. \A i \in 1..n : area'[i] = area[i]
  BY <1>3, <1>4, <1>6
<1>8. FitsIn(area', n)
  <2>1. FitsIn(area, n)
    BY DEF BufferOK, AreaOK, n
  <2> QED
    BY <1>3, <1>7, <2>1, SameCells
<1>9. AreaOK'
  <2>1. Clean(area', Len(area'))
    BY <1>3, <1>4, <1>6, Prefixes, SameCells DEF BufferOK, AreaOK
  <2>2. Clearing' => area'[1] = Hdr(0)
    BY <1>2, <1>4, <1>6 DEF BufferOK, AreaOK
  <2> QED
    BY <1>1, <1>8, <2>1, <2>2 DEF AreaOK, n
<1>10. UnitOK'
  <2>1. CASE m.is_open_ok /\ ~Clearing
    <3>1. /\ n = m.hp + m.content_len + (IF m.zlib = "END" THEN 1 ELSE 0)
          /\ IsHeader(area[m.hp]) /\ area[m.hp][2] <= m.content_len
          /\ \A i \in (m.hp + 1)..n : ~IsHeader(area[i])
      BY <2>1 DEF BufferOK, UnitOK, n
    <3>2. m.hp \in 1..n
      BY <1>3, <3>1
    <3>3. /\ IsHeader(area'[m.hp]) /\ area'[m.hp][2] <= m.content_len
          /\ \A i \in (m.hp + 1)..n : ~IsHeader(area'[i])
      <4>1. \A i \in (m.hp + 1)..n : i \in 1..n
        BY <1>3
      <4> QED
        BY <1>7, <3>1, <3>2, <4>1
    <3> QED
      BY <1>1, <1>2, <2>1, <3>1, <3>3 DEF BufferOK, UnitOK, n
  <2>2. CASE ~(m.is_open_ok /\ ~Clearing)
    BY <1>1, <1>2, <2>2 DEF BufferOK, UnitOK
  <2> QED
    BY <2>1, <2>2
<1>11. StageOK'
  BY <1>1, <1>2 DEF BufferOK, StageOK
<1>12. SyncOK'
  BY <1>1, <1>3 DEF SyncOK, n
<1> QED
  BY <1>1, <1>2, <1>3, <1>4, <1>6, <1>9, <1>10, <1>11, <1>12 DEF BufferOK, n

\* The header is told the length of its unit.
LEMMA LengthBuffer ==
  ASSUME CoreInv, UnitInv, BufferOK, Length
  PROVE  /\ BufferOK' /\ m' = m /\ pc = "len" /\ pc' \notin {"down", "total", "len"} /\ pc' = after
         /\ UNCHANGED <<files, away, mode, mapName, mapThere, mapTotal, size, home, last, taken, lost>>
         /\ (Writing' <=> Writing) /\ (Clearing' <=> Clearing) /\ area' \in Seq(Cell) /\ Len(area') = Len(area)
         /\ FramesOf(area, m.total_len) \subseteq FramesOf(area', m.total_len)
         /\ Clearing => area' = area
         /\ ~Clearing => m.is_open_ok /\ \A i \in (m.hp + 1)..m.total_len : area'[i] = area[i]
<1>1. /\ pc = "len" /\ pc' = after /\ m' = m
      /\ UNCHANGED <<files, away, mode, mapName, mapThere, mapTotal, size, home, last, taken, lost, after, ret>>
      /\ area' = [area EXCEPT ![m.hp] = Hdr(m.content_len)]
      /\ after \in {"unit", "ended", "flushed", "cleared"}
  BY DEF Length, disk, hist, mapped, CoreInv, TypeOK
<1>2. (Clearing' <=> Clearing) /\ (Writing' <=> Writing) /\ (FlushFor("close")' => FlushFor("close"))
  BY <1>1 DEF Clearing, Writing, FlushFor, Flushing
<1> DEFINE n == m.total_len
           h == m.hp
           c == m.content_len
<1>3. /\ n \in Nat /\ Len(area) \in Nat /\ n <= Len(area) /\ Len(area) >= 1
      /\ \A i \in 1..Len(area) : area[i][2] \in Nat
      /\ h \in Nat /\ h >= 1 /\ c \in Nat /\ area \in Seq(Cell) /\ DOMAIN area = 1..Len(area)
  BY <1>1, CellLengths, Model DEF CoreInv, LenInv
<1> HIDE DEF n, h, c
<1>4. area' \in Seq(Cell) /\ Len(area') = Len(area)
  BY <1>1, <1>3, LengthCells DEF h, c
<1>5. area' = [area EXCEPT ![h] = Hdr(c)]
  BY <1>1 DEF h, c
<1>6. \A i \in 1..Len(area) : i # h => area'[i] = area[i]
  BY <1>3, <1>5
<1>7. StageOK' /\ SyncOK'
  BY <1>1, <1>2 DEF BufferOK, StageOK, SyncOK
<1>8. CASE Clearing
  <2>1. h = 1 /\ c = 0 /\ area[1] = Hdr(0)
    BY <1>8 DEF BufferOK, UnitOK, AreaOK, h, c
  <2>2. area' = area
    BY <1>3, <1>5, <2>1
  <2>3. AreaOK' /\ UnitOK'
    BY <1>1, <1>2, <1>8, <2>2 DEF BufferOK, AreaOK, UnitOK
  <2> QED
    BY <1>1, <1>2, <1>4, <1>7, <1>8, <2>2, <2>3 DEF BufferOK
<1>9. CASE ~Clearing
  <2>1. m.is_open_ok
    BY <1>1, <1>9 DEF BufferOK, StageOK
  <2>2. /\ n = h + c + (IF m.zlib = "END" THEN 1 ELSE 0)
        /\ IsHeader(area[h]) /\ area[h][2] <= c
        /\ \A i \in (h + 1)..n : ~IsHeader(area[i])
        /\ FitsIn(area, n) /\ Clean(area, Len(area))
    BY <1>9, <2>1 DEF BufferOK, UnitOK, AreaOK, n, h, c
  <2>3. h \in 1..n /\ h + c <= n /\ h \in DOMAIN area
    BY <1>3, <2>2
  <2>4. area'[h] = Hdr(c)
    BY <1>5, <2>3
  <2>5. /\ Clean(area', Len(area)) /\ FitsIn(area', n)
        /\ FramesOf(area, n) \subseteq FramesOf(area', n)
    <3>1. /\ n \in Nat /\ Len(area) \in Nat /\ n <= Len(area) /\ h \in 1..n /\ c \in Nat
          /\ h + c <= n
      BY <1>3, <2>3
    <3>2. /\ \A i \in 1..Len(area) : area[i][2] \in Nat
          /\ \A i \in 1..Len(area) : i # h => area'[i] = area[i]
      BY <1>3, <1>6
    <3>3. /\ IsHeader(area[h]) /\ area[h][2] <= c /\ \A i \in (h + 1)..n : ~IsHeader(area[i])
          /\ FitsIn(area, n) /\ Clean(area, Len(area))
      BY <2>2
    <3> QED
      BY <2>4, <3>1, <3>2, <3>3, LongerUnit
  <2>6. AreaOK'
    BY <1>1, <1>2, <1>4, <1>9, <2>5 DEF BufferOK, SyncOK, n, AreaOK
  <2>7. \A i \in (h + 1)..n : area'[i] = area[i]
    BY <1>3, <1>6
  <2>8. UnitOK'
    <3>1. IsHeader(area'[h]) /\ area'[h][2] = c
      BY <2>4 DEF IsHeader, Hdr
    <3>2. \A i \in (h + 1)..n : ~IsHeader(area'[i])
      BY <2>2, <2>7
    <3> QED
      BY <1>1, <1>2, <1>3, <1>9, <2>1, <2>2, <3>1, <3>2 DEF BufferOK, UnitOK, n, h, c
  <2> QED
    BY <1>1, <1>2, <1>4, <1>7, <1>9, <2>1, <2>5, <2>6, <2>7, <2>8 DEF BufferOK, n, h
<1> QED
  BY <1>8, <1>9

LEMMA NewHeader ==
  ASSUME CoreInv, BufferOK, NEW n \in Nat, n <= Len(area), FitsIn(area, n),
         area' = PutAt(area, n, <<Hdr(0)>>)
  PROVE  /\ area' \in Seq(Cell) /\ Len(area') \in Nat /\ Len(area) <= Len(area') /\ n + 1 <= Len(area')
         /\ Clean(area', Len(area')) /\ FitsIn(area', n + 1) /\ area'[n + 1] = Hdr(0)
         /\ IsHeader(area'[n + 1]) /\ area'[n + 1][2] = 0
         /\ FramesOf(area', n + 1) = FramesOf(area, n)
         /\ \A x \in Nat : x <= Len(area) /\ FitsIn(area, x) => FitsIn(area', x)
         /\ \A i \in 1..n : area'[i] = area[i]
<1>1. /\ area' \in Seq(Cell) /\ Len(area') \in Nat /\ Len(area') >= Len(area) /\ Len(area') >= n + 1
      /\ \A i \in 1..Len(area') : \/ i = n + 1 /\ area'[i][1] = "header" /\ area'[i] = Hdr(0)
                                  \/ i \in 1..Len(area) /\ i # n + 1 /\ area'[i] = area[i]
  <2>1. 0 \in Nat
    OBVIOUS
  <2> QED
    BY <2>1, HeaderPut
<1>2. /\ Len(area) \in Nat /\ \A i \in 1..Len(area) : area[i][2] \in Nat
      /\ Clean(area, Len(area))
  BY CellLengths, Model DEF BufferOK, AreaOK
<1>3. \A i \in 1..Len(area') : \/ i = n + 1 /\ area'[i] = Hdr(0)
                               \/ i \in 1..Len(area) /\ i # n + 1 /\ area'[i] = area[i]
  BY <1>1
<1>4. n <= Len(area) /\ n + 1 <= Len(area') /\ Len(area) <= Len(area')
  BY <1>1, <1>2
<1>5. /\ Clean(area', Len(area')) /\ area'[n + 1] = Hdr(0) /\ FitsIn(area', n + 1)
      /\ FramesOf(area', n + 1) = FramesOf(area, n)
      /\ \A x \in Nat : x <= Len(area) /\ x <= Len(area') /\ FitsIn(area, x) => FitsIn(area', x)
  <2> DEFINE a == Len(area)
             b == Len(area')
             s == area
             t == area'
  <2>1. /\ a \in Nat /\ b \in Nat /\ n <= a /\ n + 1 <= b
        /\ FitsIn(s, n) /\ Clean(s, a) /\ \A i \in 1..a : s[i][2] \in Nat
    BY <1>1, <1>2, <1>4
  <2>2. \A i \in 1..b : \/ i = n + 1 /\ t[i] = Hdr(0)
                        \/ i \in 1..a /\ i # n + 1 /\ t[i] = s[i]
    BY <1>3
  <2> HIDE DEF a, b, s, t
  <2>3. /\ Clean(t, b) /\ t[n + 1] = Hdr(0) /\ FitsIn(t, n + 1)
        /\ FramesOf(t, n + 1) = FramesOf(s, n)
        /\ \A x \in Nat : x <= a /\ x <= b /\ FitsIn(s, x) => FitsIn(t, x)
    BY <2>1, <2>2, EmptyHeader
  <2> QED
    BY <2>3 DEF a, b, s, t
<1>6. \A x \in Nat : x <= Len(area) => x <= Len(area')
  BY <1>1, <1>2, <1>4
<1>7. ASSUME NEW i \in 1..n PROVE area'[i] = area[i]
  <2>1. i \in 1..Len(area') /\ i # n + 1
    BY <1>1, <1>2, <1>4
  <2> QED
    BY <1>3, <2>1
<1>8. IsHeader(area'[n + 1]) /\ area'[n + 1][2] = 0
  BY <1>5 DEF IsHeader, Hdr
<1> QED
  BY <1>1, <1>4, <1>5, <1>6, <1>7, <1>8

LEMMA NothingFits == \A s : FitsIn(s, 0) /\ FramesOf(s, 0) = {} /\ FramesOf(s, 1) = {}
BY NoFrame DEF FitsIn

\* Behind the unit that has ended, the next one begins.
LEMMA EndedBuffer ==
  ASSUME CoreInv, UnitInv, BufferOK, Ended, pc' # "flush"
  PROVE  /\ BufferOK' /\ pc = "ended" /\ pc' = "section"
         /\ UNCHANGED <<files, away, mapTotal, mode, mapName, mapThere, size, home, last, taken, lost>>
         /\ FramesOf(area', m'.total_len) = FramesOf(area, m.total_len)
         /\ m'.remain = <<>> /\ m.remain = <<>> /\ m'.content_len = 0
         /\ m'.total_len = m.total_len + 1 /\ m.total_len + 1 \in Nat
         /\ \A i \in 1..m.total_len : area'[i] = area[i]
<1>1. /\ pc = "ended" /\ pc' = "section" /\ ~(m.file_len = 0 \/ mode = "MEMORY" \/ Third)
      /\ UNCHANGED <<files, away, mapTotal, mode, mapName, mapThere, size, home, last, taken, lost>>
      /\ area' = PutAt(area, m.total_len, <<Hdr(0)>>)
      /\ m' = [m EXCEPT !.content_len = 0, !.remain = <<>>, !.zlib = "INIT",
                        !.hp = m.total_len + 1, !.total_len = @ + 1]
  BY DEF Ended, WriteOut, disk, mapped, hist
<1>2. ~Clearing /\ ~Clearing' /\ ~FlushFor("close")' /\ m.is_open_ok
  BY <1>1 DEF Clearing, FlushFor, Flushing, CoreInv, PhaseInv, Writing
<1> DEFINE n == m.total_len
<1>3. n \in Nat /\ n <= Len(area) /\ FitsIn(area, n)
  BY Model DEF BufferOK, AreaOK
<1>4. /\ m'.content_len = 0 /\ m'.remain = <<>> /\ m'.zlib = "INIT" /\ m'.hp = n + 1
      /\ m'.total_len = n + 1 /\ m'.is_open_ok
  BY <1>1, <1>2, Model DEF ModelType
<1>5. m.remain = <<>>
  BY <1>1 DEF BufferOK, StageOK, UnitInv
<1> HIDE DEF n
<1>6. /\ Clean(area', Len(area')) /\ FitsIn(area', n + 1)
      /\ IsHeader(area'[n + 1]) /\ area'[n + 1][2] = 0
      /\ FramesOf(area', n + 1) = FramesOf(area, n)
      /\ \A x \in Nat : x <= Len(area) /\ FitsIn(area, x) => FitsIn(area', x)
      /\ \A i \in 1..n : area'[i] = area[i]
  BY <1>1, <1>3, NewHeader DEF n
<1>7. AreaOK'
  BY <1>1, <1>2, <1>3, <1>4, <1>6 DEF BufferOK, SyncOK, n, AreaOK
<1>8. UnitOK'
  <2>1. Len(m'.remain) < B /\ CellsIn(m'.remain) = {}
    BY <1>4, CellLengths DEF CellsIn
  <2>2. m'.total_len = m'.hp + m'.content_len /\ (m'.hp + 1)..m'.total_len = {}
    BY <1>3, <1>4
  <2> QED
    BY <1>1, <1>2, <1>4, <1>6, <2>1, <2>2 DEF UnitOK
<1>9. StageOK'
  BY <1>1, <1>2, <1>4 DEF StageOK
<1>10. SyncOK'
  BY <1>1, <1>3, <1>4 DEF BufferOK, SyncOK, n
<1> QED
  BY <1>1, <1>3, <1>4, <1>5, <1>6, <1>7, <1>8, <1>9, <1>10 DEF BufferOK, n

\* The reset begins with an empty header.
LEMMA ClearBuffer ==
  ASSUME CoreInv, UnitInv, BufferOK, Clear
  PROVE  /\ BufferOK' /\ pc = "clear" /\ pc' = "total" /\ after' = "cleared"
         /\ UNCHANGED <<files, away, mapTotal, mode, mapName, mapThere, size, home, last, taken, lost>>
         /\ m'.total_len = 0 /\ m'.remain = <<>> /\ m'.content_len = 0 /\ m'.hp = 1
         /\ (Writing' <=> Writing) /\ m'.is_open_ok = m.is_open_ok
<1>1. /\ pc = "clear" /\ pc' = "total" /\ after' = "cleared" /\ ret' = ret
      /\ UNCHANGED <<files, away, mapTotal, mode, mapName, mapThere, size, home, last, taken, lost>>
      /\ area' = PutAt(area, 0, <<Hdr(0)>>)
      /\ m' = [m EXCEPT !.total_len = 0, !.zlib = IF @ = "END" THEN "INIT" ELSE @,
                        !.remain = <<>>, !.content_len = 0, !.hp = 1]
  BY DEF Clear, UpdateLength, disk, mapped, hist
<1>2. /\ ~Clearing /\ Clearing' /\ (FlushFor("close")' <=> FlushFor("close")) /\ Flushing
      /\ (Writing' <=> Writing)
  BY <1>1 DEF Clearing, FlushFor, Flushing, Writing
<1>3. m.zlib # "ING" /\ m.zlib \in {"NONE", "INIT", "ING", "END"}
  BY <1>1, <1>2, Model DEF UnitInv, ModelType
<1>4. /\ m'.content_len = 0 /\ m'.remain = <<>> /\ m'.hp = 1 /\ m'.total_len = 0
      /\ m'.is_open_ok = m.is_open_ok /\ m'.zlib = (IF m.zlib = "END" THEN "INIT" ELSE m.zlib)
  BY <1>1, Model DEF ModelType
<1>5. /\ Clean(area', Len(area')) /\ area'[1] = Hdr(0)
      /\ \A x \in Nat : x <= Len(area) /\ FitsIn(area, x) => FitsIn(area', x)
  BY <1>1, Model, NothingFits, NewHeader
<1>6. AreaOK'
  BY <1>1, <1>4, <1>5, CellLengths, NothingFits DEF BufferOK, AreaOK, CoreInv, LenInv
<1>7. UnitOK'
  BY <1>2, <1>3, <1>4, CellLengths DEF CellsIn, BufferOK, UnitOK
<1>8. StageOK'
  <2>1. m'.zlib # "END"
    BY <1>4
  <2> QED
    BY <1>1, <1>2, <2>1 DEF BufferOK, StageOK
<1>9. SyncOK'
  BY <1>1 DEF SyncOK
<1> QED
  BY <1>1, <1>2, <1>4, <1>6, <1>7, <1>8, <1>9 DEF BufferOK

LEMMA ClearedBuffer ==
  ASSUME CoreInv, UnitInv, BufferOK, Cleared
  PROVE  /\ BufferOK' /\ pc = "cleared" /\ pc' = ret /\ pc' \notin {"down", "total", "len"}
         /\ UNCHANGED <<files, away, area, mapTotal, mode, mapName, mapThere, size, home, last, taken, lost>>
         /\ m'.total_len = 1 /\ m'.remain = m.remain /\ m'.content_len = 0 /\ m.content_len = 0
         /\ m.total_len = 0 /\ (Writing' <=> Writing)
<1>1. /\ pc = "cleared" /\ pc' = ret /\ ret' = ret /\ m' = [m EXCEPT !.total_len = 1]
      /\ UNCHANGED <<files, away, area, mapTotal, mode, mapName, mapThere, size, home, last, taken, lost>>
      /\ ret \in {"idle", "section", "open", "close"}
  BY DEF Cleared, disk, mapped, hist, CoreInv, TypeOK
<1>2. Clearing /\ ~Clearing' /\ (Writing' <=> Writing)
  BY <1>1 DEF Clearing, Writing, FlushFor, Flushing
<1>3. /\ m'.total_len = 1 /\ m'.content_len = m.content_len /\ m'.remain = m.remain /\ m'.hp = m.hp
      /\ m'.zlib = m.zlib /\ m'.is_open_ok = m.is_open_ok
  BY <1>1, Model DEF ModelType
<1>4. /\ m.hp = 1 /\ m.content_len = 0 /\ m.zlib \notin {"ING", "END"} /\ area[1] = Hdr(0)
      /\ m.total_len = 0
  BY <1>2 DEF BufferOK, UnitOK, AreaOK, UnitInv
<1>5. IsHeader(area[1]) /\ area[1][2] = 0
  BY <1>4 DEF IsHeader, Hdr
<1>6. AreaOK'
  BY <1>1, <1>2, <1>3, <1>5 DEF FitsIn, BufferOK, AreaOK
<1>7. UnitOK'
  BY <1>1, <1>2, <1>3, <1>4, <1>5 DEF BufferOK, UnitOK
<1>8. StageOK'
  BY <1>1, <1>3, <1>4 DEF BufferOK, StageOK, FlushFor, Flushing
<1>9. SyncOK'
  BY <1>1, <1>3 DEF SyncOK
<1> QED
  BY <1>1, <1>2, <1>3, <1>4, <1>6, <1>7, <1>8, <1>9 DEF BufferOK

LEMMA RecoveredBuffer ==
  ASSUME CoreInv, UnitInv, BufferOK, Recovered
  PROVE  /\ BufferOK' /\ pc = "close" /\ pc' = "idle" /\ ~m.is_open_ok
         /\ UNCHANGED <<files, away, area, mapTotal, mode, mapName, mapThere, size, home, last, taken, lost>>
         /\ m'.total_len = 0 /\ m'.remain = m.remain /\ m'.content_len = 0 /\ m.content_len = 0
         /\ m'.hp = m.hp /\ m.total_len <= 1
<1>1. /\ pc = "close" /\ pc' = "idle" /\ m' = [m EXCEPT !.stream = "CLOSE", !.total_len = 0, !.path = None]
      /\ UNCHANGED <<files, away, area, mapTotal, mode, mapName, mapThere, size, home, last, taken, lost>>
  BY DEF Recovered, disk, mapped, hist
<1>2. ~Clearing /\ ~Clearing' /\ ~FlushFor("close")' /\ ~m.is_open_ok /\ m.total_len <= 1
  BY <1>1 DEF Clearing, FlushFor, Flushing, CoreInv, PhaseInv
<1>3. /\ m'.total_len = 0 /\ m'.content_len = m.content_len /\ m'.remain = m.remain /\ m'.hp = m.hp
      /\ m'.zlib = m.zlib /\ m'.is_open_ok = m.is_open_ok
  BY <1>1, Model DEF ModelType
<1>4. m.hp = 1 /\ m.content_len = 0 /\ m.zlib \notin {"ING", "END"}
  BY <1>2 DEF BufferOK, UnitOK
<1>5. AreaOK'
  BY <1>1, <1>2, <1>3, NothingFits DEF BufferOK, AreaOK
<1>6. UnitOK'
  BY <1>1, <1>2, <1>3, <1>4 DEF BufferOK, UnitOK
<1>7. StageOK'
  BY <1>1, <1>2, <1>3, <1>4 DEF StageOK
<1>8. SyncOK'
  BY <1>1, <1>3 DEF SyncOK
<1> QED
  BY <1>1, <1>2, <1>3, <1>4, <1>5, <1>6, <1>7, <1>8 DEF BufferOK

\* Where the buffer is empty, so is the unit.
LEMMA EmptyBuffer ==
  ASSUME CoreInv, UnitInv, BufferOK, m.total_len <= 1
  PROVE  /\ m.content_len = 0 /\ m.hp = 1 /\ m.remain = <<>> /\ m.zlib \notin {"ING", "END"}
         /\ FramesOf(area, m.total_len) = {}
<1>1. m.remain = <<>> /\ m.zlib # "ING"
  BY NothingWaits
<1>2. m.total_len \in Nat /\ m.hp \in Nat /\ m.hp >= 1 /\ m.content_len \in Nat
  BY Model, CellLengths
<1>3. FramesOf(area, m.total_len) = {}
  BY <1>2, NoFrame
<1>4. CASE m.is_open_ok /\ ~Clearing
  BY <1>1, <1>2, <1>3, <1>4 DEF BufferOK, UnitOK
<1>5. CASE ~(m.is_open_ok /\ ~Clearing)
  BY <1>1, <1>3, <1>5 DEF BufferOK, UnitOK
<1> QED
  BY <1>4, <1>5

LEMMA OpenFileBuffer ==
  ASSUME CoreInv, UnitInv, BufferOK, OpenFile
  PROVE  /\ BufferOK' /\ pc = "open" /\ pc' = "idle" /\ arg \in Names /\ m.total_len <= 1
         /\ UNCHANGED <<away, mapTotal, mode, mapThere, size, home, last, taken, lost>>
         /\ files' = Created(arg) \/ UNCHANGED files
         /\ m'.total_len \in {0, 1} /\ m'.remain = <<>> /\ m'.content_len = 0 /\ m'.hp = 1
         /\ \/ m'.path = arg /\ m'.is_open_ok /\ mapName' = (IF mode = "MMAP" THEN arg ELSE mapName)
            \/ ~m'.is_open_ok /\ m'.total_len = 0 /\ mapName' = mapName /\ m'.path = arg
<1>1. /\ pc = "open" /\ pc' = "idle" /\ UNCHANGED <<away, mapTotal, mode, mapThere, size, home, last, taken, lost>>
  BY DEF OpenFile, hist
<1>2. ~Clearing /\ ~Clearing' /\ ~FlushFor("close")' /\ m.total_len <= 1 /\ arg \in Names
  BY <1>1 DEF Clearing, FlushFor, Flushing, CoreInv, PhaseInv
<1>3. m.hp = 1 /\ m.content_len = 0 /\ m.remain = <<>> /\ m.zlib \notin {"ING", "END"} /\ m \in ModelType
  BY <1>2, EmptyBuffer, Model
<1>4. Len(m.remain) < B /\ CellsIn(m.remain) = {}
  BY <1>3, CellLengths DEF CellsIn
<1>5. CASE /\ files' = Created(arg)
           /\ m' = [Opened(m, arg) EXCEPT !.zlib = "INIT", !.total_len = 1, !.hp = 1,
                                          !.is_open_ok = TRUE]
           /\ mapName' = IF mode = "MMAP" THEN arg ELSE mapName
           /\ area' = PutAt(area, 0, <<Hdr(0)>>)
  <2> DEFINE o == Opened(m, arg)
  <2>1. o \in ModelType /\ o.content_len = 0 /\ o.remain = <<>> /\ o.path = arg
    BY <1>2, <1>3, OpenedKeeps DEF CoreInv
  <2>2. m' = [o EXCEPT !.zlib = "INIT", !.total_len = 1, !.hp = 1, !.is_open_ok = TRUE]
    BY <1>5
  <2> HIDE DEF o
  <2>3. /\ m'.total_len = 1 /\ m'.content_len = 0 /\ m'.remain = <<>> /\ m'.hp = 1
        /\ m'.zlib = "INIT" /\ m'.is_open_ok /\ m'.path = arg
    BY <2>1, <2>2 DEF ModelType
  <2>4. /\ Clean(area', Len(area')) /\ FitsIn(area', 1) /\ IsHeader(area'[1]) /\ area'[1][2] = 0
        /\ \A x \in Nat : x <= Len(area) /\ FitsIn(area, x) => FitsIn(area', x)
    BY <1>5, Model, NothingFits, NewHeader
  <2>5. AreaOK'
    BY <1>1, <1>2, <2>3, <2>4, CellLengths DEF BufferOK, AreaOK, CoreInv, LenInv
  <2>6. UnitOK'
    BY <1>1, <1>2, <1>3, <1>4, <2>3, <2>4 DEF UnitOK
  <2>7. StageOK' /\ SyncOK'
    BY <1>1, <1>2, <2>3 DEF StageOK, SyncOK
  <2> QED
    BY <1>1, <1>2, <1>5, <2>3, <2>5, <2>6, <2>7 DEF BufferOK
<1>6. CASE /\ m' = [m EXCEPT !.path = arg, !.stream = "NONE", !.total_len = 0, !.is_open_ok = FALSE]
           /\ UNCHANGED <<files, mapName, area>>
  <2>1. /\ m'.total_len = 0 /\ m'.content_len = 0 /\ m'.remain = <<>> /\ m'.hp = 1
        /\ m'.zlib = m.zlib /\ ~m'.is_open_ok /\ m'.path = arg
    BY <1>3, <1>6 DEF ModelType
  <2>2. AreaOK'
    BY <1>1, <1>2, <1>6, <2>1, NothingFits DEF BufferOK, AreaOK
  <2>3. UnitOK'
    BY <1>2, <1>3, <1>4, <2>1 DEF UnitOK
  <2>4. StageOK' /\ SyncOK'
    BY <1>1, <1>2, <1>3, <2>1 DEF StageOK, SyncOK
  <2> QED
    BY <1>1, <1>2, <1>6, <2>1, <2>2, <2>3, <2>4 DEF BufferOK
<1> QED
  BY <1>5, <1>6 DEF OpenFile

\* clogan_write leaves the mapped buffer as it is, or gives it up for memory.
LEMMA WriteBuffer ==
  ASSUME CoreInv, UnitInv, BufferOK, clogan_write
  PROVE  /\ BufferOK' /\ pc = "idle" /\ pc' = "compress" /\ m.path \in Names /\ m.is_open_ok
         /\ last < MaxWrites /\ last' = last + 1 /\ home' = [home EXCEPT ![last + 1] = m.path]
         /\ files' = Created(m.path) /\ UNCHANGED <<away, mapName, mapTotal, mapThere, size, taken>>
         /\ m'.path = m.path
         /\ \/ /\ mode' = "MEMORY" /\ mode = "MMAP"
               /\ m'.total_len = 1 /\ m'.content_len = 0 /\ m'.remain = <<>> /\ m'.hp = 1
               /\ Lose("dropped", LinesIn(Upto(area, m.total_len) \o m.remain))
            \/ /\ UNCHANGED <<mode, area, lost>>
               /\ m'.total_len = m.total_len /\ m'.content_len = m.content_len
               /\ m'.remain = m.remain /\ m'.hp = m.hp
<1> DEFINE p    == m.path
           mm   == IF Exists(p) THEN m ELSE Opened(m, p)
<1>1. /\ pc = "idle" /\ pc' = "compress" /\ last < MaxWrites /\ m.is_open_ok
      /\ last' = last + 1 /\ home' = [home EXCEPT ![last + 1] = p]
      /\ files' = Created(p)
      /\ UNCHANGED <<away, mapName, mapTotal, mapThere, size, taken>>
      /\ \/ /\ mode = "MMAP" /\ mode' = "MEMORY"
            /\ area' = <<Hdr(0)>>
            /\ m' = [mm EXCEPT !.total_len = 1, !.content_len = 0, !.remain = <<>>,
                               !.hp = 1, !.zlib = "INIT"]
            /\ Lose("dropped", LinesIn(Upto(area, m.total_len) \o m.remain))
         \/ m' = mm /\ UNCHANGED <<mode, area, lost>>
  BY DEF clogan_write
<1>2. p \in Names
  BY <1>1 DEF CoreInv, LinkInv, Closed
<1>3. /\ mm \in ModelType /\ mm.path = p /\ mm.total_len = m.total_len /\ mm.hp = m.hp
      /\ mm.is_open_ok = m.is_open_ok /\ mm.remain = m.remain /\ mm.zlib = m.zlib
      /\ mm.content_len = m.content_len
  BY <1>2, Model, OpenedKeeps DEF CoreInv
<1> HIDE DEF mm
<1>4. ~Clearing /\ ~Clearing' /\ ~FlushFor("close")'
  BY <1>1 DEF Clearing, FlushFor, Flushing
<1>5. CASE /\ mode = "MMAP" /\ mode' = "MEMORY"
           /\ area' = <<Hdr(0)>>
           /\ m' = [mm EXCEPT !.total_len = 1, !.content_len = 0, !.remain = <<>>,
                              !.hp = 1, !.zlib = "INIT"]
           /\ Lose("dropped", LinesIn(Upto(area, m.total_len) \o m.remain))
  <2>1. /\ m'.total_len = 1 /\ m'.content_len = 0 /\ m'.remain = <<>> /\ m'.hp = 1
        /\ m'.zlib = "INIT" /\ m'.is_open_ok /\ m'.path = p
    BY <1>1, <1>3, <1>5 DEF ModelType
  <2>2. /\ Len(area') = 1 /\ area'[1] = Hdr(0) /\ IsHeader(area'[1]) /\ area'[1][2] = 0
    BY <1>5 DEF IsHeader, Hdr
  <2>3. Clean(area', Len(area')) /\ FitsIn(area', 1)
    BY <2>2 DEF Clean, InFrame, FitsIn
  <2>4. AreaOK'
    BY <1>1, <1>4, <1>5, <2>1, <2>3 DEF AreaOK
  <2>5. UnitOK'
    BY <1>1, <1>4, <2>1, <2>2, CellLengths DEF CellsIn, UnitOK
  <2>6. StageOK' /\ SyncOK'
    BY <1>1, <1>4, <1>5, <2>1 DEF StageOK, SyncOK
  <2> QED
    BY <1>1, <1>2, <1>5, <2>1, <2>4, <2>5, <2>6 DEF BufferOK
<1>6. CASE m' = mm /\ UNCHANGED <<mode, area, lost>>
  BY <1>1, <1>2, <1>3, <1>4, <1>6, QuietBuffer DEF BufferOK, StageOK
<1> QED
  BY <1>1, <1>5, <1>6

\* clogan_init reads the mapped buffer, or gives it up, or finds nothing there.
LEMMA InitCallBuffer ==
  ASSUME CoreInv, UnitInv, BufferOK, clogan_init
  PROVE  /\ BufferOK' /\ pc = "down" /\ pc' \in {"flush", "idle"} /\ mode' = "MMAP" /\ mapThere'
         /\ UNCHANGED <<away, area, mapName, mapTotal, last, size, home, taken>>
         /\ ~Writing /\ ~Writing' /\ ~Clearing'
         /\ m'.content_len = 0 /\ m'.remain = <<>> /\ m'.hp = 1
         /\ \/ /\ mapName \in Names /\ mapTotal > 1 /\ mapTotal < BufLen /\ pc' = "flush"
               /\ files' = Created(mapName) /\ m'.total_len = mapTotal /\ m'.path = mapName
               /\ m'.zlib = "NONE" /\ UNCHANGED lost
            \/ /\ mapName \in Names /\ mapTotal > 1 /\ mapTotal < BufLen /\ pc' = "idle"
               /\ UNCHANGED files /\ m'.total_len = 0 /\ m'.path = None
               /\ LET W == LinesIn(Upto(area, mapTotal))
                  IN  lost' = [lost EXCEPT !["stray"] = @ \cup W,
                                           !["unrecovered"] = @ \cup (W \ UNION {Stored(p) : p \in Names})]
            \/ /\ mapName = None \/ ~(mapTotal > 1) \/ ~(mapTotal < BufLen)
               /\ pc' = "idle" /\ UNCHANGED <<files, lost>> /\ m'.total_len = 0 /\ m'.path = None
<1>1. /\ pc = "down" /\ mode' = "MMAP" /\ mapThere'
      /\ UNCHANGED <<away, area, mapName, mapTotal, last, size, home, taken>>
      /\ pc' \in {"flush", "idle"} /\ (pc' = "flush" => ret' = "close")
  BY DEF clogan_init
<1>2. ~Writing /\ ~Writing' /\ ~Clearing'
  BY <1>1 DEF Writing, FlushFor, Flushing, Clearing
<1>3. \/ /\ mapName # None /\ mapTotal > 1 /\ mapTotal < BufLen /\ pc' = "flush"
         /\ files' = Created(mapName) /\ UNCHANGED lost
         /\ m' = [Opened(Fresh, mapName) EXCEPT !.total_len = mapTotal]
      \/ /\ mapName # None /\ mapTotal > 1 /\ mapTotal < BufLen /\ pc' = "idle"
         /\ UNCHANGED files /\ m' = Fresh
         /\ LET W == LinesIn(Upto(area, mapTotal))
            IN  lost' = [lost EXCEPT !["stray"] = @ \cup W,
                                     !["unrecovered"] = @ \cup (W \ UNION {Stored(p) : p \in Names})]
      \/ /\ mapName = None \/ ~(mapTotal > 1) \/ ~(mapTotal < BufLen)
         /\ pc' = "idle" /\ UNCHANGED <<files, lost>> /\ m' = Fresh
  BY DEF clogan_init
<1>4. mapName \in Names \cup {None} /\ TypeOK
  BY DEF CoreInv, TypeOK
<1>5. /\ m'.content_len = 0 /\ m'.remain = <<>> /\ m'.hp = 1 /\ m'.zlib = "NONE" /\ ~m'.is_open_ok
      /\ \/ pc' = "flush" /\ m'.total_len = mapTotal /\ m'.path = mapName
         \/ pc' = "idle" /\ m'.total_len = 0 /\ m'.path = None
  <2> DEFINE o == Opened(Fresh, mapName)
  <2>1. /\ o \in ModelType /\ o.content_len = 0 /\ o.remain = <<>> /\ o.hp = 1 /\ o.zlib = "NONE"
        /\ ~o.is_open_ok /\ o.path = mapName
    BY <1>4, FreshIs, OpenedKeeps DEF Fresh
  <2>2. CASE m' = [Opened(Fresh, mapName) EXCEPT !.total_len = mapTotal] /\ pc' = "flush"
    <3>1. m' = [o EXCEPT !.total_len = mapTotal]
      BY <2>2
    <3> HIDE DEF o
    <3> QED
      BY <2>1, <2>2, <3>1 DEF ModelType
  <2>3. CASE m' = Fresh /\ pc' = "idle"
    BY <2>3 DEF Fresh
  <2> QED
    BY <1>3, <2>2, <2>3
<1>6. AreaOK'
  BY <1>1, <1>2, <1>5, NothingFits DEF BufferOK, AreaOK
<1>7. UnitOK'
  BY <1>5, CellLengths DEF CellsIn, UnitOK
<1>8. StageOK'
  BY <1>1, <1>5 DEF StageOK
<1>9. SyncOK'
  BY <1>1, <1>5, CellLengths DEF SyncOK
<1> QED
  BY <1>1, <1>2, <1>3, <1>4, <1>5, <1>6, <1>7, <1>8, <1>9 DEF BufferOK

\* A crash leaves the mapped lengths, or nothing.
LEMMA CrashBuffer ==
  ASSUME CoreInv, UnitInv, BufferOK, Crash
  PROVE  /\ BufferOK' /\ pc # "down" /\ pc' = "down" /\ m' = Fresh /\ ~Writing'
         /\ UNCHANGED <<files, away, mapName, mapThere, mode, last, size, home, taken>>
         /\ area' \in Seq(Cell)
         /\ \/ /\ mode = "MMAP" /\ mapThere /\ area' = Upto(area, mapTotal) /\ mapTotal' = mapTotal
               /\ FitsIn(area, mapTotal) /\ Clean(area, mapTotal) /\ mapTotal <= Len(area)
               /\ FramesOf(area', mapTotal) = FramesOf(area, mapTotal)
               /\ Lose("cut", {c[2] : c \in AtRisk})
            \/ /\ ~(mode = "MMAP" /\ mapThere) /\ area' = <<>> /\ mapTotal' = 0
               /\ Lose("dropped", LinesIn(Upto(area, m.total_len) \o m.remain))
<1>1. /\ pc # "down" /\ pc' = "down" /\ m' = Fresh
      /\ UNCHANGED <<files, away, mapName, mapThere, mode, last, size, home, taken>>
      /\ \/ /\ mode = "MMAP" /\ mapThere /\ area' = Upto(area, mapTotal) /\ mapTotal' = mapTotal
            /\ Lose("cut", {c[2] : c \in AtRisk})
         \/ /\ ~(mode = "MMAP" /\ mapThere) /\ area' = <<>> /\ mapTotal' = 0
            /\ Lose("dropped", LinesIn(Upto(area, m.total_len) \o m.remain))
  BY DEF Crash, disk
<1>2. /\ ~Writing' /\ ~Clearing' /\ ~FlushFor("close")'
  BY <1>1 DEF Writing, FlushFor, Flushing, Clearing
<1>3. /\ m'.total_len = 0 /\ m'.content_len = 0 /\ m'.remain = <<>> /\ m'.hp = 1 /\ m'.zlib = "NONE"
      /\ ~m'.is_open_ok
  BY <1>1 DEF Fresh
<1>4. UnitOK'
  BY <1>3, CellLengths DEF CellsIn, UnitOK
<1>5. StageOK' /\ SyncOK'
  BY <1>1, <1>2, <1>3 DEF StageOK, SyncOK
<1>6. ASSUME mode = "MMAP", area' = Upto(area, mapTotal), mapTotal' = mapTotal
      PROVE  /\ AreaOK' /\ area' \in Seq(Cell)
             /\ FitsIn(area, mapTotal) /\ Clean(area, mapTotal) /\ mapTotal <= Len(area)
             /\ FramesOf(area', mapTotal) = FramesOf(area, mapTotal)
  <2>1. FitsIn(area, mapTotal) /\ Clean(area, Len(area)) /\ mapTotal <= Len(area) /\ mapTotal \in Nat
    BY <1>6, CellLengths DEF BufferOK, AreaOK, CoreInv, LenInv
  <2>2. area \in Seq(Cell) /\ Len(area) \in Nat
    BY Model
  <2>3. Clean(area, mapTotal)
    BY <2>1, <2>2, Prefixes
  <2>4. /\ area' \in Seq(Cell) /\ Len(area') = mapTotal
        /\ \A i \in 1..mapTotal : area[i] = area'[i]
    BY <1>6, <2>1, <2>2, UptoIs
  <2>5. /\ FitsIn(area', mapTotal) /\ Clean(area', mapTotal)
        /\ FramesOf(area', mapTotal) = FramesOf(area, mapTotal)
    BY <2>1, <2>3, <2>4, SameCells
  <2>6. AreaOK'
    BY <1>2, <1>3, <1>6, <2>4, <2>5, NothingFits DEF AreaOK
  <2> QED
    BY <2>1, <2>3, <2>4, <2>5, <2>6
<1>7. ASSUME area' = <<>>, mapTotal' = 0 PROVE AreaOK' /\ area' \in Seq(Cell)
  BY <1>2, <1>3, <1>7, NothingFramed, NothingFits DEF Clean, AreaOK
<1>8. CASE mode = "MMAP" /\ mapThere
  BY <1>1, <1>2, <1>4, <1>5, <1>6, <1>8 DEF BufferOK
<1>9. CASE ~(mode = "MMAP" /\ mapThere)
  BY <1>1, <1>2, <1>4, <1>5, <1>7, <1>9 DEF BufferOK
<1> QED
  BY <1>8, <1>9

LEMMA InitBuffer == Init => BufferOK
<1> SUFFICES ASSUME Init PROVE BufferOK
  OBVIOUS
<1>1. /\ pc = "down" /\ m = Fresh /\ area = <<>> /\ mapTotal = 0
  BY DEF Init
<1>2. ~Clearing /\ ~FlushFor("close")
  BY <1>1 DEF FlushFor, Flushing, Clearing
<1>3. /\ m.total_len = 0 /\ m.content_len = 0 /\ m.remain = <<>> /\ m.hp = 1 /\ m.zlib = "NONE"
      /\ ~m.is_open_ok
  BY <1>1 DEF Fresh
<1>4. AreaOK
  BY <1>1, <1>2, <1>3, NothingFits DEF Clean, AreaOK
<1>5. UnitOK
  BY <1>3, CLoganAssumption DEF CellsIn, UnitOK
<1>6. StageOK /\ SyncOK
  BY <1>1, <1>2, <1>3 DEF StageOK, SyncOK
<1> QED
  BY <1>4, <1>5, <1>6 DEF BufferOK

LEMMA StutterBuffer == BufferOK /\ UNCHANGED vars => BufferOK'
  BY DEF vars, mapped, ctl, BufferOK, AreaOK, UnitOK, Clearing, StageOK, SyncOK, FlushFor, Flushing

LEMMA NextBuffer == CoreInv /\ UnitInv /\ BufferOK /\ [Steps]_vars => BufferOK'
<1> SUFFICES ASSUME CoreInv, UnitInv, BufferOK, [Steps]_vars PROVE BufferOK'
  OBVIOUS
<1>1. CASE Call
  BY <1>1, InitCallBuffer, ControlBuffer, WriteBuffer DEF Call
<1>2. CASE Recovered \/ OpenFile \/ Compress \/ Total \/ Length
  BY <1>2, RecoveredBuffer, OpenFileBuffer, CompressBuffer, TotalBuffer, LengthBuffer
<1>3. CASE Section \/ Unmap \/ Flushed
  BY <1>3, ControlBuffer
<1>4. CASE Unit \/ Flush
  BY <1>4, EndUnitBuffer, ControlBuffer
<1>5. CASE Ended
  BY <1>5, EndedBuffer, ControlBuffer
<1>6. CASE Dest \/ PutOut \/ \E p \in Names : MoveAway(p)
  BY <1>6, FileBuffer
<1>7. CASE Clear \/ Cleared \/ Crash
  BY <1>7, ClearBuffer, ClearedBuffer, CrashBuffer
<1>8. CASE UNCHANGED vars
  BY <1>8, StutterBuffer
<1> QED
  BY <1>1, <1>2, <1>3, <1>4, <1>5, <1>6, <1>7, <1>8 DEF Steps

-------------------------------------------------------------------------------
(* What the steps do to the files *)

LEMMA FilesKept ==
  ASSUME CoreInv, FilesOK, UNCHANGED away, NEW q \in Names \cup {None},
         files' = Created(q) \/ UNCHANGED files
  PROVE  FilesOK' /\ \A p \in Names : InFile(p)' = InFile(p)
  BY CreatedCells, SameCellsOfFiles, FilesStay

\* An empty file gets the header unit.
LEMMA DestCells ==
  ASSUME CoreInv, Dest, ~UNCHANGED files
  PROVE  LET unit == <<Hdr(B)>> \o Pads(B) \o <<End>>
         IN  \A p \in Names : Cells(p)' = IF p = m.path THEN Cells(p) \o unit ELSE Cells(p)
<1> DEFINE q == m.path
           unit == <<Hdr(B)>> \o Pads(B) \o <<End>>
<1>1. q \in Names
  BY DEF Dest, CoreInv, LinkInv, Closed
<1>2. unit \in Seq(Cell)
  BY HeadIs
<1>3. files' = [Created(q) EXCEPT ![q] = @ \o unit]
  BY DEF Dest
<1> HIDE DEF unit
<1> SUFFICES ASSUME NEW p \in Names
             PROVE  Cells(p)' = IF p = q THEN Cells(p) \o unit ELSE Cells(p)
  BY DEF unit
<1>4. p # None /\ None \notin Seq(Cell)
  BY CLoganAssumption, NoneAssumption
<1>5. /\ Created(q) \in [Names -> Seq(Cell) \cup {None}] /\ Created(q)[q] # None
      /\ p # q => Created(q)[p] = files[p]
      /\ files[p] # None => Created(q)[p] = files[p]
      /\ files[p] = None => Created(q)[p] \in {None, <<>>}
  BY <1>1, CreatedIs DEF CoreInv
<1>6. CASE p = q
  <2>1. Created(q)[q] = Cells(q)
    BY <1>4, <1>5, <1>6 DEF Cells, Exists
  <2>2. files'[q] = Created(q)[q] \o unit
    BY <1>1, <1>3, <1>5
  <2>3. Created(q)[q] \o unit \in Seq(Cell)
    BY <1>1, <1>2, <1>5
  <2>4. files'[q] # None
    BY <1>4, <2>2, <2>3
  <2> QED
    BY <1>4, <1>6, <2>1, <2>2, <2>4 DEF Cells, Exists
<1>7. CASE p # q
  BY <1>1, <1>3, <1>5, <1>7 DEF Cells, Exists
<1> QED
  BY <1>6, <1>7

\* A file that is empty gets its header, and no lines.
LEMMA DestFiles ==
  ASSUME CoreInv, FilesOK, Dest
  PROVE  /\ FilesOK' /\ m.path \in Names
         /\ \A p \in Names : /\ InFile(p) \subseteq InFile(p)'
                             /\ \A c \in InFile(p)' : c \in InFile(p) \/ c[1] # "data"
<1> DEFINE q == m.path
           unit == <<Hdr(B)>> \o Pads(B) \o <<End>>
<1>1. q \in Names /\ UNCHANGED away
  BY DEF Dest, CoreInv, LinkInv, Closed
<1>2. Plain(unit) /\ unit \in Seq(Cell) /\ \A c \in Framed(unit) : c[1] # "data"
  BY HeadUnit, HeadIs
<1>3. CASE UNCHANGED files
  BY <1>1, <1>3, FilesKept
<1>4. CASE ~UNCHANGED files
  <2>1. \A p \in Names : Cells(p)' = IF p = q THEN Cells(p) \o unit ELSE Cells(p)
    BY <1>4, DestCells
  <2> HIDE DEF unit
  <2>2. FilesOK' /\ \A p \in Names : InFile(p)' = IF p = q THEN InFile(p) \cup Framed(unit) ELSE InFile(p)
    BY <1>1, <1>2, <2>1, FileGrows
  <2> QED
    BY <1>1, <1>2, <2>2
<1> QED
  BY <1>3, <1>4

\* What is in use of the buffer is appended to the file.
LEMMA PutOutCells ==
  ASSUME CoreInv, PutOut
  PROVE  /\ m.path \in Names /\ UNCHANGED away
         /\ \A p \in Names : Cells(p)' = IF p = m.path THEN Cells(p) \o Upto(area, m.total_len)
                                                       ELSE Cells(p)
<1> DEFINE q == m.path
           t == Upto(area, m.total_len)
<1>1. q \in Names /\ m.fp = q /\ Exists(q) /\ UNCHANGED away
  BY PutOutCore DEF PutOut, CoreInv, LinkInv, Closed
<1>2. files' = [files EXCEPT ![q] = @ \o t]
  BY <1>1 DEF PutOut, Appended
<1>3. t \in Seq(Cell)
  BY Model, UptoIs
<1> HIDE DEF t
<1> SUFFICES ASSUME NEW p \in Names PROVE Cells(p)' = IF p = q THEN Cells(p) \o t ELSE Cells(p)
  BY <1>1 DEF t
<1>4. p # None /\ None \notin Seq(Cell) /\ files \in [Names -> Seq(Cell) \cup {None}]
  BY CLoganAssumption, NoneAssumption DEF CoreInv, TypeOK
<1>5. CASE p = q
  <2>1. files'[q] = files[q] \o t /\ Cells(q) = files[q] /\ files[q] # None
    BY <1>1, <1>2, <1>4 DEF Cells, Exists
  <2>2. files[q] \o t \in Seq(Cell)
    BY <1>1, <1>3, <1>4, <2>1
  <2>3. files'[q] # None
    BY <1>4, <2>1, <2>2
  <2> QED
    BY <1>4, <1>5, <2>1, <2>3 DEF Cells, Exists
<1>6. CASE p # q
  BY <1>1, <1>2, <1>4, <1>6 DEF Cells, Exists
<1> QED
  BY <1>5, <1>6

\* What the buffer holds is in the file.
LEMMA PutOutFiles ==
  ASSUME CoreInv, UnitInv, FrameInv, PutOut
  PROVE  /\ FilesOK' /\ m.path \in Names
         /\ \A p \in Names : InFile(p)' = IF p = m.path THEN InFile(p) \cup FramesOf(area, m.total_len)
                                                        ELSE InFile(p)
<1> DEFINE t == Upto(area, m.total_len)
<1>1. /\ m.path \in Names /\ UNCHANGED away
      /\ \A p \in Names : Cells(p)' = IF p = m.path THEN Cells(p) \o t ELSE Cells(p)
  BY PutOutCells
<1>2. t \in Seq(Cell) /\ Plain(t) /\ Framed(t) = FramesOf(area, m.total_len)
  BY Model, Prefixes, UptoFrames, UptoIs DEF FrameInv, BufferOK, AreaOK
<1> HIDE DEF t
<1>3. FilesOK' /\ \A p \in Names : InFile(p)' = IF p = m.path THEN InFile(p) \cup Framed(t) ELSE InFile(p)
  BY <1>1, <1>2, FileGrows DEF FrameInv
<1> QED
  BY <1>1, <1>2, <1>3

\* Few steps touch the files.
LEMMA FileSteps ==
  [Steps]_vars /\ ~PutOut /\ ~Dest =>
     \/ clogan_init \/ clogan_write \/ OpenFile \/ UNCHANGED <<files, away>>
     \/ \E p \in Names : MoveAway(p)
<1> SUFFICES ASSUME [Steps]_vars, ~PutOut, ~Dest
             PROVE  \/ clogan_init \/ clogan_write \/ OpenFile \/ UNCHANGED <<files, away>>
                    \/ \E p \in Names : MoveAway(p)
  OBVIOUS
<1>1. CASE (\E p \in Names : clogan_open(p)) \/ clogan_flush \/ Recovered \/ Compress \/ Total \/ Length
  BY <1>1 DEF clogan_open, clogan_flush, Recovered, Compress, Total, Length, disk
<1>2. CASE Unit \/ Ended \/ Section \/ Flush \/ Flushed \/ Clear \/ Cleared \/ Crash \/ Unmap
  BY <1>2 DEF Unit, Ended, Section, Flush, Flushed, Clear, Cleared, Crash, Unmap, disk
<1>3. CASE UNCHANGED vars
  BY <1>3 DEF vars, disk
<1> QED
  BY <1>1, <1>2, <1>3 DEF Steps, Call

\* No other step changes what can be read.
LEMMA OtherFiles ==
  ASSUME CoreInv, UnitInv, FrameInv, [Steps]_vars, ~PutOut, ~Dest
  PROVE  FilesOK' /\ \A p \in Names : InFile(p)' = InFile(p)
  BY FilesKept, FileMoves, InitCallBuffer, WriteBuffer, OpenFileBuffer, FileSteps DEF FrameInv

LEMMA NextFrame ==
  ASSUME CoreInv, UnitInv, FrameInv, [Steps]_vars
  PROVE  /\ FrameInv' /\ \A p \in Names : InFile(p) \subseteq InFile(p)'
<1>1. BufferOK'
  BY NextBuffer DEF FrameInv
<1>2. FilesOK' /\ \A p \in Names : InFile(p) \subseteq InFile(p)'
  BY DestFiles, PutOutFiles, OtherFiles DEF FrameInv
<1> QED
  BY <1>1, <1>2 DEF FrameInv

LEMMA InitFrame == Init => FrameInv
  BY InitBuffer, NothingFramed DEF FrameInv, FilesOK, Init, Cells, Exists

LEMMA FramesAlways == Spec => [](CoreInv /\ TearsLeft /\ DataInv /\ (Untorn => FrameInv))
<1>1. Init => DataInv /\ FrameInv
  BY InitData, InitFrame
<1>2. /\ CoreInv /\ TearsLeft /\ DataInv /\ (Untorn => FrameInv) /\ [Next]_vars
      => DataInv' /\ (Untorn' => FrameInv')
  BY UntornStep, NextData, TearData, NextFrame DEF DataInv, Next
<1> QED
  BY <1>1, <1>2, TearsAlways, PTL DEF Spec

\* As long as no crash falls within a step, every file, moved away or not, consists of
\* complete units: no header announces more than what follows it, or another header among
\* it.  So a crash between the steps that make a unit is nowhere to be seen in a file, as
\* clogan_flush writes only up to total_len.
THEOREM FilesHoldCompleteUnits == Spec => [](Untorn => FilesOK)
<1>1. FrameInv => FilesOK
  BY DEF FrameInv
<1> QED
  BY <1>1, FramesAlways, PTL

\* As long as no crash falls within a step, what a reader finds in a file he finds in it
\* ever after, wherever LoganThread has moved it: an append, a recovery's included, begins
\* where a complete unit ends.
THEOREM WhatIsReadStays ==
  Spec => [][Untorn' => \A p \in Names : InFile(p) \subseteq InFile(p)']_vars
<1>1. CoreInv /\ TearsLeft /\ DataInv /\ (Untorn => FrameInv) /\ [Next]_vars =>
        [Untorn' => \A p \in Names : InFile(p) \subseteq InFile(p)']_vars
  BY UntornStep, NextFrame DEF DataInv
<1> QED
  BY <1>1, FramesAlways, PTL DEF Spec

-------------------------------------------------------------------------------
(* The mapped buffer does not overflow *)

LEMMA NextRoomInv ==
  ASSUME CoreInv, UnitInv, BufferOK, RoomForSection, NEW n \in Nat, Fits(n), RoomInv(n), [Steps]_vars
  PROVE  RoomInv(n)' /\ RoomForSection'
<1> DEFINE third == BufLen \div 3
           full  == BufLen \div 3 + GzHead + n + B
           k     == m.total_len
<1>1. /\ BufLen \in Nat /\ third \in Nat /\ full \in Nat /\ B \in Nat /\ B >= 1 /\ GzHead \in Nat
      /\ Trailer \in Nat /\ full + Trailer + 2 * B < BufLen /\ third <= full /\ BufLen >= 3
      /\ full = third + GzHead + n + B
  BY CLoganAssumption DEF Fits
<1>2. /\ k \in Nat /\ mapTotal \in Nat /\ Len(m.remain) \in Nat /\ Len(m.remain) < B
  BY Model, CellLengths DEF BufferOK, UnitOK
<1>3. RoomForSection'
  BY <1>1, NextRoom
<1>4. /\ mapTotal < BufLen
      /\ mode = "MMAP" =>
            /\ k < BufLen
            /\ pc = "compress" \/ pc \in {"idle", "section"} => k <= third
            /\ pc \in {"total", "len"} /\ after = "unit" => k <= full
            /\ pc = "unit" \/ (pc = "flush" /\ m.zlib = "ING") => k <= full
  BY DEF RoomInv, RoomForSection
<1> HIDE DEF third, full, k
<1>5. SUFFICES
        /\ mapTotal' < BufLen
        /\ mode' = "MMAP" =>
              /\ m'.total_len < BufLen
              /\ pc' = "compress" => m'.total_len <= third
              /\ pc' \in {"total", "len"} /\ after' = "unit" => m'.total_len <= full
              /\ pc' = "unit" \/ (pc' = "flush" /\ m'.zlib = "ING") => m'.total_len <= full
  BY <1>3 DEF RoomInv, third, full
<1>6. CASE /\ UNCHANGED <<m, mode, mapTotal>> /\ pc' \notin {"total", "len", "unit"} /\ pc # "down"
           /\ pc' = "compress" => pc = "section"
           /\ pc' = "flush" => pc \in {"idle", "unit"} \/ m.zlib # "ING"
  <2>1. mapTotal' < BufLen /\ mode' = mode /\ m' = m /\ m'.total_len = k
    BY <1>4, <1>6 DEF k
  <2>2. ASSUME mode = "MMAP"
        PROVE  /\ k < BufLen
               /\ pc' = "compress" => k <= third
               /\ ~(pc' \in {"total", "len"}) /\ pc' # "unit"
               /\ pc' = "flush" /\ m.zlib = "ING" => k <= full
    BY <1>1, <1>2, <1>4, <1>6, <2>2
  <2> QED
    BY <2>1, <2>2
<1>7. CASE (\E p \in Names : clogan_open(p)) \/ clogan_flush \/ Section \/ Unmap \/ Flushed
           \/ (\E p \in Names : MoveAway(p))
  <2>1. /\ UNCHANGED <<m, mode, mapTotal>> /\ pc' \notin {"total", "len", "unit"} /\ pc # "down"
        /\ pc' = "compress" => pc = "section"
        /\ pc' = "flush" => pc \in {"idle", "unit"} \/ m.zlib # "ING"
    BY <1>7 DEF clogan_open, clogan_flush, Section, Unmap, Flushed, MoveAway, mapped, ctl, CoreInv, TypeOK
  <2> QED
    BY <1>6, <2>1
<1>8. CASE Unit \/ Flush \/ Ended
  <2>1. CASE pc' = "total"
    <3>1. Unit \/ (Flush /\ m.zlib = "ING")
      BY <1>8, <2>1 DEF Flush, Ended, WriteOut
    <3>2. /\ UNCHANGED <<mapTotal, mode>> /\ m'.total_len <= k + Len(m.remain) + Trailer + B + 1
          /\ m'.total_len \in Nat
      BY <2>1, <3>1, EndUnitBuffer DEF k, Grown, ModelType
    <3>3. mode = "MMAP" => k <= full
      BY <1>4, <3>1 DEF Unit, Flush
    <3>4. after' # "unit"
      BY <2>1, <3>1 DEF Unit, Flush, UpdateLength, WriteOut
    <3>5. mode = "MMAP" => m'.total_len < BufLen
      BY <1>1, <1>2, <3>2, <3>3
    <3> QED
      BY <1>4, <2>1, <3>2, <3>4, <3>5
  <2>2. CASE pc' # "total" /\ (Unit \/ Flush \/ pc' = "flush")
    BY <1>6, <1>8, <2>2 DEF BufferOK, StageOK, Unit, Flush, Ended, UpdateLength, WriteOut, mapped
  <2>3. CASE Ended /\ pc' # "flush"
    <3>1. UNCHANGED <<mapTotal, mode>> /\ m'.total_len = k + 1 /\ pc' = "section"
      BY <2>3, EndedBuffer DEF k
    <3>2. mode = "MMAP" => ~(k >= third)
      BY <2>3 DEF Ended, WriteOut, Third, k, third
    <3>3. mode = "MMAP" => k + 1 < BufLen
      BY <1>1, <1>2, <3>2
    <3> QED
      BY <1>4, <3>1, <3>3
  <2> QED
    BY <1>8, <2>1, <2>2, <2>3
<1>9. CASE Compress
  <2>1. /\ pc = "compress" /\ UNCHANGED <<mapTotal, mode>> /\ pc' = "total" /\ last \in Lines
        /\ m'.total_len \in Nat
    BY <1>9, CompressBuffer DEF Grown, ModelType
  <2>2. PICK c \in CSizes : m'.total_len <= k + Len(m.remain) + Len(Out(c))
    BY <1>9, CompressBuffer DEF k
  <2>3. Len(Out(c)) <= GzHead + c /\ Len(Out(c)) \in Nat /\ c <= n /\ c \in Nat
    BY <2>1, OutIs, LenProperties, CLoganAssumption DEF Fits
  <2>4. mode = "MMAP" => m'.total_len <= full /\ m'.total_len < BufLen
    BY <1>1, <1>2, <1>4, <2>1, <2>2, <2>3
  <2> QED
    BY <1>4, <2>1, <2>4
<1>10. CASE Total
  BY <1>4, <1>10, TotalBuffer DEF k, Total
<1>11. CASE Length
  BY <1>11, <1>4, LengthBuffer DEF CoreInv, TypeOK, k
<1>12. CASE Dest \/ PutOut
  <2>1. /\ UNCHANGED <<mode, mapTotal>> /\ m'.total_len = k /\ pc' \in {"put", "clear"}
    BY <1>12, Model, DestKeeps DEF ModelType, CoreInv, mapped, k, PutOut
  <2> QED
    BY <1>4, <2>1
<1>13. CASE Clear \/ Cleared \/ Recovered
  <2>1. /\ UNCHANGED <<mode, mapTotal>> /\ m'.total_len \in {0, 1} /\ pc' # "unit"
        /\ (pc' \in {"total", "len"} => after' = "cleared") /\ pc' # "flush" /\ pc' # "compress"
    BY <1>13, ClearBuffer, ClearedBuffer, RecoveredBuffer DEF Cleared, CoreInv, TypeOK
  <2> QED
    BY <1>1, <1>4, <2>1
<1>14. CASE OpenFile
  BY <1>1, <1>14, <1>4, OpenFileBuffer
<1>15. CASE clogan_write
  BY <1>15, <1>4, WriteBuffer DEF k
<1>16. CASE clogan_init
  BY <1>1, <1>16, <1>4, InitCallBuffer
<1>17. CASE Crash
  BY <1>1, <1>17, <1>4, CrashBuffer, FreshIs
<1>18. CASE UNCHANGED vars
  BY <1>18, <1>4 DEF vars, mapped, ctl, k
<1> QED
  BY <1>7, <1>8, <1>9, <1>10, <1>11, <1>12, <1>13, <1>14, <1>15, <1>16, <1>17, <1>18 DEF Steps, Call

LEMMA InitRoom ==
  ASSUME Init, NEW n \in Nat, Fits(n), BufLen >= 3
  PROVE  RoomInv(n) /\ RoomForSection
BY FreshIs, CLoganAssumption DEF Init, RoomInv, RoomForSection

-------------------------------------------------------------------------------
(* The lines *)

\* clogan_write is begun by the call, and the number of the line stays.
LEMMA WritingStays ==
  ASSUME CoreInv, [Steps]_vars, ~clogan_write
  PROVE  UNCHANGED <<last, home>> /\ (Writing' => Writing)
<1>1. /\ pc \in {"down", "idle", "compress", "total", "len", "unit", "ended", "section",
                 "flush", "flushed", "dest", "put", "clear", "cleared", "open", "close"}
      /\ after \in {"unit", "ended", "flushed", "cleared"}
      /\ ret \in {"idle", "section", "open", "close"}
  BY DEF CoreInv, TypeOK
<1>2. CASE clogan_init \/ (\E p \in Names : clogan_open(p)) \/ clogan_flush \/ Recovered
  BY <1>1, <1>2 DEF clogan_init, clogan_open, clogan_flush, Recovered, hist, Writing, FlushFor, Flushing
<1>3. CASE OpenFile \/ Compress \/ Total \/ Length
  BY <1>1, <1>3 DEF OpenFile, Compress, Total, Length, UpdateLength, hist, Writing, FlushFor, Flushing
<1>4. CASE Unit \/ Ended \/ Section
  BY <1>1, <1>4 DEF Unit, Ended, Section, WriteOut, UpdateLength, hist, Writing, FlushFor, Flushing
<1>5. CASE Flush \/ Flushed \/ Dest \/ PutOut
  BY <1>1, <1>5 DEF Flush, Flushed, Dest, PutOut, UpdateLength, hist, Writing, FlushFor, Flushing
<1>6. CASE Clear \/ Cleared \/ Crash
  BY <1>1, <1>6 DEF Clear, Cleared, Crash, UpdateLength, hist, Writing, FlushFor, Flushing
<1>7. CASE Unmap \/ (\E p \in Names : MoveAway(p)) \/ UNCHANGED vars
  BY <1>1, <1>7 DEF Unmap, MoveAway, vars, hist, ctl, Writing, FlushFor, Flushing
<1> QED
  BY <1>2, <1>3, <1>4, <1>5, <1>6, <1>7 DEF Steps, Call

\* Lines that are given up stay so.
LEMMA LoseGrows ==
  ASSUME TypeOK, NEW cause \in Causes, NEW W, lost' = [lost EXCEPT ![cause] = @ \cup W]
  PROVE  /\ \A c \in Causes : lost[c] \subseteq lost'[c]
         /\ W \subseteq lost'[cause]
         /\ \A c \in Causes : c # cause => lost'[c] = lost[c]
BY DEF TypeOK

LEMMA GivenGrows ==
  ASSUME \A c \in Causes : lost[c] \subseteq lost'[c]
  PROVE  Given \subseteq Given'
BY DEF Given

LEMMA GivenIs == \A c \in Causes : c # "stray" => lost[c] \subseteq Given /\ lost'[c] \subseteq Given'
BY DEF Given

LEMMA SameGiven == lost' = lost => Given' = Given
BY DEF Given

LEMMA LostGrows ==
  ASSUME CoreInv, [Steps]_vars
  PROVE  \A c \in Causes : lost[c] \subseteq lost'[c]
<1>1. TypeOK /\ "cut" \in Causes /\ "dropped" \in Causes
  BY DEF CoreInv, Causes
<1>2. CASE lost' = lost
  BY <1>2
<1>3. CASE clogan_init
  <2>1. CASE lost' = lost
    BY <2>1
  <2>2. CASE \E W, V : lost' = [lost EXCEPT !["stray"] = @ \cup W, !["unrecovered"] = @ \cup V]
    <3>1. PICK W, V : lost' = [lost EXCEPT !["stray"] = @ \cup W, !["unrecovered"] = @ \cup V]
      BY <2>2
    <3>2. lost \in [Causes -> SUBSET Lines]
      BY <1>1 DEF TypeOK
    <3> QED
      BY <3>1, <3>2
  <2> QED
    BY <1>3, <2>1, <2>2 DEF clogan_init
<1>4. CASE clogan_write
  BY <1>1, <1>4, LoseGrows, Zenon DEF clogan_write, Lose
<1>5. CASE Crash
  BY <1>1, <1>5, LoseGrows, Zenon DEF Crash, Lose
<1>6. [Steps]_vars /\ ~clogan_init /\ ~clogan_write /\ ~Crash => lost' = lost
  BY Zenon DEF Steps, Call, clogan_open, clogan_flush, Recovered, OpenFile, Compress, Total, Length,
         Unit, Ended, Section, Flush, Flushed, Dest, PutOut, Clear, Cleared, Unmap, MoveAway, hist, vars
<1> QED
  BY <1>2, <1>3, <1>4, <1>5, <1>6, Zenon

LEMMA TakenGrows ==
  ASSUME CoreInv, [Steps]_vars
  PROVE  /\ UNCHANGED taken \/ (Section /\ Writing /\ taken' = taken \cup {last} /\ pc' = "idle")
         /\ UNCHANGED size \/ Compress
<1>1. CASE Section
  BY <1>1 DEF Section, hist, Writing
<1>2. CASE Compress
  BY <1>2 DEF Compress
<1>3. CASE ~Section /\ ~Compress
  BY <1>3 DEF Steps, Call, clogan_init, clogan_open, clogan_write, clogan_flush, Recovered, OpenFile, Total,
         Length, Unit, Ended, Flush, Flushed, Dest, PutOut, Clear, Cleared, Crash, Unmap,
         MoveAway, hist, vars
<1> QED
  BY <1>1, <1>2, <1>3

LEMMA NextLines ==
  ASSUME CoreInv, UnitInv, BufferOK, LinesInv, [Steps]_vars
  PROVE  LinesInv' /\ taken \subseteq taken' /\ Given \subseteq Given'
         /\ \A w \in taken : home'[w] = home[w] /\ size'[w] = size[w] /\ home[w] \in Names
<1>1. /\ last \in 0..MaxWrites /\ MaxWrites \in Nat /\ last \in Nat /\ size \in [Lines -> Nat]
      /\ home \in [Lines -> Names \cup {None}] /\ taken \subseteq Lines
  BY CLoganAssumption DEF CoreInv, TypeOK
<1>2. CASE clogan_write
  <2>1. /\ last' = last + 1 /\ last < MaxWrites /\ m.path \in Names
        /\ home' = [home EXCEPT ![last + 1] = m.path] /\ UNCHANGED <<size, taken>>
    BY <1>2, WriteBuffer
  <2>2. \A w \in 1..last : home'[w] = home[w]
    BY <1>1, <2>1 DEF Lines
  <2>3. home'[last + 1] = m.path
    BY <1>1, <2>1 DEF Lines
  <2>4. \A w \in 1..(last + 1) : home'[w] \in Names
    BY <1>1, <2>1, <2>2, <2>3 DEF LinesInv
  <2>5. LinesInv'
    BY <1>1, <2>1, <2>4 DEF LinesInv, Lines
  <2> QED
    BY <2>1, <2>2, <2>5, LostGrows, GivenGrows DEF LinesInv
<1>3. CASE Compress
  <2>1. /\ UNCHANGED <<last, home, taken>> /\ Writing /\ last \in Lines
        /\ \E c \in CSizes : size' = [size EXCEPT ![last] = @ + c]
    BY <1>3, CompressBuffer
  <2>2. \A w \in Lines : w # last => size'[w] = size[w]
    BY <1>1, <2>1
  <2>3. last \notin taken
    BY <2>1 DEF LinesInv
  <2>4. LinesInv'
    BY <1>1, <2>1, <2>2, <2>3 DEF LinesInv, Lines
  <2> QED
    BY <1>1, <2>1, <2>2, <2>3, <2>4, LostGrows, GivenGrows DEF LinesInv
<1>4. CASE ~clogan_write /\ ~Compress
  <2>1. UNCHANGED <<last, home, size>> /\ (Writing' => Writing)
    BY <1>4, WritingStays, TakenGrows
  <2>2. CASE UNCHANGED taken
    BY <2>1, <2>2, LostGrows, GivenGrows DEF LinesInv
  <2>3. CASE taken' = taken \cup {last} /\ pc' = "idle" /\ Writing
    <3>1. ~Writing' /\ last \in 1..last
      BY <1>1, <2>3 DEF Writing, FlushFor, Flushing, CoreInv, PhaseInv, Lines
    <3> QED
      BY <2>1, <2>3, <3>1, LostGrows, GivenGrows DEF LinesInv
  <2> QED
    BY <2>2, <2>3, TakenGrows
<1> QED
  BY <1>2, <1>3, <1>4

LEMMA InitLines == Init => LinesInv
BY DEF Init, LinesInv, Writing, FlushFor, Flushing

-------------------------------------------------------------------------------
(* Where the lines are *)

LEMMA DataLine ==
  ASSUME NEW s, NEW w \in Lines, NEW k, Data(w, k) \in CellsIn(s)
  PROVE  w \in LinesIn(s)
BY DEF Data, CellsIn, LinesIn

\* With no more than a header in use, nothing is in the buffer.
LEMMA EmptySafe ==
  ASSUME CoreInv, UnitInv, BufferOK, m.total_len <= 1, pc # "down"
  PROVE  Safe = {}
  BY EmptyBuffer DEF UnitFrame, CellsIn, Safe

LEMMA ConcatCells ==
  ASSUME NEW s \in Seq(Cell), NEW t \in Seq(Cell)
  PROVE  CellsIn(s) \subseteq CellsIn(s \o t) /\ CellsIn(t) \subseteq CellsIn(s \o t)
<1> DEFINE all == s \o t
           n == Len(s)
           l == Len(t)
<1>1. n \in Nat /\ l \in Nat /\ DOMAIN s = 1..n /\ DOMAIN t = 1..l
  BY LenProperties
<1>2. /\ all \in Seq(Cell) /\ Len(all) = n + l
      /\ \A i \in 1..(n + l) : all[i] = IF i <= n THEN s[i] ELSE t[i - n]
  BY ConcatProperties
<1>3. DOMAIN all = 1..(n + l)
  BY <1>2, LenProperties
<1> HIDE DEF all, n, l
<1>4. ASSUME NEW i \in 1..n
      PROVE  i \in 1..(n + l) /\ all[i] = s[i]
  BY <1>1, <1>2
<1>5. ASSUME NEW i \in 1..l
      PROVE  n + i \in 1..(n + l) /\ all[n + i] = t[i]
  <2> DEFINE j == n + i
  <2>1. j \in 1..(n + l) /\ ~(j <= n) /\ j - n = i
    BY <1>1
  <2> HIDE DEF j
  <2>2. all[j] = t[i]
    BY <1>2, <2>1
  <2> QED
    BY <2>1, <2>2 DEF j
<1>6. CellsIn(s) \subseteq CellsIn(all)
  BY <1>1, <1>3, <1>4 DEF CellsIn
<1>7. CellsIn(t) \subseteq CellsIn(all)
  BY <1>1, <1>3, <1>5 DEF CellsIn
<1> QED
  BY <1>6, <1>7 DEF all

LEMMA UptoCells ==
  ASSUME CoreInv, NEW n \in Nat, n <= Len(area)
  PROVE  Upto(area, n) \in Seq(Cell) /\ \A i \in 1..n : area[i] \in CellsIn(Upto(area, n))
<1> DEFINE u == Upto(area, n)
<1>1. u \in Seq(Cell) /\ Len(u) = n /\ \A i \in 1..n : u[i] = area[i]
  BY Model, UptoIs
<1>2. DOMAIN u = 1..n
  BY <1>1, LenProperties
<1> HIDE DEF u
<1>3. \A i \in 1..n : area[i] \in CellsIn(u)
  BY <1>1, <1>2 DEF CellsIn
<1> QED
  BY <1>1, <1>3 DEF u

\* What is safe can be read in the buffer.
LEMMA SafeIsRead ==
  ASSUME CoreInv, UnitInv, BufferOK, pc # "down", NEW c \in Safe
  PROVE  c \in CellsIn(Upto(area, m.total_len) \o m.remain)
<1> DEFINE n == m.total_len
           u == Upto(area, n)
           r == m.remain
<1>1. /\ n \in Nat /\ n <= Len(area) /\ area \in Seq(Cell) /\ r \in Seq(Cell)
  BY Model DEF ModelType
<1>2. u \in Seq(Cell) /\ \A i \in 1..n : area[i] \in CellsIn(u)
  BY <1>1, UptoCells
<1> HIDE DEF u
<1>3. CellsIn(u) \subseteq CellsIn(u \o r) /\ CellsIn(r) \subseteq CellsIn(u \o r)
  BY <1>1, <1>2, ConcatCells
<1>4. FramesOf(area, n) \subseteq CellsIn(u)
  BY <1>2, InFrames
<1>5. UnitFrame \subseteq CellsIn(u)
  BY <1>2, UnitIs DEF UnitFrame, BufferOK
<1>6. Safe = FramesOf(area, n) \cup UnitFrame \cup CellsIn(r)
  BY DEF Safe
<1>7. c \in CellsIn(u \o r)
  BY <1>3, <1>4, <1>5, <1>6
<1> QED
  BY <1>7 DEF u

LEMMA FramedIsRead ==
  ASSUME CoreInv, NEW n \in Nat, n <= Len(area), NEW c \in FramesOf(area, n)
  PROVE  c \in CellsIn(Upto(area, n))
BY UptoCells, InFrames

\* Where the lengths are up to date, the unit being written is announced by its header.
LEMMA UnitFramed ==
  ASSUME CoreInv, UnitInv, BufferOK, pc \notin {"down", "total", "len"}
  PROVE  UnitFrame \subseteq FramesOf(area, m.total_len)
<1> DEFINE h == m.hp
           c == m.content_len
           n == m.total_len
<1>1. h \in Nat /\ h >= 1 /\ c \in Nat /\ n \in Nat
  BY CellLengths, Model
<1>2. CASE ~m.is_open_ok \/ Clearing
  <2>1. c = 0
    BY <1>2 DEF BufferOK, UnitOK
  <2> QED
    BY <1>1, <2>1 DEF UnitFrame
<1>3. CASE m.is_open_ok /\ ~Clearing
  <2>1. IsHeader(area[h]) /\ area[h][2] = c /\ h + c <= n
    BY <1>3, UnitIs DEF BufferOK, UnitOK
  <2> HIDE DEF h, c, n
  <2>2. ASSUME NEW k \in (h + 1)..(h + c)
        PROVE  area[k] \in FramesOf(area, n)
    BY <1>1, <2>1, InFrames DEF InFrame
  <2> QED
    BY <2>2 DEF UnitFrame, h, c, n
<1> QED
  BY <1>2, <1>3

\* Between two flushes, what is safe is complete in the buffer or waits for a block.
LEMMA SafeIs ==
  ASSUME CoreInv, UnitInv, BufferOK, pc \notin {"down", "total", "len"}
  PROVE  /\ Safe = FramesOf(area, m.total_len) \cup CellsIn(m.remain)
         /\ m.zlib # "ING" => Safe = FramesOf(area, m.total_len)
<1>1. m.zlib # "ING" => m.remain = <<>>
  BY DEF UnitInv
<1>2. CellsIn(<<>>) = {}
  BY DEF CellsIn
<1> QED
  BY <1>1, <1>2, UnitFramed DEF Safe

\* What was given up is stored if it counts.
LEMMA LostIsStored ==
  ASSUME TypeOK, NEW cause \in Causes, cause # "stray", NEW W, Lose(cause, W),
         NEW w \in W, w \notin Given'
  PROVE  w \in taken /\ w \notin Given /\ home[w] \in Names /\ InItsFile(w)
<1>1. W \ UNION {Stored(p) : p \in Names} \subseteq lost'[cause]
  BY LoseGrows DEF Lose
<1>2. lost'[cause] \subseteq Given'
  BY GivenIs
<1>3. PICK p \in Names : w \in Stored(p)
  BY <1>1, <1>2
<1> QED
  BY <1>3 DEF Stored, Whole, InItsFile

\* The cells of a line in a file are those of that file, or strays.
LEMMA FileData ==
  ASSUME CoreInv, FilesHome, FilesOK, NEW p \in Names, NEW w \in Lines, NEW k \in Nat,
         Data(w, k) \in InFile(p)
  PROVE  k \in 1..size[w] /\ (home[w] = p \/ w \in lost["stray"])
<1> DEFINE d == Data(w, k)
<1>1. d[1] = "data" /\ d[2] = w /\ d[3] = k
  BY DEF Data
<1>2. ASSUME NEW s \in Seq(Cell), Plain(s), d \in Framed(s)
      PROVE  \E i \in 1..Len(s) : d = s[i]
  BY <1>2, FramedIs, InFrames
<1>3. /\ Cells(p) \in Seq(Cell) /\ away[p] \in Seq(Cell) /\ Plain(Cells(p)) /\ Plain(away[p])
      /\ (Exists(p) => Cells(p) = files[p]) /\ (~Exists(p) => Cells(p) = <<>>)
  BY FileIs DEF FilesOK
<1>4. d \in Framed(Cells(p)) \/ d \in Framed(away[p])
  BY DEF InFile
<1> HIDE DEF d
<1>5. Of(d, p)
  <2>1. CASE d \in Framed(Cells(p))
    <3>1. PICK i \in 1..Len(Cells(p)) : d = Cells(p)[i]
      BY <1>2, <1>3, <2>1
    <3>2. Exists(p)
      BY <1>3, <3>1
    <3> QED
      BY <1>3, <3>1, <3>2 DEF FilesHome, AllOf
  <2>2. CASE d \in Framed(away[p])
    <3>1. PICK i \in 1..Len(away[p]) : d = away[p][i]
      BY <1>2, <1>3, <2>2
    <3> QED
      BY <3>1 DEF FilesHome, AllOf
  <2> QED
    BY <1>4, <2>1, <2>2
<1> QED
  BY <1>1, <1>5 DEF Of

\* A line that counts counted before, or has just begun.
LEMMA HeldIs ==
  ASSUME CoreInv, UnitInv, BufferOK, LinesInv, [Steps]_vars
  PROVE  /\ \A w \in Held : w \in Lines /\ home'[w] = home[w] /\ home[w] \in Names
                            /\ (~Compress => size'[w] = size[w])
         /\ \A w \in Held' : w \in Held \/ (clogan_write /\ size'[w] = 0)
<1>1. /\ last \in Nat /\ MaxWrites \in Nat /\ taken \subseteq Lines /\ taken \subseteq 1..last
      /\ last <= MaxWrites
  BY CLoganAssumption DEF CoreInv, TypeOK, LinesInv
<1>2. ASSUME NEW w \in Held
      PROVE  w \in Lines /\ w \in 1..last /\ home[w] \in Names
  BY <1>1, <1>2 DEF Held, Lines, LinesInv
<1>3. CASE clogan_write
  <2>1. /\ last' = last + 1 /\ UNCHANGED <<taken, size>> /\ last < MaxWrites
        /\ home' = [home EXCEPT ![last + 1] = m.path] /\ ~Writing
    BY <1>3, WriteBuffer DEF Writing, FlushFor, Flushing
  <2>2. \A w \in Held' : w \in taken \/ w = last + 1
    BY <2>1 DEF Held
  <2>3. last + 1 \in Lines /\ size[last + 1] = 0
    BY <1>1, <2>1 DEF LinesInv, Lines
  <2>4. \A w \in 1..last : home'[w] = home[w]
    BY <1>1, <2>1 DEF CoreInv, TypeOK, Lines
  <2> QED
    BY <1>2, <1>3, <2>1, <2>2, <2>3, <2>4 DEF Held
<1>4. CASE ~clogan_write
  BY <1>2, <1>4, WritingStays, TakenGrows DEF CoreInv, PhaseInv, Held
<1> QED
  BY <1>3, <1>4

\* A line that is in its file stays there.
LEMMA StaysInFile ==
  ASSUME CoreInv, UnitInv, FrameInv, LinesInv, [Steps]_vars, NEW w \in Held, InItsFile(w),
         w \in taken \/ ~Compress
  PROVE  InItsFile(w)'
<1>1. home'[w] = home[w] /\ home[w] \in Names /\ size'[w] = size[w]
  BY HeldIs, NextLines DEF FrameInv
<1>2. InFile(home[w]) \subseteq InFile(home[w])'
  <2> DEFINE p == home[w]
  <2>1. \A q \in Names : InFile(q) \subseteq InFile(q)'
    BY NextFrame
  <2> QED
    BY <1>1, <2>1
<1> QED
  BY <1>1, <1>2 DEF InItsFile

LEMMA StraysNext ==
  ASSUME CoreInv, UnitInv, FrameInv, PlacesInv, [Steps]_vars,
         \A w \in lost'["stray"] \ Given' : w \in lost["stray"] \/ (w \in taken /\ InItsFile(w))
  PROVE  StrayInv'
  BY NextLines, StaysInFile DEF FrameInv, PlacesInv, Held, StrayInv

\* A step after which the lines that count are still safe or stored
LEMMA PlacesNext ==
  ASSUME CoreInv, UnitInv, FrameInv, PlacesInv, [Steps]_vars, ~Compress,
         pc' = "clear" => pc = "clear" /\ ~clogan_write,
         \A w \in lost'["stray"] \ Given' : w \in lost["stray"] \/ (w \in taken /\ InItsFile(w)),
         \A w \in Held \ Given' : \A k \in 1..size[w] :
            Data(w, k) \in Safe => Data(w, k) \in InFile(home[w])' \cup Safe'
  PROVE  PlacesInv'
<1>1. LinesInv' /\ Given \subseteq Given' /\ StrayInv'
  BY NextLines, StraysNext DEF FrameInv, PlacesInv
<1>2. ASSUME NEW w \in Held \ Given'
      PROVE  /\ home'[w] = home[w] /\ home[w] \in Names /\ size'[w] = size[w]
             /\ \A k \in 1..size[w] : Data(w, k) \in InFile(home[w]) \cup Safe
  BY <1>1, HeldIs DEF FrameInv, PlacesInv, Places
<1>3. \A p \in Names : InFile(p) \subseteq InFile(p)'
  BY NextFrame
<1>4. ASSUME NEW w \in Held' \ Given', NEW k \in 1..size'[w]
      PROVE  Data(w, k) \in InFile(home[w])' \cup Safe'
  <2>1. w \in Held
    BY <1>4, HeldIs DEF FrameInv, PlacesInv
  <2> DEFINE p == home[w]
  <2>2. p \in Names /\ InFile(p) \subseteq InFile(p)'
    BY <1>2, <1>3, <2>1
  <2>3. k \in 1..size[w] /\ Data(w, k) \in InFile(p) \cup Safe
    BY <1>2, <2>1
  <2>4. home'[w] = p
    BY <1>2, <2>1
  <2> QED
    BY <2>1, <2>2, <2>3, <2>4
<1>5. Places'
  BY <1>4 DEF Places
<1>6. PutInv'
  BY <1>1, HeldIs, StaysInFile DEF PutInv, FrameInv, PlacesInv
<1> QED
  BY <1>1, <1>5, <1>6 DEF PlacesInv

LEMMA SameSafe ==
  ASSUME UNCHANGED area, pc # "down", pc' # "down", m'.total_len = m.total_len, m'.hp = m.hp,
         m'.content_len = m.content_len, m'.remain = m.remain
  PROVE  Safe' = Safe
BY DEF Safe, UnitFrame

\* Cells of the lines are neither moved nor given up.
LEMMA QuietPlaces ==
  ASSUME CoreInv, UnitInv, FrameInv, PlacesInv, [Steps]_vars, ~Compress, UNCHANGED lost,
         pc' = "clear" => pc = "clear" /\ ~clogan_write, Safe \subseteq Safe'
  PROVE  PlacesInv'
BY PlacesNext

LEMMA ControlPlaces ==
  ASSUME CoreInv, UnitInv, FrameInv, PlacesInv, [Steps]_vars,
         \/ \E p \in Names : clogan_open(p)
         \/ clogan_flush \/ Section \/ Flushed \/ Unmap
         \/ Flush /\ m.zlib # "ING"
         \/ Unit /\ pc' # "total"
         \/ Ended /\ pc' = "flush"
         \/ Dest \/ \E p \in Names : MoveAway(p)
  PROVE  PlacesInv'
<1>1. /\ UNCHANGED <<area, lost>> /\ pc # "down" /\ pc' # "down" /\ pc' # "clear" /\ ~Compress
      /\ m'.total_len = m.total_len /\ m'.hp = m.hp /\ m'.content_len = m.content_len
      /\ m'.remain = m.remain
  <2>1. CASE \/ \E p \in Names : clogan_open(p)
             \/ clogan_flush \/ Section \/ Flushed \/ Unmap
    BY <2>1 DEF clogan_open, clogan_flush, Section, Flushed, Unmap, hist, ctl, Compress, CoreInv, TypeOK
  <2>2. CASE \/ Flush /\ m.zlib # "ING"
             \/ Unit /\ pc' # "total"
             \/ Ended /\ pc' = "flush"
    BY <2>2 DEF Flush, Unit, Ended, WriteOut, UpdateLength, hist, Compress
  <2>3. CASE \E p \in Names : MoveAway(p)
    BY <2>3 DEF MoveAway, hist, ctl, Compress
  <2>4. CASE Dest
    <3>4. UNCHANGED <<area, lost>> /\ pc = "dest" /\ pc' = "put" /\ ~Compress
      BY <2>4 DEF Dest, hist, Compress
    <3>5. /\ m'.total_len = m.total_len /\ m'.hp = m.hp /\ m'.content_len = m.content_len
          /\ m'.remain = m.remain
      BY <2>4, DestKeeps
    <3> QED
      BY <3>4, <3>5, Zenon
  <2> QED
    BY <2>1, <2>2, <2>3, <2>4
<1> QED
  BY <1>1, SameSafe, QuietPlaces

\* A step after which nothing is in the buffer, and nothing was before.
LEMMA EmptyPlaces ==
  ASSUME CoreInv, UnitInv, FrameInv, PlacesInv, [Steps]_vars,
         (Ended /\ pc' # "flush") \/ Cleared \/ Recovered \/ OpenFile
  PROVE  PlacesInv'
<1>1. CASE Ended /\ pc' # "flush"
  BY <1>1, EndedBuffer, SafeIs, QuietPlaces DEF FrameInv, CellsIn, Safe, Compress
<1>2. CASE Cleared \/ Recovered \/ OpenFile
  <2>1. /\ m.total_len <= 1 /\ pc \notin {"down", "compress", "idle"} /\ UNCHANGED lost
        /\ pc' # "clear"
    <3>0. BufferOK /\ ret # "clear" /\ m.total_len \in Nat
      BY Model DEF FrameInv, CoreInv, TypeOK
    <3>1. CASE Cleared
      BY <3>0, <3>1, ClearedBuffer
    <3>2. CASE Recovered
      BY <3>0, <3>2, RecoveredBuffer
    <3>3. CASE OpenFile
      BY <3>0, <3>3, OpenFileBuffer
    <3> QED
      BY <1>2, <3>1, <3>2, <3>3
  <2>2. Safe = {}
    BY <2>1, EmptySafe DEF FrameInv
  <2> QED
    BY <2>1, <2>2, QuietPlaces DEF Compress
<1> QED
  BY <1>1, <1>2

LEMMA LengthsPlaces ==
  ASSUME CoreInv, UnitInv, FrameInv, PlacesInv, [Steps]_vars, Total \/ Length
  PROVE  PlacesInv'
<1> DEFINE n == m.total_len
<1>0. n \in Nat
  BY Model
<1>1. \A i \in (m.hp + 1)..(m.hp + m.content_len) : i \in 1..n
  BY UnitIs DEF FrameInv, BufferOK
<1>2. CASE Total
  <2>1. /\ pc = "total" /\ pc' = "len" /\ UNCHANGED lost /\ m' = m
        /\ n <= Len(area') /\ \A i \in 1..Len(area') : area'[i] = area[i]
        /\ Len(area') \in Nat
    BY <1>2, TotalBuffer, LenProperties DEF FrameInv
  <2>2. \A i \in 1..n : area'[i] = area[i]
    BY <1>0, <2>1
  <2>3. FramesOf(area', n) = FramesOf(area, n)
    <3> DEFINE s == area
               t == area'
    <3>1. \A i \in 1..n : s[i] = t[i]
      BY <2>2
    <3> HIDE DEF s, t, n
    <3>2. FramesOf(s, n) = FramesOf(t, n)
      BY <1>0, <3>1, SameCells
    <3> QED
      BY <3>2 DEF s, t
  <2>4. UnitFrame' = UnitFrame
    BY <1>1, <2>1, <2>2 DEF UnitFrame
  <2>5. Safe' = Safe
    BY <2>1, <2>3, <2>4 DEF Safe
  <2> QED
    BY <2>1, <2>5, QuietPlaces DEF Compress
<1>3. CASE Length
  <2>1. /\ pc = "len" /\ pc' \notin {"down", "total", "len", "clear"} /\ UNCHANGED lost /\ m' = m
        /\ FramesOf(area, n) \subseteq FramesOf(area', n)
        /\ Clearing => area' = area
        /\ ~Clearing => m.is_open_ok /\ \A i \in (m.hp + 1)..n : area'[i] = area[i]
    BY <1>3, LengthBuffer DEF FrameInv, CoreInv, TypeOK
  <2>2. \A i \in (m.hp + 1)..(m.hp + m.content_len) : area'[i] = area[i]
    <3>1. CASE Clearing
      BY <2>1, <3>1
    <3>2. CASE ~Clearing
      BY <1>0, <1>1, <2>1, <3>2, CellLengths
    <3> QED
      BY <3>1, <3>2
  <2>3. UnitFrame' = UnitFrame
    BY <2>1, <2>2 DEF UnitFrame
  <2>4. Safe \subseteq Safe'
    BY <2>1, <2>3 DEF Safe
  <2> QED
    BY <2>1, <2>4, QuietPlaces DEF Compress
<1> QED
  BY <1>2, <1>3

LEMMA ClearPlaces ==
  ASSUME CoreInv, UnitInv, FrameInv, PlacesInv, [Steps]_vars, Clear
  PROVE  PlacesInv'
<1>1. pc = "clear" /\ pc' = "total" /\ UNCHANGED lost
  BY ClearBuffer DEF FrameInv
<1>2. ~Compress /\ Given' = Given
  BY <1>1, SameGiven DEF Compress
<1>3. ASSUME NEW w \in Held \ Given'
      PROVE  \A k \in 1..size[w] : Data(w, k) \in InFile(home[w])'
  BY <1>1, <1>2, HeldIs, NextFrame DEF PlacesInv, PutInv, FrameInv, InItsFile
<1> QED
  BY <1>1, <1>2, <1>3, PlacesNext

\* What deflate emits is behind the total length, as part of the unit, or waits.
LEMMA GrownSafe ==
  ASSUME CoreInv, UnitInv, BufferOK, NEW S, Grown(S), NEW T, Moved(T), CellsIn(m.remain) \subseteq T,
         m.is_open_ok, ~Clearing, m.zlib # "END", pc # "down", pc' # "down",
         FramesOf(area', m'.total_len) = FramesOf(area, m.total_len)
  PROVE  Safe \cup T \subseteq Safe'
<1> DEFINE n == m.total_len
           h == m.hp
           c == m.content_len
           cc == m'.content_len
<1>1. /\ h \in Nat /\ c \in Nat /\ n \in Nat /\ n = h + c /\ cc >= c /\ cc \in Nat
      /\ m'.hp = h /\ n <= Len(area')
  <2>1. m.total_len = m.hp + m.content_len
    BY CellLengths DEF BufferOK, UnitOK
  <2>2. m'.hp = m.hp /\ m'.content_len >= m.content_len /\ m'.content_len \in Nat
    BY DEF Moved, Grown, ModelType
  <2>3. m.total_len <= Len(area') /\ Len(area') \in Nat
    BY Model, LenProperties DEF Grown
  <2> QED
    BY <2>1, <2>2, <2>3, CellLengths, Model
<1>2. \A i \in 1..n : area'[i] = area[i]
  BY <1>1, LenProperties DEF Grown
<1>3. \A x \in T : x \in CellsIn(m'.remain) \/ \E i \in 1..(cc - c) : area'[n + i] = x
  BY DEF Moved
<1> HIDE DEF n, h, c, cc
<1>4. UnitFrame' = {area'[k] : k \in (h + 1)..(h + cc)} /\ UnitFrame = {area[k] : k \in (h + 1)..(h + c)}
  BY <1>1 DEF UnitFrame, h, c, cc
<1>5. UnitFrame \subseteq UnitFrame'
  BY <1>1, <1>2, <1>4
<1>6. ASSUME NEW x \in T
      PROVE  x \in CellsIn(m'.remain) \cup UnitFrame'
  <2>1. CASE \E i \in 1..(cc - c) : area'[n + i] = x
    <3>1. PICK i \in 1..(cc - c) : area'[n + i] = x
      BY <2>1
    <3>2. n + i \in (h + 1)..(h + cc)
      BY <1>1
    <3> QED
      BY <1>4, <3>1, <3>2
  <2> QED
    BY <1>3, <2>1
<1>7. Safe = FramesOf(area, n) \cup UnitFrame \cup CellsIn(m.remain)
  BY DEF Safe, n
<1>8. Safe' = FramesOf(area', m'.total_len) \cup UnitFrame' \cup CellsIn(m'.remain)
  BY DEF Safe
<1>9. FramesOf(area', m'.total_len) = FramesOf(area, n)
  BY DEF n
<1> QED
  BY <1>5, <1>6, <1>7, <1>8, <1>9

LEMMA EndUnitPlaces ==
  ASSUME CoreInv, UnitInv, FrameInv, PlacesInv, [Steps]_vars,
         (Flush /\ m.zlib = "ING") \/ (Unit /\ pc' = "total")
  PROVE  PlacesInv'
  BY EndUnitBuffer, GrownSafe, QuietPlaces DEF FrameInv, BufferOK, StageOK, Unit, Flush, Compress

LEMMA CompressPlaces ==
  ASSUME CoreInv, UnitInv, FrameInv, PlacesInv, [Steps]_vars, Compress
  PROVE  PlacesInv'
<1>1. /\ m.is_open_ok /\ ~Clearing /\ pc = "compress" /\ pc' = "total" /\ last \in Lines
      /\ UNCHANGED <<files, away, home, last, taken, lost>> /\ Writing /\ Writing' /\ BufferOK
      /\ FramesOf(area', m'.total_len) = FramesOf(area, m.total_len)
  BY CompressBuffer DEF FrameInv
<1>2. PICK c \in CSizes :
         /\ size' = [size EXCEPT ![last] = @ + c]
         /\ Grown(CellsIn(m.remain) \cup CellsIn(Out(c)))
         /\ Moved(CellsIn(m.remain) \cup CellsIn(Out(c)))
  BY CompressBuffer DEF FrameInv
<1>3. m.zlib # "END"
  BY <1>1 DEF BufferOK, StageOK
<1>4. Safe \cup CellsIn(Out(c)) \subseteq Safe'
  <2> DEFINE T == CellsIn(m.remain) \cup CellsIn(Out(c))
  <2> HIDE DEF T
  <2>1. Grown(T) /\ Moved(T) /\ CellsIn(m.remain) \subseteq T /\ CellsIn(Out(c)) \subseteq T
    BY <1>2 DEF T
  <2>2. Safe \cup T \subseteq Safe'
    BY <1>1, <1>3, <2>1, GrownSafe
  <2> QED
    BY <2>1, <2>2
<1>5. Given' = Given /\ Held' = Held
  BY <1>1, SameGiven DEF Held
<1>6. \A p \in Names : InFile(p)' = InFile(p)
  BY <1>1 DEF InFile, Cells, Exists
<1>7. ASSUME NEW w \in Held \ Given, NEW k \in 1..size'[w]
      PROVE  Data(w, k) \in InFile(home[w])' \cup Safe'
  <2>1. w \in Lines /\ home[w] \in Names /\ size \in [Lines -> Nat] /\ c \in Nat
    BY HeldIs, CLoganAssumption DEF FrameInv, PlacesInv, CoreInv, TypeOK
  <2>2. CASE k \in 1..size[w]
    BY <1>1, <1>4, <1>6, <2>1, <2>2 DEF PlacesInv, Places
  <2>3. CASE k \notin 1..size[w]
    <3>1. w = last /\ k \in 1..(size[w] + c)
      BY <1>1, <1>2, <2>1, <2>3
    <3>2. k - size[w] \in 1..c /\ size[w] + (k - size[w]) = k
      BY <2>1, <2>3, <3>1
    <3>3. Data(last, size[last] + (k - size[w])) \in CellsIn(Out(c))
      BY <1>1, <3>2, OutIs
    <3> QED
      BY <1>4, <3>1, <3>2, <3>3
  <2> QED
    BY <2>2, <2>3
<1>8. Places'
  BY <1>1, <1>5, <1>7 DEF Places
<1>9. StrayInv' /\ LinesInv'
  BY <1>1, StraysNext, NextLines DEF FrameInv, PlacesInv
<1> QED
  BY <1>1, <1>8, <1>9 DEF PlacesInv, PutInv

LEMMA PutOutPlaces ==
  ASSUME CoreInv, DataInv, FrameInv, PlacesInv, [Steps]_vars, PutOut
  PROVE  PlacesInv'
<1>1. pc = "put" /\ pc' = "clear" /\ UNCHANGED <<area, hist>>
  BY DEF PutOut
<1>2. UnitInv /\ BufferHome /\ BufferOK /\ LinesInv
  BY DEF DataInv, HomeInv, FrameInv, PlacesInv
<1>3. m.zlib # "ING"
  BY <1>1, <1>2 DEF UnitInv, Flushing
<1>4. Safe = FramesOf(area, m.total_len)
  BY <1>1, <1>2, <1>3, SafeIs
<1>5. Given' = Given /\ Held' \subseteq Held /\ ~Compress /\ UNCHANGED <<size, home>>
  BY <1>1, <1>2, HeldIs, SameGiven DEF clogan_write, Compress, hist
<1>6. /\ m.path \in Names
      /\ \A p \in Names : InFile(p)' = IF p = m.path THEN InFile(p) \cup FramesOf(area, m.total_len)
                                                     ELSE InFile(p)
  BY <1>2, PutOutFiles
<1>7. ASSUME NEW w \in Held \ Given
      PROVE  \A k \in 1..size[w] : Data(w, k) \in InFile(home[w])'
  <2>1. home[w] \in Names /\ home'[w] = home[w] /\ w \in Lines
    BY <1>2, HeldIs
  <2>2. InFile(home[w]) \subseteq InFile(home[w])'
    BY <1>6, <2>1
  <2>3. CASE w \in lost["stray"]
    BY <2>2, <2>3 DEF PlacesInv, StrayInv, InItsFile
  <2>4. CASE w \notin lost["stray"]
    <3>1. SUFFICES ASSUME NEW k \in 1..size[w], Data(w, k) \in FramesOf(area, m.total_len)
                   PROVE  Data(w, k) \in InFile(home[w])'
      BY <1>4, <2>2 DEF PlacesInv, Places
    <3>2. PICK i \in 1..m.total_len : Data(w, k) = area[i]
      BY <3>1, InFrames
    <3>3. Of(Data(w, k), m.path)
      BY <1>2, <3>2 DEF BufferHome, AllOf
    <3>4. home[w] = m.path
      BY <2>4, <3>3 DEF Of, Data
    <3> QED
      BY <1>6, <2>1, <3>1, <3>4
  <2> QED
    BY <2>3, <2>4
<1>8. LinesInv' /\ StrayInv'
  <2>1. lost' = lost
    BY <1>1 DEF hist
  <2> QED
    BY <1>2, <2>1, StraysNext, NextLines
<1>9. \A w \in Held' \ Given' : InItsFile(w)'
  BY <1>5, <1>7 DEF InItsFile
<1>10. Places' /\ PutInv'
  BY <1>9 DEF Places, PutInv, InItsFile
<1> QED
  BY <1>8, <1>10 DEF PlacesInv

\* What the buffer held is given up with it, or stored.
LEMMA DroppedPlaces ==
  ASSUME CoreInv, UnitInv, FrameInv, PlacesInv, [Steps]_vars, pc # "down", ~Compress, pc' # "clear",
         Lose("dropped", LinesIn(Upto(area, m.total_len) \o m.remain))
  PROVE  PlacesInv'
<1> DEFINE W == LinesIn(Upto(area, m.total_len) \o m.remain)
<1>1. TypeOK /\ BufferOK /\ LinesInv /\ "dropped" \in Causes /\ "dropped" # "stray" /\ "stray" \in Causes
  BY DEF CoreInv, FrameInv, PlacesInv, Causes
<1>2. \A c \in Safe, w \in Lines, k \in Nat : c = Data(w, k) => w \in W
  BY <1>1, SafeIsRead, DataLine
<1> HIDE DEF W
<1>3. Lose("dropped", W)
  BY DEF W
<1>4. lost'["stray"] = lost["stray"]
  BY <1>1, <1>3, LoseGrows DEF Lose
<1>5. \A p \in Names : InFile(p) \subseteq InFile(p)'
  BY NextFrame
<1>6. ASSUME NEW w \in Held \ Given', NEW k \in 1..size[w], Data(w, k) \in Safe
      PROVE  Data(w, k) \in InFile(home[w])' \cup Safe'
  <2>1. w \in Lines /\ home'[w] = home[w] /\ home[w] \in Names /\ size \in [Lines -> Nat]
    BY <1>1, HeldIs DEF TypeOK
  <2>2. w \in W
    BY <1>2, <1>6, <2>1
  <2>3. InItsFile(w)
    BY <1>1, <1>3, <2>2, LostIsStored
  <2> QED
    BY <1>5, <2>1, <2>3 DEF InItsFile
<1> QED
  BY <1>4, <1>6, PlacesNext

LEMMA WritePlaces ==
  ASSUME CoreInv, UnitInv, FrameInv, PlacesInv, [Steps]_vars, clogan_write
  PROVE  PlacesInv'
  BY WriteBuffer, DroppedPlaces, SameSafe, QuietPlaces DEF FrameInv, Compress

\* The buffer is read, or what it held is given up, or it held nothing.
LEMMA InitCallPlaces ==
  ASSUME CoreInv, UnitInv, FrameInv, PlacesInv, [Steps]_vars, clogan_init, mapTotal < BufLen
  PROVE  PlacesInv'
<1>1. /\ BufferOK /\ pc = "down" /\ pc' \in {"flush", "idle"} /\ UNCHANGED <<area, mapTotal, mapName>>
      /\ TypeOK /\ mapTotal \in Nat /\ LinesInv
  BY InitCallBuffer DEF FrameInv, CoreInv, TypeOK, PlacesInv
<1>2. Safe = FramesOf(area, mapTotal) /\ ~Compress /\ pc' # "clear"
  BY <1>1 DEF Safe, Compress
<1>3. CASE pc' = "flush" /\ m'.total_len = mapTotal /\ UNCHANGED lost
  BY <1>1, <1>2, <1>3, QuietPlaces DEF Safe
<1>4. CASE LET W == LinesIn(Upto(area, mapTotal))
           IN  lost' = [lost EXCEPT !["stray"] = @ \cup W,
                                    !["unrecovered"] = @ \cup (W \ UNION {Stored(p) : p \in Names})]
  <2> DEFINE W == LinesIn(Upto(area, mapTotal))
             Z == W \ UNION {Stored(p) : p \in Names}
  <2>1. mapTotal <= Len(area)
    BY <1>1 DEF CoreInv, LenInv
  <2>2. \A c \in Safe, w \in Lines, k \in Nat : c = Data(w, k) => w \in W
    BY <1>1, <1>2, <2>1, FramedIsRead, DataLine
  <2> HIDE DEF W
  <2>3. lost' = [lost EXCEPT !["stray"] = @ \cup W, !["unrecovered"] = @ \cup Z]
    BY <1>4 DEF W
  <2>4. lost'["stray"] = lost["stray"] \cup W /\ Z \subseteq lost'["unrecovered"]
    <3>1. lost \in [Causes -> SUBSET Lines] /\ "stray" \in Causes /\ "unrecovered" \in Causes
      BY <1>1 DEF TypeOK, Causes
    <3> HIDE DEF Z
    <3> QED
      BY <2>3, <3>1
  <2>5. ASSUME NEW w \in W, w \notin Given'
        PROVE  w \in taken /\ InItsFile(w)
    <3>1. lost'["unrecovered"] \subseteq Given'
      BY GivenIs DEF Causes
    <3>2. PICK p \in Names : w \in Stored(p)
      BY <2>4, <2>5, <3>1
    <3> QED
      BY <3>2 DEF Stored, Whole, InItsFile
  <2>6. \A p \in Names : InFile(p) \subseteq InFile(p)'
    BY NextFrame
  <2>7. ASSUME NEW w \in Held \ Given', NEW k \in 1..size[w], Data(w, k) \in Safe
        PROVE  Data(w, k) \in InFile(home[w])' \cup Safe'
    BY <1>1, <2>2, <2>5, <2>6, <2>7, HeldIs DEF TypeOK, InItsFile
  <2> QED
    BY <1>2, <2>4, <2>5, <2>7, PlacesNext
<1>5. CASE (mapName = None \/ ~(mapTotal > 1) \/ ~(mapTotal < BufLen)) /\ UNCHANGED lost
  BY <1>1, <1>2, <1>5, NoFrame, QuietPlaces DEF UnitInv
<1> QED
  BY <1>1, <1>3, <1>4, <1>5, InitCallBuffer

\* What the mapped lengths cover stays readable, and what they do not is given up or stored.
LEMMA CrashPlaces ==
  ASSUME CoreInv, DataInv, FrameInv, PlacesInv, [Steps]_vars, Crash
  PROVE  PlacesInv'
<1>1. /\ BufferOK /\ UnitInv /\ LinesInv /\ TypeOK /\ FilesHome /\ FilesOK /\ StrayInv
  BY DEF DataInv, HomeInv, FrameInv, PlacesInv, CoreInv
<1>2. /\ pc # "down" /\ pc' = "down" /\ ~Writing' /\ UNCHANGED <<files, away, size, home, taken>>
  BY <1>1, CrashBuffer
<1>3. CASE Lose("dropped", LinesIn(Upto(area, m.total_len) \o m.remain)) /\ ~Compress
  BY <1>1, <1>2, <1>3, DroppedPlaces
<1>4. CASE /\ mode = "MMAP" /\ area' = Upto(area, mapTotal) /\ mapTotal' = mapTotal
           /\ FramesOf(area', mapTotal) = FramesOf(area, mapTotal)
           /\ FitsIn(area, mapTotal) /\ Clean(area, mapTotal) /\ mapTotal <= Len(area)
           /\ Lose("cut", {c[2] : c \in AtRisk})
  <2> DEFINE W == {c[2] : c \in AtRisk}
  <2>1. Mapped = FramesOf(area, mapTotal)
    BY <1>4, Model, UptoFrames DEF CoreInv, TypeOK, Mapped
  <2>2. Safe' = FramesOf(area, mapTotal)
    BY <1>2, <1>4 DEF Safe
  <2>3. "cut" \in Causes /\ "cut" # "stray" /\ "stray" \in Causes
    BY DEF Causes
  <2>4. lost'["stray"] = lost["stray"]
    BY <1>1, <1>4, <2>3, LoseGrows DEF Lose
  <2>5. \A p \in Names : InFile(p)' = InFile(p)
    BY <1>2 DEF InFile, Cells, Exists
  <2>6. Given \subseteq Given'
    BY <1>1, NextLines
  <2>7. ASSUME NEW w \in taken \ Given', NEW k \in 1..size[w]
        PROVE  Data(w, k) \in InFile(home[w]) \cup Safe'
    <3>0. w \in Lines /\ size[w] \in Nat /\ k \in Nat
      BY <1>1 DEF TypeOK
    <3>1. CASE Data(w, k) \in AtRisk
      BY <1>1, <1>4, <2>3, <3>1, LostIsStored DEF Data, InItsFile
    <3>2. CASE Data(w, k) \notin AtRisk
      <4>1. Data(w, k) \in Mapped \/ \E p \in Names : Data(w, k) \in InFile(p)
        BY <2>6, <3>2 DEF AtRisk
      <4>2. CASE Data(w, k) \in Mapped
        BY <2>1, <2>2, <4>2
      <4>3. CASE \E p \in Names : Data(w, k) \in InFile(p)
        <5>1. PICK p \in Names : Data(w, k) \in InFile(p)
          BY <4>3
        <5>2. home[w] = p \/ w \in lost["stray"]
          BY <1>1, <3>0, <5>1, FileData
        <5>3. CASE w \in lost["stray"]
          BY <1>1, <2>6, <5>3 DEF StrayInv, InItsFile
        <5> QED
          BY <5>1, <5>2, <5>3
      <4> QED
        BY <4>1, <4>2, <4>3
    <3> QED
      BY <3>1, <3>2
  <2>8. Places'
    BY <1>1, <1>2, <2>5, <2>7, NextLines DEF Held, Places
  <2>9. StrayInv' /\ LinesInv'
    BY <1>1, <2>4, StraysNext, NextLines
  <2> QED
    BY <1>2, <2>8, <2>9 DEF PlacesInv, PutInv
<1>5. ~Compress
  BY <1>2 DEF Compress, UpdateLength
<1> QED
  BY <1>1, <1>2, <1>3, <1>4, <1>5, CrashBuffer

LEMMA StutterPlaces ==
  ASSUME CoreInv, UnitInv, FrameInv, PlacesInv, UNCHANGED vars
  PROVE  PlacesInv'
  BY QuietPlaces DEF vars, ctl, hist, Compress, clogan_write, UpdateLength, mapped, Safe, UnitFrame

LEMMA NextPlaces ==
  ASSUME CoreInv, DataInv, FrameInv, PlacesInv, mapTotal < BufLen, [Steps]_vars
  PROVE  PlacesInv'
<1>1. UnitInv
  BY DEF DataInv
<1>2. CASE \/ \E p \in Names : clogan_open(p)
           \/ clogan_flush \/ Section \/ Flushed \/ Unmap
           \/ Flush /\ m.zlib # "ING"
           \/ Unit /\ pc' # "total"
           \/ Ended /\ pc' = "flush"
           \/ Dest \/ \E p \in Names : MoveAway(p)
  BY <1>1, <1>2, ControlPlaces
<1>3. CASE (Ended /\ pc' # "flush") \/ Cleared \/ Recovered \/ OpenFile
  BY <1>1, <1>3, EmptyPlaces
<1>4. CASE Total \/ Length \/ Clear \/ Compress
  BY <1>1, <1>4, LengthsPlaces, ClearPlaces, CompressPlaces
<1>5. CASE (Flush /\ m.zlib = "ING") \/ (Unit /\ pc' = "total")
  BY <1>1, <1>5, EndUnitPlaces
<1>6. CASE PutOut \/ clogan_write \/ clogan_init \/ Crash
  BY <1>1, <1>6, PutOutPlaces, WritePlaces, InitCallPlaces, CrashPlaces
<1>7. CASE UNCHANGED vars
  BY <1>1, <1>7, StutterPlaces
<1> QED
  BY <1>2, <1>3, <1>4, <1>5, <1>6, <1>7 DEF Steps, Call

LEMMA InitPlaces == Init => PlacesInv
  BY InitLines DEF Init, Writing, FlushFor, Flushing, Held, Causes, PlacesInv, Places, StrayInv, PutInv

-------------------------------------------------------------------------------
(* No line is lost *)

LEMMA NextKeep ==
  ASSUME NEW n \in Nat, Fits(n), KeepInv, RoomForSection, RoomInv(n), [Steps]_vars
  PROVE  KeepInv' /\ RoomForSection' /\ RoomInv(n)'
  BY NextCore, NextData, NextFrame, NextRoomInv, NextPlaces DEF KeepInv, DataInv, FrameInv, RoomInv

LEMMA InitKeep ==
  ASSUME NEW n \in Nat, Fits(n), Init
  PROVE  KeepInv /\ RoomForSection /\ RoomInv(n)
<1>1. BufLen >= 3
  BY CLoganAssumption DEF Fits
<1> QED
  BY <1>1, InitCore, InitData, InitFrame, InitPlaces, InitRoom DEF KeepInv

LEMMA KeepAlways == SectionFits /\ Spec => [](Untorn => KeepInv)
<1> SUFFICES ASSUME SectionFits PROVE Spec => [](Untorn => KeepInv)
  OBVIOUS
<1>1. PICK n \in Nat : Fits(n)
  BY DEF SectionFits
<1> DEFINE I == KeepInv /\ RoomForSection /\ RoomInv(n)
<1>2. Init => I
  BY <1>1, InitKeep
<1>3. CoreInv /\ TearsLeft /\ (Untorn => I) /\ [Next]_vars => (Untorn' => I')
  BY <1>1, NextKeep, UntornStep
<1>4. I => KeepInv
  OBVIOUS
<1> HIDE DEF I
<1> QED
  BY <1>2, <1>3, <1>4, TearsAlways, PTL DEF Spec

LEMMA KeptLines == KeepInv => taken \ Given \subseteq Buffered \cup UNION {Stored(p) : p \in Names}
<1> SUFFICES ASSUME KeepInv, NEW w \in taken \ Given
             PROVE  w \in Buffered \cup UNION {Stored(p) : p \in Names}
  OBVIOUS
<1>1. CoreInv /\ UnitInv /\ BufferOK /\ LinesInv /\ Places
  BY DEF KeepInv, DataInv, FrameInv, PlacesInv
<1> DEFINE p == home[w]
<1>2. p \in Names /\ w \in Held /\ w \in taken
  BY <1>1 DEF LinesInv, Held
<1>3. Safe \subseteq InBuffer
  <2>1. CASE pc = "down"
    <3>1. /\ area \in Seq(Cell) /\ mapTotal \in Nat /\ mapTotal <= Len(area)
          /\ FitsIn(area, mapTotal) /\ Clean(area, Len(area)) /\ Len(area) \in Nat
      BY <1>1, <2>1, Model DEF CoreInv, TypeOK, LenInv, BufferOK, AreaOK
    <3>2. Clean(area, mapTotal)
      BY <3>1, Prefixes
    <3> QED
      BY <2>1, <3>1, <3>2, UptoFrames DEF Safe, InBuffer
  <2>2. CASE pc # "down"
    BY <1>1, <2>2, SafeIsRead DEF InBuffer
  <2> QED
    BY <2>1, <2>2
<1>4. \A k \in 1..size[w] : Data(w, k) \in InFile(p) \cup InBuffer
  BY <1>1, <1>2, <1>3 DEF Places
<1>5. w \in Whole(InFile(p) \cup InBuffer) \ Given
  BY <1>2, <1>4 DEF Whole
<1>6. CASE w \in Stored(p)
  BY <1>2, <1>6
<1>7. CASE w \notin Stored(p)
  <2> DEFINE In(q) == {v \in Whole(InFile(q) \cup InBuffer) \ Given : home[v] = q} \ Stored(q)
  <2>1. w \in In(p)
    BY <1>5, <1>7
  <2> HIDE DEF In, p
  <2>2. w \in UNION {In(q) : q \in Names}
    BY <1>2, <2>1
  <2> QED
    BY <2>2 DEF Buffered, In
<1> QED
  BY <1>6, <1>7

\* As long as no crash falls within a step, a line whose clogan_write has returned is in
\* its file, in the buffer the process will write or in the one the next process reads, or
\* it was given up.  In which phase each
\* cell of it is, is Places; that a flush or the next process writes the cells as the same
\* frame is BufferOK; SectionFits keeps the mapped buffer from overflowing.
THEOREM LinesAreDurable == SectionFits /\ Spec => []Durable
<1>1. SectionFits /\ Spec => [](Untorn => KeepInv)
  BY KeepAlways
<1>2. (Untorn => KeepInv) => Durable
  BY KeptLines DEF Durable
<1> QED
  BY <1>1, <1>2, PTL

-------------------------------------------------------------------------------
(* What a crash costs *)

LEMMA CellsCount ==
  ASSUME NEW s \in Seq(Cell)
  PROVE  IsFiniteSet(CellsIn(s)) /\ Cardinality(CellsIn(s)) <= Len(s) /\ Cardinality(CellsIn(s)) \in Nat
<1> DEFINE n == Len(s)
           C == CellsIn(s)
           f == [i \in 1..n |-> s[i]]
<1>1. n \in Nat /\ C = {s[i] : i \in 1..n}
  BY LenProperties DEF CellsIn
<1>2. f \in Surjection(1..n, C)
  BY <1>1 DEF Surjection
<1> HIDE DEF n, C, f
<1>3. IsFiniteSet(1..n) /\ Cardinality(1..n) = n
  BY <1>1, FS_Interval
<1>4. IsFiniteSet(C) /\ Cardinality(C) <= Cardinality(1..n)
  BY <1>2, <1>3, FS_Surjection
<1>5. Cardinality(C) \in Nat
  BY <1>4, FS_CardinalityType
<1> QED
  BY <1>3, <1>4, <1>5 DEF n, C

LEMMA FewCells ==
  ASSUME NEW s \in Seq(Cell), Len(s) < B, NEW T, T \subseteq CellsIn(s)
  PROVE  IsFiniteSet(T) /\ Cardinality(T) < B
  BY CellsCount, FS_Subset, FS_CardinalityType, CLoganAssumption, LenProperties

\* Where the lengths are up to date, only what waits for a block is pending.
LEMMA PendingWaits ==
  ASSUME CoreInv, UnitInv, BufferOK, pc \notin {"down", "total", "len"}
  PROVE  IsFiniteSet(Pending) /\ Cardinality(Pending) < B
<1>1. Pending \subseteq CellsIn(m.remain)
  BY UnitFramed DEF Pending
<1>2. m.remain \in Seq(Cell) /\ Len(m.remain) < B
  BY Model DEF ModelType, BufferOK, UnitOK
<1> QED
  BY <1>1, <1>2, FewCells

LEMMA FewerPending ==
  ASSUME IsFiniteSet(Pending), Cardinality(Pending) < B, Pending' \subseteq Pending
  PROVE  IsFiniteSet(Pending') /\ Cardinality(Pending') < B
  BY FS_Subset, FS_CardinalityType, CLoganAssumption

\* Deflate puts cells of the line being written behind the unit, or ends it.
LEMMA GrownPending ==
  ASSUME CoreInv, UnitInv, BufferOK, NEW S, Grown(S), m.is_open_ok, ~Clearing, m.zlib # "END",
         m'.hp = m.hp, UNCHANGED taken, NEW d \in {0, 1},
         m'.content_len - m.content_len + d = m'.total_len - m.total_len,
         FramesOf(area', m'.total_len) = FramesOf(area, m.total_len),
         \A x \in S : x \in CellsIn(m.remain) \/ x[1] # "data" \/ x[2] \notin taken
  PROVE  Pending' \subseteq Pending
<1> DEFINE n == m.total_len
           nn == m'.total_len
           h == m.hp
           c == m.content_len
           cc == m'.content_len
<1>1. /\ h \in Nat /\ c \in Nat /\ n \in Nat /\ n = h + c /\ cc \in Nat /\ nn \in Nat
      /\ cc - c + d = nn - n /\ nn <= Len(area') /\ Len(area') \in Nat
  <2>1. m.total_len = m.hp + m.content_len
    BY CellLengths DEF BufferOK, UnitOK
  <2>2. m'.content_len \in Nat /\ m'.total_len \in Nat /\ m'.total_len <= Len(area') /\ Len(area') \in Nat
    BY LenProperties DEF Grown, ModelType
  <2> QED
    BY <2>1, <2>2, CellLengths, Model
<1>2. \A i \in 1..Len(area') : \/ i > n /\ area'[i] \in S
                               \/ (i <= n \/ i > nn) /\ area'[i] = area[i]
  BY DEF Grown
<1> HIDE DEF n, nn, h, c, cc
<1>3. UnitFrame' = {area'[k] : k \in (h + 1)..(h + cc)} /\ UnitFrame = {area[k] : k \in (h + 1)..(h + c)}
  BY DEF UnitFrame, h, c, cc
<1>4. UnitFrame' \subseteq UnitFrame \cup S
  <2>1. ASSUME NEW k \in (h + 1)..(h + cc)
        PROVE  area'[k] \in UnitFrame \cup S
    BY <1>1, <1>2, <1>3
  <2> QED
    BY <1>3, <2>1
<1>5. CellsIn(m'.remain) \subseteq S
  BY LenProperties DEF Grown, ModelType, CellsIn
<1> QED
  BY <1>4, <1>5 DEF Pending

LEMMA FewPending ==
  CoreInv /\ UnitInv /\ BufferOK /\ pc \notin {"down", "total", "len"}
     => IsFiniteSet(Pending) /\ Cardinality(Pending) < B
BY PendingWaits

LEMMA FewPendingNext ==
  (CoreInv /\ UnitInv /\ BufferOK /\ pc \notin {"down", "total", "len"}
     => IsFiniteSet(Pending) /\ Cardinality(Pending) < B)'
BY FewPending, PTL

LEMMA PendingWaitsNext ==
  ASSUME CoreInv', UnitInv', BufferOK', pc' \notin {"down", "total", "len"}
  PROVE  IsFiniteSet(Pending') /\ Cardinality(Pending') < B
BY FewPendingNext

LEMMA SameCovers ==
  ASSUME Covers, UNCHANGED <<area, mapTotal>>, m'.total_len = m.total_len,
         mode' = mode \/ mode' = "MEMORY"
  PROVE  Covers'
BY DEF Covers

LEMMA EmptyCovers ==
  ASSUME m'.total_len \in Nat, m'.total_len <= 1
  PROVE  Covers'
BY NoFrame DEF Covers

LEMMA NextCovers ==
  ASSUME CoreInv, UnitInv, FrameInv, Covers, pc # "down", pc' # "down", [Steps]_vars
  PROVE  Covers'
<1> DEFINE n == m.total_len
<1>0. BufferOK /\ n \in Nat /\ mapTotal \in Nat
  BY Model DEF FrameInv, CoreInv, TypeOK
<1>1. CASE \/ \E p \in Names : clogan_open(p)
           \/ clogan_flush \/ Section \/ Flushed \/ Unmap
           \/ Flush /\ m.zlib # "ING"
           \/ Unit /\ pc' # "total"
           \/ Ended /\ pc' = "flush"
           \/ PutOut \/ \E p \in Names : MoveAway(p)
  <2>1. m \in ModelType
    BY Model
  <2>2. UNCHANGED <<area, mapTotal, mode>> /\ m'.total_len = m.total_len
    <3>1. CASE \/ \E p \in Names : clogan_open(p)
               \/ clogan_flush \/ Section \/ Flushed \/ Unmap
      BY <3>1 DEF clogan_open, clogan_flush, Section, Flushed, Unmap, mapped
    <3>2. CASE \/ Flush /\ m.zlib # "ING"
               \/ Unit /\ pc' # "total"
               \/ Ended /\ pc' = "flush"
      BY <3>2 DEF Flush, Unit, Ended, UpdateLength, mapped
    <3>3. CASE PutOut \/ \E p \in Names : MoveAway(p)
      BY <2>1, <3>3 DEF PutOut, MoveAway, mapped, ModelType
    <3> QED
      BY <1>1, <3>1, <3>2, <3>3
  <2> QED
    BY <2>2, SameCovers
<1>2. CASE Dest
  BY <1>2, DestKeeps, SameCovers DEF Dest, mapped
<1>3. CASE (Flush /\ m.zlib = "ING") \/ (Unit /\ pc' = "total") \/ Compress
  BY <1>0, <1>3, EndUnitBuffer, CompressBuffer, NoFrame DEF Flush, Unit, Compress, BufferOK, SyncOK, Covers
<1>4. CASE Total
  BY <1>0, <1>4, TotalBuffer DEF Covers
<1>5. CASE Length
  BY <1>0, <1>5, LengthBuffer DEF BufferOK, SyncOK, Covers
<1>6. CASE Ended /\ pc' # "flush"
  <2>1. /\ UNCHANGED <<mapTotal, mode>> /\ pc = "ended"
        /\ FramesOf(area', m'.total_len) = FramesOf(area, n)
        /\ \A i \in 1..n : area'[i] = area[i]
    BY <1>0, <1>6, EndedBuffer
  <2>2. FramesOf(area', n) = FramesOf(area, n)
    <3> DEFINE s == area
               t == area'
    <3>1. \A i \in 1..n : s[i] = t[i]
      BY <2>1
    <3> HIDE DEF s, t, n
    <3>2. FramesOf(s, n) = FramesOf(t, n)
      BY <1>0, <3>1, SameCells
    <3> QED
      BY <3>2 DEF s, t
  <2>3. mode = "MMAP" => mapTotal = n
    BY <1>0, <2>1 DEF BufferOK, SyncOK
  <2> QED
    BY <2>1, <2>2, <2>3 DEF Covers
<1>7. CASE Clear \/ Cleared \/ Recovered \/ OpenFile
  BY <1>0, <1>7, ClearBuffer, ClearedBuffer, RecoveredBuffer, OpenFileBuffer, EmptyCovers
<1>8. CASE clogan_write
  BY <1>0, <1>8, WriteBuffer, SameCovers DEF Covers
<1>9. CASE clogan_init \/ Crash
  BY <1>9 DEF clogan_init, Crash
<1>10. CASE UNCHANGED vars
  BY <1>10, SameCovers DEF vars, mapped
<1> QED
  BY <1>1, <1>2, <1>3, <1>4, <1>5, <1>6, <1>7, <1>8, <1>9, <1>10 DEF Steps, Call

\* The next process reads what the mapped length covers.
LEMMA InitCallCovers ==
  ASSUME CoreInv, UnitInv, FrameInv, clogan_init
  PROVE  Covers'
  BY InitCallBuffer, NothingFits DEF FrameInv, CoreInv, TypeOK, Covers

\* While the lengths are stored, no cell gets pending.
LEMMA LengthsPending ==
  ASSUME CoreInv, UnitInv, BufferOK, LinesInv, [Steps]_vars, pc' \in {"total", "len"}, ~UNCHANGED vars
  PROVE  pc # "down" /\ Pending' \subseteq Pending
<1> DEFINE n == m.total_len
<1>0. n \in Nat /\ taken' \subseteq Lines /\ Pad[1] # "data" /\ End[1] # "data"
  <2>1. CoreInv'
    BY NextCore
  <2> QED
    BY <2>1, Model, CellsAre DEF CoreInv, TypeOK
<1>1. CASE (Flush /\ m.zlib = "ING") \/ (Unit /\ pc' = "total")
  <2> DEFINE S == CellsIn(m.remain) \cup {Pad, End}
  <2>1. /\ Grown(S) /\ Moved(CellsIn(m.remain)) /\ UNCHANGED taken
        /\ m.is_open_ok /\ ~Clearing /\ pc # "down"
        /\ FramesOf(area', m'.total_len) = FramesOf(area, n)
        /\ m'.content_len - m.content_len + 1 = m'.total_len - m.total_len
    BY <1>1, EndUnitBuffer
  <2>2. m.zlib # "END"
    BY <1>1, <2>1 DEF BufferOK, StageOK, Unit, Flush
  <2>3. \A x \in S : x \in CellsIn(m.remain) \/ x[1] # "data" \/ x[2] \notin taken
    BY <1>0
  <2>4. m'.hp = m.hp
    BY <2>1 DEF Moved
  <2> HIDE DEF S
  <2> QED
    BY <2>1, <2>2, <2>3, <2>4, GrownPending
<1>2. CASE Compress
  <2>1. /\ m.is_open_ok /\ ~Clearing /\ last \in Lines /\ Writing /\ UNCHANGED taken
        /\ pc = "compress" /\ FramesOf(area', m'.total_len) = FramesOf(area, n)
    BY <1>2, CompressBuffer
  <2>2. PICK c \in CSizes :
           /\ Grown(CellsIn(m.remain) \cup CellsIn(Out(c)))
           /\ Moved(CellsIn(m.remain) \cup CellsIn(Out(c)))
           /\ m'.content_len - m.content_len = m'.total_len - m.total_len
    BY <1>2, CompressBuffer
  <2> DEFINE S == CellsIn(m.remain) \cup CellsIn(Out(c))
  <2>3. last \notin taken
    BY <2>1 DEF LinesInv
  <2>4. \A x \in S : x \in CellsIn(m.remain) \/ x[1] # "data" \/ x[2] \notin taken
    BY <2>1, <2>3, OutIs
  <2>5. m'.hp = m.hp /\ Grown(S)
    BY <2>2 DEF Moved
  <2>6. m.zlib # "END"
    BY <2>1 DEF BufferOK, StageOK
  <2>7. m'.content_len - m.content_len + 0 = m'.total_len - m.total_len
    BY <2>2, <2>5, CellLengths DEF Grown, ModelType
  <2> HIDE DEF S
  <2> QED
    BY <2>1, <2>4, <2>5, <2>6, <2>7, GrownPending
<1>3. CASE Total
  <2>1. /\ pc = "total" /\ m' = m /\ UNCHANGED taken /\ n <= Len(area')
        /\ \A i \in 1..Len(area') : area'[i] = area[i] /\ Len(area') \in Nat
    BY <1>3, TotalBuffer, LenProperties
  <2>2. \A i \in 1..n : area'[i] = area[i]
    BY <1>0, <2>1, TotalBuffer, LenProperties, <1>3
  <2>3. FramesOf(area', n) = FramesOf(area, n)
    <3> DEFINE s == area
               t == area'
    <3>1. \A i \in 1..n : s[i] = t[i]
      BY <2>2
    <3> HIDE DEF s, t, n
    <3>2. FramesOf(s, n) = FramesOf(t, n)
      BY <1>0, <3>1, SameCells
    <3> QED
      BY <3>2 DEF s, t
  <2>4. UnitFrame' = UnitFrame
    BY <2>1, <2>2, UnitIs DEF UnitFrame, BufferOK
  <2> QED
    BY <2>1, <2>3, <2>4 DEF Pending
<1>4. CASE Clear
  BY <1>4, ClearBuffer DEF UnitFrame, CellsIn, Pending
<1>5. Total \/ Clear \/ Compress \/ (Flush /\ m.zlib = "ING") \/ (Unit /\ pc' = "total")
  <2>1. /\ after \in {"unit", "ended", "flushed", "cleared"}
        /\ ret \in {"idle", "section", "open", "close"}
    BY DEF CoreInv, TypeOK
  <2>2. ~(\E p \in Names : clogan_open(p) \/ MoveAway(p)) /\ ~clogan_flush /\ ~clogan_init /\ ~clogan_write
    BY DEF clogan_open, clogan_flush, clogan_init, clogan_write, MoveAway, ctl
  <2>3. ~Recovered /\ ~OpenFile /\ ~Crash /\ ~Unmap /\ ~Flushed /\ ~Cleared
    BY <2>1 DEF Recovered, OpenFile, Crash, Unmap, Flushed, Cleared, ctl
  <2>4. ~Dest /\ ~PutOut /\ ~Section /\ ~Ended /\ ~Length
    BY <2>1 DEF Dest, PutOut, Section, Ended, WriteOut, Length
  <2>5. (Flush => m.zlib = "ING") /\ (Unit => pc' = "total")
    BY DEF Flush, Unit, UpdateLength, WriteOut
  <2> QED
    BY <2>2, <2>3, <2>4, <2>5 DEF Steps, Call
<1> QED
  BY <1>1, <1>2, <1>3, <1>4, <1>5

LEMMA NextRisk ==
  ASSUME CoreInv, DataInv, FrameInv, LinesInv, RiskInv, [Steps]_vars
  PROVE  RiskInv'
<1>1. UnitInv /\ BufferOK
  BY DEF DataInv, FrameInv
<1>2. CoreInv' /\ UnitInv' /\ BufferOK'
  BY <1>1, NextCore, NextData, NextBuffer DEF DataInv
<1>3. CASE UNCHANGED vars
  BY <1>3 DEF vars, mapped, ctl, hist, Pending, UnitFrame, Covers, RiskInv
<1>4. CASE ~UNCHANGED vars /\ pc' # "down"
  <2>1. Covers'
    <3>1. CASE pc # "down"
      BY <1>1, <1>4, <3>1, NextCovers DEF RiskInv
    <3>2. CASE pc = "down"
      <4>1. clogan_init
        BY <1>4, <3>2 DEF Steps, Call, clogan_open, clogan_write, clogan_flush, Recovered, OpenFile,
              Compress, Total, Length, Unit, Ended, Section, Flush, Flushed, Dest, PutOut, Clear,
              Cleared, Crash, Unmap, MoveAway
      <4> QED
        BY <1>1, <4>1, InitCallCovers
    <3> QED
      BY <3>1, <3>2
  <2>2. CASE pc' \in {"total", "len"}
    BY <1>1, <1>4, <2>1, <2>2, LengthsPending, FewerPending DEF RiskInv
  <2>3. CASE pc' \notin {"total", "len"}
    BY <1>2, <1>4, <2>1, <2>3, PendingWaitsNext DEF RiskInv
  <2> QED
    BY <2>2, <2>3
<1> QED
  BY <1>3, <1>4 DEF RiskInv

LEMMA RiskIsSmall == KeepInv /\ RiskInv => LessThanABlockAtRisk
<1> SUFFICES ASSUME KeepInv, RiskInv, mode = "MMAP" PROVE Cardinality(AtRisk) < B
  BY DEF LessThanABlockAtRisk, CrashCostsLessThanABlock
<1>1. CoreInv /\ UnitInv /\ BufferOK /\ LinesInv /\ Places /\ B \in Nat /\ B >= 1
  BY CLoganAssumption DEF KeepInv, DataInv, FrameInv, PlacesInv
<1>2. Mapped = FramesOf(area, mapTotal)
  BY <1>1, Model, Prefixes, UptoFrames DEF CoreInv, TypeOK, LenInv, BufferOK, AreaOK, Mapped
<1>3. ASSUME NEW c \in AtRisk
      PROVE  c \in Safe /\ c \notin FramesOf(area, mapTotal) /\ c[1] = "data" /\ c[2] \in taken
  <2>1. PICK w \in taken \ Given : \E k \in 1..size[w] : c = Data(w, k)
    BY <1>3 DEF AtRisk
  <2>2. home[w] \in Names /\ w \in Held
    BY <1>1, <2>1 DEF LinesInv, Held
  <2>3. c \in InFile(home[w]) \cup Safe
    BY <1>1, <2>1, <2>2 DEF Places
  <2>4. c \notin InFile(home[w]) /\ c \notin FramesOf(area, mapTotal)
    BY <1>2, <1>3, <2>2 DEF AtRisk
  <2> QED
    BY <2>1, <2>3, <2>4 DEF Data
<1>4. CASE pc = "down"
  <2>1. AtRisk = {}
    BY <1>3, <1>4 DEF Safe
  <2> QED
    BY <1>1, <2>1, FS_EmptySet
<1>5. CASE pc # "down"
  BY <1>1, <1>3, <1>5, FS_Subset, FS_CardinalityType DEF Safe, Pending, RiskInv, Covers
<1> QED
  BY <1>4, <1>5

\* Of the lines clogan_write has returned for, a crash between two steps with the mapped
\* buffer in place can take no more than what waits for a whole block: less than one block.
THEOREM CrashTakesLessThanABlock == SectionFits /\ Spec => []LessThanABlockAtRisk
<1>1. SectionFits /\ Spec => [](Untorn => KeepInv)
  BY KeepAlways
<1>2. Init => RiskInv
  BY DEF Init, RiskInv
<1>3. CoreInv /\ TearsLeft /\ (Untorn => KeepInv /\ RiskInv) /\ [Next]_vars => (Untorn' => RiskInv')
  BY NextRisk, UntornStep DEF KeepInv, PlacesInv
<1>4. (Untorn => KeepInv /\ RiskInv) => LessThanABlockAtRisk
  BY RiskIsSmall DEF LessThanABlockAtRisk
<1> QED
  BY <1>1, <1>2, <1>3, <1>4, TearsAlways, PTL DEF Spec

-------------------------------------------------------------------------------
(* The library implements the store *)

\* The buffer is written by PutOut, and by no other step.
LEMMA DataStays ==
  ASSUME CoreInv, UnitInv, FrameInv, [Steps]_vars, ~PutOut, NEW p \in Names, NEW c, c[1] = "data"
  PROVE  c \in InFile(p)' <=> c \in InFile(p)
  BY DestFiles, OtherFiles DEF FrameInv

LEMMA DataSized ==
  ASSUME CoreInv, FilesHome, FilesOK, NEW p \in Names, NEW w \in Lines, NEW c \in Nat, c >= 1
  PROVE  Data(w, size[w] + c) \notin InFile(p)
<1> SUFFICES ASSUME Data(w, size[w] + c) \in InFile(p) PROVE FALSE
  OBVIOUS
<1>1. size[w] \in Nat
  BY DEF CoreInv, TypeOK
<1>2. size[w] + c \in Nat
  BY <1>1
<1>3. size[w] + c \in 1..size[w]
  BY <1>2, FileData
<1> QED
  BY <1>1, <1>3

LEMMA SameInFile ==
  ASSUME CoreInv, UnitInv, FrameInv, LinesInv, [Steps]_vars, ~PutOut, NEW w \in taken
  PROVE  InItsFile(w)' <=> InItsFile(w)
  BY NextLines, DataStays DEF FrameInv, Data, InItsFile

LEMMA NextLast ==
  ASSUME KeepInv, KeepInv', LastInv, [Steps]_vars
  PROVE  LastInv'
<1>1. /\ CoreInv /\ DataInv /\ UnitInv /\ FrameInv /\ BufferOK /\ PlacesInv /\ LinesInv /\ FilesHome /\ FilesOK
      /\ PlacesInv' /\ TypeOK
  BY DEF KeepInv, DataInv, HomeInv, FrameInv, PlacesInv, CoreInv
<1>2. ASSUME Writing', pc' # "compress"
      PROVE  AllIn' \/ Unwritten'
  <2>1. CASE Compress
    <3>1. /\ last \in Lines /\ UNCHANGED <<files, away, home, last, taken, lost>> /\ Writing
      BY <1>1, <2>1, CompressBuffer
    <3>2. PICK c \in CSizes : size' = [size EXCEPT ![last] = @ + c]
      BY <1>1, <2>1, CompressBuffer
    <3>3. size[last] \in Nat /\ c \in Nat /\ c >= 1 /\ size'[last] = size[last] + c /\ home[last] \in Names
      BY <1>1, <3>1, <3>2, CLoganAssumption DEF TypeOK, LinesInv, Lines
    <3>4. InFile(home[last])' = InFile(home[last])
      BY <3>1 DEF InFile, Cells, Exists
    <3>5. Data(last, size[last] + c) \notin InFile(home[last])
      BY <1>1, <3>1, <3>3, DataSized
    <3> QED
      BY <3>1, <3>3, <3>4, <3>5 DEF Unwritten
  <2>2. CASE PutOut
    BY <1>1, <2>2 DEF PutOut, PlacesInv, PutInv, AllIn
  <2>3. CASE ~Compress /\ ~PutOut
    <3>1. ~clogan_write
      BY <1>1, <1>2, WriteBuffer
    <3>2. /\ UNCHANGED <<last, home>> /\ Writing /\ UNCHANGED size
      BY <1>1, <1>2, <2>3, <3>1, WritingStays, TakenGrows
    <3>3. pc # "compress"
      BY <1>2, <2>3, Zenon DEF Steps, Call, clogan_init, clogan_open, clogan_write, clogan_flush, Recovered,
         OpenFile, Total, Length, Unit, Ended, Section, Flush, Flushed, Dest, PutOut, Clear, Cleared,
         Crash, Unmap, MoveAway, vars, ctl, Writing, FlushFor, Flushing
    <3>4. CASE AllIn
      BY <1>1, <2>3, <3>1, <3>4, HeldIs, NextLines, StaysInFile DEF AllIn
    <3>5. CASE Unwritten
      BY <1>1, <2>3, <3>2, <3>5, DataStays DEF CoreInv, PhaseInv, LinesInv, Lines, Data, Unwritten
    <3> QED
      BY <3>2, <3>3, <3>4, <3>5 DEF LastInv
  <2> QED
    BY <2>1, <2>2, <2>3
<1>3. pc' = "down" /\ mode' # "MMAP" => mapTotal' = 0
  <2>1. CASE Crash
    BY <1>1, <2>1, CrashBuffer
  <2>2. CASE UNCHANGED vars
    BY <2>2 DEF vars, mapped, ctl, LastInv
  <2>3. CASE ~Crash /\ ~UNCHANGED vars
    <3>1. after # "down" /\ ret # "down"
      BY <1>1 DEF TypeOK
    <3>2. pc' # "down"
      BY <2>3, <3>1 DEF Steps, Call, clogan_init, clogan_open, clogan_write, clogan_flush, Recovered,
         OpenFile, Compress, Total, Length, Unit, Ended, Section, Flush, Flushed, Dest, PutOut, Clear,
         Cleared, Unmap, MoveAway, ctl, UpdateLength, WriteOut
    <3> QED
      BY <3>2
  <2> QED
    BY <2>1, <2>2, <2>3
<1> QED
  BY <1>2, <1>3 DEF LastInv

\* Lines that count are stored where they are complete in their file, or buffered.
LEMMA Views ==
  KeepInv => /\ Buffered = {w \in taken \ Given : ~InItsFile(w)}
             /\ \A p \in Names : Stored(p) = {w \in taken \ Given : home[w] = p /\ InItsFile(w)}
<1> SUFFICES ASSUME KeepInv
             PROVE  /\ Buffered = {w \in taken \ Given : ~InItsFile(w)}
                    /\ \A p \in Names : Stored(p) = {w \in taken \ Given : home[w] = p /\ InItsFile(w)}
  OBVIOUS
<1>1. LinesInv /\ (taken \ Given \subseteq Buffered \cup UNION {Stored(p) : p \in Names})
  BY KeptLines DEF KeepInv, PlacesInv
<1>2. \A p \in Names : Stored(p) = {w \in taken \ Given : home[w] = p /\ InItsFile(w)}
  BY DEF Stored, Whole, InItsFile
<1>3. \A w \in taken : home[w] \in Names
  BY <1>1 DEF LinesInv
<1>4. UNION {Stored(p) : p \in Names} = {w \in taken \ Given : InItsFile(w)}
  BY <1>2, <1>3
<1>5. ASSUME NEW w \in Buffered
      PROVE  w \in taken \ Given /\ ~InItsFile(w)
  <2>1. PICK p \in Names : w \in {v \in Whole(InFile(p) \cup InBuffer) \ Given : home[v] = p} \ Stored(p)
    BY <1>5 DEF Buffered
  <2>2. w \in taken \ Given /\ home[w] = p
    BY <2>1 DEF Whole
  <2> QED
    BY <1>2, <2>1, <2>2
<1>6. taken \ Given \subseteq Buffered \cup {w \in taken \ Given : InItsFile(w)}
  BY <1>1, <1>4
<1> QED
  BY <1>2, <1>5, <1>6

LEMMA ViewsNext ==
  (KeepInv => /\ Buffered = {w \in taken \ Given : ~InItsFile(w)}
              /\ \A p \in Names : Stored(p) = {w \in taken \ Given : home[w] = p /\ InItsFile(w)})'
BY Views, PTL

\* What is stored stays, and nothing is buffered that was not.
StoredStays == /\ \A p \in Names : Stored(p)' = Stored(p)
               /\ Buffered' \subseteq Buffered

LEMMA LoseSteps ==
  ASSUME StoredStays, Target' = Target \/ (Buffered' = {} /\ Target' = None)
  PROVE  Store!Lose
BY DEF StoredStays, Target, Store!Lose

LEMMA OpenSteps ==
  ASSUME StoredStays, Buffered = {}, Target' \in Names
  PROVE  \E p \in Names : Store!Open(p)
BY DEF StoredStays, Target, Store!Open

LEMMA StoredStay ==
  ASSUME KeepInv, KeepInv', [Steps]_vars, ~PutOut, UNCHANGED taken,
         \A w \in taken \ Given : InItsFile(w) => w \notin Given'
  PROVE  StoredStays
<1>1. CoreInv /\ UnitInv /\ FrameInv /\ LinesInv /\ BufferOK
  BY DEF KeepInv, DataInv, FrameInv, PlacesInv
<1>2. Given \subseteq Given' /\ \A w \in taken : home'[w] = home[w] /\ (InItsFile(w)' <=> InItsFile(w))
  BY <1>1, NextLines, SameInFile
<1>3. /\ Buffered' = {w \in taken \ Given' : ~InItsFile(w)'}
      /\ \A p \in Names : Stored(p)' = {w \in taken \ Given' : home'[w] = p /\ InItsFile(w)'}
  BY ViewsNext
<1>4. /\ Buffered = {w \in taken \ Given : ~InItsFile(w)}
      /\ \A p \in Names : Stored(p) = {w \in taken \ Given : home[w] = p /\ InItsFile(w)}
  BY Views
<1> QED
  BY <1>2, <1>3, <1>4 DEF StoredStays

LEMMA StoredNotGiven ==
  ASSUME KeepInv, NEW cause \in Causes, NEW W, Lose(cause, W)
  PROVE  \A w \in taken \ Given : InItsFile(w) => w \notin Given'
<1> DEFINE Z == W \ UNION {Stored(p) : p \in Names}
<1>1. TypeOK /\ LinesInv
  BY DEF KeepInv, CoreInv, PlacesInv
<1>2. lost' = [lost EXCEPT ![cause] = @ \cup Z]
  BY DEF Lose
<1>3. ASSUME NEW w \in taken \ Given, InItsFile(w)
      PROVE  w \notin Z
  BY <1>1, <1>3, Views DEF LinesInv
<1> HIDE DEF Z
<1>4. \A c \in Causes : lost'[c] \subseteq lost[c] \cup Z
  BY <1>1, <1>2 DEF TypeOK
<1> QED
  BY <1>3, <1>4 DEF Given

\* A step that gives nothing up, and after which the buffer belongs to the same file
LEMMA QuietStore ==
  ASSUME KeepInv, KeepInv', [Steps]_vars, ~PutOut, UNCHANGED <<taken, lost>>, Target' = Target
  PROVE  Store!Lose
BY SameGiven, StoredStay, LoseSteps

LEMMA ControlStore ==
  ASSUME KeepInv, KeepInv', [Steps]_vars,
         \/ (\E p \in Names : clogan_open(p) \/ MoveAway(p)) \/ clogan_flush \/ Flushed \/ Unmap
         \/ Flush \/ Unit \/ Ended \/ Compress \/ Total \/ Length \/ Clear \/ Cleared \/ Recovered
         \/ Dest \/ (Section /\ UNCHANGED taken) \/ UNCHANGED vars
  PROVE  Store!Lose
<1>1. /\ CoreInv /\ UnitInv /\ BufferOK /\ m \in ModelType /\ area \in Seq(Cell) /\ m.total_len <= Len(area)
      /\ TypeOK
  BY Model DEF KeepInv, DataInv, FrameInv, CoreInv
<1>2. CASE \/ (\E p \in Names : clogan_open(p) \/ MoveAway(p)) \/ clogan_flush \/ Flushed \/ Unmap
           \/ Total \/ Length \/ (Section /\ UNCHANGED taken) \/ UNCHANGED vars
  <2>1. UNCHANGED <<taken, lost, mode, mapName, m>> /\ ~PutOut
    BY <1>1, <1>2 DEF clogan_open, MoveAway, clogan_flush, Flushed, Unmap, Total, Length, Section, vars,
       mapped, hist, ctl, PutOut, TypeOK
  <2>2. Target' = Target
    BY <2>1 DEF Target
  <2> QED
    BY <2>1, <2>2, QuietStore, Zenon
<1>3. CASE (Flush /\ m.zlib = "ING") \/ (Unit /\ pc' = "total") \/ Compress
  <2>1. UNCHANGED <<taken, lost, mode, mapName>> /\ m'.path = m.path /\ ~PutOut
    BY <1>1, <1>3, EndUnitBuffer, CompressBuffer DEF PutOut, Grown
  <2>2. Target' = Target
    BY <2>1 DEF Target
  <2> QED
    BY <2>1, <2>2, QuietStore, Zenon
<1>4. CASE (Flush /\ m.zlib # "ING") \/ (Unit /\ pc' # "total") \/ Ended \/ Clear \/ Cleared
  <2>1. UNCHANGED <<taken, lost, mode, mapName>> /\ m'.path = m.path /\ ~PutOut
    <3>1. CASE (Flush /\ m.zlib # "ING") \/ (Unit /\ pc' # "total")
      BY <3>1 DEF Flush, Unit, UpdateLength, mapped, hist, PutOut
    <3>2. CASE Ended \/ Clear \/ Cleared
      BY <1>1, <3>2 DEF Ended, Clear, Cleared, mapped, hist, PutOut, ModelType
    <3> QED
      BY <1>4, <3>1, <3>2
  <2>2. Target' = Target
    BY <2>1 DEF Target
  <2> QED
    BY <2>1, <2>2, QuietStore, Zenon
<1>5. CASE Recovered
  BY <1>1, <1>5, QuietStore DEF Recovered, mapped, hist, PutOut, BufferOK, StageOK, Target
<1>6. CASE Dest
  <2>1. UNCHANGED <<taken, lost, mode, mapName>>
    <3>1. UNCHANGED <<area, mapped, hist>>
      BY <1>1, <1>6, DestKeeps
    <3> QED
      BY <3>1, Zenon DEF mapped, hist
  <2>4. ~PutOut
    BY <1>6 DEF Dest, PutOut
  <2>2. m'.path = m.path
    BY <1>1, <1>6, DestKeeps
  <2>3. Target' = Target
    BY <2>1, <2>2 DEF Target
  <2> QED
    BY <2>1, <2>3, <2>4, QuietStore, Zenon
<1> QED
  BY <1>2, <1>3, <1>4, <1>5, <1>6

\* With no more than a header in use, nothing is buffered.
LEMMA NothingBuffered ==
  ASSUME KeepInv, Safe = {}
  PROVE  Buffered = {}
BY Views DEF KeepInv, PlacesInv, Places, Held, InItsFile

LEMMA OpenFileStore ==
  ASSUME KeepInv, KeepInv', [Steps]_vars, OpenFile
  PROVE  Store!Works
<1>1. CoreInv /\ UnitInv /\ BufferOK
  BY DEF KeepInv, DataInv, FrameInv
<1>2. /\ pc = "open" /\ arg \in Names /\ m.total_len <= 1 /\ UNCHANGED <<mode, taken, lost>>
      /\ \/ m'.path = arg /\ mapName' = (IF mode = "MMAP" THEN arg ELSE mapName)
         \/ mapName' = mapName /\ m'.path = arg
  BY <1>1, OpenFileBuffer
<1>3. ~PutOut
  BY <1>2 DEF PutOut
<1>4. StoredStays
  BY <1>2, <1>3, SameGiven, StoredStay
<1>5. Buffered = {}
  BY <1>1, <1>2, EmptySafe, NothingBuffered
<1>6. Target' = Target \/ Target' = arg
  BY <1>2 DEF Target
<1> QED
  BY <1>2, <1>4, <1>5, <1>6, LoseSteps, OpenSteps DEF Store!Works

LEMMA WriteStore ==
  ASSUME KeepInv, KeepInv', [Steps]_vars, clogan_write
  PROVE  Store!Lose
<1>1. CoreInv /\ UnitInv /\ BufferOK
  BY DEF KeepInv, DataInv, FrameInv
<1>2. /\ pc = "idle" /\ UNCHANGED <<taken, mapName>> /\ m'.path = m.path /\ m.is_open_ok
      /\ \/ mode' = "MEMORY" /\ mode = "MMAP" /\ Lose("dropped", LinesIn(Upto(area, m.total_len) \o m.remain))
         \/ UNCHANGED <<mode, lost>>
  BY <1>1, WriteBuffer
<1>3. ~PutOut /\ "dropped" \in Causes
  BY <1>2 DEF PutOut, Causes
<1>4. StoredStays
  BY <1>2, <1>3, SameGiven, StoredStay, StoredNotGiven
<1>5. mode = "MMAP" => mapName = m.path
  BY <1>1, <1>2 DEF CoreInv, LinkInv, Closed
<1>6. Target' = Target
  BY <1>2, <1>5 DEF Target
<1> QED
  BY <1>4, <1>6, LoseSteps

LEMMA CrashStore ==
  ASSUME KeepInv, KeepInv', [Steps]_vars, Crash
  PROVE  Store!Lose
<1>1. CoreInv /\ UnitInv /\ BufferOK /\ TypeOK
  BY DEF KeepInv, DataInv, FrameInv, CoreInv
<1>2. /\ pc # "down" /\ pc' = "down" /\ m' = Fresh /\ UNCHANGED <<taken, mapName, mode>>
      /\ \/ mode = "MMAP" /\ Lose("cut", {c[2] : c \in AtRisk})
         \/ Lose("dropped", LinesIn(Upto(area, m.total_len) \o m.remain)) /\ area' = <<>> /\ mapTotal' = 0
  BY <1>1, CrashBuffer
<1>3. ~PutOut /\ "dropped" \in Causes /\ "cut" \in Causes
  BY <1>2 DEF PutOut, Causes
<1>4. StoredStays
  BY <1>2, <1>3, StoredStay, StoredNotGiven
<1>5. CASE mode = "MMAP"
  <2>1. Target' = Target
    BY <1>2, <1>5 DEF Target
  <2> QED
    BY <1>4, <2>1, LoseSteps
<1>6. CASE mode # "MMAP"
  <2>1. Target' = None
    BY <1>2, <1>6, FreshIs DEF Target
  <2>2. Safe' = {}
    BY <1>2, <1>6, NothingFits DEF Safe
  <2>3. Buffered' = {}
    BY <2>2, ViewsNext DEF KeepInv, PlacesInv, Places, Held, InItsFile
  <2> QED
    BY <1>4, <2>1, <2>3, LoseSteps
<1> QED
  BY <1>5, <1>6

LEMMA InitCallStore ==
  ASSUME KeepInv, KeepInv', LastInv, mapTotal < BufLen, [Steps]_vars, clogan_init
  PROVE  Store!Works
<1>1. CoreInv /\ UnitInv /\ BufferOK /\ TypeOK /\ LinesInv
  BY DEF KeepInv, DataInv, FrameInv, CoreInv, PlacesInv
<1>2. /\ pc = "down" /\ mode' = "MMAP" /\ UNCHANGED <<taken, mapName, mapTotal>> /\ m.path = None
      /\ mapName \in Names \cup {None} /\ mapTotal \in Nat
  BY <1>1, InitCallBuffer, FreshIs DEF CoreInv, PhaseInv, TypeOK
<1>3. \A w \in taken \ Given : InItsFile(w) => w \notin Given'
  <2>1. CASE UNCHANGED lost
    BY <2>1, SameGiven
  <2>2. CASE LET W == LinesIn(Upto(area, mapTotal))
             IN  lost' = [lost EXCEPT !["stray"] = @ \cup W,
                                      !["unrecovered"] = @ \cup (W \ UNION {Stored(p) : p \in Names})]
    <3> DEFINE W == LinesIn(Upto(area, mapTotal))
               Z == W \ UNION {Stored(p) : p \in Names}
    <3>1. ASSUME NEW w \in taken \ Given, InItsFile(w)
          PROVE  w \notin Z
      BY <1>1, <3>1, Views DEF LinesInv
    <3> HIDE DEF W
    <3>2. lost' = [lost EXCEPT !["stray"] = @ \cup W, !["unrecovered"] = @ \cup Z]
      BY <2>2 DEF W
    <3> HIDE DEF Z
    <3>3. lost \in [Causes -> SUBSET Lines]
      BY <1>1 DEF TypeOK
    <3>4. \A c \in Causes : c # "stray" => lost'[c] \subseteq lost[c] \cup Z
      BY <3>2, <3>3
    <3> QED
      BY <3>1, <3>4 DEF Given
  <2> QED
    BY <1>1, <2>1, <2>2, InitCallBuffer
<1>4. StoredStays
  BY <1>2, <1>3, StoredStay DEF PutOut
<1>5. CASE mode = "MMAP"
  BY <1>2, <1>4, <1>5, LoseSteps DEF Target, Store!Works
<1>6. CASE mode # "MMAP"
  BY <1>2, <1>4, <1>6, NothingFits, NothingBuffered, LoseSteps, OpenSteps DEF LastInv, Safe, Target,
     Store!Works
<1> QED
  BY <1>5, <1>6

\* The buffer is written as a whole.
LEMMA PutOutStore ==
  ASSUME KeepInv, KeepInv', [Steps]_vars, PutOut
  PROVE  Store!Flush
<1>1. /\ CoreInv /\ DataInv /\ UnitInv /\ FrameInv /\ BufferOK /\ LinesInv /\ Places /\ StrayInv /\ BufferHome
      /\ PutInv' /\ TypeOK /\ m \in ModelType
  BY Model DEF KeepInv, DataInv, HomeInv, FrameInv, PlacesInv, CoreInv
<1>2. /\ pc = "put" /\ pc' = "clear" /\ UNCHANGED <<mode, mapName, lost, taken, size, home>>
      /\ m'.path = m.path
  BY <1>1 DEF PutOut, mapped, hist, ModelType
<1>3. Given' = Given
  BY <1>2, SameGiven
<1>4. m.path \in Names /\ (mode = "MMAP" => mapName = m.path)
  BY <1>1, <1>2 DEF CoreInv, LinkInv, Closed
<1>5. Target = m.path /\ Target' = m.path /\ m.path # None
  BY <1>2, <1>4, CLoganAssumption DEF Target
<1>6. Safe = FramesOf(area, m.total_len)
  BY <1>1, <1>2, SafeIs DEF UnitInv, Flushing
<1>7. ASSUME NEW w \in taken \ Given
      PROVE  InItsFile(w)' /\ (~InItsFile(w) => home[w] = m.path)
  <2>1. w \in Held /\ w \in Held' /\ home[w] \in Names
    BY <1>1, <1>2 DEF Held, LinesInv
  <2>2. InItsFile(w)'
    BY <1>2, <1>3, <2>1, <1>1 DEF PutInv
  <2>3. ASSUME ~InItsFile(w)
        PROVE  home[w] = m.path
    <3>1. PICK k \in 1..size[w] : Data(w, k) \in FramesOf(area, m.total_len)
      BY <1>1, <1>6, <2>1, <2>3 DEF Places, InItsFile
    <3>2. PICK i \in 1..m.total_len : Data(w, k) = area[i]
      BY <3>1, InFrames
    <3>3. Of(Data(w, k), m.path)
      BY <1>1, <3>2 DEF BufferHome, AllOf
    <3>4. w \notin lost["stray"]
      BY <1>1, <2>3 DEF StrayInv
    <3> QED
      BY <3>3, <3>4 DEF Of, Data
  <2> QED
    BY <2>2, <2>3
<1>8. ASSUME NEW w \in taken \ Given, InItsFile(w)
      PROVE  home[w] \in Names
  BY <1>1 DEF LinesInv
<1>9. /\ Buffered' = {}
      /\ \A p \in Names : Stored(p)' = {w \in taken \ Given : home[w] = p}
  BY <1>2, <1>3, <1>7, ViewsNext
<1>10. \A p \in Names : Stored(p)' = IF p = m.path THEN Stored(p) \cup Buffered ELSE Stored(p)
  BY <1>7, <1>9, Views
<1>11. [p \in Names |-> Stored(p)]' = [[p \in Names |-> Stored(p)] EXCEPT ![Target] = @ \cup Buffered]
  BY <1>4, <1>5, <1>10
<1> QED
  BY <1>5, <1>9, <1>11 DEF Store!Flush, Target

\* A line whose clogan_write returns is in the buffer, or the buffer was written with it.
LEMMA SectionStore ==
  ASSUME KeepInv, KeepInv', LastInv, [Steps]_vars, Section, ~UNCHANGED taken
  PROVE  Store!Works
<1>1. /\ CoreInv /\ UnitInv /\ FrameInv /\ LinesInv /\ BufferHome /\ BufferOK /\ TypeOK
  BY DEF KeepInv, DataInv, HomeInv, FrameInv, PlacesInv, CoreInv
<1>2. /\ pc = "section" /\ Writing /\ taken' = taken \cup {last} /\ last \notin taken
      /\ UNCHANGED <<mode, mapName, m, lost, size, home, files, away>> /\ last \in Lines
  BY <1>1, TakenGrows DEF Section, mapped, disk, LinesInv, CoreInv, PhaseInv
<1>3. Given' = Given /\ Target' = Target
  BY <1>2, SameGiven DEF Target
<1>4. /\ home[last] = m.path /\ m.path \in Names /\ Target = m.path /\ Target # None
  BY <1>1, <1>2, CLoganAssumption DEF BufferHome, CoreInv, LinkInv, Closed, Target
<1>5. \A w : InItsFile(w)' <=> InItsFile(w)
  BY <1>2 DEF InItsFile, InFile, Cells, Exists
<1>6. /\ Buffered = {w \in taken \ Given : ~InItsFile(w)}
      /\ \A p \in Names : Stored(p) = {w \in taken \ Given : home[w] = p /\ InItsFile(w)}
      /\ Buffered' = {w \in (taken \cup {last}) \ Given : ~InItsFile(w)}
      /\ \A p \in Names : Stored(p)' = {w \in (taken \cup {last}) \ Given : home[w] = p /\ InItsFile(w)}
  BY <1>2, <1>3, <1>5, Views, ViewsNext
<1>7. last \notin Buffered \cup UNION {Stored(p) : p \in Names}
  BY <1>2, <1>6
<1>8. CASE last \in Given
  <2>1. StoredStays
    BY <1>6, <1>8 DEF StoredStays
  <2> QED
    BY <1>3, <2>1, LoseSteps DEF Store!Works
<1>9. CASE last \notin Given /\ ~InItsFile(last)
  <2>1. Buffered' = Buffered \cup {last} /\ \A p \in Names : Stored(p)' = Stored(p)
    BY <1>6, <1>9
  <2>2. Store!Take(last)
    BY <1>3, <1>4, <1>7, <2>1 DEF Store!Take, Store!Known, Target
  <2> QED
    BY <1>2, <2>2 DEF Store!Works
<1>10. CASE last \notin Given /\ InItsFile(last)
  <2>1. AllIn
    BY <1>1, <1>10, <1>2 DEF TypeOK, Unwritten, InItsFile, LastInv
  <2>2. Buffered = {} /\ Buffered' = {}
    BY <1>6, <1>10, <2>1 DEF AllIn, Held
  <2>3. \A p \in Names : Stored(p)' = IF p = m.path THEN Stored(p) \cup {last} ELSE Stored(p)
    BY <1>4, <1>6, <1>10
  <2>4. [p \in Names |-> Stored(p)]' = [[p \in Names |-> Stored(p)] EXCEPT ![Target] = @ \cup {last}]
    BY <1>4, <2>3
  <2>5. Store!Take(last)
    BY <1>3, <1>4, <1>7, <2>2, <2>4 DEF Store!Take, Store!Known, Target
  <2> QED
    BY <1>2, <2>5 DEF Store!Works
<1> QED
  BY <1>8, <1>9, <1>10

LEMMA NextStore ==
  ASSUME KeepInv, KeepInv', LastInv, mapTotal < BufLen, [Steps]_vars
  PROVE  Store!Works
  BY ControlStore, OpenFileStore, WriteStore, CrashStore, InitCallStore, PutOutStore, SectionStore
     DEF Store!Works, Steps, Call

LEMMA InitStore ==
  ASSUME KeepInv, Init
  PROVE  Store!Init /\ LastInv
  BY Views DEF Init, Writing, FlushFor, Flushing, Store!Init, LastInv, Untorn

\* The library implements LoganStore: what is written goes to the file whose name the
\* buffer has, as a whole, another file is opened with an empty buffer, and only a failed
\* recovery, a buffer that is gone or the end of the process gives lines up.  It breaks
\* when the process ends within a step, and never otherwise.
THEOREM LibraryIsAStore == SectionFits /\ Spec => ImplementsStore
<1> SUFFICES ASSUME SectionFits PROVE Spec => ImplementsStore
  OBVIOUS
<1>1. PICK n \in Nat : Fits(n)
  BY DEF SectionFits
<1> DEFINE I == KeepInv /\ RoomForSection /\ RoomInv(n)
<1>2. Init => I /\ LastInv /\ Store!Init
  BY <1>1, InitKeep, InitStore
<1>3. CoreInv /\ TearsLeft /\ (Untorn => I) /\ [Next]_vars => (Untorn' => I')
  BY <1>1, NextKeep, UntornStep
<1>4. /\ CoreInv /\ TearsLeft /\ (Untorn => I /\ LastInv) /\ (Untorn' => I') /\ [Next]_vars
      => (Untorn' => LastInv') /\ Store!Next
  <2> SUFFICES ASSUME CoreInv, TearsLeft, Untorn => I /\ LastInv, Untorn' => I', [Next]_vars
               PROVE  (Untorn' => LastInv') /\ Store!Next
    OBVIOUS
  <2>1. CASE Untorn'
    BY <2>1, UntornStep, NextLast, NextStore DEF RoomInv, Store!Next
  <2>2. CASE ~Untorn'
    BY <2>2 DEF Store!Next, Store!Break
  <2> QED
    BY <2>1, <2>2
<1> HIDE DEF I
<1> QED
  BY <1>2, <1>3, <1>4, TearsAlways, PTL DEF Spec, ImplementsStore, Store!Spec

-------------------------------------------------------------------------------
(* Units that do not end where the next begins *)

LEMMA TailIs == ~IsHeader(End) /\ IsHeader(Hdr(0)) /\ Hdr(0)[2] = 0
BY DEF End, Hdr, IsHeader

LEMMA TornIs ==
  ASSUME NEW s \in Seq(Cell)
  PROVE  Torn(s) = TornTo(s, Len(s))
<1>1. DOMAIN s = 1..Len(s)
  BY LenProperties
<1> QED
  BY <1>1 DEF Torn, TornTo, Behind, BehindTo, Follows, IsHeader

LEMMA TornCount ==
  ASSUME NEW s, NEW n \in Nat
  PROVE  /\ TornTo(s, n) \subseteq 1..n /\ TornTo(s, n) \subseteq Nat \ {0}
         /\ IsFiniteSet(TornTo(s, n)) /\ Cardinality(TornTo(s, n)) \in Nat
<1>1. TornTo(s, n) \subseteq 1..n
  BY DEF TornTo
<1>2. IsFiniteSet(1..n)
  BY FS_Interval
<1>3. IsFiniteSet(TornTo(s, n))
  BY <1>1, <1>2, FS_Subset
<1> QED
  BY <1>1, <1>3, FS_CardinalityType

\* What Behind comes to for a header whose frame is there
LEMMA BehindIs ==
  ASSUME NEW s, NEW n \in Nat, NEW j \in 1..n, s[j][2] \in Nat
  PROVE  LET e == j + s[j][2] + 1
         IN  /\ e \in Nat /\ e > j /\ e >= 2
             /\ e <= n /\ s[e] = End => BehindTo(s, n, j) = e + 1
             /\ ~(e <= n /\ s[e] = End) => BehindTo(s, n, j) = e
BY DEF BehindTo

LEMMA SameTorn ==
  ASSUME NEW s, NEW t, NEW n \in Nat, \A i \in 1..n : s[i] = t[i],
         \A i \in 1..n : s[i][2] \in Nat
  PROVE  TornTo(s, n) = TornTo(t, n)
<1> SUFFICES ASSUME NEW j \in 1..n PROVE Follows(s, n, j) <=> Follows(t, n, j)
  BY DEF TornTo
<1> DEFINE e == j + s[j][2] + 1
<1>1. s[j] = t[j] /\ s[j][2] \in Nat /\ e \in Nat /\ e >= 2
  OBVIOUS
<1>2. e <= n => s[e] = t[e]
  BY <1>1
<1>3. e + 1 <= n => s[e + 1] = t[e + 1]
  BY <1>1
<1> HIDE DEF e
<1>4. /\ BehindTo(s, n, j) = IF e <= n /\ s[e] = End THEN e + 1 ELSE e
      /\ BehindTo(t, n, j) = IF e <= n /\ t[e] = End THEN e + 1 ELSE e
  BY <1>1 DEF BehindTo, e
<1>5. BehindTo(s, n, j) = BehindTo(t, n, j)
  BY <1>2, <1>4
<1>6. BehindTo(s, n, j) <= n => s[BehindTo(s, n, j)] = t[BehindTo(s, n, j)]
  BY <1>2, <1>3, <1>4
<1> QED
  BY <1>5, <1>6 DEF Follows

\* Cells that are no headers, behind the last header of s
LEMMA TornLonger ==
  ASSUME NEW s, NEW t, NEW n \in Nat, NEW k \in Nat, n <= k, NEW h \in 1..n, IsHeader(s[h]),
         \A i \in (h + 1)..n : ~IsHeader(s[i]), Clean(s, n),
         \A i \in 1..n : t[i] = s[i] /\ s[i][2] \in Nat,
         \A i \in (n + 1)..k : ~IsHeader(t[i]), TornTo(s, n) \subseteq {h}
  PROVE  TornTo(t, k) \subseteq {h}
<1> SUFFICES ASSUME NEW j \in TornTo(t, k), j # h PROVE FALSE
  OBVIOUS
<1> DEFINE e == j + s[j][2] + 1
<1>1. j \in 1..k /\ IsHeader(t[j]) /\ ~Follows(t, k, j)
  BY DEF TornTo
<1>2. j \in 1..n
  BY <1>1
<1>3. t[j] = s[j] /\ IsHeader(s[j]) /\ s[j][2] \in Nat
  BY <1>1, <1>2
<1>4. j < h
  BY <1>2, <1>3
<1>5. e \in Nat /\ e <= h /\ e >= 1
  BY <1>2, <1>3, <1>4 DEF Clean, InFrame
<1>6. t[e] = s[e] /\ (e + 1 <= h => t[e + 1] = s[e + 1])
  BY <1>5
<1>7. s[h] # End
  BY TailIs
<1> HIDE DEF e
<1>8. /\ BehindTo(s, n, j) = IF e <= n /\ s[e] = End THEN e + 1 ELSE e
      /\ BehindTo(t, k, j) = IF e <= k /\ t[e] = End THEN e + 1 ELSE e
  BY <1>3 DEF BehindTo, e
<1>9. e <= n /\ e <= k
  BY <1>5
<1>10. Follows(s, n, j)
  BY <1>2, <1>3 DEF TornTo
<1>11. CASE s[e] = End
  <2>1. e + 1 <= h
    BY <1>5, <1>7, <1>11
  <2>2. BehindTo(s, n, j) = e + 1 /\ BehindTo(t, k, j) = e + 1 /\ e + 1 <= n /\ e + 1 <= k
    BY <1>5, <1>6, <1>8, <1>9, <1>11, <2>1
  <2> QED
    BY <1>1, <1>5, <1>6, <1>10, <2>1, <2>2 DEF Follows
<1>12. CASE s[e] # End
  BY <1>1, <1>10, <1>12, <1>5, <1>6, <1>8, <1>9 DEF Follows
<1> QED
  BY <1>11, <1>12

\* A new header where all units end
LEMMA TornHeader ==
  ASSUME NEW s, NEW t, NEW n \in Nat, TornTo(s, n) = {},
         \A i \in 1..n : t[i] = s[i] /\ s[i][2] \in Nat, t[n + 1] = Hdr(0)
  PROVE  TornTo(t, n + 1) = {}
<1> SUFFICES ASSUME NEW j \in 1..(n + 1), IsHeader(t[j]) PROVE Follows(t, n + 1, j)
  BY DEF TornTo
<1>1. CASE j = n + 1
  BY <1>1, TailIs DEF Follows, BehindTo
<1>2. CASE j # n + 1
  <2> DEFINE e == j + s[j][2] + 1
  <2>1. j \in 1..n /\ t[j] = s[j] /\ s[j][2] \in Nat /\ e \in Nat /\ e >= 2
    BY <1>2
  <2>2. Follows(s, n, j)
    BY <2>1 DEF TornTo
  <2>3. (e <= n => t[e] = s[e]) /\ (e + 1 <= n => t[e + 1] = s[e + 1])
    BY <2>1
  <2> HIDE DEF e
  <2>4. /\ BehindTo(s, n, j) = IF e <= n /\ s[e] = End THEN e + 1 ELSE e
        /\ BehindTo(t, n + 1, j) = IF e <= n + 1 /\ t[e] = End THEN e + 1 ELSE e
    BY <2>1 DEF BehindTo, e
  <2>5. t[n + 1] # End /\ IsHeader(t[n + 1])
    BY TailIs
  <2>6. CASE e <= n /\ s[e] = End
    BY <2>1, <2>2, <2>3, <2>4, <2>5, <2>6 DEF Follows
  <2>7. CASE ~(e <= n /\ s[e] = End)
    BY <2>1, <2>2, <2>3, <2>4, <2>5, <2>7, TailIs DEF Follows
  <2> QED
    BY <2>6, <2>7
<1> QED
  BY <1>1, <1>2

\* Only what lies before the first header that is left is torn anew, and is one unit.
LEMMA TornTail ==
  ASSUME NEW s, NEW t, NEW n \in Nat, NEW k \in Nat,
         \A i \in 2..n : (t[i] = s[i] /\ i > k) \/ (i <= k /\ ~IsHeader(t[i])),
         \A i \in 1..n : t[i][2] \in Nat
  PROVE  TornTo(t, n) \ {1} \subseteq TornTo(s, n) \ {1}
<1> SUFFICES ASSUME NEW j \in TornTo(t, n), j # 1 PROVE j \in TornTo(s, n)
  OBVIOUS
<1> DEFINE e == j + t[j][2] + 1
<1>1. j \in 2..n /\ IsHeader(t[j]) /\ ~Follows(t, n, j)
  BY DEF TornTo
<1>2. j > k /\ t[j] = s[j] /\ t[j][2] \in Nat
  BY <1>1
<1>3. e \in Nat /\ e > j /\ (e <= n => t[e] = s[e]) /\ (e + 1 <= n => t[e + 1] = s[e + 1])
  BY <1>1, <1>2
<1> HIDE DEF e
<1>4. /\ BehindTo(s, n, j) = IF e <= n /\ s[e] = End THEN e + 1 ELSE e
      /\ BehindTo(t, n, j) = IF e <= n /\ t[e] = End THEN e + 1 ELSE e
  BY <1>2 DEF BehindTo, e
<1>5. BehindTo(s, n, j) = BehindTo(t, n, j)
  BY <1>3, <1>4
<1>6. BehindTo(s, n, j) <= n => s[BehindTo(s, n, j)] = t[BehindTo(s, n, j)]
  BY <1>3, <1>4
<1> QED
  BY <1>1, <1>2, <1>5, <1>6 DEF Follows, TornTo

\* A length that changes concerns one unit.
LEMMA TornLength ==
  ASSUME NEW s, NEW t, NEW n \in Nat, NEW h \in 1..n, IsHeader(s[h]), IsHeader(t[h]),
         \A i \in 1..n : i # h => t[i] = s[i],
         \A i \in 1..n : t[i][2] \in Nat
  PROVE  TornTo(t, n) \subseteq TornTo(s, n) \cup {h}
<1> SUFFICES ASSUME NEW j \in TornTo(t, n), j # h PROVE j \in TornTo(s, n)
  OBVIOUS
<1> DEFINE e == j + t[j][2] + 1
<1>1. j \in 1..n /\ IsHeader(t[j]) /\ ~Follows(t, n, j)
  BY DEF TornTo
<1>2. t[j] = s[j] /\ t[j][2] \in Nat
  BY <1>1
<1>3. e \in Nat /\ e >= 1
  BY <1>1, <1>2
<1>4. s[h] # End /\ t[h] # End
  BY TailIs
<1>5. \A i \in 1..n : (t[i] = End <=> s[i] = End) /\ (IsHeader(t[i]) <=> IsHeader(s[i]))
  BY <1>4
<1> HIDE DEF e
<1>6. /\ BehindTo(s, n, j) = IF e <= n /\ s[e] = End THEN e + 1 ELSE e
      /\ BehindTo(t, n, j) = IF e <= n /\ t[e] = End THEN e + 1 ELSE e
  BY <1>2 DEF BehindTo, e
<1>7. e <= n => (t[e] = End <=> s[e] = End)
  BY <1>3, <1>5
<1>8. BehindTo(s, n, j) = BehindTo(t, n, j) /\ BehindTo(t, n, j) \in {e, e + 1}
  BY <1>6, <1>7
<1> DEFINE b == BehindTo(t, n, j)
<1>9. b <= n => (IsHeader(t[b]) <=> IsHeader(s[b]))
  <2>1. b \in Nat /\ b >= 1
    BY <1>3, <1>8
  <2> HIDE DEF b
  <2> QED
    BY <1>5, <2>1
<1> QED
  BY <1>1, <1>2, <1>8, <1>9 DEF Follows, TornTo

\* A unit that ends with the buffer is whole.
LEMMA TornWhole ==
  ASSUME NEW s, NEW n \in Nat, NEW h \in 1..n, s[h][2] \in Nat,
         \/ n = h + s[h][2]
         \/ n = h + s[h][2] + 1 /\ s[n] = End
  PROVE  h \notin TornTo(s, n)
  BY BehindIs DEF TornTo, Follows

\* Places behind the first a cells
Shift(a, S) == {a + i : i \in S}

LEMMA ConcatIs ==
  ASSUME NEW s \in Seq(Cell), NEW t \in Seq(Cell)
  PROVE  /\ s \o t \in Seq(Cell) /\ Len(s \o t) = Len(s) + Len(t) /\ Len(s) \in Nat /\ Len(t) \in Nat
         /\ \A i \in 1..Len(s) : (s \o t)[i] = s[i]
         /\ \A i \in 1..Len(t) : (s \o t)[Len(s) + i] = t[i]
  BY ConcatProperties, LenProperties

\* Behind the end of s a unit begins, so no unit of s is torn that was not, and none is whole
\* that was not.
LEMMA TornConcat ==
  ASSUME NEW s \in Seq(Cell), NEW t \in Seq(Cell), FitsIn(s, Len(s)),
         Len(t) >= 1 => IsHeader(t[1])
  PROVE  TornTo(s \o t, Len(s) + Len(t))
            = TornTo(s, Len(s)) \cup Shift(Len(s), TornTo(t, Len(t)))
<1> DEFINE u == s \o t
           a == Len(s)
           b == Len(t)
<1>1. /\ a \in Nat /\ b \in Nat /\ \A i \in 1..a : u[i] = s[i]
      /\ \A i \in 1..b : u[a + i] = t[i]
      /\ \A i \in 1..a : s[i][2] \in Nat
      /\ \A i \in 1..b : t[i][2] \in Nat
  BY ConcatIs, LengthsAre, ElementOfSeq
<1>0. a \in Nat /\ b \in Nat
  BY <1>1
<1>2. \A i \in 1..a : IsHeader(s[i]) => i + s[i][2] <= a
  BY DEF FitsIn
<1>3. b >= 1 => IsHeader(u[a + 1]) /\ u[a + 1] # End
  BY <1>1, TailIs
<1> HIDE DEF u, a, b
<1>4. ASSUME NEW j \in 1..a, IsHeader(s[j]) PROVE Follows(s, a, j) <=> Follows(u, a + b, j)
  <2> DEFINE l == s[j][2]
             e == j + l + 1
  <2>1. u[j] = s[j] /\ s[j][2] \in Nat /\ e \in Nat /\ e >= 2 /\ e <= a + 1
    <3>1. u[j] = s[j] /\ l \in Nat
      BY <1>1, <1>4
    <3>2. j + l <= a
      BY <1>2, <1>4
    <3>3. j \in Nat /\ j >= 1
      BY <1>0, <1>4
    <3> HIDE DEF l
    <3>4. e \in Nat /\ e >= 2 /\ e <= a + 1
      BY <1>0, <3>1, <3>2, <3>3
    <3> QED
      BY <3>1, <3>4 DEF l
  <2>2. (e <= a => u[e] = s[e]) /\ (e + 1 <= a => u[e + 1] = s[e + 1])
    <3> HIDE DEF e
    <3>1. (e <= a => e \in 1..a) /\ (e + 1 <= a => e + 1 \in 1..a)
      BY <1>0, <2>1
    <3> QED
      BY <1>1, <3>1
  <2> HIDE DEF e
  <2>3. /\ BehindTo(s, a, j) = IF e <= a /\ s[e] = End THEN e + 1 ELSE e
        /\ BehindTo(u, a + b, j) = IF e <= a + b /\ u[e] = End THEN e + 1 ELSE e
    BY <2>1 DEF BehindTo, e
  <2>4. BehindTo(s, a, j) = BehindTo(u, a + b, j)
    <3>1. CASE e <= a
      BY <1>1, <2>1, <2>2, <2>3, <3>1
    <3>2. CASE ~(e <= a)
      <4>1. e = a + 1
        BY <1>0, <2>1, <3>2
      <4>2. e <= a + b => u[e] # End
        BY <1>1, <1>3, <4>1
      <4> QED
        BY <2>3, <3>2, <4>2
    <3> QED
      BY <3>1, <3>2
  <2> DEFINE h == BehindTo(s, a, j)
  <2>5. h \in Nat /\ h <= a + 1 /\ h >= 1
    BY <1>0, <2>1, <2>3
  <2> HIDE DEF h
  <2>6. h <= a => u[h] = s[h]
    BY <1>1, <2>5
  <2>7. Follows(s, a, j) <=> h = a + 1 \/ (h <= a /\ IsHeader(s[h]))
    BY DEF Follows, h
  <2>8. Follows(u, a + b, j) <=> h = a + b + 1 \/ (h <= a + b /\ IsHeader(u[h]))
    BY <2>4 DEF Follows, h
  <2>9. CASE h = a + 1
    BY <1>0, <1>3, <2>7, <2>8, <2>9
  <2>10. CASE h <= a
    BY <1>0, <2>5, <2>6, <2>7, <2>8, <2>10
  <2> QED
    BY <1>0, <2>5, <2>9, <2>10
<1>5. ASSUME NEW j \in 1..b PROVE Follows(t, b, j) <=> Follows(u, a + b, a + j)
  <2> DEFINE l == t[j][2]
             e == j + l + 1
  <2>1. u[a + j] = t[j] /\ l \in Nat
    BY <1>1
  <2>0. j \in Nat /\ j >= 1
    OBVIOUS
  <2>9. e \in Nat /\ e >= 2 /\ a + j + l + 1 = a + e
    <3> HIDE DEF l
    <3> QED
      BY <1>0, <2>0, <2>1
  <2>2. (e <= b => u[a + e] = t[e]) /\ (e + 1 <= b => u[a + e + 1] = t[e + 1])
    <3> HIDE DEF e
    <3>1. (e <= b => e \in 1..b) /\ (e + 1 <= b => e + 1 \in 1..b)
      BY <1>0, <2>9
    <3>0. a + (e + 1) = a + e + 1
      BY <1>0, <2>9
    <3>2. e <= b => u[a + e] = t[e]
      BY <1>1, <3>1
    <3>3. e + 1 <= b => u[a + (e + 1)] = t[e + 1]
      BY <1>1, <3>1
    <3> QED
      BY <3>0, <3>2, <3>3, Zenon
  <2> HIDE DEF e
  <2>3. /\ BehindTo(t, b, j) = IF e <= b /\ t[e] = End THEN e + 1 ELSE e
        /\ BehindTo(u, a + b, a + j) = IF a + e <= a + b /\ u[a + e] = End THEN a + e + 1 ELSE a + e
    BY <2>1, <2>9 DEF BehindTo, e
  <2>4. BehindTo(u, a + b, a + j) = a + BehindTo(t, b, j)
    <3>1. CASE e <= b /\ t[e] = End
      BY <1>0, <2>2, <2>3, <2>9, <3>1
    <3>2. CASE ~(e <= b /\ t[e] = End)
      BY <1>0, <2>9, <2>2, <2>3, <3>2
    <3> QED
      BY <3>1, <3>2
  <2> DEFINE h == BehindTo(t, b, j)
  <2>5. h \in Nat /\ h >= 1
    BY <1>0, <2>9, <2>3
  <2> HIDE DEF h
  <2>6. h <= b => u[a + h] = t[h]
    BY <1>1, <2>5
  <2>7. Follows(t, b, j) <=> h = b + 1 \/ (h <= b /\ IsHeader(t[h]))
    BY DEF Follows, h
  <2>8. Follows(u, a + b, a + j) <=> a + h = a + b + 1 \/ (a + h <= a + b /\ IsHeader(u[a + h]))
    BY <2>4 DEF Follows, h
  <2> QED
    BY <1>0, <2>5, <2>6, <2>7, <2>8
<1>6. ASSUME NEW x \in TornTo(u, a + b)
      PROVE  x \in TornTo(s, a) \cup Shift(a, TornTo(t, b))
  <2>1. x \in 1..(a + b) /\ IsHeader(u[x]) /\ ~Follows(u, a + b, x)
    BY DEF TornTo
  <2>2. CASE x <= a
    BY <1>1, <1>4, <2>1, <2>2 DEF TornTo
  <2>3. CASE ~(x <= a)
    <3> DEFINE i == x - a
    <3>1. i \in 1..b /\ x = a + i
      BY <1>1, <2>1, <2>3
    <3> HIDE DEF i
    <3>2. i \in TornTo(t, b)
      BY <1>1, <1>5, <2>1, <3>1 DEF TornTo
    <3> QED
      BY <3>1, <3>2 DEF Shift
  <2> QED
    BY <2>2, <2>3
<1>7. ASSUME NEW x \in TornTo(s, a) PROVE x \in TornTo(u, a + b)
  BY <1>1, <1>4 DEF TornTo
<1>8. ASSUME NEW i \in TornTo(t, b) PROVE a + i \in TornTo(u, a + b)
  BY <1>1, <1>5 DEF TornTo
<1>9. TornTo(u, a + b) = TornTo(s, a) \cup Shift(a, TornTo(t, b))
  BY <1>6, <1>7, <1>8 DEF Shift
<1> QED
  BY <1>9 DEF u, a, b

\* The places of a cell
At(s, c) == {i \in DOMAIN s : s[i] = c}

LEMMA AtConcat ==
  ASSUME NEW s \in Seq(Cell), NEW t \in Seq(Cell), NEW c
  PROVE  At(s \o t, c) = At(s, c) \cup Shift(Len(s), At(t, c))
<1> DEFINE u == s \o t
           a == Len(s)
           b == Len(t)
<1>1. /\ a \in Nat /\ b \in Nat /\ \A i \in 1..a : u[i] = s[i]
      /\ \A i \in 1..b : u[a + i] = t[i]
      /\ DOMAIN s = 1..a /\ DOMAIN t = 1..b /\ DOMAIN u = 1..(a + b)
  BY ConcatIs, LenProperties
<1> HIDE DEF u, a, b
<1>2. ASSUME NEW x \in At(u, c) PROVE x \in At(s, c) \cup Shift(a, At(t, c))
  <2>1. CASE x <= a
    BY <1>1, <2>1 DEF At
  <2>2. CASE ~(x <= a)
    <3> DEFINE i == x - a
    <3>1. i \in 1..b /\ x = a + i
      BY <1>1, <2>2 DEF At
    <3> HIDE DEF i
    <3>2. i \in At(t, c)
      BY <1>1, <3>1 DEF At
    <3> QED
      BY <3>1, <3>2 DEF Shift
  <2> QED
    BY <2>1, <2>2
<1>3. At(s, c) \subseteq At(u, c)
  BY <1>1 DEF At
<1>4. ASSUME NEW i \in At(t, c) PROVE a + i \in At(u, c)
  BY <1>1 DEF At
<1>5. At(u, c) = At(s, c) \cup Shift(a, At(t, c))
  BY <1>2, <1>3, <1>4 DEF Shift
<1> QED
  BY <1>5 DEF u, a

LEMMA ShiftCount ==
  ASSUME NEW S, S \subseteq Nat, IsFiniteSet(S), NEW a \in Nat
  PROVE  IsFiniteSet(Shift(a, S)) /\ Cardinality(Shift(a, S)) = Cardinality(S)
<1> DEFINE T == Shift(a, S)
           f == [i \in S |-> a + i]
<1>1. f \in Bijection(S, T)
  BY DEF Shift, Bijection, Injection, IsInjective, Surjection
<1>2. ExistsBijection(S, T)
  BY <1>1 DEF ExistsBijection
<1> HIDE DEF T
<1>3. IsFiniteSet(T) /\ Cardinality(T) = Cardinality(S)
  BY <1>2, FS_Bijection
<1> QED
  BY <1>3 DEF T

\* Places in all files, when one file grows
PairsOf(f) == UNION {{p} \X f[p] : p \in Names}

\* In file q there are the places S more, behind the first a.
MoreIn(f, g, q, a, S) == /\ q \in Names /\ a \in Nat /\ S \subseteq Nat \ {0} /\ IsFiniteSet(S)
                         /\ f[q] \subseteq 1..a /\ g[q] = f[q] \cup Shift(a, S)
                         /\ \A p \in Names : p # q => g[p] = f[p]

LEMMA PairsGrow ==
  ASSUME NEW f, NEW g, NEW q, NEW a, NEW S, MoreIn(f, g, q, a, S), IsFiniteSet(PairsOf(f))
  PROVE  IsFiniteSet(PairsOf(g)) /\ Cardinality(PairsOf(g)) = Cardinality(PairsOf(f)) + Cardinality(S)
<1> DEFINE U == UNION {{p} \X f[p] : p \in Names}
           V == UNION {{p} \X g[p] : p \in Names}
           T == Shift(a, S)
           W == {q} \X T
           h == [x \in T |-> <<q, x>>]
<1>0. /\ q \in Names /\ a \in Nat /\ S \subseteq Nat \ {0} /\ IsFiniteSet(S)
      /\ f[q] \subseteq 1..a /\ g[q] = f[q] \cup Shift(a, S)
      /\ \A p \in Names : p # q => g[p] = f[p]
  BY DEF MoreIn
<1>1. IsFiniteSet(T) /\ Cardinality(T) = Cardinality(S)
  BY <1>0, ShiftCount
<1>2. \A x \in T : x > a
  BY <1>0 DEF Shift
<1> HIDE DEF T
<1>3. h \in Bijection(T, W)
  BY DEF Bijection, Injection, IsInjective, Surjection
<1>4. IsFiniteSet(W) /\ Cardinality(W) = Cardinality(S)
  <2>1. ExistsBijection(T, W)
    BY <1>3 DEF ExistsBijection
  <2> HIDE DEF W, h
  <2> QED
    BY <1>1, <2>1, FS_Bijection
<1>5. V = U \cup W
  BY <1>0 DEF T
<1>6. U \cap W = {}
  BY <1>0, <1>2
<1> HIDE DEF U, V, W
<1>7. IsFiniteSet(U)
  BY DEF U, PairsOf
<1>8. IsFiniteSet(V) /\ Cardinality(V) = Cardinality(U) + Cardinality(W) - Cardinality({})
  BY <1>4, <1>5, <1>6, <1>7, FS_Union
<1>9. Cardinality(V) = Cardinality(U) + Cardinality(S)
  BY <1>4, <1>7, <1>8, FS_EmptySet, FS_CardinalityType
<1>10. U = PairsOf(f) /\ V = PairsOf(g)
  BY DEF U, V, PairsOf
<1> QED
  BY <1>8, <1>9, <1>10

-------------------------------------------------------------------------------
(* What the steps do to the torn units and the copies in the files *)

LEMMA Regroup ==
  ASSUME NEW s \in Seq(Cell), NEW t \in Seq(Cell), NEW u \in Seq(Cell)
  PROVE  s \o (t \o u) = (s \o t) \o u
OBVIOUS

LEMMA WrittenIs ==
  ASSUME CoreInv, FilesOK, NEW p \in Names
  PROVE  /\ Written(p) \in Seq(Cell) /\ Plain(Written(p)) /\ Len(Written(p)) \in Nat
         /\ DOMAIN Written(p) = 1..Len(Written(p))
  BY FileIs, FramedConcat, LenProperties DEF FilesOK, Written

LEMMA SameWritten ==
  ASSUME \A p \in Names : Written(p)' = Written(p)
  PROVE  TornUnits' = TornUnits /\ \A c : Copies(c)' = Copies(c)
BY DEF TornUnits, Copies

\* A sequence of cells that begins a unit is appended to what is written to file q.
LEMMA WrittenGrows ==
  ASSUME CoreInv, FilesOK, NEW q \in Names, NEW t \in Seq(Cell), Len(t) >= 1 => IsHeader(t[1]),
         UNCHANGED away, \A p \in Names : Cells(p)' = IF p = q THEN Cells(p) \o t ELSE Cells(p),
         IsFiniteSet(TornUnits)
  PROVE  /\ IsFiniteSet(TornUnits')
         /\ Cardinality(TornUnits') = Cardinality(TornUnits) + Cardinality(TornTo(t, Len(t)))
         /\ \A c : IsFiniteSet(Copies(c)) =>
                      /\ IsFiniteSet(Copies(c)')
                      /\ Cardinality(Copies(c)') = Cardinality(Copies(c)) + Cardinality(At(t, c))
<1> DEFINE a == Len(Written(q))
<1>1. \A p \in Names : /\ Written(p) \in Seq(Cell) /\ Plain(Written(p))
                       /\ DOMAIN Written(p) = 1..Len(Written(p)) /\ Len(Written(p)) \in Nat
  BY WrittenIs
<1>2. \A p \in Names : Written(p)' = IF p = q THEN Written(p) \o t ELSE Written(p)
  <2> SUFFICES ASSUME NEW p \in Names
               PROVE  Written(p)' = IF p = q THEN Written(p) \o t ELSE Written(p)
    OBVIOUS
  <2>1. away[p] \in Seq(Cell) /\ Cells(p) \in Seq(Cell)
    BY FileIs
  <2>2. away[p] \o (Cells(p) \o t) = (away[p] \o Cells(p)) \o t
    BY <2>1, Regroup, Zenon
  <2> QED
    BY <2>2 DEF Written
<1>3. Written(q) \o t \in Seq(Cell) /\ Len(Written(q) \o t) = a + Len(t) /\ Len(t) \in Nat /\ a \in Nat
  BY <1>1, ConcatIs
<1>4. \A p \in Names : p # q => Written(p)' = Written(p)
  BY <1>2
<1>5. Written(q)' = Written(q) \o t
  BY <1>2
<1>6. IsFiniteSet(TornUnits') /\ Cardinality(TornUnits') = Cardinality(TornUnits) + Cardinality(TornTo(t, Len(t)))
  <2> DEFINE f == [p \in Names |-> Torn(Written(p))]
             g == [p \in Names |-> Torn(Written(p))']
             S == TornTo(t, Len(t))
  <2>1. TornUnits = PairsOf(f)
    BY DEF TornUnits, PairsOf
  <2>2. TornUnits' = PairsOf(g)
    BY DEF TornUnits, PairsOf
  <2>3. \A p \in Names : p # q => g[p] = f[p]
    BY <1>4
  <2>4. g[q] = f[q] \cup Shift(a, S)
    <3>1. Torn(Written(q)) = TornTo(Written(q), a)
      BY <1>1, TornIs
    <3>2. Torn(Written(q) \o t) = TornTo(Written(q) \o t, a + Len(t))
      BY <1>3, TornIs
    <3>3. FitsIn(Written(q), Len(Written(q)))
      BY <1>1 DEF Plain
    <3>4. TornTo(Written(q) \o t, a + Len(t)) = TornTo(Written(q), a) \cup Shift(a, S)
      BY <1>1, <3>3, TornConcat
    <3>5. Torn(Written(q))' = Torn(Written(q) \o t)
      BY <1>5 DEF Torn, Behind
    <3> QED
      BY <3>1, <3>2, <3>4, <3>5
  <2>5. f[q] \subseteq 1..a
    BY <1>1, <1>3, TornIs, TornCount
  <2>6. S \subseteq Nat \ {0} /\ IsFiniteSet(S)
    BY <1>3, TornCount
  <2> HIDE DEF f, g, S, a
  <2>7. IsFiniteSet(PairsOf(f))
    BY <2>1
  <2>0. MoreIn(f, g, q, a, S)
    BY <1>3, <2>3, <2>4, <2>5, <2>6 DEF MoreIn
  <2>8. /\ IsFiniteSet(PairsOf(g))
        /\ Cardinality(PairsOf(g))
              = Cardinality(PairsOf(f)) + Cardinality(S)
    BY <2>7, <2>0, PairsGrow
  <2>9. IsFiniteSet(TornUnits') /\ Cardinality(TornUnits') = Cardinality(TornUnits) + Cardinality(S)
    BY <2>1, <2>2, <2>8
  <2> QED
    BY <2>9 DEF S
<1>7. ASSUME NEW c, IsFiniteSet(Copies(c))
      PROVE  /\ IsFiniteSet(Copies(c)')
             /\ Cardinality(Copies(c)') = Cardinality(Copies(c)) + Cardinality(At(t, c))
  <2> DEFINE f == [p \in Names |-> At(Written(p), c)]
             g == [p \in Names |-> At(Written(p), c)']
             S == At(t, c)
  <2>1. Copies(c) = PairsOf(f)
    BY DEF Copies, At, PairsOf
  <2>2. Copies(c)' = PairsOf(g)
    BY DEF Copies, At, PairsOf
  <2>3. \A p \in Names : p # q => g[p] = f[p]
    BY <1>4 DEF At
  <2>4. g[q] = f[q] \cup Shift(a, S)
    <3>1. At(Written(q) \o t, c) = At(Written(q), c) \cup Shift(a, S)
      BY <1>1, AtConcat
    <3>2. At(Written(q), c)' = At(Written(q) \o t, c)
      BY <1>5 DEF At
    <3> QED
      BY <3>1, <3>2
  <2>5. f[q] \subseteq 1..a
    BY <1>1 DEF At
  <2>6. S \subseteq Nat \ {0} /\ IsFiniteSet(S)
    <3>1. DOMAIN t = 1..Len(t)
      BY LenProperties
    <3>2. S \subseteq 1..Len(t)
      BY <3>1 DEF At
    <3>3. IsFiniteSet(1..Len(t))
      BY <1>3, FS_Interval
    <3> QED
      BY <1>3, <3>2, <3>3, FS_Subset
  <2> HIDE DEF f, g, S, a
  <2>7. IsFiniteSet(PairsOf(f))
    BY <1>7, <2>1
  <2>0. MoreIn(f, g, q, a, S)
    BY <1>3, <2>3, <2>4, <2>5, <2>6 DEF MoreIn
  <2>8. /\ IsFiniteSet(PairsOf(g))
        /\ Cardinality(PairsOf(g))
              = Cardinality(PairsOf(f)) + Cardinality(S)
    BY <2>7, <2>0, PairsGrow
  <2>9. IsFiniteSet(Copies(c)') /\ Cardinality(Copies(c)') = Cardinality(Copies(c)) + Cardinality(S)
    BY <2>1, <2>2, <2>8
  <2> QED
    BY <2>9 DEF S
<1> QED
  BY <1>6, <1>7

\* No other step changes what is written.
LEMMA OtherWritten ==
  ASSUME CoreInv, UnitInv, FrameInv, [Steps]_vars, ~PutOut, ~Dest
  PROVE  \A p \in Names : Written(p)' = Written(p)
<1>1. BufferOK
  BY DEF FrameInv
<1>2. CASE \E q \in Names \cup {None} : UNCHANGED away /\ (files' = Created(q) \/ UNCHANGED files)
  BY <1>2, CreatedCells, SameCellsOfFiles DEF Written
<1>3. CASE \E p \in Names : MoveAway(p)
  <2> SUFFICES ASSUME NEW q \in Names, MoveAway(q), NEW p \in Names PROVE Written(p)' = Written(p)
    BY <1>3
  <2>0. /\ files \in [Names -> Seq(Cell) \cup {None}] /\ away \in [Names -> Seq(Cell)]
        /\ Exists(q) /\ away' = [away EXCEPT ![q] = @ \o files[q]] /\ files' = [files EXCEPT ![q] = None]
    BY DEF MoveAway, CoreInv, TypeOK
  <2>1. CASE p = q
    BY <2>0, <2>1, FileIs, ConcatEmptySeq DEF Cells, Exists, Written
  <2>2. CASE p # q
    BY <2>0, <2>2 DEF Cells, Exists, Written
  <2> QED
    BY <2>1, <2>2
<1>4. CASE clogan_init \/ clogan_write \/ OpenFile
  BY <1>1, <1>2, <1>4, InitCallBuffer, WriteBuffer, OpenFileBuffer
<1>5. CASE UNCHANGED <<files, away>>
  BY <1>2, <1>5
<1> QED
  BY <1>3, <1>4, <1>5, FileSteps

\* The header unit of a file is whole.
LEMMA HeadNotTorn ==
  LET unit == <<Hdr(B)>> \o Pads(B) \o <<End>>
  IN  /\ IsHeader(unit[1]) /\ TornTo(unit, Len(unit)) = {}
      /\ \A c : c[1] = "data" => At(unit, c) = {}
<1> DEFINE unit == <<Hdr(B)>> \o Pads(B) \o <<End>>
<1>1. B \in Nat /\ B >= 1 /\ unit \in Seq(Cell)
  BY CLoganAssumption, HeadIs
<1>2. /\ Len(unit) = B + 2 /\ unit[1] = Hdr(B) /\ unit[B + 2] = End
      /\ \A i \in 2..(B + 1) : unit[i] = Pad
  BY <1>1, PadsAre, CellsAre
<1>3. Hdr(B)[1] = "header" /\ Hdr(B)[2] = B /\ Pad[1] = "pad" /\ End[1] = "tail"
  BY DEF Hdr, Pad, End
<1>4. TornTo(unit, B + 2) = {}
  <2> SUFFICES ASSUME NEW j \in TornTo(unit, B + 2) PROVE FALSE
    OBVIOUS
  <2>1. j \in 1..(B + 2) /\ IsHeader(unit[j])
    BY DEF TornTo
  <2>2. j = 1
    <3> HIDE DEF unit
    <3> QED
      BY <1>1, <1>2, <1>3, <2>1 DEF IsHeader
  <2>3. 1 \in 1..(B + 2) /\ unit[1][2] \in Nat /\ B + 2 = 1 + unit[1][2] + 1 /\ unit[B + 2] = End
    BY <1>1, <1>2, <1>3
  <2>4. 1 \notin TornTo(unit, B + 2)
    <3>1. B + 2 \in Nat
      BY <1>1
    <3> HIDE DEF unit
    <3> QED
      BY <2>3, <3>1, TornWhole
  <2> QED
    BY <2>2, <2>4
<1>5. ASSUME NEW c, c[1] = "data" PROVE At(unit, c) = {}
  <2>1. DOMAIN unit = 1..(B + 2)
    BY <1>1, <1>2, LenProperties
  <2> HIDE DEF unit
  <2> QED
    BY <1>1, <1>2, <1>3, <1>5, <2>1 DEF At
<1> QED
  BY <1>2, <1>3, <1>4, <1>5 DEF IsHeader

LEMMA LiveIs ==
  ASSUME CoreInv
  PROVE  /\ Live \in Seq(Cell) /\ Len(Live) = m.total_len /\ m.total_len \in Nat
         /\ \A i \in 1..m.total_len : Live[i] = area[i] /\ area[i] \in Cell /\ area[i][2] \in Nat
         /\ TornTo(Live, Len(Live)) = LiveTorn
<1>1. /\ Live \in Seq(Cell) /\ Len(Live) = m.total_len /\ m.total_len \in Nat
      /\ \A i \in 1..m.total_len : Live[i] = area[i]
  BY Model, UptoIs DEF Live
<1>2. \A i \in 1..m.total_len : area[i] \in Cell /\ area[i][2] \in Nat
  BY CellLengths, Model
<1>3. TornTo(area, m.total_len) = TornTo(Live, m.total_len)
  BY <1>1, <1>2, SameTorn
<1> QED
  BY <1>1, <1>2, <1>3 DEF LiveTorn

\* An append adds to the files what is torn, and the copies of what is, in the buffer; no
\* other step adds any.
LEMMA NextWritten ==
  ASSUME CoreInv, UnitInv, FrameInv, HeadFirst, [Steps]_vars, IsFiniteSet(TornUnits)
  PROVE  /\ IsFiniteSet(TornUnits')
         /\ Cardinality(TornUnits') = Cardinality(TornUnits) + (IF PutOut THEN Cardinality(LiveTorn) ELSE 0)
         /\ \A c : c[1] = "data" /\ IsFiniteSet(Copies(c)) =>
              /\ IsFiniteSet(Copies(c)')
              /\ Cardinality(Copies(c)')
                   = Cardinality(Copies(c)) + (IF PutOut THEN Cardinality(At(Live, c)) ELSE 0)
<1>0. FilesOK
  BY DEF FrameInv
<1>1. CASE PutOut
  <2>1. /\ m.path \in Names /\ UNCHANGED away
        /\ \A p \in Names : Cells(p)' = IF p = m.path THEN Cells(p) \o Live ELSE Cells(p)
    BY <1>1, PutOutCells DEF Live
  <2>2. Live \in Seq(Cell) /\ TornTo(Live, Len(Live)) = LiveTorn
    BY LiveIs
  <2>3. Len(Live) >= 1 => IsHeader(Live[1])
    BY LiveIs, Model DEF HeadFirst
  <2> QED
    BY <1>0, <1>1, <2>1, <2>2, <2>3, WrittenGrows
<1>2. ASSUME ~PutOut, \A p \in Names : Written(p)' = Written(p)
      PROVE  /\ IsFiniteSet(TornUnits')
             /\ Cardinality(TornUnits') = Cardinality(TornUnits) + 0
             /\ \A c : c[1] = "data" /\ IsFiniteSet(Copies(c)) =>
                  /\ IsFiniteSet(Copies(c)')
                  /\ Cardinality(Copies(c)') = Cardinality(Copies(c)) + 0
  BY <1>2, SameWritten, FS_CardinalityType
<1>3. CASE Dest /\ UNCHANGED files
  BY <1>2, <1>3, SameCellsOfFiles DEF Dest, PutOut, Written
<1>4. CASE Dest /\ ~UNCHANGED files
  <2> DEFINE unit == <<Hdr(B)>> \o Pads(B) \o <<End>>
  <2>1. ~PutOut /\ UNCHANGED away /\ m.path \in Names
    BY <1>4 DEF Dest, PutOut, CoreInv, LinkInv, Closed
  <2>2. \A p \in Names : Cells(p)' = IF p = m.path THEN Cells(p) \o unit ELSE Cells(p)
    BY <1>4, DestCells
  <2>3. unit \in Seq(Cell) /\ IsHeader(unit[1]) /\ TornTo(unit, Len(unit)) = {}
        /\ \A c : c[1] = "data" => At(unit, c) = {}
    BY HeadIs, HeadNotTorn
  <2> HIDE DEF unit
  <2>4. /\ IsFiniteSet(TornUnits')
        /\ Cardinality(TornUnits') = Cardinality(TornUnits) + Cardinality({})
        /\ \A c : IsFiniteSet(Copies(c)) =>
              /\ IsFiniteSet(Copies(c)')
              /\ Cardinality(Copies(c)') = Cardinality(Copies(c)) + Cardinality(At(unit, c))
    BY <1>0, <2>1, <2>2, <2>3, WrittenGrows
  <2> QED
    BY <2>1, <2>3, <2>4, FS_EmptySet
<1>5. CASE ~PutOut /\ ~Dest
  BY <1>2, <1>5, OtherWritten
<1> QED
  BY <1>1, <1>3, <1>4, <1>5

-------------------------------------------------------------------------------
(* How many units are torn *)

LEMMA TriStep ==
  /\ Tri(0) = 0
  /\ \A n \in Nat : Tri(n) \in Nat /\ Tri(n + 1) = Tri(n) + n + 1
<1>1. Tri(0) = 0
  BY DEF Tri
<1>2. ASSUME NEW n \in Nat PROVE Tri(n) \in Nat /\ Tri(n + 1) = Tri(n) + n + 1
  <2>1. \E k \in Nat : n * (n + 1) = 2 * k
    <3>1. CASE n % 2 = 0
      <4> DEFINE a == n \div 2
      <4>1. a \in Nat /\ n = 2 * a
        BY <3>1
      <4>2. n * (n + 1) = 2 * (a * (n + 1)) /\ a * (n + 1) \in Nat
        BY <4>1
      <4> QED
        BY <4>2
    <3>2. CASE n % 2 = 1
      <4> DEFINE a == (n + 1) \div 2
      <4>1. a \in Nat /\ n + 1 = 2 * a
        BY <3>2
      <4>2. n * (n + 1) = 2 * (a * n) /\ a * n \in Nat
        BY <4>1
      <4> QED
        BY <4>2
    <3> QED
      BY <3>1, <3>2
  <2>2. PICK k \in Nat : n * (n + 1) = 2 * k
    BY <2>1
  <2>3. (n + 1) * (n + 1 + 1) = n * (n + 1) + 2 * (n + 1)
    OBVIOUS
  <2>4. (n + 1) * (n + 1 + 1) = 2 * (k + n + 1)
    BY <2>2, <2>3
  <2>5. Tri(n) = k
    BY <2>2 DEF Tri
  <2>6. Tri(n + 1) = k + n + 1
    BY <2>4 DEF Tri
  <2> QED
    BY <2>5, <2>6
<1> QED
  BY <1>1, <1>2

\* Nothing is torn where there is only an empty header.
LEMMA SmallNotTorn ==
  ASSUME NEW s, NEW n \in Nat, n <= 1, n = 1 => s[1][2] = 0
  PROVE  TornTo(s, n) = {}
  BY DEF TornTo, Follows, BehindTo

LEMMA CrashesAre ==
  ASSUME CoreInv, left["crash"] <= Budget["crash"], [Steps]_vars
  PROVE  /\ Crashes \in Nat /\ left'["crash"] <= Budget["crash"]
         /\ Crashes' = IF Crash /\ ~UNCHANGED vars THEN Crashes + 1 ELSE Crashes
<1>1. /\ left \in [Events -> Nat] /\ Budget \in [Events -> Nat]
      /\ {"crash", "noopen", "unmap", "away"} \subseteq Events
  BY CLoganAssumption DEF CoreInv, TypeOK, Events
<1>2. CASE Crash
  BY <1>1, <1>2 DEF Crash, Spend, Crashes, vars, ctl
<1>3. CASE UNCHANGED vars
  BY <1>1, <1>3 DEF Crashes, vars
<1>4. CASE ~Crash /\ ~UNCHANGED vars
  BY <1>1, <1>4, LeftIs DEF Crashes
<1> QED
  BY <1>2, <1>3, <1>4

LEMMA MappedCount ==
  ASSUME CoreInv
  PROVE  IsFiniteSet(MappedTorn) /\ Cardinality(MappedTorn) \in Nat
         /\ IsFiniteSet(MappedTorn \ {1}) /\ Cardinality(MappedTorn \ {1}) \in Nat
         /\ Cardinality(MappedTorn \ {1}) <= Cardinality(MappedTorn)
         /\ Cardinality(MappedTorn) <= Cardinality(MappedTorn \ {1}) + 1
<1>1. mapTotal \in Nat
  BY DEF CoreInv, TypeOK
<1>2. IsFiniteSet(MappedTorn) /\ Cardinality(MappedTorn) \in Nat
  BY <1>1, TornCount DEF MappedTorn
<1>3. /\ IsFiniteSet(MappedTorn \ {1})
      /\ Cardinality(MappedTorn \ {1}) = IF 1 \in MappedTorn THEN Cardinality(MappedTorn) - 1 ELSE Cardinality(MappedTorn)
  BY <1>2, FS_RemoveElement
<1> QED
  BY <1>2, <1>3, FS_CardinalityType

\* No unit is torn once its length is stored.
LEMMA OpenWhole ==
  CoreInv /\ UnitInv /\ UnitOK /\ OpenTorn /\ m.is_open_ok /\ ~Clearing /\ pc \notin {"total", "len"}
     => LiveTorn = {}
<1> SUFFICES ASSUME CoreInv, UnitInv, UnitOK, OpenTorn, m.is_open_ok, ~Clearing, pc \notin {"total", "len"}
             PROVE  LiveTorn = {}
  OBVIOUS
<1>1. /\ m.total_len \in Nat /\ m.hp \in Nat /\ m.hp >= 1 /\ m.content_len \in Nat
      /\ m.hp + m.content_len <= m.total_len
  BY Model, CellLengths, UnitIs
<1>2. /\ m.total_len = m.hp + m.content_len + (IF m.zlib = "END" THEN 1 ELSE 0)
      /\ area[m.hp][2] = m.content_len
      /\ m.zlib = "END" => area[m.total_len] = End
      /\ LiveTorn \subseteq {m.hp}
  BY DEF UnitOK, OpenTorn
<1>3. m.hp \in 1..m.total_len
  BY <1>1
<1>4. \/ m.total_len = m.hp + area[m.hp][2]
      \/ m.total_len = m.hp + area[m.hp][2] + 1 /\ area[m.total_len] = End
  BY <1>1, <1>2
<1>5. m.hp \notin TornTo(area, m.total_len)
  BY <1>1, <1>2, <1>3, <1>4, TornWhole
<1> QED
  BY <1>2, <1>5 DEF LiveTorn

LEMMA OpenWholeNext ==
  (CoreInv /\ UnitInv /\ UnitOK /\ OpenTorn /\ m.is_open_ok /\ ~Clearing /\ pc \notin {"total", "len"}
     => LiveTorn = {})'
BY OpenWhole, PTL

\* An append adds torn units only in a recovery.
LEMMA TornUnitsNext ==
  ASSUME CoreInv, UnitInv, FrameInv, TornInv, [Steps]_vars
  PROVE  /\ IsFiniteSet(TornUnits') /\ Cardinality(TornUnits') <= Tri(Crashes)
         /\ ~PutOut => Cardinality(TornUnits') = Cardinality(TornUnits)
<1>1. /\ IsFiniteSet(TornUnits')
      /\ Cardinality(TornUnits') = Cardinality(TornUnits) + (IF PutOut THEN Cardinality(LiveTorn) ELSE 0)
      /\ IsFiniteSet(TornUnits) /\ Cardinality(TornUnits) \in Nat
      /\ Cardinality(TornUnits) <= Tri(Crashes)
  BY NextWritten, FS_CardinalityType DEF TornInv, FilesTorn
<1>2. CASE PutOut
  <2>1. pc = "put" /\ ~Clearing
    BY <1>2 DEF PutOut, Clearing
  <2>2. CASE LiveTorn = {}
    BY <1>1, <2>2, FS_EmptySet
  <2>3. CASE LiveTorn # {}
    <3>1. ~m.is_open_ok
      BY <2>1, <2>3, OpenWhole DEF FrameInv, BufferOK, TornInv
    <3>2. m.total_len > 1
      <4> SUFFICES ASSUME ~(m.total_len > 1) PROVE FALSE
        OBVIOUS
      <4>1. m.total_len \in Nat /\ m.total_len <= 1 /\ m.total_len <= Len(area) /\ Len(area) \in Nat
        BY Model
      <4>2. m.total_len = 1 => area[1][2] = 0
        BY <4>1, CellLengths DEF TornInv, HeadFirst, FrameInv, BufferOK, AreaOK, FitsIn
      <4> QED
        BY <2>3, <4>1, <4>2, SmallNotTorn DEF LiveTorn
    <3>3. Recovering /\ m.total_len = mapTotal
      BY <2>1, <3>1, <3>2 DEF TornInv, RecoveryInv
    <3>4. LiveTorn = MappedTorn
      BY <3>3 DEF LiveTorn, MappedTorn
    <3> QED
      BY <1>1, <1>2, <3>3, <3>4 DEF TornInv, FilesTorn
  <2> QED
    BY <1>2, <2>2, <2>3
<1>3. CASE ~PutOut
  BY <1>1, <1>3
<1> QED
  BY <1>2, <1>3

\* A step that is neither a crash nor the start of a process
LEMMA TornNext ==
  ASSUME CoreInv, UnitInv, FrameInv, TornInv, [Steps]_vars, pc # "down", pc' # "down",
         HeadFirst', OpenTorn', RecoveryInv', MappedBound',
         Recovering' => Recovering /\ MappedTorn' = MappedTorn
  PROVE  TornInv'
<1>1. /\ Crashes' = Crashes /\ left'["crash"] <= Budget["crash"]
  <2>1. ~Crash
    BY DEF Crash
  <2> QED
    BY <2>1, CrashesAre DEF TornInv, FilesTorn
<1>2. /\ IsFiniteSet(TornUnits') /\ Cardinality(TornUnits') <= Tri(Crashes)
      /\ ~PutOut => Cardinality(TornUnits') = Cardinality(TornUnits)
  BY TornUnitsNext
<1>3. Recovering' => ~PutOut
  BY DEF Recovering, PutOut
<1>4. FilesTorn'
  BY <1>1, <1>2, <1>3 DEF TornInv, FilesTorn
<1> QED
  BY <1>4 DEF TornInv

LEMMA BoundNext ==
  ASSUME CoreInv, TornInv, [Steps]_vars, pc \notin {"down", "len"}, pc' # "down",
         mode' = "MMAP" => mode = "MMAP",
         mode' = "MMAP" => MappedTorn' \ {1} \subseteq MappedTorn \ {1}
  PROVE  MappedBound'
<1> SUFFICES ASSUME mode' = "MMAP" PROVE Cardinality((MappedTorn \ {1})') <= Crashes'
  BY DEF MappedBound
<1>1. Crashes' = Crashes /\ Crashes \in Nat
  <2>1. ~Crash
    BY DEF Crash
  <2> QED
    BY <2>1, CrashesAre DEF TornInv, FilesTorn
<1>2. IsFiniteSet(MappedTorn \ {1}) /\ Cardinality(MappedTorn \ {1}) \in Nat
      /\ Cardinality(MappedTorn \ {1}) <= Crashes
  BY MappedCount DEF TornInv, MappedBound
<1>3. /\ IsFiniteSet((MappedTorn \ {1})')
      /\ Cardinality((MappedTorn \ {1})') <= Cardinality(MappedTorn \ {1})
      /\ Cardinality((MappedTorn \ {1})') \in Nat
  BY <1>2, FS_Subset, FS_CardinalityType
<1> QED
  BY <1>1, <1>2, <1>3

\* Steps that leave the buffer, and what is in use of it
LEMMA QuietTorn ==
  ASSUME CoreInv, UnitInv, FrameInv, TornInv, [Steps]_vars,
         UNCHANGED <<area, mapTotal, mode>>, m'.total_len = m.total_len, m'.hp = m.hp,
         m'.zlib = m.zlib, m'.is_open_ok = m.is_open_ok, Clearing' <=> Clearing,
         pc \notin {"down", "len"}, pc' # "down", Recovering' => Recovering,
         m.is_open_ok \/ pc \notin {"flush", "flushed", "dest", "put", "clear"} \/ m.total_len <= 1
            \/ Recovering' \/ pc' = "clear"
  PROVE  TornInv'
  BY Model, BoundNext, TornNext DEF TornInv, HeadFirst, MappedTorn, LiveTorn, OpenTorn, RecoveryInv,
     Recovering

LEMMA ControlTorn ==
  ASSUME CoreInv, UnitInv, FrameInv, TornInv, [Steps]_vars,
         \/ \E p \in Names : clogan_open(p) \/ MoveAway(p)
         \/ clogan_flush \/ Section \/ Flushed \/ Unmap
         \/ Flush /\ m.zlib # "ING"
         \/ Unit /\ pc' # "total"
         \/ Ended /\ pc' = "flush"
         \/ Dest \/ PutOut
  PROVE  TornInv'
<1>0. m \in ModelType /\ m.total_len \in Nat
  BY Model
<1>1. CASE \E p \in Names : clogan_open(p) \/ MoveAway(p)
  BY <1>1, QuietTorn DEF clogan_open, MoveAway, mapped, ctl, Clearing, Recovering
<1>2. CASE clogan_flush \/ Section \/ Unmap
  BY <1>2, QuietTorn DEF clogan_flush, Section, Unmap, mapped, ctl, Clearing, Recovering
<1>3. CASE Flushed
  <2>1. /\ pc = "flushed" /\ pc' # "down" /\ UNCHANGED <<area, mapTotal, mode, m>>
        /\ ~Clearing /\ ~Clearing' /\ (Recovering' => Recovering)
        /\ m.total_len > 1 /\ Recovering => Recovering'
        /\ m.is_open_ok \/ m.total_len <= 1 \/ Recovering
    BY <1>0, <1>3 DEF Flushed, mapped, Clearing, Recovering, CoreInv, TypeOK, TornInv, RecoveryInv
  <2>2. m.total_len > 1 \/ m.total_len <= 1
    BY <1>0
  <2> QED
    BY <2>1, <2>2, QuietTorn
<1>4. CASE Flush /\ m.zlib # "ING"
  BY <1>0, <1>4, QuietTorn DEF Flush, mapped, Clearing, Recovering, TornInv, RecoveryInv
<1>5. CASE (Unit /\ pc' # "total") \/ (Ended /\ pc' = "flush")
  <2>1. /\ pc \in {"unit", "ended"} /\ pc' # "down" /\ UNCHANGED <<area, mapTotal, mode, m>>
        /\ ~Clearing /\ ~Clearing' /\ ~Recovering'
    BY <1>5 DEF Unit, Ended, WriteOut, UpdateLength, mapped, Clearing, Recovering
  <2> QED
    BY <2>1, QuietTorn
<1>6. CASE Dest
  <2>1. /\ pc = "dest" /\ pc' = "put" /\ UNCHANGED <<area, mapTotal, mode, ret>>
        /\ ~Clearing /\ ~Clearing' /\ (Recovering' <=> Recovering)
    BY <1>6 DEF Dest, mapped, Clearing, Recovering
  <2>3. m.is_open_ok \/ m.total_len <= 1 \/ Recovering
    BY <1>0, <2>1 DEF TornInv, RecoveryInv
  <2>2. /\ m'.total_len = m.total_len /\ m'.hp = m.hp /\ m'.zlib = m.zlib /\ m'.is_open_ok = m.is_open_ok
    BY <1>6, DestKeeps
  <2> QED
    BY <2>1, <2>2, <2>3, QuietTorn, Zenon
<1>7. CASE PutOut
  BY <1>0, <1>7, QuietTorn DEF PutOut, mapped, Clearing, Recovering, ModelType
<1> QED
  BY <1>1, <1>2, <1>3, <1>4, <1>5, <1>6, <1>7

\* Cells that are no headers, put behind the unit being written
LEMMA GrownTorn ==
  ASSUME CoreInv, UnitInv, FrameInv, TornInv, [Steps]_vars, NEW S, Grown(S), NEW all, Laid(all), \A c \in S : ~IsHeader(c),
         m.is_open_ok, ~Clearing, pc \notin {"down", "total", "len"}, pc' = "total", ~Clearing',
         UNCHANGED <<mapTotal, mode>>, m'.hp = m.hp,
         m'.zlib = "END" => area'[m'.total_len] = End
  PROVE  TornInv'
<1> DEFINE n == m.total_len
           k == m'.total_len
<1>1. /\ n \in Nat /\ k \in Nat /\ n <= k /\ n <= Len(area) /\ Len(area) \in Nat
      /\ Len(area) <= Len(area') /\ k <= Len(area') /\ Len(area') \in Nat /\ mapTotal \in Nat
      /\ m.hp \in 1..n /\ m'.is_open_ok = m.is_open_ok
  BY Model, CellLengths, UnitIs, LenProperties DEF Grown, FrameInv, BufferOK, ModelType
<1>2. /\ \A i \in 1..Len(area) : area[i][2] \in Nat
      /\ IsHeader(area[m.hp]) /\ (\A i \in (m.hp + 1)..n : ~IsHeader(area[i])) /\ Clean(area, n)
      /\ LiveTorn \subseteq {m.hp}
  BY <1>1, CellLengths, Prefixes DEF FrameInv, BufferOK, AreaOK, UnitOK, TornInv, OpenTorn
<1>3. \A i \in 1..Len(area') :
         \/ i > n /\ area'[i] \in S
         \/ /\ i \in 1..Len(area) /\ (i <= n \/ i > k)
            /\ area'[i] = area[i]
  BY DEF Grown
<1> HIDE DEF n, k
<1>4. /\ \A i \in 1..n : area'[i] = area[i] /\ area[i][2] \in Nat
      /\ \A i \in (n + 1)..k : ~IsHeader(area'[i])
  BY <1>1, <1>2, <1>3
<1>5. HeadFirst'
  BY <1>1, <1>4 DEF TornInv, HeadFirst
<1>6. OpenTorn'
  BY <1>1, <1>2, <1>4, TornLonger DEF LiveTorn, n, OpenTorn, k
<1>7. RecoveryInv' /\ ~Recovering'
  BY <1>1 DEF RecoveryInv, Recovering
<1>8. MappedBound'
  <2> SUFFICES ASSUME mode = "MMAP" PROVE MappedTorn' \ {1} \subseteq MappedTorn \ {1}
    BY BoundNext
  <2>1. mapTotal <= Len(area) /\ (mapTotal <= n \/ n <= 1)
    BY DEF CoreInv, LenInv, FrameInv, BufferOK, SyncOK, n
  <2>2. CASE mapTotal <= n
    BY <1>1, <1>4, <2>2, SameTorn DEF MappedTorn
  <2>3. CASE n <= 1
    <3>1. \A i \in 2..mapTotal : (area'[i] = area[i] /\ i > k) \/ (i <= k /\ ~IsHeader(area'[i]))
      <4>1. \A i \in 1..Len(area') : area'[i] = area[i] \/ i <= k
        BY <1>1 DEF Laid, n, k
      <4> QED
        BY <1>1, <1>4, <2>1, <2>3, <4>1
    <3>2. \A i \in 1..mapTotal : area'[i][2] \in Nat
      BY <1>1, <2>1, ElementOfSeq, LengthsAre DEF Grown
    <3>3. TornTo(area', mapTotal) \ {1} \subseteq TornTo(area, mapTotal) \ {1}
      BY <1>1, <3>1, <3>2, TornTail
    <3> QED
      BY <3>3 DEF MappedTorn
  <2> QED
    BY <2>1, <2>2, <2>3
<1> QED
  BY <1>5, <1>6, <1>7, <1>8, TornNext

LEMMA FeedTorn ==
  ASSUME CoreInv, UnitInv, FrameInv, TornInv, [Steps]_vars,
         Compress \/ (Flush /\ m.zlib = "ING") \/ (Unit /\ pc' = "total")
  PROVE  TornInv'
<1>0. BufferOK
  BY DEF FrameInv
<1>1. CASE Compress
  <2>1. /\ pc = "compress" /\ pc' = "total" /\ after' = "unit" /\ m.is_open_ok /\ ~Clearing
        /\ UNCHANGED <<mapTotal, mode>> /\ last \in Lines /\ m'.zlib = "ING"
    BY <1>0, <1>1, CompressBuffer
  <2>2. PICK c \in CSizes : /\ Grown(CellsIn(m.remain) \cup CellsIn(Out(c)))
                            /\ Moved(CellsIn(m.remain) \cup CellsIn(Out(c)))
                            /\ Laid(m.remain \o Out(c))
    BY <1>0, <1>1, CompressBuffer
  <2> DEFINE S == CellsIn(m.remain) \cup CellsIn(Out(c))
  <2>3. \A x \in S : ~IsHeader(x)
    BY <1>0, <2>1, OutIs DEF BufferOK, UnitOK, IsHeader
  <2>4. m'.hp = m.hp
    BY <2>2 DEF Moved
  <2>5. ~Clearing'
    BY <2>1 DEF Clearing
  <2> HIDE DEF S
  <2>6. Grown(S)
    BY <2>2 DEF S
  <2> QED
    BY <2>1, <2>2, <2>3, <2>4, <2>5, <2>6, GrownTorn
<1>2. CASE (Flush /\ m.zlib = "ING") \/ (Unit /\ pc' = "total")
  <2>1. /\ pc \notin {"down", "total", "len"} /\ pc' = "total" /\ after' \in {"flushed", "ended"}
        /\ m.is_open_ok /\ ~Clearing /\ Grown(CellsIn(m.remain) \cup {Pad, End}) /\ Moved(CellsIn(m.remain))
        /\ UNCHANGED <<mapTotal, mode>> /\ area'[m'.total_len] = End /\ Laid(m.remain)
    BY <1>0, <1>2, EndUnitBuffer
  <2> DEFINE S == CellsIn(m.remain) \cup {Pad, End}
  <2>2. \A x \in S : ~IsHeader(x)
    BY <1>0, CellsAre DEF BufferOK, UnitOK, IsHeader
  <2>3. m'.hp = m.hp
    BY <2>1 DEF Moved
  <2>4. ~Clearing'
    BY <2>1 DEF Clearing
  <2> HIDE DEF S
  <2>5. Grown(S)
    BY <2>1 DEF S
  <2> QED
    BY <2>1, <2>2, <2>3, <2>4, <2>5, GrownTorn
<1> QED
  BY <1>1, <1>2

LEMMA TotalTorn ==
  ASSUME CoreInv, UnitInv, FrameInv, TornInv, [Steps]_vars, Total
  PROVE  TornInv'
<1>1. /\ m' = m /\ pc' = "len" /\ after' = after /\ pc = "total" /\ UNCHANGED mode
      /\ mode = "MMAP" => mapTotal' = m.total_len
      /\ area' \in Seq(Cell) /\ Len(area') \in Nat
      /\ m.total_len <= Len(area') /\ Len(area') >= 1 /\ Len(area') <= Len(area)
      /\ \A i \in 1..Len(area') : area'[i] = area[i]
  BY TotalBuffer, LenProperties DEF FrameInv
<1>2. /\ m.total_len \in Nat /\ (\A i \in 1..Len(area) : area[i][2] \in Nat) /\ Len(area) \in Nat
  BY Model, CellLengths
<1>3. LiveTorn' = LiveTorn
  <2>1. \A i \in 1..m.total_len : area[i] = area'[i] /\ area[i][2] \in Nat
    BY <1>1, <1>2
  <2>2. TornTo(area', m.total_len) = TornTo(area, m.total_len)
    BY <1>2, <2>1, SameTorn
  <2> QED
    BY <1>1, <2>2 DEF LiveTorn
<1>4. HeadFirst'
  BY <1>1, <1>2 DEF TornInv, HeadFirst
<1>5. Clearing' <=> Clearing
  BY <1>1 DEF Clearing
<1>6. OpenTorn'
  BY <1>1, <1>2, <1>3, <1>5 DEF TornInv, OpenTorn, UnitInv
<1>7. RecoveryInv' /\ ~Recovering'
  BY <1>1 DEF TornInv, RecoveryInv, Recovering
<1>8. MappedBound'
  <2> SUFFICES ASSUME mode = "MMAP" PROVE MappedTorn' \subseteq {m'.hp}
    BY <1>1 DEF MappedBound
  <2>1. MappedTorn' = LiveTorn
    BY <1>1, <1>3 DEF MappedTorn, LiveTorn
  <2>2. m.is_open_ok \/ Clearing
    BY <1>1 DEF FrameInv, BufferOK, StageOK
  <2>3. CASE m.is_open_ok /\ ~Clearing
    BY <1>1, <2>1, <2>3 DEF TornInv, OpenTorn
  <2>4. CASE Clearing
    BY <2>1, <2>4, SmallNotTorn DEF UnitInv, LiveTorn
  <2> QED
    BY <2>2, <2>3, <2>4
<1> QED
  BY <1>1, <1>4, <1>6, <1>7, <1>8, TornNext

LEMMA LengthTorn ==
  ASSUME CoreInv, UnitInv, FrameInv, TornInv, [Steps]_vars, CoreInv', UnitInv', FrameInv', Length
  PROVE  TornInv'
<1>1. /\ m' = m /\ pc = "len" /\ pc' \notin {"down", "total", "len"} /\ UNCHANGED <<mode, mapTotal>>
      /\ (Clearing' <=> Clearing) /\ area' \in Seq(Cell) /\ Len(area') = Len(area)
      /\ Clearing => area' = area
      /\ ~Clearing => m.is_open_ok /\ \A i \in (m.hp + 1)..m.total_len : area'[i] = area[i]
  BY LengthBuffer DEF FrameInv
<1>2. /\ m.total_len \in Nat /\ Len(area) \in Nat /\ m.total_len <= Len(area)
      /\ m.hp \in Nat /\ m.hp >= 1 /\ m.content_len \in Nat
  BY Model, CellLengths
<1>3. ~Recovering' /\ pc' # "clear"
  BY DEF Length, CoreInv, TypeOK, PhaseInv, FlushFor, Flushing, Clearing, FrameInv, BufferOK, StageOK,
     Recovering
<1>4. MappedTorn' = {} => MappedBound'
  BY CrashesAre, FS_EmptySet DEF TornInv, FilesTorn, MappedBound
<1>5. mode = "MMAP" => mapTotal = m.total_len
  BY <1>1 DEF FrameInv, BufferOK, SyncOK
<1>6. CASE Clearing
  <2>1. m.total_len = 0
    BY <1>6 DEF UnitInv
  <2>2. mode = "MMAP" => MappedTorn' = {}
    BY <1>1, <1>5, <2>1, SmallNotTorn DEF MappedTorn
  <2>3. MappedBound'
    BY <1>1, <1>4, <2>2 DEF MappedBound
  <2>4. HeadFirst' /\ OpenTorn' /\ RecoveryInv'
    BY <1>1, <1>3, <1>6, <2>1 DEF TornInv, HeadFirst, OpenTorn, RecoveryInv
  <2> QED
    BY <1>1, <1>3, <2>3, <2>4, TornNext
<1>7. CASE ~Clearing
  <2>1. m.is_open_ok /\ m.hp \in 1..m.total_len
    BY <1>1, <1>2, <1>7, UnitIs DEF FrameInv, BufferOK
  <2>2. /\ area'[m.hp] = Hdr(m.content_len) /\ IsHeader(area[m.hp]) /\ IsHeader(area'[m.hp])
        /\ \A i \in 1..Len(area) : i # m.hp => area'[i] = area[i]
        /\ LiveTorn \subseteq {m.hp} /\ (m.zlib = "END" => area[m.total_len] = End)
    <3>1. /\ area' = [area EXCEPT ![m.hp] = Hdr(m.content_len)] /\ DOMAIN area = 1..Len(area)
          /\ m.hp \in 1..Len(area)
      BY <1>2, <2>1, Model DEF Length
    <3>2. IsHeader(Hdr(m.content_len))
      BY DEF Hdr, IsHeader
    <3>3. IsHeader(area[m.hp])
      BY <1>7, <2>1 DEF FrameInv, BufferOK, UnitOK
    <3>4. LiveTorn \subseteq {m.hp} /\ (m.zlib = "END" => area[m.total_len] = End)
      BY <1>7, <2>1 DEF TornInv, OpenTorn
    <3> QED
      BY <3>1, <3>2, <3>3, <3>4
  <2>3. \A i \in 1..m.total_len : area'[i][2] \in Nat
    BY <1>1, <1>2, ElementOfSeq, LengthsAre
  <2>4. LiveTorn' \subseteq {m.hp}
    <3>1. TornTo(area', m.total_len) \subseteq TornTo(area, m.total_len) \cup {m.hp}
      <4>1. \A i \in 1..m.total_len : i # m.hp => area'[i] = area[i]
        BY <1>2, <2>2
      <4> QED
        BY <1>2, <2>1, <2>2, <2>3, <4>1, TornLength
    <3> QED
      BY <1>1, <2>2, <3>1 DEF LiveTorn
  <2>5. HeadFirst'
    BY <1>1, <2>2 DEF TornInv, HeadFirst
  <2>6. OpenTorn'
    <3>1. ASSUME m.zlib = "END" PROVE area'[m.total_len] = End
      BY <1>2, <2>1, <2>2, <3>1, TailIs
    <3> QED
      BY <1>1, <2>4, <3>1 DEF OpenTorn
  <2>7. RecoveryInv'
    BY <1>1, <1>3, <2>1 DEF RecoveryInv
  <2>8. LiveTorn' = {}
    BY <1>1, <1>7, <2>1, <2>6, OpenWholeNext DEF FrameInv, BufferOK
  <2>9. mode = "MMAP" => MappedTorn' = {}
    BY <1>1, <1>5, <2>8 DEF MappedTorn, LiveTorn
  <2>10. MappedBound'
    BY <1>1, <1>4, <2>9 DEF MappedBound
  <2> QED
    BY <1>1, <1>3, <2>5, <2>6, <2>7, <2>10, TornNext
<1> QED
  BY <1>6, <1>7

\* Steps that leave the buffer empty, with or without a new header
LEMMA RestartTorn ==
  ASSUME CoreInv, UnitInv, FrameInv, TornInv, [Steps]_vars, pc \notin {"down", "len"}, pc' # "down",
         ~Recovering', UNCHANGED <<mapTotal, mode>>, area' = area \/ area' = PutAt(area, 0, <<Hdr(0)>>),
         m'.total_len \in {0, 1}, m'.total_len = 1 => area'[1] = Hdr(0),
         m'.is_open_ok => (m'.total_len = 1 /\ m'.zlib # "END") \/ Clearing'
  PROVE  TornInv'
<1>1. /\ \A i \in 1..Len(area) : area[i][2] \in Nat
      /\ Len(area) \in Nat /\ mapTotal \in Nat /\ area \in Seq(Cell)
      /\ mode = "MMAP" => mapTotal <= Len(area)
  BY Model, CellLengths DEF CoreInv, LenInv
<1>2. /\ area' \in Seq(Cell) /\ Len(area') \in Nat /\ Len(area') >= Len(area)
      /\ \A i \in 2..Len(area) : area'[i] = area[i]
      /\ area' # area => area'[1] = Hdr(0)
  BY <1>1, HeaderPut
<1>3. HeadFirst'
  BY <1>1, <1>2, TailIs DEF TornInv, HeadFirst
<1>4. LiveTorn' = {}
  BY TailIs, SmallNotTorn DEF LiveTorn
<1>5. OpenTorn' /\ RecoveryInv'
  BY <1>4 DEF OpenTorn, RecoveryInv
<1>6. MappedBound'
  <2> SUFFICES ASSUME mode = "MMAP" PROVE MappedTorn' \ {1} \subseteq MappedTorn \ {1}
    BY BoundNext
  <2>1. \A i \in 1..mapTotal : area'[i][2] \in Nat
    BY <1>1, <1>2, ElementOfSeq, LengthsAre
  <2>2. \A i \in 2..mapTotal : (area'[i] = area[i] /\ i > 1) \/ (i <= 1 /\ ~IsHeader(area'[i]))
    BY <1>1, <1>2
  <2>3. TornTo(area', mapTotal) \ {1} \subseteq TornTo(area, mapTotal) \ {1}
    BY <1>1, <2>1, <2>2, TornTail
  <2> QED
    BY <2>3 DEF MappedTorn
<1> QED
  BY <1>3, <1>5, <1>6, TornNext

LEMMA ResetTorn ==
  ASSUME CoreInv, UnitInv, FrameInv, TornInv, [Steps]_vars, Clear \/ Cleared \/ Recovered \/ OpenFile
  PROVE  TornInv'
<1>1. CASE Clear
  BY <1>1, ClearBuffer, RestartTorn DEF FrameInv, Clear, Recovering, Clearing
<1>2. CASE Cleared
  <2>1. /\ pc = "cleared" /\ pc' = ret /\ UNCHANGED <<area, mapTotal, mode>> /\ m'.total_len = 1
        /\ pc' \in {"idle", "section", "open", "close"}
    BY <1>2, ClearedBuffer DEF FrameInv, CoreInv, TypeOK
  <2>2. area[1] = Hdr(0) /\ m.zlib # "END"
    BY <2>1 DEF FrameInv, BufferOK, AreaOK, UnitOK, Clearing
  <2>3. m'.zlib = m.zlib
    BY <1>2, Model DEF Cleared, ModelType
  <2>4. ~Recovering'
    BY <2>1 DEF Recovering
  <2> QED
    BY <2>1, <2>2, <2>3, <2>4, RestartTorn
<1>3. CASE Recovered
  BY <1>3, Model, RestartTorn DEF Recovered, mapped, CoreInv, PhaseInv, ModelType, Recovering
<1>4. CASE OpenFile
  <2>1. /\ pc = "open" /\ pc' = "idle" /\ arg \in Names /\ UNCHANGED <<mapTotal, mode>>
    BY <1>4, OpenFileBuffer DEF FrameInv
  <2>2. ~Recovering'
    BY <2>1 DEF Recovering
  <2>3. CASE area' = PutAt(area, 0, <<Hdr(0)>>) /\ m' = [Opened(m, arg) EXCEPT !.zlib = "INIT", !.total_len = 1,
                                                                       !.hp = 1, !.is_open_ok = TRUE]
    <3>1. Opened(m, arg) \in ModelType
      BY <2>1, Model, OpenedIs DEF CoreInv
    <3>2. m'.total_len = 1 /\ m'.zlib = "INIT"
      BY <2>3, <3>1 DEF ModelType
    <3>3. area'[1] = Hdr(0)
      BY <2>3, Model, HeaderPut
    <3> QED
      BY <2>1, <2>2, <2>3, <3>2, <3>3, RestartTorn
  <2>4. CASE area' = area /\ m' = [m EXCEPT !.path = arg, !.stream = "NONE", !.total_len = 0, !.is_open_ok = FALSE]
    BY <2>1, <2>2, <2>4, Model, RestartTorn DEF ModelType
  <2> QED
    BY <1>4, <2>3, <2>4 DEF OpenFile
<1> QED
  BY <1>1, <1>2, <1>3, <1>4

LEMMA EndedTorn ==
  ASSUME CoreInv, UnitInv, FrameInv, TornInv, [Steps]_vars, Ended, pc' # "flush"
  PROVE  TornInv'
<1> DEFINE n == m.total_len
<1>1. /\ pc = "ended" /\ pc' = "section" /\ UNCHANGED <<mapTotal, mode>> /\ m'.total_len = n + 1
      /\ \A i \in 1..n : area'[i] = area[i]
  BY EndedBuffer DEF FrameInv
<1>2. m' = [m EXCEPT !.content_len = 0, !.remain = <<>>, !.zlib = "INIT", !.hp = n + 1, !.total_len = @ + 1]
      /\ area' = PutAt(area, n, <<Hdr(0)>>)
  BY <1>1 DEF Ended, WriteOut
<1>3. /\ m \in ModelType /\ n \in Nat /\ n <= Len(area) /\ m.is_open_ok /\ ~Clearing /\ n >= 1 /\ Len(area) \in Nat
      /\ \A i \in 1..n : area[i][2] \in Nat
  <2>1. m.is_open_ok /\ ~Clearing
    BY <1>1 DEF Clearing, CoreInv, PhaseInv, Writing
  <2>2. m \in ModelType /\ n \in Nat /\ n <= Len(area) /\ Len(area) \in Nat
    BY Model
  <2>3. n >= 1
    BY <2>1 DEF UnitInv
  <2>4. \A i \in 1..n : area[i][2] \in Nat
    BY <2>2, CellLengths
  <2> QED
    BY <2>1, <2>2, <2>3, <2>4
<1>4. m'.hp = n + 1 /\ m'.zlib = "INIT" /\ m'.is_open_ok = m.is_open_ok
  BY <1>2, <1>3 DEF ModelType
<1>5. LiveTorn = {}
  BY <1>1, <1>3, OpenWhole DEF FrameInv, BufferOK, TornInv
<1>6. area'[n + 1] = Hdr(0)
  BY <1>2, <1>3, HeaderPut
<1>7. LiveTorn' = {}
  BY <1>1, <1>3, <1>5, <1>6, TornHeader DEF LiveTorn
<1>8. HeadFirst'
  BY <1>1, <1>3 DEF TornInv, HeadFirst
<1>9. OpenTorn' /\ RecoveryInv' /\ ~Recovering'
  BY <1>1, <1>3, <1>4, <1>7 DEF OpenTorn, RecoveryInv, Recovering
<1>10. MappedBound'
  <2> SUFFICES ASSUME mode = "MMAP" PROVE MappedTorn' \ {1} \subseteq MappedTorn \ {1}
    BY <1>1, BoundNext
  <2>1. mapTotal = n
    BY <1>1 DEF FrameInv, BufferOK, SyncOK
  <2>2. TornTo(area, n) = TornTo(area', n)
    BY <1>1, <1>3, SameTorn
  <2> QED
    BY <1>1, <2>1, <2>2 DEF MappedTorn
<1> QED
  BY <1>1, <1>8, <1>9, <1>10, TornNext

\* The next process begins to write what the mapped buffer holds.
LEMMA InitCallTorn ==
  ASSUME CoreInv, UnitInv, FrameInv, TornInv, [Steps]_vars, clogan_init
  PROVE  TornInv'
<1>1. /\ pc = "down" /\ pc' \in {"flush", "idle"} /\ UNCHANGED <<area, mapTotal>> /\ ~Clearing'
      /\ pc' = "flush" => m'.total_len = mapTotal
      /\ pc' = "idle" => m'.total_len = 0
  BY InitCallBuffer DEF FrameInv
<1>2. pc' = "flush" => ret' = "close"
  BY DEF clogan_init
<1>3. ~m'.is_open_ok
  <2>1. CASE m' = Fresh
    BY <2>1, FreshIs
  <2>2. CASE mapName # None /\ m' = [Opened(Fresh, mapName) EXCEPT !.total_len = mapTotal]
    <3>1. mapName \in Names \cup {None}
      BY DEF CoreInv, TypeOK
    <3>2. Opened(Fresh, mapName) \in ModelType /\ Opened(Fresh, mapName).is_open_ok = FALSE
      BY <3>1, FreshIs, OpenedIs DEF CoreInv
    <3> QED
      BY <2>2, <3>2 DEF ModelType
  <2> QED
    BY <2>1, <2>2 DEF clogan_init
<1>4. /\ Crashes' = Crashes /\ left'["crash"] <= Budget["crash"] /\ Crashes \in Nat
  <2>1. ~Crash
    BY <1>1 DEF Crash
  <2> QED
    BY <2>1, CrashesAre DEF TornInv, FilesTorn
<1>5. /\ IsFiniteSet(TornUnits') /\ Cardinality(TornUnits') <= Tri(Crashes)
      /\ Cardinality(TornUnits') = Cardinality(TornUnits)
  <2>1. ~PutOut
    BY <1>1 DEF PutOut
  <2> QED
    BY <2>1, TornUnitsNext
<1>6. MappedTorn' = MappedTorn
  BY <1>1 DEF MappedTorn
<1>7. /\ Cardinality(MappedTorn) <= Crashes
      /\ Cardinality(TornUnits) + Cardinality(MappedTorn) <= Tri(Crashes)
  BY <1>1 DEF TornInv, FilesTorn
<1>8. FilesTorn'
  BY <1>4, <1>5, <1>6, <1>7 DEF FilesTorn
<1>9. MappedBound'
  BY <1>4, <1>6, <1>7, MappedCount DEF MappedBound
<1>10. HeadFirst' /\ OpenTorn' /\ RecoveryInv'
  BY <1>1, <1>2, <1>3 DEF TornInv, HeadFirst, OpenTorn, RecoveryInv, Recovering
<1> QED
  BY <1>8, <1>9, <1>10 DEF TornInv

LEMMA WriteTorn ==
  ASSUME CoreInv, UnitInv, FrameInv, TornInv, [Steps]_vars, clogan_write
  PROVE  TornInv'
<1> DEFINE mm == IF Exists(m.path) THEN m ELSE Opened(m, m.path)
<1>1. /\ pc = "idle" /\ pc' = "compress" /\ m.is_open_ok /\ UNCHANGED mapTotal
      /\ ~Clearing /\ ~Clearing' /\ ~Recovering'
  BY WriteBuffer DEF FrameInv, Clearing, Recovering
<1>2. /\ mm \in ModelType /\ mm.total_len = m.total_len /\ mm.hp = m.hp /\ mm.zlib = m.zlib
      /\ mm.is_open_ok = m.is_open_ok
  BY Model, OpenedKeeps DEF ModelType, CoreInv
<1>3. CASE /\ mode' = "MEMORY" /\ area' = <<Hdr(0)>>
           /\ m' = [mm EXCEPT !.total_len = 1, !.content_len = 0, !.remain = <<>>, !.hp = 1, !.zlib = "INIT"]
  <2>1. m'.total_len = 1 /\ m'.zlib = "INIT" /\ m'.is_open_ok
    <3> HIDE DEF mm
    <3> QED
      BY <1>1, <1>2, <1>3 DEF ModelType
  <2>2. area'[1] = Hdr(0) /\ Len(area') = 1
    BY <1>3
  <2>3. LiveTorn' = {}
    BY <2>1, <2>2, TailIs, SmallNotTorn DEF LiveTorn
  <2>4. HeadFirst' /\ OpenTorn' /\ RecoveryInv' /\ MappedBound'
    BY <1>1, <1>3, <2>1, <2>2, <2>3, TailIs DEF HeadFirst, OpenTorn, RecoveryInv, MappedBound
  <2> QED
    BY <1>1, <2>4, TornNext
<1>4. CASE m' = mm /\ UNCHANGED <<mode, area>>
  BY <1>1, <1>2, <1>4, QuietTorn
<1> QED
  BY <1>3, <1>4 DEF clogan_write

\* A crash leaves at most one unit more torn than there were.
LEMMA CrashTorn ==
  ASSUME CoreInv, UnitInv, FrameInv, TornInv, [Steps]_vars, Crash
  PROVE  TornInv'
<1>1. /\ pc # "down" /\ pc' = "down" /\ m' = Fresh /\ m'.total_len = 0 /\ ~m'.is_open_ok
      /\ UNCHANGED mode
  BY CrashBuffer, FreshIs DEF FrameInv
<1>2. /\ Crashes \in Nat /\ Crashes' = Crashes + 1 /\ left'["crash"] <= Budget["crash"]
  BY <1>1, CrashesAre DEF vars, ctl, TornInv, FilesTorn
<1>3. /\ IsFiniteSet(TornUnits') /\ Cardinality(TornUnits') = Cardinality(TornUnits)
      /\ Cardinality(TornUnits') <= Tri(Crashes) /\ Cardinality(TornUnits') \in Nat
  <2>1. ~PutOut
    BY DEF Crash, PutOut
  <2> QED
    BY <2>1, TornUnitsNext, FS_CardinalityType
<1>4. Tri(Crashes) \in Nat /\ Tri(Crashes + 1) = Tri(Crashes) + Crashes + 1
  BY <1>2, TriStep
<1>5. HeadFirst' /\ Cardinality(MappedTorn') <= Crashes + 1 /\ Cardinality(MappedTorn') \in Nat
  <2>1. CASE /\ mode = "MMAP" /\ area' = Upto(area, mapTotal) /\ mapTotal' = mapTotal
             /\ mapTotal <= Len(area)
    <3>1. /\ area \in Seq(Cell) /\ mapTotal \in Nat /\ Len(area') = mapTotal /\ Len(area) \in Nat
          /\ \A i \in 1..mapTotal : area'[i] = area[i] /\ area[i][2] \in Nat
      <4>1. area \in Seq(Cell) /\ mapTotal \in Nat /\ Len(area) \in Nat /\ \A i \in 1..Len(area) : area[i][2] \in Nat
        BY Model, CellLengths
      <4>2. Len(Upto(area, mapTotal)) = mapTotal /\ \A i \in 1..mapTotal : Upto(area, mapTotal)[i] = area[i]
        BY <2>1, <4>1, UptoIs
      <4> QED
        BY <2>1, <4>1, <4>2
    <3>2. HeadFirst'
      BY <2>1, <3>1 DEF TornInv, HeadFirst
    <3>3. MappedTorn' = MappedTorn
      BY <2>1, <3>1, SameTorn DEF MappedTorn
    <3>4. CASE Cardinality(MappedTorn \ {1}) <= Crashes
      BY <1>2, <3>2, <3>3, <3>4, MappedCount
    <3>5. CASE MappedTorn \subseteq {m.hp}
      <4>1. Cardinality(MappedTorn) <= 1
        <5>1. IsFiniteSet({m.hp}) /\ Cardinality({m.hp}) = 1
          BY FS_Singleton
        <5>2. MappedTorn \in SUBSET {m.hp}
          BY <3>5
        <5>3. Cardinality(MappedTorn) <= Cardinality({m.hp})
          BY <5>1, <5>2, FS_Subset
        <5> QED
          BY <5>1, <5>3
      <4> QED
        BY <1>2, <3>2, <3>3, <4>1, MappedCount
    <3> QED
      BY <1>1, <2>1, <3>4, <3>5 DEF TornInv, MappedBound
  <2>2. CASE area' = <<>> /\ mapTotal' = 0
    <3>1. TornTo(area', 0) = {}
      BY SmallNotTorn
    <3>2. MappedTorn' = {}
      BY <2>2, <3>1 DEF MappedTorn
    <3> QED
      BY <1>2, <2>2, <3>2, FS_EmptySet DEF HeadFirst
  <2> QED
    BY <2>1, <2>2, CrashBuffer DEF FrameInv
<1>6. FilesTorn'
  BY <1>2, <1>3, <1>4, <1>5 DEF FilesTorn
<1>7. OpenTorn' /\ RecoveryInv' /\ MappedBound'
  BY <1>1 DEF OpenTorn, RecoveryInv, MappedBound, Recovering
<1> QED
  BY <1>5, <1>6, <1>7 DEF TornInv

LEMMA StutterTorn == TornInv /\ UNCHANGED vars => TornInv'
<1> SUFFICES ASSUME TornInv, UNCHANGED vars PROVE TornInv'
  OBVIOUS
<1>1. UNCHANGED <<files, away, area, mapTotal, mode, m, pc, after, ret, left>>
  BY DEF vars, disk, mapped, ctl
<1>2. TornUnits' = TornUnits /\ Crashes' = Crashes
  BY <1>1 DEF TornUnits, Written, Cells, Exists, Crashes
<1>3. HeadFirst' /\ OpenTorn'
  BY <1>1 DEF TornInv, HeadFirst, OpenTorn, LiveTorn, Clearing
<1>4. RecoveryInv' /\ MappedBound'
  BY <1>1, <1>2 DEF TornInv, RecoveryInv, MappedBound, Recovering, MappedTorn
<1>5. FilesTorn'
  BY <1>1, <1>2 DEF TornInv, FilesTorn, Recovering, MappedTorn
<1> QED
  BY <1>3, <1>4, <1>5 DEF TornInv

LEMMA NextTorn ==
  CoreInv /\ UnitInv /\ FrameInv /\ TornInv /\ [Steps]_vars /\ CoreInv' /\ UnitInv' /\ FrameInv' => TornInv'
<1> SUFFICES ASSUME CoreInv, UnitInv, FrameInv, TornInv, [Steps]_vars, CoreInv', UnitInv', FrameInv'
             PROVE  TornInv'
  OBVIOUS
<1>1. CASE UNCHANGED vars
  BY <1>1, StutterTorn
<1>2. CASE Call
  BY <1>2, InitCallTorn, WriteTorn, ControlTorn DEF Call
<1>3. CASE Recovered \/ OpenFile \/ Clear \/ Cleared
  BY <1>3, ResetTorn
<1>4. CASE Compress \/ Flush \/ Unit
  BY <1>4, FeedTorn, ControlTorn
<1>5. CASE Total \/ Length \/ Ended \/ Crash
  BY <1>5, TotalTorn, LengthTorn, EndedTorn, ControlTorn, CrashTorn
<1>6. CASE Section \/ Flushed \/ Dest \/ PutOut \/ Unmap \/ (\E p \in Names : MoveAway(p))
  BY <1>6, ControlTorn
<1> QED
  BY <1>1, <1>2, <1>3, <1>4, <1>5, <1>6 DEF Steps

LEMMA InitTorn == Init => TornInv
<1> SUFFICES ASSUME Init PROVE TornInv
  OBVIOUS
<1>1. /\ area = <<>> /\ Len(area) = 0 /\ m.total_len = 0 /\ ~m.is_open_ok /\ pc = "down" /\ mapTotal = 0
      /\ Crashes = 0 /\ left["crash"] <= Budget["crash"]
  BY CLoganAssumption, FreshIs DEF Events, Init, Crashes
<1>2. TornUnits = {}
  <2>1. ASSUME NEW p \in Names PROVE Torn(Written(p)) = {}
    <3>1. Written(p) = <<>> \o <<>> /\ <<>> \in Seq(Cell)
      BY DEF Init, Written, Cells, Exists
    <3>2. Written(p) = <<>> /\ Len(<<>>) = 0
      BY <3>1
    <3>3. Torn(<<>>) = TornTo(<<>>, 0)
      BY <3>1, <3>2, TornIs
    <3> QED
      BY <3>2, <3>3, SmallNotTorn
  <2> QED
    BY <2>1 DEF TornUnits
<1>3. MappedTorn = {}
  BY <1>1, SmallNotTorn DEF MappedTorn
<1>4. FilesTorn
  BY <1>1, <1>2, <1>3, TriStep, FS_EmptySet DEF FilesTorn
<1> QED
  BY <1>1, <1>4 DEF TornInv, HeadFirst, OpenTorn, RecoveryInv, MappedBound

-------------------------------------------------------------------------------
(* How often a line is in the files *)

HadNext(c) == c[1] = "data" => c[2] \in Lines /\ c[3] \in 1..size'[c[2]]

LEMMA FewerCells ==
  ASSUME CellsOnce, size' = size,
         \A i \in 1..Len(area') : \/ i \in 1..Len(area) /\ area'[i] = area[i]
                                  \/ area'[i][1] # "data",
         m'.remain = m.remain \/ m'.remain = <<>>
  PROVE  CellsOnce'
<1>1. \A i \in 1..Len(area') : HadNext(area'[i])
  BY DEF CellsOnce, Had, HadNext
<1>2. \A i \in 1..Len(m'.remain) : m'.remain = m.remain
  OBVIOUS
<1>3. \A i \in 1..Len(m'.remain) : HadNext(m'.remain[i])
  BY <1>2 DEF CellsOnce, Had, HadNext
<1>4. Apart(area)'
  BY DEF CellsOnce, Apart
<1>5. Apart(m.remain)'
  BY <1>2 DEF CellsOnce, Apart
<1>6. NoneOf(area, m.remain)'
  BY <1>2 DEF CellsOnce, NoneOf
<1> QED
  BY <1>1, <1>3, <1>4, <1>5, <1>6 DEF CellsOnce, Had, HadNext

LEMMA MoreCells ==
  ASSUME m.total_len \in Nat, m'.total_len \in Nat, CellsOnce, NEW all, Laid(all), Apart(all),
         NoneOf(area, all), \A i \in 1..Len(all) : HadNext(all[i]), \A c : Had(c) => HadNext(c)
  PROVE  CellsOnce'
<1> DEFINE a == m.total_len
           n == m'.total_len - a
           r == m'.remain
<1>1. a \in Nat /\ n \in Int
  OBVIOUS
<1>2. /\ \A i \in 1..Len(area') : \/ i \in 1..Len(area) /\ area'[i] = area[i]
                                 \/ area'[i][1] # "data"
                                 \/ /\ i - a \in 1..n /\ i - a \in 1..Len(all)
                                    /\ area'[i] = all[i - a]
      /\ \A i \in 1..Len(r) : n + i \in 1..Len(all) /\ r[i] = all[n + i]
  BY DEF Laid
<1> HIDE DEF a, n, r
<1>3. \A i \in 1..Len(area') : HadNext(area'[i])
  <2> SUFFICES ASSUME NEW i \in 1..Len(area') PROVE HadNext(area'[i])
    OBVIOUS
  <2>1. CASE i \in 1..Len(area) /\ area'[i] = area[i]
    BY <2>1 DEF CellsOnce
  <2>2. CASE area'[i][1] # "data"
    BY <2>2 DEF HadNext
  <2>3. CASE i - a \in 1..Len(all) /\ area'[i] = all[i - a]
    BY <2>3
  <2> QED
    BY <1>2, <2>1, <2>2, <2>3
<1>4. \A i \in 1..Len(r) : HadNext(r[i])
  BY <1>2
<1>5. ASSUME NEW i \in 1..Len(area'), NEW j \in 1..Len(area'), area'[i] = area'[j], area'[i][1] = "data"
      PROVE  i = j
  <2>1. CASE i \in 1..Len(area) /\ area'[i] = area[i] /\ j \in 1..Len(area) /\ area'[j] = area[j]
    BY <1>5, <2>1 DEF CellsOnce, Apart
  <2>2. CASE /\ i - a \in 1..Len(all) /\ area'[i] = all[i - a]
             /\ j - a \in 1..Len(all) /\ area'[j] = all[j - a]
    <3>1. i - a = j - a
      BY <1>5, <2>2 DEF Apart
    <3> QED
      BY <1>1, <3>1
  <2>3. CASE i \in 1..Len(area) /\ area'[i] = area[i] /\ j - a \in 1..Len(all) /\ area'[j] = all[j - a]
    BY <1>5, <2>3 DEF NoneOf
  <2>4. CASE j \in 1..Len(area) /\ area'[j] = area[j] /\ i - a \in 1..Len(all) /\ area'[i] = all[i - a]
    BY <1>5, <2>4 DEF NoneOf
  <2> QED
    BY <1>2, <1>5, <2>1, <2>2, <2>3, <2>4
<1>6. ASSUME NEW i \in 1..Len(r), NEW j \in 1..Len(r), r[i] = r[j], r[i][1] = "data"
      PROVE  i = j
  <2>1. /\ n + i \in 1..Len(all) /\ n + j \in 1..Len(all)
        /\ all[n + i] = all[n + j] /\ all[n + i][1] = "data"
    BY <1>2, <1>6
  <2>2. n + i = n + j
    BY <2>1 DEF Apart
  <2>3. i \in Int /\ j \in Int
    BY <1>6
  <2> QED
    BY <1>1, <2>2, <2>3
<1>7. ASSUME NEW i \in 1..Len(area'), NEW j \in 1..Len(r), area'[i] = r[j]
      PROVE  area'[i][1] # "data"
  <2>1. n + j \in 1..Len(all) /\ r[j] = all[n + j]
    BY <1>2
  <2>2. CASE i \in 1..Len(area) /\ area'[i] = area[i]
    BY <1>7, <2>1, <2>2 DEF NoneOf
  <2>3. CASE i - a \in 1..n /\ i - a \in 1..Len(all) /\ area'[i] = all[i - a]
    <3> SUFFICES ASSUME area'[i][1] = "data" PROVE FALSE
      OBVIOUS
    <3>1. i - a = n + j
      BY <1>7, <2>1, <2>3 DEF Apart
    <3> QED
      BY <1>1, <2>3, <3>1
  <2> QED
    BY <1>2, <2>2, <2>3
<1>8. /\ \A i \in 1..Len(area') : HadNext(area'[i])
      /\ \A i \in 1..Len(m'.remain) : HadNext(m'.remain[i])
  BY <1>3, <1>4 DEF r
<1>9. Apart(area)' /\ Apart(m.remain)' /\ NoneOf(area, m.remain)'
  BY <1>5, <1>6, <1>7 DEF Apart, NoneOf, r
<1> QED
  BY <1>8, <1>9 DEF CellsOnce, Had, HadNext

LEMMA ApartConcat ==
  ASSUME NEW s \in Seq(Cell), NEW t \in Seq(Cell), Apart(s), Apart(t), NoneOf(s, t)
  PROVE  /\ Apart(s \o t)
         /\ \A u : NoneOf(u, s) /\ NoneOf(u, t) => NoneOf(u, s \o t)
<1> DEFINE v == s \o t
           a == Len(s)
           b == Len(t)
<1>1. a \in Nat /\ b \in Nat /\ Len(v) = a + b
      /\ (\A i \in 1..a : v[i] = s[i]) /\ (\A i \in 1..b : v[a + i] = t[i])
  BY ConcatIs
<1> HIDE DEF v, a, b
<1>2. \A i \in 1..(a + b) : \/ i \in 1..a /\ v[i] = s[i]
                           \/ /\ i - a \in 1..b
                              /\ v[i] = t[i - a]
  BY <1>1
<1>3. ASSUME NEW i \in 1..Len(v), NEW j \in 1..Len(v), v[i] = v[j], v[i][1] = "data" PROVE i = j
  <2>0. i \in 1..(a + b) /\ j \in 1..(a + b)
    BY <1>1
  <2>1. CASE i \in 1..a /\ v[i] = s[i] /\ j \in 1..a /\ v[j] = s[j]
    BY <1>3, <2>1 DEF Apart, a
  <2>2. CASE i - a \in 1..b /\ v[i] = t[i - a] /\ j - a \in 1..b /\ v[j] = t[j - a]
    <3>1. i - a = j - a
      BY <1>3, <2>2 DEF Apart, b
    <3> QED
      BY <1>1, <3>1
  <2>3. CASE i \in 1..a /\ v[i] = s[i] /\ j - a \in 1..b /\ v[j] = t[j - a]
    BY <1>3, <2>3 DEF NoneOf, a, b
  <2>4. CASE j \in 1..a /\ v[j] = s[j] /\ i - a \in 1..b /\ v[i] = t[i - a]
    BY <1>3, <2>4 DEF NoneOf, a, b
  <2> QED
    BY <1>2, <2>0, <2>1, <2>2, <2>3, <2>4
<1>4. ASSUME NEW u, NoneOf(u, s), NoneOf(u, t), NEW i \in 1..Len(u), NEW j \in 1..Len(v), u[i] = v[j]
      PROVE  u[i][1] # "data"
  <2>0. j \in 1..(a + b)
    BY <1>1
  <2>1. CASE j \in 1..a /\ v[j] = s[j]
    BY <1>4, <2>1 DEF NoneOf, a
  <2>2. CASE j - a \in 1..b /\ v[j] = t[j - a]
    BY <1>4, <2>2 DEF NoneOf, b
  <2> QED
    BY <1>2, <2>0, <2>1, <2>2
<1>5. Apart(v)
  BY <1>3 DEF Apart
<1>6. \A u : NoneOf(u, s) /\ NoneOf(u, t) => NoneOf(u, v)
  BY <1>4 DEF NoneOf
<1> QED
  BY <1>5, <1>6 DEF v

\* What deflate emits for a section is new, and there once.
LEMMA OutNew ==
  ASSUME CoreInv, last \in Lines, NEW c \in CSizes
  PROVE  /\ Apart(Out(c))
         /\ \A i \in 1..Len(Out(c)) :
               Out(c)[i][1] = "data" =>
                  Out(c)[i][2] = last /\ Out(c)[i][3] \in (size[last] + 1)..(size[last] + c)
<1> DEFINE g == IF m.zlib = "INIT" THEN GzHead ELSE 0
           d == [i \in 1..c |-> Data(last, size[last] + i)]
           o == Pads(g) \o d
           z == size[last]
<1>1. g \in Nat /\ c \in Nat /\ z \in Nat
  BY CLoganAssumption DEF CoreInv, TypeOK
<1>2. d \in Seq(Cell) /\ Len(d) = c
  <2>1. \A i \in 1..c : d[i] \in Cell
    BY <1>1, CellsAre
  <2>2. DOMAIN d = 1..c /\ d \in [1..c -> Cell]
    BY <2>1
  <2> HIDE DEF d
  <2> QED
    BY <1>1, <2>2
<1>3. \A i \in 1..c : d[i][1] = "data" /\ d[i][2] = last /\ d[i][3] = z + i
  BY DEF Data
<1> HIDE DEF g, d, z
<1>4. Pads(g) \in Seq(Cell) /\ Len(Pads(g)) = g /\ \A i \in 1..g : Pads(g)[i][1] = "pad"
  BY <1>1, PadsAre, CellsAre
<1>5. Apart(Pads(g))
  BY <1>4 DEF Apart
<1>6. Apart(d)
  <2> SUFFICES ASSUME NEW i \in 1..c, NEW j \in 1..c, d[i] = d[j] PROVE i = j
    BY <1>2 DEF Apart
  <2>1. z + i = z + j
    BY <1>3
  <2> QED
    BY <1>1, <2>1
<1>7. NoneOf(Pads(g), d)
  BY <1>4 DEF NoneOf
<1>8. Apart(o)
  BY <1>2, <1>4, <1>5, <1>6, <1>7, ApartConcat
<1>9. /\ Len(o) = g + c /\ (\A i \in 1..g : o[i] = Pads(g)[i]) /\ (\A i \in 1..c : o[g + i] = d[i])
  <2> DEFINE p == Pads(g)
  <2>1. p \in Seq(Cell) /\ Len(p) = g
    BY <1>4
  <2> HIDE DEF p
  <2>2. /\ Len(p \o d) = g + c /\ (\A i \in 1..g : (p \o d)[i] = p[i]) /\ (\A i \in 1..c : (p \o d)[g + i] = d[i])
    BY <1>2, <2>1, ConcatIs
  <2> QED
    BY <2>2 DEF p
<1> HIDE DEF o
<1>10. ASSUME NEW i \in 1..Len(o), o[i][1] = "data"
       PROVE  o[i][2] = last /\ o[i][3] \in (z + 1)..(z + c)
  <2>1. ~(i <= g)
    BY <1>1, <1>4, <1>9, <1>10
  <2>2. i - g \in 1..c /\ g + (i - g) = i
    BY <1>1, <1>9, <2>1
  <2>3. o[i] = d[i - g]
    BY <1>9, <2>2
  <2>4. o[i][2] = last /\ o[i][3] = z + (i - g)
    BY <1>3, <2>2, <2>3
  <2> QED
    BY <1>1, <2>2, <2>4
<1>11. Out(c) = o
  BY DEF Out, o, g, d
<1> QED
  BY <1>8, <1>10, <1>11 DEF z

\* What no file holds as yet
LEMMA NotWritten ==
  ASSUME CoreInv, FilesHome, NEW w \in Lines, NEW k, k \notin 1..size[w]
  PROVE  Copies(Data(w, k)) = {}
<1> SUFFICES ASSUME NEW p \in Names, NEW i \in DOMAIN Written(p), Written(p)[i] = Data(w, k)
             PROVE  FALSE
  BY DEF Copies
<1>1. Cells(p) \in Seq(Cell) /\ away[p] \in Seq(Cell) /\ (Exists(p) => Cells(p) = files[p])
      /\ (~Exists(p) => Cells(p) = <<>>)
  BY FileIs
<1>2. /\ \A j \in 1..Len(away[p]) : Of(away[p][j], p)
      /\ \A j \in 1..Len(Cells(p)) : Of(Cells(p)[j], p)
  BY <1>1 DEF FilesHome, AllOf
<1> DEFINE s == away[p]
           t == Cells(p)
<1>3. /\ s \o t \in Seq(Cell) /\ Len(s \o t) = Len(s) + Len(t)
      /\ \A j \in 1..(Len(s) + Len(t)) : (s \o t)[j] = IF j <= Len(s) THEN s[j] ELSE t[j - Len(s)]
      /\ Len(s) \in Nat /\ Len(t) \in Nat
  <2> HIDE DEF s, t
  <2>1. s \in Seq(Cell) /\ t \in Seq(Cell)
    BY <1>1 DEF s, t
  <2> QED
    BY <2>1, ConcatProperties, LenProperties
<1>4. i \in 1..(Len(s) + Len(t)) /\ (s \o t)[i] = Data(w, k)
  BY <1>3, LenProperties DEF Written
<1>5. \E c : c = Data(w, k) /\ Of(c, p)
  <2> HIDE DEF s, t
  <2>1. CASE i <= Len(s)
    BY <1>2, <1>3, <1>4, <2>1 DEF s
  <2>2. CASE ~(i <= Len(s))
    BY <1>2, <1>3, <1>4, <2>2 DEF t
  <2> QED
    BY <2>1, <2>2
<1> QED
  BY <1>5 DEF Of, Data

\* An append is all that adds copies, so if no more is ahead than was there is no more
\* than one, and one for each crash.
LEMMA CopiesNext ==
  ASSUME CoreInv, UnitInv, FrameInv, TornInv, CopiesBound, [Steps]_vars, ~PutOut,
         \A w \in Lines : \A k \in 1..size'[w] :
            \/ Copies(Data(w, k)) = {}
            \/ k \in 1..size[w] /\ (Data(w, k) \in Ahead' => Data(w, k) \in Ahead \/ (Crash /\ pc # "down"))
  PROVE  CopiesBound'
<1>1. /\ Crashes \in Nat /\ Crashes' \in Nat /\ Crashes' >= Crashes
      /\ Crash /\ pc # "down" => Crashes' = Crashes + 1
  BY CrashesAre DEF Crash, vars, ctl, TornInv, FilesTorn
<1> SUFFICES ASSUME NEW w \in Lines, NEW k \in 1..size'[w]
             PROVE  /\ IsFiniteSet(Copies(Data(w, k))')
                    /\ Cardinality(Copies(Data(w, k))') + (IF Data(w, k) \in Ahead' THEN 1 ELSE 0) <= 1 + Crashes'
  BY DEF CopiesBound
<1> DEFINE c == Data(w, k)
<1>2. c[1] = "data"
  BY DEF Data
<1>3. IsFiniteSet(TornUnits)
  BY DEF TornInv, FilesTorn
<1>4. IsFiniteSet(Copies(c)) =>
        /\ IsFiniteSet(Copies(c)') /\ Cardinality(Copies(c)') = Cardinality(Copies(c)) + 0
        /\ Cardinality(Copies(c)) \in Nat
  BY <1>2, <1>3, NextWritten, FS_CardinalityType DEF TornInv
<1> HIDE DEF c
<1>5. CASE Copies(c) = {}
  BY <1>1, <1>4, <1>5, FS_EmptySet DEF c
<1>6. CASE k \in 1..size[w] /\ (c \in Ahead' => c \in Ahead \/ (Crash /\ pc # "down"))
  BY <1>1, <1>4, <1>6 DEF CopiesBound, c
<1> QED
  BY <1>5, <1>6 DEF c

\* Steps that add nothing to the buffer but headers
LEMMA StepCopies ==
  ASSUME CoreInv, UnitInv, FrameInv, TornInv, CopyInv, [Steps]_vars, ~PutOut, size' = size, UnitInv', CoreInv',
         pc # "down", pc' # "down",
         \A i \in 1..Len(area') : \/ i \in 1..Len(area) /\ area'[i] = area[i]
                                  \/ area'[i][1] # "data",
         m'.total_len <= m.total_len \/ \A i \in (m.total_len + 1)..m'.total_len : area'[i][1] # "data",
         m'.remain = m.remain \/ m'.remain = <<>>,
         Clearing \/ pc = "clear" => Clearing' \/ (m'.total_len <= 1 /\ m'.remain = <<>>)
  PROVE  CopyInv'
<1>1. CellsOnce'
  BY FewerCells DEF CopyInv
<1>2. m.total_len \in Nat /\ m'.total_len \in Nat /\ m'.total_len <= Len(area')
  BY DEF CoreInv, TypeOK, LenInv
<1>3. ASSUME NEW w, NEW k, Data(w, k) \in Ahead' PROVE Data(w, k) \in Ahead
  <2> DEFINE c == Data(w, k)
  <2>1. c[1] = "data"
    BY DEF Data
  <2>2. ~Clearing' /\ pc' # "clear"
    BY <1>3 DEF Ahead
  <2> HIDE DEF c
  <2>3. \/ \E i \in 1..m'.total_len : c = area'[i]
        \/ \E i \in 1..Len(m'.remain) : c = m'.remain[i]
    BY <1>3, <2>2 DEF Ahead, c
  <2>4. CASE Clearing \/ pc = "clear"
    BY <1>2, <2>1, <2>2, <2>3, <2>4 DEF UnitInv
  <2>5. CASE ~Clearing /\ pc # "clear"
    <3>1. ASSUME NEW i \in 1..m'.total_len, c = area'[i] PROVE c \in {area[j] : j \in 1..m.total_len}
      <4>1. i \in 1..Len(area') /\ area'[i][1] = "data" /\ area'[i] = area[i]
        BY <1>2, <2>1, <3>1
      <4>2. i \in 1..m.total_len
        BY <1>2, <3>1, <4>1
      <4> QED
        BY <3>1, <4>1, <4>2
    <3>2. ASSUME NEW i \in 1..Len(m'.remain), c = m'.remain[i] PROVE c \in {m.remain[j] : j \in 1..Len(m.remain)}
      BY <3>2
    <3> QED
      BY <2>3, <2>5, <3>1, <3>2 DEF Ahead, c
  <2> QED
    BY <2>4, <2>5
<1>4. CopiesBound'
  BY <1>3, CopiesNext DEF CopyInv
<1> QED
  BY <1>1, <1>4 DEF CopyInv

LEMMA SameCopies ==
  ASSUME CoreInv, UnitInv, FrameInv, TornInv, CopyInv, [Steps]_vars, ~PutOut, UNCHANGED <<area, m, size>>,
         UnitInv', CoreInv', pc \notin {"down", "clear"}, pc' # "down", ~Clearing
  PROVE  CopyInv'
  BY Model, StepCopies

LEMMA ControlCopies ==
  ASSUME CoreInv, UnitInv, FrameInv, TornInv, CopyInv, [Steps]_vars, UnitInv', CoreInv',
         \/ \E p \in Names : clogan_open(p) \/ MoveAway(p)
         \/ clogan_flush \/ Section \/ Flushed \/ Unmap
         \/ Flush /\ m.zlib # "ING"
         \/ Unit /\ pc' # "total"
         \/ Ended /\ pc' = "flush"
         \/ Dest \/ Cleared \/ Recovered
  PROVE  CopyInv'
<1>0. m \in ModelType /\ m.total_len \in Nat
  BY Model
<1>1. CASE \/ \E p \in Names : clogan_open(p) \/ MoveAway(p)
           \/ clogan_flush \/ Section \/ Unmap
           \/ Flush /\ m.zlib # "ING"
           \/ Unit /\ pc' # "total"
           \/ Ended /\ pc' = "flush"
  <2>1. UNCHANGED <<area, m, size>>
    BY <1>1 DEF clogan_open, MoveAway, clogan_flush, Section, Unmap, Flush, Unit, Ended, WriteOut,
                UpdateLength, mapped, hist
  <2>2. ~PutOut /\ pc \notin {"down", "clear"} /\ pc' # "down" /\ ~Clearing
    BY <1>1 DEF clogan_open, MoveAway, clogan_flush, Section, Unmap, Flush, Unit, Ended, WriteOut,
                UpdateLength, ctl, PutOut, Clearing
  <2> QED
    BY <1>0, <2>1, <2>2, SameCopies
<1>2. CASE Flushed
  <2>1. /\ UNCHANGED <<area, m, size>> /\ ~PutOut /\ pc \notin {"down", "clear"} /\ pc' # "down" /\ ~Clearing
    BY <1>2 DEF Flushed, mapped, hist, PutOut, Clearing, CoreInv, TypeOK
  <2> QED
    BY <1>0, <2>1, SameCopies
<1>3. CASE Dest
  <2>1. /\ UNCHANGED <<area, size>> /\ ~PutOut /\ pc \notin {"down", "clear"} /\ pc' # "down" /\ ~Clearing
    BY <1>3 DEF Dest, hist, PutOut, Clearing
  <2>2. m'.total_len = m.total_len /\ m'.remain = m.remain
    BY <1>3, DestKeeps
  <2> QED
    BY <1>0, <2>1, <2>2, StepCopies
<1>4. CASE Cleared
  <2>1. /\ UNCHANGED <<area, size>> /\ ~PutOut /\ pc = "cleared" /\ pc' # "down"
        /\ m'.total_len = 1 /\ m'.remain = m.remain
    BY <1>4, ClearedBuffer DEF FrameInv, PutOut
  <2>2. m.remain = <<>>
    BY <2>1 DEF UnitInv, FrameInv, BufferOK, UnitOK, Clearing
  <2>3. \A i \in (m.total_len + 1)..m'.total_len : area'[i][1] # "data"
    <3> SUFFICES ASSUME NEW i \in (m.total_len + 1)..m'.total_len PROVE area'[i][1] # "data"
      OBVIOUS
    <3>1. i = 1 /\ Len(area') >= 1
      <4>1. i = 1
        BY <1>0, <2>1
      <4>2. Len(area') >= 1
        BY <1>0, <2>1 DEF CoreInv, LenInv, TypeOK
      <4> QED
        BY <4>1, <4>2
    <3> QED
      BY <3>1 DEF UnitInv
  <2> QED
    BY <1>0, <2>1, <2>2, <2>3, StepCopies
<1>5. CASE Recovered
  BY <1>0, <1>5, RecoveredBuffer, StepCopies DEF FrameInv, PutOut, Clearing
<1> QED
  BY <1>1, <1>2, <1>3, <1>4, <1>5

LEMMA HeaderCopies ==
  ASSUME CoreInv, UnitInv, FrameInv, TornInv, CopyInv, [Steps]_vars, UnitInv', CoreInv',
         Total \/ Length \/ (Ended /\ pc' # "flush") \/ Clear \/ OpenFile \/ clogan_write
  PROVE  CopyInv'
<1>0. m \in ModelType /\ m.total_len \in Nat /\ area \in Seq(Cell) /\ Len(area) \in Nat /\ m.total_len <= Len(area)
  BY Model
<1>1. CASE Total
  BY <1>0, <1>1, TotalBuffer, LenProperties, StepCopies DEF FrameInv, PutOut, Clearing
<1>2. CASE Length
  BY <1>0, <1>2, LengthBuffer, Model, StepCopies DEF FrameInv, Length, Hdr, PutOut
<1>3. ASSUME NEW n \in Nat, n <= Len(area), area' = PutAt(area, n, <<Hdr(0)>>)
      PROVE  /\ \A i \in 1..Len(area') : \/ i \in 1..Len(area) /\ area'[i] = area[i]
                                         \/ area'[i][1] # "data"
             /\ area'[n + 1][1] # "data"
  BY <1>3, HeaderPut
<1>4. CASE Ended /\ pc' # "flush"
  BY <1>0, <1>3, <1>4, EndedBuffer, StepCopies DEF FrameInv, Ended, WriteOut, PutOut, Clearing
<1>5. CASE Clear
  <2>1. /\ pc = "clear" /\ pc' = "total" /\ after' = "cleared" /\ size' = size /\ m'.remain = <<>>
        /\ m'.total_len = 0 /\ area' = PutAt(area, 0, <<Hdr(0)>>)
    BY <1>5, ClearBuffer DEF FrameInv, Clear
  <2>2. ~PutOut /\ Clearing'
    BY <2>1 DEF PutOut, Clearing
  <2> QED
    BY <1>0, <1>3, <2>1, <2>2, StepCopies
<1>6. CASE OpenFile
  <2>1. /\ pc = "open" /\ pc' = "idle" /\ size' = size /\ m'.remain = <<>> /\ m'.total_len \in {0, 1}
    BY <1>6, OpenFileBuffer DEF FrameInv
  <2>2. area' = PutAt(area, 0, <<Hdr(0)>>) \/ area' = area
    BY <1>6 DEF OpenFile
  <2>3. ~PutOut /\ ~Clearing
    BY <2>1 DEF PutOut, Clearing
  <2>4. m'.total_len <= m.total_len \/ \A i \in (m.total_len + 1)..m'.total_len : area'[i][1] # "data"
    <3>1. m'.total_len = 1 => Len(area') >= 1
      BY DEF CoreInv, LenInv, TypeOK
    <3>2. \A i \in (m.total_len + 1)..m'.total_len : i = 1 /\ m'.total_len = 1
      BY <1>0, <2>1
    <3> QED
      BY <3>1, <3>2 DEF UnitInv
  <2> QED
    BY <1>0, <1>3, <2>1, <2>2, <2>3, <2>4, StepCopies
<1>7. CASE clogan_write
  <2>1. /\ pc = "idle" /\ pc' = "compress" /\ m.is_open_ok /\ size' = size
        /\ \/ m'.total_len = 1 /\ m'.remain = <<>> /\ mode' = "MEMORY" /\ mode = "MMAP"
           \/ UNCHANGED <<mode, area>> /\ m'.total_len = m.total_len /\ m'.remain = m.remain
    BY <1>7, WriteBuffer DEF FrameInv
  <2>2. ~PutOut /\ ~Clearing
    BY <2>1 DEF PutOut, Clearing
  <2>3. mode' # mode => area' = <<Hdr(0)>>
    BY <1>7 DEF clogan_write
  <2>4. CASE mode' # mode
    <3>1. Len(area') = 1 /\ area'[1][1] # "data"
      BY <2>3, <2>4 DEF Hdr
    <3>2. m.total_len >= 1
      BY <2>1, <2>2 DEF UnitInv
    <3> QED
      BY <1>0, <2>1, <2>2, <2>4, <3>1, <3>2, StepCopies
  <2>5. CASE mode' = mode
    BY <1>0, <2>1, <2>2, <2>5, StepCopies
  <2> QED
    BY <2>4, <2>5
<1> QED
  BY <1>1, <1>2, <1>4, <1>5, <1>6, <1>7

\* The next process is to write what this one would have, or nothing.
LEMMA InitCallCopies ==
  ASSUME CoreInv, UnitInv, FrameInv, TornInv, CopyInv, [Steps]_vars, clogan_init
  PROVE  CopyInv'
  BY InitCallBuffer, FewerCells, CopiesNext DEF FrameInv, PutOut, CopyInv, Ahead

LEMMA CrashCopies ==
  ASSUME CoreInv, UnitInv, FrameInv, TornInv, CopyInv, [Steps]_vars, Crash
  PROVE  CopyInv'
<1>1. /\ pc # "down" /\ pc' = "down" /\ m' = Fresh /\ size' = size /\ m'.remain = <<>>
      /\ \/ mode = "MMAP" /\ area' = Upto(area, mapTotal) /\ mapTotal <= Len(area)
         \/ area' = <<>>
  BY CrashBuffer, FreshIs DEF FrameInv
<1>2. \A i \in 1..Len(area') : i \in 1..Len(area) /\ area'[i] = area[i]
  <2>1. area \in Seq(Cell) /\ mapTotal \in Nat /\ Len(area) \in Nat
    BY Model, CellLengths
  <2>2. CASE area' = Upto(area, mapTotal) /\ mapTotal <= Len(area)
    <3>1. Len(Upto(area, mapTotal)) = mapTotal /\ \A i \in 1..mapTotal : Upto(area, mapTotal)[i] = area[i]
      BY <2>1, <2>2, UptoIs
    <3> QED
      BY <2>1, <2>2, <3>1
  <2>3. CASE area' = <<>>
    BY <2>3
  <2> QED
    BY <1>1, <2>2, <2>3
<1>3. CellsOnce'
  BY <1>1, <1>2, FewerCells DEF CopyInv
<1>4. ~PutOut
  BY DEF Crash, PutOut
<1>5. CopiesBound'
  BY <1>1, <1>4, CopiesNext DEF CopyInv
<1> QED
  BY <1>3, <1>5 DEF CopyInv

\* What is written is behind then.
LEMMA PutOutCopies ==
  ASSUME CoreInv, UnitInv, FrameInv, TornInv, CopyInv, [Steps]_vars, PutOut
  PROVE  CopyInv'
<1>1. /\ pc = "put" /\ pc' = "clear" /\ UNCHANGED <<area, size>> /\ ~Clearing
      /\ m'.remain = m.remain
  BY Model DEF PutOut, hist, Clearing, ModelType
<1>2. CellsOnce'
  BY <1>1, FewerCells DEF CopyInv
<1>3. Crashes' = Crashes /\ Crashes \in Nat
  <2>1. ~Crash
    BY <1>1 DEF Crash
  <2> QED
    BY <2>1, CrashesAre DEF TornInv, FilesTorn
<1>4. ASSUME NEW w \in Lines, NEW k \in 1..size[w]
      PROVE  /\ IsFiniteSet(Copies(Data(w, k))')
             /\ Cardinality(Copies(Data(w, k))') <= 1 + Crashes
  <2> DEFINE c == Data(w, k)
             n == m.total_len
  <2>1. c[1] = "data"
    BY DEF Data
  <2>2. /\ IsFiniteSet(Copies(c))
        /\ Cardinality(Copies(c)) + (IF c \in Ahead THEN 1 ELSE 0) <= 1 + Crashes
    BY DEF CopyInv, CopiesBound
  <2> HIDE DEF c
  <2>3. IsFiniteSet(TornUnits)
    BY DEF TornInv, FilesTorn
  <2>4. /\ IsFiniteSet(Copies(c)')
        /\ Cardinality(Copies(c)') = Cardinality(Copies(c)) + Cardinality(At(Live, c))
        /\ Cardinality(Copies(c)) \in Nat
    BY <2>1, <2>2, <2>3, NextWritten, FS_CardinalityType DEF TornInv
  <2>5. /\ n \in Nat /\ n <= Len(area) /\ Len(area) \in Nat /\ DOMAIN Live = 1..n
        /\ \A i \in 1..n : Live[i] = area[i]
    BY LiveIs, Model, LenProperties
  <2> HIDE DEF n
  <2>6. CASE At(Live, c) = {}
    BY <1>3, <2>2, <2>4, <2>6, FS_EmptySet DEF c
  <2>7. CASE At(Live, c) # {}
    <3>1. PICK i \in 1..n : area[i] = c
      BY <2>5, <2>7 DEF At
    <3>2. At(Live, c) = {i}
      BY <2>1, <2>5, <3>1 DEF CopyInv, CellsOnce, Apart, At
    <3>3. c \in Ahead
      BY <1>1, <3>1 DEF Ahead, n
    <3>4. Cardinality(At(Live, c)) = 1
      BY <3>2, FS_Singleton
    <3> QED
      BY <1>3, <2>2, <2>4, <3>3, <3>4 DEF c
  <2> QED
    BY <2>6, <2>7
<1>5. Ahead' = {}
  BY <1>1 DEF Ahead
<1>6. CopiesBound'
  BY <1>1, <1>3, <1>4, <1>5, FS_CardinalityType DEF CopiesBound
<1> QED
  BY <1>2, <1>6 DEF CopyInv

LEMMA GrownAhead ==
  ASSUME CoreInv, NEW X, Grown(CellsIn(m.remain) \cup X), pc \notin {"down", "clear"}, ~Clearing,
         pc' \notin {"down", "clear"}, ~Clearing'
  PROVE  Ahead' \subseteq Ahead \cup X
<1>1. /\ m.total_len \in Nat /\ m'.total_len \in Nat /\ m'.total_len <= Len(area') /\ Len(area') \in Nat
      /\ \A i \in 1..Len(area') :
            \/ i > m.total_len /\ area'[i] \in CellsIn(m.remain) \cup X
            \/ /\ i \in 1..Len(area) /\ (i <= m.total_len \/ i > m'.total_len)
               /\ area'[i] = area[i]
      /\ \A i \in 1..Len(m'.remain) : m'.remain[i] \in CellsIn(m.remain) \cup X
  BY Model, LenProperties DEF Grown, ModelType
<1>2. CellsIn(m.remain) = {m.remain[i] : i \in 1..Len(m.remain)}
  BY CellLengths DEF CellsIn
<1>3. Ahead = {area[i] : i \in 1..m.total_len} \cup CellsIn(m.remain)
  BY <1>2 DEF Ahead
<1>4. Ahead' = {area'[i] : i \in 1..m'.total_len} \cup {m'.remain[i] : i \in 1..Len(m'.remain)}
  BY DEF Ahead
<1>5. ASSUME NEW i \in 1..m'.total_len PROVE area'[i] \in Ahead \cup X
  BY <1>1, <1>3
<1> QED
  BY <1>1, <1>3, <1>4, <1>5

LEMMA FeedCopies ==
  ASSUME CoreInv, DataInv, FrameInv, TornInv, CopyInv, [Steps]_vars,
         Compress \/ (Flush /\ m.zlib = "ING") \/ (Unit /\ pc' = "total")
  PROVE  CopyInv'
<1>0. /\ BufferOK /\ UnitInv /\ FilesHome /\ m.total_len \in Nat /\ size \in [Lines -> Nat]
      /\ m.remain \in Seq(Cell) /\ Len(m.remain) \in Nat
  BY Model, CellLengths DEF FrameInv, DataInv, HomeInv, ModelType, CoreInv, TypeOK
<1>1. CASE Compress
  <2>1. /\ pc = "compress" /\ pc' = "total" /\ after' = "unit" /\ ~Clearing /\ last \in Lines
    BY <1>0, <1>1, CompressBuffer
  <2>2. PICK c \in CSizes : /\ size' = [size EXCEPT ![last] = @ + c]
                            /\ Grown(CellsIn(m.remain) \cup CellsIn(Out(c)))
                            /\ Laid(m.remain \o Out(c))
    BY <1>0, <1>1, CompressBuffer
  <2> DEFINE o == Out(c)
             all == m.remain \o o
             z == size[last]
  <2>3. c \in Nat /\ z \in Nat /\ m'.total_len \in Nat
    BY <1>0, <2>1, <2>2, CLoganAssumption DEF Grown, ModelType
  <2>4. /\ o \in Seq(Cell) /\ Apart(o) /\ Len(o) \in Nat /\ DOMAIN o = 1..Len(o)
        /\ \A i \in 1..Len(o) : o[i][1] = "data" => o[i][2] = last /\ o[i][3] \in (z + 1)..(z + c)
    BY <2>1, OutIs, OutNew, LenProperties
  <2>5. ~Clearing' /\ ~PutOut /\ ~Crash
    BY <2>1 DEF Clearing, PutOut, Crash
  <2>6. Ahead' \subseteq Ahead \cup CellsIn(o)
    BY <2>1, <2>2, <2>5, GrownAhead
  <2> HIDE DEF o, z
  <2>7. ASSUME NEW x, Had(x), NEW i \in 1..Len(o), x = o[i] PROVE x[1] # "data"
    <3> SUFFICES ASSUME x[1] = "data" PROVE FALSE
      OBVIOUS
    <3>1. x[2] = last /\ x[3] \in (z + 1)..(z + c) /\ x[3] \in 1..size[x[2]]
      BY <2>4, <2>7 DEF Had
    <3> QED
      BY <2>3, <3>1 DEF z
  <2>8. NoneOf(area, o) /\ NoneOf(m.remain, o)
    BY <2>7 DEF NoneOf, CopyInv, CellsOnce
  <2>9. Apart(all) /\ NoneOf(area, all)
    BY <1>0, <2>4, <2>8, ApartConcat DEF CopyInv, CellsOnce
  <2>10. \A w \in Lines : size'[w] = IF w = last THEN z + c ELSE size[w]
    BY <1>0, <2>1, <2>2 DEF z
  <2>11. \A x : Had(x) => HadNext(x)
    <3> SUFFICES ASSUME NEW x, x[2] \in Lines, x[3] \in 1..size[x[2]] PROVE x[3] \in 1..size'[x[2]]
      BY DEF Had, HadNext
    <3>1. size'[x[2]] \in Nat /\ size'[x[2]] >= size[x[2]] /\ size[x[2]] \in Nat
      BY <1>0, <2>3, <2>10 DEF z
    <3> QED
      BY <3>1
  <2>12. \A i \in 1..Len(all) : HadNext(all[i])
    <3>1. \A i \in 1..Len(o) : HadNext(o[i])
      BY <2>1, <2>10, <2>3, <2>4 DEF HadNext
    <3>2. \A i \in 1..Len(m.remain) : HadNext(m.remain[i])
      BY <2>11 DEF CopyInv, CellsOnce
    <3>3. /\ Len(all) = Len(m.remain) + Len(o)
          /\ \A i \in 1..(Len(m.remain) + Len(o)) :
                all[i] = IF i <= Len(m.remain) THEN m.remain[i] ELSE o[i - Len(m.remain)]
      BY <1>0, <2>4, ConcatProperties
    <3> HIDE DEF all
    <3> SUFFICES ASSUME NEW i \in 1..(Len(m.remain) + Len(o)) PROVE HadNext(all[i])
      BY <3>3
    <3>4. CASE i <= Len(m.remain)
      BY <1>0, <3>2, <3>3, <3>4
    <3>5. CASE ~(i <= Len(m.remain))
      BY <1>0, <2>4, <3>1, <3>3, <3>5
    <3> QED
      BY <3>4, <3>5
  <2>13. Laid(all)
    BY <2>2 DEF o
  <2> HIDE DEF all
  <2>14. CellsOnce'
    BY <1>0, <2>3, <2>9, <2>11, <2>12, <2>13, MoreCells DEF CopyInv
  <2>15. ASSUME NEW w \in Lines, NEW k \in 1..size'[w]
         PROVE  \/ Copies(Data(w, k)) = {}
                \/ k \in 1..size[w] /\ (Data(w, k) \in Ahead' => Data(w, k) \in Ahead \/ (Crash /\ pc # "down"))
    <3>1. CASE k \notin 1..size[w]
      BY <1>0, <3>1, NotWritten
    <3>2. CASE k \in 1..size[w]
      <4> DEFINE x == Data(w, k)
      <4>1. x[1] = "data" /\ Had(x)
        BY <3>2 DEF Had, Data
      <4> HIDE DEF x
      <4>2. x \notin CellsIn(o)
        BY <2>4, <2>7, <4>1 DEF CellsIn
      <4> QED
        BY <2>6, <3>2, <4>2 DEF x
    <3> QED
      BY <3>1, <3>2
  <2>16. CopiesBound'
    BY <1>0, <2>5, <2>15, CopiesNext DEF CopyInv
  <2> QED
    BY <2>14, <2>16 DEF CopyInv
<1>2. CASE (Flush /\ m.zlib = "ING") \/ (Unit /\ pc' = "total")
  <2>1. /\ pc \notin {"down", "total", "len"} /\ pc' = "total" /\ after' \in {"flushed", "ended"}
        /\ ~Clearing /\ Grown(CellsIn(m.remain) \cup {Pad, End}) /\ size' = size /\ Laid(m.remain)
    BY <1>0, <1>2, EndUnitBuffer
  <2>2. ~Clearing' /\ ~PutOut /\ pc # "clear"
    BY <1>2, <2>1 DEF Clearing, PutOut, Flush, Unit
  <2>3. Ahead' \subseteq Ahead \cup {Pad, End}
    BY <2>1, <2>2, GrownAhead
  <2>4. m'.total_len \in Nat
    BY <2>1 DEF Grown, ModelType
  <2>5. \A c : Had(c) => HadNext(c)
    BY <2>1 DEF Had, HadNext
  <2>6. CellsOnce'
    BY <1>0, <2>1, <2>4, <2>5, MoreCells DEF CopyInv, CellsOnce
  <2>7. \A w, k : Data(w, k) \in Ahead' => Data(w, k) \in Ahead
    BY <2>3 DEF Data, Pad, End
  <2>8. CopiesBound'
    BY <1>0, <2>1, <2>2, <2>7, CopiesNext DEF CopyInv
  <2> QED
    BY <2>6, <2>8 DEF CopyInv
<1> QED
  BY <1>1, <1>2

LEMMA StutterCopies == CopyInv /\ UNCHANGED vars => CopyInv'
<1> SUFFICES ASSUME CopyInv, UNCHANGED vars PROVE CopyInv'
  OBVIOUS
<1>1. UNCHANGED <<files, away, area, mapTotal, m, pc, after, size, left>>
  BY DEF vars, disk, mapped, ctl, hist
<1>2. CellsOnce'
  BY <1>1 DEF CopyInv, CellsOnce, Had, Apart, NoneOf
<1>3. Ahead' = Ahead /\ Crashes' = Crashes
  BY <1>1 DEF Ahead, Clearing, Crashes
<1>4. \A p \in Names : Written(p)' = Written(p)
  BY <1>1 DEF Written, Cells, Exists
<1>5. CopiesBound'
  BY <1>1, <1>3, <1>4, SameWritten DEF CopyInv, CopiesBound
<1> QED
  BY <1>2, <1>5 DEF CopyInv

LEMMA NextCopies ==
  CoreInv /\ DataInv /\ FrameInv /\ TornInv /\ CopyInv /\ [Steps]_vars /\ CoreInv' /\ DataInv' => CopyInv'
  BY ControlCopies, HeaderCopies, FeedCopies, InitCallCopies, CrashCopies, PutOutCopies, StutterCopies
     DEF DataInv, Steps, Call

LEMMA InitCopies == Init => CopyInv
  BY FreshIs DEF Init, CopyInv, CellsOnce, CopiesBound, Apart, NoneOf

\* A crash between two steps costs the files at most one copy more of what is being written,
\* and one torn unit more, with those again that a recovery had made which it cuts short:
\* without a crash
\* a line is in the files at most once, and behind every unit the next begins, whatever files were
\* opened, moved away and created again between the writes.
THEOREM CrashesCostLittle == Spec => []CostOfCrashes
<1>1. Init => TornInv /\ CopyInv
  BY InitTorn, InitCopies
<1> DEFINE I == CoreInv /\ TearsLeft /\ DataInv /\ (Untorn => FrameInv)
<1>2. I /\ (Untorn => TornInv /\ CopyInv) /\ [Next]_vars /\ I' => (Untorn' => TornInv' /\ CopyInv')
  BY UntornStep, NextTorn, NextCopies DEF DataInv
<1>3. I /\ (Untorn => TornInv /\ CopyInv) => CostOfCrashes
  <2> SUFFICES ASSUME CoreInv, TornInv, CopyInv PROVE CostOfCrashes
    BY DEF CostOfCrashes
  <2>1. Cardinality(TornUnits) <= (Crashes * (Crashes + 1)) \div 2
    BY DEF TornInv, FilesTorn, Tri
  <2>2. Crashes \in Nat
    <3>1. Budget["crash"] \in Nat /\ left["crash"] \in Nat /\ left["crash"] <= Budget["crash"]
      BY CLoganAssumption DEF CoreInv, TypeOK, Events, TornInv, FilesTorn
    <3> QED
      BY <3>1 DEF Crashes
  <2>3. ASSUME NEW w \in Lines, NEW k \in 1..size[w]
        PROVE  Cardinality(Copies(Data(w, k))) <= 1 + Crashes
    BY <2>2, FS_CardinalityType DEF CopyInv, CopiesBound
  <2> QED
    BY <2>1, <2>3 DEF CostOfCrashes
<1> QED
  BY <1>1, <1>2, <1>3, FramesAlways, PTL DEF Spec
===============================================================================
