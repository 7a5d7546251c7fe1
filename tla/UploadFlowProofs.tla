--------------------------- MODULE UploadFlowProofs ---------------------------
(***************************************************************************)
(* What UploadFlow guarantees for any files, timers, retry limits and      *)
(* answers, with or without accesses to the table that fail.               *)
(***************************************************************************)
EXTENDS UploadFlow, TLAPS, FiniteSetTheorems

\* Threads that are in a call of sendLog, or wait to retry one, have its file.
Busy == \A w \in Workers : att[w].pc # "idle" => att[w].file \in Files

\* onPostSuccess runs only for a file that a server has acknowledged.
Acknowledged == \A w \in Workers : At(w, "complete") => att[w].file \in delivered

\* The threads that are about to add to the retry count of f
Counting(f) == {w \in Workers : att[w].pc \in {"readRetry", "writeRetry"} /\ att[w].file = f}

\* Every one of them has used up a SEND that nobody has counted yet, and so have
\* all of them together, beyond the count in the row and the counts they have read.
CountInv ==
    \A f \in Files :
        LET n == Cardinality(Counting(f))
        IN  /\ IsFiniteSet(Counting(f))
            /\ n <= exhausted[f]
            /\ HasRow(f) => rows[f].retry + n <= exhausted[f]
            /\ \A w \in Counting(f) : At(w, "writeRetry") => att[w].seen + n <= exhausted[f]

IInv == TypeOK /\ Busy /\ Acknowledged /\ NoFalseComplete /\ CountInv

-------------------------------------------------------------------------------
(* The helpers of UploadFlow *)

LEMMA GotoTyped ==
  ASSUME TypeOK, Busy, NEW w \in Workers, att[w].pc # "idle",
         NEW p \in AttemptPC \ {"idle"}, Goto(w, p)
  PROVE  /\ att' \in [Workers -> Attempt] /\ Busy'
         /\ att[w].file \in Files
         /\ att'[w].pc = p /\ att'[w].file = att[w].file /\ att'[w].seen = att[w].seen
         /\ att'[w].retry = att[w].retry
         /\ \A v \in Workers \ {w} : att'[v] = att[v]
<1>1. att[w] \in Attempt /\ att[w].file \in Files
  BY DEF TypeOK, Busy
<1>2. [att[w] EXCEPT !.pc = p] \in Attempt
  BY <1>1 DEF Attempt
<1>3. att' = [att EXCEPT ![w] = [att[w] EXCEPT !.pc = p]]
  BY DEF Goto
<1>4. att' \in [Workers -> Attempt]
  BY <1>2, <1>3 DEF TypeOK
<1>5. /\ att'[w] = [att[w] EXCEPT !.pc = p]
      /\ \A v \in Workers \ {w} : att'[v] = att[v]
  BY <1>3 DEF TypeOK
<1>6. /\ att'[w].pc = p /\ att'[w].file = att[w].file /\ att'[w].seen = att[w].seen
      /\ att'[w].retry = att[w].retry
  BY <1>1, <1>5 DEF Attempt
<1> QED
  BY <1>1, <1>4, <1>5, <1>6 DEF Busy

LEMMA IdleTyped == Idle \in Attempt /\ Idle.pc = "idle"
BY FlowAssumption DEF Idle, Attempt, AttemptPC

LEMMA EndTyped ==
  ASSUME TypeOK, Busy, NEW w \in Workers, End(w)
  PROVE  /\ att' \in [Workers -> Attempt] /\ Busy'
         /\ att'[w].pc = "idle"
         /\ \A v \in Workers \ {w} : att'[v] = att[v]
BY IdleTyped DEF TypeOK, Busy, End

\* Only the status of f is set, if f has a row.
LEMMA SetStatusTyped ==
  ASSUME TypeOK, NEW f \in Files, NEW s \in {INITIAL, COMPLETE, DOING}
  PROVE  /\ SetStatus(f, s) \in [Files -> Row \cup {NoRow}]
         /\ \A g \in Files :
              \/ SetStatus(f, s)[g] = rows[g]
              \/ /\ g = f /\ HasRow(f) /\ SetStatus(f, s)[f] # NoRow
                 /\ SetStatus(f, s)[f].status = s /\ SetStatus(f, s)[f].retry = rows[f].retry
<1>1. CASE ~HasRow(f)
  BY <1>1 DEF SetStatus, TypeOK
<1>2. CASE HasRow(f)
  <2>1. rows[f] \in Row
    BY <1>2 DEF HasRow, TypeOK
  <2>2. [rows[f] EXCEPT !.status = s] \in Row
    BY <2>1 DEF Row
  <2>3. SetStatus(f, s) = [rows EXCEPT ![f] = [rows[f] EXCEPT !.status = s]]
    BY <1>2 DEF SetStatus
  <2>4. /\ [rows[f] EXCEPT !.status = s].status = s
        /\ [rows[f] EXCEPT !.status = s].retry = rows[f].retry
    BY <2>1 DEF Row
  <2> QED
    BY <1>2, <2>2, <2>3, <2>4, RowAssumption DEF TypeOK
<1> QED
  BY <1>1, <1>2

\* Only the retry count of f is set, if f has a row.
LEMMA SetRetryTyped ==
  ASSUME TypeOK, NEW f \in Files, NEW n \in Nat
  PROVE  /\ SetRetry(f, n) \in [Files -> Row \cup {NoRow}]
         /\ \A g \in Files :
              \/ SetRetry(f, n)[g] = rows[g]
              \/ /\ g = f /\ HasRow(f) /\ SetRetry(f, n)[f] # NoRow
                 /\ SetRetry(f, n)[f].status = rows[f].status /\ SetRetry(f, n)[f].retry = n
<1>1. CASE ~HasRow(f)
  BY <1>1 DEF SetRetry, TypeOK
<1>2. CASE HasRow(f)
  <2>1. rows[f] \in Row
    BY <1>2 DEF HasRow, TypeOK
  <2>2. [rows[f] EXCEPT !.retry = n] \in Row
    BY <2>1 DEF Row
  <2>3. SetRetry(f, n) = [rows EXCEPT ![f] = [rows[f] EXCEPT !.retry = n]]
    BY <1>2 DEF SetRetry
  <2>4. /\ [rows[f] EXCEPT !.retry = n].retry = n
        /\ [rows[f] EXCEPT !.retry = n].status = rows[f].status
    BY <2>1 DEF Row
  <2> QED
    BY <1>2, <2>2, <2>3, <2>4, RowAssumption DEF TypeOK
<1> QED
  BY <1>1, <1>2

LEMMA FewerCounting ==
  ASSUME NEW C, NEW D, D \subseteq C, IsFiniteSet(C)
  PROVE  /\ IsFiniteSet(D) /\ Cardinality(C) \in Nat /\ Cardinality(D) \in Nat
         /\ Cardinality(D) <= Cardinality(C)
BY FS_Subset, FS_CardinalityType

-------------------------------------------------------------------------------
(* Most steps neither acknowledge nor count: threads go on, or end, and rows *)
(* appear, vanish or change their status.                                    *)

CalmAttempts ==
    \A w \in Workers :
        att'[w] = att[w] \/ att'[w].pc \notin {"complete", "readRetry", "writeRetry"}

CalmRows ==
    \A f \in Files :
        \/ rows'[f] = NoRow \/ rows'[f] = rows[f]
        \/ /\ rows'[f].status # COMPLETE
           /\ rows'[f].retry = 0 \/ (HasRow(f) /\ rows'[f].retry = rows[f].retry)

LEMMA CalmCounting ==
  ASSUME TypeOK, CountInv, CalmAttempts, CalmRows, exhausted' = exhausted
  PROVE  CountInv'
<1> SUFFICES ASSUME NEW f \in Files
             PROVE  LET n == Cardinality(Counting(f)')
                    IN  /\ IsFiniteSet(Counting(f)')
                        /\ n <= exhausted[f]
                        /\ HasRow(f)' => rows'[f].retry + n <= exhausted[f]
                        /\ \A w \in Counting(f)' : At(w, "writeRetry")' => att'[w].seen + n <= exhausted[f]
  BY DEF CountInv
<1> DEFINE C == Counting(f)
           D == Counting(f)'
<1>1. D \subseteq C /\ \A w \in D : att'[w] = att[w]
  BY DEF CalmAttempts, Counting
<1>2. /\ IsFiniteSet(C) /\ Cardinality(C) <= exhausted[f]
      /\ HasRow(f) => rows[f].retry + Cardinality(C) <= exhausted[f]
      /\ \A w \in C : At(w, "writeRetry") => att[w].seen + Cardinality(C) <= exhausted[f]
  BY DEF CountInv
<1>3. /\ exhausted[f] \in Nat
      /\ HasRow(f) => rows[f].retry \in Nat
      /\ \A w \in C : att[w].seen \in Nat
  BY DEF TypeOK, HasRow, Row, Attempt, Counting
<1> HIDE DEF C, D
<1>4. /\ IsFiniteSet(D) /\ Cardinality(C) \in Nat /\ Cardinality(D) \in Nat
      /\ Cardinality(D) <= Cardinality(C)
  BY <1>1, <1>2, FewerCounting
<1>5. Cardinality(D) <= exhausted[f]
  BY <1>2, <1>3, <1>4
<1>6. HasRow(f)' => rows'[f].retry + Cardinality(D) <= exhausted[f]
  <2>1. HasRow(f)' => rows'[f].retry = 0 \/ (HasRow(f) /\ rows'[f].retry = rows[f].retry)
    BY DEF CalmRows, HasRow
  <2> QED
    BY <1>2, <1>3, <1>4, <1>5, <2>1
<1>7. \A w \in D : At(w, "writeRetry")' => att'[w].seen + Cardinality(D) <= exhausted[f]
  <2> SUFFICES ASSUME NEW w \in D, At(w, "writeRetry")'
               PROVE  att'[w].seen + Cardinality(D) <= exhausted[f]
    OBVIOUS
  <2>1. w \in C /\ att'[w] = att[w] /\ At(w, "writeRetry")
    BY <1>1 DEF At
  <2>2. att[w].seen + Cardinality(C) <= exhausted[f] /\ att[w].seen \in Nat
    BY <1>2, <1>3, <2>1
  <2> QED
    BY <1>3, <1>4, <2>1, <2>2
<1> QED
  BY <1>4, <1>5, <1>6, <1>7 DEF D

LEMMA CalmIInv ==
  ASSUME IInv, TypeOK', Busy', CalmAttempts, CalmRows,
         delivered' = delivered, exhausted' = exhausted
  PROVE  IInv'
<1>1. Acknowledged'
  BY DEF IInv, Acknowledged, CalmAttempts, At
<1>2. NoFalseComplete'
  BY RowAssumption DEF IInv, NoFalseComplete, CalmRows, Status, HasRow
<1>3. CountInv'
  BY CalmCounting DEF IInv
<1> QED
  BY <1>1, <1>2, <1>3 DEF IInv

-------------------------------------------------------------------------------
(* Steps of an attempt *)

LEMMA ExecSendIInv ==
  ASSUME IInv, NEW f \in Files, ExecSend(f)
  PROVE  IInv'
<1> USE DEF ExecSend
<1>1. TypeOK /\ Busy /\ Exec \in Workers
  BY DEF IInv, Workers
<1>2. /\ waiting' \in [Files -> Nat] /\ sends' \in [Files -> Nat] /\ refused' \in SUBSET Files
  BY <1>1 DEF TypeOK
<1>3. /\ att' \in [Workers -> Attempt] /\ Busy'
      /\ \A w \in Workers : att'[w] = att[w] \/ att'[w].pc = "sendLog"
  <2>1. CASE f \notin exists
    BY <1>1, <2>1 DEF TypeOK, Busy
  <2>2. CASE f \in exists
    <3> DEFINE a == [Idle EXCEPT !.pc = "sendLog", !.file = f]
    <3>1. a \in Attempt /\ a.pc = "sendLog" /\ a.file = f
      BY IdleTyped DEF Attempt, AttemptPC, Idle
    <3>2. att' = [att EXCEPT ![Exec] = a]
      BY <2>2
    <3> HIDE DEF a
    <3> QED
      BY <1>1, <3>1, <3>2 DEF TypeOK, Busy
  <2> QED
    BY <2>1, <2>2
<1>4. TypeOK'
  BY <1>1, <1>2, <1>3 DEF TypeOK
<1>5. CalmAttempts /\ CalmRows /\ delivered' = delivered /\ exhausted' = exhausted
  BY <1>3 DEF CalmAttempts, CalmRows
<1> QED
  BY <1>3, <1>4, <1>5, CalmIInv

LEMMA SendLogIInv ==
  ASSUME IInv, NEW w \in Workers, SendLog(w) \/ Query(w)
  PROVE  IInv'
<1> USE DEF SendLog, Query, At, history
<1>1. TypeOK /\ Busy /\ att[w].pc # "idle"
  BY DEF IInv
<1>2. End(w) \/ \E p \in {"query", "cache", "mark"} : Goto(w, p)
  OBVIOUS
<1>3. /\ att' \in [Workers -> Attempt] /\ Busy'
      /\ \A v \in Workers : att'[v] = att[v] \/ att'[v].pc \in {"idle", "query", "cache", "mark"}
  BY <1>1, <1>2, GotoTyped, EndTyped DEF AttemptPC
<1>4. TypeOK'
  BY <1>1, <1>3 DEF TypeOK
<1>5. CalmAttempts /\ CalmRows /\ delivered' = delivered /\ exhausted' = exhausted
  BY <1>3 DEF CalmAttempts, CalmRows
<1> QED
  BY <1>3, <1>4, <1>5, CalmIInv

LEMMA AddToCacheIInv ==
  ASSUME IInv, NEW w \in Workers, AddToCache(w)
  PROVE  IInv'
<1> USE DEF AddToCache, At
<1>1. TypeOK /\ Busy /\ att[w].file \in Files
  BY DEF IInv, Busy
<1>2. /\ att' \in [Workers -> Attempt] /\ Busy'
      /\ \A v \in Workers : att'[v] = att[v] \/ att'[v].pc = "idle"
  BY <1>1, EndTyped
<1>3. TypeOK'
  BY <1>1, <1>2 DEF TypeOK
<1>4. CalmAttempts /\ CalmRows /\ delivered' = delivered /\ exhausted' = exhausted
  BY <1>2 DEF CalmAttempts, CalmRows
<1> QED
  BY <1>2, <1>3, <1>4, CalmIInv

LEMMA MarkIInv ==
  ASSUME IInv, NEW w \in Workers, Mark(w) \/ Reset(w)
  PROVE  IInv'
<1> USE DEF Mark, Reset, At, Update, history
<1>1. TypeOK /\ Busy /\ att[w].pc # "idle" /\ att[w].file \in Files
  BY DEF IInv, Busy
<1>2. \E p \in {"open", "again"} : Goto(w, p)
  OBVIOUS
<1>3. /\ att' \in [Workers -> Attempt] /\ Busy'
      /\ \A v \in Workers : att'[v] = att[v] \/ att'[v].pc \in {"open", "again"}
  BY <1>1, <1>2, GotoTyped DEF AttemptPC
<1>4. rows' = rows \/ \E s \in {INITIAL, DOING} : rows' = SetStatus(att[w].file, s)
  OBVIOUS
<1>5. rows' \in [Files -> Row \cup {NoRow}] /\ CalmRows
  BY <1>1, <1>4, SetStatusTyped DEF TypeOK, CalmRows, INITIAL, DOING, COMPLETE
<1>6. TypeOK'
  BY <1>1, <1>3, <1>5 DEF TypeOK
<1>7. CalmAttempts /\ delivered' = delivered /\ exhausted' = exhausted
  BY <1>3 DEF CalmAttempts
<1> QED
  BY <1>3, <1>5, <1>6, <1>7, CalmIInv

LEMMA OpenIInv ==
  ASSUME IInv, NEW w \in Workers, Open(w)
  PROVE  IInv'
<1> USE DEF Open, At
<1>1. TypeOK /\ Busy /\ att[w].pc # "idle" /\ att[w].file \in Files
  BY DEF IInv, Busy
<1>2. \E p \in {"post", "reset"} : Goto(w, p)
  OBVIOUS
<1>3. /\ att' \in [Workers -> Attempt] /\ Busy'
      /\ \A v \in Workers : att'[v] = att[v] \/ att'[v].pc \in {"post", "reset"}
  BY <1>1, <1>2, GotoTyped DEF AttemptPC
<1>4. posts' \in [Files -> Nat]
  BY <1>1 DEF TypeOK
<1>5. TypeOK'
  BY <1>1, <1>3, <1>4 DEF TypeOK
<1>6. CalmAttempts /\ CalmRows /\ delivered' = delivered /\ exhausted' = exhausted
  BY <1>3 DEF CalmAttempts, CalmRows
<1> QED
  BY <1>3, <1>5, <1>6, CalmIInv

LEMMA PostIInv ==
  ASSUME IInv, NEW w \in Workers, NEW answer \in Answers, Post(w, answer)
  PROVE  IInv'
<1> USE DEF Post, At
<1>1. TypeOK /\ Busy /\ att[w].pc # "idle" /\ att[w].file \in Files
  BY DEF IInv, Busy
<1>2. CASE delivered' = delivered /\ (Goto(w, "reset") \/ End(w))
  <2>1. /\ att' \in [Workers -> Attempt] /\ Busy'
        /\ \A v \in Workers : att'[v] = att[v] \/ att'[v].pc \in {"reset", "idle"}
    BY <1>1, <1>2, GotoTyped, EndTyped DEF AttemptPC
  <2>2. TypeOK'
    BY <1>1, <1>2, <2>1 DEF TypeOK
  <2>3. CalmAttempts /\ CalmRows /\ exhausted' = exhausted
    BY <2>1 DEF CalmAttempts, CalmRows
  <2> QED
    BY <1>2, <2>1, <2>2, <2>3, CalmIInv
<1>3. CASE delivered' = delivered \cup {att[w].file} /\ Goto(w, "complete")
  <2>1. /\ att' \in [Workers -> Attempt] /\ Busy'
        /\ att'[w].pc = "complete" /\ att'[w].file = att[w].file
        /\ \A v \in Workers \ {w} : att'[v] = att[v]
    BY <1>1, <1>3, GotoTyped DEF AttemptPC
  <2>2. TypeOK'
    BY <1>1, <1>3, <2>1 DEF TypeOK
  <2>3. Acknowledged'
    BY <1>3, <2>1 DEF IInv, Acknowledged
  <2>4. NoFalseComplete'
    BY <1>3 DEF IInv, NoFalseComplete, Status, HasRow
  <2>5. CountInv'
    <3>1. \A f \in Files : Counting(f)' = Counting(f)
      BY <2>1 DEF Counting
    <3>2. \A f \in Files : \A v \in Counting(f) : v # w /\ att'[v] = att[v]
      BY <2>1 DEF Counting
    <3>3. \A f \in Files : \A v \in Counting(f) : At(v, "writeRetry")' => At(v, "writeRetry")
      BY <3>2
    <3> QED
      BY <3>1, <3>2, <3>3 DEF IInv, CountInv, HasRow
  <2> QED
    BY <2>1, <2>2, <2>3, <2>4, <2>5 DEF IInv
<1> QED
  BY <1>2, <1>3

LEMMA CompleteIInv ==
  ASSUME IInv, NEW w \in Workers, Complete(w)
  PROVE  IInv'
<1> USE DEF Complete, At, Update, history
<1>1. /\ TypeOK /\ Busy /\ att[w].pc # "idle" /\ att[w].file \in Files
      /\ att[w].file \in delivered
  BY DEF IInv, Busy, Acknowledged
<1>2. /\ att' \in [Workers -> Attempt] /\ Busy'
      /\ \A v \in Workers : att'[v] = att[v] \/ att'[v].pc = "idle"
  BY <1>1, EndTyped
<1>3. /\ rows' \in [Files -> Row \cup {NoRow}]
      /\ \A g \in Files :
            \/ rows'[g] = rows[g]
            \/ /\ g = att[w].file /\ HasRow(g) /\ rows'[g] # NoRow
               /\ rows'[g].retry = rows[g].retry
  BY <1>1, SetStatusTyped DEF TypeOK
<1>4. TypeOK'
  BY <1>1, <1>2, <1>3 DEF TypeOK
<1>5. Acknowledged'
  BY <1>2 DEF IInv, Acknowledged
<1>6. NoFalseComplete'
  BY <1>1, <1>3 DEF IInv, NoFalseComplete, Status, HasRow
<1>7. CountInv'
  <2> SUFFICES ASSUME NEW f \in Files
               PROVE  LET n == Cardinality(Counting(f)')
                      IN  /\ IsFiniteSet(Counting(f)')
                          /\ n <= exhausted[f]
                          /\ HasRow(f)' => rows'[f].retry + n <= exhausted[f]
                          /\ \A v \in Counting(f)' :
                                At(v, "writeRetry")' => att'[v].seen + n <= exhausted[f]
    BY DEF CountInv
  <2>1. Counting(f)' = Counting(f) /\ \A v \in Counting(f) : att'[v] = att[v]
    <3>1. \A v \in Workers \ {w} : att'[v] = att[v]
      BY <1>1, EndTyped
    <3>2. att'[w].pc = "idle" /\ att[w].pc = "complete"
      BY <1>1, EndTyped
    <3> QED
      BY <3>1, <3>2 DEF Counting
  <2>2. HasRow(f)' => HasRow(f) /\ rows'[f].retry = rows[f].retry
    BY <1>3 DEF HasRow
  <2> QED
    BY <2>1, <2>2 DEF IInv, CountInv
<1> QED
  BY <1>2, <1>4, <1>5, <1>6, <1>7 DEF IInv

LEMMA FireIInv ==
  ASSUME IInv, NEW t \in Timers, Fire(t)
  PROVE  IInv'
<1> USE DEF Fire, At, history
<1>1. TypeOK /\ Busy /\ t \in Workers /\ att[t].pc # "idle"
  BY DEF IInv, Workers
<1>2. /\ att' \in [Workers -> Attempt] /\ Busy'
      /\ \A v \in Workers : att'[v] = att[v] \/ att'[v].pc = "sendLog"
  BY <1>1, GotoTyped DEF AttemptPC
<1>3. TypeOK'
  BY <1>1, <1>2 DEF TypeOK
<1>4. CalmAttempts /\ CalmRows /\ delivered' = delivered /\ exhausted' = exhausted
  BY <1>2 DEF CalmAttempts, CalmRows
<1> QED
  BY <1>2, <1>3, <1>4, CalmIInv

\* The failed attempt goes on in a timer.
LEMMA RetryIInv ==
  ASSUME IInv, NEW w \in Workers, Again(w), exhausted' = exhausted, att[w].retry < RETRY_TIME,
         NEW t \in Slots(w),
         att' = [v \in Workers |->
                   IF v = t THEN [att[w] EXCEPT !.pc = "timer", !.retry = @ + 1]
                   ELSE IF v = w THEN Idle ELSE att[v]]
  PROVE  IInv'
<1> USE DEF Again, At
<1>1. TypeOK /\ Busy /\ att[w].pc # "idle" /\ att[w].file \in Files /\ t \in Workers
  BY DEF IInv, Busy, Slots, Workers
<1> DEFINE a == [att[w] EXCEPT !.pc = "timer", !.retry = @ + 1]
<1>2. a \in Attempt /\ a.pc = "timer" /\ a.file = att[w].file
  <2>1. att[w] \in Attempt /\ att[w].retry + 1 \in 0..RETRY_TIME
    BY <1>1, FlowAssumption DEF TypeOK, Attempt
  <2> QED
    BY <2>1 DEF Attempt, AttemptPC
<1> HIDE DEF a
<1>3. att' = [v \in Workers |-> IF v = t THEN a ELSE IF v = w THEN Idle ELSE att[v]]
  BY DEF a
<1>4. /\ att' \in [Workers -> Attempt] /\ Busy'
      /\ \A v \in Workers : att'[v] = att[v] \/ att'[v].pc \in {"timer", "idle"}
  BY <1>1, <1>2, <1>3, IdleTyped DEF TypeOK, Busy
<1>5. TypeOK'
  BY <1>1, <1>4 DEF TypeOK
<1>6. CalmAttempts /\ CalmRows /\ delivered' = delivered
  BY <1>4 DEF CalmAttempts, CalmRows
<1> QED
  BY <1>4, <1>5, <1>6, CalmIInv

\* The SEND has no retry left: it and the thread that will count it come together.
LEMMA ExhaustIInv ==
  ASSUME IInv, NEW w \in Workers, Again(w), Goto(w, "readRetry"),
         exhausted' = [exhausted EXCEPT ![att[w].file] = @ + 1]
  PROVE  IInv'
<1> USE DEF Again, At
<1> DEFINE g == att[w].file
<1>1. TypeOK /\ Busy /\ att[w].pc = "again" /\ g \in Files
  BY DEF IInv, Busy
<1>2. /\ att' \in [Workers -> Attempt] /\ Busy'
      /\ att'[w].pc = "readRetry" /\ att'[w].file = g
      /\ \A v \in Workers \ {w} : att'[v] = att[v]
  BY <1>1, GotoTyped DEF AttemptPC
<1>3. /\ exhausted' \in [Files -> Nat] /\ exhausted'[g] = exhausted[g] + 1
      /\ \A f \in Files \ {g} : exhausted'[f] = exhausted[f]
  BY <1>1 DEF TypeOK
<1>4. TypeOK'
  BY <1>1, <1>2, <1>3 DEF TypeOK
<1>5. Acknowledged' /\ NoFalseComplete'
  BY <1>2 DEF IInv, Acknowledged, NoFalseComplete, Status, HasRow
<1>6. CountInv'
  <2>1. \A f \in Files \ {g} : Counting(f)' = Counting(f)
    BY <1>1, <1>2 DEF Counting
  <2>2. g' = g /\ Counting(g)' = Counting(g) \cup {w} /\ w \notin Counting(g)
    BY <1>1, <1>2 DEF Counting
  <2>3. \A f \in Files : \A v \in Counting(f)' :
           At(v, "writeRetry")' => v \in Counting(f) /\ att'[v] = att[v] /\ At(v, "writeRetry")
    BY <1>1, <1>2 DEF Counting
  <2>4. IsFiniteSet(Counting(g))
    BY <1>1 DEF IInv, CountInv
  <2>5. /\ IsFiniteSet(Counting(g)')
        /\ Cardinality(Counting(g)') = Cardinality(Counting(g)) + 1
        /\ Cardinality(Counting(g)) \in Nat
    BY <2>2, <2>4, FS_AddElement, FS_CardinalityType
  <2> SUFFICES ASSUME NEW f \in Files
               PROVE  LET n == Cardinality(Counting(f)')
                      IN  /\ IsFiniteSet(Counting(f)')
                          /\ n <= exhausted'[f]
                          /\ HasRow(f)' => rows'[f].retry + n <= exhausted'[f]
                          /\ \A v \in Counting(f)' :
                                At(v, "writeRetry")' => att'[v].seen + n <= exhausted'[f]
    BY DEF CountInv
  <2>6. /\ IsFiniteSet(Counting(f)) /\ Cardinality(Counting(f)) <= exhausted[f]
        /\ HasRow(f) => rows[f].retry + Cardinality(Counting(f)) <= exhausted[f]
        /\ \A v \in Counting(f) :
              At(v, "writeRetry") => att[v].seen + Cardinality(Counting(f)) <= exhausted[f]
    BY DEF IInv, CountInv
  <2>7. /\ exhausted[f] \in Nat
        /\ HasRow(f)' <=> HasRow(f)
        /\ HasRow(f) => rows[f].retry \in Nat
        /\ \A v \in Counting(f) : att[v].seen \in Nat
    BY <1>1 DEF TypeOK, HasRow, Row, Attempt, Counting
  <2>8. CASE f # g
    <3>1. Counting(f)' = Counting(f) /\ exhausted'[f] = exhausted[f]
      BY <1>3, <2>1, <2>8
    <3> HIDE DEF At, g
    <3> QED
      BY <2>3, <2>6, <2>7, <3>1
  <2>9. CASE f = g
    <3> DEFINE n == Cardinality(Counting(f))
    <3>1. /\ Cardinality(Counting(f)') = n + 1 /\ n \in Nat /\ IsFiniteSet(Counting(f)')
          /\ exhausted'[f] = exhausted[f] + 1
      <4>1. Counting(f)' = Counting(g)' /\ Counting(f) = Counting(g)
        BY <2>2, <2>9 DEF Counting
      <4> QED
        BY <1>3, <2>5, <2>9, <4>1
    <3>2. n <= exhausted[f] /\ (HasRow(f) => rows[f].retry + n <= exhausted[f])
      BY <2>6
    <3>3. \A v \in Counting(f)' : At(v, "writeRetry")' =>
             att'[v].seen + n <= exhausted[f] /\ att'[v].seen \in Nat
      BY <2>3, <2>6, <2>7
    <3> HIDE DEF n, g
    <3>4. n + 1 <= exhausted'[f]
      BY <2>7, <3>1, <3>2
    <3>5. HasRow(f)' => rows'[f].retry + (n + 1) <= exhausted'[f]
      BY <2>7, <3>1, <3>2
    <3>6. \A v \in Counting(f)' : At(v, "writeRetry")' => att'[v].seen + (n + 1) <= exhausted'[f]
      BY <2>7, <3>1, <3>3
    <3> QED
      BY <3>1, <3>4, <3>5, <3>6
  <2> QED
    BY <2>8, <2>9
<1> QED
  BY <1>2, <1>4, <1>5, <1>6 DEF IInv

LEMMA AgainIInv ==
  ASSUME IInv, NEW w \in Workers, Again(w)
  PROVE  IInv'
BY RetryIInv, ExhaustIInv DEF Again

LEMMA ReadRetryIInv ==
  ASSUME IInv, NEW w \in Workers, ReadRetry(w)
  PROVE  IInv'
<1> USE DEF ReadRetry, At, history
<1> DEFINE g == att[w].file
<1>1. TypeOK /\ Busy /\ att[w].pc = "readRetry" /\ g \in Files
  BY DEF IInv, Busy
<1>2. CASE End(w)
  <2>1. /\ att' \in [Workers -> Attempt] /\ Busy'
        /\ \A v \in Workers : att'[v] = att[v] \/ att'[v].pc = "idle"
    BY <1>1, <1>2, EndTyped
  <2>2. TypeOK'
    BY <1>1, <2>1 DEF TypeOK
  <2>3. CalmAttempts /\ CalmRows /\ delivered' = delivered /\ exhausted' = exhausted
    BY <2>1 DEF CalmAttempts, CalmRows
  <2> QED
    BY <2>1, <2>2, <2>3, CalmIInv
<1>3. CASE /\ HasRow(g)
           /\ att' = [att EXCEPT ![w].pc = "writeRetry", ![w].seen = rows[g].retry]
  <2> DEFINE a == [att[w] EXCEPT !.pc = "writeRetry", !.seen = rows[g].retry]
  <2>1. att[w] \in Attempt /\ rows[g].retry \in Nat
    BY <1>1, <1>3 DEF TypeOK, HasRow, Row
  <2>2. a \in Attempt /\ a.pc = "writeRetry" /\ a.file = g /\ a.seen = rows[g].retry
    BY <2>1 DEF Attempt, AttemptPC
  <2>3. att' = [att EXCEPT ![w] = a]
    BY <1>1, <1>3 DEF TypeOK
  <2> HIDE DEF a
  <2>4. /\ att' \in [Workers -> Attempt] /\ Busy'
        /\ att'[w] = a /\ \A v \in Workers \ {w} : att'[v] = att[v]
    BY <1>1, <2>2, <2>3 DEF TypeOK, Busy
  <2>5. TypeOK'
    BY <1>1, <2>4 DEF TypeOK
  <2>6. Acknowledged' /\ NoFalseComplete'
    BY <2>2, <2>4 DEF IInv, Acknowledged, NoFalseComplete, Status, HasRow
  <2>7. \A f \in Files : Counting(f)' = Counting(f)
    BY <1>1, <2>2, <2>4 DEF Counting
  <2>8. CountInv'
    <3> SUFFICES ASSUME NEW f \in Files, NEW v \in Counting(f), At(v, "writeRetry")'
                 PROVE  att'[v].seen + Cardinality(Counting(f)) <= exhausted[f]
      BY <2>7 DEF IInv, CountInv, HasRow
    <3>1. CASE v = w
      BY <1>3, <2>2, <2>4, <3>1 DEF IInv, CountInv, Counting
    <3>2. CASE v # w
      BY <2>4, <3>2 DEF IInv, CountInv, Counting
    <3> QED
      BY <3>1, <3>2
  <2> QED
    BY <2>4, <2>5, <2>6, <2>8 DEF IInv
<1> QED
  BY <1>2, <1>3

LEMMA WriteRetryIInv ==
  ASSUME IInv, NEW w \in Workers, WriteRetry(w)
  PROVE  IInv'
<1> USE DEF WriteRetry, At, Update, history
<1> DEFINE g == att[w].file
<1>1. /\ TypeOK /\ Busy /\ att[w].pc = "writeRetry" /\ g \in Files
      /\ att[w].seen \in Nat
  BY DEF IInv, Busy, TypeOK, Attempt
<1>2. /\ att' \in [Workers -> Attempt] /\ Busy'
      /\ att'[w].pc = "idle" /\ \A v \in Workers \ {w} : att'[v] = att[v]
  BY <1>1, EndTyped
<1>3. /\ rows' \in [Files -> Row \cup {NoRow}]
      /\ \A f \in Files :
            \/ rows'[f] = rows[f]
            \/ /\ f = g /\ HasRow(f) /\ rows'[f] # NoRow
               /\ rows'[f].status = rows[f].status /\ rows'[f].retry = att[w].seen + 1
  BY <1>1, SetRetryTyped DEF TypeOK
<1>4. TypeOK'
  BY <1>1, <1>2, <1>3 DEF TypeOK
<1>5. Acknowledged'
  BY <1>2 DEF IInv, Acknowledged
<1>6. NoFalseComplete'
  BY <1>3 DEF IInv, NoFalseComplete, Status, HasRow
<1>7. CountInv'
  <2> SUFFICES ASSUME NEW f \in Files
               PROVE  LET n == Cardinality(Counting(f)')
                      IN  /\ IsFiniteSet(Counting(f)')
                          /\ n <= exhausted[f]
                          /\ HasRow(f)' => rows'[f].retry + n <= exhausted[f]
                          /\ \A v \in Counting(f)' :
                                At(v, "writeRetry")' => att'[v].seen + n <= exhausted[f]
    BY DEF CountInv
  <2> DEFINE C == Counting(f)
             D == Counting(f)'
  <2>1. /\ IsFiniteSet(C) /\ Cardinality(C) <= exhausted[f]
        /\ HasRow(f) => rows[f].retry + Cardinality(C) <= exhausted[f]
        /\ \A v \in C : At(v, "writeRetry") => att[v].seen + Cardinality(C) <= exhausted[f]
    BY DEF IInv, CountInv
  <2>2. /\ exhausted[f] \in Nat
        /\ HasRow(f) => rows[f].retry \in Nat
        /\ \A v \in C : att[v].seen \in Nat
    BY <1>1 DEF TypeOK, HasRow, Row, Attempt, Counting
  <2>3. D = C \ {w} /\ \A v \in D : att'[v] = att[v]
    BY <1>1, <1>2 DEF Counting
  <2>4. f = g => w \in C
    BY <1>1 DEF Counting
  <2> HIDE DEF C, D, g
  <2>5. /\ IsFiniteSet(D) /\ Cardinality(C) \in Nat /\ Cardinality(D) \in Nat
        /\ Cardinality(D) <= Cardinality(C)
        /\ w \in C => Cardinality(D) = Cardinality(C) - 1
    BY <2>1, <2>3, FewerCounting, FS_RemoveElement
  <2>6. Cardinality(D) <= exhausted[f]
    BY <2>1, <2>2, <2>5
  <2>7. HasRow(f)' => rows'[f].retry + Cardinality(D) <= exhausted[f]
    <3>1. CASE rows'[f] = rows[f]
      BY <2>1, <2>2, <2>5, <3>1 DEF HasRow
    <3>2. CASE f = g /\ rows'[f].retry = att[w].seen + 1
      <4>1. att[w].seen + Cardinality(C) <= exhausted[f] /\ Cardinality(D) = Cardinality(C) - 1
        BY <1>1, <2>1, <2>4, <2>5, <3>2
      <4> QED
        BY <1>1, <2>2, <2>5, <3>2, <4>1
    <3> QED
      BY <1>3, <3>1, <3>2
  <2>8. \A v \in D : At(v, "writeRetry")' => att'[v].seen + Cardinality(D) <= exhausted[f]
    <3> SUFFICES ASSUME NEW v \in D, At(v, "writeRetry")'
                 PROVE  att'[v].seen + Cardinality(D) <= exhausted[f]
      OBVIOUS
    <3>1. v \in C /\ att'[v] = att[v] /\ At(v, "writeRetry")
      BY <2>3
    <3>2. att[v].seen + Cardinality(C) <= exhausted[f] /\ att[v].seen \in Nat
      BY <2>1, <2>2, <3>1
    <3> QED
      BY <2>2, <2>5, <3>1, <3>2
  <2> QED
    BY <2>5, <2>6, <2>7, <2>8 DEF D
<1> QED
  BY <1>2, <1>4, <1>5, <1>6, <1>7 DEF IInv

-------------------------------------------------------------------------------
(* Steps of LoganThread's tasks, of the network and of the process leave the *)
(* attempts alone, or end them all.                                          *)

LEMMA IdleCalm ==
  ASSUME IInv, TypeOK', att' = att \/ att' = [w \in Workers |-> Idle], CalmRows,
         delivered' = delivered, exhausted' = exhausted
  PROVE  IInv'
<1>1. Busy' /\ CalmAttempts
  BY IdleTyped DEF IInv, Busy, CalmAttempts
<1> QED
  BY <1>1, CalmIInv

\* The rows of a set vanish.
LEMMA RowsVanish ==
  ASSUME TypeOK, NEW S, rows' = [f \in Files |-> IF f \in S THEN NoRow ELSE rows[f]]
  PROVE  rows' \in [Files -> Row \cup {NoRow}] /\ CalmRows
BY DEF TypeOK, CalmRows

LEMMA SendTyped ==
  ASSUME TypeOK, NEW S, Send(S)
  PROVE  waiting' \in [Files -> Nat]
BY DEF TypeOK, Send

LEMMA SpendTyped ==
  ASSUME TypeOK, NEW e \in Events, Spend(e)
  PROVE  left' \in [Events -> Nat]
BY DEF TypeOK, Spend

LEMMA NothingTyped == NoTask \in Task /\ NoNetCall \in NetCall
BY DEF Task, NoTask, NetCall, NoNetCall

LEMMA FeedBackIInv ==
  ASSUME IInv, NEW force \in BOOLEAN, FeedBack(force)
  PROVE  IInv'
<1> USE DEF FeedBack, history
<1>1. TypeOK
  BY DEF IInv
<1>2. PICK S \in Reached({f \in exists : ~HasRow(f)}, TaskLost) :
         rows' = [f \in Files |-> IF f \in S THEN [status |-> INITIAL, retry |-> 0] ELSE rows[f]]
  OBVIOUS
<1> DEFINE new == [status |-> INITIAL, retry |-> 0]
<1>3. new \in Row /\ new.status # COMPLETE /\ new.retry = 0
  BY DEF Row, INITIAL, COMPLETE
<1> HIDE DEF new
<1>4. rows' \in [Files -> Row \cup {NoRow}] /\ CalmRows
  BY <1>1, <1>2, <1>3 DEF TypeOK, CalmRows, new
<1>5. task' \in Task
  BY <1>1 DEF TypeOK, Task
<1>6. left' \in [Events -> Nat]
  BY <1>1, SpendTyped DEF Events
<1>7. TypeOK'
  BY <1>1, <1>4, <1>5, <1>6 DEF TypeOK
<1> QED
  BY <1>4, <1>7, IdleCalm

LEMMA TaskIInv ==
  ASSUME IInv, FeedBackSend \/ StartRetry
  PROVE  IInv'
<1> USE DEF FeedBackSend, StartRetry, history
<1>1. TypeOK
  BY DEF IInv
<1>2. waiting' \in [Files -> Nat]
  BY <1>1, SendTyped DEF TypeOK
<1>3. task' \in Task
  <2>1. CASE FeedBackSend
    BY <2>1, NothingTyped
  <2>2. CASE StartRetry
    <3>1. PICK S \in Reached({f \in Files : Status(f) = DOING}, TaskLost) :
             task' = [pc |-> "reset", files |-> S, force |-> FALSE]
      BY <2>2
    <3>2. S \subseteq Files
      BY DEF Reached
    <3> QED
      BY <3>1, <3>2 DEF Task
  <2> QED
    BY <2>1, <2>2
<1>4. TypeOK' /\ CalmRows
  BY <1>1, <1>2, <1>3 DEF TypeOK, CalmRows
<1> QED
  BY <1>4, IdleCalm

LEMMA RefreshRowIInv ==
  ASSUME IInv, NEW f \in Files, RefreshRow(f)
  PROVE  IInv'
<1> USE DEF RefreshRow, history
<1>1. TypeOK
  BY DEF IInv
<1>2. rows' \in [Files -> Row \cup {NoRow}] /\ CalmRows
  BY <1>1, SetStatusTyped DEF TypeOK, CalmRows, INITIAL, COMPLETE
<1>3. task' \in Task
  BY <1>1 DEF TypeOK, Task
<1>4. TypeOK'
  BY <1>1, <1>2, <1>3 DEF TypeOK
<1> QED
  BY <1>2, <1>4, IdleCalm

LEMMA DropRowsIInv ==
  ASSUME IInv, DropExhausted \/ SyncDelete
  PROVE  IInv'
<1> USE DEF DropExhausted, SyncDelete, history
<1>1. TypeOK
  BY DEF IInv
<1>2. rows' \in [Files -> Row \cup {NoRow}] /\ CalmRows
  BY <1>1, RowsVanish
<1>3. task' \in Task
  <2>1. [task EXCEPT !.pc = "needRetry"] \in Task
    BY <1>1 DEF TypeOK, Task
  <2> QED
    BY <2>1, NothingTyped
<1>4. TypeOK'
  BY <1>1, <1>2, <1>3 DEF TypeOK
<1> QED
  BY <1>2, <1>4, IdleCalm

LEMMA StartRetryOfTyped ==
  ASSUME TypeOK, NEW S, NEW lost \in BOOLEAN, StartRetryOf(S, lost)
  PROVE  /\ waiting' \in [Files -> Nat]
         /\ rows' \in [Files -> Row \cup {NoRow}] /\ CalmRows
BY SendTyped, RowsVanish DEF StartRetryOf

LEMMA SendRetriesIInv ==
  ASSUME IInv, SendNeedRetry \/ NetRetry
  PROVE  IInv'
<1> USE DEF SendNeedRetry, NetRetry, history
<1>1. TypeOK /\ TaskLost \in BOOLEAN /\ NetLost \in BOOLEAN
  BY DEF IInv, TaskLost, NetLost
<1>2. /\ waiting' \in [Files -> Nat]
      /\ rows' \in [Files -> Row \cup {NoRow}] /\ CalmRows
  BY <1>1, StartRetryOfTyped
<1>3. task' \in Task /\ lostNet' \in NetCall
  BY <1>1, NothingTyped DEF TypeOK
<1>4. TypeOK'
  BY <1>1, <1>2, <1>3 DEF TypeOK
<1> QED
  BY <1>2, <1>4, IdleCalm

LEMMA DeleteFileIInv ==
  ASSUME IInv, NEW f \in Files, DeleteFile(f)
  PROVE  IInv'
<1> USE DEF DeleteFile, history
<1>1. TypeOK
  BY DEF IInv
<1>2. task' \in Task
  BY DEF Task
<1>3. left' \in [Events -> Nat]
  BY <1>1, SpendTyped DEF Events
<1>4. TypeOK' /\ CalmRows
  BY <1>1, <1>2, <1>3 DEF TypeOK, CalmRows
<1> QED
  BY <1>4, IdleCalm

LEMMA NetworkIInv ==
  ASSUME IInv, NetworkDown \/ NetworkUp \/ CacheToArray \/ CacheClear
  PROVE  IInv'
<1> USE DEF NetworkDown, NetworkUp, CacheToArray, CacheClear, history
<1>1. TypeOK
  BY DEF IInv
<1>2. left' \in [Events -> Nat]
  BY <1>1, SpendTyped DEF Events, TypeOK
<1>3. lostNet' \in NetCall
  BY <1>1 DEF TypeOK, NetCall
<1>4. TypeOK' /\ CalmRows
  BY <1>1, <1>2, <1>3 DEF TypeOK, CalmRows
<1> QED
  BY <1>4, IdleCalm

LEMMA CrashIInv ==
  ASSUME IInv, Crash
  PROVE  IInv'
<1> USE DEF Crash
<1>1. TypeOK
  BY DEF IInv
<1>2. left' \in [Events -> Nat]
  BY <1>1, SpendTyped DEF Events
<1>3. task' \in Task /\ lostNet' \in NetCall
  BY NothingTyped
<1>4. TypeOK' /\ CalmRows
  BY <1>1, <1>2, <1>3, IdleTyped DEF TypeOK, CalmRows
<1> QED
  BY <1>4, IdleCalm

-------------------------------------------------------------------------------

LEMMA InitIInv == Init => IInv
<1> SUFFICES ASSUME Init PROVE IInv
  OBVIOUS
<1>1. TypeOK
  BY NothingTyped, IdleTyped, FlowAssumption DEF Init, TypeOK
<1>2. \A w \in Workers : att[w].pc = "idle"
  BY IdleTyped DEF Init
<1>3. Busy /\ Acknowledged
  BY <1>2 DEF Busy, Acknowledged, At
<1>4. NoFalseComplete
  BY RowAssumption DEF Init, NoFalseComplete, Status, HasRow
<1>5. CountInv
  <2>1. \A f \in Files : Counting(f) = {}
    BY <1>2 DEF Counting
  <2>2. \A f \in Files : ~HasRow(f) /\ exhausted[f] = 0
    BY DEF Init, HasRow
  <2> QED
    BY <2>1, <2>2, FS_EmptySet DEF CountInv
<1> QED
  BY <1>1, <1>3, <1>4, <1>5 DEF IInv

LEMMA StutterIInv == IInv /\ UNCHANGED vars => IInv'
<1> SUFFICES ASSUME IInv, UNCHANGED vars PROVE IInv'
  OBVIOUS
<1>1. TypeOK' /\ CalmRows
  BY DEF IInv, TypeOK, CalmRows, vars, history
<1> QED
  BY <1>1, IdleCalm DEF vars, history

LEMMA WorkerIInv ==
  ASSUME IInv, NEW w \in Workers, Worker(w)
  PROVE  IInv'
BY SendLogIInv, AddToCacheIInv, MarkIInv, OpenIInv, PostIInv, CompleteIInv, AgainIInv,
   ReadRetryIInv, WriteRetryIInv DEF Worker

LEMMA NextIInv == IInv /\ [Next]_vars => IInv'
<1> SUFFICES ASSUME IInv, [Next]_vars PROVE IInv'
  OBVIOUS
<1>1. CASE \E f \in Files : ExecSend(f) \/ DeleteFile(f)
  BY <1>1, ExecSendIInv, DeleteFileIInv
<1>2. CASE \E w \in Workers : Worker(w)
  BY <1>2, WorkerIInv
<1>3. CASE \E t \in Timers : Fire(t)
  BY <1>3, FireIInv
<1>4. CASE \E force \in BOOLEAN : FeedBack(force)
  BY <1>4, FeedBackIInv
<1>5. CASE StartRetry \/ TaskStep
  BY <1>5, TaskIInv, RefreshRowIInv, DropRowsIInv, SendRetriesIInv DEF TaskStep
<1>6. CASE NetStep \/ NetworkDown \/ NetworkUp
  BY <1>6, NetworkIInv, SendRetriesIInv DEF NetStep
<1>7. CASE Crash
  BY <1>7, CrashIInv
<1>8. CASE UNCHANGED vars
  BY <1>8, StutterIInv
<1> QED
  BY <1>1, <1>2, <1>3, <1>4, <1>5, <1>6, <1>7, <1>8 DEF Next

\* Acknowledgements, the accesses of updateRetry and the types hold each other up
\* (RealSendRunnable 66-147, LoganUFileDao 218-270).
THEOREM Inductive == Spec => []IInv
BY InitIInv, NextIInv, PTL DEF Spec

\* Rows, attempts, tasks and the cache keep their types.
THEOREM TypeCorrect == Spec => []TypeOK
<1>1. IInv => TypeOK
  BY DEF IInv
<1> QED
  BY <1>1, Inductive, PTL

\* A row says COMPLETE only of a file that a server has acknowledged, whatever
\* uploads, retries, evictions, lost accesses and crashes there were.
THEOREM CompleteIsDelivered == Spec => []NoFalseComplete
<1>1. IInv => NoFalseComplete
  BY DEF IInv
<1> QED
  BY <1>1, Inductive, PTL

\* The retry count of a row is at most the number of SENDs of its file that used
\* up their retries: LoganUFileDao.updateRetry loses counts and invents none.
THEOREM RetriesWereMade == Spec => []RetryNotOvercounted
<1>1. IInv => RetryNotOvercounted
  <2> SUFFICES ASSUME IInv, NEW f \in Files, HasRow(f) PROVE rows[f].retry <= exhausted[f]
    BY DEF RetryNotOvercounted
  <2>1. /\ IsFiniteSet(Counting(f))
        /\ rows[f].retry + Cardinality(Counting(f)) <= exhausted[f]
    BY DEF IInv, CountInv
  <2>2. rows[f].retry \in Nat /\ exhausted[f] \in Nat
    BY DEF IInv, TypeOK, HasRow, Row
  <2>3. Cardinality(Counting(f)) \in Nat
    BY <2>1, FS_CardinalityType
  <2> QED
    BY <2>1, <2>2, <2>3
<1> QED
  BY <1>1, Inductive, PTL

-------------------------------------------------------------------------------
(* ChainsDontFork: the posts that are still to come are counted as tokens.   *)
(* An attempt has one for its post and one for each retry left; a SEND       *)
(* brings RETRY_TIME + 1 of them, a post takes one, and the timer of the     *)
(* next attempt takes over those of the one before.                          *)

Left(w) ==
    IF att[w].pc \in {"timer", "sendLog", "query", "mark", "open"} THEN RETRY_TIME + 1 - att[w].retry
    ELSE IF att[w].pc \in {"post", "complete", "reset", "again"} THEN RETRY_TIME - att[w].retry
    ELSE 0

Tokens(f) == {x \in Workers \X Nat : att[x[1]].file = f /\ 1 <= x[2] /\ x[2] <= Left(x[1])}

TokenInv ==
    \A f \in Files :
        /\ IsFiniteSet(Tokens(f))
        /\ posts[f] + Cardinality(Tokens(f)) <= (RETRY_TIME + 1) * sends[f]

LEMMA LeftNat ==
  ASSUME TypeOK, NEW w \in Workers
  PROVE  att[w].retry \in 0..RETRY_TIME /\ Left(w) \in 0..(RETRY_TIME + 1) /\ RETRY_TIME \in Nat
<1>1. att[w].retry \in 0..RETRY_TIME /\ RETRY_TIME \in Nat
  BY FlowAssumption DEF TypeOK, Attempt
<1> QED
  BY <1>1 DEF Left

LEMMA LeftNatNext ==
  ASSUME TypeOK', NEW w \in Workers
  PROVE  Left(w)' \in Nat
<1>1. att'[w].retry \in 0..RETRY_TIME /\ RETRY_TIME \in Nat
  BY FlowAssumption DEF TypeOK, Attempt
<1> QED
  BY <1>1 DEF Left

\* No thread gains tokens.
NoGain ==
    \A w \in Workers :
        Left(w)' = 0 \/ (att'[w].file = att[w].file /\ Left(w)' <= Left(w))

LEMMA NoGainTokens ==
  ASSUME TypeOK, TypeOK', TokenInv, NoGain, posts' = posts, sends' = sends
  PROVE  TokenInv'
<1> SUFFICES ASSUME NEW f \in Files
             PROVE  /\ IsFiniteSet(Tokens(f)')
                    /\ posts[f] + Cardinality(Tokens(f)') <= (RETRY_TIME + 1) * sends[f]
  BY DEF TokenInv
<1>1. /\ IsFiniteSet(Tokens(f))
      /\ posts[f] + Cardinality(Tokens(f)) <= (RETRY_TIME + 1) * sends[f]
  BY DEF TokenInv
<1>2. Tokens(f)' \subseteq Tokens(f)
  <2> SUFFICES ASSUME NEW x \in Tokens(f)' PROVE x \in Tokens(f)
    OBVIOUS
  <2>1. /\ x \in Workers \X Nat /\ att'[x[1]].file = f
        /\ 1 <= x[2] /\ x[2] <= Left(x[1])'
    BY DEF Tokens
  <2>2. PICK w \in Workers, k \in Nat : x = <<w, k>>
    BY <2>1
  <2>3. Left(w) \in Nat /\ Left(w)' \in Nat
    BY LeftNat, LeftNatNext
  <2>4. att'[w].file = f /\ 1 <= k /\ k <= Left(w)'
    BY <2>1, <2>2
  <2>5. att[w].file = f /\ k <= Left(w)
    BY <2>3, <2>4 DEF NoGain
  <2> QED
    BY <2>1, <2>2, <2>4, <2>5 DEF Tokens
<1>3. /\ IsFiniteSet(Tokens(f)') /\ Cardinality(Tokens(f)) \in Nat
      /\ Cardinality(Tokens(f)') \in Nat /\ Cardinality(Tokens(f)') <= Cardinality(Tokens(f))
  BY <1>1, <1>2, FewerCounting
<1>4. posts[f] \in Nat /\ sends[f] \in Nat /\ (RETRY_TIME + 1) * sends[f] \in Nat
  BY FlowAssumption DEF TypeOK
<1> QED
  BY <1>1, <1>3, <1>4

LEMMA ExecSendTokens ==
  ASSUME IInv, TypeOK', TokenInv, NEW g \in Files, ExecSend(g)
  PROVE  TokenInv'
<1> USE DEF ExecSend
<1>1. TypeOK /\ Exec \in Workers /\ Idle.pc = "idle" /\ RETRY_TIME \in Nat
  BY FlowAssumption, IdleTyped DEF IInv, Workers
<1>2. CASE g \notin exists
  <2>1. NoGain
    BY <1>1, <1>2, LeftNat DEF NoGain, Left
  <2> QED
    BY <1>1, <1>2, <2>1, NoGainTokens
<1>3. CASE g \in exists
  <2> DEFINE K == RETRY_TIME + 1
  <2>1. /\ att'[Exec].pc = "sendLog" /\ att'[Exec].file = g /\ att'[Exec].retry = 0
        /\ \A v \in Workers \ {Exec} : att'[v] = att[v]
    <3> DEFINE a == [Idle EXCEPT !.pc = "sendLog", !.file = g]
    <3>1. a.pc = "sendLog" /\ a.file = g /\ a.retry = 0
      BY DEF Idle
    <3>2. att' = [att EXCEPT ![Exec] = a]
      BY <1>3
    <3> HIDE DEF a
    <3> QED
      BY <1>1, <3>1, <3>2 DEF TypeOK
  <2>2. Left(Exec)' = K /\ Left(Exec) = 0
    BY <1>1, <2>1 DEF Left, At
  <2>3. \A v \in Workers \ {Exec} : Left(v)' = Left(v)
    BY <2>1 DEF Left
  <2>4. \A f \in Files \ {g} : Tokens(f)' = Tokens(f)
    BY <1>1, <2>1, <2>2, <2>3 DEF Tokens
  <2>5. Tokens(g)' \subseteq Tokens(g) \cup ({Exec} \X (1..K))
    <3> SUFFICES ASSUME NEW v \in Workers, NEW k \in Nat, <<v, k>> \in Tokens(g)', v # Exec \/ k \notin 1..K
                 PROVE  <<v, k>> \in Tokens(g)
      BY DEF Tokens
    <3>1. att'[v].file = g /\ 1 <= k /\ k <= Left(v)'
      BY DEF Tokens
    <3>2. v # Exec
      BY <1>1, <2>2, <3>1
    <3> QED
      BY <2>1, <2>3, <3>1, <3>2 DEF Tokens
  <2>6. IsFiniteSet({Exec} \X (1..K)) /\ Cardinality({Exec} \X (1..K)) = K
    <3>1. IsFiniteSet(1..K) /\ Cardinality(1..K) = K
      BY <1>1, FS_Interval
    <3>2. IsFiniteSet({Exec}) /\ Cardinality({Exec}) = 1
      BY FS_Singleton
    <3>3. /\ IsFiniteSet({Exec} \X (1..K))
          /\ Cardinality({Exec} \X (1..K)) = Cardinality({Exec}) * Cardinality(1..K)
      BY <3>1, <3>2, FS_Product
    <3> QED
      BY <1>1, <3>1, <3>2, <3>3
  <2>7. /\ IsFiniteSet(Tokens(g)) /\ posts[g] + Cardinality(Tokens(g)) <= K * sends[g]
        /\ posts[g] \in Nat /\ sends[g] \in Nat /\ Cardinality(Tokens(g)) \in Nat
    BY <1>1, FS_CardinalityType DEF TokenInv, TypeOK
  <2>8. /\ IsFiniteSet(Tokens(g)') /\ Cardinality(Tokens(g)') \in Nat
        /\ Cardinality(Tokens(g)') <= Cardinality(Tokens(g)) + K
    <3> DEFINE P == {Exec} \X (1..K)
    <3>1. /\ IsFiniteSet(Tokens(g) \cup P) /\ IsFiniteSet(Tokens(g) \cap P)
          /\ Cardinality(Tokens(g) \cup P)
                = Cardinality(Tokens(g)) + Cardinality(P) - Cardinality(Tokens(g) \cap P)
      BY <2>6, <2>7, FS_Union, FS_Subset
    <3>2. Cardinality(Tokens(g) \cap P) \in Nat
      BY <3>1, FS_CardinalityType
    <3> HIDE DEF P
    <3>3. /\ IsFiniteSet(Tokens(g)') /\ Cardinality(Tokens(g)') \in Nat
          /\ Cardinality(Tokens(g) \cup P) \in Nat
          /\ Cardinality(Tokens(g)') <= Cardinality(Tokens(g) \cup P)
      BY <2>5, <3>1, FewerCounting DEF P
    <3>4. Cardinality(P) = K /\ K \in Nat
      BY <1>1, <2>6 DEF P
    <3> HIDE DEF K
    <3> QED
      BY <2>7, <3>1, <3>2, <3>3, <3>4
  <2>9. sends'[g] = sends[g] + 1 /\ posts' = posts /\ \A f \in Files \ {g} : sends'[f] = sends[f]
    BY <1>1, <1>3 DEF TypeOK
  <2>10. K * (sends[g] + 1) = K * sends[g] + K /\ K * sends[g] \in Nat
    BY <1>1, <2>7
  <2>11. posts'[g] + Cardinality(Tokens(g)') <= K * sends'[g]
    <3> HIDE DEF K
    <3>1. K \in Nat
      BY <1>1 DEF K
    <3> QED
      BY <2>7, <2>8, <2>9, <2>10, <3>1
  <2> QED
    BY <2>4, <2>8, <2>9, <2>11 DEF TokenInv
<1> QED
  BY <1>2, <1>3

LEMMA OpenTokens ==
  ASSUME IInv, TypeOK', TokenInv, NEW w \in Workers, Open(w)
  PROVE  TokenInv'
<1> USE DEF Open, At
<1> DEFINE g == att[w].file
<1>1. TypeOK /\ Busy /\ att[w].pc = "open" /\ g \in Files /\ RETRY_TIME \in Nat
  BY FlowAssumption DEF IInv, Busy
<1>2. PICK p \in {"post", "reset"} : Goto(w, p) /\ (p = "reset" => UNCHANGED posts)
                                   /\ (p = "post" => posts' = [posts EXCEPT ![g] = @ + 1])
  OBVIOUS
<1>3. /\ att'[w].pc = p /\ att'[w].file = g /\ att'[w].retry = att[w].retry
      /\ \A v \in Workers \ {w} : att'[v] = att[v]
  BY <1>1, <1>2, GotoTyped DEF AttemptPC
<1>4. att[w].retry \in 0..RETRY_TIME
  BY <1>1, LeftNat
<1>5. Left(w) = RETRY_TIME + 1 - att[w].retry /\ Left(w)' = RETRY_TIME - att[w].retry
  BY <1>1, <1>2, <1>3 DEF Left
<1>6. \A v \in Workers \ {w} : Left(v)' = Left(v)
  BY <1>3 DEF Left
<1>7. CASE p = "reset"
  <2>1. NoGain
    BY <1>1, <1>3, <1>4, <1>5, <1>6, LeftNat DEF NoGain
  <2> QED
    BY <1>1, <1>2, <1>7, <2>1, NoGainTokens
<1>8. CASE p = "post"
  <2> DEFINE token == <<w, Left(w)>>
  <2>1. \A f \in Files \ {g} : Tokens(f)' = Tokens(f)
    BY <1>1, <1>3, <1>6 DEF Tokens
  <2>2. token \in Tokens(g)
    BY <1>1, <1>4, <1>5 DEF Tokens
  <2>3. g' = g
    BY <1>3
  <2>4. Tokens(g)' \subseteq Tokens(g) \ {token}
    <3> SUFFICES ASSUME NEW v \in Workers, NEW k \in Nat, <<v, k>> \in Tokens(g)'
                 PROVE  <<v, k>> \in Tokens(g) \ {token}
      BY DEF Tokens
    <3>1. att'[v].file = g /\ 1 <= k /\ k <= Left(v)'
      BY <2>3 DEF Tokens
    <3>2. CASE v = w
      BY <1>1, <1>4, <1>5, <3>1, <3>2 DEF Tokens
    <3>3. CASE v # w
      BY <1>3, <1>6, <3>1, <3>3 DEF Tokens
    <3> QED
      BY <3>2, <3>3
  <2>5. /\ IsFiniteSet(Tokens(g)) /\ posts[g] + Cardinality(Tokens(g)) <= (RETRY_TIME + 1) * sends[g]
        /\ posts[g] \in Nat /\ sends[g] \in Nat /\ Cardinality(Tokens(g)) \in Nat
    BY <1>1, FS_CardinalityType DEF TokenInv, TypeOK
  <2>6. /\ IsFiniteSet(Tokens(g) \ {token})
        /\ Cardinality(Tokens(g) \ {token}) = Cardinality(Tokens(g)) - 1
    BY <2>2, <2>5, FS_RemoveElement
  <2>7. /\ IsFiniteSet(Tokens(g)') /\ Cardinality(Tokens(g)') \in Nat
        /\ Cardinality(Tokens(g)') <= Cardinality(Tokens(g)) - 1
    BY <2>4, <2>6, FewerCounting
  <2>8. posts'[g] = posts[g] + 1 /\ sends' = sends /\ \A f \in Files \ {g} : posts'[f] = posts[f]
    BY <1>1, <1>2, <1>8 DEF TypeOK
  <2>9. (RETRY_TIME + 1) * sends[g] \in Nat
    BY <1>1, <2>5
  <2>10. posts'[g] + Cardinality(Tokens(g)') <= (RETRY_TIME + 1) * sends[g]
    BY <2>5, <2>7, <2>8, <2>9
  <2> QED
    BY <2>1, <2>3, <2>7, <2>8, <2>10 DEF TokenInv
<1> QED
  BY <1>2, <1>7, <1>8

\* The timer's thread takes over what is left to the executor's.
LEMMA RetryTokens ==
  ASSUME IInv, TypeOK', TokenInv, NEW w \in Workers, At(w, "again"), att[w].retry < RETRY_TIME,
         posts' = posts, sends' = sends, NEW t \in Slots(w),
         att' = [v \in Workers |->
                   IF v = t THEN [att[w] EXCEPT !.pc = "timer", !.retry = @ + 1]
                   ELSE IF v = w THEN Idle ELSE att[v]]
  PROVE  TokenInv'
<1>1. /\ TypeOK /\ att[w].pc = "again" /\ att[w] \in Attempt /\ t \in Workers
      /\ t # w => att[t].pc = "idle"
  BY DEF IInv, TypeOK, At, Slots, Workers
<1>2. /\ att'[t].pc = "timer" /\ att'[t].file = att[w].file /\ att'[t].retry = att[w].retry + 1
      /\ t # w => att'[w].pc = "idle"
      /\ \A v \in Workers \ {t, w} : att'[v] = att[v]
  <2> DEFINE a == [att[w] EXCEPT !.pc = "timer", !.retry = @ + 1]
  <2>1. a.pc = "timer" /\ a.file = att[w].file /\ a.retry = att[w].retry + 1
    BY <1>1 DEF Attempt
  <2>2. att' = [v \in Workers |-> IF v = t THEN a ELSE IF v = w THEN Idle ELSE att[v]]
    OBVIOUS
  <2> HIDE DEF a
  <2> QED
    BY <1>1, <2>1, <2>2, IdleTyped
<1>3. att[w].retry \in 0..RETRY_TIME /\ RETRY_TIME \in Nat
  BY <1>1, LeftNat
<1>4. /\ Left(w) = RETRY_TIME - att[w].retry /\ Left(t)' = Left(w)
      /\ t # w => Left(w)' = 0 /\ Left(t) = 0
      /\ \A v \in Workers \ {t, w} : Left(v)' = Left(v)
  BY <1>1, <1>2, <1>3 DEF Left
<1>5. CASE t = w
  <2>1. NoGain
    BY <1>2, <1>4, <1>5, LeftNat, IInv DEF NoGain, IInv
  <2> QED
    BY <1>1, <2>1, NoGainTokens
<1>6. CASE t # w
  <2> SUFFICES ASSUME NEW f \in Files
               PROVE  /\ IsFiniteSet(Tokens(f)')
                      /\ posts[f] + Cardinality(Tokens(f)') <= (RETRY_TIME + 1) * sends[f]
    BY DEF TokenInv
  <2> DEFINE Origin == [x \in Tokens(f)' |-> IF x[1] = t THEN <<w, x[2]>> ELSE x]
  <2>1. \A v \in Workers, k \in Nat : <<v, k>> \in Tokens(f)' =>
           /\ v # w
           /\ v = t => <<w, k>> \in Tokens(f)
           /\ v # t => <<v, k>> \in Tokens(f)
    BY <1>2, <1>3, <1>4, <1>6 DEF Tokens
  <2>2. \A x \in Tokens(f)' : \E v \in Workers, k \in Nat : x = <<v, k>>
    BY DEF Tokens
  <2>3. Origin \in [Tokens(f)' -> Tokens(f)]
    BY <2>1, <2>2
  <2>4. \A x, y \in Tokens(f)' : Origin[x] = Origin[y] => x = y
    BY <2>1, <2>2
  <2>5. Origin \in Injection(Tokens(f)', Tokens(f))
    BY <2>3, <2>4 DEF Injection, IsInjective
  <2>6. /\ IsFiniteSet(Tokens(f))
        /\ posts[f] + Cardinality(Tokens(f)) <= (RETRY_TIME + 1) * sends[f]
        /\ posts[f] \in Nat /\ (RETRY_TIME + 1) * sends[f] \in Nat
    BY <1>1, <1>3 DEF TokenInv, TypeOK
  <2> HIDE DEF Origin
  <2>7. IsFiniteSet(Tokens(f)') /\ Cardinality(Tokens(f)') <= Cardinality(Tokens(f))
    BY <2>5, <2>6, FS_Injection
  <2>8. Cardinality(Tokens(f)') \in Nat /\ Cardinality(Tokens(f)) \in Nat
    BY <2>6, <2>7, FS_CardinalityType
  <2> QED
    BY <2>6, <2>7, <2>8
<1> QED
  BY <1>5, <1>6

\* An attempt that goes on to p keeps its tokens, or loses some.
LEMMA GotoNoGain ==
  ASSUME TypeOK, Busy, NEW w \in Workers, NEW p \in AttemptPC \ {"idle"}, Goto(w, p),
         \/ att[w].pc \in {"timer", "sendLog", "query", "mark", "open"}
         \/ att[w].pc \in {"post", "complete", "reset", "again"} /\ p \in {"complete", "reset", "again", "readRetry"}
         \/ p \in {"cache", "writeRetry"} /\ att[w].pc # "idle"
  PROVE  NoGain
<1>1. /\ att'[w].pc = p /\ att'[w].file = att[w].file /\ att'[w].retry = att[w].retry
      /\ \A v \in Workers \ {w} : att'[v] = att[v]
  BY GotoTyped
<1>2. \A v \in Workers : Left(v) \in 0..(RETRY_TIME + 1)
  BY LeftNat
<1>3. \A v \in Workers \ {w} : Left(v)' = Left(v)
  BY <1>1 DEF Left
<1>4. Left(w)' = 0 \/ Left(w)' <= Left(w)
  BY <1>1, LeftNat DEF Left
<1> QED
  BY <1>1, <1>2, <1>3, <1>4 DEF NoGain

LEMMA EndNoGain ==
  ASSUME TypeOK, Busy, NEW w \in Workers, End(w)
  PROVE  NoGain
<1>1. Left(w)' = 0 /\ \A v \in Workers \ {w} : att'[v] = att[v] /\ Left(v)' = Left(v)
  BY EndTyped DEF Left
<1> QED
  BY <1>1, LeftNat DEF NoGain

LEMMA AttemptTokens ==
  ASSUME IInv, TypeOK', TokenInv, NEW w \in Workers,
         \/ SendLog(w) \/ AddToCache(w) \/ Query(w) \/ Mark(w) \/ Complete(w) \/ Reset(w)
         \/ (\E a \in Answers : Post(w, a)) \/ ReadRetry(w) \/ WriteRetry(w) \/ Fire(w)
  PROVE  TokenInv'
<1> USE DEF At, history
<1>1. TypeOK /\ Busy
  BY DEF IInv
<1>2. posts' = posts /\ sends' = sends
  BY DEF SendLog, AddToCache, Query, Mark, Complete, Reset, Post, ReadRetry, WriteRetry, Fire
<1>3. NoGain
  <2>1. CASE SendLog(w) \/ Query(w)
    BY <1>1, <2>1, GotoNoGain, EndNoGain DEF SendLog, Query, AttemptPC
  <2>2. CASE AddToCache(w) \/ Complete(w) \/ WriteRetry(w)
    BY <1>1, <2>2, EndNoGain DEF AddToCache, Complete, WriteRetry
  <2>3. CASE Mark(w) \/ Fire(w)
    BY <1>1, <2>3, GotoNoGain DEF Mark, Fire, AttemptPC
  <2>4. CASE Reset(w)
    BY <1>1, <2>4, GotoNoGain DEF Reset, AttemptPC
  <2>5. CASE \E a \in Answers : Post(w, a)
    BY <1>1, <2>5, GotoNoGain, EndNoGain DEF Post, AttemptPC
  <2>6. CASE ReadRetry(w)
    <3>1. CASE End(w)
      BY <1>1, <3>1, EndNoGain
    <3>2. CASE att' = [att EXCEPT ![w].pc = "writeRetry", ![w].seen = rows[att[w].file].retry]
      <4>1. att[w] \in Attempt
        BY <1>1 DEF TypeOK
      <4>2. att'[w].pc = "writeRetry" /\ \A v \in Workers \ {w} : att'[v] = att[v]
        BY <1>1, <3>2, <4>1 DEF TypeOK, Attempt
      <4>3. Left(w)' = 0 /\ \A v \in Workers \ {w} : Left(v)' = Left(v)
        BY <4>2 DEF Left
      <4> QED
        BY <1>1, <4>2, <4>3, LeftNat DEF NoGain
    <3> QED
      BY <2>6, <3>1, <3>2 DEF ReadRetry
  <2> QED
    BY <2>1, <2>2, <2>3, <2>4, <2>5, <2>6
<1> QED
  BY <1>1, <1>2, <1>3, NoGainTokens

LEMMA AgainTokens ==
  ASSUME IInv, TypeOK', TokenInv, NEW w \in Workers, Again(w)
  PROVE  TokenInv'
<1>1. posts' = posts /\ sends' = sends /\ At(w, "again") /\ TypeOK /\ Busy
  BY DEF Again, IInv
<1>2. CASE Goto(w, "readRetry")
  <2>1. NoGain
    BY <1>1, <1>2, GotoNoGain DEF AttemptPC, At
  <2> QED
    BY <1>1, <2>1, NoGainTokens
<1>3. CASE ~Goto(w, "readRetry")
  BY <1>1, <1>3, RetryTokens DEF Again
<1> QED
  BY <1>2, <1>3

\* Everything else leaves attempts, posts and SENDs alone, or ends all attempts.
LEMMA OtherTokens ==
  ASSUME IInv, TypeOK', TokenInv, att' = att \/ att' = [w \in Workers |-> Idle],
         posts' = posts, sends' = sends
  PROVE  TokenInv'
<1>1. NoGain
  BY LeftNat, IdleTyped DEF IInv, NoGain, Left
<1> QED
  BY <1>1, NoGainTokens DEF IInv

LEMMA NextTokens == IInv /\ IInv' /\ TokenInv /\ [Next]_vars => TokenInv'
<1> SUFFICES ASSUME IInv, TypeOK', TokenInv, [Next]_vars PROVE TokenInv'
  BY DEF IInv
<1>1. CASE \E f \in Files : ExecSend(f)
  BY <1>1, ExecSendTokens
<1>2. CASE \E w \in Workers : Worker(w)
  BY <1>2, AttemptTokens, AgainTokens, OpenTokens DEF Worker
<1>3. CASE \E t \in Timers : Fire(t)
  BY <1>3, AttemptTokens DEF Workers
<1>4. CASE \/ \E f \in Files : DeleteFile(f)
           \/ \E force \in BOOLEAN : FeedBack(force)
           \/ StartRetry \/ TaskStep
  <2>1. att' = att /\ posts' = posts /\ sends' = sends
    BY <1>4 DEF DeleteFile, FeedBack, StartRetry, TaskStep, FeedBackSend, RefreshRow,
                DropExhausted, SendNeedRetry, SyncDelete, history
  <2> QED
    BY <2>1, OtherTokens
<1>5. CASE NetStep \/ NetworkDown \/ NetworkUp \/ UNCHANGED vars
  <2>1. att' = att /\ posts' = posts /\ sends' = sends
    BY <1>5 DEF NetStep, CacheToArray, CacheClear, NetRetry, NetworkDown, NetworkUp, vars, history
  <2> QED
    BY <2>1, OtherTokens
<1>6. CASE Crash
  BY <1>6, OtherTokens DEF Crash
<1> QED
  BY <1>1, <1>2, <1>3, <1>4, <1>5, <1>6 DEF Next

LEMMA InitTokens == Init => TokenInv
<1> SUFFICES ASSUME Init, NEW f \in Files
             PROVE  /\ IsFiniteSet(Tokens(f))
                    /\ posts[f] + Cardinality(Tokens(f)) <= (RETRY_TIME + 1) * sends[f]
  BY DEF TokenInv
<1>1. \A w \in Workers : Left(w) = 0
  BY IdleTyped DEF Init, Left
<1>2. Tokens(f) = {}
  BY <1>1 DEF Tokens
<1>3. posts[f] = 0 /\ (RETRY_TIME + 1) * sends[f] = 0
  BY FlowAssumption DEF Init
<1> QED
  BY <1>2, <1>3, FS_EmptySet

\* A SEND leads to at most RETRY_TIME + 1 posts, for any number of SENDs, timers and
\* concurrent attempts: onPostFail hands an attempt on and never doubles it.
THEOREM PostsAreBounded == Spec => []ChainsDontFork
<1>1. Spec => []TokenInv
  BY Inductive, InitTokens, NextTokens, PTL DEF Spec
<1>2. IInv /\ TokenInv => ChainsDontFork
  <2> SUFFICES ASSUME IInv, TokenInv, NEW f \in Files
               PROVE  posts[f] <= (RETRY_TIME + 1) * sends[f]
    BY DEF ChainsDontFork
  <2>1. Cardinality(Tokens(f)) \in Nat
    BY FS_CardinalityType DEF TokenInv
  <2>2. posts[f] \in Nat /\ (RETRY_TIME + 1) * sends[f] \in Nat
    BY FlowAssumption DEF IInv, TypeOK
  <2> QED
    BY <2>1, <2>2 DEF TokenInv
<1> QED
  BY <1>1, <1>2, Inductive, PTL

-------------------------------------------------------------------------------
(* DoingIsHeld: before StartRetryUTask has selected the DOING rows any row may *)
(* be left from an earlier process; what it has selected is in its list until  *)
(* it is set back; and what becomes DOING afterwards has an attempt.           *)

Flying == {"open", "post", "complete", "reset"}

\* refreshIllegalStatus has yet to set the row of f back.
Pending(f) == ~refreshed /\ task.pc # "needRetry" /\ (task.pc = "reset" => f \in task.files)

HeldInv ==
    /\ task.pc \in {"reset", "needRetry"} => ~refreshed
    /\ \A f \in Files : Status(f) = DOING => InFlight(f) \/ Pending(f)

\* No attempt is lost from flight, except for a file whose row it has settled.
StillFlying ==
    \A v \in Workers, f \in Files : att[v].pc \in Flying /\ att[v].file = f =>
        (att'[v].pc \in Flying /\ att'[v].file = f) \/ Status(f)' # DOING

NewlyDoing == \A f \in Files : Status(f)' = DOING => Status(f) = DOING \/ InFlight(f)'

LEMMA FlyingHeld ==
  ASSUME HeldInv, StillFlying, NewlyDoing, refreshed' = refreshed,
         task' = task \/ task'.pc \notin {"reset", "needRetry"}
  PROVE  HeldInv'
<1>1. (task.pc \in {"reset", "needRetry"} => ~refreshed)'
  BY DEF HeldInv
<1>2. \A f \in Files : Pending(f) => Pending(f)'
  BY DEF Pending
<1>3. ASSUME NEW f \in Files, InFlight(f), Status(f)' = DOING PROVE InFlight(f)'
  <2>1. PICK v \in Workers : att[v].file = f /\ att[v].pc \in Flying
    BY <1>3 DEF InFlight, Flying
  <2>2. att'[v].pc \in Flying /\ att'[v].file = f
    BY <1>3, <2>1 DEF StillFlying
  <2> QED
    BY <2>2 DEF InFlight, Flying
<1> QED
  BY <1>1, <1>2, <1>3 DEF HeldInv, NewlyDoing

\* One thread goes on, the table stays: what is in flight remains so.
LEMMA StepHeld ==
  ASSUME IInv, HeldInv, NEW w \in Workers, UNCHANGED <<rows, task, refreshed>>,
         \A v \in Workers \ {w} : att'[v] = att[v],
         att[w].pc \in Flying => att'[w].pc \in Flying /\ att'[w].file = att[w].file
  PROVE  HeldInv'
<1>1. StillFlying /\ NewlyDoing
  BY DEF StillFlying, NewlyDoing, Status, HasRow
<1> QED
  BY <1>1, FlyingHeld

LEMMA StatusOf ==
  ASSUME TypeOK, NEW f \in Files, NEW s \in {INITIAL, COMPLETE, DOING}, rows' = SetStatus(f, s)
  PROVE  /\ Status(f)' = DOING => s = DOING
         /\ \A g \in Files \ {f} : Status(g)' = Status(g)
<1>1. \A g \in Files : \/ rows'[g] = rows[g]
                       \/ g = f /\ HasRow(f) /\ rows'[f] # NoRow /\ rows'[f].status = s
  BY SetStatusTyped
<1>2. ~HasRow(f) => rows'[f] = NoRow
  BY <1>1 DEF HasRow
<1>3. HasRow(f) => rows'[f].status = s
  <2> SUFFICES ASSUME HasRow(f) PROVE rows'[f].status = s
    OBVIOUS
  <2>1. rows[f] \in Row /\ rows' = [rows EXCEPT ![f].status = s]
    BY DEF SetStatus, HasRow, TypeOK
  <2> QED
    BY <2>1 DEF TypeOK, Row
<1> QED
  BY <1>1, <1>2, <1>3, RowAssumption DEF Status, HasRow

\* A thread sets the row of its file, and goes on or ends.
LEMMA UpdateHeld ==
  ASSUME IInv, HeldInv, NEW w \in Workers, NEW s \in {INITIAL, COMPLETE, DOING},
         att[w].file \in Files, rows' = SetStatus(att[w].file, s),
         UNCHANGED <<task, refreshed>>,
         \A v \in Workers \ {w} : att'[v] = att[v],
         s = DOING => att'[w].pc \in Flying /\ att'[w].file = att[w].file
  PROVE  HeldInv'
<1>1. PICK f \in Files : f = att[w].file
  OBVIOUS
<1>2. /\ Status(f)' = DOING => s = DOING
      /\ \A g \in Files \ {f} : Status(g)' = Status(g)
  BY <1>1, StatusOf DEF IInv
<1>3. StillFlying
  <2> SUFFICES ASSUME NEW v \in Workers, NEW g \in Files,
                      att[v].pc \in Flying, att[v].file = g, Status(g)' = DOING
               PROVE  att'[v].pc \in Flying /\ att'[v].file = g
    BY DEF StillFlying
  <2>1. CASE v = w
    BY <1>1, <1>2, <2>1
  <2>2. CASE v # w
    BY <2>2
  <2> QED
    BY <2>1, <2>2
<1>4. NewlyDoing
  <2> SUFFICES ASSUME NEW g \in Files, Status(g)' = DOING, Status(g) # DOING PROVE InFlight(g)'
    BY DEF NewlyDoing
  <2>1. g = att[w].file /\ s = DOING
    BY <1>1, <1>2
  <2> QED
    BY <2>1 DEF InFlight, Flying
<1> QED
  BY <1>3, <1>4, FlyingHeld

\* LoganThread, or the thread that retries after an outage, changes the table.
LEMMA TableHeld ==
  ASSUME HeldInv, att' = att, refreshed' = refreshed,
         task' = task \/ task'.pc \notin {"reset", "needRetry"},
         \A f \in Files : rows'[f] = NoRow \/ rows'[f] = rows[f] \/ rows'[f].status = INITIAL
  PROVE  HeldInv'
<1>1. NewlyDoing
  BY RowAssumption DEF NewlyDoing, Status, HasRow, INITIAL, DOING
<1>2. StillFlying
  BY DEF StillFlying
<1> QED
  BY <1>1, <1>2, FlyingHeld

\* No access to the table fails.
NothingLost ==
    /\ ~TaskLost /\ ~NetLost
    /\ \A w \in Workers : ~Lost(w)

LEMMA NeverLost == SharedClose = FALSE => NothingLost
BY DEF NothingLost, TaskLost, NetLost, Lost

LEMMA WorkerHeld ==
  ASSUME NothingLost, "empty" \notin Answers, IInv, HeldInv, NEW w \in Workers,
         Worker(w) \/ Fire(w)
  PROVE  HeldInv'
<1> USE DEF At, history
<1>1. TypeOK /\ Busy /\ Acknowledged /\ ~Lost(w)
  BY DEF IInv, NothingLost
<1>2. CASE SendLog(w) \/ AddToCache(w) \/ Query(w) \/ Fire(w)
  <2>1. /\ UNCHANGED <<rows, task, refreshed>> /\ att[w].pc \notin Flying
        /\ att[w].pc # "idle"
        /\ End(w) \/ \E p \in {"query", "cache", "mark", "sendLog"} : Goto(w, p)
    BY <1>2 DEF SendLog, AddToCache, Query, Fire, Flying
  <2>2. \A v \in Workers \ {w} : att'[v] = att[v]
    BY <1>1, <2>1, EndTyped, GotoTyped DEF AttemptPC
  <2> QED
    BY <2>1, <2>2, StepHeld
<1>3. CASE Open(w) \/ \E a \in Answers : Post(w, a)
  <2>1. /\ UNCHANGED <<rows, task, refreshed>> /\ att[w].pc # "idle"
        /\ \E p \in {"post", "reset", "complete"} : Goto(w, p)
    BY <1>3 DEF Open, Post
  <2>2. /\ \A v \in Workers \ {w} : att'[v] = att[v]
        /\ att'[w].pc \in Flying /\ att'[w].file = att[w].file
    BY <1>1, <2>1, GotoTyped DEF AttemptPC, Flying
  <2> QED
    BY <2>1, <2>2, StepHeld
<1>4. CASE Mark(w)
  <2>1. /\ UNCHANGED <<task, refreshed>> /\ att[w].pc # "idle" /\ att[w].file \in Files
        /\ Goto(w, "open") /\ rows' = SetStatus(att[w].file, DOING)
    BY <1>1, <1>4 DEF Mark, Update, Busy
  <2>2. /\ \A v \in Workers \ {w} : att'[v] = att[v]
        /\ att'[w].pc \in Flying /\ att'[w].file = att[w].file
    BY <1>1, <2>1, GotoTyped DEF AttemptPC, Flying
  <2> QED
    BY <2>1, <2>2, UpdateHeld
<1>5. CASE Complete(w)
  <2>1. /\ UNCHANGED <<task, refreshed>> /\ att[w].file \in Files
        /\ End(w) /\ rows' = SetStatus(att[w].file, COMPLETE)
    BY <1>1, <1>5 DEF Complete, Update, Busy
  <2> QED
    BY <1>1, <2>1, EndTyped, UpdateHeld DEF COMPLETE, DOING
<1>6. CASE Reset(w)
  <2>1. /\ UNCHANGED <<task, refreshed>> /\ att[w].pc # "idle" /\ att[w].file \in Files
        /\ Goto(w, "again") /\ rows' = SetStatus(att[w].file, INITIAL)
    BY <1>1, <1>6 DEF Reset, Update, Busy
  <2>2. \A v \in Workers \ {w} : att'[v] = att[v]
    BY <1>1, <2>1, GotoTyped DEF AttemptPC
  <2> QED
    BY <2>1, <2>2, UpdateHeld DEF INITIAL, DOING
<1>7. CASE Again(w)
  <2>1. UNCHANGED <<rows, task, refreshed>> /\ att[w].pc = "again"
    BY <1>7 DEF Again
  <2>2. \A v \in Workers : att[v].pc \in Flying => att'[v] = att[v]
    <3>1. CASE Goto(w, "readRetry")
      BY <1>1, <2>1, <3>1, GotoTyped DEF AttemptPC, Flying
    <3>2. CASE ~Goto(w, "readRetry")
      <4>1. PICK t \in Slots(w) :
               att' = [v \in Workers |->
                          IF v = t THEN [att[w] EXCEPT !.pc = "timer", !.retry = @ + 1]
                          ELSE IF v = w THEN Idle ELSE att[v]]
        BY <1>7, <3>2 DEF Again
      <4>2. att[t].pc \notin Flying /\ att[w].pc \notin Flying
        BY <2>1, <4>1 DEF Slots, Flying
      <4> QED
        BY <4>1, <4>2
    <3> QED
      BY <3>1, <3>2
  <2>3. StillFlying /\ NewlyDoing
    BY <2>1, <2>2 DEF StillFlying, NewlyDoing, Status, HasRow
  <2> QED
    BY <2>1, <2>3, FlyingHeld
<1>8. CASE ReadRetry(w)
  <2>1. UNCHANGED <<rows, task, refreshed>> /\ att[w].pc \notin Flying
    BY <1>8 DEF ReadRetry, Flying
  <2>2. \A v \in Workers \ {w} : att'[v] = att[v]
    BY <1>1, <1>8 DEF ReadRetry, End, TypeOK
  <2> QED
    BY <2>1, <2>2, StepHeld
<1>9. CASE WriteRetry(w)
  <2>1. /\ UNCHANGED <<task, refreshed>> /\ att[w].pc = "writeRetry" /\ att[w].file \in Files
        /\ End(w) /\ rows' = SetRetry(att[w].file, att[w].seen + 1)
    BY <1>1, <1>9 DEF WriteRetry, Update, Busy
  <2>2. att[w].seen + 1 \in Nat
    BY <1>1 DEF TypeOK, Attempt
  <2>3. \A f \in Files : Status(f)' = Status(f)
    BY <1>1, <2>1, <2>2, SetRetryTyped DEF Status, HasRow
  <2>4. \A v \in Workers \ {w} : att'[v] = att[v]
    BY <1>1, <2>1, EndTyped
  <2>5. StillFlying /\ NewlyDoing
    BY <2>1, <2>3, <2>4 DEF StillFlying, NewlyDoing, Flying
  <2> QED
    BY <2>1, <2>5, FlyingHeld
<1> QED
  BY <1>2, <1>3, <1>4, <1>5, <1>6, <1>7, <1>8, <1>9 DEF Worker

LEMMA ExecSendHeld ==
  ASSUME IInv, HeldInv, NEW f \in Files, ExecSend(f)
  PROVE  HeldInv'
<1>1. /\ Exec \in Workers /\ att[Exec].pc = "idle" /\ UNCHANGED <<rows, task, refreshed>>
      /\ \A v \in Workers \ {Exec} : att'[v] = att[v]
  BY DEF ExecSend, At, Workers, IInv, TypeOK
<1> QED
  BY <1>1, StepHeld DEF Flying

\* What StartRetryUTask selects are all DOING rows, and what it sets back is one of them.
LEMMA RefreshHeld ==
  ASSUME NothingLost, IInv, HeldInv,
         StartRetry \/ (\E f \in Files : RefreshRow(f)) \/ DropExhausted \/ SendNeedRetry
  PROVE  HeldInv'
<1> USE DEF history
<1>1. ~TaskLost
  BY DEF NothingLost
<1>2. CASE StartRetry
  <2>1. /\ UNCHANGED <<rows, att, refreshed>> /\ ~refreshed
        /\ task' = [pc |-> "reset", files |-> {f \in Files : Status(f) = DOING}, force |-> FALSE]
    BY <1>1, <1>2 DEF StartRetry, Reached
  <2>2. \A f \in Files : Status(f)' = DOING => Pending(f)'
    BY <2>1 DEF Pending, Status, HasRow
  <2> QED
    BY <2>1, <2>2 DEF HeldInv
<1>3. ASSUME NEW f \in Files, RefreshRow(f) PROVE HeldInv'
  <2>1. /\ UNCHANGED <<att, refreshed>> /\ task.pc = "reset"
        /\ rows' = SetStatus(f, INITIAL) /\ task' = [task EXCEPT !.files = @ \ {f}]
    BY <1>1, <1>3 DEF RefreshRow
  <2>2. task'.pc = "reset" /\ task'.files = task.files \ {f}
    BY <2>1 DEF IInv, TypeOK, Task
  <2>3. Status(f)' # DOING /\ \A g \in Files \ {f} : Status(g)' = Status(g)
    BY <2>1, StatusOf DEF IInv, INITIAL, DOING
  <2>4. \A g \in Files \ {f} : Status(g)' = DOING => InFlight(g)' \/ Pending(g)'
    BY <2>1, <2>2, <2>3 DEF HeldInv, Pending, InFlight
  <2> QED
    BY <2>1, <2>2, <2>3, <2>4 DEF HeldInv
<1>4. CASE DropExhausted
  <2>1. /\ UNCHANGED <<att, refreshed>> /\ task.pc = "reset" /\ task.files = {}
        /\ task' = [task EXCEPT !.pc = "needRetry"]
        /\ \A f \in Files : rows'[f] = NoRow \/ rows'[f] = rows[f]
    BY <1>4 DEF DropExhausted
  <2>2. \A f \in Files : Status(f)' = DOING => InFlight(f)'
    <3>1. \A f \in Files : Status(f)' = DOING => Status(f) = DOING
      BY <2>1, RowAssumption DEF Status, HasRow
    <3> QED
      BY <2>1, <3>1 DEF HeldInv, Pending, InFlight
  <2>3. ~refreshed'
    BY <2>1 DEF HeldInv
  <2> QED
    BY <2>2, <2>3 DEF HeldInv
<1>5. CASE SendNeedRetry
  <2>1. /\ UNCHANGED att /\ task.pc = "needRetry" /\ task' = NoTask
        /\ \A f \in Files : rows'[f] = NoRow \/ rows'[f] = rows[f]
    BY <1>5 DEF SendNeedRetry, StartRetryOf
  <2>2. \A f \in Files : Status(f)' = DOING => InFlight(f)'
    <3>1. \A f \in Files : Status(f)' = DOING => Status(f) = DOING
      BY <2>1, RowAssumption DEF Status, HasRow
    <3> QED
      BY <2>1, <3>1 DEF HeldInv, Pending, InFlight
  <2> QED
    BY <2>1, <2>2 DEF HeldInv, NoTask
<1> QED
  BY <1>2, <1>3, <1>4, <1>5

LEMMA OtherHeld ==
  ASSUME HeldInv,
         \/ \E force \in BOOLEAN : FeedBack(force)
         \/ FeedBackSend \/ SyncDelete \/ (\E f \in Files : DeleteFile(f))
         \/ NetStep \/ NetworkDown \/ NetworkUp \/ UNCHANGED vars
  PROVE  HeldInv'
<1> USE DEF history
<1>1. CASE \E force \in BOOLEAN : FeedBack(force)
  <2>1. /\ UNCHANGED <<att, refreshed>> /\ task'.pc = "filter"
        /\ \A f \in Files : rows'[f] = rows[f] \/ rows'[f].status = INITIAL
    BY <1>1 DEF FeedBack
  <2> QED
    BY <2>1, TableHeld
<1>2. CASE FeedBackSend \/ SyncDelete \/ \E f \in Files : DeleteFile(f)
  <2>1. /\ UNCHANGED <<att, refreshed>> /\ task'.pc \in {"idle", "syncDelete"}
        /\ \A f \in Files : rows'[f] = NoRow \/ rows'[f] = rows[f]
    BY <1>2 DEF FeedBackSend, SyncDelete, DeleteFile, NoTask
  <2> QED
    BY <2>1, TableHeld
<1>3. CASE NetStep \/ NetworkDown \/ NetworkUp \/ UNCHANGED vars
  <2>1. /\ UNCHANGED <<att, refreshed, task>>
        /\ \A f \in Files : rows'[f] = NoRow \/ rows'[f] = rows[f]
    BY <1>3 DEF NetStep, CacheToArray, CacheClear, NetRetry, StartRetryOf, NetworkDown,
                NetworkUp, vars
  <2> QED
    BY <2>1, TableHeld
<1> QED
  BY <1>1, <1>2, <1>3

LEMMA CrashHeld == Crash => HeldInv'
<1> SUFFICES ASSUME Crash PROVE HeldInv'
  OBVIOUS
<1>1. refreshed' = FALSE /\ task' = NoTask
  BY DEF Crash
<1> QED
  BY <1>1 DEF HeldInv, Pending, NoTask

\* With a table whose accesses do not fail, and servers that either accept or refuse,
\* a DOING row always has an attempt under way once StartRetryUTask has run: the
\* SELECT of refreshIllegalStatus and its row by row updates miss no row, though
\* attempts mark and settle rows between them (LoganUFileDao 252-270).  The two
\* hypotheses are needed: UploadStuck shows the row that an empty answer leaves.
THEOREM NothingIsStuck ==
  SharedClose = FALSE /\ "empty" \notin Answers /\ Spec => []DoingIsHeld
<1> SUFFICES ASSUME SharedClose = FALSE, "empty" \notin Answers PROVE Spec => []DoingIsHeld
  OBVIOUS
<1>1. Init => HeldInv
  BY RowAssumption DEF Init, HeldInv, NoTask, Status, HasRow, DOING
<1>2. IInv /\ HeldInv /\ [Next]_vars => HeldInv'
  <2> SUFFICES ASSUME IInv, HeldInv, [Next]_vars PROVE HeldInv'
    OBVIOUS
  <2>1. NothingLost
    BY NeverLost
  <2>2. CASE \/ \E f \in Files : ExecSend(f)
             \/ \E w \in Workers : Worker(w)
             \/ \E t \in Timers : Fire(t)
    BY <2>1, <2>2, ExecSendHeld, WorkerHeld DEF Workers
  <2>3. CASE StartRetry \/ TaskStep
    BY <2>1, <2>3, RefreshHeld, OtherHeld DEF TaskStep
  <2>4. CASE \/ \E f \in Files : DeleteFile(f)
             \/ \E force \in BOOLEAN : FeedBack(force)
             \/ NetStep \/ NetworkDown \/ NetworkUp \/ UNCHANGED vars
    BY <2>4, OtherHeld
  <2>5. CASE Crash
    BY <2>5, CrashHeld
  <2> QED
    BY <2>2, <2>3, <2>4, <2>5 DEF Next
<1>3. HeldInv => DoingIsHeld
  BY DEF HeldInv, DoingIsHeld, Pending
<1> QED
  BY <1>1, <1>2, <1>3, Inductive, PTL DEF Spec
===============================================================================
