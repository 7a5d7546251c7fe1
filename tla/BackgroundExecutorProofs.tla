------------------------ MODULE BackgroundExecutorProofs ------------------------
(***************************************************************************)
(* What BackgroundThreadExecutor guarantees for any tasks and any number of *)
(* callers: a task is in one place at a time on its way from a call over    *)
(* the memento, the timer and the queue to its run, and one that was        *)
(* cancelled in time is in none from which it would run.                    *)
(***************************************************************************)
EXTENDS BackgroundExecutor, TLAPS

CallRecord == [pc : {"idle", "hand", "keep"}, task : Tasks \cup {NoTask}, kind : Kinds]
Pcs == {"start", "test", "replay", "post", "clear", "loop", "cancelled", "modified"}

\* A thread that is in a call has a task, one that is not has none.
CallInv ==
    \A w \in Threads : call[w].task = NoTask <=> call[w].pc = "idle"

\* The replay stays within the memento, at most one past its end.
ReplayInv ==
    looper.pc \in {"replay", "post", "clear"} =>
       looper.next \in 1..(Len(memento) + 1) /\ (looper.pc = "post" => looper.next <= Len(memento))

\* The entries of the memento that may still be handed over
Live(i) ==
    /\ i \in 1..Len(memento)
    /\ \/ looper.pc \in {"start", "test"}
       \/ looper.pc \in {"replay", "post", "clear"} /\ i >= looper.next

\* Where task t may be
InMemento(t) == \E i \in 1..Len(memento) : Live(i) /\ memento[i].task = t
InQueue(t) == \E i \in 1..Len(queue) : queue[i].task = t
InCall(t) == \E w \in Threads : call[w].task = t

\* Once in each place, and in one place
PlaceInv ==
    /\ \A i, j \in 1..Len(memento) : Live(i) /\ Live(j) /\ memento[i].task = memento[j].task => i = j
    /\ \A i, j \in 1..Len(queue) : queue[i].task = queue[j].task => i = j
    /\ \A v, w \in Threads : call[v].task = call[w].task /\ call[v].task # NoTask => v = w
    /\ \A t \in Tasks :
          /\ InMemento(t) => ~InQueue(t) /\ t \notin timer /\ ~InCall(t) /\ runs[t] = 0
          /\ InQueue(t) => t \notin timer /\ ~InCall(t) /\ runs[t] = 0
          /\ t \in timer => ~InCall(t) /\ runs[t] = 0
          /\ InCall(t) => runs[t] = 0
          /\ runs[t] <= 1

\* What was not handed over is nowhere.
CalledInv ==
    \A t \in Tasks : t \notin called =>
       ~InMemento(t) /\ ~InQueue(t) /\ t \notin timer /\ ~InCall(t) /\ runs[t] = 0

\* What was cancelled in time is neither delayed nor in a call, and an entry of it is
\* one that is dropped when its turn comes.
InTimeInv ==
    /\ \A i \in 1..Len(queue) : queue[i].kind # "schedule"
    /\ \A t \in inTime :
          /\ t \in cancelled /\ t \notin timer /\ ~InCall(t) /\ runs[t] = 0
          /\ \A i \in 1..Len(queue) : queue[i].task = t => queue[i].kind = "submit"
          /\ \A i \in 1..Len(memento) : memento[i].task = t => memento[i].kind # "execute"

EInv == TypeOK /\ CallInv /\ ReplayInv /\ PlaceInv /\ CalledInv /\ InTimeInv

-------------------------------------------------------------------------------
LEMMA InitE == Init => EInv
<1> SUFFICES ASSUME Init PROVE EInv
  OBVIOUS
<1>1. /\ memento = <<>> /\ queue = <<>> /\ Len(memento) = 0 /\ Len(queue) = 0
      /\ \A w \in Threads : call[w] = NoCall
      /\ looper.pc = "start" /\ NoCall.task = NoTask /\ NoCall.pc = "idle"
  BY DEF Init, NoCall
<1>2. TypeOK
  <2>1. <<>> \in Seq(Entry) /\ NoCall \in CallRecord
    BY DEF NoCall, CallRecord, Kinds
  <2> QED
    BY <2>1 DEF Init, TypeOK, CallRecord
<1>3. CallInv /\ ReplayInv
  BY <1>1 DEF CallInv, ReplayInv
<1>4. \A t \in Tasks : ~InMemento(t) /\ ~InQueue(t) /\ ~InCall(t) /\ runs[t] = 0 /\ t \notin timer
  BY <1>1, ExecutorAssumption DEF InMemento, InQueue, InCall, Init
<1>5. PlaceInv /\ CalledInv /\ InTimeInv
  BY <1>1, <1>4 DEF PlaceInv, CalledInv, InTimeInv, Init
<1> QED
  BY <1>2, <1>3, <1>5 DEF EInv

\* A step that leaves every place alone
LEMMA SamePlaces ==
  ASSUME EInv, UNCHANGED <<memento, queue, timer, call, runs, called, cancelled, inTime>>,
         \A i \in 1..Len(memento) : Live(i)' => Live(i)
  PROVE  PlaceInv' /\ CalledInv' /\ InTimeInv' /\ CallInv'
<1> USE DEF EInv
<1>1. \A t \in Tasks : /\ InMemento(t)' => InMemento(t)
                       /\ InQueue(t)' = InQueue(t) /\ InCall(t)' = InCall(t)
  BY DEF InMemento, InQueue, InCall
<1>2. PlaceInv'
  BY <1>1 DEF PlaceInv
<1>3. CalledInv'
  BY <1>1 DEF CalledInv
<1>4. InTimeInv'
  BY <1>1 DEF InTimeInv, TypeOK
<1> QED
  BY <1>2, <1>3, <1>4 DEF CallInv

LEMMA LooperStepE ==
  ASSUME EInv, SetHandler \/ TestEmpty \/ Replay PROVE EInv'
<1> USE DEF EInv
<1>1. /\ UNCHANGED <<synced, memento, queue, timer, call, called, cancelled, inTime, runs>>
      /\ Len(memento) \in Nat /\ looper.next \in Nat
      /\ memento \in Seq(Entry)
      /\ looper \in [pc : Pcs, next : Nat, size : Nat]
  BY DEF SetHandler, TestEmpty, Replay, TypeOK, Pcs
<1>2. handler' \in BOOLEAN /\ looper' \in [pc : Pcs, next : Nat, size : Nat]
  <2>1. handler' \in BOOLEAN
    BY DEF SetHandler, TestEmpty, Replay, TypeOK
  <2>2. CASE \E pc \in Pcs : LooperTo(pc)
    BY <1>1, <2>1, <2>2 DEF LooperTo
  <2>3. CASE TestEmpty
    BY <1>1, <2>1, <2>3 DEF TestEmpty, Pcs
  <2>4. CASE looper' = [looper EXCEPT !.next = @ + 1]
    BY <1>1, <2>1, <2>4
  <2> QED
    BY <2>2, <2>3, <2>4 DEF SetHandler, Replay, Pcs
<1>3. CASE SetHandler
  <2>1. looper.pc = "start" /\ looper'.pc = "test"
    BY <1>1, <1>3 DEF SetHandler, LooperAt, LooperTo
  <2> QED
    BY <1>1, <1>2, <2>1, SamePlaces DEF Live, ReplayInv, TypeOK, Pcs
<1>4. CASE TestEmpty
  <2>1. looper.pc = "test" /\ looper'.pc \in {"loop", "replay"} /\ looper'.next = 1
    BY <1>4 DEF TestEmpty, LooperAt
  <2> QED
    BY <1>1, <1>2, <2>1, SamePlaces DEF Live, ReplayInv, TypeOK, Pcs
<1>5. CASE Replay
  <2>1. looper.pc = "replay" /\ looper.next \in 1..(Len(memento) + 1)
    BY <1>5 DEF Replay, LooperAt, ReplayInv
  <2>2. \/ looper'.pc = "clear" /\ looper'.next = looper.next
        \/ looper'.pc = "modified"
        \/ /\ looper.next <= Len(memento)
           /\ \/ looper'.pc = "replay" /\ looper'.next = looper.next + 1
              \/ looper'.pc = "post" /\ looper'.next = looper.next
    BY <1>1, <1>5, <2>1 DEF Replay, LooperTo
  <2>3. ReplayInv'
    BY <1>1, <2>1, <2>2 DEF ReplayInv
  <2>4. \A i \in 1..Len(memento) : Live(i)' => Live(i)
    BY <1>1, <2>1, <2>2 DEF Live
  <2>5. looper'.pc = "post" => looper'.next \in DOMAIN memento
    BY <1>1, <2>1, <2>2
  <2>6. TypeOK'
    BY <1>1, <1>2, <2>5 DEF TypeOK, Pcs
  <2> QED
    BY <1>1, <2>3, <2>4, <2>6, SamePlaces
<1> QED
  BY <1>3, <1>4, <1>5

-------------------------------------------------------------------------------
(* A call, by a client or when a delay is over *)

LEMMA BeginFacts ==
  ASSUME TypeOK, CallInv, NEW w \in Threads, NEW t \in Tasks, NEW kind \in Kinds,
         Begin(w, t, kind), call[w].pc = "idle"
  PROVE  /\ call' \in [Threads -> CallRecord] /\ CallInv'
         /\ call'[w].task = t /\ call'[w].kind = kind
         /\ \A v \in Threads : v # w => call'[v] = call[v]
         /\ \A q \in Tasks : InCall(q)' <=> InCall(q) \/ q = t
<1>1. PICK pc \in {"hand", "keep"} : call' = [call EXCEPT ![w] = [pc |-> pc, task |-> t, kind |-> kind]]
  BY DEF Begin
<1>2. call \in [Threads -> CallRecord] /\ t # NoTask
  BY ExecutorAssumption DEF TypeOK, CallRecord
<1>3. /\ call'[w] = [pc |-> pc, task |-> t, kind |-> kind]
      /\ \A v \in Threads : v # w => call'[v] = call[v]
      /\ call' \in [Threads -> CallRecord]
  BY <1>1, <1>2 DEF CallRecord
<1>4. CallInv'
  BY <1>2, <1>3 DEF CallInv
<1>5. call[w].task = NoTask
  BY DEF CallInv
<1>6. \A q \in Tasks : InCall(q)' <=> InCall(q) \/ q = t
  BY <1>3, <1>5, ExecutorAssumption DEF InCall
<1> QED
  BY <1>3, <1>4, <1>6

LEMMA CallE ==
  ASSUME EInv, NEW c \in Clients, NEW t \in Tasks, Call(c, t) PROVE EInv'
<1> USE DEF EInv
<1>1. /\ c \in Threads /\ Kind[t] \in Kinds /\ t \notin called /\ called' = called \cup {t}
      /\ call[c].pc = "idle" /\ Begin(c, t, Kind[t])
      /\ UNCHANGED <<handler, synced, memento, looper, queue, timer, cancelled, inTime, runs>>
  BY ExecutorAssumption DEF Call, Threads
<1>2. /\ call' \in [Threads -> CallRecord] /\ CallInv' /\ call'[c].task = t
      /\ \A v \in Threads : v # c => call'[v] = call[v]
      /\ \A q \in Tasks : InCall(q)' <=> InCall(q) \/ q = t
  BY <1>1, BeginFacts
<1>3. TypeOK'
  BY <1>1, <1>2 DEF TypeOK, CallRecord
<1>4. ReplayInv'
  BY <1>1 DEF ReplayInv
<1>5. \A q \in Tasks : InMemento(q)' = InMemento(q) /\ InQueue(q)' = InQueue(q)
  BY <1>1 DEF InMemento, InQueue, Live
<1>6. ~InMemento(t) /\ ~InQueue(t) /\ t \notin timer /\ ~InCall(t) /\ runs[t] = 0
  BY <1>1 DEF CalledInv
<1>7. \A v, w \in Threads : call'[v].task = call'[w].task /\ call'[v].task # NoTask => v = w
  BY <1>2, <1>6, ExecutorAssumption DEF PlaceInv, InCall
<1>8. PlaceInv'
  BY <1>1, <1>2, <1>5, <1>6, <1>7 DEF PlaceInv, Live
<1>9. CalledInv'
  BY <1>1, <1>2, <1>5 DEF CalledInv
<1>10. t \notin inTime
  BY <1>1 DEF TypeOK
<1>11. InTimeInv'
  <2>1. inTime \subseteq Tasks /\ inTime' = inTime
    BY <1>1 DEF TypeOK
  <2>2. \A q \in inTime : ~InCall(q)'
    BY <1>2, <1>10, <2>1 DEF InTimeInv
  <2> QED
    BY <1>1, <2>1, <2>2 DEF InTimeInv
<1> QED
  BY <1>2, <1>3, <1>4, <1>8, <1>9, <1>11

LEMMA FireE == ASSUME EInv, NEW t \in Tasks, Fire(t) PROVE EInv'
<1> USE DEF EInv
<1>1. /\ Timer \in Threads /\ "execute" \in Kinds /\ t \in timer /\ timer' = timer \ {t}
      /\ call[Timer].pc = "idle" /\ Begin(Timer, t, "execute")
      /\ UNCHANGED <<handler, synced, memento, looper, queue, called, cancelled, inTime, runs>>
  BY DEF Fire, Threads, Kinds
<1>2. /\ call' \in [Threads -> CallRecord] /\ CallInv' /\ call'[Timer].task = t
      /\ \A v \in Threads : v # Timer => call'[v] = call[v]
      /\ \A q \in Tasks : InCall(q)' <=> InCall(q) \/ q = t
  BY <1>1, BeginFacts
<1>3. TypeOK'
  BY <1>1, <1>2 DEF TypeOK, CallRecord
<1>4. ReplayInv'
  BY <1>1 DEF ReplayInv
<1>5. \A q \in Tasks : InMemento(q)' = InMemento(q) /\ InQueue(q)' = InQueue(q)
  BY <1>1 DEF InMemento, InQueue, Live
<1>6. ~InMemento(t) /\ ~InQueue(t) /\ ~InCall(t) /\ runs[t] = 0 /\ t \in called
  BY <1>1 DEF PlaceInv, CalledInv
<1>7. \A v, w \in Threads : call'[v].task = call'[w].task /\ call'[v].task # NoTask => v = w
  BY <1>2, <1>6, ExecutorAssumption DEF PlaceInv, InCall
<1>8. PlaceInv'
  BY <1>1, <1>2, <1>5, <1>6, <1>7 DEF PlaceInv, Live
<1>9. CalledInv'
  BY <1>1, <1>2, <1>5, <1>6 DEF CalledInv
<1>10. t \notin inTime
  BY <1>1 DEF InTimeInv
<1>11. InTimeInv'
  <2>1. inTime \subseteq Tasks /\ inTime' = inTime
    BY <1>1 DEF TypeOK
  <2>2. \A q \in inTime : ~InCall(q)'
    BY <1>2, <1>10, <2>1 DEF InTimeInv
  <2> QED
    BY <1>1, <2>1, <2>2 DEF InTimeInv
<1> QED
  BY <1>2, <1>3, <1>4, <1>8, <1>9, <1>11

\* A thread's call is over.
LEMMA CallOver ==
  ASSUME EInv, NEW w \in Threads, call[w].pc # "idle", call' = [call EXCEPT ![w] = NoCall]
  PROVE  /\ call' \in [Threads -> CallRecord] /\ CallInv' /\ call[w].task \in Tasks
         /\ EntryOf(w) \in Entry /\ EntryOf(w).task = call[w].task /\ EntryOf(w).kind = call[w].kind
         /\ \A q \in Tasks : InCall(q)' <=> InCall(q) /\ q # call[w].task
         /\ \A u, v \in Threads : call'[u].task = call'[v].task /\ call'[u].task # NoTask => u = v
<1> USE DEF EInv
<1>1. call \in [Threads -> CallRecord] /\ NoCall \in CallRecord
      /\ NoCall.task = NoTask /\ NoCall.pc = "idle"
  BY DEF TypeOK, CallRecord, NoCall, Kinds
<1>2. call'[w] = NoCall /\ \A v \in Threads : v # w => call'[v] = call[v]
  BY <1>1
<1>3. call[w].task \in Tasks /\ call[w].kind \in Kinds
  BY <1>1 DEF CallInv, CallRecord
<1>4. /\ EntryOf(w) \in Entry /\ EntryOf(w).task = call[w].task /\ EntryOf(w).kind = call[w].kind
  BY <1>3 DEF EntryOf, Entry
<1>5. CallInv'
  BY <1>1, <1>2 DEF CallInv
<1>6. \A q \in Tasks : InCall(q)' <=> InCall(q) /\ q # call[w].task
  BY <1>1, <1>2, <1>3, ExecutorAssumption DEF InCall, PlaceInv
<1>7. \A u, v \in Threads : call'[u].task = call'[v].task /\ call'[u].task # NoTask => u = v
  BY <1>1, <1>2 DEF PlaceInv
<1> QED
  BY <1>1, <1>3, <1>4, <1>5, <1>6, <1>7

-------------------------------------------------------------------------------
(* A task is handed to the timer or to the queue, or kept. *)

LEMMA PassFacts ==
  ASSUME TypeOK, PlaceInv, NEW e \in Entry, Pass(e), ~InQueue(e.task)
  PROVE  /\ timer' \subseteq Tasks /\ queue' \in Seq(Entry)
         /\ \A q \in Tasks : InQueue(q)' <=> InQueue(q) \/ (q = e.task /\ e.kind # "schedule")
         /\ \A q \in Tasks : q \in timer' <=> q \in timer \/ (q = e.task /\ e.kind = "schedule")
         /\ \A i, j \in 1..Len(queue') : queue'[i].task = queue'[j].task => i = j
         /\ \A i \in 1..Len(queue') :
               \/ i \in 1..Len(queue) /\ queue'[i] = queue[i]
               \/ queue'[i] = e /\ e.kind # "schedule"
<1>1. timer \subseteq Tasks /\ queue \in Seq(Entry) /\ e.task \in Tasks /\ Len(queue) \in Nat
  BY DEF TypeOK, Entry
<1>2. \A i, j \in 1..Len(queue) : queue[i].task = queue[j].task => i = j
  BY DEF PlaceInv
<1>3. CASE e.kind = "schedule"
  <2>1. timer' = timer \cup {e.task} /\ queue' = queue
    BY <1>3 DEF Pass
  <2>2. \A q \in Tasks : InQueue(q)' <=> InQueue(q)
    BY <2>1 DEF InQueue
  <2> QED
    BY <1>1, <1>2, <1>3, <2>1, <2>2
<1>4. CASE e.kind # "schedule"
  <2>1. queue' = Append(queue, e) /\ timer' = timer
    BY <1>4 DEF Pass
  <2>2. /\ queue' \in Seq(Entry) /\ Len(queue') = Len(queue) + 1
        /\ queue'[Len(queue) + 1] = e
        /\ \A i \in 1..Len(queue) : queue'[i] = queue[i]
    BY <1>1, <2>1
  <2>3. \A q \in Tasks : InQueue(q)' <=> InQueue(q) \/ q = e.task
    BY <1>1, <2>2 DEF InQueue
  <2>4. \A i \in 1..Len(queue) : queue[i].task # e.task
    BY DEF InQueue
  <2>5. \A i, j \in 1..Len(queue') : queue'[i].task = queue'[j].task => i = j
    BY <1>1, <1>2, <2>2, <2>4
  <2>6. \A i \in 1..Len(queue') : i \in 1..Len(queue) \/ i = Len(queue) + 1
    BY <1>1, <2>2
  <2> QED
    BY <1>1, <1>4, <2>1, <2>2, <2>3, <2>5, <2>6
<1> QED
  BY <1>3, <1>4

LEMMA HandE == ASSUME EInv, NEW w \in Threads, Hand(w) PROVE EInv'
<1> USE DEF EInv
<1>1. /\ call[w].pc # "idle" /\ Pass(EntryOf(w)) /\ call' = [call EXCEPT ![w] = NoCall]
      /\ UNCHANGED <<handler, synced, memento, looper, called, cancelled, inTime, runs>>
  BY DEF Hand
<1>2. PICK e \in Entry : e = EntryOf(w)
  BY <1>1, CallOver
<1>3. /\ call' \in [Threads -> CallRecord] /\ CallInv' /\ e.task \in Tasks
      /\ e.task = call[w].task /\ InCall(e.task) /\ Pass(e)
      /\ \A q \in Tasks : InCall(q)' <=> InCall(q) /\ q # e.task
      /\ \A u, v \in Threads : call'[u].task = call'[v].task /\ call'[u].task # NoTask => u = v
  <2>1. e.task = call[w].task /\ Pass(e) /\ e.task \in Tasks
    BY <1>1, <1>2, CallOver
  <2>2. InCall(e.task)
    BY <2>1 DEF InCall
  <2> QED
    BY <1>1, <2>1, <2>2, CallOver
<1>4. /\ ~InMemento(e.task) /\ ~InQueue(e.task) /\ e.task \notin timer /\ runs[e.task] = 0
      /\ e.task \in called /\ e.task \notin inTime
  BY <1>3 DEF PlaceInv, CalledInv, InTimeInv
<1>5. /\ timer' \subseteq Tasks /\ queue' \in Seq(Entry)
      /\ \A q \in Tasks : InQueue(q)' <=> InQueue(q) \/ (q = e.task /\ e.kind # "schedule")
      /\ \A q \in Tasks : q \in timer' <=> q \in timer \/ (q = e.task /\ e.kind = "schedule")
      /\ \A i, j \in 1..Len(queue') : queue'[i].task = queue'[j].task => i = j
      /\ \A i \in 1..Len(queue') :
            \/ i \in 1..Len(queue) /\ queue'[i] = queue[i]
            \/ queue'[i] = e /\ e.kind # "schedule"
  BY <1>3, <1>4, PassFacts
<1>6. TypeOK'
  BY <1>1, <1>3, <1>5 DEF TypeOK, CallRecord
<1>7. ReplayInv' /\ \A q \in Tasks : InMemento(q)' <=> InMemento(q)
  BY <1>1 DEF ReplayInv, InMemento, Live
<1>8. \A i, j \in 1..Len(memento)' :
         Live(i)' /\ Live(j)' /\ memento'[i].task = memento'[j].task => i = j
  BY <1>1 DEF PlaceInv, Live
<1>9. PlaceInv'
  BY <1>1, <1>3, <1>4, <1>5, <1>7, <1>8 DEF PlaceInv
<1>10. CalledInv'
  BY <1>1, <1>3, <1>4, <1>5, <1>7 DEF CalledInv
<1>11. InTimeInv'
  <2>1. inTime \subseteq Tasks /\ inTime' = inTime /\ cancelled' = cancelled /\ memento' = memento
        /\ runs' = runs
    BY <1>1 DEF TypeOK
  <2>2. \A i \in 1..Len(queue') : queue'[i].kind # "schedule"
    BY <1>5 DEF InTimeInv
  <2>3. \A q \in inTime : q \notin timer' /\ ~InCall(q)'
    BY <1>3, <1>4, <1>5, <2>1 DEF InTimeInv
  <2>4. \A q \in inTime : \A i \in 1..Len(queue') : queue'[i].task = q => queue'[i].kind = "submit"
    BY <1>4, <1>5, <2>1 DEF InTimeInv
  <2> QED
    BY <2>1, <2>2, <2>3, <2>4 DEF InTimeInv
<1> QED
  BY <1>3, <1>6, <1>7, <1>9, <1>10, <1>11

LEMMA KeepE == ASSUME EInv, NEW w \in Threads, Keep(w) PROVE EInv'
<1> USE DEF EInv
<1>1. /\ call[w].pc # "idle" /\ memento' = Append(memento, EntryOf(w))
      /\ call' = [call EXCEPT ![w] = NoCall] /\ synced' \subseteq synced \cup {w}
      /\ UNCHANGED <<handler, looper, queue, timer, called, cancelled, inTime, runs>>
  BY DEF Keep
<1>2. PICK e \in Entry : e = EntryOf(w)
  BY <1>1, CallOver
<1>3. /\ call' \in [Threads -> CallRecord] /\ CallInv' /\ e.task \in Tasks
      /\ e.task = call[w].task /\ InCall(e.task)
      /\ \A q \in Tasks : InCall(q)' <=> InCall(q) /\ q # e.task
      /\ \A u, v \in Threads : call'[u].task = call'[v].task /\ call'[u].task # NoTask => u = v
  <2>1. e.task = call[w].task /\ e.task \in Tasks
    BY <1>1, <1>2, CallOver
  <2>2. InCall(e.task)
    BY <2>1 DEF InCall
  <2> QED
    BY <1>1, <2>1, <2>2, CallOver
<1>4. /\ ~InMemento(e.task) /\ ~InQueue(e.task) /\ e.task \notin timer /\ runs[e.task] = 0
      /\ e.task \in called /\ e.task \notin inTime
  BY <1>3 DEF PlaceInv, CalledInv, InTimeInv
<1>5. PICK n \in Nat : n = Len(memento)
  BY DEF TypeOK
<1>6. /\ memento' \in Seq(Entry) /\ Len(memento') = n + 1 /\ memento'[n + 1] = e
      /\ \A i \in 1..n : memento'[i] = memento[i]
  BY <1>1, <1>2, <1>5 DEF TypeOK
<1>7. /\ looper' = looper /\ looper \in [pc : Pcs, next : Nat, size : Nat]
      /\ \A i \in 1..n : i \in 1..(n + 1)
      /\ \A i \in 1..(n + 1) : i \in 1..n \/ i = n + 1
  BY <1>1, <1>5 DEF TypeOK, Pcs
<1>8. TypeOK'
  <2>1. looper'.pc = "post" => looper'.next \in DOMAIN memento'
    BY <1>5, <1>6, <1>7 DEF ReplayInv
  <2> QED
    BY <1>1, <1>3, <1>6, <2>1 DEF TypeOK, CallRecord
<1>9. ReplayInv'
  BY <1>5, <1>6, <1>7 DEF ReplayInv
<1>10. \A i \in 1..n : Live(i)' <=> Live(i)
  BY <1>5, <1>6, <1>7 DEF Live
<1>11. \A i : Live(i)' => i \in 1..(n + 1)
  BY <1>6 DEF Live
<1>12. \A q \in Tasks : InMemento(q)' => InMemento(q) \/ q = e.task
  <2> SUFFICES ASSUME NEW q \in Tasks, NEW i \in 1..(n + 1), Live(i)', memento'[i].task = q
               PROVE  InMemento(q) \/ q = e.task
    BY <1>6 DEF InMemento
  <2> QED
    BY <1>5, <1>6, <1>7, <1>10 DEF InMemento
<1>13. \A i \in 1..n : Live(i) => memento[i].task # e.task
  BY <1>4, <1>5 DEF InMemento
<1>14. \A i, j \in 1..(n + 1) :
          Live(i)' /\ Live(j)' /\ memento'[i].task = memento'[j].task => i = j
  BY <1>5, <1>6, <1>7, <1>10, <1>13 DEF PlaceInv
<1>15. \A q \in Tasks : InQueue(q)' <=> InQueue(q)
  BY <1>1 DEF InQueue
<1>16. PlaceInv'
  BY <1>1, <1>3, <1>4, <1>6, <1>12, <1>14, <1>15 DEF PlaceInv
<1>17. CalledInv'
  BY <1>1, <1>3, <1>4, <1>12, <1>15 DEF CalledInv
<1>18. InTimeInv'
  <2>1. inTime \subseteq Tasks /\ inTime' = inTime /\ cancelled' = cancelled /\ queue' = queue
        /\ timer' = timer /\ runs' = runs
    BY <1>1 DEF TypeOK
  <2>2. \A q \in inTime : ~InCall(q)'
    BY <1>3, <2>1 DEF InTimeInv
  <2>3. \A q \in inTime : \A i \in 1..Len(memento') :
           memento'[i].task = q => memento'[i].kind # "execute"
    BY <1>4, <1>5, <1>6, <1>7 DEF InTimeInv
  <2> QED
    BY <2>1, <2>2, <2>3 DEF InTimeInv
<1> QED
  BY <1>3, <1>8, <1>9, <1>16, <1>17, <1>18

LEMMA CancelE == ASSUME EInv, NEW t \in Tasks, Cancel(t) PROVE EInv'
<1> USE DEF EInv
<1>1. /\ Returned(t) /\ cancelled' = cancelled \cup {t} /\ timer' = timer \ {t}
      /\ inTime' = IF Fired(t) THEN inTime ELSE inTime \cup {t}
      /\ UNCHANGED <<handler, synced, memento, looper, queue, call, called, runs>>
  BY DEF Cancel
<1>2. TypeOK' /\ CallInv' /\ ReplayInv'
  BY <1>1 DEF TypeOK, CallInv, ReplayInv, Returned
<1>3. \A q \in Tasks : /\ InMemento(q)' <=> InMemento(q)
                       /\ InQueue(q)' <=> InQueue(q)
                       /\ InCall(q)' <=> InCall(q)
  BY <1>1 DEF InMemento, InQueue, InCall, Live
<1>4. \A i, j \in 1..Len(memento)' :
         Live(i)' /\ Live(j)' /\ memento'[i].task = memento'[j].task => i = j
  BY <1>1 DEF PlaceInv, Live
<1>5. PlaceInv'
  BY <1>1, <1>3, <1>4 DEF PlaceInv
<1>6. CalledInv'
  BY <1>1, <1>3 DEF CalledInv
<1>7. ASSUME ~Fired(t)
      PROVE  /\ ~InCall(t) /\ runs[t] = 0
             /\ \A i \in 1..Len(queue) : queue[i].task = t => queue[i].kind = "submit"
             /\ \A i \in 1..Len(memento) : memento[i].task = t => memento[i].kind # "execute"
  <2>1. ~InCall(t)
    BY <1>1, <1>7 DEF InCall, Returned, Fired, Threads
  <2>2. runs[t] = 0
    BY <1>7 DEF Fired, TypeOK
  <2>3. \A x \in Entry : x.task = t /\ x.kind = "execute" => x = [task |-> t, kind |-> "execute"]
    BY DEF Entry
  <2>4. /\ \A i \in 1..Len(queue) : queue[i] \in Entry /\ queue[i] \in ToSet(queue)
        /\ \A i \in 1..Len(memento) : memento[i] \in Entry /\ memento[i] \in ToSet(memento)
    BY DEF TypeOK, ToSet
  <2>5. /\ \A i \in 1..Len(queue) : queue[i].task = t => queue[i].kind # "execute"
        /\ \A i \in 1..Len(memento) : memento[i].task = t => memento[i].kind # "execute"
    BY <1>7, <2>3, <2>4 DEF Fired
  <2>6. \A i \in 1..Len(queue) : queue[i].kind \in {"execute", "submit"}
    BY <2>4 DEF Entry, Kinds, InTimeInv
  <2> QED
    BY <2>1, <2>2, <2>5, <2>6
<1>8. InTimeInv'
  <2>1. inTime \subseteq Tasks /\ inTime' \subseteq Tasks /\ \A q \in inTime' : q \in inTime \/ (q = t /\ ~Fired(t))
    BY <1>1 DEF TypeOK
  <2>2. \A q \in inTime' : ~InCall(q)' /\ runs'[q] = 0 /\ q \in cancelled' /\ q \notin timer'
    BY <1>1, <1>3, <1>7, <2>1 DEF InTimeInv
  <2>3. \A q \in inTime' :
           /\ \A i \in 1..Len(queue) : queue[i].task = q => queue[i].kind = "submit"
           /\ \A i \in 1..Len(memento) : memento[i].task = q => memento[i].kind # "execute"
    BY <1>7, <2>1 DEF InTimeInv
  <2> QED
    BY <1>1, <2>2, <2>3 DEF InTimeInv
<1> QED
  BY <1>2, <1>5, <1>6, <1>8

-------------------------------------------------------------------------------
(* The looper's thread hands over, forgets and runs. *)

LEMMA PostE == ASSUME EInv, Post PROVE EInv'
<1> USE DEF EInv
<1>1. PICK n \in Nat : n = looper.next
  BY DEF TypeOK
<1>2. PICK e : e = memento[n]
  OBVIOUS
<1>3. /\ looper.pc = "post" /\ n \in 1..Len(memento) /\ e \in Entry /\ Live(n) /\ e.task \in Tasks
      /\ memento \in Seq(Entry) /\ Len(memento) \in Nat /\ memento[n] = e
      /\ looper \in [pc : Pcs, next : Nat, size : Nat]
  <2>1. looper.pc = "post" /\ n \in 1..Len(memento) /\ Live(n)
    BY <1>1 DEF Post, LooperAt, ReplayInv, Live
  <2>2. /\ memento \in Seq(Entry) /\ looper \in [pc : Pcs, next : Nat, size : Nat]
        /\ Len(memento) \in Nat
    BY DEF TypeOK, Pcs
  <2>3. e \in Entry
    BY <1>2, <2>1, <2>2
  <2> QED
    BY <1>2, <2>1, <2>2, <2>3 DEF Entry
<1>4. UNCHANGED <<handler, memento, call, called, cancelled, inTime, runs>>
  BY DEF Post
<1>5. /\ ~InQueue(e.task) /\ e.task \notin timer /\ ~InCall(e.task) /\ runs[e.task] = 0
      /\ e.task \in called
  <2>1. InMemento(e.task)
    BY <1>3 DEF InMemento
  <2> QED
    BY <1>3, <2>1 DEF PlaceInv, CalledInv
<1>6. CASE e.kind = "schedule" /\ e.task \in cancelled
  <2>1. looper'.pc = "cancelled" /\ looper' \in [pc : Pcs, next : Nat, size : Nat]
        /\ UNCHANGED <<queue, timer, synced>>
    BY <1>1, <1>2, <1>3, <1>6 DEF Post, LooperTo, Pcs
  <2>2. TypeOK' /\ ReplayInv'
    BY <1>4, <2>1 DEF TypeOK, ReplayInv, Pcs
  <2>3. \A i \in 1..Len(memento) : Live(i)' => Live(i)
    BY <2>1 DEF Live
  <2> QED
    BY <1>4, <2>1, <2>2, <2>3, SamePlaces
<1>7. CASE ~(e.kind = "schedule" /\ e.task \in cancelled)
  <2>1. /\ looper' = [looper EXCEPT !.pc = "replay", !.next = n + 1] /\ Pass(e)
        /\ synced' \subseteq synced \cup {Timer}
    BY <1>1, <1>2, <1>3, <1>7 DEF Post
  <2>2. looper'.pc = "replay" /\ looper'.next = n + 1 /\ looper' \in [pc : Pcs, next : Nat, size : Nat]
    <3>1. looper = [pc |-> looper.pc, next |-> looper.next, size |-> looper.size]
      BY <1>3
    <3>2. looper' = [pc |-> "replay", next |-> n + 1, size |-> looper.size]
      BY <2>1, <3>1
    <3> QED
      BY <1>1, <1>3, <3>2 DEF Pcs
  <2>3. /\ timer' \subseteq Tasks /\ queue' \in Seq(Entry)
        /\ \A q \in Tasks : InQueue(q)' <=> InQueue(q) \/ (q = e.task /\ e.kind # "schedule")
        /\ \A q \in Tasks : q \in timer' <=> q \in timer \/ (q = e.task /\ e.kind = "schedule")
        /\ \A i, j \in 1..Len(queue') : queue'[i].task = queue'[j].task => i = j
        /\ \A i \in 1..Len(queue') :
              \/ i \in 1..Len(queue) /\ queue'[i] = queue[i]
              \/ queue'[i] = e /\ e.kind # "schedule"
    BY <1>3, <1>5, <2>1, PassFacts
  <2>4. \A i \in 1..Len(memento) : Live(i)' => Live(i) /\ i # n
    BY <1>1, <1>3, <1>4, <2>2 DEF Live
  <2>5. TypeOK'
    <3>1. synced' \subseteq Threads
      BY <2>1 DEF TypeOK, Threads
    <3> QED
      BY <1>4, <2>2, <2>3, <3>1 DEF TypeOK, Pcs
  <2>6. ReplayInv' /\ CallInv'
    BY <1>3, <1>4, <2>2 DEF ReplayInv, CallInv
  <2>7. \A q \in Tasks : InMemento(q)' => InMemento(q) /\ q # e.task
    BY <1>3, <1>4, <2>4 DEF InMemento, PlaceInv
  <2>8. \A q \in Tasks : InCall(q)' <=> InCall(q)
    BY <1>4 DEF InCall
  <2>9. \A i, j \in 1..Len(memento)' :
           Live(i)' /\ Live(j)' /\ memento'[i].task = memento'[j].task => i = j
    BY <1>4, <2>4 DEF PlaceInv
  <2>10. PlaceInv'
    BY <1>4, <1>5, <2>3, <2>7, <2>8, <2>9 DEF PlaceInv
  <2>11. CalledInv'
    BY <1>4, <1>5, <2>3, <2>7, <2>8 DEF CalledInv
  <2>12. InTimeInv'
    <3>1. inTime \subseteq Tasks /\ inTime' = inTime /\ cancelled' = cancelled /\ memento' = memento
          /\ runs' = runs
      BY <1>4 DEF TypeOK
    <3>2. e.task \in inTime => e.kind = "submit"
      BY <1>3, <1>7 DEF InTimeInv, Entry, Kinds
    <3>3. \A i \in 1..Len(queue') : queue'[i].kind # "schedule"
      BY <2>3 DEF InTimeInv
    <3>4. \A q \in inTime : q \notin timer' /\ ~InCall(q)'
      BY <2>3, <2>8, <3>1, <3>2 DEF InTimeInv
    <3>5. \A q \in inTime : \A i \in 1..Len(queue') : queue'[i].task = q => queue'[i].kind = "submit"
      BY <2>3, <3>1, <3>2 DEF InTimeInv
    <3> QED
      BY <3>1, <3>3, <3>4, <3>5 DEF InTimeInv
  <2> QED
    BY <2>5, <2>6, <2>10, <2>11, <2>12
<1> QED
  BY <1>6, <1>7

LEMMA ClearE == ASSUME EInv, Clear PROVE EInv'
<1> USE DEF EInv
<1>1. /\ memento' = <<>> /\ Len(memento') = 0 /\ looper'.pc = "loop"
      /\ looper' \in [pc : Pcs, next : Nat, size : Nat]
      /\ UNCHANGED <<handler, synced, queue, timer, call, called, cancelled, inTime, runs>>
  BY DEF Clear, LooperTo, TypeOK, Pcs
<1>2. TypeOK' /\ ReplayInv' /\ CallInv'
  BY <1>1 DEF TypeOK, ReplayInv, CallInv, Pcs
<1>3. \A q \in Tasks : ~InMemento(q)'
  BY <1>1 DEF InMemento
<1>4. \A q \in Tasks : /\ InQueue(q)' <=> InQueue(q)
                       /\ InCall(q)' <=> InCall(q)
  BY <1>1 DEF InQueue, InCall
<1>5. PlaceInv'
  BY <1>1, <1>3, <1>4 DEF PlaceInv
<1>6. CalledInv'
  BY <1>1, <1>3, <1>4 DEF CalledInv
<1>7. InTimeInv'
  <2>1. inTime \subseteq Tasks
    BY DEF TypeOK
  <2>2. \A q \in inTime : ~InCall(q)'
    BY <1>4, <2>1 DEF InTimeInv
  <2> QED
    BY <1>1, <2>1, <2>2 DEF InTimeInv
<1> QED
  BY <1>2, <1>5, <1>6, <1>7

LEMMA RunE == ASSUME EInv, Run PROVE EInv'
<1> USE DEF EInv
<1>1. PICK e : e = Head(queue)
  OBVIOUS
<1>2. PICK n \in Nat : n = Len(queue)
  BY DEF TypeOK
<1>3. /\ queue # <<>> /\ queue' = Tail(queue) /\ queue \in Seq(Entry)
      /\ runs' = IF e.kind = "submit" /\ e.task \in cancelled
                 THEN runs ELSE [runs EXCEPT ![e.task] = @ + 1]
      /\ UNCHANGED <<handler, synced, memento, looper, timer, call, called, cancelled, inTime>>
  BY <1>1 DEF Run, TypeOK
<1>4. /\ n > 0 /\ e \in Entry /\ e = queue[1] /\ e.task \in Tasks
      /\ queue' \in Seq(Entry) /\ Len(queue') = n - 1
      /\ \A i \in 1..(n - 1) : queue'[i] = queue[i + 1] /\ i + 1 \in 1..n
  <2>1. n > 0
    BY <1>2, <1>3
  <2>2. e \in Entry /\ e = queue[1]
    BY <1>1, <1>2, <1>3, <2>1
  <2>3. queue' \in Seq(Entry) /\ Len(queue') = n - 1
    BY <1>2, <1>3, <2>1
  <2>4. \A i \in 1..(n - 1) : queue'[i] = queue[i + 1] /\ i + 1 \in 1..n
    BY <1>2, <1>3, <2>1
  <2> QED
    BY <2>1, <2>2, <2>3, <2>4 DEF Entry
<1>5. \A i, j \in 1..n : queue[i].task = queue[j].task => i = j
  BY <1>2 DEF PlaceInv
<1>6. InQueue(e.task)
  BY <1>2, <1>4 DEF InQueue
<1>7. /\ ~InMemento(e.task) /\ e.task \notin timer /\ ~InCall(e.task) /\ runs[e.task] = 0
      /\ e.task \in called
  BY <1>4, <1>6 DEF PlaceInv, CalledInv
<1>8. \A q \in Tasks : InQueue(q)' => InQueue(q) /\ q # e.task
  <2> SUFFICES ASSUME NEW q \in Tasks, NEW i \in 1..(n - 1), queue'[i].task = q
               PROVE  InQueue(q) /\ q # e.task
    BY <1>4 DEF InQueue
  <2>1. queue[i + 1].task = q /\ i + 1 \in 1..n /\ i + 1 # 1 /\ 1 \in 1..n
    BY <1>2, <1>4
  <2> QED
    BY <1>2, <1>4, <1>5, <2>1 DEF InQueue
<1>9. \A i, j \in 1..(n - 1) : queue'[i].task = queue'[j].task => i = j
  <2> SUFFICES ASSUME NEW i \in 1..(n - 1), NEW j \in 1..(n - 1), queue'[i].task = queue'[j].task
               PROVE  i = j
    OBVIOUS
  <2>1. i + 1 = j + 1
    <3>1. i + 1 \in 1..n /\ j + 1 \in 1..n /\ queue[i + 1].task = queue[j + 1].task
      BY <1>4
    <3> QED
      BY <1>5, <3>1
  <2> QED
    BY <1>2, <2>1
<1>10. /\ runs' \in [Tasks -> Nat] /\ runs'[e.task] <= 1
       /\ \A q \in Tasks : q # e.task => runs'[q] = runs[q]
  BY <1>3, <1>4, <1>7 DEF TypeOK
<1>11. TypeOK' /\ CallInv' /\ ReplayInv'
  BY <1>3, <1>4, <1>10 DEF TypeOK, CallInv, ReplayInv
<1>12. \A q \in Tasks : /\ InMemento(q)' <=> InMemento(q)
                        /\ InCall(q)' <=> InCall(q)
  BY <1>3 DEF InMemento, InCall, Live
<1>13. \A i, j \in 1..Len(memento)' :
          Live(i)' /\ Live(j)' /\ memento'[i].task = memento'[j].task => i = j
  BY <1>3 DEF PlaceInv, Live
<1>14. PlaceInv'
  BY <1>3, <1>4, <1>7, <1>8, <1>9, <1>10, <1>12, <1>13 DEF PlaceInv
<1>15. CalledInv'
  BY <1>3, <1>7, <1>8, <1>10, <1>12 DEF CalledInv
<1>16. InTimeInv'
  <2>1. inTime \subseteq Tasks /\ inTime' = inTime /\ cancelled' = cancelled /\ memento' = memento
        /\ timer' = timer
    BY <1>3 DEF TypeOK
  <2>2. e.task \in inTime => e.kind = "submit" /\ e.task \in cancelled
    BY <1>2, <1>4 DEF InTimeInv
  <2>3. \A q \in inTime : runs'[q] = 0
    BY <1>3, <1>10, <2>1, <2>2 DEF InTimeInv
  <2>4. \A i \in 1..Len(queue') : queue'[i].kind # "schedule"
    BY <1>2, <1>4 DEF InTimeInv
  <2>5. \A q \in inTime : \A i \in 1..Len(queue') : queue'[i].task = q => queue'[i].kind = "submit"
    BY <1>2, <1>4 DEF InTimeInv
  <2>6. \A q \in inTime : ~InCall(q)'
    BY <1>12, <2>1 DEF InTimeInv
  <2> QED
    BY <2>1, <2>3, <2>4, <2>5, <2>6 DEF InTimeInv
<1> QED
  BY <1>11, <1>14, <1>15, <1>16

-------------------------------------------------------------------------------
LEMMA StutterE == ASSUME EInv, UNCHANGED vars PROVE EInv'
<1> USE DEF EInv
<1>1. UNCHANGED <<handler, synced, memento, looper, queue, timer, call, called, cancelled, inTime, runs>>
  BY DEF vars
<1>2. TypeOK' /\ ReplayInv'
  BY <1>1 DEF TypeOK, ReplayInv
<1>3. \A i \in 1..Len(memento) : Live(i)' => Live(i)
  BY <1>1 DEF Live
<1> QED
  BY <1>1, <1>2, <1>3, SamePlaces

\* The places of the tasks stay apart whatever the threads do.
THEOREM ExecutorInductive == Spec => []EInv
<1>1. EInv /\ [Next]_vars => EInv'
  <2> SUFFICES ASSUME EInv, [Next]_vars PROVE EInv'
    OBVIOUS
  <2>1. CASE \E c \in Clients, t \in Tasks : Call(c, t)
    BY <2>1, CallE
  <2>2. CASE \E w \in Threads : Hand(w) \/ Keep(w)
    BY <2>2, HandE, KeepE
  <2>3. CASE \E t \in Tasks : Cancel(t) \/ Fire(t)
    BY <2>3, CancelE, FireE
  <2>4. CASE Looper
    BY <2>4, LooperStepE, PostE, ClearE, RunE DEF Looper
  <2>5. CASE UNCHANGED vars
    BY <2>5, StutterE
  <2> QED
    BY <2>1, <2>2, <2>3, <2>4, <2>5 DEF Next
<1> QED
  BY <1>1, InitE, PTL DEF Spec

\* The executor's fields have their types; the position of the replay is one of the
\* list while an entry is handed over (BackgroundThreadExecutor 29-68).
THEOREM ExecutorTypeCorrect == Spec => []TypeOK
<1>1. EInv => TypeOK
  BY DEF EInv
<1> QED
  BY <1>1, ExecutorInductive, PTL

\* A task runs at most once, and never when it was cancelled in time
\* (BackgroundThreadExecutor 29-68, LVTimerTask 13-20).
THEOREM RanAsCalled == Spec => []RunsAsCalled
<1>1. EInv => RunsAsCalled
  BY DEF EInv, TypeOK, PlaceInv, InTimeInv, RunsAsCalled
<1> QED
  BY <1>1, ExecutorInductive, PTL
===============================================================================
