--------------------------- MODULE BackgroundExecutor ---------------------------
(***************************************************************************)
(* BackgroundThreadExecutor: callers hand tasks to the thread of a looper. *)
(* Until that thread has made its handler the tasks are kept in            *)
(* mementoList, which the thread replays once, when its looper is ready.   *)
(* Delayed tasks wait in a Timer, whose thread then calls execute.         *)
(*                                                                         *)
(* The field `handler' is neither volatile nor read under a lock.          *)
(***************************************************************************)
EXTENDS Naturals, Sequences, SequencesExt

CONSTANTS
    Clients,  \* threads that call the executor
    Tasks,    \* tasks, each handed over once
    Kind,     \* Kind[t]: the method that takes t
    NoTask

Timer == "timer"
Threads == Clients \cup {Timer}
Kinds == {"execute", "schedule", "submit"}

ASSUME ExecutorAssumption ==
    /\ Timer \notin Clients /\ NoTask \notin Tasks
    /\ Kind \in [Tasks -> Kinds]

VARIABLES
    handler,    \* the looper's thread has set handler
    synced,     \* threads that must see it
    memento,    \* mementoList
    looper,     \* the looper's thread: pc, and the replay's position and size
    queue,      \* the messages of the handler
    timer,      \* the tasks that wait in the Timer
    call,       \* call[w]: the call of thread w
    called,     \* the tasks that have been handed over
    cancelled,  \* the tasks whose cancel() has been called
    inTime,     \* history: those cancelled before they were due
    runs        \* history: runs[t]: how often t ran

vars == <<handler, synced, memento, looper, queue, timer, call, called, cancelled,
          inTime, runs>>

Entry == [task : Tasks, kind : Kinds]
NoCall == [pc |-> "idle", task |-> NoTask, kind |-> "execute"]

TypeOK ==
    /\ handler \in BOOLEAN
    /\ synced \subseteq Threads
    /\ memento \in Seq(Entry)
    /\ looper \in [pc : {"start", "test", "replay", "post", "clear", "loop",
                         "cancelled", "modified"}, next : Nat, size : Nat]
    /\ looper.pc = "post" => looper.next \in DOMAIN memento
    /\ queue \in Seq(Entry)
    /\ timer \subseteq Tasks
    /\ call \in [Threads -> [pc : {"idle", "hand", "keep"}, task : Tasks \cup {NoTask},
                             kind : Kinds]]
    /\ called \subseteq Tasks /\ cancelled \subseteq called /\ inTime \subseteq cancelled
    /\ runs \in [Tasks -> Nat]

-------------------------------------------------------------------------------
(* execute, schedule, submit *)

\* What `handler != null' may yield on thread w
SeesHandler(w) ==
    IF ~handler THEN {FALSE} ELSE IF w \in synced THEN {TRUE} ELSE BOOLEAN

Begin(w, t, kind) ==
    \E sees \in SeesHandler(w) :
        call' = [call EXCEPT ![w] = [pc |-> IF sees THEN "hand" ELSE "keep",
                                     task |-> t, kind |-> kind]]

Call(c, t) ==
    /\ call[c].pc = "idle"
    /\ t \notin called
    /\ called' = called \cup {t}
    /\ Begin(c, t, Kind[t])
    /\ UNCHANGED <<handler, synced, memento, looper, queue, timer, cancelled, inTime, runs>>

\* To the Timer, or to the looper's queue
Pass(e) ==
    IF e.kind = "schedule"
    THEN timer' = timer \cup {e.task} /\ UNCHANGED queue
    ELSE queue' = Append(queue, e) /\ UNCHANGED timer

EntryOf(w) == [task |-> call[w].task, kind |-> call[w].kind]

Hand(w) ==
    /\ call[w].pc = "hand"
    /\ Pass(EntryOf(w))
    /\ call' = [call EXCEPT ![w] = NoCall]
    /\ UNCHANGED <<handler, synced, memento, looper, called, cancelled, inTime, runs>>

\* Mutant: once the handler is seen, the task is posted as well.
KeepAndHand(w) ==
    /\ call[w].pc = "keep"
    /\ memento' = Append(memento, EntryOf(w))
    /\ call' = [call EXCEPT ![w] = IF handler THEN [@ EXCEPT !.pc = "hand"] ELSE NoCall]
    /\ UNCHANGED <<handler, synced, looper, queue, timer, called, cancelled, inTime, runs>>

\* mementoList.add: the lock makes visible what the looper's thread did before
\* it last held it.
Keep(w) ==
    /\ call[w].pc = "keep"
    /\ memento' = Append(memento, EntryOf(w))
    /\ synced' = IF looper.pc \in {"start", "test"} THEN synced ELSE synced \cup {w}
    /\ call' = [call EXCEPT ![w] = NoCall]
    /\ UNCHANGED <<handler, looper, queue, timer, called, cancelled, inTime, runs>>

Returned(t) == t \in called /\ \A c \in Clients : call[c].task # t
\* The delay of t is over, or t has run.
Fired(t) ==
    \/ call[Timer].task = t \/ runs[t] > 0
    \/ [task |-> t, kind |-> "execute"] \in ToSet(queue) \cup ToSet(memento)

\* Mutant: cancel() only sets the flag.
CancelFlag(t) ==
    /\ Kind[t] # "execute" /\ Returned(t) /\ t \notin cancelled
    /\ cancelled' = cancelled \cup {t}
    /\ inTime' = IF Fired(t) THEN inTime ELSE inTime \cup {t}
    /\ UNCHANGED <<handler, synced, memento, looper, queue, timer, call, called, runs>>

\* LVTimerTask.cancel, FutureTask.cancel
Cancel(t) ==
    /\ Kind[t] # "execute" /\ Returned(t) /\ t \notin cancelled
    /\ cancelled' = cancelled \cup {t}
    /\ timer' = timer \ {t}
    /\ inTime' = IF Fired(t) THEN inTime ELSE inTime \cup {t}
    /\ UNCHANGED <<handler, synced, memento, looper, queue, call, called, runs>>

\* The delay is over: the Timer's thread calls execute.
Fire(t) ==
    /\ call[Timer].pc = "idle"
    /\ t \in timer
    /\ timer' = timer \ {t}
    /\ Begin(Timer, t, "execute")
    /\ UNCHANGED <<handler, synced, memento, looper, queue, called, cancelled, inTime, runs>>

-------------------------------------------------------------------------------
(* The looper's thread *)

LooperAt(pc) == looper.pc = pc
LooperTo(pc) == looper' = [looper EXCEPT !.pc = pc]

SetHandler ==
    /\ LooperAt("start")
    /\ handler' = TRUE
    /\ LooperTo("test")
    /\ UNCHANGED <<synced, memento, queue, timer, call, called, cancelled, inTime, runs>>

TestEmpty ==
    /\ LooperAt("test")
    /\ looper' = [pc |-> IF memento = <<>> THEN "loop" ELSE "replay",
                  next |-> 1, size |-> Len(memento)]
    /\ UNCHANGED <<handler, synced, memento, queue, timer, call, called, cancelled, inTime, runs>>

\* Mutant: the last entry is not reached.
ReplayAllButLast ==
    /\ LooperAt("replay")
    /\ \/ looper.next >= Len(memento) /\ LooperTo("clear")
       \/ looper.next < Len(memento) /\ LooperTo("post")
    /\ UNCHANGED <<handler, synced, memento, queue, timer, call, called, cancelled, inTime, runs>>

\* Mutant: one entry too many.
ReplayPastEnd ==
    /\ LooperAt("replay")
    /\ \/ looper.next > Len(memento) + 1 /\ LooperTo("clear")
       \/ looper.next <= Len(memento) + 1 /\ LooperTo("post")
    /\ UNCHANGED <<handler, synced, memento, queue, timer, call, called, cancelled, inTime, runs>>

\* The iterator compares its position with the size, and then the list's
\* modifications with those it began with (ConcurrentModificationException).
Replay ==
    /\ LooperAt("replay")
    /\ \/ /\ looper.next = Len(memento) + 1
          /\ LooperTo("clear")
       \/ /\ looper.next # Len(memento) + 1
          /\ Len(memento) # looper.size
          /\ LooperTo("modified")
       \/ /\ looper.next # Len(memento) + 1
          /\ Len(memento) = looper.size
          /\ IF memento[looper.next].task \in cancelled
             THEN looper' = [looper EXCEPT !.next = @ + 1]
             ELSE LooperTo("post")
    /\ UNCHANGED <<handler, synced, memento, queue, timer, call, called, cancelled, inTime, runs>>

\* timer.schedule throws if the task was cancelled after the test.
Post ==
    /\ LooperAt("post")
    /\ LET e == memento[looper.next]
       IN  IF e.kind = "schedule" /\ e.task \in cancelled
           THEN LooperTo("cancelled") /\ UNCHANGED <<queue, timer, synced>>
           ELSE /\ looper' = [looper EXCEPT !.pc = "replay", !.next = @ + 1]
                /\ Pass(e)
                /\ synced' = IF e.kind = "schedule" THEN synced \cup {Timer} ELSE synced
    /\ UNCHANGED <<handler, memento, call, called, cancelled, inTime, runs>>

Clear ==
    /\ LooperAt("clear")
    /\ memento' = <<>>
    /\ LooperTo("loop")
    /\ UNCHANGED <<handler, synced, queue, timer, call, called, cancelled, inTime, runs>>

\* A cancelled FutureTask does nothing when it is run.
Run ==
    /\ LooperAt("loop")
    /\ queue # <<>>
    /\ queue' = Tail(queue)
    /\ runs' = IF Head(queue).kind = "submit" /\ Head(queue).task \in cancelled
               THEN runs ELSE [runs EXCEPT ![Head(queue).task] = @ + 1]
    /\ UNCHANGED <<handler, synced, memento, looper, timer, call, called, cancelled, inTime>>

-------------------------------------------------------------------------------
Init ==
    /\ handler = FALSE
    /\ synced = {}
    /\ memento = <<>>
    /\ looper = [pc |-> "start", next |-> 0, size |-> 0]
    /\ queue = <<>>
    /\ timer = {}
    /\ call = [w \in Threads |-> NoCall]
    /\ called = {} /\ cancelled = {} /\ inTime = {}
    /\ runs = [t \in Tasks |-> 0]

Looper == SetHandler \/ TestEmpty \/ Replay \/ Post \/ Clear \/ Run

Next ==
    \/ \E c \in Clients, t \in Tasks : Call(c, t)
    \/ \E w \in Threads : Hand(w) \/ Keep(w)
    \/ \E t \in Tasks : Cancel(t) \/ Fire(t)
    \/ Looper

Spec == Init /\ [][Next]_vars

\* Every thread runs and every delay ends; nobody has to call or cancel.
Fairness ==
    /\ \A w \in Threads : WF_vars(Hand(w) \/ Keep(w))
    /\ \A t \in Tasks : WF_vars(Fire(t))
    /\ WF_vars(Looper)

FairSpec == Spec /\ Fairness

-------------------------------------------------------------------------------
(* Properties *)

Dead == looper.pc \in {"cancelled", "modified"}
Done(t) == runs[t] > 0 \/ t \in cancelled \/ Dead

\* A task runs at most once, whether it was kept, handed over or delayed, and
\* whatever its caller read of `handler' (BackgroundThreadExecutor 29-68); one that
\* was cancelled before its delay was over, or before it ran, never runs (LVTimerTask
\* 13-20), also when the replay is just dealing with it.
RunsAsCalled == \A t \in Tasks : runs[t] <= IF t \in inTime THEN 0 ELSE 1

\* What was kept before the looper's thread set its handler is run, unless it is
\* cancelled or the replay breaks down (BackgroundThreadExecutor 29-55).
Kept(t) == \E e \in ToSet(memento) : e.task = t
KeptRuns == \A t \in Tasks : (Kept(t) /\ looper.pc = "start") ~> Done(t)

\* ThreadExecutor:47: every task is executed.
EveryTaskRuns == \A t \in Tasks : (t \in called) ~> Done(t)

\* ThreadExecutor:58: a task that still waits can be cancelled, and the executor
\* goes on.
CancelHarmless == looper.pc # "cancelled"

\* ThreadExecutor:47: a task can be handed over at any time, also in the replay.
CallHarmless == looper.pc # "modified"
===============================================================================
