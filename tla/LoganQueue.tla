------------------------------ MODULE LoganQueue ------------------------------
(***************************************************************************)
(* The hand-over of LoganModels from the threads of the app to LoganThread *)
(* (mCacheLogQueue, mIsWorking, wait/notify on `sync') and from            *)
(* LoganThread to the upload executor (mSendLogStatusCode, mCacheSendQueue,*)
(* both under `sendSync').                                                 *)
(*                                                                         *)
(* Sources: LoganControlCenter.java, LoganThread.java, SendLogRunnable.java*)
(* What a model does to the log files once it is dispatched is the matter  *)
(* of other modules; here a dispatched WRITE, FLUSH, REOPEN or ARRANGE is  *)
(* one step and an upload is a step that ends.                             *)
(***************************************************************************)
EXTENDS Naturals, Sequences, FiniteSets

CONSTANTS
    Producers,   \* the app's threads that call Logan.w/s/r/a/f
    Actions,     \* the LoganModel.Action values the callers use
    mMaxQueue,   \* LoganConfig.mMaxQueue, the limit write() tests
    MaxCalls,    \* bound: calls each producer makes
    StaleReads,  \* TRUE: the unsynchronised read of mIsWorking may be stale
    NoModel      \* the Java null

AllActions == {"WRITE", "SEND", "FLUSH", "REOPEN", "ARRANGE"}

ASSUME QueueAssumption ==
    /\ Actions \subseteq AllActions
    /\ mMaxQueue \in Nat \ {0}
    /\ MaxCalls \in Nat
    /\ StaleReads \in BOOLEAN

\* A queued LoganModel: the n-th call of thread `by'.
LoganModel == [by : Producers, n : 1..MaxCalls, action : Actions]

ASSUME NoModelAssumption == NoModel \notin LoganModel

VARIABLES
    mCacheLogQueue,     \* ConcurrentLinkedQueue<LoganModel>
    mIsWorking,         \* plain (not volatile) boolean
    mCacheSendQueue,    \* SEND models parked while an upload runs
    mSendLogStatusCode, \* "NONE" (0), "SENDING", "FINISH"
    mSendLogAction,     \* the one RealSendRunnable's action
    jobs,               \* mSingleThreadExecutor's queue: the action each execute() was for
    caller,             \* caller[p]: the line producer p is at in LoganControlCenter
    call,               \* call[p]: the LoganModel of p's current call
    issued,             \* issued[p]: calls p has made
    thread,             \* the line LoganThread is at
    model,              \* LoganThread's local variable `model'
    exec,               \* the line the executor's thread is at
    running,            \* the action the executor's thread uploads
    accepted,           \* history: models added to mCacheLogQueue by callers
    gone                \* history: models handled for good, in order

producerVars == <<caller, call, issued>>
sendVars     == <<mCacheSendQueue, mSendLogStatusCode, mSendLogAction, jobs>>
execVars     == <<exec, running>>
vars == <<mCacheLogQueue, mIsWorking, sendVars, producerVars, thread, model,
          execVars, accepted, gone>>

CallerPC == {"idle", "add", "notify", "lock"}
ThreadPC == {"lock", "poll", "doNetworkLog", "empty", "wait", "woken"}
ExecPC   == {"idle", "sendLog", "notify", "lock"}
Status   == {"NONE", "SENDING", "FINISH"}

TypeOK ==
    /\ mCacheLogQueue \in Seq(LoganModel)
    /\ mIsWorking \in BOOLEAN
    /\ mCacheSendQueue \in Seq(LoganModel)
    /\ mSendLogStatusCode \in Status
    /\ mSendLogAction \in LoganModel \cup {NoModel}
    /\ jobs \in Seq(LoganModel)
    /\ caller \in [Producers -> CallerPC]
    /\ call \in [Producers -> LoganModel \cup {NoModel}]
    /\ issued \in [Producers -> 0..MaxCalls]
    /\ thread \in ThreadPC
    /\ model \in LoganModel \cup {NoModel}
    /\ exec \in ExecPC
    /\ running \in LoganModel \cup {NoModel}
    /\ accepted \in SUBSET LoganModel
    /\ gone \in Seq(LoganModel)

-------------------------------------------------------------------------------
(* Monitors.  LoganThread owns `sync' from the loop's synchronized to its   *)
(* end or to wait(); a notifier's block holds it for one step.  The upload  *)
(* callback owns `sendSync' up to the end of its notifyRun().               *)

SyncFree     == thread \notin {"poll", "doNetworkLog", "empty"}
SendSyncFree == exec \notin {"notify", "lock"}

\* The value notifyRun() reads outside `sync': with a data race on a plain
\* field, either value the field has had.
ReadsWorking(b) == IF StaleReads THEN TRUE ELSE b = mIsWorking

\* sync.notify(): LoganThread leaves the wait set, if it is in it.
Notify == thread' = IF thread = "wait" THEN "woken" ELSE thread

-------------------------------------------------------------------------------
(* Producers: LoganControlCenter.write/send/reOpen/arrange/flush *)

\* Mutant: the size test of write() lets one model too many through.
RoomForWriteOffByOne == Len(mCacheLogQueue) <= mMaxQueue

\* write() tests the size before it adds, without a lock.
RoomForWrite == Len(mCacheLogQueue) < mMaxQueue

\* Entry of a call, up to the add: a WRITE that finds the queue full is
\* dropped, every other model goes on to the add.
Enter(p, a) ==
    /\ caller[p] = "idle"
    /\ issued[p] < MaxCalls
    /\ issued' = [issued EXCEPT ![p] = @ + 1]
    /\ IF a = "WRITE" => RoomForWrite
       THEN /\ caller' = [caller EXCEPT ![p] = "add"]
            /\ call' = [call EXCEPT ![p] = [by |-> p, n |-> issued[p] + 1, action |-> a]]
       ELSE UNCHANGED <<caller, call>>
    /\ UNCHANGED <<mCacheLogQueue, mIsWorking, sendVars, thread, model,
                   execVars, accepted, gone>>

\* Mutant: the caller lets go of its model before it adds it.
AddCleared(p) ==
    /\ caller[p] = "add"
    /\ call' = [call EXCEPT ![p] = NoModel]
    /\ mCacheLogQueue' = Append(mCacheLogQueue, call'[p])
    /\ accepted' = accepted \cup {call[p]}
    /\ caller' = [caller EXCEPT ![p] = "notify"]
    /\ UNCHANGED <<mIsWorking, sendVars, issued, thread, model, execVars, gone>>

\* Mutant: the queue is a stack.
AddFirst(p) ==
    /\ caller[p] = "add"
    /\ mCacheLogQueue' = <<call[p]>> \o mCacheLogQueue
    /\ accepted' = accepted \cup {call[p]}
    /\ call' = [call EXCEPT ![p] = NoModel]
    /\ caller' = [caller EXCEPT ![p] = "notify"]
    /\ UNCHANGED <<mIsWorking, sendVars, issued, thread, model, execVars, gone>>

\* mCacheLogQueue.add(model)
Add(p) ==
    /\ caller[p] = "add"
    /\ mCacheLogQueue' = Append(mCacheLogQueue, call[p])
    /\ accepted' = accepted \cup {call[p]}
    /\ call' = [call EXCEPT ![p] = NoModel]
    /\ caller' = [caller EXCEPT ![p] = "notify"]
    /\ UNCHANGED <<mIsWorking, sendVars, issued, thread, model, execVars, gone>>

\* notifyRun(): the test of mIsWorking, outside the monitor
TestWorking(p) ==
    /\ caller[p] = "notify"
    /\ \E b \in BOOLEAN :
          /\ ReadsWorking(b)
          /\ caller' = [caller EXCEPT ![p] = IF b THEN "idle" ELSE "lock"]
    /\ UNCHANGED <<mCacheLogQueue, mIsWorking, sendVars, call, issued, thread,
                   model, execVars, accepted, gone>>

\* notifyRun(): synchronized (sync) { sync.notify(); }
NotifySync(p) ==
    /\ caller[p] = "lock"
    /\ SyncFree
    /\ Notify
    /\ caller' = [caller EXCEPT ![p] = "idle"]
    /\ UNCHANGED <<mCacheLogQueue, mIsWorking, sendVars, call, issued, model,
                   execVars, accepted, gone>>

-------------------------------------------------------------------------------
(* LoganThread.run *)

\* synchronized (sync) { mIsWorking = true;
Lock ==
    /\ thread = "lock"
    /\ mIsWorking' = TRUE
    /\ thread' = "poll"
    /\ UNCHANGED <<mCacheLogQueue, sendVars, producerVars, model, execVars,
                   accepted, gone>>

\* mCacheLogQueue.poll() and the test of its result
Poll ==
    /\ thread = "poll"
    /\ IF mCacheLogQueue = <<>>
       THEN /\ thread' = "empty"
            /\ UNCHANGED <<mCacheLogQueue, model>>
       ELSE /\ thread' = "doNetworkLog"
            /\ model' = Head(mCacheLogQueue)
            /\ mCacheLogQueue' = Tail(mCacheLogQueue)
    /\ UNCHANGED <<mIsWorking, sendVars, producerVars, execVars, accepted, gone>>

\* Mutant: the thread goes to wait with mIsWorking still set.
WaitStillWorking ==
    /\ thread = "empty"
    /\ mIsWorking' = mIsWorking
    /\ thread' = "wait"
    /\ UNCHANGED <<mCacheLogQueue, sendVars, producerVars, model, execVars,
                   accepted, gone>>

\* mIsWorking = false; sync.wait();
Wait ==
    /\ thread = "empty"
    /\ mIsWorking' = FALSE
    /\ thread' = "wait"
    /\ UNCHANGED <<mCacheLogQueue, sendVars, producerVars, model, execVars,
                   accepted, gone>>

\* wait() returns (sync is free: only the waiter itself would hold it);
\* mIsWorking = true; the iteration ends and releases sync.
WakeUp ==
    /\ thread = "woken"
    /\ mIsWorking' = TRUE
    /\ thread' = "lock"
    /\ UNCHANGED <<mCacheLogQueue, sendVars, producerVars, model, execVars,
                   accepted, gone>>

\* Object.wait() may return without a notify; the loop polls again.
SpuriousWakeUp ==
    /\ thread = "wait"
    /\ thread' = "woken"
    /\ UNCHANGED <<mCacheLogQueue, mIsWorking, sendVars, producerVars, model,
                   execVars, accepted, gone>>

\* Mutant: the thread waits after every model, without a look at the queue.
DispatchedToWait ==
    /\ thread' = "wait"
    /\ model' = NoModel
    /\ UNCHANGED <<mIsWorking, producerVars, execVars, accepted>>

\* The end of doNetworkLog: the iteration releases sync.
Dispatched ==
    /\ thread' = "lock"
    /\ model' = NoModel
    /\ UNCHANGED <<mIsWorking, producerVars, execVars, accepted>>

\* WRITE, FLUSH, REOPEN, ARRANGE
Handle ==
    /\ thread = "doNetworkLog"
    /\ model.action # "SEND"
    /\ gone' = Append(gone, model)
    /\ Dispatched
    /\ UNCHANGED <<mCacheLogQueue, sendVars>>

\* Mutant: no upload is ever taken to be in progress.
NeverSending == FALSE

\* Is an upload in progress?
IsSending == mSendLogStatusCode = "SENDING"

\* SEND while an upload runs: the model waits in mCacheSendQueue.
Park ==
    /\ thread = "doNetworkLog"
    /\ model.action = "SEND"
    /\ SendSyncFree
    /\ IsSending
    /\ mCacheSendQueue' = Append(mCacheSendQueue, model)
    /\ Dispatched
    /\ UNCHANGED <<mCacheLogQueue, mSendLogStatusCode, mSendLogAction, jobs, gone>>

\* SEND, doSendLog2Net: the file is there and the upload is submitted.
StartSend ==
    /\ thread = "doNetworkLog"
    /\ model.action = "SEND"
    /\ SendSyncFree
    /\ ~IsSending
    /\ mSendLogAction' = model
    /\ mSendLogStatusCode' = "SENDING"
    /\ jobs' = Append(jobs, model)
    /\ Dispatched
    /\ UNCHANGED <<mCacheLogQueue, mCacheSendQueue, gone>>

\* SEND, doSendLog2Net: the file no longer exists, nothing is sent.
SkipSend ==
    /\ thread = "doNetworkLog"
    /\ model.action = "SEND"
    /\ SendSyncFree
    /\ ~IsSending
    /\ gone' = Append(gone, model)
    /\ Dispatched
    /\ UNCHANGED <<mCacheLogQueue, sendVars>>

-------------------------------------------------------------------------------
(* The executor's thread: SendLogRunnable.run and the upload callback *)

\* The runnable reads its action and calls sendLog.
RunJob ==
    /\ exec = "idle"
    /\ jobs # <<>>
    /\ jobs' = Tail(jobs)
    /\ running' = mSendLogAction
    /\ exec' = "sendLog"
    /\ UNCHANGED <<mCacheLogQueue, mIsWorking, mCacheSendQueue, mSendLogStatusCode,
                   mSendLogAction, producerVars, thread, model, accepted, gone>>

\* Mutant: the callback clears mCacheSendQueue and forgets to re-queue it.
LoseParked == mCacheLogQueue

\* Mutant: the parked models are put before the waiting ones.
ParkedFirst == mCacheSendQueue \o mCacheLogQueue

\* mCacheLogQueue.addAll(mCacheSendQueue), one atomic append of that queue
Requeued == mCacheLogQueue \o mCacheSendQueue

\* Mutant: the callback ends the upload and leaves the parked models parked.
FinishOnly ==
    /\ exec = "sendLog"
    /\ mSendLogStatusCode' = "FINISH"
    /\ gone' = Append(gone, running)
    /\ running' = NoModel
    /\ exec' = "notify"
    /\ UNCHANGED <<mCacheLogQueue, mIsWorking, mCacheSendQueue, mSendLogAction, jobs,
                   producerVars, thread, model, accepted>>

\* sendLog has returned; the callback enters sendSync: status FINISH, the
\* parked models go back to the log queue.
Callback ==
    /\ exec = "sendLog"
    /\ mSendLogStatusCode' = "FINISH"
    /\ mCacheLogQueue' = Requeued
    /\ mCacheSendQueue' = <<>>
    /\ gone' = Append(gone, running)
    /\ running' = NoModel
    /\ exec' = "notify"
    /\ UNCHANGED <<mIsWorking, mSendLogAction, jobs, producerVars, thread, model,
                   accepted>>

\* notifyRun() inside sendSync: the test; when LoganThread is at work the
\* callback returns and releases sendSync.
ExecTestWorking ==
    /\ exec = "notify"
    /\ \E b \in BOOLEAN :
          /\ ReadsWorking(b)
          /\ exec' = IF b THEN "idle" ELSE "lock"
    /\ UNCHANGED <<mCacheLogQueue, mIsWorking, sendVars, producerVars, thread,
                   model, running, accepted, gone>>

\* notifyRun() inside sendSync: the notify; then sendSync is released.
ExecNotifySync ==
    /\ exec = "lock"
    /\ SyncFree
    /\ Notify
    /\ exec' = "idle"
    /\ UNCHANGED <<mCacheLogQueue, mIsWorking, sendVars, producerVars, model,
                   running, accepted, gone>>

-------------------------------------------------------------------------------
Init ==
    /\ mCacheLogQueue = <<>>
    /\ mIsWorking = FALSE
    /\ mCacheSendQueue = <<>>
    /\ mSendLogStatusCode = "NONE"
    /\ mSendLogAction = NoModel
    /\ jobs = <<>>
    /\ caller = [p \in Producers |-> "idle"]
    /\ call = [p \in Producers |-> NoModel]
    /\ issued = [p \in Producers |-> 0]
    /\ thread = "lock"
    /\ model = NoModel
    /\ exec = "idle"
    /\ running = NoModel
    /\ accepted = {}
    /\ gone = <<>>

InCall(p)    == Add(p) \/ TestWorking(p) \/ NotifySync(p)
Producer(p)  == (\E a \in Actions : Enter(p, a)) \/ InCall(p)
LoganThread  == Lock \/ Poll \/ Wait \/ WakeUp \/ Handle \/ Park \/ StartSend \/ SkipSend
Executor     == RunJob \/ Callback \/ ExecTestWorking \/ ExecNotifySync

Steps == (\E p \in Producers : Producer(p)) \/ LoganThread \/ Executor
Next  == Steps \/ SpuriousWakeUp

Spec == Init /\ [][Next]_vars

\* The same without wake-ups out of nowhere: whatever goes wrong here needs none.
NotifyOnlySpec == Init /\ [][Steps]_vars

\* The scheduler runs every runnable thread; nobody has to make another call
\* and no wait() has to return by itself.
Fairness ==
    /\ \A p \in Producers : WF_vars(InCall(p))
    /\ WF_vars(LoganThread)
    /\ WF_vars(Executor)

FairSpec == Spec /\ Fairness

-------------------------------------------------------------------------------
(* Properties *)

Elems(s) == {s[i] : i \in DOMAIN s}
InHand == IF model = NoModel THEN <<>> ELSE <<model>>
InExec == jobs \o (IF running = NoModel THEN <<>> ELSE <<running>>)

\* Every place an accepted model can be, as one sequence.
Everywhere == gone \o InHand \o mCacheLogQueue \o mCacheSendQueue \o InExec

\* Conservation (LoganThread 128-134, 166-172, 441-448): an accepted model is in
\* exactly one place - queued, being dispatched, parked, with the executor, or
\* done.  The shared runnable, the park and re-queue of SENDs and the polls of
\* the thread neither lose nor repeat one.
Conservation ==
    /\ Elems(Everywhere) = accepted
    /\ \A i, j \in DOMAIN Everywhere : Everywhere[i] = Everywhere[j] => i = j

\* The upload protocol under sendSync (LoganThread 166-172, 436-452): the status
\* is SENDING exactly while one upload is submitted or running, never two, and
\* the single shared runnable still holds the action it was submitted for.  Only
\* the callback of a running upload takes models out of mCacheSendQueue (443-447):
\* a parked model always has such an upload ahead of it, or it would stay for ever.
OneUpload ==
    /\ Len(InExec) <= 1
    /\ mSendLogStatusCode = "SENDING" <=> InExec # <<>>
    /\ InExec # <<>> => InExec[1] = mSendLogAction
    /\ mCacheSendQueue # <<>> => InExec # <<>>

\* The abstract line of LoganPipe: the model LoganThread has polled is still at
\* its front, the upload is the one model the executor has.
Pipe == INSTANCE LoganPipe WITH
    Model   <- LoganModel,
    Nothing <- NoModel,
    line    <- InHand \o mCacheLogQueue,
    aside   <- mCacheSendQueue,
    upload  <- IF InExec = <<>> THEN NoModel ELSE InExec[1],
    served  <- gone

\* LoganQueue implements LoganPipe: for all interleavings of callers, thread and
\* upload callback, models are served in the order they were added, one upload
\* runs at a time and a parked SEND rejoins the end of the queue
\* (LoganThread 121-181, 441-448).
ImplementsPipe == Pipe!PipeSpec

\* A caller that sees LoganThread waiting must get through to it: the thread
\* never sits in wait() with mIsWorking set (LoganThread 130-131), which would
\* silence every later notifyRun.
WaitingIsVisible == thread = "wait" => ~mIsWorking

\* One thread's writes reach the log in the order of its calls
\* (LoganControlCenter 118-119, LoganThread 128): parking re-orders SENDs only.
OrderKept(s) ==
    \A i, j \in DOMAIN s :
        (i < j /\ s[i].by = s[j].by /\ s[i].action # "SEND" /\ s[j].action # "SEND")
            => s[i].n < s[j].n
CallOrder == OrderKept(gone)

\* The strengthening that makes CallOrder and OneUpload inductive.  HandInv says
\* when the local variables hold a model, UploadInv where the upload is in each
\* phase of its life, OrderInv extends CallOrder to the models still under way.
HandInv ==
    /\ \A p \in Producers :
          /\ caller[p] = "add" <=> call[p] # NoModel
          /\ call[p] # NoModel => call[p].by = p /\ call[p].n = issued[p]
    /\ thread = "doNetworkLog" <=> model # NoModel
    /\ exec = "sendLog" <=> running # NoModel

UploadInv ==
    /\ IsSending =>
          /\ mSendLogAction # NoModel
          /\ \/ jobs = <<mSendLogAction>> /\ exec = "idle"
             \/ jobs = <<>> /\ running = mSendLogAction /\ exec = "sendLog"
    /\ ~IsSending => jobs = <<>> /\ exec # "sendLog"
    /\ mCacheSendQueue # <<>> => IsSending
    /\ mSendLogAction # NoModel => mSendLogAction.action = "SEND"
    /\ \A i \in DOMAIN mCacheSendQueue : mCacheSendQueue[i].action = "SEND"

Before(a, b) ==
    (a.by = b.by /\ a.action # "SEND" /\ b.action # "SEND") => a.n < b.n

\* No call that is still to be added was made before m.
NoLaterThanCall(m) ==
    /\ m.n <= issued[m.by]
    /\ call[m.by] # NoModel => m.n < issued[m.by]

OrderInv ==
    /\ OrderKept(gone)
    /\ OrderKept(mCacheLogQueue)
    /\ \A i \in DOMAIN gone, j \in DOMAIN mCacheLogQueue : Before(gone[i], mCacheLogQueue[j])
    /\ \A i \in DOMAIN gone : NoLaterThanCall(gone[i])
    /\ \A j \in DOMAIN mCacheLogQueue : NoLaterThanCall(mCacheLogQueue[j])
    /\ \A j \in DOMAIN mCacheSendQueue : NoLaterThanCall(mCacheSendQueue[j])
    /\ mSendLogAction # NoModel => NoLaterThanCall(mSendLogAction)
    /\ model # NoModel =>
          /\ NoLaterThanCall(model)
          /\ \A i \in DOMAIN gone : Before(gone[i], model)
          /\ \A j \in DOMAIN mCacheLogQueue : Before(model, mCacheLogQueue[j])

IInv == TypeOK /\ HandInv /\ UploadInv /\ WaitingIsVisible /\ OrderInv

Writes(s) == {i \in DOMAIN s : s[i].action = "WRITE"}
AddingWrite == {p \in Producers : caller[p] = "add" /\ call[p].action = "WRITE"}

\* The unlocked test-then-add of write() (LoganControlCenter 118-119) can pass
\* mMaxQueue, but the WRITEs in the queue exceed it by less than the number of
\* threads that write at the same time.
WriteOvershoot ==
    Cardinality(Writes(mCacheLogQueue)) + Cardinality(AddingWrite)
        <= mMaxQueue - 1 + Cardinality(Producers)

\* LoganControlCenter:51 calls mMaxQueue the maximum number of the queue.
QueueWithinMax == Len(mCacheLogQueue) <= mMaxQueue

\* sync and sendSync are taken in opposite orders by LoganThread (125, 166) and
\* by the upload callback (441, 106): each would wait for the other for ever.
NoLockCycle ==
    ~ /\ thread = "doNetworkLog" /\ model.action = "SEND"
      /\ exec = "lock"

\* Logan.java:86 says of f() that the log file is written at once: an accepted
\* FLUSH is eventually executed.
FlushHandled ==
    \A p \in Producers, k \in 1..MaxCalls :
        LET m == [by |-> p, n |-> k, action |-> "FLUSH"]
        IN  m \in accepted ~> m \in Elems(gone)

\* Once a notify gets through to LoganThread, everything queued by then is
\* handled before it waits again (processes that send nothing, so that the
\* callback's lock order does not matter).
WokenDrains ==
    \A p \in Producers, k \in 1..MaxCalls, a \in Actions :
        LET m == [by |-> p, n |-> k, action |-> a]
        IN  (thread = "woken" /\ m \in accepted) ~> m \in Elems(gone)
===============================================================================
