--------------------------- MODULE LoganQueueProofs ---------------------------
(***************************************************************************)
(* What LoganQueue guarantees for any number of callers, calls and any     *)
(* queue limit, whatever the racy reads of mIsWorking return.              *)
(***************************************************************************)
EXTENDS LoganQueue, TLAPS, SequenceTheorems, FiniteSetTheorems

CoreInv == TypeOK /\ HandInv /\ UploadInv /\ WaitingIsVisible

LEMMA InitCore == Init => CoreInv
<1> SUFFICES ASSUME Init PROVE CoreInv
  OBVIOUS
<1>1. TypeOK
  <2>1. /\ caller \in [Producers -> CallerPC]
        /\ call \in [Producers -> LoganModel \cup {NoModel}]
        /\ issued \in [Producers -> 0..MaxCalls]
    BY QueueAssumption DEF Init, CallerPC
  <2>2. <<>> \in Seq(LoganModel)
    OBVIOUS
  <2> QED
    BY <2>1, <2>2 DEF Init, TypeOK, ThreadPC, ExecPC, Status
<1>2. HandInv /\ UploadInv /\ WaitingIsVisible
  BY DEF Init, HandInv, UploadInv, WaitingIsVisible, IsSending
<1> QED
  BY <1>1, <1>2 DEF CoreInv

LEMMA EnterCore ==
  ASSUME CoreInv, NEW p \in Producers, NEW a \in Actions, Enter(p, a)
  PROVE  CoreInv'
<1> USE QueueAssumption DEF CoreInv, Enter, sendVars, execVars
<1> DEFINE m == [by |-> p, n |-> issued[p] + 1, action |-> a]
<1>1. /\ issued[p] \in 0..MaxCalls /\ issued[p] + 1 \in 1..MaxCalls
      /\ issued' = [issued EXCEPT ![p] = issued[p] + 1]
  <2>1. issued[p] \in 0..MaxCalls /\ issued[p] < MaxCalls /\ MaxCalls \in Nat
    BY DEF TypeOK
  <2>2. issued' = [issued EXCEPT ![p] = issued[p] + 1]
    OBVIOUS
  <2> QED
    BY <2>1, <2>2
<1>2. m \in LoganModel
  BY <1>1 DEF LoganModel
<1>3. TypeOK'
  <2>1. issued' \in [Producers -> 0..MaxCalls]
    BY <1>1 DEF TypeOK
  <2>2. /\ caller' \in [Producers -> CallerPC]
        /\ call' \in [Producers -> LoganModel \cup {NoModel}]
    BY <1>2 DEF TypeOK, CallerPC
  <2> QED
    BY <2>1, <2>2 DEF TypeOK
<1>4. HandInv'
  BY <1>1, <1>2, NoModelAssumption DEF HandInv, TypeOK, CallerPC
<1>5. UploadInv' /\ WaitingIsVisible'
  BY DEF UploadInv, WaitingIsVisible, IsSending
<1> QED
  BY <1>3, <1>4, <1>5

LEMMA AddCore ==
  ASSUME CoreInv, NEW p \in Producers, Add(p)
  PROVE  CoreInv'
<1> USE DEF CoreInv, Add, sendVars, execVars
<1>1. call[p] \in LoganModel
  BY DEF TypeOK, HandInv
<1>2. TypeOK'
  BY <1>1, AppendProperties DEF TypeOK, CallerPC
<1>3. HandInv'
  BY DEF HandInv, TypeOK
<1>4. UploadInv' /\ WaitingIsVisible'
  BY DEF UploadInv, WaitingIsVisible, IsSending
<1> QED
  BY <1>2, <1>3, <1>4

LEMMA CallerCore ==
  ASSUME CoreInv, NEW p \in Producers, TestWorking(p) \/ NotifySync(p)
  PROVE  CoreInv'
<1> USE DEF CoreInv, TestWorking, NotifySync, Notify, sendVars, execVars
<1>1. TypeOK'
  BY DEF TypeOK, CallerPC, ThreadPC
<1>2. HandInv'
  BY DEF HandInv, TypeOK
<1>3. UploadInv' /\ WaitingIsVisible'
  BY DEF UploadInv, WaitingIsVisible, IsSending
<1> QED
  BY <1>1, <1>2, <1>3

LEMMA LoopCore ==
  ASSUME CoreInv, Lock \/ Wait \/ WakeUp \/ SpuriousWakeUp
  PROVE  CoreInv'
<1> USE DEF CoreInv, Lock, Wait, WakeUp, SpuriousWakeUp, sendVars, execVars, producerVars
<1>1. TypeOK'
  BY DEF TypeOK, ThreadPC
<1>2. HandInv'
  BY DEF HandInv
<1>3. UploadInv' /\ WaitingIsVisible'
  BY DEF UploadInv, WaitingIsVisible, IsSending
<1> QED
  BY <1>1, <1>2, <1>3

LEMMA PollCore ==
  ASSUME CoreInv, Poll
  PROVE  CoreInv'
<1> USE DEF CoreInv, Poll, sendVars, execVars, producerVars
<1>1. mCacheLogQueue # <<>> =>
         Head(mCacheLogQueue) \in LoganModel /\ Tail(mCacheLogQueue) \in Seq(LoganModel)
  BY HeadTailProperties DEF TypeOK
<1>2. TypeOK'
  BY <1>1 DEF TypeOK, ThreadPC
<1>3. HandInv'
  BY <1>1, NoModelAssumption DEF HandInv
<1>4. UploadInv' /\ WaitingIsVisible'
  BY DEF UploadInv, WaitingIsVisible, IsSending
<1> QED
  BY <1>2, <1>3, <1>4

LEMMA DispatchCore ==
  ASSUME CoreInv, Handle \/ Park \/ StartSend \/ SkipSend
  PROVE  CoreInv'
<1> USE DEF CoreInv, Dispatched, sendVars, execVars, producerVars
<1>0. model \in LoganModel
  BY DEF Handle, Park, StartSend, SkipSend, HandInv, TypeOK
<1>1. CASE Handle \/ SkipSend
  <2>0. Append(gone, model) \in Seq(LoganModel)
    BY <1>0, AppendProperties DEF TypeOK
  <2>1. TypeOK'
    BY <1>0, <1>1, <2>0 DEF TypeOK, ThreadPC, Handle, SkipSend
  <2>2. HandInv'
    BY <1>1 DEF HandInv, Handle, SkipSend
  <2>3. UploadInv' /\ WaitingIsVisible'
    BY <1>1 DEF UploadInv, WaitingIsVisible, IsSending, Handle, SkipSend
  <2> QED
    BY <2>1, <2>2, <2>3
<1>2. CASE Park
  <2>1. /\ Append(mCacheSendQueue, model) \in Seq(LoganModel)
        /\ DOMAIN Append(mCacheSendQueue, model) = 1..(Len(mCacheSendQueue) + 1)
        /\ \A i \in 1..Len(mCacheSendQueue) : Append(mCacheSendQueue, model)[i] = mCacheSendQueue[i]
        /\ Append(mCacheSendQueue, model)[Len(mCacheSendQueue) + 1] = model
        /\ Len(mCacheSendQueue) \in Nat /\ DOMAIN mCacheSendQueue = 1..Len(mCacheSendQueue)
    BY <1>0, AppendProperties, LenProperties DEF TypeOK
  <2>2. TypeOK'
    BY <1>2, <2>1 DEF TypeOK, ThreadPC, Park
  <2>3. HandInv'
    BY <1>2 DEF HandInv, Park
  <2>4. \A i \in DOMAIN mCacheSendQueue' : mCacheSendQueue'[i].action = "SEND"
    BY <1>2, <2>1 DEF Park, UploadInv
  <2>5. UploadInv' /\ WaitingIsVisible'
    BY <1>2, <2>4 DEF UploadInv, WaitingIsVisible, IsSending, Park
  <2> QED
    BY <2>2, <2>3, <2>5
<1>3. CASE StartSend
  <2>1. jobs = <<>> /\ exec = "idle"
    BY <1>3 DEF UploadInv, IsSending, StartSend, SendSyncFree, TypeOK, ExecPC
  <2>2. jobs' = <<model>>
    BY <1>3, <2>1 DEF StartSend
  <2>3. TypeOK'
    BY <1>0, <1>3, <2>2 DEF TypeOK, ThreadPC, Status, StartSend
  <2>4. HandInv'
    BY <1>3 DEF HandInv, StartSend
  <2>5. UploadInv' /\ WaitingIsVisible'
    BY <1>0, <1>3, <2>1, <2>2, NoModelAssumption
    DEF UploadInv, WaitingIsVisible, IsSending, StartSend
  <2> QED
    BY <2>3, <2>4, <2>5
<1> QED
  BY <1>1, <1>2, <1>3

LEMMA ExecCore ==
  ASSUME CoreInv, RunJob \/ Callback \/ ExecTestWorking \/ ExecNotifySync
  PROVE  CoreInv'
<1> USE DEF CoreInv, sendVars, execVars, producerVars
<1>1. CASE RunJob
  <2>1. jobs = <<mSendLogAction>> /\ mSendLogAction # NoModel /\ IsSending
    BY <1>1 DEF RunJob, UploadInv
  <2>2. jobs' = <<>>
    BY <1>1, <2>1 DEF RunJob
  <2>3. TypeOK'
    BY <1>1, <2>2 DEF TypeOK, ExecPC, RunJob
  <2>4. HandInv'
    BY <1>1, <2>1 DEF HandInv, RunJob
  <2>5. UploadInv' /\ WaitingIsVisible'
    BY <1>1, <2>1, <2>2 DEF UploadInv, WaitingIsVisible, IsSending, RunJob
  <2> QED
    BY <2>3, <2>4, <2>5
<1>2. CASE Callback
  <2>1. running \in LoganModel
    BY <1>2 DEF Callback, HandInv, TypeOK
  <2>2. TypeOK'
    BY <1>2, <2>1, AppendProperties, ConcatProperties
    DEF TypeOK, ExecPC, Status, Callback, Requeued
  <2>3. HandInv'
    BY <1>2 DEF HandInv, Callback
  <2>4. jobs = <<>>
    BY <1>2 DEF UploadInv, Callback
  <2>5. UploadInv' /\ WaitingIsVisible'
    BY <1>2, <2>4 DEF UploadInv, WaitingIsVisible, IsSending, Callback
  <2> QED
    BY <2>2, <2>3, <2>5
<1>3. CASE ExecTestWorking \/ ExecNotifySync
  <2>1. TypeOK'
    BY <1>3 DEF TypeOK, ExecPC, ThreadPC, ExecTestWorking, ExecNotifySync, Notify
  <2>2. HandInv'
    BY <1>3 DEF HandInv, ExecTestWorking, ExecNotifySync, Notify
  <2>3. ~IsSending
    BY <1>3 DEF UploadInv, ExecTestWorking, ExecNotifySync
  <2>4. UploadInv' /\ WaitingIsVisible'
    BY <1>3, <2>3 DEF UploadInv, WaitingIsVisible, IsSending, ExecTestWorking,
                      ExecNotifySync, Notify
  <2> QED
    BY <2>1, <2>2, <2>4
<1> QED
  BY <1>1, <1>2, <1>3

LEMMA CoreInvariant == Spec => []CoreInv
<1>1. CoreInv /\ UNCHANGED vars => CoreInv'
  BY DEF CoreInv, TypeOK, HandInv, UploadInv, WaitingIsVisible, IsSending, vars,
         sendVars, execVars, producerVars
<1>2. CoreInv /\ [Next]_vars => CoreInv'
  BY <1>1, EnterCore, AddCore, CallerCore, LoopCore, PollCore, DispatchCore, ExecCore
  DEF Next, Steps, Producer, InCall, LoganThread, Executor
<1> QED
  BY <1>2, InitCore, PTL DEF Spec

\* Every variable keeps its type (a model is never dispatched or uploaded that
\* is null, LoganThread 129 and 157), for any number of callers.
THEOREM TypeCorrect == Spec => []TypeOK
  BY CoreInvariant, PTL DEF CoreInv

\* LoganThread never waits with mIsWorking set, so that a caller that reads the
\* flag while it waits takes the lock and notifies (LoganThread 104-110, 130-131).
THEOREM WaitingVisible == Spec => []WaitingIsVisible
  BY CoreInvariant, PTL DEF CoreInv

-------------------------------------------------------------------------------
(* The upload protocol *)

LEMMA UploadFacts ==
  ASSUME CoreInv
  PROVE  OneUpload
<1> USE DEF CoreInv
<1>1. CASE IsSending
  <2>1. CASE jobs = <<mSendLogAction>> /\ exec = "idle"
    <3>1. running = NoModel
      BY <2>1 DEF HandInv
    <3>2. InExec = <<mSendLogAction>>
      BY <2>1, <3>1 DEF InExec
    <3> QED
      BY <1>1, <3>2 DEF OneUpload, IsSending
  <2>2. CASE jobs = <<>> /\ running = mSendLogAction /\ exec = "sendLog"
    <3>1. InExec = <<mSendLogAction>>
      BY <2>2 DEF HandInv, InExec
    <3> QED
      BY <1>1, <3>1 DEF OneUpload, IsSending
  <2> QED
    BY <1>1, <2>1, <2>2 DEF UploadInv
<1>2. CASE ~IsSending
  <2>1. InExec = <<>> /\ mCacheSendQueue = <<>>
    BY <1>2 DEF UploadInv, HandInv, InExec
  <2> QED
    BY <1>2, <2>1 DEF OneUpload, IsSending
<1> QED
  BY <1>1, <1>2

\* Never two uploads at once, the shared runnable runs the action it was submitted
\* for, and a parked SEND always has an upload before it whose callback will put it
\* back in the queue (LoganThread 166-172, 436-452), for any number of callers.
THEOREM UploadsOneByOne == Spec => []OneUpload
  BY CoreInvariant, UploadFacts, PTL

-------------------------------------------------------------------------------
(* The order of one thread's calls *)

LEMMA InitOrder == Init => OrderInv
  BY DEF Init, OrderInv, OrderKept

\* A step that moves no model and starts no call keeps the order.
LEMMA SameOrder ==
  ASSUME OrderInv,
         UNCHANGED <<mCacheLogQueue, mCacheSendQueue, mSendLogAction, call, issued,
                     model, gone>>
  PROVE  OrderInv'
  BY DEF OrderInv, OrderKept, Before, NoLaterThanCall

LEMMA EnterOrder ==
  ASSUME CoreInv, OrderInv, NEW p \in Producers, NEW a \in Actions, Enter(p, a)
  PROVE  OrderInv'
<1> USE DEF CoreInv
<1>1. /\ UNCHANGED <<mCacheLogQueue, mCacheSendQueue, mSendLogAction, model, gone>>
      /\ issued' = [issued EXCEPT ![p] = @ + 1]
      /\ \/ call' = [call EXCEPT ![p] = [by |-> p, n |-> issued[p] + 1, action |-> a]]
         \/ call' = call
  BY DEF Enter, sendVars
<1>2. call[p] = NoModel
  BY DEF Enter, HandInv
<1>3. ASSUME NEW m \in LoganModel, NoLaterThanCall(m)
      PROVE  NoLaterThanCall(m)'
  <2>1. m.by \in Producers /\ m.n \in Nat /\ issued[m.by] \in Nat
    BY QueueAssumption DEF LoganModel, TypeOK
  <2>2. issued'[m.by] = IF m.by = p THEN issued[p] + 1 ELSE issued[m.by]
    BY <1>1, <2>1 DEF TypeOK
  <2>3. m.by # p => call'[m.by] = call[m.by]
    BY <1>1, <2>1 DEF TypeOK
  <2> QED
    BY <1>3, <2>1, <2>2, <2>3 DEF NoLaterThanCall
<1>4. /\ \A i \in DOMAIN gone : gone[i] \in LoganModel
      /\ \A i \in DOMAIN mCacheLogQueue : mCacheLogQueue[i] \in LoganModel
      /\ \A i \in DOMAIN mCacheSendQueue : mCacheSendQueue[i] \in LoganModel
      /\ mSendLogAction # NoModel => mSendLogAction \in LoganModel
      /\ model # NoModel => model \in LoganModel
  BY DEF TypeOK
<1> QED
  BY <1>1, <1>3, <1>4 DEF OrderInv, OrderKept, Before

LEMMA AddOrder ==
  ASSUME CoreInv, OrderInv, NEW p \in Producers, Add(p)
  PROVE  OrderInv'
<1> USE DEF CoreInv
<1>0. call[p] \in LoganModel
  BY DEF Add, HandInv, TypeOK
<1> PICK c \in LoganModel : c = call[p]
  BY <1>0
<1> DEFINE q == mCacheLogQueue
<1>1. /\ UNCHANGED <<mCacheSendQueue, mSendLogAction, model, gone, issued>>
      /\ mCacheLogQueue' = Append(q, c)
      /\ call' = [call EXCEPT ![p] = NoModel]
  BY DEF Add, sendVars
<1>2. c = call[p] /\ c # NoModel /\ c.by = p /\ c.n = issued[p] /\ issued[p] \in Nat
  BY QueueAssumption DEF Add, HandInv, TypeOK
<1>3. /\ DOMAIN q = 1..Len(q) /\ Len(q) \in Nat
      /\ DOMAIN q' = 1..(Len(q) + 1)
      /\ \A i \in 1..Len(q) : q'[i] = q[i]
      /\ q'[Len(q) + 1] = c
  BY <1>1, <1>2, AppendProperties, LenProperties DEF TypeOK
<1>4. ASSUME NEW m, NoLaterThanCall(m)
      PROVE  Before(m, c)
  BY <1>2, <1>4 DEF Before, NoLaterThanCall
<1>5. ASSUME NEW m \in LoganModel, NoLaterThanCall(m)
      PROVE  NoLaterThanCall(m)'
  <2>1. m.by \in Producers
    BY DEF LoganModel
  <2>2. call'[m.by] = IF m.by = p THEN NoModel ELSE call[m.by]
    BY <1>1, <2>1 DEF TypeOK
  <2> QED
    BY <1>1, <1>5, <2>2 DEF NoLaterThanCall
<1>6. NoLaterThanCall(c)'
  <2>1. call'[p] = NoModel
    BY <1>1 DEF TypeOK
  <2> QED
    BY <1>1, <1>2, <2>1 DEF NoLaterThanCall
<1>7. /\ \A i \in DOMAIN gone : gone[i] \in LoganModel
      /\ \A i \in DOMAIN q : q[i] \in LoganModel
      /\ \A i \in DOMAIN mCacheSendQueue : mCacheSendQueue[i] \in LoganModel
      /\ mSendLogAction # NoModel => mSendLogAction \in LoganModel
      /\ model # NoModel => model \in LoganModel
  BY DEF TypeOK
<1>8. OrderKept(q')
  <2> SUFFICES ASSUME NEW i \in DOMAIN q', NEW j \in DOMAIN q', i < j
               PROVE  Before(q'[i], q'[j])
    BY DEF OrderKept, Before
  <2>1. i \in 1..Len(q) /\ q'[i] = q[i]
    BY <1>3
  <2>2. CASE j = Len(q) + 1
    BY <1>3, <1>4, <2>1, <2>2 DEF OrderInv
  <2>3. CASE j \in 1..Len(q)
    BY <1>3, <2>1, <2>3 DEF OrderInv, OrderKept, Before
  <2> QED
    BY <1>3, <2>2, <2>3
<1>9. \A i \in DOMAIN gone', j \in DOMAIN q' : Before(gone'[i], q'[j])
  <2> SUFFICES ASSUME NEW i \in DOMAIN gone, NEW j \in DOMAIN q'
               PROVE  Before(gone[i], q'[j])
    BY <1>1
  <2> QED
    BY <1>3, <1>4 DEF OrderInv
<1>10. model # NoModel => \A j \in DOMAIN q' : Before(model, q'[j])
  BY <1>3, <1>4 DEF OrderInv
<1>11. \A j \in DOMAIN q' : NoLaterThanCall(q[j])'
  <2> SUFFICES ASSUME NEW j \in DOMAIN q'
               PROVE  NoLaterThanCall(q[j])'
    OBVIOUS
  <2>1. CASE j \in 1..Len(q)
    <3> PICK m \in LoganModel : m = q[j] /\ m = q'[j] /\ NoLaterThanCall(m)
      BY <1>3, <1>7, <2>1 DEF OrderInv
    <3>1. NoLaterThanCall(m)'
      BY <1>5
    <3> QED
      BY <3>1
  <2>2. CASE j = Len(q) + 1
    <3>1. q'[j] = c
      BY <1>3, <2>2
    <3> QED
      BY <1>6, <3>1
  <2> QED
    BY <1>3, <2>1, <2>2
<1> QED
  BY <1>1, <1>5, <1>7, <1>8, <1>9, <1>10, <1>11 DEF OrderInv, OrderKept, Before

LEMMA PollOrder ==
  ASSUME CoreInv, OrderInv, Poll
  PROVE  OrderInv'
<1> USE DEF CoreInv
<1>1. CASE mCacheLogQueue = <<>>
  <2>1. UNCHANGED <<mCacheLogQueue, mCacheSendQueue, mSendLogAction, call, issued, model, gone>>
    BY <1>1 DEF Poll, sendVars, producerVars
  <2> QED
    BY <2>1, SameOrder
<1>2. CASE mCacheLogQueue # <<>>
  <2> DEFINE q == mCacheLogQueue
  <2>1. /\ UNCHANGED <<mCacheSendQueue, mSendLogAction, call, issued, gone>>
        /\ model' = Head(q) /\ q' = Tail(q)
    BY <1>2 DEF Poll, sendVars, producerVars
  <2>2. /\ Len(q) \in Nat \ {0} /\ DOMAIN q = 1..Len(q)
        /\ DOMAIN q' = 1..(Len(q) - 1)
        /\ \A i \in 1..(Len(q) - 1) : q'[i] = q[i + 1]
        /\ model' = q[1]
    BY <1>2, <2>1, HeadTailProperties, LenProperties, EmptySeq DEF TypeOK
  <2>3. OrderKept(q')
    <3> SUFFICES ASSUME NEW i \in DOMAIN q', NEW j \in DOMAIN q', i < j
                 PROVE  Before(q'[i], q'[j])
      BY DEF OrderKept, Before
    <3>1. /\ i + 1 \in DOMAIN q /\ j + 1 \in DOMAIN q /\ i + 1 < j + 1
          /\ q'[i] = q[i + 1] /\ q'[j] = q[j + 1]
      BY <2>2
    <3> QED
      BY <3>1 DEF OrderInv, OrderKept, Before
  <2>4. \A i \in DOMAIN gone', j \in DOMAIN q' : Before(gone'[i], q'[j])
    BY <2>1, <2>2 DEF OrderInv
  <2>5. \A i \in DOMAIN gone' : Before(gone'[i], model')
    BY <2>1, <2>2 DEF OrderInv
  <2>6. \A j \in DOMAIN q' : Before(model', q'[j])
    BY <2>2 DEF OrderInv, OrderKept, Before
  <2>7. \A j \in DOMAIN q' : NoLaterThanCall(q[j])'
    BY <2>1, <2>2 DEF OrderInv, NoLaterThanCall
  <2>8. NoLaterThanCall(model)'
    BY <2>1, <2>2 DEF OrderInv, NoLaterThanCall
  <2> QED
    BY <2>1, <2>3, <2>4, <2>5, <2>6, <2>7, <2>8 DEF OrderInv, OrderKept, NoLaterThanCall
<1> QED
  BY <1>1, <1>2

\* The end of a model's life: it goes behind everything that is gone.
LEMMA GoneOrder ==
  ASSUME OrderInv, NEW m \in LoganModel, gone \in Seq(LoganModel),
         \A i \in DOMAIN gone : Before(gone[i], m)
  PROVE  /\ OrderKept(Append(gone, m))
         /\ \A i \in DOMAIN Append(gone, m) : Append(gone, m)[i] = m \/ (i \in DOMAIN gone /\ Append(gone, m)[i] = gone[i])
<1> DEFINE g == Append(gone, m)
<1>1. /\ Len(gone) \in Nat /\ DOMAIN gone = 1..Len(gone)
      /\ DOMAIN g = 1..(Len(gone) + 1)
      /\ \A i \in 1..Len(gone) : g[i] = gone[i]
      /\ g[Len(gone) + 1] = m
  BY AppendProperties, LenProperties
<1> HIDE DEF g
<1>2. OrderKept(g)
  <2> SUFFICES ASSUME NEW i \in DOMAIN g, NEW j \in DOMAIN g, i < j
               PROVE  Before(g[i], g[j])
    BY DEF OrderKept, Before
  <2>1. i \in 1..Len(gone) /\ g[i] = gone[i]
    BY <1>1
  <2>2. CASE j = Len(gone) + 1
    BY <1>1, <2>1, <2>2
  <2>3. CASE j \in 1..Len(gone)
    BY <1>1, <2>1, <2>3 DEF OrderInv, OrderKept, Before
  <2> QED
    BY <1>1, <2>2, <2>3
<1>3. \A i \in DOMAIN g : g[i] = m \/ (i \in DOMAIN gone /\ g[i] = gone[i])
  BY <1>1
<1> QED
  BY <1>2, <1>3 DEF g

LEMMA DispatchOrder ==
  ASSUME CoreInv, OrderInv, Handle \/ Park \/ StartSend \/ SkipSend
  PROVE  OrderInv'
<1> USE DEF CoreInv
<1>0. /\ model \in LoganModel /\ model # NoModel /\ model' = NoModel
      /\ UNCHANGED <<mCacheLogQueue, call, issued>>
  BY DEF Handle, Park, StartSend, SkipSend, HandInv, TypeOK, Dispatched, sendVars, producerVars
<1>1. CASE Handle \/ SkipSend
  <2>1. gone' = Append(gone, model) /\ UNCHANGED <<mCacheSendQueue, mSendLogAction>>
    BY <1>1 DEF Handle, SkipSend, sendVars
  <2>2. /\ OrderKept(gone')
        /\ \A i \in DOMAIN gone' : gone'[i] = model \/ (i \in DOMAIN gone /\ gone'[i] = gone[i])
    BY <1>0, <2>1, GoneOrder DEF OrderInv, TypeOK
  <2>3. \A i \in DOMAIN gone', j \in DOMAIN mCacheLogQueue' : Before(gone'[i], mCacheLogQueue'[j])
    BY <1>0, <2>2 DEF OrderInv
  <2>4. \A i \in DOMAIN gone' : NoLaterThanCall(gone[i])'
    BY <1>0, <2>2 DEF OrderInv, NoLaterThanCall
  <2> QED
    BY <1>0, <2>1, <2>2, <2>3, <2>4 DEF OrderInv, OrderKept, NoLaterThanCall
<1>2. CASE Park
  <2>1. mCacheSendQueue' = Append(mCacheSendQueue, model) /\ UNCHANGED <<mSendLogAction, gone>>
    BY <1>2 DEF Park
  <2>2. \A i \in DOMAIN mCacheSendQueue' :
           \/ mCacheSendQueue'[i] = model
           \/ i \in DOMAIN mCacheSendQueue /\ mCacheSendQueue'[i] = mCacheSendQueue[i]
    BY <1>0, <2>1, AppendProperties, LenProperties DEF TypeOK
  <2>3. \A i \in DOMAIN mCacheSendQueue' : NoLaterThanCall(mCacheSendQueue[i])'
    BY <1>0, <2>2 DEF OrderInv, NoLaterThanCall
  <2> QED
    BY <1>0, <2>1, <2>3 DEF OrderInv, OrderKept, NoLaterThanCall
<1>3. CASE StartSend
  <2>1. mSendLogAction' = model /\ UNCHANGED <<mCacheSendQueue, gone>>
    BY <1>3 DEF StartSend
  <2> QED
    BY <1>0, <2>1 DEF OrderInv, OrderKept, NoLaterThanCall
<1> QED
  BY <1>1, <1>2, <1>3

LEMMA CallbackOrder ==
  ASSUME CoreInv, OrderInv, Callback
  PROVE  OrderInv'
<1> USE DEF CoreInv
<1> DEFINE q == mCacheLogQueue
<1>1. /\ q' = q \o mCacheSendQueue /\ mCacheSendQueue' = <<>>
      /\ gone' = Append(gone, running)
      /\ UNCHANGED <<mSendLogAction, call, issued, model>>
  BY DEF Callback, Requeued, producerVars
<1>2. running \in LoganModel /\ running = mSendLogAction /\ running # NoModel /\ running.action = "SEND"
  BY DEF Callback, HandInv, UploadInv, TypeOK
<1>3. /\ OrderKept(gone')
      /\ \A i \in DOMAIN gone' : gone'[i] = running \/ (i \in DOMAIN gone /\ gone'[i] = gone[i])
  BY <1>1, <1>2, GoneOrder DEF TypeOK, Before
<1>4. /\ Len(q) \in Nat /\ DOMAIN q = 1..Len(q)
      /\ Len(mCacheSendQueue) \in Nat /\ DOMAIN mCacheSendQueue = 1..Len(mCacheSendQueue)
      /\ DOMAIN q' = 1..(Len(q) + Len(mCacheSendQueue))
      /\ \A i \in DOMAIN q' : q'[i] = IF i <= Len(q) THEN q[i] ELSE mCacheSendQueue[i - Len(q)]
  BY <1>1, ConcatProperties, LenProperties DEF TypeOK
<1>5. \A i \in DOMAIN q' :
         \/ i \in DOMAIN q /\ q'[i] = q[i]
         \/ /\ i > Len(q) /\ q'[i].action = "SEND"
            /\ \E j \in DOMAIN mCacheSendQueue : q'[i] = mCacheSendQueue[j]
  <2> SUFFICES ASSUME NEW i \in DOMAIN q', ~(i <= Len(q))
               PROVE  /\ i > Len(q) /\ q'[i].action = "SEND"
                      /\ \E j \in DOMAIN mCacheSendQueue : q'[i] = mCacheSendQueue[j]
    BY <1>4
  <2>1. i - Len(q) \in DOMAIN mCacheSendQueue /\ q'[i] = mCacheSendQueue[i - Len(q)]
    BY <1>4
  <2> QED
    BY <1>4, <2>1 DEF UploadInv
<1>6. OrderKept(q')
  <2> SUFFICES ASSUME NEW i \in DOMAIN q', NEW j \in DOMAIN q', i < j
               PROVE  Before(q'[i], q'[j])
    BY DEF OrderKept, Before
  <2>1. CASE j <= Len(q)
    <3>1. i \in DOMAIN q /\ j \in DOMAIN q /\ q'[i] = q[i] /\ q'[j] = q[j]
      BY <1>4, <2>1
    <3> QED
      BY <3>1 DEF OrderInv, OrderKept, Before
  <2>2. CASE ~(j <= Len(q))
    <3>1. q'[j].action = "SEND"
      BY <1>4, <1>5, <2>2
    <3> QED
      BY <3>1 DEF Before
  <2> QED
    BY <2>1, <2>2
<1>7. \A i \in DOMAIN gone', j \in DOMAIN q' : Before(gone'[i], q'[j])
  BY <1>2, <1>3, <1>5 DEF OrderInv, Before
<1>8. model # NoModel => (\A i \in DOMAIN gone' : Before(gone'[i], model))
                          /\ (\A j \in DOMAIN q' : Before(model, q'[j]))
  BY <1>2, <1>3, <1>5 DEF OrderInv, Before
<1>9. \A i \in DOMAIN gone' : NoLaterThanCall(gone[i])'
  BY <1>1, <1>2, <1>3 DEF OrderInv, NoLaterThanCall
<1>10. \A i \in DOMAIN q' : NoLaterThanCall(q[i])'
  BY <1>1, <1>5 DEF OrderInv, NoLaterThanCall
<1>11. \A i \in DOMAIN mCacheSendQueue' : NoLaterThanCall(mCacheSendQueue[i])'
  BY <1>1
<1>12. mSendLogAction' # NoModel => NoLaterThanCall(mSendLogAction)'
  BY <1>1 DEF OrderInv, NoLaterThanCall
<1>13. model' # NoModel => NoLaterThanCall(model)'
  BY <1>1 DEF OrderInv, NoLaterThanCall
<1>14. OrderKept(gone)' /\ OrderKept(mCacheLogQueue)'
  BY <1>3, <1>6 DEF OrderKept
<1>15. model' # NoModel => (\A i \in DOMAIN gone' : Before(gone[i], model)')
                           /\ (\A j \in DOMAIN q' : Before(model, q[j])')
  BY <1>1, <1>8 DEF Before
<1>16. \A i \in DOMAIN gone', j \in DOMAIN q' : Before(gone[i], q[j])'
  BY <1>7 DEF Before
<1> QED
  BY <1>9, <1>10, <1>11, <1>12, <1>13, <1>14, <1>15, <1>16 DEF OrderInv

LEMMA OrderInvariant == Spec => []OrderInv
<1>1. ASSUME CoreInv, OrderInv, [Next]_vars
      PROVE  OrderInv'
  <2>1. CASE \/ \E p \in Producers : TestWorking(p) \/ NotifySync(p)
             \/ Lock \/ Wait \/ WakeUp \/ SpuriousWakeUp
             \/ RunJob \/ ExecTestWorking \/ ExecNotifySync \/ UNCHANGED vars
    <3>1. UNCHANGED <<mCacheLogQueue, mCacheSendQueue, mSendLogAction, call, issued,
                      model, gone>>
      BY <2>1 DEF TestWorking, NotifySync, Lock, Wait, WakeUp, SpuriousWakeUp, RunJob,
                  ExecTestWorking, ExecNotifySync, vars, sendVars, producerVars, execVars
    <3> QED
      BY <1>1, <3>1, SameOrder
  <2> QED
    BY <1>1, <2>1, EnterOrder, AddOrder, PollOrder, DispatchOrder, CallbackOrder
    DEF Next, Steps, Producer, InCall, LoganThread, Executor
<1> QED
  BY <1>1, InitOrder, CoreInvariant, PTL DEF Spec

\* One thread's writes, flushes, re-opens and arranges are executed in the order
\* of its calls (LoganControlCenter 118-119, LoganThread 128), for any number of
\* callers: only SENDs are re-ordered, by parking.
THEOREM CallsInOrder == Spec => []CallOrder
<1>1. OrderInv => CallOrder
  BY DEF OrderInv, CallOrder
<1> QED
  BY <1>1, OrderInvariant, PTL

\* The conjunction TLC checks on small instances is an inductive invariant.
THEOREM Inductive == Spec => []IInv
<1>1. CoreInv /\ OrderInv => IInv
  BY DEF CoreInv, IInv
<1> QED
  BY <1>1, CoreInvariant, OrderInvariant, PTL

-------------------------------------------------------------------------------
(* An accepted model is in one place *)

Once(s) == \A i, j \in DOMAIN s : s[i] = s[j] => i = j

\* What LoganThread has in hand and what is being uploaded
Hand   == {model} \ {NoModel}
Upload == IF IsSending THEN {mSendLogAction} ELSE {}

Disjoint(A, B) == A \cap B = {}

\* No place has a model twice, and no two places have the same.
PlacesInv ==
    /\ Once(gone) /\ Once(mCacheLogQueue) /\ Once(mCacheSendQueue)
    /\ Elems(gone) \cup Hand \cup Elems(mCacheLogQueue) \cup Elems(mCacheSendQueue) \cup Upload = accepted
    /\ Disjoint(Elems(gone), Hand)
    /\ Disjoint(Elems(gone), Elems(mCacheLogQueue))
    /\ Disjoint(Elems(gone), Elems(mCacheSendQueue))
    /\ Disjoint(Elems(gone), Upload)
    /\ Disjoint(Hand, Elems(mCacheLogQueue))
    /\ Disjoint(Hand, Elems(mCacheSendQueue))
    /\ Disjoint(Hand, Upload)
    /\ Disjoint(Elems(mCacheLogQueue), Elems(mCacheSendQueue))
    /\ Disjoint(Elems(mCacheLogQueue), Upload)
    /\ Disjoint(Elems(mCacheSendQueue), Upload)

\* What a sequence of two has, and when it has nothing twice
LEMMA ConcatOnce ==
  ASSUME NEW S, NEW s \in Seq(S), NEW t \in Seq(S)
  PROVE  /\ Elems(s \o t) = Elems(s) \cup Elems(t)
         /\ Once(s \o t) <=> Once(s) /\ Once(t) /\ Disjoint(Elems(s), Elems(t))
<1> DEFINE u == s \o t
<1>1. /\ Len(s) \in Nat /\ DOMAIN s = 1..Len(s) /\ Len(t) \in Nat /\ DOMAIN t = 1..Len(t)
      /\ DOMAIN u = 1..(Len(s) + Len(t))
      /\ \A i \in DOMAIN s : i \in DOMAIN u /\ u[i] = s[i]
      /\ \A j \in DOMAIN t : Len(s) + j \in DOMAIN u /\ u[Len(s) + j] = t[j]
  BY ConcatProperties, LenProperties
<1>2. \A k \in DOMAIN u : k \in DOMAIN s \/ (k - Len(s) \in DOMAIN t /\ k = Len(s) + (k - Len(s)))
  BY <1>1
<1> HIDE DEF u
<1>3. Elems(u) = Elems(s) \cup Elems(t)
  <2>1. \A k \in DOMAIN u : u[k] \in Elems(s) \cup Elems(t)
    BY <1>1, <1>2 DEF Elems
  <2>2. Elems(s) \subseteq Elems(u) /\ Elems(t) \subseteq Elems(u)
    BY <1>1 DEF Elems
  <2> QED
    BY <2>1, <2>2 DEF Elems
<1>4. ASSUME Once(u) PROVE Once(s) /\ Once(t) /\ Disjoint(Elems(s), Elems(t))
  <2>1. Once(s)
    BY <1>1, <1>4 DEF Once
  <2>2. Once(t)
    <3> SUFFICES ASSUME NEW i \in DOMAIN t, NEW j \in DOMAIN t, t[i] = t[j] PROVE i = j
      BY DEF Once
    <3>1. Len(s) + i = Len(s) + j
      BY <1>1, <1>4 DEF Once
    <3> QED
      BY <1>1, <3>1
  <2>3. Disjoint(Elems(s), Elems(t))
    <3> SUFFICES ASSUME NEW i \in DOMAIN s, NEW j \in DOMAIN t, s[i] = t[j] PROVE FALSE
      BY DEF Disjoint, Elems
    <3>1. i = Len(s) + j
      BY <1>1, <1>4 DEF Once
    <3> QED
      BY <1>1, <3>1
  <2> QED
    BY <2>1, <2>2, <2>3
<1>5. ASSUME Once(s), Once(t), Disjoint(Elems(s), Elems(t)) PROVE Once(u)
  <2> SUFFICES ASSUME NEW i \in DOMAIN u, NEW j \in DOMAIN u, u[i] = u[j] PROVE i = j
    BY DEF Once
  <2>1. CASE i \in DOMAIN s /\ j \in DOMAIN s
    BY <1>1, <1>5, <2>1 DEF Once
  <2>2. CASE i \notin DOMAIN s /\ j \notin DOMAIN s
    <3>1. t[i - Len(s)] = t[j - Len(s)] /\ i - Len(s) \in DOMAIN t /\ j - Len(s) \in DOMAIN t
      BY <1>1, <1>2, <2>2
    <3>2. i - Len(s) = j - Len(s)
      BY <1>5, <3>1 DEF Once
    <3> QED
      BY <1>1, <3>2
  <2>3. ASSUME NEW a \in DOMAIN s, NEW b \in DOMAIN u, b \notin DOMAIN s, u[a] = u[b] PROVE FALSE
    <3>1. u[b] = t[b - Len(s)] /\ b - Len(s) \in DOMAIN t /\ u[a] = s[a]
      BY <1>1, <1>2, <2>3
    <3>2. s[a] \in Elems(s) /\ t[b - Len(s)] \in Elems(t)
      BY <3>1 DEF Elems
    <3> QED
      BY <1>5, <2>3, <3>1, <3>2 DEF Disjoint
  <2> QED
    BY <2>1, <2>2, <2>3
<1> QED
  BY <1>3, <1>4, <1>5 DEF u

LEMMA JoinOnce ==
  ASSUME NEW S, NEW s \in Seq(S), NEW t \in Seq(S), Once(s), Once(t), Disjoint(Elems(s), Elems(t))
  PROVE  s \o t \in Seq(S) /\ Elems(s \o t) = Elems(s) \cup Elems(t) /\ Once(s \o t)
<1>1. s \o t \in Seq(S)
  BY ConcatProperties
<1> QED
  BY <1>1, ConcatOnce

LEMMA OneOnce == \A m : Elems(<<m>>) = {m} /\ Once(<<m>>)
BY DEF Elems, Once

LEMMA NoneOnce == Elems(<<>>) = {} /\ Once(<<>>)
BY DEF Elems, Once

LEMMA AppendOnce ==
  ASSUME NEW S, NEW s \in Seq(S), NEW m \in S, Once(s), m \notin Elems(s)
  PROVE  Elems(Append(s, m)) = Elems(s) \cup {m} /\ Once(Append(s, m))
<1> DEFINE t == <<m>>
<1>1. Append(s, m) = s \o t /\ t \in Seq(S)
  BY AppendIsConcat
<1>2. Elems(t) = {m} /\ Once(t)
  BY OneOnce
<1>3. Disjoint(Elems(s), Elems(t))
  BY <1>2 DEF Disjoint
<1> HIDE DEF t
<1>4. Elems(s \o t) = Elems(s) \cup Elems(t) /\ Once(s \o t)
  <2>1. /\ Elems(s \o t) = Elems(s) \cup Elems(t)
        /\ Once(s \o t) <=> Once(s) /\ Once(t) /\ Disjoint(Elems(s), Elems(t))
    BY <1>1, ConcatOnce
  <2> QED
    BY <1>2, <1>3, <2>1
<1> QED
  BY <1>1, <1>2, <1>4

LEMMA TailOnce ==
  ASSUME NEW S, NEW s \in Seq(S), s # <<>>, Once(s)
  PROVE  /\ Elems(s) = {Head(s)} \cup Elems(Tail(s)) /\ Head(s) \notin Elems(Tail(s))
         /\ Once(Tail(s))
<1>1. /\ s = <<Head(s)>> \o Tail(s) /\ Head(s) \in S /\ Tail(s) \in Seq(S)
      /\ <<Head(s)>> \in Seq(S)
  BY HeadTailProperties
<1>2. /\ Elems(s) = Elems(<<Head(s)>>) \cup Elems(Tail(s))
      /\ Once(Tail(s)) /\ Disjoint(Elems(<<Head(s)>>), Elems(Tail(s)))
  <2> DEFINE h == <<Head(s)>>
             t == Tail(s)
  <2>1. s = h \o t /\ h \in Seq(S) /\ t \in Seq(S)
    BY <1>1
  <2> HIDE DEF h, t
  <2>2. /\ Elems(h \o t) = Elems(h) \cup Elems(t)
        /\ Once(h \o t) <=> Once(h) /\ Once(t) /\ Disjoint(Elems(h), Elems(t))
    BY <2>1, ConcatOnce
  <2>3. Elems(s) = Elems(h) \cup Elems(t) /\ Once(t) /\ Disjoint(Elems(h), Elems(t))
    BY <2>1, <2>2
  <2> QED
    BY <2>3 DEF h, t
<1> QED
  BY <1>2, OneOnce DEF Disjoint

\* A step that moves nothing
LEMMA SamePlaces ==
  ASSUME PlacesInv, UNCHANGED <<mCacheLogQueue, mCacheSendQueue, mSendLogAction, mSendLogStatusCode,
                                model, gone, accepted>>
  PROVE  PlacesInv'
BY DEF PlacesInv, Hand, Upload, IsSending

\* What a caller adds was not there yet: it is the last of its calls.
LEMMA AddPlaces ==
  ASSUME CoreInv, OrderInv, PlacesInv, NEW p \in Producers, Add(p)
  PROVE  PlacesInv'
<1>1. /\ UNCHANGED <<mCacheSendQueue, mSendLogAction, mSendLogStatusCode, model, gone>>
      /\ mCacheLogQueue' = Append(mCacheLogQueue, call[p]) /\ accepted' = accepted \cup {call[p]}
  BY DEF Add, sendVars
<1>2. call[p] \in LoganModel /\ call[p].by = p /\ call[p].n = issued[p] /\ call[p] # NoModel
      /\ issued[p] \in Nat
  BY QueueAssumption DEF Add, CoreInv, HandInv, TypeOK
<1>3. \A m \in accepted : NoLaterThanCall(m)
  <2>1. \A m \in Elems(gone) \cup Elems(mCacheLogQueue) \cup Elems(mCacheSendQueue) : NoLaterThanCall(m)
    BY DEF OrderInv, Elems
  <2>2. \A m \in Hand \cup Upload : NoLaterThanCall(m)
    BY DEF OrderInv, Hand, Upload, CoreInv, UploadInv
  <2> QED
    BY <2>1, <2>2 DEF PlacesInv
<1>4. call[p] \notin accepted
  BY <1>2, <1>3 DEF NoLaterThanCall
<1>5. Elems(mCacheLogQueue') = Elems(mCacheLogQueue) \cup {call[p]} /\ Once(mCacheLogQueue')
  <2>1. call[p] \notin Elems(mCacheLogQueue) /\ Once(mCacheLogQueue)
    BY <1>4 DEF PlacesInv
  <2> QED
    BY <1>1, <1>2, <2>1, AppendOnce DEF CoreInv, TypeOK
<1>6. Hand' = Hand /\ Upload' = Upload
  BY <1>1 DEF Hand, Upload, IsSending
<1> QED
  BY <1>1, <1>4, <1>5, <1>6 DEF PlacesInv, Disjoint

LEMMA PollPlaces ==
  ASSUME CoreInv, PlacesInv, Poll
  PROVE  PlacesInv'
<1>1. UNCHANGED <<mCacheSendQueue, mSendLogAction, mSendLogStatusCode, gone, accepted>>
  BY DEF Poll, sendVars
<1>2. CASE mCacheLogQueue = <<>>
  BY <1>1, <1>2, SamePlaces DEF Poll
<1>3. CASE mCacheLogQueue # <<>>
  <2>1. model' = Head(mCacheLogQueue) /\ mCacheLogQueue' = Tail(mCacheLogQueue)
    BY <1>3 DEF Poll
  <2>2. model = NoModel /\ model' \in LoganModel
    BY <1>3, <2>1, HeadTailProperties DEF CoreInv, HandInv, Poll, TypeOK
  <2>3. Hand = {} /\ Hand' = {model'} /\ Upload' = Upload
    BY <1>1, <2>2, NoModelAssumption DEF Hand, Upload, IsSending
  <2>4. /\ Elems(mCacheLogQueue) = {model'} \cup Elems(mCacheLogQueue')
        /\ model' \notin Elems(mCacheLogQueue') /\ Once(mCacheLogQueue')
    BY <1>3, <2>1, TailOnce DEF PlacesInv, CoreInv, TypeOK
  <2> QED
    BY <1>1, <2>3, <2>4 DEF PlacesInv, Disjoint
<1> QED
  BY <1>2, <1>3

LEMMA DispatchPlaces ==
  ASSUME CoreInv, PlacesInv, Handle \/ Park \/ StartSend \/ SkipSend
  PROVE  PlacesInv'
<1>1. /\ model \in LoganModel /\ model # NoModel /\ model' = NoModel
      /\ UNCHANGED <<mCacheLogQueue, accepted>>
  BY DEF Handle, Park, StartSend, SkipSend, CoreInv, HandInv, TypeOK, Dispatched
<1>2. Hand = {model} /\ Hand' = {}
  BY <1>1 DEF Hand
<1>3. model \notin Elems(gone) /\ model \notin Elems(mCacheSendQueue)
  BY <1>2 DEF PlacesInv, Disjoint
<1>4. CASE Handle \/ SkipSend
  <2>1. gone' = Append(gone, model)
        /\ UNCHANGED <<mCacheSendQueue, mSendLogAction, mSendLogStatusCode>>
    BY <1>4 DEF Handle, SkipSend, sendVars
  <2>2. Elems(gone') = Elems(gone) \cup {model} /\ Once(gone')
    BY <1>1, <1>3, <2>1, AppendOnce DEF PlacesInv, CoreInv, TypeOK
  <2>3. Upload' = Upload
    BY <2>1 DEF Upload, IsSending
  <2> QED
    BY <1>1, <1>2, <2>1, <2>2, <2>3 DEF PlacesInv, Disjoint
<1>5. CASE Park
  <2>1. mCacheSendQueue' = Append(mCacheSendQueue, model)
        /\ UNCHANGED <<gone, mSendLogAction, mSendLogStatusCode>>
    BY <1>5 DEF Park
  <2>2. Elems(mCacheSendQueue') = Elems(mCacheSendQueue) \cup {model} /\ Once(mCacheSendQueue')
    BY <1>1, <1>3, <2>1, AppendOnce DEF PlacesInv, CoreInv, TypeOK
  <2>3. Upload' = Upload
    BY <2>1 DEF Upload, IsSending
  <2> QED
    BY <1>1, <1>2, <2>1, <2>2, <2>3 DEF PlacesInv, Disjoint
<1>6. CASE StartSend
  <2>1. UNCHANGED <<gone, mCacheSendQueue>> /\ Upload = {} /\ Upload' = {model}
    BY <1>6 DEF StartSend, Upload, IsSending
  <2> QED
    BY <1>1, <1>2, <2>1 DEF PlacesInv, Disjoint
<1> QED
  BY <1>4, <1>5, <1>6

LEMMA CallbackPlaces ==
  ASSUME CoreInv, PlacesInv, Callback
  PROVE  PlacesInv'
<1>1. /\ mCacheLogQueue' = mCacheLogQueue \o mCacheSendQueue /\ mCacheSendQueue' = <<>>
      /\ gone' = Append(gone, running)
      /\ UNCHANGED <<mSendLogAction, model, accepted>>
  BY DEF Callback, Requeued
<1>2. running \in LoganModel /\ running = mSendLogAction /\ IsSending
  BY DEF Callback, CoreInv, HandInv, UploadInv, TypeOK
<1>3. Hand' = Hand /\ Upload = {running} /\ Upload' = {}
  BY <1>1, <1>2 DEF Hand, Upload, IsSending, Callback
<1>4. Elems(gone') = Elems(gone) \cup {running} /\ Once(gone')
  <2>1. running \notin Elems(gone) /\ Once(gone)
    BY <1>3 DEF PlacesInv, Disjoint
  <2> QED
    BY <1>1, <1>2, <2>1, AppendOnce DEF CoreInv, TypeOK
<1>5. /\ Elems(mCacheLogQueue') = Elems(mCacheLogQueue) \cup Elems(mCacheSendQueue)
      /\ Once(mCacheLogQueue')
  BY <1>1, ConcatOnce DEF PlacesInv, CoreInv, TypeOK
<1>6. Elems(mCacheSendQueue') = {} /\ Once(mCacheSendQueue')
  BY <1>1, NoneOnce
<1> QED
  BY <1>1, <1>3, <1>4, <1>5, <1>6 DEF PlacesInv, Disjoint

LEMMA PlacesInvariant == Spec => []PlacesInv
<1>1. ASSUME CoreInv, OrderInv, PlacesInv, [Next]_vars
      PROVE  PlacesInv'
  <2>1. CASE \/ \E p \in Producers : TestWorking(p) \/ NotifySync(p) \/ \E a \in Actions : Enter(p, a)
             \/ Lock \/ Wait \/ WakeUp \/ SpuriousWakeUp
             \/ RunJob \/ ExecTestWorking \/ ExecNotifySync \/ UNCHANGED vars
    <3>1. UNCHANGED <<mCacheLogQueue, mCacheSendQueue, mSendLogAction, mSendLogStatusCode,
                      model, gone, accepted>>
      BY <2>1 DEF TestWorking, NotifySync, Enter, Lock, Wait, WakeUp, SpuriousWakeUp, RunJob,
                  ExecTestWorking, ExecNotifySync, vars, sendVars, producerVars, execVars
    <3> QED
      BY <1>1, <3>1, SamePlaces
  <2> QED
    BY <1>1, <2>1, AddPlaces, PollPlaces, DispatchPlaces, CallbackPlaces
    DEF Next, Steps, Producer, InCall, LoganThread, Executor
<1>2. Init => PlacesInv
  <2> SUFFICES ASSUME Init PROVE PlacesInv
    OBVIOUS
  <2>1. /\ gone = <<>> /\ mCacheLogQueue = <<>> /\ mCacheSendQueue = <<>>
        /\ Hand = {} /\ Upload = {} /\ accepted = {}
    BY DEF Init, Hand, Upload, IsSending
  <2> QED
    BY <2>1, NoneOnce DEF PlacesInv, Disjoint
<1> QED
  BY <1>1, <1>2, CoreInvariant, OrderInvariant, PTL DEF Spec

\* No accepted model is lost or repeated, for any number of callers and calls: neither
\* by the shared runnable, nor by the park and the re-queue of SENDs, nor by the polls
\* of LoganThread (LoganThread 128-134, 166-172, 441-448).
THEOREM NothingLostOrRepeated == Spec => []Conservation
<1>1. CoreInv /\ PlacesInv => Conservation
  <2> SUFFICES ASSUME CoreInv, PlacesInv PROVE Conservation
    OBVIOUS
  <2> DEFINE S == LoganModel
  <2>1. InHand \in Seq(S) /\ Elems(InHand) = Hand /\ Once(InHand)
    <3>1. CASE model = NoModel
      BY <3>1, NoneOnce DEF InHand, Hand
    <3>2. CASE model # NoModel
      <4>1. InHand = <<model>> /\ model \in S /\ Hand = {model}
        BY <3>2 DEF InHand, Hand, CoreInv, TypeOK
      <4> QED
        BY <4>1, OneOnce
    <3> QED
      BY <3>1, <3>2
  <2>2. InExec \in Seq(S) /\ Elems(InExec) = Upload /\ Once(InExec)
    <3>1. CASE IsSending
      <4>1. InExec = <<mSendLogAction>> /\ mSendLogAction \in S
        <5>1. CASE jobs = <<mSendLogAction>> /\ exec = "idle"
          BY <3>1, <5>1 DEF InExec, CoreInv, UploadInv, HandInv, TypeOK
        <5>2. CASE jobs = <<>> /\ running = mSendLogAction /\ exec = "sendLog"
          BY <3>1, <5>2 DEF InExec, CoreInv, UploadInv, HandInv, TypeOK
        <5> QED
          BY <3>1, <5>1, <5>2 DEF CoreInv, UploadInv
      <4> QED
        BY <3>1, <4>1, OneOnce DEF Upload
    <3>2. CASE ~IsSending
      <4>1. InExec = <<>>
        BY <3>2 DEF InExec, CoreInv, UploadInv, HandInv
      <4> QED
        BY <3>2, <4>1, NoneOnce DEF Upload
    <3> QED
      BY <3>1, <3>2
  <2>3. gone \in Seq(S) /\ mCacheLogQueue \in Seq(S) /\ mCacheSendQueue \in Seq(S)
    BY DEF CoreInv, TypeOK
  <2> HIDE DEF S
  <2> DEFINE a == gone \o InHand
             b == a \o mCacheLogQueue
             c == b \o mCacheSendQueue
             d == c \o InExec
  <2>4. a \in Seq(S) /\ Elems(a) = Elems(gone) \cup Hand /\ Once(a)
    BY <2>1, <2>3, JoinOnce DEF PlacesInv
  <2>5. b \in Seq(S) /\ Elems(b) = Elems(a) \cup Elems(mCacheLogQueue) /\ Once(b)
    <3>1. Disjoint(Elems(a), Elems(mCacheLogQueue)) /\ Once(mCacheLogQueue)
      BY <2>4 DEF PlacesInv, Disjoint
    <3> HIDE DEF a
    <3> QED
      BY <2>3, <2>4, <3>1, JoinOnce
  <2>6. c \in Seq(S) /\ Elems(c) = Elems(b) \cup Elems(mCacheSendQueue) /\ Once(c)
    <3>1. Disjoint(Elems(b), Elems(mCacheSendQueue)) /\ Once(mCacheSendQueue)
      BY <2>4, <2>5 DEF PlacesInv, Disjoint
    <3> HIDE DEF b
    <3> QED
      BY <2>3, <2>5, <3>1, JoinOnce
  <2>7. Elems(d) = Elems(c) \cup Upload /\ Once(d)
    <3>1. Disjoint(Elems(c), Upload)
      BY <2>4, <2>5, <2>6 DEF PlacesInv, Disjoint
    <3> DEFINE e == InExec
    <3>2. e \in Seq(S) /\ Elems(e) = Upload /\ Once(e) /\ Disjoint(Elems(c), Elems(e))
      BY <2>2, <3>1
    <3>3. c \in Seq(S) /\ Once(c)
      BY <2>6
    <3> HIDE DEF c, e
    <3>4. Once(e) /\ e \in Seq(S) /\ Disjoint(Elems(c), Elems(e))
      BY <3>2
    <3>5. Elems(c \o e) = Elems(c) \cup Elems(e) /\ Once(c \o e)
      BY <3>3, <3>4, JoinOnce
    <3> QED
      BY <3>2, <3>5 DEF e
  <2>8. Everywhere = d
    BY DEF Everywhere
  <2> HIDE DEF a, b, c, d
  <2>9. Elems(Everywhere) = accepted
    BY <2>4, <2>5, <2>6, <2>7, <2>8 DEF PlacesInv
  <2> QED
    BY <2>7, <2>8, <2>9 DEF Once, Conservation
<1> QED
  BY <1>1, CoreInvariant, PlacesInvariant, PTL

-------------------------------------------------------------------------------
(* The unlocked size test *)

LEMMA WritesFinite ==
  ASSUME NEW s \in Seq(LoganModel)
  PROVE  /\ IsFiniteSet(Writes(s)) /\ Cardinality(Writes(s)) \in Nat
         /\ Cardinality(Writes(s)) <= Len(s)
<1>1. Len(s) \in Nat /\ Writes(s) \subseteq 1..Len(s)
  BY LenProperties DEF Writes
<1> DEFINE n == Len(s)
<1>2. n \in Nat /\ Writes(s) \subseteq 1..n
  BY <1>1
<1> HIDE DEF n
<1>3. IsFiniteSet(1..n)
  BY <1>2, FS_Interval
<1>4. Cardinality(1..n) = IF 1 > n THEN 0 ELSE n - 1 + 1
  BY <1>2, FS_Interval
<1>5. Cardinality(1..n) = n
  BY <1>2, <1>4
<1> QED
  BY <1>2, <1>3, <1>5, FS_Subset, FS_CardinalityType DEF n

\* A poll takes no WRITE into the queue.
LEMMA WritesOfTail ==
  ASSUME NEW s \in Seq(LoganModel), s # <<>>
  PROVE  Cardinality(Writes(Tail(s))) <= Cardinality(Writes(s))
<1>1. /\ Len(s) \in Nat \ {0} /\ DOMAIN s = 1..Len(s)
      /\ DOMAIN Tail(s) = 1..(Len(s) - 1)
      /\ \A i \in 1..(Len(s) - 1) : Tail(s)[i] = s[i + 1]
  BY HeadTailProperties, LenProperties, EmptySeq
<1> DEFINE W == Writes(Tail(s))
           V == Writes(s)
           f == [i \in W |-> i + 1]
<1>2. \A i \in W : i \in Nat /\ i + 1 \in V
  BY <1>1 DEF Writes
<1>3. IsFiniteSet(V)
  BY WritesFinite
<1> HIDE DEF W, V
<1>4. f \in Injection(W, V)
  BY <1>2 DEF Injection, IsInjective
<1> HIDE DEF f
<1>5. Cardinality(W) <= Cardinality(V)
  BY <1>3, <1>4, FS_Injection
<1> QED
  BY <1>5 DEF W, V

LEMMA WritesOfAppend ==
  ASSUME NEW s \in Seq(LoganModel), NEW m \in LoganModel
  PROVE  Cardinality(Writes(Append(s, m))) =
            IF m.action = "WRITE" THEN Cardinality(Writes(s)) + 1 ELSE Cardinality(Writes(s))
<1>1. /\ Len(s) \in Nat /\ DOMAIN s = 1..Len(s)
      /\ DOMAIN Append(s, m) = 1..(Len(s) + 1)
      /\ \A i \in 1..Len(s) : Append(s, m)[i] = s[i]
      /\ Append(s, m)[Len(s) + 1] = m
  BY AppendProperties, LenProperties
<1>2. \A i \in 1..(Len(s) + 1) : i \in 1..Len(s) \/ i = Len(s) + 1
  BY <1>1
<1>3. Len(s) + 1 \notin Writes(s)
  BY <1>1 DEF Writes
<1>4. IsFiniteSet(Writes(s))
  BY WritesFinite
<1>5. CASE m.action = "WRITE"
  <2>1. Writes(Append(s, m)) = Writes(s) \cup {Len(s) + 1}
    BY <1>1, <1>2, <1>5 DEF Writes
  <2> QED
    BY <1>3, <1>4, <1>5, <2>1, FS_AddElement
<1>6. CASE m.action # "WRITE"
  <2>1. Writes(Append(s, m)) = Writes(s)
    BY <1>1, <1>2, <1>6 DEF Writes
  <2> QED
    BY <1>6, <2>1
<1> QED
  BY <1>5, <1>6

\* The numbers of the bound
LEMMA Adders ==
  ASSUME CoreInv, IsFiniteSet(Producers)
  PROVE  /\ IsFiniteSet(AddingWrite) /\ Cardinality(AddingWrite) \in Nat
         /\ Cardinality(AddingWrite) <= Cardinality(Producers)
         /\ Cardinality(Producers) \in Nat /\ mMaxQueue \in Nat \ {0}
<1>1. AddingWrite \subseteq Producers
  BY DEF AddingWrite
<1> QED
  BY <1>1, QueueAssumption, FS_Subset, FS_CardinalityType

LEMMA EnterOvershoot ==
  ASSUME CoreInv, CoreInv', IsFiniteSet(Producers), WriteOvershoot,
         NEW p \in Producers, NEW a \in Actions, Enter(p, a)
  PROVE  WriteOvershoot'
<1>1. mCacheLogQueue' = mCacheLogQueue /\ mCacheLogQueue \in Seq(LoganModel)
  BY DEF Enter, CoreInv, TypeOK
<1>2. CASE a = "WRITE" /\ RoomForWrite
  <2>1. Cardinality(Writes(mCacheLogQueue)) <= Len(mCacheLogQueue) /\ Len(mCacheLogQueue) < mMaxQueue
    BY <1>1, <1>2, WritesFinite DEF RoomForWrite
  <2>2. /\ Cardinality(AddingWrite') \in Nat /\ Cardinality(AddingWrite') <= Cardinality(Producers)
        /\ Cardinality(Producers) \in Nat /\ mMaxQueue \in Nat
    <3>1. AddingWrite' \subseteq Producers
      BY DEF AddingWrite
    <3> QED
      BY <3>1, QueueAssumption, FS_Subset, FS_CardinalityType
  <2>3. Cardinality(Writes(mCacheLogQueue)) \in Nat /\ Len(mCacheLogQueue) \in Nat
    BY <1>1, WritesFinite, LenProperties
  <2>4. Cardinality(Writes(mCacheLogQueue')) = Cardinality(Writes(mCacheLogQueue))
    BY <1>1
  <2> QED
    BY <2>1, <2>2, <2>3, <2>4 DEF WriteOvershoot
<1>3. CASE ~(a = "WRITE" /\ RoomForWrite)
  <2>1. AddingWrite' = AddingWrite
    <3>1. CASE a = "WRITE"
      BY <1>3, <3>1 DEF Enter, AddingWrite
    <3>2. CASE a # "WRITE"
      <4>1. /\ caller[p] = "idle" /\ caller' = [caller EXCEPT ![p] = "add"]
            /\ call' = [call EXCEPT ![p] = [by |-> p, n |-> issued[p] + 1, action |-> a]]
        BY <3>2 DEF Enter
      <4>2. call'[p].action = a /\ \A q \in Producers : q # p => call'[q] = call[q] /\ caller'[q] = caller[q]
        BY <4>1 DEF CoreInv, TypeOK
      <4> QED
        BY <3>2, <4>1, <4>2 DEF AddingWrite
    <3> QED
      BY <3>1, <3>2
  <2> QED
    BY <1>1, <2>1 DEF WriteOvershoot, Writes
<1> QED
  BY <1>2, <1>3

LEMMA AddOvershoot ==
  ASSUME CoreInv, IsFiniteSet(Producers), WriteOvershoot, NEW p \in Producers, Add(p)
  PROVE  WriteOvershoot'
<1>1. /\ mCacheLogQueue' = Append(mCacheLogQueue, call[p]) /\ mCacheLogQueue \in Seq(LoganModel)
      /\ call[p] \in LoganModel /\ caller[p] = "add" /\ caller' = [caller EXCEPT ![p] = "notify"]
      /\ call' = [call EXCEPT ![p] = NoModel]
  BY DEF Add, CoreInv, HandInv, TypeOK
<1>2. AddingWrite' = AddingWrite \ {p} /\ (p \in AddingWrite <=> call[p].action = "WRITE")
  BY <1>1 DEF AddingWrite, CoreInv, TypeOK
<1>3. Cardinality(AddingWrite') =
         IF call[p].action = "WRITE" THEN Cardinality(AddingWrite) - 1 ELSE Cardinality(AddingWrite)
  BY <1>2, Adders, FS_RemoveElement
<1>4. Cardinality(Writes(mCacheLogQueue')) =
         IF call[p].action = "WRITE" THEN Cardinality(Writes(mCacheLogQueue)) + 1
                                     ELSE Cardinality(Writes(mCacheLogQueue))
  BY <1>1, WritesOfAppend
<1>5. Cardinality(Writes(mCacheLogQueue)) \in Nat
  BY <1>1, WritesFinite
<1> QED
  BY <1>3, <1>4, <1>5, Adders DEF WriteOvershoot

LEMMA RestOvershoot ==
  ASSUME CoreInv, IsFiniteSet(Producers), WriteOvershoot, UNCHANGED call,
         \A p \in Producers : caller'[p] = "add" => caller[p] = "add",
         \A p \in Producers : caller[p] = "add" => caller'[p] = "add",
         Cardinality(Writes(mCacheLogQueue')) <= Cardinality(Writes(mCacheLogQueue)),
         mCacheLogQueue' \in Seq(LoganModel)
  PROVE  WriteOvershoot'
<1>1. AddingWrite' = AddingWrite
  BY DEF AddingWrite
<1>2. /\ Cardinality(Writes(mCacheLogQueue)) \in Nat
      /\ Cardinality(Writes(mCacheLogQueue')) \in Nat
  BY WritesFinite DEF CoreInv, TypeOK
<1> QED
  BY <1>1, <1>2, Adders DEF WriteOvershoot

\* However the callers' unlocked tests and adds interleave, the WRITEs in the queue pass
\* the limit by less than the number of threads (LoganControlCenter 118-119).
THEOREM OvershootBounded == IsFiniteSet(Producers) /\ Spec => []WriteOvershoot
<1> SUFFICES ASSUME IsFiniteSet(Producers) PROVE Spec => []WriteOvershoot
  OBVIOUS
<1>1. Init => WriteOvershoot
  <2> SUFFICES ASSUME Init PROVE WriteOvershoot
    OBVIOUS
  <2>1. Writes(mCacheLogQueue) = {} /\ AddingWrite = {}
    BY DEF Init, Writes, AddingWrite
  <2> QED
    BY <2>1, FS_EmptySet, QueueAssumption, FS_CardinalityType DEF WriteOvershoot
<1>2. ASSUME CoreInv, CoreInv', WriteOvershoot, [Next]_vars
      PROVE  WriteOvershoot'
  <2>1. mCacheLogQueue \in Seq(LoganModel) /\ mCacheLogQueue' \in Seq(LoganModel)
    BY <1>2 DEF CoreInv, TypeOK
  <2>2. Cardinality(Writes(mCacheLogQueue)) \in Nat
    BY <2>1, WritesFinite
  <2>3. CASE \/ \E p \in Producers : TestWorking(p) \/ NotifySync(p)
             \/ Lock \/ Wait \/ WakeUp \/ SpuriousWakeUp \/ Handle \/ Park \/ StartSend \/ SkipSend
             \/ RunJob \/ ExecTestWorking \/ ExecNotifySync \/ UNCHANGED vars
    <3>1. UNCHANGED <<mCacheLogQueue, call>>
      BY <2>3 DEF TestWorking, NotifySync, Lock, Wait, WakeUp, SpuriousWakeUp, Handle, Park,
                  StartSend, SkipSend, Dispatched, RunJob, ExecTestWorking, ExecNotifySync, vars,
                  sendVars, producerVars, execVars
    <3>2. \A p \in Producers : caller'[p] = "add" <=> caller[p] = "add"
      BY <1>2, <2>3 DEF TestWorking, NotifySync, Lock, Wait, WakeUp, SpuriousWakeUp, Handle, Park,
                  StartSend, SkipSend, Dispatched, RunJob, ExecTestWorking, ExecNotifySync, vars,
                  sendVars, producerVars, execVars, CoreInv, TypeOK
    <3>3. Cardinality(Writes(mCacheLogQueue')) <= Cardinality(Writes(mCacheLogQueue))
      BY <2>2, <3>1
    <3> QED
      BY <1>2, <2>1, <3>1, <3>2, <3>3, RestOvershoot
  <2>4. CASE Poll
    <3>1. UNCHANGED <<call, caller>>
      BY <2>4 DEF Poll, producerVars
    <3>2. Cardinality(Writes(mCacheLogQueue')) <= Cardinality(Writes(mCacheLogQueue))
      <4>1. mCacheLogQueue' = mCacheLogQueue \/ (mCacheLogQueue # <<>> /\ mCacheLogQueue' = Tail(mCacheLogQueue))
        BY <2>4 DEF Poll
      <4>2. CASE mCacheLogQueue' = mCacheLogQueue
        BY <2>2, <4>2
      <4>3. CASE mCacheLogQueue # <<>> /\ mCacheLogQueue' = Tail(mCacheLogQueue)
        BY <2>1, <4>3, WritesOfTail
      <4> QED
        BY <4>1, <4>2, <4>3
    <3> QED
      BY <1>2, <2>1, <3>1, <3>2, RestOvershoot
  <2>5. CASE Callback
    <3>1. UNCHANGED <<call, caller>> /\ mCacheLogQueue' = mCacheLogQueue \o mCacheSendQueue
      BY <2>5 DEF Callback, producerVars, Requeued
    <3>2. Writes(mCacheLogQueue \o mCacheSendQueue) = Writes(mCacheLogQueue)
      <4> DEFINE q == mCacheLogQueue
                 t == mCacheSendQueue
                 u == q \o t
      <4>1. /\ Len(q) \in Nat /\ DOMAIN q = 1..Len(q) /\ Len(t) \in Nat /\ DOMAIN t = 1..Len(t)
            /\ DOMAIN u = 1..(Len(q) + Len(t))
            /\ \A i \in 1..Len(q) : u[i] = q[i]
            /\ \A i \in DOMAIN u : i > Len(q) => u[i] = t[i - Len(q)] /\ i - Len(q) \in DOMAIN t
        <5>1. q \in Seq(LoganModel) /\ t \in Seq(LoganModel)
          BY <1>2 DEF CoreInv, TypeOK
        <5> HIDE DEF q, t
        <5> QED
          BY <5>1, ConcatProperties, LenProperties
      <4>2. \A i \in DOMAIN t : t[i].action # "WRITE"
        BY <1>2 DEF CoreInv, UploadInv
      <4> HIDE DEF q, t, u
      <4>3. \A i \in DOMAIN u : u[i].action = "WRITE" => i \in 1..Len(q)
        BY <4>1, <4>2
      <4>4. Writes(u) = Writes(q)
        BY <4>1, <4>3 DEF Writes
      <4> QED
        BY <4>4 DEF q, t, u
    <3>3. Cardinality(Writes(mCacheLogQueue')) <= Cardinality(Writes(mCacheLogQueue))
      BY <2>2, <3>1, <3>2
    <3> QED
      BY <1>2, <2>1, <3>1, <3>3, RestOvershoot
  <2> QED
    BY <1>2, <2>3, <2>4, <2>5, EnterOvershoot, AddOvershoot
    DEF Next, Steps, Producer, InCall, LoganThread, Executor
<1> QED
  BY <1>1, <1>2, CoreInvariant, PTL DEF Spec

-------------------------------------------------------------------------------
(* The threads, monitors and flags implement the line of LoganPipe. *)

\* What LoganPipe's variables stand for
Line      == InHand \o mCacheLogQueue
Uploading == IF InExec = <<>> THEN NoModel ELSE InExec[1]

\* The executor has at most one model: the one its runnable was submitted for.
LEMMA UploadingIs ==
  ASSUME CoreInv
  PROVE  /\ Uploading = IF IsSending THEN mSendLogAction ELSE NoModel
         /\ exec = "sendLog" => IsSending /\ running = mSendLogAction
         /\ IsSending => mSendLogAction \in LoganModel /\ mSendLogAction # NoModel
<1>1. CASE IsSending /\ jobs = <<mSendLogAction>> /\ exec = "idle"
  <2>1. InExec = <<mSendLogAction>>
    BY <1>1 DEF InExec, CoreInv, HandInv
  <2> QED
    BY <1>1, <2>1 DEF Uploading, CoreInv, UploadInv, TypeOK
<1>2. CASE IsSending /\ jobs = <<>> /\ running = mSendLogAction /\ exec = "sendLog"
  <2>1. InExec = <<mSendLogAction>>
    BY <1>2 DEF InExec, CoreInv, HandInv
  <2> QED
    BY <1>2, <2>1 DEF Uploading, CoreInv, UploadInv, TypeOK
<1>3. CASE ~IsSending
  <2>1. InExec = <<>>
    BY <1>3 DEF InExec, CoreInv, HandInv, UploadInv
  <2> QED
    BY <1>3, <2>1 DEF Uploading, CoreInv, UploadInv
<1> QED
  BY <1>1, <1>2, <1>3 DEF CoreInv, UploadInv

\* The model LoganThread has in hand is the first of the line.
LEMMA LineIs ==
  ASSUME CoreInv
  PROVE  /\ model = NoModel => Line = mCacheLogQueue
         /\ model # NoModel => /\ Line # <<>> /\ Head(Line) = model
                               /\ Tail(Line) = mCacheLogQueue
<1>1. mCacheLogQueue \in Seq(LoganModel) /\ model \in LoganModel \cup {NoModel}
  BY DEF CoreInv, TypeOK
<1>2. ASSUME model = NoModel PROVE Line = mCacheLogQueue
  BY <1>1, <1>2 DEF Line, InHand
<1>3. ASSUME model # NoModel
      PROVE  Line # <<>> /\ Head(Line) = model /\ Tail(Line) = mCacheLogQueue
  <2>1. Line = <<model>> \o mCacheLogQueue /\ model \in LoganModel
    BY <1>1, <1>3 DEF Line, InHand
  <2> QED
    BY <1>1, <2>1
<1> QED
  BY <1>2, <1>3

\* Most steps are invisible: the line, the parked SENDs, the upload and what is
\* gone stay the same.
LEMMA InvisibleStep ==
  ASSUME CoreInv, CoreInv',
         \/ \E p \in Producers : \/ \E a \in Actions : Enter(p, a)
                                 \/ TestWorking(p) \/ NotifySync(p)
         \/ Lock \/ Wait \/ WakeUp \/ SpuriousWakeUp \/ Poll
         \/ RunJob \/ ExecTestWorking \/ ExecNotifySync \/ UNCHANGED vars
  PROVE  UNCHANGED <<Line, mCacheSendQueue, Uploading, gone>>
<1>1. UNCHANGED <<mCacheSendQueue, mSendLogStatusCode, mSendLogAction, gone>>
  BY DEF Enter, TestWorking, NotifySync, Lock, Wait, WakeUp, SpuriousWakeUp, Poll, RunJob,
         ExecTestWorking, ExecNotifySync, vars, sendVars
<1>2. Uploading' = Uploading
  <2>1. /\ Uploading = IF IsSending THEN mSendLogAction ELSE NoModel
        /\ (Uploading = IF IsSending THEN mSendLogAction ELSE NoModel)'
    BY UploadingIs, PTL
  <2> QED
    BY <1>1, <2>1 DEF IsSending
<1>3. Line' = Line
  <2>1. CASE Poll
    <3>1. model = NoModel /\ mCacheLogQueue \in Seq(LoganModel)
      BY <2>1 DEF Poll, CoreInv, HandInv, TypeOK
    <3>2. CASE mCacheLogQueue = <<>>
      BY <2>1, <3>1, <3>2 DEF Poll, Line, InHand
    <3>3. CASE mCacheLogQueue # <<>>
      <4>1. model' = Head(mCacheLogQueue) /\ mCacheLogQueue' = Tail(mCacheLogQueue)
        BY <2>1, <3>3 DEF Poll
      <4>2. model' # NoModel
        BY <3>1, <3>3, <4>1, HeadTailProperties, NoModelAssumption
      <4>3. mCacheLogQueue = <<Head(mCacheLogQueue)>> \o Tail(mCacheLogQueue)
        BY <3>1, <3>3, HeadTailProperties
      <4> QED
        BY <3>1, <4>1, <4>2, <4>3 DEF Line, InHand
    <3> QED
      BY <3>2, <3>3
  <2>2. CASE ~Poll
    <3>1. UNCHANGED <<mCacheLogQueue, model>>
      BY <2>2 DEF Enter, TestWorking, NotifySync, Lock, Wait, WakeUp, SpuriousWakeUp, RunJob,
             ExecTestWorking, ExecNotifySync, vars
    <3> QED
      BY <3>1 DEF Line, InHand
  <2> QED
    BY <2>1, <2>2
<1> QED
  BY <1>1, <1>2, <1>3

\* A caller's add appends to the line.
LEMMA AcceptStep ==
  ASSUME CoreInv, CoreInv', NEW p \in Producers, Add(p)
  PROVE  \E m \in LoganModel : Pipe!Accept(m)
<1>1. /\ call[p] \in LoganModel /\ mCacheLogQueue \in Seq(LoganModel)
      /\ InHand \in Seq(LoganModel)
  BY DEF Add, CoreInv, HandInv, TypeOK, InHand
<1>2. /\ mCacheLogQueue' = Append(mCacheLogQueue, call[p]) /\ InHand' = InHand
      /\ UNCHANGED <<mCacheSendQueue, gone, jobs, running>>
  BY DEF Add, InHand, sendVars, execVars
<1>3. InHand \o Append(mCacheLogQueue, call[p]) = Append(InHand \o mCacheLogQueue, call[p])
  BY <1>1
<1>4. InExec' = InExec
  BY <1>2 DEF InExec
<1>5. Pipe!Accept(call[p])
  BY <1>2, <1>3, <1>4 DEF Pipe!Accept
<1> QED
  BY <1>1, <1>5

LEMMA ServeStep ==
  ASSUME CoreInv, CoreInv', Handle \/ Park \/ StartSend \/ SkipSend
  PROVE  Pipe!Serve \/ Pipe!StepAside \/ Pipe!StartUpload
<1>1. /\ model # NoModel /\ model' = NoModel /\ mCacheLogQueue' = mCacheLogQueue
      /\ running' = running
  BY DEF Handle, Park, StartSend, SkipSend, Dispatched, CoreInv, HandInv, execVars
<1>2. /\ Line # <<>> /\ Head(Line) = model /\ Line' = Tail(Line)
  <2>1. Line # <<>> /\ Head(Line) = model /\ Tail(Line) = mCacheLogQueue
    BY <1>1, LineIs
  <2>2. Line' = mCacheLogQueue'
    <3>1. mCacheLogQueue' \in Seq(LoganModel)
      BY DEF CoreInv, TypeOK
    <3> QED
      BY <1>1, <3>1 DEF Line, InHand
  <2> QED
    BY <1>1, <2>1, <2>2
<1>3. /\ Uploading = IF IsSending THEN mSendLogAction ELSE NoModel
      /\ IsSending => mSendLogAction # NoModel
  BY UploadingIs
<1>4. (Uploading = IF IsSending THEN mSendLogAction ELSE NoModel)'
  BY UploadingIs, PTL
<1>5. CASE Handle \/ SkipSend
  <2>1. /\ gone' = Append(gone, model)
        /\ UNCHANGED <<mCacheSendQueue, mSendLogStatusCode, mSendLogAction>>
        /\ model.action = "SEND" => ~IsSending
    BY <1>5 DEF Handle, SkipSend, sendVars
  <2>2. Uploading' = Uploading
    BY <1>3, <1>4, <2>1 DEF IsSending
  <2>3. Pipe!Serve
    BY <1>2, <1>3, <2>1, <2>2 DEF Pipe!Serve, Line, Uploading
  <2> QED
    BY <2>3
<1>6. CASE Park
  <2>1. /\ mCacheSendQueue' = Append(mCacheSendQueue, model) /\ model.action = "SEND"
        /\ UNCHANGED <<gone, mSendLogStatusCode, mSendLogAction>> /\ IsSending
    BY <1>6 DEF Park
  <2>2. Uploading' = Uploading /\ Uploading # NoModel
    BY <1>3, <1>4, <2>1 DEF IsSending
  <2>3. Pipe!StepAside
    BY <1>2, <2>1, <2>2 DEF Pipe!StepAside, Line, Uploading
  <2> QED
    BY <2>3
<1>7. CASE StartSend
  <2>1. /\ UNCHANGED <<mCacheSendQueue, gone>> /\ model.action = "SEND" /\ ~IsSending
        /\ mSendLogAction' = model /\ mSendLogStatusCode' = "SENDING"
    BY <1>7 DEF StartSend
  <2>2. Uploading = NoModel /\ Uploading' = model
    BY <1>3, <1>4, <2>1 DEF IsSending
  <2>3. Pipe!StartUpload
    BY <1>2, <2>1, <2>2 DEF Pipe!StartUpload, Line, Uploading
  <2> QED
    BY <2>3
<1> QED
  BY <1>5, <1>6, <1>7

LEMMA Regroup ==
  ASSUME NEW S, NEW s \in Seq(S), NEW t \in Seq(S), NEW u \in Seq(S)
  PROVE  s \o (t \o u) = (s \o t) \o u
<1>1. (s \o t) \o u = s \o (t \o u)
  BY ConcatAssociative, SMTT(20)
<1> QED
  BY <1>1, Zenon

LEMMA EndStep ==
  ASSUME CoreInv, CoreInv', Callback
  PROVE  Pipe!EndUpload
<1>1. /\ mCacheLogQueue' = mCacheLogQueue \o mCacheSendQueue /\ mCacheSendQueue' = <<>>
      /\ gone' = Append(gone, running) /\ model' = model /\ exec = "sendLog"
      /\ mSendLogStatusCode' = "FINISH"
  BY DEF Callback, Requeued
<1>2. /\ Uploading = running /\ Uploading # NoModel
  BY <1>1, UploadingIs
<1>3. Uploading' = NoModel
  <2>1. (Uploading = IF IsSending THEN mSendLogAction ELSE NoModel)'
    BY UploadingIs, PTL
  <2> QED
    BY <1>1, <2>1 DEF IsSending
<1>4. Line' = Line \o mCacheSendQueue
  <2>1. /\ mCacheLogQueue \in Seq(LoganModel) /\ mCacheSendQueue \in Seq(LoganModel)
        /\ InHand \in Seq(LoganModel) /\ InHand' = InHand
    BY <1>1 DEF CoreInv, TypeOK, InHand
  <2>2. InHand \o (mCacheLogQueue \o mCacheSendQueue) = (InHand \o mCacheLogQueue) \o mCacheSendQueue
    BY <2>1, Regroup
  <2> QED
    BY <1>1, <2>1, <2>2 DEF Line
<1> QED
  BY <1>1, <1>2, <1>3, <1>4 DEF Pipe!EndUpload, Line, Uploading

\* LoganQueue implements LoganPipe: callers, LoganThread and upload callback,
\* interleaved in any way, are one line that is served in order beside one upload
\* (LoganThread 121-181, 441-448).
THEOREM QueueIsPipe == Spec => ImplementsPipe
<1>1. Init => Pipe!PipeInit
  <2> SUFFICES ASSUME Init PROVE Pipe!PipeInit
    OBVIOUS
  <2>1. InHand = <<>> /\ InExec = <<>>
    BY DEF Init, InHand, InExec
  <2> QED
    BY <2>1 DEF Init, Pipe!PipeInit
<1>2. CoreInv /\ CoreInv' /\ [Next]_vars => [Pipe!PipeNext]_(Pipe!pipe)
  <2> SUFFICES ASSUME CoreInv, CoreInv', [Next]_vars PROVE Pipe!PipeNext \/ UNCHANGED Pipe!pipe
    OBVIOUS
  <2>1. CASE \E p \in Producers : Add(p)
    BY <2>1, AcceptStep DEF Pipe!PipeNext
  <2>2. CASE Handle \/ Park \/ StartSend \/ SkipSend
    BY <2>2, ServeStep DEF Pipe!PipeNext
  <2>3. CASE Callback
    BY <2>3, EndStep DEF Pipe!PipeNext
  <2>4. CASE \/ \E p \in Producers : \/ \E a \in Actions : Enter(p, a)
                                     \/ TestWorking(p) \/ NotifySync(p)
             \/ Lock \/ Wait \/ WakeUp \/ SpuriousWakeUp \/ Poll
             \/ RunJob \/ ExecTestWorking \/ ExecNotifySync \/ UNCHANGED vars
    <3>1. UNCHANGED <<Line, mCacheSendQueue, Uploading, gone>>
      BY <2>4, InvisibleStep
    <3> QED
      BY <3>1 DEF Pipe!pipe, Line, Uploading
  <2> QED
    BY <2>1, <2>2, <2>3, <2>4 DEF Next, Steps, Producer, InCall, LoganThread, Executor
<1> QED
  BY <1>1, <1>2, CoreInvariant, PTL DEF Spec, ImplementsPipe, Pipe!PipeSpec
===============================================================================
