------------------------------ MODULE UploadFlow ------------------------------
(***************************************************************************)
(* The upload of log files: the tasks that choose files and hand them over *)
(* as SENDs, the attempts that post them (RealSendRunnable, on the         *)
(* executor's thread and on the threads of the retry timers), the table    *)
(* logan_up that outlives the process (LoganUFileDao), and CACHE_SET, the  *)
(* files whose upload the missing network stopped.                         *)
(*                                                                         *)
(* An access to the table is a step of its own, and so is every single row *)
(* of refreshIllegalStatus; insertNew, whose rows nobody else inserts, is  *)
(* one step.  Between LoganThread and the executor lies LoganPipe: here    *)
(* the SENDs that wait are a bag, as parking re-orders them.               *)
(***************************************************************************)
EXTENDS Naturals, FiniteSets

CONSTANTS
    Files,        \* log files in the depots
    NoFile,       \* no file
    NoRow,        \* the table has no row for the file
    Timers,       \* bound: retry timers that can be pending at once
    RETRY_TIME,   \* retries of one SEND in memory (3 in the code)
    RetryLimit,   \* the `retry<=3' of the SQL statements
    Answers,      \* what a server may do: "ok", "fail", "empty"
    SharedClose,  \* TRUE: a concurrent closeDb() may make an access fail
    Budget        \* bound: how often each event of the environment happens

Exec == "exec"
Workers == Timers \cup {Exec}
Events == {"feedback", "force", "evict", "crash", "outage"}

ASSUME FlowAssumption ==
    /\ NoFile \notin Files
    /\ Exec \notin Timers
    /\ RETRY_TIME \in Nat /\ RetryLimit \in Nat
    /\ Answers \subseteq {"ok", "fail", "empty"}
    /\ SharedClose \in BOOLEAN
    /\ Budget \in [Events -> Nat]

INITIAL  == 0   \* STATUS_UPLOAD_INITIAL
COMPLETE == 1   \* STATUS_UPLOAD_COMPLETE
DOING    == 2   \* STATUS_UPLOAD_DOING

Row == [status : {INITIAL, COMPLETE, DOING}, retry : Nat]

ASSUME RowAssumption == NoRow \notin Row /\ NoRow \notin {INITIAL, COMPLETE, DOING}

VARIABLES
    rows,       \* rows[f]: the row of logan_up for f
    exists,     \* the files that are there
    waiting,    \* waiting[f]: SENDs of f on their way to the executor
    att,        \* att[w]: the call of sendLog that thread w is in
    task,       \* the task LoganThread executes
    cacheSet,   \* CACHE_SET
    lostNet,    \* the call of Logz.retryLostNet
    network,    \* checkNetworkAvailable()
    refreshed,  \* StartRetryUTask has run in this process
    left,       \* bound: events of the environment that may still happen
    delivered,  \* history: files a server has acknowledged
    sends,      \* history: sends[f], SENDs of f that reached the executor
    posts,      \* history: posts[f], HTTP posts of f begun
    exhausted,  \* history: exhausted[f], SENDs of f with no retry left
    refused     \* history: files stopped by the network and not yet sent again

history == <<delivered, sends, posts, exhausted, refused>>
vars == <<rows, exists, waiting, att, task, cacheSet, lostNet, network,
          refreshed, left, history>>

AttemptPC == {"idle", "timer", "sendLog", "cache", "query", "mark", "open", "post",
              "complete", "reset", "again", "readRetry", "writeRetry"}
Attempt == [pc : AttemptPC, file : Files \cup {NoFile}, retry : 0..RETRY_TIME, seen : Nat]
Idle == [pc |-> "idle", file |-> NoFile, retry |-> 0, seen |-> 0]

Task == [pc : {"idle", "syncDelete", "filter", "reset", "needRetry"},
         files : SUBSET Files, force : BOOLEAN]
NoTask == [pc |-> "idle", files |-> {}, force |-> FALSE]

NetCall == [pc : {"idle", "toArray", "clear", "startRetry"}, files : SUBSET Files]
NoNetCall == [pc |-> "idle", files |-> {}]

TypeOK ==
    /\ rows \in [Files -> Row \cup {NoRow}]
    /\ exists \in SUBSET Files
    /\ waiting \in [Files -> Nat]
    /\ att \in [Workers -> Attempt]
    /\ task \in Task
    /\ cacheSet \in SUBSET Files
    /\ lostNet \in NetCall
    /\ network \in BOOLEAN
    /\ refreshed \in BOOLEAN
    /\ left \in [Events -> Nat]
    /\ delivered \in SUBSET Files
    /\ sends \in [Files -> Nat]
    /\ posts \in [Files -> Nat]
    /\ exhausted \in [Files -> Nat]
    /\ refused \in SUBSET Files

-------------------------------------------------------------------------------
(* LoganUFileDao *)

HasRow(f) == rows[f] # NoRow
Status(f) == IF HasRow(f) THEN rows[f].status ELSE NoRow

\* Rows with the status or the retry count of f set; no row, no effect.
SetStatus(f, s) == IF HasRow(f) THEN [rows EXCEPT ![f].status = s] ELSE rows
SetRetry(f, n)  == IF HasRow(f) THEN [rows EXCEPT ![f].retry = n] ELSE rows

\* Everybody uses one SQLiteOpenHelper and closes it after each access: an
\* access that overlaps another thread's may throw, and the exception is
\* swallowed.
AtTable(w) == att[w].pc \in {"query", "mark", "complete", "reset", "readRetry", "writeRetry"}
TaskAtTable == task.pc # "idle"
NetAtTable == lostNet.pc = "startRetry"

Lost(w) ==
    /\ SharedClose
    /\ TaskAtTable \/ NetAtTable \/ \E v \in Workers \ {w} : AtTable(v)
TaskLost == SharedClose /\ (NetAtTable \/ \E v \in Workers : AtTable(v))
NetLost == SharedClose /\ (TaskAtTable \/ \E v \in Workers : AtTable(v))

\* The part of a set of rows that a sequence of statements reaches.
Reached(S, lost) == IF lost THEN SUBSET S ELSE {S}

\* queryUploadFilter
Filter(S, force) ==
    {f \in S : HasRow(f) /\ rows[f].retry <= RetryLimit /\ (force \/ rows[f].status = INITIAL)}

-------------------------------------------------------------------------------
(* sendLog and its callbacks, on thread w *)

At(w, pc) == att[w].pc = pc
Goto(w, pc) == att' = [att EXCEPT ![w].pc = pc]
End(w) == att' = [att EXCEPT ![w] = Idle]

\* A SEND reaches the executor, or is dropped because the file is gone.
ExecSend(f) ==
    /\ At(Exec, "idle")
    /\ task.pc = "idle"
    /\ waiting[f] > 0
    /\ waiting' = [waiting EXCEPT ![f] = @ - 1]
    /\ IF f \in exists
       THEN /\ att' = [att EXCEPT ![Exec] = [Idle EXCEPT !.pc = "sendLog", !.file = f]]
            /\ sends' = [sends EXCEPT ![f] = @ + 1]
            /\ refused' = refused \ {f}
       ELSE UNCHANGED <<att, sends, refused>>
    /\ UNCHANGED <<rows, exists, task, cacheSet, lostNet, network, refreshed, left,
                   delivered, posts, exhausted>>

\* The URL needs the MD5 of the file: no file, no URL, nothing to do.
SendLog(w) ==
    /\ At(w, "sendLog")
    /\ IF att[w].file \notin exists THEN End(w)
       ELSE Goto(w, IF network THEN "query" ELSE "cache")
    /\ UNCHANGED <<rows, exists, waiting, task, cacheSet, lostNet, network, refreshed,
                   left, history>>

AddToCache(w) ==
    /\ At(w, "cache")
    /\ cacheSet' = cacheSet \cup {att[w].file}
    /\ refused' = refused \cup {att[w].file}
    /\ End(w)
    /\ UNCHANGED <<rows, exists, waiting, task, lostNet, network, refreshed, left,
                   delivered, sends, posts, exhausted>>

\* queryUploadStatus: -1, for no row and for an exception, is not DOING.
Query(w) ==
    /\ At(w, "query")
    /\ \/ Status(att[w].file) # DOING /\ Goto(w, "mark")
       \/ Status(att[w].file) = DOING /\ End(w)
       \/ Lost(w) /\ Goto(w, "mark")
    /\ UNCHANGED <<rows, exists, waiting, task, cacheSet, lostNet, network, refreshed,
                   left, history>>

Update(w, new) == rows' = new \/ (Lost(w) /\ rows' = rows)

\* Mutant: the row is marked as uploaded before the upload.
MarkComplete(w) ==
    /\ At(w, "mark")
    /\ Update(w, SetStatus(att[w].file, COMPLETE))
    /\ Goto(w, "open")
    /\ UNCHANGED <<exists, waiting, task, cacheSet, lostNet, network, refreshed, left, history>>

Mark(w) ==
    /\ At(w, "mark")
    /\ Update(w, SetStatus(att[w].file, DOING))
    /\ Goto(w, "open")
    /\ UNCHANGED <<exists, waiting, task, cacheSet, lostNet, network, refreshed, left, history>>

\* doPostFileRequest opens the file; FileNotFoundException is a failure.
Open(w) ==
    /\ At(w, "open")
    /\ IF att[w].file \in exists
       THEN /\ Goto(w, "post")
            /\ posts' = [posts EXCEPT ![att[w].file] = @ + 1]
       ELSE Goto(w, "reset") /\ UNCHANGED posts
    /\ UNCHANGED <<rows, exists, waiting, task, cacheSet, lostNet, network, refreshed, left,
                   delivered, sends, exhausted, refused>>

\* The answer: rcode 0, a failure of any kind, or 200 with an empty body, which
\* calls neither onPostSuccess nor onPostFail.
Post(w, answer) ==
    /\ At(w, "post")
    /\ \/ answer = "ok" /\ Goto(w, "complete") /\ delivered' = delivered \cup {att[w].file}
       \/ answer = "fail" /\ Goto(w, "reset") /\ UNCHANGED delivered
       \/ answer = "empty" /\ End(w) /\ UNCHANGED delivered
    /\ UNCHANGED <<rows, exists, waiting, task, cacheSet, lostNet, network, refreshed, left,
                   sends, posts, exhausted, refused>>

\* onPostSuccess
Complete(w) ==
    /\ At(w, "complete")
    /\ Update(w, SetStatus(att[w].file, COMPLETE))
    /\ End(w)
    /\ UNCHANGED <<exists, waiting, task, cacheSet, lostNet, network, refreshed, left, history>>

\* onPostFail: the status; mutant: the row stays DOING.
ResetForgotten(w) ==
    /\ At(w, "reset")
    /\ Goto(w, "again")
    /\ UNCHANGED <<rows, exists, waiting, task, cacheSet, lostNet, network, refreshed, left,
                   history>>

Reset(w) ==
    /\ At(w, "reset")
    /\ Update(w, SetStatus(att[w].file, INITIAL))
    /\ Goto(w, "again")
    /\ UNCHANGED <<exists, waiting, task, cacheSet, lostNet, network, refreshed, left, history>>

\* The retry timer of a failed attempt: its thread's own slot, or a free one.
Slots(w) == IF w = Exec THEN {t \in Timers : At(t, "idle")} ELSE {w}

\* onPostFail; mutant: one retry too many.
AgainOnceMore(w) ==
    /\ At(w, "again")
    /\ \/ /\ att[w].retry <= RETRY_TIME
          /\ \E t \in Slots(w) :
                att' = [v \in Workers |->
                          IF v = t THEN [att[w] EXCEPT !.pc = "timer", !.retry = @ + 1]
                          ELSE IF v = w THEN Idle ELSE att[v]]
          /\ UNCHANGED exhausted
       \/ /\ att[w].retry > RETRY_TIME
          /\ Goto(w, "readRetry")
          /\ exhausted' = [exhausted EXCEPT ![att[w].file] = @ + 1]
    /\ UNCHANGED <<rows, exists, waiting, task, cacheSet, lostNet, network, refreshed, left,
                   delivered, sends, posts, refused>>

\* onPostFail: a timer for the next attempt, or the row's retry count.
Again(w) ==
    /\ At(w, "again")
    /\ \/ /\ att[w].retry < RETRY_TIME
          /\ \E t \in Slots(w) :
                att' = [v \in Workers |->
                          IF v = t THEN [att[w] EXCEPT !.pc = "timer", !.retry = @ + 1]
                          ELSE IF v = w THEN Idle ELSE att[v]]
          /\ UNCHANGED exhausted
       \/ /\ att[w].retry >= RETRY_TIME
          /\ Goto(w, "readRetry")
          /\ exhausted' = [exhausted EXCEPT ![att[w].file] = @ + 1]
    /\ UNCHANGED <<rows, exists, waiting, task, cacheSet, lostNet, network, refreshed, left,
                   delivered, sends, posts, refused>>

Fire(t) ==
    /\ At(t, "timer")
    /\ Goto(t, "sendLog")
    /\ UNCHANGED <<rows, exists, waiting, task, cacheSet, lostNet, network, refreshed, left,
                   history>>

\* updateRetry: queryRetryColumn, -1 for no row and for an exception ...
ReadRetry(w) ==
    /\ At(w, "readRetry")
    /\ \/ /\ HasRow(att[w].file)
          /\ att' = [att EXCEPT ![w].pc = "writeRetry", ![w].seen = rows[att[w].file].retry]
       \/ (~HasRow(att[w].file) \/ Lost(w)) /\ End(w)
    /\ UNCHANGED <<rows, exists, waiting, task, cacheSet, lostNet, network, refreshed, left,
                   history>>

\* ... then the update; mutant: the count of this SEND's attempts is added.
WriteAttempts(w) ==
    /\ At(w, "writeRetry")
    /\ Update(w, SetRetry(att[w].file, att[w].seen + 1 + att[w].retry))
    /\ End(w)
    /\ UNCHANGED <<exists, waiting, task, cacheSet, lostNet, network, refreshed, left, history>>

WriteRetry(w) ==
    /\ At(w, "writeRetry")
    /\ Update(w, SetRetry(att[w].file, att[w].seen + 1))
    /\ End(w)
    /\ UNCHANGED <<exists, waiting, task, cacheSet, lostNet, network, refreshed, left, history>>

-------------------------------------------------------------------------------
(* Tasks of LoganThread *)

Spend(e) == left[e] > 0 /\ left' = [left EXCEPT ![e] = @ - 1]

\* Logan.s(tag, S, runnable)
Send(S) == waiting' = [f \in Files |-> waiting[f] + (IF f \in S THEN 1 ELSE 0)]

\* FeedBackUTask, onReOpenFile: collect the files of the depots, insertNew
FeedBack(force) ==
    /\ task.pc = "idle"
    /\ exists # {}
    /\ Spend(IF force THEN "force" ELSE "feedback")
    /\ \E S \in Reached({f \in exists : ~HasRow(f)}, TaskLost) :
          rows' = [f \in Files |->
                     IF f \in S THEN [status |-> INITIAL, retry |-> 0] ELSE rows[f]]
    /\ task' = [pc |-> "filter", files |-> exists, force |-> force]
    /\ UNCHANGED <<exists, waiting, att, cacheSet, lostNet, network, refreshed, history>>

\* ... queryUploadFilter and Logan.s
FeedBackSend ==
    /\ task.pc = "filter"
    /\ \E S \in Reached(Filter(task.files, task.force), TaskLost) : Send(S)
    /\ task' = NoTask
    /\ UNCHANGED <<rows, exists, att, cacheSet, lostNet, network, refreshed, left, history>>

\* StartRetryUTask, once per process: refreshIllegalStatus selects ...
StartRetry ==
    /\ task.pc = "idle"
    /\ ~refreshed
    /\ \E S \in Reached({f \in Files : Status(f) = DOING}, TaskLost) :
          task' = [pc |-> "reset", files |-> S, force |-> FALSE]
    /\ UNCHANGED <<rows, exists, waiting, att, cacheSet, lostNet, network, refreshed, left,
                   history>>

\* ... and sets each of the selected rows back
RefreshRow(f) ==
    /\ task.pc = "reset"
    /\ f \in task.files
    /\ rows' = SetStatus(f, INITIAL) \/ (TaskLost /\ rows' = rows)
    /\ task' = [task EXCEPT !.files = @ \ {f}]
    /\ UNCHANGED <<exists, waiting, att, cacheSet, lostNet, network, refreshed, left, history>>

\* queryNeedRetry: rows over the limit go ...
DropExhausted ==
    /\ task.pc = "reset"
    /\ task.files = {}
    /\ \E S \in Reached({f \in Files : HasRow(f) /\ rows[f].retry > RetryLimit}, TaskLost) :
          rows' = [f \in Files |-> IF f \in S THEN NoRow ELSE rows[f]]
    /\ task' = [task EXCEPT !.pc = "needRetry"]
    /\ UNCHANGED <<exists, waiting, att, cacheSet, lostNet, network, refreshed, left, history>>

\* filterLizhiRetryItem: the files of S that are there are sent, the rows of
\* the others deleted.
StartRetryOf(S, lost) ==
    /\ Send(S \cap exists)
    /\ \E V \in Reached(S \ exists, lost) :
          rows' = [f \in Files |-> IF f \in V THEN NoRow ELSE rows[f]]

\* ... and the others that are not COMPLETE are sent again.
SendNeedRetry ==
    /\ task.pc = "needRetry"
    /\ \E S \in Reached({f \in Files : /\ HasRow(f) /\ rows[f].retry <= RetryLimit
                                       /\ rows[f].status # COMPLETE}, TaskLost) :
          StartRetryOf(S, TaskLost)
    /\ task' = NoTask
    /\ refreshed' = TRUE
    /\ UNCHANGED <<exists, att, cacheSet, lostNet, network, left, history>>

\* deleteDaySimpleLog: the file ...
DeleteFile(f) ==
    /\ task.pc = "idle"
    /\ f \in exists
    /\ Spend("evict")
    /\ exists' = exists \ {f}
    /\ task' = [pc |-> "syncDelete", files |-> {f}, force |-> FALSE]
    /\ UNCHANGED <<rows, waiting, att, cacheSet, lostNet, network, refreshed, history>>

\* ... and its row
SyncDelete ==
    /\ task.pc = "syncDelete"
    /\ \E S \in Reached(task.files, TaskLost) :
          rows' = [f \in Files |-> IF f \in S THEN NoRow ELSE rows[f]]
    /\ task' = NoTask
    /\ UNCHANGED <<exists, waiting, att, cacheSet, lostNet, network, refreshed, left, history>>

-------------------------------------------------------------------------------
(* The network, and Logz.retryLostNet when it is back *)

NetworkDown ==
    /\ network
    /\ Spend("outage")
    /\ network' = FALSE
    /\ UNCHANGED <<rows, exists, waiting, att, task, cacheSet, lostNet, refreshed, history>>

NetworkUp ==
    /\ ~network
    /\ lostNet.pc = "idle"
    /\ network' = TRUE
    /\ lostNet' = [pc |-> "toArray", files |-> {}]
    /\ UNCHANGED <<rows, exists, waiting, att, task, cacheSet, refreshed, left, history>>

CacheToArray ==
    /\ lostNet.pc = "toArray"
    /\ lostNet' = [pc |-> "clear", files |-> cacheSet]
    /\ UNCHANGED <<rows, exists, waiting, att, task, cacheSet, network, refreshed, left, history>>

CacheClear ==
    /\ lostNet.pc = "clear"
    /\ cacheSet' = {}
    /\ lostNet' = [lostNet EXCEPT !.pc = "startRetry"]
    /\ UNCHANGED <<rows, exists, waiting, att, task, network, refreshed, left, history>>

\* NetRetryUTask: startRetry on the caller's thread
NetRetry ==
    /\ lostNet.pc = "startRetry"
    /\ StartRetryOf(lostNet.files, NetLost)
    /\ lostNet' = NoNetCall
    /\ UNCHANGED <<exists, att, task, cacheSet, network, refreshed, left, history>>

-------------------------------------------------------------------------------
\* The process dies; files and table stay.
Crash ==
    /\ Spend("crash")
    /\ att' = [w \in Workers |-> Idle]
    /\ waiting' = [f \in Files |-> 0]
    /\ task' = NoTask
    /\ lostNet' = NoNetCall
    /\ cacheSet' = {}
    /\ refreshed' = FALSE
    /\ refused' = {}
    /\ UNCHANGED <<rows, exists, network, delivered, sends, posts, exhausted>>

Init ==
    /\ rows = [f \in Files |-> NoRow]
    /\ exists = Files
    /\ waiting = [f \in Files |-> 0]
    /\ att = [w \in Workers |-> Idle]
    /\ task = NoTask
    /\ cacheSet = {}
    /\ lostNet = NoNetCall
    /\ network = TRUE
    /\ refreshed = FALSE
    /\ left = Budget
    /\ delivered = {}
    /\ sends = [f \in Files |-> 0]
    /\ posts = [f \in Files |-> 0]
    /\ exhausted = [f \in Files |-> 0]
    /\ refused = {}

Worker(w) ==
    \/ SendLog(w) \/ AddToCache(w) \/ Query(w) \/ Mark(w) \/ Open(w)
    \/ \E a \in Answers : Post(w, a)
    \/ Complete(w) \/ Reset(w) \/ Again(w) \/ ReadRetry(w) \/ WriteRetry(w)

TaskStep == FeedBackSend \/ (\E f \in Files : RefreshRow(f)) \/ DropExhausted
                \/ SendNeedRetry \/ SyncDelete
NetStep  == CacheToArray \/ CacheClear \/ NetRetry

Next ==
    \/ \E f \in Files : ExecSend(f) \/ DeleteFile(f)
    \/ \E w \in Workers : Worker(w)
    \/ \E t \in Timers : Fire(t)
    \/ \E force \in BOOLEAN : FeedBack(force)
    \/ StartRetry \/ TaskStep \/ NetStep
    \/ NetworkDown \/ NetworkUp \/ Crash

Spec == Init /\ [][Next]_vars

\* Every thread runs, timers fire, LoganThread finishes its task, and a SEND
\* that finds executor and LoganThread free is dispatched.
Fairness ==
    /\ WF_vars(\E f \in Files : ExecSend(f))
    /\ \A w \in Workers : WF_vars(Worker(w))
    /\ \A t \in Timers : WF_vars(Fire(t))
    /\ WF_vars(TaskStep)

FairSpec == Spec /\ Fairness

-------------------------------------------------------------------------------
(* Properties *)

\* A row says COMPLETE only if a server has acknowledged the file
\* (RealSendRunnable 102, LoganUFileDao 208-223): concurrent attempts, retries,
\* lost accesses, evictions and crashes never make a file look uploaded.
NoFalseComplete == \A f \in Files : Status(f) = COMPLETE => f \in delivered

\* A SEND leads to at most RETRY_TIME + 1 posts (RealSendRunnable 118-129): a
\* chain of retries never forks, whatever else happens to the file.
ChainsDontFork == \A f \in Files : posts[f] <= (RETRY_TIME + 1) * sends[f]

\* The row's retry count never exceeds the SENDs whose retries were used up
\* (LoganUFileDao 232-250): two threads in updateRetry can lose a count, never
\* invent one, so a file is not given up early.
RetryNotOvercounted == \A f \in Files : HasRow(f) => rows[f].retry <= exhausted[f]

InFlight(f) ==
    \E w \in Workers : att[w].file = f /\ att[w].pc \in {"open", "post", "complete", "reset"}

\* A DOING row has an attempt that will take the flag back (RealSendRunnable 102,
\* 117) or StartRetryUTask has yet to run in this process (LoganUFileDao 252-255):
\* otherwise no uploader touches the file again (RealSendRunnable 69).
DoingIsHeld == refreshed => \A f \in Files : Status(f) = DOING => InFlight(f)

\* While the network stays up and servers answer, a SEND settles its file: it is
\* COMPLETE, or the row has counted the failure, or file or row is gone
\* (RealSendRunnable 66-147).  Only a crash forgets the SEND.
Settled(f) ==
    f \notin exists \/ Status(f) \in {NoRow, COMPLETE} \/ (HasRow(f) /\ rows[f].retry > 0)
Crashed == left["crash"] < Budget["crash"]
Settles == \A f \in Files : waiting[f] > 0 ~> (Settled(f) \/ Crashed)

\* RealSendRunnable:83: a file that is already being uploaded is not uploaded again.
OnePostEach ==
    \A v, w \in Workers : (At(v, "post") /\ At(w, "post") /\ att[v].file = att[w].file) => v = w

\* FeedBackUTask:125: what failed three times (RetryLimit) is not uploaded.
ThreeStrikes ==
    task.pc = "filter" =>
        \A f \in Filter(task.files, task.force) : exhausted[f] < RetryLimit

\* FeedBackUTask:125: without force, what was uploaded is not uploaded again
\* (once no attempt at it is under way).
UploadedNotResent ==
    (task.pc = "filter" /\ ~task.force) =>
        \A f \in Filter(task.files, FALSE) : f \in delivered => InFlight(f)

\* RealSendRunnable:33: a file stopped by the network is kept until the network
\* is back and it is uploaded anew.
RefusedIsKept ==
    \A f \in refused \cap exists : f \in cacheSet \cup lostNet.files \/ waiting[f] > 0

\* LoganUFileDao:226: updateRetry adds one; no row's retry count goes down.
RetryGrows ==
    [][\A f \in Files :
          (HasRow(f) /\ rows'[f] # NoRow) => rows'[f].retry >= rows[f].retry]_vars
===============================================================================
