# Lovest: a TLA+ verification project

Lovest is an Android library. Its own logic is in Java, with a native log
library in C behind it. The largest part is *logan* ("logz"): log lines from any
thread are queued, written by one thread to one file per day, cut into slices,
and uploaded on request with retries and a table that survives the process.
Around it are an executor over a looper thread, a queue of permission requests,
the registration of a push service and thin wrappers over HTTP and web views.

This directory holds TLA+ modules for the stateful parts, TLC configurations
that check them on small instances, and TLAPS proofs about the core.
`PROJECT.json` says which definition models which lines.

Paths below are relative to `src/Lovest/platform/src/main/java/com/digo/platform/`
unless they start with `src/`.

## 1. The system

| component | state it keeps | operations | talks to |
|---|---|---|---|
| **Hand-over** `logan/meituan/` (`LoganControlCenter`, `LoganThread`, `SendLogRunnable`) | `mCacheLogQueue`, `mIsWorking`, monitor `sync`; `mCacheSendQueue`, `mSendLogStatusCode`, the one runnable, monitor `sendSync` | `write send reOpen arrange flush`; the loop; the upload's callback | app threads -> LoganThread -> upload executor -> back into the queue |
| **Depot** (`LoganThread`, `LoganUtil`) | the file of the day, the directories of slices `<day>_<index>`, `mCurrentDay`, `mIsSDCard`, `mLastTime` | write with day change and slice test, re-open, flush, arrange, evict, clean up | clock, file system, native library |
| **Native core** `src/Lovest/platform/Clibrary/Clogan` | mapped buffer with header, open file, compression unit | `clogan_init open write flush`, recovery on start | files |
| **Uploads** `logan/mine/upload`, `mine/database`, `mine/Logz.java` | table `logan_up` (status, retry), `CACHE_SET`, retry timers | feedback, start retry, network retry; an attempt's query / mark / post / complete / reset / retry | depot, hand-over, HTTP, SQLite |
| **Executor** `executor/` | `handler`, `mementoList`, `Timer` | `execute schedule submit`, replay, cancel | any thread -> looper thread |
| **Trees and tags** `logan/mine/Logz.java`, `mine/tree`, `mine/base` | the forest and its published array, one tag per tree and thread | plant, uproot, configure, log | any thread -> hand-over |
| **Permissions** `permission/` | blocking queue of requests, one executor thread, the field `isRequesting`, a broadcast receiver; per request what it asks for and lacks, and the static set of what was ever asked for | build, start, execute, cancel; add, take, start the bridge activity, result, callback, check in the background | any thread -> executor thread -> activity -> main thread -> AsyncTask -> main thread |
| **Push** `src/Lovest/push` | the entry that is reported (type, token), the queue of spare channels, the switch, the cached entry | init, register, fail over, disable, unregister | app -> vendor libraries -> their threads |
| HTTP, web views, protocol bridge, permission pages, app shell | little or none | | not modelled, section 9 |

What makes each of them correct:

* *Hand-over*: no model is lost, doubled or re-ordered within its thread; one
  upload at a time; a parked SEND comes back; whoever waits is woken.
* *Depot*: a line the library took is somewhere until its slice is surplus or its
  day too old; a day keeps at most its number of slices, the newest; names are
  not used twice.
* *Native core*: a crash between two steps costs less than a cipher block; lines go to their own file,
  once; the buffer always has room for the next section.
* *Uploads*: COMPLETE means acknowledged; DOING means that somebody is at it;
  every SEND ends in a bounded number of posts.
* *Executor*: a task runs once, a cancelled one never, a kept one in the end.
* *Permissions*: one request is shown at a time, each is answered by its own
  activity, in order, and all are answered; "granted" means held, and who was allowed is not denied.
* *Trees and tags*: a one-shot tag is put out once, by a message of the thread that set it.
* *Push*: the chosen service is registered, or the next one is tried, finitely often; what is
  reported does not mix two services.

### What is hard in it

* *Interleaving without locks.* `mIsWorking` and `handler` are plain fields read
  outside the monitor that guards what they describe; `mCacheLogQueue.size()` is
  tested and then added to; `CACHE_SET` is copied and then cleared.
* *Two monitors in opposite orders*: `sync` then `sendSync` in LoganThread,
  `sendSync` then `sync` in the upload callback.
* *Accesses that should be one*: the table is read in one access and written in
  another, by the executor and by every retry timer's thread; each access closes
  the one open helper that all threads share, and exceptions are swallowed.
* *Crash*: a row that says DOING, a mapped buffer, a file that is being moved.
* *The clock* is asked anew in each line that needs the date.
* *Retries, timers and late answers*; answers that are neither success nor failure.
* *Answers without an address*: the broadcast that ends a permission page and the failure of a
  push service do not say which request they belong to.
* *Limits*: the queue, the slices per day, the retry counts.

`PROJECT.json` lists them under "hazards", at the line where each bites, with the
properties that would notice.

## 2. Modules

| module | models | is composed with |
|---|---|---|
| `LoganQueue` | the hand-over, with its threads, monitors and flags | refines `LoganPipe` |
| `LoganPipe` | what the hand-over promises: a line, the parked, one upload, the served | |
| `UploadFlow` | tasks, attempts, retries, the table, `CACHE_SET` | stands on the pipe's promise |
| `LogDepot` | files of the day, slices, clock, free space | stands on the store's promise |
| `CLogan` | the native library, with crashes between its steps and within them | refines `LoganStore` |
| `CLoganInv` | the inductive invariants of `CLogan` | |
| `LoganStore` | what the library promises LoganThread | |
| `BackgroundExecutor` | `executor/BackgroundThreadExecutor` | |
| `PermissionBridge` | `permission/bridge` | |
| `PermissionFlow` | `permission/runtime`, and the other requests, around the bridge | extends `PermissionBridge` with the flow of each request, and refines it |
| `PushFailover` | `src/Lovest/push`: manager, proxies, receivers | |
| `LogForest` | `Logz`, `SoulsTree`, `Tree` | stands before the hand-over, shares no state with it |
| `...Proofs` | theorems | extend the module they name |
| `MC...` | the constants and budgets of the runs | extend the module they name |

The stack is cut at two promises. `UploadFlow` does not repeat the monitors of the
hand-over: between the tasks of LoganThread and the executor it has a bag of waiting
SENDs and one executor, which is what `LoganPipe` says of `line`, `aside` and
`upload` (parking re-orders SENDs, so their order is not kept). `LogDepot` does not repeat
the native library: it has an open file and a buffer that is written as a whole, which is
what `LoganStore` says. `LoganQueueSend` and `CLoganSafe` check that the code
implements the two promises.

### 2.1 LoganQueue

`caller[p]`, `thread` and `exec` are program counters: of an app thread in
`LoganControlCenter.write/send/...`, of `LoganThread.run`, and of the executor's thread in
`SendLogRunnable.run` and the callback. A step ends before each access to a shared
field and before each monitor. `Enter` is the call up to `mCacheLogQueue.add` (with
write's test of the size), `Add` the add, `TestWorking` the read of `mIsWorking` outside `sync`,
`NotifySync` the block of `notifyRun`. `Lock`, `Poll`, `Handle`, `Park`, `StartSend`, `SkipSend`, `Wait`
and `WakeUp` are the loop; `SpuriousWakeUp` ends a wait without a notify, as Java allows. `RunJob`,
`Callback`, `ExecTestWorking` and `ExecNotifySync` are the executor's thread. `mSendLogAction` is the action in the one shared
`RealSendRunnable`, `jobs` what was given to `mSingleThreadExecutor`. With `StaleReads` a
read of `mIsWorking` outside the monitor may return either value, which is what the Java memory
model leaves to a data race; without it each read is current, so that a violation does not
depend on the race.

### 2.2 UploadFlow

`rows` is the table `logan_up`. `att[w]` is the call of `sendLog` that thread `w` is in; the
threads are the executor's and those of the retry timers. Every access to the table is a step: `Query`,
`Mark`, `Complete`, `Reset`, `ReadRetry`, `WriteRetry`; between `Open` and `Post` lies the
HTTP call. `SharedClose` says whether an access may fail because another thread closes the one
`SQLiteOpenHelper` under it (`DBHelper` 38); the exception is swallowed, so a failed
query counts as "no row" and a failed update does nothing. `task` is the task that
LoganThread executes (`FeedBackUTask`, `StartRetryUTask`, eviction), `lostNet` the
call of `Logz.retryLostNet`. `Crash` keeps `rows` and `exists` and forgets the rest.

### 2.3 LogDepot

`root[d]` is the file of day `d`, `depot` the slices, `op` the operation LoganThread is in.
LoganThread asks the clock anew in each line that needs the date, so `StartWrite`, `TestSlice`,
`Cut`, `Name`, `Move`, `Open` and `Append` are steps and midnight may fall between any two.
`Move` is `renameTo`, whose failure the code ignores. `mIsSDCard`, `idle` and `unchecked` stand for the
space check that is skipped while writes follow each other within a minute.

### 2.4 CLogan

`area` is the buffer, `mapName` and `mapTotal` are what the next process reads from its header.
A cell stands for a byte, except that the protocol header of a unit is one cell.
`Compress`, `Total`, `Length`, `Unit`, `Ended`, `Section` are `clogan_write` and
`write_mmap_data_clogan` in the order of their stores; `Flush`, `Dest`, `PutOut`, `Clear` and
`Cleared` are `clogan_flush` and what it calls; `clogan_init` and `Recovered` are the
recovery. The total and the length of a unit are three and four byte stores in the code (498-502, 508-514) and one
step each in the model, as nobody but the next process sees them half done. `Crash` may fall between any two steps and
`Tear` within one: it leaves what a crash in the middle of the step leaves, and nothing else. `TearTotal` and `TearLength`
leave the high bytes of one length and the low bytes of the other (`Mixed`), in `clear_clogan` too; `Byte` is the number
of values a byte has. `TearOpen` and `TearBlocks` are the stores that an old total still covers when a recovery
could not open its file: half a name, half a header, half a block. `TearWrite` leaves a part of the buffer in the file.

### 2.5 BackgroundExecutor

`looper` is the thread that sets `handler` and replays `mementoList`, `call[w]` a caller, or the
Timer's thread, in `execute`, `schedule` or `submit`. `handler` is a plain field: until a thread
is `synced` it may read null although it is set.

### 2.6 PermissionBridge

`epc` is the line of `RequestExecutor.run`, `mpc` that of the main thread in `onReceive` and
`onCallback`. `seen` is `isRequesting` as the executor's thread reads it: `Refresh` is the
moment in which it notices the main thread's write. `messenger` is the registered receiver,
`inFlight` the receivers a broadcast has been sent to. `Foreign` is a broadcast of another
application with the same library, `Destroyed` an activity that ends without a result.

### 2.7 PermissionFlow

`phase[r]` is how far a request is: built, in the app's explanation (`rationale`), in the bridge, waiting
for its check (`tasks`, `posted`), answered. `Build` is `Runtime.permission` with the filter of
`mHistoryRequest`; `StartHeld` and `StartRationale` are the two ways `start` may go, `Execute` and `Cancel` what the
app answers to the explanation (the default answers at once). `PageResult` is the bridge's
`Result` together with what the user allows; `CallbackRequest` is the bridge's `Callback` together with the
request's `onCallback`. Every action that is a step of the bridge calls the action of `PermissionBridge`, every
other leaves the bridge alone. Requests of `runtime` are checked by an AsyncTask, one after the other, and answered
on the main thread (`DoInBackground`, `OnPostExecute`); the others are checked in the callback. `Change` is
the user in the settings. `Told` may call both callbacks, as `callbackSucceed` does when `onGranted` throws.

### 2.8 PushFailover

`call[a]` is the method the app, or the thread of a service library, is in, and its next statement: the entry
`mUpdatePushToken` is written field by field, so `Clear`, `Name`, `SetToken`, `SetType`, `SaveType` and
`SaveToken` are steps. `sdk[c]` is what the library of channel `c` was asked for. `Poll` is `updateStatus`
after a failure up to the test of the switch in `initAssignPush`. A method that finds no entry ends in an
exception, which the library or `updateStatus` swallows. `Quiet` are the channels whose failure
calls nobody, `Reconnecting` those that ask again when a connection is lost, and `Registered[c]` the
type under which the receiver of channel `c` opens the entry. Of the five cached values type and
token are kept.

### 2.9 LogForest

`frames[th]` is the stack of logging calls of a thread: an object whose `toString` logs starts a call in a call.
A call reads the published array, goes through it with `SetTag`, reads it again (`Forward`) and goes
through it with `PrepareLog`; other threads plant and uproot in between. `localTags[t][th]` is the ThreadLocal of
tree `t`. `PrepareLog` goes as far as `generateTag`, which takes the tag; the message is out with `PrintLog`, and
`String.format` and `printStackTrace` may log in between. A tag is named by the call that brought it, so that a message shows whose tag it bears. `Forms` are the
messages that take another way through `prepareLog`: "empty" ends after the tag is taken, "lost"
reaches no tree, as `log(priority, ...)` does, which `SoulsTree` does not pass on.

## 3. Runs

| run | module | instance | shows |
|---|---|---|---|
| `LoganQueueSend` | `LoganQueue` | 2 callers, 2 calls each, WRITE and SEND, limit 2, stale reads | safety and `ImplementsPipe` |
| `LoganQueueWoken` | `LoganQueue` | 2 callers, 2 calls each, WRITE and FLUSH | `WokenDrains` under fairness |
| `LoganQueueLostWakeup` | `LoganQueue` | 1 caller, 1 FLUSH, current reads | violation of `FlushHandled` |
| `UploadSafe` | `UploadFlow` | 1 file, 2 timers, 1 retry, all answers, failing accesses, 2 feedbacks, eviction, crash, outage | `NoFalseComplete`, `ChainsDontFork`, `RetryNotOvercounted` |
| `UploadSettles` | `UploadFlow` | 1 file, 2 timers, definite answers, no failing access, a forced upload, eviction, crash | `DoingIsHeld` and, under fairness, `Settles` |
| `LogDepotSafe` | `LogDepot` | 3 days, 6 writes, slices of 1, 2 slices a day, buffer of 2, kept for 1 day, 2 midnights, crash, full card | `Durable`, `DepotInOrder`, `FileBounded` |
| `CLoganSafe` | `CLogan` | 2 files, 2 lines of up to 2 sections, block of 2, a crash between steps and one within, a deleted mapped file, a moved file | durability, room, finality, `ImplementsStore` |
| `CLoganCrashes` | `CLogan` | 2 files, 2 lines, block of 3, 2 crashes between steps and one within, a file that cannot be opened | `RightFile`, `CostOfCrashes` |
| `ExecutorSafe` | `BackgroundExecutor` | 2 callers, 1 task of each kind | once, never after cancel, kept tasks run |
| `PermissionFlow` | `PermissionFlow` | 3 requests for 2 permissions: a filtered one, one with `overOnce`, one that is no runtime request; 1 event: foreign broadcast, dead activity or changed permission | `OneAfterAnother`, `GrantedIsHeld`, `NoFalseDenial` and, under fairness, `StartedIsAnswered` |
| `PushFailover` | `PushFailover` | 3 channels (one quiet, one reconnecting), 3 arrays of spares, 3 calls or lost connections | `EntryMatches`, `NobodyGivesUp` and, under fairness, `FailoverEnds` |
| `LogForest` | `LogForest` | 2 trees of different levels, 2 threads, 3 calls, 2 changes, 3 plantings at a time | `OwnTagOnce`, `HeldTagIsNewest` |

Why the bounds are enough.

* *LoganQueue*: two callers are what a race between callers needs, and two calls each let
  one upload be parked behind another while a WRITE passes both. The limit of 2 is
  reached and passed. The theorems of section 5 do without the bounds.
* *UploadFlow*: rows of different files never meet in a statement that changes one, so one file with
  three threads (executor and two timers) has all interleavings of attempts at it.
  `RETRY_TIME` 1 has a first attempt, a retry and the exhausted chain; `RetryLimit` 1 puts a row
  over the limit with two exhausted SENDs, so that `queryNeedRetry` deletes it.
* *LogDepot*: slices of one line and two slices a day make every third write evict; six writes fill two
  days and evict in both. Three days and a life of one let a day expire.
* *CLogan*: blocks of two or three bytes make a section end within a block and at its end.
  `BufLen` is small enough for two lines to pass a third of it, `max_file_len` such that the second
  line may be refused. `Byte` is 4, so that lengths below 33 carry from the first byte to the second and from the
  second to the third. A crash within a step ends the promises that it breaks, and what holds through one is proved
  for any number, so one is enough. `CLoganSafe` takes two minutes, most of it for `Durable`.
* *BackgroundExecutor*: the three kinds differ in what is kept and who can cancel, so one of each.
  Two callers let one see `handler` and the other not.
* *PermissionFlow*: three requests let one be shown, one be checked and one wait. The order and the
  bounds on early answers are proved for any number of requests, broadcasts and deaths.
* *PushFailover*: three calls let an app initialise twice and disable or unregister between; a
  superseded channel then fails late. With two spares the second is taken by the wrong failure.
* *LogForest*: three calls let a tag stay behind, be found by a call within a call, and be told from the third. Two
  changes uproot a tree and plant it again. Threads are symmetric: nothing but `owner`
  tells them apart.

Deadlock checking is off everywhere: the budgets and the bounded numbers of calls let every
instance come to rest.

## 4. Fairness

* `LoganQueue!FairSpec`: weak fairness of each started step of callers, LoganThread and the executor. Nothing
  makes a caller call again, and a spurious wake-up is never required.
* `UploadFlow!FairSpec`: threads run, timers fire, a task goes on, a waiting SEND is
  dispatched when executor and LoganThread are free. Answers are not fair
  among each other: a server may fail for ever.
* `BackgroundExecutor!FairSpec`: threads run and delays end; nobody has to call or to cancel.
* `PermissionFlow!FairFlowSpec`: the executor's thread, the main thread and the AsyncTask's run, and the user
  answers the explanation and the page. That the executor's thread ever reads `isRequesting` anew is *not*
  assumed, as the loop at `RequestExecutor` 37 has no synchronisation: `StartedIsAnswered` names this
  as one of the two excuses.
* `PushFailover!FairSpec`: threads run and a library that was asked answers, with a success or a failure; a quiet one
  may fail unheard. The app has to do nothing.

Only weak fairness is used, which is what a scheduler that runs every ready thread gives.

## 5. What is proved

TLAPS checks every theorem for all values of the constants that satisfy the modules' assumptions.

| module | theorem | states |
|---|---|---|
| `LoganQueueProofs` | `TypeCorrect` | `TypeOK` |
| | `WaitingVisible` | `WaitingIsVisible` |
| | `UploadsOneByOne` | `OneUpload` |
| | `CallsInOrder` | `CallOrder` |
| | `NothingLostOrRepeated` | `Conservation` |
| | `OvershootBounded` | `WriteOvershoot`, for finitely many callers |
| | `QueueIsPipe` | `ImplementsPipe` |
| `UploadFlowProofs` | `TypeCorrect` | `TypeOK` |
| | `CompleteIsDelivered` | `NoFalseComplete` |
| | `RetriesWereMade` | `RetryNotOvercounted` |
| | `PostsAreBounded` | `ChainsDontFork` |
| | `NothingIsStuck` | `DoingIsHeld`, if no access to the table fails and no answer is empty |
| `LogDepotProofs` | `DepotTypeCorrect` | `TypeOK` |
| | `NoLineLost` | `Durable` |
| | `FilesStayBounded` | `FileBounded` |
| | `NewestKept` | the room and the order of a directory, the first two parts of `DepotInOrder` |
| | `NoNameTwice` | `DepotInOrder`, with room for two slices or more |
| `CLoganProofs` | `CLoganTypeCorrect` | `TypeOK` |
| | `CoreInductive` | phases, lengths and names in use fit each other |
| | `RoomIsLeft` | `RoomForSection`, for a buffer of three cells or more |
| | `WhatIsAwayStays` | `AwayIsFinal` |
| | `LinesStayInTheirFile` | `RightFile` |
| | `FilesHoldCompleteUnits` | no file ends, or begins anew, within a unit, as long as no crash falls within a step |
| | `WhatIsReadStays` | what a reader finds in a file he finds in it ever after, as long as no crash falls within a step |
| | `LinesAreDurable` | `Durable`, if a section fits behind a third of the buffer |
| | `CrashTakesLessThanABlock` | `LessThanABlockAtRisk`, if so |
| | `LibraryIsAStore` | `ImplementsStore`, if so |
| | `CrashesCostLittle` | `CostOfCrashes` |
| `PermissionFlowProofs` | `TypeCorrect` | `TypeOK` of the bridge |
| | `AnsweredInOrder` | `InOrder` of the bridge |
| | `AnsweredByOwnResult` | `OwnResult` of the bridge |
| | `ShownOneByOne` | `Serial` of the bridge |
| | `FlowIsBridge` | `FlowSpec => Spec` of the bridge |
| | `FlowOneAfterAnother` | `OneAfterAnother` |
| | `FlowTypeCorrect` | `FlowTypeOK` |
| | `GrantedWasHeld` | `GrantedIsHeld` |
| | `AllowedIsNotDenied` | `NoFalseDenial` |
| `BackgroundExecutorProofs` | `ExecutorTypeCorrect` | `TypeOK` |
| | `RanAsCalled` | `RunsAsCalled` |
| `PushFailoverProofs` | `PushTypeCorrect` | `TypeOK` |
| | `SparesAreTried` | `NobodyGivesUp` |
| | `EntryStaysMatched` | `EntryMatches`, if every receiver uses its own type |
| `LogForestProofs` | `ForestTypeCorrect` | `TypeOK` |
| | `TagsApartAndOnce` | `OwnTagOnce` |
| | `StaleTagIsNewest` | `HeldTagIsNewest` |

*LoganQueue.* `IInv` = `TypeOK`, `HandInv`, `UploadInv`, `WaitingIsVisible`, `OrderInv`. `OneUpload`
alone is not inductive: a job that was queued while the executor runs would break it
in the next step. `UploadInv` says where the one upload is in each phase of its life (queued,
running, or in its callback) and that parked models exist only while the status is SENDING.
`CallOrder` speaks of what is served; `OrderInv` extends it to what LoganThread holds, what
is queued, what is parked and what a caller is about to add. `HandInv` says
when the local variables hold a model. The theorems hold for any number of callers and calls, any
limit, and any values that racy reads of `mIsWorking` return.
`PlacesInv` is `Conservation` in a form a step can be followed in: the five places a model can be in are sequences
without duplicates, disjoint, and hold together what was accepted. For `WriteOvershoot` a WRITE in the queue and
a caller that is between test and add are counted together: the add turns the second into the
first, and the test lets a caller in only below the limit. A cardinality bounds it, so the callers must be finitely many,
which threads are. `QueueIsPipe` maps each step to a step of the pipe: polling, dispatching and waiting leave the line
as it is, as the line is what LoganThread holds before what is queued; `StartUpload` and `EndUpload` are where
`UploadInv` is needed, because the shared runnable has to hold the action that was submitted.

*UploadFlow.* `Acknowledged` says that `onPostSuccess` runs only after an acknowledgement; with it
`NoFalseComplete` is inductive, as no other step sets COMPLETE. For the retry count the two accesses of
`updateRetry` must be seen together: `CountInv` says that the count in the row, *and each count that a thread has
read and not yet written*, plus the number of threads that are inside `updateRetry`, is at most the number
of exhausted SENDs. A read copies the row's count, a write takes its thread out of the number, so
overlapping threads can only lose. Most steps do neither: `CalmIInv` covers them at once.
For `ChainsDontFork` the posts still to come are tokens: each attempt holds one for the post before it
and one per retry it has left. A SEND brings `RETRY_TIME + 1` tokens (`TokenInv`), a post spends one, and the
timer that goes on with an attempt takes over its remaining tokens one to one. No other step makes one
(`NoGain`), so the bound is a cardinality and needs no sum over threads.
`NothingIsStuck` needs `HeldInv`: a DOING row has an attempt in flight, or `StartRetryUTask` has not yet passed it
(`Pending`). The task reads the table once and then updates row by row, while attempts mark and settle rows
in between; a row that becomes DOING after the read has the attempt that marked it. Both hypotheses exclude
what TLC shows to break the property (`UploadStuck.cfg` for an empty answer, section 8 for a failing access).

*LogDepot.* Lines are numbered as they are written, so a line is nowhere but in the sets that
`LinesInv` names, and the age of slices is an order of sets of numbers (`OrderInv`). `Durable` is by itself
not inductive: a move must not overwrite a slice, nor take away a file whose lines are still buffered. `OpInv`
says what each part of an operation has made sure of for the next: a move goes to a directory that is no older than the file, has room, and
has no slice of that index, and the buffer was written before it (`BufferInv`); `ClockInv` keeps what midnights between
the parts can shift. For `FileBounded` the test of the size and the write are two steps: `SizeInv` says
that a file is short of its bound by one line as long as it is today's, which is the line a
midnight between the two lets it have more. `NoNameTwice` assumes `mDepotFileNum >= 2`: with room for one the
deletion empties the directory, and its numbering begins anew. The default is 10 (`LoganConfig` 34). `FreshInv` says that
a directory that has lost a slice keeps a later one until its day is too old; sums are not needed, the greatest index
is a bound.

*CLogan.* `Durable`, `LessThanABlockAtRisk` and `CostOfCrashes` begin with `Untorn`: no crash has fallen within a step so far. To
`LoganStore` such a crash is the step `Break`, after which the store promises nothing. What such a crash really costs is in
section 8. Everything else is promised and proved through any number of crashes, within steps too: `Tear` keeps `CoreInv` and
`HomeInv`, so `TypeOK`, `RoomForSection`, `AwayIsFinal` and `RightFile` need no such condition. In the other proofs
a step after which no crash has fallen within a step is none itself, and none has before (`UntornStep`).

`CoreInv` says which call a flush was made for and will return to (`PhaseInv`), that lengths lie within the buffer
(`LenInv`), and that stream, model and mapped header name one file while there is anything to write
(`LinkInv`). From it follow `RoomForSection` (a third in use at most, so a unit's new header needs
a buffer of three cells; `LOGAN_MMAP_LENGTH` is 150 KB) and `AwayIsFinal` (between `write_dest_clogan` and the write
no file is moved). `RightFile` is about data: `HomeInv` says that all cells in use of the buffer and all bytes that wait for a
whole block belong to the file the model names, that what the next process would recover belongs to the file the
*mapped header* names, and that each file holds its own. A length that is half stored can hide cells, or uncover what earlier fills left; the
latter needs a total that an unsuccessful recovery left behind, and all lines so far then count as "stray". The mapped part is the delicate one: after a flush the header's total is
stored in a step of its own, and re-opening another file re-labels what an unsuccessful
recovery left. `UnitInv` closes both: with one cell in use at most there is a header and no data, and a total that
was left in place covers only lines called "stray".

What a reader finds is the recursive function `Framed`. Where no header announces another header or more than there is
(`Plain`), `FramedIs` shows it to be the set of the cells that some header announces (`FramesOf`); the
induction is over the position, and is put as the least member of the set of positions where the two differ, so
that no induction theorem with an operator is needed. From there on the proofs are about sets. `FrameInv` says what keeps
the cells `Plain` in files and buffer: a unit's header announces what lies behind it, or less while its length
is on the way (`UnitOK`); the total ends at a unit's end, in the model and, but for the step between
two stores, in the mapped header (`AreaOK`, `SyncOK`). So an append begins where a unit ends, which gives `FilesHoldCompleteUnits` and
`WhatIsReadStays`, for all constants. `UnitOK` and `SyncOK` are what a crash between two bytes of a length breaks, so all this holds
under `Untorn`.

`Durable` adds where each line is. `PlacesInv`: each cell of a line that was begun is found in its file, or
in what the next flush writes, which is not only what headers announce (`UnitFrame`, `m.remain`); between the
write and the reset of the buffer it is in the file alone (`PutInv`). A crash moves the cells from one to the other, and
takes those that only waited in `remain`; `KeptLines` then gives `Durable`. `LessThanABlockAtRisk` needs a count of these: `RiskInv` says
that fewer than `B` cells of returned lines are without a header that announces them (`Pending`), and that the mapped length
is right about all others (`Covers`). For `LibraryIsAStore` the store's variables are computed from cells (`Views`); a write of the store is the one step
`PutOut`, and the call that makes a line taken must find it in the buffer or in the file as a whole. `LastInv` says
which: as long as the call has not returned, its last cell is unwritten, unless all of the buffer was.

`LinesAreDurable`, `CrashTakesLessThanABlock` and `LibraryIsAStore` have the hypothesis `SectionFits`: there is an `n` that no section exceeds, and a third of the buffer, the
unit's head and trailer, `n` and three blocks are less than the buffer. Without it the model would write behind the mapped area, which `Durable`
would not survive and which the code does not test: it looks at a third only after the section is in (`clogan_core.c` 636-638). `RoomInv` follows the total through a call from it. Both runs
satisfy it (21 < 33 in `CLoganSafe`, 28 < 42 in `CLoganCrashes`), and so does the code: `LOGAN_MMAP_LENGTH` is 150 KB, a section is
cut at 20 KB (`LOGAN_WRITE_SECTION`), which deflate makes at most a few bytes longer, head, trailer and blocks are below 100 bytes.
`CSizes` does not contain 0, as each section ends with a `Z_SYNC_FLUSH` (`zlib_util.c`), which writes four bytes or more.

`CostOfCrashes` counts places: where a cell stands in what was written to a file, and where a unit ends with no unit behind it.
Both are sets of pairs of a file and a position, so an append adds to their cardinalities what it brings (`PairsGrow`), and
no sum over files is needed. `TornInv` is about torn units. Without a crash nothing in the buffer is torn but, for a moment, the
unit that is being written (`OpenTorn`). In the mapped buffer no more units are torn, the first one aside, than crashes there
were, or only the one whose length is on the way (`MappedBound`); so a crash leaves at most as many as there are crashes, itself
included. While the next process has them to write, they and those in the files are together at most 1 + 2 + ... + n
after n crashes (`FilesTorn`, `RecoveryInv`), which a crash during the recovery keeps true. An
append tears nothing that was whole, because what it brings begins with a header (`HeadFirst`, `TornConcat`).
`CopyInv` is about copies: a cell of a line stands at most once in the buffer and in `remain` together (`CellsOnce`), and
its copies in the files, with one more if it is still to be written (`Ahead`), are at most one more than crashes.
The write turns the one that is ahead into a copy; from there to the reset of the buffer nothing is ahead, and a crash
that falls in between puts it ahead again and pays for it. The theorem holds for any number of crashes between steps, files and
lines; a crash within a step may tear two units at once, as section 8 says.

*PermissionBridge.* `Protocol` says who has the current request: from `Test` to `Clear`
`isRequesting` is set, and the executor's thread, the receiver and the main
thread have it in turn. `OrderInv` splits what was submitted into answered, owed and queued.
`Early` is the set of requests that are answered, or about to be, before their activity is done: only
a foreign broadcast adds to it without taking one out, whence the bounds of `OwnResult` and `Serial`. It
uses that the activity of a request is not started twice, which is `StartedInv` and
`Distinct`. Nothing is assumed of `Requests`, not even that it is finite.

*PermissionFlow.* Each step is a step of the bridge or leaves it alone, which is `FlowIsBridge`; the theorems about
the bridge carry over. `GrantedIsHeld` needs what lies between a check and its answer: a result that is
posted with an empty list found everything held, and since then permissions only went through `Change`.
`AllowedIsNotDenied` follows a request from the check before it to the check after it (`DenialOf`): as long as
nothing is changed in the settings, what is held only grows, so what was not missing before and what the page allowed is found held later. That the
result of the page is the request's own is `Early = {}` of the bridge, which is why a foreign broadcast is an excuse.

*BackgroundExecutor.* A task is in at most one of six places: a caller's hands, the list as far as the replay has not
passed it (`Live`), the queue, the timer, or it has run; `PlaceInv` says so, and that it is there once.
It is inductive only with the position of the replay (`ReplayInv`): entries behind it were handed over
and no longer count. `InTimeInv` says that a task cancelled in time is in no place from which it
would run: an entry left in the list is of a kind that is dropped when its turn comes.

*PushFailover.* `NobodyGivesUp` is about rest, so the invariant says what keeps the system busy: while push is on
and no quiet channel was tried, there is a channel that is on or asked, or a method under way that will ask one, or
no spare is left. `EntryMatches` follows the statements of the one method that is under way as long
as no other overlaps it; it assumes of the receivers what `PushCached.cfg` shows GetuiReceiver to lack.

*LogForest.* A tag at tree `t` for thread `th` was set by a call of `th`; calls are numbered as
made, and a thread's innermost call is its newest. So what a thread finds at a tree is either its newest call's tag or
one that no message of the thread has passed since, and taking it away makes the next one newer. Between taking a tag and
putting it out a tree may be reached by any number of inner calls. `TakenInv` says of the tag in hand that the tree does not hold it, has
not put it out and no other call has it in hand, and that what the tree holds meanwhile is of a newer call; `FramesInv` gives
the order of inner and outer calls that this rests on.

The assumptions are those named in the modules: limits and bounds are natural numbers, and the values for "none"
(`NoModel`, `NoFile`, `NoRow`, `None`) are none of the values they stand beside. Eight theorems have a hypothesis more,
given in the table; each is met by the constants of the run that checks the property, or by the code's own values, and
the argument above says what goes wrong without it.

## 6. What is only model-checked

Every invariant and action property of a passing run is stated by a theorem of section 5, some under the hypothesis
that is named there, and so is each refinement. What stays with TLC:

* The liveness properties `WokenDrains`, `Settles`, `KeptRuns`, `StartedIsAnswered`, `FailoverEnds`. Liveness is out of the
  prover's reach.
* The promises of comments that the code does not keep (section 8) are refuted by TLC and need no proof.

## 7. Assumptions of the models

* One process, the main one; the native methods are linked, and the mapped file can be created at the
  start. Each access to a field, a queue or the table is atomic; what lies between two is not.
* `CLogan`: one thread calls the library, which LoganThread guarantees. `malloc` and
  `deflateInit` succeed. Each byte store is atomic, and the stores of the one thread reach the mapped page in their order: the page
  outlives the process, and a power cut is not modelled. As a unit's header is one cell, a total that is half stored does not
  end among its five bytes, as it may in the code; and a total that lies behind the buffer, which a recovery
  ignores, is not torn once more. Neither plays a part in what is promised: `Durable` and the like end with the first crash within a
  step, and the others speak of cells of lines, of which a header has none. The header line of an empty file is a single
  `write` of less than a page, and is there or not. `fopen` may fail
  in the recovery and in `clogan_open`, whose results the code looks at. The names of log
  files have equal length. `CostOfCrashes` allows n(n+1)/2 exceptions for n crashes,
  because a recovery that is cut short is repeated. A recovery that cannot open its file
  leaves the total in place and the next `clogan_open` re-labels it; these lines are called "stray".
* `PermissionBridge`: the user answers what is shown, and an activity is shown once it was started.
* `PermissionFlow`: a permission is either held or not, and each check tells the truth; a request is started once.
* `PushFailover`: a library answers once for each time it was asked; one that answers never at all is one that
  is asked for ever, and the fail-over does not wait for it.
* `UploadFlow`: file names are not used twice, which is a part of `DepotInOrder` of `LogDepot`.

## 8. Where code and comments disagree

One run exhibits a disagreement.

* `LoganQueueLostWakeup`: `mIsWorking` is tested outside `sync`. A FLUSH that is added after
  LoganThread polled nothing and before it clears `mIsWorking` sees `true`, does not notify, and is not executed, although
  `Logan.java:86` says of `f()` that it writes the file at once.

Six further configurations are kept beside the runs; TLC refutes the property of each.

* `LoganQueueLocks.cfg` (`MCLoganQueue`, `NoLockCycle`): LoganThread takes `sync` and then `sendSync`, the upload
  callback `sendSync` and then `sync`. Both can wait for ever.
* `UploadStuck.cfg` (`MCUploadFlow`, `DoingIsHeld`): a 200 with an empty body calls neither `onPostSuccess` nor
  `onPostFail`, so the row stays DOING, although `RealSendRunnable.java:116` says that the flag is set back.
* `PermissionGranted.cfg` (`MCPermissionFlow`, `GrantedMeansWanted`): `PermissionRequest.java:36` says "Action to be
  taken when all permissions are granted". Without `overOnce` what was asked for before is filtered away
  (`Runtime` 72, 135), and a request with nothing left is granted although the user denied it. Line 41
  says of `onDenied` "when all permissions are denied"; the code calls it when any is.
* `PushCached.cfg` (`MCPushFailover`, `CachedIsRegistered`): `PushSdkManager.java:71` says that type and token of the last
  successful registration are cached. `GetuiReceiver` 37 opens the entry as MEIZU.
* `LogTagStale.cfg` (`MCLogForest`, `TagOfItsMessage`): `Logz.java:56` says "temp tag use only once". `Tree` 241-247
  returns from a filtered message before `generateTag` takes its tag away (338-339), so it stays for the next one.
* `CLoganTorn.cfg` (`MCCLogan`, `CrashCostsLessThanABlock`): no comment promises this, but a buffer that is mapped to
  outlive the process is there for it. Between any two steps a crash costs less than a block; between two bytes of a length it costs
  more. Three examples: the total goes from 250 to 266 (0x00FA to 0x010A) and the process ends after `clogan_core.c` 498, so it
  reads 10, and the next start writes ten bytes of the buffer. `clear_clogan` resets a total of 0x5012 and ends there: 0x5000
  bytes are written once more, under a header of length zero and with the last unit cut, two torn units for one crash. `content_len`
  goes from 240 to 256 and the process ends before 514: the header announces 496 bytes, the recovery writes it, and
  a reader takes the beginning of what is appended later for the end of this unit.

The modules state further promises of comments which the code does not keep. They have no cfg of
their own; to see the counterexample, write a cfg with the constants given and the one property.

| module | property | line | instance |
|---|---|---|---|
| `LoganQueue` | `QueueWithinMax` | `LoganControlCenter` 51 | 2 producers, `{"WRITE"}`, `mMaxQueue` 1, `MaxCalls` 1, current reads |
| `UploadFlow` | `OnePostEach` | `RealSendRunnable` 83 | 1 timer, `RetryLimit` 1, `MCForced` |
| | `UploadedNotResent` | `FeedBackUTask` 125 | 2 timers, ok and fail, `MCFeedBacks` |
| | `ThreeStrikes` | `FeedBackUTask` 125 | 1 timer, only fail, `MCFeedBacks` |
| | `RefusedIsKept` | `RealSendRunnable` 33 | 1 timer, `MCOutage` |
| | `RetryGrows` | `LoganUFileDao` 226 | 2 timers, only fail, `MCForced` |
| | `DoingIsHeld` | `DBHelper` 38 | 1 timer, ok and fail, `SharedClose`, `MCForced` |
| `LogDepot` | `Durable` of `BackSpec` | `LoganThread` 370 | 2 days, kept for 3, 4 writes, `MCBack` |
| | `RestArranged` | `LoganThread` 318 | 3 days, kept for 3, 3 writes, `MCFull` |
| | `CheckedEachMinute` | `LoganThread` 243 | 3 days, kept for 3, 4 writes, `MCMinutes` |
| `BackgroundExecutor` | `EveryTaskRuns`, `CancelHarmless`, `CallHarmless` | `ThreadExecutor` 47, 58 | as `ExecutorSafe` |

`Budget` is the named operator of the MC module. What the table leaves out is, for `UploadFlow`, as in
`UploadStuck`, and else as in the run of the same module; all of `LogDepot` has slices of 1, 2 slices a day and a buffer of 2.

## 9. What is not modelled

* `src/Lovest/platform/Clibrary/mbedtls` and `cJSON.c`, which are more than nine tenths of the C lines of the
  repository: third-party code that was copied in. Of it the program uses AES-CBC and a printer of JSON objects,
  called by one thread, whose result no property here depends on. So the map covers nearly all of
  `clogan_core.c` and most of `zlib_util.c`, and a small share of all lines; a line count over the repository says
  little about how much of the program is modelled, most of which is Java.
* `mmap_util.c`, `json_util.c`, `directory_util.c`, `base_util.c`, `aes_util.c`, `console_util.c`: each function is a
  single call of the system or the library, without state.
* `logan/meituan/protocol` and the JNI file: a singleton that forwards to native methods.
* Formatting and parsing of messages, ciphers, zlib: no property here depends on what they compute. Of `Tree` that
  leaves out how a message is cut into lines, where the comparison with `LINE_MAX` (258-259) is the wrong way round: long
  messages are not cut, short ones are.
* The HTTP layer and the web views: builders and proxies in front of two libraries.
* Permission pages and checkers: each starts a page of the system or tries an access and keeps nothing.
* `SyncCmdUTask`, `SyncRetryUTask`, `ThirdSdkUTask`: their bodies are commented out.
* Messages that a push service delivers, which are posted to an event bus.
* The app shell, accessors, modules without source.

## 10. Plan

Order of work: hand-over first, because everything passes through it; then uploads, which hold the state that
outlives the process; then the files below; then the smaller asynchronous parts. All modules of that plan are
written. What would come next:

1. That `UploadFlow` and `LogDepot` keep what `LoganPipe` and `LoganStore` promise is argued in section 2; a
   module that composes `LoganPipe` with `UploadFlow` would check the first.
2. `CLogan` with a start without a mapped file, where the buffer is in memory from the beginning.
