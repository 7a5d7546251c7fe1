--------------------------- MODULE PermissionBridge ---------------------------
(***************************************************************************)
(* Permission requests, one after the other: RequestManager's queue, the   *)
(* thread of RequestExecutor, which shows a BridgeActivity for a request   *)
(* and then spins on a plain field, and the broadcast by which the         *)
(* activity says on the main thread that it has a result.                  *)
(*                                                                         *)
(* A broadcast goes to who is registered when it is sent, does not say     *)
(* what it answers, and may be sent by another application that uses the   *)
(* same library.  An activity may be destroyed without a result.           *)
(***************************************************************************)
EXTENDS Naturals, Sequences, FiniteSets

CONSTANTS
    Requests,
    None,
    MaxForeign,   \* bound: broadcasts of other applications
    MaxDeaths     \* bound: activities destroyed without a result

ASSUME PermissionAssumption ==
    /\ None \notin Requests
    /\ MaxForeign \in Nat /\ MaxDeaths \in Nat

VARIABLES
    mQueue,
    isRequesting,  \* the field, as the main thread and memory have it
    seen,          \* the field, as the executor's thread reads it
    mRequest,
    messenger,     \* the request whose Messenger is registered
    epc,           \* the step of the executor's thread
    mpc,           \* the step of the main thread
    activity,      \* activity[r]: the BridgeActivity of request r
    inFlight,      \* the messengers a broadcast is on its way to
    submitted,     \* history: the requests in the order of their submission
    answered,      \* history: the requests in the order of their answers
    foreign,       \* broadcasts of other applications so far
    deaths         \* activities destroyed without a result so far

executor == <<seen, epc>>
main     == <<mpc, answered>>
events   == <<foreign, deaths>>
vars == <<mQueue, isRequesting, mRequest, messenger, executor, main, activity, inFlight,
          submitted, events>>

TypeOK ==
    /\ mQueue \in Seq(Requests) /\ submitted \in Seq(Requests) /\ answered \in Seq(Requests)
    /\ isRequesting \in BOOLEAN /\ seen \in BOOLEAN
    /\ mRequest \in Requests \cup {None} /\ messenger \in Requests \cup {None}
    /\ epc \in {"test", "take", "register", "start"}
    /\ epc \in {"register", "start"} => mRequest # None
    /\ mpc \in {"idle", "callback", "clear"}
    /\ activity \in [Requests -> {"none", "shown", "done", "dead"}]
    /\ inFlight \subseteq Requests
    /\ foreign \in 0..MaxForeign /\ deaths \in 0..MaxDeaths

Init ==
    /\ mQueue = <<>> /\ submitted = <<>> /\ answered = <<>>
    /\ isRequesting = FALSE /\ seen = FALSE
    /\ mRequest = None /\ messenger = None
    /\ epc = "test" /\ mpc = "idle"
    /\ activity = [r \in Requests |-> "none"]
    /\ inFlight = {}
    /\ foreign = 0 /\ deaths = 0

Submitted == {submitted[i] : i \in DOMAIN submitted}
Answered  == {answered[i] : i \in DOMAIN answered}

\* RequestManager.add, by any thread
Add(r) ==
    /\ r \notin Submitted
    /\ mQueue' = Append(mQueue, r)
    /\ submitted' = Append(submitted, r)
    /\ UNCHANGED <<isRequesting, mRequest, messenger, executor, main, activity, inFlight, events>>

-------------------------------------------------------------------------------
(* RequestExecutor.run *)

\* Mutant: the field is not set.
TestOnly ==
    /\ epc = "test" /\ ~seen
    /\ epc' = "take"
    /\ UNCHANGED <<isRequesting, seen, mQueue, mRequest, messenger, main, activity, inFlight, submitted, events>>

Test ==
    /\ epc = "test" /\ ~seen
    /\ isRequesting' = TRUE /\ seen' = TRUE
    /\ epc' = "take"
    /\ UNCHANGED <<mQueue, mRequest, messenger, main, activity, inFlight, submitted, events>>

\* Nothing but the scheduler makes the thread read the field again.
Refresh ==
    /\ epc = "test" /\ seen # isRequesting
    /\ seen' = isRequesting
    /\ UNCHANGED <<mQueue, isRequesting, mRequest, messenger, epc, main, activity, inFlight,
                   submitted, events>>

\* Mutant: poll, which does not wait.
TakePoll ==
    /\ epc = "take"
    /\ mRequest' = IF mQueue = <<>> THEN None ELSE Head(mQueue)
    /\ mQueue' = IF mQueue = <<>> THEN <<>> ELSE Tail(mQueue)
    /\ epc' = "register"
    /\ UNCHANGED <<isRequesting, seen, messenger, main, activity, inFlight, submitted, events>>

Take ==
    /\ epc = "take" /\ mQueue # <<>>
    /\ mRequest' = Head(mQueue)
    /\ mQueue' = Tail(mQueue)
    /\ epc' = "register"
    /\ UNCHANGED <<isRequesting, seen, messenger, main, activity, inFlight, submitted, events>>

\* Mutant: a receiver is registered for the first request only.
RegisterFirst ==
    /\ epc = "register"
    /\ messenger' = IF answered = <<>> THEN mRequest ELSE messenger
    /\ epc' = "start"
    /\ UNCHANGED <<mQueue, isRequesting, seen, mRequest, main, activity, inFlight, submitted, events>>

Register ==
    /\ epc = "register"
    /\ messenger' = mRequest
    /\ epc' = "start"
    /\ UNCHANGED <<mQueue, isRequesting, seen, mRequest, main, activity, inFlight, submitted, events>>

\* executeCurrent
Start ==
    /\ epc = "start"
    /\ activity' = [activity EXCEPT ![mRequest] = "shown"]
    /\ epc' = "test"
    /\ UNCHANGED <<mQueue, isRequesting, seen, mRequest, messenger, main, inFlight, submitted, events>>

-------------------------------------------------------------------------------
(* The main thread *)

Broadcast == inFlight' = inFlight \cup ({messenger} \ {None})

\* onActivityResult and onRequestPermissionsResult
Result(r) ==
    /\ mpc = "idle" /\ activity[r] = "shown"
    /\ activity' = [activity EXCEPT ![r] = "done"]
    /\ Broadcast
    /\ UNCHANGED <<mQueue, isRequesting, mRequest, messenger, executor, main, submitted, events>>

\* Mutant: the receiver stays registered.
ReceiveRegistered(r) ==
    /\ mpc = "idle" /\ r \in inFlight
    /\ inFlight' = inFlight \ {r}
    /\ mpc' = IF messenger = r THEN "callback" ELSE "idle"
    /\ UNCHANGED <<messenger, mQueue, isRequesting, mRequest, executor, answered, activity, submitted, events>>

\* onReceive; a receiver that is not registered any more is not called.
Receive(r) ==
    /\ mpc = "idle" /\ r \in inFlight
    /\ inFlight' = inFlight \ {r}
    /\ IF messenger = r THEN messenger' = None /\ mpc' = "callback"
                        ELSE UNCHANGED <<messenger, mpc>>
    /\ UNCHANGED <<mQueue, isRequesting, mRequest, executor, answered, activity, submitted, events>>

\* The callback of the request, which asks for the permissions anew
Callback ==
    /\ mpc = "callback"
    /\ answered' = Append(answered, mRequest)
    /\ mpc' = "clear"
    /\ UNCHANGED <<mQueue, isRequesting, mRequest, messenger, executor, activity, inFlight,
                   submitted, events>>

Clear ==
    /\ mpc = "clear"
    /\ isRequesting' = FALSE
    /\ mpc' = "idle"
    /\ UNCHANGED <<mQueue, mRequest, messenger, executor, answered, activity, inFlight,
                   submitted, events>>

-------------------------------------------------------------------------------
(* The environment *)

Foreign ==
    /\ foreign < MaxForeign
    /\ foreign' = foreign + 1
    /\ Broadcast
    /\ UNCHANGED <<mQueue, isRequesting, mRequest, messenger, executor, main, activity,
                   submitted, deaths>>

Destroyed(r) ==
    /\ deaths < MaxDeaths /\ activity[r] = "shown"
    /\ deaths' = deaths + 1
    /\ activity' = [activity EXCEPT ![r] = "dead"]
    /\ UNCHANGED <<mQueue, isRequesting, mRequest, messenger, executor, main, inFlight,
                   submitted, foreign>>

Executor == Test \/ Take \/ Register \/ Start
Main == (\E r \in Requests : Receive(r)) \/ Callback \/ Clear
Next ==
    \/ \E r \in Requests : Add(r) \/ Result(r) \/ Destroyed(r)
    \/ Executor \/ Refresh \/ Main \/ Foreign

Spec == Init /\ [][Next]_vars

\* The threads run, and the user answers what is shown.  That the executor's
\* thread reads the field again is not assumed.
FairSpec ==
    /\ Spec
    /\ WF_vars(Executor) /\ WF_vars(Main)
    /\ \A r \in Requests : WF_vars(Result(r))

-------------------------------------------------------------------------------
(* Properties *)

\* Requests are answered in the order in which they were submitted, and once.
InOrder ==
    /\ Len(answered) <= Len(submitted)
    /\ answered = SubSeq(submitted, 1, Len(answered))

\* One request at a time: no two activities are shown, but for one more for every
\* broadcast of another application.
Serial == Cardinality({r \in Requests : activity[r] = "shown"}) <= 1 + foreign

\* A request is answered when its own activity has its result, but for one request
\* for every broadcast of another application.
OwnResult == Cardinality({r \in Answered : activity[r] # "done"}) <= foreign
===============================================================================
