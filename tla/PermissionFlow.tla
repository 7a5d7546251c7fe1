---------------------------- MODULE PermissionFlow ----------------------------
(***************************************************************************)
(* What an app asks for and is told: a request is built, started, perhaps  *)
(* explained to the user, sent over the bridge of PermissionBridge, checked *)
(* once more and answered by onGranted or onDenied.                         *)
(*                                                                         *)
(* Requests of `runtime' are checked by an AsyncTask: the checks run one    *)
(* after the other on a thread of their own, and their results are posted   *)
(* to the main thread.  The others (overlay, install, notify, listener,     *)
(* write settings) are checked in the callback itself.  The user may change *)
(* a permission at any time in the settings of the system.                  *)
(***************************************************************************)
EXTENDS PermissionBridge

CONSTANTS
    Permissions,
    Wanted,        \* Wanted[r]: what the app passes to permission(...)
    Runtime,       \* the requests made by runtime()
    OverOnce,      \* those of them made with overOnce()
    HeldAtStart,   \* the permissions the app has when it starts
    MaxEvents      \* bound: changes in the settings, broadcasts of other applications
                   \* and activities that die, together

ASSUME FlowAssumption ==
    /\ Wanted \in [Requests -> SUBSET Permissions]
    /\ OverOnce \subseteq Runtime /\ Runtime \subseteq Requests
    /\ HeldAtStart \subseteq Permissions
    /\ MaxEvents \in Nat

VARIABLES
    held,              \* the permissions the app has
    mHistoryRequest,   \* the static set of Runtime
    phase,             \* phase[r]: how far request r is
    mPermissions,      \* mPermissions[r]: what r asks for
    mDeniedPermissions,\* mDeniedPermissions[r]: what start() found missing
    deniedList,        \* deniedList[r]: what its last check found missing
    tasks,             \* AsyncTask: checks that wait for their thread
    posted,            \* and results that wait for the main thread
    calls,             \* history: calls[r], the callbacks r has had
    allowed,           \* history: allowed[r], what the user allowed on r's page
    changed            \* history: the permissions changed in the settings

request == <<phase, mPermissions, mDeniedPermissions, deniedList, calls>>
system  == <<held, changed>>
flow == <<system, mHistoryRequest, request, tasks, posted, allowed>>
flowVars == <<vars, flow>>

\* Type: phases, lists and answers are of their kinds, and a list that is checked or
\* reported belongs to a request that waits for exactly that.
FlowTypeOK ==
    /\ TypeOK
    /\ held \subseteq Permissions /\ mHistoryRequest \subseteq Permissions
    /\ changed \subseteq Permissions
    /\ phase \in [Requests -> {"new", "built", "rationale", "bridge", "task", "posted", "answered"}]
    /\ mPermissions \in [Requests -> SUBSET Permissions]
    /\ mDeniedPermissions \in [Requests -> SUBSET Permissions]
    /\ deniedList \in [Requests -> SUBSET Permissions]
    /\ allowed \in [Requests -> SUBSET Permissions]
    /\ tasks \in Seq(Runtime) /\ posted \in Seq(Runtime)
    /\ \A i \in DOMAIN tasks : phase[tasks[i]] = "task"
    /\ \A i \in DOMAIN posted : phase[posted[i]] = "posted"
    /\ calls \in [Requests -> Seq({"granted", "denied"})]

FlowInit ==
    /\ Init
    /\ held = HeldAtStart
    /\ mHistoryRequest = {} /\ changed = {}
    /\ phase = [r \in Requests |-> "new"]
    /\ mPermissions = [r \in Requests |-> {}]
    /\ mDeniedPermissions = [r \in Requests |-> {}]
    /\ deniedList = [r \in Requests |-> {}]
    /\ allowed = [r \in Requests |-> {}]
    /\ calls = [r \in Requests |-> <<>>]
    /\ tasks = <<>> /\ posted = <<>>

Missing(r) == mPermissions[r] \ held

-------------------------------------------------------------------------------
(* Steps of a request; each names the parts of `request' it changes. *)

Becomes(r, p) == phase' = [phase EXCEPT ![r] = p]

\* Mutant: denied when all is denied.
ToldWhenAll(r, denied) ==
    calls' = [calls EXCEPT ![r] =
                 Append(@, IF denied # {} /\ denied = mPermissions[r] THEN "denied" ELSE "granted")]

\* callbackSucceed and callbackFailed.  onGranted of a runtime request may throw:
\* then onDenied is called as well.
Told(r, denied) ==
    \/ /\ denied # {}
       /\ calls' = [calls EXCEPT ![r] = Append(@, "denied")]
    \/ /\ denied = {}
       /\ calls' = [calls EXCEPT ![r] = Append(@, "granted")]
    \/ /\ denied = {} /\ r \in Runtime
       /\ calls' = [calls EXCEPT ![r] = @ \o <<"granted", "denied">>]

\* Mutant: a request is answered with what start() found.
OnCallbackStale(r) ==
    /\ Told(r, mDeniedPermissions[r])
    /\ Becomes(r, "answered")
    /\ UNCHANGED <<deniedList, tasks>>

\* onCallback of runtime.MRequest, and of the other requests
OnCallback(r) ==
    \/ /\ r \in Runtime
       /\ tasks' = Append(tasks, r)
       /\ Becomes(r, "task")
       /\ UNCHANGED <<deniedList, calls>>
    \/ /\ r \notin Runtime
       /\ deniedList' = [deniedList EXCEPT ![r] = Missing(r)]
       /\ Told(r, Missing(r))
       /\ Becomes(r, "answered")
       /\ UNCHANGED tasks

\* Runtime.permission: without overOnce only what no request asked for before
Build(r) ==
    /\ phase[r] = "new"
    /\ Becomes(r, "built")
    /\ IF r \in Runtime \ OverOnce
       THEN /\ mPermissions' = [mPermissions EXCEPT ![r] = Wanted[r] \ mHistoryRequest]
            /\ mHistoryRequest' = mHistoryRequest \cup Wanted[r]
       ELSE /\ mPermissions' = [mPermissions EXCEPT ![r] = Wanted[r]]
            /\ UNCHANGED mHistoryRequest
    /\ UNCHANGED <<vars, system, mDeniedPermissions, deniedList, calls, tasks, posted, allowed>>

\* start, when nothing is missing
StartHeld(r) ==
    /\ phase[r] = "built" /\ Missing(r) = {}
    /\ OnCallback(r)
    /\ UNCHANGED <<vars, system, mHistoryRequest, mPermissions, mDeniedPermissions, posted, allowed>>

\* start, when the app explains first
StartRationale(r) ==
    /\ phase[r] = "built" /\ Missing(r) # {}
    /\ mDeniedPermissions' = [mDeniedPermissions EXCEPT ![r] = Missing(r)]
    /\ Becomes(r, "rationale")
    /\ UNCHANGED <<vars, system, mHistoryRequest, mPermissions, deniedList, calls, tasks, posted,
                   allowed>>

\* execute: by the app, or at once by the rationale that is there by default
Execute(r) ==
    /\ phase[r] = "rationale"
    /\ Add(r)
    /\ Becomes(r, "bridge")
    /\ UNCHANGED <<system, mHistoryRequest, mPermissions, mDeniedPermissions, deniedList, calls,
                   tasks, posted, allowed>>

\* Mutant: cancel of a runtime request is nobody's.
CancelForgotten(r) ==
    /\ phase[r] = "rationale" /\ r \notin Runtime
    /\ Told(r, mDeniedPermissions[r])
    /\ Becomes(r, "answered")
    /\ UNCHANGED <<vars, system, mHistoryRequest, mPermissions, mDeniedPermissions, deniedList, tasks,
                   posted, allowed>>

\* cancel: a runtime request is checked once more, the others are denied
Cancel(r) ==
    /\ phase[r] = "rationale"
    /\ \/ r \in Runtime /\ OnCallback(r)
       \/ /\ r \notin Runtime
          /\ Told(r, mDeniedPermissions[r])
          /\ Becomes(r, "answered")
          /\ UNCHANGED <<deniedList, tasks>>
    /\ UNCHANGED <<vars, system, mHistoryRequest, mPermissions, mDeniedPermissions, posted, allowed>>

\* The user's answer on the page: some of what was asked for is held from now on.
PageResult(r) ==
    /\ Result(r)
    /\ \E S \in SUBSET mDeniedPermissions[r] :
           /\ held' = held \cup S
           /\ allowed' = [allowed EXCEPT ![r] = S]
    /\ UNCHANGED <<changed, mHistoryRequest, request, tasks, posted>>

\* RequestExecutor.onCallback reaches the callback of the request.
CallbackRequest ==
    /\ Callback
    /\ OnCallback(mRequest)
    /\ UNCHANGED <<system, mHistoryRequest, mPermissions, mDeniedPermissions, posted, allowed>>

DoInBackground ==
    /\ tasks # <<>>
    /\ LET r == Head(tasks) IN
       /\ deniedList' = [deniedList EXCEPT ![r] = Missing(r)]
       /\ Becomes(r, "posted")
       /\ posted' = Append(posted, r)
    /\ tasks' = Tail(tasks)
    /\ UNCHANGED <<vars, system, mHistoryRequest, mPermissions, mDeniedPermissions, calls, allowed>>

OnPostExecute ==
    /\ mpc = "idle" /\ posted # <<>>
    /\ LET r == Head(posted) IN Told(r, deniedList[r]) /\ Becomes(r, "answered")
    /\ posted' = Tail(posted)
    /\ UNCHANGED <<vars, system, mHistoryRequest, mPermissions, mDeniedPermissions, deniedList, tasks,
                   allowed>>

-------------------------------------------------------------------------------
(* The environment *)

Bounded == foreign + deaths + Cardinality(changed) < MaxEvents

Change(p) ==
    /\ p \notin changed /\ Bounded
    /\ held' = IF p \in held THEN held \ {p} ELSE held \cup {p}
    /\ changed' = changed \cup {p}
    /\ UNCHANGED <<vars, mHistoryRequest, request, tasks, posted, allowed>>

BridgeOnly ==
    /\ \/ Executor \/ Refresh \/ Clear \/ (Foreign /\ Bounded)
       \/ \E r \in Requests : Receive(r) \/ (Destroyed(r) /\ Bounded)
    /\ UNCHANGED flow

Answering(r) == Execute(r) \/ Cancel(r)
FlowNext ==
    \/ \E r \in Requests :
           Build(r) \/ StartHeld(r) \/ StartRationale(r) \/ Answering(r) \/ PageResult(r)
    \/ CallbackRequest \/ DoInBackground \/ OnPostExecute \/ BridgeOnly
    \/ \E p \in Permissions : Change(p)

FlowSpec == FlowInit /\ [][FlowNext]_flowVars

\* The threads run; the user answers the app's explanation and the page.  That the
\* executor's thread reads isRequesting again is not assumed.
FairFlowSpec ==
    /\ FlowSpec
    /\ WF_flowVars(Executor /\ UNCHANGED flow)
    /\ WF_flowVars(CallbackRequest \/ (Main /\ UNCHANGED flow))
    /\ WF_flowVars(DoInBackground) /\ WF_flowVars(OnPostExecute)
    /\ \A r \in Requests : WF_flowVars(Answering(r)) /\ WF_flowVars(PageResult(r))

-------------------------------------------------------------------------------
(* Properties *)

Called(r, c) == \E i \in DOMAIN calls[r] : calls[r][i] = c

\* Requests are shown and answered one after the other, in the order in which they
\* were started and for their own result, also when every caller checks first, asks
\* the user and starts when it likes; but for one request for every broadcast of
\* another application.
OneAfterAnother == InOrder /\ Serial /\ OwnResult

\* A request that was told `granted' had all it asks for: it has it still, but for
\* what the user changed in the settings.
GrantedIsHeld == \A r \in Requests : Called(r, "granted") => mPermissions[r] \subseteq held \cup changed

\* Who was allowed on its own page all it lacked is not told `denied', however checks,
\* results and other requests interleave; but for a broadcast of another application,
\* a change in the settings, and an onGranted that threw.
NoFalseDenial ==
    \A r \in Requests :
        /\ calls[r] = <<"denied">> /\ activity[r] = "done"
        /\ foreign = 0 /\ changed = {}
        => allowed[r] # mDeniedPermissions[r]

\* `Action to be taken when all permissions are granted' (PermissionRequest 36):
\* all that the app passed to permission(...).  The code does not keep this.
GrantedMeansWanted == \A r \in Runtime : Called(r, "granted") => Wanted[r] \subseteq held \cup changed

\* A request that was started is answered, unless an activity dies, or the executor's
\* thread never reads again that the last request was answered.
StartedIsAnswered ==
    \A r \in Requests :
        phase[r] \in {"rationale", "bridge", "task", "posted"}
            ~> (phase[r] = "answered" \/ deaths > 0 \/ [](seen # isRequesting))
===============================================================================
