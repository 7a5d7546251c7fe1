----------------------------- MODULE PushFailover -----------------------------
(***************************************************************************)
(* The choice of a push service: PushSdkManager opens one channel, and a    *)
(* channel whose registration fails is followed by the next spare.  The     *)
(* service libraries answer on threads of their own, late or never told:    *)
(* nothing ties an answer to the request it belongs to, and the entry that  *)
(* is reported to the server is one object that all of them write, field by *)
(* field, without a lock.                                                   *)
(***************************************************************************)
EXTENDS Naturals, Sequences, FiniteSets

CONSTANTS
    Channels,     \* the push types
    Quiet,        \* those whose failure calls nobody: XINGE, missing keys, another phone
    Reconnecting, \* HUAWEI: a lost connection is asked for again
    Registered,   \* Registered[c]: the type under which channel c's receiver opens the entry
    Arrays,       \* the arrays of spares the app passes
    App, None, Null,
    MaxCalls      \* bound: calls of the app and lost connections

ASSUME PushAssumption ==
    /\ Quiet \subseteq Channels /\ Reconnecting \subseteq Channels
    /\ Registered \in [Channels -> Channels]
    /\ Arrays \subseteq Seq(Channels)
    /\ App \notin Channels /\ None \notin Channels
    /\ Null \notin [type : Channels \cup {None}, token : Channels \cup {None}]
    /\ MaxCalls \in Nat

VARIABLES
    mUpdatePushToken,        \* the entry, Null once unregistered; a token is named by its channel
    mPushSpareChannelQueue,
    sEnablePush,
    cached,                  \* SharedPreUtils: FINAL_TYPE and FINAL_TOKEN
    sdk,                     \* sdk[c]: what the library of channel c is at
    call,                    \* call[a]: the method that a library's thread, or the app, is in
    calls,                   \* calls of the app and lost connections so far
    overlapped,              \* history: two methods were under way at once
    off,                     \* history: push was disabled or unregistered
    asked                    \* history: the channels that were initialised

history == <<overlapped, off, asked>>
vars == <<mUpdatePushToken, mPushSpareChannelQueue, sEnablePush, cached, sdk, call, calls, history>>

Actors == Channels \cup {App}
Entries == [type : Channels \cup {None}, token : Channels \cup {None}]
Idle == [at |-> "idle", channel |-> None, rest |-> <<>>]
Steps == {"empty", "fill", "clear", "name", "init", "poll", "token", "type",
          "saveType", "saveToken", "unregister", "forget"}

\* Type: a method that is under way knows its channel.
TypeOK ==
    /\ mUpdatePushToken \in Entries \cup {Null} /\ cached \in Entries
    /\ mPushSpareChannelQueue \in Seq(Channels)
    /\ sEnablePush \in BOOLEAN /\ overlapped \in BOOLEAN /\ off \in BOOLEAN
    /\ sdk \in [Channels -> {"off", "asked", "on"}]
    /\ call \in [Actors -> [at : Steps \cup {"idle"}, channel : Channels \cup {None}, rest : Seq(Channels)]]
    /\ \A a \in Actors :
          /\ call[a].at \in {"clear", "name", "init", "token", "type"} => call[a].channel # None
          /\ call[a].at = "fill" => call[a].rest # <<>>
    /\ calls \in 0..MaxCalls /\ asked \subseteq Channels

Init ==
    /\ mUpdatePushToken = [type |-> None, token |-> None]
    /\ cached = [type |-> None, token |-> None]
    /\ mPushSpareChannelQueue = <<>>
    /\ sEnablePush = TRUE
    /\ sdk = [c \in Channels |-> "off"]
    /\ call = [a \in Actors |-> Idle]
    /\ calls = 0 /\ overlapped = FALSE /\ off = FALSE /\ asked = {}

Begins(a, step, c, rest) ==
    /\ call[a] = Idle
    /\ call' = [call EXCEPT ![a] = [at |-> step, channel |-> c, rest |-> rest]]
    /\ overlapped' = (overlapped \/ \E b \in Actors : call[b] # Idle)
At(a, step) == call[a].at = step
Goes(a, step) == call' = [call EXCEPT ![a].at = step]
Ends(a) == call' = [call EXCEPT ![a] = Idle]

\* A field of the entry is set; without an entry the method ends in an exception, which
\* leaves it to the library, or is swallowed by updateStatus.
SetField(a, field, value, next) ==
    /\ IF mUpdatePushToken = Null THEN Ends(a) /\ UNCHANGED mUpdatePushToken
       ELSE Goes(a, next) /\ mUpdatePushToken' = [mUpdatePushToken EXCEPT ![field] = value]
    /\ UNCHANGED <<mPushSpareChannelQueue, sEnablePush, cached, sdk, calls, history>>

-------------------------------------------------------------------------------
(* The app's calls; a call of initAssignPush while push is disabled does nothing. *)

AppCalls == calls < MaxCalls /\ calls' = calls + 1

InitAssignPush(c, spares) ==
    /\ AppCalls /\ sEnablePush
    /\ Begins(App, IF spares = <<>> THEN "clear" ELSE "empty", c, spares)
    /\ UNCHANGED <<mUpdatePushToken, mPushSpareChannelQueue, sEnablePush, cached, sdk, off, asked>>

\* removeAll, and one add for each spare
Empty ==
    /\ At(App, "empty")
    /\ mPushSpareChannelQueue' = <<>>
    /\ Goes(App, "fill")
    /\ UNCHANGED <<mUpdatePushToken, sEnablePush, cached, sdk, calls, history>>

Fill ==
    /\ At(App, "fill")
    /\ LET rest == call[App].rest IN
       /\ mPushSpareChannelQueue' = Append(mPushSpareChannelQueue, Head(rest))
       /\ call' = [call EXCEPT ![App].rest = Tail(rest),
                               ![App].at = IF Tail(rest) = <<>> THEN "clear" ELSE "fill"]
    /\ UNCHANGED <<mUpdatePushToken, sEnablePush, cached, sdk, calls, history>>

SetEnablePush(b) ==
    /\ AppCalls /\ call[App] = Idle /\ b # sEnablePush
    /\ sEnablePush' = b
    /\ off' = (off \/ ~b)
    /\ UNCHANGED <<mUpdatePushToken, mPushSpareChannelQueue, cached, sdk, call, overlapped, asked>>

UnRegisterPush ==
    /\ AppCalls
    /\ Begins(App, "unregister", None, <<>>)
    /\ off' = TRUE
    /\ UNCHANGED <<mUpdatePushToken, mPushSpareChannelQueue, sEnablePush, cached, sdk, asked>>

\* BasePushProxy.unRegisterPush: a client that is not connected connects instead.
Unregister ==
    /\ At(App, "unregister")
    /\ Goes(App, "forget")
    /\ IF mUpdatePushToken = Null \/ mUpdatePushToken.type = None THEN UNCHANGED sdk
       ELSE sdk' = [sdk EXCEPT ![mUpdatePushToken.type] =
                       IF mUpdatePushToken.type \in Reconnecting /\ @ # "on" THEN "asked" ELSE "off"]
    /\ UNCHANGED <<mUpdatePushToken, mPushSpareChannelQueue, sEnablePush, cached, calls, history>>

Forget ==
    /\ At(App, "forget")
    /\ mUpdatePushToken' = Null
    /\ Ends(App)
    /\ UNCHANGED <<mPushSpareChannelQueue, sEnablePush, cached, sdk, calls, history>>

-------------------------------------------------------------------------------
(* initPush, by the app or by updateStatus *)

\* Mutant: the token of the channel before stays.
ClearNothing(a) ==
    /\ At(a, "clear")
    /\ Goes(a, "name")
    /\ UNCHANGED <<mUpdatePushToken, mPushSpareChannelQueue, sEnablePush, cached, sdk, calls, history>>

Clear(a) == At(a, "clear") /\ SetField(a, "token", None, "name")
Name(a)  == At(a, "name") /\ SetField(a, "type", call[a].channel, "init")

\* The proxy's init; without keys, or on another phone, it returns and says nothing.
InitChannel(a) ==
    /\ At(a, "init")
    /\ LET c == call[a].channel IN
       /\ sdk' = [sdk EXCEPT ![c] = "asked"]
       /\ asked' = asked \cup {c}
    /\ Ends(a)
    /\ UNCHANGED <<mUpdatePushToken, mPushSpareChannelQueue, sEnablePush, cached, calls, overlapped, off>>

-------------------------------------------------------------------------------
(* The libraries and their callbacks *)

Success(c) ==
    /\ sdk[c] = "asked"
    /\ sdk' = [sdk EXCEPT ![c] = "on"]
    /\ Begins(c, "token", c, <<>>)
    /\ UNCHANGED <<mUpdatePushToken, mPushSpareChannelQueue, sEnablePush, cached, calls, off, asked>>

Failure(c) ==
    /\ sdk[c] = "asked" /\ call[c] = Idle
    /\ sdk' = [sdk EXCEPT ![c] = "off"]
    /\ IF c \in Quiet THEN UNCHANGED <<call, overlapped>> ELSE Begins(c, "poll", None, <<>>)
    /\ UNCHANGED <<mUpdatePushToken, mPushSpareChannelQueue, sEnablePush, cached, calls, off, asked>>

\* onConnectionSuspended
Suspended(c) ==
    /\ c \in Reconnecting /\ sdk[c] = "on" /\ AppCalls
    /\ sdk' = [sdk EXCEPT ![c] = "asked"]
    /\ UNCHANGED <<mUpdatePushToken, mPushSpareChannelQueue, sEnablePush, cached, call, history>>

PollTo(c, channel) ==
    /\ call' = [call EXCEPT ![c] = [@ EXCEPT !.at = "clear", !.channel = channel]]
    /\ UNCHANGED <<mUpdatePushToken, sEnablePush, cached, sdk, calls, history>>

\* Mutants of Poll: the spare stays in the queue; `no spare' is not tested; the switch
\* is asked the wrong way round.
PollPeek(c) ==
    /\ At(c, "poll") /\ mPushSpareChannelQueue # <<>>
    /\ PollTo(c, Head(mPushSpareChannelQueue)) /\ UNCHANGED mPushSpareChannelQueue
PollNull(c) ==
    /\ At(c, "poll") /\ mPushSpareChannelQueue = <<>>
    /\ PollTo(c, None) /\ UNCHANGED mPushSpareChannelQueue
PollInverted(c) ==
    /\ At(c, "poll")
    /\ mPushSpareChannelQueue # <<>>
    /\ mPushSpareChannelQueue' = Tail(mPushSpareChannelQueue)
    /\ Ends(c)
    /\ UNCHANGED <<mUpdatePushToken, sEnablePush, cached, sdk, calls, history>>

\* updateStatus: the spare is gone before initAssignPush looks at sEnablePush.
Poll(c) ==
    /\ At(c, "poll")
    /\ mPushSpareChannelQueue' = IF mPushSpareChannelQueue = <<>> THEN <<>> ELSE Tail(mPushSpareChannelQueue)
    /\ \/ mPushSpareChannelQueue # <<>> /\ sEnablePush /\ PollTo(c, Head(mPushSpareChannelQueue))
       \/ /\ mPushSpareChannelQueue = <<>> \/ ~sEnablePush
          /\ Ends(c)
          /\ UNCHANGED <<mUpdatePushToken, sEnablePush, cached, sdk, calls, history>>

\* setOpenPushEntry
SetToken(c) == At(c, "token") /\ SetField(c, "token", c, "type")
SetType(c)  == At(c, "type") /\ SetField(c, "type", Registered[c], "saveType")

Save(c, step, field, next) ==
    /\ At(c, step)
    /\ IF mUpdatePushToken = Null THEN Ends(c) /\ UNCHANGED cached
       ELSE /\ cached' = [cached EXCEPT ![field] = mUpdatePushToken[field]]
            /\ IF next = "idle" THEN Ends(c) ELSE Goes(c, next)
    /\ UNCHANGED <<mUpdatePushToken, mPushSpareChannelQueue, sEnablePush, sdk, calls, history>>
SaveType(c)  == Save(c, "saveType", "type", "saveToken")
SaveToken(c) == Save(c, "saveToken", "token", "idle")

-------------------------------------------------------------------------------
AppStep == Empty \/ Fill \/ Unregister \/ Forget \/ Clear(App) \/ Name(App) \/ InitChannel(App)
Callback(c) ==
    \/ Poll(c) \/ Clear(c) \/ Name(c) \/ InitChannel(c)
    \/ SetToken(c) \/ SetType(c) \/ SaveType(c) \/ SaveToken(c)
Answer(c) == Success(c) \/ Failure(c)

Next ==
    \/ \E c \in Channels : \E spares \in Arrays : InitAssignPush(c, spares)
    \/ \E b \in BOOLEAN : SetEnablePush(b)
    \/ UnRegisterPush \/ AppStep
    \/ \E c \in Channels : Answer(c) \/ Suspended(c) \/ Callback(c)

Spec == Init /\ [][Next]_vars

\* Threads run, and a library that was asked answers; one that is quiet may do so by
\* failing, which nobody hears.
FairSpec ==
    /\ Spec
    /\ WF_vars(AppStep)
    /\ \A c \in Channels : WF_vars(Callback(c)) /\ WF_vars(Answer(c))

-------------------------------------------------------------------------------
(* Properties *)

Resting == \A a \in Actors : call[a] = Idle
Settled == Resting /\ \A c \in Channels : sdk[c] # "asked"

\* `The type and token of the last successful registration are cached' (PushSdkManager
\* 71): the cached type is that of the channel whose token is cached.
CachedIsRegistered == Resting /\ ~overlapped => cached.token = cached.type

\* Unless two methods overlapped, neither the entry at rest nor what is cached of it
\* holds the token of one channel under the type of another.
EntryMatches ==
    /\ CachedIsRegistered
    /\ Resting /\ ~overlapped /\ mUpdatePushToken # Null =>
          mUpdatePushToken.token \in {None, mUpdatePushToken.type}

\* However answers, lost connections and calls of the app interleave: when all is
\* quiet, a channel is on or no spare is left, unless push was disabled or
\* unregistered, or a quiet channel was tried.
NobodyGivesUp ==
    Settled /\ asked # {} /\ asked \cap Quiet = {} /\ ~off =>
        mPushSpareChannelQueue = <<>> \/ \E c \in Channels : sdk[c] = "on"

\* The fail-over ends: after finitely many answers nobody is asked any more.
FailoverEnds == <>[]Settled
===============================================================================
