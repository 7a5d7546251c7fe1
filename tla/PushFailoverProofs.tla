-------------------------- MODULE PushFailoverProofs --------------------------
(***************************************************************************)
(* What the choice of a push service guarantees for any channels, arrays of *)
(* spares and calls: types, that the fail-over does not stop while there is *)
(* something to try, and that the entry matches when methods do not overlap.*)
(***************************************************************************)
EXTENDS PushFailover, TLAPS

Method == [at : Steps \cup {"idle"}, channel : Channels \cup {None}, rest : Seq(Channels)]

\* A method under way has what it needs; one that is over leaves nothing.
MethodOK(m) ==
    /\ m.at \in {"empty", "fill", "clear", "name", "init", "token", "type"} => m.channel # None
    /\ m.at \in {"empty", "fill"} => m.rest # <<>>
    /\ m.at = "idle" => m = Idle

CallType == call \in [Actors -> Method] /\ \A a \in Actors : MethodOK(call[a])
DataType ==
    /\ mUpdatePushToken \in Entries \cup {Null} /\ cached \in Entries
    /\ mPushSpareChannelQueue \in Seq(Channels)
    /\ sEnablePush \in BOOLEAN /\ overlapped \in BOOLEAN /\ off \in BOOLEAN
    /\ sdk \in [Channels -> {"off", "asked", "on"}]
    /\ calls \in 0..MaxCalls /\ asked \subseteq Channels

TypeInv == CallType /\ DataType

-------------------------------------------------------------------------------
(* Methods *)

LEMMA Names ==
  /\ App \in Actors /\ Channels \subseteq Actors /\ App \notin Channels /\ None \notin Channels
  /\ Null \notin Entries
  /\ Idle \in Method /\ MethodOK(Idle) /\ Idle.at = "idle"
<1>1. <<>> \in Seq(Channels)
  OBVIOUS
<1> QED
  BY <1>1, PushAssumption DEF Actors, Entries, Idle, Method, MethodOK

LEMMA Methods ==
  ASSUME TypeInv
  PROVE  call \in [Actors -> Method] /\ \A a \in Actors : call[a] \in Method
  BY DEF TypeInv, CallType

LEMMA MethodChange ==
  ASSUME TypeInv, NEW a \in Actors, NEW m \in Method, MethodOK(m), call' = [call EXCEPT ![a] = m]
  PROVE  /\ call' \in [Actors -> Method] /\ \A b \in Actors : MethodOK(call'[b])
         /\ call'[a] = m /\ \A b \in Actors : b # a => call'[b] = call[b]
<1>1. call'[a] = m /\ \A b \in Actors : b # a => call'[b] = call[b]
  BY Methods
<1>2. call' \in [Actors -> Method]
  BY Methods
<1> QED
  BY <1>1, <1>2 DEF TypeInv, CallType

LEMMA GoesFacts ==
  ASSUME TypeInv, NEW a \in Actors, NEW step \in Steps, Goes(a, step),
         step \in {"empty", "fill", "clear", "name", "init", "token", "type"} =>
             call[a].channel # None,
         step \in {"empty", "fill"} => call[a].rest # <<>>
  PROVE  /\ call' \in [Actors -> Method] /\ \A b \in Actors : MethodOK(call'[b])
         /\ call'[a].at = step /\ call'[a].channel = call[a].channel
         /\ \A b \in Actors : b # a => call'[b] = call[b]
<1>1. PICK m : m = [call[a] EXCEPT !.at = step]
  OBVIOUS
<1>2. call[a] \in Method
  BY Methods
<1>3. m \in Method /\ m.at = step /\ m.channel = call[a].channel /\ m.rest = call[a].rest
  BY <1>1, <1>2 DEF Method
<1>4. MethodOK(m)
  BY <1>3 DEF MethodOK, Steps
<1>5. call' = [call EXCEPT ![a] = m]
  BY <1>1 DEF Goes
<1> QED
  BY <1>3, <1>4, <1>5, MethodChange

LEMMA EndsFacts ==
  ASSUME TypeInv, NEW a \in Actors, Ends(a)
  PROVE  /\ call' \in [Actors -> Method] /\ \A b \in Actors : MethodOK(call'[b])
         /\ call'[a] = Idle /\ \A b \in Actors : b # a => call'[b] = call[b]
  BY Names, MethodChange DEF Ends

LEMMA BeginsFacts ==
  ASSUME TypeInv, NEW a \in Actors, NEW step \in Steps, NEW c \in Channels \cup {None},
         NEW rest \in Seq(Channels), Begins(a, step, c, rest),
         step \in {"empty", "fill", "clear", "name", "init", "token", "type"} => c # None,
         step \in {"empty", "fill"} => rest # <<>>
  PROVE  /\ call' \in [Actors -> Method] /\ \A b \in Actors : MethodOK(call'[b])
         /\ call[a] = Idle /\ call'[a].at = step /\ call'[a].channel = c
         /\ \A b \in Actors : b # a => call'[b] = call[b]
         /\ overlapped' \in BOOLEAN
         /\ overlapped' = (overlapped \/ \E b \in Actors : call[b] # Idle)
<1>1. PICK m : m = [at |-> step, channel |-> c, rest |-> rest]
  OBVIOUS
<1>2. m \in Method /\ MethodOK(m) /\ m.at = step /\ m.channel = c
  BY <1>1 DEF Method, MethodOK, Steps
<1>3. call' = [call EXCEPT ![a] = m] /\ call[a] = Idle
  BY <1>1 DEF Begins
<1>4. overlapped' = (overlapped \/ \E b \in Actors : call[b] # Idle)
  BY DEF Begins
<1>5. overlapped' \in BOOLEAN
  BY <1>4
<1> QED
  BY <1>2, <1>3, <1>4, <1>5, MethodChange

-------------------------------------------------------------------------------
(* Types, and that something goes on *)

Trying == \E a \in Actors : call[a].at \in {"empty", "fill", "clear", "name", "init", "poll"}

\* While push is neither disabled nor unregistered there is an entry, whatever is on was
\* asked, and a spare that is left has a channel or a method before it.
OnInv ==
    ~off =>
       /\ sEnablePush /\ mUpdatePushToken # Null
       /\ \A a \in Actors : call[a].at \notin {"unregister", "forget"}
       /\ \A c \in Channels : sdk[c] # "off" => c \in asked
       /\ asked \cap Quiet = {} =>
             \/ mPushSpareChannelQueue = <<>> \/ asked = {} \/ Trying
             \/ \E c \in Channels : sdk[c] # "off"

LEMMA InitTypes == Init => TypeInv /\ OnInv
<1> SUFFICES ASSUME Init PROVE TypeInv /\ OnInv
  OBVIOUS
<1>1. CallType
  BY Names DEF Init, CallType
<1>2. DataType
  <2>1. <<>> \in Seq(Channels) /\ 0 \in 0..MaxCalls
    BY PushAssumption
  <2> QED
    BY <2>1 DEF Init, DataType, Entries
<1>3. \A a \in Actors : call[a].at = "idle"
  BY Names DEF Init
<1>4. mUpdatePushToken # Null
  BY Names DEF Init, Entries
<1>5. OnInv
  BY <1>3, <1>4 DEF Init, OnInv
<1> QED
  BY <1>1, <1>2, <1>5 DEF TypeInv

LEMMA CallsType == ASSUME TypeInv, AppCalls PROVE calls' \in 0..MaxCalls
<1>1. calls \in 0..MaxCalls /\ MaxCalls \in Nat
  BY PushAssumption DEF TypeInv, DataType
<1> QED
  BY <1>1 DEF AppCalls

LEMMA InitAssignPushOn ==
  ASSUME TypeInv, OnInv, NEW c \in Channels, NEW spares \in Arrays, InitAssignPush(c, spares)
  PROVE  TypeInv' /\ OnInv'
<1>1. PICK step : step = IF spares = <<>> THEN "clear" ELSE "empty"
  OBVIOUS
<1>2. step \in Steps /\ spares \in Seq(Channels) /\ c # None
  BY <1>1, Names, PushAssumption DEF Steps
<1>3. /\ CallType' /\ overlapped' \in BOOLEAN /\ call'[App].at = step
      /\ \A b \in Actors : b # App => call'[b] = call[b]
  BY <1>1, <1>2, Names, BeginsFacts DEF InitAssignPush, CallType
<1>4. TypeInv'
  BY <1>3, CallsType DEF TypeInv, InitAssignPush, DataType
<1>5. Trying'
  BY <1>1, <1>3, Names DEF Trying
<1>6. OnInv'
  BY <1>1, <1>3, <1>5, Names DEF InitAssignPush, OnInv
<1> QED
  BY <1>4, <1>6

LEMMA EmptyOn == ASSUME TypeInv, OnInv, Empty PROVE TypeInv' /\ OnInv'
<1>1. /\ CallType' /\ call'[App].at = "fill"
      /\ \A b \in Actors : b # App => call'[b] = call[b]
  <2>1. call[App].rest # <<>> /\ call[App].channel # None
    BY Names DEF Empty, At, TypeInv, CallType, MethodOK
  <2> QED
    BY <2>1, Names, GoesFacts DEF Empty, CallType, Steps
<1>2. <<>> \in Seq(Channels)
  OBVIOUS
<1>3. TypeInv'
  BY <1>1, <1>2 DEF TypeInv, Empty, DataType, history
<1>4. OnInv'
  BY <1>1 DEF Empty, OnInv, history
<1> QED
  BY <1>3, <1>4

LEMMA FillOn == ASSUME TypeInv, OnInv, Fill PROVE TypeInv' /\ OnInv'
<1>1. /\ call[App] \in Method /\ call[App].rest \in Seq(Channels)
      /\ call[App].rest # <<>> /\ call[App].channel # None
  BY Names, Methods DEF Fill, At, TypeInv, CallType, MethodOK, Method
<1>2. PICK rest : rest = call[App].rest
  OBVIOUS
<1>3. Head(rest) \in Channels /\ Tail(rest) \in Seq(Channels)
  BY <1>1, <1>2
<1>4. PICK m : m = [call[App] EXCEPT !.rest = Tail(rest),
                                     !.at = IF Tail(rest) = <<>> THEN "clear" ELSE "fill"]
  OBVIOUS
<1>5. m \in Method /\ m.at = (IF Tail(rest) = <<>> THEN "clear" ELSE "fill")
      /\ m.rest = Tail(rest) /\ m.channel = call[App].channel
  BY <1>1, <1>3, <1>4 DEF Method, Steps
<1>6. MethodOK(m)
  BY <1>1, <1>5 DEF MethodOK
<1>7. call' = [call EXCEPT ![App] = m]
  BY <1>2, <1>4, Names, Methods DEF Fill
<1>8. /\ CallType' /\ call'[App] = m /\ \A b \in Actors : b # App => call'[b] = call[b]
  BY <1>5, <1>6, <1>7, Names, MethodChange DEF CallType
<1>9. mPushSpareChannelQueue' \in Seq(Channels)
  BY <1>2, <1>3 DEF TypeInv, Fill, DataType
<1>10. TypeInv'
  BY <1>8, <1>9 DEF TypeInv, Fill, DataType, history
<1>11. Trying'
  BY <1>5, <1>8, Names DEF Trying
<1>12. OnInv'
  <2>1. m.at \notin {"unregister", "forget"}
    BY <1>5
  <2>2. \A a \in Actors : call'[a].at \notin {"unregister", "forget"} \/ call'[a] = call[a]
    BY <1>8, <2>1
  <2> QED
    BY <1>11, <2>2 DEF Fill, OnInv, history
<1> QED
  BY <1>10, <1>12

LEMMA SetEnablePushOn ==
  ASSUME TypeInv, OnInv, NEW b \in BOOLEAN, SetEnablePush(b) PROVE TypeInv' /\ OnInv'
<1>1. TypeInv'
  BY CallsType DEF TypeInv, CallType, DataType, SetEnablePush
<1>2. ~off' => ~off /\ sEnablePush'
  BY DEF TypeInv, SetEnablePush, DataType
<1>3. OnInv'
  BY <1>2 DEF SetEnablePush, OnInv, Trying
<1> QED
  BY <1>1, <1>3 DEF TypeInv

LEMMA UnRegisterPushOn == ASSUME TypeInv, OnInv, UnRegisterPush PROVE TypeInv' /\ OnInv'
<1>1. CallType' /\ overlapped' \in BOOLEAN
  <2>1. <<>> \in Seq(Channels) /\ "unregister" \in Steps
    BY DEF Steps
  <2> QED
    BY <2>1, Names, BeginsFacts DEF UnRegisterPush, CallType
<1>2. DataType'
  BY <1>1, CallsType DEF TypeInv, UnRegisterPush, DataType
<1>3. OnInv'
  BY DEF UnRegisterPush, OnInv
<1> QED
  BY <1>1, <1>2, <1>3 DEF TypeInv

LEMMA UnregisterOn ==
  ASSUME TypeInv, OnInv, Unregister \/ Forget PROVE TypeInv' /\ OnInv'
<1>1. off /\ off'
  <2>1. off' = off
    BY DEF Unregister, Forget, history
  <2>2. off \in BOOLEAN
    BY DEF TypeInv, DataType
  <2> QED
    BY <2>1, <2>2, Names DEF OnInv, Unregister, Forget, At
<1>2. OnInv'
  BY <1>1 DEF OnInv
<1>3. CASE Unregister
  <2>1. CallType'
    BY <1>3, Names, GoesFacts DEF Unregister, CallType, Steps
  <2>2. sdk' \in [Channels -> {"off", "asked", "on"}]
    BY <1>3 DEF TypeInv, Unregister, DataType, Entries
  <2> QED
    BY <1>2, <1>3, <2>1, <2>2 DEF TypeInv, Unregister, DataType, history
<1>4. CASE Forget
  <2>1. CallType'
    BY <1>4, Names, EndsFacts DEF Forget, CallType
  <2> QED
    BY <1>2, <1>4, <2>1 DEF TypeInv, Forget, DataType, history
<1> QED
  BY <1>3, <1>4

\* Setting a field of the entry
LEMMA SetFieldType ==
  ASSUME TypeInv, NEW a \in Actors, NEW field \in {"type", "token"},
         NEW value \in Channels \cup {None}, NEW step \in Steps, SetField(a, field, value, step),
         step \notin {"empty", "fill", "token"},
         step \in {"clear", "name", "init", "type"} => call[a].channel # None
  PROVE  /\ TypeInv'
         /\ UNCHANGED <<mPushSpareChannelQueue, sEnablePush, cached, sdk, calls, history>>
         /\ \A b \in Actors : b # a => call'[b] = call[b]
         /\ \/ /\ mUpdatePushToken = Null /\ call'[a] = Idle /\ UNCHANGED mUpdatePushToken
            \/ /\ mUpdatePushToken # Null /\ mUpdatePushToken' \in Entries
               /\ mUpdatePushToken' = [mUpdatePushToken EXCEPT ![field] = value]
               /\ call'[a].at = step /\ call'[a].channel = call[a].channel
<1>1. CASE mUpdatePushToken = Null
  <2>1. Ends(a) /\ UNCHANGED mUpdatePushToken
    BY <1>1 DEF SetField
  <2>2. CallType' /\ call'[a] = Idle /\ \A b \in Actors : b # a => call'[b] = call[b]
    BY <2>1, EndsFacts DEF CallType
  <2> QED
    BY <1>1, <2>1, <2>2 DEF SetField, TypeInv, DataType, history
<1>2. CASE mUpdatePushToken # Null
  <2>1. Goes(a, step) /\ mUpdatePushToken' = [mUpdatePushToken EXCEPT ![field] = value]
    BY <1>2 DEF SetField
  <2>2. /\ CallType' /\ call'[a].at = step /\ call'[a].channel = call[a].channel
        /\ \A b \in Actors : b # a => call'[b] = call[b]
    BY <2>1, GoesFacts DEF CallType
  <2>3. mUpdatePushToken' \in Entries
    BY <1>2, <2>1 DEF TypeInv, DataType, Entries
  <2> QED
    BY <1>2, <2>1, <2>2, <2>3 DEF SetField, TypeInv, DataType, history
<1> QED
  BY <1>1, <1>2

LEMMA ClearNameOn ==
  ASSUME TypeInv, OnInv, NEW a \in Actors, Clear(a) \/ Name(a) PROVE TypeInv' /\ OnInv'
<1>1. call[a].channel \in Channels
  BY Methods DEF Clear, Name, At, TypeInv, CallType, MethodOK, Method
<1>2. PICK field \in {"type", "token"}, value \in Channels \cup {None}, step \in {"name", "init"} :
         SetField(a, field, value, step)
  BY <1>1 DEF Clear, Name
<1>3. /\ TypeInv'
      /\ UNCHANGED <<mPushSpareChannelQueue, sEnablePush, cached, sdk, calls, history>>
      /\ \A b \in Actors : b # a => call'[b] = call[b]
      /\ \/ /\ mUpdatePushToken = Null
         \/ /\ mUpdatePushToken' # Null
            /\ call'[a].at = step
  BY <1>1, <1>2, Names, SetFieldType DEF Steps
<1>4. ASSUME ~off' PROVE Trying' /\ call'[a].at = step
  BY <1>3, <1>4 DEF OnInv, Trying, history
<1>5. OnInv'
  BY <1>3, <1>4 DEF OnInv, history
<1> QED
  BY <1>3, <1>5

LEMMA InitChannelOn ==
  ASSUME TypeInv, OnInv, NEW a \in Actors, InitChannel(a) PROVE TypeInv' /\ OnInv'
<1>1. PICK c \in Channels : c = call[a].channel
  BY Methods DEF InitChannel, At, TypeInv, CallType, MethodOK, Method
<1>2. /\ sdk' = [sdk EXCEPT ![c] = "asked"] /\ asked' = asked \cup {c} /\ Ends(a)
      /\ UNCHANGED <<mUpdatePushToken, mPushSpareChannelQueue, sEnablePush, cached, calls,
                     overlapped, off>>
  BY <1>1 DEF InitChannel
<1>3. CallType' /\ call'[a] = Idle /\ \A b \in Actors : b # a => call'[b] = call[b]
  BY <1>2, EndsFacts DEF CallType
<1>4. TypeInv'
  BY <1>2, <1>3 DEF TypeInv, DataType
<1>5. sdk'[c] = "asked" /\ \A d \in Channels : d # c => sdk'[d] = sdk[d]
  BY <1>2 DEF TypeInv, DataType
<1>6. OnInv'
  BY <1>2, <1>3, <1>5, Names DEF OnInv
<1> QED
  BY <1>4, <1>6

LEMMA SuccessOn ==
  ASSUME TypeInv, OnInv, NEW c \in Channels, Success(c) PROVE TypeInv' /\ OnInv'
<1>1. /\ CallType' /\ call'[c].at = "token" /\ overlapped' \in BOOLEAN
      /\ \A b \in Actors : b # c => call'[b] = call[b]
  <2>1. <<>> \in Seq(Channels) /\ "token" \in Steps /\ c \in Actors /\ c # None
    BY Names DEF Steps
  <2> QED
    BY <2>1, BeginsFacts DEF Success, CallType
<1>2. TypeInv'
  BY <1>1 DEF Success, TypeInv, DataType
<1>3. sdk'[c] = "on" /\ sdk[c] = "asked" /\ \A d \in Channels : d # c => sdk'[d] = sdk[d]
  BY DEF Success, TypeInv, DataType
<1>4. OnInv'
  BY <1>1, <1>3 DEF Success, OnInv
<1> QED
  BY <1>2, <1>4

LEMMA FailureOn ==
  ASSUME TypeInv, OnInv, NEW c \in Channels, Failure(c) PROVE TypeInv' /\ OnInv'
<1>1. /\ sdk[c] = "asked" /\ sdk'[c] = "off" /\ \A d \in Channels : d # c => sdk'[d] = sdk[d]
      /\ sdk' \in [Channels -> {"off", "asked", "on"}]
  BY DEF Failure, TypeInv, DataType
<1>2. CASE c \in Quiet
  <2>1. TypeInv'
    BY <1>1, <1>2 DEF Failure, TypeInv, CallType, DataType
  <2>2. ~off => c \in asked
    BY <1>1 DEF OnInv
  <2>3. OnInv'
    BY <1>1, <1>2, <2>2 DEF Failure, OnInv
  <2> QED
    BY <2>1, <2>3
<1>3. CASE c \notin Quiet
  <2>1. /\ CallType' /\ call'[c].at = "poll" /\ overlapped' \in BOOLEAN
        /\ \A b \in Actors : b # c => call'[b] = call[b]
    <3>1. <<>> \in Seq(Channels) /\ "poll" \in Steps /\ c \in Actors
      BY Names DEF Steps
    <3> QED
      BY <1>3, <3>1, BeginsFacts DEF Failure, CallType
  <2>2. TypeInv'
    BY <1>1, <2>1 DEF Failure, TypeInv, DataType
  <2>3. Trying'
    BY <2>1, Names DEF Trying
  <2>4. OnInv'
    BY <1>1, <2>1, <2>3 DEF Failure, OnInv
  <2> QED
    BY <2>2, <2>4
<1> QED
  BY <1>2, <1>3

LEMMA SuspendedOn ==
  ASSUME TypeInv, OnInv, NEW c \in Channels, Suspended(c) PROVE TypeInv' /\ OnInv'
<1>1. TypeInv'
  BY CallsType DEF Suspended, TypeInv, CallType, DataType, history
<1>2. sdk[c] = "on" /\ sdk'[c] = "asked" /\ \A d \in Channels : d # c => sdk'[d] = sdk[d]
  BY DEF Suspended, TypeInv, DataType
<1>3. OnInv'
  BY <1>2 DEF Suspended, OnInv, history
<1> QED
  BY <1>1, <1>3

LEMMA PollOn ==
  ASSUME TypeInv, OnInv, NEW c \in Channels, Poll(c) PROVE TypeInv' /\ OnInv'
<1>1. /\ mPushSpareChannelQueue \in Seq(Channels) /\ c \in Actors
      /\ mPushSpareChannelQueue' \in Seq(Channels)
      /\ UNCHANGED <<mUpdatePushToken, sEnablePush, cached, sdk, calls, history>>
  <2>1. mPushSpareChannelQueue \in Seq(Channels)
    BY DEF TypeInv, DataType
  <2> QED
    BY <2>1, Names DEF Poll, PollTo
<1>2. CASE mPushSpareChannelQueue # <<>> /\ sEnablePush /\ PollTo(c, Head(mPushSpareChannelQueue))
  <2>1. PICK d \in Channels : d = Head(mPushSpareChannelQueue)
    BY <1>1, <1>2
  <2>2. PICK m : m = [call[c] EXCEPT !.at = "clear", !.channel = d]
    OBVIOUS
  <2>3. call[c] \in Method /\ call[c].at = "poll"
    BY <1>1, Methods DEF Poll, At
  <2>4. m \in Method /\ m.at = "clear" /\ m.channel = d
    BY <2>2, <2>3 DEF Method, Steps
  <2>5. MethodOK(m)
    BY <2>4, Names DEF MethodOK
  <2>6. call' = [call EXCEPT ![c] = m]
    BY <1>2, <2>1, <2>2 DEF PollTo
  <2>7. CallType' /\ call'[c].at = "clear" /\ \A b \in Actors : b # c => call'[b] = call[b]
    BY <1>1, <2>4, <2>5, <2>6, MethodChange DEF CallType
  <2>8. TypeInv'
    BY <1>1, <2>7 DEF TypeInv, DataType, history
  <2>9. Trying'
    BY <1>1, <2>7 DEF Trying
  <2>10. OnInv'
    BY <1>1, <2>7, <2>9 DEF OnInv, history
  <2> QED
    BY <2>8, <2>10
<1>3. CASE (mPushSpareChannelQueue = <<>> \/ ~sEnablePush) /\ Ends(c)
  <2>1. CallType' /\ call'[c] = Idle /\ \A b \in Actors : b # c => call'[b] = call[b]
    BY <1>1, <1>3, EndsFacts DEF CallType
  <2>2. TypeInv'
    BY <1>1, <2>1 DEF TypeInv, DataType, history
  <2>3. ~off => mPushSpareChannelQueue' = <<>>
    BY <1>3 DEF OnInv, Poll
  <2>4. OnInv'
    BY <1>1, <2>1, <2>3, Names DEF OnInv, history
  <2> QED
    BY <2>2, <2>4
<1> QED
  BY <1>2, <1>3 DEF Poll

LEMMA SetOn ==
  ASSUME TypeInv, OnInv, NEW c \in Channels, SetToken(c) \/ SetType(c) PROVE TypeInv' /\ OnInv'
<1>1. c \in Actors /\ Registered[c] \in Channels
  BY Names, PushAssumption
<1>2. call[c].at = "token" => call[c].channel # None
  BY <1>1 DEF TypeInv, CallType, MethodOK
<1>3. PICK field \in {"type", "token"}, value \in Channels, step \in {"type", "saveType"} :
         SetField(c, field, value, step) /\ (step = "type" => call[c].at = "token")
         /\ call[c].at \in {"token", "type"}
  BY <1>1 DEF SetToken, SetType, At
<1>4. /\ TypeInv'
      /\ UNCHANGED <<mPushSpareChannelQueue, sEnablePush, cached, sdk, calls, history>>
      /\ \A b \in Actors : b # c => call'[b] = call[b]
      /\ \/ mUpdatePushToken = Null
         \/ mUpdatePushToken' # Null /\ call'[c].at = step
  <2>1. step \in Steps /\ value \in Channels \cup {None} /\ step \notin {"empty", "fill", "token"}
    BY DEF Steps
  <2>2. step \in {"clear", "name", "init", "type"} => call[c].channel # None
    BY <1>2, <1>3
  <2>3. SetField(c, field, value, step)
    BY <1>3
  <2>4. /\ TypeInv'
        /\ UNCHANGED <<mPushSpareChannelQueue, sEnablePush, cached, sdk, calls, history>>
        /\ \A b \in Actors : b # c => call'[b] = call[b]
        /\ \/ mUpdatePushToken = Null
           \/ mUpdatePushToken' \in Entries /\ call'[c].at = step
    BY <1>1, <2>1, <2>2, <2>3, SetFieldType
  <2> QED
    BY <2>4, Names
<1>5. Trying => Trying' \/ mUpdatePushToken = Null
  BY <1>1, <1>3, <1>4 DEF Trying
<1>6. OnInv'
  BY <1>3, <1>4, <1>5 DEF OnInv, history
<1> QED
  BY <1>4, <1>6

LEMMA SaveOn ==
  ASSUME TypeInv, OnInv, NEW c \in Channels, SaveType(c) \/ SaveToken(c) PROVE TypeInv' /\ OnInv'
<1>1. c \in Actors /\ call[c].at \in {"saveType", "saveToken"}
      /\ UNCHANGED <<mUpdatePushToken, mPushSpareChannelQueue, sEnablePush, sdk, calls, history>>
  BY Names DEF SaveType, SaveToken, Save, At
<1>2. Ends(c) \/ Goes(c, "saveToken")
  BY DEF SaveType, SaveToken, Save
<1>3. /\ CallType' /\ \A b \in Actors : b # c => call'[b] = call[b]
      /\ call'[c].at \in {"idle", "saveToken"}
  <2>1. CASE Ends(c)
    BY <1>1, <2>1, Names, EndsFacts DEF CallType
  <2>2. CASE Goes(c, "saveToken")
    BY <1>1, <2>2, GoesFacts DEF CallType, Steps
  <2> QED
    BY <1>2, <2>1, <2>2
<1>4. cached' \in Entries
  BY DEF SaveType, SaveToken, Save, TypeInv, DataType, Entries
<1>5. TypeInv'
  BY <1>1, <1>3, <1>4 DEF TypeInv, DataType, history
<1>6. Trying => Trying'
  BY <1>1, <1>3 DEF Trying
<1>7. OnInv'
  BY <1>1, <1>3, <1>6 DEF OnInv, history
<1> QED
  BY <1>5, <1>7

LEMMA NextOn == TypeInv /\ OnInv /\ [Next]_vars => TypeInv' /\ OnInv'
<1> SUFFICES ASSUME TypeInv, OnInv, [Next]_vars PROVE TypeInv' /\ OnInv'
  OBVIOUS
<1>1. CASE \E c \in Channels : \E spares \in Arrays : InitAssignPush(c, spares)
  BY <1>1, InitAssignPushOn
<1>2. CASE (\E b \in BOOLEAN : SetEnablePush(b)) \/ UnRegisterPush
  BY <1>2, SetEnablePushOn, UnRegisterPushOn
<1>3. CASE AppStep
  BY <1>3, Names, EmptyOn, FillOn, UnregisterOn, ClearNameOn, InitChannelOn DEF AppStep
<1>4. CASE \E c \in Channels : Answer(c) \/ Suspended(c)
  BY <1>4, SuccessOn, FailureOn, SuspendedOn DEF Answer
<1>5. CASE \E c \in Channels : Callback(c)
  BY <1>5, Names, PollOn, ClearNameOn, InitChannelOn, SetOn, SaveOn DEF Callback
<1>6. CASE UNCHANGED vars
  BY <1>6 DEF vars, history, TypeInv, CallType, DataType, OnInv, Trying
<1> QED
  BY <1>1, <1>2, <1>3, <1>4, <1>5, <1>6 DEF Next

\* In every state in which push is on, something keeps the fail-over going, or no spare is
\* left (PushSdkManager 50-156).
THEOREM OnInductive == Spec => [](TypeInv /\ OnInv)
BY InitTypes, NextOn, PTL DEF Spec

\* A method that is under way knows its channel, whatever answers come in between.
THEOREM PushTypeCorrect == Spec => []TypeOK
<1>1. TypeInv => TypeOK
  BY DEF TypeInv, CallType, DataType, TypeOK, Method, MethodOK
<1> QED
  BY <1>1, OnInductive, PTL

\* When all is quiet a channel is on or no spare is left, for any channels and spares and
\* whatever order the answers come in.
THEOREM SparesAreTried == Spec => []NobodyGivesUp
<1>1. TypeInv /\ OnInv => NobodyGivesUp
  <2> SUFFICES ASSUME TypeInv, OnInv, Settled, asked # {}, asked \cap Quiet = {}, ~off
               PROVE  mPushSpareChannelQueue = <<>> \/ \E c \in Channels : sdk[c] = "on"
    BY DEF NobodyGivesUp
  <2>1. ~Trying
    BY Names DEF Trying, Settled, Resting
  <2>2. \A c \in Channels : sdk[c] # "off" => sdk[c] = "on"
    BY DEF Settled, TypeInv, DataType
  <2> QED
    BY <2>1, <2>2 DEF OnInv
<1> QED
  BY <1>1, OnInductive, PTL

-------------------------------------------------------------------------------
(* The entry *)

\* Every receiver opens the entry under its own channel; GetuiReceiver does not.
OwnTypes == \A c \in Channels : Registered[c] = c

Matched == mUpdatePushToken # Null => mUpdatePushToken.token \in {None, mUpdatePushToken.type}

\* What holds of the entry while no method but that of a is under way
Hold(a) ==
    /\ call[a].at # "saveToken" => cached.token = cached.type
    /\ call[a].at \in {"idle", "empty", "fill", "clear", "poll", "unregister", "forget", "token"} =>
          Matched
    /\ call[a].at \in {"name", "init"} => (mUpdatePushToken # Null => mUpdatePushToken.token = None)
    /\ call[a].at = "type" => mUpdatePushToken # Null /\ mUpdatePushToken.token = a
    /\ call[a].at \in {"saveType", "saveToken"} =>
          mUpdatePushToken # Null /\ mUpdatePushToken.token = mUpdatePushToken.type
    /\ call[a].at = "saveToken" => cached.type = mUpdatePushToken.type

EntryInv ==
    ~overlapped => \E a \in Actors : Hold(a) /\ \A b \in Actors : b # a => call[b] = Idle

LEMMA InitEntry == Init => EntryInv
<1> SUFFICES ASSUME Init PROVE EntryInv
  OBVIOUS
<1>1. \A b \in Actors : call[b] = Idle
  BY DEF Init
<1>2. Hold(App)
  BY <1>1, Names DEF Init, Hold, Matched
<1> QED
  BY <1>1, <1>2, Names DEF EntryInv

LEMMA OneGoesOn ==
  ASSUME EntryInv, NEW a \in Actors, call[a] # Idle, UNCHANGED overlapped,
         \A b \in Actors : b # a => call'[b] = call[b], ~overlapped /\ Hold(a) => Hold(a)'
  PROVE  EntryInv'
<1> SUFFICES ASSUME ~overlapped PROVE EntryInv'
  BY DEF EntryInv
<1>1. Hold(a) /\ \A b \in Actors : b # a => call[b] = Idle
  BY DEF EntryInv
<1> QED
  BY <1>1 DEF EntryInv

LEMMA OneBegins ==
  ASSUME EntryInv, NEW a \in Actors, \A b \in Actors : b # a => call'[b] = call[b],
         overlapped' = (overlapped \/ \E b \in Actors : call[b] # Idle),
         call'[a].at \in {"empty", "clear", "poll", "unregister", "token"},
         UNCHANGED <<mUpdatePushToken, cached>>
  PROVE  EntryInv'
<1> SUFFICES ASSUME ~overlapped' PROVE EntryInv'
  BY DEF EntryInv
<1>1. ~overlapped /\ \A b \in Actors : call[b] = Idle
  OBVIOUS
<1>2. Matched /\ cached.token = cached.type
  BY <1>1, Names DEF EntryInv, Hold
<1>3. Hold(a)'
  BY <1>2 DEF Hold, Matched
<1> QED
  BY <1>1, <1>3 DEF EntryInv

LEMMA NotIdle ==
  ASSUME TypeInv, NEW a \in Actors PROVE call[a].at # "idle" <=> call[a] # Idle
  BY Names DEF TypeInv, CallType, MethodOK

LEMMA BeginsEntry ==
  ASSUME TypeInv, EntryInv,
         \/ \E c \in Channels : \E spares \in Arrays : InitAssignPush(c, spares)
         \/ UnRegisterPush
         \/ \E c \in Channels : Success(c) \/ Failure(c)
  PROVE  EntryInv'
<1>1. ASSUME NEW c \in Channels, NEW spares \in Arrays, InitAssignPush(c, spares) PROVE EntryInv'
  <2>1. PICK step : step = IF spares = <<>> THEN "clear" ELSE "empty"
    OBVIOUS
  <2>2. step \in Steps /\ spares \in Seq(Channels) /\ c # None /\ step \in {"clear", "empty"}
    BY <2>1, Names, PushAssumption DEF Steps
  <2>3. Begins(App, step, c, spares) /\ UNCHANGED <<mUpdatePushToken, cached>>
    BY <1>1, <2>1 DEF InitAssignPush
  <2>4. /\ call'[App].at = step /\ \A b \in Actors : b # App => call'[b] = call[b]
        /\ overlapped' = (overlapped \/ \E b \in Actors : call[b] # Idle)
    BY <2>1, <2>2, <2>3, Names, BeginsFacts
  <2> QED
    BY <2>2, <2>3, <2>4, Names, OneBegins
<1>2. ASSUME NEW a \in Actors, NEW c \in Channels \cup {None}, NEW step \in {"unregister", "poll", "token"},
             Begins(a, step, c, <<>>), UNCHANGED <<mUpdatePushToken, cached>>,
             step = "token" => c # None
      PROVE  EntryInv'
  <2>1. <<>> \in Seq(Channels) /\ step \in Steps /\ step \notin {"empty", "fill", "clear", "name", "init", "type"}
    BY DEF Steps
  <2>2. /\ call'[a].at = step /\ \A b \in Actors : b # a => call'[b] = call[b]
        /\ overlapped' = (overlapped \/ \E b \in Actors : call[b] # Idle)
    BY <1>2, <2>1, BeginsFacts
  <2> QED
    BY <1>2, <2>2, OneBegins
<1>3. UnRegisterPush => EntryInv'
  BY <1>2, Names DEF UnRegisterPush
<1>4. ASSUME NEW c \in Channels, Success(c) PROVE EntryInv'
  BY <1>2, <1>4, Names DEF Success
<1>5. ASSUME NEW c \in Channels, Failure(c) PROVE EntryInv'
  <2>1. CASE c \in Quiet
    BY <1>5, <2>1 DEF Failure, EntryInv, Hold, Matched
  <2>2. CASE c \notin Quiet
    BY <1>2, <1>5, <2>2, Names DEF Failure
  <2> QED
    BY <2>1, <2>2
<1> QED
  BY <1>1, <1>3, <1>4, <1>5

\* The steps that leave the entry and the cache alone
LEMMA QuietEntry ==
  ASSUME TypeInv, EntryInv, NEW a \in Actors,
         \/ a = App /\ (Empty \/ Fill \/ Unregister)
         \/ a \in Channels /\ Poll(a)
         \/ InitChannel(a)
  PROVE  EntryInv'
<1>1. /\ UNCHANGED <<mUpdatePushToken, cached, overlapped>>
      /\ call[a].at \in {"empty", "fill", "unregister", "poll", "init"}
  BY DEF Empty, Fill, Unregister, Poll, PollTo, InitChannel, At, history
<1>2. call[a] # Idle
  BY <1>1, Names
<1>3. /\ \A b \in Actors : b # a => call'[b] = call[b]
      /\ call'[a].at \in {"idle", "fill", "clear", "forget"}
  <2>1. call \in [Actors -> Method] /\ call[a] \in Method /\ Idle.at = "idle"
    BY Methods, Names
  <2>2. CASE a = App /\ Empty
    BY <2>1, <2>2 DEF Empty, Goes, Method
  <2>3. CASE a = App /\ Unregister
    BY <2>1, <2>3 DEF Unregister, Goes, Method
  <2>4. CASE a = App /\ Fill
    <3>1. PICK rest : rest = call[App].rest
      OBVIOUS
    <3>2. PICK m : m = [call[App] EXCEPT !.rest = Tail(rest),
                                         !.at = IF Tail(rest) = <<>> THEN "clear" ELSE "fill"]
      OBVIOUS
    <3>3. m.at \in {"clear", "fill"}
      BY <2>1, <2>4, <3>2 DEF Method
    <3>4. call' = [call EXCEPT ![App] = m]
      BY <2>1, <2>4, <3>1, <3>2 DEF Fill
    <3> QED
      BY <2>1, <2>4, <3>3, <3>4
  <2>5. CASE Ends(a)
    BY <2>1, <2>5 DEF Ends
  <2>6. CASE PollTo(a, Head(mPushSpareChannelQueue))
    BY <2>1, <2>6 DEF PollTo, Method
  <2> QED
    BY <2>2, <2>3, <2>4, <2>5, <2>6 DEF Poll, InitChannel
<1>4. ASSUME Hold(a) PROVE Hold(a)'
  BY <1>1, <1>3, <1>4 DEF Hold, Matched
<1> QED
  BY <1>1, <1>2, <1>3, <1>4, OneGoesOn

LEMMA ForgetEntry == ASSUME TypeInv, EntryInv, Forget PROVE EntryInv'
<1>1. /\ mUpdatePushToken' = Null /\ UNCHANGED <<cached, overlapped>> /\ call[App].at = "forget"
      /\ call'[App] = Idle /\ \A b \in Actors : b # App => call'[b] = call[b]
  BY Names, EndsFacts DEF Forget, At, history
<1>2. Hold(App) => Hold(App)'
  BY <1>1, Names DEF Hold, Matched
<1> QED
  BY <1>1, <1>2, Names, OneGoesOn

LEMMA ClearNameEntry ==
  ASSUME TypeInv, EntryInv, NEW a \in Actors, Clear(a) \/ Name(a) PROVE EntryInv'
<1>1. call[a].channel \in Channels /\ call[a].at \in {"clear", "name"} /\ call[a] # Idle
  BY Methods, Names DEF Clear, Name, At, TypeInv, CallType, MethodOK, Method
<1>2. CASE Clear(a)
  <2>1. SetField(a, "token", None, "name") /\ call[a].at = "clear"
    BY <1>2 DEF Clear, At
  <2>2. /\ UNCHANGED <<cached, overlapped>>
        /\ \A b \in Actors : b # a => call'[b] = call[b]
        /\ \/ /\ mUpdatePushToken = Null /\ call'[a] = Idle /\ UNCHANGED mUpdatePushToken
           \/ /\ mUpdatePushToken # Null /\ call'[a].at = "name"
              /\ mUpdatePushToken' = [mUpdatePushToken EXCEPT !["token"] = None]
    <3>1. /\ "name" \in Steps /\ "token" \in {"type", "token"} /\ None \in Channels \cup {None}
          /\ "name" \notin {"empty", "fill", "token"} /\ call[a].channel # None
      BY <1>1, Names DEF Steps
    <3> QED
      BY <2>1, <3>1, SetFieldType DEF history
  <2>3. mUpdatePushToken \in Entries \cup {Null}
    BY DEF TypeInv, DataType
  <2>4. ASSUME Hold(a) PROVE Hold(a)'
    <3>1. CASE mUpdatePushToken = Null
      BY <2>1, <2>2, <2>4, <3>1, Names DEF Hold, Matched
    <3>2. CASE mUpdatePushToken # Null
      <4>1. mUpdatePushToken'.token = None /\ call'[a].at = "name" /\ cached' = cached
        BY <2>2, <2>3, <3>2 DEF Entries
      <4> QED
        BY <2>1, <2>4, <4>1 DEF Hold
    <3> QED
      BY <3>1, <3>2
  <2> QED
    BY <1>1, <2>2, <2>4, OneGoesOn
<1>3. CASE Name(a)
  <2>1. SetField(a, "type", call[a].channel, "init") /\ call[a].at = "name"
    BY <1>3 DEF Name, At
  <2>2. /\ UNCHANGED <<cached, overlapped>>
        /\ \A b \in Actors : b # a => call'[b] = call[b]
        /\ \/ /\ mUpdatePushToken = Null /\ call'[a] = Idle /\ UNCHANGED mUpdatePushToken
           \/ /\ mUpdatePushToken # Null /\ call'[a].at = "init"
              /\ mUpdatePushToken' = [mUpdatePushToken EXCEPT !["type"] = call[a].channel]
    <3>1. /\ "init" \in Steps /\ "type" \in {"type", "token"} /\ call[a].channel \in Channels \cup {None}
          /\ "init" \notin {"empty", "fill", "token"} /\ call[a].channel # None
      BY <1>1, Names DEF Steps
    <3> QED
      BY <2>1, <3>1, SetFieldType DEF history
  <2>3. mUpdatePushToken \in Entries \cup {Null}
    BY DEF TypeInv, DataType
  <2>4. ASSUME Hold(a) PROVE Hold(a)'
    <3>1. CASE mUpdatePushToken = Null
      BY <2>1, <2>2, <2>4, <3>1, Names DEF Hold, Matched
    <3>2. CASE mUpdatePushToken # Null
      <4>1. mUpdatePushToken'.token = mUpdatePushToken.token /\ call'[a].at = "init" /\ cached' = cached
        BY <2>2, <2>3, <3>2 DEF Entries
      <4> QED
        BY <2>1, <2>4, <3>2, <4>1 DEF Hold
    <3> QED
      BY <3>1, <3>2
  <2> QED
    BY <1>1, <2>2, <2>4, OneGoesOn
<1> QED
  BY <1>2, <1>3

LEMMA SetTokenEntry ==
  ASSUME TypeInv, EntryInv, NEW c \in Channels, SetToken(c) PROVE EntryInv'
<1>1. SetField(c, "token", c, "type") /\ call[c].at = "token" /\ c \in Actors /\ call[c] # Idle
  BY Names DEF SetToken, At
<1>2. /\ UNCHANGED <<cached, overlapped>>
      /\ \A b \in Actors : b # c => call'[b] = call[b]
      /\ \/ /\ mUpdatePushToken = Null /\ call'[c] = Idle /\ UNCHANGED mUpdatePushToken
         \/ /\ mUpdatePushToken # Null /\ call'[c].at = "type" /\ mUpdatePushToken' \in Entries
            /\ mUpdatePushToken' = [mUpdatePushToken EXCEPT !["token"] = c]
  <2>1. /\ "type" \in Steps /\ "token" \in {"type", "token"} /\ c \in Channels \cup {None}
        /\ "type" \notin {"empty", "fill", "token"} /\ call[c].channel # None
    BY <1>1 DEF Steps, TypeInv, CallType, MethodOK
  <2> QED
    BY <1>1, <2>1, SetFieldType DEF history
<1>3. ASSUME Hold(c) PROVE Hold(c)'
  <2>1. CASE mUpdatePushToken = Null
    BY <1>1, <1>2, <1>3, <2>1, Names DEF Hold, Matched
  <2>2. CASE mUpdatePushToken # Null
    <3>1. /\ mUpdatePushToken'.token = c /\ mUpdatePushToken' # Null
          /\ call'[c].at = "type" /\ cached' = cached
      BY <1>2, <2>2, Names DEF TypeInv, DataType, Entries
    <3> QED
      BY <1>1, <1>3, <3>1 DEF Hold
  <2> QED
    BY <2>1, <2>2
<1> QED
  BY <1>1, <1>2, <1>3, OneGoesOn

LEMMA SetTypeEntry ==
  ASSUME OwnTypes, TypeInv, EntryInv, NEW c \in Channels, SetType(c) PROVE EntryInv'
<1>1. SetField(c, "type", c, "saveType") /\ call[c].at = "type" /\ c \in Actors /\ call[c] # Idle
  BY Names DEF SetType, At, OwnTypes
<1>2. /\ UNCHANGED <<cached, overlapped>>
      /\ \A b \in Actors : b # c => call'[b] = call[b]
      /\ \/ mUpdatePushToken = Null
         \/ /\ mUpdatePushToken # Null /\ call'[c].at = "saveType" /\ mUpdatePushToken' \in Entries
            /\ mUpdatePushToken' = [mUpdatePushToken EXCEPT !["type"] = c]
  <2>1. /\ "saveType" \in Steps /\ "type" \in {"type", "token"} /\ c \in Channels \cup {None}
        /\ "saveType" \notin {"empty", "fill", "token", "clear", "name", "init", "type"}
    BY DEF Steps
  <2> QED
    BY <1>1, <2>1, SetFieldType DEF history
<1>3. ASSUME Hold(c) PROVE Hold(c)'
  <2>1. mUpdatePushToken # Null /\ mUpdatePushToken.token = c /\ cached.token = cached.type
    BY <1>1, <1>3 DEF Hold
  <2>2. /\ mUpdatePushToken'.token = c /\ mUpdatePushToken'.type = c /\ mUpdatePushToken' # Null
        /\ call'[c].at = "saveType" /\ cached' = cached
    BY <1>2, <2>1, Names DEF TypeInv, DataType, Entries
  <2> QED
    BY <2>1, <2>2 DEF Hold
<1> QED
  BY <1>1, <1>2, <1>3, OneGoesOn

LEMMA SaveEntry ==
  ASSUME TypeInv, EntryInv, NEW c \in Channels, SaveType(c) \/ SaveToken(c) PROVE EntryInv'
<1>1. /\ UNCHANGED <<mUpdatePushToken, overlapped>> /\ c \in Actors
      /\ call[c].at \in {"saveType", "saveToken"} /\ call[c] # Idle
  BY Names DEF SaveType, SaveToken, Save, At, history
<1>2. Ends(c) \/ Goes(c, "saveToken")
  BY DEF SaveType, SaveToken, Save
<1>3. \A b \in Actors : b # c => call'[b] = call[b]
  BY <1>1, <1>2, EndsFacts, Methods DEF Goes
<1>4. call'[c] = Idle \/ Goes(c, "saveToken")
  BY <1>1, <1>2, EndsFacts
<1>5. ASSUME Hold(c) PROVE Hold(c)'
  <2>1. mUpdatePushToken # Null /\ mUpdatePushToken.token = mUpdatePushToken.type
    BY <1>1, <1>5 DEF Hold
  <2>2. CASE SaveType(c)
    <3>1. /\ call[c].at = "saveType" /\ Goes(c, "saveToken")
          /\ cached' = [cached EXCEPT !["type"] = mUpdatePushToken["type"]]
      BY <2>1, <2>2 DEF SaveType, Save, At
    <3>2. call'[c].at = "saveToken" /\ cached'.type = mUpdatePushToken.type
      BY <1>1, <3>1, Methods DEF Goes, Method, TypeInv, DataType, Entries
    <3> QED
      BY <1>1, <2>1, <3>2 DEF Hold
  <2>3. CASE SaveToken(c)
    <3>1. /\ call[c].at = "saveToken" /\ Ends(c)
          /\ cached' = [cached EXCEPT !["token"] = mUpdatePushToken["token"]]
      BY <2>1, <2>3 DEF SaveToken, Save, At
    <3>2. /\ call'[c] = Idle /\ cached.type = mUpdatePushToken.type
          /\ cached'.type = cached.type /\ cached'.token = mUpdatePushToken.token
      BY <1>1, <1>5, <3>1, EndsFacts DEF Hold, TypeInv, DataType, Entries
    <3> QED
      BY <1>1, <2>1, <3>2, Names DEF Hold, Matched
  <2> QED
    BY <2>2, <2>3
<1> QED
  BY <1>1, <1>3, <1>5, OneGoesOn

LEMMA NextEntry == OwnTypes /\ TypeInv /\ EntryInv /\ [Next]_vars => EntryInv'
<1> SUFFICES ASSUME OwnTypes, TypeInv, EntryInv, [Next]_vars PROVE EntryInv'
  OBVIOUS
<1>1. CASE (\E c \in Channels : \E spares \in Arrays : InitAssignPush(c, spares)) \/ UnRegisterPush
  BY <1>1, BeginsEntry
<1>2. CASE \/ \E b \in BOOLEAN : SetEnablePush(b)
           \/ \E c \in Channels : Suspended(c)
           \/ UNCHANGED vars
  BY <1>2 DEF SetEnablePush, Suspended, vars, history, EntryInv, Hold, Matched
<1>3. CASE AppStep
  BY <1>3, Names, QuietEntry, ForgetEntry, ClearNameEntry DEF AppStep
<1>4. CASE \E c \in Channels : Answer(c)
  BY <1>4, BeginsEntry DEF Answer
<1>5. CASE \E c \in Channels : Callback(c)
  BY <1>5, Names, QuietEntry, ClearNameEntry, SetTokenEntry, SetTypeEntry, SaveEntry DEF Callback
<1> QED
  BY <1>1, <1>2, <1>3, <1>4, <1>5 DEF Next

\* Unless methods overlap, the entry and the cache name one channel, for any channels and
\* calls, when every receiver opens the entry under its own channel.
THEOREM EntryStaysMatched == OwnTypes /\ Spec => []EntryMatches
<1>1. EntryInv => EntryMatches
  <2> SUFFICES ASSUME EntryInv, Resting, ~overlapped
               PROVE  Matched /\ cached.token = cached.type
    BY DEF EntryMatches, CachedIsRegistered, Matched
  <2>1. PICK a \in Actors : Hold(a)
    BY DEF EntryInv
  <2>2. call[a].at = "idle"
    BY Names DEF Resting
  <2> QED
    BY <2>1, <2>2 DEF Hold
<1>2. OwnTypes /\ Spec => []EntryInv
  <2> SUFFICES ASSUME OwnTypes PROVE Spec => []EntryInv
    OBVIOUS
  <2>1. TypeInv /\ EntryInv /\ [Next]_vars => EntryInv'
    BY NextEntry
  <2> QED
    BY <2>1, InitEntry, OnInductive, PTL DEF Spec
<1> QED
  BY <1>1, <1>2, PTL
===============================================================================
