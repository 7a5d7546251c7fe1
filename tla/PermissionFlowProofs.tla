------------------------- MODULE PermissionFlowProofs -------------------------
(***************************************************************************)
(* What PermissionBridge and PermissionFlow guarantee for any requests and *)
(* permissions, any number of broadcasts of other applications and any     *)
(* number of dead activities.  The steps of the flow are steps of the      *)
(* bridge or leave the bridge alone, so that every theorem about           *)
(* PermissionBridge holds of it.                                           *)
(***************************************************************************)
EXTENDS PermissionFlow, TLAPS, SequenceTheorems, FiniteSetTheorems

-------------------------------------------------------------------------------
(* The invariant of the bridge *)

\* isRequesting spans a request from Test to Clear: in this time the executor's
\* thread, the registered messenger and the main thread have the request in turn.
Protocol ==
    /\ isRequesting => seen
    /\ epc # "test" => seen
    /\ epc \in {"take", "register"} => isRequesting /\ messenger = None /\ mpc = "idle"
    /\ messenger # None => isRequesting /\ messenger = mRequest /\ mpc = "idle"
    /\ mpc # "idle" => isRequesting /\ messenger = None /\ mRequest # None

\* Whether mRequest has been taken and not yet answered
Owed == IF epc = "register" \/ messenger # None \/ mpc = "callback" THEN 1 ELSE 0

\* What was submitted is what is answered, then what is owed, then the queue.
OrderInv ==
    /\ Len(submitted) = Len(answered) + Owed + Len(mQueue)
    /\ \A i \in 1..Len(answered) : answered[i] = submitted[i]
    /\ Owed = 1 => mRequest = submitted[Len(answered) + 1]
    /\ \A i \in 1..Len(mQueue) : mQueue[i] = submitted[Len(answered) + Owed + i]

\* No request is submitted twice.
Distinct ==
    \A i, j \in 1..Len(submitted) : submitted[i] = submitted[j] => i = j

\* An activity is started for the current request and for earlier ones.
StartedInv ==
    /\ \A r \in Requests : activity[r] # "none" => r \in Answered \cup {mRequest}
    /\ epc \in {"register", "start"} => activity[mRequest] = "none"
    /\ mRequest # None /\ Owed = 0 => mRequest \in Answered

\* The requests that are answered, or about to be, before their own activity has
\* its result
Early ==
    {r \in inFlight \cup Answered \cup (IF mpc = "callback" THEN {mRequest} ELSE {}) :
        activity[r] # "done"}

EarlyInv == IsFiniteSet(Early) /\ Cardinality(Early) <= foreign

IInv == TypeOK /\ Protocol /\ OrderInv /\ Distinct /\ StartedInv /\ EarlyInv

LEMMA Domains ==
  ASSUME TypeOK
  PROVE  /\ Submitted = {submitted[i] : i \in 1..Len(submitted)}
         /\ Answered = {answered[i] : i \in 1..Len(answered)}
         /\ Len(submitted) \in Nat /\ Len(answered) \in Nat /\ Len(mQueue) \in Nat
         /\ Answered \subseteq Requests
BY DEF TypeOK, Submitted, Answered

\* A set whose members come from a bounded set stays within the bound.
LEMMA FewerEarly ==
  ASSUME NEW E, NEW F, NEW k \in Nat, F \subseteq E, IsFiniteSet(E), Cardinality(E) <= k
  PROVE  IsFiniteSet(F) /\ Cardinality(F) <= k
<1>1. IsFiniteSet(F) /\ Cardinality(F) <= Cardinality(E)
  BY FS_Subset
<1>2. Cardinality(F) \in Nat /\ Cardinality(E) \in Nat
  BY <1>1, FS_CardinalityType
<1> QED
  BY <1>1, <1>2

\* One more member, one more in the bound.
LEMMA OneMoreEarly ==
  ASSUME NEW E, NEW F, NEW x, NEW k \in Nat,
         F \subseteq E \cup {x}, IsFiniteSet(E), Cardinality(E) <= k
  PROVE  IsFiniteSet(F) /\ Cardinality(F) <= k + 1
<1>1. /\ IsFiniteSet(E \cup {x})
      /\ Cardinality(E \cup {x}) = Cardinality(E) \/ Cardinality(E \cup {x}) = Cardinality(E) + 1
  BY FS_AddElement
<1>2. Cardinality(E) \in Nat
  BY FS_CardinalityType
<1>3. Cardinality(E \cup {x}) <= k + 1 /\ k + 1 \in Nat
  BY <1>1, <1>2
<1> QED
  BY <1>1, <1>3, FewerEarly

\* One member is exchanged for another.
LEMMA SwapEarly ==
  ASSUME NEW E, NEW F, NEW x, NEW r \in E, NEW k \in Nat,
         F \subseteq (E \ {r}) \cup {x}, IsFiniteSet(E), Cardinality(E) <= k
  PROVE  IsFiniteSet(F) /\ Cardinality(F) <= k
<1>1. IsFiniteSet(E \ {r}) /\ Cardinality(E \ {r}) = Cardinality(E) - 1
  BY FS_RemoveElement
<1>2. Cardinality(E) \in Nat /\ Cardinality(E \ {r}) \in Nat
  BY <1>1, FS_CardinalityType
<1>3. k - 1 \in Nat /\ Cardinality(E \ {r}) <= k - 1
  BY <1>1, <1>2
<1>4. IsFiniteSet(F) /\ Cardinality(F) <= (k - 1) + 1
  BY <1>1, <1>3, OneMoreEarly
<1> QED
  BY <1>4

LEMMA InitIInv == Init => IInv
<1> SUFFICES ASSUME Init PROVE IInv
  OBVIOUS
<1>1. TypeOK
  <2>1. <<>> \in Seq(Requests)
    OBVIOUS
  <2>2. 0 \in 0..MaxForeign /\ 0 \in 0..MaxDeaths
    BY PermissionAssumption
  <2>3. /\ mQueue \in Seq(Requests) /\ submitted \in Seq(Requests) /\ answered \in Seq(Requests)
        /\ activity \in [Requests -> {"none", "shown", "done", "dead"}]
    BY <2>1 DEF Init
  <2> QED
    BY <2>2, <2>3 DEF Init, TypeOK
<1>2. Protocol /\ Distinct
  BY DEF Init, Protocol, Distinct
<1>3. OrderInv
  BY DEF Init, OrderInv, Owed
<1>4. StartedInv
  BY DEF Init, StartedInv
<1>5. EarlyInv
  <2>1. Early = {}
    BY DEF Init, Early, Answered
  <2> QED
    BY <2>1, FS_EmptySet DEF Init, EarlyInv
<1> QED
  BY <1>1, <1>2, <1>3, <1>4, <1>5 DEF IInv

LEMMA AddIInv ==
  ASSUME IInv, NEW r \in Requests, Add(r)
  PROVE  IInv'
<1> USE DEF IInv, Add, executor, main, events
<1>1. TypeOK'
  BY AppendProperties DEF TypeOK
<1>2. Protocol'
  BY DEF Protocol
<1>3. OrderInv'
  <2>1. /\ Len(submitted') = Len(submitted) + 1 /\ Len(mQueue') = Len(mQueue) + 1
        /\ submitted'[Len(submitted) + 1] = r /\ mQueue'[Len(mQueue) + 1] = r
        /\ \A i \in 1..Len(submitted) : submitted'[i] = submitted[i]
        /\ \A i \in 1..Len(mQueue) : mQueue'[i] = mQueue[i]
    BY AppendProperties DEF TypeOK
  <2>2. Owed' = Owed /\ Owed \in {0, 1}
    BY DEF Owed
  <2> QED
    BY <2>1, <2>2, Domains DEF OrderInv
<1>4. Distinct'
  <2>1. \A i \in 1..Len(submitted) : submitted[i] # r
    BY Domains
  <2>2. /\ Len(submitted') = Len(submitted) + 1
        /\ submitted'[Len(submitted) + 1] = r
        /\ \A i \in 1..Len(submitted) : submitted'[i] = submitted[i]
    BY AppendProperties DEF TypeOK
  <2> QED
    BY <2>1, <2>2, Domains DEF Distinct
<1>5. StartedInv' /\ EarlyInv'
  <2>1. Answered' = Answered /\ Owed' = Owed
    BY DEF Answered, Owed
  <2>2. Early' = Early
    BY <2>1 DEF Early
  <2> QED
    BY <2>1, <2>2 DEF StartedInv, EarlyInv
<1> QED
  BY <1>1, <1>2, <1>3, <1>4, <1>5

LEMMA TestIInv ==
  ASSUME IInv, Test \/ Refresh
  PROVE  IInv'
<1> USE DEF IInv, Test, Refresh, executor, main, events
<1>1. TypeOK'
  BY DEF TypeOK
<1>2. Protocol'
  BY DEF Protocol
<1>3. OrderInv' /\ Distinct'
  BY DEF OrderInv, Owed, Distinct
<1>4. StartedInv' /\ EarlyInv'
  <2>1. Answered' = Answered /\ Owed' = Owed
    BY DEF Answered, Owed
  <2>2. Early' = Early
    BY <2>1 DEF Early
  <2> QED
    BY <2>1, <2>2 DEF StartedInv, EarlyInv
<1> QED
  BY <1>1, <1>2, <1>3, <1>4

LEMMA TakeIInv ==
  ASSUME IInv, Take
  PROVE  IInv'
<1> USE DEF IInv, Take, executor, main, events
<1>0. /\ Len(mQueue) \in Nat /\ Len(mQueue) > 0
      /\ Head(mQueue) = mQueue[1] /\ Head(mQueue) \in Requests
      /\ Tail(mQueue) \in Seq(Requests) /\ Len(Tail(mQueue)) = Len(mQueue) - 1
      /\ \A i \in 1..Len(Tail(mQueue)) : Tail(mQueue)[i] = mQueue[i + 1]
  BY HeadTailProperties, EmptySeq, LenProperties DEF TypeOK
<1>1. TypeOK'
  BY <1>0, PermissionAssumption DEF TypeOK
<1>2. Protocol'
  BY DEF Protocol
<1>3. Owed = 0 /\ Owed' = 1
  BY PermissionAssumption DEF Owed, Protocol, TypeOK
<1>4. OrderInv'
  <2>1. /\ Len(submitted) = Len(answered) + Len(mQueue)
        /\ \A i \in 1..Len(answered) : answered[i] = submitted[i]
        /\ \A i \in 1..Len(mQueue) : mQueue[i] = submitted[Len(answered) + i]
    BY <1>3, Domains DEF OrderInv
  <2>2. /\ answered' = answered /\ submitted' = submitted
        /\ Len(mQueue') = Len(mQueue) - 1 /\ mRequest' = mQueue[1]
        /\ \A i \in 1..Len(mQueue') : mQueue'[i] = mQueue[i + 1]
    BY <1>0
  <2>3. Len(submitted') = Len(answered') + 1 + Len(mQueue')
    BY <1>0, <2>1, <2>2, Domains
  <2>4. mRequest' = submitted'[Len(answered') + 1]
    BY <1>0, <2>1, <2>2, Domains
  <2>5. \A i \in 1..Len(mQueue') : mQueue'[i] = submitted'[Len(answered') + 1 + i]
    <3> SUFFICES ASSUME NEW i \in 1..Len(mQueue')
                 PROVE  mQueue'[i] = submitted'[Len(answered') + 1 + i]
      OBVIOUS
    <3>1. i + 1 \in 1..Len(mQueue) /\ Len(answered) + (i + 1) = Len(answered) + 1 + i
      BY <1>0, <2>2, Domains
    <3> QED
      BY <2>1, <2>2, <3>1
  <2> QED
    BY <1>3, <2>1, <2>2, <2>3, <2>4, <2>5 DEF OrderInv
<1>5. Distinct'
  BY DEF Distinct
<1>6. Answered' = Answered
  BY DEF Answered
<1>7. Head(mQueue) \notin Answered
  <2>1. Len(submitted) = Len(answered) + Len(mQueue)
    BY <1>3, Domains DEF OrderInv
  <2>2. Head(mQueue) = submitted[Len(answered) + 1]
    <3>1. 1 \in 1..Len(mQueue)
      BY <1>0
    <3> QED
      BY <1>0, <1>3, <3>1, Domains DEF OrderInv
  <2>3. \A i \in 1..Len(answered) : answered[i] = submitted[i]
    BY DEF OrderInv
  <2>4. \A i \in 1..Len(answered) : submitted[i] # submitted[Len(answered) + 1]
    BY <1>0, <2>1, Domains DEF Distinct
  <2> QED
    BY <2>2, <2>3, <2>4, Domains
<1>8. \A q \in Requests : activity[q] # "none" => q \in Answered
  BY <1>3, PermissionAssumption DEF StartedInv
<1>9. StartedInv'
  BY <1>0, <1>3, <1>6, <1>7, <1>8 DEF StartedInv
<1>10. EarlyInv'
  <2>1. Early' = Early
    BY <1>6 DEF Early, Protocol
  <2> QED
    BY <2>1 DEF EarlyInv
<1> QED
  BY <1>1, <1>2, <1>4, <1>5, <1>9, <1>10

LEMMA RegisterIInv ==
  ASSUME IInv, Register
  PROVE  IInv'
<1> USE DEF IInv, Register, executor, main, events
<1>1. mRequest # None /\ mRequest \in Requests
  BY DEF TypeOK
<1>2. TypeOK' /\ Protocol'
  BY <1>1 DEF TypeOK, Protocol
<1>3. Owed = 1 /\ Owed' = 1
  BY <1>1 DEF Owed
<1>4. OrderInv' /\ Distinct'
  BY <1>3 DEF OrderInv, Distinct
<1>5. StartedInv' /\ EarlyInv'
  <2>1. Answered' = Answered
    BY DEF Answered
  <2>2. Early' = Early
    BY <2>1 DEF Early
  <2> QED
    BY <1>3, <2>1, <2>2 DEF StartedInv, EarlyInv
<1> QED
  BY <1>2, <1>4, <1>5

LEMMA StartIInv ==
  ASSUME IInv, Start
  PROVE  IInv'
<1> USE DEF IInv, Start, executor, main, events
<1>1. /\ mRequest \in Requests /\ activity[mRequest] = "none"
      /\ activity' = [activity EXCEPT ![mRequest] = "shown"]
  BY DEF TypeOK, StartedInv
<1>2. TypeOK' /\ Protocol'
  BY <1>1 DEF TypeOK, Protocol
<1>3. Owed' = Owed /\ Answered' = Answered
  BY DEF Owed, Answered
<1>4. OrderInv' /\ Distinct'
  BY <1>3 DEF OrderInv, Distinct
<1>5. StartedInv'
  BY <1>1, <1>3 DEF StartedInv, TypeOK
<1>6. EarlyInv'
  <2>1. inFlight \cup Answered \subseteq Requests
    BY Domains DEF TypeOK
  <2>2. \A r \in Requests : activity'[r] # "done" <=> activity[r] # "done"
    BY <1>1 DEF TypeOK
  <2>3. Early' = Early
    BY <1>1, <1>3, <2>1, <2>2 DEF Early
  <2> QED
    BY <2>3 DEF EarlyInv
<1> QED
  BY <1>2, <1>4, <1>5, <1>6

\* Who is added to Early by a broadcast is the current request, when it is registered.
LEMMA BroadcastTo ==
  ASSUME IInv, Broadcast, answered' = answered, mpc' = mpc, mRequest' = mRequest
  PROVE  inFlight' \subseteq inFlight \cup {mRequest} /\ inFlight' \subseteq Requests
BY DEF IInv, Broadcast, Protocol, TypeOK

LEMMA ResultIInv ==
  ASSUME IInv, NEW r \in Requests, Result(r)
  PROVE  IInv'
<1> USE DEF IInv, Result, executor, main, events
<1>1. /\ activity[r] = "shown" /\ activity' = [activity EXCEPT ![r] = "done"]
      /\ inFlight' = inFlight \cup ({messenger} \ {None})
  BY DEF Broadcast
<1>2. TypeOK' /\ Protocol'
  BY <1>1 DEF TypeOK, Protocol
<1>3. Owed' = Owed /\ Answered' = Answered
  BY DEF Owed, Answered
<1>4. OrderInv' /\ Distinct'
  BY <1>3 DEF OrderInv, Distinct
<1>5. StartedInv'
  BY <1>1, <1>3 DEF StartedInv, TypeOK
<1>6. EarlyInv'
  <2>1. \A q \in Requests \ {r} : activity'[q] = activity[q]
    BY <1>1 DEF TypeOK
  <2>2. activity'[r] = "done"
    BY <1>1 DEF TypeOK
  <2>3. inFlight \subseteq Requests /\ Answered \subseteq Requests /\ foreign \in Nat
    BY Domains DEF TypeOK
  <2>4. mpc = "idle"
    OBVIOUS
  <2>5. CASE messenger \in {r, None}
    <3>1. Early' \subseteq Early
      BY <1>1, <1>3, <2>1, <2>2, <2>3, <2>4, <2>5 DEF Early
    <3> QED
      BY <2>3, <3>1, FewerEarly DEF EarlyInv
  <2>6. CASE messenger \notin {r, None}
    <3>1. messenger = mRequest /\ mRequest \in Requests /\ r # mRequest
      BY <2>6 DEF Protocol, TypeOK
    <3>2. r \in Early
      BY <1>1, <3>1 DEF StartedInv, Early
    <3>3. Early' \subseteq (Early \ {r}) \cup {mRequest}
      BY <1>1, <1>3, <2>1, <2>2, <2>3, <2>4, <3>1 DEF Early
    <3> QED
      BY <2>3, <3>2, <3>3, SwapEarly DEF EarlyInv
  <2> QED
    BY <2>5, <2>6
<1> QED
  BY <1>2, <1>4, <1>5, <1>6

LEMMA ReceiveIInv ==
  ASSUME IInv, NEW r \in Requests, Receive(r)
  PROVE  IInv'
<1> USE DEF IInv, Receive, executor, main, events
<1>1. Answered' = Answered /\ foreign' = foreign /\ foreign \in Nat
  BY DEF Answered, TypeOK
<1>2. TypeOK'
  BY DEF TypeOK
<1>3. CASE messenger = r
  <2>1. /\ messenger' = None /\ mpc' = "callback" /\ r # None
        /\ isRequesting /\ r = mRequest
    BY <1>3, PermissionAssumption DEF Protocol
  <2>2. Protocol'
    BY <2>1 DEF Protocol
  <2>3. Owed = 1 /\ Owed' = 1
    BY <1>3, <2>1 DEF Owed
  <2>4. OrderInv' /\ Distinct' /\ StartedInv'
    BY <1>1, <2>3 DEF OrderInv, Distinct, StartedInv
  <2>5. Early' = Early
    BY <1>1, <2>1 DEF Early
  <2> QED
    BY <1>1, <1>2, <2>2, <2>4, <2>5 DEF EarlyInv
<1>4. CASE messenger # r
  <2>1. Protocol'
    BY <1>4 DEF Protocol
  <2>2. Owed' = Owed
    BY <1>4 DEF Owed
  <2>3. OrderInv' /\ Distinct' /\ StartedInv'
    BY <1>1, <2>2 DEF OrderInv, Distinct, StartedInv
  <2>4. Early' \subseteq Early
    BY <1>1, <1>4 DEF Early
  <2>5. EarlyInv'
    BY <1>1, <2>4, FewerEarly DEF EarlyInv
  <2> QED
    BY <1>2, <2>1, <2>3, <2>5
<1> QED
  BY <1>3, <1>4

LEMMA CallbackIInv ==
  ASSUME IInv, Callback
  PROVE  IInv'
<1> USE DEF IInv, Callback, executor, main, events
<1>1. /\ mRequest \in Requests /\ epc # "register" /\ messenger = None
      /\ epc # "take" /\ isRequesting
  BY DEF TypeOK, Protocol
<1>2. /\ answered' \in Seq(Requests) /\ Len(answered') = Len(answered) + 1
      /\ \A i \in 1..Len(answered) : answered'[i] = answered[i]
      /\ answered'[Len(answered) + 1] = mRequest
  BY <1>1, AppendProperties DEF TypeOK
<1>3. TypeOK' /\ Protocol'
  BY <1>1, <1>2 DEF TypeOK, Protocol
<1>4. Owed = 1 /\ Owed' = 0
  BY <1>1 DEF Owed
<1>5. OrderInv'
  <2>1. /\ Len(submitted) = Len(answered) + 1 + Len(mQueue)
        /\ \A i \in 1..Len(answered) : answered[i] = submitted[i]
        /\ mRequest = submitted[Len(answered) + 1]
        /\ \A i \in 1..Len(mQueue) : mQueue[i] = submitted[Len(answered) + 1 + i]
    BY <1>4 DEF OrderInv
  <2>2. \A i \in 1..Len(answered') : answered'[i] = submitted[i]
    BY <1>2, <2>1, Domains
  <2>3. \A i \in 1..Len(mQueue) : mQueue[i] = submitted[Len(answered') + 0 + i]
    BY <1>2, <2>1, Domains
  <2> QED
    BY <1>2, <1>4, <2>1, <2>2, <2>3, Domains DEF OrderInv
<1>6. Distinct'
  BY DEF Distinct
<1>7. Answered' = Answered \cup {mRequest}
  <2>1. Answered' = {answered'[i] : i \in 1..Len(answered')}
    BY <1>2 DEF Answered
  <2> QED
    BY <1>2, <2>1, Domains
<1>8. StartedInv'
  BY <1>7 DEF StartedInv
<1>9. EarlyInv'
  <2>1. Early' = Early
    BY <1>7 DEF Early
  <2> QED
    BY <2>1 DEF EarlyInv
<1> QED
  BY <1>3, <1>5, <1>6, <1>8, <1>9

LEMMA ClearIInv ==
  ASSUME IInv, Clear
  PROVE  IInv'
<1> USE DEF IInv, Clear, executor, main, events
<1>1. TypeOK' /\ Protocol'
  BY DEF TypeOK, Protocol
<1>2. Owed' = Owed /\ Answered' = Answered
  BY DEF Owed, Answered
<1>3. OrderInv' /\ Distinct' /\ StartedInv'
  BY <1>2 DEF OrderInv, Distinct, StartedInv
<1>4. Early' = Early
  BY <1>2 DEF Early
<1> QED
  BY <1>1, <1>3, <1>4 DEF EarlyInv

LEMMA ForeignIInv ==
  ASSUME IInv, Foreign
  PROVE  IInv'
<1> USE DEF IInv, Foreign, executor, main, events
<1>1. foreign \in Nat /\ foreign' = foreign + 1 /\ foreign' \in 0..MaxForeign
  BY PermissionAssumption DEF TypeOK
<1>2. inFlight' \subseteq inFlight \cup {mRequest} /\ inFlight' \subseteq Requests
  BY BroadcastTo
<1>3. TypeOK' /\ Protocol'
  BY <1>1, <1>2 DEF TypeOK, Protocol
<1>4. Owed' = Owed /\ Answered' = Answered
  BY DEF Owed, Answered
<1>5. OrderInv' /\ Distinct' /\ StartedInv'
  BY <1>4 DEF OrderInv, Distinct, StartedInv
<1>6. EarlyInv'
  <2>1. Early' \subseteq Early \cup {mRequest}
    BY <1>2, <1>4 DEF Early
  <2>2. foreign \in Nat /\ IsFiniteSet(Early) /\ Cardinality(Early) <= foreign
    BY <1>1 DEF EarlyInv
  <2> HIDE DEF Foreign, IInv
  <2>3. IsFiniteSet(Early') /\ Cardinality(Early') <= foreign + 1
    BY <2>1, <2>2, OneMoreEarly
  <2> QED
    BY <1>1, <2>3 DEF EarlyInv
<1> QED
  BY <1>3, <1>5, <1>6

LEMMA DestroyedIInv ==
  ASSUME IInv, NEW r \in Requests, Destroyed(r)
  PROVE  IInv'
<1> USE DEF IInv, Destroyed, executor, main, events
<1>1. activity[r] = "shown" /\ activity' = [activity EXCEPT ![r] = "dead"]
  OBVIOUS
<1>2. TypeOK'
  <2>1. deaths' \in 0..MaxDeaths
    BY PermissionAssumption DEF TypeOK
  <2> QED
    BY <1>1, <2>1 DEF TypeOK
<1>3. Protocol'
  BY DEF Protocol
<1>4. Owed' = Owed /\ Answered' = Answered
  BY DEF Owed, Answered
<1>5. OrderInv' /\ Distinct'
  BY <1>4 DEF OrderInv, Distinct
<1>6. StartedInv'
  BY <1>1, <1>4 DEF StartedInv, TypeOK
<1>7. EarlyInv'
  <2>1. \A q \in Requests : activity'[q] # "done" <=> activity[q] # "done"
    BY <1>1 DEF TypeOK
  <2>2. /\ inFlight \subseteq Requests /\ Answered \subseteq Requests
        /\ mpc = "callback" => mRequest \in Requests
    BY Domains DEF TypeOK, Protocol
  <2>3. Early' = Early
    BY <1>4, <2>1, <2>2 DEF Early
  <2> QED
    BY <2>3 DEF EarlyInv
<1> QED
  BY <1>2, <1>3, <1>5, <1>6, <1>7

LEMMA StutterIInv ==
  ASSUME IInv, UNCHANGED vars
  PROVE  IInv'
<1> USE DEF IInv, vars, executor, main, events
<1>1. Owed' = Owed /\ Answered' = Answered
  BY DEF Owed, Answered
<1>2. Early' = Early
  BY <1>1 DEF Early
<1> QED
  BY <1>1, <1>2 DEF TypeOK, Protocol, OrderInv, Distinct, StartedInv, EarlyInv

LEMMA NextIInv == IInv /\ [Next]_vars => IInv'
<1> SUFFICES ASSUME IInv, [Next]_vars PROVE IInv'
  OBVIOUS
<1>1. CASE \E r \in Requests : Add(r) \/ Result(r) \/ Destroyed(r)
  BY <1>1, AddIInv, ResultIInv, DestroyedIInv
<1>2. CASE Executor \/ Refresh
  BY <1>2, TestIInv, TakeIInv, RegisterIInv, StartIInv DEF Executor
<1>3. CASE Main
  BY <1>3, ReceiveIInv, CallbackIInv, ClearIInv DEF Main
<1>4. CASE Foreign
  BY <1>4, ForeignIInv
<1>5. CASE UNCHANGED vars
  BY <1>5, StutterIInv
<1> QED
  BY <1>1, <1>2, <1>3, <1>4, <1>5 DEF Next

\* Who has the current request, and in which order, in every state of the bridge
\* (RequestExecutor 34-97, Messenger 28-59).
THEOREM Inductive == Spec => []IInv
BY InitIInv, NextIInv, PTL DEF Spec

\* Every variable keeps its type: in particular the executor's thread never
\* registers or starts anything but a request.
THEOREM TypeCorrect == Spec => []TypeOK
<1>1. IInv => TypeOK
  BY DEF IInv
<1> QED
  BY <1>1, Inductive, PTL

\* The callbacks of RequestExecutor.onCallback come in the order of
\* RequestManager.add, and none comes twice.
THEOREM AnsweredInOrder == Spec => []InOrder
<1>1. IInv => InOrder
  <2> SUFFICES ASSUME IInv PROVE InOrder
    OBVIOUS
  <2>1. Len(answered) <= Len(submitted)
    BY Domains DEF IInv, OrderInv, Owed
  <2>2. /\ SubSeq(submitted, 1, Len(answered)) \in Seq(Requests)
        /\ Len(SubSeq(submitted, 1, Len(answered))) = Len(answered)
        /\ \A i \in 1..Len(answered) : SubSeq(submitted, 1, Len(answered))[i] = submitted[i]
    BY <2>1, Domains, SubSeqProperties DEF IInv, TypeOK
  <2>3. answered = SubSeq(submitted, 1, Len(answered))
    BY <2>2, SeqEqual DEF IInv, TypeOK, OrderInv
  <2> QED
    BY <2>1, <2>3 DEF InOrder
<1> QED
  BY <1>1, Inductive, PTL

\* A request is answered with its own activity's result, but for as many requests
\* as there were broadcasts of other applications.
THEOREM AnsweredByOwnResult == Spec => []OwnResult
<1>1. IInv => OwnResult
  <2> SUFFICES ASSUME IInv PROVE OwnResult
    OBVIOUS
  <2>1. {r \in Answered : activity[r] # "done"} \subseteq Early /\ foreign \in Nat
    BY DEF IInv, TypeOK, Early
  <2> QED
    BY <2>1, FewerEarly DEF IInv, EarlyInv, OwnResult
<1> QED
  BY <1>1, Inductive, PTL

\* The executor's thread shows one request at a time, but for one more for every
\* broadcast of another application.
THEOREM ShownOneByOne == Spec => []Serial
<1>1. IInv => Serial
  <2> SUFFICES ASSUME IInv PROVE Serial
    OBVIOUS
  <2>1. {r \in Requests : activity[r] = "shown"} \subseteq Early \cup {mRequest} /\ foreign \in Nat
    BY DEF IInv, TypeOK, StartedInv, Early
  <2>2. Cardinality({r \in Requests : activity[r] = "shown"}) <= foreign + 1
    BY <2>1, OneMoreEarly DEF IInv, EarlyInv
  <2> QED
    BY <2>1, <2>2 DEF Serial
<1> QED
  BY <1>1, Inductive, PTL

-------------------------------------------------------------------------------
(* What the flow keeps *)


FlowTypes ==
    /\ held \subseteq Permissions /\ mHistoryRequest \subseteq Permissions
    /\ changed \subseteq Permissions
    /\ phase \in [Requests -> {"new", "built", "rationale", "bridge", "task", "posted", "answered"}]
    /\ mPermissions \in [Requests -> SUBSET Permissions]
    /\ mDeniedPermissions \in [Requests -> SUBSET Permissions]
    /\ deniedList \in [Requests -> SUBSET Permissions]
    /\ allowed \in [Requests -> SUBSET Permissions]
    /\ tasks \in Seq(Runtime) /\ posted \in Seq(Runtime)
    /\ calls \in [Requests -> Seq({"granted", "denied"})]

Waits(s, p) == \A i \in 1..Len(s) : phase[s[i]] = p
NoneTwice(s) == \A i, j \in 1..Len(s) : s[i] = s[j] => i = j

\* A request waits for one thing at a time.
LineInv ==
    /\ Waits(tasks, "task") /\ NoneTwice(tasks)
    /\ Waits(posted, "posted") /\ NoneTwice(posted)

\* What the bridge has not answered yet waits for nothing else.
PendingInv ==
    \A i \in 1..Len(submitted) : i > Len(answered) => phase[submitted[i]] = "bridge"

\* What is held, or was changed in the settings, covers every request that was told
\* `granted' or will be when its check is reported.
Covered(r) == mPermissions[r] \subseteq held \cup changed
CoverInv ==
    /\ \A r \in Requests : Called(r, "granted") => phase[r] = "answered" /\ Covered(r)
    /\ \A i \in 1..Len(posted) : deniedList[posted[i]] = {} => Covered(posted[i])
    /\ \A r \in Requests : phase[r] = "rationale" => mDeniedPermissions[r] # {}

FlowInv == FlowTypes /\ LineInv /\ PendingInv /\ CoverInv

-------------------------------------------------------------------------------
(* The flow is a bridge. *)

LEMMA FlowStepIsBridgeStep == [FlowNext]_flowVars => [Next]_vars
<1> SUFFICES ASSUME [FlowNext]_flowVars PROVE [Next]_vars
  OBVIOUS
<1>1. CASE UNCHANGED flowVars
  BY <1>1 DEF flowVars
<1>2. CASE \E r \in Requests :
              Build(r) \/ StartHeld(r) \/ StartRationale(r) \/ Cancel(r)
  BY <1>2 DEF Build, StartHeld, StartRationale, Cancel
<1>3. CASE \E r \in Requests : Execute(r) \/ PageResult(r)
  BY <1>3 DEF Execute, PageResult, Next
<1>4. CASE CallbackRequest
  BY <1>4 DEF CallbackRequest, Next, Main
<1>5. CASE DoInBackground \/ OnPostExecute
  BY <1>5 DEF DoInBackground, OnPostExecute
<1>6. CASE BridgeOnly
  BY <1>6 DEF BridgeOnly, Next, Main
<1>7. CASE \E p \in Permissions : Change(p)
  BY <1>7 DEF Change
<1> QED
  BY <1>1, <1>2, <1>3, <1>4, <1>5, <1>6, <1>7 DEF FlowNext, Answering

\* Whoever checks, explains, cancels or changes settings, RequestExecutor and its
\* activities behave as PermissionBridge says.
THEOREM FlowIsBridge == FlowSpec => Spec
<1>1. FlowInit => Init
  BY DEF FlowInit
<1> QED
  BY <1>1, FlowStepIsBridgeStep, PTL DEF FlowSpec, Spec

\* Requests are shown and answered one after the other, in order and for their own
\* result, but for one per foreign broadcast, for any number of requests.
THEOREM FlowOneAfterAnother == FlowSpec => []OneAfterAnother
<1>1. InOrder /\ Serial /\ OwnResult => OneAfterAnother
  BY DEF OneAfterAnother
<1> QED
  BY <1>1, FlowIsBridge, AnsweredInOrder, ShownOneByOne, AnsweredByOwnResult, PTL

-------------------------------------------------------------------------------
(* The invariant of the flow *)

LEMMA InitFlowInv == FlowInit => FlowInv
<1> SUFFICES ASSUME FlowInit PROVE FlowInv
  OBVIOUS
<1>1. FlowTypes
  <2>1. <<>> \in Seq(Runtime) /\ <<>> \in Seq({"granted", "denied"})
    OBVIOUS
  <2> QED
    BY <2>1, FlowAssumption DEF FlowInit, FlowTypes
<1>2. LineInv
  BY DEF FlowInit, LineInv, Waits, NoneTwice
<1>3. PendingInv
  BY DEF FlowInit, Init, PendingInv
<1>4. CoverInv
  <2>1. \A r \in Requests : ~Called(r, "granted")
    BY DEF FlowInit, Called
  <2> QED
    BY <2>1 DEF FlowInit, CoverInv
<1> QED
  BY <1>1, <1>2, <1>3, <1>4 DEF FlowInv

\* A request that waits for nothing can change its phase without a trace in the lines.
LEMMA PhaseOfOne ==
  ASSUME FlowTypes, LineInv, NEW r \in Requests, NEW p,
         phase[r] \notin {"task", "posted"}, Becomes(r, p),
         UNCHANGED <<tasks, posted>>
  PROVE  LineInv'
<1>1. /\ \A i \in 1..Len(tasks) : tasks[i] \in Requests /\ tasks[i] # r
      /\ \A i \in 1..Len(posted) : posted[i] \in Requests /\ posted[i] # r
  BY FlowAssumption DEF FlowTypes, LineInv, Waits
<1> QED
  BY <1>1 DEF FlowTypes, LineInv, Waits, NoneTwice, Becomes

\* The same of the bridge, when the request is not there.
LEMMA PhaseOffBridge ==
  ASSUME FlowTypes, TypeOK, PendingInv, NEW r \in Requests, NEW p,
         phase[r] # "bridge", Becomes(r, p), UNCHANGED <<submitted, answered>>
  PROVE  PendingInv'
<1>1. \A i \in 1..Len(submitted) : submitted[i] \in Requests
  BY DEF TypeOK
<1> QED
  BY <1>1 DEF FlowTypes, PendingInv, Becomes

\* What was told, and what will be, is covered as before when a request that was told
\* nothing changes its phase.
LEMMA PhaseCover ==
  ASSUME FlowTypes, LineInv, CoverInv, NEW r \in Requests, NEW p,
         phase[r] # "answered", Becomes(r, p),
         p = "rationale" => mDeniedPermissions'[r] # {},
         \A q \in Requests : q # r => mDeniedPermissions'[q] = mDeniedPermissions[q],
         UNCHANGED <<held, changed, mPermissions, deniedList, calls, posted>>
  PROVE  CoverInv'
<1>1. \A q \in Requests : Called(q, "granted")' = Called(q, "granted") /\ Covered(q)' = Covered(q)
  BY DEF Called, Covered
<1>2. phase'[r] = p /\ \A q \in Requests : q # r => phase'[q] = phase[q]
  BY DEF FlowTypes, Becomes
<1>3. ~Called(r, "granted")
  BY DEF CoverInv
<1>4. \A q \in Requests : Called(q, "granted")' => phase'[q] = "answered" /\ Covered(q)'
  BY <1>1, <1>2, <1>3 DEF CoverInv
<1>5. \A q \in Requests : phase'[q] = "rationale" => mDeniedPermissions'[q] # {}
  BY <1>2 DEF CoverInv
<1>6. \A i \in 1..Len(posted) : deniedList[posted[i]] = {} => Covered(posted[i])'
  BY DEF CoverInv, Covered
<1> QED
  BY <1>4, <1>5, <1>6 DEF CoverInv

LEMMA ToldFacts ==
  ASSUME FlowTypes, NEW r \in Requests, NEW D, Told(r, D)
  PROVE  /\ calls' \in [Requests -> Seq({"granted", "denied"})]
         /\ \A q \in Requests : q # r => calls'[q] = calls[q]
         /\ D # {} => (Called(r, "granted")' => Called(r, "granted"))
<1>1. calls[r] \in Seq({"granted", "denied"}) /\ calls \in [Requests -> Seq({"granted", "denied"})]
  BY DEF FlowTypes
<1>2. CASE D # {} /\ calls' = [calls EXCEPT ![r] = Append(@, "denied")]
  <2>1. Append(calls[r], "denied") \in Seq({"granted", "denied"})
    BY <1>1
  <2>2. calls'[r] = Append(calls[r], "denied")
    BY <1>1, <1>2
  <2>3. Called(r, "granted")' => Called(r, "granted")
    BY <1>1, <2>2 DEF Called
  <2> QED
    BY <1>1, <1>2, <2>1, <2>3
<1>3. CASE D = {} /\ calls' = [calls EXCEPT ![r] = Append(@, "granted")]
  <2>1. Append(calls[r], "granted") \in Seq({"granted", "denied"})
    BY <1>1
  <2> QED
    BY <1>1, <1>3, <2>1
<1>4. CASE D = {} /\ calls' = [calls EXCEPT ![r] = @ \o <<"granted", "denied">>]
  <2>1. calls[r] \o <<"granted", "denied">> \in Seq({"granted", "denied"})
    BY <1>1
  <2> QED
    BY <1>1, <1>4, <2>1
<1> QED
  BY <1>2, <1>3, <1>4 DEF Told

\* What is told by then was held or changed, whoever else is told.
LEMMA ToldCovered ==
  ASSUME FlowTypes, CoverInv, NEW r \in Requests, NEW D, Told(r, D), Becomes(r, "answered"),
         D = {} => Covered(r),
         UNCHANGED <<held, changed, mPermissions, mDeniedPermissions>>
  PROVE  /\ \A q \in Requests : Called(q, "granted")' => phase'[q] = "answered" /\ Covered(q)'
         /\ \A q \in Requests : phase'[q] = "rationale" => mDeniedPermissions'[q] # {}
<1>1. \A q \in Requests : Covered(q)' = Covered(q)
  BY DEF Covered
<1>2. \A q \in Requests : q # r => (Called(q, "granted")' <=> Called(q, "granted"))
  BY ToldFacts DEF Called
<1>3. Called(r, "granted")' => Covered(r)
  BY ToldFacts DEF CoverInv
<1>4. phase'[r] = "answered" /\ \A q \in Requests : q # r => phase'[q] = phase[q]
  BY DEF FlowTypes, Becomes
<1> QED
  BY <1>1, <1>2, <1>3, <1>4 DEF CoverInv

\* OnCallback keeps what does not concern the bridge.
LEMMA OnCallbackInv ==
  ASSUME FlowTypes, LineInv, CoverInv, NEW r \in Requests, OnCallback(r),
         phase[r] \in {"built", "rationale", "bridge"},
         UNCHANGED <<system, mHistoryRequest, mPermissions, mDeniedPermissions, posted, allowed>>
  PROVE  FlowTypes' /\ LineInv' /\ CoverInv'
<1> USE DEF system
<1>1. CASE r \in Runtime /\ tasks' = Append(tasks, r) /\ Becomes(r, "task")
           /\ UNCHANGED <<deniedList, calls>>
  <2>1. FlowTypes'
    BY <1>1 DEF FlowTypes, Becomes
  <2>2. /\ \A i \in 1..Len(tasks) : tasks[i] \in Requests /\ tasks[i] # r
        /\ \A i \in 1..Len(posted) : posted[i] \in Requests /\ posted[i] # r
    BY FlowAssumption DEF FlowTypes, LineInv, Waits
  <2>3. /\ Len(tasks') = Len(tasks) + 1 /\ tasks'[Len(tasks) + 1] = r
        /\ \A i \in 1..Len(tasks) : tasks'[i] = tasks[i]
    BY <1>1 DEF FlowTypes
  <2>4. LineInv'
    <3>1. phase'[r] = "task" /\ \A q \in Requests : q # r => phase'[q] = phase[q]
      BY <1>1 DEF FlowTypes, Becomes
    <3>2. Len(tasks) \in Nat
      BY DEF FlowTypes
    <3>3. Waits(tasks, "task")'
      BY <2>2, <2>3, <3>1, <3>2 DEF LineInv, Waits
    <3>4. NoneTwice(tasks)'
      BY <2>2, <2>3, <3>2 DEF LineInv, NoneTwice
    <3>5. Waits(posted, "posted")' /\ NoneTwice(posted)'
      BY <2>2, <3>1 DEF LineInv, Waits, NoneTwice
    <3> QED
      BY <3>3, <3>4, <3>5 DEF LineInv
  <2>5. \A q \in Requests : /\ Called(q, "granted")' = Called(q, "granted")
                            /\ Covered(q)' = Covered(q)
    BY <1>1 DEF Called, Covered
  <2>6. ~Called(r, "granted")
    BY DEF CoverInv
  <2>7. CoverInv'
    BY <1>1, <2>2, <2>5, <2>6 DEF FlowTypes, CoverInv, Becomes
  <2> QED
    BY <2>1, <2>4, <2>7
<1>2. CASE /\ deniedList' = [deniedList EXCEPT ![r] = Missing(r)]
           /\ Told(r, Missing(r)) /\ Becomes(r, "answered") /\ UNCHANGED tasks
  <2>1. FlowTypes'
    <3>1. Missing(r) \subseteq Permissions
      BY DEF FlowTypes, Missing
    <3> QED
      BY <1>2, <3>1, ToldFacts DEF FlowTypes, Becomes
  <2>2. LineInv'
    BY <1>2, PhaseOfOne
  <2>3. \A i \in 1..Len(posted) : posted[i] \in Requests /\ posted[i] # r
    BY FlowAssumption DEF FlowTypes, LineInv, Waits
  <2>4. Missing(r) = {} => Covered(r)
    BY DEF Missing, Covered
  <2>5. \A i \in 1..Len(posted) : deniedList'[posted[i]] = {} => Covered(posted[i])'
    BY <1>2, <2>3 DEF FlowTypes, CoverInv, Covered
  <2>6. CoverInv'
    BY <1>2, <2>4, <2>5, ToldCovered DEF CoverInv
  <2> QED
    BY <2>1, <2>2, <2>6
<1> QED
  BY <1>1, <1>2 DEF OnCallback

LEMMA BuildInv == ASSUME FlowInv, TypeOK, NEW r \in Requests, Build(r) PROVE FlowInv'
<1> USE DEF FlowInv, Build, system
<1>1. FlowTypes'
  <2>1. phase' \in [Requests -> {"new", "built", "rationale", "bridge", "task", "posted", "answered"}]
    BY DEF FlowTypes, Becomes
  <2>2. Wanted[r] \subseteq Permissions
    BY FlowAssumption
  <2>3. mPermissions' \in [Requests -> SUBSET Permissions] /\ mHistoryRequest' \subseteq Permissions
    <3>1. mPermissions \in [Requests -> SUBSET Permissions] /\ mHistoryRequest \subseteq Permissions
      BY DEF FlowTypes
    <3> QED
      BY <2>2, <3>1
  <2> QED
    BY <2>1, <2>3 DEF FlowTypes
<1>2. LineInv'
  BY PhaseOfOne
<1>3. PendingInv'
  BY PhaseOffBridge DEF vars, main
<1>4. \A i \in 1..Len(posted) : posted[i] \in Requests /\ posted[i] # r
  BY FlowAssumption DEF FlowTypes, LineInv, Waits
<1>5. \A q \in Requests : Called(q, "granted")' = Called(q, "granted")
  BY DEF Called
<1>6. \A q \in Requests : q # r => Covered(q)' = Covered(q) /\ phase'[q] = phase[q]
  BY DEF FlowTypes, Covered, Becomes
<1>7. ~Called(r, "granted") /\ phase'[r] = "built"
  BY DEF FlowTypes, CoverInv, Becomes
<1>8. CoverInv'
  BY <1>4, <1>5, <1>6, <1>7 DEF CoverInv
<1> QED
  BY <1>1, <1>2, <1>3, <1>8

LEMMA StartHeldInv == ASSUME FlowInv, TypeOK, NEW r \in Requests, StartHeld(r) PROVE FlowInv'
<1> USE DEF FlowInv, StartHeld
<1>1. FlowTypes' /\ LineInv' /\ CoverInv'
  BY OnCallbackInv
<1>2. PendingInv'
  BY PhaseOffBridge DEF OnCallback, vars, main
<1> QED
  BY <1>1, <1>2

LEMMA StartRationaleInv ==
  ASSUME FlowInv, TypeOK, NEW r \in Requests, StartRationale(r) PROVE FlowInv'
<1> USE DEF FlowInv, StartRationale, system
<1>1. FlowTypes'
  BY DEF FlowTypes, Becomes, Missing
<1>2. LineInv'
  BY PhaseOfOne
<1>3. PendingInv'
  BY PhaseOffBridge DEF vars, main
<1>4. CoverInv'
  <2>1. mDeniedPermissions'[r] # {}
    BY DEF FlowTypes
  <2>2. \A q \in Requests : q # r => mDeniedPermissions'[q] = mDeniedPermissions[q]
    BY DEF FlowTypes
  <2> QED
    BY <2>1, <2>2, PhaseCover
<1> QED
  BY <1>1, <1>2, <1>3, <1>4

LEMMA ExecuteInv == ASSUME FlowInv, TypeOK, NEW r \in Requests, Execute(r) PROVE FlowInv'
<1> USE DEF FlowInv, Execute, system
<1>1. FlowTypes'
  BY DEF FlowTypes, Becomes
<1>2. LineInv'
  BY PhaseOfOne
<1>3. PendingInv'
  <2>1. /\ Len(submitted') = Len(submitted) + 1 /\ submitted'[Len(submitted) + 1] = r
        /\ \A i \in 1..Len(submitted) : submitted'[i] = submitted[i] /\ submitted[i] \in Requests
        /\ answered' = answered
    BY DEF Add, TypeOK, main
  <2>2. phase'[r] = "bridge" /\ \A q \in Requests : q # r => phase'[q] = phase[q]
    BY DEF FlowTypes, Becomes
  <2>3. Len(submitted) \in Nat /\ Len(answered) \in Nat
    BY DEF TypeOK
  <2>4. \A i \in 1..Len(submitted) : i > Len(answered) => phase'[submitted[i]] = "bridge"
    BY <2>1, <2>2 DEF PendingInv
  <2> QED
    BY <2>1, <2>2, <2>3, <2>4 DEF PendingInv
<1>4. CoverInv'
  BY PhaseCover
<1> QED
  BY <1>1, <1>2, <1>3, <1>4

LEMMA CancelInv == ASSUME FlowInv, TypeOK, NEW r \in Requests, Cancel(r) PROVE FlowInv'
<1> USE DEF FlowInv, Cancel
<1>1. PendingInv'
  BY PhaseOffBridge DEF OnCallback, vars, main
<1>2. CASE OnCallback(r)
  BY <1>1, <1>2, OnCallbackInv
<1>3. CASE /\ Told(r, mDeniedPermissions[r]) /\ Becomes(r, "answered")
           /\ UNCHANGED <<deniedList, tasks>>
  <2>1. FlowTypes'
    BY <1>3, ToldFacts DEF FlowTypes, Becomes, system
  <2>2. LineInv'
    BY <1>3, PhaseOfOne
  <2>3. mDeniedPermissions[r] # {}
    BY DEF CoverInv
  <2>4. \A i \in 1..Len(posted) : posted[i] \in Requests /\ deniedList'[posted[i]] = deniedList[posted[i]]
    BY <1>3, FlowAssumption DEF FlowTypes
  <2>5. CoverInv'
    BY <1>3, <2>3, <2>4, ToldCovered DEF CoverInv, Covered, system
  <2> QED
    BY <1>1, <2>1, <2>2, <2>5
<1> QED
  BY <1>2, <1>3

LEMMA PageResultInv ==
  ASSUME FlowInv, TypeOK, NEW r \in Requests, PageResult(r) PROVE FlowInv'
<1> USE DEF FlowInv, PageResult, request
<1>1. PICK S \in SUBSET mDeniedPermissions[r] :
         held' = held \cup S /\ allowed' = [allowed EXCEPT ![r] = S]
  OBVIOUS
<1>2. S \subseteq Permissions
  BY DEF FlowTypes
<1>3. FlowTypes'
  BY <1>1, <1>2 DEF FlowTypes
<1>4. LineInv' /\ PendingInv'
  BY DEF LineInv, Waits, NoneTwice, PendingInv, Result, main
<1>5. \A q \in Requests : Called(q, "granted")' = Called(q, "granted") /\ (Covered(q) => Covered(q)')
  BY <1>1 DEF Called, Covered
<1>6. \A i \in 1..Len(posted) : posted[i] \in Requests
  BY FlowAssumption DEF FlowTypes
<1>7. CoverInv'
  BY <1>5, <1>6 DEF CoverInv
<1> QED
  BY <1>3, <1>4, <1>7

LEMMA ChangeInv ==
  ASSUME FlowInv, NEW p \in Permissions, Change(p) PROVE FlowInv'
<1> USE DEF FlowInv, Change, request, vars, main
<1>1. FlowTypes'
  BY DEF FlowTypes
<1>2. LineInv' /\ PendingInv'
  BY DEF LineInv, Waits, NoneTwice, PendingInv
<1>3. held \cup changed \subseteq held' \cup changed'
  OBVIOUS
<1>4. \A q \in Requests : Called(q, "granted")' = Called(q, "granted") /\ (Covered(q) => Covered(q)')
  BY <1>3 DEF Called, Covered
<1>5. \A i \in 1..Len(posted) : posted[i] \in Requests
  BY FlowAssumption DEF FlowTypes
<1>6. CoverInv'
  BY <1>4, <1>5 DEF CoverInv
<1> QED
  BY <1>1, <1>2, <1>6

\* The request whose callback runs is the oldest one the bridge has not answered.
LEMMA CallbackRequestInv ==
  ASSUME FlowInv, IInv, CallbackRequest PROVE FlowInv'
<1> USE DEF FlowInv, CallbackRequest
<1>1. /\ mRequest \in Requests /\ Owed = 1
      /\ Len(submitted) \in Nat /\ Len(answered) \in Nat /\ Len(mQueue) \in Nat
      /\ mRequest = submitted[Len(answered) + 1] /\ Len(answered) + 1 <= Len(submitted)
  BY DEF IInv, TypeOK, Protocol, OrderInv, Owed, Callback
<1>2. phase[mRequest] = "bridge"
  BY <1>1 DEF PendingInv
<1>3. FlowTypes' /\ LineInv' /\ CoverInv'
  BY <1>1, <1>2, OnCallbackInv
<1>4. PendingInv'
  <2>1. Len(answered') = Len(answered) + 1 /\ submitted' = submitted
    BY DEF IInv, TypeOK, Callback
  <2>2. \A i \in 1..Len(submitted) : i > Len(answered) + 1 => submitted[i] # mRequest
    BY <1>1 DEF IInv, Distinct
  <2>3. \A q \in Requests : q # mRequest => phase'[q] = phase[q]
    BY <1>1 DEF OnCallback, Becomes, FlowTypes
  <2>4. \A i \in 1..Len(submitted) : submitted[i] \in Requests
    BY DEF IInv, TypeOK
  <2> QED
    BY <1>1, <2>1, <2>2, <2>3, <2>4 DEF PendingInv
<1> QED
  BY <1>3, <1>4

LEMMA DoInBackgroundInv ==
  ASSUME FlowInv, TypeOK, DoInBackground PROVE FlowInv'
<1> USE DEF FlowInv, system, vars, main
<1>1. PICK r \in Requests : r = Head(tasks) /\ r \in Runtime
  BY FlowAssumption DEF FlowTypes, DoInBackground
<1>2. /\ deniedList' = [deniedList EXCEPT ![r] = Missing(r)]
      /\ Becomes(r, "posted") /\ posted' = Append(posted, r) /\ tasks' = Tail(tasks)
      /\ tasks # <<>>
      /\ UNCHANGED <<vars, system, mHistoryRequest, mPermissions, mDeniedPermissions, calls, allowed>>
  BY <1>1 DEF DoInBackground
<1>3. /\ Len(tasks) \in Nat /\ Len(tasks) > 0 /\ tasks[1] = r
      /\ Len(tasks') = Len(tasks) - 1 /\ tasks' \in Seq(Runtime)
      /\ \A i \in 1..Len(tasks') : tasks'[i] = tasks[i + 1]
  BY <1>1, <1>2 DEF FlowTypes
<1>4. /\ Len(posted) \in Nat /\ Len(posted') = Len(posted) + 1 /\ posted' \in Seq(Runtime)
      /\ posted'[Len(posted) + 1] = r
      /\ \A i \in 1..Len(posted) : posted'[i] = posted[i]
  BY <1>1, <1>2 DEF FlowTypes
<1>5. Missing(r) \subseteq Permissions
  BY DEF FlowTypes, Missing
<1>6. FlowTypes'
  BY <1>2, <1>3, <1>4, <1>5 DEF FlowTypes, Becomes
<1>7. /\ \A i \in 1..Len(tasks) : tasks[i] \in Requests /\ phase[tasks[i]] = "task"
      /\ \A i \in 1..Len(posted) : posted[i] \in Requests /\ phase[posted[i]] = "posted"
  BY FlowAssumption DEF FlowTypes, LineInv, Waits
<1>8. phase[r] = "task" /\ (\A i \in 1..Len(tasks) : i > 1 => tasks[i] # r)
  BY <1>3, <1>7 DEF LineInv, NoneTwice
<1>9. phase'[r] = "posted" /\ \A q \in Requests : q # r => phase'[q] = phase[q]
  BY <1>2 DEF FlowTypes, Becomes
<1>10. Waits(tasks, "task")'
  BY <1>3, <1>7, <1>8, <1>9 DEF Waits
<1>11. NoneTwice(tasks)'
  BY <1>3 DEF LineInv, NoneTwice
<1>12. \A i \in 1..Len(posted) : posted[i] # r
  BY <1>7, <1>8
<1>13. Waits(posted, "posted")'
  BY <1>4, <1>7, <1>9, <1>12 DEF Waits
<1>14. NoneTwice(posted)'
  BY <1>4, <1>12 DEF LineInv, NoneTwice
<1>15. PendingInv'
  BY <1>2, <1>8, PhaseOffBridge
<1>16. \A q \in Requests : Called(q, "granted")' = Called(q, "granted") /\ Covered(q)' = Covered(q)
  BY <1>2 DEF Called, Covered
<1>17. /\ deniedList'[r] = Missing(r)
       /\ \A q \in Requests : q # r => deniedList'[q] = deniedList[q]
  BY <1>2 DEF FlowTypes
<1>18. ASSUME NEW i \in 1..Len(posted'), deniedList'[posted'[i]] = {}
       PROVE  Covered(posted[i])'
  <2>1. CASE i = Len(posted) + 1
    <3>1. posted'[i] = r /\ Missing(r) = {}
      BY <1>4, <1>17, <1>18, <2>1
    <3> QED
      BY <3>1, <1>2 DEF Missing, Covered
  <2>2. CASE i # Len(posted) + 1
    <3>1. i \in 1..Len(posted) /\ posted'[i] = posted[i] /\ posted[i] \in Requests
      BY <1>4, <1>7, <2>2
    <3>2. deniedList[posted[i]] = {}
      BY <3>1, <1>12, <1>17, <1>18
    <3> QED
      BY <3>1, <3>2, <1>2 DEF CoverInv, Covered
  <2> QED
    BY <2>1, <2>2
<1>19. \A q \in Requests : Called(q, "granted")' => phase'[q] = "answered" /\ Covered(q)'
  BY <1>8, <1>9, <1>16 DEF CoverInv
<1>20. \A q \in Requests : phase'[q] = "rationale" => mDeniedPermissions'[q] # {}
  BY <1>2, <1>9 DEF CoverInv
<1>21. CoverInv'
  BY <1>18, <1>19, <1>20 DEF CoverInv
<1>22. LineInv'
  BY <1>10, <1>11, <1>13, <1>14 DEF LineInv
<1> QED
  BY <1>6, <1>15, <1>21, <1>22

LEMMA OnPostExecuteInv ==
  ASSUME FlowInv, TypeOK, OnPostExecute PROVE FlowInv'
<1> USE DEF FlowInv, system, vars, main
<1>1. PICK r \in Requests : r = Head(posted) /\ r \in Runtime
  BY FlowAssumption DEF FlowTypes, OnPostExecute
<1>2. /\ Told(r, deniedList[r]) /\ Becomes(r, "answered") /\ posted' = Tail(posted)
      /\ posted # <<>>
      /\ UNCHANGED <<vars, system, mHistoryRequest, mPermissions, mDeniedPermissions, deniedList,
                     tasks, allowed>>
  BY <1>1 DEF OnPostExecute
<1>3. /\ Len(posted) \in Nat /\ Len(posted) > 0 /\ posted[1] = r
      /\ Len(posted') = Len(posted) - 1 /\ posted' \in Seq(Runtime)
      /\ \A i \in 1..Len(posted') : posted'[i] = posted[i + 1]
  BY <1>1, <1>2 DEF FlowTypes
<1>4. FlowTypes'
  BY <1>2, <1>3, ToldFacts DEF FlowTypes, Becomes
<1>5. /\ \A i \in 1..Len(tasks) : tasks[i] \in Requests /\ phase[tasks[i]] = "task"
      /\ \A i \in 1..Len(posted) : posted[i] \in Requests /\ phase[posted[i]] = "posted"
  BY FlowAssumption DEF FlowTypes, LineInv, Waits
<1>6. phase[r] = "posted" /\ \A i \in 1..Len(posted) : i > 1 => posted[i] # r
  BY <1>3, <1>5 DEF LineInv, NoneTwice
<1>7. phase'[r] = "answered" /\ \A q \in Requests : q # r => phase'[q] = phase[q]
  BY <1>2 DEF FlowTypes, Becomes
<1>8. Waits(posted, "posted")'
  <2>1. ASSUME NEW i \in 1..Len(posted') PROVE phase'[posted'[i]] = "posted"
    <3>1. i + 1 \in 1..Len(posted) /\ i + 1 > 1
      BY <1>3
    <3>2. posted'[i] = posted[i + 1] /\ posted[i + 1] \in Requests
          /\ posted[i + 1] # r /\ phase[posted[i + 1]] = "posted"
      BY <1>3, <1>5, <1>6, <3>1
    <3> QED
      BY <1>7, <3>2
  <2> QED
    BY <2>1 DEF Waits
<1>9. NoneTwice(posted)'
  BY <1>3 DEF LineInv, NoneTwice
<1>10. Waits(tasks, "task")' /\ NoneTwice(tasks)'
  BY <1>2, <1>5, <1>6, <1>7 DEF LineInv, Waits, NoneTwice
<1>11. PendingInv'
  BY <1>2, <1>6, PhaseOffBridge
<1>12. deniedList[r] = {} => Covered(r)
  BY <1>3 DEF CoverInv
<1>13. ASSUME NEW i \in 1..Len(posted'), deniedList'[posted'[i]] = {}
       PROVE  Covered(posted[i])'
  <2>1. i + 1 \in 1..Len(posted) /\ posted'[i] = posted[i + 1]
    BY <1>3
  <2>2. deniedList[posted[i + 1]] = {}
    BY <1>2, <1>13, <2>1
  <2> QED
    BY <1>2, <2>1, <2>2 DEF CoverInv, Covered
<1>14. CoverInv'
  BY <1>2, <1>12, <1>13, ToldCovered DEF CoverInv
<1>15. LineInv'
  BY <1>8, <1>9, <1>10 DEF LineInv
<1> QED
  BY <1>4, <1>11, <1>14, <1>15

\* The bridge's own steps submit nothing and answer nothing.
LEMMA BridgeOnlyInv ==
  ASSUME FlowInv, BridgeOnly \/ UNCHANGED flowVars PROVE FlowInv'
<1>1. UNCHANGED flow /\ UNCHANGED <<submitted, answered>>
  BY DEF BridgeOnly, Executor, Test, Take, Register, Start, Refresh, Clear, Foreign, Receive,
         Destroyed, flowVars, flow, vars, main
<1> USE <1>1 DEF FlowInv, flow, system, request
<1>2. FlowTypes'
  BY DEF FlowTypes
<1>3. LineInv' /\ PendingInv'
  BY DEF LineInv, Waits, NoneTwice, PendingInv
<1>4. \A q \in Requests : Called(q, "granted")' = Called(q, "granted") /\ Covered(q)' = Covered(q)
  BY DEF Called, Covered
<1>5. \A i \in 1..Len(posted) : posted[i] \in Requests
  BY FlowAssumption DEF FlowInv, FlowTypes
<1>6. CoverInv'
  BY <1>4, <1>5 DEF CoverInv
<1> QED
  BY <1>2, <1>3, <1>6

LEMMA NextFlowInv == FlowInv /\ IInv /\ [FlowNext]_flowVars => FlowInv'
<1> SUFFICES ASSUME FlowInv, IInv, [FlowNext]_flowVars PROVE FlowInv'
  OBVIOUS
<1>1. TypeOK
  BY DEF IInv
<1>2. CASE \E r \in Requests :
              Build(r) \/ StartHeld(r) \/ StartRationale(r) \/ Answering(r) \/ PageResult(r)
  BY <1>1, <1>2, BuildInv, StartHeldInv, StartRationaleInv, ExecuteInv, CancelInv, PageResultInv
     DEF Answering
<1>3. CASE CallbackRequest \/ DoInBackground \/ OnPostExecute
  BY <1>1, <1>3, CallbackRequestInv, DoInBackgroundInv, OnPostExecuteInv
<1>4. CASE BridgeOnly \/ UNCHANGED flowVars
  BY <1>4, BridgeOnlyInv
<1>5. CASE \E p \in Permissions : Change(p)
  BY <1>5, ChangeInv
<1> QED
  BY <1>2, <1>3, <1>4, <1>5 DEF FlowNext

\* What lies between a check and its answer, in every state of the flow (Runtime 69-143, MRequest 87-160).
THEOREM FlowInductive == FlowSpec => []FlowInv
BY InitFlowInv, NextFlowInv, FlowIsBridge, Inductive, PTL DEF FlowSpec

\* Every list and phase keeps its type, and a check that runs or is reported belongs to
\* a request that waits for it, for any requests and permissions.
THEOREM FlowTypeCorrect == FlowSpec => []FlowTypeOK
<1>1. FlowInv /\ TypeOK => FlowTypeOK
  <2> SUFFICES ASSUME FlowInv, TypeOK PROVE FlowTypeOK
    OBVIOUS
  <2>1. DOMAIN tasks = 1..Len(tasks) /\ DOMAIN posted = 1..Len(posted)
    BY DEF FlowInv, FlowTypes
  <2> QED
    BY <2>1 DEF FlowInv, FlowTypes, LineInv, Waits, FlowTypeOK
<1> QED
  BY <1>1, FlowInductive, FlowIsBridge, TypeCorrect, PTL

\* onGranted is called for nothing that is not held, but for what the user has changed
\* in the settings, whatever the order of checks, pages and callbacks.
THEOREM GrantedWasHeld == FlowSpec => []GrantedIsHeld
<1>1. FlowInv => GrantedIsHeld
  BY DEF FlowInv, CoverInv, Covered, GrantedIsHeld
<1> QED
  BY <1>1, FlowInductive, PTL

-------------------------------------------------------------------------------
(* Who was allowed is not denied *)

\* A request that the bridge has got came there from its rationale, and one that is not
\* answered was told nothing.
ToldInv ==
    \A r \in Requests :
        /\ r \in Submitted => phase[r] \notin {"new", "built", "rationale"}
        /\ phase[r] # "answered" => calls[r] = <<>>

Quiet == foreign = 0 /\ changed = {}

\* As long as nobody else broadcasts and nothing is changed in the settings, what is
\* held only grows: what start() did not find missing is held, and what was allowed.
DenialOf(r) ==
    /\ phase[r] = "rationale" \/ r \in Submitted =>
          mPermissions[r] \subseteq held \cup mDeniedPermissions[r]
    /\ activity[r] = "done" => allowed[r] \subseteq held
    /\ r \in Submitted /\ phase[r] = "posted" /\ allowed[r] = mDeniedPermissions[r] =>
          deniedList[r] = {}
    /\ r \in Submitted /\ phase[r] = "answered" /\ allowed[r] = mDeniedPermissions[r] =>
          calls[r] # <<"denied">>
DenialInv == Quiet => \A r \in Requests : DenialOf(r)

\* Without foreign broadcasts a request that the bridge has answered, or is about to,
\* has its own activity's result.
LEMMA AnsweredIsDone ==
  ASSUME FlowInv, IInv, foreign = 0
  PROVE  /\ \A r \in Submitted : phase[r] # "bridge" => activity[r] = "done"
         /\ mpc = "callback" => /\ mRequest \in Requests /\ mRequest \in Submitted
                                /\ phase[mRequest] = "bridge" /\ activity[mRequest] = "done"
<1>1. Early = {}
  <2>1. IsFiniteSet(Early) /\ Cardinality(Early) \in Nat /\ Cardinality(Early) <= 0
    BY FS_CardinalityType DEF IInv, EarlyInv
  <2> QED
    BY <2>1, FS_EmptySet
<1>2. \A r \in Answered : activity[r] = "done"
  BY <1>1 DEF Early
<1>3. ASSUME NEW r \in Submitted, phase[r] # "bridge" PROVE activity[r] = "done"
  <2>1. PICK i \in 1..Len(submitted) : r = submitted[i]
    BY Domains DEF IInv
  <2>2. i <= Len(answered) /\ Len(answered) \in Nat
    BY <1>3, <2>1, Domains DEF FlowInv, PendingInv, IInv
  <2>3. i \in 1..Len(answered) /\ answered[i] = r
    BY <2>1, <2>2 DEF IInv, OrderInv
  <2> QED
    BY <1>2, <2>3, Domains DEF IInv
<1>4. ASSUME mpc = "callback"
      PROVE  /\ mRequest \in Requests /\ mRequest \in Submitted
             /\ phase[mRequest] = "bridge" /\ activity[mRequest] = "done"
  <2>1. mRequest \in Requests /\ Owed = 1
    BY <1>4 DEF IInv, TypeOK, Protocol, Owed
  <2>2. /\ mRequest = submitted[Len(answered) + 1] /\ Len(answered) + 1 \in 1..Len(submitted)
        /\ Len(answered) + 1 > Len(answered)
    BY <2>1, Domains DEF IInv, OrderInv
  <2>3. mRequest \in Submitted /\ phase[mRequest] = "bridge"
    BY <2>2, Domains DEF IInv, FlowInv, PendingInv
  <2>4. activity[mRequest] = "done"
    BY <1>1, <1>4 DEF Early
  <2> QED
    BY <2>1, <2>3, <2>4
<1> QED
  BY <1>3, <1>4

\* An activity is shown only for what was submitted.
LEMMA ShownIsSubmitted ==
  ASSUME IInv, NEW r \in Requests, activity[r] # "none"
  PROVE  r \in Submitted
<1>1. \A q \in Answered : q \in Submitted
  <2>1. \A i \in 1..Len(answered) : i \in 1..Len(submitted) /\ answered[i] = submitted[i]
    BY Domains DEF IInv, OrderInv, Owed
  <2> QED
    BY <2>1, Domains DEF IInv
<1>2. mRequest # None => mRequest \in Submitted
  <2>1. CASE Owed = 0
    BY <1>1, <2>1 DEF IInv, StartedInv
  <2>2. CASE Owed = 1
    <3>1. mRequest = submitted[Len(answered) + 1] /\ Len(answered) + 1 \in 1..Len(submitted)
      BY <2>2, Domains DEF IInv, OrderInv
    <3> QED
      BY <3>1, Domains DEF IInv
  <2> QED
    BY <2>1, <2>2 DEF Owed
<1>3. r # None
  BY PermissionAssumption
<1> QED
  BY <1>1, <1>2, <1>3 DEF IInv, StartedInv

LEMMA FirstTold ==
  ASSUME FlowTypes, NEW r \in Requests, NEW D, Told(r, D), calls[r] = <<>>
  PROVE  /\ D = {} => calls'[r] # <<"denied">>
         /\ \A q \in Requests : q # r => calls'[q] = calls[q]
<1>1. calls \in [Requests -> Seq({"granted", "denied"})]
  BY DEF FlowTypes
<1>2. CASE D # {}
  BY <1>2, ToldFacts
<1>3. CASE D = {} /\ calls' = [calls EXCEPT ![r] = Append(@, "granted")]
  <2>1. calls'[r] = Append(<<>>, "granted")
    BY <1>1, <1>3
  <2>2. Append(<<>>, "granted")[1] = "granted"
    OBVIOUS
  <2>3. calls'[r] # <<"denied">>
    BY <2>1, <2>2
  <2> QED
    BY <2>3, ToldFacts
<1>4. CASE D = {} /\ calls' = [calls EXCEPT ![r] = @ \o <<"granted", "denied">>]
  <2>1. calls'[r] = <<>> \o <<"granted", "denied">>
    BY <1>1, <1>4
  <2>2. (<<>> \o <<"granted", "denied">>)[1] = "granted"
    OBVIOUS
  <2>3. calls'[r] # <<"denied">>
    BY <2>1, <2>2
  <2> QED
    BY <2>3, ToldFacts
<1> QED
  BY <1>2, <1>3, <1>4 DEF Told

\* A request that a step does not concern
LEMMA DenialOfOther ==
  ASSUME NEW q \in Requests, DenialOf(q), held \subseteq held',
         q \in Submitted' <=> q \in Submitted, activity'[q] = "done" => activity[q] = "done",
         phase'[q] = phase[q], mPermissions'[q] = mPermissions[q],
         mDeniedPermissions'[q] = mDeniedPermissions[q], allowed'[q] = allowed[q],
         deniedList'[q] = deniedList[q], calls'[q] = calls[q]
  PROVE  DenialOf(q)'
BY DEF DenialOf

\* A request that the bridge has not got
LEMMA DenialOfUnsent ==
  ASSUME NEW r \in Requests, r \notin Submitted', activity'[r] # "done",
         phase'[r] = "rationale" => mPermissions'[r] \subseteq held' \cup mDeniedPermissions'[r]
  PROVE  DenialOf(r)'
BY DEF DenialOf

\* A check after the page has been answered finds nothing missing that was allowed.
LEMMA NothingMissing ==
  ASSUME NEW r \in Requests, DenialOf(r), r \in Submitted, activity[r] = "done",
         allowed[r] = mDeniedPermissions[r]
  PROVE  Missing(r) = {}
BY DEF DenialOf, Missing

\* A step of a request or of its checks that changes nothing of the bridge but, when the
\* request is executed, its queue
LEMMA RequestStep ==
  ASSUME NEW r \in Requests, FlowInv, IInv, DenialInv, ToldInv,
         Submitted' = Submitted \/ Submitted' = Submitted \cup {r},
         UNCHANGED <<foreign, activity, system, allowed>>,
         \A q \in Requests : q # r => /\ phase'[q] = phase[q] /\ mPermissions'[q] = mPermissions[q]
                                      /\ mDeniedPermissions'[q] = mDeniedPermissions[q]
                                      /\ deniedList'[q] = deniedList[q] /\ calls'[q] = calls[q],
         r \in Submitted' => phase'[r] \notin {"new", "built", "rationale"},
         phase'[r] # "answered" => calls'[r] = <<>>,
         Quiet => DenialOf(r)'
  PROVE  DenialInv' /\ ToldInv'
<1>1. Quiet' <=> Quiet
  BY DEF Quiet, system
<1>2. ASSUME Quiet, NEW q \in Requests, q # r PROVE DenialOf(q)'
  <2>1. DenialOf(q) /\ held' = held /\ activity' = activity /\ allowed' = allowed
    BY <1>2 DEF DenialInv, system
  <2>2. q \in Submitted' <=> q \in Submitted
    BY <1>2
  <2> QED
    BY <1>2, <2>1, <2>2, DenialOfOther
<1>3. DenialInv'
  BY <1>1, <1>2 DEF DenialInv
<1>4. ToldInv'
  BY DEF ToldInv
<1> QED
  BY <1>3, <1>4

LEMMA BuildDenial ==
  ASSUME NEW r \in Requests, FlowInv, IInv, DenialInv, ToldInv, Build(r) \/ StartRationale(r)
  PROVE  DenialInv' /\ ToldInv'
<1>1. phase[r] \in {"new", "built"} /\ r \notin Submitted /\ calls[r] = <<>> /\ activity[r] # "done"
  BY ShownIsSubmitted DEF Build, StartRationale, ToldInv
<1>2. /\ UNCHANGED <<vars, system, deniedList, calls, allowed>>
      /\ phase'[r] \in {"built", "rationale"} /\ \A q \in Requests : q # r => phase'[q] = phase[q]
  BY DEF Build, StartRationale, Becomes, FlowInv, FlowTypes
<1>3. \A q \in Requests : q # r => /\ mPermissions'[q] = mPermissions[q]
                                   /\ mDeniedPermissions'[q] = mDeniedPermissions[q]
  BY DEF Build, StartRationale, FlowInv, FlowTypes
<1>4. Submitted' = Submitted /\ UNCHANGED <<foreign, activity>>
  BY <1>2 DEF vars, events, Submitted
<1>5. phase'[r] = "rationale" => mPermissions'[r] \subseteq held' \cup mDeniedPermissions'[r]
  <2>1. CASE Build(r)
    BY <2>1 DEF Build, Becomes, FlowInv, FlowTypes
  <2>2. CASE StartRationale(r)
    <3>1. mDeniedPermissions'[r] = mPermissions[r] \ held
      BY <2>2 DEF StartRationale, Missing, FlowInv, FlowTypes
    <3> QED
      BY <2>2, <3>1 DEF StartRationale, system
  <2> QED
    BY <2>1, <2>2
<1>6. DenialOf(r)'
  BY <1>1, <1>4, <1>5, DenialOfUnsent
<1> QED
  BY <1>1, <1>2, <1>3, <1>4, <1>6, RequestStep

LEMMA ExecuteDenial ==
  ASSUME NEW r \in Requests, FlowInv, IInv, DenialInv, ToldInv, Execute(r)
  PROVE  DenialInv' /\ ToldInv'
<1>1. /\ phase[r] = "rationale" /\ r \notin Submitted /\ calls[r] = <<>> /\ activity[r] # "done"
  BY ShownIsSubmitted DEF Execute, Add, ToldInv
<1>2. /\ phase'[r] = "bridge" /\ \A q \in Requests : q # r => phase'[q] = phase[q]
      /\ UNCHANGED <<foreign, activity, system, allowed, mPermissions, mDeniedPermissions,
                     deniedList, calls>>
  BY DEF Execute, Add, Becomes, FlowInv, FlowTypes, events
<1>3. Submitted' = Submitted \cup {r}
  <2>1. /\ Len(submitted) \in Nat /\ Len(submitted') = Len(submitted) + 1
        /\ DOMAIN submitted = 1..Len(submitted) /\ DOMAIN submitted' = 1..Len(submitted')
        /\ \A i \in 1..Len(submitted) : submitted'[i] = submitted[i]
        /\ submitted'[Len(submitted) + 1] = r
    BY DEF IInv, TypeOK, Execute, Add
  <2>2. \A i \in DOMAIN submitted' : i = Len(submitted) + 1 \/ i \in DOMAIN submitted
    BY <2>1
  <2>3. Len(submitted) + 1 \in DOMAIN submitted' /\ \A i \in DOMAIN submitted : i \in DOMAIN submitted'
    BY <2>1
  <2>4. \A x : x \in Submitted' => x \in Submitted \cup {r}
    BY <2>1, <2>2 DEF Submitted
  <2>5. \A x : x \in Submitted \cup {r} => x \in Submitted'
    BY <2>1, <2>3 DEF Submitted
  <2> QED
    BY <2>4, <2>5
<1>4. Quiet => DenialOf(r)'
  BY <1>1, <1>2 DEF DenialInv, DenialOf, system
<1> QED
  BY <1>1, <1>2, <1>3, <1>4, RequestStep

\* A request that is answered without the bridge has no page whose answer could be wrong.
LEMMA OffBridgeDenial ==
  ASSUME NEW r \in Requests, FlowInv, IInv, DenialInv, ToldInv, StartHeld(r) \/ Cancel(r)
  PROVE  DenialInv' /\ ToldInv'
<1>1. phase[r] \in {"built", "rationale"} /\ r \notin Submitted /\ calls[r] = <<>> /\ activity[r] # "done"
  BY ShownIsSubmitted DEF StartHeld, Cancel, ToldInv
<1>2. UNCHANGED <<vars, system, allowed, mPermissions, mDeniedPermissions>>
  BY DEF StartHeld, Cancel
<1>3. Submitted' = Submitted /\ UNCHANGED <<foreign, activity>>
  BY <1>2 DEF vars, events, Submitted
<1>4. \/ /\ Becomes(r, "task") /\ UNCHANGED <<deniedList, calls>>
      \/ /\ Becomes(r, "answered") /\ \E D : Told(r, D)
         /\ \A q \in Requests : q # r => deniedList'[q] = deniedList[q]
  <2>1. CASE OnCallback(r)
    BY <2>1 DEF OnCallback, FlowInv, FlowTypes
  <2>2. CASE ~OnCallback(r)
    BY <2>2 DEF StartHeld, Cancel
  <2> QED
    BY <2>1, <2>2
<1>5. /\ phase'[r] \in {"task", "answered"} /\ \A q \in Requests : q # r => phase'[q] = phase[q]
      /\ phase'[r] # "answered" => calls'[r] = <<>>
      /\ \A q \in Requests : q # r => deniedList'[q] = deniedList[q] /\ calls'[q] = calls[q]
  <2>1. CASE Becomes(r, "task") /\ UNCHANGED <<deniedList, calls>>
    BY <1>1, <2>1 DEF Becomes, FlowInv, FlowTypes
  <2>2. CASE /\ Becomes(r, "answered") /\ \E D : Told(r, D)
             /\ \A q \in Requests : q # r => deniedList'[q] = deniedList[q]
    BY <1>1, <2>2, FirstTold DEF Becomes, FlowInv, FlowTypes
  <2> QED
    BY <1>4, <2>1, <2>2
<1>6. DenialOf(r)'
  BY <1>1, <1>3, <1>5, DenialOfUnsent
<1> QED
  BY <1>1, <1>2, <1>3, <1>5, <1>6, RequestStep

LEMMA PageDenial ==
  ASSUME NEW r \in Requests, FlowInv, IInv, DenialInv, ToldInv, PageResult(r)
  PROVE  DenialInv' /\ ToldInv'
<1>1. PICK S \in SUBSET mDeniedPermissions[r] :
         held' = held \cup S /\ allowed' = [allowed EXCEPT ![r] = S]
  BY DEF PageResult
<1>2. /\ UNCHANGED <<changed, phase, mPermissions, mDeniedPermissions, deniedList, calls,
                     submitted, foreign>>
      /\ activity[r] = "shown" /\ activity' = [activity EXCEPT ![r] = "done"]
  BY DEF PageResult, request, Result, events
<1>3. /\ allowed'[r] = S /\ \A q \in Requests : q # r => allowed'[q] = allowed[q]
      /\ activity'[r] = "done" /\ \A q \in Requests : q # r => activity'[q] = activity[q]
      /\ Submitted' = Submitted
  BY <1>1, <1>2 DEF FlowInv, FlowTypes, IInv, TypeOK, Submitted
<1>4. Quiet' <=> Quiet
  BY <1>2 DEF Quiet
<1>5. ASSUME Quiet PROVE DenialOf(r)'
  <2>1. phase[r] = "bridge"
    <3>1. r \in Submitted
      BY <1>2, ShownIsSubmitted
    <3> QED
      BY <1>2, <1>5, <3>1, AnsweredIsDone DEF Quiet
  <2>2. DenialOf(r)
    BY <1>5 DEF DenialInv
  <2> QED
    BY <1>1, <1>2, <1>3, <2>1, <2>2 DEF DenialOf
<1>6. ASSUME Quiet, NEW q \in Requests, q # r PROVE DenialOf(q)'
  <2>1. DenialOf(q) /\ held \subseteq held'
    BY <1>1, <1>6 DEF DenialInv
  <2> QED
    BY <1>2, <1>3, <1>6, <2>1, DenialOfOther
<1>7. DenialInv'
  BY <1>4, <1>5, <1>6 DEF DenialInv
<1>8. ToldInv'
  BY <1>2, <1>3 DEF ToldInv
<1> QED
  BY <1>7, <1>8

LEMMA CallbackDenial ==
  ASSUME FlowInv, IInv, DenialInv, ToldInv, CallbackRequest
  PROVE  DenialInv' /\ ToldInv'
<1>1. /\ mpc = "callback" /\ OnCallback(mRequest)
      /\ UNCHANGED <<system, mPermissions, mDeniedPermissions, allowed, activity, submitted, foreign>>
  BY DEF CallbackRequest, Callback, events
<1>2. PICK r \in Requests : r = mRequest /\ phase[r] = "bridge" /\ calls[r] = <<>>
  <2>1. mRequest \in Requests
    BY <1>1 DEF IInv, TypeOK, Protocol
  <2>2. Owed = 1
    BY <1>1 DEF Owed
  <2>3. mRequest = submitted[Len(answered) + 1] /\ Len(answered) + 1 \in 1..Len(submitted)
    BY <2>2, Domains DEF IInv, OrderInv
  <2>4. phase[mRequest] = "bridge"
    BY <2>3, Domains DEF FlowInv, PendingInv, IInv
  <2> QED
    BY <2>1, <2>4 DEF ToldInv
<1>3. Submitted' = Submitted
  BY <1>1 DEF Submitted
<1>4. \/ /\ Becomes(r, "task") /\ UNCHANGED <<deniedList, calls>>
      \/ /\ Becomes(r, "answered") /\ Told(r, Missing(r))
         /\ \A q \in Requests : q # r => deniedList'[q] = deniedList[q]
  BY <1>1, <1>2 DEF OnCallback, FlowInv, FlowTypes
<1>5. /\ phase'[r] \in {"task", "answered"} /\ \A q \in Requests : q # r => phase'[q] = phase[q]
      /\ phase'[r] # "answered" => calls'[r] = <<>>
      /\ phase'[r] = "answered" /\ Missing(r) = {} => calls'[r] # <<"denied">>
      /\ \A q \in Requests : q # r => deniedList'[q] = deniedList[q] /\ calls'[q] = calls[q]
  <2>1. CASE Becomes(r, "task") /\ UNCHANGED <<deniedList, calls>>
    BY <1>2, <2>1 DEF Becomes, FlowInv, FlowTypes
  <2>2. CASE /\ Becomes(r, "answered") /\ Told(r, Missing(r))
             /\ \A q \in Requests : q # r => deniedList'[q] = deniedList[q]
    BY <1>2, <2>2, FirstTold DEF Becomes, FlowInv, FlowTypes
  <2> QED
    BY <1>4, <2>1, <2>2
<1>6. ASSUME Quiet PROVE DenialOf(r)'
  <2>1. r \in Submitted /\ activity[r] = "done"
    BY <1>1, <1>2, <1>6, AnsweredIsDone DEF Quiet
  <2>2. DenialOf(r)
    BY <1>6 DEF DenialInv
  <2>3. allowed[r] = mDeniedPermissions[r] => Missing(r) = {}
    BY <2>1, <2>2, NothingMissing
  <2> QED
    BY <1>1, <1>3, <1>5, <2>1, <2>2, <2>3 DEF DenialOf, system
<1> QED
  BY <1>1, <1>3, <1>5, <1>6, RequestStep

LEMMA CheckDenial ==
  ASSUME FlowInv, IInv, DenialInv, ToldInv, DoInBackground
  PROVE  DenialInv' /\ ToldInv'
<1>1. PICK r \in Requests : r = Head(tasks) /\ phase[r] = "task"
  <2>1. tasks # <<>> /\ tasks \in Seq(Runtime)
    BY DEF DoInBackground, FlowInv, FlowTypes
  <2>2. 1 \in 1..Len(tasks) /\ Head(tasks) = tasks[1] /\ Head(tasks) \in Runtime
    BY <2>1
  <2> QED
    BY <2>2, FlowAssumption DEF FlowInv, LineInv, Waits
<1>2. /\ deniedList' = [deniedList EXCEPT ![r] = Missing(r)] /\ Becomes(r, "posted")
      /\ UNCHANGED <<vars, system, mPermissions, mDeniedPermissions, calls, allowed>>
  BY <1>1 DEF DoInBackground
<1>3. /\ phase'[r] = "posted" /\ \A q \in Requests : q # r => phase'[q] = phase[q]
      /\ deniedList'[r] = Missing(r) /\ \A q \in Requests : q # r => deniedList'[q] = deniedList[q]
      /\ Submitted' = Submitted /\ UNCHANGED <<foreign, activity>>
  BY <1>2 DEF Becomes, FlowInv, FlowTypes, vars, events, Submitted
<1>4. calls'[r] = <<>>
  BY <1>1, <1>2 DEF ToldInv
<1>5. ASSUME Quiet PROVE DenialOf(r)'
  <2>1. DenialOf(r)
    BY <1>5 DEF DenialInv
  <2>2. r \in Submitted => activity[r] = "done"
    BY <1>1, <1>5, AnsweredIsDone DEF Quiet
  <2>3. r \in Submitted /\ allowed[r] = mDeniedPermissions[r] => Missing(r) = {}
    BY <2>1, <2>2, NothingMissing
  <2> QED
    BY <1>2, <1>3, <2>1, <2>3 DEF DenialOf, system
<1> QED
  BY <1>2, <1>3, <1>4, <1>5, RequestStep

LEMMA PostDenial ==
  ASSUME FlowInv, IInv, DenialInv, ToldInv, OnPostExecute
  PROVE  DenialInv' /\ ToldInv'
<1>1. PICK r \in Requests : r = Head(posted) /\ phase[r] = "posted"
  <2>1. posted # <<>> /\ posted \in Seq(Runtime)
    BY DEF OnPostExecute, FlowInv, FlowTypes
  <2>2. 1 \in 1..Len(posted) /\ Head(posted) = posted[1] /\ Head(posted) \in Runtime
    BY <2>1
  <2> QED
    BY <2>2, FlowAssumption DEF FlowInv, LineInv, Waits
<1>2. /\ Told(r, deniedList[r]) /\ Becomes(r, "answered")
      /\ UNCHANGED <<vars, system, mPermissions, mDeniedPermissions, deniedList, allowed>>
  BY <1>1 DEF OnPostExecute
<1>3. /\ phase'[r] = "answered" /\ \A q \in Requests : q # r => phase'[q] = phase[q]
      /\ Submitted' = Submitted /\ UNCHANGED <<foreign, activity>>
  BY <1>2 DEF Becomes, FlowInv, FlowTypes, vars, events, Submitted
<1>4. /\ deniedList[r] = {} => calls'[r] # <<"denied">>
      /\ \A q \in Requests : q # r => calls'[q] = calls[q]
  <2>1. calls[r] = <<>>
    BY <1>1 DEF ToldInv
  <2> QED
    BY <1>2, <2>1, FirstTold DEF FlowInv
<1>5. ASSUME Quiet PROVE DenialOf(r)'
  <2>1. DenialOf(r)
    BY <1>5 DEF DenialInv
  <2> QED
    BY <1>1, <1>2, <1>3, <1>4, <2>1 DEF DenialOf, system
<1> QED
  BY <1>2, <1>3, <1>4, <1>5, RequestStep

LEMMA BridgeDenial ==
  ASSUME FlowInv, IInv, DenialInv, ToldInv, BridgeOnly \/ UNCHANGED flowVars
  PROVE  DenialInv' /\ ToldInv'
<1>1. UNCHANGED flow /\ UNCHANGED submitted
  BY DEF BridgeOnly, Executor, Test, Take, Register, Start, Refresh, Clear, Foreign, Receive,
         Destroyed, flowVars, vars
<1>2. Quiet' => foreign' = foreign
  <2>1. foreign \in Nat
    BY DEF IInv, TypeOK
  <2> QED
    BY <2>1 DEF Quiet, BridgeOnly, Executor, Test, Take, Register, Start, Refresh, Clear, Foreign, Receive,
         Destroyed, flowVars, vars, events
<1>3. \A q \in Requests : activity'[q] = "done" => activity[q] = "done"
  <2>1. \/ UNCHANGED activity
        \/ activity' = [activity EXCEPT ![mRequest] = "shown"]
        \/ \E r \in Requests : activity' = [activity EXCEPT ![r] = "dead"]
    BY DEF BridgeOnly, Executor, Test, Take, Register, Start, Refresh, Clear, Foreign, Receive,
           Destroyed, flowVars, vars
  <2> QED
    BY <2>1 DEF IInv, TypeOK
<1>4. Submitted' = Submitted
  BY <1>1 DEF Submitted
<1>5. ASSUME Quiet', NEW q \in Requests PROVE DenialOf(q)'
  <2>1. Quiet
    BY <1>1, <1>2, <1>5 DEF Quiet, flow, system
  <2>2. DenialOf(q)
    BY <2>1 DEF DenialInv
  <2> QED
    BY <1>1, <1>3, <1>4, <2>2, DenialOfOther DEF flow, request, system
<1>6. ToldInv'
  BY <1>1, <1>4 DEF ToldInv, flow, request
<1> QED
  BY <1>5, <1>6 DEF DenialInv

LEMMA ChangeDenial ==
  ASSUME FlowInv, DenialInv, ToldInv, NEW p \in Permissions, Change(p)
  PROVE  DenialInv' /\ ToldInv'
<1>1. ~Quiet'
  BY DEF Change, Quiet
<1>2. ToldInv'
  BY DEF Change, ToldInv, vars, request, Submitted
<1> QED
  BY <1>1, <1>2 DEF DenialInv

LEMMA NextDenialInv ==
  FlowInv /\ IInv /\ DenialInv /\ ToldInv /\ [FlowNext]_flowVars => DenialInv' /\ ToldInv'
BY BuildDenial, ExecuteDenial, OffBridgeDenial, PageDenial, CallbackDenial, CheckDenial, PostDenial,
   BridgeDenial, ChangeDenial DEF FlowNext, Answering

\* Who was allowed on its own page all it lacked is not told `denied', in any order of
\* checks, pages and callbacks; but for a broadcast of another application, a change in
\* the settings, and an onGranted that threw.
THEOREM AllowedIsNotDenied == FlowSpec => []NoFalseDenial
<1>1. FlowInit => DenialInv /\ ToldInv
  <2> SUFFICES ASSUME FlowInit PROVE DenialInv /\ ToldInv
    OBVIOUS
  <2>1. Submitted = {} /\ \A r \in Requests : phase[r] = "new" /\ activity[r] = "none" /\ calls[r] = <<>>
    BY DEF FlowInit, Init, Submitted
  <2> QED
    BY <2>1 DEF DenialInv, DenialOf, ToldInv
<1>2. FlowInv /\ IInv /\ DenialInv /\ ToldInv => NoFalseDenial
  <2> SUFFICES ASSUME FlowInv, IInv, DenialInv, ToldInv, NEW r \in Requests, Quiet,
                      calls[r] = <<"denied">>, activity[r] = "done",
                      allowed[r] = mDeniedPermissions[r]
               PROVE  FALSE
    BY DEF NoFalseDenial, Quiet
  <2>1. r \in Submitted
    BY ShownIsSubmitted
  <2>2. phase[r] = "answered"
    BY DEF ToldInv
  <2>3. DenialOf(r)
    BY DEF DenialInv
  <2> QED
    BY <2>1, <2>2, <2>3 DEF DenialOf
<1> QED
  BY <1>1, <1>2, NextDenialInv, FlowInductive, FlowIsBridge, Inductive, PTL DEF FlowSpec
===============================================================================
