---------------------------- MODULE LogForestProofs ----------------------------
(***************************************************************************)
(* What the facade and its trees guarantee for any trees, threads, levels   *)
(* and bounds: tags are kept apart and used once, although the loops of the *)
(* calls interleave with everything that plants, uproots and configures.    *)
(***************************************************************************)
EXTENDS LogForest, SequenceTheorems, TLAPS

Frame == [call : Calls, doing : {"tag", "log", "print"}, trees : Seq(Trees),
          i : Nat \ {0}, tag : {NoTag} \cup Calls, level : 1..MaxLevel, form : Forms]
Within(f) == f.i \in 1..(Len(f.trees) + 1)

\* A thread's calls are its own, only the innermost one may still be leaving its tag, and a
\* call within a call is newer than the outer one and than the tag that one has in hand.
FramesInv ==
    \A th \in Threads : \A k \in 1..Len(frames[th]) :
       /\ owner[frames[th][k].call] = th
       /\ k < Len(frames[th]) => frames[th][k].doing # "tag"
       /\ \A j \in 1..(k - 1) : /\ frames[th][j].call < frames[th][k].call
                                /\ frames[th][j].tag < frames[th][k].call

\* A held tag is the thread's own, is newer than what the tree has put out for the thread,
\* and has not been used at that tree.
HeldInv ==
    \A t \in Trees, th \in Threads : localTags[t][th] # NoTag =>
       /\ owner[localTags[t][th]] = th
       /\ \A p \in printed[t] : /\ p.tag # localTags[t][th]
                                /\ owner[p.call] = th => p.call < localTags[t][th]

\* A call that is still leaving its tag has put nothing out, and nor has its tag.
Unused(th, c) ==
    \A t \in Trees : \A p \in printed[t] : /\ p.tag # c
                                           /\ owner[p.call] = th => p.call < c
TaggingInv ==
    \A th \in Threads : ~Idle(th) /\ Top(th).doing = "tag" => Unused(th, Top(th).call)

\* Call k of thread th has taken its tag from tree t and has not put the message out yet.
Taken(th, k, t) ==
    frames[th][k].doing = "print" /\ t = frames[th][k].trees[frames[th][k].i]

\* A tag in hand is the thread's own, is gone from its tree, has not been used there and is
\* in the hand of one call only; what the tree holds meanwhile is of a newer call.
TakenInv ==
    \A th \in Threads, t \in Trees : \A k \in 1..Len(frames[th]) : Taken(th, k, t) =>
       /\ localTags[t][th] # NoTag => frames[th][k].call < localTags[t][th]
       /\ frames[th][k].tag # NoTag =>
             /\ owner[frames[th][k].tag] = th
             /\ frames[th][k].tag # localTags[t][th]
             /\ \A p \in printed[t] : p.tag # frames[th][k].tag
             /\ \A j \in 1..Len(frames[th]) :
                   j # k /\ Taken(th, j, t) => frames[th][j].tag # frames[th][k].tag

ForestInv == TypeOK /\ FramesInv /\ HeldInv /\ TaggingInv /\ TakenInv /\ OwnTagOnce

-------------------------------------------------------------------------------
(* Frames *)

LEMMA FramesType ==
  ASSUME TypeOK
  PROVE  /\ frames \in [Threads -> Seq(Frame)]
         /\ \A th \in Threads : Len(frames[th]) \in Nat
         /\ \A th \in Threads : \A k \in 1..Len(frames[th]) :
               frames[th][k] \in Frame /\ Within(frames[th][k])
<1>1. frames \in [Threads -> Seq(Frame)]
  BY DEF TypeOK, Frame
<1>2. \A th \in Threads : frames[th] \in Seq(Frame)
  BY <1>1
<1>3. \A th \in Threads : \A k \in 1..Len(frames[th]) : frames[th][k] \in Frame
  BY <1>2
<1>4. \A th \in Threads : \A k \in 1..Len(frames[th]) : Within(frames[th][k])
  BY DEF TypeOK, Within
<1> QED
  BY <1>1, <1>2, <1>3, <1>4

LEMMA TopFacts ==
  ASSUME TypeOK, NEW th \in Threads, ~Idle(th)
  PROVE  /\ Len(frames[th]) \in Nat /\ Len(frames[th]) > 0
         /\ Len(frames[th]) \in 1..Len(frames[th])
         /\ Top(th) \in Frame /\ Within(Top(th))
<1>1. frames[th] \in Seq(Frame) /\ frames[th] # <<>>
  BY FramesType DEF Idle
<1>2. Len(frames[th]) \in Nat /\ Len(frames[th]) > 0
  BY <1>1
<1>3. Len(frames[th]) \in 1..Len(frames[th])
  BY <1>2
<1>4. frames[th][Len(frames[th])] \in Frame /\ Within(frames[th][Len(frames[th])])
  BY <1>3, FramesType
<1> QED
  BY <1>2, <1>3, <1>4 DEF Top

LEMMA SetTopFacts ==
  ASSUME TypeOK, NEW th \in Threads, ~Idle(th), NEW f \in Frame, Within(f), SetTop(th, f)
  PROVE  /\ frames' \in [Threads -> Seq(Frame)]
         /\ \A u \in Threads : u # th => frames'[u] = frames[u]
         /\ Len(frames'[th]) = Len(frames[th]) /\ frames'[th][Len(frames[th])] = f
         /\ \A k \in 1..Len(frames[th]) : k # Len(frames[th]) => frames'[th][k] = frames[th][k]
         /\ \A u \in Threads : \A k \in 1..Len(frames'[u]) : Within(frames'[u][k])
<1>1. frames \in [Threads -> Seq(Frame)] /\ Len(frames[th]) \in Nat /\ Len(frames[th]) > 0
  BY FramesType, TopFacts
<1>2. frames' = [frames EXCEPT ![th] = [frames[th] EXCEPT ![Len(frames[th])] = f]]
  BY DEF SetTop
<1> DEFINE s == [frames[th] EXCEPT ![Len(frames[th])] = f]
<1>3. /\ s \in Seq(Frame) /\ Len(s) = Len(frames[th]) /\ s[Len(frames[th])] = f
      /\ \A k \in 1..Len(frames[th]) : k # Len(frames[th]) => s[k] = frames[th][k]
  BY <1>1
<1>4. frames' = [frames EXCEPT ![th] = s]
  BY <1>2
<1> HIDE DEF s
<1>5. frames'[th] = s /\ \A u \in Threads : u # th => frames'[u] = frames[u]
  BY <1>1, <1>4
<1>6. frames' \in [Threads -> Seq(Frame)]
  BY <1>1, <1>3, <1>4
<1>7. ASSUME NEW u \in Threads, NEW k \in 1..Len(frames'[u]) PROVE Within(frames'[u][k])
  BY <1>3, <1>5, FramesType
<1> QED
  BY <1>3, <1>5, <1>6, <1>7

LEMMA PopFacts ==
  ASSUME TypeOK, NEW th \in Threads, ~Idle(th), Pop(th)
  PROVE  /\ frames' \in [Threads -> Seq(Frame)]
         /\ \A u \in Threads : u # th => frames'[u] = frames[u]
         /\ Len(frames'[th]) = Len(frames[th]) - 1
         /\ \A k \in 1..(Len(frames[th]) - 1) : frames'[th][k] = frames[th][k]
         /\ \A u \in Threads : \A k \in 1..Len(frames'[u]) : Within(frames'[u][k])
<1>1. frames \in [Threads -> Seq(Frame)] /\ Len(frames[th]) \in Nat /\ Len(frames[th]) > 0
  BY FramesType, TopFacts
<1> DEFINE s == SubSeq(frames[th], 1, Len(frames[th]) - 1)
<1>2. /\ s \in Seq(Frame) /\ Len(s) = Len(frames[th]) - 1
      /\ \A k \in 1..(Len(frames[th]) - 1) : s[k] = frames[th][k]
  <2> DEFINE n == Len(frames[th]) - 1
  <2>1. n \in Nat
    BY <1>1
  <2>2. \A k \in 1..n : frames[th][k] \in Frame
    BY <1>1
  <2> HIDE DEF n
  <2>3. /\ SubSeq(frames[th], 1, n) \in Seq(Frame)
        /\ Len(SubSeq(frames[th], 1, n)) = IF 1 <= n THEN n - 1 + 1 ELSE 0
        /\ \A k \in 1..(n - 1 + 1) : SubSeq(frames[th], 1, n)[k] = frames[th][1 + k - 1]
    BY <2>1, <2>2, SubSeqProperties
  <2>4. Len(SubSeq(frames[th], 1, n)) = n
    BY <2>1, <2>3
  <2>5. \A k \in 1..n : SubSeq(frames[th], 1, n)[k] = frames[th][k]
    BY <2>1, <2>3
  <2> QED
    BY <2>3, <2>4, <2>5 DEF n
<1>3. frames' = [frames EXCEPT ![th] = s]
  BY DEF Pop
<1> HIDE DEF s
<1>4. frames'[th] = s /\ \A u \in Threads : u # th => frames'[u] = frames[u]
  BY <1>1, <1>3
<1>5. frames' \in [Threads -> Seq(Frame)]
  BY <1>1, <1>2, <1>3
<1>6. ASSUME NEW u \in Threads, NEW k \in 1..Len(frames'[u]) PROVE Within(frames'[u][k])
  <2>1. CASE u = th
    <3>1. k \in 1..Len(frames[th]) /\ frames'[th][k] = frames[th][k]
      BY <1>1, <1>2, <1>4, <2>1
    <3> QED
      BY <2>1, <3>1, FramesType
  <2>2. CASE u # th
    BY <1>4, <2>2, FramesType
  <2> QED
    BY <2>1, <2>2
<1> QED
  BY <1>2, <1>4, <1>5, <1>6

LEMMA TopChanged ==
  ASSUME TypeOK, FramesInv, NEW th \in Threads, ~Idle(th),
         NEW f \in Frame, Within(f), SetTop(th, f), UNCHANGED owner,
         f.call = Top(th).call, f.doing = "tag" => Top(th).doing = "tag"
  PROVE  /\ FramesInv'
         /\ \A u \in Threads : ~Idle(u)' /\ Top(u)'.doing = "tag" =>
               ~Idle(u) /\ Top(u).doing = "tag" /\ Top(u)'.call = Top(u).call
         /\ \A u \in Threads : \A k \in 1..Len(frames'[u]) :
               /\ k \in 1..Len(frames[u])
               /\ \/ frames'[u][k] = frames[u][k] /\ (u = th => k # Len(frames[th]))
                  \/ u = th /\ k = Len(frames[th]) /\ frames'[u][k] = f
<1>1. /\ \A u \in Threads : u # th => frames'[u] = frames[u]
      /\ Len(frames'[th]) = Len(frames[th]) /\ frames'[th][Len(frames[th])] = f
      /\ \A k \in 1..Len(frames[th]) : k # Len(frames[th]) => frames'[th][k] = frames[th][k]
      /\ Len(frames[th]) \in Nat /\ Len(frames[th]) \in 1..Len(frames[th])
  BY SetTopFacts, TopFacts
<1>c. \A k \in 1..Len(frames[th]) : frames'[th][k].call = frames[th][k].call
  BY <1>1 DEF Top
<1>2. ASSUME NEW k \in 1..Len(frames'[th])
      PROVE  /\ owner[frames'[th][k].call] = th
             /\ k < Len(frames'[th]) => frames'[th][k].doing # "tag"
             /\ \A j \in 1..(k - 1) : /\ frames'[th][j].call < frames'[th][k].call
                                      /\ frames'[th][j].tag < frames'[th][k].call
  <2>1. k \in 1..Len(frames[th])
    BY <1>1
  <2>2. \A j \in 1..(k - 1) : frames'[th][j] = frames[th][j] /\ j \in 1..Len(frames[th])
    BY <1>1, <2>1
  <2>3. k < Len(frames[th]) => frames'[th][k] = frames[th][k]
    BY <1>1, <2>1
  <2> QED
    BY <1>1, <1>c, <2>1, <2>2, <2>3 DEF FramesInv
<1>3. FramesInv'
  BY <1>1, <1>2 DEF FramesInv
<1>4. Top(th)' = f
  BY <1>1 DEF Top
<1>5. \A u \in Threads : u # th => Top(u)' = Top(u) /\ Idle(u)' = Idle(u)
  BY <1>1 DEF Top, Idle
<1>6. ASSUME NEW u \in Threads, NEW k \in 1..Len(frames'[u])
      PROVE  /\ k \in 1..Len(frames[u])
             /\ \/ frames'[u][k] = frames[u][k] /\ (u = th => k # Len(frames[th]))
                \/ u = th /\ k = Len(frames[th]) /\ frames'[u][k] = f
  BY <1>1
<1> QED
  BY <1>3, <1>4, <1>5, <1>6

LEMMA Popped ==
  ASSUME TypeOK, FramesInv, NEW th \in Threads, ~Idle(th), Pop(th), UNCHANGED owner
  PROVE  /\ FramesInv'
         /\ \A u \in Threads : ~Idle(u)' /\ Top(u)'.doing = "tag" =>
               u # th /\ ~Idle(u) /\ Top(u)' = Top(u)
         /\ \A u \in Threads : \A k \in 1..Len(frames'[u]) :
               /\ k \in 1..Len(frames[u]) /\ frames'[u][k] = frames[u][k]
               /\ u = th => k # Len(frames[th])
<1>1. /\ \A u \in Threads : u # th => frames'[u] = frames[u]
      /\ Len(frames'[th]) = Len(frames[th]) - 1
      /\ \A k \in 1..(Len(frames[th]) - 1) : frames'[th][k] = frames[th][k]
      /\ Len(frames[th]) \in Nat /\ Len(frames[th]) > 0 /\ frames'[th] \in Seq(Frame)
  BY PopFacts, TopFacts
<1>2. ASSUME NEW k \in 1..Len(frames'[th])
      PROVE  /\ owner[frames'[th][k].call] = th
             /\ frames'[th][k].doing # "tag"
             /\ \A j \in 1..(k - 1) : /\ frames'[th][j].call < frames'[th][k].call
                                      /\ frames'[th][j].tag < frames'[th][k].call
  <2>1. /\ k \in 1..Len(frames[th]) /\ k < Len(frames[th]) /\ frames'[th][k] = frames[th][k]
        /\ \A j \in 1..(k - 1) : frames'[th][j] = frames[th][j]
    BY <1>1
  <2> QED
    BY <2>1 DEF FramesInv
<1>3. FramesInv'
  BY <1>1, <1>2 DEF FramesInv
<1>4. ~Idle(th)' => Top(th)'.doing # "tag"
  <2> SUFFICES ASSUME frames'[th] # <<>> PROVE Top(th)'.doing # "tag"
    BY DEF Idle
  <2>1. Len(frames'[th]) \in 1..Len(frames'[th])
    BY <1>1
  <2> QED
    BY <1>2, <2>1 DEF Top
<1>5. \A u \in Threads : u # th => Top(u)' = Top(u) /\ Idle(u)' = Idle(u)
  BY <1>1 DEF Top, Idle
<1>6. ASSUME NEW u \in Threads, NEW k \in 1..Len(frames'[u])
      PROVE  /\ k \in 1..Len(frames[u]) /\ frames'[u][k] = frames[u][k]
             /\ u = th => k # Len(frames[th])
  BY <1>1
<1> QED
  BY <1>3, <1>4, <1>5, <1>6

\* The calls that have a tag in hand after a step had it before.
HandsKept ==
    \A u \in Threads : \A k \in 1..Len(frames'[u]) : frames'[u][k].doing = "print" =>
       k \in 1..Len(frames[u]) /\ frames'[u][k] = frames[u][k]

LEMMA NextTreeFacts ==
  ASSUME TypeOK, FramesInv, NEW th \in Threads, ~Idle(th), Top(th).doing # "tag",
         Top(th).i <= Len(Top(th).trees), NextTree(th), UNCHANGED owner
  PROVE  /\ FramesInv'
         /\ frames' \in [Threads -> Seq(Frame)]
         /\ \A u \in Threads : \A k \in 1..Len(frames'[u]) : Within(frames'[u][k])
         /\ \A u \in Threads : ~Idle(u)' /\ Top(u)'.doing = "tag" =>
               u # th /\ ~Idle(u) /\ Top(u).doing = "tag" /\ Top(u)'.call = Top(u).call
         /\ HandsKept
         /\ \A k \in 1..Len(frames'[th]) : frames'[th][k].doing = "print" => k # Len(frames[th])
<1>1. CASE Pop(th)
  BY <1>1, Popped, PopFacts DEF HandsKept
<1>2. CASE SetTop(th, [Top(th) EXCEPT !.doing = "log", !.i = @ + 1, !.tag = NoTag])
  <2>1. PICK f : f = [Top(th) EXCEPT !.doing = "log", !.i = @ + 1, !.tag = NoTag]
    OBVIOUS
  <2>2. Top(th) \in Frame /\ Within(Top(th))
    BY TopFacts
  <2>3. f = [call |-> Top(th).call, doing |-> "log", trees |-> Top(th).trees,
             i |-> Top(th).i + 1, tag |-> NoTag, level |-> Top(th).level, form |-> Top(th).form]
    BY <2>1, <2>2 DEF Frame
  <2>4. f \in Frame /\ Within(f) /\ f.call = Top(th).call /\ f.doing = "log"
    BY <2>2, <2>3 DEF Frame, Within
  <2>5. SetTop(th, f)
    BY <1>2, <2>1
  <2> QED
    BY <2>4, <2>5, TopChanged, SetTopFacts DEF HandsKept
<1> QED
  BY <1>1, <1>2 DEF NextTree

\* Where no tag is taken, left or put out, what is in hand stays as it should be.
LEMMA HandsStay ==
  ASSUME TypeOK, TakenInv, HandsKept, UNCHANGED <<localTags, printed>>,
         \A c \in Calls : owner'[c] = owner[c]
  PROVE  TakenInv'
<1> SUFFICES ASSUME NEW u \in Threads, NEW t \in Trees, NEW k \in 1..Len(frames'[u]),
                    Taken(u, k, t)'
             PROVE  /\ localTags[t][u] # NoTag => frames'[u][k].call < localTags[t][u]
                    /\ frames'[u][k].tag # NoTag =>
                          /\ owner'[frames'[u][k].tag] = u
                          /\ frames'[u][k].tag # localTags[t][u]
                          /\ \A p \in printed[t] : p.tag # frames'[u][k].tag
                          /\ \A j \in 1..Len(frames'[u]) :
                                j # k /\ Taken(u, j, t)' => frames'[u][j].tag # frames'[u][k].tag
  BY DEF TakenInv
<1>1. \A j \in 1..Len(frames'[u]) : Taken(u, j, t)' =>
         j \in 1..Len(frames[u]) /\ frames'[u][j] = frames[u][j] /\ Taken(u, j, t)
  BY DEF HandsKept, Taken
<1>2. frames[u][k].tag \in {NoTag} \cup Calls
  BY <1>1, FramesType DEF Frame
<1> QED
  BY <1>1, <1>2 DEF TakenInv

-------------------------------------------------------------------------------
(* The steps *)

Output == [call : Calls, tag : {NoTag} \cup Calls, nth : Nat]

LEMMA TypeOfStep ==
  ASSUME TypeOK, UNCHANGED owner,
         frames' \in [Threads -> Seq(Frame)],
         \A u \in Threads : \A k \in 1..Len(frames'[u]) : Within(frames'[u][k]),
         forestAsArray' \in Seq(Trees), isEnable' \in [Trees -> BOOLEAN],
         localTags' \in [Trees -> [Threads -> {NoTag} \cup Calls]],
         printed' \in [Trees -> SUBSET Output], changes' \in 0..MaxChanges
  PROVE  TypeOK'
  BY DEF TypeOK, Frame, Output, Within, Calls

LEMMA InitForest == Init => ForestInv
<1> SUFFICES ASSUME Init PROVE ForestInv
  OBVIOUS
<1>1. TypeOK
  <2>1. <<>> \in Seq(Threads) /\ 0 \in 0..MaxChanges
    BY ForestAssumption
  <2>2. frames \in [Threads -> Seq(Frame)]
    <3>1. <<>> \in Seq(Frame)
      OBVIOUS
    <3> QED
      BY <3>1 DEF Init
  <2>3. \A th \in Threads : Len(frames[th]) = 0
    BY DEF Init
  <2>4. localTags \in [Trees -> [Threads -> {NoTag} \cup Calls]]
    BY DEF Init
  <2>5. \A th \in Threads : \A k \in 1..Len(frames[th]) :
           frames[th][k].i \in 1..(Len(frames[th][k].trees) + 1)
    BY <2>3
  <2>6. printed \in [Trees -> SUBSET Output] /\ isEnable \in [Trees -> BOOLEAN]
    BY DEF Init
  <2> QED
    BY <2>1, <2>2, <2>4, <2>5, <2>6, ForestAssumption DEF Init, TypeOK, Frame, Output
<1>2. FramesInv
  BY DEF Init, FramesInv
<1>3. HeldInv /\ TaggingInv /\ TakenInv
  BY DEF Init, HeldInv, TaggingInv, TakenInv, Idle
<1>4. OwnTagOnce
  BY DEF Init, OwnTagOnce, ThreadsApart, UsedOnce
<1> QED
  BY <1>1, <1>2, <1>3, <1>4 DEF ForestInv

\* Planting, uprooting and configuring leave calls, tags and output alone.
LEMMA ChangesInv ==
  ASSUME ForestInv,
         \/ \E t \in Trees : Plant(t) \/ Uproot(t) \/ ConfigAllowLog(t)
         \/ UprootAll \/ UNCHANGED vars
  PROVE  ForestInv'
<1> USE DEF ForestInv
<1>1. UNCHANGED <<localTags, frames, owner, printed>>
  BY DEF Plant, Uproot, ConfigAllowLog, UprootAll, Changes, vars
<1>2. changes' \in 0..MaxChanges
  <2>1. changes \in 0..MaxChanges /\ MaxChanges \in Nat
    BY ForestAssumption DEF TypeOK
  <2>2. changes' = changes \/ (changes < MaxChanges /\ changes' = changes + 1)
    BY DEF Plant, Uproot, ConfigAllowLog, UprootAll, Changes, vars
  <2> QED
    BY <2>1, <2>2
<1>3. isEnable' \in [Trees -> BOOLEAN]
  BY DEF Plant, Uproot, ConfigAllowLog, UprootAll, vars, TypeOK
<1>4. forestAsArray' \in Seq(Trees)
  <2>0. forestAsArray \in Seq(Trees)
    BY DEF TypeOK
  <2>1. CASE \E t \in Trees : Uproot(t)
    <3>1. PICK k \in 1..Len(forestAsArray) :
             forestAsArray' = SubSeq(forestAsArray, 1, k - 1)
                                 \o SubSeq(forestAsArray, k + 1, Len(forestAsArray))
      BY <2>1 DEF Uproot
    <3>2. /\ SubSeq(forestAsArray, 1, k - 1) \in Seq(Trees)
          /\ SubSeq(forestAsArray, k + 1, Len(forestAsArray)) \in Seq(Trees)
      BY <2>0
    <3> QED
      BY <3>1, <3>2
  <2>2. CASE \E t \in Trees : Plant(t)
    BY <2>0, <2>2 DEF Plant
  <2>3. CASE (\E t \in Trees : ConfigAllowLog(t)) \/ UprootAll \/ UNCHANGED vars
    <3>1. forestAsArray' = forestAsArray \/ forestAsArray' = <<>>
      BY <2>3 DEF ConfigAllowLog, UprootAll, vars
    <3>2. <<>> \in Seq(Trees)
      OBVIOUS
    <3> QED
      BY <2>0, <3>1, <3>2
  <2> QED
    BY <2>1, <2>2, <2>3
<1>5. TypeOK'
  BY <1>1, <1>2, <1>3, <1>4 DEF TypeOK, Calls
<1>6. FramesInv' /\ HeldInv' /\ TaggingInv' /\ OwnTagOnce'
  BY <1>1 DEF FramesInv, HeldInv, TaggingInv, Unused, OwnTagOnce, ThreadsApart, UsedOnce, Idle, Top
<1>7. TakenInv'
  BY <1>1 DEF TakenInv, Taken
<1> QED
  BY <1>5, <1>6, <1>7

LEMMA CallInv ==
  ASSUME ForestInv, NEW th \in Threads, NEW level \in 1..MaxLevel, NEW form \in Forms,
         Call(th, level, form)
  PROVE  ForestInv'
<1> USE DEF ForestInv
<1>1. /\ owner \in Seq(Threads) /\ Len(owner) \in Nat /\ owner' = Append(owner, th)
      /\ UNCHANGED <<localTags, printed, forestAsArray, isEnable, changes>>
  BY DEF TypeOK, Call, Logging
<1>c. PICK c : c = Len(owner) + 1
  OBVIOUS
<1>f. PICK f : f = [call |-> c, doing |-> "tag", trees |-> forestAsArray, i |-> 1,
                    tag |-> NoTag, level |-> level, form |-> form]
  OBVIOUS
<1>2. /\ owner' \in Seq(Threads) /\ Len(owner') = c /\ owner'[c] = th
      /\ Calls' = Calls \cup {c} /\ c \notin Calls /\ c # NoTag
      /\ \A x \in Calls : owner'[x] = owner[x] /\ x < c /\ x # NoTag
  BY <1>c, <1>1 DEF Calls, NoTag
<1>3. frames' = [frames EXCEPT ![th] = Append(frames[th], f)]
  BY <1>c, <1>f DEF Call
<1>4. f \in Frame' /\ Within(f) /\ f.call = c /\ f.doing = "tag"
  BY <1>f, <1>1, <1>2 DEF Frame, Within, TypeOK
<1>5. /\ frames \in [Threads -> Seq(Frame)] /\ frames[th] \in Seq(Frame)
      /\ Len(frames[th]) \in Nat
  BY FramesType
<1>6. \A x \in Frame : x \in Frame'
  BY <1>2 DEF Frame
<1>7. \A s \in Seq(Frame) : s \in Seq(Frame')
  BY <1>6
<1>8. Append(frames[th], f) \in Seq(Frame')
  BY <1>4, <1>5, <1>7
<1>9. frames' \in [Threads -> Seq(Frame')]
  BY <1>3, <1>5, <1>7, <1>8
<1>10. /\ \A u \in Threads : u # th => frames'[u] = frames[u]
       /\ Len(frames'[th]) = Len(frames[th]) + 1
       /\ frames'[th][Len(frames[th]) + 1] = f
       /\ \A k \in 1..Len(frames[th]) : frames'[th][k] = frames[th][k]
  BY <1>3, <1>5
<1>11. ASSUME NEW u \in Threads, NEW k \in 1..Len(frames'[u]) PROVE Within(frames'[u][k])
  <2>1. CASE u = th
    BY <1>4, <1>5, <1>10, <2>1, FramesType
  <2>2. CASE u # th
    BY <1>10, <2>2, FramesType
  <2> QED
    BY <2>1, <2>2
<1>12. TypeOK'
  <2>1. localTags' \in [Trees -> [Threads -> {NoTag} \cup Calls']]
    BY <1>1, <1>2 DEF TypeOK
  <2>2. printed' \in [Trees -> SUBSET [call : Calls', tag : {NoTag} \cup Calls', nth : Nat]]
    <3>1. printed \in [Trees -> SUBSET Output]
      BY DEF TypeOK, Output
    <3>2. \A p \in Output : p \in Output'
      BY <1>2 DEF Output
    <3>3. \A S \in SUBSET Output : S \in SUBSET Output'
      BY <3>2
    <3>4. printed' \in [Trees -> SUBSET Output']
      BY <1>1, <3>1, <3>3
    <3> QED
      BY <3>4 DEF Output
  <2>3. forestAsArray' \in Seq(Trees) /\ isEnable' \in [Trees -> BOOLEAN] /\ changes' \in 0..MaxChanges
    BY <1>1 DEF TypeOK
  <2> QED
    BY <1>2, <1>9, <1>11, <2>1, <2>2, <2>3 DEF TypeOK, Frame, Within
<1>13. \A u \in Threads : \A k \in 1..Len(frames[u]) :
          /\ frames[u][k].call \in Calls /\ owner'[frames[u][k].call] = u
          /\ frames[u][k].call < c /\ frames[u][k].tag < c
          /\ frames[u][k].tag # NoTag => frames[u][k].tag \in Calls
  <2> TAKE u \in Threads
  <2> TAKE k \in 1..Len(frames[u])
  <2>1. frames[u][k].call \in Calls /\ frames[u][k].tag \in {NoTag} \cup Calls
    BY FramesType DEF Frame
  <2>2. NoTag < c
    BY <1>c, <1>1 DEF NoTag
  <2>3. frames[u][k].call < c /\ frames[u][k].tag < c
    BY <1>2, <2>1, <2>2
  <2> QED
    BY <1>2, <2>1, <2>3 DEF FramesInv
<1>14. \A k \in 1..Len(frames[th]) : frames[th][k].doing # "tag"
  <2>1. CASE frames[th] = <<>>
    BY <2>1
  <2>2. CASE frames[th] # <<>>
    <3>1. ~Idle(th) /\ Top(th).doing # "tag"
      BY <2>2 DEF Call, Idle
    <3> QED
      BY <1>5, <3>1 DEF Top, FramesInv
  <2> QED
    BY <2>1, <2>2
<1>15. FramesInv'
  <2>1. ASSUME NEW k \in 1..Len(frames'[th])
        PROVE  /\ owner'[frames'[th][k].call] = th
               /\ k < Len(frames'[th]) => frames'[th][k].doing # "tag"
               /\ \A j \in 1..(k - 1) : /\ frames'[th][j].call < frames'[th][k].call
                                        /\ frames'[th][j].tag < frames'[th][k].call
    <3>0. \A j \in 1..(k - 1) : j \in 1..Len(frames[th]) /\ frames'[th][j] = frames[th][j]
      BY <1>5, <1>10
    <3>1. CASE k = Len(frames[th]) + 1
      BY <1>2, <1>4, <1>5, <1>10, <1>13, <3>0, <3>1
    <3>2. CASE k # Len(frames[th]) + 1
      <4>1. k \in 1..Len(frames[th])
        BY <1>5, <1>10, <3>2
      <4> QED
        BY <1>10, <1>13, <1>14, <3>0, <4>1 DEF FramesInv
    <3> QED
      BY <3>1, <3>2
  <2>2. ASSUME NEW u \in Threads, u # th, NEW k \in 1..Len(frames'[u])
        PROVE  /\ owner'[frames'[u][k].call] = u
               /\ k < Len(frames'[u]) => frames'[u][k].doing # "tag"
               /\ \A j \in 1..(k - 1) : /\ frames'[u][j].call < frames'[u][k].call
                                        /\ frames'[u][j].tag < frames'[u][k].call
    BY <1>10, <1>13, <2>2 DEF FramesInv
  <2> QED
    BY <2>1, <2>2 DEF FramesInv
<1>16. /\ \A t \in Trees : \A p \in printed[t] :
             p.call \in Calls /\ (p.tag # NoTag => p.tag \in Calls)
       /\ \A t \in Trees, u \in Threads : localTags[t][u] # NoTag => localTags[t][u] \in Calls
  BY DEF TypeOK
<1>17. HeldInv'
  <2> SUFFICES ASSUME NEW t \in Trees, NEW u \in Threads, localTags[t][u] # NoTag
               PROVE  /\ owner'[localTags[t][u]] = u
                      /\ \A p \in printed[t] : /\ p.tag # localTags[t][u]
                                               /\ owner'[p.call] = u => p.call < localTags[t][u]
    <3>1. localTags' = localTags /\ printed' = printed
      BY <1>1
    <3> QED
      BY <3>1 DEF HeldInv
  <2>1. owner'[localTags[t][u]] = u
    BY <1>2, <1>16 DEF HeldInv
  <2>2. \A p \in printed[t] : owner'[p.call] = owner[p.call]
    BY <1>2, <1>16
  <2> QED
    BY <2>1, <2>2 DEF HeldInv
<1>18. Unused(th, c)'
  BY <1>1, <1>2, <1>16 DEF Unused
<1>19. ASSUME NEW u \in Threads, NEW x \in Calls, Unused(u, x) PROVE Unused(u, x)'
  BY <1>1, <1>2, <1>16, <1>19 DEF Unused
<1>20. TaggingInv'
  <2>1. Top(th)' = f
    BY <1>10, <1>5 DEF Top
  <2>2. \A u \in Threads : u # th => Top(u)' = Top(u) /\ Idle(u)' = Idle(u)
    BY <1>10 DEF Top, Idle
  <2>3. ASSUME NEW u \in Threads, u # th, ~Idle(u)', Top(u)'.doing = "tag"
        PROVE  Unused(u, Top(u).call)'
    <3>1. Top(u).call \in Calls /\ Unused(u, Top(u).call) /\ Top(u)' = Top(u)
      BY <2>2, <2>3, TopFacts DEF TaggingInv, Frame
    <3>2. PICK x \in Calls : x = Top(u).call
      BY <3>1
    <3>3. Unused(u, x)'
      BY <1>19, <3>1, <3>2
    <3> QED
      BY <3>1, <3>2, <3>3 DEF Unused
  <2>4. Unused(th, Top(th).call)'
    BY <1>4, <1>18, <2>1 DEF Unused
  <2> QED
    BY <2>3, <2>4 DEF TaggingInv
<1>21. OwnTagOnce'
  BY <1>1, <1>2, <1>16 DEF OwnTagOnce, ThreadsApart, UsedOnce
<1>22. TakenInv'
  <2>1. HandsKept
    BY <1>4, <1>5, <1>10 DEF HandsKept
  <2> QED
    BY <1>1, <1>2, <2>1, HandsStay
<1> QED
  BY <1>12, <1>15, <1>17, <1>20, <1>21, <1>22

LEMMA SetTagInv == ASSUME ForestInv, NEW th \in Threads, SetTag(th) PROVE ForestInv'
<1> USE DEF ForestInv
<1>1. PICK t \in Trees :
         /\ Reaches(th, "tag", t) /\ Advances(th)
         /\ localTags' = IF isEnable[t] /\ localTags[t][th] = NoTag
                         THEN [localTags EXCEPT ![t][th] = Top(th).call] ELSE localTags
         /\ UNCHANGED <<owner, printed>> /\ Logging
  BY DEF SetTag
<1>2. ~Idle(th) /\ Top(th).doing = "tag" /\ Top(th).i <= Len(Top(th).trees)
  BY <1>1 DEF Reaches
<1>3. PICK f : f = [Top(th) EXCEPT !.i = @ + 1]
  OBVIOUS
<1>4. /\ f \in Frame /\ Within(f) /\ f.call = Top(th).call /\ SetTop(th, f)
      /\ Top(th).call \in Calls
  BY <1>1, <1>2, <1>3, TopFacts DEF Frame, Within, Advances
<1>d. f.doing = "tag"
  BY <1>2, <1>3, TopFacts DEF Frame
<1>5. /\ FramesInv'
      /\ \A u \in Threads : ~Idle(u)' /\ Top(u)'.doing = "tag" =>
            ~Idle(u) /\ Top(u).doing = "tag" /\ Top(u)'.call = Top(u).call
      /\ \A u \in Threads : \A k \in 1..Len(frames'[u]) : frames'[u][k].doing = "print" =>
            /\ k \in 1..Len(frames[u]) /\ frames'[u][k] = frames[u][k]
            /\ u = th => k # Len(frames[th])
  BY <1>1, <1>2, <1>4, <1>d, TopChanged
<1>6. localTags' \in [Trees -> [Threads -> {NoTag} \cup Calls]]
  BY <1>1, <1>4 DEF TypeOK
<1>7. TypeOK'
  <2>1. /\ frames' \in [Threads -> Seq(Frame)]
        /\ \A u \in Threads : \A k \in 1..Len(frames'[u]) : Within(frames'[u][k])
    BY <1>2, <1>4, SetTopFacts
  <2>2. /\ forestAsArray' \in Seq(Trees) /\ isEnable' \in [Trees -> BOOLEAN]
        /\ printed' \in [Trees -> SUBSET Output] /\ changes' \in 0..MaxChanges
    BY <1>1 DEF TypeOK, Output, Logging
  <2> QED
    BY <1>1, <1>6, <2>1, <2>2, TypeOfStep
<1>8. Unused(th, Top(th).call)
  BY <1>2 DEF TaggingInv
<1>9. owner[Top(th).call] = th
  BY <1>2, TopFacts DEF FramesInv, Top
<1>10. \A s \in Trees, u \in Threads :
          localTags'[s][u] = localTags[s][u] \/ (u = th /\ localTags'[s][u] = Top(th).call)
  BY <1>1 DEF TypeOK
<1>11. HeldInv'
  BY <1>1, <1>8, <1>9, <1>10 DEF HeldInv, Unused
<1>12. TaggingInv'
  BY <1>1, <1>5 DEF TaggingInv, Unused
<1>13. OwnTagOnce'
  BY <1>1 DEF OwnTagOnce, ThreadsApart, UsedOnce
<1>14. \A k \in 1..Len(frames[th]) : k # Len(frames[th]) =>
          frames[th][k].call < Top(th).call /\ frames[th][k].tag < Top(th).call
  BY <1>2, TopFacts DEF FramesInv, Top
<1>15. \A u \in Threads, s \in Trees : \A k \in 1..Len(frames'[u]) : Taken(u, k, s)' =>
          /\ k \in 1..Len(frames[u]) /\ frames'[u][k] = frames[u][k] /\ Taken(u, k, s)
          /\ u = th => k # Len(frames[th])
  BY <1>5 DEF Taken
<1>16. TakenInv'
  <2> SUFFICES ASSUME NEW u \in Threads, NEW s \in Trees, NEW k \in 1..Len(frames[u]),
                      Taken(u, k, s), u = th => k # Len(frames[th])
               PROVE  /\ localTags'[s][u] # NoTag => frames[u][k].call < localTags'[s][u]
                      /\ frames[u][k].tag # NoTag =>
                            /\ owner[frames[u][k].tag] = u
                            /\ frames[u][k].tag # localTags'[s][u]
                            /\ \A p \in printed[s] : p.tag # frames[u][k].tag
                            /\ \A j \in 1..Len(frames[u]) :
                                  j # k /\ Taken(u, j, s) => frames[u][j].tag # frames[u][k].tag
    BY <1>1, <1>15 DEF TakenInv
  <2>1. frames[u][k].call \in Calls /\ frames[u][k].tag \in {NoTag} \cup Calls
    BY FramesType DEF Frame
  <2>2. CASE localTags'[s][u] = localTags[s][u]
    BY <2>2 DEF TakenInv
  <2>3. CASE u = th /\ localTags'[s][u] = Top(th).call
    <3>1. frames[u][k].call < Top(th).call /\ frames[u][k].tag < Top(th).call
      BY <1>14, <2>3
    <3>2. frames[u][k].tag # Top(th).call
      BY <1>4, <2>1, <3>1 DEF Calls, NoTag
    <3> QED
      BY <2>3, <3>1, <3>2 DEF TakenInv
  <2> QED
    BY <1>10, <2>2, <2>3
<1> QED
  BY <1>5, <1>7, <1>11, <1>12, <1>13, <1>16

LEMMA ForwardInv == ASSUME ForestInv, NEW th \in Threads, Forward(th) PROVE ForestInv'
<1> USE DEF ForestInv
<1>1. /\ ~Idle(th) /\ Top(th).doing = "tag"
      /\ UNCHANGED <<localTags, owner, printed, forestAsArray, isEnable, changes>>
  BY DEF Forward, Tagged, Logging
<1>2. /\ FramesInv'
      /\ frames' \in [Threads -> Seq(Frame)]
      /\ \A u \in Threads : \A k \in 1..Len(frames'[u]) : Within(frames'[u][k])
      /\ \A u \in Threads : ~Idle(u)' /\ Top(u)'.doing = "tag" =>
            ~Idle(u) /\ Top(u).doing = "tag" /\ Top(u)'.call = Top(u).call
      /\ HandsKept
  <2>1. CASE Pop(th)
    BY <1>1, <2>1, Popped, PopFacts DEF HandsKept
  <2>2. CASE SetTop(th, [Top(th) EXCEPT !.doing = "log", !.trees = forestAsArray, !.i = 1])
    <3>1. PICK f : f = [Top(th) EXCEPT !.doing = "log", !.trees = forestAsArray, !.i = 1]
      OBVIOUS
    <3>2. forestAsArray \in Seq(Trees) /\ Len(forestAsArray) \in Nat
      BY DEF TypeOK
    <3>3. /\ f \in Frame /\ f.call = Top(th).call /\ f.doing = "log"
          /\ f.i = 1 /\ f.trees = forestAsArray
      <4>1. Top(th) \in Frame
        BY <1>1, TopFacts
      <4>2. /\ f.call = Top(th).call /\ f.level = Top(th).level /\ f.form = Top(th).form
            /\ f.doing = "log" /\ f.i = 1 /\ f.trees = forestAsArray
        BY <3>1, <4>1 DEF Frame
      <4>3. f = [call |-> Top(th).call, doing |-> "log", trees |-> forestAsArray, i |-> 1,
                 tag |-> Top(th).tag, level |-> Top(th).level, form |-> Top(th).form]
        BY <3>1, <4>1 DEF Frame
      <4> QED
        BY <3>2, <4>1, <4>2, <4>3 DEF Frame
    <3>4. Within(f) /\ SetTop(th, f)
      BY <2>2, <3>1, <3>2, <3>3 DEF Within
    <3> QED
      BY <1>1, <3>3, <3>4, TopChanged, SetTopFacts DEF HandsKept
  <2> QED
    BY <2>1, <2>2 DEF Forward
<1>3. TypeOK'
  <2>1. /\ forestAsArray' \in Seq(Trees) /\ isEnable' \in [Trees -> BOOLEAN]
        /\ localTags' \in [Trees -> [Threads -> {NoTag} \cup Calls]]
        /\ printed' \in [Trees -> SUBSET Output] /\ changes' \in 0..MaxChanges
    BY <1>1 DEF TypeOK, Output
  <2> QED
    BY <1>1, <1>2, <2>1, TypeOfStep
<1>4. HeldInv' /\ OwnTagOnce'
  BY <1>1 DEF HeldInv, OwnTagOnce, ThreadsApart, UsedOnce
<1>5. TaggingInv'
  BY <1>1, <1>2 DEF TaggingInv, Unused
<1>6. TakenInv'
  BY <1>1, <1>2, HandsStay
<1> QED
  BY <1>2, <1>3, <1>4, <1>5, <1>6

LEMMA PrepareLogInv == ASSUME ForestInv, NEW th \in Threads, PrepareLog(th) PROVE ForestInv'
<1> USE DEF ForestInv
<1>1. PICK t \in Trees :
         /\ Reaches(th, "log", t)
         /\ IF Passes(t, Top(th).level)
            THEN /\ localTags' = [localTags EXCEPT ![t][th] = NoTag]
                 /\ Prepares(th, localTags[t][th])
            ELSE NextTree(th) /\ UNCHANGED localTags
         /\ UNCHANGED <<owner, printed>> /\ Logging
  BY DEF PrepareLog
<1>2. /\ ~Idle(th) /\ Top(th).doing = "log" /\ Top(th).i <= Len(Top(th).trees)
      /\ t = Top(th).trees[Top(th).i]
  BY <1>1 DEF Reaches
<1>3. Top(th) \in Frame /\ Within(Top(th)) /\ Top(th).call \in Calls
  BY <1>2, TopFacts DEF Frame
<1>4. /\ localTags \in [Trees -> [Threads -> {NoTag} \cup Calls]]
      /\ localTags[t][th] \in {NoTag} \cup Calls
  BY DEF TypeOK
<1>h. PICK h : h = [Top(th) EXCEPT !.doing = "print", !.tag = localTags[t][th]]
  OBVIOUS
<1>5. /\ h \in Frame /\ Within(h) /\ h.call = Top(th).call /\ h.doing = "print"
      /\ h.tag = localTags[t][th] /\ h.trees = Top(th).trees /\ h.i = Top(th).i
  BY <1>h, <1>3, <1>4 DEF Frame, Within
<1>6. NextTree(th) \/ (SetTop(th, h) /\ localTags' = [localTags EXCEPT ![t][th] = NoTag])
  <2>1. CASE Passes(t, Top(th).level) /\ Top(th).form # "empty"
    BY <1>1, <1>h, <2>1 DEF Prepares
  <2>2. CASE ~(Passes(t, Top(th).level) /\ Top(th).form # "empty")
    BY <1>1, <2>2 DEF Prepares
  <2> QED
    BY <2>1, <2>2
<1>7. /\ FramesInv'
      /\ frames' \in [Threads -> Seq(Frame)]
      /\ \A u \in Threads : \A k \in 1..Len(frames'[u]) : Within(frames'[u][k])
      /\ \A u \in Threads : ~Idle(u)' /\ Top(u)'.doing = "tag" =>
            ~Idle(u) /\ Top(u).doing = "tag" /\ Top(u)'.call = Top(u).call
      /\ \A u \in Threads : \A k \in 1..Len(frames'[u]) : frames'[u][k].doing = "print" =>
            /\ k \in 1..Len(frames[u])
            /\ \/ frames'[u][k] = frames[u][k]
               \/ /\ u = th /\ k = Len(frames[th]) /\ frames'[u][k] = h
                  /\ localTags' = [localTags EXCEPT ![t][th] = NoTag]
  <2>1. CASE NextTree(th)
    BY <1>1, <1>2, <2>1, NextTreeFacts DEF HandsKept
  <2>2. CASE SetTop(th, h) /\ localTags' = [localTags EXCEPT ![t][th] = NoTag]
    BY <1>1, <1>2, <1>5, <2>2, TopChanged, SetTopFacts
  <2> QED
    BY <1>6, <2>1, <2>2
<1>8. /\ localTags' \in [Trees -> [Threads -> {NoTag} \cup Calls]]
      /\ \A s \in Trees, u \in Threads :
            localTags'[s][u] = NoTag \/ localTags'[s][u] = localTags[s][u]
  BY <1>1, <1>4
<1>9. TypeOK'
  <2>1. /\ forestAsArray' \in Seq(Trees) /\ isEnable' \in [Trees -> BOOLEAN]
        /\ printed' \in [Trees -> SUBSET Output] /\ changes' \in 0..MaxChanges
    BY <1>1 DEF TypeOK, Logging, Output
  <2> QED
    BY <1>1, <1>7, <1>8, <2>1, TypeOfStep
<1>10. HeldInv'
  BY <1>1, <1>8 DEF HeldInv
<1>11. TaggingInv'
  BY <1>1, <1>7 DEF TaggingInv, Unused
<1>12. OwnTagOnce'
  BY <1>1 DEF OwnTagOnce, ThreadsApart, UsedOnce
<1>13. TakenInv'
  <2> SUFFICES ASSUME NEW u \in Threads, NEW s \in Trees, NEW k \in 1..Len(frames'[u]),
                      Taken(u, k, s)'
               PROVE  /\ localTags'[s][u] # NoTag => frames'[u][k].call < localTags'[s][u]
                      /\ frames'[u][k].tag # NoTag =>
                            /\ owner[frames'[u][k].tag] = u
                            /\ frames'[u][k].tag # localTags'[s][u]
                            /\ \A p \in printed[s] : p.tag # frames'[u][k].tag
                            /\ \A j \in 1..Len(frames'[u]) :
                                  j # k /\ Taken(u, j, s)' => frames'[u][j].tag # frames'[u][k].tag
    BY <1>1 DEF TakenInv
  <2>1. ASSUME NEW j \in 1..Len(frames'[u]), Taken(u, j, s)'
        PROVE  /\ j \in 1..Len(frames[u])
               /\ \/ frames'[u][j] = frames[u][j] /\ Taken(u, j, s)
                  \/ /\ u = th /\ s = t /\ j = Len(frames[th]) /\ frames'[u][j] = h
                     /\ localTags' = [localTags EXCEPT ![t][th] = NoTag]
    BY <1>2, <1>5, <1>7, <2>1 DEF Taken
  <2>2. CASE frames'[u][k] = frames[u][k] /\ Taken(u, k, s)
    <3>1. k \in 1..Len(frames[u])
      BY <2>1
    <3>2. ASSUME frames[u][k].tag # NoTag, NEW j \in 1..Len(frames'[u]), j # k, Taken(u, j, s)'
          PROVE  frames'[u][j].tag # frames[u][k].tag
      BY <1>5, <2>1, <2>2, <3>1, <3>2 DEF TakenInv
    <3> QED
      BY <1>8, <2>2, <3>1, <3>2 DEF TakenInv
  <2>3. CASE /\ u = th /\ s = t /\ k = Len(frames[th]) /\ frames'[u][k] = h
             /\ localTags' = [localTags EXCEPT ![t][th] = NoTag]
    <3>1. localTags'[s][u] = NoTag
      BY <1>4, <2>3
    <3>2. h.tag # NoTag => /\ owner[h.tag] = th
                           /\ \A p \in printed[t] : p.tag # h.tag
      BY <1>5 DEF HeldInv
    <3>3. ASSUME h.tag # NoTag, NEW j \in 1..Len(frames'[u]), j # k, Taken(u, j, s)'
          PROVE  frames'[u][j].tag # h.tag
      <4>1. j \in 1..Len(frames[th]) /\ frames'[u][j] = frames[th][j] /\ Taken(th, j, t)
        BY <2>1, <2>3, <3>3
      <4> QED
        BY <1>5, <3>3, <4>1 DEF TakenInv
    <3> QED
      BY <2>3, <3>1, <3>2, <3>3
  <2> QED
    BY <2>1, <2>2, <2>3
<1> QED
  BY <1>7, <1>9, <1>10, <1>11, <1>12, <1>13

LEMMA PrintLogInv == ASSUME ForestInv, NEW th \in Threads, PrintLog(th) PROVE ForestInv'
<1> USE DEF ForestInv
<1>1. PICK t \in Trees :
         /\ Reaches(th, "print", t) /\ NextTree(th)
         /\ printed' = [printed EXCEPT ![t] = @ \cup
                           {[call |-> Top(th).call, tag |-> Top(th).tag, nth |-> Top(th).i]}]
         /\ UNCHANGED <<localTags, owner>> /\ Logging
  BY DEF PrintLog
<1>2. /\ ~Idle(th) /\ Top(th).doing = "print" /\ Top(th).i <= Len(Top(th).trees)
      /\ t = Top(th).trees[Top(th).i]
  BY <1>1 DEF Reaches
<1>3. /\ Top(th) \in Frame /\ Top(th).call \in Calls /\ Top(th).i \in Nat
      /\ Top(th).tag \in {NoTag} \cup Calls
  BY <1>2, TopFacts DEF Frame
<1>4. owner[Top(th).call] = th
  BY <1>2, TopFacts DEF FramesInv, Top
<1>5. /\ FramesInv'
      /\ frames' \in [Threads -> Seq(Frame)]
      /\ \A u \in Threads : \A k \in 1..Len(frames'[u]) : Within(frames'[u][k])
      /\ \A u \in Threads : ~Idle(u)' /\ Top(u)'.doing = "tag" =>
            u # th /\ ~Idle(u) /\ Top(u).doing = "tag" /\ Top(u)'.call = Top(u).call
      /\ HandsKept
      /\ \A k \in 1..Len(frames'[th]) : frames'[th][k].doing = "print" => k # Len(frames[th])
  BY <1>1, <1>2, NextTreeFacts
<1>6. PICK p0 : p0 = [call |-> Top(th).call, tag |-> Top(th).tag, nth |-> Top(th).i]
  OBVIOUS
<1>7. /\ p0 \in Output /\ p0.call = Top(th).call /\ p0.tag = Top(th).tag
      /\ printed \in [Trees -> SUBSET Output]
  BY <1>3, <1>6 DEF Output, TypeOK
<1>8. printed' = [printed EXCEPT ![t] = @ \cup {p0}]
  BY <1>1, <1>6
<1>9. /\ \A s \in Trees : s # t => printed'[s] = printed[s]
      /\ \A p \in printed'[t] : p \in printed[t] \/ p = p0
  BY <1>7, <1>8
<1>10. TypeOK'
  <2>1. /\ forestAsArray' \in Seq(Trees) /\ isEnable' \in [Trees -> BOOLEAN]
        /\ localTags' \in [Trees -> [Threads -> {NoTag} \cup Calls]]
        /\ changes' \in 0..MaxChanges /\ UNCHANGED owner
    BY <1>1 DEF TypeOK, Logging
  <2>2. printed' \in [Trees -> SUBSET Output]
    BY <1>7, <1>8
  <2> QED
    BY <1>5, <2>1, <2>2, TypeOfStep
<1>11. /\ Len(frames[th]) \in 1..Len(frames[th]) /\ Taken(th, Len(frames[th]), t)
       /\ Top(th) = frames[th][Len(frames[th])]
  BY <1>2, TopFacts DEF Taken, Top
<1>12. /\ localTags[t][th] # NoTag => p0.call < localTags[t][th]
       /\ p0.tag # NoTag => /\ owner[p0.tag] = th /\ p0.tag # localTags[t][th]
                            /\ \A p \in printed[t] : p.tag # p0.tag
                            /\ \A j \in 1..Len(frames[th]) :
                                  j # Len(frames[th]) /\ Taken(th, j, t) =>
                                     frames[th][j].tag # p0.tag
  BY <1>7, <1>11 DEF TakenInv
<1>13. HeldInv'
  <2> SUFFICES ASSUME NEW s \in Trees, NEW u \in Threads, localTags[s][u] # NoTag,
                      NEW p \in printed'[s]
               PROVE  /\ p.tag # localTags[s][u]
                      /\ owner[p.call] = u => p.call < localTags[s][u]
    BY <1>1 DEF HeldInv
  <2>1. CASE p \in printed[s]
    BY <2>1 DEF HeldInv
  <2>2. CASE p \notin printed[s]
    <3>1. s = t /\ p = p0
      BY <1>9, <2>2
    <3>2. owner[localTags[s][u]] = u
      BY DEF HeldInv
    <3> QED
      BY <1>4, <1>7, <1>12, <3>1, <3>2
  <2> QED
    BY <2>1, <2>2
<1>14. TaggingInv'
  <2> SUFFICES ASSUME NEW u \in Threads, ~Idle(u)', Top(u)'.doing = "tag"
               PROVE  Unused(u, Top(u).call)'
    BY DEF TaggingInv
  <2>1. PICK x : x = Top(u).call
    OBVIOUS
  <2>2. /\ u # th /\ ~Idle(u) /\ Top(u)'.call = x
        /\ Unused(u, x) /\ owner[x] = u /\ x \in Calls
    BY <1>5, <2>1, TopFacts DEF TaggingInv, FramesInv, Top, Frame
  <2>3. x # NoTag
    BY <2>2 DEF Calls, NoTag
  <2>4. ASSUME NEW s \in Trees, NEW p \in printed'[s]
        PROVE  p.tag # x /\ (owner[p.call] = u => p.call < x)
    <3>1. CASE p \in printed[s]
      BY <2>2, <3>1 DEF Unused
    <3>2. CASE p \notin printed[s]
      BY <1>4, <1>7, <1>9, <1>12, <2>2, <2>3, <3>2
    <3> QED
      BY <3>1, <3>2
  <2> QED
    BY <1>1, <2>2, <2>4 DEF Unused
<1>15. OwnTagOnce'
  <2>1. ThreadsApart'
    BY <1>1, <1>4, <1>7, <1>9, <1>12 DEF OwnTagOnce, ThreadsApart
  <2>2. UsedOnce'
    BY <1>9, <1>12 DEF OwnTagOnce, UsedOnce
  <2> QED
    BY <2>1, <2>2 DEF OwnTagOnce
<1>16. TakenInv'
  <2>1. \A u \in Threads, s \in Trees : \A k \in 1..Len(frames'[u]) : Taken(u, k, s)' =>
           /\ k \in 1..Len(frames[u]) /\ frames'[u][k] = frames[u][k] /\ Taken(u, k, s)
           /\ u = th => k # Len(frames[th])
    BY <1>5 DEF Taken, HandsKept
  <2> SUFFICES ASSUME NEW u \in Threads, NEW s \in Trees, NEW k \in 1..Len(frames[u]),
                      Taken(u, k, s), u = th => k # Len(frames[th])
               PROVE  /\ localTags[s][u] # NoTag => frames[u][k].call < localTags[s][u]
                      /\ frames[u][k].tag # NoTag =>
                            /\ owner[frames[u][k].tag] = u
                            /\ frames[u][k].tag # localTags[s][u]
                            /\ \A p \in printed'[s] : p.tag # frames[u][k].tag
                            /\ \A j \in 1..Len(frames[u]) :
                                  j # k /\ Taken(u, j, s) => frames[u][j].tag # frames[u][k].tag
    BY <1>1, <2>1 DEF TakenInv
  <2>2. ASSUME frames[u][k].tag # NoTag, NEW p \in printed'[s]
        PROVE  p.tag # frames[u][k].tag
    <3>1. CASE p \in printed[s]
      BY <2>2, <3>1 DEF TakenInv
    <3>2. CASE p \notin printed[s]
      <4>1. s = t /\ p = p0 /\ owner[frames[u][k].tag] = u
        BY <1>9, <2>2, <3>2 DEF TakenInv
      <4>2. CASE u # th
        BY <1>12, <2>2, <4>1, <4>2
      <4>3. CASE u = th
        BY <1>12, <2>2, <4>1, <4>3
      <4> QED
        BY <4>2, <4>3
    <3> QED
      BY <3>1, <3>2
  <2> QED
    BY <2>2 DEF TakenInv
<1> QED
  BY <1>5, <1>10, <1>13, <1>14, <1>15, <1>16

-------------------------------------------------------------------------------
(* The theorems *)

LEMMA NextForest == ForestInv /\ [Next]_vars => ForestInv'
<1> SUFFICES ASSUME ForestInv, [Next]_vars PROVE ForestInv'
  OBVIOUS
<1>1. CASE \E th \in Threads : \E level \in 1..MaxLevel, form \in Forms : Call(th, level, form)
  BY <1>1, CallInv
<1>2. CASE \E th \in Threads : SetTag(th) \/ Forward(th) \/ PrepareLog(th) \/ PrintLog(th)
  BY <1>2, SetTagInv, ForwardInv, PrepareLogInv, PrintLogInv
<1>3. CASE \/ \E t \in Trees : Plant(t) \/ Uproot(t) \/ ConfigAllowLog(t)
           \/ UprootAll \/ UNCHANGED vars
  BY <1>3, ChangesInv
<1> QED
  BY <1>1, <1>2, <1>3 DEF Next

\* In every state frames, held tags and calls fit each other (SoulsTree 12-228, Tree 235-345).
THEOREM ForestInductive == Spec => []ForestInv
BY InitForest, NextForest, PTL DEF Spec

\* The loops stay within the arrays they read, for any number of trees and threads and
\* however often trees are planted and uprooted meanwhile.
THEOREM ForestTypeCorrect == Spec => []TypeOK
<1>1. ForestInv => TypeOK
  BY DEF ForestInv
<1> QED
  BY <1>1, ForestInductive, PTL

\* No message bears another thread's tag, and no tree puts a tag out twice.
THEOREM TagsApartAndOnce == Spec => []OwnTagOnce
<1>1. ForestInv => OwnTagOnce
  BY DEF ForestInv
<1> QED
  BY <1>1, ForestInductive, PTL

\* A tag that stays behind is newer than all the tree has put out for its thread.
THEOREM StaleTagIsNewest == Spec => []HeldTagIsNewest
<1>1. ForestInv => HeldTagIsNewest
  BY DEF ForestInv, HeldInv, HeldTagIsNewest
<1> QED
  BY <1>1, ForestInductive, PTL
===============================================================================
