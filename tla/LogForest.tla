------------------------------ MODULE LogForest ------------------------------
(***************************************************************************)
(* The Logz facade and its trees.  A logging call first leaves its tag at   *)
(* every planted tree, then hands the message to every planted tree.  Each   *)
(* of the two loops reads the array of trees anew, while other threads plant *)
(* and uproot, and a tree keeps one tag for each thread until a message of   *)
(* that thread passes its filter.  An object that logs while it is turned    *)
(* into text starts a call within a call: a json or a collection before the  *)
(* filter, an argument of String.format or a Throwable after the tree has    *)
(* let go of its tag and before it puts the message out.  A tag is named by  *)
(* the call that brought it, so that a message can be seen to bear the tag   *)
(* of another one.                                                           *)
(***************************************************************************)
EXTENDS Naturals, Sequences

CONSTANTS
    Trees, Threads,
    Planted,      \* what the app has planted before anything is logged
    MimLogLevel,  \* MimLogLevel[t]: what tree t is configured to let through
    MaxLevel,     \* levels are 1..MaxLevel
    MaxCalls,     \* bound: logging calls
    MaxForest,    \* bound: planted trees, a tree planted twice counted twice
    MaxChanges    \* bound: plantings, uprootings and changes of the configuration

ASSUME ForestAssumption ==
    /\ Planted \in Seq(Trees)
    /\ MaxLevel \in Nat /\ MimLogLevel \in [Trees -> 1..MaxLevel]
    /\ MaxCalls \in Nat /\ MaxForest \in Nat /\ MaxChanges \in Nat

VARIABLES
    forestAsArray,  \* the planted trees, FOREST and its published copy
    isEnable,       \* isEnable[t]: the configuration of tree t allows output
    localTags,      \* localTags[t][th]: the tag tree t keeps for thread th
    frames,         \* frames[th]: the logging calls thread th is in, the innermost last
    owner,          \* owner[c]: the thread that made call c
    printed,        \* history: what each tree put out
    changes         \* plantings, uprootings and changes so far

vars == <<forestAsArray, isEnable, localTags, frames, owner, printed, changes>>

\* An "empty" message ends after the filter.  A "lost" one reaches no tree at all: it is
\* log(priority, ...), which SoulsTree does not pass on, or a json that is neither an object
\* nor an array; its level plays no part.
Forms == {"full", "empty", "lost"}
NoTag == 0
Calls == 1..Len(owner)
Idle(th) == frames[th] = <<>>
Top(th) == frames[th][Len(frames[th])]
SetTop(th, f) == frames' = [frames EXCEPT ![th] = [@ EXCEPT ![Len(@)] = f]]
Pop(th) == frames' = [frames EXCEPT ![th] = SubSeq(@, 1, Len(@) - 1)]

\* Type: the loops stay within the array they read, and calls are numbered as made.
TypeOK ==
    /\ forestAsArray \in Seq(Trees)
    /\ isEnable \in [Trees -> BOOLEAN]
    /\ owner \in Seq(Threads)
    /\ localTags \in [Trees -> [Threads -> {NoTag} \cup Calls]]
    /\ frames \in [Threads -> Seq([call : Calls, doing : {"tag", "log", "print"},
                                   trees : Seq(Trees), i : Nat \ {0}, tag : {NoTag} \cup Calls,
                                   level : 1..MaxLevel, form : Forms])]
    /\ \A th \in Threads : \A k \in 1..Len(frames[th]) :
          frames[th][k].i \in 1..(Len(frames[th][k].trees) + 1)
    /\ printed \in [Trees -> SUBSET [call : Calls, tag : {NoTag} \cup Calls, nth : Nat]]
    /\ changes \in 0..MaxChanges

Init ==
    /\ forestAsArray = Planted
    /\ isEnable = [t \in Trees |-> TRUE]
    /\ localTags = [t \in Trees |-> [th \in Threads |-> NoTag]]
    /\ frames = [th \in Threads |-> <<>>]
    /\ owner = <<>>
    /\ printed = [t \in Trees |-> {}]
    /\ changes = 0

-------------------------------------------------------------------------------
(* The forest, under its lock, and the configuration, under none. *)

Changes == changes < MaxChanges /\ changes' = changes + 1
             /\ UNCHANGED <<localTags, frames, owner, printed>>

Plant(t) ==
    /\ Changes /\ Len(forestAsArray) < MaxForest
    /\ forestAsArray' = Append(forestAsArray, t)
    /\ UNCHANGED isEnable

\* Of a tree planted twice the first planting goes.
Uproot(t) ==
    /\ Changes
    /\ \E k \in 1..Len(forestAsArray) :
          /\ forestAsArray[k] = t
          /\ \A j \in 1..(k - 1) : forestAsArray[j] # t
          /\ forestAsArray' = SubSeq(forestAsArray, 1, k - 1)
                                \o SubSeq(forestAsArray, k + 1, Len(forestAsArray))
    /\ UNCHANGED isEnable

UprootAll ==
    /\ Changes /\ forestAsArray' = <<>> /\ UNCHANGED isEnable

ConfigAllowLog(t) ==
    /\ Changes
    /\ isEnable' = [isEnable EXCEPT ![t] = ~@]
    /\ UNCHANGED forestAsArray

-------------------------------------------------------------------------------
(* A logging call of thread th, from tag(...) on. *)

Logging == UNCHANGED <<forestAsArray, isEnable, changes>>

\* Within a call only where an object is turned into text: before the tree filters
\* (objectToString), or once it has taken the tag (String.format, printStackTrace).
Call(th, level, form) ==
    /\ Len(owner) < MaxCalls /\ (form = "lost" => level = 1)
    /\ \/ Idle(th)
       \/ /\ ~Idle(th)
          /\ Top(th).doing # "tag" /\ Top(th).form = "full"
    /\ owner' = Append(owner, th)
    /\ frames' = [frames EXCEPT ![th] = Append(@, [call |-> Len(owner) + 1, doing |-> "tag",
                       trees |-> forestAsArray, i |-> 1, tag |-> NoTag,
                       level |-> level, form |-> form])]
    /\ UNCHANGED <<localTags, printed>> /\ Logging

\* The next tree of the loop that thread th is in.
Reaches(th, step, t) ==
    /\ ~Idle(th) /\ Top(th).doing = step
    /\ Top(th).i <= Len(Top(th).trees) /\ t = Top(th).trees[Top(th).i]
Advances(th) == SetTop(th, [Top(th) EXCEPT !.i = @ + 1])

\* A fault: a plain field instead of the ThreadLocal.
SetTagShared(th) ==
    \E t \in Trees :
       /\ Reaches(th, "tag", t) /\ Advances(th)
       /\ localTags' = IF isEnable[t] /\ localTags[t][th] = NoTag
                       THEN [localTags EXCEPT ![t] = [u \in Threads |-> Top(th).call]] ELSE localTags
       /\ UNCHANGED <<owner, printed>> /\ Logging

SetTag(th) ==
    \E t \in Trees :
       /\ Reaches(th, "tag", t) /\ Advances(th)
       /\ localTags' = IF isEnable[t] /\ localTags[t][th] = NoTag
                       THEN [localTags EXCEPT ![t][th] = Top(th).call] ELSE localTags
       /\ UNCHANGED <<owner, printed>> /\ Logging

Tagged(th) == ~Idle(th) /\ Top(th).doing = "tag" /\ Top(th).i > Len(Top(th).trees)

\* A fault: the index of the tagging loop is carried on into the other one.
ForwardNoReset(th) ==
    /\ Tagged(th)
    /\ SetTop(th, [Top(th) EXCEPT !.doing = "log", !.trees = forestAsArray])
    /\ UNCHANGED <<localTags, owner, printed>> /\ Logging

\* The message follows its tag, to the trees that are planted by now.
Forward(th) ==
    /\ Tagged(th)
    /\ IF Top(th).form = "lost" \/ forestAsArray = <<>> THEN Pop(th)
       ELSE SetTop(th, [Top(th) EXCEPT !.doing = "log", !.trees = forestAsArray, !.i = 1])
    /\ UNCHANGED <<localTags, owner, printed>> /\ Logging

Passes(t, level) == isEnable[t] /\ level >= MimLogLevel[t]

\* On to the next tree of the array, or back to the caller.
NextTree(th) ==
    IF Top(th).i = Len(Top(th).trees) THEN Pop(th)
    ELSE SetTop(th, [Top(th) EXCEPT !.doing = "log", !.i = @ + 1, !.tag = NoTag])

\* The tree looks at the text of the message, with its tag in hand.
Prepares(th, tag) ==
    IF Top(th).form = "empty" THEN NextTree(th)
    ELSE SetTop(th, [Top(th) EXCEPT !.doing = "print", !.tag = tag])

\* A fault: localTags.remove() forgotten.
PrepareLogKeeps(th) ==
    \E t \in Trees :
       /\ Reaches(th, "log", t)
       /\ IF Passes(t, Top(th).level) THEN Prepares(th, localTags[t][th]) ELSE NextTree(th)
       /\ UNCHANGED <<localTags, owner, printed>> /\ Logging

\* prepareLog, as far as generateTag: the filter, then the tag leaves the tree, whatever
\* becomes of the message.
PrepareLog(th) ==
    \E t \in Trees :
       /\ Reaches(th, "log", t)
       /\ IF Passes(t, Top(th).level)
          THEN /\ localTags' = [localTags EXCEPT ![t][th] = NoTag]
               /\ Prepares(th, localTags[t][th])
          ELSE NextTree(th) /\ UNCHANGED localTags
       /\ UNCHANGED <<owner, printed>> /\ Logging

\* The rest of prepareLog, when getCombineLogMsg has returned: the message goes out.
PrintLog(th) ==
    \E t \in Trees :
       /\ Reaches(th, "print", t) /\ NextTree(th)
       /\ printed' = [printed EXCEPT ![t] = @ \cup
                         {[call |-> Top(th).call, tag |-> Top(th).tag, nth |-> Top(th).i]}]
       /\ UNCHANGED <<localTags, owner>> /\ Logging

Next ==
    \/ \E t \in Trees : Plant(t) \/ Uproot(t) \/ ConfigAllowLog(t)
    \/ UprootAll
    \/ \E th \in Threads :
          \/ \E level \in 1..MaxLevel, form \in Forms : Call(th, level, form)
          \/ SetTag(th) \/ Forward(th) \/ PrepareLog(th) \/ PrintLog(th)

Spec == Init /\ [][Next]_vars

-------------------------------------------------------------------------------
(* Properties. *)

\* Whatever the interleaving, no message bears a tag that another thread set: a tree is
\* one object for all threads, and only its ThreadLocal keeps their tags apart.  And a tree
\* puts a tag out at most once, even one that is planted twice, was uprooted and planted
\* again, or logs a message while it prepares another (Logz 56: use only once).
ThreadsApart ==
    \A t \in Trees : \A p \in printed[t] : p.tag # NoTag => owner[p.tag] = owner[p.call]
UsedOnce ==
    \A t \in Trees : \A p, q \in printed[t] : p.tag = q.tag /\ p.tag # NoTag => p = q
OwnTagOnce == ThreadsApart /\ UsedOnce

\* A tag that stays behind at a tree is newer than everything the tree has put out for that
\* thread: what passes the filter always clears the tree, so a stale tag reaches back over
\* filtered messages only.
HeldTagIsNewest ==
    \A t \in Trees, th \in Threads :
       localTags[t][th] # NoTag =>
          \A p \in printed[t] : owner[p.call] = th => p.call < localTags[t][th]

\* What the comment at Logz 56 promises of a temporary tag, "temp tag use only once", read
\* from the message's side: a message bears its own tag or the fallback, never the tag that
\* an earlier message left at a tree which filtered it.
TagOfItsMessage ==
    \A t \in Trees : \A p \in printed[t] : p.tag \in {NoTag, p.call}
===============================================================================
