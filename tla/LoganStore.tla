------------------------------ MODULE LoganStore ------------------------------
(***************************************************************************)
(* What the native library promises to LoganThread: log lines go to the    *)
(* file that is open, at once or through a buffer that is written as a     *)
(* whole, and another file is opened only when the buffer is empty.  Only  *)
(* the end of the process, or a file that is gone, costs buffered lines.   *)
(* The store breaks when the process ends within a step of the library;    *)
(* then nothing is promised any more.                                      *)
(***************************************************************************)
CONSTANTS Names, None, Lines

VARIABLES
    stored,    \* stored[p]: the lines in log file p
    buffered,  \* the lines in the buffer
    target,    \* the file the buffer belongs to
    broken     \* whether the process has ended within a step

vars == <<stored, buffered, target, broken>>

Known == buffered \cup UNION {stored[p] : p \in Names}

Init == /\ stored = [p \in Names |-> {}]
        /\ buffered = {}
        /\ target = None
        /\ broken = FALSE

Open(p) == /\ buffered = {}
           /\ target' = p
           /\ UNCHANGED <<stored, buffered>>

\* A line is in the buffer, or the buffer was written with it.
Take(w) == /\ target # None /\ w \notin Known
           /\ \/ /\ buffered' = buffered \cup {w}
                 /\ UNCHANGED stored
              \/ /\ buffered = {}
                 /\ stored' = [stored EXCEPT ![target] = @ \cup {w}]
                 /\ UNCHANGED buffered
           /\ UNCHANGED target

Flush == /\ target # None
         /\ stored' = [stored EXCEPT ![target] = @ \cup buffered]
         /\ buffered' = {}
         /\ UNCHANGED target

Lose == /\ buffered' \in SUBSET buffered
        /\ target' = target \/ (buffered' = {} /\ target' = None)
        /\ UNCHANGED stored

Works == \/ \E p \in Names : Open(p)
         \/ \E w \in Lines : Take(w)
         \/ Flush
         \/ Lose

Break == broken' = TRUE

Next == (~broken /\ Works /\ UNCHANGED broken) \/ Break

Spec == Init /\ [][Next]_vars
===============================================================================
