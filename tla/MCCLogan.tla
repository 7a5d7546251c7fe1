------------------------------- MODULE MCCLogan -------------------------------
EXTENDS CLogan, TLC

\* A crash between two steps and one within a step, a mapped file that is deleted, a file that is moved away
MCBudget == [e \in Events |-> IF e = "noopen" THEN 0 ELSE 1]
\* Two crashes between steps and one within a step, and a file that cannot be opened
MCCrashes == [e \in Events |-> IF e = "crash" THEN 2 ELSE IF e \in {"tear", "noopen"} THEN 1 ELSE 0]

NameSymmetry == Permutations(Names)
===============================================================================
