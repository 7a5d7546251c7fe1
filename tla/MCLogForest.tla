----------------------------- MODULE MCLogForest -----------------------------
EXTENDS LogForest, TLC
CONSTANTS DebugTree, FileSaveTree, Main, Logan

\* DebugTree lets everything through, FileSaveTree the higher of two levels.
Levels == [t \in Trees |-> IF t = FileSaveTree THEN 2 ELSE 1]
AtStart == <<FileSaveTree>>
ThreadSymmetry == Permutations(Threads)
===============================================================================
