----------------------------- MODULE MCUploadFlow -----------------------------
EXTENDS UploadFlow, TLC

NoEvents == [e \in Events |-> 0]
\* Everything the environment can do, in one process and after a crash
MCBudget == [NoEvents EXCEPT !["feedback"] = 2, !["evict"] = 1, !["crash"] = 1, !["outage"] = 1]
\* Concurrent uploads of one file
MCTasks == [NoEvents EXCEPT !["feedback"] = 1, !["force"] = 1, !["evict"] = 1, !["crash"] = 1]
MCForced == [NoEvents EXCEPT !["feedback"] = 1, !["force"] = 2]
MCOutage == [NoEvents EXCEPT !["feedback"] = 2, !["outage"] = 2]
MCFeedBacks == [NoEvents EXCEPT !["feedback"] = 4]

Symmetry == Permutations(Timers)
===============================================================================
