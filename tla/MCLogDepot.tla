------------------------------ MODULE MCLogDepot ------------------------------
EXTENDS LogDepot

NoEvents == [e \in Events |-> 0]
\* Two midnights, a crash, a card that fills up
MCBudget == [NoEvents EXCEPT !["midnight"] = 2, !["crash"] = 1, !["space"] = 1, !["minute"] = 1]
\* A card that fills up
MCFull == [NoEvents EXCEPT !["midnight"] = 2, !["space"] = 2]
MCMinutes == [NoEvents EXCEPT !["minute"] = 4, !["space"] = 1]
\* A clock that is also set back
MCBack == [NoEvents EXCEPT !["midnight"] = 1, !["back"] = 1]
MCClock == [NoEvents EXCEPT !["midnight"] = 1, !["back"] = 1, !["minute"] = 1, !["crash"] = 1]
===============================================================================
