--------------------------- MODULE MCPermissionFlow ---------------------------
EXTENDS PermissionFlow, TLC
CONSTANTS r1, r2, r3, p, q

\* One request for both permissions, one for the second of them, which is filtered when
\* it is built later and not overOnce, and one for p that the bridge checks itself.
WantedHere == (r1 :> {p, q}) @@ (r2 :> {q}) @@ (r3 :> {p})
===============================================================================
