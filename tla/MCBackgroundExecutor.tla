-------------------------- MODULE MCBackgroundExecutor --------------------------
EXTENDS BackgroundExecutor, TLC

CONSTANTS t1, t2, t3
\* One task of each kind
MCKind == t1 :> "execute" @@ t2 :> "schedule" @@ t3 :> "submit"
===============================================================================
