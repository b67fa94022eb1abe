-------------------------- MODULE MCThreadManager --------------------------
\* Two workers, and two listeners whose steps hash to the first of them.
EXTENDS ThreadManager, TLC

CONSTANTS c1, c2

OneStep == (c1 :> 0) @@ (c2 :> 0)
=============================================================================
