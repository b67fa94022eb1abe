-------------------------- MODULE MCActionManager --------------------------
\* Two commanders and two actions; the actor of one finishes in its callback.
EXTENDS ActionManager
=============================================================================
