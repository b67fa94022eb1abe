---------------------------- MODULE MCSpscQueue ----------------------------
\* fins::SPSCQueue with four slots (Capacity 3) and two distinct messages.
EXTENDS SpscQueue
=============================================================================
