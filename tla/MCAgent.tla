------------------------------ MODULE MCAgent -------------------------------
\* One step, which may be found busy: its messages are handled by its listener and,
\* from some time on, by the pool.
EXTENDS Agent

CONSTANTS a
=============================================================================
