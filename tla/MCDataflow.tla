----------------------------- MODULE MCDataflow -----------------------------
\* Two dataflows: a chain of a source, a relay and a sink, and a pair of a
\* source and a sink.  The file lists steps and pipes in an order of its own;
\* the map of steps has them by id.
EXTENDS Dataflow

CONSTANTS source, relay, sink, p1, p2

ChainFrom == (p1 :> source) @@ (p2 :> relay)
ChainTo == (p1 :> relay) @@ (p2 :> sink)
ChainNodes == <<sink, source, relay>>
ChainById == <<relay, sink, source>>
ChainOrder == <<source, relay, sink>>
ChainConnects == <<p2, p1>>

PairFrom == (p1 :> source)
PairTo == (p1 :> sink)
PairNodes == <<sink, source>>
PairById == <<sink, source>>
PairOrder == <<source, sink>>
PairConnects == <<p1>>
=============================================================================
