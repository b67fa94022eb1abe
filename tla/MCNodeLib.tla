----------------------------- MODULE MCNodeLib -----------------------------
\* A plugin that is built again and again, and one that turns up later.  The
\* files: a fork that joins, listed backwards, with two ports on one source; a
\* step behind a cycle; files that fail in the first or the second pass.  Any file
\* can fail in the third one while the third build of A is in use.
EXTENDS NodeLib, SequencesExt

CONSTANTS s1, s2, s3, worker, tool, A, B

Alphabetic ==
  [S \in SUBSET Steps |-> SelectSeq(<<s1, s2, s3>>, LAMBDA s : s \in S)]
OfPlugin == (worker :> A) @@ (tool :> B)
Found == (A :> 1) @@ (B :> 0)
Made == (A :> 4) @@ (B :> 2)

Item(s, k) == [id |-> s, class |-> k, values |-> {"known", "unknown"}]
Wire(s, t) == [from |-> s, to |-> t, fits |-> TRUE]

Fork == [nodes |-> <<Item(s3, worker), Item(s2, worker), Item(s1, worker)>>,
         pipes |-> <<Wire(s1, s3), Wire(s2, s3), Wire(s1, s3), Wire(s1, s2)>>]
Cycle == [nodes |-> <<Item(s3, worker), Item(s2, worker), Item(s1, worker)>>,
          pipes |-> <<Wire(s1, s3), Wire(s3, s2), Wire(s2, s3)>>]
Mixed == [nodes |-> <<Item(s2, worker), Item(s1, tool)>>,
          pipes |-> <<Wire(s1, s2)>>]
Twice == [nodes |-> <<Item(s1, worker), Item(s1, worker)>>, pipes |-> <<>>]
Misfit == [nodes |-> <<Item(s1, worker)>>,
           pipes |-> <<[from |-> s1, to |-> s1, fits |-> FALSE]>>]
Hang == [nodes |-> <<[id |-> s1, class |-> worker, values |-> {"bad"}]>>,
         pipes |-> <<>>]
AllFiles == {Fork, Cycle, Mixed, Twice, Misfit, Hang}
Unopened == {<<A, 2>>}
Unready == {<<B, 1>>}
Uninitialized == {<<A, 3>>}
Keeping == {<<B, 2>>}
=============================================================================
