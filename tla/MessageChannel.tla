--------------------------- MODULE MessageChannel ---------------------------
(***************************************************************************)
(* What fins::Pipe promises the threads that send and the one that         *)
(* listens, while it does not overflow: a first-in first-out channel that  *)
(* can be closed.  A send into a closed channel is dropped; one that had   *)
(* begun before still goes through.  Nothing that has begun is lost, and   *)
(* nothing is delivered twice.                                             *)
(***************************************************************************)
EXTENDS Naturals, Sequences

CONSTANTS Producers,  \* the threads that send
          Capacity,   \* most messages the channel holds
          Quota       \* bound: messages each producer sends

VARIABLES sent,       \* sends each producer has begun; <<p, k>> is its k-th
          underWay,   \* the messages of sends that have begun and not ended
          fifo,       \* the messages in the channel, oldest first
          delivered,  \* number of the last message of each producer delivered
          open        \* is the channel open?

vars == <<sent, underWay, fifo, delivered, open>>

Init ==
  /\ sent = [p \in Producers |-> 0]
  /\ underWay = {}
  /\ fifo = <<>>
  /\ delivered = [p \in Producers |-> 0]
  /\ open = TRUE

Number(p) == sent[p] < Quota /\ sent' = [sent EXCEPT ![p] = @ + 1]

Begin(p) ==
  /\ open /\ Number(p)
  /\ underWay' = underWay \cup {<<p, sent[p] + 1>>}
  /\ UNCHANGED <<fifo, delivered, open>>

Drop(p) ==
  /\ ~ open /\ Number(p)
  /\ UNCHANGED <<underWay, fifo, delivered, open>>

Put(m) ==
  /\ Len(fifo) < Capacity
  /\ fifo' = Append(fifo, m)
  /\ underWay' = underWay \ {m}
  /\ UNCHANGED <<sent, delivered, open>>

Take ==
  /\ fifo # <<>>
  /\ fifo' = Tail(fifo)
  /\ delivered' = [delivered EXCEPT ![Head(fifo)[1]] = Head(fifo)[2]]
  /\ UNCHANGED <<sent, underWay, open>>

Close ==
  /\ open' = FALSE
  /\ UNCHANGED <<sent, underWay, fifo, delivered>>

Next ==
  \/ \E p \in Producers : Begin(p) \/ Drop(p)
  \/ \E m \in underWay : Put(m)
  \/ Take
  \/ Close

Spec == Init /\ [][Next]_vars
=============================================================================
