---------------------------- MODULE BoundedFifo ----------------------------
(***************************************************************************)
(* What one endpoint pair of fins::SPSCQueue promises to its producer and  *)
(* its consumer: a first-in first-out channel of at most Capacity          *)
(* messages.  Each side works from what it knows.  The producer may put    *)
(* while it knows of room, the consumer may take what is ready for it;     *)
(* knowledge of a take (room) and of a put (ready) reaches the other side  *)
(* some time after the fact, because the two indices are published with    *)
(* release stores and read with acquire loads.                             *)
(***************************************************************************)
EXTENDS Naturals, Sequences

CONSTANTS Capacity,   \* most messages the channel holds
          Msg,        \* messages
          None        \* the answer of a take that found nothing

VARIABLES fifo,       \* the messages in the channel, oldest first
          room,       \* free places the producer knows of
          ready,      \* messages the consumer can see
          accepted,   \* answer of the producer's last put
          got         \* answer of the consumer's last take

vars == <<fifo, room, ready, accepted, got>>

Init ==
  /\ fifo = <<>>
  /\ room = Capacity
  /\ ready = 0
  /\ accepted = FALSE
  /\ got = None

Put(m) ==
  /\ room > 0
  /\ fifo' = Append(fifo, m)
  /\ room' = room - 1
  /\ accepted' = TRUE
  /\ UNCHANGED <<ready, got>>

Refuse ==
  /\ room = 0
  /\ accepted' = FALSE
  /\ UNCHANGED <<fifo, room, ready, got>>

Take ==
  /\ ready > 0
  /\ got' = Head(fifo)
  /\ fifo' = Tail(fifo)
  /\ ready' = ready - 1
  /\ UNCHANGED <<room, accepted>>

FindNothing ==
  /\ ready = 0
  /\ got' = None
  /\ UNCHANGED <<fifo, room, ready, accepted>>

\* The producer learns of a place that a take has freed.
LearnRoom ==
  /\ room + Len(fifo) < Capacity
  /\ room' = room + 1
  /\ UNCHANGED <<fifo, ready, accepted, got>>

\* The consumer learns of a message that has been put.
LearnReady ==
  /\ ready < Len(fifo)
  /\ ready' = ready + 1
  /\ UNCHANGED <<fifo, room, accepted, got>>

Next ==
  \/ \E m \in Msg : Put(m)
  \/ Refuse
  \/ Take
  \/ FindNothing
  \/ LearnRoom
  \/ LearnReady

Spec == Init /\ [][Next]_vars
=============================================================================
