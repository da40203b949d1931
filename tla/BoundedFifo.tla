----------------------------- MODULE BoundedFifo -----------------------------
(***************************************************************************)
(* What a single-producer / single-consumer queue promises, without         *)
(* indices, slots or intermediate steps: blocks of items go in at one end   *)
(* and come out at the other in the same order, a block becomes visible as  *)
(* a whole, and the queue never holds more than Capacity items.  Items are  *)
(* numbered in the order the producer offers them.                          *)
(***************************************************************************)
EXTENDS Naturals, Sequences

CONSTANT Capacity   \* the most items the queue holds

VARIABLES
  queue,            \* the items accepted and not yet handed out, oldest first
  nextIn,           \* the number of the next item the producer offers
  taken             \* the block the consumer was handed last

fifoVars == <<queue, nextIn, taken>>

Init ==
  /\ queue = <<>>
  /\ nextIn = 0
  /\ taken = <<>>

\* The producer hands over a block of n items, all of them at once.
Put(n) ==
  /\ Len(queue) + n <= Capacity
  /\ queue' = queue \o [k \in 1 .. n |-> nextIn + k - 1]
  /\ nextIn' = nextIn + n
  /\ UNCHANGED taken

\* The consumer receives the n oldest items.
Take(n) ==
  /\ n <= Len(queue)
  /\ taken' = SubSeq(queue, 1, n)
  /\ queue' = SubSeq(queue, n + 1, Len(queue))
  /\ UNCHANGED nextIn

\* Everything waiting is thrown away; numbering goes on.
Discard ==
  /\ queue' = <<>>
  /\ UNCHANGED <<nextIn, taken>>

Next ==
  \/ \E n \in 1 .. Capacity : Put(n) \/ Take(n)
  \/ Discard

Spec == Init /\ [][Next]_fifoVars
==============================================================================
