--------------------------- MODULE CommandStream ---------------------------
(***************************************************************************)
(* What the command FIFO promises to everybody above it: the device reads  *)
(* one stream of dwords, commands enter that stream whole and in the order *)
(* in which they were committed, and nothing that was committed is lost,   *)
(* repeated or altered.  SvgaFifo implements this specification.           *)
(***************************************************************************)
EXTENDS Integers, Sequences

CONSTANTS Command,      \* the commands, each a sequence of dwords
          Capacity      \* the most dwords the stream ever holds

VARIABLE queue          \* the committed dwords the device has not read

Init == queue = << >>

Submit == \E cmd \in Command : /\ Len(queue) + Len(cmd) <= Capacity
                               /\ queue' = queue \o cmd

Consume == queue # << >> /\ queue' = Tail(queue)

Next == Submit \/ Consume

Spec == Init /\ [][Next]_queue
=============================================================================
