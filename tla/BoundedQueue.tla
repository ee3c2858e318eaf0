---------------------------- MODULE BoundedQueue ----------------------------
(***************************************************************************)
(* What the ring buffers of src/concurrency/ are meant to be: a first-in   *)
(* first-out queue that holds at most Capacity items, from which nothing   *)
(* is taken that was not put in.  Items are numbered in the order in which *)
(* they are put in.                                                        *)
(***************************************************************************)
EXTENDS Integers, Sequences

CONSTANT Capacity

VARIABLES queue,      \* the items in the queue, oldest first
          put,        \* how many items have been put in
          got         \* the items taken out, in order

vars == <<queue, put, got>>

Init == queue = << >> /\ put = 0 /\ got = << >>

Put == /\ Len(queue) < Capacity
       /\ put' = put + 1
       /\ queue' = Append(queue, put + 1)
       /\ UNCHANGED got

Take == /\ queue # << >>
        /\ got' = Append(got, Head(queue))
        /\ queue' = Tail(queue)
        /\ UNCHANGED put

Next == Put \/ Take

Spec == Init /\ [][Next]_vars
=============================================================================
