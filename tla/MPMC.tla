-------------------------------- MODULE MPMC --------------------------------
(***************************************************************************)
(* MPMC.c: producers and consumers of tasks share an array through         *)
(* add_item() and pop_item(), under one mutex and two condition variables. *)
(* A thread that holds mutexQ gives it up only by waiting or unlocking, so *)
(* what it does with it is one action.  pthread_cond_signal() wakes one    *)
(* waiter, if there is one; waiters may also wake up for no reason.        *)
(*                                                                         *)
(* is_full() takes the index after tail modulo size, but neither tail nor  *)
(* head ever wraps: the array, malloc()ed for size tasks, is overrun as    *)
(* soon as more than size tasks have been added.  An access beyond it, and *)
(* the one that executeTask() makes beyond its array fn[], is undefined:   *)
(* it may end the process, and what is read there may be anything.         *)
(*                                                                         *)
(* A task is the number of tasks added before it, plus one.                *)
(***************************************************************************)
EXTENDS Integers, Sequences, FiniteSets

CONSTANTS Producers, Consumers,
          Rounds,       \* the tasks each producer makes (25)
          Size,         \* tq.size
          Spurious,     \* whether a waiter may wake up unsignalled
          StraysKill    \* whether an access out of bounds may end the process

ASSUME MPMCAssumption ==
  /\ IsFiniteSet(Producers) /\ IsFiniteSet(Consumers)
  /\ Producers \intersect Consumers = {}
  /\ Consumers # {}   \* CONSUMER_NUM is 4
  /\ Rounds \in Nat
  /\ Size \in Nat \ {0}
  /\ Spurious \in BOOLEAN
  /\ StraysKill \in BOOLEAN

Threads == Producers \union Consumers
Total == Rounds * Cardinality(Producers)
Task == 0..Total      \* 0 is what fresh memory holds
Address == 0..Total   \* in units of a Task, from tq.t

VARIABLES head, tail,
          memory,     \* what is at tq.t and after it
          at,         \* at[th]: where thread th stands
          produced,   \* produced[p]: i, the tasks p has added
          got,        \* the tasks popped, in order
          fate        \* whether the process runs or has aborted

vars == <<head, tail, memory, at, produced, got, fate>>

TypeOK ==
  /\ head \in 0..Total /\ tail \in 0..Total /\ head <= tail
  /\ memory \in [Address -> Task]
  /\ at \in [Threads -> {"ready", "waiting", "execute", "done"}]
  /\ produced \in [Producers -> 0..Rounds]
  /\ got \in Seq(Task)
  /\ fate \in {"running", "aborted"}

Init ==
  /\ head = 0 /\ tail = 0
  /\ memory = [a \in Address |-> 0]
  /\ at = [th \in Threads |-> IF Rounds = 0 /\ th \in Producers THEN "done" ELSE "ready"]
  /\ produced = [p \in Producers |-> 0]
  /\ got = << >>
  /\ fate = "running"

-----------------------------------------------------------------------------
(* Mutant: no slot is left empty.                                          *)
is_full_Late == tail - head >= Size

is_full == head = (tail + 1) % Size
is_empty == head = tail

Waiting(S) == {th \in S : at[th] = "waiting"}
Ready(S) == {th \in S : at[th] = "ready"}

(* pthread_cond_signal() to the waiters among S; thread th goes on to where. *)
Signal(th, where, S) ==
  IF Waiting(S) = {}
  THEN at' = [at EXCEPT ![th] = where]
  ELSE \E w \in Waiting(S) : at' = [at EXCEPT ![th] = where, ![w] = "ready"]

(* An access to tq.t[a], or one that is always beyond its array.           *)
AccessTo(a) == fate' \in IF a >= Size /\ StraysKill THEN {"running", "aborted"} ELSE {fate}
AccessBeyond == AccessTo(Size)

add_item ==
  /\ memory' = [memory EXCEPT ![tail] = tail + 1]
  /\ tail' = tail + 1
  /\ AccessTo(tail)

pop_item ==
  /\ \E task \in IF head < Size THEN {memory[head]} ELSE Task :
       got' = Append(got, task)
  /\ head' = head + 1
  /\ AccessTo(head)

-----------------------------------------------------------------------------
(* The producer finds the queue full and waits on condP,                   *)
ProducerWaits(p) ==
  /\ fate = "running"
  /\ at[p] = "ready"
  /\ is_full
  /\ at' = [at EXCEPT ![p] = "waiting"]
  /\ UNCHANGED <<head, tail, memory, produced, got, fate>>

(* Mutant: condP is signalled.                                             *)
ProducerAdds_WrongSignal(p) ==
  /\ fate = "running"
  /\ at[p] = "ready"
  /\ ~ is_full
  /\ add_item
  /\ produced' = [produced EXCEPT ![p] = @ + 1]
  /\ Signal(p, IF produced[p] + 1 < Rounds THEN "ready" ELSE "done", Producers)
  /\ UNCHANGED <<head, got>>

(* or adds a task, signals condQ and starts the next turn of its loop.     *)
ProducerAdds(p) ==
  /\ fate = "running"
  /\ at[p] = "ready"
  /\ ~ is_full
  /\ add_item
  /\ produced' = [produced EXCEPT ![p] = @ + 1]
  /\ Signal(p, IF produced[p] + 1 < Rounds THEN "ready" ELSE "done", Consumers)
  /\ UNCHANGED <<head, got>>

(* The consumer finds the queue empty and waits on condQ,                  *)
ConsumerWaits(c) ==
  /\ fate = "running"
  /\ at[c] = "ready"
  /\ is_empty
  /\ at' = [at EXCEPT ![c] = "waiting"]
  /\ UNCHANGED <<head, tail, memory, produced, got, fate>>

(* Mutant: an awakened consumer does not look again.                       *)
ConsumerTakes_Unchecked(c) ==
  /\ fate = "running"
  /\ at[c] = "ready"
  /\ pop_item
  /\ Signal(c, "execute", Producers)
  /\ UNCHANGED <<tail, memory, produced>>

(* Mutant: condP is signalled only when the queue was full.                *)
ConsumerTakes_SignalsIfFull(c) ==
  /\ fate = "running"
  /\ at[c] = "ready"
  /\ ~ is_empty
  /\ pop_item
  /\ Signal(c, "execute", IF is_full THEN Producers ELSE {})
  /\ UNCHANGED <<tail, memory, produced>>

(* or takes a task, signals condP                                          *)
ConsumerTakes(c) ==
  /\ fate = "running"
  /\ at[c] = "ready"
  /\ ~ is_empty
  /\ pop_item
  /\ Signal(c, "execute", Producers)
  /\ UNCHANGED <<tail, memory, produced>>

(* and executes it without the mutex.                                      *)
executeTask(c) ==
  /\ fate = "running"
  /\ at[c] = "execute"
  /\ at' = [at EXCEPT ![c] = "ready"]
  /\ AccessBeyond
  /\ UNCHANGED <<head, tail, memory, produced, got>>

WakesUp(th) ==
  /\ Spurious
  /\ fate = "running"
  /\ at[th] = "waiting"
  /\ at' = [at EXCEPT ![th] = "ready"]
  /\ UNCHANGED <<head, tail, memory, produced, got, fate>>

Produce(p) == ProducerWaits(p) \/ ProducerAdds(p)
Consume(c) == ConsumerWaits(c) \/ ConsumerTakes(c) \/ executeTask(c)

Next == \/ \E p \in Producers : Produce(p)
        \/ \E c \in Consumers : Consume(c)
        \/ \E th \in Threads : WakesUp(th)

Spec == Init /\ [][Next]_vars

(* Every thread that is ready gets the mutex in the end.                   *)
FairSpec == /\ Spec
            /\ \A p \in Producers : WF_vars(Produce(p))
            /\ \A c \in Consumers : WF_vars(Consume(c))

-----------------------------------------------------------------------------
Contents == [k \in 1..(tail - head) |-> memory[head + k - 1]]

(* No wakeup is lost: while a consumer sleeps there are at least as many   *)
(* consumers awake and on their way to the mutex as there are tasks, and   *)
(* while a producer sleeps at least as many producers as there is room     *)
(* for tasks.  A signal that is left out, or goes to the wrong kind of     *)
(* thread, leaves one short, which would then sleep on next to its work.   *)
NoLostWakeup ==
  /\ Waiting(Consumers) # {} => Cardinality(Ready(Consumers)) >= tail - head
  /\ Waiting(Producers) # {} => Cardinality(Ready(Producers)) + (tail - head) >= Size - 1

(* The queue is a bounded first-in first-out queue with room for size - 1  *)
(* tasks until a task is added beyond the memory it has (mpmc_overrun).    *)
Queue == INSTANCE BoundedQueue WITH
           Capacity <- Size - 1, queue <- Contents, put <- tail
ImplementsBoundedQueue ==
  Queue!Init /\ [][tail' <= Size => [Queue!Next]_(Queue!vars)]_vars

(* No task is stored beyond the memory that main() allocates for the       *)
(* queue, malloc(sizeof(Task)*tq.size).                                    *)
StaysInBounds == tail <= Size

(* Unless a stray access ends the process, all tasks are taken in the end. *)
(* From then on the consumers wait, wake up and wait again, for ever, and  *)
(* main(), which joins them (MPMC.c:131-133), never returns.               *)
EndsWithEveryConsumerWaiting ==
  <>[](\/ fate = "aborted"
       \/ /\ \A p \in Producers : at[p] = "done"
          /\ head = Total
          /\ \A c \in Consumers : at[c] \in {"waiting", "ready"})
=============================================================================
