--------------------------- MODULE SemaphoreQueue ---------------------------
(***************************************************************************)
(* semaphore.c from line 128 on: one producer and one consumer share a     *)
(* ring buffer; semaphore2 counts its free slots, semaphore1 its items,    *)
(* mutex1 guards head, tail and buf.  The consumer stops after Jobs items, *)
(* the producer never; main waits for the consumer only, and then frees    *)
(* the buffer and ends the process under the producer.                     *)
(*                                                                         *)
(* The random numbers produced are abstracted to the order in which they   *)
(* are produced: item n is the n-th.                                       *)
(***************************************************************************)
EXTENDS Integers, Sequences

CONSTANTS Size,       \* queue.size
          Slots,      \* what semaphore2 starts from
          Jobs        \* the turns of the loop in consume()

ASSUME SemaphoreAssumption ==
  /\ Size \in Nat \ {0}
  /\ Slots = Size - 1      \* "work queue initial size is 5, leave 1 empty"
  /\ Jobs \in Nat

VARIABLES semaphore1, semaphore2,
          mutex1,          \* who holds it
          head, tail, buf, \* the queue
          consumer,        \* where consume() stands
          producer,        \* where produce() stands
          main,            \* where main() stands
          made,            \* how many items produce() has made
          got              \* what consume() has got, -1 from an empty queue

vars == <<semaphore1, semaphore2, mutex1, head, tail, buf,
          consumer, producer, main, made, got>>

Slot == 0..(Size - 1)
ThreadAt == {"wait", "lock", "held", "post", "done"}
Holder == {"nobody", "consumer", "producer"}
MainAt == {"join", "freed", "ended", "aborted"}

TypeOK ==
  /\ semaphore1 \in Nat /\ semaphore2 \in Nat
  /\ mutex1 \in Holder
  /\ head \in Slot /\ tail \in Slot
  /\ buf \in [Slot -> Nat]
  /\ consumer \in ThreadAt
  /\ producer \in ThreadAt \ {"done"}
  /\ main \in MainAt
  /\ made \in Nat
  /\ got \in Seq(Int)

Init ==
  /\ semaphore1 = 0 /\ semaphore2 = Slots
  /\ mutex1 = "nobody"
  /\ head = 0 /\ tail = 0
  /\ buf \in [Slot -> {0}]
  /\ consumer = IF Jobs = 0 THEN "done" ELSE "wait"
  /\ producer = "wait"
  /\ main = "join"
  /\ made = 0
  /\ got = << >>

-----------------------------------------------------------------------------
(* Mutants: the index wraps one slot early; it does not wrap at all.       *)
After_WrapsEarly(k) == IF k + 2 >= Size THEN 0 ELSE k + 1
After_NoWrap(k) == k + 1

(* The slot after slot k.                                                  *)
After(k) == (k + 1) % Size

is_full == head = After(tail)
is_empty == head = tail

add_item(i) ==
  IF is_full THEN UNCHANGED <<buf, tail>>
  ELSE /\ buf' = [buf EXCEPT ![tail] = i]
       /\ tail' = After(tail)

pop_item ==
  IF is_empty THEN got' = Append(got, -1) /\ UNCHANGED head
  ELSE /\ got' = Append(got, buf[head])
       /\ head' = After(head)

Alive == main \in {"join", "freed"}

-----------------------------------------------------------------------------
ConsumeWait ==
  /\ Alive
  /\ consumer = "wait"
  /\ semaphore1 > 0
  /\ semaphore1' = semaphore1 - 1
  /\ consumer' = "lock"
  /\ UNCHANGED <<semaphore2, mutex1, head, tail, buf, producer, main, made, got>>

ConsumeLock ==
  /\ Alive
  /\ consumer = "lock"
  /\ mutex1 = "nobody"
  /\ mutex1' = "consumer"
  /\ consumer' = "held"
  /\ UNCHANGED <<semaphore1, semaphore2, head, tail, buf, producer, main, made, got>>

(* pop_item() and the unlock: nobody else can look in between.             *)
ConsumePop ==
  /\ Alive
  /\ consumer = "held"
  /\ pop_item
  /\ mutex1' = "nobody"
  /\ consumer' = "post"
  /\ UNCHANGED <<semaphore1, semaphore2, tail, buf, producer, main, made>>

(* Mutant: sem_post() is forgotten.                                        *)
ConsumePost_Forgotten ==
  /\ Alive
  /\ consumer = "post"
  /\ consumer' = IF Len(got) < Jobs THEN "wait" ELSE "done"
  /\ UNCHANGED <<semaphore1, semaphore2, mutex1, head, tail, buf, producer, main, made, got>>

(* sem_post(), and the next turn of the loop or the end of the thread.     *)
ConsumePost ==
  /\ Alive
  /\ consumer = "post"
  /\ semaphore2' = semaphore2 + 1
  /\ consumer' = IF Len(got) < Jobs THEN "wait" ELSE "done"
  /\ UNCHANGED <<semaphore1, mutex1, head, tail, buf, producer, main, made, got>>

(* Mutant: sem_wait() is forgotten.                                        *)
ProduceWait_Forgotten ==
  /\ Alive
  /\ producer = "wait"
  /\ producer' = "lock"
  /\ UNCHANGED <<semaphore1, semaphore2, mutex1, head, tail, buf, consumer, main, made, got>>

ProduceWait ==
  /\ Alive
  /\ producer = "wait"
  /\ semaphore2 > 0
  /\ semaphore2' = semaphore2 - 1
  /\ producer' = "lock"
  /\ UNCHANGED <<semaphore1, mutex1, head, tail, buf, consumer, main, made, got>>

ProduceLock ==
  /\ Alive
  /\ producer = "lock"
  /\ mutex1 = "nobody"
  /\ mutex1' = "producer"
  /\ producer' = "held"
  /\ UNCHANGED <<semaphore1, semaphore2, head, tail, buf, consumer, main, made, got>>

(* add_item() and the unlock.  Once main has freed the buffer, the store   *)
(* is one to freed memory: it may go unnoticed or end the process.         *)
ProduceAdd ==
  /\ Alive
  /\ producer = "held"
  /\ made' = made + 1
  /\ add_item(made + 1)
  /\ mutex1' = "nobody"
  /\ producer' = "post"
  /\ IF main = "freed" THEN main' \in {"freed", "aborted"} ELSE UNCHANGED main
  /\ UNCHANGED <<semaphore1, semaphore2, head, consumer, got>>

(* Mutant: the wrong semaphore is posted.                                  *)
ProducePost_Wrong ==
  /\ Alive
  /\ producer = "post"
  /\ semaphore2' = semaphore2 + 1
  /\ producer' = "wait"
  /\ UNCHANGED <<semaphore1, mutex1, head, tail, buf, consumer, main, made, got>>

ProducePost ==
  /\ Alive
  /\ producer = "post"
  /\ semaphore1' = semaphore1 + 1
  /\ producer' = "wait"
  /\ UNCHANGED <<semaphore2, mutex1, head, tail, buf, consumer, main, made, got>>

(* main() joins the consumer and frees the buffer,                         *)
MainFree ==
  /\ main = "join"
  /\ consumer = "done"
  /\ main' = "freed"
  /\ UNCHANGED <<semaphore1, semaphore2, mutex1, head, tail, buf, consumer, producer, made, got>>

(* then destroys the mutex and returns, which ends the process.            *)
MainReturn ==
  /\ main = "freed"
  /\ main' = "ended"
  /\ UNCHANGED <<semaphore1, semaphore2, mutex1, head, tail, buf, consumer, producer, made, got>>

Consume == ConsumeWait \/ ConsumeLock \/ ConsumePop \/ ConsumePost
Produce == ProduceWait \/ ProduceLock \/ ProduceAdd \/ ProducePost
Main == MainFree \/ MainReturn

Next == Consume \/ Produce \/ Main

Spec == Init /\ [][Next]_vars

-----------------------------------------------------------------------------
(* The items in the buffer, oldest first.                                  *)
Count == (tail - head) % Size
Contents == [k \in 1..Count |-> buf[(head + k - 1) % Size]]

Producing == IF producer \in {"lock", "held", "post"} THEN 1 ELSE 0
Consuming == IF consumer \in {"lock", "held", "post"} THEN 1 ELSE 0

(* A slot is free, filled, or in the hands of one of the threads: the two  *)
(* semaphores and the threads between their wait and their post always     *)
(* add up to Size - 1, and the items in the buffer are those semaphore1    *)
(* counts and those whose post or pop is still to come.                    *)
SlotsAreConserved ==
  /\ semaphore1 + semaphore2 + Producing + Consuming = Size - 1
  /\ Count = semaphore1 + (IF consumer \in {"lock", "held"} THEN 1 ELSE 0)
                        + (IF producer = "post" THEN 1 ELSE 0)

(* Neither add_item() nor pop_item() ever fails: their results, which the  *)
(* threads ignore (semaphore.c:97 and 113), are always true.               *)
AddAndPopSucceed ==
  /\ producer = "held" => ~ is_full
  /\ consumer = "held" => ~ is_empty

(* The consumer gets the items in the order they were made, none twice and *)
(* none lost, and the rest is in the buffer.                               *)
FirstInFirstOut == got \o Contents = [n \in 1..made |-> n]

(* Freed while the producer runs, the buffer is written to at most Size -  *)
(* 1 times more: the producer is never let in further than the slots the   *)
(* consumer has given back.                                                *)
StrayWritesAreBounded == made <= Jobs + Size - 1

(* The ring buffer is a bounded first-in first-out queue.                  *)
Queue == INSTANCE BoundedQueue WITH
           Capacity <- Size - 1, queue <- Contents, put <- made
ImplementsBoundedQueue == Queue!Spec

(* The consumer gets all its items, and the process ends.                  *)
ConsumerFinishes ==
  <>(/\ got = [n \in 1..Jobs |-> n]
     /\ consumer = "done"
     /\ main \in {"ended", "aborted"})
=============================================================================
