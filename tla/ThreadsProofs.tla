--------------------------- MODULE ThreadsProofs ---------------------------
(***************************************************************************)
(* Proofs about two programs of several threads, MPMC.c and                *)
(* simple_client.py.  About MPMC, for any numbers of producers, consumers  *)
(* and tasks and a queue of any size: the invariants that MPMC.cfg checks, *)
(* that no more than the producers' tasks are added, and that the queue    *)
(* behaves like BoundedQueue up to the first task beyond its memory.       *)
(* About SimpleClient, for any clients and any messages whose reply holds  *)
(* the marker only when it is whole: that no close() resets a connection   *)
(* on which a reader has seen the marker.                                  *)
(***************************************************************************)
EXTENDS MPMC, SimpleClient, WellFoundedInduction, FiniteSetTheorems, SequenceTheorems, TLAPS

(* The tasks that the producers count as added, one pair for each.         *)
Added == {t \in Producers \X (1..Rounds) : t[2] <= produced[t[1]]}

(* tail counts the tasks added, and a thread that is not done has more.    *)
Counted ==
  /\ tail = Cardinality(Added)
  /\ \A p \in Producers : /\ at[p] # "execute"
                          /\ at[p] = "done" <=> produced[p] = Rounds
  /\ \A c \in Consumers : at[c] # "done"

(* A task is stored once, in the slot of its number.                       *)
StoredInOrder == \A a \in 0..(tail - 1) : memory[a] = a + 1

(* The inductive invariant.  Counted keeps tail within the memory that     *)
(* TypeOK speaks of; NoLostWakeup counts sharply enough to be preserved by *)
(* a step of any thread, because each task or room for one that is made    *)
(* wakes a thread, if one sleeps, and each that is used up uses one up.    *)
IInv == TypeOK /\ Counted /\ StoredInOrder /\ NoLostWakeup

-----------------------------------------------------------------------------
(* What the constants say.                                                 *)
LEMMA Sizes ==
  /\ Size \in Nat \ {0} /\ Rounds \in Nat
  /\ Cardinality(Producers) \in Nat
  /\ Total \in Nat
  /\ IsFiniteSet(Producers \X (1..Rounds))
  /\ Cardinality(Producers \X (1..Rounds)) = Total
<1>1. /\ IsFiniteSet(1..Rounds)
      /\ Cardinality(1..Rounds) = Rounds
  BY FS_Interval, MPMCAssumption
<1>2. Cardinality(Producers) \in Nat
  BY FS_CardinalityType, MPMCAssumption
<1>3. /\ IsFiniteSet(Producers \X (1..Rounds))
      /\ Cardinality(Producers \X (1..Rounds)) = Cardinality(Producers) * Rounds
  BY <1>1, FS_Product, MPMCAssumption
<1> DEFINE n == Cardinality(Producers)
<1>4. \A m \in Nat : Rounds * m = m * Rounds /\ Rounds * m \in Nat
  BY MPMCAssumption
<1> QED BY <1>2, <1>3, <1>4, MPMCAssumption DEF Total

(* The queue seen as full holds at least size - 1 tasks, the remainder     *)
(* being that of a number beyond head.                                     *)
LEMMA FullHolds ==
  ASSUME head \in Nat, tail \in Nat, head <= tail, is_full
  PROVE  tail - head >= Size - 1
<1>1. \A x \in Nat : x < Size => x % Size = x
  BY Sizes
<1>2. CASE tail + 1 < Size
  BY <1>1, <1>2, Sizes DEF is_full
<1>3. CASE tail + 1 >= Size
  <2>1. tail + 1 \in Nat /\ (tail + 1) % Size = head
    BY DEF is_full
  <2>2. PICK q \in Int : tail + 1 = Size * q + head
    BY <2>1, Sizes
  <2>3. q >= 1
    <3>1. SUFFICES ASSUME q <= 0 PROVE FALSE
      BY <2>2
    <3>2. Size * q \in Int /\ Size * q <= 0
      BY <3>1, Sizes
    <3>3. tail + 1 <= head
      BY <2>2, <3>2
    <3> QED BY <3>3
  <2>4. Size * q >= Size
    BY <2>3, Sizes
  <2> QED BY <2>2, <2>4, Sizes
<1> QED BY <1>2, <1>3, Sizes

(* Up to tail = size - 1, the queue is seen as full just when it is.       *)
LEMMA NotFullHasRoom ==
  ASSUME head \in Nat, tail \in Nat, head <= tail, tail < Size, ~ is_full
  PROVE  tail - head < Size - 1
<1>1. CASE tail + 1 < Size
  BY <1>1, Sizes
<1>2. CASE tail + 1 = Size
  <2>1. (tail + 1) % Size = 0
    BY <1>2, Sizes
  <2> QED BY <1>2, <2>1, Sizes DEF is_full
<1> QED BY <1>1, <1>2, Sizes

(* The tasks added are at most the tasks there are to add.                 *)
LEMMA AddedFinite ==
  /\ IsFiniteSet(Added)
  /\ Cardinality(Added) \in Nat
<1>1. Added \in SUBSET (Producers \X (1..Rounds))
  BY DEF Added
<1>2. IsFiniteSet(Added)
  BY <1>1, FS_Subset, Sizes
<1> QED BY <1>2, FS_CardinalityType

(* A producer that goes on adds one task, of those it has to add.          *)
LEMMA OneMore ==
  ASSUME TypeOK, Counted, NEW p \in Producers, at[p] = "ready",
         produced' = [produced EXCEPT ![p] = @ + 1]
  PROVE  /\ produced[p] \in 0..(Rounds - 1)
         /\ produced' \in [Producers -> 0..Rounds]
         /\ Cardinality(Added)' = Cardinality(Added) + 1
         /\ Cardinality(Added)' <= Total
<1>1. produced[p] \in 0..Rounds /\ produced[p] # Rounds
  BY DEF TypeOK, Counted
<1>2. produced[p] \in 0..(Rounds - 1)
  BY <1>1, Sizes
<1>3. produced' \in [Producers -> 0..Rounds]
  BY <1>2, Sizes DEF TypeOK
<1> DEFINE new == <<p, produced[p] + 1>>
<1>4. Added' = Added \cup {new}
  <2>1. ASSUME NEW t \in Producers \X (1..Rounds)
        PROVE  t[2] <= produced'[t[1]] <=> t[2] <= produced[t[1]] \/ t = new
    <3>1. PICK r \in Producers, k \in 1..Rounds : t = <<r, k>>
      OBVIOUS
    <3>2. CASE r = p
      BY <1>2, <3>1, <3>2, Sizes DEF TypeOK
    <3>3. CASE r # p
      BY <3>1, <3>3 DEF TypeOK
    <3> QED BY <3>2, <3>3
  <2>2. new \in Producers \X (1..Rounds)
    BY <1>2, Sizes
  <2> HIDE DEF new
  <2> QED BY <2>1, <2>2 DEF Added
<1>5. new \notin Added
  BY <1>2, Sizes DEF Added
<1>6. Added' \in SUBSET (Producers \X (1..Rounds))
  BY DEF Added
<1> HIDE DEF new
<1>7. Cardinality(Added') = Cardinality(Added) + 1
  BY <1>4, <1>5, AddedFinite, FS_AddElement
<1>8. Cardinality(Added') <= Total
  BY <1>6, FS_Subset, Sizes
<1> QED BY <1>2, <1>3, <1>7, <1>8

-----------------------------------------------------------------------------
(* A signal moves the signaller on and wakes one of the waiters at most;   *)
(* it wakes one if there is one.                                           *)
LEMMA SignalWakes ==
  ASSUME TypeOK, NEW th \in Threads, NEW S \in SUBSET Threads,
         NEW where \in {"ready", "execute", "done"}, at[th] = "ready",
         Signal(th, where, S)
  PROVE  /\ at' \in [Threads -> {"ready", "waiting", "execute", "done"}]
         /\ at'[th] = where
         /\ \A o \in Threads \ {th} :
               \/ at'[o] = at[o]
               \/ o \in S /\ at[o] = "waiting" /\ at'[o] = "ready"
         /\ Waiting(S) # {} => \E w \in S \ {th} : at[w] = "waiting" /\ at'[w] = "ready"
<1>1. CASE Waiting(S) = {}
  BY <1>1 DEF Signal, TypeOK
<1>2. ASSUME NEW w \in Waiting(S), at' = [at EXCEPT ![th] = where, ![w] = "ready"]
      PROVE  /\ at' \in [Threads -> {"ready", "waiting", "execute", "done"}]
             /\ at'[th] = where
             /\ \A o \in Threads \ {th} :
                   \/ at'[o] = at[o]
                   \/ o \in S /\ at[o] = "waiting" /\ at'[o] = "ready"
             /\ w \in S \ {th} /\ at[w] = "waiting" /\ at'[w] = "ready"
  <2>1. w \in S /\ w \in Threads /\ at[w] = "waiting" /\ w # th
    BY <1>2 DEF Waiting
  <2> QED BY <1>2, <2>1 DEF TypeOK
<1> QED BY <1>1, <1>2 DEF Signal

(* The threads that are ready are finitely many.                           *)
LEMMA ReadyFinite ==
  /\ IsFiniteSet(Ready(Producers)) /\ Cardinality(Ready(Producers)) \in Nat
  /\ IsFiniteSet(Ready(Producers)') /\ Cardinality(Ready(Producers)') \in Nat
  /\ IsFiniteSet(Ready(Consumers)) /\ Cardinality(Ready(Consumers)) \in Nat
  /\ IsFiniteSet(Ready(Consumers)') /\ Cardinality(Ready(Consumers)') \in Nat
<1>1. /\ Ready(Producers) \in SUBSET Producers /\ Ready(Producers)' \in SUBSET Producers
      /\ Ready(Consumers) \in SUBSET Consumers /\ Ready(Consumers)' \in SUBSET Consumers
  BY DEF Ready
<1>2. /\ IsFiniteSet(Ready(Producers)) /\ IsFiniteSet(Ready(Producers)')
      /\ IsFiniteSet(Ready(Consumers)) /\ IsFiniteSet(Ready(Consumers)')
  BY <1>1, FS_Subset, MPMCAssumption
<1> QED BY <1>2, FS_CardinalityType

(* A set that keeps its elements is no smaller, one that gets another is   *)
(* larger, one that keeps all but one is smaller by one at most.           *)
LEMMA Grows ==
  ASSUME NEW A, NEW B, IsFiniteSet(A), IsFiniteSet(B), A \subseteq B
  PROVE  Cardinality(B) >= Cardinality(A)
BY FS_Subset

LEMMA Gains ==
  ASSUME NEW A, NEW B, IsFiniteSet(A), IsFiniteSet(B), A \subseteq B, NEW w \in B \ A
  PROVE  Cardinality(B) >= Cardinality(A) + 1
<1>1. A \cup {w} \in SUBSET B
  OBVIOUS
<1>2. Cardinality(A \cup {w}) = Cardinality(A) + 1
  BY FS_AddElement
<1> QED BY <1>1, <1>2, FS_Subset

LEMMA Loses ==
  ASSUME NEW A, NEW B, IsFiniteSet(A), IsFiniteSet(B), NEW p, A \ {p} \subseteq B
  PROVE  Cardinality(B) >= Cardinality(A) - 1
<1>1. /\ IsFiniteSet(A \ {p})
      /\ Cardinality(A \ {p}) = IF p \in A THEN Cardinality(A) - 1 ELSE Cardinality(A)
  BY FS_RemoveElement
<1>2. Cardinality(A \ {p}) <= Cardinality(B)
  BY FS_Subset
<1>3. /\ Cardinality(A) \in Nat /\ Cardinality(B) \in Nat /\ Cardinality(A \ {p}) \in Nat
  BY <1>1, FS_CardinalityType
<1> QED BY <1>1, <1>2, <1>3

-----------------------------------------------------------------------------
(* The invariant, step by step.                                            *)
LEMMA InitInv == Init => IInv
<1> SUFFICES ASSUME Init PROVE IInv
  OBVIOUS
<1>1. TypeOK
  BY Sizes DEF Init, TypeOK, Address, Task, Threads
<1>2. Added = {}
  BY Sizes DEF Init, Added
<1>3. Counted
  BY <1>2, FS_EmptySet, Sizes, MPMCAssumption DEF Init, Counted, Threads
<1>4. StoredInOrder
  BY DEF Init, StoredInOrder
<1>5. NoLostWakeup
  <2>1. Waiting(Producers) = {} /\ Waiting(Consumers) = {}
    BY DEF Init, Waiting, Threads
  <2> QED BY <2>1 DEF NoLostWakeup
<1> QED BY <1>1, <1>3, <1>4, <1>5 DEF IInv

(* A thread that goes to sleep leaves the rest as it is.                   *)
LEMMA ProducerWaitsInv ==
  ASSUME IInv, NEW p \in Producers, ProducerWaits(p)
  PROVE  IInv'
<1> USE DEF IInv, ProducerWaits
<1>1. TypeOK'
  BY DEF TypeOK, Threads
<1>2. Added' = Added
  BY DEF Added
<1>3. Counted'
  BY <1>2, MPMCAssumption, Sizes DEF Counted, TypeOK, Threads
<1>4. StoredInOrder'
  BY DEF StoredInOrder
<1>5. NoLostWakeup'
  <2>1. tail - head >= Size - 1
    BY FullHolds DEF TypeOK
  <2>2. Cardinality(Ready(Producers)') \in Nat
    BY ReadyFinite
  <2>3. Cardinality(Ready(Producers))' + (tail - head) >= Size - 1
    BY <2>1, <2>2, Sizes DEF TypeOK
  <2>4. \A c \in Consumers : at'[c] = at[c]
    BY MPMCAssumption DEF TypeOK, Threads
  <2>5. Waiting(Consumers)' = Waiting(Consumers) /\ Ready(Consumers)' = Ready(Consumers)
    BY <2>4 DEF Waiting, Ready
  <2> QED BY <2>3, <2>5 DEF NoLostWakeup
<1> QED BY <1>1, <1>3, <1>4, <1>5

LEMMA ConsumerWaitsInv ==
  ASSUME IInv, NEW c \in Consumers, ConsumerWaits(c)
  PROVE  IInv'
<1> USE DEF IInv, ConsumerWaits
<1>1. TypeOK'
  BY DEF TypeOK, Threads
<1>2. Added' = Added
  BY DEF Added
<1>3. Counted'
  BY <1>2, MPMCAssumption DEF Counted, TypeOK, Threads
<1>4. StoredInOrder'
  BY DEF StoredInOrder
<1>5. \A p \in Producers : at'[p] = at[p]
  BY MPMCAssumption DEF TypeOK, Threads
<1>6. Waiting(Producers)' = Waiting(Producers) /\ Ready(Producers)' = Ready(Producers)
  BY <1>5 DEF Waiting, Ready
<1>7. NoLostWakeup'
  <2>1. tail - head = 0
    BY DEF is_empty, TypeOK
  <2>2. Cardinality(Ready(Consumers))' >= tail - head
    BY <2>1, ReadyFinite
  <2> QED BY <1>6, <2>2 DEF NoLostWakeup
<1> QED BY <1>1, <1>3, <1>4, <1>7

(* A task that is added wakes a consumer if all of them sleep, and leaves  *)
(* the room that remains to the producers that are awake.                  *)
LEMMA ProducerAddsInv ==
  ASSUME IInv, NEW p \in Producers, ProducerAdds(p)
  PROVE  IInv'
<1> USE DEF IInv, ProducerAdds, add_item
<1> DEFINE where == IF produced[p] + 1 < Rounds THEN "ready" ELSE "done"
<1>1. /\ produced[p] \in 0..(Rounds - 1)
      /\ produced' \in [Producers -> 0..Rounds]
      /\ Cardinality(Added)' = tail + 1
      /\ Cardinality(Added)' <= Total
  BY OneMore DEF Counted
<1>2. tail' = tail + 1 /\ tail + 1 \in 0..Total /\ tail \in Nat /\ head \in Nat
  BY <1>1, Sizes DEF TypeOK
<1>3. /\ at' \in [Threads -> {"ready", "waiting", "execute", "done"}]
      /\ at'[p] = where
      /\ \A o \in Threads \ {p} :
            \/ at'[o] = at[o]
            \/ o \in Consumers /\ at[o] = "waiting" /\ at'[o] = "ready"
      /\ Waiting(Consumers) # {} => \E w \in Consumers \ {p} : at[w] = "waiting" /\ at'[w] = "ready"
  <2> HIDE DEF IInv
  <2>1. p \in Threads /\ Consumers \in SUBSET Threads /\ where \in {"ready", "execute", "done"}
    BY DEF Threads
  <2>2. TypeOK /\ at[p] = "ready" /\ Signal(p, where, Consumers)
    BY DEF IInv
  <2> HIDE DEF where
  <2> QED BY <2>1, <2>2, SignalWakes
<1>4. TypeOK'
  <2>1. memory' \in [Address -> Task]
    BY <1>2, Sizes DEF TypeOK, Address, Task
  <2>2. fate' \in {"running", "aborted"}
    BY DEF AccessTo, TypeOK
  <2> QED BY <1>1, <1>2, <1>3, <2>1, <2>2 DEF TypeOK
<1>5. Counted'
  <2>1. ASSUME NEW o \in Producers \ {p} PROVE at'[o] = at[o] /\ produced'[o] = produced[o]
    BY <1>3, MPMCAssumption DEF Threads, TypeOK
  <2>2. produced'[p] = produced[p] + 1
    BY DEF TypeOK
  <2>3. at'[p] # "execute" /\ (at'[p] = "done" <=> produced'[p] = Rounds)
    BY <1>1, <1>3, <2>2, Sizes
  <2>4. \A c \in Consumers : at'[c] # "done"
    BY <1>3, MPMCAssumption DEF Counted, Threads
  <2> QED BY <1>1, <1>2, <2>1, <2>3, <2>4 DEF Counted
<1>6. StoredInOrder'
  <2> SUFFICES ASSUME NEW a \in 0..(tail + 1 - 1) PROVE memory'[a] = a + 1
    BY <1>2 DEF StoredInOrder
  <2>1. a \in Address
    BY <1>2, Sizes DEF Address
  <2>2. a = tail \/ a \in 0..(tail - 1)
    BY <1>2
  <2> QED BY <2>1, <2>2 DEF StoredInOrder, TypeOK
<1>7. \A o \in Producers \ {p} : at'[o] = at[o]
  BY <1>3, MPMCAssumption DEF Threads
<1>8. \A c \in Consumers : at'[c] = at[c] \/ (at[c] = "waiting" /\ at'[c] = "ready")
  BY <1>3, MPMCAssumption DEF Threads
<1>9. NoLostWakeup'
  <2>1. ASSUME Waiting(Producers)' # {}
        PROVE  Cardinality(Ready(Producers))' + (tail + 1 - head) >= Size - 1
    <3>1. Waiting(Producers) # {}
      BY <2>1, <1>3, <1>7 DEF Waiting
    <3>2. Cardinality(Ready(Producers)) + (tail - head) >= Size - 1
      BY <3>1 DEF NoLostWakeup
    <3>3. Ready(Producers) \ {p} \subseteq Ready(Producers)'
      BY <1>7 DEF Ready
    <3>4. Cardinality(Ready(Producers)') >= Cardinality(Ready(Producers)) - 1
      BY <3>3, Loses, ReadyFinite
    <3> QED BY <1>2, <3>2, <3>4, ReadyFinite, Sizes
  <2>2. ASSUME Waiting(Consumers)' # {}
        PROVE  Cardinality(Ready(Consumers))' >= tail + 1 - head
    <3>1. Waiting(Consumers) # {}
      BY <2>2, <1>8 DEF Waiting
    <3>2. PICK w \in Consumers : at[w] = "waiting" /\ at'[w] = "ready"
      BY <3>1, <1>3
    <3>3. w \in Ready(Consumers)' \ Ready(Consumers) /\ Ready(Consumers) \subseteq Ready(Consumers)'
      BY <1>8, <3>2 DEF Ready
    <3>4. Cardinality(Ready(Consumers)') >= Cardinality(Ready(Consumers)) + 1
      BY <3>3, Gains, ReadyFinite
    <3>5. Cardinality(Ready(Consumers)) >= tail - head
      BY <3>1 DEF NoLostWakeup
    <3> QED BY <1>2, <3>4, <3>5, ReadyFinite
  <2> QED BY <1>2, <2>1, <2>2 DEF NoLostWakeup
<1> QED BY <1>4, <1>5, <1>6, <1>9

(* A task that is taken wakes a producer if any sleeps.                    *)
LEMMA ConsumerTakesInv ==
  ASSUME IInv, NEW c \in Consumers, ConsumerTakes(c)
  PROVE  IInv'
<1> USE DEF IInv, ConsumerTakes, pop_item
<1>1. /\ at' \in [Threads -> {"ready", "waiting", "execute", "done"}]
      /\ at'[c] = "execute"
      /\ \A o \in Threads \ {c} :
            \/ at'[o] = at[o]
            \/ o \in Producers /\ at[o] = "waiting" /\ at'[o] = "ready"
      /\ Waiting(Producers) # {} => \E w \in Producers \ {c} : at[w] = "waiting" /\ at'[w] = "ready"
  <2>1. c \in Threads /\ Producers \in SUBSET Threads
    BY DEF Threads
  <2> QED BY <2>1, SignalWakes
<1>2. head \in Nat /\ tail \in Nat /\ head + 1 <= tail /\ head' = head + 1 /\ head + 1 \in 0..Total
  BY Sizes DEF is_empty, TypeOK
<1>3. TypeOK'
  <2>1. got' \in Seq(Task)
    BY <1>2, Sizes DEF TypeOK, Address
  <2>2. fate' \in {"running", "aborted"}
    BY DEF AccessTo, TypeOK
  <2> QED BY <1>1, <1>2, <2>1, <2>2 DEF TypeOK
<1>4. Added' = Added
  BY DEF Added
<1>5. Counted'
  <2>1. \A o \in Producers : at'[o] = at[o] \/ (at[o] = "waiting" /\ at'[o] = "ready")
    BY <1>1, MPMCAssumption DEF Threads
  <2>2. \A o \in Consumers : at'[o] # "done"
    BY <1>1, MPMCAssumption DEF Threads, Counted
  <2>3. \A o \in Producers : at'[o] # "execute" /\ (at'[o] = "done" <=> produced'[o] = Rounds)
    BY <2>1 DEF Counted
  <2> QED BY <1>4, <2>2, <2>3 DEF Counted
<1>6. StoredInOrder'
  BY DEF StoredInOrder
<1>7. \A o \in Producers : at'[o] = at[o] \/ (at[o] = "waiting" /\ at'[o] = "ready")
  BY <1>1, MPMCAssumption DEF Threads
<1>8. \A o \in Consumers \ {c} : at'[o] = at[o]
  BY <1>1, MPMCAssumption DEF Threads
<1>9. NoLostWakeup'
  <2>1. ASSUME Waiting(Producers)' # {}
        PROVE  Cardinality(Ready(Producers))' + (tail - (head + 1)) >= Size - 1
    <3>1. Waiting(Producers) # {}
      BY <2>1, <1>7 DEF Waiting
    <3>2. PICK w \in Producers : at[w] = "waiting" /\ at'[w] = "ready"
      BY <3>1, <1>1
    <3>3. w \in Ready(Producers)' \ Ready(Producers) /\ Ready(Producers) \subseteq Ready(Producers)'
      BY <1>7, <3>2 DEF Ready
    <3>4. Cardinality(Ready(Producers)') >= Cardinality(Ready(Producers)) + 1
      BY <3>3, Gains, ReadyFinite
    <3>5. Cardinality(Ready(Producers)) + (tail - head) >= Size - 1
      BY <3>1 DEF NoLostWakeup
    <3> QED BY <1>2, <3>4, <3>5, ReadyFinite, Sizes
  <2>2. ASSUME Waiting(Consumers)' # {}
        PROVE  Cardinality(Ready(Consumers))' >= tail - (head + 1)
    <3>1. Waiting(Consumers) # {}
      BY <2>2, <1>1, <1>8 DEF Waiting
    <3>2. Cardinality(Ready(Consumers)) >= tail - head
      BY <3>1 DEF NoLostWakeup
    <3>3. Ready(Consumers) \ {c} \subseteq Ready(Consumers)'
      BY <1>8 DEF Ready
    <3>4. Cardinality(Ready(Consumers)') >= Cardinality(Ready(Consumers)) - 1
      BY <3>3, Loses, ReadyFinite
    <3> QED BY <1>2, <3>2, <3>4, ReadyFinite
  <2> QED BY <1>2, <2>1, <2>2 DEF NoLostWakeup
<1> QED BY <1>3, <1>5, <1>6, <1>9

(* A consumer that has executed its task comes back for another.           *)
LEMMA executeTaskInv ==
  ASSUME IInv, NEW c \in Consumers, executeTask(c)
  PROVE  IInv'
<1> USE DEF IInv, executeTask
<1>1. TypeOK'
  BY DEF TypeOK, Threads, AccessBeyond, AccessTo
<1>2. Added' = Added
  BY DEF Added
<1>3. Counted'
  BY <1>2, MPMCAssumption DEF Counted, TypeOK, Threads
<1>4. StoredInOrder'
  BY DEF StoredInOrder
<1>5. \A p \in Producers : at'[p] = at[p]
  BY MPMCAssumption DEF TypeOK, Threads
<1>6. Waiting(Producers)' = Waiting(Producers) /\ Ready(Producers)' = Ready(Producers)
  BY <1>5 DEF Waiting, Ready
<1>7. at'[c] = "ready" /\ \A o \in Consumers \ {c} : at'[o] = at[o]
  BY DEF TypeOK, Threads
<1>8. Waiting(Consumers)' = Waiting(Consumers) /\ Ready(Consumers) \subseteq Ready(Consumers)'
  BY <1>7 DEF Waiting, Ready
<1>9. Cardinality(Ready(Consumers)') >= Cardinality(Ready(Consumers))
  BY <1>8, Grows, ReadyFinite
<1>10. NoLostWakeup'
  <2>1. Waiting(Consumers)' # {} => Cardinality(Ready(Consumers))' >= tail - head
    <3>1. head \in Nat /\ tail \in Nat
      BY Sizes DEF TypeOK
    <3> QED BY <1>8, <1>9, <3>1, ReadyFinite DEF NoLostWakeup
  <2> QED BY <1>6, <2>1 DEF NoLostWakeup
<1> QED BY <1>1, <1>3, <1>4, <1>10

(* So does a thread that wakes up for no reason.                           *)
LEMMA WakesUpInv ==
  ASSUME IInv, NEW th \in Threads, WakesUp(th)
  PROVE  IInv'
<1> USE DEF IInv, WakesUp
<1>1. TypeOK'
  BY DEF TypeOK
<1>2. Added' = Added
  BY DEF Added
<1>3. \A o \in Threads : at'[o] = at[o] \/ (at[o] = "waiting" /\ at'[o] = "ready")
  <2> HIDE DEF IInv
  <2>1. at \in [Threads -> {"ready", "waiting", "execute", "done"}]
    BY DEF IInv, TypeOK
  <2> QED BY <2>1
<1>4. Counted'
  <2>1. \A o \in Producers : at'[o] # "execute" /\ (at'[o] = "done" <=> produced'[o] = Rounds)
    BY <1>3 DEF Counted, Threads
  <2>2. \A o \in Consumers : at'[o] # "done"
    BY <1>3 DEF Counted, Threads
  <2> QED BY <1>2, <2>1, <2>2 DEF Counted
<1>5. StoredInOrder'
  BY DEF StoredInOrder
<1>6. NoLostWakeup'
  <2>1. /\ \A o \in Producers : at'[o] = at[o] \/ (at[o] = "waiting" /\ at'[o] = "ready")
        /\ \A o \in Consumers : at'[o] = at[o] \/ (at[o] = "waiting" /\ at'[o] = "ready")
    BY <1>3 DEF Threads
  <2>2. /\ Waiting(Producers)' # {} => Waiting(Producers) # {}
        /\ Waiting(Consumers)' # {} => Waiting(Consumers) # {}
    BY <2>1 DEF Waiting
  <2>3. /\ Ready(Producers) \subseteq Ready(Producers)'
        /\ Ready(Consumers) \subseteq Ready(Consumers)'
    BY <2>1 DEF Ready
  <2>4. /\ Cardinality(Ready(Producers)') >= Cardinality(Ready(Producers))
        /\ Cardinality(Ready(Consumers)') >= Cardinality(Ready(Consumers))
    BY <2>3, Grows, ReadyFinite
  <2>5. head \in Nat /\ tail \in Nat
    BY Sizes DEF TypeOK
  <2>6. Waiting(Producers)' # {} => Cardinality(Ready(Producers))' + (tail - head) >= Size - 1
    BY <2>2, <2>4, <2>5, ReadyFinite, Sizes DEF NoLostWakeup
  <2>7. Waiting(Consumers)' # {} => Cardinality(Ready(Consumers))' >= tail - head
    BY <2>2, <2>4, <2>5, ReadyFinite DEF NoLostWakeup
  <2> QED BY <2>6, <2>7 DEF NoLostWakeup
<1> QED BY <1>1, <1>4, <1>5, <1>6

LEMMA NextInv == IInv /\ [Next]_vars => IInv'
<1> SUFFICES ASSUME IInv, [Next]_vars PROVE IInv'
  OBVIOUS
<1>1. ASSUME NEW p \in Producers, Produce(p) PROVE IInv'
  BY <1>1, ProducerWaitsInv, ProducerAddsInv DEF Produce
<1>2. ASSUME NEW c \in Consumers, Consume(c) PROVE IInv'
  BY <1>2, ConsumerWaitsInv, ConsumerTakesInv, executeTaskInv DEF Consume
<1>3. ASSUME NEW th \in Threads, WakesUp(th) PROVE IInv'
  BY <1>3, WakesUpInv
<1>4. CASE UNCHANGED vars
  BY <1>4 DEF vars, IInv, TypeOK, Counted, Added, StoredInOrder, NoLostWakeup,
              Waiting, Ready
<1> QED BY <1>1, <1>2, <1>3, <1>4 DEF Next

(* The invariant holds for ever.                                           *)
THEOREM Invariance == Spec => []IInv
<1>1. Init => IInv
  BY InitInv
<1>2. IInv /\ [Next]_vars => IInv'
  BY NextInv
<1> QED BY <1>1, <1>2, PTL DEF Spec

-----------------------------------------------------------------------------
(* Every variable of MPMC.c keeps its type: in particular no more tasks    *)
(* are added than the producers make, and none is taken before it is added.*)
THEOREM TypeCorrect == Spec => []TypeOK
<1>1. IInv => TypeOK
  BY DEF IInv
<1> QED BY <1>1, Invariance, PTL

(* No wakeup is lost: who sleeps is not needed, since as many threads of   *)
(* its kind are awake as there are tasks, or room for tasks.               *)
THEOREM WakeupSafe == Spec => []NoLostWakeup
<1>1. IInv => NoLostWakeup
  BY DEF IInv
<1> QED BY <1>1, Invariance, PTL

-----------------------------------------------------------------------------
(* The queue behaves like BoundedQueue.                                    *)

(* What lies between the ends of a queue is as long as they say.           *)
LEMMA ContentsLength ==
  ASSUME NEW h \in 0..Total, NEW t \in 0..Total, h <= t, NEW m \in [Address -> Task],
         NEW contents, contents = [k \in 1..(t - h) |-> m[h + k - 1]]
  PROVE  contents \in Seq(Task) /\ Len(contents) = t - h
<1>1. t - h \in Nat /\ h \in Nat /\ t \in Nat
  BY Sizes
<1>2. \A k \in 1..(t - h) : m[h + k - 1] \in Task
  BY <1>1, Sizes DEF Address
<1> QED BY <1>1, <1>2

(* So it is now, and after a step.                                         *)
LEMMA ContentsType ==
  ASSUME TypeOK, TypeOK'
  PROVE  /\ Contents \in Seq(Task) /\ Len(Contents) = tail - head
         /\ Contents' \in Seq(Task) /\ Len(Contents') = tail' - head'
<1>1. /\ head \in 0..Total /\ tail \in 0..Total /\ head <= tail
      /\ memory \in [Address -> Task]
  BY DEF TypeOK
<1>2. /\ head' \in 0..Total /\ tail' \in 0..Total /\ head' <= tail'
      /\ memory' \in [Address -> Task]
  BY DEF TypeOK
<1>3. /\ Contents = [k \in 1..(tail - head) |-> memory[head + k - 1]]
      /\ Contents' = [k \in 1..(tail' - head') |-> memory'[head' + k - 1]]
  BY DEF Contents
<1>4. Contents \in Seq(Task) /\ Len(Contents) = tail - head
  BY <1>1, <1>3, ContentsLength
<1>5. Contents' \in Seq(Task) /\ Len(Contents') = tail' - head'
  BY <1>2, <1>3, ContentsLength
<1> QED BY <1>4, <1>5

(* A producer puts a task behind the others.                               *)
LEMMA AddsPut ==
  ASSUME IInv, NEW p \in Producers, ProducerAdds(p), tail' <= Size
  PROVE  Queue!Put
<1>0. TypeOK /\ TypeOK'
  BY ProducerAddsInv DEF IInv
<1>1. /\ tail' = tail + 1 /\ head' = head /\ got' = got
      /\ memory' = [memory EXCEPT ![tail] = tail + 1]
      /\ ~ is_full
  BY DEF ProducerAdds, add_item
<1>2. head \in Nat /\ tail \in Nat /\ head <= tail /\ tail \in Address /\ tail < Size
  BY <1>0, <1>1, Sizes DEF TypeOK, Address
<1>3. Len(Contents) < Size - 1
  BY <1>0, <1>1, <1>2, NotFullHasRoom, ContentsType
<1>4. Contents' = Append(Contents, tail + 1)
  <2>1. /\ Len(Contents) = tail - head /\ Contents \in Seq(Task)
        /\ Len(Contents') = tail + 1 - head /\ Contents' \in Seq(Task)
    <3>1. /\ Contents \in Seq(Task) /\ Len(Contents) = tail - head
          /\ Contents' \in Seq(Task) /\ Len(Contents') = tail' - head'
      BY <1>0, ContentsType
    <3> QED BY <1>1, <1>2, <3>1
  <2>2. tail + 1 \in Task
    BY <1>0, <1>1, <1>2 DEF TypeOK, Task
  <2>3. ASSUME NEW k \in 1..(tail + 1 - head)
        PROVE  Contents'[k] = Append(Contents, tail + 1)[k]
    <3>1. Contents'[k] = memory'[head + k - 1]
      BY <1>1, <1>2, <2>3 DEF Contents
    <3>2. head + k - 1 \in Address
      BY <1>2, Sizes DEF Address
    <3>3. memory'[head + k - 1] = IF head + k - 1 = tail THEN tail + 1 ELSE memory[head + k - 1]
      BY <1>0, <1>1, <3>2 DEF TypeOK
    <3>4. CASE k = tail + 1 - head
      BY <1>2, <2>1, <2>2, <3>1, <3>3, <3>4
    <3>5. CASE k \in 1..(tail - head)
      <4>1. Contents[k] = memory[head + k - 1]
        BY <3>5 DEF Contents
      <4> QED BY <1>2, <2>1, <2>2, <3>1, <3>3, <3>5, <4>1
    <3>6. k = tail + 1 - head \/ k \in 1..(tail - head)
      BY <1>2, <2>3
    <3> QED BY <3>4, <3>5, <3>6
  <2>4. Append(Contents, tail + 1) \in Seq(Task) /\ Len(Append(Contents, tail + 1)) = tail + 1 - head
    BY <1>2, <2>1, <2>2
  <2> QED BY <2>1, <2>3, <2>4, SeqEqual
<1> QED BY <1>1, <1>3, <1>4 DEF Queue!Put

(* A consumer takes the task that is before the others.                    *)
LEMMA TakesTake ==
  ASSUME IInv, NEW c \in Consumers, ConsumerTakes(c), tail' <= Size
  PROVE  Queue!Take
<1>0. TypeOK /\ TypeOK'
  BY ConsumerTakesInv DEF IInv
<1>1. tail' = tail /\ head' = head + 1 /\ memory' = memory /\ ~ is_empty
  BY DEF ConsumerTakes, pop_item
<1>2. head \in Nat /\ tail \in Nat /\ head < tail /\ head < Size
  BY <1>0, <1>1, Sizes DEF TypeOK, is_empty
<1>3. /\ Contents \in Seq(Task) /\ Len(Contents) = tail - head
      /\ Contents' \in Seq(Task) /\ Len(Contents') = tail - (head + 1)
  BY <1>0, <1>1, ContentsType
<1>4. Contents # << >>
  BY <1>2, <1>3
<1>5. Head(Contents) = memory[head]
  <2>1. Head(Contents) = Contents[1]
    BY <1>3, <1>4
  <2> QED BY <1>2, <2>1 DEF Contents
<1>6. got' = Append(got, memory[head])
  BY <1>2 DEF ConsumerTakes, pop_item
<1>7. Contents' = Tail(Contents)
  <2>1. Tail(Contents) \in Seq(Task) /\ Len(Tail(Contents)) = tail - (head + 1)
    BY <1>2, <1>3, <1>4
  <2>2. ASSUME NEW k \in 1..(tail - (head + 1))
        PROVE  Contents'[k] = Tail(Contents)[k]
    <3>1. Contents'[k] = memory[head + 1 + k - 1]
      BY <1>1, <2>2 DEF Contents
    <3>2. Tail(Contents)[k] = Contents[k + 1]
      BY <1>2, <1>3, <1>4
    <3>3. Contents[k + 1] = memory[head + (k + 1) - 1]
      BY <1>2 DEF Contents
    <3>4. head + 1 + k - 1 = head + (k + 1) - 1
      BY <1>2
    <3> QED BY <3>1, <3>2, <3>3, <3>4
  <2> QED BY <1>3, <2>1, <2>2, SeqEqual
<1> QED BY <1>1, <1>4, <1>5, <1>6, <1>7 DEF Queue!Take

(* Every step maps to a step of BoundedQueue or to a stutter.              *)
LEMMA StepOfQueue ==
  ASSUME IInv, [Next]_vars, tail' <= Size
  PROVE  [Queue!Next]_(Queue!vars)
<1>1. ASSUME NEW p \in Producers, Produce(p) PROVE Queue!Put \/ UNCHANGED Queue!vars
  <2>1. CASE ProducerWaits(p)
    BY <2>1 DEF ProducerWaits, Queue!vars, Contents
  <2>2. CASE ProducerAdds(p)
    BY <2>2, AddsPut
  <2> QED BY <1>1, <2>1, <2>2 DEF Produce
<1>2. ASSUME NEW c \in Consumers, Consume(c) PROVE Queue!Take \/ UNCHANGED Queue!vars
  <2>1. CASE ConsumerWaits(c)
    BY <2>1 DEF ConsumerWaits, Queue!vars, Contents
  <2>2. CASE ConsumerTakes(c)
    BY <2>2, TakesTake
  <2>3. CASE executeTask(c)
    BY <2>3 DEF executeTask, Queue!vars, Contents
  <2> QED BY <1>2, <2>1, <2>2, <2>3 DEF Consume
<1>3. ASSUME NEW th \in Threads, WakesUp(th) PROVE UNCHANGED Queue!vars
  BY <1>3 DEF WakesUp, Queue!vars, Contents
<1>4. CASE UNCHANGED vars
  BY <1>4 DEF vars, Queue!vars, Contents
<1> QED BY <1>1, <1>2, <1>3, <1>4 DEF Next, Queue!Next

(* Until the first task beyond its memory the queue of MPMC.c, shared by   *)
(* its threads, is a bounded first-in first-out queue.                     *)
THEOREM QueueSafe == Spec => ImplementsBoundedQueue
<1>1. Init => Queue!Init
  BY DEF Init, Queue!Init, Contents
<1>2. IInv /\ [Next]_vars => [tail' <= Size => [Queue!Next]_(Queue!vars)]_vars
  BY StepOfQueue
<1> QED BY <1>1, <1>2, Invariance, PTL DEF Spec, ImplementsBoundedQueue

(* If no more than size tasks are added in all, it always is.              *)
THEOREM Refinement ==
  ASSUME Total <= Size
  PROVE  Spec => Queue!Spec
<1>1. Init => Queue!Init
  BY DEF Init, Queue!Init, Contents
<1>2. IInv /\ [Next]_vars => [Queue!Next]_(Queue!vars)
  <2> SUFFICES ASSUME IInv, [Next]_vars PROVE [Queue!Next]_(Queue!vars)
    OBVIOUS
  <2>1. tail' \in 0..Total
    BY NextInv DEF IInv, TypeOK
  <2>2. tail' <= Size
    BY <2>1, Sizes
  <2> QED BY <2>2, StepOfQueue
<1> QED BY <1>1, <1>2, Invariance, PTL DEF Spec, Queue!Spec

-----------------------------------------------------------------------------
(***************************************************************************)
(* The clients of simple_client.py.                                        *)
(***************************************************************************)

(* Parts of the replies to parts of all a client sends.                    *)
Part(n, m) == Prefix(Reply(Prefix(Everything, n)), m)
Parts == UNION {{Part(n, m) : m \in 0..Len(Reply(Prefix(Everything, n)))} :
                  n \in 0..Len(Everything)}

ClientsTypeOK ==
  /\ script = [c \in Clients |-> Everything]
  /\ link \in [Clients -> {"idle", "backlog", "open", "closed"}]
  /\ arrived \in [Clients -> 0..Len(Everything)]
  /\ fin \in [Clients -> {"no", "fin", "rst"}]
  /\ taken \in [Clients -> Nat]
  /\ sent \in [Clients -> Parts]
  /\ main \in [Clients -> {"connect", "hello", "send", "join", "closed", "died"}]
  /\ reader \in [Clients -> {"off", "reading", "done", "spins", "died"}]
  /\ read \in [Clients -> Nat]

(* The reader starts behind the '*', unless there will never be one.       *)
ReadsWhatWasSent(c) ==
  /\ read[c] <= Len(sent[c])
  /\ link[c] \in {"idle", "backlog"} => sent[c] = << >>
  /\ reader[c] = "reading" /\ read[c] = 0 => ~ up /\ sent[c] = << >>

(* Only a client whose reader has ended closes its socket and may thereby  *)
(* reset the connection.                                                   *)
ClosesLast(c) ==
  /\ main[c] = "closed" => reader[c] \in {"done", "died"}
  /\ fin[c] = "rst" => main[c] = "closed"

(* A reader that is done has found the marker, and with it the end.        *)
MarkerFound(c) ==
  reader[c] = "done" =>
    /\ sent[c] # << >>
    /\ read[c] = Len(sent[c])
    /\ Occurs(Marker, SubSeq(sent[c], 2, Len(sent[c])))
    /\ fin[c] # "rst"

(* The inductive invariant of the clients.  MarkerComesLast alone is not:  *)
(* it does not say why the service has nothing to add to what was read.    *)
ClientsIInv ==
  /\ ClientsTypeOK
  /\ \A c \in Clients : ReadsWhatWasSent(c) /\ ClosesLast(c) /\ MarkerFound(c)

-----------------------------------------------------------------------------
(* Induction up to a number, on a set: the order of the numbers is         *)
(* well-founded.                                                           *)
NatLess == {pair \in Nat \X Nat : pair[1] < pair[2]}

(* A set that has 1 and with every number below n the next one has all     *)
(* numbers from 1 to n.                                                    *)
LEMMA FromOne ==
  ASSUME NEW n \in Nat, NEW S, 1 \in S,
         \A i \in 1..(n - 1) : i \in S => i + 1 \in S
  PROVE  \A i \in 1..n : i \in S
<1> DEFINE Missing == {i \in 1..n : i \notin S}
<1> SUFFICES ASSUME Missing # {} PROVE FALSE
  OBVIOUS
<1>1. Missing \in SUBSET Nat
  OBVIOUS
<1>2. IsWellFoundedOn(NatLess, Nat)
  BY NatLessThanWellFounded, Zenon DEF NatLess, OpToRel
<1>3. \E x \in Missing : \A y \in Missing : ~ (<< y, x >> \in NatLess)
  BY <1>1, <1>2, WFMin
<1>4. PICK x \in Missing : \A y \in Missing : ~ (<< y, x >> \in NatLess)
  BY <1>3
<1>5. \A y \in Missing : ~ (y < x)
  BY <1>1, <1>4 DEF NatLess
<1>6. x # 1 /\ x \in 1..n
  OBVIOUS
<1>7. x - 1 \in 1..(n - 1) /\ x - 1 \in S
  BY <1>5, <1>6
<1> QED BY <1>6, <1>7

(* f[i] is the concatenation of the first i of the sequences in s.         *)
IsFlat(f, s, n) ==
  f = [i \in 1..n |-> IF i = 1 THEN s[i] ELSE f[i - 1] \o s[i]]

(* There is such a function.                                               *)
LEMMA FlatExists ==
  ASSUME NEW s, NEW n \in Nat \ {0}
  PROVE  \E f : IsFlat(f, s, n)
<1> DEFINE S == {m \in Nat : \E f : IsFlat(f, s, m)}
<1>1. 1 \in S
  <2> DEFINE f == [i \in 1..1 |-> s[i]]
  <2>1. f = [i \in 1..1 |-> IF i = 1 THEN s[i] ELSE f[i - 1] \o s[i]]
    OBVIOUS
  <2> QED BY <2>1 DEF IsFlat
<1>2. ASSUME NEW m \in 1..(n - 1), m \in S PROVE m + 1 \in S
  <2>1. PICK f : IsFlat(f, s, m)
    BY <1>2
  <2> DEFINE g == [i \in 1..(m + 1) |-> IF i = m + 1 THEN f[m] \o s[m + 1] ELSE f[i]]
  <2>2. ASSUME NEW i \in 1..(m + 1)
        PROVE  g[i] = IF i = 1 THEN s[i] ELSE g[i - 1] \o s[i]
    <3>1. CASE i = m + 1
      <4>1. i # 1 /\ i - 1 = m /\ m \in 1..(m + 1) /\ m # m + 1 /\ i \in 1..(m + 1)
        BY <3>1
      <4>2. g[i] = f[m] \o s[m + 1] /\ g[m] = f[m]
        BY <3>1, <4>1
      <4> HIDE DEF g
      <4> QED BY <3>1, <4>1, <4>2
    <3>2. CASE i # m + 1
      <4>1. i \in 1..m /\ (i # 1 => i - 1 \in 1..m /\ i - 1 # m + 1)
        BY <3>2
      <4>2. f[i] = IF i = 1 THEN s[i] ELSE f[i - 1] \o s[i]
        BY <2>1, <4>1 DEF IsFlat
      <4> QED BY <3>2, <4>1, <4>2
    <3> QED BY <3>1, <3>2
  <2>3. g = [i \in 1..(m + 1) |-> g[i]]
    OBVIOUS
  <2> HIDE DEF g
  <2>4. g = [i \in 1..(m + 1) |-> IF i = 1 THEN s[i] ELSE g[i - 1] \o s[i]]
    BY <2>2, <2>3
  <2>5. IsFlat(g, s, m + 1)
    BY <2>4, Zenon DEF IsFlat
  <2>6. m + 1 \in Nat
    OBVIOUS
  <2> QED BY <2>5, <2>6
<1> HIDE DEF S
<1>3. n \in S
  BY <1>1, <1>2, FromOne
<1> QED BY <1>3 DEF S

(* All that a client sends is a sequence of bytes.                         *)
LEMMA EverythingType == Everything \in Seq(Byte)
<1> DEFINE n == Len(Messages)
<1>1. CASE n = 0
  <2>1. Messages = << >>
    BY <1>1, SimpleClientAssumption
  <2> QED BY <1>1, <2>1 DEF Everything, FlattenSeq
<1>2. CASE n # 0
  <2>1. n \in Nat \ {0} /\ \A i \in 1..n : Messages[i] \in Seq(Byte)
    BY <1>2, SimpleClientAssumption
  <2> DEFINE f == CHOOSE f : IsFlat(f, Messages, n)
  <2>2. IsFlat(f, Messages, n)
    BY <2>1, FlatExists, Zenon
  <2>3. Everything = f[n]
    BY <1>2, Zenon DEF Everything, FlattenSeq, IsFlat
  <2> HIDE DEF f
  <2> DEFINE S == {i \in 1..n : f[i] \in Seq(Byte)}
  <2>4. 1 \in S
    BY <2>1, <2>2 DEF IsFlat
  <2>5. ASSUME NEW i \in 1..(n - 1), i \in S PROVE i + 1 \in S
    <3>1. i + 1 \in 1..n /\ i + 1 # 1 /\ (i + 1) - 1 = i
      BY <2>1
    <3>2. f[i + 1] = f[i] \o Messages[i + 1]
      BY <2>2, <3>1, Zenon DEF IsFlat
    <3>3. f[i] \o Messages[i + 1] \in Seq(Byte)
      BY <2>1, <2>5, <3>1, ConcatProperties
    <3> QED BY <3>1, <3>2, <3>3
  <2> HIDE DEF S, n
  <2>6. n \in Nat /\ n \in 1..n
    BY <2>1
  <2>7. n \in S
    BY <2>4, <2>5, <2>6, FromOne
  <2> QED BY <2>3, <2>7 DEF S
<1> QED BY <1>1, <1>2

-----------------------------------------------------------------------------
(* What a reply is made of.                                                *)

(* A reply is a sequence that begins with '*'.                             *)
LEMMA ReplyIsSequence ==
  ASSUME NEW n \in 0..Len(Everything)
  PROVE  \E V : /\ Reply(Prefix(Everything, n)) \in Seq(V)
                /\ Reply(Prefix(Everything, n)) # << >>
                /\ Reply(Prefix(Everything, n))[1] = STAR
<1> DEFINE bytes == Prefix(Everything, n)
           echo == Echo(bytes)
           k == Cardinality(Echoed(bytes))
           V == {STAR} \cup {echo[i] : i \in 1..k}
<1>1. bytes \in Seq(Byte)
  BY EverythingType DEF Prefix
<1>2. Len(bytes) \in Nat
  BY <1>1
<1>3. IsFiniteSet(Echoed(bytes))
  <2>1. IsFiniteSet(1..Len(bytes))
    BY <1>2, FS_Interval
  <2>2. Echoed(bytes) \in SUBSET (1..Len(bytes))
    BY DEF Echoed
  <2> QED BY <2>1, <2>2, FS_Subset
<1>4. k \in Nat
  BY <1>3, FS_CardinalityType
<1> HIDE DEF k
<1>5. echo = [i \in 1..k |-> echo[i]]
  BY DEF Echo, k
<1> HIDE DEF echo
<1>6. echo \in Seq(V)
  BY <1>4, <1>5
<1>7. << STAR >> \in Seq(V)
  OBVIOUS
<1> HIDE DEF V
<1>8. << STAR >> \o echo \in Seq(V) /\ Len(<< STAR >> \o echo) = 1 + Len(echo)
      /\ (<< STAR >> \o echo)[1] = STAR
  BY <1>6, <1>7
<1>9. Len(echo) \in Nat
  BY <1>6
<1>10. << STAR >> \o echo # << >>
  BY <1>8, <1>9
<1> QED BY <1>8, <1>10 DEF Reply, echo, bytes

(* A part of a reply is a sequence as long as it should be.                *)
LEMMA PartIsSequence ==
  ASSUME NEW n \in 0..Len(Everything), NEW m \in 0..Len(Reply(Prefix(Everything, n)))
  PROVE  /\ Len(Reply(Prefix(Everything, n))) \in Nat \ {0}
         /\ Len(Part(n, m)) = m
         /\ \E V : Part(n, m) \in Seq(V)
         /\ \A i \in 1..m : Part(n, m)[i] = Reply(Prefix(Everything, n))[i]
         /\ Part(n, m) = << >> <=> m = 0
<1> DEFINE reply == Reply(Prefix(Everything, n))
<1>1. PICK V : reply \in Seq(V) /\ reply # << >>
  BY ReplyIsSequence
<1> HIDE DEF reply
<1>2. Len(reply) \in Nat \ {0}
  BY <1>1
<1>3. m \in 0..Len(reply)
  BY DEF reply
<1>4. /\ SubSeq(reply, 1, m) \in Seq(V)
      /\ Len(SubSeq(reply, 1, m)) = m
      /\ \A i \in 1..m : SubSeq(reply, 1, m)[i] = reply[i]
  BY <1>1, <1>2, <1>3
<1>5. SubSeq(reply, 1, m) = << >> <=> m = 0
  BY <1>2, <1>3, <1>4
<1> QED BY <1>2, <1>4, <1>5 DEF Part, Prefix, reply

(* Where a word occurs behind the first byte of a sequence.                *)
LEMMA OccursAt ==
  ASSUME NEW V, NEW s \in Seq(V), NEW k \in 1..Len(s), NEW word \in Seq(Byte)
  PROVE  Occurs(word, SubSeq(s, 2, k)) <=>
           \E j \in 2..(k - Len(word) + 1) :
             \A i \in 1..Len(word) : s[(j + i) - 1] = word[i]
<1> DEFINE t == SubSeq(s, 2, k)
           l == Len(word)
<1>1. Len(s) \in Nat /\ k \in Nat /\ l \in Nat
  OBVIOUS
<1>2. t \in Seq(V) /\ Len(t) = k - 1 /\ \A i \in 1..(k - 1) : t[i] = s[i + 1]
  BY <1>1
<1> HIDE DEF t
<1>3. ASSUME NEW j \in 1..((k - 1) - l + 1)
      PROVE  SubSeq(t, j, j + l - 1) = word <=>
               \A i \in 1..l : s[((j + 1) + i) - 1] = word[i]
  <2> DEFINE p == SubSeq(t, j, j + l - 1)
  <2>1. p \in Seq(V) /\ Len(p) = l
    BY <1>1, <1>2
  <2>2. \A i \in 1..l : p[i] = t[(j + i) - 1]
    BY <1>1, <1>2
  <2>3. \A i \in 1..l : t[(j + i) - 1] = s[((j + 1) + i) - 1]
    <3> TAKE i \in 1..l
    <3>1. (j + i) - 1 \in 1..(k - 1) /\ ((j + i) - 1) + 1 = ((j + 1) + i) - 1
      BY <1>1
    <3> QED BY <1>2, <3>1
  <2> HIDE DEF p
  <2>4. p = word <=> \A i \in 1..l : p[i] = word[i]
    BY <2>1, SeqEqual
  <2> QED BY <2>2, <2>3, <2>4 DEF p
<1>4. Occurs(word, t) <=> \E j \in 1..((k - 1) - l + 1) :
                           \A i \in 1..l : s[((j + 1) + i) - 1] = word[i]
  BY <1>2, <1>3 DEF Occurs
<1>5. ASSUME NEW j \in 1..((k - 1) - l + 1)
      PROVE  j + 1 \in 2..(k - l + 1)
  BY <1>1
<1>6. ASSUME NEW j \in 2..(k - l + 1)
      PROVE  j - 1 \in 1..((k - 1) - l + 1) /\ (j - 1) + 1 = j
  BY <1>1
<1> DEFINE At(j) == \A i \in 1..l : s[(j + i) - 1] = word[i]
<1>7. (\E j \in 1..((k - 1) - l + 1) : At(j + 1)) <=> \E j \in 2..(k - l + 1) : At(j)
  <2> HIDE DEF At
  <2>1. ASSUME NEW j \in 1..((k - 1) - l + 1), At(j + 1)
        PROVE  \E h \in 2..(k - l + 1) : At(h)
    BY <1>5, <2>1
  <2>2. ASSUME NEW j \in 2..(k - l + 1), At(j)
        PROVE  \E h \in 1..((k - 1) - l + 1) : At(h + 1)
    BY <1>6, <2>2
  <2> QED BY <2>1, <2>2
<1> QED BY <1>4, <1>7 DEF t

(* A part is a sequence.                                                   *)
LEMMA PartsAreSequences ==
  ASSUME NEW p \in Parts
  PROVE  /\ Len(p) \in Nat
         /\ \E V : p \in Seq(V)
         /\ p = << >> <=> Len(p) = 0
         /\ \E n \in 0..Len(Everything) : \E m \in 0..Len(Reply(Prefix(Everything, n))) :
              p = Part(n, m) /\ Len(p) = m
<1>1. PICK n \in 0..Len(Everything) : \E m \in 0..Len(Reply(Prefix(Everything, n))) : p = Part(n, m)
  BY DEF Parts
<1>2. PICK m \in 0..Len(Reply(Prefix(Everything, n))) : p = Part(n, m)
  BY <1>1
<1>3. Len(p) = m /\ (\E V : p \in Seq(V)) /\ (p = << >> <=> m = 0)
  BY <1>2, PartIsSequence
<1>4. Len(p) \in Nat
  BY <1>3
<1> QED BY <1>2, <1>3, <1>4

(* What is found in the front of a sequence is found in all of it.         *)
LEMMA OccursFurther ==
  ASSUME NEW V, NEW s \in Seq(V), NEW W, NEW t \in Seq(W), NEW k \in 1..Len(s), NEW l \in 1..Len(t),
         k <= l, \A i \in 1..k : s[i] = t[i],
         NEW word \in Seq(Byte), Occurs(word, SubSeq(s, 2, k))
  PROVE  Occurs(word, SubSeq(t, 2, l))
<1>1. PICK j \in 2..(k - Len(word) + 1) : \A i \in 1..Len(word) : s[(j + i) - 1] = word[i]
  BY OccursAt
<1>2. Len(word) \in Nat /\ Len(s) \in Nat /\ Len(t) \in Nat
  OBVIOUS
<1>3. j \in 2..(l - Len(word) + 1)
  BY <1>2
<1>4. ASSUME NEW i \in 1..Len(word) PROVE t[(j + i) - 1] = word[i]
  <2>1. (j + i) - 1 \in 1..k
    BY <1>2
  <2> QED BY <1>1, <2>1
<1>5. \E h \in 2..(l - Len(word) + 1) : \A i \in 1..Len(word) : t[(h + i) - 1] = word[i]
  BY <1>3, <1>4
<1> QED BY <1>5, OccursAt

(* A part that holds the marker is the whole of the reply to everything.   *)
LEMMA MarkerEndsPart ==
  ASSUME NEW p \in Parts, p # << >>, Occurs(Marker, SubSeq(p, 2, Len(p)))
  PROVE  p = Reply(Everything)
<1>1. PICK n \in 0..Len(Everything) : \E m \in 0..Len(Reply(Prefix(Everything, n))) :
         p = Part(n, m) /\ Len(p) = m
  BY PartsAreSequences
<1>2. PICK m \in 0..Len(Reply(Prefix(Everything, n))) : p = Part(n, m) /\ Len(p) = m
  BY <1>1
<1>3. m # 0 /\ Len(Reply(Prefix(Everything, n))) \in Nat
  BY <1>2, PartIsSequence
<1>4. m \in 1..Len(Reply(Prefix(Everything, n)))
  BY <1>3
<1>5. Occurs(Marker, SubSeq(Part(n, m), 2, m))
  BY <1>2
<1> QED BY <1>2, <1>4, <1>5, MarkerAssumption DEF MarkerEndsTheReply, Part

(* When the marker is in the front of a part, that is all of it.           *)
LEMMA MarkerInFront ==
  ASSUME NEW p \in Parts, NEW k \in 1..Len(p), Occurs(Marker, SubSeq(p, 2, k))
  PROVE  /\ k = Len(p)
         /\ p # << >>
         /\ Occurs(Marker, SubSeq(p, 2, Len(p)))
         /\ p = Reply(Everything)
<1>1. PICK n \in 0..Len(Everything) : \E m \in 0..Len(Reply(Prefix(Everything, n))) :
         p = Part(n, m) /\ Len(p) = m
  BY PartsAreSequences
<1>2. PICK m \in 0..Len(Reply(Prefix(Everything, n))) : p = Part(n, m) /\ Len(p) = m
  BY <1>1
<1>3. m \in Nat /\ Len(Reply(Prefix(Everything, n))) \in Nat
  BY <1>2, PartIsSequence
<1>4. k \in 0..Len(Reply(Prefix(Everything, n))) /\ k \in 1..m /\ k \in 1..k /\ k <= m /\ m \in 1..m
  BY <1>2, <1>3
<1> DEFINE q == Part(n, k)
<1>5. q \in Parts
  BY <1>4 DEF Parts
<1>6. Len(q) = k /\ (\A i \in 1..k : q[i] = p[i]) /\ q # << >>
  <2>1. Len(q) = k /\ (q = << >> <=> k = 0)
        /\ \A i \in 1..k : q[i] = Reply(Prefix(Everything, n))[i]
    BY <1>4, PartIsSequence
  <2>2. \A i \in 1..m : p[i] = Reply(Prefix(Everything, n))[i]
    BY <1>2, PartIsSequence
  <2> QED BY <1>3, <1>4, <2>1, <2>2
<1>7. PICK V : p \in Seq(V)
  BY PartsAreSequences
<1>8. PICK W : q \in Seq(W)
  BY <1>5, PartsAreSequences
<1>9. Marker \in Seq(Byte)
  BY SimpleClientAssumption
<1> HIDE DEF q
<1>10. Occurs(Marker, SubSeq(q, 2, k))
  BY <1>4, <1>6, <1>7, <1>8, <1>9, OccursFurther
<1>11. q = Reply(Everything)
  BY <1>5, <1>6, <1>10, MarkerEndsPart
<1>12. p # << >> /\ Occurs(Marker, SubSeq(p, 2, m))
  <2>1. p # << >>
    BY <1>2, <1>4, PartsAreSequences
  <2>2. Occurs(Marker, SubSeq(p, 2, m))
    BY <1>2, <1>4, <1>7, <1>9, OccursFurther
  <2> QED BY <2>1, <2>2
<1>13. p = Reply(Everything)
  BY <1>2, <1>12, MarkerEndsPart
<1> QED BY <1>2, <1>6, <1>11, <1>12, <1>13

(* A part that goes on after the marker does not.                          *)
LEMMA NothingAfterMarker ==
  ASSUME NEW p \in Parts, NEW q \in Parts, p # << >>,
         Occurs(Marker, SubSeq(p, 2, Len(p))),
         Len(p) <= Len(q), Prefix(q, Len(p)) = p
  PROVE  q = p
<1>1. Len(p) \in Nat \ {0} /\ Len(q) \in Nat
  BY PartsAreSequences
<1>2. PICK V : p \in Seq(V)
  BY PartsAreSequences
<1>3. PICK W : q \in Seq(W)
  BY PartsAreSequences
<1>4. \A i \in 1..Len(p) : p[i] = q[i]
  BY <1>1, <1>3 DEF Prefix
<1>5. Marker \in Seq(Byte) /\ Len(p) \in 1..Len(p) /\ Len(p) \in 1..Len(q) /\ Len(p) <= Len(p)
  BY <1>1, SimpleClientAssumption
<1>6. Occurs(Marker, SubSeq(q, 2, Len(p)))
  BY <1>2, <1>3, <1>4, <1>5, OccursFurther
<1> QED BY <1>5, <1>6, MarkerInFront, MarkerEndsPart

-----------------------------------------------------------------------------
(* The invariant.                                                          *)

clientState == <<script, link, arrived, fin, sent, main, reader, read>>

(* The service's view of a reply is the clients'.                          *)
LEMMA SameReplies ==
  /\ Service!STAR = STAR
  /\ \A s, n : Service!Prefix(s, n) = Prefix(s, n)
  /\ \A s : Service!Reply(s) = Reply(s)
<1>1. Service!STAR = STAR
  BY DEF Service!STAR, STAR
<1>2. ASSUME NEW s, NEW n PROVE Service!Prefix(s, n) = Prefix(s, n)
  BY DEF Service!Prefix, Prefix
<1>3. ASSUME NEW s PROVE Service!Echo(s) = Echo(s)
  BY DEF Service!Echo, Echo, Service!Cardinality, Cardinality, Service!Rank, Rank, Service!Bump, Bump,
         Service!Echoed, Echoed, Service!InMessage, InMessage, Service!CARET, CARET,
         Service!DOLLAR, DOLLAR
<1>4. ASSUME NEW s PROVE Service!Reply(s) = Reply(s)
  BY <1>1, <1>3 DEF Service!Reply, Reply
<1> QED BY <1>1, <1>2, <1>4

(* Nothing, and the '*', are parts of each reply.                          *)
LEMMA FirstParts ==
  << >> \in Parts /\ << STAR >> \in Parts
<1>1. 0 \in 0..Len(Everything)
  BY EverythingType
<1> DEFINE reply == Reply(Prefix(Everything, 0))
<1>2. PICK V : reply \in Seq(V) /\ reply # << >> /\ reply[1] = STAR
  BY <1>1, ReplyIsSequence
<1>3. 0 \in 0..Len(reply) /\ 1 \in 0..Len(reply)
  BY <1>2
<1>4. /\ Part(0, 0) \in Parts /\ Part(0, 1) \in Parts
  BY <1>1, <1>3 DEF Parts
<1>5. Part(0, 0) = << >>
  BY <1>1, <1>3, PartIsSequence
<1>6. Part(0, 1) = << STAR >>
  <2> HIDE DEF reply
  <2> DEFINE first == SubSeq(reply, 1, 1)
  <2>1. first \in Seq(V) /\ Len(first) = 1 /\ first[1] = STAR
    BY <1>2, <1>3
  <2>2. << STAR >> \in Seq(V) /\ Len(<< STAR >>) = 1
    BY <1>2, <1>3
  <2> HIDE DEF first
  <2>3. first = << STAR >>
    BY <2>1, <2>2, SeqEqual
  <2> QED BY <2>3 DEF Part, Prefix, reply, first
<1> QED BY <1>4, <1>5, <1>6

(* At the start.                                                           *)
LEMMA ClientsStart == ClientInit => ClientsIInv
<1> SUFFICES ASSUME ClientInit PROVE ClientsIInv
  OBVIOUS
<1>1. /\ script = [c \in Clients |-> Everything]
      /\ link = [c \in Clients |-> "idle"]
      /\ arrived = [c \in Clients |-> 0]
      /\ fin = [c \in Clients |-> "no"]
      /\ taken = [c \in Clients |-> 0]
      /\ sent = [c \in Clients |-> << >>]
  <2>1. script \in [Clients -> {Everything}]
    BY DEF ClientInit, Service!ClientsInit
  <2>2. script = [c \in Clients |-> Everything]
    BY <2>1
  <2> QED BY <2>2 DEF ClientInit, Service!ClientsInit
<1>2. /\ main = [c \in Clients |-> "connect"]
      /\ reader = [c \in Clients |-> "off"]
      /\ read = [c \in Clients |-> 0]
  BY DEF ClientInit
<1>3. 0 \in 0..Len(Everything)
  BY EverythingType
<1>4. ClientsTypeOK
  BY <1>1, <1>2, <1>3, FirstParts DEF ClientsTypeOK
<1>5. ASSUME NEW c \in Clients
      PROVE  ReadsWhatWasSent(c) /\ ClosesLast(c) /\ MarkerFound(c)
  BY <1>1, <1>2 DEF ReadsWhatWasSent, ClosesLast, MarkerFound
<1> QED BY <1>4, <1>5 DEF ClientsIInv

(* The clients' first threads.                                             *)
LEMMA MainThreadKeeps ==
  ASSUME ClientsIInv, NEW d \in Clients,
         Connect(d) \/ Hello(d) \/ Send(d) \/ JoinAndClose(d) \/ Raise(d)
  PROVE  ClientsIInv'
<1>1. CASE Raise(d)
  <2>1. ClientsTypeOK'
    BY <1>1 DEF Raise, ClientsIInv, ClientsTypeOK, serviceVars
  <2>2. ASSUME NEW c \in Clients
        PROVE  (ReadsWhatWasSent(c) /\ ClosesLast(c) /\ MarkerFound(c))'
    BY <1>1 DEF Raise, ClientsIInv, ClientsTypeOK, serviceVars, ReadsWhatWasSent, ClosesLast, MarkerFound
  <2> QED BY <2>1, <2>2 DEF ClientsIInv
<1>2. CASE Connect(d)
  <2> USE <1>2 DEF Connect, Service!Connect
  <2>1. ClientsTypeOK'
    BY DEF ClientsIInv, ClientsTypeOK
  <2>2. ASSUME NEW c \in Clients
        PROVE  (ReadsWhatWasSent(c) /\ ClosesLast(c) /\ MarkerFound(c))'
    BY DEF ClientsIInv, ClientsTypeOK, ReadsWhatWasSent, ClosesLast, MarkerFound
  <2> QED BY <2>1, <2>2 DEF ClientsIInv
<1>3. CASE Hello(d)
  <2>1. ClientsTypeOK'
    BY <1>3 DEF Hello, ClientsIInv, ClientsTypeOK, serviceVars
  <2>2. ASSUME NEW c \in Clients
        PROVE  (ReadsWhatWasSent(c) /\ ClosesLast(c) /\ MarkerFound(c))'
    <3>1. Len(sent[c]) \in Nat /\ (sent[c] = << >> <=> Len(sent[c]) = 0)
      BY PartsAreSequences DEF ClientsIInv, ClientsTypeOK
    <3> QED BY <1>3, <3>1 DEF Hello, ClientsIInv, ClientsTypeOK, serviceVars, ReadsWhatWasSent, ClosesLast, MarkerFound
  <2> QED BY <2>1, <2>2 DEF ClientsIInv
<1>4. CASE Send(d)
  <2>1. ClientsTypeOK'
    BY <1>4 DEF Send, ClientsIInv, ClientsTypeOK, serviceVars
  <2>2. ASSUME NEW c \in Clients
        PROVE  (ReadsWhatWasSent(c) /\ ClosesLast(c) /\ MarkerFound(c))'
    BY <1>4 DEF Send, ClientsIInv, ClientsTypeOK, serviceVars, ReadsWhatWasSent, ClosesLast, MarkerFound
  <2> QED BY <2>1, <2>2 DEF ClientsIInv
<1>5. CASE JoinAndClose(d)
  <2>1. ClientsTypeOK'
    BY <1>5 DEF JoinAndClose, ClientsIInv, ClientsTypeOK, serviceVars
  <2>2. ASSUME NEW c \in Clients
        PROVE  (ReadsWhatWasSent(c) /\ ClosesLast(c) /\ MarkerFound(c))'
    BY <1>5 DEF JoinAndClose, ClientsIInv, ClientsTypeOK, serviceVars, ReadsWhatWasSent, ClosesLast, MarkerFound
  <2> QED BY <2>1, <2>2 DEF ClientsIInv
<1> QED BY <1>1, <1>2, <1>3, <1>4, <1>5

(* What the reader looks at is what was sent behind the '*'.               *)
LEMMA LooksAtAll ==
  ASSUME NEW p \in Parts, NEW r \in 1..Len(p), NEW n \in (r + 1)..Len(p)
  PROVE  HasMarker(SubSeq(p, 2, r), SubSeq(p, r + 1, n)) <=> Occurs(Marker, SubSeq(p, 2, n))
<1>1. PICK V : p \in Seq(V)
  BY PartsAreSequences
<1>2. Len(p) \in Nat
  BY <1>1
<1>3. 2 \in 1..(Len(p) + 1) /\ r \in (2 - 1)..Len(p) /\ n \in r..Len(p)
  BY <1>2
<1>4. SubSeq(p, 2, r) \o SubSeq(p, r + 1, n) = SubSeq(p, 2, n)
  BY <1>1, <1>3, ConcatAdjacentSubSeq
<1> QED BY <1>4 DEF HasMarker

(* The reader.                                                             *)
LEMMA ReaderKeeps ==
  ASSUME ClientsIInv, NEW d \in Clients, Read(d)
  PROVE  ClientsIInv'
<1>1. /\ UNCHANGED <<script, link, arrived, fin, taken, sent, up, main>>
      /\ reader[d] = "reading"
  BY DEF Read, serviceVars
<1>2. Len(sent[d]) \in Nat /\ sent[d] \in Parts /\ read[d] \in Nat
  BY PartsAreSequences DEF ClientsIInv, ClientsTypeOK
<1>3. CASE UNCHANGED read /\ (reader' = [reader EXCEPT ![d] = "spins"] \/ reader' = [reader EXCEPT ![d] = "died"])
  <2>1. ClientsTypeOK'
    BY <1>1, <1>3 DEF ClientsIInv, ClientsTypeOK
  <2>2. ASSUME NEW c \in Clients
        PROVE  (ReadsWhatWasSent(c) /\ ClosesLast(c) /\ MarkerFound(c))'
    BY <1>1, <1>3 DEF ClientsIInv, ClientsTypeOK, ReadsWhatWasSent, ClosesLast, MarkerFound
  <2> QED BY <2>1, <2>2 DEF ClientsIInv
<1>4. ASSUME NEW n \in (read[d] + 1)..Len(sent[d]),
             read' = [read EXCEPT ![d] = n],
             reader' = [reader EXCEPT ![d] =
               IF HasMarker(SubSeq(sent[d], 2, read[d]), SubSeq(sent[d], read[d] + 1, n))
               THEN "done" ELSE @]
      PROVE  ClientsIInv'
  <2>1. n \in Nat /\ n \in 1..Len(sent[d])
    BY <1>2
  <2>2. read[d] # 0
    BY <1>1, <1>2, <2>1, PartsAreSequences DEF ClientsIInv, ReadsWhatWasSent
  <2>3. read[d] \in 1..Len(sent[d])
    BY <1>2, <2>1, <2>2
  <2>4. HasMarker(SubSeq(sent[d], 2, read[d]), SubSeq(sent[d], read[d] + 1, n))
          => /\ sent[d] # << >>
             /\ n = Len(sent[d])
             /\ Occurs(Marker, SubSeq(sent[d], 2, Len(sent[d])))
    BY <1>2, <2>1, <2>3, LooksAtAll, MarkerInFront
  <2>5. ClientsTypeOK'
    BY <1>1, <1>4, <2>1 DEF ClientsIInv, ClientsTypeOK
  <2>6. fin[d] # "rst"
    BY <1>1 DEF ClientsIInv, ClosesLast
  <2>7. ASSUME NEW c \in Clients
        PROVE  (ReadsWhatWasSent(c) /\ ClosesLast(c) /\ MarkerFound(c))'
    <3>1. CASE c # d
      BY <1>1, <1>4, <3>1 DEF ClientsIInv, ClientsTypeOK, ReadsWhatWasSent, ClosesLast, MarkerFound
    <3>2. CASE c = d
      <4>1. read'[c] = n /\ reader'[c] \in {"reading", "done"}
        BY <1>1, <1>4, <3>2 DEF ClientsIInv, ClientsTypeOK
      <4>2. (ReadsWhatWasSent(c) /\ ClosesLast(c))'
        BY <1>1, <2>1, <3>2, <4>1 DEF ClientsIInv, ReadsWhatWasSent, ClosesLast
      <4>3. reader'[c] = "done" =>
              HasMarker(SubSeq(sent[d], 2, read[d]), SubSeq(sent[d], read[d] + 1, n))
        BY <1>1, <1>4, <3>2 DEF ClientsIInv, ClientsTypeOK
      <4>4. MarkerFound(c)'
        BY <1>1, <2>4, <2>6, <3>2, <4>1, <4>3 DEF MarkerFound
      <4> QED BY <4>2, <4>4
    <3> QED BY <3>1, <3>2
  <2> QED BY <2>5, <2>7 DEF ClientsIInv
<1> QED BY <1>3, <1>4 DEF Read

(* The network.                                                            *)
LEMMA NetworkKeeps ==
  ASSUME ClientsIInv, NEW d \in Clients, Arrive(d)
  PROVE  ClientsIInv'
<1>1. CASE Service!Deliver(d)
  <2>1. PICK n \in (arrived[d] + 1)..Len(script[d]) : arrived' = [arrived EXCEPT ![d] = n]
    BY <1>1 DEF Service!Deliver
  <2>2. UNCHANGED <<script, link, fin, taken, sent, up, main, reader, read>>
    BY <1>1 DEF Arrive, Service!Deliver, threadVars
  <2>3. n \in 0..Len(Everything)
    BY <2>1, EverythingType DEF ClientsIInv, ClientsTypeOK
  <2>4. ClientsTypeOK'
    BY <2>1, <2>2, <2>3 DEF ClientsIInv, ClientsTypeOK
  <2>5. ASSUME NEW c \in Clients
        PROVE  (ReadsWhatWasSent(c) /\ ClosesLast(c) /\ MarkerFound(c))'
    BY <2>2 DEF ClientsIInv, ReadsWhatWasSent, ClosesLast, MarkerFound
  <2> QED BY <2>4, <2>5 DEF ClientsIInv
<1>2. ASSUME main[d] = "closed", NEW how \in {"fin", "rst"}, Service!End(d, how),
             how = "rst" => read[d] < Len(sent[d])
      PROVE  ClientsIInv'
  <2>1. /\ UNCHANGED <<script, link, arrived, taken, sent, up, main, reader, read>>
        /\ fin' = [fin EXCEPT ![d] = how]
    BY <1>2 DEF Arrive, Service!End, threadVars
  <2>2. ClientsTypeOK'
    BY <2>1 DEF ClientsIInv, ClientsTypeOK
  <2>3. Len(sent[d]) \in Nat
    BY PartsAreSequences DEF ClientsIInv, ClientsTypeOK
  <2>4. ASSUME NEW c \in Clients
        PROVE  (ReadsWhatWasSent(c) /\ ClosesLast(c) /\ MarkerFound(c))'
    BY <1>2, <2>1, <2>3 DEF ClientsIInv, ClientsTypeOK, ReadsWhatWasSent, ClosesLast, MarkerFound
  <2> QED BY <2>2, <2>4 DEF ClientsIInv
<1> QED BY <1>1, <1>2 DEF Arrive

(* The service.                                                            *)
LEMMA ServiceKeeps ==
  ASSUME ClientsIInv, NEW d \in Clients, Serve(d)
  PROVE  ClientsIInv'
<1>1. UNCHANGED <<script, arrived, fin, main, reader, read>>
  BY DEF Serve, Service!Admit, Service!Converse, Service!Close, threadVars
<1>2. Len(sent[d]) \in Nat /\ sent[d] \in Parts /\ (sent[d] = << >> <=> Len(sent[d]) = 0)
  BY PartsAreSequences DEF ClientsIInv, ClientsTypeOK
<1>3. CASE Service!Close(d)
  <2>1. UNCHANGED <<taken, sent, up>> /\ link' = [link EXCEPT ![d] = "closed"]
    BY <1>3 DEF Service!Close
  <2>2. ClientsTypeOK'
    BY <1>1, <2>1 DEF ClientsIInv, ClientsTypeOK
  <2>3. ASSUME NEW c \in Clients
        PROVE  (ReadsWhatWasSent(c) /\ ClosesLast(c) /\ MarkerFound(c))'
    BY <1>1, <2>1 DEF ClientsIInv, ClientsTypeOK, ReadsWhatWasSent, ClosesLast, MarkerFound
  <2> QED BY <2>2, <2>3 DEF ClientsIInv
<1>4. CASE Service!Admit(d)
  <2>1. /\ UNCHANGED <<taken, up>> /\ up
        /\ link[d] = "backlog" /\ link' = [link EXCEPT ![d] = "open"]
        /\ \E words \in {<< >>, << STAR >>} : sent' = [sent EXCEPT ![d] = words]
    BY <1>4, SameReplies DEF Service!Admit
  <2>2. PICK words \in {<< >>, << STAR >>} : sent' = [sent EXCEPT ![d] = words]
    BY <2>1
  <2>3. ClientsTypeOK'
    BY <1>1, <2>1, <2>2, FirstParts DEF ClientsIInv, ClientsTypeOK
  <2>4. sent[d] = << >>
    BY <2>1 DEF ClientsIInv, ReadsWhatWasSent
  <2>5. ASSUME NEW c \in Clients
        PROVE  (ReadsWhatWasSent(c) /\ ClosesLast(c) /\ MarkerFound(c))'
    <3>1. CASE c # d
      BY <1>1, <2>1, <2>2, <3>1 DEF ClientsIInv, ClientsTypeOK, ReadsWhatWasSent, ClosesLast, MarkerFound
    <3>2. CASE c = d
      <4>1. read[c] = 0 /\ reader[c] # "done" /\ reader[c] # "reading"
        BY <1>2, <2>1, <2>4, <3>2 DEF ClientsIInv, ClientsTypeOK, ReadsWhatWasSent, MarkerFound
      <4>2. sent'[c] = words /\ link'[c] = "open" /\ Len(words) \in Nat
        BY <2>1, <2>2, <3>2 DEF ClientsIInv, ClientsTypeOK
      <4> QED BY <1>1, <4>1, <4>2 DEF ClientsIInv, ReadsWhatWasSent, ClosesLast, MarkerFound
    <3> QED BY <3>1, <3>2
  <2> QED BY <2>3, <2>5 DEF ClientsIInv
<1>5. CASE Service!Converse(d)
  <2>1. UNCHANGED <<link, up>> /\ up /\ link[d] = "open"
    BY <1>5 DEF Service!Converse
  <2>2. PICK n \in taken[d]..arrived[d] :
          /\ taken' = [taken EXCEPT ![d] = n]
          /\ \E m \in Len(sent[d])..Len(Reply(Prefix(script[d], n))) :
               /\ Prefix(Reply(Prefix(script[d], n)), Len(sent[d])) = sent[d]
               /\ sent' = [sent EXCEPT ![d] = Prefix(Reply(Prefix(script[d], n)), m)]
    BY <1>5, SameReplies DEF Service!Converse
  <2>3. script[d] = Everything /\ n \in 0..Len(Everything) /\ n \in Nat
    BY EverythingType DEF ClientsIInv, ClientsTypeOK
  <2> DEFINE reply == Reply(Prefix(Everything, n))
  <2>4. PICK m \in Len(sent[d])..Len(reply) :
          /\ Prefix(reply, Len(sent[d])) = sent[d]
          /\ sent' = [sent EXCEPT ![d] = Part(n, m)]
    BY <2>2, <2>3 DEF Part
  <2>5. Len(reply) \in Nat
    BY <2>3, PartIsSequence, FirstParts, ReplyIsSequence
  <2>6. m \in 0..Len(reply) /\ Len(sent[d]) \in 0..Len(reply) /\ Len(sent[d]) <= m
    BY <1>2, <2>5
  <2> DEFINE more == Part(n, m)
  <2>7. more \in Parts /\ Len(more) = m
    BY <2>3, <2>6, PartIsSequence DEF Parts
  <2>8. Prefix(more, Len(sent[d])) = sent[d]
    <3>1. PICK V : reply \in Seq(V)
      BY <2>3, ReplyIsSequence
    <3> DEFINE k == Len(sent[d])
    <3> HIDE DEF reply, k
    <3>2. SubSeq(SubSeq(reply, 1, m), 1, k) = SubSeq(reply, 1, k)
      <4>1. k \in 0..m /\ m \in 0..Len(reply) /\ Len(reply) \in Nat
        BY <2>5, <2>6 DEF k
      <4> DEFINE a == SubSeq(SubSeq(reply, 1, m), 1, k)
                 z == SubSeq(reply, 1, k)
                 y == SubSeq(reply, 1, m)
      <4>2. y \in Seq(V) /\ Len(y) = m /\ \A i \in 1..m : y[i] = reply[i]
        BY <3>1, <4>1
      <4>3. z \in Seq(V) /\ Len(z) = k /\ \A i \in 1..k : z[i] = reply[i]
        BY <3>1, <4>1
      <4> HIDE DEF y, z
      <4>4. SubSeq(y, 1, k) \in Seq(V) /\ Len(SubSeq(y, 1, k)) = k /\ \A i \in 1..k : SubSeq(y, 1, k)[i] = y[i]
        BY <4>1, <4>2
      <4>5. \A i \in 1..k : SubSeq(y, 1, k)[i] = z[i]
        BY <4>1, <4>2, <4>3, <4>4
      <4>6. SubSeq(y, 1, k) = z
        BY <4>3, <4>4, <4>5, SeqEqual
      <4> QED BY <4>6 DEF y, z
    <3> QED BY <2>4, <3>2 DEF Part, Prefix, reply, k
  <2> HIDE DEF more
  <2>9. sent' = [sent EXCEPT ![d] = more]
    BY <2>4 DEF more
  <2>10. ClientsTypeOK'
    BY <1>1, <2>1, <2>2, <2>3, <2>7, <2>9 DEF ClientsIInv, ClientsTypeOK
  <2>11. ASSUME NEW c \in Clients
        PROVE  (ReadsWhatWasSent(c) /\ ClosesLast(c) /\ MarkerFound(c))'
    <3>1. CASE c # d
      BY <1>1, <2>1, <2>9, <3>1 DEF ClientsIInv, ClientsTypeOK, ReadsWhatWasSent, ClosesLast, MarkerFound
    <3>2. CASE c = d
      <4>1. sent'[c] = more
        BY <2>9, <3>2 DEF ClientsIInv, ClientsTypeOK
      <4>2. (ReadsWhatWasSent(c) /\ ClosesLast(c))'
        BY <1>1, <1>2, <2>1, <2>6, <2>7, <3>2, <4>1 DEF ClientsIInv, ClientsTypeOK, ReadsWhatWasSent, ClosesLast
      <4>3. ASSUME reader[c] = "done" PROVE more = sent[c]
        BY <1>2, <2>6, <2>7, <2>8, <3>2, <4>3, NothingAfterMarker DEF ClientsIInv, MarkerFound
      <4>4. MarkerFound(c)'
        BY <1>1, <4>1, <4>3 DEF ClientsIInv, MarkerFound
      <4> QED BY <4>2, <4>4
    <3> QED BY <3>1, <3>2
  <2> QED BY <2>10, <2>11 DEF ClientsIInv
<1> QED BY <1>3, <1>4, <1>5 DEF Serve

(* The failure of the service, and steps that change nothing.              *)
LEMMA FailureKeeps ==
  ASSUME ClientsIInv, Fail \/ UNCHANGED clientVars
  PROVE  ClientsIInv'
<1>1. UNCHANGED <<script, link, arrived, fin, taken, sent, main, reader, read>>
  BY DEF Fail, Service!Fail, clientVars, serviceVars, threadVars
<1>2. up' = FALSE \/ up' = up
  BY DEF Fail, Service!Fail, clientVars, serviceVars
<1>3. ClientsTypeOK'
  BY <1>1 DEF ClientsIInv, ClientsTypeOK
<1>4. ASSUME NEW c \in Clients
      PROVE  (ReadsWhatWasSent(c) /\ ClosesLast(c) /\ MarkerFound(c))'
  <2>1. (ClosesLast(c) /\ MarkerFound(c))'
    BY <1>1 DEF ClientsIInv, ClosesLast, MarkerFound
  <2>2. ~ up => ~ up'
    BY <1>2
  <2>3. ReadsWhatWasSent(c)'
    BY <1>1, <2>2, Zenon DEF ClientsIInv, ReadsWhatWasSent
  <2> QED BY <2>1, <2>3
<1> QED BY <1>3, <1>4 DEF ClientsIInv

(* The invariant holds whatever the service and the threads do.            *)
THEOREM ClientsInvariant == ClientSpec => []ClientsIInv
<1>1. ClientInit => ClientsIInv
  BY ClientsStart
<1>2. ClientsIInv /\ [ClientNext]_clientVars => ClientsIInv'
  <2> SUFFICES ASSUME ClientsIInv, [ClientNext]_clientVars PROVE ClientsIInv'
    OBVIOUS
  <2>1. ASSUME NEW c \in Clients, Thread(c) PROVE ClientsIInv'
    BY <2>1, MainThreadKeeps, ReaderKeeps DEF Thread
  <2>2. ASSUME NEW c \in Clients, Arrive(c) PROVE ClientsIInv'
    BY <2>2, NetworkKeeps
  <2>3. ASSUME NEW c \in Clients, Serve(c) PROVE ClientsIInv'
    BY <2>3, ServiceKeeps
  <2>4. CASE Fail \/ UNCHANGED clientVars
    BY <2>4, FailureKeeps
  <2> QED BY <2>1, <2>2, <2>3, <2>4 DEF ClientNext
<1> QED BY <1>1, <1>2, PTL DEF ClientSpec

(* A reader that has seen the marker has read all its client will ever be  *)
(* sent, and no close() of simple_client.py resets such a connection, for  *)
(* any messages and marker like the program's.                             *)
THEOREM MarkerLast == ClientSpec => []MarkerComesLast
<1>1. ClientsIInv => MarkerComesLast
  <2> SUFFICES ASSUME ClientsIInv, NEW c \in Clients, reader[c] = "done"
               PROVE  SubSeq(sent[c], 1, read[c]) = Reply(Everything) /\ fin[c] # "rst"
    BY DEF MarkerComesLast
  <2>1. /\ sent[c] \in Parts /\ sent[c] # << >> /\ read[c] = Len(sent[c]) /\ fin[c] # "rst"
        /\ Occurs(Marker, SubSeq(sent[c], 2, Len(sent[c])))
    BY DEF ClientsIInv, ClientsTypeOK, MarkerFound
  <2>2. sent[c] = Reply(Everything)
    BY <2>1, MarkerEndsPart
  <2>3. PICK V : sent[c] \in Seq(V)
    BY <2>1, PartsAreSequences
  <2>4. SubSeq(sent[c], 1, Len(sent[c])) = sent[c]
    BY <2>3
  <2> QED BY <2>1, <2>2, <2>4
<1> QED BY <1>1, ClientsInvariant, PTL
=============================================================================
