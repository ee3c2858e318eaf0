-------------------------- MODULE SemaphoreProofs --------------------------
(***************************************************************************)
(* Proofs about SemaphoreQueue, for a ring of any size and any number of   *)
(* jobs: the invariants that Semaphore.cfg checks, and that the ring under *)
(* its mutex and two semaphores implements BoundedQueue.  Then about all   *)
(* of Semaphore, for any number of counting threads and turns: they lose   *)
(* no increment, and the queue that starts when they are joined is that of *)
(* SemaphoreQueue.                                                         *)
(***************************************************************************)
EXTENDS Semaphore, FiniteSetTheorems, SequenceTheorems, TLAPS

(* Whoever holds the mutex is between its lock and its unlock.             *)
MutexIsHeld ==
  /\ mutex1 = "consumer" <=> consumer = "held"
  /\ mutex1 = "producer" <=> producer = "held"

(* What the consumer has got is the beginning of what was made, and it     *)
(* starts a turn of its loop only if it has not got all of its jobs.       *)
GotInOrder ==
  /\ made = Len(got) + Count
  /\ \A k \in 1..Len(got) : got[k] = k
  /\ consumer \in {"wait", "lock", "held"} => Len(got) < Jobs
  /\ Len(got) <= Jobs

(* The slots from head to tail hold what was made after that.              *)
BufferInOrder ==
  \A k \in 1..Count : buf[(head + k - 1) % Size] = Len(got) + k

(* The inductive invariant.  SlotsAreConserved is what keeps the ring from *)
(* being found full or empty; it needs the mutex for the threads' places   *)
(* to be those the semaphores count, and the order of the items needs both.*)
IInv == TypeOK /\ MutexIsHeld /\ SlotsAreConserved /\ GotInOrder /\ BufferInOrder

-----------------------------------------------------------------------------
(* Arithmetic on slot numbers.                                             *)

(* The remainder of a number that is at most one turn off the ring.        *)
LEMMA Remainder ==
  ASSUME NEW a \in (-Size)..(2 * Size - 1)
  PROVE  a % Size = IF a < 0 THEN a + Size ELSE IF a < Size THEN a ELSE a - Size
<1>1. CASE a \in 0..(Size - 1)
  BY <1>1, SemaphoreAssumption
<1>2. CASE a \in Size..(2 * Size - 1)
  BY <1>2, SemaphoreAssumption
<1>3. CASE a \in (-Size)..(-1)
  BY <1>3, SemaphoreAssumption
<1> QED BY <1>1, <1>2, <1>3, SemaphoreAssumption

(* After() goes once around the ring.                                      *)
LEMMA AfterWraps ==
  ASSUME NEW k \in Slot
  PROVE  After(k) = IF k + 1 = Size THEN 0 ELSE k + 1
<1>1. k + 1 \in (-Size)..(2 * Size - 1)
  BY SemaphoreAssumption DEF Slot
<1> QED BY <1>1, Remainder, SemaphoreAssumption DEF After, Slot

(* The distance from slot h to slot t.                                     *)
LEMMA Distance ==
  ASSUME NEW h \in Slot, NEW t \in Slot
  PROVE  (t - h) % Size = IF h <= t THEN t - h ELSE t - h + Size
<1>1. t - h \in (-Size)..(2 * Size - 1)
  BY SemaphoreAssumption DEF Slot
<1> QED BY <1>1, Remainder, SemaphoreAssumption DEF Slot

(* The slot k places after slot h.                                         *)
LEMMA NthSlot ==
  ASSUME NEW h \in Slot, NEW k \in 0..(Size - 1)
  PROVE  (h + k) % Size = IF h + k < Size THEN h + k ELSE h + k - Size
<1>1. h + k \in (-Size)..(2 * Size - 1)
  BY SemaphoreAssumption DEF Slot
<1> QED BY <1>1, Remainder, SemaphoreAssumption DEF Slot

(* Between slot h and slot t there are d items: moving t on makes them one *)
(* more and does not reach h; the slot t is none of theirs.                *)
LEMMA TailMoves ==
  ASSUME NEW h \in Slot, NEW t \in Slot, NEW d, d = (t - h) % Size, h # After(t)
  PROVE  /\ d \in 0..(Size - 2)
         /\ After(t) \in Slot
         /\ (After(t) - h) % Size = d + 1
         /\ (h + d) % Size = t
         /\ \A k \in 0..(d - 1) : (h + k) % Size # t
<1>1. d = IF h <= t THEN t - h ELSE t - h + Size
  BY Distance
<1>2. After(t) = IF t + 1 = Size THEN 0 ELSE t + 1
  BY AfterWraps
<1>3. After(t) \in Slot
  BY <1>2, SemaphoreAssumption DEF Slot
<1>4. (After(t) - h) % Size = IF h <= After(t) THEN After(t) - h ELSE After(t) - h + Size
  BY <1>3, Distance
<1>5. d \in 0..(Size - 2)
  BY <1>1, <1>2, SemaphoreAssumption DEF Slot
<1>6. (After(t) - h) % Size = d + 1
  BY <1>1, <1>2, <1>4, SemaphoreAssumption DEF Slot
<1>7. \A k \in 0..d : (h + k) % Size = IF h + k < Size THEN h + k ELSE h + k - Size
  BY <1>5, NthSlot, SemaphoreAssumption
<1>8. (h + d) % Size = t
  BY <1>1, <1>5, <1>7, SemaphoreAssumption DEF Slot
<1>9. ASSUME NEW k \in 0..(d - 1) PROVE (h + k) % Size # t
  <2>1. k \in 0..d
    BY <1>5
  <2> QED BY <2>1, <1>1, <1>5, <1>7, SemaphoreAssumption DEF Slot
<1> QED BY <1>3, <1>5, <1>6, <1>8, <1>9

(* Moving h on makes the items one fewer, and the others one nearer.       *)
LEMMA HeadMoves ==
  ASSUME NEW h \in Slot, NEW t \in Slot, NEW d, d = (t - h) % Size, h # t
  PROVE  /\ d \in 1..(Size - 1)
         /\ After(h) \in Slot
         /\ (t - After(h)) % Size = d - 1
         /\ h % Size = h
         /\ \A k \in 0..(d - 2) : (After(h) + k) % Size = (h + k + 1) % Size
<1>1. d = IF h <= t THEN t - h ELSE t - h + Size
  BY Distance
<1>2. After(h) = IF h + 1 = Size THEN 0 ELSE h + 1
  BY AfterWraps
<1>3. After(h) \in Slot
  BY <1>2, SemaphoreAssumption DEF Slot
<1>4. (t - After(h)) % Size = IF After(h) <= t THEN t - After(h) ELSE t - After(h) + Size
  BY <1>3, Distance
<1>5. d \in 1..(Size - 1)
  BY <1>1, SemaphoreAssumption DEF Slot
<1>6. (t - After(h)) % Size = d - 1
  BY <1>1, <1>2, <1>4, SemaphoreAssumption DEF Slot
<1>7. h % Size = h
  BY Remainder, SemaphoreAssumption DEF Slot
<1>8. ASSUME NEW k \in 0..(d - 2) PROVE (After(h) + k) % Size = (h + k + 1) % Size
  <2>1. k \in 0..(Size - 1) /\ k + 1 \in 0..(Size - 1)
    BY <1>5, SemaphoreAssumption
  <2>2. (After(h) + k) % Size
          = IF After(h) + k < Size THEN After(h) + k ELSE After(h) + k - Size
    BY <1>3, <2>1, NthSlot
  <2>3. (h + (k + 1)) % Size = IF h + (k + 1) < Size THEN h + (k + 1) ELSE h + (k + 1) - Size
    BY <2>1, NthSlot
  <2>4. h + k + 1 = h + (k + 1)
    BY <2>1, SemaphoreAssumption DEF Slot
  <2> QED BY <1>2, <2>1, <2>2, <2>3, <2>4, SemaphoreAssumption DEF Slot
<1> QED BY <1>3, <1>5, <1>6, <1>7, <1>8

-----------------------------------------------------------------------------
(* The ring holds the number of items that the distance of its ends says.  *)
LEMMA CountInRange ==
  ASSUME TypeOK
  PROVE  Count \in 0..(Size - 1)
BY Distance, SemaphoreAssumption DEF TypeOK, Count, Slot

(* It is full, or empty, when it holds the most, or the least, it can.     *)
LEMMA FullAndEmpty ==
  ASSUME TypeOK
  PROVE  /\ is_full <=> Count = Size - 1
         /\ is_empty <=> Count = 0
<1> head \in Slot /\ tail \in Slot
  BY DEF TypeOK
<1>1. Count = IF head <= tail THEN tail - head ELSE tail - head + Size
  BY Distance DEF Count
<1>2. After(tail) = IF tail + 1 = Size THEN 0 ELSE tail + 1
  BY AfterWraps
<1> QED BY <1>1, <1>2, SemaphoreAssumption DEF is_full, is_empty, Slot

(* A thread that is let in by its semaphore finds what it was let in for.  *)
LEMMA ConservedSlotsSuffice ==
  ASSUME TypeOK, SlotsAreConserved
  PROVE  AddAndPopSucceed
<1>1. Count \in 0..(Size - 1)
  BY CountInRange
<1>2. ASSUME producer = "held" PROVE ~ is_full
  <2>1. Count # Size - 1
    BY <1>1, <1>2, SemaphoreAssumption
       DEF SlotsAreConserved, Producing, Consuming, TypeOK, ThreadAt
  <2> QED BY <2>1, FullAndEmpty
<1>3. ASSUME consumer = "held" PROVE ~ is_empty
  <2>1. Count # 0
    BY <1>1, <1>3, SemaphoreAssumption DEF SlotsAreConserved, TypeOK
  <2> QED BY <2>1, FullAndEmpty
<1> QED BY <1>2, <1>3 DEF AddAndPopSucceed

(* The queue starts empty, with every free slot counted by semaphore2.     *)
LEMMA InitInvariant == Init => IInv
<1> SUFFICES ASSUME Init PROVE IInv
  OBVIOUS
<1> USE SemaphoreAssumption DEF Init
<1>1. head \in Slot /\ tail \in Slot
  BY DEF Slot
<1>2. Count = 0
  BY <1>1, Distance DEF Count
<1>3. got = << >> /\ Len(got) = 0 /\ got \in Seq(Int)
  OBVIOUS
<1>4. TypeOK
  BY <1>1, <1>3 DEF TypeOK, Holder, ThreadAt, MainAt, Slot
<1>5. MutexIsHeld
  BY DEF MutexIsHeld
<1>6. SlotsAreConserved
  BY <1>2 DEF SlotsAreConserved, Producing, Consuming
<1>7. GotInOrder /\ BufferInOrder
  BY <1>2, <1>3 DEF GotInOrder, BufferInOrder
<1> QED BY <1>4, <1>5, <1>6, <1>7 DEF IInv

(* A step that leaves the ring and what was got alone keeps the invariant  *)
(* if it keeps the counts.                                                 *)
LEMMA RingUntouched ==
  ASSUME IInv, UNCHANGED <<head, tail, buf, made, got>>
  PROVE  /\ Count' = Count
         /\ BufferInOrder'
         /\ GotInOrder' <=> /\ consumer' \in {"wait", "lock", "held"} => Len(got) < Jobs
                            /\ Len(got) <= Jobs
<1>1. Count' = Count
  BY DEF Count
<1>2. BufferInOrder'
  BY <1>1 DEF IInv, BufferInOrder
<1>3. GotInOrder' <=> /\ consumer' \in {"wait", "lock", "held"} => Len(got) < Jobs
                      /\ Len(got) <= Jobs
  BY <1>1 DEF IInv, GotInOrder
<1> QED BY <1>1, <1>2, <1>3

(* The producer's add_item() puts the next item behind the others.         *)
LEMMA AddExtends ==
  ASSUME IInv, ProduceAdd
  PROVE  /\ TypeOK'
         /\ Count < Size - 1 /\ Count' = Count + 1
         /\ made' = made + 1 /\ got' = got
         /\ \A k \in 1..Count :
              buf'[(head' + k - 1) % Size] = buf[(head + k - 1) % Size]
         /\ buf'[(head' + Count' - 1) % Size] = made'
<1> USE SemaphoreAssumption
<1> TypeOK /\ head \in Slot /\ tail \in Slot /\ buf \in [Slot -> Nat] /\ made \in Nat
  BY DEF IInv, TypeOK
<1>1. ~ is_full
  BY ConservedSlotsSuffice DEF IInv, AddAndPopSucceed, ProduceAdd
<1>2. /\ buf' = [buf EXCEPT ![tail] = made + 1]
      /\ tail' = After(tail) /\ head' = head
      /\ made' = made + 1 /\ got' = got
  BY <1>1 DEF ProduceAdd, add_item
<1>3. /\ Count \in 0..(Size - 2)
      /\ After(tail) \in Slot
      /\ (After(tail) - head) % Size = Count + 1
      /\ (head + Count) % Size = tail
      /\ \A k \in 0..(Count - 1) : (head + k) % Size # tail
  BY <1>1, TailMoves DEF is_full, Count
<1>4. Count' = Count + 1
  BY <1>2, <1>3 DEF Count
<1>5. TypeOK'
  <2>1. head' \in Slot /\ tail' \in Slot /\ buf' \in [Slot -> Nat] /\ made' \in Nat
    BY <1>2, <1>3
  <2>2. UNCHANGED <<semaphore1, semaphore2, consumer, got>>
    BY DEF ProduceAdd
  <2>3. mutex1' \in Holder /\ producer' \in ThreadAt \ {"done"} /\ main' \in MainAt
    BY DEF ProduceAdd, Holder, ThreadAt, MainAt, TypeOK
  <2> QED BY <2>1, <2>2, <2>3 DEF TypeOK
<1>6. ASSUME NEW k \in 1..Count
      PROVE  buf'[(head' + k - 1) % Size] = buf[(head + k - 1) % Size]
  <2>1. k - 1 \in 0..(Count - 1) /\ head + (k - 1) = head + k - 1 /\ k - 1 \in 0..(Size - 1)
    BY <1>3 DEF Slot
  <2>2. (head + k - 1) % Size # tail
    BY <1>3, <2>1
  <2>3. (head + k - 1) % Size \in Slot
    BY <2>1, NthSlot DEF Slot
  <2> QED BY <1>2, <2>2, <2>3
<1>7. buf'[(head' + Count' - 1) % Size] = made'
  <2>1. head' + Count' - 1 = head + Count
    BY <1>2, <1>3, <1>4 DEF Slot
  <2> QED BY <1>2, <1>3, <2>1
<1> QED BY <1>2, <1>3, <1>4, <1>5, <1>6, <1>7

(* The consumer's pop_item() takes the first and leaves the others.        *)
LEMMA PopShortens ==
  ASSUME IInv, ConsumePop
  PROVE  /\ TypeOK'
         /\ Count > 0 /\ Count' = Count - 1
         /\ made' = made
         /\ got' = Append(got, buf[(head + 1 - 1) % Size])
         /\ \A k \in 1..(Count - 1) :
              buf'[(head' + k - 1) % Size] = buf[(head + (k + 1) - 1) % Size]
<1> USE SemaphoreAssumption
<1> TypeOK /\ head \in Slot /\ tail \in Slot /\ buf \in [Slot -> Nat] /\ got \in Seq(Int)
  BY DEF IInv, TypeOK
<1>1. ~ is_empty
  BY ConservedSlotsSuffice DEF IInv, AddAndPopSucceed, ConsumePop
<1>2. /\ got' = Append(got, buf[head])
      /\ head' = After(head) /\ tail' = tail
      /\ UNCHANGED <<buf, made>>
  BY <1>1 DEF ConsumePop, pop_item
<1>3. /\ Count \in 1..(Size - 1)
      /\ After(head) \in Slot
      /\ (tail - After(head)) % Size = Count - 1
      /\ head % Size = head
      /\ \A k \in 0..(Count - 2) : (After(head) + k) % Size = (head + k + 1) % Size
  BY <1>1, HeadMoves DEF is_empty, Count
<1>4. Count' = Count - 1
  BY <1>2, <1>3 DEF Count
<1>5. TypeOK'
  <2>1. head' \in Slot /\ tail' \in Slot /\ buf' \in [Slot -> Nat]
    BY <1>2, <1>3
  <2>2. got' \in Seq(Int)
    BY <1>2
  <2>3. UNCHANGED <<semaphore1, semaphore2, producer, main, made>>
    BY DEF ConsumePop
  <2>4. mutex1' \in Holder /\ consumer' \in ThreadAt
    BY DEF ConsumePop, Holder, ThreadAt
  <2> QED BY <2>1, <2>2, <2>3, <2>4 DEF TypeOK
<1>6. ASSUME NEW k \in 1..(Count - 1)
      PROVE  buf'[(head' + k - 1) % Size] = buf[(head + (k + 1) - 1) % Size]
  <2>1. k - 1 \in 0..(Count - 2)
    BY <1>3
  <2>2. (After(head) + (k - 1)) % Size = (head + (k - 1) + 1) % Size
    BY <1>3, <2>1
  <2>3. /\ After(head) + (k - 1) = After(head) + k - 1
        /\ head + (k - 1) + 1 = head + (k + 1) - 1
    BY <1>3 DEF Slot
  <2> QED BY <1>2, <2>2, <2>3
<1>7. head + 1 - 1 = head
  BY DEF Slot
<1> QED BY <1>2, <1>3, <1>4, <1>5, <1>6, <1>7

(* The producer's critical section keeps the invariant.                    *)
LEMMA AddKeepsInvariant ==
  ASSUME IInv, ProduceAdd
  PROVE  IInv'
<1> USE SemaphoreAssumption
<1>1. Count \in 0..(Size - 1)
  BY CountInRange DEF IInv
<1>2. /\ TypeOK'
      /\ Count < Size - 1 /\ Count' = Count + 1
      /\ made' = made + 1 /\ got' = got
      /\ \A k \in 1..Count :
           buf'[(head' + k - 1) % Size] = buf[(head + k - 1) % Size]
      /\ buf'[(head' + Count' - 1) % Size] = made'
  BY AddExtends
<1>3. MutexIsHeld'
  BY DEF ProduceAdd, MutexIsHeld, IInv, TypeOK, ThreadAt
<1>4. SlotsAreConserved'
  BY <1>1, <1>2 DEF ProduceAdd, SlotsAreConserved, Producing, Consuming, IInv, TypeOK, ThreadAt
<1>5. GotInOrder'
  BY <1>1, <1>2 DEF ProduceAdd, GotInOrder, IInv, TypeOK
<1>6. BufferInOrder'
  <2> SUFFICES ASSUME NEW k \in 1..(Count + 1)
               PROVE  buf'[(head' + k - 1) % Size] = Len(got) + k
    BY <1>2 DEF BufferInOrder
  <2>1. CASE k \in 1..Count
    BY <1>2, <2>1 DEF IInv, BufferInOrder
  <2>2. CASE k = Count + 1
    BY <1>1, <1>2, <2>2 DEF IInv, GotInOrder, TypeOK
  <2> QED BY <1>1, <2>1, <2>2
<1> QED BY <1>2, <1>3, <1>4, <1>5, <1>6 DEF IInv

(* The consumer's critical section keeps the invariant.                    *)
LEMMA PopKeepsInvariant ==
  ASSUME IInv, ConsumePop
  PROVE  IInv'
<1> USE SemaphoreAssumption
<1>1. Count \in 0..(Size - 1)
  BY CountInRange DEF IInv
<1>2. /\ TypeOK'
      /\ Count > 0 /\ Count' = Count - 1
      /\ made' = made
      /\ got' = Append(got, buf[(head + 1 - 1) % Size])
      /\ \A k \in 1..(Count - 1) :
           buf'[(head' + k - 1) % Size] = buf[(head + (k + 1) - 1) % Size]
  BY PopShortens
<1>3. buf[(head + 1 - 1) % Size] = Len(got) + 1
  BY <1>1, <1>2 DEF IInv, BufferInOrder
<1>4. /\ got' = Append(got, Len(got) + 1)
      /\ Len(got') = Len(got) + 1
      /\ \A k \in 1..Len(got) : got'[k] = got[k]
      /\ got'[Len(got) + 1] = Len(got) + 1
  BY <1>2, <1>3 DEF IInv, TypeOK
<1>5. MutexIsHeld'
  BY DEF ConsumePop, MutexIsHeld, IInv, TypeOK, ThreadAt
<1>6. SlotsAreConserved'
  BY <1>1, <1>2 DEF ConsumePop, SlotsAreConserved, Producing, Consuming, IInv, TypeOK, ThreadAt
<1>7. GotInOrder'
  <2>1. made' = Len(got') + Count'
    BY <1>1, <1>2, <1>4 DEF GotInOrder, IInv, TypeOK
  <2>2. \A k \in 1..Len(got') : got'[k] = k
    BY <1>4 DEF GotInOrder, IInv, TypeOK
  <2>3. Len(got') <= Jobs /\ consumer' = "post"
    BY <1>4 DEF GotInOrder, IInv, TypeOK, ConsumePop
  <2> QED BY <2>1, <2>2, <2>3 DEF GotInOrder
<1>8. BufferInOrder'
  <2> SUFFICES ASSUME NEW k \in 1..(Count - 1)
               PROVE  buf'[(head' + k - 1) % Size] = Len(got') + k
    BY <1>2 DEF BufferInOrder
  <2>1. k + 1 \in 1..Count
    BY <1>1
  <2>2. buf[(head + (k + 1) - 1) % Size] = Len(got) + (k + 1)
    BY <2>1 DEF IInv, BufferInOrder
  <2> QED BY <1>2, <1>4, <2>2 DEF IInv, TypeOK
<1> QED BY <1>2, <1>5, <1>6, <1>7, <1>8 DEF IInv

(* The invariant is inductive: every action of the threads and main() that *)
(* is not a critical section leaves the ring alone.                        *)
LEMMA StepKeepsInvariant == IInv /\ [Next]_vars => IInv'
<1> SUFFICES ASSUME IInv, [Next]_vars PROVE IInv'
  OBVIOUS
<1> USE SemaphoreAssumption
<1> DEFINE Parts == <<head, tail, buf, made, got>>
           Turn == /\ consumer' \in {"wait", "lock", "held"} => Len(got) < Jobs
                   /\ Len(got) <= Jobs
<1> TypeOK /\ MutexIsHeld /\ SlotsAreConserved /\ GotInOrder
  BY DEF IInv
<1>1. Count \in 0..(Size - 1)
  BY CountInRange
<1>2. ASSUME UNCHANGED Parts, TypeOK', MutexIsHeld', SlotsAreConserved', Turn
      PROVE  IInv'
  BY <1>2, RingUntouched DEF IInv
<1>3. ASSUME ConsumeWait PROVE IInv'
  <2>1. UNCHANGED Parts /\ Count' = Count
    BY <1>3 DEF ConsumeWait, Count
  <2>2. TypeOK' /\ MutexIsHeld' /\ Turn
    BY <1>3 DEF ConsumeWait, TypeOK, MutexIsHeld, GotInOrder, ThreadAt
  <2>3. SlotsAreConserved'
    BY <1>3, <2>1 DEF ConsumeWait, SlotsAreConserved, Producing, Consuming, TypeOK
  <2> QED BY <1>2, <2>1, <2>2, <2>3
<1>4. ASSUME ConsumeLock PROVE IInv'
  <2>1. UNCHANGED Parts /\ Count' = Count
    BY <1>4 DEF ConsumeLock, Count
  <2>2. TypeOK' /\ MutexIsHeld' /\ Turn
    BY <1>4 DEF ConsumeLock, TypeOK, MutexIsHeld, GotInOrder, ThreadAt, Holder
  <2>3. SlotsAreConserved'
    BY <1>4, <2>1 DEF ConsumeLock, SlotsAreConserved, Producing, Consuming, TypeOK
  <2> QED BY <1>2, <2>1, <2>2, <2>3
<1>5. ASSUME ConsumePost PROVE IInv'
  <2>1. UNCHANGED Parts /\ Count' = Count
    BY <1>5 DEF ConsumePost, Count
  <2>2. TypeOK' /\ MutexIsHeld' /\ Turn
    BY <1>5 DEF ConsumePost, TypeOK, MutexIsHeld, GotInOrder, ThreadAt
  <2>3. SlotsAreConserved'
    BY <1>5, <2>1 DEF ConsumePost, SlotsAreConserved, Producing, Consuming, TypeOK
  <2> QED BY <1>2, <2>1, <2>2, <2>3
<1>6. ASSUME ProduceWait PROVE IInv'
  <2>1. UNCHANGED Parts /\ Count' = Count
    BY <1>6 DEF ProduceWait, Count
  <2>2. TypeOK' /\ MutexIsHeld' /\ Turn
    BY <1>6 DEF ProduceWait, TypeOK, MutexIsHeld, GotInOrder, ThreadAt
  <2>3. SlotsAreConserved'
    BY <1>6, <2>1 DEF ProduceWait, SlotsAreConserved, Producing, Consuming, TypeOK
  <2> QED BY <1>2, <2>1, <2>2, <2>3
<1>7. ASSUME ProduceLock PROVE IInv'
  <2>1. UNCHANGED Parts /\ Count' = Count
    BY <1>7 DEF ProduceLock, Count
  <2>2. TypeOK' /\ MutexIsHeld' /\ Turn
    BY <1>7 DEF ProduceLock, TypeOK, MutexIsHeld, GotInOrder, ThreadAt, Holder
  <2>3. SlotsAreConserved'
    BY <1>7, <2>1 DEF ProduceLock, SlotsAreConserved, Producing, Consuming, TypeOK
  <2> QED BY <1>2, <2>1, <2>2, <2>3
<1>8. ASSUME ProducePost PROVE IInv'
  <2>1. UNCHANGED Parts /\ Count' = Count
    BY <1>8 DEF ProducePost, Count
  <2>2. TypeOK' /\ MutexIsHeld' /\ Turn
    BY <1>8 DEF ProducePost, TypeOK, MutexIsHeld, GotInOrder, ThreadAt
  <2>3. SlotsAreConserved'
    BY <1>8, <2>1 DEF ProducePost, SlotsAreConserved, Producing, Consuming, TypeOK
  <2> QED BY <1>2, <2>1, <2>2, <2>3
<1>9. ASSUME Main \/ UNCHANGED vars PROVE IInv'
  <2>1. UNCHANGED Parts /\ Count' = Count
    BY <1>9 DEF Main, MainFree, MainReturn, vars, Count
  <2>2. TypeOK' /\ MutexIsHeld' /\ Turn
    BY <1>9 DEF Main, MainFree, MainReturn, vars, TypeOK, MutexIsHeld, GotInOrder, MainAt
  <2>3. SlotsAreConserved'
    BY <1>9, <2>1 DEF Main, MainFree, MainReturn, vars,
                      SlotsAreConserved, Producing, Consuming
  <2> QED BY <1>2, <2>1, <2>2, <2>3
<1> QED
  BY <1>3, <1>4, <1>5, <1>6, <1>7, <1>8, <1>9, AddKeepsInvariant, PopKeepsInvariant
     DEF Next, Consume, Produce

(* The inductive invariant holds of semaphore.c in every state.            *)
THEOREM Invariant == Spec => []IInv
BY InitInvariant, StepKeepsInvariant, PTL DEF Spec

-----------------------------------------------------------------------------
(* The variables stay in their ranges; head and tail never leave the ring. *)
THEOREM TypeCorrect == Spec => []TypeOK
<1>1. IInv => TypeOK
  BY DEF IInv
<1> QED BY <1>1, Invariant, PTL

(* The semaphores and the threads between their wait and their post always *)
(* account for all slots but one, whatever the size of the ring.           *)
THEOREM SlotsConserved == Spec => []SlotsAreConserved
<1>1. IInv => SlotsAreConserved
  BY DEF IInv
<1> QED BY <1>1, Invariant, PTL

(* add_item() and pop_item() never fail, so ignoring their results is      *)
(* right: the semaphores alone keep the ring from over- and underflow.     *)
THEOREM ResultsNeedNoCheck == Spec => []AddAndPopSucceed
<1>1. IInv => AddAndPopSucceed
  BY ConservedSlotsSuffice DEF IInv
<1> QED BY <1>1, Invariant, PTL

(* After main has freed the buffer the producer can store into it only as  *)
(* often as slots were free or given back.                                 *)
THEOREM StrayWritesBounded == Spec => []StrayWritesAreBounded
<1>1. IInv => StrayWritesAreBounded
  <2> SUFFICES ASSUME IInv PROVE made <= Jobs + Size - 1
    BY DEF StrayWritesAreBounded
  <2>1. Count \in 0..(Size - 1)
    BY CountInRange DEF IInv
  <2> QED BY <2>1, SemaphoreAssumption DEF IInv, GotInOrder, TypeOK
<1> QED BY <1>1, Invariant, PTL

(* The items in the ring, as a sequence.                                   *)
ContentsContinue ==
  /\ Contents \in Seq(Int)
  /\ Len(Contents) = Count
  /\ \A k \in 1..Count : Contents[k] = Len(got) + k

(* What the ring holds goes on where what was got ends.                    *)
LEMMA ContentsIsASequence == IInv => ContentsContinue
<1> SUFFICES ASSUME IInv PROVE ContentsContinue
  OBVIOUS
<1>1. Count \in 0..(Size - 1)
  BY CountInRange DEF IInv
<1>2. \A k \in 1..Count : buf[(head + k - 1) % Size] = Len(got) + k
  BY DEF IInv, BufferInOrder
<1>3. Contents \in [1..Count -> Int]
  BY <1>1, <1>2, SemaphoreAssumption DEF Contents, IInv, TypeOK
<1>4. Contents \in Seq(Int) /\ Len(Contents) = Count
  BY <1>1, <1>3, SemaphoreAssumption
<1> QED BY <1>2, <1>4 DEF Contents, ContentsContinue

(* What has been got and what the ring holds are together the items made,  *)
(* in order: none is lost, none is repeated.                               *)
THEOREM ItemsInOrder == Spec => []FirstInFirstOut
<1>1. ASSUME IInv PROVE FirstInFirstOut
  <2> DEFINE all == [n \in 1..made |-> n]
  <2>1. got \in Seq(Int) /\ made = Len(got) + Count /\ \A k \in 1..Len(got) : got[k] = k
    BY <1>1 DEF IInv, TypeOK, GotInOrder
  <2>2. Count \in 0..(Size - 1) /\ Len(got) \in Nat /\ made \in Nat
    BY <1>1, CountInRange DEF IInv, TypeOK
  <2>3. /\ Contents \in Seq(Int) /\ Len(Contents) = Count
        /\ \A k \in 1..Count : Contents[k] = Len(got) + k
    BY <1>1, ContentsIsASequence DEF ContentsContinue
  <2>4. all \in Seq(Int) /\ Len(all) = made /\ \A n \in 1..made : all[n] = n
    BY <2>2
  <2> HIDE DEF all
  <2>5. /\ got \o Contents \in Seq(Int)
        /\ Len(got \o Contents) = Len(got) + Count
        /\ \A n \in 1..(Len(got) + Count) :
             (got \o Contents)[n] = IF n <= Len(got) THEN got[n] ELSE Contents[n - Len(got)]
    BY <2>1, <2>3, ConcatProperties
  <2>6. ASSUME NEW n \in 1..made PROVE (got \o Contents)[n] = all[n]
    <3>1. CASE n <= Len(got)
      BY <2>1, <2>2, <2>4, <2>5, <3>1
    <3>2. CASE n > Len(got)
      <4>1. n - Len(got) \in 1..Count
        BY <2>1, <2>2, <3>2, SemaphoreAssumption
      <4> QED BY <2>1, <2>2, <2>3, <2>4, <2>5, <3>2, <4>1, SemaphoreAssumption
    <3>3. n <= Len(got) \/ n > Len(got)
      BY <2>2
    <3> QED BY <3>1, <3>2, <3>3, Zenon
  <2>7. got \o Contents = all
    BY <2>1, <2>4, <2>5, <2>6, SeqEqual
  <2> QED BY <2>7 DEF all, FirstInFirstOut
<1> QED BY <1>1, Invariant, PTL

-----------------------------------------------------------------------------
(* The refinement.                                                         *)

(* An empty ring is an empty queue.                                        *)
LEMMA RefinesInit == Init => Queue!Init
<1> SUFFICES ASSUME Init PROVE Queue!Init
  OBVIOUS
<1>1. Count = 0
  BY Distance, SemaphoreAssumption DEF Init, Count, Slot
<1>2. Contents = << >>
  BY <1>1 DEF Contents
<1> QED BY <1>2 DEF Init, Queue!Init

(* add_item() under the mutex puts one item into the queue.                *)
LEMMA RefinesAdd == IInv /\ ProduceAdd => Queue!Put
<1> SUFFICES ASSUME IInv, ProduceAdd PROVE Queue!Put
  OBVIOUS
<1>1. IInv'
  BY AddKeepsInvariant
<1>2. /\ Count < Size - 1 /\ Count' = Count + 1
      /\ made' = made + 1 /\ got' = got
  BY AddExtends
<1>3. /\ Count \in 0..(Size - 1) /\ made = Len(got) + Count
      /\ Len(got) \in Nat /\ made \in Nat
  BY CountInRange DEF IInv, GotInOrder, TypeOK
<1>4. /\ Contents \in Seq(Int) /\ Len(Contents) = Count
      /\ \A k \in 1..Count : Contents[k] = Len(got) + k
  BY ContentsIsASequence DEF ContentsContinue
<1>5. /\ Contents' \in Seq(Int) /\ Len(Contents') = Count'
      /\ \A k \in 1..Count' : Contents'[k] = Len(got') + k
  <2>1. ContentsContinue'
    BY <1>1, ContentsIsASequence, PTL
  <2> QED BY <2>1 DEF ContentsContinue
<1>6. Contents' = Append(Contents, made + 1)
  <2>1. /\ Append(Contents, made + 1) \in Seq(Int)
        /\ Len(Append(Contents, made + 1)) = Count + 1
        /\ \A k \in 1..Count : Append(Contents, made + 1)[k] = Contents[k]
        /\ Append(Contents, made + 1)[Count + 1] = made + 1
    BY <1>3, <1>4, AppendProperties
  <2>2. \A k \in 1..(Count + 1) : Contents'[k] = Append(Contents, made + 1)[k]
    BY <1>2, <1>3, <1>4, <1>5, <2>1
  <2> QED BY <1>2, <1>5, <2>1, <2>2, SeqEqual
<1> QED BY <1>2, <1>4, <1>6 DEF Queue!Put

(* pop_item() under the mutex takes one item out of the queue.             *)
LEMMA RefinesPop == IInv /\ ConsumePop => Queue!Take
<1> SUFFICES ASSUME IInv, ConsumePop PROVE Queue!Take
  OBVIOUS
<1>1. IInv'
  BY PopKeepsInvariant
<1>2. /\ Count > 0 /\ Count' = Count - 1
      /\ made' = made
      /\ got' = Append(got, buf[(head + 1 - 1) % Size])
  BY PopShortens
<1>3. Count \in 0..(Size - 1) /\ got \in Seq(Int) /\ Len(got) \in Nat
  BY CountInRange DEF IInv, TypeOK
<1>4. /\ Contents \in Seq(Int) /\ Len(Contents) = Count
      /\ \A k \in 1..Count : Contents[k] = Len(got) + k
  BY ContentsIsASequence DEF ContentsContinue
<1>5. /\ Contents' \in Seq(Int) /\ Len(Contents') = Count'
      /\ \A k \in 1..Count' : Contents'[k] = Len(got') + k
  <2>1. ContentsContinue'
    BY <1>1, ContentsIsASequence, PTL
  <2> QED BY <2>1 DEF ContentsContinue
<1>6. Contents # << >> /\ Head(Contents) = Contents[1]
  BY <1>2, <1>3, <1>4
<1>7. got' = Append(got, Head(Contents)) /\ Len(got') = Len(got) + 1
  <2>1. Contents[1] = buf[(head + 1 - 1) % Size]
    BY <1>2, <1>3, SemaphoreAssumption DEF Contents
  <2> QED BY <1>2, <1>3, <1>4, <1>6, <2>1
<1>8. Contents' = Tail(Contents)
  <2>1. /\ Tail(Contents) \in Seq(Int)
        /\ Len(Tail(Contents)) = Count - 1
        /\ \A k \in 1..(Count - 1) : Tail(Contents)[k] = Contents[k + 1]
    BY <1>4, <1>6, HeadTailProperties
  <2>2. \A k \in 1..(Count - 1) : Contents'[k] = Tail(Contents)[k]
    BY <1>2, <1>3, <1>4, <1>5, <1>7, <2>1, SemaphoreAssumption
  <2> QED BY <1>2, <1>5, <2>1, <2>2, SeqEqual
<1> QED BY <1>2, <1>6, <1>7, <1>8 DEF Queue!Take

(* Every step puts one item in, takes one out, or changes neither the ring *)
(* nor what was got.                                                       *)
LEMMA RefinesNext == IInv /\ [Next]_vars => [Queue!Next]_(Queue!vars)
<1> SUFFICES ASSUME IInv, [Next]_vars PROVE [Queue!Next]_(Queue!vars)
  OBVIOUS
<1>1. CASE ProduceAdd
  BY <1>1, RefinesAdd DEF Queue!Next
<1>2. CASE ConsumePop
  BY <1>2, RefinesPop DEF Queue!Next
<1>3. CASE UNCHANGED <<head, tail, buf, made, got>>
  BY <1>3 DEF Queue!vars, Contents, Count
<1> QED
  BY <1>1, <1>2, <1>3 DEF Next, Consume, Produce, Main, vars, ConsumeWait, ConsumeLock,
     ConsumePost, ProduceWait, ProduceLock, ProducePost, MainFree, MainReturn

(* The ring under its mutex and its semaphores is a bounded first-in       *)
(* first-out queue of Size - 1 items.                                      *)
THEOREM Refinement == Spec => ImplementsBoundedQueue
BY RefinesInit, RefinesNext, Invariant, PTL DEF Spec, Queue!Spec, ImplementsBoundedQueue

-----------------------------------------------------------------------------
(* The counting threads, for any number of them and of their turns.        *)
ChildAt == {"lock", "held", "print", "done"}

(* Where the counting threads are and what they hold.                      *)
ChildrenTypeOK ==
  /\ counter \in Nat
  /\ child \in [Children -> ChildAt]
  /\ tmp \in [Children -> Nat]
  /\ printed \in [Children -> Seq(Nat)]

(* One thread at most is between its lock and its unlock, and counter is   *)
(* still what that thread has read.                                        *)
CountedUnderMutex ==
  /\ \A t, u \in Children : child[t] = "held" /\ child[u] = "held" => t = u
  /\ \A t \in Children : child[t] = "held" => tmp[t] = counter

(* A thread that is not done has turns left, and has printed what counts   *)
(* its own turns at least; what it prints next will be more.               *)
PrintedInOrder ==
  \A t \in Children :
    /\ IF child[t] = "done" THEN Len(printed[t]) = Turns ELSE Len(printed[t]) < Turns
    /\ Stores(t) <= counter
    /\ \A k \in DOMAIN printed[t] :
         /\ printed[t][k] \in k..counter
         /\ k > 1 => printed[t][k] > printed[t][k - 1]
         /\ child[t] = "print" => printed[t][k] < counter

(* The inductive invariant of the counting threads.                        *)
CInv == /\ ChildrenTypeOK /\ CountedUnderMutex /\ PrintedInOrder
        /\ counter = Cardinality(Stored)

(* The stores so far are finitely many.                                    *)
LEMMA StoredFinite == IsFiniteSet(Stored)
<1>1. IsFiniteSet(1..Turns)
  BY FS_Interval, ChildrenAssumption
<1>2. IsFiniteSet(Children \X (1..Turns))
  BY <1>1, FS_Product, ChildrenAssumption
<1>3. Stored \in SUBSET (Children \X (1..Turns))
  BY DEF Stored
<1> QED BY <1>2, <1>3, FS_Subset

(* A store adds one pair to them.                                          *)
LEMMA OneMoreStore ==
  ASSUME CInv, NEW t \in Children, ChildStore(t)
  PROVE  Cardinality(Stored') = Cardinality(Stored) + 1
<1> DEFINE new == <<t, Len(printed[t]) + 1>>
<1>1. Len(printed[t]) \in Nat /\ Len(printed[t]) < Turns
  BY DEF CInv, ChildrenTypeOK, PrintedInOrder, ChildStore
<1>2. Stores(t) = Len(printed[t]) /\ Stores(t)' = Len(printed[t]) + 1
  BY <1>1 DEF Stores, ChildStore, CInv, ChildrenTypeOK
<1>3. \A u \in Children \ {t} : Stores(u)' = Stores(u)
  BY DEF Stores, ChildStore, CInv, ChildrenTypeOK
<1>4. new \in Children \X (1..Turns) /\ new \notin Stored
  BY <1>1, <1>2, ChildrenAssumption DEF Stored
<1>5. ASSUME NEW s \in Children \X (1..Turns)
      PROVE  s[2] <= Stores(s[1])' <=> s[2] <= Stores(s[1]) \/ s = new
  <2>1. PICK u \in Children, k \in 1..Turns : s = <<u, k>>
    OBVIOUS
  <2>2. CASE u = t
    BY <1>1, <1>2, <2>1, <2>2
  <2>3. CASE u # t
    <3>1. s # new
      BY <2>1, <2>3
    <3> QED BY <1>3, <2>1, <2>3, <3>1
  <2> QED BY <2>2, <2>3
<1> HIDE DEF new
<1>6. Stored' = Stored \cup {new}
  <2>1. Stored' = {s \in Children \X (1..Turns) : s[2] <= Stores(s[1])'}
    BY DEF Stored
  <2> QED BY <1>4, <1>5, <2>1 DEF Stored
<1> QED BY <1>4, <1>6, StoredFinite, FS_AddElement

LEMMA ChildInit == MainInit => CInv
<1> SUFFICES ASSUME MainInit PROVE CInv
  OBVIOUS
<1>1. ChildrenTypeOK
  BY DEF MainInit, ChildrenTypeOK, ChildAt
<1>2. CountedUnderMutex
  BY DEF MainInit, CountedUnderMutex
<1>3. \A t \in Children : Len(printed[t]) = 0 /\ Stores(t) = 0 /\ DOMAIN printed[t] = {}
  BY DEF MainInit, Stores
<1>4. PrintedInOrder
  BY <1>3, ChildrenAssumption DEF PrintedInOrder, MainInit
<1>5. Stored = {}
  BY <1>3 DEF Stored
<1>6. counter = Cardinality(Stored)
  BY <1>5, FS_EmptySet DEF MainInit
<1> QED BY <1>1, <1>2, <1>4, <1>6 DEF CInv

(* The lock lets one thread in, which reads what counter is.               *)
LEMMA ChildLockInv ==
  ASSUME CInv, NEW t \in Children, ChildLock(t)
  PROVE  CInv'
<1> USE DEF ChildLock
<1>1. ChildrenTypeOK'
  BY DEF CInv, ChildrenTypeOK, ChildAt
<1>2. CountedUnderMutex'
  BY DEF CInv, ChildrenTypeOK, CountedUnderMutex
<1>3. \A u \in Children : Stores(u)' = Stores(u)
  BY DEF Stores, CInv, ChildrenTypeOK
<1>4. PrintedInOrder'
  <2> SUFFICES ASSUME NEW u \in Children
               PROVE  /\ IF child'[u] = "done" THEN Len(printed[u]) = Turns ELSE Len(printed[u]) < Turns
                      /\ Stores(u) <= counter
                      /\ \A k \in DOMAIN printed[u] :
                           /\ printed[u][k] \in k..counter
                           /\ k > 1 => printed[u][k] > printed[u][k - 1]
                           /\ child'[u] = "print" => printed[u][k] < counter
    BY <1>3 DEF PrintedInOrder
  <2> QED BY DEF CInv, ChildrenTypeOK, PrintedInOrder
<1>5. Stored' = Stored
  BY <1>3 DEF Stored
<1> QED BY <1>1, <1>2, <1>4, <1>5 DEF CInv

(* What it stores is one more than counter, for nobody else was let in.    *)
LEMMA ChildStoreInv ==
  ASSUME CInv, NEW t \in Children, ChildStore(t)
  PROVE  CInv'
<1>1. counter' = counter + 1 /\ counter \in Nat
  BY DEF ChildStore, CInv, CountedUnderMutex, ChildrenTypeOK
<1>2. /\ child' = [child EXCEPT ![t] = "print"] /\ child[t] = "held"
      /\ printed' = printed /\ tmp' = tmp
  BY DEF ChildStore
<1>3. ChildrenTypeOK'
  BY <1>1, <1>2 DEF CInv, ChildrenTypeOK, ChildAt
<1>4. CountedUnderMutex'
  BY <1>2 DEF CInv, CountedUnderMutex, ChildrenTypeOK
<1>5. PrintedInOrder'
  <2> SUFFICES ASSUME NEW u \in Children
               PROVE  /\ IF child'[u] = "done" THEN Len(printed[u]) = Turns ELSE Len(printed[u]) < Turns
                      /\ Stores(u)' <= counter + 1
                      /\ \A k \in DOMAIN printed[u] :
                           /\ printed[u][k] \in k..(counter + 1)
                           /\ k > 1 => printed[u][k] > printed[u][k - 1]
                           /\ child'[u] = "print" => printed[u][k] < counter + 1
    BY <1>1, <1>2 DEF PrintedInOrder
  <2>1. IF child'[u] = "done" THEN Len(printed[u]) = Turns ELSE Len(printed[u]) < Turns
    BY <1>2 DEF CInv, PrintedInOrder, ChildrenTypeOK
  <2>2. Stores(u)' <= counter + 1
    <3>1. Stores(u) <= counter /\ Len(printed[u]) \in Nat
      BY DEF CInv, PrintedInOrder, ChildrenTypeOK
    <3> QED BY <1>1, <1>2, <3>1 DEF Stores, CInv, ChildrenTypeOK
  <2>3. ASSUME NEW k \in DOMAIN printed[u]
        PROVE  /\ printed[u][k] \in k..(counter + 1)
               /\ k > 1 => printed[u][k] > printed[u][k - 1]
               /\ printed[u][k] < counter + 1
    <3>1. k \in Nat /\ printed[u][k] \in k..counter
      BY DEF CInv, PrintedInOrder, ChildrenTypeOK
    <3>2. k > 1 => printed[u][k] > printed[u][k - 1]
      BY DEF CInv, PrintedInOrder
    <3> QED BY <1>1, <3>1, <3>2
  <2> QED BY <2>1, <2>2, <2>3
<1>6. counter' = Cardinality(Stored)'
  BY <1>1, OneMoreStore DEF CInv
<1> QED BY <1>3, <1>4, <1>5, <1>6 DEF CInv

(* What it prints is more than it has printed before.                      *)
LEMMA ChildPrintInv ==
  ASSUME CInv, NEW t \in Children, ChildPrint(t)
  PROVE  CInv'
<1> DEFINE n == Len(printed[t])
<1>1. /\ counter' = counter /\ tmp' = tmp /\ child[t] = "print"
      /\ printed' = [printed EXCEPT ![t] = Append(@, counter)]
      /\ child' = [child EXCEPT ![t] = IF n + 1 < Turns THEN "lock" ELSE "done"]
  BY DEF ChildPrint
<1>2. /\ counter \in Nat /\ printed[t] \in Seq(Nat) /\ n \in Nat
      /\ printed \in [Children -> Seq(Nat)] /\ child \in [Children -> ChildAt]
  BY DEF CInv, ChildrenTypeOK
<1>3. n < Turns /\ n + 1 <= counter
  BY <1>1, <1>2 DEF CInv, PrintedInOrder, Stores
<1>4. /\ printed'[t] \in Seq(Nat)
      /\ Len(printed'[t]) = n + 1
      /\ DOMAIN printed'[t] = 1..(n + 1)
      /\ printed'[t][n + 1] = counter
      /\ \A k \in 1..n : printed'[t][k] = printed[t][k]
  BY <1>1, <1>2
<1>5. \A u \in Children \ {t} : printed'[u] = printed[u] /\ child'[u] = child[u]
  BY <1>1, <1>2
<1>6. child'[t] = IF n + 1 < Turns THEN "lock" ELSE "done"
  BY <1>1, <1>2
<1>7. ChildrenTypeOK'
  BY <1>1, <1>2 DEF CInv, ChildrenTypeOK, ChildAt
<1>8. CountedUnderMutex'
  BY <1>1, <1>5, <1>6 DEF CInv, CountedUnderMutex
<1>9. \A u \in Children : Stores(u)' = Stores(u)
  <2>1. Stores(t) = n + 1
    BY <1>1 DEF Stores
  <2>2. Stores(t)' = n + 1
    BY <1>2, <1>4, <1>6 DEF Stores
  <2>3. \A u \in Children \ {t} : Stores(u)' = Stores(u)
    BY <1>5 DEF Stores
  <2> QED BY <2>1, <2>2, <2>3
<1>10. PrintedInOrder'
  <2>1. ASSUME NEW u \in Children \ {t}
        PROVE  /\ IF child[u] = "done" THEN Len(printed[u]) = Turns ELSE Len(printed[u]) < Turns
               /\ Stores(u) <= counter
               /\ \A k \in DOMAIN printed[u] :
                    /\ printed[u][k] \in k..counter
                    /\ k > 1 => printed[u][k] > printed[u][k - 1]
                    /\ child[u] = "print" => printed[u][k] < counter
    BY DEF CInv, PrintedInOrder
  <2>2. IF child'[t] = "done" THEN n + 1 = Turns ELSE n + 1 < Turns
    BY <1>2, <1>3, <1>6, ChildrenAssumption
  <2>3. Stores(t) <= counter
    BY DEF CInv, PrintedInOrder
  <2>4. ASSUME NEW k \in 1..(n + 1)
        PROVE  /\ printed'[t][k] \in k..counter
               /\ k > 1 => printed'[t][k] > printed'[t][k - 1]
    <3>1. \A j \in 1..n : /\ printed[t][j] \in j..counter
                          /\ j > 1 => printed[t][j] > printed[t][j - 1]
                          /\ printed[t][j] < counter
      <4>1. DOMAIN printed[t] = 1..n
        BY <1>2
      <4>2. \A j \in DOMAIN printed[t] : /\ printed[t][j] \in j..counter
                                         /\ j > 1 => printed[t][j] > printed[t][j - 1]
                                         /\ printed[t][j] < counter
        BY <1>1 DEF CInv, PrintedInOrder
      <4> QED BY <4>1, <4>2
    <3>2. CASE k \in 1..n
      <4>1. k > 1 => k - 1 \in 1..n
        BY <1>2, <3>2
      <4> QED BY <1>4, <3>1, <3>2, <4>1
    <3>3. CASE k = n + 1
      <4>1. printed'[t][k] = counter /\ counter \in k..counter
        BY <1>2, <1>3, <1>4, <3>3
      <4>2. ASSUME k > 1 PROVE printed'[t][k - 1] < counter
        <5>1. k - 1 = n /\ n \in 1..n
          BY <1>2, <3>3, <4>2
        <5>2. printed'[t][n] = printed[t][n] /\ printed[t][n] < counter
          BY <1>4, <3>1, <5>1
        <5> QED BY <5>1, <5>2
      <4>3. ASSUME k > 1 PROVE printed'[t][k - 1] \in Nat
        <5>1. k - 1 \in DOMAIN printed'[t]
          BY <1>2, <1>4, <3>3, <4>3
        <5> QED BY <1>4, <5>1
      <4> QED BY <1>2, <4>1, <4>2, <4>3
    <3>4. k \in 1..n \/ k = n + 1
      BY <1>2, <2>4
    <3> QED BY <3>2, <3>3, <3>4
  <2>5. child'[t] # "print"
    BY <1>6
  <2> QED BY <1>1, <1>4, <1>5, <1>9, <2>1, <2>2, <2>3, <2>4, <2>5 DEF PrintedInOrder
<1>11. Stored' = Stored
  BY <1>9 DEF Stored
<1> QED BY <1>1, <1>7, <1>8, <1>10, <1>11 DEF CInv

LEMMA ChildrenKeepInvariant == CInv /\ [MainNext]_mainVars => CInv'
<1> SUFFICES ASSUME CInv, [MainNext]_mainVars PROVE CInv'
  OBVIOUS
<1>1. ASSUME NEW t \in Children, Child(t) PROVE CInv'
  BY <1>1, ChildLockInv, ChildStoreInv, ChildPrintInv DEF Child
<1>2. CASE UNCHANGED childVars
  BY <1>2 DEF childVars, CInv, ChildrenTypeOK, CountedUnderMutex, PrintedInOrder, Stores, Stored
<1> QED BY <1>1, <1>2 DEF MainNext, AfterJoin, mainVars

(* No increment is lost, for any number of threads and turns.              *)
THEOREM CounterSafe == MainSpec => []NoIncrementIsLost
<1>1. MainInit => CInv
  BY ChildInit
<1>2. CInv /\ [MainNext]_mainVars => CInv'
  BY ChildrenKeepInvariant
<1>3. CInv => NoIncrementIsLost
  BY DEF CInv, PrintedInOrder, NoIncrementIsLost
<1> QED BY <1>1, <1>2, <1>3, PTL DEF MainSpec

(* All of semaphore.c, started by main(), behaves as SemaphoreQueue does:  *)
(* what is proved of the queue holds for the whole program.                *)
THEOREM WholeProgramIsQueue == MainSpec => Spec
<1>1. MainInit => Init
  BY DEF MainInit
<1>2. [MainNext]_mainVars => [Next]_vars
  BY DEF MainNext, mainVars, Child, AfterJoin
<1> QED BY <1>1, <1>2, PTL DEF MainSpec, Spec
=============================================================================
