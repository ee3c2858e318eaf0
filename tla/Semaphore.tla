------------------------------ MODULE Semaphore ------------------------------
(***************************************************************************)
(* The whole of semaphore.c: two child() threads count under mutex1; when  *)
(* main() has joined them, the queue of SemaphoreQueue starts.             *)
(***************************************************************************)
EXTENDS SemaphoreQueue, FiniteSets

CONSTANTS Children,       \* the two threads t1 and t2
          Turns           \* the turns of the loop in child()

ASSUME ChildrenAssumption == IsFiniteSet(Children) /\ Turns \in Nat \ {0}

VARIABLES counter,
          child,          \* child[t]: where child() stands in thread t
          tmp,            \* tmp[t]: its local variable
          printed         \* printed[t]: what it has printed

childVars == <<counter, child, tmp, printed>>

MainInit ==
  /\ Init
  /\ counter = 0
  /\ child = [t \in Children |-> "lock"]
  /\ tmp = [t \in Children |-> 0]
  /\ printed = [t \in Children |-> << >>]

(* Mutant: the mutex is not taken.                                         *)
ChildLock_Free(t) ==
  /\ child[t] = "lock"
  /\ child' = [child EXCEPT ![t] = "held"]
  /\ tmp' = [tmp EXCEPT ![t] = counter]
  /\ UNCHANGED <<counter, printed>>

(* Thread t locks mutex1, which nobody else uses yet, and reads counter;   *)
ChildLock(t) ==
  /\ child[t] = "lock"
  /\ \A u \in Children : child[u] # "held"
  /\ child' = [child EXCEPT ![t] = "held"]
  /\ tmp' = [tmp EXCEPT ![t] = counter]
  /\ UNCHANGED <<counter, printed>>

(* having slept, stores what it read plus one, and unlocks;                *)
ChildStore(t) ==
  /\ child[t] = "held"
  /\ counter' = tmp[t] + 1
  /\ child' = [child EXCEPT ![t] = "print"]
  /\ UNCHANGED <<tmp, printed>>

(* then reads counter again, without the mutex, to print it.               *)
ChildPrint(t) ==
  /\ child[t] = "print"
  /\ printed' = [printed EXCEPT ![t] = Append(@, counter)]
  /\ child' = [child EXCEPT ![t] = IF Len(printed[t]) + 1 < Turns THEN "lock" ELSE "done"]
  /\ UNCHANGED <<counter, tmp>>

Child(t) == (ChildLock(t) \/ ChildStore(t) \/ ChildPrint(t)) /\ UNCHANGED vars

Joined == \A t \in Children : child[t] = "done"
AfterJoin(A) == Joined /\ A /\ UNCHANGED childVars

MainNext == (\E t \in Children : Child(t)) \/ AfterJoin(Next)

mainVars == <<childVars, vars>>

(* The scheduler runs every thread that can run.                           *)
MainSpec == /\ MainInit /\ [][MainNext]_mainVars
            /\ \A t \in Children : WF_mainVars(Child(t))
            /\ WF_mainVars(AfterJoin(Consume))
            /\ WF_mainVars(AfterJoin(Produce))
            /\ WF_mainVars(AfterJoin(Main))

-----------------------------------------------------------------------------
(* No increment is lost although a thread sleeps between reading counter   *)
(* and storing it: counter is the number of stores of all threads.  And    *)
(* what a thread prints without the mutex (semaphore.c:85) grows from turn *)
(* to turn and counts at least its own turns and at most all.              *)
Stores(t) == Len(printed[t]) + IF child[t] = "print" THEN 1 ELSE 0
Stored == {s \in Children \X (1..Turns) : s[2] <= Stores(s[1])}
NoIncrementIsLost ==
  /\ counter = Cardinality(Stored)
  /\ \A t \in Children : \A k \in DOMAIN printed[t] :
       /\ printed[t][k] \in k..counter
       /\ k > 1 => printed[t][k] > printed[t][k - 1]
=============================================================================
