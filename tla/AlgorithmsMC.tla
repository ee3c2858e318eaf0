---------------------------- MODULE AlgorithmsMC ----------------------------
(***************************************************************************)
(* Compares the algorithms that keep no state with their reference         *)
(* definitions: the echo of every conversation over a small alphabet,      *)
(* grown byte by byte; the primality test; the count of every small tree.  *)
(***************************************************************************)
EXTENDS EchoProtocol, Primality, FileCounter

CONSTANTS Alphabet,       \* the bytes a client sends
          MaxLen          \* bound on the length of a conversation

ASSUME AlphabetAssumption == Alphabet \subseteq Byte

VARIABLES conversation,   \* what a client has sent
          candidate,      \* the number tested, if any
          tree,           \* the directory tree counted, if any
          descriptors     \* how many descriptors there are to open it with

Trees ==
  [up : {up \in [Dirs -> {0} \union Dirs] : \A d \in Dirs : up[d] < d /\ (up[d] = 0 <=> d = 1)},
   files : [Dirs -> 1..2],
   seen : SUBSET (Dirs \ {1}),
   closed : SUBSET Dirs]

CasesInit ==
  /\ conversation = << >>
  /\ \/ candidate \in {0} \union Exact /\ descriptors = 0 /\ tree = << >>
     \/ candidate = 0 /\ descriptors \in 1..Cardinality(Dirs) /\ tree \in Trees

CasesNext ==
  /\ candidate = 0 /\ tree = << >>
  /\ Len(conversation) < MaxLen
  /\ \E b \in Alphabet : conversation' = Append(conversation, b)
  /\ UNCHANGED <<candidate, tree, descriptors>>

caseVars == <<conversation, candidate, tree, descriptors>>
CasesSpec == CasesInit /\ [][CasesNext]_caseVars

-----------------------------------------------------------------------------
(* However recv() cuts a conversation in two, parsing the second piece     *)
(* from the state the first one ended in yields the reference echo of the  *)
(* whole: the parser state is all that a server has to carry from one      *)
(* recv() to the next (epoll_server.c:86-113).                             *)
ChunkedEchoIsExact ==
  \A n \in 0..Len(conversation) :
    LET first  == Parse("WAIT_FOR_MSG", SubSeq(conversation, 1, n))
        second == Parse(first.state, SubSeq(conversation, n + 1, Len(conversation)))
    IN  first.out \o second.out = Echo(conversation)

(* On the numbers it is meant for, the loop of uv_prime_server.c:54-65,    *)
(* which stops at the square root and skips the even numbers, finds the    *)
(* primes and nothing else.                                                *)
PrimalityIsExact == candidate # 0 => (isprime(candidate) <=> Prime(candidate))

(* The count is the number of all files found, if every directory found    *)
(* can be opened while those above it are open, and a failure otherwise:   *)
(* one bad directory is neither skipped nor counted (file_counter.c:62-68).*)
CountIsExactOrFails ==
  tree # << >> =>
    countFiles(tree, descriptors) =
      IF \E d \in Found(tree) :
           d \in tree.closed \/ Cardinality(Above(tree, d)) > descriptors
      THEN -1 ELSE Sum(tree.files, Found(tree))
=============================================================================
