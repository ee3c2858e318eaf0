------------------------ MODULE UvPrimeServerProofs ------------------------
(***************************************************************************)
(* Proofs about UvPrimeServer, for any numbers of clients and threads and  *)
(* whatever the clients ask: the invariants that UvPrimeServer.cfg checks. *)
(* Then about the algorithms that keep no state, for inputs of any size:   *)
(* the primality test of that server, the count of file_counter.c and the  *)
(* parser of the echo servers, which Algorithms.cfg checks for small ones. *)
(***************************************************************************)
EXTENDS UvPrimeServer, AlgorithmsMC, ConnectionProofs

(* How often c is in the list, and the threads that work for it.           *)
Places(list, c) == {k \in DOMAIN list : list[k] = c}
Times(list, c) == Cardinality(Places(list, c))
WorkersOf(c) == {t \in Threads : job[t].peer = c}

(* The work of c that is not yet answered.                                 *)
Pending(c) == Times(queue, c) + Cardinality(WorkersOf(c)) + Times(done, c)

(* How many requests the first e bytes of s make.                          *)
EndsUpTo(s, e) == Cardinality({d \in Ends(s) : d <= e})

(* Only a client that has left has its handle closed.                      *)
ClosedHaveLeft == \A c \in Clients : link[c] = "closed" => fin[c] # "no"

(* A polite client asks one thing at a time: between the end of what was   *)
(* read and the end of what has arrived there is one request or none, none *)
(* as long as the last one is not answered; and nothing is left to answer  *)
(* when it has hung up.                                                    *)
OneAtATime(c) ==
  /\ fin[c] # "rst"
  /\ {arrived[c], taken[c]} \subseteq Ends(script[c]) \union {0}
  /\ arrived[c] - taken[c] <= SuggestedSize
  /\ \A e \in Ends(script[c]) : taken[c] < e /\ e <= arrived[c] => e = arrived[c]
  /\ reads[c] = EndsUpTo(script[c], taken[c])
  /\ reads[c] \in {Len(sent[c]), Len(sent[c]) + 1}
  /\ taken[c] < arrived[c] => reads[c] = Len(sent[c])
  /\ fin[c] = "fin" => taken[c] = arrived[c] /\ reads[c] = Len(sent[c])

(* The answer to the k-th request of script s.                             *)
AnswerTo(s, k) == Verdict(Asked(s, k) % Width)

(* What has been sent is right, and so is what will be: number is what was *)
(* asked last, the thread that works on it has found out about that        *)
(* number, and sendbuf holds what was found when the loop comes to it.     *)
AnswersFit(c) ==
  /\ \A k \in 1..Len(sent[c]) : sent[c][k] = Text(AnswerTo(script[c], k))
  /\ reads[c] > Len(sent[c]) => number[c] = Asked(script[c], reads[c]) % Width
  /\ \A t \in WorkersOf(c) :
       /\ job[t].verdict = Verdict(number[c])
       /\ job[t].at = "filling" => sendbuf[c] = "filling"
  /\ Places(done, c) # {} => sendbuf[c] = Verdict(number[c])

(* The inductive invariant, in two parts: what holds of every client,      *)
Balanced == Running => \A c \in Clients : reads[c] = Len(sent[c]) + Pending(c)
TInv == TypeOK /\ Balanced /\ ClosedHaveLeft

(* and of the polite ones, while the process runs; when it has ended, it   *)
(* was another's doing.  What was sent to them was right.                  *)
SentIsRight ==
  \A c \in polite : \A k \in 1..Len(sent[c]) : sent[c][k] = Text(AnswerTo(script[c], k))
PInv ==
  /\ FailsOnlyForLeavers
  /\ Running => \A c \in polite : OneAtATime(c) /\ AnswersFit(c)
  /\ SentIsRight

-----------------------------------------------------------------------------
(* Lists of clients.                                                       *)

(* A client is in a list finitely often.                                   *)
LEMMA TimesType ==
  ASSUME NEW list \in Seq(Clients), NEW c
  PROVE  /\ IsFiniteSet(Places(list, c))
         /\ Times(list, c) \in Nat
         /\ Times(list, c) = 0 <=> Places(list, c) = {}
<1>1. /\ IsFiniteSet(1..Len(list))
      /\ Places(list, c) \in SUBSET (1..Len(list))
  BY FS_Interval DEF Places
<1>2. IsFiniteSet(Places(list, c))
  BY <1>1, FS_Subset
<1> QED BY <1>2, FS_CardinalityType, FS_EmptySet DEF Times

(* One that is put at the end is there once more.                          *)
LEMMA TimesAppend ==
  ASSUME NEW list \in Seq(Clients), NEW x \in Clients, NEW c
  PROVE  /\ Times(Append(list, x), c) = Times(list, c) + IF x = c THEN 1 ELSE 0
         /\ x # c => Places(Append(list, x), c) = Places(list, c)
<1>1. /\ Len(list) \in Nat
      /\ DOMAIN Append(list, x) = 1..(Len(list) + 1)
      /\ \A k \in 1..Len(list) : Append(list, x)[k] = list[k]
      /\ Append(list, x)[Len(list) + 1] = x
  OBVIOUS
<1>2. Places(list, c) \in SUBSET (1..Len(list)) /\ Len(list) + 1 \notin Places(list, c)
  BY <1>1 DEF Places
<1>3. CASE x = c
  <2>1. Places(Append(list, x), c) = Places(list, c) \cup {Len(list) + 1}
    BY <1>1, <1>3 DEF Places
  <2> QED BY <1>2, <1>3, <2>1, TimesType, FS_AddElement DEF Times
<1>4. CASE x # c
  <2>1. Places(Append(list, x), c) = Places(list, c)
    BY <1>1, <1>4 DEF Places
  <2> QED BY <1>4, <2>1, TimesType DEF Times
<1> QED BY <1>3, <1>4

(* The one that is taken from the front is there once less.                *)
LEMMA TimesTail ==
  ASSUME NEW list \in Seq(Clients), list # << >>, NEW c
  PROVE  /\ Head(list) \in Clients /\ Tail(list) \in Seq(Clients)
         /\ Times(list, c) = Times(Tail(list), c) + IF Head(list) = c THEN 1 ELSE 0
         /\ Places(Tail(list), c) # {} => Places(list, c) # {}
<1> DEFINE rest == Tail(list)
           P == Places(list, c) \ {1}
           Q == Places(rest, c)
           f == [k \in Q |-> k + 1]
<1>1. /\ Len(list) \in Nat \ {0} /\ Head(list) = list[1] /\ Head(list) \in Clients
      /\ DOMAIN list = 1..Len(list)
      /\ rest \in Seq(Clients) /\ Len(rest) = Len(list) - 1
      /\ DOMAIN rest = 1..(Len(list) - 1)
      /\ \A k \in 1..(Len(list) - 1) : rest[k] = list[k + 1]
  OBVIOUS
<1> HIDE DEF rest
<1>2. f \in Bijection(Q, P)
  <2>1. ASSUME NEW k \in Q PROVE k + 1 \in P
    BY <1>1 DEF Places
  <2>2. ASSUME NEW m \in P PROVE m - 1 \in Q /\ (m - 1) + 1 = m
    <3>1. m \in 2..Len(list) /\ list[m] = c
      BY <1>1 DEF Places
    <3>2. m - 1 \in 1..(Len(list) - 1) /\ (m - 1) + 1 = m
      BY <1>1, <3>1
    <3> QED BY <1>1, <3>1, <3>2 DEF Places
  <2>3. \A k \in Q : k \in Int
    BY <1>1 DEF Places
  <2> HIDE DEF P, Q
  <2>4. f \in [Q -> P]
    BY <2>1
  <2>5. \A a, b \in Q : f[a] = f[b] => a = b
    BY <2>3
  <2>6. \A m \in P : \E k \in Q : f[k] = m
    BY <2>2
  <2> QED BY <2>4, <2>5, <2>6 DEF Bijection, Injection, Surjection, IsInjective
<1>3. IsFiniteSet(Q) /\ Cardinality(Q) = Times(rest, c) /\ Times(rest, c) \in Nat
  BY <1>1, TimesType DEF Times
<1>4. Cardinality(P) = Times(rest, c) /\ IsFiniteSet(P)
  BY <1>2, <1>3, FS_Bijection DEF ExistsBijection
<1>5. CASE Head(list) = c
  <2>1. Places(list, c) = P \cup {1} /\ 1 \notin P
    BY <1>1, <1>5 DEF Places
  <2> HIDE DEF P
  <2>2. Cardinality(P \cup {1}) = Cardinality(P) + 1
    BY <1>4, <2>1, FS_AddElement
  <2>3. Times(list, c) = Times(rest, c) + 1
    BY <1>4, <2>1, <2>2 DEF Times
  <2> QED BY <1>1, <1>5, <2>1, <2>3 DEF rest
<1>6. CASE Head(list) # c
  <2>1. Places(list, c) = P
    BY <1>1, <1>6 DEF Places
  <2>2. Q # {} => P # {}
    BY <1>2 DEF Bijection, Injection
  <2> HIDE DEF P, Q
  <2>3. Times(list, c) = Times(rest, c)
    BY <1>4, <2>1 DEF Times
  <2> QED BY <1>1, <1>3, <1>6, <2>1, <2>2, <2>3 DEF rest, Q
<1> QED BY <1>5, <1>6

-----------------------------------------------------------------------------
(* Requests.                                                               *)

(* The end of a request is a place in the script.                          *)
LEMMA EndsPlace ==
  ASSUME NEW s \in Seq(Byte), NEW d \in Ends(s)
  PROVE  d \in 1..Len(s) /\ d \in Nat /\ d > 0
BY DEF Ends

(* The ends of the requests up to a place are finitely many.               *)
LEMMA EndsType ==
  ASSUME NEW s \in Seq(Byte), NEW e \in Nat
  PROVE  /\ Ends(s) \in SUBSET (1..Len(s))
         /\ IsFiniteSet({d \in Ends(s) : d <= e})
         /\ EndsUpTo(s, e) \in Nat
<1>1. Ends(s) \in SUBSET (1..Len(s)) /\ IsFiniteSet(1..Len(s))
  BY FS_Interval DEF Ends
<1>2. {d \in Ends(s) : d <= e} \in SUBSET (1..Len(s))
  BY <1>1
<1>3. IsFiniteSet({d \in Ends(s) : d <= e})
  BY <1>1, <1>2, FS_Subset
<1> QED BY <1>1, <1>3, FS_CardinalityType DEF EndsUpTo

(* They grow from end to end, by one from one end to the next.             *)
LEMMA EndsGrow ==
  ASSUME NEW s \in Seq(Byte), NEW st \in Nat, NEW e \in Ends(s), st < e
  PROVE  /\ EndsUpTo(s, e) > EndsUpTo(s, st)
         /\ (\A d \in Ends(s) : st < d /\ d <= e => d = e)
              => EndsUpTo(s, e) = EndsUpTo(s, st) + 1
<1> DEFINE A == {d \in Ends(s) : d <= st}
           B == {d \in Ends(s) : d <= e}
<1>0. e \in Nat /\ \A d \in Ends(s) : d \in Nat
  BY EndsPlace
<1>1. IsFiniteSet(A) /\ IsFiniteSet(B) /\ Cardinality(A) \in Nat /\ Cardinality(B) \in Nat
  BY <1>0, EndsType DEF EndsUpTo
<1>2. A \cup {e} \in SUBSET B /\ e \notin A
  <2>1. \A d \in Ends(s) : d <= st => d <= e
    BY <1>0
  <2>2. e <= e /\ ~ (e <= st)
    BY <1>0
  <2> QED BY <2>1, <2>2
<1>3. ASSUME \A d \in Ends(s) : st < d /\ d <= e => d = e
      PROVE  B = A \cup {e}
  <2>1. \A d \in Ends(s) : d <= e => d <= st \/ d = e
    BY <1>0, <1>3
  <2> QED BY <1>2, <2>1
<1> HIDE DEF A, B
<1>4. Cardinality(A \cup {e}) = Cardinality(A) + 1
  BY <1>1, <1>2, FS_AddElement
<1>5. Cardinality(A \cup {e}) <= Cardinality(B)
  BY <1>1, <1>2, FS_Subset
<1>6. EndsUpTo(s, e) = Cardinality(B) /\ EndsUpTo(s, st) = Cardinality(A)
  BY DEF EndsUpTo, A, B
<1>7. Cardinality(B) > Cardinality(A)
  BY <1>1, <1>4, <1>5
<1> QED BY <1>3, <1>4, <1>6, <1>7

(* So the number of an end tells which one it is.                          *)
LEMMA EndsDiffer ==
  ASSUME NEW s \in Seq(Byte), NEW d \in Ends(s), NEW e \in Ends(s),
         EndsUpTo(s, d) = EndsUpTo(s, e)
  PROVE  d = e
<1>1. d \in Nat /\ e \in Nat
  BY EndsPlace
<1>2. EndsUpTo(s, d) \in Nat /\ EndsUpTo(s, e) \in Nat
  BY <1>1, EndsType
<1>3. ~ (d < e)
  BY <1>1, <1>2, EndsGrow
<1>4. ~ (e < d)
  BY <1>1, <1>2, EndsGrow
<1> QED BY <1>1, <1>3, <1>4

(* What is asked between one end and the next.                             *)
LEMMA AskedBetween ==
  ASSUME NEW s \in Seq(Byte), NEW st \in Ends(s) \union {0}, NEW e \in Ends(s), st < e,
         \A d \in Ends(s) : st < d /\ d <= e => d = e
  PROVE  Asked(s, EndsUpTo(s, st) + 1) = Value(SubSeq(s, st + 1, e))
<1> DEFINE k == EndsUpTo(s, st) + 1
           upTo(x) == Cardinality({d \in Ends(s) : d <= x})
           end == CHOOSE x \in Ends(s) : upTo(x) = k
           start == IF k = 1 THEN 0 ELSE CHOOSE x \in Ends(s) : upTo(x) = k - 1
<1>0. st \in Nat /\ EndsUpTo(s, st) \in Nat /\ \A x : upTo(x) = EndsUpTo(s, x)
  <2>1. st \in Nat
    BY EndsPlace
  <2> QED BY <2>1, EndsType DEF EndsUpTo
<1>1. EndsUpTo(s, e) = k
  BY <1>0, EndsGrow
<1>2. end = e
  <2>1. end \in Ends(s) /\ upTo(end) = k
    <3>1. \E x \in Ends(s) : upTo(x) = k
      BY <1>0, <1>1
    <3> HIDE DEF upTo, k
    <3> QED BY <3>1
  <2> HIDE DEF end, upTo, k
  <2>2. EndsUpTo(s, end) = EndsUpTo(s, e)
    BY <1>0, <1>1, <2>1
  <2> QED BY <2>1, <2>2, EndsDiffer
<1>3. start = st
  <2>1. CASE st = 0
    <3>1. {d \in Ends(s) : d <= 0} = {}
      BY EndsPlace
    <3>2. EndsUpTo(s, st) = 0
      BY <2>1, <3>1, FS_EmptySet DEF EndsUpTo
    <3> QED BY <2>1, <3>2
  <2>2. CASE st \in Ends(s) /\ st # 0
    <3>1. EndsUpTo(s, st) > EndsUpTo(s, 0)
      BY <1>0, <2>2, EndsGrow
    <3>2. EndsUpTo(s, 0) \in Nat
      BY EndsType
    <3>3. k # 1 /\ k - 1 = EndsUpTo(s, st)
      BY <1>0, <3>1, <3>2
    <3> DEFINE before == CHOOSE x \in Ends(s) : upTo(x) = k - 1
    <3>4. before \in Ends(s) /\ upTo(before) = k - 1
      <4>1. \E x \in Ends(s) : upTo(x) = k - 1
        BY <1>0, <2>2, <3>3
      <4> HIDE DEF upTo, k
      <4> QED BY <4>1
    <3>5. start = before
      BY <3>3
    <3> HIDE DEF before, start, upTo, k
    <3>6. EndsUpTo(s, before) = EndsUpTo(s, st)
      BY <1>0, <3>3, <3>4
    <3> QED BY <2>2, <3>4, <3>5, <3>6, EndsDiffer
  <2> QED BY <2>1, <2>2
<1>4. Asked(s, k) = Value(SubSeq(s, start + 1, end))
  BY DEF Asked
<1> QED BY <1>2, <1>3, <1>4

(* The number that a request starts with is one, and is kept as one.       *)
IsSum(f, bytes, n) ==
  f = [i \in 0..n |->
        IF i = 0 THEN 0
        ELSE IF \A j \in 1..i : bytes[j] \in 48..57
             THEN f[i - 1] * 10 + (bytes[i] - 48)
             ELSE f[i - 1]]

LEMMA SumExists ==
  ASSUME NEW bytes, NEW n \in Nat
  PROVE  \E f : IsSum(f, bytes, n)
<1> DEFINE S == {m \in Nat : \E f : IsSum(f, bytes, m)}
           next(v, i) == IF \A j \in 1..i : bytes[j] \in 48..57
                         THEN v * 10 + (bytes[i] - 48) ELSE v
<1>1. 0 \in S
  <2> DEFINE f == [i \in 0..0 |-> 0]
  <2>1. f = [i \in 0..0 |-> IF i = 0 THEN 0 ELSE next(f[i - 1], i)]
    OBVIOUS
  <2> QED BY <2>1 DEF IsSum
<1>2. ASSUME NEW m \in 0..(n - 1), m \in S PROVE m + 1 \in S
  <2>1. PICK f : IsSum(f, bytes, m)
    BY <1>2
  <2> DEFINE g == [i \in 0..(m + 1) |-> IF i = m + 1 THEN next(f[m], m + 1) ELSE f[i]]
  <2>2. \A i \in 0..m : f[i] = IF i = 0 THEN 0 ELSE next(f[i - 1], i)
    BY <2>1 DEF IsSum
  <2> HIDE DEF next
  <2>3. ASSUME NEW i \in 0..(m + 1)
        PROVE  g[i] = IF i = 0 THEN 0 ELSE next(g[i - 1], i)
    <3>1. CASE i = m + 1
      BY <3>1
    <3>2. CASE i # m + 1
      <4>1. i \in 0..m /\ (i # 0 => i - 1 \in 0..m /\ i - 1 # m + 1)
        BY <3>2
      <4> QED BY <2>2, <3>2, <4>1
    <3> QED BY <3>1, <3>2
  <2>4. g = [i \in 0..(m + 1) |-> IF i = 0 THEN 0 ELSE next(g[i - 1], i)]
    <3>1. g = [i \in 0..(m + 1) |-> g[i]]
      OBVIOUS
    <3> HIDE DEF g
    <3> QED BY <2>3, <3>1
  <2> HIDE DEF g
  <2>5. IsSum(g, bytes, m + 1)
    <3> DEFINE l == m + 1
    <3>1. g = [i \in 0..l |-> IF i = 0 THEN 0 ELSE next(g[i - 1], i)]
      BY <2>4
    <3> HIDE DEF l
    <3>2. IsSum(g, bytes, l)
      BY <3>1, Zenon DEF IsSum, next
    <3> QED BY <3>2 DEF l
  <2>6. m + 1 \in Nat
    OBVIOUS
  <2> QED BY <2>5, <2>6
<1> HIDE DEF S, next
<1>3. n \in S
  BY <1>1, <1>2, UpTo
<1> QED BY <1>3 DEF S

LEMMA NumberType ==
  ASSUME NEW bytes \in Seq(Byte)
  PROVE  Value(bytes) \in Nat /\ Number(bytes) \in Unsigned
<1> DEFINE f == CHOOSE g : IsSum(g, bytes, Len(bytes))
           S == {m \in 0..Len(bytes) : f[m] \in Nat}
<1>1. Len(bytes) \in Nat
  OBVIOUS
<1>2. IsSum(f, bytes, Len(bytes))
  BY <1>1, SumExists
<1>3. Value(bytes) = f[Len(bytes)]
  BY DEF Value, IsSum
<1> HIDE DEF f
<1>4. 0 \in S
  BY <1>1, <1>2 DEF IsSum
<1>5. ASSUME NEW m \in 0..(Len(bytes) - 1), m \in S PROVE m + 1 \in S
  <2>1. f[m + 1] = IF \A j \in 1..(m + 1) : bytes[j] \in 48..57
                   THEN f[m] * 10 + (bytes[m + 1] - 48) ELSE f[m]
    BY <1>1, <1>2 DEF IsSum
  <2>2. m + 1 \in 1..(m + 1) /\ m + 1 \in 0..Len(bytes) /\ f[m] \in Nat
    BY <1>1, <1>5
  <2>3. f[m + 1] \in Nat
    <3>1. CASE \A j \in 1..(m + 1) : bytes[j] \in 48..57
      <4>1. bytes[m + 1] \in 48..57 /\ f[m + 1] = f[m] * 10 + (bytes[m + 1] - 48)
        BY <2>1, <2>2, <3>1
      <4>2. bytes[m + 1] - 48 \in Nat
        BY <4>1
      <4>3. \A v, w \in Nat : v * 10 + w \in Nat
        OBVIOUS
      <4> QED BY <2>2, <4>1, <4>2, <4>3
    <3>2. CASE ~ \A j \in 1..(m + 1) : bytes[j] \in 48..57
      BY <2>1, <2>2, <3>2
    <3> QED BY <3>1, <3>2
  <2> QED BY <2>2, <2>3
<1> HIDE DEF S
<1>6. Len(bytes) \in S
  <2>1. \A m \in 0..Len(bytes) : m \in S
    BY <1>1, <1>4, <1>5, UpTo
  <2> QED BY <1>1, <2>1
<1>7. Value(bytes) \in Nat
  BY <1>3, <1>6 DEF S
<1>8. Width \in Nat \ {0}
  BY RootAssumption DEF Width
<1> QED BY <1>7, <1>8 DEF Number, Unsigned

-----------------------------------------------------------------------------
(* What holds of every client.                                             *)

(* The threads that work for a client are finitely many, a subset of all.  *)
LEMMA WorkersFinite ==
  ASSUME NEW c
  PROVE  /\ IsFiniteSet(WorkersOf(c)) /\ Cardinality(WorkersOf(c)) \in Nat
         /\ IsFiniteSet(WorkersOf(c)') /\ Cardinality(WorkersOf(c)') \in Nat
<1>1. WorkersOf(c) \in SUBSET Threads /\ WorkersOf(c)' \in SUBSET Threads
  BY DEF WorkersOf
<1>2. IsFiniteSet(WorkersOf(c)) /\ IsFiniteSet(WorkersOf(c)')
  BY <1>1, FS_Subset, UvPrimeAssumption
<1> QED BY <1>2, FS_CardinalityType

LEMMA PendingType ==
  ASSUME TypeOK, NEW c
  PROVE  /\ Times(queue, c) \in Nat /\ Times(done, c) \in Nat
         /\ Cardinality(WorkersOf(c)) \in Nat /\ Pending(c) \in Nat
<1>1. queue \in Seq(Clients) /\ done \in Seq(Clients)
  BY DEF TypeOK
<1> QED BY <1>1, TimesType, WorkersFinite DEF Pending

(* EachReadIsAnsweredOnce says that the reads balance.                     *)
LEMMA ReadsBalance == TypeOK => (EachReadIsAnsweredOnce <=> Balanced)
<1> SUFFICES ASSUME TypeOK PROVE EachReadIsAnsweredOnce <=> Balanced
  OBVIOUS
<1>1. ASSUME NEW c \in Clients
      PROVE  Len(sent[c]) + Pending(c)
               = Len(sent[c]) + Times(queue, c) + Cardinality(WorkersOf(c)) + Times(done, c)
  <2>1. Len(sent[c]) \in Nat
    BY DEF TypeOK, SocketsTypeOK
  <2> QED BY <2>1, PendingType DEF Pending
<1> QED BY <1>1 DEF EachReadIsAnsweredOnce, Balanced, Times, Places, WorkersOf

(* One byte is sent for an answer.                                         *)
LEMMA TextType ==
  ASSUME NEW content
  PROVE  Text(content) \in Byte
BY DEF Text, PRIME, COMPOSITE, TORN, Byte

(* uv_write() sends an answer, or makes the server exit.                   *)
LEMMA WriteCases ==
  ASSUME SocketsTypeOK, NEW c \in Clients, NEW content, uv_write(c, content)
  PROVE  /\ sent' \in [Clients -> Seq(Byte)]
         /\ \A d \in Clients \ {c} : sent'[d] = sent[d]
         /\ \A d \in Clients : /\ Len(sent[d]) \in Nat /\ Len(sent'[d]) \in Nat
                               /\ Len(sent'[d]) >= Len(sent[d])
         /\ \/ /\ link[c] = "closed" \/ fin[c] = "rst"
               /\ fate' = "exited" /\ sent' = sent
            \/ /\ link[c] # "closed" /\ fin[c] # "rst"
               /\ fate' = fate
               /\ Len(sent'[c]) = Len(sent[c]) + 1
               /\ sent'[c] = Append(sent[c], Text(content))
<1>1. sent \in [Clients -> Seq(Byte)] /\ sent[c] \in Seq(Byte)
  BY DEF SocketsTypeOK
<1>2. CASE link[c] = "closed" \/ fin[c] = "rst"
  <2>1. sent' = sent /\ fate' = "exited"
    BY <1>2 DEF uv_write
  <2>2. \A d \in Clients : Len(sent[d]) \in Nat
    BY <1>1
  <2> QED BY <1>1, <1>2, <2>1, <2>2
<1>3. CASE ~ (link[c] = "closed" \/ fin[c] = "rst")
  <2>1. sent' = [sent EXCEPT ![c] = Append(sent[c], Text(content))] /\ fate' = fate
    BY <1>3 DEF uv_write
  <2>2. /\ Append(sent[c], Text(content)) \in Seq(Byte)
        /\ Len(Append(sent[c], Text(content))) = Len(sent[c]) + 1
    BY <1>1, TextType
  <2>3. /\ sent' \in [Clients -> Seq(Byte)]
        /\ \A d \in Clients \ {c} : sent'[d] = sent[d]
        /\ sent'[c] = Append(sent[c], Text(content))
    BY <1>1, <2>1, <2>2
  <2>4. ASSUME NEW d \in Clients
        PROVE  /\ Len(sent[d]) \in Nat /\ Len(sent'[d]) \in Nat
               /\ Len(sent'[d]) >= Len(sent[d])
    <3>1. Len(sent[d]) \in Nat
      BY <1>1
    <3>2. CASE d = c
      BY <2>2, <2>3, <3>1, <3>2
    <3>3. CASE d # c
      BY <2>3, <3>1, <3>3
    <3> QED BY <3>2, <3>3
  <2> QED BY <1>1, <1>3, <2>1, <2>2, <2>3, <2>4
<1> QED BY <1>2, <1>3

LEMMA InitTInv == Init => TInv
<1> SUFFICES ASSUME Init PROVE TInv
  OBVIOUS
<1>1. SocketsTypeOK
  BY SocketsInitInv DEF Init, SocketsInv
<1>2. Width \in Nat \ {0}
  BY RootAssumption DEF Width
<1>3. TypeOK
  BY <1>1, <1>2 DEF Init, TypeOK, Unsigned, Idle
<1>4. ClosedHaveLeft
  BY DEF Init, SocketsInit, ClosedHaveLeft
<1>5. ASSUME NEW c \in Clients PROVE reads[c] = Len(sent[c]) + Pending(c)
  <2>1. Places(queue, c) = {} /\ Places(done, c) = {}
    BY DEF Init, Places
  <2>2. WorkersOf(c) = {}
    BY UvPrimeAssumption DEF Init, WorkersOf, Idle
  <2>3. Cardinality({}) = 0
    BY FS_EmptySet
  <2>4. Pending(c) = 0
    BY <2>1, <2>2, <2>3 DEF Pending, Times
  <2> QED BY <2>4 DEF Init, SocketsInit
<1> QED BY <1>3, <1>4, <1>5 DEF TInv, Balanced

(* A client's step changes what it has said, not what it is answered.      *)
LEMMA ClientMoves ==
  ASSUME SocketsTypeOK, NEW c \in Clients, Client(c)
  PROVE  /\ SocketsTypeOK'
         /\ UNCHANGED <<script, taken, sent, serverVars>>
         /\ \A d \in Clients : /\ link'[d] = "closed" <=> link[d] = "closed"
                               /\ fin[d] # "no" => fin'[d] # "no"
         /\ \A d \in Clients \ {c} : arrived'[d] = arrived[d] /\ fin'[d] = fin[d]
<1> USE DEF SocketsTypeOK, LinkState, FinState
<1>1. \A d \in Clients : Len(script[d]) \in Nat /\ script[d] \in Seq(Byte)
  BY SocketsAssumption
<1>2. UNCHANGED serverVars
  BY DEF Client
<1>3. CASE Connect(c)
  BY <1>1, <1>2, <1>3 DEF Connect
<1>4. CASE Deliver(c)
  BY <1>1, <1>2, <1>4 DEF Deliver, Linked
<1>5. CASE HangUp(c)
  BY <1>1, <1>2, <1>5 DEF HangUp, Linked
<1>6. CASE Reset(c)
  BY <1>1, <1>2, <1>6 DEF Reset, Linked
<1>7. CASE Ask(c)
  <2>1. PICK end \in Ends(script[c]) : /\ arrived[c] < end
                                       /\ arrived' = [arrived EXCEPT ![c] = end]
    BY <1>7 DEF Ask
  <2>2. end \in 1..Len(script[c])
    BY DEF Ends
  <2> QED BY <1>1, <1>2, <1>7, <2>1, <2>2 DEF Ask
<1> QED BY <1>3, <1>4, <1>5, <1>6, <1>7 DEF Client, PoliteStep, Speak

LEMMA ClientTInv ==
  ASSUME TInv, NEW c \in Clients, Client(c)
  PROVE  TInv'
<1>1. /\ SocketsTypeOK'
      /\ UNCHANGED <<script, taken, sent, serverVars>>
      /\ \A d \in Clients : /\ link'[d] = "closed" <=> link[d] = "closed"
                            /\ fin[d] # "no" => fin'[d] # "no"
  BY ClientMoves DEF TInv, TypeOK
<1>2. TypeOK'
  BY <1>1 DEF TInv, TypeOK, serverVars, peerVars, workVars
<1>3. ClosedHaveLeft'
  BY <1>1 DEF TInv, ClosedHaveLeft
<1>4. Balanced'
  BY <1>1 DEF TInv, Balanced, Running, Pending, Times, Places, WorkersOf, serverVars, peerVars, workVars
<1> QED BY <1>2, <1>3, <1>4 DEF TInv

LEMMA ConnectedTInv ==
  ASSUME TInv, NEW c \in Clients, on_peer_connected(c)
  PROVE  TInv'
<1> USE DEF on_peer_connected
<1>1. TypeOK'
  BY DEF TInv, TypeOK, SocketsTypeOK, LinkState, peerVars, workVars
<1>2. ClosedHaveLeft'
  BY DEF TInv, ClosedHaveLeft, TypeOK, SocketsTypeOK
<1>3. Balanced'
  BY DEF TInv, Balanced, Running, Pending, Times, Places, WorkersOf, peerVars, workVars
<1> QED BY <1>1, <1>2, <1>3 DEF TInv

(* n bytes are n bytes.                                                    *)
LEMMA BytesOf ==
  ASSUME NEW s \in Seq(Byte), NEW m \in Nat, NEW n \in Nat, m + n <= Len(s)
  PROVE  Len(SubSeq(s, m + 1, m + n)) = n
<1> DEFINE e == m + n
<1>1. e \in Nat /\ m <= e /\ e <= Len(s) /\ e - m = n
  OBVIOUS
<1> SUFFICES Len(SubSeq(s, m + 1, e)) = n
  OBVIOUS
<1> HIDE DEF e
<1> QED BY <1>1, PieceType

(* A read brings all that has arrived, if it fits in the buffer.           *)
ReadsAll(c, bytes) ==
  arrived[c] - taken[c] <= SuggestedSize
    => /\ taken[c] + Len(bytes) = arrived[c]
       /\ bytes = SubSeq(script[c], taken[c] + 1, arrived[c])

(* A read brings some of what has arrived, all if that fits.               *)
LEMMA ReadCases ==
  ASSUME SocketsTypeOK, NEW c \in Clients, on_peer_read(c)
  PROVE  \/ \E bytes \in Seq(Byte) :
              /\ bytes # << >>
              /\ taken[c] + Len(bytes) <= arrived[c]
              /\ ReadsAll(c, bytes)
              /\ Request(c, bytes) /\ UNCHANGED link
         \/ /\ fin[c] = "rst" \/ (fin[c] = "fin" /\ taken[c] = arrived[c])
            /\ link' = [link EXCEPT ![c] = "closed"]
            /\ UNCHANGED <<taken, sent, fate, number, sendbuf, reads, workVars>>
<1>1. PICK got \in recv(c, SuggestedSize) :
        \/ /\ got.bytes # << >>
           /\ Request(c, got.bytes)
           /\ UNCHANGED link
        \/ /\ got.errno # "EAGAIN" /\ got.bytes = << >>
           /\ link' = [link EXCEPT ![c] = "closed"]
           /\ UNCHANGED <<taken, sent, fate, number, sendbuf, reads, workVars>>
  BY DEF on_peer_read
<1>2. got.bytes \in Seq(Byte) /\ taken[c] + Len(got.bytes) <= arrived[c]
  BY RecvType, UvPrimeAssumption
<1>3. /\ script[c] \in Seq(Byte) /\ taken[c] \in Nat /\ arrived[c] \in Nat
      /\ taken[c] <= arrived[c] /\ arrived[c] <= Len(script[c])
  BY SocketsAssumption DEF SocketsTypeOK
<1>4. PICK n \in Nat : /\ n = Lesser(arrived[c] - taken[c], SuggestedSize)
                       /\ taken[c] + n <= arrived[c]
                       /\ arrived[c] > taken[c] => n > 0
  BY <1>3, UvPrimeAssumption DEF Lesser
<1> DEFINE piece == SubSeq(script[c], taken[c] + 1, taken[c] + n)
<1>5. \/ got = [errno |-> "ok", bytes |-> piece] /\ arrived[c] > taken[c]
      \/ got = [errno |-> "ok", bytes |-> << >>] /\ fin[c] = "fin" /\ taken[c] = arrived[c]
      \/ got = [errno |-> "EAGAIN", bytes |-> << >>]
      \/ got = [errno |-> "ECONNRESET", bytes |-> << >>] /\ fin[c] = "rst"
  BY <1>4 DEF recv, Received
<1>6. Len(piece) = n
  <2>1. taken[c] + n <= Len(script[c])
    BY <1>3, <1>4
  <2> QED BY <1>3, <2>1, BytesOf
<1> HIDE DEF piece
<1>7. CASE got.bytes # << >>
  <2>1. got.bytes = piece
    BY <1>5, <1>7
  <2>2. ReadsAll(c, got.bytes)
    <3>1. SUFFICES ASSUME arrived[c] - taken[c] <= SuggestedSize
                   PROVE  /\ taken[c] + Len(got.bytes) = arrived[c]
                          /\ got.bytes = SubSeq(script[c], taken[c] + 1, arrived[c])
      BY DEF ReadsAll
    <3>2. taken[c] + n = arrived[c]
      BY <1>3, <1>4, <3>1 DEF Lesser
    <3>3. Len(got.bytes) = n
      BY <1>6, <2>1, Zenon
    <3>4. got.bytes = SubSeq(script[c], taken[c] + 1, taken[c] + n)
      BY <2>1, Zenon DEF piece
    <3> QED BY <3>2, <3>3, <3>4, Zenon
  <2>3. Request(c, got.bytes) /\ UNCHANGED link
    BY <1>1, <1>7
  <2> QED BY <1>2, <1>7, <2>2, <2>3
<1>8. CASE got.bytes = << >>
  <2>1. /\ got.errno # "EAGAIN"
        /\ link' = [link EXCEPT ![c] = "closed"]
        /\ UNCHANGED <<taken, sent, fate, number, sendbuf, reads, workVars>>
    BY <1>1, <1>8
  <2>2. ~ (got = [errno |-> "ok", bytes |-> piece] /\ arrived[c] > taken[c])
    <3>1. SUFFICES ASSUME got.bytes = piece, arrived[c] > taken[c] PROVE FALSE
      OBVIOUS
    <3>2. Len(piece) = 0
      BY <1>8, <3>1
    <3> QED BY <1>4, <1>6, <3>1, <3>2
  <2>3. fin[c] = "rst" \/ (fin[c] = "fin" /\ taken[c] = arrived[c])
    BY <1>5, <2>1, <2>2
  <2> QED BY <2>1, <2>3
<1> QED BY <1>7, <1>8

(* What is pending in the next state.                                      *)
LEMMA PendingNext ==
  ASSUME NEW c
  PROVE  /\ Pending(c)' = Times(queue', c) + Cardinality(WorkersOf(c)') + Times(done', c)
         /\ UNCHANGED job => WorkersOf(c)' = WorkersOf(c)
         /\ UNCHANGED <<queue, job, done>> => Pending(c)' = Pending(c)
BY DEF Pending, WorkersOf, Times, Places

(* A request is pending until it is answered.                              *)
LEMMA RequestTInv ==
  ASSUME TInv, NEW c \in Clients, NEW bytes \in Seq(Byte), bytes # << >>,
         taken[c] + Len(bytes) <= arrived[c], link[c] = "open", Running,
         Request(c, bytes),
         UNCHANGED <<script, link, arrived, fin, drained, polite, blocking, freed>>
  PROVE  TInv'
<1> USE DEF Request
<1>0. TypeOK /\ SocketsTypeOK /\ Len(bytes) \in Nat
  BY DEF TInv, TypeOK
<1>1. ClosedHaveLeft'
  BY DEF TInv, ClosedHaveLeft
<1>2. /\ number' \in [Clients -> Unsigned]
      /\ reads' \in [Clients -> Nat]
      /\ taken' \in [Clients -> Nat]
      /\ \A d \in Clients : taken'[d] <= arrived[d]
  <2>1. number' = [number EXCEPT ![c] = Number(bytes)] /\ Number(bytes) \in Unsigned
    BY NumberType
  <2>2. reads' = [reads EXCEPT ![c] = reads[c] + 1] /\ taken' = [taken EXCEPT ![c] = taken[c] + Len(bytes)]
    OBVIOUS
  <2>3. /\ number \in [Clients -> Unsigned] /\ reads \in [Clients -> Nat] /\ taken \in [Clients -> Nat]
        /\ \A d \in Clients : taken[d] <= arrived[d]
    BY <1>0 DEF TypeOK, SocketsTypeOK
  <2> QED BY <1>0, <2>1, <2>2, <2>3
<1>3. CASE blocking
  <2> DEFINE verdict == Verdict(Number(bytes))
  <2>1. /\ uv_write(c, verdict)
        /\ sendbuf' = [sendbuf EXCEPT ![c] = verdict]
        /\ UNCHANGED workVars
    BY <1>3
  <2>2. verdict \in Verdicts
    BY DEF Verdict, Verdicts
  <2> HIDE DEF verdict
  <2>3. /\ sent' \in [Clients -> Seq(Byte)]
        /\ \A d \in Clients \ {c} : sent'[d] = sent[d]
        /\ \A d \in Clients : /\ Len(sent[d]) \in Nat /\ Len(sent'[d]) \in Nat
                              /\ Len(sent'[d]) >= Len(sent[d])
        /\ \/ fate' = "exited"
           \/ fate' = fate /\ Len(sent'[c]) = Len(sent[c]) + 1
    BY <1>0, <2>1, WriteCases
  <2>4. \A d \in Clients : drained[d] <= Len(sent'[d])
    BY <1>0, <2>3 DEF SocketsTypeOK
  <2>5. TypeOK'
    BY <1>0, <1>2, <2>1, <2>2, <2>3, <2>4 DEF TypeOK, SocketsTypeOK, workVars
  <2>6. ASSUME Running', NEW d \in Clients PROVE reads'[d] = Len(sent'[d]) + Pending(d)'
    <3>1. Pending(d)' = Pending(d) /\ Pending(d) \in Nat
      BY <1>0, <2>1, PendingNext, PendingType DEF workVars
    <3>2. reads[d] = Len(sent[d]) + Pending(d)
      BY DEF TInv, Balanced
    <3>3. reads' = [reads EXCEPT ![c] = reads[c] + 1] /\ reads \in [Clients -> Nat]
      BY <1>0 DEF TypeOK
    <3>4. Len(sent[d]) \in Nat /\ Len(sent'[d]) \in Nat
      BY <2>3
    <3>5. CASE d = c
      <4>1. reads'[c] = reads[c] + 1 /\ Len(sent'[c]) = Len(sent[c]) + 1
        BY <2>3, <2>6, <3>3 DEF Running
      <4> QED BY <3>1, <3>2, <3>4, <3>5, <4>1
    <3>6. CASE d # c
      BY <2>3, <3>1, <3>2, <3>3, <3>6
    <3> QED BY <3>5, <3>6
  <2> QED BY <1>1, <2>5, <2>6 DEF TInv, Balanced
<1>4. CASE ~ blocking
  <2>1. queue' = Append(queue, c) /\ UNCHANGED <<sendbuf, sent, fate, job, done>>
    BY <1>4
  <2>2. queue \in Seq(Clients) /\ queue' \in Seq(Clients)
    BY <1>0, <2>1 DEF TypeOK
  <2>3. TypeOK'
    BY <1>0, <1>2, <2>1, <2>2 DEF TypeOK, SocketsTypeOK
  <2>4. ASSUME NEW d \in Clients PROVE reads'[d] = Len(sent'[d]) + Pending(d)'
    <3>1. /\ Times(queue, d) \in Nat /\ Times(done, d) \in Nat
          /\ Cardinality(WorkersOf(d)) \in Nat
      BY <1>0, PendingType
    <3>2. Times(queue', d) = Times(queue, d) + IF c = d THEN 1 ELSE 0
      BY <2>1, <2>2, TimesAppend
    <3>3. reads[d] = Len(sent[d]) + (Times(queue, d) + Cardinality(WorkersOf(d)) + Times(done, d))
      BY DEF TInv, Balanced, Pending
    <3>4. Pending(d)' = Times(queue', d) + Cardinality(WorkersOf(d)) + Times(done, d)
      BY <2>1, PendingNext
    <3>5. reads' = [reads EXCEPT ![c] = reads[c] + 1] /\ reads \in [Clients -> Nat]
      BY <1>0 DEF TypeOK
    <3>6. Len(sent[d]) \in Nat /\ sent' = sent
      BY <1>0, <2>1 DEF SocketsTypeOK
    <3>7. reads'[d] = reads[d] + IF c = d THEN 1 ELSE 0
      BY <3>5
    <3>8. Len(sent'[d]) = Len(sent[d])
      BY <3>6
    <3>9. CASE c = d
      BY <3>1, <3>2, <3>3, <3>4, <3>6, <3>7, <3>8, <3>9
    <3>10. CASE c # d
      BY <3>1, <3>2, <3>3, <3>4, <3>6, <3>7, <3>8, <3>10
    <3> QED BY <3>9, <3>10
  <2> QED BY <1>1, <2>3, <2>4 DEF TInv, Balanced
<1> QED BY <1>3, <1>4

LEMMA ReadTInv ==
  ASSUME TInv, NEW c \in Clients, on_peer_read(c)
  PROVE  TInv'
<1>1. /\ Running /\ link[c] = "open"
      /\ UNCHANGED <<script, arrived, fin, drained, polite, blocking, freed>>
  BY DEF on_peer_read
<1>2. ASSUME NEW bytes \in Seq(Byte), bytes # << >>, taken[c] + Len(bytes) <= arrived[c],
             Request(c, bytes), UNCHANGED link
      PROVE  TInv'
  BY <1>1, <1>2, RequestTInv
<1>3. ASSUME fin[c] # "no", link' = [link EXCEPT ![c] = "closed"],
             UNCHANGED <<taken, sent, fate, number, sendbuf, reads, workVars>>
      PROVE  TInv'
  <2>1. TypeOK'
    BY <1>1, <1>3 DEF TInv, TypeOK, SocketsTypeOK, LinkState, workVars
  <2>2. ClosedHaveLeft'
    BY <1>1, <1>3 DEF TInv, TypeOK, SocketsTypeOK, ClosedHaveLeft
  <2>3. Balanced'
    BY <1>1, <1>3, PendingNext DEF TInv, Balanced, Running, workVars
  <2> QED BY <2>1, <2>2, <2>3 DEF TInv
<1>4. SocketsTypeOK
  BY DEF TInv, TypeOK
<1>5. CASE \E bytes \in Seq(Byte) :
              /\ bytes # << >>
              /\ taken[c] + Len(bytes) <= arrived[c]
              /\ ReadsAll(c, bytes)
              /\ Request(c, bytes) /\ UNCHANGED link
  BY <1>2, <1>5
<1>6. CASE /\ fin[c] = "rst" \/ (fin[c] = "fin" /\ taken[c] = arrived[c])
           /\ link' = [link EXCEPT ![c] = "closed"]
           /\ UNCHANGED <<taken, sent, fate, number, sendbuf, reads, workVars>>
  BY <1>3, <1>6
<1> QED BY <1>4, <1>5, <1>6, ReadCases

LEMMA ClosedTInv ==
  ASSUME TInv, NEW c \in Clients, on_client_closed(c)
  PROVE  TInv'
<1> USE DEF on_client_closed
<1>1. TypeOK'
  BY DEF TInv, TypeOK, SocketsTypeOK, socketVars, workVars
<1>2. ClosedHaveLeft'
  BY DEF TInv, ClosedHaveLeft, socketVars
<1>3. Balanced'
  BY PendingNext DEF TInv, Balanced, Running, socketVars, workVars
<1> QED BY <1>1, <1>2, <1>3 DEF TInv

(* A thread that turns to other work works for another client.             *)
LEMMA JobMoves ==
  ASSUME NEW J, job \in [Threads -> J], NEW t \in Threads, NEW new,
         job' = [job EXCEPT ![t] = new], NEW d
  PROVE  /\ job[t].peer = d <=> t \in WorkersOf(d)
         /\ (job[t].peer = d <=> new.peer = d) => WorkersOf(d)' = WorkersOf(d)
         /\ job[t].peer # d /\ new.peer = d
              => /\ WorkersOf(d)' = WorkersOf(d) \cup {t}
                 /\ Cardinality(WorkersOf(d)') = Cardinality(WorkersOf(d)) + 1
         /\ job[t].peer = d /\ new.peer # d
              => /\ WorkersOf(d)' = WorkersOf(d) \ {t}
                 /\ Cardinality(WorkersOf(d)) = Cardinality(WorkersOf(d)') + 1
<1>1. \A u \in Threads : job'[u] = IF u = t THEN new ELSE job[u]
  OBVIOUS
<1>2. job[t].peer = d <=> t \in WorkersOf(d)
  BY DEF WorkersOf
<1>3. IsFiniteSet(WorkersOf(d)) /\ Cardinality(WorkersOf(d)) \in Nat
  BY WorkersFinite
<1>4. (job[t].peer = d <=> new.peer = d) => WorkersOf(d)' = WorkersOf(d)
  BY <1>1 DEF WorkersOf
<1>5. job[t].peer # d /\ new.peer = d => WorkersOf(d)' = WorkersOf(d) \cup {t}
  BY <1>1 DEF WorkersOf
<1>6. job[t].peer = d /\ new.peer # d => WorkersOf(d)' = WorkersOf(d) \ {t}
  BY <1>1 DEF WorkersOf
<1>7. t \notin WorkersOf(d) => Cardinality(WorkersOf(d) \cup {t}) = Cardinality(WorkersOf(d)) + 1
  BY <1>3, FS_AddElement
<1>8. t \in WorkersOf(d) => Cardinality(WorkersOf(d) \ {t}) = Cardinality(WorkersOf(d)) - 1
  BY <1>3, FS_RemoveElement
<1>9. t \in WorkersOf(d) /\ WorkersOf(d)' = WorkersOf(d) \ {t}
        => Cardinality(WorkersOf(d)) = Cardinality(WorkersOf(d)') + 1
  BY <1>3, <1>8
<1>10. t \notin WorkersOf(d) /\ WorkersOf(d)' = WorkersOf(d) \cup {t}
        => Cardinality(WorkersOf(d)') = Cardinality(WorkersOf(d)) + 1
  BY <1>7
<1> QED BY <1>2, <1>4, <1>5, <1>6, <1>9, <1>10, Zenon

(* The client a thread works for is one, unless it is idle.                *)
LEMMA JobType ==
  ASSUME TypeOK, NEW t \in Threads
  PROVE  /\ job[t].peer = NoClient <=> job[t] = Idle
         /\ job[t] # Idle => /\ job[t].peer \in Clients
                             /\ job[t].at \in {"found", "filling"}
                             /\ job[t].verdict \in Verdicts
                             /\ job[t] \in [at : {"found", "filling"}, peer : Clients,
                                            verdict : Verdicts]
         /\ job[t] = Idle => job[t].at = "idle"
<1>1. job[t] \in {Idle} \cup
        [at : {"found", "filling"}, peer : Clients, verdict : Verdicts]
  BY DEF TypeOK
<1>2. NoClient \notin Clients /\ Idle.peer = NoClient /\ Idle.at = "idle"
  BY UvPrimeAssumption DEF Idle
<1> QED BY <1>1, <1>2

LEMMA ComputeTInv ==
  ASSUME TInv, NEW t \in Threads, Compute(t)
  PROVE  TInv'
<1> DEFINE x == Head(queue)
           new == [at |-> "found", peer |-> x, verdict |-> Verdict(number[x])]
           J == {Idle} \cup [at : {"found", "filling"}, peer : Clients, verdict : Verdicts]
<1>0. /\ TypeOK /\ queue # << >> /\ queue \in Seq(Clients)
      /\ job \in [Threads -> J] /\ job[t].peer = NoClient
      /\ queue' = Tail(queue) /\ job' = [job EXCEPT ![t] = new]
      /\ UNCHANGED <<socketVars, polite, blocking, fate, peerVars, done>>
  BY DEF TInv, TypeOK, Compute, Idle
<1>1. x \in Clients /\ queue' \in Seq(Clients)
  BY <1>0, TimesTail
<1> HIDE DEF x
<1>2. new \in J /\ new.peer = x
  BY <1>1 DEF Verdict, Verdicts
<1> HIDE DEF new
<1>3. TypeOK'
  <2>1. job' \in [Threads -> J]
    BY <1>0, <1>2
  <2> QED BY <1>0, <1>1, <2>1 DEF TypeOK, SocketsTypeOK, socketVars, peerVars
<1>4. ClosedHaveLeft'
  BY <1>0 DEF TInv, ClosedHaveLeft, socketVars
<1>5. ASSUME Running', NEW d \in Clients PROVE reads'[d] = Len(sent'[d]) + Pending(d)'
  <2>1. Running /\ reads' = reads /\ sent' = sent /\ done' = done
    BY <1>0, <1>5 DEF Running, socketVars, peerVars
  <2>2. reads[d] = Len(sent[d]) + Pending(d)
    BY <2>1 DEF TInv, Balanced
  <2>3. Times(queue, d) = Times(queue', d) + IF x = d THEN 1 ELSE 0
    BY <1>0, TimesTail DEF x
  <2>4. Cardinality(WorkersOf(d)') = Cardinality(WorkersOf(d)) + IF x = d THEN 1 ELSE 0
    <3>1. job[t].peer # d
      BY <1>0, UvPrimeAssumption
    <3>2. /\ x = d => Cardinality(WorkersOf(d)') = Cardinality(WorkersOf(d)) + 1
          /\ x # d => WorkersOf(d)' = WorkersOf(d)
      BY <1>0, <1>2, <3>1, JobMoves
    <3> QED BY <3>2, WorkersFinite
  <2>5. /\ Times(queue', d) \in Nat /\ Times(done, d) \in Nat
        /\ Cardinality(WorkersOf(d)) \in Nat /\ Cardinality(WorkersOf(d)') \in Nat
    BY <1>0, <1>1, TimesType, WorkersFinite, PendingType
  <2>6. Pending(d)' = Pending(d)
    <3>1. Pending(d)' = Times(queue', d) + Cardinality(WorkersOf(d)') + Times(done, d)
      BY <2>1, PendingNext
    <3> QED BY <2>3, <2>4, <2>5, <3>1 DEF Pending
  <2> QED BY <2>1, <2>2, <2>6
<1> QED BY <1>3, <1>4, <1>5 DEF TInv, Balanced

LEMMA FillTInv ==
  ASSUME TInv, NEW t \in Threads, Fill(t)
  PROVE  TInv'
<1> DEFINE x == job[t].peer
           new == [job[t] EXCEPT !.at = "filling"]
           J == {Idle} \cup [at : {"found", "filling"}, peer : Clients, verdict : Verdicts]
<1>0. /\ TypeOK /\ job \in [Threads -> J] /\ job[t].at = "found"
      /\ job' = [job EXCEPT ![t] = new]
      /\ sendbuf' = [sendbuf EXCEPT ![x] = IF FilledToo(t) = {} THEN "filling" ELSE "racing"]
      /\ UNCHANGED <<socketVars, polite, blocking, fate, number, freed, reads, queue, done>>
  BY DEF TInv, TypeOK, Fill
<1>1. /\ x \in Clients
      /\ job[t] \in [at : {"found", "filling"}, peer : Clients, verdict : Verdicts]
  BY <1>0, JobType
<1>2. new \in J /\ new.peer = x
  BY <1>1
<1> HIDE DEF new, x
<1>3. TypeOK'
  <2>1. job' \in [Threads -> J]
    BY <1>0, <1>2
  <2>2. sendbuf' \in [Clients -> {"fresh", "filling", "racing"} \union Verdicts]
    BY <1>0, <1>1 DEF TypeOK
  <2> QED BY <1>0, <2>1, <2>2 DEF TypeOK, SocketsTypeOK, socketVars
<1>4. ClosedHaveLeft'
  BY <1>0 DEF TInv, ClosedHaveLeft, socketVars
<1>5. ASSUME Running', NEW d \in Clients PROVE reads'[d] = Len(sent'[d]) + Pending(d)'
  <2>1. Running /\ reads' = reads /\ sent' = sent /\ done' = done /\ queue' = queue
    BY <1>0, <1>5 DEF Running, socketVars
  <2>2. reads[d] = Len(sent[d]) + Pending(d)
    BY <2>1 DEF TInv, Balanced
  <2>3. WorkersOf(d)' = WorkersOf(d)
    BY <1>0, <1>2, JobMoves DEF x
  <2>4. Pending(d)' = Pending(d)
    BY <2>1, <2>3, PendingNext DEF Pending
  <2> QED BY <2>1, <2>2, <2>4
<1> QED BY <1>3, <1>4, <1>5 DEF TInv, Balanced

LEMMA SubmitTInv ==
  ASSUME TInv, NEW t \in Threads, Submit(t)
  PROVE  TInv'
<1> DEFINE x == job[t].peer
           J == {Idle} \cup [at : {"found", "filling"}, peer : Clients, verdict : Verdicts]
<1>0. /\ TypeOK /\ job \in [Threads -> J] /\ job[t].at = "filling"
      /\ job' = [job EXCEPT ![t] = Idle]
      /\ done' = Append(done, x)
      /\ sendbuf' = [sendbuf EXCEPT ![x] = IF @ = "racing" THEN @ ELSE job[t].verdict]
      /\ UNCHANGED <<socketVars, polite, blocking, fate, number, freed, reads, queue>>
  BY DEF TInv, TypeOK, Submit
<1>1. x \in Clients /\ job[t].verdict \in Verdicts
  BY <1>0, JobType
<1>2. done \in Seq(Clients) /\ done' \in Seq(Clients) /\ Idle.peer = NoClient
  BY <1>0, <1>1 DEF TypeOK, Idle
<1> HIDE DEF x
<1>3. TypeOK'
  <2>1. job' \in [Threads -> J]
    BY <1>0
  <2>2. sendbuf' \in [Clients -> {"fresh", "filling", "racing"} \union Verdicts]
    BY <1>0, <1>1 DEF TypeOK
  <2> QED BY <1>0, <1>2, <2>1, <2>2 DEF TypeOK, SocketsTypeOK, socketVars
<1>4. ClosedHaveLeft'
  BY <1>0 DEF TInv, ClosedHaveLeft, socketVars
<1>5. ASSUME Running', NEW d \in Clients PROVE reads'[d] = Len(sent'[d]) + Pending(d)'
  <2>1. Running /\ reads' = reads /\ sent' = sent /\ queue' = queue
    BY <1>0, <1>5 DEF Running, socketVars
  <2>2. reads[d] = Len(sent[d]) + Pending(d)
    BY <2>1 DEF TInv, Balanced
  <2>3. Times(done', d) = Times(done, d) + IF x = d THEN 1 ELSE 0
    BY <1>0, <1>1, <1>2, TimesAppend
  <2>4. Cardinality(WorkersOf(d)) = Cardinality(WorkersOf(d)') + IF x = d THEN 1 ELSE 0
    <3>1. Idle.peer # d
      BY <1>2, UvPrimeAssumption
    <3>2. /\ x = d => Cardinality(WorkersOf(d)) = Cardinality(WorkersOf(d)') + 1
          /\ x # d => WorkersOf(d)' = WorkersOf(d)
      BY <1>0, <3>1, JobMoves DEF x
    <3> QED BY <3>2, WorkersFinite
  <2>5. /\ Times(queue, d) \in Nat /\ Times(done, d) \in Nat
        /\ Cardinality(WorkersOf(d)) \in Nat /\ Cardinality(WorkersOf(d)') \in Nat
    BY <1>0, WorkersFinite, PendingType
  <2>6. Pending(d)' = Pending(d)
    <3>1. Pending(d)' = Times(queue, d) + Cardinality(WorkersOf(d)') + Times(done', d)
      BY <2>1, PendingNext
    <3> QED BY <2>3, <2>4, <2>5, <3>1 DEF Pending
  <2> QED BY <2>1, <2>2, <2>6
<1> QED BY <1>3, <1>4, <1>5 DEF TInv, Balanced

LEMMA CompletedTInv ==
  ASSUME TInv, on_work_completed
  PROVE  TInv'
<1> DEFINE x == Head(done)
<1>0. /\ TypeOK /\ SocketsTypeOK /\ done # << >> /\ done \in Seq(Clients)
      /\ done' = Tail(done)
      /\ uv_write(x, sendbuf[x])
      /\ UNCHANGED <<script, link, arrived, fin, taken, drained, polite, blocking,
                     peerVars, queue, job>>
      /\ Running
  BY DEF TInv, TypeOK, on_work_completed
<1>1. x \in Clients /\ done' \in Seq(Clients)
  BY <1>0, TimesTail
<1> HIDE DEF x
<1>2. /\ sent' \in [Clients -> Seq(Byte)]
      /\ \A d \in Clients \ {x} : sent'[d] = sent[d]
      /\ \A d \in Clients : /\ Len(sent[d]) \in Nat /\ Len(sent'[d]) \in Nat
                            /\ Len(sent'[d]) >= Len(sent[d])
      /\ \/ fate' = "exited"
         \/ fate' = fate /\ Len(sent'[x]) = Len(sent[x]) + 1
  BY <1>0, <1>1, WriteCases
<1>3. TypeOK'
  <2>1. \A d \in Clients : drained[d] <= Len(sent'[d])
    BY <1>0, <1>2 DEF SocketsTypeOK
  <2> QED BY <1>0, <1>1, <1>2, <2>1 DEF TypeOK, SocketsTypeOK, peerVars
<1>4. ClosedHaveLeft'
  BY <1>0 DEF TInv, ClosedHaveLeft
<1>5. ASSUME Running', NEW d \in Clients PROVE reads'[d] = Len(sent'[d]) + Pending(d)'
  <2>1. reads' = reads /\ queue' = queue /\ job' = job
    BY <1>0 DEF peerVars
  <2>2. reads[d] = Len(sent[d]) + Pending(d)
    BY <1>0 DEF TInv, Balanced
  <2>3. Times(done, d) = Times(done', d) + IF x = d THEN 1 ELSE 0
    BY <1>0, TimesTail DEF x
  <2>4. /\ Times(queue, d) \in Nat /\ Times(done', d) \in Nat
        /\ Cardinality(WorkersOf(d)) \in Nat
    BY <1>0, <1>1, TimesType, WorkersFinite, PendingType
  <2>5. Len(sent[d]) \in Nat /\ Len(sent'[d]) \in Nat
    BY <1>2
  <2>6. Len(sent'[d]) = Len(sent[d]) + IF x = d THEN 1 ELSE 0
    <3>1. fate' # "exited"
      BY <1>5 DEF Running
    <3>2. CASE x = d
      BY <1>2, <3>1, <3>2
    <3>3. CASE x # d
      BY <1>2, <2>5, <3>3
    <3> QED BY <3>2, <3>3
  <2>7. Pending(d)' = Times(queue, d) + Cardinality(WorkersOf(d)) + Times(done', d)
    BY <2>1, PendingNext
  <2>8. Pending(d) = Pending(d)' + IF x = d THEN 1 ELSE 0
    BY <2>3, <2>4, <2>7 DEF Pending
  <2>9. Pending(d)' \in Nat
    BY <2>4, <2>7
  <2> HIDE DEF x
  <2>10. CASE x = d
    BY <2>1, <2>2, <2>5, <2>6, <2>8, <2>9, <2>10
  <2>11. CASE x # d
    BY <2>1, <2>2, <2>5, <2>6, <2>8, <2>9, <2>11
  <2> QED BY <2>10, <2>11
<1> QED BY <1>3, <1>4, <1>5 DEF TInv, Balanced

LEMMA FreedTInv ==
  ASSUME TInv, UseAfterFree
  PROVE  TInv'
<1>1. fate' = "undefined" /\ UNCHANGED <<socketVars, polite, blocking, peerVars, workVars>>
  BY DEF UseAfterFree
<1>2. TypeOK'
  BY <1>1 DEF TInv, TypeOK, SocketsTypeOK, socketVars, peerVars, workVars
<1>3. ClosedHaveLeft'
  BY <1>1 DEF TInv, ClosedHaveLeft, socketVars
<1>4. Balanced'
  BY <1>1 DEF Balanced, Running
<1> QED BY <1>2, <1>3, <1>4 DEF TInv

LEMMA StutterTInv ==
  ASSUME TInv, UNCHANGED vars
  PROVE  TInv'
<1> USE DEF vars, socketVars, serverVars, peerVars, workVars
<1>1. TypeOK'
  BY DEF TInv, TypeOK, SocketsTypeOK
<1>2. ClosedHaveLeft'
  BY DEF TInv, ClosedHaveLeft
<1>3. Balanced'
  BY PendingNext DEF TInv, Balanced, Running
<1> QED BY <1>1, <1>2, <1>3 DEF TInv

LEMMA NextTInv == TInv /\ [Next]_vars => TInv'
<1> SUFFICES ASSUME TInv, [Next]_vars PROVE TInv'
  OBVIOUS
<1>1. ASSUME NEW c \in Clients, Handle(c) PROVE TInv'
  BY <1>1, ConnectedTInv, ReadTInv, ClosedTInv DEF Handle
<1>2. ASSUME NEW t \in Threads, Work(t) PROVE TInv'
  BY <1>2, ComputeTInv, FillTInv, SubmitTInv DEF Work
<1>3. ASSUME NEW c \in Clients, Client(c) PROVE TInv'
  BY <1>3, ClientTInv
<1> QED BY <1>1, <1>2, <1>3, CompletedTInv, FreedTInv, StutterTInv DEF Next, Server

(* The invariant of all clients, in every reachable state.                 *)
THEOREM Invariance == Spec => []TInv
BY InitTInv, NextTInv, PTL DEF Spec

(* Every variable has its type, and only closed connections are freed.     *)
THEOREM TypeCorrect == Spec => []TypeOK
<1>1. TInv => TypeOK
  BY DEF TInv
<1> QED BY <1>1, Invariance, PTL

(* Each read that brought bytes is answered once, whatever the clients do  *)
(* and however many the threads are: uv_queue_work() loses no request, and *)
(* on_work_completed() answers none twice.                                 *)
THEOREM ReadsAnswered == Spec => []EachReadIsAnsweredOnce
<1>1. TInv => EachReadIsAnsweredOnce
  BY ReadsBalance DEF TInv
<1> QED BY <1>1, Invariance, PTL

-----------------------------------------------------------------------------
(* The polite clients.                                                     *)

(* Each request of a script fits in the buffer of a read.                  *)
RequestsFit ==
  \A s \in Scripts : \A e \in Ends(s) :
    \E b \in Ends(s) \union {0} : b < e /\ e - b <= SuggestedSize

(* What has a type has it.                                                 *)
LEMMA TFacts ==
  ASSUME TInv
  PROVE  /\ TypeOK /\ SocketsTypeOK
         /\ queue \in Seq(Clients) /\ done \in Seq(Clients)
         /\ reads \in [Clients -> Nat]
         /\ \A c \in Clients :
              /\ script[c] \in Scripts /\ script[c] \in Seq(Byte)
              /\ sent[c] \in Seq(Byte) /\ Len(sent[c]) \in Nat
              /\ arrived[c] \in Nat /\ taken[c] \in Nat /\ taken[c] <= arrived[c]
              /\ arrived[c] <= Len(script[c])
              /\ fin[c] \in {"no", "fin", "rst"}
<1>1. TypeOK
  BY DEF TInv
<1>2. /\ SocketsTypeOK /\ reads \in [Clients -> Nat]
      /\ queue \in Seq(Clients) /\ done \in Seq(Clients)
  BY <1>1 DEF TypeOK
<1>3. \A c \in Clients : sent[c] \in Seq(Byte) /\ Len(sent[c]) \in Nat
  BY <1>2 DEF SocketsTypeOK
<1>4. \A c \in Clients :
        /\ script[c] \in Scripts /\ script[c] \in Seq(Byte)
        /\ arrived[c] \in Nat /\ taken[c] \in Nat /\ taken[c] <= arrived[c]
        /\ arrived[c] <= Len(script[c])
        /\ fin[c] \in {"no", "fin", "rst"}
  BY <1>2, SocketsAssumption DEF SocketsTypeOK, FinState
<1> QED BY <1>1, <1>2, <1>3, <1>4

(* A client whose requests have all been answered has no work anywhere.    *)
LEMMA NothingPending ==
  ASSUME TInv, Running, NEW c \in Clients, reads[c] = Len(sent[c])
  PROVE  /\ Places(queue, c) = {} /\ WorkersOf(c) = {} /\ Places(done, c) = {}
         /\ queue # << >> => Head(queue) # c
         /\ done # << >> => Head(done) # c
         /\ \A t \in Threads : job[t].peer # c
<1>0. TypeOK /\ queue \in Seq(Clients) /\ done \in Seq(Clients) /\ Len(sent[c]) \in Nat
  BY TFacts
<1>1. reads[c] = Len(sent[c]) + Pending(c) /\ Pending(c) \in Nat
  BY <1>0, PendingType DEF TInv, Balanced
<1>2. Pending(c) = 0
  BY <1>0, <1>1
<1>3. /\ Times(queue, c) = 0 /\ Times(done, c) = 0 /\ Cardinality(WorkersOf(c)) = 0
  BY <1>0, <1>2, PendingType DEF Pending
<1>4. Places(queue, c) = {} /\ Places(done, c) = {}
  BY <1>0, <1>3, TimesType
<1>5. WorkersOf(c) = {}
  BY <1>3, WorkersFinite, FS_EmptySet
<1>6. \A list \in {queue, done} : list # << >> => 1 \in DOMAIN list /\ Head(list) = list[1]
  BY <1>0
<1>7. \A t \in Threads : job[t].peer # c
  BY <1>5 DEF WorkersOf
<1>8. \A list \in {queue, done} : list # << >> => Head(list) # c
  BY <1>4, <1>6 DEF Places
<1> QED BY <1>4, <1>5, <1>7, <1>8

(* One whose last request is not yet answered has it in one place.         *)
LEMMA OnePending ==
  ASSUME TInv, Running, NEW c \in Clients, OneAtATime(c)
  PROVE  /\ Pending(c) \in {0, 1}
         /\ Pending(c) = 1 => reads[c] = Len(sent[c]) + 1
         /\ Pending(c) = 0 => reads[c] = Len(sent[c])
         /\ \A t \in WorkersOf(c) : /\ Pending(c) = 1
                                    /\ WorkersOf(c) = {t} /\ Places(done, c) = {}
         /\ done # << >> /\ Head(done) = c => Pending(c) = 1 /\ Places(done, c) # {}
<1>0. /\ TypeOK /\ queue \in Seq(Clients) /\ done \in Seq(Clients)
      /\ Len(sent[c]) \in Nat
  BY TFacts
<1>1. reads[c] = Len(sent[c]) + Pending(c) /\ Pending(c) \in Nat
  BY <1>0, PendingType DEF TInv, Balanced
<1>2. /\ Pending(c) \in {0, 1}
      /\ Pending(c) = 1 => reads[c] = Len(sent[c]) + 1
      /\ Pending(c) = 0 => reads[c] = Len(sent[c])
  BY <1>0, <1>1 DEF OneAtATime
<1>3. ASSUME NEW t \in WorkersOf(c)
      PROVE  Pending(c) = 1 /\ WorkersOf(c) = {t} /\ Places(done, c) = {}
  <2>1. IsFiniteSet(WorkersOf(c)) /\ Cardinality(WorkersOf(c)) \in Nat
    BY WorkersFinite
  <2>2. /\ Cardinality(WorkersOf(c) \ {t}) = Cardinality(WorkersOf(c)) - 1
        /\ IsFiniteSet(WorkersOf(c) \ {t})
    BY <2>1, FS_RemoveElement
  <2>3. Cardinality(WorkersOf(c) \ {t}) \in Nat
    BY <2>2, FS_CardinalityType
  <2>4. Times(queue, c) \in Nat /\ Times(done, c) \in Nat
    BY <1>0, PendingType
  <2>5. Pending(c) = 1 /\ Cardinality(WorkersOf(c) \ {t}) = 0 /\ Times(done, c) = 0
    BY <1>2, <2>1, <2>2, <2>3, <2>4 DEF Pending
  <2>6. WorkersOf(c) \ {t} = {}
    BY <2>2, <2>5, FS_EmptySet
  <2>7. Places(done, c) = {}
    BY <1>0, <2>5, TimesType
  <2> QED BY <2>5, <2>6, <2>7
<1>4. ASSUME done # << >>, Head(done) = c
      PROVE  Pending(c) = 1 /\ Places(done, c) # {}
  <2>1. 1 \in DOMAIN done /\ done[1] = c
    BY <1>0, <1>4
  <2>2. Places(done, c) # {}
    BY <2>1 DEF Places
  <2>3. reads[c] # Len(sent[c])
    BY <1>4, NothingPending
  <2> QED BY <1>2, <2>2, <2>3
<1> QED BY <1>2, <1>3, <1>4

(* A client none of whose steps it is, and none of whose answers, asks and *)
(* has as before.                                                          *)
LEMMA OneAtATimeKept ==
  ASSUME NEW c, OneAtATime(c),
         script'[c] = script[c], arrived'[c] = arrived[c], taken'[c] = taken[c],
         fin'[c] = fin[c], reads'[c] = reads[c], sent'[c] = sent[c]
  PROVE  OneAtATime(c)'
BY DEF OneAtATime

LEMMA AnswersFitKept ==
  ASSUME NEW c, AnswersFit(c),
         script'[c] = script[c], reads'[c] = reads[c], sent'[c] = sent[c],
         number'[c] = number[c], sendbuf'[c] = sendbuf[c],
         \A t \in Threads : job'[t].peer = c => job'[t] = job[t],
         Places(done', c) # {} => Places(done, c) # {}
  PROVE  AnswersFit(c)'
<1>1. \A t \in WorkersOf(c)' : t \in WorkersOf(c) /\ job'[t] = job[t]
  BY DEF WorkersOf
<1> QED BY <1>1 DEF AnswersFit, AnswerTo

(* A polite client that has its answers has had all its requests read.     *)
LEMMA AllWasRead ==
  ASSUME SocketsTypeOK, reads \in [Clients -> Nat], NEW c \in Clients, OneAtATime(c),
         Answered(c)
  PROVE  taken[c] = arrived[c] /\ reads[c] = Len(sent[c])
<1>0. /\ script[c] \in Seq(Byte) /\ taken[c] \in Nat /\ arrived[c] \in Nat
      /\ taken[c] <= arrived[c] /\ Len(sent[c]) \in Nat
  BY SocketsAssumption DEF SocketsTypeOK
<1>1. Len(sent[c]) = EndsUpTo(script[c], arrived[c])
  BY DEF Answered, EndsUpTo
<1>2. /\ EndsUpTo(script[c], arrived[c]) \in Nat /\ EndsUpTo(script[c], taken[c]) \in Nat
  BY <1>0, EndsType
<1>3. ASSUME taken[c] < arrived[c] PROVE FALSE
  <2>1. arrived[c] \in Ends(script[c])
    BY <1>0, <1>3 DEF OneAtATime
  <2>2. EndsUpTo(script[c], arrived[c]) > EndsUpTo(script[c], taken[c])
    BY <1>0, <1>3, <2>1, EndsGrow
  <2>3. reads[c] >= Len(sent[c]) /\ reads[c] = EndsUpTo(script[c], taken[c])
    BY <1>0 DEF OneAtATime
  <2> QED BY <1>1, <1>2, <2>2, <2>3
<1>4. taken[c] = arrived[c]
  BY <1>0, <1>3
<1>5. reads[c] = Len(sent[c])
  BY <1>1, <1>4 DEF OneAtATime
<1> QED BY <1>4, <1>5

(* The next request of a polite client fits in one read.                   *)
LEMMA AskOne ==
  ASSUME RequestsFit, SocketsTypeOK, reads \in [Clients -> Nat],
         NEW c \in Clients, OneAtATime(c), Ask(c), UNCHANGED reads
  PROVE  OneAtATime(c)'
<1>0. /\ script[c] \in Scripts /\ script[c] \in Seq(Byte)
      /\ taken[c] \in Nat /\ arrived[c] \in Nat
  BY SocketsAssumption DEF SocketsTypeOK
<1>1. taken[c] = arrived[c] /\ reads[c] = Len(sent[c]) /\ fin[c] = "no"
  BY AllWasRead DEF Ask, Linked
<1>2. PICK end \in Ends(script[c]) :
        /\ arrived[c] < end
        /\ \A k \in Ends(script[c]) : arrived[c] < k => end <= k
        /\ arrived' = [arrived EXCEPT ![c] = end]
  BY DEF Ask
<1>3. PICK b \in Ends(script[c]) \union {0} : b < end /\ end - b <= SuggestedSize
  BY <1>0, <1>2 DEF RequestsFit
<1>4. end \in Nat /\ b \in Nat /\ \A k \in Ends(script[c]) : k \in Nat
  BY <1>0, EndsPlace
<1>5. b <= arrived[c]
  BY <1>0, <1>2, <1>3, <1>4
<1>6. end - taken[c] <= SuggestedSize
  BY <1>0, <1>1, <1>3, <1>4, <1>5, UvPrimeAssumption
<1>7. \A e \in Ends(script[c]) : taken[c] < e /\ e <= end => e = end
  BY <1>0, <1>1, <1>2, <1>4
<1>8. arrived'[c] = end /\ UNCHANGED <<script, fin, taken, sent, reads>>
  <2>1. arrived'[c] = end
    BY <1>2 DEF SocketsTypeOK
  <2> QED BY <2>1 DEF Ask
<1> QED BY <1>0, <1>1, <1>2, <1>6, <1>7, <1>8 DEF OneAtATime

(* What a client's own step does to the polite ones.                       *)
LEMMA ClientKeeps ==
  ASSUME RequestsFit, TInv, NEW c \in Clients, Client(c),
         NEW d \in Clients, d \in polite, OneAtATime(d), AnswersFit(d)
  PROVE  OneAtATime(d)' /\ AnswersFit(d)'
<1>0. SocketsTypeOK /\ reads \in [Clients -> Nat]
  BY TFacts
<1>1. /\ UNCHANGED <<script, taken, sent, serverVars>>
      /\ \A e \in Clients \ {c} : arrived'[e] = arrived[e] /\ fin'[e] = fin[e]
  BY <1>0, ClientMoves
<1>2. AnswersFit(d)'
  <2>1. /\ script'[d] = script[d] /\ reads'[d] = reads[d] /\ sent'[d] = sent[d]
        /\ number'[d] = number[d] /\ sendbuf'[d] = sendbuf[d]
        /\ job' = job /\ done' = done
    BY <1>1 DEF serverVars, peerVars, workVars
  <2> QED BY <2>1, AnswersFitKept
<1>3. CASE d # c
  <2>1. /\ script'[d] = script[d] /\ reads'[d] = reads[d] /\ sent'[d] = sent[d]
        /\ taken'[d] = taken[d] /\ arrived'[d] = arrived[d] /\ fin'[d] = fin[d]
    BY <1>1, <1>3 DEF serverVars, peerVars
  <2> QED BY <1>2, <2>1, OneAtATimeKept
<1>4. CASE d = c
  <2>1. Connect(c) \/ Ask(c) \/ (Answered(c) /\ HangUp(c))
    BY <1>4 DEF Client, PoliteStep
  <2>2. UNCHANGED reads
    BY <1>1 DEF serverVars, peerVars
  <2>3. CASE Connect(c)
    BY <1>2, <1>4, <2>2, <2>3, OneAtATimeKept DEF Connect
  <2>4. CASE Ask(c)
    BY <1>0, <1>2, <1>4, <2>2, <2>4, AskOne
  <2>5. CASE Answered(c) /\ HangUp(c)
    <3>1. taken[c] = arrived[c] /\ reads[c] = Len(sent[c])
      BY <1>0, <1>4, <2>5, AllWasRead
    <3>2. fin'[c] = "fin" /\ UNCHANGED <<script, arrived, taken, sent>>
      BY <1>0, <2>5 DEF HangUp, SocketsTypeOK
    <3>3. OneAtATime(c)'
      BY <1>4, <2>2, <3>1, <3>2 DEF OneAtATime
    <3> QED BY <1>2, <1>4, <3>3
  <2> QED BY <2>1, <2>3, <2>4, <2>5
<1> QED BY <1>3, <1>4

(* A read of a polite client brings its next request, all of it.           *)
LEMMA PoliteRead ==
  ASSUME TInv, Running, NEW c \in Clients, OneAtATime(c), NEW bytes \in Seq(Byte),
         bytes # << >>, taken[c] + Len(bytes) <= arrived[c],
         ReadsAll(c, bytes)
  PROVE  /\ taken[c] + Len(bytes) = arrived[c] /\ taken[c] < arrived[c]
         /\ reads[c] = Len(sent[c]) /\ fin[c] = "no"
         /\ EndsUpTo(script[c], arrived[c]) = reads[c] + 1
         /\ Asked(script[c], reads[c] + 1) = Value(bytes)
<1>0. /\ script[c] \in Seq(Byte) /\ taken[c] \in Nat /\ arrived[c] \in Nat
      /\ taken[c] <= arrived[c] /\ Len(bytes) \in Nat /\ Len(bytes) # 0
      /\ fin[c] \in {"no", "fin", "rst"}
  BY TFacts
<1>1. arrived[c] - taken[c] <= SuggestedSize
  BY DEF OneAtATime
<1>2. taken[c] + Len(bytes) = arrived[c] /\ taken[c] < arrived[c]
  <2>1. taken[c] + Len(bytes) = arrived[c]
    BY <1>1, Zenon DEF ReadsAll
  <2> QED BY <1>0, <2>1
<1>3. reads[c] = Len(sent[c]) /\ fin[c] = "no"
  BY <1>0, <1>2 DEF OneAtATime
<1>4. /\ taken[c] \in Ends(script[c]) \union {0} /\ arrived[c] \in Ends(script[c])
      /\ \A e \in Ends(script[c]) : taken[c] < e /\ e <= arrived[c] => e = arrived[c]
      /\ reads[c] = EndsUpTo(script[c], taken[c])
  BY <1>0, <1>2 DEF OneAtATime
<1>5. EndsUpTo(script[c], arrived[c]) = reads[c] + 1
  BY <1>0, <1>2, <1>4, EndsGrow
<1>6. Asked(script[c], reads[c] + 1) = Value(SubSeq(script[c], taken[c] + 1, arrived[c]))
  BY <1>0, <1>2, <1>4, AskedBetween
<1>7. bytes = SubSeq(script[c], taken[c] + 1, arrived[c])
  BY <1>1, Zenon DEF ReadsAll
<1> QED BY <1>2, <1>3, <1>5, <1>6, <1>7, Zenon

(* uv_write() answers the last request with what sendbuf holds.            *)
LEMMA AnswerAppended ==
  ASSUME NEW s, NEW old \in Seq(Byte), NEW b \in Byte,
         \A k \in 1..Len(old) : old[k] = Text(AnswerTo(s, k)),
         b = Text(AnswerTo(s, Len(old) + 1))
  PROVE  \A k \in 1..Len(Append(old, b)) : Append(old, b)[k] = Text(AnswerTo(s, k))
<1>1. /\ Len(Append(old, b)) = Len(old) + 1 /\ Len(old) \in Nat
      /\ \A k \in 1..Len(old) : Append(old, b)[k] = old[k]
      /\ Append(old, b)[Len(old) + 1] = b
  OBVIOUS
<1>2. \A k \in 1..(Len(old) + 1) : k \in 1..Len(old) \/ k = Len(old) + 1
  BY <1>1
<1> QED BY <1>1, <1>2

(* What a read of c does to the polite ones, while the server runs.        *)
LEMMA RequestKeeps ==
  ASSUME TInv, Running, Running', NEW c \in Clients, NEW bytes \in Seq(Byte),
         bytes # << >>, taken[c] + Len(bytes) <= arrived[c],
         ReadsAll(c, bytes),
         Request(c, bytes), link[c] = "open",
         UNCHANGED <<script, link, arrived, fin>>,
         NEW d \in Clients, OneAtATime(d), AnswersFit(d)
  PROVE  OneAtATime(d)' /\ AnswersFit(d)'
<1>0. /\ SocketsTypeOK /\ queue \in Seq(Clients) /\ done \in Seq(Clients)
      /\ taken \in [Clients -> Nat] /\ reads \in [Clients -> Nat]
      /\ number \in [Clients -> Unsigned] /\ sent[c] \in Seq(Byte) /\ Len(sent[c]) \in Nat
      /\ sendbuf \in [Clients -> {"fresh", "filling", "racing"} \union Verdicts]
  <2>1. TypeOK
    BY TFacts
  <2>2. taken \in [Clients -> Nat]
    BY <2>1 DEF TypeOK, SocketsTypeOK
  <2>3. /\ number \in [Clients -> Unsigned]
        /\ sendbuf \in [Clients -> {"fresh", "filling", "racing"} \union Verdicts]
    BY <2>1 DEF TypeOK
  <2> QED BY <2>2, <2>3, TFacts
<1>1. /\ taken' = [taken EXCEPT ![c] = taken[c] + Len(bytes)]
      /\ reads' = [reads EXCEPT ![c] = reads[c] + 1]
      /\ number' = [number EXCEPT ![c] = Number(bytes)]
  BY DEF Request
<1>2. /\ UNCHANGED <<job, done>>
      /\ blocking => /\ sendbuf' = [sendbuf EXCEPT ![c] = Verdict(Number(bytes))]
                     /\ uv_write(c, Verdict(Number(bytes)))
      /\ ~ blocking => UNCHANGED <<sendbuf, sent>>
  BY DEF Request, workVars
<1>3. CASE d # c
  <2>1. sent'[d] = sent[d]
    BY <1>0, <1>2, <1>3, WriteCases
  <2>2. /\ sendbuf'[d] = sendbuf[d] /\ taken'[d] = taken[d] /\ reads'[d] = reads[d]
        /\ number'[d] = number[d]
    BY <1>0, <1>1, <1>2, <1>3
  <2>3. OneAtATime(d)'
    BY <2>1, <2>2, OneAtATimeKept
  <2>4. AnswersFit(d)'
    BY <1>2, <2>1, <2>2, AnswersFitKept
  <2> QED BY <2>3, <2>4
<1>4. CASE d = c
  <2>1. /\ taken[c] + Len(bytes) = arrived[c] /\ taken[c] < arrived[c]
        /\ reads[c] = Len(sent[c]) /\ fin[c] = "no"
        /\ EndsUpTo(script[c], arrived[c]) = reads[c] + 1
        /\ Asked(script[c], reads[c] + 1) = Value(bytes)
    BY <1>4, PoliteRead
  <2>2. WorkersOf(c) = {} /\ Places(done, c) = {}
    BY <2>1, NothingPending
  <2>3. /\ taken'[c] = arrived[c] /\ reads'[c] = reads[c] + 1 /\ number'[c] = Number(bytes)
        /\ arrived' = arrived /\ script' = script /\ fin'[c] = "no"
    BY <1>0, <1>1, <2>1
  <2>4. /\ number'[c] = Asked(script[c], reads'[c]) % Width
        /\ Verdict(Number(bytes)) = AnswerTo(script[c], reads'[c])
    BY <2>1, <2>3 DEF Number, AnswerTo
  <2>5. arrived[c] \in Ends(script[c]) \union {0} /\ arrived[c] \in Nat
    BY <1>4, TFacts DEF OneAtATime
  <2>6. WorkersOf(c)' = {} /\ Places(done', c) = {}
    BY <1>2, <2>2, PendingNext
  <2>7. /\ sent'[c] \in Seq(Byte)
        /\ \/ Len(sent'[c]) = Len(sent[c])
           \/ Len(sent'[c]) = Len(sent[c]) + 1
        /\ \A k \in 1..Len(sent'[c]) : sent'[c][k] = Text(AnswerTo(script[c], k))
    <3>1. CASE blocking
      <4>1. Running' => fate' # "exited"
        BY DEF Running
      <4>2. sent'[c] = Append(sent[c], Text(Verdict(Number(bytes))))
        BY <1>0, <1>2, <3>1, <4>1, WriteCases
      <4>3. /\ \A k \in 1..Len(sent[c]) : sent[c][k] = Text(AnswerTo(script[c], k))
            /\ Text(Verdict(Number(bytes))) = Text(AnswerTo(script[c], Len(sent[c]) + 1))
            /\ Text(Verdict(Number(bytes))) \in Byte
        BY <1>4, <2>1, <2>3, <2>4, TextType DEF AnswersFit
      <4>4. /\ Append(sent[c], Text(Verdict(Number(bytes)))) \in Seq(Byte)
            /\ Len(Append(sent[c], Text(Verdict(Number(bytes))))) = Len(sent[c]) + 1
        BY <1>0, <4>3
      <4>5. \A k \in 1..Len(sent'[c]) : sent'[c][k] = Text(AnswerTo(script[c], k))
        <5> DEFINE longer == Append(sent[c], Text(Verdict(Number(bytes))))
        <5>1. \A k \in 1..Len(longer) : longer[k] = Text(AnswerTo(script[c], k))
          BY <1>0, <4>3, AnswerAppended
        <5> QED BY <4>2, <5>1, Zenon
      <4> QED BY <4>2, <4>4, <4>5
    <3>2. CASE ~ blocking
      BY <1>0, <1>2, <1>4, <3>2 DEF AnswersFit
    <3> QED BY <3>1, <3>2
  <2>8. OneAtATime(c)'
    <3>1. reads'[c] \in {Len(sent'[c]), Len(sent'[c]) + 1}
      <4>1. reads'[c] = Len(sent[c]) + 1 /\ Len(sent[c]) \in Nat
        BY <1>0, <2>1, <2>3
      <4> QED BY <2>7, <4>1
    <3>2. /\ taken'[c] = arrived'[c] /\ arrived'[c] - taken'[c] <= SuggestedSize
          /\ ~ (taken'[c] < arrived'[c])
      BY <2>3, <2>5, UvPrimeAssumption
    <3>3. \A e \in Ends(script'[c]) : ~ (taken'[c] < e /\ e <= arrived'[c])
      <4>1. \A e \in Ends(script[c]) : e \in Nat
        BY EndsPlace, TFacts
      <4> QED BY <2>3, <2>5, <4>1
    <3>4. /\ {arrived'[c], taken'[c]} \subseteq Ends(script'[c]) \union {0}
          /\ reads'[c] = EndsUpTo(script'[c], taken'[c])
          /\ fin'[c] = "no"
      BY <2>1, <2>3, <2>5
    <3> QED BY <3>1, <3>2, <3>3, <3>4 DEF OneAtATime
  <2>9. AnswersFit(c)'
    BY <2>3, <2>4, <2>6, <2>7 DEF AnswersFit, AnswerTo
  <2> QED BY <1>4, <2>8, <2>9
<1> QED BY <1>3, <1>4

(* A thread that takes up the work of a polite client reads its number.    *)
LEMMA ComputeKeeps ==
  ASSUME TInv, NEW t \in Threads, Compute(t), NEW d \in Clients, OneAtATime(d), AnswersFit(d)
  PROVE  OneAtATime(d)' /\ AnswersFit(d)'
<1> DEFINE x == Head(queue)
           new == [at |-> "found", peer |-> x, verdict |-> Verdict(number[x])]
<1>0. /\ job' = [job EXCEPT ![t] = new] /\ DOMAIN job = Threads
      /\ UNCHANGED <<script, arrived, fin, taken, sent, reads, number, sendbuf, done>>
  BY DEF TInv, TypeOK, Compute, socketVars, peerVars
<1>1. OneAtATime(d)'
  BY <1>0, OneAtATimeKept
<1>2. /\ new.peer = x /\ new.at = "found" /\ new.verdict = Verdict(number[x])
      /\ job'[t] = new /\ \A u \in Threads \ {t} : job'[u] = job[u]
  BY <1>0
<1> HIDE DEF x, new
<1>3. ASSUME NEW u \in WorkersOf(d)'
      PROVE  /\ job'[u].verdict = Verdict(number'[d])
             /\ job'[u].at = "filling" => sendbuf'[d] = "filling"
  <2>1. u \in Threads /\ job'[u].peer = d
    BY DEF WorkersOf
  <2>2. CASE u = t
    BY <1>0, <1>2, <2>1, <2>2
  <2>3. CASE u # t
    <3>1. u \in WorkersOf(d) /\ job'[u] = job[u]
      BY <1>2, <2>1, <2>3 DEF WorkersOf
    <3> QED BY <1>0, <3>1 DEF AnswersFit
  <2> QED BY <2>2, <2>3
<1> QED BY <1>0, <1>1, <1>3 DEF AnswersFit, AnswerTo

(* It is the only one that fills the buffer.                               *)
LEMMA FillKeeps ==
  ASSUME TInv, Running, NEW t \in Threads, Fill(t),
         NEW d \in Clients, OneAtATime(d), AnswersFit(d)
  PROVE  OneAtATime(d)' /\ AnswersFit(d)'
<1> DEFINE x == job[t].peer
           new == [job[t] EXCEPT !.at = "filling"]
<1>0. /\ job' = [job EXCEPT ![t] = new] /\ DOMAIN job = Threads /\ job[t].at = "found"
      /\ sendbuf' = [sendbuf EXCEPT ![x] = IF FilledToo(t) = {} THEN "filling" ELSE "racing"]
      /\ DOMAIN sendbuf = Clients
      /\ UNCHANGED <<script, arrived, fin, taken, sent, reads, number, done>>
  BY DEF TInv, TypeOK, Fill, socketVars
<1>1. /\ x \in Clients
      /\ job[t] \in [at : {"found", "filling"}, peer : Clients, verdict : Verdicts]
  BY <1>0, JobType DEF TInv
<1>2. /\ new.peer = x /\ new.verdict = job[t].verdict
      /\ job'[t] = new /\ \A u \in Threads \ {t} : job'[u] = job[u]
  BY <1>0, <1>1
<1>3. OneAtATime(d)'
  BY <1>0, OneAtATimeKept
<1>4. CASE d # x
  <2>1. sendbuf'[d] = sendbuf[d]
    BY <1>0, <1>4
  <2>2. \A u \in Threads : job'[u].peer = d => job'[u] = job[u]
    BY <1>2, <1>4
  <2> HIDE DEF x, new
  <2>3. AnswersFit(d)'
    BY <1>0, <2>1, <2>2, AnswersFitKept
  <2> QED BY <1>3, <2>3
<1>5. CASE d = x
  <2>1. t \in WorkersOf(d)
    BY <1>5 DEF WorkersOf
  <2>2. WorkersOf(d) = {t} /\ Places(done, d) = {}
    BY <2>1, OnePending
  <2>3. FilledToo(t) = {}
    BY <1>5, <2>2 DEF FilledToo, WorkersOf
  <2>4. sendbuf'[d] = "filling"
    BY <1>0, <1>5, <2>3
  <2>5. \A u \in WorkersOf(d)' : u = t
    <3>1. \A u \in Threads \ {t} : job'[u].peer = d => u \in WorkersOf(d)
      BY <1>2 DEF WorkersOf
    <3> QED BY <2>2, <3>1 DEF WorkersOf
  <2>6. job[t].verdict = Verdict(number[d])
    BY <2>1 DEF AnswersFit
  <2> HIDE DEF x, new
  <2>7. AnswersFit(d)'
    BY <1>0, <1>2, <2>2, <2>4, <2>5, <2>6 DEF AnswersFit, AnswerTo
  <2> QED BY <1>3, <2>7
<1> QED BY <1>4, <1>5

(* and leaves there what it has found.                                     *)
LEMMA SubmitKeeps ==
  ASSUME TInv, Running, NEW t \in Threads, Submit(t),
         NEW d \in Clients, OneAtATime(d), AnswersFit(d)
  PROVE  OneAtATime(d)' /\ AnswersFit(d)'
<1> DEFINE x == job[t].peer
<1>0. /\ job' = [job EXCEPT ![t] = Idle] /\ DOMAIN job = Threads /\ job[t].at = "filling"
      /\ sendbuf' = [sendbuf EXCEPT ![x] = IF @ = "racing" THEN @ ELSE job[t].verdict]
      /\ DOMAIN sendbuf = Clients /\ done \in Seq(Clients)
      /\ done' = Append(done, x)
      /\ UNCHANGED <<script, arrived, fin, taken, sent, reads, number>>
  BY DEF TInv, TypeOK, Submit, socketVars
<1>1. x \in Clients
  BY <1>0, JobType DEF TInv
<1>2. /\ job'[t].peer # d
      /\ job'[t] = Idle /\ \A u \in Threads \ {t} : job'[u] = job[u]
  BY <1>0, UvPrimeAssumption DEF Idle
<1>3. OneAtATime(d)'
  BY <1>0, OneAtATimeKept
<1>4. CASE d # x
  <2>1. sendbuf'[d] = sendbuf[d]
    BY <1>0, <1>4
  <2>2. \A u \in Threads : job'[u].peer = d => job'[u] = job[u]
    BY <1>2
  <2> HIDE DEF x
  <2>3. Places(done', d) = Places(done, d)
    BY <1>0, <1>1, <1>4, TimesAppend
  <2>4. AnswersFit(d)'
    BY <1>0, <2>1, <2>2, <2>3, AnswersFitKept
  <2> QED BY <1>3, <2>4
<1>5. CASE d = x
  <2>1. t \in WorkersOf(d)
    BY <1>5 DEF WorkersOf
  <2>2. WorkersOf(d) = {t}
    BY <2>1, OnePending
  <2>3. job[t].verdict = Verdict(number[d]) /\ sendbuf[d] = "filling"
    BY <1>0, <2>1 DEF AnswersFit
  <2>4. sendbuf'[d] = Verdict(number[d])
    BY <1>0, <1>5, <2>3
  <2>5. WorkersOf(d)' = {}
    <3>1. \A u \in Threads \ {t} : job'[u].peer = d => u \in WorkersOf(d)
      BY <1>2 DEF WorkersOf
    <3> QED BY <1>2, <2>2, <3>1 DEF WorkersOf
  <2> HIDE DEF x
  <2>6. AnswersFit(d)'
    BY <1>0, <2>4, <2>5 DEF AnswersFit, AnswerTo
  <2> QED BY <1>3, <2>6
<1> QED BY <1>4, <1>5

(* which the loop sends.                                                   *)
LEMMA CompletedKeeps ==
  ASSUME TInv, Running, Running', on_work_completed,
         NEW d \in Clients, OneAtATime(d), AnswersFit(d)
  PROVE  OneAtATime(d)' /\ AnswersFit(d)'
<1> DEFINE x == Head(done)
<1>0. /\ done # << >> /\ done \in Seq(Clients) /\ done' = Tail(done)
      /\ uv_write(x, sendbuf[x])
      /\ UNCHANGED <<script, arrived, fin, taken, reads, number, sendbuf, job>>
      /\ SocketsTypeOK /\ sent[d] \in Seq(Byte) /\ Len(sent[d]) \in Nat
  BY TFacts DEF on_work_completed, peerVars
<1>1. Places(done', d) # {} => Places(done, d) # {}
  BY <1>0, TimesTail
<1>2. x \in Clients
  BY <1>0, TimesTail
<1>3. CASE d # x
  <2> HIDE DEF x
  <2>1. sent'[d] = sent[d]
    BY <1>0, <1>2, <1>3, WriteCases
  <2>2. OneAtATime(d)'
    BY <1>0, <2>1, OneAtATimeKept
  <2>3. AnswersFit(d)'
    BY <1>0, <1>1, <1>2, <2>1, AnswersFitKept
  <2> QED BY <2>2, <2>3
<1>4. CASE d = x
  <2>1. Pending(d) = 1 /\ Places(done, d) # {} /\ reads[d] = Len(sent[d]) + 1
    BY <1>0, <1>4, OnePending
  <2>2. sendbuf[d] = Verdict(number[d]) /\ number[d] = Asked(script[d], reads[d]) % Width
    BY <1>0, <2>1 DEF AnswersFit
  <2>3. Text(sendbuf[d]) = Text(AnswerTo(script[d], Len(sent[d]) + 1))
    BY <2>1, <2>2 DEF AnswerTo
  <2> HIDE DEF x
  <2>4. fate' # "exited"
    BY DEF Running
  <2>5. sent'[d] = Append(sent[d], Text(sendbuf[d]))
    BY <1>0, <1>2, <1>4, <2>4, WriteCases
  <2>6. \A k \in 1..Len(sent[d]) : sent[d][k] = Text(AnswerTo(script[d], k))
    BY DEF AnswersFit
  <2> DEFINE longer == Append(sent[d], Text(sendbuf[d]))
  <2>7. Text(sendbuf[d]) \in Byte
    BY TextType
  <2>8. \A k \in 1..Len(longer) : longer[k] = Text(AnswerTo(script[d], k))
    BY <1>0, <2>3, <2>6, <2>7, AnswerAppended
  <2>9. Len(longer) = Len(sent[d]) + 1
    BY <1>0, <2>7
  <2> HIDE DEF longer
  <2>10. Len(sent'[d]) = reads[d]
    BY <2>1, <2>5, <2>9, Zenon DEF longer
  <2>11. \A k \in 1..Len(sent'[d]) : sent'[d][k] = Text(AnswerTo(script[d], k))
    BY <2>5, <2>8, Zenon DEF longer
  <2>12. OneAtATime(d)'
    <3>1. ~ (taken[d] < arrived[d]) /\ fin[d] # "fin"
      BY <1>0, <2>1 DEF OneAtATime
    <3> QED BY <1>0, <2>10, <3>1 DEF OneAtATime
  <2>13. AnswersFit(d)'
    <3>1. WorkersOf(d)' = WorkersOf(d)
      BY <1>0, PendingNext
    <3>2. ~ (reads[d] > Len(sent'[d]))
      BY <1>0, <2>1, <2>10
    <3> QED BY <1>0, <2>2, <2>11, <3>1, <3>2 DEF AnswersFit, AnswerTo
  <2> QED BY <2>12, <2>13
<1> QED BY <1>3, <1>4

LEMMA InitPInv == Init => PInv
<1> SUFFICES ASSUME Init PROVE PInv
  OBVIOUS
<1>0. TInv
  BY InitTInv
<1>1. Running /\ polite \subseteq Clients
  BY UvPrimeAssumption DEF Init, Running
<1>2. ASSUME NEW c \in polite PROVE OneAtATime(c) /\ AnswersFit(c)
  <2>1. /\ c \in Clients /\ arrived[c] = 0 /\ taken[c] = 0 /\ fin[c] = "no"
        /\ reads[c] = 0 /\ sent[c] = << >> /\ Len(sent[c]) = 0
    BY <1>1, <1>2 DEF Init, SocketsInit
  <2>2. script[c] \in Seq(Byte)
    BY <1>0, <2>1, TFacts
  <2>3. {d \in Ends(script[c]) : d <= 0} = {} /\ \A e \in Ends(script[c]) : e \in Nat /\ e > 0
    BY <2>2, EndsPlace
  <2>4. EndsUpTo(script[c], 0) = 0
    BY <2>3, FS_EmptySet DEF EndsUpTo
  <2>5. OneAtATime(c)
    BY <2>1, <2>3, <2>4, UvPrimeAssumption DEF OneAtATime
  <2>6. WorkersOf(c) = {} /\ Places(done, c) = {}
    BY <1>0, <1>1, <2>1, NothingPending
  <2>7. AnswersFit(c)
    BY <2>1, <2>6 DEF AnswersFit
  <2> QED BY <2>5, <2>7
<1>3. SentIsRight
  BY <1>2 DEF SentIsRight, AnswersFit
<1> QED BY <1>1, <1>2, <1>3 DEF PInv, FailsOnlyForLeavers

(* A polite client whose connection is closed has no work anywhere.        *)
LEMMA ClosedAreDone ==
  ASSUME TInv, Running, NEW c \in Clients, OneAtATime(c), link[c] = "closed"
  PROVE  reads[c] = Len(sent[c])
<1>1. fin[c] \in {"no", "fin", "rst"} /\ fin[c] # "no"
  BY TFacts DEF TInv, ClosedHaveLeft
<1> QED BY <1>1 DEF OneAtATime

(* The server never ends because of a polite client.                       *)
LEMMA WriteBlames ==
  ASSUME TInv, Running, NEW c \in Clients, link[c] = "closed" \/ fin[c] = "rst",
         c \in polite => OneAtATime(c) /\ reads[c] # Len(sent[c])
  PROVE  c \notin polite /\ fin[c] # "no"
<1>1. ASSUME c \in polite PROVE FALSE
  BY <1>1, ClosedAreDone DEF OneAtATime
<1>2. fin[c] # "no"
  BY DEF TInv, ClosedHaveLeft
<1> QED BY <1>1, <1>2

(* When the server ends in a step, somebody else has left: its clients are *)
(* as they were.                                                           *)
LEMMA EndBlames ==
  ASSUME TInv, PInv, Running, Server, ~ Running'
  PROVE  \E c \in Clients \ polite : fin[c] # "no"
<1>0. /\ polite \subseteq Clients
      /\ \A c \in Clients : c \in polite => OneAtATime(c)
  BY UvPrimeAssumption DEF TInv, TypeOK, PInv
<1>1. ASSUME NEW c \in Clients, on_peer_connected(c)
      PROVE  c \notin polite /\ fin[c] # "no"
  <2>1. fin[c] = "rst"
    BY <1>1 DEF on_peer_connected, Running
  <2> QED BY <1>0, <2>1 DEF OneAtATime
<1>2. ASSUME NEW c \in Clients, on_peer_read(c)
      PROVE  c \notin polite /\ fin[c] # "no"
  <2>1. PICK bytes \in Seq(Byte) : Request(c, bytes) /\ link[c] = "open"
    <3>1. SocketsTypeOK /\ link[c] = "open"
      BY <1>2, TFacts DEF on_peer_read
    <3>2. ~ UNCHANGED fate
      BY DEF Running
    <3> QED BY <1>2, <3>1, <3>2, ReadCases
  <2>2. fin[c] = "rst"
    BY <2>1 DEF Request, uv_write, Running
  <2> QED BY <1>0, <2>2 DEF OneAtATime
<1>3. ASSUME on_work_completed
      PROVE  Head(done) \in Clients \ polite /\ fin[Head(done)] # "no"
  <2> DEFINE x == Head(done)
  <2>1. done # << >> /\ uv_write(x, sendbuf[x]) /\ done \in Seq(Clients)
    BY <1>3, TFacts DEF on_work_completed
  <2>2. x \in Clients
    BY <2>1, TimesTail
  <2>3. reads[x] # Len(sent[x])
    BY <2>1, <2>2, NothingPending
  <2> HIDE DEF x
  <2>4. link[x] = "closed" \/ fin[x] = "rst"
    BY <2>1 DEF uv_write, Running
  <2>5. x \notin polite /\ fin[x] # "no"
    BY <1>0, <2>2, <2>3, <2>4, WriteBlames
  <2> QED BY <2>2, <2>5 DEF x
<1>4. ASSUME UseAfterFree
      PROVE  \E c \in Clients \ polite : fin[c] # "no"
  <2>1. PICK c \in freed :
          \/ queue # << >> /\ Head(queue) = c /\ \E t \in Threads : job[t] = Idle
          \/ \E t \in Threads : job[t].peer = c
          \/ done # << >> /\ Head(done) = c
    BY <1>4 DEF UseAfterFree
  <2>2. c \in Clients /\ link[c] = "closed"
    BY DEF TInv, TypeOK
  <2>3. reads[c] # Len(sent[c])
    BY <2>1, <2>2, NothingPending
  <2>4. c \notin polite /\ fin[c] # "no"
    BY <1>0, <2>2, <2>3, WriteBlames
  <2> QED BY <2>2, <2>4
<1>5. ASSUME NEW c \in Clients, on_client_closed(c) PROVE FALSE
  BY <1>5 DEF on_client_closed, Running
<1>6. ASSUME NEW t \in Threads, Work(t) PROVE FALSE
  BY <1>6 DEF Work, Compute, Fill, Submit, Running
<1> QED BY <1>1, <1>2, <1>3, <1>4, <1>5, <1>6 DEF Server, Handle

(* A step of the server leaves what the clients do alone.                  *)
LEMMA ServerMoves ==
  ASSUME TInv, Server
  PROVE  /\ Running /\ UNCHANGED <<script, arrived, fin, polite>>
<1>1. ASSUME NEW c \in Clients, Handle(c)
      PROVE  Running /\ UNCHANGED <<script, arrived, fin, polite>>
  BY <1>1 DEF Handle, on_peer_connected, on_peer_read, on_client_closed, socketVars
<1>2. ASSUME NEW t \in Threads, Work(t)
      PROVE  Running /\ UNCHANGED <<script, arrived, fin, polite>>
  BY <1>2 DEF Work, Compute, Fill, Submit, socketVars
<1>3. CASE on_work_completed
  BY <1>3 DEF on_work_completed
<1>4. CASE UseAfterFree
  BY <1>4 DEF UseAfterFree, socketVars
<1> QED BY <1>1, <1>2, <1>3, <1>4 DEF Server

(* While it runs, it serves them.                                          *)
LEMMA ServerKeeps ==
  ASSUME TInv, Server, Running', NEW d \in Clients, OneAtATime(d), AnswersFit(d)
  PROVE  OneAtATime(d)' /\ AnswersFit(d)'
<1>0. Running
  BY ServerMoves
<1>1. ASSUME UNCHANGED <<script, arrived, fin, taken, sent, reads, number, sendbuf, job, done>>
      PROVE  OneAtATime(d)' /\ AnswersFit(d)'
  <2>1. OneAtATime(d)'
    BY <1>1, OneAtATimeKept
  <2>2. AnswersFit(d)'
    BY <1>1, AnswersFitKept
  <2> QED BY <2>1, <2>2
<1>2. ASSUME NEW c \in Clients, on_peer_connected(c)
      PROVE  OneAtATime(d)' /\ AnswersFit(d)'
  BY <1>1, <1>2 DEF on_peer_connected, peerVars, workVars
<1>3. ASSUME NEW c \in Clients, on_client_closed(c)
      PROVE  OneAtATime(d)' /\ AnswersFit(d)'
  BY <1>1, <1>3 DEF on_client_closed, socketVars, workVars
<1>4. ASSUME NEW c \in Clients, on_peer_read(c)
      PROVE  OneAtATime(d)' /\ AnswersFit(d)'
  <2>1. link[c] = "open" /\ UNCHANGED <<script, arrived, fin>> /\ SocketsTypeOK
    BY <1>4, TFacts DEF on_peer_read
  <2>2. ASSUME NEW bytes \in Seq(Byte), bytes # << >>, taken[c] + Len(bytes) <= arrived[c],
               ReadsAll(c, bytes), Request(c, bytes), UNCHANGED link
        PROVE  OneAtATime(d)' /\ AnswersFit(d)'
    BY <1>0, <2>1, <2>2, RequestKeeps
  <2>3. CASE UNCHANGED <<taken, sent, fate, number, sendbuf, reads, workVars>>
    BY <1>1, <2>1, <2>3 DEF workVars
  <2> QED BY <1>4, <2>1, <2>2, <2>3, ReadCases
<1>5. ASSUME NEW t \in Threads, Work(t)
      PROVE  OneAtATime(d)' /\ AnswersFit(d)'
  BY <1>0, <1>5, ComputeKeeps, FillKeeps, SubmitKeeps DEF Work
<1>6. CASE on_work_completed
  BY <1>0, <1>6, CompletedKeeps
<1>7. ~ UseAfterFree
  BY DEF UseAfterFree, Running
<1> QED BY <1>2, <1>3, <1>4, <1>5, <1>6, <1>7 DEF Server, Handle

(* The step in which it ends answers nothing.                              *)
LEMMA EndIsSilent ==
  ASSUME TInv, Server, ~ Running'
  PROVE  UNCHANGED sent
<1>0. Running
  BY ServerMoves
<1>1. ASSUME NEW c \in Clients, Handle(c) PROVE UNCHANGED sent
  <2>1. CASE on_peer_connected(c) \/ on_client_closed(c)
    BY <2>1 DEF on_peer_connected, on_client_closed, socketVars
  <2>2. CASE on_peer_read(c)
    <3>1. ASSUME NEW bytes, Request(c, bytes) PROVE UNCHANGED sent
      BY <1>0, <3>1 DEF Request, uv_write, Running
    <3> QED BY <2>2, <3>1 DEF on_peer_read
  <2> QED BY <1>1, <2>1, <2>2 DEF Handle
<1>2. ASSUME NEW t \in Threads, Work(t) PROVE UNCHANGED sent
  BY <1>2 DEF Work, Compute, Fill, Submit, socketVars
<1>3. CASE on_work_completed
  BY <1>0, <1>3 DEF on_work_completed, uv_write, Running
<1>4. CASE UseAfterFree
  BY <1>4 DEF UseAfterFree, socketVars
<1> QED BY <1>1, <1>2, <1>3, <1>4 DEF Server

LEMMA NextPInv ==
  ASSUME RequestsFit
  PROVE  TInv /\ PInv /\ [Next]_vars => PInv'
<1> SUFFICES ASSUME TInv, PInv, [Next]_vars PROVE PInv'
  OBVIOUS
<1>0. polite \subseteq Clients
  BY UvPrimeAssumption DEF TInv, TypeOK
<1>1. ASSUME NEW c \in Clients, Client(c) PROVE PInv'
  <2>1. /\ UNCHANGED <<script, sent, fate, polite>>
        /\ Running /\ Running'
    BY <1>1, ClientMoves, TFacts DEF Client, Running, serverVars
  <2>2. \A d \in polite' : OneAtATime(d)' /\ AnswersFit(d)'
    <3>1. ASSUME NEW d \in Clients, d \in polite PROVE OneAtATime(d)' /\ AnswersFit(d)'
      BY <1>1, <2>1, <3>1, ClientKeeps DEF PInv
    <3> QED BY <1>0, <2>1, <3>1
  <2>3. SentIsRight'
    BY <2>2 DEF SentIsRight, AnswersFit
  <2> QED BY <2>1, <2>2, <2>3 DEF PInv, FailsOnlyForLeavers
<1>2. CASE Server
  <2>1. Running /\ UNCHANGED <<script, arrived, fin, polite>>
    BY <1>2, ServerMoves
  <2>2. CASE Running'
    <3>1. ASSUME NEW d \in Clients, d \in polite PROVE OneAtATime(d)' /\ AnswersFit(d)'
      BY <1>2, <2>1, <2>2, <3>1, ServerKeeps DEF PInv
    <3>2. \A d \in polite' : OneAtATime(d)' /\ AnswersFit(d)'
      BY <1>0, <2>1, <3>1
    <3>3. SentIsRight'
      BY <3>2 DEF SentIsRight, AnswersFit
    <3> QED BY <2>2, <3>2, <3>3 DEF PInv, FailsOnlyForLeavers
  <2>3. CASE ~ Running'
    <3>1. \E c \in Clients \ polite : fin[c] # "no"
      BY <1>2, <2>1, <2>3, EndBlames
    <3>2. UNCHANGED sent
      BY <1>2, <2>3, EndIsSilent
    <3>3. SentIsRight'
      BY <2>1, <3>2 DEF PInv, SentIsRight, AnswerTo
    <3>4. FailsOnlyForLeavers'
      BY <2>1, <3>1 DEF FailsOnlyForLeavers
    <3> QED BY <2>3, <3>3, <3>4 DEF PInv
  <2> QED BY <2>2, <2>3
<1>3. CASE UNCHANGED vars
  <2> USE DEF vars, socketVars, serverVars, peerVars, workVars
  <2>1. SentIsRight'
    BY <1>3 DEF PInv, SentIsRight, AnswerTo
  <2>2. FailsOnlyForLeavers'
    BY <1>3 DEF PInv, FailsOnlyForLeavers, Running
  <2>3. ASSUME Running', NEW d \in polite' PROVE OneAtATime(d)' /\ AnswersFit(d)'
    <3>1. OneAtATime(d) /\ AnswersFit(d)
      BY <1>3, <2>3 DEF PInv, Running
    <3>2. UNCHANGED <<script, arrived, fin, taken, sent, reads, number, sendbuf, job, done>>
      BY <1>3
    <3> QED BY <3>1, <3>2, OneAtATimeKept, AnswersFitKept
  <2> QED BY <2>1, <2>2, <2>3 DEF PInv
<1> QED BY <1>1, <1>2, <1>3 DEF Next

LEMMA PoliteSafe ==
  ASSUME RequestsFit
  PROVE  Spec => []PInv
BY InitPInv, NextPInv, Invariance, PTL DEF Spec

(* Polite clients, each of whose requests fits in a read, never make the   *)
(* server exit, nor have it use freed memory: only one that has left       *)
(* without waiting for its answers can.                                    *)
THEOREM FailuresHaveLeavers ==
  ASSUME RequestsFit
  PROVE  Spec => []FailsOnlyForLeavers
<1>1. PInv => FailsOnlyForLeavers
  BY DEF PInv
<1> QED BY <1>1, PoliteSafe, PTL

-----------------------------------------------------------------------------
(* The test of primality is exact.                                         *)

(* A divisor goes into a number a whole number of times.                   *)
LEMMA Divides ==
  ASSUME NEW n \in Nat, NEW d \in Nat, d > 0
  PROVE  n \div d \in Nat /\ (n % d = 0 => n = d * (n \div d))
OBVIOUS

(* A product is divided by its factors.                                    *)
LEMMA ProductDivides ==
  ASSUME NEW d \in Nat, NEW e \in Nat
  PROVE  d > 0 => (d * e) % d = 0
OBVIOUS

(* Products grow with their factors.                                       *)
LEMMA Monotone ==
  ASSUME NEW a \in Nat, NEW b \in Nat, NEW c \in Nat
  PROVE  /\ a * c \in Nat /\ b * c \in Nat /\ a * c = c * a
         /\ a <= b => a * c <= b * c
         /\ a < b /\ c > 0 => a * c < b * c
OBVIOUS

(* An odd number has no even divisors.                                     *)
LEMMA OddDivisors ==
  ASSUME NEW d \in Nat, NEW e \in Nat, (d * e) % 2 # 0
  PROVE  d % 2 = 1
<1> SUFFICES ASSUME d % 2 # 1 PROVE FALSE
  OBVIOUS
<1>1. d % 2 = 0
  OBVIOUS
<1>2. PICK h \in Nat : d = 2 * h
  BY <1>1, Divides
<1>3. h * e \in Nat /\ d * e = 2 * (h * e)
  BY <1>2
<1>4. (2 * (h * e)) % 2 = 0
  BY <1>3, ProductDivides
<1> QED BY <1>3, <1>4

(* A composite number has a divisor whose square is not larger.            *)
LEMMA SmallDivisor ==
  ASSUME NEW n \in Nat, NEW d \in 2..(n - 1), n % d = 0
  PROVE  \E b \in 2..(n - 1) : \E e \in Nat : n = b * e /\ b * b <= n
<1> DEFINE e == n \div d
<1>1. e \in Nat /\ n = d * e /\ d \in Nat /\ d >= 2 /\ d < n
  BY Divides
<1> HIDE DEF e
<1>2. CASE d <= e
  <2>1. d * d <= e * d /\ e * d = d * e
    BY <1>1, <1>2, Monotone
  <2> QED BY <1>1, <2>1
<1>3. CASE e < d
  <2>1. e * e <= d * e /\ e * e \in Nat
    BY <1>1, <1>3, Monotone
  <2>2. e # 0 /\ e # 1
    BY <1>1
  <2>3. e >= 2 /\ e < n /\ n = e * d
    BY <1>1, <1>3, <2>2
  <2> QED BY <1>1, <2>1, <2>3
<1> QED BY <1>1, <1>2, <1>3

(* A set of numbers has a least.                                           *)
LEMMA LeastStop ==
  ASSUME NEW S \in SUBSET Nat, S # {}
  PROVE  \E r \in S : \A q \in S : r <= q
<1>1. PICK r \in S : \A q \in S : ~ (<< q, r >> \in NatLess)
  BY NatLessWellFounded, WFMin
<1>2. \A q \in S : ~ (q < r)
  BY <1>1 DEF NatLess
<1> QED BY <1>2

(* For every width of the arithmetic, isprime() tells the primes among the *)
(* numbers up to the square of the largest odd number whose square does    *)
(* not wrap around, although it tries odd divisors only, and no more of    *)
(* them than the square root.                                              *)
THEOREM PrimalityExact ==
  ASSUME NEW n \in Exact
  PROVE  isprime(n) <=> Prime(n)
<1>0. /\ n \in Nat /\ n >= 2 /\ n < (Root - 1) * (Root - 1)
      /\ Root \in Nat /\ Root >= 4 /\ Root % 2 = 0
      /\ (Root - 1) * (Root - 1) \in Nat /\ Root * Root \in Nat
  BY RootAssumption DEF Exact
<1>1. CASE n % 2 = 0
  <2>1. isprime(n) <=> n = 2
    BY <1>1 DEF isprime
  <2>2. CASE n = 2
    BY <2>1, <2>2 DEF Prime
  <2>3. CASE n # 2
    <3>1. 2 \in 2..(n - 1)
      BY <1>0, <2>3
    <3> QED BY <1>1, <2>1, <2>3, <3>1 DEF Prime
  <2> QED BY <2>2, <2>3
<1>2. CASE n % 2 # 0
  <2> DEFINE stops == {r \in 3..(n + 2) : r % 2 = 1 /\ ((r * r) % Width > n \/ n % r = 0)}
             last == CHOOSE r \in stops : \A q \in stops : r <= q
             big == Root - 1
  <2>1. n % 2 = 1 /\ n >= 3
    BY <1>0, <1>2
  <2>2. n \in stops
    BY <1>0, <2>1
  <2>3. last \in stops /\ \A q \in stops : last <= q
    <3>1. stops \in SUBSET Nat /\ stops # {}
      BY <1>0, <2>2
    <3>2. \E r \in stops : \A q \in stops : r <= q
      BY <3>1, LeastStop
    <3> HIDE DEF stops
    <3> QED BY <3>2
  <2>4. last \in Nat /\ last >= 3 /\ last <= n
    BY <1>0, <2>2, <2>3
  <2>5. big \in Nat /\ big >= 3 /\ big % 2 = 1
    BY <1>0
  <2>6. /\ big * big < Width /\ big * big \in Nat /\ Width \in Nat
        /\ (big * big) % Width = big * big
    BY <1>0 DEF Width
  <2>7. last <= big
    <3>1. CASE big <= n + 2
      <4>1. big \in stops
        BY <1>0, <2>5, <2>6, <3>1
      <4> QED BY <2>3, <4>1
    <3>2. CASE ~ (big <= n + 2)
      BY <1>0, <2>4, <2>5, <3>2
    <3> QED BY <3>1, <3>2
  <2>8. (last * last) % Width = last * last /\ last * last \in Nat
    <3> HIDE DEF last, big
    <3>1. last * last <= big * last /\ big * last <= big * big /\ big * last = last * big
      BY <2>4, <2>5, <2>7, Monotone
    <3>2. last * last < Width /\ last * last \in Nat
      BY <2>4, <2>5, <2>6, <3>1
    <3>3. \A m \in Nat : m < Width => m % Width = m
      BY <2>6
    <3> QED BY <3>2, <3>3
  <2>9. isprime(n) <=> last * last > n
    BY <1>2, <2>8 DEF isprime
  <2> HIDE DEF last, big
  <2>10. ASSUME Prime(n) PROVE last * last > n
    <3>1. last * last > n \/ n % last = 0
      BY <2>3, <2>8
    <3>2. ASSUME n % last = 0 PROVE last * last > n
      <4>1. last = n
        BY <1>0, <2>4, <2>10, <3>2 DEF Prime
      <4> QED BY <1>0, <2>4, <4>1
    <3> QED BY <3>1, <3>2
  <2>11. ASSUME last * last > n PROVE Prime(n)
    <3>0. (\A d \in 2..(n - 1) : n % d # 0) => Prime(n)
      BY <1>0 DEF Prime
    <3>1. SUFFICES ASSUME NEW d \in 2..(n - 1), n % d = 0 PROVE FALSE
      BY <3>0, Zenon
    <3>2. PICK b \in 2..(n - 1) : \E e \in Nat : n = b * e /\ b * b <= n
      BY <1>0, <3>1, SmallDivisor
    <3>3. PICK e \in Nat : n = b * e
      BY <3>2
    <3>4. b % 2 = 1 /\ n % b = 0 /\ b \in Nat /\ b >= 3
      <4>1. b \in Nat /\ b >= 2 /\ (b * e) % 2 # 0
        BY <1>0, <1>2, <3>3
      <4>2. b % 2 = 1
        BY <4>1, OddDivisors
      <4>3. b > 0 => (b * e) % b = 0
        BY <4>1, ProductDivides, Zenon
      <4> QED BY <3>3, <4>1, <4>2, <4>3
    <3>5. b \in stops
      BY <1>0, <3>4
    <3>6. last <= b
      BY <2>3, <3>5
    <3>7. last * last <= b * last /\ b * last <= b * b /\ b * last = last * b
      BY <2>4, <3>4, <3>6, Monotone
    <3>8. b * b \in Nat /\ b * b <= n
      BY <3>2, <3>4
    <3> QED BY <1>0, <2>4, <2>8, <2>11, <3>4, <3>7, <3>8
  <2> QED BY <2>9, <2>10, <2>11
<1> QED BY <1>0, <1>1, <1>2

-----------------------------------------------------------------------------
(* The k-th answer a polite client gets is the right one to its k-th       *)
(* request, however many other clients there are and however they behave,  *)
(* in whatever order the threads work: number and sendbuf are still those  *)
(* of the request when the work is done and when it is answered.           *)
THEOREM AnswersRight ==
  ASSUME RequestsFit
  PROVE  Spec => []AnswersAreRight
<1>1. ASSUME PInv PROVE AnswersAreRight
  <2>1. SUFFICES ASSUME NEW c \in polite, NEW k \in 1..Len(sent[c]),
                        Asked(script[c], k) \in Exact
                 PROVE  sent[c][k] = IF Prime(Asked(script[c], k)) THEN PRIME ELSE COMPOSITE
    BY Zenon DEF AnswersAreRight
  <2> DEFINE n == Asked(script[c], k)
  <2>2. n \in Exact /\ sent[c][k] = Text(Verdict(n % Width))
    BY <1>1, <2>1 DEF PInv, SentIsRight, AnswerTo
  <2> HIDE DEF n
  <2>3. n % Width = n
    <3>1. /\ Root \in Nat /\ Root >= 4 /\ (Root - 1) * (Root - 1) \in Nat /\ Root * Root \in Nat
          /\ (Root - 1) * (Root - 1) < Root * Root
      BY RootAssumption
    <3>2. n \in Nat /\ n < Width /\ Width \in Nat
      BY <2>2, <3>1 DEF Exact, Width
    <3> QED BY <3>2
  <2>4. isprime(n) <=> Prime(n)
    BY <2>2, PrimalityExact
  <2>5. sent[c][k] = Text(Verdict(n))
    BY <2>2, <2>3
  <2>6. sent[c][k] = IF Prime(n) THEN PRIME ELSE COMPOSITE
    BY <2>4, <2>5 DEF Verdict, Text
  <2> QED BY <2>6 DEF n
<1> QED BY <1>1, PoliteSafe, PTL

(***************************************************************************)
(* The file counter.                                                       *)
(***************************************************************************)

(* Sum adds up what f is on a set, element by element, in the order that   *)
(* CHOOSE takes them: g is what it computes on the subsets of S that have  *)
(* no more than n elements.                                                *)
AnyOf(s) == CHOOSE x \in s : TRUE
NoLarger(S, n) == {s \in SUBSET S : Cardinality(s) <= n}
SumStep(g, f, s) == IF s = {} THEN 0 ELSE f[AnyOf(s)] + g[s \ {AnyOf(s)}]
IsSums(g, f, sets) == g = [s \in sets |-> SumStep(g, f, s)]

SumsUp(g, f, S) == IsSums(g, f, SUBSET S)

(* Taking the chosen element out of a finite set leaves one that is smaller*)
LEMMA OneLess ==
  ASSUME NEW S, IsFiniteSet(S), NEW s \in SUBSET S, s # {}
  PROVE  /\ IsFiniteSet(s) /\ Cardinality(s) \in Nat \ {0} /\ AnyOf(s) \in s
         /\ s \ {AnyOf(s)} \in SUBSET S
         /\ Cardinality(s \ {AnyOf(s)}) = Cardinality(s) - 1
<1>1. IsFiniteSet(s) /\ AnyOf(s) \in s
  BY FS_Subset DEF AnyOf
<1>2. Cardinality(s) \in Nat /\ Cardinality(s) # 0
  BY <1>1, FS_EmptySet, FS_CardinalityType
<1>3. Cardinality(s \ {AnyOf(s)}) = Cardinality(s) - 1
  BY <1>1, FS_RemoveElement
<1> QED BY <1>1, <1>2, <1>3

(* It computes something on all the subsets of a finite set.               *)
LEMMA SumsExist ==
  ASSUME NEW f, NEW S, IsFiniteSet(S)
  PROVE  \E g : IsSums(g, f, SUBSET S)
<1> DEFINE Q == {n \in Nat : \E g : IsSums(g, f, NoLarger(S, n))}
           N == Cardinality(S)
<1>1. N \in Nat
  BY FS_CardinalityType
<1>2. 0 \in Q
  <2> DEFINE g == [s \in NoLarger(S, 0) |-> 0]
  <2>1. ASSUME NEW s \in NoLarger(S, 0) PROVE s = {}
    BY <2>1, FS_Subset, FS_EmptySet, FS_CardinalityType DEF NoLarger
  <2>2. g = [s \in NoLarger(S, 0) |-> SumStep(g, f, s)]
    BY <2>1 DEF SumStep
  <2> HIDE DEF g
  <2> QED BY <2>2 DEF IsSums
<1>3. ASSUME NEW n \in 0..(N - 1), n \in Q PROVE n + 1 \in Q
  <2>1. PICK g : IsSums(g, f, NoLarger(S, n))
    BY <1>3
  <2> DEFINE h == [s \in NoLarger(S, n + 1) |-> SumStep(g, f, s)]
  <2>2. n \in Nat
    OBVIOUS
  <2>3. ASSUME NEW s \in NoLarger(S, n + 1) PROVE SumStep(g, f, s) = SumStep(h, f, s)
    <3>1. CASE s = {}
      BY <3>1 DEF SumStep
    <3>2. CASE s # {}
      <4> DEFINE t == s \ {AnyOf(s)}
      <4>1. t \in NoLarger(S, n) /\ t \in NoLarger(S, n + 1)
        BY <2>2, <3>2, OneLess DEF NoLarger
      <4>2. g[t] = SumStep(g, f, t)
        BY <2>1, <4>1, Zenon DEF IsSums
      <4>3. h[t] = SumStep(g, f, t)
        BY <4>1
      <4> QED BY <3>2, <4>2, <4>3, Zenon DEF SumStep
    <3> QED BY <3>1, <3>2
  <2>4. h = [s \in NoLarger(S, n + 1) |-> SumStep(h, f, s)]
    <3>1. h = [s \in NoLarger(S, n + 1) |-> SumStep(g, f, s)]
      OBVIOUS
    <3> HIDE DEF h
    <3> QED BY <2>3, <3>1
  <2> HIDE DEF h
  <2> QED BY <2>2, <2>4 DEF IsSums
<1> HIDE DEF Q
<1>4. N \in Q
  BY <1>1, <1>2, <1>3, UpTo
<1>5. NoLarger(S, N) = SUBSET S
  BY <1>1, FS_Subset DEF NoLarger
<1> QED BY <1>4, <1>5 DEF Q

(* It is the same whatever set a set is thought of as a subset of.         *)
LEMMA SumsAgree ==
  ASSUME NEW f, NEW S, IsFiniteSet(S), NEW T, T \subseteq S,
         NEW g, SumsUp(g, f, S), NEW h, SumsUp(h, f, T)
  PROVE  g[T] = h[T]
<1> DEFINE Q == {n \in Nat : \A s \in SUBSET T : Cardinality(s) = n => g[s] = h[s]}
<1>1. IsFiniteSet(T) /\ Cardinality(T) \in Nat
  BY FS_Subset, FS_CardinalityType
<1>2. ASSUME NEW s \in SUBSET T
      PROVE  g[s] = SumStep(g, f, s) /\ h[s] = SumStep(h, f, s)
  <2>1. s \in SUBSET S
    OBVIOUS
  <2> QED BY <2>1, Zenon DEF SumsUp, IsSums
<1>3. 0 \in Q
  <2>1. ASSUME NEW s \in SUBSET T, Cardinality(s) = 0 PROVE g[s] = h[s]
    <3>1. s = {}
      BY <1>1, <2>1, FS_Subset, FS_EmptySet
    <3> QED BY <1>2, <3>1 DEF SumStep
  <2> QED BY <2>1
<1>4. ASSUME NEW n \in 0..(Cardinality(T) - 1), n \in Q PROVE n + 1 \in Q
  <2>1. ASSUME NEW s \in SUBSET T, Cardinality(s) = n + 1 PROVE g[s] = h[s]
    <3> DEFINE t == s \ {AnyOf(s)}
    <3>1. s # {}
      <4>1. n + 1 # 0 /\ Cardinality({}) = 0
        BY FS_EmptySet
      <4> QED BY <2>1, <4>1
    <3>2. t \in SUBSET T /\ Cardinality(t) = n
      BY <1>1, <2>1, <3>1, OneLess
    <3>3. g[t] = h[t]
      BY <1>4, <3>2
    <3> QED BY <1>2, <3>1, <3>3, Zenon DEF SumStep
  <2> QED BY <2>1
<1> HIDE DEF Q
<1>5. Cardinality(T) \in Q
  BY <1>1, <1>3, <1>4, UpTo
<1> QED BY <1>5 DEF Q

(* The sum is what was chosen first and the sum of the others.             *)
LEMMA SumOfChosen ==
  ASSUME NEW f, NEW S, IsFiniteSet(S)
  PROVE  /\ S = {} => Sum(f, S) = 0
         /\ S # {} => Sum(f, S) = f[AnyOf(S)] + Sum(f, S \ {AnyOf(S)})
<1> DEFINE Sums(T) == CHOOSE g : IsSums(g, f, SUBSET T)
<1>1. \A T : Sum(f, T) = Sums(T)[T]
  BY DEF Sum, MapThenSumSet, MapThenFoldSet, IsSums, SumStep, AnyOf
<1>2. \A T \in SUBSET S : IsSums(Sums(T), f, SUBSET T)
  BY SumsExist, FS_Subset
<1> HIDE DEF Sums
<1>3. Sums(S)[S] = SumStep(Sums(S), f, S)
  <2>1. S \in SUBSET S /\ IsSums(Sums(S), f, SUBSET S)
    BY <1>2
  <2> QED BY <2>1, Zenon DEF IsSums
<1>4. ASSUME S # {} PROVE Sums(S)[S \ {AnyOf(S)}] = Sums(S \ {AnyOf(S)})[S \ {AnyOf(S)}]
  <2>1. S \ {AnyOf(S)} \in SUBSET S /\ S \in SUBSET S
    OBVIOUS
  <2>2. PICK T \in SUBSET S : T = S \ {AnyOf(S)}
    BY <2>1
  <2>3. PICK g : g = Sums(S)
    OBVIOUS
  <2>4. PICK h : h = Sums(T)
    OBVIOUS
  <2>5. SumsUp(g, f, S) /\ SumsUp(h, f, T) /\ T \subseteq S
    BY <1>2, <2>1, <2>3, <2>4 DEF SumsUp
  <2>6. g[T] = h[T]
    BY <2>5, SumsAgree
  <2> QED BY <2>2, <2>3, <2>4, <2>6
<1> QED BY <1>1, <1>3, <1>4, Zenon DEF SumStep

(* The sum of integers is one, and of naturals; each element counts once,  *)
(* in whatever order.                                                      *)
LEMMA SumType ==
  ASSUME NEW f, NEW S, IsFiniteSet(S), NEW V \in {Nat, Int}, \A x \in S : f[x] \in V
  PROVE  Sum(f, S) \in V
<1> DEFINE Q == {n \in Nat : \A s \in SUBSET S : Cardinality(s) = n => Sum(f, s) \in V}
           N == Cardinality(S)
<1>1. N \in Nat
  BY FS_CardinalityType
<1>2. 0 \in V /\ \A x, y \in V : x + y \in V
  OBVIOUS
<1>3. 0 \in Q
  <2>1. ASSUME NEW s \in SUBSET S, Cardinality(s) = 0 PROVE Sum(f, s) \in V
    <3>1. s = {} /\ IsFiniteSet(s)
      BY <2>1, FS_Subset, FS_EmptySet
    <3> QED BY <1>2, <3>1, SumOfChosen
  <2> QED BY <2>1
<1>4. ASSUME NEW n \in 0..(N - 1), n \in Q PROVE n + 1 \in Q
  <2>1. ASSUME NEW s \in SUBSET S, Cardinality(s) = n + 1 PROVE Sum(f, s) \in V
    <3> DEFINE t == s \ {AnyOf(s)}
    <3>1. s # {}
      <4>1. n + 1 # 0 /\ Cardinality({}) = 0
        BY FS_EmptySet
      <4> QED BY <2>1, <4>1
    <3>2. t \in SUBSET S /\ Cardinality(t) = n /\ IsFiniteSet(s) /\ AnyOf(s) \in s
      BY <2>1, <3>1, OneLess
    <3>3. Sum(f, t) \in V /\ f[AnyOf(s)] \in V
      BY <1>4, <3>2
    <3>4. Sum(f, s) = f[AnyOf(s)] + Sum(f, t)
      BY <3>1, <3>2, SumOfChosen
    <3> HIDE DEF t
    <3> QED BY <1>2, <3>3, <3>4, Zenon
  <2> QED BY <2>1
<1> HIDE DEF Q
<1>5. N \in Q
  BY <1>1, <1>3, <1>4, UpTo
<1> QED BY <1>5 DEF Q

LEMMA SumRemoves ==
  ASSUME NEW f, NEW S, IsFiniteSet(S), \A x \in S : f[x] \in Int, NEW e \in S
  PROVE  Sum(f, S) = f[e] + Sum(f, S \ {e})
<1> DEFINE Q == {n \in Nat : \A s \in SUBSET S : \A x \in s :
                              Cardinality(s) = n => Sum(f, s) = f[x] + Sum(f, s \ {x})}
           N == Cardinality(S)
<1>1. N \in Nat
  BY FS_CardinalityType
<1>2. 0 \in Q
  <2>1. ASSUME NEW s \in SUBSET S, Cardinality(s) = 0 PROVE s = {}
    BY <2>1, FS_Subset, FS_EmptySet
  <2> QED BY <2>1
<1>3. ASSUME NEW n \in 0..(N - 1), n \in Q PROVE n + 1 \in Q
  <2>1. ASSUME NEW s \in SUBSET S, NEW x \in s, Cardinality(s) = n + 1
        PROVE  Sum(f, s) = f[x] + Sum(f, s \ {x})
    <3> DEFINE y == AnyOf(s)
               both == (s \ {y}) \ {x}
    <3>1. /\ IsFiniteSet(s) /\ y \in s /\ s \ {y} \in SUBSET S /\ Cardinality(s \ {y}) = n
      <4>1. /\ IsFiniteSet(s) /\ y \in s /\ s \ {y} \in SUBSET S
            /\ Cardinality(s \ {y}) = Cardinality(s) - 1
        BY <2>1, OneLess
      <4>2. (n + 1) - 1 = n
        OBVIOUS
      <4> QED BY <2>1, <4>1, <4>2
    <3>2. Sum(f, s) = f[y] + Sum(f, s \ {y})
      BY <2>1, <3>1, SumOfChosen
    <3>3. CASE x = y
      BY <3>2, <3>3
    <3>4. CASE x # y
      <4>1. Sum(f, s \ {y}) = f[x] + Sum(f, both)
        BY <1>3, <3>1, <3>4
      <4>2. Sum(f, s \ {x}) = f[y] + Sum(f, both)
        <5>1. s \ {x} \in SUBSET S /\ y \in s \ {x} /\ (s \ {x}) \ {y} = both
          BY <3>1, <3>4
        <5>2. Cardinality(s \ {x}) = n
          <6>1. Cardinality(s \ {x}) = Cardinality(s) - 1
            BY <2>1, <3>1, FS_RemoveElement
          <6>2. (n + 1) - 1 = n
            OBVIOUS
          <6> QED BY <2>1, <6>1, <6>2
        <5> QED BY <1>3, <5>1, <5>2
      <4>3. Sum(f, both) \in Int
        <5>1. both \in SUBSET S /\ IsFiniteSet(both) /\ \A z \in both : f[z] \in Int
          BY <3>1, FS_Subset
        <5> HIDE DEF both
        <5> QED BY <5>1, SumType
      <4>4. f[x] \in Int /\ f[y] \in Int
        BY <2>1, <3>1
      <4> HIDE DEF both, y
      <4>5. f[y] + (f[x] + Sum(f, both)) = f[x] + (f[y] + Sum(f, both))
        BY <4>3, <4>4
      <4> QED BY <3>2, <4>1, <4>2, <4>5, Zenon
    <3> QED BY <3>3, <3>4
  <2> QED BY <2>1
<1> HIDE DEF Q
<1>4. N \in Q
  BY <1>1, <1>2, <1>3, UpTo
<1> QED BY <1>4 DEF Q

(* The sum over a union of two sets that have nothing in common.           *)
LEMMA SumOfTwo ==
  ASSUME NEW f, NEW S, IsFiniteSet(S), \A x \in S : f[x] \in Int,
         NEW A \in SUBSET S, NEW B \in SUBSET S, A \cap B = {}
  PROVE  Sum(f, A \cup B) = Sum(f, A) + Sum(f, B)
<1> DEFINE Q == {n \in Nat : \A a \in SUBSET A : Cardinality(a) = n =>
                               Sum(f, a \cup B) = Sum(f, a) + Sum(f, B)}
           N == Cardinality(A)
<1>1. /\ IsFiniteSet(A) /\ N \in Nat
      /\ \A s \in SUBSET S : IsFiniteSet(s) /\ Sum(f, s) \in Int
  <2>1. ASSUME NEW s \in SUBSET S PROVE IsFiniteSet(s) /\ Sum(f, s) \in Int
    <3>1. IsFiniteSet(s) /\ \A x \in s : f[x] \in Int
      BY FS_Subset
    <3> QED BY <3>1, SumType
  <2> QED BY <2>1, FS_CardinalityType
<1>2. 0 \in Q
  <2>1. ASSUME NEW a \in SUBSET A, Cardinality(a) = 0
        PROVE  Sum(f, a \cup B) = Sum(f, a) + Sum(f, B)
    <3>1. a = {}
      BY <1>1, <2>1, FS_Subset, FS_EmptySet
    <3>2. Sum(f, {}) = 0
      BY FS_EmptySet, SumOfChosen
    <3>3. a \cup B = B /\ Sum(f, B) \in Int
      BY <1>1, <3>1
    <3>4. 0 + Sum(f, B) = Sum(f, B)
      BY <3>3
    <3> QED BY <3>1, <3>2, <3>3, <3>4, Zenon
  <2> QED BY <2>1
<1>3. ASSUME NEW n \in 0..(N - 1), n \in Q PROVE n + 1 \in Q
  <2>1. ASSUME NEW a \in SUBSET A, Cardinality(a) = n + 1
        PROVE  Sum(f, a \cup B) = Sum(f, a) + Sum(f, B)
    <3>1. a # {}
      <4>1. n + 1 # 0 /\ Cardinality({}) = 0
        BY FS_EmptySet
      <4> QED BY <2>1, <4>1
    <3>2. PICK x \in a : TRUE
      BY <3>1
    <3> DEFINE b == a \ {x}
    <3>3. Cardinality(b) = n
      <4>1. Cardinality(b) = Cardinality(a) - 1
        BY <1>1, <3>2, FS_RemoveElement
      <4>2. (n + 1) - 1 = n
        OBVIOUS
      <4> QED BY <2>1, <4>1, <4>2
    <3>4. Sum(f, b \cup B) = Sum(f, b) + Sum(f, B)
      BY <1>3, <3>3
    <3>5. Sum(f, a) = f[x] + Sum(f, b)
      <4>1. IsFiniteSet(a) /\ \A y \in a : f[y] \in Int
        BY <1>1
      <4> QED BY <3>2, <4>1, SumRemoves
    <3>6. Sum(f, a \cup B) = f[x] + Sum(f, b \cup B)
      <4>1. /\ IsFiniteSet(a \cup B) /\ \A y \in a \cup B : f[y] \in Int
            /\ x \in a \cup B /\ (a \cup B) \ {x} = b \cup B
        BY <1>1, <3>2
      <4> QED BY <4>1, SumRemoves
    <3>7. f[x] \in Int /\ Sum(f, b) \in Int /\ Sum(f, B) \in Int
      BY <1>1, <3>2
    <3> HIDE DEF b
    <3>8. f[x] + (Sum(f, b) + Sum(f, B)) = (f[x] + Sum(f, b)) + Sum(f, B)
      BY <3>7
    <3> QED BY <3>4, <3>5, <3>6, <3>8, Zenon
  <2> QED BY <2>1
<1> HIDE DEF Q
<1>4. N \in Q
  BY <1>1, <1>2, <1>3, UpTo
<1> QED BY <1>4 DEF Q

(* The sum over sets of which no two have anything in common, each of      *)
(* which adds up to g of its index.                                        *)
LEMMA SumOfMany ==
  ASSUME NEW f, NEW S, IsFiniteSet(S), \A x \in S : f[x] \in Int,
         NEW I, IsFiniteSet(I), NEW R \in [I -> SUBSET S],
         \A i, j \in I : i # j => R[i] \cap R[j] = {},
         NEW g, \A i \in I : g[i] = Sum(f, R[i])
  PROVE  Sum(f, UNION {R[i] : i \in I}) = Sum(g, I)
<1> DEFINE All(J) == UNION {R[i] : i \in J}
           Q == {n \in Nat : \A J \in SUBSET I : Cardinality(J) = n => Sum(f, All(J)) = Sum(g, J)}
           N == Cardinality(I)
<1>1. N \in Nat /\ \A J \in SUBSET I : IsFiniteSet(J) /\ All(J) \in SUBSET S
  BY FS_Subset, FS_CardinalityType
<1>2. \A s \in SUBSET S : Sum(f, s) \in Int
  <2>1. ASSUME NEW s \in SUBSET S PROVE Sum(f, s) \in Int
    <3>1. IsFiniteSet(s) /\ \A x \in s : f[x] \in Int
      BY FS_Subset
    <3> QED BY <3>1, SumType
  <2> QED BY <2>1
<1>3. 0 \in Q
  <2>1. ASSUME NEW J \in SUBSET I, Cardinality(J) = 0 PROVE Sum(f, All(J)) = Sum(g, J)
    <3>1. J = {}
      BY <1>1, <2>1, FS_EmptySet
    <3>2. All(J) = {}
      BY <3>1
    <3> HIDE DEF All
    <3> QED BY <3>1, <3>2, FS_EmptySet, SumOfChosen
  <2> QED BY <2>1
<1>4. ASSUME NEW n \in 0..(N - 1), n \in Q PROVE n + 1 \in Q
  <2>1. ASSUME NEW J \in SUBSET I, Cardinality(J) = n + 1 PROVE Sum(f, All(J)) = Sum(g, J)
    <3>1. J # {}
      <4>1. n + 1 # 0 /\ Cardinality({}) = 0
        BY FS_EmptySet
      <4> QED BY <2>1, <4>1
    <3>2. PICK j \in J : TRUE
      BY <3>1
    <3> DEFINE K == J \ {j}
    <3>3. K \in SUBSET I /\ Cardinality(K) = n
      <4>1. Cardinality(K) = Cardinality(J) - 1
        BY <1>1, <3>2, FS_RemoveElement
      <4>2. (n + 1) - 1 = n
        OBVIOUS
      <4> QED BY <2>1, <4>1, <4>2
    <3>4. Sum(f, All(K)) = Sum(g, K)
      BY <1>4, <3>3
    <3>5. Sum(g, J) = g[j] + Sum(g, K)
      <4>1. IsFiniteSet(J) /\ \A i \in J : g[i] \in Int
        BY <1>1, <1>2
      <4> QED BY <3>2, <4>1, SumRemoves
    <3>6. Sum(f, All(J)) = Sum(f, R[j]) + Sum(f, All(K))
      <4>1. /\ R[j] \in SUBSET S /\ All(K) \in SUBSET S /\ R[j] \cap All(K) = {}
            /\ R[j] \cup All(K) = All(J)
        BY <3>2
      <4> HIDE DEF All, K
      <4>2. Sum(f, R[j] \cup All(K)) = Sum(f, R[j]) + Sum(f, All(K))
        BY <4>1, SumOfTwo
      <4> QED BY <4>1, <4>2
    <3> HIDE DEF All, K
    <3> QED BY <3>4, <3>5, <3>6, Zenon
  <2> QED BY <2>1
<1> HIDE DEF Q
<1>5. N \in Q
  BY <1>1, <1>3, <1>4, UpTo
<1> QED BY <1>5 DEF Q

-----------------------------------------------------------------------------
(* A finite tree, its directories numbered from the top, with any number   *)
(* of files in each.                                                       *)
IsTree(t) ==
  /\ t.up \in [Dirs -> {0} \union Dirs]
  /\ \A d \in Dirs : t.up[d] < d /\ (t.up[d] = 0 <=> d = 1)
  /\ t.files \in [Dirs -> Nat]
  /\ t.seen \subseteq Dirs \ {1}

(* Directories are numbers from 1 on.                                      *)
LEMMA DirsAreNumbers ==
  /\ Cardinality(Dirs) \in Nat /\ Dirs = 1..Cardinality(Dirs)
  /\ \A d \in Dirs : d \in Nat /\ d >= 1 /\ d <= Cardinality(Dirs)
  /\ Dirs # {} => 1 \in Dirs
<1>1. Cardinality(Dirs) \in Nat /\ Dirs = 1..Cardinality(Dirs)
  BY DirsAssumption, FS_CardinalityType
<1> QED BY <1>1

(* What holds of a directory if it holds of the one it is listed in holds  *)
(* of all.                                                                 *)
LEMMA Downwards ==
  ASSUME NEW t, IsTree(t), NEW P,
         \A d \in Dirs : t.up[d] = 0 \/ t.up[d] \in P => d \in P
  PROVE  \A d \in Dirs : d \in P
<1> DEFINE N == Cardinality(Dirs)
           Q == {n \in Nat : \A d \in Dirs : d <= n => d \in P}
<1>1. 0 \in Q
  BY DirsAreNumbers
<1>2. ASSUME NEW n \in 0..(N - 1), n \in Q PROVE n + 1 \in Q
  <2>1. ASSUME NEW d \in Dirs, d <= n + 1 PROVE d \in P
    <3>1. t.up[d] \in {0} \union Dirs /\ t.up[d] < d
      BY DEF IsTree
    <3>2. t.up[d] = 0 \/ (t.up[d] \in Dirs /\ t.up[d] <= n)
      BY <2>1, <3>1, DirsAreNumbers
    <3> QED BY <1>2, <3>2
  <2> QED BY <2>1
<1> HIDE DEF Q
<1>3. N \in Q
  <2>1. N \in Nat
    BY DirsAreNumbers
  <2> HIDE DEF N
  <2> QED BY <1>1, <1>2, <2>1, UpTo
<1> QED BY <1>3, DirsAreNumbers DEF Q

(* What holds of a directory if it holds of all that are listed in it      *)
(* holds of all.                                                           *)
LEMMA Upwards ==
  ASSUME NEW t, IsTree(t), NEW P,
         \A d \in Dirs : (\A s \in Dirs : t.up[s] = d => s \in P) => d \in P
  PROVE  \A d \in Dirs : d \in P
<1> DEFINE N == Cardinality(Dirs)
           Q == {n \in Nat : \A d \in Dirs : d + n > N => d \in P}
<1>1. 0 \in Q
  BY DirsAreNumbers
<1>2. ASSUME NEW n \in 0..(N - 1), n \in Q PROVE n + 1 \in Q
  <2>1. ASSUME NEW d \in Dirs, d + (n + 1) > N PROVE d \in P
    <3>1. ASSUME NEW s \in Dirs, t.up[s] = d PROVE s \in P
      <4>1. d < s
        BY <3>1 DEF IsTree
      <4>2. s + n > N
        BY <2>1, <4>1, DirsAreNumbers
      <4> QED BY <1>2, <4>2
    <3> QED BY <3>1
  <2> QED BY <2>1
<1> HIDE DEF Q
<1>3. N \in Q
  <2>1. N \in Nat
    BY DirsAreNumbers
  <2> HIDE DEF N
  <2> QED BY <1>1, <1>2, <2>1, UpTo
<1> QED BY <1>3, DirsAreNumbers DEF Q

-----------------------------------------------------------------------------
(* The directories above one.                                              *)
AboveStep(a, t, e) == IF e = 0 THEN {} ELSE {e} \union a[t.up[e]]
IsAbove(a, t, D) == a = [e \in D |-> AboveStep(a, t, e)]
UpToDir(n) == {e \in {0} \union Dirs : e <= n}

LEMMA AboveExists ==
  ASSUME NEW t, IsTree(t)
  PROVE  \E a : IsAbove(a, t, {0} \union Dirs)
<1> DEFINE N == Cardinality(Dirs)
           Q == {n \in Nat : \E a : IsAbove(a, t, UpToDir(n))}
<1>1. 0 \in Q
  <2> DEFINE a == [e \in UpToDir(0) |-> {}]
  <2>1. \A e \in UpToDir(0) : e = 0
    BY DirsAreNumbers DEF UpToDir
  <2>2. a = [e \in UpToDir(0) |-> AboveStep(a, t, e)]
    BY <2>1 DEF AboveStep
  <2> HIDE DEF a
  <2> QED BY <2>2 DEF IsAbove
<1>2. ASSUME NEW n \in 0..(N - 1), n \in Q PROVE n + 1 \in Q
  <2>1. PICK a : IsAbove(a, t, UpToDir(n))
    BY <1>2
  <2> DEFINE b == [e \in UpToDir(n + 1) |-> AboveStep(a, t, e)]
  <2>2. n \in Nat
    OBVIOUS
  <2>3. ASSUME NEW e \in UpToDir(n + 1) PROVE AboveStep(a, t, e) = AboveStep(b, t, e)
    <3>1. CASE e = 0
      BY <3>1 DEF AboveStep
    <3>2. CASE e # 0
      <4> DEFINE u == t.up[e]
      <4>1. e \in Dirs /\ e <= n + 1 /\ u \in {0} \union Dirs /\ u < e
        BY <3>2 DEF UpToDir, IsTree
      <4>2. u \in UpToDir(n) /\ u \in UpToDir(n + 1)
        BY <2>2, <4>1, DirsAreNumbers DEF UpToDir
      <4>3. a[u] = AboveStep(a, t, u)
        BY <2>1, <4>2, Zenon DEF IsAbove
      <4>4. b[u] = AboveStep(a, t, u)
        BY <4>2, Zenon
      <4> QED BY <3>2, <4>3, <4>4, Zenon DEF AboveStep
    <3> QED BY <3>1, <3>2
  <2>4. b = [e \in UpToDir(n + 1) |-> AboveStep(b, t, e)]
    <3>1. b = [e \in UpToDir(n + 1) |-> AboveStep(a, t, e)]
      OBVIOUS
    <3> HIDE DEF b
    <3> QED BY <2>3, <3>1
  <2> HIDE DEF b
  <2> QED BY <2>2, <2>4 DEF IsAbove
<1> HIDE DEF Q
<1>3. N \in Q
  <2>1. N \in Nat
    BY DirsAreNumbers
  <2> HIDE DEF N
  <2> QED BY <1>1, <1>2, <2>1, UpTo
<1>4. UpToDir(N) = {0} \union Dirs
  BY DirsAreNumbers DEF UpToDir
<1> QED BY <1>3, <1>4 DEF Q

(* A directory is above itself, and so are those above the one it is       *)
(* listed in.                                                              *)
LEMMA AboveOne ==
  ASSUME NEW t, IsTree(t)
  PROVE  /\ Above(t, 0) = {}
         /\ \A e \in Dirs : Above(t, e) = {e} \union Above(t, t.up[e])
<1> DEFINE a == CHOOSE a : IsAbove(a, t, {0} \union Dirs)
<1>1. \A e : Above(t, e) = a[e]
  BY DEF Above, IsAbove, AboveStep
<1>2. IsAbove(a, t, {0} \union Dirs)
  BY AboveExists
<1> HIDE DEF a
<1>3. \A e \in {0} \union Dirs : a[e] = AboveStep(a, t, e)
  BY <1>2, Zenon DEF IsAbove
<1>4. \A e \in Dirs : e # 0
  BY DirsAreNumbers
<1> QED BY <1>1, <1>3, <1>4 DEF AboveStep

(* They have smaller numbers; the one asked about is above them all, and   *)
(* there is one more of them than above the next.                          *)
LEMMA AboveType ==
  ASSUME NEW t, IsTree(t), NEW e \in Dirs
  PROVE  /\ Above(t, e) \subseteq Dirs /\ \A d \in Above(t, e) : d <= e
         /\ e \in Above(t, e) /\ 1 \in Above(t, e)
         /\ IsFiniteSet(Above(t, e)) /\ Cardinality(Above(t, e)) \in 1..e
<1> DEFINE Good(d) == /\ Above(t, d) \subseteq Dirs /\ \A x \in Above(t, d) : x <= d
                      /\ d \in Above(t, d) /\ 1 \in Above(t, d)
                      /\ IsFiniteSet(Above(t, d)) /\ Cardinality(Above(t, d)) \in 1..d
           P == {d \in Dirs : Good(d)}
<1>1. ASSUME NEW d \in Dirs, t.up[d] = 0 \/ t.up[d] \in P PROVE Good(d)
  <2> DEFINE u == t.up[d]
             A == Above(t, u)
  <2>1. Above(t, d) = {d} \union A /\ u < d /\ (u = 0 <=> d = 1) /\ d \in Nat /\ d >= 1
    BY AboveOne, DirsAreNumbers DEF IsTree
  <2>2. CASE u = 0
    <3>1. A = {} /\ d = 1 /\ Above(t, d) = {1}
      BY <2>1, <2>2, AboveOne
    <3>2. IsFiniteSet({1}) /\ Cardinality({1}) = 1
      BY FS_Singleton
    <3> QED BY <3>1, <3>2
  <2>3. CASE u \in P
    <3>1. Good(u) /\ u \in Nat
      BY <2>3, DirsAreNumbers
    <3>2. d \notin A /\ A \subseteq Dirs
      BY <2>1, <3>1, DirsAreNumbers
    <3>3. IsFiniteSet(Above(t, d)) /\ Cardinality(Above(t, d)) = Cardinality(A) + 1
      BY <2>1, <3>1, <3>2, FS_AddElement
    <3>4. Cardinality(Above(t, d)) \in 1..d
      <4>1. Cardinality(A) \in 1..u
        BY <3>1
      <4> QED BY <2>1, <3>1, <3>3, <4>1
    <3>5. \A x \in Above(t, d) : x <= d
      <4>1. ASSUME NEW x \in A PROVE x <= d
        <5>1. x <= u /\ x \in Nat
          BY <3>1, DirsAreNumbers
        <5> QED BY <2>1, <3>1, <5>1
      <4> QED BY <2>1, <4>1
    <3> QED BY <2>1, <3>1, <3>3, <3>4, <3>5
  <2> QED BY <1>1, <2>2, <2>3
<1>2. \A d \in Dirs : d \in P
  <2>1. \A d \in Dirs : t.up[d] = 0 \/ t.up[d] \in P => d \in P
    BY <1>1
  <2> HIDE DEF P
  <2> QED BY <2>1, Downwards
<1> QED BY <1>2

(* Those above a directory above one are above it too.                     *)
LEMMA AboveIsTransitive ==
  ASSUME NEW t, IsTree(t), NEW e \in Dirs, NEW d \in Above(t, e)
  PROVE  Above(t, d) \subseteq Above(t, e)
<1> DEFINE P == {x \in Dirs : \A y \in Above(t, x) : Above(t, y) \subseteq Above(t, x)}
<1>1. ASSUME NEW x \in Dirs, t.up[x] = 0 \/ t.up[x] \in P, NEW y \in Above(t, x)
      PROVE  Above(t, y) \subseteq Above(t, x)
  <2>1. Above(t, x) = {x} \union Above(t, t.up[x]) /\ Above(t, 0) = {}
    BY AboveOne
  <2> QED BY <1>1, <2>1
<1>2. \A x \in Dirs : x \in P
  <2>1. \A x \in Dirs : t.up[x] = 0 \/ t.up[x] \in P => x \in P
    BY <1>1
  <2> HIDE DEF P
  <2> QED BY <2>1, Downwards
<1> QED BY <1>2

(* Below a directory above one, and still above it or it, there is one of  *)
(* the directories listed there.                                           *)
LEMMA AboveHasNext ==
  ASSUME NEW t, IsTree(t), NEW e \in Dirs, NEW d \in Above(t, e), d # e
  PROVE  \E s \in Above(t, e) : t.up[s] = d
<1> DEFINE P == {x \in Dirs : \A y \in Above(t, x) : y = x \/ \E s \in Above(t, x) : t.up[s] = y}
<1>1. ASSUME NEW x \in Dirs, t.up[x] = 0 \/ t.up[x] \in P, NEW y \in Above(t, x), y # x
      PROVE  \E s \in Above(t, x) : t.up[s] = y
  <2>1. Above(t, x) = {x} \union Above(t, t.up[x]) /\ Above(t, 0) = {}
    BY AboveOne
  <2>2. t.up[x] \in P /\ y \in Above(t, t.up[x])
    BY <1>1, <2>1
  <2>3. CASE y = t.up[x]
    BY <2>1, <2>3
  <2>4. CASE y # t.up[x]
    BY <2>1, <2>2, <2>4
  <2> QED BY <2>3, <2>4
<1>2. \A x \in Dirs : x \in P
  <2>1. \A x \in Dirs : t.up[x] = 0 \/ t.up[x] \in P => x \in P
    BY <1>1
  <2> HIDE DEF P
  <2> QED BY <2>1, Downwards
<1> QED BY <1>2

(* No two directories above one are listed in the same.                    *)
LEMMA AboveIsPath ==
  ASSUME NEW t, IsTree(t), NEW e \in Dirs, NEW s \in Above(t, e), NEW r \in Above(t, e),
         t.up[s] = t.up[r]
  PROVE  s = r
<1> DEFINE P == {x \in Dirs : \A y, z \in Above(t, x) : t.up[y] = t.up[z] => y = z}
<1>1. ASSUME NEW x \in Dirs, t.up[x] = 0 \/ t.up[x] \in P,
             NEW y \in Above(t, x), NEW z \in Above(t, x), t.up[y] = t.up[z]
      PROVE  y = z
  <2> DEFINE u == t.up[x]
  <2>1. Above(t, x) = {x} \union Above(t, u) /\ Above(t, 0) = {}
    BY AboveOne
  <2>2. u = 0 => y = z
    BY <2>1
  <2>3. ASSUME u \in P, NEW w \in Above(t, u) PROVE t.up[w] # u
    <3>1. w \in Dirs /\ w <= u /\ u \in Dirs
      BY <2>3, AboveType
    <3>2. t.up[w] < w /\ t.up[w] \in {0} \union Dirs
      BY <3>1 DEF IsTree
    <3> QED BY <3>1, <3>2, DirsAreNumbers
  <2> QED BY <1>1, <2>1, <2>2, <2>3
<1>2. \A x \in Dirs : x \in P
  <2>1. \A x \in Dirs : t.up[x] = 0 \/ t.up[x] \in P => x \in P
    BY <1>1
  <2> HIDE DEF P
  <2> QED BY <2>1, Downwards
<1> QED BY <1>2

-----------------------------------------------------------------------------
(* The directories that the recursion reaches from d on.                   *)
Reach(t, d) == {e \in Dirs : d \in Above(t, e) /\ Above(t, e) \ Above(t, d) \subseteq t.seen}

(* The directories it calls itself for.                                    *)
LEMMA SubdirsType ==
  ASSUME NEW t, IsTree(t), NEW d \in Dirs
  PROVE  /\ Subdirs(t, d) \subseteq Dirs /\ IsFiniteSet(Subdirs(t, d))
         /\ \A s \in Subdirs(t, d) :
              /\ s \in t.seen /\ t.up[s] = d /\ d < s
              /\ Above(t, s) = {s} \union Above(t, d)
              /\ s \notin Above(t, d)
              /\ Cardinality(Above(t, s)) = Cardinality(Above(t, d)) + 1
<1>1. Subdirs(t, d) \subseteq Dirs
  BY DEF Subdirs, IsTree
<1>2. IsFiniteSet(Subdirs(t, d))
  BY <1>1, DirsAssumption, FS_Subset
<1>3. ASSUME NEW s \in Subdirs(t, d)
      PROVE  /\ s \in t.seen /\ t.up[s] = d /\ d < s
             /\ Above(t, s) = {s} \union Above(t, d)
             /\ s \notin Above(t, d)
             /\ Cardinality(Above(t, s)) = Cardinality(Above(t, d)) + 1
  <2>1. s \in Dirs /\ s \in t.seen /\ t.up[s] = d
    BY <1>1 DEF Subdirs
  <2>2. d < s
    BY <2>1 DEF IsTree
  <2>3. Above(t, s) = {s} \union Above(t, d)
    BY <2>1, AboveOne
  <2>4. s \notin Above(t, d)
    <3>1. s \in Above(t, d) => s <= d
      BY AboveType
    <3> QED BY <2>1, <2>2, <3>1, DirsAreNumbers
  <2>5. IsFiniteSet(Above(t, d))
    BY AboveType
  <2>6. Cardinality(Above(t, s)) = Cardinality(Above(t, d)) + 1
    BY <2>3, <2>4, <2>5, FS_AddElement
  <2> QED BY <2>1, <2>2, <2>3, <2>4, <2>6
<1> QED BY <1>1, <1>2, <1>3

(* From d on it reaches d and what it reaches from the directories listed  *)
(* in d on, each from one of them.                                         *)
LEMMA ReachOne ==
  ASSUME NEW t, IsTree(t), NEW d \in Dirs
  PROVE  /\ Reach(t, d) = {d} \union UNION {Reach(t, s) : s \in Subdirs(t, d)}
         /\ \A s \in Subdirs(t, d) : d \notin Reach(t, s)
         /\ \A s, r \in Subdirs(t, d) : s # r => Reach(t, s) \cap Reach(t, r) = {}
<1>1. d \in Reach(t, d)
  BY AboveType DEF Reach
<1>2. ASSUME NEW s \in Subdirs(t, d), NEW e \in Reach(t, s)
      PROVE  e \in Reach(t, d) /\ e # d
  <2>1. e \in Dirs /\ s \in Above(t, e) /\ Above(t, e) \ Above(t, s) \subseteq t.seen
    BY DEF Reach
  <2>2. s \in t.seen /\ Above(t, s) = {s} \union Above(t, d) /\ s \notin Above(t, d)
    BY SubdirsType
  <2>3. Above(t, s) \subseteq Above(t, e)
    BY <2>1, AboveIsTransitive
  <2>4. d \in Above(t, d)
    BY AboveType
  <2> QED BY <2>1, <2>2, <2>3, <2>4 DEF Reach
<1>3. ASSUME NEW e \in Reach(t, d), e # d
      PROVE  \E s \in Subdirs(t, d) : e \in Reach(t, s)
  <2>1. e \in Dirs /\ d \in Above(t, e) /\ Above(t, e) \ Above(t, d) \subseteq t.seen
    BY DEF Reach
  <2>2. PICK s \in Above(t, e) : t.up[s] = d
    BY <1>3, <2>1, AboveHasNext
  <2>3. s \in Dirs /\ d < s
    <3>1. s \in Dirs
      BY <2>1, AboveType
    <3> QED BY <2>2, <3>1 DEF IsTree
  <2>4. s \notin Above(t, d)
    <3>1. s \in Above(t, d) => s <= d
      BY AboveType
    <3> QED BY <2>3, <3>1, DirsAreNumbers
  <2>5. s \in Subdirs(t, d)
    BY <2>1, <2>2, <2>4 DEF Subdirs
  <2>6. Above(t, s) = {s} \union Above(t, d)
    BY <2>5, SubdirsType
  <2> QED BY <2>1, <2>5, <2>6 DEF Reach
<1>4. ASSUME NEW s \in Subdirs(t, d), NEW r \in Subdirs(t, d), NEW e \in Reach(t, s), e \in Reach(t, r)
      PROVE  s = r
  <2>1. e \in Dirs /\ s \in Above(t, e) /\ r \in Above(t, e) /\ t.up[s] = t.up[r]
    BY <1>4, SubdirsType DEF Reach
  <2> QED BY <2>1, AboveIsPath
<1>5. Reach(t, d) = {d} \union UNION {Reach(t, s) : s \in Subdirs(t, d)}
  BY <1>1, <1>2, <1>3
<1>6. \A s, r \in Subdirs(t, d) : s # r => Reach(t, s) \cap Reach(t, r) = {}
  BY <1>4
<1> QED BY <1>2, <1>5, <1>6

-----------------------------------------------------------------------------
(* The recursion.                                                          *)
Below(c, t, d, held) == [s \in Subdirs(t, d) |-> c[s][held + 1]]
CountStep(c, t, limit, d, held) ==
  IF \/ d \in t.closed \/ held >= limit
     \/ \E s \in Subdirs(t, d) : Below(c, t, d, held)[s] = -1
  THEN -1
  ELSE t.files[d] + Sum(Below(c, t, d, held), Subdirs(t, d))
CountOf(c, t, limit, d) == [held \in 0..Cardinality(Dirs) |-> CountStep(c, t, limit, d, held)]
IsCount(c, t, limit, D) == c = [d \in D |-> CountOf(c, t, limit, d)]
LastDirs(n) == {d \in Dirs : d + n > Cardinality(Dirs)}

(* It ends: what it computes for a directory depends on larger ones only.  *)
LEMMA CountExists ==
  ASSUME NEW t, IsTree(t), NEW limit
  PROVE  \E c : IsCount(c, t, limit, Dirs)
<1> DEFINE N == Cardinality(Dirs)
           Q == {n \in Nat : \E c : IsCount(c, t, limit, LastDirs(n))}
<1>1. 0 \in Q
  <2> DEFINE c == [d \in {} |-> {}]
  <2>1. LastDirs(0) = {}
    BY DirsAreNumbers DEF LastDirs
  <2>2. c = [d \in {} |-> CountOf(c, t, limit, d)]
    OBVIOUS
  <2> HIDE DEF c
  <2> QED BY <2>1, <2>2 DEF IsCount
<1>2. ASSUME NEW n \in 0..(N - 1), n \in Q PROVE n + 1 \in Q
  <2>1. PICK c : IsCount(c, t, limit, LastDirs(n))
    BY <1>2
  <2> DEFINE b == [d \in LastDirs(n + 1) |-> CountOf(c, t, limit, d)]
  <2>2. n \in Nat
    OBVIOUS
  <2>3. ASSUME NEW d \in LastDirs(n + 1) PROVE CountOf(c, t, limit, d) = CountOf(b, t, limit, d)
    <3>1. ASSUME NEW s \in Subdirs(t, d) PROVE c[s] = b[s]
      <4>1. d \in Dirs /\ d + (n + 1) > N
        BY DEF LastDirs
      <4>2. s \in Dirs /\ d < s
        BY <4>1, SubdirsType
      <4>3. s \in LastDirs(n) /\ s \in LastDirs(n + 1)
        BY <2>2, <4>1, <4>2, DirsAreNumbers DEF LastDirs
      <4>4. c[s] = CountOf(c, t, limit, s)
        BY <2>1, <4>3, Zenon DEF IsCount
      <4>5. b[s] = CountOf(c, t, limit, s)
        BY <4>3, Zenon
      <4> QED BY <4>4, <4>5, Zenon
    <3> HIDE DEF b
    <3>2. ASSUME NEW held PROVE Below(c, t, d, held) = Below(b, t, d, held)
      BY <3>1 DEF Below
    <3>3. ASSUME NEW held PROVE CountStep(c, t, limit, d, held) = CountStep(b, t, limit, d, held)
      BY <3>2 DEF CountStep
    <3> QED BY <3>3 DEF CountOf
  <2>4. b = [d \in LastDirs(n + 1) |-> CountOf(b, t, limit, d)]
    <3>1. b = [d \in LastDirs(n + 1) |-> CountOf(c, t, limit, d)]
      OBVIOUS
    <3> HIDE DEF b
    <3> QED BY <2>3, <3>1
  <2> HIDE DEF b
  <2> QED BY <2>2, <2>4 DEF IsCount
<1> HIDE DEF Q
<1>3. N \in Q
  <2>1. N \in Nat
    BY DirsAreNumbers
  <2> HIDE DEF N
  <2> QED BY <1>1, <1>2, <2>1, UpTo
<1>4. LastDirs(N) = Dirs
  BY DirsAreNumbers DEF LastDirs
<1> QED BY <1>3, <1>4 DEF Q

(* What it should compute for a directory that is opened while all those   *)
(* above it are open.                                                      *)
Fails(t, limit, d) ==
  \E e \in Reach(t, d) : e \in t.closed \/ Cardinality(Above(t, e)) > limit
FilesBelow(t, limit, d) ==
  IF Fails(t, limit, d) THEN -1 ELSE Sum(t.files, Reach(t, d))

(* Sums of files.                                                          *)
LEMMA FilesAddUp ==
  ASSUME NEW t, IsTree(t), NEW D \in SUBSET Dirs
  PROVE  Sum(t.files, D) \in Nat /\ IsFiniteSet(D)
<1>1. IsFiniteSet(D) /\ \A d \in D : t.files[d] \in Nat
  BY DirsAssumption, FS_Subset DEF IsTree
<1> QED BY <1>1, SumType

(* It fails for a directory if and only if opendir() fails on it or it     *)
(* fails for one listed there.                                             *)
LEMMA FailsOne ==
  ASSUME NEW t, IsTree(t), NEW limit, NEW d \in Dirs
  PROVE  Fails(t, limit, d) <=>
           \/ d \in t.closed \/ Cardinality(Above(t, d)) > limit
           \/ \E s \in Subdirs(t, d) : Fails(t, limit, s)
BY ReachOne DEF Fails

(* Otherwise there are its own files and those below.                      *)
LEMMA FilesOne ==
  ASSUME NEW t, IsTree(t), NEW d \in Dirs,
         NEW g, \A s \in Subdirs(t, d) : g[s] = Sum(t.files, Reach(t, s))
  PROVE  Sum(t.files, Reach(t, d)) = t.files[d] + Sum(g, Subdirs(t, d))
<1> DEFINE I == Subdirs(t, d)
           R == [s \in I |-> Reach(t, s)]
           rest == UNION {R[s] : s \in I}
<1>1. /\ IsFiniteSet(Dirs) /\ \A x \in Dirs : t.files[x] \in Int
      /\ IsFiniteSet(I) /\ I \subseteq Dirs
  BY DirsAssumption, SubdirsType DEF IsTree
<1>2. R \in [I -> SUBSET Dirs] /\ \A s \in I : R[s] = Reach(t, s)
  BY DEF Reach
<1>3. \A i, j \in I : i # j => R[i] \cap R[j] = {}
  BY <1>2, ReachOne
<1>4. Reach(t, d) = {d} \union rest /\ d \notin rest /\ Reach(t, d) \subseteq Dirs
  BY <1>2, ReachOne DEF Reach
<1>5. \A i \in I : g[i] = Sum(t.files, R[i])
  BY <1>2
<1> HIDE DEF R
<1>6. Sum(t.files, rest) = Sum(g, I)
  <2> HIDE DEF I
  <2> QED BY <1>1, <1>2, <1>3, <1>5, SumOfMany
<1>7. Sum(t.files, Reach(t, d)) = t.files[d] + Sum(t.files, Reach(t, d) \ {d})
  <2>1. /\ IsFiniteSet(Reach(t, d)) /\ \A x \in Reach(t, d) : t.files[x] \in Int
        /\ d \in Reach(t, d)
    BY <1>1, <1>4, FS_Subset
  <2> QED BY <2>1, SumRemoves
<1>8. Reach(t, d) \ {d} = rest
  BY <1>4
<1> QED BY <1>6, <1>7, <1>8

(* So it does, by induction from the last directory to the first.          *)
LEMMA CountIsFilesBelow ==
  ASSUME NEW t, IsTree(t), NEW limit \in Nat, NEW c, IsCount(c, t, limit, Dirs),
         NEW d \in Dirs
  PROVE  c[d][Cardinality(Above(t, d)) - 1] = FilesBelow(t, limit, d)
<1> DEFINE Held(e) == Cardinality(Above(t, e)) - 1
           P == {e \in Dirs : c[e][Held(e)] = FilesBelow(t, limit, e)}
<1>1. ASSUME NEW e \in Dirs, \A s \in Dirs : t.up[s] = e => s \in P
      PROVE  c[e][Held(e)] = FilesBelow(t, limit, e)
  <2> DEFINE below == Below(c, t, e, Held(e))
             I == Subdirs(t, e)
  <2>1. /\ Cardinality(Above(t, e)) \in 1..e /\ Held(e) \in 0..Cardinality(Dirs)
        /\ Held(e) \in Nat
    <3>1. Cardinality(Above(t, e)) \in 1..e
      BY AboveType
    <3> QED BY <3>1, DirsAreNumbers
  <2>2. c[e][Held(e)] = CountStep(c, t, limit, e, Held(e))
    <3>1. c[e] = CountOf(c, t, limit, e)
      BY Zenon DEF IsCount
    <3> QED BY <2>1, <3>1, Zenon DEF CountOf
  <2>3. Held(e) >= limit <=> Cardinality(Above(t, e)) > limit
    BY <2>1
  <2>4. ASSUME NEW s \in I PROVE below[s] = FilesBelow(t, limit, s)
    <3>1. s \in Dirs /\ t.up[s] = e /\ Cardinality(Above(t, s)) = Cardinality(Above(t, e)) + 1
      BY SubdirsType
    <3>2. Held(s) = Held(e) + 1
      BY <2>1, <3>1
    <3>3. c[s][Held(s)] = FilesBelow(t, limit, s)
      BY <1>1, <3>1
    <3>4. below[s] = c[s][Held(e) + 1]
      BY DEF Below
    <3> QED BY <3>2, <3>3, <3>4
  <2>5. ASSUME NEW s \in I
        PROVE  /\ below[s] = -1 <=> Fails(t, limit, s)
               /\ ~ Fails(t, limit, s) => below[s] = Sum(t.files, Reach(t, s))
    <3>1. Sum(t.files, Reach(t, s)) \in Nat
      <4>1. Reach(t, s) \in SUBSET Dirs
        BY DEF Reach
      <4> QED BY <4>1, FilesAddUp
    <3> QED BY <2>4, <3>1 DEF FilesBelow
  <2> HIDE DEF below, Held
  <2>6. CountStep(c, t, limit, e, Held(e)) =
          IF e \in t.closed \/ Held(e) >= limit \/ \E s \in I : below[s] = -1
          THEN -1 ELSE t.files[e] + Sum(below, I)
    BY DEF CountStep, below
  <2>7. CASE Fails(t, limit, e)
    <3>1. e \in t.closed \/ Held(e) >= limit \/ \E s \in I : below[s] = -1
      BY <2>3, <2>5, <2>7, FailsOne
    <3> QED BY <2>2, <2>6, <2>7, <3>1 DEF FilesBelow
  <2>8. CASE ~ Fails(t, limit, e)
    <3>1. ~ (e \in t.closed \/ Held(e) >= limit \/ \E s \in I : below[s] = -1)
      BY <2>3, <2>5, <2>8, FailsOne
    <3>2. \A s \in I : below[s] = Sum(t.files, Reach(t, s))
      BY <2>5, <3>1
    <3>3. Sum(t.files, Reach(t, e)) = t.files[e] + Sum(below, I)
      BY <3>2, FilesOne
    <3> QED BY <2>2, <2>6, <2>8, <3>1, <3>3 DEF FilesBelow
  <2> QED BY <2>7, <2>8
<1>2. \A e \in Dirs : e \in P
  <2>1. \A e \in Dirs : (\A s \in Dirs : t.up[s] = e => s \in P) => e \in P
    BY <1>1
  <2> HIDE DEF P
  <2> QED BY <2>1, Upwards
<1> QED BY <1>2

(* The count is exact or a failure, for every finite tree and any number   *)
(* of descriptors.                                                         *)
THEOREM CountExact ==
  ASSUME NEW t, IsTree(t), Dirs # {}, NEW limit \in Nat
  PROVE  countFiles(t, limit) =
           IF \E d \in Found(t) : d \in t.closed \/ Cardinality(Above(t, d)) > limit
           THEN -1 ELSE Sum(t.files, Found(t))
<1> DEFINE c == CHOOSE c : IsCount(c, t, limit, Dirs)
<1>1. IsCount(c, t, limit, Dirs)
  BY CountExists
<1>2. countFiles(t, limit) = c[1][0]
  BY DEF countFiles, IsCount, CountOf, CountStep, Below
<1> HIDE DEF c
<1>3. 1 \in Dirs
  BY DirsAreNumbers
<1>4. Above(t, 1) = {1} /\ Cardinality(Above(t, 1)) = 1
  <2>1. t.up[1] = 0
    BY <1>3 DEF IsTree
  <2>2. Above(t, 1) = {1}
    BY <1>3, <2>1, AboveOne
  <2> QED BY <2>2, FS_Singleton
<1>5. Reach(t, 1) = Found(t)
  BY <1>4, AboveType DEF Reach, Found
<1>6. c[1][Cardinality(Above(t, 1)) - 1] = FilesBelow(t, limit, 1)
  BY <1>1, <1>3, CountIsFilesBelow
<1>7. 1 - 1 = 0
  OBVIOUS
<1>8. c[1][0] = FilesBelow(t, limit, 1)
  BY <1>4, <1>6, <1>7
<1> QED BY <1>2, <1>5, <1>8, Zenon DEF FilesBelow, Fails

(***************************************************************************)
(* The cases of AlgorithmsMC.                                              *)
(***************************************************************************)

(* What a client has sent so far, and a tree counted with some number of   *)
(* descriptors, or none.                                                   *)
CasesInv ==
  /\ conversation \in Seq(Byte)
  /\ candidate \in {0} \union Exact
  /\ tree # << >> => /\ tree \in Trees
                     /\ Dirs # {} /\ descriptors \in Nat

(* Only the conversation changes.                                          *)
LEMMA CasesInvariant == CasesSpec => []CasesInv
<1>1. CasesInit => CasesInv
  <2> SUFFICES ASSUME CasesInit PROVE CasesInv
    OBVIOUS
  <2>1. conversation \in Seq(Byte) /\ candidate \in {0} \union Exact
    BY DEF CasesInit
  <2>2. ASSUME descriptors \in 1..Cardinality(Dirs) PROVE Dirs # {} /\ descriptors \in Nat
    <3>1. 1 \in 1..Cardinality(Dirs)
      BY <2>2, DirsAreNumbers
    <3> QED BY <2>2, <3>1, DirsAreNumbers
  <2> QED BY <2>1, <2>2 DEF CasesInit, CasesInv
<1>2. CasesInv /\ [CasesNext]_caseVars => CasesInv'
  <2> SUFFICES ASSUME CasesInv, [CasesNext]_caseVars PROVE CasesInv'
    OBVIOUS
  <2>1. CASE CasesNext
    <3>1. PICK b \in Alphabet : conversation' = Append(conversation, b)
      BY <2>1 DEF CasesNext
    <3>2. conversation' \in Seq(Byte)
      BY <3>1, AlphabetAssumption DEF CasesInv
    <3>3. UNCHANGED <<candidate, tree, descriptors>>
      BY <2>1 DEF CasesNext
    <3> QED BY <3>2, <3>3 DEF CasesInv, Trees
  <2>2. CASE UNCHANGED caseVars
    BY <2>2 DEF caseVars, CasesInv, Trees
  <2> QED BY <2>1, <2>2
<1> QED BY <1>1, <1>2, PTL DEF CasesSpec

(* Any conversation, over any alphabet and of any length, cut in two       *)
(* anywhere, is answered with its reference echo: the parser state is all  *)
(* that the echo servers have to carry from one recv() to the next.        *)
THEOREM ParserExact == CasesSpec => []ChunkedEchoIsExact
<1>1. CasesInv => ChunkedEchoIsExact
  <2> SUFFICES ASSUME CasesInv, NEW n \in 0..Len(conversation)
               PROVE  LET first  == Parse("WAIT_FOR_MSG", SubSeq(conversation, 1, n))
                          second == Parse(first.state, SubSeq(conversation, n + 1, Len(conversation)))
                      IN  first.out \o second.out = Echo(conversation)
    BY DEF ChunkedEchoIsExact
  <2> DEFINE all == conversation
             a == SubSeq(all, 1, n)
             b == SubSeq(all, n + 1, Len(all))
  <2>1. all \in Seq(Byte) /\ Len(all) \in Nat /\ Len(all) \in 0..Len(all)
    BY DEF CasesInv
  <2>2. a \in Seq(Byte) /\ b \in Seq(Byte)
    BY <2>1
  <2>3. a \o b = all
    <3>1. Prefix(all, n) \o SubSeq(all, n + 1, Len(all)) = Prefix(all, Len(all))
      <4>1. n \in Nat /\ n <= Len(all) /\ Len(all) <= Len(all)
        BY <2>1
      <4> HIDE DEF all
      <4> QED BY <2>1, <4>1, PrefixGrows
    <3>2. Prefix(all, n) = a /\ Prefix(all, Len(all)) = all
      BY <2>1 DEF Prefix
    <3> QED BY <3>1, <3>2
  <2>4. "WAIT_FOR_MSG" \in InternalState
    BY DEF InternalState
  <2> HIDE DEF a, b, all
  <2>5. Parse("WAIT_FOR_MSG", a).out \o Parse(Parse("WAIT_FOR_MSG", a).state, b).out
          = Parse("WAIT_FOR_MSG", a \o b).out
    BY <2>2, <2>4, ParseConcat
  <2>6. Parse("WAIT_FOR_MSG", a \o b).out = Echo(all)
    BY <2>1, <2>3, ParseIsEcho
  <2> QED BY <2>5, <2>6, Zenon DEF a, b, all
<1> QED BY <1>1, CasesInvariant, PTL

(* isprime() tells the primes among the numbers it is meant for, for every *)
(* width of its arithmetic.                                                *)
THEOREM PrimesExact == CasesSpec => []PrimalityIsExact
<1>1. CasesInv => PrimalityIsExact
  BY PrimalityExact DEF CasesInv, PrimalityIsExact
<1> QED BY <1>1, CasesInvariant, PTL

(* countFiles() returns the number of all files found or fails, for every  *)
(* number of directories in every order and any number of descriptors.     *)
THEOREM CountsExact == CasesSpec => []CountIsExactOrFails
<1>1. CasesInv => CountIsExactOrFails
  <2> SUFFICES ASSUME tree \in Trees, Dirs # {}, descriptors \in Nat
               PROVE  countFiles(tree, descriptors) =
                        IF \E d \in Found(tree) :
                             d \in tree.closed \/ Cardinality(Above(tree, d)) > descriptors
                        THEN -1 ELSE Sum(tree.files, Found(tree))
    BY DEF CasesInv, CountIsExactOrFails
  <2>1. IsTree(tree)
    BY DEF Trees, IsTree
  <2> QED BY <2>1, CountExact
<1> QED BY <1>1, CasesInvariant, PTL
=============================================================================
