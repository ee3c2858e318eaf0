-------------------------- MODULE ConnectionProofs --------------------------
(***************************************************************************)
(* What the proofs about the servers share, for every client, every        *)
(* sequence of bytes and every size of the buffers.                        *)
(*                                                                         *)
(* About the parser of EchoProtocol: what it returns, that it stages no    *)
(* more bytes than it is given, that parsing in pieces is parsing at once, *)
(* and that what it stages is the echo of the reference definition.  Parse *)
(* is a recursive function on 0..Len(bytes): that there is such a          *)
(* function, and what it is at each place, is shown with the set form of   *)
(* induction in UpTo.                                                      *)
(*                                                                         *)
(* About Sockets: what a client's step leaves true, and what recv() and    *)
(* send() answer.                                                          *)
(*                                                                         *)
(* About PeerHandlers: what the handlers do to the state of one            *)
(* connection, for every answer of recv() and send(): no assertion fails,  *)
(* the main loop is told to wait for the right event, and no byte is lost. *)
(***************************************************************************)
EXTENDS Sockets, PeerHandlers, WellFoundedInduction, FiniteSetTheorems, SequenceTheorems, TLAPS

-----------------------------------------------------------------------------
(* Induction up to a number, on a set.                                     *)

NatLess == {pair \in Nat \X Nat : pair[1] < pair[2]}

(* The order of the natural numbers is well-founded.                       *)
LEMMA NatLessWellFounded == IsWellFoundedOn(NatLess, Nat)
BY NatLessThanWellFounded, Zenon DEF NatLess, OpToRel

(* A set that has 0 and with every number below n the next one has all     *)
(* numbers up to n.                                                        *)
LEMMA UpTo ==
  ASSUME NEW n \in Nat, NEW S, 0 \in S,
         \A i \in 0..(n - 1) : i \in S => i + 1 \in S
  PROVE  \A i \in 0..n : i \in S
<1> DEFINE Missing == {i \in 0..n : i \notin S}
<1> SUFFICES ASSUME Missing # {} PROVE FALSE
  OBVIOUS
<1>1. Missing \in SUBSET Nat
  OBVIOUS
<1>2. \E x \in Missing : \A y \in Missing : ~ (<< y, x >> \in NatLess)
  BY <1>1, NatLessWellFounded, WFMin
<1>3. PICK x \in Missing : \A y \in Missing : ~ (<< y, x >> \in NatLess)
  BY <1>2
<1>4. \A y \in Missing : ~ (y < x)
  BY <1>1, <1>3 DEF NatLess
<1>5. x # 0 /\ x \in 0..n
  OBVIOUS
<1>6. x - 1 \in 0..(n - 1) /\ x - 1 \in S
  BY <1>4, <1>5
<1>7. x \in S
  BY <1>5, <1>6
<1> QED BY <1>7

-----------------------------------------------------------------------------
(* Pieces of a sequence of bytes.                                          *)

(* The bytes of s from m, exclusive, to n.                                 *)
LEMMA PieceType ==
  \A s \in Seq(Byte) : \A m, n \in Nat : m <= n /\ n <= Len(s) =>
    /\ SubSeq(s, m + 1, n) \in Seq(Byte)
    /\ Len(SubSeq(s, m + 1, n)) = n - m
<1> SUFFICES ASSUME NEW s \in Seq(Byte), NEW m \in Nat, NEW n \in Nat, m <= n, n <= Len(s)
             PROVE  /\ SubSeq(s, m + 1, n) \in Seq(Byte)
                    /\ Len(SubSeq(s, m + 1, n)) = n - m
  OBVIOUS
<1>1. \A i \in (m + 1)..n : s[i] \in Byte
  OBVIOUS
<1>2. m + 1 \in Int /\ n \in Int
  OBVIOUS
<1>3. /\ SubSeq(s, m + 1, n) \in Seq(Byte)
      /\ Len(SubSeq(s, m + 1, n)) = IF m + 1 <= n THEN n - (m + 1) + 1 ELSE 0
  BY <1>1, <1>2, SubSeqProperties
<1> QED BY <1>3

(* Neighbouring pieces make one piece.                                     *)
LEMMA PiecesMeet ==
  \A s \in Seq(Byte) : \A k, m, n \in Nat : k <= m /\ m <= n /\ n <= Len(s) =>
    SubSeq(s, k + 1, m) \o SubSeq(s, m + 1, n) = SubSeq(s, k + 1, n)
<1> SUFFICES ASSUME NEW s \in Seq(Byte), NEW k \in Nat, NEW m \in Nat, NEW n \in Nat,
                    k <= m, m <= n, n <= Len(s)
             PROVE  SubSeq(s, k + 1, m) \o SubSeq(s, m + 1, n) = SubSeq(s, k + 1, n)
  OBVIOUS
<1>1. k + 1 \in 1..(Len(s) + 1) /\ m \in (k + 1 - 1)..Len(s) /\ n \in m..Len(s)
  OBVIOUS
<1> QED BY <1>1, ConcatAdjacentSubSeq

(* A prefix and the piece that follows it make a longer prefix.            *)
LEMMA PrefixGrows ==
  \A s \in Seq(Byte) : \A m, n \in Nat : m <= n /\ n <= Len(s) =>
    /\ Prefix(s, m) \in Seq(Byte)
    /\ Len(Prefix(s, m)) = m
    /\ Prefix(s, m) \o SubSeq(s, m + 1, n) = Prefix(s, n)
<1> SUFFICES ASSUME NEW s \in Seq(Byte), NEW m \in Nat, NEW n \in Nat, m <= n, n <= Len(s)
             PROVE  /\ Prefix(s, m) \in Seq(Byte)
                    /\ Len(Prefix(s, m)) = m
                    /\ Prefix(s, m) \o SubSeq(s, m + 1, n) = Prefix(s, n)
  OBVIOUS
<1>1. 0 \in Nat /\ 0 + 1 = 1 /\ 0 <= m /\ m <= Len(s) /\ m - 0 = m
  OBVIOUS
<1>2. Prefix(s, m) \in Seq(Byte) /\ Len(Prefix(s, m)) = m
  BY <1>1, PieceType DEF Prefix
<1>3. SubSeq(s, 0 + 1, m) \o SubSeq(s, m + 1, n) = SubSeq(s, 0 + 1, n)
  BY <1>1, PiecesMeet, Zenon
<1> QED BY <1>1, <1>2, <1>3 DEF Prefix

(* The front of the rest of a sequence is a piece of the sequence.         *)
LEMMA PieceOfRest ==
  \A s \in Seq(Byte) : \A k, m \in Nat : k + m <= Len(s) =>
    SubSeq(SubSeq(s, k + 1, Len(s)), 1, m) = SubSeq(s, k + 1, k + m)
<1> SUFFICES ASSUME NEW s \in Seq(Byte), NEW k \in Nat, NEW m \in Nat, k + m <= Len(s)
             PROVE  SubSeq(SubSeq(s, k + 1, Len(s)), 1, m) = SubSeq(s, k + 1, k + m)
  OBVIOUS
<1> DEFINE rest == SubSeq(s, k + 1, Len(s))
           l == SubSeq(rest, 1, m)
           r == SubSeq(s, k + 1, k + m)
<1>1. Len(s) \in Nat /\ k <= Len(s)
  OBVIOUS
<1>2. rest \in Seq(Byte) /\ Len(rest) = Len(s) - k
  BY <1>1, PieceType
<1>3. \A i \in 1..Len(rest) : rest[i] = s[k + i]
  BY <1>1
<1>4. r \in Seq(Byte) /\ Len(r) = m
  BY <1>1, PieceType
<1>5. \A i \in 1..m : r[i] = s[k + i]
  BY <1>1
<1> HIDE DEF rest, r
<1>6. l \in Seq(Byte) /\ Len(l) = m /\ \A i \in 1..m : l[i] = rest[i]
  <2>1. 0 + 1 = 1 /\ 0 \in Nat /\ m - 0 = m /\ 0 <= m /\ m <= Len(rest)
    BY <1>1, <1>2
  <2>2. l \in Seq(Byte) /\ Len(l) = m
    BY <1>2, <2>1, PieceType
  <2> QED BY <1>2, <2>1, <2>2
<1> HIDE DEF l
<1>7. \A i \in 1..Len(l) : l[i] = r[i]
  BY <1>1, <1>2, <1>3, <1>5, <1>6
<1>8. l = r
  BY <1>4, <1>6, <1>7, SeqEqual
<1> QED BY <1>8 DEF l, r, rest

(* The rest of a sequence is its front and what comes after.               *)
LEMMA RestInTwo ==
  \A s \in Seq(Byte) : \A k, m \in Nat : k + m <= Len(s) =>
    SubSeq(SubSeq(s, k + 1, Len(s)), 1, m) \o SubSeq(s, k + m + 1, Len(s))
      = SubSeq(s, k + 1, Len(s))
<1> TAKE s \in Seq(Byte)
<1> TAKE k, m \in Nat
<1> HAVE k + m <= Len(s)
<1>1. /\ Len(s) \in Nat /\ k + m \in Nat
      /\ k <= k + m /\ k + m <= Len(s) /\ Len(s) <= Len(s)
  OBVIOUS
<1>2. SubSeq(SubSeq(s, k + 1, Len(s)), 1, m) = SubSeq(s, k + 1, k + m)
  BY PieceOfRest
<1> DEFINE j == k + m
           n == Len(s)
<1>3. /\ j \in Nat /\ n \in Nat /\ k <= j /\ j <= n /\ n <= Len(s)
  BY <1>1
<1> HIDE DEF j, n
<1>4. SubSeq(s, k + 1, j) \o SubSeq(s, j + 1, n) = SubSeq(s, k + 1, n)
  BY <1>3, PiecesMeet
<1> QED BY <1>2, <1>4 DEF j, n

(* Concatenation of sequences of bytes.                                    *)
LEMMA ConcatType ==
  \A s, t \in Seq(Byte) : s \o t \in Seq(Byte) /\ Len(s \o t) = Len(s) + Len(t)
BY ConcatProperties

(* Concatenation is associative.                                           *)
LEMMA ConcatAssoc ==
  \A s, t, u \in Seq(Byte) : (s \o t) \o u = s \o (t \o u)
BY ConcatAssociative

(* Nothing is the neutral element of concatenation.                        *)
LEMMA ConcatNothing ==
  \A s \in Seq(Byte) : s \o << >> = s /\ << >> \o s = s
BY ConcatEmptySeq

(* The n bytes of a sequence after the first m.                            *)
LEMMA PieceBytes ==
  ASSUME NEW s \in Seq(Byte), NEW m \in Nat, NEW n \in Nat, m + n <= Len(s)
  PROVE  /\ SubSeq(s, m + 1, m + n) \in Seq(Byte)
         /\ Len(SubSeq(s, m + 1, m + n)) = n
         /\ \A k \in 1..n : SubSeq(s, m + 1, m + n)[k] = s[k + m]
<1> DEFINE q == m + n
<1>1. q \in Nat /\ m <= q /\ q <= Len(s) /\ q - m = n
  OBVIOUS
<1>2. SubSeq(s, m + 1, q) = [k \in 1..(q - m) |-> s[k + m]]
  OBVIOUS
<1> HIDE DEF q
<1>3. SubSeq(s, m + 1, q) \in Seq(Byte) /\ Len(SubSeq(s, m + 1, q)) = q - m
  BY <1>1, PieceType
<1>4. \A k \in 1..n : SubSeq(s, m + 1, q)[k] = s[k + m]
  BY <1>1, <1>2
<1> QED BY <1>1, <1>3, <1>4 DEF q

(* What a sequence begins with.                                            *)
LEMMA BeginsWith ==
  ASSUME NEW s \in Seq(Byte), NEW rest \in Seq(Byte), NEW whole, s \o rest = whole
  PROVE  /\ whole \in Seq(Byte) /\ Len(whole) \in Nat /\ Len(s) <= Len(whole)
         /\ s = Prefix(whole, Len(s))
<1> DEFINE front == Prefix(whole, Len(s))
           z == 0
<1>1. /\ whole \in Seq(Byte) /\ Len(whole) = Len(s) + Len(rest)
      /\ Len(s) \in Nat /\ Len(rest) \in Nat
      /\ \A k \in 1..Len(s) : whole[k] = s[k]
  <2>1. whole \in Seq(Byte) /\ Len(whole) = Len(s) + Len(rest)
    BY ConcatType
  <2>2. /\ Len(s) \in Nat /\ Len(rest) \in Nat
        /\ \A k \in 1..Len(s) : (s \o rest)[k] = s[k]
    OBVIOUS
  <2> QED BY <2>1, <2>2
<1>2. Len(s) <= Len(whole) /\ Len(whole) \in Nat /\ z \in Nat /\ z + Len(s) <= Len(whole)
  BY <1>1
<1>3. front = SubSeq(whole, z + 1, z + Len(s)) /\ \A k \in 1..Len(s) : k + z = k
  BY <1>1 DEF Prefix
<1> HIDE DEF z
<1>4. front \in Seq(Byte) /\ Len(front) = Len(s) /\ \A k \in 1..Len(s) : front[k] = whole[k]
  BY <1>1, <1>2, <1>3, PieceBytes
<1> HIDE DEF front
<1>5. \A k \in 1..Len(s) : s[k] = front[k]
  BY <1>1, <1>4
<1>6. s = front
  BY <1>4, <1>5, SeqEqual
<1> QED BY <1>1, <1>2, <1>6 DEF front

-----------------------------------------------------------------------------
(* One byte.                                                               *)

Parsing == [state : InternalState, out : Seq(Byte)]
Start(state) == [state |-> state, out |-> << >>]

(* A step of the parser stages at most one byte, and never goes back to    *)
(* INITIAL_ACK.                                                            *)
LEMMA ByteStepType ==
  ASSUME NEW p \in Parsing, NEW b \in Byte
  PROVE  /\ ByteStep(p, b) \in Parsing
         /\ Len(ByteStep(p, b).out) <= Len(p.out) + 1
         /\ p.state # "INITIAL_ACK" => ByteStep(p, b).state # "INITIAL_ACK"
<1>1. Bump(b) \in Byte
  BY DEF Bump, Byte
<1>2. /\ Append(p.out, Bump(b)) \in Seq(Byte)
      /\ Len(Append(p.out, Bump(b))) = Len(p.out) + 1
  BY <1>1 DEF Parsing
<1>3. CASE p.state = "WAIT_FOR_MSG"
  BY <1>3 DEF ByteStep, Parsing, InternalState
<1>4. CASE p.state = "IN_MSG" /\ b = DOLLAR
  BY <1>4 DEF ByteStep, Parsing, InternalState
<1>5. CASE p.state = "IN_MSG" /\ b # DOLLAR
  <2>1. ByteStep(p, b) = [p EXCEPT !.out = Append(p.out, Bump(b))]
    BY <1>5, Zenon DEF ByteStep
  <2>2. ByteStep(p, b) = [state |-> p.state, out |-> Append(p.out, Bump(b))]
    BY <2>1 DEF Parsing
  <2> HIDE DEF ByteStep, Bump
  <2> QED BY <1>2, <1>5, <2>2 DEF Parsing
<1>6. CASE p.state = "INITIAL_ACK"
  BY <1>6 DEF ByteStep, Parsing, InternalState
<1> QED BY <1>3, <1>4, <1>5, <1>6 DEF Parsing, InternalState

(* Appending at the end of a concatenation.                               *)
LEMMA AppendBehind ==
  \A s, t \in Seq(Byte) : \A x \in Byte : Append(s \o t, x) = s \o Append(t, x)
<1> SUFFICES ASSUME NEW s \in Seq(Byte), NEW t \in Seq(Byte), NEW x \in Byte
             PROVE  Append(s \o t, x) = s \o Append(t, x)
  OBVIOUS
<1> DEFINE l == Append(s \o t, x)
           r == s \o Append(t, x)
<1>1. /\ s \o t \in Seq(Byte) /\ Len(s \o t) = Len(s) + Len(t)
      /\ Append(t, x) \in Seq(Byte) /\ Len(Append(t, x)) = Len(t) + 1
      /\ Len(s) \in Nat /\ Len(t) \in Nat
  OBVIOUS
<1>2. l \in Seq(Byte) /\ Len(l) = Len(s) + Len(t) + 1
  BY <1>1
<1>3. r \in Seq(Byte) /\ Len(r) = Len(s) + Len(t) + 1
  BY <1>1
<1>4. ASSUME NEW i \in 1..Len(l) PROVE l[i] = r[i]
  BY <1>1, <1>2, <1>3
<1> HIDE DEF l, r
<1>5. l = r
  BY <1>2, <1>3, <1>4, SeqEqual
<1> QED BY <1>5 DEF l, r

(* What is staged already does not matter to a step.                       *)
LEMMA ByteStepBehind ==
  ASSUME NEW p \in Parsing, NEW q \in Parsing, NEW b \in Byte, NEW o \in Seq(Byte),
         p.state = q.state, p.out = o \o q.out
  PROVE  /\ ByteStep(p, b).state = ByteStep(q, b).state
         /\ ByteStep(p, b).out = o \o ByteStep(q, b).out
<1>1. Bump(b) \in Byte
  BY DEF Bump, Byte
<1>2. Append(o \o q.out, Bump(b)) = o \o Append(q.out, Bump(b))
  <2>1. q.out \in Seq(Byte)
    BY DEF Parsing
  <2> QED BY <1>1, <2>1, AppendBehind, Zenon
<1>3. CASE p.state = "WAIT_FOR_MSG"
  BY <1>3 DEF ByteStep, Parsing, InternalState
<1>4. CASE p.state = "IN_MSG" /\ b = DOLLAR
  BY <1>4 DEF ByteStep, Parsing, InternalState
<1>5. CASE p.state = "IN_MSG" /\ b # DOLLAR
  BY <1>2, <1>5 DEF ByteStep, Parsing, InternalState
<1>6. CASE p.state = "INITIAL_ACK"
  BY <1>6 DEF ByteStep, Parsing, InternalState
<1> QED BY <1>3, <1>4, <1>5, <1>6 DEF Parsing, InternalState

-----------------------------------------------------------------------------
(* The loop.                                                               *)

(* f is what the loop computes on the first n of the bytes.                *)
IsRun(f, state, bytes, n) ==
  f = [i \in 0..n |-> IF i = 0 THEN Start(state) ELSE ByteStep(f[i - 1], bytes[i])]

(* The loop computes something on every prefix of the bytes.               *)
LEMMA RunExists ==
  ASSUME NEW state, NEW bytes, NEW n \in Nat
  PROVE  \E f : IsRun(f, state, bytes, n)
<1> DEFINE S == {m \in Nat : \E f : IsRun(f, state, bytes, m)}
<1>1. 0 \in S
  <2> DEFINE f == [i \in 0..0 |-> Start(state)]
  <2>1. f = [i \in 0..0 |-> IF i = 0 THEN Start(state) ELSE ByteStep(f[i - 1], bytes[i])]
    OBVIOUS
  <2> QED BY <2>1 DEF IsRun
<1>2. ASSUME NEW m \in 0..(n - 1), m \in S PROVE m + 1 \in S
  <2>1. PICK f : IsRun(f, state, bytes, m)
    BY <1>2
  <2> DEFINE g == [i \in 0..(m + 1) |->
                     IF i = m + 1 THEN ByteStep(f[m], bytes[m + 1]) ELSE f[i]]
  <2>2. ASSUME NEW i \in 0..(m + 1)
        PROVE  g[i] = IF i = 0 THEN Start(state) ELSE ByteStep(g[i - 1], bytes[i])
    <3>1. CASE i = m + 1
      BY <3>1
    <3>2. CASE i # m + 1
      <4>1. i \in 0..m /\ (i # 0 => i - 1 \in 0..m /\ i - 1 # m + 1)
        BY <3>2
      <4>2. f[i] = IF i = 0 THEN Start(state) ELSE ByteStep(f[i - 1], bytes[i])
        BY <2>1, <4>1 DEF IsRun
      <4> QED BY <3>2, <4>1, <4>2
    <3> QED BY <3>1, <3>2
  <2>3. g = [i \in 0..(m + 1) |->
               IF i = 0 THEN Start(state) ELSE ByteStep(g[i - 1], bytes[i])]
    <3>1. g = [i \in 0..(m + 1) |-> g[i]]
      OBVIOUS
    <3> HIDE DEF g
    <3> QED BY <2>2, <3>1
  <2> HIDE DEF g
  <2> QED BY <2>3 DEF IsRun
<1> HIDE DEF S
<1>3. n \in S
  BY <1>1, <1>2, UpTo
<1> QED BY <1>3 DEF S

(* Parse returns the last turn of the loop.                                *)
LEMMA ParseRun ==
  ASSUME NEW state, NEW bytes \in Seq(Byte)
  PROVE  \E f : /\ IsRun(f, state, bytes, Len(bytes))
                /\ Parse(state, bytes) = f[Len(bytes)]
<1> DEFINE Last == CHOOSE f : IsRun(f, state, bytes, Len(bytes))
<1>1. IsRun(Last, state, bytes, Len(bytes))
  BY RunExists
<1>2. Parse(state, bytes) = Last[Len(bytes)]
  BY DEF Parse, IsRun, Start
<1> QED BY <1>1, <1>2

(* After i bytes at most i are staged, and a parser that is not in         *)
(* INITIAL_ACK does not get there.                                         *)
LEMMA RunType ==
  ASSUME NEW state \in InternalState, NEW bytes \in Seq(Byte),
         NEW f, IsRun(f, state, bytes, Len(bytes)), NEW i \in 0..Len(bytes)
  PROVE  /\ f[i] \in Parsing
         /\ Len(f[i].out) <= i
         /\ state # "INITIAL_ACK" => f[i].state # "INITIAL_ACK"
<1> DEFINE S == {m \in 0..Len(bytes) :
                   /\ f[m] \in Parsing
                   /\ Len(f[m].out) <= m
                   /\ state # "INITIAL_ACK" => f[m].state # "INITIAL_ACK"}
<1>1. Len(bytes) \in Nat
  OBVIOUS
<1>2. 0 \in S
  <2>1. f[0] = Start(state)
    BY <1>1 DEF IsRun
  <2>2. Start(state) \in Parsing /\ Start(state).state = state /\ Len(Start(state).out) = 0
    BY DEF Start, Parsing
  <2> HIDE DEF Start, Parsing
  <2> QED BY <1>1, <2>1, <2>2
<1>3. ASSUME NEW m \in 0..(Len(bytes) - 1), m \in S PROVE m + 1 \in S
  <2>1. f[m + 1] = ByteStep(f[m], bytes[m + 1])
    BY <1>1 DEF IsRun
  <2>2. bytes[m + 1] \in Byte
    BY <1>1
  <2>3. f[m].out \in Seq(Byte) /\ f[m + 1].out \in Seq(Byte)
    BY <1>3, <2>1, <2>2, ByteStepType DEF Parsing
  <2>4. f[m] \in Parsing /\ Len(f[m].out) <= m
    BY <1>3
  <2>5. /\ f[m + 1] \in Parsing
        /\ Len(f[m + 1].out) <= Len(f[m].out) + 1
        /\ f[m].state # "INITIAL_ACK" => f[m + 1].state # "INITIAL_ACK"
    BY <2>1, <2>2, <2>4, ByteStepType
  <2>6. Len(f[m + 1].out) <= m + 1
    BY <2>3, <2>4, <2>5
  <2> QED BY <1>1, <1>3, <2>5, <2>6
<1> HIDE DEF S
<1>4. \A m \in 0..Len(bytes) : m \in S
  BY <1>1, <1>2, <1>3, UpTo
<1> QED BY <1>4 DEF S

-----------------------------------------------------------------------------
(* What a server may rely on.                                              *)

(* A parse stages no more bytes than it is given, and a connection that    *)
(* has been greeted stays so.                                              *)
THEOREM ParseType ==
  ASSUME NEW state \in InternalState, NEW bytes \in Seq(Byte)
  PROVE  /\ Parse(state, bytes) \in Parsing
         /\ Len(Parse(state, bytes).out) <= Len(bytes)
         /\ state # "INITIAL_ACK" => Parse(state, bytes).state # "INITIAL_ACK"
<1>1. PICK f : /\ IsRun(f, state, bytes, Len(bytes))
               /\ Parse(state, bytes) = f[Len(bytes)]
  BY ParseRun
<1>2. Len(bytes) \in 0..Len(bytes)
  OBVIOUS
<1> QED BY <1>1, <1>2, RunType

(* Nothing is staged for no bytes, and the state stays.                    *)
THEOREM ParseNothing ==
  ASSUME NEW state
  PROVE  Parse(state, << >>) = Start(state)
<1>1. PICK f : IsRun(f, state, << >>, 0) /\ Parse(state, << >>) = f[0]
  <2>1. << >> \in Seq(Byte) /\ Len(<< >>) = 0
    OBVIOUS
  <2> QED BY <2>1, ParseRun
<1>2. f[0] = Start(state)
  BY <1>1 DEF IsRun
<1> QED BY <1>1, <1>2

(* The pieces in which recv() returns what a client says do not matter:    *)
(* parsing one piece after another, from the state the last one has left,  *)
(* stages the same bytes and ends in the same state as one parse of the    *)
(* whole.                                                                  *)
THEOREM ParseConcat ==
  ASSUME NEW state \in InternalState, NEW a \in Seq(Byte), NEW b \in Seq(Byte)
  PROVE  LET first == Parse(state, a)
             second == Parse(first.state, b)
             whole == Parse(state, a \o b)
         IN  /\ whole.state = second.state
             /\ whole.out = first.out \o second.out
<1>f. PICK f : IsRun(f, state, a, Len(a)) /\ Parse(state, a) = f[Len(a)]
  BY ParseRun
<1>g. PICK g : /\ IsRun(g, f[Len(a)].state, b, Len(b))
               /\ Parse(f[Len(a)].state, b) = g[Len(b)]
  BY ParseRun
<1>h. PICK h : /\ IsRun(h, state, a \o b, Len(a \o b))
               /\ Parse(state, a \o b) = h[Len(a \o b)]
  <2>1. a \o b \in Seq(Byte)
    OBVIOUS
  <2> QED BY <2>1, ParseRun, Zenon
<1> DEFINE la == Len(a)
           lb == Len(b)
           ab == a \o b
<1>1. /\ la \in Nat /\ lb \in Nat
      /\ ab \in Seq(Byte) /\ Len(ab) = la + lb
      /\ \A i \in 1..la : ab[i] = a[i]
      /\ \A i \in 1..lb : ab[la + i] = b[i]
  BY ConcatProperties
<1>2. /\ \A i \in 0..la : f[i] = IF i = 0 THEN Start(state) ELSE ByteStep(f[i - 1], a[i])
      /\ \A i \in 0..lb : g[i] = IF i = 0 THEN Start(f[la].state)
                                          ELSE ByteStep(g[i - 1], b[i])
      /\ \A i \in 0..(la + lb) : h[i] = IF i = 0 THEN Start(state)
                                                 ELSE ByteStep(h[i - 1], ab[i])
  BY <1>1, <1>f, <1>g, <1>h DEF IsRun
<1>3. IsRun(h, state, ab, Len(ab))
  BY <1>h
<1> HIDE DEF la, lb, ab
<1>4. h[la] = f[la]
  <2> DEFINE S == {m \in 0..la : h[m] = f[m]}
  <2>1. 0 \in S
    BY <1>1, <1>2
  <2>2. ASSUME NEW m \in 0..(la - 1), m \in S PROVE m + 1 \in S
    <3>1. m + 1 \in 0..la /\ m + 1 \in 0..(la + lb) /\ m + 1 \in 1..la /\ m + 1 # 0
      BY <1>1
    <3>2. h[m + 1] = ByteStep(h[m], a[m + 1]) /\ f[m + 1] = ByteStep(f[m], a[m + 1])
      BY <1>1, <1>2, <3>1
    <3> QED BY <2>2, <3>1, <3>2
  <2> HIDE DEF S
  <2>3. la \in Nat
    BY <1>1
  <2>4. \A m \in 0..la : m \in S
    BY <2>1, <2>2, <2>3, UpTo
  <2> QED BY <2>3, <2>4 DEF S
<1>5. f[la] \in Parsing
  BY <1>1, <1>f, RunType DEF la
<1>6. f[la].state \in InternalState /\ f[la].out \in Seq(Byte)
  BY <1>5 DEF Parsing
<1>7. \A i \in 0..lb : g[i] \in Parsing
  BY <1>6, <1>g, RunType DEF la, lb
<1>8. \A i \in 0..(la + lb) : h[i] \in Parsing
  BY <1>1, <1>3, RunType
<1> DEFINE S == {m \in 0..lb : /\ h[la + m].state = g[m].state
                               /\ h[la + m].out = f[la].out \o g[m].out}
<1>9. 0 \in S
  <2>1. g[0] = Start(f[la].state)
    BY <1>1, <1>2
  <2>2. f[la].out \o << >> = f[la].out
    BY <1>6, ConcatEmptySeq
  <2>3. h[la + 0] = f[la]
    BY <1>1, <1>4
  <2>4. g[0].state = f[la].state /\ g[0].out = << >>
    BY <2>1 DEF Start
  <2>5. 0 \in 0..lb
    BY <1>1
  <2> QED BY <2>2, <2>3, <2>4, <2>5
<1>10. ASSUME NEW m \in 0..(lb - 1), m \in S PROVE m + 1 \in S
  <2>1. /\ m + 1 \in 1..lb /\ m + 1 \in 0..lb /\ m \in 0..lb
        /\ la + m \in 0..(la + lb) /\ la + (m + 1) \in 0..(la + lb)
        /\ la + (m + 1) # 0 /\ la + (m + 1) - 1 = la + m /\ m + 1 - 1 = m /\ m + 1 # 0
    BY <1>1
  <2>2. /\ h[la + (m + 1)] = ByteStep(h[la + m], b[m + 1])
        /\ g[m + 1] = ByteStep(g[m], b[m + 1])
    BY <1>1, <1>2, <2>1
  <2>3. h[la + m] \in Parsing /\ g[m] \in Parsing /\ b[m + 1] \in Byte
    <3>1. h[la + m] \in Parsing /\ g[m] \in Parsing
      BY <1>7, <1>8, <2>1
    <3>2. m + 1 \in 1..Len(b) /\ b \in Seq(Byte)
      BY <2>1 DEF lb
    <3>3. b[m + 1] \in Byte
      BY <3>2
    <3> QED BY <3>1, <3>3
  <2>4. /\ ByteStep(h[la + m], b[m + 1]).state = ByteStep(g[m], b[m + 1]).state
        /\ ByteStep(h[la + m], b[m + 1]).out = f[la].out \o ByteStep(g[m], b[m + 1]).out
    BY <1>6, <1>10, <2>3, ByteStepBehind
  <2> QED BY <2>1, <2>2, <2>4
<1> HIDE DEF S
<1>11. lb \in Nat
  BY <1>1
<1>12. \A m \in 0..lb : m \in S
  BY <1>9, <1>10, <1>11, UpTo
<1>13. /\ h[la + lb].state = g[lb].state
       /\ h[la + lb].out = f[la].out \o g[lb].out
  <2>1. lb \in S
    BY <1>11, <1>12
  <2> QED BY <2>1, Zenon DEF S
<1>14. Len(ab) = la + lb
  BY <1>1
<1>15. /\ h[Len(a \o b)].state = g[Len(b)].state
       /\ h[Len(a \o b)].out = f[Len(a)].out \o g[Len(b)].out
  BY <1>13, <1>14, Zenon DEF la, lb, ab
<1> QED BY <1>f, <1>g, <1>h, <1>15, Zenon

-----------------------------------------------------------------------------
(* The parse is the echo of the reference.                                 *)

(* The echoed bytes among the first m.                                     *)
EchoedUpTo(bytes, m) == {j \in Echoed(bytes) : j <= m}

LEMMA EchoedFinite ==
  ASSUME NEW bytes \in Seq(Byte), NEW m \in Nat
  PROVE  /\ IsFiniteSet(EchoedUpTo(bytes, m)) /\ Cardinality(EchoedUpTo(bytes, m)) \in Nat
         /\ EchoedUpTo(bytes, 0) = {}
         /\ EchoedUpTo(bytes, Len(bytes)) = Echoed(bytes)
         /\ m + 1 \in Echoed(bytes)
              => /\ EchoedUpTo(bytes, m + 1) = EchoedUpTo(bytes, m) \cup {m + 1}
                 /\ Cardinality(EchoedUpTo(bytes, m + 1)) = Cardinality(EchoedUpTo(bytes, m)) + 1
         /\ m + 1 \notin Echoed(bytes) => EchoedUpTo(bytes, m + 1) = EchoedUpTo(bytes, m)
<1>1. Echoed(bytes) \in SUBSET (1..Len(bytes)) /\ Len(bytes) \in Nat
  BY DEF Echoed
<1>2. IsFiniteSet(1..Len(bytes)) /\ EchoedUpTo(bytes, m) \in SUBSET (1..Len(bytes))
  BY <1>1, FS_Interval DEF EchoedUpTo
<1>3. IsFiniteSet(EchoedUpTo(bytes, m)) /\ Cardinality(EchoedUpTo(bytes, m)) \in Nat
  BY <1>2, FS_Subset, FS_CardinalityType
<1>4. \A j \in Echoed(bytes) : j \in 1..Len(bytes)
  BY <1>1
<1> HIDE DEF Echoed
<1>5. EchoedUpTo(bytes, 0) = {} /\ EchoedUpTo(bytes, Len(bytes)) = Echoed(bytes)
  BY <1>1, <1>4 DEF EchoedUpTo
<1>6. ASSUME m + 1 \in Echoed(bytes)
      PROVE  /\ EchoedUpTo(bytes, m + 1) = EchoedUpTo(bytes, m) \cup {m + 1}
             /\ Cardinality(EchoedUpTo(bytes, m + 1)) = Cardinality(EchoedUpTo(bytes, m)) + 1
  <2>1. EchoedUpTo(bytes, m + 1) = EchoedUpTo(bytes, m) \cup {m + 1}
    BY <1>1, <1>4, <1>6 DEF EchoedUpTo
  <2>2. m + 1 \notin EchoedUpTo(bytes, m)
    BY DEF EchoedUpTo
  <2> QED BY <1>3, <2>1, <2>2, FS_AddElement
<1>7. ASSUME m + 1 \notin Echoed(bytes)
      PROVE  EchoedUpTo(bytes, m + 1) = EchoedUpTo(bytes, m)
  BY <1>1, <1>4, <1>7 DEF EchoedUpTo
<1> QED BY <1>3, <1>5, <1>6, <1>7

(* Whether a byte is inside a message, by what is before it.               *)
LEMMA InMessageNext ==
  ASSUME NEW bytes \in Seq(Byte), NEW m \in Nat
  PROVE  /\ ~ InMessage(bytes, 1)
         /\ InMessage(bytes, m + 2)
              <=> \/ bytes[m + 1] = CARET
                  \/ InMessage(bytes, m + 1) /\ bytes[m + 1] # DOLLAR
<1>1. ~ InMessage(bytes, 1)
  BY DEF InMessage
<1>2. ASSUME InMessage(bytes, m + 2), bytes[m + 1] # CARET
      PROVE  InMessage(bytes, m + 1) /\ bytes[m + 1] # DOLLAR
  <2>1. PICK j \in 1..(m + 1) : /\ bytes[j] = CARET
                                /\ \A k \in (j + 1)..(m + 1) : bytes[k] # DOLLAR
    BY <1>2 DEF InMessage
  <2>2. j \in 1..m /\ m + 1 \in (j + 1)..(m + 1)
    BY <1>2, <2>1
  <2>3. \A k \in (j + 1)..m : bytes[k] # DOLLAR
    BY <2>1, <2>2
  <2> QED BY <2>1, <2>2, <2>3 DEF InMessage
<1>3. ASSUME bytes[m + 1] = CARET
      PROVE  InMessage(bytes, m + 2)
  <2>1. m + 1 \in 1..((m + 2) - 1) /\ (m + 1 + 1)..((m + 2) - 1) = {}
    OBVIOUS
  <2> QED BY <1>3, <2>1 DEF InMessage
<1>4. ASSUME InMessage(bytes, m + 1), bytes[m + 1] # DOLLAR
      PROVE  InMessage(bytes, m + 2)
  <2>1. PICK j \in 1..m : /\ bytes[j] = CARET
                          /\ \A k \in (j + 1)..m : bytes[k] # DOLLAR
    BY <1>4 DEF InMessage
  <2>2. \A k \in (j + 1)..(m + 1) : bytes[k] # DOLLAR
    BY <1>4, <2>1
  <2>3. j \in 1..((m + 2) - 1) /\ (m + 2) - 1 = m + 1
    BY <2>1
  <2> QED BY <2>1, <2>2, <2>3 DEF InMessage
<1> QED BY <1>1, <1>2, <1>3, <1>4

(* What the loop has staged after m bytes: the echo of those among them    *)
(* that are echoed, each at its rank.                                      *)
Staging(bytes, p, m) ==
  /\ p.state = IF InMessage(bytes, m + 1) THEN "IN_MSG" ELSE "WAIT_FOR_MSG"
  /\ p.out \in Seq(Byte)
  /\ Len(p.out) = Cardinality(EchoedUpTo(bytes, m))
  /\ \A i \in EchoedUpTo(bytes, m) :
       /\ Rank(bytes, i) \in 1..Len(p.out)
       /\ p.out[Rank(bytes, i)] = Bump(bytes[i])
  /\ \A k \in 1..Len(p.out) : \E i \in EchoedUpTo(bytes, m) : Rank(bytes, i) = k

LEMMA StagingStep ==
  ASSUME NEW bytes \in Seq(Byte), NEW m \in 0..(Len(bytes) - 1), NEW p \in Parsing,
         Staging(bytes, p, m)
  PROVE  Staging(bytes, ByteStep(p, bytes[m + 1]), m + 1)
<1> DEFINE b == bytes[m + 1]
           q == ByteStep(p, b)
<1>0. /\ m \in Nat /\ Len(bytes) \in Nat /\ m + 1 \in 1..Len(bytes) /\ b \in Byte
      /\ (m + 1) + 1 = m + 2
  OBVIOUS
<1>1. InMessage(bytes, m + 2)
        <=> b = CARET \/ (InMessage(bytes, m + 1) /\ b # DOLLAR)
  BY <1>0, InMessageNext
<1>2. m + 1 \in Echoed(bytes) <=> InMessage(bytes, m + 1) /\ b # DOLLAR
  BY <1>0 DEF Echoed
<1>3. p.state \in {"IN_MSG", "WAIT_FOR_MSG"}
      /\ (p.state = "IN_MSG" <=> InMessage(bytes, m + 1))
  BY DEF Staging
<1>4. CARET # DOLLAR
  BY DEF CARET, DOLLAR
<1> HIDE DEF b
<1>5. CASE InMessage(bytes, m + 1) /\ b # DOLLAR
  <2>1. q.state = "IN_MSG" /\ q.out = Append(p.out, Bump(b))
    BY <1>3, <1>5 DEF ByteStep, Parsing
  <2>2. Bump(b) \in Byte /\ p.out \in Seq(Byte)
    BY <1>0 DEF Bump, Byte, Staging
  <2>3. /\ EchoedUpTo(bytes, m + 1) = EchoedUpTo(bytes, m) \cup {m + 1}
        /\ Cardinality(EchoedUpTo(bytes, m + 1)) = Cardinality(EchoedUpTo(bytes, m)) + 1
    BY <1>0, <1>2, <1>5, EchoedFinite
  <2> HIDE DEF q
  <2>4. /\ q.out \in Seq(Byte) /\ Len(q.out) = Len(p.out) + 1 /\ Len(p.out) \in Nat
        /\ \A k \in 1..Len(p.out) : q.out[k] = p.out[k]
        /\ q.out[Len(p.out) + 1] = Bump(b)
    BY <2>1, <2>2
  <2>5. Len(q.out) = Cardinality(EchoedUpTo(bytes, m + 1))
    BY <2>3, <2>4 DEF Staging
  <2>6. Rank(bytes, m + 1) = Len(p.out) + 1
    BY <2>3, <2>4 DEF Staging, Rank, EchoedUpTo
  <2>7. \A i \in EchoedUpTo(bytes, m + 1) : /\ Rank(bytes, i) \in 1..Len(q.out)
                                            /\ q.out[Rank(bytes, i)] = Bump(bytes[i])
    <3>1. ASSUME NEW i \in EchoedUpTo(bytes, m)
          PROVE  Rank(bytes, i) \in 1..Len(q.out) /\ q.out[Rank(bytes, i)] = Bump(bytes[i])
      BY <2>4, <3>1 DEF Staging
    <3>2. Rank(bytes, m + 1) \in 1..Len(q.out) /\ q.out[Rank(bytes, m + 1)] = Bump(bytes[m + 1])
      BY <2>4, <2>6 DEF b
    <3> QED BY <2>3, <3>1, <3>2
  <2>8. \A k \in 1..Len(q.out) : \E i \in EchoedUpTo(bytes, m + 1) : Rank(bytes, i) = k
    <3>1. ASSUME NEW k \in 1..Len(p.out)
          PROVE  \E i \in EchoedUpTo(bytes, m + 1) : Rank(bytes, i) = k
      BY <2>3, <3>1 DEF Staging
    <3>2. \A k \in 1..Len(q.out) : k \in 1..Len(p.out) \/ k = Len(p.out) + 1
      BY <2>4
    <3> QED BY <2>3, <2>6, <3>1, <3>2
  <2>9. q.state = IF InMessage(bytes, (m + 1) + 1) THEN "IN_MSG" ELSE "WAIT_FOR_MSG"
    BY <1>0, <1>1, <1>5, <2>1
  <2>10. Staging(bytes, q, m + 1)
    BY <2>4, <2>5, <2>7, <2>8, <2>9 DEF Staging
  <2> QED BY <2>10 DEF q, b
<1>6. CASE ~ (InMessage(bytes, m + 1) /\ b # DOLLAR)
  <2>1. /\ q.out = p.out
        /\ q.state = IF b = CARET THEN "IN_MSG" ELSE "WAIT_FOR_MSG"
    BY <1>3, <1>4, <1>6 DEF ByteStep, Parsing
  <2>2. EchoedUpTo(bytes, m + 1) = EchoedUpTo(bytes, m)
    BY <1>0, <1>2, <1>6, EchoedFinite
  <2>3. q.state = IF InMessage(bytes, (m + 1) + 1) THEN "IN_MSG" ELSE "WAIT_FOR_MSG"
    BY <1>0, <1>1, <1>6, <2>1
  <2> HIDE DEF q
  <2>4. Staging(bytes, q, m + 1)
    BY <2>1, <2>2, <2>3 DEF Staging
  <2> QED BY <2>4 DEF q, b
<1> QED BY <1>5, <1>6

(* The loop of the receive handlers computes the reference echo, for every *)
(* conversation: the bytes inside messages, each incremented by one.  With *)
(* ParseConcat, so it does however recv() cuts the conversation.           *)
THEOREM ParseIsEcho ==
  ASSUME NEW bytes \in Seq(Byte)
  PROVE  /\ Parse("WAIT_FOR_MSG", bytes).out = Echo(bytes)
         /\ Len(Parse("WAIT_FOR_MSG", bytes).out) = Cardinality(Echoed(bytes))
<1>0. "WAIT_FOR_MSG" \in InternalState /\ Len(bytes) \in Nat
  BY DEF InternalState
<1>1. PICK f : /\ IsRun(f, "WAIT_FOR_MSG", bytes, Len(bytes))
               /\ Parse("WAIT_FOR_MSG", bytes) = f[Len(bytes)]
  BY ParseRun
<1> DEFINE S == {m \in 0..Len(bytes) : Staging(bytes, f[m], m)}
<1>2. 0 \in S
  <2>1. f[0] = Start("WAIT_FOR_MSG")
    BY <1>0, <1>1 DEF IsRun
  <2>2. f[0].state = "WAIT_FOR_MSG" /\ f[0].out = << >>
    BY <2>1 DEF Start
  <2>3. Cardinality({}) = 0 /\ EchoedUpTo(bytes, 0) = {} /\ ~ InMessage(bytes, 0 + 1)
    BY <1>0, EchoedFinite, InMessageNext, FS_EmptySet
  <2>4. << >> \in Seq(Byte) /\ Len(<< >>) = 0 /\ 1..0 = {} /\ 0 + 1 = 1
    OBVIOUS
  <2>5. f[0].out \in Seq(Byte) /\ Len(f[0].out) = 0 /\ 1..Len(f[0].out) = {}
    BY <2>2, <2>4
  <2>6. Staging(bytes, f[0], 0)
    BY <2>2, <2>3, <2>5 DEF Staging
  <2> QED BY <1>0, <2>6
<1>3. ASSUME NEW m \in 0..(Len(bytes) - 1), m \in S PROVE m + 1 \in S
  <2>1. f[m + 1] = ByteStep(f[m], bytes[m + 1]) /\ m + 1 \in 0..Len(bytes) /\ m \in 0..Len(bytes)
    BY <1>0, <1>1 DEF IsRun
  <2>2. f[m] \in Parsing
    BY <1>0, <1>1, <2>1, RunType
  <2>3. Staging(bytes, f[m + 1], m + 1)
    BY <1>3, <2>1, <2>2, StagingStep
  <2> QED BY <2>1, <2>3
<1>4. Staging(bytes, Parse("WAIT_FOR_MSG", bytes), Len(bytes))
  <2> HIDE DEF S
  <2>1. Len(bytes) \in S
    <3>1. \A m \in 0..Len(bytes) : m \in S
      BY <1>0, <1>2, <1>3, UpTo
    <3> QED BY <1>0, <3>1
  <2> QED BY <1>1, <2>1 DEF S
<1> DEFINE out == Parse("WAIT_FOR_MSG", bytes).out
           n == Cardinality(Echoed(bytes))
<1>5. EchoedUpTo(bytes, Len(bytes)) = Echoed(bytes) /\ n \in Nat
  BY <1>0, EchoedFinite
<1>6. /\ out \in Seq(Byte) /\ Len(out) = n
      /\ \A i \in Echoed(bytes) : out[Rank(bytes, i)] = Bump(bytes[i])
      /\ \A k \in 1..n : \E i \in Echoed(bytes) : Rank(bytes, i) = k
  BY <1>4, <1>5 DEF Staging
<1> HIDE DEF out, n
<1>7. ASSUME NEW k \in 1..n
      PROVE  out[k] = Bump(bytes[CHOOSE i \in Echoed(bytes) : Rank(bytes, i) = k])
  <2> DEFINE place == CHOOSE i \in Echoed(bytes) : Rank(bytes, i) = k
  <2>1. place \in Echoed(bytes) /\ Rank(bytes, place) = k
    BY <1>6, <1>7
  <2> HIDE DEF place
  <2>2. out[k] = Bump(bytes[place])
    BY <1>6, <2>1
  <2> QED BY <2>2 DEF place
<1>8. out = [k \in 1..n |-> out[k]]
  BY <1>5, <1>6
<1>9. out = [k \in 1..n |-> Bump(bytes[CHOOSE i \in Echoed(bytes) : Rank(bytes, i) = k])]
  BY <1>7, <1>8
<1> QED BY <1>6, <1>9, Zenon DEF Echo, out, n

-----------------------------------------------------------------------------
(* The sockets.                                                            *)

(* The kernel holds no more than SockBuf bytes on their way to a client.   *)
KernelHolds == \A c \in Clients : Len(sent[c]) - drained[c] <= SockBuf

(* Nothing has passed over a connection that was not accepted.             *)
Untouched ==
  \A c \in Clients : link[c] \in {"idle", "backlog"} => taken[c] = 0 /\ sent[c] = << >>

SocketsInv == SocketsTypeOK /\ KernelHolds /\ Untouched

Answer == {"ok", "EAGAIN", "ECONNRESET"}

(* The invariant holds when no client has connected yet.                   *)
LEMMA SocketsInitInv == SocketsInit => SocketsInv
<1> SUFFICES ASSUME SocketsInit PROVE SocketsInv
  OBVIOUS
<1>1. \A c \in Clients : script[c] \in Scripts /\ script[c] \in Seq(Byte)
  BY SocketsAssumption DEF SocketsInit
<1> QED BY <1>1, SocketsAssumption
      DEF SocketsInit, SocketsInv, SocketsTypeOK, KernelHolds, Untouched, LinkState, FinState

(* Every step of a client keeps the invariant.                             *)
LEMMA ClientStepInv ==
  ASSUME SocketsInv, NEW c \in Clients, ClientStep(c)
  PROVE  SocketsInv'
<1> USE DEF SocketsInv, SocketsTypeOK, KernelHolds, Untouched, LinkState, FinState
<1>1. \A d \in Clients : Len(script[d]) \in Nat /\ Len(sent[d]) \in Nat
  BY SocketsAssumption
<1>2. CASE Connect(c)
  BY <1>1, <1>2 DEF Connect
<1>3. CASE Deliver(c)
  BY <1>1, <1>3 DEF Deliver
<1>4. CASE HangUp(c)
  BY <1>1, <1>4 DEF HangUp
<1>5. CASE Reset(c)
  BY <1>1, <1>5 DEF Reset
<1>6. CASE Drain(c)
  BY <1>1, <1>6, SocketsAssumption DEF Drain
<1> QED BY <1>2, <1>3, <1>4, <1>5, <1>6 DEF ClientStep

(* The bytes recv() returns are the next ones of the script, no more than  *)
(* have arrived and no more than the buffer holds.                         *)
LEMMA RecvType ==
  ASSUME SocketsTypeOK, NEW c \in Clients, NEW size \in Nat, NEW got \in recv(c, size)
  PROVE  /\ got \in [errno : Answer, bytes : Seq(Byte)]
         /\ Len(got.bytes) <= size
         /\ got.errno = "ok" \/ got.bytes = << >>
         /\ taken[c] + Len(got.bytes) <= arrived[c]
         /\ got.bytes = SubSeq(script[c], taken[c] + 1, taken[c] + Len(got.bytes))
<1> DEFINE n == Lesser(arrived[c] - taken[c], size)
           piece == SubSeq(script[c], taken[c] + 1, taken[c] + n)
<1>1. /\ script[c] \in Seq(Byte) /\ taken[c] \in Nat /\ arrived[c] \in Nat
      /\ taken[c] <= arrived[c] /\ arrived[c] <= Len(script[c]) /\ Len(script[c]) \in Nat
  BY SocketsAssumption DEF SocketsTypeOK
<1>2. n \in Nat /\ n <= size /\ taken[c] + n <= arrived[c]
  BY <1>1 DEF Lesser
<1> HIDE DEF n
<1>3. piece \in Seq(Byte) /\ Len(piece) = n
  <2>1. taken[c] + n \in Nat /\ taken[c] <= taken[c] + n /\ taken[c] + n <= Len(script[c])
    BY <1>1, <1>2
  <2> QED BY <1>1, <1>2, <2>1, PieceType
<1> HIDE DEF piece
<1>4. SubSeq(script[c], taken[c] + 1, taken[c] + 0) = << >>
  BY <1>1
<1>5. \/ got = [errno |-> "ok", bytes |-> piece]
      \/ got = [errno |-> "ok", bytes |-> << >>]
      \/ got = [errno |-> "EAGAIN", bytes |-> << >>]
      \/ got = [errno |-> "ECONNRESET", bytes |-> << >>]
  BY DEF recv, Received, piece, n
<1>6. CASE got = [errno |-> "ok", bytes |-> piece]
  <2>1. got.errno = "ok" /\ got.bytes = piece
    BY <1>6
  <2>2. got \in [errno : Answer, bytes : Seq(Byte)]
    BY <1>3, <1>6 DEF Answer
  <2>3. piece = SubSeq(script[c], taken[c] + 1, taken[c] + Len(piece))
    BY <1>3, Zenon DEF piece
  <2> QED BY <1>2, <1>3, <2>1, <2>2, <2>3
<1>7. CASE got.bytes = << >> /\ got \in [errno : Answer, bytes : Seq(Byte)]
  BY <1>1, <1>4, <1>7
<1>8. got = [errno |-> "ok", bytes |-> piece] \/
      (got.bytes = << >> /\ got \in [errno : Answer, bytes : Seq(Byte)])
  <2>1. ASSUME NEW e \in Answer, got = [errno |-> e, bytes |-> << >>]
        PROVE  got.bytes = << >> /\ got \in [errno : Answer, bytes : Seq(Byte)]
    BY <2>1
  <2>2. "ok" \in Answer /\ "EAGAIN" \in Answer /\ "ECONNRESET" \in Answer
    BY DEF Answer
  <2> QED BY <1>5, <2>1, <2>2, Zenon
<1> QED BY <1>6, <1>7, <1>8

(* send() takes at least one byte if it takes any, and no more than it was *)
(* given and the kernel has room for.                                      *)
LEMMA SendType ==
  ASSUME SocketsInv, NEW c \in Clients, NEW len \in Nat \ {0}
  PROVE  /\ send(c, len) \in [errno : Answer, nsent : 0..len]
         /\ send(c, len).errno = "ok" =>
              /\ send(c, len).nsent > 0
              /\ Len(sent[c]) + send(c, len).nsent - drained[c] <= SockBuf
<1>1. Len(sent[c]) \in Nat /\ drained[c] \in Nat /\ drained[c] <= Len(sent[c]) /\ SockBuf \in Nat
  BY SocketsAssumption DEF SocketsInv, SocketsTypeOK
<1>2. Room(c) \in Nat
  BY <1>1 DEF SocketsInv, KernelHolds, Room
<1>3. CASE fin[c] = "rst" \/ Room(c) = 0
  BY <1>3 DEF send, Answer
<1>4. CASE ~ (fin[c] = "rst" \/ Room(c) = 0)
  <2> DEFINE n == Lesser(len, Room(c))
  <2>1. n \in 1..len /\ n <= Room(c)
    BY <1>2, <1>4 DEF Lesser
  <2>2. send(c, len) = [errno |-> "ok", nsent |-> n]
    BY <1>4 DEF send
  <2> HIDE DEF n
  <2> QED BY <1>1, <2>1, <2>2 DEF Answer, Room
<1> QED BY <1>3, <1>4

(* recv() finds the end of the stream only when all that arrived is taken, *)
(* and fails otherwise only because of a reset.                            *)
LEMMA RecvEnds ==
  ASSUME SocketsTypeOK, NEW c \in Clients, NEW size \in Nat \ {0}, NEW got \in recv(c, size)
  PROVE  /\ got.errno = "ok" /\ got.bytes = << >> => fin[c] = "fin" /\ taken[c] = arrived[c]
         /\ got.errno = "ECONNRESET" => fin[c] = "rst"
<1> DEFINE n == Lesser(arrived[c] - taken[c], size)
           piece == SubSeq(script[c], taken[c] + 1, taken[c] + n)
<1>1. /\ script[c] \in Seq(Byte) /\ taken[c] \in Nat /\ arrived[c] \in Nat
      /\ taken[c] <= arrived[c] /\ arrived[c] <= Len(script[c]) /\ Len(script[c]) \in Nat
  BY SocketsAssumption DEF SocketsTypeOK
<1>2. ASSUME arrived[c] > taken[c] PROVE piece # << >>
  <2>1. n \in Nat /\ n > 0 /\ taken[c] + n <= arrived[c]
    BY <1>1, <1>2 DEF Lesser
  <2> HIDE DEF n
  <2>2. /\ taken[c] + n \in Nat /\ taken[c] <= taken[c] + n /\ taken[c] + n <= Len(script[c])
        /\ (taken[c] + n) - taken[c] = n
    BY <1>1, <2>1
  <2>3. Len(piece) = n
    BY <1>1, <2>2, PieceType
  <2> HIDE DEF piece
  <2>4. piece = << >> => Len(piece) = 0
    OBVIOUS
  <2> QED BY <2>1, <2>3, <2>4
<1> HIDE DEF piece
<1>3. \/ arrived[c] > taken[c] /\ got = [errno |-> "ok", bytes |-> piece]
      \/ arrived[c] = taken[c] /\ fin[c] = "fin" /\ got = [errno |-> "ok", bytes |-> << >>]
      \/ got = [errno |-> "EAGAIN", bytes |-> << >>]
      \/ fin[c] = "rst" /\ got = [errno |-> "ECONNRESET", bytes |-> << >>]
  BY DEF recv, Received, piece, n
<1> QED BY <1>2, <1>3

-----------------------------------------------------------------------------
(* What a server owes its clients, as EchoService puts it.                 *)

(* The answer to some bytes is the greeting and what the parser stages.    *)
LEMMA ReplyParsed ==
  ASSUME NEW bytes \in Seq(Byte)
  PROVE  /\ Reply(bytes) = << STAR >> \o Parse("WAIT_FOR_MSG", bytes).out
         /\ Reply(bytes) \in Seq(Byte)
<1>1. "WAIT_FOR_MSG" \in InternalState /\ << STAR >> \in Seq(Byte)
  BY DEF InternalState, STAR, Byte
<1>2. Parse("WAIT_FOR_MSG", bytes).out \in Seq(Byte)
  BY <1>1, ParseType DEF Parsing
<1>3. Reply(bytes) = << STAR >> \o Parse("WAIT_FOR_MSG", bytes).out
  BY ParseIsEcho DEF Reply
<1> QED BY <1>1, <1>2, <1>3, ConcatType

(* A client that was greeted is heard, or told more of what it is owed.    *)
Conversing(c) ==
  \E n \in taken[c]..arrived[c] :
    /\ n > taken[c] => sent[c] # << >>
    /\ taken' = [taken EXCEPT ![c] = n]
    /\ \E m \in Len(sent[c])..Len(Reply(Prefix(script[c], n))) :
         /\ Prefix(Reply(Prefix(script[c], n)), Len(sent[c])) = sent[c]
         /\ sent' = [sent EXCEPT ![c] = Prefix(Reply(Prefix(script[c], n)), m)]

(* What a client has been sent is the front of what it is owed.            *)
OwedFront(c) == \E rest \in Seq(Byte) : sent[c] \o rest = Reply(Prefix(script[c], taken[c]))

(* It is so when what was sent and what is sent then are both a front of   *)
(* what is owed then.                                                      *)
LEMMA ConversingStep ==
  ASSUME SocketsTypeOK, SocketsTypeOK', NEW c \in Clients, UNCHANGED <<script, arrived>>,
         \A d \in Clients \ {c} : taken'[d] = taken[d] /\ sent'[d] = sent[d],
         taken[c] <= taken'[c], taken'[c] > taken[c] => sent[c] # << >>,
         Len(sent[c]) <= Len(sent'[c]), OwedFront(c)',
         \E rest \in Seq(Byte) : sent[c] \o rest = Reply(Prefix(script[c], taken'[c]))
  PROVE  Conversing(c)
<1> DEFINE n == taken'[c]
           owed == Reply(Prefix(script[c], n))
           now == sent'[c]
           m == Len(now)
<1>1. /\ taken \in [Clients -> Nat] /\ taken' \in [Clients -> Nat]
      /\ sent \in [Clients -> Seq(Byte)] /\ sent' \in [Clients -> Seq(Byte)]
      /\ n \in Nat /\ n <= arrived[c] /\ now \in Seq(Byte)
      /\ taken[c] \in Nat /\ arrived[c] \in Nat /\ sent[c] \in Seq(Byte)
  BY DEF SocketsTypeOK
<1>2. taken' = [taken EXCEPT ![c] = n] /\ sent' = [sent EXCEPT ![c] = now]
  BY <1>1
<1>3. n \in taken[c]..arrived[c]
  BY <1>1
<1>4. (\E rest \in Seq(Byte) : sent[c] \o rest = owed) /\ (\E rest \in Seq(Byte) : now \o rest = owed)
  BY DEF OwedFront
<1>5. n > taken[c] => sent[c] # << >>
  OBVIOUS
<1> HIDE DEF n, owed, now
<1>6. sent[c] = Prefix(owed, Len(sent[c]))
  BY <1>1, <1>4, BeginsWith
<1>7. now = Prefix(owed, Len(now)) /\ Len(now) <= Len(owed) /\ Len(owed) \in Nat
  BY <1>1, <1>4, BeginsWith
<1>8. m \in Len(sent[c])..Len(owed)
  <2>1. m \in Nat /\ Len(sent[c]) \in Nat
    BY <1>1
  <2>2. Len(sent[c]) <= m
    BY DEF now
  <2>3. m <= Len(owed)
    BY <1>7
  <2> HIDE DEF m
  <2> QED BY <1>7, <2>1, <2>2, <2>3
<1>9. sent' = [sent EXCEPT ![c] = Prefix(owed, m)]
  BY <1>2, <1>7
<1> HIDE DEF m
<1> QED BY <1>2, <1>3, <1>5, <1>6, <1>8, <1>9, Zenon DEF Conversing, owed

-----------------------------------------------------------------------------
(* Counting descriptors.                                                   *)

(* There are as many descriptors in use as there are connections, if each  *)
(* is that of one connection and each connection has one.                  *)
LEMMA SameCount ==
  ASSUME NEW used, NEW open, IsFiniteSet(open), NEW who,
         \A fd \in used : who[fd] \in open,
         \A fd, other \in used : who[fd] = who[other] => fd = other,
         \A c \in open : \E fd \in used : who[fd] = c
  PROVE  /\ IsFiniteSet(used) /\ Cardinality(used) = Cardinality(open)
         /\ Cardinality(open) \in Nat
<1> DEFINE f == [fd \in used |-> who[fd]]
<1>1. f \in Injection(used, open)
  BY DEF Injection, IsInjective
<1>2. f \in Surjection(used, open)
  BY DEF Surjection
<1> HIDE DEF f
<1> QED BY <1>1, <1>2, FS_Injection, FS_CardinalityType

(* All the descriptors from the first up to a limit are in use.            *)
LEMMA AllUsed ==
  ASSUME NEW first \in Nat, NEW limit \in Nat, NEW used, IsFiniteSet(used),
         first..(limit - 1) \subseteq used
  PROVE  limit - first <= Cardinality(used)
<1> DEFINE range == first..(limit - 1)
<1>1. Cardinality(range) = IF first > limit - 1 THEN 0 ELSE (limit - 1) - first + 1
  BY FS_Interval
<1>2. Cardinality(range) <= Cardinality(used) /\ Cardinality(used) \in Nat
  BY FS_Subset, FS_CardinalityType
<1> HIDE DEF range
<1> QED BY <1>1, <1>2

(* One of them is free, and none beyond the limit is in use.               *)
LEMMA OneIsFree ==
  ASSUME NEW first \in Nat, NEW limit \in Nat, NEW used, IsFiniteSet(used),
         used \subseteq first..(limit - 1), NEW free \in first..(limit - 1), free \notin used
  PROVE  Cardinality(used) < limit - first
<1> DEFINE range == first..(limit - 1)
<1>1. IsFiniteSet(range) /\ Cardinality(range) = limit - first
  <2>1. /\ IsFiniteSet(range)
        /\ Cardinality(range) = IF first > limit - 1 THEN 0 ELSE (limit - 1) - first + 1
    BY FS_Interval
  <2>2. first <= limit - 1
    OBVIOUS
  <2> HIDE DEF range
  <2> QED BY <2>1, <2>2
<1>2. used # range
  OBVIOUS
<1> HIDE DEF range
<1>3. used \in SUBSET range
  BY DEF range
<1>4. Cardinality(used) <= Cardinality(range) /\ Cardinality(used) # Cardinality(range)
  BY <1>1, <1>2, <1>3, FS_Subset
<1>5. Cardinality(used) \in Nat
  BY FS_CardinalityType
<1> QED BY <1>1, <1>4, <1>5

-----------------------------------------------------------------------------
(* The handlers of PeerHandlers.                                           *)

Errno == {"ok", "EAGAIN", "ECONNRESET"}

(* What holds of the state of a connection between two handlers: either    *)
(* bytes are staged or the buffer has been emptied, and until the client   *)
(* has been greeted the greeting is what is staged.                        *)
GoodPeer(p) ==
  /\ p \in PeerState
  /\ Len(p.sendbuf) <= SendbufSize
  /\ Undrained(p) \/ (p.sendbuf = << >> /\ p.sendptr = 0)
  /\ p.state = "INITIAL_ACK" => p.sendbuf = << STAR >>

(* What a handler that was given a good state answers.                     *)
GoodAnswer(h) ==
  /\ GoodPeer(h.peer)
  /\ h.fate \in {"running", "exited"}
  /\ h.status \in SUBSET {"in", "out"}
  /\ h.fate = "running" =>
       h.status = fd_status_NORW \/ WaitsForTheRightEvent(h.peer, h.status)

(* A new connection starts in a good state and waits to be greeted.        *)
LEMMA ConnectedGood ==
  /\ GoodPeer(Greeting.peer)
  /\ WaitsForTheRightEvent(Greeting.peer, Greeting.status)
  /\ Greeting.status \in SUBSET {"in", "out"}
<1> DEFINE p == Greeting.peer
<1>1. << STAR >> \in Seq(Byte) /\ Len(<< STAR >>) = 1
  BY DEF STAR, Byte
<1>2. p.state = "INITIAL_ACK" /\ p.sendbuf = << STAR >> /\ p.sendptr = 0
  BY DEF Greeting
<1>3. p \in PeerState
  BY <1>1 DEF Greeting, PeerState, InternalState
<1>4. Undrained(p)
  BY <1>1, <1>2 DEF Undrained
<1>5. 1 <= SendbufSize
  BY BufferAssumption
<1>6. Greeting.status = fd_status_W
  BY DEF Greeting
<1> HIDE DEF p
<1>7. GoodPeer(p) /\ WaitsForTheRightEvent(p, fd_status_W)
  BY <1>1, <1>2, <1>3, <1>4, <1>5 DEF GoodPeer, WaitsForTheRightEvent
<1> QED BY <1>6, <1>7 DEF p, fd_status_W

(* The staged bytes of a good state.                                       *)
LEMMA StagedType ==
  ASSUME NEW p, GoodPeer(p)
  PROVE  /\ Staged(p) \in Seq(Byte)
         /\ Len(Staged(p)) = Len(p.sendbuf) - p.sendptr
         /\ Len(Staged(p)) \in Nat
         /\ Undrained(p) <=> Len(Staged(p)) > 0
         /\ Undrained(p) <=> Staged(p) # << >>
<1>1. p.sendbuf \in Seq(Byte) /\ p.sendptr \in Nat /\ Len(p.sendbuf) \in Nat
  BY DEF GoodPeer, PeerState
<1>2. p.sendptr <= Len(p.sendbuf)
  BY <1>1 DEF GoodPeer, Undrained
<1>3. /\ Staged(p) \in Seq(Byte)
      /\ Len(Staged(p)) = Len(p.sendbuf) - p.sendptr
  BY <1>1, <1>2, PieceType DEF Staged
<1>4. Undrained(p) <=> Len(Staged(p)) > 0
  BY <1>1, <1>3 DEF Undrained
<1>5. Len(Staged(p)) > 0 <=> Staged(p) # << >>
  BY <1>3
<1> QED BY <1>1, <1>2, <1>3, <1>4, <1>5

(* A peer that calls recv() has an empty buffer, so that whatever recv()   *)
(* returns fits: the assertion before each append holds.                   *)
LEMMA RecvGood ==
  ASSUME NEW p, GoodPeer(p), NEW got \in [errno : Errno, bytes : Seq(Byte)],
         Len(got.bytes) <= RecvSize
  PROVE  GoodAnswer(on_peer_ready_recv(p, got))
<1> SUFFICES ASSUME NEW h, h = on_peer_ready_recv(p, got) PROVE GoodAnswer(h)
  OBVIOUS
<1>1. CASE ~ CallsRecv(p)
  <2>1. h = [peer |-> p, status |-> fd_status_W, fate |-> "running"]
    BY <1>1 DEF on_peer_ready_recv
  <2>2. Undrained(p)
    <3>1. << STAR >> # << >>
      OBVIOUS
    <3> QED BY <1>1, <3>1, Zenon DEF CallsRecv, GoodPeer
  <2> QED BY <2>1, <2>2 DEF GoodAnswer, WaitsForTheRightEvent, GoodPeer, fd_status_W
<1>2. CASE CallsRecv(p)
  <2>1. /\ p.state # "INITIAL_ACK" /\ ~ Undrained(p) /\ p.sendbuf = << >> /\ p.sendptr = 0
        /\ p \in PeerState
    BY <1>2 DEF CallsRecv, GoodPeer
  <2>2. CASE got.errno = "ok" /\ got.bytes # << >>
    <3> DEFINE r == Parse(p.state, got.bytes)
    <3>1. /\ got.bytes \in Seq(Byte) /\ p.state \in InternalState
      BY <2>1 DEF PeerState
    <3>2. /\ r \in Parsing /\ Len(r.out) <= Len(got.bytes) /\ r.state # "INITIAL_ACK"
      BY <2>1, <3>1, ParseType
    <3> HIDE DEF r
    <3>3. /\ r.state \in InternalState /\ r.out \in Seq(Byte) /\ Len(r.out) \in Nat
      BY <3>2 DEF Parsing
    <3>4. Len(r.out) <= SendbufSize
      BY <3>1, <3>2, <3>3, BufferAssumption
    <3>5. p.sendbuf \o r.out = r.out
      BY <2>1, <3>3, ConcatEmptySeq
    <3>6. h = Consume(p, got.bytes)
      BY <1>2, <2>2 DEF on_peer_ready_recv
    <3>7. /\ h.peer = [state |-> r.state, sendbuf |-> r.out, sendptr |-> 0]
          /\ h.status = IF r.out = << >> THEN fd_status_R ELSE fd_status_W
          /\ h.fate = "running"
      <4>2. Len(p.sendbuf) + Len(r.out) <= SendbufSize
        BY <2>1, <3>3, <3>4
      <4>3. h.peer = [p EXCEPT !.state = r.state, !.sendbuf = r.out]
        BY <3>5, <3>6 DEF Consume, r
      <4>4. h.peer = [state |-> r.state, sendbuf |-> r.out, sendptr |-> 0]
        BY <2>1, <4>3 DEF PeerState
      <4>5. /\ h.status = IF r.out = << >> THEN fd_status_R ELSE fd_status_W
            /\ h.fate = "running"
        <5>1. h = [peer   |-> [p EXCEPT !.state = r.state, !.sendbuf = @ \o r.out],
                   status |-> IF r.out = << >> THEN fd_status_R ELSE fd_status_W,
                   fate   |-> IF Len(p.sendbuf) + Len(r.out) <= SendbufSize
                              THEN "running" ELSE "aborted"]
          BY <3>6, Zenon DEF Consume, r
        <5> QED BY <4>2, <5>1
      <4> QED BY <4>4, <4>5
    <3>8. GoodPeer(h.peer) /\ (Undrained(h.peer) <=> r.out # << >>)
      BY <3>2, <3>3, <3>4, <3>7 DEF GoodPeer, PeerState, Undrained
    <3> QED BY <3>2, <3>7, <3>8
          DEF GoodAnswer, WaitsForTheRightEvent, fd_status_R, fd_status_W
  <2>3. CASE got.errno # "ok" \/ got.bytes = << >>
    <3>1. h.peer = p /\ h.fate \in {"running", "exited"}
      BY <1>2, <2>3 DEF on_peer_ready_recv
    <3>2. \/ h.status = fd_status_NORW
          \/ h.status = fd_status_R
      BY <1>2, <2>3 DEF on_peer_ready_recv
    <3> QED BY <2>1, <3>1, <3>2
          DEF GoodAnswer, WaitsForTheRightEvent, fd_status_R, fd_status_NORW
  <2> QED BY <2>2, <2>3
<1> QED BY <1>1, <1>2

(* send() is called with something staged; what is left stays staged.      *)
LEMMA SendGood ==
  ASSUME NEW p, GoodPeer(p), Undrained(p),
         NEW answer \in [errno : Errno, nsent : 0..Len(Staged(p))]
  PROVE  GoodAnswer(on_peer_ready_send(p, answer))
<1> SUFFICES ASSUME NEW h, h = on_peer_ready_send(p, answer) PROVE GoodAnswer(h)
  OBVIOUS
<1>1. /\ p \in PeerState /\ p.sendbuf \in Seq(Byte) /\ p.sendptr \in Nat
      /\ Len(p.sendbuf) \in Nat /\ Len(Staged(p)) = Len(p.sendbuf) - p.sendptr
      /\ answer.nsent \in Nat
  BY StagedType DEF GoodPeer, PeerState
<1>2. CASE answer.errno # "ok"
  <2>1. h.peer = p /\ h.fate \in {"running", "exited"} /\ h.status = fd_status_W
    BY <1>2 DEF on_peer_ready_send
  <2> QED BY <2>1 DEF GoodAnswer, GoodPeer, WaitsForTheRightEvent, fd_status_W
<1>3. CASE answer.errno = "ok" /\ answer.nsent < Len(Staged(p))
  <2> DEFINE q == [p EXCEPT !.sendptr = @ + answer.nsent]
  <2>1. h = [peer |-> q, status |-> fd_status_W, fate |-> "running"]
    BY <1>3 DEF on_peer_ready_send
  <2>2. /\ q \in PeerState /\ q.sendbuf = p.sendbuf /\ q.state = p.state
        /\ q.sendptr = p.sendptr + answer.nsent
    BY <1>1 DEF PeerState
  <2> HIDE DEF q
  <2>3. Undrained(q)
    BY <1>1, <1>3, <2>2 DEF Undrained
  <2> QED BY <2>1, <2>2, <2>3 DEF GoodAnswer, GoodPeer, WaitsForTheRightEvent, fd_status_W
<1>4. CASE answer.errno = "ok" /\ ~ (answer.nsent < Len(Staged(p)))
  <2> DEFINE q == [state |-> IF p.state = "INITIAL_ACK" THEN "WAIT_FOR_MSG" ELSE p.state,
                   sendbuf |-> << >>, sendptr |-> 0]
  <2>1. h = [peer |-> q, status |-> fd_status_R, fate |-> "running"]
    BY <1>4 DEF on_peer_ready_send
  <2>2. GoodPeer(q) /\ ~ Undrained(q) /\ q.state # "INITIAL_ACK"
    BY <1>1, BufferAssumption DEF GoodPeer, PeerState, Undrained, InternalState
  <2> HIDE DEF q
  <2> QED BY <2>1, <2>2 DEF GoodAnswer, WaitsForTheRightEvent, fd_status_R
<1> QED BY <1>2, <1>3, <1>4

-----------------------------------------------------------------------------
(* No byte is lost or sent twice.  In what follows heard are the bytes     *)
(* taken from the client of p and said those sent to it.                   *)

(* A new client is owed its greeting, which is staged.                     *)
LEMMA ConnectedAccounted == Accounted(Greeting.peer, << >>, << >>)
<1> DEFINE p == Greeting.peer
<1>1. p.state = "INITIAL_ACK" /\ p.sendbuf = << STAR >> /\ p.sendptr = 0
  BY DEF Greeting
<1>2. << STAR >> \in Seq(Byte) /\ Len(<< STAR >>) = 1
  BY DEF STAR, Byte
<1>3. Staged(p) = << STAR >>
  <2>1. SubSeq(<< STAR >>, 1, 1) = << STAR >>
    BY <1>2, SubSeqFull
  <2> HIDE DEF p
  <2> QED BY <1>1, <1>2, <2>1 DEF Staged
<1>4. Parse("WAIT_FOR_MSG", << >>).out = << >>
  <2>1. Parse("WAIT_FOR_MSG", << >>) = Start("WAIT_FOR_MSG")
    BY ParseNothing, Zenon
  <2> QED BY <2>1 DEF Start
<1> HIDE DEF p
<1>5. << >> \o Staged(p) = << STAR >> \o << >>
  BY <1>2, <1>3, ConcatNothing
<1> QED BY <1>1, <1>4, <1>5 DEF Accounted, p

(* What a greeted client is owed grows by the answer to the bytes that     *)
(* recv() returned, and so does what is staged.                            *)
LEMMA RecvAccounted ==
  ASSUME NEW p, GoodPeer(p), NEW got \in [errno : Errno, bytes : Seq(Byte)],
         Len(got.bytes) <= RecvSize, got.errno = "ok" \/ got.bytes = << >>,
         NEW heard \in Seq(Byte), NEW said \in Seq(Byte), Accounted(p, heard, said)
  PROVE  Accounted(on_peer_ready_recv(p, got).peer,
                   IF CallsRecv(p) THEN heard \o got.bytes ELSE heard, said)
<1> SUFFICES ASSUME NEW h, h = on_peer_ready_recv(p, got)
             PROVE  Accounted(h.peer, IF CallsRecv(p) THEN heard \o got.bytes ELSE heard, said)
  OBVIOUS
<1>1. CASE ~ CallsRecv(p)
  BY <1>1 DEF on_peer_ready_recv
<1>2. CASE CallsRecv(p) /\ (got.errno # "ok" \/ got.bytes = << >>)
  <2>1. heard \o got.bytes = heard
    BY <1>2, ConcatNothing
  <2>2. h.peer = p
    BY <1>2 DEF on_peer_ready_recv
  <2> QED BY <1>2, <2>1, <2>2
<1>3. CASE CallsRecv(p) /\ got.errno = "ok" /\ got.bytes # << >>
  <2> DEFINE before == Parse("WAIT_FOR_MSG", heard)
             piece == Parse(p.state, got.bytes)
             after == Parse("WAIT_FOR_MSG", heard \o got.bytes)
  <2>1. /\ p.state # "INITIAL_ACK" /\ ~ Undrained(p) /\ p.sendbuf = << >> /\ p.sendptr = 0
        /\ p \in PeerState /\ p.state \in InternalState /\ got.bytes \in Seq(Byte)
    BY <1>3 DEF CallsRecv, GoodPeer, PeerState
  <2>2. said \o Staged(p) = << STAR >> \o before.out /\ Staged(p) = << >>
    BY <2>1, StagedType DEF Accounted
  <2>3. said # << >> /\ p.state = before.state
    BY <2>1 DEF Accounted
  <2>4. "WAIT_FOR_MSG" \in InternalState
    BY DEF InternalState
  <2>5. after.state = piece.state /\ after.out = before.out \o piece.out
    <3>1. /\ after.state = Parse(before.state, got.bytes).state
          /\ after.out = before.out \o Parse(before.state, got.bytes).out
      BY <2>1, <2>4, ParseConcat, Zenon
    <3> QED BY <2>3, <3>1
  <2>6. before \in Parsing /\ piece \in Parsing
    BY <2>1, <2>4, ParseType
  <2> HIDE DEF before, piece, after
  <2>7. before.out \in Seq(Byte) /\ piece.out \in Seq(Byte) /\ << STAR >> \in Seq(Byte)
    BY <2>6 DEF Parsing, STAR, Byte
  <2>8. said = << STAR >> \o before.out
    BY <2>2, ConcatNothing
  <2>9. said \o piece.out = << STAR >> \o after.out
    <3>1. (<< STAR >> \o before.out) \o piece.out = << STAR >> \o (before.out \o piece.out)
      <4> DEFINE star == << STAR >>
      <4>1. star \in Seq(Byte)
        BY <2>7
      <4> HIDE DEF star
      <4>2. (star \o before.out) \o piece.out = star \o (before.out \o piece.out)
        BY <2>7, <4>1, ConcatAssoc
      <4> QED BY <4>2 DEF star
    <3> QED BY <2>5, <2>8, <3>1, Zenon
  <2>10. p.sendbuf \o piece.out = piece.out
    BY <2>1, <2>7, ConcatNothing
  <2>11. h.peer = [p EXCEPT !.state = piece.state, !.sendbuf = piece.out]
    BY <1>3, <2>10 DEF on_peer_ready_recv, Consume, piece
  <2>12. h.peer.state = piece.state /\ h.peer.sendbuf = piece.out /\ h.peer.sendptr = 0
    BY <2>1, <2>11 DEF PeerState
  <2>13. Staged(h.peer) = piece.out
    BY <2>7, <2>12, SubSeqFull DEF Staged
  <2>14. h.peer.state = after.state
    BY <2>5, <2>12
  <2> QED BY <1>3, <2>3, <2>9, <2>13, <2>14 DEF Accounted, after
<1> QED BY <1>1, <1>2, <1>3

(* What is sent is the front of what was staged.  The greeting is one      *)
(* byte, so that it is sent at once or not at all.                         *)
LEMMA SendAccounted ==
  ASSUME NEW p, GoodPeer(p), Undrained(p),
         NEW answer \in [errno : Errno, nsent : 0..Len(Staged(p))],
         answer.errno = "ok" <=> answer.nsent > 0,
         NEW heard \in Seq(Byte), NEW said \in Seq(Byte), Accounted(p, heard, said),
         said = << >> => heard = << >>
  PROVE  Accounted(on_peer_ready_send(p, answer).peer, heard,
                   said \o Prefix(Staged(p), answer.nsent))
<1> DEFINE front == Prefix(Staged(p), answer.nsent)
           whole == Parse("WAIT_FOR_MSG", heard)
<1> SUFFICES ASSUME NEW h, h = on_peer_ready_send(p, answer)
             PROVE  Accounted(h.peer, heard, said \o front)
  OBVIOUS
<1>1. /\ p \in PeerState /\ p.sendbuf \in Seq(Byte) /\ p.sendptr \in Nat
      /\ Len(p.sendbuf) \in Nat /\ p.sendptr <= Len(p.sendbuf)
      /\ Staged(p) \in Seq(Byte) /\ Len(Staged(p)) = Len(p.sendbuf) - p.sendptr
      /\ answer.nsent \in Nat /\ answer.nsent <= Len(Staged(p))
  BY StagedType DEF GoodPeer, PeerState, Undrained
<1>2. /\ said \o Staged(p) = << STAR >> \o whole.out
      /\ p.state = IF said = << >> THEN "INITIAL_ACK" ELSE whole.state
  BY DEF Accounted
<1>3. front \in Seq(Byte) /\ Len(front) = answer.nsent
  BY <1>1, PieceType DEF Prefix
<1> HIDE DEF whole
<1>4. CASE answer.errno # "ok"
  <2>1. answer.nsent = 0
    BY <1>1, <1>4
  <2>2. front = << >>
    BY <1>3, <2>1
  <2>3. said \o front = said
    BY <2>2, ConcatNothing
  <2>4. h.peer = p
    BY <1>4 DEF on_peer_ready_send
  <2> QED BY <2>3, <2>4
<1>5. CASE answer.errno = "ok" /\ answer.nsent < Len(Staged(p))
  <2> DEFINE q == [p EXCEPT !.sendptr = @ + answer.nsent]
  <2>1. h.peer = q
    BY <1>5 DEF on_peer_ready_send
  <2>2. q.sendbuf = p.sendbuf /\ q.state = p.state /\ q.sendptr = p.sendptr + answer.nsent
    BY <1>1 DEF PeerState
  <2>3. said # << >>
    <3>1. SUFFICES ASSUME said = << >> PROVE FALSE
      OBVIOUS
    <3>2. p.sendbuf = << STAR >>
      BY <1>2, <3>1 DEF GoodPeer
    <3>3. Len(Staged(p)) <= 1
      BY <1>1, <3>2
    <3>4. answer.nsent > 0
      BY <1>5
    <3> QED BY <1>1, <1>5, <3>3, <3>4
  <2> HIDE DEF q
  <2>4. Staged(q) \in Seq(Byte)
    <3>1. q.sendptr \in Nat /\ q.sendptr <= Len(p.sendbuf)
      BY <1>1, <2>2
    <3> QED BY <1>1, <2>2, <3>1, PieceType DEF Staged
  <2>5. front \o Staged(q) = Staged(p)
    <3>1. p.sendptr + answer.nsent <= Len(p.sendbuf)
      BY <1>1
    <3>2. SubSeq(Staged(p), 1, answer.nsent)
            \o SubSeq(p.sendbuf, p.sendptr + answer.nsent + 1, Len(p.sendbuf)) = Staged(p)
      BY <1>1, <3>1, RestInTwo, Zenon DEF Staged
    <3>3. Staged(q) = SubSeq(p.sendbuf, p.sendptr + answer.nsent + 1, Len(p.sendbuf))
      BY <2>2 DEF Staged
    <3> QED BY <3>2, <3>3, Zenon DEF Prefix
  <2>6. (said \o front) \o Staged(q) = << STAR >> \o whole.out
    <3> HIDE DEF front
    <3>1. (said \o front) \o Staged(q) = said \o (front \o Staged(q))
      BY <1>3, <2>4, ConcatAssoc, Zenon
    <3> QED BY <1>2, <2>5, <3>1, Zenon
  <2>7. said \o front # << >>
    <3>1. Len(said) > 0 /\ Len(said) \in Nat
      BY <2>3
    <3>2. Len(said \o front) = Len(said) + Len(front) /\ Len(front) \in Nat
      <4> HIDE DEF front
      <4> QED BY <1>1, <1>3, ConcatType
    <3> HIDE DEF front
    <3> QED BY <3>1, <3>2
  <2> QED BY <1>2, <2>1, <2>2, <2>3, <2>6, <2>7 DEF Accounted, whole
<1>6. CASE answer.errno = "ok" /\ ~ (answer.nsent < Len(Staged(p)))
  <2>1. h.peer = [state |-> IF p.state = "INITIAL_ACK" THEN "WAIT_FOR_MSG" ELSE p.state,
                  sendbuf |-> << >>, sendptr |-> 0]
    BY <1>6 DEF on_peer_ready_send
  <2>2. Staged(h.peer) = << >>
    BY <2>1 DEF Staged
  <2>3. front = Staged(p)
    BY <1>1, <1>6, SubSeqFull DEF Prefix
  <2>4. said \o front \in Seq(Byte)
    BY <1>3, ConcatType
  <2>5. (said \o front) \o Staged(h.peer) = << STAR >> \o whole.out
    BY <1>2, <2>2, <2>3, <2>4, ConcatNothing
  <2>6. said \o front # << >>
    <3>1. Len(said \o front) = Len(said) + Len(front) /\ Len(said) \in Nat /\ Len(front) > 0
      <4>1. Len(Staged(p)) > 0
        BY StagedType
      <4>2. front \in Seq(Byte) /\ Len(front) > 0
        BY <1>3, <2>3, <4>1
      <4> HIDE DEF front
      <4> QED BY <4>2, ConcatType
    <3> HIDE DEF front
    <3> QED BY <3>1
  <2>7. h.peer.state = whole.state
    <3>1. CASE said = << >>
      <4>1. whole = Start("WAIT_FOR_MSG")
        BY <3>1, ParseNothing DEF whole
      <4> QED BY <1>2, <2>1, <3>1, <4>1 DEF Start
    <3>2. CASE said # << >>
      <4>1. whole.state # "INITIAL_ACK"
        BY ParseType DEF whole, InternalState
      <4> QED BY <1>2, <2>1, <3>2, <4>1
    <3> QED BY <3>1, <3>2
  <2> QED BY <2>5, <2>6, <2>7 DEF Accounted, whole
<1> QED BY <1>4, <1>5, <1>6

-----------------------------------------------------------------------------
(* The handlers on the sockets.  p is the state kept for the client c, of  *)
(* which taken[c] bytes were taken and to which sent[c] was sent.          *)

AccountOf(c, p) == Accounted(p, Prefix(script[c], taken[c]), sent[c])

(* Nothing passes over the connection of another client.                   *)
OnlyOf(c) == \A d \in Clients \ {c} : taken'[d] = taken[d] /\ sent'[d] = sent[d]

(* The handler of a readable descriptor accounts for what it takes.        *)
LEMMA RecvHears ==
  ASSUME SocketsTypeOK, NEW c \in Clients, NEW p, GoodPeer(p), NEW got \in recv(c, RecvSize),
         UNCHANGED <<script, sent>>,
         taken' = IF CallsRecv(p) THEN [taken EXCEPT ![c] = @ + Len(got.bytes)] ELSE taken,
         AccountOf(c, p), NEW q, q = on_peer_ready_recv(p, got).peer
  PROVE  /\ AccountOf(c, q)' /\ OnlyOf(c)
         /\ CallsRecv(p) => sent[c] # << >>
         /\ taken'[c] = IF CallsRecv(p) THEN taken[c] + Len(got.bytes) ELSE taken[c]
<1> DEFINE heard == Prefix(script[c], taken[c])
           k == Len(got.bytes)
<1>1. RecvSize \in Nat
  BY BufferAssumption
<1>2. /\ got \in [errno : Errno, bytes : Seq(Byte)]
      /\ k <= RecvSize
      /\ got.errno = "ok" \/ got.bytes = << >>
      /\ taken[c] + k <= arrived[c]
      /\ got.bytes = SubSeq(script[c], taken[c] + 1, taken[c] + k)
  BY <1>1, RecvType DEF Answer, Errno
<1>3. /\ script[c] \in Seq(Byte) /\ sent[c] \in Seq(Byte) /\ taken[c] \in Nat
      /\ arrived[c] \in Nat /\ arrived[c] <= Len(script[c]) /\ Len(script[c]) \in Nat
      /\ k \in Nat
  BY <1>2, SocketsAssumption DEF SocketsTypeOK
<1>4. /\ taken[c] + k \in Nat /\ taken[c] <= taken[c] + k /\ taken[c] + k <= Len(script[c])
  BY <1>2, <1>3
<1>5. heard \in Seq(Byte) /\ heard \o got.bytes = Prefix(script[c], taken[c] + k)
  <2>1. /\ heard \in Seq(Byte)
        /\ heard \o SubSeq(script[c], taken[c] + 1, taken[c] + k)
             = Prefix(script[c], taken[c] + k)
    BY <1>3, <1>4, PrefixGrows, Zenon
  <2> QED BY <1>2, <2>1, Zenon
<1>6. Accounted(p, heard, sent[c])
  BY DEF AccountOf
<1>7. Accounted(q, IF CallsRecv(p) THEN heard \o got.bytes ELSE heard, sent[c])
  <2> HIDE DEF heard
  <2> QED BY <1>2, <1>3, <1>5, <1>6, RecvAccounted
<1> HIDE DEF k
<1>8. /\ taken'[c] = IF CallsRecv(p) THEN taken[c] + k ELSE taken[c]
      /\ OnlyOf(c)
  BY DEF SocketsTypeOK, OnlyOf, k
<1>9. CallsRecv(p) => sent[c] # << >>
  BY <1>6 DEF CallsRecv, Accounted
<1>10. AccountOf(c, q)'
  <2>1. Prefix(script[c], taken'[c]) = IF CallsRecv(p) THEN heard \o got.bytes ELSE heard
    BY <1>5, <1>8
  <2> HIDE DEF heard
  <2> QED BY <1>7, <2>1 DEF AccountOf
<1> QED BY <1>8, <1>9, <1>10 DEF k

(* What send() has answered: the client was sent the front of what was     *)
(* staged, and nothing after an error.                                     *)
Tells(c, p, answer) ==
  /\ answer \in [errno : Errno, nsent : 0..Len(Staged(p))]
  /\ answer.errno # "ok" => answer.nsent = 0 /\ Prefix(Staged(p), answer.nsent) = << >>
  /\ answer.errno = "ECONNRESET" => fin[c] = "rst"
  /\ Prefix(Staged(p), answer.nsent) \in Seq(Byte)
  /\ sent'[c] = sent[c] \o Prefix(Staged(p), answer.nsent)

(* The handler of a writable descriptor accounts for what it sends.        *)
LEMMA SendTells ==
  ASSUME SocketsInv, NEW c \in Clients, NEW p, GoodPeer(p), Undrained(p),
         NEW answer, answer = send(c, Len(Staged(p))), UNCHANGED <<script, taken>>,
         sent' = [sent EXCEPT ![c] = @ \o Prefix(Staged(p), answer.nsent)],
         AccountOf(c, p), sent[c] = << >> => taken[c] = 0,
         NEW q, q = on_peer_ready_send(p, answer).peer
  PROVE  AccountOf(c, q)' /\ OnlyOf(c) /\ Tells(c, p, answer)
<1> DEFINE heard == Prefix(script[c], taken[c])
           said == sent[c] \o Prefix(Staged(p), answer.nsent)
<1>1. Len(Staged(p)) \in Nat \ {0} /\ Staged(p) \in Seq(Byte)
  BY StagedType
<1>2. /\ answer \in [errno : Errno, nsent : 0..Len(Staged(p))]
      /\ answer.errno = "ok" <=> answer.nsent > 0
      /\ answer.errno # "ok" => answer.nsent = 0
      /\ answer.errno = "ECONNRESET" => fin[c] = "rst"
  <2>1. /\ answer.errno # "ok" => answer.nsent = 0
        /\ answer.errno = "ECONNRESET" => fin[c] = "rst"
    BY DEF send
  <2>2. /\ answer \in [errno : Answer, nsent : 0..Len(Staged(p))]
        /\ answer.errno = "ok" => answer.nsent > 0
    BY <1>1, SendType
  <2> QED BY <2>1, <2>2 DEF Answer, Errno
<1>3. /\ script[c] \in Seq(Byte) /\ sent[c] \in Seq(Byte) /\ taken[c] \in Nat
      /\ taken[c] <= Len(script[c]) /\ sent \in [Clients -> Seq(Byte)]
  BY SocketsAssumption DEF SocketsInv, SocketsTypeOK
<1>4. heard \in Seq(Byte) /\ Len(heard) = taken[c]
  BY <1>3, PrefixGrows
<1>5. sent[c] = << >> => heard = << >>
  BY <1>4
<1>6. Accounted(p, heard, sent[c])
  BY DEF AccountOf
<1>7. Accounted(q, heard, said)
  <2> HIDE DEF heard
  <2> QED BY <1>2, <1>3, <1>4, <1>5, <1>6, SendAccounted
<1>8. sent'[c] = said /\ OnlyOf(c)
  BY <1>3 DEF OnlyOf
<1>9. /\ Prefix(Staged(p), answer.nsent) \in Seq(Byte)
      /\ Len(Prefix(Staged(p), answer.nsent)) = answer.nsent
  BY <1>1, <1>2, PrefixGrows
<1>10. answer.nsent = 0 => Prefix(Staged(p), answer.nsent) = << >>
  BY <1>9
<1>11. AccountOf(c, q)'
  BY <1>7, <1>8 DEF AccountOf
<1> QED BY <1>2, <1>8, <1>9, <1>10, <1>11 DEF Tells

(* What is accounted for is the front of what is owed.                     *)
LEMMA AccountedOwed ==
  ASSUME NEW p, GoodPeer(p), NEW heard \in Seq(Byte), NEW said \in Seq(Byte),
         Accounted(p, heard, said)
  PROVE  Staged(p) \in Seq(Byte) /\ said \o Staged(p) = Reply(heard)
BY StagedType, ReplyParsed DEF Accounted

(* What a handler's answer h says of the client of the connection: the     *)
(* server fails only on a client that was reset, it closes a connection    *)
(* only when its client has ended it and was told everything, and it hears *)
(* and tells only what is to be heard and told next.                       *)
Outcome(c, h) ==
  /\ h.fate # "running" => fin[c] = "rst" /\ UNCHANGED <<taken, sent>>
  /\ h.fate = "running" /\ h.status = fd_status_NORW =>
       /\ fin[c] = "fin" /\ taken[c] = arrived[c]
       /\ sent[c] = Reply(Prefix(script[c], taken[c]))
       /\ UNCHANGED <<taken, sent>>
  /\ Conversing(c)

(* So it is for the handler of a readable descriptor.                      *)
LEMMA RecvOutcome ==
  ASSUME SocketsTypeOK, SocketsTypeOK', NEW c \in Clients, NEW p, GoodPeer(p),
         NEW got \in recv(c, RecvSize), UNCHANGED <<script, arrived, fin, sent>>,
         taken' = IF CallsRecv(p) THEN [taken EXCEPT ![c] = @ + Len(got.bytes)] ELSE taken,
         AccountOf(c, p), NEW h, h = on_peer_ready_recv(p, got)
  PROVE  Outcome(c, h)
<1> DEFINE k == Len(got.bytes)
           heard == Prefix(script[c], taken[c])
           now == Prefix(script[c], taken'[c])
<1>1. RecvSize \in Nat \ {0}
  BY BufferAssumption
<1>2. /\ got \in [errno : Errno, bytes : Seq(Byte)] /\ k <= RecvSize
      /\ got.errno = "ok" \/ got.bytes = << >>
      /\ got.errno = "ok" /\ got.bytes = << >> => fin[c] = "fin" /\ taken[c] = arrived[c]
      /\ got.errno = "ECONNRESET" => fin[c] = "rst"
  BY <1>1, RecvType, RecvEnds DEF Answer, Errno
<1>3. GoodAnswer(h)
  BY <1>2, RecvGood
<1>4. /\ AccountOf(c, h.peer)' /\ OnlyOf(c)
      /\ CallsRecv(p) => sent[c] # << >>
      /\ taken'[c] = IF CallsRecv(p) THEN taken[c] + k ELSE taken[c]
  BY RecvHears
<1>5. /\ taken[c] \in Nat /\ sent[c] \in Seq(Byte) /\ k \in Nat
      /\ heard \in Seq(Byte) /\ now \in Seq(Byte) /\ taken \in [Clients -> Nat]
  <2>1. /\ script[c] \in Seq(Byte) /\ taken[c] \in Nat /\ taken'[c] \in Nat
        /\ taken[c] <= Len(script[c]) /\ taken'[c] <= Len(script[c])
        /\ sent[c] \in Seq(Byte) /\ taken \in [Clients -> Nat]
    BY SocketsAssumption DEF SocketsTypeOK
  <2> QED BY <1>2, <2>1, PrefixGrows
<1>6. sent[c] \o Staged(p) = Reply(heard)
  <2>1. Accounted(p, heard, sent[c])
    BY DEF AccountOf
  <2> HIDE DEF heard
  <2> QED BY <1>5, <2>1, AccountedOwed
<1>7. Staged(h.peer) \in Seq(Byte) /\ sent[c] \o Staged(h.peer) = Reply(now)
  <2>1. Accounted(h.peer, now, sent[c]) /\ GoodPeer(h.peer)
    BY <1>3, <1>4 DEF AccountOf, GoodAnswer
  <2> HIDE DEF now
  <2> QED BY <1>5, <2>1, AccountedOwed
<1> HIDE DEF k, heard
<1>8. Conversing(c)
  <2>1. taken[c] <= taken'[c] /\ (taken'[c] > taken[c] => sent[c] # << >>)
    BY <1>4, <1>5
  <2>2. \E rest \in Seq(Byte) : sent[c] \o rest = Reply(Prefix(script[c], taken'[c]))
    BY <1>7
  <2>3. OwedFront(c)'
    BY <2>2 DEF OwedFront
  <2>4. Len(sent[c]) <= Len(sent'[c])
    BY <1>5
  <2> QED BY <1>4, <2>1, <2>2, <2>3, <2>4, ConversingStep DEF OnlyOf
<1>9. got.bytes = << >> => UNCHANGED taken
  <2>1. ASSUME got.bytes = << >> PROVE taken[c] + Len(got.bytes) = taken[c]
    BY <1>5, <2>1
  <2> QED BY <1>5, <2>1
<1>10. ASSUME h.fate # "running" PROVE fin[c] = "rst" /\ UNCHANGED <<taken, sent>>
  <2>1. h.fate = "exited"
    BY <1>3, <1>10 DEF GoodAnswer
  <2>2. got.errno \notin {"ok", "EAGAIN"}
    BY <2>1 DEF on_peer_ready_recv, Consume
  <2> QED BY <1>2, <1>9, <2>2 DEF Errno
<1>11. ASSUME h.fate = "running", h.status = fd_status_NORW
       PROVE  /\ fin[c] = "fin" /\ taken[c] = arrived[c] /\ UNCHANGED <<taken, sent>>
              /\ sent[c] = Reply(Prefix(script[c], taken[c]))
  <2>1. CallsRecv(p) /\ got.errno = "ok" /\ got.bytes = << >>
    <3>1. fd_status_NORW # fd_status_R /\ fd_status_NORW # fd_status_W
      BY DEF fd_status_NORW, fd_status_R, fd_status_W
    <3>2. Consume(p, got.bytes).status # fd_status_NORW
      BY <3>1 DEF Consume
    <3>3. CASE CallsRecv(p) /\ got.errno = "ok"
      BY <1>11, <3>2, <3>3 DEF on_peer_ready_recv
    <3>4. CASE ~ (CallsRecv(p) /\ got.errno = "ok")
      BY <1>11, <3>1, <3>4 DEF on_peer_ready_recv
    <3> QED BY <3>3, <3>4
  <2>2. Staged(p) = << >>
    BY <2>1, StagedType DEF CallsRecv
  <2>3. sent[c] = Reply(Prefix(script[c], taken[c]))
    BY <1>5, <1>6, <2>2, ConcatNothing DEF heard
  <2> QED BY <1>2, <1>9, <2>1, <2>3
<1> QED BY <1>8, <1>10, <1>11 DEF Outcome

(* So it is for the handler of a writable one.                             *)
LEMMA SendOutcome ==
  ASSUME SocketsInv, SocketsTypeOK', NEW c \in Clients, NEW p, GoodPeer(p), Undrained(p),
         NEW answer, answer = send(c, Len(Staged(p))),
         UNCHANGED <<script, arrived, fin, taken>>,
         sent' = [sent EXCEPT ![c] = @ \o Prefix(Staged(p), answer.nsent)],
         AccountOf(c, p), sent[c] = << >> => taken[c] = 0,
         NEW h, h = on_peer_ready_send(p, answer)
  PROVE  Outcome(c, h)
<1> DEFINE front == Prefix(Staged(p), answer.nsent)
           heard == Prefix(script[c], taken[c])
<1>1. /\ AccountOf(c, h.peer)' /\ OnlyOf(c)
      /\ sent'[c] = sent[c] \o front /\ front \in Seq(Byte)
      /\ answer \in [errno : Errno, nsent : 0..Len(Staged(p))]
      /\ answer.errno # "ok" => front = << >>
      /\ answer.errno = "ECONNRESET" => fin[c] = "rst"
  <2> DEFINE q == h.peer
  <2>1. UNCHANGED <<script, taken>> /\ q = on_peer_ready_send(p, answer).peer
    OBVIOUS
  <2> HIDE DEF q
  <2>2. AccountOf(c, q)' /\ OnlyOf(c) /\ Tells(c, p, answer)
    BY <2>1, SendTells
  <2> QED BY <2>2 DEF q, Tells
<1>2. GoodPeer(h.peer)
  BY <1>1, SendGood DEF GoodAnswer
<1>3. /\ sent \in [Clients -> Seq(Byte)] /\ sent[c] \in Seq(Byte) /\ sent'[c] \in Seq(Byte)
      /\ taken[c] \in Nat /\ heard \in Seq(Byte)
  <2>1. /\ script[c] \in Seq(Byte) /\ taken[c] \in Nat /\ taken[c] <= Len(script[c])
        /\ sent \in [Clients -> Seq(Byte)] /\ sent' \in [Clients -> Seq(Byte)]
    BY SocketsAssumption DEF SocketsInv, SocketsTypeOK
  <2> QED BY <2>1, PrefixGrows
<1>4. Staged(p) \in Seq(Byte) /\ sent[c] \o Staged(p) = Reply(heard)
  <2>1. Accounted(p, heard, sent[c])
    BY DEF AccountOf
  <2> HIDE DEF heard
  <2> QED BY <1>3, <2>1, AccountedOwed
<1>5. Staged(h.peer) \in Seq(Byte) /\ sent'[c] \o Staged(h.peer) = Reply(heard)
  <2>1. Accounted(h.peer, heard, sent'[c])
    BY <1>1 DEF AccountOf
  <2> HIDE DEF heard
  <2> QED BY <1>2, <1>3, <2>1, AccountedOwed
<1>6. Conversing(c)
  <2>1. taken[c] <= taken'[c] /\ ~ (taken'[c] > taken[c])
    BY <1>3
  <2>2. \E rest \in Seq(Byte) : sent[c] \o rest = Reply(Prefix(script[c], taken'[c]))
    BY <1>4 DEF heard
  <2>3. OwedFront(c)'
    BY <1>5 DEF OwedFront, heard
  <2>4. Len(sent[c]) <= Len(sent'[c])
    <3> HIDE DEF front
    <3>1. Len(sent'[c]) = Len(sent[c]) + Len(front)
      BY <1>1, <1>3, ConcatType
    <3>2. Len(front) \in Nat /\ Len(sent[c]) \in Nat
      BY <1>1, <1>3
    <3> QED BY <3>1, <3>2
  <2>5. SocketsTypeOK
    BY DEF SocketsInv
  <2> QED BY <1>1, <2>1, <2>2, <2>3, <2>4, <2>5, ConversingStep DEF OnlyOf
<1>7. ASSUME h.fate # "running" PROVE fin[c] = "rst" /\ UNCHANGED <<taken, sent>>
  <2>1. answer.errno \notin {"ok", "EAGAIN"}
    BY <1>7 DEF on_peer_ready_send
  <2>2. answer.errno = "ECONNRESET" /\ front = << >>
    BY <1>1, <2>1 DEF Errno
  <2>3. sent[c] \o front = sent[c]
    BY <1>3, <2>2, ConcatNothing
  <2> QED BY <1>1, <1>3, <2>2, <2>3
<1>8. ~ (h.fate = "running" /\ h.status = fd_status_NORW)
  BY DEF on_peer_ready_send, fd_status_NORW, fd_status_R, fd_status_W
<1> QED BY <1>6, <1>7, <1>8 DEF Outcome
=============================================================================
