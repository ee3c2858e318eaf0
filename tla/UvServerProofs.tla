--------------------------- MODULE UvServerProofs ---------------------------
(***************************************************************************)
(* Theorems about uv_server.c, for any number of clients, any scripts and  *)
(* any sizes of the buffers.                                               *)
(***************************************************************************)
EXTENDS UvServer, ConnectionProofs

Request == [from : 1..SENDBUF_SIZE, to : 1..SENDBUF_SIZE, cb : Callback]

(* A write that waits still has bytes to write.                            *)
HasBytes(waiting) == \A k \in 1..Len(waiting) : waiting[k].from <= waiting[k].to

Queues ==
  /\ requests \in [Clients -> Seq(Request)]
  /\ finished \in [Clients -> Seq(Callback)]
  /\ \A c \in Clients : HasBytes(requests[c])

(* The types are inductive with what the kernel holds, because what it     *)
(* still has room for is how much of a write it takes.                     *)
UvTypes == TypeOK /\ SocketsInv /\ Queues

(* The facts about one client that the proofs use.                         *)
LEMMA UvFacts ==
  ASSUME UvTypes, NEW c \in Clients
  PROVE  /\ script[c] \in Scripts /\ script[c] \in Seq(Byte) /\ Len(script[c]) \in Nat
         /\ link[c] \in LinkState /\ fin[c] \in FinState
         /\ arrived[c] \in Nat /\ taken[c] \in Nat /\ drained[c] \in Nat
         /\ sent[c] \in Seq(Byte) /\ Len(sent[c]) \in Nat
         /\ taken[c] <= arrived[c] /\ arrived[c] <= Len(script[c]) /\ drained[c] <= Len(sent[c])
         /\ Room(c) \in Nat /\ Len(sent[c]) + Room(c) = SockBuf + drained[c]
         /\ state[c] \in InternalState
         /\ sendbuf[c] \in [1..SENDBUF_SIZE -> Byte] /\ sendbuf_end[c] \in 0..SENDBUF_SIZE
         /\ requests[c] \in Seq(Request) /\ HasBytes(requests[c])
         /\ finished[c] \in Seq(Callback)
<1>1. /\ script[c] \in Scripts /\ link[c] \in LinkState /\ fin[c] \in FinState
      /\ arrived[c] \in Nat /\ taken[c] \in Nat /\ drained[c] \in Nat
      /\ sent[c] \in Seq(Byte)
      /\ taken[c] <= arrived[c] /\ arrived[c] <= Len(script[c]) /\ drained[c] <= Len(sent[c])
      /\ Len(sent[c]) - drained[c] <= SockBuf
  BY DEF UvTypes, SocketsInv, SocketsTypeOK, KernelHolds
<1>2. script[c] \in Seq(Byte)
  BY <1>1, SocketsAssumption
<1>3. Len(script[c]) \in Nat /\ Len(sent[c]) \in Nat /\ SockBuf \in Nat
  BY <1>1, <1>2, SocketsAssumption
<1>4. Room(c) \in Nat /\ Len(sent[c]) + Room(c) = SockBuf + drained[c]
  BY <1>1, <1>3 DEF Room
<1>5. /\ state[c] \in InternalState
      /\ sendbuf[c] \in [1..SENDBUF_SIZE -> Byte] /\ sendbuf_end[c] \in 0..SENDBUF_SIZE
  BY DEF UvTypes, TypeOK
<1>6. /\ requests[c] \in Seq(Request) /\ HasBytes(requests[c])
      /\ finished[c] \in Seq(Callback)
  BY DEF UvTypes, Queues
<1> QED BY <1>1, <1>2, <1>3, <1>4, <1>5, <1>6

-----------------------------------------------------------------------------
(* Pieces of the send buffer.                                              *)

(* The bytes of a buffer after the first m, up to the nth.                 *)
Chunk(buffer, m, n) == SubSeq(buffer, m + 1, n)

(* The send buffer is a sequence of bytes.                                 *)
LEMMA BufferIsSequence ==
  ASSUME NEW buffer \in [1..SENDBUF_SIZE -> Byte]
  PROVE  buffer \in Seq(Byte) /\ Len(buffer) = SENDBUF_SIZE
BY UvAssumption

(* Chunks have their length, and neighbouring ones make one.               *)
LEMMA ChunkFacts ==
  ASSUME NEW buffer \in [1..SENDBUF_SIZE -> Byte],
         NEW k \in Nat, NEW m \in Nat, NEW n \in Nat, k <= m, m <= n, n <= SENDBUF_SIZE
  PROVE  /\ Chunk(buffer, k, m) \in Seq(Byte) /\ Len(Chunk(buffer, k, m)) = m - k
         /\ Chunk(buffer, m, n) \in Seq(Byte)
         /\ Chunk(buffer, k, m) \o Chunk(buffer, m, n) = Chunk(buffer, k, n)
<1>1. buffer \in Seq(Byte) /\ Len(buffer) = SENDBUF_SIZE /\ SENDBUF_SIZE \in Nat
  BY BufferIsSequence, UvAssumption
<1>2. m <= Len(buffer) /\ n <= Len(buffer)
  BY <1>1
<1> QED BY <1>1, <1>2, PieceType, PiecesMeet DEF Chunk

-----------------------------------------------------------------------------
(* What libuv does with a write: the kernel takes n bytes of it, which are *)
(* all of it unless there is no room for more.                             *)
WritesSome(c, buffer, w, later, n) ==
  /\ n \in 0..(w.to - w.from + 1)
  /\ n <= Room(c)
  /\ sent' = [sent EXCEPT ![c] = @ \o Chunk(buffer, w.from - 1, w.from - 1 + n)]
  /\ \/ /\ n = w.to - w.from + 1
        /\ requests' = [requests EXCEPT ![c] = later]
        /\ finished' = [finished EXCEPT ![c] = Append(@, w.cb)]
     \/ /\ n < w.to - w.from + 1
        /\ n = Room(c)
        /\ requests' = [requests EXCEPT ![c] = << [w EXCEPT !.from = @ + n] >> \o later]
        /\ UNCHANGED finished

(* A write of the first len bytes waits behind others, or on a connection  *)
(* that was reset; else the kernel takes what it can at once.              *)
Queued(c, w) ==
  /\ requests[c] # << >> \/ fin[c] = "rst"
  /\ requests' = [requests EXCEPT ![c] = Append(@, w)]
  /\ UNCHANGED <<sent, finished>>

WritesAtOnce(c, buffer, w) ==
  /\ requests[c] = << >> /\ fin[c] # "rst"
  /\ \E n \in Nat : WritesSome(c, buffer, w, << >>, n)

(* WriteOut is such a step.                                                *)
LEMMA WriteOutDoes ==
  ASSUME UvTypes, NEW c \in Clients, NEW buffer \in [1..SENDBUF_SIZE -> Byte],
         NEW w \in Request, w.from <= w.to, NEW later, WriteOut(c, buffer, w, later)
  PROVE  \E n \in Nat : WritesSome(c, buffer, w, later, n)
<1> DEFINE n == Written(c, w)
<1>1. /\ w.from \in 1..SENDBUF_SIZE /\ w.to \in 1..SENDBUF_SIZE /\ SENDBUF_SIZE \in Nat
  BY UvAssumption DEF Request
<1>2. Room(c) \in Nat
  BY UvFacts
<1>3. /\ n \in 0..(w.to - w.from + 1) /\ n <= Room(c) /\ n \in Nat
      /\ n < w.to - w.from + 1 => n = Room(c)
  BY <1>1, <1>2 DEF Written, Lesser
<1>4. /\ sent' = [sent EXCEPT ![c] = @ \o [k \in 1..n |-> buffer[w.from + k - 1]]]
      /\ IF w.from + n > w.to
         THEN /\ requests' = [requests EXCEPT ![c] = later]
              /\ finished' = [finished EXCEPT ![c] = Append(@, w.cb)]
         ELSE /\ requests' = [requests EXCEPT ![c] = << [w EXCEPT !.from = @ + n] >> \o later]
              /\ UNCHANGED finished
  BY DEF WriteOut
<1> HIDE DEF n
<1>5. w.from + n > w.to <=> n = w.to - w.from + 1
  BY <1>1, <1>3
<1>6. [k \in 1..n |-> buffer[w.from + k - 1]] = Chunk(buffer, w.from - 1, w.from - 1 + n)
  <2> DEFINE m == w.from - 1
  <2>1. m \in Nat /\ \A k \in 1..n : w.from + k - 1 = k + m
    BY <1>1, <1>3
  <2>2. [k \in 1..n |-> buffer[w.from + k - 1]] = [k \in 1..n |-> buffer[k + m]]
    BY <2>1
  <2> HIDE DEF m
  <2>3. SubSeq(buffer, m + 1, m + n) = [k \in 1..n |-> buffer[k + m]]
    BY <1>3, <2>1
  <2> QED BY <2>2, <2>3 DEF Chunk, m
<1>7. n < w.to - w.from + 1 \/ n = w.to - w.from + 1
  BY <1>1, <1>3
<1>8. CASE n = w.to - w.from + 1
  BY <1>3, <1>4, <1>5, <1>6, <1>8 DEF WritesSome
<1>9. CASE n < w.to - w.from + 1
  <2>1. ~ (w.from + n > w.to)
    BY <1>1, <1>3, <1>5, <1>9
  <2> QED BY <1>3, <1>4, <1>6, <1>9, <2>1 DEF WritesSome
<1> QED BY <1>7, <1>8, <1>9

(* uv_write() is one or the other.                                         *)
LEMMA UvWriteDoes ==
  ASSUME UvTypes, NEW c \in Clients, NEW buffer \in [1..SENDBUF_SIZE -> Byte],
         NEW len \in 1..SENDBUF_SIZE, NEW cb \in Callback, uv_write(c, buffer, len, cb)
  PROVE  LET w == [from |-> 1, to |-> len, cb |-> cb]
         IN  /\ w \in Request /\ w.from <= w.to
             /\ Queued(c, w) \/ WritesAtOnce(c, buffer, w)
<1> DEFINE w == [from |-> 1, to |-> len, cb |-> cb]
<1>1. w \in Request /\ w.from <= w.to
  BY UvAssumption DEF Request
<1>2. CASE requests[c] = << >> /\ fin[c] # "rst"
  <2>1. WriteOut(c, buffer, w, << >>)
    BY <1>2 DEF uv_write
  <2> HIDE DEF w
  <2>2. WritesAtOnce(c, buffer, w)
    BY <1>1, <1>2, <2>1, WriteOutDoes DEF WritesAtOnce
  <2> QED BY <1>1, <2>2 DEF w
<1>3. CASE ~ (requests[c] = << >> /\ fin[c] # "rst")
  <2>1. Queued(c, w)
    BY <1>3 DEF uv_write, Queued
  <2> QED BY <1>1, <2>1
<1> QED BY <1>2, <1>3

(* What is left of the types when a write of a connection was handled.     *)
WriteTypes(c) ==
  /\ sent' \in [Clients -> Seq(Byte)]
  /\ requests' \in [Clients -> Seq(Request)]
  /\ finished' \in [Clients -> Seq(Callback)]
  /\ HasBytes(requests'[c])
  /\ Len(sent[c]) <= Len(sent'[c]) /\ Len(sent'[c]) - drained[c] <= SockBuf
  /\ \A d \in Clients : d # c => /\ sent'[d] = sent[d] /\ requests'[d] = requests[d]
                                 /\ finished'[d] = finished[d]

(* The kernel is handed no more than it has room for.                      *)
LEMMA WritesSomeTypes ==
  ASSUME UvTypes, NEW c \in Clients, NEW buffer \in [1..SENDBUF_SIZE -> Byte],
         NEW w \in Request, w.from <= w.to, NEW later \in Seq(Request), HasBytes(later),
         NEW n \in Nat, WritesSome(c, buffer, w, later, n)
  PROVE  WriteTypes(c)
<1>1. /\ w.from \in 1..SENDBUF_SIZE /\ w.to \in 1..SENDBUF_SIZE /\ SENDBUF_SIZE \in Nat
      /\ w.cb \in Callback
  BY UvAssumption DEF Request
<1>2. /\ sent[c] \in Seq(Byte) /\ Len(sent[c]) \in Nat /\ Room(c) \in Nat
      /\ drained[c] \in Nat /\ SockBuf \in Nat
      /\ Len(sent[c]) + Room(c) = SockBuf + drained[c] /\ finished[c] \in Seq(Callback)
  BY UvFacts, SocketsAssumption
<1>3. /\ sent \in [Clients -> Seq(Byte)] /\ requests \in [Clients -> Seq(Request)]
      /\ finished \in [Clients -> Seq(Callback)]
  BY DEF UvTypes, SocketsInv, SocketsTypeOK, Queues
<1> DEFINE out == Chunk(buffer, w.from - 1, w.from - 1 + n)
<1>4. out \in Seq(Byte) /\ Len(out) = n
  <2> DEFINE first == w.from
             last == w.to
             m == first - 1
             q == first - 1 + n
  <2>0. n \in 0..(last - first + 1) /\ first \in 1..SENDBUF_SIZE /\ last \in 1..SENDBUF_SIZE
    BY <1>1 DEF WritesSome
  <2> HIDE DEF first, last
  <2>1. m \in Nat /\ q \in Nat /\ m <= q /\ q <= SENDBUF_SIZE /\ q - m = n
    BY <1>1, <2>0
  <2>2. out = Chunk(buffer, m, q)
    BY DEF first, m, q, out
  <2> HIDE DEF m, q
  <2>3. Chunk(buffer, m, q) \in Seq(Byte) /\ Len(Chunk(buffer, m, q)) = q - m
    BY <1>1, <2>1, ChunkFacts
  <2> QED BY <2>1, <2>2, <2>3
<1> HIDE DEF out
<1>5. sent' = [sent EXCEPT ![c] = @ \o out] /\ n <= Room(c)
  BY DEF WritesSome, out
<1>6. sent[c] \o out \in Seq(Byte) /\ Len(sent[c] \o out) = Len(sent[c]) + n
  BY <1>2, <1>4, ConcatType
<1>7. sent' \in [Clients -> Seq(Byte)] /\ sent'[c] = sent[c] \o out
      /\ \A d \in Clients : d # c => sent'[d] = sent[d]
  BY <1>3, <1>5, <1>6
<1>8. Len(sent[c]) <= Len(sent'[c]) /\ Len(sent'[c]) - drained[c] <= SockBuf
  BY <1>2, <1>5, <1>6, <1>7
<1>9. CASE /\ requests' = [requests EXCEPT ![c] = later]
           /\ finished' = [finished EXCEPT ![c] = Append(@, w.cb)]
  <2>1. Append(finished[c], w.cb) \in Seq(Callback)
    BY <1>1, <1>2
  <2> QED BY <1>3, <1>7, <1>8, <1>9, <2>1 DEF WriteTypes
<1>10. CASE /\ n < w.to - w.from + 1
            /\ requests' = [requests EXCEPT ![c] = << [w EXCEPT !.from = @ + n] >> \o later]
            /\ UNCHANGED finished
  <2> DEFINE rest == [w EXCEPT !.from = @ + n]
             new == << rest >> \o later
  <2>0. w.from + n \in 1..SENDBUF_SIZE
    BY <1>1, <1>10
  <2>1. rest.from = w.from + n /\ rest.to = w.to /\ rest.cb = w.cb /\ rest \in Request
    BY <2>0, Zenon DEF Request
  <2>2. rest.from <= rest.to
    BY <1>1, <1>10, <2>1
  <2> HIDE DEF rest
  <2>3. /\ new \in Seq(Request) /\ Len(new) = 1 + Len(later) /\ new[1] = rest
        /\ \A k \in 2..Len(new) : new[k] = later[k - 1]
    BY <2>1
  <2> HIDE DEF new
  <2>4. HasBytes(new)
    <3> SUFFICES ASSUME NEW k \in 1..Len(new) PROVE new[k].from <= new[k].to
      BY DEF HasBytes
    <3>1. CASE k = 1
      BY <2>2, <2>3, <3>1
    <3>2. CASE k # 1
      <4>1. k \in 2..Len(new) /\ k - 1 \in 1..Len(later)
        BY <2>3, <3>2
      <4> QED BY <2>3, <4>1 DEF HasBytes
    <3> QED BY <3>1, <3>2
  <2>5. requests' = [requests EXCEPT ![c] = new]
    BY <1>10 DEF new, rest
  <2> QED BY <1>3, <1>7, <1>8, <1>10, <2>3, <2>4, <2>5 DEF WriteTypes
<1> QED BY <1>9, <1>10 DEF WritesSome

(* Nor is it by a write that waits.                                        *)
LEMMA QueuedTypes ==
  ASSUME UvTypes, NEW c \in Clients, NEW w \in Request, w.from <= w.to, Queued(c, w)
  PROVE  WriteTypes(c)
<1>1. requests[c] \in Seq(Request) /\ HasBytes(requests[c])
  BY UvFacts
<1> DEFINE new == Append(requests[c], w)
<1>2. /\ new \in Seq(Request) /\ Len(new) = Len(requests[c]) + 1 /\ new[Len(new)] = w
      /\ \A k \in 1..Len(requests[c]) : new[k] = requests[c][k]
  BY <1>1
<1> HIDE DEF new
<1>3. HasBytes(new)
  <2> SUFFICES ASSUME NEW k \in 1..Len(new) PROVE new[k].from <= new[k].to
    BY DEF HasBytes
  <2>1. k = Len(new) \/ k \in 1..Len(requests[c])
    BY <1>1, <1>2
  <2> QED BY <1>1, <1>2, <2>1 DEF HasBytes
<1>4. requests' = [requests EXCEPT ![c] = new] /\ UNCHANGED <<sent, finished>>
  BY DEF Queued, new
<1>5. /\ Len(sent[c]) \in Nat /\ Room(c) \in Nat /\ drained[c] \in Nat /\ SockBuf \in Nat
      /\ Len(sent[c]) + Room(c) = SockBuf + drained[c]
  BY UvFacts, SocketsAssumption
<1>6. Len(sent[c]) <= Len(sent[c]) /\ Len(sent[c]) - drained[c] <= SockBuf
  BY <1>5
<1>7. /\ sent \in [Clients -> Seq(Byte)] /\ requests \in [Clients -> Seq(Request)]
      /\ finished \in [Clients -> Seq(Callback)]
  BY DEF UvTypes, SocketsInv, SocketsTypeOK, Queues
<1> QED BY <1>2, <1>3, <1>4, <1>6, <1>7 DEF WriteTypes

(* So uv_write() keeps the types.                                          *)
LEMMA UvWriteTypes ==
  ASSUME UvTypes, NEW c \in Clients, NEW buffer \in [1..SENDBUF_SIZE -> Byte],
         NEW len \in 1..SENDBUF_SIZE, NEW cb \in Callback, uv_write(c, buffer, len, cb)
  PROVE  WriteTypes(c)
<1> DEFINE w == [from |-> 1, to |-> len, cb |-> cb]
<1>1. w \in Request /\ w.from <= w.to /\ (Queued(c, w) \/ WritesAtOnce(c, buffer, w))
  BY UvWriteDoes
<1> HIDE DEF w
<1>2. << >> \in Seq(Request) /\ HasBytes(<< >>)
  BY DEF HasBytes
<1> QED BY <1>1, <1>2, WritesSomeTypes, QueuedTypes DEF WritesAtOnce

-----------------------------------------------------------------------------
(* The types.                                                              *)

(* The sockets after a step of the loop for c, which may accept or close   *)
(* the connection, take what has arrived and say what there is room for.   *)
LEMMA SocketsAfter ==
  ASSUME SocketsInv, NEW c \in Clients,
         UNCHANGED <<script, arrived, fin, drained>>,
         link' \in [Clients -> LinkState], taken' \in [Clients -> Nat],
         sent' \in [Clients -> Seq(Byte)],
         \A d \in Clients : d # c => /\ link'[d] = link[d] /\ taken'[d] = taken[d]
                                     /\ sent'[d] = sent[d],
         link'[c] \in {"open", "closed"}, taken'[c] <= arrived[c],
         Len(sent[c]) <= Len(sent'[c]), Len(sent'[c]) - drained[c] <= SockBuf
  PROVE  SocketsInv'
<1>1. SocketsTypeOK'
  <2>1. \A d \in Clients : /\ taken'[d] <= arrived[d] /\ arrived[d] <= Len(script[d])
                           /\ drained[d] <= Len(sent'[d])
    <3> TAKE d \in Clients
    <3>1. /\ taken[d] <= arrived[d] /\ arrived[d] <= Len(script[d]) /\ drained[d] <= Len(sent[d])
          /\ drained[d] \in Nat /\ sent[d] \in Seq(Byte) /\ sent'[d] \in Seq(Byte)
      BY DEF SocketsInv, SocketsTypeOK
    <3>2. CASE d = c
      <4>1. Len(sent[d]) \in Nat /\ Len(sent'[d]) \in Nat
        BY <3>1
      <4> QED BY <3>1, <3>2, <4>1
    <3>3. CASE d # c
      BY <3>1, <3>3
    <3> QED BY <3>2, <3>3
  <2> QED BY <2>1 DEF SocketsInv, SocketsTypeOK
<1>2. KernelHolds'
  <2>1. \A d \in Clients : Len(sent'[d]) - drained[d] <= SockBuf
    BY DEF SocketsInv, KernelHolds
  <2> QED BY <2>1 DEF KernelHolds
<1>3. Untouched'
  <2>1. \A d \in Clients : link'[d] \in {"idle", "backlog"} =>
          d # c /\ link[d] \in {"idle", "backlog"}
    OBVIOUS
  <2> QED BY <2>1 DEF SocketsInv, Untouched
<1> QED BY <1>1, <1>2, <1>3 DEF SocketsInv

(* The invariant when nothing was written.                                 *)
LEMMA SilentTypes ==
  ASSUME UvTypes, NEW c \in Clients, UNCHANGED <<sent, requests>>,
         finished' \in [Clients -> Seq(Callback)],
         \A d \in Clients : d # c => finished'[d] = finished[d]
  PROVE  WriteTypes(c)
<1>1. /\ Len(sent[c]) \in Nat /\ Room(c) \in Nat /\ drained[c] \in Nat /\ SockBuf \in Nat
      /\ Len(sent[c]) + Room(c) = SockBuf + drained[c] /\ HasBytes(requests[c])
  BY UvFacts, SocketsAssumption
<1>2. Len(sent[c]) <= Len(sent[c]) /\ Len(sent[c]) - drained[c] <= SockBuf
  BY <1>1
<1>3. sent \in [Clients -> Seq(Byte)] /\ requests \in [Clients -> Seq(Request)]
  BY DEF UvTypes, SocketsInv, SocketsTypeOK, Queues
<1> QED BY <1>1, <1>2, <1>3 DEF WriteTypes

(* What the server keeps of c, as the types have it.                       *)
PeerTypes ==
  /\ fate \in {"running", "stopping", "stopped", "exited", "aborted"}
  /\ state \in [Clients -> InternalState]
  /\ sendbuf \in [Clients -> [1..SENDBUF_SIZE -> Byte]]
  /\ sendbuf_end \in [Clients -> 0..SENDBUF_SIZE]
  /\ reading \in [Clients -> BOOLEAN]
  /\ freed \in SUBSET Clients

(* The types are those of the sockets, the queues and the rest.            *)
LEMMA TypesGathered == UvTypes <=> PeerTypes /\ SocketsInv /\ Queues
<1>1. ASSUME PeerTypes, SocketsInv, Queues PROVE TypeOK
  <2>1. \A c \in Clients :
       /\ \A k \in DOMAIN requests[c] :
            requests[c][k] \in [from : 1..SENDBUF_SIZE, to : 1..SENDBUF_SIZE, cb : Callback]
       /\ \A k \in DOMAIN finished[c] : finished[c][k] \in Callback
    <3> TAKE c \in Clients
    <3>1. requests[c] \in Seq(Request) /\ finished[c] \in Seq(Callback)
      BY <1>1 DEF Queues
    <3>2. \A k \in DOMAIN requests[c] : requests[c][k] \in Request
      BY <3>1
    <3>3. \A k \in DOMAIN finished[c] : finished[c][k] \in Callback
      BY <3>1
    <3> QED BY <3>2, <3>3, Zenon DEF Request
  <2> QED BY <1>1, <2>1, Zenon DEF TypeOK, PeerTypes, SocketsInv
<1>2. TypeOK => PeerTypes
  BY DEF TypeOK, PeerTypes
<1> QED BY <1>1, <1>2 DEF UvTypes

(* The same after a step.                                                  *)
LEMMA TypesGatheredNext == PeerTypes' /\ SocketsInv' /\ Queues' => UvTypes'
<1> SUFFICES ASSUME PeerTypes', SocketsInv', Queues' PROVE TypeOK'
  BY DEF UvTypes
<1>1. \A c \in Clients :
       /\ \A k \in DOMAIN requests'[c] :
            requests'[c][k] \in [from : 1..SENDBUF_SIZE, to : 1..SENDBUF_SIZE, cb : Callback]
       /\ \A k \in DOMAIN finished'[c] : finished'[c][k] \in Callback
  <2> TAKE c \in Clients
  <2>1. requests'[c] \in Seq(Request) /\ finished'[c] \in Seq(Callback)
    BY DEF Queues
  <2>2. \A k \in DOMAIN requests'[c] : requests'[c][k] \in Request
    BY <2>1
  <2>3. \A k \in DOMAIN finished'[c] : finished'[c][k] \in Callback
    BY <2>1
  <2> QED BY <2>2, <2>3, Zenon DEF Request
<1> QED BY <1>1, Zenon DEF TypeOK, PeerTypes, SocketsInv

(* The invariant holds before the first connection.                        *)
LEMMA TypesInit == Init => UvTypes
<1> SUFFICES ASSUME Init PROVE UvTypes
  OBVIOUS
<1>1. SocketsInv
  BY SocketsInitInv DEF Init
<1>2. PeerTypes
  <2>1. [k \in 1..SENDBUF_SIZE |-> 0] \in [1..SENDBUF_SIZE -> Byte]
    BY DEF Byte
  <2>2. "INITIAL_ACK" \in InternalState /\ 0 \in 0..SENDBUF_SIZE
    BY UvAssumption DEF InternalState
  <2> QED BY <2>1, <2>2 DEF Init, PeerTypes
<1>3. Queues
  <2>1. << >> \in Seq(Request) /\ << >> \in Seq(Callback) /\ HasBytes(<< >>)
    BY DEF HasBytes
  <2> QED BY <2>1 DEF Init, Queues
<1> QED BY <1>1, <1>2, <1>3, TypesGathered

(* A step of the loop for c keeps the types if it keeps those of what it   *)
(* writes and of what the server keeps.                                    *)
LEMMA TypesAfter ==
  ASSUME UvTypes, NEW c \in Clients, WriteTypes(c), PeerTypes',
         UNCHANGED <<script, arrived, fin, drained>>,
         link' \in [Clients -> LinkState], taken' \in [Clients -> Nat],
         \A d \in Clients : d # c => link'[d] = link[d] /\ taken'[d] = taken[d],
         link'[c] \in {"open", "closed"}, taken'[c] <= arrived[c]
  PROVE  UvTypes'
<1>1. SocketsInv'
  BY SocketsAfter DEF UvTypes, WriteTypes
<1>2. Queues'
  BY DEF UvTypes, Queues, WriteTypes
<1> QED BY <1>1, <1>2, TypesGatheredNext

(* A step that moves nothing but how the process fares.                    *)
LEMMA FateTypes ==
  ASSUME UvTypes, UNCHANGED <<socketVars, peerVars, requests, finished>>,
         fate' \in {"running", "stopping", "stopped", "exited", "aborted"}
  PROVE  UvTypes'
<1>1. PeerTypes'
  BY DEF UvTypes, TypeOK, PeerTypes, peerVars
<1>2. SocketsInv'
  BY DEF UvTypes, SocketsInv, SocketsTypeOK, KernelHolds, Untouched, socketVars
<1>3. Queues'
  BY DEF UvTypes, Queues
<1> QED BY <1>1, <1>2, <1>3, TypesGatheredNext

(* A client's step does not touch the server.                              *)
LEMMA ClientTypes ==
  ASSUME UvTypes, NEW c \in Clients, Client(c)
  PROVE  UvTypes'
<1>1. UNCHANGED serverVars /\ (ClientStep(c) \/ SendSegment(c))
  BY DEF Client, Talk, Speak, ClientStep
<1>2. SocketsInv'
  <2>1. CASE ClientStep(c)
    BY <2>1, ClientStepInv DEF UvTypes
  <2>2. CASE SendSegment(c)
    <3>1. PICK n \in (arrived[c] + 1)..Len(script[c]) : arrived' = [arrived EXCEPT ![c] = n]
      BY <2>2 DEF SendSegment
    <3>2. /\ arrived[c] \in Nat /\ taken[c] \in Nat /\ taken[c] <= arrived[c]
          /\ Len(script[c]) \in Nat
      BY UvFacts
    <3>3. n \in Nat /\ taken[c] <= n /\ n <= Len(script[c])
      BY <3>1, <3>2
    <3>4. UNCHANGED <<script, link, fin, taken, sent, drained>>
      BY <2>2 DEF SendSegment
    <3> QED BY <3>1, <3>3, <3>4
          DEF UvTypes, SocketsInv, SocketsTypeOK, KernelHolds, Untouched
  <2> QED BY <1>1, <2>1, <2>2
<1>3. PeerTypes'
  BY <1>1 DEF UvTypes, TypeOK, PeerTypes, serverVars, peerVars
<1>4. Queues'
  BY <1>1 DEF UvTypes, Queues, serverVars
<1> QED BY <1>2, <1>3, <1>4, TypesGatheredNext

(* A connection is accepted and greeted.                                   *)
LEMMA ConnectedTypes ==
  ASSUME UvTypes, NEW c \in Clients, on_peer_connected(c)
  PROVE  UvTypes'
<1> DEFINE greeting == [sendbuf[c] EXCEPT ![1] = STAR]
<1>1. greeting \in [1..SENDBUF_SIZE -> Byte]
  <2>1. sendbuf[c] \in [1..SENDBUF_SIZE -> Byte]
    BY UvFacts
  <2>2. STAR \in Byte
    BY DEF STAR, Byte
  <2> QED BY <2>1, <2>2
<1>2. /\ link' = [link EXCEPT ![c] = "open"]
      /\ state' = [state EXCEPT ![c] = "INITIAL_ACK"]
      /\ sendbuf' = [sendbuf EXCEPT ![c] = greeting]
      /\ sendbuf_end' = [sendbuf_end EXCEPT ![c] = 1]
      /\ uv_write(c, greeting, 1, "on_wrote_init_ack")
      /\ UNCHANGED <<script, arrived, fin, taken, drained, fate, reading, freed>>
  BY DEF on_peer_connected
<1> HIDE DEF greeting
<1>3. 1 \in 1..SENDBUF_SIZE /\ "on_wrote_init_ack" \in Callback
  BY UvAssumption DEF Callback
<1>4. WriteTypes(c)
  BY <1>1, <1>2, <1>3, UvWriteTypes
<1>5. PeerTypes'
  BY <1>1, <1>2, <1>3 DEF UvTypes, TypeOK, PeerTypes, InternalState
<1>6. /\ link' \in [Clients -> LinkState] /\ taken' \in [Clients -> Nat]
      /\ \A d \in Clients : d # c => link'[d] = link[d] /\ taken'[d] = taken[d]
      /\ link'[c] \in {"open", "closed"} /\ taken'[c] <= arrived[c]
  BY <1>2, UvFacts DEF UvTypes, SocketsInv, SocketsTypeOK, LinkState
<1> QED BY <1>2, <1>4, <1>5, <1>6, TypesAfter

(* The kernel takes more of a write.                                       *)
LEMMA WriteMoreTypes ==
  ASSUME UvTypes, NEW c \in Clients, WriteMore(c)
  PROVE  UvTypes'
<1>1. /\ link[c] = "open" /\ requests[c] # << >>
      /\ WriteOut(c, sendbuf[c], Head(requests[c]), Tail(requests[c]))
      /\ UNCHANGED <<script, link, arrived, fin, taken, drained, fate, peerVars>>
  BY DEF WriteMore, Serves
<1> DEFINE w == Head(requests[c])
           later == Tail(requests[c])
<1>2. w \in Request /\ later \in Seq(Request) /\ w.from <= w.to /\ HasBytes(later)
  <2>1. requests[c] \in Seq(Request) /\ HasBytes(requests[c])
    BY UvFacts
  <2>2. /\ w \in Request /\ later \in Seq(Request) /\ w = requests[c][1]
        /\ Len(later) + 1 = Len(requests[c]) /\ Len(later) \in Nat
        /\ \A k \in 1..Len(later) : later[k] = requests[c][k + 1]
    BY <1>1, <2>1
  <2> HIDE DEF w, later
  <2>3. \A k \in 1..Len(later) : k + 1 \in 1..Len(requests[c])
    BY <2>2
  <2>4. 1 \in 1..Len(requests[c])
    BY <2>2
  <2> QED BY <2>1, <2>2, <2>3, <2>4 DEF HasBytes
<1> HIDE DEF w, later
<1>3. sendbuf[c] \in [1..SENDBUF_SIZE -> Byte]
  BY UvFacts
<1>4. WriteOut(c, sendbuf[c], w, later)
  BY <1>1 DEF w, later
<1>5. WriteTypes(c)
  BY <1>2, <1>3, <1>4, WriteOutDoes, WritesSomeTypes
<1>6. PeerTypes'
  BY <1>1 DEF UvTypes, TypeOK, PeerTypes, peerVars
<1>7. /\ link' \in [Clients -> LinkState] /\ taken' \in [Clients -> Nat]
      /\ \A d \in Clients : d # c => link'[d] = link[d] /\ taken'[d] = taken[d]
      /\ link'[c] \in {"open", "closed"} /\ taken'[c] <= arrived[c]
  BY <1>1, UvFacts DEF UvTypes, SocketsInv, SocketsTypeOK
<1> QED BY <1>1, <1>5, <1>6, <1>7, TypesAfter

(* The callback of a write is called.                                      *)
LEMMA CallbackTypes ==
  ASSUME UvTypes, NEW c \in Clients, on_wrote_init_ack(c) \/ on_wrote_buf(c)
  PROVE  UvTypes'
<1>1. PICK cb : NextCallback(c, cb)
  BY DEF on_wrote_init_ack, on_wrote_buf
<1>2. UNCHANGED <<socketVars, sendbuf, requests>>
  BY DEF on_wrote_init_ack, on_wrote_buf
<1>3. /\ link[c] = "open" /\ finished[c] # << >>
      /\ finished' = [finished EXCEPT ![c] = Tail(@)]
  BY <1>1 DEF NextCallback, Serves
<1>4. finished' \in [Clients -> Seq(Callback)]
      /\ \A d \in Clients : d # c => finished'[d] = finished[d]
  <2>1. Tail(finished[c]) \in Seq(Callback)
    BY <1>3, UvFacts
  <2>2. finished \in [Clients -> Seq(Callback)]
    BY DEF UvTypes, Queues
  <2> QED BY <1>3, <2>1, <2>2
<1>5. WriteTypes(c)
  BY <1>2, <1>4, SilentTypes DEF socketVars
<1>6. PeerTypes
  BY TypesGathered
<1>7. 0 \in 0..SENDBUF_SIZE /\ "WAIT_FOR_MSG" \in InternalState
  BY UvAssumption DEF InternalState
<1>8. PeerTypes'
  <2>1. CASE on_wrote_init_ack(c)
    BY <1>2, <1>6, <1>7, <2>1 DEF on_wrote_init_ack, PeerTypes
  <2>2. CASE on_wrote_buf(c)
    BY <1>2, <1>6, <1>7, <2>2 DEF on_wrote_buf, PeerTypes
  <2> QED BY <2>1, <2>2
<1>9. /\ link' \in [Clients -> LinkState] /\ taken' \in [Clients -> Nat]
      /\ \A d \in Clients : d # c => link'[d] = link[d] /\ taken'[d] = taken[d]
      /\ link'[c] \in {"open", "closed"} /\ taken'[c] <= arrived[c]
  BY <1>2, <1>3, UvFacts DEF UvTypes, SocketsInv, SocketsTypeOK, socketVars
<1> QED BY <1>2, <1>5, <1>8, <1>9, TypesAfter DEF socketVars

-----------------------------------------------------------------------------
(* A read.                                                                 *)

(* The send buffer with the bytes of out behind the first e.               *)
WithStaged(buffer, e, out) ==
  [k \in 1..SENDBUF_SIZE |-> IF k \in (e + 1)..(e + Len(out)) THEN out[k - e] ELSE buffer[k]]

(* What is behind and what is before.                                      *)
LEMMA WithStagedFacts ==
  ASSUME NEW buffer \in [1..SENDBUF_SIZE -> Byte], NEW e \in Nat, NEW out \in Seq(Byte),
         e + Len(out) <= SENDBUF_SIZE
  PROVE  /\ WithStaged(buffer, e, out) \in [1..SENDBUF_SIZE -> Byte]
         /\ Chunk(WithStaged(buffer, e, out), e, e + Len(out)) = out
<1> DEFINE new == WithStaged(buffer, e, out)
<1>1. SENDBUF_SIZE \in Nat /\ Len(out) \in Nat
  BY UvAssumption
<1>2. \A k \in (e + 1)..(e + Len(out)) : k - e \in 1..Len(out)
  BY <1>1
<1>3. new \in [1..SENDBUF_SIZE -> Byte]
  BY <1>2 DEF WithStaged
<1>4. \A k \in (e + 1)..(e + Len(out)) : k \in 1..SENDBUF_SIZE
  BY <1>1
<1>5. \A k \in (e + 1)..(e + Len(out)) : new[k] = out[k - e]
  BY <1>4 DEF WithStaged
<1> HIDE DEF new
<1>6. new \in Seq(Byte) /\ Len(new) = SENDBUF_SIZE
  BY <1>3, BufferIsSequence
<1> DEFINE l == SubSeq(new, e + 1, e + Len(out))
<1>7. l \in Seq(Byte) /\ Len(l) = Len(out) /\ \A k \in 1..Len(out) : l[k] = new[k + e]
  BY <1>1, <1>6, PieceBytes
<1> HIDE DEF l
<1>8. \A k \in 1..Len(l) : l[k] = out[k]
  <2> TAKE k \in 1..Len(l)
  <2>1. k \in 1..Len(out)
    BY <1>7
  <2>2. k + e \in (e + 1)..(e + Len(out)) /\ k + e - e = k
    BY <1>1, <2>1
  <2> QED BY <1>5, <1>7, <2>1, <2>2
<1>9. l = out
  BY <1>7, <1>8, SeqEqual
<1> QED BY <1>3, <1>9 DEF Chunk, new, l

(* What a read that brings bytes does.                                     *)
Reads(c, bytes, r, end) ==
  /\ taken' = [taken EXCEPT ![c] = @ + Len(bytes)]
  /\ state' = [state EXCEPT ![c] = r.state]
  /\ \/ /\ end > SENDBUF_SIZE
        /\ fate' = "aborted"
        /\ UNCHANGED <<sendbuf, sendbuf_end, sent, requests, finished>>
     \/ /\ end <= SENDBUF_SIZE
        /\ sendbuf' = [sendbuf EXCEPT ![c] = WithStaged(sendbuf[c], sendbuf_end[c], r.out)]
        /\ sendbuf_end' = [sendbuf_end EXCEPT ![c] = end]
        /\ fate' = fate
        /\ \/ /\ end > 0
              /\ uv_write(c, WithStaged(sendbuf[c], sendbuf_end[c], r.out), end, "on_wrote_buf")
           \/ /\ end = 0
              /\ UNCHANGED <<sent, requests, finished>>

(* The handler of a read either consumes bytes or closes the handle.       *)
LEMMA ReadCases ==
  ASSUME UvTypes, NEW c \in Clients, on_peer_read(c)
  PROVE  /\ Serves(c) /\ reading[c] /\ finished[c] = << >>
         /\ UNCHANGED <<script, arrived, fin, drained, freed>>
         /\ \/ /\ \E bytes \in Seq(Byte) :
                    /\ bytes # << >> /\ taken[c] + Len(bytes) <= arrived[c]
                    /\ Len(bytes) = Lesser(arrived[c] - taken[c], ReadSize)
                    /\ bytes = SubSeq(script[c], taken[c] + 1, taken[c] + Len(bytes))
                    /\ Reads(c, bytes, Parse(state[c], bytes),
                             sendbuf_end[c] + Len(Parse(state[c], bytes).out))
               /\ UNCHANGED <<link, reading>>
            \/ /\ CloseHandle(c)
               /\ fin[c] = "rst" \/ (fin[c] = "fin" /\ taken[c] = arrived[c])
<1>1. PICK got \in recv(c, ReadSize) :
       \/ /\ got.errno = "ok" /\ got.bytes # << >>
          /\ ParseRead(c, got.bytes)
          /\ UNCHANGED <<link, reading>>
       \/ /\ got.errno # "EAGAIN" /\ got.bytes = << >>
          /\ CloseHandle(c)
  BY DEF on_peer_read
<1>2. /\ Serves(c) /\ reading[c] /\ finished[c] = << >>
      /\ UNCHANGED <<script, arrived, fin, drained, freed>>
  BY DEF on_peer_read
<1>3. ReadSize \in Nat /\ SocketsTypeOK
  BY UvAssumption DEF UvTypes, SocketsInv
<1>4. /\ got.bytes \in Seq(Byte) /\ taken[c] + Len(got.bytes) <= arrived[c]
      /\ got.bytes = SubSeq(script[c], taken[c] + 1, taken[c] + Len(got.bytes))
  BY <1>3, RecvType
<1>5. CASE /\ got.errno = "ok" /\ got.bytes # << >>
           /\ ParseRead(c, got.bytes)
           /\ UNCHANGED <<link, reading>>
  <2> DEFINE bytes == got.bytes
             r == Parse(state[c], bytes)
             end == sendbuf_end[c] + Len(r.out)
  <2>1. bytes = SubSeq(script[c], taken[c] + 1,
                       taken[c] + Lesser(arrived[c] - taken[c], ReadSize))
    BY <1>5 DEF recv, Received
  <2>2. Len(bytes) = Lesser(arrived[c] - taken[c], ReadSize)
    <3> DEFINE n == Lesser(arrived[c] - taken[c], ReadSize)
    <3>1. /\ taken[c] \in Nat /\ arrived[c] \in Nat /\ taken[c] <= arrived[c]
          /\ arrived[c] <= Len(script[c]) /\ script[c] \in Seq(Byte)
      BY UvFacts
    <3>2. n \in Nat /\ taken[c] + n <= arrived[c]
      BY <1>3, <3>1 DEF Lesser
    <3> HIDE DEF n
    <3>3. taken[c] + n <= Len(script[c])
      BY <3>1, <3>2, UvFacts
    <3>4. Len(SubSeq(script[c], taken[c] + 1, taken[c] + n)) = n
      BY <3>1, <3>2, <3>3, PieceBytes
    <3> QED BY <2>1, <3>4 DEF n
  <2>3. r \in Parsing /\ end \in Nat
    <3>1. state[c] \in InternalState /\ sendbuf_end[c] \in Nat
      BY UvFacts
    <3>2. r \in Parsing
      BY <1>4, <3>1, ParseType
    <3>3. Len(r.out) \in Nat
      BY <3>2 DEF Parsing
    <3> QED BY <3>1, <3>2, <3>3
  <2>4. WithStaged(sendbuf[c], sendbuf_end[c], r.out)
          = [k \in 1..SENDBUF_SIZE |->
               IF k \in (sendbuf_end[c] + 1)..end
               THEN r.out[k - sendbuf_end[c]] ELSE sendbuf[c][k]]
    BY DEF WithStaged
  <2>5. SENDBUF_SIZE \in Nat
    BY UvAssumption
  <2> DEFINE staged == WithStaged(sendbuf[c], sendbuf_end[c], r.out)
  <2>6. /\ taken' = [taken EXCEPT ![c] = @ + Len(bytes)]
        /\ state' = [state EXCEPT ![c] = r.state]
        /\ IF end > SENDBUF_SIZE
           THEN /\ fate' = "aborted"
                /\ UNCHANGED <<sendbuf, sendbuf_end, sent, requests, finished>>
           ELSE /\ sendbuf' = [sendbuf EXCEPT ![c] = staged]
                /\ sendbuf_end' = [sendbuf_end EXCEPT ![c] = end]
                /\ fate' = fate
                /\ IF end > 0 THEN uv_write(c, staged, end, "on_wrote_buf")
                              ELSE UNCHANGED <<sent, requests, finished>>
    BY <1>5, <2>4, Zenon DEF ParseRead
  <2> HIDE DEF r, end, staged
  <2>7. (end > SENDBUF_SIZE \/ end <= SENDBUF_SIZE) /\ (end > 0 \/ end = 0)
    BY <2>3, <2>5
  <2>8. /\ ~ (end > SENDBUF_SIZE) => end <= SENDBUF_SIZE
        /\ ~ (end > 0) => end = 0
    BY <2>3, <2>5
  <2>9. \/ /\ end > SENDBUF_SIZE
           /\ fate' = "aborted"
           /\ UNCHANGED <<sendbuf, sendbuf_end, sent, requests, finished>>
        \/ /\ end <= SENDBUF_SIZE
           /\ sendbuf' = [sendbuf EXCEPT ![c] = staged]
           /\ sendbuf_end' = [sendbuf_end EXCEPT ![c] = end]
           /\ fate' = fate
           /\ \/ /\ end > 0
                 /\ uv_write(c, staged, end, "on_wrote_buf")
              \/ /\ end = 0
                 /\ UNCHANGED <<sent, requests, finished>>
    BY <2>6, <2>8, Zenon
  <2>10. Reads(c, bytes, r, end)
    BY <2>6, <2>9, Zenon DEF Reads, staged
  <2> QED BY <1>2, <1>4, <1>5, <2>2, <2>10, Zenon DEF r, end
<1>6. CASE /\ got.errno # "EAGAIN" /\ got.bytes = << >>
           /\ CloseHandle(c)
  <2>1. fin[c] = "rst" \/ (fin[c] = "fin" /\ taken[c] = arrived[c])
    <3>1. \/ /\ arrived[c] > taken[c]
             /\ got = Received(SubSeq(script[c], taken[c] + 1,
                                      taken[c] + Lesser(arrived[c] - taken[c], ReadSize)))
          \/ arrived[c] = taken[c] /\ fin[c] = "fin"
          \/ got.errno = "EAGAIN"
          \/ fin[c] = "rst"
      BY DEF recv
    <3>2. ASSUME arrived[c] > taken[c],
                 got = Received(SubSeq(script[c], taken[c] + 1,
                                      taken[c] + Lesser(arrived[c] - taken[c], ReadSize)))
          PROVE  FALSE
      <4> DEFINE n == Lesser(arrived[c] - taken[c], ReadSize)
      <4>1. /\ taken[c] \in Nat /\ arrived[c] \in Nat /\ taken[c] <= arrived[c]
            /\ arrived[c] <= Len(script[c]) /\ script[c] \in Seq(Byte) /\ Len(script[c]) \in Nat
        BY UvFacts
      <4>2. n \in Nat \ {0} /\ taken[c] + n <= arrived[c]
        BY <3>2, <4>1, UvAssumption DEF Lesser
      <4> HIDE DEF n
      <4>3. taken[c] + n <= Len(script[c])
        BY <4>1, <4>2
      <4>4. Len(SubSeq(script[c], taken[c] + 1, taken[c] + n)) = n
        BY <4>1, <4>2, <4>3, PieceBytes
      <4>5. got.bytes = SubSeq(script[c], taken[c] + 1, taken[c] + n)
        BY <3>2 DEF Received, n
      <4>6. Len(got.bytes) = 0
        BY <1>6
      <4> QED BY <4>2, <4>4, <4>5, <4>6
    <3> QED BY <1>6, <3>1, <3>2
  <2> QED BY <1>2, <1>6, <2>1
<1> QED BY <1>1, <1>5, <1>6

(* What a read writes keeps the types of the queues.                       *)
LEMMA ReadWrites ==
  ASSUME UvTypes, NEW c \in Clients, NEW bytes, NEW r \in Parsing,
         Reads(c, bytes, r, sendbuf_end[c] + Len(r.out))
  PROVE  WriteTypes(c)
<1> DEFINE e == sendbuf_end[c]
           end == e + Len(r.out)
           staged == WithStaged(sendbuf[c], e, r.out)
<1>1. /\ e \in Nat /\ sendbuf[c] \in [1..SENDBUF_SIZE -> Byte] /\ r.out \in Seq(Byte)
      /\ Len(r.out) \in Nat /\ SENDBUF_SIZE \in Nat
  BY UvFacts, UvAssumption DEF Parsing
<1>2. finished \in [Clients -> Seq(Callback)] /\ "on_wrote_buf" \in Callback
  BY DEF UvTypes, Queues, Callback
<1> HIDE DEF e
<1>3. end \in Nat
  BY <1>1
<1>4. end <= SENDBUF_SIZE => staged \in [1..SENDBUF_SIZE -> Byte]
  BY <1>1, WithStagedFacts DEF e
<1>5. \/ end <= SENDBUF_SIZE /\ end > 0 /\ uv_write(c, staged, end, "on_wrote_buf")
      \/ UNCHANGED <<sent, requests, finished>>
  BY Zenon DEF Reads, staged, end, e
<1> HIDE DEF end, staged
<1>6. CASE UNCHANGED <<sent, requests, finished>>
  BY <1>2, <1>6, SilentTypes
<1>7. CASE end <= SENDBUF_SIZE /\ end > 0 /\ uv_write(c, staged, end, "on_wrote_buf")
  <2>1. end \in 1..SENDBUF_SIZE
    BY <1>1, <1>3, <1>7
  <2> QED BY <1>2, <1>4, <1>7, <2>1, UvWriteTypes
<1> QED BY <1>5, <1>6, <1>7

(* A read keeps the types.                                                 *)
LEMMA ReadTypes ==
  ASSUME UvTypes, NEW c \in Clients, on_peer_read(c)
  PROVE  UvTypes'
<1>1. /\ link[c] = "open" /\ UNCHANGED <<script, arrived, fin, drained, freed>>
  BY ReadCases DEF Serves
<1>2. PeerTypes
  BY TypesGathered
<1>3. ASSUME NEW bytes \in Seq(Byte),
             taken[c] + Len(bytes) <= arrived[c],
             Reads(c, bytes, Parse(state[c], bytes),
                   sendbuf_end[c] + Len(Parse(state[c], bytes).out)),
             UNCHANGED <<link, reading>>
      PROVE  UvTypes'
  <2> DEFINE r == Parse(state[c], bytes)
             e == sendbuf_end[c]
             end == e + Len(r.out)
             staged == WithStaged(sendbuf[c], e, r.out)
  <2>1. r \in Parsing /\ e \in Nat /\ sendbuf[c] \in [1..SENDBUF_SIZE -> Byte]
    <3>1. state[c] \in InternalState /\ e \in 0..SENDBUF_SIZE
          /\ sendbuf[c] \in [1..SENDBUF_SIZE -> Byte]
      BY UvFacts
    <3> QED BY <3>1, ParseType
  <2>2. Reads(c, bytes, r, end)
    BY <1>3
  <2> HIDE DEF r, e
  <2>3. r.out \in Seq(Byte) /\ r.state \in InternalState
    BY <2>1 DEF Parsing
  <2>4. Len(r.out) \in Nat /\ Len(bytes) \in Nat /\ SENDBUF_SIZE \in Nat
    BY <2>3, UvAssumption
  <2>5. end \in Nat
    BY <2>1, <2>4
  <2>6. end <= SENDBUF_SIZE => staged \in [1..SENDBUF_SIZE -> Byte]
    BY <2>1, <2>3, WithStagedFacts
  <2> HIDE DEF end, staged
  <2>7. /\ taken' = [taken EXCEPT ![c] = @ + Len(bytes)]
        /\ state' = [state EXCEPT ![c] = r.state]
    BY <2>2 DEF Reads
  <2>8. \/ /\ fate' = "aborted"
           /\ UNCHANGED <<sendbuf, sendbuf_end, sent, requests, finished>>
        \/ /\ end <= SENDBUF_SIZE
           /\ sendbuf' = [sendbuf EXCEPT ![c] = staged]
           /\ sendbuf_end' = [sendbuf_end EXCEPT ![c] = end]
           /\ fate' = fate
           /\ \/ end > 0 /\ uv_write(c, staged, end, "on_wrote_buf")
              \/ UNCHANGED <<sent, requests, finished>>
    BY <2>2, Zenon DEF Reads, staged, e
  <2>9. finished \in [Clients -> Seq(Callback)] /\ "on_wrote_buf" \in Callback
    BY DEF UvTypes, Queues, Callback
  <2>10. WriteTypes(c)
    BY <1>3, ReadWrites, <2>1, <2>2 DEF end, e
  <2>11. PeerTypes'
    <3>1. state' \in [Clients -> InternalState]
      BY <1>2, <2>3, <2>7 DEF PeerTypes
    <3>2. CASE fate' = "aborted" /\ UNCHANGED <<sendbuf, sendbuf_end>>
      BY <1>1, <1>2, <1>3, <3>1, <3>2 DEF PeerTypes
    <3>3. CASE /\ end <= SENDBUF_SIZE
               /\ sendbuf' = [sendbuf EXCEPT ![c] = staged]
               /\ sendbuf_end' = [sendbuf_end EXCEPT ![c] = end]
               /\ fate' = fate
      <4>1. end \in 0..SENDBUF_SIZE
        BY <2>4, <2>5, <3>3
      <4> QED BY <1>1, <1>2, <1>3, <2>6, <3>1, <3>3, <4>1 DEF PeerTypes
    <3> QED BY <2>8, <3>2, <3>3, Zenon
  <2>12. /\ taken' \in [Clients -> Nat] /\ taken'[c] <= arrived[c]
         /\ \A d \in Clients : d # c => taken'[d] = taken[d]
    <3>1. taken \in [Clients -> Nat] /\ taken[c] + Len(bytes) \in Nat
      BY <2>4 DEF UvTypes, SocketsInv, SocketsTypeOK
    <3> QED BY <1>3, <2>7, <3>1
  <2>13. /\ link' \in [Clients -> LinkState] /\ link'[c] \in {"open", "closed"}
         /\ \A d \in Clients : d # c => link'[d] = link[d]
    BY <1>1, <1>3 DEF UvTypes, SocketsInv, SocketsTypeOK
  <2> QED BY <1>1, <2>10, <2>11, <2>12, <2>13, TypesAfter
<1>4. CASE CloseHandle(c)
  <2>1. /\ link' = link \/ link' = [link EXCEPT ![c] = "closed"]
        /\ fate' = fate \/ fate' = "exited"
        /\ reading' = [reading EXCEPT ![c] = FALSE]
        /\ UNCHANGED <<taken, sent, state, sendbuf, sendbuf_end, requests, finished>>
    BY <1>4 DEF CloseHandle
  <2>2. WriteTypes(c)
    BY <2>1, SilentTypes DEF UvTypes, Queues
  <2>3. PeerTypes'
    BY <1>1, <1>2, <2>1 DEF PeerTypes
  <2>4. /\ link' \in [Clients -> LinkState] /\ taken' \in [Clients -> Nat]
        /\ \A d \in Clients : d # c => link'[d] = link[d] /\ taken'[d] = taken[d]
        /\ link'[c] \in {"open", "closed"} /\ taken'[c] <= arrived[c]
    BY <1>1, <2>1, UvFacts DEF UvTypes, SocketsInv, SocketsTypeOK, LinkState
  <2> QED BY <1>1, <2>1, <2>2, <2>3, <2>4, TypesAfter
<1> QED BY <1>3, <1>4, ReadCases

(* Every step keeps the types.                                             *)
LEMMA TypesNext == UvTypes /\ [Next]_vars => UvTypes'
<1> SUFFICES ASSUME UvTypes, [Next]_vars PROVE UvTypes'
  OBVIOUS
<1>1. CASE Stop
  BY <1>1, FateTypes DEF Stop
<1>2. ASSUME NEW c \in Clients, Loop(c) PROVE UvTypes'
  <2>1. CASE on_peer_connected(c)
    BY <2>1, ConnectedTypes
  <2>2. CASE PeerIsGone(c) \/ WriteFails(c)
    BY <2>2, FateTypes DEF PeerIsGone, WriteFails
  <2>3. CASE WriteMore(c)
    BY <2>3, WriteMoreTypes
  <2>4. CASE on_wrote_init_ack(c) \/ on_wrote_buf(c)
    BY <2>4, CallbackTypes
  <2>5. CASE on_peer_read(c)
    BY <2>5, ReadTypes
  <2>6. CASE UseAfterFree(c)
    BY <2>6, FateTypes DEF UseAfterFree
  <2> QED BY <1>2, <2>1, <2>2, <2>3, <2>4, <2>5, <2>6, Zenon DEF Loop
<1>3. ASSUME NEW c \in Clients, Client(c) PROVE UvTypes'
  BY <1>3, ClientTypes
<1>4. CASE UNCHANGED vars
  <2>1. UNCHANGED <<socketVars, peerVars, requests, finished>> /\ UNCHANGED fate
    BY <1>4 DEF vars, serverVars
  <2>2. fate \in {"running", "stopping", "stopped", "exited", "aborted"}
    BY DEF UvTypes, TypeOK
  <2> QED BY <2>1, <2>2, FateTypes
<1> QED BY <1>1, <1>2, <1>3, <1>4, Zenon DEF Next

(* The variables keep their types: no write runs past the end of the send  *)
(* buffer, and nothing is counted that the clients have not sent.          *)
THEOREM TypeCorrect == Spec => []TypeOK
<1>1. UvTypes => TypeOK
  BY DEF UvTypes
<1> QED BY <1>1, TypesInit, TypesNext, PTL DEF Spec

-----------------------------------------------------------------------------
(* What a client is owed.                                                  *)

Heard(c) == Prefix(script[c], taken[c])
Owed(c) == Reply(Heard(c))

(* The answer to some bytes, and its length.                               *)
LEMMA ReplyType ==
  ASSUME NEW bytes \in Seq(Byte)
  PROVE  /\ Echo(bytes) \in Seq(Byte) /\ Len(Echo(bytes)) = Cardinality(Echoed(bytes))
         /\ Echo(bytes) = Parse("WAIT_FOR_MSG", bytes).out
         /\ Reply(bytes) \in Seq(Byte) /\ Len(Reply(bytes)) = AnswerLength(bytes)
         /\ AnswerLength(bytes) \in Nat \ {0}
<1>1. "WAIT_FOR_MSG" \in InternalState
  BY DEF InternalState
<1>2. Parse("WAIT_FOR_MSG", bytes).out \in Seq(Byte)
  BY <1>1, ParseType DEF Parsing
<1>3. Echo(bytes) \in Seq(Byte) /\ Len(Echo(bytes)) = Cardinality(Echoed(bytes))
      /\ Echo(bytes) = Parse("WAIT_FOR_MSG", bytes).out
  BY <1>2, ParseIsEcho
<1> HIDE DEF Echo
<1>4. << STAR >> \in Seq(Byte) /\ Len(<< STAR >>) = 1
  BY DEF STAR, Byte
<1>5. << STAR >> \o Echo(bytes) \in Seq(Byte)
      /\ Len(<< STAR >> \o Echo(bytes)) = 1 + Len(Echo(bytes)) /\ Len(Echo(bytes)) \in Nat
  BY <1>3, <1>4, ConcatType
<1> QED BY <1>3, <1>5 DEF Reply, AnswerLength

(* The answer to nothing is the greeting.                                  *)
LEMMA ReplyToNothing ==
  ASSUME NEW s \in Seq(Byte)
  PROVE  /\ Prefix(s, 0) = << >> /\ Reply(<< >>) = << STAR >>
         /\ Parse("WAIT_FOR_MSG", << >>).state = "WAIT_FOR_MSG"
<1>1. Parse("WAIT_FOR_MSG", << >>) = Start("WAIT_FOR_MSG")
  BY ParseNothing
<1>2. << >> \in Seq(Byte)
  OBVIOUS
<1>3. Echo(<< >>) = << >>
  <2>1. Echo(<< >>) = Parse("WAIT_FOR_MSG", << >>).out
    BY <1>2, ReplyType, Zenon
  <2>2. Start("WAIT_FOR_MSG").out = << >>
    BY DEF Start
  <2> QED BY <1>1, <2>1, <2>2, Zenon
<1>4. << STAR >> \in Seq(Byte)
  BY DEF STAR, Byte
<1>5. Reply(<< >>) = << STAR >>
  BY <1>3, <1>4, ConcatNothing DEF Reply
<1>6. Prefix(s, 0) = << >>
  BY DEF Prefix
<1> QED BY <1>1, <1>5, <1>6 DEF Start

(* The answer grows by what the parser makes of the bytes that follow.     *)
LEMMA ReplyGrows ==
  ASSUME NEW s \in Seq(Byte), NEW m \in Nat, NEW n \in Nat, m + n <= Len(s)
  PROVE  LET p == Parse("WAIT_FOR_MSG", Prefix(s, m))
             r == Parse(p.state, SubSeq(s, m + 1, m + n))
         IN  /\ r \in Parsing
             /\ Prefix(s, m) \in Seq(Byte) /\ Prefix(s, m + n) \in Seq(Byte)
             /\ Parse("WAIT_FOR_MSG", Prefix(s, m + n)).state = r.state
             /\ Echo(Prefix(s, m + n)) = Echo(Prefix(s, m)) \o r.out
             /\ Reply(Prefix(s, m + n)) = Reply(Prefix(s, m)) \o r.out
<1> DEFINE a == Prefix(s, m)
           b == SubSeq(s, m + 1, m + n)
           q == m + n
           p == Parse("WAIT_FOR_MSG", a)
           r == Parse(p.state, b)
<1>1. b \in Seq(Byte)
  BY PieceBytes
<1>2. q \in Nat /\ m <= q /\ q <= Len(s)
  OBVIOUS
<1>3. a \in Seq(Byte) /\ a \o SubSeq(s, m + 1, q) = Prefix(s, q)
  <2> HIDE DEF q
  <2> QED BY <1>2, PrefixGrows
<1>4. a \o b = Prefix(s, q)
  BY <1>3
<1>5. Prefix(s, q) \in Seq(Byte)
  <2> HIDE DEF a, b
  <2> QED BY <1>1, <1>3, <1>4, ConcatType
<1> HIDE DEF a, b, q
<1>6. "WAIT_FOR_MSG" \in InternalState
  BY DEF InternalState
<1>7. p \in Parsing
  BY <1>3, <1>6, ParseType
<1>8. p.state \in InternalState /\ p.out \in Seq(Byte)
  BY <1>7 DEF Parsing
<1>9. r \in Parsing /\ r.out \in Seq(Byte)
  BY <1>1, <1>8, ParseType DEF Parsing
<1>10. /\ Parse("WAIT_FOR_MSG", a \o b).state = r.state
       /\ Parse("WAIT_FOR_MSG", a \o b).out = p.out \o r.out
  BY <1>1, <1>3, <1>6, ParseConcat
<1> HIDE DEF r
<1>11. Echo(a) = p.out /\ Echo(Prefix(s, q)) = Parse("WAIT_FOR_MSG", Prefix(s, q)).out
  BY <1>3, <1>5, ReplyType
<1>12. Echo(Prefix(s, q)) = Echo(a) \o r.out
  BY <1>4, <1>10, <1>11
<1>13. << STAR >> \in Seq(Byte)
  BY DEF STAR, Byte
<1>14. << STAR >> \o (Echo(a) \o r.out) = (<< STAR >> \o Echo(a)) \o r.out
  <2> DEFINE x == Echo(a)
             y == r.out
  <2>1. x \in Seq(Byte) /\ y \in Seq(Byte)
    BY <1>8, <1>9, <1>11
  <2> HIDE DEF x, y
  <2>2. << STAR >> \o (x \o y) = (<< STAR >> \o x) \o y
    BY <1>13, <2>1, ConcatAssoc, Zenon
  <2> QED BY <2>2 DEF x, y
<1>15. Reply(Prefix(s, q)) = Reply(a) \o r.out
  BY <1>12, <1>14 DEF Reply
<1> QED BY <1>3, <1>4, <1>5, <1>9, <1>10, <1>12, <1>15 DEF a, b, q, r

(* The answer to a part is no longer than the answer to the whole.         *)
LEMMA ReplyMonotone ==
  ASSUME NEW s \in Seq(Byte), NEW m \in 0..Len(s)
  PROVE  /\ Prefix(s, m) \in Seq(Byte)
         /\ AnswerLength(Prefix(s, m)) <= AnswerLength(s)
<1> DEFINE n == Len(s) - m
           r == Parse(Parse("WAIT_FOR_MSG", Prefix(s, m)).state, SubSeq(s, m + 1, m + n))
<1>1. m \in Nat /\ n \in Nat /\ m + n <= Len(s) /\ m + n = Len(s)
  OBVIOUS
<1>2. Prefix(s, Len(s)) = s
  BY DEF Prefix
<1>3. /\ r \in Parsing /\ Prefix(s, m) \in Seq(Byte)
      /\ Reply(Prefix(s, m + n)) = Reply(Prefix(s, m)) \o r.out
  <2> HIDE DEF n
  <2> QED BY <1>1, ReplyGrows
<1> HIDE DEF r
<1>4. Reply(s) = Reply(Prefix(s, m)) \o r.out /\ r.out \in Seq(Byte)
  BY <1>1, <1>2, <1>3 DEF Parsing
<1> HIDE DEF n
<1>5. /\ Reply(s) \in Seq(Byte) /\ Len(Reply(s)) = AnswerLength(s)
      /\ Reply(Prefix(s, m)) \in Seq(Byte)
      /\ Len(Reply(Prefix(s, m))) = AnswerLength(Prefix(s, m))
  BY <1>3, ReplyType
<1>6. Len(Reply(s)) = Len(Reply(Prefix(s, m))) + Len(r.out) /\ Len(r.out) \in Nat
      /\ Len(Reply(Prefix(s, m))) \in Nat
  <2> DEFINE x == Reply(Prefix(s, m))
             y == r.out
  <2>1. x \in Seq(Byte) /\ y \in Seq(Byte) /\ Reply(s) = x \o y
    BY <1>4, <1>5
  <2> HIDE DEF x, y
  <2>2. Len(x \o y) = Len(x) + Len(y) /\ Len(x) \in Nat /\ Len(y) \in Nat
    BY <2>1, ConcatType
  <2>3. Len(Reply(s)) = Len(x) + Len(y)
    BY <2>1, <2>2
  <2> QED BY <2>2, <2>3 DEF x, y
<1> QED BY <1>3, <1>5, <1>6

-----------------------------------------------------------------------------
(* The invariant of the connections.                                       *)

(* No script can clog its connection for good: one whose answer the kernel *)
(* may not take as a whole is read at once, and its client waits.          *)
Uncloggable ==
  /\ Patience
  /\ \A s \in Scripts : Len(s) <= ReadSize \/ AnswerLength(s) <= SockBuf

(* Nothing is kept of a client that has not been accepted.                 *)
Fresh(c) ==
  link[c] \in {"idle", "backlog"} =>
    requests[c] = << >> /\ finished[c] = << >> /\ ~ reading[c] /\ c \notin freed

Greeted(c) == reading[c] \/ finished[c] # << >> => sent[c] # << >>

PatientEnd(c) ==
  Patient(c) /\ fin[c] = "fin" =>
    AnswerLength(Prefix(script[c], arrived[c])) <= drained[c]

SentAPart(c) == \E rest \in Seq(Byte) : sent[c] \o rest = Owed(c)

Freed(c) == c \in freed => AsksToStop(Heard(c)) \/ fin[c] = "rst"

(* While a connection is served: the callback that is due, and what the    *)
(* parser and the send buffer have come to.                                *)
Following(c) ==
  /\ finished[c] \in {<< >>, << IF reading[c] THEN "on_wrote_buf" ELSE "on_wrote_init_ack" >>}
  /\ reading[c] => /\ state[c] = Parse("WAIT_FOR_MSG", Heard(c)).state
                   /\ sendbuf_end[c] <= Len(Echo(Heard(c)))
  /\ ~ reading[c] => taken[c] = 0

(* The buffer holds the end of the echo.                                   *)
HoldsTheEnd(c) ==
  \E pre \in Seq(Byte) : Echo(Heard(c)) = pre \o Chunk(sendbuf[c], 0, sendbuf_end[c])

(* While it was not reset either, all is said and the buffer is free; or   *)
(* all is said and the callback is due; or the kernel is still to take the *)
(* rest, and the client says nothing until it has.                         *)
Rested(c) ==
  /\ requests[c] = << >> /\ finished[c] = << >>
  /\ reading[c] /\ sendbuf_end[c] = 0 /\ sent[c] = Owed(c)

Told(c) ==
  /\ requests[c] = << >> /\ finished[c] # << >>
  /\ sent[c] = Owed(c)
  /\ reading[c] => HoldsTheEnd(c)

Telling(c) ==
  /\ \E w \in Request :
       /\ requests[c] = << w >>
       /\ w.cb = "on_wrote_buf" /\ w.from <= w.to /\ w.to = sendbuf_end[c]
       /\ sent[c] \o Chunk(sendbuf[c], w.from - 1, w.to) = Owed(c)
  /\ finished[c] = << >> /\ reading[c] /\ HoldsTheEnd(c)
  /\ Patient(c) /\ arrived[c] = taken[c] /\ fin[c] = "no"

Good(c) ==
  /\ Fresh(c) /\ Greeted(c) /\ PatientEnd(c) /\ SentAPart(c) /\ Freed(c)
  /\ Serves(c) => Following(c)
  /\ Serves(c) /\ fin[c] # "rst" => Rested(c) \/ Told(c) \/ Telling(c)

EchoInv ==
  /\ UvTypes
  /\ \A c \in Clients : Good(c)
  /\ fate = "stopping" => freed # {}

-----------------------------------------------------------------------------
(* A step that does not concern d.                                         *)
Unmoved(d) ==
  /\ script'[d] = script[d] /\ link'[d] = link[d] /\ arrived'[d] = arrived[d]
  /\ fin'[d] = fin[d] /\ taken'[d] = taken[d] /\ sent'[d] = sent[d]
  /\ drained'[d] = drained[d] /\ state'[d] = state[d] /\ sendbuf'[d] = sendbuf[d]
  /\ sendbuf_end'[d] = sendbuf_end[d] /\ reading'[d] = reading[d]
  /\ requests'[d] = requests[d] /\ finished'[d] = finished[d]
  /\ d \in freed' <=> d \in freed

(* It keeps the invariant of d.                                            *)
LEMMA UnmovedGood ==
  ASSUME NEW d \in Clients, Good(d), Unmoved(d), Alive' => Alive
  PROVE  Good(d)'
<1> USE DEF Unmoved
<1>1. Heard(d)' = Heard(d) /\ Owed(d)' = Owed(d)
  BY DEF Heard, Owed
<1>2. Serves(d)' => Serves(d)
  BY DEF Serves
<1>3. Patient(d)' = Patient(d)
  BY DEF Patient
<1>4. /\ Fresh(d)' /\ Greeted(d)' /\ Freed(d)'
  BY <1>1 DEF Good, Fresh, Greeted, Freed
<1>5. PatientEnd(d)'
  BY <1>3 DEF Good, PatientEnd
<1>6. SentAPart(d)'
  BY <1>1 DEF Good, SentAPart
<1>7. HoldsTheEnd(d) => HoldsTheEnd(d)'
  BY <1>1 DEF HoldsTheEnd
<1>8. Serves(d)' => Following(d)'
  BY <1>1, <1>2 DEF Good, Following
<1>9. Serves(d)' /\ fin'[d] # "rst" => Rested(d)' \/ Told(d)' \/ Telling(d)'
  <2> SUFFICES ASSUME Serves(d)', fin'[d] # "rst" PROVE Rested(d)' \/ Told(d)' \/ Telling(d)'
    OBVIOUS
  <2>1. Rested(d) \/ Told(d) \/ Telling(d)
    BY <1>2 DEF Good
  <2>2. CASE Rested(d)
    BY <1>1, <2>2 DEF Rested
  <2>3. CASE Told(d)
    BY <1>1, <1>7, <2>3 DEF Told
  <2>4. CASE Telling(d)
    BY <1>1, <1>3, <1>7, <2>4 DEF Telling
  <2> QED BY <2>1, <2>2, <2>3, <2>4
<1> QED BY <1>4, <1>5, <1>6, <1>8, <1>9 DEF Good

(* What a client has been sent is no more than it is owed, and a client    *)
(* that is still being told something has not read it all.                 *)
LEMMA TellingFacts ==
  ASSUME UvTypes, NEW c \in Clients, Telling(c)
  PROVE  Len(sent[c]) < AnswerLength(Heard(c)) /\ drained[c] < AnswerLength(Heard(c))
<1>1. PICK w \in Request :
        /\ requests[c] = << w >> /\ w.from <= w.to
        /\ sent[c] \o Chunk(sendbuf[c], w.from - 1, w.to) = Owed(c)
  BY DEF Telling
<1>2. /\ script[c] \in Seq(Byte) /\ taken[c] \in 0..Len(script[c])
      /\ sent[c] \in Seq(Byte) /\ Len(sent[c]) \in Nat
      /\ drained[c] \in Nat /\ drained[c] <= Len(sent[c])
      /\ sendbuf[c] \in [1..SENDBUF_SIZE -> Byte]
  BY UvFacts
<1>3. Heard(c) \in Seq(Byte)
  BY <1>2, ReplyMonotone DEF Heard
<1>4. Len(Owed(c)) = AnswerLength(Heard(c)) /\ AnswerLength(Heard(c)) \in Nat
  BY <1>3, ReplyType DEF Owed
<1> DEFINE m == w.from - 1
           out == Chunk(sendbuf[c], m, w.to)
<1>5. m \in Nat /\ w.to \in Nat /\ m < w.to /\ m <= w.to /\ w.to <= SENDBUF_SIZE /\ w.to <= w.to
  BY <1>1, UvAssumption DEF Request
<1> HIDE DEF m
<1>6. out \in Seq(Byte) /\ Len(out) = w.to - m
  BY <1>2, <1>5, ChunkFacts
<1>7. Len(sent[c] \o out) = Len(sent[c]) + Len(out)
  <2> HIDE DEF out
  <2> QED BY <1>2, <1>6, ConcatType
<1>8. sent[c] \o out = Owed(c)
  BY <1>1 DEF m
<1> HIDE DEF out
<1> QED BY <1>2, <1>4, <1>5, <1>6, <1>7, <1>8

-----------------------------------------------------------------------------
(* The steps of a client.                                                  *)
LEMMA ClientGood ==
  ASSUME UvTypes, NEW c \in Clients, Client(c), Good(c)
  PROVE  Good(c)'
<1>1. UNCHANGED serverVars
  BY DEF Client, Talk
<1>2. UNCHANGED <<fate, state, sendbuf, sendbuf_end, reading, requests, finished, freed>>
  BY <1>1 DEF serverVars, peerVars
<1>3. UNCHANGED <<script, taken, sent>>
  BY DEF Client, Talk, Speak, Connect, Deliver, HangUp, Reset, Drain, SendSegment
<1>5. /\ link \in [Clients -> LinkState] /\ arrived \in [Clients -> Nat]
      /\ fin \in [Clients -> FinState] /\ drained \in [Clients -> Nat]
  BY DEF UvTypes, SocketsInv, SocketsTypeOK
<1>6. Heard(c)' = Heard(c) /\ Owed(c)' = Owed(c) /\ Patient(c)' = Patient(c)
  BY <1>3 DEF Heard, Owed, Patient
<1>7. Greeted(c)' /\ SentAPart(c)'
  BY <1>2, <1>3, <1>6 DEF Good, Greeted, SentAPart
<1>8. \/ Connect(c)
      \/ ~ Patient(c) /\ Deliver(c)
      \/ ~ Patient(c) /\ HangUp(c)
      \/ Patient(c) /\ HasReadAll(c) /\ (SendSegment(c) \/ HangUp(c))
      \/ Reset(c)
      \/ Drain(c)
  BY DEF Client, Talk, Speak
<1>9. ASSUME HasReadAll(c) PROVE ~ Telling(c)
  <2> SUFFICES ASSUME Telling(c) PROVE FALSE
    OBVIOUS
  <2>1. drained[c] < AnswerLength(Heard(c)) /\ drained[c] \in Nat
    BY TellingFacts, UvFacts
  <2>2. drained[c] = AnswerLength(Heard(c))
    BY <1>9 DEF HasReadAll, Telling, Heard
  <2> QED BY <2>1, <2>2
<1>10. CASE Connect(c)
  <2>1. /\ link[c] = "idle" /\ link'[c] = "backlog"
        /\ UNCHANGED <<arrived, fin, drained>>
    BY <1>5, <1>10 DEF Connect
  <2> QED BY <1>2, <1>3, <1>6, <1>7, <2>1
        DEF Good, Fresh, PatientEnd, Freed, Serves
<1>11. CASE UNCHANGED <<link, drained>> /\ fin[c] = "no"
           /\ (fin'[c] = "rst" \/ (fin'[c] \in {"no", "fin"} /\ ~ Telling(c) /\ PatientEnd(c)'))
  <2>1. PatientEnd(c)'
    BY <1>11 DEF PatientEnd
  <2>2. Fresh(c)' /\ Freed(c)'
    BY <1>2, <1>6, <1>11 DEF Good, Fresh, Freed
  <2>3. Serves(c)' <=> Serves(c)
    BY <1>2, <1>11 DEF Serves, Alive
  <2>4. Following(c) => Following(c)'
    BY <1>2, <1>3, <1>6 DEF Following
  <2>5. Rested(c) => Rested(c)'
    BY <1>2, <1>3, <1>6 DEF Rested
  <2>6. Told(c) => Told(c)'
    BY <1>2, <1>3, <1>6 DEF Told, HoldsTheEnd
  <2> QED BY <1>7, <1>11, <2>1, <2>2, <2>3, <2>4, <2>5, <2>6 DEF Good
<1>12. CASE ~ Patient(c) /\ (Deliver(c) \/ HangUp(c))
  <2>1. ~ Telling(c) /\ PatientEnd(c)'
    BY <1>6, <1>12 DEF Telling, PatientEnd
  <2>2. UNCHANGED <<link, drained>> /\ fin[c] = "no" /\ fin'[c] \in {"no", "fin"}
    BY <1>5, <1>12 DEF Deliver, HangUp, Linked
  <2> QED BY <1>11, <2>1, <2>2
<1>13. CASE HasReadAll(c) /\ (SendSegment(c) \/ HangUp(c))
  <2>1. UNCHANGED <<link, drained>> /\ fin[c] = "no" /\ fin'[c] \in {"no", "fin"}
    BY <1>5, <1>13 DEF SendSegment, HangUp, Linked
  <2>2. PatientEnd(c)'
    <3>1. CASE SendSegment(c)
      BY <2>1, <3>1 DEF SendSegment, PatientEnd
    <3>2. CASE HangUp(c)
      <4>1. UNCHANGED <<script, arrived, drained>>
        BY <3>2 DEF HangUp
      <4>2. drained[c] = AnswerLength(Prefix(script[c], arrived[c])) /\ drained[c] \in Nat
        BY <1>13, UvFacts DEF HasReadAll
      <4> QED BY <4>1, <4>2 DEF PatientEnd
    <3> QED BY <1>13, <3>1, <3>2
  <2> QED BY <1>9, <1>11, <1>13, <2>1, <2>2
<1>14. CASE Reset(c)
  <2>1. UNCHANGED <<link, drained>> /\ fin[c] = "no" /\ fin'[c] = "rst"
    BY <1>5, <1>14 DEF Reset, Linked
  <2> QED BY <1>11, <2>1
<1>15. CASE Drain(c)
  <2>1. /\ UNCHANGED <<link, arrived, fin>> /\ drained'[c] = drained[c] + 1
    BY <1>5, <1>15 DEF Drain
  <2>2. PatientEnd(c)'
    <3> SUFFICES ASSUME Patient(c), fin[c] = "fin"
                 PROVE  AnswerLength(Prefix(script[c], arrived[c])) <= drained[c] + 1
      BY <1>3, <1>6, <2>1 DEF PatientEnd
    <3>1. AnswerLength(Prefix(script[c], arrived[c])) <= drained[c]
      BY <1>5 DEF Good, PatientEnd
    <3>2. drained[c] \in Nat /\ script[c] \in Seq(Byte) /\ arrived[c] \in 0..Len(script[c])
      BY UvFacts
    <3>3. AnswerLength(Prefix(script[c], arrived[c])) \in Nat
      BY <3>2, ReplyMonotone, ReplyType
    <3> QED BY <3>1, <3>2, <3>3
  <2>3. Fresh(c)' /\ Freed(c)'
    BY <1>2, <1>6, <2>1 DEF Good, Fresh, Freed
  <2>4. Serves(c)' <=> Serves(c)
    BY <1>2, <2>1 DEF Serves, Alive
  <2>5. Following(c) => Following(c)'
    BY <1>2, <1>3, <1>6 DEF Following
  <2>6. Rested(c) => Rested(c)'
    BY <1>2, <1>3, <1>6 DEF Rested
  <2>7. HoldsTheEnd(c) => HoldsTheEnd(c)'
    BY <1>2, <1>6 DEF HoldsTheEnd
  <2>8. Told(c) => Told(c)'
    BY <1>2, <1>3, <1>6, <2>7 DEF Told
  <2>9. Telling(c) => Telling(c)'
    BY <1>2, <1>3, <1>6, <2>1, <2>7 DEF Telling
  <2> QED BY <1>7, <2>1, <2>2, <2>3, <2>4, <2>5, <2>6, <2>8, <2>9 DEF Good
<1> QED BY <1>8, <1>10, <1>12, <1>13, <1>14, <1>15

-----------------------------------------------------------------------------
(* The steps of the loop: what they leave alone.                           *)

(* A step of the loop for c concerns nobody else, revives nothing, and     *)
(* stops the loop only after it has freed a connection.                    *)
Minds(c) ==
  /\ \A d \in Clients : d # c => Unmoved(d)
  /\ Alive' => Alive
  /\ fate' = "stopping" => fate = "stopping" \/ freed' # {}
  /\ freed \subseteq freed'

(* The functions that the state is made of.                                *)
StateFunctions ==
  /\ script \in [Clients -> Scripts] /\ link \in [Clients -> LinkState]
  /\ arrived \in [Clients -> Nat] /\ fin \in [Clients -> FinState]
  /\ taken \in [Clients -> Nat] /\ sent \in [Clients -> Seq(Byte)]
  /\ drained \in [Clients -> Nat]
  /\ state \in [Clients -> InternalState]
  /\ sendbuf \in [Clients -> [1..SENDBUF_SIZE -> Byte]]
  /\ sendbuf_end \in [Clients -> 0..SENDBUF_SIZE]
  /\ reading \in [Clients -> BOOLEAN]
  /\ requests \in [Clients -> Seq(Request)]
  /\ finished \in [Clients -> Seq(Callback)]
  /\ freed \in SUBSET Clients

(* They are functions by their types.                                      *)
LEMMA Functions == UvTypes => StateFunctions
BY DEF UvTypes, TypeOK, SocketsInv, SocketsTypeOK, Queues, StateFunctions

(* A write of c.                                                           *)
LEMMA WriteMinds ==
  ASSUME UvTypes, NEW c \in Clients, WriteTypes(c),
         UNCHANGED <<script, arrived, fin, drained>>,
         link' = link \/ \E l : link' = [link EXCEPT ![c] = l],
         taken' = taken \/ \E n : taken' = [taken EXCEPT ![c] = n],
         state' = state \/ \E s : state' = [state EXCEPT ![c] = s],
         sendbuf' = sendbuf \/ \E b : sendbuf' = [sendbuf EXCEPT ![c] = b],
         sendbuf_end' = sendbuf_end \/ \E e : sendbuf_end' = [sendbuf_end EXCEPT ![c] = e],
         reading' = reading \/ \E r : reading' = [reading EXCEPT ![c] = r],
         freed' = freed \/ freed' = freed \union {c},
         NEW d \in Clients, d # c
  PROVE  Unmoved(d)
<1>1. StateFunctions
  BY Functions
<1>2. link'[d] = link[d] /\ taken'[d] = taken[d]
  BY <1>1 DEF StateFunctions
<1>3. state'[d] = state[d] /\ sendbuf'[d] = sendbuf[d]
  BY <1>1 DEF StateFunctions
<1>4. sendbuf_end'[d] = sendbuf_end[d] /\ reading'[d] = reading[d]
  BY <1>1 DEF StateFunctions
<1>5. sent'[d] = sent[d] /\ requests'[d] = requests[d] /\ finished'[d] = finished[d]
  BY DEF WriteTypes
<1>6. d \in freed' <=> d \in freed
  OBVIOUS
<1> QED BY <1>2, <1>3, <1>4, <1>5, <1>6 DEF Unmoved

(* A step that moves nothing but how the process fares.                    *)
LEMMA FateMinds ==
  ASSUME UvTypes, UNCHANGED <<socketVars, peerVars, requests, finished>>,
         Alive' => Alive, fate' = "stopping" => fate = "stopping", NEW c \in Clients
  PROVE  Minds(c) /\ Unmoved(c)
BY DEF Minds, Unmoved, socketVars, peerVars

-----------------------------------------------------------------------------
(* A connection is accepted, and its greeting goes out at once unless its  *)
(* client is gone.                                                         *)
Accepted(c) ==
  /\ link[c] = "backlog" /\ c \notin freed
  /\ link' = [link EXCEPT ![c] = "open"]
  /\ UNCHANGED <<script, arrived, fin, taken, drained, fate, reading, freed>>
  /\ taken[c] = 0 /\ sent[c] = << >> /\ ~ reading[c] /\ Heard(c) = << >>
  /\ \/ /\ fin[c] = "rst"
        /\ UNCHANGED <<sent, finished>> /\ finished[c] = << >>
     \/ /\ fin[c] # "rst"
        /\ sent' = [sent EXCEPT ![c] = << STAR >>]
        /\ finished' = [finished EXCEPT ![c] = << "on_wrote_init_ack" >>]
        /\ requests' = [requests EXCEPT ![c] = << >>]

(* That is what it is.                                                     *)
LEMMA AcceptedDoes ==
  ASSUME UvTypes, NEW c \in Clients, Fresh(c), on_peer_connected(c)
  PROVE  Accepted(c) /\ Minds(c)
<1> DEFINE greeting == [sendbuf[c] EXCEPT ![1] = STAR]
           w == [from |-> 1, to |-> 1, cb |-> "on_wrote_init_ack"]
<1>1. /\ Alive /\ link[c] = "backlog"
      /\ link' = [link EXCEPT ![c] = "open"]
      /\ state' = [state EXCEPT ![c] = "INITIAL_ACK"]
      /\ sendbuf' = [sendbuf EXCEPT ![c] = greeting]
      /\ sendbuf_end' = [sendbuf_end EXCEPT ![c] = 1]
      /\ uv_write(c, greeting, 1, "on_wrote_init_ack")
      /\ UNCHANGED <<script, arrived, fin, taken, drained, fate, reading, freed>>
  BY DEF on_peer_connected
<1>2. /\ greeting \in [1..SENDBUF_SIZE -> Byte] /\ greeting[1] = STAR
      /\ 1 \in 1..SENDBUF_SIZE /\ "on_wrote_init_ack" \in Callback
  <2>1. sendbuf[c] \in [1..SENDBUF_SIZE -> Byte]
    BY UvFacts
  <2>2. STAR \in Byte
    BY DEF STAR, Byte
  <2>3. 1 \in 1..SENDBUF_SIZE /\ "on_wrote_init_ack" \in Callback
    BY UvAssumption DEF Callback
  <2> QED BY <2>1, <2>2, <2>3
<1> HIDE DEF greeting
<1>3. /\ requests[c] = << >> /\ finished[c] = << >> /\ ~ reading[c] /\ c \notin freed
  BY <1>1 DEF Fresh
<1>4. taken[c] = 0 /\ sent[c] = << >>
  BY <1>1 DEF UvTypes, SocketsInv, Untouched
<1>5. Heard(c) = << >>
  BY <1>4, UvFacts, ReplyToNothing DEF Heard
<1>6. WriteTypes(c)
  BY <1>1, <1>2, UvWriteTypes
<1>7. Minds(c)
  <2>1. \A d \in Clients : d # c => Unmoved(d)
    BY <1>1, <1>6, WriteMinds
  <2> QED BY <1>1, <2>1 DEF Minds, Alive
<1>8. w \in Request /\ w.from <= w.to /\ (Queued(c, w) \/ WritesAtOnce(c, greeting, w))
  BY <1>1, <1>2, UvWriteDoes
<1>9. CASE Queued(c, w)
  BY <1>1, <1>3, <1>4, <1>5, <1>7, <1>9 DEF Queued, Accepted
<1>10. CASE WritesAtOnce(c, greeting, w)
  <2>1. PICK n \in Nat : WritesSome(c, greeting, w, << >>, n)
    BY <1>10 DEF WritesAtOnce
  <2>2. fin[c] # "rst"
    BY <1>10 DEF WritesAtOnce
  <2>3. Room(c) >= 1
    <3>1. Len(sent[c]) = 0 /\ SockBuf \in Nat \ {0} /\ drained[c] \in Nat
      BY <1>4, UvFacts, SocketsAssumption
    <3> QED BY <3>1 DEF Room
  <2>4. w.from = 1 /\ w.to = 1 /\ w.cb = "on_wrote_init_ack" /\ w.from - 1 = 0
    OBVIOUS
  <2> HIDE DEF w
  <2>5. /\ n \in 0..(w.to - w.from + 1)
        /\ sent' = [sent EXCEPT ![c] = @ \o Chunk(greeting, w.from - 1, w.from - 1 + n)]
        /\ \/ /\ n = w.to - w.from + 1
              /\ requests' = [requests EXCEPT ![c] = << >>]
              /\ finished' = [finished EXCEPT ![c] = Append(@, w.cb)]
           \/ n < w.to - w.from + 1 /\ n = Room(c)
    BY <2>1 DEF WritesSome
  <2>6. n = 1
    BY <2>3, <2>4, <2>5
  <2>7. Chunk(greeting, 0, 1) = << STAR >>
    <3> DEFINE one == SubSeq(greeting, 0 + 1, 0 + 1)
    <3>1. greeting \in Seq(Byte) /\ Len(greeting) = SENDBUF_SIZE /\ 0 + 1 <= SENDBUF_SIZE
      BY <1>2, BufferIsSequence, UvAssumption
    <3>2. one \in Seq(Byte) /\ Len(one) = 1 /\ \A k \in 1..1 : one[k] = greeting[k + 0]
      BY <3>1, PieceBytes
    <3>3. one = Chunk(greeting, 0, 1)
      BY DEF Chunk
    <3> HIDE DEF one
    <3>4. one[1] = STAR
      BY <1>2, <3>2
    <3>5. << STAR >> \in Seq(Byte) /\ Len(<< STAR >>) = 1 /\ << STAR >>[1] = STAR
      BY DEF STAR, Byte
    <3>6. \A k \in 1..Len(one) : one[k] = << STAR >>[k]
      BY <3>2, <3>4, <3>5
    <3>7. one = << STAR >>
      BY <3>2, <3>5, <3>6, SeqEqual
    <3> QED BY <3>3, <3>7
  <2>8. /\ sent' = [sent EXCEPT ![c] = << >> \o << STAR >>]
        /\ requests' = [requests EXCEPT ![c] = << >>]
        /\ finished' = [finished EXCEPT ![c] = Append(<< >>, "on_wrote_init_ack")]
    <3>1. w.from - 1 + n = 1 /\ ~ (n < w.to - w.from + 1)
      BY <2>4, <2>6
    <3>2. /\ sent' = [sent EXCEPT ![c] = @ \o Chunk(greeting, 0, 1)]
          /\ requests' = [requests EXCEPT ![c] = << >>]
          /\ finished' = [finished EXCEPT ![c] = Append(@, "on_wrote_init_ack")]
      BY <2>4, <2>5, <3>1
    <3> QED BY <1>3, <1>4, <2>7, <3>2
  <2>9. << >> \o << STAR >> = << STAR >>
        /\ Append(<< >>, "on_wrote_init_ack") = << "on_wrote_init_ack" >>
    OBVIOUS
  <2> QED BY <1>1, <1>3, <1>4, <1>5, <1>7, <2>2, <2>8, <2>9 DEF Accepted
<1> QED BY <1>8, <1>9, <1>10

(* It is told its '*', or has ended.                                       *)
LEMMA AcceptedGood ==
  ASSUME UvTypes, UvTypes', NEW c \in Clients, Good(c), on_peer_connected(c)
  PROVE  Good(c)'
<1>1. Accepted(c)
  BY AcceptedDoes DEF Good
<1>2. StateFunctions
  BY Functions
<1>3. link'[c] = "open" /\ UNCHANGED <<script, arrived, fin, taken, drained, fate, reading, freed>>
  BY <1>1, <1>2 DEF Accepted, StateFunctions
<1>4. /\ taken[c] = 0 /\ sent[c] = << >> /\ ~ reading[c] /\ Heard(c) = << >> /\ c \notin freed
  BY <1>1 DEF Accepted
<1>5. Heard(c)' = << >> /\ Owed(c)' = << STAR >> /\ Owed(c) = << STAR >>
  <2>1. Reply(<< >>) = << STAR >>
    BY UvFacts, ReplyToNothing
  <2> QED BY <1>3, <1>4, <2>1 DEF Heard, Owed
<1>6. Fresh(c)' /\ PatientEnd(c)' /\ Freed(c)'
  BY <1>3, <1>4 DEF Good, Fresh, PatientEnd, Freed, Patient
<1>7. CASE fin[c] = "rst" /\ UNCHANGED <<sent, finished>> /\ finished[c] = << >>
  <2>1. Greeted(c)' /\ SentAPart(c)'
    BY <1>3, <1>4, <1>5, <1>7 DEF Good, Greeted, SentAPart
  <2>2. Following(c)'
    BY <1>3, <1>4, <1>7 DEF Following
  <2> QED BY <1>3, <1>6, <1>7, <2>1, <2>2 DEF Good
<1>8. CASE /\ sent' = [sent EXCEPT ![c] = << STAR >>]
           /\ finished' = [finished EXCEPT ![c] = << "on_wrote_init_ack" >>]
           /\ requests' = [requests EXCEPT ![c] = << >>]
  <2>1. /\ sent'[c] = << STAR >> /\ finished'[c] = << "on_wrote_init_ack" >>
        /\ requests'[c] = << >>
    BY <1>2, <1>8 DEF StateFunctions
  <2>2. << STAR >> # << >> /\ << "on_wrote_init_ack" >> # << >>
        /\ << >> \in Seq(Byte) /\ << STAR >> \o << >> = << STAR >>
    OBVIOUS
  <2>3. Greeted(c)' /\ SentAPart(c)'
    BY <1>5, <2>1, <2>2 DEF Greeted, SentAPart
  <2>4. Following(c)'
    BY <1>3, <1>4, <2>1 DEF Following
  <2>5. Told(c)'
    BY <1>3, <1>4, <1>5, <2>1, <2>2 DEF Told
  <2> QED BY <1>6, <2>3, <2>4, <2>5 DEF Good
<1> QED BY <1>1, <1>7, <1>8 DEF Accepted

-----------------------------------------------------------------------------
(* The numbers of a write of which n bytes are taken.                      *)
LEMMA Between ==
  ASSUME NEW f \in 1..SENDBUF_SIZE, NEW t \in 1..SENDBUF_SIZE, f <= t, NEW n \in 0..(t - f + 1)
  PROVE  /\ f - 1 \in Nat /\ f - 1 + n \in Nat /\ f - 1 <= f - 1 + n /\ f - 1 + n <= t
         /\ t <= SENDBUF_SIZE /\ t \in Nat /\ t <= t
         /\ (n = t - f + 1 => f - 1 + n = t)
         /\ (n < t - f + 1 => /\ f + n \in 1..SENDBUF_SIZE /\ f + n <= t
                              /\ (f + n) - 1 = f - 1 + n)
BY UvAssumption

(* The kernel takes a part or the whole of what is still to be said.       *)
LEMMA SaysMore ==
  ASSUME UvTypes, UvTypes', NEW c \in Clients,
         NEW w \in Request, w.cb = "on_wrote_buf", w.from <= w.to,
         NEW buffer \in [1..SENDBUF_SIZE -> Byte],
         NEW n \in Nat, WritesSome(c, buffer, w, << >>, n),
         sent[c] \o Chunk(buffer, w.from - 1, w.to) = Owed(c)',
         sendbuf'[c] = buffer, sendbuf_end'[c] = w.to,
         finished[c] = << >>, reading'[c], HoldsTheEnd(c)',
         n < w.to - w.from + 1 => Patient(c)' /\ arrived'[c] = taken'[c] /\ fin'[c] = "no"
  PROVE  /\ Told(c)' \/ Telling(c)'
         /\ finished'[c] \in {<< >>, << "on_wrote_buf" >>}
         /\ SentAPart(c)'
<1> DEFINE m == w.from - 1
           q == w.from - 1 + n
<1>1. w.from \in 1..SENDBUF_SIZE /\ w.to \in 1..SENDBUF_SIZE /\ SENDBUF_SIZE \in Nat
  BY UvAssumption DEF Request
<1>2. n \in 0..(w.to - w.from + 1)
  BY DEF WritesSome
<1>3. /\ m \in Nat /\ q \in Nat /\ m <= q /\ q <= w.to /\ w.to <= SENDBUF_SIZE /\ w.to \in Nat
      /\ w.to <= w.to
      /\ (n = w.to - w.from + 1 => q = w.to)
      /\ (n < w.to - w.from + 1 => /\ w.from + n \in 1..SENDBUF_SIZE /\ w.from + n <= w.to
                                   /\ (w.from + n) - 1 = q)
  <2> DEFINE f == w.from
             t == w.to
  <2>1. f \in 1..SENDBUF_SIZE /\ t \in 1..SENDBUF_SIZE /\ f <= t /\ n \in 0..(t - f + 1)
    BY <1>1, <1>2
  <2> HIDE DEF f, t
  <2>2. /\ f - 1 \in Nat /\ f - 1 + n \in Nat /\ f - 1 <= f - 1 + n /\ f - 1 + n <= t
        /\ t <= SENDBUF_SIZE /\ t \in Nat /\ t <= t
        /\ (n = t - f + 1 => f - 1 + n = t)
        /\ (n < t - f + 1 => /\ f + n \in 1..SENDBUF_SIZE /\ f + n <= t
                             /\ (f + n) - 1 = f - 1 + n)
    BY <2>1, Between
  <2> QED BY <2>2, Zenon DEF f, t
<1>4. sent' = [sent EXCEPT ![c] = @ \o Chunk(buffer, m, q)]
  BY DEF WritesSome
<1>5. StateFunctions
  BY Functions
<1>6. /\ \/ /\ n = w.to - w.from + 1
            /\ requests' = [requests EXCEPT ![c] = << >>]
            /\ finished' = [finished EXCEPT ![c] = Append(@, w.cb)]
         \/ /\ n < w.to - w.from + 1
            /\ requests' = [requests EXCEPT ![c] = << [w EXCEPT !.from = @ + n] >> \o << >>]
            /\ UNCHANGED finished
  BY DEF WritesSome
<1> HIDE DEF m, q
<1>7. sent'[c] = sent[c] \o Chunk(buffer, m, q)
  BY <1>4, <1>5 DEF StateFunctions
<1> DEFINE x == Chunk(buffer, m, q)
           y == Chunk(buffer, q, w.to)
<1>8. x \in Seq(Byte) /\ y \in Seq(Byte) /\ x \o y = Chunk(buffer, m, w.to)
  <2> DEFINE t == w.to
  <2>1. m \in Nat /\ q \in Nat /\ t \in Nat /\ m <= q /\ q <= t /\ t <= SENDBUF_SIZE
    BY <1>3
  <2> HIDE DEF t
  <2>2. /\ Chunk(buffer, m, q) \in Seq(Byte) /\ Chunk(buffer, q, t) \in Seq(Byte)
        /\ Chunk(buffer, m, q) \o Chunk(buffer, q, t) = Chunk(buffer, m, t)
    BY <2>1, ChunkFacts
  <2> QED BY <2>2 DEF t, x, y
<1>9. sent[c] \in Seq(Byte)
  BY UvFacts
<1> HIDE DEF x, y
<1>10. (sent[c] \o x) \o y = sent[c] \o (x \o y)
  BY <1>8, <1>9, ConcatAssoc, Zenon
<1>11. sent'[c] \o y = Owed(c)'
  <2>1. sent[c] \o (x \o y) = Owed(c)'
    BY <1>8 DEF m
  <2>2. sent'[c] = sent[c] \o x
    BY <1>7 DEF x
  <2> QED BY <1>10, <2>1, <2>2
<1>12. SentAPart(c)'
  BY <1>8, <1>11 DEF SentAPart
<1>13. CASE /\ n = w.to - w.from + 1
            /\ requests' = [requests EXCEPT ![c] = << >>]
            /\ finished' = [finished EXCEPT ![c] = Append(@, w.cb)]
  <2>1. requests'[c] = << >> /\ finished'[c] = Append(<< >>, "on_wrote_buf")
    BY <1>5, <1>13 DEF StateFunctions
  <2>2. finished'[c] = << "on_wrote_buf" >> /\ finished'[c] # << >>
    BY <2>1
  <2>3. y = << >>
    <3>1. Chunk(buffer, w.to, w.to) = << >>
      BY <1>3 DEF Chunk
    <3> QED BY <1>3, <1>13, <3>1 DEF y
  <2>4. sent'[c] = Owed(c)'
    <3>1. sent[c] \o x \in Seq(Byte)
      BY <1>8, <1>9, ConcatType
    <3>2. sent'[c] \in Seq(Byte)
      BY <1>7, <3>1 DEF x
    <3>3. sent'[c] \o << >> = sent'[c]
      BY <3>2, ConcatNothing
    <3> QED BY <1>11, <2>3, <3>3
  <2>5. Told(c)'
    BY <2>1, <2>2, <2>4 DEF Told
  <2> QED BY <1>12, <2>2, <2>5
<1>14. CASE /\ n < w.to - w.from + 1
            /\ requests' = [requests EXCEPT ![c] = << [w EXCEPT !.from = @ + n] >> \o << >>]
            /\ UNCHANGED finished
  <2> DEFINE v == [w EXCEPT !.from = @ + n]
  <2>1. w.from + n \in 1..SENDBUF_SIZE /\ w.from + n <= w.to
    BY <1>3, <1>14
  <2>2. v \in Request /\ v.from = w.from + n /\ v.to = w.to /\ v.cb = w.cb
    BY <2>1, Zenon DEF Request
  <2>3. v.from <= v.to /\ v.from - 1 = q
    <3>1. (w.from + n) - 1 = q
      BY <1>3, <1>14
    <3> HIDE DEF v
    <3>2. v.from = w.from + n /\ v.to = w.to
      BY <2>2
    <3> QED BY <2>1, <3>1, <3>2, Zenon
  <2>4. requests'[c] = << v >> \o << >>
    BY <1>5, <1>14 DEF StateFunctions
  <2> HIDE DEF v
  <2>5. requests'[c] = << v >>
    BY <2>4
  <2>6. sent'[c] \o Chunk(sendbuf'[c], v.from - 1, v.to) = Owed(c)'
    BY <1>11, <2>2, <2>3 DEF y
  <2>7. finished'[c] = << >>
    BY <1>14
  <2>8. Patient(c)' /\ arrived'[c] = taken'[c] /\ fin'[c] = "no"
    BY <1>14
  <2>9. v.cb = "on_wrote_buf" /\ v.to = sendbuf_end'[c]
    BY <2>2
  <2>10. Telling(c)'
    BY <2>2, <2>3, <2>5, <2>6, <2>7, <2>8, <2>9 DEF Telling
  <2> QED BY <1>12, <2>7, <2>10
<1> QED BY <1>6, <1>13, <1>14

(* The loop writes more of what a client is owed.                          *)
LEMMA WriteMoreGood ==
  ASSUME UvTypes, UvTypes', NEW c \in Clients, Good(c), WriteMore(c)
  PROVE  /\ Good(c)' /\ Minds(c)
         /\ WriteTypes(c)
<1>1. /\ Serves(c) /\ requests[c] # << >> /\ fin[c] # "rst"
      /\ WriteOut(c, sendbuf[c], Head(requests[c]), Tail(requests[c]))
      /\ UNCHANGED <<script, link, arrived, fin, taken, drained, fate, peerVars>>
  BY DEF WriteMore
<1>2. Telling(c)
  BY <1>1 DEF Good, Rested, Told
<1>3. PICK w \in Request :
        /\ requests[c] = << w >> /\ w.cb = "on_wrote_buf"
        /\ w.from <= w.to /\ w.to = sendbuf_end[c]
        /\ sent[c] \o Chunk(sendbuf[c], w.from - 1, w.to) = Owed(c)
  BY <1>2 DEF Telling
<1>4. Head(requests[c]) = w /\ Tail(requests[c]) = << >>
  BY <1>3
<1>5. WriteOut(c, sendbuf[c], w, << >>)
  BY <1>1, <1>4
<1>6. sendbuf[c] \in [1..SENDBUF_SIZE -> Byte]
  BY UvFacts
<1>7. PICK n \in Nat : WritesSome(c, sendbuf[c], w, << >>, n)
  BY <1>3, <1>5, <1>6, WriteOutDoes
<1>8. << >> \in Seq(Request) /\ HasBytes(<< >>)
  BY DEF HasBytes
<1>9. WriteTypes(c)
  BY <1>3, <1>6, <1>7, <1>8, WritesSomeTypes
<1>10. Minds(c)
  <2>1. UNCHANGED <<state, sendbuf, sendbuf_end, reading, freed>>
    BY <1>1 DEF peerVars
  <2>2. \A d \in Clients : d # c => Unmoved(d)
    BY <1>1, <1>9, <2>1, WriteMinds
  <2> QED BY <1>1, <2>1, <2>2 DEF Minds, Alive
<1>11. Heard(c)' = Heard(c) /\ Owed(c)' = Owed(c) /\ Patient(c)' = Patient(c)
  BY <1>1 DEF Heard, Owed, Patient
<1>12. UNCHANGED <<state, sendbuf, sendbuf_end, reading, freed>>
  BY <1>1 DEF peerVars
<1>13. HoldsTheEnd(c)'
  BY <1>2, <1>11, <1>12 DEF Telling, HoldsTheEnd
<1>14. /\ finished[c] = << >> /\ reading'[c] /\ sendbuf'[c] = sendbuf[c]
       /\ sendbuf_end'[c] = w.to
       /\ Patient(c)' /\ arrived'[c] = taken'[c] /\ fin'[c] = "no"
  BY <1>1, <1>2, <1>3, <1>11, <1>12 DEF Telling
<1>15. /\ Told(c)' \/ Telling(c)'
       /\ finished'[c] \in {<< >>, << "on_wrote_buf" >>}
       /\ SentAPart(c)'
  BY <1>3, <1>6, <1>7, <1>11, <1>13, <1>14, SaysMore
<1>16. Serves(c)' /\ reading[c]
  BY <1>1, <1>2, <1>12 DEF Serves, Alive, Telling
<1>17. Greeted(c)'
  <2>1. sent[c] # << >> /\ Len(sent[c]) <= Len(sent'[c])
    BY <1>9, <1>16 DEF Good, Greeted, WriteTypes
  <2>2. sent[c] \in Seq(Byte) /\ sent'[c] \in Seq(Byte)
    BY <1>9, UvFacts DEF WriteTypes
  <2>3. sent'[c] # << >>
    BY <2>1, <2>2
  <2> QED BY <2>3 DEF Greeted
<1>18. Fresh(c)' /\ PatientEnd(c)' /\ Freed(c)'
  <2>1. link[c] = "open"
    BY <1>1 DEF Serves
  <2> QED BY <1>1, <1>11, <1>12, <2>1 DEF Good, Fresh, PatientEnd, Freed
<1>19. Following(c)'
  <2>1. Following(c)
    BY <1>1 DEF Good
  <2> QED BY <1>1, <1>11, <1>12, <1>15, <1>16, <2>1 DEF Following
<1>20. Good(c)'
  BY <1>15, <1>17, <1>18, <1>19 DEF Good
<1> QED BY <1>9, <1>10, <1>20

-----------------------------------------------------------------------------
(* The callbacks of writes that are done.                                  *)

(* A callback that is called was due, and is so no more.                   *)
LEMMA CalledBack ==
  ASSUME UvTypes, NEW c \in Clients, Good(c), NEW cb, NextCallback(c, cb)
  PROVE  /\ Serves(c) /\ link[c] = "open" /\ c \notin freed
         /\ finished[c] = << cb >> /\ finished'[c] = << >>
         /\ cb = IF reading[c] THEN "on_wrote_buf" ELSE "on_wrote_init_ack"
         /\ sent[c] # << >>
         /\ fin[c] # "rst" => Told(c)
         /\ \A d \in Clients : d # c => finished'[d] = finished[d]
         /\ finished' \in [Clients -> Seq(Callback)]
<1>1. /\ Serves(c) /\ finished[c] # << >> /\ Head(finished[c]) = cb
      /\ finished' = [finished EXCEPT ![c] = Tail(@)]
  BY DEF NextCallback
<1>2. finished \in [Clients -> Seq(Callback)]
  BY DEF UvTypes, Queues
<1>3. finished[c] = << IF reading[c] THEN "on_wrote_buf" ELSE "on_wrote_init_ack" >>
  BY <1>1 DEF Good, Following
<1>4. finished[c] = << cb >> /\ cb = IF reading[c] THEN "on_wrote_buf" ELSE "on_wrote_init_ack"
  BY <1>1, <1>3
<1>5. Tail(finished[c]) = << >> /\ Tail(finished[c]) \in Seq(Callback)
  BY <1>4
<1>6. sent[c] # << >> /\ (fin[c] # "rst" => Told(c))
  BY <1>1 DEF Good, Greeted, Rested, Telling
<1> QED BY <1>1, <1>2, <1>4, <1>5, <1>6 DEF Serves

(* The greeting is written: the connection rests, and is read.             *)
LEMMA InitAckGood ==
  ASSUME UvTypes, UvTypes', NEW c \in Clients, Good(c), on_wrote_init_ack(c)
  PROVE  Good(c)' /\ Minds(c)
<1>1. /\ NextCallback(c, "on_wrote_init_ack")
      /\ state' = [state EXCEPT ![c] = "WAIT_FOR_MSG"]
      /\ sendbuf_end' = [sendbuf_end EXCEPT ![c] = 0]
      /\ reading' = [reading EXCEPT ![c] = TRUE]
      /\ UNCHANGED <<socketVars, fate, sendbuf, requests, freed>>
  BY DEF on_wrote_init_ack
<1>2. UNCHANGED <<script, link, arrived, fin, taken, sent, drained>>
  BY <1>1 DEF socketVars
<1>3. /\ Serves(c) /\ link[c] = "open" /\ c \notin freed
      /\ finished[c] = << "on_wrote_init_ack" >> /\ finished'[c] = << >>
      /\ "on_wrote_init_ack" = IF reading[c] THEN "on_wrote_buf" ELSE "on_wrote_init_ack"
      /\ sent[c] # << >>
      /\ fin[c] # "rst" => Told(c)
      /\ \A d \in Clients : d # c => finished'[d] = finished[d]
      /\ finished' \in [Clients -> Seq(Callback)]
  BY <1>1, CalledBack
<1>4. ~ reading[c] /\ taken[c] = 0
  BY <1>3 DEF Good, Following
<1>5. state'[c] = "WAIT_FOR_MSG" /\ sendbuf_end'[c] = 0 /\ reading'[c]
  <2>1. StateFunctions
    BY Functions
  <2> QED BY <1>1, <2>1 DEF StateFunctions
<1>6. WriteTypes(c)
  BY <1>1, <1>2, <1>3, SilentTypes
<1>7. Minds(c)
  <2>1. \A d \in Clients : d # c => Unmoved(d)
    BY <1>1, <1>2, <1>6, WriteMinds
  <2> QED BY <1>1, <2>1 DEF Minds, Alive
<1>8. Heard(c)' = Heard(c) /\ Owed(c)' = Owed(c) /\ Patient(c)' = Patient(c)
  BY <1>2 DEF Heard, Owed, Patient
<1>9. Heard(c)' = << >> /\ Parse("WAIT_FOR_MSG", << >>).state = "WAIT_FOR_MSG"
  <2>1. script[c] \in Seq(Byte)
    BY UvFacts
  <2> QED BY <1>4, <1>8, <2>1, ReplyToNothing DEF Heard
<1>10. Following(c)'
  <2>1. 0 <= Len(Echo(Heard(c)'))
    <3>1. << >> \in Seq(Byte)
      OBVIOUS
    <3>2. Len(Echo(<< >>)) = Cardinality(Echoed(<< >>)) /\ Echo(<< >>) \in Seq(Byte)
      BY <3>1, ReplyType, Zenon
    <3>3. Len(Echo(<< >>)) \in Nat
      BY <3>2
    <3>4. Len(Echo(<< >>)) >= 0
      BY <3>3
    <3> QED BY <1>9, <3>3, <3>4
  <2> QED BY <1>2, <1>3, <1>4, <1>5, <1>9, <2>1 DEF Following
<1>11. fin[c] # "rst" => Rested(c)'
  BY <1>1, <1>2, <1>3, <1>5, <1>8 DEF Told, Rested
<1>12. Fresh(c)' /\ Greeted(c)' /\ PatientEnd(c)' /\ SentAPart(c)' /\ Freed(c)'
  BY <1>1, <1>2, <1>3, <1>8 DEF Good, Fresh, Greeted, PatientEnd, SentAPart, Freed
<1>13. Good(c)'
  BY <1>2, <1>10, <1>11, <1>12 DEF Good
<1> QED BY <1>7, <1>13

(* A buffer that ends in XYZ holds the end of an echo that does.           *)
LEMMA EndAsksToStop ==
  ASSUME UvTypes, NEW c \in Clients, HoldsTheEnd(c), peer_end(c)
  PROVE  AsksToStop(Heard(c))
<1>1. PICK pre \in Seq(Byte) : Echo(Heard(c)) = pre \o Chunk(sendbuf[c], 0, sendbuf_end[c])
  BY DEF HoldsTheEnd
<1>2. sendbuf_end[c] \in 0..SENDBUF_SIZE /\ sendbuf[c] \in [1..SENDBUF_SIZE -> Byte]
      /\ script[c] \in Seq(Byte) /\ taken[c] \in 0..Len(script[c])
  BY UvFacts
<1> DEFINE e == sendbuf_end[c]
           buffer == sendbuf[c]
           tail == Chunk(buffer, 0, e)
           all == Echo(Heard(c))
           k == Len(pre) + e - 3
<1>3. e >= 3 /\ SubSeq(buffer, e - 2, e) = << 88, 89, 90 >>
  BY DEF peer_end
<1>4. Heard(c) \in Seq(Byte)
  BY <1>2, ReplyMonotone DEF Heard
<1>5. all \in Seq(Byte) /\ Len(all) = Cardinality(Echoed(Heard(c)))
  BY <1>4, ReplyType
<1> HIDE DEF e, buffer, all
<1>6. e \in Nat /\ e <= SENDBUF_SIZE /\ SENDBUF_SIZE \in Nat
  BY <1>2, UvAssumption DEF e
<1>7. buffer \in Seq(Byte) /\ Len(buffer) = SENDBUF_SIZE
  BY <1>2, BufferIsSequence DEF buffer
<1>8. 0 + 1 = 1 /\ 0 \in Nat /\ 0 + e = e /\ tail = SubSeq(buffer, 0 + 1, 0 + e)
  BY <1>6 DEF Chunk
<1>9. tail \in Seq(Byte) /\ Len(tail) = e /\ \A i \in 1..e : tail[i] = buffer[i + 0]
  <2> DEFINE z == 0
  <2>1. z \in Nat /\ z + e <= Len(buffer)
    BY <1>6, <1>7
  <2> HIDE DEF z
  <2>2. /\ SubSeq(buffer, z + 1, z + e) \in Seq(Byte) /\ Len(SubSeq(buffer, z + 1, z + e)) = e
        /\ \A i \in 1..e : SubSeq(buffer, z + 1, z + e)[i] = buffer[i + z]
    BY <1>6, <1>7, <2>1, PieceBytes
  <2> HIDE DEF tail
  <2> QED BY <1>8, <2>2, Zenon DEF z
<1> HIDE DEF tail
<1>10. all = pre \o tail
  BY <1>1 DEF all, tail, e, buffer
<1>11. Len(all) = Len(pre) + e /\ Len(pre) \in Nat
  <2>1. Len(pre \o tail) = Len(pre) + Len(tail)
    BY <1>9, ConcatType, Zenon
  <2>2. Len(pre) \in Nat
    OBVIOUS
  <2> QED BY <1>9, <1>10, <2>1, <2>2
<1>12. \A i \in 1..e : all[Len(pre) + i] = tail[i]
  BY <1>9, <1>10
<1>13. k \in 0..(Len(all) - 3) /\ k \in Nat /\ k + 3 <= Len(all)
  BY <1>3, <1>6, <1>11
<1>14. \A i \in 1..3 : e - 3 + i \in 1..e /\ Len(pre) + (e - 3 + i) = i + k
  BY <1>3, <1>6, <1>11
<1>15. \A i \in 1..3 : all[i + k] = buffer[e - 3 + i]
  <2> TAKE i \in 1..3
  <2> DEFINE j == e - 3 + i
  <2>1. j \in 1..e /\ Len(pre) + j = i + k
    BY <1>14
  <2> HIDE DEF j, k
  <2>2. all[i + k] = tail[j] /\ tail[j] = buffer[j + 0]
    BY <1>9, <1>12, <2>1
  <2>3. j + 0 = j
    BY <1>6, <2>1
  <2> QED BY <2>2, <2>3 DEF j
<1>16. \A i \in 1..3 : buffer[e - 3 + i] = << 88, 89, 90 >>[i]
  <2>1. e - 3 \in Nat /\ e - 3 + 1 = e - 2 /\ e - 3 + 3 = e /\ e - 3 + 3 <= Len(buffer)
    BY <1>3, <1>6, <1>7
  <2> DEFINE m == e - 3
  <2>2. \A i \in 1..3 : SubSeq(buffer, m + 1, m + 3)[i] = buffer[i + m]
    <3>1. m \in Nat /\ m + 3 <= Len(buffer)
      BY <2>1
    <3> HIDE DEF m
    <3> QED BY <1>7, <3>1, PieceBytes
  <2>3. SubSeq(buffer, m + 1, m + 3) = << 88, 89, 90 >>
    BY <1>3, <2>1
  <2>4. \A i \in 1..3 : i + m = e - 3 + i
    BY <1>6
  <2> QED BY <2>2, <2>3, <2>4
<1> HIDE DEF k
<1> DEFINE found == SubSeq(all, k + 1, k + 3)
<1>17. /\ found \in Seq(Byte) /\ Len(found) = 3
       /\ \A i \in 1..3 : found[i] = all[i + k]
  BY <1>5, <1>13, PieceBytes
<1> HIDE DEF found
<1>18. << 88, 89, 90 >> \in Seq(Byte) /\ Len(<< 88, 89, 90 >>) = 3
  BY DEF Byte
<1>19. \A i \in 1..Len(found) : found[i] = << 88, 89, 90 >>[i]
  BY <1>15, <1>16, <1>17
<1>20. found = << 88, 89, 90 >>
  BY <1>17, <1>18, <1>19, SeqEqual
<1> QED BY <1>5, <1>13, <1>20 DEF AsksToStop, found, all

(* An echo is written: the connection rests, or is freed.                  *)
LEMMA WroteBufGood ==
  ASSUME UvTypes, UvTypes', NEW c \in Clients, Good(c), on_wrote_buf(c)
  PROVE  Good(c)' /\ Minds(c)
<1>1. /\ NextCallback(c, "on_wrote_buf")
      /\ UNCHANGED <<socketVars, state, sendbuf, reading, requests>>
      /\ \/ /\ peer_end(c)
            /\ freed' = freed \union {c} /\ fate' = "stopping"
            /\ UNCHANGED sendbuf_end
         \/ /\ sendbuf_end' = [sendbuf_end EXCEPT ![c] = 0]
            /\ UNCHANGED <<freed, fate>>
  BY DEF on_wrote_buf
<1>2. UNCHANGED <<script, link, arrived, fin, taken, sent, drained>>
  BY <1>1 DEF socketVars
<1>3. /\ Serves(c) /\ link[c] = "open" /\ c \notin freed
      /\ finished[c] = << "on_wrote_buf" >> /\ finished'[c] = << >>
      /\ "on_wrote_buf" = IF reading[c] THEN "on_wrote_buf" ELSE "on_wrote_init_ack"
      /\ sent[c] # << >>
      /\ fin[c] # "rst" => Told(c)
      /\ \A d \in Clients : d # c => finished'[d] = finished[d]
      /\ finished' \in [Clients -> Seq(Callback)]
  BY <1>1, CalledBack
<1>4. reading[c] /\ Following(c)
  BY <1>3 DEF Good
<1>5. WriteTypes(c)
  BY <1>1, <1>2, <1>3, SilentTypes
<1>6. Minds(c)
  <2>1. \A d \in Clients : d # c => Unmoved(d)
    BY <1>1, <1>2, <1>5, WriteMinds
  <2> QED BY <1>1, <1>3, <2>1 DEF Minds, Serves, Alive
<1>7. Heard(c)' = Heard(c) /\ Owed(c)' = Owed(c) /\ Patient(c)' = Patient(c)
  BY <1>2 DEF Heard, Owed, Patient
<1>8. Fresh(c)' /\ Greeted(c)' /\ PatientEnd(c)' /\ SentAPart(c)'
  BY <1>1, <1>2, <1>3, <1>7 DEF Good, Fresh, Greeted, PatientEnd, SentAPart
<1>9. CASE peer_end(c) /\ freed' = freed \union {c}
  <2>1. Freed(c)'
    <3>1. fin[c] = "rst" \/ AsksToStop(Heard(c))
      BY <1>3, <1>4, <1>9, EndAsksToStop DEF Told
    <3> QED BY <1>2, <1>7, <3>1 DEF Freed
  <2>2. ~ Serves(c)'
    BY <1>9 DEF Serves
  <2> QED BY <1>6, <1>8, <2>1, <2>2 DEF Good
<1>10. CASE /\ sendbuf_end' = [sendbuf_end EXCEPT ![c] = 0]
            /\ UNCHANGED <<freed, fate>>
  <2>1. sendbuf_end'[c] = 0
    <3>1. StateFunctions
      BY Functions
    <3> QED BY <1>10, <3>1 DEF StateFunctions
  <2>2. Freed(c)'
    BY <1>3, <1>10 DEF Freed
  <2>3. Following(c)'
    <3>1. Heard(c) \in Seq(Byte)
      <4>1. script[c] \in Seq(Byte) /\ taken[c] \in 0..Len(script[c])
        BY UvFacts
      <4> QED BY <4>1, ReplyMonotone DEF Heard
    <3>2. 0 <= Len(Echo(Heard(c)))
      <4> DEFINE x == Echo(Heard(c))
      <4>1. x \in Seq(Byte)
        BY <3>1, ReplyType, Zenon
      <4> HIDE DEF x
      <4>2. 0 <= Len(x)
        BY <4>1
      <4> QED BY <4>2 DEF x
    <3> QED BY <1>1, <1>2, <1>3, <1>4, <1>7, <2>1, <3>2 DEF Following
  <2>4. fin[c] # "rst" => Rested(c)'
    BY <1>1, <1>2, <1>3, <1>4, <1>7, <2>1 DEF Told, Rested
  <2>5. Good(c)'
    BY <1>2, <1>8, <2>2, <2>3, <2>4 DEF Good
  <2> QED BY <1>6, <2>5
<1> QED BY <1>1, <1>9, <1>10

-----------------------------------------------------------------------------
(* A read that brings bytes.                                               *)

NextBytes(c, bytes) ==
  /\ taken[c] + Len(bytes) <= arrived[c]
  /\ bytes = SubSeq(script[c], taken[c] + 1, taken[c] + Len(bytes))

(* What the client is owed grows by what the parser makes of them.         *)
HeardMore(c, bytes, r) ==
  /\ r.out \in Seq(Byte) /\ Len(r.out) \in Nat /\ Len(r.out) <= Len(bytes)
  /\ taken'[c] = taken[c] + Len(bytes)
  /\ state'[c] = Parse("WAIT_FOR_MSG", Heard(c)').state
  /\ Heard(c)' \in Seq(Byte)
  /\ Echo(Heard(c)) \in Seq(Byte) /\ Echo(Heard(c))' = Echo(Heard(c)) \o r.out
  /\ Len(Echo(Heard(c))) \in Nat
  /\ Len(Echo(Heard(c)')) = Len(Echo(Heard(c))) + Len(r.out)
  /\ Owed(c) \in Seq(Byte) /\ Owed(c)' = Owed(c) \o r.out

(* So it does.                                                             *)
LEMMA HearsMore ==
  ASSUME UvTypes, NEW c \in Clients, NEW bytes \in Seq(Byte), NextBytes(c, bytes),
         state[c] = Parse("WAIT_FOR_MSG", Heard(c)).state,
         NEW r, r = Parse(state[c], bytes),
         script' = script, taken' = [taken EXCEPT ![c] = @ + Len(bytes)],
         state' = [state EXCEPT ![c] = r.state]
  PROVE  HeardMore(c, bytes, r)
<1> DEFINE s == script[c]
           m == taken[c]
           n == Len(bytes)
           b == SubSeq(s, m + 1, m + n)
           a == Prefix(s, m)
           p == Parse("WAIT_FOR_MSG", a)
<1>1. /\ s \in Seq(Byte) /\ m \in Nat /\ n \in Nat /\ m + n <= Len(s)
  <2>1. /\ s \in Seq(Byte) /\ m \in Nat /\ arrived[c] \in Nat /\ Len(s) \in Nat
        /\ arrived[c] <= Len(s)
    BY UvFacts
  <2>2. n \in Nat /\ m + n <= arrived[c]
    BY DEF NextBytes
  <2> HIDE DEF s, m, n
  <2> QED BY <2>1, <2>2
<1>2. bytes = b
  BY DEF NextBytes
<1>3. r \in Parsing /\ Len(r.out) <= n
  <2>1. state[c] \in InternalState
    BY UvFacts
  <2> QED BY <2>1, ParseType
<1>4. taken'[c] = m + n /\ state'[c] = r.state
  BY Functions DEF StateFunctions
<1>5. Heard(c) = a /\ Heard(c)' = Prefix(s, m + n)
  BY <1>4 DEF Heard
<1> HIDE DEF s, m, n, b
<1>6. r = Parse(p.state, b)
  BY <1>2, <1>5
<1>7. /\ a \in Seq(Byte) /\ Prefix(s, m + n) \in Seq(Byte)
      /\ Parse("WAIT_FOR_MSG", Prefix(s, m + n)).state = Parse(p.state, b).state
      /\ Echo(Prefix(s, m + n)) = Echo(a) \o Parse(p.state, b).out
      /\ Reply(Prefix(s, m + n)) = Reply(a) \o Parse(p.state, b).out
  BY <1>1, ReplyGrows, Zenon DEF b
<1> HIDE DEF a, p
<1>8. Echo(a) \in Seq(Byte) /\ Reply(a) \in Seq(Byte)
  BY <1>7, ReplyType
<1>9. r.out \in Seq(Byte) /\ Len(r.out) \in Nat
  BY <1>3 DEF Parsing
<1>10. /\ state'[c] = Parse("WAIT_FOR_MSG", Heard(c)').state
       /\ Echo(Heard(c)') = Echo(Heard(c)) \o r.out
       /\ Reply(Heard(c)') = Reply(Heard(c)) \o r.out
  BY <1>4, <1>5, <1>6, <1>7, Zenon
<1>11. Echo(Heard(c))' = Echo(Heard(c)') /\ Owed(c)' = Reply(Heard(c)') /\ Owed(c) = Reply(Heard(c))
  BY DEF Owed
<1>12. /\ Len(Echo(Heard(c))) \in Nat
       /\ Len(Echo(Heard(c)')) = Len(Echo(Heard(c))) + Len(r.out)
  <2> DEFINE x == Echo(a)
             y == r.out
             z == Echo(Heard(c)')
  <2>1. x \in Seq(Byte) /\ y \in Seq(Byte) /\ z = x \o y
    BY <1>5, <1>8, <1>9, <1>10
  <2> HIDE DEF x, y, z
  <2>2. Len(z) = Len(x) + Len(y) /\ Len(x) \in Nat
    BY <2>1, ConcatType
  <2> QED BY <1>5, <2>2 DEF x, y, z
<1> QED BY <1>3, <1>4, <1>5, <1>7, <1>8, <1>9, <1>10, <1>11, <1>12 DEF HeardMore, m, n

(* A sum within what has arrived is within what will.                      *)
LEMMA SumWithin ==
  ASSUME NEW a \in Nat, NEW b \in Nat, NEW m \in Nat, NEW n \in Nat,
         a + b <= m, m <= n
  PROVE  a + b \in 0..n
OBVIOUS

(* A client that is not read to the end of its answer at once is patient,  *)
(* and has nothing under way.                                              *)
LEMMA StillToSay ==
  ASSUME Uncloggable, UvTypes, NEW c \in Clients, Good(c), fin[c] # "rst",
         NEW bytes \in Seq(Byte), NextBytes(c, bytes),
         Len(bytes) = Lesser(arrived[c] - taken[c], ReadSize),
         UNCHANGED <<script, arrived, fin>>, taken'[c] = taken[c] + Len(bytes),
         Heard(c)' \in Seq(Byte),
         NEW out \in Seq(Byte), sent[c] \o out = Owed(c)', Room(c) < Len(out)
  PROVE  Patient(c)' /\ arrived'[c] = taken'[c] /\ fin'[c] = "no"
<1> DEFINE whole == AnswerLength(script[c])
           heard == AnswerLength(Heard(c)')
<1>1. /\ script[c] \in Seq(Byte) /\ script[c] \in Scripts /\ Len(script[c]) \in Nat
      /\ arrived[c] \in Nat /\ taken[c] \in Nat /\ drained[c] \in Nat /\ fin[c] \in FinState
      /\ taken[c] <= arrived[c] /\ arrived[c] <= Len(script[c])
      /\ sent[c] \in Seq(Byte) /\ Len(sent[c]) \in Nat /\ drained[c] <= Len(sent[c])
      /\ Room(c) \in Nat /\ Len(sent[c]) + Room(c) = SockBuf + drained[c]
  BY UvFacts
<1>2. taken'[c] \in 0..Len(script[c]) /\ taken'[c] <= arrived[c] /\ Len(bytes) \in Nat
  <2>1. Len(bytes) \in Nat /\ taken[c] + Len(bytes) <= arrived[c]
    BY DEF NextBytes
  <2>2. taken[c] + Len(bytes) \in 0..Len(script[c])
    BY <1>1, <2>1, SumWithin
  <2> QED BY <2>1, <2>2
<1>3. heard <= whole /\ whole \in Nat /\ heard \in Nat
  <2>1. Heard(c)' = Prefix(script[c], taken'[c])
    BY DEF Heard
  <2> QED BY <1>1, <1>2, <2>1, ReplyMonotone, ReplyType
<1>4. heard = Len(sent[c]) + Len(out) /\ Len(out) \in Nat
  <2>1. Owed(c)' = Reply(Heard(c)')
    BY DEF Owed
  <2>2. Len(Owed(c)') = heard
    BY <2>1, ReplyType
  <2>3. Len(sent[c] \o out) = Len(sent[c]) + Len(out) /\ Len(out) \in Nat
    BY <1>1, ConcatType
  <2> QED BY <2>2, <2>3
<1> HIDE DEF heard, whole
<1>5. SockBuf + drained[c] < heard /\ SockBuf \in Nat
  BY <1>1, <1>4, SocketsAssumption
<1>6. whole > SockBuf
  BY <1>1, <1>3, <1>5
<1>7. Patient(c) /\ Patient(c)'
  BY <1>6 DEF Patient, Uncloggable, whole
<1>8. Len(script[c]) <= ReadSize
  <2>1. ~ (whole <= SockBuf)
    BY <1>3, <1>5, <1>6
  <2> QED BY <1>1, <2>1 DEF Uncloggable, whole
<1>9. taken'[c] = arrived[c]
  <2>1. arrived[c] - taken[c] <= ReadSize /\ ReadSize \in Nat
    BY <1>1, <1>8, UvAssumption
  <2>2. Len(bytes) = arrived[c] - taken[c]
    BY <2>1 DEF Lesser
  <2> QED BY <1>1, <2>2
<1>10. fin[c] # "fin"
  <2> SUFFICES ASSUME fin[c] = "fin" PROVE FALSE
    OBVIOUS
  <2>1. AnswerLength(Prefix(script[c], arrived[c])) <= drained[c]
    BY <1>7 DEF Good, PatientEnd
  <2>2. heard = AnswerLength(Prefix(script[c], arrived[c]))
    BY <1>9 DEF heard, Heard
  <2> QED BY <1>1, <1>3, <1>5, <2>1, <2>2
<1> QED BY <1>1, <1>7, <1>9, <1>10 DEF FinState

(* What was said is a part of what is owed when more is owed.              *)
LEMMA SaidBefore ==
  ASSUME UvTypes, NEW c \in Clients, SentAPart(c), NEW out \in Seq(Byte),
         NEW owed, owed = Owed(c) \o out
  PROVE  \E rest \in Seq(Byte) : sent[c] \o rest = owed
<1>1. PICK rest \in Seq(Byte) : sent[c] \o rest = Owed(c)
  BY DEF SentAPart
<1> DEFINE s == sent[c]
<1>2. s \in Seq(Byte)
  BY UvFacts
<1> HIDE DEF s
<1>3. (s \o rest) \o out = s \o (rest \o out)
  BY <1>2, ConcatAssoc, Zenon
<1>4. rest \o out \in Seq(Byte)
  BY ConcatType, Zenon
<1>5. sent[c] \o (rest \o out) = owed
  BY <1>1, <1>3 DEF s
<1> QED BY <1>4, <1>5

(* A connection that is read rests, unless it was reset.                   *)
LEMMA RestsBefore ==
  ASSUME UvTypes, NEW c \in Clients, Good(c), Serves(c), finished[c] = << >>, fin[c] # "rst",
         NEW bytes \in Seq(Byte), bytes # << >>, NextBytes(c, bytes)
  PROVE  Rested(c)
<1>1. Rested(c) \/ Told(c) \/ Telling(c)
  BY DEF Good
<1>2. arrived[c] # taken[c]
  <2> DEFINE n == Len(bytes)
  <2>1. arrived[c] \in Nat /\ taken[c] \in Nat
    BY UvFacts
  <2>2. n \in Nat \ {0} /\ taken[c] + n <= arrived[c]
    BY DEF NextBytes
  <2> HIDE DEF n
  <2> QED BY <2>1, <2>2
<1> QED BY <1>1, <1>2 DEF Told, Telling

(* A read that brings bytes keeps the invariant.                           *)
LEMMA BytesGood ==
  ASSUME Uncloggable, UvTypes, UvTypes', NEW c \in Clients, Good(c), Serves(c), reading[c],
         finished[c] = << >>,
         UNCHANGED <<script, arrived, fin, drained, freed, link, reading>>,
         NEW bytes \in Seq(Byte), bytes # << >>, NextBytes(c, bytes),
         Len(bytes) = Lesser(arrived[c] - taken[c], ReadSize),
         NEW r, r = Parse(state[c], bytes),
         Reads(c, bytes, r, sendbuf_end[c] + Len(r.out))
  PROVE  Good(c)' /\ Minds(c)
<1> DEFINE e == sendbuf_end[c]
           end == e + Len(r.out)
           staged == WithStaged(sendbuf[c], e, r.out)
<1>1. Following(c) /\ (fin[c] # "rst" => Rested(c) \/ Told(c) \/ Telling(c))
  BY DEF Good
<1>2. /\ state[c] = Parse("WAIT_FOR_MSG", Heard(c)).state /\ e <= Len(Echo(Heard(c)))
  BY <1>1 DEF Following
<1>3. /\ taken' = [taken EXCEPT ![c] = @ + Len(bytes)]
      /\ state' = [state EXCEPT ![c] = r.state]
  BY DEF Reads
<1>4. /\ r.out \in Seq(Byte) /\ Len(r.out) \in Nat /\ Len(r.out) <= Len(bytes)
      /\ taken'[c] = taken[c] + Len(bytes)
      /\ state'[c] = Parse("WAIT_FOR_MSG", Heard(c)').state
      /\ Heard(c)' \in Seq(Byte)
      /\ Echo(Heard(c)) \in Seq(Byte) /\ Echo(Heard(c))' = Echo(Heard(c)) \o r.out
      /\ Len(Echo(Heard(c))) \in Nat
      /\ Len(Echo(Heard(c)')) = Len(Echo(Heard(c))) + Len(r.out)
      /\ Owed(c) \in Seq(Byte) /\ Owed(c)' = Owed(c) \o r.out
  <2>1. HeardMore(c, bytes, r)
    BY <1>2, <1>3, HearsMore
  <2> QED BY <2>1 DEF HeardMore
<1>5. /\ e \in Nat /\ sendbuf[c] \in [1..SENDBUF_SIZE -> Byte] /\ taken[c] \in Nat
      /\ sent[c] \in Seq(Byte) /\ arrived[c] \in Nat /\ SENDBUF_SIZE \in Nat
      /\ Len(bytes) \in Nat \ {0} /\ taken[c] + Len(bytes) <= arrived[c]
  <2>1. /\ e \in Nat /\ sendbuf[c] \in [1..SENDBUF_SIZE -> Byte] /\ taken[c] \in Nat
        /\ sent[c] \in Seq(Byte) /\ arrived[c] \in Nat
    BY UvFacts
  <2>2. Len(bytes) \in Nat \ {0}
    OBVIOUS
  <2> QED BY <2>1, <2>2, UvAssumption DEF NextBytes
<1> HIDE DEF e
<1>6. end \in Nat /\ end <= Len(Echo(Heard(c)'))
  <2> DEFINE k == Len(r.out)
             n == Len(Echo(Heard(c)))
             l == Len(Echo(Heard(c)'))
  <2>1. k \in Nat /\ n \in Nat /\ l = n + k /\ e <= n
    BY <1>2, <1>4
  <2> HIDE DEF k, n, l
  <2>2. e + k \in Nat /\ e + k <= l
    BY <1>5, <2>1
  <2> QED BY <2>2 DEF k, l
<1>7. WriteTypes(c)
  <2>1. r \in Parsing
    <3>1. state[c] \in InternalState
      BY UvFacts
    <3> QED BY <3>1, ParseType
  <2> QED BY <2>1, ReadWrites
<1>8. \/ /\ fate' = "aborted"
         /\ UNCHANGED <<sendbuf, sendbuf_end, sent, requests, finished>>
      \/ /\ end <= SENDBUF_SIZE
         /\ sendbuf' = [sendbuf EXCEPT ![c] = staged]
         /\ sendbuf_end' = [sendbuf_end EXCEPT ![c] = end]
         /\ fate' = fate
         /\ \/ end > 0 /\ uv_write(c, staged, end, "on_wrote_buf")
            \/ end = 0 /\ UNCHANGED <<sent, requests, finished>>
  BY Zenon DEF Reads, staged, end, e
<1> HIDE DEF end, staged
<1>9. Minds(c)
  <2>1. sendbuf' = sendbuf \/ \E b : sendbuf' = [sendbuf EXCEPT ![c] = b]
    BY <1>8
  <2>2. sendbuf_end' = sendbuf_end \/ \E n : sendbuf_end' = [sendbuf_end EXCEPT ![c] = n]
    BY <1>8
  <2>3. \A d \in Clients : d # c => Unmoved(d)
    BY <1>3, <1>7, <2>1, <2>2, WriteMinds
  <2>4. fate' \in {"aborted", fate}
    BY <1>8
  <2> QED BY <2>3, <2>4 DEF Minds, Serves, Alive
<1>10. Fresh(c)' /\ PatientEnd(c)' /\ Freed(c)'
  <2>1. link[c] = "open" /\ c \notin freed
    BY DEF Serves
  <2>2. Patient(c)' = Patient(c)
    BY DEF Patient
  <2> QED BY <2>1, <2>2 DEF Good, Fresh, PatientEnd, Freed
<1>11. Greeted(c)'
  <2>1. sent[c] # << >> /\ Len(sent[c]) <= Len(sent'[c]) /\ sent'[c] \in Seq(Byte)
    BY <1>7 DEF Good, Greeted, WriteTypes
  <2>2. sent'[c] # << >>
    BY <1>5, <2>1
  <2> QED BY <2>2 DEF Greeted
<1>12. sent'[c] = sent[c] => SentAPart(c)'
  <2> DEFINE o == r.out
             owed == Owed(c)'
  <2>1. SentAPart(c) /\ o \in Seq(Byte) /\ owed = Owed(c) \o o
    BY <1>4 DEF Good
  <2> HIDE DEF o, owed
  <2>2. \E rest \in Seq(Byte) : sent[c] \o rest = owed
    BY <2>1, SaidBefore, Zenon
  <2> QED BY <2>2 DEF SentAPart, owed
<1>13. ASSUME fin[c] # "rst" PROVE Rested(c)
  BY <1>13, RestsBefore
<1>14. CASE fate' = "aborted" /\ UNCHANGED <<sendbuf, sendbuf_end, sent, requests, finished>>
  <2>1. ~ Serves(c)'
    BY <1>14 DEF Serves, Alive
  <2> QED BY <1>9, <1>10, <1>11, <1>12, <1>14, <2>1 DEF Good
<1>15. CASE /\ end <= SENDBUF_SIZE
            /\ sendbuf' = [sendbuf EXCEPT ![c] = staged]
            /\ sendbuf_end' = [sendbuf_end EXCEPT ![c] = end]
            /\ \/ end > 0 /\ uv_write(c, staged, end, "on_wrote_buf")
               \/ end = 0 /\ UNCHANGED <<sent, requests, finished>>
  <2>1. sendbuf'[c] = staged /\ sendbuf_end'[c] = end
    BY <1>15, Functions DEF StateFunctions
  <2>2. finished'[c] \in {<< >>, << "on_wrote_buf" >>} => Following(c)'
    BY <1>4, <1>6, <2>1 DEF Following
  <2>3. CASE end = 0 /\ UNCHANGED <<sent, requests, finished>>
    <3>1. Following(c)' /\ SentAPart(c)'
      BY <1>12, <2>2, <2>3
    <3>2. fin[c] # "rst" => Rested(c)'
      <4> SUFFICES ASSUME fin[c] # "rst" PROVE Rested(c)'
        OBVIOUS
      <4>1. Rested(c)
        BY <1>13
      <4>2. Len(r.out) = 0
        BY <1>4, <1>5, <2>3 DEF end
      <4>3. r.out = << >>
        BY <1>4, <4>2
      <4>4. Owed(c)' = Owed(c)
        BY <1>4, <4>3, ConcatNothing
      <4> QED BY <2>1, <2>3, <4>1, <4>4 DEF Rested
    <3> QED BY <1>9, <1>10, <1>11, <3>1, <3>2 DEF Good
  <2>4. CASE end > 0 /\ uv_write(c, staged, end, "on_wrote_buf")
    <3> DEFINE w == [from |-> 1, to |-> end, cb |-> "on_wrote_buf"]
    <3>1. /\ end \in 1..SENDBUF_SIZE /\ "on_wrote_buf" \in Callback
          /\ staged \in [1..SENDBUF_SIZE -> Byte]
      <4>1. end \in 1..SENDBUF_SIZE
        BY <1>5, <1>6, <1>15, <2>4
      <4>2. e + Len(r.out) <= SENDBUF_SIZE
        BY <1>15 DEF end
      <4>3. staged \in [1..SENDBUF_SIZE -> Byte]
        BY <1>4, <1>5, <4>2, WithStagedFacts, Zenon DEF staged
      <4> QED BY <4>1, <4>3 DEF Callback
    <3>2. /\ w \in Request /\ w.from <= w.to
          /\ Queued(c, w) \/ WritesAtOnce(c, staged, w)
      BY <2>4, <3>1, UvWriteDoes
    <3>3. CASE Queued(c, w)
      <4>1. UNCHANGED <<sent, finished>> /\ (requests[c] # << >> \/ fin[c] = "rst")
        BY <3>3 DEF Queued
      <4>2. fin[c] = "rst"
        BY <1>13, <4>1 DEF Rested
      <4>3. Following(c)' /\ SentAPart(c)'
        BY <1>12, <2>2, <4>1
      <4> QED BY <1>9, <1>10, <1>11, <4>2, <4>3 DEF Good
    <3>4. CASE WritesAtOnce(c, staged, w)
      <4>1. fin[c] # "rst"
        BY <3>4 DEF WritesAtOnce
      <4>2. PICK n \in Nat : WritesSome(c, staged, w, << >>, n)
        BY <3>4 DEF WritesAtOnce
      <4>3. Rested(c)
        BY <1>13, <4>1
      <4>4. e = 0 /\ end = Len(r.out)
        <5>1. e = 0
          BY <4>3 DEF Rested, e
        <5> QED BY <1>4, <5>1 DEF end
      <4>5. Chunk(staged, 0, end) = r.out
        <5>1. Chunk(staged, e, e + Len(r.out)) = r.out
          BY <1>4, <1>5, <1>15, WithStagedFacts DEF staged, end
        <5> QED BY <4>4, <5>1 DEF end
      <4>6. w.from = 1 /\ w.to = end /\ w.cb = "on_wrote_buf" /\ 1 - 1 = 0
        OBVIOUS
      <4> HIDE DEF w
      <4>7. Chunk(staged, w.from - 1, w.to) = r.out
        BY <4>5, <4>6
      <4>8. sent[c] \o Chunk(staged, w.from - 1, w.to) = Owed(c)'
        BY <1>4, <4>3, <4>7 DEF Rested
      <4>9. HoldsTheEnd(c)'
        <5>1. Echo(Heard(c)') = Echo(Heard(c)) \o Chunk(sendbuf'[c], 0, sendbuf_end'[c])
          BY <1>4, <2>1, <4>5
        <5> QED BY <1>4, <5>1 DEF HoldsTheEnd
      <4>10. ASSUME n < w.to - w.from + 1
             PROVE  Patient(c)' /\ arrived'[c] = taken'[c] /\ fin'[c] = "no"
        <5>1. n = Room(c)
          BY <4>2, <4>10 DEF WritesSome
        <5>2. w.to - w.from + 1 = Len(r.out)
          BY <1>4, <4>4, <4>6
        <5>3. Room(c) < Len(r.out)
          BY <4>10, <5>1, <5>2
        <5>4. sent[c] \o r.out = Owed(c)'
          BY <4>7, <4>8
        <5> QED BY <1>4, <4>1, <5>3, <5>4, StillToSay
      <4>11. /\ sendbuf'[c] = staged /\ sendbuf_end'[c] = w.to /\ reading'[c]
        BY <2>1, <4>6
      <4>12. /\ Told(c)' \/ Telling(c)'
             /\ finished'[c] \in {<< >>, << "on_wrote_buf" >>}
             /\ SentAPart(c)'
        BY <3>1, <3>2, <4>2, <4>6, <4>8, <4>9, <4>10, <4>11, SaysMore
      <4> QED BY <1>9, <1>10, <1>11, <2>2, <4>12 DEF Good
    <3> QED BY <3>2, <3>3, <3>4
  <2> QED BY <1>15, <2>3, <2>4
<1> QED BY <1>8, <1>14, <1>15

(* So does one that closes the handle.                                     *)
LEMMA ClosedGood ==
  ASSUME UvTypes, NEW c \in Clients, Good(c), Serves(c),
         UNCHANGED <<script, arrived, fin, drained, freed>>, CloseHandle(c),
         finished[c] = << >>
  PROVE  Good(c)' /\ Minds(c)
<1>1. /\ reading' = [reading EXCEPT ![c] = FALSE]
      /\ \/ fate' = "exited" /\ UNCHANGED link
         \/ link' = [link EXCEPT ![c] = "closed"] /\ UNCHANGED fate
      /\ UNCHANGED <<taken, sent, state, sendbuf, sendbuf_end, requests, finished>>
  BY DEF CloseHandle
<1>2. /\ ~ reading'[c] /\ link[c] = "open" /\ link'[c] \in {"open", "closed"}
      /\ fate' = "exited" \/ link'[c] = "closed"
  BY <1>1, Functions DEF StateFunctions, Serves
<1>3. Heard(c)' = Heard(c) /\ Owed(c)' = Owed(c) /\ Patient(c)' = Patient(c)
  BY <1>1 DEF Heard, Owed, Patient
<1>4. ~ Serves(c)'
  BY <1>2 DEF Serves, Alive
<1>5. Fresh(c)' /\ Greeted(c)' /\ PatientEnd(c)' /\ SentAPart(c)' /\ Freed(c)'
  BY <1>1, <1>2, <1>3 DEF Good, Fresh, Greeted, PatientEnd, SentAPart, Freed
<1>6. WriteTypes(c)
  BY <1>1, SilentTypes DEF UvTypes, Queues
<1>7. Minds(c)
  <2>1. \A d \in Clients : d # c => Unmoved(d)
    BY <1>1, <1>6, WriteMinds
  <2> QED BY <1>1, <2>1 DEF Minds, Serves, Alive
<1> QED BY <1>4, <1>5, <1>7 DEF Good

(* Every read keeps the invariant.                                         *)
LEMMA ReadGood ==
  ASSUME Uncloggable, UvTypes, UvTypes', NEW c \in Clients, Good(c), on_peer_read(c)
  PROVE  Good(c)' /\ Minds(c)
<1>1. /\ Serves(c) /\ reading[c] /\ finished[c] = << >>
      /\ UNCHANGED <<script, arrived, fin, drained, freed>>
  BY ReadCases
<1>2. CASE CloseHandle(c)
  BY <1>1, <1>2, ClosedGood
<1>3. ASSUME NEW bytes \in Seq(Byte), bytes # << >>, NextBytes(c, bytes),
             Len(bytes) = Lesser(arrived[c] - taken[c], ReadSize),
             Reads(c, bytes, Parse(state[c], bytes),
                   sendbuf_end[c] + Len(Parse(state[c], bytes).out)),
             UNCHANGED <<link, reading>>
      PROVE  Good(c)' /\ Minds(c)
  <2> DEFINE r == Parse(state[c], bytes)
  <2>1. /\ r = Parse(state[c], bytes)
        /\ Reads(c, bytes, r, sendbuf_end[c] + Len(r.out))
    BY <1>3
  <2> HIDE DEF r
  <2> QED BY <1>1, <1>3, <2>1, BytesGood
<1>4. \/ CloseHandle(c)
      \/ /\ \E bytes \in Seq(Byte) :
              /\ bytes # << >> /\ NextBytes(c, bytes)
              /\ Len(bytes) = Lesser(arrived[c] - taken[c], ReadSize)
              /\ Reads(c, bytes, Parse(state[c], bytes),
                       sendbuf_end[c] + Len(Parse(state[c], bytes).out))
         /\ UNCHANGED <<link, reading>>
  BY ReadCases, Zenon DEF NextBytes
<1> QED BY <1>2, <1>3, <1>4, Zenon

-----------------------------------------------------------------------------
(* The invariant.                                                          *)

(* A step of a client concerns nobody else.                                *)
LEMMA ClientMinds ==
  ASSUME UvTypes, NEW c \in Clients, Client(c), NEW d \in Clients, d # c
  PROVE  Unmoved(d)
<1>1. UNCHANGED <<state, sendbuf, sendbuf_end, reading, requests, finished, freed>>
  BY DEF Client, Talk, serverVars, peerVars
<1>2. UNCHANGED <<script, taken, sent>>
  BY DEF Client, Talk, Speak, Connect, Deliver, HangUp, Reset, Drain, SendSegment
<1>3. /\ link' = link \/ \E x : link' = [link EXCEPT ![c] = x]
      /\ arrived' = arrived \/ \E x : arrived' = [arrived EXCEPT ![c] = x]
      /\ fin' = fin \/ \E x : fin' = [fin EXCEPT ![c] = x]
      /\ drained' = drained \/ \E x : drained' = [drained EXCEPT ![c] = x]
  BY DEF Client, Talk, Speak, Connect, Deliver, HangUp, Reset, Drain, SendSegment
<1>4. link'[d] = link[d] /\ arrived'[d] = arrived[d] /\ fin'[d] = fin[d]
      /\ drained'[d] = drained[d]
  BY <1>3, Functions DEF StateFunctions
<1> QED BY <1>1, <1>2, <1>4 DEF Unmoved

(* A step that only changes how the process fares keeps it.                *)
LEMMA FateKeeps ==
  ASSUME UvTypes, EchoInv, UNCHANGED <<socketVars, peerVars, requests, finished>>,
         Alive' => Alive, fate' = "stopping" => fate = "stopping"
  PROVE  \A c \in Clients : Good(c)'
<1> TAKE c \in Clients
<1>1. Unmoved(c)
  BY FateMinds
<1> QED BY <1>1, UnmovedGood DEF EchoInv

(* The invariant holds before any client has connected.                    *)
LEMMA EchoInit == Init => EchoInv
<1> SUFFICES ASSUME Init PROVE EchoInv
  OBVIOUS
<1>1. UvTypes
  BY TypesInit
<1>2. ASSUME NEW c \in Clients PROVE Good(c)
  <2>1. /\ script[c] \in Seq(Byte) /\ taken[c] = 0 /\ sent[c] = << >> /\ link[c] = "idle"
        /\ fin[c] = "no" /\ requests[c] = << >> /\ finished[c] = << >> /\ ~ reading[c]
        /\ c \notin freed
    BY SocketsAssumption DEF Init, SocketsInit
  <2>2. Owed(c) = << STAR >>
    BY <2>1, ReplyToNothing DEF Owed, Heard
  <2>3. << STAR >> \in Seq(Byte)
    BY DEF STAR, Byte
  <2>4. << >> \o << STAR >> = << STAR >>
    OBVIOUS
  <2>5. SentAPart(c)
    BY <2>1, <2>2, <2>3, <2>4 DEF SentAPart
  <2> QED BY <2>1, <2>5 DEF Good, Fresh, Greeted, PatientEnd, Freed, Serves
<1> QED BY <1>1, <1>2 DEF EchoInv, Init

(* Every step keeps it.                                                    *)
LEMMA EchoNext ==
  ASSUME Uncloggable, EchoInv, UvTypes', [Next]_vars
  PROVE  EchoInv'
<1>0. UvTypes /\ (\A c \in Clients : Good(c)) /\ (fate = "stopping" => freed # {})
  BY DEF EchoInv
<1>5. ASSUME \A c \in Clients : Good(c)', fate' = "stopping" => freed' # {}
      PROVE  EchoInv'
  BY <1>5 DEF EchoInv
<1>1. CASE Stop
  <2>1. /\ UNCHANGED <<socketVars, peerVars, requests, finished>>
        /\ (Alive' => Alive) /\ (fate' = "stopping" => fate = "stopping")
        /\ (fate' = "stopping" => freed' # {})
    BY <1>1 DEF Stop, Alive
  <2>2. \A c \in Clients : Good(c)'
    BY <1>0, <2>1, FateKeeps, Zenon
  <2> QED BY <1>5, <2>1, <2>2
<1>2. ASSUME NEW c \in Clients, Loop(c) PROVE EchoInv'
  <2>1. CASE PeerIsGone(c) \/ WriteFails(c) \/ UseAfterFree(c)
    <3>1. /\ UNCHANGED <<socketVars, peerVars, requests, finished>>
          /\ (Alive' => Alive) /\ (fate' = "stopping" => fate = "stopping")
          /\ (fate' = "stopping" => freed' # {})
      BY <2>1 DEF PeerIsGone, WriteFails, UseAfterFree, Alive, Serves
    <3>2. \A d \in Clients : Good(d)'
      BY <1>0, <3>1, FateKeeps, Zenon
    <3> QED BY <1>5, <3>1, <3>2
  <2>2. CASE Good(c)' /\ Minds(c)
    <3>1. \A d \in Clients : Good(d)'
      <4> TAKE d \in Clients
      <4>1. CASE d = c
        BY <2>2, <4>1
      <4>2. CASE d # c
        <5>1. Unmoved(d) /\ (Alive' => Alive)
          BY <2>2, <4>2 DEF Minds
        <5> QED BY <1>0, <5>1, UnmovedGood
      <4> QED BY <4>1, <4>2
    <3>2. fate' = "stopping" => freed' # {}
      BY <1>0, <2>2 DEF Minds
    <3> QED BY <1>5, <3>1, <3>2
  <2>3. Good(c) /\ UvTypes
    BY <1>0
  <2>4. CASE on_peer_connected(c)
    <3>1. Fresh(c)
      BY <2>3 DEF Good
    <3>2. Good(c)' /\ Minds(c)
      BY <2>3, <2>4, <3>1, AcceptedGood, AcceptedDoes
    <3> QED BY <2>2, <3>2
  <2>5. CASE WriteMore(c)
    BY <2>2, <2>3, <2>5, WriteMoreGood
  <2>6. CASE on_wrote_init_ack(c)
    BY <2>2, <2>3, <2>6, InitAckGood
  <2>7. CASE on_wrote_buf(c)
    BY <2>2, <2>3, <2>7, WroteBufGood
  <2>8. CASE on_peer_read(c)
    BY <2>2, <2>3, <2>8, ReadGood
  <2> QED BY <1>2, <2>1, <2>4, <2>5, <2>6, <2>7, <2>8, Zenon DEF Loop
<1>3. ASSUME NEW c \in Clients, Client(c) PROVE EchoInv'
  <2>1. UNCHANGED <<fate, freed>>
    BY <1>3 DEF Client, Talk, serverVars, peerVars
  <2>2. \A d \in Clients : Good(d)'
    <3> TAKE d \in Clients
    <3>1. CASE d = c
      BY <1>0, <1>3, <3>1, ClientGood
    <3>2. CASE d # c
      <4>1. Unmoved(d) /\ (Alive' => Alive)
        BY <1>0, <1>3, <2>1, <3>2, ClientMinds DEF Alive
      <4> QED BY <1>0, <4>1, UnmovedGood
    <3> QED BY <3>1, <3>2
  <2> QED BY <1>0, <1>5, <2>1, <2>2
<1>4. CASE UNCHANGED vars
  <2>1. /\ UNCHANGED <<socketVars, peerVars, requests, finished>> /\ UNCHANGED <<fate, freed>>
    BY <1>4 DEF vars, serverVars, peerVars
  <2>2. \A c \in Clients : Good(c)'
    <3>1. (Alive' => Alive) /\ (fate' = "stopping" => fate = "stopping")
      BY <2>1 DEF Alive
    <3> QED BY <1>0, <2>1, <3>1, FateKeeps, Zenon
  <2> QED BY <1>0, <1>5, <2>1, <2>2
<1> QED BY <1>1, <1>2, <1>3, <1>4, Zenon DEF Next

(* The invariant is one of the program.                                    *)
LEMMA EchoAlways ==
  ASSUME Uncloggable
  PROVE  Spec => []EchoInv
<1>1. UvTypes /\ EchoInv /\ [Next]_vars => EchoInv'
  BY TypesNext, EchoNext
<1>2. EchoInv => UvTypes
  BY DEF EchoInv
<1> QED BY <1>1, <1>2, EchoInit, PTL DEF Spec

(* While every client that could clog its connection is patient, no read   *)
(* meets a write in flight, nor bytes left in the send buffer.             *)
THEOREM BufferSafe ==
  ASSUME Uncloggable
  PROVE  Spec => []BufferIsFreeForEachRead
<1>1. EchoInv => BufferIsFreeForEachRead
  <2> SUFFICES ASSUME EchoInv, NEW c \in Clients, Serves(c), reading[c], finished[c] = << >>,
                      Readable(c), fin[c] # "rst"
               PROVE  requests[c] = << >> /\ sendbuf_end[c] = 0
    BY DEF BufferIsFreeForEachRead
  <2>1. Rested(c) \/ Told(c) \/ Telling(c)
    BY DEF EchoInv, Good
  <2>2. ~ Told(c)
    BY DEF Told
  <2>3. ~ Telling(c)
    <3>1. arrived[c] \in Nat /\ taken[c] \in Nat
      BY UvFacts DEF EchoInv
    <3>2. arrived[c] # taken[c] \/ fin[c] # "no"
      BY <3>1 DEF Readable
    <3> QED BY <3>2 DEF Telling
  <2> QED BY <2>1, <2>2, <2>3 DEF Rested
<1> QED BY <1>1, EchoAlways, PTL

(* Then a client is sent a beginning of what it is owed and nothing else.  *)
THEOREM OwedOnly ==
  ASSUME Uncloggable
  PROVE  Spec => []SaysOnlyWhatItOwes
<1>1. EchoInv => SaysOnlyWhatItOwes
  <2> SUFFICES ASSUME EchoInv, NEW c \in Clients
               PROVE  /\ Len(sent[c]) <= Len(Owed(c))
                      /\ sent[c] = Prefix(Owed(c), Len(sent[c]))
    BY DEF SaysOnlyWhatItOwes, Owed, Heard
  <2>1. PICK rest \in Seq(Byte) : sent[c] \o rest = Owed(c)
    BY DEF EchoInv, Good, SentAPart
  <2>2. sent[c] \in Seq(Byte)
    BY UvFacts DEF EchoInv
  <2> QED BY <2>1, <2>2, BeginsWith
<1> QED BY <1>1, EchoAlways, PTL

-----------------------------------------------------------------------------
(* The server is an echo service.                                          *)

(* The send buffer holds all that a client is ever answered.               *)
EchoesFit == \A s \in Scripts : AnswerLength(s) - 1 <= SENDBUF_SIZE

(* What the service is made of: the sockets, and whether the process runs. *)
ServiceVars == <<script, link, arrived, fin, taken, sent>>

(* The service speaks of the same protocol.                                *)
LEMMA SameProtocol ==
  /\ Service!STAR = STAR
  /\ \A S : Service!Cardinality(S) = Cardinality(S)
  /\ \A s, n : Service!Prefix(s, n) = Prefix(s, n)
  /\ \A s : Service!Reply(s) = Reply(s)
  /\ \A s : Service!AsksToStop(s) <=> AsksToStop(s)
<1>1. Service!STAR = STAR
  BY DEF Service!STAR, STAR
<1>2. ASSUME NEW S PROVE Service!Cardinality(S) = Cardinality(S)
  BY DEF Service!Cardinality, Cardinality
<1>3. ASSUME NEW s, NEW n PROVE Service!Prefix(s, n) = Prefix(s, n)
  BY DEF Service!Prefix, Prefix
<1>4. ASSUME NEW s PROVE Service!Echoed(s) = Echoed(s)
  BY DEF Service!Echoed, Echoed, Service!InMessage, InMessage, Service!CARET, CARET,
         Service!DOLLAR, DOLLAR
<1>5. ASSUME NEW s PROVE Service!Echo(s) = Echo(s)
  BY DEF Service!Echo, Echo, Service!Cardinality, Cardinality, Service!Rank, Rank, Service!Bump, Bump,
         Service!Echoed, Echoed, Service!InMessage, InMessage, Service!CARET, CARET,
         Service!DOLLAR, DOLLAR
<1>6. ASSUME NEW s PROVE Service!Reply(s) = Reply(s)
  BY <1>1, <1>5 DEF Service!Reply, Reply
<1>7. ASSUME NEW s PROVE Service!AsksToStop(s) <=> AsksToStop(s)
  BY <1>2, <1>4, <1>5 DEF Service!AsksToStop, AsksToStop
<1> QED BY <1>1, <1>2, <1>3, <1>6, <1>7

(* A step that changes neither is none of the service's.                   *)
LEMMA Stutters ==
  ASSUME UNCHANGED ServiceVars, Alive' <=> Alive
  PROVE  [Service!Next]_(Service!vars)
<1>1. UNCHANGED Service!vars
  BY DEF Service!vars, ServiceVars, Alive
<1> QED BY <1>1

(* The process ends because of a client that was reset, or that has asked  *)
(* for it.                                                                 *)
LEMMA EndMaps ==
  ASSUME UNCHANGED ServiceVars, Alive, ~ Alive', NEW c \in Clients,
         fin[c] = "rst" \/ AsksToStop(Heard(c))
  PROVE  [Service!Next]_(Service!vars)
<1>1. \/ \E d \in Clients : fin[d] = "rst"
      \/ \E d \in Clients : AsksToStop(Prefix(script[d], taken[d]))
  BY DEF Heard
<1>2. Alive' = FALSE
  BY DEF Alive
<1>3. Service!Fail
  BY <1>1, <1>2, SameProtocol, Zenon DEF Service!Fail, ServiceVars
<1> QED BY <1>3 DEF Service!Next

(* The steps of a client are its steps there.                              *)
LEMMA ClientMaps ==
  ASSUME UvTypes, NEW c \in Clients, Client(c)
  PROVE  [Service!Next]_(Service!vars)
<1>1. UNCHANGED fate /\ (Alive' = Alive)
  BY DEF Client, Talk, serverVars, Alive
<1>2. /\ script[c] \in Seq(Byte) /\ Len(script[c]) \in Nat /\ arrived[c] \in Nat
  BY UvFacts
<1>3. Connect(c) \/ Deliver(c) \/ HangUp(c) \/ Reset(c) \/ Drain(c) \/ SendSegment(c)
  BY DEF Client, Talk, Speak
<1>4. CASE Connect(c)
  <2>1. Service!Connect(c)
    BY <1>1, <1>4 DEF Connect, Service!Connect
  <2> QED BY <2>1 DEF Service!Next, Service!Client
<1>5. CASE Deliver(c)
  <2>1. arrived[c] + 1 \in (arrived[c] + 1)..Len(script[c])
    BY <1>2, <1>5 DEF Deliver
  <2>2. Service!Deliver(c)
    BY <1>1, <1>5, <2>1 DEF Deliver, Service!Deliver
  <2> QED BY <2>2 DEF Service!Next, Service!Client
<1>6. CASE SendSegment(c)
  <2>1. Service!Deliver(c)
    BY <1>1, <1>6 DEF SendSegment, Service!Deliver
  <2> QED BY <2>1 DEF Service!Next, Service!Client
<1>7. CASE HangUp(c)
  <2>1. Service!End(c, "fin")
    BY <1>1, <1>7 DEF HangUp, Linked, Service!End
  <2> QED BY <2>1 DEF Service!Next, Service!Client
<1>8. CASE Reset(c)
  <2>1. Service!End(c, "rst")
    BY <1>1, <1>8 DEF Reset, Linked, Service!End
  <2> QED BY <2>1 DEF Service!Next, Service!Client
<1>9. CASE Drain(c)
  BY <1>1, <1>9, Stutters DEF Drain, ServiceVars
<1> QED BY <1>3, <1>4, <1>5, <1>6, <1>7, <1>8, <1>9

(* A client that is let in finds room: there are as many places as         *)
(* clients.                                                                *)
LEMMA AdmitMaps ==
  ASSUME UvTypes, NEW c \in Clients, Alive, Accepted(c)
  PROVE  [Service!Next]_(Service!vars)
<1>1. Cardinality(Service!Connected) < Cardinality(Clients)
  <2>1. Service!Connected \in SUBSET Clients /\ c \notin Service!Connected
    BY DEF Service!Connected, Accepted
  <2>2. /\ Cardinality(Service!Connected) <= Cardinality(Clients)
        /\ Cardinality(Service!Connected) # Cardinality(Clients)
    BY <2>1, SocketsAssumption, FS_Subset
  <2>3. Cardinality(Service!Connected) \in Nat /\ Cardinality(Clients) \in Nat
    BY <2>1, SocketsAssumption, FS_Subset, FS_CardinalityType
  <2> QED BY <2>2, <2>3
<1>2. \E words \in {<< >>, << STAR >>} : sent' = [sent EXCEPT ![c] = words]
  <2>1. CASE sent' = sent
    <3>1. sent = [sent EXCEPT ![c] = << >>]
      BY Functions DEF StateFunctions, Accepted
    <3> QED BY <2>1, <3>1
  <2>2. CASE sent' = [sent EXCEPT ![c] = << STAR >>]
    BY <2>2
  <2> QED BY <2>1, <2>2 DEF Accepted
<1>3. Service!Admit(c)
  <2>1. Service!Cardinality(Service!Connected) < Cardinality(Clients)
    BY <1>1, SameProtocol
  <2>2. \E words \in {<< >>, << Service!STAR >>} : sent' = [sent EXCEPT ![c] = words]
    BY <1>2, SameProtocol
  <2> QED BY <2>1, <2>2 DEF Service!Admit, Accepted, Alive
<1> QED BY <1>3 DEF Service!Next

(* A step in which the server has heard or said more.                      *)
LEMMA ConverseMaps ==
  ASSUME UvTypes, UvTypes', NEW c \in Clients, Alive, Alive', link[c] = "open",
         UNCHANGED <<script, link, arrived, fin>>,
         \A d \in Clients : d # c => Unmoved(d),
         taken[c] <= taken'[c], taken'[c] > taken[c] => sent[c] # << >>,
         Len(sent[c]) <= Len(sent'[c]), SentAPart(c)',
         \E rest \in Seq(Byte) : sent[c] \o rest = Owed(c)'
  PROVE  [Service!Next]_(Service!vars)
<1> DEFINE n == taken'[c]
           owed == Reply(Prefix(script[c], n))
           m == Len(sent'[c])
           now == sent'[c]
<1>1. StateFunctions /\ taken' \in [Clients -> Nat] /\ sent' \in [Clients -> Seq(Byte)]
      /\ n \in Nat /\ n <= arrived[c] /\ now \in Seq(Byte)
  BY Functions DEF UvTypes, SocketsInv, SocketsTypeOK
<1>2. taken' = [taken EXCEPT ![c] = n] /\ sent' = [sent EXCEPT ![c] = now]
  BY <1>1 DEF StateFunctions, Unmoved
<1>3. taken[c] \in Nat /\ arrived[c] \in Nat /\ sent[c] \in Seq(Byte) /\ Len(sent[c]) \in Nat
  BY UvFacts
<1>4. n \in taken[c]..arrived[c]
  BY <1>1, <1>3
<1>5. Owed(c)' = owed
  BY DEF Owed, Heard
<1>6. (\E rest \in Seq(Byte) : sent[c] \o rest = owed) /\ (\E rest \in Seq(Byte) : now \o rest = owed)
  BY <1>5 DEF SentAPart
<1> HIDE DEF n, owed, now
<1>7. sent[c] = Prefix(owed, Len(sent[c]))
  BY <1>3, <1>6, BeginsWith
<1>8. now = Prefix(owed, Len(now)) /\ Len(now) <= Len(owed) /\ Len(owed) \in Nat
  BY <1>1, <1>6, BeginsWith
<1>9. m = Len(now)
  BY DEF now
<1>10. m \in Len(sent[c])..Len(owed)
  <2>1. m \in Nat
    BY <1>1, <1>9
  <2> HIDE DEF m
  <2>2. Len(sent[c]) <= m
    BY DEF m
  <2> QED BY <1>3, <1>8, <1>9, <2>1, <2>2
<1> HIDE DEF m
<1>11. sent' = [sent EXCEPT ![c] = Prefix(owed, m)]
  BY <1>2, <1>8, <1>9
<1>12. n > taken[c] => sent[c] # << >>
  BY DEF n
<1>13. \E k \in taken[c]..arrived[c] :
         /\ k > taken[c] => sent[c] # << >>
         /\ taken' = [taken EXCEPT ![c] = k]
         /\ \E j \in Len(sent[c])..Len(Reply(Prefix(script[c], k))) :
              /\ Prefix(Reply(Prefix(script[c], k)), Len(sent[c])) = sent[c]
              /\ sent' = [sent EXCEPT ![c] = Prefix(Reply(Prefix(script[c], k)), j)]
  BY <1>2, <1>4, <1>7, <1>10, <1>11, <1>12, Zenon DEF owed
<1>14. Service!Converse(c)
  <2>1. \E k \in taken[c]..arrived[c] :
         /\ k > taken[c] => sent[c] # << >>
         /\ taken' = [taken EXCEPT ![c] = k]
         /\ \E j \in Len(sent[c])..Len(Service!Reply(Service!Prefix(script[c], k))) :
              /\ Service!Prefix(Service!Reply(Service!Prefix(script[c], k)), Len(sent[c])) = sent[c]
              /\ sent' = [sent EXCEPT
                           ![c] = Service!Prefix(Service!Reply(Service!Prefix(script[c], k)), j)]
    BY <1>13, SameProtocol, Zenon
  <2>2. UNCHANGED <<script, link, arrived, fin, Alive>>
    BY DEF Alive
  <2> QED BY <2>1, <2>2 DEF Service!Converse
<1> QED BY <1>14 DEF Service!Next

(* What a read brings fits in the buffer.                                  *)
LEMMA FitsIn ==
  ASSUME EchoesFit, UvTypes, UvTypes', NEW c \in Clients, script' = script,
         Heard(c)' \in Seq(Byte), NEW end \in Nat, end <= Len(Echo(Heard(c)'))
  PROVE  end <= SENDBUF_SIZE
<1> DEFINE whole == AnswerLength(script[c])
           heard == AnswerLength(Heard(c)')
<1>1. /\ script[c] \in Seq(Byte) /\ script[c] \in Scripts /\ Len(script[c]) \in Nat
  BY UvFacts
<1>2. heard <= whole /\ whole \in Nat /\ heard \in Nat
  <2>1. taken'[c] \in 0..Len(script[c])
    <3>1. taken'[c] \in Nat /\ taken'[c] <= arrived'[c] /\ arrived'[c] <= Len(script'[c])
          /\ arrived'[c] \in Nat
      BY DEF UvTypes, SocketsInv, SocketsTypeOK
    <3> QED BY <1>1, <3>1
  <2>2. Heard(c)' = Prefix(script[c], taken'[c])
    BY DEF Heard
  <2> QED BY <1>1, <2>1, <2>2, ReplyMonotone, ReplyType
<1>3. heard = 1 + Len(Echo(Heard(c)')) /\ Len(Echo(Heard(c)')) \in Nat
  <2> DEFINE y == Echo(Heard(c)')
  <2>1. Len(y) = Cardinality(Echoed(Heard(c)')) /\ y \in Seq(Byte)
    BY ReplyType
  <2> HIDE DEF y
  <2>2. heard = 1 + Len(y)
    BY <2>1 DEF AnswerLength
  <2>3. Len(y) \in Nat
    BY <2>1
  <2> QED BY <2>2, <2>3 DEF y
<1>4. whole - 1 <= SENDBUF_SIZE /\ SENDBUF_SIZE \in Nat
  BY <1>1, UvAssumption DEF EchoesFit
<1> DEFINE l == Len(Echo(Heard(c)'))
<1>5. l \in Nat /\ heard = 1 + l /\ end <= l
  BY <1>3
<1> HIDE DEF whole, heard, l
<1> QED BY <1>2, <1>4, <1>5

(* A read is a step of the service.                                        *)
LEMMA BytesMap ==
  ASSUME EchoesFit, UvTypes, UvTypes', NEW c \in Clients, Good(c), Good(c)', Minds(c),
         Serves(c), reading[c], finished[c] = << >>,
         UNCHANGED <<script, arrived, fin, drained, freed, link, reading>>,
         NEW bytes \in Seq(Byte), bytes # << >>, NextBytes(c, bytes),
         Len(bytes) = Lesser(arrived[c] - taken[c], ReadSize),
         NEW r, r = Parse(state[c], bytes),
         Reads(c, bytes, r, sendbuf_end[c] + Len(r.out))
  PROVE  [Service!Next]_(Service!vars)
<1>1. /\ taken' = [taken EXCEPT ![c] = @ + Len(bytes)]
      /\ state' = [state EXCEPT ![c] = r.state]
      /\ \/ /\ sendbuf_end[c] + Len(r.out) > SENDBUF_SIZE
            /\ fate' = "aborted"
            /\ UNCHANGED sent
         \/ fate' = fate
  BY DEF Reads
<1>2. state[c] = Parse("WAIT_FOR_MSG", Heard(c)).state /\ sendbuf_end[c] <= Len(Echo(Heard(c)))
  BY DEF Good, Following
<1>3. /\ r.out \in Seq(Byte) /\ Len(r.out) \in Nat /\ Len(r.out) <= Len(bytes)
      /\ taken'[c] = taken[c] + Len(bytes)
      /\ Heard(c)' \in Seq(Byte)
      /\ Len(Echo(Heard(c))) \in Nat
      /\ Len(Echo(Heard(c)')) = Len(Echo(Heard(c))) + Len(r.out)
      /\ Owed(c) \in Seq(Byte) /\ Owed(c)' = Owed(c) \o r.out
  <2>1. HeardMore(c, bytes, r)
    BY <1>1, <1>2, HearsMore
  <2> QED BY <2>1 DEF HeardMore
<1>4. Alive /\ link[c] = "open"
  BY DEF Serves
<1>5. /\ taken[c] <= taken'[c] /\ (taken'[c] > taken[c] => sent[c] # << >>)
      /\ SentAPart(c)' /\ \A d \in Clients : d # c => Unmoved(d)
  <2> DEFINE n == Len(bytes)
  <2>1. n \in Nat /\ taken[c] \in Nat /\ taken'[c] = taken[c] + n
    BY <1>3, UvFacts
  <2> HIDE DEF n
  <2>2. taken[c] <= taken'[c]
    BY <2>1
  <2> QED BY <2>2 DEF Good, Greeted, Minds
<1>6. \E rest \in Seq(Byte) : sent[c] \o rest = Owed(c)'
  <2> DEFINE o == r.out
             owed == Owed(c)'
  <2>1. SentAPart(c) /\ o \in Seq(Byte) /\ owed = Owed(c) \o o
    BY <1>3 DEF Good
  <2> HIDE DEF o, owed
  <2>2. \E rest \in Seq(Byte) : sent[c] \o rest = owed
    BY <2>1, SaidBefore, Zenon
  <2> QED BY <2>2 DEF owed
<1>7. Len(sent[c]) <= Len(sent'[c])
  <2>1. r \in Parsing
    <3>1. state[c] \in InternalState
      BY UvFacts
    <3> QED BY <3>1, ParseType
  <2>2. WriteTypes(c)
    BY <2>1, ReadWrites
  <2> QED BY <2>2 DEF WriteTypes
<1>8. CASE fate' = fate
  <2>1. Alive'
    BY <1>4, <1>8 DEF Alive
  <2> QED BY <1>4, <1>5, <1>6, <1>7, <2>1, ConverseMaps
<1>9. ~ (sendbuf_end[c] + Len(r.out) > SENDBUF_SIZE)
  <2> DEFINE k == Len(r.out)
             n == Len(Echo(Heard(c)))
             l == Len(Echo(Heard(c)'))
             end == sendbuf_end[c] + k
  <2>1. /\ k \in Nat /\ n \in Nat /\ l = n + k /\ sendbuf_end[c] <= n
        /\ sendbuf_end[c] \in Nat /\ SENDBUF_SIZE \in Nat
    <3>1. sendbuf_end[c] \in 0..SENDBUF_SIZE /\ SENDBUF_SIZE \in Nat
      BY UvFacts, UvAssumption
    <3> QED BY <1>2, <1>3, <3>1
  <2> HIDE DEF k, n, l
  <2>2. end \in Nat /\ end <= l
    BY <2>1
  <2> HIDE DEF end
  <2>3. end <= SENDBUF_SIZE
    BY <1>3, <2>2, FitsIn DEF l
  <2>4. ~ (end > SENDBUF_SIZE)
    BY <2>1, <2>2, <2>3
  <2> QED BY <2>4 DEF end, k
<1> QED BY <1>1, <1>8, <1>9

(* So is one that closes the handle: all is said by then, or the client    *)
(* has reset its connection.                                               *)
LEMMA CloseMaps ==
  ASSUME UvTypes, NEW c \in Clients, Good(c), Serves(c), finished[c] = << >>,
         UNCHANGED <<script, arrived, fin, drained, freed>>, CloseHandle(c),
         fin[c] = "rst" \/ (fin[c] = "fin" /\ taken[c] = arrived[c])
  PROVE  [Service!Next]_(Service!vars)
<1>1. /\ \/ requests[c] # << >> /\ fate' = "exited" /\ UNCHANGED link
         \/ link' = [link EXCEPT ![c] = "closed"] /\ UNCHANGED fate
      /\ UNCHANGED <<taken, sent>>
  BY DEF CloseHandle
<1>2. Alive /\ link[c] = "open"
  BY DEF Serves
<1>3. fin[c] = "rst" \/ (requests[c] = << >> /\ sent[c] = Owed(c))
  BY DEF Good, Rested, Told, Telling
<1>4. CASE requests[c] # << >> /\ fate' = "exited" /\ UNCHANGED link
  <2>1. ~ Alive'
    BY <1>4 DEF Alive
  <2> QED BY <1>1, <1>2, <1>3, <1>4, <2>1, EndMaps DEF ServiceVars
<1>5. CASE link' = [link EXCEPT ![c] = "closed"] /\ UNCHANGED fate
  <2>1. Service!Owed(c) = Owed(c)
    BY SameProtocol, Zenon DEF Service!Owed, Owed, Heard
  <2>2. \/ fin[c] = "rst"
        \/ fin[c] = "fin" /\ taken[c] = arrived[c] /\ sent[c] = Service!Owed(c)
    BY <1>3, <2>1
  <2>3. UNCHANGED <<script, arrived, fin, taken, sent, Alive>>
    BY <1>1, <1>5 DEF Alive
  <2>4. Service!Close(c)
    BY <1>2, <1>5, <2>2, <2>3 DEF Service!Close
  <2> QED BY <2>4 DEF Service!Next
<1> QED BY <1>1, <1>4, <1>5

(* Every read is.                                                          *)
LEMMA ReadMaps ==
  ASSUME EchoesFit, UvTypes, UvTypes', NEW c \in Clients, Good(c), Good(c)', Minds(c),
         on_peer_read(c)
  PROVE  [Service!Next]_(Service!vars)
<1>1. /\ Serves(c) /\ reading[c] /\ finished[c] = << >>
      /\ UNCHANGED <<script, arrived, fin, drained, freed>>
  BY ReadCases
<1>2. CASE /\ CloseHandle(c)
           /\ fin[c] = "rst" \/ (fin[c] = "fin" /\ taken[c] = arrived[c])
  BY <1>1, <1>2, CloseMaps
<1>3. ASSUME NEW bytes \in Seq(Byte), bytes # << >>, NextBytes(c, bytes),
             Len(bytes) = Lesser(arrived[c] - taken[c], ReadSize),
             Reads(c, bytes, Parse(state[c], bytes),
                   sendbuf_end[c] + Len(Parse(state[c], bytes).out)),
             UNCHANGED <<link, reading>>
      PROVE  [Service!Next]_(Service!vars)
  <2> DEFINE r == Parse(state[c], bytes)
  <2>1. /\ r = Parse(state[c], bytes)
        /\ Reads(c, bytes, r, sendbuf_end[c] + Len(r.out))
    BY <1>3
  <2> HIDE DEF r
  <2> QED BY <1>1, <1>3, <2>1, BytesMap
<1>4. \/ /\ CloseHandle(c)
         /\ fin[c] = "rst" \/ (fin[c] = "fin" /\ taken[c] = arrived[c])
      \/ /\ \E bytes \in Seq(Byte) :
              /\ bytes # << >> /\ NextBytes(c, bytes)
              /\ Len(bytes) = Lesser(arrived[c] - taken[c], ReadSize)
              /\ Reads(c, bytes, Parse(state[c], bytes),
                       sendbuf_end[c] + Len(Parse(state[c], bytes).out))
         /\ UNCHANGED <<link, reading>>
  BY ReadCases, Zenon DEF NextBytes
<1> QED BY <1>2, <1>3, <1>4, Zenon

(* More of a write is.                                                     *)
LEMMA WriteMoreMaps ==
  ASSUME UvTypes, UvTypes', NEW c \in Clients, Good(c), Good(c)', Minds(c), WriteTypes(c),
         WriteMore(c)
  PROVE  [Service!Next]_(Service!vars)
<1>1. /\ Alive /\ Alive' /\ link[c] = "open"
      /\ UNCHANGED <<script, link, arrived, fin, taken>>
  BY DEF WriteMore, Serves, Alive
<1>2. taken[c] <= taken'[c] /\ ~ (taken'[c] > taken[c])
  <2>1. taken[c] \in Nat
    BY UvFacts
  <2> QED BY <1>1, <2>1
<1>3. \E rest \in Seq(Byte) : sent[c] \o rest = Owed(c)'
  <2>1. Owed(c)' = Owed(c)
    BY <1>1 DEF Owed, Heard
  <2> QED BY <2>1 DEF Good, SentAPart
<1>4. Len(sent[c]) <= Len(sent'[c]) /\ SentAPart(c)' /\ \A d \in Clients : d # c => Unmoved(d)
  BY DEF WriteTypes, Good, Minds
<1> QED BY <1>1, <1>2, <1>3, <1>4, ConverseMaps

(* Every step is one of the service, or none.                              *)
LEMMA StepMaps ==
  ASSUME Uncloggable, EchoesFit, EchoInv, EchoInv', [Next]_vars
  PROVE  [Service!Next]_(Service!vars)
<1>1. UvTypes /\ UvTypes' /\ (\A d \in Clients : Good(d) /\ Good(d)')
      /\ (fate = "stopping" => freed # {}) /\ freed \in SUBSET Clients
  BY Functions DEF EchoInv, StateFunctions
<1>2. ASSUME NEW d \in freed PROVE d \in Clients /\ (fin[d] = "rst" \/ AsksToStop(Heard(d)))
  BY <1>1 DEF Good, Freed
<1>3. CASE Stop
  <2>1. UNCHANGED ServiceVars /\ Alive /\ ~ Alive'
    BY <1>3 DEF Stop, Alive, socketVars, ServiceVars
  <2>2. PICK d \in freed : TRUE
    BY <1>1, <1>3 DEF Stop
  <2> QED BY <1>2, <2>1, <2>2, EndMaps
<1>4. ASSUME NEW c \in Clients, Loop(c) PROVE [Service!Next]_(Service!vars)
  <2>1. CASE on_peer_connected(c)
    <3>1. Accepted(c)
      BY <1>1, <2>1, AcceptedDoes DEF Good
    <3>2. Alive
      BY <2>1 DEF on_peer_connected
    <3> QED BY <1>1, <3>1, <3>2, AdmitMaps
  <2>2. CASE PeerIsGone(c) \/ WriteFails(c)
    <3>1. UNCHANGED ServiceVars /\ Alive /\ ~ Alive' /\ fin[c] = "rst"
      BY <2>2 DEF PeerIsGone, WriteFails, Serves, Alive, socketVars, ServiceVars
    <3> QED BY <3>1, EndMaps
  <2>3. CASE WriteMore(c)
    <3>1. WriteTypes(c) /\ Minds(c)
      BY <1>1, <2>3, WriteMoreGood
    <3> QED BY <1>1, <2>3, <3>1, WriteMoreMaps
  <2>4. CASE on_wrote_init_ack(c)
    <3>1. UNCHANGED ServiceVars /\ (Alive' <=> Alive)
      BY <2>4 DEF on_wrote_init_ack, socketVars, ServiceVars, Alive
    <3> QED BY <3>1, Stutters
  <2>5. CASE on_wrote_buf(c)
    <3>1. UNCHANGED ServiceVars /\ (Alive' <=> Alive)
      BY <2>5 DEF on_wrote_buf, NextCallback, Serves, socketVars, ServiceVars, Alive
    <3> QED BY <3>1, Stutters
  <2>6. CASE on_peer_read(c)
    <3>1. Minds(c)
      BY <1>1, <2>6, ReadGood
    <3> QED BY <1>1, <2>6, <3>1, ReadMaps
  <2>7. CASE UseAfterFree(c)
    <3>1. UNCHANGED ServiceVars /\ Alive /\ ~ Alive' /\ c \in freed
      BY <2>7 DEF UseAfterFree, Alive, socketVars, ServiceVars
    <3> QED BY <1>2, <3>1, EndMaps
  <2> QED BY <1>4, <2>1, <2>2, <2>3, <2>4, <2>5, <2>6, <2>7, Zenon DEF Loop
<1>5. ASSUME NEW c \in Clients, Client(c) PROVE [Service!Next]_(Service!vars)
  BY <1>1, <1>5, ClientMaps
<1>6. CASE UNCHANGED vars
  <2>1. UNCHANGED ServiceVars /\ (Alive' <=> Alive)
    BY <1>6 DEF vars, serverVars, socketVars, ServiceVars, Alive
  <2> QED BY <2>1, Stutters
<1> QED BY <1>3, <1>4, <1>5, <1>6, Zenon DEF Next

(* The server is an echo service: it hears and says what the servers with  *)
(* other IO models do, lets every client in, and ends only for a client    *)
(* that was reset or that has asked for it, if every client that could     *)
(* clog its connection is patient and the send buffer holds every echo.    *)
THEOREM Refinement ==
  ASSUME Uncloggable, EchoesFit
  PROVE  Spec => ImplementsEchoService
<1>1. Init => Service!Init
  <2> SUFFICES ASSUME Init PROVE Service!Init
    OBVIOUS
  <2>1. Alive = TRUE
    BY DEF Init, Alive
  <2>2. Cardinality(Clients) \in Nat
    BY SocketsAssumption, FS_CardinalityType
  <2> QED BY <2>1, <2>2 DEF Init, SocketsInit, Service!Init, Service!ClientsInit
<1>2. EchoInv /\ EchoInv' /\ [Next]_vars => [Service!Next]_(Service!vars)
  BY StepMaps
<1> QED BY <1>1, <1>2, EchoAlways, PTL DEF Spec, ImplementsEchoService, Service!Spec
=============================================================================
