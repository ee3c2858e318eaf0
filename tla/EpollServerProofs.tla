------------------------- MODULE EpollServerProofs -------------------------
(***************************************************************************)
(* Theorems about epoll_server.c, for any number of clients, any scripts,  *)
(* any buffer sizes and any limit on descriptors.                          *)
(***************************************************************************)
EXTENDS EpollServer, ConnectionProofs

(* A client is served on at most one descriptor, over an open connection.  *)
Owners ==
  /\ \A fd \in Fds : Used(fd) => link[owner[fd]] = "open"
  /\ \A fd, other \in Fds : Used(fd) /\ owner[fd] = owner[other] => fd = other

GoodPeers == \A fd \in Fds : Used(fd) => GoodPeer(peer[fd])

(* The inductive invariant of the main loop.  TypeOK is not inductive      *)
(* alone: a handler reads the state of the connection that an event was    *)
(* reported for, so that the event has to be fresh, which it is because    *)
(* what a descriptor waits for determines which handler is called.         *)
LoopInv ==
  /\ TypeOK
  /\ SocketsInv
  /\ Owners
  /\ GoodPeers
  /\ InterestMatchesBuffer
  /\ EventsAreFresh

-----------------------------------------------------------------------------
(* The descriptor that listens is not one of a connection's.               *)
LEMMA ListenerApart == Fds \subseteq Nat /\ Listener \notin Fds
<1>1. \A limit \in FdLimits : FirstFd..(limit - 1) \subseteq Nat /\ Listener \notin FirstFd..(limit - 1)
  BY EpollAssumption DEF Listener
<1> QED BY <1>1, Zenon DEF Fds

(* The loop starts in a state of the invariant.                            *)
LEMMA LoopInit == Init => LoopInv
<1> SUFFICES ASSUME Init PROVE LoopInv
  OBVIOUS
<1>1. SocketsInv
  BY SocketsInitInv DEF Init
<1>2. TypeOK
  <2>1. BlankPeer \in PeerState
    BY DEF BlankPeer, PeerState, InternalState
  <2> QED BY <1>1, <2>1 DEF Init, TypeOK, SocketsInv, Fate, fd_status_NORW
<1>3. \A fd \in Fds : ~ Used(fd) /\ interest[fd] = {} /\ batch[fd] = {}
  BY DEF Init, Used, fd_status_NORW
<1> QED BY <1>1, <1>2, <1>3
      DEF LoopInv, Owners, GoodPeers, InterestMatchesBuffer, EventsAreFresh

-----------------------------------------------------------------------------
(* A client's step does not touch the server, nor an open connection.      *)
LEMMA LoopClient ==
  ASSUME LoopInv, NEW c \in Clients, Client(c)
  PROVE  LoopInv'
<1>1. SocketsInv'
  BY ClientStepInv DEF LoopInv, Client
<1>2. UNCHANGED serverVars
  BY DEF Client
<1>3. \A d \in Clients : link[d] = "open" => link'[d] = "open"
  BY DEF LoopInv, SocketsInv, SocketsTypeOK, Client, ClientStep,
         Connect, Deliver, HangUp, Reset, Drain
<1>4. TypeOK'
  BY <1>1, <1>2 DEF LoopInv, TypeOK, SocketsInv, serverVars
<1>5. Owners'
  BY <1>2, <1>3 DEF LoopInv, Owners, TypeOK, Used, serverVars
<1>6. (GoodPeers /\ InterestMatchesBuffer /\ EventsAreFresh)'
  BY <1>2 DEF LoopInv, GoodPeers, InterestMatchesBuffer, EventsAreFresh, Used, serverVars
<1> QED BY <1>1, <1>4, <1>5, <1>6 DEF LoopInv

(* epoll_wait() reports, of a descriptor, either nothing or what it is     *)
(* registered for.                                                         *)
LEMMA LoopWait ==
  ASSUME LoopInv, EpollWait
  PROVE  LoopInv'
<1>1. UNCHANGED <<socketVars, fdLimit, fate, owner, peer, interest>> /\ fate = "running"
  BY DEF EpollWait
<1>2. PICK odd \in SUBSET (IF Spurious THEN DOMAIN batch ELSE {}) :
        batch' = [fd \in DOMAIN batch |-> IF fd \in odd THEN Registered(fd) ELSE Ready(fd)]
  BY DEF EpollWait
<1>3. DOMAIN batch = Fds \union {Listener} /\ Listener \notin Fds
  BY ListenerApart DEF LoopInv, TypeOK
<1>4. \A fd \in Fds \union {Listener} : batch'[fd] \subseteq Registered(fd)
  BY <1>2, <1>3 DEF Ready
<1>5. \A fd \in Fds \union {Listener} : Registered(fd) \in SUBSET {"in", "out"}
  BY <1>3 DEF Registered, LoopInv, TypeOK
<1>6. SocketsInv'
  BY <1>1 DEF LoopInv, SocketsInv, SocketsTypeOK, KernelHolds, Untouched, socketVars
<1>7. TypeOK'
  BY <1>1, <1>2, <1>3, <1>4, <1>5, <1>6 DEF LoopInv, TypeOK, SocketsInv
<1>8. EventsAreFresh'
  <2> SUFFICES ASSUME NEW fd \in Fds, batch'[fd] # {}
               PROVE  Used(fd)' /\ batch'[fd] = interest'[fd]
    BY DEF EventsAreFresh
  <2>1. batch'[fd] \subseteq interest[fd]
    BY <1>3, <1>4 DEF Registered
  <2>2. Used(fd) /\ (interest[fd] = {"in"} \/ interest[fd] = {"out"})
    BY <1>1, <2>1 DEF LoopInv, InterestMatchesBuffer, WaitsForTheRightEvent,
                      fd_status_R, fd_status_W
  <2> QED BY <1>1, <2>1, <2>2 DEF Used
<1>9. (Owners /\ GoodPeers /\ InterestMatchesBuffer)'
  BY <1>1 DEF LoopInv, Owners, GoodPeers, InterestMatchesBuffer, Used, socketVars
<1> QED BY <1>6, <1>7, <1>8, <1>9 DEF LoopInv

-----------------------------------------------------------------------------
(* What accept() comes to: a client is let in, or the connections stay as  *)
(* they are.                                                               *)
LetIn(c, fd) ==
  /\ c \in Backlog /\ fd \in FreeFds /\ ~ (fd >= MaxFds)
  /\ link' = [link EXCEPT ![c] = "open"]
  /\ owner' = [owner EXCEPT ![fd] = c]
  /\ peer' = [peer EXCEPT ![fd] = Greeting.peer]
  /\ interest' = [interest EXCEPT ![fd] = Greeting.status]
  /\ UNCHANGED fate
LeftOut == UNCHANGED <<link, owner, peer, interest>> /\ fate' \in Fate

(* These are all the cases of Accept.                                      *)
LEMMA AcceptCases ==
  ASSUME fate \in Fate, Accept
  PROVE  LeftOut \/ \E c \in Clients, fd \in Fds : LetIn(c, fd)
<1>1. CASE AcceptNobody
  BY <1>1 DEF AcceptNobody, LeftOut
<1>2. CASE AcceptRefused
  BY <1>2 DEF AcceptRefused, LeftOut, Fate
<1>3. ASSUME NEW c \in Clients, NEW fd \in Fds, AcceptPeer(c, fd)
      PROVE  LeftOut \/ LetIn(c, fd)
  BY <1>3 DEF AcceptPeer, LeftOut, LetIn, Fate
<1>4. AcceptNobody \/ AcceptRefused \/ \E c \in Clients, fd \in Fds : AcceptPeer(c, fd)
  BY Zenon DEF Accept
<1> QED BY <1>1, <1>2, <1>3, <1>4, Zenon

(* A connection is accepted on a descriptor for which no event is waiting. *)
LEMMA LoopAccept ==
  ASSUME LoopInv, Accept
  PROVE  LoopInv'
<1>1. /\ fate = "running"
      /\ batch' = [batch EXCEPT ![Listener] = {}]
      /\ UNCHANGED <<script, arrived, fin, taken, sent, drained, fdLimit>>
  BY DEF Accept
<1>2. \A fd \in Fds : batch'[fd] = batch[fd]
  BY <1>1, ListenerApart DEF LoopInv, TypeOK
<1>3. batch' \in [Fds \union {Listener} -> SUBSET {"in", "out"}]
  BY <1>1 DEF LoopInv, TypeOK
<1>4. CASE LeftOut
  <2> USE DEF LeftOut
  <2>1. SocketsInv'
    BY <1>1, <1>4 DEF LoopInv, SocketsInv, SocketsTypeOK, KernelHolds, Untouched
  <2>2. TypeOK'
    BY <1>1, <1>3, <1>4, <2>1 DEF LoopInv, TypeOK, SocketsInv
  <2>3. (Owners /\ GoodPeers)'
    BY <1>4 DEF LoopInv, Owners, GoodPeers, Used
  <2>4. (InterestMatchesBuffer /\ EventsAreFresh)'
    BY <1>1, <1>2, <1>4 DEF LoopInv, InterestMatchesBuffer, EventsAreFresh, Used
  <2> QED BY <2>1, <2>2, <2>3, <2>4 DEF LoopInv
<1>5. CASE \E c \in Clients, fd \in Fds : LetIn(c, fd)
  <2>1. PICK c \in Clients, new \in Fds : LetIn(c, new)
    BY <1>5
  <2> USE <2>1 DEF LetIn
  <2>2. link[c] = "backlog" /\ ~ Used(new)
    BY <2>1 DEF Backlog, FreeFds, UsedFds
  <2>3. c # NoClient /\ \A fd \in Fds : Used(fd) => owner[fd] # c
    BY <2>2, EpollAssumption DEF LoopInv, Owners
  <2>4. Greeting.peer \in PeerState
    BY ConnectedGood DEF GoodPeer
  <2>5. SocketsInv'
    BY <1>1, <2>1 DEF LoopInv, SocketsInv, SocketsTypeOK, LinkState, KernelHolds, Untouched
  <2>6. TypeOK'
    BY <1>1, <1>3, <2>1, <2>4, <2>5, ConnectedGood DEF LoopInv, TypeOK, SocketsInv
  <2>7. \A fd \in Fds \ {new} : /\ owner'[fd] = owner[fd] /\ peer'[fd] = peer[fd]
                                /\ interest'[fd] = interest[fd]
    BY <2>1 DEF LoopInv, TypeOK
  <2>8. /\ owner'[new] = c /\ peer'[new] = Greeting.peer
        /\ interest'[new] = Greeting.status
    BY <2>1 DEF LoopInv, TypeOK
  <2>9. /\ link'[c] = "open"
        /\ \A d \in Clients : link[d] = "open" => link'[d] = "open"
    BY <2>1 DEF LoopInv, SocketsInv, SocketsTypeOK
  <2>10. Owners'
    BY <2>3, <2>7, <2>8, <2>9 DEF LoopInv, TypeOK, Owners, Used
  <2>11. GoodPeers'
    BY <2>3, <2>7, <2>8, ConnectedGood DEF LoopInv, GoodPeers, Used
  <2>12. InterestMatchesBuffer'
    BY <1>1, <2>1, <2>3, <2>7, <2>8, ConnectedGood DEF LoopInv, InterestMatchesBuffer, Used
  <2>13. EventsAreFresh'
    <3>1. batch[new] = {}
      BY <1>1, <2>2 DEF LoopInv, EventsAreFresh
    <3> QED BY <1>1, <1>2, <2>1, <2>7, <3>1 DEF LoopInv, EventsAreFresh, Used
  <2> QED BY <2>5, <2>6, <2>10, <2>11, <2>12, <2>13 DEF LoopInv
<1>6. fate \in Fate
  BY DEF LoopInv, TypeOK
<1> QED BY <1>4, <1>5, <1>6, AcceptCases, Zenon

-----------------------------------------------------------------------------
(* What the loop does with a handler's answer keeps the invariant,         *)
(* provided the sockets stay well.                                         *)
LEMMA LoopRegister ==
  ASSUME LoopInv, fate = "running", NEW fd \in Fds, Used(fd),
         NEW h, GoodAnswer(h), Register(fd, h), SocketsInv', UNCHANGED fdLimit
  PROVE  LoopInv'
<1>1. /\ fate' = h.fate
      /\ peer' = [peer EXCEPT ![fd] = h.peer]
      /\ batch' = [batch EXCEPT ![fd] = {}]
      /\ interest' = [interest EXCEPT ![fd] = h.status]
  BY DEF Register
<1>2. /\ h.peer \in PeerState /\ GoodPeer(h.peer)
      /\ h.fate \in Fate /\ h.status \in SUBSET {"in", "out"}
  BY DEF GoodAnswer, GoodPeer, Fate
<1>3. /\ peer'[fd] = h.peer /\ batch'[fd] = {} /\ interest'[fd] = h.status
      /\ \A other \in Fds \ {fd} : /\ peer'[other] = peer[other]
                                   /\ batch'[other] = batch[other]
                                   /\ interest'[other] = interest[other]
                                   /\ owner'[other] = owner[other]
  BY <1>1 DEF Register, LoopInv, TypeOK
<1>4. CASE h.status = fd_status_NORW /\ h.fate = "running"
  <2>1. owner' = [owner EXCEPT ![fd] = NoClient] /\ owner'[fd] = NoClient
    BY <1>4 DEF Register, LoopInv, TypeOK
  <2>2. owner[fd] \in Clients /\ link' = [link EXCEPT ![owner[fd]] = "closed"]
    BY <1>4 DEF Register, LoopInv, TypeOK, Used
  <2>3. TypeOK'
    BY <1>1, <1>2, <2>1 DEF LoopInv, TypeOK, SocketsInv
  <2>4. \A other \in Fds \ {fd} : Used(other) =>
          /\ owner[other] \in Clients /\ owner[other] # owner[fd]
          /\ link'[owner[other]] = "open"
    BY <2>2 DEF LoopInv, TypeOK, Owners, Used, SocketsInv, SocketsTypeOK
  <2>5. Owners'
    BY <1>3, <2>1, <2>4 DEF LoopInv, Owners, Used
  <2>6. (GoodPeers /\ InterestMatchesBuffer /\ EventsAreFresh)'
    BY <1>1, <1>3, <1>4, <2>1
       DEF LoopInv, GoodPeers, InterestMatchesBuffer, EventsAreFresh, Used, fd_status_NORW
  <2> QED BY <2>3, <2>5, <2>6 DEF LoopInv
<1>5. CASE ~ (h.status = fd_status_NORW /\ h.fate = "running")
  <2>1. UNCHANGED <<owner, link>>
    BY <1>5 DEF Register
  <2>2. TypeOK'
    BY <1>1, <1>2, <2>1 DEF LoopInv, TypeOK, SocketsInv
  <2>3. Owners'
    BY <2>1 DEF LoopInv, Owners, Used
  <2>4. (GoodPeers /\ InterestMatchesBuffer /\ EventsAreFresh)'
    BY <1>1, <1>2, <1>3, <1>5, <2>1
       DEF LoopInv, GoodPeers, InterestMatchesBuffer, EventsAreFresh, Used, GoodAnswer
  <2> QED BY <2>2, <2>3, <2>4 DEF LoopInv
<1> QED BY <1>4, <1>5

(* The handler is called for the connection the event was reported for,    *)
(* and nothing changes the link of another.                                *)
LEMMA HandlerOwner ==
  ASSUME LoopInv, fate = "running", NEW fd \in Fds, batch[fd] # {}
  PROVE  /\ Used(fd) /\ owner[fd] \in Clients /\ link[owner[fd]] = "open"
         /\ GoodPeer(peer[fd])
         /\ batch[fd] = interest[fd]
         /\ WaitsForTheRightEvent(peer[fd], interest[fd])
BY DEF LoopInv, TypeOK, Owners, GoodPeers, InterestMatchesBuffer, EventsAreFresh, Used

(* The handler of a readable descriptor.                                   *)
LEMMA LoopIn ==
  ASSUME LoopInv, NEW fd \in Fds, HandleIn(fd)
  PROVE  LoopInv'
<1> DEFINE c == owner[fd]
<1>1. PICK got \in recv(c, RecvSize) :
        /\ Register(fd, on_peer_ready_recv(peer[fd], got))
        /\ taken' = IF CallsRecv(peer[fd])
                    THEN [taken EXCEPT ![c] = @ + Len(got.bytes)] ELSE taken
  BY DEF HandleIn
<1>2. /\ fate = "running" /\ batch[fd] # {}
      /\ UNCHANGED <<script, arrived, fin, sent, drained, fdLimit>>
  BY DEF HandleIn
<1>3. Used(fd) /\ c \in Clients /\ link[c] = "open" /\ GoodPeer(peer[fd])
  BY <1>2, HandlerOwner
<1>4. RecvSize \in Nat
  BY BufferAssumption
<1>5. /\ got \in [errno : Errno, bytes : Seq(Byte)]
      /\ Len(got.bytes) <= RecvSize
      /\ taken[c] + Len(got.bytes) <= arrived[c]
  BY <1>3, <1>4, RecvType DEF LoopInv, SocketsInv, Answer, Errno
<1>6. GoodAnswer(on_peer_ready_recv(peer[fd], got))
  BY <1>3, <1>5, RecvGood
<1>7. link' = link \/ link' = [link EXCEPT ![c] = "closed"]
  BY <1>1 DEF Register
<1>8. Len(got.bytes) \in Nat
  BY <1>5
<1> HIDE DEF c
<1>9. SocketsInv'
  <2>1. /\ taken' \in [Clients -> Nat] /\ link' \in [Clients -> LinkState]
        /\ \A d \in Clients : taken'[d] <= arrived[d]
        /\ \A d \in Clients : d # c => taken'[d] = taken[d]
    BY <1>1, <1>3, <1>5, <1>7, <1>8 DEF LoopInv, SocketsInv, SocketsTypeOK, LinkState
  <2>2. SocketsTypeOK'
    BY <1>2, <2>1 DEF LoopInv, SocketsInv, SocketsTypeOK
  <2>3. KernelHolds'
    BY <1>2 DEF LoopInv, SocketsInv, KernelHolds
  <2>4. Untouched'
    BY <1>2, <1>3, <1>7, <2>1 DEF LoopInv, SocketsInv, SocketsTypeOK, Untouched
  <2> QED BY <2>2, <2>3, <2>4 DEF SocketsInv
<1> QED BY <1>1, <1>2, <1>3, <1>6, <1>9, LoopRegister

(* The handler of a writable descriptor: something is staged when it runs. *)
LEMMA LoopOut ==
  ASSUME LoopInv, NEW fd \in Fds, HandleOut(fd)
  PROVE  LoopInv'
<1> DEFINE c == owner[fd]
           p == peer[fd]
           answer == send(c, Len(Staged(p)))
<1>1. /\ fate = "running" /\ batch[fd] = {"out"}
      /\ Register(fd, on_peer_ready_send(p, answer))
      /\ sent' = IF Undrained(p)
                 THEN [sent EXCEPT ![c] = @ \o Prefix(Staged(p), answer.nsent)]
                 ELSE sent
      /\ UNCHANGED <<script, arrived, fin, taken, drained, fdLimit>>
  BY DEF HandleOut
<1>2. Used(fd) /\ c \in Clients /\ link[c] = "open" /\ GoodPeer(p)
  BY <1>1, HandlerOwner
<1>3. Undrained(p)
  BY <1>1, HandlerOwner DEF WaitsForTheRightEvent, fd_status_R
<1>4. Staged(p) \in Seq(Byte) /\ Len(Staged(p)) \in Nat \ {0}
  BY <1>2, <1>3, StagedType
<1>5. /\ answer \in [errno : Answer, nsent : 0..Len(Staged(p))]
      /\ answer.errno = "ok" => Len(sent[c]) + answer.nsent - drained[c] <= SockBuf
      /\ answer.errno # "ok" => answer.nsent = 0
  <2>1. answer.errno # "ok" => answer.nsent = 0
    BY DEF send
  <2> QED BY <1>2, <1>4, <2>1, SendType DEF LoopInv
<1> HIDE DEF answer
<1>6. GoodAnswer(on_peer_ready_send(p, answer))
  BY <1>2, <1>3, <1>5, SendGood DEF Answer, Errno
<1>7. link' = link \/ link' = [link EXCEPT ![c] = "closed"]
  BY <1>1 DEF Register
<1> HIDE DEF c, p
<1> DEFINE said == Prefix(Staged(p), answer.nsent)
<1>8. said \in Seq(Byte) /\ Len(said) = answer.nsent /\ answer.nsent \in Nat
  BY <1>4, <1>5, PieceType DEF Prefix
<1>9. sent[c] \in Seq(Byte) /\ drained[c] \in Nat /\ Len(sent[c]) \in Nat
  BY <1>2 DEF LoopInv, SocketsInv, SocketsTypeOK
<1>10. sent' = [sent EXCEPT ![c] = sent[c] \o said]
  BY <1>1, <1>3
<1> HIDE DEF said
<1>11. sent[c] \o said \in Seq(Byte) /\ Len(sent[c] \o said) = Len(sent[c]) + answer.nsent
  BY <1>8, <1>9
<1>12. Len(sent[c] \o said) - drained[c] <= SockBuf
  BY <1>2, <1>5, <1>8, <1>9, <1>11 DEF LoopInv, SocketsInv, KernelHolds
<1>13. SocketsInv'
  <2>1. \A d \in Clients : sent'[d] = IF d = c THEN sent[c] \o said ELSE sent[d]
    BY <1>10 DEF LoopInv, SocketsInv, SocketsTypeOK
  <2>2. sent' \in [Clients -> Seq(Byte)] /\ link' \in [Clients -> LinkState]
    BY <1>7, <1>10, <1>11 DEF LoopInv, SocketsInv, SocketsTypeOK, LinkState
  <2>3. drained[c] <= Len(sent[c] \o said)
    BY <1>2, <1>8, <1>9, <1>11 DEF LoopInv, SocketsInv, SocketsTypeOK
  <2>4. SocketsTypeOK'
    BY <1>1, <2>1, <2>2, <2>3 DEF LoopInv, SocketsInv, SocketsTypeOK
  <2>5. KernelHolds'
    BY <1>1, <1>12, <2>1 DEF LoopInv, SocketsInv, KernelHolds
  <2>6. Untouched'
    BY <1>1, <1>2, <1>7, <2>1 DEF LoopInv, SocketsInv, SocketsTypeOK, Untouched
  <2> QED BY <2>4, <2>5, <2>6 DEF SocketsInv
<1> QED BY <1>1, <1>2, <1>6, <1>13, LoopRegister DEF p

-----------------------------------------------------------------------------
(* Every step of the server and of its clients keeps the invariant.        *)
LEMMA LoopNext == LoopInv /\ [Next]_vars => LoopInv'
<1> SUFFICES ASSUME LoopInv, [Next]_vars PROVE LoopInv'
  OBVIOUS
<1>1. CASE EpollWait
  BY <1>1, LoopWait
<1>2. CASE Accept
  BY <1>2, LoopAccept
<1>3. ASSUME NEW fd \in Fds, HandleIn(fd) PROVE LoopInv'
  BY <1>3, LoopIn
<1>4. ASSUME NEW fd \in Fds, HandleOut(fd) PROVE LoopInv'
  BY <1>4, LoopOut
<1>5. ASSUME NEW c \in Clients, Client(c) PROVE LoopInv'
  BY <1>5, LoopClient
<1>6. CASE UNCHANGED vars
  BY <1>6 DEF LoopInv, TypeOK, SocketsInv, SocketsTypeOK, KernelHolds, Untouched, Owners,
              GoodPeers, InterestMatchesBuffer, EventsAreFresh, Used,
              vars, socketVars, serverVars
<1> QED BY <1>1, <1>2, <1>3, <1>4, <1>5, <1>6, Zenon DEF Next, Server

(* The invariant of the main loop holds throughout every run.              *)
THEOREM LoopSafe == Spec => []LoopInv
<1> QED BY LoopInit, LoopNext, PTL DEF Spec

(* Type correctness of the server's state and of its sockets.              *)
THEOREM TypeCorrect == Spec => []TypeOK
<1>1. LoopInv => TypeOK
  BY DEF LoopInv
<1> QED BY <1>1, LoopSafe, PTL

(* A connection is registered for writing exactly while bytes are staged   *)
(* for it and for reading exactly while none are: with the invariant's     *)
(* GoodPeers, no handler is ever called that has nothing to do.            *)
THEOREM InterestSafe == Spec => []InterestMatchesBuffer
<1>1. LoopInv => InterestMatchesBuffer
  BY DEF LoopInv
<1> QED BY <1>1, LoopSafe, PTL

(* No event of a batch is handled for another connection than the one it   *)
(* was reported for, although descriptors are closed and given away while  *)
(* the batch is handled.                                                   *)
THEOREM EventsSafe == Spec => []EventsAreFresh
<1>1. LoopInv => EventsAreFresh
  BY DEF LoopInv
<1> QED BY <1>1, LoopSafe, PTL

-----------------------------------------------------------------------------
(* No assertion fails on a system whose limit on descriptors is within     *)
(* MAXFDS: a read never meets a full buffer, and no descriptor is too      *)
(* large for global_state[].                                               *)
THEOREM AssertionsHold ==
  ASSUME \A limit \in FdLimits : limit <= MaxFds
  PROVE  Spec => []NoAssertionFails
<1>1. Init => NoAssertionFails
  BY DEF Init, NoAssertionFails
<1>2. ASSUME LoopInv, NoAssertionFails, [Next]_vars PROVE NoAssertionFails'
  <2> USE DEF NoAssertionFails
  <2>1. CASE EpollWait
    BY <1>2, <2>1 DEF EpollWait
  <2>2. CASE Accept
    <3>1. CASE AcceptNobody \/ AcceptRefused
      BY <1>2, <3>1 DEF AcceptNobody, AcceptRefused
    <3>2. ASSUME NEW c \in Clients, NEW fd \in Fds, AcceptPeer(c, fd)
          PROVE  fate' # "aborted"
      <4>1. fd < fdLimit /\ fdLimit <= MaxFds /\ fd \in Nat /\ fdLimit \in Nat
        BY <1>2, <3>2, ListenerApart, EpollAssumption DEF AcceptPeer, FreeFds, LoopInv, TypeOK
      <4>2. ~ (fd >= MaxFds)
        BY <4>1, EpollAssumption
      <4> QED BY <1>2, <3>2, <4>2 DEF AcceptPeer
    <3> QED BY <2>2, <3>1, <3>2, Zenon DEF Accept
  <2>3. ASSUME NEW fd \in Fds, HandleIn(fd) PROVE fate' # "aborted"
    <3>1. PICK got \in recv(owner[fd], RecvSize) :
            Register(fd, on_peer_ready_recv(peer[fd], got))
      BY <2>3 DEF HandleIn
    <3>2. owner[fd] \in Clients /\ GoodPeer(peer[fd]) /\ RecvSize \in Nat
      BY <1>2, <2>3, HandlerOwner, BufferAssumption DEF HandleIn
    <3>3. got \in [errno : Errno, bytes : Seq(Byte)] /\ Len(got.bytes) <= RecvSize
      BY <1>2, <3>1, <3>2, RecvType DEF LoopInv, SocketsInv, Answer, Errno
    <3>4. GoodAnswer(on_peer_ready_recv(peer[fd], got))
      BY <3>2, <3>3, RecvGood
    <3> QED BY <3>1, <3>4 DEF Register, GoodAnswer
  <2>4. ASSUME NEW fd \in Fds, HandleOut(fd) PROVE fate' # "aborted"
    <3> DEFINE answer == send(owner[fd], Len(Staged(peer[fd])))
    <3>1. Register(fd, on_peer_ready_send(peer[fd], answer))
      BY <2>4 DEF HandleOut
    <3>2. on_peer_ready_send(peer[fd], answer).fate # "aborted"
      BY DEF on_peer_ready_send
    <3> QED BY <3>1, <3>2 DEF Register
  <2>5. ASSUME NEW c \in Clients, Client(c) PROVE fate' # "aborted"
    BY <1>2, <2>5 DEF Client, serverVars
  <2>6. CASE UNCHANGED vars
    BY <1>2, <2>6 DEF vars, serverVars
  <2> QED BY <1>2, <2>1, <2>2, <2>3, <2>4, <2>5, <2>6, Zenon DEF Next, Server
<1> QED BY <1>1, <1>2, LoopSafe, PTL DEF Spec

-----------------------------------------------------------------------------
(* A client is not heard before it has been greeted.                       *)
GreetedFirst == \A c \in Clients : sent[c] = << >> => taken[c] = 0

(* What has passed over the connections.  NothingLostOrRepeated needs      *)
(* GreetedFirst: the state the greeting leaves the parser in is the one of *)
(* a parser that has read nothing.                                         *)
Passed == NothingLostOrRepeated /\ GreetedFirst

(* What the loop does with a handler's answer keeps the account of every   *)
(* connection if the handler kept that of its own.                         *)
LEMMA PassedRegister ==
  ASSUME LoopInv, NothingLostOrRepeated, fate = "running", NEW fd \in Fds, Used(fd),
         NEW h, Register(fd, h), UNCHANGED script,
         \A d \in Clients \ {owner[fd]} : taken'[d] = taken[d] /\ sent'[d] = sent[d],
         Accounted(h.peer, Prefix(script[owner[fd]], taken'[owner[fd]]), sent'[owner[fd]])
  PROVE  NothingLostOrRepeated'
<1> SUFFICES ASSUME NEW other \in Fds, Open(other)'
             PROVE  Accounted(peer'[other],
                              Prefix(script'[owner'[other]], taken'[owner'[other]]),
                              sent'[owner'[other]])
  BY DEF NothingLostOrRepeated
<1>1. CASE other = fd
  <2>1. owner'[fd] = owner[fd]
    BY <1>1 DEF Register, Open, Used, LoopInv, TypeOK
  <2>2. peer'[fd] = h.peer
    BY DEF Register, LoopInv, TypeOK
  <2> QED BY <1>1, <2>1, <2>2
<1>2. CASE other # fd
  <2>1. owner'[other] = owner[other] /\ peer'[other] = peer[other]
    BY <1>2 DEF Register, LoopInv, TypeOK
  <2>2. Open(other) /\ owner[other] \in Clients \ {owner[fd]}
    BY <1>2, <2>1 DEF Open, Used, LoopInv, TypeOK, Owners
  <2> QED BY <2>1, <2>2 DEF NothingLostOrRepeated
<1> QED BY <1>1, <1>2

(* A handler's call: whose connection it is for, the state p kept for it,  *)
(* the answer h of the handler.                                            *)
Called(fd, c, p, h) ==
  /\ c \in Clients /\ c = owner[fd] /\ Used(fd) /\ link[c] = "open"
  /\ p = peer[fd] /\ GoodPeer(p) /\ AccountOf(c, p)
  /\ sent[c] = << >> => taken[c] = 0
  /\ fate = "running" /\ Register(fd, h)
  /\ UNCHANGED <<script, arrived, fin, drained, fdLimit>>

(* What the call for a descriptor comes to.                                *)
LEMMA Calls ==
  ASSUME LoopInv, Passed, NEW fd \in Fds, fate = "running", batch[fd] # {},
         NEW h, Register(fd, h), UNCHANGED <<script, arrived, fin, drained, fdLimit>>
  PROVE  \E c, p : Called(fd, c, p, h)
<1>1. /\ Used(fd) /\ owner[fd] \in Clients /\ link[owner[fd]] = "open"
      /\ GoodPeer(peer[fd])
  BY HandlerOwner
<1>2. AccountOf(owner[fd], peer[fd]) /\ (sent[owner[fd]] = << >> => taken[owner[fd]] = 0)
  BY <1>1 DEF Passed, NothingLostOrRepeated, GreetedFirst, Open, AccountOf
<1> QED BY <1>1, <1>2 DEF Called

(* The call of the handler of a readable descriptor.                       *)
LEMMA CallsIn ==
  ASSUME LoopInv, Passed, NEW fd \in Fds, HandleIn(fd)
  PROVE  \E c, p, h : \E got \in recv(c, RecvSize) :
           /\ Called(fd, c, p, h)
           /\ h = on_peer_ready_recv(p, got)
           /\ taken' = IF CallsRecv(p)
                       THEN [taken EXCEPT ![c] = @ + Len(got.bytes)] ELSE taken
           /\ UNCHANGED sent
<1>1. PICK got \in recv(owner[fd], RecvSize) :
        /\ Register(fd, on_peer_ready_recv(peer[fd], got))
        /\ taken' = IF CallsRecv(peer[fd])
                    THEN [taken EXCEPT ![owner[fd]] = @ + Len(got.bytes)] ELSE taken
  BY DEF HandleIn
<1>2. PICK h : h = on_peer_ready_recv(peer[fd], got)
  OBVIOUS
<1>3. /\ fate = "running" /\ batch[fd] # {} /\ UNCHANGED sent
      /\ UNCHANGED <<script, arrived, fin, drained, fdLimit>>
  BY DEF HandleIn
<1>4. PICK c, p : Called(fd, c, p, h)
  BY <1>1, <1>2, <1>3, Calls
<1>5. c = owner[fd] /\ p = peer[fd]
  BY <1>4 DEF Called
<1> QED BY <1>1, <1>2, <1>3, <1>4, <1>5, Zenon

(* The call of the handler of a writable one: something is staged.         *)
LEMMA CallsOut ==
  ASSUME LoopInv, Passed, NEW fd \in Fds, HandleOut(fd)
  PROVE  \E c, p, h, answer :
           /\ Called(fd, c, p, h) /\ Undrained(p)
           /\ answer = send(c, Len(Staged(p)))
           /\ h = on_peer_ready_send(p, answer)
           /\ sent' = [sent EXCEPT ![c] = @ \o Prefix(Staged(p), answer.nsent)]
           /\ UNCHANGED taken
<1>1. PICK answer : answer = send(owner[fd], Len(Staged(peer[fd])))
  OBVIOUS
<1>2. PICK h : h = on_peer_ready_send(peer[fd], answer)
  OBVIOUS
<1>3. /\ fate = "running" /\ batch[fd] = {"out"} /\ UNCHANGED taken
      /\ Register(fd, h) /\ UNCHANGED <<script, arrived, fin, drained, fdLimit>>
  BY <1>1, <1>2 DEF HandleOut
<1>4. Undrained(peer[fd])
  BY <1>3, HandlerOwner DEF WaitsForTheRightEvent, fd_status_R
<1>5. sent' = [sent EXCEPT ![owner[fd]] = @ \o Prefix(Staged(peer[fd]), answer.nsent)]
  BY <1>1, <1>4 DEF HandleOut
<1>6. PICK c, p : Called(fd, c, p, h)
  BY <1>3, Calls
<1>7. c = owner[fd] /\ p = peer[fd]
  BY <1>6 DEF Called
<1> QED BY <1>1, <1>2, <1>3, <1>4, <1>5, <1>6, <1>7, Zenon

(* The handler of a readable descriptor accounts for what it takes.        *)
LEMMA PassedIn ==
  ASSUME LoopInv, Passed, NEW fd \in Fds, HandleIn(fd)
  PROVE  Passed'
<1>1. PICK c, p, h : \E got \in recv(c, RecvSize) :
        /\ Called(fd, c, p, h)
        /\ h = on_peer_ready_recv(p, got)
        /\ taken' = IF CallsRecv(p)
                    THEN [taken EXCEPT ![c] = @ + Len(got.bytes)] ELSE taken
        /\ UNCHANGED sent
  BY CallsIn
<1>2. PICK got \in recv(c, RecvSize) :
        /\ h = on_peer_ready_recv(p, got)
        /\ taken' = IF CallsRecv(p)
                    THEN [taken EXCEPT ![c] = @ + Len(got.bytes)] ELSE taken
        /\ UNCHANGED sent
  BY <1>1
<1>3. /\ c \in Clients /\ GoodPeer(p) /\ AccountOf(c, p) /\ SocketsTypeOK /\ UNCHANGED <<script, sent>>
      /\ c = owner[fd] /\ Used(fd) /\ fate = "running" /\ Register(fd, h)
  BY <1>1 DEF Called, LoopInv, SocketsInv
<1>4. /\ AccountOf(c, h.peer)' /\ OnlyOf(c)
      /\ CallsRecv(p) => sent[c] # << >>
      /\ taken'[c] = IF CallsRecv(p) THEN taken[c] + Len(got.bytes) ELSE taken[c]
  BY <1>2, <1>3, RecvHears
<1>5. NothingLostOrRepeated'
  BY <1>3, <1>4, PassedRegister DEF Passed, AccountOf, OnlyOf
<1>6. GreetedFirst'
  BY <1>3, <1>4 DEF Passed, GreetedFirst, OnlyOf
<1> QED BY <1>5, <1>6 DEF Passed

(* The handler of a writable descriptor accounts for what it sends.        *)
LEMMA PassedOut ==
  ASSUME LoopInv, Passed, NEW fd \in Fds, HandleOut(fd)
  PROVE  Passed'
<1>1. PICK c, p, h, answer :
        /\ Called(fd, c, p, h) /\ Undrained(p)
        /\ answer = send(c, Len(Staged(p)))
        /\ h = on_peer_ready_send(p, answer)
        /\ sent' = [sent EXCEPT ![c] = @ \o Prefix(Staged(p), answer.nsent)]
        /\ UNCHANGED taken
  BY CallsOut
<1>2. /\ c \in Clients /\ GoodPeer(p) /\ AccountOf(c, p) /\ SocketsInv /\ UNCHANGED <<script, taken>>
      /\ c = owner[fd] /\ Used(fd) /\ fate = "running" /\ Register(fd, h)
      /\ sent[c] = << >> => taken[c] = 0
  BY <1>1 DEF Called, LoopInv
<1>3. AccountOf(c, h.peer)' /\ OnlyOf(c) /\ Tells(c, p, answer)
  BY <1>1, <1>2, SendTells
<1>4. NothingLostOrRepeated'
  BY <1>2, <1>3, PassedRegister DEF Passed, AccountOf, OnlyOf
<1>5. sent'[c] = << >> => sent[c] = << >>
  <2>1. sent[c] \in Seq(Byte) /\ \E front \in Seq(Byte) : sent'[c] = sent[c] \o front
    BY <1>2, <1>3 DEF SocketsInv, SocketsTypeOK, Tells
  <2>2. ASSUME NEW front \in Seq(Byte), sent[c] \o front = << >> PROVE sent[c] = << >>
    BY <2>1, <2>2, ConcatEqualIffEmpty
  <2> QED BY <2>1, <2>2
<1>6. GreetedFirst'
  BY <1>2, <1>3, <1>5 DEF Passed, GreetedFirst, OnlyOf
<1> QED BY <1>4, <1>6 DEF Passed

(* A connection is accepted before anything has passed over it.            *)
LEMMA PassedAccept ==
  ASSUME LoopInv, Passed, Accept
  PROVE  Passed'
<1>1. UNCHANGED <<script, taken, sent>> /\ fate = "running"
  BY DEF Accept
<1>2. GreetedFirst'
  BY <1>1 DEF Passed, GreetedFirst
<1>3. ASSUME AcceptNobody \/ AcceptRefused PROVE NothingLostOrRepeated'
  BY <1>1, <1>3 DEF AcceptNobody, AcceptRefused, Passed, NothingLostOrRepeated, Open, Used
<1>4. ASSUME NEW c \in Clients, NEW new \in Fds, AcceptPeer(c, new)
      PROVE  NothingLostOrRepeated'
  <2>1. CASE new >= MaxFds
    BY <1>1, <1>4, <2>1 DEF AcceptPeer, Passed, NothingLostOrRepeated, Open, Used
  <2>2. CASE ~ (new >= MaxFds)
    <3>1. /\ c \in Backlog /\ UNCHANGED fate
          /\ owner' = [owner EXCEPT ![new] = c]
          /\ peer' = [peer EXCEPT ![new] = Greeting.peer]
      BY <1>4, <2>2 DEF AcceptPeer
    <3>2. taken[c] = 0 /\ sent[c] = << >> /\ script[c] \in Seq(Byte)
      BY <3>1, SocketsAssumption DEF Backlog, LoopInv, SocketsInv, SocketsTypeOK, Untouched
    <3>3. Prefix(script[c], 0) = << >>
      BY <3>2 DEF Prefix
    <3> SUFFICES ASSUME NEW fd \in Fds, Open(fd)'
                 PROVE  Accounted(peer'[fd], Prefix(script'[owner'[fd]], taken'[owner'[fd]]),
                                  sent'[owner'[fd]])
      BY DEF NothingLostOrRepeated
    <3>4. CASE fd = new
      <4>1. owner'[fd] = c /\ peer'[fd] = Greeting.peer
        BY <3>1, <3>4 DEF LoopInv, TypeOK
      <4> QED BY <1>1, <3>2, <3>3, <4>1, ConnectedAccounted
    <3>5. CASE fd # new
      <4>1. owner'[fd] = owner[fd] /\ peer'[fd] = peer[fd]
        BY <3>1, <3>5 DEF LoopInv, TypeOK
      <4> QED BY <1>1, <3>1, <4>1 DEF Passed, NothingLostOrRepeated, Open, Used
    <3> QED BY <3>4, <3>5
  <2> QED BY <2>1, <2>2
<1> QED BY <1>2, <1>3, <1>4, Zenon DEF Accept, Passed

(* Nothing has passed, and nobody is connected, at the start.              *)
LEMMA PassedInit == Init => Passed
BY DEF Init, SocketsInit, Passed, NothingLostOrRepeated, GreetedFirst, Open, Used

(* Every step keeps the account.                                           *)
LEMMA PassedNext == LoopInv /\ Passed /\ [Next]_vars => Passed'
<1> SUFFICES ASSUME LoopInv, Passed, [Next]_vars PROVE Passed'
  OBVIOUS
<1>1. CASE UNCHANGED <<script, taken, sent, fate, owner, peer>>
  BY <1>1 DEF Passed, NothingLostOrRepeated, GreetedFirst, Open, Used
<1>2. CASE EpollWait
  BY <1>1, <1>2 DEF EpollWait, socketVars
<1>3. CASE Accept
  BY <1>3, PassedAccept
<1>4. ASSUME NEW fd \in Fds, HandleIn(fd) PROVE Passed'
  BY <1>4, PassedIn
<1>5. ASSUME NEW fd \in Fds, HandleOut(fd) PROVE Passed'
  BY <1>5, PassedOut
<1>6. ASSUME NEW c \in Clients, Client(c) PROVE Passed'
  BY <1>1, <1>6 DEF Client, serverVars, ClientStep, Connect, Deliver, HangUp, Reset, Drain
<1>7. CASE UNCHANGED vars
  BY <1>1, <1>7 DEF vars, socketVars, serverVars
<1> QED BY <1>2, <1>3, <1>4, <1>5, <1>6, <1>7, Zenon DEF Next, Server

(* Of every connection that is served, what has been sent and what is      *)
(* staged are together the answer to what has been taken, whatever the     *)
(* sizes of the pieces in which recv() and send() move the bytes: nothing  *)
(* is lost, repeated, or given to another client.                          *)
THEOREM AccountSafe == Spec => []NothingLostOrRepeated
<1>1. Passed => NothingLostOrRepeated
  BY DEF Passed
<1> QED BY <1>1, PassedInit, PassedNext, LoopSafe, PTL DEF Spec

-----------------------------------------------------------------------------
(* The server is an echo service.                                          *)

(* Every open connection has its descriptor, below both limits.            *)
Admitted ==
  /\ \A c \in Clients : link[c] = "open" => \E fd \in Fds : owner[fd] = c
  /\ \A fd \in Fds : Used(fd) => fd < fdLimit /\ fd < MaxFds

(* What the steps of the echo service follow from.  Admitted ties the      *)
(* number of connections to that of the descriptors in use.                *)
EchoInv == LoopInv /\ Passed /\ Admitted

(* Nobody is connected at the start.                                       *)
LEMMA AdmittedInit == Init => Admitted
BY DEF Init, SocketsInit, Admitted, Used

(* A handler closes no connection but that of its descriptor.              *)
LEMMA AdmittedRegister ==
  ASSUME LoopInv, Admitted, NEW fd \in Fds, Used(fd), NEW h, Register(fd, h), UNCHANGED fdLimit
  PROVE  Admitted'
<1>1. CASE UNCHANGED <<owner, link>>
  BY <1>1 DEF Admitted, Used
<1>2. CASE /\ owner' = [owner EXCEPT ![fd] = NoClient]
           /\ link' = [link EXCEPT ![owner[fd]] = "closed"]
  <2>1. /\ owner[fd] \in Clients /\ owner'[fd] = NoClient
        /\ \A other \in Fds \ {fd} : owner'[other] = owner[other]
    BY <1>2 DEF LoopInv, TypeOK, Used
  <2>2. ASSUME NEW c \in Clients, link'[c] = "open" PROVE \E other \in Fds : owner'[other] = c
    <3>1. c # owner[fd] /\ link[c] = "open"
      BY <1>2, <2>1, <2>2 DEF LoopInv, SocketsInv, SocketsTypeOK
    <3> QED BY <2>1, <3>1 DEF Admitted
  <2>3. ASSUME NEW other \in Fds, Used(other)' PROVE other < fdLimit' /\ other < MaxFds
    BY <2>1, <2>3 DEF Admitted, Used
  <2> QED BY <2>2, <2>3 DEF Admitted
<1> QED BY <1>1, <1>2 DEF Register

(* A client that is let in gets a descriptor below both limits.            *)
LEMMA AdmittedAccept ==
  ASSUME LoopInv, Admitted, Accept
  PROVE  Admitted'
<1>1. UNCHANGED fdLimit /\ fate \in Fate
  BY DEF Accept, LoopInv, TypeOK
<1>2. CASE LeftOut
  BY <1>1, <1>2 DEF LeftOut, Admitted, Used
<1>3. ASSUME NEW c \in Clients, NEW new \in Fds, LetIn(c, new) PROVE Admitted'
  <2>1. new < fdLimit /\ new < MaxFds /\ ~ Used(new)
    <3>1. new \in Nat /\ fdLimit \in Nat /\ MaxFds \in Nat /\ FirstFd \in Nat
      BY ListenerApart, EpollAssumption DEF LoopInv, TypeOK
    <3>2. new \in FirstFd..(fdLimit - 1) /\ ~ (new >= MaxFds) /\ ~ Used(new)
      BY <1>3 DEF LetIn, FreeFds, UsedFds
    <3> QED BY <3>1, <3>2
  <2>2. /\ owner'[new] = c
        /\ \A other \in Fds \ {new} : owner'[other] = owner[other]
    BY <1>3 DEF LetIn, LoopInv, TypeOK
  <2>3. ASSUME NEW d \in Clients, link'[d] = "open" PROVE \E fd \in Fds : owner'[fd] = d
    <3>1. CASE d = c
      BY <2>2, <3>1
    <3>2. CASE d # c
      <4>1. link[d] = "open" /\ d # NoClient
        BY <1>3, <2>3, <3>2, EpollAssumption DEF LetIn, LoopInv, SocketsInv, SocketsTypeOK
      <4>2. PICK fd \in Fds : owner[fd] = d
        BY <4>1 DEF Admitted
      <4> QED BY <2>1, <2>2, <4>1, <4>2 DEF Used
    <3> QED BY <3>1, <3>2
  <2>4. ASSUME NEW fd \in Fds, Used(fd)' PROVE fd < fdLimit' /\ fd < MaxFds
    BY <1>1, <2>1, <2>2, <2>4 DEF Admitted, Used
  <2> QED BY <2>3, <2>4 DEF Admitted
<1> QED BY <1>1, <1>2, <1>3, AcceptCases

(* Every step keeps it.                                                    *)
LEMMA AdmittedNext == LoopInv /\ Passed /\ Admitted /\ [Next]_vars => Admitted'
<1> SUFFICES ASSUME LoopInv, Passed, Admitted, [Next]_vars PROVE Admitted'
  OBVIOUS
<1>1. CASE UNCHANGED <<link, owner, fdLimit>>
  BY <1>1 DEF Admitted, Used
<1>2. CASE EpollWait
  BY <1>1, <1>2 DEF EpollWait, socketVars
<1>3. CASE Accept
  BY <1>3, AdmittedAccept
<1>4. ASSUME NEW fd \in Fds, HandleIn(fd) PROVE Admitted'
  BY <1>4, CallsIn, AdmittedRegister DEF Called
<1>5. ASSUME NEW fd \in Fds, HandleOut(fd) PROVE Admitted'
  BY <1>5, CallsOut, AdmittedRegister DEF Called
<1>6. ASSUME NEW c \in Clients, Client(c) PROVE Admitted'
  <2>1. UNCHANGED <<owner, fdLimit>> /\ \A d \in Clients : link'[d] = "open" => link[d] = "open"
    BY <1>6 DEF LoopInv, SocketsInv, SocketsTypeOK, Client, serverVars, ClientStep,
                Connect, Deliver, HangUp, Reset, Drain
  <2> QED BY <2>1 DEF Admitted, Used
<1>7. CASE UNCHANGED vars
  BY <1>1, <1>7 DEF vars, socketVars, serverVars
<1> QED BY <1>2, <1>3, <1>4, <1>5, <1>6, <1>7, Zenon DEF Next, Server

(* The startup code has got its own descriptors, and MAXFDS is beyond      *)
(* them: there is room for a number of connections.                        *)
RoomAtStart == \A limit \in FdLimits : FirstFd <= Lesser(limit, MaxFds)

(* What the service is made of: the sockets, and the limit its capacity    *)
(* comes from.                                                             *)
ServiceVars == <<script, link, arrived, fin, taken, sent, fdLimit>>

(* The service speaks of the same protocol.                                *)
LEMMA SameProtocol ==
  /\ Service!STAR = STAR
  /\ \A S : Service!Cardinality(S) = Cardinality(S)
  /\ \A s, n : Service!Prefix(s, n) = Prefix(s, n)
  /\ \A s : Service!Reply(s) = Reply(s)
<1>1. Service!STAR = STAR
  BY DEF Service!STAR, STAR
<1>2. ASSUME NEW S PROVE Service!Cardinality(S) = Cardinality(S)
  BY DEF Service!Cardinality, Cardinality
<1>3. ASSUME NEW s, NEW n PROVE Service!Prefix(s, n) = Prefix(s, n)
  BY DEF Service!Prefix, Prefix
<1>4. ASSUME NEW s PROVE Service!Echo(s) = Echo(s)
  BY DEF Service!Echo, Echo, Service!Cardinality, Cardinality, Service!Rank, Rank, Service!Bump, Bump,
         Service!Echoed, Echoed, Service!InMessage, InMessage, Service!CARET, CARET,
         Service!DOLLAR, DOLLAR
<1>5. ASSUME NEW s PROVE Service!Reply(s) = Reply(s)
  BY <1>1, <1>4 DEF Service!Reply, Reply
<1> QED BY <1>1, <1>2, <1>3, <1>5

(* A step that changes none of this is none of the service's.              *)
LEMMA Stutters ==
  ASSUME UNCHANGED ServiceVars, UNCHANGED fate
  PROVE  [Service!Next]_(Service!vars)
<1>1. UNCHANGED Service!vars
  BY DEF Service!vars, ServiceVars
<1> QED BY <1>1

(* The steps of a client are its steps there.                              *)
LEMMA ClientMaps ==
  ASSUME LoopInv, NEW c \in Clients, Client(c)
  PROVE  [Service!Next]_(Service!vars)
<1>1. UNCHANGED <<fate, fdLimit>> /\ ClientStep(c)
  BY DEF Client, serverVars
<1>2. script[c] \in Seq(Byte) /\ Len(script[c]) \in Nat /\ arrived[c] \in Nat
  BY SocketsAssumption DEF LoopInv, SocketsInv, SocketsTypeOK
<1>3. CASE Connect(c)
  <2>1. Service!Connect(c)
    BY <1>1, <1>3 DEF Connect, Service!Connect
  <2> QED BY <1>1, <2>1 DEF Service!Next, Service!Client
<1>4. CASE Deliver(c)
  <2>1. arrived[c] + 1 \in (arrived[c] + 1)..Len(script[c])
    BY <1>2, <1>4 DEF Deliver
  <2>2. Service!Deliver(c)
    BY <1>1, <1>4, <2>1 DEF Deliver, Service!Deliver
  <2> QED BY <1>1, <2>2 DEF Service!Next, Service!Client
<1>5. CASE HangUp(c)
  <2>1. Service!End(c, "fin")
    BY <1>1, <1>5 DEF HangUp, Linked, Service!End
  <2> QED BY <1>1, <2>1 DEF Service!Next, Service!Client
<1>6. CASE Reset(c)
  <2>1. Service!End(c, "rst")
    BY <1>1, <1>6 DEF Reset, Linked, Service!End
  <2> QED BY <1>1, <2>1 DEF Service!Next, Service!Client
<1>7. CASE Drain(c)
  BY <1>1, <1>7, Stutters DEF Drain, ServiceVars
<1> QED BY <1>1, <1>3, <1>4, <1>5, <1>6, <1>7 DEF ClientStep

(* There are as many connections as descriptors in use.                    *)
LEMMA ConnectionsCounted ==
  ASSUME LoopInv, Admitted
  PROVE  /\ IsFiniteSet(UsedFds) /\ Cardinality(Service!Connected) \in Nat
         /\ Cardinality(UsedFds) = Cardinality(Service!Connected)
<1> DEFINE open == {c \in Clients : link[c] = "open"}
<1>1. IsFiniteSet(open)
  BY SocketsAssumption, FS_Subset
<1>2. \A fd \in UsedFds : owner[fd] \in open
  BY DEF UsedFds, Used, LoopInv, TypeOK, Owners
<1>3. \A fd, other \in UsedFds : owner[fd] = owner[other] => fd = other
  BY DEF UsedFds, LoopInv, Owners
<1>4. \A c \in open : \E fd \in UsedFds : owner[fd] = c
  BY EpollAssumption DEF UsedFds, Used, Admitted
<1>5. Service!Connected = open
  BY DEF Service!Connected
<1> HIDE DEF open
<1> QED BY <1>1, <1>2, <1>3, <1>4, <1>5, SameCount

(* A server that fails when all the descriptors below a limit are in use   *)
(* had no room left.                                                       *)
LEMMA FullMaps ==
  ASSUME LoopInv, Admitted, NEW limit \in Nat, Lesser(fdLimit, MaxFds) <= limit,
         FirstFd..(limit - 1) \subseteq UsedFds, Backlog # {},
         UNCHANGED ServiceVars, fate = "running", fate' # "running"
  PROVE  [Service!Next]_(Service!vars)
<1> DEFINE room == Lesser(fdLimit, MaxFds)
           open == Cardinality(Service!Connected)
<1>1. room \in Nat /\ FirstFd \in Nat
  BY EpollAssumption DEF LoopInv, TypeOK, Lesser
<1>2. limit - FirstFd <= open /\ open \in Nat
  BY <1>1, ConnectionsCounted, AllUsed
<1>3. open >= room - FirstFd
  <2>1. room <= limit
    OBVIOUS
  <2> HIDE DEF room, open
  <2> QED BY <1>1, <1>2, <2>1
<1>4. Service!Cardinality(Service!Connected) >= Lesser(fdLimit, MaxFds) - FirstFd
  BY <1>3, SameProtocol
<1>5. Service!Waiting # {}
  BY DEF Service!Waiting, Backlog
<1>6. (fate = "running")' = FALSE
  OBVIOUS
<1>7. Service!Fail
  BY <1>4, <1>5, <1>6 DEF Service!Fail, ServiceVars
<1> QED BY <1>7 DEF Service!Next, ServiceVars

(* A client is let in only while there is room.                            *)
LEMMA AdmitMaps ==
  ASSUME LoopInv, Admitted, RoomAtStart, NEW c \in Clients, NEW new \in Fds, LetIn(c, new),
         fate = "running", UNCHANGED <<script, arrived, fin, taken, sent, fdLimit>>
  PROVE  [Service!Next]_(Service!vars)
<1> DEFINE room == Lesser(fdLimit, MaxFds)
           open == Cardinality(Service!Connected)
<1>1. room \in Nat /\ FirstFd \in Nat /\ fdLimit \in Nat /\ MaxFds \in Nat /\ Fds \subseteq Nat
  BY EpollAssumption, ListenerApart DEF LoopInv, TypeOK, Lesser
<1>2. \A fd \in Fds : fd >= FirstFd
  BY EpollAssumption DEF Fds
<1>3. \A fd \in Nat : fd >= FirstFd /\ fd < fdLimit /\ fd < MaxFds => fd \in FirstFd..(room - 1)
  BY <1>1 DEF Lesser
<1>4. new \notin UsedFds /\ new < fdLimit /\ new < MaxFds
  BY <1>1 DEF LetIn, FreeFds
<1> HIDE DEF room
<1>5. UsedFds \subseteq FirstFd..(room - 1) /\ new \in FirstFd..(room - 1)
  BY <1>1, <1>2, <1>3, <1>4 DEF Admitted, UsedFds
<1>6. open < room - FirstFd
  BY <1>1, <1>4, <1>5, ConnectionsCounted, OneIsFree
<1>7. Service!Cardinality(Service!Connected) < Lesser(fdLimit, MaxFds) - FirstFd
  BY <1>6, SameProtocol DEF room
<1>8. sent' = [sent EXCEPT ![c] = << >>]
  <2>1. sent[c] = << >> /\ sent \in [Clients -> Seq(Byte)]
    BY DEF LetIn, Backlog, LoopInv, SocketsInv, SocketsTypeOK, Untouched
  <2> QED BY <2>1
<1>9. \E words \in {<< >>, << Service!STAR >>} : sent' = [sent EXCEPT ![c] = words]
  BY <1>8
<1>10. /\ link[c] = "backlog" /\ link' = [link EXCEPT ![c] = "open"]
       /\ (fate = "running")' = (fate = "running")
  BY DEF LetIn, Backlog
<1>11. Service!Admit(c)
  BY <1>7, <1>9, <1>10 DEF Service!Admit
<1> QED BY <1>11 DEF Service!Next

(* accept() is a step of the service, or none.                             *)
LEMMA AcceptMaps ==
  ASSUME LoopInv, Admitted, RoomAtStart, Accept
  PROVE  [Service!Next]_(Service!vars)
<1>1. /\ fate = "running"
      /\ UNCHANGED <<script, arrived, fin, taken, sent, drained, fdLimit>>
  BY DEF Accept
<1>2. CASE AcceptNobody
  BY <1>1, <1>2, Stutters DEF AcceptNobody, ServiceVars
<1>3. fdLimit \in Nat /\ MaxFds \in Nat /\ FirstFd \in Nat /\ Fds \subseteq Nat
  BY EpollAssumption, ListenerApart DEF LoopInv, TypeOK
<1>4. CASE AcceptRefused
  <2>1. FirstFd..(fdLimit - 1) \subseteq UsedFds /\ Backlog # {}
    BY <1>4 DEF AcceptRefused, FreeFds
  <2>2. UNCHANGED ServiceVars /\ fate' # "running"
    BY <1>1, <1>4 DEF AcceptRefused, ServiceVars
  <2>3. Lesser(fdLimit, MaxFds) <= fdLimit
    BY <1>3 DEF Lesser
  <2> QED BY <1>1, <1>3, <2>1, <2>2, <2>3, FullMaps
<1>5. ASSUME NEW c \in Clients, NEW new \in Fds, AcceptPeer(c, new)
      PROVE  [Service!Next]_(Service!vars)
  <2>1. /\ c \in Backlog /\ new \in FreeFds /\ new \in Nat
        /\ \A other \in FreeFds : new <= other
    BY <1>3, <1>5 DEF AcceptPeer
  <2>2. CASE new >= MaxFds
    <3>1. UNCHANGED ServiceVars /\ fate' # "running" /\ Backlog # {}
      BY <1>1, <1>5, <2>1, <2>2 DEF AcceptPeer, ServiceVars
    <3>2. new < fdLimit
      BY <1>3, <2>1 DEF FreeFds
    <3>3. FirstFd..(MaxFds - 1) \subseteq UsedFds
      <4> SUFFICES ASSUME NEW fd \in FirstFd..(MaxFds - 1) PROVE fd \in UsedFds
        OBVIOUS
      <4>1. fd \in FirstFd..(fdLimit - 1) /\ ~ (new <= fd)
        BY <1>3, <2>1, <2>2, <3>2
      <4> QED BY <2>1, <4>1 DEF FreeFds
    <3>4. Lesser(fdLimit, MaxFds) <= MaxFds
      BY <1>3 DEF Lesser
    <3> QED BY <1>1, <1>3, <3>1, <3>3, <3>4, FullMaps
  <2>3. CASE ~ (new >= MaxFds)
    <3>1. LetIn(c, new)
      BY <1>5, <2>3 DEF AcceptPeer, LetIn
    <3> QED BY <1>1, <3>1, AdmitMaps
  <2> QED BY <2>2, <2>3
<1> QED BY <1>2, <1>4, <1>5, Zenon DEF Accept

(* A handler's call is a step of the service, or none.                     *)
LEMMA HandlerMaps ==
  ASSUME LoopInv, NEW fd \in Fds, NEW c \in Clients, NEW p, NEW h, Called(fd, c, p, h),
         Outcome(c, h)
  PROVE  [Service!Next]_(Service!vars)
<1>1. /\ fate = "running" /\ fate' = h.fate /\ link[c] = "open" /\ c = owner[fd]
      /\ UNCHANGED <<script, arrived, fin, fdLimit>>
  BY DEF Called, Register
<1>2. CASE h.fate # "running"
  <2>1. UNCHANGED <<taken, sent, link>> /\ fin[c] = "rst"
    BY <1>2 DEF Outcome, Called, Register
  <2>2. (fate = "running")' = FALSE
    BY <1>1, <1>2
  <2>3. Service!Fail
    BY <1>1, <2>1, <2>2 DEF Service!Fail
  <2> QED BY <1>1, <2>3 DEF Service!Next
<1>3. CASE h.fate = "running" /\ h.status = fd_status_NORW
  <2>1. /\ link' = [link EXCEPT ![c] = "closed"]
        /\ fin[c] = "fin" /\ taken[c] = arrived[c] /\ UNCHANGED <<taken, sent>>
        /\ sent[c] = Reply(Prefix(script[c], taken[c]))
    BY <1>1, <1>3 DEF Outcome, Called, Register
  <2>2. sent[c] = Service!Owed(c)
    BY <2>1, SameProtocol DEF Service!Owed
  <2>3. (fate = "running")' = (fate = "running")
    BY <1>1, <1>3
  <2>4. Service!Close(c)
    BY <1>1, <2>1, <2>2, <2>3 DEF Service!Close
  <2> QED BY <1>1, <2>4 DEF Service!Next
<1>4. CASE h.fate = "running" /\ h.status # fd_status_NORW
  <2>1. UNCHANGED link
    BY <1>4 DEF Called, Register
  <2>2. (fate = "running")' = (fate = "running")
    BY <1>1, <1>4
  <2>3. \E n \in taken[c]..arrived[c] :
         /\ n > taken[c] => sent[c] # << >>
         /\ taken' = [taken EXCEPT ![c] = n]
         /\ \E m \in Len(sent[c])..Len(Service!Reply(Service!Prefix(script[c], n))) :
              /\ Service!Prefix(Service!Reply(Service!Prefix(script[c], n)), Len(sent[c])) = sent[c]
              /\ sent' = [sent EXCEPT
                           ![c] = Service!Prefix(Service!Reply(Service!Prefix(script[c], n)), m)]
    BY SameProtocol, Zenon DEF Outcome, Conversing
  <2>4. Service!Converse(c)
    BY <1>1, <2>1, <2>2, <2>3 DEF Service!Converse
  <2> QED BY <1>1, <2>4 DEF Service!Next
<1> QED BY <1>2, <1>3, <1>4

(* Every step is one of the service, or none.                              *)
LEMMA StepMaps ==
  ASSUME RoomAtStart, EchoInv, LoopInv', [Next]_vars
  PROVE  [Service!Next]_(Service!vars)
<1>1. LoopInv /\ Passed /\ Admitted /\ SocketsInv /\ SocketsTypeOK /\ SocketsTypeOK'
  BY DEF EchoInv, LoopInv, SocketsInv
<1>2. CASE EpollWait
  BY <1>2, Stutters DEF EpollWait, socketVars, ServiceVars
<1>3. CASE Accept
  BY <1>1, <1>3, AcceptMaps
<1>4. ASSUME NEW fd \in Fds, HandleIn(fd) PROVE [Service!Next]_(Service!vars)
  <2>1. PICK c, p, h : \E got \in recv(c, RecvSize) :
          /\ Called(fd, c, p, h)
          /\ h = on_peer_ready_recv(p, got)
          /\ taken' = IF CallsRecv(p)
                      THEN [taken EXCEPT ![c] = @ + Len(got.bytes)] ELSE taken
          /\ UNCHANGED sent
    BY <1>1, <1>4, CallsIn
  <2>2. /\ c \in Clients /\ GoodPeer(p) /\ AccountOf(c, p)
        /\ UNCHANGED <<script, arrived, fin, sent>>
    BY <2>1 DEF Called
  <2>3. Outcome(c, h)
    BY <1>1, <2>1, <2>2, RecvOutcome
  <2> QED BY <1>1, <2>1, <2>2, <2>3, HandlerMaps
<1>5. ASSUME NEW fd \in Fds, HandleOut(fd) PROVE [Service!Next]_(Service!vars)
  <2>1. PICK c, p, h, answer :
          /\ Called(fd, c, p, h) /\ Undrained(p)
          /\ answer = send(c, Len(Staged(p)))
          /\ h = on_peer_ready_send(p, answer)
          /\ sent' = [sent EXCEPT ![c] = @ \o Prefix(Staged(p), answer.nsent)]
          /\ UNCHANGED taken
    BY <1>1, <1>5, CallsOut
  <2>2. /\ c \in Clients /\ GoodPeer(p) /\ AccountOf(c, p)
        /\ UNCHANGED <<script, arrived, fin, taken>>
        /\ sent[c] = << >> => taken[c] = 0
    BY <2>1 DEF Called
  <2>3. Outcome(c, h)
    BY <1>1, <2>1, <2>2, SendOutcome
  <2> QED BY <1>1, <2>1, <2>2, <2>3, HandlerMaps
<1>6. ASSUME NEW c \in Clients, Client(c) PROVE [Service!Next]_(Service!vars)
  BY <1>1, <1>6, ClientMaps
<1>7. CASE UNCHANGED vars
  BY <1>7, Stutters DEF vars, socketVars, serverVars, ServiceVars
<1> QED BY <1>2, <1>3, <1>4, <1>5, <1>6, <1>7, Zenon DEF Next, Server

(* The server is an echo service with room for as many connections as      *)
(* there are descriptors: it hears and says what it should in the order it *)
(* should, closes a connection only when all is said, and fails only for a *)
(* client that was reset or for one too many.                              *)
THEOREM Refinement ==
  ASSUME RoomAtStart
  PROVE  Spec => ImplementsEchoService
<1>1. Init => Service!Init
  <2> SUFFICES ASSUME Init PROVE Service!Init
    OBVIOUS
  <2>1. Lesser(fdLimit, MaxFds) - FirstFd \in Nat
    BY EpollAssumption DEF Init, RoomAtStart, Lesser
  <2>2. (fate = "running") = TRUE
    BY DEF Init
  <2> QED BY <2>1, <2>2 DEF Init, SocketsInit, Service!Init, Service!ClientsInit
<1>2. Init => EchoInv
  BY LoopInit, PassedInit, AdmittedInit DEF EchoInv
<1>3. EchoInv /\ [Next]_vars => EchoInv'
  BY LoopNext, PassedNext, AdmittedNext DEF EchoInv
<1>4. EchoInv /\ EchoInv' /\ [Next]_vars => [Service!Next]_(Service!vars)
  BY StepMaps DEF EchoInv
<1> QED BY <1>1, <1>2, <1>3, <1>4, PTL DEF Spec, ImplementsEchoService, Service!Spec
=============================================================================
