------------------------- MODULE SelectServerProofs -------------------------
(***************************************************************************)
(* Theorems about select_server.c, for any number of clients, any scripts, *)
(* any buffer sizes and any limits on the descriptors.  The handlers are   *)
(* those of epoll_server.c and so are the facts about them; what is new is *)
(* the bookkeeping of the main loop: the sets, their copies and the count. *)
(***************************************************************************)
EXTENDS SelectServer, ConnectionProofs

(* A client is served on at most one descriptor, over an open connection.  *)
Owners ==
  /\ \A fd \in Fds : Used(fd) => link[owner[fd]] = "open"
  /\ \A fd, other \in Fds : Used(fd) /\ owner[fd] = owner[other] => fd = other

GoodPeers == \A fd \in Fds : Used(fd) => GoodPeer(peer[fd])

(* The copies can be counted.                                              *)
CopiesAreFinite == IsFiniteSet(readfds) /\ IsFiniteSet(writefds)

(* The inductive invariant of the main loop.  The bits the walk has still  *)
(* to meet tell which handler it calls next; that this handler has         *)
(* something to do, and a connection to do it for, follows from the sets   *)
(* the bits were copied from.                                              *)
LoopInv ==
  /\ TypeOK
  /\ SocketsInv
  /\ Owners
  /\ GoodPeers
  /\ CopiesAreFinite
  /\ SetsMatchBuffers
  /\ WalkMeetsWhatSelectReported

-----------------------------------------------------------------------------
(* The descriptor that listens is not one of a connection's.               *)
LEMMA ListenerApart == Fds \subseteq Nat /\ Listener \notin Fds /\ Listener \in Int
<1>1. \A s \in Settings : /\ FirstFd..(s.fdLimit - 1) \subseteq Nat
                           /\ Listener \notin FirstFd..(s.fdLimit - 1)
  BY SelectAssumption DEF Listener
<1>2. Listener \in Int
  BY SelectAssumption DEF Listener
<1> QED BY <1>1, <1>2, Zenon DEF Fds

(* FD_SET and FD_CLR make a descriptor wait for what the handler has       *)
(* answered and leave the others as they are.                              *)
LEMMA UpdateSets ==
  ASSUME TypeOK, NEW fd \in Fds, NEW status \in SUBSET {"in", "out"}, Update(fd, status)
  PROVE  /\ Asked(fd)' = status
         /\ \A other \in Fds \ {fd} : Asked(other)' = Asked(other)
         /\ readfd_set' \in SUBSET AllFds /\ writefd_set' \in SUBSET Fds
         /\ readfd_set \ {fd} \subseteq readfd_set'
         /\ writefd_set \ {fd} \subseteq writefd_set'
<1>1. readfd_set \in SUBSET AllFds /\ writefd_set \in SUBSET Fds
  BY DEF TypeOK
<1>2. \A other : other # fd => /\ other \in readfd_set' <=> other \in readfd_set
                               /\ other \in writefd_set' <=> other \in writefd_set
  BY DEF Update
<1>3. /\ fd \in readfd_set' <=> "in" \in status
      /\ fd \in writefd_set' <=> "out" \in status
  BY DEF Update
<1>4. Asked(fd)' = status
  BY <1>3 DEF Asked
<1>5. \A other \in Fds \ {fd} : Asked(other)' = Asked(other)
  BY <1>2 DEF Asked
<1>6. readfd_set' \in SUBSET AllFds /\ writefd_set' \in SUBSET Fds
  BY <1>1, <1>2 DEF AllFds
<1> QED BY <1>2, <1>4, <1>5, <1>6

(* The loop starts in a state of the invariant.                            *)
LEMMA LoopInit == Init => LoopInv
<1> SUFFICES ASSUME Init PROVE LoopInv
  OBVIOUS
<1>1. SocketsInv
  BY SocketsInitInv DEF Init
<1>2. TypeOK
  <2>1. BlankPeer \in PeerState
    BY DEF BlankPeer, PeerState, InternalState
  <2> QED BY <1>1, <2>1 DEF Init, TypeOK, SocketsInv, Fate, AllFds
<1>3. \A fd \in Fds : ~ Used(fd) /\ Asked(fd) = {}
  BY ListenerApart DEF Init, Used, Asked
<1>4. CopiesAreFinite /\ WalkMeetsWhatSelectReported
  BY FS_EmptySet DEF Init, CopiesAreFinite, WalkMeetsWhatSelectReported
<1> QED BY <1>1, <1>2, <1>3, <1>4 DEF LoopInv, Owners, GoodPeers, SetsMatchBuffers

-----------------------------------------------------------------------------
(* A client's step does not touch the server, nor an open connection.      *)
LEMMA LoopClient ==
  ASSUME LoopInv, NEW c \in Clients, Client(c)
  PROVE  LoopInv'
<1>1. SocketsInv'
  BY ClientStepInv DEF LoopInv, Client
<1>2. UNCHANGED serverVars
  BY DEF Client
<1>3. \A d \in Clients : link[d] = "open" => link'[d] = "open"
  BY DEF LoopInv, SocketsInv, SocketsTypeOK, Client, ClientStep,
         Connect, Deliver, HangUp, Reset, Drain
<1>4. TypeOK'
  BY <1>1, <1>2 DEF LoopInv, TypeOK, SocketsInv, serverVars, loopVars
<1>5. Owners'
  BY <1>2, <1>3 DEF LoopInv, Owners, TypeOK, Used, serverVars
<1>6. (GoodPeers /\ SetsMatchBuffers)'
  BY <1>2 DEF LoopInv, GoodPeers, SetsMatchBuffers, Used, Asked, serverVars, loopVars
<1>7. (CopiesAreFinite /\ WalkMeetsWhatSelectReported)'
  BY <1>2 DEF LoopInv, CopiesAreFinite, WalkMeetsWhatSelectReported, Used, serverVars, loopVars
<1> QED BY <1>1, <1>4, <1>5, <1>6, <1>7 DEF LoopInv

(* select() copies bits of the sets and counts them.                       *)
LEMMA LoopSelect ==
  ASSUME LoopInv, select
  PROVE  LoopInv'
<1>1. UNCHANGED <<socketVars, setting, fate, owner, peer, readfd_set, writefd_set, fdset_max>>
  BY DEF select
<1>2. fate = "running" /\ nready' = Cardinality(readfds') + Cardinality(writefds')
  BY DEF select
<1>3. /\ readfds' \subseteq readfd_set /\ writefds' \subseteq writefd_set
      /\ \A fd \in readfds' \union writefds' : fd \in AllFds /\ fd <= fdset_max
  BY DEF select, LoopInv, TypeOK, AllFds
<1>4. AllFds \subseteq Int /\ \A fd \in AllFds : fd >= Listener
  <2>1. \A s \in Settings : \A fd \in FirstFd..(s.fdLimit - 1) : fd >= Listener
    BY SelectAssumption DEF Listener
  <2>2. \A fd \in Fds : fd >= Listener
    BY <2>1 DEF Fds
  <2>3. Listener >= Listener
    BY ListenerApart
  <2> QED BY <2>2, <2>3, ListenerApart DEF AllFds
<1>5. CopiesAreFinite'
  <2>1. fdset_max \in Int
    BY <1>4 DEF LoopInv, TypeOK
  <2>2. IsFiniteSet(Listener..fdset_max)
    BY <2>1, ListenerApart, FS_Interval
  <2>3. \A fd \in readfds' \union writefds' : fd \in Int /\ Listener <= fd /\ fd <= fdset_max
    BY <1>3, <1>4, ListenerApart
  <2>4. \A fd \in readfds' \union writefds' : fd \in Listener..fdset_max
    BY <2>1, <2>3, ListenerApart
  <2>5. /\ readfds' \in SUBSET (Listener..fdset_max)
        /\ writefds' \in SUBSET (Listener..fdset_max)
    BY <2>4, Zenon
  <2> QED BY <2>2, <2>5, FS_Subset, Zenon DEF CopiesAreFinite
<1>6. SocketsInv'
  BY <1>1 DEF LoopInv, SocketsInv, SocketsTypeOK, KernelHolds, Untouched, socketVars
<1>7. nready' \in Nat
  <2>1. Cardinality(readfds') \in Nat /\ Cardinality(writefds') \in Nat
    BY <1>5, FS_CardinalityType DEF CopiesAreFinite
  <2> QED BY <1>2, <2>1
<1>8. TypeOK'
  BY <1>1, <1>3, <1>6, <1>7 DEF LoopInv, TypeOK, SocketsInv
<1>9. WalkMeetsWhatSelectReported'
  <2>1. \A fd \in (readfds' \union writefds') \ {Listener} : Used(fd)
    <3> SUFFICES ASSUME NEW fd \in (readfds' \union writefds') \ {Listener}
                 PROVE  Used(fd)
      OBVIOUS
    <3>1. fd \in Fds /\ Asked(fd) # {}
      BY <1>3 DEF AllFds, Asked
    <3> QED BY <1>2, <3>1 DEF LoopInv, SetsMatchBuffers
  <2> QED BY <1>1, <1>2, <1>3, <2>1 DEF WalkMeetsWhatSelectReported, Used
<1>10. (Owners /\ GoodPeers /\ SetsMatchBuffers)'
  BY <1>1 DEF LoopInv, Owners, GoodPeers, SetsMatchBuffers, Used, Asked, socketVars
<1> QED BY <1>5, <1>6, <1>8, <1>9, <1>10 DEF LoopInv

-----------------------------------------------------------------------------
(* What accept() comes to: a client is let in, or the connections stay as  *)
(* they are.                                                               *)
LetIn(c, fd) ==
  /\ c \in Backlog /\ fd \in FreeFds /\ ~ TooBig(fd) /\ ~ (fd >= setting.MaxFds)
  /\ link' = [link EXCEPT ![c] = "open"]
  /\ owner' = [owner EXCEPT ![fd] = c]
  /\ peer' = [peer EXCEPT ![fd] = Greeting.peer]
  /\ Update(fd, Greeting.status)
  /\ fdset_max' = IF fd > fdset_max THEN fd ELSE fdset_max
  /\ UNCHANGED fate
LeftOut ==
  /\ UNCHANGED <<link, owner, peer, readfd_set, writefd_set, fdset_max>>
  /\ fate' \in Fate

(* These are all the cases of Accept.                                      *)
LEMMA AcceptCases ==
  ASSUME fate \in Fate, Accept
  PROVE  LeftOut \/ \E c \in Clients, fd \in Fds : LetIn(c, fd)
<1>1. CASE AcceptNobody
  BY <1>1 DEF AcceptNobody, LeftOut
<1>2. CASE AcceptRefused
  BY <1>2 DEF AcceptRefused, LeftOut, Fate
<1>3. ASSUME NEW c \in Clients, NEW fd \in Fds, AcceptPeer(c, fd)
      PROVE  LeftOut \/ LetIn(c, fd)
  BY <1>3 DEF AcceptPeer, LeftOut, LetIn, Fate
<1>4. AcceptNobody \/ AcceptRefused \/ \E c \in Clients, fd \in Fds : AcceptPeer(c, fd)
  BY Zenon DEF Accept
<1> QED BY <1>1, <1>2, <1>3, <1>4, Zenon

(* The bit of the listener is met and counted.                             *)
LEMMA ListenerMet ==
  ASSUME LoopInv, fate = "running", WalkMeets(Listener),
         readfds' = readfds \ {Listener}, nready' = nready - 1, UNCHANGED writefds
  PROVE  /\ nready' \in Nat /\ CopiesAreFinite'
         /\ nready' = Cardinality(readfds') + Cardinality(writefds')
<1>1. /\ Listener \in readfds \union writefds /\ Listener \notin writefds
      /\ CopiesAreFinite /\ nready = Cardinality(readfds) + Cardinality(writefds)
  BY ListenerApart DEF LoopInv, TypeOK, WalkMeets, Left, WalkMeetsWhatSelectReported
<1>2. /\ IsFiniteSet(readfds') /\ Cardinality(readfds') = Cardinality(readfds) - 1
  BY <1>1, FS_RemoveElement DEF CopiesAreFinite
<1>3. /\ Cardinality(readfds') \in Nat /\ Cardinality(readfds) \in Nat
      /\ Cardinality(writefds) \in Nat
  BY <1>1, <1>2, FS_CardinalityType DEF CopiesAreFinite
<1> QED BY <1>1, <1>2, <1>3 DEF CopiesAreFinite

(* A connection is accepted on a descriptor the walk does not wait for.    *)
LEMMA LoopAccept ==
  ASSUME LoopInv, Accept
  PROVE  LoopInv'
<1>1. /\ fate = "running"
      /\ WalkMeets(Listener)
      /\ readfds' = readfds \ {Listener}
      /\ nready' = nready - 1
      /\ UNCHANGED <<script, arrived, fin, taken, sent, drained, setting, writefds>>
  BY DEF Accept
<1>2. /\ nready' \in Nat /\ CopiesAreFinite'
      /\ nready' = Cardinality(readfds') + Cardinality(writefds')
  BY <1>1, ListenerMet
<1>3. CASE LeftOut
  <2> USE DEF LeftOut
  <2>1. SocketsInv'
    BY <1>1, <1>3 DEF LoopInv, SocketsInv, SocketsTypeOK, KernelHolds, Untouched
  <2>2. TypeOK'
    BY <1>1, <1>2, <1>3, <2>1 DEF LoopInv, TypeOK, SocketsInv
  <2>3. (Owners /\ GoodPeers)'
    BY <1>3 DEF LoopInv, Owners, GoodPeers, Used
  <2>4. SetsMatchBuffers'
    BY <1>1, <1>3 DEF LoopInv, SetsMatchBuffers, Used, Asked
  <2>5. WalkMeetsWhatSelectReported'
    BY <1>1, <1>2, <1>3 DEF LoopInv, WalkMeetsWhatSelectReported, Used
  <2> QED BY <1>2, <2>1, <2>2, <2>3, <2>4, <2>5 DEF LoopInv
<1>4. CASE \E c \in Clients, fd \in Fds : LetIn(c, fd)
  <2>1. PICK c \in Clients, new \in Fds : LetIn(c, new)
    BY <1>4
  <2>2. link[c] = "backlog" /\ ~ Used(new)
    BY <2>1 DEF LetIn, Backlog, FreeFds
  <2>3. c # NoClient /\ \A fd \in Fds : Used(fd) => owner[fd] # c
    BY <2>2, SelectAssumption DEF LoopInv, Owners
  <2>4. Greeting.peer \in PeerState
    BY ConnectedGood DEF GoodPeer
  <2>5. SocketsInv'
    BY <1>1, <2>1 DEF LetIn, LoopInv, SocketsInv, SocketsTypeOK, LinkState, KernelHolds, Untouched
  <2>6. /\ Asked(new)' = Greeting.status
        /\ \A fd \in Fds \ {new} : Asked(fd)' = Asked(fd)
        /\ readfd_set' \in SUBSET AllFds /\ writefd_set' \in SUBSET Fds
        /\ readfd_set \ {new} \subseteq readfd_set'
        /\ writefd_set \ {new} \subseteq writefd_set'
    BY <2>1, UpdateSets, ConnectedGood DEF LetIn, LoopInv
  <2>7. \A fd \in Fds \ {new} : owner'[fd] = owner[fd] /\ peer'[fd] = peer[fd]
    BY <2>1 DEF LetIn, LoopInv, TypeOK
  <2>8. owner'[new] = c /\ peer'[new] = Greeting.peer
    BY <2>1 DEF LetIn, LoopInv, TypeOK
  <2>9. /\ link'[c] = "open"
        /\ \A d \in Clients : link[d] = "open" => link'[d] = "open"
    BY <2>1 DEF LetIn, LoopInv, SocketsInv, SocketsTypeOK
  <2>10. /\ fdset_max' \in AllFds
         /\ \A fd \in Fds : fd <= fdset_max => fd <= fdset_max'
         /\ new <= fdset_max'
    <3>1. fdset_max \in AllFds /\ fdset_max \in Int
      BY ListenerApart DEF LoopInv, TypeOK, AllFds
    <3>2. fdset_max' = IF new > fdset_max THEN new ELSE fdset_max
      BY <2>1 DEF LetIn
    <3> QED BY <3>1, <3>2, ListenerApart DEF AllFds
  <2>11. TypeOK'
    <3>1. /\ owner' \in [Fds -> Clients \union {NoClient}]
          /\ peer' \in [Fds -> PeerState]
          /\ readfds' \in SUBSET AllFds
      BY <1>1, <2>1, <2>4 DEF LetIn, LoopInv, TypeOK
    <3> QED BY <1>1, <1>2, <2>1, <2>5, <2>6, <2>10, <3>1 DEF LetIn, LoopInv, TypeOK, SocketsInv
  <2>12. Owners'
    BY <2>3, <2>7, <2>8, <2>9 DEF LoopInv, TypeOK, Owners, Used
  <2>13. GoodPeers'
    BY <2>3, <2>7, <2>8, ConnectedGood DEF LoopInv, GoodPeers, Used
  <2>14. SetsMatchBuffers'
    <3> SUFFICES ASSUME NEW fd \in Fds
                 PROVE  IF Used(fd)'
                          THEN WaitsForTheRightEvent(peer'[fd], Asked(fd)') /\ fd <= fdset_max'
                          ELSE Asked(fd)' = {}
      BY DEF SetsMatchBuffers
    <3>1. CASE fd = new
      BY <2>6, <2>8, <2>10, <3>1, <2>3, ConnectedGood DEF Used
    <3>2. CASE fd # new
      BY <1>1, <2>6, <2>7, <2>10, <3>2 DEF LoopInv, SetsMatchBuffers, Used
    <3> QED BY <3>1, <3>2
  <2>15. WalkMeetsWhatSelectReported'
    <3>1. \A fd \in (readfds \union writefds) \ {Listener} : fd # new /\ fd \in Fds /\ Used(fd)
      BY <1>1, <2>2 DEF LoopInv, WalkMeetsWhatSelectReported, Used
    <3>2. Listener # new
      BY ListenerApart
    <3>3. readfds' \subseteq readfd_set' /\ writefds' \subseteq writefd_set'
      BY <1>1, <2>6, <3>1, <3>2 DEF LoopInv, TypeOK, WalkMeetsWhatSelectReported
    <3>4. \A fd \in (readfds' \union writefds') \ {Listener} : Used(fd)'
      BY <1>1, <2>7, <3>1 DEF Used
    <3> QED BY <1>2, <3>3, <3>4 DEF WalkMeetsWhatSelectReported
  <2> QED BY <1>2, <2>5, <2>11, <2>12, <2>13, <2>14, <2>15 DEF LoopInv
<1>5. fate \in Fate
  BY DEF LoopInv, TypeOK
<1> QED BY <1>3, <1>4, <1>5, AcceptCases, Zenon

-----------------------------------------------------------------------------
(* The bit the walk has met is taken out of the copy it was found in; the  *)
(* other copy does not have it.                                            *)
Met(fd) ==
  \/ /\ fd \in readfds /\ fd \notin writefds
     /\ readfds' = readfds \ {fd} /\ UNCHANGED writefds
  \/ /\ fd \in writefds /\ fd \notin readfds
     /\ writefds' = writefds \ {fd} /\ UNCHANGED readfds

(* A bit that is met is counted once.                                      *)
LEMMA BitMet ==
  ASSUME LoopInv, fate = "running", NEW fd \in Fds, Met(fd), nready' = nready - 1
  PROVE  /\ nready' \in Nat /\ CopiesAreFinite'
         /\ nready' = Cardinality(readfds') + Cardinality(writefds')
<1>1. CopiesAreFinite /\ nready = Cardinality(readfds) + Cardinality(writefds)
  BY DEF LoopInv, WalkMeetsWhatSelectReported
<1>2. Cardinality(readfds) \in Nat /\ Cardinality(writefds) \in Nat
  BY <1>1, FS_CardinalityType DEF CopiesAreFinite
<1>3. CASE fd \in readfds /\ readfds' = readfds \ {fd} /\ UNCHANGED writefds
  <2>1. IsFiniteSet(readfds') /\ Cardinality(readfds') = Cardinality(readfds) - 1
    BY <1>1, <1>3, FS_RemoveElement DEF CopiesAreFinite
  <2>2. Cardinality(readfds') \in Nat
    BY <2>1, FS_CardinalityType
  <2> QED BY <1>1, <1>2, <1>3, <2>1, <2>2 DEF CopiesAreFinite
<1>4. CASE fd \in writefds /\ writefds' = writefds \ {fd} /\ UNCHANGED readfds
  <2>1. IsFiniteSet(writefds') /\ Cardinality(writefds') = Cardinality(writefds) - 1
    BY <1>1, <1>4, FS_RemoveElement DEF CopiesAreFinite
  <2>2. Cardinality(writefds') \in Nat
    BY <2>1, FS_CardinalityType
  <2> QED BY <1>1, <1>2, <1>4, <2>1, <2>2 DEF CopiesAreFinite
<1> QED BY <1>3, <1>4 DEF Met

(* What the loop does with a handler's answer keeps the invariant,         *)
(* provided the sockets stay well.                                         *)
LEMMA LoopAnswered ==
  ASSUME LoopInv, fate = "running", NEW fd \in Fds, Used(fd),
         NEW h, GoodAnswer(h), Answered(fd, h), Met(fd), SocketsInv', UNCHANGED setting
  PROVE  LoopInv'
<1>1. /\ fate' = h.fate
      /\ peer' = [peer EXCEPT ![fd] = h.peer]
      /\ Update(fd, h.status)
      /\ nready' = nready - 1
      /\ UNCHANGED fdset_max
  BY DEF Answered
<1>2. /\ h.peer \in PeerState /\ GoodPeer(h.peer)
      /\ h.fate \in Fate /\ h.status \in SUBSET {"in", "out"}
  BY DEF GoodAnswer, GoodPeer, Fate
<1>3. /\ nready' \in Nat /\ CopiesAreFinite'
      /\ nready' = Cardinality(readfds') + Cardinality(writefds')
  BY <1>1, BitMet
<1>4. /\ Asked(fd)' = h.status
      /\ \A other \in Fds \ {fd} : Asked(other)' = Asked(other)
      /\ readfd_set' \in SUBSET AllFds /\ writefd_set' \in SUBSET Fds
      /\ readfd_set \ {fd} \subseteq readfd_set'
      /\ writefd_set \ {fd} \subseteq writefd_set'
  BY <1>1, <1>2, UpdateSets DEF LoopInv
<1>5. /\ peer'[fd] = h.peer
      /\ \A other \in Fds \ {fd} : /\ peer'[other] = peer[other]
                                   /\ owner'[other] = owner[other]
  BY <1>1 DEF Answered, LoopInv, TypeOK
<1>6. /\ readfds' \subseteq readfds \ {fd} /\ writefds' \subseteq writefds \ {fd}
  BY DEF Met
<1>7. WalkMeetsWhatSelectReported'
  <2>1. readfds' \subseteq readfd_set' /\ writefds' \subseteq writefd_set'
    BY <1>4, <1>6 DEF LoopInv, WalkMeetsWhatSelectReported
  <2>2. \A other \in (readfds' \union writefds') \ {Listener} :
          other \in Fds \ {fd} /\ Used(other)
    BY <1>6 DEF LoopInv, WalkMeetsWhatSelectReported, Used
  <2>3. \A other \in (readfds' \union writefds') \ {Listener} : Used(other)'
    BY <1>5, <2>2 DEF Used
  <2> QED BY <1>3, <2>1, <2>3 DEF WalkMeetsWhatSelectReported
<1>8. owner' \in [Fds -> Clients \union {NoClient}] => TypeOK'
  <2>1. readfds' \in SUBSET AllFds /\ writefds' \in SUBSET Fds
    BY <1>6 DEF LoopInv, TypeOK
  <2>2. peer' \in [Fds -> PeerState] /\ fdset_max' \in AllFds
    BY <1>1, <1>2 DEF LoopInv, TypeOK
  <2> QED BY <1>1, <1>2, <1>3, <1>4, <2>1, <2>2 DEF LoopInv, TypeOK, SocketsInv
<1>9. \A other \in Fds \ {fd} : fate' = "running" =>
        IF Used(other)' THEN /\ WaitsForTheRightEvent(peer'[other], Asked(other)')
                             /\ other <= fdset_max'
                        ELSE Asked(other)' = {}
  BY <1>1, <1>4, <1>5 DEF LoopInv, SetsMatchBuffers, Used
<1>10. CASE h.status = fd_status_NORW /\ h.fate = "running"
  <2>1. owner' = [owner EXCEPT ![fd] = NoClient] /\ owner'[fd] = NoClient
    BY <1>10 DEF Answered, LoopInv, TypeOK
  <2>2. owner[fd] \in Clients /\ link' = [link EXCEPT ![owner[fd]] = "closed"]
    BY <1>10 DEF Answered, LoopInv, TypeOK, Used
  <2>3. TypeOK'
    BY <1>8, <2>1 DEF LoopInv, TypeOK
  <2>4. \A other \in Fds \ {fd} : Used(other) =>
          /\ owner[other] \in Clients /\ owner[other] # owner[fd]
          /\ link'[owner[other]] = "open"
    BY <2>2 DEF LoopInv, TypeOK, Owners, Used, SocketsInv, SocketsTypeOK
  <2>5. Owners'
    BY <1>5, <2>1, <2>4 DEF LoopInv, Owners, Used
  <2>6. GoodPeers'
    BY <1>5, <2>1 DEF LoopInv, GoodPeers, Used
  <2>7. SetsMatchBuffers'
    BY <1>4, <1>9, <1>10, <2>1 DEF SetsMatchBuffers, Used, fd_status_NORW
  <2> QED BY <1>3, <1>7, <2>3, <2>5, <2>6, <2>7 DEF LoopInv
<1>11. CASE ~ (h.status = fd_status_NORW /\ h.fate = "running")
  <2>1. UNCHANGED <<owner, link>>
    BY <1>11 DEF Answered
  <2>2. TypeOK'
    BY <1>8, <2>1 DEF LoopInv, TypeOK
  <2>3. Owners'
    BY <2>1 DEF LoopInv, Owners, Used
  <2>4. GoodPeers'
    BY <1>2, <1>5, <2>1 DEF LoopInv, GoodPeers, Used
  <2>5. SetsMatchBuffers'
    <3>1. fd <= fdset_max
      BY DEF LoopInv, SetsMatchBuffers
    <3>2. fate' = "running" => WaitsForTheRightEvent(peer'[fd], Asked(fd)')
      BY <1>1, <1>4, <1>5, <1>11 DEF GoodAnswer
    <3>3. Used(fd)'
      BY <2>1 DEF Used
    <3> QED BY <1>1, <1>9, <3>1, <3>2, <3>3 DEF SetsMatchBuffers
  <2> QED BY <1>3, <1>7, <2>2, <2>3, <2>4, <2>5 DEF LoopInv
<1> QED BY <1>10, <1>11

(* Whichever bit the walk meets, it belongs to an open connection that is  *)
(* in the set the bit was copied from and in no other.                     *)
LEMMA HandlerOwner ==
  ASSUME LoopInv, fate = "running", NEW fd \in Fds, WalkMeets(fd)
  PROVE  /\ Used(fd) /\ owner[fd] \in Clients /\ link[owner[fd]] = "open"
         /\ GoodPeer(peer[fd])
         /\ fd \in readfds => ~ Undrained(peer[fd]) /\ fd \notin writefds
         /\ fd \notin readfds => Undrained(peer[fd]) /\ fd \in writefds
<1>1. fd \in readfds \union writefds /\ fd # Listener
  BY ListenerApart DEF WalkMeets, Left
<1>2. Used(fd) /\ owner[fd] \in Clients /\ link[owner[fd]] = "open" /\ GoodPeer(peer[fd])
  BY <1>1 DEF LoopInv, TypeOK, Owners, GoodPeers, WalkMeetsWhatSelectReported, Used
<1>3. Asked(fd) = IF Undrained(peer[fd]) THEN {"out"} ELSE {"in"}
  BY <1>2 DEF LoopInv, SetsMatchBuffers, WaitsForTheRightEvent, fd_status_R, fd_status_W
<1>4. /\ fd \in readfd_set <=> ~ Undrained(peer[fd])
      /\ fd \in writefd_set <=> Undrained(peer[fd])
  BY <1>3 DEF Asked
<1> QED BY <1>1, <1>2, <1>4 DEF LoopInv, WalkMeetsWhatSelectReported

(* The handler of a readable descriptor.                                   *)
LEMMA LoopIn ==
  ASSUME LoopInv, NEW fd \in Fds, HandleIn(fd)
  PROVE  LoopInv'
<1> DEFINE c == owner[fd]
<1>1. PICK got \in recv(c, RecvSize) :
        /\ Answered(fd, on_peer_ready_recv(peer[fd], got))
        /\ taken' = IF CallsRecv(peer[fd])
                    THEN [taken EXCEPT ![c] = @ + Len(got.bytes)] ELSE taken
  BY DEF HandleIn
<1>2. /\ fate = "running" /\ WalkMeets(fd) /\ fd \in readfds
      /\ readfds' = readfds \ {fd}
      /\ UNCHANGED <<script, arrived, fin, sent, drained, setting, writefds>>
  BY DEF HandleIn
<1>3. /\ Used(fd) /\ c \in Clients /\ link[c] = "open" /\ GoodPeer(peer[fd])
      /\ Met(fd)
  BY <1>2, HandlerOwner DEF Met
<1>4. RecvSize \in Nat
  BY BufferAssumption
<1>5. /\ got \in [errno : Errno, bytes : Seq(Byte)]
      /\ Len(got.bytes) <= RecvSize
      /\ taken[c] + Len(got.bytes) <= arrived[c]
  BY <1>3, <1>4, RecvType DEF LoopInv, SocketsInv, Answer, Errno
<1>6. GoodAnswer(on_peer_ready_recv(peer[fd], got))
  BY <1>3, <1>5, RecvGood
<1>7. link' = link \/ link' = [link EXCEPT ![c] = "closed"]
  BY <1>1 DEF Answered
<1>8. Len(got.bytes) \in Nat
  BY <1>5
<1> HIDE DEF c
<1>9. SocketsInv'
  <2>1. /\ taken' \in [Clients -> Nat] /\ link' \in [Clients -> LinkState]
        /\ \A d \in Clients : taken'[d] <= arrived[d]
        /\ \A d \in Clients : d # c => taken'[d] = taken[d]
    BY <1>1, <1>3, <1>5, <1>7, <1>8 DEF LoopInv, SocketsInv, SocketsTypeOK, LinkState
  <2>2. SocketsTypeOK'
    BY <1>2, <2>1 DEF LoopInv, SocketsInv, SocketsTypeOK
  <2>3. KernelHolds'
    BY <1>2 DEF LoopInv, SocketsInv, KernelHolds
  <2>4. Untouched'
    BY <1>2, <1>3, <1>7, <2>1 DEF LoopInv, SocketsInv, SocketsTypeOK, Untouched
  <2> QED BY <2>2, <2>3, <2>4 DEF SocketsInv
<1> QED BY <1>1, <1>2, <1>3, <1>6, <1>9, LoopAnswered

(* The handler of a writable descriptor: something is staged when it runs. *)
LEMMA LoopOut ==
  ASSUME LoopInv, NEW fd \in Fds, HandleOut(fd)
  PROVE  LoopInv'
<1> DEFINE c == owner[fd]
           p == peer[fd]
           answer == send(c, Len(Staged(p)))
<1>1. /\ fate = "running" /\ WalkMeets(fd) /\ fd \notin readfds
      /\ writefds' = writefds \ {fd}
      /\ Answered(fd, on_peer_ready_send(p, answer))
      /\ sent' = IF Undrained(p)
                 THEN [sent EXCEPT ![c] = @ \o Prefix(Staged(p), answer.nsent)]
                 ELSE sent
      /\ UNCHANGED <<script, arrived, fin, taken, drained, setting, readfds>>
  BY DEF HandleOut
<1>2. /\ Used(fd) /\ c \in Clients /\ link[c] = "open" /\ GoodPeer(p)
      /\ Met(fd)
  BY <1>1, HandlerOwner DEF Met
<1>3. Undrained(p)
  BY <1>1, HandlerOwner
<1>4. Staged(p) \in Seq(Byte) /\ Len(Staged(p)) \in Nat \ {0}
  BY <1>2, <1>3, StagedType
<1>5. /\ answer \in [errno : Answer, nsent : 0..Len(Staged(p))]
      /\ answer.errno = "ok" => Len(sent[c]) + answer.nsent - drained[c] <= SockBuf
      /\ answer.errno # "ok" => answer.nsent = 0
  <2>1. answer.errno # "ok" => answer.nsent = 0
    BY DEF send
  <2> QED BY <1>2, <1>4, <2>1, SendType DEF LoopInv
<1> HIDE DEF answer
<1>6. GoodAnswer(on_peer_ready_send(p, answer))
  BY <1>2, <1>3, <1>5, SendGood DEF Answer, Errno
<1>7. link' = link \/ link' = [link EXCEPT ![c] = "closed"]
  BY <1>1 DEF Answered
<1> HIDE DEF c, p
<1> DEFINE said == Prefix(Staged(p), answer.nsent)
<1>8. said \in Seq(Byte) /\ Len(said) = answer.nsent /\ answer.nsent \in Nat
  BY <1>4, <1>5, PieceType DEF Prefix
<1>9. sent[c] \in Seq(Byte) /\ drained[c] \in Nat /\ Len(sent[c]) \in Nat
  BY <1>2 DEF LoopInv, SocketsInv, SocketsTypeOK
<1>10. sent' = [sent EXCEPT ![c] = sent[c] \o said]
  BY <1>1, <1>3
<1> HIDE DEF said
<1>11. sent[c] \o said \in Seq(Byte) /\ Len(sent[c] \o said) = Len(sent[c]) + answer.nsent
  BY <1>8, <1>9
<1>12. Len(sent[c] \o said) - drained[c] <= SockBuf
  BY <1>2, <1>5, <1>8, <1>9, <1>11 DEF LoopInv, SocketsInv, KernelHolds
<1>13. SocketsInv'
  <2>1. \A d \in Clients : sent'[d] = IF d = c THEN sent[c] \o said ELSE sent[d]
    BY <1>10 DEF LoopInv, SocketsInv, SocketsTypeOK
  <2>2. sent' \in [Clients -> Seq(Byte)] /\ link' \in [Clients -> LinkState]
    BY <1>7, <1>10, <1>11 DEF LoopInv, SocketsInv, SocketsTypeOK, LinkState
  <2>3. drained[c] <= Len(sent[c] \o said)
    BY <1>2, <1>8, <1>9, <1>11 DEF LoopInv, SocketsInv, SocketsTypeOK
  <2>4. SocketsTypeOK'
    BY <1>1, <2>1, <2>2, <2>3 DEF LoopInv, SocketsInv, SocketsTypeOK
  <2>5. KernelHolds'
    BY <1>1, <1>12, <2>1 DEF LoopInv, SocketsInv, KernelHolds
  <2>6. Untouched'
    BY <1>1, <1>2, <1>7, <2>1 DEF LoopInv, SocketsInv, SocketsTypeOK, Untouched
  <2> QED BY <2>4, <2>5, <2>6 DEF SocketsInv
<1> QED BY <1>1, <1>2, <1>6, <1>13, LoopAnswered DEF p

-----------------------------------------------------------------------------
(* Every step of the server and of its clients keeps the invariant.        *)
LEMMA LoopNext == LoopInv /\ [Next]_vars => LoopInv'
<1> SUFFICES ASSUME LoopInv, [Next]_vars PROVE LoopInv'
  OBVIOUS
<1>1. CASE select
  BY <1>1, LoopSelect
<1>2. CASE Accept
  BY <1>2, LoopAccept
<1>3. ASSUME NEW fd \in Fds, HandleIn(fd) PROVE LoopInv'
  BY <1>3, LoopIn
<1>4. ASSUME NEW fd \in Fds, HandleOut(fd) PROVE LoopInv'
  BY <1>4, LoopOut
<1>5. ASSUME NEW c \in Clients, Client(c) PROVE LoopInv'
  BY <1>5, LoopClient
<1>6. CASE UNCHANGED vars
  BY <1>6 DEF LoopInv, TypeOK, SocketsInv, SocketsTypeOK, KernelHolds, Untouched, Owners,
              GoodPeers, CopiesAreFinite, SetsMatchBuffers, WalkMeetsWhatSelectReported,
              Used, Asked, loopVars, vars, socketVars, serverVars
<1> QED BY <1>1, <1>2, <1>3, <1>4, <1>5, <1>6, Zenon DEF Next, Server

(* The invariant of the main loop holds throughout every run.              *)
THEOREM LoopSafe == Spec => []LoopInv
<1> QED BY LoopInit, LoopNext, PTL DEF Spec

(* Type correctness of the server's state and of its sockets.              *)
THEOREM TypeCorrect == Spec => []TypeOK
<1>1. LoopInv => TypeOK
  BY DEF LoopInv
<1> QED BY <1>1, LoopSafe, PTL

(* A descriptor is in the write set exactly while bytes are staged for it, *)
(* in the read set exactly while none are, and never in both: no turn of   *)
(* the loop calls a second handler for a descriptor the first has closed.  *)
THEOREM SetsSafe == Spec => []SetsMatchBuffers
<1>1. LoopInv => SetsMatchBuffers
  BY DEF LoopInv
<1> QED BY <1>1, LoopSafe, PTL

(* nready counts what the walk has still to meet, and what it has still to *)
(* meet concerns open connections, although descriptors are closed, given  *)
(* away and added to the sets while the walk goes on over the copies.      *)
THEOREM WalkSafe == Spec => []WalkMeetsWhatSelectReported
<1>1. LoopInv => WalkMeetsWhatSelectReported
  BY DEF LoopInv
<1> QED BY <1>1, LoopSafe, PTL

-----------------------------------------------------------------------------
(* A client is not heard before it has been greeted.                       *)
GreetedFirst == \A c \in Clients : sent[c] = << >> => taken[c] = 0

(* What has passed over the connections.  NothingLostOrRepeated needs      *)
(* GreetedFirst: the state the greeting leaves the parser in is the one of *)
(* a parser that has read nothing.                                         *)
Passed == NothingLostOrRepeated /\ GreetedFirst

(* What the loop does with a handler's answer keeps the account of every   *)
(* connection if the handler kept that of its own.                         *)
LEMMA PassedAnswered ==
  ASSUME LoopInv, NothingLostOrRepeated, fate = "running", NEW fd \in Fds, Used(fd),
         NEW h, Answered(fd, h), UNCHANGED script,
         \A d \in Clients \ {owner[fd]} : taken'[d] = taken[d] /\ sent'[d] = sent[d],
         Accounted(h.peer, Prefix(script[owner[fd]], taken'[owner[fd]]), sent'[owner[fd]])
  PROVE  NothingLostOrRepeated'
<1> SUFFICES ASSUME NEW other \in Fds, Open(other)'
             PROVE  Accounted(peer'[other],
                              Prefix(script'[owner'[other]], taken'[owner'[other]]),
                              sent'[owner'[other]])
  BY DEF NothingLostOrRepeated
<1>1. CASE other = fd
  <2>1. owner'[fd] = owner[fd]
    BY <1>1 DEF Answered, Open, Used, LoopInv, TypeOK
  <2>2. peer'[fd] = h.peer
    BY DEF Answered, LoopInv, TypeOK
  <2> QED BY <1>1, <2>1, <2>2
<1>2. CASE other # fd
  <2>1. owner'[other] = owner[other] /\ peer'[other] = peer[other]
    BY <1>2 DEF Answered, LoopInv, TypeOK
  <2>2. Open(other) /\ owner[other] \in Clients \ {owner[fd]}
    BY <1>2, <2>1 DEF Open, Used, LoopInv, TypeOK, Owners
  <2> QED BY <2>1, <2>2 DEF NothingLostOrRepeated
<1> QED BY <1>1, <1>2

(* A handler's call: whose connection it is for, the state p kept for it,  *)
(* the answer h of the handler.                                            *)
Called(fd, c, p, h) ==
  /\ c \in Clients /\ c = owner[fd] /\ Used(fd) /\ link[c] = "open"
  /\ p = peer[fd] /\ GoodPeer(p) /\ AccountOf(c, p)
  /\ sent[c] = << >> => taken[c] = 0
  /\ fate = "running" /\ Answered(fd, h)
  /\ UNCHANGED <<script, arrived, fin, drained, setting>>

(* What the call for a descriptor comes to.                                *)
LEMMA Calls ==
  ASSUME LoopInv, Passed, NEW fd \in Fds, fate = "running", WalkMeets(fd),
         NEW h, Answered(fd, h), UNCHANGED <<script, arrived, fin, drained, setting>>
  PROVE  \E c, p : Called(fd, c, p, h)
<1>1. /\ Used(fd) /\ owner[fd] \in Clients /\ link[owner[fd]] = "open"
      /\ GoodPeer(peer[fd])
  BY HandlerOwner
<1>2. AccountOf(owner[fd], peer[fd]) /\ (sent[owner[fd]] = << >> => taken[owner[fd]] = 0)
  BY <1>1 DEF Passed, NothingLostOrRepeated, GreetedFirst, Open, AccountOf
<1> QED BY <1>1, <1>2 DEF Called

(* The call of the handler of a readable descriptor.                       *)
LEMMA CallsIn ==
  ASSUME LoopInv, Passed, NEW fd \in Fds, HandleIn(fd)
  PROVE  \E c, p, h : \E got \in recv(c, RecvSize) :
           /\ Called(fd, c, p, h)
           /\ h = on_peer_ready_recv(p, got)
           /\ taken' = IF CallsRecv(p)
                       THEN [taken EXCEPT ![c] = @ + Len(got.bytes)] ELSE taken
           /\ UNCHANGED sent
<1>1. PICK got \in recv(owner[fd], RecvSize) :
        /\ Answered(fd, on_peer_ready_recv(peer[fd], got))
        /\ taken' = IF CallsRecv(peer[fd])
                    THEN [taken EXCEPT ![owner[fd]] = @ + Len(got.bytes)] ELSE taken
  BY DEF HandleIn
<1>2. PICK h : h = on_peer_ready_recv(peer[fd], got)
  OBVIOUS
<1>3. /\ fate = "running" /\ WalkMeets(fd) /\ UNCHANGED sent
      /\ UNCHANGED <<script, arrived, fin, drained, setting>>
  BY DEF HandleIn
<1>4. PICK c, p : Called(fd, c, p, h)
  BY <1>1, <1>2, <1>3, Calls
<1>5. c = owner[fd] /\ p = peer[fd]
  BY <1>4 DEF Called
<1> QED BY <1>1, <1>2, <1>3, <1>4, <1>5, Zenon

(* The call of the handler of a writable one: something is staged.         *)
LEMMA CallsOut ==
  ASSUME LoopInv, Passed, NEW fd \in Fds, HandleOut(fd)
  PROVE  \E c, p, h, answer :
           /\ Called(fd, c, p, h) /\ Undrained(p)
           /\ answer = send(c, Len(Staged(p)))
           /\ h = on_peer_ready_send(p, answer)
           /\ sent' = [sent EXCEPT ![c] = @ \o Prefix(Staged(p), answer.nsent)]
           /\ UNCHANGED taken
<1>1. PICK answer : answer = send(owner[fd], Len(Staged(peer[fd])))
  OBVIOUS
<1>2. PICK h : h = on_peer_ready_send(peer[fd], answer)
  OBVIOUS
<1>3. /\ fate = "running" /\ WalkMeets(fd) /\ fd \notin readfds /\ UNCHANGED taken
      /\ Answered(fd, h) /\ UNCHANGED <<script, arrived, fin, drained, setting>>
  BY <1>1, <1>2 DEF HandleOut
<1>4. Undrained(peer[fd])
  BY <1>3, HandlerOwner
<1>5. sent' = [sent EXCEPT ![owner[fd]] = @ \o Prefix(Staged(peer[fd]), answer.nsent)]
  BY <1>1, <1>4 DEF HandleOut
<1>6. PICK c, p : Called(fd, c, p, h)
  BY <1>3, Calls
<1>7. c = owner[fd] /\ p = peer[fd]
  BY <1>6 DEF Called
<1> QED BY <1>1, <1>2, <1>3, <1>4, <1>5, <1>6, <1>7, Zenon

(* The handler of a readable descriptor accounts for what it takes.        *)
LEMMA PassedIn ==
  ASSUME LoopInv, Passed, NEW fd \in Fds, HandleIn(fd)
  PROVE  Passed'
<1>1. PICK c, p, h : \E got \in recv(c, RecvSize) :
        /\ Called(fd, c, p, h)
        /\ h = on_peer_ready_recv(p, got)
        /\ taken' = IF CallsRecv(p)
                    THEN [taken EXCEPT ![c] = @ + Len(got.bytes)] ELSE taken
        /\ UNCHANGED sent
  BY CallsIn
<1>2. PICK got \in recv(c, RecvSize) :
        /\ h = on_peer_ready_recv(p, got)
        /\ taken' = IF CallsRecv(p)
                    THEN [taken EXCEPT ![c] = @ + Len(got.bytes)] ELSE taken
        /\ UNCHANGED sent
  BY <1>1
<1>3. /\ c \in Clients /\ GoodPeer(p) /\ AccountOf(c, p) /\ SocketsTypeOK /\ UNCHANGED <<script, sent>>
      /\ c = owner[fd] /\ Used(fd) /\ fate = "running" /\ Answered(fd, h)
  BY <1>1 DEF Called, LoopInv, SocketsInv
<1>4. /\ AccountOf(c, h.peer)' /\ OnlyOf(c)
      /\ CallsRecv(p) => sent[c] # << >>
      /\ taken'[c] = IF CallsRecv(p) THEN taken[c] + Len(got.bytes) ELSE taken[c]
  BY <1>2, <1>3, RecvHears
<1>5. NothingLostOrRepeated'
  BY <1>3, <1>4, PassedAnswered DEF Passed, AccountOf, OnlyOf
<1>6. GreetedFirst'
  BY <1>3, <1>4 DEF Passed, GreetedFirst, OnlyOf
<1> QED BY <1>5, <1>6 DEF Passed

(* The handler of a writable descriptor accounts for what it sends.        *)
LEMMA PassedOut ==
  ASSUME LoopInv, Passed, NEW fd \in Fds, HandleOut(fd)
  PROVE  Passed'
<1>1. PICK c, p, h, answer :
        /\ Called(fd, c, p, h) /\ Undrained(p)
        /\ answer = send(c, Len(Staged(p)))
        /\ h = on_peer_ready_send(p, answer)
        /\ sent' = [sent EXCEPT ![c] = @ \o Prefix(Staged(p), answer.nsent)]
        /\ UNCHANGED taken
  BY CallsOut
<1>2. /\ c \in Clients /\ GoodPeer(p) /\ AccountOf(c, p) /\ SocketsInv /\ UNCHANGED <<script, taken>>
      /\ c = owner[fd] /\ Used(fd) /\ fate = "running" /\ Answered(fd, h)
      /\ sent[c] = << >> => taken[c] = 0
  BY <1>1 DEF Called, LoopInv
<1>3. AccountOf(c, h.peer)' /\ OnlyOf(c) /\ Tells(c, p, answer)
  BY <1>1, <1>2, SendTells
<1>4. NothingLostOrRepeated'
  BY <1>2, <1>3, PassedAnswered DEF Passed, AccountOf, OnlyOf
<1>5. sent'[c] = << >> => sent[c] = << >>
  <2>1. sent[c] \in Seq(Byte) /\ \E front \in Seq(Byte) : sent'[c] = sent[c] \o front
    BY <1>2, <1>3 DEF SocketsInv, SocketsTypeOK, Tells
  <2>2. ASSUME NEW front \in Seq(Byte), sent[c] \o front = << >> PROVE sent[c] = << >>
    BY <2>1, <2>2, ConcatEqualIffEmpty
  <2> QED BY <2>1, <2>2
<1>6. GreetedFirst'
  BY <1>2, <1>3, <1>5 DEF Passed, GreetedFirst, OnlyOf
<1> QED BY <1>4, <1>6 DEF Passed

(* A connection is accepted before anything has passed over it.            *)
LEMMA PassedAccept ==
  ASSUME LoopInv, Passed, Accept
  PROVE  Passed'
<1>1. UNCHANGED <<script, taken, sent>> /\ fate = "running"
  BY DEF Accept
<1>2. GreetedFirst'
  BY <1>1 DEF Passed, GreetedFirst
<1>3. ASSUME AcceptNobody \/ AcceptRefused PROVE NothingLostOrRepeated'
  BY <1>1, <1>3 DEF AcceptNobody, AcceptRefused, Passed, NothingLostOrRepeated, Open, Used
<1>4. ASSUME NEW c \in Clients, NEW new \in Fds, AcceptPeer(c, new)
      PROVE  NothingLostOrRepeated'
  <2>1. CASE TooBig(new) \/ new >= setting.MaxFds
    BY <1>1, <1>4, <2>1 DEF AcceptPeer, Passed, NothingLostOrRepeated, Open, Used
  <2>2. CASE ~ (TooBig(new) \/ new >= setting.MaxFds)
    <3>1. /\ c \in Backlog /\ UNCHANGED fate
          /\ owner' = [owner EXCEPT ![new] = c]
          /\ peer' = [peer EXCEPT ![new] = Greeting.peer]
      BY <1>4, <2>2 DEF AcceptPeer
    <3>2. taken[c] = 0 /\ sent[c] = << >> /\ script[c] \in Seq(Byte)
      BY <3>1, SocketsAssumption DEF Backlog, LoopInv, SocketsInv, SocketsTypeOK, Untouched
    <3>3. Prefix(script[c], 0) = << >>
      BY <3>2 DEF Prefix
    <3> SUFFICES ASSUME NEW fd \in Fds, Open(fd)'
                 PROVE  Accounted(peer'[fd], Prefix(script'[owner'[fd]], taken'[owner'[fd]]),
                                  sent'[owner'[fd]])
      BY DEF NothingLostOrRepeated
    <3>4. CASE fd = new
      <4>1. owner'[fd] = c /\ peer'[fd] = Greeting.peer
        BY <3>1, <3>4 DEF LoopInv, TypeOK
      <4> QED BY <1>1, <3>2, <3>3, <4>1, ConnectedAccounted
    <3>5. CASE fd # new
      <4>1. owner'[fd] = owner[fd] /\ peer'[fd] = peer[fd]
        BY <3>1, <3>5 DEF LoopInv, TypeOK
      <4> QED BY <1>1, <3>1, <4>1 DEF Passed, NothingLostOrRepeated, Open, Used
    <3> QED BY <3>4, <3>5
  <2> QED BY <2>1, <2>2
<1> QED BY <1>2, <1>3, <1>4, Zenon DEF Accept, Passed

(* Nothing has passed, and nobody is connected, at the start.              *)
LEMMA PassedInit == Init => Passed
BY DEF Init, SocketsInit, Passed, NothingLostOrRepeated, GreetedFirst, Open, Used

(* Every step keeps the account.                                           *)
LEMMA PassedNext == LoopInv /\ Passed /\ [Next]_vars => Passed'
<1> SUFFICES ASSUME LoopInv, Passed, [Next]_vars PROVE Passed'
  OBVIOUS
<1>1. CASE UNCHANGED <<script, taken, sent, fate, owner, peer>>
  BY <1>1 DEF Passed, NothingLostOrRepeated, GreetedFirst, Open, Used
<1>2. CASE select
  BY <1>1, <1>2 DEF select, socketVars
<1>3. CASE Accept
  BY <1>3, PassedAccept
<1>4. ASSUME NEW fd \in Fds, HandleIn(fd) PROVE Passed'
  BY <1>4, PassedIn
<1>5. ASSUME NEW fd \in Fds, HandleOut(fd) PROVE Passed'
  BY <1>5, PassedOut
<1>6. ASSUME NEW c \in Clients, Client(c) PROVE Passed'
  BY <1>1, <1>6 DEF Client, serverVars, ClientStep, Connect, Deliver, HangUp, Reset, Drain
<1>7. CASE UNCHANGED vars
  BY <1>1, <1>7 DEF vars, socketVars, serverVars
<1> QED BY <1>2, <1>3, <1>4, <1>5, <1>6, <1>7, Zenon DEF Next, Server

(* Of every connection that is served, what has been sent and what is      *)
(* staged are together the answer to what has been taken, whatever the     *)
(* sizes of the pieces in which recv() and send() move the bytes: nothing  *)
(* is lost, repeated, or given to another client.                          *)
THEOREM AccountSafe == Spec => []NothingLostOrRepeated
<1>1. Passed => NothingLostOrRepeated
  BY DEF Passed
<1> QED BY <1>1, PassedInit, PassedNext, LoopSafe, PTL DEF Spec

-----------------------------------------------------------------------------
(* The server is an echo service.                                          *)

(* A descriptor that is below both limits.                                 *)
Fits(fd) == fd < setting.fdLimit /\ fd < setting.MaxFds
UsedFds == {fd \in Fds : Used(fd)}

(* Every open connection has its descriptor, below both limits.            *)
Admitted ==
  /\ \A c \in Clients : link[c] = "open" => \E fd \in Fds : owner[fd] = c
  /\ \A fd \in Fds : Used(fd) => Fits(fd)

(* The limits are numbers, and global_state[] the shorter table.           *)
LEMMA Limits ==
  ASSUME LoopInv
  PROVE  /\ setting.fdLimit \in Nat
         /\ setting.MaxFds \in Nat /\ FdSetSize \in Nat
         /\ setting.MaxFds < FdSetSize
BY SelectAssumption DEF LoopInv, TypeOK, Setting

(* What the steps of the echo service follow from.  Admitted ties the      *)
(* number of connections to that of the descriptors in use.                *)
EchoInv == LoopInv /\ Passed /\ Admitted

(* Nobody is connected at the start.                                       *)
LEMMA AdmittedInit == Init => Admitted
BY DEF Init, SocketsInit, Admitted, Used

(* A handler closes no connection but that of its descriptor.              *)
LEMMA AdmittedAnswered ==
  ASSUME LoopInv, Admitted, NEW fd \in Fds, Used(fd), NEW h, Answered(fd, h), UNCHANGED setting
  PROVE  Admitted'
<1>1. CASE UNCHANGED <<owner, link>>
  BY <1>1 DEF Admitted, Used, Fits
<1>2. CASE /\ owner' = [owner EXCEPT ![fd] = NoClient]
           /\ link' = [link EXCEPT ![owner[fd]] = "closed"]
  <2>1. /\ owner[fd] \in Clients /\ owner'[fd] = NoClient
        /\ \A other \in Fds \ {fd} : owner'[other] = owner[other]
    BY <1>2 DEF LoopInv, TypeOK, Used
  <2>2. ASSUME NEW c \in Clients, link'[c] = "open" PROVE \E other \in Fds : owner'[other] = c
    <3>1. c # owner[fd] /\ link[c] = "open"
      BY <1>2, <2>1, <2>2 DEF LoopInv, SocketsInv, SocketsTypeOK
    <3> QED BY <2>1, <3>1 DEF Admitted
  <2>3. ASSUME NEW other \in Fds, Used(other)' PROVE Fits(other)'
    BY <2>1, <2>3 DEF Admitted, Used, Fits
  <2> QED BY <2>2, <2>3 DEF Admitted
<1> QED BY <1>1, <1>2 DEF Answered

(* A client that is let in gets a descriptor below both limits.            *)
LEMMA AdmittedAccept ==
  ASSUME LoopInv, Admitted, Accept
  PROVE  Admitted'
<1>1. UNCHANGED setting /\ fate \in Fate
  BY DEF Accept, LoopInv, TypeOK
<1>2. CASE LeftOut
  BY <1>1, <1>2 DEF LeftOut, Admitted, Used, Fits
<1>3. ASSUME NEW c \in Clients, NEW new \in Fds, LetIn(c, new) PROVE Admitted'
  <2>1. Fits(new) /\ ~ Used(new)
    <3>1. new \in Nat /\ FirstFd \in Nat
      BY ListenerApart, SelectAssumption
    <3>2. /\ new \in FirstFd..(setting.fdLimit - 1)
          /\ ~ (new >= setting.MaxFds)
          /\ ~ Used(new)
      BY <1>3 DEF LetIn, FreeFds
    <3> QED BY <3>1, <3>2, Limits DEF Fits
  <2>2. /\ owner'[new] = c
        /\ \A other \in Fds \ {new} : owner'[other] = owner[other]
    BY <1>3 DEF LetIn, LoopInv, TypeOK
  <2>3. ASSUME NEW d \in Clients, link'[d] = "open" PROVE \E fd \in Fds : owner'[fd] = d
    <3>1. CASE d = c
      BY <2>2, <3>1
    <3>2. CASE d # c
      <4>1. link[d] = "open" /\ d # NoClient
        BY <1>3, <2>3, <3>2, SelectAssumption DEF LetIn, LoopInv, SocketsInv, SocketsTypeOK
      <4>2. PICK fd \in Fds : owner[fd] = d
        BY <4>1 DEF Admitted
      <4> QED BY <2>1, <2>2, <4>1, <4>2 DEF Used
    <3> QED BY <3>1, <3>2
  <2>4. ASSUME NEW fd \in Fds, Used(fd)' PROVE Fits(fd)'
    BY <1>1, <2>1, <2>2, <2>4 DEF Admitted, Used, Fits
  <2> QED BY <2>1, <2>3, <2>4 DEF Admitted
<1> QED BY <1>1, <1>2, <1>3, AcceptCases

(* Every step keeps it.                                                    *)
LEMMA AdmittedNext == LoopInv /\ Passed /\ Admitted /\ [Next]_vars => Admitted'
<1> SUFFICES ASSUME LoopInv, Passed, Admitted, [Next]_vars PROVE Admitted'
  OBVIOUS
<1>1. CASE UNCHANGED <<link, owner, setting>>
  BY <1>1 DEF Admitted, Used, Fits
<1>2. CASE select
  BY <1>1, <1>2 DEF select, socketVars
<1>3. CASE Accept
  BY <1>3, AdmittedAccept
<1>4. ASSUME NEW fd \in Fds, HandleIn(fd) PROVE Admitted'
  BY <1>4, CallsIn, AdmittedAnswered DEF Called
<1>5. ASSUME NEW fd \in Fds, HandleOut(fd) PROVE Admitted'
  BY <1>5, CallsOut, AdmittedAnswered DEF Called
<1>6. ASSUME NEW c \in Clients, Client(c) PROVE Admitted'
  <2>1. UNCHANGED <<owner, setting>> /\ \A d \in Clients : link'[d] = "open" => link[d] = "open"
    BY <1>6 DEF LoopInv, SocketsInv, SocketsTypeOK, Client, serverVars, loopVars, ClientStep,
                Connect, Deliver, HangUp, Reset, Drain
  <2> QED BY <2>1 DEF Admitted, Used, Fits
<1>7. CASE UNCHANGED vars
  BY <1>1, <1>7 DEF vars, socketVars, serverVars, loopVars
<1> QED BY <1>2, <1>3, <1>4, <1>5, <1>6, <1>7, Zenon DEF Next, Server

(* The startup code has got its own descriptors, and MAXFDS is beyond      *)
(* them: there is room for a number of connections.                        *)
RoomAtStart == \A s \in Settings : FirstFd <= Lesser(s.fdLimit, s.MaxFds)

(* When the lowest free descriptor is one of the two that the server       *)
(* cannot use, all those below MAXFDS are connections'.                    *)
LEMMA AllBelow ==
  ASSUME LoopInv, NEW new \in FreeFds, \A other \in FreeFds : new <= other,
         TooBig(new) \/ new >= setting.MaxFds
  PROVE  /\ setting.MaxFds < setting.fdLimit
         /\ \A fd \in FirstFd..(setting.MaxFds - 1) : Used(fd)
<1>1. /\ FirstFd \in Nat
      /\ new \in FirstFd..(setting.fdLimit - 1) /\ new >= setting.MaxFds
  BY SelectAssumption, Limits DEF FreeFds, TooBig
<1>2. setting.MaxFds < setting.fdLimit
  BY <1>1, Limits
<1>3. ASSUME NEW fd \in FirstFd..(setting.MaxFds - 1) PROVE Used(fd)
  <2>1. fd \in FirstFd..(setting.fdLimit - 1) /\ ~ (new <= fd)
    BY <1>1, <1>3, Limits
  <2> QED BY <2>1 DEF FreeFds
<1> QED BY <1>2, <1>3

(* The lowest free descriptor is never beyond FD_SETSIZE: the one that is  *)
(* MAXFDS would have to be in use.                                         *)
LEMMA NeverTooBig ==
  ASSUME LoopInv, Admitted, RoomAtStart, NEW new \in FreeFds,
         \A other \in FreeFds : new <= other
  PROVE  ~ TooBig(new)
<1> SUFFICES ASSUME TooBig(new) PROVE FALSE
  OBVIOUS
<1>1. /\ new \in FirstFd..(setting.fdLimit - 1) /\ new >= FdSetSize
      /\ FirstFd \in Nat
  BY SelectAssumption DEF FreeFds, TooBig
<1>2. FirstFd <= setting.MaxFds
  BY <1>1, Limits DEF RoomAtStart, LoopInv, TypeOK, Lesser
<1>3. /\ setting.MaxFds \in FirstFd..(setting.fdLimit - 1)
      /\ ~ (new <= setting.MaxFds)
  BY <1>1, <1>2, Limits
<1>4. Used(setting.MaxFds)
  BY <1>3 DEF FreeFds
<1>5. setting.MaxFds < setting.MaxFds
  BY <1>4 DEF Admitted, Used, Fits
<1> QED BY <1>5, Limits

(* The server stops at MAXFDS or for want of a descriptor, whichever comes *)
(* first; no read meets a full buffer and the check against FD_SETSIZE is  *)
(* never reached.                                                          *)
THEOREM StopsSafe ==
  ASSUME RoomAtStart
  PROVE  Spec => []StopsAtTheFirstLimit
<1>1. Init => StopsAtTheFirstLimit
  BY DEF Init, StopsAtTheFirstLimit
<1>2. ASSUME LoopInv, Admitted, StopsAtTheFirstLimit, [Next]_vars
      PROVE  StopsAtTheFirstLimit'
  <2>1. CASE select
    BY <1>2, <2>1 DEF select, StopsAtTheFirstLimit
  <2>2. CASE Accept
    <3>1. fate = "running" /\ UNCHANGED <<setting, fin>>
      BY <2>2 DEF Accept
    <3>2. CASE AcceptNobody
      BY <3>1, <3>2 DEF AcceptNobody, StopsAtTheFirstLimit
    <3>3. CASE AcceptRefused
      <4>1. FreeFds' = {} /\ fate' = "exited"
        BY <3>1, <3>3 DEF AcceptRefused, FreeFds, Used
      <4> QED BY <4>1 DEF StopsAtTheFirstLimit
    <3>4. ASSUME NEW c \in Clients, NEW new \in Fds, AcceptPeer(c, new)
          PROVE  StopsAtTheFirstLimit'
      <4>1. /\ c \in Backlog /\ new \in FreeFds
            /\ \A other \in FreeFds : new <= other
            /\ ~ TooBig(new)
        BY <1>2, <3>4, NeverTooBig DEF AcceptPeer
      <4>2. CASE new >= setting.MaxFds
        <5>1. fate' = "aborted" /\ UNCHANGED <<link, owner>>
          BY <3>4, <4>1, <4>2 DEF AcceptPeer
        <5>2. /\ setting.MaxFds < setting.fdLimit
              /\ \A fd \in FirstFd..(setting.MaxFds - 1) : Used(fd)
          BY <1>2, <4>1, <4>2, AllBelow
        <5> QED BY <3>1, <4>1, <5>1, <5>2 DEF StopsAtTheFirstLimit, Used, Backlog
      <4>3. CASE ~ (new >= setting.MaxFds)
        BY <3>1, <3>4, <4>1, <4>3 DEF AcceptPeer, StopsAtTheFirstLimit
      <4> QED BY <4>2, <4>3
    <3> QED BY <2>2, <3>2, <3>3, <3>4, Zenon DEF Accept
  <2>3. ASSUME NEW fd \in Fds, HandleIn(fd) PROVE StopsAtTheFirstLimit'
    <3>1. PICK got \in recv(owner[fd], RecvSize) :
            Answered(fd, on_peer_ready_recv(peer[fd], got))
      BY <2>3 DEF HandleIn
    <3>2. owner[fd] \in Clients /\ GoodPeer(peer[fd]) /\ RecvSize \in Nat
      BY <1>2, <2>3, HandlerOwner, BufferAssumption DEF HandleIn
    <3>3. got \in [errno : Errno, bytes : Seq(Byte)] /\ Len(got.bytes) <= RecvSize
      BY <1>2, <3>1, <3>2, RecvType DEF LoopInv, SocketsInv, Answer, Errno
    <3>4. GoodAnswer(on_peer_ready_recv(peer[fd], got))
      BY <3>2, <3>3, RecvGood
    <3>5. fate' # "aborted"
      BY <3>1, <3>4 DEF Answered, GoodAnswer
    <3>6. on_peer_ready_recv(peer[fd], got).fate = "exited" => fin[owner[fd]] = "rst"
      <4>1. got.errno \notin {"ok", "EAGAIN"} => fin[owner[fd]] = "rst"
        BY <3>1 DEF recv, Received
      <4> QED BY <4>1 DEF on_peer_ready_recv, Consume
    <3> QED BY <2>3, <3>1, <3>2, <3>5, <3>6 DEF HandleIn, Answered, StopsAtTheFirstLimit
  <2>4. ASSUME NEW fd \in Fds, HandleOut(fd) PROVE StopsAtTheFirstLimit'
    <3> DEFINE answer == send(owner[fd], Len(Staged(peer[fd])))
    <3>1. Answered(fd, on_peer_ready_send(peer[fd], answer)) /\ UNCHANGED fin
      BY <2>4 DEF HandleOut
    <3>2. on_peer_ready_send(peer[fd], answer).fate # "aborted"
      BY DEF on_peer_ready_send
    <3>3. owner[fd] \in Clients
      BY <1>2, <2>4, HandlerOwner DEF HandleOut
    <3>4. on_peer_ready_send(peer[fd], answer).fate = "exited" => fin[owner[fd]] = "rst"
      BY DEF on_peer_ready_send, send
    <3> QED BY <3>1, <3>2, <3>3, <3>4 DEF Answered, StopsAtTheFirstLimit
  <2>5. ASSUME NEW c \in Clients, Client(c) PROVE StopsAtTheFirstLimit'
    <3>1. /\ UNCHANGED <<setting, fate, owner>>
          /\ \A d \in Clients : /\ link[d] = "backlog" => link'[d] = "backlog"
                                /\ fin[d] = "rst" => fin'[d] = "rst"
      BY <1>2, <2>5 DEF LoopInv, SocketsInv, SocketsTypeOK, Client, serverVars, ClientStep,
                        Connect, Deliver, HangUp, Reset, Drain, Linked
    <3>2. FreeFds' = FreeFds /\ \A fd : Used(fd)' = Used(fd)
      BY <3>1 DEF FreeFds, Used
    <3>3. Backlog # {} => Backlog' # {}
      BY <3>1 DEF Backlog
    <3>4. (\E d \in Clients : fin[d] = "rst") => \E d \in Clients : fin'[d] = "rst"
      BY <3>1
    <3> QED BY <1>2, <3>1, <3>2, <3>3, <3>4 DEF StopsAtTheFirstLimit
  <2>6. CASE UNCHANGED vars
    BY <1>2, <2>6 DEF vars, serverVars, socketVars, StopsAtTheFirstLimit, FreeFds, Used, Backlog
  <2> QED BY <1>2, <2>1, <2>2, <2>3, <2>4, <2>5, <2>6, Zenon DEF Next, Server
<1>3. Init => EchoInv
  BY LoopInit, PassedInit, AdmittedInit DEF EchoInv
<1>4. EchoInv /\ [Next]_vars => EchoInv'
  BY LoopNext, PassedNext, AdmittedNext DEF EchoInv
<1>5. EchoInv => LoopInv /\ Admitted
  BY DEF EchoInv
<1> QED BY <1>1, <1>2, <1>3, <1>4, <1>5, PTL DEF Spec

(* What the service is made of: the sockets, and the limits its capacity   *)
(* comes from.                                                             *)
ServiceVars == <<script, link, arrived, fin, taken, sent, setting>>

(* The service speaks of the same protocol.                                *)
LEMMA SameProtocol ==
  /\ Service!STAR = STAR
  /\ \A S : Service!Cardinality(S) = Cardinality(S)
  /\ \A s, n : Service!Prefix(s, n) = Prefix(s, n)
  /\ \A s : Service!Reply(s) = Reply(s)
<1>1. Service!STAR = STAR
  BY DEF Service!STAR, STAR
<1>2. ASSUME NEW S PROVE Service!Cardinality(S) = Cardinality(S)
  BY DEF Service!Cardinality, Cardinality
<1>3. ASSUME NEW s, NEW n PROVE Service!Prefix(s, n) = Prefix(s, n)
  BY DEF Service!Prefix, Prefix
<1>4. ASSUME NEW s PROVE Service!Echo(s) = Echo(s)
  BY DEF Service!Echo, Echo, Service!Cardinality, Cardinality, Service!Rank, Rank, Service!Bump, Bump,
         Service!Echoed, Echoed, Service!InMessage, InMessage, Service!CARET, CARET,
         Service!DOLLAR, DOLLAR
<1>5. ASSUME NEW s PROVE Service!Reply(s) = Reply(s)
  BY <1>1, <1>4 DEF Service!Reply, Reply
<1> QED BY <1>1, <1>2, <1>3, <1>5

(* A step that changes none of this is none of the service's.              *)
LEMMA Stutters ==
  ASSUME UNCHANGED ServiceVars, UNCHANGED fate
  PROVE  [Service!Next]_(Service!vars)
<1>1. UNCHANGED Service!vars
  BY DEF Service!vars, ServiceVars
<1> QED BY <1>1

(* The steps of a client are its steps there.                              *)
LEMMA ClientMaps ==
  ASSUME LoopInv, NEW c \in Clients, Client(c)
  PROVE  [Service!Next]_(Service!vars)
<1>1. UNCHANGED <<fate, setting>> /\ ClientStep(c)
  BY DEF Client, serverVars
<1>2. script[c] \in Seq(Byte) /\ Len(script[c]) \in Nat /\ arrived[c] \in Nat
  BY SocketsAssumption DEF LoopInv, SocketsInv, SocketsTypeOK
<1>3. CASE Connect(c)
  <2>1. Service!Connect(c)
    BY <1>1, <1>3 DEF Connect, Service!Connect
  <2> QED BY <1>1, <2>1 DEF Service!Next, Service!Client
<1>4. CASE Deliver(c)
  <2>1. arrived[c] + 1 \in (arrived[c] + 1)..Len(script[c])
    BY <1>2, <1>4 DEF Deliver
  <2>2. Service!Deliver(c)
    BY <1>1, <1>4, <2>1 DEF Deliver, Service!Deliver
  <2> QED BY <1>1, <2>2 DEF Service!Next, Service!Client
<1>5. CASE HangUp(c)
  <2>1. Service!End(c, "fin")
    BY <1>1, <1>5 DEF HangUp, Linked, Service!End
  <2> QED BY <1>1, <2>1 DEF Service!Next, Service!Client
<1>6. CASE Reset(c)
  <2>1. Service!End(c, "rst")
    BY <1>1, <1>6 DEF Reset, Linked, Service!End
  <2> QED BY <1>1, <2>1 DEF Service!Next, Service!Client
<1>7. CASE Drain(c)
  BY <1>1, <1>7, Stutters DEF Drain, ServiceVars
<1> QED BY <1>1, <1>3, <1>4, <1>5, <1>6, <1>7 DEF ClientStep

(* There are as many connections as descriptors in use.                    *)
LEMMA ConnectionsCounted ==
  ASSUME LoopInv, Admitted
  PROVE  /\ IsFiniteSet(UsedFds) /\ Cardinality(Service!Connected) \in Nat
         /\ Cardinality(UsedFds) = Cardinality(Service!Connected)
<1> DEFINE open == {c \in Clients : link[c] = "open"}
<1>1. IsFiniteSet(open)
  BY SocketsAssumption, FS_Subset
<1>2. \A fd \in UsedFds : owner[fd] \in open
  BY DEF UsedFds, Used, LoopInv, TypeOK, Owners
<1>3. \A fd, other \in UsedFds : owner[fd] = owner[other] => fd = other
  BY DEF UsedFds, LoopInv, Owners
<1>4. \A c \in open : \E fd \in UsedFds : owner[fd] = c
  BY SelectAssumption DEF UsedFds, Used, Admitted
<1>5. Service!Connected = open
  BY DEF Service!Connected
<1> HIDE DEF open
<1> QED BY <1>1, <1>2, <1>3, <1>4, <1>5, SameCount

(* A server that fails when all the descriptors below a limit are in use   *)
(* had no room left.                                                       *)
LEMMA FullMaps ==
  ASSUME LoopInv, Admitted, NEW limit \in Nat, Lesser(setting.fdLimit, setting.MaxFds) <= limit,
         FirstFd..(limit - 1) \subseteq UsedFds, Backlog # {},
         UNCHANGED ServiceVars, fate = "running", fate' # "running"
  PROVE  [Service!Next]_(Service!vars)
<1> DEFINE room == Lesser(setting.fdLimit, setting.MaxFds)
           open == Cardinality(Service!Connected)
<1>1. room \in Nat /\ FirstFd \in Nat
  BY SelectAssumption, Limits DEF Lesser
<1>2. limit - FirstFd <= open /\ open \in Nat
  BY <1>1, ConnectionsCounted, AllUsed
<1>3. open >= room - FirstFd
  <2>1. room <= limit
    OBVIOUS
  <2> HIDE DEF room, open
  <2> QED BY <1>1, <1>2, <2>1
<1>4. Service!Cardinality(Service!Connected) >= Lesser(setting.fdLimit, setting.MaxFds) - FirstFd
  BY <1>3, SameProtocol
<1>5. Service!Waiting # {}
  BY DEF Service!Waiting, Backlog
<1>6. (fate = "running")' = FALSE
  OBVIOUS
<1>7. Service!Fail
  BY <1>4, <1>5, <1>6 DEF Service!Fail, ServiceVars
<1> QED BY <1>7 DEF Service!Next, ServiceVars

(* A client is let in only while there is room.                            *)
LEMMA AdmitMaps ==
  ASSUME LoopInv, Admitted, RoomAtStart, NEW c \in Clients, NEW new \in Fds, LetIn(c, new),
         fate = "running", UNCHANGED <<script, arrived, fin, taken, sent, setting>>
  PROVE  [Service!Next]_(Service!vars)
<1> DEFINE room == Lesser(setting.fdLimit, setting.MaxFds)
           open == Cardinality(Service!Connected)
<1>1. /\ room \in Nat /\ FirstFd \in Nat /\ Fds \subseteq Nat
      /\ setting.fdLimit \in Nat /\ setting.MaxFds \in Nat
  BY SelectAssumption, ListenerApart, Limits DEF Lesser
<1>2. \A fd \in Fds : fd >= FirstFd
  BY SelectAssumption DEF Fds
<1>3. \A fd \in Nat : fd >= FirstFd /\ Fits(fd) => fd \in FirstFd..(room - 1)
  BY <1>1 DEF Lesser, Fits
<1>4. new \notin UsedFds /\ Fits(new)
  <2>1. new \in FirstFd..(setting.fdLimit - 1) /\ ~ (new >= setting.MaxFds) /\ ~ Used(new)
    BY DEF LetIn, FreeFds
  <2> QED BY <1>1, <2>1 DEF Fits, UsedFds
<1> HIDE DEF room
<1>5. UsedFds \subseteq FirstFd..(room - 1) /\ new \in FirstFd..(room - 1)
  BY <1>1, <1>2, <1>3, <1>4 DEF Admitted, UsedFds
<1>6. open < room - FirstFd
  BY <1>1, <1>4, <1>5, ConnectionsCounted, OneIsFree
<1>7. Service!Cardinality(Service!Connected) < Lesser(setting.fdLimit, setting.MaxFds) - FirstFd
  BY <1>6, SameProtocol DEF room
<1>8. sent' = [sent EXCEPT ![c] = << >>]
  <2>1. sent[c] = << >> /\ sent \in [Clients -> Seq(Byte)]
    BY DEF LetIn, Backlog, LoopInv, SocketsInv, SocketsTypeOK, Untouched
  <2> QED BY <2>1
<1>9. \E words \in {<< >>, << Service!STAR >>} : sent' = [sent EXCEPT ![c] = words]
  BY <1>8
<1>10. /\ link[c] = "backlog" /\ link' = [link EXCEPT ![c] = "open"]
       /\ (fate = "running")' = (fate = "running")
  BY DEF LetIn, Backlog
<1>11. Service!Admit(c)
  BY <1>7, <1>9, <1>10 DEF Service!Admit
<1> QED BY <1>11 DEF Service!Next

(* accept() is a step of the service, or none.                             *)
LEMMA AcceptMaps ==
  ASSUME LoopInv, Admitted, RoomAtStart, Accept
  PROVE  [Service!Next]_(Service!vars)
<1>1. /\ fate = "running"
      /\ UNCHANGED <<script, arrived, fin, taken, sent, drained, setting>>
  BY DEF Accept
<1>2. CASE AcceptNobody
  BY <1>1, <1>2, Stutters DEF AcceptNobody, ServiceVars
<1>3. /\ FirstFd \in Nat /\ Fds \subseteq Nat
      /\ setting.fdLimit \in Nat /\ setting.MaxFds \in Nat
  BY SelectAssumption, ListenerApart, Limits
<1>4. CASE AcceptRefused
  <2>1. FirstFd..(setting.fdLimit - 1) \subseteq UsedFds /\ Backlog # {}
    BY <1>4 DEF AcceptRefused, FreeFds, UsedFds, Used
  <2>2. UNCHANGED ServiceVars /\ fate' # "running"
    BY <1>1, <1>4 DEF AcceptRefused, ServiceVars
  <2>3. Lesser(setting.fdLimit, setting.MaxFds) <= setting.fdLimit
    BY <1>3 DEF Lesser
  <2> QED BY <1>1, <1>3, <2>1, <2>2, <2>3, FullMaps
<1>5. ASSUME NEW c \in Clients, NEW new \in Fds, AcceptPeer(c, new)
      PROVE  [Service!Next]_(Service!vars)
  <2>1. /\ c \in Backlog /\ new \in FreeFds /\ new \in Nat
        /\ \A other \in FreeFds : new <= other
    BY <1>3, <1>5 DEF AcceptPeer
  <2>2. CASE TooBig(new) \/ new >= setting.MaxFds
    <3>1. UNCHANGED ServiceVars /\ fate' # "running" /\ Backlog # {}
      BY <1>1, <1>5, <2>1, <2>2 DEF AcceptPeer, ServiceVars
    <3>2. FirstFd..(setting.MaxFds - 1) \subseteq UsedFds
      BY <2>1, <2>2, AllBelow DEF UsedFds, Used
    <3>3. Lesser(setting.fdLimit, setting.MaxFds) <= setting.MaxFds
      BY <1>3 DEF Lesser
    <3> QED BY <1>1, <1>3, <3>1, <3>2, <3>3, FullMaps
  <2>3. CASE ~ (TooBig(new) \/ new >= setting.MaxFds)
    <3>1. LetIn(c, new)
      BY <1>5, <2>3 DEF AcceptPeer, LetIn
    <3> QED BY <1>1, <3>1, AdmitMaps
  <2> QED BY <2>2, <2>3
<1> QED BY <1>2, <1>4, <1>5, Zenon DEF Accept

(* A handler's call is a step of the service, or none.                     *)
LEMMA HandlerMaps ==
  ASSUME LoopInv, NEW fd \in Fds, NEW c \in Clients, NEW p, NEW h, Called(fd, c, p, h),
         Outcome(c, h)
  PROVE  [Service!Next]_(Service!vars)
<1>1. /\ fate = "running" /\ fate' = h.fate /\ link[c] = "open" /\ c = owner[fd]
      /\ UNCHANGED <<script, arrived, fin, setting>>
  BY DEF Called, Answered
<1>2. CASE h.fate # "running"
  <2>1. UNCHANGED <<taken, sent, link>> /\ fin[c] = "rst"
    BY <1>2 DEF Outcome, Called, Answered
  <2>2. (fate = "running")' = FALSE
    BY <1>1, <1>2
  <2>3. Service!Fail
    BY <1>1, <2>1, <2>2 DEF Service!Fail
  <2> QED BY <1>1, <2>3 DEF Service!Next
<1>3. CASE h.fate = "running" /\ h.status = fd_status_NORW
  <2>1. /\ link' = [link EXCEPT ![c] = "closed"]
        /\ fin[c] = "fin" /\ taken[c] = arrived[c] /\ UNCHANGED <<taken, sent>>
        /\ sent[c] = Reply(Prefix(script[c], taken[c]))
    BY <1>1, <1>3 DEF Outcome, Called, Answered
  <2>2. sent[c] = Service!Owed(c)
    BY <2>1, SameProtocol DEF Service!Owed
  <2>3. (fate = "running")' = (fate = "running")
    BY <1>1, <1>3
  <2>4. Service!Close(c)
    BY <1>1, <2>1, <2>2, <2>3 DEF Service!Close
  <2> QED BY <1>1, <2>4 DEF Service!Next
<1>4. CASE h.fate = "running" /\ h.status # fd_status_NORW
  <2>1. UNCHANGED link
    BY <1>4 DEF Called, Answered
  <2>2. (fate = "running")' = (fate = "running")
    BY <1>1, <1>4
  <2>3. \E n \in taken[c]..arrived[c] :
         /\ n > taken[c] => sent[c] # << >>
         /\ taken' = [taken EXCEPT ![c] = n]
         /\ \E m \in Len(sent[c])..Len(Service!Reply(Service!Prefix(script[c], n))) :
              /\ Service!Prefix(Service!Reply(Service!Prefix(script[c], n)), Len(sent[c])) = sent[c]
              /\ sent' = [sent EXCEPT
                           ![c] = Service!Prefix(Service!Reply(Service!Prefix(script[c], n)), m)]
    BY SameProtocol, Zenon DEF Outcome, Conversing
  <2>4. Service!Converse(c)
    BY <1>1, <2>1, <2>2, <2>3 DEF Service!Converse
  <2> QED BY <1>1, <2>4 DEF Service!Next
<1> QED BY <1>2, <1>3, <1>4

(* Every step is one of the service, or none.                              *)
LEMMA StepMaps ==
  ASSUME RoomAtStart, EchoInv, LoopInv', [Next]_vars
  PROVE  [Service!Next]_(Service!vars)
<1>1. LoopInv /\ Passed /\ Admitted /\ SocketsInv /\ SocketsTypeOK /\ SocketsTypeOK'
  BY DEF EchoInv, LoopInv, SocketsInv
<1>2. CASE select
  BY <1>2, Stutters DEF select, socketVars, ServiceVars
<1>3. CASE Accept
  BY <1>1, <1>3, AcceptMaps
<1>4. ASSUME NEW fd \in Fds, HandleIn(fd) PROVE [Service!Next]_(Service!vars)
  <2>1. PICK c, p, h : \E got \in recv(c, RecvSize) :
          /\ Called(fd, c, p, h)
          /\ h = on_peer_ready_recv(p, got)
          /\ taken' = IF CallsRecv(p)
                      THEN [taken EXCEPT ![c] = @ + Len(got.bytes)] ELSE taken
          /\ UNCHANGED sent
    BY <1>1, <1>4, CallsIn
  <2>2. /\ c \in Clients /\ GoodPeer(p) /\ AccountOf(c, p)
        /\ UNCHANGED <<script, arrived, fin, sent>>
    BY <2>1 DEF Called
  <2>3. Outcome(c, h)
    BY <1>1, <2>1, <2>2, RecvOutcome
  <2> QED BY <1>1, <2>1, <2>2, <2>3, HandlerMaps
<1>5. ASSUME NEW fd \in Fds, HandleOut(fd) PROVE [Service!Next]_(Service!vars)
  <2>1. PICK c, p, h, answer :
          /\ Called(fd, c, p, h) /\ Undrained(p)
          /\ answer = send(c, Len(Staged(p)))
          /\ h = on_peer_ready_send(p, answer)
          /\ sent' = [sent EXCEPT ![c] = @ \o Prefix(Staged(p), answer.nsent)]
          /\ UNCHANGED taken
    BY <1>1, <1>5, CallsOut
  <2>2. /\ c \in Clients /\ GoodPeer(p) /\ AccountOf(c, p)
        /\ UNCHANGED <<script, arrived, fin, taken>>
        /\ sent[c] = << >> => taken[c] = 0
    BY <2>1 DEF Called
  <2>3. Outcome(c, h)
    BY <1>1, <2>1, <2>2, SendOutcome
  <2> QED BY <1>1, <2>1, <2>2, <2>3, HandlerMaps
<1>6. ASSUME NEW c \in Clients, Client(c) PROVE [Service!Next]_(Service!vars)
  BY <1>1, <1>6, ClientMaps
<1>7. CASE UNCHANGED vars
  BY <1>7, Stutters DEF vars, socketVars, serverVars, loopVars, ServiceVars
<1> QED BY <1>2, <1>3, <1>4, <1>5, <1>6, <1>7, Zenon DEF Next, Server

(* The server is an echo service with room for as many connections as      *)
(* there are descriptors: it hears and says what it should in the order it *)
(* should, closes a connection only when all is said, and fails only for a *)
(* client that was reset or for one too many.                              *)
THEOREM Refinement ==
  ASSUME RoomAtStart
  PROVE  Spec => ImplementsEchoService
<1>1. Init => Service!Init
  <2> SUFFICES ASSUME Init PROVE Service!Init
    OBVIOUS
  <2>1. Lesser(setting.fdLimit, setting.MaxFds) - FirstFd \in Nat
    BY SelectAssumption DEF Init, RoomAtStart, Lesser, Setting
  <2>2. (fate = "running") = TRUE
    BY DEF Init
  <2> QED BY <2>1, <2>2 DEF Init, SocketsInit, Service!Init, Service!ClientsInit
<1>2. Init => EchoInv
  BY LoopInit, PassedInit, AdmittedInit DEF EchoInv
<1>3. EchoInv /\ [Next]_vars => EchoInv'
  BY LoopNext, PassedNext, AdmittedNext DEF EchoInv
<1>4. EchoInv /\ EchoInv' /\ [Next]_vars => [Service!Next]_(Service!vars)
  BY StepMaps DEF EchoInv
<1> QED BY <1>1, <1>2, <1>3, <1>4, PTL DEF Spec, ImplementsEchoService, Service!Spec
=============================================================================
