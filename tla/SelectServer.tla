---------------------------- MODULE SelectServer ----------------------------
(***************************************************************************)
(* select_server.c: one thread that asks select() which descriptors are    *)
(* ready and then walks over them in ascending order, the read side of a   *)
(* descriptor before its write side.  The handlers are those of            *)
(* epoll_server.c; what differs is the bookkeeping of the main loop, two   *)
(* bit sets, their copies for select() to overwrite, the highest           *)
(* descriptor to watch and the number of bits left to look for.            *)
(*                                                                         *)
(* readfds and writefds hold the bits the walk has still to meet: a bit    *)
(* is taken out when the walk passes it.                                   *)
(***************************************************************************)
EXTENDS Sockets, PeerHandlers

CONSTANTS FirstFd,      \* the lowest descriptor the startup code leaves free
          Settings,     \* the limits a build on a system may have
          FdSetSize,    \* FD_SETSIZE
          Spurious,     \* whether select() may report what has not happened
          NoClient      \* the owner of a descriptor that is not in use

(* fdLimit is RLIMIT_NOFILE, MaxFds is MAXFDS.                             *)
Setting == [fdLimit : Nat, MaxFds : Nat]

(* The code has MAXFDS = 1000 and FD_SETSIZE = 1024.                       *)
ASSUME SelectAssumption ==
  /\ FirstFd \in Nat
  /\ FdSetSize \in Nat
  /\ Settings \subseteq {s \in Setting : s.MaxFds < FdSetSize}
  /\ FirstFd <= FdSetSize
  /\ Spurious \in BOOLEAN
  /\ NoClient \notin Clients

Fds == UNION {FirstFd..(s.fdLimit - 1) : s \in Settings}
Listener == FirstFd - 1
AllFds == Fds \union {Listener}

VARIABLES setting,      \* fixed at the start
          fate,         \* whether the process runs, has exited or has aborted
          owner,        \* owner[fd]: the client whose connection fd is, if any
          peer,         \* global_state[]
          readfd_set, writefd_set,    \* what to ask select() for
          fdset_max,    \* the highest descriptor to ask for
          readfds, writefds,          \* what the walk has still to meet
          nready        \* the bits select() reported, less those met

loopVars == <<readfd_set, writefd_set, fdset_max, readfds, writefds, nready>>
serverVars == <<setting, fate, owner, peer, loopVars>>
vars == <<socketVars, serverVars>>

TypeOK ==
  /\ SocketsTypeOK
  /\ setting \in Settings
  /\ fate \in Fate
  /\ owner \in [Fds -> Clients \union {NoClient}]
  /\ peer \in [Fds -> PeerState]
  /\ readfd_set \in SUBSET AllFds
  /\ writefd_set \in SUBSET Fds
  /\ fdset_max \in AllFds
  /\ readfds \in SUBSET AllFds
  /\ writefds \in SUBSET Fds
  /\ nready \in Nat

Init ==
  /\ SocketsInit
  /\ setting \in Settings
  /\ fate = "running"
  /\ owner = [fd \in Fds |-> NoClient]
  /\ peer = [fd \in Fds |-> BlankPeer]
  /\ readfd_set = {Listener}
  /\ writefd_set = {}
  /\ fdset_max = Listener
  /\ readfds = {}
  /\ writefds = {}
  /\ nready = 0

-----------------------------------------------------------------------------
Used(fd) == fd \in Fds /\ owner[fd] # NoClient
FreeFds == {fd \in FirstFd..(setting.fdLimit - 1) : ~ Used(fd)}

CanRead(fd) == IF fd = Listener THEN Backlog # {} ELSE Used(fd) /\ Readable(owner[fd])
CanWrite(fd) == Used(fd) /\ Writable(owner[fd])

(* The walk is over when it has met as many bits as select() reported, or  *)
(* has gone beyond fdset_max.                                              *)
Left == {fd \in readfds \union writefds : fd <= fdset_max}
WalkOver == nready = 0 \/ Left = {}
WalkMeets(fd) == ~ WalkOver /\ fd \in Left /\ \A other \in Left : fd <= other

select ==
  /\ fate = "running"
  /\ WalkOver
  /\ LET watched == {fd \in AllFds : fd <= fdset_max}
         asked == (readfd_set \union writefd_set) \intersect watched
     IN  \E odd \in SUBSET (IF Spurious THEN asked ELSE {}) :
           /\ readfds' = {fd \in readfd_set \intersect watched : fd \in odd \/ CanRead(fd)}
           /\ writefds' = {fd \in writefd_set \intersect watched : fd \in odd \/ CanWrite(fd)}
  /\ nready' = Cardinality(readfds') + Cardinality(writefds')
  /\ nready' > 0
  /\ UNCHANGED <<socketVars, setting, fate, owner, peer, readfd_set, writefd_set, fdset_max>>

-----------------------------------------------------------------------------
(* Mutant: FD_SET without FD_CLR.                                          *)
Update_NoClear(fd, status) ==
  /\ readfd_set' = IF "in" \in status THEN readfd_set \union {fd} ELSE readfd_set
  /\ writefd_set' = IF "out" \in status THEN writefd_set \union {fd} ELSE writefd_set

(* FD_SET or FD_CLR in both sets, as a handler has answered.               *)
Update(fd, status) ==
  /\ readfd_set' = IF "in" \in status THEN readfd_set \union {fd} ELSE readfd_set \ {fd}
  /\ writefd_set' = IF "out" \in status THEN writefd_set \union {fd} ELSE writefd_set \ {fd}

(* Mutants: nready is not counted down; it is counted down twice.          *)
Answered_NoCount(fd, h) ==
  /\ fate' = h.fate
  /\ peer' = [peer EXCEPT ![fd] = h.peer]
  /\ Update(fd, h.status)
  /\ IF h.status = fd_status_NORW /\ h.fate = "running"
     THEN /\ owner' = [owner EXCEPT ![fd] = NoClient]
          /\ link' = [link EXCEPT ![owner[fd]] = "closed"]
     ELSE UNCHANGED <<owner, link>>
  /\ UNCHANGED <<fdset_max, nready>>
Answered_CountsTwice(fd, h) ==
  /\ fate' = h.fate
  /\ peer' = [peer EXCEPT ![fd] = h.peer]
  /\ Update(fd, h.status)
  /\ nready' = nready - 2
  /\ IF h.status = fd_status_NORW /\ h.fate = "running"
     THEN /\ owner' = [owner EXCEPT ![fd] = NoClient]
          /\ link' = [link EXCEPT ![owner[fd]] = "closed"]
     ELSE UNCHANGED <<owner, link>>
  /\ UNCHANGED fdset_max

(* What the loop does with the answer of a read or a write handler.        *)
Answered(fd, h) ==
  /\ fate' = h.fate
  /\ peer' = [peer EXCEPT ![fd] = h.peer]
  /\ Update(fd, h.status)
  /\ nready' = nready - 1
  /\ IF h.status = fd_status_NORW /\ h.fate = "running"
     THEN /\ owner' = [owner EXCEPT ![fd] = NoClient]
          /\ link' = [link EXCEPT ![owner[fd]] = "closed"]
     ELSE UNCHANGED <<owner, link>>
  /\ UNCHANGED fdset_max

(* accept() found nobody: EAGAIN.                                          *)
AcceptNobody ==
  /\ Backlog = {}
  /\ UNCHANGED <<link, fate, owner, peer, readfd_set, writefd_set, fdset_max>>

(* accept() fails for want of a descriptor, and the server exits.          *)
AcceptRefused ==
  /\ Backlog # {}
  /\ FreeFds = {}
  /\ fate' = "exited"
  /\ UNCHANGED <<link, owner, peer, readfd_set, writefd_set, fdset_max>>

TooBig(fd) == fd > fdset_max /\ fd >= FdSetSize

(* Mutant: fdset_max stays behind.                                         *)
AcceptPeer_NoMax(c, fd) ==
  /\ c \in Backlog
  /\ fd \in FreeFds
  /\ \A other \in FreeFds : fd <= other
  /\ link' = [link EXCEPT ![c] = "open"]
  /\ owner' = [owner EXCEPT ![fd] = c]
  /\ peer' = [peer EXCEPT ![fd] = Greeting.peer]
  /\ Update(fd, Greeting.status)
  /\ UNCHANGED <<fate, fdset_max>>

(* Mutant: fdset_max is compared with MAXFDS, and not the descriptor.      *)
AcceptPeer_ComparesMax(c, fd) ==
  /\ c \in Backlog
  /\ fd \in FreeFds
  /\ \A other \in FreeFds : fd <= other
  /\ IF TooBig(fd) \/ fdset_max + 1 >= setting.MaxFds
     THEN /\ fate' = IF TooBig(fd) THEN "exited" ELSE "aborted"
          /\ UNCHANGED <<link, owner, peer, readfd_set, writefd_set, fdset_max>>
     ELSE /\ link' = [link EXCEPT ![c] = "open"]
          /\ owner' = [owner EXCEPT ![fd] = c]
          /\ peer' = [peer EXCEPT ![fd] = Greeting.peer]
          /\ Update(fd, Greeting.status)
          /\ fdset_max' = IF fd > fdset_max THEN fd ELSE fdset_max
          /\ UNCHANGED fate

(* accept() takes the lowest free descriptor.  It is compared with         *)
(* FD_SETSIZE when it is a new maximum; on_peer_connected asserts that it  *)
(* is < MAXFDS.  A process that ends leaves the connection unserved.       *)
AcceptPeer(c, fd) ==
  /\ c \in Backlog
  /\ fd \in FreeFds
  /\ \A other \in FreeFds : fd <= other
  /\ IF TooBig(fd) \/ fd >= setting.MaxFds
     THEN /\ fate' = IF TooBig(fd) THEN "exited" ELSE "aborted"
          /\ UNCHANGED <<link, owner, peer, readfd_set, writefd_set, fdset_max>>
     ELSE /\ link' = [link EXCEPT ![c] = "open"]
          /\ owner' = [owner EXCEPT ![fd] = c]
          /\ peer' = [peer EXCEPT ![fd] = Greeting.peer]
          /\ Update(fd, Greeting.status)
          /\ fdset_max' = IF fd > fdset_max THEN fd ELSE fdset_max
          /\ UNCHANGED fate

Accept ==
  /\ fate = "running"
  /\ WalkMeets(Listener)
  /\ \/ AcceptNobody
     \/ AcceptRefused
     \/ \E c \in Clients, fd \in Fds : AcceptPeer(c, fd)
  /\ readfds' = readfds \ {Listener}
  /\ nready' = nready - 1
  /\ UNCHANGED <<script, arrived, fin, taken, sent, drained, setting, writefds>>

(* The read side of a descriptor.                                          *)
HandleIn(fd) ==
  LET c == owner[fd] IN
  /\ fate = "running"
  /\ WalkMeets(fd) /\ fd \in readfds
  /\ \E got \in recv(c, RecvSize) :
       /\ Answered(fd, on_peer_ready_recv(peer[fd], got))
       /\ taken' = IF CallsRecv(peer[fd])
                   THEN [taken EXCEPT ![c] = @ + Len(got.bytes)] ELSE taken
  /\ readfds' = readfds \ {fd}
  /\ UNCHANGED <<script, arrived, fin, sent, drained, setting, writefds>>

(* Its write side, in the same turn of the loop and with the same copy.    *)
HandleOut(fd) ==
  LET c == owner[fd]
      p == peer[fd]
      answer == send(c, Len(Staged(p)))
  IN
  /\ fate = "running"
  /\ WalkMeets(fd) /\ fd \notin readfds
  /\ Answered(fd, on_peer_ready_send(p, answer))
  /\ sent' = IF Undrained(p)
             THEN [sent EXCEPT ![c] = @ \o Prefix(Staged(p), answer.nsent)]
             ELSE sent
  /\ writefds' = writefds \ {fd}
  /\ UNCHANGED <<script, arrived, fin, taken, drained, setting, readfds>>

Client(c) == ClientStep(c) /\ UNCHANGED serverVars

Server == select \/ Accept \/ \E fd \in Fds : HandleIn(fd) \/ HandleOut(fd)

Next == Server \/ \E c \in Clients : Client(c)

Spec == Init /\ [][Next]_vars

(* The kernel goes on running the server's only thread, and every client   *)
(* sends its script to the end and reads what it is sent.                  *)
FairSpec ==
  /\ Spec
  /\ WF_vars(Server)
  /\ \A c \in Clients : /\ WF_vars(Speak(c) /\ UNCHANGED serverVars)
                        /\ WF_vars(Drain(c) /\ UNCHANGED serverVars)

-----------------------------------------------------------------------------
Open(fd) == fate = "running" /\ Used(fd)
Asked(fd) == (IF fd \in readfd_set THEN {"in"} ELSE {})
             \union (IF fd \in writefd_set THEN {"out"} ELSE {})

(* An open descriptor is in the write set exactly when bytes are staged    *)
(* for it and in the read set exactly when none are, never in both: the    *)
(* walk would otherwise call the write handler on a descriptor the read    *)
(* handler has just closed (select_server.c:236 and 243).  A descriptor    *)
(* that is not open is in neither, and none lies beyond fdset_max.         *)
SetsMatchBuffers ==
  fate = "running" =>
    \A fd \in Fds :
      IF Used(fd) THEN WaitsForTheRightEvent(peer[fd], Asked(fd)) /\ fd <= fdset_max
                  ELSE Asked(fd) = {}

(* What the walk has still to meet is counted by nready and concerns open  *)
(* connections that still wait for it: the walk stops neither before its   *)
(* last bit nor after, and no bit outlives the connection it was set for.  *)
WalkMeetsWhatSelectReported ==
  fate = "running" =>
    /\ nready = Cardinality(readfds) + Cardinality(writefds)
    /\ readfds \subseteq readfd_set
    /\ writefds \subseteq writefd_set
    /\ \A fd \in (readfds \union writefds) \ {Listener} : Used(fd)

(* Every byte taken from a client is accounted for, as in EpollServer.     *)
NothingLostOrRepeated ==
  \A fd \in Fds : Open(fd) =>
    LET c == owner[fd]
    IN  Accounted(peer[fd], Prefix(script[c], taken[c]), sent[c])

(* Which limit stops the server, MAXFDS being the smaller: an assertion    *)
(* fails only when every descriptor below MAXFDS is a connection's and     *)
(* the system has one more to give, which the check against FD_SETSIZE     *)
(* lets through (select_server.c:201) and sockfd < MAXFDS does not         *)
(* (select_server.c:44).  So it is never the one about sendbuf_end that    *)
(* fails, nor the check against FD_SETSIZE that makes the process exit: it *)
(* exits for a connection that was reset or for want of a descriptor.      *)
StopsAtTheFirstLimit ==
  /\ fate = "aborted" =>
       /\ setting.MaxFds < setting.fdLimit
       /\ \A fd \in FirstFd..(setting.MaxFds - 1) : Used(fd)
       /\ Backlog # {}
  /\ fate = "exited" => FreeFds = {} \/ \E c \in Clients : fin[c] = "rst"

(* The server is an echo service with room for as many connections as      *)
(* there are descriptors below MAXFDS.                                     *)
Service == INSTANCE EchoService WITH
             capacity <- Lesser(setting.fdLimit, setting.MaxFds) - FirstFd,
             up <- fate = "running", KillSwitch <- FALSE
ImplementsEchoService == Service!Spec

(* A client that gets into the backlog is greeted, heard to the end,       *)
(* answered and closed, however slowly it and its neighbours read, unless  *)
(* the server has failed: nobody is left waiting by a server that runs.    *)
EveryClientIsServed ==
  \A c \in Clients : link[c] = "backlog" ~>
    \/ fate # "running"
    \/ /\ link[c] = "closed"
       /\ drained[c] = Len(Reply(script[c]))
       /\ Prefix(sent[c], drained[c]) = Reply(script[c])
=============================================================================
