----------------------------- MODULE EpollServer -----------------------------
(***************************************************************************)
(* epoll_server.c: one thread, level-triggered epoll.  The thread takes a  *)
(* batch of events from the kernel and handles them one after the other;   *)
(* clients act between any two steps.  The state of a connection is kept   *)
(* in global_state[], indexed by descriptor, and a descriptor is given to  *)
(* the next connection once it is closed.                                  *)
(*                                                                         *)
(* Initial states are those of a server about to call epoll_wait() for the *)
(* first time: the listening socket is open and registered.                *)
(***************************************************************************)
EXTENDS Sockets, PeerHandlers

CONSTANTS FirstFd,    \* the lowest descriptor the startup code leaves free
          FdLimits,   \* the values RLIMIT_NOFILE may have
          MaxFds,     \* MAXFDS
          Spurious,   \* whether epoll_wait() may report what has not happened
          NoClient    \* the owner of a descriptor that is not in use

ASSUME EpollAssumption ==
  /\ FirstFd \in Nat
  /\ FdLimits \subseteq Nat
  /\ MaxFds \in Nat
  /\ Spurious \in BOOLEAN
  /\ NoClient \notin Clients

Fds == UNION {FirstFd..(limit - 1) : limit \in FdLimits}
Listener == FirstFd - 1

VARIABLES fdLimit,    \* descriptors are smaller than this, fixed at the start
          fate,       \* whether the process runs, has exited or has aborted
          owner,      \* owner[fd]: the client whose connection fd is, if any
          peer,       \* global_state[]
          interest,   \* interest[fd]: the events fd is registered for
          batch       \* batch[fd]: the events of fd still to be handled

serverVars == <<fdLimit, fate, owner, peer, interest, batch>>
vars == <<socketVars, serverVars>>

TypeOK ==
  /\ SocketsTypeOK
  /\ fdLimit \in FdLimits
  /\ fate \in Fate
  /\ owner \in [Fds -> Clients \union {NoClient}]
  /\ peer \in [Fds -> PeerState]
  /\ interest \in [Fds -> SUBSET {"in", "out"}]
  /\ batch \in [Fds \union {Listener} -> SUBSET {"in", "out"}]

Init ==
  /\ SocketsInit
  /\ fdLimit \in FdLimits
  /\ fate = "running"
  /\ owner = [fd \in Fds |-> NoClient]
  /\ peer = [fd \in Fds |-> BlankPeer]
  /\ interest = [fd \in Fds |-> fd_status_NORW]
  /\ batch = [fd \in Fds \union {Listener} |-> {}]

-----------------------------------------------------------------------------
Used(fd) == owner[fd] # NoClient
UsedFds == {fd \in Fds : Used(fd)}
FreeFds == FirstFd..(fdLimit - 1) \ UsedFds

(* The kernel's view: what has happened on fd.                             *)
Happened(fd) ==
  IF fd = Listener THEN IF Backlog # {} THEN {"in"} ELSE {}
  ELSE IF ~ Used(fd) THEN {}
  ELSE (IF Readable(owner[fd]) THEN {"in"} ELSE {})
       \union (IF Writable(owner[fd]) THEN {"out"} ELSE {})

Registered(fd) == IF fd = Listener THEN {"in"} ELSE interest[fd]

Ready(fd) == Registered(fd) \intersect Happened(fd)

Idle == \A fd \in DOMAIN batch : batch[fd] = {}

(* epoll_wait() returns once something is ready.                           *)
EpollWait ==
  /\ fate = "running"
  /\ Idle
  /\ \E odd \in SUBSET (IF Spurious THEN DOMAIN batch ELSE {}) :
       batch' = [fd \in DOMAIN batch |->
                   IF fd \in odd THEN Registered(fd) ELSE Ready(fd)]
  /\ batch' # batch
  /\ UNCHANGED <<socketVars, fdLimit, fate, owner, peer, interest>>

-----------------------------------------------------------------------------
(* Mutants: the loop does not move on to the next event; a registration is *)
(* never modified.                                                         *)
Register_Again(fd, h) ==
  /\ fate' = h.fate
  /\ peer' = [peer EXCEPT ![fd] = h.peer]
  /\ batch' = batch
  /\ interest' = [interest EXCEPT ![fd] = h.status]
  /\ IF h.status = fd_status_NORW /\ h.fate = "running"
     THEN /\ owner' = [owner EXCEPT ![fd] = NoClient]
          /\ link' = [link EXCEPT ![owner[fd]] = "closed"]
     ELSE UNCHANGED <<owner, link>>

Register_NoMod(fd, h) ==
  /\ fate' = h.fate
  /\ peer' = [peer EXCEPT ![fd] = h.peer]
  /\ batch' = [batch EXCEPT ![fd] = {}]
  /\ IF h.status = fd_status_NORW /\ h.fate = "running"
     THEN /\ owner' = [owner EXCEPT ![fd] = NoClient]
          /\ link' = [link EXCEPT ![owner[fd]] = "closed"]
          /\ interest' = [interest EXCEPT ![fd] = {}]
     ELSE UNCHANGED <<owner, link, interest>>

(* What the loop does with the answer of a handler: close the descriptor,  *)
(* or register it for the events it is to wait for.                        *)
Register(fd, h) ==
  /\ fate' = h.fate
  /\ peer' = [peer EXCEPT ![fd] = h.peer]
  /\ batch' = [batch EXCEPT ![fd] = {}]
  /\ interest' = [interest EXCEPT ![fd] = h.status]
  /\ IF h.status = fd_status_NORW /\ h.fate = "running"
     THEN /\ owner' = [owner EXCEPT ![fd] = NoClient]
          /\ link' = [link EXCEPT ![owner[fd]] = "closed"]
     ELSE UNCHANGED <<owner, link>>

(* accept() found nobody: EAGAIN.                                          *)
AcceptNobody ==
  /\ Backlog = {}
  /\ UNCHANGED <<link, fate, owner, peer, interest>>

(* accept() fails for want of a descriptor, and the server exits.          *)
AcceptRefused ==
  /\ Backlog # {}
  /\ FreeFds = {}
  /\ fate' = "exited"
  /\ UNCHANGED <<link, owner, peer, interest>>

(* accept() takes the lowest free descriptor.  The loop lets it through    *)
(* unless it is > MAXFDS; on_peer_connected asserts that it is < MAXFDS.   *)
(* A process that ends leaves the connection unserved.                     *)
AcceptPeer(c, fd) ==
  /\ c \in Backlog
  /\ fd \in FreeFds
  /\ \A other \in FreeFds : fd <= other
  /\ IF fd >= MaxFds
     THEN /\ fate' = IF fd > MaxFds THEN "exited" ELSE "aborted"
          /\ UNCHANGED <<link, owner, peer, interest>>
     ELSE /\ link' = [link EXCEPT ![c] = "open"]
          /\ owner' = [owner EXCEPT ![fd] = c]
          /\ peer' = [peer EXCEPT ![fd] = Greeting.peer]
          /\ interest' = [interest EXCEPT ![fd] = Greeting.status]
          /\ UNCHANGED fate

Accept ==
  /\ fate = "running"
  /\ batch[Listener] # {}
  /\ \/ AcceptNobody
     \/ AcceptRefused
     \/ \E c \in Clients, fd \in Fds : AcceptPeer(c, fd)
  /\ batch' = [batch EXCEPT ![Listener] = {}]
  /\ UNCHANGED <<script, arrived, fin, taken, sent, drained, fdLimit>>

(* The EPOLLIN branch.  recv() is called only if the handler gets to it.   *)
HandleIn(fd) ==
  LET c == owner[fd] IN
  /\ fate = "running"
  /\ "in" \in batch[fd]
  /\ \E got \in recv(c, RecvSize) :
       /\ Register(fd, on_peer_ready_recv(peer[fd], got))
       /\ taken' = IF CallsRecv(peer[fd])
                   THEN [taken EXCEPT ![c] = @ + Len(got.bytes)] ELSE taken
  /\ UNCHANGED <<script, arrived, fin, sent, drained, fdLimit>>

(* The EPOLLOUT branch, taken only by an event that is not also EPOLLIN.   *)
HandleOut(fd) ==
  LET c == owner[fd]
      p == peer[fd]
      answer == send(c, Len(Staged(p)))
  IN
  /\ fate = "running"
  /\ batch[fd] = {"out"}
  /\ Register(fd, on_peer_ready_send(p, answer))
  /\ sent' = IF Undrained(p)
             THEN [sent EXCEPT ![c] = @ \o Prefix(Staged(p), answer.nsent)]
             ELSE sent
  /\ UNCHANGED <<script, arrived, fin, taken, drained, fdLimit>>

Client(c) == ClientStep(c) /\ UNCHANGED serverVars

Server == EpollWait \/ Accept \/ \E fd \in Fds : HandleIn(fd) \/ HandleOut(fd)

Next == Server \/ \E c \in Clients : Client(c)

Spec == Init /\ [][Next]_vars

(* The kernel goes on running the server's only thread, and every client   *)
(* sends its script to the end and reads what it is sent.                  *)
FairSpec ==
  /\ Spec
  /\ WF_vars(Server)
  /\ \A c \in Clients : /\ WF_vars(Speak(c) /\ UNCHANGED serverVars)
                        /\ WF_vars(Drain(c) /\ UNCHANGED serverVars)

-----------------------------------------------------------------------------
Open(fd) == fate = "running" /\ Used(fd)

(* The loop waits for a descriptor to become writable exactly when bytes   *)
(* are staged for it, and for it to become readable exactly when none are  *)
(* (epoll_server.c:62 "receive data until all data staged is sent"): a     *)
(* connection registered for the wrong event would never be heard again,   *)
(* or spin.  A descriptor that is not in use is registered for nothing.    *)
InterestMatchesBuffer ==
  fate = "running" =>
    \A fd \in Fds : IF Used(fd) THEN WaitsForTheRightEvent(peer[fd], interest[fd])
                                ELSE interest[fd] = {}

(* An event handled late in a batch still concerns the connection it was   *)
(* reported for: no earlier handler of the batch has closed it, handed its *)
(* descriptor to another client, or changed what it waits for.             *)
EventsAreFresh ==
  \A fd \in Fds : fate = "running" /\ batch[fd] # {} =>
    Used(fd) /\ batch[fd] = interest[fd]

(* Every byte the server has taken from a client is accounted for: what it *)
(* has sent and what it has staged are together the answer to what it has  *)
(* taken, whatever the sizes of the pieces and of the partial sends, and   *)
(* the parser stands where one pass over all the bytes would leave it.     *)
NothingLostOrRepeated ==
  \A fd \in Fds : Open(fd) =>
    LET c == owner[fd]
    IN  Accounted(peer[fd], Prefix(script[c], taken[c]), sent[c])

(* The assertions of the code hold, sockfd < MAXFDS and sendbuf_end        *)
(* < SENDBUF_SIZE before each append: a read never meets a full buffer.    *)
NoAssertionFails == fate # "aborted"

(* The server is an echo service with room for as many connections as      *)
(* there are descriptors, over all interleavings of events and clients.    *)
Service == INSTANCE EchoService WITH
             capacity <- Lesser(fdLimit, MaxFds) - FirstFd,
             up <- fate = "running", KillSwitch <- FALSE
ImplementsEchoService == Service!Spec

(* A client that gets into the backlog is greeted, heard to the end,       *)
(* answered and closed, however slowly it and its neighbours read, unless  *)
(* the server has failed: nobody is left waiting by a server that runs.    *)
EveryClientIsServed ==
  \A c \in Clients : link[c] = "backlog" ~>
    \/ fate # "running"
    \/ /\ link[c] = "closed"
       /\ drained[c] = Len(Reply(script[c]))
       /\ Prefix(sent[c], drained[c]) = Reply(script[c])
=============================================================================
