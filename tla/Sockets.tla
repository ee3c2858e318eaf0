------------------------------- MODULE Sockets -------------------------------
(***************************************************************************)
(* The world around a TCP server of src/servers/: its clients, and what    *)
(* the kernel lets the server's calls on a connected socket do.  Each      *)
(* client opens one connection, sends the bytes of its script, reads what  *)
(* it is sent, and either shuts its side down (fin) or resets the          *)
(* connection (rst).  TCP delivers in order, in pieces of any size: bytes  *)
(* are delivered and read one at a time.                                   *)
(*                                                                         *)
(* The module is external to the repository: it is read off the way the    *)
(* servers and src/clients/simple_client.py use their sockets.  It has no  *)
(* Next of its own; the servers compose its client actions with theirs.    *)
(***************************************************************************)
EXTENDS EchoProtocol

CONSTANTS Clients,    \* the clients, one connection each
          Scripts,    \* the byte sequences a client may send
          SockBuf,    \* bytes the kernel takes before send() is refused
          Resets      \* whether clients may reset their connections

ASSUME SocketsAssumption ==
  /\ IsFiniteSet(Clients)
  /\ Scripts \subseteq Seq(Byte)
  /\ SockBuf \in Nat \ {0}
  /\ Resets \in BOOLEAN

VARIABLES script,     \* script[c]: what c sends, fixed at the start
          link,       \* link[c]: the connection as the server sees it
          arrived,    \* arrived[c]: bytes of the script the server's kernel has
          fin,        \* fin[c]: how c has ended the connection, if it has
          taken,      \* taken[c]: bytes recv() has returned so far
          sent,       \* sent[c]: the bytes send() has accepted so far
          drained     \* drained[c]: how many of them c has read

socketVars == <<script, link, arrived, fin, taken, sent, drained>>

LinkState == {"idle", "backlog", "open", "closed"}
FinState == {"no", "fin", "rst"}

SocketsTypeOK ==
  /\ script \in [Clients -> Scripts]
  /\ link \in [Clients -> LinkState]
  /\ arrived \in [Clients -> Nat]
  /\ fin \in [Clients -> FinState]
  /\ taken \in [Clients -> Nat]
  /\ sent \in [Clients -> Seq(Byte)]
  /\ drained \in [Clients -> Nat]
  /\ \A c \in Clients : /\ taken[c] <= arrived[c]
                        /\ arrived[c] <= Len(script[c])
                        /\ drained[c] <= Len(sent[c])

SocketsInit ==
  /\ script \in [Clients -> Scripts]
  /\ link = [c \in Clients |-> "idle"]
  /\ arrived = [c \in Clients |-> 0]
  /\ fin = [c \in Clients |-> "no"]
  /\ taken = [c \in Clients |-> 0]
  /\ sent = [c \in Clients |-> << >>]
  /\ drained = [c \in Clients |-> 0]

-----------------------------------------------------------------------------
(* What a client does.                                                     *)

Linked(c) == link[c] \in {"backlog", "open"} /\ fin[c] = "no"

Connect(c) ==
  /\ link[c] = "idle"
  /\ link' = [link EXCEPT ![c] = "backlog"]
  /\ UNCHANGED <<script, arrived, fin, taken, sent, drained>>

Deliver(c) ==
  /\ Linked(c)
  /\ arrived[c] < Len(script[c])
  /\ arrived' = [arrived EXCEPT ![c] = @ + 1]
  /\ UNCHANGED <<script, link, fin, taken, sent, drained>>

HangUp(c) ==
  /\ Linked(c)
  /\ arrived[c] = Len(script[c])
  /\ fin' = [fin EXCEPT ![c] = "fin"]
  /\ UNCHANGED <<script, link, arrived, taken, sent, drained>>

Reset(c) ==
  /\ Resets
  /\ Linked(c)
  /\ fin' = [fin EXCEPT ![c] = "rst"]
  /\ UNCHANGED <<script, link, arrived, taken, sent, drained>>

(* A client goes on reading after it has shut down its own side.           *)
Drain(c) ==
  /\ fin[c] # "rst"
  /\ drained[c] < Len(sent[c])
  /\ drained' = [drained EXCEPT ![c] = @ + 1]
  /\ UNCHANGED <<script, link, arrived, fin, taken, sent>>

ClientStep(c) == Connect(c) \/ Deliver(c) \/ HangUp(c) \/ Reset(c) \/ Drain(c)

(* What a client that does not stop half way goes on doing: it connects,   *)
(* sends its script, shuts its side down.                                  *)
Speak(c) == Connect(c) \/ Deliver(c) \/ HangUp(c)

-----------------------------------------------------------------------------
(* What the server's calls on a socket may return.                         *)

Lesser(m, n) == IF m <= n THEN m ELSE n

Backlog == {c \in Clients : link[c] = "backlog"}

Readable(c) == arrived[c] > taken[c] \/ fin[c] # "no"

Room(c) == SockBuf - (Len(sent[c]) - drained[c])
Writable(c) == Room(c) > 0 \/ fin[c] = "rst"

(* recv() of at most size bytes: bytes, nothing at the end of the stream,  *)
(* EAGAIN, or the error of a connection the client has reset (which bytes  *)
(* that arrived before the reset may precede).                             *)
Received(bytes) == [errno |-> "ok", bytes |-> bytes]
recv(c, size) ==
  LET n == Lesser(arrived[c] - taken[c], size)
  IN  (IF arrived[c] > taken[c]
       THEN {Received(SubSeq(script[c], taken[c] + 1, taken[c] + n))} ELSE {})
      \union (IF arrived[c] = taken[c] /\ fin[c] = "fin"
              THEN {Received(<< >>)} ELSE {})
      \union (IF arrived[c] = taken[c] /\ fin[c] = "no"
              THEN {[errno |-> "EAGAIN", bytes |-> << >>]} ELSE {})
      \union (IF fin[c] = "rst"
              THEN {[errno |-> "ECONNRESET", bytes |-> << >>]} ELSE {})

(* send() of len > 0 bytes: as many as the kernel has room for.            *)
send(c, len) ==
  IF fin[c] = "rst" THEN [errno |-> "ECONNRESET", nsent |-> 0]
  ELSE IF Room(c) = 0 THEN [errno |-> "EAGAIN", nsent |-> 0]
  ELSE [errno |-> "ok", nsent |-> Lesser(len, Room(c))]
=============================================================================
