------------------------------ MODULE UvServer ------------------------------
(***************************************************************************)
(* uv_server.c: the echo protocol as callbacks of a libuv loop.  The       *)
(* handlers return before their writes are done, and reading goes on       *)
(* while a write is in flight.  All the writes of a connection point into  *)
(* its one sendbuf, which libuv does not copy: what goes out is what the   *)
(* buffer holds when the kernel takes it.                                  *)
(*                                                                         *)
(* libuv is external: uv_write() hands the kernel at once what it has room *)
(* for, unless earlier requests wait, and keeps the request queued for the *)
(* rest; the callbacks of finished requests run in order, and before the   *)
(* connection is read again; uv_close() lets what is still queued fail     *)
(* with UV_ECANCELED.                                                      *)
(***************************************************************************)
EXTENDS Sockets

CONSTANTS SENDBUF_SIZE,   \* bytes of a peer's sendbuf
          ReadSize,       \* what on_alloc_buffer() allocates (64 KB)
          Patience        \* whether clients with long answers wait for them

ASSUME UvAssumption ==
  /\ SENDBUF_SIZE \in Nat \ {0}
  /\ ReadSize \in Nat \ {0}
  /\ Patience \in BOOLEAN

VARIABLES fate,           \* whether the process runs, how it has ended
          state,          \* peer_state_t of each client
          sendbuf, sendbuf_end,
          reading,        \* reading[c]: uv_read_start() was called
          requests,       \* requests[c]: the writes of c not yet done
          finished,       \* finished[c]: the callbacks due for writes done
          freed           \* the clients whose peer_state_t was freed

peerVars == <<state, sendbuf, sendbuf_end, reading, freed>>
serverVars == <<fate, peerVars, requests, finished>>
vars == <<socketVars, serverVars>>

Callback == {"on_wrote_init_ack", "on_wrote_buf"}

TypeOK ==
  /\ SocketsTypeOK
  /\ fate \in {"running", "stopping", "stopped", "exited", "aborted"}
  /\ state \in [Clients -> InternalState]
  /\ sendbuf \in [Clients -> [1..SENDBUF_SIZE -> Byte]]
  /\ sendbuf_end \in [Clients -> 0..SENDBUF_SIZE]
  /\ reading \in [Clients -> BOOLEAN]
  /\ freed \in SUBSET Clients
  /\ \A c \in Clients :
       /\ \A k \in DOMAIN requests[c] :
            requests[c][k] \in [from : 1..SENDBUF_SIZE, to : 1..SENDBUF_SIZE, cb : Callback]
       /\ \A k \in DOMAIN finished[c] : finished[c][k] \in Callback

Init ==
  /\ SocketsInit
  /\ fate = "running"
  /\ state = [c \in Clients |-> "INITIAL_ACK"]
  /\ sendbuf = [c \in Clients |-> [k \in 1..SENDBUF_SIZE |-> 0]]
  /\ sendbuf_end = [c \in Clients |-> 0]
  /\ reading = [c \in Clients |-> FALSE]
  /\ requests = [c \in Clients |-> << >>]
  /\ finished = [c \in Clients |-> << >>]
  /\ freed = {}

(* The loop runs callbacks, until the end of the turn in which uv_stop()   *)
(* was called.                                                             *)
Alive == fate \in {"running", "stopping"}
Serves(c) == Alive /\ link[c] = "open" /\ c \notin freed

-----------------------------------------------------------------------------
(* libuv: the kernel takes what it has room for of the oldest request w,   *)
(* from the buffer as it is now.                                           *)
Written(c, w) == Lesser(w.to - w.from + 1, Room(c))

WriteOut(c, buffer, w, later) ==
  LET n == Written(c, w) IN
  /\ sent' = [sent EXCEPT ![c] = @ \o [k \in 1..n |-> buffer[w.from + k - 1]]]
  /\ IF w.from + n > w.to
     THEN /\ requests' = [requests EXCEPT ![c] = later]
          /\ finished' = [finished EXCEPT ![c] = Append(@, w.cb)]
     ELSE /\ requests' = [requests EXCEPT ![c] = << [w EXCEPT !.from = @ + n] >> \o later]
          /\ UNCHANGED finished

(* uv_write() of the first len bytes of the buffer.                        *)
uv_write(c, buffer, len, cb) ==
  LET w == [from |-> 1, to |-> len, cb |-> cb] IN
  IF requests[c] = << >> /\ fin[c] # "rst"
  THEN WriteOut(c, buffer, w, << >>)
  ELSE /\ requests' = [requests EXCEPT ![c] = Append(@, w)]
       /\ UNCHANGED <<sent, finished>>

-----------------------------------------------------------------------------
(* A connection is accepted: its '*' is written.                           *)
on_peer_connected(c) ==
  LET greeting == [sendbuf[c] EXCEPT ![1] = STAR] IN
  /\ Alive
  /\ link[c] = "backlog"
  /\ link' = [link EXCEPT ![c] = "open"]
  /\ state' = [state EXCEPT ![c] = "INITIAL_ACK"]
  /\ sendbuf' = [sendbuf EXCEPT ![c] = greeting]
  /\ sendbuf_end' = [sendbuf_end EXCEPT ![c] = 1]
  /\ uv_write(c, greeting, 1, "on_wrote_init_ack")
  /\ UNCHANGED <<script, arrived, fin, taken, drained, fate, reading, freed>>

(* uv_tcp_getpeername() finds a client that is gone, and the server exits. *)
PeerIsGone(c) ==
  /\ Alive
  /\ link[c] = "backlog"
  /\ fin[c] = "rst"
  /\ fate' = "exited"
  /\ UNCHANGED <<socketVars, peerVars, requests, finished>>

(* The loop finds the socket writable while a request is queued.           *)
WriteMore(c) ==
  /\ Serves(c)
  /\ requests[c] # << >>
  /\ fin[c] # "rst" /\ Room(c) > 0
  /\ WriteOut(c, sendbuf[c], Head(requests[c]), Tail(requests[c]))
  /\ UNCHANGED <<script, link, arrived, fin, taken, drained, fate, peerVars>>

(* The write of a connection that was reset fails, and so the server       *)
(* exits: both callbacks do, on any status but 0.                          *)
WriteFails(c) ==
  /\ Serves(c)
  /\ requests[c] # << >>
  /\ fin[c] = "rst"
  /\ fate' = "exited"
  /\ UNCHANGED <<socketVars, peerVars, requests, finished>>

NextCallback(c, cb) ==
  /\ Serves(c)
  /\ finished[c] # << >>
  /\ Head(finished[c]) = cb
  /\ finished' = [finished EXCEPT ![c] = Tail(@)]

(* The greeting has been written: start to read.                           *)
on_wrote_init_ack(c) ==
  /\ NextCallback(c, "on_wrote_init_ack")
  /\ state' = [state EXCEPT ![c] = "WAIT_FOR_MSG"]
  /\ sendbuf_end' = [sendbuf_end EXCEPT ![c] = 0]
  /\ reading' = [reading EXCEPT ![c] = TRUE]
  /\ UNCHANGED <<socketVars, fate, sendbuf, requests, freed>>

(* Mutant: the last byte alone decides.                                    *)
peer_end_Hasty(c) == sendbuf_end[c] >= 1 /\ sendbuf[c][sendbuf_end[c]] = 90

(* The buffer ends in XYZ: a client has asked the server to stop.          *)
peer_end(c) ==
  LET e == sendbuf_end[c] IN
  /\ e >= 3
  /\ SubSeq(sendbuf[c], e - 2, e) = << 88, 89, 90 >>

(* Mutant: the buffer is not emptied.                                      *)
on_wrote_buf_Keeps(c) ==
  /\ NextCallback(c, "on_wrote_buf")
  /\ UNCHANGED <<socketVars, fate, peerVars, requests>>

(* An echo has been written: the buffer is free again; or the state of the *)
(* connection is freed and the loop told to stop.                          *)
on_wrote_buf(c) ==
  /\ NextCallback(c, "on_wrote_buf")
  /\ IF peer_end(c)
     THEN /\ freed' = freed \union {c}
          /\ fate' = "stopping"
          /\ UNCHANGED sendbuf_end
     ELSE /\ sendbuf_end' = [sendbuf_end EXCEPT ![c] = 0]
          /\ UNCHANGED <<freed, fate>>
  /\ UNCHANGED <<socketVars, state, sendbuf, reading, requests>>

(* Mutant: the last byte of the buffer is not written.                     *)
ParseRead_LeavesLast(c, bytes) ==
  LET r == Parse(state[c], bytes)
      end == sendbuf_end[c] + Len(r.out)
      buffer == [k \in 1..SENDBUF_SIZE |->
                   IF k \in (sendbuf_end[c] + 1)..end
                   THEN r.out[k - sendbuf_end[c]] ELSE sendbuf[c][k]]
  IN  /\ taken' = [taken EXCEPT ![c] = @ + Len(bytes)]
      /\ state' = [state EXCEPT ![c] = r.state]
      /\ sendbuf' = [sendbuf EXCEPT ![c] = buffer]
      /\ sendbuf_end' = [sendbuf_end EXCEPT ![c] = end]
      /\ fate' = fate
      /\ IF end > 1 THEN uv_write(c, buffer, end - 1, "on_wrote_buf")
                    ELSE UNCHANGED <<sent, requests, finished>>

(* The bytes read are parsed behind what the buffer holds, and all of the  *)
(* buffer is written; an echo that does not fit in fails an assertion.     *)
ParseRead(c, bytes) ==
  LET r == Parse(state[c], bytes)
      end == sendbuf_end[c] + Len(r.out)
      buffer == [k \in 1..SENDBUF_SIZE |->
                   IF k \in (sendbuf_end[c] + 1)..end
                   THEN r.out[k - sendbuf_end[c]] ELSE sendbuf[c][k]]
  IN  /\ taken' = [taken EXCEPT ![c] = @ + Len(bytes)]
      /\ state' = [state EXCEPT ![c] = r.state]
      /\ IF end > SENDBUF_SIZE
         THEN /\ fate' = "aborted"
              /\ UNCHANGED <<sendbuf, sendbuf_end, sent, requests, finished>>
         ELSE /\ sendbuf' = [sendbuf EXCEPT ![c] = buffer]
              /\ sendbuf_end' = [sendbuf_end EXCEPT ![c] = end]
              /\ fate' = fate
              /\ IF end > 0 THEN uv_write(c, buffer, end, "on_wrote_buf")
                            ELSE UNCHANGED <<sent, requests, finished>>

(* The end of the stream, or a read error, closes the handle.  What is     *)
(* still to be written is cancelled, and the callback of a cancelled write *)
(* exits.                                                                  *)
CloseHandle(c) ==
  /\ reading' = [reading EXCEPT ![c] = FALSE]
  /\ IF requests[c] # << >>
     THEN fate' = "exited" /\ UNCHANGED link
     ELSE link' = [link EXCEPT ![c] = "closed"] /\ UNCHANGED fate
  /\ UNCHANGED <<taken, sent, state, sendbuf, sendbuf_end, requests, finished>>

on_peer_read(c) ==
  /\ Serves(c)
  /\ reading[c]
  /\ finished[c] = << >>
  /\ \E got \in recv(c, ReadSize) :
       \/ /\ got.errno = "ok" /\ got.bytes # << >>
          /\ ParseRead(c, got.bytes)
          /\ UNCHANGED <<link, reading>>
       \/ /\ got.errno # "EAGAIN" /\ got.bytes = << >>
          /\ CloseHandle(c)
  /\ UNCHANGED <<script, arrived, fin, drained, freed>>

(* client->data still points to the freed state, and a callback of the     *)
(* same turn may use it or free it again: anything may come of that.       *)
UseAfterFree(c) ==
  /\ Alive
  /\ c \in freed
  /\ finished[c] # << >> \/ Readable(c)
  /\ fate' \in {"stopped", "aborted"}
  /\ UNCHANGED <<socketVars, peerVars, requests, finished>>

(* The turn is over: uv_run() returns, and so does main().                 *)
Stop ==
  /\ fate = "stopping"
  /\ fate' = "stopped"
  /\ UNCHANGED <<socketVars, peerVars, requests, finished>>

(* A client whose answer the kernel may not take as a whole is patient: it *)
(* has read the answer to all it has sent before it sends the next segment *)
(* or shuts its side down.                                                 *)
AnswerLength(bytes) == 1 + Cardinality(Echoed(bytes))

Patient(c) == Patience /\ AnswerLength(script[c]) > SockBuf

HasReadAll(c) == drained[c] = AnswerLength(Prefix(script[c], arrived[c]))

SendSegment(c) ==
  /\ Linked(c)
  /\ \E n \in (arrived[c] + 1)..Len(script[c]) :
       arrived' = [arrived EXCEPT ![c] = n]
  /\ UNCHANGED <<script, link, fin, taken, sent, drained>>

Talk(c) ==
  /\ \/ ~ Patient(c) /\ Speak(c)
     \/ Patient(c) /\ Connect(c)
     \/ Patient(c) /\ HasReadAll(c) /\ (SendSegment(c) \/ HangUp(c))
  /\ UNCHANGED serverVars

Client(c) == Talk(c) \/ ((Reset(c) \/ Drain(c)) /\ UNCHANGED serverVars)

Loop(c) == \/ on_peer_connected(c) \/ PeerIsGone(c) \/ WriteMore(c) \/ WriteFails(c)
           \/ on_wrote_init_ack(c) \/ on_wrote_buf(c) \/ on_peer_read(c)
           \/ UseAfterFree(c)

Next == Stop \/ \E c \in Clients : Loop(c) \/ Client(c)

Spec == Init /\ [][Next]_vars

(* The loop does not rest while a handle has something to do, and clients  *)
(* send their scripts to the end and read what they are sent.              *)
FairSpec ==
  /\ Spec
  /\ WF_vars(Stop \/ \E c \in Clients : Loop(c))
  /\ WF_vars(\E c \in Clients : Talk(c) \/ (Drain(c) /\ UNCHANGED serverVars))

-----------------------------------------------------------------------------
(* While every client that could clog its connection is patient, no read   *)
(* meets a write in flight or bytes left in the buffer.                    *)
BufferIsFreeForEachRead ==
  \A c \in Clients :
    Serves(c) /\ reading[c] /\ finished[c] = << >> /\ Readable(c) /\ fin[c] # "rst" =>
    requests[c] = << >> /\ sendbuf_end[c] = 0

(* A client is sent a beginning of what it is owed and nothing else, the   *)
(* protocol being the one of the other servers (src/README.md:16 "TCP      *)
(* servers, same protocol, different IO models").                          *)
SaysOnlyWhatItOwes ==
  \A c \in Clients :
    LET owed == Reply(Prefix(script[c], taken[c]))
    IN  Len(sent[c]) <= Len(owed) /\ sent[c] = Prefix(owed, Len(sent[c]))

(* The server is an echo service, as the servers with other IO models are, *)
(* if no read comes while a write waits and none brings more than fits in  *)
(* sendbuf; it exits only when a client has reset its connection and stops *)
(* only when a client has asked for it.                                    *)
Service == INSTANCE EchoService WITH
             capacity <- Cardinality(Clients), up <- Alive, KillSwitch <- TRUE
ImplementsEchoService == Service!Spec

(* Unless the process ends, every client is served to the end or resets    *)
(* its connection: reading starts after the greeting, a write that is done *)
(* frees the buffer, and every callback comes.                             *)
EveryClientIsServed ==
  <>(\/ ~ Alive
     \/ \A c \in Clients :
          /\ link[c] = "closed"
          /\ fin[c] = "fin" => /\ drained[c] = AnswerLength(script[c])
                               /\ Prefix(sent[c], drained[c]) = Reply(script[c]))
=============================================================================
