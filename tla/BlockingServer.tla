--------------------------- MODULE BlockingServer ---------------------------
(***************************************************************************)
(* sequential_server.c and thread_server.c: handle_connection() serves a   *)
(* client with blocking calls from the greeting to the end of its stream.  *)
(* The sequential server calls it from the accept loop, one client at a    *)
(* time; the threaded server starts a detached thread for each connection, *)
(* which lives on for a while after it has closed the connection.  A call  *)
(* that would block is an action that is not enabled.                      *)
(***************************************************************************)
EXTENDS Sockets

CONSTANTS Settings,   \* the programs and the resources they may have
          BufSize    \* sizeof(buf)

(* threaded tells thread_server.c from sequential_server.c, connections is *)
(* how many there are descriptors for, threads how many handlers           *)
(* pthread_create() can start at a time (the sequential server has one).   *)
Setting == [threaded : BOOLEAN, connections : Nat \ {0}, threads : Nat \ {0}]

ASSUME BlockingAssumption ==
  /\ Settings \subseteq {s \in Setting : s.threaded \/ s.threads = 1}
  /\ BufSize \in Nat \ {0}

VARIABLES setting,    \* fixed at the start
          fate,       \* whether the process runs or has exited
          at,         \* at[c]: where the call of handle_connection() for c stands
          state,      \* state[c]: its local variable state
          buf         \* buf[c]: the bytes of its buf it has still to look at

serverVars == <<setting, fate, at, state, buf>>
vars == <<socketVars, serverVars>>

Init ==
  /\ SocketsInit
  /\ setting \in Settings
  /\ fate = "running"
  /\ at = [c \in Clients |-> "nowhere"]
  /\ state = [c \in Clients |-> "WAIT_FOR_MSG"]
  /\ buf = [c \in Clients |-> << >>]

-----------------------------------------------------------------------------
(* The clients for whom a handler runs, and the connections that use a     *)
(* descriptor.                                                             *)
Serving == {c \in Clients : at[c] # "nowhere"}
Held == {c \in Clients : link[c] = "open"}

(* The accept loop: the sequential server is back in it only when nobody   *)
(* is being served.  The handler starts with its state reset.              *)
Accepts(c) ==
  /\ fate = "running"
  /\ setting.threaded \/ Serving = {}
  /\ c \in Backlog

Accept(c) ==
  /\ Accepts(c)
  /\ Cardinality(Held) < setting.connections
  /\ Cardinality(Serving) < setting.threads
  /\ link' = [link EXCEPT ![c] = "open"]
  /\ at' = [at EXCEPT ![c] = "greet"]
  /\ state' = [state EXCEPT ![c] = "WAIT_FOR_MSG"]
  /\ UNCHANGED <<script, arrived, fin, taken, sent, drained, setting, fate, buf>>

(* accept() fails for want of a descriptor.                                *)
AcceptRefused(c) ==
  /\ Accepts(c)
  /\ Cardinality(Held) >= setting.connections
  /\ fate' = "exited"
  /\ UNCHANGED <<socketVars, setting, at, state, buf>>

(* pthread_create() fails, which nobody notices: the connection stays open *)
(* and unserved, or the process ends, pthread_detach() being given a       *)
(* handle that is not one of a thread, which is undefined.                 *)
AcceptUnserved(c) ==
  /\ Accepts(c)
  /\ Cardinality(Held) < setting.connections
  /\ Cardinality(Serving) >= setting.threads
  /\ \/ link' = [link EXCEPT ![c] = "open"] /\ UNCHANGED fate
     \/ fate' = "exited" /\ UNCHANGED link
  /\ UNCHANGED <<script, arrived, fin, taken, sent, drained, setting, at, state, buf>>

(* handle_connection() closes the socket.                                  *)
Close(c) ==
  /\ at' = [at EXCEPT ![c] = "ending"]
  /\ link' = [link EXCEPT ![c] = "closed"]

(* Mutant: the handler does not wait for the greeting to be taken.         *)
Greet_NotBlocking(c) ==
  /\ fate = "running"
  /\ at[c] = "greet"
  /\ at' = [at EXCEPT ![c] = "recv"]
  /\ UNCHANGED <<sent, fate>>
  /\ UNCHANGED <<script, link, arrived, fin, taken, drained, setting, state, buf>>

(* The first send().  If it fails, the whole process exits.                *)
Greet(c) ==
  LET answer == send(c, 1) IN
  /\ fate = "running"
  /\ at[c] = "greet"
  /\ answer.errno # "EAGAIN"
  /\ IF answer.errno = "ok"
     THEN /\ sent' = [sent EXCEPT ![c] = Append(@, STAR)]
          /\ at' = [at EXCEPT ![c] = "recv"]
          /\ UNCHANGED fate
     ELSE /\ fate' = "exited"
          /\ UNCHANGED <<sent, at>>
  /\ UNCHANGED <<script, link, arrived, fin, taken, drained, setting, state, buf>>

(* recv() fails: the process exits.                                        *)
ReceiveError(c) ==
  /\ fate' = "exited"
  /\ UNCHANGED <<link, taken, at, buf>>

(* Mutant: the handler returns without closing the connection.             *)
ReceiveEnd_LeavesOpen(c) ==
  /\ at' = [at EXCEPT ![c] = "ending"]
  /\ UNCHANGED <<link, taken, fate, buf>>

(* recv() meets the end of the stream: the connection is closed.           *)
ReceiveEnd(c) ==
  /\ Close(c)
  /\ UNCHANGED <<taken, fate, buf>>

ReceiveBytes(c, bytes) ==
  /\ buf' = [buf EXCEPT ![c] = bytes]
  /\ taken' = [taken EXCEPT ![c] = @ + Len(bytes)]
  /\ at' = [at EXCEPT ![c] = "echo"]
  /\ UNCHANGED <<link, fate>>

Receive(c) ==
  /\ fate = "running"
  /\ at[c] = "recv"
  /\ \E got \in recv(c, BufSize) :
       \/ got.errno = "ECONNRESET" /\ ReceiveError(c)
       \/ got.errno = "ok" /\ got.bytes = << >> /\ ReceiveEnd(c)
       \/ got.errno = "ok" /\ got.bytes # << >> /\ ReceiveBytes(c, got.bytes)
  /\ UNCHANGED <<script, arrived, fin, sent, drained, setting, state>>

(* The parser's step on the next byte of buf.                              *)
Step(c) == ByteStep([state |-> state[c], out |-> << >>], Head(buf[c]))

(* The loop moves on, and calls recv() again after the last byte.          *)
MoveOn(c) ==
  /\ state' = [state EXCEPT ![c] = Step(c).state]
  /\ buf' = [buf EXCEPT ![c] = Tail(@)]
  /\ at' = [at EXCEPT ![c] = IF Len(buf[c]) = 1 THEN "recv" ELSE "echo"]

Swallow(c) ==
  /\ fate = "running"
  /\ at[c] = "echo"
  /\ Step(c).out = << >>
  /\ MoveOn(c)
  /\ UNCHANGED <<socketVars, setting, fate>>

(* A byte of a message is sent back, one send() for each.                  *)
EchoByte(c) ==
  /\ fate = "running"
  /\ at[c] = "echo"
  /\ Step(c).out # << >>
  /\ send(c, 1).errno = "ok"
  /\ MoveOn(c)
  /\ sent' = [sent EXCEPT ![c] = @ \o Step(c).out]
  /\ UNCHANGED <<script, link, arrived, fin, taken, drained, setting, fate>>

(* If send() fails the handler closes the connection, unless the error     *)
(* comes with a SIGPIPE, which nobody catches.                             *)
EchoFails(c) ==
  /\ fate = "running"
  /\ at[c] = "echo"
  /\ Step(c).out # << >>
  /\ send(c, 1).errno = "ECONNRESET"
  /\ \/ Close(c) /\ UNCHANGED fate
     \/ fate' = "exited" /\ UNCHANGED <<at, link>>
  /\ buf' = [buf EXCEPT ![c] = << >>]
  /\ UNCHANGED <<script, arrived, fin, taken, sent, drained, setting, state>>

(* The handler returns: to the accept loop, or to the end of its thread.   *)
Finish(c) ==
  /\ fate = "running"
  /\ at[c] = "ending"
  /\ at' = [at EXCEPT ![c] = "nowhere"]
  /\ UNCHANGED <<socketVars, setting, fate, state, buf>>

Client(c) == ClientStep(c) /\ UNCHANGED serverVars

Handle(c) == \/ Greet(c) \/ Receive(c)
             \/ Swallow(c) \/ EchoByte(c) \/ EchoFails(c)
             \/ Finish(c)

AcceptLoop == \E c \in Clients : Accept(c) \/ AcceptRefused(c) \/ AcceptUnserved(c)

Next == AcceptLoop \/ \E c \in Clients : Handle(c) \/ Client(c)

Spec == Init /\ [][Next]_vars

(* Every thread of the server runs when it can, every client sends its     *)
(* script to the end and reads what it is sent.                            *)
FairSpec ==
  /\ Spec
  /\ WF_vars(AcceptLoop)
  /\ \A c \in Clients : /\ WF_vars(Handle(c))
                        /\ WF_vars(Speak(c) /\ UNCHANGED serverVars)
                        /\ WF_vars(Drain(c) /\ UNCHANGED serverVars)

-----------------------------------------------------------------------------
(* A connection that was accepted and has no handler.                      *)
Orphan(c) == link[c] = "open" /\ at[c] = "nowhere"

(* How many handlers can run at a time.  The sequential server lacks none: *)
(* it accepts nobody while its only one runs.                              *)
Hands == IF setting.threaded THEN setting.threads ELSE Cardinality(Clients)

(* The server is an echo service with a thread for each connection, and    *)
(* fails a client for want of a thread only while as many run as can.      *)
Service == INSTANCE ThreadedService WITH
             capacity <- setting.connections, hands <- Hands, crew <- Serving,
             up <- fate = "running", KillSwitch <- FALSE
ImplementsThreadedService == Service!CrewSpec

(* A client that gets into the backlog is greeted, heard to the end,       *)
(* answered and closed, by the sequential server as well, for which every  *)
(* client before it must end its stream: unless the process has exited,    *)
(* or pthread_create() has failed for that very client, which cannot be    *)
(* when each client may have a thread.                                     *)
EveryClientIsServed ==
  \A c \in Clients : link[c] = "backlog" ~>
    \/ fate # "running"
    \/ Orphan(c) /\ Hands < Cardinality(Clients)
    \/ /\ link[c] = "closed"
       /\ fin[c] = "fin" => /\ drained[c] = Len(Reply(script[c]))
                            /\ Prefix(sent[c], drained[c]) = Reply(script[c])
=============================================================================
