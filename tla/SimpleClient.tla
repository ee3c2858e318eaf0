---------------------------- MODULE SimpleClient ----------------------------
(***************************************************************************)
(* src/clients/simple_client.py against any server that keeps to           *)
(* EchoService.  main() starts a number of clients at once.  Each has two  *)
(* threads: one connects, waits for '*', starts the other, sends three     *)
(* messages without waiting for an answer, joins the other and closes the  *)
(* socket; the other reads until it has seen the marker, the echo of the   *)
(* last message.                                                           *)
(*                                                                         *)
(* To close a socket before everything sent to it was read resets the      *)
(* connection, and with it most servers of the repository.                 *)
(***************************************************************************)
EXTENDS EchoProtocol, SequencesExt

CONSTANTS Clients,      \* the -n connections of main()
          Messages,     \* what a client sends, one send() each
          Marker,       \* what its reader waits for (1111)
          Capacities    \* connections the service may have room for

ASSUME SimpleClientAssumption ==
  /\ IsFiniteSet(Clients)
  /\ Messages \in Seq(Seq(Byte))
  /\ Marker \in Seq(Byte)
  /\ Capacities \subseteq Nat \ {0}

(* All that a client sends.                                                *)
Everything == FlattenSeq(Messages)

Occurs(word, bytes) ==
  \E k \in 1..(Len(bytes) - Len(word) + 1) :
    SubSeq(bytes, k, k + Len(word) - 1) = word

(* Whatever part of the reply to whatever part of all a client has been    *)
(* sent, it does not hold the marker, the '*' left aside, before it is the *)
(* reply to all of it.                                                     *)
MarkerEndsTheReply(all, marker) ==
  \A n \in 0..Len(all) : \A m \in 1..Len(Reply(Prefix(all, n))) :
    LET part == Prefix(Reply(Prefix(all, n)), m)
    IN  Occurs(marker, SubSeq(part, 2, m)) => part = Reply(all)

(* So it is for the messages of the program, whose third says 0000 last.   *)
ASSUME MarkerAssumption == MarkerEndsTheReply(Everything, Marker)

VARIABLES script, link, arrived, fin, taken, sent, up, capacity,   \* EchoService
          main,         \* main[c]: where make_new_connection() is
          reader,       \* reader[c]: where its ReadThread is
          sends,        \* sends[c]: messages sent
          read          \* read[c]: bytes that recv() has returned

serviceVars == <<script, link, arrived, fin, taken, sent, up, capacity>>
threadVars == <<main, reader, sends, read>>
clientVars == <<serviceVars, threadVars>>

Service == INSTANCE EchoService WITH
             Scripts <- {Everything}, KillSwitch <- FALSE

ClientInit ==
  /\ Service!ClientsInit
  /\ up = TRUE
  /\ capacity \in Capacities
  /\ main = [c \in Clients |-> "connect"]
  /\ reader = [c \in Clients |-> "off"]
  /\ sends = [c \in Clients |-> 0]
  /\ read = [c \in Clients |-> 0]

-----------------------------------------------------------------------------
(* The first thread.  Once the service has failed, its calls may raise an  *)
(* exception, which ends the thread.                                       *)
Raise(c) ==
  /\ ~ up
  /\ main[c] \in {"connect", "hello", "send"}
  /\ main' = [main EXCEPT ![c] = "died"]
  /\ UNCHANGED <<serviceVars, reader, sends, read>>

Connect(c) ==
  /\ up
  /\ main[c] = "connect"
  /\ Service!Connect(c)
  /\ main' = [main EXCEPT ![c] = "hello"]
  /\ UNCHANGED <<capacity, reader, sends, read>>

(* recv(1): a '*', or nothing at the end of the stream, which is logged.   *)
Hello(c) ==
  /\ main[c] = "hello"
  /\ sent[c] # << >> \/ ~ up
  /\ read' = [read EXCEPT ![c] = IF sent[c] # << >> THEN 1 ELSE 0]
  /\ main' = [main EXCEPT ![c] = "send"]
  /\ reader' = [reader EXCEPT ![c] = "reading"]
  /\ UNCHANGED <<serviceVars, sends>>

(* Mutant: the last message is not sent.                                   *)
Send_LeavesLast(c) ==
  /\ main[c] = "send"
  /\ sends' = [sends EXCEPT ![c] = @ + 1]
  /\ main' = [main EXCEPT ![c] = IF sends[c] + 2 < Len(Messages) THEN "send" ELSE "join"]
  /\ UNCHANGED <<serviceVars, reader, read>>

(* A message is sent; the kernel has room for all of it.                   *)
Send(c) ==
  /\ main[c] = "send"
  /\ sends' = [sends EXCEPT ![c] = @ + 1]
  /\ main' = [main EXCEPT ![c] = IF sends[c] + 1 < Len(Messages) THEN "send" ELSE "join"]
  /\ UNCHANGED <<serviceVars, reader, read>>

(* rthread.join(), sockobj.close().                                        *)
JoinAndClose(c) ==
  /\ main[c] = "join"
  /\ reader[c] \in {"done", "died"}
  /\ main' = [main EXCEPT ![c] = "closed"]
  /\ UNCHANGED <<serviceVars, reader, sends, read>>

-----------------------------------------------------------------------------
(* Mutant: half a marker will do.                                          *)
HasMarker_Half(before, buf) ==
  \E k \in 1..Len(before \o buf) : (before \o buf)[k] = Head(Marker)

(* b'1111' in fullbuf, where fullbuf is what came before and buf.          *)
HasMarker(before, buf) == Occurs(Marker, before \o buf)

(* The second thread: recv() returns some of what was sent; or nothing at  *)
(* the end of the stream, and then the loop spins for ever; or it raises   *)
(* the error of a connection that was lost.                                *)
Read(c) ==
  /\ reader[c] = "reading"
  /\ \/ \E n \in (read[c] + 1)..Len(sent[c]) :
          /\ read' = [read EXCEPT ![c] = n]
          /\ reader' = [reader EXCEPT ![c] =
               IF HasMarker(SubSeq(sent[c], 2, read[c]), SubSeq(sent[c], read[c] + 1, n))
               THEN "done" ELSE @]
     \/ /\ ~ up
        /\ read[c] = Len(sent[c])
        /\ reader' = [reader EXCEPT ![c] = "spins"]
        /\ UNCHANGED read
     \/ /\ ~ up
        /\ reader' = [reader EXCEPT ![c] = "died"]
        /\ UNCHANGED read
  /\ UNCHANGED <<serviceVars, main, sends>>

-----------------------------------------------------------------------------
(* TCP: what was sent arrives in order, in segments of any size, and after *)
(* it the end of the stream; a socket closed with bytes unread is reset.   *)
Arrive(c) ==
  /\ \/ /\ Service!Deliver(c)
        /\ arrived'[c] <= Len(FlattenSeq(Prefix(Messages, sends[c])))
     \/ /\ main[c] = "closed"
        /\ read[c] = Len(sent[c]) /\ arrived[c] = Len(script[c])
        /\ Service!End(c, "fin")
     \/ /\ main[c] = "closed"
        /\ read[c] < Len(sent[c])
        /\ Service!End(c, "rst")
  /\ UNCHANGED <<capacity, threadVars>>

Serve(c) ==
  /\ Service!Admit(c) \/ Service!Converse(c) \/ Service!Close(c)
  /\ UNCHANGED <<capacity, threadVars>>

Fail == Service!Fail /\ UNCHANGED <<capacity, threadVars>>

Thread(c) ==
  Connect(c) \/ Hello(c) \/ Send(c) \/ JoinAndClose(c) \/ Raise(c) \/ Read(c)

ClientNext == Fail \/ \E c \in Clients : Thread(c) \/ Arrive(c) \/ Serve(c)

ClientSpec == ClientInit /\ [][ClientNext]_clientVars

(* Threads run, segments arrive, and the service does not rest while there *)
(* is something to do for a client.                                        *)
FairClientSpec == ClientSpec /\ WF_clientVars(\E c \in Clients : Thread(c) \/ Arrive(c) \/ Serve(c))

-----------------------------------------------------------------------------
(* A reader that has seen the marker has read all its client will ever be  *)
(* sent, although the last message goes on after it: so the close() in     *)
(* make_new_connection() never resets a connection.                        *)
MarkerComesLast ==
  \A c \in Clients : reader[c] = "done" =>
    /\ SubSeq(sent[c], 1, read[c]) = Reply(Everything)
    /\ fin[c] # "rst"

(* Every client ends, in whatever pieces the echo arrives and also when    *)
(* the service has room for fewer: unless the service fails, in which case *)
(* readers may spin for ever.                                              *)
EveryClientEnds ==
  <>(~ up \/ \A c \in Clients : main[c] = "closed" /\ link[c] = "closed")
=============================================================================
