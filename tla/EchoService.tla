----------------------------- MODULE EchoService -----------------------------
(***************************************************************************)
(* What a server of src/servers/ promises its clients, whatever its IO     *)
(* model ("TCP servers, same protocol, different IO models",               *)
(* src/README.md:16): each client hears '*' first, then the echo of its    *)
(* own messages and nothing else; nobody is listened to before being       *)
(* greeted; a connection is closed only when its client has ended it and   *)
(* has been sent all it is owed; and the service fails only when a client  *)
(* has reset its connection, when more clients want to be connected than   *)
(* the service has room for, or when a client that may has asked it to     *)
(* stop.  thread_server.c promises less when it may be short of threads    *)
(* (ThreadedService).                                                      *)
(***************************************************************************)
EXTENDS EchoProtocol

CONSTANTS Clients, Scripts,
          KillSwitch      \* whether clients can ask the service to stop

VARIABLES script, link, arrived, fin, taken, sent,
          up,           \* whether the service runs
          capacity      \* connections it can hold at a time, fixed

vars == <<script, link, arrived, fin, taken, sent, up, capacity>>

Connected == {c \in Clients : link[c] = "open"}
Waiting == {c \in Clients : link[c] = "backlog"}

Owed(c) == Reply(Prefix(script[c], taken[c]))

ClientsInit ==
  /\ script \in [Clients -> Scripts]
  /\ link = [c \in Clients |-> "idle"]
  /\ arrived = [c \in Clients |-> 0]
  /\ fin = [c \in Clients |-> "no"]
  /\ taken = [c \in Clients |-> 0]
  /\ sent = [c \in Clients |-> << >>]

Init == ClientsInit /\ up = TRUE /\ capacity \in Nat

(* The environment: a client connects, its bytes arrive, and so does the   *)
(* end of its connection.                                                  *)
Connect(c) ==
  /\ link[c] = "idle"
  /\ link' = [link EXCEPT ![c] = "backlog"]
  /\ UNCHANGED <<script, arrived, fin, taken, sent, up>>

Deliver(c) ==
  /\ \E n \in (arrived[c] + 1)..Len(script[c]) :
       arrived' = [arrived EXCEPT ![c] = n]
  /\ UNCHANGED <<script, link, fin, taken, sent, up>>

End(c, how) ==
  /\ fin[c] = "no"
  /\ fin' = [fin EXCEPT ![c] = how]
  /\ UNCHANGED <<script, link, arrived, taken, sent, up>>

Client(c) == Connect(c) \/ Deliver(c) \/ \E how \in {"fin", "rst"} : End(c, how)

(* A client is let in, and may be greeted at once.                         *)
Admit(c) ==
  /\ up
  /\ link[c] = "backlog"
  /\ Cardinality(Connected) < capacity
  /\ link' = [link EXCEPT ![c] = "open"]
  /\ \E words \in {<< >>, << STAR >>} : sent' = [sent EXCEPT ![c] = words]
  /\ UNCHANGED <<script, arrived, fin, taken, up>>

(* The service listens to a client that it has greeted, says a part or the *)
(* whole of what it then owes, or does both at once.                       *)
Converse(c) ==
  /\ up
  /\ link[c] = "open"
  /\ \E n \in taken[c]..arrived[c] :
       LET owed == Reply(Prefix(script[c], n)) IN
       /\ n > taken[c] => sent[c] # << >>
       /\ taken' = [taken EXCEPT ![c] = n]
       /\ \E m \in Len(sent[c])..Len(owed) :
            /\ Prefix(owed, Len(sent[c])) = sent[c]
            /\ sent' = [sent EXCEPT ![c] = Prefix(owed, m)]
  /\ UNCHANGED <<script, link, arrived, fin, up>>

Close(c) ==
  /\ up
  /\ link[c] = "open"
  /\ \/ fin[c] = "rst"
     \/ fin[c] = "fin" /\ taken[c] = arrived[c] /\ sent[c] = Owed(c)
  /\ link' = [link EXCEPT ![c] = "closed"]
  /\ UNCHANGED <<script, arrived, fin, taken, sent, up>>

Fail ==
  /\ up
  /\ \/ \E c \in Clients : fin[c] = "rst"
     \/ Waiting # {} /\ Cardinality(Connected) >= capacity
     \/ KillSwitch /\ \E c \in Clients : AsksToStop(Prefix(script[c], taken[c]))
  /\ up' = FALSE
  /\ UNCHANGED <<script, link, arrived, fin, taken, sent>>

Next ==
  /\ \/ \E c \in Clients : Client(c) \/ Admit(c) \/ Converse(c) \/ Close(c)
     \/ Fail
  /\ UNCHANGED capacity

Spec == Init /\ [][Next]_vars
=============================================================================
