--------------------------- MODULE ThreadedService ---------------------------
(***************************************************************************)
(* An EchoService that takes on a hand for each client it lets in, and has *)
(* a number of them at most.  A client that is let in while all of them    *)
(* are taken is never heard nor told anything, or makes the service fail.  *)
(* A hand is free again some time after its client's connection is closed: *)
(* until then there may be room for a client, and no hand.                 *)
(***************************************************************************)
EXTENDS EchoService

VARIABLES crew,       \* the clients that have a hand
          hands       \* how many hands there are, fixed

crewVars == <<vars, crew, hands>>

Short == Cardinality(crew) >= hands

CrewInit == Init /\ crew = {} /\ hands \in Nat

TakeOn(c) == ~ Short /\ Admit(c) /\ crew' = crew \union {c}

LeaveAlone(c) == Short /\ Admit(c) /\ UNCHANGED <<sent, crew>>

Serve(c) == c \in crew /\ (Converse(c) \/ Close(c)) /\ UNCHANGED crew

Leave(c) ==
  /\ c \in crew
  /\ link[c] = "closed"
  /\ crew' = crew \ {c}
  /\ UNCHANGED <<script, link, arrived, fin, taken, sent, up>>

RunShort ==
  /\ up
  /\ Short /\ Waiting # {}
  /\ up' = FALSE
  /\ UNCHANGED <<script, link, arrived, fin, taken, sent, crew>>

CrewNext ==
  /\ \/ \E c \in Clients : \/ Client(c) /\ UNCHANGED crew
                           \/ TakeOn(c) \/ LeaveAlone(c) \/ Serve(c) \/ Leave(c)
     \/ Fail /\ UNCHANGED crew
     \/ RunShort
  /\ UNCHANGED <<capacity, hands>>

CrewSpec == CrewInit /\ [][CrewNext]_crewVars
=============================================================================
