---------------------------- MODULE EchoProtocol ----------------------------
(***************************************************************************)
(* The byte protocol that every server of src/servers/ except the prime    *)
(* server speaks.  On a new connection the server says '*'; from then on   *)
(* it listens for messages framed as ^...$ and echoes each byte of a       *)
(* message incremented by one (a uint8_t, so 255 becomes 0).  Bytes        *)
(* outside a message are swallowed.                                        *)
(*                                                                         *)
(* The module holds the parser as the code has it, a loop over the bytes   *)
(* recv() returned, and a reference definition of the echo that mentions   *)
(* no parser state.  It declares no variable.                              *)
(***************************************************************************)
EXTENDS Integers, Sequences, FiniteSets

Byte == 0..255
STAR == 42      \* '*'
CARET == 94     \* '^'
DOLLAR == 36    \* '$'

(* The InternalState enumeration.  The blocking servers have no            *)
(* INITIAL_ACK: they say '*' before they start to parse.                   *)
InternalState == {"INITIAL_ACK", "WAIT_FOR_MSG", "IN_MSG"}

(* Mutant: the sum is kept in a wider integer.                             *)
Bump_Wide(b) == b + 1

(* buf[i] + 1, stored in a uint8_t.                                        *)
Bump(b) == IF b = 255 THEN 0 ELSE b + 1

-----------------------------------------------------------------------------
(* Mutants: a '^' inside a message starts it anew; a '$' is echoed too.    *)
ByteStep_Restart(p, b) ==
  CASE b = CARET -> [p EXCEPT !.state = "IN_MSG"]
    [] p.state = "IN_MSG" /\ b = DOLLAR -> [p EXCEPT !.state = "WAIT_FOR_MSG"]
    [] p.state = "IN_MSG" /\ b \notin {CARET, DOLLAR} -> [p EXCEPT !.out = Append(@, Bump(b))]
    [] OTHER -> p
ByteStep_EchoesEnd(p, b) ==
  CASE p.state = "WAIT_FOR_MSG" ->
         [p EXCEPT !.state = IF b = CARET THEN "IN_MSG" ELSE "WAIT_FOR_MSG"]
    [] p.state = "IN_MSG" -> [p EXCEPT !.state = IF b = DOLLAR THEN "WAIT_FOR_MSG" ELSE @,
                                       !.out = Append(@, Bump(b))]
    [] OTHER -> p

(* One turn of the switch in the receive loop.  A parse p holds the state  *)
(* and the bytes appended to the send buffer so far.                       *)
ByteStep(p, b) ==
  CASE p.state = "WAIT_FOR_MSG" ->
         [p EXCEPT !.state = IF b = CARET THEN "IN_MSG" ELSE "WAIT_FOR_MSG"]
    [] p.state = "IN_MSG" /\ b = DOLLAR -> [p EXCEPT !.state = "WAIT_FOR_MSG"]
    [] p.state = "IN_MSG" /\ b # DOLLAR -> [p EXCEPT !.out = Append(@, Bump(b))]
    [] OTHER -> p

(* Mutant: every recv() starts outside a message.                          *)
Parse_Forgets(state, bytes) ==
  LET run[i \in 0..Len(bytes)] ==
        IF i = 0 THEN [state |-> "WAIT_FOR_MSG", out |-> << >>]
                 ELSE ByteStep(run[i - 1], bytes[i])
  IN  run[Len(bytes)]

(* The loop over the bytes of one recv(), started in the given state.      *)
Parse(state, bytes) ==
  LET run[i \in 0..Len(bytes)] ==
        IF i = 0 THEN [state |-> state, out |-> << >>]
                 ELSE ByteStep(run[i - 1], bytes[i])
  IN  run[Len(bytes)]

-----------------------------------------------------------------------------
(* Reference: byte i of a conversation lies inside a message iff some '^'  *)
(* precedes it with no '$' in between.                                     *)
InMessage(bytes, i) ==
  \E j \in 1..(i - 1) : /\ bytes[j] = CARET
                        /\ \A k \in (j + 1)..(i - 1) : bytes[k] # DOLLAR

Echoed(bytes) ==
  {i \in 1..Len(bytes) : InMessage(bytes, i) /\ bytes[i] # DOLLAR}

(* The position in the echo of the echoed byte i.                          *)
Rank(bytes, i) == Cardinality({j \in Echoed(bytes) : j <= i})

Echo(bytes) ==
  [k \in 1..Cardinality(Echoed(bytes)) |->
     Bump(bytes[CHOOSE i \in Echoed(bytes) : Rank(bytes, i) = k])]

(* Everything a server owes a client that has sent these bytes.            *)
Reply(bytes) == << STAR >> \o Echo(bytes)

Prefix(s, n) == SubSeq(s, 1, n)

(* WXY in a message "enables the kill-switch in some servers"              *)
(* (simple_client.py:57).                                                  *)
AsksToStop(bytes) ==
  \E k \in 0..(Cardinality(Echoed(bytes)) - 3) :
    SubSeq(Echo(bytes), k + 1, k + 3) = << 88, 89, 90 >>
=============================================================================
