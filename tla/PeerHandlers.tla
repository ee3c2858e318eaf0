---------------------------- MODULE PeerHandlers ----------------------------
(***************************************************************************)
(* The per-connection handlers that epoll_server.c and select_server.c     *)
(* share word for word.  A handler is called with the state kept for a     *)
(* descriptor and answers with the events the main loop is to wait for     *)
(* next on it, the empty set meaning that the socket is to be closed.      *)
(*                                                                         *)
(* The handlers are operators on a peer_state_t: peer is the state they    *)
(* leave, status the fd_status_t they return, and fate tells whether the   *)
(* process survives the call (exit(1) and a failed assert() do not).       *)
(* sendbuf holds the bytes up to sendbuf_end.                              *)
(***************************************************************************)
EXTENDS EchoProtocol

CONSTANTS SendbufSize,    \* SENDBUF_SIZE
          RecvSize        \* sizeof(buf) in on_peer_ready_recv

ASSUME BufferAssumption ==
  /\ SendbufSize \in Nat
  /\ RecvSize \in Nat \ {0}
  /\ RecvSize <= SendbufSize

PeerState == [state : InternalState, sendbuf : Seq(Byte), sendptr : Nat]

Fate == {"running", "exited", "aborted"}

fd_status_R == {"in"}
fd_status_W == {"out"}
fd_status_RW == {"in", "out"}
fd_status_NORW == {}

(* Entry of the zero-initialised global_state[].                           *)
BlankPeer == [state |-> "INITIAL_ACK", sendbuf |-> << >>, sendptr |-> 0]

(* sendptr < sendbuf_end: part of what was staged is still to be sent.     *)
Undrained(p) == p.sendptr < Len(p.sendbuf)

(* The staged bytes still to be sent.                                      *)
Staged(p) == SubSeq(p.sendbuf, p.sendptr + 1, Len(p.sendbuf))

-----------------------------------------------------------------------------
(* on_peer_connected: the '*' is staged, to be sent before anything.       *)
Greeting ==
  [peer |-> [state |-> "INITIAL_ACK", sendbuf |-> << STAR >>, sendptr |-> 0],
   status |-> fd_status_W]

(* The handler returns before it calls recv() unless this holds.           *)
CallsRecv(p) == p.state # "INITIAL_ACK" /\ ~ Undrained(p)

(* Mutants: the echo is sent only once the message has ended; the parser   *)
(* state is not kept.                                                      *)
Consume_WaitsForEnd(p, bytes) ==
  LET r == Parse(p.state, bytes)
  IN  [peer   |-> [p EXCEPT !.state = r.state, !.sendbuf = @ \o r.out],
       status |-> IF r.state = "IN_MSG" THEN fd_status_R ELSE fd_status_W,
       fate   |-> "running"]
Consume_DropsState(p, bytes) ==
  LET r == Parse(p.state, bytes)
  IN  [peer   |-> [p EXCEPT !.sendbuf = @ \o r.out],
       status |-> IF r.out = << >> THEN fd_status_R ELSE fd_status_W,
       fate   |-> "running"]

(* The loop over the bytes that recv() returned.                           *)
Consume(p, bytes) ==
  LET r == Parse(p.state, bytes)
  IN  [peer   |-> [p EXCEPT !.state = r.state, !.sendbuf = @ \o r.out],
       status |-> IF r.out = << >> THEN fd_status_R ELSE fd_status_W,
       fate   |-> IF Len(p.sendbuf) + Len(r.out) <= SendbufSize
                  THEN "running" ELSE "aborted"]

(* got is what recv() answered.                                            *)
on_peer_ready_recv(p, got) ==
  IF ~ CallsRecv(p)
    THEN [peer |-> p, status |-> fd_status_W, fate |-> "running"]
  ELSE IF got.errno = "EAGAIN"
    THEN [peer |-> p, status |-> fd_status_R, fate |-> "running"]
  ELSE IF got.errno # "ok"
    THEN [peer |-> p, status |-> fd_status_NORW, fate |-> "exited"]
  ELSE IF got.bytes = << >>
    THEN [peer |-> p, status |-> fd_status_NORW, fate |-> "running"]
  ELSE Consume(p, got.bytes)

(* Mutants: sendptr is not moved on when a part was sent; the buffer is    *)
(* not emptied once it has been sent.                                      *)
on_peer_ready_send_Resends(p, answer) ==
  IF answer.errno = "ok" /\ answer.nsent < Len(Staged(p))
  THEN [peer |-> p, status |-> fd_status_W, fate |-> "running"]
  ELSE [peer |-> [state |-> IF p.state = "INITIAL_ACK" /\ answer.errno = "ok"
                            THEN "WAIT_FOR_MSG" ELSE p.state,
                  sendbuf |-> IF answer.errno = "ok" THEN << >> ELSE p.sendbuf,
                  sendptr |-> IF answer.errno = "ok" THEN 0 ELSE p.sendptr],
        status |-> IF answer.errno = "ok" THEN fd_status_R ELSE fd_status_W,
        fate |-> IF answer.errno = "ECONNRESET" THEN "exited" ELSE "running"]
on_peer_ready_send_Keeps(p, answer) ==
  IF answer.errno # "ok"
  THEN [peer |-> p, status |-> fd_status_W,
        fate |-> IF answer.errno = "EAGAIN" THEN "running" ELSE "exited"]
  ELSE [peer |-> [p EXCEPT !.sendptr = @ + answer.nsent,
                           !.state = IF @ = "INITIAL_ACK" THEN "WAIT_FOR_MSG" ELSE @],
        status |-> IF answer.nsent < Len(Staged(p)) THEN fd_status_W ELSE fd_status_R,
        fate |-> "running"]

(* The handler returns before it calls send() unless Undrained(p); answer  *)
(* is what send() returned.                                                *)
on_peer_ready_send(p, answer) ==
  IF ~ Undrained(p)
    THEN [peer |-> p, status |-> fd_status_RW, fate |-> "running"]
  ELSE IF answer.errno = "EAGAIN"
    THEN [peer |-> p, status |-> fd_status_W, fate |-> "running"]
  ELSE IF answer.errno # "ok"
    THEN [peer |-> p, status |-> fd_status_W, fate |-> "exited"]
  ELSE IF answer.nsent < Len(Staged(p))
    THEN [peer   |-> [p EXCEPT !.sendptr = @ + answer.nsent],
          status |-> fd_status_W, fate |-> "running"]
  ELSE [peer   |-> [state   |-> IF p.state = "INITIAL_ACK"
                                THEN "WAIT_FOR_MSG" ELSE p.state,
                    sendbuf |-> << >>, sendptr |-> 0],
        status |-> fd_status_R, fate |-> "running"]

-----------------------------------------------------------------------------
(* What the state of a connection has to satisfy between two handlers.     *)

(* The main loop waits for the descriptor to become writable exactly when  *)
(* bytes are staged, for it to become readable exactly when none are; a    *)
(* peer that was never greeted has its '*' staged.                         *)
WaitsForTheRightEvent(p, waitsFor) ==
  /\ waitsFor = IF Undrained(p) THEN fd_status_W ELSE fd_status_R
  /\ p.state = "INITIAL_ACK" => p.sendbuf = << STAR >>

(* Of a client of which the bytes heard were taken and to which the bytes  *)
(* said were sent: said and staged together answer heard, and the parser   *)
(* stands where one pass over heard would leave it.                        *)
Accounted(p, heard, said) ==
  LET whole == Parse("WAIT_FOR_MSG", heard)
  IN  /\ said \o Staged(p) = << STAR >> \o whole.out
      /\ p.state = IF said = << >> THEN "INITIAL_ACK" ELSE whole.state
=============================================================================
