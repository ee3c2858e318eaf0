------------------------ MODULE BlockingServerProofs ------------------------
(***************************************************************************)
(* Theorems about thread_server.c and sequential_server.c, for any number  *)
(* of clients, any scripts, any buffer size and any resources.             *)
(***************************************************************************)
EXTENDS BlockingServer, ConnectionProofs

TypeOK ==
  /\ setting \in Settings
  /\ fate \in {"running", "exited"}
  /\ at \in [Clients -> {"nowhere", "greet", "recv", "echo", "ending"}]
  /\ state \in [Clients -> InternalState]
  /\ buf \in [Clients -> Seq(Byte)]

(* What a client has been sent, said, and what its handler will still send *)
(* for the bytes left in the buffer answer all that was taken, heard; and  *)
(* the parser will then stand where one pass over all that would leave it. *)
Answers(said, heard, s, left) ==
  LET rest == Parse(s, left)
      whole == Parse("WAIT_FOR_MSG", heard)
  IN  /\ said \o rest.out = << STAR >> \o whole.out
      /\ rest.state = whole.state

Answered(c) == Answers(sent[c], Prefix(script[c], taken[c]), state[c], buf[c])

(* The handler of c, or the place for one: it has a connection until it    *)
(* ends, and none when it does.                                            *)
InPlace(c) ==
  /\ at[c] \in {"greet", "recv", "echo"} => link[c] = "open"
  /\ at[c] = "ending" => link[c] = "closed"
  /\ at[c] = "echo" <=> buf[c] # << >>
  /\ at[c] = "greet" => /\ taken[c] = 0 /\ sent[c] = << >>
                        /\ state[c] = "WAIT_FOR_MSG"
  /\ at[c] \in {"recv", "echo"} => Answered(c)

(* The inductive invariant.  What it says of the handlers holds while the  *)
(* process runs: a thread may have dropped its buffer when it exits.       *)
BlockingInv ==
  /\ TypeOK
  /\ SocketsInv
  /\ fate = "running" => \A c \in Clients : InPlace(c)

-----------------------------------------------------------------------------
(* The parser.                                                             *)

(* Parsing one byte is one step.                                           *)
LEMMA ParseOne ==
  ASSUME NEW s \in InternalState, NEW b \in Byte
  PROVE  Parse(s, << b >>) = ByteStep(Start(s), b)
<1> DEFINE bytes == << b >>
<1>1. bytes \in Seq(Byte) /\ Len(bytes) = 1 /\ bytes[1] = b
  OBVIOUS
<1> HIDE DEF bytes
<1>2. PICK f : IsRun(f, s, bytes, 1) /\ Parse(s, bytes) = f[1]
  BY <1>1, ParseRun
<1>3. f[0] = Start(s) /\ f[1] = ByteStep(f[0], bytes[1])
  <2>1. 0 \in 0..1 /\ 1 \in 0..1 /\ 1 # 0 /\ 1 - 1 = 0
    OBVIOUS
  <2> QED BY <1>2, <2>1, Zenon DEF IsRun
<1> QED BY <1>1, <1>2, <1>3 DEF bytes

(* A sequence is its first byte and the others.                            *)
LEMMA FirstAndOthers ==
  ASSUME NEW bytes \in Seq(Byte), bytes # << >>
  PROVE  /\ Head(bytes) \in Byte /\ Tail(bytes) \in Seq(Byte)
         /\ Len(bytes) \in Nat /\ Len(Tail(bytes)) = Len(bytes) - 1
         /\ Tail(bytes) = << >> <=> Len(bytes) = 1
         /\ << Head(bytes) >> \in Seq(Byte) /\ bytes = << Head(bytes) >> \o Tail(bytes)
<1> DEFINE whole == << Head(bytes) >> \o Tail(bytes)
<1>1. /\ Head(bytes) \in Byte /\ Tail(bytes) \in Seq(Byte) /\ << Head(bytes) >> \in Seq(Byte)
      /\ Len(bytes) \in Nat /\ Len(Tail(bytes)) = Len(bytes) - 1
      /\ Len(<< Head(bytes) >>) = 1
  OBVIOUS
<1>2. Tail(bytes) = << >> <=> Len(bytes) = 1
  <2>1. \A others \in Seq(Byte) : others = << >> <=> Len(others) = 0
    OBVIOUS
  <2>2. Len(Tail(bytes)) = 0 <=> Len(bytes) = 1
    BY <1>1
  <2> QED BY <1>1, <2>1, <2>2, Zenon
<1>3. whole \in Seq(Byte) /\ Len(whole) = Len(bytes)
  BY <1>1, ConcatType
<1>4. ASSUME NEW i \in 1..Len(bytes) PROVE bytes[i] = whole[i]
  OBVIOUS
<1> HIDE DEF whole
<1>5. bytes = whole
  BY <1>3, <1>4, SeqEqual
<1> QED BY <1>1, <1>2, <1>5 DEF whole

(* Parsing is a step on the first byte, and parsing the others.            *)
LEMMA ParseFirst ==
  ASSUME NEW s \in InternalState, NEW bytes \in Seq(Byte), bytes # << >>
  PROVE  LET one == ByteStep(Start(s), Head(bytes))
             others == Parse(one.state, Tail(bytes))
             whole == Parse(s, bytes)
         IN  /\ one \in Parsing /\ others \in Parsing /\ Len(one.out) <= 1
             /\ whole.state = others.state
             /\ whole.out = one.out \o others.out
<1> DEFINE first == << Head(bytes) >>
           one == ByteStep(Start(s), Head(bytes))
<1>1. /\ first \in Seq(Byte) /\ Tail(bytes) \in Seq(Byte) /\ Head(bytes) \in Byte
      /\ bytes = first \o Tail(bytes)
  BY FirstAndOthers
<1>2. Start(s) \in Parsing /\ Start(s).out = << >> /\ Len(Start(s).out) = 0
  BY DEF Start, Parsing
<1>3. one \in Parsing /\ Len(one.out) <= 1
  <2>1. one \in Parsing /\ Len(one.out) <= Len(Start(s).out) + 1
    BY <1>1, <1>2, ByteStepType
  <2>2. 0 + 1 = 1
    OBVIOUS
  <2> QED BY <1>2, <2>1, <2>2, Zenon
<1>4. Parse(s, first) = one
  BY <1>1, ParseOne
<1>5. one.state \in InternalState
  BY <1>3 DEF Parsing
<1> HIDE DEF first, one
<1>6. Parse(one.state, Tail(bytes)) \in Parsing
  BY <1>1, <1>5, ParseType
<1>7. /\ Parse(s, first \o Tail(bytes)).state = Parse(one.state, Tail(bytes)).state
      /\ Parse(s, first \o Tail(bytes)).out = one.out \o Parse(one.state, Tail(bytes)).out
  BY <1>1, <1>4, ParseConcat
<1> QED BY <1>1, <1>3, <1>6, <1>7, Zenon DEF one

-----------------------------------------------------------------------------
(* What a handler has answered, at each of its steps.                      *)

(* The bytes it has answered and those it has still to look at.            *)
LEMMA AnswersType ==
  ASSUME NEW heard \in Seq(Byte), NEW s \in InternalState, NEW left \in Seq(Byte)
  PROVE  /\ Parse(s, left) \in Parsing /\ Parse("WAIT_FOR_MSG", heard) \in Parsing
         /\ Parse(s, left).out \in Seq(Byte) /\ Parse("WAIT_FOR_MSG", heard).out \in Seq(Byte)
         /\ << STAR >> \in Seq(Byte)
<1>1. "WAIT_FOR_MSG" \in InternalState /\ << STAR >> \in Seq(Byte)
  BY DEF InternalState, STAR, Byte
<1>2. Parse(s, left) \in Parsing /\ Parse("WAIT_FOR_MSG", heard) \in Parsing
  BY <1>1, ParseType
<1> QED BY <1>1, <1>2 DEF Parsing

(* What it has said is the front of what it owes, and with nothing left in *)
(* its buffer it has said it all.                                          *)
LEMMA AnswersFront ==
  ASSUME NEW said \in Seq(Byte), NEW heard \in Seq(Byte), NEW s \in InternalState,
         NEW left \in Seq(Byte), Answers(said, heard, s, left)
  PROVE  /\ \E rest \in Seq(Byte) : said \o rest = Reply(heard)
         /\ left = << >> => said = Reply(heard)
<1>1. said \o Parse(s, left).out = Reply(heard)
  BY ReplyParsed DEF Answers
<1>2. left = << >> => Parse(s, left).out = << >>
  BY ParseNothing DEF Start
<1> QED BY <1>1, <1>2, AnswersType, ConcatNothing

(* After the greeting it has answered the nothing that it has heard.       *)
LEMMA GreetingAnswers == Answers(<< STAR >>, << >>, "WAIT_FOR_MSG", << >>)
BY DEF Answers

(* Bytes that are received into the empty buffer are still to be answered. *)
LEMMA ReceivingAnswers ==
  ASSUME NEW said \in Seq(Byte), NEW heard \in Seq(Byte), NEW s \in InternalState,
         Answers(said, heard, s, << >>), NEW bytes \in Seq(Byte)
  PROVE  Answers(said, heard \o bytes, s, bytes)
<1> DEFINE before == Parse("WAIT_FOR_MSG", heard)
           rest == Parse(s, bytes)
           whole == Parse("WAIT_FOR_MSG", heard \o bytes)
<1>1. Parse(s, << >>).out = << >> /\ Parse(s, << >>).state = s
  BY ParseNothing DEF Start
<1>2. said = << STAR >> \o before.out /\ s = before.state
  BY <1>1, ConcatNothing DEF Answers
<1>3. /\ before.out \in Seq(Byte) /\ rest.out \in Seq(Byte) /\ << STAR >> \in Seq(Byte)
  BY AnswersType
<1>4. "WAIT_FOR_MSG" \in InternalState
  BY DEF InternalState
<1>5. /\ whole.state = Parse(before.state, bytes).state
      /\ whole.out = before.out \o Parse(before.state, bytes).out
  BY <1>4, ParseConcat
<1> HIDE DEF before, rest, whole
<1>6. whole.state = rest.state /\ whole.out = before.out \o rest.out
  BY <1>2, <1>5 DEF rest
<1>7. said \o rest.out = << STAR >> \o whole.out
  <2>1. (<< STAR >> \o before.out) \o rest.out = << STAR >> \o (before.out \o rest.out)
    BY <1>3, ConcatAssoc, Zenon
  <2> QED BY <1>2, <1>6, <2>1, Zenon
<1> QED BY <1>6, <1>7 DEF Answers, rest, whole

(* The first byte left is looked at, and answered if it has to be.         *)
LEMMA SteppingAnswers ==
  ASSUME NEW said \in Seq(Byte), NEW heard \in Seq(Byte), NEW s \in InternalState,
         NEW left \in Seq(Byte), left # << >>, Answers(said, heard, s, left),
         NEW one, one = ByteStep(Start(s), Head(left))
  PROVE  /\ Answers(said \o one.out, heard, one.state, Tail(left))
         /\ one.out \in Seq(Byte) /\ Len(one.out) <= 1 /\ one.state \in InternalState
         /\ said \o one.out \in Seq(Byte)
<1> DEFINE others == Parse(one.state, Tail(left))
           whole == Parse("WAIT_FOR_MSG", heard)
<1>1. /\ one \in Parsing /\ others \in Parsing /\ Len(one.out) <= 1
      /\ Parse(s, left).state = others.state
      /\ Parse(s, left).out = one.out \o others.out
  BY ParseFirst
<1>2. /\ said \o Parse(s, left).out = << STAR >> \o whole.out
      /\ Parse(s, left).state = whole.state
  BY DEF Answers
<1> HIDE DEF others, whole
<1>3. /\ one.out \in Seq(Byte) /\ one.state \in InternalState /\ others.out \in Seq(Byte)
  BY <1>1 DEF Parsing
<1>4. (said \o one.out) \o others.out = << STAR >> \o whole.out
  <2>1. (said \o one.out) \o others.out = said \o (one.out \o others.out)
    BY <1>3, ConcatAssoc, Zenon
  <2> QED BY <1>1, <1>2, <2>1, Zenon
<1>5. said \o one.out \in Seq(Byte)
  BY <1>3, ConcatType
<1> QED BY <1>1, <1>2, <1>3, <1>4, <1>5, Zenon DEF Answers, others, whole

-----------------------------------------------------------------------------
(* What the calls of a handler do to its socket.                           *)

(* accept() and close().                                                   *)
LEMMA LinkKeeps ==
  ASSUME SocketsInv, NEW c \in Clients, NEW l \in {"open", "closed"},
         link' = [link EXCEPT ![c] = l], UNCHANGED <<script, arrived, fin, taken, sent, drained>>
  PROVE  SocketsInv'
<1>1. link' \in [Clients -> LinkState]
  BY DEF SocketsInv, SocketsTypeOK, LinkState
<1>2. \A d \in Clients : link'[d] \in {"idle", "backlog"} => link[d] \in {"idle", "backlog"}
  BY DEF SocketsInv, SocketsTypeOK
<1> QED BY <1>1, <1>2 DEF SocketsInv, SocketsTypeOK, KernelHolds, Untouched

(* recv() of some bytes.                                                   *)
LEMMA TakenKeeps ==
  ASSUME SocketsInv, NEW c \in Clients, NEW n \in Nat, taken[c] + n <= arrived[c],
         link[c] = "open", taken' = [taken EXCEPT ![c] = @ + n],
         UNCHANGED <<script, link, arrived, fin, sent, drained>>
  PROVE  SocketsInv'
BY DEF SocketsInv, SocketsTypeOK, KernelHolds, Untouched

(* send() of one byte, or of none.                                         *)
LEMMA SentKeeps ==
  ASSUME SocketsInv, NEW c \in Clients, NEW bytes \in Seq(Byte), Len(bytes) <= 1,
         bytes # << >> => send(c, 1).errno = "ok",
         link[c] = "open", sent' = [sent EXCEPT ![c] = @ \o bytes],
         UNCHANGED <<script, link, arrived, fin, taken, drained>>
  PROVE  SocketsInv'
<1> DEFINE now == sent[c] \o bytes
<1>1. /\ sent[c] \in Seq(Byte) /\ sent \in [Clients -> Seq(Byte)] /\ drained[c] \in Nat
      /\ Len(sent[c]) \in Nat /\ drained[c] <= Len(sent[c]) /\ SockBuf \in Nat
      /\ Len(sent[c]) - drained[c] <= SockBuf
  BY SocketsAssumption DEF SocketsInv, SocketsTypeOK, KernelHolds
<1>2. now \in Seq(Byte) /\ Len(now) = Len(sent[c]) + Len(bytes) /\ Len(bytes) \in Nat
  BY <1>1, ConcatType
<1>3. bytes = << >> => Len(bytes) = 0
  OBVIOUS
<1>4. ASSUME send(c, 1).errno = "ok" PROVE Len(sent[c]) + 1 - drained[c] <= SockBuf
  <2>1. 1 \in Nat \ {0}
    OBVIOUS
  <2>2. /\ send(c, 1).nsent \in 0..1 /\ send(c, 1).nsent > 0
        /\ Len(sent[c]) + send(c, 1).nsent - drained[c] <= SockBuf
    BY <1>4, <2>1, SendType
  <2>3. send(c, 1).nsent = 1
    BY <2>2
  <2> QED BY <2>2, <2>3
<1>5. Len(now) - drained[c] <= SockBuf /\ drained[c] <= Len(now)
  BY <1>1, <1>2, <1>3, <1>4
<1>6. sent' = [sent EXCEPT ![c] = now]
  OBVIOUS
<1> HIDE DEF now
<1>7. /\ sent' \in [Clients -> Seq(Byte)] /\ sent'[c] = now
      /\ \A d \in Clients \ {c} : sent'[d] = sent[d]
  BY <1>1, <1>2, <1>6
<1> QED BY <1>5, <1>7 DEF SocketsInv, SocketsTypeOK, KernelHolds, Untouched

-----------------------------------------------------------------------------
(* Every step keeps the invariant.                                         *)

(* A step that is not about d.                                             *)
SameFor(d) ==
  /\ link'[d] = link[d] /\ taken'[d] = taken[d] /\ sent'[d] = sent[d]
  /\ at'[d] = at[d] /\ state'[d] = state[d] /\ buf'[d] = buf[d]

(* A step of the handler of c leaves the others where they are.            *)
LEMMA HandlerKeeps ==
  ASSUME BlockingInv, fate = "running", UNCHANGED <<setting, script>>, NEW c \in Clients,
         TypeOK', SocketsInv', \A d \in Clients \ {c} : SameFor(d),
         fate' = "running" => InPlace(c)'
  PROVE  BlockingInv'
<1> SUFFICES ASSUME fate' = "running" PROVE \A d \in Clients : InPlace(d)'
  BY DEF BlockingInv
<1>1. ASSUME NEW d \in Clients \ {c} PROVE InPlace(d)'
  BY <1>1 DEF BlockingInv, InPlace, Answered, SameFor
<1> QED BY <1>1

(* The processes start in a state of the invariant.                        *)
LEMMA BlockingInit == Init => BlockingInv
<1> SUFFICES ASSUME Init PROVE BlockingInv
  OBVIOUS
<1>1. SocketsInv
  BY SocketsInitInv DEF Init
<1>2. TypeOK
  BY DEF Init, TypeOK, InternalState
<1>3. \A c \in Clients : link[c] = "idle" /\ at[c] = "nowhere" /\ buf[c] = << >>
  BY DEF Init, SocketsInit
<1>4. \A c \in Clients : InPlace(c)
  BY <1>3 DEF InPlace
<1> QED BY <1>1, <1>2, <1>4 DEF BlockingInv

(* A client's step does not touch its handler.                             *)
LEMMA BlockingClient ==
  ASSUME BlockingInv, NEW c \in Clients, Client(c)
  PROVE  BlockingInv'
<1>1. SocketsInv' /\ TypeOK'
  BY ClientStepInv DEF BlockingInv, Client, serverVars, TypeOK
<1>2. UNCHANGED <<setting, fate, at, state, buf, script, taken, sent>>
  BY DEF Client, serverVars, ClientStep, Connect, Deliver, HangUp, Reset, Drain
<1>3. \A d \in Clients : /\ link'[d] = "open" <=> link[d] = "open"
                         /\ link'[d] = "closed" <=> link[d] = "closed"
  BY DEF BlockingInv, SocketsInv, SocketsTypeOK, Client, ClientStep,
         Connect, Deliver, HangUp, Reset, Drain
<1>4. ASSUME NEW d \in Clients PROVE InPlace(d) => InPlace(d)'
  BY <1>2, <1>3 DEF InPlace, Answered
<1> QED BY <1>1, <1>2, <1>4 DEF BlockingInv

(* A client in the backlog has no handler.                                 *)
LEMMA BacklogFacts ==
  ASSUME BlockingInv, NEW c \in Clients, Accepts(c)
  PROVE  /\ fate = "running" /\ link[c] = "backlog" /\ at[c] = "nowhere" /\ buf[c] = << >>
         /\ taken[c] = 0 /\ sent[c] = << >>
BY DEF BlockingInv, Accepts, Backlog, InPlace, SocketsInv, Untouched, TypeOK

(* A handler is started.                                                   *)
LEMMA BlockingAccept ==
  ASSUME BlockingInv, NEW c \in Clients, Accept(c)
  PROVE  BlockingInv'
<1>1. /\ fate = "running" /\ link[c] = "backlog" /\ buf[c] = << >>
      /\ taken[c] = 0 /\ sent[c] = << >>
  BY BacklogFacts DEF Accept
<1>2. /\ link' = [link EXCEPT ![c] = "open"] /\ at' = [at EXCEPT ![c] = "greet"]
      /\ state' = [state EXCEPT ![c] = "WAIT_FOR_MSG"]
      /\ UNCHANGED <<script, arrived, fin, taken, sent, drained, setting, fate, buf>>
  BY DEF Accept
<1>3. SocketsInv'
  BY <1>2, LinkKeeps DEF BlockingInv
<1>4. TypeOK'
  BY <1>2 DEF BlockingInv, TypeOK, InternalState
<1>5. /\ link'[c] = "open" /\ at'[c] = "greet" /\ state'[c] = "WAIT_FOR_MSG"
      /\ \A d \in Clients \ {c} : SameFor(d)
  BY <1>2 DEF BlockingInv, TypeOK, SocketsInv, SocketsTypeOK, SameFor
<1>6. InPlace(c)'
  BY <1>1, <1>2, <1>5 DEF InPlace
<1> QED BY <1>1, <1>2, <1>3, <1>4, <1>5, <1>6, HandlerKeeps

(* A connection is left without a handler, or the server exits.            *)
LEMMA BlockingUnserved ==
  ASSUME BlockingInv, NEW c \in Clients, AcceptUnserved(c)
  PROVE  BlockingInv'
<1>1. /\ fate = "running" /\ link[c] = "backlog" /\ at[c] = "nowhere" /\ buf[c] = << >>
  BY BacklogFacts DEF AcceptUnserved
<1>2. UNCHANGED <<script, arrived, fin, taken, sent, drained, setting, at, state, buf>>
  BY DEF AcceptUnserved
<1>3. CASE link' = [link EXCEPT ![c] = "open"] /\ UNCHANGED fate
  <2>1. SocketsInv'
    BY <1>2, <1>3, LinkKeeps DEF BlockingInv
  <2>2. TypeOK'
    BY <1>2, <1>3 DEF BlockingInv, TypeOK
  <2>3. link'[c] = "open" /\ \A d \in Clients \ {c} : link'[d] = link[d]
    BY <1>3 DEF BlockingInv, SocketsInv, SocketsTypeOK
  <2>4. ASSUME NEW d \in Clients PROVE InPlace(d)'
    BY <1>1, <1>2, <2>3 DEF BlockingInv, InPlace, Answered
  <2> QED BY <2>1, <2>2, <2>4 DEF BlockingInv
<1>4. CASE fate' = "exited" /\ UNCHANGED link
  <2>1. SocketsInv' /\ TypeOK'
    BY <1>2, <1>4 DEF BlockingInv, SocketsInv, SocketsTypeOK, KernelHolds, Untouched, TypeOK
  <2> QED BY <1>4, <2>1 DEF BlockingInv
<1> QED BY <1>3, <1>4 DEF AcceptUnserved

(* The server exits for want of a descriptor.                              *)
LEMMA BlockingRefused ==
  ASSUME BlockingInv, NEW c \in Clients, AcceptRefused(c)
  PROVE  BlockingInv'
<1>1. SocketsInv'
  BY DEF AcceptRefused, socketVars, BlockingInv, SocketsInv, SocketsTypeOK, KernelHolds, Untouched
<1> QED BY <1>1 DEF AcceptRefused, BlockingInv, TypeOK

(* The client is greeted, or the server exits.                             *)
LEMMA BlockingGreet ==
  ASSUME BlockingInv, NEW c \in Clients, Greet(c)
  PROVE  BlockingInv'
<1>1. /\ fate = "running" /\ at[c] = "greet"
      /\ UNCHANGED <<script, link, arrived, fin, taken, drained, setting, state, buf>>
  BY DEF Greet
<1>2. /\ link[c] = "open" /\ buf[c] = << >> /\ taken[c] = 0 /\ sent[c] = << >>
      /\ state[c] = "WAIT_FOR_MSG"
  BY <1>1 DEF BlockingInv, InPlace
<1>3. CASE send(c, 1).errno = "ok"
  <2>1. /\ sent' = [sent EXCEPT ![c] = Append(@, STAR)] /\ at' = [at EXCEPT ![c] = "recv"]
        /\ UNCHANGED fate
    BY <1>3 DEF Greet
  <2>2. << STAR >> \in Seq(Byte) /\ Len(<< STAR >>) <= 1
    BY DEF STAR, Byte
  <2>3. /\ sent \in [Clients -> Seq(Byte)] /\ Append(sent[c], STAR) = sent[c] \o << STAR >>
        /\ Append(sent[c], STAR) = << STAR >>
    BY <1>2 DEF BlockingInv, SocketsInv, SocketsTypeOK
  <2>4. sent' = [sent EXCEPT ![c] = @ \o << STAR >>]
    BY <2>1, <2>3
  <2>5. SocketsInv'
    BY <1>1, <1>2, <1>3, <2>2, <2>4, SentKeeps DEF BlockingInv
  <2>6. TypeOK'
    BY <1>1, <2>1 DEF BlockingInv, TypeOK
  <2>7. /\ sent'[c] = << STAR >> /\ at'[c] = "recv"
        /\ \A d \in Clients \ {c} : SameFor(d)
    BY <1>1, <2>1, <2>3 DEF BlockingInv, TypeOK, SameFor
  <2>8. Prefix(script[c], 0) = << >>
    <3>1. script[c] \in Seq(Byte)
      BY SocketsAssumption DEF BlockingInv, SocketsInv, SocketsTypeOK
    <3> QED BY <3>1 DEF Prefix
  <2>9. Answered(c)'
    BY <1>1, <1>2, <2>7, <2>8, GreetingAnswers, Zenon DEF Answered
  <2>10. InPlace(c)'
    BY <1>1, <1>2, <2>7, <2>9 DEF InPlace
  <2> QED BY <1>1, <2>5, <2>6, <2>7, <2>10, HandlerKeeps
<1>4. CASE send(c, 1).errno # "ok"
  <2>1. fate' = "exited" /\ UNCHANGED <<sent, at>>
    BY <1>4 DEF Greet
  <2>2. SocketsInv' /\ TypeOK'
    BY <1>1, <2>1 DEF BlockingInv, SocketsInv, SocketsTypeOK, KernelHolds, Untouched, TypeOK
  <2> QED BY <2>1, <2>2 DEF BlockingInv
<1> QED BY <1>3, <1>4

(* The stream of a client, and the handler's variables.                    *)
LEMMA HandlerType ==
  ASSUME TypeOK, SocketsTypeOK, NEW c \in Clients
  PROVE  /\ state[c] \in InternalState /\ buf[c] \in Seq(Byte) /\ script[c] \in Seq(Byte)
         /\ sent[c] \in Seq(Byte) /\ taken[c] \in Nat /\ taken[c] <= Len(script[c])
         /\ Prefix(script[c], taken[c]) \in Seq(Byte)
<1>1. /\ state[c] \in InternalState /\ buf[c] \in Seq(Byte) /\ script[c] \in Seq(Byte)
      /\ sent[c] \in Seq(Byte) /\ taken[c] \in Nat /\ arrived[c] \in Nat
      /\ taken[c] <= arrived[c] /\ arrived[c] <= Len(script[c]) /\ Len(script[c]) \in Nat
  BY SocketsAssumption DEF TypeOK, SocketsTypeOK
<1>2. taken[c] <= Len(script[c])
  BY <1>1
<1>3. Prefix(script[c], taken[c]) \in Seq(Byte)
  BY <1>1, <1>2, PrefixGrows
<1> QED BY <1>1, <1>2, <1>3

(* What recv() returned is in the buffer, and still to be answered.        *)
LEMMA ReceivedAnswers ==
  ASSUME TypeOK, SocketsTypeOK, NEW c \in Clients, Answered(c), buf[c] = << >>,
         NEW got \in recv(c, BufSize), ReceiveBytes(c, got.bytes),
         UNCHANGED <<script, sent, state>>
  PROVE  /\ Answered(c)' /\ buf'[c] = got.bytes /\ at'[c] = "echo"
         /\ taken[c] + Len(got.bytes) <= arrived[c] /\ Len(got.bytes) \in Nat
         /\ got.bytes \in Seq(Byte)
<1> DEFINE heard == Prefix(script[c], taken[c])
           k == Len(got.bytes)
<1>1. BufSize \in Nat
  BY BlockingAssumption
<1>2. /\ got.bytes \in Seq(Byte) /\ taken[c] + k <= arrived[c]
      /\ got.bytes = SubSeq(script[c], taken[c] + 1, taken[c] + k)
  BY <1>1, RecvType
<1>3. /\ script[c] \in Seq(Byte) /\ sent[c] \in Seq(Byte) /\ taken[c] \in Nat
      /\ arrived[c] \in Nat /\ arrived[c] <= Len(script[c]) /\ Len(script[c]) \in Nat
      /\ state[c] \in InternalState /\ k \in Nat
  BY <1>2, SocketsAssumption DEF SocketsTypeOK, TypeOK
<1>4. taken[c] + k \in Nat /\ taken[c] <= taken[c] + k /\ taken[c] + k <= Len(script[c])
  BY <1>2, <1>3
<1>5. heard \in Seq(Byte) /\ heard \o got.bytes = Prefix(script[c], taken[c] + k)
  <2>1. /\ heard \in Seq(Byte)
        /\ heard \o SubSeq(script[c], taken[c] + 1, taken[c] + k)
             = Prefix(script[c], taken[c] + k)
    BY <1>3, <1>4, PrefixGrows, Zenon
  <2> QED BY <1>2, <2>1, Zenon
<1>6. buf'[c] = got.bytes /\ taken'[c] = taken[c] + k /\ at'[c] = "echo"
  BY DEF ReceiveBytes, TypeOK, SocketsTypeOK
<1>7. Answers(sent[c], heard, state[c], << >>)
  BY DEF Answered
<1> HIDE DEF heard, k
<1>8. Answers(sent[c], heard \o got.bytes, state[c], got.bytes)
  BY <1>2, <1>3, <1>5, <1>7, ReceivingAnswers
<1>9. Answered(c)'
  BY <1>5, <1>6, <1>8, Zenon DEF Answered
<1> QED BY <1>2, <1>3, <1>6, <1>9 DEF k

(* A handler takes what has arrived, or ends with its client's stream, or  *)
(* takes the process with it.                                              *)
LEMMA BlockingReceive ==
  ASSUME BlockingInv, NEW c \in Clients, Receive(c)
  PROVE  BlockingInv'
<1>1. /\ fate = "running" /\ at[c] = "recv"
      /\ UNCHANGED <<script, arrived, fin, sent, drained, setting, state>>
  BY DEF Receive
<1>2. link[c] = "open" /\ buf[c] = << >> /\ Answered(c)
  BY <1>1 DEF BlockingInv, InPlace
<1>3. PICK got \in recv(c, BufSize) :
        \/ got.errno = "ECONNRESET" /\ ReceiveError(c)
        \/ got.errno = "ok" /\ got.bytes = << >> /\ ReceiveEnd(c)
        \/ got.errno = "ok" /\ got.bytes # << >> /\ ReceiveBytes(c, got.bytes)
  BY DEF Receive
<1>4. CASE ReceiveError(c)
  <2>1. SocketsInv' /\ TypeOK'
    BY <1>1, <1>4 DEF ReceiveError, BlockingInv, SocketsInv, SocketsTypeOK, KernelHolds,
                      Untouched, TypeOK
  <2> QED BY <1>4, <2>1 DEF ReceiveError, BlockingInv
<1>5. CASE ReceiveEnd(c)
  <2>1. /\ at' = [at EXCEPT ![c] = "ending"] /\ link' = [link EXCEPT ![c] = "closed"]
        /\ UNCHANGED <<taken, fate, buf>>
    BY <1>5 DEF ReceiveEnd, Close
  <2>2. SocketsInv'
    BY <1>1, <2>1, LinkKeeps DEF BlockingInv
  <2>3. TypeOK'
    BY <1>1, <2>1 DEF BlockingInv, TypeOK
  <2>4. /\ link'[c] = "closed" /\ at'[c] = "ending"
        /\ \A d \in Clients \ {c} : SameFor(d)
    BY <1>1, <2>1 DEF BlockingInv, TypeOK, SocketsInv, SocketsTypeOK, SameFor
  <2>5. InPlace(c)'
    BY <1>2, <2>1, <2>4 DEF InPlace
  <2> QED BY <1>1, <1>2, <2>2, <2>3, <2>4, <2>5, HandlerKeeps
<1>6. CASE got.bytes # << >> /\ ReceiveBytes(c, got.bytes)
  <2>1. /\ buf' = [buf EXCEPT ![c] = got.bytes]
        /\ taken' = [taken EXCEPT ![c] = @ + Len(got.bytes)]
        /\ at' = [at EXCEPT ![c] = "echo"] /\ UNCHANGED <<link, fate>>
    BY <1>6 DEF ReceiveBytes
  <2>2. /\ Answered(c)' /\ buf'[c] = got.bytes /\ at'[c] = "echo"
        /\ taken[c] + Len(got.bytes) <= arrived[c] /\ Len(got.bytes) \in Nat
        /\ got.bytes \in Seq(Byte)
    BY <1>1, <1>2, <1>6, ReceivedAnswers DEF BlockingInv, SocketsInv
  <2>3. SocketsInv'
    BY <1>1, <1>2, <2>1, <2>2, TakenKeeps DEF BlockingInv
  <2>4. TypeOK'
    BY <1>1, <2>1, <2>2 DEF BlockingInv, TypeOK
  <2>5. \A d \in Clients \ {c} : SameFor(d)
    BY <1>1, <2>1 DEF BlockingInv, TypeOK, SocketsInv, SocketsTypeOK, SameFor
  <2>6. InPlace(c)'
    BY <1>2, <1>6, <2>1, <2>2 DEF InPlace
  <2> QED BY <1>1, <1>2, <2>1, <2>3, <2>4, <2>5, <2>6, HandlerKeeps
<1> QED BY <1>3, <1>4, <1>5, <1>6

(* The next byte is looked at, and answered if it has to be: a handler     *)
(* that has looked at its last byte receives again.                        *)
LEMMA BlockingMoveOn ==
  ASSUME BlockingInv, NEW c \in Clients, fate = "running", at[c] = "echo", MoveOn(c),
         sent' = [sent EXCEPT ![c] = @ \o Step(c).out],
         Step(c).out # << >> => send(c, 1).errno = "ok",
         UNCHANGED <<script, link, arrived, fin, taken, drained, setting, fate>>
  PROVE  BlockingInv' /\ Step(c).out \in Seq(Byte)
<1> DEFINE heard == Prefix(script[c], taken[c])
           one == Step(c)
<1>1. link[c] = "open" /\ buf[c] # << >> /\ Answered(c)
  BY DEF BlockingInv, InPlace
<1>2. /\ state[c] \in InternalState /\ buf[c] \in Seq(Byte) /\ script[c] \in Seq(Byte)
      /\ sent[c] \in Seq(Byte) /\ taken[c] \in Nat /\ taken[c] <= Len(script[c])
      /\ heard \in Seq(Byte)
  BY HandlerType DEF BlockingInv, SocketsInv
<1>3. one = ByteStep(Start(state[c]), Head(buf[c]))
  BY DEF Step, Start
<1>4. Answers(sent[c], heard, state[c], buf[c])
  BY <1>1 DEF Answered
<1> HIDE DEF heard, one
<1>5. /\ Answers(sent[c] \o one.out, heard, one.state, Tail(buf[c]))
      /\ one.out \in Seq(Byte) /\ Len(one.out) <= 1 /\ one.state \in InternalState
      /\ sent[c] \o one.out \in Seq(Byte)
  BY <1>1, <1>2, <1>3, <1>4, SteppingAnswers
<1>6. Tail(buf[c]) \in Seq(Byte) /\ (Tail(buf[c]) = << >> <=> Len(buf[c]) = 1)
  BY <1>1, <1>2, FirstAndOthers
<1>7. /\ state' = [state EXCEPT ![c] = one.state] /\ buf' = [buf EXCEPT ![c] = Tail(buf[c])]
      /\ at' = [at EXCEPT ![c] = IF Len(buf[c]) = 1 THEN "recv" ELSE "echo"]
      /\ sent' = [sent EXCEPT ![c] = sent[c] \o one.out]
  BY DEF MoveOn, one
<1>8. /\ state'[c] = one.state /\ buf'[c] = Tail(buf[c]) /\ sent'[c] = sent[c] \o one.out
      /\ at'[c] = IF Len(buf[c]) = 1 THEN "recv" ELSE "echo"
      /\ \A d \in Clients \ {c} : SameFor(d)
  BY <1>7 DEF BlockingInv, TypeOK, SocketsInv, SocketsTypeOK, SameFor
<1>9. Answered(c)'
  BY <1>5, <1>8, Zenon DEF Answered, heard
<1>10. TypeOK'
  BY <1>5, <1>6, <1>7 DEF BlockingInv, TypeOK
<1>11. SocketsInv'
  <2>1. /\ sent' = [sent EXCEPT ![c] = @ \o one.out]
        /\ one.out # << >> => send(c, 1).errno = "ok"
    BY DEF one
  <2> QED BY <1>1, <1>5, <2>1, SentKeeps DEF BlockingInv
<1>12. InPlace(c)'
  BY <1>1, <1>6, <1>8, <1>9 DEF InPlace
<1>13. BlockingInv'
  BY <1>1, <1>8, <1>10, <1>11, <1>12, HandlerKeeps
<1> QED BY <1>5, <1>13 DEF one

(* A byte outside of a message.                                            *)
LEMMA BlockingSwallow ==
  ASSUME BlockingInv, NEW c \in Clients, Swallow(c)
  PROVE  BlockingInv'
<1>1. /\ fate = "running" /\ at[c] = "echo" /\ MoveOn(c) /\ Step(c).out = << >>
      /\ UNCHANGED <<script, link, arrived, fin, taken, sent, drained, setting, fate>>
  BY DEF Swallow, socketVars
<1>2. sent' = [sent EXCEPT ![c] = @ \o Step(c).out]
  <2>1. sent \in [Clients -> Seq(Byte)] /\ sent[c] \in Seq(Byte)
    BY DEF BlockingInv, SocketsInv, SocketsTypeOK
  <2>2. sent[c] \o Step(c).out = sent[c]
    BY <1>1, <2>1, ConcatNothing
  <2> QED BY <1>1, <2>1, <2>2
<1> QED BY <1>1, <1>2, BlockingMoveOn

(* A byte of a message.                                                    *)
LEMMA BlockingEcho ==
  ASSUME BlockingInv, NEW c \in Clients, EchoByte(c)
  PROVE  BlockingInv'
BY BlockingMoveOn DEF EchoByte

(* The client has reset the connection: the handler ends, or the process.  *)
LEMMA BlockingEchoFails ==
  ASSUME BlockingInv, NEW c \in Clients, EchoFails(c)
  PROVE  BlockingInv'
<1>1. /\ fate = "running" /\ at[c] = "echo" /\ buf' = [buf EXCEPT ![c] = << >>]
      /\ UNCHANGED <<script, arrived, fin, taken, sent, drained, setting, state>>
  BY DEF EchoFails
<1>2. link[c] = "open"
  BY <1>1 DEF BlockingInv, InPlace
<1>3. CASE Close(c) /\ UNCHANGED fate
  <2>1. at' = [at EXCEPT ![c] = "ending"] /\ link' = [link EXCEPT ![c] = "closed"]
    BY <1>3 DEF Close
  <2>2. SocketsInv'
    BY <1>1, <2>1, LinkKeeps DEF BlockingInv
  <2>3. TypeOK'
    BY <1>1, <1>3, <2>1 DEF BlockingInv, TypeOK
  <2>4. /\ link'[c] = "closed" /\ at'[c] = "ending" /\ buf'[c] = << >>
        /\ \A d \in Clients \ {c} : SameFor(d)
    BY <1>1, <2>1 DEF BlockingInv, TypeOK, SocketsInv, SocketsTypeOK, SameFor
  <2>5. InPlace(c)'
    BY <2>4 DEF InPlace
  <2> QED BY <1>1, <1>2, <2>2, <2>3, <2>4, <2>5, HandlerKeeps
<1>4. CASE fate' = "exited" /\ UNCHANGED <<at, link>>
  <2>1. SocketsInv' /\ TypeOK'
    BY <1>1, <1>4 DEF BlockingInv, SocketsInv, SocketsTypeOK, KernelHolds, Untouched, TypeOK
  <2> QED BY <1>4, <2>1 DEF BlockingInv
<1> QED BY <1>3, <1>4 DEF EchoFails

(* The handler is gone.                                                    *)
LEMMA BlockingFinish ==
  ASSUME BlockingInv, NEW c \in Clients, Finish(c)
  PROVE  BlockingInv'
<1>1. /\ fate = "running" /\ at[c] = "ending" /\ at' = [at EXCEPT ![c] = "nowhere"]
      /\ UNCHANGED <<script, link, arrived, fin, taken, sent, drained, setting, fate, state, buf>>
  BY DEF Finish, socketVars
<1>2. SocketsInv' /\ TypeOK'
  BY <1>1 DEF BlockingInv, SocketsInv, SocketsTypeOK, KernelHolds, Untouched, TypeOK
<1>3. at'[c] = "nowhere" /\ \A d \in Clients \ {c} : SameFor(d)
  BY <1>1 DEF BlockingInv, TypeOK, SameFor
<1>4. InPlace(c)'
  BY <1>1, <1>3 DEF BlockingInv, InPlace
<1> QED BY <1>1, <1>2, <1>3, <1>4, HandlerKeeps

(* The invariant is kept.                                                  *)
LEMMA BlockingNext == BlockingInv /\ [Next]_vars => BlockingInv'
<1> SUFFICES ASSUME BlockingInv, [Next]_vars PROVE BlockingInv'
  OBVIOUS
<1>1. CASE UNCHANGED vars
  BY <1>1 DEF vars, socketVars, serverVars, BlockingInv, TypeOK, SocketsInv, SocketsTypeOK,
              KernelHolds, Untouched, InPlace, Answered
<1>2. ASSUME NEW c \in Clients, Handle(c) PROVE BlockingInv'
  BY <1>2, BlockingGreet, BlockingReceive, BlockingSwallow, BlockingEcho, BlockingEchoFails,
     BlockingFinish
     DEF Handle
<1>3. CASE AcceptLoop
  BY <1>3, BlockingAccept, BlockingRefused, BlockingUnserved DEF AcceptLoop
<1> QED BY <1>1, <1>2, <1>3, BlockingClient DEF Next

-----------------------------------------------------------------------------
(* The server is an echo service with a hand for each client.              *)

(* What the service is made of.                                            *)
ServiceVars == <<script, link, arrived, fin, taken, sent, setting>>

(* A handler is neither started nor gone.                                  *)
SameCrew == \A d \in Clients : at'[d] = "nowhere" <=> at[d] = "nowhere"

(* The service speaks of the same protocol.                                *)
LEMMA SameProtocol ==
  /\ Service!STAR = STAR
  /\ \A S : Service!Cardinality(S) = Cardinality(S)
  /\ \A s, n : Service!Prefix(s, n) = Prefix(s, n)
  /\ \A s : Service!Reply(s) = Reply(s)
<1>1. Service!STAR = STAR
  BY DEF Service!STAR, STAR
<1>2. ASSUME NEW S PROVE Service!Cardinality(S) = Cardinality(S)
  BY DEF Service!Cardinality, Cardinality
<1>3. ASSUME NEW s, NEW n PROVE Service!Prefix(s, n) = Prefix(s, n)
  BY DEF Service!Prefix, Prefix
<1>4. ASSUME NEW s PROVE Service!Echo(s) = Echo(s)
  BY DEF Service!Echo, Echo, Service!Cardinality, Cardinality, Service!Rank, Rank, Service!Bump, Bump,
         Service!Echoed, Echoed, Service!InMessage, InMessage, Service!CARET, CARET,
         Service!DOLLAR, DOLLAR
<1>5. ASSUME NEW s PROVE Service!Reply(s) = Reply(s)
  BY <1>1, <1>4 DEF Service!Reply, Reply
<1> QED BY <1>1, <1>2, <1>3, <1>5

(* The crew and the number of its hands stay as they are.                  *)
LEMMA CrewStays ==
  ASSUME SameCrew, UNCHANGED setting
  PROVE  UNCHANGED <<Serving, Hands>> /\ UNCHANGED setting.connections
BY DEF SameCrew, Serving, Hands

(* A step that changes none of this is none of the service's.              *)
LEMMA Stutters ==
  ASSUME UNCHANGED ServiceVars, UNCHANGED fate, SameCrew
  PROVE  [Service!CrewNext]_(Service!crewVars)
<1>1. UNCHANGED <<Serving, Hands>> /\ UNCHANGED setting.connections
  BY CrewStays DEF ServiceVars
<1>2. UNCHANGED Service!crewVars
  BY <1>1 DEF Service!crewVars, Service!vars, ServiceVars
<1> QED BY <1>2

(* The steps of a client are its steps there.                              *)
LEMMA ClientMaps ==
  ASSUME BlockingInv, NEW c \in Clients, Client(c)
  PROVE  [Service!CrewNext]_(Service!crewVars)
<1>1. UNCHANGED <<setting, fate, at>> /\ ClientStep(c)
  BY DEF Client, serverVars
<1>2. script[c] \in Seq(Byte) /\ Len(script[c]) \in Nat /\ arrived[c] \in Nat
  BY SocketsAssumption DEF BlockingInv, SocketsInv, SocketsTypeOK
<1>3. SameCrew
  BY <1>1 DEF SameCrew
<1>4. UNCHANGED <<Serving, Hands>> /\ UNCHANGED setting.connections
  BY <1>1, <1>3, CrewStays
<1>5. ASSUME Service!Client(c) PROVE Service!CrewNext
  BY <1>4, <1>5 DEF Service!CrewNext
<1>6. CASE Connect(c)
  <2>1. Service!Connect(c)
    BY <1>1, <1>6 DEF Connect, Service!Connect
  <2> QED BY <1>5, <2>1 DEF Service!Client
<1>7. CASE Deliver(c)
  <2>1. arrived[c] + 1 \in (arrived[c] + 1)..Len(script[c])
    BY <1>2, <1>7 DEF Deliver
  <2>2. Service!Deliver(c)
    BY <1>1, <1>7, <2>1 DEF Deliver, Service!Deliver
  <2> QED BY <1>5, <2>2 DEF Service!Client
<1>8. CASE HangUp(c)
  <2>1. Service!End(c, "fin")
    BY <1>1, <1>8 DEF HangUp, Linked, Service!End
  <2> QED BY <1>5, <2>1 DEF Service!Client
<1>9. CASE Reset(c)
  <2>1. Service!End(c, "rst")
    BY <1>1, <1>9 DEF Reset, Linked, Service!End
  <2> QED BY <1>5, <2>1 DEF Service!Client
<1>10. CASE Drain(c)
  BY <1>1, <1>3, <1>10, Stutters DEF Drain, ServiceVars
<1> QED BY <1>1, <1>6, <1>7, <1>8, <1>9, <1>10 DEF ClientStep

(* The resources are what they should be, and the sequential server has    *)
(* hands enough for everyone who is in the backlog.                        *)
LEMMA HandsType ==
  ASSUME TypeOK
  PROVE  /\ setting.connections \in Nat /\ setting.threads \in Nat \ {0}
         /\ ~ setting.threaded => setting.threads = 1
         /\ Hands \in Nat
<1>1. setting \in Setting /\ (setting.threaded \/ setting.threads = 1)
  BY BlockingAssumption DEF TypeOK
<1>2. Cardinality(Clients) \in Nat
  BY SocketsAssumption, FS_CardinalityType
<1> QED BY <1>1, <1>2 DEF Setting, Hands

(* What the accept loop counts is what the service counts.                 *)
LEMMA ShortMaps ==
  ASSUME TypeOK, NEW c \in Clients, Accepts(c)
  PROVE  Service!Short <=> Cardinality(Serving) >= setting.threads
<1>1. Service!Short <=> Cardinality(Serving) >= Hands
  BY SameProtocol DEF Service!Short
<1>2. CASE setting.threaded
  BY <1>1, <1>2 DEF Hands
<1>3. CASE ~ setting.threaded
  <2>1. Cardinality(Serving) = 0
    BY <1>3, FS_EmptySet DEF Accepts
  <2>2. Cardinality(Clients) \in Nat /\ Cardinality(Clients) # 0
    BY SocketsAssumption, FS_CardinalityType, FS_EmptySet
  <2>3. Hands = Cardinality(Clients) /\ setting.threads = 1
    BY <1>3, HandsType DEF Hands
  <2> QED BY <1>1, <2>1, <2>2, <2>3
<1> QED BY <1>2, <1>3

(* A client is let in only while there is a descriptor for it, and is not  *)
(* told anything yet.                                                      *)
LEMMA LetInMaps ==
  ASSUME BlockingInv, NEW c \in Clients, Accepts(c),
         Cardinality(Held) < setting.connections,
         link' = [link EXCEPT ![c] = "open"],
         UNCHANGED <<script, arrived, fin, taken, sent, fate>>
  PROVE  Service!Admit(c)
<1>1. fate = "running" /\ link[c] = "backlog" /\ sent[c] = << >>
  BY BacklogFacts
<1>2. Service!Cardinality(Service!Connected) < setting.connections
  BY SameProtocol DEF Service!Connected, Held
<1>3. \E words \in {<< >>, << Service!STAR >>} : sent' = [sent EXCEPT ![c] = words]
  <2>1. sent' = [sent EXCEPT ![c] = << >>]
    BY <1>1 DEF BlockingInv, SocketsInv, SocketsTypeOK
  <2> QED BY <2>1
<1>4. (fate = "running")' = (fate = "running")
  OBVIOUS
<1> QED BY <1>1, <1>2, <1>3, <1>4 DEF Service!Admit

(* A client is given a handler only while there is one for it.             *)
LEMMA AcceptMaps ==
  ASSUME BlockingInv, NEW c \in Clients, Accept(c)
  PROVE  [Service!CrewNext]_(Service!crewVars)
<1>1. /\ Accepts(c) /\ at' = [at EXCEPT ![c] = "greet"]
      /\ UNCHANGED setting /\ Cardinality(Serving) < setting.threads
  BY DEF Accept
<1>2. Service!Admit(c)
  BY LetInMaps DEF Accept
<1>3. TypeOK /\ at \in [Clients -> {"nowhere", "greet", "recv", "echo", "ending"}]
  BY DEF BlockingInv, TypeOK
<1>4. Serving' = Serving \union {c}
  BY <1>1, <1>3 DEF Serving
<1>5. ~ (Cardinality(Serving) >= setting.threads)
  <2>1. Cardinality(Serving) \in Nat
    BY SocketsAssumption, FS_Subset, FS_CardinalityType DEF Serving
  <2> QED BY <1>1, <1>3, <2>1, HandsType
<1>6. ~ Service!Short
  BY <1>1, <1>3, <1>5, ShortMaps
<1>7. UNCHANGED Hands /\ UNCHANGED setting.connections
  BY <1>1 DEF Hands
<1>8. Service!TakeOn(c)
  BY <1>2, <1>4, <1>6 DEF Service!TakeOn
<1> QED BY <1>7, <1>8 DEF Service!CrewNext

(* The server fails when it has no descriptor for a client that waits, or  *)
(* for a client that has been reset.                                       *)
LEMMA FailMaps ==
  ASSUME fate = "running", fate' # "running", UNCHANGED ServiceVars, SameCrew,
         \/ \E c \in Clients : fin[c] = "rst"
         \/ Backlog # {} /\ Cardinality(Held) >= setting.connections
  PROVE  [Service!CrewNext]_(Service!crewVars)
<1>1. (fate = "running")' = FALSE
  OBVIOUS
<1>2. Service!Waiting = Backlog /\ Service!Connected = Held
  BY DEF Service!Waiting, Backlog, Service!Connected, Held
<1>3. Service!Fail
  BY <1>1, <1>2, SameProtocol DEF Service!Fail, ServiceVars
<1>4. UNCHANGED <<Serving, Hands>> /\ UNCHANGED setting.connections
  BY CrewStays DEF ServiceVars
<1> QED BY <1>3, <1>4 DEF Service!CrewNext

(* accept() has no descriptor.                                             *)
LEMMA RefusedMaps ==
  ASSUME BlockingInv, NEW c \in Clients, AcceptRefused(c)
  PROVE  [Service!CrewNext]_(Service!crewVars)
<1>1. fate = "running" /\ c \in Backlog /\ Cardinality(Held) >= setting.connections
  BY DEF AcceptRefused, Accepts
<1>2. fate' # "running" /\ UNCHANGED ServiceVars /\ SameCrew
  BY DEF AcceptRefused, ServiceVars, socketVars, SameCrew
<1> QED BY <1>1, <1>2, FailMaps

(* A connection is left without a handler, or the server exits, only while *)
(* all the handlers there can be are taken.                                *)
LEMMA UnservedMaps ==
  ASSUME BlockingInv, NEW c \in Clients, AcceptUnserved(c)
  PROVE  [Service!CrewNext]_(Service!crewVars)
<1>1. /\ Accepts(c) /\ fate = "running" /\ c \in Backlog /\ TypeOK
      /\ Cardinality(Held) < setting.connections /\ Cardinality(Serving) >= setting.threads
      /\ UNCHANGED <<script, arrived, fin, taken, sent, setting, at>>
  BY DEF AcceptUnserved, Accepts, BlockingInv
<1>2. Service!Short
  BY <1>1, ShortMaps
<1>3. UNCHANGED <<Serving, Hands>> /\ UNCHANGED setting.connections
  <2>1. SameCrew
    BY <1>1 DEF SameCrew
  <2> QED BY <1>1, <2>1, CrewStays
<1>4. CASE link' = [link EXCEPT ![c] = "open"] /\ UNCHANGED fate
  <2>1. Service!Admit(c)
    BY <1>1, <1>4, LetInMaps
  <2>2. Service!LeaveAlone(c)
    BY <1>1, <1>2, <1>3, <2>1 DEF Service!LeaveAlone
  <2> QED BY <1>3, <2>2 DEF Service!CrewNext
<1>5. CASE fate' = "exited" /\ UNCHANGED link
  <2>1. (fate = "running")' = FALSE
    BY <1>5
  <2>2. Service!Waiting # {}
    BY <1>1 DEF Service!Waiting, Backlog
  <2>3. Service!RunShort
    BY <1>1, <1>2, <1>3, <1>5, <2>1, <2>2 DEF Service!RunShort
  <2> QED BY <1>3, <2>3 DEF Service!CrewNext
<1> QED BY <1>4, <1>5 DEF AcceptUnserved

(* What a handler does for its client.                                     *)
LEMMA ServeMaps ==
  ASSUME NEW c \in Clients, at[c] # "nowhere", SameCrew, UNCHANGED setting,
         Service!Converse(c) \/ Service!Close(c)
  PROVE  [Service!CrewNext]_(Service!crewVars)
<1>1. UNCHANGED <<Serving, Hands>> /\ UNCHANGED setting.connections
  BY CrewStays
<1>2. c \in Serving
  BY DEF Serving
<1>3. Service!Serve(c)
  BY <1>1, <1>2 DEF Service!Serve
<1> QED BY <1>1, <1>3 DEF Service!CrewNext

(* A client is heard, or told more.                                        *)
LEMMA ConverseMaps ==
  ASSUME NEW c \in Clients, fate = "running", link[c] = "open", at[c] # "nowhere",
         at'[c] # "nowhere", \A d \in Clients \ {c} : at'[d] = at[d], Conversing(c),
         UNCHANGED <<script, link, arrived, fin, setting, fate>>
  PROVE  [Service!CrewNext]_(Service!crewVars)
<1>1. (fate = "running")' = (fate = "running")
  OBVIOUS
<1>2. \E n \in taken[c]..arrived[c] :
        /\ n > taken[c] => sent[c] # << >>
        /\ taken' = [taken EXCEPT ![c] = n]
        /\ \E m \in Len(sent[c])..Len(Service!Reply(Service!Prefix(script[c], n))) :
             /\ Service!Prefix(Service!Reply(Service!Prefix(script[c], n)), Len(sent[c])) = sent[c]
             /\ sent' = [sent EXCEPT
                          ![c] = Service!Prefix(Service!Reply(Service!Prefix(script[c], n)), m)]
  BY SameProtocol, Zenon DEF Conversing
<1>3. Service!Converse(c)
  BY <1>1, <1>2 DEF Service!Converse
<1>4. SameCrew
  BY DEF SameCrew
<1> QED BY <1>3, <1>4, ServeMaps

(* A connection is closed when its client has reset it, or has ended it    *)
(* and been told everything; its handler is still there.                   *)
LEMMA CloseMaps ==
  ASSUME BlockingInv, NEW c \in Clients, fate = "running", link[c] = "open",
         at[c] # "nowhere", Close(c),
         \/ fin[c] = "rst"
         \/ /\ fin[c] = "fin" /\ taken[c] = arrived[c]
            /\ sent[c] = Reply(Prefix(script[c], taken[c])),
         UNCHANGED <<script, arrived, fin, taken, sent, setting, fate>>
  PROVE  [Service!CrewNext]_(Service!crewVars)
<1>1. SameCrew
  BY DEF Close, BlockingInv, TypeOK, SameCrew
<1>2. (fate = "running")' = (fate = "running")
  OBVIOUS
<1>3. \/ fin[c] = "rst"
      \/ fin[c] = "fin" /\ taken[c] = arrived[c] /\ sent[c] = Service!Owed(c)
  BY SameProtocol DEF Service!Owed
<1>4. Service!Close(c)
  BY <1>2, <1>3 DEF Close, Service!Close
<1> QED BY <1>1, <1>4, ServeMaps

(* A handler is gone some time after its connection.                       *)
LEMMA FinishMaps ==
  ASSUME BlockingInv, NEW c \in Clients, Finish(c)
  PROVE  [Service!CrewNext]_(Service!crewVars)
<1>1. /\ fate = "running" /\ at[c] = "ending" /\ at' = [at EXCEPT ![c] = "nowhere"]
      /\ UNCHANGED <<script, link, arrived, fin, taken, sent, setting, fate>>
  BY DEF Finish, socketVars
<1>2. c \in Serving /\ link[c] = "closed"
  BY <1>1 DEF BlockingInv, InPlace, Serving
<1>3. Serving' = Serving \ {c}
  BY <1>1 DEF BlockingInv, TypeOK, Serving
<1>4. UNCHANGED Hands /\ UNCHANGED setting.connections
  BY <1>1 DEF Hands
<1>5. (fate = "running")' = (fate = "running")
  BY <1>1
<1>6. Service!Leave(c)
  BY <1>1, <1>2, <1>3, <1>5 DEF Service!Leave
<1> QED BY <1>4, <1>6 DEF Service!CrewNext

(* What a handler has said is the front of what it owes, all of it when it *)
(* has nothing left in its buffer.                                         *)
LEMMA SaidFront ==
  ASSUME TypeOK, SocketsTypeOK, NEW c \in Clients, Answered(c)
  PROVE  /\ OwedFront(c)
         /\ buf[c] = << >> => sent[c] = Reply(Prefix(script[c], taken[c])) /\ sent[c] # << >>
<1> DEFINE heard == Prefix(script[c], taken[c])
<1>1. /\ state[c] \in InternalState /\ buf[c] \in Seq(Byte) /\ sent[c] \in Seq(Byte)
      /\ heard \in Seq(Byte)
  BY HandlerType
<1>2. Answers(sent[c], heard, state[c], buf[c])
  BY DEF Answered
<1> HIDE DEF heard
<1>3. /\ \E rest \in Seq(Byte) : sent[c] \o rest = Reply(heard)
      /\ buf[c] = << >> => sent[c] = Reply(heard)
  BY <1>1, <1>2, AnswersFront
<1>4. Reply(heard) # << >>
  <2>1. Echo(heard) \in Seq(Byte) /\ << STAR >> \in Seq(Byte) /\ Len(<< STAR >>) = 1
    <3>1. Parse("WAIT_FOR_MSG", heard).out = Echo(heard)
      BY <1>1, ParseIsEcho
    <3> QED BY <1>1, <3>1, AnswersType
  <2>2. Len(Reply(heard)) = 1 + Len(Echo(heard)) /\ Len(Echo(heard)) \in Nat
    BY <2>1, ConcatType DEF Reply
  <2>3. Len(<< >>) = 0 /\ Len(Reply(heard)) # 0
    BY <2>2
  <2> QED BY <2>3, Zenon
<1> QED BY <1>3, <1>4 DEF OwedFront, heard

(* It is so after a step as well.                                          *)
LEMMA SaidFrontAfter ==
  ASSUME TypeOK', SocketsTypeOK', NEW c \in Clients, Answered(c)'
  PROVE  OwedFront(c)'
<1> DEFINE heard == Prefix(script'[c], taken'[c])
<1>1. /\ state'[c] \in InternalState /\ buf'[c] \in Seq(Byte) /\ sent'[c] \in Seq(Byte)
      /\ script'[c] \in Seq(Byte) /\ taken'[c] \in Nat /\ taken'[c] <= Len(script'[c])
  BY SocketsAssumption DEF TypeOK, SocketsTypeOK
<1>2. heard \in Seq(Byte)
  BY <1>1, PrefixGrows
<1>3. Answers(sent'[c], heard, state'[c], buf'[c])
  BY DEF Answered
<1> HIDE DEF heard
<1>4. \E rest \in Seq(Byte) : sent'[c] \o rest = Reply(heard)
  BY <1>1, <1>2, <1>3, AnswersFront
<1> QED BY <1>4 DEF OwedFront, heard

(* The greeting is the first thing owed.                                   *)
LEMMA GreetMaps ==
  ASSUME BlockingInv, BlockingInv', NEW c \in Clients, Greet(c)
  PROVE  [Service!CrewNext]_(Service!crewVars)
<1>1. /\ fate = "running" /\ at[c] = "greet"
      /\ UNCHANGED <<script, link, arrived, fin, taken, setting, state, buf>>
  BY DEF Greet
<1>2. /\ link[c] = "open" /\ taken[c] = 0 /\ sent[c] = << >>
      /\ TypeOK /\ SocketsTypeOK /\ TypeOK' /\ SocketsTypeOK' /\ SocketsInv
  BY <1>1 DEF BlockingInv, InPlace, SocketsInv
<1>3. CASE send(c, 1).errno = "ok"
  <2>1. /\ sent' = [sent EXCEPT ![c] = Append(@, STAR)] /\ at' = [at EXCEPT ![c] = "recv"]
        /\ UNCHANGED fate
    BY <1>3 DEF Greet
  <2>2. /\ at'[c] = "recv" /\ \A d \in Clients \ {c} : at'[d] = at[d] /\ sent'[d] = sent[d]
        /\ sent'[c] \in Seq(Byte) /\ Len(sent[c]) <= Len(sent'[c])
    BY <1>2, <2>1 DEF TypeOK, SocketsTypeOK
  <2>3. OwedFront(c)'
    <3>1. Answered(c)'
      BY <1>1, <2>1, <2>2 DEF BlockingInv, InPlace
    <3> QED BY <1>2, <3>1, SaidFrontAfter
  <2>4. \E rest \in Seq(Byte) : sent[c] \o rest = Reply(Prefix(script[c], taken'[c]))
    <3> DEFINE owed == Reply(Prefix(script[c], taken'[c]))
    <3>1. owed \in Seq(Byte)
      BY <1>1, <1>2, HandlerType, ReplyParsed
    <3> HIDE DEF owed
    <3>2. sent[c] \o owed = owed
      BY <1>2, <3>1, ConcatNothing
    <3> QED BY <3>1, <3>2 DEF owed
  <2>5. /\ UNCHANGED <<script, arrived>> /\ taken[c] <= taken'[c] /\ ~ (taken'[c] > taken[c])
        /\ \A d \in Clients \ {c} : taken'[d] = taken[d] /\ sent'[d] = sent[d]
    BY <1>1, <1>2, <2>2
  <2>6. Conversing(c)
    BY <1>2, <2>2, <2>3, <2>4, <2>5, ConversingStep
  <2> QED BY <1>1, <1>2, <2>1, <2>2, <2>6, ConverseMaps
<1>4. CASE send(c, 1).errno # "ok"
  <2>1. fate' # "running" /\ UNCHANGED <<sent, at>>
    BY <1>4 DEF Greet
  <2>2. UNCHANGED ServiceVars /\ SameCrew
    BY <1>1, <2>1 DEF ServiceVars, SameCrew
  <2>3. fin[c] = "rst"
    BY <1>4 DEF Greet, send
  <2> QED BY <1>1, <2>1, <2>2, <2>3, FailMaps
<1> QED BY <1>3, <1>4

(* What is received is heard by the service.                               *)
LEMMA ReceiveMaps ==
  ASSUME BlockingInv, BlockingInv', NEW c \in Clients, Receive(c)
  PROVE  [Service!CrewNext]_(Service!crewVars)
<1>1. /\ fate = "running" /\ at[c] = "recv"
      /\ UNCHANGED <<script, arrived, fin, sent, drained, setting, state>>
  BY DEF Receive
<1>2. /\ link[c] = "open" /\ buf[c] = << >> /\ Answered(c)
      /\ TypeOK /\ SocketsTypeOK /\ TypeOK' /\ SocketsTypeOK'
  BY <1>1 DEF BlockingInv, InPlace, SocketsInv
<1>3. sent[c] = Reply(Prefix(script[c], taken[c])) /\ sent[c] # << >>
  BY <1>2, SaidFront
<1>4. PICK got \in recv(c, BufSize) :
        \/ got.errno = "ECONNRESET" /\ ReceiveError(c)
        \/ got.errno = "ok" /\ got.bytes = << >> /\ ReceiveEnd(c)
        \/ got.errno = "ok" /\ got.bytes # << >> /\ ReceiveBytes(c, got.bytes)
  BY DEF Receive
<1>5. /\ got.errno = "ok" /\ got.bytes = << >> => fin[c] = "fin" /\ taken[c] = arrived[c]
      /\ got.errno = "ECONNRESET" => fin[c] = "rst"
  BY <1>2, BlockingAssumption, RecvEnds
<1>6. CASE got.errno = "ECONNRESET" /\ ReceiveError(c)
  <2>1. fate' # "running" /\ UNCHANGED ServiceVars /\ SameCrew
    BY <1>1, <1>6 DEF ReceiveError, ServiceVars, SameCrew
  <2> QED BY <1>1, <1>5, <1>6, <2>1, FailMaps
<1>7. CASE got.errno = "ok" /\ got.bytes = << >> /\ ReceiveEnd(c)
  <2>1. Close(c) /\ UNCHANGED <<taken, fate>>
    BY <1>7 DEF ReceiveEnd
  <2> QED BY <1>1, <1>2, <1>3, <1>5, <1>7, <2>1, CloseMaps
<1>8. CASE got.bytes # << >> /\ ReceiveBytes(c, got.bytes)
  <2>1. /\ taken' = [taken EXCEPT ![c] = @ + Len(got.bytes)]
        /\ at' = [at EXCEPT ![c] = "echo"] /\ UNCHANGED <<link, fate>>
    BY <1>8 DEF ReceiveBytes
  <2>2. Answered(c)' /\ Len(got.bytes) \in Nat
    BY <1>1, <1>2, <1>8, ReceivedAnswers
  <2>3. OwedFront(c)'
    BY <1>2, <2>2, SaidFrontAfter
  <2>4. \E rest \in Seq(Byte) : sent[c] \o rest = Reply(Prefix(script[c], taken'[c]))
    BY <1>1, <2>3 DEF OwedFront
  <2>5. /\ at'[c] = "echo" /\ taken[c] <= taken'[c] /\ Len(sent[c]) <= Len(sent'[c])
        /\ \A d \in Clients \ {c} : at'[d] = at[d] /\ taken'[d] = taken[d] /\ sent'[d] = sent[d]
    BY <1>1, <1>2, <2>1, <2>2 DEF TypeOK, SocketsTypeOK
  <2>6. Conversing(c)
    BY <1>1, <1>2, <1>3, <2>3, <2>4, <2>5, ConversingStep
  <2> QED BY <1>1, <1>2, <2>1, <2>5, <2>6, ConverseMaps
<1> QED BY <1>4, <1>6, <1>7, <1>8

(* A byte that is sent back is the next one owed.                          *)
LEMMA EchoMaps ==
  ASSUME BlockingInv, BlockingInv', NEW c \in Clients, EchoByte(c)
  PROVE  [Service!CrewNext]_(Service!crewVars)
<1>1. /\ fate = "running" /\ at[c] = "echo" /\ MoveOn(c)
      /\ sent' = [sent EXCEPT ![c] = @ \o Step(c).out]
      /\ Step(c).out # << >> => send(c, 1).errno = "ok"
      /\ UNCHANGED <<script, link, arrived, fin, taken, drained, setting, fate>>
  BY DEF EchoByte
<1>2. /\ link[c] = "open" /\ Answered(c)
      /\ TypeOK /\ SocketsTypeOK /\ TypeOK' /\ SocketsTypeOK'
  BY <1>1 DEF BlockingInv, InPlace, SocketsInv
<1>3. Step(c).out \in Seq(Byte)
  BY <1>1, BlockingMoveOn
<1>4. /\ at'[c] \in {"recv", "echo"} /\ \A d \in Clients \ {c} : at'[d] = at[d]
  BY <1>1, <1>2 DEF MoveOn, TypeOK
<1>5. Answered(c)'
  BY <1>1, <1>4 DEF BlockingInv, InPlace
<1>6. OwedFront(c)'
  BY <1>2, <1>5, SaidFrontAfter
<1>7. \E rest \in Seq(Byte) : sent[c] \o rest = Reply(Prefix(script[c], taken'[c]))
  BY <1>1, <1>2, SaidFront DEF OwedFront
<1>8. Len(sent[c]) <= Len(sent'[c])
  <2>1. sent[c] \in Seq(Byte) /\ sent'[c] = sent[c] \o Step(c).out
    BY <1>1, <1>2 DEF SocketsTypeOK
  <2> DEFINE now == sent[c] \o Step(c).out
  <2>2. /\ Len(now) = Len(sent[c]) + Len(Step(c).out)
        /\ Len(sent[c]) \in Nat /\ Len(Step(c).out) \in Nat
    BY <1>3, <2>1, ConcatType
  <2>3. \A k, n \in Nat : k <= k + n
    OBVIOUS
  <2> HIDE DEF now
  <2>4. Len(sent[c]) <= Len(now)
    BY <2>2, <2>3, Zenon
  <2> QED BY <2>1, <2>4, Zenon DEF now
<1>9. /\ UNCHANGED <<script, arrived>> /\ taken[c] <= taken'[c] /\ ~ (taken'[c] > taken[c])
      /\ \A d \in Clients \ {c} : taken'[d] = taken[d] /\ sent'[d] = sent[d]
  BY <1>1, <1>2 DEF SocketsTypeOK
<1>10. Conversing(c)
  BY <1>2, <1>6, <1>7, <1>8, <1>9, ConversingStep
<1> QED BY <1>1, <1>2, <1>4, <1>10, ConverseMaps

(* A byte that is swallowed is none of the service's business.             *)
LEMMA SwallowMaps ==
  ASSUME BlockingInv, NEW c \in Clients, Swallow(c)
  PROVE  [Service!CrewNext]_(Service!crewVars)
<1>1. /\ at[c] = "echo" /\ MoveOn(c)
      /\ UNCHANGED <<script, link, arrived, fin, taken, sent, setting, fate>>
  BY DEF Swallow, socketVars
<1>2. /\ at'[c] \in {"recv", "echo"} /\ \A d \in Clients \ {c} : at'[d] = at[d]
  BY <1>1 DEF MoveOn, BlockingInv, TypeOK
<1>3. SameCrew
  BY <1>1, <1>2 DEF SameCrew
<1> QED BY <1>1, <1>3, Stutters DEF ServiceVars

(* send() fails only for a client that has been reset.                     *)
LEMMA EchoFailsMaps ==
  ASSUME BlockingInv, NEW c \in Clients, EchoFails(c)
  PROVE  [Service!CrewNext]_(Service!crewVars)
<1>1. /\ fate = "running" /\ at[c] = "echo"
      /\ UNCHANGED <<script, arrived, fin, taken, sent, setting>>
  BY DEF EchoFails
<1>2. link[c] = "open" /\ fin[c] = "rst"
  BY <1>1 DEF BlockingInv, InPlace, EchoFails, send
<1>3. CASE Close(c) /\ UNCHANGED fate
  BY <1>1, <1>2, <1>3, CloseMaps
<1>4. CASE fate' = "exited" /\ UNCHANGED <<at, link>>
  <2>1. UNCHANGED ServiceVars /\ SameCrew
    BY <1>1, <1>4 DEF ServiceVars, SameCrew
  <2> QED BY <1>1, <1>2, <1>4, <2>1, FailMaps
<1> QED BY <1>3, <1>4 DEF EchoFails

(* Every step is one of the service, or none.                              *)
LEMMA StepMaps ==
  ASSUME BlockingInv, BlockingInv', [Next]_vars
  PROVE  [Service!CrewNext]_(Service!crewVars)
<1>1. CASE UNCHANGED vars
  <2>1. UNCHANGED ServiceVars /\ UNCHANGED fate /\ SameCrew
    BY <1>1 DEF vars, socketVars, serverVars, ServiceVars, SameCrew
  <2> QED BY <2>1, Stutters
<1>2. CASE AcceptLoop
  BY <1>2, AcceptMaps, RefusedMaps, UnservedMaps DEF AcceptLoop
<1>3. ASSUME NEW c \in Clients, Handle(c) PROVE [Service!CrewNext]_(Service!crewVars)
  BY <1>3, GreetMaps, ReceiveMaps, SwallowMaps, EchoMaps, EchoFailsMaps, FinishMaps
     DEF Handle
<1> QED BY <1>1, <1>2, <1>3, ClientMaps DEF Next

(* thread_server.c and sequential_server.c are echo services with a thread *)
(* for each connection, whatever the descriptors and the threads they have *)
(* and however late a thread ends: they hear and say what they should in   *)
(* the order they should, close a connection only when all is said or the  *)
(* client has reset it, leave a client alone or exit for want of a thread  *)
(* only while as many threads live as can, and fail otherwise only for a   *)
(* client that was reset or for one connection too many.                   *)
THEOREM Refinement == Spec => ImplementsThreadedService
<1>1. Init => Service!CrewInit
  <2> SUFFICES ASSUME Init PROVE Service!CrewInit
    OBVIOUS
  <2>1. Hands \in Nat /\ setting.connections \in Nat
    BY BlockingInit, HandsType DEF BlockingInv
  <2>2. (fate = "running") = TRUE
    BY DEF Init
  <2>3. Serving = {}
    BY DEF Init, Serving
  <2>4. Service!Init
    BY <2>1, <2>2 DEF Init, SocketsInit, Service!Init, Service!ClientsInit
  <2> QED BY <2>1, <2>3, <2>4 DEF Service!CrewInit
<1>2. BlockingInv /\ BlockingInv' /\ [Next]_vars => [Service!CrewNext]_(Service!crewVars)
  BY StepMaps
<1> QED BY <1>1, <1>2, BlockingInit, BlockingNext, PTL
        DEF Spec, ImplementsThreadedService, Service!CrewSpec

(* With a thread for every client there may be, a client that waits has    *)
(* not got one of them, and there is one left for it.                      *)
LEMMA NeverShort ==
  ASSUME BlockingInv, Cardinality(Clients) <= Hands, NEW c \in Backlog
  PROVE  fate = "running" => ~ Service!Short
<1> SUFFICES ASSUME fate = "running" PROVE ~ Service!Short
  OBVIOUS
<1>1. c \in Clients /\ at[c] = "nowhere"
  BY DEF BlockingInv, InPlace, TypeOK, Backlog
<1>2. Serving \subseteq Clients \ {c}
  BY <1>1 DEF Serving
<1>3. /\ IsFiniteSet(Clients \ {c}) /\ Cardinality(Clients) \in Nat
      /\ Cardinality(Clients \ {c}) = Cardinality(Clients) - 1
  BY <1>1, SocketsAssumption, FS_RemoveElement, FS_CardinalityType
<1>4. Cardinality(Serving) \in Nat /\ Cardinality(Serving) <= Cardinality(Clients \ {c})
  BY <1>2, <1>3, FS_Subset, FS_CardinalityType
<1>5. Hands \in Nat
  BY HandsType DEF BlockingInv
<1>6. ~ (Cardinality(Serving) >= Hands)
  BY <1>3, <1>4, <1>5
<1> QED BY <1>6, SameProtocol DEF Service!Short

(* A server that may have a thread for every client is an echo service     *)
(* like the others, with room for as many connections as there are         *)
(* descriptors; so is the sequential server, which needs no thread.        *)
THEOREM EnoughThreads ==
  ASSUME \A s \in Settings : s.threaded => Cardinality(Clients) <= s.threads
  PROVE  Spec => Service!Spec
<1>1. Init => Service!Init
  <2> SUFFICES ASSUME Init PROVE Service!Init
    OBVIOUS
  <2>1. setting.connections \in Nat
    BY BlockingInit, HandsType DEF BlockingInv
  <2>2. (fate = "running") = TRUE
    BY DEF Init
  <2> QED BY <2>1, <2>2 DEF Init, SocketsInit, Service!Init, Service!ClientsInit
<1>2. ASSUME BlockingInv, BlockingInv', [Next]_vars PROVE [Service!Next]_(Service!vars)
  <2>1. Cardinality(Clients) <= Hands
    <3>1. Cardinality(Clients) \in Nat
      BY SocketsAssumption, FS_CardinalityType
    <3> QED BY <1>2, <3>1 DEF BlockingInv, TypeOK, Hands
  <2>2. [Service!CrewNext]_(Service!crewVars)
    BY <1>2, StepMaps
  <2>3. CASE UNCHANGED Service!crewVars
    BY <2>3 DEF Service!crewVars
  <2>4. CASE Service!RunShort
    <3>1. Service!Short /\ fate = "running" /\ Backlog # {}
      BY <2>4 DEF Service!RunShort, Service!Waiting, Backlog
    <3> QED BY <1>2, <2>1, <3>1, NeverShort
  <2>5. CASE Service!CrewNext /\ ~ Service!RunShort
    BY <1>2, <2>5 DEF Service!CrewNext, Service!Next, Service!TakeOn, Service!LeaveAlone,
                      Service!Serve, Service!Leave, Service!vars
  <2> QED BY <2>2, <2>3, <2>4, <2>5
<1> QED BY <1>1, <1>2, BlockingInit, BlockingNext, PTL DEF Spec, Service!Spec
=============================================================================
