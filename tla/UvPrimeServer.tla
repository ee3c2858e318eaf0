--------------------------- MODULE UvPrimeServer ---------------------------
(***************************************************************************)
(* uv_prime_server.c: a client sends a number, a thread of libuv's work    *)
(* queue (or, in BLOCK mode, the loop itself) finds out whether it is      *)
(* prime, the loop writes the answer.  The work shares number and sendbuf  *)
(* with the connection, which goes on reading and may end meanwhile.       *)
(*                                                                         *)
(* An answer is one byte here: "prime\n" or "composite\n", or what two     *)
(* threads that fill the buffer at once make of it.  The kernel takes each *)
(* answer at once.  Polite clients send a request in one piece, when all   *)
(* they asked before has been answered, and hang up after the last answer, *)
(* as prime_client.py does; the others do as they like.                    *)
(*                                                                         *)
(* libuv is external: a queue of work that idle threads take from in order,*)
(* and a list of finished work that the loop goes through; uv_close() has  *)
(* the handle freed later, by on_client_closed(), whoever still uses it.   *)
(* What the process does after it has used freed memory is undefined, and  *)
(* the model ends there.                                                   *)
(***************************************************************************)
EXTENDS Sockets, Primality

CONSTANTS Threads,        \* of the work queue (4)
          SuggestedSize,  \* of a read's buffer, as libuv has it (64 KB)
          Manners,        \* sets of clients that may be the polite ones
          NoClient

ASSUME UvPrimeAssumption ==
  /\ IsFiniteSet(Threads)
  /\ SuggestedSize \in Nat \ {0}
  /\ NoClient \notin Clients
  /\ Manners \subseteq SUBSET Clients

VARIABLES polite,         \* the clients that are
          blocking,       \* whether MODE is BLOCK
          fate,           \* whether the process runs, how it has ended
          number, sendbuf,\* peer_state_t of each client
          freed,          \* the clients whose peer_state_t was freed
          queue,          \* work no thread has taken, by client
          job,            \* job[t]: what thread t works on
          done,           \* work whose callback is due, by client
          reads           \* reads[c]: how many reads of c brought bytes

peerVars == <<number, sendbuf, freed, reads>>
workVars == <<queue, job, done>>
serverVars == <<polite, blocking, fate, peerVars, workVars>>
vars == <<socketVars, serverVars>>

AT == 64                  \* '@', or any other non-digit
PRIME == 112
COMPOSITE == 99
TORN == 63
Verdicts == {"prime", "composite"}
Idle == [at |-> "idle", peer |-> NoClient, verdict |-> "prime"]

TypeOK ==
  /\ SocketsTypeOK
  /\ polite \in Manners /\ blocking \in BOOLEAN
  /\ fate \in {"running", "exited", "undefined"}
  /\ number \in [Clients -> Unsigned]
  /\ sendbuf \in [Clients -> {"fresh", "filling", "racing"} \union Verdicts]
  /\ freed \subseteq {c \in Clients : link[c] = "closed"}
  /\ queue \in Seq(Clients) /\ done \in Seq(Clients)
  /\ job \in [Threads -> {Idle} \union
                  [at : {"found", "filling"}, peer : Clients, verdict : Verdicts]]
  /\ reads \in [Clients -> Nat]

Init ==
  /\ SocketsInit
  /\ polite \in Manners /\ blocking \in BOOLEAN
  /\ fate = "running"
  /\ number = [c \in Clients |-> 0]
  /\ sendbuf = [c \in Clients |-> "fresh"]
  /\ freed = {}
  /\ queue = << >> /\ done = << >>
  /\ job = [t \in Threads |-> Idle]
  /\ reads = [c \in Clients |-> 0]

Running == fate = "running"

-----------------------------------------------------------------------------
(* The clients.                                                            *)

Ends(s) == {k \in 1..Len(s) : s[k] = AT}
Answered(c) == Len(sent[c]) = Cardinality({k \in Ends(script[c]) : k <= arrived[c]})

(* A polite client sends the next request.                                 *)
Ask(c) ==
  /\ Linked(c)
  /\ Answered(c)
  /\ \E end \in Ends(script[c]) :
       /\ arrived[c] < end
       /\ \A k \in Ends(script[c]) : arrived[c] < k => end <= k
       /\ arrived' = [arrived EXCEPT ![c] = end]
  /\ UNCHANGED <<script, link, fin, taken, sent, drained>>

PoliteStep(c) == Connect(c) \/ Ask(c) \/ (Answered(c) /\ HangUp(c))

(* The model ends with the process.                                        *)
Client(c) ==
  /\ Running
  /\ IF c \in polite THEN PoliteStep(c) ELSE Speak(c) \/ Reset(c)
  /\ UNCHANGED serverVars

-----------------------------------------------------------------------------
(* The number that a request starts with: the loop over its bytes stops at *)
(* the first that is no digit.                                             *)
Value(bytes) ==
  LET sum[i \in 0..Len(bytes)] ==
        IF i = 0 THEN 0
        ELSE IF \A j \in 1..i : bytes[j] \in 48..57
             THEN sum[i - 1] * 10 + (bytes[i] - 48)
             ELSE sum[i - 1]
  IN  sum[Len(bytes)]

(* It is kept in a uint64_t.                                               *)
Number(bytes) == Value(bytes) % Width

Verdict(n) == IF isprime(n) THEN "prime" ELSE "composite"

(* What sendbuf says; TORN is whatever a race leaves there.                *)
Text(content) ==
  CASE content = "prime"     -> PRIME
    [] content = "composite" -> COMPOSITE
    [] OTHER                 -> TORN

(* uv_write(), and on_sent_response(): an answer that cannot be sent, or   *)
(* not to a handle being closed, makes the server exit.                    *)
uv_write(c, content) ==
  IF link[c] = "closed" \/ fin[c] = "rst"
  THEN fate' = "exited" /\ UNCHANGED sent
  ELSE sent' = [sent EXCEPT ![c] = Append(@, Text(content))] /\ UNCHANGED fate

-----------------------------------------------------------------------------
(* A connection is accepted; uv_tcp_getpeername() may find it gone.        *)
on_peer_connected(c) ==
  /\ Running
  /\ link[c] = "backlog"
  /\ \/ link' = [link EXCEPT ![c] = "open"] /\ UNCHANGED fate
     \/ fin[c] = "rst" /\ fate' = "exited" /\ UNCHANGED link
  /\ UNCHANGED <<script, arrived, fin, taken, sent, drained, polite, blocking,
                 peerVars, workVars>>

(* Mutant: the work is queued twice.                                       *)
Request_Twice(c, bytes) ==
  /\ taken' = [taken EXCEPT ![c] = @ + Len(bytes)]
  /\ reads' = [reads EXCEPT ![c] = @ + 1]
  /\ number' = [number EXCEPT ![c] = Number(bytes)]
  /\ queue' = queue \o << c, c >>
  /\ UNCHANGED <<sendbuf, sent, fate, job, done>>

(* Mutant: the answer is written before it is found.                       *)
Request_WritesFirst(c, bytes) ==
  /\ taken' = [taken EXCEPT ![c] = @ + Len(bytes)]
  /\ reads' = [reads EXCEPT ![c] = @ + 1]
  /\ number' = [number EXCEPT ![c] = Number(bytes)]
  /\ sendbuf' = [sendbuf EXCEPT ![c] = Verdict(Number(bytes))]
  /\ uv_write(c, sendbuf[c])
  /\ UNCHANGED workVars

(* Mutant: work is queued in BLOCK mode only.                              *)
Request_NotQueued(c, bytes) ==
  /\ taken' = [taken EXCEPT ![c] = @ + Len(bytes)]
  /\ reads' = [reads EXCEPT ![c] = @ + 1]
  /\ number' = [number EXCEPT ![c] = Number(bytes)]
  /\ queue' = IF blocking THEN Append(queue, c) ELSE queue
  /\ UNCHANGED <<sendbuf, sent, fate, job, done>>

(* Every read that brings bytes is a request.                              *)
Request(c, bytes) ==
  /\ taken' = [taken EXCEPT ![c] = @ + Len(bytes)]
  /\ reads' = [reads EXCEPT ![c] = @ + 1]
  /\ number' = [number EXCEPT ![c] = Number(bytes)]
  /\ IF blocking
     THEN LET verdict == Verdict(Number(bytes)) IN
          /\ sendbuf' = [sendbuf EXCEPT ![c] = verdict]
          /\ uv_write(c, verdict)
          /\ UNCHANGED workVars
     ELSE /\ queue' = Append(queue, c)
          /\ UNCHANGED <<sendbuf, sent, fate, job, done>>

on_peer_read(c) ==
  /\ Running
  /\ link[c] = "open"
  /\ \E got \in recv(c, SuggestedSize) :
       \/ /\ got.bytes # << >>
          /\ Request(c, got.bytes)
          /\ UNCHANGED link
       \/ /\ got.errno # "EAGAIN" /\ got.bytes = << >>
          /\ link' = [link EXCEPT ![c] = "closed"]
          /\ UNCHANGED <<taken, sent, fate, number, sendbuf, reads, workVars>>
  /\ UNCHANGED <<script, arrived, fin, drained, polite, blocking, freed>>

(* Mutant: the state is freed although the handle is still open.           *)
on_client_closed_Early(c) ==
  /\ Running
  /\ link[c] # "idle"
  /\ c \notin freed
  /\ freed' = freed \union {c}
  /\ UNCHANGED <<socketVars, polite, blocking, fate, number, sendbuf, reads, workVars>>

(* The handle is closed: it and the state of the connection are freed.     *)
on_client_closed(c) ==
  /\ Running
  /\ link[c] = "closed"
  /\ c \notin freed
  /\ freed' = freed \union {c}
  /\ UNCHANGED <<socketVars, polite, blocking, fate, number, sendbuf, reads, workVars>>

(* on_work_submitted(): thread t takes the oldest work, reads the number   *)
(* and tests it;                                                           *)
Compute(t) ==
  /\ Running
  /\ job[t] = Idle
  /\ queue # << >>
  /\ Head(queue) \notin freed
  /\ queue' = Tail(queue)
  /\ job' = [job EXCEPT ![t] = [at |-> "found", peer |-> Head(queue),
                               verdict |-> Verdict(number[Head(queue)])]]
  /\ UNCHANGED <<socketVars, polite, blocking, fate, peerVars, done>>

FilledToo(t) == {u \in Threads \ {t} : job[u].at = "filling" /\ job[u].peer = job[t].peer}

(* starts to fill sendbuf,                                                 *)
Fill(t) ==
  /\ Running
  /\ job[t].at = "found"
  /\ job[t].peer \notin freed
  /\ job' = [job EXCEPT ![t].at = "filling"]
  /\ sendbuf' = [sendbuf EXCEPT ![job[t].peer] =
                   IF FilledToo(t) = {} THEN "filling" ELSE "racing"]
  /\ UNCHANGED <<socketVars, polite, blocking, fate, number, freed, reads, queue, done>>

(* and is done, and the loop is told.                                      *)
Submit(t) ==
  /\ Running
  /\ job[t].at = "filling"
  /\ job[t].peer \notin freed
  /\ sendbuf' = [sendbuf EXCEPT ![job[t].peer] =
                   IF @ = "racing" THEN @ ELSE job[t].verdict]
  /\ job' = [job EXCEPT ![t] = Idle]
  /\ done' = Append(done, job[t].peer)
  /\ UNCHANGED <<socketVars, polite, blocking, fate, number, freed, reads, queue>>

(* The answer is what sendbuf holds now.                                   *)
on_work_completed ==
  /\ Running
  /\ done # << >>
  /\ Head(done) \notin freed
  /\ done' = Tail(done)
  /\ uv_write(Head(done), sendbuf[Head(done)])
  /\ UNCHANGED <<script, link, arrived, fin, taken, drained, polite, blocking,
                 peerVars, queue, job>>

(* A thread or the loop comes to work whose peer_state_t was freed.        *)
UseAfterFree ==
  /\ Running
  /\ \E c \in freed :
       \/ queue # << >> /\ Head(queue) = c /\ \E t \in Threads : job[t] = Idle
       \/ \E t \in Threads : job[t].peer = c
       \/ done # << >> /\ Head(done) = c
  /\ fate' = "undefined"
  /\ UNCHANGED <<socketVars, polite, blocking, peerVars, workVars>>

Handle(c) == on_peer_connected(c) \/ on_peer_read(c) \/ on_client_closed(c)
Work(t) == Compute(t) \/ Fill(t) \/ Submit(t)

Server == \/ \E c \in Clients : Handle(c)
          \/ \E t \in Threads : Work(t)
          \/ on_work_completed \/ UseAfterFree

Next == Server \/ \E c \in Clients : Client(c)

Spec == Init /\ [][Next]_vars

(* The process goes on while it has something to do, which is enough as    *)
(* clients do not ask for ever; and polite clients ask all they have to.   *)
FairSpec == /\ Spec
            /\ WF_vars(Server)
            /\ WF_vars(\E c \in polite : Client(c))

-----------------------------------------------------------------------------
(* The k-th number that script s asks about.                               *)
Asked(s, k) ==
  LET upTo(e) == Cardinality({d \in Ends(s) : d <= e})
      end   == CHOOSE e \in Ends(s) : upTo(e) = k
      start == IF k = 1 THEN 0 ELSE CHOOSE e \in Ends(s) : upTo(e) = k - 1
  IN  Value(SubSeq(s, start + 1, end))

(* However the others behave, the k-th answer a polite client gets is the  *)
(* right one to its k-th request: number and sendbuf, which every read of  *)
(* a connection and every work of it share (uv_prime_server.c:77-82 and    *)
(* 94), are still those of that request.                                   *)
AnswersAreRight ==
  \A c \in polite : \A k \in 1..Len(sent[c]) :
    LET n == Asked(script[c], k)
    IN  n \in Exact => sent[c][k] = IF Prime(n) THEN PRIME ELSE COMPOSITE

(* Every read that brought bytes is answered once: it has been, or is      *)
(* queued, or with a thread, or done.  So a number that comes in two reads *)
(* is answered twice (line 123), and two numbers in one read once.         *)
EachReadIsAnsweredOnce ==
  Running => \A c \in Clients :
    reads[c] = Len(sent[c]) + Cardinality({k \in DOMAIN queue : queue[k] = c})
               + Cardinality({t \in Threads : job[t].peer = c})
               + Cardinality({k \in DOMAIN done : done[k] = c})

(* The process exits, or uses freed memory, only after a client has left   *)
(* that does not wait for its answers: polite clients are never the cause. *)
FailsOnlyForLeavers ==
  ~ Running => \E c \in Clients \ polite : fin[c] # "no"

(* The polite clients get all their answers and their connections are      *)
(* cleaned up, unless the process ends.                                    *)
PoliteClientsAreServed ==
  <>(\/ ~ Running
     \/ \A c \in polite : Len(sent[c]) = Cardinality(Ends(script[c])) /\ c \in freed)
=============================================================================
