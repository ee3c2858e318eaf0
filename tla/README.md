# TLA+ models of ko-scripts

ko-scripts is a collection of small programs: five TCP servers that speak one
byte protocol over five IO models and a client for them, a libuv server for prime
numbers, two pthread queues, protobuf demos and a few tools. This directory models the ones whose
correctness depends on the order in which things happen, checks the models with
TLC on small instances and proves theorems about them with TLAPS.

Paths below are relative to the repository; `servers/` stands for `src/servers/`.

## Inventory

| component | state it keeps | operations | what makes it hard | what makes it correct |
|---|---|---|---|---|
| echo protocol (in every echo server) | parser state, send buffer | one step per byte received | messages are cut anywhere by `recv()`; `uint8_t` wraps | the answer depends on the bytes, not on the cuts |
| `servers/epoll_server.c` | `global_state[]` by descriptor, registrations, the batch of events being handled | accept, read handler, write handler | a batch outlives the state it was taken in; descriptors are reused; partial sends; a limit checked in two ways | registrations match buffers, events are fresh, bytes are accounted for, the echo service is implemented, clients are served |
| `servers/select_server.c` | the same, and two bit sets, their copies, `fdset_max`, `nready` | the same, from a walk over descriptors | the walk works on copies and stops by a count | the same, and the walk meets what `select()` reported |
| `servers/thread_server.c` | a stack frame per connection | accept, blocking handler | handlers block in the middle of a chunk; thread and descriptor limits; a thread lives on after it has closed its connection | an echo service that leaves a client alone only while every thread runs; who has a handler is served |
| `servers/sequential_server.c` | one stack frame | the same | everyone waits for the one being served | the same; everyone is served in turn |
| `servers/uv_server.c` | `peer_state_t`, one buffer for all writes of a connection | libuv callbacks | reading goes on while writes are queued; freed state; a kill switch | the echo service as long as no read comes while a write waits; it stops only when asked |
| `servers/uv_prime_server.c` | `peer_state_t` shared with worker threads | libuv callbacks, work queue | number and answer are shared between loop and threads; a second request or a disconnect while a worker runs; freed state | polite clients get the right answers and are never the cause of a failure; each read is answered once |
| `concurrency/semaphore.c` | a counter and its mutex; ring buffer, two semaphores, a second mutex | `child`, `add_item`, `pop_item`, join and free | threads sleep between reading and storing the counter, and read it without the mutex; results ignored; wrap-around; the buffer is freed under a running thread | no increment is lost; a bounded FIFO queue; slots are conserved |
| `concurrency/MPMC.c` | array, head, tail, mutex, two condition variables | `add_item`, `pop_item`, wait, signal | lost and stolen wakeups; indices that never wrap | a bounded FIFO queue while the indices stay inside; no lost wakeup |
| `clients/simple_client.py` | two threads per connection, the bytes read so far | connect, send, read until `1111`, join, close | the marker may come in pieces; a close with bytes unread would reset the connection; a reading thread spins at the end of the stream | every client ends, having read all it is owed |
| `tools/file_counter.c` | an open directory per level | recursion | directories that cannot be opened, for themselves or for want of descriptors; entries `lstat()` fails on | an exact count or a failure |
| `protobuf/tcp` | a partly read frame per connection | length-prefixed frames | `recv(size)` may be short; end of stream inside a varint | not modelled |
| `protobuf/zmq` | none between requests | REQ/REP in lock step | lost replies | not modelled |

Not modelled either: `tools/icmp_sniffer.c` (prints each packet, keeps
nothing), `datastruct/hash.c` and `third_party/uthash.h` (a straight-line example
of a vendored header), `common/utils.c` (runs once before the loops; prints),
`target_pb2.py` (generated).

How they interact: a client and a server share a TCP connection, modelled by
`Sockets`; the handlers of a server and its main loop share the per-connection
state and the registrations; the libuv callbacks share the buffer of a connection
with the writes libuv has queued; the threads of libuv's work queue share a
connection's state with the loop, without a lock; `SimpleClient` runs against the
abstract `EchoService`, which the echo servers are shown to implement (`thread_server.c`
as long as each client may have a thread); the threads of the queues share memory under a mutex.

## Modules

| module | stands for | how it corresponds |
|---|---|---|
| `EchoProtocol` | the `switch` over the bytes of one `recv()` | `ByteStep` is one turn of the switch, `Parse` the loop. `Echo` is a reference definition that has no parser state. |
| `EchoService` | the promise of every echo server (abstract) | clients are admitted, greeted, listened to, answered and closed; when the service may fail. `KillSwitch` says whether a client's `WXY` may stop it, which is so in `uv_server.c` alone |
| `ThreadedService` | the promise of a server that needs a thread for each connection (abstract) | an `EchoService` with a crew: a client let in while all hands are taken is left alone, or makes the service fail; a hand may be free later than its connection |
| `Sockets` | the kernel and the clients (external) | `recv` and `send` return what the calls may return in a state; client actions connect, deliver one byte, shut down, reset, read one byte |
| `SimpleClient` | `simple_client.py` | an action per blocking call of either thread; the server is `EchoService`, TCP delivers segments of any size |
| `PeerHandlers` | `on_peer_connected`, `on_peer_ready_recv`, `on_peer_ready_send`, which `epoll_server.c` and `select_server.c` share word for word | operators (`Greeting` is what `on_peer_connected` stages) from a `peer_state_t` and what the call returned to the new state, the `fd_status_t` and the fate of the process |
| `EpollServer` | `epoll_server.c` | `EpollWait` takes a batch; `Accept`, `HandleIn`, `HandleOut` handle one event each, with `epoll_ctl()` and `close()` as part of the action |
| `SelectServer` | `select_server.c` | `select` fills the copies; the actions are turns of the walk. A bit is taken out of a copy when the walk passes it, which is all the loop variable tells. `setting` has the limits of the process: `RLIMIT_NOFILE` and `MAXFDS` |
| `BlockingServer` | `thread_server.c`, `sequential_server.c` | one `handle_connection()` per client, an action per blocking call, and one for the end of the thread after `close()`; `setting` says which program it is and which resources it has |
| `UvServer` | `uv_server.c` | one action per callback; libuv's queue of writes and due callbacks is external |
| `UvPrimeServer` | `uv_prime_server.c`, both values of `MODE`; its clients as `prime_client.py` and less polite | one action per callback of the loop, three per work of a thread (number read and tested, `sendbuf` being filled, filled) |
| `Primality` | `isprime()` with the arithmetic of `uint64_t` | products are taken modulo `Root * Root` |
| `FileCounter` | `countFiles()` | a recursive function over finite trees |
| `BoundedQueue` | what both queues promise (abstract) | `Put` and `Take` |
| `SemaphoreQueue` | `semaphore.c` from line 128 on | an action per semaphore or mutex operation; the critical sections are atomic because the mutex is held |
| `Semaphore` | all of `semaphore.c` | the two `child()` threads, then, when they are joined, `SemaphoreQueue` |
| `MPMC` | `MPMC.c` | an action per stay in the mutex; condition variables as sets of waiters |
| `ConnectionProofs` | theorems about the parser, lemmas about pieces of byte sequences, what `recv` and `send` answer, and what the handlers make of that, one connection at a time | |
| `EpollServerProofs`, `SelectServerProofs`, `UvServerProofs`, `UvPrimeServerProofs` | theorems about the four event-driven servers; the last also about the algorithms that keep no state | |
| `BlockingServerProofs` | theorems about `BlockingServer`, that is of `thread_server.c` and `sequential_server.c` | |
| `SemaphoreProofs` | theorems about `Semaphore` with `SemaphoreQueue` | |
| `ThreadsProofs` | theorems about `MPMC` and about `SimpleClient` | |
| `AlgorithmsMC` | what the pure algorithms are compared with, and on which inputs | |
| `EpollServerMC`, `SelectServerMC`, `BlockingServerMC`, `UvServerMC`, `UvPrimeServerMC`, `SimpleClientMC` | instances | scripts and messages of the clients; resources |

Operators named `X_Something` in front of an operator `X` are mutants: what `X`
might be if the code had a plausible bug. No action uses them. They show that a
property can fail: with `X` replaced by its mutant TLC finds it violated.

### Decisions that matter

- **Time of a step.** A handler of the single-threaded servers makes at most one
  `recv()` or `send()`, so handler, `epoll_ctl()`, `FD_SET` and `close()` are one
  action; clients act between any two. In the threaded server and in
  `simple_client.py` each blocking call is a step of its own. A worker of
  `uv_prime_server.c` shares memory with the loop and holds no lock: reading the
  number, starting and ending to fill the buffer are three steps. In `MPMC.c` and `semaphore.c` what a thread does while it
  holds the mutex is one step.
- **Bytes.** Scripts are sequences of bytes because the properties are about
  bytes; they are a few bytes long. TCP delivers and clients read one byte at a
  time, so all pieces occur; where segments matter less than their number, any
  number of bytes arrives at once. A send buffer of the kernel (`SockBuf`) of one
  or two bytes makes sends partial and refused. An answer of `uv_prime_server.c`
  ("prime\n", "composite\n", or what two threads that fill one buffer make of it)
  is one byte, and the messages and the marker of `simple_client.py` are cut
  short: what counts is that the second message ends inside a message and that the
  third goes on after the marker.
- **Patience.** `uv_server.c` implements the protocol only if no read comes while a
  write is in flight. `Patience` says under which clients that is so: one whose
  answer the kernel may not take as a whole reads it before it sends more. The
  others, whose answers fit, do as they like and may reset their connections. With
  `Patience` off, `uv_slow_reader` shows what happens. Segments fit one read and
  the buffer, in the code 1024 bytes.
- **Politeness.** A polite client of `uv_prime_server.c` sends a request in one
  piece when the last one has been answered and hangs up after the last answer,
  as `prime_client.py` does. Next to it there is one that pipelines, cuts its
  numbers, or disconnects while its work is queued.
- **Errors.** A reset makes `send()` fail, and lets `recv()` return what arrived
  before or fail, whichever the kernel does. On SIGPIPE, which the servers do not
  catch, the process ends, which is also what they do on an error of `send()`;
  where they do not (`thread_server.c`), both outcomes are allowed.
- **Startup.** Initial states are those of a server about to enter its loop: the
  listener is open and registered. The lowest free descriptor is a constant, the
  limit (`RLIMIT_NOFILE`) is chosen in the initial state.
- **Undefined behaviour** (an access out of bounds, a use after free, a detach of
  an uninitialized handle) is a choice between going on and the process ending. After
  a use of freed memory `UvPrimeServer` ends in a state of its own, `"undefined"`;
  what matters is who can cause it.
- **A failing process** ends in `"exited"` (`exit(1)`, an uncaught signal) or
  `"aborted"` (a failed `assert`). Both are steps of the model; properties say
  when they may happen.

## Properties

Servers:

- `ImplementsEchoService`: each server, under the mapping that hides buffers,
  registrations and events, is an `EchoService`: `*` first, then the echo of the
  client's own bytes in order, nobody closed before all is said, and the process
  fails only after a reset or when there are more clients than room. The room is
  the number of descriptors below all limits.
- `ImplementsThreadedService` (`thread_server.c`, `sequential_server.c`): the same, but
  that `pthread_create()` may fail, which the code does not look at. A client accepted
  then is never greeted and keeps its descriptor for ever, or the process ends (it detaches
  a handle that was never set). This happens only while as many threads run as can. A
  thread runs on after it has closed its connection, so that there may be fewer connections
  than threads when it happens, and as many threads as descriptors do not prevent it: with
  one of each the second client may be left alone and the third end the server, while
  nobody is served. The run reaches this. `sequential_server.c` cannot be short of a hand.
- `NothingLostOrRepeated`: what was sent and what is staged are together the
  answer to what was taken, and the parser stands where one pass over the whole
  stream would leave it. It relates a buffer to the history of a connection and
  fails for a stale parser, a wrong offset or a buffer used twice.
- `InterestMatchesBuffer`, `SetsMatchBuffers`: the main loop waits to write
  exactly while bytes are staged and to read exactly while none are. For `select`
  it also says that a descriptor is never in both sets: its turn of the loop would
  otherwise call the write handler on a descriptor just closed.
- `EventsAreFresh`: no handler of a batch invalidates an event still in it.
- `WalkMeetsWhatSelectReported`: `nready` counts what the walk has still to meet.
- `NoAssertionFails` (`epoll_server.c`): holds as long as descriptors stay below `MAXFDS`;
  `epoll_fdlimit` shows the descriptor at which it does not.
- `StopsAtTheFirstLimit` (`select_server.c`): `MAXFDS` is 1000 and `FD_SETSIZE` 1024, so that
  descriptors from 1000 to 1023 pass the check and abort the process at
  `assert(sockfd < MAXFDS)`. That is the only assertion that fails, and only when every
  smaller descriptor is in use. The check against `FD_SETSIZE` is never what stops the
  server; without a reset it exits for want of a descriptor only.
- `EveryClientIsServed`: a client in the backlog is answered and closed, or the
  process has failed (or, in `thread_server.c` with fewer threads than clients, no thread
  could be made for this one).
- `BufferIsFreeForEachRead` (`uv_server.c`): under patient clients no read meets
  a write in flight or bytes left in the buffer. It is why the refinement holds.

Prime server:

- `AnswersAreRight`: whatever the other clients do, the k-th answer of a polite
  client is right for its k-th number, although number and buffer are shared with
  worker threads.
- `EachReadIsAnsweredOnce`: a read is answered, queued, with a thread, or done, and
  only one of these. A number cut in two is therefore answered twice, which the
  code does.
- `FailsOnlyForLeavers`: the process exits or uses freed memory only after an
  impolite client has left.
- `PoliteClientsAreServed`: polite clients get all their answers and their state is
  freed.

Client:

- `MarkerComesLast`: a reader that has found the marker has read everything it will
  be sent, so `close()` never resets the connection, which would end most servers.
- `EveryClientEnds`: against any echo service, in whatever pieces the echo comes,
  unless the service fails.

Algorithms:

- `ChunkedEchoIsExact`, `PrimalityIsExact`, `CountIsExactOrFails`: parser, primality
  test and file count against definitions that have no state, no loop and no
  recursion over descriptors.

Queues:

- `NoIncrementIsLost`: the counter is the number of stores although threads sleep
  between reading and storing it; what they print without the mutex grows.
- `ImplementsBoundedQueue`: the ring, or the array, is a bounded FIFO queue; the array
  only until a task is stored beyond it.
- `SlotsAreConserved`: semaphores, items and the threads between wait and post add
  up. `AddAndPopSucceed`: the ignored results are always true.
- `StrayWritesAreBounded`: how often the producer can write into freed memory.
- `NoLostWakeup`: while a consumer sleeps, at least as many consumers are on their way to the
  mutex as there are tasks; while a producer sleeps, at least as many producers as there
  is room for tasks. One signal left out, or sent to the wrong kind of thread, breaks it.
- The liveness properties `ConsumerFinishes` and `EndsWithEveryConsumerWaiting`.

## Runs

Every passing run but `algorithms`, which checks operators only, checks safety,
refinement and liveness on one instance, under the fair specification. Fairness
does not restrict which states are reached. The largest takes a little more than two minutes.

| run | instance | what it shows |
|---|---|---|
| `algorithms` | all conversations of 5 bytes, cut in two anywhere; all numbers below 225 with products modulo 256; all trees of 4 directories | the parser is exact and indifferent to cuts; `isprime` is exact from 2 to the last square that does not wrap; a count is exact or fails |
| `epoll` | 2 clients, scripts of 3 and 1 bytes, kernel buffer of 1, resets, spurious events, 1 or 2 descriptors | everything claimed of `epoll_server.c` |
| `epoll_fdlimit` (violation) | a descriptor equal to `MAXFDS` | it passes `newsockfd > MAXFDS` and fails `assert(sockfd < MAXFDS)` |
| `select` | 2 clients as in `epoll`; descriptors for both, for one, and for both with `MAXFDS` reached by the second | everything claimed of `select_server.c` |
| `blocking` | 3 clients with a message of 2 bytes, resets, kernel buffer of 1; threaded with 1 descriptor and 3 threads, 1 and 1, 2 and 1; sequential | the service and liveness of the blocking servers |
| `uv` | 2 clients with scripts that stop the server, that fit the kernel's buffer of 2, and that do not; resets; patient where needed | everything claimed of `uv_server.c` |
| `uv_slow_reader` (violation) | kernel buffer of 1, no patience | bytes sent twice or overwritten before they are sent |
| `uv_prime` | 2 clients of 2 requests, one or both polite; 2 worker threads; both modes; resets | everything claimed of `uv_prime_server.c` |
| `simple_client` | 2 connections with three messages, a service with room for 1 or 2 | the client ends and never resets |
| `semaphore` | the constants of the code: 2 children of 3 turns, a ring of 5, 8 items | no increment is lost, the ring is a queue, the process ends |
| `mpmc` | 3 producers of 2 tasks, 3 consumers, an array of 4 | no wakeup is lost, with several of either kind waiting; a queue until the first task beyond the array; spurious wakeups; any stray access may end the process |
| `mpmc_overrun` (violation) | an array of 3 | a task is stored beyond the array |

Bounds. Two clients are enough for one to be accepted on the descriptor of the
other, to be in the same batch or walk, and to be waiting while the other is
served; the servers treat connections alike and independently apart from that.
With one descriptor the accept loop runs out of them, with two it does not.
`thread_server.c` is the exception: it takes three clients for a thread that still ends, a
client left alone meanwhile, and one more that meets what those two have left over. In the run
one handler converses at a time while another may be ending; two that converse at once make
more than twice as many states (323 000 more for two descriptors and two threads), share
nothing but the counts of threads and descriptors, and are left to the theorem, which has
any number of them. Three script bytes in a receive buffer of two give echoes cut by reads and, with a
kernel buffer of one, by sends. `SENDBUF_SIZE` equals `sizeof(buf)` in the code,
and in the instances. Two worker threads are enough for two works of one client to
race for its buffer. In `algorithms` `Root` is 16 for the 2^32 of the code: the
test fails where the square of `r` wraps, wherever that is. Four directories have
siblings and depth. Three producers and an array of four, which is full with three tasks,
let two or three producers wait at once, and three consumers likewise. Deadlock is
not checked: the clients of a server may all be done, and processes end.

Fairness. The servers: weak fairness of the one server thread (the kernel
schedules it whenever it can run), or of each thread. libuv: weak fairness of the
process as a whole, which goes on while some callback or some work can be run;
clients do not ask for ever, so nobody needs to be preferred. The same holds of
`simple_client.py` and the service it talks to. The queues: weak
fairness of each thread; a mutex or semaphore that is free is obtained in the end,
spurious wakeups and stray accesses are never required. The clients: each goes on
connecting, sending its script, shutting down its side and reading what it is
sent, which `simple_client.py` does; a reset is never required. A client that stops
reading for ever may of course keep a blocking server waiting for ever.

## Findings

Three disagreements between a statement of the repository and its code are runs
marked (violation): the descriptor limit of `epoll_server.c` (its own assertion),
the use of one buffer for several writes in `uv_server.c` ("same protocol,
different IO models", `src/README.md:16`), and the overrun of `MPMC.c`
("multi-producer multi-consumer queue"). Met on the way, each
visible in a guard or an outcome of the models but not spent a run on:
`select_server.c` compares descriptors with `FD_SETSIZE` (1024) in line 201 but
asserts `< MAXFDS` (1000) in line 44, so that descriptors 1000 to 1023 abort it (as
`StopsAtTheFirstLimit` says); `thread_server.c` ignores the result of
`pthread_create()`; a message of more than 1024 bytes in one read aborts
`uv_server.c`, a cancelled write makes it exit, and its kill switch is missed when
cut by a read; `uv_prime_server.c` takes 1 for a prime and near 2^64 does not
stop at the square root, since `r * r` wraps; it uses freed memory when a client disconnects
while its work is queued, and lets two works of a client fill one buffer at once;
a reader of `simple_client.py` spins at the end of the stream; `semaphore.c` frees
its buffer under the running producer; `main()` of `MPMC.c` never returns.

## Proofs

Proved means: for every value of the constants that the named assumptions of the
modules allow, checked by TLAPS. Every safety property that a passing run checks of the
six servers, of the two queues, of the client and of the algorithms is a theorem, under
the hypotheses named below, the refinement of the abstract specification included.

### The queue of `semaphore.c`

`SemaphoreProofs` proves, for every ring size `Size > 0` with
`Slots = Size - 1` and every number `Jobs` of items (the only
assumption on the ring, the comment of `semaphore.c:130`), that the specification implies

- `TypeOK`, `SlotsAreConserved`, `AddAndPopSucceed`, `StrayWritesAreBounded`,
  `FirstInFirstOut`, and
- `ImplementsBoundedQueue`, the refinement.

None of the safety properties is inductive. `IInv` adds who holds the mutex
(`MutexIsHeld`: a thread is between lock and unlock exactly if it is the holder,
which makes the critical sections exclusive), and states the order of items slot
by slot: `GotInOrder` (the n-th item got is n) and `BufferInOrder` (the k-th slot
from `head` holds item `Len(got) + k`). The step then rests on lemmas about slot
numbers modulo `Size`: moving `tail` adds one item and moves no other, moving
`head` removes the first and brings the others one nearer. `AddAndPopSucceed`
follows from `SlotsAreConserved` alone: a thread that has passed its semaphore
accounts for the slot it is about to fill or empty. In the refinement every
action but `ProduceAdd` and `ConsumePop` stutters.

The counting threads are proved for any finite number of them and of their turns.
`NoIncrementIsLost` needs that at most one thread is between its read and its store
and that what it has read is still the counter (`CountedUnderMutex`), and, for what
is printed without the mutex, that a thread has printed less than the counter when
it comes to print again (`PrintedInOrder`). `WholeProgramIsQueue` (`MainSpec => Spec`)
carries all theorems about the ring over to the program that `semaphore` checks.

### `MPMC.c`

`ThreadsProofs` proves, for any finite numbers of producers and (one or more)
consumers, any number of tasks and any size of the array, with spurious wakeups:

- `TypeOK` and `NoLostWakeup`;
- `ImplementsBoundedQueue` (`QueueSafe`): until a task is stored beyond the array every
  step is one of a bounded queue or none; and, if no more than `Size` tasks are made in all,
  the whole specification of the queue (`Refinement`; the run `mpmc_overrun` shows that the
  hypothesis is needed).

`add_item()` and `pop_item()` signal once for each task, so that `NoLostWakeup` is a
matter of counting, and stated so sharply that any step preserves it: a task added adds one to
what is to be taken and wakes one consumer, unless none sleeps; a task taken takes one away
and uses up one that was awake; the same with room for tasks and producers. A thread goes
to sleep only when there is nothing for its kind. `Counted` gives `tail` as the
number of tasks the producers have added, which is what bounds it; `StoredInOrder`
gives the order of the queue.

### The echo protocol

`ConnectionProofs` proves, for every parser state and all bytes, that a parse
stages no more bytes than it is given, that parsing in pieces is parsing at
once (`ParseConcat`), and that the parser computes `Echo`, the reference definition
that has no state (`ParseIsEcho`). The parser is a recursive function over positions;
that it exists and what it is at each position is shown with induction on a set of
numbers (`UpTo`, from the well-foundedness of `<`). For `ParseIsEcho` the induction
says that after n bytes the parser is in `IN_MSG` exactly if the next byte is
inside a message by the reference, and has staged the bytes of `Echoed` up to n in their
order; the order rests on how `Rank` grows when a byte is added. `ChunkedEchoIsExact`
says the two things together; `ParserExact` in `UvPrimeServerProofs` is the theorem about
it, for conversations of any length over any alphabet.

### `epoll_server.c` and `select_server.c`

`EpollServerProofs` proves, for any finite set of clients, any scripts, any
buffer sizes with `RecvSize <= SendbufSize` (both are 1024 in the code; equality
is not needed), any kernel buffer, any descriptor limits, resets and spurious
events, that the specification of `epoll_server.c` implies

- `TypeOK`, `InterestMatchesBuffer`, `EventsAreFresh`;
- `NoAssertionFails`, if no descriptor reaches `MAXFDS` (the run `epoll_fdlimit`
  shows that the hypothesis is needed);
- `NothingLostOrRepeated`.

The first group is one invariant, `LoopInv`, whose parts need each other. Whether
a handler's step is even well-typed depends on the connection still being there,
which is `EventsAreFresh`. That depends on `InterestMatchesBuffer`, since a
descriptor is registered for exactly one event, so that a report is either empty
or equal to the registration. And that depends on `GoodPeers`: a peer that is not
greeted has its greeting staged, and a buffer that has been sent is empty, which
is also why a read never meets a full buffer. `Owners` says that a client has one
descriptor, without which closing one connection could disturb another. What a
handler does is settled once, in `ConnectionProofs`, for one connection and any
answer of `recv()` or `send()`; `LoopRegister` lifts it to the loop.

`NothingLostOrRepeated` needs in addition that nobody is heard before being
greeted (`GreetedFirst`): the greeting leaves the parser in `WAIT_FOR_MSG`, which
is where a parse of the bytes taken stands only if there are none. A read then
extends the answer by `ParseConcat`, and a send moves a front of the staged bytes
over (`RestInTwo`); the greeting is one byte, so it is never sent in part.

`SelectServerProofs` proves of `select_server.c`, with the same generality,
`TypeOK`, `SetsMatchBuffers`, `WalkMeetsWhatSelectReported`, `NothingLostOrRepeated` and,
under `RoomAtStart` (below) and with `MAXFDS` smaller than `FD_SETSIZE`, `StopsAtTheFirstLimit`. The facts about sockets
and handlers are those used for `epoll_server.c`. In place of registrations and
events there are sets, copies and a count, and the dependence is the other way
round: which handler a turn of the walk calls is told by a copy, and that the
connection is there and that the copy still agrees with the set follows from
`WalkMeetsWhatSelectReported`, which is kept because a turn changes the sets at its
own descriptor only (`UpdateSets`), because a descriptor is in one copy at most
(`HandlerOwner`), and because an accepted connection gets a descriptor that is in
neither. `CopiesAreFinite` is needed to count: taking out a bit lowers `nready` by
one.

Both modules end with `ImplementsEchoService`, if there is `RoomAtStart`: the
descriptors the startup code has taken are within `RLIMIT_NOFILE`, without which it
would not have got them, and within `MAXFDS` (16 * 1024 in `epoll_server.c`, 1000 in
`select_server.c`). Below that the capacity the mapping gives the service would be
negative. What a handler's call comes to is settled for one connection again
(`RecvOutcome`, `SendOutcome`): the service converses, the connection is closed when
all is said, or its client was reset; that it can be the service's step rests on
`NothingLostOrRepeated`, and through `ParseIsEcho` on the reference definition of the
echo. The rest is counting: the service lets a client in while it has room and may
fail when it has none, the code asks for the lowest free descriptor. `Admitted` says
that every open connection has a descriptor and that every descriptor in use is below
the limits, so that there are as many of the one as of the other
(`ConnectionsCounted`); if the lowest free one is at a limit, all below are in use. In
`select_server.c` no descriptor in use reaches `MAXFDS`, so that the lowest free one is at most
`MAXFDS` and the check against `FD_SETSIZE` never fails (`NeverTooBig`); if it is `MAXFDS`, all
below are in use (`AllBelow`), which is `StopsSafe`.

### `thread_server.c` and `sequential_server.c`

`BlockingServerProofs` proves `ImplementsThreadedService` for both programs, for any finite
set of clients, any scripts, any size of `buf` and of the kernel's buffer, any numbers of
descriptors and threads, with resets and a failing `pthread_create()`, and with no
hypothesis beyond the assumptions on the constants (`Refinement`). `EnoughThreads` adds that
the server implements the plain `EchoService` if each client may have a thread; for
`sequential_server.c` this is no condition. For fewer threads than clients it is false,
however many descriptors there are.

A handler says its answer byte by byte, so what it has said is seldom the answer to what
it has taken. The invariant `BlockingInv` says what is true instead (`Answers`): what was
said, with what the parser will still make of the bytes left in `buf`, is the answer to
all that was taken, and the parser will then stand where one pass over all of that would
leave it. `recv()` extends it by `ParseConcat`, and a turn of the loop moves its first
byte over by `ParseFirst`: parsing is a step on the first byte and parsing the others.
The service may therefore say a byte whenever the handler does, and a connection is
closed when nothing is left. `BlockingInv` promises this while the process runs; an
`exit(1)` may leave any handler in the middle of a chunk.

A handler is in the crew of the service from the greeting until its thread has ended, and
its connection is open exactly until it is `"ending"` (`InPlace`). A step of a handler is
then a step of the service for somebody in the crew (`ServeMaps`), the end of a thread is a
hand leaving (`FinishMaps`), and a failing `pthread_create()` is seen by the service as
being short of hands (`ShortMaps`, `UnservedMaps`). Every open connection, orphans included,
holds one of the descriptors that `capacity` counts, in the service as in the code. For
`EnoughThreads` it suffices that a client that waits to be accepted has no handler, so that
fewer run than there are clients (`NeverShort`).

### `uv_server.c`

`UvServerProofs` proves `TypeOK` for any clients, scripts and sizes. The other
properties are not true of this server without conditions, since it uses one buffer
for all writes of a connection (`uv_slow_reader` refutes `SaysOnlyWhatItOwes`). They are
theorems under

- `Uncloggable`: a script is read at once or its answer fits the kernel's
  buffer, and a client whose answer may not fit reads what it is owed before it goes
  on, as the clients of the run `uv` do: `BufferIsFreeForEachRead` and
  `SaysOnlyWhatItOwes`;
- and `EchoesFit`: no answer is longer than `sendbuf` (1024 bytes; the code aborts
  otherwise): `ImplementsEchoService`.

The invariant `EchoInv` puts each connection that is served and not reset in one of
three phases: `Rested` (all is said and the buffer is free), `Told` (all is said, the
callback is due) and `Telling` (the kernel has yet to take the rest of the one write
in flight, and the client says nothing until it has). Only in the first can a read
happen, which is `BufferIsFreeForEachRead`; that a client in the third stays silent
follows by counting, because it has not yet read all that it is owed. A client that
was reset keeps less: what it was sent is a beginning of what it was owed
(`SentAPart`). `Freed` says who may stop the loop: a client that has sent the kill
switch or was reset. In the refinement the callbacks of writes and the kernel's
taking a part are the `Say` steps of the service, everything that only
moves callbacks stutters.

### `uv_prime_server.c`

`UvPrimeServerProofs` proves, for any clients, any finite number of threads and both
values of `MODE`,

- `TypeOK` and `EachReadIsAnsweredOnce`, however the clients behave;
- `FailsOnlyForLeavers` and `AnswersAreRight`, if each request of a script fits the
  buffer of one read (`RequestsFit`: 64 KB, as libuv suggests it). A longer request of
  a polite client would be answered twice, so the hypothesis is needed. The buffer's
  size is the constant `SuggestedSize`;
- `PrimalityExact`: `isprime()` with products modulo `Root * Root` is exact for every even
  `Root`, from 2 up to the square of the largest odd number whose square does not wrap.
  `PrimalityIsExact` checks this for one `Root`; `PrimesExact` states it as that property.

`EachReadIsAnsweredOnce` is inductive with the types (`TInv`). The other two rest on
`PInv`: a polite client has one request under way at most (`OneAtATime`), so it has one
entry in the queue, the threads and the list of finished work together, and none when
it hangs up, so nothing of it is used after it is freed; and `number` and `sendbuf`
hold what belongs to that request from its read to its answer (`AnswersFit`), although
nothing but the protocol orders the accesses. If the process has ended, a client
that is not polite has left; the invariant says nothing of the others.

### `file_counter.c`

`CountExact`, in `UvPrimeServerProofs`, says of `countFiles()` what `CountIsExactOrFails`
says, for every finite tree (the directories numbered so that each comes after the one it
is listed in), any numbers of files, any set of directories that cannot be opened and any
limit on descriptors; `CountsExact` states it as that property. The reference does not
recur over descriptors: it says which directories are found (they are seen, and all above
them) and that none of them is closed or deeper than the limit.

The model's recursion is a function on directories, and the prover knows no induction
principle for trees, so that each step is an induction on a set of directories: from the
top (`Downwards`), for what is above a directory, or from the bottom (`Upwards`), for what
the recursion returns. That the function exists is an induction on how many of the last
directories it is defined for (`CountExists`). `ReachOne` splits the directories that
the recursion reaches from one into itself and, with nothing in common, those reached from
each directory listed in it; this is where it matters that a directory is listed once.
`CountIsFilesBelow` is the induction: called with as many directories open as there are
above, it returns the files of all it reaches, or fails if it fails for one of them. The
sum over a set is defined by the library with `CHOOSE`, one element after the other;
`SumOfChosen` to `SumOfMany` show that neither the order nor a partition of the set matters.

### `simple_client.py`

`ThreadsProofs` proves `MarkerComesLast`, for any finite number of clients, any room in the
service, and any messages and marker of which `MarkerAssumption` is true: of no part of
the messages does a part of the reply hold the marker, unless it is the reply to
everything. The assumption is about the program's text, not about what it does. TLC
evaluates it for the messages cut short that the run uses, and for the three
messages and the `1111` of the program themselves (`ProgramAssumption`).

`MarkerComesLast` is not inductive: it does not say why the service has nothing to add to
what was read. `ClientsIInv` says that a client has been sent a part of the reply to a
part of what it sends (`Parts`), that a reader that is done has read all that was sent
and has seen the marker in it, and that only a client whose reader has ended closes its
socket. If the marker is in what was sent, that is the whole reply by the assumption, and
stays so when the service says more (`NothingAfterMarker`). That `recv()` may return a part
of the marker, and that `Read` looks at what came before too, is `LooksAtAll`. What
`FlattenSeq` makes of the messages is not evaluated but characterised (`FlatExists`,
`EverythingType`), by induction on a set of numbers.

### Only model-checked

- All liveness properties: they need fairness and `ENABLED`, which are beyond the
  prover.

## Not modelled

- In the modelled servers: failures of `fcntl`, `epoll_create1`, `epoll_ctl`,
  `calloc`, `malloc`, which end the process; the SIGINT handler of
  `thread_server.c`; in the libuv servers a lack of descriptors.
- In `simple_client.py`: logging, and a `send()` the kernel does not take at once.
- In `file_counter.c`: the names of files and the memory for them.
- The values of `executeTask()`.
- `protobuf/tcp`: a thread per connection that shares nothing with the others. Its
  two hazards (a length cut short makes the loop spin, a message cut short is
  parsed) need one connection and no interleaving, and what comes of the second is
  up to the protobuf library.
- `protobuf/zmq`: request and reply in lock step over a library; the varint helpers:
  straight-line shifts; generated code.
- `icmp_sniffer.c`, `hash.c`, `utils.c`: see the inventory.

## Plan

Done: all C programs of the repository whose correctness depends on an order of
events, the client and their runs; proofs of the safety of the six servers, of both
queues, of the client and of the algorithms, the refinements of the abstract
specifications included.

What a change of the code would call for: a server that takes over `EchoProtocol` needs a
mapping to `EchoService` and can rely on `ConnectionProofs` for parser and sockets.
Liveness stays with TLC. The protobuf demos would need a model of what the library makes
of a frame cut short.
