# Formal models of ServerPatterns

The repository holds four small client/server programs in C, one per server
pattern.  All of them do the same thing for a user: the client sends a line,
the server sends it back with the prefix `Server`.  What differs is how the
work is spread over threads, queues and descriptors, and that is where they can
go wrong.  This directory holds TLA+ models of them, the TLC configurations
that check the models, and proofs for TLAPS.

| task | pattern | threads | shared state | module |
|------|---------|---------|--------------|--------|
| 1 | thread per client | listener, one per client | client registry, no lock | `ThreadRegistry` |
| 2 | pool of services | listener, report handler, 5 services | service records (`services_mutex`), System V queue | `ServicePool` |
| 3 | producer/consumer | poller, 5 services | System V queue, registry of the poller | `RequestQueue` |
| 4 | multiplexing | one | none (TCP and UDP sockets) | `Multiplexer` |

`EchoService` is the abstract specification of what a client is promised in all
four; the detailed modules are shown to implement it.  Between them stands
`Conversation`, one TCP conversation of whole messages: it implements
`EchoService`, each server is shown to be one conversation per client, and
`Framing`, which looks below, at the `send` and `recv` calls a message is made
of, is shown to implement one too.

```
                      EchoService
                           ^
                     Conversation          one client, whole messages
        ^         ^         ^         ^          ^
 ThreadRegistry ServicePool RequestQueue Multiplexer   Framing
      (a conversation with each TCP client)      (the calls of one)
```

## 1. Inventory

### Task 1: thread per client (`src/task1`)

*State:* `clients[]`, `clients_amount` of the server; per client an id, a
descriptor, a thread.  *Operations:* `run_server` (accept), `add_client`,
`handle_client_connection`, `close_connection`/`delete_client`, `free_server`.
*Interaction:* the listener and every client thread write the registry without
a lock.  *Hard:* the thread may finish before its client is stored; ids repeat
after a deletion, so `delete_client` finds the wrong entry; the shift runs
beyond the array; a full registry leaves a client connected and unread.
*Correct when:* a store into the array stays within it, a client that leaves
frees its own struct and does not end the server, and a client with a thread is
served whatever happens to the registry.

### Task 2: pool (`src/task2`)

*Listener* (`server.c`): accepts a visitor, searches the records for a `FREE`
service under `services_mutex` (`get_free_service`), answers with its address
or `occupied`, shuts the connection down.  *Report handler*
(`handle_msq_updates`): takes reports from the queue and writes the records
under the mutex.  *Service* (`service.c`): accepts a client, stores `OCCUPIED`
in its own record **without** the mutex, reports `OCCUPIED`, converses, reports
`FREE`.  *Client:* visits the listener, dials the service it is sent to,
converses.  *Hard:* the record of a service changes only when it has accepted,
so several visitors may be sent to it; store and report race; `exit` on a
service thread cancels that thread in the middle of the cleanup; SIGPIPE; a
queue that outlives the process; blocking `msgsnd`.  *Correct when:* every
client is in one conversation with the service it was sent to, records follow
the services, every visitor is answered and every request served.

### Task 3: producer/consumer (`src/task3`)

*Poller* (`server.c`): non-blocking `accept`; when nobody is there
(`EAGAIN`) reads one message from each registered client without blocking and
puts it into the queue.  *Services:* take requests from the queue and answer on
the client's connection.  *Hard:* `errno` is tested after a `recv` that did not
fail; a full registry; a copy of the mutex in each service; requests with
pointers of a dead process; one thread that everything depends on.  *Correct
when:* a message is in exactly one place until it is answered, slots and
descriptors match the connections, the server ends for a reason only.

### Task 4: multiplexing (`src/task4`)

*Server:* waits with select, poll or epoll (`STANDARD`) on a TCP and a UDP
socket; talks to one TCP client until it leaves, or reads datagrams for ever.
*Clients:* one for TCP, one for UDP.  *Hard:* a report of the monitor is used
long after it was made; datagrams get lost; an empty datagram; a reply buffer
that is neither terminated nor cleared.  *Correct when:* the report is still
true when used, datagrams and connections are served, descriptors are closed.

### Message framing (`send_message`, `recv_message` in all tasks)

A message is its length in four bytes and then its text, sent by two calls.
The receiver reads the length, then loops over `recv` until it has the text.
*Hard:* `recv` cuts the text anywhere; either process dies between two calls;
`recv` returning 0 is looked at for the length and not for the text;
`total_received` is never initialised.  *Correct when:* neither end loses its
place in the stream, a message arrives whole, and the end of the stream is
noticed.

### Not components of a model

`common/src/endpoint.c` converts addresses and has no state; the Makefiles
choose `STANDARD`, which is the constant `Monitors`.

## 2. Modules

| module | what it is |
|--------|------------|
| `EchoService` | abstract: a client asks, is answered once with its own message, takes the answer; conversations may be abandoned |
| `Conversation` | abstract: one TCP conversation at the grain of whole messages; implements `EchoService` for its client |
| `ThreadRegistry` | task 1 |
| `ServicePool` | task 2 |
| `RequestQueue` | task 3 |
| `Multiplexer` | task 4 |
| `Framing` | `send` and `recv` on one connection; implements `Conversation` |
| `MCThreadRegistry`, `MCServicePool`, `MCRequestQueue`, `MCMultiplexer` | symmetry sets for TLC |
| `ConversationProofs`, `ThreadRegistryProofs`, `ServicePoolProofs`, `RequestQueueProofs`, `MultiplexerProofs`, `FramingProofs` | theorems |

Each detailed module composes its server with the client programs, because the
properties are about both ends.  It implements `EchoService` with the variables
`asked` and `answer` as they are (`Echo == INSTANCE EchoService WITH ...`).

It also implements `Conversation`, once for each client:
`Conv(c) == INSTANCE Conversation WITH ...` maps the state to what client `c`
takes part in (`ClientIs`, `ThreadIs`, `Held`, `End`), and
`ConversationRefinement` says that every step of the system is, for every client,
a step of its conversation or none of its business.  This is more than
`EchoRefinement`: it forbids a server to read or drop a message of one client
while it serves another, to close the connection of a client that is still there, or to
answer twice, and it is where the four patterns turn out to be one protocol.
Who serves a client differs: its own thread (task 1), the service it was sent to
(task 2), the poller, the queue and a service in turn (task 3), the only thread
there is (task 4).  A client that waits to be accepted, or to be sent to a
service, is at the beginning of its conversation; one that is turned away is
like one whose server has ended (`ServerKilled`).  `Cancelled` is there for
task 2: a service whose thread was cancelled by another's `exit` keeps its
connection and never touches it again.

### Common modelling decisions

* **A client is one run of its program.**  It never comes back, so a set of
  clients bounds the number of connections, not the number of users.
* **TCP at the grain of whole messages.**  `request[c]` is what the server has
  not read, `answer[c]` what the client has not read.  There is at most one of
  each, since a client waits for its answer.  A client killed between its two
  `send` calls leaves `Half` a message.  `recv_message` then loops for ever
  (`*Spins`).  The uninitialised `total_received` is 0 in the build at hand
  (`-g -O2`).
* **A reply to a client that has gone** has three outcomes: the first `send`
  draws an RST and the second raises SIGPIPE (the process dies without its
  `atexit` handler), the second fails with `ECONNRESET` (`print_error`, `exit`),
  or both are lost.  A client killed with a reply unread resets its connection,
  and the next `recv` of the server fails.  So does one killed between the two
  `send` calls of a reply, with the length unread: at the grain of whole
  messages, a client killed while its thread is at the reply (`Replying`) may
  leave either kind of end.  The refinement of `Conversation` by `Framing` is
  what showed this case to be needed.
* **The server can be stopped by a signal and started again** (`ServerKilled`,
  `Restart`, bounded by `MaxBoots`).  The System V queue survives it.  A restart
  while a port is in TIME_WAIT fails in `bind` and the new process ends without
  having changed anything others see; that is the operator not restarting yet.
* **Users are free** to type, to leave, or to do neither.
* **`accept` takes its descriptor before it looks for a connection**, as Linux
  does: it fails with `EMFILE` also when nobody waits (`*AcceptFails`).  In
  task 2 several threads wait in `accept` at once, and each may hold one
  (`NoDescriptor`); a non-blocking `accept` gives it back (`PollerLooks`).
* Logging, allocation failures and address formatting are left out.

### `ThreadRegistry` and `src/task1`

| model | code |
|-------|------|
| `clients`, `amount` | `server->clients` with the words around it, `server->clients_amount` |
| `lpc`, `visitor`, `idx` | control of the main thread, the client of `add_client`, the value of `clients_amount` it loaded last |
| `mem`, `id` | whether a `struct client` is allocated; its field `id` |
| `tpc`, `text`, `seen`, `pos` | control of a client's thread, its message, the value of `clients_amount` and the index in `delete_client` |
| `Listener*`, `Admits` | `run_server`, `add_client` |
| `Thread*` | `handle_client_connection`, `close_connection` |
| `Delete*` | `delete_client` |

Nothing here is locked, so a step is one access to what the threads share, in
the order of the build of the Makefile (`gcc -g -O2`): `add_client` loads
`clients_amount` once for the test and the id, and again after `pthread_create`;
`delete_client` loads it before the search and after `free`, moves the entries
with one `memmove`, and stores the loaded value minus one.

A `struct client` is called by the client it was made for.  After `free`,
`malloc` may hand it out again while the array or a thread still points to it
(`ListenerReuses`), and `free` may meet it twice (`DeleteFreesTwice`): two
clients share a struct from there, or `free` aborts the process.  The model ends
where they share it (`proc = "shared"`), because nothing the code does
afterwards has a defined meaning.

The array is modelled with the words next to it that its indices reach
(`Words`).  Five pointers fill their chunk exactly, so the word behind the
array is the size of the next chunk, the endpoint that `run_server` frees at
every connection.  A deletion with the array all but full writes `NULL` there,
and the next connection makes `free` abort (`ListenerAborts`).  The runs scale
the array down and keep the words where they are.

The server has no restart: it leaves nothing behind.  `free_server` deletes
clients through the same unsafe calls and may fault; either way the process has
ended, so the exit is one step (`Down`).

### `Framing`, `Conversation` and the connections of all tasks

`Framing` has one client program and the thread that serves it; `toServer` and
`toClient` are the streams, a length being one item and each byte of text
another.  `Client*` are the calls of `process_input`, `send_message` and
`recv_message`, `Server*` those of the thread; one turn of a loop over `recv` is
a step and takes any piece of what is there.  `conn` says how the connection
ends.  A client that leaves sends a FIN, behind which `recv` returns 0.  What
the server sends then draws an RST (`refusing`), and once it has come
(`broken`), `send` fails while `recv` still returns 0.  A client killed with something
unread sends the RST itself (`resetting`, `reset`), and `recv` fails too.

*The four bytes of a length stay together.*  They are written by one call over
the loopback device (`SERVER_IP` is a constant of the code), which delivers
them in one segment.  `recv_message` would not survive a split; over another
network this would have to be a step of the model.

*A client whose server dies in the middle of a reply* spins, since `recv`
returns 0 for ever; at the grain of whole messages it counts as gone, as it
says nothing any more.

The mapping to `Conversation` is by operators of the names of what they
compute (`ClientIs`, `ThreadIs`, `Request`, `Answer`, ...): a message is asked
when all of it is under way, answered when all of the reply is.

`Framing` follows the blocking threads of tasks 1, 2 and 4.  The poller of
task 3 does not wait for a length and never notices the end of a stream; that
control is in `RequestQueue` (`PollerSkips`, `PollerMeetsEnd`), its loop over
the text is the same.

### `ServicePool` and `src/task2`

| model | code |
|-------|------|
| `status`, `mutex` | `service->status`, `server->services_mutex` |
| `msq`, `hand` | the System V queue; the report `handle_msq_updates` holds |
| `lpc`, `visitor`, `scan`, `pick` | control of `run_server`; its client; `i` and the result of `get_free_service` |
| `spc`, `partner`, `text` | control of a service thread, its client, the message in `communicate` |
| `sq`, `lq`, `fds` | accept queues, open descriptors |
| `Listener*` | `run_server`, `get_free_service` (one turn of its loop per step), `send_addr` |
| `Handler*` | `handle_msq_updates`, `change_service_status` (its critical section is one step) |
| `Service*` | `run_service`, `handle_client_connection`, `notify_server`, `communicate` |
| `ListenerExits`, `ServiceExits`, `Down` | `print_error`, `cleanup`, `free_server` on either kind of thread; the end of the process |
| `Client*` | `run_client`, `process_input` |

`ServiceExits` deserves a word.  `exit` on service thread *s* runs
`free_server`, which cancels the handler and frees services 1, 2, ...;
`free_service(s)` cancels the running thread itself, and the `close` after it
is a cancellation point.  The thread ends there.  `exit` never returns, the
`atexit` handler is consumed, services above *s* and the listener run on, and
the listener reads freed records (`"freed"`, any value).

### `RequestQueue` and `src/task3`

`clients` is the registry, `errno` the value `check_user_messages` tests, `idx`
its loop index, `taken` the message between `recv_message` and `msgsnd`, `job`
the request of a service.  A request carries the `boot` it was made in, because
its descriptor and pointer belong to that process.  `PollerMeetsEnd` keeps both
branches of the `errno` test, the dead one included.  The mutex of a service is
a private copy that excludes nobody, so it has no variable.  A service that
follows the pointer of an earlier process faults (`Leftover`): this assumes that
the heaps of two processes lie at different addresses (address space
randomisation, the default of Linux).

### `Multiplexer` and `src/task4`

`events` is what is left of the last report; `Reports` says in which order each
monitor's loop looks at the sockets (poll looks at TCP only, because both of
its branches test `fds[0]`).  Messages are lengths: the empty line and the
size of the UDP client's reply buffer are what this server tells apart.  `fill`
and `shown` are the bytes of that buffer ever written and the length of the
line printed last; an unterminated reply prints up to either end.

## 3. Runs

Safety runs permute interchangeable clients and messages (`SYMMETRY`); liveness
runs do not.  Deadlock is not checked: when all clients are gone, or the server
is down for good, the system stops.

| run | bounds | shows |
|-----|--------|-------|
| `registry` | 3 clients, 1 message, 2 entries, backlog 0, 3 descriptors, 1 kill | `TypeOK`, `StoresStayBelow`, `FirstLeaverIsDeleted`, `DownHasACause`, `EchoRefinement`, `ConversationRefinement`, `ClientServed` |
| `registry_delete` | 3 clients, 5 entries, no kill | `DeletesItself` fails |
| `pool_safety` | 3 clients, 2 messages, 2 services, backlog 0, 2 queue slots, 4 descriptors, 1 kill, 2 boots | `TypeOK`, `OneConversation`, `RecordsFollowFirstBoot`, `ScanIsSnapshot`, `EchoRefinement`, `ConversationRefinement` |
| `pool_liveness` | 3 clients, 2 services, backlog 1, 1 queue slot, 9 descriptors, no kill | `VisitorAnswered`, `RequestServed`, `ServiceReturns` |
| `pool_cleanup` | 1 client, 1 service, 1 kill | `CleanupEnds` fails |
| `queue_safety` | 4 clients, 2 messages, 2 services, 2 slots, 1 queue slot, 4 descriptors, 1 kill, 2 boots | `TypeOK`, `SlotsAreKept`, `OnePlace`, `DownHasACause`, `EchoRefinement`, `ConversationRefinement` |
| `queue_liveness` | 3 clients, no kill, 1 boot | `RequestServed`, `ConnectionAccepted` |
| `queue_leavers` | 1 client | `LeaversAreRemoved` fails |
| `mux_safety` | 2 TCP and 2 UDP clients, lengths 0, 121, 122, all monitors, 1 UDP slot, 1 kill, 2 boots | `TypeOK`, `ReportStaysTrue`, `OneDescriptor`, `DownHasACause`, `EchoRefinement`, `ConversationRefinement` |
| `mux_liveness` | 2 TCP and 2 UDP clients, lengths 0 and 5, all monitors, 2 UDP slots, 1 kill | `DatagramAnswered`, `ConnectionAccepted` |
| `mux_shown` | 1 client of each protocol, lengths 10 and 20 | `RepliesArePrinted` fails |
| `framing` | 2 lines of each of the lengths 0, 1, 2, a prefix of 2 bytes, kills anywhere | `TypeOK`, `InStep`, `MessagesAreWhole`, `ConversationRefinement`, `OnePlace`, `EchoRefinement`, `LineAnswered`, `ThreadEnds` |

**Why the bounds are enough.**  The cases that matter need: two services, so
that "the first free one" and "all occupied" differ; three clients, so that two
share a service while a third takes the other; a queue smaller than the number
of reports under way, so that `msgsnd` blocks; fewer descriptors than the
connections a behaviour can open and the `accept` calls that wait take together,
so that `accept` fails both in the listener and in a service (`pool_liveness` has
enough for all, so that what it promises does not rest on a server that ended);
one kill and one restart, so that each failing branch is
taken and the queue is inherited once.  For task 3, two clients more than
slots, so that one is turned away before `accept` fails, and two services, so
that replies overtake each other.  For task 4, two clients
of each protocol, so that one waits while another talks, and lengths on both
sides of the reply buffer's limit.  For task 1, one client more than entries,
and one descriptor more than entries, so that a client is turned away by the
full registry before descriptors run out, the array is all but full, two
deletions run at once, and `accept` fails.
For `Framing`, texts of two bytes and replies of up to four are cut in every
way, an empty line has no text to wait for, and lines of one length with
different tags tell one message from the next.  The state spaces have some
410 000 (`registry`), 610 000 (`pool_safety`), 160 000 (`queue_safety`),
300 000 (`mux_safety`) and 1 800 (`framing`) states.  In every passing run each
action of the server fires; the coverage of the safety runs includes all
failing branches.

**What they show that a test hardly would.**

* *Lost updates do no harm where it would hurt most.*  `clients_amount` is
  incremented and decremented without a lock, and updates of both kinds are lost:
  the number may be too small or too large for the clients there are.
  `StoresStayBelow`: it still never passes the size of the array, so the main
  thread does not store behind it.  `ClientServed`: a thread does not depend on
  the registry, so its client is served all the same.
* *The first deletion is right* (`FirstLeaverIsDeleted`), in every interleaving
  with the registration of others, even when the thread ends before its client
  is stored.  It is from the second on that ids repeat (`registry_delete`).
* *Messages stay whole.*  `InStep`: wherever `recv` cuts a stream, the item at
  which either end reads a length is a length.  `ConversationRefinement` is why
  the other modules may speak of messages.
* *Records follow the services.*  The service stores `OCCUPIED` outside the
  lock, its report comes later, and the report `FREE` of the conversation before
  may still be in the queue.  `RecordsFollowFirstBoot` says what saves it: the
  last report under way about a service is always right, whatever the record
  says meanwhile.
* *The search is a snapshot.*  `ScanIsSnapshot`: the answer `occupied` is true
  at the instant the search ends, since only the handler frees a record and it
  needs the mutex.
* *One conversation.*  Although a service is offered twice, the second client
  waits in its accept queue and is served there, by nobody else
  (`OneConversation`), and in the end (`RequestServed`).
* *One place.*  `OnePlace` follows a message through socket, poller, queue,
  service and back; in `Framing`, through streams and buffers.
* *A conversation each.*  `ConversationRefinement` of the servers: whatever is
  shared (an unlocked registry, records, a queue and its services, one thread for
  all), what a client meets is a conversation of its own, to the last `recv`.
* *The report stays true.*  Under select and epoll the second event is looked
  at after a TCP conversation of any length; `ReportStaysTrue` is why the
  blocking `accept` then does not stop the server.
* *A client that just leaves does not end the server* (`DownHasACause`), which
  the failing branches make delicate.  In tasks 1 and 3 the exceptions are wide:
  any kill before, any moment at which descriptors are used up, in task 3 what
  the process before it left.  In task 1 also any two clients that have ever
  left, at once or one after the other: what remains is that a lone leaver ends
  nothing, however its deletion is interleaved.

### Fairness

The kernel schedules every thread that can run: weak fairness of each server
thread and of the client programs' own steps (reading an answer; in `Framing`
every call between two lines).  Segments arrive (`ResetArrives`).  Users are
not scheduled, and nobody has to kill or leave.  A thread that waits for
`services_mutex` gets it, because the holders release it after finitely many steps and contend for it finitely often
while a visitor waits.  `PatientSpec` adds one assumption about users: each of
them ends the input some day.  The step is enabled only while the client is not
waiting, again and again, so it is strong fairness.  Without it nothing can be
promised to a client queued behind another one (tasks 2 and 4).  `RequestQueue`
does not need it, since no client waits for another to leave.

## 4. Where code and documentation differ

Four runs show a disagreement (`PROJECT.json`, findings, quotes the lines): a
deletion that frees the struct of another client; a cleanup that cancels
itself; slots that are never freed; replies printed with the end of earlier
ones.

Others are visible in the models without a run of their own, as exceptions in
the properties that hold or as actions:

* `DownHasACause` of task 1 has the spoilt chunk behind the array: with four of
  five clients connected, one that leaves makes the server abort at the next
  connection (server.c:132).
* `ClientServed` of task 1 is promised to clients with a thread: one beyond
  `CLIENTS_AMOUNT` is connected and never read (server.c:88).
* `ThreadEnds` has `"spin"`: half a message keeps a thread in its loop for ever
  (in task 3 and 4 the only one that reads).
* `DatagramAnswered` excludes poll, which never looks at the UDP socket: the UDP
  branch of `run_poll` tests `fds[0]` a second time (server.c:132), although the
  comment at lines 104-105 promises calls "for protocols".
* Two visitors can be sent to one service (task 2, server.c:212): the record
  stays `FREE` until the service has accepted.  `OneConversation` and
  `RequestServed` say what holds all the same.
* `RecordsFollowFirstBoot` has `boots = 1`: a restarted listener applies the
  reports of the process before it (server.c:23 attaches to the old queue).
* `DownHasACause` of task 3 has `Leftover`: a restarted server takes requests
  with pointers of the old process, and faults.
* `RequestServed` of task 3 has `Registered`: a client beyond `CLIENTS_AMOUNT`
  is connected and never read (server.c:222).
* `DownHasACause` of task 4 has the empty datagram (server.c:259).
* `ConnectionAccepted` of task 4 has the UDP loop: no connection is accepted
  after the first datagram (server.c:257).
* `ClientRefused` of task 2 fires with the server up: a visitor can be sent to a
  service that does not listen yet (server.c:78).
* `fds` of task 2 is never decremented for visitors: they are shut down, not
  closed (server.c:114).

## 5. Proofs

Every safety property of the passing runs is proved, for every value of the
constants that satisfies the module's assumption.  The assumptions say that
bounds are natural numbers (at least one entry, slot or boot where the code has
one) and that the values for "nothing" differ from the others.  Each module of
proofs defines one inductive invariant, proves it step by step, one lemma per
action or per part, and derives the properties from it.

| module | theorem | property |
|--------|---------|----------|
| `ConversationProofs` | `MessageInOnePlace`, `ConversationIsEcho` | `OnePlace`, `EchoRefinement` |
| `ThreadRegistryProofs` | `RegistryInvariant` | `Spec => []RegistryInv` |
| | `TypeCorrect`, `RegistryIsNotOverfilled` | `TypeOK`, `StoresStayBelow` |
| | `FirstDeletionIsRight`, `LoneLeaverEndsNothing` | `FirstLeaverIsDeleted`, `DownHasACause` |
| | `RegistryIsEchoService`, `RegistryIsConversations` | `EchoRefinement`, `ConversationRefinement` |
| `ServicePoolProofs` | `PoolInvariant` | `Spec => []PoolInv` |
| | `TypeCorrect`, `ClientsAreServedOnce`, `RecordsCatchUp` | `TypeOK`, `OneConversation`, `RecordsFollowFirstBoot` |
| | `SearchIsSnapshot` | `ScanIsSnapshot` |
| | `NobodyWaitsInACircle` | `Spec => []ChainEnds` |
| | `PoolIsEchoService`, `PoolIsConversations` | `EchoRefinement`, `ConversationRefinement` |
| `RequestQueueProofs` | `QueueInvariant` | `Spec => []QueueInv` |
| | `TypeCorrect`, `SlotsStayTaken`, `OneMessageOnePlace` | `TypeOK`, `SlotsAreKept`, `OnePlace` |
| | `ServerEndsForACause` | `DownHasACause` |
| | `QueueIsEchoService`, `QueueIsConversations` | `EchoRefinement`, `ConversationRefinement` |
| `MultiplexerProofs` | `MuxInvariant` | `Spec => []MuxInv` |
| | `TypeCorrect`, `ReportIsTrue`, `NoDescriptorLeaks` | `TypeOK`, `ReportStaysTrue`, `OneDescriptor` |
| | `ServerEndsForACause` | `DownHasACause` |
| | `MuxIsEchoService`, `MuxIsConversations` | `EchoRefinement`, `ConversationRefinement` |
| `FramingProofs` | `FramingInvariant` | `Spec => []FramingInv` |
| | `TypeCorrect`, `EndsStayInStep`, `MessagesArriveWhole` | `TypeOK`, `InStep`, `MessagesAreWhole` |
| | `FramingIsConversation` | `ConversationRefinement` |
| | `LineInOnePlace`, `FramingIsEcho` | `OnePlace`, `EchoRefinement` |

The properties `OnePlace` and `EchoRefinement` of `Framing` are those of
`Conversation` seen through its refinement mapping, and so are their proofs:
`LineInOnePlace` and `FramingIsEcho` cite `FramingIsConversation` and the two
theorems of `ConversationProofs`, instantiated with the mapping, and nothing of the
streams.  A theorem of an instance that has a parameter cannot be cited, so for
the servers, with their conversation per client, `EchoRefinement` has a proof of
its own.

**The conversations of a server** need to know what is left of a client whose
connection is closed, which the invariants below do not say.  `Closed` does,
in the proofs of tasks 2, 3 and 4: no connection, nothing unread; nothing read,
unless the thread is at the reply (or was cancelled there); a poller that spins
does so over half a message.  The proofs have one lemma per kind of step, which names the
step of `Conversation` its client sees, and one (`Unseen`) for all others: what
leaves a client, its end of the wire and its share of the server alone, leaves
its conversation.  In `RequestQueueProofs` the thread of a conversation is the
set `Requests(c)` of places that hold a request of `c`; the lemmas `*Requests`
say how each action changes it, and with `UnderWay` it has at most one member.
For task 1 the inductive invariant is enough.

**`RegistryInv`.**  Without a lock little holds for ever.  `Below` does:
`clients_amount` and every copy of it a thread has loaded stay within the
array, with room for the client that is being added.  `Numbered` holds until
the first thread has moved the entries (`Quiet`): the clients are numbered in the
order they came, so the first deletion finds its own.  `Lone` holds until a
second client leaves: the number is at most one too small, nobody faults.
`OneMessage` carries the refinement, `Blame` says that only killed clients leave
something under way, `Waiting` that a connection in the accept queue has no thread.

**`PoolInv`.**  `Visiting`: a visitor is in one place of the listener's accept
queue and has no offer; without it a client could dial twice.  `Dialled`: only a
client that was sent to a service has a connection, only an accepted one is
answered, only a client that is gone is reset.  `OneMessage`: the message a
service holds is the one its client waits on and is nowhere else; this carries
the refinement.  `Scanning`: while the listener searches it holds the mutex, and
every record behind its index is `OCCUPIED` or freed; this carries
`ScanIsSnapshot`.  `Descriptors`: a descriptor is open per conversation, so
`fds` does not become negative.  `HeldBriefly`, an invariant besides it: until a
service calls `exit`, only the search holds the mutex.  It gives the safety half
of `VisitorAnswered` and `ServiceReturns` for all constants: services, handler and
listener never wait for each other in a circle (`ChainEnds`).  After a service
has called `exit` this is not so (`pool_cleanup`): the handler is gone.  The lemmas `Settled*` treat the report queue
(append, receive, apply) once for all actions.

**`QueueInv`.**  `UnderWay` says in which single place the message of a client is:
`OnePlace` counts places, which is not inductive unless one knows where each
holder is.  `Said`: what is there is what was asked.  `Connected`: only
connections of this process are talked about.  `Dated`: which process a request
comes from.  `Waiting`, `Stopped`: before a connection is accepted, and after
the process has ended.  `Silent`: `errno` is `EAGAIN` whenever
`check_user_messages` runs, which is why its second branch is dead and slots are
kept.

**`MuxInv`.**  `Reported`: a socket is in the report once, and not any more when
its branch runs; this keeps the report true, because nobody else takes a
connection from the queue or a datagram from the buffer.  `UnderWay` follows a
message from socket or buffer through the server, `Connected` says which
connections are open, `Waiting` which are in the accept queue.

**`FramingInv`.**  While both processes live, the conversation is in one of six
phases (`Typing`, `Announced`, `Asked`, `Taken`, `Answering`, `Answered`), each of
which says what is in either stream and in either buffer.  `Leaving` says what
remains of it when the client is gone.  `InStep` is the part of the invariant
that speaks of cut texts: what was received and what is still under way make up
a beginning of the text.  The step of one turn of a loop over `recv` rests on the
lemma `Cut`: moving a piece from the stream to the buffer changes neither.

**Only model-checked:** liveness (`ClientServed`, `VisitorAnswered`,
`RequestServed`, `ServiceReturns`, `ConnectionAccepted`, `DatagramAnswered`,
`LineAnswered`, `ThreadEnds`): fairness and `ENABLED` are beyond the prover.

## 6. What was planned and what is left

The plan was the four servers in the order 2, 3, 4, 1, each with its runs, then
the proofs, then `Framing`, then the layer of conversations between the servers
and the echo service.  All of it is done.  What could still be added:

* a split of the four bytes of a length, if the programs are to run over
  anything but the loopback device;
* `ThreadRegistry` beyond a reused struct, which needs a model of the heap.

## 7. Not modelled

* What task 1 does after two clients share a struct, and which of its faults
  `free_server` meets on the way out.
* The length of texts beyond the two ends: `strncpy` in task 3 (server.c:154)
  leaves a message of 128 bytes or more unterminated; the client of the
  repository sends at most 126.
* Failures of `socket`, `bind`, `listen`, `pthread_create`, `malloc` at start-up:
  the process ends before it interacts.  This includes `bind` on a port in
  TIME_WAIT, after which `exit` frees threads that were never created
  (task 2, server.c:65).
* `msgsnd` and `msgrcv` of task 3 are told the size of the whole `struct msg`
  (server.c:156, service.c:111), 8 bytes more than its payload: they read and
  write 8 bytes behind the struct.  In the build at hand this changes nothing
  the program uses, and the model has no such bytes.
* `service->mutex` of task 2 is never initialised; fresh heap memory is zero,
  an unlocked mutex used by one thread only.
* `inet_ntoa` results shared between endpoints, log texts, address parsing.
* A UDP port of a killed client reused by another program.
