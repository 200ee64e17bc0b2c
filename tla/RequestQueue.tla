---------------------------- MODULE RequestQueue ----------------------------
(***************************************************************************)
(* Task 3, the producer-consumer server (task3/server, task3/service,      *)
(* task3/client).  One thread, the poller, accepts connections without     *)
(* blocking, and when there is none to accept reads one message from every *)
(* registered client that has sent one and puts it as a request into a     *)
(* System V queue.  Service threads take requests out, in any order of     *)
(* threads, and answer each on the connection of its client.               *)
(*                                                                         *)
(* The mutex every service holds around msgrcv is a copy of its own, so it *)
(* excludes nobody.  TCP is modelled at the grain of whole messages, as in *)
(* ServicePool: the second send of a reply to a client that has gone       *)
(* raises SIGPIPE, fails with ECONNRESET, or is lost; a client killed      *)
(* between its two leaves Half a message.  exit() runs free_server to its  *)
(* end on any thread, which removes the queue: nothing it calls before     *)
(* exit_group is a cancellation point while stdout, a terminal, is empty.  *)
(***************************************************************************)
EXTENDS Naturals, Sequences, FiniteSets

CONSTANTS
  Clients,         \* runs of task3/client
  Messages,        \* lines a user types
  ServicesAmount,  \* SERVICES_AMOUNT
  ClientsAmount,   \* CLIENTS_AMOUNT, the slots of the registry
  Backlog,         \* the argument of listen(), CLIENTS_AMOUNT in the code
  QueueSlots,      \* requests the kernel's queue holds before msgsnd blocks
  FdLimit,         \* descriptors left for accepted connections
  MaxKills,        \* bound: clients that are killed
  MaxBoots,        \* bound: times the server is started; the last is not stopped
  Half,            \* the length of a message whose text never follows
  None             \* no message, no request

Services == 1..ServicesAmount

(* struct user_request: a copy of struct client, so the descriptor and the *)
(* endpoint pointer it holds mean something to one process only.           *)
Request == [client : Clients, message : Messages, boot : 1..MaxBoots]

Prefixed(m) == <<"Server", m>>   \* edit_message

ASSUME RequestAssumption ==
  /\ ServicesAmount \in Nat \ {0} /\ ClientsAmount \in Nat \ {0}
  /\ Backlog \in Nat /\ QueueSlots \in Nat \ {0} /\ FdLimit \in Nat
  /\ MaxKills \in Nat /\ MaxBoots \in Nat \ {0}
  /\ None \notin Messages \cup Request /\ Half \notin Messages \cup {None}
  /\ \A m \in Messages : Prefixed(m) # None

VARIABLES
  up,       \* the server process runs
  boots,    \* times it was started
  lq,       \* accept queue of the listening socket
  clients,  \* server->clients[0 .. clients_amount - 1]
  errno,    \* errno of the poller: "EAGAIN" or what it was before
  ppc,      \* control of the poller
  idx,      \* index of check_user_messages, counted from 1
  taken,    \* the request it has read and not sent
  queue,    \* the System V queue; it outlives the process
  spc,      \* spc[s]: control of service s
  job,      \* job[s]: the request service s has taken and not answered
  fds,      \* accepted connections whose descriptor is open
  cpc,      \* cpc[c]: control of client c
  conn,     \* conn[c]: the server's end of c's connection
  request,  \* request[c]: bytes from c the poller has not read
  asked,    \* asked[c]: the message c waits on
  answer,   \* answer[c]: the reply on its way to c
  kills     \* clients killed so far

processVars == <<up, boots>>
pollerVars  == <<clients, errno, ppc, idx, taken>>
serviceVars == <<spc, job>>
clientVars  == <<cpc, asked, kills>>
wireVars    == <<conn, request, answer>>
vars == <<processVars, lq, pollerVars, queue, serviceVars, fds, clientVars, wireVars>>

Init ==
  /\ up = TRUE /\ boots = 1 /\ lq = <<>>
  /\ clients = <<>> /\ errno = "none" /\ ppc = "accept" /\ idx = 1 /\ taken = None
  /\ queue = <<>>
  /\ spc = [s \in Services |-> "receive"] /\ job = [s \in Services |-> None]
  /\ fds = 0
  /\ cpc = [c \in Clients |-> "start"]
  /\ conn = [c \in Clients |-> "none"]
  /\ request = [c \in Clients |-> None]
  /\ asked = [c \in Clients |-> None]
  /\ answer = [c \in Clients |-> None]
  /\ kills = 0
-----------------------------------------------------------------------------
(* The end of the process.                                                 *)

(* Every client that has a connection, accepted or not, finds it ended and *)
(* exits (a reply it was about to read first is not followed).  Of the     *)
(* server only the queue is left, with the requests q in it.               *)
Down(q) ==
  /\ up' = FALSE /\ lq' = <<>>
  /\ clients' = <<>> /\ errno' = "none" /\ ppc' = "accept" /\ idx' = 1 /\ taken' = None
  /\ queue' = q
  /\ spc' = [s \in Services |-> "receive"] /\ job' = [s \in Services |-> None]
  /\ fds' = 0
  /\ cpc' = [c \in Clients |-> IF cpc[c] = "start" THEN "start" ELSE "gone"]
  /\ conn' = [c \in Clients |-> "none"]
  /\ request' = [c \in Clients |-> None]
  /\ asked' = [c \in Clients |-> None]
  /\ answer' = [c \in Clients |-> None]
  /\ UNCHANGED <<boots, kills>>

(* A signal ends the process: atexit handlers do not run. *)
Crash == Down(queue)

(* print_error: exit() runs cleanup, and free_server removes the queue.    *)
Exit == Down(<<>>)

(* The operator stops the server with a signal. *)
ServerKilled == up /\ boots < MaxBoots /\ Crash

(* The operator starts it again: msgget attaches to the queue that is there. *)
Restart ==
  /\ ~up /\ boots < MaxBoots
  /\ up' = TRUE /\ boots' = boots + 1
  /\ UNCHANGED <<lq, pollerVars, queue, serviceVars, fds, clientVars, wireVars>>
-----------------------------------------------------------------------------
(* The poller: run_server, add_client, check_user_messages, send_request.  *)

(* Mutant of PollerAccept: the slots are counted one too far. *)
PollerAcceptOverfills ==
  /\ up /\ ppc = "accept" /\ lq # <<>> /\ fds < FdLimit
  /\ lq' = Tail(lq)
  /\ fds' = fds + 1
  /\ conn' = [conn EXCEPT ![Head(lq)] = "open"]
  /\ clients' = IF Len(clients) > ClientsAmount THEN clients ELSE Append(clients, Head(lq))
  /\ UNCHANGED <<processVars, errno, ppc, idx, taken, queue, serviceVars, clientVars,
                 request, answer>>

(* When the registry is full add_client returns, and the connection stays  *)
(* open with nobody to read it.                                            *)
PollerAccept ==
  /\ up /\ ppc = "accept" /\ lq # <<>> /\ fds < FdLimit
  /\ lq' = Tail(lq)
  /\ fds' = fds + 1
  /\ conn' = [conn EXCEPT ![Head(lq)] = "open"]
  /\ clients' = IF Len(clients) = ClientsAmount THEN clients ELSE Append(clients, Head(lq))
  /\ UNCHANGED <<processVars, errno, ppc, idx, taken, queue, serviceVars, clientVars,
                 request, answer>>

(* accept fails with EMFILE: the kernel takes the descriptor before it     *)
(* looks for a connection, so nobody need be waiting for one.              *)
PollerAcceptFails ==
  /\ up /\ ppc = "accept" /\ fds = FdLimit
  /\ Exit

(* accept finds nobody: check_user_messages begins. *)
PollerLooks ==
  /\ up /\ ppc = "accept" /\ lq = <<>> /\ fds < FdLimit
  /\ errno' = "EAGAIN" /\ ppc' = "check" /\ idx' = 1
  /\ UNCHANGED <<processVars, lq, clients, taken, queue, serviceVars, fds, clientVars,
                 wireVars>>

(* Mutant of PollerReturns: the next round begins without an accept. *)
PollerStaysIn ==
  /\ up /\ ppc = "check" /\ idx > Len(clients)
  /\ IF clients = <<>> THEN ppc' = "accept" /\ UNCHANGED idx
                        ELSE idx' = 1 /\ UNCHANGED ppc
  /\ UNCHANGED <<processVars, lq, clients, errno, taken, queue, serviceVars, fds,
                 clientVars, wireVars>>

PollerReturns ==
  /\ up /\ ppc = "check" /\ idx > Len(clients)
  /\ ppc' = "accept"
  /\ UNCHANGED <<processVars, lq, clients, errno, idx, taken, queue, serviceVars, fds,
                 clientVars, wireVars>>

(* Mutant of PollerReads: the message stays in the socket. *)
PollerReadsAgain ==
  /\ up /\ ppc = "check" /\ idx <= Len(clients) /\ request[clients[idx]] \in Messages
  /\ taken' = [client |-> clients[idx], message |-> request[clients[idx]], boot |-> boots]
  /\ ppc' = "send"
  /\ UNCHANGED <<processVars, lq, clients, errno, idx, queue, serviceVars, fds, clientVars,
                 wireVars>>

PollerReads ==
  /\ up /\ ppc = "check" /\ idx <= Len(clients) /\ request[clients[idx]] \in Messages
  /\ taken' = [client |-> clients[idx], message |-> request[clients[idx]], boot |-> boots]
  /\ request' = [request EXCEPT ![clients[idx]] = None]
  /\ ppc' = "send"
  /\ UNCHANGED <<processVars, lq, clients, errno, idx, queue, serviceVars, fds, clientVars,
                 conn, answer>>

(* The length has come and the text never will: the blocking recv returns  *)
(* 0 for ever.  Nobody is accepted or read again.                          *)
PollerSpins ==
  /\ up /\ ppc = "check" /\ idx <= Len(clients) /\ request[clients[idx]] = Half
  /\ ppc' = "spin"
  /\ UNCHANGED <<processVars, lq, clients, errno, idx, taken, queue, serviceVars, fds,
                 clientVars, wireVars>>

(* Mutant of PollerSkips: a silent client ends the round. *)
PollerSkipsRest ==
  /\ up /\ ppc = "check" /\ idx <= Len(clients) /\ request[clients[idx]] = None
  /\ cpc[clients[idx]] # "gone"
  /\ errno' = "EAGAIN" /\ ppc' = "accept"
  /\ UNCHANGED <<processVars, lq, clients, idx, taken, queue, serviceVars, fds, clientVars,
                 wireVars>>

(* recv fails with EAGAIN: the client is silent. *)
PollerSkips ==
  /\ up /\ ppc = "check" /\ idx <= Len(clients) /\ request[clients[idx]] = None
  /\ cpc[clients[idx]] # "gone"
  /\ errno' = "EAGAIN" /\ idx' = idx + 1
  /\ UNCHANGED <<processVars, lq, clients, ppc, taken, queue, serviceVars, fds, clientVars,
                 wireVars>>

(* Mutant of PollerMeetsEnd: the end of a stream is taken for an error. *)
PollerMeetsEndExits ==
  /\ up /\ ppc = "check" /\ idx <= Len(clients) /\ request[clients[idx]] = None
  /\ cpc[clients[idx]] = "gone" /\ conn[clients[idx]] = "open"
  /\ Exit

(* recv returns 0 and leaves errno alone: it still is what the last failed *)
(* call set it to.  Only another value leads to close_connection and       *)
(* delete_client, which shifts the entries behind idx.                     *)
PollerMeetsEnd ==
  LET c == clients[idx] IN
  /\ up /\ ppc = "check" /\ idx <= Len(clients) /\ request[c] = None
  /\ cpc[c] = "gone" /\ conn[c] = "open"
  /\ IF errno = "EAGAIN"
       THEN UNCHANGED <<clients, conn, fds>>
       ELSE /\ clients' = [i \in 1..(Len(clients) - 1) |->
                             IF i < idx THEN clients[i] ELSE clients[i + 1]]
            /\ conn' = [conn EXCEPT ![c] = "none"]
            /\ fds' = fds - 1
  /\ idx' = idx + 1
  /\ UNCHANGED <<processVars, lq, errno, ppc, taken, queue, serviceVars, clientVars,
                 request, answer>>

(* recv fails with ECONNRESET. *)
PollerReadFails ==
  /\ up /\ ppc = "check" /\ idx <= Len(clients) /\ conn[clients[idx]] = "reset"
  /\ Exit

(* Mutant of PollerSends: the request sent is kept. *)
PollerSendsKeeps ==
  /\ up /\ ppc = "send" /\ Len(queue) < QueueSlots
  /\ queue' = Append(queue, taken)
  /\ ppc' = "check" /\ idx' = idx + 1
  /\ UNCHANGED <<processVars, lq, clients, errno, taken, serviceVars, fds, clientVars,
                 wireVars>>

(* send_request: msgsnd blocks while the queue is full. *)
PollerSends ==
  /\ up /\ ppc = "send" /\ Len(queue) < QueueSlots
  /\ queue' = Append(queue, taken)
  /\ taken' = None
  /\ ppc' = "check" /\ idx' = idx + 1
  /\ UNCHANGED <<processVars, lq, clients, errno, serviceVars, fds, clientVars, wireVars>>
-----------------------------------------------------------------------------
(* A service thread: handle_client_requests.                               *)

ServiceReceives(s) ==
  /\ up /\ spc[s] = "receive" /\ queue # <<>>
  /\ job' = [job EXCEPT ![s] = Head(queue)]
  /\ queue' = Tail(queue)
  /\ spc' = [spc EXCEPT ![s] = "reply"]
  /\ UNCHANGED <<processVars, lq, pollerVars, fds, clientVars, wireVars>>

(* Mutant of ServiceReplies: the request answered is not forgotten. *)
ServiceRepliesAgain(s) ==
  LET c == job[s].client IN
  /\ up /\ spc[s] = "reply" /\ job[s].boot = boots
  /\ answer' = [answer EXCEPT ![c] = IF cpc[c] = "gone" THEN None
                                                        ELSE Prefixed(job[s].message)]
  /\ UNCHANGED <<processVars, lq, pollerVars, queue, serviceVars, fds, clientVars, conn,
                 request>>

(* A client that is gone gets nothing. *)
ServiceReplies(s) ==
  LET c == job[s].client IN
  /\ up /\ spc[s] = "reply" /\ job[s].boot = boots
  /\ answer' = [answer EXCEPT ![c] = IF cpc[c] = "gone" THEN None
                                                        ELSE Prefixed(job[s].message)]
  /\ job' = [job EXCEPT ![s] = None]
  /\ spc' = [spc EXCEPT ![s] = "receive"]
  /\ UNCHANGED <<processVars, lq, pollerVars, queue, fds, clientVars, conn, request>>

(* The client is gone: SIGPIPE, or ECONNRESET. *)
ServiceReplyFails(s) ==
  /\ up /\ spc[s] = "reply" /\ job[s].boot = boots /\ cpc[job[s].client] = "gone"
  /\ Crash \/ Exit

(* A request of a process that is no more: its endpoint points nowhere.    *)
ServiceFaults(s) ==
  /\ up /\ spc[s] = "reply" /\ job[s].boot # boots
  /\ Crash
-----------------------------------------------------------------------------
(* The client program.                                                     *)

ClientConnects(c) ==
  /\ cpc[c] = "start" /\ up /\ Len(lq) <= Backlog
  /\ lq' = Append(lq, c)
  /\ conn' = [conn EXCEPT ![c] = "backlog"]
  /\ cpc' = [cpc EXCEPT ![c] = "ready"]
  /\ UNCHANGED <<processVars, pollerVars, queue, serviceVars, fds, asked, kills, request,
                 answer>>

ClientRefused(c) ==
  /\ cpc[c] = "start" /\ ~up
  /\ cpc' = [cpc EXCEPT ![c] = "gone"]
  /\ UNCHANGED <<processVars, lq, pollerVars, queue, serviceVars, fds, asked, kills,
                 wireVars>>

ClientAsks(c) ==
  /\ cpc[c] = "ready"
  /\ \E m \in Messages : /\ asked' = [asked EXCEPT ![c] = m]
                         /\ request' = [request EXCEPT ![c] = m]
  /\ cpc' = [cpc EXCEPT ![c] = "await"]
  /\ UNCHANGED <<processVars, lq, pollerVars, queue, serviceVars, fds, kills, conn, answer>>

ClientTakes(c) ==
  /\ cpc[c] = "await" /\ answer[c] # None
  /\ asked' = [asked EXCEPT ![c] = None]
  /\ answer' = [answer EXCEPT ![c] = None]
  /\ cpc' = [cpc EXCEPT ![c] = "ready"]
  /\ UNCHANGED <<processVars, lq, pollerVars, queue, serviceVars, fds, kills, conn, request>>

(* fgets meets the end of input: print_error exits between two requests. *)
ClientQuits(c) ==
  /\ cpc[c] = "ready"
  /\ cpc' = [cpc EXCEPT ![c] = "gone"]
  /\ UNCHANGED <<processVars, lq, pollerVars, queue, serviceVars, fds, asked, kills,
                 wireVars>>

(* The client is killed: its kernel sends an RST instead of a FIN when a   *)
(* reply, or the length of one that is being sent, lies unread.            *)
Replying(c) ==
  \E s \in Services : spc[s] = "reply" /\ job[s].client = c /\ job[s].boot = boots

ClientKilled(c) ==
  /\ cpc[c] \in {"ready", "await"} /\ kills < MaxKills
  /\ kills' = kills + 1
  /\ cpc' = [cpc EXCEPT ![c] = "gone"]
  /\ asked' = [asked EXCEPT ![c] = None]
  /\ answer' = [answer EXCEPT ![c] = None]
  /\ \/ answer[c] = None /\ UNCHANGED conn
     \/ (answer[c] # None \/ Replying(c)) /\ conn' = [conn EXCEPT ![c] = "reset"]
  /\ UNCHANGED <<processVars, lq, pollerVars, queue, serviceVars, fds, request>>

(* The client is killed between the two sends of its message. *)
ClientCutOff(c) ==
  /\ cpc[c] = "ready" /\ kills < MaxKills
  /\ kills' = kills + 1
  /\ cpc' = [cpc EXCEPT ![c] = "gone"]
  /\ request' = [request EXCEPT ![c] = Half]
  /\ UNCHANGED <<processVars, lq, pollerVars, queue, serviceVars, fds, asked, conn, answer>>
-----------------------------------------------------------------------------
Poller ==
  \/ PollerAccept \/ PollerLooks \/ PollerReturns \/ PollerReads \/ PollerSkips
  \/ PollerMeetsEnd \/ PollerSends \/ PollerSpins
  \/ PollerAcceptFails \/ PollerReadFails
Service(s) ==
  \/ ServiceReceives(s) \/ ServiceReplies(s)
  \/ ServiceReplyFails(s) \/ ServiceFaults(s)
Client(c) == ClientRefused(c) \/ ClientTakes(c)
User(c) ==
  \/ ClientConnects(c) \/ ClientAsks(c) \/ ClientQuits(c)
  \/ ClientKilled(c) \/ ClientCutOff(c)

Next ==
  \/ Poller \/ ServerKilled \/ Restart
  \/ \E s \in Services : Service(s)
  \/ \E c \in Clients : Client(c) \/ User(c)

Spec == Init /\ [][Next]_vars

(* The threads and the client programs are scheduled; users are free. *)
Fairness ==
  /\ WF_vars(Poller)
  /\ \A s \in Services : WF_vars(Service(s))
  /\ \A c \in Clients : WF_vars(Client(c))

FairSpec == Spec /\ Fairness
-----------------------------------------------------------------------------
(* Properties.                                                             *)

TypeOK ==
  /\ up \in BOOLEAN /\ boots \in 1..MaxBoots
  /\ lq \in Seq(Clients)
  /\ clients \in Seq(Clients) /\ Len(clients) <= ClientsAmount
  /\ errno \in {"none", "EAGAIN"}
  /\ ppc \in {"accept", "check", "send", "spin"}
  /\ idx \in Nat \ {0} /\ (ppc \in {"send", "spin"} => idx <= Len(clients))
  /\ taken \in Request \cup {None} /\ (ppc = "send" <=> taken # None)
  /\ queue \in Seq(Request)
  /\ spc \in [Services -> {"receive", "reply"}]
  /\ job \in [Services -> Request \cup {None}]
  /\ \A s \in Services : spc[s] = "reply" <=> job[s] # None
  /\ fds \in Nat
  /\ cpc \in [Clients -> {"start", "ready", "await", "gone"}]
  /\ conn \in [Clients -> {"none", "backlog", "open", "reset"}]
  /\ request \in [Clients -> Messages \cup {Half, None}]
  /\ asked \in [Clients -> Messages \cup {None}]
  /\ answer \in [Clients -> {Prefixed(m) : m \in Messages} \cup {None}]
  /\ kills \in 0..MaxKills

(* A slot of the registry is never used twice: the first ClientsAmount     *)
(* connections of a process take the slots and keep them, and their        *)
(* descriptors, to its end, whoever has left meanwhile.                    *)
SlotsAreKept ==
  /\ Len(clients) = IF fds < ClientsAmount THEN fds ELSE ClientsAmount
  /\ fds = Cardinality({c \in Clients : conn[c] \in {"open", "reset"}})
  /\ \A i \in 1..Len(clients) :
       /\ conn[clients[i]] \in {"open", "reset"}
       /\ \A j \in 1..Len(clients) : clients[i] = clients[j] => i = j

(* Where the message of client c can be while c waits for the answer.      *)
Holders(c) ==
  {h \in {"socket", "poller", "answer"} \X {0} :
     \/ h[1] = "socket" /\ request[c] # None
     \/ h[1] = "poller" /\ taken # None /\ taken.client = c /\ taken.boot = boots
     \/ h[1] = "answer" /\ answer[c] # None}
  \cup {<<"queue", i>> : i \in {n \in 1..Len(queue) : queue[n].client = c
                                                      /\ queue[n].boot = boots}}
  \cup {<<"service", s>> : s \in {t \in Services : job[t] # None /\ job[t].client = c
                                                   /\ job[t].boot = boots}}

(* A message is neither lost nor doubled between the socket, the poller,   *)
(* the queue, the services and the socket back: while a client waits it is *)
(* in one place, and a client that does not wait has none under way.       *)
OnePlace ==
  up => \A c \in Clients :
    /\ cpc[c] = "await" => \E h \in Holders(c) : Holders(c) = {h}
    /\ cpc[c] \in {"start", "ready"} => Holders(c) = {}

(* In its last run the server ends for a reason only: a client was killed, *)
(* descriptors ran out, or a request of an earlier process was in the      *)
(* queue.  Users who just leave do not bring it down.                      *)
Leftover ==
  \/ \E i \in 1..Len(queue) : queue[i].boot # boots
  \/ \E s \in Services : job[s] # None /\ job[s].boot # boots
DownHasACause ==
  [][up /\ ~up' /\ boots = MaxBoots => kills > 0 \/ fds = FdLimit \/ Leftover]_vars

(* The server keeps the promise of the echo service to each of its clients. *)
Echo == INSTANCE EchoService WITH asked <- asked, answer <- answer
EchoRefinement == Echo!EchoSpec

(* Each client has one conversation of whole messages, as Framing shows it *)
(* for the calls of send and recv, although no thread of the server is its *)
(* own: the poller reads for all of them, a request travels through the    *)
(* queue, and any service replies.                                         *)
Over(c) == cpc[c] = "gone" /\ conn[c] = "none"
ClientIs(c) == IF cpc[c] = "start" THEN "ready" ELSE cpc[c]
Requests(c) ==
  {r \in {taken} \cup {queue[i] : i \in DOMAIN queue} \cup {job[s] : s \in Services} :
     r # None /\ r.client = c /\ r.boot = boots}
ThreadIs(c) == IF Over(c) THEN "done"
               ELSE IF Requests(c) # {} THEN "reply"
               ELSE IF ppc = "spin" /\ clients[idx] = c THEN "spin" ELSE "recv"
Held(c) == IF Over(c) \/ Requests(c) = {} THEN None
           ELSE (CHOOSE r \in Requests(c) : TRUE).message
End(c) == IF Over(c) THEN "none" ELSE IF conn[c] = "reset" THEN "reset" ELSE "open"

Conv(c) == INSTANCE Conversation WITH
  cpc <- ClientIs(c), tpc <- ThreadIs(c), text <- Held(c), conn <- End(c),
  request <- request[c], asked <- asked[c], answer <- answer[c]

ConversationRefinement ==
  /\ \A c \in Clients : Conv(c)!Init
  /\ [][\A c \in Clients : [Conv(c)!Next]_(Conv(c)!vars)]_vars

Registered(c) == \E i \in 1..Len(clients) : clients[i] = c

(* The request of a registered client is answered.                         *)
RequestServed ==
  \A c \in Clients : cpc[c] = "await" /\ Registered(c) ~> answer[c] # None

(* A connection is registered or dropped, however many clients talk.       *)
ConnectionAccepted == \A c \in Clients : conn[c] = "backlog" ~> conn[c] # "backlog"
-----------------------------------------------------------------------------
(* What the documentation says and the code does not do.                   *)

(* service.c, close_connection, "used to close connection when client      *)
(* called shutdown": a client that has left loses its slot.                *)
LeaversAreRemoved ==
  \A c \in Clients : Registered(c) /\ cpc[c] = "gone" ~> ~Registered(c)
=============================================================================
