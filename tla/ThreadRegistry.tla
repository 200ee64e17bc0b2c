--------------------------- MODULE ThreadRegistry ---------------------------
(***************************************************************************)
(* Task 1, the thread-per-client server (task1/server, task1/client).  The *)
(* main thread accepts connections and starts a thread for each; a client's*)
(* thread echoes its messages and, when the client has left, deletes it    *)
(* from the registry: an array of pointers and their number, which all     *)
(* threads read and write without a lock.                                  *)
(*                                                                         *)
(* A step is one access to what the threads share, in the order of the     *)
(* build of the Makefile (-g -O2): the test for a full registry and the id *)
(* come from one load of clients_amount; its increment loads it again      *)
(* after pthread_create; delete_client loads it before the search and      *)
(* again after free, moves the entries with one memmove, and stores the    *)
(* value loaded, minus one.  TCP is at the grain of whole messages, as in  *)
(* RequestQueue, and so is the end of the process on any error.            *)
(*                                                                         *)
(* A struct client is called by the client it was made for.  The model     *)
(* follows the program until malloc hands out a struct that a running      *)
(* thread or the array still points to (ListenerReuses): two clients share *)
(* it from then on.                                                        *)
(***************************************************************************)
EXTENDS Integers, Sequences, FiniteSets

CONSTANTS
  Clients,        \* runs of task1/client
  Messages,       \* lines a user types
  ClientsAmount,  \* CLIENTS_AMOUNT, the size of the array
  Backlog,        \* the argument of listen(), CLIENTS_AMOUNT in the code
  FdLimit,        \* descriptors left for accepted connections
  MaxKills,       \* bound: clients that are killed
  Half,           \* the length of a message whose text never follows
  Null,           \* a pointer that is NULL
  Foreign,        \* memory that is not the array's
  None            \* no message, no client

Prefixed(m) == <<"Server", m>>   \* edit_message

(* What indices reach: the array is 0 .. ClientsAmount - 1.  The two words *)
(* below it are its chunk's header.  As 5 pointers fill a chunk, the word  *)
(* ClientsAmount is the size of the next one, the endpoint that run_server *)
(* allocates for every connection, and the word behind it its contents.    *)
Words == -2 .. (ClientsAmount + 1)
InArray(i) == i \in 0 .. (ClientsAmount - 1)

ASSUME RegistryAssumption ==
  /\ ClientsAmount \in Nat \ {0} /\ Backlog \in Nat /\ FdLimit \in Nat /\ MaxKills \in Nat
  /\ None \notin Messages \cup Clients /\ Half \notin Messages \cup {None}
  /\ Null \notin Clients /\ Foreign \notin Clients \cup {Null}
  /\ \A m \in Messages : Prefixed(m) # None

VARIABLES
  proc,     \* the server process: "up", "down", or "shared", two clients in one struct
  lq,       \* accept queue of the listening socket
  lpc,      \* control of the main thread
  visitor,  \* the client add_client is about
  idx,      \* clients_amount as add_client loaded it last
  clients,  \* server->clients
  amount,   \* server->clients_amount
  mem,      \* mem[c]: the struct of c
  id,       \* id[c]: its field id
  tpc,      \* tpc[c]: control of the thread of c
  text,     \* text[c]: the message that thread has read and not answered
  seen,     \* seen[c]: clients_amount as that thread loaded it last
  pos,      \* pos[c]: the index i of its delete_client
  cpc,      \* cpc[c]: control of client c
  conn,     \* conn[c]: the server's end of c's connection
  request,  \* request[c]: bytes from c its thread has not read
  asked,    \* asked[c]: the message c waits on
  answer,   \* answer[c]: the reply on its way to c
  kills     \* clients killed so far

listenerVars == <<lq, lpc, visitor, idx>>
registryVars == <<clients, amount>>
structVars   == <<mem, id>>
deleteVars   == <<seen, pos>>
threadVars   == <<tpc, text, deleteVars>>
clientVars   == <<cpc, asked, kills>>
wireVars     == <<conn, request, answer>>
vars == <<proc, listenerVars, registryVars, structVars, threadVars, clientVars, wireVars>>

(* The heap is fresh: the array holds NULL, and memory around it does not. *)
EmptyArray == [i \in Words |-> IF InArray(i) THEN Null ELSE Foreign]

Init ==
  /\ proc = "up" /\ lq = <<>> /\ lpc = "accept" /\ visitor = None /\ idx = 0
  /\ clients = EmptyArray /\ amount = 0
  /\ mem = [c \in Clients |-> "none"] /\ id = [c \in Clients |-> 0]
  /\ tpc = [c \in Clients |-> "none"] /\ text = [c \in Clients |-> None]
  /\ seen = [c \in Clients |-> 0] /\ pos = [c \in Clients |-> 0]
  /\ cpc = [c \in Clients |-> "start"]
  /\ conn = [c \in Clients |-> "none"]
  /\ request = [c \in Clients |-> None]
  /\ asked = [c \in Clients |-> None] /\ answer = [c \in Clients |-> None]
  /\ kills = 0
-----------------------------------------------------------------------------
(* The end of the process, by a signal or by exit: whether free_server gets *)
(* through or faults on the entries it has moved itself, nothing is left.  *)
(* Clients with a connection find it ended and exit.                       *)
Down ==
  /\ proc' = "down" /\ lq' = <<>> /\ lpc' = "accept" /\ visitor' = None /\ idx' = 0
  /\ clients' = EmptyArray /\ amount' = 0
  /\ mem' = [c \in Clients |-> "none"] /\ id' = [c \in Clients |-> 0]
  /\ tpc' = [c \in Clients |-> "none"] /\ text' = [c \in Clients |-> None]
  /\ seen' = [c \in Clients |-> 0] /\ pos' = [c \in Clients |-> 0]
  /\ cpc' = [c \in Clients |-> IF cpc[c] = "start" THEN "start" ELSE "gone"]
  /\ conn' = [c \in Clients |-> "none"]
  /\ request' = [c \in Clients |-> None]
  /\ asked' = [c \in Clients |-> None] /\ answer' = [c \in Clients |-> None]
  /\ UNCHANGED kills

Open == {c \in Clients : conn[c] \in {"open", "reset"}}
Running(c) == tpc[c] \notin {"none", "done"}
-----------------------------------------------------------------------------
(* The main thread: run_server, add_client.                                *)

Welcomes ==
  /\ proc = "up" /\ lpc = "accept" /\ lq # <<>> /\ Cardinality(Open) < FdLimit

(* The registry is full: add_client returns, and the connection stays open *)
(* with nobody to read it.                                                 *)
ListenerTurnsAway ==
  /\ Welcomes /\ amount = ClientsAmount
  /\ lq' = Tail(lq) /\ lpc' = "release"
  /\ conn' = [conn EXCEPT ![Head(lq)] = "open"]
  /\ UNCHANGED <<proc, visitor, idx, registryVars, structVars, threadVars, clientVars,
                 request, answer>>

(* Mutant of Admits: the id is not set. *)
AdmitsUnnumbered ==
  /\ lq' = Tail(lq) /\ visitor' = Head(lq) /\ lpc' = "load"
  /\ conn' = [conn EXCEPT ![Head(lq)] = "open"]
  /\ mem' = [mem EXCEPT ![Head(lq)] = "live"]
  /\ tpc' = [tpc EXCEPT ![Head(lq)] = "recv"]
  /\ UNCHANGED <<proc, idx, registryVars, id, text, deleteVars, clientVars, request, answer>>

(* The struct gets its id and its thread; the thread may run at once.      *)
Admits ==
  /\ lq' = Tail(lq) /\ visitor' = Head(lq) /\ lpc' = "load"
  /\ conn' = [conn EXCEPT ![Head(lq)] = "open"]
  /\ mem' = [mem EXCEPT ![Head(lq)] = "live"]
  /\ id' = [id EXCEPT ![Head(lq)] = amount]
  /\ tpc' = [tpc EXCEPT ![Head(lq)] = "recv"]
  /\ UNCHANGED <<proc, idx, registryVars, text, deleteVars, clientVars, request, answer>>

(* Mutant of ListenerAdmits: the array is taken for one longer than it is. *)
ListenerAdmitsOneMore ==
  Welcomes /\ amount # ClientsAmount + 1 /\ Admits

ListenerAdmits ==
  Welcomes /\ amount # ClientsAmount /\ Admits

(* malloc hands out a freed struct that is still in use. *)
ListenerReuses ==
  /\ Welcomes /\ amount # ClientsAmount
  /\ \E c \in Clients : /\ mem[c] = "freed"
                        /\ Running(c) \/ \E i \in Words : clients[i] = c
  /\ proc' = "shared"
  /\ UNCHANGED <<listenerVars, registryVars, structVars, threadVars, clientVars, wireVars>>

(* accept fails with EMFILE: the kernel takes the descriptor before it     *)
(* looks for a connection, so nobody need be waiting for one.              *)
ListenerAcceptFails ==
  /\ proc = "up" /\ lpc = "accept" /\ Cardinality(Open) >= FdLimit
  /\ Down

ListenerLoads ==
  /\ proc = "up" /\ lpc = "load"
  /\ idx' = amount /\ lpc' = "store"
  /\ UNCHANGED <<proc, lq, visitor, registryVars, structVars, threadVars, clientVars, wireVars>>

(* Mutant of ListenerStores: the number grows and no entry is written. *)
ListenerStoresNothing ==
  /\ proc = "up" /\ lpc = "store"
  /\ lpc' = "count"
  /\ UNCHANGED <<proc, lq, visitor, idx, registryVars, structVars, threadVars, clientVars,
                 wireVars>>

ListenerStores ==
  /\ proc = "up" /\ lpc = "store" /\ idx \in Words
  /\ clients' = [clients EXCEPT ![idx] = visitor] /\ lpc' = "count"
  /\ UNCHANGED <<proc, lq, visitor, idx, amount, structVars, threadVars, clientVars, wireVars>>

(* Further down lies struct server: its socket is overwritten, and the     *)
(* next accept fails.                                                      *)
ListenerOverwrites == proc = "up" /\ lpc = "store" /\ idx \notin Words /\ Down

ListenerCounts ==
  /\ proc = "up" /\ lpc = "count"
  /\ amount' = idx + 1
  /\ lpc' = "release" /\ visitor' = None /\ idx' = 0
  /\ UNCHANGED <<proc, lq, clients, structVars, threadVars, clientVars, wireVars>>

(* run_server frees the endpoint it has made for the log. *)
ListenerReleases ==
  /\ proc = "up" /\ lpc = "release" /\ clients[ClientsAmount] # Null
  /\ lpc' = "accept"
  /\ UNCHANGED <<proc, lq, visitor, idx, registryVars, structVars, threadVars, clientVars,
                 wireVars>>

(* Its chunk has no size any more: free aborts the process. *)
ListenerAborts ==
  /\ proc = "up" /\ lpc = "release" /\ clients[ClientsAmount] = Null
  /\ Down
-----------------------------------------------------------------------------
(* A client's thread: handle_client_connection.                            *)

Serves(c) == proc = "up" /\ tpc[c] = "recv"

ThreadReceives(c) ==
  /\ Serves(c) /\ request[c] \in Messages
  /\ text' = [text EXCEPT ![c] = request[c]]
  /\ request' = [request EXCEPT ![c] = None]
  /\ tpc' = [tpc EXCEPT ![c] = "reply"]
  /\ UNCHANGED <<proc, listenerVars, registryVars, structVars, deleteVars, clientVars, conn,
                 answer>>

(* The text that was announced does not come: recv returns 0 for ever. *)
ThreadSpins(c) ==
  /\ Serves(c) /\ request[c] = Half
  /\ tpc' = [tpc EXCEPT ![c] = "spin"]
  /\ UNCHANGED <<proc, listenerVars, registryVars, structVars, text, deleteVars, clientVars,
                 wireVars>>

(* Mutants of ThreadReplies: the message answered is not forgotten, or is  *)
(* answered again.                                                         *)
ThreadRepliesKeeps(c) ==
  /\ proc = "up" /\ tpc[c] = "reply"
  /\ answer' = [answer EXCEPT ![c] = IF cpc[c] = "gone" THEN None ELSE Prefixed(text[c])]
  /\ tpc' = [tpc EXCEPT ![c] = "recv"]
  /\ UNCHANGED <<proc, listenerVars, registryVars, structVars, text, deleteVars, clientVars,
                 conn, request>>
ThreadRepliesAgain(c) ==
  /\ proc = "up" /\ tpc[c] = "reply"
  /\ answer' = [answer EXCEPT ![c] = IF cpc[c] = "gone" THEN None ELSE Prefixed(text[c])]
  /\ UNCHANGED <<proc, listenerVars, registryVars, structVars, threadVars, clientVars, conn,
                 request>>

(* A client that is gone gets nothing. *)
ThreadReplies(c) ==
  /\ proc = "up" /\ tpc[c] = "reply"
  /\ answer' = [answer EXCEPT ![c] = IF cpc[c] = "gone" THEN None ELSE Prefixed(text[c])]
  /\ text' = [text EXCEPT ![c] = None]
  /\ tpc' = [tpc EXCEPT ![c] = "recv"]
  /\ UNCHANGED <<proc, listenerVars, registryVars, structVars, deleteVars, clientVars, conn,
                 request>>

(* send raises SIGPIPE or fails with ECONNRESET. *)
ThreadReplyFails(c) == proc = "up" /\ tpc[c] = "reply" /\ cpc[c] = "gone" /\ Down

(* recv fails with ECONNRESET. *)
ThreadReadFails(c) == Serves(c) /\ conn[c] = "reset" /\ Down

(* Mutant of Ended: what the client sent last is not read first. *)
EndedUnread(c) == cpc[c] = "gone" /\ conn[c] = "open"

Ended(c) == request[c] = None /\ cpc[c] = "gone" /\ conn[c] = "open"

(* The log names the endpoint of a struct that another thread has freed.   *)
ThreadFaults(c) ==
  /\ Serves(c) /\ mem[c] = "freed"
  /\ request[c] \in Messages \/ Ended(c)
  /\ Down

(* Mutant of ThreadMeetsEnd: the end of a stream is ignored. *)
ThreadIgnoresEnd(c) ==
  /\ Serves(c) /\ Ended(c)
  /\ UNCHANGED vars

(* close_connection, and the loads delete_client begins with. *)
ThreadMeetsEnd(c) ==
  /\ Serves(c) /\ Ended(c)
  /\ conn' = [conn EXCEPT ![c] = "none"]
  /\ seen' = [seen EXCEPT ![c] = amount]
  /\ tpc' = [tpc EXCEPT ![c] = "find"]
  /\ UNCHANGED <<proc, listenerVars, registryVars, structVars, text, pos, clientVars, request,
                 answer>>
-----------------------------------------------------------------------------
(* A client's thread: delete_client.                                       *)

Looks(c) == proc = "up" /\ tpc[c] = "find" /\ pos[c] < seen[c]

(* One turn of the search. *)
DeletePasses(c) ==
  /\ Looks(c) /\ clients[pos[c]] \in Clients /\ id[clients[pos[c]]] # id[c]
  /\ pos' = [pos EXCEPT ![c] = @ + 1]
  /\ UNCHANGED <<proc, listenerVars, registryVars, structVars, tpc, text, seen, clientVars,
                 wireVars>>

(* The entry that has the id is freed, and clients_amount loaded again.    *)
DeleteFrees(c) ==
  LET e == clients[pos[c]] IN
  /\ Looks(c) /\ e \in Clients /\ id[e] = id[c] /\ mem[e] = "live"
  /\ mem' = [mem EXCEPT ![e] = "freed"]
  /\ seen' = [seen EXCEPT ![c] = amount]
  /\ tpc' = [tpc EXCEPT ![c] = "move"]
  /\ UNCHANGED <<proc, listenerVars, registryVars, id, text, pos, clientVars, wireVars>>

(* It has been freed before: free aborts, or its memory is free twice.     *)
DeleteFreesTwice(c) ==
  LET e == clients[pos[c]] IN
  /\ Looks(c) /\ e \in Clients /\ id[e] = id[c] /\ mem[e] = "freed"
  /\ \/ Down
     \/ /\ proc' = "shared"
        /\ UNCHANGED <<listenerVars, registryVars, structVars, threadVars, clientVars,
                       wireVars>>

(* There is no struct at the entry. *)
DeleteFaults(c) == Looks(c) /\ clients[pos[c]] \notin Clients /\ Down

(* No entry has the id. *)
DeleteMisses(c) ==
  /\ proc = "up" /\ tpc[c] = "find" /\ pos[c] >= seen[c]
  /\ tpc' = [tpc EXCEPT ![c] = "move"]
  /\ UNCHANGED <<proc, listenerVars, registryVars, structVars, text, deleteVars, clientVars,
                 wireVars>>

(* The entries behind i move down, and the one after the next becomes NULL. *)
DeleteMoves(c) ==
  LET last == IF pos[c] < seen[c] THEN seen[c] ELSE pos[c] IN
  /\ proc = "up" /\ tpc[c] = "move"
  /\ clients' = [i \in Words |-> IF i \in pos[c] .. (last - 1) THEN clients[i + 1]
                                 ELSE IF i = last + 1 THEN Null
                                 ELSE clients[i]]
  /\ tpc' = [tpc EXCEPT ![c] = "count"]
  /\ UNCHANGED <<proc, listenerVars, amount, structVars, text, deleteVars, clientVars,
                 wireVars>>

DeleteCounts(c) ==
  /\ proc = "up" /\ tpc[c] = "count"
  /\ amount' = seen[c] - 1
  /\ tpc' = [tpc EXCEPT ![c] = "done"]
  /\ seen' = [seen EXCEPT ![c] = 0] /\ pos' = [pos EXCEPT ![c] = 0]
  /\ UNCHANGED <<proc, listenerVars, clients, structVars, text, clientVars, wireVars>>
-----------------------------------------------------------------------------
(* The client program.                                                     *)

ClientConnects(c) ==
  /\ cpc[c] = "start" /\ proc = "up" /\ Len(lq) <= Backlog
  /\ lq' = Append(lq, c)
  /\ conn' = [conn EXCEPT ![c] = "backlog"]
  /\ cpc' = [cpc EXCEPT ![c] = "ready"]
  /\ UNCHANGED <<proc, lpc, visitor, idx, registryVars, structVars, threadVars, asked, kills,
                 request, answer>>

ClientRefused(c) ==
  /\ cpc[c] = "start" /\ proc = "down"
  /\ cpc' = [cpc EXCEPT ![c] = "gone"]
  /\ UNCHANGED <<proc, listenerVars, registryVars, structVars, threadVars, asked, kills,
                 wireVars>>

ClientAsks(c) ==
  /\ cpc[c] = "ready"
  /\ \E m \in Messages : /\ asked' = [asked EXCEPT ![c] = m]
                         /\ request' = [request EXCEPT ![c] = m]
  /\ cpc' = [cpc EXCEPT ![c] = "await"]
  /\ UNCHANGED <<proc, listenerVars, registryVars, structVars, threadVars, kills, conn, answer>>

ClientTakes(c) ==
  /\ cpc[c] = "await" /\ answer[c] # None
  /\ asked' = [asked EXCEPT ![c] = None] /\ answer' = [answer EXCEPT ![c] = None]
  /\ cpc' = [cpc EXCEPT ![c] = "ready"]
  /\ UNCHANGED <<proc, listenerVars, registryVars, structVars, threadVars, kills, conn,
                 request>>

(* fgets meets the end of input: print_error exits between two requests. *)
ClientQuits(c) ==
  /\ cpc[c] = "ready"
  /\ cpc' = [cpc EXCEPT ![c] = "gone"]
  /\ UNCHANGED <<proc, listenerVars, registryVars, structVars, threadVars, asked, kills,
                 wireVars>>

(* The client is killed: its kernel sends an RST instead of a FIN when a   *)
(* reply, or the length of one that is being sent, lies unread.            *)
ClientKilled(c) ==
  /\ cpc[c] \in {"ready", "await"} /\ kills < MaxKills
  /\ kills' = kills + 1
  /\ cpc' = [cpc EXCEPT ![c] = "gone"]
  /\ asked' = [asked EXCEPT ![c] = None] /\ answer' = [answer EXCEPT ![c] = None]
  /\ \/ answer[c] = None /\ UNCHANGED conn
     \/ (answer[c] # None \/ tpc[c] = "reply") /\ conn' = [conn EXCEPT ![c] = "reset"]
  /\ UNCHANGED <<proc, listenerVars, registryVars, structVars, threadVars, request>>

(* The client is killed between the two sends of its message. *)
ClientCutOff(c) ==
  /\ cpc[c] = "ready" /\ kills < MaxKills
  /\ kills' = kills + 1
  /\ cpc' = [cpc EXCEPT ![c] = "gone"]
  /\ request' = [request EXCEPT ![c] = Half]
  /\ UNCHANGED <<proc, listenerVars, registryVars, structVars, threadVars, asked, conn, answer>>
-----------------------------------------------------------------------------
Listener ==
  \/ ListenerTurnsAway \/ ListenerAdmits \/ ListenerReuses \/ ListenerAcceptFails
  \/ ListenerLoads \/ ListenerStores \/ ListenerOverwrites \/ ListenerCounts
  \/ ListenerReleases \/ ListenerAborts
Thread(c) ==
  \/ ThreadReceives(c) \/ ThreadSpins(c) \/ ThreadReplies(c) \/ ThreadReplyFails(c)
  \/ ThreadReadFails(c) \/ ThreadFaults(c) \/ ThreadMeetsEnd(c)
  \/ DeletePasses(c) \/ DeleteFrees(c) \/ DeleteFreesTwice(c) \/ DeleteFaults(c)
  \/ DeleteMisses(c) \/ DeleteMoves(c) \/ DeleteCounts(c)
Client(c) == ClientRefused(c) \/ ClientTakes(c)
User(c) ==
  \/ ClientConnects(c) \/ ClientAsks(c) \/ ClientQuits(c)
  \/ ClientKilled(c) \/ ClientCutOff(c)

Next ==
  \/ Listener
  \/ \E c \in Clients : Thread(c) \/ Client(c) \/ User(c)

Spec == Init /\ [][Next]_vars

(* The threads and the client programs are scheduled; users are free. *)
Fairness ==
  /\ WF_vars(Listener)
  /\ \A c \in Clients : WF_vars(Thread(c)) /\ WF_vars(Client(c))

FairSpec == Spec /\ Fairness
-----------------------------------------------------------------------------
(* Properties.                                                             *)

TypeOK ==
  /\ proc \in {"up", "down", "shared"}
  /\ lq \in Seq(Clients)
  /\ lpc \in {"accept", "load", "store", "count", "release"}
  /\ visitor \in Clients \cup {None} /\ (visitor # None <=> lpc \in {"load", "store", "count"})
  /\ idx \in Int /\ amount \in Int
  /\ clients \in [Words -> Clients \cup {Null, Foreign}]
  /\ mem \in [Clients -> {"none", "live", "freed"}] /\ id \in [Clients -> Int]
  /\ tpc \in [Clients -> {"none", "recv", "reply", "spin", "find", "move", "count", "done"}]
  /\ text \in [Clients -> Messages \cup {None}]
  /\ \A c \in Clients : tpc[c] = "reply" <=> text[c] # None
  /\ seen \in [Clients -> Int] /\ pos \in [Clients -> Nat]
  /\ cpc \in [Clients -> {"start", "ready", "await", "gone"}]
  /\ conn \in [Clients -> {"none", "backlog", "open", "reset"}]
  /\ request \in [Clients -> Messages \cup {Half, None}]
  /\ asked \in [Clients -> Messages \cup {None}]
  /\ answer \in [Clients -> {Prefixed(m) : m \in Messages} \cup {None}]
  /\ kills \in 0..MaxKills

(* Whatever updates of clients_amount get lost between the threads, the    *)
(* main thread never stores a client behind the end of the array.          *)
StoresStayBelow ==
  /\ amount <= ClientsAmount
  /\ lpc \in {"store", "count"} => idx < ClientsAmount

Leaving(c) == tpc[c] \in {"find", "move", "count", "done"}

(* The first client to leave is the one that is deleted, however its       *)
(* search is interleaved with the registration of others.                  *)
FirstLeaverIsDeleted ==
  [][\A c \in Clients :
       tpc[c] = "find" /\ tpc'[c] = "move" /\ (\A d \in Clients \ {c} : ~Leaving(d))
         => \A d \in Clients \ {c} : mem'[d] = mem[d]]_vars

(* A lone leaver does not bring the server down, however its deletion is   *)
(* interleaved with registrations.  The exceptions: some client was killed *)
(* before, descriptors have run out, the deletion in an array that is all  *)
(* but full has spoilt the chunk behind it, or two clients have ever left, *)
(* at once or one after the other, whose deletions may fault.              *)
DownHasACause ==
  [][proc = "up" /\ proc' = "down"
       => \/ kills > 0 \/ Cardinality(Open) >= FdLimit \/ clients[ClientsAmount] = Null
          \/ \E c, d \in Clients : c # d /\ Leaving(c) /\ Leaving(d)]_vars

(* The server keeps the promise of the echo service to each of its clients *)
(* as long as no two of them share a struct.                               *)
Echo == INSTANCE EchoService WITH asked <- asked, answer <- answer
EchoRefinement == Echo!EchoSpec

(* A client and what serves it have one conversation of whole messages, as *)
(* Framing shows it for the calls of send and recv: whatever the others do *)
(* meanwhile, nothing happens to it that TCP or the two programs do not do.*)
(* A conversation that is over leaves nothing behind.                      *)
Over(c) == cpc[c] = "gone" /\ conn[c] = "none"
ClientIs(c) == IF cpc[c] = "start" THEN "ready" ELSE cpc[c]
ThreadIs(c) == IF Over(c) THEN "done"
               ELSE IF tpc[c] \in {"reply", "spin"} THEN tpc[c] ELSE "recv"
Held(c) == text[c]
End(c) == IF Over(c) THEN "none" ELSE IF conn[c] = "reset" THEN "reset" ELSE "open"

Conv(c) == INSTANCE Conversation WITH
  cpc <- ClientIs(c), tpc <- ThreadIs(c), text <- Held(c), conn <- End(c),
  request <- request[c], asked <- asked[c], answer <- answer[c]

ConversationRefinement ==
  /\ \A c \in Clients : Conv(c)!Init
  /\ [][\A c \in Clients : [Conv(c)!Next]_(Conv(c)!vars)]_vars

(* A client that has a thread is answered, and when it has left its thread *)
(* deletes it and ends, whatever the others do to the registry or to their *)
(* own threads.                                                            *)
ClientServed ==
  \A c \in Clients :
    Running(c) /\ (cpc[c] = "await" \/ (cpc[c] = "gone" /\ request[c] # Half))
      ~> answer[c] # None \/ tpc[c] = "done" \/ proc # "up"
-----------------------------------------------------------------------------
(* What the documentation says and the code does not do.                   *)

(* client.h, "clients id (required for proper delete operations)": a       *)
(* thread deletes its own client.                                          *)
DeletesItself ==
  [][\A c, d \in Clients :
       tpc[c] = "find" /\ tpc'[c] = "move" /\ mem[d] = "live" /\ mem'[d] = "freed"
         => c = d]_vars
=============================================================================
