------------------------- MODULE RequestQueueProofs -------------------------
(***************************************************************************)
(* Theorems about RequestQueue, for every number of clients, services,     *)
(* slots, requests in the queue, kills and restarts.                       *)
(*                                                                         *)
(* QueueInv is the inductive invariant.  UnderWay says in which single     *)
(* place the message of a client is, Said that it is the message asked,    *)
(* Connected that only the connections of this process are talked about,   *)
(* Dated which process a request comes from, and Waiting and Stopped what  *)
(* there is before a connection is accepted and after the process ended.   *)
(* Closed, an invariant next to it, says what a closed connection leaves.  *)
(***************************************************************************)
EXTENDS RequestQueue, SequenceTheorems, FiniteSetTheorems, TLAPS

(* Messages, requests and replies are told from the value for none. *)
LEMMA NothingElse ==
  /\ ClientsAmount \in Nat \ {0} /\ FdLimit \in Nat /\ MaxKills \in Nat
  /\ MaxBoots \in Nat \ {0}
  /\ None \notin Messages /\ None \notin Request /\ Half \notin Messages /\ Half # None
  /\ \A m \in Messages : Prefixed(m) # None
  BY RequestAssumption

(* The places a message of client c may be in. *)
Mine(r, c) == r # None /\ r.client = c /\ r.boot = boots
InSocket(c) == request[c] # None
InPoller(c) == Mine(taken, c)
InQueue(c, i) == Mine(queue[i], c)
InService(c, s) == Mine(job[s], c)
Answered(c) == answer[c] # None

Nowhere(c) ==
  /\ ~InSocket(c) /\ ~InPoller(c) /\ ~Answered(c)
  /\ \A i \in 1..Len(queue) : ~InQueue(c, i)
  /\ \A s \in Services : ~InService(c, s)

(* No two of them at once. *)
Apart(c) ==
  /\ InSocket(c) => ~InPoller(c) /\ ~Answered(c)
  /\ InPoller(c) => ~Answered(c)
  /\ \A i \in 1..Len(queue) :
       InQueue(c, i) => /\ ~InSocket(c) /\ ~InPoller(c) /\ ~Answered(c)
                        /\ \A j \in 1..Len(queue) : InQueue(c, j) => i = j
  /\ \A s \in Services :
       InService(c, s) => /\ ~InSocket(c) /\ ~InPoller(c) /\ ~Answered(c)
                          /\ \A i \in 1..Len(queue) : ~InQueue(c, i)
                          /\ \A t \in Services : InService(c, t) => s = t

(* No message is under way twice.  A client that waits has one, a client   *)
(* that types has none, and one that has left has some only if clients are *)
(* killed.                                                                 *)
Placed(c) ==
  /\ Apart(c)
  /\ cpc[c] = "await" => ~Nowhere(c)
  /\ cpc[c] \in {"start", "ready"} => Nowhere(c)
  /\ kills = 0 /\ cpc[c] = "gone" => Nowhere(c)

UnderWay == up => \A c \in Clients : Placed(c)

(* What is under way is what the client has asked. *)
Said ==
  \A c \in Clients :
    /\ cpc[c] = "await" <=> asked[c] # None
    /\ cpc[c] = "await" =>
         /\ InSocket(c) => request[c] = asked[c]
         /\ InPoller(c) => taken.message = asked[c]
         /\ \A i \in 1..Len(queue) : InQueue(c, i) => queue[i].message = asked[c]
         /\ \A s \in Services : InService(c, s) => job[s].message = asked[c]

(* The server is in the middle of a request of client c. *)
InServer(c) ==
  \/ InPoller(c)
  \/ \E i \in 1..Len(queue) : InQueue(c, i)
  \/ \E s \in Services : InService(c, s)

(* Requests of this process are about its own connections. *)
Connected ==
  /\ up => \A c \in Clients : InServer(c) => conn[c] \in {"open", "reset"}
  /\ \A c \in Clients :
       /\ Answered(c) => cpc[c] = "await" /\ conn[c] = "open"
       /\ conn[c] = "reset" => cpc[c] = "gone" /\ kills > 0
       /\ cpc[c] = "start" => conn[c] = "none"

(* A request is of this process or of an earlier one. *)
Dated ==
  /\ taken # None => taken.boot = boots
  /\ \A i \in 1..Len(queue) : queue[i].boot <= boots
  /\ \A s \in Services : job[s] # None => job[s].boot <= boots

(* A connection that waits for accept is known to nobody. *)
Waiting ==
  \A i \in 1..Len(lq) :
    conn[lq[i]] = "backlog" /\ \A j \in 1..Len(lq) : lq[i] = lq[j] => i = j

(* Of a process that has ended only the queue is left. *)
Stopped ==
  ~up => /\ taken = None /\ \A s \in Services : job[s] = None
         /\ \A c \in Clients : cpc[c] \in {"start", "gone"} /\ ~InSocket(c) /\ ~Answered(c)

(* check_user_messages runs only after accept has failed with EAGAIN. *)
Silent == ppc # "accept" => errno = "EAGAIN"

OpenSockets == {c \in Clients : conn[c] \in {"open", "reset"}}

QueueInv ==
  /\ TypeOK /\ SlotsAreKept /\ IsFiniteSet(OpenSockets)
  /\ UnderWay /\ Said /\ Connected /\ Dated /\ Waiting /\ Stopped /\ Silent

USE DEF vars, processVars, pollerVars, serviceVars, clientVars, wireVars
-----------------------------------------------------------------------------
(* Steps.                                                                  *)

(* A step is the end of the process or one of these actions. *)
LEMMA StepCases ==
  ASSUME [Next]_vars
  PROVE  \/ PollerAccept \/ PollerLooks \/ PollerReturns \/ PollerReads \/ PollerSkips
         \/ PollerMeetsEnd \/ PollerSends \/ PollerSpins \/ Restart \/ UNCHANGED vars
         \/ \E q \in {queue, <<>>} : up /\ Down(q)
         \/ \E s \in Services : ServiceReceives(s) \/ ServiceReplies(s)
         \/ \E c \in Clients :
              \/ ClientConnects(c) \/ ClientRefused(c) \/ ClientAsks(c) \/ ClientTakes(c)
              \/ ClientQuits(c) \/ ClientKilled(c) \/ ClientCutOff(c)
  BY DEF Next, Poller, Service, Client, User, ServerKilled, PollerAcceptFails,
     PollerReadFails, ServiceReplyFails, ServiceFaults, Crash, Exit

(* A client that is killed resets its connection only if it was open.      *)
LEMMA KilledConnection ==
  ASSUME QueueInv, NEW c \in Clients, ClientKilled(c)
  PROVE  \/ UNCHANGED conn
         \/ conn[c] \in {"open", "reset"} /\ conn' = [conn EXCEPT ![c] = "reset"]
<1> TypeOK /\ Connected /\ Stopped BY DEF QueueInv
<1>1. answer[c] # None => conn[c] = "open" BY DEF Connected, Answered
<1>2. ASSUME Replying(c) PROVE conn[c] \in {"open", "reset"}
  <2>1. PICK s \in Services : spc[s] = "reply" /\ job[s].client = c /\ job[s].boot = boots
    BY <1>2 DEF Replying
  <2>2. up BY DEF ClientKilled, Stopped
  <2>3. InService(c, s) BY <2>1 DEF InService, Mine, TypeOK
  <2> QED BY <2>2, <2>3 DEF Connected, InServer
<1> QED BY <1>1, <1>2 DEF ClientKilled

(* The end of the process, with or without the removal of the queue,       *)
(* establishes every part of the invariant.                                *)
LEMMA DownStep ==
  ASSUME QueueInv, NEW q \in {queue, <<>>}, Down(q)
  PROVE  QueueInv'
<1> TypeOK /\ Dated /\ Connected BY DEF QueueInv
<1> USE NothingElse DEF Down
<1>1. \A c \in Clients : cpc'[c] \in {"start", "gone"} /\ (cpc'[c] = "start" => cpc[c] = "start")
  OBVIOUS
<1>2. queue' \in Seq(Request) /\ \A i \in 1..Len(queue') : queue'[i].boot <= boots
  <2>1. CASE q = queue BY <2>1 DEF TypeOK, Dated
  <2>2. CASE q = <<>> BY <2>2
  <2> QED BY <2>1, <2>2
<1>3. TypeOK'
  <2>1. cpc' \in [Clients -> {"start", "ready", "await", "gone"}]
    OBVIOUS
  <2>2. clients' \in Seq(Clients) /\ Len(clients') = 0 /\ lq' \in Seq(Clients)
    OBVIOUS
  <2>3. /\ spc' \in [Services -> {"receive", "reply"}] /\ job' \in [Services -> Request \cup {None}]
        /\ \A s \in Services : spc'[s] # "reply" /\ job'[s] = None
    OBVIOUS
  <2>4. /\ conn' \in [Clients -> {"none", "backlog", "open", "reset"}]
        /\ request' \in [Clients -> Messages \cup {Half, None}]
        /\ asked' \in [Clients -> Messages \cup {None}]
        /\ answer' \in [Clients -> {Prefixed(m) : m \in Messages} \cup {None}]
    OBVIOUS
  <2>5. /\ up' = FALSE /\ errno' = "none" /\ ppc' = "accept" /\ idx' = 1 /\ taken' = None
        /\ fds' = 0 /\ UNCHANGED <<boots, kills>>
    OBVIOUS
  <2> HIDE DEF Down
  <2>6. boots' \in 1..MaxBoots /\ kills' \in 0..MaxKills
    BY <2>5 DEF TypeOK
  <2>7. Len(clients') <= ClientsAmount BY <2>2
  <2>8. up' \in BOOLEAN BY <2>5
  <2> QED BY <1>2, <2>1, <2>2, <2>3, <2>4, <2>5, <2>6, <2>7, <2>8 DEF TypeOK
<1>4. SlotsAreKept' /\ IsFiniteSet(OpenSockets)'
  <2>1. OpenSockets' = {} BY DEF OpenSockets
  <2>2. fds' = Cardinality(OpenSockets') /\ IsFiniteSet(OpenSockets') BY <2>1, FS_EmptySet
  <2> QED BY <2>2 DEF SlotsAreKept, OpenSockets
<1>5. UnderWay' BY DEF UnderWay
<1>6. Said' BY <1>1 DEF Said
<1>7. Connected' BY DEF Connected, Answered
<1>8. Dated' BY <1>2 DEF Dated
<1>9. Waiting' /\ Silent' BY DEF Waiting, Silent
<1>10. Stopped' BY <1>1 DEF Stopped, InSocket, Answered
<1> QED BY <1>3, <1>4, <1>5, <1>6, <1>7, <1>8, <1>9, <1>10 DEF QueueInv

(* The head and the tail of a sequence that is not empty. *)
LEMMA HeadTail ==
  ASSUME NEW S, NEW q \in Seq(S), q # <<>>
  PROVE  /\ Head(q) \in S /\ Head(q) = q[1] /\ 1 \in 1..Len(q)
         /\ Tail(q) \in Seq(S) /\ Len(Tail(q)) = Len(q) - 1
         /\ \A i \in 1..Len(Tail(q)) : i + 1 \in 1..Len(q) /\ i + 1 # 1 /\ Tail(q)[i] = q[i + 1]
  OBVIOUS

(* What Append puts where. *)
LEMMA AtEnd ==
  ASSUME NEW S, NEW q \in Seq(S), NEW e \in S
  PROVE  /\ Append(q, e) \in Seq(S) /\ Len(Append(q, e)) = Len(q) + 1
         /\ Append(q, e)[Len(q) + 1] = e
         /\ \A i \in 1..Len(q) : Append(q, e)[i] = q[i]
         /\ \A i \in 1..Len(Append(q, e)) : i \in 1..Len(q) \/ i = Len(q) + 1
         /\ Len(q) + 1 \in 1..Len(Append(q, e)) /\ Len(q) + 1 \notin 1..Len(q)
         /\ \A i \in 1..Len(q) : i \in 1..Len(Append(q, e))
  OBVIOUS

(* A registry entry is a client of the repository's client program. *)
LEMMA Entry ==
  ASSUME TypeOK, idx <= Len(clients)
  PROVE  clients[idx] \in Clients /\ idx \in 1..Len(clients)
  BY DEF TypeOK

(* Every step of poller, services, clients and operator keeps the types. *)
LEMMA TypeStep ==
  ASSUME QueueInv, [Next]_vars
  PROVE  TypeOK'
<1> USE NothingElse
<1> TypeOK BY DEF QueueInv
<1>1. CASE PollerAccept
  <2>1. lq # <<>> /\ lq \in Seq(Clients) BY <1>1 DEF PollerAccept, TypeOK
  <2>2. Head(lq) \in Clients /\ Tail(lq) \in Seq(Clients) BY <2>1, HeadTail
  <2>3. clients' \in Seq(Clients) /\ Len(clients') <= ClientsAmount /\ Len(clients) <= Len(clients')
    <3>1. clients \in Seq(Clients) /\ Len(clients) \in Nat /\ Len(clients) <= ClientsAmount
      BY DEF TypeOK
    <3>2. CASE Len(clients) = ClientsAmount BY <1>1, <3>1, <3>2 DEF PollerAccept
    <3>3. CASE Len(clients) # ClientsAmount
      <4>1. clients' = Append(clients, Head(lq)) BY <1>1, <3>3 DEF PollerAccept
      <4> QED BY <2>2, <3>1, <3>3, <4>1, AtEnd
    <3> QED BY <3>2, <3>3
  <2> QED BY <1>1, <2>2, <2>3 DEF PollerAccept, TypeOK
<1>2. CASE PollerLooks \/ PollerReturns BY <1>2 DEF PollerLooks, PollerReturns, TypeOK
<1>3. CASE PollerReads
  <2>1. clients[idx] \in Clients BY <1>3, Entry DEF PollerReads
  <2>2. taken' \in Request BY <1>3, <2>1 DEF PollerReads, Request, TypeOK
  <2>3. taken' # None BY <2>2
  <2>4. request' \in [Clients -> Messages \cup {Half, None}] BY <1>3 DEF PollerReads, TypeOK
  <2>5. idx' <= Len(clients') /\ ppc' = "send" BY <1>3 DEF PollerReads
  <2>6. /\ UNCHANGED <<processVars, lq, clients, errno, idx, queue, serviceVars, fds>>
        /\ UNCHANGED <<clientVars, conn, answer>>
    BY <1>3 DEF PollerReads
  <2> QED BY <2>2, <2>3, <2>4, <2>5, <2>6 DEF TypeOK
<1>4. CASE PollerSkips \/ PollerSpins
  <2>1. CASE PollerSkips BY <2>1 DEF PollerSkips, TypeOK
  <2>2. CASE PollerSpins BY <2>2 DEF PollerSpins, TypeOK
  <2> QED BY <1>4, <2>1, <2>2
<1>5. CASE PollerMeetsEnd
  <2>1. errno = "EAGAIN" BY <1>5 DEF PollerMeetsEnd, QueueInv, Silent
  <2> QED BY <1>5, <2>1 DEF PollerMeetsEnd, TypeOK
<1>6. CASE PollerSends
  <2>1. taken \in Request /\ queue \in Seq(Request) BY <1>6 DEF PollerSends, TypeOK
  <2>2. queue' \in Seq(Request) BY <1>6, <2>1 DEF PollerSends
  <2> QED BY <1>6, <2>2 DEF PollerSends, TypeOK
<1>7. CASE Restart BY <1>7 DEF Restart, TypeOK
<1>8. ASSUME NEW q \in {queue, <<>>}, Down(q) PROVE TypeOK'
  BY <1>8, DownStep DEF QueueInv
<1>9. ASSUME NEW s \in Services, ServiceReceives(s) PROVE TypeOK'
  <2>1. queue # <<>> /\ queue \in Seq(Request) BY <1>9 DEF ServiceReceives, TypeOK
  <2>2. Head(queue) \in Request /\ Tail(queue) \in Seq(Request) BY <2>1, HeadTail
  <2> QED BY <1>9, <2>2 DEF ServiceReceives, TypeOK
<1>10. ASSUME NEW s \in Services, ServiceReplies(s) PROVE TypeOK'
  <2>1. job[s] \in Request BY <1>10 DEF ServiceReplies, TypeOK
  <2>2. job[s].client \in Clients /\ job[s].message \in Messages BY <2>1 DEF Request
  <2> QED BY <1>10, <2>2 DEF ServiceReplies, TypeOK
<1>11. ASSUME NEW c \in Clients,
              \/ ClientConnects(c) \/ ClientRefused(c) \/ ClientAsks(c) \/ ClientTakes(c)
              \/ ClientQuits(c) \/ ClientKilled(c) \/ ClientCutOff(c)
       PROVE  TypeOK'
  <2>1. CASE ClientConnects(c) BY <2>1 DEF ClientConnects, TypeOK
  <2>2. CASE ClientRefused(c) BY <2>2 DEF ClientRefused, TypeOK
  <2>3. CASE ClientAsks(c) BY <2>3 DEF ClientAsks, TypeOK
  <2>4. CASE ClientTakes(c) BY <2>4 DEF ClientTakes, TypeOK
  <2>5. CASE ClientQuits(c) BY <2>5 DEF ClientQuits, TypeOK
  <2>6. CASE ClientKilled(c)
    <3>1. CASE UNCHANGED conn BY <2>6, <3>1 DEF ClientKilled, TypeOK
    <3>2. CASE conn' = [conn EXCEPT ![c] = "reset"] BY <2>6, <3>2 DEF ClientKilled, TypeOK
    <3> QED BY <2>6, <3>1, <3>2 DEF ClientKilled
  <2>7. CASE ClientCutOff(c) BY <2>7 DEF ClientCutOff, TypeOK
  <2> QED BY <1>11, <2>1, <2>2, <2>3, <2>4, <2>5, <2>6, <2>7
<1>12. CASE UNCHANGED vars BY <1>12 DEF TypeOK
<1> QED
  BY <1>1, <1>2, <1>3, <1>4, <1>5, <1>6, <1>7, <1>8, <1>9, <1>10, <1>11, <1>12, StepCases
-----------------------------------------------------------------------------
(* How a message moves: from the socket to the poller, into the queue, to  *)
(* a service, and back.                                                    *)

(* check_user_messages takes a message out of its socket. *)
LEMMA MoveReads ==
  ASSUME QueueInv, PollerReads, NEW c, c = clients[idx]
  PROVE  /\ c \in Clients /\ InSocket(c) /\ ~InSocket(c)' /\ InPoller(c)'
         /\ taken'.message = request[c]
         /\ \A d \in Clients : ~InPoller(d) /\ (d # c => ~InPoller(d)')
         /\ \A d \in Clients : d # c => request'[d] = request[d]
         /\ UNCHANGED <<up, boots, queue, job, answer, cpc, conn, asked, kills>>
<1> TypeOK BY DEF QueueInv
<1>1. c \in Clients BY Entry DEF PollerReads
<1>2. taken = None BY DEF PollerReads, TypeOK
<1>3. taken' = [client |-> c, message |-> request[c], boot |-> boots] /\ request[c] \in Messages
  BY DEF PollerReads
<1>4. taken' # None
  <2>1. taken' \in Request BY <1>1, <1>3 DEF Request, TypeOK
  <2> QED BY <2>1, NothingElse
<1>5. taken'.client = c /\ taken'.message = request[c] /\ taken'.boot = boots BY <1>3
<1> QED BY <1>1, <1>2, <1>3, <1>4, <1>5, NothingElse
        DEF PollerReads, InSocket, InPoller, Mine, TypeOK

(* send_request puts it at the end of the queue. *)
LEMMA MoveSends ==
  ASSUME QueueInv, PollerSends, NEW c, c = taken.client, NEW n, n = Len(queue) + 1
  PROVE  /\ c \in Clients /\ InPoller(c) /\ InQueue(c, n)'
         /\ Len(queue') = n /\ Len(queue) \in Nat
         /\ queue'[n].message = taken.message
         /\ \A d \in Clients : ~InPoller(d)' /\ (d # c => ~InPoller(d) /\ ~InQueue(d, n)')
         /\ \A d \in Clients, i \in 1..Len(queue) : InQueue(d, i)' <=> InQueue(d, i)
         /\ \A i \in 1..Len(queue) : queue'[i] = queue[i]
         /\ UNCHANGED <<up, boots, request, job, answer, cpc, conn, asked, kills>>
<1> TypeOK /\ Dated BY DEF QueueInv
<1>1. taken \in Request /\ queue \in Seq(Request) /\ taken # None
  BY NothingElse DEF PollerSends, TypeOK
<1>2. taken.client \in Clients /\ taken.boot = boots BY <1>1 DEF Request, Dated
<1>3. queue' = Append(queue, taken) /\ taken' = None BY DEF PollerSends
<1>4. /\ Len(queue') = Len(queue) + 1 /\ Len(queue) \in Nat
      /\ queue'[n] = taken
      /\ \A i \in 1..Len(queue) : queue'[i] = queue[i]
  BY <1>1, <1>3, AtEnd
<1>5. UNCHANGED <<up, boots, request, job, answer, cpc, conn, asked, kills>>
  BY DEF PollerSends
<1>6. \A d \in Clients, i \in 1..Len(queue) : InQueue(d, i)' <=> InQueue(d, i)
  BY <1>4, <1>5 DEF InQueue, Mine
<1>7. \A d \in Clients : InQueue(d, n)' <=> d = c
  BY <1>1, <1>2, <1>4, <1>5 DEF InQueue, Mine
<1>8. \A d \in Clients : ~InPoller(d)' /\ (InPoller(d) <=> d = c)
  BY <1>1, <1>2, <1>3 DEF InPoller, Mine
<1> QED BY <1>2, <1>4, <1>5, <1>6, <1>7, <1>8

(* recv_request moves the head to a service; the others move up. *)
LEMMA MoveReceives ==
  ASSUME QueueInv, NEW s \in Services, ServiceReceives(s)
  PROVE  /\ 1 \in 1..Len(queue) /\ job[s] = None
         /\ Len(queue') = Len(queue) - 1 /\ Len(queue) \in Nat
         /\ job'[s] = queue[1]
         /\ \A d \in Clients : ~InService(d, s) /\ (InService(d, s)' <=> InQueue(d, 1))
         /\ \A d \in Clients, t \in Services : t # s => (InService(d, t)' <=> InService(d, t))
         /\ \A t \in Services : t # s => job'[t] = job[t]
         /\ \A i \in 1..Len(queue') : i + 1 \in 1..Len(queue) /\ queue'[i] = queue[i + 1]
         /\ \A d \in Clients, i \in 1..Len(queue') : InQueue(d, i)' <=> InQueue(d, i + 1)
         /\ UNCHANGED <<up, boots, request, taken, answer, cpc, conn, asked, kills>>
<1> TypeOK BY DEF QueueInv
<1>1. queue # <<>> /\ queue \in Seq(Request) /\ Len(queue) \in Nat
  BY DEF ServiceReceives, TypeOK
<1>2. queue' = Tail(queue) /\ job' = [job EXCEPT ![s] = Head(queue)] /\ job[s] = None
  BY DEF ServiceReceives, TypeOK
<1>3. /\ Head(queue) = queue[1] /\ 1 \in 1..Len(queue) /\ Len(queue') = Len(queue) - 1
      /\ \A i \in 1..Len(queue') : i + 1 \in 1..Len(queue) /\ queue'[i] = queue[i + 1]
  BY <1>1, <1>2, HeadTail
<1>4. job'[s] = queue[1] /\ \A t \in Services : t # s => job'[t] = job[t]
  BY <1>2, <1>3 DEF TypeOK
<1>5. UNCHANGED <<up, boots, request, taken, answer, cpc, conn, asked, kills>>
  BY DEF ServiceReceives
<1> QED BY <1>1, <1>2, <1>3, <1>4, <1>5 DEF InQueue, InService, Mine

(* send_message answers the client, or nobody when it is gone. *)
LEMMA MoveReplies ==
  ASSUME QueueInv, NEW s \in Services, ServiceReplies(s), NEW c, c = job[s].client
  PROVE  /\ c \in Clients /\ InService(c, s) /\ job[s].message \in Messages
         /\ answer'[c] = IF cpc[c] = "gone" THEN None ELSE Prefixed(job[s].message)
         /\ Answered(c)' <=> cpc[c] # "gone"
         /\ \A d \in Clients : ~InService(d, s)' /\ (d # c => ~InService(d, s) /\ answer'[d] = answer[d])
         /\ \A d \in Clients, t \in Services : t # s => (InService(d, t)' <=> InService(d, t))
         /\ \A t \in Services : t # s => job'[t] = job[t]
         /\ UNCHANGED <<up, boots, request, taken, queue, cpc, conn, asked, kills>>
<1> TypeOK BY DEF QueueInv
<1>1. job[s] \in Request /\ job[s] # None /\ job[s].boot = boots
  BY NothingElse DEF ServiceReplies, TypeOK
<1>2. job[s].client \in Clients /\ job[s].message \in Messages BY <1>1 DEF Request
<1>3. job'[s] = None /\ \A t \in Services : t # s => job'[t] = job[t]
  BY DEF ServiceReplies, TypeOK
<1>4. /\ answer'[c] = IF cpc[c] = "gone" THEN None ELSE Prefixed(job[s].message)
      /\ \A d \in Clients : d # c => answer'[d] = answer[d]
  BY <1>2 DEF ServiceReplies, TypeOK
<1>5. UNCHANGED <<up, boots, request, taken, queue, cpc, conn, asked, kills>>
  BY DEF ServiceReplies
<1> QED BY <1>1, <1>2, <1>3, <1>4, <1>5, NothingElse DEF InService, Answered, Mine
-----------------------------------------------------------------------------
(* The parts of the invariant.                                             *)

(* errno is EAGAIN whenever check_user_messages tests it. *)
LEMMA SilentStep ==
  ASSUME QueueInv, [Next]_vars
  PROVE  Silent'
<1> Silent BY DEF QueueInv
<1> USE DEF Silent
<1>1. ASSUME NEW q \in {queue, <<>>}, Down(q) PROVE Silent'
  BY <1>1, DownStep DEF QueueInv
<1> QED
  BY <1>1, StepCases
     DEF PollerAccept, PollerLooks, PollerReturns, PollerReads, PollerSkips, PollerMeetsEnd,
         PollerSends, PollerSpins, Restart, ServiceReceives, ServiceReplies, ClientConnects,
         ClientRefused, ClientAsks, ClientTakes, ClientQuits, ClientKilled, ClientCutOff

(* So the end of a stream changes nothing but the index. *)
LEMMA EndIsSilence ==
  ASSUME QueueInv, PollerMeetsEnd
  PROVE  UNCHANGED <<processVars, lq, clients, errno, ppc, taken, queue, serviceVars, fds,
                     clientVars, wireVars>>
  BY DEF PollerMeetsEnd, QueueInv, Silent

(* A request carries the number of the process that read it. *)
LEMMA DatedStep ==
  ASSUME QueueInv, [Next]_vars
  PROVE  Dated'
<1> TypeOK /\ Dated /\ Stopped BY DEF QueueInv
<1> USE DEF Dated
<1>1. CASE PollerReads
  <2>1. taken'.boot = boots /\ UNCHANGED <<boots, queue, job>> BY <1>1 DEF PollerReads
  <2> QED BY <2>1
<1>2. CASE PollerSends
  <2>1. /\ UNCHANGED <<boots, job>> /\ Len(queue') = Len(queue) + 1 /\ Len(queue) \in Nat
        /\ \A i \in 1..Len(queue) : queue'[i] = queue[i]
    BY <1>2, MoveSends
  <2>2. taken # None /\ queue'[Len(queue) + 1] = taken /\ taken' = None
    <3>1. taken \in Request /\ queue \in Seq(Request) /\ taken # None
      BY <1>2, NothingElse DEF PollerSends, TypeOK
    <3> QED BY <1>2, <3>1, AtEnd DEF PollerSends
  <2>3. \A i \in 1..Len(queue') : i \in 1..Len(queue) \/ i = Len(queue) + 1
    BY <2>1
  <2>4. taken.boot <= boots BY <2>2 DEF TypeOK
  <2>5. \A i \in 1..Len(queue') : queue'[i].boot <= boots
    BY <2>1, <2>2, <2>3, <2>4
  <2> QED BY <2>1, <2>2, <2>5
<1>3. ASSUME NEW s \in Services, ServiceReceives(s) PROVE Dated'
  <2>1. /\ 1 \in 1..Len(queue) /\ job'[s] = queue[1] /\ UNCHANGED <<taken, boots>>
        /\ \A t \in Services : t # s => job'[t] = job[t]
        /\ \A i \in 1..Len(queue') : i + 1 \in 1..Len(queue) /\ queue'[i] = queue[i + 1]
    BY <1>3, MoveReceives
  <2>2. \A t \in Services : job'[t] # None => job'[t].boot <= boots'
    BY <2>1
  <2>3. \A i \in 1..Len(queue') : queue'[i].boot <= boots'
    BY <2>1
  <2> QED BY <2>1, <2>2, <2>3
<1>4. ASSUME NEW s \in Services, ServiceReplies(s) PROVE Dated'
  BY <1>4 DEF ServiceReplies, TypeOK
<1>5. CASE Restart
  <2>1. /\ boots' = boots + 1 /\ boots \in Nat /\ taken' = None /\ UNCHANGED <<queue, job>>
        /\ \A i \in 1..Len(queue) : queue[i] \in Request
        /\ \A s \in Services : job[s] = None
    BY <1>5 DEF Restart, Stopped, TypeOK
  <2>2. \A i \in 1..Len(queue) : queue[i].boot \in Nat BY <2>1 DEF Request
  <2> QED BY <2>1, <2>2
<1>6. ASSUME NEW q \in {queue, <<>>}, Down(q) PROVE Dated'
  BY <1>6, DownStep DEF QueueInv
<1>7. CASE UNCHANGED <<boots, taken, queue, job>> BY <1>7
<1>8. CASE PollerMeetsEnd BY <1>7, <1>8, EndIsSilence
<1> QED
  BY <1>1, <1>2, <1>3, <1>4, <1>5, <1>6, <1>7, <1>8, StepCases
     DEF PollerAccept, PollerLooks, PollerReturns, PollerSkips, PollerSpins, ClientConnects,
         ClientRefused, ClientAsks, ClientTakes, ClientQuits, ClientKilled, ClientCutOff

(* accept takes connections in the order they came, each once. *)
LEMMA WaitingStep ==
  ASSUME QueueInv, [Next]_vars
  PROVE  Waiting'
<1> TypeOK /\ Waiting /\ Connected BY DEF QueueInv
<1>0. lq \in Seq(Clients) /\ \A i \in 1..Len(lq) : lq[i] \in Clients
  BY DEF TypeOK
<1>1. CASE PollerAccept
  <2>1. lq # <<>> /\ lq' = Tail(lq) /\ conn' = [conn EXCEPT ![Head(lq)] = "open"]
    BY <1>1 DEF PollerAccept
  <2>2. /\ Head(lq) = lq[1] /\ 1 \in 1..Len(lq)
        /\ \A i \in 1..Len(lq') : i + 1 \in 1..Len(lq) /\ i + 1 # 1 /\ lq'[i] = lq[i + 1]
    BY <1>0, <2>1, HeadTail
  <2>3. \A i \in 1..Len(lq') : lq'[i] # lq[1] BY <2>2 DEF Waiting
  <2>4. \A d \in Clients : d # lq[1] => conn'[d] = conn[d] BY <2>1, <2>2 DEF TypeOK
  <2>5. \A i \in 1..Len(lq') : conn'[lq'[i]] = "backlog"
    BY <1>0, <2>2, <2>3, <2>4 DEF Waiting
  <2>6. ASSUME NEW i \in 1..Len(lq'), NEW j \in 1..Len(lq'), lq'[i] = lq'[j] PROVE i = j
    <3>1. i + 1 = j + 1 BY <2>2, <2>6 DEF Waiting
    <3> QED BY <3>1
  <2> QED BY <2>5, <2>6 DEF Waiting
<1>2. ASSUME NEW c \in Clients, ClientConnects(c) PROVE Waiting'
  <2>1. lq' = Append(lq, c) /\ conn' = [conn EXCEPT ![c] = "backlog"] /\ conn[c] = "none"
    BY <1>2 DEF ClientConnects, Connected
  <2>2. /\ Len(lq') = Len(lq) + 1 /\ lq'[Len(lq) + 1] = c
        /\ \A i \in 1..Len(lq) : lq'[i] = lq[i] /\ lq[i] # c
        /\ \A i \in 1..Len(lq') : i \in 1..Len(lq) \/ i = Len(lq) + 1
    BY <1>0, <2>1, AtEnd DEF Waiting
  <2>3. \A d \in Clients : conn'[d] = IF d = c THEN "backlog" ELSE conn[d]
    BY <2>1 DEF TypeOK
  <2> QED BY <1>0, <2>2, <2>3 DEF Waiting
<1>3. ASSUME lq' = lq, \A c \in Clients : conn[c] = "backlog" => conn'[c] = "backlog"
      PROVE  Waiting'
  BY <1>0, <1>3 DEF Waiting
<1>4. ASSUME NEW c \in Clients, ClientKilled(c) PROVE Waiting'
  <2>1. lq' = lq BY <1>4 DEF ClientKilled
  <2>2. \A d \in Clients : conn[d] = "backlog" => conn'[d] = "backlog"
    BY <1>4, KilledConnection DEF TypeOK
  <2> QED BY <1>3, <2>1, <2>2
<1>5. ASSUME NEW q \in {queue, <<>>}, Down(q) PROVE Waiting'
  BY <1>5, DownStep DEF QueueInv
<1>6. CASE PollerMeetsEnd BY <1>3, <1>6, EndIsSilence
<1> QED
  BY <1>1, <1>2, <1>3, <1>4, <1>5, <1>6, StepCases
     DEF PollerLooks, PollerReturns, PollerReads, PollerSkips, PollerSends, PollerSpins,
         Restart, ServiceReceives, ServiceReplies, ClientRefused, ClientAsks, ClientTakes,
         ClientQuits, ClientCutOff

(* add_client gives every connection a slot until there is none; nothing   *)
(* else changes slots or descriptors.                                      *)
LEMMA SlotsStep ==
  ASSUME QueueInv, [Next]_vars
  PROVE  SlotsAreKept' /\ IsFiniteSet(OpenSockets)'
<1> TypeOK /\ SlotsAreKept /\ IsFiniteSet(OpenSockets) /\ Waiting /\ Connected
  BY DEF QueueInv
<1>0. /\ Len(clients) \in Nat /\ \A i \in 1..Len(clients) : clients[i] \in Clients
      /\ clients \in Seq(Clients) /\ fds = Cardinality(OpenSockets) /\ fds \in Nat
  <2>1. clients \in Seq(Clients) /\ fds \in Nat BY DEF TypeOK
  <2>2. fds = Cardinality(OpenSockets) BY DEF SlotsAreKept, OpenSockets
  <2> QED BY <2>1, <2>2
<1>1. CASE PollerAccept
  <2> DEFINE c == Head(lq)
  <2>1. c \in Clients /\ conn[c] = "backlog"
    <3>1. lq # <<>> /\ lq \in Seq(Clients) BY <1>1 DEF PollerAccept, TypeOK
    <3> QED BY <3>1, HeadTail DEF Waiting
  <2>2. fds' = fds + 1 /\ conn' = [conn EXCEPT ![c] = "open"]
    BY <1>1 DEF PollerAccept
  <2> HIDE DEF c
  <2>3. OpenSockets' = OpenSockets \cup {c} /\ c \notin OpenSockets
    BY <2>1, <2>2 DEF OpenSockets, TypeOK
  <2>4. fds' = Cardinality(OpenSockets') /\ IsFiniteSet(OpenSockets')
    BY <1>0, <2>2, <2>3, FS_AddElement
  <2>5. \A d \in Clients : conn[d] \in {"open", "reset"} => conn'[d] \in {"open", "reset"}
    BY <2>3 DEF OpenSockets
  <2>6. conn'[c] = "open" BY <2>1, <2>2 DEF TypeOK
  <2>7. CASE Len(clients) = ClientsAmount
    <3>1. clients' = clients BY <1>1, <2>7 DEF PollerAccept
    <3>2. Len(clients) = IF fds' < ClientsAmount THEN fds' ELSE ClientsAmount
      BY <1>0, <2>2, <2>7, NothingElse DEF SlotsAreKept
    <3> QED BY <1>0, <2>4, <2>5, <3>1, <3>2 DEF SlotsAreKept, OpenSockets
  <2>8. CASE Len(clients) # ClientsAmount
    <3>1. clients' = Append(clients, c) BY <1>1, <2>8 DEF PollerAccept, c
    <3>2. /\ Len(clients') = Len(clients) + 1 /\ clients'[Len(clients) + 1] = c
          /\ \A i \in 1..Len(clients) : clients'[i] = clients[i]
          /\ \A i \in 1..Len(clients') : i \in 1..Len(clients) \/ i = Len(clients) + 1
      BY <1>0, <2>1, <3>1, AtEnd
    <3>3. \A i \in 1..Len(clients) : clients[i] # c
      BY <2>1 DEF SlotsAreKept
    <3>4. Len(clients') = IF fds' < ClientsAmount THEN fds' ELSE ClientsAmount
      BY <1>0, <2>2, <2>8, <3>2, NothingElse DEF SlotsAreKept
    <3>5. \A i \in 1..Len(clients') :
            /\ conn'[clients'[i]] \in {"open", "reset"}
            /\ \A j \in 1..Len(clients') : clients'[i] = clients'[j] => i = j
      <4>1. \A i \in 1..Len(clients) :
              /\ conn[clients[i]] \in {"open", "reset"}
              /\ \A j \in 1..Len(clients) : clients[i] = clients[j] => i = j
        BY DEF SlotsAreKept
      <4> QED BY <1>0, <2>5, <2>6, <3>2, <3>3, <4>1
    <3> QED BY <2>4, <3>4, <3>5 DEF SlotsAreKept, OpenSockets
  <2> QED BY <2>7, <2>8
<1>2. ASSUME UNCHANGED <<clients, fds>>,
             \A c \in Clients : conn'[c] \in {"open", "reset"} <=> conn[c] \in {"open", "reset"}
      PROVE  SlotsAreKept' /\ IsFiniteSet(OpenSockets)'
  <2>1. OpenSockets' = OpenSockets BY <1>2 DEF OpenSockets
  <2>2. \A i \in 1..Len(clients) : conn'[clients[i]] \in {"open", "reset"}
    BY <1>0, <1>2 DEF SlotsAreKept
  <2> QED BY <1>0, <1>2, <2>1, <2>2 DEF SlotsAreKept, OpenSockets
<1>3. ASSUME NEW c \in Clients, ClientConnects(c) \/ ClientKilled(c)
      PROVE  SlotsAreKept' /\ IsFiniteSet(OpenSockets)'
  <2>1. UNCHANGED <<clients, fds>> BY <1>3 DEF ClientConnects, ClientKilled
  <2>2. \A d \in Clients : conn'[d] \in {"open", "reset"} <=> conn[d] \in {"open", "reset"}
    <3>1. CASE ClientConnects(c) BY <3>1 DEF ClientConnects, Connected, TypeOK
    <3>2. CASE ClientKilled(c) BY <3>2, KilledConnection DEF TypeOK
    <3> QED BY <1>3, <3>1, <3>2
  <2> QED BY <1>2, <2>1, <2>2
<1>4. ASSUME NEW q \in {queue, <<>>}, Down(q) PROVE SlotsAreKept' /\ IsFiniteSet(OpenSockets)'
  BY <1>4, DownStep DEF QueueInv
<1>5. CASE UNCHANGED <<clients, fds, conn>> BY <1>2, <1>5
<1>6. CASE PollerMeetsEnd BY <1>5, <1>6, EndIsSilence
<1> QED
  BY <1>1, <1>3, <1>4, <1>5, <1>6, StepCases
     DEF PollerLooks, PollerReturns, PollerReads, PollerSkips, PollerSends, PollerSpins,
         Restart, ServiceReceives, ServiceReplies, ClientRefused, ClientAsks, ClientTakes,
         ClientQuits, ClientCutOff

(* Without a process there is nothing but the queue. *)
LEMMA StoppedStep ==
  ASSUME QueueInv, [Next]_vars
  PROVE  Stopped'
<1> TypeOK /\ Stopped BY DEF QueueInv
<1> USE DEF Stopped, InSocket, Answered
<1>1. ASSUME NEW q \in {queue, <<>>}, Down(q) PROVE Stopped'
  BY <1>1, DownStep DEF QueueInv
<1>2. CASE PollerMeetsEnd BY <1>2 DEF PollerMeetsEnd
<1>3. ASSUME NEW c \in Clients, ClientRefused(c) PROVE Stopped'
  BY <1>3 DEF ClientRefused, TypeOK
<1>4. ASSUME NEW c \in Clients,
             \/ ClientConnects(c) \/ ClientAsks(c) \/ ClientTakes(c)
             \/ ClientQuits(c) \/ ClientKilled(c) \/ ClientCutOff(c)
      PROVE  up /\ UNCHANGED up
  BY <1>4 DEF ClientConnects, ClientAsks, ClientTakes, ClientQuits, ClientKilled, ClientCutOff
<1>5. CASE up /\ up' = up BY <1>5
<1>6. CASE UNCHANGED <<up, taken, job, cpc, request, answer>> BY <1>6
<1> QED
  BY <1>1, <1>2, <1>3, <1>4, <1>5, <1>6, StepCases
     DEF PollerAccept, PollerLooks, PollerReturns, PollerReads, PollerSkips, PollerSends,
         PollerSpins, Restart, ServiceReceives, ServiceReplies

(* Who touches neither requests nor the process leaves the places alone. *)
LEMMA Still ==
  ASSUME UNCHANGED <<boots, taken, queue, job>>
  PROVE  \A c \in Clients :
           /\ InPoller(c)' <=> InPoller(c)
           /\ \A i \in 1..Len(queue) : InQueue(c, i)' <=> InQueue(c, i)
           /\ \A s \in Services : InService(c, s)' <=> InService(c, s)
  BY DEF InPoller, InQueue, InService, Mine

(* A process that starts inherits requests, but none of its own clients. *)
LEMMA Fresh ==
  ASSUME QueueInv, Restart
  PROVE  /\ \A c \in Clients :
              /\ ~InSocket(c)' /\ ~InPoller(c)' /\ ~Answered(c)' /\ cpc'[c] \in {"start", "gone"}
              /\ \A i \in 1..Len(queue') : ~InQueue(c, i)'
              /\ \A s \in Services : ~InService(c, s)'
         /\ UNCHANGED <<queue, job, taken, request, conn, cpc, asked, answer, kills>>
<1> TypeOK /\ Dated /\ Stopped BY DEF QueueInv
<1>1. /\ ~up /\ boots' = boots + 1 /\ boots \in Nat
      /\ UNCHANGED <<queue, job, taken, request, conn, cpc, asked, answer, kills>>
  BY DEF Restart, TypeOK
<1>2. \A i \in 1..Len(queue) : queue[i] \in Request BY DEF TypeOK
<1>3. \A i \in 1..Len(queue) : queue[i].boot \in Nat /\ queue[i].boot <= boots
  BY <1>2 DEF Request, Dated
<1>4. \A i \in 1..Len(queue') : queue'[i].boot # boots' BY <1>1, <1>3
<1>5. \A c \in Clients, i \in 1..Len(queue') : ~InQueue(c, i)'
  BY <1>4 DEF InQueue, Mine
<1>6. taken = None /\ \A s \in Services : job[s] = None
  BY <1>1 DEF Stopped
<1>7. \A c \in Clients : ~InPoller(c)' /\ \A s \in Services : ~InService(c, s)'
  BY <1>1, <1>6 DEF InPoller, InService, Mine
<1>8. \A c \in Clients : ~InSocket(c)' /\ ~Answered(c)' /\ cpc'[c] \in {"start", "gone"}
  BY <1>1 DEF Stopped, InSocket, Answered
<1> QED BY <1>1, <1>5, <1>7, <1>8

(* The poller reads registered clients only, and a reply goes to a client  *)
(* that waits for it.                                                      *)
LEMMA ConnectedStep ==
  ASSUME QueueInv, [Next]_vars
  PROVE  Connected'
<1> TypeOK /\ Connected /\ SlotsAreKept /\ UnderWay /\ Waiting BY DEF QueueInv
<1> USE NothingElse
<1>1. ASSUME UNCHANGED <<up, boots, taken, queue, job>>,
             \A c \in Clients :
               /\ conn[c] \in {"open", "reset"} => conn'[c] \in {"open", "reset"}
               /\ Answered(c)' => cpc'[c] = "await" /\ conn'[c] = "open"
               /\ conn'[c] = "reset" => cpc'[c] = "gone" /\ kills' > 0
               /\ cpc'[c] = "start" => conn'[c] = "none"
      PROVE  Connected'
  <2>1. \A c \in Clients : InServer(c)' => InServer(c) BY <1>1, Still DEF InServer
  <2> QED BY <1>1, <2>1 DEF Connected
<1>2. CASE PollerAccept
  <2>1. lq # <<>> /\ lq \in Seq(Clients) BY <1>2 DEF PollerAccept, TypeOK
  <2>2. Head(lq) \in Clients /\ conn[Head(lq)] = "backlog" BY <2>1, HeadTail DEF Waiting
  <2>3. /\ UNCHANGED <<up, boots, taken, queue, job, answer, cpc, kills>>
        /\ \A c \in Clients : conn'[c] = IF c = Head(lq) THEN "open" ELSE conn[c]
    BY <1>2, <2>2 DEF PollerAccept, TypeOK
  <2>4. \A c \in Clients : Answered(c)' <=> Answered(c) BY <2>3 DEF Answered
  <2> QED BY <1>1, <2>2, <2>3, <2>4 DEF Connected
<1>3. CASE PollerReads
  <2>2. PICK c : c = clients[idx] OBVIOUS
  <2>1. conn[c] \in {"open", "reset"}
    BY <1>3, <2>2, Entry DEF SlotsAreKept, PollerReads
  <2>3. UNCHANGED <<boots, queue, job, up, conn, cpc, kills, answer>> BY <1>3 DEF PollerReads
  <2>4. \A d \in Clients : InPoller(d)' => d = c
    BY <1>3, <2>2, MoveReads
  <2>5. \A d \in Clients : InServer(d)' => InServer(d) \/ d = c
    BY <2>3, <2>4 DEF InServer, InQueue, InService, Mine
  <2>6. \A d \in Clients : Answered(d)' <=> Answered(d) BY <2>3 DEF Answered
  <2> QED BY <2>1, <2>3, <2>5, <2>6 DEF Connected
<1>4. CASE PollerSends
  <2>1. PICK c, n : c = taken.client /\ n = Len(queue) + 1 OBVIOUS
  <2>2. /\ InPoller(c) /\ c \in Clients /\ Len(queue') = n /\ Len(queue) \in Nat
        /\ \A d \in Clients : ~InPoller(d)' /\ (d # c => ~InQueue(d, n)')
        /\ \A d \in Clients, i \in 1..Len(queue) : InQueue(d, i)' <=> InQueue(d, i)
        /\ UNCHANGED <<up, boots, job, answer, cpc, conn, kills>>
    BY <1>4, <2>1, MoveSends
  <2>3. \A i \in 1..Len(queue') : i \in 1..Len(queue) \/ i = n BY <2>1, <2>2
  <2>4. \A d \in Clients : /\ \A s \in Services : InService(d, s)' <=> InService(d, s)
                           /\ Answered(d)' <=> Answered(d)
    BY <2>2 DEF InService, Mine, Answered
  <2>5. ASSUME NEW d \in Clients, InServer(d)' PROVE InServer(d)
    <3>1. CASE d = c BY <2>2, <3>1 DEF InServer
    <3>2. CASE d # c
      <4>1. \/ \E i \in 1..Len(queue') : InQueue(d, i)'
            \/ \E s \in Services : InService(d, s)'
        BY <2>2, <2>5 DEF InServer
      <4>2. ASSUME NEW i \in 1..Len(queue'), InQueue(d, i)'
            PROVE  i \in 1..Len(queue) /\ InQueue(d, i)
        BY <2>2, <2>3, <3>2, <4>2
      <4> QED BY <2>4, <4>1, <4>2 DEF InServer
    <3> QED BY <3>1, <3>2
  <2> QED BY <2>2, <2>4, <2>5 DEF Connected
<1>5. ASSUME NEW s \in Services, ServiceReceives(s) PROVE Connected'
  <2>1. /\ 1 \in 1..Len(queue)
        /\ \A d \in Clients : InService(d, s)' <=> InQueue(d, 1)
        /\ \A d \in Clients, t \in Services : t # s => (InService(d, t)' <=> InService(d, t))
        /\ \A d \in Clients, i \in 1..Len(queue') :
             i + 1 \in 1..Len(queue) /\ (InQueue(d, i)' <=> InQueue(d, i + 1))
        /\ UNCHANGED <<up, boots, taken, answer, cpc, conn, kills>>
    BY <1>5, MoveReceives
  <2>2. \A d \in Clients : (InPoller(d)' <=> InPoller(d)) /\ (Answered(d)' <=> Answered(d))
    BY <2>1 DEF InPoller, Mine, Answered
  <2>3. ASSUME NEW d \in Clients, InServer(d)' PROVE InServer(d)
    <3>1. ASSUME NEW i \in 1..Len(queue'), InQueue(d, i)' PROVE InServer(d)
      BY <2>1, <3>1 DEF InServer
    <3>2. ASSUME NEW t \in Services, InService(d, t)' PROVE InServer(d)
      BY <2>1, <3>2 DEF InServer
    <3> QED BY <2>2, <2>3, <3>1, <3>2 DEF InServer
  <2> QED BY <2>1, <2>2, <2>3 DEF Connected
<1>6. ASSUME NEW s \in Services, ServiceReplies(s) PROVE Connected'
  <2>1. PICK c : c = job[s].client OBVIOUS
  <2>2. /\ c \in Clients /\ InService(c, s) /\ (Answered(c)' <=> cpc[c] # "gone")
        /\ \A d \in Clients : ~InService(d, s)' /\ (d # c => answer'[d] = answer[d])
        /\ \A d \in Clients, t \in Services : t # s => (InService(d, t)' <=> InService(d, t))
        /\ UNCHANGED <<up, boots, taken, queue, cpc, conn, kills>>
    BY <1>6, <2>1, MoveReplies
  <2>3. \A d \in Clients : /\ InPoller(d)' <=> InPoller(d)
                           /\ \A i \in 1..Len(queue) : InQueue(d, i)' <=> InQueue(d, i)
                           /\ d # c => (Answered(d)' <=> Answered(d))
    BY <2>2 DEF InPoller, InQueue, Mine, Answered
  <2>4. up BY <1>6 DEF ServiceReplies
  <2>5. cpc[c] # "gone" => cpc[c] = "await" /\ conn[c] = "open"
    <3>1. cpc[c] \notin {"start", "ready"} BY <2>2, <2>4 DEF UnderWay, Placed, Nowhere
    <3>2. cpc[c] \in {"start", "ready", "await", "gone"} BY <2>2 DEF TypeOK
    <3>3. conn[c] \in {"open", "reset"} BY <2>2, <2>4 DEF Connected, InServer
    <3> QED BY <2>2, <3>1, <3>2, <3>3 DEF Connected
  <2>6. \A d \in Clients : InServer(d)' => InServer(d) BY <2>2, <2>3 DEF InServer
  <2> QED BY <2>2, <2>3, <2>5, <2>6 DEF Connected
<1>7. CASE Restart
  <2>1. \A c \in Clients : ~InServer(c)' BY <1>7, Fresh DEF InServer
  <2> QED BY <1>7, <2>1, Fresh DEF Connected
<1>8. ASSUME NEW c \in Clients,
             \/ ClientConnects(c) \/ ClientRefused(c) \/ ClientAsks(c) \/ ClientTakes(c)
             \/ ClientQuits(c) \/ ClientKilled(c) \/ ClientCutOff(c)
      PROVE  Connected'
  <2>1. UNCHANGED <<up, boots, taken, queue, job>>
    BY <1>8 DEF ClientConnects, ClientRefused, ClientAsks, ClientTakes, ClientQuits,
       ClientKilled, ClientCutOff
  <2>2. kills \in Nat BY DEF TypeOK
  <2>3. \A d \in Clients \ {c} : conn'[d] = conn[d] /\ cpc'[d] = cpc[d] /\ answer'[d] = answer[d]
    BY <1>8 DEF ClientConnects, ClientRefused, ClientAsks, ClientTakes, ClientQuits,
       ClientKilled, ClientCutOff, TypeOK
  <2>4. kills' \in Nat /\ kills' >= kills
    BY <1>8, <2>2 DEF ClientConnects, ClientRefused, ClientAsks, ClientTakes, ClientQuits,
       ClientKilled, ClientCutOff
  <2>5. /\ conn[c] \in {"open", "reset"} => conn'[c] \in {"open", "reset"}
        /\ Answered(c)' => cpc'[c] = "await" /\ conn'[c] = "open"
        /\ conn'[c] = "reset" => cpc'[c] = "gone" /\ kills' > 0
        /\ cpc'[c] = "start" => conn'[c] = "none"
    <3>1. CASE ClientConnects(c) BY <3>1 DEF ClientConnects, Connected, Answered, TypeOK
    <3>2. CASE ClientRefused(c) BY <3>2 DEF ClientRefused, Connected, Answered, TypeOK
    <3>3. CASE ClientAsks(c) BY <3>3 DEF ClientAsks, Connected, Answered, TypeOK
    <3>4. CASE ClientTakes(c) BY <3>4 DEF ClientTakes, Connected, Answered, TypeOK
    <3>5. CASE ClientQuits(c) BY <3>5 DEF ClientQuits, Connected, Answered, TypeOK
    <3>6. CASE ClientKilled(c) BY <3>6, <2>2 DEF ClientKilled, Connected, Answered, TypeOK
    <3>7. CASE ClientCutOff(c) BY <3>7 DEF ClientCutOff, Connected, Answered, TypeOK
    <3> QED BY <1>8, <3>1, <3>2, <3>3, <3>4, <3>5, <3>6, <3>7
  <2>6. \A d \in Clients \ {c} :
          /\ conn[d] \in {"open", "reset"} => conn'[d] \in {"open", "reset"}
          /\ Answered(d)' => cpc'[d] = "await" /\ conn'[d] = "open"
          /\ conn'[d] = "reset" => cpc'[d] = "gone" /\ kills' > 0
          /\ cpc'[d] = "start" => conn'[d] = "none"
    BY <2>2, <2>3, <2>4 DEF Connected, Answered
  <2> QED BY <1>1, <2>1, <2>5, <2>6
<1>9. ASSUME NEW q \in {queue, <<>>}, Down(q) PROVE Connected'
  BY <1>9, DownStep DEF QueueInv
<1>10. CASE UNCHANGED <<up, boots, taken, queue, job, conn, cpc, kills, answer>>
  <2>1. \A c \in Clients : Answered(c)' <=> Answered(c) BY <1>10 DEF Answered
  <2> QED BY <1>10, <1>1, <2>1 DEF Connected
<1>11. CASE PollerMeetsEnd BY <1>10, <1>11, EndIsSilence
<1> QED
  BY <1>2, <1>3, <1>4, <1>5, <1>6, <1>7, <1>8, <1>9, <1>10, <1>11, StepCases
     DEF PollerLooks, PollerReturns, PollerSkips, PollerSpins

(* A client whose message has not moved is placed as before. *)
LEMMA SamePlaces ==
  ASSUME NEW d \in Clients, Placed(d), cpc'[d] = cpc[d], kills = 0 \/ kills' # 0,
         InSocket(d)' <=> InSocket(d), InPoller(d)' <=> InPoller(d),
         Answered(d)' <=> Answered(d), Len(queue') = Len(queue),
         \A i \in 1..Len(queue) : InQueue(d, i)' <=> InQueue(d, i),
         \A s \in Services : InService(d, s)' <=> InService(d, s)
  PROVE  Placed(d)'
<1>1. Nowhere(d)' <=> Nowhere(d) BY DEF Nowhere
<1>2. Apart(d)' <=> Apart(d) BY DEF Apart
<1> QED BY <1>1, <1>2 DEF Placed

(* A message that is nowhere is nowhere twice. *)
LEMMA NowhereApart ==
  ASSUME NEW d, Nowhere(d)
  PROVE  Apart(d)
  BY DEF Nowhere, Apart

(* A message is moved as a whole: it leaves a place when it reaches the    *)
(* next.                                                                   *)
LEMMA UnderWayStep ==
  ASSUME QueueInv, [Next]_vars
  PROVE  UnderWay'
<1> TypeOK /\ UnderWay BY DEF QueueInv
<1> USE NothingElse
<1>1. CASE PollerReads
  <2>1. PICK c : c = clients[idx] OBVIOUS
  <2>2. /\ c \in Clients /\ InSocket(c) /\ ~InSocket(c)' /\ InPoller(c)'
        /\ \A d \in Clients : ~InPoller(d) /\ (d # c => ~InPoller(d)')
        /\ \A d \in Clients : d # c => request'[d] = request[d]
        /\ UNCHANGED <<up, boots, queue, job, answer, cpc, conn, asked, kills>>
    BY <1>1, <2>1, MoveReads
  <2>3. up /\ Placed(c) BY <1>1, <2>2 DEF PollerReads, UnderWay
  <2>4. \A d \in Clients : /\ \A i \in 1..Len(queue) : InQueue(d, i)' <=> InQueue(d, i)
                           /\ \A s \in Services : InService(d, s)' <=> InService(d, s)
                           /\ Answered(d)' <=> Answered(d)
                           /\ d # c => (InSocket(d)' <=> InSocket(d))
    BY <2>2 DEF InQueue, InService, Mine, Answered, InSocket
  <2>5. cpc[c] \notin {"start", "ready"} /\ ~(kills = 0 /\ cpc[c] = "gone")
    BY <2>2, <2>3 DEF Placed, Nowhere
  <2>6. Apart(c)'
    BY <2>2, <2>3, <2>4 DEF Placed, Apart
  <2>7. ~Nowhere(c)' BY <2>2 DEF Nowhere
  <2>8. Placed(c)' BY <2>2, <2>5, <2>6, <2>7 DEF Placed
  <2>9. \A d \in Clients : d # c => Placed(d)'
    BY <2>2, <2>3, <2>4, SamePlaces DEF UnderWay
  <2> QED BY <2>8, <2>9 DEF UnderWay
<1>2. CASE PollerSends
  <2>1. PICK c, n : c = taken.client /\ n = Len(queue) + 1 OBVIOUS
  <2>2. /\ c \in Clients /\ InPoller(c) /\ InQueue(c, n)'
        /\ Len(queue') = n /\ Len(queue) \in Nat
        /\ \A d \in Clients : ~InPoller(d)' /\ (d # c => ~InPoller(d) /\ ~InQueue(d, n)')
        /\ \A d \in Clients, i \in 1..Len(queue) : InQueue(d, i)' <=> InQueue(d, i)
        /\ UNCHANGED <<up, boots, request, job, answer, cpc, conn, asked, kills>>
    BY <1>2, <2>1, MoveSends
  <2>3. /\ \A i \in 1..Len(queue') : i \in 1..Len(queue) \/ i = n
        /\ \A i \in 1..Len(queue) : i \in 1..Len(queue')
        /\ n \in 1..Len(queue')
    BY <2>1, <2>2
  <2>4. \A d \in Clients : /\ \A s \in Services : InService(d, s)' <=> InService(d, s)
                           /\ Answered(d)' <=> Answered(d)
                           /\ InSocket(d)' <=> InSocket(d)
    BY <2>2 DEF InService, Mine, Answered, InSocket
  <2>5. up /\ Placed(c) BY <1>2, <2>2 DEF PollerSends, UnderWay
  <2>6. cpc[c] \notin {"start", "ready"} /\ ~(kills = 0 /\ cpc[c] = "gone")
    BY <2>2, <2>5 DEF Placed, Nowhere
  <2>7. Apart(c)'
    <3>1. Apart(c) BY <2>5 DEF Placed
    <3>2. /\ ~InSocket(c) /\ ~Answered(c) /\ \A i \in 1..Len(queue) : ~InQueue(c, i)
          /\ \A s \in Services : ~InService(c, s)
      BY <2>2, <3>1 DEF Apart
    <3>3. \A i \in 1..Len(queue') : InQueue(c, i)' => i = n BY <2>2, <2>3, <3>2
    <3> QED BY <2>2, <2>4, <3>2, <3>3 DEF Apart
  <2>8. ~Nowhere(c)' BY <2>2, <2>3 DEF Nowhere
  <2>9. Placed(c)' BY <2>2, <2>6, <2>7, <2>8 DEF Placed
  <2>10. ASSUME NEW d \in Clients, d # c PROVE Placed(d)'
    <3>1. Placed(d) BY <2>5 DEF UnderWay
    <3>2. \A i \in 1..Len(queue') : InQueue(d, i)' => i \in 1..Len(queue) BY <2>2, <2>3, <2>10
    <3>3. (InPoller(d)' <=> InPoller(d)) /\ ~InPoller(d) BY <2>2, <2>10
    <3>4. Nowhere(d)' <=> Nowhere(d) BY <2>2, <2>3, <2>4, <3>2, <3>3 DEF Nowhere
    <3>5. Apart(d) => Apart(d)' BY <2>2, <2>3, <2>4, <3>2, <3>3 DEF Apart
    <3> QED BY <2>2, <3>1, <3>4, <3>5 DEF Placed
  <2> QED BY <2>9, <2>10 DEF UnderWay
<1>3. ASSUME NEW s \in Services, ServiceReceives(s) PROVE UnderWay'
  <2>1. /\ 1 \in 1..Len(queue) /\ Len(queue') = Len(queue) - 1 /\ Len(queue) \in Nat
        /\ \A d \in Clients : ~InService(d, s) /\ (InService(d, s)' <=> InQueue(d, 1))
        /\ \A d \in Clients, t \in Services : t # s => (InService(d, t)' <=> InService(d, t))
        /\ \A d \in Clients, i \in 1..Len(queue') :
             i + 1 \in 1..Len(queue) /\ (InQueue(d, i)' <=> InQueue(d, i + 1))
        /\ UNCHANGED <<up, boots, request, taken, answer, cpc, conn, asked, kills>>
    BY <1>3, MoveReceives
  <2>2. \A i \in 1..Len(queue) : i = 1 \/ (i - 1 \in 1..Len(queue') /\ (i - 1) + 1 = i)
    BY <2>1
  <2>3. \A d \in Clients : /\ InPoller(d)' <=> InPoller(d)
                           /\ Answered(d)' <=> Answered(d)
                           /\ InSocket(d)' <=> InSocket(d)
    BY <2>1 DEF InPoller, Mine, Answered, InSocket
  <2>4. up BY <1>3 DEF ServiceReceives
  <2>5. ASSUME NEW d \in Clients PROVE Placed(d)'
    <3>1. Placed(d) BY <2>4 DEF UnderWay
    <3>2. Nowhere(d)' <=> Nowhere(d)
      <4>1. ASSUME Nowhere(d) PROVE Nowhere(d)'
        BY <2>1, <2>3, <4>1 DEF Nowhere
      <4>2. ASSUME Nowhere(d)', NEW i \in 1..Len(queue) PROVE ~InQueue(d, i)
        <5>1. CASE i = 1 BY <2>1, <4>2, <5>1 DEF Nowhere
        <5>2. CASE i # 1
          <6>1. PICK j \in 1..Len(queue') : j + 1 = i BY <2>2, <5>2
          <6>2. ~InQueue(d, j)' BY <4>2 DEF Nowhere
          <6> QED BY <2>1, <6>1, <6>2
        <5> QED BY <5>1, <5>2
      <4>3. ASSUME Nowhere(d)', NEW t \in Services PROVE ~InService(d, t)
        BY <2>1, <4>3 DEF Nowhere
      <4>4. ASSUME Nowhere(d)' PROVE ~InSocket(d) /\ ~InPoller(d) /\ ~Answered(d)
        BY <2>3, <4>4 DEF Nowhere
      <4> QED BY <4>1, <4>2, <4>3, <4>4 DEF Nowhere
    <3>3. Apart(d) => Apart(d)'
      <4>1. SUFFICES ASSUME Apart(d) PROVE Apart(d)' OBVIOUS
      <4>2. CASE InQueue(d, 1)
        <5>1. /\ ~InSocket(d) /\ ~InPoller(d) /\ ~Answered(d)
              /\ \A j \in 1..Len(queue) : InQueue(d, j) => j = 1
              /\ \A t \in Services : ~InService(d, t)
          BY <2>1, <4>1, <4>2 DEF Apart
        <5>2. \A i \in 1..Len(queue') : ~InQueue(d, i)'
          <6>1. SUFFICES ASSUME NEW i \in 1..Len(queue'), InQueue(d, i + 1) PROVE FALSE
            BY <2>1
          <6>2. i + 1 = 1 /\ i \in Nat \ {0} BY <2>1, <5>1, <6>1
          <6> QED BY <6>2
        <5>3. \A t \in Services : InService(d, t)' => t = s BY <2>1, <5>1
        <5> QED BY <2>3, <5>1, <5>2, <5>3 DEF Apart
      <4>3. CASE ~InQueue(d, 1)
        <5>1. \A t \in Services : InService(d, t)' <=> InService(d, t) BY <2>1, <4>3
        <5>2. ASSUME NEW i \in 1..Len(queue'), NEW j \in 1..Len(queue'),
                     InQueue(d, i)', InQueue(d, j)'
              PROVE  i = j
          <6>1. i + 1 = j + 1 BY <2>1, <4>1, <5>2 DEF Apart
          <6> QED BY <2>1, <6>1
        <5>3. ASSUME NEW i \in 1..Len(queue'), InQueue(d, i)'
              PROVE  /\ ~InSocket(d) /\ ~InPoller(d) /\ ~Answered(d)
                     /\ \A t \in Services : ~InService(d, t)
          <6>1. i + 1 \in 1..Len(queue) /\ InQueue(d, i + 1) BY <2>1, <5>3
          <6> QED BY <4>1, <6>1 DEF Apart
        <5> QED BY <2>3, <4>1, <5>1, <5>2, <5>3 DEF Apart
      <4> QED BY <4>2, <4>3
    <3> QED BY <2>1, <3>1, <3>2, <3>3 DEF Placed
  <2> QED BY <2>5 DEF UnderWay
<1>4. ASSUME NEW s \in Services, ServiceReplies(s) PROVE UnderWay'
  <2>1. PICK c : c = job[s].client OBVIOUS
  <2>2. /\ c \in Clients /\ InService(c, s) /\ (Answered(c)' <=> cpc[c] # "gone")
        /\ \A d \in Clients : ~InService(d, s)' /\ (d # c => ~InService(d, s) /\ answer'[d] = answer[d])
        /\ \A d \in Clients, t \in Services : t # s => (InService(d, t)' <=> InService(d, t))
        /\ UNCHANGED <<up, boots, request, taken, queue, cpc, conn, asked, kills>>
    BY <1>4, <2>1, MoveReplies
  <2>3. up /\ Placed(c) BY <1>4, <2>2 DEF ServiceReplies, UnderWay
  <2>4. \A d \in Clients : /\ InPoller(d)' <=> InPoller(d)
                           /\ \A i \in 1..Len(queue) : InQueue(d, i)' <=> InQueue(d, i)
                           /\ InSocket(d)' <=> InSocket(d)
                           /\ d # c => (Answered(d)' <=> Answered(d))
    BY <2>2 DEF InPoller, InQueue, Mine, Answered, InSocket
  <2>5. cpc[c] \notin {"start", "ready"} /\ ~(kills = 0 /\ cpc[c] = "gone")
    BY <2>2, <2>3 DEF Placed, Nowhere
  <2>6. Apart(c)' /\ (cpc[c] # "gone" => ~Nowhere(c)')
    <3>1. Apart(c) BY <2>3 DEF Placed
    <3>2. /\ ~InSocket(c) /\ ~InPoller(c) /\ \A i \in 1..Len(queue) : ~InQueue(c, i)
          /\ \A t \in Services : InService(c, t) => t = s
      BY <2>2, <3>1 DEF Apart
    <3>3. \A t \in Services : ~InService(c, t)' BY <2>2, <3>2
    <3>4. Apart(c)' BY <2>2, <2>4, <3>2, <3>3 DEF Apart
    <3>5. cpc[c] # "gone" => ~Nowhere(c)' BY <2>2 DEF Nowhere
    <3> QED BY <3>4, <3>5
  <2>7. Placed(c)' BY <2>2, <2>5, <2>6 DEF Placed
  <2>8. ASSUME NEW d \in Clients, d # c PROVE Placed(d)'
    <3>1. \A t \in Services : InService(d, t)' <=> InService(d, t) BY <2>2, <2>8
    <3> QED BY <2>2, <2>3, <2>4, <2>8, <3>1, SamePlaces DEF UnderWay
  <2> QED BY <2>7, <2>8 DEF UnderWay
<1>5. CASE Restart
  <2>1. \A c \in Clients : Nowhere(c)' /\ cpc'[c] \in {"start", "gone"}
    BY <1>5, Fresh DEF Nowhere
  <2>2. \A c \in Clients : Apart(c)' BY <2>1 DEF Nowhere, Apart
  <2> QED BY <2>1, <2>2 DEF UnderWay, Placed
<1>6. ASSUME NEW c \in Clients,
             \/ ClientConnects(c) \/ ClientRefused(c) \/ ClientAsks(c) \/ ClientTakes(c)
             \/ ClientQuits(c) \/ ClientKilled(c) \/ ClientCutOff(c)
      PROVE  UnderWay'
  <2>1. UNCHANGED <<up, boots, taken, queue, job>>
    BY <1>6 DEF ClientConnects, ClientRefused, ClientAsks, ClientTakes, ClientQuits,
       ClientKilled, ClientCutOff
  <2>2. kills' \in Nat /\ kills' >= kills /\ kills \in Nat
    BY <1>6 DEF TypeOK, ClientConnects, ClientRefused, ClientAsks, ClientTakes, ClientQuits,
       ClientKilled, ClientCutOff
  <2>3. \A d \in Clients \ {c} :
          cpc'[d] = cpc[d] /\ request'[d] = request[d] /\ answer'[d] = answer[d]
    BY <1>6 DEF ClientConnects, ClientRefused, ClientAsks, ClientTakes, ClientQuits,
       ClientKilled, ClientCutOff, TypeOK
  <2>4. \A d \in Clients : /\ InPoller(d)' <=> InPoller(d)
                           /\ \A i \in 1..Len(queue) : InQueue(d, i)' <=> InQueue(d, i)
                           /\ \A s \in Services : InService(d, s)' <=> InService(d, s)
    BY <2>1, Still
  <2>5. ASSUME up, NEW d \in Clients \ {c} PROVE Placed(d)'
    <3>1. Placed(d) BY <2>5 DEF UnderWay
    <3>2. (InSocket(d)' <=> InSocket(d)) /\ (Answered(d)' <=> Answered(d))
      BY <2>3 DEF InSocket, Answered
    <3> QED BY <2>1, <2>2, <2>3, <2>4, <3>1, <3>2, SamePlaces
  <2>6. ASSUME up PROVE Placed(c)'
    <3>1. Placed(c) BY <2>6 DEF UnderWay
    <3>2. CASE ClientConnects(c) \/ ClientQuits(c)
      <4>1. Nowhere(c) /\ UNCHANGED <<request, answer>>
        BY <3>1, <3>2 DEF Placed, ClientConnects, ClientQuits
      <4>2. Nowhere(c)' BY <2>1, <2>4, <4>1 DEF Nowhere, InSocket, Answered
      <4>3. Apart(c)' BY <4>2 DEF Nowhere, Apart
      <4>4. cpc'[c] # "await" BY <3>2 DEF ClientConnects, ClientQuits, TypeOK
      <4> QED BY <4>2, <4>3, <4>4 DEF Placed
    <3>3. CASE ClientRefused(c) BY <2>6, <3>3 DEF ClientRefused
    <3>4. CASE ClientAsks(c)
      <4>1. Nowhere(c) /\ UNCHANGED answer /\ cpc'[c] = "await" /\ request'[c] # None
        BY <3>1, <3>4 DEF Placed, ClientAsks, TypeOK
      <4>2. Apart(c)' BY <2>1, <2>4, <4>1 DEF Nowhere, Apart, Answered
      <4>3. ~Nowhere(c)' BY <4>1 DEF Nowhere, InSocket
      <4> QED BY <4>1, <4>2, <4>3 DEF Placed
    <3>5. CASE ClientTakes(c)
      <4>1. /\ Apart(c) /\ Answered(c) /\ UNCHANGED request /\ cpc'[c] = "ready"
            /\ ~Answered(c)'
        BY <3>1, <3>5 DEF Placed, ClientTakes, TypeOK, Answered
      <4>2. Nowhere(c)' BY <2>1, <2>4, <4>1 DEF Nowhere, Apart, InSocket
      <4>3. Apart(c)' BY <4>2 DEF Nowhere, Apart
      <4> QED BY <4>1, <4>2, <4>3 DEF Placed
    <3>6. CASE ClientKilled(c) \/ ClientCutOff(c)
      <4>1. cpc'[c] = "gone" /\ kills' # 0
        BY <2>2, <3>6 DEF ClientKilled, ClientCutOff, TypeOK
      <4>2. CASE ClientKilled(c)
        <5>1. UNCHANGED request /\ ~Answered(c)'
          BY <4>2 DEF ClientKilled, Answered, TypeOK
        <5>2. Apart(c) BY <3>1 DEF Placed
        <5>3. Apart(c)' BY <2>1, <2>4, <5>1, <5>2 DEF Apart, InSocket
        <5> QED BY <4>1, <5>3 DEF Placed
      <4>3. CASE ClientCutOff(c)
        <5>1. Nowhere(c) /\ UNCHANGED answer
          BY <3>1, <4>3 DEF Placed, ClientCutOff
        <5>2. Apart(c)' BY <2>1, <2>4, <5>1 DEF Apart, Nowhere, Answered
        <5> QED BY <4>1, <5>2 DEF Placed
      <4> QED BY <3>6, <4>2, <4>3
    <3> QED BY <1>6, <3>2, <3>3, <3>4, <3>5, <3>6
  <2> QED BY <2>1, <2>5, <2>6 DEF UnderWay
<1>7. ASSUME NEW q \in {queue, <<>>}, Down(q) PROVE UnderWay'
  BY <1>7, DownStep DEF QueueInv
<1>8. CASE UNCHANGED <<up, boots, taken, queue, job, cpc, kills, request, answer>>
  <2>1. \A d \in Clients : (InSocket(d)' <=> InSocket(d)) /\ (Answered(d)' <=> Answered(d))
    BY <1>8 DEF InSocket, Answered
  <2>2. ASSUME up, NEW d \in Clients PROVE Placed(d)'
    BY <1>8, <2>1, <2>2, Still, SamePlaces DEF UnderWay
  <2> QED BY <1>8, <2>2 DEF UnderWay
<1>9. CASE PollerMeetsEnd BY <1>8, <1>9, EndIsSilence
<1> QED
  BY <1>1, <1>2, <1>3, <1>4, <1>5, <1>6, <1>7, <1>8, <1>9, StepCases
     DEF PollerAccept, PollerLooks, PollerReturns, PollerSkips, PollerSpins

(* Who asks nothing and moves nothing says what was said before. *)
LEMMA SaidStays ==
  ASSUME Said, UNCHANGED <<boots, taken, queue, job, request, cpc, asked>>
  PROVE  Said'
  BY DEF Said, InSocket, InPoller, InQueue, InService, Mine

(* On its way a message is not altered. *)
LEMMA SaidStep ==
  ASSUME QueueInv, [Next]_vars
  PROVE  Said'
<1> TypeOK /\ Said /\ UnderWay /\ Stopped BY DEF QueueInv
<1> USE NothingElse
<1>1. CASE PollerReads
  <2>1. PICK c : c = clients[idx] OBVIOUS
  <2>2. /\ c \in Clients /\ InSocket(c) /\ ~InSocket(c)'
        /\ taken'.message = request[c]
        /\ \A d \in Clients : d # c => ~InPoller(d)' /\ request'[d] = request[d]
        /\ UNCHANGED <<boots, queue, job, cpc, asked>>
    BY <1>1, <2>1, MoveReads
  <2>3. \A d \in Clients : cpc[d] = "await" =>
          /\ \A i \in 1..Len(queue) : InQueue(d, i)' => queue'[i].message = asked[d]
          /\ \A t \in Services : InService(d, t)' => job'[t].message = asked[d]
    BY <2>2 DEF Said, InQueue, InService, Mine
  <2>4. ASSUME NEW d \in Clients, cpc[d] = "await"
        PROVE  /\ InSocket(d)' => request'[d] = asked[d]
               /\ InPoller(d)' => taken'.message = asked[d]
    BY <2>2, <2>4 DEF Said, InSocket
  <2> QED BY <2>2, <2>3, <2>4 DEF Said
<1>2. CASE PollerSends
  <2>1. PICK c, n : c = taken.client /\ n = Len(queue) + 1 OBVIOUS
  <2>2. /\ InPoller(c) /\ c \in Clients /\ Len(queue') = n /\ Len(queue) \in Nat
        /\ queue'[n].message = taken.message
        /\ \A d \in Clients : ~InPoller(d)' /\ (d # c => ~InQueue(d, n)')
        /\ \A d \in Clients, i \in 1..Len(queue) : InQueue(d, i)' <=> InQueue(d, i)
        /\ \A i \in 1..Len(queue) : queue'[i] = queue[i]
        /\ UNCHANGED <<boots, request, job, cpc, asked>>
    BY <1>2, <2>1, MoveSends
  <2>3. \A i \in 1..Len(queue') : i \in 1..Len(queue) \/ i = n BY <2>1, <2>2
  <2>4. ASSUME NEW d \in Clients, cpc[d] = "await", NEW i \in 1..Len(queue'), InQueue(d, i)'
        PROVE  queue'[i].message = asked[d]
    <3>1. CASE i = n
      <4>1. d = c BY <2>2, <2>4, <3>1
      <4> QED BY <2>2, <2>4, <3>1, <4>1 DEF Said
    <3>2. CASE i \in 1..Len(queue) BY <2>2, <2>4, <3>2 DEF Said
    <3> QED BY <2>3, <3>1, <3>2
  <2>5. \A d \in Clients : cpc[d] = "await" =>
          /\ InSocket(d)' => request'[d] = asked[d]
          /\ \A t \in Services : InService(d, t)' => job'[t].message = asked[d]
    BY <2>2 DEF Said, InSocket, InService, Mine
  <2> QED BY <2>2, <2>4, <2>5 DEF Said
<1>3. ASSUME NEW s \in Services, ServiceReceives(s) PROVE Said'
  <2>1. /\ 1 \in 1..Len(queue) /\ job'[s] = queue[1]
        /\ \A d \in Clients : InService(d, s)' <=> InQueue(d, 1)
        /\ \A d \in Clients, t \in Services : t # s => (InService(d, t)' <=> InService(d, t))
        /\ \A t \in Services : t # s => job'[t] = job[t]
        /\ \A i \in 1..Len(queue') : i + 1 \in 1..Len(queue) /\ queue'[i] = queue[i + 1]
        /\ \A d \in Clients, i \in 1..Len(queue') : InQueue(d, i)' <=> InQueue(d, i + 1)
        /\ UNCHANGED <<boots, request, taken, cpc, asked>>
    BY <1>3, MoveReceives
  <2>2. ASSUME NEW d \in Clients, cpc[d] = "await", NEW t \in Services, InService(d, t)'
        PROVE  job'[t].message = asked[d]
    <3>1. CASE t = s BY <2>1, <2>2, <3>1 DEF Said
    <3>2. CASE t # s BY <2>1, <2>2, <3>2 DEF Said
    <3> QED BY <3>1, <3>2
  <2>3. ASSUME NEW d \in Clients, cpc[d] = "await", NEW i \in 1..Len(queue'), InQueue(d, i)'
        PROVE  queue'[i].message = asked[d]
    BY <2>1, <2>3 DEF Said
  <2>4. \A d \in Clients : cpc[d] = "await" =>
          /\ InSocket(d)' => request'[d] = asked[d]
          /\ InPoller(d)' => taken'.message = asked[d]
    BY <2>1 DEF Said, InSocket, InPoller, Mine
  <2> QED BY <2>1, <2>2, <2>3, <2>4 DEF Said
<1>4. ASSUME NEW s \in Services, ServiceReplies(s) PROVE Said'
  <2>1. PICK c : c = job[s].client OBVIOUS
  <2>2. /\ \A d \in Clients : ~InService(d, s)'
        /\ \A d \in Clients, t \in Services : t # s => (InService(d, t)' <=> InService(d, t))
        /\ \A t \in Services : t # s => job'[t] = job[t]
        /\ UNCHANGED <<boots, request, taken, queue, cpc, asked>>
    BY <1>4, <2>1, MoveReplies
  <2>3. ASSUME NEW d \in Clients, cpc[d] = "await", NEW t \in Services, InService(d, t)'
        PROVE  job'[t].message = asked[d]
    BY <2>2, <2>3 DEF Said
  <2>4. \A d \in Clients : cpc[d] = "await" =>
          /\ InSocket(d)' => request'[d] = asked[d]
          /\ InPoller(d)' => taken'.message = asked[d]
          /\ \A i \in 1..Len(queue) : InQueue(d, i)' => queue'[i].message = asked[d]
    BY <2>2 DEF Said, InSocket, InPoller, InQueue, Mine
  <2> QED BY <2>2, <2>3, <2>4 DEF Said
<1>5. CASE Restart
  <2>1. /\ \A c \in Clients : cpc'[c] \in {"start", "gone"} /\ cpc'[c] # "await"
        /\ UNCHANGED <<cpc, asked>>
    BY <1>5, Fresh
  <2> QED BY <2>1 DEF Said
<1>6. ASSUME NEW c \in Clients,
             \/ ClientConnects(c) \/ ClientRefused(c) \/ ClientAsks(c) \/ ClientTakes(c)
             \/ ClientQuits(c) \/ ClientKilled(c) \/ ClientCutOff(c)
      PROVE  Said'
  <2>1. UNCHANGED <<up, boots, taken, queue, job>>
    BY <1>6 DEF ClientConnects, ClientRefused, ClientAsks, ClientTakes, ClientQuits,
       ClientKilled, ClientCutOff
  <2>2. \A d \in Clients \ {c} :
          cpc'[d] = cpc[d] /\ request'[d] = request[d] /\ asked'[d] = asked[d]
    BY <1>6 DEF ClientConnects, ClientRefused, ClientAsks, ClientTakes, ClientQuits,
       ClientKilled, ClientCutOff, TypeOK
  <2>3. \A d \in Clients : /\ InPoller(d)' <=> InPoller(d)
                           /\ \A i \in 1..Len(queue) : InQueue(d, i)' <=> InQueue(d, i)
                           /\ \A s \in Services : InService(d, s)' <=> InService(d, s)
    BY <2>1, Still
  <2>4. cpc'[c] = "await" <=> asked'[c] # None
    BY <1>6 DEF Said, ClientConnects, ClientRefused, ClientAsks, ClientTakes, ClientQuits,
       ClientKilled, ClientCutOff, TypeOK
  <2>5. ASSUME cpc'[c] = "await"
        PROVE  /\ request'[c] = asked'[c] /\ ~InPoller(c)
               /\ \A i \in 1..Len(queue) : ~InQueue(c, i)
               /\ \A s \in Services : ~InService(c, s)
    <3>1. ClientAsks(c)
      BY <1>6, <2>5 DEF ClientConnects, ClientRefused, ClientTakes, ClientQuits,
         ClientKilled, ClientCutOff, TypeOK
    <3>2. cpc[c] = "ready" /\ request'[c] = asked'[c] BY <3>1 DEF ClientAsks, TypeOK
    <3>3. up BY <3>2 DEF Stopped
    <3>4. Nowhere(c) BY <3>2, <3>3 DEF UnderWay, Placed
    <3> QED BY <3>2, <3>4 DEF Nowhere
  <2>6. ASSUME NEW d \in Clients \ {c}
        PROVE  /\ cpc'[d] = "await" <=> asked'[d] # None
               /\ cpc'[d] = "await" =>
                    /\ InSocket(d)' => request'[d] = asked'[d]
                    /\ InPoller(d)' => taken'.message = asked'[d]
                    /\ \A i \in 1..Len(queue') : InQueue(d, i)' => queue'[i].message = asked'[d]
                    /\ \A s \in Services : InService(d, s)' => job'[s].message = asked'[d]
    BY <2>1, <2>2, <2>3 DEF Said, InSocket
  <2>7. /\ cpc'[c] = "await" <=> asked'[c] # None
        /\ cpc'[c] = "await" =>
             /\ InSocket(c)' => request'[c] = asked'[c]
             /\ InPoller(c)' => taken'.message = asked'[c]
             /\ \A i \in 1..Len(queue') : InQueue(c, i)' => queue'[i].message = asked'[c]
             /\ \A s \in Services : InService(c, s)' => job'[s].message = asked'[c]
    BY <2>1, <2>3, <2>4, <2>5
  <2> QED BY <2>6, <2>7 DEF Said
<1>7. ASSUME NEW q \in {queue, <<>>}, Down(q) PROVE Said'
  BY <1>7, DownStep DEF QueueInv
<1>8. CASE PollerMeetsEnd BY <1>8, EndIsSilence, SaidStays
<1> QED
  BY <1>1, <1>2, <1>3, <1>4, <1>5, <1>6, <1>7, <1>8, SaidStays, StepCases
     DEF PollerAccept, PollerLooks, PollerReturns, PollerSkips, PollerSpins
-----------------------------------------------------------------------------
(* The theorems.                                                           *)

LEMMA QueueInit == Init => QueueInv
<1> SUFFICES ASSUME Init PROVE QueueInv OBVIOUS
<1> USE NothingElse DEF Init
<1>1. TypeOK
  <2>1. lq \in Seq(Clients) /\ clients \in Seq(Clients) /\ queue \in Seq(Request) OBVIOUS
  <2> QED BY <2>1 DEF TypeOK
<1>2. OpenSockets = {} BY DEF OpenSockets
<1>3. SlotsAreKept /\ IsFiniteSet(OpenSockets)
  <2>1. fds = Cardinality(OpenSockets) /\ IsFiniteSet(OpenSockets) BY <1>2, FS_EmptySet
  <2> QED BY <2>1 DEF SlotsAreKept, OpenSockets
<1>4. \A c \in Clients : Nowhere(c)
  BY DEF Nowhere, InSocket, InPoller, InQueue, InService, Answered, Mine
<1>5. UnderWay BY <1>4, NowhereApart DEF UnderWay, Placed
<1>6. Said BY DEF Said
<1>7. Connected BY <1>4 DEF Connected, InServer, Nowhere
<1>8. Dated /\ Waiting /\ Stopped /\ Silent BY DEF Dated, Waiting, Stopped, Silent
<1> QED BY <1>1, <1>3, <1>5, <1>6, <1>7, <1>8 DEF QueueInv

LEMMA QueueStep == QueueInv /\ [Next]_vars => QueueInv'
  BY TypeStep, SlotsStep, UnderWayStep, SaidStep, ConnectedStep, DatedStep, WaitingStep,
     StoppedStep, SilentStep DEF QueueInv

(* The parts of QueueInv hold in every state of the server. *)
THEOREM QueueInvariant == Spec => []QueueInv
  BY QueueInit, QueueStep, PTL DEF Spec

(* Every variable has its type; the poller never leaves the registry, and  *)
(* it and the services hold a request exactly while they work on one.      *)
THEOREM TypeCorrect == Spec => []TypeOK
<1>1. QueueInv => TypeOK BY DEF QueueInv
<1> QED BY <1>1, QueueInvariant, PTL

(* Slots and descriptors of the registry are never given back while the    *)
(* process lives: delete_client is never reached.                          *)
THEOREM SlotsStayTaken == Spec => []SlotsAreKept
<1>1. QueueInv => SlotsAreKept BY DEF QueueInv
<1> QED BY <1>1, QueueInvariant, PTL

(* Holders lists the places. *)
LEMMA HoldersAre ==
  ASSUME TypeOK, NEW c \in Clients
  PROVE  /\ InSocket(c) => <<"socket", 0>> \in Holders(c)
         /\ InPoller(c) => <<"poller", 0>> \in Holders(c)
         /\ Answered(c) => <<"answer", 0>> \in Holders(c)
         /\ \A i \in 1..Len(queue) : InQueue(c, i) => <<"queue", i>> \in Holders(c)
         /\ \A s \in Services : InService(c, s) => <<"service", s>> \in Holders(c)
         /\ \A h \in Holders(c) :
              \/ h = <<"socket", 0>> /\ InSocket(c)
              \/ h = <<"poller", 0>> /\ InPoller(c)
              \/ h = <<"answer", 0>> /\ Answered(c)
              \/ \E i \in 1..Len(queue) : h = <<"queue", i>> /\ InQueue(c, i)
              \/ \E s \in Services : h = <<"service", s>> /\ InService(c, s)
<1> USE DEF InSocket, InPoller, InQueue, InService, Answered, Mine
<1> DEFINE ends == {h \in {"socket", "poller", "answer"} \X {0} :
                      \/ h[1] = "socket" /\ request[c] # None
                      \/ h[1] = "poller" /\ taken # None /\ taken.client = c /\ taken.boot = boots
                      \/ h[1] = "answer" /\ answer[c] # None}
           waiting == {n \in 1..Len(queue) : queue[n].client = c /\ queue[n].boot = boots}
           served == {t \in Services : job[t] # None /\ job[t].client = c /\ job[t].boot = boots}
<1>1. Holders(c) = ends \cup {<<"queue", i>> : i \in waiting} \cup {<<"service", s>> : s \in served}
  BY DEF Holders
<1>2. \A i \in 1..Len(queue) : queue[i] # None BY NothingElse DEF TypeOK
<1>3. /\ InSocket(c) => <<"socket", 0>> \in ends
      /\ InPoller(c) => <<"poller", 0>> \in ends
      /\ Answered(c) => <<"answer", 0>> \in ends
  OBVIOUS
<1>4. /\ \A i \in 1..Len(queue) : InQueue(c, i) <=> i \in waiting
      /\ \A s \in Services : InService(c, s) <=> s \in served
  BY <1>2
<1>5. ASSUME NEW h \in ends
      PROVE  \/ h = <<"socket", 0>> /\ InSocket(c)
             \/ h = <<"poller", 0>> /\ InPoller(c)
             \/ h = <<"answer", 0>> /\ Answered(c)
  OBVIOUS
<1>6. waiting \subseteq 1..Len(queue) /\ served \subseteq Services OBVIOUS
<1> HIDE DEF ends, waiting, served, InSocket, InPoller, InQueue, InService, Answered, Mine
<1> QED BY <1>1, <1>3, <1>4, <1>5, <1>6

(* The message a client waits on is in exactly one place, and no other     *)
(* client has one under way: none is lost and none is doubled.             *)
THEOREM OneMessageOnePlace == Spec => []OnePlace
<1>1. QueueInv => OnePlace
  <2> SUFFICES ASSUME QueueInv, up, NEW c \in Clients
               PROVE  /\ cpc[c] = "await" => \E h \in Holders(c) : Holders(c) = {h}
                      /\ cpc[c] \in {"start", "ready"} => Holders(c) = {}
    BY DEF OnePlace
  <2> TypeOK /\ Placed(c) BY DEF QueueInv, UnderWay
  <2>1. CASE cpc[c] = "await"
    <3>1. Apart(c) /\ ~Nowhere(c) BY <2>1 DEF Placed
    <3>2. CASE InSocket(c)
      <4>1. \A h \in Holders(c) : h = <<"socket", 0>> BY <3>1, <3>2, HoldersAre DEF Apart
      <4> QED BY <2>1, <3>2, <4>1, HoldersAre
    <3>3. CASE InPoller(c)
      <4>1. \A h \in Holders(c) : h = <<"poller", 0>> BY <3>1, <3>3, HoldersAre DEF Apart
      <4> QED BY <2>1, <3>3, <4>1, HoldersAre
    <3>4. CASE Answered(c)
      <4>1. \A h \in Holders(c) : h = <<"answer", 0>> BY <3>1, <3>4, HoldersAre DEF Apart
      <4> QED BY <2>1, <3>4, <4>1, HoldersAre
    <3>5. ASSUME NEW i \in 1..Len(queue), InQueue(c, i)
          PROVE  \E h \in Holders(c) : Holders(c) = {h}
      <4>1. \A h \in Holders(c) : h = <<"queue", i>> BY <3>1, <3>5, HoldersAre DEF Apart
      <4> QED BY <3>5, <4>1, HoldersAre
    <3>6. ASSUME NEW s \in Services, InService(c, s)
          PROVE  \E h \in Holders(c) : Holders(c) = {h}
      <4>1. \A h \in Holders(c) : h = <<"service", s>> BY <3>1, <3>6, HoldersAre DEF Apart
      <4> QED BY <3>6, <4>1, HoldersAre
    <3> QED BY <2>1, <3>1, <3>2, <3>3, <3>4, <3>5, <3>6 DEF Nowhere
  <2>2. CASE cpc[c] \in {"start", "ready"}
    <3>1. Nowhere(c) BY <2>2 DEF Placed
    <3>2. \A h \in Holders(c) : FALSE BY <3>1, HoldersAre DEF Nowhere
    <3> QED BY <2>2, <3>2
  <2> QED BY <2>1, <2>2
<1> QED BY <1>1, QueueInvariant, PTL

(* The server that is not stopped any more ends only when a client was     *)
(* killed, its descriptors are used up, or it took a request that an       *)
(* earlier process had left in the queue.                                  *)
THEOREM ServerEndsForACause == Spec => DownHasACause
<1>1. ASSUME QueueInv, [Next]_vars, up, ~up', boots = MaxBoots
      PROVE  kills > 0 \/ fds = FdLimit \/ Leftover
  <2> TypeOK /\ UnderWay /\ SlotsAreKept /\ Connected BY <1>1 DEF QueueInv
  <2>1. kills \in Nat BY DEF TypeOK
  <2>2. \/ ServerKilled \/ PollerAcceptFails \/ PollerReadFails
        \/ \E s \in Services : ServiceReplyFails(s) \/ ServiceFaults(s)
    BY <1>1 DEF Next, Poller, Service, Client, User, PollerAccept, PollerLooks, PollerReturns,
       PollerReads, PollerSkips, PollerMeetsEnd, PollerSends, PollerSpins, Restart,
       ServiceReceives, ServiceReplies, ClientConnects, ClientRefused, ClientAsks, ClientTakes,
       ClientQuits, ClientKilled, ClientCutOff
  <2>3. ~ServerKilled BY <1>1, NothingElse DEF ServerKilled, TypeOK
  <2>4. PollerAcceptFails => fds = FdLimit BY DEF PollerAcceptFails
  <2>5. PollerReadFails => kills > 0
    BY Entry DEF PollerReadFails, Connected
  <2>6. ASSUME NEW s \in Services, ServiceReplyFails(s) PROVE kills > 0
    <3>1. /\ job[s] \in Request /\ job[s] # None /\ job[s].boot = boots
          /\ cpc[job[s].client] = "gone"
      BY <2>6, NothingElse DEF ServiceReplyFails, TypeOK
    <3>2. job[s].client \in Clients /\ InService(job[s].client, s)
      BY <3>1 DEF Request, InService, Mine
    <3>3. kills # 0
      BY <1>1, <3>1, <3>2 DEF UnderWay, Placed, Nowhere
    <3> QED BY <2>1, <3>3
  <2>7. ASSUME NEW s \in Services, ServiceFaults(s) PROVE Leftover
    <3>1. job[s] # None /\ job[s].boot # boots BY <2>7, NothingElse DEF ServiceFaults, TypeOK
    <3> QED BY <3>1 DEF Leftover
  <2> QED BY <2>2, <2>3, <2>4, <2>5, <2>6, <2>7
<1>2. QueueInv /\ [Next]_vars => [up /\ ~up' /\ boots = MaxBoots => kills > 0 \/ fds = FdLimit \/ Leftover]_vars
  BY <1>1
<1> QED BY <1>2, QueueInvariant, PTL DEF Spec, DownHasACause
-----------------------------------------------------------------------------
(* Refinement of the echo service.                                         *)

LEMMA EchoInitially == Init => Echo!EchoInit
  BY DEF Init, Echo!EchoInit

(* Every step is one of the echo service or leaves it as it is. *)
LEMMA EchoStep ==
  ASSUME QueueInv, [Next]_vars
  PROVE  [Echo!EchoNext]_Echo!echoVars
<1> TypeOK /\ UnderWay /\ Said /\ Connected BY DEF QueueInv
<1> USE NothingElse DEF Echo!EchoNext, Echo!echoVars
<1>1. ASSUME NEW s \in Services, ServiceReplies(s)
      PROVE  Echo!EchoNext \/ UNCHANGED <<asked, answer>>
  <2>1. PICK c : c = job[s].client OBVIOUS
  <2>2. /\ c \in Clients /\ InService(c, s)
        /\ answer'[c] = IF cpc[c] = "gone" THEN None ELSE Prefixed(job[s].message)
        /\ \A d \in Clients : d # c => answer'[d] = answer[d]
        /\ UNCHANGED asked
    BY <1>1, <2>1, MoveReplies
  <2>3. answer' = [answer EXCEPT ![c] = answer'[c]]
    BY <1>1, <2>1 DEF ServiceReplies, TypeOK
  <2>4. up BY <1>1 DEF ServiceReplies
  <2>5. CASE cpc[c] = "gone"
    <3>1. answer[c] = None BY <2>2, <2>5 DEF Connected, Answered
    <3>2. answer' = answer BY <2>2, <2>3, <2>5, <3>1 DEF TypeOK
    <3> QED BY <2>2, <3>2
  <2>6. CASE cpc[c] # "gone"
    <3>1. cpc[c] = "await" /\ Apart(c)
      BY <2>2, <2>4, <2>6 DEF UnderWay, Placed, Nowhere, TypeOK
    <3>2. answer[c] = None BY <2>2, <3>1 DEF Apart, Answered
    <3>3. asked[c] # None /\ job[s].message = asked[c] BY <2>2, <3>1 DEF Said
    <3>4. Echo!Answer(c)
      BY <2>2, <2>3, <2>6, <3>2, <3>3 DEF Echo!Answer, Echo!Prefixed, Prefixed
    <3> QED BY <2>2, <3>4
  <2> QED BY <2>5, <2>6
<1>2. ASSUME NEW c \in Clients, ClientAsks(c) PROVE Echo!EchoNext
  <2>1. asked[c] = None /\ UNCHANGED answer
    BY <1>2 DEF ClientAsks, Said
  <2>2. PICK m \in Messages : asked' = [asked EXCEPT ![c] = m]
    BY <1>2 DEF ClientAsks
  <2> QED BY <2>1, <2>2 DEF Echo!Ask
<1>3. ASSUME NEW c \in Clients, ClientTakes(c) PROVE Echo!EchoNext
  BY <1>3 DEF ClientTakes, Echo!Take
<1>4. ASSUME NEW c \in Clients, ClientKilled(c) PROVE Echo!EchoNext
  <2>1. Echo!Abandon({c})
    BY <1>4 DEF ClientKilled, Echo!Abandon, TypeOK
  <2>2. {c} \in SUBSET Clients OBVIOUS
  <2> QED BY <2>1, <2>2
<1>5. ASSUME NEW q \in {queue, <<>>}, Down(q) PROVE Echo!EchoNext
  <2>1. Echo!Abandon(Clients)
    BY <1>5 DEF Down, Echo!Abandon
  <2>2. Clients \in SUBSET Clients OBVIOUS
  <2> QED BY <2>1, <2>2
<1>6. CASE UNCHANGED <<asked, answer>>
  BY <1>6
<1>7. CASE PollerMeetsEnd BY <1>6, <1>7, EndIsSilence
<1> QED
  BY <1>1, <1>2, <1>3, <1>4, <1>5, <1>6, <1>7, StepCases
     DEF PollerAccept, PollerLooks, PollerReturns, PollerReads, PollerSkips, PollerSends,
         PollerSpins, Restart, ServiceReceives, ClientConnects, ClientRefused, ClientQuits,
         ClientCutOff

(* Refinement: whatever is restarted and killed, a client gets the answer  *)
(* to what it asked, once, and only after it asked.                        *)
THEOREM QueueIsEchoService == Spec => EchoRefinement
  BY EchoInitially, EchoStep, QueueInvariant, PTL DEF Spec, EchoRefinement, Echo!EchoSpec
-----------------------------------------------------------------------------
(* The conversations.                                                      *)

(* A connection that is not there, or not any more, has nothing in it; the *)
(* server has no message of a client that has not connected; and it spins  *)
(* because of a length without a text.                                     *)
Closed ==
  /\ \A c \in Clients : conn[c] = "none" => cpc[c] \in {"start", "gone"} /\ request[c] = None
  /\ \A c \in Clients : cpc[c] = "start" => Requests(c) = {}
  /\ ~up => \A c \in Clients : conn[c] = "none"
  /\ ppc = "spin" => request[clients[idx]] = Half

LEMMA ClosedInit == Init => Closed
  BY DEF Init, Closed, Requests

(* The requests a client has in the server, as one set. *)
LEMMA RequestsAre ==
  ASSUME TypeOK, NEW c \in Clients
  PROVE  \A r : r \in Requests(c) <=>
           /\ Mine(r, c)
           /\ \/ r = taken
              \/ \E i \in 1..Len(queue) : r = queue[i]
              \/ \E s \in Services : r = job[s]
<1>1. DOMAIN queue = 1..Len(queue) BY DEF TypeOK
<1> QED BY <1>1 DEF Requests, Mine

(* A step that moves no request leaves them.                               *)
LEMMA SameRequests ==
  ASSUME NEW c \in Clients, UNCHANGED <<boots, taken, queue, job>>
  PROVE  Requests(c)' = Requests(c)
  BY DEF Requests

(* Neither does one that moves a request through the queue.                *)
LEMMA MovedRequests ==
  ASSUME QueueInv, QueueInv', NEW c \in Clients,
         PollerSends \/ \E s \in Services : ServiceReceives(s)
  PROVE  Requests(c)' = Requests(c)
<1> TypeOK BY DEF QueueInv
<1> TypeOK' BY DEF QueueInv
<1> USE NothingElse
<1>0. boots' = boots
  BY DEF PollerSends, ServiceReceives
<1>1. /\ Requests(c) = {r \in {taken} \cup {queue[i] : i \in 1..Len(queue)} \cup {job[s] : s \in Services} :
                         Mine(r, c)}
      /\ Requests(c)' = {r \in {taken'} \cup {queue'[i] : i \in 1..Len(queue')}
                                      \cup {job'[s] : s \in Services} : Mine(r, c)}
  <2>1. DOMAIN queue = 1..Len(queue) /\ DOMAIN queue' = 1..Len(queue') BY DEF TypeOK
  <2> QED BY <1>0, <2>1 DEF Requests, Mine
<1>2. ~Mine(None, c) BY DEF Mine
<1>3. CASE PollerSends
  <2>1. /\ taken' = None /\ job' = job /\ queue \in Seq(Request) /\ taken \in Request
        /\ queue' = Append(queue, taken) /\ Len(queue) \in Nat
    BY <1>3 DEF PollerSends, TypeOK
  <2>2. /\ queue'[Len(queue) + 1] = taken /\ Len(queue) + 1 \in 1..Len(queue')
        /\ \A i \in 1..Len(queue) : queue'[i] = queue[i] /\ i \in 1..Len(queue')
        /\ \A i \in 1..Len(queue') : i \in 1..Len(queue) \/ i = Len(queue) + 1
    BY <2>1, AtEnd
  <2>3. {queue'[i] : i \in 1..Len(queue')} = {queue[i] : i \in 1..Len(queue)} \cup {taken}
    <3>1. \A i \in 1..Len(queue') : queue'[i] = taken \/ \E j \in 1..Len(queue) : queue'[i] = queue[j]
      BY <2>2
    <3>2. \A i \in 1..Len(queue) : \E j \in 1..Len(queue') : queue[i] = queue'[j]
      BY <2>2
    <3>3. \E j \in 1..Len(queue') : taken = queue'[j]
      BY <2>2
    <3>4. ASSUME NEW x \in {queue'[i] : i \in 1..Len(queue')}
          PROVE  x \in {queue[i] : i \in 1..Len(queue)} \cup {taken}
      BY <3>1
    <3>5. ASSUME NEW x \in {queue[i] : i \in 1..Len(queue)} \cup {taken}
          PROVE  x \in {queue'[i] : i \in 1..Len(queue')}
      BY <3>2, <3>3
    <3> QED BY <3>4, <3>5
  <2> QED BY <1>1, <1>2, <2>1, <2>3
<1>4. ASSUME NEW s \in Services, ServiceReceives(s) PROVE Requests(c)' = Requests(c)
  <2>1. /\ queue # <<>> /\ queue \in Seq(Request) /\ job[s] = None
        /\ queue' = Tail(queue) /\ taken' = taken /\ Len(queue) \in Nat
        /\ \A t \in Services : job'[t] = IF t = s THEN Head(queue) ELSE job[t]
    BY <1>4 DEF ServiceReceives, TypeOK
  <2>2. /\ Head(queue) = queue[1] /\ 1 \in 1..Len(queue) /\ Len(queue') = Len(queue) - 1
        /\ \A i \in 1..Len(queue') : i + 1 \in 1..Len(queue) /\ queue'[i] = queue[i + 1]
    BY <2>1, HeadTail
  <2>3. \A i \in 1..Len(queue) : i = 1 \/ (i - 1 \in 1..Len(queue') /\ (i - 1) + 1 = i)
    BY <2>1, <2>2
  <2>4. {queue[i] : i \in 1..Len(queue)} = {queue'[i] : i \in 1..Len(queue')} \cup {queue[1]}
    <3>1. \A i \in 1..Len(queue) : queue[i] = queue[1] \/ \E j \in 1..Len(queue') : queue[i] = queue'[j]
      BY <2>2, <2>3
    <3>2. \A i \in 1..Len(queue') : \E j \in 1..Len(queue) : queue'[i] = queue[j]
      BY <2>2
    <3>3. \E j \in 1..Len(queue) : queue[1] = queue[j] BY <2>2
    <3>4. ASSUME NEW x \in {queue[i] : i \in 1..Len(queue)}
          PROVE  x \in {queue'[i] : i \in 1..Len(queue')} \cup {queue[1]}
      BY <3>1
    <3>5. ASSUME NEW x \in {queue'[i] : i \in 1..Len(queue')} \cup {queue[1]}
          PROVE  x \in {queue[i] : i \in 1..Len(queue)}
      BY <3>2, <3>3
    <3> QED BY <3>4, <3>5
  <2>5. {job'[t] : t \in Services} \cup {None} = {job[t] : t \in Services} \cup {None, queue[1]}
    <3>1. \A t \in Services \ {s} : job'[t] = job[t] BY <2>1
    <3>2. job'[s] = queue[1] /\ job[s] = None BY <2>1, <2>2
    <3>3. ASSUME NEW t \in Services
          PROVE  /\ job'[t] \in {job[u] : u \in Services} \cup {None, queue[1]}
                 /\ job[t] \in {job'[u] : u \in Services} \cup {None}
      BY <3>1, <3>2
    <3>4. queue[1] \in {job'[u] : u \in Services} BY <3>2
    <3>5. ASSUME NEW x \in {job'[t] : t \in Services} \cup {None}
          PROVE  x \in {job[t] : t \in Services} \cup {None, queue[1]}
      BY <3>3
    <3>6. ASSUME NEW x \in {job[t] : t \in Services} \cup {None, queue[1]}
          PROVE  x \in {job'[t] : t \in Services} \cup {None}
      BY <3>3, <3>4
    <3> QED BY <3>5, <3>6
  <2> DEFINE Q == {queue[i] : i \in 1..Len(queue)}
             R == {queue'[i] : i \in 1..Len(queue')}
             J == {job[t] : t \in Services}
             K == {job'[t] : t \in Services}
  <2>6. /\ Q = R \cup {queue[1]} /\ K \cup {None} = J \cup {None, queue[1]}
        /\ Requests(c) = {r \in {taken} \cup Q \cup J : Mine(r, c)}
        /\ Requests(c)' = {r \in {taken} \cup R \cup K : Mine(r, c)}
    BY <1>1, <2>1, <2>4, <2>5
  <2> HIDE DEF Q, R, J, K
  <2>7. \A r : r # None => (r \in {taken} \cup R \cup K <=> r \in {taken} \cup Q \cup J)
    BY <2>6
  <2> QED BY <1>2, <2>6, <2>7
<1> QED BY <1>3, <1>4

LEMMA RequestsNext ==
  ASSUME TypeOK', boots' = boots, NEW c \in Clients
  PROVE  \A r : r \in Requests(c)' <=>
           /\ Mine(r, c)
           /\ \/ r = taken'
              \/ \E i \in 1..Len(queue') : r = queue'[i]
              \/ \E s \in Services : r = job'[s]
<1>1. DOMAIN queue' = 1..Len(queue') BY DEF TypeOK
<1> QED BY <1>1 DEF Requests, Mine

(* The poller takes a request of its own only.                             *)
LEMMA ReadRequests ==
  ASSUME QueueInv, QueueInv', PollerReads, NEW c, c = clients[idx]
  PROVE  /\ Requests(c) = {} /\ Requests(c)' = {taken'}
         /\ \A d \in Clients : d # c => Requests(d)' = Requests(d)
<1> TypeOK BY DEF QueueInv
<1> TypeOK' BY DEF QueueInv
<1>1. /\ c \in Clients /\ InSocket(c)
      /\ \A d \in Clients : ~InPoller(d) /\ (d # c => ~Mine(taken', d))
      /\ Mine(taken', c) /\ UNCHANGED <<up, boots, queue, job>> /\ up
  BY MoveReads DEF InPoller, Mine, PollerReads
<1>2. /\ \A i \in 1..Len(queue) : ~Mine(queue[i], c)
      /\ \A s \in Services : ~Mine(job[s], c)
  BY <1>1 DEF QueueInv, UnderWay, Placed, Apart, InQueue, InService
<1>3. \A d \in Clients : ~Mine(taken, d)
  BY <1>1 DEF InPoller
<1>4. \A r : r \notin Requests(c)
  BY <1>1, <1>2, <1>3, RequestsAre
<1>5. \A r : r \in Requests(c)' <=> r = taken'
  <2>1. \A r : r \in Requests(c)' <=>
           /\ Mine(r, c)
           /\ \/ r = taken'
              \/ \E i \in 1..Len(queue) : r = queue[i]
              \/ \E s \in Services : r = job[s]
    BY <1>1, RequestsNext
  <2> QED BY <1>1, <1>2, <2>1
<1>6. ASSUME NEW d \in Clients, d # c PROVE Requests(d)' = Requests(d)
  <2>1. \A r : r \in Requests(d)' <=>
           /\ Mine(r, d)
           /\ \/ r = taken'
              \/ \E i \in 1..Len(queue) : r = queue[i]
              \/ \E s \in Services : r = job[s]
    BY <1>1, RequestsNext
  <2>2. \A r : r \in Requests(d) <=>
           /\ Mine(r, d)
           /\ \/ r = taken
              \/ \E i \in 1..Len(queue) : r = queue[i]
              \/ \E s \in Services : r = job[s]
    BY RequestsAre
  <2>3. ~Mine(taken', d) /\ ~Mine(taken, d)
    BY <1>1, <1>3, <1>6
  <2>4. \A r : r \in Requests(d)' <=> r \in Requests(d)
    BY <2>1, <2>2, <2>3
  <2> QED BY <2>4
<1> QED BY <1>4, <1>5, <1>6

(* A service answers the only request of its client. *)
LEMMA RepliedRequests ==
  ASSUME QueueInv, QueueInv', NEW s \in Services, ServiceReplies(s), NEW c, c = job[s].client
  PROVE  /\ c \in Clients /\ Requests(c) = {job[s]} /\ Requests(c)' = {}
         /\ \A d \in Clients : d # c => Requests(d)' = Requests(d)
<1> TypeOK BY DEF QueueInv
<1> TypeOK' BY DEF QueueInv
<1>1. /\ c \in Clients /\ InService(c, s) /\ \A d \in Clients : d # c => ~Mine(job[s], d)
      /\ UNCHANGED <<boots, taken, queue>> /\ up
  <2>1. /\ c \in Clients /\ InService(c, s) /\ \A d \in Clients : d # c => ~InService(d, s)
        /\ UNCHANGED <<boots, taken, queue>>
    BY MoveReplies
  <2>2. up BY DEF ServiceReplies
  <2> QED BY <2>1, <2>2 DEF InService
<1>2. job'[s] = None /\ \A t \in Services : t # s => job'[t] = job[t]
  BY DEF ServiceReplies, TypeOK
<1>3. \A d : ~Mine(None, d) BY DEF Mine
<1>4. /\ ~Mine(taken, c) /\ \A i \in 1..Len(queue) : ~Mine(queue[i], c)
      /\ Mine(job[s], c) /\ \A t \in Services : Mine(job[t], c) => t = s
  BY <1>1 DEF QueueInv, UnderWay, Placed, Apart, InQueue, InService, InPoller
<1>5. \A r : r \in Requests(c) <=> r = job[s]
  BY <1>1, <1>4, RequestsAre
<1>6. \A d \in Clients : \A r : r \in Requests(d)' <=>
           /\ Mine(r, d)
           /\ \/ r = taken
              \/ \E i \in 1..Len(queue) : r = queue[i]
              \/ \E t \in Services : r = job'[t]
  BY <1>1, RequestsNext
<1>7. \A r : r \notin Requests(c)'
  BY <1>1, <1>2, <1>3, <1>4, <1>6
<1>8. ASSUME NEW d \in Clients, d # c PROVE Requests(d)' = Requests(d)
  <2>1. ASSUME NEW r, Mine(r, d)
        PROVE  (\E t \in Services : r = job'[t]) <=> \E t \in Services : r = job[t]
    <3>1. r # job[s] /\ r # job'[s]
      BY <1>1, <1>2, <1>3, <1>8, <2>1
    <3>2. ASSUME NEW t \in Services, r = job[t] PROVE \E u \in Services : r = job'[u]
      BY <1>2, <3>1, <3>2
    <3>3. ASSUME NEW t \in Services, r = job'[t] PROVE \E u \in Services : r = job[u]
      BY <1>2, <3>1, <3>3
    <3> QED BY <3>2, <3>3
  <2>2. \A r : r \in Requests(d)' <=> r \in Requests(d)
    BY <1>6, <2>1, RequestsAre
  <2> QED BY <2>2
<1> QED BY <1>1, <1>5, <1>7, <1>8

(* A process that has just started works on none of its own requests.      *)
LEMMA FreshRequests ==
  ASSUME QueueInv, Restart, NEW c \in Clients
  PROVE  Requests(c)' = {}
<1> TypeOK /\ Dated BY DEF QueueInv
<1>1. boots' = boots + 1 /\ boots \in Nat /\ UNCHANGED <<taken, queue, job>>
  BY DEF Restart, TypeOK
<1>2. \A i \in DOMAIN queue : queue[i].boot \in Nat /\ queue[i].boot <= boots
  <2>1. DOMAIN queue = 1..Len(queue) /\ \A i \in 1..Len(queue) : queue[i] \in Request
    BY DEF TypeOK
  <2> QED BY <2>1 DEF Dated, Request
<1>3. \A s \in Services : job[s] # None => job[s].boot \in Nat /\ job[s].boot <= boots
  <2>1. \A s \in Services : job[s] # None => job[s] \in Request BY DEF TypeOK
  <2> QED BY <2>1 DEF Dated, Request
<1>4. taken # None => taken.boot = boots BY DEF Dated
<1>5. ASSUME NEW r \in Requests(c)' PROVE FALSE
  <2>1. r # None /\ r.boot = boots + 1 BY <1>1, <1>5 DEF Requests
  <2>2. \/ r = taken
        \/ \E i \in DOMAIN queue : r = queue[i]
        \/ \E s \in Services : r = job[s]
    BY <1>1, <1>5 DEF Requests
  <2>3. r.boot \in Nat /\ r.boot <= boots
    <3>1. CASE r = taken BY <1>1, <1>4, <2>1, <3>1
    <3>2. CASE \E i \in DOMAIN queue : r = queue[i] BY <1>2, <3>2
    <3>3. CASE \E s \in Services : r = job[s] BY <1>3, <2>1, <3>3
    <3> QED BY <2>2, <3>1, <3>2, <3>3
  <2> QED BY <1>1, <2>1, <2>3
<1> QED BY <1>5

(* The end of the process may leave requests, and adds none.               *)
LEMMA DownRequests ==
  ASSUME TypeOK, NEW q \in {queue, <<>>}, Down(q), NEW c \in Clients
  PROVE  Requests(c)' \subseteq Requests(c)
<1>1. taken' = None /\ (\A s \in Services : job'[s] = None) /\ boots' = boots /\ queue' = q
  BY DEF Down
<1>2. CASE q = queue
  BY <1>1, <1>2 DEF Requests
<1>3. CASE q = <<>>
  <2>1. DOMAIN queue' = {} BY <1>1, <1>3
  <2> QED BY <1>1, <2>1 DEF Requests
<1> QED BY <1>2, <1>3

LEMMA ClosedStep ==
  ASSUME QueueInv, QueueInv', Closed, [Next]_vars
  PROVE  Closed'
<1> TypeOK /\ Connected /\ SlotsAreKept BY DEF QueueInv
<1> TypeOK' BY DEF QueueInv
<1> USE NothingElse
<1>1. ASSUME NEW q \in {queue, <<>>}, up, Down(q) PROVE Closed'
  <2>1. /\ ppc' = "accept"
        /\ \A c \in Clients : /\ conn'[c] = "none" /\ request'[c] = None
                              /\ cpc'[c] = IF cpc[c] = "start" THEN "start" ELSE "gone"
    BY <1>1 DEF Down
  <2>2. \A c \in Clients : Requests(c)' \subseteq Requests(c)
    BY <1>1, DownRequests
  <2> QED BY <2>1, <2>2 DEF Closed
<1>2. CASE PollerAccept
  <2>1. lq # <<>> /\ conn' = [conn EXCEPT ![Head(lq)] = "open"]
        /\ UNCHANGED <<up, boots, taken, queue, job, cpc, request, ppc>> /\ ppc = "accept" /\ up
    BY <1>2 DEF PollerAccept
  <2>2. \A c \in Clients : conn'[c] = "none" => conn[c] = "none"
    BY <2>1 DEF TypeOK
  <2>3. \A c \in Clients : Requests(c)' = Requests(c)
    BY <2>1, SameRequests
  <2> QED BY <2>1, <2>2, <2>3 DEF Closed
<1>3. CASE PollerReads
  <2>1. PICK c \in Clients : c = clients[idx]
    BY <1>3, Entry DEF PollerReads
  <2>2. conn[c] # "none" /\ cpc[c] # "start"
    BY <1>3, <2>1, Entry DEF PollerReads, SlotsAreKept, Connected
  <2>3. /\ \A d \in Clients : d # c => Requests(d)' = Requests(d) /\ request'[d] = request[d]
        /\ UNCHANGED <<up, cpc, conn>> /\ ppc' = "send" /\ up
    BY <1>3, <2>1, ReadRequests DEF PollerReads, TypeOK
  <2> QED BY <2>2, <2>3 DEF Closed
<1>4. CASE PollerSends \/ \E s \in Services : ServiceReceives(s)
  <2>1. \A c \in Clients : Requests(c)' = Requests(c)
    BY <1>4, MovedRequests
  <2>2. /\ UNCHANGED <<up, cpc, conn, request, clients>>
        /\ ppc' # "spin" \/ UNCHANGED <<ppc, idx>>
    BY <1>4 DEF PollerSends, ServiceReceives
  <2> QED BY <2>1, <2>2 DEF Closed
<1>5. ASSUME NEW s \in Services, ServiceReplies(s) PROVE Closed'
  <2>1. \A c \in Clients : Requests(c)' \subseteq Requests(c)
    <3>1. PICK c : c = job[s].client OBVIOUS
    <3> QED BY <1>5, <3>1, RepliedRequests
  <2>2. UNCHANGED <<up, cpc, conn, request, clients, ppc, idx>>
    BY <1>5 DEF ServiceReplies
  <2> QED BY <2>1, <2>2 DEF Closed
<1>6. CASE Restart
  <2>1. /\ \A c \in Clients : Requests(c)' = {}
        /\ UNCHANGED <<cpc, conn, request, clients, ppc, idx>> /\ up'
    BY <1>6, FreshRequests DEF Restart
  <2> QED BY <2>1 DEF Closed
<1>7. ASSUME NEW c \in Clients,
             \/ ClientConnects(c) \/ ClientRefused(c) \/ ClientAsks(c) \/ ClientTakes(c)
             \/ ClientQuits(c) \/ ClientKilled(c) \/ ClientCutOff(c)
      PROVE  Closed'
  <2>1. UNCHANGED <<up, boots, taken, queue, job, clients, ppc, idx>>
    BY <1>7 DEF ClientConnects, ClientRefused, ClientAsks, ClientTakes, ClientQuits,
       ClientKilled, ClientCutOff
  <2>2. \A d \in Clients : d # c => cpc'[d] = cpc[d] /\ conn'[d] = conn[d] /\ request'[d] = request[d]
    BY <1>7 DEF ClientConnects, ClientRefused, ClientAsks, ClientTakes, ClientQuits,
       ClientKilled, ClientCutOff, TypeOK
  <2>3. /\ conn'[c] = "none" => cpc'[c] = "gone" /\ request'[c] = None /\ conn[c] = "none"
        /\ cpc'[c] # "start"
        /\ request[c] = Half => request'[c] = Half
    <3>1. CASE cpc[c] = "start"
      <4>1. conn[c] = "none" /\ request[c] = None BY <3>1 DEF Connected, Closed
      <4> QED
        BY <1>7, <3>1, <4>1 DEF ClientConnects, ClientRefused, ClientAsks, ClientTakes,
           ClientQuits, ClientKilled, ClientCutOff, TypeOK
    <3>2. CASE cpc[c] # "start"
      <4>1. conn[c] # "none"
        BY <1>7, <3>2 DEF Closed, ClientConnects, ClientRefused, ClientAsks, ClientTakes,
           ClientQuits, ClientKilled, ClientCutOff
      <4>2. /\ conn'[c] \in {conn[c], "reset"} /\ cpc'[c] # "start"
            /\ request'[c] = request[c] \/ request'[c] = Half \/ ClientAsks(c)
        BY <1>7, <3>2 DEF ClientConnects, ClientRefused, ClientAsks, ClientTakes,
           ClientQuits, ClientKilled, ClientCutOff, TypeOK
      <4>3. ClientAsks(c) => request[c] = None
        <5>1. SUFFICES ASSUME ClientAsks(c) PROVE request[c] = None OBVIOUS
        <5>2. cpc[c] = "ready" BY <5>1 DEF ClientAsks
        <5>3. up BY <5>2 DEF QueueInv, Stopped
        <5> QED BY <5>2, <5>3 DEF QueueInv, UnderWay, Placed, Nowhere, InSocket
      <4> QED BY <4>1, <4>2, <4>3
    <3> QED BY <3>1, <3>2
  <2>4. \A d \in Clients : Requests(d)' = Requests(d)
    BY <2>1, SameRequests
  <2>5. ~up => \A d \in Clients : conn'[d] = "none"
    <3>1. SUFFICES ASSUME ~up PROVE conn'[c] = "none" BY <2>2 DEF Closed
    <3>2. conn[c] = "none" BY <3>1 DEF Closed
    <3>3. cpc[c] \in {"start", "gone"} BY <3>1 DEF QueueInv, Stopped
    <3> QED BY <1>7, <3>1, <3>2, <3>3 DEF ClientConnects, ClientRefused, ClientAsks, ClientTakes,
           ClientQuits, ClientKilled, ClientCutOff
  <2>6. ppc = "spin" => clients[idx] \in Clients
    BY Entry DEF TypeOK
  <2>7. ppc = "spin" => request'[clients[idx]] = Half
    BY <2>2, <2>3, <2>6 DEF Closed
  <2> QED BY <2>1, <2>2, <2>3, <2>4, <2>5, <2>7 DEF Closed
<1>8. CASE PollerSpins
  <2>1. /\ ppc' = "spin" /\ request'[clients'[idx']] = Half
        /\ UNCHANGED <<up, boots, taken, queue, job, cpc, conn, request>>
    BY <1>8 DEF PollerSpins
  <2> QED BY <2>1, SameRequests DEF Closed
<1>9. CASE /\ UNCHANGED <<up, boots, taken, queue, job, cpc, conn, request, clients>>
           /\ ppc' # "spin" \/ UNCHANGED <<ppc, idx>>
  BY <1>9, SameRequests DEF Closed
<1>10. CASE PollerMeetsEnd
  <2>1. ppc' = "check" /\ UNCHANGED <<up, boots, taken, queue, job, cpc, conn, request, clients>>
    BY <1>10, EndIsSilence DEF PollerMeetsEnd
  <2> QED BY <1>9, <2>1
<1> QED
  BY <1>1, <1>2, <1>3, <1>4, <1>5, <1>6, <1>7, <1>8, <1>9, <1>10, StepCases
     DEF PollerLooks, PollerReturns, PollerSkips

LEMMA ClosedInvariant == Spec => [](QueueInv /\ Closed)
  BY QueueInit, QueueStep, ClosedInit, ClosedStep, PTL DEF Spec
-----------------------------------------------------------------------------
LEMMA ConversationsInit == ASSUME Init, NEW c \in Clients PROVE Conv(c)!Init
<1>1. Requests(c) = {} BY DEF Init, Requests
<1> QED BY <1>1 DEF Init, Conv!Init, ClientIs, ThreadIs, Held, End, Over

(* How Conversation sees client c. *)
Sees(c, client, thread, held, end) ==
  ClientIs(c) = client /\ ThreadIs(c) = thread /\ Held(c) = held /\ End(c) = end

(* What a step leaves of a client and of what the server does for it, it   *)
(* leaves of their conversation.                                           *)
Stuck(c) == ppc = "spin" /\ clients[idx] = c

LEMMA Unseen ==
  ASSUME NEW c \in Clients, UNCHANGED <<cpc[c], request[c], asked[c], answer[c]>>,
         Over(c)' <=> Over(c), End(c)' = End(c),
         Over(c) \/ (Requests(c)' = Requests(c) /\ (Stuck(c)' <=> Stuck(c)))
  PROVE  UNCHANGED Conv(c)!vars
<1>1. CASE Over(c)
  BY <1>1 DEF Conv!vars, ClientIs, ThreadIs, Held
<1>2. CASE ~Over(c)
  <2>1. ~Over(c)' /\ Requests(c)' = Requests(c) /\ (Stuck(c)' <=> Stuck(c))
    BY <1>2
  <2>2. ThreadIs(c)' = ThreadIs(c)
    BY <1>2, <2>1 DEF ThreadIs, Stuck
  <2>3. Held(c)' = Held(c)
    BY <1>2, <2>1 DEF Held
  <2> QED BY <2>2, <2>3 DEF Conv!vars, ClientIs
<1> QED BY <1>1, <1>2

(* A length without a text is the only thing its client has under way.     *)
LEMMA StuckAlone ==
  ASSUME QueueInv, NEW c \in Clients, up, InSocket(c)
  PROVE  Requests(c) = {}
<1> TypeOK BY DEF QueueInv
<1>1. /\ ~Mine(taken, c) /\ \A i \in 1..Len(queue) : ~Mine(queue[i], c)
      /\ \A s \in Services : ~Mine(job[s], c)
  BY DEF QueueInv, UnderWay, Placed, Apart, InPoller, InQueue, InService
<1>2. \A r : r \notin Requests(c) BY <1>1, RequestsAre
<1> QED BY <1>2

(* The end of the process ends every conversation that has begun. *)
LEMMA DownSeen ==
  ASSUME QueueInv, Closed, NEW q \in {queue, <<>>}, up, Down(q), NEW c \in Clients
  PROVE  Conv(c)!ServerKilled \/ UNCHANGED Conv(c)!vars
<1> TypeOK /\ Connected /\ Said BY DEF QueueInv
<1> USE NothingElse
<1>1. /\ conn'[c] = "none" /\ request'[c] = None /\ asked'[c] = None /\ answer'[c] = None
      /\ cpc'[c] = IF cpc[c] = "start" THEN "start" ELSE "gone"
      /\ ppc' = "accept"
  BY DEF Down
<1>2. CASE cpc[c] = "start" \/ Over(c)
  <2>1. UNCHANGED <<cpc[c], conn[c], request[c]>>
    BY <1>1, <1>2 DEF Closed, Connected, Over
  <2>2. asked[c] = None /\ answer[c] = None
    BY <1>2 DEF Said, Connected, Answered, Over
  <2>3. cpc[c] = "start" => Requests(c) = {} /\ Requests(c)' = {} /\ ~Stuck(c) /\ ~Stuck(c)'
    BY <1>1, <2>1, DownRequests DEF Closed, Stuck
  <2> QED BY <1>1, <1>2, <2>1, <2>2, <2>3, Unseen DEF Over, End
<1>3. CASE cpc[c] # "start" /\ ~Over(c)
  <2>1. ThreadIs(c) # "done"
    BY <1>3 DEF ThreadIs
  <2>2. Over(c)' BY <1>1, <1>3 DEF Over
  <2>3. ClientIs(c)' = "gone" /\ ThreadIs(c)' = "done" /\ Held(c)' = None /\ End(c)' = "none"
    BY <1>1, <2>2, <1>3 DEF ClientIs, ThreadIs, Held, End
  <2> QED BY <1>1, <2>1, <2>3 DEF Conv!ServerKilled, Conv!Down
<1> QED BY <1>2, <1>3

(* check_user_messages reads from a client. *)
LEMMA ReadSeen ==
  ASSUME QueueInv, QueueInv', PollerReads, NEW c \in Clients
  PROVE  Conv(c)!Next \/ UNCHANGED Conv(c)!vars
<1> TypeOK BY DEF QueueInv
<1> USE NothingElse
<1>1. PICK h \in Clients : h = clients[idx]
  BY Entry DEF PollerReads
<1>2. /\ conn[h] \in {"open", "reset"} /\ cpc[h] # "start"
      /\ ppc = "check" /\ ppc' = "send" /\ UNCHANGED <<cpc, conn, asked, answer>>
  BY <1>1, Entry DEF PollerReads, QueueInv, SlotsAreKept, Connected
<1>3. CASE c = h
  <2>1. /\ request[c] \notin {Half, None} /\ request'[c] = None
        /\ taken'.message = request[c]
    BY <1>1, <1>3 DEF PollerReads, TypeOK
  <2>2. Requests(c) = {} /\ Requests(c)' = {taken'}
    BY <1>1, <1>3, ReadRequests
  <2>3. Sees(c, cpc[c], "recv", None, IF conn[c] = "reset" THEN "reset" ELSE "open")
    BY <1>2, <1>3, <2>2 DEF Sees, ClientIs, ThreadIs, Held, End, Over
  <2>4. (CHOOSE r \in Requests(c) : TRUE)' = taken'
    BY <2>2
  <2>5. Sees(c, cpc[c], "reply", taken.message, IF conn[c] = "reset" THEN "reset" ELSE "open")'
    <3>1. Held(c)' = taken'.message
      BY <1>2, <1>3, <2>2, <2>4 DEF Held, Over
    <3>2. ThreadIs(c)' = "reply"
      BY <1>2, <1>3, <2>2 DEF ThreadIs, Over
    <3> QED BY <1>2, <1>3, <2>1, <3>1, <3>2 DEF Sees, ClientIs, End, Over
  <2> QED BY <1>2, <2>1, <2>3, <2>5 DEF Sees, Conv!Next, Conv!Receives
<1>4. CASE c # h
  <2>1. Requests(c)' = Requests(c) /\ request'[c] = request[c]
    BY <1>1, <1>4, ReadRequests DEF PollerReads, TypeOK
  <2> QED BY <1>2, <2>1, Unseen DEF Over, End, Stuck
<1> QED BY <1>3, <1>4

(* A service replies to a client. *)
LEMMA ReplySeen ==
  ASSUME QueueInv, QueueInv', Closed, NEW s \in Services, ServiceReplies(s), NEW c \in Clients
  PROVE  Conv(c)!Next \/ UNCHANGED Conv(c)!vars
<1> TypeOK BY DEF QueueInv
<1> USE NothingElse
<1>1. PICK h : h = job[s].client OBVIOUS
<1>2. /\ h \in Clients /\ Requests(h) = {job[s]} /\ Requests(h)' = {}
      /\ \A d \in Clients : d # h => Requests(d)' = Requests(d)
  BY <1>1, RepliedRequests
<1>3. /\ UNCHANGED <<clients, ppc, idx, cpc, conn, request, asked>> /\ up
      /\ InService(h, s) /\ \A d \in Clients : d # h => answer'[d] = answer[d]
      /\ answer'[h] = IF cpc[h] = "gone" THEN None ELSE Prefixed(job[s].message)
  BY <1>1, MoveReplies DEF ServiceReplies
<1>4. conn[h] \in {"open", "reset"} /\ cpc[h] # "start"
  BY <1>2, <1>3 DEF QueueInv, Connected, InServer
<1>5. CASE c = h
  <2>1. ~Stuck(c)
    <3>1. Stuck(c) => InSocket(c) BY DEF Closed, Stuck, InSocket
    <3> QED BY <1>2, <1>3, <1>5, <3>1, StuckAlone
  <2>2. (CHOOSE r \in Requests(c) : TRUE) = job[s]
    BY <1>2, <1>5
  <2>3. Sees(c, cpc[c], "reply", job[s].message, IF conn[c] = "reset" THEN "reset" ELSE "open")
    <3>1. Held(c) = job[s].message
      BY <1>2, <1>4, <1>5, <2>2 DEF Held, Over
    <3>2. ThreadIs(c) = "reply"
      BY <1>2, <1>4, <1>5 DEF ThreadIs, Over
    <3> QED BY <1>4, <1>5, <3>1, <3>2 DEF Sees, ClientIs, End, Over
  <2>4. Sees(c, cpc[c], "recv", None, IF conn[c] = "reset" THEN "reset" ELSE "open")'
    <3>1. ~Stuck(c)' BY <1>3, <2>1 DEF Stuck
    <3> QED BY <1>2, <1>3, <1>4, <1>5, <3>1 DEF Sees, ClientIs, ThreadIs, Held, End, Over, Stuck
  <2>5. answer'[c] = IF cpc[c] = "gone" THEN None ELSE Conv(c)!Prefixed(job[s].message)
    BY <1>3, <1>5 DEF Prefixed, Conv!Prefixed
  <2> QED BY <1>3, <2>3, <2>4, <2>5 DEF Sees, Conv!Next, Conv!Replies
<1>6. CASE c # h
  BY <1>2, <1>3, <1>6, Unseen DEF Over, End, Stuck
<1> QED BY <1>5, <1>6

(* The poller meets a length without a text. *)
LEMMA SpinSeen ==
  ASSUME QueueInv, PollerSpins, NEW c \in Clients
  PROVE  Conv(c)!Next \/ UNCHANGED Conv(c)!vars
<1> TypeOK BY DEF QueueInv
<1> USE NothingElse
<1>1. PICK h \in Clients : h = clients[idx]
  BY Entry DEF PollerSpins
<1>2. /\ conn[h] \in {"open", "reset"} /\ cpc[h] # "start" /\ request[h] = Half /\ up
      /\ ppc = "check" /\ ppc' = "spin"
      /\ UNCHANGED <<boots, taken, queue, job, clients, idx, cpc, conn, request, asked, answer>>
  BY <1>1, Entry DEF PollerSpins, QueueInv, SlotsAreKept, Connected
<1>3. Requests(c)' = Requests(c)
  BY <1>2, SameRequests
<1>4. CASE c = h
  <2>1. Requests(c) = {}
    BY <1>2, <1>4, StuckAlone DEF InSocket
  <2>2. Sees(c, cpc[c], "recv", None, IF conn[c] = "reset" THEN "reset" ELSE "open")
    BY <1>2, <1>4, <2>1 DEF Sees, ClientIs, ThreadIs, Held, End, Over
  <2>3. Sees(c, cpc[c], "spin", None, IF conn[c] = "reset" THEN "reset" ELSE "open")'
    BY <1>1, <1>2, <1>3, <1>4, <2>1 DEF Sees, ClientIs, ThreadIs, Held, End, Over
  <2> QED BY <1>2, <1>4, <2>2, <2>3 DEF Sees, Conv!Next, Conv!Spins
<1>5. CASE c # h
  BY <1>1, <1>2, <1>3, <1>5, Unseen DEF Over, End, Stuck
<1> QED BY <1>4, <1>5

(* A step of a client program: one that is turned away is like one whose   *)
(* server goes down.                                                       *)
LEMMA ClientSeen ==
  ASSUME QueueInv, Closed, NEW c \in Clients,
         \/ ClientConnects(c) \/ ClientRefused(c) \/ ClientAsks(c) \/ ClientTakes(c)
         \/ ClientQuits(c) \/ ClientKilled(c) \/ ClientCutOff(c)
  PROVE  [Conv(c)!Next]_(Conv(c)!vars)
<1> TypeOK /\ Connected /\ Said BY DEF QueueInv
<1> USE NothingElse DEF Conv!Next
<1>1. UNCHANGED <<boots, taken, queue, job, clients, ppc, idx>>
  BY DEF ClientConnects, ClientRefused, ClientAsks, ClientTakes, ClientQuits, ClientKilled,
     ClientCutOff
<1>2. Requests(c)' = Requests(c) /\ (Stuck(c)' <=> Stuck(c))
  BY <1>1, SameRequests DEF Stuck
<1>3. CASE cpc[c] = "start"
  <2>1. /\ conn[c] = "none" /\ request[c] = None /\ asked[c] = None /\ answer[c] = None
        /\ Requests(c) = {} /\ ~Stuck(c)
    BY <1>3 DEF Connected, Closed, Said, Answered, Stuck
  <2>2. ClientConnects(c) \/ ClientRefused(c)
    BY <1>3 DEF ClientAsks, ClientTakes, ClientQuits, ClientKilled, ClientCutOff
  <2>3. UNCHANGED <<request, asked, answer>>
    BY <2>2 DEF ClientConnects, ClientRefused
  <2>4. Sees(c, "ready", "recv", None, "open")
    BY <1>3, <2>1 DEF Sees, ClientIs, ThreadIs, Held, End, Over, Stuck
  <2>5. CASE ClientConnects(c)
    <3>1. cpc'[c] = "ready" /\ conn'[c] = "backlog"
      BY <2>5 DEF ClientConnects, TypeOK
    <3>2. Sees(c, "ready", "recv", None, "open")'
      BY <1>2, <2>1, <3>1 DEF Sees, ClientIs, ThreadIs, Held, End, Over, Stuck
    <3> QED BY <2>3, <2>4, <3>2 DEF Sees, Conv!vars
  <2>6. CASE ClientRefused(c)
    <3>1. cpc'[c] = "gone" /\ conn'[c] = "none"
      BY <2>1, <2>6 DEF ClientRefused, TypeOK
    <3>2. Sees(c, "gone", "done", None, "none")'
      BY <3>1 DEF Sees, ClientIs, ThreadIs, Held, End, Over
    <3> QED BY <2>1, <2>3, <2>4, <3>2 DEF Sees, Conv!ServerKilled, Conv!Down
  <2> QED BY <2>2, <2>5, <2>6
<1>4. CASE cpc[c] # "start"
  <2>1. ClientAsks(c) \/ ClientTakes(c) \/ ClientQuits(c) \/ ClientKilled(c) \/ ClientCutOff(c)
    BY <1>4 DEF ClientConnects, ClientRefused
  <2>2. /\ cpc[c] \in {"ready", "await"} /\ conn[c] # "none"
        /\ conn'[c] \in {conn[c], "reset"} /\ cpc'[c] # "start"
    BY <2>1 DEF ClientAsks, ClientTakes, ClientQuits, ClientKilled, ClientCutOff, Closed, TypeOK
  <2>3. ~Over(c) /\ ~Over(c)'
    BY <2>2 DEF Over
  <2>4. ThreadIs(c)' = ThreadIs(c) /\ Held(c)' = Held(c)
    BY <1>2, <2>3 DEF ThreadIs, Held, Stuck
  <2>5. ClientIs(c) = cpc[c] /\ ClientIs(c)' = cpc'[c]
    BY <2>2 DEF ClientIs
  <2>6. /\ conn'[c] = conn[c] => End(c)' = End(c)
        /\ conn'[c] = "reset" => End(c)' = "reset"
    BY <2>3 DEF End
  <2>7. CASE ClientAsks(c)
    <3>1. PICK m \in Messages : asked' = [asked EXCEPT ![c] = m] /\ request' = [request EXCEPT ![c] = m]
      BY <2>7 DEF ClientAsks
    <3>2. Conv(c)!Asks(m)
      BY <2>4, <2>5, <2>6, <2>7, <3>1 DEF ClientAsks, Conv!Asks, TypeOK
    <3> QED BY <3>2
  <2>8. CASE ClientTakes(c)
    BY <2>4, <2>5, <2>6, <2>8 DEF ClientTakes, Conv!Takes, TypeOK
  <2>9. CASE ClientQuits(c)
    BY <2>4, <2>5, <2>6, <2>9 DEF ClientQuits, Conv!Quits, TypeOK
  <2>10. CASE ClientKilled(c)
    <3>1. Replying(c) => ThreadIs(c) = "reply"
      <4>1. SUFFICES ASSUME Replying(c) PROVE Requests(c) # {}
        BY <2>3 DEF ThreadIs
      <4>2. PICK s \in Services : spc[s] = "reply" /\ job[s].client = c /\ job[s].boot = boots
        BY <4>1 DEF Replying
      <4>3. Mine(job[s], c) BY <4>2 DEF Mine, TypeOK
      <4> QED BY <4>3, RequestsAre
    <3>2. /\ cpc'[c] = "gone" /\ asked'[c] = None /\ answer'[c] = None /\ request'[c] = request[c]
          /\ \/ answer[c] = None /\ conn'[c] = conn[c]
             \/ (answer[c] # None \/ Replying(c)) /\ conn'[c] = "reset"
      BY <2>10 DEF ClientKilled, TypeOK
    <3> QED BY <2>2, <2>4, <2>5, <2>6, <3>1, <3>2 DEF Conv!Killed
  <2>11. CASE ClientCutOff(c)
    BY <2>4, <2>5, <2>6, <2>11 DEF ClientCutOff, Conv!CutOff, TypeOK
  <2> QED BY <2>1, <2>7, <2>8, <2>9, <2>10, <2>11
<1> QED BY <1>3, <1>4

(* A client that is not there or not any more when the server starts has   *)
(* no conversation with it.                                                *)
LEMMA RestartSeen ==
  ASSUME QueueInv, Closed, Restart, NEW c \in Clients
  PROVE  UNCHANGED Conv(c)!vars
<1>1. /\ ~up /\ UNCHANGED <<clients, ppc, idx, cpc, conn, request, asked, answer>>
      /\ conn[c] = "none" /\ cpc[c] \in {"start", "gone"}
  BY DEF Restart, Closed, QueueInv, Stopped
<1>2. cpc[c] = "start" => Requests(c)' = Requests(c)
  BY FreshRequests DEF Closed
<1> QED BY <1>1, <1>2, Unseen DEF Over, End, Stuck

(* A step of the server or of a client is a step of one conversation, and  *)
(* of no other, or ends them all.                                          *)
LEMMA ConversationsStep ==
  ASSUME QueueInv, QueueInv', Closed, [Next]_vars, NEW c \in Clients
  PROVE  [Conv(c)!Next]_(Conv(c)!vars)
<1> TypeOK BY DEF QueueInv
<1>1. ASSUME NEW q \in {queue, <<>>}, up, Down(q) PROVE [Conv(c)!Next]_(Conv(c)!vars)
  BY <1>1, DownSeen DEF Conv!Next
<1>2. CASE PollerAccept
  <2>1. /\ lq # <<>> /\ ppc' = ppc /\ ppc = "accept" /\ conn' = [conn EXCEPT ![Head(lq)] = "open"]
        /\ UNCHANGED <<boots, taken, queue, job, cpc, request, asked, answer>>
    BY <1>2 DEF PollerAccept
  <2>2. conn[Head(lq)] = "backlog" /\ Head(lq) \in Clients
    BY <2>1, HeadTail DEF QueueInv, Waiting, TypeOK
  <2>3. \/ conn'[c] = conn[c]
        \/ conn[c] = "backlog" /\ conn'[c] = "open"
    BY <2>1, <2>2 DEF TypeOK
  <2>4. (Over(c)' <=> Over(c)) /\ End(c)' = End(c)
    BY <2>1, <2>3 DEF Over, End
  <2>5. Requests(c)' = Requests(c) /\ ~Stuck(c) /\ ~Stuck(c)'
    BY <2>1, SameRequests DEF Stuck
  <2> QED BY <2>1, <2>4, <2>5, Unseen
<1>3. CASE PollerReads
  BY <1>3, ReadSeen
<1>4. CASE PollerSends \/ \E s \in Services : ServiceReceives(s)
  <2>1. Requests(c)' = Requests(c)
    BY <1>4, MovedRequests
  <2>2. /\ UNCHANGED <<cpc, conn, request, asked, answer, clients>>
        /\ (ppc # "spin" /\ ppc' # "spin") \/ UNCHANGED <<ppc, idx>>
    BY <1>4 DEF PollerSends, ServiceReceives
  <2> QED BY <2>1, <2>2, Unseen DEF Over, End, Stuck
<1>5. ASSUME NEW s \in Services, ServiceReplies(s) PROVE [Conv(c)!Next]_(Conv(c)!vars)
  BY <1>5, ReplySeen
<1>6. CASE PollerSpins
  BY <1>6, SpinSeen
<1>7. CASE Restart
  BY <1>7, RestartSeen
<1>8. ASSUME NEW d \in Clients,
             \/ ClientConnects(d) \/ ClientRefused(d) \/ ClientAsks(d) \/ ClientTakes(d)
             \/ ClientQuits(d) \/ ClientKilled(d) \/ ClientCutOff(d)
      PROVE  [Conv(c)!Next]_(Conv(c)!vars)
  <2>1. CASE c = d
    BY <1>8, <2>1, ClientSeen
  <2>2. CASE c # d
    <3>1. UNCHANGED <<cpc[c], conn[c], request[c], asked[c], answer[c]>>
      BY <1>8, <2>2 DEF ClientConnects, ClientRefused, ClientAsks, ClientTakes, ClientQuits,
         ClientKilled, ClientCutOff, TypeOK
    <3>2. UNCHANGED <<boots, taken, queue, job, clients, ppc, idx>>
      BY <1>8 DEF ClientConnects, ClientRefused, ClientAsks, ClientTakes, ClientQuits,
         ClientKilled, ClientCutOff
    <3>3. Requests(c)' = Requests(c)
      BY <3>2, SameRequests
    <3> QED BY <3>1, <3>2, <3>3, Unseen DEF Over, End, Stuck
  <2> QED BY <2>1, <2>2
<1>9. CASE /\ UNCHANGED <<boots, taken, queue, job, cpc, conn, request, asked, answer, clients>>
           /\ (ppc # "spin" /\ ppc' # "spin") \/ UNCHANGED <<ppc, idx>>
  BY <1>9, SameRequests, Unseen DEF Over, End, Stuck
<1>10. CASE PollerMeetsEnd
  <2>1. /\ ppc = "check" /\ ppc' = "check"
        /\ UNCHANGED <<boots, taken, queue, job, cpc, conn, request, asked, answer, clients>>
    BY <1>10, EndIsSilence DEF PollerMeetsEnd
  <2> QED BY <1>9, <2>1
<1> QED
  BY <1>1, <1>2, <1>3, <1>4, <1>5, <1>6, <1>7, <1>8, <1>9, <1>10, StepCases
     DEF PollerLooks, PollerReturns, PollerSkips

(* Refinement: each client has one conversation of whole messages, although*)
(* poller, queue and services share the work on it.                        *)
THEOREM QueueIsConversations == Spec => ConversationRefinement
<1>1. Init => \A c \in Clients : Conv(c)!Init
  BY ConversationsInit
<1>2. (QueueInv /\ Closed) /\ (QueueInv /\ Closed)' /\ [Next]_vars
        => [\A c \in Clients : [Conv(c)!Next]_(Conv(c)!vars)]_vars
  BY ConversationsStep
<1> QED
  BY <1>1, <1>2, ClosedInvariant, PTL DEF Spec, ConversationRefinement
=============================================================================
