---------------------------- MODULE ServicePool ----------------------------
(***************************************************************************)
(* Task 2, the parallel server with a pool (task2/server, task2/service,   *)
(* task2/client).  A listener thread accepts visitors and answers each one *)
(* with the address of a service that is recorded FREE; the visitor dials  *)
(* that service and converses with it.  A service stores OCCUPIED in its   *)
(* own record when it accepts a client and reports OCCUPIED, then FREE,    *)
(* through a System V queue; a handler thread applies the reports to the   *)
(* records under services_mutex.                                           *)
(*                                                                         *)
(* A client is one run of the client program.  TCP is modelled at the      *)
(* grain of whole messages.  A message needs two send calls.  To a peer    *)
(* that has exited the first draws an RST and the second raises SIGPIPE,   *)
(* which nobody handles, so the server process dies without its atexit     *)
(* handler.  When the peer goes while they are made, the second can also   *)
(* fail with ECONNRESET, or both succeed and nobody reads them.  A client  *)
(* killed between its own two leaves Half a message, a length and no text. *)
(***************************************************************************)
EXTENDS Naturals, Sequences, FiniteSets

CONSTANTS
  Clients,         \* runs of task2/client
  Messages,        \* lines a user types
  ServicesAmount,  \* SERVICES_AMOUNT
  Backlog,         \* CLIENTS_AMOUNT, the argument of every listen()
  QueueSlots,      \* reports the kernel's queue holds before msgsnd blocks
  FdLimit,         \* descriptors left for accepted connections
  MaxKills,        \* bound: clients that are killed
  MaxBoots,        \* bound: times the server is started; the last is not stopped
  Occupied,        \* the listener's answer "occupied"
  Half,            \* the length of a message whose text never follows
  None             \* no client, no message, no answer

Services == 1..ServicesAmount

Report == [sender : Services, status : {"FREE", "OCCUPIED"}]

Prefixed(m) == <<"Server", m>>   \* edit_message

ASSUME PoolAssumption ==
  /\ ServicesAmount \in Nat \ {0} /\ Backlog \in Nat
  /\ QueueSlots \in Nat \ {0} /\ FdLimit \in Nat
  /\ MaxKills \in Nat /\ MaxBoots \in Nat \ {0}
  /\ None \notin Clients \cup Messages \cup Services \cup Report
  /\ Occupied \notin Services \cup {None}
  /\ Half \notin Messages \cup {None}
  /\ \A m \in Messages : Prefixed(m) # None

VARIABLES
  up,       \* the server process runs
  boots,    \* times it was started
  cleaning, \* exit() has consumed the atexit handler of this process
  status,   \* service->status, as get_free_service reads it
  msq,      \* the System V queue; it outlives the process
  hand,     \* the report handle_msq_updates has received and not applied
  hpc,      \* control of handle_msq_updates
  mutex,    \* holder of services_mutex
  lq,       \* accept queue of the listening socket
  lpc,      \* control of run_server's accept loop
  visitor,  \* the client it is answering
  scan,     \* index i of get_free_service
  pick,     \* what get_free_service returned
  sq,       \* sq[s]: accept queue of service s
  spc,      \* spc[s]: control of service s
  partner,  \* partner[s]: the client service s converses with
  text,     \* text[s]: the message service s has read and not answered
  fds,      \* accepted connections whose descriptor is open
  cpc,      \* cpc[c]: control of client c
  offer,    \* offer[c]: the answer of the listener
  conn,     \* conn[c]: the server's end of c's connection to its service
  request,  \* request[c]: bytes from c the service has not read
  asked,    \* asked[c]: the message c waits on
  answer,   \* answer[c]: the reply on its way to c
  kills     \* clients killed so far

processVars  == <<up, boots, cleaning>>
handlerVars  == <<hand, hpc>>
listenerVars == <<lq, lpc, visitor, scan, pick>>
serviceVars  == <<spc, partner, text>>
clientVars   == <<cpc, offer, asked>>
wireVars     == <<conn, request, answer>>
vars == <<processVars, status, msq, handlerVars, mutex, listenerVars, sq,
          serviceVars, fds, clientVars, wireVars, kills>>

Init ==
  /\ up = TRUE /\ boots = 1 /\ cleaning = FALSE
  /\ status = [s \in Services |-> "FREE"]
  /\ msq = <<>> /\ hand = None /\ hpc = "receive" /\ mutex = "open"
  /\ lq = <<>> /\ lpc = "accept" /\ visitor = None /\ scan = 1 /\ pick = None
  /\ sq = [s \in Services |-> <<>>]
  /\ spc = [s \in Services |-> "boot"]
  /\ partner = [s \in Services |-> None]
  /\ text = [s \in Services |-> None]
  /\ fds = 0
  /\ cpc = [c \in Clients |-> "start"]
  /\ offer = [c \in Clients |-> None]
  /\ conn = [c \in Clients |-> "none"]
  /\ request = [c \in Clients |-> None]
  /\ asked = [c \in Clients |-> None]
  /\ answer = [c \in Clients |-> None]
  /\ kills = 0

-----------------------------------------------------------------------------
(* The end of the process.                                                 *)

(* The process is gone: its memory, threads and connections with it.  A    *)
(* client connected to it finds the stream ended and exits (a reply it was *)
(* about to read first is not followed); one that still has its offer to   *)
(* read, or is between the two connections, goes on.  Of the server only   *)
(* the queue is left, with the reports q in it.                            *)
Down(q) ==
  /\ up' = FALSE /\ cleaning' = FALSE
  /\ status' = [s \in Services |-> "FREE"]
  /\ msq' = q /\ hand' = None /\ hpc' = "receive" /\ mutex' = "open"
  /\ lq' = <<>> /\ lpc' = "accept" /\ visitor' = None /\ scan' = 1 /\ pick' = None
  /\ sq' = [s \in Services |-> <<>>]
  /\ spc' = [s \in Services |-> "boot"]
  /\ partner' = [s \in Services |-> None]
  /\ text' = [s \in Services |-> None]
  /\ fds' = 0
  /\ cpc' = [c \in Clients |->
               IF \/ cpc[c] \in {"start", "directed"}
                  \/ cpc[c] = "hello" /\ offer[c] # None
                 THEN cpc[c] ELSE "gone"]
  /\ conn' = [c \in Clients |-> "none"]
  /\ request' = [c \in Clients |-> None]
  /\ asked' = [c \in Clients |-> None]
  /\ answer' = [c \in Clients |-> None]
  /\ UNCHANGED <<boots, offer, kills>>

(* print_error in the listener: exit() runs cleanup to its end unless a    *)
(* service has already consumed it; free_server removes the queue.         *)
ListenerExits == Down(IF cleaning THEN msq ELSE <<>>)

(* print_error in service s: exit() runs cleanup on the thread of s.       *)
(* free_server cancels the handler and frees services 1, 2, ... in turn    *)
(* until free_service cancels s itself: the close that follows is a        *)
(* cancellation point, so the thread ends there and exit() never returns.  *)
(* Services after s and the listener keep running.  A later exit() finds   *)
(* no handler left to run and ends the process.                            *)
ServiceExits(s) ==
  IF cleaning THEN Down(msq) ELSE
    LET dropped == {c \in Clients : /\ conn[c] = "backlog"
                                    /\ offer[c] \in 1..(s - 1)}
    IN /\ cleaning' = TRUE
       /\ hpc' = IF hpc = "receive" THEN "dead" ELSE "last"
       /\ spc' = [t \in Services |-> IF t < s THEN "freed"
                                     ELSE IF t = s THEN "cancelled" ELSE spc[t]]
       /\ sq' = [t \in Services |-> IF t < s THEN <<>> ELSE sq[t]]
       /\ cpc' = [c \in Clients |-> IF c \in dropped THEN "gone" ELSE cpc[c]]
       /\ conn' = [c \in Clients |-> IF c \in dropped THEN "none" ELSE conn[c]]
       /\ request' = [c \in Clients |-> IF c \in dropped THEN None ELSE request[c]]
       /\ asked' = [c \in Clients |-> IF c \in dropped THEN None ELSE asked[c]]
       /\ UNCHANGED <<up, boots, status, msq, hand, mutex, listenerVars, partner,
                      text, fds, offer, answer, kills>>

(* The operator stops the server with a signal: atexit handlers do not run. *)
ServerKilled ==
  /\ up /\ boots < MaxBoots
  /\ Down(msq)

(* The operator starts the server again.  msgget attaches to the queue the *)
(* last process left, with whatever is in it.                              *)
Restart ==
  /\ ~up /\ boots < MaxBoots
  /\ up' = TRUE /\ boots' = boots + 1
  /\ UNCHANGED <<cleaning, status, msq, handlerVars, mutex, listenerVars, sq,
                 serviceVars, fds, clientVars, wireVars, kills>>
-----------------------------------------------------------------------------
(* The listener thread: run_server, send_addr, get_free_service.           *)

ListenerAccept ==
  /\ up /\ lpc = "accept" /\ lq # <<>> /\ fds < FdLimit
  /\ visitor' = Head(lq) /\ lq' = Tail(lq)
  /\ fds' = fds + 1
  /\ lpc' = "lock"
  /\ UNCHANGED <<processVars, status, msq, handlerVars, mutex, scan, pick, sq,
                 serviceVars, clientVars, wireVars, kills>>

(* The kernel takes the descriptor of an accepted connection before it     *)
(* looks for one, so every other thread that waits in accept may hold one. *)
Acceptors == {s \in Services : spc[s] = "accept"}
             \cup (IF lpc = "accept" THEN {None} ELSE {})
NoDescriptor(t) == fds + Cardinality(Acceptors \ {t}) >= FdLimit

(* accept fails with EMFILE. *)
ListenerAcceptFails ==
  /\ up /\ lpc = "accept" /\ NoDescriptor(None)
  /\ ListenerExits

ListenerLock ==
  /\ up /\ lpc = "lock" /\ mutex = "open"
  /\ mutex' = "listener" /\ scan' = 1 /\ lpc' = "scan"
  /\ UNCHANGED <<processVars, status, msq, handlerVars, lq, visitor, pick, sq,
                 serviceVars, fds, clientVars, wireVars, kills>>

(* Mutant of ListenerScan: the lock is kept when a free service is found. *)
ListenerScanKeepsLock ==
  /\ up /\ lpc = "scan"
  /\ IF status[scan] = "FREE"
       THEN pick' = scan /\ lpc' = "send" /\ UNCHANGED <<scan, mutex>>
     ELSE IF scan = ServicesAmount
       THEN pick' = Occupied /\ mutex' = "open" /\ lpc' = "send" /\ UNCHANGED scan
       ELSE scan' = scan + 1 /\ UNCHANGED <<pick, mutex, lpc>>
  /\ UNCHANGED <<processVars, status, msq, handlerVars, lq, visitor, sq,
                 serviceVars, fds, clientVars, wireVars, kills>>

(* One turn of the loop; the lock is released with the last one.  The      *)
(* record of a freed service may hold anything.                            *)
ListenerScan ==
  /\ up /\ lpc = "scan"
  /\ \E seen \in IF spc[scan] = "freed" THEN {"FREE", "OCCUPIED"}
                                        ELSE {status[scan]} :
       IF seen = "FREE" \/ scan = ServicesAmount
         THEN /\ pick' = IF seen = "FREE" THEN scan ELSE Occupied
              /\ mutex' = "open" /\ lpc' = "send"
              /\ UNCHANGED scan
         ELSE /\ scan' = scan + 1
              /\ UNCHANGED <<pick, mutex, lpc>>
  /\ UNCHANGED <<processVars, status, msq, handlerVars, lq, visitor, sq,
                 serviceVars, fds, clientVars, wireVars, kills>>

(* Mutant of ListenerSend: the service found last time is kept. *)
ListenerSendKeepsPick ==
  /\ up /\ lpc = "send"
  /\ offer' = [offer EXCEPT ![visitor] = pick]
  /\ lpc' = "accept" /\ visitor' = None
  /\ UNCHANGED <<processVars, status, msq, handlerVars, mutex, lq, scan, pick, sq,
                 serviceVars, fds, cpc, asked, wireVars, kills>>

(* send_message, then shutdown: the descriptor is never closed.  A visitor *)
(* that is gone does not read its answer.                                  *)
ListenerSend ==
  /\ up /\ lpc = "send"
  /\ offer' = [offer EXCEPT ![visitor] = pick]
  /\ lpc' = "accept" /\ visitor' = None /\ pick' = None
  /\ UNCHANGED <<processVars, status, msq, handlerVars, mutex, lq, scan, sq,
                 serviceVars, fds, cpc, asked, wireVars, kills>>

(* The visitor is gone: SIGPIPE or ECONNRESET.  Or the endpoint of a freed *)
(* service is read, a segmentation fault.                                  *)
ListenerSendFails ==
  /\ up /\ lpc = "send"
  /\ \/ cpc[visitor] = "gone" /\ (Down(msq) \/ ListenerExits)
     \/ pick \in Services /\ spc[pick] = "freed" /\ Down(msq)
-----------------------------------------------------------------------------
(* The handler thread: handle_msq_updates, change_service_status.          *)

HandlerReceive ==
  /\ up /\ hpc = "receive" /\ msq # <<>>
  /\ hand' = Head(msq) /\ msq' = Tail(msq)
  /\ hpc' = "apply"
  /\ UNCHANGED <<processVars, status, mutex, listenerVars, sq, serviceVars, fds,
                 clientVars, wireVars, kills>>

(* Mutants of HandlerApply: the report is applied without the lock; only   *)
(* the first report is ever handled.                                       *)
HandlerApplyUnlocked ==
  /\ up /\ hpc \in {"apply", "last"}
  /\ status' = [status EXCEPT ![hand.sender] = hand.status]
  /\ hand' = None
  /\ hpc' = IF hpc = "apply" THEN "receive" ELSE "dead"
  /\ UNCHANGED <<processVars, msq, mutex, listenerVars, sq, serviceVars, fds,
                 clientVars, wireVars, kills>>
HandlerApplyOnce ==
  /\ up /\ hpc \in {"apply", "last"} /\ mutex = "open"
  /\ status' = [status EXCEPT ![hand.sender] = hand.status]
  /\ hand' = None /\ hpc' = "dead"
  /\ UNCHANGED <<processVars, msq, mutex, listenerVars, sq, serviceVars, fds,
                 clientVars, wireVars, kills>>

(* A handler cancelled meanwhile ends at the printf it makes under the     *)
(* lock, or, when that printf only fills the buffer, at its next msgrcv.   *)
HandlerApply ==
  /\ up /\ hpc \in {"apply", "last"} /\ mutex = "open"
  /\ status' = [status EXCEPT ![hand.sender] = hand.status]
  /\ hand' = None
  /\ hpc' = IF hpc = "apply" THEN "receive" ELSE "dead"
  /\ mutex' \in IF hpc = "apply" THEN {"open"} ELSE {"open", "handler"}
  /\ UNCHANGED <<processVars, msq, listenerVars, sq, serviceVars, fds, clientVars,
                 wireVars, kills>>
-----------------------------------------------------------------------------
(* A service thread: run_service, handle_client_connection, communicate.   *)

ServiceListen(s) ==
  /\ up /\ spc[s] = "boot"
  /\ spc' = [spc EXCEPT ![s] = "accept"]
  /\ UNCHANGED <<processVars, status, msq, handlerVars, mutex, listenerVars, sq,
                 partner, text, fds, clientVars, wireVars, kills>>

ServiceAccept(s) ==
  /\ up /\ spc[s] = "accept" /\ sq[s] # <<>> /\ fds < FdLimit
  /\ partner' = [partner EXCEPT ![s] = Head(sq[s])]
  /\ sq' = [sq EXCEPT ![s] = Tail(sq[s])]
  /\ conn' = [conn EXCEPT ![Head(sq[s])] = "open"]
  /\ fds' = fds + 1
  /\ spc' = [spc EXCEPT ![s] = "mark"]
  /\ UNCHANGED <<processVars, status, msq, handlerVars, mutex, listenerVars, text,
                 clientVars, request, answer, kills>>

ServiceAcceptFails(s) ==
  /\ up /\ spc[s] = "accept" /\ NoDescriptor(s)
  /\ ServiceExits(s)

(* Mutant of ServiceMark: the service stores its status and tells nobody. *)
ServiceMarkSilent(s) ==
  /\ up /\ spc[s] = "mark"
  /\ status' = [status EXCEPT ![s] = "OCCUPIED"]
  /\ spc' = [spc EXCEPT ![s] = "recv"]
  /\ UNCHANGED <<processVars, msq, handlerVars, mutex, listenerVars, sq, partner,
                 text, fds, clientVars, wireVars, kills>>

(* The store to service->status is made without services_mutex. *)
ServiceMark(s) ==
  /\ up /\ spc[s] = "mark"
  /\ status' = [status EXCEPT ![s] = "OCCUPIED"]
  /\ spc' = [spc EXCEPT ![s] = "tell_occupied"]
  /\ UNCHANGED <<processVars, msq, handlerVars, mutex, listenerVars, sq, partner,
                 text, fds, clientVars, wireVars, kills>>

(* notify_server: msgsnd blocks while the queue is full. *)
Notify(s, at, st, next) ==
  /\ up /\ spc[s] = at /\ Len(msq) < QueueSlots
  /\ msq' = Append(msq, [sender |-> s, status |-> st])
  /\ spc' = [spc EXCEPT ![s] = next]
  /\ UNCHANGED <<processVars, status, handlerVars, mutex, listenerVars, sq, partner,
                 text, fds, clientVars, wireVars, kills>>

ServiceTellOccupied(s) == Notify(s, "tell_occupied", "OCCUPIED", "recv")

(* Mutant of ServiceTellFree: the two statuses are swapped. *)
ServiceTellsOccupied(s) == Notify(s, "tell_free", "OCCUPIED", "accept")

ServiceTellFree(s) == Notify(s, "tell_free", "FREE", "accept")

(* Mutant of ServiceRecv: the message stays in the socket. *)
ServiceRecvLeaves(s) ==
  /\ up /\ spc[s] = "recv" /\ request[partner[s]] \in Messages
  /\ text' = [text EXCEPT ![s] = request[partner[s]]]
  /\ spc' = [spc EXCEPT ![s] = "reply"]
  /\ UNCHANGED <<processVars, status, msq, handlerVars, mutex, listenerVars, sq,
                 partner, fds, clientVars, wireVars, kills>>

ServiceRecv(s) ==
  LET c == partner[s] IN
  /\ up /\ spc[s] = "recv" /\ request[c] \in Messages
  /\ text' = [text EXCEPT ![s] = request[c]]
  /\ request' = [request EXCEPT ![c] = None]
  /\ spc' = [spc EXCEPT ![s] = "reply"]
  /\ UNCHANGED <<processVars, status, msq, handlerVars, mutex, listenerVars, sq,
                 partner, fds, clientVars, conn, answer, kills>>

(* The text never comes: recv_message counts to message_len in steps of 0. *)
ServiceSpins(s) ==
  /\ up /\ spc[s] = "recv" /\ request[partner[s]] = Half
  /\ spc' = [spc EXCEPT ![s] = "spin"]
  /\ UNCHANGED <<processVars, status, msq, handlerVars, mutex, listenerVars, sq,
                 partner, text, fds, clientVars, wireVars, kills>>

(* Mutant of ServiceHangUp: the closed connection is still the partner's. *)
ServiceHangUpKeepsPartner(s) ==
  LET c == partner[s] IN
  /\ up /\ spc[s] = "recv" /\ request[c] = None
  /\ cpc[c] = "gone" /\ conn[c] = "open"
  /\ conn' = [conn EXCEPT ![c] = "none"]
  /\ fds' = fds - 1
  /\ spc' = [spc EXCEPT ![s] = "tell_free"]
  /\ UNCHANGED <<processVars, status, msq, handlerVars, mutex, listenerVars, sq,
                 partner, text, clientVars, request, answer, kills>>

(* recv returns 0: close_connection. *)
ServiceHangUp(s) ==
  LET c == partner[s] IN
  /\ up /\ spc[s] = "recv" /\ request[c] = None
  /\ cpc[c] = "gone" /\ conn[c] = "open"
  /\ conn' = [conn EXCEPT ![c] = "none"]
  /\ partner' = [partner EXCEPT ![s] = None]
  /\ fds' = fds - 1
  /\ spc' = [spc EXCEPT ![s] = "tell_free"]
  /\ UNCHANGED <<processVars, status, msq, handlerVars, mutex, listenerVars, sq,
                 text, clientVars, request, answer, kills>>

(* recv fails with ECONNRESET. *)
ServiceRecvFails(s) ==
  /\ up /\ spc[s] = "recv" /\ conn[partner[s]] = "reset"
  /\ ServiceExits(s)

(* Mutant of ServiceReply: the message answered is not forgotten. *)
ServiceReplyAgain(s) ==
  LET c == partner[s] IN
  /\ up /\ spc[s] = "reply"
  /\ answer' = [answer EXCEPT ![c] = IF cpc[c] = "gone" THEN None ELSE Prefixed(text[s])]
  /\ UNCHANGED <<processVars, status, msq, handlerVars, mutex, listenerVars, sq,
                 serviceVars, fds, clientVars, conn, request, kills>>

(* edit_message and send_message.  A client that is gone gets nothing.     *)
ServiceReply(s) ==
  LET c == partner[s] IN
  /\ up /\ spc[s] = "reply"
  /\ answer' = [answer EXCEPT ![c] = IF cpc[c] = "gone" THEN None ELSE Prefixed(text[s])]
  /\ text' = [text EXCEPT ![s] = None]
  /\ spc' = [spc EXCEPT ![s] = "recv"]
  /\ UNCHANGED <<processVars, status, msq, handlerVars, mutex, listenerVars, sq,
                 partner, fds, clientVars, conn, request, kills>>

(* SIGPIPE, or ECONNRESET. *)
ServiceReplyFails(s) ==
  /\ up /\ spc[s] = "reply" /\ cpc[partner[s]] = "gone"
  /\ Down(msq) \/ ServiceExits(s)
-----------------------------------------------------------------------------
(* The client program: run_client, process_input.                          *)

ClientVisit(c) ==
  /\ cpc[c] = "start" /\ up /\ Len(lq) <= Backlog
  /\ lq' = Append(lq, c)
  /\ cpc' = [cpc EXCEPT ![c] = "hello"]
  /\ UNCHANGED <<processVars, status, msq, handlerVars, mutex, lpc, visitor, scan,
                 pick, sq, serviceVars, fds, offer, asked, wireVars, kills>>

(* "occupied" ends the program; an address is dialled next. *)
ClientReadOffer(c) ==
  /\ cpc[c] = "hello" /\ offer[c] # None
  /\ cpc' = [cpc EXCEPT ![c] = IF offer[c] = Occupied THEN "gone" ELSE "directed"]
  /\ UNCHANGED <<processVars, status, msq, handlerVars, mutex, listenerVars, sq,
                 serviceVars, fds, offer, asked, wireVars, kills>>

(* connect succeeds once the kernel has queued the connection, which it    *)
(* also does for a service whose thread was cancelled: its socket is open. *)
ClientDial(c) ==
  /\ cpc[c] = "directed" /\ up
  /\ spc[offer[c]] \notin {"boot", "freed"} /\ Len(sq[offer[c]]) <= Backlog
  /\ sq' = [sq EXCEPT ![offer[c]] = Append(@, c)]
  /\ conn' = [conn EXCEPT ![c] = "backlog"]
  /\ cpc' = [cpc EXCEPT ![c] = "ready"]
  /\ UNCHANGED <<processVars, status, msq, handlerVars, mutex, listenerVars,
                 serviceVars, fds, offer, asked, request, answer, kills>>

(* connect fails with ECONNREFUSED: nobody listens there. *)
ClientRefused(c) ==
  /\ \/ cpc[c] = "start" /\ ~up
     \/ cpc[c] = "directed" /\ (up => spc[offer[c]] \in {"boot", "freed"})
  /\ cpc' = [cpc EXCEPT ![c] = "gone"]
  /\ UNCHANGED <<processVars, status, msq, handlerVars, mutex, listenerVars, sq,
                 serviceVars, fds, offer, asked, wireVars, kills>>

ClientAsk(c) ==
  /\ cpc[c] = "ready"
  /\ \E m \in Messages : /\ asked' = [asked EXCEPT ![c] = m]
                         /\ request' = [request EXCEPT ![c] = m]
  /\ cpc' = [cpc EXCEPT ![c] = "await"]
  /\ UNCHANGED <<processVars, status, msq, handlerVars, mutex, listenerVars, sq,
                 serviceVars, fds, offer, conn, answer, kills>>

ClientTake(c) ==
  /\ cpc[c] = "await" /\ answer[c] # None
  /\ asked' = [asked EXCEPT ![c] = None]
  /\ answer' = [answer EXCEPT ![c] = None]
  /\ cpc' = [cpc EXCEPT ![c] = "ready"]
  /\ UNCHANGED <<processVars, status, msq, handlerVars, mutex, listenerVars, sq,
                 serviceVars, fds, offer, conn, request, kills>>

(* fgets meets the end of input: print_error exits between two requests. *)
ClientQuit(c) ==
  /\ cpc[c] = "ready"
  /\ cpc' = [cpc EXCEPT ![c] = "gone"]
  /\ UNCHANGED <<processVars, status, msq, handlerVars, mutex, listenerVars, sq,
                 serviceVars, fds, offer, asked, wireVars, kills>>

(* The client is killed.  Its kernel closes the connection, with an RST    *)
(* instead of a FIN when a reply, or the length of one that is being sent, *)
(* lies unread in its buffer.                                              *)
Replying(c) == \E s \in Services : spc[s] = "reply" /\ partner[s] = c

ClientKilled(c) ==
  /\ cpc[c] \in {"hello", "directed", "ready", "await"} /\ kills < MaxKills
  /\ kills' = kills + 1
  /\ cpc' = [cpc EXCEPT ![c] = "gone"]
  /\ asked' = [asked EXCEPT ![c] = None]
  /\ answer' = [answer EXCEPT ![c] = None]
  /\ \/ answer[c] = None /\ UNCHANGED conn
     \/ (answer[c] # None \/ Replying(c)) /\ conn' = [conn EXCEPT ![c] = "reset"]
  /\ UNCHANGED <<processVars, status, msq, handlerVars, mutex, listenerVars, sq,
                 serviceVars, fds, offer, request>>

(* The client is killed between the two sends of its message. *)
ClientCutOff(c) ==
  /\ cpc[c] = "ready" /\ kills < MaxKills
  /\ kills' = kills + 1
  /\ cpc' = [cpc EXCEPT ![c] = "gone"]
  /\ request' = [request EXCEPT ![c] = Half]
  /\ UNCHANGED <<processVars, status, msq, handlerVars, mutex, listenerVars, sq,
                 serviceVars, fds, offer, asked, conn, answer>>
-----------------------------------------------------------------------------
Listener ==
  \/ ListenerAccept \/ ListenerLock \/ ListenerScan \/ ListenerSend
  \/ ListenerAcceptFails \/ ListenerSendFails
Handler == HandlerReceive \/ HandlerApply
Service(s) ==
  \/ ServiceListen(s) \/ ServiceAccept(s) \/ ServiceMark(s) \/ ServiceTellOccupied(s)
  \/ ServiceRecv(s) \/ ServiceReply(s) \/ ServiceHangUp(s) \/ ServiceTellFree(s)
  \/ ServiceSpins(s) \/ ServiceAcceptFails(s) \/ ServiceRecvFails(s)
  \/ ServiceReplyFails(s)
Client(c) == ClientReadOffer(c) \/ ClientDial(c) \/ ClientRefused(c) \/ ClientTake(c)
User(c) ==
  \/ ClientVisit(c) \/ ClientAsk(c) \/ ClientQuit(c)
  \/ ClientKilled(c) \/ ClientCutOff(c)

Next ==
  \/ Listener \/ Handler \/ ServerKilled \/ Restart
  \/ \E s \in Services : Service(s)
  \/ \E c \in Clients : Client(c) \/ User(c)

Spec == Init /\ [][Next]_vars

(* Every thread that can take a step is eventually scheduled, and so is    *)
(* every client program; what a user types, and when, is left open.        *)
Fairness ==
  /\ WF_vars(Listener) /\ WF_vars(Handler)
  /\ \A s \in Services : WF_vars(Service(s))
  /\ \A c \in Clients : WF_vars(Client(c))

FairSpec == Spec /\ Fairness

(* Assumption on the users alone: each of them ends its input some day,    *)
(* so that a client queued behind another one is reached.                  *)
PatientSpec == FairSpec /\ \A c \in Clients : SF_vars(ClientQuit(c))
-----------------------------------------------------------------------------
(* Properties.                                                             *)

TypeOK ==
  /\ up \in BOOLEAN /\ boots \in 1..MaxBoots /\ cleaning \in BOOLEAN
  /\ status \in [Services -> {"FREE", "OCCUPIED"}]
  /\ msq \in Seq(Report) /\ hand \in Report \cup {None}
  /\ hpc \in {"receive", "apply", "last", "dead"}
  /\ (hpc \in {"apply", "last"} <=> hand # None)
  /\ (hpc \in {"last", "dead"} <=> cleaning)
  /\ mutex \in {"open", "listener", "handler"}
  /\ lq \in Seq(Clients) /\ lpc \in {"accept", "lock", "scan", "send"}
  /\ visitor \in Clients \cup {None} /\ (lpc = "accept" <=> visitor = None)
  /\ scan \in Services /\ pick \in Services \cup {Occupied, None}
  /\ (lpc = "send" <=> pick # None)
  /\ sq \in [Services -> Seq(Clients)]
  /\ spc \in [Services -> {"boot", "accept", "mark", "tell_occupied", "recv",
                           "spin", "reply", "tell_free", "cancelled", "freed"}]
  /\ partner \in [Services -> Clients \cup {None}]
  /\ \A s \in Services : spc[s] \in {"mark", "tell_occupied", "recv", "spin", "reply"}
                             => partner[s] # None
  /\ text \in [Services -> Messages \cup {None}]
  /\ fds \in Nat
  /\ cpc \in [Clients -> {"start", "hello", "directed", "ready", "await", "gone"}]
  /\ offer \in [Clients -> Services \cup {Occupied, None}]
  /\ \A c \in Clients : cpc[c] \in {"directed", "ready", "await"}
                            => offer[c] \in Services
  /\ conn \in [Clients -> {"none", "backlog", "open", "reset"}]
  /\ request \in [Clients -> Messages \cup {Half, None}]
  /\ asked \in [Clients -> Messages \cup {None}]
  /\ answer \in [Clients -> {Prefixed(m) : m \in Messages} \cup {None}]
  /\ kills \in 0..MaxKills

(* A client's connection is in one place: it waits once in the accept      *)
(* queue of the service it was sent to, or that service converses with it, *)
(* and no other service ever does.                                         *)
OneConversation ==
  \A s \in Services :
    /\ partner[s] # None =>
         conn[partner[s]] \in {"open", "reset"} /\ offer[partner[s]] = s
    /\ \A i \in 1..Len(sq[s]) :
         /\ conn[sq[s][i]] = "backlog" /\ offer[sq[s][i]] = s
         /\ \A j \in 1..Len(sq[s]) : sq[s][i] = sq[s][j] => i = j

(* What the record of s will say when the handler has caught up.           *)
InQueue(s) == {i \in 1..Len(msq) : msq[i].sender = s}
Settled(s, st) ==
  /\ \A i \in InQueue(s) : (\A j \in InQueue(s) : j <= i) => msq[i].status = st
  /\ InQueue(s) = {} => IF hand # None /\ hand.sender = s
                          THEN hand.status = st ELSE status[s] = st

(* The records lag behind the services but never lose their way: although  *)
(* the service stores OCCUPIED past the lock and the reports overtake that *)
(* store, the last report under way, or the record itself when none is,    *)
(* tells whether the service is in a conversation.                         *)
RecordsFollow ==
  up => \A s \in Services :
    /\ spc[s] \in {"boot", "accept", "mark"} => Settled(s, "FREE")
    /\ spc[s] \in {"recv", "spin", "reply", "tell_free"} => Settled(s, "OCCUPIED")

(* RecordsFollow holds for a server that was started on an empty queue.    *)
RecordsFollowFirstBoot == boots = 1 => RecordsFollow

(* services_mutex makes the loop of get_free_service a snapshot: when it   *)
(* gives up, no record says FREE at that instant, and the one it returns   *)
(* does.  Only a freed record is beyond it.                                *)
ScanIsSnapshot ==
  [][lpc = "scan" /\ pick' # pick /\ up' =>
       IF pick' = Occupied
         THEN \A s \in Services : status[s] = "OCCUPIED" \/ spc[s] = "freed"
         ELSE status[pick'] = "FREE" \/ spc[pick'] = "freed"]_vars

(* The pool keeps the promise of the echo service to each of its clients.  *)
Echo == INSTANCE EchoService WITH asked <- asked, answer <- answer
EchoRefinement == Echo!EchoSpec

(* Each client has one conversation of whole messages, as Framing shows it *)
(* for the calls of send and recv, with the service it was sent to, however*)
(* it came there: through the listener, behind another client, or not at   *)
(* all.                                                                    *)
Over(c) == cpc[c] = "gone" /\ conn[c] = "none"
ClientIs(c) == IF cpc[c] \in {"start", "hello", "directed"} THEN "ready" ELSE cpc[c]
Served(c) == offer[c] \in Services /\ partner[offer[c]] = c
Doing(s) == IF spc[s] \in {"reply", "spin"} THEN spc[s]
            ELSE IF spc[s] \in {"cancelled", "freed"} THEN "cancelled" ELSE "recv"
ThreadIs(c) == IF Over(c) THEN "done" ELSE IF Served(c) THEN Doing(offer[c]) ELSE "recv"
Held(c) == IF Served(c) THEN text[offer[c]] ELSE None
End(c) == IF Over(c) THEN "none" ELSE IF conn[c] = "reset" THEN "reset" ELSE "open"

Conv(c) == INSTANCE Conversation WITH
  cpc <- ClientIs(c), tpc <- ThreadIs(c), text <- Held(c), conn <- End(c),
  request <- request[c], asked <- asked[c], answer <- answer[c]

ConversationRefinement ==
  /\ \A c \in Clients : Conv(c)!Init
  /\ [][\A c \in Clients : [Conv(c)!Next]_(Conv(c)!vars)]_vars

(* The listener answers every visitor. *)
VisitorAnswered == \A c \in Clients : cpc[c] = "hello" ~> cpc[c] # "hello"

(* A client sent to a service is served in the end, also when the listener *)
(* sent it to one that is in a conversation.                               *)
RequestServed == \A c \in Clients : cpc[c] = "await" ~> answer[c] # None

(* A service whose conversation is over is offered again, or taken.        *)
ServiceReturns ==
  \A s \in Services :
    spc[s] = "tell_free" ~> (status[s] = "FREE" \/ spc[s] \in {"mark", "recv"})
-----------------------------------------------------------------------------
(* What the documentation says and the code does not do.                   *)

(* free_server, "free allocated memory for server": a server that has      *)
(* begun to clean up ends.                                                 *)
CleanupEnds == cleaning ~> ~cleaning
=============================================================================
