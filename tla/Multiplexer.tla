----------------------------- MODULE Multiplexer -----------------------------
(***************************************************************************)
(* Task 4, the multiprotocol server (task4/server, task4/client_tcp,       *)
(* task4/client_udp).  One thread waits on a TCP and a UDP socket with     *)
(* select, poll or epoll and then talks: to one TCP client until it leaves,*)
(* or to whoever sends datagrams, for ever.                                *)
(*                                                                         *)
(* A message is its length, the only thing about a line that this server   *)
(* tells apart: an empty datagram, a reply longer than the buffer of the   *)
(* UDP client.  TCP is at the grain of whole messages, as in RequestQueue. *)
(***************************************************************************)
EXTENDS Naturals, Sequences, FiniteSets

CONSTANTS
  TcpClients,  \* runs of task4/client_tcp
  UdpClients,  \* runs of task4/client_udp
  Messages,    \* lines a user types, by length
  BufferSize,  \* BUFFER_SIZE
  Monitors,    \* the values of STANDARD looked at
  Backlog,     \* the argument of listen(), CLIENTS_AMOUNT in the code
  UdpSlots,    \* datagrams the receive buffer of the server holds
  MaxKills,    \* bound: clients that are killed
  MaxBoots,    \* bound: times the server is started; the last is not stopped
  Half,        \* the length of a message whose text never follows
  None         \* no message, no client

Clients == TcpClients \cup UdpClients

Prefixed(m) == <<"Server", m>>   \* edit_message
ReplyLength(m) == 7 + m          \* of "Server " and the message

ASSUME MuxAssumption ==
  /\ TcpClients \cap UdpClients = {} /\ None \notin Clients
  /\ Messages \subseteq Nat /\ Half \notin Messages /\ None \notin Messages \cup {Half}
  /\ \A m \in Messages : Prefixed(m) # None
  /\ Monitors \subseteq {"select", "poll", "epoll"} /\ Monitors # {}
  /\ BufferSize \in Nat /\ Backlog \in Nat /\ UdpSlots \in Nat \ {0}
  /\ MaxKills \in Nat /\ MaxBoots \in Nat \ {0}

VARIABLES
  monitor,  \* the branch of run_monitor that was compiled
  up,       \* the server process runs
  boots,    \* times it was started
  spc,      \* control of the server
  events,   \* sockets the last wait reported and the loop has not looked at
  peer,     \* the client it talks to
  text,     \* the message it has read from peer and not answered
  lq,       \* accept queue of the TCP socket
  dgrams,   \* receive buffer of the UDP socket
  cpc,      \* cpc[c]: control of client c
  conn,     \* conn[c]: the server's end of a TCP connection
  request,  \* request[c]: bytes from TCP client c the server has not read
  asked,    \* asked[c]: the message c waits on
  answer,   \* answer[c]: the reply on its way to c
  fill,     \* fill[c]: bytes of the UDP client's buffer some reply has written
  shown,    \* shown[c]: length of the reply a UDP client printed last
  kills     \* clients killed so far

processVars == <<monitor, up, boots>>
serverVars  == <<spc, events, peer, text>>
clientVars  == <<cpc, asked, fill, shown, kills>>
wireVars    == <<conn, request, answer>>
vars == <<processVars, serverVars, lq, dgrams, clientVars, wireVars>>

Datagram == [from : UdpClients, text : Messages]

(* A UDP client connects by itself: no packet is sent. *)
Init ==
  /\ monitor \in Monitors /\ up = TRUE /\ boots = 1
  /\ spc = "monitor" /\ events = <<>> /\ peer = None /\ text = None
  /\ lq = <<>> /\ dgrams = <<>>
  /\ cpc = [c \in Clients |-> IF c \in UdpClients THEN "ready" ELSE "start"]
  /\ conn = [c \in TcpClients |-> "none"]
  /\ request = [c \in TcpClients |-> None]
  /\ asked = [c \in Clients |-> None] /\ answer = [c \in Clients |-> None]
  /\ fill = [c \in UdpClients |-> 0] /\ shown = [c \in UdpClients |-> 0]
  /\ kills = 0
-----------------------------------------------------------------------------
(* The end of the process: free_server leaves nothing behind, whether exit *)
(* or a signal ends it.  TCP clients find their connection ended and exit; *)
(* UDP clients are not told, and a reply sent to them still arrives.       *)
Down ==
  /\ up' = FALSE
  /\ spc' = "monitor" /\ events' = <<>> /\ peer' = None /\ text' = None
  /\ lq' = <<>> /\ dgrams' = <<>>
  /\ cpc' = [c \in Clients |-> IF c \in TcpClients /\ cpc[c] # "start" THEN "gone" ELSE cpc[c]]
  /\ conn' = [c \in TcpClients |-> "none"]
  /\ request' = [c \in TcpClients |-> None]
  /\ asked' = [c \in Clients |-> IF c \in TcpClients THEN None ELSE asked[c]]
  /\ answer' = [c \in Clients |-> IF c \in TcpClients THEN None ELSE answer[c]]
  /\ UNCHANGED <<monitor, boots, fill, shown, kills>>

(* The operator stops the server with a signal ... *)
ServerKilled == up /\ boots < MaxBoots /\ Down

(* ... and starts it again. *)
Restart ==
  /\ ~up /\ boots < MaxBoots
  /\ up' = TRUE /\ boots' = boots + 1
  /\ UNCHANGED <<monitor, serverVars, lq, dgrams, clientVars, wireVars>>
-----------------------------------------------------------------------------
(* run_select, run_poll, run_epoll.                                        *)

Ready(p) == IF p = "tcp" THEN lq # <<>> ELSE dgrams # <<>>

(* What a monitor's loop finds to look at, in its order.  epoll fills its  *)
(* array in the order the sockets became ready; the loop of run_poll tests *)
(* fds[0], the TCP socket, in both of its branches.                        *)
Reports == [select |-> {<<"tcp">>, <<"udp">>, <<"tcp", "udp">>},
            poll   |-> {<<"tcp">>},
            epoll  |-> {<<"tcp">>, <<"udp">>, <<"tcp", "udp">>, <<"udp", "tcp">>}]

Wait ==
  /\ up /\ spc = "monitor" /\ events = <<>>
  /\ \E r \in Reports[monitor] :
       /\ \A p \in {"tcp", "udp"} :
            IF \E i \in 1..Len(r) : r[i] = p THEN Ready(p)
                                           ELSE monitor # "poll" => ~Ready(p)
       /\ events' = r
  /\ UNCHANGED <<processVars, spc, peer, text, lq, dgrams, clientVars, wireVars>>

(* Mutant of TcpAccept: the event looked at is not dropped. *)
TcpAcceptKeepsEvent ==
  /\ up /\ spc = "monitor" /\ events # <<>> /\ Head(events) = "tcp" /\ lq # <<>>
  /\ lq' = Tail(lq)
  /\ peer' = Head(lq) /\ conn' = [conn EXCEPT ![Head(lq)] = "open"]
  /\ spc' = "tcp"
  /\ UNCHANGED <<processVars, events, text, dgrams, clientVars, request, answer>>

(* communicate_tcp accepts one client. *)
TcpAccept ==
  /\ up /\ spc = "monitor" /\ events # <<>> /\ Head(events) = "tcp" /\ lq # <<>>
  /\ events' = Tail(events)
  /\ lq' = Tail(lq)
  /\ peer' = Head(lq) /\ conn' = [conn EXCEPT ![Head(lq)] = "open"]
  /\ spc' = "tcp"
  /\ UNCHANGED <<processVars, text, dgrams, clientVars, request, answer>>

(* Mutant of UdpBegin: the branch does not run. *)
UdpBeginMissed ==
  /\ up /\ spc = "monitor" /\ events # <<>> /\ Head(events) = "udp"
  /\ events' = Tail(events)
  /\ UNCHANGED <<processVars, spc, peer, text, lq, dgrams, clientVars, wireVars>>

(* communicate_udp begins; its loop has no way out. *)
UdpBegin ==
  /\ up /\ spc = "monitor" /\ events # <<>> /\ Head(events) = "udp"
  /\ events' = Tail(events)
  /\ spc' = "udp"
  /\ UNCHANGED <<processVars, peer, text, lq, dgrams, clientVars, wireVars>>
-----------------------------------------------------------------------------
(* communicate_tcp, its loop.                                              *)

TcpReceives ==
  /\ up /\ spc = "tcp" /\ request[peer] \in Messages
  /\ text' = request[peer]
  /\ request' = [request EXCEPT ![peer] = None]
  /\ spc' = "tcp_reply"
  /\ UNCHANGED <<processVars, events, peer, lq, dgrams, clientVars, conn, answer>>

(* The text that was announced does not come: recv returns 0 for ever. *)
TcpSpins ==
  /\ up /\ spc = "tcp" /\ request[peer] = Half
  /\ spc' = "spin"
  /\ UNCHANGED <<processVars, events, peer, text, lq, dgrams, clientVars, wireVars>>

(* Mutant of TcpReplies: the message answered is not forgotten. *)
TcpRepliesKeeps ==
  /\ up /\ spc = "tcp_reply"
  /\ answer' = [answer EXCEPT ![peer] = IF cpc[peer] = "gone" THEN None ELSE Prefixed(text)]
  /\ spc' = "tcp"
  /\ UNCHANGED <<processVars, events, peer, text, lq, dgrams, clientVars, conn, request>>

(* A client that is gone gets nothing. *)
TcpReplies ==
  /\ up /\ spc = "tcp_reply"
  /\ answer' = [answer EXCEPT ![peer] = IF cpc[peer] = "gone" THEN None ELSE Prefixed(text)]
  /\ text' = None
  /\ spc' = "tcp"
  /\ UNCHANGED <<processVars, events, peer, lq, dgrams, clientVars, conn, request>>

(* send fails with ECONNRESET, or raises SIGPIPE. *)
TcpReplyFails == up /\ spc = "tcp_reply" /\ cpc[peer] = "gone" /\ Down

(* Mutant of TcpEnds: the connection is not closed. *)
TcpEndsOpen ==
  /\ up /\ spc = "tcp" /\ request[peer] = None /\ cpc[peer] = "gone" /\ conn[peer] = "open"
  /\ peer' = None
  /\ spc' = "monitor"
  /\ UNCHANGED <<processVars, events, text, lq, dgrams, clientVars, wireVars>>

(* Mutant of TcpEnds: the end of a stream is taken for an error. *)
TcpEndsExits ==
  /\ up /\ spc = "tcp" /\ request[peer] = None /\ cpc[peer] = "gone" /\ conn[peer] = "open"
  /\ Down

(* Mutant of TcpEnds: the loop is not left. *)
TcpEndsStays ==
  /\ up /\ spc = "tcp" /\ request[peer] = None /\ cpc[peer] = "gone" /\ conn[peer] = "open"
  /\ UNCHANGED vars

(* Mutant of TcpEnds: what the client sent last is not read first. *)
TcpEndsUnread ==
  /\ up /\ spc = "tcp" /\ cpc[peer] = "gone" /\ conn[peer] = "open"
  /\ conn' = [conn EXCEPT ![peer] = "none"]
  /\ peer' = None
  /\ spc' = "monitor"
  /\ UNCHANGED <<processVars, events, text, lq, dgrams, clientVars, request, answer>>

TcpEnds ==
  /\ up /\ spc = "tcp" /\ request[peer] = None /\ cpc[peer] = "gone" /\ conn[peer] = "open"
  /\ conn' = [conn EXCEPT ![peer] = "none"]
  /\ peer' = None
  /\ spc' = "monitor"
  /\ UNCHANGED <<processVars, events, text, lq, dgrams, clientVars, request, answer>>

(* recv fails with ECONNRESET. *)
TcpReadFails == up /\ spc = "tcp" /\ conn[peer] = "reset" /\ Down
-----------------------------------------------------------------------------
(* communicate_udp, its loop.                                              *)

UdpReceives ==
  /\ up /\ spc = "udp" /\ dgrams # <<>> /\ Head(dgrams).text # 0
  /\ peer' = Head(dgrams).from /\ text' = Head(dgrams).text
  /\ dgrams' = Tail(dgrams)
  /\ spc' = "udp_reply"
  /\ UNCHANGED <<processVars, events, lq, clientVars, wireVars>>

(* recvfrom returns 0 for an empty datagram, recv_udp returns NULL, and    *)
(* edit_message takes its length.                                          *)
UdpFaults == up /\ spc = "udp" /\ dgrams # <<>> /\ Head(dgrams).text = 0 /\ Down

(* Mutant of UdpReplies: the message is kept and answered again. *)
UdpRepliesAgain ==
  /\ up /\ spc = "udp_reply"
  /\ answer' = [answer EXCEPT ![peer] = IF cpc[peer] = "gone" THEN None ELSE Prefixed(text)]
  /\ UNCHANGED <<processVars, serverVars, lq, dgrams, clientVars, conn, request>>

(* sendto: no error comes back from a client that is gone. *)
UdpReplies ==
  /\ up /\ spc = "udp_reply"
  /\ answer' = [answer EXCEPT ![peer] = IF cpc[peer] = "gone" THEN None ELSE Prefixed(text)]
  /\ peer' = None /\ text' = None
  /\ spc' = "udp"
  /\ UNCHANGED <<processVars, events, lq, dgrams, clientVars, conn, request>>
-----------------------------------------------------------------------------
(* The client programs.                                                    *)

TcpConnects(c) ==
  /\ cpc[c] = "start" /\ up /\ Len(lq) <= Backlog
  /\ lq' = Append(lq, c)
  /\ conn' = [conn EXCEPT ![c] = "backlog"]
  /\ cpc' = [cpc EXCEPT ![c] = "ready"]
  /\ UNCHANGED <<processVars, serverVars, dgrams, asked, fill, shown, kills, request, answer>>

TcpRefused(c) ==
  /\ cpc[c] = "start" /\ ~up
  /\ cpc' = [cpc EXCEPT ![c] = "gone"]
  /\ UNCHANGED <<processVars, serverVars, lq, dgrams, asked, fill, shown, kills, wireVars>>

TcpAsks(c) ==
  /\ cpc[c] = "ready"
  /\ \E m \in Messages : /\ asked' = [asked EXCEPT ![c] = m]
                         /\ request' = [request EXCEPT ![c] = m]
  /\ cpc' = [cpc EXCEPT ![c] = "await"]
  /\ UNCHANGED <<processVars, serverVars, lq, dgrams, fill, shown, kills, conn, answer>>

(* A datagram that finds no room is dropped, and nobody notices. *)
UdpAsks(c) ==
  /\ cpc[c] = "ready" /\ up
  /\ \E m \in Messages :
       /\ asked' = [asked EXCEPT ![c] = m]
       /\ dgrams' = IF Len(dgrams) = UdpSlots THEN dgrams
                                              ELSE Append(dgrams, [from |-> c, text |-> m])
  /\ cpc' = [cpc EXCEPT ![c] = "await"]
  /\ UNCHANGED <<processVars, serverVars, lq, fill, shown, kills, wireVars>>

(* Nobody has the port: recv fails with ECONNREFUSED. *)
UdpRefused(c) ==
  /\ cpc[c] = "ready" /\ ~up
  /\ cpc' = [cpc EXCEPT ![c] = "gone"]
  /\ UNCHANGED <<processVars, serverVars, lq, dgrams, asked, fill, shown, kills, wireVars>>

TcpTakes(c) ==
  /\ cpc[c] = "await" /\ answer[c] # None
  /\ asked' = [asked EXCEPT ![c] = None] /\ answer' = [answer EXCEPT ![c] = None]
  /\ cpc' = [cpc EXCEPT ![c] = "ready"]
  /\ UNCHANGED <<processVars, serverVars, lq, dgrams, fill, shown, kills, conn, request>>

(* recv_message cuts the reply at the size of its buffer and does not end  *)
(* it with a NUL.  malloc returns the buffer of the last reply: what is    *)
(* printed ends where this reply ends, or where the longest so far did.    *)
UdpTakes(c) ==
  LET r == ReplyLength(asked[c])
      n == IF r < BufferSize THEN r ELSE BufferSize
      w == IF n < fill[c] THEN fill[c] ELSE n IN
  /\ cpc[c] = "await" /\ answer[c] # None
  /\ asked' = [asked EXCEPT ![c] = None] /\ answer' = [answer EXCEPT ![c] = None]
  /\ fill' = [fill EXCEPT ![c] = w]
  /\ \E k \in {n, w} : shown' = [shown EXCEPT ![c] = k]
  /\ cpc' = [cpc EXCEPT ![c] = "ready"]
  /\ UNCHANGED <<processVars, serverVars, lq, dgrams, kills, conn, request>>

(* fgets meets the end of input: print_error exits between two requests. *)
Quits(c) ==
  /\ cpc[c] = "ready"
  /\ cpc' = [cpc EXCEPT ![c] = "gone"]
  /\ UNCHANGED <<processVars, serverVars, lq, dgrams, asked, fill, shown, kills, wireVars>>

(* A TCP client killed with a reply unread, or the length of one that is   *)
(* being sent, resets its connection.                                      *)
Replying(c) == spc = "tcp_reply" /\ peer = c

Killed(c) ==
  /\ cpc[c] \in {"ready", "await"} /\ kills < MaxKills
  /\ kills' = kills + 1
  /\ cpc' = [cpc EXCEPT ![c] = "gone"]
  /\ asked' = [asked EXCEPT ![c] = None] /\ answer' = [answer EXCEPT ![c] = None]
  /\ \/ (c \in UdpClients \/ answer[c] = None) /\ UNCHANGED conn
     \/ /\ c \in TcpClients /\ (answer[c] # None \/ Replying(c))
        /\ conn' = [conn EXCEPT ![c] = "reset"]
  /\ UNCHANGED <<processVars, serverVars, lq, dgrams, fill, shown, request>>

(* A TCP client is killed between the two sends of its message. *)
CutOff(c) ==
  /\ cpc[c] = "ready" /\ kills < MaxKills
  /\ kills' = kills + 1
  /\ cpc' = [cpc EXCEPT ![c] = "gone"]
  /\ request' = [request EXCEPT ![c] = Half]
  /\ UNCHANGED <<processVars, serverVars, lq, dgrams, asked, fill, shown, conn, answer>>
-----------------------------------------------------------------------------
Server ==
  \/ Wait \/ TcpAccept \/ UdpBegin
  \/ TcpReceives \/ TcpReplies \/ TcpEnds \/ TcpSpins \/ TcpReplyFails \/ TcpReadFails
  \/ UdpReceives \/ UdpReplies \/ UdpFaults

Next ==
  \/ Server \/ ServerKilled \/ Restart
  \/ \E c \in TcpClients : \/ TcpConnects(c) \/ TcpRefused(c) \/ TcpAsks(c) \/ TcpTakes(c)
                           \/ CutOff(c)
  \/ \E c \in UdpClients : UdpAsks(c) \/ UdpRefused(c) \/ UdpTakes(c)
  \/ \E c \in Clients : Quits(c) \/ Killed(c)

Spec == Init /\ [][Next]_vars

(* The processes are scheduled. *)
Fairness ==
  /\ WF_vars(Server)
  /\ \A c \in TcpClients : WF_vars(TcpTakes(c))
  /\ \A c \in UdpClients : WF_vars(UdpTakes(c))

(* Users leave after a while. *)
PatientSpec == Spec /\ Fairness /\ \A c \in Clients : SF_vars(Quits(c))
-----------------------------------------------------------------------------
(* Properties.                                                             *)

TypeOK ==
  /\ monitor \in Monitors /\ up \in BOOLEAN /\ boots \in 1..MaxBoots
  /\ spc \in {"monitor", "tcp", "tcp_reply", "udp", "udp_reply", "spin"}
  /\ events \in Seq({"tcp", "udp"}) /\ Len(events) <= 2
  /\ peer \in Clients \cup {None}
  /\ text \in Messages \cup {None} /\ (text # None <=> spc \in {"tcp_reply", "udp_reply"})
  /\ (spc \in {"tcp", "tcp_reply", "spin"} => peer \in TcpClients)
  /\ (spc = "udp_reply" => peer \in UdpClients)
  /\ lq \in Seq(TcpClients)
  /\ dgrams \in Seq(Datagram) /\ Len(dgrams) <= UdpSlots
  /\ cpc \in [Clients -> {"start", "ready", "await", "gone"}]
  /\ conn \in [TcpClients -> {"none", "backlog", "open", "reset"}]
  /\ request \in [TcpClients -> Messages \cup {Half, None}]
  /\ asked \in [Clients -> Messages \cup {None}]
  /\ answer \in [Clients -> {Prefixed(m) : m \in Messages} \cup {None}]
  /\ fill \in [UdpClients -> 0..BufferSize] /\ shown \in [UdpClients -> 0..BufferSize]
  /\ kills \in 0..MaxKills

(* The monitor reports its sockets at once and the loop uses the report    *)
(* after a conversation of any length: what is left of it still is true,   *)
(* so that accept never blocks while datagrams wait.                       *)
ReportStaysTrue == \A i \in 1..Len(events) : Ready(events[i])

(* One client is talked to at a time, over a TCP connection of its own,    *)
(* and no descriptor survives the conversation.                            *)
OneDescriptor ==
  \A c \in TcpClients :
    conn[c] \in {"open", "reset"} => c = peer /\ spc \in {"tcp", "tcp_reply", "spin"}

(* In its last run only a killed client or an empty datagram ends the      *)
(* server, whatever else clients do.                                       *)
DownHasACause ==
  [][up /\ ~up' /\ boots = MaxBoots
       => kills > 0 \/ (spc = "udp" /\ Head(dgrams).text = 0)]_vars

(* The server keeps the promise of the echo service to clients of both     *)
(* protocols, in each of its three builds.                                 *)
Echo == INSTANCE EchoService WITH asked <- asked, answer <- answer
EchoRefinement == Echo!EchoSpec

(* Each TCP client has one conversation of whole messages, as Framing      *)
(* shows it for the calls of send and recv, although the server serves     *)
(* them one after the other and datagrams between them.                    *)
Over(c) == cpc[c] = "gone" /\ conn[c] = "none"
ClientIs(c) == IF cpc[c] = "start" THEN "ready" ELSE cpc[c]
ThreadIs(c) == IF Over(c) THEN "done"
               ELSE IF peer = c /\ spc = "tcp_reply" THEN "reply"
               ELSE IF peer = c /\ spc = "spin" THEN "spin" ELSE "recv"
Held(c) == IF peer = c THEN text ELSE None
End(c) == IF Over(c) THEN "none" ELSE IF conn[c] = "reset" THEN "reset" ELSE "open"

Conv(c) == INSTANCE Conversation WITH
  cpc <- ClientIs(c), tpc <- ThreadIs(c), text <- Held(c), conn <- End(c),
  request <- request[c], asked <- asked[c], answer <- answer[c]

ConversationRefinement ==
  /\ \A c \in TcpClients : Conv(c)!Init
  /\ [][\A c \in TcpClients : [Conv(c)!Next]_(Conv(c)!vars)]_vars

Lost == ~up \/ spc = "spin"
Sent(c) == \E i \in 1..Len(dgrams) : dgrams[i].from = c

(* A datagram that was not dropped is answered with select and with epoll, *)
(* unless an empty one is in front of it.  With poll it waits for ever:    *)
(* run_poll tests fds[0], the TCP socket, in both branches.                *)
DatagramAnswered ==
  \A c \in UdpClients :
    Sent(c) /\ monitor # "poll" ~> answer[c] # None \/ cpc[c] = "gone" \/ Lost

(* A TCP client is accepted, unless a datagram has come before.            *)
ConnectionAccepted ==
  \A c \in TcpClients :
    conn[c] = "backlog" ~> conn[c] # "backlog" \/ spc \in {"udp", "udp_reply"} \/ Lost
-----------------------------------------------------------------------------
(* What the documentation says and the code does not do.                   *)

(* client_udp, recv_message, "string (message) if successful": the client  *)
(* prints the reply that was sent, all of it and nothing else.             *)
RepliesArePrinted ==
  [][\A c \in UdpClients :
       answer[c] # None /\ answer'[c] = None /\ cpc'[c] = "ready"
         => shown'[c] = ReplyLength(asked[c])]_vars

=============================================================================
