-------------------------- MODULE MultiplexerProofs --------------------------
(***************************************************************************)
(* Theorems about Multiplexer, for every number of clients of each         *)
(* protocol, every set of messages and of monitors, and every size of the  *)
(* buffers.                                                                *)
(*                                                                         *)
(* MuxInv is the inductive invariant.  Reported is what keeps the report   *)
(* of the monitor true: a socket is in it once, and not any more when its  *)
(* branch runs.  Placed follows the message of a client through the        *)
(* server.  Connected says which connections are open.                     *)
(* Closed, an invariant next to it, says what a closed connection leaves.  *)
(***************************************************************************)
EXTENDS Multiplexer, SequenceTheorems, TLAPS

(* Messages and replies are told from the value for none. *)
LEMMA NothingElse ==
  /\ TcpClients \cap UdpClients = {} /\ None \notin Clients
  /\ Messages \subseteq Nat /\ None \notin Messages /\ Half # None /\ Half \notin Messages
  /\ \A m \in Messages : Prefixed(m) # None
  /\ Monitors \subseteq {"select", "poll", "epoll"} /\ BufferSize \in Nat
  /\ UdpSlots \in Nat \ {0} /\ MaxKills \in Nat /\ MaxBoots \in Nat \ {0}
  BY MuxAssumption

(* A socket is reported once, and communicate_udp leaves nothing to do. *)
Reported ==
  /\ \A i \in 1..Len(events) : \A j \in 1..Len(events) : events[i] = events[j] => i = j
  /\ spc \in {"udp", "udp_reply"} => \A i \in 1..Len(events) : events[i] # "udp"

(* Where the message of client c may be. *)
InSocket(c) == c \in TcpClients /\ request[c] # None
InServer(c) == text # None /\ peer = c
InBuffer(c, i) == dgrams[i].from = c
Answered(c) == answer[c] # None

Nowhere(c) ==
  /\ ~InSocket(c) /\ ~InServer(c) /\ ~Answered(c)
  /\ \A i \in 1..Len(dgrams) : ~InBuffer(c, i)

(* No two of them at once. *)
Apart(c) ==
  /\ InSocket(c) => ~InServer(c) /\ ~Answered(c)
  /\ InServer(c) => ~Answered(c)
  /\ \A i \in 1..Len(dgrams) :
       InBuffer(c, i) => /\ ~InServer(c) /\ ~Answered(c)
                         /\ \A j \in 1..Len(dgrams) : InBuffer(c, j) => i = j

(* What is there is what the client has asked. *)
Same(c) ==
  /\ InSocket(c) => request[c] = asked[c]
  /\ InServer(c) => text = asked[c]
  /\ \A i \in 1..Len(dgrams) : InBuffer(c, i) => dgrams[i].text = asked[c]

(* A client that waits has its message in one place at most (its datagram  *)
(* may have been dropped), one that types in none, and one that has left   *)
(* in some only if clients are killed.                                     *)
Placed(c) ==
  /\ cpc[c] = "await" <=> asked[c] # None
  /\ cpc[c] = "await" => Apart(c) /\ Same(c)
  /\ cpc[c] \in {"start", "ready"} => Nowhere(c)
  /\ cpc[c] = "gone" => ~Answered(c)
  /\ kills = 0 /\ cpc[c] = "gone" => Nowhere(c)

UnderWay == \A c \in Clients : Placed(c)

Talking == spc \in {"tcp", "tcp_reply", "spin"}

Connected ==
  /\ Talking => conn[peer] \in {"open", "reset"}
  /\ \A c \in TcpClients :
       /\ Answered(c) => conn[c] = "open"
       /\ conn[c] = "reset" => cpc[c] = "gone" /\ kills > 0
       /\ cpc[c] = "start" => conn[c] = "none"

(* A connection that waits for accept is known to nobody. *)
Waiting ==
  \A i \in 1..Len(lq) :
    conn[lq[i]] = "backlog" /\ \A j \in 1..Len(lq) : lq[i] = lq[j] => i = j

MuxInv ==
  /\ TypeOK /\ ReportStaysTrue /\ Reported /\ OneDescriptor
  /\ UnderWay /\ Connected /\ Waiting

USE DEF vars, processVars, serverVars, clientVars, wireVars
-----------------------------------------------------------------------------
(* Steps.                                                                  *)

(* A step is the end of the process or one of these actions. *)
LEMMA StepCases ==
  ASSUME [Next]_vars
  PROVE  \/ Wait \/ TcpAccept \/ UdpBegin \/ TcpReceives \/ TcpReplies \/ TcpEnds \/ TcpSpins
         \/ UdpReceives \/ UdpReplies \/ Restart \/ Down \/ UNCHANGED vars
         \/ \E c \in TcpClients : \/ TcpConnects(c) \/ TcpRefused(c) \/ TcpAsks(c)
                                  \/ TcpTakes(c) \/ CutOff(c)
         \/ \E c \in UdpClients : UdpAsks(c) \/ UdpRefused(c) \/ UdpTakes(c)
         \/ \E c \in Clients : Quits(c) \/ Killed(c)
  BY DEF Next, Server, ServerKilled, TcpReplyFails, TcpReadFails, UdpFaults

(* A client uses one protocol. *)
LEMMA TwoKinds ==
  /\ \A c \in TcpClients : c \in Clients /\ c \notin UdpClients /\ c # None
  /\ \A c \in UdpClients : c \in Clients /\ c \notin TcpClients /\ c # None
  /\ \A c \in Clients : c \in TcpClients \/ c \in UdpClients
  BY NothingElse DEF Clients

(* A client that is killed resets its connection only if it was open.      *)
LEMMA KilledConnection ==
  ASSUME MuxInv, NEW c \in Clients, Killed(c)
  PROVE  \/ UNCHANGED conn
         \/ /\ c \in TcpClients /\ conn[c] \in {"open", "reset"}
            /\ conn' = [conn EXCEPT ![c] = "reset"]
<1> Connected BY DEF MuxInv
<1>1. c \in TcpClients /\ answer[c] # None => conn[c] = "open" BY DEF Connected, Answered
<1>2. Replying(c) => conn[c] \in {"open", "reset"}
  BY DEF Connected, Replying, Talking
<1> QED BY <1>1, <1>2 DEF Killed

(* The head and the tail of a sequence that is not empty. *)
LEMMA HeadTail ==
  ASSUME NEW S, NEW q \in Seq(S), q # <<>>
  PROVE  /\ Head(q) \in S /\ Head(q) = q[1] /\ 1 \in 1..Len(q)
         /\ Tail(q) \in Seq(S) /\ Len(Tail(q)) = Len(q) - 1 /\ Len(q) \in Nat
         /\ \A i \in 1..Len(Tail(q)) : i + 1 \in 1..Len(q) /\ i + 1 # 1 /\ Tail(q)[i] = q[i + 1]
  OBVIOUS

(* What Append puts where. *)
LEMMA AtEnd ==
  ASSUME NEW S, NEW q \in Seq(S), NEW e \in S
  PROVE  /\ Append(q, e) \in Seq(S) /\ Len(Append(q, e)) = Len(q) + 1 /\ Len(q) \in Nat
         /\ Append(q, e)[Len(q) + 1] = e
         /\ \A i \in 1..Len(q) : Append(q, e)[i] = q[i]
         /\ \A i \in 1..Len(Append(q, e)) : i \in 1..Len(q) \/ i = Len(q) + 1
  OBVIOUS

(* A report names one socket or both, each once. *)
LEMMA ReportsAre ==
  ASSUME NEW m \in Monitors, NEW r \in Reports[m]
  PROVE  /\ r \in Seq({"tcp", "udp"}) /\ Len(r) <= 2
         /\ \A i \in 1..Len(r) : \A j \in 1..Len(r) : r[i] = r[j] => i = j
<1>1. r \in {<<"tcp">>, <<"udp">>, <<"tcp", "udp">>, <<"udp", "tcp">>}
  BY NothingElse DEF Reports
<1>2. CASE r = <<"tcp">> BY <1>2
<1>3. CASE r = <<"udp">> BY <1>3
<1>4. CASE r = <<"tcp", "udp">> BY <1>4
<1>5. CASE r = <<"udp", "tcp">> BY <1>5
<1> QED BY <1>1, <1>2, <1>3, <1>4, <1>5
-----------------------------------------------------------------------------
(* The parts of the invariant.                                             *)

(* Every step of the server, its operator and its clients keeps the types. *)
LEMMA TypeStep ==
  ASSUME MuxInv, [Next]_vars
  PROVE  TypeOK'
<1> TypeOK BY DEF MuxInv
<1> USE NothingElse, TwoKinds
<1>1. CASE Wait
  <2>1. events' \in Seq({"tcp", "udp"}) /\ Len(events') <= 2
    BY <1>1, ReportsAre DEF Wait, TypeOK
  <2> QED BY <1>1, <2>1 DEF Wait, TypeOK
<1>2. CASE TcpAccept
  <2>1. lq # <<>> /\ lq \in Seq(TcpClients) /\ events # <<>> /\ events \in Seq({"tcp", "udp"})
        /\ Len(events) <= 2
    BY <1>2 DEF TcpAccept, TypeOK
  <2>2. /\ Head(lq) \in TcpClients /\ Tail(lq) \in Seq(TcpClients)
        /\ Tail(events) \in Seq({"tcp", "udp"}) /\ Len(Tail(events)) <= 2
    BY <2>1, HeadTail
  <2> QED BY <1>2, <2>2 DEF TcpAccept, TypeOK
<1>3. CASE UdpBegin
  <2>1. events # <<>> /\ events \in Seq({"tcp", "udp"}) /\ Len(events) <= 2
    BY <1>3 DEF UdpBegin, TypeOK
  <2>2. Tail(events) \in Seq({"tcp", "udp"}) /\ Len(Tail(events)) <= 2
    BY <2>1, HeadTail
  <2> QED BY <1>3, <2>2 DEF UdpBegin, TypeOK
<1>4. CASE TcpReceives BY <1>4 DEF TcpReceives, TypeOK
<1>5. CASE TcpReplies BY <1>5 DEF TcpReplies, TypeOK
<1>6. CASE TcpEnds \/ TcpSpins BY <1>6 DEF TcpEnds, TcpSpins, TypeOK
<1>7. CASE UdpReceives
  <2>1. dgrams # <<>> /\ dgrams \in Seq(Datagram) /\ Len(dgrams) <= UdpSlots
    BY <1>7 DEF UdpReceives, TypeOK
  <2>2. Head(dgrams) \in Datagram /\ Tail(dgrams) \in Seq(Datagram) /\ Len(Tail(dgrams)) <= UdpSlots
    BY <2>1, HeadTail
  <2>3. Head(dgrams).from \in UdpClients /\ Head(dgrams).text \in Messages
    BY <2>2 DEF Datagram
  <2> QED BY <1>7, <2>2, <2>3 DEF UdpReceives, TypeOK
<1>8. CASE UdpReplies BY <1>8 DEF UdpReplies, TypeOK
<1>9. CASE Restart BY <1>9 DEF Restart, TypeOK
<1>10. CASE Down
  <2>1. /\ cpc' \in [Clients -> {"start", "ready", "await", "gone"}]
        /\ conn' \in [TcpClients -> {"none", "backlog", "open", "reset"}]
        /\ request' \in [TcpClients -> Messages \cup {Half, None}]
        /\ asked' \in [Clients -> Messages \cup {None}]
        /\ answer' \in [Clients -> {Prefixed(m) : m \in Messages} \cup {None}]
    BY <1>10 DEF Down, TypeOK
  <2>2. /\ lq' \in Seq(TcpClients) /\ dgrams' \in Seq(Datagram) /\ Len(dgrams') = 0
        /\ events' \in Seq({"tcp", "udp"}) /\ Len(events') = 0
    BY <1>10 DEF Down
  <2>3. /\ up' = FALSE /\ spc' = "monitor" /\ peer' = None /\ text' = None
        /\ UNCHANGED <<monitor, boots, fill, shown, kills>>
    BY <1>10 DEF Down
  <2>4. Len(events') <= 2 /\ Len(dgrams') <= UdpSlots BY <2>2
  <2> QED BY <2>1, <2>2, <2>3, <2>4 DEF TypeOK
<1>11. ASSUME NEW c \in TcpClients,
              \/ TcpConnects(c) \/ TcpRefused(c) \/ TcpAsks(c) \/ TcpTakes(c) \/ CutOff(c)
       PROVE  TypeOK'
  <2>1. CASE TcpConnects(c) BY <2>1 DEF TcpConnects, TypeOK
  <2>2. CASE TcpRefused(c) BY <2>2 DEF TcpRefused, TypeOK
  <2>3. CASE TcpAsks(c) BY <2>3 DEF TcpAsks, TypeOK
  <2>4. CASE TcpTakes(c) BY <2>4 DEF TcpTakes, TypeOK
  <2>5. CASE CutOff(c) BY <2>5 DEF CutOff, TypeOK
  <2> QED BY <1>11, <2>1, <2>2, <2>3, <2>4, <2>5
<1>12. ASSUME NEW c \in UdpClients, UdpAsks(c) PROVE TypeOK'
  <2>1. PICK m \in Messages :
          /\ asked' = [asked EXCEPT ![c] = m]
          /\ dgrams' = IF Len(dgrams) = UdpSlots THEN dgrams
                                                 ELSE Append(dgrams, [from |-> c, text |-> m])
    BY <1>12 DEF UdpAsks
  <2>2. [from |-> c, text |-> m] \in Datagram BY DEF Datagram
  <2>3. dgrams \in Seq(Datagram) /\ Len(dgrams) <= UdpSlots /\ Len(dgrams) \in Nat BY DEF TypeOK
  <2>4. dgrams' \in Seq(Datagram) /\ Len(dgrams') <= UdpSlots
    BY <2>1, <2>2, <2>3, AtEnd
  <2> QED BY <1>12, <2>1, <2>4 DEF UdpAsks, TypeOK
<1>13. ASSUME NEW c \in UdpClients, UdpTakes(c) PROVE TypeOK'
  <2> DEFINE r == ReplyLength(asked[c])
             n == IF r < BufferSize THEN r ELSE BufferSize
             w == IF n < fill[c] THEN fill[c] ELSE n
  <2>1. asked[c] \in Messages \cup {None} /\ fill[c] \in 0..BufferSize /\ answer[c] # None
    BY <1>13 DEF UdpTakes, TypeOK
  <2>2. asked[c] # None BY <1>13 DEF MuxInv, UnderWay, Placed, UdpTakes
  <2>3. r \in Nat
    <3>1. asked[c] \in Nat BY <2>1, <2>2
    <3> QED BY <3>1 DEF ReplyLength
  <2>4. n \in 0..BufferSize /\ w \in 0..BufferSize BY <2>1, <2>3
  <2>5. fill' = [fill EXCEPT ![c] = w] /\ \E k \in {n, w} : shown' = [shown EXCEPT ![c] = k]
    BY <1>13 DEF UdpTakes
  <2> HIDE DEF n, w
  <2>6. fill' \in [UdpClients -> 0..BufferSize] /\ shown' \in [UdpClients -> 0..BufferSize]
    BY <2>4, <2>5 DEF TypeOK
  <2> QED BY <1>13, <2>6 DEF UdpTakes, TypeOK
<1>14. ASSUME NEW c \in UdpClients, UdpRefused(c) PROVE TypeOK'
  BY <1>14 DEF UdpRefused, TypeOK
<1>15. ASSUME NEW c \in Clients, Quits(c) PROVE TypeOK'
  BY <1>15 DEF Quits, TypeOK
<1>16. ASSUME NEW c \in Clients, Killed(c) PROVE TypeOK'
  BY <1>16 DEF Killed, TypeOK
<1>17. CASE UNCHANGED vars BY <1>17 DEF TypeOK
<1> QED
  BY <1>1, <1>2, <1>3, <1>4, <1>5, <1>6, <1>7, <1>8, <1>9, <1>10, <1>11, <1>12, <1>13, <1>14,
     <1>15, <1>16, <1>17, StepCases

(* The monitor reports what is there; only the branch that looks at a      *)
(* socket takes something away from it, and it drops the report first.     *)
LEMMA ReportStep ==
  ASSUME MuxInv, [Next]_vars
  PROVE  ReportStaysTrue' /\ Reported'
<1> TypeOK /\ ReportStaysTrue /\ Reported BY DEF MuxInv
<1> USE DEF ReportStaysTrue, Reported
<1>0. /\ events \in Seq({"tcp", "udp"}) /\ lq \in Seq(TcpClients) /\ dgrams \in Seq(Datagram)
      /\ \A i \in 1..Len(events) : events[i] \in {"tcp", "udp"}
  BY DEF TypeOK
<1>1. CASE Wait
  <2>1. PICK r \in Reports[monitor] :
          /\ \A p \in {"tcp", "udp"} : (\E i \in 1..Len(r) : r[i] = p) => Ready(p)
          /\ events' = r
    BY <1>1 DEF Wait
  <2>2. /\ r \in Seq({"tcp", "udp"})
        /\ \A i \in 1..Len(r) : \A j \in 1..Len(r) : r[i] = r[j] => i = j
    BY ReportsAre DEF TypeOK
  <2>3. \A i \in 1..Len(r) : r[i] \in {"tcp", "udp"} BY <2>2
  <2>4. spc' = "monitor" /\ UNCHANGED <<lq, dgrams>> BY <1>1 DEF Wait
  <2>5. \A i \in 1..Len(r) : Ready(r[i]) BY <2>1, <2>3
  <2> QED BY <2>1, <2>2, <2>4, <2>5 DEF Ready
<1>2. CASE TcpAccept
  <2>1. /\ events # <<>> /\ Head(events) = "tcp" /\ events' = Tail(events) /\ spc' = "tcp"
        /\ UNCHANGED dgrams
    BY <1>2 DEF TcpAccept
  <2>2. /\ events[1] = "tcp" /\ 1 \in 1..Len(events)
        /\ \A i \in 1..Len(events') : /\ i + 1 \in 1..Len(events) /\ i + 1 # 1
                                      /\ events'[i] = events[i + 1]
    BY <1>0, <2>1, HeadTail
  <2>3. \A i \in 1..Len(events') : events'[i] = "udp" BY <1>0, <2>2
  <2>4. ASSUME NEW i \in 1..Len(events'), NEW j \in 1..Len(events') PROVE i = j
    <3>1. i + 1 = j + 1 BY <2>2, <2>3
    <3> QED BY <3>1
  <2>5. ASSUME NEW i \in 1..Len(events') PROVE dgrams' # <<>>
    <3>1. i + 1 \in 1..Len(events) /\ events[i + 1] = "udp" BY <2>2, <2>3
    <3>2. Ready(events[i + 1]) BY <3>1
    <3> QED BY <2>1, <3>1, <3>2 DEF Ready
  <2> QED BY <2>1, <2>3, <2>4, <2>5 DEF Ready
<1>3. CASE UdpBegin
  <2>1. /\ events # <<>> /\ Head(events) = "udp" /\ events' = Tail(events)
        /\ UNCHANGED lq
    BY <1>3 DEF UdpBegin
  <2>2. /\ events[1] = "udp" /\ 1 \in 1..Len(events)
        /\ \A i \in 1..Len(events') : /\ i + 1 \in 1..Len(events) /\ i + 1 # 1
                                      /\ events'[i] = events[i + 1]
    BY <1>0, <2>1, HeadTail
  <2>3. \A i \in 1..Len(events') : events'[i] = "tcp" BY <1>0, <2>2
  <2>4. ASSUME NEW i \in 1..Len(events'), NEW j \in 1..Len(events') PROVE i = j
    <3>1. i + 1 = j + 1 BY <2>2, <2>3
    <3> QED BY <3>1
  <2>5. ASSUME NEW i \in 1..Len(events') PROVE lq' # <<>>
    <3>1. i + 1 \in 1..Len(events) /\ events[i + 1] = "tcp" BY <2>2, <2>3
    <3>2. Ready(events[i + 1]) BY <3>1
    <3> QED BY <2>1, <3>1, <3>2 DEF Ready
  <2> QED BY <2>3, <2>4, <2>5 DEF Ready
<1>4. CASE UdpReceives
  <2>1. spc = "udp" /\ spc' = "udp_reply" /\ UNCHANGED <<events, lq>> BY <1>4 DEF UdpReceives
  <2>2. \A i \in 1..Len(events) : events[i] = "tcp" BY <1>0, <2>1
  <2> QED BY <2>1, <2>2 DEF Ready
<1>5. CASE UdpReplies \/ TcpReceives \/ TcpReplies \/ TcpEnds \/ TcpSpins
  <2>1. /\ UNCHANGED <<events, lq, dgrams>>
        /\ spc' \in {"udp", "udp_reply"} => spc \in {"udp", "udp_reply"}
    BY <1>5 DEF UdpReplies, TcpReceives, TcpReplies, TcpEnds, TcpSpins
  <2> QED BY <2>1 DEF Ready
<1>6. CASE Down
  <2>1. Len(events') = 0 BY <1>6 DEF Down
  <2> QED BY <2>1
<1>7. ASSUME NEW c \in TcpClients, TcpConnects(c) PROVE ReportStaysTrue' /\ Reported'
  <2>1. lq' = Append(lq, c) /\ UNCHANGED <<events, spc, dgrams>> BY <1>7 DEF TcpConnects
  <2>2. lq' # <<>> BY <1>0, <2>1
  <2> QED BY <2>1, <2>2 DEF Ready
<1>8. ASSUME NEW c \in UdpClients, UdpAsks(c) PROVE ReportStaysTrue' /\ Reported'
  <2>1. PICK m \in Messages :
          dgrams' = IF Len(dgrams) = UdpSlots THEN dgrams
                                              ELSE Append(dgrams, [from |-> c, text |-> m])
    BY <1>8 DEF UdpAsks
  <2>2. [from |-> c, text |-> m] \in Datagram BY DEF Datagram
  <2>3. dgrams # <<>> => dgrams' # <<>> BY <1>0, <2>1, <2>2
  <2>4. UNCHANGED <<events, spc, lq>> BY <1>8 DEF UdpAsks
  <2> QED BY <2>3, <2>4 DEF Ready
<1>9. CASE UNCHANGED <<events, spc, lq, dgrams>> BY <1>9 DEF Ready
<1> QED
  BY <1>1, <1>2, <1>3, <1>4, <1>5, <1>6, <1>7, <1>8, <1>9, StepCases
     DEF Restart, TcpRefused, TcpAsks, TcpTakes, CutOff, UdpRefused, UdpTakes, Quits, Killed

(* accept takes connections in the order they came, each once. *)
LEMMA WaitingStep ==
  ASSUME MuxInv, [Next]_vars
  PROVE  Waiting'
<1> TypeOK /\ Waiting /\ Connected BY DEF MuxInv
<1>0. lq \in Seq(TcpClients) /\ \A i \in 1..Len(lq) : lq[i] \in TcpClients
  BY DEF TypeOK
<1>1. CASE TcpAccept
  <2>1. lq # <<>> /\ lq' = Tail(lq) /\ conn' = [conn EXCEPT ![Head(lq)] = "open"]
    BY <1>1 DEF TcpAccept
  <2>2. /\ Head(lq) = lq[1] /\ 1 \in 1..Len(lq)
        /\ \A i \in 1..Len(lq') : i + 1 \in 1..Len(lq) /\ i + 1 # 1 /\ lq'[i] = lq[i + 1]
    BY <1>0, <2>1, HeadTail
  <2>3. \A i \in 1..Len(lq') : lq'[i] # lq[1] BY <2>2 DEF Waiting
  <2>4. \A d \in TcpClients : d # lq[1] => conn'[d] = conn[d] BY <2>1, <2>2 DEF TypeOK
  <2>5. \A i \in 1..Len(lq') : conn'[lq'[i]] = "backlog"
    BY <1>0, <2>2, <2>3, <2>4 DEF Waiting
  <2>6. ASSUME NEW i \in 1..Len(lq'), NEW j \in 1..Len(lq'), lq'[i] = lq'[j] PROVE i = j
    <3>1. i + 1 = j + 1 BY <2>2, <2>6 DEF Waiting
    <3> QED BY <3>1
  <2> QED BY <2>5, <2>6 DEF Waiting
<1>2. ASSUME NEW c \in TcpClients, TcpConnects(c) PROVE Waiting'
  <2>1. lq' = Append(lq, c) /\ conn' = [conn EXCEPT ![c] = "backlog"] /\ conn[c] = "none"
    BY <1>2 DEF TcpConnects, Connected
  <2>2. /\ Len(lq') = Len(lq) + 1 /\ lq'[Len(lq) + 1] = c
        /\ \A i \in 1..Len(lq) : lq'[i] = lq[i] /\ lq[i] # c
        /\ \A i \in 1..Len(lq') : i \in 1..Len(lq) \/ i = Len(lq) + 1
    BY <1>0, <2>1, AtEnd DEF Waiting
  <2>3. \A d \in TcpClients : conn'[d] = IF d = c THEN "backlog" ELSE conn[d]
    BY <2>1 DEF TypeOK
  <2> QED BY <1>0, <2>2, <2>3 DEF Waiting
<1>3. ASSUME lq' = lq, \A c \in TcpClients : conn[c] = "backlog" => conn'[c] = "backlog"
      PROVE  Waiting'
  BY <1>0, <1>3 DEF Waiting
<1>4. ASSUME NEW c \in Clients, Killed(c) PROVE Waiting'
  <2>1. lq' = lq
    BY <1>4 DEF Killed
  <2>2. \A d \in TcpClients : conn[d] = "backlog" => conn'[d] = "backlog"
    BY <1>4, KilledConnection DEF TypeOK
  <2> QED BY <1>3, <2>1, <2>2
<1>5. CASE Down
  <2>1. Len(lq') = 0 BY <1>5 DEF Down
  <2> QED BY <2>1 DEF Waiting
<1>6. CASE TcpEnds
  <2>1. lq' = lq /\ conn[peer] = "open" /\ conn' = [conn EXCEPT ![peer] = "none"] /\ peer \in TcpClients
    BY <1>6 DEF TcpEnds, TypeOK
  <2>2. \A d \in TcpClients : conn[d] = "backlog" => conn'[d] = "backlog"
    BY <2>1 DEF TypeOK
  <2> QED BY <1>3, <2>1, <2>2
<1>7. CASE UNCHANGED <<lq, conn>> BY <1>3, <1>7
<1> QED
  BY <1>1, <1>2, <1>4, <1>5, <1>6, <1>7, StepCases
     DEF Wait, UdpBegin, TcpReceives, TcpReplies, TcpSpins, UdpReceives, UdpReplies, Restart,
         TcpRefused, TcpAsks, TcpTakes, CutOff, UdpAsks, UdpRefused, UdpTakes, Quits

(* A connection is opened when the last one has been closed. *)
LEMMA DescriptorStep ==
  ASSUME MuxInv, [Next]_vars
  PROVE  OneDescriptor'
<1> TypeOK /\ OneDescriptor /\ Connected BY DEF MuxInv
<1> USE DEF OneDescriptor
<1>1. CASE TcpAccept
  <2>1. /\ lq # <<>> /\ conn' = [conn EXCEPT ![Head(lq)] = "open"] /\ peer' = Head(lq)
        /\ spc = "monitor" /\ spc' = "tcp"
    BY <1>1 DEF TcpAccept
  <2> QED BY <2>1 DEF TypeOK
<1>2. CASE TcpEnds
  BY <1>2 DEF TcpEnds, TypeOK
<1>3. CASE Down BY <1>3 DEF Down
<1>4. ASSUME NEW c \in TcpClients, TcpConnects(c) PROVE OneDescriptor'
  BY <1>4 DEF TcpConnects, TypeOK
<1>5. ASSUME NEW c \in Clients, Killed(c) PROVE OneDescriptor'
  <2>1. UNCHANGED <<spc, peer>>
    BY <1>5 DEF Killed
  <2>2. \A d \in TcpClients : conn'[d] = "reset" => conn[d] \in {"open", "reset"}
    BY <1>5, KilledConnection DEF TypeOK
  <2>3. \A d \in TcpClients : conn'[d] = "open" => conn[d] = "open"
    BY <1>5, KilledConnection DEF TypeOK
  <2> QED BY <2>1, <2>2, <2>3
<1>6. CASE UNCHANGED conn /\ (Talking => Talking' /\ UNCHANGED peer)
  BY <1>6 DEF Talking
<1> QED
  BY <1>1, <1>2, <1>3, <1>4, <1>5, <1>6, StepCases
     DEF Wait, UdpBegin, TcpReceives, TcpReplies, TcpSpins, UdpReceives, UdpReplies, Restart,
         TcpRefused, TcpAsks, TcpTakes, CutOff, UdpAsks, UdpRefused, UdpTakes, Quits, Talking

(* The connection talked over is open, and a reply goes to it only. *)
LEMMA ConnectedStep ==
  ASSUME MuxInv, [Next]_vars
  PROVE  Connected'
<1> TypeOK /\ Connected /\ UnderWay /\ Waiting BY DEF MuxInv
<1> USE NothingElse, TwoKinds
<1>0. /\ \A c \in TcpClients : Placed(c)
      /\ Talking => peer \in TcpClients
      /\ kills \in Nat
  BY DEF UnderWay, Talking, TypeOK
<1>1. CASE TcpAccept
  <2>1. PICK c : c = Head(lq) OBVIOUS
  <2>2. lq # <<>> /\ lq \in Seq(TcpClients) BY <1>1 DEF TcpAccept, TypeOK
  <2>3. c \in TcpClients /\ conn[c] = "backlog" BY <2>1, <2>2, HeadTail DEF Waiting
  <2>4. /\ UNCHANGED <<answer, cpc, kills>> /\ peer' = c
        /\ \A d \in TcpClients : conn'[d] = IF d = c THEN "open" ELSE conn[d]
    BY <1>1, <2>1, <2>3 DEF TcpAccept, TypeOK
  <2>5. cpc[c] # "start" BY <2>3 DEF Connected
  <2> QED BY <2>3, <2>4, <2>5 DEF Connected, Answered
<1>2. CASE TcpReplies
  <2>1. /\ spc' = "tcp" /\ Talking /\ UNCHANGED <<peer, conn, cpc, kills>> /\ peer \in TcpClients
        /\ answer' = [answer EXCEPT ![peer] = IF cpc[peer] = "gone" THEN None ELSE Prefixed(text)]
    BY <1>2 DEF TcpReplies, Talking, TypeOK
  <2>2. \A d \in TcpClients : d # peer => answer'[d] = answer[d] BY <2>1 DEF TypeOK
  <2>3. answer'[peer] # None => conn[peer] = "open"
    BY <2>1 DEF Connected, TypeOK
  <2>4. \A d \in TcpClients : answer'[d] # None => conn[d] = "open"
    BY <2>2, <2>3 DEF Connected, Answered
  <2> QED BY <2>1, <2>4 DEF Connected, Answered
<1>3. CASE UdpReplies
  <2>1. /\ spc' = "udp" /\ UNCHANGED <<conn, cpc, kills>>
        /\ \A d \in TcpClients : answer'[d] = answer[d]
    BY <1>3 DEF UdpReplies, TypeOK
  <2> QED BY <2>1 DEF Connected, Answered, Talking
<1>4. CASE TcpEnds
  <2>1. /\ spc' = "monitor" /\ UNCHANGED <<answer, cpc, kills>> /\ peer \in TcpClients
        /\ cpc[peer] = "gone" /\ conn' = [conn EXCEPT ![peer] = "none"]
    BY <1>4 DEF TcpEnds, TypeOK
  <2>2. ~Answered(peer) BY <1>0, <2>1 DEF Placed
  <2>3. \A d \in TcpClients : conn'[d] = IF d = peer THEN "none" ELSE conn[d]
    BY <2>1 DEF TypeOK
  <2> QED BY <2>1, <2>2, <2>3 DEF Connected, Answered, Talking
<1>5. CASE Down BY <1>5 DEF Down, Connected, Answered, Talking
<1>6. ASSUME UNCHANGED <<conn, answer, cpc, kills>>, Talking' => Talking /\ UNCHANGED peer
      PROVE  Connected'
  BY <1>6 DEF Connected, Answered
<1>7. ASSUME NEW c \in Clients, UNCHANGED <<spc, peer>>, kills' \in Nat, kills' >= kills,
             \A d \in TcpClients : d # c =>
               conn'[d] = conn[d] /\ cpc'[d] = cpc[d] /\ answer'[d] = answer[d],
             c \in TcpClients =>
               /\ conn[c] \in {"open", "reset"} => conn'[c] \in {"open", "reset"}
               /\ answer'[c] # None => conn'[c] = "open"
               /\ conn'[c] = "reset" => cpc'[c] = "gone" /\ kills' > 0
               /\ cpc'[c] = "start" => conn'[c] = "none"
      PROVE  Connected'
  <2>1. Talking' => conn'[peer] \in {"open", "reset"}
    BY <1>0, <1>7 DEF Connected, Talking
  <2>2. \A d \in TcpClients : d # c =>
          /\ answer'[d] # None => conn'[d] = "open"
          /\ conn'[d] = "reset" => cpc'[d] = "gone" /\ kills' > 0
          /\ cpc'[d] = "start" => conn'[d] = "none"
    BY <1>0, <1>7 DEF Connected, Answered
  <2> QED BY <1>7, <2>1, <2>2 DEF Connected, Answered
<1>8. ASSUME NEW c \in TcpClients,
             \/ TcpConnects(c) \/ TcpRefused(c) \/ TcpAsks(c) \/ TcpTakes(c) \/ CutOff(c)
      PROVE  Connected'
  <2>1. CASE TcpConnects(c)
    <3>1. conn[c] = "none" /\ ~Answered(c) BY <2>1 DEF TcpConnects, Connected
    <3>2. /\ UNCHANGED <<spc, peer, kills, answer>>
          /\ conn'[c] = "backlog" /\ cpc'[c] = "ready"
          /\ \A d \in TcpClients : d # c => conn'[d] = conn[d] /\ cpc'[d] = cpc[d]
      BY <2>1 DEF TcpConnects, TypeOK
    <3> QED BY <1>0, <1>7, <3>1, <3>2 DEF Answered
  <2>2. CASE TcpRefused(c)
    BY <1>0, <1>7, <2>2 DEF TcpRefused, Answered, TypeOK, Connected
  <2>3. CASE TcpAsks(c)
    <3>1. /\ UNCHANGED <<spc, peer, kills, answer, conn>>
          /\ cpc[c] = "ready" /\ cpc'[c] = "await"
          /\ \A d \in TcpClients : d # c => cpc'[d] = cpc[d]
      BY <2>3 DEF TcpAsks, TypeOK
    <3> QED BY <1>0, <1>7, <3>1 DEF Answered, Connected
  <2>4. CASE TcpTakes(c)
    BY <1>0, <1>7, <2>4 DEF TcpTakes, Answered, TypeOK, Connected
  <2>5. CASE CutOff(c)
    BY <1>0, <1>7, <2>5 DEF CutOff, Answered, TypeOK, Connected
  <2> QED BY <1>8, <2>1, <2>2, <2>3, <2>4, <2>5
<1>9. ASSUME NEW c \in UdpClients, UdpAsks(c) \/ UdpRefused(c) \/ UdpTakes(c) PROVE Connected'
  <2>1. UNCHANGED <<spc, peer, kills, conn>>
    BY <1>9 DEF UdpAsks, UdpRefused, UdpTakes
  <2>2. \A d \in TcpClients : cpc'[d] = cpc[d] /\ answer'[d] = answer[d]
    BY <1>9 DEF UdpAsks, UdpRefused, UdpTakes, TypeOK
  <2> QED BY <1>0, <1>7, <2>1, <2>2
<1>10. ASSUME NEW c \in Clients, Quits(c) PROVE Connected'
  BY <1>0, <1>7, <1>10 DEF Quits, Answered, TypeOK, Connected
<1>11. ASSUME NEW c \in Clients, Killed(c) PROVE Connected'
  <2>1. /\ UNCHANGED <<spc, peer>> /\ kills' = kills + 1
        /\ \A d \in Clients : d # c => cpc'[d] = cpc[d] /\ answer'[d] = answer[d]
        /\ cpc'[c] = "gone" /\ answer'[c] = None
    BY <1>11 DEF Killed, TypeOK
  <2>2. \A d \in TcpClients :
          conn'[d] = conn[d] \/ (d = c /\ conn[d] \in {"open", "reset"} /\ conn'[d] = "reset")
    BY <1>11, KilledConnection DEF TypeOK
  <2> QED BY <1>0, <1>7, <2>1, <2>2 DEF Answered, Connected
<1> QED
  BY <1>1, <1>2, <1>3, <1>4, <1>5, <1>6, <1>8, <1>9, <1>10, <1>11, StepCases
     DEF Wait, UdpBegin, TcpReceives, TcpSpins, UdpReceives, Restart, Talking

(* A client whose message has not moved is placed as before. *)
LEMMA SamePlaces ==
  ASSUME NEW d, Placed(d), UNCHANGED dgrams, kills = 0 \/ kills' # 0,
         cpc'[d] = cpc[d], asked'[d] = asked[d], answer'[d] = answer[d],
         d \in TcpClients => request'[d] = request[d],
         InServer(d)' <=> InServer(d), InServer(d) => text' = text
  PROVE  Placed(d)'
<1>1. /\ InSocket(d)' <=> InSocket(d)
      /\ Answered(d)' <=> Answered(d)
      /\ \A i \in 1..Len(dgrams) : InBuffer(d, i)' <=> InBuffer(d, i)
  BY DEF InSocket, Answered, InBuffer
<1>2. Nowhere(d)' <=> Nowhere(d) BY <1>1 DEF Nowhere
<1>3. Apart(d)' <=> Apart(d) BY <1>1 DEF Apart
<1>4. Same(d) => Same(d)' BY <1>1 DEF Same, InSocket
<1> QED BY <1>1, <1>2, <1>3, <1>4 DEF Placed

(* A message is moved as a whole and unaltered: it leaves a place when it  *)
(* reaches the next.                                                       *)
LEMMA UnderWayStep ==
  ASSUME MuxInv, [Next]_vars
  PROVE  UnderWay'
<1> TypeOK /\ UnderWay BY DEF MuxInv
<1> USE NothingElse, TwoKinds
<1>0. /\ \A d \in Clients : Placed(d) /\ cpc[d] \in {"start", "ready", "await", "gone"}
      /\ dgrams \in Seq(Datagram) /\ Len(dgrams) \in Nat
      /\ \A i \in 1..Len(dgrams) : dgrams[i].from \in UdpClients /\ dgrams[i].text \in Messages
  <2>1. \A i \in 1..Len(dgrams) : dgrams[i] \in Datagram BY DEF TypeOK
  <2>2. \A d \in Clients : cpc[d] \in {"start", "ready", "await", "gone"} BY DEF TypeOK
  <2>3. dgrams \in Seq(Datagram) /\ Len(dgrams) \in Nat BY DEF TypeOK
  <2> QED BY <2>1, <2>2, <2>3 DEF UnderWay, Datagram
<1>1. CASE TcpReceives
  <2>1. PICK c : c = peer OBVIOUS
  <2>2. /\ c \in TcpClients /\ c \in Clients /\ text = None /\ text' = request[c] /\ peer' = c
        /\ request[c] \in Messages /\ request'[c] = None
        /\ \A d \in TcpClients : d # c => request'[d] = request[d]
        /\ UNCHANGED <<dgrams, cpc, asked, answer, kills>>
    BY <1>1, <2>1 DEF TcpReceives, TypeOK
  <2>3. \A d \in Clients : d # c => Placed(d)'
    BY <1>0, <2>2, SamePlaces DEF InServer
  <2>4. InSocket(c) /\ ~InSocket(c)' /\ InServer(c)' /\ Placed(c)
    BY <1>0, <2>2 DEF InSocket, InServer
  <2>5. cpc[c] \notin {"start", "ready"} /\ ~(kills = 0 /\ cpc[c] = "gone")
    BY <2>4 DEF Placed, Nowhere
  <2>6. /\ Answered(c)' <=> Answered(c)
        /\ \A i \in 1..Len(dgrams) : ~InBuffer(c, i) /\ ~InBuffer(c, i)'
    BY <1>0, <2>2 DEF Answered, InBuffer
  <2>7. cpc[c] = "await" => Apart(c)' /\ Same(c)'
    <3>1. SUFFICES ASSUME cpc[c] = "await" PROVE Apart(c)' /\ Same(c)' OBVIOUS
    <3>2. ~Answered(c) /\ request[c] = asked[c] BY <2>4, <3>1 DEF Placed, Apart, Same
    <3>3. Apart(c)' BY <2>2, <2>4, <2>6, <3>2 DEF Apart
    <3>4. Same(c)' BY <2>2, <2>4, <2>6, <3>2 DEF Same
    <3> QED BY <3>3, <3>4
  <2>8. Placed(c)' BY <2>2, <2>4, <2>5, <2>6, <2>7 DEF Placed
  <2> QED BY <2>3, <2>8 DEF UnderWay
<1>2. CASE TcpReplies \/ UdpReplies
  <2>1. PICK c : c = peer OBVIOUS
  <2>2. /\ c \in Clients /\ text \in Messages /\ text # None /\ text' = None
        /\ \A d \in Clients : d # c => answer'[d] = answer[d]
        /\ answer'[c] = IF cpc[c] = "gone" THEN None ELSE Prefixed(text)
        /\ UNCHANGED <<dgrams, cpc, asked, request, kills>>
    BY <1>2, <2>1 DEF TcpReplies, UdpReplies, TypeOK
  <2>3. \A d \in Clients : d # c => Placed(d)'
    BY <1>0, <2>1, <2>2, SamePlaces DEF InServer
  <2>4. InServer(c) /\ ~InServer(c)' /\ Placed(c) /\ (Answered(c)' <=> cpc[c] # "gone")
    BY <1>0, <2>1, <2>2 DEF InServer, Answered
  <2>5. cpc[c] \notin {"start", "ready"} /\ ~(kills = 0 /\ cpc[c] = "gone")
    BY <2>4 DEF Placed, Nowhere
  <2>6. cpc[c] = "await" => Apart(c)' /\ Same(c)'
    <3>1. SUFFICES ASSUME cpc[c] = "await" PROVE Apart(c)' /\ Same(c)' OBVIOUS
    <3>2. Apart(c) BY <2>4, <3>1 DEF Placed
    <3>3. ~InSocket(c) /\ \A i \in 1..Len(dgrams) : ~InBuffer(c, i) BY <2>4, <3>2 DEF Apart
    <3>4. ~InSocket(c)' /\ \A i \in 1..Len(dgrams) : ~InBuffer(c, i)'
      BY <2>2, <3>3 DEF InSocket, InBuffer
    <3> QED BY <2>2, <2>4, <3>4 DEF Apart, Same
  <2>7. Placed(c)' BY <1>0, <2>2, <2>4, <2>5, <2>6 DEF Placed
  <2> QED BY <2>3, <2>7 DEF UnderWay
<1>3. CASE UdpReceives
  <2>0. dgrams # <<>> /\ dgrams' = Tail(dgrams) /\ text = None BY <1>3 DEF UdpReceives, TypeOK
  <2>1. PICK c : c = Head(dgrams).from OBVIOUS
  <2>2. /\ Head(dgrams) = dgrams[1] /\ 1 \in 1..Len(dgrams)
        /\ \A i \in 1..Len(dgrams') : /\ i + 1 \in 1..Len(dgrams) /\ i + 1 # 1
                                      /\ dgrams'[i] = dgrams[i + 1]
    BY <1>0, <2>0, HeadTail
  <2>3. /\ c \in UdpClients /\ c \in Clients /\ c = dgrams[1].from
        /\ text' = dgrams[1].text /\ peer' = c /\ text' # None
        /\ UNCHANGED <<cpc, asked, request, answer, kills>>
    BY <1>0, <1>3, <2>1, <2>2 DEF UdpReceives
  <2>4. \A d \in Clients : /\ InSocket(d)' <=> InSocket(d)
                           /\ Answered(d)' <=> Answered(d)
                           /\ ~InServer(d)
                           /\ InServer(d)' <=> d = c
                           /\ \A i \in 1..Len(dgrams') : InBuffer(d, i)' <=> InBuffer(d, i + 1)
    BY <2>0, <2>2, <2>3 DEF InSocket, Answered, InServer, InBuffer
  <2>5. InBuffer(c, 1) /\ ~InSocket(c) BY <2>3 DEF InBuffer, InSocket
  <2>6. ASSUME NEW d \in Clients, d # c PROVE Placed(d)'
    <3>1. Placed(d) BY <1>0
    <3>2. Nowhere(d) => Nowhere(d)' BY <2>2, <2>4, <2>6 DEF Nowhere
    <3>3. ASSUME Apart(d) PROVE Apart(d)'
      <4>1. ASSUME NEW i \in 1..Len(dgrams'), NEW j \in 1..Len(dgrams'),
                   InBuffer(d, i)', InBuffer(d, j)'
            PROVE  i = j
        <5>1. i + 1 = j + 1 BY <2>2, <2>4, <3>3, <4>1 DEF Apart
        <5> QED BY <5>1
      <4>2. ASSUME NEW i \in 1..Len(dgrams'), InBuffer(d, i)' PROVE ~Answered(d)
        BY <2>2, <2>4, <3>3, <4>2 DEF Apart
      <4> QED BY <2>4, <2>6, <3>3, <4>1, <4>2 DEF Apart
    <3>4. Same(d) => Same(d)' BY <2>2, <2>3, <2>4, <2>6 DEF Same
    <3> QED BY <2>3, <2>4, <3>1, <3>2, <3>3, <3>4 DEF Placed
  <2>7. Placed(c) BY <1>0, <2>3
  <2>8. cpc[c] \notin {"start", "ready"} /\ ~(kills = 0 /\ cpc[c] = "gone")
    BY <2>2, <2>5, <2>7 DEF Placed, Nowhere
  <2>9. cpc[c] = "await" => Apart(c)' /\ Same(c)'
    <3>1. SUFFICES ASSUME cpc[c] = "await" PROVE Apart(c)' /\ Same(c)' OBVIOUS
    <3>2. Apart(c) /\ Same(c) BY <2>7, <3>1 DEF Placed
    <3>3. ~Answered(c) /\ dgrams[1].text = asked[c] BY <2>2, <2>5, <3>2 DEF Apart, Same
    <3>4. \A i \in 1..Len(dgrams') : ~InBuffer(c, i)'
      <4>1. SUFFICES ASSUME NEW i \in 1..Len(dgrams'), InBuffer(c, i + 1) PROVE FALSE
        BY <2>3, <2>4
      <4>2. i + 1 = 1 BY <2>2, <2>5, <3>2, <4>1 DEF Apart
      <4> QED BY <2>2, <4>2
    <3>5. Apart(c)' BY <2>3, <2>4, <2>5, <3>3, <3>4 DEF Apart
    <3>6. Same(c)' BY <2>3, <2>4, <2>5, <3>3, <3>4 DEF Same
    <3> QED BY <3>5, <3>6
  <2>10. Placed(c)' BY <1>0, <2>3, <2>4, <2>7, <2>8, <2>9 DEF Placed
  <2> QED BY <2>6, <2>10 DEF UnderWay
<1>4. CASE Down
  <2>1. /\ Len(dgrams') = 0 /\ text' = None /\ UNCHANGED kills
        /\ \A d \in TcpClients : /\ cpc'[d] = IF cpc[d] = "start" THEN "start" ELSE "gone"
                                /\ request'[d] = None /\ asked'[d] = None /\ answer'[d] = None
        /\ \A d \in UdpClients : cpc'[d] = cpc[d] /\ asked'[d] = asked[d] /\ answer'[d] = answer[d]
    BY <1>4 DEF Down
  <2>2. ASSUME NEW d \in TcpClients PROVE Placed(d)'
    <3>1. Nowhere(d)' BY <2>1, <2>2 DEF Nowhere, InSocket, InServer, Answered
    <3> QED BY <2>1, <2>2, <3>1 DEF Placed, Nowhere
  <2>3. ASSUME NEW d \in UdpClients PROVE Placed(d)'
    <3>1. /\ ~InSocket(d)' /\ ~InServer(d)' /\ (Answered(d)' <=> Answered(d))
      BY <2>1, <2>3 DEF InSocket, InServer, Answered
    <3>2. Apart(d)' /\ Same(d)' /\ (~Answered(d) => Nowhere(d)')
      BY <2>1, <3>1 DEF Apart, Same, Nowhere
    <3> QED BY <1>0, <2>1, <3>1, <3>2 DEF Placed, Nowhere
  <2> QED BY <2>2, <2>3 DEF UnderWay
<1>5. ASSUME NEW c \in Clients, NEW n, n = Len(dgrams) + 1,
             \/ c \in TcpClients /\ TcpAsks(c)
             \/ c \in UdpClients /\ UdpAsks(c)
      PROVE  UnderWay'
  <2>1. PICK m \in Messages :
          /\ asked' = [asked EXCEPT ![c] = m]
          /\ \/ c \in TcpClients /\ request' = [request EXCEPT ![c] = m] /\ UNCHANGED dgrams
             \/ c \in UdpClients /\ UNCHANGED <<request, dgrams>>
             \/ c \in UdpClients /\ UNCHANGED request
                                 /\ dgrams' = Append(dgrams, [from |-> c, text |-> m])
    BY <1>5 DEF TcpAsks, UdpAsks
  <2>2. /\ cpc[c] = "ready" /\ cpc' = [cpc EXCEPT ![c] = "await"]
        /\ UNCHANGED <<text, peer, answer, kills>>
    BY <1>5 DEF TcpAsks, UdpAsks
  <2>3. Nowhere(c) BY <1>0, <2>2 DEF Placed
  <2>4. /\ asked'[c] = m /\ m # None /\ cpc'[c] = "await"
        /\ \A d \in Clients : d # c => asked'[d] = asked[d] /\ cpc'[d] = cpc[d]
        /\ \A d \in TcpClients : d # c => request'[d] = request[d]
        /\ c \in TcpClients /\ InSocket(c)' => request'[c] = m
    BY <2>1, <2>2, <2>3 DEF TypeOK, Nowhere, InSocket
  <2>5. /\ ~InServer(c)' /\ ~Answered(c)'
        /\ c \in UdpClients => ~InSocket(c)'
        /\ c \in TcpClients /\ InSocket(c)' => request'[c] = asked'[c]
    BY <2>2, <2>3, <2>4 DEF Nowhere, InServer, Answered, InSocket
  <2>6. CASE UNCHANGED dgrams
    <3>1. \A d \in Clients : d # c => Placed(d)'
      BY <1>0, <2>2, <2>4, <2>6, SamePlaces DEF InServer
    <3>2. \A i \in 1..Len(dgrams) : ~InBuffer(c, i)' BY <2>3, <2>6 DEF Nowhere, InBuffer
    <3>3. Apart(c)' /\ Same(c)' BY <2>5, <2>6, <3>2 DEF Apart, Same, InSocket
    <3>4. Placed(c)' BY <2>4, <3>3 DEF Placed
    <3> QED BY <3>1, <3>4 DEF UnderWay
  <2>7. CASE dgrams' = Append(dgrams, [from |-> c, text |-> m]) /\ c \in UdpClients
    <3>1. [from |-> c, text |-> m] \in Datagram BY <2>7 DEF Datagram
    <3>2. /\ Len(dgrams') = n /\ dgrams'[n].from = c /\ dgrams'[n].text = m
          /\ \A i \in 1..Len(dgrams) : dgrams'[i] = dgrams[i]
          /\ \A i \in 1..Len(dgrams') : i \in 1..Len(dgrams) \/ i = n
      BY <1>0, <1>5, <2>7, <3>1, AtEnd
    <3>3. /\ \A d \in Clients, i \in 1..Len(dgrams) : InBuffer(d, i)' <=> InBuffer(d, i)
          /\ \A d \in Clients : InBuffer(d, n)' <=> d = c
      BY <3>2 DEF InBuffer
    <3>4. Apart(c)' /\ Same(c)'
      <4>1. \A i \in 1..Len(dgrams') : InBuffer(c, i)' => i = n BY <2>3, <3>2, <3>3 DEF Nowhere
      <4>2. Apart(c)' BY <2>5, <2>7, <4>1 DEF Apart
      <4>3. Same(c)' BY <2>4, <2>5, <2>7, <3>2, <4>1 DEF Same
      <4> QED BY <4>2, <4>3
    <3>5. Placed(c)' BY <2>4, <3>4 DEF Placed
    <3>6. ASSUME NEW d \in Clients, d # c PROVE Placed(d)'
      <4>1. /\ InSocket(d)' <=> InSocket(d)
            /\ InServer(d)' <=> InServer(d)
            /\ Answered(d)' <=> Answered(d)
        BY <2>2, <2>4, <3>6 DEF InSocket, InServer, Answered
      <4>2. \A i \in 1..Len(dgrams') : InBuffer(d, i)' => i \in 1..Len(dgrams) /\ InBuffer(d, i)
        BY <3>2, <3>3, <3>6
      <4>3. Nowhere(d) => Nowhere(d)' BY <4>1, <4>2 DEF Nowhere
      <4>4. Apart(d) => Apart(d)' BY <4>1, <4>2 DEF Apart
      <4>5. Same(d) => Same(d)' BY <2>2, <2>4, <3>2, <3>6, <4>1, <4>2 DEF Same, InSocket
      <4> QED BY <1>0, <2>2, <2>4, <3>6, <4>1, <4>3, <4>4, <4>5 DEF Placed
    <3> QED BY <3>5, <3>6 DEF UnderWay
  <2> QED BY <2>1, <2>6, <2>7
<1>6. ASSUME NEW c \in Clients,
             \/ c \in TcpClients /\ (TcpConnects(c) \/ TcpRefused(c) \/ TcpTakes(c) \/ CutOff(c))
             \/ c \in UdpClients /\ (UdpRefused(c) \/ UdpTakes(c))
             \/ Quits(c) \/ Killed(c)
      PROVE  UnderWay'
  <2>1. UNCHANGED <<text, peer, dgrams>> /\ kills' \in Nat /\ kills' >= kills /\ kills \in Nat
    BY <1>6 DEF TcpConnects, TcpRefused, TcpTakes, CutOff, UdpRefused, UdpTakes, Quits, Killed, TypeOK
  <2>2. \A d \in Clients : d # c => /\ cpc'[d] = cpc[d] /\ asked'[d] = asked[d]
                                    /\ answer'[d] = answer[d]
                                    /\ d \in TcpClients => request'[d] = request[d]
    BY <1>6 DEF TcpConnects, TcpRefused, TcpTakes, CutOff, UdpRefused, UdpTakes, Quits, Killed, TypeOK
  <2>3. \A d \in Clients : d # c => Placed(d)'
    BY <1>0, <2>1, <2>2, SamePlaces DEF InServer
  <2>4. Placed(c) BY <1>0
  <2>5. CASE \/ c \in TcpClients /\ (TcpConnects(c) \/ TcpRefused(c))
             \/ c \in UdpClients /\ UdpRefused(c)
             \/ Quits(c)
    <3>1. /\ cpc[c] \in {"start", "ready"} /\ cpc'[c] \in {"ready", "gone"}
          /\ UNCHANGED <<asked, answer, request>>
      BY <2>5 DEF TcpConnects, TcpRefused, UdpRefused, Quits, TypeOK
    <3>2. Nowhere(c) /\ asked[c] = None BY <2>4, <3>1 DEF Placed
    <3>3. Nowhere(c)' BY <2>1, <3>1, <3>2 DEF Nowhere, InSocket, InServer, Answered, InBuffer
    <3> QED BY <2>3, <3>1, <3>2, <3>3 DEF UnderWay, Placed, Nowhere
  <2>6. CASE (c \in TcpClients /\ TcpTakes(c)) \/ (c \in UdpClients /\ UdpTakes(c))
    <3>1. /\ cpc[c] = "await" /\ Answered(c) /\ UNCHANGED request
          /\ cpc'[c] = "ready" /\ asked'[c] = None /\ ~Answered(c)'
      BY <2>6 DEF TcpTakes, UdpTakes, TypeOK, Answered
    <3>2. ~InSocket(c) /\ ~InServer(c) /\ \A i \in 1..Len(dgrams) : ~InBuffer(c, i)
      BY <2>4, <3>1 DEF Placed, Apart
    <3>3. Nowhere(c)' BY <2>1, <3>1, <3>2 DEF Nowhere, InSocket, InServer, InBuffer
    <3> QED BY <2>3, <3>1, <3>3 DEF UnderWay, Placed
  <2>7. CASE (c \in TcpClients /\ CutOff(c)) \/ Killed(c)
    <3>1. cpc'[c] = "gone" /\ kills' # 0 /\ asked'[c] = None /\ ~Answered(c)'
      BY <2>1, <2>4, <2>7 DEF CutOff, Killed, Placed, Nowhere, TypeOK, Answered
    <3> QED BY <2>3, <3>1 DEF UnderWay, Placed
  <2> QED BY <1>6, <2>5, <2>6, <2>7
<1>7. ASSUME UNCHANGED <<dgrams, cpc, asked, answer, request, kills, text>>,
             text = None \/ UNCHANGED peer
      PROVE  UnderWay'
  BY <1>0, <1>7, SamePlaces DEF UnderWay, InServer
<1>8. CASE Wait \/ TcpAccept \/ UdpBegin \/ TcpEnds \/ TcpSpins \/ Restart \/ UNCHANGED vars
  BY <1>7, <1>8 DEF Wait, TcpAccept, UdpBegin, TcpEnds, TcpSpins, Restart, TypeOK
<1>9. ASSUME NEW c \in Clients,
             \/ c \in TcpClients /\ TcpAsks(c)
             \/ c \in UdpClients /\ UdpAsks(c)
      PROVE  UnderWay'
  <2>1. PICK n : n = Len(dgrams) + 1 OBVIOUS
  <2> QED BY <1>5, <1>9, <2>1
<1>10. CASE \E c \in TcpClients : \/ TcpConnects(c) \/ TcpRefused(c) \/ TcpAsks(c)
                                \/ TcpTakes(c) \/ CutOff(c)
  BY <1>6, <1>9, <1>10
<1>11. CASE \E c \in UdpClients : UdpAsks(c) \/ UdpRefused(c) \/ UdpTakes(c)
  BY <1>6, <1>9, <1>11
<1>12. CASE \E c \in Clients : Quits(c) \/ Killed(c)
  BY <1>6, <1>12
<1> QED
  BY <1>1, <1>2, <1>3, <1>4, <1>8, <1>10, <1>11, <1>12, StepCases
-----------------------------------------------------------------------------
(* The theorems.                                                           *)

LEMMA MuxInit == Init => MuxInv
<1> SUFFICES ASSUME Init PROVE MuxInv OBVIOUS
<1> USE NothingElse, TwoKinds DEF Init
<1>1. TypeOK
  <2>1. /\ events \in Seq({"tcp", "udp"}) /\ Len(events) = 0 /\ lq \in Seq(TcpClients)
        /\ dgrams \in Seq(Datagram) /\ Len(dgrams) = 0
    OBVIOUS
  <2> QED BY <2>1 DEF TypeOK
<1>2. ReportStaysTrue /\ Reported /\ Waiting BY DEF ReportStaysTrue, Reported, Waiting
<1>3. OneDescriptor BY DEF OneDescriptor
<1>4. \A c \in Clients : Nowhere(c)
  BY DEF Nowhere, InSocket, InServer, Answered
<1>5. UnderWay BY <1>4 DEF UnderWay, Placed, Nowhere
<1>6. Connected BY <1>4 DEF Connected, Talking, Nowhere
<1> QED BY <1>1, <1>2, <1>3, <1>5, <1>6 DEF MuxInv

LEMMA MuxStep == MuxInv /\ [Next]_vars => MuxInv'
  BY TypeStep, ReportStep, DescriptorStep, UnderWayStep, ConnectedStep, WaitingStep DEF MuxInv

(* The parts of MuxInv hold in every state of the server. *)
THEOREM MuxInvariant == Spec => []MuxInv
  BY MuxInit, MuxStep, PTL DEF Spec

(* Every variable has its type; what a UDP client prints lies within the   *)
(* buffer recv_message gave it.                                            *)
THEOREM TypeCorrect == Spec => []TypeOK
<1>1. MuxInv => TypeOK BY DEF MuxInv
<1> QED BY <1>1, MuxInvariant, PTL

(* What the loop has not yet looked at of a report stays true however long *)
(* the conversation before it lasts, so accept never blocks.               *)
THEOREM ReportIsTrue == Spec => []ReportStaysTrue
<1>1. MuxInv => ReportStaysTrue BY DEF MuxInv
<1> QED BY <1>1, MuxInvariant, PTL

(* A connection is open only while its client is talked to. *)
THEOREM NoDescriptorLeaks == Spec => []OneDescriptor
<1>1. MuxInv => OneDescriptor BY DEF MuxInv
<1> QED BY <1>1, MuxInvariant, PTL

(* The server that is not stopped any more ends only when a client was     *)
(* killed or an empty datagram was read.                                   *)
THEOREM ServerEndsForACause == Spec => DownHasACause
<1>1. ASSUME MuxInv, [Next]_vars, up, ~up', boots = MaxBoots
      PROVE  kills > 0 \/ (spc = "udp" /\ Head(dgrams).text = 0)
  <2> TypeOK /\ UnderWay /\ Connected BY <1>1 DEF MuxInv
  <2>1. kills \in Nat BY NothingElse DEF TypeOK
  <2>2. ServerKilled \/ TcpReplyFails \/ TcpReadFails \/ UdpFaults
    BY <1>1 DEF Next, Server, Wait, TcpAccept, UdpBegin, TcpReceives, TcpReplies, TcpEnds,
       TcpSpins, UdpReceives, UdpReplies, Restart, TcpConnects, TcpRefused, TcpAsks, TcpTakes,
       CutOff, UdpAsks, UdpRefused, UdpTakes, Quits, Killed
  <2>3. ~ServerKilled BY <1>1, NothingElse DEF ServerKilled, TypeOK
  <2>4. ASSUME TcpReplyFails PROVE kills > 0
    <3>1. peer \in Clients /\ cpc[peer] = "gone" /\ InServer(peer)
      BY <2>4, TwoKinds DEF TcpReplyFails, TypeOK, InServer
    <3>2. kills # 0 BY <3>1 DEF UnderWay, Placed, Nowhere
    <3> QED BY <2>1, <3>2
  <2>5. TcpReadFails => kills > 0 BY DEF TcpReadFails, Connected, TypeOK
  <2>6. UdpFaults => spc = "udp" /\ Head(dgrams).text = 0 BY DEF UdpFaults
  <2> QED BY <2>2, <2>3, <2>4, <2>5, <2>6
<1>2. MuxInv /\ [Next]_vars
        => [up /\ ~up' /\ boots = MaxBoots
              => kills > 0 \/ (spc = "udp" /\ Head(dgrams).text = 0)]_vars
  BY <1>1
<1> QED BY <1>2, MuxInvariant, PTL DEF Spec, DownHasACause
-----------------------------------------------------------------------------
(* Refinement of the echo service.                                         *)

LEMMA EchoInitially == Init => Echo!EchoInit
  BY DEF Init, Echo!EchoInit

(* Every step is one of the echo service or leaves it as it is. *)
LEMMA EchoStep ==
  ASSUME MuxInv, [Next]_vars
  PROVE  [Echo!EchoNext]_Echo!echoVars
<1> TypeOK /\ UnderWay BY DEF MuxInv
<1> USE NothingElse, TwoKinds DEF Echo!EchoNext, Echo!echoVars
<1>0. \A c \in Clients : Placed(c) /\ cpc[c] \in {"start", "ready", "await", "gone"}
  BY DEF UnderWay, TypeOK
<1>1. CASE TcpReplies \/ UdpReplies
  <2>1. /\ peer \in Clients /\ text # None /\ InServer(peer) /\ UNCHANGED asked
        /\ answer' = [answer EXCEPT ![peer] = IF cpc[peer] = "gone" THEN None ELSE Prefixed(text)]
    BY <1>1 DEF TcpReplies, UdpReplies, TypeOK, InServer
  <2>2. CASE cpc[peer] = "gone"
    <3>1. answer[peer] = None BY <1>0, <2>1, <2>2 DEF Placed, Answered
    <3>2. answer' = answer BY <2>1, <2>2, <3>1 DEF TypeOK
    <3> QED BY <2>1, <3>2
  <2>3. CASE cpc[peer] # "gone"
    <3>1. cpc[peer] = "await" /\ Apart(peer) /\ Same(peer) /\ asked[peer] # None
      BY <1>0, <2>1, <2>3 DEF Placed, Nowhere
    <3>2. answer[peer] = None /\ text = asked[peer]
      BY <2>1, <3>1 DEF Apart, Same, Answered
    <3>3. Echo!Answer(peer)
      BY <2>1, <2>3, <3>1, <3>2 DEF Echo!Answer, Echo!Prefixed, Prefixed
    <3> QED BY <2>1, <3>3
  <2> QED BY <2>2, <2>3
<1>2. ASSUME NEW c \in Clients, (c \in TcpClients /\ TcpAsks(c)) \/ (c \in UdpClients /\ UdpAsks(c))
      PROVE  Echo!EchoNext
  <2>1. asked[c] = None /\ UNCHANGED answer
    BY <1>0, <1>2 DEF TcpAsks, UdpAsks, Placed
  <2>2. PICK m \in Messages : asked' = [asked EXCEPT ![c] = m]
    BY <1>2 DEF TcpAsks, UdpAsks
  <2> QED BY <2>1, <2>2 DEF Echo!Ask
<1>3. ASSUME NEW c \in Clients, (c \in TcpClients /\ TcpTakes(c)) \/ (c \in UdpClients /\ UdpTakes(c))
      PROVE  Echo!EchoNext
  BY <1>3 DEF TcpTakes, UdpTakes, Echo!Take
<1>4. ASSUME NEW c \in Clients, Killed(c) PROVE Echo!EchoNext
  <2>1. Echo!Abandon({c})
    BY <1>4 DEF Killed, Echo!Abandon, TypeOK
  <2>2. {c} \in SUBSET Clients OBVIOUS
  <2> QED BY <2>1, <2>2
<1>5. CASE Down
  <2>1. Echo!Abandon(TcpClients)
    BY <1>5 DEF Down, Echo!Abandon
  <2>2. TcpClients \in SUBSET Clients OBVIOUS
  <2> QED BY <2>1, <2>2
<1>6. CASE UNCHANGED <<asked, answer>>
  BY <1>6
<1>7. CASE \E c \in TcpClients : \/ TcpConnects(c) \/ TcpRefused(c) \/ TcpAsks(c)
                               \/ TcpTakes(c) \/ CutOff(c)
  BY <1>2, <1>3, <1>6, <1>7 DEF TcpConnects, TcpRefused, CutOff
<1>8. CASE \E c \in UdpClients : UdpAsks(c) \/ UdpRefused(c) \/ UdpTakes(c)
  BY <1>2, <1>3, <1>6, <1>8 DEF UdpRefused
<1>9. CASE \E c \in Clients : Quits(c) \/ Killed(c)
  BY <1>4, <1>6, <1>9 DEF Quits
<1> QED
  BY <1>1, <1>5, <1>6, <1>7, <1>8, <1>9, StepCases
     DEF Wait, TcpAccept, UdpBegin, TcpReceives, TcpEnds, TcpSpins, UdpReceives, Restart

(* Refinement: with each monitor, and for clients of both protocols.       *)
THEOREM MuxIsEchoService == Spec => EchoRefinement
  BY EchoInitially, EchoStep, MuxInvariant, PTL DEF Spec, EchoRefinement, Echo!EchoSpec
-----------------------------------------------------------------------------
(* The conversations.                                                      *)

(* A connection that is not there, or not any more, has nothing in it. *)
Closed ==
  \A c \in TcpClients : conn[c] = "none" => cpc[c] \in {"start", "gone"} /\ request[c] = None

LEMMA ClosedInit == Init => Closed
  BY TwoKinds DEF Init, Closed

LEMMA ClosedStep ==
  ASSUME MuxInv, Closed, [Next]_vars
  PROVE  Closed'
<1> TypeOK BY DEF MuxInv
<1> USE NothingElse, TwoKinds DEF Closed
<1>1. CASE TcpAccept
  <2>1. lq # <<>> /\ conn' = [conn EXCEPT ![Head(lq)] = "open"] /\ UNCHANGED <<cpc, request>>
    BY <1>1 DEF TcpAccept
  <2> QED BY <2>1 DEF TypeOK
<1>2. CASE TcpReceives
  BY <1>2 DEF TcpReceives, TypeOK
<1>3. CASE TcpEnds
  BY <1>3 DEF TcpEnds, TypeOK
<1>4. CASE Down
  BY <1>4 DEF Down, TypeOK
<1>5. ASSUME NEW c \in TcpClients, TcpConnects(c) \/ TcpRefused(c) PROVE Closed'
  BY <1>5 DEF TcpConnects, TcpRefused, TypeOK
<1>6. ASSUME NEW c \in TcpClients, TcpAsks(c) \/ TcpTakes(c) \/ CutOff(c) PROVE Closed'
  BY <1>6 DEF TcpAsks, TcpTakes, CutOff, TypeOK
<1>7. ASSUME NEW c \in UdpClients, UdpAsks(c) \/ UdpRefused(c) \/ UdpTakes(c) PROVE Closed'
  <2>1. UNCHANGED <<conn, request>> /\ \A d \in TcpClients : cpc'[d] = cpc[d]
    BY <1>7 DEF UdpAsks, UdpRefused, UdpTakes, TypeOK
  <2> QED BY <2>1
<1>8. ASSUME NEW c \in Clients, Quits(c) \/ Killed(c) PROVE Closed'
  <2>1. /\ UNCHANGED request /\ \A d \in Clients : cpc'[d] \in {cpc[d], "gone"}
        /\ \A d \in TcpClients : conn'[d] \in {conn[d], "reset"}
    BY <1>8 DEF Quits, Killed, TypeOK
  <2> QED BY <2>1
<1>9. CASE UNCHANGED <<cpc, conn, request>>
  BY <1>9
<1> QED
  BY <1>1, <1>2, <1>3, <1>4, <1>5, <1>6, <1>7, <1>8, <1>9, StepCases
     DEF Wait, UdpBegin, TcpReplies, TcpSpins, UdpReceives, UdpReplies, Restart

LEMMA ClosedInvariant == Spec => [](MuxInv /\ Closed)
  BY MuxInit, MuxStep, ClosedInit, ClosedStep, PTL DEF Spec

LEMMA ConversationsInit == ASSUME Init, NEW c \in TcpClients PROVE Conv(c)!Init
  BY TwoKinds DEF Init, Conv!Init, ClientIs, ThreadIs, Held, End, Over

(* How Conversation sees client c. *)
Sees(c, client, thread, held, end) ==
  ClientIs(c) = client /\ ThreadIs(c) = thread /\ Held(c) = held /\ End(c) = end

(* The client the server talks to is seen as it is. *)
LEMMA PeerView ==
  ASSUME MuxInv, NEW c \in TcpClients, c = peer, Talking
  PROVE  Sees(c, cpc[c], CASE spc = "tcp" -> "recv" [] spc = "tcp_reply" -> "reply"
                           [] OTHER -> "spin",
              text, IF conn[c] = "reset" THEN "reset" ELSE "open")
<1>1. conn[c] # "none" /\ cpc[c] # "start"
  BY DEF MuxInv, Connected
<1>2. CASE spc = "tcp"
  BY <1>1, <1>2 DEF Sees, ClientIs, ThreadIs, Held, End, Over
<1>3. CASE spc = "tcp_reply"
  BY <1>1, <1>3 DEF Sees, ClientIs, ThreadIs, Held, End, Over
<1>4. CASE spc = "spin"
  BY <1>1, <1>4 DEF Sees, ClientIs, ThreadIs, Held, End, Over
<1> QED BY <1>2, <1>3, <1>4 DEF Talking

(* What a step leaves of a client and of what the server does for it, it   *)
(* leaves of their conversation.                                           *)
LEMMA Unseen ==
  ASSUME NEW c \in TcpClients,
         UNCHANGED <<cpc[c], conn[c], request[c], asked[c], answer[c], ThreadIs(c), Held(c)>>
  PROVE  UNCHANGED Conv(c)!vars
  BY DEF Conv!vars, ClientIs, End, Over

(* The server does nothing for a client it does not talk to. *)
LEMMA OthersUnseen ==
  ASSUME MuxInv, MuxInv', NEW c \in TcpClients, ~(Talking /\ c = peer), ~(Talking /\ c = peer)',
         UNCHANGED <<cpc[c], conn[c], request[c], asked[c], answer[c]>>
  PROVE  UNCHANGED Conv(c)!vars
<1> TypeOK /\ TypeOK' BY DEF MuxInv
<1>1. Held(c) = None /\ Held(c)' = None
  BY TwoKinds DEF Held, Talking, TypeOK
<1>2. ThreadIs(c)' = ThreadIs(c)
  BY DEF ThreadIs, Talking, Over
<1> QED BY <1>1, <1>2, Unseen

(* The end of the process ends every conversation that has begun. *)
LEMMA DownSeen ==
  ASSUME MuxInv, Closed, Down, NEW c \in TcpClients
  PROVE  Conv(c)!ServerKilled \/ UNCHANGED Conv(c)!vars
<1> TypeOK /\ UnderWay /\ Connected BY DEF MuxInv
<1> USE TwoKinds
<1>1. /\ conn'[c] = "none" /\ request'[c] = None /\ asked'[c] = None /\ answer'[c] = None
      /\ cpc'[c] = IF cpc[c] = "start" THEN "start" ELSE "gone"
      /\ peer' = None /\ text' = None /\ spc' = "monitor"
  BY DEF Down, TypeOK
<1>2. CASE cpc[c] = "start" \/ Over(c)
  <2>1. UNCHANGED <<cpc[c], conn[c]>> /\ request[c] = None /\ conn[c] = "none"
    BY <1>1, <1>2 DEF Closed, Connected, Over
  <2>2. asked[c] = None /\ answer[c] = None
    BY <1>2, <2>1 DEF UnderWay, Placed, Connected, Answered, Over
  <2>3. ~(Talking /\ c = peer)
    BY <2>1 DEF Connected
  <2>4. Held(c) = None /\ Held(c)' = None
    BY <1>1, <2>3 DEF Held, Talking, TypeOK
  <2>5. ThreadIs(c)' = ThreadIs(c)
    BY <1>1, <2>1, <2>3 DEF ThreadIs, Talking, Over
  <2> QED BY <1>1, <2>1, <2>2, <2>4, <2>5, Unseen
<1>3. CASE cpc[c] # "start" /\ ~Over(c)
  <2>1. ThreadIs(c) # "done"
    BY <1>3 DEF ThreadIs
  <2>2. ClientIs(c)' = "gone" /\ ThreadIs(c)' = "done" /\ Held(c)' = None /\ End(c)' = "none"
    BY <1>1, <1>3 DEF ClientIs, ThreadIs, Held, End, Over
  <2> QED BY <1>1, <2>1, <2>2 DEF Conv!ServerKilled, Conv!Down
<1> QED BY <1>2, <1>3

(* A turn of the loop of communicate_tcp, for the client it talks to. *)
LEMMA PeerSeen ==
  ASSUME MuxInv, MuxInv', NEW c \in TcpClients, c = peer,
         TcpReceives \/ TcpReplies \/ TcpSpins \/ TcpEnds
  PROVE  Conv(c)!Next
<1> TypeOK BY DEF MuxInv
<1> USE NothingElse, TwoKinds DEF Conv!Next
<1>1. Talking /\ UNCHANGED <<cpc, asked>>
  BY DEF TcpReceives, TcpReplies, TcpSpins, TcpEnds, Talking
<1>2. CASE TcpReceives \/ TcpReplies \/ TcpSpins
  <2>1. Talking' /\ peer' = c /\ conn' = conn
    BY <1>2 DEF TcpReceives, TcpReplies, TcpSpins, Talking
  <2>2. Sees(c, cpc[c], CASE spc = "tcp" -> "recv" [] spc = "tcp_reply" -> "reply"
                          [] OTHER -> "spin",
             text, IF conn[c] = "reset" THEN "reset" ELSE "open")'
    <3>1. conn'[c] # "none" /\ cpc'[c] # "start"
      BY <1>1, <2>1 DEF MuxInv, Connected
    <3>2. ~Over(c)' /\ peer' = c
      BY <2>1, <3>1 DEF Over
    <3> QED BY <1>1, <2>1, <3>1, <3>2 DEF Sees, ClientIs, ThreadIs, Held, End, Talking
  <2>3. CASE TcpReceives
    <3>1. /\ spc = "tcp" /\ spc' = "tcp_reply" /\ request[c] \notin {Half, None}
          /\ text' = request[c] /\ request'[c] = None /\ answer'[c] = answer[c]
      BY <2>3 DEF TcpReceives, TypeOK
    <3>2. Sees(c, cpc[c], "recv", text, IF conn[c] = "reset" THEN "reset" ELSE "open")
      BY <1>1, <3>1, PeerView
    <3>3. Sees(c, cpc[c], "reply", text, IF conn[c] = "reset" THEN "reset" ELSE "open")'
      BY <2>2, <3>1
    <3> QED BY <1>1, <2>1, <3>1, <3>2, <3>3 DEF Sees, Conv!Receives
  <2>4. CASE TcpReplies
    <3>1. /\ spc = "tcp_reply" /\ spc' = "tcp" /\ text' = None /\ request'[c] = request[c]
          /\ answer'[c] = IF cpc[c] = "gone" THEN None ELSE Conv(c)!Prefixed(text)
      BY <2>4 DEF TcpReplies, TypeOK, Prefixed, Conv!Prefixed
    <3>2. Sees(c, cpc[c], "reply", text, IF conn[c] = "reset" THEN "reset" ELSE "open")
      BY <1>1, <3>1, PeerView
    <3>3. Sees(c, cpc[c], "recv", text, IF conn[c] = "reset" THEN "reset" ELSE "open")'
      BY <2>2, <3>1
    <3> QED BY <1>1, <2>1, <3>1, <3>2, <3>3 DEF Sees, Conv!Replies
  <2>5. CASE TcpSpins
    <3>1. /\ spc = "tcp" /\ spc' = "spin" /\ request[c] = Half
          /\ text' = text /\ request'[c] = request[c] /\ answer'[c] = answer[c]
      BY <2>5 DEF TcpSpins
    <3>2. Sees(c, cpc[c], "recv", text, IF conn[c] = "reset" THEN "reset" ELSE "open")
      BY <1>1, <3>1, PeerView
    <3>3. Sees(c, cpc[c], "spin", text, IF conn[c] = "reset" THEN "reset" ELSE "open")'
      BY <2>2, <3>1
    <3> QED BY <1>1, <2>1, <3>1, <3>2, <3>3 DEF Sees, Conv!Spins
  <2> QED BY <1>2, <2>3, <2>4, <2>5
<1>3. CASE TcpEnds
  <2>1. /\ spc = "tcp" /\ request[c] = None /\ cpc[c] = "gone" /\ conn[c] = "open"
        /\ conn'[c] = "none" /\ peer' # c /\ text = None /\ UNCHANGED <<text, request, answer>>
    BY <1>3 DEF TcpEnds, TypeOK
  <2>2. Sees(c, "gone", "recv", None, "open")
    BY <1>1, <2>1, PeerView
  <2>3. Sees(c, "gone", "done", None, "none")'
    BY <1>1, <2>1 DEF Sees, ClientIs, ThreadIs, Held, End, Over
  <2> QED BY <1>1, <2>1, <2>2, <2>3 DEF Sees, Conv!MeetsEnd
<1> QED BY <1>2, <1>3

(* accept begins to talk to a client. *)
LEMMA AcceptSeen ==
  ASSUME MuxInv, TcpAccept, NEW c \in TcpClients
  PROVE  UNCHANGED Conv(c)!vars
<1> TypeOK /\ Waiting /\ Connected BY DEF MuxInv
<1> USE NothingElse, TwoKinds
<1>1. PICK h \in TcpClients : h = Head(lq) /\ h = lq[1] /\ 1 \in 1..Len(lq)
  BY HeadTail DEF TcpAccept, TypeOK
<1>2. /\ spc = "monitor" /\ spc' = "tcp" /\ peer' = h /\ text = None /\ text' = None
      /\ conn' = [conn EXCEPT ![h] = "open"] /\ UNCHANGED <<cpc, request, asked, answer>>
  BY <1>1 DEF TcpAccept, TypeOK
<1>3. conn[h] = "backlog" /\ cpc[h] # "start"
  BY <1>1 DEF Connected, Waiting
<1>4. Held(c) = None /\ Held(c)' = None
  BY <1>2 DEF Held
<1>5. CASE c = h
  <2>1. conn'[c] = "open"
    BY <1>2, <1>5 DEF TypeOK
  <2>2. UNCHANGED <<ClientIs(c), ThreadIs(c), Held(c), End(c)>>
    BY <1>2, <1>3, <1>4, <1>5, <2>1 DEF ClientIs, ThreadIs, End, Over
  <2> QED BY <1>2, <2>2 DEF Conv!vars
<1>6. CASE c # h
  <2>1. conn'[c] = conn[c]
    BY <1>2, <1>6 DEF TypeOK
  <2>2. ThreadIs(c)' = ThreadIs(c)
    BY <1>2, <2>1 DEF ThreadIs, Over
  <2> QED BY <1>2, <1>4, <2>1, <2>2, Unseen
<1> QED BY <1>5, <1>6

(* A step of a client program: one that is turned away is like one whose   *)
(* server goes down.                                                       *)
LEMMA ClientSeen ==
  ASSUME MuxInv, Closed, NEW c \in TcpClients,
         \/ TcpConnects(c) \/ TcpRefused(c) \/ TcpAsks(c) \/ TcpTakes(c)
         \/ Quits(c) \/ Killed(c) \/ CutOff(c)
  PROVE  [Conv(c)!Next]_(Conv(c)!vars)
<1> TypeOK /\ UnderWay /\ Connected BY DEF MuxInv
<1> USE NothingElse, TwoKinds DEF Conv!Next
<1>1. UNCHANGED serverVars
  BY DEF TcpConnects, TcpRefused, TcpAsks, TcpTakes, Quits, Killed, CutOff
<1>2. CASE cpc[c] = "start"
  <2>1. /\ conn[c] = "none" /\ request[c] = None /\ asked[c] = None /\ answer[c] = None
        /\ ~(Talking /\ c = peer)
    BY <1>2 DEF Connected, Closed, UnderWay, Placed, Nowhere, Answered, TypeOK
  <2>2. TcpConnects(c) \/ TcpRefused(c)
    BY <1>2 DEF TcpAsks, TcpTakes, Quits, Killed, CutOff
  <2>3. /\ UNCHANGED <<request, asked, answer>> /\ Held(c) = None /\ Held(c)' = None
    BY <1>1, <2>1, <2>2 DEF TcpConnects, TcpRefused, Held, Talking, TypeOK
  <2>4. Sees(c, "ready", "recv", None, "open")
    BY <1>2, <2>1, <2>3 DEF Sees, ClientIs, ThreadIs, End, Over, Talking
  <2>5. CASE TcpConnects(c)
    <3>1. cpc'[c] = "ready" /\ conn'[c] = "backlog"
      BY <2>5 DEF TcpConnects, TypeOK
    <3>2. Sees(c, "ready", "recv", None, "open")'
      BY <1>1, <2>1, <2>3, <3>1 DEF Sees, ClientIs, ThreadIs, End, Over, Talking
    <3> QED BY <2>3, <2>4, <3>2 DEF Sees, Conv!vars
  <2>6. CASE TcpRefused(c)
    <3>1. cpc'[c] = "gone" /\ conn'[c] = "none"
      BY <2>1, <2>6 DEF TcpRefused, TypeOK
    <3>2. Sees(c, "gone", "done", None, "none")'
      BY <2>3, <3>1 DEF Sees, ClientIs, ThreadIs, End, Over
    <3> QED BY <2>1, <2>3, <2>4, <3>2 DEF Sees, Conv!ServerKilled, Conv!Down
  <2> QED BY <2>2, <2>5, <2>6
<1>3. CASE cpc[c] # "start"
  <2>1. TcpAsks(c) \/ TcpTakes(c) \/ Quits(c) \/ Killed(c) \/ CutOff(c)
    BY <1>3 DEF TcpConnects, TcpRefused
  <2>2. /\ cpc[c] \in {"ready", "await"} /\ conn[c] # "none"
        /\ conn'[c] \in {conn[c], "reset"} /\ cpc'[c] # "start"
    BY <2>1 DEF TcpAsks, TcpTakes, Quits, Killed, CutOff, Closed, TypeOK
  <2>3. ThreadIs(c)' = ThreadIs(c) /\ Held(c)' = Held(c) /\ ClientIs(c) = cpc[c]
        /\ ClientIs(c)' = cpc'[c]
    BY <1>1, <2>2 DEF ThreadIs, Held, ClientIs, Over
  <2>4. /\ conn'[c] = conn[c] => End(c)' = End(c)
        /\ conn'[c] = "reset" => End(c)' = "reset"
    BY <2>2 DEF End, Over
  <2>5. CASE TcpAsks(c)
    <3>1. PICK m \in Messages : asked' = [asked EXCEPT ![c] = m] /\ request' = [request EXCEPT ![c] = m]
      BY <2>5 DEF TcpAsks
    <3>2. Conv(c)!Asks(m)
      BY <2>3, <2>4, <2>5, <3>1 DEF TcpAsks, Conv!Asks, TypeOK
    <3> QED BY <3>2
  <2>6. CASE TcpTakes(c)
    BY <2>3, <2>4, <2>6 DEF TcpTakes, Conv!Takes, TypeOK
  <2>7. CASE Quits(c)
    BY <2>3, <2>4, <2>7 DEF Quits, Conv!Quits, TypeOK
  <2>8. CASE Killed(c)
    <3>1. Replying(c) => ThreadIs(c) = "reply"
      BY <2>2 DEF ThreadIs, Over, Replying
    <3>2. /\ cpc'[c] = "gone" /\ asked'[c] = None /\ answer'[c] = None /\ request'[c] = request[c]
          /\ \/ answer[c] = None /\ conn'[c] = conn[c]
             \/ (answer[c] # None \/ Replying(c)) /\ conn'[c] = "reset"
      BY <2>8 DEF Killed, TypeOK
    <3> QED BY <2>2, <2>3, <2>4, <3>1, <3>2 DEF Conv!Killed
  <2>9. CASE CutOff(c)
    BY <2>3, <2>4, <2>9 DEF CutOff, Conv!CutOff, TypeOK
  <2> QED BY <2>1, <2>5, <2>6, <2>7, <2>8, <2>9
<1> QED BY <1>2, <1>3

(* A step of the server or of a client is a step of one conversation, and  *)
(* of no other, or ends them all.  A datagram is part of none.             *)
LEMMA ConversationsStep ==
  ASSUME MuxInv, Closed, [Next]_vars, NEW c \in TcpClients
  PROVE  [Conv(c)!Next]_(Conv(c)!vars)
<1> TypeOK /\ MuxInv' BY MuxStep DEF MuxInv
<1> TypeOK' BY DEF MuxInv
<1> USE NothingElse, TwoKinds
<1>1. CASE Down
  BY <1>1, DownSeen DEF Conv!Next
<1>2. CASE TcpAccept
  BY <1>2, AcceptSeen
<1>3. CASE TcpReceives \/ TcpReplies \/ TcpSpins \/ TcpEnds
  <2>1. CASE c = peer
    BY <1>3, <2>1, PeerSeen
  <2>2. CASE c # peer
    <3>1. peer' # c /\ UNCHANGED <<cpc[c], conn[c], request[c], asked[c], answer[c]>>
      BY <1>3, <2>2 DEF TcpReceives, TcpReplies, TcpSpins, TcpEnds, TypeOK
    <3> QED BY <2>2, <3>1, OthersUnseen
  <2> QED BY <2>1, <2>2
<1>4. ASSUME NEW d \in Clients,
             \/ d \in TcpClients /\ (TcpConnects(d) \/ TcpRefused(d) \/ TcpAsks(d)
                                     \/ TcpTakes(d) \/ CutOff(d))
             \/ d \in UdpClients /\ (UdpAsks(d) \/ UdpRefused(d) \/ UdpTakes(d))
             \/ Quits(d) \/ Killed(d)
      PROVE  [Conv(c)!Next]_(Conv(c)!vars)
  <2>1. CASE c = d
    BY <1>4, <2>1, ClientSeen
  <2>2. CASE c # d
    <3>1. UNCHANGED serverVars
      BY <1>4 DEF TcpConnects, TcpRefused, TcpAsks, TcpTakes, CutOff, UdpAsks, UdpRefused,
         UdpTakes, Quits, Killed
    <3>2. UNCHANGED <<cpc[c], asked[c], answer[c]>>
      BY <1>4, <2>2 DEF TcpConnects, TcpRefused, TcpAsks, TcpTakes, CutOff, UdpAsks, UdpRefused,
         UdpTakes, Quits, Killed, TypeOK
    <3>3. UNCHANGED <<conn[c], request[c]>>
      BY <1>4, <2>2 DEF TcpConnects, TcpRefused, TcpAsks, TcpTakes, CutOff, UdpAsks, UdpRefused,
         UdpTakes, Quits, Killed, TypeOK
    <3>4. UNCHANGED <<ThreadIs(c), Held(c)>>
      BY <3>1, <3>2, <3>3 DEF ThreadIs, Held, Over
    <3> QED BY <3>2, <3>3, <3>4, Unseen
  <2> QED BY <2>1, <2>2
<1>5. CASE UdpBegin \/ UdpReceives \/ UdpReplies
  <2>1. /\ ~Talking /\ ~Talking' /\ UNCHANGED <<cpc, conn, request, asked>>
        /\ UNCHANGED answer[c]
    BY <1>5 DEF UdpBegin, UdpReceives, UdpReplies, Talking, TypeOK
  <2> QED BY <2>1, OthersUnseen
<1>6. CASE UNCHANGED <<cpc, conn, request, asked, answer, spc, peer, text>>
  BY <1>6, Unseen DEF ThreadIs, Held, Over
<1> QED
  BY <1>1, <1>2, <1>3, <1>4, <1>5, <1>6, StepCases DEF Wait, Restart

(* Refinement: each TCP client has one conversation of whole messages,     *)
(* whatever the server does before it and after it.                        *)
THEOREM MuxIsConversations == Spec => ConversationRefinement
<1>1. Init => \A c \in TcpClients : Conv(c)!Init
  BY ConversationsInit
<1>2. MuxInv /\ Closed /\ [Next]_vars
        => [\A c \in TcpClients : [Conv(c)!Next]_(Conv(c)!vars)]_vars
  BY ConversationsStep
<1> QED
  BY <1>1, <1>2, ClosedInvariant, PTL DEF Spec, ConversationRefinement
=============================================================================
