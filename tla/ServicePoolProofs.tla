------------------------- MODULE ServicePoolProofs -------------------------
(***************************************************************************)
(* Theorems about ServicePool, for every number of clients, services,      *)
(* queue slots, descriptors, kills and restarts.                           *)
(*                                                                         *)
(* PoolInv is the inductive invariant.  Its parts say where a client is:   *)
(* waiting for the listener (Visiting), in the accept queue or the         *)
(* conversation of one service (OneConversation, Dialled), and where its   *)
(* message is (OneMessage); how the listener holds services_mutex          *)
(* (Scanning); that a descriptor stands for every conversation             *)
(* (Descriptors); and what the records are about to say (FirstBoot).       *)
(* Closed and HeldBriefly are invariants next to it, for the conversations *)
(* and for the waits.                                                      *)
(***************************************************************************)
EXTENDS ServicePool, SequenceTheorems, FiniteSetTheorems, TLAPS

(* The model values of the code's ways to say "nothing" are no clients,    *)
(* services, messages, reports or replies.                                 *)
LEMMA NothingElse ==
  /\ None \notin Services /\ None \notin Clients /\ None \notin Messages
  /\ None \notin Report /\ Occupied \notin Services /\ None # Occupied
  /\ Half \notin Messages /\ Half # None
  /\ \A m \in Messages : Prefixed(m) # None
  BY PoolAssumption

(* The visitors of the listener have no offer yet and are served once. *)
Visiting ==
  /\ \A i \in 1..Len(lq) :
       /\ cpc[lq[i]] \in {"hello", "gone"} /\ offer[lq[i]] = None /\ lq[i] # visitor
       /\ \A j \in 1..Len(lq) : lq[i] = lq[j] => i = j
  /\ visitor # None => cpc[visitor] \in {"hello", "gone"} /\ offer[visitor] = None
  /\ \A c \in Clients : cpc[c] = "start" => offer[c] = None

(* Only a client that has dialled has a connection; only an accepted one   *)
(* is answered; a client that is gone reads nothing.                       *)
Dialled ==
  /\ \A c \in Clients : cpc[c] \in {"start", "hello", "directed"} => conn[c] = "none"
  /\ \A c \in Clients : conn[c] # "none" => offer[c] \in Services
  /\ \A c \in Clients : answer[c] # None => conn[c] = "open" /\ cpc[c] = "await"
  /\ \A c \in Clients : conn[c] = "reset" => cpc[c] = "gone"
  /\ \A s \in Services : spc[s] \in {"boot", "accept", "tell_free"} => partner[s] = None

(* A client's message is in one place only: on its way to the service, in  *)
(* the service, or on its way back.                                        *)
OneMessage ==
  /\ \A c \in Clients :
       /\ cpc[c] # "await" => asked[c] = None
       /\ cpc[c] = "await" => asked[c] # None
       /\ request[c] # None /\ cpc[c] # "gone" =>
            cpc[c] = "await" /\ request[c] = asked[c] /\ answer[c] = None
  /\ \A s \in Services :
       spc[s] = "reply" =>
         /\ text[s] \in Messages
         /\ cpc[partner[s]] # "gone" =>
              /\ cpc[partner[s]] = "await" /\ text[s] = asked[partner[s]]
              /\ answer[partner[s]] = None /\ request[partner[s]] = None

(* The listener holds the lock while it scans, and the records behind its  *)
(* index stay OCCUPIED: only the handler could free one.                   *)
Scanning ==
  lpc = "scan" =>
    /\ mutex = "listener"
    /\ \A t \in 1..(scan - 1) : status[t] = "OCCUPIED" \/ spc[t] = "freed"

Talking == {s \in Services : partner[s] # None}
Descriptors == fds >= Cardinality(Talking)

PoolInv ==
  /\ TypeOK /\ OneConversation /\ Visiting /\ Dialled /\ OneMessage
  /\ Scanning /\ Descriptors /\ RecordsFollowFirstBoot

USE DEF vars, processVars, handlerVars, listenerVars, serviceVars, clientVars, wireVars
-----------------------------------------------------------------------------
(* Type correctness.                                                       *)

(* When the process ends every variable keeps its type: what               *)
(* print_error and a signal leave is a state of the model.                 *)
LEMMA TypeDown ==
  ASSUME TypeOK, NEW q \in Seq(Report), Down(q)
  PROVE  TypeOK'
<1>1. \A c \in Clients : \/ cpc'[c] = cpc[c] /\ cpc[c] \notin {"ready", "await"}
                         \/ cpc'[c] = "gone"
  BY DEF TypeOK, Down
<1>2. /\ cpc' \in [Clients -> {"start", "hello", "directed", "ready", "await", "gone"}]
      /\ offer' \in [Clients -> Services \cup {Occupied, None}]
      /\ \A c \in Clients : cpc'[c] \in {"directed", "ready", "await"}
                                => offer'[c] \in Services
  BY <1>1 DEF TypeOK, Down
<1>3. /\ lq' \in Seq(Clients) /\ visitor' = None /\ lpc' = "accept"
      /\ scan' \in Services /\ pick' = None
      /\ msq' \in Seq(Report) /\ hand' = None /\ hpc' = "receive"
  BY PoolAssumption DEF Down, Services
<1>4. /\ sq' \in [Services -> Seq(Clients)]
      /\ status' \in [Services -> {"FREE", "OCCUPIED"}]
      /\ spc' \in [Services -> {"boot", "accept", "mark", "tell_occupied", "recv",
                                "spin", "reply", "tell_free", "cancelled", "freed"}]
      /\ \A t \in Services : spc'[t] = "boot"
  BY DEF Down
<1>5. /\ partner' \in [Services -> Clients \cup {None}]
      /\ text' \in [Services -> Messages \cup {None}]
      /\ conn' \in [Clients -> {"none", "backlog", "open", "reset"}]
      /\ request' \in [Clients -> Messages \cup {Half, None}]
      /\ asked' \in [Clients -> Messages \cup {None}]
      /\ answer' \in [Clients -> {Prefixed(m) : m \in Messages} \cup {None}]
  BY DEF Down
<1> QED BY <1>2, <1>3, <1>4, <1>5, NothingElse DEF TypeOK, Down

(* The same when it ends by the exit of a service thread (services'        *)
(* part of print_error).                                                   *)
LEMMA TypeServiceExits ==
  ASSUME TypeOK, NEW s \in Services, ServiceExits(s)
  PROVE  TypeOK'
<1>1. CASE cleaning
  BY <1>1, TypeDown DEF ServiceExits, TypeOK
<1>2. CASE ~cleaning
  <2>0. \A t \in Services : <<>> \in Seq(Clients) /\ sq[t] \in Seq(Clients)
    BY DEF TypeOK
  <2>4. sq' \in [Services -> Seq(Clients)]
    BY <1>2, <2>0 DEF ServiceExits
  <2>1. /\ spc' \in [Services -> {"boot", "accept", "mark", "tell_occupied", "recv",
                                  "spin", "reply", "tell_free", "cancelled", "freed"}]
        /\ \A t \in Services : spc'[t] \in {spc[t], "freed", "cancelled"}
    BY <1>2 DEF ServiceExits, TypeOK
  <2>2. /\ cpc' \in [Clients -> {"start", "hello", "directed", "ready", "await", "gone"}]
        /\ \A c \in Clients : cpc'[c] \in {cpc[c], "gone"}
        /\ conn' \in [Clients -> {"none", "backlog", "open", "reset"}]
        /\ request' \in [Clients -> Messages \cup {Half, None}]
        /\ asked' \in [Clients -> Messages \cup {None}]
    BY <1>2 DEF ServiceExits, TypeOK
  <2>3. hpc' \in {"dead", "last"} /\ (hpc' = "last" <=> hpc \in {"apply", "last"})
    BY <1>2 DEF ServiceExits, TypeOK
  <2> QED BY <1>2, <2>1, <2>2, <2>3, <2>4 DEF ServiceExits, TypeOK
<1> QED BY <1>1, <1>2

(* Only finitely many conversations hold a descriptor, so they may be      *)
(* counted.                                                                *)
LEMMA TalkingFinite == IsFiniteSet(Talking) /\ Cardinality(Talking) \in Nat
<1>1. IsFiniteSet(Services)
  BY PoolAssumption, FS_Interval DEF Services
<1> QED BY <1>1, FS_Subset, FS_CardinalityType DEF Talking

(* Every step of server, services, clients and operator keeps the types.   *)
LEMMA TypeStep ==
  ASSUME PoolInv, [Next]_vars
  PROVE  TypeOK'
<1> USE NothingElse, PoolAssumption
<1> TypeOK /\ Visiting /\ OneMessage /\ Descriptors BY DEF PoolInv
<1>1. CASE ListenerAccept
  <2>1. Head(lq) \in Clients /\ Tail(lq) \in Seq(Clients)
    BY <1>1 DEF ListenerAccept, TypeOK
  <2> QED BY <1>1, <2>1 DEF ListenerAccept, TypeOK
<1>2. CASE ListenerAcceptFails \/ ListenerSendFails \/ ServerKilled
  <2>1. Down(msq) \/ Down(<<>>)
    BY <1>2 DEF ListenerAcceptFails, ListenerExits, ListenerSendFails, ServerKilled
  <2>2. msq \in Seq(Report) /\ <<>> \in Seq(Report)
    BY DEF TypeOK
  <2> QED BY <2>1, <2>2, TypeDown
<1>3. CASE ListenerLock BY <1>3 DEF ListenerLock, TypeOK, Services
<1>4. CASE ListenerScan 
  <2>1. scan # ServicesAmount => scan + 1 \in Services
    BY DEF TypeOK, Services
  <2>2. \/ /\ pick' \in Services \cup {Occupied} /\ pick' # None
           /\ lpc' = "send" /\ mutex' = "open" /\ scan' = scan
        \/ scan # ServicesAmount /\ scan' = scan + 1 /\ UNCHANGED <<pick, mutex, lpc>>
    BY <1>4 DEF ListenerScan, TypeOK
  <2>3. lpc = "scan" /\ visitor # None
    BY <1>4 DEF ListenerScan, TypeOK
  <2> QED BY <1>4, <2>1, <2>2, <2>3 DEF ListenerScan, TypeOK
<1>5. CASE ListenerSend BY <1>5 DEF ListenerSend, TypeOK, Visiting
<1>6. CASE HandlerReceive
  <2>1. Head(msq) \in Report /\ Tail(msq) \in Seq(Report)
    BY <1>6 DEF HandlerReceive, TypeOK
  <2>2. Head(msq) # None
    BY <2>1
  <2> QED BY <1>6, <2>1, <2>2 DEF HandlerReceive, TypeOK
<1>7. CASE HandlerApply BY <1>7 DEF HandlerApply, TypeOK, Report
<1>8. CASE Restart BY <1>8 DEF Restart, TypeOK
<1>9. ASSUME NEW s \in Services, Service(s) PROVE TypeOK'
  <2>1. CASE ServiceListen(s) BY <2>1 DEF ServiceListen, TypeOK
  <2>2. CASE ServiceAccept(s)
    <3>1. Head(sq[s]) \in Clients /\ Tail(sq[s]) \in Seq(Clients)
      BY <2>2 DEF ServiceAccept, TypeOK
    <3> QED BY <2>2, <3>1 DEF ServiceAccept, TypeOK
  <2>3. CASE ServiceMark(s) BY <2>3 DEF ServiceMark, TypeOK
  <2>4. CASE ServiceTellOccupied(s) \/ ServiceTellFree(s)
    <3>1. PICK st \in {"FREE", "OCCUPIED"} :
            \/ Notify(s, "tell_occupied", st, "recv")
            \/ Notify(s, "tell_free", st, "accept")
      BY <2>4 DEF ServiceTellOccupied, ServiceTellFree
    <3>2. [sender |-> s, status |-> st] \in Report
      BY DEF Report
    <3>3. msq' \in Seq(Report)
      <4>1. msq' = Append(msq, [sender |-> s, status |-> st])
        BY <3>1 DEF Notify
      <4>2. msq \in Seq(Report)
        BY DEF TypeOK
      <4> QED BY <3>2, <4>1, <4>2, AppendProperties
    <3>4. /\ UNCHANGED <<processVars, status, handlerVars, mutex, listenerVars, sq,
                          partner, text, fds, clientVars, wireVars, kills>>
          /\ \/ spc[s] = "tell_occupied" /\ spc' = [spc EXCEPT ![s] = "recv"]
             \/ spc' = [spc EXCEPT ![s] = "accept"]
      BY <3>1 DEF Notify
    <3>5. CASE spc[s] = "tell_occupied" /\ spc' = [spc EXCEPT ![s] = "recv"]
      BY <3>3, <3>4, <3>5 DEF TypeOK
    <3>6. CASE spc' = [spc EXCEPT ![s] = "accept"]
      BY <3>3, <3>4, <3>6 DEF TypeOK
    <3> QED BY <3>4, <3>5, <3>6
  <2>5. CASE ServiceRecv(s) BY <2>5 DEF ServiceRecv, TypeOK
  <2>6. CASE ServiceReply(s) BY <2>6 DEF ServiceReply, TypeOK, OneMessage
  <2>7. CASE ServiceHangUp(s) 
    <3>1. fds - 1 \in Nat
      <4>1. s \in Talking
        BY <2>7 DEF ServiceHangUp, TypeOK, Talking
      <4>2. Cardinality(Talking) # 0
        BY <4>1, TalkingFinite, FS_EmptySet
      <4> QED BY <4>2, TalkingFinite DEF Descriptors, TypeOK
    <3> QED BY <2>7, <3>1 DEF ServiceHangUp, TypeOK
  <2>8. CASE ServiceAcceptFails(s) \/ ServiceRecvFails(s)
    BY <2>8, TypeServiceExits DEF ServiceAcceptFails, ServiceRecvFails
  <2>9. CASE ServiceReplyFails(s)
    BY <2>9, TypeDown, TypeServiceExits DEF ServiceReplyFails, TypeOK
  <2>10. CASE ServiceSpins(s) BY <2>10 DEF ServiceSpins, TypeOK
  <2> QED BY <1>9, <2>1, <2>2, <2>3, <2>4, <2>5, <2>6, <2>7, <2>8, <2>9, <2>10 DEF Service
<1>10. ASSUME NEW c \in Clients, Client(c) \/ User(c) PROVE TypeOK'
  <2>1. CASE ClientVisit(c) BY <2>1 DEF ClientVisit, TypeOK
  <2>2. CASE ClientReadOffer(c) BY <2>2 DEF ClientReadOffer, TypeOK
  <2>3. CASE ClientDial(c) BY <2>3 DEF ClientDial, TypeOK
  <2>4. CASE ClientRefused(c) BY <2>4 DEF ClientRefused, TypeOK
  <2>5. CASE ClientAsk(c) BY <2>5 DEF ClientAsk, TypeOK
  <2>6. CASE ClientTake(c) BY <2>6 DEF ClientTake, TypeOK
  <2>7. CASE ClientQuit(c) BY <2>7 DEF ClientQuit, TypeOK
  <2>8. CASE ClientKilled(c)
    <3>1. CASE UNCHANGED conn BY <2>8, <3>1 DEF ClientKilled, TypeOK
    <3>2. CASE conn' = [conn EXCEPT ![c] = "reset"] BY <2>8, <3>2 DEF ClientKilled, TypeOK
    <3> QED BY <2>8, <3>1, <3>2 DEF ClientKilled
  <2>9. CASE ClientCutOff(c) BY <2>9 DEF ClientCutOff, TypeOK
  <2> QED BY <1>10, <2>1, <2>2, <2>3, <2>4, <2>5, <2>6, <2>7, <2>8, <2>9 DEF Client, User
<1>11. CASE UNCHANGED vars BY <1>11 DEF TypeOK
<1> QED
  BY <1>1, <1>2, <1>3, <1>4, <1>5, <1>6, <1>7, <1>8, <1>9, <1>10, <1>11
     DEF Next, Listener, Handler
-----------------------------------------------------------------------------
(* The end of the process.                                                 *)

(* The end of the process establishes every part of the invariant: each    *)
(* client that talked is gone and nothing is under way.                    *)
LEMMA DownStep ==
  ASSUME PoolInv, NEW q, Down(q)
  PROVE  (/\ OneConversation /\ Visiting /\ Dialled /\ OneMessage
          /\ Scanning /\ Descriptors /\ RecordsFollowFirstBoot)'
<1> USE NothingElse, PoolAssumption DEF Down
<1> TypeOK /\ Visiting BY DEF PoolInv
<1>1. OneConversation' BY DEF OneConversation
<1>2. Visiting'
  <2>1. \A c \in Clients : cpc'[c] = "start" => cpc[c] = "start"
    BY DEF TypeOK
  <2> QED BY <2>1 DEF Visiting
<1>3. Dialled' BY DEF Dialled
<1>4. OneMessage'
  <2>1. \A c \in Clients : cpc'[c] # "await"
    BY DEF TypeOK
  <2> QED BY <2>1 DEF OneMessage
<1>5. Scanning' BY DEF Scanning
<1>6. Descriptors'
  <2>1. Talking' = {} BY DEF Talking
  <2> QED BY <2>1, FS_EmptySet DEF Descriptors
<1>7. RecordsFollowFirstBoot' BY DEF RecordsFollowFirstBoot, RecordsFollow
<1> QED BY <1>1, <1>2, <1>3, <1>4, <1>5, <1>6, <1>7

(* A step that is not an action of its own is the end of the process, or   *)
(* the cleanup a service begins.                                           *)
LEMMA StepCases ==
  ASSUME [Next]_vars
  PROVE  \/ ListenerAccept \/ ListenerLock \/ ListenerScan \/ ListenerSend
         \/ HandlerReceive \/ HandlerApply \/ Restart \/ UNCHANGED vars
         \/ \E q : Down(q)
         \/ \E s \in Services :
              \/ ServiceListen(s) \/ ServiceAccept(s) \/ ServiceMark(s)
              \/ ServiceTellOccupied(s) \/ ServiceRecv(s) \/ ServiceReply(s)
              \/ ServiceHangUp(s) \/ ServiceTellFree(s) \/ ServiceSpins(s)
              \/ ServiceExits(s) /\ ~cleaning /\ spc[s] # "freed"
         \/ \E c \in Clients :
              \/ ClientVisit(c) \/ ClientReadOffer(c) \/ ClientDial(c)
              \/ ClientRefused(c) \/ ClientAsk(c) \/ ClientTake(c)
              \/ ClientQuit(c) \/ ClientKilled(c) \/ ClientCutOff(c)
<1>1. \A s \in Services : ServiceExits(s) => (\E q : Down(q)) \/ ~cleaning
  BY DEF ServiceExits
<1> QED
  BY <1>1 DEF Next, Listener, Handler, Service, Client, User, ListenerAcceptFails,
     ListenerExits, ListenerSendFails, ServerKilled, ServiceAcceptFails,
     ServiceRecvFails, ServiceReplyFails
-----------------------------------------------------------------------------
(* The parts of the invariant.                                             *)

(* accept and close keep at least one open descriptor for each             *)
(* conversation (run_server, handle_client_connection).                    *)
LEMMA DescriptorsStep ==
  ASSUME PoolInv, [Next]_vars
  PROVE  Descriptors'
<1> TypeOK /\ Dialled /\ Descriptors BY DEF PoolInv
<1> USE NothingElse, TalkingFinite
<1>1. ASSUME NEW s \in Services, ServiceAccept(s) PROVE Descriptors'
  <2>1. Head(sq[s]) \in Clients
    BY <1>1 DEF ServiceAccept, TypeOK
  <2>2. Talking' = Talking \cup {s} /\ s \notin Talking
    BY <1>1, <2>1 DEF ServiceAccept, Talking, TypeOK, Dialled
  <2>3. Cardinality(Talking') = Cardinality(Talking) + 1
    BY <2>2, FS_AddElement
  <2> QED BY <1>1, <2>3 DEF ServiceAccept, Descriptors, TypeOK
<1>2. ASSUME NEW s \in Services, ServiceHangUp(s) PROVE Descriptors'
  <2>1. Talking' = Talking \ {s} /\ s \in Talking
    BY <1>2 DEF ServiceHangUp, Talking, TypeOK
  <2>2. Cardinality(Talking') = Cardinality(Talking) - 1
    BY <2>1, FS_RemoveElement
  <2> QED BY <1>2, <2>2 DEF ServiceHangUp, Descriptors, TypeOK
<1>3. CASE ListenerAccept
  BY <1>3 DEF ListenerAccept, Descriptors, Talking, TypeOK
<1>4. CASE UNCHANGED <<partner, fds>>
  BY <1>4 DEF Descriptors, Talking
<1>5. ASSUME NEW q, Down(q) PROVE Descriptors'
  BY <1>5, DownStep
<1> QED
  BY <1>1, <1>2, <1>3, <1>4, <1>5, StepCases
     DEF ListenerLock, ListenerScan, ListenerSend, HandlerReceive, HandlerApply, Restart,
         ServiceListen, ServiceMark, ServiceTellOccupied, ServiceTellFree, Notify,
         ServiceRecv, ServiceSpins, ServiceReply, ServiceExits, ClientVisit,
         ClientReadOffer, ClientDial, ClientRefused, ClientAsk, ClientTake, ClientQuit,
         ClientKilled, ClientCutOff

(* Nobody but the listener writes behind the index of                      *)
(* get_free_service while it holds services_mutex.                         *)
LEMMA ScanningStep ==
  ASSUME PoolInv, [Next]_vars
  PROVE  Scanning'
<1> TypeOK /\ Scanning BY DEF PoolInv
<1> USE NothingElse DEF Scanning
<1>0. ASSUME UNCHANGED <<lpc, mutex, scan, status>>,
             \A t \in Services : spc[t] = "freed" => spc'[t] = "freed"
      PROVE  Scanning'
  <2>1. scan \in 1..ServicesAmount /\ ServicesAmount \in Nat
    BY PoolAssumption DEF TypeOK, Services
  <2>2. \A t \in 1..(scan - 1) : t \in Services
    BY <2>1 DEF Services
  <2> QED BY <1>0, <2>2
<1>1. CASE ListenerLock
  BY <1>1 DEF ListenerLock, TypeOK
<1>2. CASE ListenerScan
  <2>1. CASE status[scan] = "OCCUPIED" \/ spc[scan] = "freed"
    BY <1>2, <2>1 DEF ListenerScan, TypeOK, Services
  <2>2. CASE status[scan] = "FREE" /\ spc[scan] # "freed"
    BY <1>2, <2>2 DEF ListenerScan
  <2> QED BY <2>1, <2>2 DEF TypeOK
<1>3. CASE HandlerApply
  BY <1>3 DEF HandlerApply
<1>4. ASSUME NEW s \in Services, ServiceMark(s) PROVE Scanning'
  BY <1>4 DEF ServiceMark, TypeOK, Services
<1>5. ASSUME NEW s \in Services, ServiceExits(s), ~cleaning,
             spc[s] # "freed"
      PROVE  Scanning'
  <2>1. \A t \in Services : spc[t] = "freed" => spc'[t] = "freed"
    BY <1>5 DEF ServiceExits
  <2>2. UNCHANGED <<lpc, mutex, scan, status>>
    BY <1>5 DEF ServiceExits
  <2> QED BY <1>0, <2>1, <2>2
<1>6. ASSUME NEW q, Down(q) PROVE Scanning'
  BY <1>6, DownStep
<1>7. CASE ListenerAccept \/ ListenerSend
  BY <1>7 DEF ListenerAccept, ListenerSend
<1>8. CASE HandlerReceive \/ Restart \/ UNCHANGED vars
  BY <1>0, <1>8 DEF HandlerReceive, Restart
<1>9. ASSUME NEW s \in Services,
             \/ ServiceListen(s) \/ ServiceAccept(s) \/ ServiceTellOccupied(s)
             \/ ServiceTellFree(s) \/ ServiceRecv(s) \/ ServiceReply(s) \/ ServiceHangUp(s)
             \/ ServiceSpins(s)
      PROVE  Scanning'
  BY <1>0, <1>9 DEF ServiceListen, ServiceAccept, ServiceTellOccupied, ServiceTellFree,
     Notify, ServiceRecv, ServiceSpins, ServiceReply, ServiceHangUp, TypeOK
<1>10. ASSUME NEW c \in Clients,
              \/ ClientVisit(c) \/ ClientReadOffer(c) \/ ClientDial(c) \/ ClientRefused(c)
              \/ ClientAsk(c) \/ ClientTake(c) \/ ClientQuit(c) \/ ClientKilled(c)
              \/ ClientCutOff(c)
       PROVE  Scanning'
  BY <1>0, <1>10 DEF ClientVisit, ClientReadOffer, ClientDial, ClientRefused, ClientAsk,
     ClientTake, ClientQuit, ClientKilled, ClientCutOff
<1> QED
  BY <1>1, <1>2, <1>3, <1>4, <1>5, <1>6, <1>7, <1>8, <1>9, <1>10, StepCases

(* A client waits for the listener in one place of its accept queue and    *)
(* without an offer (run_server, send_addr).                               *)
LEMMA VisitingStep ==
  ASSUME PoolInv, [Next]_vars
  PROVE  Visiting'
<1> TypeOK /\ Visiting BY DEF PoolInv
<1> USE NothingElse DEF Visiting
<1>1. CASE ListenerAccept
  <2>1. lq # <<>> /\ Head(lq) = lq[1] /\ Head(lq) \in Clients /\ lq' = Tail(lq)
    BY <1>1 DEF ListenerAccept, TypeOK
  <2>2. Len(lq') = Len(lq) - 1 /\ \A i \in 1..Len(lq') : lq'[i] = lq[i + 1]
    BY <2>1, HeadTailProperties DEF TypeOK
  <2>3. Len(lq) \in Nat \ {0}
    BY <2>1 DEF TypeOK
  <2>4. UNCHANGED <<cpc, offer>> /\ visitor' = lq[1]
    BY <1>1, <2>1 DEF ListenerAccept
  <2>5. \A i \in 1..Len(lq') : i + 1 \in 1..Len(lq) /\ i + 1 # 1
    BY <2>2, <2>3
  <2>6. \A i \in 1..Len(lq') : lq[i + 1] # lq[1] /\ lq[i + 1] = lq'[i]
    BY <2>2, <2>3, <2>5
  <2>7. \A i, j \in 1..Len(lq') : lq'[i] = lq'[j] => i = j
    <3>1. \A i, j \in 1..Len(lq') : lq[i + 1] = lq[j + 1] => i + 1 = j + 1
      BY <2>5
    <3> QED BY <2>3, <2>6, <3>1
  <2>8. \A i \in 1..Len(lq') :
          cpc[lq'[i]] \in {"hello", "gone"} /\ offer[lq'[i]] = None /\ lq'[i] # visitor'
    BY <2>4, <2>5, <2>6
  <2>9. cpc[visitor'] \in {"hello", "gone"} /\ offer[visitor'] = None
    BY <2>3, <2>4
  <2> QED BY <2>4, <2>7, <2>8, <2>9
<1>2. CASE ListenerSend
  BY <1>2 DEF ListenerSend, TypeOK
<1>3. ASSUME NEW c \in Clients, ClientVisit(c) PROVE Visiting'
  <2>1. \A i \in 1..Len(lq) : lq[i] # c
    BY <1>3 DEF ClientVisit
  <2>2. c # visitor /\ offer[c] = None
    BY <1>3 DEF ClientVisit
  <2>3. /\ Len(lq') = Len(lq) + 1 /\ lq'[Len(lq) + 1] = c
        /\ \A i \in 1..Len(lq) : lq'[i] = lq[i]
    BY <1>3, AppendProperties DEF ClientVisit, TypeOK
  <2>4. \A i \in 1..Len(lq') : i \in 1..Len(lq) \/ i = Len(lq) + 1
    BY <2>3 DEF TypeOK
  <2>5. cpc' = [cpc EXCEPT ![c] = "hello"] /\ UNCHANGED <<offer, visitor>>
    BY <1>3 DEF ClientVisit
  <2>6. \A i \in 1..Len(lq) : cpc'[lq[i]] \in {"hello", "gone"}
    BY <2>1, <2>5 DEF TypeOK
  <2>7. visitor # None => cpc'[visitor] \in {"hello", "gone"}
    BY <2>2, <2>5 DEF TypeOK
  <2>8. \A d \in Clients : cpc'[d] = "start" => offer'[d] = None
    BY <2>2, <2>5 DEF TypeOK
  <2>9. \A i, j \in 1..Len(lq') : lq'[i] = lq'[j] => i = j
    BY <2>1, <2>3, <2>4
  <2>10. \A i \in 1..Len(lq') :
          cpc'[lq'[i]] \in {"hello", "gone"} /\ offer[lq'[i]] = None /\ lq'[i] # visitor
    <3>1. \A i \in 1..Len(lq) : cpc'[lq'[i]] \in {"hello", "gone"} /\ offer[lq'[i]] = None
                                /\ lq'[i] # visitor
      BY <2>3, <2>6
    <3>2. cpc'[c] = "hello"
      BY <2>5 DEF TypeOK
    <3> QED BY <2>2, <2>3, <2>4, <2>5, <3>1, <3>2
  <2> QED BY <2>2, <2>5, <2>7, <2>8, <2>9, <2>10
<1>4. ASSUME UNCHANGED <<lq, visitor, offer>>,
             \A c \in Clients : \/ cpc'[c] = cpc[c] \/ cpc'[c] = "gone"
                                \/ cpc[c] # "gone" /\ offer[c] # None /\ cpc'[c] # "start"
      PROVE  Visiting'
  <2>1. \A i \in 1..Len(lq) : lq[i] \in Clients
    BY DEF TypeOK
  <2> QED BY <1>4, <2>1 DEF TypeOK
<1>5. ASSUME NEW q, Down(q) PROVE Visiting'
  BY <1>5, DownStep
<1>6. ASSUME NEW s \in Services, ServiceExits(s), ~cleaning PROVE Visiting'
  <2>1. \A c \in Clients : cpc'[c] = cpc[c] \/ cpc'[c] = "gone"
    BY <1>6 DEF ServiceExits, TypeOK
  <2> QED BY <1>4, <1>6, <2>1 DEF ServiceExits
<1>7. ASSUME NEW c \in Clients,
             \/ ClientReadOffer(c) \/ ClientDial(c) \/ ClientRefused(c) \/ ClientAsk(c)
             \/ ClientTake(c) \/ ClientQuit(c) \/ ClientKilled(c) \/ ClientCutOff(c)
      PROVE  Visiting'
  BY <1>4, <1>7 DEF ClientReadOffer, ClientDial, ClientRefused, ClientAsk, ClientTake,
     ClientQuit, ClientKilled, ClientCutOff, TypeOK
<1>8. CASE UNCHANGED <<lq, visitor, offer, cpc>>
  BY <1>8
<1> QED
  BY <1>1, <1>2, <1>3, <1>5, <1>6, <1>7, <1>8, StepCases
     DEF ListenerLock, ListenerScan, HandlerReceive, HandlerApply, Restart,
         ServiceListen, ServiceAccept, ServiceMark, ServiceTellOccupied, ServiceTellFree,
         Notify, ServiceRecv, ServiceSpins, ServiceReply, ServiceHangUp

(* A client that is killed resets its connection only if it was open.      *)
LEMMA KilledConnection ==
  ASSUME PoolInv, NEW c \in Clients, ClientKilled(c)
  PROVE  \/ UNCHANGED conn
         \/ conn[c] = "open" /\ conn' = [conn EXCEPT ![c] = "reset"]
<1> Dialled /\ OneConversation BY DEF PoolInv
<1>1. answer[c] # None => conn[c] = "open" BY DEF Dialled
<1>2. cpc[c] # "gone" BY DEF ClientKilled
<1>3. ASSUME Replying(c) PROVE conn[c] = "open"
  <2>1. PICK s \in Services : partner[s] = c BY <1>3 DEF Replying
  <2>2. conn[c] \in {"open", "reset"} BY <2>1, NothingElse DEF OneConversation
  <2> QED BY <1>2, <2>2 DEF Dialled
<1> QED BY <1>1, <1>3 DEF ClientKilled

(* A client has a connection to a service only after it was sent there     *)
(* and only while that service is in communicate (run_client).             *)
LEMMA DialledStep ==
  ASSUME PoolInv, [Next]_vars
  PROVE  Dialled'
<1> TypeOK /\ Dialled BY DEF PoolInv
<1> USE NothingElse DEF Dialled
<1>1. ASSUME NEW s \in Services, ServiceAccept(s) PROVE Dialled'
  <2>1. Head(sq[s]) \in Clients /\ conn[Head(sq[s])] = "backlog"
    <3>1. sq[s] \in Seq(Clients) /\ sq[s] # <<>>
      BY <1>1 DEF ServiceAccept, TypeOK
    <3>2. 1 \in 1..Len(sq[s]) /\ Head(sq[s]) = sq[s][1] /\ Head(sq[s]) \in Clients
      BY <3>1
    <3> QED BY <3>2 DEF PoolInv, OneConversation
  <2> QED BY <1>1, <2>1 DEF ServiceAccept, TypeOK
<1>2. ASSUME NEW s \in Services, ServiceReply(s) PROVE Dialled'
  <2>1. partner[s] \in Clients
    BY <1>2 DEF ServiceReply, TypeOK
  <2>2. cpc[partner[s]] # "gone" =>
          conn[partner[s]] = "open" /\ cpc[partner[s]] = "await"
    BY <1>2, <2>1 DEF ServiceReply, PoolInv, OneConversation, OneMessage
  <2> QED BY <1>2, <2>1, <2>2 DEF ServiceReply, TypeOK
<1>3. ASSUME NEW s \in Services, ServiceHangUp(s) PROVE Dialled'
  BY <1>3 DEF ServiceHangUp, TypeOK
<1>4. ASSUME NEW s \in Services, ServiceExits(s), ~cleaning PROVE Dialled'
  <2>1. \A c \in Clients : \/ cpc'[c] = cpc[c] /\ conn'[c] = conn[c]
                           \/ cpc'[c] = "gone" /\ conn'[c] = "none" /\ conn[c] = "backlog"
    BY <1>4 DEF ServiceExits, TypeOK
  <2>2. \A t \in Services : spc'[t] \in {spc[t], "freed", "cancelled"}
    BY <1>4 DEF ServiceExits
  <2>3. UNCHANGED <<answer, partner, offer>>
    BY <1>4 DEF ServiceExits
  <2> QED BY <2>1, <2>2, <2>3
<1>5. ASSUME NEW s \in Services,
             \/ ServiceListen(s) \/ ServiceMark(s) \/ ServiceTellOccupied(s)
             \/ ServiceTellFree(s) \/ ServiceRecv(s) \/ ServiceSpins(s)
      PROVE  Dialled'
  <2>1. \A t \in Services : spc'[t] \in {"boot", "accept", "tell_free"} =>
                              spc[t] \in {"boot", "accept", "tell_free"}
    BY <1>5 DEF ServiceListen, ServiceMark, ServiceTellOccupied, ServiceTellFree, Notify,
       ServiceRecv, ServiceSpins, TypeOK
  <2>2. UNCHANGED <<cpc, conn, answer, partner, offer>>
    BY <1>5 DEF ServiceListen, ServiceMark, ServiceTellOccupied, ServiceTellFree, Notify,
       ServiceRecv, ServiceSpins
  <2> QED BY <2>1, <2>2
<1>6. ASSUME NEW c \in Clients,
             \/ ClientVisit(c) \/ ClientReadOffer(c) \/ ClientRefused(c) \/ ClientAsk(c)
             \/ ClientQuit(c) \/ ClientCutOff(c)
      PROVE  Dialled'
  <2>1. /\ \A d \in Clients \ {c} : cpc'[d] = cpc[d]
        /\ cpc[c] \notin {"gone", "await"}
        /\ cpc'[c] \in {"start", "hello", "directed"} => cpc[c] \in {"start", "hello", "directed"}
    BY <1>6 DEF ClientVisit, ClientReadOffer, ClientRefused, ClientAsk, ClientQuit,
       ClientCutOff, TypeOK
  <2>2. UNCHANGED <<conn, answer, spc, partner, offer>>
    BY <1>6 DEF ClientVisit, ClientReadOffer, ClientRefused, ClientAsk, ClientQuit,
       ClientCutOff
  <2> QED BY <2>1, <2>2
<1>7. ASSUME NEW c \in Clients, ClientDial(c) \/ ClientTake(c) PROVE Dialled'
  <2>1. CASE ClientDial(c)
    BY <2>1 DEF ClientDial, TypeOK
  <2>2. CASE ClientTake(c)
    BY <2>2 DEF ClientTake, TypeOK
  <2> QED BY <1>7, <2>1, <2>2
<1>8. ASSUME NEW c \in Clients, ClientKilled(c) PROVE Dialled'
  <2>1. CASE UNCHANGED conn BY <1>8, <2>1 DEF ClientKilled, TypeOK
  <2>2. CASE conn[c] = "open" /\ conn' = [conn EXCEPT ![c] = "reset"]
    BY <1>8, <2>2 DEF ClientKilled, TypeOK
  <2> QED BY <1>8, <2>1, <2>2, KilledConnection
<1>9. ASSUME NEW q, Down(q) PROVE Dialled'
  BY <1>9, DownStep
<1>11. CASE ListenerSend
  BY <1>11 DEF ListenerSend, TypeOK, PoolInv, Visiting
<1>10. CASE UNCHANGED <<cpc, conn, answer, spc, partner, offer>>
  BY <1>10
<1> QED
  BY <1>1, <1>2, <1>3, <1>4, <1>5, <1>6, <1>7, <1>8, <1>9, <1>10, <1>11, StepCases
     DEF ListenerAccept, ListenerLock, ListenerScan, HandlerReceive,
         HandlerApply, Restart

(* A message moves from the socket to the service and back without         *)
(* being lost or doubled (recv_message, send_message).                     *)
LEMMA OneMessageStep ==
  ASSUME PoolInv, [Next]_vars
  PROVE  OneMessage'
<1> TypeOK /\ Dialled /\ OneMessage /\ OneConversation BY DEF PoolInv
<1> USE NothingElse DEF OneMessage
<1>1. ASSUME NEW s \in Services, ServiceRecv(s) PROVE OneMessage'
  <2>1. partner[s] \in Clients /\ request[partner[s]] \in Messages
    BY <1>1 DEF ServiceRecv, TypeOK
  <2>2. \A t \in Services : spc[t] = "reply" => partner[t] # partner[s]
    <3>1. \A t \in Services : spc[t] = "reply" => partner[t] # None /\ t # s
      BY <1>1 DEF ServiceRecv, TypeOK
    <3> QED BY <2>1, <3>1 DEF OneConversation
  <2> QED BY <1>1, <2>1, <2>2 DEF ServiceRecv, TypeOK
<1>2. ASSUME NEW s \in Services, ServiceReply(s) PROVE OneMessage'
  <2>1. partner[s] \in Clients
    BY <1>2 DEF ServiceReply, TypeOK
  <2>2. \A t \in Services : spc[t] = "reply" /\ t # s => partner[t] # partner[s]
    BY <2>1 DEF OneConversation, TypeOK
  <2>3. cpc[partner[s]] # "gone" => cpc[partner[s]] = "await" /\ request[partner[s]] = None
    BY <1>2 DEF ServiceReply
  <2> QED BY <1>2, <2>1, <2>2, <2>3 DEF ServiceReply, TypeOK
<1>3. ASSUME NEW s \in Services, ServiceExits(s), ~cleaning PROVE OneMessage'
  <2>1. \A c \in Clients :
          \/ cpc'[c] = cpc[c] /\ request'[c] = request[c] /\ asked'[c] = asked[c]
          \/ cpc'[c] = "gone" /\ request'[c] = None /\ asked'[c] = None
    BY <1>3 DEF ServiceExits, TypeOK
  <2>2. \A t \in Services : spc'[t] \in {spc[t], "freed", "cancelled"}
    BY <1>3 DEF ServiceExits
  <2>3. UNCHANGED <<answer, partner, text>>
    BY <1>3 DEF ServiceExits
  <2>4. \A t \in Services : spc[t] = "reply" => partner[t] \in Clients
    BY DEF TypeOK
  <2>5. \A t \in Services : spc'[t] = "reply" => spc[t] = "reply" /\ partner[t] \in Clients
    BY <2>2, <2>4
  <2> QED BY <2>1, <2>3, <2>5
<1>4. ASSUME NEW s \in Services,
             \/ ServiceListen(s) \/ ServiceMark(s) \/ ServiceTellOccupied(s)
             \/ ServiceTellFree(s) \/ ServiceAccept(s) \/ ServiceHangUp(s)
             \/ ServiceSpins(s)
      PROVE  OneMessage'
  <2>1. \A t \in Services : spc'[t] = "reply" => spc[t] = "reply" /\ partner'[t] = partner[t]
    <3>1. CASE \/ ServiceListen(s) \/ ServiceMark(s) \/ ServiceTellOccupied(s)
               \/ ServiceTellFree(s) \/ ServiceSpins(s)
      BY <3>1 DEF ServiceListen, ServiceMark, ServiceTellOccupied, ServiceTellFree, Notify,
         ServiceSpins, TypeOK
    <3>2. CASE ServiceAccept(s) \/ ServiceHangUp(s)
      BY <3>2 DEF ServiceAccept, ServiceHangUp, TypeOK
    <3> QED BY <1>4, <3>1, <3>2
  <2>2. UNCHANGED <<cpc, request, asked, answer, text>>
    BY <1>4 DEF ServiceListen, ServiceMark, ServiceTellOccupied, ServiceTellFree, Notify,
       ServiceAccept, ServiceHangUp, ServiceSpins
  <2> QED BY <2>1, <2>2
<1>5. ASSUME NEW c \in Clients, ClientAsk(c) PROVE OneMessage'
  <2>1. \A t \in Services : spc[t] = "reply" => partner[t] # c
    BY <1>5 DEF ClientAsk
  <2>2. answer[c] = None
    BY <1>5 DEF ClientAsk, Dialled
  <2>3. PICK m \in Messages : asked' = [asked EXCEPT ![c] = m] /\ request' = [request EXCEPT ![c] = m]
    BY <1>5 DEF ClientAsk
  <2> QED BY <1>5, <2>1, <2>2, <2>3 DEF ClientAsk, TypeOK
<1>6. ASSUME NEW c \in Clients, ClientTake(c) PROVE OneMessage'
  BY <1>6 DEF ClientTake, TypeOK
<1>7. ASSUME NEW c \in Clients, ClientKilled(c) PROVE OneMessage'
  BY <1>7 DEF ClientKilled, TypeOK
<1>11. ASSUME NEW c \in Clients, ClientCutOff(c) PROVE OneMessage'
  <2>1. \A t \in Services : spc[t] = "reply" => partner[t] # c
    BY <1>11 DEF ClientCutOff
  <2> QED BY <1>11, <2>1 DEF ClientCutOff, TypeOK
<1>8. ASSUME NEW c \in Clients,
             \/ ClientVisit(c) \/ ClientReadOffer(c) \/ ClientRefused(c)
             \/ ClientDial(c) \/ ClientQuit(c)
      PROVE  OneMessage'
  <2>1. /\ cpc[c] # "await" /\ cpc'[c] # "await" /\ \A d \in Clients \ {c} : cpc'[d] = cpc[d]
        /\ cpc[c] # "gone"
    BY <1>8 DEF ClientVisit, ClientReadOffer, ClientRefused, ClientDial, ClientQuit, TypeOK
  <2>2. UNCHANGED <<request, asked, answer, text, partner, spc>>
    BY <1>8 DEF ClientVisit, ClientReadOffer, ClientRefused, ClientDial, ClientQuit
  <2>3. \A t \in Services : spc[t] = "reply" => partner[t] \in Clients
    BY DEF TypeOK
  <2> QED BY <2>1, <2>2, <2>3
<1>9. ASSUME NEW q, Down(q) PROVE OneMessage'
  BY <1>9, DownStep
<1>10. CASE UNCHANGED <<cpc, request, asked, answer, text, partner, spc>>
  BY <1>10
<1> QED
  BY <1>1, <1>2, <1>3, <1>4, <1>5, <1>6, <1>7, <1>8, <1>9, <1>10, <1>11, StepCases
     DEF ListenerAccept, ListenerLock, ListenerScan, ListenerSend, HandlerReceive,
         HandlerApply, Restart

(* accept, communicate and the next accept keep each client in the         *)
(* conversation or the accept queue of one service.                        *)
LEMMA OneConversationStep ==
  ASSUME PoolInv, [Next]_vars
  PROVE  OneConversation'
<1> TypeOK /\ Dialled /\ Visiting /\ OneConversation BY DEF PoolInv
<1> USE NothingElse DEF OneConversation
<1>0. \A t \in Services : /\ sq[t] \in Seq(Clients)
                          /\ \A i \in 1..Len(sq[t]) : sq[t][i] \in Clients
  BY DEF TypeOK
<1>1. ASSUME NEW s \in Services, ServiceAccept(s) PROVE OneConversation'
  <2> DEFINE c == Head(sq[s])
  <2>1. sq[s] # <<>> /\ 1 \in 1..Len(sq[s]) /\ c = sq[s][1] /\ c \in Clients
    BY <1>0, <1>1 DEF ServiceAccept
  <2>2. conn[c] = "backlog" /\ offer[c] = s
    BY <2>1
  <2>3. \A d \in Clients \ {c} : conn'[d] = conn[d]
    BY <1>1 DEF ServiceAccept, TypeOK
  <2>4. conn'[c] = "open" /\ partner'[s] = c /\ UNCHANGED offer
    BY <1>1, <2>1 DEF ServiceAccept, TypeOK
  <2>5. \A t \in Services \ {s} : partner'[t] = partner[t] /\ sq'[t] = sq[t]
    BY <1>1 DEF ServiceAccept, TypeOK
  <2>6. /\ sq'[s] = Tail(sq[s]) /\ Len(sq'[s]) = Len(sq[s]) - 1
        /\ \A i \in 1..Len(sq'[s]) : sq'[s][i] = sq[s][i + 1] /\ i + 1 \in 1..Len(sq[s])
    <3>1. sq'[s] = Tail(sq[s])
      BY <1>1 DEF ServiceAccept, TypeOK
    <3>2. Len(sq[s]) \in Nat
      BY <1>0
    <3> QED BY <1>0, <2>1, <3>1, <3>2, HeadTailProperties
  <2>7. \A t \in Services \ {s} : /\ partner[t] # None => partner[t] # c /\ partner[t] \in Clients
                                  /\ \A i \in 1..Len(sq[t]) : sq[t][i] # c
    BY <2>2 DEF TypeOK
  <2>8. \A i \in 1..Len(sq'[s]) : sq'[s][i] # c /\ sq'[s][i] \in Clients
    <3>1. \A i \in 1..Len(sq'[s]) : i + 1 # 1
      OBVIOUS
    <3> QED BY <1>0, <2>1, <2>6, <3>1
  <2>9. \A i, j \in 1..Len(sq'[s]) : sq'[s][i] = sq'[s][j] => i = j
    <3>1. ASSUME NEW i \in 1..Len(sq'[s]), NEW j \in 1..Len(sq'[s]), sq'[s][i] = sq'[s][j]
          PROVE  i = j
      <4>1. sq[s][i + 1] = sq[s][j + 1] /\ i + 1 \in 1..Len(sq[s]) /\ j + 1 \in 1..Len(sq[s])
        BY <2>6, <3>1
      <4>2. i + 1 = j + 1
        BY <4>1
      <4> QED BY <4>2
    <3> QED BY <3>1
  <2>10. \A i \in 1..Len(sq'[s]) : conn'[sq'[s][i]] = "backlog" /\ offer'[sq'[s][i]] = s
    BY <2>3, <2>4, <2>6, <2>8
  <2>11. ASSUME NEW t \in Services \ {s}
         PROVE  /\ partner'[t] # None => conn'[partner'[t]] \in {"open", "reset"} /\ offer'[partner'[t]] = t
                /\ \A i \in 1..Len(sq'[t]) :
                     /\ conn'[sq'[t][i]] = "backlog" /\ offer'[sq'[t][i]] = t
                     /\ \A j \in 1..Len(sq'[t]) : sq'[t][i] = sq'[t][j] => i = j
    BY <1>0, <2>3, <2>4, <2>5, <2>7
  <2> QED BY <2>2, <2>4, <2>9, <2>10, <2>11
<1>2. ASSUME NEW s \in Services, ServiceHangUp(s) PROVE OneConversation'
  <2>1. partner[s] \in Clients /\ conn[partner[s]] = "open" /\ offer[partner[s]] = s
    BY <1>2 DEF ServiceHangUp, TypeOK
  <2>2. \A d \in Clients \ {partner[s]} : conn'[d] = conn[d]
    BY <1>2 DEF ServiceHangUp, TypeOK
  <2>3. /\ UNCHANGED <<offer, sq>> /\ partner'[s] = None
        /\ \A t \in Services \ {s} : partner'[t] = partner[t]
    BY <1>2 DEF ServiceHangUp, TypeOK
  <2>4. \A t \in Services \ {s} : partner[t] # None => partner[t] \in Clients /\ partner[t] # partner[s]
    BY <2>1 DEF TypeOK
  <2>5. \A t \in Services : \A i \in 1..Len(sq[t]) : sq[t][i] # partner[s]
    BY <2>1
  <2> QED BY <1>0, <2>1, <2>2, <2>3, <2>4, <2>5
<1>3. ASSUME NEW s \in Services, ServiceExits(s), ~cleaning PROVE OneConversation'
  <2>1. \A c \in Clients : conn'[c] = conn[c] \/ (conn[c] = "backlog" /\ offer[c] \in 1..(s - 1))
    <3>1. conn' = [c \in Clients |-> IF c \in {d \in Clients : /\ conn[d] = "backlog"
                                                              /\ offer[d] \in 1..(s - 1)}
                                       THEN "none" ELSE conn[c]]
      BY <1>3 DEF ServiceExits
    <3> QED BY <3>1
  <2>2. \A t \in Services : sq'[t] = IF t < s THEN <<>> ELSE sq[t]
    BY <1>3 DEF ServiceExits
  <2>3. UNCHANGED <<offer, partner>>
    BY <1>3 DEF ServiceExits
  <2>4. \A t \in Services : partner[t] # None => partner[t] \in Clients
    BY DEF TypeOK
  <2>5. \A t \in Services : t \notin 1..(s - 1) \/ t < s
    BY PoolAssumption DEF Services
  <2>6. ASSUME NEW t \in Services, partner[t] # None
        PROVE  conn'[partner[t]] \in {"open", "reset"} /\ offer[partner[t]] = t
    BY <2>1, <2>4, <2>6
  <2>7. ASSUME NEW t \in Services, NEW i \in 1..Len(sq'[t])
        PROVE  /\ conn'[sq'[t][i]] = "backlog" /\ offer[sq'[t][i]] = t
               /\ \A j \in 1..Len(sq'[t]) : sq'[t][i] = sq'[t][j] => i = j
    <3>1. ~(t < s)
      BY <2>2, <2>7
    <3>2. sq'[t] = sq[t] /\ sq[t][i] \in Clients /\ t \notin 1..(s - 1)
      BY <1>0, <2>2, <2>5, <2>7, <3>1 DEF Services
    <3>3. offer[sq[t][i]] = t /\ conn[sq[t][i]] = "backlog"
      BY <2>7, <3>2
    <3> QED BY <2>1, <2>7, <3>2, <3>3
  <2>8. \A t \in Services : partner'[t] # None =>
          conn'[partner'[t]] \in {"open", "reset"} /\ offer'[partner'[t]] = t
    BY <2>3, <2>6
  <2>9. \A t \in Services : \A i \in 1..Len(sq'[t]) :
          /\ conn'[sq'[t][i]] = "backlog" /\ offer'[sq'[t][i]] = t
          /\ \A j \in 1..Len(sq'[t]) : sq'[t][i] = sq'[t][j] => i = j
    BY <2>3, <2>7
  <2> HIDE DEF OneConversation
  <2> QED BY <2>8, <2>9 DEF OneConversation
<1>4. CASE ListenerSend
  <2>1. visitor \in Clients /\ conn[visitor] = "none"
    BY <1>4 DEF ListenerSend, TypeOK, Visiting, Dialled
  <2>2. UNCHANGED <<conn, partner, sq>> /\ \A d \in Clients \ {visitor} : offer'[d] = offer[d]
    BY <1>4 DEF ListenerSend, TypeOK
  <2>3. \A t \in Services : partner[t] # None => partner[t] \in Clients
    BY DEF TypeOK
  <2> QED BY <1>0, <2>1, <2>2, <2>3
<1>5. ASSUME NEW c \in Clients, ClientDial(c) PROVE OneConversation'
  <2> DEFINE s == offer[c]
  <2>1. s \in Services /\ conn[c] = "none"
    BY <1>5 DEF ClientDial, TypeOK, Dialled
  <2>2. /\ conn'[c] = "backlog" /\ UNCHANGED <<partner, offer>>
        /\ \A d \in Clients \ {c} : conn'[d] = conn[d]
    BY <1>5 DEF ClientDial, TypeOK
  <2>3. sq'[s] = Append(sq[s], c) /\ \A t \in Services \ {s} : sq'[t] = sq[t]
    BY <1>5, <2>1 DEF ClientDial, TypeOK
  <2>4. /\ Len(sq'[s]) = Len(sq[s]) + 1 /\ sq'[s][Len(sq[s]) + 1] = c /\ Len(sq[s]) \in Nat
        /\ \A i \in 1..Len(sq[s]) : sq'[s][i] = sq[s][i]
    BY <1>0, <2>1, <2>3, AppendProperties
  <2>5. \A i \in 1..Len(sq'[s]) : i \in 1..Len(sq[s]) \/ i = Len(sq[s]) + 1
    BY <2>4
  <2>6. \A t \in Services : /\ partner[t] # None => partner[t] \in Clients \ {c}
                            /\ \A i \in 1..Len(sq[t]) : sq[t][i] \in Clients \ {c}
    <3>1. \A t \in Services : partner[t] # None => partner[t] \in Clients
      BY DEF TypeOK
    <3> QED BY <1>0, <2>1, <3>1
  <2>7. \A i \in 1..Len(sq'[s]) :
          /\ conn'[sq'[s][i]] = "backlog" /\ offer'[sq'[s][i]] = s
          /\ \A j \in 1..Len(sq'[s]) : sq'[s][i] = sq'[s][j] => i = j
    <3>1. \A i \in 1..Len(sq[s]) : /\ sq'[s][i] \in Clients \ {c}
                                   /\ conn'[sq'[s][i]] = "backlog" /\ offer'[sq'[s][i]] = s
      BY <2>1, <2>2, <2>4, <2>6
    <3>2. \A i, j \in 1..Len(sq[s]) : sq'[s][i] = sq'[s][j] => i = j
      BY <2>1, <2>4
    <3>3. sq'[s][Len(sq[s]) + 1] = c /\ conn'[c] = "backlog" /\ offer'[c] = s
      BY <2>2, <2>4
    <3>4. \A i \in 1..Len(sq[s]) : sq'[s][i] # c
      BY <3>1
    <3> HIDE DEF s
    <3>5. ASSUME NEW i \in 1..Len(sq'[s]), NEW j \in 1..Len(sq'[s]), sq'[s][i] = sq'[s][j]
          PROVE  i = j
      BY <2>5, <3>2, <3>3, <3>4, <3>5
    <3>6. ASSUME NEW i \in 1..Len(sq'[s])
          PROVE  conn'[sq'[s][i]] = "backlog" /\ offer'[sq'[s][i]] = s
      BY <2>5, <3>1, <3>3
    <3> QED BY <3>5, <3>6
  <2>8. ASSUME NEW t \in Services \ {s}
        PROVE  \A i \in 1..Len(sq'[t]) :
                 /\ conn'[sq'[t][i]] = "backlog" /\ offer'[sq'[t][i]] = t
                 /\ \A j \in 1..Len(sq'[t]) : sq'[t][i] = sq'[t][j] => i = j
    BY <2>2, <2>3, <2>6
  <2> QED BY <2>2, <2>6, <2>7, <2>8
<1>6. ASSUME NEW c \in Clients, ClientKilled(c) PROVE OneConversation'
  <2>1. conn'[c] = conn[c] \/ (conn[c] = "open" /\ conn'[c] = "reset")
    BY <1>6, KilledConnection DEF TypeOK
  <2>2. UNCHANGED <<offer, partner, sq>> /\ \A d \in Clients \ {c} : conn'[d] = conn[d]
    BY <1>6 DEF ClientKilled, TypeOK
  <2>3. \A t \in Services : partner[t] # None => partner[t] \in Clients
    BY DEF TypeOK
  <2> QED BY <1>0, <2>1, <2>2, <2>3
<1>7. ASSUME NEW q, Down(q) PROVE OneConversation'
  BY <1>7, DownStep
<1>8. CASE UNCHANGED <<partner, conn, offer, sq>>
  BY <1>8
<1> QED
  BY <1>1, <1>2, <1>3, <1>4, <1>5, <1>6, <1>7, <1>8, StepCases
     DEF ListenerAccept, ListenerLock, ListenerScan, HandlerReceive, HandlerApply,
         Restart, ServiceListen, ServiceMark, ServiceTellOccupied, ServiceTellFree, Notify,
         ServiceRecv, ServiceSpins, ServiceReply, ClientVisit, ClientReadOffer, ClientRefused,
         ClientAsk, ClientTake, ClientQuit, ClientCutOff
-----------------------------------------------------------------------------
(* The queue and the records: what becomes of Settled.                     *)

(* A step that touches neither the queue, nor the handler, nor the record  *)
(* and the control of a service leaves what its record will say.           *)
LEMMA SettledQuiet ==
  ASSUME NEW t \in Services, NEW x, UNCHANGED <<msq, hand>>, status'[t] = status[t],
         Settled(t, x)
  PROVE  Settled(t, x)'
  BY DEF Settled, InQueue

(* notify_server: the report a service appends is the last word about      *)
(* its record.                                                             *)
LEMMA SettledAppend ==
  ASSUME msq \in Seq(Report), NEW s \in Services, NEW st \in {"FREE", "OCCUPIED"},
         msq' = Append(msq, [sender |-> s, status |-> st]), UNCHANGED <<hand, status>>
  PROVE  /\ Settled(s, st)'
         /\ \A t \in Services \ {s} : \A x : Settled(t, x) => Settled(t, x)'
<1> DEFINE n == Len(msq)
           r == [sender |-> s, status |-> st]
<1>1. r \in Report /\ r.sender = s /\ r.status = st
  BY DEF Report
<1>2. /\ Len(msq') = n + 1 /\ msq'[n + 1] = r /\ n \in Nat
      /\ \A i \in 1..n : msq'[i] = msq[i]
  BY <1>1, AppendProperties
<1>3. \A i \in 1..Len(msq') : i \in 1..n \/ i = n + 1
  BY <1>2
<1>4. n + 1 \in InQueue(s)' /\ \A i \in InQueue(s)' : i <= n + 1
  BY <1>1, <1>2 DEF InQueue
<1>5. Settled(s, st)'
  <2>1. \A i \in InQueue(s)' : n + 1 <= i => i = n + 1
    BY <1>2, <1>4 DEF InQueue
  <2> QED BY <1>1, <1>2, <1>4, <2>1 DEF Settled
<1>6. ASSUME NEW t \in Services \ {s}
      PROVE  InQueue(t)' = InQueue(t) /\ \A i \in InQueue(t) : msq'[i] = msq[i]
  <2>1. \A i : i \in InQueue(t)' <=> i \in InQueue(t)
    BY <1>1, <1>2, <1>3 DEF InQueue
  <2> QED BY <1>2, <2>1 DEF InQueue
<1> QED BY <1>5, <1>6 DEF Settled

(* handle_msq_updates: a report taken out of the queue is applied before   *)
(* any later one.                                                          *)
LEMMA SettledReceive ==
  ASSUME msq \in Seq(Report), msq # <<>>, hand = None, Head(msq) # None,
         hand' = Head(msq), msq' = Tail(msq), UNCHANGED status,
         NEW t \in Services, NEW x, Settled(t, x)
  PROVE  Settled(t, x)'
<1>1. /\ Len(msq') = Len(msq) - 1 /\ Len(msq) \in Nat \ {0} /\ hand' = msq[1]
      /\ \A i \in 1..Len(msq') : msq'[i] = msq[i + 1]
  BY HeadTailProperties
<1>2. \A i \in InQueue(t)' : i \in Nat /\ i + 1 \in InQueue(t)
  BY <1>1 DEF InQueue
<1>3. \A i \in InQueue(t) : i = 1 \/ (i \in Nat /\ i - 1 \in InQueue(t)')
  BY <1>1 DEF InQueue
<1>4. ASSUME NEW i \in InQueue(t)', \A j \in InQueue(t)' : j <= i
      PROVE  msq'[i].status = x
  <2>1. \A j \in InQueue(t) : j <= i + 1
    BY <1>2, <1>3, <1>4
  <2>2. msq[i + 1].status = x
    BY <1>2, <2>1 DEF Settled
  <2> QED BY <1>1, <2>2 DEF InQueue
<1>5. ASSUME InQueue(t)' = {}, hand' # None, hand'.sender = t
      PROVE  hand'.status = x
  <2>1. 1 \in InQueue(t)
    BY <1>1, <1>5 DEF InQueue
  <2>2. \A j \in InQueue(t) : j <= 1
    BY <1>3, <1>5
  <2> QED BY <1>1, <2>1, <2>2 DEF Settled
<1>6. ASSUME InQueue(t)' = {}, ~(hand' # None /\ hand'.sender = t)
      PROVE  status'[t] = x
  <2>1. msq[1].sender # t
    BY <1>1, <1>6
  <2>2. InQueue(t) = {}
    BY <1>3, <1>6, <2>1 DEF InQueue
  <2> QED BY <2>2 DEF Settled
<1> QED BY <1>4, <1>5, <1>6 DEF Settled

(* change_service_status: a record changes to what the report said.        *)
LEMMA SettledApply ==
  ASSUME hand \in Report, hand # None, None = hand', UNCHANGED msq,
         status \in [Services -> {"FREE", "OCCUPIED"}],
         status' = [status EXCEPT ![hand.sender] = hand.status],
         NEW t \in Services, NEW x, Settled(t, x)
  PROVE  Settled(t, x)'
<1>1. InQueue(t)' = InQueue(t)
  BY DEF InQueue
<1>2. status'[t] = IF hand.sender = t THEN hand.status ELSE status[t]
  OBVIOUS
<1> QED BY <1>1, <1>2 DEF Settled

(* Every step keeps what the records of the first process are about to     *)
(* say in agreement with the services.                                     *)
LEMMA FirstBootStep ==
  ASSUME PoolInv, [Next]_vars
  PROVE  RecordsFollowFirstBoot'
<1> TypeOK /\ RecordsFollowFirstBoot BY DEF PoolInv
<1> USE NothingElse DEF RecordsFollowFirstBoot, RecordsFollow
<1>1. CASE HandlerReceive
  <2>1. msq \in Seq(Report) /\ msq # <<>> /\ hand = None
    BY <1>1 DEF HandlerReceive, TypeOK
  <2>2. Head(msq) # None
    BY <2>1
  <2>3. \A t \in Services, x \in {"FREE", "OCCUPIED"} : Settled(t, x) => Settled(t, x)'
    BY <1>1, <2>1, <2>2, SettledReceive DEF HandlerReceive
  <2> QED BY <1>1, <2>3 DEF HandlerReceive
<1>2. CASE HandlerApply
  <2>1. hand \in Report /\ hand # None
    BY <1>2 DEF HandlerApply, TypeOK
  <2>2. \A t \in Services, x \in {"FREE", "OCCUPIED"} : Settled(t, x) => Settled(t, x)'
    BY <1>2, <2>1, SettledApply DEF HandlerApply, TypeOK
  <2> QED BY <1>2, <2>2 DEF HandlerApply
<1>3. ASSUME NEW s \in Services, ServiceTellOccupied(s) \/ ServiceTellFree(s)
      PROVE  RecordsFollowFirstBoot'
  <2>1. PICK st \in {"FREE", "OCCUPIED"} :
          /\ msq' = Append(msq, [sender |-> s, status |-> st])
          /\ spc' = [spc EXCEPT ![s] = IF st = "FREE" THEN "accept" ELSE "recv"]
          /\ UNCHANGED <<up, boots, hand, status>>
    BY <1>3 DEF ServiceTellOccupied, ServiceTellFree, Notify
  <2>2. msq \in Seq(Report) BY DEF TypeOK
  <2>3. Settled(s, st)'
    BY <2>1, <2>2, SettledAppend
  <2>4. \A t \in Services \ {s}, x \in {"FREE", "OCCUPIED"} : Settled(t, x) => Settled(t, x)'
    BY <2>1, <2>2, SettledAppend
  <2>5. /\ spc'[s] = IF st = "FREE" THEN "accept" ELSE "recv"
        /\ \A t \in Services \ {s} : spc'[t] = spc[t]
    BY <2>1 DEF TypeOK
  <2> QED BY <2>1, <2>3, <2>4, <2>5
<1>4. ASSUME NEW s \in Services, ServiceMark(s) PROVE RecordsFollowFirstBoot'
  <2>1. /\ spc'[s] = "tell_occupied" /\ UNCHANGED <<up, boots, hand, msq>>
        /\ \A t \in Services \ {s} : spc'[t] = spc[t] /\ status'[t] = status[t]
    BY <1>4 DEF ServiceMark, TypeOK
  <2>2. \A t \in Services \ {s}, x \in {"FREE", "OCCUPIED"} : Settled(t, x) => Settled(t, x)'
    BY <2>1, SettledQuiet
  <2> QED BY <2>1, <2>2
<1>5. CASE Restart
  BY <1>5 DEF Restart, TypeOK
<1>6. ASSUME UNCHANGED <<up, boots, hand, msq, status>>,
             \A t \in Services :
               /\ spc'[t] \in {"boot", "accept", "mark"} => spc[t] \in {"boot", "accept", "mark"}
               /\ spc'[t] \in {"recv", "spin", "reply", "tell_free"} =>
                    spc[t] \in {"recv", "spin", "reply", "tell_free"}
      PROVE  RecordsFollowFirstBoot'
  <2>1. \A t \in Services, x \in {"FREE", "OCCUPIED"} : Settled(t, x) => Settled(t, x)'
    BY <1>6, SettledQuiet
  <2> QED BY <1>6, <2>1
<1>7. ASSUME NEW s \in Services,
             \/ ServiceListen(s) \/ ServiceAccept(s) \/ ServiceRecv(s) \/ ServiceReply(s)
             \/ ServiceHangUp(s) \/ ServiceSpins(s)
      PROVE  RecordsFollowFirstBoot'
  <2>1. UNCHANGED <<up, boots, hand, msq, status>>
    BY <1>7 DEF ServiceListen, ServiceAccept, ServiceRecv, ServiceReply, ServiceHangUp,
       ServiceSpins
  <2>2. \A t \in Services \ {s} : spc'[t] = spc[t]
    BY <1>7 DEF ServiceListen, ServiceAccept, ServiceRecv, ServiceReply, ServiceHangUp,
       ServiceSpins, TypeOK
  <2>3. \/ spc[s] \in {"boot", "accept"} /\ spc'[s] \in {"accept", "mark"}
        \/ spc[s] \in {"recv", "spin", "reply"} /\ spc'[s] \in {"recv", "spin", "reply", "tell_free"}
    BY <1>7 DEF ServiceListen, ServiceAccept, ServiceRecv, ServiceReply, ServiceHangUp,
       ServiceSpins, TypeOK
  <2> QED BY <1>6, <2>1, <2>2, <2>3
<1>8. ASSUME NEW s \in Services, ServiceExits(s), ~cleaning PROVE RecordsFollowFirstBoot'
  <2>1. \A t \in Services : spc'[t] \in {spc[t], "freed", "cancelled"}
    BY <1>8 DEF ServiceExits
  <2>2. UNCHANGED <<up, boots, hand, msq, status>>
    BY <1>8 DEF ServiceExits
  <2> QED BY <1>6, <2>1, <2>2
<1>9. ASSUME NEW q, Down(q) PROVE RecordsFollowFirstBoot'
  BY <1>9, DownStep
<1>10. CASE UNCHANGED <<up, boots, hand, msq, status, spc>>
  BY <1>6, <1>10
<1> QED
  BY <1>1, <1>2, <1>3, <1>4, <1>5, <1>7, <1>8, <1>9, <1>10, StepCases
     DEF ListenerAccept, ListenerLock, ListenerScan, ListenerSend, ClientVisit,
         ClientReadOffer, ClientDial, ClientRefused, ClientAsk, ClientTake, ClientQuit,
         ClientKilled, ClientCutOff
-----------------------------------------------------------------------------
(* The theorems.                                                           *)

(* The program starts in a state that satisfies the invariant.             *)
LEMMA PoolInit == Init => PoolInv
<1> SUFFICES ASSUME Init PROVE PoolInv
  OBVIOUS
<1> USE NothingElse, PoolAssumption DEF Init
<1>1. TypeOK
  <2>1. boots \in 1..MaxBoots /\ scan \in Services /\ kills \in 0..MaxKills /\ fds \in Nat
    BY DEF Services
  <2>2. /\ status \in [Services -> {"FREE", "OCCUPIED"}]
        /\ sq \in [Services -> Seq(Clients)] /\ msq \in Seq(Report) /\ lq \in Seq(Clients)
        /\ partner \in [Services -> Clients \cup {None}]
        /\ text \in [Services -> Messages \cup {None}]
    OBVIOUS
  <2>3. /\ offer \in [Clients -> Services \cup {Occupied, None}]
        /\ request \in [Clients -> Messages \cup {Half, None}]
        /\ asked \in [Clients -> Messages \cup {None}]
        /\ answer \in [Clients -> {Prefixed(m) : m \in Messages} \cup {None}]
    OBVIOUS
  <2> QED BY <2>1, <2>2, <2>3 DEF TypeOK
<1>2. OneConversation BY DEF OneConversation
<1>3. Visiting BY DEF Visiting
<1>4. Dialled BY DEF Dialled
<1>5. OneMessage BY DEF OneMessage
<1>6. Scanning BY DEF Scanning
<1>7. Descriptors
  <2>1. Talking = {} BY DEF Talking
  <2> QED BY <2>1, FS_EmptySet DEF Descriptors
<1>8. RecordsFollowFirstBoot
  <2>1. \A s \in Services : InQueue(s) = {} BY DEF InQueue
  <2> QED BY <2>1 DEF RecordsFollowFirstBoot, RecordsFollow, Settled
<1> QED BY <1>1, <1>2, <1>3, <1>4, <1>5, <1>6, <1>7, <1>8 DEF PoolInv

(* Every step keeps the invariant.                                         *)
LEMMA PoolStep == PoolInv /\ [Next]_vars => PoolInv'
<1> SUFFICES ASSUME PoolInv, [Next]_vars PROVE PoolInv'
  OBVIOUS
<1> QED
  BY TypeStep, OneConversationStep, VisitingStep, DialledStep, OneMessageStep,
     ScanningStep, DescriptorsStep, FirstBootStep DEF PoolInv

(* Every state the pool reaches satisfies the inductive invariant.         *)
THEOREM PoolInvariant == Spec => []PoolInv
  BY PoolInit, PoolStep, PTL DEF Spec

(* Type correctness of the pool, whatever its size.                        *)
THEOREM TypeCorrect == Spec => []TypeOK
<1>1. PoolInv => TypeOK BY DEF PoolInv
<1> QED BY <1>1, PoolInvariant, PTL

(* No client is ever served by two services, queued twice, or served by a  *)
(* service the listener did not name to it.                                *)
THEOREM ClientsAreServedOnce == Spec => []OneConversation
<1>1. PoolInv => OneConversation BY DEF PoolInv
<1> QED BY <1>1, PoolInvariant, PTL

(* As long as the queue was empty at the start, the records follow the     *)
(* services whatever the order of stores, reports and their application.   *)
THEOREM RecordsCatchUp == Spec => []RecordsFollowFirstBoot
<1>1. PoolInv => RecordsFollowFirstBoot BY DEF PoolInv
<1> QED BY <1>1, PoolInvariant, PTL

(* services_mutex makes get_free_service a snapshot for any number of      *)
(* services: the records behind the index cannot turn FREE.                *)
THEOREM SearchIsSnapshot == Spec => ScanIsSnapshot
<1> DEFINE A == lpc = "scan" /\ pick' # pick /\ up' =>
                  IF pick' = Occupied
                    THEN \A s \in Services : status[s] = "OCCUPIED" \/ spc[s] = "freed"
                    ELSE status[pick'] = "FREE" \/ spc[pick'] = "freed"
<1>1. ASSUME PoolInv, [Next]_vars PROVE [A]_vars
  <2> SUFFICES ASSUME lpc = "scan", pick' # pick, up'
               PROVE  IF pick' = Occupied
                        THEN \A s \in Services : status[s] = "OCCUPIED" \/ spc[s] = "freed"
                        ELSE status[pick'] = "FREE" \/ spc[pick'] = "freed"
    OBVIOUS
  <2> TypeOK /\ Scanning BY <1>1 DEF PoolInv
  <2>1. ListenerScan
    BY <1>1, StepCases
       DEF ListenerAccept, ListenerLock, ListenerSend, HandlerReceive, HandlerApply, Restart,
           Down, ServiceListen, ServiceAccept, ServiceMark, ServiceTellOccupied,
           ServiceTellFree, Notify, ServiceRecv, ServiceSpins, ServiceReply, ServiceHangUp, ServiceExits,
           ClientVisit, ClientReadOffer, ClientDial, ClientRefused, ClientAsk, ClientTake,
           ClientQuit, ClientKilled, ClientCutOff
  <2>2. CASE pick' = Occupied
    <3>1. /\ scan = ServicesAmount
          /\ status[scan] # "FREE" \/ spc[scan] = "freed"
      BY <2>1, <2>2, NothingElse DEF ListenerScan, TypeOK
    <3>2. status[scan] = "OCCUPIED" \/ spc[scan] = "freed"
      BY <3>1 DEF TypeOK
    <3> QED BY <2>2, <3>1, <3>2, PoolAssumption DEF Scanning, Services
  <2>3. CASE pick' # Occupied
    <3>1. pick' = scan /\ (status[scan] = "FREE" \/ spc[scan] = "freed")
      BY <2>1, <2>3 DEF ListenerScan
    <3> QED BY <2>3, <3>1
  <2> QED BY <2>2, <2>3
<1> QED BY <1>1, PoolInvariant, PTL DEF Spec, ScanIsSnapshot

(* At the start no client of the pool waits, as the echo service demands.  *)
LEMMA EchoInitially == Init => Echo!EchoInit
  BY DEF Init, Echo!EchoInit

(* Every step of the pool is a step of the echo service or leaves what the *)
(* clients wait for alone.                                                 *)
LEMMA EchoStep ==
  ASSUME PoolInv, [Next]_vars
  PROVE  [Echo!EchoNext]_Echo!echoVars
<1> TypeOK /\ Dialled /\ OneMessage /\ OneConversation BY DEF PoolInv
<1> USE NothingElse DEF Echo!EchoNext, Echo!echoVars
<1>1. ASSUME NEW s \in Services, ServiceReply(s), cpc[partner[s]] # "gone"
      PROVE  Echo!EchoNext
  <2>1. /\ partner[s] \in Clients /\ text[s] = asked[partner[s]]
        /\ answer[partner[s]] = None /\ asked[partner[s]] # None
    BY <1>1 DEF ServiceReply, OneMessage, TypeOK
  <2>2. Echo!Answer(partner[s])
    BY <1>1, <2>1 DEF ServiceReply, Echo!Answer, Echo!Prefixed, Prefixed
  <2> QED BY <2>1, <2>2
<1>8. ASSUME NEW s \in Services, ServiceReply(s), cpc[partner[s]] = "gone"
      PROVE  UNCHANGED <<asked, answer>>
  <2>1. answer[partner[s]] = None
    BY <1>8 DEF ServiceReply, TypeOK, Dialled
  <2> QED BY <1>8, <2>1 DEF ServiceReply, TypeOK
<1>2. ASSUME NEW c \in Clients, ClientAsk(c) PROVE Echo!EchoNext
  <2>1. asked[c] = None /\ UNCHANGED answer
    BY <1>2 DEF ClientAsk, OneMessage
  <2>2. PICK m \in Messages : asked' = [asked EXCEPT ![c] = m]
    BY <1>2 DEF ClientAsk
  <2> QED BY <2>1, <2>2 DEF Echo!Ask
<1>3. ASSUME NEW c \in Clients, ClientTake(c) PROVE Echo!EchoNext
  BY <1>3 DEF ClientTake, Echo!Take
<1>4. ASSUME NEW c \in Clients, ClientKilled(c) PROVE Echo!EchoNext
  <2>1. Echo!Abandon({c})
    BY <1>4 DEF ClientKilled, Echo!Abandon, TypeOK
  <2>2. {c} \in SUBSET Clients OBVIOUS
  <2> QED BY <2>1, <2>2
<1>5. ASSUME NEW q, Down(q) PROVE Echo!EchoNext
  <2>1. Echo!Abandon(Clients)
    BY <1>5 DEF Down, Echo!Abandon
  <2>2. Clients \in SUBSET Clients OBVIOUS
  <2> QED BY <2>1, <2>2
<1>6. ASSUME NEW s \in Services, ServiceExits(s), ~cleaning PROVE Echo!EchoNext
  <2> DEFINE D == {c \in Clients : conn[c] = "backlog" /\ offer[c] \in 1..(s - 1)}
  <2>1. asked' = [c \in Clients |-> IF c \in D THEN None ELSE asked[c]] /\ UNCHANGED answer
    BY <1>6 DEF ServiceExits
  <2>2. \A c \in D : answer[c] = None
    BY DEF Dialled
  <2>3. answer' = [c \in Clients |-> IF c \in D THEN None ELSE answer[c]]
    BY <2>1, <2>2 DEF TypeOK
  <2>4. D \in SUBSET Clients OBVIOUS
  <2>5. Echo!Abandon(D)
    BY <2>1, <2>3 DEF Echo!Abandon
  <2> QED BY <2>4, <2>5
<1>7. CASE UNCHANGED <<asked, answer>>
  BY <1>7
<1> QED
  BY <1>1, <1>2, <1>3, <1>4, <1>5, <1>6, <1>7, <1>8, StepCases
     DEF ListenerAccept, ListenerLock, ListenerScan, ListenerSend, HandlerReceive,
         HandlerApply, Restart, ServiceListen, ServiceAccept, ServiceMark,
         ServiceTellOccupied, ServiceTellFree, Notify, ServiceRecv, ServiceSpins, ServiceHangUp,
         ClientVisit, ClientReadOffer, ClientDial, ClientRefused, ClientQuit, ClientCutOff

(* Refinement: the pool implements the echo service, the crash of the      *)
(* server and the cleanup of a service included.                           *)
THEOREM PoolIsEchoService == Spec => EchoRefinement
  BY EchoInitially, EchoStep, PoolInvariant, PTL DEF Spec, EchoRefinement, Echo!EchoSpec
-----------------------------------------------------------------------------
(* Each client has one conversation.                                       *)

(* What is left of a client the server has no connection with, and of a    *)
(* service that has answered its client.                                   *)
Closed ==
  /\ \A c \in Clients : conn[c] = "none" =>
       request[c] = None /\ cpc[c] \in {"start", "hello", "directed", "gone"}
  /\ \A s \in Services : text[s] # None => spc[s] \in {"reply", "cancelled", "freed"}

LEMMA ClosedInit == Init => Closed
  BY DEF Init, Closed

LEMMA ClosedStep ==
  ASSUME PoolInv, Closed, [Next]_vars
  PROVE  Closed'
<1> TypeOK /\ OneConversation /\ Dialled BY DEF PoolInv
<1> USE NothingElse DEF Closed
<1>1. ASSUME NEW q, Down(q) PROVE Closed'
  <2>1. \A c \in Clients : cpc'[c] \in {"start", "hello", "directed", "gone"}
    BY <1>1 DEF Down, TypeOK
  <2> QED BY <1>1, <2>1 DEF Down
<1>2. ASSUME NEW s \in Services, ServiceExits(s), ~cleaning PROVE Closed'
  <2>1. \A c \in Clients : conn'[c] = "none" =>
          \/ request'[c] = None /\ cpc'[c] = "gone"
          \/ conn[c] = "none" /\ request'[c] = request[c] /\ cpc'[c] = cpc[c]
    BY <1>2 DEF ServiceExits
  <2>2. \A t \in Services : text'[t] = text[t] /\ spc'[t] \in {spc[t], "freed", "cancelled"}
    BY <1>2 DEF ServiceExits
  <2> QED BY <2>1, <2>2
<1>3. ASSUME NEW s \in Services, ServiceAccept(s) PROVE Closed'
  <2>1. \A c \in Clients : conn'[c] = "none" => conn[c] = "none"
    BY <1>3 DEF ServiceAccept, TypeOK
  <2>2. spc[s] = "accept" /\ text[s] = None
    BY <1>3 DEF ServiceAccept
  <2> QED BY <1>3, <2>1, <2>2 DEF ServiceAccept, TypeOK
<1>4. ASSUME NEW s \in Services,
             \/ ServiceListen(s) \/ ServiceMark(s) \/ ServiceTellOccupied(s)
             \/ ServiceTellFree(s) \/ ServiceSpins(s)
      PROVE  Closed'
  <2>1. UNCHANGED <<cpc, conn, request, text>> /\ \A t \in Services : t # s => spc'[t] = spc[t]
    BY <1>4 DEF ServiceListen, ServiceMark, ServiceTellOccupied, ServiceTellFree, Notify,
       ServiceSpins, TypeOK
  <2>2. text[s] = None
    BY <1>4 DEF ServiceListen, ServiceMark, ServiceTellOccupied, ServiceTellFree, Notify,
       ServiceSpins
  <2> QED BY <2>1, <2>2
<1>5. ASSUME NEW s \in Services, ServiceRecv(s) PROVE Closed'
  BY <1>5 DEF ServiceRecv, TypeOK
<1>6. ASSUME NEW s \in Services, ServiceReply(s) PROVE Closed'
  BY <1>6 DEF ServiceReply, TypeOK
<1>7. ASSUME NEW s \in Services, ServiceHangUp(s) PROVE Closed'
  BY <1>7 DEF ServiceHangUp, TypeOK
<1>8. ASSUME NEW c \in Clients,
             \/ ClientVisit(c) \/ ClientReadOffer(c) \/ ClientDial(c) \/ ClientRefused(c)
             \/ ClientAsk(c) \/ ClientTake(c) \/ ClientQuit(c) \/ ClientKilled(c)
             \/ ClientCutOff(c)
      PROVE  Closed'
  <2>1. UNCHANGED <<text, spc>>
    BY <1>8 DEF ClientVisit, ClientReadOffer, ClientDial, ClientRefused, ClientAsk, ClientTake,
       ClientQuit, ClientKilled, ClientCutOff
  <2>2. ASSUME NEW d \in Clients, d # c
        PROVE  UNCHANGED <<conn[d], request[d], cpc[d]>>
    BY <1>8, <2>2 DEF ClientVisit, ClientReadOffer, ClientDial, ClientRefused, ClientAsk,
       ClientTake, ClientQuit, ClientKilled, ClientCutOff, TypeOK
  <2>3. conn'[c] = "none" =>
          /\ conn[c] = "none" /\ request'[c] = request[c]
          /\ cpc'[c] \in {"start", "hello", "directed", "gone"}
    BY <1>8 DEF ClientVisit, ClientReadOffer, ClientDial, ClientRefused, ClientAsk, ClientTake,
       ClientQuit, ClientKilled, ClientCutOff, TypeOK
  <2> QED BY <2>1, <2>2, <2>3
<1>9. CASE UNCHANGED <<text, spc, conn, request, cpc>>
  BY <1>9
<1> QED
  BY <1>1, <1>2, <1>3, <1>4, <1>5, <1>6, <1>7, <1>8, <1>9, StepCases
     DEF ListenerAccept, ListenerLock, ListenerScan, ListenerSend, HandlerReceive,
         HandlerApply, Restart

LEMMA ClosedInvariant == Spec => [](PoolInv /\ Closed)
  BY PoolInit, PoolStep, ClosedInit, ClosedStep, PTL DEF Spec
-----------------------------------------------------------------------------
LEMMA ConversationsInit == ASSUME Init, NEW c \in Clients PROVE Conv(c)!Init
  BY NothingElse DEF Init, Conv!Init, ClientIs, ThreadIs, Held, End, Over, Served

(* How Conversation sees client c. *)
Sees(c, client, thread, held, end) ==
  ClientIs(c) = client /\ ThreadIs(c) = thread /\ Held(c) = held /\ End(c) = end

(* No service converses with a client it has not accepted. *)
LEMMA NotServed ==
  ASSUME PoolInv, NEW c \in Clients, conn[c] \in {"none", "backlog"}
  PROVE  ~Served(c)
BY NothingElse DEF PoolInv, OneConversation, Served

(* What a step leaves of a client and of the service it talks to, it       *)
(* leaves of their conversation.                                           *)
LEMMA Unseen ==
  ASSUME NEW c \in Clients, UNCHANGED <<cpc[c], request[c], asked[c], answer[c]>>,
         Over(c)' <=> Over(c), End(c)' = End(c), Served(c)' <=> Served(c),
         Served(c) => /\ offer'[c] = offer[c]
                      /\ \A s \in Services : partner[s] = c =>
                           text'[s] = text[s] /\ Doing(s)' = Doing(s)
  PROVE  UNCHANGED Conv(c)!vars
<1>1. CASE Served(c)
  <2>1. PICK s \in Services : s = offer[c] /\ partner[s] = c
    BY <1>1 DEF Served
  <2>2. Held(c)' = text'[s] /\ Held(c) = text[s]
    BY <1>1, <2>1 DEF Held
  <2>3. /\ ThreadIs(c) = IF Over(c) THEN "done" ELSE Doing(s)
        /\ ThreadIs(c)' = IF Over(c)' THEN "done" ELSE Doing(s)'
    BY <1>1, <2>1 DEF ThreadIs, Doing
  <2> QED BY <1>1, <2>1, <2>2, <2>3 DEF Conv!vars, ClientIs
<1>2. CASE ~Served(c)
  BY <1>2 DEF Conv!vars, ClientIs, ThreadIs, Held
<1> QED BY <1>1, <1>2

(* A client without a connection has no conversation yet, or none any more. *)
LEMMA Silent ==
  ASSUME PoolInv, Closed, NEW c \in Clients, conn[c] = "none"
  PROVE  /\ request[c] = None /\ asked[c] = None /\ answer[c] = None /\ ~Served(c)
         /\ \/ cpc[c] = "gone" /\ Over(c) /\ Sees(c, "gone", "done", None, "none")
            \/ /\ cpc[c] \in {"start", "hello", "directed"} /\ ~Over(c)
               /\ Sees(c, "ready", "recv", None, "open")
<1>1. request[c] = None /\ cpc[c] \in {"start", "hello", "directed", "gone"}
  BY DEF Closed
<1>2. asked[c] = None /\ answer[c] = None
  BY <1>1 DEF PoolInv, OneMessage, Dialled
<1>3. ~Served(c)
  BY NotServed
<1> QED BY <1>1, <1>2, <1>3 DEF Sees, Over, ClientIs, ThreadIs, Held, End

(* The end of the process ends every conversation that has begun, and no   *)
(* visit.                                                                  *)
LEMMA DownSeen ==
  ASSUME PoolInv, Closed, NEW q, Down(q), NEW c \in Clients
  PROVE  Conv(c)!ServerKilled \/ UNCHANGED Conv(c)!vars
<1> TypeOK /\ Dialled BY DEF PoolInv
<1> USE NothingElse
<1>1. /\ conn'[c] = "none" /\ request'[c] = None /\ asked'[c] = None /\ answer'[c] = None
      /\ cpc'[c] \in {cpc[c], "gone"}
      /\ cpc[c] \notin {"start", "hello", "directed"} => cpc'[c] = "gone"
  BY DEF Down, TypeOK
<1>2. ~Served(c)'
  BY DEF Down, Served
<1>3. CASE cpc'[c] = cpc[c] /\ conn[c] = "none"
  BY <1>1, <1>2, <1>3, Silent, Unseen DEF Over, End
<1>4. CASE cpc'[c] # cpc[c] \/ conn[c] # "none"
  <2>1. cpc'[c] = "gone" /\ ~Over(c)
    BY <1>1, <1>4 DEF Dialled, Over
  <2>2. Sees(c, "gone", "done", None, "none")'
    BY <1>1, <1>2, <2>1 DEF Sees, ClientIs, ThreadIs, Held, End, Over
  <2>3. ThreadIs(c) # "done"
    BY <2>1 DEF ThreadIs, Doing
  <2> QED BY <1>1, <2>2, <2>3 DEF Sees, Conv!ServerKilled, Conv!Down
<1> QED BY <1>3, <1>4

(* The cleanup a service begins ends the conversations that wait for a     *)
(* freed service and halts those of its own and the services before it.    *)
LEMMA ExitsSeen ==
  ASSUME PoolInv, Closed, NEW s \in Services, ServiceExits(s), ~cleaning, NEW c \in Clients
  PROVE  Conv(c)!Next \/ UNCHANGED Conv(c)!vars
<1> TypeOK /\ Dialled /\ OneConversation BY DEF PoolInv
<1> USE NothingElse DEF Conv!Next
<1>1. UNCHANGED <<offer, partner, text, answer>> /\ (Served(c)' <=> Served(c))
  BY DEF ServiceExits, Served
<1>2. CASE conn[c] = "backlog" /\ offer[c] \in 1..(s - 1)
  <2>1. cpc'[c] = "gone" /\ conn'[c] = "none" /\ request'[c] = None /\ asked'[c] = None
    BY <1>2 DEF ServiceExits
  <2>2. answer[c] = None /\ ~Served(c)
    BY <1>2, NotServed DEF Dialled
  <2>3. ThreadIs(c) = "recv"
    BY <1>2, <2>2 DEF ThreadIs, Over
  <2>4. Sees(c, "gone", "done", None, "none")'
    BY <1>1, <2>1, <2>2 DEF Sees, ClientIs, ThreadIs, Held, End, Over
  <2> QED BY <1>1, <2>1, <2>2, <2>3, <2>4 DEF Sees, Conv!ServerKilled, Conv!Down
<1>3. CASE ~(conn[c] = "backlog" /\ offer[c] \in 1..(s - 1))
  <2>1. UNCHANGED <<cpc[c], conn[c], request[c], asked[c], answer[c]>>
    BY <1>1, <1>3 DEF ServiceExits
  <2>2. /\ Over(c)' <=> Over(c)
        /\ End(c)' = End(c) /\ Held(c)' = Held(c) /\ ClientIs(c)' = ClientIs(c)
    BY <1>1, <2>1 DEF Over, End, Held, ClientIs
  <2>3. CASE \A t \in Services : partner[t] = c => spc'[t] = spc[t]
    <3>1. \A t \in Services : partner[t] = c => Doing(t)' = Doing(t)
      BY <2>3 DEF Doing
    <3> QED BY <1>1, <2>1, <2>2, <3>1, Unseen
  <2>4. CASE \E t \in Services : partner[t] = c /\ spc'[t] # spc[t]
    <3>1. PICK t \in Services : partner[t] = c /\ spc'[t] # spc[t]
      BY <2>4
    <3>2. offer[c] = t /\ conn[c] \in {"open", "reset"}
      BY <3>1 DEF OneConversation
    <3>3. spc'[t] \in {"freed", "cancelled"}
      BY <3>1 DEF ServiceExits
    <3>4. ~Over(c) /\ Served(c)
      BY <3>1, <3>2 DEF Over, Served
    <3>5. ThreadIs(c) = Doing(t) /\ ThreadIs(c)' = Doing(t)'
      BY <1>1, <2>2, <3>2, <3>4 DEF ThreadIs, Doing
    <3>6. Doing(t) \in {"reply", "spin", "recv", "cancelled"} /\ Doing(t)' = "cancelled"
      BY <3>3 DEF Doing
    <3> QED BY <2>1, <2>2, <3>5, <3>6 DEF Conv!Cancelled, Conv!vars
  <2> QED BY <2>3, <2>4
<1> QED BY <1>2, <1>3

(* A step of a service that only its client sees. *)
LEMMA OthersUnseen ==
  ASSUME PoolInv, NEW s \in Services, NEW c \in Clients, c # partner[s],
         UNCHANGED <<cpc[c], conn[c], request[c], asked[c], answer[c], offer>>,
         c # partner'[s], \A t \in Services : t # s => UNCHANGED <<partner[t], text[t], spc[t]>>
  PROVE  UNCHANGED Conv(c)!vars
<1>1. (Over(c)' <=> Over(c)) /\ End(c)' = End(c)
  BY DEF Over, End
<1>2. Served(c)' <=> Served(c)
  BY DEF Served
<1>3. \A t \in Services : partner[t] = c => text'[t] = text[t] /\ Doing(t)' = Doing(t)
  BY DEF Doing
<1> QED BY <1>1, <1>2, <1>3, Unseen

(* How Conversation sees the client of a service. *)
LEMMA PartnerSees ==
  ASSUME PoolInv, NEW s \in Services, NEW c \in Clients, partner[s] = c
  PROVE  /\ Served(c) /\ ~Over(c) /\ conn[c] \in {"open", "reset"} /\ offer[c] = s
         /\ Sees(c, cpc[c], Doing(s), text[s], conn[c])
<1> TypeOK /\ Dialled /\ OneConversation BY DEF PoolInv
<1>1. conn[c] \in {"open", "reset"} /\ offer[c] = s
  BY NothingElse DEF OneConversation
<1>2. Served(c) /\ ~Over(c)
  BY <1>1 DEF Served, Over
<1>3. cpc[c] \notin {"start", "hello", "directed"}
  BY <1>1 DEF Dialled
<1> QED BY <1>1, <1>2, <1>3 DEF Sees, ClientIs, ThreadIs, Held, End, Doing

LEMMA PartnerSeesNext ==
  ASSUME PoolInv', NEW s \in Services, NEW c \in Clients, partner'[s] = c
  PROVE  /\ Served(c)' /\ ~Over(c)' /\ conn'[c] \in {"open", "reset"}
         /\ ClientIs(c)' = cpc'[c] /\ ThreadIs(c)' = Doing(s)' /\ Held(c)' = text'[s]
         /\ End(c)' = conn'[c]
<1> TypeOK' /\ Dialled' /\ OneConversation' BY DEF PoolInv
<1>1. conn'[c] \in {"open", "reset"} /\ offer'[c] = s
  BY NothingElse DEF OneConversation
<1>2. Served(c)' /\ ~Over(c)'
  BY <1>1 DEF Served, Over
<1>3. cpc'[c] \notin {"start", "hello", "directed"}
  BY <1>1 DEF Dialled
<1> QED BY <1>1, <1>2, <1>3 DEF ClientIs, ThreadIs, Held, End, Doing

(* A service reads a message, answers it, meets the end of the stream or a *)
(* length without a text: a step of its client's conversation alone.       *)
LEMMA ServiceSeen ==
  ASSUME PoolInv, PoolInv', Closed, NEW s \in Services, NEW c \in Clients,
         ServiceRecv(s) \/ ServiceSpins(s) \/ ServiceReply(s) \/ ServiceHangUp(s)
  PROVE  Conv(c)!Next \/ UNCHANGED Conv(c)!vars
<1> TypeOK /\ Dialled BY DEF PoolInv
<1> USE NothingElse DEF Conv!Next
<1>1. partner[s] \in Clients
  BY DEF TypeOK, ServiceRecv, ServiceSpins, ServiceReply, ServiceHangUp
<1>2. partner'[s] \in {partner[s], None} /\ UNCHANGED <<cpc, asked, offer>>
  BY DEF TypeOK, ServiceRecv, ServiceSpins, ServiceReply, ServiceHangUp
<1>3. CASE c # partner[s]
  <2>1. /\ UNCHANGED <<conn[c], request[c], answer[c]>>
        /\ \A t \in Services : t # s => UNCHANGED <<partner[t], text[t], spc[t]>>
    BY <1>1, <1>3 DEF TypeOK, ServiceRecv, ServiceSpins, ServiceReply, ServiceHangUp
  <2> QED BY <1>2, <1>3, <2>1, OthersUnseen
<1>4. CASE c = partner[s]
  <2>1. Served(c) /\ offer[c] = s /\ Sees(c, cpc[c], Doing(s), text[s], conn[c])
    BY <1>4, PartnerSees
  <2>2. partner'[s] = c =>
          /\ ClientIs(c)' = cpc'[c] /\ ThreadIs(c)' = Doing(s)' /\ Held(c)' = text'[s]
          /\ End(c)' = conn'[c]
    BY PartnerSeesNext
  <2>3. CASE ServiceRecv(s)
    <3>1. /\ partner'[s] = c /\ request[c] \notin {Half, None} /\ request'[c] = None
          /\ text'[s] = request[c] /\ Doing(s) = "recv" /\ Doing(s)' = "reply"
          /\ UNCHANGED <<conn, answer>>
      BY <1>4, <2>3 DEF ServiceRecv, TypeOK, Doing
    <3> QED BY <1>2, <2>1, <2>2, <3>1 DEF Sees, Conv!Receives
  <2>4. CASE ServiceSpins(s)
    <3>1. /\ partner'[s] = c /\ request[c] = Half /\ Doing(s) = "recv" /\ Doing(s)' = "spin"
          /\ UNCHANGED <<conn, request, answer, text>>
      BY <1>4, <2>4 DEF ServiceSpins, TypeOK, Doing
    <3> QED BY <1>2, <2>1, <2>2, <3>1 DEF Sees, Conv!Spins
  <2>5. CASE ServiceReply(s)
    <3>1. /\ partner'[s] = c /\ Doing(s) = "reply" /\ Doing(s)' = "recv" /\ text'[s] = None
          /\ UNCHANGED <<conn, request>>
      BY <1>4, <2>5 DEF ServiceReply, TypeOK, Doing
    <3>2. answer'[c] = IF cpc[c] = "gone" THEN None ELSE Conv(c)!Prefixed(text[s])
      BY <1>4, <2>5 DEF ServiceReply, TypeOK, Prefixed, Conv!Prefixed
    <3> QED BY <1>2, <2>1, <2>2, <3>1, <3>2 DEF Sees, Conv!Replies
  <2>6. CASE ServiceHangUp(s)
    <3>1. /\ Doing(s) = "recv" /\ request[c] = None /\ cpc[c] = "gone" /\ conn[c] = "open"
          /\ conn'[c] = "none" /\ partner'[s] = None /\ UNCHANGED <<text, request, answer>>
      BY <1>4, <2>6 DEF ServiceHangUp, TypeOK, Doing
    <3>2. text[s] = None
      BY <2>6 DEF ServiceHangUp, Closed
    <3>3. ~Served(c)' /\ Over(c)'
      BY <1>2, <2>1, <3>1 DEF Served, Over
    <3>4. Sees(c, "gone", "done", None, "none")'
      BY <1>2, <3>1, <3>3 DEF Sees, ClientIs, ThreadIs, Held, End
    <3> QED BY <1>2, <2>1, <3>1, <3>2, <3>4 DEF Sees, Conv!MeetsEnd
  <2> QED BY <2>3, <2>4, <2>5, <2>6
<1> QED BY <1>3, <1>4

(* A client does not see that its connection was accepted. *)
LEMMA AcceptUnseen ==
  ASSUME PoolInv, PoolInv', Closed, NEW s \in Services, NEW c \in Clients, ServiceAccept(s)
  PROVE  UNCHANGED Conv(c)!vars
<1> TypeOK /\ OneConversation BY DEF PoolInv
<1> USE NothingElse
<1>1. PICK h \in Clients : h = sq[s][1] /\ h = Head(sq[s])
  BY DEF ServiceAccept, TypeOK
<1>2. conn[h] = "backlog"
  <2>1. 1 \in 1..Len(sq[s]) BY DEF ServiceAccept, TypeOK
  <2> QED BY <1>1, <2>1 DEF OneConversation
<1>3. /\ partner[s] = None /\ text[s] = None /\ partner'[s] = h /\ conn'[h] = "open"
      /\ Doing(s)' = "recv"
      /\ UNCHANGED <<cpc, request, asked, answer, offer, text>>
  <2>1. spc[s] = "accept" /\ spc'[s] = "mark" /\ partner'[s] = h /\ conn'[h] = "open"
    BY <1>1 DEF ServiceAccept, TypeOK
  <2>2. partner[s] = None /\ text[s] = None
    BY <2>1 DEF PoolInv, Dialled, Closed
  <2>3. UNCHANGED <<cpc, request, asked, answer, offer, text>>
    BY DEF ServiceAccept
  <2> QED BY <2>1, <2>2, <2>3 DEF Doing
<1>4. CASE c # h
  <2>1. /\ conn'[c] = conn[c] /\ c # partner[s] /\ c # partner'[s]
        /\ \A t \in Services : t # s => UNCHANGED <<partner[t], text[t], spc[t]>>
    BY <1>1, <1>3, <1>4 DEF ServiceAccept, TypeOK
  <2> QED BY <1>3, <2>1, OthersUnseen
<1>5. CASE c = h
  <2>1. ~Served(c) /\ ~Over(c) /\ cpc[c] \notin {"start", "hello", "directed"}
    BY <1>2, <1>5, NotServed DEF Over, PoolInv, Dialled
  <2>2. Sees(c, cpc[c], "recv", None, "open")
    BY <1>2, <1>5, <2>1 DEF Sees, ClientIs, ThreadIs, Held, End
  <2>3. Sees(c, cpc[c], "recv", None, "open")'
    BY <1>3, <1>5, PartnerSeesNext DEF Sees
  <2> QED BY <1>3, <2>2, <2>3 DEF Sees, Conv!vars
<1> QED BY <1>4, <1>5

(* Nor that the listener answered it, or answers somebody else. *)
LEMMA OfferUnseen ==
  ASSUME PoolInv, ListenerSend, NEW c \in Clients
  PROVE  UNCHANGED Conv(c)!vars
<1> TypeOK /\ Visiting /\ OneConversation BY DEF PoolInv
<1> USE NothingElse
<1>1. /\ visitor \in Clients /\ offer[visitor] = None
      /\ \A d \in Clients : d # visitor => offer'[d] = offer[d]
      /\ UNCHANGED <<spc, partner, text, cpc, conn, request, asked, answer>>
  BY DEF ListenerSend, TypeOK, Visiting
<1>2. \A t \in Services : partner[t] # visitor
  BY <1>1 DEF OneConversation
<1>3. (Served(c)' <=> Served(c)) /\ (Served(c) => offer'[c] = offer[c])
  BY <1>1, <1>2 DEF Served
<1>4. \A t \in Services : text'[t] = text[t] /\ Doing(t)' = Doing(t)
  BY <1>1 DEF Doing
<1>5. (Over(c)' <=> Over(c)) /\ End(c)' = End(c)
  BY <1>1 DEF Over, End
<1> QED BY <1>1, <1>3, <1>4, <1>5, Unseen

(* A step of a client program: one that is sent away, or gives up before   *)
(* it is connected, is like one whose server goes down.                    *)
LEMMA ClientSeen ==
  ASSUME PoolInv, PoolInv', Closed, Closed', NEW c \in Clients,
         \/ ClientVisit(c) \/ ClientReadOffer(c) \/ ClientDial(c) \/ ClientRefused(c)
         \/ ClientAsk(c) \/ ClientTake(c) \/ ClientQuit(c) \/ ClientKilled(c)
         \/ ClientCutOff(c)
  PROVE  [Conv(c)!Next]_(Conv(c)!vars)
<1> TypeOK /\ Dialled BY DEF PoolInv
<1> USE NothingElse DEF Conv!Next
<1>1. UNCHANGED <<offer, partner, text, spc>>
  BY DEF ClientVisit, ClientReadOffer, ClientDial, ClientRefused, ClientAsk, ClientTake,
     ClientQuit, ClientKilled, ClientCutOff
<1>2. /\ Served(c)' <=> Served(c)
      /\ \A t \in Services : Doing(t)' = Doing(t)
  BY <1>1 DEF Served, Doing
<1>3. CASE cpc[c] \in {"start", "hello", "directed"}
  <2>1. conn[c] = "none"
    BY <1>3 DEF Dialled
  <2>2. Sees(c, "ready", "recv", None, "open")
    BY <1>3, <2>1, Silent
  <2>3. /\ UNCHANGED <<request, asked[c], answer[c]>>
        /\ request[c] = None /\ asked[c] = None /\ answer[c] = None /\ ~Served(c)
        /\ \/ cpc'[c] = "ready" /\ conn'[c] = "backlog"
           \/ cpc'[c] \in {"hello", "directed", "gone"} /\ conn'[c] = "none"
    <3>1. request[c] = None /\ asked[c] = None /\ answer[c] = None /\ ~Served(c)
      BY <2>1, Silent
    <3>2. UNCHANGED request /\ asked'[c] = None /\ answer'[c] = None
      BY <1>3, <3>1 DEF ClientVisit, ClientReadOffer, ClientDial, ClientRefused, ClientAsk,
         ClientTake, ClientQuit, ClientKilled, ClientCutOff, TypeOK
    <3>3. ClientKilled(c) => conn' = conn
      BY <2>1, KilledConnection
    <3>4. \/ cpc'[c] = "ready" /\ conn'[c] = "backlog"
          \/ cpc'[c] \in {"hello", "directed", "gone"} /\ conn'[c] = "none"
      BY <1>3, <2>1, <3>3 DEF ClientVisit, ClientReadOffer, ClientDial, ClientRefused,
         ClientAsk, ClientTake, ClientQuit, ClientKilled, ClientCutOff, TypeOK
    <3> QED BY <3>1, <3>2, <3>4
  <2>4. CASE cpc'[c] = "gone"
    <3>1. Sees(c, "gone", "done", None, "none")'
      BY <1>2, <2>3, <2>4 DEF Sees, ClientIs, ThreadIs, Held, End, Over
    <3> QED BY <2>2, <2>3, <3>1 DEF Sees, Conv!ServerKilled, Conv!Down
  <2>5. CASE cpc'[c] # "gone"
    <3>1. Sees(c, "ready", "recv", None, "open")'
      BY <1>2, <2>3, <2>5 DEF Sees, ClientIs, ThreadIs, Held, End, Over
    <3> QED BY <2>2, <2>3, <3>1 DEF Sees, Conv!vars
  <2> QED BY <2>4, <2>5
<1>4. CASE cpc[c] \notin {"start", "hello", "directed"}
  <2>1. ClientAsk(c) \/ ClientTake(c) \/ ClientQuit(c) \/ ClientKilled(c) \/ ClientCutOff(c)
    BY <1>4 DEF ClientVisit, ClientReadOffer, ClientDial, ClientRefused
  <2>2. cpc[c] \in {"ready", "await"} /\ cpc'[c] \in {"ready", "await", "gone"}
    BY <1>4, <2>1 DEF ClientAsk, ClientTake, ClientQuit, ClientKilled, ClientCutOff, TypeOK
  <2>3. conn[c] # "none" /\ conn'[c] \in {conn[c], "reset"}
    BY <2>1, <2>2 DEF ClientAsk, ClientTake, ClientQuit, ClientKilled, ClientCutOff, Closed,
       TypeOK
  <2>4. ~Over(c) /\ ~Over(c)'
    BY <2>2, <2>3 DEF Over
  <2>5. ThreadIs(c)' = ThreadIs(c) /\ Held(c)' = Held(c)
    <3>1. CASE Served(c)
      <4>1. PICK t \in Services : t = offer[c] /\ t = offer'[c]
        BY <1>1, <3>1 DEF Served
      <4> QED BY <1>1, <1>2, <2>4, <3>1, <4>1 DEF ThreadIs, Held, Doing
    <3>2. CASE ~Served(c)
      BY <1>2, <2>4, <3>2 DEF ThreadIs, Held
    <3> QED BY <3>1, <3>2
  <2>6. ClientIs(c) = cpc[c] /\ ClientIs(c)' = cpc'[c]
    BY <2>2 DEF ClientIs
  <2>7. /\ conn'[c] = conn[c] => End(c)' = End(c)
        /\ conn'[c] = "reset" => End(c)' = "reset"
    BY <2>4 DEF End
  <2>8. CASE ClientAsk(c)
    <3>1. PICK m \in Messages : asked' = [asked EXCEPT ![c] = m] /\ request' = [request EXCEPT ![c] = m]
      BY <2>8 DEF ClientAsk
    <3>2. Conv(c)!Asks(m)
      BY <2>5, <2>6, <2>7, <2>8, <3>1 DEF ClientAsk, Conv!Asks, TypeOK
    <3> QED BY <3>2
  <2>9. CASE ClientTake(c)
    BY <2>5, <2>6, <2>7, <2>9 DEF ClientTake, Conv!Takes, TypeOK
  <2>10. CASE ClientQuit(c)
    BY <2>5, <2>6, <2>7, <2>10 DEF ClientQuit, Conv!Quits, TypeOK
  <2>11. CASE ClientKilled(c)
    <3>1. ASSUME Replying(c) PROVE ThreadIs(c) = "reply"
      <4>1. PICK s \in Services : spc[s] = "reply" /\ partner[s] = c
        BY <3>1 DEF Replying
      <4>2. ThreadIs(c) = Doing(s)
        BY <4>1, PartnerSees DEF Sees
      <4> QED BY <4>1, <4>2 DEF Doing
    <3>2. /\ cpc'[c] = "gone" /\ asked'[c] = None /\ answer'[c] = None /\ request'[c] = request[c]
          /\ \/ answer[c] = None /\ conn'[c] = conn[c]
             \/ (answer[c] # None \/ Replying(c)) /\ conn'[c] = "reset"
      BY <2>11 DEF ClientKilled, TypeOK
    <3> QED BY <2>2, <2>5, <2>6, <2>7, <3>1, <3>2 DEF Conv!Killed
  <2>12. CASE ClientCutOff(c)
    BY <2>5, <2>6, <2>7, <2>12 DEF ClientCutOff, Conv!CutOff, TypeOK
  <2> QED BY <2>1, <2>8, <2>9, <2>10, <2>11, <2>12
<1> QED BY <1>3, <1>4

(* A step of the pool, of its operator or of a client is a step of one     *)
(* conversation, and of no other, or ends or halts several.                *)
LEMMA ConversationsStep ==
  ASSUME PoolInv, PoolInv', Closed, Closed', [Next]_vars, NEW c \in Clients
  PROVE  [Conv(c)!Next]_(Conv(c)!vars)
<1> TypeOK BY DEF PoolInv
<1>1. ASSUME NEW q, Down(q) PROVE [Conv(c)!Next]_(Conv(c)!vars)
  BY <1>1, DownSeen DEF Conv!Next
<1>2. ASSUME NEW s \in Services, ServiceExits(s), ~cleaning PROVE [Conv(c)!Next]_(Conv(c)!vars)
  BY <1>2, ExitsSeen
<1>3. ASSUME NEW s \in Services,
             ServiceRecv(s) \/ ServiceSpins(s) \/ ServiceReply(s) \/ ServiceHangUp(s)
      PROVE  [Conv(c)!Next]_(Conv(c)!vars)
  BY <1>3, ServiceSeen
<1>4. ASSUME NEW s \in Services, ServiceAccept(s) PROVE UNCHANGED Conv(c)!vars
  BY <1>4, AcceptUnseen
<1>5. CASE ListenerSend
  BY <1>5, OfferUnseen
<1>6. CASE /\ UNCHANGED <<cpc, conn, request, asked, answer, offer, partner, text>>
           /\ \A t \in Services : Doing(t)' = Doing(t)
  BY <1>6, Unseen DEF Over, End, Served
<1>7. ASSUME NEW s \in Services,
             \/ ServiceListen(s) \/ ServiceMark(s) \/ ServiceTellOccupied(s)
             \/ ServiceTellFree(s)
      PROVE  UNCHANGED Conv(c)!vars
  <2>1. UNCHANGED <<cpc, conn, request, asked, answer, offer, partner, text>>
    BY <1>7 DEF ServiceListen, ServiceMark, ServiceTellOccupied, ServiceTellFree, Notify
  <2>2. ASSUME NEW t \in Services PROVE Doing(t)' = Doing(t)
    BY <1>7 DEF ServiceListen, ServiceMark, ServiceTellOccupied, ServiceTellFree, Notify,
       Doing, TypeOK
  <2> QED BY <2>1, <2>2, Unseen DEF Over, End, Served
<1>8. ASSUME NEW d \in Clients,
             \/ ClientVisit(d) \/ ClientReadOffer(d) \/ ClientDial(d) \/ ClientRefused(d)
             \/ ClientAsk(d) \/ ClientTake(d) \/ ClientQuit(d) \/ ClientKilled(d)
             \/ ClientCutOff(d)
      PROVE  [Conv(c)!Next]_(Conv(c)!vars)
  <2>1. CASE c = d
    BY <1>8, <2>1, ClientSeen
  <2>2. CASE c # d
    <3>1. UNCHANGED <<cpc[c], conn[c], request[c], asked[c], answer[c]>>
      BY <1>8, <2>2 DEF ClientVisit, ClientReadOffer, ClientDial, ClientRefused, ClientAsk,
         ClientTake, ClientQuit, ClientKilled, ClientCutOff, TypeOK
    <3>2. UNCHANGED <<offer, partner, text, spc>>
      BY <1>8 DEF ClientVisit, ClientReadOffer, ClientDial, ClientRefused, ClientAsk,
         ClientTake, ClientQuit, ClientKilled, ClientCutOff
    <3>3. (Over(c)' <=> Over(c)) /\ End(c)' = End(c) /\ (Served(c)' <=> Served(c))
      BY <3>1, <3>2 DEF Over, End, Served
    <3>4. \A t \in Services : Doing(t)' = Doing(t)
      BY <3>2 DEF Doing
    <3> QED BY <3>1, <3>2, <3>3, <3>4, Unseen
  <2> QED BY <2>1, <2>2
<1>9. CASE UNCHANGED <<cpc, conn, request, asked, answer, offer, partner, text, spc>>
  <2>1. \A t \in Services : Doing(t)' = Doing(t)
    BY <1>9 DEF Doing
  <2> QED BY <1>6, <1>9, <2>1
<1> QED
  BY <1>1, <1>2, <1>3, <1>4, <1>5, <1>7, <1>8, <1>9, StepCases
     DEF ListenerAccept, ListenerLock, ListenerScan, HandlerReceive, HandlerApply, Restart

(* Refinement: each client has one conversation of whole messages, with    *)
(* the service the listener sent it to, and no service converses with two. *)
THEOREM PoolIsConversations == Spec => ConversationRefinement
<1>1. Init => \A c \in Clients : Conv(c)!Init
  BY ConversationsInit
<1>2. (PoolInv /\ Closed) /\ (PoolInv /\ Closed)' /\ [Next]_vars
        => [\A c \in Clients : [Conv(c)!Next]_(Conv(c)!vars)]_vars
  BY ConversationsStep
<1> QED
  BY <1>1, <1>2, ClosedInvariant, PTL DEF Spec, ConversationRefinement
-----------------------------------------------------------------------------
(* Nobody waits in a circle.                                               *)

(* Until a cleanup begins, the handler never keeps services_mutex, and the *)
(* listener holds it in its search only, where it waits for nobody.        *)
HeldBriefly == ~cleaning => mutex = "open" \/ (mutex = "listener" /\ lpc = "scan")

(* The chain of waits through msgsnd, services_mutex and the search ends:  *)
(* a service that finds the queue full waits for the handler, which can    *)
(* empty it, or apply its report, or waits for the listener, whose search  *)
(* goes on.                                                                *)
ChainEnds ==
  up /\ ~cleaning =>
    \A s \in Services :
      spc[s] \in {"tell_occupied", "tell_free"} /\ ~(Len(msq) < QueueSlots) =>
        \/ hpc = "receive" /\ msq # <<>>
        \/ hpc = "apply" /\ mutex = "open"
        \/ lpc = "scan" /\ scan \in Services

LEMMA HeldBrieflyStep ==
  ASSUME PoolInv, HeldBriefly, [Next]_vars
  PROVE  HeldBriefly'
<1> TypeOK BY DEF PoolInv
<1> USE DEF HeldBriefly
<1>1. ASSUME NEW q, Down(q) PROVE HeldBriefly'
  BY <1>1 DEF Down
<1>2. ASSUME NEW s \in Services, ServiceExits(s), ~cleaning PROVE HeldBriefly'
  BY <1>2 DEF ServiceExits
<1>3. CASE ListenerLock
  BY <1>3 DEF ListenerLock
<1>4. CASE ListenerScan
  BY <1>4 DEF ListenerScan
<1>5. CASE HandlerApply
  <2>1. ~cleaning => hpc = "apply"
    BY <1>5 DEF HandlerApply, TypeOK
  <2> QED BY <1>5, <2>1 DEF HandlerApply
<1>6. CASE ListenerAccept \/ ListenerSend
  BY <1>6 DEF ListenerAccept, ListenerSend
<1>7. CASE UNCHANGED <<cleaning, mutex, lpc>>
  BY <1>7
<1> QED
  BY <1>1, <1>2, <1>3, <1>4, <1>5, <1>6, <1>7, StepCases
     DEF HandlerReceive, Restart, ServiceListen, ServiceAccept, ServiceMark,
         ServiceTellOccupied, ServiceTellFree, Notify, ServiceRecv, ServiceSpins, ServiceReply, ServiceHangUp,
         ClientVisit, ClientReadOffer, ClientDial, ClientRefused, ClientAsk, ClientTake,
         ClientQuit, ClientKilled, ClientCutOff

(* msgsnd, services_mutex and the search of the listener never wait for    *)
(* each other in a circle (notify_server, handle_msq_updates,              *)
(* get_free_service), as long as no service has called exit.               *)
THEOREM NobodyWaitsInACircle == Spec => []ChainEnds
<1>1. Init => HeldBriefly
  BY DEF Init, HeldBriefly
<1>2. PoolInv /\ HeldBriefly /\ [Next]_vars => HeldBriefly'
  BY HeldBrieflyStep
<1>3. PoolInv /\ HeldBriefly => ChainEnds
  <2>1. SUFFICES ASSUME PoolInv, HeldBriefly, up, ~cleaning, ~(Len(msq) < QueueSlots)
                 PROVE  \/ hpc = "receive" /\ msq # <<>>
                        \/ hpc = "apply" /\ mutex = "open"
                        \/ lpc = "scan" /\ scan \in Services
    BY DEF ChainEnds
  <2>2. TypeOK BY <2>1 DEF PoolInv
  <2>3. hpc \in {"receive", "apply"}
    BY <2>1, <2>2 DEF TypeOK
  <2>4. msq # <<>>
    <3>1. Len(<<>>) < QueueSlots
      BY PoolAssumption
    <3> QED BY <2>1, <3>1
  <2> QED BY <2>1, <2>2, <2>3, <2>4 DEF HeldBriefly, TypeOK
<1> QED
  BY <1>1, <1>2, <1>3, PoolInvariant, PTL DEF Spec
=============================================================================
