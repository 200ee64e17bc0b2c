------------------------ MODULE ThreadRegistryProofs ------------------------
(***************************************************************************)
(* Theorems about ThreadRegistry, for every number of clients and every    *)
(* size of the registry.                                                   *)
(*                                                                         *)
(* RegistryInv is the inductive invariant.  No lock keeps the registry     *)
(* consistent, so most of it holds only up to a point: Below always,       *)
(* Numbered until the first thread has moved the entries, Lone until a     *)
(* second client leaves.                                                   *)
(***************************************************************************)
EXTENDS ThreadRegistry, SequenceTheorems, TLAPS

(* Pointers, clients and messages are told from the values for nothing. *)
LEMMA NothingElse ==
  /\ ClientsAmount \in Nat \ {0}
  /\ None \notin Messages /\ None \notin Clients /\ Half \notin Messages /\ Half # None
  /\ Null \notin Clients /\ Foreign \notin Clients /\ Foreign # Null
  /\ \A m \in Messages : Prefixed(m) # None
  BY RegistryAssumption

(* clients_amount, and every copy of it a thread has loaded, stays within  *)
(* the array, with room for the client that is being added.                *)
Below ==
  /\ amount <= ClientsAmount
  /\ lpc = "load" => amount < ClientsAmount
  /\ lpc \in {"store", "count"} => idx < ClientsAmount
  /\ \A c \in Clients : seen[c] <= ClientsAmount

(* A connection that waits for accept has no thread yet. *)
Waiting ==
  /\ \A i \in 1..Len(lq) :
       /\ tpc[lq[i]] = "none" /\ cpc[lq[i]] # "start"
       /\ \A j \in 1..Len(lq) : lq[i] = lq[j] => i = j
  /\ \A c \in Clients : cpc[c] = "start" => tpc[c] = "none"

(* The message of a client is in its socket, with its thread, or answered. *)
OneMessage ==
  \A c \in Clients :
    /\ cpc[c] = "await" <=> asked[c] # None
    /\ answer[c] # None => cpc[c] = "await"
    /\ request[c] # None /\ cpc[c] # "gone" =>
         request[c] = asked[c] /\ answer[c] = None /\ text[c] = None
    /\ text[c] # None /\ cpc[c] # "gone" =>
         text[c] = asked[c] /\ answer[c] = None /\ request[c] = None

(* Only a killed client leaves something under way. *)
Blame ==
  kills = 0 => \A c \in Clients :
    conn[c] # "reset" /\ (cpc[c] = "gone" => request[c] = None /\ text[c] = None)

(* Until a thread has moved the entries, the clients are numbered in the   *)
(* order they came, all entries up to clients_amount are clients, and      *)
(* nothing has been freed.                                                 *)
Quiet == \A c \in Clients : tpc[c] \notin {"move", "count", "done"}
Numbered ==
  Quiet =>
    /\ amount >= 0
    /\ lpc \in {"store", "count"} => idx = amount
    /\ lpc = "count" => clients[idx] \in Clients
    /\ visitor # None => tpc[visitor] # "none" /\ id[visitor] = amount
    /\ \A c \in Clients : tpc[c] # "none" /\ c # visitor => id[c] \in 0 .. (amount - 1)
    /\ \A c, d \in Clients : tpc[c] # "none" /\ tpc[d] # "none" /\ id[c] = id[d] => c = d
    /\ \A i \in 0 .. (amount - 1) : clients[i] \in Clients
    /\ \A i \in Words : clients[i] \in Clients => tpc[clients[i]] # "none"
    /\ \A c \in Clients : mem[c] # "freed" /\ (tpc[c] = "find" => seen[c] <= amount)

(* As long as one client only has left, it is the one that has been freed, *)
(* and the number is at most one too small.                                *)
OneLeaver == \A c, d \in Clients : Leaving(c) /\ Leaving(d) => c = d
Lone ==
  OneLeaver =>
    /\ amount >= -1 /\ idx >= -1
    /\ (\A c \in Clients : tpc[c] # "done") => amount >= 0
    /\ \A c \in Clients :
         seen[c] >= 0 /\ (mem[c] = "freed" => tpc[c] \in {"move", "count", "done"})

RegistryInv ==
  TypeOK /\ Below /\ Waiting /\ OneMessage /\ Blame /\ Numbered /\ Lone

USE DEF vars, listenerVars, registryVars, structVars, deleteVars, threadVars, clientVars,
        wireVars
-----------------------------------------------------------------------------
(* Steps.                                                                  *)

(* A step is an action of the main thread, of a client's thread or of a    *)
(* client program, or the end of the process, or the moment two clients    *)
(* come to share a struct.                                                 *)
LEMMA StepCases ==
  ASSUME [Next]_vars
  PROVE  \/ ListenerTurnsAway \/ ListenerAdmits \/ ListenerLoads \/ ListenerStores
         \/ ListenerCounts \/ ListenerReleases \/ Down \/ UNCHANGED vars
         \/ proc' = "shared" /\ UNCHANGED <<listenerVars, registryVars, structVars,
                                            threadVars, clientVars, wireVars>>
         \/ \E c \in Clients :
              \/ ThreadReceives(c) \/ ThreadSpins(c) \/ ThreadReplies(c)
              \/ ThreadMeetsEnd(c) \/ DeletePasses(c) \/ DeleteFrees(c)
              \/ DeleteMisses(c) \/ DeleteMoves(c) \/ DeleteCounts(c)
         \/ \E c \in Clients :
              \/ ClientConnects(c) \/ ClientRefused(c) \/ ClientAsks(c) \/ ClientTakes(c)
              \/ ClientQuits(c) \/ ClientKilled(c) \/ ClientCutOff(c)
  BY DEF Next, Listener, Thread, Client, User, ListenerReuses, ListenerAcceptFails,
     ListenerOverwrites, ListenerAborts, ThreadReplyFails, ThreadReadFails, ThreadFaults,
     DeleteFreesTwice, DeleteFaults

(* The end of the process establishes every part of the invariant: no      *)
(* thread, struct or connection is left.                                   *)
LEMMA DownStep ==
  ASSUME RegistryInv, Down
  PROVE  RegistryInv'
<1> USE NothingElse DEF RegistryInv, Down
<1>1. \A c \in Clients : cpc'[c] \in {"start", "gone"} /\ (cpc'[c] = "start" => cpc[c] = "start")
  OBVIOUS
<1>2. TypeOK'
  <2>1. /\ clients' \in [Words -> Clients \cup {Null, Foreign}]
        /\ lq' \in Seq(Clients) /\ kills' \in 0..MaxKills
    BY DEF EmptyArray, TypeOK
  <2>2. cpc' \in [Clients -> {"start", "ready", "await", "gone"}]
    OBVIOUS
  <2> QED BY <2>1, <2>2 DEF TypeOK
<1>3. Below' BY DEF Below
<1>4. Waiting' BY DEF Waiting
<1>5. OneMessage' BY <1>1 DEF OneMessage
<1>6. Blame' BY DEF Blame
<1>7. Numbered'
  <2>1. \A i \in Words : clients'[i] \notin Clients
    BY DEF EmptyArray
  <2> QED BY <2>1 DEF Numbered
<1>8. Lone' BY DEF Lone
<1> QED BY <1>2, <1>3, <1>4, <1>5, <1>6, <1>7, <1>8

(* Every step of server and clients keeps the types; a thread that moves   *)
(* entries reads words of the array or just behind it.                     *)
LEMMA TypeStep ==
  ASSUME RegistryInv, [Next]_vars
  PROVE  TypeOK'
<1> USE NothingElse
<1> TypeOK /\ Below BY DEF RegistryInv
<1>1. CASE ListenerTurnsAway
  <2>1. Head(lq) \in Clients /\ Tail(lq) \in Seq(Clients)
    BY <1>1 DEF ListenerTurnsAway, Welcomes, TypeOK
  <2> QED BY <1>1, <2>1 DEF ListenerTurnsAway, Welcomes, TypeOK
<1>2. CASE ListenerAdmits
  <2>1. Head(lq) \in Clients /\ Tail(lq) \in Seq(Clients) /\ lpc = "accept"
    BY <1>2 DEF ListenerAdmits, Welcomes, TypeOK
  <2>2. tpc[Head(lq)] = "none"
    BY <1>2 DEF ListenerAdmits, Welcomes, RegistryInv, Waiting, TypeOK
  <2> QED BY <1>2, <2>1, <2>2 DEF ListenerAdmits, Admits, TypeOK
<1>3. CASE ListenerLoads BY <1>3 DEF ListenerLoads, TypeOK
<1>4. CASE ListenerStores BY <1>4 DEF ListenerStores, TypeOK
<1>5. CASE ListenerCounts BY <1>5 DEF ListenerCounts, TypeOK
<1>6. CASE ListenerReleases BY <1>6 DEF ListenerReleases, TypeOK
<1>7. CASE Down BY <1>7, DownStep DEF RegistryInv
<1>8. ASSUME NEW c \in Clients,
             \/ ThreadReceives(c) \/ ThreadSpins(c) \/ ThreadReplies(c)
             \/ ThreadMeetsEnd(c) \/ DeletePasses(c) \/ DeleteFrees(c)
             \/ DeleteMisses(c) \/ DeleteMoves(c) \/ DeleteCounts(c)
      PROVE  TypeOK'
  <2>1. CASE ThreadReceives(c) BY <2>1 DEF ThreadReceives, Serves, TypeOK
  <2>2. CASE ThreadSpins(c) BY <2>2 DEF ThreadSpins, Serves, TypeOK
  <2>3. CASE ThreadReplies(c) BY <2>3 DEF ThreadReplies, TypeOK
  <2>4. CASE ThreadMeetsEnd(c) BY <2>4 DEF ThreadMeetsEnd, Serves, TypeOK
  <2>5. CASE DeletePasses(c) BY <2>5 DEF DeletePasses, Looks, TypeOK
  <2>6. CASE DeleteFrees(c) BY <2>6 DEF DeleteFrees, Looks, TypeOK
  <2>7. CASE DeleteMisses(c) BY <2>7 DEF DeleteMisses, TypeOK
  <2>8. CASE DeleteMoves(c)
    <3> DEFINE last == IF pos[c] < seen[c] THEN seen[c] ELSE pos[c]
    <3>1. \A i \in Words : i \in pos[c] .. (last - 1) => i + 1 \in Words
      BY DEF TypeOK, Below, Words
    <3>2. clients' \in [Words -> Clients \cup {Null, Foreign}]
      BY <2>8, <3>1 DEF DeleteMoves, TypeOK
    <3>3. tpc' = [tpc EXCEPT ![c] = "count"] /\ tpc[c] = "move"
      BY <2>8 DEF DeleteMoves
    <3> QED BY <2>8, <3>2, <3>3 DEF DeleteMoves, TypeOK
  <2>9. CASE DeleteCounts(c) BY <2>9 DEF DeleteCounts, TypeOK
  <2> QED BY <1>8, <2>1, <2>2, <2>3, <2>4, <2>5, <2>6, <2>7, <2>8, <2>9
<1>9. ASSUME NEW c \in Clients,
             \/ ClientConnects(c) \/ ClientRefused(c) \/ ClientAsks(c) \/ ClientTakes(c)
             \/ ClientQuits(c) \/ ClientKilled(c) \/ ClientCutOff(c)
      PROVE  TypeOK'
  <2>1. CASE ClientConnects(c) BY <2>1 DEF ClientConnects, TypeOK
  <2>2. CASE ClientRefused(c) BY <2>2 DEF ClientRefused, TypeOK
  <2>3. CASE ClientAsks(c) BY <2>3 DEF ClientAsks, TypeOK
  <2>4. CASE ClientTakes(c) BY <2>4 DEF ClientTakes, TypeOK
  <2>5. CASE ClientQuits(c) BY <2>5 DEF ClientQuits, TypeOK
  <2>6. CASE ClientKilled(c)
    <3>1. CASE UNCHANGED conn BY <2>6, <3>1, RegistryAssumption DEF ClientKilled, TypeOK
    <3>2. CASE conn' = [conn EXCEPT ![c] = "reset"] BY <2>6, <3>2, RegistryAssumption DEF ClientKilled, TypeOK
    <3> QED BY <2>6, <3>1, <3>2 DEF ClientKilled
  <2>7. CASE ClientCutOff(c) BY <2>7, RegistryAssumption DEF ClientCutOff, TypeOK
  <2> QED BY <1>9, <2>1, <2>2, <2>3, <2>4, <2>5, <2>6, <2>7
<1>10. CASE UNCHANGED <<listenerVars, registryVars, structVars, threadVars, clientVars, wireVars>>
            /\ proc' \in {proc, "shared"}
  BY <1>10 DEF TypeOK
<1> QED
  BY <1>1, <1>2, <1>3, <1>4, <1>5, <1>6, <1>7, <1>8, <1>9, <1>10, StepCases
-----------------------------------------------------------------------------
(* The parts of the invariant.                                             *)

(* Only the main thread raises clients_amount (add_client), and it has     *)
(* tested it: what the threads store meanwhile is below what they loaded.  *)
LEMMA BelowStep ==
  ASSUME RegistryInv, [Next]_vars
  PROVE  Below'
<1> TypeOK /\ Below BY DEF RegistryInv
<1> USE NothingElse DEF Below
<1>1. CASE ListenerTurnsAway \/ ListenerAdmits \/ ListenerLoads \/ ListenerStores
           \/ ListenerCounts \/ ListenerReleases
  BY <1>1 DEF ListenerTurnsAway, ListenerAdmits, Welcomes, Admits, ListenerLoads,
     ListenerStores, ListenerCounts, ListenerReleases, TypeOK
<1>2. ASSUME NEW c \in Clients,
             ThreadMeetsEnd(c) \/ DeleteFrees(c) \/ DeleteMisses(c) \/ DeleteMoves(c)
      PROVE  Below'
  BY <1>2 DEF ThreadMeetsEnd, DeleteFrees, DeleteMisses, DeleteMoves, TypeOK
<1>3. ASSUME NEW c \in Clients, DeleteCounts(c) PROVE Below'
  <2>1. seen[c] \in Int /\ seen[c] <= ClientsAmount /\ amount' = seen[c] - 1
    BY <1>3 DEF DeleteCounts, TypeOK
  <2> QED BY <1>3, <2>1 DEF DeleteCounts, TypeOK
<1>4. CASE UNCHANGED <<amount, lpc, idx, seen>>
  BY <1>4
<1>5. CASE Down BY <1>5, DownStep DEF RegistryInv
<1> QED
  BY <1>1, <1>2, <1>3, <1>4, <1>5, StepCases
     DEF ThreadReceives, ThreadSpins, ThreadReplies, DeletePasses, ClientConnects,
         ClientRefused, ClientAsks, ClientTakes, ClientQuits, ClientKilled, ClientCutOff

(* accept takes connections in the order they came and each once. *)
LEMMA WaitingStep ==
  ASSUME RegistryInv, [Next]_vars
  PROVE  Waiting'
<1> TypeOK /\ Waiting BY DEF RegistryInv
<1> USE NothingElse DEF Waiting
<1>1. CASE ListenerTurnsAway \/ ListenerAdmits
  <2>1. lq # <<>> /\ lq \in Seq(Clients) /\ lq' = Tail(lq)
    BY <1>1 DEF ListenerTurnsAway, ListenerAdmits, Welcomes, Admits, TypeOK
  <2>2. Len(lq') = Len(lq) - 1 /\ \A i \in 1..Len(lq') : i + 1 \in 1..Len(lq) /\ lq'[i] = lq[i + 1]
    BY <2>1
  <2>5. Head(lq) = lq[1] /\ 1 \in 1..Len(lq)
    BY <2>1
  <2>3. \A i \in 1..Len(lq') : lq'[i] # Head(lq)
    <3> SUFFICES ASSUME NEW i \in 1..Len(lq') PROVE lq'[i] # Head(lq)
      OBVIOUS
    <3>1. i + 1 \in 1..Len(lq) /\ lq'[i] = lq[i + 1]
      BY <2>2
    <3>2. i + 1 # 1
      BY <2>1, <3>1
    <3> QED BY <2>5, <3>1, <3>2
  <2>4. UNCHANGED cpc /\ \A c \in Clients : tpc'[c] # tpc[c] => c = Head(lq)
    BY <1>1 DEF ListenerTurnsAway, ListenerAdmits, Admits, TypeOK
  <2>6. \A i \in 1..Len(lq) : lq[i] \in Clients
    BY <2>1
  <2>7. \A i \in 1..Len(lq') : tpc'[lq'[i]] = tpc[lq'[i]]
    BY <2>2, <2>3, <2>4, <2>6
  <2>8. ASSUME NEW i \in 1..Len(lq')
        PROVE  /\ tpc'[lq'[i]] = "none" /\ cpc'[lq'[i]] # "start"
               /\ \A j \in 1..Len(lq') : lq'[i] = lq'[j] => i = j
    <3>1. i + 1 \in 1..Len(lq) /\ lq'[i] = lq[i + 1] /\ tpc'[lq'[i]] = tpc[lq'[i]]
      BY <2>2, <2>7
    <3>2. tpc'[lq'[i]] = "none" /\ cpc'[lq'[i]] # "start"
      BY <3>1, <2>4
    <3>3. ASSUME NEW j \in 1..Len(lq'), lq'[i] = lq'[j] PROVE i = j
      <4>1. j + 1 \in 1..Len(lq) /\ lq'[j] = lq[j + 1]
        BY <2>2
      <4>2. i + 1 = j + 1
        BY <3>1, <3>3, <4>1
      <4> QED BY <4>2
    <3> QED BY <3>2, <3>3
  <2>9. \A c \in Clients : cpc'[c] = "start" => tpc'[c] = "none"
    BY <2>4, <2>5, <2>6
  <2> QED BY <2>8, <2>9
<1>2. ASSUME NEW c \in Clients, ClientConnects(c) PROVE Waiting'
  <2>1. /\ lq \in Seq(Clients) /\ lq' = Append(lq, c) /\ UNCHANGED tpc
        /\ cpc[c] = "start" /\ cpc' = [cpc EXCEPT ![c] = "ready"]
    BY <1>2 DEF ClientConnects, TypeOK
  <2>2. \A i \in 1..Len(lq) : lq[i] # c /\ lq[i] \in Clients
    BY <2>1
  <2>3. Len(lq') = Len(lq) + 1 /\ lq'[Len(lq')] = c /\ \A i \in 1..Len(lq) : lq'[i] = lq[i]
    BY <2>1
  <2>4. \A i \in 1..Len(lq') : i \in 1..Len(lq) \/ i = Len(lq')
    BY <2>1, <2>3
  <2>5. \A d \in Clients : d # c => cpc'[d] = cpc[d]
    BY <2>1 DEF TypeOK
  <2>6. tpc[c] = "none" /\ cpc'[c] = "ready"
    BY <2>1 DEF TypeOK
  <2> QED BY <2>1, <2>2, <2>3, <2>4, <2>5, <2>6
<1>3. CASE UNCHANGED lq /\ \A c \in Clients :
             /\ cpc'[c] = cpc[c] \/ cpc'[c] # "start"
             /\ tpc'[c] = tpc[c] \/ (tpc[c] # "none" /\ cpc'[c] = cpc[c])
  <2>1. \A i \in 1..Len(lq) : lq[i] \in Clients
    BY DEF TypeOK
  <2> QED BY <1>3, <2>1
<1>4. CASE Down BY <1>4, DownStep DEF RegistryInv
<1>5. ASSUME NEW c \in Clients,
             \/ ThreadReceives(c) \/ ThreadSpins(c) \/ ThreadReplies(c)
             \/ ThreadMeetsEnd(c) \/ DeletePasses(c) \/ DeleteFrees(c)
             \/ DeleteMisses(c) \/ DeleteMoves(c) \/ DeleteCounts(c)
      PROVE  Waiting'
  <2>1. UNCHANGED <<lq, cpc>> /\ \A d \in Clients : tpc'[d] = tpc[d] \/ tpc[d] # "none"
    BY <1>5 DEF ThreadReceives, ThreadSpins, ThreadReplies, ThreadMeetsEnd, Serves,
       DeletePasses, DeleteFrees, Looks, DeleteMisses, DeleteMoves, DeleteCounts, TypeOK
  <2> QED BY <1>3, <2>1
<1>6. ASSUME NEW c \in Clients,
             \/ ClientRefused(c) \/ ClientAsks(c) \/ ClientTakes(c)
             \/ ClientQuits(c) \/ ClientKilled(c) \/ ClientCutOff(c)
      PROVE  Waiting'
  <2>1. lq' = lq /\ tpc' = tpc /\ \A d \in Clients : cpc'[d] = cpc[d] \/ cpc'[d] # "start"
    BY <1>6 DEF ClientRefused, ClientAsks, ClientTakes, ClientQuits, ClientKilled,
       ClientCutOff, TypeOK
  <2> QED BY <1>3, <2>1
<1> QED
  BY <1>1, <1>2, <1>3, <1>4, <1>5, <1>6, StepCases
     DEF ListenerLoads, ListenerStores, ListenerCounts, ListenerReleases

(* A message has one place, and a reply is the one that is waited for      *)
(* (recv_message, send_message, process_input).                            *)
LEMMA OneMessageStep ==
  ASSUME RegistryInv, [Next]_vars
  PROVE  OneMessage'
<1> TypeOK /\ OneMessage BY DEF RegistryInv
<1> USE NothingElse DEF OneMessage
<1>1. ASSUME NEW c \in Clients, ThreadReceives(c) PROVE OneMessage'
  BY <1>1 DEF ThreadReceives, Serves, TypeOK
<1>2. ASSUME NEW c \in Clients, ThreadReplies(c) PROVE OneMessage'
  BY <1>2 DEF ThreadReplies, TypeOK
<1>3. ASSUME NEW c \in Clients, \/ ClientConnects(c) \/ ClientRefused(c) \/ ClientQuits(c)
      PROVE OneMessage'
  BY <1>3 DEF ClientConnects, ClientRefused, ClientQuits, TypeOK
<1>4. ASSUME NEW c \in Clients, ClientAsks(c) PROVE OneMessage'
  BY <1>4 DEF ClientAsks, TypeOK
<1>5. ASSUME NEW c \in Clients, ClientTakes(c) PROVE OneMessage'
  BY <1>5 DEF ClientTakes, TypeOK
<1>6. ASSUME NEW c \in Clients, ClientKilled(c) \/ ClientCutOff(c) PROVE OneMessage'
  BY <1>6 DEF ClientKilled, ClientCutOff, TypeOK
<1>7. CASE Down BY <1>7, DownStep DEF RegistryInv
<1>8. CASE UNCHANGED <<cpc, asked, answer, request, text>>
  BY <1>8
<1> QED
  BY <1>1, <1>2, <1>3, <1>4, <1>5, <1>6, <1>7, <1>8, StepCases
     DEF ListenerTurnsAway, ListenerAdmits, Admits, ListenerLoads, ListenerStores,
         ListenerCounts, ListenerReleases, ThreadSpins, ThreadMeetsEnd, DeletePasses,
         DeleteFrees, DeleteMisses, DeleteMoves, DeleteCounts

(* A user who just leaves does so between two requests (process_input). *)
LEMMA BlameStep ==
  ASSUME RegistryInv, [Next]_vars
  PROVE  Blame'
<1> TypeOK /\ OneMessage /\ Blame BY DEF RegistryInv
<1> USE NothingElse DEF Blame
<1>1. ASSUME NEW c \in Clients,
             \/ ThreadReceives(c) \/ ThreadReplies(c) \/ ThreadMeetsEnd(c)
             \/ ClientConnects(c) \/ ClientRefused(c) \/ ClientAsks(c) \/ ClientTakes(c)
             \/ ClientQuits(c)
      PROVE  Blame'
  <2>1. CASE ThreadReceives(c) BY <2>1 DEF ThreadReceives, Serves, TypeOK
  <2>2. CASE ThreadReplies(c) BY <2>2 DEF ThreadReplies, TypeOK
  <2>3. CASE ThreadMeetsEnd(c) BY <2>3 DEF ThreadMeetsEnd, TypeOK
  <2>4. CASE ClientConnects(c) BY <2>4 DEF ClientConnects, TypeOK
  <2>5. CASE ClientRefused(c) \/ ClientQuits(c)
    <3>1. request[c] = None /\ text[c] = None
      BY <2>5 DEF ClientRefused, ClientQuits, OneMessage
    <3> QED BY <2>5, <3>1 DEF ClientRefused, ClientQuits, TypeOK
  <2>6. CASE ClientAsks(c) \/ ClientTakes(c) BY <2>6 DEF ClientAsks, ClientTakes, TypeOK
  <2> QED BY <1>1, <2>1, <2>2, <2>3, <2>4, <2>5, <2>6
<1>2. ASSUME NEW c \in Clients, ClientKilled(c) \/ ClientCutOff(c) PROVE Blame'
  BY <1>2, RegistryAssumption DEF ClientKilled, ClientCutOff, TypeOK
<1>3. CASE ListenerTurnsAway \/ ListenerAdmits
  BY <1>3 DEF ListenerTurnsAway, ListenerAdmits, Admits, Welcomes, TypeOK
<1>4. CASE Down BY <1>4, DownStep DEF RegistryInv
<1>5. CASE UNCHANGED <<conn, cpc, request, text, kills>>
  BY <1>5
<1> QED
  BY <1>1, <1>2, <1>3, <1>4, <1>5, StepCases
     DEF ListenerLoads, ListenerStores, ListenerCounts, ListenerReleases, ThreadSpins,
         DeletePasses, DeleteFrees, DeleteMisses, DeleteMoves, DeleteCounts

(* Without a deletion add_client numbers the clients in the order of       *)
(* accept: the main thread alone writes the array and its number.          *)
LEMMA NumberedStep ==
  ASSUME RegistryInv, [Next]_vars
  PROVE  Numbered'
<1> TypeOK /\ Waiting /\ Numbered /\ Below BY DEF RegistryInv
<1> USE NothingElse DEF Numbered, Quiet
<1>1. CASE ListenerTurnsAway \/ ListenerReleases
  BY <1>1 DEF ListenerTurnsAway, Welcomes, ListenerReleases, TypeOK
<1>2. CASE ListenerAdmits
  <2> DEFINE v == Head(lq)
  <2>1. v \in Clients /\ lq # <<>> /\ v = lq[1] /\ 1 \in 1..Len(lq)
    BY <1>2 DEF ListenerAdmits, Welcomes, TypeOK
  <2>2. tpc[v] = "none" /\ visitor = None /\ visitor' = v /\ lpc' = "load"
    BY <1>2, <2>1 DEF ListenerAdmits, Welcomes, Admits, Waiting, TypeOK
  <2>3. /\ tpc'[v] = "recv" /\ id'[v] = amount /\ mem'[v] = "live"
        /\ \A c \in Clients \ {v} : tpc'[c] = tpc[c] /\ id'[c] = id[c] /\ mem'[c] = mem[c]
        /\ UNCHANGED <<clients, amount, idx, seen>>
    BY <1>2, <2>1 DEF ListenerAdmits, Admits, TypeOK
  <2> HIDE DEF v
  <2> SUFFICES ASSUME Quiet' PROVE Numbered'
    OBVIOUS
  <2>4. Quiet BY <2>2, <2>3
  <2>5. \A c \in Clients \ {v} : tpc'[c] # "none" => id'[c] \in 0 .. (amount - 1)
    BY <2>2, <2>3, <2>4
  <2>6. \A c, d \in Clients : tpc'[c] # "none" /\ tpc'[d] # "none" /\ id'[c] = id'[d] => c = d
    <3> SUFFICES ASSUME NEW c \in Clients, NEW d \in Clients, tpc'[c] # "none",
                        tpc'[d] # "none", id'[c] = id'[d]
                 PROVE  c = d
      OBVIOUS
    <3>1. amount \notin 0 .. (amount - 1) BY DEF TypeOK
    <3>2. c = v <=> d = v BY <2>3, <2>5, <3>1
    <3> QED BY <2>3, <2>4, <3>2
  <2>7. \A i \in Words : clients'[i] \in Clients => tpc'[clients'[i]] # "none"
    BY <2>3, <2>4
  <2>8. \A c \in Clients : mem'[c] # "freed" /\ (tpc'[c] = "find" => seen'[c] <= amount')
    BY <2>3, <2>4
  <2> QED BY <2>1, <2>2, <2>3, <2>4, <2>5, <2>6, <2>7, <2>8
<1>3. CASE ListenerLoads
  BY <1>3 DEF ListenerLoads, TypeOK
<1>4. CASE ListenerStores
  <2> SUFFICES ASSUME Quiet' PROVE Numbered'
    OBVIOUS
  <2>1. /\ lpc = "store" /\ lpc' = "count" /\ idx \in Words /\ visitor \in Clients
        /\ clients' = [clients EXCEPT ![idx] = visitor]
        /\ UNCHANGED <<amount, idx, visitor, tpc, id, mem, seen>>
    BY <1>4 DEF ListenerStores, TypeOK
  <2>2. Quiet /\ idx = amount /\ visitor # None BY <2>1
  <2>3. /\ clients'[idx] = visitor
        /\ \A i \in Words : i # idx => clients'[i] = clients[i]
    BY <2>1 DEF TypeOK
  <2>4. \A i \in 0 .. (amount - 1) : i \in Words /\ i # idx
    BY <2>2 DEF Words, TypeOK, Below
  <2>5. \A i \in 0 .. (amount' - 1) : clients'[i] \in Clients
    BY <2>1, <2>2, <2>3, <2>4
  <2>6. \A i \in Words : clients'[i] \in Clients => tpc'[clients'[i]] # "none"
    BY <2>1, <2>2, <2>3
  <2> QED BY <2>1, <2>2, <2>3, <2>5, <2>6
<1>5. CASE ListenerCounts
  <2> SUFFICES ASSUME Quiet' PROVE Numbered'
    OBVIOUS
  <2>1. /\ lpc = "count" /\ lpc' = "release" /\ visitor' = None /\ amount' = idx + 1
        /\ visitor \in Clients /\ UNCHANGED <<clients, tpc, id, mem, seen>>
    BY <1>5 DEF ListenerCounts, TypeOK
  <2>2. Quiet /\ idx = amount /\ clients[amount] \in Clients /\ visitor # None
    BY <2>1
  <2>3. \A i \in 0 .. (amount' - 1) : i \in 0 .. (amount - 1) \/ i = amount
    BY <2>1, <2>2 DEF TypeOK
  <2>4. \A c \in Clients : tpc'[c] # "none" => id'[c] \in 0 .. (amount' - 1)
    BY <2>1, <2>2 DEF TypeOK
  <2>5. \A i \in 0 .. (amount' - 1) : clients'[i] \in Clients
    BY <2>1, <2>2, <2>3
  <2>6. \A c \in Clients : tpc'[c] = "find" => seen'[c] <= amount'
    BY <2>1, <2>2 DEF TypeOK
  <2> QED BY <2>1, <2>2, <2>4, <2>5, <2>6 DEF TypeOK
<1>6. ASSUME NEW c \in Clients,
             ThreadReceives(c) \/ ThreadSpins(c) \/ ThreadReplies(c) \/ ThreadMeetsEnd(c)
      PROVE  Numbered'
  <2>1. /\ UNCHANGED <<amount, lpc, idx, clients, visitor, id, mem>>
        /\ tpc[c] \in {"recv", "reply"} /\ tpc'[c] \in {"recv", "reply", "spin", "find"}
        /\ \A d \in Clients \ {c} : tpc'[d] = tpc[d] /\ seen'[d] = seen[d]
        /\ tpc'[c] = "find" => seen'[c] = amount
    BY <1>6 DEF ThreadReceives, ThreadSpins, ThreadReplies, ThreadMeetsEnd, Serves, TypeOK
  <2>2. \A d \in Clients : tpc'[d] # "none" <=> tpc[d] # "none"
    BY <2>1
  <2>3. \A d \in Clients : tpc'[d] = "find" => seen'[d] = amount \/ (tpc[d] = "find" /\ seen'[d] = seen[d])
    BY <2>1
  <2> SUFFICES ASSUME Quiet' PROVE Numbered'
    OBVIOUS
  <2>4. Quiet BY <2>1
  <2>5. visitor # None => visitor \in Clients BY DEF TypeOK
  <2>6. \A d \in Clients : tpc'[d] = "find" => seen'[d] <= amount'
    <3>1. amount' = amount /\ amount <= amount BY <2>1 DEF TypeOK
    <3>2. \A d \in Clients : tpc[d] = "find" => seen[d] <= amount BY <2>4
    <3> QED BY <2>3, <3>1, <3>2
  <2> QED BY <2>1, <2>2, <2>4, <2>5, <2>6
<1>7. ASSUME NEW c \in Clients,
             DeleteFrees(c) \/ DeleteMisses(c) \/ DeleteMoves(c) \/ DeleteCounts(c)
      PROVE  Numbered'
  BY <1>7 DEF DeleteFrees, DeleteMisses, DeleteMoves, DeleteCounts, TypeOK
<1>8. CASE Down BY <1>8, DownStep DEF RegistryInv
<1>9. CASE UNCHANGED <<amount, lpc, idx, clients, visitor, id, mem, tpc, seen>>
  BY <1>9
<1> QED
  BY <1>1, <1>2, <1>3, <1>4, <1>5, <1>6, <1>7, <1>8, <1>9, StepCases
     DEF DeletePasses, ClientConnects, ClientRefused, ClientAsks, ClientTakes, ClientQuits,
         ClientKilled, ClientCutOff

(* Two clients never have the same id before the first deletion: the       *)
(* search of delete_client finds the client that has left.                 *)
LEMMA FindsItself ==
  ASSUME RegistryInv, NEW c \in Clients, DeleteFrees(c), Quiet
  PROVE  mem' = [mem EXCEPT ![c] = "freed"]
<1>1. clients[pos[c]] \in Clients /\ id[clients[pos[c]]] = id[c] /\ tpc[c] = "find"
  BY DEF DeleteFrees, Looks
<1>2. pos[c] \in Words /\ clients[pos[c]] # Foreign
  <2>1. pos[c] < seen[c] /\ pos[c] \in Nat /\ seen[c] <= ClientsAmount /\ seen[c] \in Int
    BY DEF DeleteFrees, Looks, RegistryInv, TypeOK, Below
  <2> QED BY <1>1, <2>1, NothingElse DEF Words
<1>3. clients[pos[c]] = c
  BY <1>1, <1>2 DEF RegistryInv, Numbered
<1> QED BY <1>3 DEF DeleteFrees

(* With one client gone, clients_amount is at most one too small, and no   *)
(* thread but its own has reached a free.                                  *)
LEMMA LoneStep ==
  ASSUME RegistryInv, [Next]_vars
  PROVE  Lone'
<1> TypeOK /\ Numbered /\ Waiting /\ Lone BY DEF RegistryInv
<1> USE NothingElse DEF Lone, OneLeaver, Leaving
<1>1. CASE ListenerTurnsAway \/ ListenerReleases \/ ListenerLoads \/ ListenerStores
           \/ ListenerCounts
  BY <1>1 DEF ListenerTurnsAway, ListenerReleases, ListenerLoads, ListenerStores,
     ListenerCounts, TypeOK
<1>2. CASE ListenerAdmits
  <2>1. Head(lq) \in Clients /\ lq # <<>> /\ Head(lq) = lq[1] /\ 1 \in 1..Len(lq)
    BY <1>2 DEF ListenerAdmits, Welcomes, TypeOK
  <2>2. tpc[Head(lq)] = "none"
    BY <2>1 DEF Waiting
  <2>3. /\ tpc'[Head(lq)] = "recv" /\ mem'[Head(lq)] = "live"
        /\ \A d \in Clients \ {Head(lq)} : tpc'[d] = tpc[d] /\ mem'[d] = mem[d]
        /\ UNCHANGED <<amount, idx, seen>>
    BY <1>2, <2>1 DEF ListenerAdmits, Admits, TypeOK
  <2>4. /\ OneLeaver' => OneLeaver
        /\ \A d \in Clients : tpc'[d] # "done" => tpc[d] # "done"
        /\ \A d \in Clients : mem'[d] = "freed" => mem[d] = "freed" /\ tpc'[d] = tpc[d]
    BY <2>1, <2>2, <2>3
  <2> QED BY <2>3, <2>4
<1>3. ASSUME NEW c \in Clients,
             ThreadReceives(c) \/ ThreadSpins(c) \/ ThreadReplies(c) \/ DeletePasses(c)
             \/ DeleteMisses(c) \/ DeleteMoves(c)
      PROVE  Lone'
  <2>1. /\ UNCHANGED <<amount, idx, seen, mem>>
        /\ \A d \in Clients \ {c} : tpc'[d] = tpc[d]
        /\ \/ tpc[c] \in {"recv", "reply"} /\ tpc'[c] \in {"recv", "reply", "spin"}
           \/ tpc[c] = "find" /\ tpc'[c] \in {"find", "move"}
           \/ tpc[c] = "move" /\ tpc'[c] = "count"
    BY <1>3 DEF ThreadReceives, ThreadSpins, ThreadReplies, Serves, DeletePasses, Looks,
       DeleteMisses, DeleteMoves, TypeOK
  <2>2. /\ OneLeaver' => OneLeaver
        /\ \A d \in Clients : tpc'[d] # "done" => tpc[d] # "done"
        /\ \A d \in Clients : tpc[d] \in {"move", "count", "done"} =>
                               tpc'[d] \in {"move", "count", "done"}
    BY <2>1
  <2> QED BY <2>1, <2>2
<1>4. ASSUME NEW c \in Clients, ThreadMeetsEnd(c) PROVE Lone'
  <2> SUFFICES ASSUME OneLeaver' PROVE Lone'
    OBVIOUS
  <2>1. /\ tpc[c] = "recv" /\ tpc'[c] = "find" /\ seen'[c] = amount
        /\ \A d \in Clients \ {c} : tpc'[d] = tpc[d] /\ seen'[d] = seen[d]
        /\ UNCHANGED <<amount, idx, mem>>
    BY <1>4 DEF ThreadMeetsEnd, Serves, TypeOK
  <2>2. \A d \in Clients : tpc[d] # "done" /\ ~Leaving(d)
    BY <2>1
  <2> QED BY <2>1, <2>2
<1>5. ASSUME NEW c \in Clients, DeleteFrees(c) PROVE Lone'
  <2> SUFFICES ASSUME OneLeaver' PROVE Lone'
    OBVIOUS
  <2>1. /\ tpc[c] = "find" /\ tpc'[c] = "move" /\ seen'[c] = amount
        /\ \A d \in Clients \ {c} : tpc'[d] = tpc[d] /\ seen'[d] = seen[d]
        /\ UNCHANGED <<amount, idx>>
    BY <1>5 DEF DeleteFrees, Looks, TypeOK
  <2>2. Quiet /\ OneLeaver
    BY <2>1 DEF Quiet
  <2>3. mem' = [mem EXCEPT ![c] = "freed"]
    BY <1>5, <2>2, FindsItself
  <2> QED BY <2>1, <2>2, <2>3 DEF Quiet, TypeOK
<1>6. ASSUME NEW c \in Clients, DeleteCounts(c) PROVE Lone'
  BY <1>6 DEF DeleteCounts, TypeOK
<1>7. CASE Down BY <1>7, DownStep DEF RegistryInv
<1>8. CASE UNCHANGED <<amount, idx, tpc, seen, mem>>
  BY <1>8
<1> QED
  BY <1>1, <1>2, <1>3, <1>4, <1>5, <1>6, <1>7, <1>8, StepCases
     DEF ClientConnects, ClientRefused, ClientAsks, ClientTakes, ClientQuits, ClientKilled,
         ClientCutOff
-----------------------------------------------------------------------------
(* The theorems.                                                           *)

(* The program starts in a state that satisfies the invariant. *)
LEMMA RegistryInit == Init => RegistryInv
<1> SUFFICES ASSUME Init PROVE RegistryInv
  OBVIOUS
<1> USE NothingElse, RegistryAssumption DEF Init
<1>1. TypeOK
  <2>1. clients \in [Words -> Clients \cup {Null, Foreign}] /\ lq \in Seq(Clients)
    BY DEF EmptyArray
  <2>2. kills \in 0..MaxKills OBVIOUS
  <2> QED BY <2>1, <2>2 DEF TypeOK
<1>2. Below BY DEF Below
<1>3. Waiting BY DEF Waiting
<1>4. OneMessage BY DEF OneMessage
<1>5. Blame BY DEF Blame
<1>6. Numbered
  <2>1. \A i \in Words : clients[i] \notin Clients
    BY DEF EmptyArray
  <2> QED BY <2>1 DEF Numbered
<1>7. Lone BY DEF Lone
<1> QED BY <1>1, <1>2, <1>3, <1>4, <1>5, <1>6, <1>7 DEF RegistryInv

(* Every step keeps the invariant. *)
LEMMA RegistryStep == RegistryInv /\ [Next]_vars => RegistryInv'
<1> SUFFICES ASSUME RegistryInv, [Next]_vars PROVE RegistryInv'
  OBVIOUS
<1> QED
  BY TypeStep, BelowStep, WaitingStep, OneMessageStep, BlameStep, NumberedStep, LoneStep
     DEF RegistryInv

(* Every state the server of task 1 reaches satisfies the inductive        *)
(* invariant.                                                              *)
THEOREM RegistryInvariant == Spec => []RegistryInv
  BY RegistryInit, RegistryStep, PTL DEF Spec

(* Type correctness; among other things, every word the unlocked           *)
(* delete_client reads or writes is one of the array or just behind it.    *)
THEOREM TypeCorrect == Spec => []TypeOK
<1>1. RegistryInv => TypeOK BY DEF RegistryInv
<1> QED BY <1>1, RegistryInvariant, PTL

(* However the unlocked updates of clients_amount interleave, for any      *)
(* number of clients, add_client never writes behind the array.            *)
THEOREM RegistryIsNotOverfilled == Spec => []StoresStayBelow
<1>1. RegistryInv => StoresStayBelow BY DEF RegistryInv, Below, StoresStayBelow
<1> QED BY <1>1, RegistryInvariant, PTL

(* delete_client frees the client of its own thread as long as no other    *)
(* client has left.                                                        *)
THEOREM FirstDeletionIsRight == Spec => FirstLeaverIsDeleted
<1> DEFINE A == \A c \in Clients :
                  tpc[c] = "find" /\ tpc'[c] = "move" /\ (\A d \in Clients \ {c} : ~Leaving(d))
                    => \A d \in Clients \ {c} : mem'[d] = mem[d]
<1>1. ASSUME RegistryInv, [Next]_vars PROVE [A]_vars
  <2> SUFFICES ASSUME NEW c \in Clients, tpc[c] = "find", tpc'[c] = "move",
                      \A d \in Clients \ {c} : ~Leaving(d)
               PROVE  \A d \in Clients \ {c} : mem'[d] = mem[d]
    OBVIOUS
  <2> TypeOK BY <1>1 DEF RegistryInv
  <2>1. Quiet BY DEF Quiet, Leaving
  <2>2. DeleteFrees(c) \/ DeleteMisses(c)
    <3>1. CASE \E d \in Clients :
                 \/ ThreadReceives(d) \/ ThreadSpins(d) \/ ThreadReplies(d)
                 \/ ThreadMeetsEnd(d) \/ DeletePasses(d) \/ DeleteFrees(d)
                 \/ DeleteMisses(d) \/ DeleteMoves(d) \/ DeleteCounts(d)
      BY <3>1 DEF ThreadReceives, ThreadSpins, ThreadReplies, ThreadMeetsEnd, Serves,
         DeletePasses, DeleteFrees, Looks, DeleteMisses, DeleteMoves, DeleteCounts, TypeOK
    <3>2. CASE ListenerAdmits
      <4>1. Head(lq) = lq[1] /\ 1 \in 1..Len(lq) /\ lq[1] \in Clients
        BY <3>2 DEF ListenerAdmits, Welcomes, TypeOK
      <4>2. Head(lq) # c
        BY <1>1, <4>1 DEF RegistryInv, Waiting
      <4> QED BY <3>2, <4>2 DEF ListenerAdmits, Admits, TypeOK
    <3>3. CASE Down BY <3>3 DEF Down
    <3>4. CASE UNCHANGED tpc BY <3>4
    <3> QED
      BY <1>1, <3>1, <3>2, <3>3, <3>4, StepCases
         DEF ListenerTurnsAway, ListenerLoads, ListenerStores, ListenerCounts,
             ListenerReleases, ClientConnects, ClientRefused, ClientAsks, ClientTakes,
             ClientQuits, ClientKilled, ClientCutOff
  <2>3. CASE DeleteFrees(c)
    BY <1>1, <2>1, <2>3, FindsItself DEF TypeOK
  <2>4. CASE DeleteMisses(c)
    BY <2>4 DEF DeleteMisses
  <2> QED BY <2>2, <2>3, <2>4
<1> QED BY <1>1, RegistryInvariant, PTL DEF Spec, FirstLeaverIsDeleted

(* A lone leaver ends nothing: as long as nobody was killed, descriptors   *)
(* last and the chunk behind the array is whole, the first delete_client,  *)
(* in any interleaving with add_client and the other threads, does not     *)
(* bring the server down.  Once two clients have ever left, at once or one *)
(* after the other, it says nothing: their deletions may fault.            *)
THEOREM LoneLeaverEndsNothing == Spec => DownHasACause
<1> DEFINE Cause == \/ kills > 0 \/ Cardinality(Open) >= FdLimit \/ clients[ClientsAmount] = Null
                    \/ \E c, d \in Clients : c # d /\ Leaving(c) /\ Leaving(d)
           A == proc = "up" /\ proc' = "down" => Cause
<1>1. ASSUME RegistryInv, [Next]_vars PROVE [A]_vars
  <2> SUFFICES ASSUME proc = "up", proc' = "down", kills = 0, OneLeaver
               PROVE  Cardinality(Open) >= FdLimit \/ clients[ClientsAmount] = Null
    BY <1>1, RegistryAssumption DEF RegistryInv, TypeOK, OneLeaver
  <2> USE NothingElse
  <2> TypeOK /\ Below /\ OneMessage /\ Blame /\ Numbered /\ Lone BY <1>1 DEF RegistryInv
  <2>1. CASE ListenerAcceptFails \/ ListenerAborts
    BY <2>1 DEF ListenerAcceptFails, ListenerAborts
  <2>2. ~ListenerOverwrites
    <3>1. idx >= -1 BY DEF Lone
    <3> QED BY <3>1 DEF ListenerOverwrites, Below, Words, TypeOK
  <2>3. ASSUME NEW c \in Clients, ThreadReplyFails(c) \/ ThreadReadFails(c) PROVE FALSE
    BY <2>3 DEF ThreadReplyFails, ThreadReadFails, Blame, TypeOK
  <2>4. ASSUME NEW c \in Clients, ThreadFaults(c) PROVE FALSE
    BY <2>4 DEF ThreadFaults, Serves, Lone
  <2>5. ASSUME NEW c \in Clients, DeleteFreesTwice(c) \/ DeleteFaults(c) PROVE FALSE
    <3>1. tpc[c] = "find" /\ pos[c] < seen[c]
      BY <2>5 DEF DeleteFreesTwice, DeleteFaults, Looks
    <3>2. Quiet
      BY <3>1 DEF Quiet, OneLeaver, Leaving
    <3>3. pos[c] \in 0 .. (amount - 1)
      BY <3>1, <3>2 DEF Numbered, TypeOK
    <3>4. clients[pos[c]] \in Clients /\ mem[clients[pos[c]]] # "freed"
      BY <3>2, <3>3 DEF Numbered
    <3> QED BY <2>5, <3>4 DEF DeleteFreesTwice, DeleteFaults
  <2>6. \/ ListenerAcceptFails \/ ListenerAborts \/ ListenerOverwrites
        \/ \E c \in Clients : \/ ThreadReplyFails(c) \/ ThreadReadFails(c) \/ ThreadFaults(c)
                              \/ DeleteFreesTwice(c) \/ DeleteFaults(c)
    BY <1>1
       DEF Next, Listener, Thread, Client, User, ListenerTurnsAway, ListenerAdmits, Admits,
           ListenerReuses, ListenerLoads, ListenerStores, ListenerCounts, ListenerReleases,
           ThreadReceives, ThreadSpins, ThreadReplies, ThreadMeetsEnd, DeletePasses,
           DeleteFrees, DeleteMisses, DeleteMoves, DeleteCounts, ClientConnects,
           ClientRefused, ClientAsks, ClientTakes, ClientQuits, ClientKilled, ClientCutOff
  <2> QED BY <2>1, <2>2, <2>3, <2>4, <2>5, <2>6
<1> QED BY <1>1, RegistryInvariant, PTL DEF Spec, DownHasACause

(* At the start no client of the server waits. *)
LEMMA EchoInitially == Init => Echo!EchoInit
  BY DEF Init, Echo!EchoInit

(* Every step of server and clients is a step of the echo service or       *)
(* leaves what the clients wait for alone.                                 *)
LEMMA EchoStep ==
  ASSUME RegistryInv, [Next]_vars
  PROVE  [Echo!EchoNext]_Echo!echoVars
<1> TypeOK /\ OneMessage BY DEF RegistryInv
<1> USE NothingElse DEF Echo!EchoNext, Echo!echoVars
<1>1. ASSUME NEW c \in Clients, ThreadReplies(c), cpc[c] # "gone" PROVE Echo!EchoNext
  <2>1. text[c] = asked[c] /\ answer[c] = None /\ asked[c] # None
    BY <1>1 DEF ThreadReplies, OneMessage, TypeOK
  <2>2. Echo!Answer(c)
    BY <1>1, <2>1 DEF ThreadReplies, Echo!Answer, Echo!Prefixed, Prefixed
  <2> QED BY <2>2
<1>2. ASSUME NEW c \in Clients, ThreadReplies(c), cpc[c] = "gone"
      PROVE  UNCHANGED <<asked, answer>>
  <2>1. answer[c] = None
    BY <1>2 DEF OneMessage
  <2> QED BY <1>2, <2>1 DEF ThreadReplies, TypeOK
<1>3. ASSUME NEW c \in Clients, ClientAsks(c) PROVE Echo!EchoNext
  <2>1. asked[c] = None /\ UNCHANGED answer
    BY <1>3 DEF ClientAsks, OneMessage
  <2>2. PICK m \in Messages : asked' = [asked EXCEPT ![c] = m]
    BY <1>3 DEF ClientAsks
  <2> QED BY <2>1, <2>2 DEF Echo!Ask
<1>4. ASSUME NEW c \in Clients, ClientTakes(c) PROVE Echo!EchoNext
  BY <1>4 DEF ClientTakes, Echo!Take
<1>5. ASSUME NEW c \in Clients, ClientKilled(c) PROVE Echo!EchoNext
  <2>1. Echo!Abandon({c})
    BY <1>5 DEF ClientKilled, Echo!Abandon, TypeOK
  <2>2. {c} \in SUBSET Clients OBVIOUS
  <2> QED BY <2>1, <2>2
<1>6. CASE Down
  <2>1. Echo!Abandon(Clients)
    BY <1>6 DEF Down, Echo!Abandon
  <2>2. Clients \in SUBSET Clients OBVIOUS
  <2> QED BY <2>1, <2>2
<1>7. CASE UNCHANGED <<asked, answer>>
  BY <1>7
<1> QED
  BY <1>1, <1>2, <1>3, <1>4, <1>5, <1>6, <1>7, StepCases
     DEF ListenerTurnsAway, ListenerAdmits, Admits, ListenerLoads, ListenerStores,
         ListenerCounts, ListenerReleases, ThreadReceives, ThreadSpins, ThreadMeetsEnd,
         DeletePasses, DeleteFrees, DeleteMisses, DeleteMoves, DeleteCounts,
         ClientConnects, ClientRefused, ClientQuits, ClientCutOff

(* Refinement: whatever becomes of the registry, no client is answered     *)
(* wrongly, twice, or without having asked, until two share a struct.      *)
THEOREM RegistryIsEchoService == Spec => EchoRefinement
  BY EchoInitially, EchoStep, RegistryInvariant, PTL DEF Spec, EchoRefinement, Echo!EchoSpec
-----------------------------------------------------------------------------
(* The conversations.                                                      *)

(* A connection and its thread come and go together: it waits for accept   *)
(* untouched, it is served while it is open, and what is closed is empty.  *)
Connected ==
  /\ \A c \in Clients :
       /\ cpc[c] = "start" => conn[c] = "none"
       /\ conn[c] = "none" => /\ cpc[c] \in {"start", "gone"} /\ request[c] = None
                             /\ tpc[c] \notin {"recv", "reply", "spin"}
       /\ tpc[c] \in {"find", "move", "count", "done"} => conn[c] = "none"
       /\ tpc[c] = "none" => answer[c] = None
       /\ conn[c] = "backlog" => tpc[c] = "none"
  /\ \A i \in 1..Len(lq) : conn[lq[i]] = "backlog"

LEMMA ConnectedInit == Init => Connected
  BY DEF Init, Connected

LEMMA ConnectedStep ==
  ASSUME RegistryInv, Connected, [Next]_vars
  PROVE  Connected'
<1> TypeOK /\ Waiting /\ OneMessage BY DEF RegistryInv
<1> DEFINE Each(c) ==
      /\ cpc[c] = "start" => conn[c] = "none"
      /\ conn[c] = "none" => /\ cpc[c] \in {"start", "gone"} /\ request[c] = None
                            /\ tpc[c] \notin {"recv", "reply", "spin"}
      /\ tpc[c] \in {"find", "move", "count", "done"} => conn[c] = "none"
      /\ tpc[c] = "none" => answer[c] = None
      /\ conn[c] = "backlog" => tpc[c] = "none"
    Same(c) == UNCHANGED <<cpc[c], conn[c], request[c], tpc[c], answer[c]>>
<1>1. \A c \in Clients : Each(c)
  BY DEF Connected
<1>2. \A i \in 1..Len(lq) : lq[i] \in Clients /\ conn[lq[i]] = "backlog" /\ tpc[lq[i]] = "none"
  BY DEF Connected, Waiting, TypeOK
<1>3. ASSUME NEW c \in Clients, \A d \in Clients \ {c} : Same(d), Each(c)', UNCHANGED lq,
             conn'[c] = conn[c] \/ conn[c] # "backlog"
      PROVE  Connected'
  <2>1. \A d \in Clients : Each(d)'
    BY <1>1, <1>3
  <2>2. \A d \in Clients : conn'[d] = conn[d] \/ conn[d] # "backlog"
    BY <1>3
  <2> QED BY <1>2, <1>3, <2>1, <2>2 DEF Connected
<1>4. CASE UNCHANGED <<cpc, conn, request, answer, tpc, lq>>
  BY <1>4 DEF Connected
<1>5. CASE Down
  BY <1>5, DownStep DEF Connected, Down
<1>6. CASE ListenerTurnsAway \/ ListenerAdmits
  <2>0. PICK h \in Clients : h = Head(lq) /\ lq # <<>>
    BY <1>6 DEF ListenerTurnsAway, ListenerAdmits, Welcomes, TypeOK
  <2>1. /\ lq' = Tail(lq) /\ UNCHANGED <<cpc, request, answer>>
        /\ conn' = [conn EXCEPT ![h] = "open"] /\ tpc' \in {tpc, [tpc EXCEPT ![h] = "recv"]}
    BY <1>6, <2>0 DEF ListenerTurnsAway, ListenerAdmits, Admits
  <2>2. /\ h = lq[1] /\ 1 \in 1..Len(lq) /\ Len(lq') = Len(lq) - 1
        /\ \A i \in 1..Len(lq') : i + 1 \in 1..Len(lq) /\ lq'[i] = lq[i + 1]
    BY <2>0, <2>1 DEF TypeOK
  <2>3. cpc[h] # "start" /\ tpc[h] = "none" /\ answer[h] = None
    BY <1>1, <2>2 DEF Waiting
  <2>4. \A d \in Clients \ {h} : Same(d)
    BY <2>1 DEF TypeOK
  <2>5. \A i \in 1..Len(lq') : lq'[i] # h
    <3> SUFFICES ASSUME NEW i \in 1..Len(lq') PROVE lq'[i] # h
      OBVIOUS
    <3>1. i + 1 \in 1..Len(lq) /\ lq'[i] = lq[i + 1] /\ i + 1 # 1
      BY <2>2
    <3> QED BY <2>2, <3>1 DEF Waiting
  <2>6. \A i \in 1..Len(lq') : lq'[i] \in Clients /\ conn'[lq'[i]] = "backlog"
    BY <1>2, <2>2, <2>4, <2>5
  <2>7. Each(h)'
    BY <2>1, <2>2, <2>3 DEF TypeOK
  <2>8. \A d \in Clients : Each(d)'
    BY <1>1, <2>4, <2>7
  <2> QED BY <2>6, <2>8 DEF Connected
<1>7. ASSUME NEW c \in Clients, ClientConnects(c) PROVE Connected'
  <2>1. /\ cpc[c] = "start" /\ tpc[c] = "none" /\ conn[c] = "none" /\ answer[c] = None
        /\ lq' = Append(lq, c) /\ UNCHANGED <<tpc, request, answer>>
        /\ cpc' = [cpc EXCEPT ![c] = "ready"] /\ conn' = [conn EXCEPT ![c] = "backlog"]
    BY <1>1, <1>7 DEF ClientConnects, Waiting
  <2>2. \A d \in Clients \ {c} : Same(d)
    BY <2>1 DEF TypeOK
  <2>3. Each(c)'
    BY <2>1 DEF TypeOK
  <2>4. \A i \in 1..Len(lq') : conn'[lq'[i]] = "backlog"
    <3> SUFFICES ASSUME NEW i \in 1..Len(lq') PROVE conn'[lq'[i]] = "backlog"
      OBVIOUS
    <3>1. (i \in 1..Len(lq) /\ lq'[i] = lq[i]) \/ lq'[i] = c
      BY <2>1 DEF TypeOK
    <3> QED BY <1>2, <2>1, <3>1 DEF TypeOK
  <2> QED BY <1>1, <2>2, <2>3, <2>4 DEF Connected
<1>8. ASSUME NEW c \in Clients,
             \/ ThreadReceives(c) \/ ThreadSpins(c) \/ ThreadReplies(c) \/ ThreadMeetsEnd(c)
             \/ DeleteFrees(c) \/ DeleteMisses(c) \/ DeleteMoves(c) \/ DeleteCounts(c)
      PROVE  Connected'
  <2>1. /\ \A d \in Clients \ {c} : Same(d)
        /\ UNCHANGED lq
        /\ conn'[c] = conn[c] \/ conn[c] # "backlog"
    BY <1>8 DEF ThreadReceives, ThreadSpins, ThreadReplies, ThreadMeetsEnd, Ended,
       DeleteFrees, DeleteMisses, DeleteMoves, DeleteCounts, TypeOK
  <2>2. Each(c)'
    BY <1>1, <1>8 DEF ThreadReceives, ThreadSpins, ThreadReplies, ThreadMeetsEnd, Ended, Serves,
       DeleteFrees, DeleteMisses, DeleteMoves, DeleteCounts, Looks, TypeOK
  <2> QED BY <1>3, <2>1, <2>2
<1>9. ASSUME NEW c \in Clients,
             \/ ClientRefused(c) \/ ClientAsks(c) \/ ClientTakes(c) \/ ClientQuits(c)
             \/ ClientKilled(c) \/ ClientCutOff(c)
      PROVE  Connected'
  <2>1. /\ \A d \in Clients \ {c} : Same(d)
        /\ UNCHANGED <<lq, tpc>>
    BY <1>9 DEF ClientRefused, ClientAsks, ClientTakes, ClientQuits, ClientKilled, ClientCutOff,
       TypeOK
  <2>2. conn'[c] = conn[c] \/ conn[c] # "backlog"
    <3>1. conn[c] = "backlog" => tpc[c] = "none" /\ answer[c] = None
      BY <1>1
    <3> QED BY <1>9, <3>1 DEF ClientRefused, ClientAsks, ClientTakes, ClientQuits,
       ClientKilled, ClientCutOff, TypeOK
  <2>3. Each(c)'
    BY <1>1, <1>9, <2>1 DEF ClientRefused, ClientAsks, ClientTakes, ClientQuits, ClientKilled,
       ClientCutOff, TypeOK
  <2> QED BY <1>3, <2>1, <2>2, <2>3
<1> QED
  BY <1>4, <1>5, <1>6, <1>7, <1>8, <1>9, StepCases
     DEF ListenerLoads, ListenerStores, ListenerCounts, ListenerReleases, DeletePasses
LEMMA ConnectedInvariant == Spec => [](RegistryInv /\ Connected)
  BY RegistryInit, RegistryStep, ConnectedInit, ConnectedStep, PTL DEF Spec

(* How Conversation sees client c. *)
Sees(c, client, thread, held, end) ==
  ClientIs(c) = client /\ ThreadIs(c) = thread /\ Held(c) = held /\ End(c) = end

(* While both ends of a connection are there, it is seen as it is. *)
LEMMA LiveView ==
  ASSUME TypeOK, NEW c \in Clients, tpc[c] \in {"recv", "reply", "spin"}, conn[c] # "none",
         cpc[c] # "start"
  PROVE  Sees(c, cpc[c], tpc[c], text[c], IF conn[c] = "reset" THEN "reset" ELSE "open")
  BY DEF Sees, ClientIs, ThreadIs, Held, End, Over

LEMMA ConversationsInit == ASSUME Init, NEW c \in Clients PROVE Conv(c)!Init
  BY DEF Init, Conv!Init, ClientIs, ThreadIs, Held, End, Over

(* What a step leaves of a client and its thread, it leaves of their       *)
(* conversation.                                                           *)
LEMMA Unseen ==
  ASSUME NEW c \in Clients,
         UNCHANGED <<cpc[c], tpc[c], text[c], conn[c], request[c], asked[c], answer[c]>>
  PROVE  UNCHANGED Conv(c)!vars
  BY DEF Conv!vars, ClientIs, ThreadIs, Held, End, Over
(* The end of the process ends every conversation that has begun. *)
LEMMA DownSeen ==
  ASSUME RegistryInv, Connected, Down, NEW c \in Clients
  PROVE  Conv(c)!ServerKilled \/ UNCHANGED Conv(c)!vars
<1> TypeOK /\ Waiting /\ OneMessage BY DEF RegistryInv
<1>1. /\ tpc'[c] = "none" /\ text'[c] = None /\ conn'[c] = "none" /\ request'[c] = None
      /\ asked'[c] = None /\ answer'[c] = None
      /\ cpc'[c] = IF cpc[c] = "start" THEN "start" ELSE "gone"
  BY DEF Down
<1>2. CASE cpc[c] = "start" \/ Over(c)
  <2>1. UNCHANGED <<cpc[c], conn[c]>> /\ request[c] = None
    BY <1>1, <1>2 DEF Connected, Over
  <2>2. tpc[c] \notin {"recv", "reply", "spin"} /\ text[c] = None
    BY <1>2 DEF Connected, Over, TypeOK
  <2>3. asked[c] = None /\ answer[c] = None
    BY <1>2 DEF OneMessage, Over
  <2>4. ThreadIs(c)' = ThreadIs(c) /\ ClientIs(c)' = ClientIs(c) /\ End(c)' = End(c)
    BY <1>1, <2>1, <2>2 DEF ThreadIs, ClientIs, End, Over
  <2> QED BY <1>1, <2>1, <2>2, <2>3, <2>4 DEF Conv!vars, Held
<1>3. CASE cpc[c] # "start" /\ ~Over(c)
  <2>1. ThreadIs(c) # "done"
    BY <1>3 DEF ThreadIs
  <2>2. Over(c)'
    BY <1>1, <1>3 DEF Over
  <2>3. ClientIs(c)' = "gone" /\ ThreadIs(c)' = "done" /\ Held(c)' = None /\ End(c)' = "none"
    BY <1>1, <2>2 DEF ClientIs, ThreadIs, Held, End, Over
  <2> QED BY <1>1, <2>1, <2>3 DEF Conv!ServerKilled, Conv!Down
<1> QED BY <1>2, <1>3

(* A step of a client's thread on its own connection. *)
LEMMA ThreadSeen ==
  ASSUME RegistryInv, Connected, NEW c \in Clients,
         \/ ThreadReceives(c) \/ ThreadSpins(c) \/ ThreadReplies(c) \/ ThreadMeetsEnd(c)
         \/ DeleteFrees(c) \/ DeleteMisses(c) \/ DeleteMoves(c) \/ DeleteCounts(c)
  PROVE  [Conv(c)!Next]_(Conv(c)!vars)
<1> TypeOK /\ Waiting /\ OneMessage BY DEF RegistryInv
<1> USE NothingElse DEF Conv!Next
<1>1. CASE tpc[c] \in {"recv", "reply", "spin"}
  <2>1. /\ conn[c] # "none" /\ cpc[c] # "start" /\ ~Over(c)
        /\ Sees(c, cpc[c], tpc[c], text[c], IF conn[c] = "reset" THEN "reset" ELSE "open")
    BY <1>1, LiveView DEF Connected, Over
  <2>2. CASE ThreadReceives(c) \/ ThreadSpins(c) \/ ThreadReplies(c)
    <3>1. UNCHANGED <<cpc[c], conn[c], asked[c]>> /\ tpc'[c] \in {"recv", "reply", "spin"}
      BY <2>2 DEF ThreadReceives, ThreadSpins, ThreadReplies, TypeOK
    <3>2. ~Over(c)'
      BY <2>1, <3>1 DEF Over
    <3>3. Sees(c, cpc[c], tpc[c], text[c], IF conn[c] = "reset" THEN "reset" ELSE "open")'
      BY <2>1, <3>1, <3>2 DEF Sees, ClientIs, ThreadIs, Held, End
    <3>4. CASE ThreadReceives(c)
      <4>1. /\ request[c] \notin {Half, None} /\ tpc[c] = "recv" /\ tpc'[c] = "reply"
            /\ text'[c] = request[c] /\ request'[c] = None /\ answer'[c] = answer[c]
        BY <3>4 DEF ThreadReceives, Serves, TypeOK
      <4> QED BY <2>1, <3>1, <3>3, <4>1 DEF Sees, Conv!Receives
    <3>5. CASE ThreadSpins(c)
      <4>1. /\ request[c] = Half /\ tpc[c] = "recv" /\ tpc'[c] = "spin"
            /\ text'[c] = text[c] /\ request'[c] = request[c] /\ answer'[c] = answer[c]
        BY <3>5 DEF ThreadSpins, Serves, TypeOK
      <4> QED BY <2>1, <3>1, <3>3, <4>1 DEF Sees, Conv!Spins
    <3>6. CASE ThreadReplies(c)
      <4>1. /\ tpc[c] = "reply" /\ tpc'[c] = "recv"
            /\ answer'[c] = IF cpc[c] = "gone" THEN None ELSE Conv(c)!Prefixed(text[c])
            /\ text'[c] = None /\ request'[c] = request[c]
        BY <3>6 DEF ThreadReplies, TypeOK, Prefixed, Conv!Prefixed
      <4> QED BY <2>1, <3>1, <3>3, <4>1 DEF Sees, Conv!Replies
    <3> QED BY <2>2, <3>4, <3>5, <3>6
  <2>3. CASE ThreadMeetsEnd(c)
    <3>1. /\ tpc[c] = "recv" /\ request[c] = None /\ cpc[c] = "gone" /\ conn[c] = "open"
          /\ tpc'[c] = "find" /\ conn'[c] = "none"
          /\ UNCHANGED <<cpc[c], text[c], request[c], asked[c], answer[c]>>
      BY <2>3 DEF ThreadMeetsEnd, Serves, Ended, TypeOK
    <3>2. Over(c)'
      BY <3>1 DEF Over
    <3>3. Sees(c, "gone", "done", text[c], "none")'
      BY <3>1, <3>2 DEF Sees, ClientIs, ThreadIs, Held, End
    <3> QED BY <2>1, <3>1, <3>3 DEF Sees, Conv!MeetsEnd
  <2> QED
    BY <1>1, <2>2, <2>3 DEF DeleteFrees, DeleteMisses, DeleteMoves, DeleteCounts, Looks
<1>2. CASE tpc[c] \notin {"recv", "reply", "spin"}
  <2>1. DeleteFrees(c) \/ DeleteMisses(c) \/ DeleteMoves(c) \/ DeleteCounts(c)
    BY <1>2 DEF ThreadReceives, ThreadSpins, ThreadReplies, ThreadMeetsEnd, Serves
  <2>2. /\ UNCHANGED <<cpc[c], text[c], conn[c], request[c], asked[c], answer[c]>>
        /\ tpc'[c] \notin {"recv", "reply", "spin"}
    BY <2>1 DEF DeleteFrees, DeleteMisses, DeleteMoves, DeleteCounts, TypeOK
  <2>3. UNCHANGED <<ClientIs(c), ThreadIs(c), Held(c), End(c)>>
    BY <1>2, <2>2 DEF ClientIs, ThreadIs, Held, End, Over
  <2> QED BY <2>2, <2>3 DEF Conv!vars
<1> QED BY <1>1, <1>2

(* A step of a client program: one that is turned away is like one whose   *)
(* server goes down.                                                       *)
LEMMA ClientSeen ==
  ASSUME RegistryInv, Connected, NEW c \in Clients,
         \/ ClientConnects(c) \/ ClientRefused(c) \/ ClientAsks(c) \/ ClientTakes(c)
         \/ ClientQuits(c) \/ ClientKilled(c) \/ ClientCutOff(c)
  PROVE  [Conv(c)!Next]_(Conv(c)!vars)
<1> TypeOK /\ Waiting /\ OneMessage BY DEF RegistryInv
<1> USE NothingElse DEF Conv!Next
<1>1. tpc'[c] = tpc[c] /\ text'[c] = text[c]
  BY DEF ClientConnects, ClientRefused, ClientAsks, ClientTakes, ClientQuits, ClientKilled,
     ClientCutOff
<1>2. CASE cpc[c] = "start"
  <2>1. /\ conn[c] = "none" /\ tpc[c] = "none" /\ text[c] = None /\ request[c] = None
        /\ asked[c] = None /\ answer[c] = None /\ UNCHANGED <<request[c], asked[c], answer[c]>>
    BY <1>2 DEF Connected, Waiting, OneMessage, TypeOK, ClientConnects, ClientRefused, ClientAsks,
       ClientTakes, ClientQuits, ClientKilled, ClientCutOff
  <2>2. Sees(c, "ready", "recv", None, "open")
    BY <1>2, <2>1 DEF Sees, ClientIs, ThreadIs, Held, End, Over
  <2>3. CASE ClientConnects(c)
    <3>1. cpc'[c] = "ready" /\ conn'[c] = "backlog"
      BY <2>3 DEF ClientConnects, TypeOK
    <3>2. Sees(c, "ready", "recv", None, "open")'
      BY <1>1, <2>1, <3>1 DEF Sees, ClientIs, ThreadIs, Held, End, Over
    <3> QED BY <2>1, <2>2, <3>2 DEF Sees, Conv!vars
  <2>4. CASE ClientRefused(c)
    <3>1. cpc'[c] = "gone" /\ conn'[c] = "none"
      BY <2>1, <2>4 DEF ClientRefused, TypeOK
    <3>2. Sees(c, "gone", "done", None, "none")'
      BY <1>1, <2>1, <3>1 DEF Sees, ClientIs, ThreadIs, Held, End, Over
    <3> QED BY <2>1, <2>2, <3>2 DEF Sees, Conv!ServerKilled, Conv!Down
  <2> QED
    BY <1>2, <2>3, <2>4 DEF ClientAsks, ClientTakes, ClientQuits, ClientKilled, ClientCutOff
<1>3. CASE cpc[c] # "start"
  <2>1. ClientAsks(c) \/ ClientTakes(c) \/ ClientQuits(c) \/ ClientKilled(c) \/ ClientCutOff(c)
    BY <1>3 DEF ClientConnects, ClientRefused
  <2>2. /\ cpc[c] \in {"ready", "await"} /\ conn[c] # "none"
        /\ conn'[c] \in {conn[c], "reset"} /\ cpc'[c] # "start"
    BY <2>1 DEF ClientAsks, ClientTakes, ClientQuits, ClientKilled, ClientCutOff, Connected, TypeOK
  <2>3. ThreadIs(c)' = ThreadIs(c) /\ Held(c)' = Held(c) /\ ClientIs(c) = cpc[c]
        /\ ClientIs(c)' = cpc'[c]
    BY <1>1, <2>2 DEF ThreadIs, Held, ClientIs, Over
  <2>4. /\ conn'[c] = conn[c] => End(c)' = End(c)
        /\ conn'[c] = "reset" => End(c)' = "reset"
    BY <2>2 DEF End, Over
  <2>5. CASE ClientAsks(c)
    <3>1. PICK m \in Messages : asked' = [asked EXCEPT ![c] = m] /\ request' = [request EXCEPT ![c] = m]
      BY <2>5 DEF ClientAsks
    <3>2. Conv(c)!Asks(m)
      BY <2>3, <2>4, <2>5, <3>1 DEF ClientAsks, Conv!Asks, TypeOK
    <3> QED BY <3>2
  <2>6. CASE ClientTakes(c)
    BY <2>3, <2>4, <2>6 DEF ClientTakes, Conv!Takes, TypeOK
  <2>7. CASE ClientQuits(c)
    BY <2>3, <2>4, <2>7 DEF ClientQuits, Conv!Quits, TypeOK
  <2>8. CASE ClientKilled(c)
    <3>1. tpc[c] = "reply" => ThreadIs(c) = "reply"
      BY <2>2 DEF ThreadIs, Over
    <3>2. /\ cpc'[c] = "gone" /\ asked'[c] = None /\ answer'[c] = None /\ request'[c] = request[c]
          /\ \/ answer[c] = None /\ conn'[c] = conn[c]
             \/ (answer[c] # None \/ tpc[c] = "reply") /\ conn'[c] = "reset"
      BY <2>8 DEF ClientKilled, TypeOK
    <3> QED BY <2>2, <2>3, <2>4, <3>1, <3>2 DEF Conv!Killed
  <2>9. CASE ClientCutOff(c)
    BY <2>3, <2>4, <2>9 DEF ClientCutOff, Conv!CutOff, TypeOK
  <2> QED BY <2>1, <2>5, <2>6, <2>7, <2>8, <2>9
<1> QED BY <1>2, <1>3

(* accept begins to serve a connection; the registry is full, or a thread  *)
(* is started.                                                             *)
LEMMA AcceptSeen ==
  ASSUME RegistryInv, Connected, ListenerTurnsAway \/ ListenerAdmits, NEW c \in Clients
  PROVE  UNCHANGED Conv(c)!vars
<1> TypeOK /\ Waiting /\ OneMessage BY DEF RegistryInv
<1>1. PICK h \in Clients : h = Head(lq) /\ h = lq[1] /\ 1 \in 1..Len(lq)
  BY DEF ListenerTurnsAway, ListenerAdmits, Welcomes, TypeOK
<1>2. /\ UNCHANGED <<cpc, text, request, asked, answer>>
      /\ conn' = [conn EXCEPT ![h] = "open"] /\ tpc' \in {tpc, [tpc EXCEPT ![h] = "recv"]}
  BY <1>1 DEF ListenerTurnsAway, ListenerAdmits, Admits
<1>3. conn[h] = "backlog" /\ tpc[h] = "none" /\ cpc[h] # "start"
  BY <1>1 DEF Connected, Waiting
<1>4. CASE c = h
  <2>1. conn'[c] = "open" /\ tpc'[c] \in {"none", "recv"}
    BY <1>2, <1>3, <1>4 DEF TypeOK
  <2>2. UNCHANGED <<ClientIs(c), ThreadIs(c), Held(c), End(c)>>
    BY <1>2, <1>3, <1>4, <2>1 DEF ClientIs, ThreadIs, Held, End, Over
  <2> QED BY <1>2, <2>2 DEF Conv!vars
<1>5. CASE c # h
  BY <1>2, <1>5, Unseen DEF TypeOK
<1> QED BY <1>4, <1>5

(* A step of the server or of a client is a step of one conversation, and  *)
(* of no other, or ends them all.                                          *)
LEMMA ConversationsStep ==
  ASSUME RegistryInv, Connected, [Next]_vars, NEW c \in Clients
  PROVE  [Conv(c)!Next]_(Conv(c)!vars)
<1> TypeOK BY DEF RegistryInv
<1>1. CASE Down
  BY <1>1, DownSeen DEF Conv!Next
<1>2. CASE ListenerTurnsAway \/ ListenerAdmits
  BY <1>2, AcceptSeen
<1>3. ASSUME NEW d \in Clients,
             \/ ThreadReceives(d) \/ ThreadSpins(d) \/ ThreadReplies(d) \/ ThreadMeetsEnd(d)
             \/ DeleteFrees(d) \/ DeleteMisses(d) \/ DeleteMoves(d) \/ DeleteCounts(d)
      PROVE  [Conv(c)!Next]_(Conv(c)!vars)
  <2>1. CASE c = d
    BY <1>3, <2>1, ThreadSeen
  <2>2. CASE c # d
    <3>1. UNCHANGED <<cpc[c], tpc[c], text[c], conn[c], request[c], asked[c], answer[c]>>
      BY <1>3, <2>2 DEF ThreadReceives, ThreadSpins, ThreadReplies, ThreadMeetsEnd, DeleteFrees,
         DeleteMisses, DeleteMoves, DeleteCounts, TypeOK
    <3> QED BY <3>1, Unseen
  <2> QED BY <2>1, <2>2
<1>4. ASSUME NEW d \in Clients,
             \/ ClientConnects(d) \/ ClientRefused(d) \/ ClientAsks(d) \/ ClientTakes(d)
             \/ ClientQuits(d) \/ ClientKilled(d) \/ ClientCutOff(d)
      PROVE  [Conv(c)!Next]_(Conv(c)!vars)
  <2>1. CASE c = d
    BY <1>4, <2>1, ClientSeen
  <2>2. CASE c # d
    <3>1. UNCHANGED <<cpc[c], tpc[c], text[c], conn[c], request[c], asked[c], answer[c]>>
      BY <1>4, <2>2 DEF ClientConnects, ClientRefused, ClientAsks, ClientTakes, ClientQuits,
         ClientKilled, ClientCutOff, TypeOK
    <3> QED BY <3>1, Unseen
  <2> QED BY <2>1, <2>2
<1>5. CASE UNCHANGED <<cpc, tpc, text, conn, request, asked, answer>>
  BY <1>5, Unseen
<1> QED
  BY <1>1, <1>2, <1>3, <1>4, <1>5, StepCases
     DEF ListenerLoads, ListenerStores, ListenerCounts, ListenerReleases, DeletePasses

(* Refinement: whatever becomes of the registry, each client has one       *)
(* conversation, over when its connection is closed and never before.      *)
THEOREM RegistryIsConversations == Spec => ConversationRefinement
<1>1. Init => \A c \in Clients : Conv(c)!Init
  BY ConversationsInit
<1>2. RegistryInv /\ Connected /\ [Next]_vars
        => [\A c \in Clients : [Conv(c)!Next]_(Conv(c)!vars)]_vars
  BY ConversationsStep
<1> QED
  BY <1>1, <1>2, ConnectedInvariant, PTL DEF Spec, ConversationRefinement
=============================================================================
