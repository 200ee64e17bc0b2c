------------------------------- MODULE Framing -------------------------------
(***************************************************************************)
(* How a message crosses a TCP connection (send_message, recv_message of   *)
(* all four tasks): its length in four bytes, then its text, by two calls  *)
(* of send.  The receiver reads the length, then the text in a loop, in    *)
(* whatever pieces recv returns.  One client talks to one thread of a      *)
(* server; either process may be killed between any two calls.  The thread *)
(* waits for a length, as in tasks 1, 2 and 4; the poller of task 3 comes  *)
(* back for it and misses the end of the stream (RequestQueue).            *)
(*                                                                         *)
(* A stream is the sequence of lengths and bytes of text that are on their *)
(* way or in the buffer of the receiver.  The four bytes of a length are   *)
(* never split: they are sent by one call over the loopback device         *)
(* (SERVER_IP), which carries them in one segment.                         *)
(*                                                                         *)
(* A connection that ends: a client that leaves sends a FIN, and the       *)
(* server reads what was sent before and then 0.  A client killed with     *)
(* something unread sends an RST, and so does the kernel of a client that  *)
(* is gone when the server sends it something.  An RST takes a while.      *)
(***************************************************************************)
EXTENDS Naturals, Sequences

CONSTANTS
  Tags,        \* what tells two lines of one length apart
  Sizes,       \* lengths of lines a user types
  PrefixSize,  \* strlen("Server ")
  Header,      \* marks a length in a stream
  Server,      \* the text the server puts in front
  Half,        \* a message that was cut off, as Conversation sees it
  None         \* no message

Lines == Tags \X Sizes
Size(m) == m[2]
Text(m) == [k \in 1..Size(m) |-> <<m, k>>]
Reply(t) == [k \in 1..PrefixSize |-> <<Server, k>>] \o t   \* edit_message

ASSUME FramingAssumption ==
  /\ Sizes \subseteq Nat /\ PrefixSize \in Nat \ {0}
  /\ Header # Server /\ Header \notin Lines /\ Server \notin Lines
  /\ None \notin Lines \cup {Half}
  /\ \A m \in Lines : Text(m) \notin {Half, None} /\ <<"Server", Text(m)>> # None

VARIABLES
  cpc,       \* control of the client
  line,      \* the line the user typed last
  cwant,     \* message_len of the client's recv_message
  cgot,      \* its message: the bytes received so far
  spc,       \* control of the server's thread
  swant,     \* message_len of the server's recv_message
  sgot,      \* its message
  conn,      \* the client's end, as the server finds it
  toServer,  \* the stream to the server
  toClient   \* the stream to the client

clientVars == <<cpc, line, cwant, cgot>>
serverVars == <<spc, swant, sgot>>
vars == <<clientVars, serverVars, conn, toServer, toClient>>

Init ==
  /\ cpc = "type" /\ line = None /\ cwant = 0 /\ cgot = <<>>
  /\ spc = "length_in" /\ swant = 0 /\ sgot = <<>>
  /\ conn = "open" /\ toServer = <<>> /\ toClient = <<>>

Dead == spc = "dead"
-----------------------------------------------------------------------------
(* The client: process_input, send_message, recv_message.                  *)

ClientTypes ==
  /\ cpc = "type"
  /\ line' \in Lines /\ cpc' = "length_out"
  /\ UNCHANGED <<cwant, cgot, serverVars, conn, toServer, toClient>>

(* What is sent to a process that has ended is lost. *)
ToServer(s) == toServer' = IF Dead THEN <<>> ELSE toServer \o s

ClientSendsLength ==
  /\ cpc = "length_out"
  /\ ToServer(<<<<Header, Size(line)>>>>) /\ cpc' = "text_out"
  /\ UNCHANGED <<line, cwant, cgot, serverVars, conn, toClient>>

ClientSendsText ==
  /\ cpc = "text_out"
  /\ ToServer(Text(line)) /\ cpc' = "length_in"
  /\ UNCHANGED <<line, cwant, cgot, serverVars, conn, toClient>>

(* SIGPIPE or print_error. *)
ClientSendFails ==
  /\ cpc \in {"length_out", "text_out"} /\ Dead
  /\ cpc' = "gone" /\ toClient' = <<>>
  /\ UNCHANGED <<line, cwant, cgot, serverVars, conn, toServer>>

ClientReadsLength ==
  /\ cpc = "length_in" /\ toClient # <<>>
  /\ cwant' = Head(toClient)[2] /\ cgot' = <<>>
  /\ toClient' = Tail(toClient) /\ cpc' = "text_in"
  /\ UNCHANGED <<line, serverVars, conn, toServer>>

(* Mutant of ClientReadsText: recv is called once. *)
ClientReadsOnce ==
  /\ cpc = "text_in"
  /\ \E k \in 1..Len(toClient) :
       /\ k <= cwant - Len(cgot)
       /\ cgot' = cgot \o SubSeq(toClient, 1, k)
       /\ toClient' = SubSeq(toClient, k + 1, Len(toClient))
  /\ cpc' = "type"
  /\ UNCHANGED <<line, cwant, serverVars, conn, toServer>>

(* One turn of the loop over the text.  The last one prints the reply. *)
ClientReadsText ==
  /\ cpc = "text_in"
  /\ \E k \in 1..Len(toClient) :
       /\ k <= cwant - Len(cgot)
       /\ cgot' = cgot \o SubSeq(toClient, 1, k)
       /\ toClient' = SubSeq(toClient, k + 1, Len(toClient))
  /\ cpc' = IF Len(cgot') = cwant THEN "type" ELSE "text_in"
  /\ UNCHANGED <<line, cwant, serverVars, conn, toServer>>

(* recv returns 0 or fails where a length should come: the client exits. *)
ClientMeetsEnd ==
  /\ cpc = "length_in" /\ toClient = <<>> /\ Dead
  /\ cpc' = "gone"
  /\ UNCHANGED <<line, cwant, cgot, serverVars, conn, toServer, toClient>>

(* Where text should come it returns 0 for ever. *)
ClientSpins ==
  /\ cpc = "text_in" /\ toClient = <<>> /\ Dead
  /\ cpc' = "spin"
  /\ UNCHANGED <<line, cwant, cgot, serverVars, conn, toServer, toClient>>

(* fgets meets the end of input. *)
ClientQuits ==
  /\ cpc = "type"
  /\ cpc' = "gone" /\ conn' = "closed"
  /\ UNCHANGED <<line, cwant, cgot, serverVars, toServer, toClient>>

ClientKilled ==
  /\ cpc \notin {"spin", "gone"}
  /\ cpc' = "gone" /\ toClient' = <<>>
  /\ conn' = IF toClient = <<>> THEN "closed" ELSE "resetting"
  /\ UNCHANGED <<line, cwant, cgot, serverVars, toServer>>
-----------------------------------------------------------------------------
(* The server: recv_message, send_message.                                 *)

(* The process ends, by a signal or by exit. *)
Dies ==
  /\ spc' = "dead" /\ toServer' = <<>>
  /\ UNCHANGED <<clientVars, swant, sgot, conn, toClient>>

ServerKilled == spc \notin {"done", "dead"} /\ Dies

(* Mutant of ServerReadsLength: total_received keeps its last value. *)
ServerReadsLengthOnly ==
  /\ spc = "length_in" /\ toServer # <<>>
  /\ swant' = Head(toServer)[2]
  /\ toServer' = Tail(toServer)
  /\ spc' = IF swant' <= Len(sgot) THEN "length_out" ELSE "text_in"
  /\ UNCHANGED <<clientVars, sgot, conn, toClient>>

ServerReadsLength ==
  /\ spc = "length_in" /\ toServer # <<>>
  /\ swant' = Head(toServer)[2] /\ sgot' = <<>>
  /\ toServer' = Tail(toServer)
  /\ spc' = IF swant' = 0 THEN "length_out" ELSE "text_in"
  /\ UNCHANGED <<clientVars, conn, toClient>>

(* Mutant of ServerReadsText: the loop runs once more at its end. *)
ServerReadsTextPast ==
  /\ spc = "text_in"
  /\ \E k \in 1..Len(toServer) :
       /\ k <= swant - Len(sgot)
       /\ sgot' = sgot \o SubSeq(toServer, 1, k)
       /\ toServer' = SubSeq(toServer, k + 1, Len(toServer))
  /\ UNCHANGED <<clientVars, spc, swant, conn, toClient>>

(* One turn of the loop over the text. *)
ServerReadsText ==
  /\ spc = "text_in"
  /\ \E k \in 1..Len(toServer) :
       /\ k <= swant - Len(sgot)
       /\ sgot' = sgot \o SubSeq(toServer, 1, k)
       /\ toServer' = SubSeq(toServer, k + 1, Len(toServer))
  /\ spc' = IF Len(sgot') = swant THEN "length_out" ELSE "text_in"
  /\ UNCHANGED <<clientVars, swant, conn, toClient>>

(* recv returns 0: a FIN has come and everything before it was read. *)
AtEnd == toServer = <<>> /\ conn \in {"closed", "refusing", "broken"}

(* Mutant of ServerMeetsEnd: the end of the stream is not looked for. *)
ServerIgnoresEnd == spc = "length_in" /\ AtEnd /\ UNCHANGED vars

ServerMeetsEnd ==
  /\ spc = "length_in" /\ AtEnd
  /\ spc' = "done"
  /\ UNCHANGED <<clientVars, swant, sgot, conn, toServer, toClient>>

ServerSpins ==
  /\ spc = "text_in" /\ AtEnd
  /\ spc' = "spin"
  /\ UNCHANGED <<clientVars, swant, sgot, conn, toServer, toClient>>

(* recv fails with ECONNRESET. *)
ServerReadFails ==
  /\ spc \in {"length_in", "text_in"} /\ toServer = <<>> /\ conn = "reset"
  /\ Dies

(* To a client that is gone the bytes are lost, and draw an RST.           *)
ToClient(s) ==
  /\ toClient' = IF conn = "open" THEN toClient \o s ELSE toClient
  /\ conn' = IF conn = "closed" THEN "refusing" ELSE conn

Sendable == conn \notin {"broken", "reset"}

(* Mutant of ServerSendsLength: the terminator is counted. *)
ServerSendsLongerLength ==
  /\ spc = "length_out" /\ Sendable
  /\ ToClient(<<<<Header, Len(Reply(sgot)) + 1>>>>) /\ spc' = "text_out"
  /\ UNCHANGED <<clientVars, swant, sgot, toServer>>

ServerSendsLength ==
  /\ spc = "length_out" /\ Sendable
  /\ ToClient(<<<<Header, Len(Reply(sgot))>>>>) /\ spc' = "text_out"
  /\ UNCHANGED <<clientVars, swant, sgot, toServer>>

(* Mutant of ServerSendsText: the prefix is forgotten. *)
ServerSendsBare ==
  /\ spc = "text_out" /\ Sendable
  /\ ToClient(sgot) /\ spc' = "length_in"
  /\ UNCHANGED <<clientVars, swant, sgot, toServer>>

ServerSendsText ==
  /\ spc = "text_out" /\ Sendable
  /\ ToClient(Reply(sgot)) /\ spc' = "length_in"
  /\ UNCHANGED <<clientVars, swant, sgot, toServer>>

(* SIGPIPE or ECONNRESET. *)
ServerSendFails == spc \in {"length_out", "text_out"} /\ ~Sendable /\ Dies

ResetArrives ==
  /\ conn \in {"refusing", "resetting"}
  /\ conn' = IF conn = "refusing" THEN "broken" ELSE "reset"
  /\ UNCHANGED <<clientVars, serverVars, toServer, toClient>>
-----------------------------------------------------------------------------
Thread ==
  \/ ServerReadsLength \/ ServerReadsText \/ ServerMeetsEnd \/ ServerSpins \/ ServerReadFails
  \/ ServerSendsLength \/ ServerSendsText \/ ServerSendFails
Client ==
  \/ ClientSendsLength \/ ClientSendsText \/ ClientSendFails
  \/ ClientReadsLength \/ ClientReadsText \/ ClientMeetsEnd \/ ClientSpins

Next ==
  \/ Thread \/ Client \/ ResetArrives
  \/ ClientTypes \/ ClientQuits \/ ClientKilled \/ ServerKilled

Spec == Init /\ [][Next]_vars

(* Both processes are scheduled and segments arrive; users are free. *)
FairSpec == Spec /\ WF_vars(Thread) /\ WF_vars(Client) /\ WF_vars(ResetArrives)
-----------------------------------------------------------------------------
(* Properties.                                                             *)

Item == ({Header, Server} \cup Lines) \X Nat

TypeOK ==
  /\ cpc \in {"type", "length_out", "text_out", "length_in", "text_in", "spin", "gone"}
  /\ line \in Lines \cup {None} /\ (line = None => cpc \in {"type", "gone"})
  /\ cwant \in Nat /\ cgot \in Seq(Item) /\ (cpc = "text_in" => Len(cgot) < cwant)
  /\ spc \in {"length_in", "text_in", "length_out", "text_out", "spin", "done", "dead"}
  /\ swant \in Nat /\ sgot \in Seq(Item) /\ (spc = "text_in" => Len(sgot) < swant)
  /\ conn \in {"open", "closed", "refusing", "broken", "resetting", "reset"}
  /\ toServer \in Seq(Item) /\ toClient \in Seq(Item)

Begins(s, t) == Len(s) <= Len(t) /\ s = SubSeq(t, 1, Len(s))

(* Neither end loses its place in the stream: where it reads a length the  *)
(* length of the current message comes, and where it reads text, a part of *)
(* that text and nothing behind it, however recv cuts the stream.          *)
InStep ==
  /\ toServer # <<>> /\ spc = "length_in" =>
       Head(toServer) = <<Header, Size(line)>> /\ Begins(Tail(toServer), Text(line))
  /\ spc = "text_in" => swant = Size(line) /\ Begins(sgot \o toServer, Text(line))
  /\ spc \in {"length_out", "text_out"} => toServer = <<>>
  /\ toClient # <<>> /\ cpc # "text_in" =>
       /\ cpc \in {"text_out", "length_in"}
       /\ Head(toClient) = <<Header, Len(Reply(Text(line)))>>
       /\ Begins(Tail(toClient), Reply(Text(line)))
  /\ cpc = "text_in" =>
       cwant = Len(Reply(Text(line))) /\ Begins(cgot \o toClient, Reply(Text(line)))

(* recv_message, "string (message) if successful": what it returns at      *)
(* either end is, byte for byte, what the other end has sent.              *)
MessagesAreWhole ==
  /\ spc \in {"length_out", "text_out"} => sgot = Text(line)
  /\ cpc = "type" /\ line # None => cgot = Reply(Text(line))

(* What Conversation sees: a message is asked when all of it is under way, *)
(* and answered when all of the reply is.                                  *)
Left == Dead \/ cpc \in {"spin", "gone"}
Sent == cpc \in {"length_in", "text_in"} \/ (cpc = "text_out" /\ Size(line) = 0)

ClientIs == IF Left THEN "gone" ELSE IF Sent THEN "await" ELSE "ready"
ThreadIs == CASE spc \in {"length_in", "text_in"} -> "recv"
              [] spc \in {"length_out", "text_out"} -> "reply"
              [] spc = "spin" -> "spin"
              [] OTHER -> "done"
Held == IF spc \in {"length_out", "text_out"} THEN sgot ELSE None
End == IF spc \in {"done", "dead"} THEN "none"
       ELSE IF conn \in {"resetting", "reset"} THEN "reset" ELSE "open"
Awaited == IF ~Left /\ Sent THEN Text(line) ELSE None

(* The text on its way to the server, and how much of it there will be.    *)
Pending == spc = "text_in" \/ (spc = "length_in" /\ toServer # <<>>)
Body == IF spc = "text_in" THEN sgot \o toServer ELSE Tail(toServer)
BodySize == IF spc = "text_in" THEN swant ELSE Head(toServer)[2]

Request == IF spc = "spin" THEN Half
           ELSE IF ~Pending THEN None
           ELSE IF Len(Body) = BodySize THEN Body
           ELSE IF cpc = "gone" THEN Half ELSE None

(* The same for the reply on its way to the client.                        *)
Coming == cpc = "text_in" \/ toClient # <<>>
ReplyBody == IF cpc = "text_in" THEN cgot \o toClient ELSE Tail(toClient)
ReplySize == IF cpc = "text_in" THEN cwant ELSE Head(toClient)[2]

Answer == IF ~Left /\ Coming /\ Len(ReplyBody) = ReplySize
            THEN <<"Server", SubSeq(ReplyBody, PrefixSize + 1, ReplySize)>> ELSE None

Whole == INSTANCE Conversation WITH
  Messages <- {Text(m) : m \in Lines}, cpc <- ClientIs, tpc <- ThreadIs, text <- Held,
  conn <- End, request <- Request, asked <- Awaited, answer <- Answer

(* The calls of send and recv implement a conversation of whole messages:  *)
(* the grain at which the other modules see TCP leaves nothing out.        *)
ConversationRefinement == Whole!Spec

(* Every moment of a message on its way, in the eyes of Conversation: the  *)
(* line a client waits on is whole in the stream, whole in the thread's    *)
(* hands, or whole in the reply, and never in two of them.                 *)
OnePlace == Whole!OnePlace

(* The calls of send and recv keep the promise of the echo service.        *)
EchoRefinement == Whole!EchoRefinement

(* A line that was sent is answered, unless one of the processes is killed. *)
LineAnswered == cpc = "length_in" ~> cpc \in {"type", "gone"} \/ Dead

(* A thread whose client has left or was killed does not wait for it: it   *)
(* ends, or loops over half a message.                                     *)
ThreadEnds == cpc = "gone" ~> spc \in {"done", "dead", "spin"}
=============================================================================
