---------------------------- MODULE Conversation ----------------------------
(***************************************************************************)
(* One TCP conversation of a client program with the thread of a server    *)
(* that serves it, at the grain of whole messages: what is on its way is a *)
(* message or none, and a reply arrives at once.  It is the grain at which *)
(* the modules of the four tasks see TCP.  Framing shows that it is right  *)
(* for the send and recv calls the programs really make.                   *)
(***************************************************************************)
CONSTANTS
  Messages,  \* lines a user may type
  Half,      \* the length of a message whose text never follows
  None       \* no message

VARIABLES
  cpc,       \* control of the client: "ready", "await", "gone"
  tpc,       \* control of the thread: "recv", "reply", "spin", "cancelled", "done"
  text,      \* the message the thread has read and not answered
  conn,      \* the server's end of the connection: "open", "reset", "none"
  request,   \* what the server has not read: a message, Half or None
  asked,     \* the message the client waits on
  answer     \* the reply on its way

vars == <<cpc, tpc, text, conn, request, asked, answer>>

Prefixed(m) == <<"Server", m>>   \* edit_message

Init ==
  /\ cpc = "ready" /\ tpc = "recv" /\ conn = "open"
  /\ text = None /\ request = None /\ asked = None /\ answer = None

(* The server's end is closed with its process; the client finds the       *)
(* connection ended.  A client that is turned away at connect is in the    *)
(* same position.                                                          *)
Down ==
  /\ tpc' = "done" /\ cpc' = "gone" /\ conn' = "none"
  /\ text' = None /\ request' = None /\ asked' = None /\ answer' = None

ServerKilled == tpc # "done" /\ Down

(* Another thread that calls exit cancels this one and never gets to the   *)
(* end of the process (task 2).                                            *)
Cancelled ==
  /\ tpc \in {"recv", "reply", "spin"}
  /\ tpc' = "cancelled"
  /\ UNCHANGED <<cpc, text, conn, request, asked, answer>>

Receives ==
  /\ tpc = "recv" /\ request \notin {Half, None}
  /\ text' = request /\ request' = None /\ tpc' = "reply"
  /\ UNCHANGED <<cpc, conn, asked, answer>>

(* The text that was announced does not come: recv returns 0 for ever. *)
Spins ==
  /\ tpc = "recv" /\ request = Half
  /\ tpc' = "spin"
  /\ UNCHANGED <<cpc, text, conn, request, asked, answer>>

(* A client that is gone gets nothing. *)
Replies ==
  /\ tpc = "reply"
  /\ answer' = IF cpc = "gone" THEN None ELSE Prefixed(text)
  /\ text' = None /\ tpc' = "recv"
  /\ UNCHANGED <<cpc, conn, request, asked>>

(* send raises SIGPIPE or fails with ECONNRESET. *)
ReplyFails == tpc = "reply" /\ cpc = "gone" /\ Down

(* recv fails with ECONNRESET. *)
ReadFails == tpc = "recv" /\ conn = "reset" /\ Down

(* recv returns 0 and the connection is closed. *)
MeetsEnd ==
  /\ tpc = "recv" /\ request = None /\ cpc = "gone" /\ conn = "open"
  /\ tpc' = "done" /\ conn' = "none"
  /\ UNCHANGED <<cpc, text, request, asked, answer>>

Asks(m) ==
  /\ cpc = "ready"
  /\ asked' = m /\ request' = m /\ cpc' = "await"
  /\ UNCHANGED <<tpc, text, conn, answer>>

Takes ==
  /\ cpc = "await" /\ answer # None
  /\ asked' = None /\ answer' = None /\ cpc' = "ready"
  /\ UNCHANGED <<tpc, text, conn, request>>

Quits ==
  /\ cpc = "ready" /\ cpc' = "gone"
  /\ UNCHANGED <<tpc, text, conn, request, asked, answer>>

(* The client is killed: its kernel sends an RST instead of a FIN when a   *)
(* reply, or the length of one that is being sent, lies unread.            *)
Killed ==
  /\ cpc \in {"ready", "await"} /\ cpc' = "gone"
  /\ \/ answer = None /\ UNCHANGED conn
     \/ (answer # None \/ tpc = "reply") /\ conn' = "reset"
  /\ asked' = None /\ answer' = None
  /\ UNCHANGED <<tpc, text, request>>

(* The client is killed between the two sends of its message. *)
CutOff ==
  /\ cpc = "ready" /\ cpc' = "gone"
  /\ request' = Half
  /\ UNCHANGED <<tpc, text, conn, asked, answer>>

Next ==
  \/ Receives \/ Spins \/ Replies \/ ReplyFails \/ ReadFails \/ MeetsEnd
  \/ ServerKilled \/ Cancelled
  \/ Takes \/ Quits \/ Killed \/ CutOff
  \/ \E m \in Messages : Asks(m)

Spec == Init /\ [][Next]_vars
-----------------------------------------------------------------------------
(* Properties.                                                             *)

(* What the constants must be for a message to be told from its absence.   *)
ConversationConstants ==
  /\ None \notin Messages \cup {Half} /\ Half \notin Messages
  /\ \A m \in Messages : Prefixed(m) # None

(* The message a client waits on is in exactly one place: on its way to    *)
(* the server, in the hands of the thread, or in a reply on its way back.  *)
(* Nothing of it is left anywhere when the client asks again.              *)
OnePlace ==
  /\ cpc = "ready" => request = None /\ text = None /\ answer = None
  /\ cpc = "await" =>
       /\ asked \in Messages
       /\ \/ request = asked /\ text = None /\ answer = None
          \/ request = None /\ text = asked /\ answer = None
          \/ request = None /\ text = None /\ answer = Prefixed(asked)

(* A conversation keeps the promise of the echo service to its client.     *)
Echo == INSTANCE EchoService WITH
  Clients <- {"client"},
  asked <- [c \in {"client"} |-> asked], answer <- [c \in {"client"} |-> answer]
EchoRefinement == Echo!EchoSpec
=============================================================================
