---------------------------- MODULE EchoService ----------------------------
(***************************************************************************)
(* What all four servers of the repository promise a client, whatever the  *)
(* pattern behind them: a client that sends a message gets that message    *)
(* back with the prefix "Server", exactly once, and never the answer to a  *)
(* message of another client or to an earlier message of its own.          *)
(*                                                                         *)
(* The specification knows only the two ends: what each client is waiting  *)
(* for and what is on its way to it.  Threads, queues, descriptors and     *)
(* pools are the business of the modules that implement it.                *)
(***************************************************************************)
CONSTANTS
  Clients,   \* client processes
  Messages,  \* lines a user may type
  None       \* "no message"

VARIABLES
  asked,     \* asked[c]: the message client c has sent and is waiting on
  answer     \* answer[c]: the reply on its way to client c

echoVars == <<asked, answer>>

(* edit_message: the reply is the message with the prefix in front of it. *)
Prefixed(m) == <<"Server", m>>

EchoInit ==
  /\ asked  = [c \in Clients |-> None]
  /\ answer = [c \in Clients |-> None]

(* A client sends a message; it never has two of them outstanding. *)
Ask(c, m) ==
  /\ asked[c] = None
  /\ asked' = [asked EXCEPT ![c] = m]
  /\ UNCHANGED answer

(* Some part of the server answers the message c is waiting on. *)
Answer(c) ==
  /\ asked[c] # None
  /\ answer[c] = None
  /\ answer' = [answer EXCEPT ![c] = Prefixed(asked[c])]
  /\ UNCHANGED asked

(* The client reads the reply and may ask again. *)
Take(c) ==
  /\ answer[c] # None
  /\ asked'  = [asked EXCEPT ![c] = None]
  /\ answer' = [answer EXCEPT ![c] = None]

(* The conversations of the clients in C end: the clients exit, or the     *)
(* server goes down under them.  What was under way is never delivered.    *)
Abandon(C) ==
  /\ asked'  = [c \in Clients |-> IF c \in C THEN None ELSE asked[c]]
  /\ answer' = [c \in Clients |-> IF c \in C THEN None ELSE answer[c]]

EchoNext ==
  \/ \E c \in Clients, m \in Messages : Ask(c, m)
  \/ \E c \in Clients : Answer(c) \/ Take(c)
  \/ \E C \in SUBSET Clients : Abandon(C)

EchoSpec == EchoInit /\ [][EchoNext]_echoVars
=============================================================================
