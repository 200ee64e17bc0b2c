------------------------- MODULE ConversationProofs -------------------------
(***************************************************************************)
(* A conversation of whole messages keeps each message in one place, and   *)
(* so keeps the promise of the echo service to its client.  The constants  *)
(* are as ConversationConstants says; every module that uses Conversation  *)
(* assumes as much of its own.                                             *)
(***************************************************************************)
EXTENDS Conversation, TLAPS

TypeOK ==
  /\ cpc \in {"ready", "await", "gone"}
  /\ tpc \in {"recv", "reply", "spin", "cancelled", "done"}
  /\ conn \in {"open", "reset", "none"}
  /\ text \in Messages \cup {None} /\ request \in Messages \cup {Half, None}
  /\ asked \in Messages \cup {None} /\ (asked # None <=> cpc = "await")
  /\ answer \in {Prefixed(m) : m \in Messages} \cup {None}

(* The thread holds a message when it is about to reply, or was cancelled  *)
(* then; a client that is gone is owed nothing.                            *)
Hands ==
  /\ tpc = "reply" => text # None
  /\ tpc \in {"recv", "spin", "done"} => text = None
  /\ cpc = "gone" => answer = None
  /\ tpc = "spin" => request = Half
  /\ request = Half => cpc = "gone"

ConvInv == TypeOK /\ Hands /\ OnePlace

LEMMA ConvInvInitially == ASSUME ConversationConstants, Init PROVE ConvInv
  BY DEF Init, ConvInv, TypeOK, Hands, OnePlace, ConversationConstants

LEMMA ConvInvStep ==
  ASSUME ConversationConstants, ConvInv, [Next]_vars
  PROVE  ConvInv'
<1> USE DEF ConversationConstants, ConvInv, TypeOK, Hands, OnePlace
<1>1. ASSUME Down PROVE ConvInv'
  BY <1>1 DEF Down
<1>2. CASE ServerKilled \/ ReplyFails \/ ReadFails
  BY <1>1, <1>2 DEF ServerKilled, ReplyFails, ReadFails
<1>3. CASE Receives
  BY <1>3 DEF Receives
<1>4. CASE Spins
  BY <1>4 DEF Spins
<1>5. CASE Replies
  BY <1>5 DEF Replies
<1>6. CASE MeetsEnd
  BY <1>6 DEF MeetsEnd
<1>7. CASE Cancelled
  BY <1>7 DEF Cancelled
<1>8. CASE Takes
  BY <1>8 DEF Takes
<1>9. CASE Quits
  BY <1>9 DEF Quits
<1>10. CASE Killed
  BY <1>10 DEF Killed
<1>11. CASE CutOff
  BY <1>11 DEF CutOff
<1>12. ASSUME NEW m \in Messages, Asks(m) PROVE ConvInv'
  BY <1>12 DEF Asks
<1>13. CASE UNCHANGED vars
  BY <1>13 DEF vars
<1> QED
  BY <1>2, <1>3, <1>4, <1>5, <1>6, <1>7, <1>8, <1>9, <1>10, <1>11, <1>12, <1>13 DEF Next

LEMMA ConvInvariant == ASSUME ConversationConstants PROVE Spec => []ConvInv
  BY ConvInvInitially, ConvInvStep, PTL DEF Spec

(* Between its question and its answer the message of a client is in one   *)
(* place: in its stream, with the thread, or in the reply.                 *)
THEOREM MessageInOnePlace == ASSUME ConversationConstants PROVE Spec => []OnePlace
<1>1. ConvInv => OnePlace
  BY DEF ConvInv
<1> QED
  BY <1>1, ConvInvariant, PTL
-----------------------------------------------------------------------------
(* The echo service.                                                       *)

LEMMA EchoInitially == Init => Echo!EchoInit
  BY DEF Init, Echo!EchoInit

(* The steps of the one client of the echo service.                        *)
LEMMA Alone ==
  ASSUME NEW v, NEW w
  PROVE  /\ [c \in {"client"} |-> v]["client"] = v
         /\ [[c \in {"client"} |-> v] EXCEPT !["client"] = w] = [c \in {"client"} |-> w]
  OBVIOUS

LEMMA EchoAsks == ASSUME ConvInv, NEW m \in Messages, Asks(m) PROVE Echo!Ask("client", m)
<1>1. asked = None /\ asked' = m /\ answer' = answer
  BY DEF Asks, ConvInv, TypeOK
<1> QED BY <1>1, Alone DEF Echo!Ask

LEMMA EchoTakes == ASSUME Takes PROVE Echo!Take("client")
<1>1. answer # None /\ asked' = None /\ answer' = None
  BY DEF Takes
<1> QED BY <1>1, Alone DEF Echo!Take

LEMMA EchoAnswers ==
  ASSUME ConversationConstants, ConvInv, Replies
  PROVE  Echo!Answer("client") \/ UNCHANGED Echo!echoVars
<1>1. CASE cpc = "gone"
  <2>1. UNCHANGED <<asked, answer>>
    BY <1>1 DEF Replies, ConvInv, Hands
  <2> QED BY <2>1 DEF Echo!echoVars
<1>2. CASE cpc # "gone"
  <2>1. asked # None /\ text = asked /\ answer = None
    BY <1>2 DEF Replies, ConvInv, TypeOK, Hands, OnePlace, ConversationConstants
  <2>2. answer' = Echo!Prefixed(asked) /\ asked' = asked
    BY <1>2, <2>1 DEF Replies, Prefixed, Echo!Prefixed
  <2> QED BY <2>1, <2>2, Alone DEF Echo!Answer
<1> QED BY <1>1, <1>2

LEMMA EchoEnds == ASSUME asked' = None, answer' = None PROVE Echo!Abandon({"client"})
  BY DEF Echo!Abandon

LEMMA EchoStep ==
  ASSUME ConversationConstants, ConvInv, [Next]_vars
  PROVE  [Echo!EchoNext]_Echo!echoVars
<1>1. UNCHANGED <<asked, answer>> => UNCHANGED Echo!echoVars
  BY DEF Echo!echoVars
<1>2. CASE ServerKilled \/ ReplyFails \/ ReadFails \/ Killed
  <2>1. asked' = None /\ answer' = None
    BY <1>2 DEF ServerKilled, ReplyFails, ReadFails, Killed, Down
  <2> QED BY <2>1, EchoEnds DEF Echo!EchoNext
<1>3. CASE Receives \/ Spins \/ MeetsEnd \/ Cancelled \/ Quits \/ CutOff \/ UNCHANGED vars
  BY <1>1, <1>3 DEF Receives, Spins, MeetsEnd, Cancelled, Quits, CutOff, vars
<1>4. CASE Replies
  BY <1>4, EchoAnswers DEF Echo!EchoNext
<1>5. CASE Takes
  BY <1>5, EchoTakes DEF Echo!EchoNext
<1>6. CASE \E m \in Messages : Asks(m)
  BY <1>6, EchoAsks DEF Echo!EchoNext
<1> QED
  BY <1>2, <1>3, <1>4, <1>5, <1>6 DEF Next

(* A client is never answered before it asks, never twice, and never with  *)
(* another message than the one it waits on.                               *)
THEOREM ConversationIsEcho == ASSUME ConversationConstants PROVE Spec => EchoRefinement
  BY ConvInvariant, EchoInitially, EchoStep, PTL DEF Spec, EchoRefinement, Echo!EchoSpec
=============================================================================
