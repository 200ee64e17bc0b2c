---------------------------- MODULE FramingProofs ----------------------------
(***************************************************************************)
(* Theorems about Framing, for every set of lines and every length of the  *)
(* prefix.                                                                 *)
(*                                                                         *)
(* FramingInv is the inductive invariant.  While both processes live their *)
(* conversation is in one of six phases, and in each of them everything    *)
(* that is on its way is known.  When one has ended, InStep is enough.     *)
(***************************************************************************)
EXTENDS Framing, SequenceTheorems, TLAPS

Idle == spc = "length_in" /\ toServer = <<>>

Typing == cpc \in {"type", "length_out"} /\ Idle /\ toClient = <<>>
Announced == cpc = "text_out" /\ ~Sent /\ Pending /\ Body = <<>> /\ toClient = <<>>
Asked == /\ cpc \in {"text_out", "length_in"} /\ Sent
         /\ Pending /\ Body = Text(line) /\ toClient = <<>>
Taken == /\ cpc \in {"text_out", "length_in"} /\ Sent
         /\ spc = "length_out" /\ toClient = <<>>
Answering == Sent /\ spc = "text_out" /\ Coming /\ ReplyBody = <<>>
Answered == Sent /\ Idle /\ Coming /\ ReplyBody = Reply(Text(line))

(* The phase of the conversation. *)
InPhase ==
  ~Left => /\ conn = "open"
           /\ Typing \/ Announced \/ Asked \/ Taken \/ Answering \/ Answered

(* A client that has left has nothing more to come, and the server works   *)
(* on a line of it at most.                                                *)
Leaving ==
  /\ cpc = "spin" => Dead
  /\ cpc = "gone" /\ ~Dead => conn # "open"
  /\ Pending \/ spc \in {"length_out", "text_out"} => line \in Lines

FramingInv == TypeOK /\ InStep /\ MessagesAreWhole /\ InPhase /\ Leaving

USE DEF vars, clientVars, serverVars
-----------------------------------------------------------------------------
(* Streams.                                                                *)

(* A prefix as long as the whole is the whole. *)
LEMMA BeginsFacts ==
  ASSUME NEW S, NEW t \in Seq(S)
  PROVE  /\ Begins(t, t) /\ Begins(<<>>, t)
         /\ \A s \in Seq(S) : Begins(s, t) /\ Len(s) = Len(t) => s = t
<1>1. Len(t) \in Nat /\ SubSeq(t, 1, Len(t)) = t
  BY SubSeqFull, LenProperties
<1>2. SubSeq(t, 1, 0) = <<>>
  BY SubSeqEmpty
<1> QED BY <1>1, <1>2 DEF Begins

(* One turn of the loop of recv_message moves bytes and loses none. *)
LEMMA Cut ==
  ASSUME NEW S, NEW s \in Seq(S), NEW t \in Seq(S), NEW k \in 1..Len(t)
  PROVE  /\ s \o SubSeq(t, 1, k) \in Seq(S) /\ SubSeq(t, k + 1, Len(t)) \in Seq(S)
         /\ Len(s \o SubSeq(t, 1, k)) = Len(s) + k
         /\ (s \o SubSeq(t, 1, k)) \o SubSeq(t, k + 1, Len(t)) = s \o t
<1> DEFINE a == SubSeq(t, 1, k)
           b == SubSeq(t, k + 1, Len(t))
<1>1. Len(t) \in Nat /\ Len(s) \in Nat /\ \A i \in 1..Len(t) : t[i] \in S
  BY LenProperties, ElementOfSeq
<1>2. a \in Seq(S) /\ Len(a) = k /\ b \in Seq(S)
  BY <1>1, SubSeqProperties
<1>3. a \o b = t
  BY <1>1, ConcatAdjacentSubSeq, SubSeqFull
<1> HIDE DEF a, b
<1>4. (s \o a) \o b = s \o (a \o b)
  BY <1>2, ConcatAssociative, SMTT(30)
<1>5. s \o a \in Seq(S) /\ Len(s \o a) = Len(s) + k
  BY <1>2, ConcatProperties
<1>6. (s \o a) \o b = s \o t
  BY <1>3, <1>4
<1> QED BY <1>2, <1>5, <1>6 DEF a, b

(* When the loop has all it wants, nothing of the message is left.         *)
LEMMA Remainder ==
  ASSUME NEW S, NEW u \in Seq(S), NEW v \in Seq(S), NEW w \in Seq(S),
         Begins(u \o v, w), Len(u) = Len(w)
  PROVE  u = w /\ v = <<>>
<1>1. Len(u \o v) = Len(u) + Len(v) /\ Len(u \o v) <= Len(w)
  BY ConcatProperties DEF Begins
<1>2. Len(u) \in Nat /\ Len(v) \in Nat
  BY LenProperties
<1>3. v = <<>>
  BY <1>1, <1>2, EmptySeq
<1>4. u \o v = u
  BY <1>3, ConcatEmptySeq
<1> QED BY <1>3, <1>4, BeginsFacts

(* What send adds comes behind the item the receiver reads next.           *)
LEMMA Behind ==
  ASSUME NEW S, NEW s \in Seq(S), NEW t \in Seq(S), s # <<>>
  PROVE  /\ s \o t # <<>> /\ Head(s \o t) = Head(s)
         /\ Tail(s \o t) = Tail(s) \o t
<1>1. /\ s \o t \in Seq(S) /\ Len(s \o t) = Len(s) + Len(t)
      /\ \A i \in 1..(Len(s) + Len(t)) :
           (s \o t)[i] = IF i <= Len(s) THEN s[i] ELSE t[i - Len(s)]
  BY ConcatProperties
<1>2. Len(s) \in Nat \ {0} /\ Len(t) \in Nat
  BY EmptySeq, LenProperties
<1>3. s \o t # <<>>
  BY <1>1, <1>2, EmptySeq
<1>4. /\ Tail(s) \in Seq(S) /\ Len(Tail(s)) = Len(s) - 1
      /\ \A i \in 1..Len(Tail(s)) : Tail(s)[i] = s[i + 1]
  BY HeadTailProperties
<1>5. /\ Tail(s \o t) \in Seq(S) /\ Len(Tail(s \o t)) = Len(s) + Len(t) - 1
      /\ \A i \in 1..Len(Tail(s \o t)) : Tail(s \o t)[i] = (s \o t)[i + 1]
  BY <1>1, <1>3, HeadTailProperties
<1>6. /\ Tail(s) \o t \in Seq(S) /\ Len(Tail(s) \o t) = Len(s) - 1 + Len(t)
      /\ \A i \in 1..(Len(s) - 1 + Len(t)) :
           (Tail(s) \o t)[i] = IF i <= Len(s) - 1 THEN Tail(s)[i] ELSE t[i - (Len(s) - 1)]
  BY <1>4, ConcatProperties
<1>7. \A i \in 1..(Len(s) + Len(t) - 1) : Tail(s \o t)[i] = (Tail(s) \o t)[i]
  BY <1>1, <1>2, <1>4, <1>5, <1>6
<1>8. Tail(s \o t) = Tail(s) \o t
  BY <1>2, <1>5, <1>6, <1>7, SeqEqual
<1>9. Head(s \o t) = Head(s)
  BY <1>1, <1>2, <1>3
<1> QED BY <1>3, <1>8, <1>9

(* The text of a line, and edit_message. *)
LEMMA TextFacts ==
  ASSUME NEW m \in Lines
  PROVE  /\ Size(m) \in Nat /\ Text(m) \in Seq(Item) /\ Len(Text(m)) = Size(m)
         /\ Size(m) = 0 => Text(m) = <<>>
         /\ Text(m) \notin {Half, None} /\ <<"Server", Text(m)>> # None
<1>1. Size(m) \in Nat
  BY FramingAssumption DEF Size, Lines
<1>2. \A k \in 1..Size(m) : <<m, k>> \in Item
  BY <1>1 DEF Item
<1>3. Text(m) \in Seq(Item) /\ Len(Text(m)) = Size(m)
  BY <1>1, <1>2 DEF Text
<1> QED BY <1>1, <1>3, EmptySeq, FramingAssumption

LEMMA ReplyFacts ==
  ASSUME NEW t \in Seq(Item)
  PROVE  /\ Reply(t) \in Seq(Item) /\ Len(Reply(t)) = PrefixSize + Len(t)
         /\ Len(Reply(t)) \in Nat \ {0}
         /\ SubSeq(Reply(t), PrefixSize + 1, Len(Reply(t))) = t
<1> DEFINE p == [k \in 1..PrefixSize |-> <<Server, k>>]
<1>1. PrefixSize \in Nat \ {0} /\ Len(t) \in Nat
  BY FramingAssumption, LenProperties
<1>2. \A k \in 1..PrefixSize : <<Server, k>> \in Item
  BY <1>1 DEF Item
<1>3. p \in Seq(Item) /\ Len(p) = PrefixSize
  BY <1>1, <1>2
<1>4. Reply(t) = p \o t
  BY DEF Reply
<1> HIDE DEF p
<1>5. Reply(t) \in Seq(Item) /\ Len(Reply(t)) = PrefixSize + Len(t)
  BY <1>3, <1>4, ConcatProperties
<1>6. CASE Len(t) = 0
  <2>1. t = <<>> BY <1>6, EmptySeq
  <2> QED BY <1>1, <1>5, <1>6, <2>1, SubSeqEmpty
<1>7. CASE Len(t) # 0
  <2>1. SubSeq(p \o t, PrefixSize + 1, PrefixSize + Len(t)) = SubSeq(t, 1, Len(t))
    BY <1>1, <1>3, <1>7, SubSeqOfConcat2
  <2> QED BY <1>1, <1>4, <1>5, <2>1, SubSeqFull
<1> QED BY <1>1, <1>5, <1>6, <1>7
-----------------------------------------------------------------------------
(* The invariant, action by action.                                        *)

(* The parts of the invariant about the one who has left, for any action.  *)
LEMMA LineIsTyped ==
  ASSUME TypeOK, line # None \/ cpc \notin {"type", "gone"}
  PROVE  line \in Lines
  BY DEF TypeOK

(* The text and the reply of the line in hand. *)
LEMMA LineFacts ==
  ASSUME line \in Lines
  PROVE  /\ Size(line) \in Nat /\ Text(line) \in Seq(Item) /\ Len(Text(line)) = Size(line)
         /\ Size(line) = 0 => Text(line) = <<>>
         /\ Reply(Text(line)) \in Seq(Item) /\ Len(Reply(Text(line))) \in Nat \ {0}
  BY TextFacts, ReplyFacts

(* process_input types a line. *)
LEMMA TypesStep ==
  ASSUME FramingInv, ClientTypes
  PROVE  FramingInv'
<1> TypeOK /\ InStep /\ InPhase /\ Leaving BY DEF FramingInv
<1>1. /\ cpc = "type" /\ line' \in Lines /\ cpc' = "length_out"
      /\ UNCHANGED <<cwant, cgot, serverVars, conn, toServer, toClient>>
  BY DEF ClientTypes
<1>2. toClient = <<>> /\ (Dead \/ Idle)
  BY <1>1 DEF InStep, InPhase, Typing, Announced, Asked, Taken, Answering, Answered,
     Sent, Left
<1>3. TypeOK'
  BY <1>1, FramingAssumption DEF TypeOK
<1>4. InStep' /\ MessagesAreWhole'
  BY <1>1, <1>2 DEF InStep, MessagesAreWhole, Idle, Dead
<1>5. InPhase' /\ Leaving'
  BY <1>1, <1>2 DEF InPhase, Leaving, Typing, Idle, Left, Dead, Pending
<1> QED BY <1>3, <1>4, <1>5 DEF FramingInv

(* send_message of the client sends the length. *)
LEMMA ClientSendsLengthStep ==
  ASSUME FramingInv, ClientSendsLength
  PROVE  FramingInv'
<1> TypeOK /\ InStep /\ InPhase /\ Leaving BY DEF FramingInv
<1> DEFINE h == <<Header, Size(line)>>
<1>1. /\ cpc = "length_out" /\ cpc' = "text_out"
      /\ toServer' = IF Dead THEN <<>> ELSE toServer \o <<h>>
      /\ UNCHANGED <<line, cwant, cgot, serverVars, conn, toClient>>
  BY DEF ClientSendsLength, ToServer
<1>2. line \in Lines
  BY <1>1, LineIsTyped
<1>3. h \in Item /\ <<h>> \in Seq(Item) /\ Head(<<h>>) = h /\ Tail(<<h>>) = <<>>
  BY <1>2, LineFacts DEF Item
<1>4. toClient = <<>> /\ (Dead \/ Idle)
  BY <1>1 DEF InStep, InPhase, Typing, Announced, Asked, Taken, Answering, Answered,
     Sent, Left
<1>5. toServer' = IF Dead THEN <<>> ELSE <<h>>
  BY <1>1, <1>3, <1>4, ConcatEmptySeq DEF Idle
<1>6. TypeOK'
  BY <1>1, <1>2, <1>3, <1>5 DEF TypeOK
<1>7. Begins(<<>>, Text(line))
  BY <1>2, LineFacts, BeginsFacts
<1> HIDE DEF h
<1>8. <<h>> # <<>>
  OBVIOUS
<1>9. InStep'
  <2>1. CASE Dead BY <1>1, <1>4, <1>5, <2>1 DEF InStep, Dead
  <2>2. CASE ~Dead
    <3>1. spc = "length_in" /\ toServer' = <<h>>
      BY <1>4, <1>5, <2>2 DEF Idle
    <3>2. /\ Head(toServer') = <<Header, Size(line)>> /\ Begins(Tail(toServer'), Text(line))
      BY <1>3, <1>7, <3>1 DEF h
    <3> QED BY <1>1, <1>4, <3>1, <3>2 DEF InStep
  <2> QED BY <2>1, <2>2
<1>10. MessagesAreWhole'
  BY <1>1, <1>4 DEF MessagesAreWhole, Idle, Dead
<1>11. InPhase'
  <2>1. CASE Dead BY <1>1, <2>1 DEF InPhase, Left, Dead
  <2>2. CASE ~Dead
    <3>1. /\ spc' = "length_in" /\ toServer' = <<h>> /\ conn' = "open" /\ toClient' = <<>>
      BY <1>1, <1>4, <1>5, <2>2 DEF Idle, InPhase, Left
    <3>2. Pending' /\ Body' = <<>>
      BY <1>3, <1>8, <3>1 DEF Pending, Body
    <3>3. Announced' \/ Asked'
      BY <1>1, <1>2, <3>1, <3>2, LineFacts DEF Announced, Asked, Sent
    <3> QED BY <3>1, <3>3 DEF InPhase
  <2> QED BY <2>1, <2>2
<1>12. Leaving'
  BY <1>1, <1>2 DEF Leaving
<1> QED BY <1>6, <1>9, <1>10, <1>11, <1>12 DEF FramingInv

(* ... and then the text, behind whatever part of the length is unread.    *)
LEMMA ClientSendsTextStep ==
  ASSUME FramingInv, ClientSendsText
  PROVE  FramingInv'
<1> TypeOK /\ InStep /\ MessagesAreWhole /\ InPhase /\ Leaving BY DEF FramingInv
<1>1. /\ cpc = "text_out" /\ cpc' = "length_in"
      /\ toServer' = IF Dead THEN <<>> ELSE toServer \o Text(line)
      /\ UNCHANGED <<line, cwant, cgot, serverVars, conn, toClient>>
  BY DEF ClientSendsText, ToServer
<1>2. line \in Lines
  BY <1>1, LineIsTyped
<1>3. TypeOK'
  <2>1. toServer' \in Seq(Item)
    BY <1>1, <1>2, LineFacts, ConcatProperties, EmptySeq DEF TypeOK
  <2> QED BY <1>1, <1>2, <2>1 DEF TypeOK
<1>4. Leaving' /\ MessagesAreWhole'
  BY <1>1, <1>2 DEF Leaving, MessagesAreWhole
<1>5. CASE Dead
  BY <1>1, <1>3, <1>4, <1>5 DEF FramingInv, InStep, InPhase, Left, Dead
<1>6. CASE ~Dead /\ Size(line) = 0
  <2>1. toServer' = toServer
    BY <1>1, <1>2, <1>6, LineFacts, ConcatEmptySeq DEF TypeOK
  <2>2. InStep'
    BY <1>1, <2>1 DEF InStep
  <2>3. InPhase'
    BY <1>1, <1>6, <2>1 DEF InPhase, Left, Dead, Sent, Typing, Announced, Asked, Taken, Answering,
       Answered, Idle, Pending, Body, Coming, ReplyBody
  <2> QED BY <1>3, <1>4, <2>2, <2>3 DEF FramingInv
<1>7. CASE ~Dead /\ Size(line) # 0
  <2>1. Pending /\ Body = <<>> /\ toClient = <<>> /\ conn = "open"
    BY <1>1, <1>7 DEF InPhase, Left, Sent, Typing, Announced, Asked, Taken, Answering, Answered
  <2>2. Begins(Text(line), Text(line)) /\ Text(line) \in Seq(Item)
    BY <1>2, LineFacts, BeginsFacts
  <2>3. CASE spc = "text_in"
    <3>1. sgot = <<>> /\ toServer = <<>>
      BY <2>1, <2>3, ConcatEqualIffEmpty DEF Body, TypeOK
    <3>2. toServer' = Text(line) /\ sgot' \o toServer' = Text(line)
      BY <1>1, <1>7, <2>2, <3>1, ConcatEmptySeq
    <3>3. InStep'
      BY <1>1, <2>1, <2>2, <2>3, <3>2 DEF InStep
    <3>4. InPhase'
      BY <1>1, <2>1, <2>3, <3>2 DEF InPhase, Asked, Sent, Pending, Body
    <3> QED BY <1>3, <1>4, <3>3, <3>4 DEF FramingInv
  <2>4. CASE spc = "length_in"
    <3>1. toServer # <<>> /\ Tail(toServer) = <<>>
      BY <2>1, <2>4 DEF Pending, Body
    <3>2. /\ toServer' # <<>> /\ Head(toServer') = Head(toServer)
          /\ Tail(toServer') = <<>> \o Text(line)
      <4>1. toServer' = toServer \o Text(line)
        BY <1>1, <1>7
      <4>2. toServer \in Seq(Item)
        BY DEF TypeOK
      <4>3. /\ toServer \o Text(line) # <<>> /\ Head(toServer \o Text(line)) = Head(toServer)
            /\ Tail(toServer \o Text(line)) = Tail(toServer) \o Text(line)
        BY <2>2, <3>1, <4>2, Behind, Zenon
      <4> QED BY <3>1, <4>1, <4>3, Zenon
    <3>3. Tail(toServer') = Text(line)
      BY <2>2, <3>2, ConcatEmptySeq
    <3>4. InStep'
      BY <1>1, <2>1, <2>2, <2>4, <3>1, <3>2, <3>3 DEF InStep
    <3>5. InPhase'
      BY <1>1, <2>1, <2>4, <3>2, <3>3 DEF InPhase, Asked, Sent, Pending, Body
    <3> QED BY <1>3, <1>4, <3>4, <3>5 DEF FramingInv
  <2> QED BY <2>1, <2>3, <2>4 DEF Pending
<1> QED BY <1>5, <1>6, <1>7

(* recv_message of the client reads a length. *)
LEMMA ClientReadsLengthStep ==
  ASSUME FramingInv, ClientReadsLength
  PROVE  FramingInv'
<1> TypeOK /\ InStep /\ MessagesAreWhole /\ InPhase /\ Leaving BY DEF FramingInv
<1>1. /\ cpc = "length_in" /\ cpc' = "text_in" /\ toClient # <<>>
      /\ cwant' = Head(toClient)[2] /\ cgot' = <<>> /\ toClient' = Tail(toClient)
      /\ UNCHANGED <<line, serverVars, conn, toServer>>
  BY DEF ClientReadsLength
<1>2. line \in Lines
  BY <1>1, LineIsTyped
<1>3. /\ cwant' = Len(Reply(Text(line))) /\ Begins(Tail(toClient), Reply(Text(line)))
  BY <1>1 DEF InStep
<1>4. cwant' \in Nat \ {0} /\ toClient' \in Seq(Item) /\ cgot' \o toClient' = Tail(toClient)
  <2>1. Tail(toClient) \in Seq(Item)
    BY <1>1, HeadTailProperties DEF TypeOK
  <2> QED BY <1>1, <1>2, <1>3, <2>1, LineFacts, ConcatEmptySeq
<1>5. TypeOK'
  BY <1>1, <1>2, <1>4, EmptySeq DEF TypeOK
<1>6. InStep' /\ MessagesAreWhole' /\ Leaving'
  BY <1>1, <1>3, <1>4 DEF InStep, MessagesAreWhole, Leaving, Pending
<1>7. InPhase'
  BY <1>1, <1>4 DEF InPhase, Left, Dead, Sent, Typing, Announced, Asked, Taken, Answering,
     Answered, Idle, Coming, ReplyBody
<1> QED BY <1>5, <1>6, <1>7 DEF FramingInv

(* One turn of its loop over the text; the last one returns the reply.     *)
LEMMA ClientReadsTextStep ==
  ASSUME FramingInv, ClientReadsText
  PROVE  FramingInv'
<1> TypeOK /\ InStep /\ MessagesAreWhole /\ InPhase /\ Leaving BY DEF FramingInv
<1>1. PICK k \in 1..Len(toClient) :
        /\ k <= cwant - Len(cgot)
        /\ cgot' = cgot \o SubSeq(toClient, 1, k)
        /\ toClient' = SubSeq(toClient, k + 1, Len(toClient))
  BY DEF ClientReadsText
<1>2. /\ cpc = "text_in" /\ cpc' = IF Len(cgot') = cwant THEN "type" ELSE "text_in"
      /\ UNCHANGED <<line, cwant, serverVars, conn, toServer>>
  BY DEF ClientReadsText
<1>3. line \in Lines /\ line # None
  BY <1>2, LineIsTyped, FramingAssumption
<1>4. /\ cgot' \in Seq(Item) /\ toClient' \in Seq(Item) /\ Len(cgot') = Len(cgot) + k
      /\ cgot' \o toClient' = cgot \o toClient
  <2>1. cgot \in Seq(Item) /\ toClient \in Seq(Item)
    BY DEF TypeOK
  <2> QED BY <1>1, <2>1, Cut, ZenonT(60)
<1>5. toClient # <<>> /\ Len(cgot) \in Nat /\ k \in Nat \ {0}
  BY <1>1, LenProperties, EmptySeq DEF TypeOK
<1>6. cwant = Len(Reply(Text(line))) /\ Begins(cgot \o toClient, Reply(Text(line)))
  BY <1>2 DEF InStep
<1>7. TypeOK'
  <2>1. cwant \in Nat
    BY DEF TypeOK
  <2>2. Len(cgot') # cwant => Len(cgot') < cwant
    <3>1. k <= cwant - Len(cgot) /\ Len(cgot') = Len(cgot) + k
      BY <1>1, <1>4, Zenon
    <3> QED BY <1>5, <2>1, <3>1
  <2>3. UNCHANGED <<spc, swant, sgot, conn, toServer>>
    BY <1>2
  <2> QED BY <1>2, <1>3, <1>4, <2>1, <2>2, <2>3 DEF TypeOK
<1>8. Leaving'
  BY <1>2 DEF Leaving, Pending, Dead
<1>9. ReplyBody = cgot \o toClient /\ ReplyBody # <<>>
  BY <1>2, <1>5, ConcatEqualIffEmpty DEF ReplyBody, TypeOK
<1>10. ~Left => conn = "open" /\ Answered
  BY <1>2, <1>9 DEF InPhase, Typing, Announced, Asked, Taken, Answering
<1>11. CASE Len(cgot') = cwant
  <2>1. cgot' = Reply(Text(line)) /\ toClient' = <<>>
    BY <1>3, <1>4, <1>6, <1>11, LineFacts, Remainder
  <2>2. InStep' /\ MessagesAreWhole'
    BY <1>2, <1>11, <2>1 DEF InStep, MessagesAreWhole
  <2>3. InPhase'
    BY <1>2, <1>10, <1>11, <2>1 DEF InPhase, Typing, Answered, Idle, Left, Dead
  <2> QED BY <1>7, <1>8, <2>2, <2>3 DEF FramingInv
<1>12. CASE Len(cgot') # cwant
  <2>1. InStep' /\ MessagesAreWhole'
    BY <1>2, <1>4, <1>6, <1>12 DEF InStep, MessagesAreWhole
  <2>2. InPhase'
    BY <1>2, <1>4, <1>9, <1>10, <1>12 DEF InPhase, Answered, Idle, Left, Dead, Sent, Coming, ReplyBody
  <2> QED BY <1>7, <1>8, <2>1, <2>2 DEF FramingInv
<1> QED BY <1>11, <1>12

(* The client finds the server dead, or waits for it in vain.              *)
LEMMA ClientMeetsEndStep ==
  ASSUME FramingInv, ClientSendFails \/ ClientMeetsEnd \/ ClientSpins
  PROVE  FramingInv'
<1> TypeOK /\ InStep /\ MessagesAreWhole /\ InPhase /\ Leaving BY DEF FramingInv
<1>1. /\ Dead /\ cpc' \in {"gone", "spin"} /\ toClient' = <<>>
      /\ UNCHANGED <<line, cwant, cgot, serverVars, conn, toServer>>
  BY DEF ClientSendFails, ClientMeetsEnd, ClientSpins
<1>2. cpc \notin {"type", "gone"}
  BY DEF ClientSendFails, ClientMeetsEnd, ClientSpins
<1>3. TypeOK'
  BY <1>1, <1>2, EmptySeq DEF TypeOK
<1> QED
  BY <1>1, <1>3 DEF FramingInv, InStep, MessagesAreWhole, InPhase, Leaving, Left, Dead, Pending

(* The client leaves, or is killed. *)
LEMMA ClientLeavesStep ==
  ASSUME FramingInv, ClientQuits \/ ClientKilled
  PROVE  FramingInv'
<1> TypeOK /\ InStep /\ MessagesAreWhole /\ InPhase /\ Leaving BY DEF FramingInv
<1>1. /\ cpc' = "gone" /\ conn' \in {"closed", "resetting"}
      /\ UNCHANGED <<line, cwant, cgot, serverVars, toServer>>
  BY DEF ClientQuits, ClientKilled
<1>2. toClient' = <<>>
  BY DEF ClientQuits, ClientKilled, InStep
<1>3. TypeOK'
  BY <1>1, <1>2, EmptySeq DEF TypeOK
<1> QED
  BY <1>1, <1>2, <1>3 DEF FramingInv, InStep, MessagesAreWhole, InPhase, Leaving, Left, Pending

(* The end of the process of the server, whatever the reason. *)
LEMMA DiesStep ==
  ASSUME FramingInv, Dies
  PROVE  FramingInv'
<1> TypeOK /\ InStep /\ MessagesAreWhole /\ InPhase /\ Leaving BY DEF FramingInv
<1>1. /\ spc' = "dead" /\ toServer' = <<>>
      /\ UNCHANGED <<clientVars, swant, sgot, conn, toClient>>
  BY DEF Dies
<1>2. TypeOK'
  BY <1>1, EmptySeq DEF TypeOK
<1> QED
  BY <1>1, <1>2 DEF FramingInv, InStep, MessagesAreWhole, InPhase, Leaving, Left, Dead, Pending

(* recv_message of the server reads a length. *)
LEMMA ServerReadsLengthStep ==
  ASSUME FramingInv, ServerReadsLength
  PROVE  FramingInv'
<1> TypeOK /\ InStep /\ MessagesAreWhole /\ InPhase /\ Leaving BY DEF FramingInv
<1>1. /\ spc = "length_in" /\ toServer # <<>>
      /\ swant' = Head(toServer)[2] /\ sgot' = <<>> /\ toServer' = Tail(toServer)
      /\ spc' = IF swant' = 0 THEN "length_out" ELSE "text_in"
      /\ UNCHANGED <<clientVars, conn, toClient>>
  BY DEF ServerReadsLength
<1>2. line \in Lines
  BY <1>1 DEF Leaving, Pending
<1>3. swant' = Size(line) /\ Begins(Tail(toServer), Text(line))
  BY <1>1 DEF InStep
<1>4. swant' \in Nat /\ toServer' \in Seq(Item) /\ sgot' \o toServer' = Tail(toServer)
  <2>1. Tail(toServer) \in Seq(Item)
    BY <1>1, HeadTailProperties DEF TypeOK
  <2> QED BY <1>1, <1>2, <1>3, <2>1, LineFacts, ConcatEmptySeq
<1>5. TypeOK'
  BY <1>1, <1>2, <1>4, EmptySeq DEF TypeOK
<1>6. Leaving'
  BY <1>1, <1>2 DEF Leaving, Dead
<1>7. ~Left => conn = "open" /\ (Announced \/ Asked) /\ toClient = <<>> /\ cpc # "text_in"
  BY <1>1 DEF InPhase, Typing, Announced, Asked, Taken, Answering, Answered, Idle
<1>8. Body = Tail(toServer)
  BY <1>1 DEF Body
<1>9. CASE Size(line) = 0
  <2>1. Text(line) = <<>> /\ toServer' = <<>>
    BY <1>1, <1>2, <1>3, <1>4, <1>9, LineFacts, EmptySeq DEF Begins
  <2>2. InStep' /\ MessagesAreWhole'
    BY <1>1, <1>3, <1>9, <2>1 DEF InStep, MessagesAreWhole
  <2>3. ~Left => Asked
    BY <1>7, <1>9 DEF Announced, Sent
  <2>4. InPhase'
    BY <1>1, <1>3, <1>7, <1>9, <2>3 DEF InPhase, Left, Dead, Asked, Taken, Sent
  <2> QED BY <1>5, <1>6, <2>2, <2>4 DEF FramingInv
<1>10. CASE Size(line) # 0
  <2>1. InStep' /\ MessagesAreWhole'
    BY <1>1, <1>3, <1>4, <1>10 DEF InStep, MessagesAreWhole
  <2>2. InPhase'
    BY <1>1, <1>3, <1>4, <1>7, <1>8, <1>10
       DEF InPhase, Left, Dead, Announced, Asked, Sent, Pending, Body
  <2> QED BY <1>5, <1>6, <2>1, <2>2 DEF FramingInv
<1> QED BY <1>9, <1>10

(* One turn of its loop over the text; with the last one it has the line.  *)
LEMMA ServerReadsTextStep ==
  ASSUME FramingInv, ServerReadsText
  PROVE  FramingInv'
<1> TypeOK /\ InStep /\ MessagesAreWhole /\ InPhase /\ Leaving BY DEF FramingInv
<1>1. PICK k \in 1..Len(toServer) :
        /\ k <= swant - Len(sgot)
        /\ sgot' = sgot \o SubSeq(toServer, 1, k)
        /\ toServer' = SubSeq(toServer, k + 1, Len(toServer))
  BY DEF ServerReadsText
<1>2. /\ spc = "text_in" /\ spc' = IF Len(sgot') = swant THEN "length_out" ELSE "text_in"
      /\ UNCHANGED <<clientVars, swant, conn, toClient>>
  BY DEF ServerReadsText
<1>3. line \in Lines
  BY <1>2 DEF Leaving, Pending
<1>4. /\ sgot' \in Seq(Item) /\ toServer' \in Seq(Item) /\ Len(sgot') = Len(sgot) + k
      /\ sgot' \o toServer' = sgot \o toServer
  <2>1. sgot \in Seq(Item) /\ toServer \in Seq(Item)
    BY DEF TypeOK
  <2> QED BY <1>1, <2>1, Cut, ZenonT(60)
<1>5. toServer # <<>> /\ Len(sgot) \in Nat /\ k \in Nat \ {0}
  BY <1>1, LenProperties, EmptySeq DEF TypeOK
<1>6. swant = Size(line) /\ Begins(sgot \o toServer, Text(line))
  BY <1>2 DEF InStep
<1>7. TypeOK'
  <2>1. swant \in Nat
    BY DEF TypeOK
  <2>2. Len(sgot') # swant => Len(sgot') < swant
    <3>1. k <= swant - Len(sgot) /\ Len(sgot') = Len(sgot) + k
      BY <1>1, <1>4, Zenon
    <3> QED BY <1>5, <2>1, <3>1
  <2>3. UNCHANGED <<cpc, line, cwant, cgot, conn, toClient>>
    BY <1>2
  <2> QED BY <1>2, <1>4, <2>1, <2>2, <2>3 DEF TypeOK
<1>8. Leaving'
  BY <1>2, <1>3 DEF Leaving, Dead
<1>9. Body = sgot \o toServer /\ Body # <<>>
  BY <1>2, <1>5, ConcatEqualIffEmpty DEF Body, TypeOK
<1>10. ~Left => conn = "open" /\ Asked
  BY <1>2, <1>9 DEF InPhase, Typing, Announced, Taken, Answering, Answered, Idle
<1>11. CASE Len(sgot') = swant
  <2>1. sgot' = Text(line) /\ toServer' = <<>>
    BY <1>3, <1>4, <1>6, <1>11, LineFacts, Remainder
  <2>2. InStep' /\ MessagesAreWhole'
    BY <1>2, <1>11, <2>1 DEF InStep, MessagesAreWhole
  <2>3. InPhase'
    BY <1>2, <1>10, <1>11 DEF InPhase, Asked, Taken, Sent, Left, Dead
  <2> QED BY <1>7, <1>8, <2>2, <2>3 DEF FramingInv
<1>12. CASE Len(sgot') # swant
  <2>1. InStep' /\ MessagesAreWhole'
    BY <1>2, <1>4, <1>6, <1>12 DEF InStep, MessagesAreWhole
  <2>2. InPhase'
    BY <1>2, <1>4, <1>9, <1>10, <1>12 DEF InPhase, Asked, Left, Dead, Sent, Pending, Body
  <2> QED BY <1>7, <1>8, <2>1, <2>2 DEF FramingInv
<1> QED BY <1>11, <1>12

(* The server finds that the stream has ended. *)
LEMMA ServerMeetsEndStep ==
  ASSUME FramingInv, ServerMeetsEnd \/ ServerSpins
  PROVE  FramingInv'
<1> TypeOK /\ InStep /\ MessagesAreWhole /\ InPhase /\ Leaving BY DEF FramingInv
<1>1. /\ spc \in {"length_in", "text_in"} /\ spc' \in {"done", "spin"} /\ conn # "open"
      /\ UNCHANGED <<clientVars, swant, sgot, conn, toServer, toClient>>
  BY DEF ServerMeetsEnd, ServerSpins, AtEnd
<1>2. cpc = "gone"
  BY <1>1 DEF InPhase, Left, Leaving, Dead
<1>3. TypeOK'
  BY <1>1 DEF TypeOK
<1> QED
  BY <1>1, <1>2, <1>3 DEF FramingInv, InStep, MessagesAreWhole, InPhase, Leaving, Left, Pending

(* send_message of the server sends the length of the reply. *)
LEMMA ServerSendsLengthStep ==
  ASSUME FramingInv, ServerSendsLength
  PROVE  FramingInv'
<1> TypeOK /\ InStep /\ MessagesAreWhole /\ InPhase /\ Leaving BY DEF FramingInv
<1> DEFINE h == <<Header, Len(Reply(sgot))>>
<1>1. /\ spc = "length_out" /\ spc' = "text_out"
      /\ toClient' = IF conn = "open" THEN toClient \o <<h>> ELSE toClient
      /\ conn' = IF conn = "closed" THEN "refusing" ELSE conn
      /\ UNCHANGED <<clientVars, swant, sgot, toServer>>
  BY DEF ServerSendsLength, ToClient
<1>2. line \in Lines /\ sgot = Text(line)
  BY <1>1 DEF Leaving, MessagesAreWhole
<1>3. /\ h = <<Header, Len(Reply(Text(line)))>> /\ <<h>> \in Seq(Item)
      /\ Head(<<h>>) = h /\ Tail(<<h>>) = <<>> /\ <<h>> # <<>>
  BY <1>2, LineFacts DEF Item
<1> HIDE DEF h
<1>4. TypeOK'
  <2>1. toClient' \in Seq(Item)
    BY <1>1, <1>3, ConcatProperties DEF TypeOK
  <2> QED BY <1>1, <2>1 DEF TypeOK
<1>5. MessagesAreWhole' /\ Leaving'
  BY <1>1, <1>2 DEF MessagesAreWhole, Leaving, Pending, Dead
<1>6. CASE conn = "open"
  <2>1. Taken
    BY <1>1, <1>6 DEF InPhase, Left, Dead, Leaving, Typing, Announced, Asked, Answering, Answered,
       Idle, Pending
  <2>2. toClient' = <<h>>
    BY <1>1, <1>3, <1>6, <2>1, ConcatEmptySeq DEF Taken
  <2>3. Begins(<<>>, Reply(Text(line)))
    BY <1>2, LineFacts, BeginsFacts
  <2>4. InStep'
    BY <1>1, <1>3, <2>1, <2>2, <2>3 DEF InStep, Taken
  <2>5. InPhase'
    BY <1>1, <1>3, <1>6, <2>1, <2>2 DEF InPhase, Taken, Answering, Sent, Coming, ReplyBody
  <2> QED BY <1>4, <1>5, <2>4, <2>5 DEF FramingInv
<1>7. CASE conn # "open"
  <2>1. cpc = "gone"
    BY <1>1, <1>7 DEF InPhase, Left, Leaving, Dead
  <2>2. InStep' /\ InPhase'
    BY <1>1, <1>7, <2>1 DEF InStep, InPhase, Left
  <2> QED BY <1>4, <1>5, <2>2 DEF FramingInv
<1> QED BY <1>6, <1>7

(* ... and its text, behind whatever part of the length is unread.         *)
LEMMA ServerSendsTextStep ==
  ASSUME FramingInv, ServerSendsText
  PROVE  FramingInv'
<1> TypeOK /\ InStep /\ MessagesAreWhole /\ InPhase /\ Leaving BY DEF FramingInv
<1> DEFINE r == Reply(Text(line))
<1>1. /\ spc = "text_out" /\ spc' = "length_in"
      /\ toClient' = IF conn = "open" THEN toClient \o Reply(sgot) ELSE toClient
      /\ conn' = IF conn = "closed" THEN "refusing" ELSE conn
      /\ UNCHANGED <<clientVars, swant, sgot, toServer>>
  BY DEF ServerSendsText, ToClient
<1>2. line \in Lines /\ Reply(sgot) = r /\ toServer = <<>>
  BY <1>1 DEF Leaving, MessagesAreWhole, InStep
<1>3. r \in Seq(Item) /\ Begins(r, r)
  BY <1>2, LineFacts, BeginsFacts
<1>4. TypeOK'
  <2>1. toClient' \in Seq(Item)
    BY <1>1, <1>2, <1>3, ConcatProperties DEF TypeOK
  <2> QED BY <1>1, <2>1 DEF TypeOK
<1>5. MessagesAreWhole' /\ Leaving'
  BY <1>1, <1>2 DEF MessagesAreWhole, Leaving, Pending, Dead
<1>6. CASE conn = "open"
  <2>1. Answering
    BY <1>1, <1>6 DEF InPhase, Left, Dead, Leaving, Typing, Announced, Asked, Taken, Answered,
       Idle, Pending
  <2>2. CASE cpc = "text_in"
    <3>1. cgot = <<>> /\ toClient = <<>>
      BY <2>1, <2>2, ConcatEqualIffEmpty DEF Answering, ReplyBody, TypeOK
    <3>2. cgot' \o toClient' = r
      BY <1>1, <1>2, <1>3, <1>6, <3>1, ConcatEmptySeq
    <3>3. InStep'
      BY <1>1, <1>2, <1>3, <2>2, <3>2 DEF InStep
    <3>4. InPhase'
      BY <1>1, <1>2, <1>6, <2>2, <3>2 DEF InPhase, Answered, Idle, Sent, Coming, ReplyBody
    <3> QED BY <1>4, <1>5, <3>3, <3>4 DEF FramingInv
  <2>3. CASE cpc # "text_in"
    <3>1. toClient # <<>> /\ Tail(toClient) = <<>>
      BY <2>1, <2>3 DEF Answering, Coming, ReplyBody
    <3>2. toClient' # <<>> /\ Head(toClient') = Head(toClient) /\ Tail(toClient') = <<>> \o r
      <4>1. toClient' = toClient \o r
        BY <1>1, <1>2, <1>6
      <4>2. toClient \in Seq(Item) /\ r \in Seq(Item)
        BY <1>3 DEF TypeOK
      <4> HIDE DEF r
      <4>3. /\ toClient \o r # <<>> /\ Head(toClient \o r) = Head(toClient)
            /\ Tail(toClient \o r) = Tail(toClient) \o r
        BY <3>1, <4>2, Behind, Zenon
      <4> QED BY <3>1, <4>1, <4>3, Zenon
    <3>3. Tail(toClient') = r
      BY <1>3, <3>2, ConcatEmptySeq
    <3>4. InStep'
      BY <1>1, <1>2, <1>3, <2>3, <3>1, <3>2, <3>3 DEF InStep
    <3>5. InPhase'
      BY <1>1, <1>2, <1>6, <2>1, <2>3, <3>2, <3>3
         DEF InPhase, Answering, Answered, Idle, Sent, Coming, ReplyBody
    <3> QED BY <1>4, <1>5, <3>4, <3>5 DEF FramingInv
  <2> QED BY <2>2, <2>3
<1>7. CASE conn # "open"
  <2>1. cpc = "gone"
    BY <1>1, <1>7 DEF InPhase, Left, Leaving, Dead
  <2>2. InStep' /\ InPhase'
    BY <1>1, <1>2, <1>7, <2>1 DEF InStep, InPhase, Left
  <2> QED BY <1>4, <1>5, <2>2 DEF FramingInv
<1> QED BY <1>6, <1>7

(* An RST arrives. *)
LEMMA ResetArrivesStep ==
  ASSUME FramingInv, ResetArrives
  PROVE  FramingInv'
<1> TypeOK /\ InStep /\ MessagesAreWhole /\ InPhase /\ Leaving BY DEF FramingInv
<1>1. /\ conn # "open" /\ conn' \in {"broken", "reset"}
      /\ UNCHANGED <<clientVars, serverVars, toServer, toClient>>
  BY DEF ResetArrives
<1>2. TypeOK' BY <1>1 DEF TypeOK
<1> QED
  BY <1>1, <1>2 DEF FramingInv, InStep, MessagesAreWhole, InPhase, Leaving, Left, Dead, Pending,
     Typing, Announced, Asked, Taken, Answering, Answered
-----------------------------------------------------------------------------
(* A step is one of these. *)
LEMMA StepCases ==
  ASSUME [Next]_vars
  PROVE  \/ ClientTypes \/ ClientSendsLength \/ ClientSendsText
         \/ ClientReadsLength \/ ClientReadsText
         \/ ClientSendFails \/ ClientMeetsEnd \/ ClientSpins \/ ClientQuits \/ ClientKilled
         \/ ServerReadsLength \/ ServerReadsText \/ ServerMeetsEnd \/ ServerSpins
         \/ ServerReadFails \/ ServerSendFails \/ ServerKilled
         \/ ServerSendsLength \/ ServerSendsText \/ ResetArrives \/ UNCHANGED vars
  BY DEF Next, Thread, Client

(* Nothing has been sent at first. *)
LEMMA InitInv == Init => FramingInv
<1> SUFFICES ASSUME Init PROVE FramingInv OBVIOUS
<1>1. TypeOK BY EmptySeq DEF Init, TypeOK
<1> QED
  BY <1>1 DEF Init, FramingInv, InStep, MessagesAreWhole, InPhase, Leaving, Typing, Idle, Pending

(* Every call of send and recv, and every end of a process, keeps the      *)
(* invariant (send_message, recv_message).                                 *)
LEMMA NextInv == FramingInv /\ [Next]_vars => FramingInv'
<1> SUFFICES ASSUME FramingInv, [Next]_vars PROVE FramingInv' OBVIOUS
<1>1. CASE UNCHANGED vars
  <2>1. TypeOK' BY <1>1 DEF FramingInv, TypeOK
  <2>2. InStep' BY <1>1 DEF FramingInv, InStep
  <2>3. MessagesAreWhole' /\ Leaving'
    BY <1>1 DEF FramingInv, MessagesAreWhole, Leaving, Dead, Pending
  <2>4. InPhase'
    BY <1>1 DEF FramingInv, InPhase, Left, Dead, Pending, Sent, Typing, Announced, Asked, Taken,
       Answering, Answered, Idle, Body, Coming, ReplyBody
  <2> QED BY <2>1, <2>2, <2>3, <2>4 DEF FramingInv
<1>2. CASE ServerReadFails \/ ServerSendFails \/ ServerKilled
  BY <1>2, DiesStep DEF ServerReadFails, ServerSendFails, ServerKilled
<1> QED
  BY <1>1, <1>2, StepCases, TypesStep, ClientSendsLengthStep, ClientSendsTextStep,
     ClientReadsLengthStep, ClientReadsTextStep, ClientMeetsEndStep, ClientLeavesStep,
     ServerReadsLengthStep, ServerReadsTextStep, ServerMeetsEndStep, ServerSendsLengthStep,
     ServerSendsTextStep, ResetArrivesStep

(* The invariant holds in every reachable state. *)
THEOREM FramingInvariant == Spec => []FramingInv
  BY InitInv, NextInv, PTL DEF Spec

(* Type correctness; in particular recv is never called for no byte. *)
THEOREM TypeCorrect == Spec => []TypeOK
<1>1. FramingInv => TypeOK BY DEF FramingInv
<1> QED BY <1>1, FramingInvariant, PTL

(* Neither end of a connection ever takes text for a length or a length    *)
(* for text, however recv cuts the stream (recv_message).                  *)
THEOREM EndsStayInStep == Spec => []InStep
<1>1. FramingInv => InStep BY DEF FramingInv
<1> QED BY <1>1, FramingInvariant, PTL

(* What recv_message returns is what send_message was given. *)
THEOREM MessagesArriveWhole == Spec => []MessagesAreWhole
<1>1. FramingInv => MessagesAreWhole BY DEF FramingInv
<1> QED BY <1>1, FramingInvariant, PTL
-----------------------------------------------------------------------------
(* Framing implements Conversation.                                        *)

(* The state Conversation sees. *)
Seen(client, thread, text, end, request, asked, answer) ==
  /\ ClientIs = client /\ ThreadIs = thread /\ Held = text /\ End = end
  /\ Request = request /\ Awaited = asked /\ Answer = answer

Views ==
  /\ Dead => Seen("gone", "done", None, "none", None, None, None)
  /\ ~Left /\ (Typing \/ Announced) =>
       Seen("ready", "recv", None, "open", None, None, None)
  /\ ~Left /\ Asked => Seen("await", "recv", None, "open", Text(line), Text(line), None)
  /\ ~Left /\ (Taken \/ Answering) =>
       Seen("await", "reply", Text(line), "open", None, Text(line), None)
  /\ ~Left /\ Answered =>
       Seen("await", "recv", None, "open", None, Text(line), <<"Server", Text(line)>>)

(* In each phase of the conversation. *)
LEMMA ViewsHold == FramingInv => Views
<1> SUFFICES ASSUME FramingInv PROVE Views OBVIOUS
<1> TypeOK /\ InStep /\ MessagesAreWhole /\ InPhase /\ Leaving BY DEF FramingInv
<1>1. ASSUME Dead PROVE Seen("gone", "done", None, "none", None, None, None)
  BY <1>1 DEF Seen, ClientIs, ThreadIs, Held, End, Request, Awaited, Answer, Left, Dead, Pending
<1>2. ~Left /\ cpc # "type" => line \in Lines
  BY LineIsTyped DEF Left
<1>3. ASSUME ~Left, Typing PROVE Seen("ready", "recv", None, "open", None, None, None)
  BY <1>3 DEF Seen, Typing, Idle, ClientIs, ThreadIs, Held, End, Request, Awaited, Answer, Sent,
     Pending, Coming, InPhase
<1>4. ASSUME ~Left, Announced PROVE Seen("ready", "recv", None, "open", None, None, None)
  <2>1. BodySize = Size(line) /\ Size(line) # 0 /\ Len(Body) = 0
    BY <1>4, EmptySeq DEF Announced, Sent, BodySize, InStep, Pending
  <2>2. Request = None
    BY <1>4, <2>1 DEF Request, Announced, Pending, Left
  <2> QED BY <1>4, <2>2 DEF Seen, Announced, ClientIs, ThreadIs, Held, End, Awaited, Answer,
       Pending, Coming, InPhase
<1>5. ASSUME ~Left, Asked
      PROVE  Seen("await", "recv", None, "open", Text(line), Text(line), None)
  <2>1. BodySize = Size(line) /\ Len(Body) = Size(line)
    BY <1>2, <1>5, LineFacts DEF Asked, BodySize, InStep, Pending
  <2>2. Request = Text(line)
    BY <1>5, <2>1 DEF Request, Asked, Pending
  <2> QED BY <1>5, <2>2 DEF Seen, Asked, ClientIs, ThreadIs, Held, End, Awaited, Answer,
       Pending, Coming, InPhase
<1>6. ASSUME ~Left, Taken
      PROVE  Seen("await", "reply", Text(line), "open", None, Text(line), None)
  BY <1>6 DEF Seen, Taken, ClientIs, ThreadIs, Held, End, Request, Awaited, Answer, Pending,
     Coming, InPhase, MessagesAreWhole
<1>7. ~Left /\ Coming => ReplySize = Len(Reply(Text(line)))
  BY DEF Coming, ReplySize, InStep
<1>8. ASSUME ~Left, Answering
      PROVE  Seen("await", "reply", Text(line), "open", None, Text(line), None)
  <2>1. Len(ReplyBody) # ReplySize
    BY <1>2, <1>7, <1>8, LineFacts, EmptySeq DEF Answering, Sent
  <2> QED BY <1>8, <2>1 DEF Seen, Answering, ClientIs, ThreadIs, Held, End, Request, Awaited,
       Answer, Pending, InPhase, MessagesAreWhole
<1>9. ASSUME ~Left, Answered
      PROVE  Seen("await", "recv", None, "open", None, Text(line), <<"Server", Text(line)>>)
  <2>1. line \in Lines BY <1>2, <1>9 DEF Answered, Sent
  <2>2. SubSeq(Reply(Text(line)), PrefixSize + 1, Len(Reply(Text(line)))) = Text(line)
    BY <2>1, LineFacts, ReplyFacts
  <2>3. Answer = <<"Server", Text(line)>>
    BY <1>7, <1>9, <2>2 DEF Answered, Answer
  <2> QED BY <1>9, <2>3 DEF Seen, Answered, Idle, ClientIs, ThreadIs, Held, End, Request, Awaited,
       Pending, InPhase
<1> QED BY <1>1, <1>3, <1>4, <1>5, <1>6, <1>8, <1>9 DEF Views

LEMMA ViewsHoldNext == FramingInv' => Views'
  BY ViewsHold, PTL

Stutter == UNCHANGED <<ClientIs, ThreadIs, Held, End, Request, Awaited, Answer>>

(* The end of the server is seen as such. *)
LEMMA DownIsSeen ==
  ASSUME FramingInv', Dead'
  PROVE  Whole!Down
<1>1. Seen("gone", "done", None, "none", None, None, None)'
  BY ViewsHoldNext DEF Views
<1> QED BY <1>1 DEF Seen, Whole!Down

(* What a client does with a dead server is not. *)
LEMMA DeadIsSeen ==
  ASSUME FramingInv, FramingInv', Dead, Dead'
  PROVE  Stutter
<1>1. Seen("gone", "done", None, "none", None, None, None)
  BY ViewsHold DEF Views
<1>2. Seen("gone", "done", None, "none", None, None, None)'
  BY ViewsHoldNext DEF Views
<1> QED BY <1>1, <1>2 DEF Seen, Stutter

(* The client types a line and sends it: it asks when all of it is sent.   *)
LEMMA ClientSends ==
  ASSUME FramingInv, FramingInv', ClientTypes \/ ClientSendsLength \/ ClientSendsText
  PROVE  Stutter \/ \E m \in {Text(x) : x \in Lines} : Whole!Asks(m)
<1> TypeOK /\ InPhase /\ InPhase' BY DEF FramingInv
<1> Views /\ Views' BY ViewsHold, ViewsHoldNext
<1>1. CASE Dead
  <2>1. Dead'
    BY <1>1 DEF ClientTypes, ClientSendsLength, ClientSendsText, Dead
  <2> QED BY <1>1, <2>1, DeadIsSeen
<1>2. CASE ~Dead
  <2>1. ~Left /\ ~Left'
    BY <1>2 DEF ClientTypes, ClientSendsLength, ClientSendsText, Left, Dead
  <2>2. CASE ClientTypes
    <3>1. Typing /\ Typing'
      BY <2>1, <2>2 DEF ClientTypes, InPhase, Typing, Announced, Asked, Taken, Answering,
         Answered, Sent
    <3> QED BY <2>1, <3>1 DEF Views, Seen, Stutter
  <2>3. CASE ClientSendsLength
    <3>1. Typing /\ line' = line /\ line \in Lines
      BY <2>1, <2>3, LineIsTyped DEF ClientSendsLength, InPhase, Typing, Announced, Asked, Taken,
         Answering, Answered, Sent
    <3>2. Announced' \/ Asked'
      <4>1. spc' = "length_in" /\ toServer' # <<>> /\ cpc' = "text_out"
        <5>1. toServer = <<>> /\ spc = "length_in" /\ ~Dead
          BY <3>1, <1>2 DEF Typing, Idle
        <5>2. toServer' = <<>> \o <<<<Header, Size(line)>>>>
          BY <2>3, <5>1 DEF ClientSendsLength, ToServer
        <5>3. <<<<Header, Size(line)>>>> \in Seq({<<Header, Size(line)>>})
          OBVIOUS
        <5>4. toServer' = <<<<Header, Size(line)>>>>
          BY <5>2, <5>3, ConcatEmptySeq
        <5> QED BY <2>3, <5>1, <5>4 DEF ClientSendsLength
      <4> QED BY <2>1, <4>1 DEF InPhase, Typing, Taken, Answering, Answered, Idle
    <3>3. CASE Announced'
      BY <2>1, <3>1, <3>3 DEF Views, Seen, Stutter
    <3>4. CASE Asked'
      <4>1. Whole!Asks(Text(line))
        BY <2>1, <3>1, <3>4 DEF Views, Seen, Whole!Asks
      <4> QED BY <3>1, <4>1
    <3> QED BY <3>2, <3>3, <3>4
  <2>4. CASE ClientSendsText
    <3>1. line' = line /\ line \in Lines /\ cpc = "text_out" /\ cpc' = "length_in"
      BY <2>4, LineIsTyped DEF ClientSendsText
    <3>2. CASE Size(line) = 0
      <4>1. toServer' = toServer
        BY <2>4, <1>2, <3>1, <3>2, LineFacts, ConcatEmptySeq DEF ClientSendsText, ToServer, TypeOK
      <4>2. /\ Asked => Asked'
            /\ Taken => Taken'
            /\ Answering => Answering'
            /\ Answered => Answered'
        BY <2>4, <3>1, <4>1 DEF ClientSendsText, Asked, Taken, Answering, Answered, Sent, Idle, Pending, Body,
           Coming, ReplyBody
      <4>3. Asked \/ Taken \/ Answering \/ Answered
        BY <2>1, <3>1, <3>2 DEF InPhase, Typing, Announced, Sent
      <4>4. Stutter
        BY <2>1, <3>1, <4>2, <4>3 DEF Views, Seen, Stutter
      <4> QED BY <4>4
    <3>3. CASE Size(line) # 0
      <4>1. Announced
        BY <2>1, <3>1, <3>3 DEF InPhase, Typing, Asked, Taken, Answering, Answered, Sent
      <4>2. Asked'
        <5>1. spc' \in {"length_in", "text_in"} /\ toClient' = <<>>
          BY <2>4, <4>1 DEF ClientSendsText, Announced, Pending
        <5> QED BY <2>1, <3>1, <5>1 DEF InPhase, Typing, Announced, Taken, Answering, Answered, Coming
      <4>3. Whole!Asks(Text(line))
        BY <2>1, <3>1, <4>1, <4>2 DEF Views, Seen, Whole!Asks
      <4> QED BY <3>1, <4>3
    <3> QED BY <3>2, <3>3
  <2> QED BY <2>2, <2>3, <2>4
<1> QED BY <1>1, <1>2

(* It reads the reply, and takes it with the last byte. *)
LEMMA ClientReads ==
  ASSUME FramingInv, FramingInv', ClientReadsLength \/ ClientReadsText
  PROVE  Stutter \/ Whole!Takes
<1> TypeOK /\ InPhase /\ InPhase' BY DEF FramingInv
<1> Views /\ Views' BY ViewsHold, ViewsHoldNext
<1>1. CASE Dead
  <2>1. Dead'
    BY <1>1 DEF ClientReadsLength, ClientReadsText, Dead
  <2> QED BY <1>1, <2>1, DeadIsSeen
<1>2. CASE ~Dead
  <2>1. ~Left /\ ~Left' /\ UNCHANGED <<line, spc, toServer>> /\ toClient # <<>>
    <3>1. CASE ClientReadsLength
      BY <1>2, <3>1 DEF ClientReadsLength, Left, Dead
    <3>2. CASE ClientReadsText
      <4>1. PICK k \in 1..Len(toClient) : TRUE
        BY <3>2 DEF ClientReadsText
      <4>2. toClient # <<>>
        BY <4>1, EmptySeq
      <4> QED BY <1>2, <3>2, <4>2 DEF ClientReadsText, Left, Dead
    <3> QED BY <3>1, <3>2
  <2>2. Answering \/ Answered
    BY <2>1 DEF InPhase, Typing, Announced, Asked, Taken, Answering, Answered
  <2>3. CASE cpc' = "text_in"
    <3>1. (Answering /\ Answering') \/ (Answered /\ Answered')
      BY <2>1, <2>2, <2>3 DEF InPhase, Typing, Announced, Asked, Taken, Answering, Answered, Idle
    <3> QED BY <2>1, <3>1 DEF Views, Seen, Stutter
  <2>4. CASE cpc' = "type"
    <3>1. Answered /\ Typing'
      BY <2>1, <2>2, <2>4 DEF InPhase, Typing, Announced, Asked, Taken, Answering, Answered, Idle, Sent
    <3>2. <<"Server", Text(line)>> # None
      <4>1. line \in Lines
        BY <2>1, <3>1, LineIsTyped DEF Answered, Sent, Left
      <4> QED BY <4>1, TextFacts
    <3> QED BY <2>1, <3>1, <3>2 DEF Views, Seen, Whole!Takes
  <2> QED BY <2>3, <2>4 DEF ClientReadsLength, ClientReadsText
<1> QED BY <1>1, <1>2

(* It leaves between two lines, or is killed anywhere: the message it was  *)
(* sending is whole or cut off, and a reply it has not read resets the     *)
(* connection.                                                             *)
LEMMA ClientLeaves ==
  ASSUME FramingInv, FramingInv', ClientQuits \/ ClientKilled
  PROVE  Stutter \/ Whole!Quits \/ Whole!Killed \/ Whole!CutOff
<1> TypeOK /\ InStep /\ InPhase BY DEF FramingInv
<1> Views BY ViewsHold
<1>1. CASE Dead
  <2>1. Dead'
    BY <1>1 DEF ClientQuits, ClientKilled, Dead
  <2> QED BY <1>1, <2>1, DeadIsSeen
<1>2. CASE ~Dead
  <2>1. /\ ~Left /\ cpc' = "gone" /\ toClient' = <<>> /\ UNCHANGED <<line, serverVars, toServer>>
        /\ conn = "open" /\ conn' = IF toClient = <<>> THEN "closed" ELSE "resetting"
    <3>1. CASE ClientQuits
      <4>1. toClient = <<>> BY <3>1 DEF ClientQuits, InStep
      <4> QED BY <1>2, <3>1, <4>1 DEF ClientQuits, Left, InPhase
    <3>2. CASE ClientKilled
      BY <1>2, <3>2 DEF ClientKilled, Left, InPhase
    <3> QED BY <3>1, <3>2
  <2>2. /\ ClientIs' = "gone" /\ Awaited' = None /\ Answer' = None
        /\ ThreadIs' = ThreadIs /\ Held' = Held
    BY <2>1 DEF ClientIs, Awaited, Answer, ThreadIs, Held, Left
  <2>3. spc \notin {"spin", "done", "dead"}
    BY <2>1 DEF InPhase, Typing, Announced, Asked, Taken, Answering, Answered, Idle, Pending
  <2>4. End' = IF toClient = <<>> THEN "open" ELSE "reset"
    BY <2>1, <2>3 DEF End
  <2>5. /\ Body' = Body /\ BodySize' = BodySize
        /\ Pending' <=> Pending
    BY <2>1 DEF Body, BodySize, Pending
  <2>6. Request' = IF ~Pending THEN None ELSE IF Len(Body) = BodySize THEN Body ELSE Half
    BY <2>1, <2>3, <2>5 DEF Request
  <2>7. CASE Typing
    <3>1. Request' = None /\ End' = "open"
      BY <2>4, <2>6, <2>7 DEF Typing, Idle, Pending
    <3> QED BY <2>1, <2>2, <2>7, <3>1 DEF Views, Seen, Whole!Quits
  <2>8. CASE Announced
    <3>1. Len(Body) = 0 /\ BodySize = Size(line) /\ Size(line) # 0 /\ Pending
      BY <2>8, EmptySeq DEF Announced, Sent, BodySize, InStep, Pending
    <3>2. Request' = Half /\ End' = "open"
      BY <2>4, <2>6, <2>8, <3>1 DEF Announced
    <3> QED BY <2>1, <2>2, <2>8, <3>2 DEF Views, Seen, Whole!CutOff
  <2>9. CASE Asked
    <3>1. Request' = Request
      <4>1. line \in Lines
        BY <2>1, <2>9, LineIsTyped DEF Asked, Left
      <4>2. Pending /\ Body = Text(line) /\ BodySize = Size(line)
        BY <2>9 DEF Asked, BodySize, InStep, Pending
      <4>3. Request' = Text(line)
        BY <2>6, <4>1, <4>2, LineFacts
      <4> QED BY <2>1, <2>9, <4>3 DEF Views, Seen
    <3>2. End' = "open"
      BY <2>4, <2>9 DEF Asked
    <3> QED BY <2>1, <2>2, <2>9, <3>1, <3>2 DEF Views, Seen, Whole!Killed
  <2>10. CASE Taken \/ Answering
    <3>1. Request' = None
      BY <2>6, <2>10 DEF Taken, Answering, Pending
    <3>2. End' \in {"open", "reset"}
      BY <2>4
    <3> QED BY <2>1, <2>2, <2>10, <3>1, <3>2 DEF Views, Seen, Whole!Killed
  <2>11. CASE Answered
    <3>1. Request' = None
      BY <2>6, <2>11 DEF Answered, Idle, Pending
    <3>2. toClient # <<>>
      <4>1. CASE cpc # "text_in" BY <2>11, <4>1 DEF Answered, Coming
      <4>2. CASE cpc = "text_in"
        <5>1. cgot \o toClient = Reply(Text(line)) /\ Len(cgot) < Len(Reply(Text(line)))
          BY <2>11, <4>2 DEF Answered, ReplyBody, TypeOK, InStep
        <5>2. toClient = <<>> => cgot \o toClient = cgot
          BY ConcatEmptySeq DEF TypeOK
        <5>3. Len(cgot) \in Nat
          BY LenProperties DEF TypeOK
        <5> QED BY <5>1, <5>2, <5>3
      <4> QED BY <4>1, <4>2
    <3>3. End' = "reset"
      BY <2>4, <3>2
    <3>4. <<"Server", Text(line)>> # None
      <4>1. line \in Lines
        BY <2>1, <2>11, LineIsTyped DEF Answered, Sent, Left
      <4> QED BY <4>1, TextFacts
    <3> QED BY <2>1, <2>2, <2>11, <3>1, <3>3, <3>4 DEF Views, Seen, Whole!Killed
  <2> QED BY <2>1, <2>7, <2>8, <2>9, <2>10, <2>11 DEF InPhase
<1> QED BY <1>1, <1>2

(* While the server runs its steps leave what is seen of the client alone. *)
LEMMA ServerAlone ==
  ASSUME UNCHANGED clientVars, ~Dead, ~Dead'
  PROVE  /\ Left' <=> Left
         /\ ClientIs' = ClientIs /\ Awaited' = Awaited
         /\ toClient' = toClient \/ Left => Answer' = Answer
<1>1. /\ Left' <=> Left
      /\ Sent' <=> Sent
  BY DEF Left, Sent
<1> QED
  BY <1>1 DEF ClientIs, Awaited, Answer, Coming, ReplyBody, ReplySize

(* A message is received with its last byte. *)
LEMMA ServerReads ==
  ASSUME FramingInv, FramingInv', ServerReadsLength \/ ServerReadsText
  PROVE  Stutter \/ Whole!Receives
<1> TypeOK /\ InStep /\ Leaving /\ MessagesAreWhole' BY DEF FramingInv
<1>1. /\ UNCHANGED <<clientVars, conn, toClient>> /\ Pending /\ line \in Lines
      /\ spc \in {"length_in", "text_in"} /\ spc' \in {"text_in", "length_out"}
  BY DEF ServerReadsLength, ServerReadsText, Pending, Leaving
<1>2. /\ ClientIs' = ClientIs /\ Awaited' = Awaited /\ Answer' = Answer /\ End' = End
      /\ ThreadIs = "recv" /\ Held = None
  BY <1>1, ServerAlone DEF Dead, End, ThreadIs, Held
<1>3. BodySize = Size(line) /\ Size(line) \in Nat /\ Text(line) \in Seq(Item)
  BY <1>1, LineFacts DEF BodySize, InStep, Pending
<1>4. sgot' \o toServer' = Body /\ swant' = BodySize
  <2>1. CASE ServerReadsLength
    <3>1. sgot' = <<>> /\ toServer' = Tail(toServer) /\ toServer # <<>>
      BY <2>1 DEF ServerReadsLength
    <3>2. Tail(toServer) \in Seq(Item)
      BY <3>1, HeadTailProperties DEF TypeOK
    <3> QED BY <2>1, <3>1, <3>2, ConcatEmptySeq DEF ServerReadsLength, Body, BodySize
  <2>2. CASE ServerReadsText
    <3>1. PICK k \in 1..Len(toServer) :
            /\ sgot' = sgot \o SubSeq(toServer, 1, k)
            /\ toServer' = SubSeq(toServer, k + 1, Len(toServer))
      BY <2>2 DEF ServerReadsText
    <3>2. sgot \in Seq(Item) /\ toServer \in Seq(Item)
      BY DEF TypeOK
    <3>3. sgot' \o toServer' = sgot \o toServer
      BY <3>1, <3>2, Cut
    <3> QED BY <2>2, <3>3 DEF ServerReadsText, Body, BodySize
  <2> QED BY <2>1, <2>2
<1>5. CASE spc' = "text_in"
  <2>1. /\ Body' = Body /\ BodySize' = BodySize
        /\ Pending'
    BY <1>4, <1>5 DEF Body, BodySize, Pending
  <2>2. Request' = Request
    BY <1>1, <1>5, <2>1 DEF Request
  <2>3. ThreadIs' = "recv" /\ Held' = None
    BY <1>5 DEF ThreadIs, Held
  <2> QED BY <1>2, <2>2, <2>3 DEF Stutter
<1>6. CASE spc' = "length_out"
  <2>1. sgot' = Text(line) /\ toServer' = <<>>
    BY <1>1, <1>6 DEF FramingInv, InStep, MessagesAreWhole
  <2>2. Body = Text(line)
    BY <1>3, <1>4, <2>1, ConcatEmptySeq
  <2>3. Request = Text(line)
    <3>1. Len(Body) = BodySize
      BY <1>1, <1>3, <2>2, LineFacts
    <3> QED BY <1>1, <2>2, <3>1 DEF Request
  <2>4. Text(line) \notin {Half, None}
    BY <1>1, TextFacts
  <2>5. Request' = None /\ Held' = Text(line) /\ ThreadIs' = "reply"
    BY <1>6, <2>1 DEF Request, Held, ThreadIs, Pending
  <2> QED BY <1>2, <2>3, <2>4, <2>5 DEF Whole!Receives
<1> QED BY <1>1, <1>5, <1>6

(* The end of the stream is the end of the conversation, or half a         *)
(* message.                                                                *)
LEMMA ServerEnds ==
  ASSUME FramingInv, FramingInv', ServerMeetsEnd \/ ServerSpins
  PROVE  Whole!MeetsEnd \/ Whole!Spins
<1> TypeOK /\ InPhase /\ Leaving BY DEF FramingInv
<1>1. /\ UNCHANGED <<clientVars, swant, sgot, conn, toServer, toClient>>
      /\ toServer = <<>> /\ conn \in {"closed", "refusing", "broken"} /\ ~Dead /\ ~Dead'
  BY DEF ServerMeetsEnd, ServerSpins, AtEnd, Dead
<1>2. cpc = "gone" /\ Left
  BY <1>1 DEF InPhase, Left, Leaving
<1>3. /\ ClientIs' = ClientIs /\ Awaited' = Awaited /\ Answer' = Answer
      /\ ClientIs = "gone" /\ Awaited = None /\ Answer = None
  BY <1>1, <1>2, ServerAlone DEF ClientIs, Awaited, Answer
<1>4. CASE ServerMeetsEnd
  <2>1. spc = "length_in" /\ spc' = "done"
    BY <1>4 DEF ServerMeetsEnd
  <2>2. /\ ThreadIs = "recv" /\ ThreadIs' = "done" /\ Held = None /\ Held' = None
        /\ Request = None /\ Request' = None /\ End = "open" /\ End' = "none"
    BY <1>1, <2>1 DEF ThreadIs, Held, Request, End, Pending
  <2> QED BY <1>3, <2>2 DEF Whole!MeetsEnd
<1>5. CASE ServerSpins
  <2>1. spc = "text_in" /\ spc' = "spin"
    BY <1>5 DEF ServerSpins
  <2>2. sgot \o toServer = sgot /\ Len(sgot) # swant
    BY <1>1, <2>1, ConcatEmptySeq, LenProperties DEF TypeOK
  <2>3. Request = Half
    BY <1>2, <2>1, <2>2 DEF Request, Pending, Body, BodySize
  <2>4. /\ ThreadIs = "recv" /\ ThreadIs' = "spin" /\ Held = None /\ Held' = None
        /\ Request' = Half /\ End' = End
    BY <1>1, <2>1 DEF ThreadIs, Held, Request, End
  <2> QED BY <1>3, <2>3, <2>4 DEF Whole!Spins
<1> QED BY <1>4, <1>5

(* A reply is sent when all of it is. *)
LEMMA ServerSends ==
  ASSUME FramingInv, FramingInv', ServerSendsLength \/ ServerSendsText
  PROVE  Stutter \/ Whole!Replies
<1> TypeOK /\ InStep /\ InPhase /\ InPhase' /\ Leaving /\ MessagesAreWhole BY DEF FramingInv
<1> Views /\ Views' BY ViewsHold, ViewsHoldNext
<1>1. /\ UNCHANGED <<clientVars, swant, sgot, toServer>> /\ toServer = <<>> /\ ~Dead /\ ~Dead'
      /\ spc \in {"length_out", "text_out"} /\ spc' \in {"text_out", "length_in"}
      /\ conn' = IF conn = "closed" THEN "refusing" ELSE conn
      /\ conn # "open" => toClient' = toClient
  BY DEF ServerSendsLength, ServerSendsText, ToClient, InStep, Dead
<1>2. ThreadIs = "reply" /\ Request = None /\ Request' = None /\ Held = sgot /\ End' = End
  BY <1>1 DEF ThreadIs, Request, Held, End, Pending
<1>3. /\ Left' <=> Left
      /\ ClientIs' = ClientIs /\ Awaited' = Awaited
      /\ Left => Answer' = Answer
  BY <1>1, ServerAlone
<1>4. CASE ServerSendsLength
  <2>1. ThreadIs' = "reply" /\ Held' = Held
    BY <1>1, <1>4 DEF ServerSendsLength, ThreadIs, Held
  <2>2. Answer' = Answer
    <3>1. CASE Left BY <1>3, <3>1
    <3>2. CASE ~Left
      <4>1. Taken /\ Answering'
        BY <1>1, <1>3, <1>4, <3>2 DEF ServerSendsLength, InPhase, Typing, Announced, Asked, Taken,
           Answering, Answered, Idle, Pending
      <4> QED BY <1>3, <3>2, <4>1 DEF Views, Seen
    <3> QED BY <3>1, <3>2
  <2> QED BY <1>2, <1>3, <2>1, <2>2 DEF Stutter
<1>5. CASE ServerSendsText
  <2>1. spc = "text_out" /\ spc' = "length_in"
    BY <1>5 DEF ServerSendsText
  <2>2. ThreadIs' = "recv" /\ Held' = None
    BY <2>1 DEF ThreadIs, Held
  <2>3. Answer' = IF ClientIs = "gone" THEN None ELSE <<"Server", Held>>
    <3>1. CASE Left
      BY <1>3, <3>1 DEF Answer, ClientIs
    <3>2. CASE ~Left
      <4>1. Answered' /\ line' = line /\ sgot = Text(line)
        BY <1>1, <1>3, <2>1, <3>2 DEF InPhase, Typing, Announced, Asked, Taken, Answering,
           Answered, Idle, Pending, MessagesAreWhole, Sent
      <4> QED BY <1>2, <1>3, <3>2, <4>1 DEF Views, Seen, ClientIs
    <3> QED BY <3>1, <3>2
  <2> QED BY <1>2, <1>3, <2>2, <2>3 DEF Whole!Replies, Whole!Prefixed
<1> QED BY <1>4, <1>5

(* The server dies of a signal, of SIGPIPE or of an error. *)
LEMMA ServerDies ==
  ASSUME FramingInv, FramingInv', ServerReadFails \/ ServerSendFails \/ ServerKilled
  PROVE  Whole!ReadFails \/ Whole!ReplyFails \/ Whole!ServerKilled
<1> TypeOK /\ InStep /\ InPhase /\ Leaving BY DEF FramingInv
<1>1. Dead'
  BY DEF ServerReadFails, ServerSendFails, ServerKilled, Dies, Dead
<1>2. Whole!Down
  BY <1>1, DownIsSeen
<1>3. CASE ServerReadFails
  <2>1. ThreadIs = "recv" /\ End = "reset"
    BY <1>3 DEF ServerReadFails, ThreadIs, End
  <2> QED BY <1>2, <2>1 DEF Whole!ReadFails
<1>4. CASE ServerSendFails
  <2>1. ThreadIs = "reply" /\ ClientIs = "gone"
    BY <1>4 DEF ServerSendFails, Sendable, ThreadIs, ClientIs, InPhase
  <2> QED BY <1>2, <2>1 DEF Whole!ReplyFails
<1>5. CASE ServerKilled
  <2>1. ThreadIs # "done"
    BY <1>5 DEF ServerKilled, ThreadIs, TypeOK
  <2> QED BY <1>2, <2>1 DEF Whole!ServerKilled
<1> QED BY <1>3, <1>4, <1>5

(* No other step is seen. *)
LEMMA NothingIsSeen ==
  ASSUME FramingInv, FramingInv',
         \/ ClientSendFails \/ ClientMeetsEnd \/ ClientSpins \/ ResetArrives \/ UNCHANGED vars
  PROVE  Stutter
<1>1. CASE ClientSendFails \/ ClientMeetsEnd \/ ClientSpins
  <2>1. Dead /\ Dead'
    BY <1>1 DEF ClientSendFails, ClientMeetsEnd, ClientSpins, Dead
  <2> QED BY <2>1, DeadIsSeen
<1>2. CASE ResetArrives \/ UNCHANGED vars
  BY <1>2 DEF ResetArrives, Stutter, ClientIs, ThreadIs, Held, End, Request, Awaited, Answer,
     Left, Dead, Sent, Pending, Body, BodySize, Coming, ReplyBody, ReplySize
<1> QED BY <1>1, <1>2

(* A new connection is a new conversation. *)
LEMMA ConversationInitially == Init => Whole!Init
  BY DEF Init, Whole!Init, ClientIs, ThreadIs, Held, End, Request, Awaited, Answer, Left, Dead,
     Sent, Pending, Coming

(* A call of send or recv is a step of the conversation, or is not seen.   *)
LEMMA ConversationStep ==
  ASSUME FramingInv, FramingInv', [Next]_vars
  PROVE  [Whole!Next]_Whole!vars
<1>1. Stutter => UNCHANGED Whole!vars
  BY DEF Stutter, Whole!vars
<1>2. CASE ClientTypes \/ ClientSendsLength \/ ClientSendsText
  BY <1>1, <1>2, ClientSends DEF Whole!Next
<1>3. CASE ClientReadsLength \/ ClientReadsText
  BY <1>1, <1>3, ClientReads DEF Whole!Next
<1>4. CASE ClientQuits \/ ClientKilled
  BY <1>1, <1>4, ClientLeaves DEF Whole!Next
<1>5. CASE ServerReadsLength \/ ServerReadsText
  BY <1>1, <1>5, ServerReads DEF Whole!Next
<1>6. CASE ServerMeetsEnd \/ ServerSpins
  BY <1>1, <1>6, ServerEnds DEF Whole!Next
<1>7. CASE ServerSendsLength \/ ServerSendsText
  BY <1>1, <1>7, ServerSends DEF Whole!Next
<1>8. CASE ServerReadFails \/ ServerSendFails \/ ServerKilled
  BY <1>1, <1>8, ServerDies DEF Whole!Next
<1>9. CASE \/ ClientSendFails \/ ClientMeetsEnd \/ ClientSpins \/ ResetArrives
           \/ UNCHANGED vars
  BY <1>1, <1>9, NothingIsSeen
<1> QED
  BY <1>2, <1>3, <1>4, <1>5, <1>6, <1>7, <1>8, <1>9, StepCases

(* The calls of send and recv implement a conversation of whole messages,  *)
(* for all lines, all pieces recv may return and all moments at which      *)
(* either process may be killed.                                           *)
THEOREM FramingIsConversation == Spec => ConversationRefinement
  BY ConversationInitially, ConversationStep, FramingInvariant, PTL
     DEF Spec, ConversationRefinement, Whole!Spec
-----------------------------------------------------------------------------
(* What a conversation promises, the calls of send and recv promise too:   *)
(* the theorems of ConversationProofs are cited for what is seen of them.  *)

Seeing == INSTANCE ConversationProofs WITH
  Messages <- {Text(m) : m \in Lines}, cpc <- ClientIs, tpc <- ThreadIs, text <- Held,
  conn <- End, request <- Request, asked <- Awaited, answer <- Answer

LEMMA SeenConstants == Seeing!ConversationConstants
<1>1. None # Half
  BY FramingAssumption
<1>2. \A m \in Lines : Text(m) \notin {Half, None} /\ <<"Server", Text(m)>> # None
  BY FramingAssumption
<1> QED BY <1>1, <1>2 DEF Seeing!ConversationConstants, Seeing!Prefixed

LEMMA SeenIsSpec == Whole!Spec => Seeing!Spec
<1>1. Whole!Init => Seeing!Init
  BY DEF Whole!Init, Seeing!Init
<1>2. [Whole!Next]_Whole!vars => [Seeing!Next]_Seeing!vars
  BY DEF Whole!Next, Whole!vars, Seeing!Next, Seeing!vars,
     Whole!Receives, Whole!Spins, Whole!Replies, Whole!ReplyFails, Whole!ReadFails,
     Whole!MeetsEnd, Whole!ServerKilled, Whole!Cancelled, Whole!Takes, Whole!Quits,
     Whole!Killed, Whole!CutOff, Whole!Asks, Whole!Down, Whole!Prefixed,
     Seeing!Receives, Seeing!Spins, Seeing!Replies, Seeing!ReplyFails, Seeing!ReadFails,
     Seeing!MeetsEnd, Seeing!ServerKilled, Seeing!Cancelled, Seeing!Takes, Seeing!Quits,
     Seeing!Killed, Seeing!CutOff, Seeing!Asks, Seeing!Down, Seeing!Prefixed
<1> QED BY <1>1, <1>2, PTL DEF Whole!Spec, Seeing!Spec

(* The line a client waits on is whole in one place: in the stream to the  *)
(* server, with the thread, or in the reply.                               *)
THEOREM LineInOnePlace == Spec => []OnePlace
<1>1. Seeing!OnePlace => OnePlace
  BY DEF OnePlace, Whole!OnePlace, Seeing!OnePlace, Whole!Prefixed, Seeing!Prefixed
<1> QED
  BY <1>1, FramingIsConversation, SeenIsSpec, SeenConstants, Seeing!MessageInOnePlace, PTL
     DEF ConversationRefinement

(* The calls of send and recv implement the echo service: Framing          *)
(* implements Conversation, and Conversation implements EchoService.       *)
THEOREM FramingIsEcho == Spec => EchoRefinement
<1>1. Seeing!Echo!EchoInit => Whole!Echo!EchoInit
  BY DEF Seeing!Echo!EchoInit, Whole!Echo!EchoInit
<1>2. [Seeing!Echo!EchoNext]_Seeing!Echo!echoVars => [Whole!Echo!EchoNext]_Whole!Echo!echoVars
  BY DEF Seeing!Echo!EchoNext, Seeing!Echo!echoVars, Whole!Echo!EchoNext, Whole!Echo!echoVars,
     Seeing!Echo!Ask, Seeing!Echo!Answer, Seeing!Echo!Take, Seeing!Echo!Abandon,
     Seeing!Echo!Prefixed, Whole!Echo!Ask, Whole!Echo!Answer, Whole!Echo!Take,
     Whole!Echo!Abandon, Whole!Echo!Prefixed
<1> QED
  BY <1>1, <1>2, FramingIsConversation, SeenIsSpec, SeenConstants, Seeing!ConversationIsEcho, PTL
     DEF ConversationRefinement, EchoRefinement, Whole!EchoRefinement, Seeing!EchoRefinement,
         Seeing!Echo!EchoSpec, Whole!Echo!EchoSpec
=============================================================================
