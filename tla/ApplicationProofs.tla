------------------------- MODULE ApplicationProofs -------------------------
(***************************************************************************)
(* That the application says what it is asked in the order in which it is  *)
(* asked: it implements LossyQueue, for every number of messages of every  *)
(* source, every interleaving of the stages and every failure on the way.  *)
(***************************************************************************)
EXTENDS Application, TLAPS

Holding == {"lock", "work", "send", "nil", "sunrise"}

----------------------------------------------------------------------------
(* Kinds of steps *)

\* A stage goes on without giving its message up.
Moves(p, there) ==
    /\ pc[p] \in Holding <=> there \in Holding
    /\ p = "fader" => pc[p] \notin Holding
    /\ Go(p, there)
    /\ UNCHANGED <<hand, rest>>

\* A stage gives its message up.
Drops(p) ==
    /\ Release(p)
    /\ UNCHANGED rest

\* Who brings the messages of a source.
Brings(p, s) ==
    \/ p = "recognize" /\ s = "voice"
    \/ p = "listener" /\ s = "chat"
    \/ p = "streamer" /\ s = "fade"
    \/ p = "loop" /\ s = "loop"

\* The states in which a message is brought and those it leads to.
Idle == {"select", "start", "round", "ask", "wait"}

\* A message has a source and a number.
LEMMA MessageFields ==
    ASSUME NEW m \in Message
    PROVE  /\ m.src \in Source /\ m.n \in Nat /\ m # Nil
           /\ m = [src |-> m.src, n |-> m.n]
  <1>1. PICK s \in Source : m \in [src : {s}, n : 1..Limit[s]]
    BY DEF Message
  <1>2. m # Nil
    BY NilAssumption
  <1>. QED
    BY <1>1, <1>2, LimitAssumption DEF Source

\* What a source brings is a message.
LEMMA NewMessage ==
    ASSUME NEW s \in Source, NEW k \in Nat, k < Limit[s]
    PROVE  [src |-> s, n |-> k + 1] \in Message
  <1>1. Limit[s] \in Nat
    BY LimitAssumption DEF Source
  <1>2. k + 1 \in 1..Limit[s]
    BY <1>1
  <1>3. [src |-> s, n |-> k + 1] \in [src : {s}, n : 1..Limit[s]]
    BY <1>2
  <1>. QED
    BY <1>3 DEF Message

\* Who receives from whom.
LEMMA Receivers ==
    ASSUME NEW p \in DOMAIN Receiver
    PROVE  \/ p = "recognize" /\ Receiver[p] = "parse"
           \/ p = "listener" /\ Receiver[p] = "chat"
           \/ p = "chat" /\ Receiver[p] = "parse"
           \/ p = "parse" /\ Receiver[p] = "control"
           \/ p \in {"control", "loop", "fader"} /\ Receiver[p] = "compose"
           \/ p = "compose" /\ Receiver[p] = "synthesize"
           \/ p = "synthesize" /\ Receiver[p] = "transmit"
           \/ p = "streamer" /\ Receiver[p] = "fader"
  BY DEF Receiver

\* Every step is of one of these kinds.
LEMMA Kinds ==
    ASSUME TypeOK, [Next]_vars
    PROVE  \/ \E p \in Proc, there \in PcSet : Moves(p, there)
           \/ \E p \in {"recognize", "parse", "synthesize"} : Drops(p)
           \/ \E p \in Proc, s \in Source, here \in Idle, there \in Holding :
                Brings(p, s) /\ Bring(p, s, here, there)
           \/ \E p \in DOMAIN Receiver : Handover(p)
           \/ Transmit
           \/ \E b \in BOOLEAN : AppendFade(b) \/ Announce(b)
           \/ HandleStarted
           \/ RepeatFade \/ PassDeadline
           \/ Cancel
           \/ \E how \in {"clean", "forced"} : Die(how)
           \/ UNCHANGED vars
  <1>. USE DEF Proc, PcSet, Holding, Idle
  <1>1. ASSUME NEW ok \in BOOLEAN, LockRecognizer(ok) \/ Recognize(ok) \/ ParseText(ok)
        PROVE  \/ \E p \in Proc, there \in PcSet : Moves(p, there)
               \/ \E p \in {"recognize", "parse", "synthesize"} : Drops(p)
    <2>1. CASE ~ok
      BY <1>1, <2>1 DEF LockRecognizer, Recognize, ParseText, Continue, Drops
    <2>2. CASE ok /\ LockRecognizer(ok)
      <3>1. Moves("recognize", "work")
        BY <2>2 DEF LockRecognizer, Continue, At, Moves
      <3>. QED BY <3>1
    <2>3. CASE ok /\ Recognize(ok)
      <3>1. Moves("recognize", "send")
        BY <2>3 DEF Recognize, Continue, At, Moves
      <3>. QED BY <3>1
    <2>4. CASE ok /\ ParseText(ok)
      <3>1. Moves("parse", "send")
        BY <2>4 DEF ParseText, Continue, At, Moves
      <3>. QED BY <3>1
    <2>. QED
      BY <1>1, <2>1, <2>2, <2>3, <2>4
  <1>2. ASSUME NEW ok \in BOOLEAN, LockSpeaker(ok) \/ Synthesize(ok)
        PROVE  \/ \E p \in Proc, there \in PcSet : Moves(p, there)
               \/ \E p \in {"recognize", "parse", "synthesize"} : Drops(p)
    <2>1. CASE ~ok
      BY <1>2, <2>1 DEF LockSpeaker, Synthesize, Continue, Drops
    <2>2. CASE ok /\ LockSpeaker(ok)
      <3>1. Moves("synthesize", "work")
        BY <2>2 DEF LockSpeaker, Continue, At, Moves
      <3>. QED BY <3>1
    <2>3. CASE ok /\ Synthesize(ok)
      <3>1. Moves("synthesize", "send")
        BY <2>3 DEF Synthesize, Continue, At, Moves
      <3>. QED BY <3>1
    <2>. QED
      BY <1>2, <2>1, <2>2, <2>3
  <1>3. ASSUME \/ HandleRequest \/ ComposeCall \/ FadeTick \/ EndAnnounce \/ Tick
               \/ SkipPicture \/ FadesPending \/ AskAgain
               \/ StopController \/ \E due \in BOOLEAN : EndRound(due)
        PROVE  \E p \in Proc, there \in PcSet : Moves(p, there)
    <2>1. CASE HandleRequest
      <3>1. Moves("control", "nil") \/ Moves("control", "send")
        BY <2>1 DEF HandleRequest, At, Moves
      <3>. QED BY <3>1
    <2>2. CASE ComposeCall
      <3>1. Moves("compose", "send")
        BY <2>2 DEF ComposeCall, At, Moves
      <3>. QED BY <3>1
    <2>3. CASE FadeTick
      <3>1. Moves("fader", "announce")
        BY <2>3 DEF FadeTick, At, Moves
      <3>. QED BY <3>1
    <2>4. CASE EndAnnounce
      <3>1. Moves("fader", "select")
        BY <2>4 DEF EndAnnounce, At, Moves
      <3>. QED BY <3>1
    <2>5. CASE Tick
      <3>1. Moves("loop", "round")
        BY <2>5 DEF Tick, At, Moves
      <3>. QED BY <3>1
    <2>6. CASE SkipPicture
      <3>1. Moves("loop", "select")
        BY <2>6 DEF SkipPicture, FadesResolved, Moves
      <3>. QED BY <3>1
    <2>7. CASE StopController
      <3>1. Moves("loop", "left")
        BY <2>7 DEF StopController, At, Moves
      <3>. QED BY <3>1
    <2>8. ASSUME NEW due \in BOOLEAN, EndRound(due)
          PROVE  \E p \in Proc, there \in PcSet : Moves(p, there)
      <3>1. Moves("loop", "ask") \/ Moves("loop", "select")
        BY <2>8 DEF EndRound, At, Moves
      <3>. QED BY <3>1
    <2>9. CASE FadesPending
      <3>1. Moves("loop", "wait")
        BY <2>9 DEF FadesPending, At, Moves
      <3>. QED BY <3>1
    <2>10. CASE AskAgain
      <3>1. Moves("loop", "ask")
        BY <2>10 DEF AskAgain, At, Moves
      <3>. QED BY <3>1
    <2>. QED
      BY <1>3, <2>1, <2>2, <2>3, <2>4, <2>5, <2>6, <2>7, <2>8, <2>9, <2>10
  <1>4. ASSUME \/ TakeTransmission \/ ReceiveChat \/ ReceiveRemoval \/ StartController
               \/ BroadcastCall \/ SendPicture
        PROVE  \E p \in Proc, s \in Source, here \in Idle, there \in Holding :
                 Brings(p, s) /\ Bring(p, s, here, there)
    <2>1. /\ Brings("recognize", "voice") /\ Brings("listener", "chat")
          /\ Brings("streamer", "fade") /\ Brings("loop", "loop")
      BY DEF Brings
    <2>2. CASE SendPicture
      <3>1. pc["loop"] \in Idle /\ Bring("loop", "loop", pc["loop"], "sunrise")
        BY <2>2 DEF SendPicture, FadesResolved
      <3>. QED
        BY <2>1, <3>1 DEF Source
    <2>. QED
      BY <1>4, <2>1, <2>2 DEF TakeTransmission, ReceiveChat, ReceiveRemoval,
         StartController, BroadcastCall, Source
  <1>5. ASSUME Exit \/ ForceExit
        PROVE  \E how \in {"clean", "forced"} : Die(how)
    BY <1>5 DEF Exit, ForceExit
  <1>. QED
    BY <1>1, <1>2, <1>3, <1>4, <1>5
    DEF Next, WorkNext, RoundNext, InputNext, EndNext

----------------------------------------------------------------------------
(* Types *)

\* The hands of a state that has its types.
LEMMA Hands ==
    ASSUME TypeOK, NEW p \in Proc
    PROVE  /\ pc[p] \in Holding => hand[p] \in Message
           /\ pc[p] \notin Holding => hand[p] = Nil
  BY DEF TypeOK, Holding

\* Initially every variable has its type.
LEMMA TypeInit == ASSUME Init PROVE TypeOK
  <1>1. pc \in [Proc -> PcSet] /\ \A p \in Proc : pc[p] \notin Holding /\ hand[p] = Nil
    BY DEF Init, PcSet, Holding
  <1>2. count \in [Source -> Nat] /\ \A s \in Source : count[s] <= Limit[s]
    BY LimitAssumption DEF Init, Source
  <1>3. hand \in [Proc -> Message \cup {Nil}]
    BY DEF Init
  <1>4. pendingFades \in Seq(Message) /\ aired \in [Source -> Seq(Message)]
    BY DEF Init
  <1>5. passed \in BOOLEAN /\ cancelled \in BOOLEAN /\ exit \in {"running", "clean", "forced"}
    BY DEF Init
  <1>. QED
    BY <1>1, <1>2, <1>3, <1>4, <1>5 DEF TypeOK, Holding

\* Every step keeps the types.
LEMMA TypeStep == ASSUME TypeOK, [Next]_vars PROVE TypeOK'
  <1>. DEFINE Typed(h, where) == \A p \in Proc : h[p] # Nil <=> where[p] \in Holding
  <1>0. /\ pc \in [Proc -> PcSet] /\ hand \in [Proc -> Message \cup {Nil}]
        /\ Typed(hand, pc) /\ Nil \notin Message
        /\ Holding \subseteq PcSet
    BY NilAssumption DEF TypeOK, Holding, PcSet
  <1>1. ASSUME pc' \in [Proc -> PcSet], hand' \in [Proc -> Message \cup {Nil}],
               Typed(hand', pc'), pendingFades' \in Seq(Message), passed' \in BOOLEAN,
               UNCHANGED <<count, cancelled, exit, aired>>
        PROVE  TypeOK'
    BY <1>1 DEF TypeOK, Holding
  <1>2. ASSUME NEW p \in Proc, NEW there \in PcSet, Moves(p, there)
        PROVE  TypeOK'
    <2>1. pc' \in [Proc -> PcSet] /\ Typed(hand', pc') /\ hand' = hand
      BY <1>0, <1>2 DEF Moves, Go
    <2>. QED
      BY <1>0, <1>1, <1>2, <2>1 DEF Moves, rest, TypeOK
  <1>3. ASSUME NEW p \in Proc, Release(p)
        PROVE  /\ pc' \in [Proc -> PcSet] /\ hand' \in [Proc -> Message \cup {Nil}]
               /\ Typed(hand', pc')
    BY <1>0, <1>3 DEF Release, Go, PcSet, Holding
  <1>4. ASSUME NEW p \in {"recognize", "parse", "synthesize"}, Drops(p)
        PROVE  TypeOK'
    <2>1. p \in Proc
      BY DEF Proc
    <2>. QED
      BY <1>1, <1>3, <1>4, <2>1 DEF Drops, rest, TypeOK
  <1>5. ASSUME NEW p \in Proc, NEW s \in Source, NEW here \in Idle, NEW there \in Holding,
               Bring(p, s, here, there)
        PROVE  TypeOK'
    <2>. DEFINE m == [src |-> s, n |-> count[s] + 1]
    <2>1. count \in [Source -> Nat] /\ count[s] < Limit[s] /\ Limit[s] \in Nat
      BY <1>5, LimitAssumption DEF Bring, TypeOK, Source
    <2>2. m \in Message /\ m # Nil
      BY <1>0, <2>1, NewMessage
    <2>3. pc' = [pc EXCEPT ![p] = there] /\ hand' = [hand EXCEPT ![p] = m]
      BY <1>5 DEF Bring, Go
    <2>. HIDE DEF m
    <2>4. /\ pc' \in [Proc -> PcSet] /\ hand' \in [Proc -> Message \cup {Nil}]
          /\ Typed(hand', pc')
      BY <1>0, <2>2, <2>3
    <2>5. count' \in [Source -> Nat] /\ \A x \in Source : count'[x] <= Limit[x]
      BY <1>5, <2>1 DEF Bring, TypeOK
    <2>. QED
      BY <1>5, <2>4, <2>5 DEF Bring, TypeOK, Holding
  <1>6. ASSUME NEW p \in DOMAIN Receiver, Handover(p)
        PROVE  TypeOK'
    <2>. DEFINE q == Receiver[p]
    <2>1. p \in Proc /\ q \in Proc /\ p # q
      BY Receivers DEF Proc
    <2>2. AfterSend(p) \in PcSet \ Holding /\ OnReceipt(q) \in Holding
      BY DEF AfterSend, OnReceipt, PcSet, Holding
    <2>3. hand[p] \in Message
      BY <1>6, <2>1, Hands DEF Handover, Sending, Holding
    <2>4. /\ pc' = [pc EXCEPT ![p] = AfterSend(p), ![q] = OnReceipt(q)]
          /\ hand' = [hand EXCEPT ![p] = Nil, ![q] = hand[p]]
      BY <1>6 DEF Handover
    <2>. HIDE DEF q
    <2>5. /\ pc' \in [Proc -> PcSet] /\ hand' \in [Proc -> Message \cup {Nil}]
      BY <1>0, <2>1, <2>2, <2>3, <2>4
    <2>6. Typed(hand', pc')
      BY <1>0, <2>1, <2>2, <2>3, <2>4
    <2>. QED
      BY <1>1, <1>6, <2>5, <2>6 DEF Handover, rest, TypeOK
  <1>7. CASE Transmit
    <2>. DEFINE m == hand["transmit"]
    <2>1. "transmit" \in Proc /\ pc["transmit"] \in Holding
      BY <1>7 DEF Transmit, At, Proc, Holding
    <2>2. m \in Message /\ m.src \in Source
      BY <2>1, Hands, MessageFields
    <2>3. aired' = [aired EXCEPT ![m.src] = Append(@, m)]
      BY <1>7 DEF Transmit
    <2>. HIDE DEF m
    <2>4. aired' \in [Source -> Seq(Message)]
      BY <2>2, <2>3 DEF TypeOK
    <2>5. /\ pc' \in [Proc -> PcSet] /\ hand' \in [Proc -> Message \cup {Nil}]
          /\ Typed(hand', pc')
      BY <1>3, <1>7, <2>1 DEF Transmit
    <2>. QED
      BY <1>7, <2>4, <2>5 DEF Transmit, TypeOK, Holding
  <1>8. ASSUME NEW b \in BOOLEAN, AppendFade(b)
        PROVE  TypeOK'
    <2>1. "fader" \in Proc /\ pc["fader"] \in Holding
      BY <1>8 DEF AppendFade, At, Proc, Holding
    <2>2. hand["fader"] \in Message
      BY <2>1, Hands
    <2>3. pendingFades \in Seq(Message) /\ passed \in BOOLEAN
      BY DEF TypeOK
    <2>4. /\ pendingFades' \in {pendingFades, Append(pendingFades, hand["fader"])}
          /\ passed' \in {passed, FALSE}
      BY <1>8 DEF AppendFade
    <2>5. Append(pendingFades, hand["fader"]) \in Seq(Message)
      BY <2>2, <2>3
    <2>6. pendingFades' \in Seq(Message)
      BY <2>3, <2>4, <2>5
    <2>7. passed' \in BOOLEAN
      BY <2>3, <2>4
    <2>. QED
      BY <1>1, <1>3, <1>8, <2>1, <2>6, <2>7 DEF AppendFade
  <1>9. ASSUME NEW b \in BOOLEAN, Announce(b)
        PROVE  TypeOK'
    <2>1. pendingFades \in Seq(Message) /\ pendingFades # <<>>
      BY <1>9 DEF Announce, TypeOK
    <2>2. Head(pendingFades) \in Message /\ Tail(pendingFades) \in Seq(Message)
      BY <2>1
    <2>3. /\ pendingFades' = Tail(pendingFades)
          /\ UNCHANGED <<count, passed, cancelled, exit, aired>>
      BY <1>9 DEF Announce, AnnounceFade
    <2>4. \/ UNCHANGED <<pc, hand>>
          \/ /\ pc' = [pc EXCEPT !["fader"] = "send"]
             /\ hand' = [hand EXCEPT !["fader"] = Head(pendingFades)]
      BY <1>9 DEF Announce, AnnounceFade, Go
    <2>5. /\ pc' \in [Proc -> PcSet] /\ hand' \in [Proc -> Message \cup {Nil}]
          /\ Typed(hand', pc')
      <3>1. CASE UNCHANGED <<pc, hand>>
        BY <1>0, <3>1
      <3>2. CASE /\ pc' = [pc EXCEPT !["fader"] = "send"]
                 /\ hand' = [hand EXCEPT !["fader"] = Head(pendingFades)]
        BY <1>0, <2>2, <3>2 DEF Holding
      <3>. QED
        BY <2>4, <3>1, <3>2
    <2>. QED
      BY <1>1, <2>2, <2>3, <2>5 DEF TypeOK
  <1>10. CASE HandleStarted \/ RepeatFade \/ PassDeadline
    <2>1. /\ pendingFades \in Seq(Message) /\ <<>> \in Seq(Message) /\ passed \in BOOLEAN
          /\ UNCHANGED <<pc, hand, count, cancelled, exit, aired>>
          /\ pendingFades' = pendingFades \/ pendingFades' = <<>>
      BY <1>10 DEF HandleStarted, RepeatFade, PassDeadline, TypeOK
    <2>2. pendingFades' \in Seq(Message) /\ passed' \in BOOLEAN
      BY <1>10, <2>1 DEF HandleStarted, RepeatFade, PassDeadline
    <2>3. /\ pc' \in [Proc -> PcSet] /\ hand' \in [Proc -> Message \cup {Nil}]
          /\ Typed(hand', pc')
      BY <1>0, <2>1
    <2>. QED
      BY <1>1, <2>1, <2>2, <2>3
  <1>11. CASE Cancel
    BY <1>11 DEF Cancel, TypeOK
  <1>12. ASSUME NEW how \in {"clean", "forced"}, Die(how)
         PROVE  TypeOK'
    <2>1. /\ pc' \in [Proc -> PcSet] /\ hand' \in [Proc -> Message \cup {Nil}]
          /\ \A p \in Proc : hand'[p] # Nil <=> pc'[p] \in Holding
      BY <1>12 DEF Die, PcSet, Holding
    <2>. QED
      BY <1>12, <2>1 DEF Die, TypeOK, Holding
  <1>13. CASE UNCHANGED vars
    BY <1>13 DEF vars, TypeOK
  <1>. QED
    BY <1>2, <1>4, <1>5, <1>6, <1>7, <1>8, <1>9, <1>10, <1>11, <1>12, <1>13, Kinds

\* For every number of messages, a goroutine has a message in hand exactly while
\* it works on it or waits to pass it on: none is forgotten in a select and no
\* stage goes on with nothing.
THEOREM TypeCorrect == Spec => []TypeOK
  <1>1. Init => TypeOK
    BY TypeInit
  <1>. QED
    BY <1>1, TypeStep, PTL DEF Spec

----------------------------------------------------------------------------
(* The order of what is on its way *)

\* Where the messages go that a goroutine passes on.
Downstream(p) ==
    CASE p = "transmit" -> {}
      [] p = "synthesize" -> {"transmit"}
      [] p = "compose" -> {"transmit", "synthesize"}
      [] p \in {"control", "loop", "fader"} -> {"transmit", "synthesize", "compose"}
      [] p = "parse" -> {"transmit", "synthesize", "compose", "control"}
      [] p = "streamer" -> {"transmit", "synthesize", "compose", "fader"}
      [] p \in {"recognize", "chat"} ->
           {"transmit", "synthesize", "compose", "control", "parse"}
      [] p = "listener" ->
           {"transmit", "synthesize", "compose", "control", "parse", "chat"}

\* Whose messages come its way.
Carries(p) ==
    CASE p \in {"transmit", "synthesize", "compose"} -> Source
      [] p \in {"control", "parse"} -> {"voice", "chat"}
      [] p = "recognize" -> {"voice"}
      [] p \in {"chat", "listener"} -> {"chat"}
      [] p = "loop" -> {"loop"}
      [] p \in {"streamer", "fader"} -> {"fade"}

\* If m and o are messages of one source, it asked for m first.
Before(m, o) == m # Nil /\ o # Nil /\ m.src = o.src => m.n < o.n

\* p is past the radar's pendingFades.
Past(p) ==
    \/ p \in {"transmit", "synthesize", "compose"}
    \/ p = "fader" /\ FadesLocked

Carried == \A p \in Proc : hand[p] # Nil => hand[p].src \in Carries(p)

HandsOrdered == \A p \in Proc : \A q \in Downstream(p) : Before(hand[q], hand[p])

FadesOrdered ==
    /\ \A i \in 1..Len(pendingFades) : pendingFades[i].src = "fade"
    /\ \A i, j \in 1..Len(pendingFades) : i < j => Before(pendingFades[i], pendingFades[j])

FadesBetween ==
    \A p \in Proc : \A i \in 1..Len(pendingFades) :
        IF Past(p) THEN Before(hand[p], pendingFades[i]) ELSE Before(pendingFades[i], hand[p])

Counted == \A m \in OnItsWay : m.n <= count[m.src]

\* The fader sends in one way only, with the locks held.
FaderSends == pc["fader"] # "sunrise"

PipeInv ==
    /\ TypeOK /\ FaderSends
    /\ Carried /\ HandsOrdered /\ FadesOrdered /\ FadesBetween /\ Counted

\* What is on its way is a message.
LEMMA OnItsWayType ==
    ASSUME TypeOK
    PROVE  OnItsWay \subseteq Message
  <1>1. \A p \in Proc : hand[p] # Nil => hand[p] \in Message
    BY DEF TypeOK
  <1>2. Range(pendingFades) \subseteq Message
    BY DEF TypeOK, Range
  <1>. QED
    BY <1>1, <1>2 DEF OnItsWay

\* What is on its way is in a hand or pending, and conversely.
LEMMA OnItsWayWhere ==
    ASSUME TypeOK
    PROVE  /\ \A p \in Proc : hand[p] # Nil => hand[p] \in OnItsWay
           /\ \A i \in 1..Len(pendingFades) : pendingFades[i] \in OnItsWay
           /\ \A m \in OnItsWay : \/ \E p \in Proc : hand[p] = m
                                  \/ \E i \in 1..Len(pendingFades) : pendingFades[i] = m
  <1>1. DOMAIN pendingFades = 1..Len(pendingFades)
    BY DEF TypeOK
  <1>. QED
    BY <1>1 DEF OnItsWay, Range

\* So it is in the next state.
LEMMA OnItsWayNext ==
    ASSUME TypeOK'
    PROVE  \A m \in OnItsWay' : \/ \E p \in Proc : hand'[p] = m /\ m # Nil
                                \/ \E i \in 1..Len(pendingFades') : pendingFades'[i] = m
  <1>1. DOMAIN pendingFades' = 1..Len(pendingFades')
    BY DEF TypeOK
  <1>. QED
    BY <1>1 DEF OnItsWay, Range

\* Messages that never come from one source are in order whatever they are.
LEMMA Apart ==
    ASSUME Carried, NEW p \in Proc, NEW q \in Proc, Carries(p) \cap Carries(q) = {}
    PROVE  Before(hand[p], hand[q])
  BY DEF Carried, Before

\* Everybody's messages end at transmit.
LEMMA TransmitLast ==
    ASSUME NEW p \in Proc, p # "transmit"
    PROVE  "transmit" \in Downstream(p)
  BY DEF Proc, Downstream

\* A goroutine passes on what its receiver carries, to a receiver downstream of it;
\* what is upstream of the receiver is upstream of the sender too, or carries other
\* messages.
LEMMA Pipe ==
    ASSUME NEW p \in DOMAIN Receiver
    PROVE  /\ p \in Proc /\ Receiver[p] \in Proc /\ Receiver[p] # p
           /\ Carries(p) \subseteq Carries(Receiver[p])
           /\ Downstream(Receiver[p]) \subseteq Downstream(p)
           /\ \A r \in Proc : Receiver[p] \in Downstream(r) /\ r # p =>
                p \in Downstream(r) \/ Carries(p) \cap Carries(r) = {}
  <1>1. CASE p = "recognize" /\ Receiver[p] = "parse"
    BY <1>1 DEF Proc, Downstream, Carries, Source
  <1>2. CASE p = "listener" /\ Receiver[p] = "chat"
    BY <1>2 DEF Proc, Downstream, Carries, Source
  <1>3. CASE p = "chat" /\ Receiver[p] = "parse"
    BY <1>3 DEF Proc, Downstream, Carries, Source
  <1>4. CASE p = "parse" /\ Receiver[p] = "control"
    BY <1>4 DEF Proc, Downstream, Carries, Source
  <1>5. CASE p = "control" /\ Receiver[p] = "compose"
    BY <1>5 DEF Proc, Downstream, Carries, Source
  <1>6. CASE p = "loop" /\ Receiver[p] = "compose"
    BY <1>6 DEF Proc, Downstream, Carries, Source
  <1>7. CASE p = "fader" /\ Receiver[p] = "compose"
    BY <1>7 DEF Proc, Downstream, Carries, Source
  <1>8. CASE p = "compose" /\ Receiver[p] = "synthesize"
    BY <1>8 DEF Proc, Downstream, Carries, Source
  <1>9. CASE p = "synthesize" /\ Receiver[p] = "transmit"
    BY <1>9 DEF Proc, Downstream, Carries, Source
  <1>10. CASE p = "streamer" /\ Receiver[p] = "fader"
    BY <1>10 DEF Proc, Downstream, Carries, Source
  <1>. QED
    BY <1>1, <1>2, <1>3, <1>4, <1>5, <1>6, <1>7, <1>8, <1>9, <1>10, Receivers

\* Nobody is upstream of who brings a message, except with messages of others.
LEMMA BringsLast ==
    ASSUME NEW p \in Proc, NEW s \in Source, Brings(p, s)
    PROVE  /\ s \in Carries(p) /\ ~Past(p)
           /\ \A r \in Proc : p \in Downstream(r) => s \notin Carries(r)
  BY DEF Brings, Proc, Downstream, Carries, Past

----------------------------------------------------------------------------
(* The steps: what they keep, and which step of LossyQueue they are *)

Ordered == Carried /\ HandsOrdered /\ FadesOrdered /\ FadesBetween

\* Every step keeps how the fader sends.
LEMMA FaderStep ==
    ASSUME PipeInv, [Next]_vars
    PROVE  FaderSends'
  <1>0. pc \in [Proc -> PcSet] /\ "fader" \in Proc /\ FaderSends /\ TypeOK
    BY DEF PipeInv, TypeOK, Proc
  <1>1. ASSUME NEW p \in Proc, NEW there \in PcSet, Moves(p, there)
        PROVE  FaderSends'
    BY <1>0, <1>1 DEF Moves, Go, FaderSends, Holding
  <1>2. ASSUME NEW p \in Proc, Release(p)
        PROVE  FaderSends'
    BY <1>0, <1>2 DEF Release, Go, FaderSends
  <1>3. ASSUME NEW p \in {"recognize", "parse", "synthesize"}, Drops(p)
        PROVE  FaderSends'
    BY <1>2, <1>3 DEF Drops, Proc
  <1>4. ASSUME NEW p \in Proc, NEW s \in Source, NEW here \in Idle, NEW there \in Holding,
               Brings(p, s), Bring(p, s, here, there)
        PROVE  FaderSends'
    BY <1>0, <1>4 DEF Brings, Bring, Go, FaderSends
  <1>5. ASSUME NEW p \in DOMAIN Receiver, Handover(p)
        PROVE  FaderSends'
    <2>1. AfterSend(p) # "sunrise" /\ OnReceipt(Receiver[p]) # "sunrise"
      BY DEF AfterSend, OnReceipt
    <2>2. p \in Proc /\ Receiver[p] \in Proc /\ p # Receiver[p]
      BY Pipe
    <2>3. pc' = [pc EXCEPT ![p] = AfterSend(p), ![Receiver[p]] = OnReceipt(Receiver[p])]
      BY <1>5 DEF Handover
    <2>. QED
      BY <1>0, <2>1, <2>2, <2>3 DEF FaderSends
  <1>6. ASSUME NEW b \in BOOLEAN, Announce(b)
        PROVE  FaderSends'
    BY <1>0, <1>6 DEF Announce, AnnounceFade, Go, FaderSends
  <1>7. CASE Transmit \/ \E b \in BOOLEAN : AppendFade(b)
    BY <1>2, <1>7 DEF Transmit, AppendFade, Proc
  <1>8. ASSUME NEW how \in {"clean", "forced"}, Die(how)
        PROVE  FaderSends'
    BY <1>0, <1>8 DEF Die, FaderSends
  <1>9. CASE HandleStarted \/ RepeatFade \/ PassDeadline \/ Cancel \/ UNCHANGED vars
    BY <1>0, <1>9 DEF HandleStarted, RepeatFade, PassDeadline, Cancel, vars, FaderSends
  <1>. QED
    BY <1>0, <1>1, <1>3, <1>4, <1>5, <1>6, <1>7, <1>8, <1>9, Kinds

\* A step that only takes messages away keeps the order.
LEMMA ThinsOut ==
    ASSUME PipeInv, TypeOK',
           \A p \in Proc : hand'[p] = hand[p] \/ hand'[p] = Nil,
           pendingFades' = pendingFades \/ pendingFades' = <<>>,
           (FadesLocked' <=> FadesLocked) \/ hand'["fader"] = Nil
    PROVE  Ordered' /\ OnItsWay' \subseteq OnItsWay
  <1>0. \A p \in Proc : Downstream(p) \subseteq Proc
    BY DEF Downstream, Proc
  <1>1. Carried'
    BY DEF PipeInv, Carried
  <1>2. HandsOrdered'
    BY <1>0 DEF PipeInv, HandsOrdered, Before
  <1>3. ASSUME NEW i \in 1..Len(pendingFades')
        PROVE  pendingFades' = pendingFades
    BY <1>3
  <1>4. FadesOrdered'
    BY <1>3 DEF PipeInv, FadesOrdered, Before
  <1>5. ASSUME NEW p \in Proc, NEW i \in 1..Len(pendingFades')
        PROVE  IF Past(p)' THEN Before(hand'[p], pendingFades'[i])
               ELSE Before(pendingFades'[i], hand'[p])
    <2>1. CASE hand'[p] = Nil
      BY <2>1 DEF Before
    <2>2. CASE hand'[p] # Nil
      <3>1. hand'[p] = hand[p] /\ (Past(p)' <=> Past(p)) /\ pendingFades' = pendingFades
        BY <1>3, <2>2 DEF Past
      <3>. QED
        BY <3>1 DEF PipeInv, FadesBetween
    <2>. QED
      BY <2>1, <2>2
  <1>6. FadesBetween'
    BY <1>5 DEF FadesBetween
  <1>7. OnItsWay' \subseteq OnItsWay
    <2>1. ASSUME NEW m \in OnItsWay'
          PROVE  m \in OnItsWay
      <3>1. \/ \E p \in Proc : hand'[p] = m /\ m # Nil
            \/ \E i \in 1..Len(pendingFades') : pendingFades'[i] = m
        BY OnItsWayNext
      <3>. QED
        BY <1>3, <3>1, OnItsWayWhere DEF PipeInv
    <2>. QED
      BY <2>1
  <1>. QED
    BY <1>1, <1>2, <1>4, <1>6, <1>7 DEF Ordered

\* A step that only takes messages away is a loss.
LEMMA Loses ==
    ASSUME PipeInv, TypeOK', OnItsWay' \subseteq OnItsWay, UNCHANGED <<count, aired>>
    PROVE  Counted' /\ Promise!Lose
  <1>1. Counted'
    BY DEF PipeInv, Counted
  <1>2. Promise!Lose
    BY DEF Promise!Lose
  <1>. QED
    BY <1>1, <1>2

\* A handover moves a message past none of its source.
LEMMA HandoverKeeps ==
    ASSUME PipeInv, TypeOK', NEW p \in DOMAIN Receiver, Handover(p)
    PROVE  Ordered' /\ OnItsWay' \subseteq OnItsWay
  <1>. DEFINE q == Receiver[p]
  <1>1. /\ p \in Proc /\ q \in Proc /\ q # p
        /\ Carries(p) \subseteq Carries(q)
        /\ Downstream(q) \subseteq Downstream(p)
        /\ \A r \in Proc : q \in Downstream(r) /\ r # p =>
             p \in Downstream(r) \/ Carries(p) \cap Carries(r) = {}
    BY Pipe
  <1>2. /\ TypeOK /\ Carried /\ HandsOrdered /\ FadesOrdered /\ FadesBetween
        /\ hand \in [Proc -> Message \cup {Nil}] /\ pc \in [Proc -> PcSet]
    BY DEF PipeInv, TypeOK
  <1>3. /\ pc' = [pc EXCEPT ![p] = AfterSend(p), ![q] = OnReceipt(q)]
        /\ hand' = [hand EXCEPT ![p] = Nil, ![q] = hand[p]]
        /\ pendingFades' = pendingFades /\ pc[q] = "select" /\ Sending(p)
    BY DEF Handover, rest
  <1>4. /\ hand'[p] = Nil /\ hand'[q] = hand[p] /\ pc'[q] = OnReceipt(q)
        /\ \A r \in Proc \ {p, q} : hand'[r] = hand[r] /\ pc'[r] = pc[r]
    BY <1>1, <1>2, <1>3
  <1>5. hand[p] # Nil /\ hand[p].src \in Carries(p)
    BY <1>1, <1>2, <1>3, Hands, NilAssumption DEF Sending, Holding, Carried
  <1>6. Carried'
    BY <1>1, <1>2, <1>4, <1>5 DEF Carried
  <1>7. ASSUME NEW r \in Proc, NEW t \in Downstream(r)
        PROVE  Before(hand'[t], hand'[r])
    <2>0. t \in Proc
      BY <1>7 DEF Downstream, Proc
    <2>1. CASE r = p \/ t = p
      BY <1>4, <2>1 DEF Before
    <2>2. CASE t = q /\ r # p
      <3>1. r # q
        BY <2>2 DEF Downstream, Proc
      <3>2. CASE p \in Downstream(r)
        BY <1>2, <1>4, <2>2, <3>1, <3>2 DEF HandsOrdered
      <3>3. CASE Carries(p) \cap Carries(r) = {}
        BY <1>1, <1>2, <1>4, <2>2, <3>1, <3>3, Apart
      <3>. QED
        BY <1>1, <1>7, <2>2, <3>2, <3>3
    <2>3. CASE r = q /\ t # p
      <3>1. t # q
        BY <2>3 DEF Downstream, Proc
      <3>. QED
        BY <1>1, <1>2, <1>4, <2>0, <2>3, <3>1 DEF HandsOrdered
    <2>4. CASE r \notin {p, q} /\ t \notin {p, q}
      BY <1>2, <1>4, <2>0, <2>4 DEF HandsOrdered
    <2>. QED
      BY <2>1, <2>2, <2>3, <2>4
  <1>8. HandsOrdered'
    BY <1>7 DEF HandsOrdered
  <1>9. FadesOrdered'
    BY <1>2, <1>3 DEF FadesOrdered
  <1>10. ASSUME NEW r \in Proc, NEW i \in 1..Len(pendingFades)
         PROVE  IF Past(r)' THEN Before(hand'[r], pendingFades[i])
                ELSE Before(pendingFades[i], hand'[r])
    <2>1. CASE r = p
      BY <1>4, <2>1 DEF Before
    <2>2. CASE r \notin {p, q}
      <3>1. Past(r)' <=> Past(r)
        BY <1>4, <2>2 DEF Past, FadesLocked
      <3>. QED
        BY <1>2, <1>4, <2>2, <3>1 DEF FadesBetween
    <2>3. CASE r = q /\ hand[p].src # "fade"
      BY <1>2, <1>4, <2>3 DEF FadesOrdered, Before
    <2>4. CASE r = q /\ hand[p].src = "fade"
      <3>1. p \in {"compose", "synthesize", "streamer", "fader"}
        BY <1>1, <1>5, <2>4, Receivers DEF Carries
      <3>2. Past(q)' <=> Past(p)
        <4>1. CASE p = "streamer"
          BY <1>4, <4>1, Receivers DEF Past, FadesLocked, OnReceipt
        <4>2. CASE p = "fader"
          <5>1. q = "compose" /\ pc["fader"] \in {"send", "sunrise"}
            BY <1>3, <4>2, Receivers DEF Sending
          <5>. QED
            BY <4>2, <5>1 DEF Past, FadesLocked, PipeInv, FaderSends
        <4>3. CASE p \in {"compose", "synthesize"}
          BY <4>3, Receivers DEF Past
        <4>. QED
          BY <3>1, <4>1, <4>2, <4>3
      <3>. QED
        BY <1>1, <1>2, <1>4, <2>4, <3>2 DEF FadesBetween
    <2>. QED
      BY <2>1, <2>2, <2>3, <2>4
  <1>11. FadesBetween'
    BY <1>3, <1>10 DEF FadesBetween
  <1>12. OnItsWay' \subseteq OnItsWay
    <2>1. ASSUME NEW m \in OnItsWay'
          PROVE  m \in OnItsWay
      <3>1. \/ \E r \in Proc : hand'[r] = m /\ m # Nil
            \/ \E i \in 1..Len(pendingFades) : pendingFades[i] = m
        BY <1>3, OnItsWayNext
      <3>. QED
        BY <1>1, <1>2, <1>4, <3>1, OnItsWayWhere
    <2>. QED
      BY <2>1
  <1>. QED
    BY <1>6, <1>8, <1>9, <1>11, <1>12 DEF Ordered

\* What else is near the fader: behind it the streamer, and ahead of it those who
\* are past the pending fades; the others carry no fades.
LEMMA AroundFader ==
    ASSUME NEW p \in Proc, p # "fader"
    PROVE  /\ Past(p) <=> p \in Downstream("fader")
           /\ "fader" \in Downstream(p) <=> p = "streamer"
           /\ ~Past(p) /\ p # "streamer" => "fade" \notin Carries(p)
           /\ Carries("fader") = {"fade"} /\ Carries("streamer") = {"fade"}
  BY DEF Past, Proc, Downstream, Carries

\* A fade that becomes pending is behind the others.
LEMMA AppendKeeps ==
    ASSUME PipeInv, TypeOK', NEW b \in BOOLEAN, AppendFade(b)
    PROVE  Ordered' /\ OnItsWay' \subseteq OnItsWay
  <1>. DEFINE m == hand["fader"]
              old == pendingFades
  <1>0. /\ TypeOK /\ Carried /\ HandsOrdered /\ FadesOrdered /\ FadesBetween
        /\ hand \in [Proc -> Message \cup {Nil}] /\ "fader" \in Proc
        /\ old \in Seq(Message)
    BY DEF PipeInv, TypeOK, Proc
  <1>1. hand' = [hand EXCEPT !["fader"] = Nil] /\ pc["fader"] = "work" /\ pc'["fader"] = "select"
    BY <1>0 DEF AppendFade, At, Release, Go, TypeOK
  <1>2. m \in Message /\ m # Nil /\ m.src = "fade" /\ ~FadesLocked /\ ~FadesLocked'
    BY <1>0, <1>1, Hands, MessageFields DEF Carried, Carries, FadesLocked, Holding
  <1>3. hand'["fader"] = Nil /\ \A p \in Proc \ {"fader"} : hand'[p] = hand[p]
    BY <1>0, <1>1
  <1>4. CASE pendingFades' = pendingFades
    BY <1>3, <1>4, ThinsOut
  <1>5. CASE pendingFades' = Append(old, m)
    <2>1. /\ Len(pendingFades') = Len(old) + 1
          /\ pendingFades'[Len(old) + 1] = m
          /\ \A i \in 1..Len(old) : pendingFades'[i] = old[i]
          /\ \A i \in 1..Len(pendingFades') : i \in 1..Len(old) \/ i = Len(old) + 1
          /\ Len(old) \in Nat
      BY <1>0, <1>2, <1>5
    <2>2. Carried'
      BY <1>0, <1>3 DEF Carried
    <2>3. HandsOrdered'
      <3>1. \A p \in Proc : Downstream(p) \subseteq Proc
        BY DEF Downstream, Proc
      <3>. QED
        BY <1>0, <1>3, <3>1 DEF HandsOrdered, Before
    <2>4. \A i \in 1..Len(old) : Before(old[i], m)
      BY <1>0, <1>2 DEF FadesBetween, Past
    <2>5. FadesOrdered'
      <3>1. \A i \in 1..Len(pendingFades') : pendingFades'[i].src = "fade"
        BY <1>0, <1>2, <2>1 DEF FadesOrdered
      <3>2. ASSUME NEW i \in 1..Len(pendingFades'), NEW j \in 1..Len(pendingFades'), i < j
            PROVE  Before(pendingFades'[i], pendingFades'[j])
        <4>1. i \in 1..Len(old)
          BY <2>1, <3>2
        <4>2. CASE j \in 1..Len(old)
          BY <1>0, <2>1, <3>2, <4>1, <4>2 DEF FadesOrdered
        <4>3. CASE j = Len(old) + 1
          BY <2>1, <2>4, <4>1, <4>3
        <4>. QED
          BY <2>1, <4>2, <4>3
      <3>. QED
        BY <3>1, <3>2 DEF FadesOrdered
    <2>6. ASSUME NEW p \in Proc, NEW i \in 1..Len(pendingFades')
          PROVE  IF Past(p)' THEN Before(hand'[p], pendingFades'[i])
                 ELSE Before(pendingFades'[i], hand'[p])
      <3>1. CASE p = "fader"
        BY <1>3, <3>1 DEF Before
      <3>2. CASE p # "fader"
        <4>1. (Past(p)' <=> Past(p)) /\ hand'[p] = hand[p]
          BY <1>3, <3>2 DEF Past
        <4>2. CASE i \in 1..Len(old)
          BY <1>0, <2>1, <4>1, <4>2 DEF FadesBetween
        <4>3. CASE i = Len(old) + 1
          <5>1. CASE Past(p)
            BY <1>0, <2>1, <3>2, <4>1, <4>3, <5>1, AroundFader DEF HandsOrdered
          <5>2. CASE p = "streamer"
            <6>1. "fader" \in Downstream(p) /\ ~Past(p)
              BY <3>2, <5>2, AroundFader DEF Past
            <6>. QED
              BY <1>0, <2>1, <4>1, <4>3, <6>1 DEF HandsOrdered
          <5>3. CASE ~Past(p) /\ p # "streamer"
            <6>1. hand[p] # Nil => hand[p].src # "fade"
              BY <1>0, <3>2, <5>3, AroundFader DEF Carried
            <6>. QED
              BY <1>2, <2>1, <4>1, <4>3, <5>3, <6>1 DEF Before
          <5>. QED
            BY <5>1, <5>2, <5>3
        <4>. QED
          BY <2>1, <4>2, <4>3
      <3>. QED
        BY <3>1, <3>2
    <2>7. FadesBetween'
      BY <2>6 DEF FadesBetween
    <2>8. OnItsWay' \subseteq OnItsWay
      <3>1. ASSUME NEW o \in OnItsWay'
            PROVE  o \in OnItsWay
        <4>1. CASE \E p \in Proc : hand'[p] = o /\ o # Nil
          BY <1>0, <1>3, <4>1, OnItsWayWhere
        <4>2. CASE \E i \in 1..Len(pendingFades') : pendingFades'[i] = o
          BY <1>0, <1>2, <2>1, <4>2, OnItsWayWhere
        <4>. QED
          BY <4>1, <4>2, OnItsWayNext
      <3>. QED
        BY <3>1
    <2>. QED
      BY <2>2, <2>3, <2>5, <2>7, <2>8 DEF Ordered
  <1>. QED
    BY <1>4, <1>5 DEF AppendFade

\* The fade that is announced is the first of the batch.
LEMMA AnnounceKeeps ==
    ASSUME PipeInv, TypeOK', NEW b \in BOOLEAN, Announce(b)
    PROVE  Ordered' /\ OnItsWay' \subseteq OnItsWay
  <1>. DEFINE m == Head(pendingFades)
              old == pendingFades
  <1>0. /\ TypeOK /\ Carried /\ HandsOrdered /\ FadesOrdered /\ FadesBetween
        /\ hand \in [Proc -> Message \cup {Nil}] /\ pc \in [Proc -> PcSet] /\ "fader" \in Proc
        /\ old \in Seq(Message) /\ old # <<>>
    BY DEF PipeInv, TypeOK, Proc, Announce
  <1>1. pc["fader"] = "announce" /\ FadesLocked /\ hand["fader"] = Nil
    BY <1>0, Hands DEF Announce, AnnounceFade, At, FadesLocked, Holding
  <1>2. /\ pendingFades' = Tail(old)
        /\ \/ UNCHANGED <<pc, hand>>
           \/ /\ pc' = [pc EXCEPT !["fader"] = "send"]
              /\ hand' = [hand EXCEPT !["fader"] = m]
    BY DEF Announce, AnnounceFade, Go
  <1>3. /\ hand'["fader"] = Nil \/ hand'["fader"] = m
        /\ \A p \in Proc \ {"fader"} : hand'[p] = hand[p]
        /\ FadesLocked'
    <2>1. CASE UNCHANGED <<pc, hand>>
      BY <1>1, <2>1 DEF FadesLocked
    <2>2. CASE /\ pc' = [pc EXCEPT !["fader"] = "send"]
               /\ hand' = [hand EXCEPT !["fader"] = m]
      BY <1>0, <2>2 DEF FadesLocked
    <2>. QED
      BY <1>2, <2>1, <2>2
  <1>4. /\ m = old[1] /\ 1 \in 1..Len(old) /\ Len(pendingFades') = Len(old) - 1
        /\ Len(old) \in Nat
        /\ \A i \in 1..Len(pendingFades') : /\ i + 1 \in 1..Len(old) /\ 1 < i + 1
                                            /\ pendingFades'[i] = old[i + 1]
    BY <1>0, <1>2
  <1>5. m.src = "fade"
    BY <1>0, <1>4 DEF FadesOrdered
  <1>. HIDE DEF m
  <1>6. Carried'
    <2>1. "fade" \in Carries("fader")
      BY DEF Carries
    <2>2. ASSUME NEW p \in Proc, hand'[p] # Nil
          PROVE  hand'[p].src \in Carries(p)
      <3>1. CASE p = "fader"
        BY <1>3, <1>5, <2>1, <2>2, <3>1
      <3>2. CASE p # "fader"
        BY <1>0, <1>3, <2>2, <3>2 DEF Carried
      <3>. QED
        BY <3>1, <3>2
    <2>. QED
      BY <2>2 DEF Carried
  <1>7. ASSUME NEW p \in Proc, NEW q \in Downstream(p)
        PROVE  Before(hand'[q], hand'[p])
    <2>0. q \in Proc
      BY <1>7 DEF Downstream, Proc
    <2>1. CASE p # "fader" /\ q # "fader"
      BY <1>0, <1>3, <2>0, <2>1 DEF HandsOrdered
    <2>2. CASE p = "fader"
      <3>1. q # "fader" /\ Past(q)
        BY <2>2, <2>0, AroundFader DEF Downstream, Past
      <3>2. Before(hand[q], m)
        BY <1>0, <1>4, <2>0, <3>1 DEF FadesBetween
      <3>. QED
        BY <1>3, <2>0, <2>2, <3>1, <3>2 DEF Before
    <2>3. CASE q = "fader" /\ p # "fader"
      <3>1. ~Past(p)
        BY <1>7, <2>3, AroundFader DEF Past
      <3>2. Before(m, hand[p])
        BY <1>0, <1>4, <3>1 DEF FadesBetween
      <3>. QED
        BY <1>3, <2>3, <3>2 DEF Before
    <2>. QED
      BY <2>1, <2>2, <2>3
  <1>8. HandsOrdered'
    BY <1>7 DEF HandsOrdered
  <1>9. FadesOrdered'
    <2>1. \A i \in 1..Len(pendingFades') : pendingFades'[i].src = "fade"
      BY <1>0, <1>4 DEF FadesOrdered
    <2>2. ASSUME NEW i \in 1..Len(pendingFades'), NEW j \in 1..Len(pendingFades'), i < j
          PROVE  Before(pendingFades'[i], pendingFades'[j])
      <3>1. i + 1 < j + 1
        BY <2>2
      <3>. QED
        BY <1>0, <1>4, <3>1 DEF FadesOrdered
    <2>. QED
      BY <2>1, <2>2 DEF FadesOrdered
  <1>10. ASSUME NEW p \in Proc, NEW i \in 1..Len(pendingFades')
         PROVE  IF Past(p)' THEN Before(hand'[p], pendingFades'[i])
                ELSE Before(pendingFades'[i], hand'[p])
    <2>1. Past(p)' <=> Past(p)
      BY <1>1, <1>3 DEF Past
    <2>2. CASE p # "fader"
      BY <1>0, <1>3, <1>4, <2>1, <2>2 DEF FadesBetween
    <2>3. CASE p = "fader"
      <3>1. Past(p)'
        BY <1>3, <2>3 DEF Past
      <3>2. Before(m, pendingFades'[i])
        BY <1>0, <1>4 DEF FadesOrdered
      <3>. QED
        BY <1>3, <2>3, <3>1, <3>2 DEF Before
    <2>. QED
      BY <2>2, <2>3
  <1>11. FadesBetween'
    BY <1>10 DEF FadesBetween
  <1>12. OnItsWay' \subseteq OnItsWay
    <2>1. ASSUME NEW o \in OnItsWay'
          PROVE  o \in OnItsWay
      <3>1. CASE \E p \in Proc : hand'[p] = o /\ o # Nil
        BY <1>0, <1>3, <1>4, <3>1, OnItsWayWhere
      <3>2. CASE \E i \in 1..Len(pendingFades') : pendingFades'[i] = o
        BY <1>0, <1>4, <3>2, OnItsWayWhere
      <3>. QED
        BY <3>1, <3>2, OnItsWayNext
    <2>. QED
      BY <2>1
  <1>. QED
    BY <1>6, <1>8, <1>9, <1>11, <1>12 DEF Ordered

\* A new message is behind all of its source, and the next one of its source.
LEMMA BringKeeps ==
    ASSUME PipeInv, TypeOK', NEW p \in Proc, NEW s \in Source, NEW here \in Idle,
           NEW there \in Holding, Brings(p, s), Bring(p, s, here, there)
    PROVE  Ordered' /\ Counted' /\ Promise!Ask(s)
  <1>. DEFINE m == [src |-> s, n |-> count[s] + 1]
  <1>0. /\ TypeOK /\ Carried /\ HandsOrdered /\ FadesOrdered /\ FadesBetween /\ Counted
        /\ hand \in [Proc -> Message \cup {Nil}] /\ count \in [Source -> Nat]
        /\ pendingFades \in Seq(Message)
    BY DEF PipeInv, TypeOK
  <1>1. /\ hand' = [hand EXCEPT ![p] = m] /\ count' = [count EXCEPT ![s] = @ + 1]
        /\ pendingFades' = pendingFades /\ aired' = aired /\ pc[p] = here
        /\ pc' = [pc EXCEPT ![p] = there]
    BY DEF Bring, Go, At
  <1>2. m.src = s /\ m.n = count[s] + 1 /\ m \in Message /\ m # Nil
    BY <1>0, NewMessage, NilAssumption DEF Bring
  <1>. HIDE DEF m
  <1>3. hand[p] = Nil /\ hand'[p] = m /\ \A r \in Proc \ {p} : hand'[r] = hand[r]
    BY <1>0, <1>1, Hands DEF Idle, Holding
  <1>4. \A r \in Proc : Past(r)' <=> Past(r)
    <2>1. p # "fader"
      BY DEF Brings
    <2>2. pc'["fader"] = pc["fader"]
      BY <1>0, <1>1, <2>1 DEF TypeOK, Proc
    <2>. QED
      BY <2>2 DEF Past, FadesLocked
  <1>5. ASSUME NEW o \in OnItsWay
        PROVE  Before(o, m)
    <2>1. o \in Message /\ o.n \in Nat /\ o.src \in Source /\ o.n <= count[o.src]
      BY <1>0, OnItsWayType, MessageFields DEF Counted
    <2>. QED
      BY <1>0, <1>2, <2>1 DEF Before
  <1>6. Carried'
    BY <1>0, <1>2, <1>3, BringsLast DEF Carried
  <1>7. ASSUME NEW r \in Proc, NEW q \in Downstream(r)
        PROVE  Before(hand'[q], hand'[r])
    <2>0. q \in Proc /\ q # r
      BY <1>7 DEF Downstream, Proc
    <2>1. CASE r = p
      <3>1. hand[q] # Nil => Before(hand[q], m)
        BY <1>0, <1>5, <2>0, OnItsWayWhere
      <3>. QED
        BY <1>3, <2>0, <2>1, <3>1 DEF Before
    <2>2. CASE q = p
      <3>1. hand[r] # Nil => hand[r].src # s
        BY <1>0, <1>7, <2>2, BringsLast DEF Carried
      <3>. QED
        BY <1>2, <1>3, <2>0, <2>2, <3>1 DEF Before
    <2>3. CASE q # p /\ r # p
      BY <1>0, <1>3, <1>7, <2>0, <2>3 DEF HandsOrdered
    <2>. QED
      BY <2>1, <2>2, <2>3
  <1>8. HandsOrdered'
    BY <1>7 DEF HandsOrdered
  <1>9. FadesOrdered'
    BY <1>0, <1>1 DEF FadesOrdered
  <1>10. ASSUME NEW r \in Proc, NEW i \in 1..Len(pendingFades)
         PROVE  IF Past(r)' THEN Before(hand'[r], pendingFades[i])
                ELSE Before(pendingFades[i], hand'[r])
    <2>1. CASE r = p
      <3>1. ~Past(r)' /\ Before(pendingFades[i], m)
        BY <1>0, <1>4, <1>5, <2>1, BringsLast, OnItsWayWhere
      <3>. QED
        BY <1>3, <2>1, <3>1
    <2>2. CASE r # p
      BY <1>0, <1>3, <1>4, <2>2 DEF FadesBetween
    <2>. QED
      BY <2>1, <2>2
  <1>11. FadesBetween'
    BY <1>1, <1>10 DEF FadesBetween
  <1>12. OnItsWay' = OnItsWay \cup {m}
    <2>1. {hand'[r] : r \in Proc} \ {Nil} = ({hand[r] : r \in Proc} \ {Nil}) \cup {m}
      BY <1>2, <1>3
    <2>. QED
      BY <1>1, <2>1 DEF OnItsWay
  <1>13. Counted'
    <2>1. ASSUME NEW o \in OnItsWay'
          PROVE  o.n <= count'[o.src]
      <3>1. CASE o = m
        BY <1>0, <1>1, <1>2, <3>1
      <3>2. CASE o \in OnItsWay
        <4>1. o \in Message /\ o.n \in Nat /\ o.src \in Source /\ o.n <= count[o.src]
          BY <1>0, <3>2, OnItsWayType, MessageFields DEF Counted
        <4>. QED
          BY <1>0, <1>1, <4>1
      <3>. QED
        BY <1>12, <3>1, <3>2
    <2>. QED
      BY <2>1 DEF Counted
  <1>14. Promise!Ask(s)
    <2>1. ASSUME NEW x \in Source
          PROVE  {o \in OnItsWay' : o.src = x}
                   = IF x = s THEN {o \in OnItsWay : o.src = x} \cup {m}
                     ELSE {o \in OnItsWay : o.src = x}
      BY <1>2, <1>12
    <2>. QED
      BY <1>1, <2>1 DEF Promise!Ask, m
  <1>. QED
    BY <1>6, <1>8, <1>9, <1>11, <1>13, <1>14 DEF Ordered

\* What is transmitted is what its source has waited for longest.
LEMMA TransmitKeeps ==
    ASSUME PipeInv, TypeOK', Transmit
    PROVE  /\ Ordered' /\ Counted'
           /\ \E s \in Source : \E m \in {o \in OnItsWay : o.src = s} : Promise!Say(s, m)
  <1>. DEFINE m == hand["transmit"]
              s == m.src
  <1>0. /\ TypeOK /\ Carried /\ HandsOrdered /\ FadesOrdered /\ FadesBetween /\ Counted
        /\ hand \in [Proc -> Message \cup {Nil}] /\ "transmit" \in Proc
        /\ pc \in [Proc -> PcSet] /\ "fader" \in Proc
    BY DEF PipeInv, TypeOK, Proc
  <1>1. /\ hand' = [hand EXCEPT !["transmit"] = Nil] /\ pc["transmit"] = "send"
        /\ pc' = [pc EXCEPT !["transmit"] = "select"]
        /\ pendingFades' = pendingFades /\ count' = count
        /\ aired' = [aired EXCEPT ![s] = Append(@, m)]
    BY DEF Transmit, Release, Go, At
  <1>2. m \in Message /\ m # Nil /\ s \in Source /\ m.n \in Nat
    BY <1>0, <1>1, Hands, MessageFields DEF Holding
  <1>3. hand'["transmit"] = Nil /\ \A r \in Proc \ {"transmit"} : hand'[r] = hand[r]
    BY <1>0, <1>1
  <1>4. FadesLocked' <=> FadesLocked
    BY <1>0, <1>1 DEF FadesLocked
  <1>5. Ordered' /\ OnItsWay' \subseteq OnItsWay
    BY <1>1, <1>3, <1>4, ThinsOut
  <1>6. Counted'
    BY <1>0, <1>1, <1>5 DEF Counted
  <1>7. ASSUME NEW r \in Proc, r # "transmit"
        PROVE  Before(m, hand[r])
    BY <1>0, <1>7, TransmitLast DEF HandsOrdered
  <1>8. ASSUME NEW i \in 1..Len(pendingFades)
        PROVE  Before(m, pendingFades[i])
    BY <1>0 DEF FadesBetween, Past
  <1>. HIDE DEF m
  <1>9. ASSUME NEW o \in OnItsWay, o # m, o.src = s
        PROVE  m.n < o.n
    <2>1. o \in Message /\ o # Nil
      BY <1>0, OnItsWayType, MessageFields
    <2>2. Before(m, o)
      BY <1>0, <1>7, <1>8, <1>9, OnItsWayWhere DEF m
    <2>. QED
      BY <1>2, <1>9, <2>1, <2>2 DEF Before
  <1>10. OnItsWay' = OnItsWay \ {m}
    <2>1. m \notin OnItsWay'
      <3>1. ~Before(m, m)
        BY <1>2 DEF Before
      <3>2. ASSUME NEW r \in Proc, hand'[r] = m
            PROVE  FALSE
        BY <1>2, <1>3, <1>7, <3>1, <3>2
      <3>3. ASSUME NEW i \in 1..Len(pendingFades'), pendingFades'[i] = m
            PROVE  FALSE
        BY <1>1, <1>8, <3>1, <3>3
      <3>. QED
        BY <3>2, <3>3, OnItsWayNext
    <2>2. ASSUME NEW o \in OnItsWay, o # m
          PROVE  o \in OnItsWay'
      <3>1. o # Nil
        BY <1>0, OnItsWayType, MessageFields
      <3>2. CASE o \in Range(pendingFades)
        BY <1>1, <3>2 DEF OnItsWay
      <3>3. CASE o \in {hand[r] : r \in Proc}
        <4>1. PICK r \in Proc : o = hand[r]
          BY <3>3
        <4>2. o = hand'[r]
          BY <1>3, <2>2, <4>1 DEF m
        <4>. QED
          BY <3>1, <4>2 DEF OnItsWay
      <3>. QED
        BY <3>2, <3>3 DEF OnItsWay
    <2>. QED
      BY <1>5, <2>1, <2>2
  <1>11. m \in {o \in OnItsWay : o.src = s}
    BY <1>0, <1>2, OnItsWayWhere DEF m
  <1>12. Promise!Say(s, m)
    <2>1. ASSUME NEW x \in Source
          PROVE  {o \in OnItsWay' : o.src = x}
                   = IF x = s THEN {o \in OnItsWay : o.src = x} \ {m}
                     ELSE {o \in OnItsWay : o.src = x}
      BY <1>10
    <2>. QED
      BY <1>1, <1>2, <1>9, <2>1 DEF Promise!Say
  <1>13. \E x \in Source : \E y \in {o \in OnItsWay : o.src = x} : Promise!Say(x, y)
    <2>. HIDE DEF s
    <2>1. s \in Source
      BY <1>2
    <2>. QED
      BY <1>11, <1>12, <2>1 DEF Promise!Say
  <1>. QED
    BY <1>5, <1>6, <1>13

----------------------------------------------------------------------------
(* The theorems *)

\* Initially nothing is on its way.
LEMMA PipeInit == ASSUME Init PROVE PipeInv /\ OnItsWay = {}
  <1>1. TypeOK
    BY TypeInit
  <1>2. \A p \in Proc : hand[p] = Nil
    BY DEF Init
  <1>3. pendingFades = <<>> /\ Len(pendingFades) = 0 /\ FaderSends
    BY DEF Init, FaderSends, Proc
  <1>4. OnItsWay = {}
    BY <1>1, <1>2, <1>3, OnItsWayWhere, OnItsWayType, NilAssumption
  <1>5. HandsOrdered
    BY <1>2 DEF HandsOrdered, Before
  <1>. QED
    BY <1>1, <1>2, <1>3, <1>4, <1>5
    DEF PipeInv, Carried, FadesOrdered, FadesBetween, Counted

\* Every step keeps the order and is a step of LossyQueue.
LEMMA PipeStep ==
    ASSUME PipeInv, [Next]_vars
    PROVE  PipeInv' /\ Promise!Next
  <1>1. TypeOK /\ TypeOK' /\ FaderSends'
    BY TypeStep, FaderStep DEF PipeInv
  <1>2. ASSUME Ordered', OnItsWay' \subseteq OnItsWay, UNCHANGED <<count, aired>>
        PROVE  PipeInv' /\ Promise!Next
    <2>1. Counted' /\ Promise!Lose
      BY <1>1, <1>2, Loses
    <2>. QED
      BY <1>1, <1>2, <2>1 DEF PipeInv, Ordered, Promise!Next
  <1>3. ASSUME \A p \in Proc : hand'[p] = hand[p] \/ hand'[p] = Nil,
               pendingFades' = pendingFades \/ pendingFades' = <<>>,
               (FadesLocked' <=> FadesLocked) \/ hand'["fader"] = Nil,
               UNCHANGED <<count, aired>>
        PROVE  PipeInv' /\ Promise!Next
    BY <1>1, <1>2, <1>3, ThinsOut
  <1>4. /\ pc \in [Proc -> PcSet] /\ hand \in [Proc -> Message \cup {Nil}] /\ "fader" \in Proc
    BY <1>1 DEF TypeOK, Proc
  <1>5. ASSUME NEW p \in Proc, NEW there \in PcSet, Moves(p, there)
        PROVE  PipeInv' /\ Promise!Next
    <2>1. hand' = hand /\ pendingFades' = pendingFades /\ UNCHANGED <<count, aired>>
      BY <1>5 DEF Moves, rest
    <2>2. CASE p = "fader"
      <3>1. hand'["fader"] = Nil
        BY <1>1, <1>4, <1>5, <2>1, <2>2, Hands DEF Moves
      <3>. QED
        BY <1>3, <2>1, <3>1
    <2>3. CASE p # "fader"
      <3>1. FadesLocked' <=> FadesLocked
        BY <1>4, <1>5, <2>3 DEF Moves, Go, FadesLocked
      <3>. QED
        BY <1>3, <2>1, <3>1
    <2>. QED
      BY <2>2, <2>3
  <1>6. ASSUME NEW p \in {"recognize", "parse", "synthesize"}, Drops(p)
        PROVE  PipeInv' /\ Promise!Next
    <2>1. /\ \A r \in Proc : hand'[r] = hand[r] \/ hand'[r] = Nil
          /\ FadesLocked' <=> FadesLocked
      BY <1>4, <1>6 DEF Drops, Release, Go, FadesLocked, Proc
    <2>. QED
      BY <1>3, <1>6, <2>1 DEF Drops, rest
  <1>7. ASSUME NEW p \in Proc, NEW s \in Source, NEW here \in Idle, NEW there \in Holding,
               Brings(p, s), Bring(p, s, here, there)
        PROVE  PipeInv' /\ Promise!Next
    <2>1. Ordered' /\ Counted' /\ Promise!Ask(s)
      BY <1>1, <1>7, BringKeeps
    <2>. QED
      BY <1>1, <2>1 DEF PipeInv, Ordered, Promise!Next
  <1>8. ASSUME NEW p \in DOMAIN Receiver, Handover(p)
        PROVE  PipeInv' /\ Promise!Next
    <2>1. Ordered' /\ OnItsWay' \subseteq OnItsWay
      BY <1>1, <1>8, HandoverKeeps
    <2>. QED
      BY <1>2, <1>8, <2>1 DEF Handover, rest
  <1>9. CASE Transmit
    <2>1. /\ Ordered' /\ Counted'
          /\ \E s \in Source : \E m \in {o \in OnItsWay : o.src = s} : Promise!Say(s, m)
      BY <1>1, <1>9, TransmitKeeps
    <2>2. Promise!Next
      BY <2>1 DEF Promise!Next
    <2>. QED
      BY <1>1, <2>1, <2>2 DEF PipeInv, Ordered
  <1>10. ASSUME NEW b \in BOOLEAN, AppendFade(b)
         PROVE  PipeInv' /\ Promise!Next
    <2>1. Ordered' /\ OnItsWay' \subseteq OnItsWay
      BY <1>1, <1>10, AppendKeeps
    <2>. QED
      BY <1>2, <1>10, <2>1 DEF AppendFade
  <1>11. ASSUME NEW b \in BOOLEAN, Announce(b)
         PROVE  PipeInv' /\ Promise!Next
    <2>1. Ordered' /\ OnItsWay' \subseteq OnItsWay
      BY <1>1, <1>11, AnnounceKeeps
    <2>. QED
      BY <1>2, <1>11, <2>1 DEF Announce, AnnounceFade
  <1>12. CASE HandleStarted \/ RepeatFade \/ PassDeadline \/ Cancel
    BY <1>3, <1>12 DEF HandleStarted, RepeatFade, PassDeadline, Cancel, FadesLocked
  <1>13. ASSUME NEW how \in {"clean", "forced"}, Die(how)
         PROVE  PipeInv' /\ Promise!Next
    BY <1>3, <1>4, <1>13 DEF Die
  <1>14. CASE UNCHANGED vars
    BY <1>3, <1>14 DEF vars, FadesLocked
  <1>. QED
    BY <1>1, <1>5, <1>6, <1>7, <1>8, <1>9, <1>10, <1>11, <1>12, <1>13, <1>14, Kinds

\* The application implements LossyQueue: what one source asks for is said in the
\* order in which it asked, each thing at most once and nothing else, whatever the
\* other sources do, whichever stages fail, across restarts and the shutdown.
THEOREM ImplementsPromise == Spec => SaidInOrder
  <1>1. Init => PipeInv /\ Promise!Init
    <2>. SUFFICES ASSUME Init PROVE PipeInv /\ Promise!Init
      OBVIOUS
    <2>1. PipeInv /\ OnItsWay = {}
      BY PipeInit
    <2>. QED
      BY <2>1 DEF Init, Promise!Init
  <1>2. PipeInv /\ [Next]_vars
          => PipeInv' /\ [Promise!Next]_<<count, [s \in Source |-> {m \in OnItsWay : m.src = s}],
                                          aired>>
    BY PipeStep
  <1>. QED
    BY <1>1, <1>2, PTL DEF Spec, SaidInOrder, Promise!Spec

----------------------------------------------------------------------------
(* What LossyQueue means for those who listen *)

\* Of each source, what has been said was asked for in that order, nothing twice.
SaidRising ==
    \A s \in Source : \A i, j \in 1..Len(aired[s]) :
        i < j => aired[s][i].n < aired[s][j].n

\* What has been said was asked for, and before all that is still on its way.
SaidFirst ==
    \A s \in Source : \A i \in 1..Len(aired[s]) :
        /\ aired[s][i].n <= count[s]
        /\ \A m \in OnItsWay : m.src = s => aired[s][i].n < m.n

\* Every step of LossyQueue keeps both.
LEMMA SaidStep ==
    ASSUME PipeInv, PipeInv', SaidRising, SaidFirst, Promise!Next
    PROVE  SaidRising' /\ SaidFirst'
  <1>. DEFINE W == [s \in Source |-> {m \in OnItsWay : m.src = s}]
  <1>0. /\ aired \in [Source -> Seq(Message)] /\ count \in [Source -> Nat]
        /\ aired' \in [Source -> Seq(Message)] /\ count' \in [Source -> Nat]
        /\ OnItsWay \subseteq Message /\ OnItsWay' \subseteq Message
        /\ \A m \in OnItsWay : m.n <= count[m.src]
        /\ \A m \in Message : m.n \in Nat /\ m.src \in Source
    <2>1. OnItsWay' \subseteq Message
      <3>1. Range(pendingFades') \subseteq Message
        BY DEF PipeInv, TypeOK, Range
      <3>2. \A p \in Proc : hand'[p] # Nil => hand'[p] \in Message
        BY DEF PipeInv, TypeOK
      <3>. QED
        BY <3>1, <3>2 DEF OnItsWay
    <2>. QED
      BY <2>1, OnItsWayType, MessageFields DEF PipeInv, TypeOK, Counted
  <1>1. \A s \in Source : \A i \in 1..Len(aired[s]) : aired[s][i].n \in Nat
    BY <1>0
  <1>2. CASE Promise!Lose
    <2>1. count' = count /\ aired' = aired
      BY <1>2 DEF Promise!Lose
    <2>2. ASSUME NEW m \in OnItsWay'
          PROVE  m \in OnItsWay
      <3>1. m.src \in Source
        BY <1>0, <2>2
      <3>2. W'[m.src] \subseteq W[m.src]
        BY <1>2, <3>1 DEF Promise!Lose
      <3>3. m \in W'[m.src]
        BY <2>2, <3>1
      <3>. QED
        BY <3>1, <3>2, <3>3
    <2>. QED
      BY <2>1, <2>2 DEF SaidRising, SaidFirst
  <1>3. ASSUME NEW s \in Source, Promise!Ask(s)
        PROVE  SaidRising' /\ SaidFirst'
    <2>. DEFINE new == [src |-> s, n |-> count[s] + 1]
    <2>1. /\ aired' = aired /\ count' = [count EXCEPT ![s] = @ + 1]
          /\ W' = [W EXCEPT ![s] = @ \cup {new}]
      BY <1>3 DEF Promise!Ask
    <2>2. ASSUME NEW m \in OnItsWay'
          PROVE  m \in OnItsWay \/ m = new
      <3>1. m.src \in Source
        BY <1>0, <2>2
      <3>2. m \in W'[m.src]
        BY <2>2, <3>1
      <3>3. W'[m.src] \subseteq W[m.src] \cup {new}
        BY <2>1, <3>1
      <3>. QED
        BY <3>1, <3>2, <3>3
    <2>3. new.src = s /\ new.n = count[s] + 1
      OBVIOUS
    <2>. HIDE DEF new, W
    <2>4. SaidFirst'
      <3>1. ASSUME NEW x \in Source, NEW i \in 1..Len(aired[x])
            PROVE  /\ aired[x][i].n <= count'[x]
                   /\ \A m \in OnItsWay' : m.src = x => aired[x][i].n < m.n
        <4>1. aired[x][i].n \in Nat /\ aired[x][i].n <= count[x]
          BY <1>1 DEF SaidFirst
        <4>2. aired[x][i].n <= count'[x]
          BY <1>0, <2>1, <4>1
        <4>3. ASSUME NEW m \in OnItsWay', m.src = x
              PROVE  aired[x][i].n < m.n
          <5>1. CASE m \in OnItsWay
            BY <4>3, <5>1 DEF SaidFirst
          <5>2. CASE m = new
            BY <1>0, <2>3, <4>1, <4>3, <5>2
          <5>. QED
            BY <2>2, <5>1, <5>2
        <4>. QED
          BY <4>2, <4>3
      <3>. QED
        BY <2>1, <3>1 DEF SaidFirst
    <2>. QED
      BY <2>1, <2>4 DEF SaidRising
  <1>4. ASSUME NEW s \in Source, NEW m \in W[s], Promise!Say(s, m)
        PROVE  SaidRising' /\ SaidFirst'
    <2>1. /\ count' = count /\ aired' = [aired EXCEPT ![s] = Append(@, m)]
          /\ W' = [W EXCEPT ![s] = @ \ {m}]
          /\ \A o \in W[s] \ {m} : m.n < o.n
      BY <1>4 DEF Promise!Say
    <2>2. m \in OnItsWay /\ m.src = s /\ m \in Message /\ m.n \in Nat /\ m.n <= count[s]
      BY <1>0, <1>4
    <2>3. ASSUME NEW o \in OnItsWay'
          PROVE  o \in OnItsWay /\ (o.src = s => m.n < o.n)
      <3>1. o.src \in Source /\ o \in W'[o.src]
        BY <1>0, <2>3
      <3>2. o \in W[o.src] /\ (o.src = s => o \in W[s] \ {m})
        BY <2>1, <3>1
      <3>. QED
        BY <2>1, <3>1, <3>2
    <2>. HIDE DEF W
    <2>4. /\ \A x \in Source \ {s} : aired'[x] = aired[x]
          /\ Len(aired'[s]) = Len(aired[s]) + 1 /\ Len(aired[s]) \in Nat
          /\ aired'[s][Len(aired[s]) + 1] = m
          /\ \A i \in 1..Len(aired[s]) : aired'[s][i] = aired[s][i]
      <3>1. aired'[s] = Append(aired[s], m) /\ aired[s] \in Seq(Message)
        BY <1>0, <2>1
      <3>2. \A x \in Source \ {s} : aired'[x] = aired[x]
        BY <1>0, <2>1
      <3>. QED
        BY <2>2, <3>1, <3>2
    <2>5. \A i \in 1..Len(aired[s]) : aired[s][i].n < m.n
      BY <2>2 DEF SaidFirst
    <2>6. ASSUME NEW x \in Source, NEW i \in 1..Len(aired'[x])
          PROVE  /\ aired'[x][i].n <= count[x]
                 /\ \A o \in OnItsWay' : o.src = x => aired'[x][i].n < o.n
      <3>1. CASE x # s
        BY <2>3, <2>4, <2>6, <3>1 DEF SaidFirst
      <3>2. CASE x = s /\ i \in 1..Len(aired[s])
        BY <2>3, <2>4, <3>2 DEF SaidFirst
      <3>3. CASE x = s /\ i = Len(aired[s]) + 1
        BY <2>2, <2>3, <2>4, <3>3
      <3>. QED
        BY <2>4, <2>6, <3>1, <3>2, <3>3
    <2>7. ASSUME NEW x \in Source, NEW i \in 1..Len(aired'[x]), NEW j \in 1..Len(aired'[x]),
                 i < j
          PROVE  aired'[x][i].n < aired'[x][j].n
      <3>1. CASE x # s
        BY <2>4, <2>7, <3>1 DEF SaidRising
      <3>2. CASE x = s /\ j \in 1..Len(aired[s])
        <4>1. i \in 1..Len(aired[s])
          BY <2>4, <2>7, <3>2
        <4>. QED
          BY <2>4, <2>7, <3>2, <4>1 DEF SaidRising
      <3>3. CASE x = s /\ j = Len(aired[s]) + 1
        <4>1. i \in 1..Len(aired[s])
          BY <2>4, <2>7, <3>3
        <4>. QED
          BY <2>4, <2>5, <3>3, <4>1
      <3>. QED
        BY <2>4, <2>7, <3>1, <3>2, <3>3
    <2>. QED
      BY <2>1, <2>6, <2>7 DEF SaidRising, SaidFirst
  <1>. QED
    BY <1>2, <1>3, <1>4 DEF Promise!Next

\* In particular the radio never gets a call twice, nor an earlier call of a source
\* after a later one.
THEOREM NeverRepeated == Spec => []SaidRising
  <1>. DEFINE SaidInv == PipeInv /\ SaidRising /\ SaidFirst
  <1>1. Init => SaidInv
    <2>1. ASSUME Init PROVE SaidRising /\ SaidFirst
      BY <2>1 DEF Init, SaidRising, SaidFirst
    <2>. QED
      BY <2>1, PipeInit
  <1>2. SaidInv /\ [Next]_vars => SaidInv'
    BY PipeStep, SaidStep
  <1>. QED
    BY <1>1, <1>2, PTL DEF Spec
=============================================================================
