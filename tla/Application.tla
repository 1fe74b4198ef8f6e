---------------------------- MODULE Application ----------------------------
(***************************************************************************)
(* The application: the goroutines Run starts between the radio, the chat  *)
(* and telemetry on one side and the radio on the other, connected by      *)
(* unbuffered channels, from start-up to the exit of the process.          *)
(*                                                                         *)
(* Every stage waits in a select for its input or the end of the context,  *)
(* works on what it got, and sends the result without looking at the       *)
(* context.  A send and its receipt are one step, Handover.  What is said  *)
(* is abstracted to who asked for it and a number; time and the locks of   *)
(* other processes are abstracted to how long a step may take.             *)
(***************************************************************************)
EXTENDS Integers, Sequences, SequencesExt

CONSTANTS
    Nil,
    Limit,                  \* how many messages each source brings, at most
    MaxMessages,            \* and all of them together
    EnableAutomaticPicture

ASSUME LimitAssumption ==
    /\ Limit \in [{"voice", "chat", "fade", "loop"} -> Nat]
    /\ MaxMessages \in Nat
    /\ EnableAutomaticPicture \in BOOLEAN

Source == {"voice", "chat", "fade", "loop"}
Message == UNION {[src : {s}, n : 1..Limit[s]] : s \in Source}

ASSUME NilAssumption == Nil \notin Message

\* listener is ChatListener.Run, chat the goroutine that forwards its requests,
\* loop Controller.Run, streamer the one of telemetry's Stream that forwards
\* fades, fader the radar's collectFadedTrackfiles.
Proc == {"recognize", "listener", "chat", "parse", "control", "loop", "compose",
         "synthesize", "transmit", "streamer", "fader"}

\* Who receives from the channel a goroutine sends to.  What transmit sends is
\* received by the SRS client.
Receiver ==
    [recognize |-> "parse", listener |-> "chat", chat |-> "parse",
     parse |-> "control",
     control |-> "compose", loop |-> "compose", fader |-> "compose",
     compose |-> "synthesize", synthesize |-> "transmit",
     streamer |-> "fader"]

VARIABLES
    pc,             \* where each goroutine is
    hand,           \* the message it works on
    count,          \* how many messages each source has brought
    pendingFades,   \* Radar.pendingFades
    passed,         \* whether the fader's deadline has passed
    cancelled,      \* the context is done
    exit,           \* "running", then how the process has ended
    aired           \* history: what the radio got from us, per source

vars == <<pc, hand, count, pendingFades, passed, cancelled, exit, aired>>
rest == <<count, pendingFades, passed, cancelled, exit, aired>>

\* Waiting in the select, for a lock file, at work, blocked in a send, in a
\* send to a nil channel, gone; start, sunrise, round, ask and wait are the
\* loop's, announce is the fader's.
PcSet == {"select", "lock", "work", "send", "nil", "left",
          "start", "sunrise", "round", "ask", "wait", "announce"}

\* A goroutine has a message in hand exactly while it works on it.
TypeOK ==
    /\ pc \in [Proc -> PcSet]
    /\ hand \in [Proc -> Message \cup {Nil}]
    /\ \A p \in Proc : hand[p] # Nil <=>
                      pc[p] \in {"lock", "work", "send", "nil", "sunrise"}
    /\ count \in [Source -> Nat]
    /\ \A s \in Source : count[s] <= Limit[s]
    /\ pendingFades \in Seq(Message)
    /\ passed \in BOOLEAN
    /\ cancelled \in BOOLEAN
    /\ exit \in {"running", "clean", "forced"}
    /\ aired \in [Source -> Seq(Message)]

Init ==
    /\ pc = [p \in Proc |-> IF p = "loop" THEN "start" ELSE "select"]
    /\ hand = [p \in Proc |-> Nil]
    /\ count = [s \in Source |-> 0]
    /\ pendingFades = <<>>
    /\ passed = TRUE
    /\ cancelled = FALSE
    /\ exit = "running"
    /\ aired = [s \in Source |-> <<>>]

-----------------------------------------------------------------------------
At(p, here) == exit = "running" /\ pc[p] = here

Go(p, there) == pc' = [pc EXCEPT ![p] = there]

\* p gives its message up and is back in its select.
Release(p) ==
    /\ Go(p, "select")
    /\ hand' = [hand EXCEPT ![p] = Nil]

\* Mutant: an error is logged and the rest done all the same.
ContinueWithNothing(p, ok, there) ==
    /\ Go(p, there)
    /\ hand' = IF ok THEN hand ELSE [hand EXCEPT ![p] = Nil]

\* p goes on to there with its message if ok, and gives it up otherwise.
Continue(p, ok, there) ==
    IF ok THEN Go(p, there) /\ UNCHANGED hand ELSE Release(p)

Brought == count["voice"] + count["chat"] + count["fade"] + count["loop"]

\* p, at here, brings the next message of source s and goes there.
Bring(p, s, here, there) ==
    /\ At(p, here)
    /\ count[s] < Limit[s]
    /\ Brought < MaxMessages
    /\ count' = [count EXCEPT ![s] = @ + 1]
    /\ hand' = [hand EXCEPT ![p] = [src |-> s, n |-> count[s] + 1]]
    /\ Go(p, there)
    /\ UNCHANGED <<pendingFades, passed, cancelled, exit, aired>>

Sending(p) == pc[p] \in {"send", "sunrise"}

\* Where a goroutine goes on once its message has been received.
AfterSend(p) ==
    CASE p = "fader" -> "announce"
      [] p = "loop" /\ pc[p] = "send" -> "round"
      [] OTHER -> "select"

\* What the receiver does first with a message of its channel.
OnReceipt(q) ==
    CASE q = "synthesize" -> "lock"
      [] q \in {"chat", "transmit"} -> "send"
      [] OTHER -> "work"

\* An unbuffered send is received.
Handover(p) ==
    /\ exit = "running"
    /\ Sending(p)
    /\ LET q == Receiver[p] IN
         /\ pc[q] = "select"
         /\ pc' = [pc EXCEPT ![p] = AfterSend(p), ![q] = OnReceipt(q)]
         /\ hand' = [hand EXCEPT ![p] = Nil, ![q] = hand[p]]
    /\ UNCHANGED rest

\* case <-ctx.Done(): a goroutine that is in its select may return once the
\* context is done.  One that has returned is one that stays in its select and
\* receives nothing any more, so returning is no step of its own; only the
\* loop does something on its way out, StopController.
Left(p) == pc[p] = "left" \/ (cancelled /\ pc[p] = "select" /\ p # "loop")

-----------------------------------------------------------------------------
(* From the radio and the chat to the controller *)

\* a.srsClient.Receive()
TakeTransmission == Bring("recognize", "voice", "select", "lock")

\* recognizeSample holds a lock file, which other instances use too, until its
\* text has been received.  tryLock waits as long as the context
\* of the process lives, and may fail.
LockRecognizer(ok) ==
    /\ At("recognize", "lock")
    /\ Continue("recognize", ok, "work")
    /\ UNCHANGED rest

\* Recognize returns text or an error.
Recognize(ok) ==
    /\ At("recognize", "work")
    /\ Continue("recognize", ok, "send")
    /\ UNCHANGED rest

\* ChatListener.receive: a chat message of a player of the coalition.
ReceiveChat == Bring("listener", "chat", "select", "send")

\* parseText: text without a request goes no further.
ParseText(ok) ==
    /\ At("parse", "work")
    /\ Continue("parse", ok, "send")
    /\ UNCHANGED rest

\* Every handler sends one call.  Before Run has assigned c.calls it is sent
\* to a nil channel.
HandleRequest ==
    /\ At("control", "work")
    /\ Go("control", IF pc["loop"] = "start" THEN "nil" ELSE "send")
    /\ UNCHANGED <<hand, rest>>

-----------------------------------------------------------------------------
(* From the controller to the radio *)

\* composeCall: every call is passed on, even without a composition.
ComposeCall ==
    /\ At("compose", "work")
    /\ Go("compose", "send")
    /\ UNCHANGED <<hand, rest>>

\* Mutant: the stage returns when it does not get the lock.
LockSpeakerOrReturn(ok) ==
    /\ At("synthesize", "lock")
    /\ Go("synthesize", IF ok THEN "work" ELSE "left")
    /\ hand' = IF ok THEN hand ELSE [hand EXCEPT !["synthesize"] = Nil]
    /\ UNCHANGED rest

\* synthesizeMessage holds its lock file until the audio has been received.
\* tryLock gives up after 30 s.
LockSpeaker(ok) ==
    /\ At("synthesize", "lock")
    /\ Continue("synthesize", ok, "work")
    /\ UNCHANGED rest

Synthesize(ok) ==
    /\ At("synthesize", "work")
    /\ Continue("synthesize", ok, "send")
    /\ UNCHANGED rest

\* transmitMessage: the SRS client takes the transmission.
Transmit ==
    /\ At("transmit", "send")
    /\ Release("transmit")
    /\ LET m == hand["transmit"]
       IN  aired' = [aired EXCEPT ![m.src] = Append(@, m)]
    /\ UNCHANGED <<count, pendingFades, passed, cancelled, exit>>

-----------------------------------------------------------------------------
(* Controller.Run *)

\* The radar's fader holds pendingFadesLock and callbackLock.
FadesLocked == pc["fader"] \in {"announce", "send"}

\* The channel is assigned, the callbacks are attached, SUNRISE is sent.
StartController == Bring("loop", "loop", "start", "sunrise")

Tick ==
    /\ At("loop", "select")
    /\ Go("loop", "round")
    /\ UNCHANGED <<hand, rest>>

\* A MERGED or a THREAT call: see Controller for which of them there are.
BroadcastCall == Bring("loop", "loop", "round", "send")

\* broadcastAutomaticPicture: the deadline has passed and there are clients on
\* frequency, or not.
EndRound(due) ==
    /\ At("loop", "round")
    /\ due => EnableAutomaticPicture
    /\ Go("loop", IF due THEN "ask" ELSE "select")
    /\ UNCHANGED <<hand, rest>>

\* WaitUntilFadesResolve asks whether fades are pending, for which it needs
\* pendingFadesLock, and then waits in its select: for its ticker, to ask
\* again, or for the end of the context.
FadesPending ==
    /\ At("loop", "ask")
    /\ ~FadesLocked
    /\ pendingFades # <<>>
    /\ Go("loop", "wait")
    /\ UNCHANGED <<hand, rest>>

AskAgain ==
    /\ At("loop", "wait")
    /\ Go("loop", "ask")
    /\ UNCHANGED <<hand, rest>>

\* It returns.
FadesResolved ==
    \/ pc["loop"] = "ask" /\ ~FadesLocked /\ pendingFades = <<>>
    \/ pc["loop"] = "wait" /\ cancelled

\* The picture has changed and is sent, after which the round is over;
\* merges and threats had their turn before.
SendPicture ==
    /\ FadesResolved
    /\ Bring("loop", "loop", pc["loop"], "sunrise")

\* It is clean again.
SkipPicture ==
    /\ exit = "running"
    /\ FadesResolved
    /\ Go("loop", "select")
    /\ UNCHANGED <<hand, rest>>

\* Detaching the callbacks takes the radar's callbackLock.
StopController ==
    /\ cancelled
    /\ ~FadesLocked
    /\ At("loop", "select")
    /\ Go("loop", "left")
    /\ UNCHANGED <<hand, rest>>

-----------------------------------------------------------------------------
(* Fades and mission restarts, from telemetry through the radar *)

ReceiveRemoval == Bring("streamer", "fade", "select", "send")

\* The radar ignores the fade of a contact it does not have; every other one
\* moves its deadline on.
AppendFade(known) ==
    /\ At("fader", "work")
    /\ IF known THEN /\ pendingFades' = Append(pendingFades, hand["fader"])
                     /\ passed' = FALSE
                ELSE UNCHANGED <<pendingFades, passed>>
    /\ Release("fader")
    /\ UNCHANGED <<count, cancelled, exit, aired>>

\* Telemetry repeats the fade of a pending contact.  The repeat moves the
\* deadline on and leads no group; Limit does not count it.
RepeatFade ==
    /\ At("streamer", "select")
    /\ At("fader", "select")
    /\ pendingFades # <<>>
    /\ passed' = FALSE
    /\ UNCHANGED <<pc, hand, count, pendingFades, cancelled, exit, aired>>

PassDeadline ==
    /\ exit = "running"
    /\ ~passed
    /\ passed' = TRUE
    /\ UNCHANGED <<pc, hand, count, pendingFades, cancelled, exit, aired>>

\* Mutant: fades are collected between the rounds of the controller's loop.
FadeTickBetweenRounds ==
    /\ At("fader", "select")
    /\ pendingFades # <<>> /\ passed
    /\ pc["loop"] = "select"
    /\ Go("fader", "announce")
    /\ UNCHANGED <<hand, rest>>

\* The ticker finds the deadline passed with fades pending.
FadeTick ==
    /\ At("fader", "select")
    /\ pendingFades # <<>> /\ passed
    /\ Go("fader", "announce")
    /\ UNCHANGED <<hand, rest>>

\* The group of fade m, the next of the batch, is announced or not.
AnnounceFade(m, left, broadcast) ==
    /\ At("fader", "announce")
    /\ pendingFades' = left
    /\ IF broadcast /\ pc["loop"] \notin {"start", "left"}
       THEN Go("fader", "send") /\ hand' = [hand EXCEPT !["fader"] = m]
       ELSE UNCHANGED <<pc, hand>>
    /\ UNCHANGED <<count, passed, cancelled, exit, aired>>

\* Mutant: the batch is announced from its end.
AnnounceLast(broadcast) ==
    /\ pendingFades # <<>>
    /\ AnnounceFade(Last(pendingFades), Front(pendingFades), broadcast)

\* The radar's handleFaded calls the controller's, if that is attached, for
\* each group of the batch.  The call is sent if the group is hostile, near
\* friendlies and somebody listens.
Announce(broadcast) ==
    /\ pendingFades # <<>>
    /\ AnnounceFade(Head(pendingFades), Tail(pendingFades), broadcast)

EndAnnounce ==
    /\ At("fader", "announce")
    /\ pendingFades = <<>>
    /\ Go("fader", "select")
    /\ UNCHANGED <<hand, rest>>

\* handleStarted waits for pendingFadesLock and forgets the batch.
HandleStarted ==
    /\ exit = "running"
    /\ ~FadesLocked
    /\ pendingFades' = <<>>
    /\ UNCHANGED <<pc, hand, count, passed, cancelled, exit, aired>>

-----------------------------------------------------------------------------
(* The end *)

\* A signal, the exit timer finding nobody on frequency, or the failure of the
\* telemetry or the SRS client.
Cancel ==
    /\ exit = "running" /\ ~cancelled
    /\ cancelled' = TRUE
    /\ UNCHANGED <<pc, hand, count, pendingFades, passed, exit, aired>>

\* The process is gone, and what it held with it.
Die(how) ==
    /\ exit = "running"
    /\ exit' = how
    /\ pc' = [p \in Proc |-> "left"]
    /\ hand' = [p \in Proc |-> Nil]
    /\ pendingFades' = <<>>
    /\ passed' = TRUE
    /\ UNCHANGED <<count, cancelled, aired>>

\* wg.Wait() returns.
Exit == (\A p \in Proc : Left(p)) /\ Die("clean")

\* The watchdog, 10 s after the context has ended.
ForceExit == cancelled /\ Die("forced")

-----------------------------------------------------------------------------
\* The loop between two selects.
RoundNext ==
    \/ BroadcastCall \/ FadesPending \/ AskAgain \/ SendPicture \/ SkipPicture
    \/ \E due \in BOOLEAN : EndRound(due)

\* Every other step between taking something in and being done with it.
WorkNext ==
    \/ \E ok \in BOOLEAN : LockRecognizer(ok) \/ Recognize(ok) \/ ParseText(ok)
    \/ HandleRequest \/ ComposeCall
    \/ \E ok \in BOOLEAN : LockSpeaker(ok) \/ Synthesize(ok)
    \/ Transmit \/ StartController
    \/ FadeTick \/ EndAnnounce
    \/ \E b \in BOOLEAN : AppendFade(b) \/ Announce(b)
    \/ \E p \in DOMAIN Receiver : Handover(p)

InputNext ==
    \/ TakeTransmission \/ ReceiveChat \/ ReceiveRemoval \/ RepeatFade
    \/ PassDeadline \/ Tick \/ HandleStarted

EndNext == Cancel \/ StopController \/ Exit \/ ForceExit

Next == WorkNext \/ RoundNext \/ InputNext \/ EndNext

Spec == Init /\ [][Next]_vars

\* While the context lives some goroutine that can go on does, whichever the
\* scheduler picks: the radio takes transmissions and lock files become free.
\* The loop is never starved, and the watchdog's sleep ends.
Fairness ==
    /\ WF_vars(~cancelled /\ WorkNext)
    /\ WF_vars(RoundNext)
    /\ WF_vars(ForceExit)

FairSpec == Spec /\ Fairness

-----------------------------------------------------------------------------
\* What is on its way to the radio: in the hands of a goroutine, or a fade that
\* waits in the radar.
OnItsWay == ({hand[p] : p \in Proc} \ {Nil}) \cup Range(pendingFades)

Promise == INSTANCE LossyQueue
             WITH asked <- count,
                  waiting <- [s \in Source |-> {m \in OnItsWay : m.src = s}]

\* What one source asks for - the speakers on the radio, the chat, telemetry's
\* fades, the controller's own loop - is said in the order in which it was
\* asked for, each thing at most once, whatever the other sources do, however
\* requests fail on the way, and across restarts and the shutdown.
SaidInOrder == Promise!Spec

\* A request met the controller before Run assigned c.calls.
NilCalls == pc["control"] = "nil"

\* Fades stop arriving, and the deadline the last one set passes.
FadesStop == <>[]passed

\* Once its sources are silent the application comes to rest, or it ends:
\* everything taken in has been said or dropped, and no lock file and no lock
\* of the radar is held.  No stage waits for ever on another, on a lock or on
\* the radar, unless a request hit the unassigned channel.
Drains ==
    FadesStop => []<>(NilCalls \/ (OnItsWay = {} /\ ~FadesLocked))

\* Once fades stop arriving the controller's loop does not hang in
\* WaitUntilFadesResolve, although the fades it waits for need the calls
\* channel and the lock it asks for.  While they keep arriving it waits: each
\* moves the deadline on.
Waiting == pc["loop"] \in {"ask", "wait"}

FadesResolve == FadesStop => (Waiting ~> ~Waiting)
=============================================================================
