---- MODULE RpcProtocolProofs ----
(***************************************************************************)
(* Proofs about RpcProtocol: type correctness, the invariants behind       *)
(* OwnAnswer, ReaderNeverBlocks and NotesInOrder, and the implementation   *)
(* of RpcService, for every number of callers and every bound.             *)
(***************************************************************************)
EXTENDS RpcProtocol, SequenceTheorems, TLAPS

\* A goroutine inside Call holds an id that was handed out to it.
IdsHandedOut ==
    \A c \in Callers : pc[c] # "idle" => callId[c] \in 1..nextID

\* The reader sends on the channel of a call only what it classified as a response.
DeliversResponses == readerPc = "deliver" => IsResponse(hand)

TypeInv == TypeOK /\ IdsHandedOut /\ DeliversResponses

-----------------------------------------------------------------------------
(* Type correctness. *)

LEMMA MessageTypes ==
    /\ \A i \in Ids, b \in {0, 1} : Answer(i, b) \in Message
    /\ \A i \in Ids : RequestEcho(i) \in Message
    /\ \A n \in Nat : Event(n) \in Message
    /\ Garbage \in Message
    /\ NoMessage \in Message
BY BoundsAssumption DEF Answer, RequestEcho, Event, Garbage, NoMessage, Message, Ids, NoId

LEMMA TypeInit == Init => TypeInv
<1> SUFFICES ASSUME Init PROVE TypeInv
    OBVIOUS
<1> USE BoundsAssumption DEF Init
<1>1. chan \in [Ids -> Seq(Message)]
    OBVIOUS
<1>2. notifyCh \in Seq(Message) /\ Len(notifyCh) \in 0..NotifyCap /\ wire \in Seq(Message)
    OBVIOUS
<1>3. /\ pc \in [Callers -> InCall \union {"idle"}]
      /\ callId \in [Callers -> 0..MaxCalls]
    BY DEF InCall, NoId
<1>4. outcome \in [Callers -> {"none", "open", "result", "rpcError", "ctx", "closed",
                              "send", "marshal"}]
    OBVIOUS
<1>5. nextID \in 0..MaxCalls /\ emitted \in 0..MaxEvents /\ consumed \in Nat
    OBVIOUS
<1>6. /\ pending \subseteq Ids /\ received \subseteq Ids /\ expired \subseteq Callers
      /\ answers \subseteq Ids \X {0, 1}
    OBVIOUS
<1>7. TypeOK
    BY <1>1, <1>2, <1>3, <1>4, <1>5, <1>6, MessageTypes DEF TypeOK
<1> QED
    BY <1>7 DEF TypeInv, IdsHandedOut, DeliversResponses

\* The ids that index chan: those of goroutines inside Call and of responses.
LEMMA UsedIds ==
    TypeInv => /\ \A c \in Callers : pc[c] # "idle" => callId[c] \in Ids
               /\ IsResponse(hand) => hand.id \in Ids
<1> SUFFICES ASSUME TypeInv PROVE /\ \A c \in Callers : pc[c] # "idle" => callId[c] \in Ids
                                  /\ IsResponse(hand) => hand.id \in Ids
    OBVIOUS
<1>1. \A c \in Callers : pc[c] # "idle" => callId[c] \in Ids
    BY BoundsAssumption DEF TypeInv, TypeOK, IdsHandedOut, Ids
<1>2. ASSUME IsResponse(hand) PROVE hand.id \in Ids
  <2>1. hand \in Message
    BY DEF TypeInv, TypeOK
  <2>2. hand.id \in 0..MaxCalls /\ hand.id # 0
    BY <1>2, <2>1 DEF Message, IsResponse, NoId
  <2> QED
    BY <2>2, BoundsAssumption DEF Ids
<1> QED
    BY <1>1, <1>2

LEMMA TypeStep == TypeInv /\ [Next]_vars => TypeInv'
<1> SUFFICES ASSUME TypeInv, [Next]_vars PROVE TypeInv'
    OBVIOUS
<1> USE BoundsAssumption DEF TypeInv, TypeOK, IdsHandedOut, DeliversResponses
<1> USE DEF IsResponse, Decodes
<1>1. ASSUME NEW c \in Callers, BeginCall(c) PROVE TypeInv'
  <2>1. TypeOK'
    BY <1>1 DEF BeginCall, InCall, notifyVars, readerVars, deviceVars
  <2>2. IdsHandedOut'
    BY <1>1 DEF BeginCall
  <2> QED
    BY <1>1, <2>1, <2>2 DEF BeginCall, readerVars
<1>2. ASSUME NEW c \in Callers, MarshalFails(c) PROVE TypeInv'
    BY <1>2 DEF MarshalFails, Settle, InCall, tableVars, notifyVars, readerVars, deviceVars
<1>3. ASSUME NEW c \in Callers, Register(c) PROVE TypeInv'
  <2>1. pending' \subseteq Ids
    BY <1>3, UsedIds DEF Register
  <2> QED
    BY <1>3, <2>1 DEF Register, Goto, InCall, notifyVars, readerVars, deviceVars
<1>4. ASSUME NEW c \in Callers, Send(c) PROVE TypeInv'
  <2>1. received' \subseteq Ids
    BY <1>4, UsedIds DEF Send
  <2> QED
    BY <1>4, <2>1 DEF Send, Goto, Settle, InCall, tableVars, notifyVars, readerVars
<1>5. ASSUME NEW c \in Callers, BackoffElapsed(c) PROVE TypeInv'
    BY <1>5 DEF BackoffElapsed, Goto, InCall, tableVars, notifyVars, readerVars, deviceVars
<1>6. ASSUME NEW c \in Callers, BackoffAborted(c) \/ WaitAborted(c) PROVE TypeInv'
    BY <1>6 DEF BackoffAborted, WaitAborted, Abort, Settle, InCall, tableVars, notifyVars,
                readerVars, deviceVars
<1>7. ASSUME NEW c \in Callers, WaitAnswer(c) PROVE TypeInv'
  <2>1. callId[c] \in Ids /\ chan[callId[c]] \in Seq(Message) /\ chan[callId[c]] # <<>>
    BY <1>7 DEF WaitAnswer, Ids
  <2>2. Tail(chan[callId[c]]) \in Seq(Message)
    BY <2>1
  <2>3. chan' \in [Ids -> Seq(Message)]
    BY <1>7, <2>2 DEF WaitAnswer
  <2> QED
    BY <1>7, <2>3 DEF WaitAnswer, Settle, InCall, notifyVars, readerVars, deviceVars
<1>8. ASSUME NEW c \in Callers, Leave(c) PROVE TypeInv'
    BY <1>8 DEF Leave, InCall, NoId, notifyVars, readerVars, deviceVars
<1>9. ASSUME NEW c \in Callers, CtxExpires(c) PROVE TypeInv'
    BY <1>9 DEF CtxExpires, tableVars, notifyVars, readerVars, deviceVars
<1>10. ASSUME Stop \/ Watcher PROVE TypeInv'
    BY <1>10 DEF Stop, Watcher, callVars, tableVars, notifyVars, deviceVars
<1>11. ASSUME ReaderCheckDone \/ ReaderReceiveError PROVE TypeInv'
    BY <1>11 DEF ReaderCheckDone, ReaderReceiveError, ReaderAt, callVars, deviceVars
<1>12. ASSUME ReaderReceive PROVE TypeInv'
    BY <1>12 DEF ReaderReceive, ReaderAt, callVars, deviceVars
<1>13. ASSUME RouteResponse PROVE TypeInv'
    BY <1>13 DEF RouteResponse, ReaderAt, callVars, deviceVars
<1>14. ASSUME RouteNotification PROVE TypeInv'
  <2>1. notifyCh' \in Seq(Message) /\ Len(notifyCh') \in 0..NotifyCap
    BY <1>14 DEF RouteNotification
  <2> QED
    BY <1>14, <2>1, MessageTypes DEF RouteNotification, ReaderAt, callVars, deviceVars
<1>15. ASSUME RouteDiscard PROVE TypeInv'
    BY <1>15, MessageTypes DEF RouteDiscard, ReaderAt, callVars, deviceVars
<1>16. ASSUME ReaderDeliver PROVE TypeInv'
  <2>1. hand.id \in Ids /\ chan[hand.id] \in Seq(Message)
    BY <1>16, UsedIds DEF ReaderDeliver
  <2>2. Append(chan[hand.id], hand) \in Seq(Message)
    BY <2>1
  <2>3. chan' \in [Ids -> Seq(Message)]
    BY <1>16, <2>2 DEF ReaderDeliver
  <2> QED
    BY <1>16, <2>3, MessageTypes DEF ReaderDeliver, ReaderAt, callVars, deviceVars
<1>17. ASSUME TakeNotification PROVE TypeInv'
  <2>1. Head(notifyCh) \in Message /\ Tail(notifyCh) \in Seq(Message)
    BY <1>17 DEF TakeNotification
  <2>2. Len(Tail(notifyCh)) \in 0..NotifyCap
    BY <1>17 DEF TakeNotification
  <2>3. consumed' \in Nat
    BY <1>17, <2>1 DEF TakeNotification, Message
  <2> QED
    BY <1>17, <2>1, <2>2, <2>3
       DEF TakeNotification, callVars, tableVars, readerVars, deviceVars
<1>18. ASSUME NEW i \in Ids, NEW b \in {0, 1}, DeviceAnswers(i, b) PROVE TypeInv'
  <2>1. wire' \in Seq(Message)
    BY <1>18, MessageTypes DEF DeviceAnswers, Transmit
  <2> QED
    BY <1>18, <2>1 DEF DeviceAnswers, Transmit, callVars, tableVars, notifyVars, readerVars
<1>19. ASSUME DeviceNotifies PROVE TypeInv'
  <2>1. wire' \in Seq(Message)
    BY <1>19, MessageTypes DEF DeviceNotifies, Transmit
  <2> QED
    BY <1>19, <2>1 DEF DeviceNotifies, Transmit, callVars, tableVars, notifyVars, readerVars
<1>20. ASSUME (\E i \in Ids : ConsoleEchoes(i)) \/ WireNoise PROVE TypeInv'
  <2>1. PICK m \in Message : Transmit(m)
    BY <1>20, MessageTypes DEF ConsoleEchoes, WireNoise, Noise
  <2>2. wire' \in Seq(Message)
    BY <2>1 DEF Transmit
  <2> QED
    BY <1>20, <2>2 DEF ConsoleEchoes, WireNoise, Transmit, callVars, tableVars, notifyVars,
                       readerVars
<1>21. ASSUME WireLost PROVE TypeInv'
    BY <1>21 DEF WireLost, callVars, tableVars, notifyVars, readerVars, deviceVars
<1>22. ASSUME UNCHANGED vars PROVE TypeInv'
    BY <1>22 DEF vars, callVars, tableVars, notifyVars, readerVars, deviceVars
<1> QED
    BY <1>1, <1>2, <1>3, <1>4, <1>5, <1>6, <1>7, <1>8, <1>9, <1>10, <1>11, <1>12, <1>13,
       <1>14, <1>15, <1>16, <1>17, <1>18, <1>19, <1>20, <1>21, <1>22
       DEF Next, Call, Reader, Device

\* Every reachable state of protocol.go is well typed, and notifyCh never exceeds
\* its capacity.
THEOREM TypeCorrect == Spec => []TypeOK
<1>1. TypeInv => TypeOK
    BY DEF TypeInv
<1> QED
    BY <1>1, TypeInit, TypeStep, PTL DEF Spec

-----------------------------------------------------------------------------
(* Answers: nothing the client holds was not answered by the device. *)

Answered(m) == <<m.id, m.body>> \in answers

\* Every response on its way to a call was given by the device, and lies in the
\* channel of its own id once it is delivered.
AnswersAreGenuine ==
    /\ \A k \in 1..Len(wire) : IsResponse(wire[k]) => Answered(wire[k])
    /\ IsResponse(hand) => Answered(hand)
    /\ \A i \in Ids : \A k \in 1..Len(chan[i]) : chan[i][k].id = i /\ Answered(chan[i][k])

AnswerInv == AnswersAreGenuine /\ OwnAnswer

LEMMA NotResponses ==
    /\ ~IsResponse(NoMessage) /\ ~IsResponse(Garbage)
    /\ \A n : ~IsResponse(Event(n))
    /\ \A i : ~IsResponse(RequestEcho(i))
BY DEF IsResponse, Decodes, NoMessage, Garbage, Event, RequestEcho, NoId

\* A message the transport gets is its last, and the others keep their places.
LEMMA TransmitAppends ==
    ASSUME TypeInv, NEW m \in Message, Transmit(m)
    PROVE  /\ Len(wire') = Len(wire) + 1
           /\ \A k \in 1..Len(wire') : IF k = Len(wire')
                                       THEN wire'[k] = m
                                       ELSE k \in 1..Len(wire) /\ wire'[k] = wire[k]
<1>1. wire \in Seq(Message) /\ wire' = Append(wire, m)
    BY DEF TypeInv, TypeOK, Transmit
<1> QED
    BY <1>1

LEMMA ReceiveShifts ==
    ASSUME TypeInv, ReaderReceive
    PROVE  /\ Len(wire) > 0 /\ Len(wire') = Len(wire) - 1
           /\ hand' = wire[1]
           /\ \A k \in 1..Len(wire') : k + 1 \in 1..Len(wire) /\ wire'[k] = wire[k + 1]
BY DEF TypeInv, TypeOK, ReaderReceive, ReaderAt

\* What a call, Stop or the watcher does leaves every message where it is, unless
\* a call takes its answer.
MessagesStay == UNCHANGED <<wire, hand, chan, answers, notifyCh, emitted, consumed>>

LEMMA CallsLeaveMessages ==
    /\ \A c \in Callers :
          \/ BeginCall(c) \/ MarshalFails(c) \/ Register(c) \/ Send(c)
          \/ BackoffElapsed(c) \/ BackoffAborted(c) \/ WaitAborted(c)
          \/ Leave(c) \/ CtxExpires(c)
          => MessagesStay
    /\ Stop \/ Watcher => MessagesStay
BY DEF MessagesStay, BeginCall, MarshalFails, Register, Send, BackoffElapsed,
       BackoffAborted, WaitAborted, Abort, Leave, CtxExpires, Stop, Watcher,
       tableVars, notifyVars, readerVars, deviceVars

LEMMA AnswerInit == Init => AnswerInv
<1> SUFFICES ASSUME Init PROVE AnswerInv
    OBVIOUS
<1>1. AnswersAreGenuine
    BY NotResponses DEF Init, AnswersAreGenuine
<1>2. OwnAnswer
    BY DEF Init, OwnAnswer
<1> QED
    BY <1>1, <1>2 DEF AnswerInv

LEMMA AnswersAreGenuineStep ==
    TypeInv /\ AnswersAreGenuine /\ [Next]_vars => AnswersAreGenuine'
<1> SUFFICES ASSUME TypeInv, AnswersAreGenuine, [Next]_vars PROVE AnswersAreGenuine'
    OBVIOUS
<1> USE DEF AnswersAreGenuine, Answered
<1>1. ASSUME MessagesStay PROVE AnswersAreGenuine'
    BY <1>1 DEF MessagesStay, IsResponse, Decodes
<1>2. ASSUME NEW c \in Callers, WaitAnswer(c) PROVE AnswersAreGenuine'
  <2>1. callId[c] \in Ids /\ chan[callId[c]] \in Seq(Message) /\ chan[callId[c]] # <<>>
    BY <1>2, UsedIds DEF WaitAnswer, TypeInv, TypeOK
  <2>2. \A k \in 1..Len(Tail(chan[callId[c]])) :
           /\ k + 1 \in 1..Len(chan[callId[c]])
           /\ Tail(chan[callId[c]])[k] = chan[callId[c]][k + 1]
    BY <2>1
  <2>3. \A i \in Ids : \A k \in 1..Len(chan'[i]) : chan'[i][k].id = i /\ Answered(chan'[i][k])
    BY <1>2, <2>1, <2>2 DEF WaitAnswer, TypeInv, TypeOK
  <2> QED
    BY <1>2, <2>3 DEF WaitAnswer, readerVars, deviceVars
<1>3. ASSUME \/ ReaderCheckDone \/ ReaderReceiveError \/ RouteResponse
             \/ RouteNotification \/ RouteDiscard
      PROVE  AnswersAreGenuine'
    BY <1>3, NotResponses
       DEF ReaderCheckDone, ReaderReceiveError, RouteResponse, RouteNotification,
           RouteDiscard, ReaderAt, deviceVars
<1>4. ASSUME ReaderReceive PROVE AnswersAreGenuine'
    BY <1>4, ReceiveShifts DEF ReaderReceive, ReaderAt, deviceVars
<1>5. ASSUME ReaderDeliver PROVE AnswersAreGenuine'
  <2>1. hand.id \in Ids /\ chan[hand.id] \in Seq(Message) /\ Answered(hand)
    BY <1>5, UsedIds DEF ReaderDeliver, TypeInv, TypeOK, DeliversResponses
  <2>2. ASSUME NEW i \in Ids, NEW k \in 1..Len(chan'[i])
        PROVE  chan'[i][k].id = i /\ Answered(chan'[i][k])
    <3>1. CASE i # hand.id
      BY <1>5, <2>1, <3>1 DEF ReaderDeliver, TypeInv, TypeOK
    <3>2. CASE i = hand.id
      <4>1. chan'[i] = Append(chan[i], hand)
        BY <1>5, <2>1, <3>2 DEF ReaderDeliver, TypeInv, TypeOK
      <4>2. (k \in 1..Len(chan[i]) /\ chan'[i][k] = chan[i][k]) \/ chan'[i][k] = hand
        BY <2>1, <3>2, <4>1
      <4> QED
        BY <2>1, <3>2, <4>2
    <3> QED
      BY <3>1, <3>2
  <2> QED
    BY <1>5, <2>2, NotResponses DEF ReaderDeliver, ReaderAt, deviceVars
<1>6. ASSUME TakeNotification PROVE AnswersAreGenuine'
    BY <1>6 DEF TakeNotification, tableVars, readerVars, deviceVars
<1>7. ASSUME NEW i \in Ids, NEW b \in {0, 1}, DeviceAnswers(i, b) PROVE AnswersAreGenuine'
  <2>1. Transmit(Answer(i, b)) /\ Answer(i, b) \in Message
    BY <1>7, MessageTypes DEF DeviceAnswers
  <2>2. Answered(Answer(i, b))' /\ answers \subseteq answers'
    BY <1>7 DEF DeviceAnswers, Answer
  <2>3. \A k \in 1..Len(wire') :
           wire'[k] = Answer(i, b) \/ (k \in 1..Len(wire) /\ wire'[k] = wire[k])
    BY <2>1, TransmitAppends
  <2>4. (\A k \in 1..Len(wire) : IsResponse(wire[k]) => Answered(wire[k]))'
    BY <2>1, <2>2, <2>3
  <2> QED
    BY <2>1, <2>2, <2>4 DEF Transmit, tableVars, readerVars
<1>8. ASSUME DeviceNotifies \/ (\E i \in Ids : ConsoleEchoes(i)) \/ WireNoise
      PROVE  AnswersAreGenuine'
  <2>1. PICK m \in Message : Transmit(m) /\ ~IsResponse(m)
    BY <1>8, MessageTypes, NotResponses
       DEF DeviceNotifies, ConsoleEchoes, WireNoise, Noise, TypeInv, TypeOK
  <2>2. answers' = answers
    BY <1>8 DEF DeviceNotifies, ConsoleEchoes, WireNoise
  <2>3. \A k \in 1..Len(wire') :
           wire'[k] = m \/ (k \in 1..Len(wire) /\ wire'[k] = wire[k])
    BY <2>1, TransmitAppends
  <2>4. (\A k \in 1..Len(wire) : IsResponse(wire[k]) => Answered(wire[k]))'
    BY <2>1, <2>2, <2>3
  <2> QED
    BY <2>1, <2>2, <2>4 DEF Transmit, tableVars, readerVars
<1>9. ASSUME WireLost PROVE AnswersAreGenuine'
    BY <1>9 DEF WireLost, tableVars, readerVars, deviceVars
<1>10. ASSUME UNCHANGED vars PROVE AnswersAreGenuine'
    BY <1>1, <1>10
       DEF vars, MessagesStay, tableVars, notifyVars, readerVars, deviceVars
<1> QED
    BY <1>1, <1>2, <1>3, <1>4, <1>5, <1>6, <1>7, <1>8, <1>9, <1>10, CallsLeaveMessages
       DEF Next, Call, Reader, Device

LEMMA OwnAnswerStep ==
    TypeInv /\ AnswerInv /\ [Next]_vars => OwnAnswer'
<1> SUFFICES ASSUME TypeInv, AnswerInv, [Next]_vars PROVE OwnAnswer'
    OBVIOUS
<1> USE DEF AnswerInv, OwnAnswer
<1>1. ASSUME UNCHANGED <<outcome, callId>>, answers \subseteq answers' PROVE OwnAnswer'
    BY <1>1
<1>2. ASSUME NEW c \in Callers,
             \/ BeginCall(c) \/ MarshalFails(c) \/ Register(c) \/ Send(c)
             \/ BackoffElapsed(c) \/ BackoffAborted(c) \/ WaitAborted(c) \/ Leave(c)
             \/ CtxExpires(c)
      PROVE  OwnAnswer'
  <2>1. answers' = answers
    BY <1>2, CallsLeaveMessages DEF MessagesStay
  <2>2. \A d \in Callers : \/ outcome'[d] = outcome[d] /\ callId'[d] = callId[d]
                           \/ outcome'[d] \notin {"result", "rpcError"}
    BY <1>2 DEF BeginCall, MarshalFails, Register, Send, BackoffElapsed, BackoffAborted,
                WaitAborted, Abort, Leave, CtxExpires, Goto, Settle, TypeInv, TypeOK
  <2> QED
    BY <2>1, <2>2
<1>3. ASSUME NEW c \in Callers, WaitAnswer(c) PROVE OwnAnswer'
  <2> DEFINE m == chan[callId[c]][1]
  <2>1. m.id = callId[c] /\ <<callId[c], m.body>> \in answers /\ m = Head(chan[callId[c]])
    <3>1. callId[c] \in Ids /\ chan[callId[c]] \in Seq(Message) /\ chan[callId[c]] # <<>>
      BY <1>3, UsedIds DEF WaitAnswer, TypeInv, TypeOK
    <3>2. 1 \in 1..Len(chan[callId[c]]) /\ m = Head(chan[callId[c]])
      BY <3>1
    <3> QED
      BY <3>1, <3>2 DEF AnswersAreGenuine, Answered
  <2>2. m.body \in {0, 1}
    BY <2>1 DEF TypeInv, TypeOK
  <2>3. /\ outcome' = [outcome EXCEPT ![c] = IF m.body = 1 THEN "rpcError" ELSE "result"]
        /\ callId' = callId /\ answers' = answers
    BY <1>3, <2>1 DEF WaitAnswer, Settle, deviceVars
  <2> HIDE DEF m
  <2> QED
    BY <2>1, <2>2, <2>3 DEF TypeInv, TypeOK
<1>4. ASSUME \/ Stop \/ Watcher \/ Reader \/ ReaderReceive \/ ReaderReceiveError
             \/ TakeNotification \/ WireLost \/ UNCHANGED vars
      PROVE  UNCHANGED <<outcome, callId>> /\ answers' = answers
    BY <1>4 DEF Stop, Watcher, Reader, ReaderCheckDone, RouteResponse, RouteNotification,
                RouteDiscard, ReaderDeliver, ReaderReceive, ReaderReceiveError, ReaderAt,
                TakeNotification, WireLost, vars, callVars, deviceVars
<1>5. ASSUME \/ \E i \in Ids : (\E b \in {0, 1} : DeviceAnswers(i, b)) \/ ConsoleEchoes(i)
             \/ DeviceNotifies \/ WireNoise
      PROVE  UNCHANGED <<outcome, callId>> /\ answers \subseteq answers'
    BY <1>5 DEF DeviceAnswers, ConsoleEchoes, DeviceNotifies, WireNoise, Transmit, callVars
<1> QED
    BY <1>1, <1>2, <1>3, <1>4, <1>5 DEF Next, Call, Device

\* A call never ends with anything but the device's answer to its own id.
THEOREM CallsGetTheirOwnAnswer == Spec => []OwnAnswer
<1>1. TypeInv /\ AnswerInv /\ [Next]_vars => AnswerInv'
    BY AnswersAreGenuineStep, OwnAnswerStep DEF AnswerInv
<1>2. AnswerInv => OwnAnswer
    BY DEF AnswerInv
<1> QED
    BY <1>1, <1>2, TypeInit, TypeStep, AnswerInit, PTL DEF Spec

-----------------------------------------------------------------------------
(* The reader never waits for a call, as long as no id is answered twice. *)

\* One answer to an id is in at most one place: on the wire, with the reader, or in
\* the channel of its call.  The reader never waits because the answer it holds is
\* the only one there is; that takes knowing that none is in the channel yet, and
\* none behind it on the wire that would come to a full channel later.
AnswersAreSingle ==
    /\ \A k, l \in 1..Len(wire) :
          IsResponse(wire[k]) /\ IsResponse(wire[l]) /\ wire[k].id = wire[l].id => k = l
    /\ \A k \in 1..Len(wire) : IsResponse(wire[k]) => chan[wire[k].id] = <<>>
    /\ IsResponse(hand) =>
          /\ chan[hand.id] = <<>>
          /\ \A k \in 1..Len(wire) : IsResponse(wire[k]) => wire[k].id # hand.id

SingleInv == TypeInv /\ AnswersAreGenuine /\ AnswersAreSingle

LEMMA SingleInit == Init => AnswersAreSingle
BY NotResponses DEF Init, AnswersAreSingle

LEMMA WireIds == TypeInv => \A k \in 1..Len(wire) :
                                IsResponse(wire[k]) => wire[k] \in Message /\ wire[k].id \in Ids
<1> SUFFICES ASSUME TypeInv, NEW k \in 1..Len(wire), IsResponse(wire[k])
             PROVE  wire[k] \in Message /\ wire[k].id \in Ids
    OBVIOUS
<1>1. wire[k] \in Message
    BY DEF TypeInv, TypeOK
<1>2. wire[k].id \in 0..MaxCalls /\ wire[k].id # 0
    BY <1>1 DEF Message, IsResponse, NoId
<1> QED
    BY <1>1, <1>2, BoundsAssumption DEF Ids

LEMMA SingleStep ==
    ASSUME ~Duplicates
    PROVE  SingleInv /\ [Next]_vars => AnswersAreSingle'
<1> SUFFICES ASSUME SingleInv, [Next]_vars PROVE AnswersAreSingle'
    OBVIOUS
<1> USE DEF SingleInv, AnswersAreSingle
<1>1. ASSUME MessagesStay PROVE AnswersAreSingle'
    BY <1>1 DEF MessagesStay
<1>2. ASSUME NEW c \in Callers, WaitAnswer(c) PROVE AnswersAreSingle'
  <2>1. callId[c] \in Ids /\ chan[callId[c]] # <<>>
    BY <1>2, UsedIds DEF WaitAnswer
  <2>2. \A i \in Ids : chan[i] = <<>> => chan'[i] = <<>>
    BY <1>2, <2>1 DEF WaitAnswer, TypeInv, TypeOK
  <2>3. wire' = wire /\ hand' = hand
    BY <1>2 DEF WaitAnswer, readerVars
  <2> QED
    BY <2>2, <2>3, UsedIds, WireIds
<1>3. ASSUME ReaderCheckDone \/ ReaderReceiveError \/ RouteResponse PROVE AnswersAreSingle'
    BY <1>3 DEF ReaderCheckDone, ReaderReceiveError, RouteResponse, ReaderAt
<1>4. ASSUME RouteNotification \/ RouteDiscard PROVE AnswersAreSingle'
    BY <1>4, NotResponses DEF RouteNotification, RouteDiscard, ReaderAt
<1>5. ASSUME ReaderReceive PROVE AnswersAreSingle'
  <2>1. chan' = chan
    BY <1>5 DEF ReaderReceive
  <2>2. 1 \in 1..Len(wire) /\ \A k \in 1..Len(wire') : k + 1 \in 1..Len(wire) /\ k + 1 # 1
    BY <1>5, ReceiveShifts
  <2>3. hand' = wire[1] /\ \A k \in 1..Len(wire') : wire'[k] = wire[k + 1]
    BY <1>5, ReceiveShifts
  <2>4. ASSUME NEW k \in 1..Len(wire'), NEW l \in 1..Len(wire'),
               IsResponse(wire'[k]), IsResponse(wire'[l]), wire'[k].id = wire'[l].id
        PROVE  k = l
    <3>1. k + 1 \in 1..Len(wire) /\ l + 1 \in 1..Len(wire)
      BY <2>2
    <3>2. wire'[k] = wire[k + 1] /\ wire'[l] = wire[l + 1]
      BY <2>3
    <3>3. k + 1 = l + 1
      BY <2>4, <3>1, <3>2
    <3> QED
      BY <3>3
  <2>5. ASSUME NEW k \in 1..Len(wire'), IsResponse(wire'[k])
        PROVE  chan'[wire'[k].id] = <<>> /\ (IsResponse(hand') => wire'[k].id # hand'.id)
    <3>1. k + 1 \in 1..Len(wire) /\ k + 1 # 1 /\ 1 \in 1..Len(wire)
      BY <2>2
    <3>2. wire'[k] = wire[k + 1]
      BY <2>3
    <3>3. chan[wire[k + 1].id] = <<>>
      BY <2>5, <3>1, <3>2
    <3>4. ASSUME IsResponse(wire[1]) PROVE wire[k + 1].id # wire[1].id
      BY <2>5, <3>1, <3>2, <3>4
    <3> QED
      BY <2>1, <2>3, <3>2, <3>3, <3>4
  <2>6. IsResponse(hand') => chan'[hand'.id] = <<>>
    BY <2>1, <2>2, <2>3
  <2> QED
    BY <2>4, <2>5, <2>6
<1>6. ASSUME ReaderDeliver PROVE AnswersAreSingle'
  <2>1. IsResponse(hand) /\ hand.id \in Ids
    BY <1>6, UsedIds DEF ReaderDeliver, TypeInv, DeliversResponses
  <2>2. \A i \in Ids : i # hand.id => chan'[i] = chan[i]
    BY <1>6 DEF ReaderDeliver, TypeInv, TypeOK
  <2>3. wire' = wire /\ ~IsResponse(hand')
    BY <1>6, NotResponses DEF ReaderDeliver, ReaderAt
  <2> QED
    BY <2>1, <2>2, <2>3, WireIds
<1>7. ASSUME TakeNotification \/ WireLost PROVE AnswersAreSingle'
    BY <1>7 DEF TakeNotification, WireLost, tableVars, readerVars
<1>8. ASSUME NEW i \in Ids, NEW b \in {0, 1}, DeviceAnswers(i, b) PROVE AnswersAreSingle'
  <2> DEFINE m == Answer(i, b)
  <2>1. Transmit(m) /\ m \in Message /\ m.id = i
    BY <1>8, MessageTypes DEF DeviceAnswers, Answer
  <2>2. \A a \in answers : a[1] # i
    BY <1>8 DEF DeviceAnswers
  <2>3. \A k \in 1..Len(wire) : IsResponse(wire[k]) => wire[k].id # i
    BY <2>2 DEF AnswersAreGenuine, Answered
  <2>4. IsResponse(hand) => hand.id # i
    BY <2>2 DEF AnswersAreGenuine, Answered
  <2>5. chan[i] = <<>>
    <3>1. \A k \in 1..Len(chan[i]) : FALSE
      BY <2>2 DEF AnswersAreGenuine, Answered
    <3>2. chan[i] \in Seq(Message)
      BY DEF TypeInv, TypeOK
    <3> QED
      BY <3>1, <3>2
  <2>6. hand' = hand /\ chan' = chan
    BY <2>1 DEF Transmit, tableVars, readerVars
  <2>7. \A k \in 1..Len(wire') : IF k = Len(wire')
                                 THEN wire'[k] = m
                                 ELSE k \in 1..Len(wire) /\ wire'[k] = wire[k]
    BY <2>1, TransmitAppends
  <2> HIDE DEF m
  <2> QED
    BY <2>1, <2>3, <2>4, <2>5, <2>6, <2>7
<1>9. ASSUME DeviceNotifies \/ (\E i \in Ids : ConsoleEchoes(i)) \/ WireNoise
      PROVE  AnswersAreSingle'
  <2>1. PICK m \in Message : Transmit(m) /\ ~IsResponse(m)
    BY <1>9, MessageTypes, NotResponses
       DEF DeviceNotifies, ConsoleEchoes, WireNoise, Noise, TypeInv, TypeOK
  <2>2. hand' = hand /\ chan' = chan
    BY <2>1 DEF Transmit, tableVars, readerVars
  <2>3. \A k \in 1..Len(wire') : IF k = Len(wire')
                                 THEN wire'[k] = m
                                 ELSE k \in 1..Len(wire) /\ wire'[k] = wire[k]
    BY <2>1, TransmitAppends
  <2> QED
    BY <2>1, <2>2, <2>3
<1>10. ASSUME UNCHANGED vars PROVE AnswersAreSingle'
    BY <1>10 DEF vars, tableVars, readerVars
<1> QED
    BY <1>1, <1>2, <1>3, <1>4, <1>5, <1>6, <1>7, <1>8, <1>9, <1>10, CallsLeaveMessages
       DEF Next, Call, Reader, Device

\* With a device that answers every id at most once, delivering an answer never
\* makes the reader wait.
THEOREM ReaderDoesNotBlock ==
    ASSUME ~Duplicates
    PROVE  Spec => []ReaderNeverBlocks
<1>1. Init => SingleInv
    BY TypeInit, AnswerInit, SingleInit DEF SingleInv, AnswerInv
<1>2. SingleInv /\ [Next]_vars => SingleInv'
    BY TypeStep, AnswersAreGenuineStep, SingleStep DEF SingleInv
<1>3. SingleInv => ReaderNeverBlocks
    BY DEF SingleInv, AnswersAreSingle, TypeInv, DeliversResponses, ReaderNeverBlocks, ChanCap
<1> QED
    BY <1>1, <1>2, <1>3, PTL DEF Spec

-----------------------------------------------------------------------------
(* Notifications reach the consumer in the order they were emitted. *)

\* The notifications between the device and the consumer, oldest last: the wire, the
\* reader's hand, notifyCh.  Each was emitted, is newer than what was consumed, and
\* newer than everything ahead of it, wherever that is; so dropping one, or losing
\* the wire, disturbs nothing.
WireOrdered ==
    \A k \in 1..Len(wire) : IsNotification(wire[k]) =>
        /\ wire[k].body <= emitted
        /\ consumed < wire[k].body
        /\ IsNotification(hand) => hand.body < wire[k].body
        /\ \A l \in 1..Len(wire) : l < k /\ IsNotification(wire[l]) => wire[l].body < wire[k].body
        /\ \A l \in 1..Len(notifyCh) : notifyCh[l].body < wire[k].body

NotesOrdered ==
    /\ WireOrdered
    /\ IsNotification(hand) =>
          /\ hand.body <= emitted
          /\ consumed < hand.body
          /\ \A l \in 1..Len(notifyCh) : notifyCh[l].body < hand.body
    /\ \A l \in 1..Len(notifyCh) : notifyCh[l].body <= emitted
    /\ consumed <= emitted
    /\ NotesInOrder

LEMMA NotNotifications ==
    /\ ~IsNotification(NoMessage) /\ ~IsNotification(Garbage)
    /\ \A i \in Ids : ~IsNotification(RequestEcho(i))
    /\ \A i \in Ids, b \in {0, 1} : ~IsNotification(Answer(i, b))
BY DEF IsNotification, Decodes, NoMessage, Garbage, Answer, RequestEcho, NoId, Ids

\* Order is about numbers: the payloads of the messages are.
LEMMA Payloads ==
    TypeInv => /\ \A k \in 1..Len(wire) : wire[k].body \in Nat
               /\ \A k \in 1..Len(notifyCh) : notifyCh[k].body \in Nat
               /\ hand.body \in Nat /\ emitted \in Nat /\ consumed \in Nat
<1> SUFFICES ASSUME TypeInv PROVE /\ \A k \in 1..Len(wire) : wire[k].body \in Nat
                                  /\ \A k \in 1..Len(notifyCh) : notifyCh[k].body \in Nat
                                  /\ hand.body \in Nat /\ emitted \in Nat /\ consumed \in Nat
    OBVIOUS
<1>1. \A m \in Message : m.body \in Nat
    BY DEF Message
<1>2. wire \in Seq(Message) /\ notifyCh \in Seq(Message) /\ hand \in Message
    BY DEF TypeInv, TypeOK
<1>3. emitted \in Nat /\ consumed \in Nat
    BY BoundsAssumption DEF TypeInv, TypeOK
<1> QED
    BY <1>1, <1>2, <1>3

LEMMA NotesInit == Init => NotesOrdered
BY NotNotifications DEF Init, NotesOrdered, WireOrdered, NotesInOrder

LEMMA NotesStep == TypeInv /\ NotesOrdered /\ [Next]_vars => NotesOrdered'
<1> SUFFICES ASSUME TypeInv, NotesOrdered, [Next]_vars PROVE NotesOrdered'
    OBVIOUS
<1> USE DEF NotesOrdered, WireOrdered, NotesInOrder
<1>1. ASSUME MessagesStay PROVE NotesOrdered'
    BY <1>1 DEF MessagesStay
<1>2. ASSUME NEW c \in Callers, WaitAnswer(c) PROVE NotesOrdered'
    BY <1>2 DEF WaitAnswer, notifyVars, readerVars, deviceVars
<1>3. ASSUME \/ ReaderCheckDone \/ ReaderReceiveError \/ RouteResponse
             \/ RouteDiscard \/ ReaderDeliver
      PROVE  NotesOrdered'
    BY <1>3, NotNotifications
       DEF ReaderCheckDone, ReaderReceiveError, RouteResponse, RouteDiscard, ReaderDeliver,
           ReaderAt, deviceVars
<1>4. ASSUME ReaderReceive PROVE NotesOrdered'
  <2>1. UNCHANGED <<notifyCh, consumed, emitted>>
    BY <1>4 DEF ReaderReceive, ReaderAt, deviceVars
  <2>2. 1 \in 1..Len(wire) /\ \A k \in 1..Len(wire') : k + 1 \in 1..Len(wire) /\ 1 < k + 1
    BY <1>4, ReceiveShifts
  <2>3. hand' = wire[1] /\ \A k \in 1..Len(wire') : wire'[k] = wire[k + 1]
    BY <1>4, ReceiveShifts
  <2>4. WireOrdered'
    <3> SUFFICES ASSUME NEW k \in 1..Len(wire'), IsNotification(wire'[k])
                 PROVE  /\ wire'[k].body <= emitted'
                        /\ consumed' < wire'[k].body
                        /\ IsNotification(hand') => hand'.body < wire'[k].body
                        /\ \A l \in 1..Len(wire') : l < k /\ IsNotification(wire'[l])
                                                     => wire'[l].body < wire'[k].body
                        /\ \A l \in 1..Len(notifyCh') : notifyCh'[l].body < wire'[k].body
      OBVIOUS
    <3>1. k + 1 \in 1..Len(wire) /\ wire'[k] = wire[k + 1] /\ 1 < k + 1
      BY <2>2, <2>3
    <3>2. \A l \in 1..Len(wire') : l < k /\ IsNotification(wire'[l]) => wire'[l].body < wire'[k].body
      <4> SUFFICES ASSUME NEW l \in 1..Len(wire'), l < k, IsNotification(wire'[l])
                   PROVE  wire'[l].body < wire'[k].body
        OBVIOUS
      <4>1. l + 1 \in 1..Len(wire) /\ wire'[l] = wire[l + 1] /\ l + 1 < k + 1
        BY <2>2, <2>3
      <4> QED
        BY <3>1, <4>1
    <3> QED
      BY <2>1, <2>2, <2>3, <3>1, <3>2
  <2> QED
    BY <2>1, <2>2, <2>3, <2>4
<1>5. ASSUME RouteNotification PROVE NotesOrdered'
  <2>1. UNCHANGED <<wire, consumed, emitted>> /\ ~IsNotification(hand') /\ IsNotification(hand)
    BY <1>5, NotNotifications DEF RouteNotification, ReaderAt, deviceVars
  <2>2. CASE notifyCh' = notifyCh
    BY <2>1, <2>2
  <2>3. CASE notifyCh' = Append(notifyCh, hand)
    <3>1. /\ Len(notifyCh') = Len(notifyCh) + 1
          /\ \A k \in 1..Len(notifyCh') : IF k = Len(notifyCh')
                                          THEN notifyCh'[k] = hand
                                          ELSE k \in 1..Len(notifyCh) /\ notifyCh'[k] = notifyCh[k]
      BY <2>3 DEF TypeInv, TypeOK
    <3> QED
      BY <2>1, <3>1
  <2> QED
    BY <1>5, <2>2, <2>3 DEF RouteNotification
<1>6. ASSUME TakeNotification PROVE NotesOrdered'
  <2>1. UNCHANGED <<wire, hand, emitted>>
    BY <1>6 DEF TakeNotification, readerVars, deviceVars
  <2>2. /\ 1 \in 1..Len(notifyCh) /\ consumed' = notifyCh[1].body
        /\ \A k \in 1..Len(notifyCh') : /\ k + 1 \in 1..Len(notifyCh) /\ 1 < k + 1
                                        /\ notifyCh'[k] = notifyCh[k + 1]
    BY <1>6 DEF TakeNotification, TypeInv, TypeOK
  <2>3. WireOrdered'
    BY <2>1, <2>2
  <2>4. IsNotification(hand') => \A l \in 1..Len(notifyCh') : notifyCh'[l].body < hand'.body
    BY <2>1, <2>2
  <2>5. IsNotification(hand') => hand'.body <= emitted' /\ consumed' < hand'.body
    BY <2>1, <2>2
  <2>6. /\ \A l \in 1..Len(notifyCh') : notifyCh'[l].body <= emitted'
        /\ consumed' <= emitted'
    BY <2>1, <2>2
  <2>7. \A k \in 1..Len(notifyCh') : consumed' < notifyCh'[k].body
    BY <2>2
  <2>8. \A k, l \in 1..Len(notifyCh') : k < l => notifyCh'[k].body < notifyCh'[l].body
    <3> SUFFICES ASSUME NEW k \in 1..Len(notifyCh'), NEW l \in 1..Len(notifyCh'), k < l
                 PROVE  notifyCh'[k].body < notifyCh'[l].body
      OBVIOUS
    <3>1. k + 1 \in 1..Len(notifyCh) /\ l + 1 \in 1..Len(notifyCh) /\ k + 1 < l + 1
      BY <2>2
    <3> QED
      BY <2>2, <3>1
  <2> QED
    BY <2>3, <2>4, <2>5, <2>6, <2>7, <2>8
<1>7. ASSUME DeviceNotifies PROVE NotesOrdered'
  <2>1. Transmit(Event(emitted + 1)) /\ Event(emitted + 1) \in Message
    BY <1>7, MessageTypes, Payloads DEF DeviceNotifies
  <2>2. UNCHANGED <<hand, notifyCh, consumed>> /\ emitted' = emitted + 1
    BY <1>7 DEF DeviceNotifies, Transmit, notifyVars, readerVars
  <2>3. /\ Len(wire') = Len(wire) + 1
        /\ \A k \in 1..Len(wire') : IF k = Len(wire')
                                    THEN wire'[k].body = emitted + 1
                                    ELSE k \in 1..Len(wire) /\ wire'[k] = wire[k]
    BY <2>1, TransmitAppends DEF Event
  <2>4. WireOrdered'
    <3> SUFFICES ASSUME NEW k \in 1..Len(wire'), IsNotification(wire'[k])
                 PROVE  /\ wire'[k].body <= emitted'
                        /\ consumed' < wire'[k].body
                        /\ IsNotification(hand') => hand'.body < wire'[k].body
                        /\ \A l \in 1..Len(wire') : l < k /\ IsNotification(wire'[l])
                                                     => wire'[l].body < wire'[k].body
                        /\ \A l \in 1..Len(notifyCh') : notifyCh'[l].body < wire'[k].body
      OBVIOUS
    <3>1. \A l \in 1..Len(wire') : l < k => l \in 1..Len(wire) /\ wire'[l] = wire[l]
      BY <2>3
    <3>2. CASE k = Len(wire')
      <4>1. wire'[k].body = emitted + 1 /\ \A l \in 1..Len(wire') : l < k => wire'[l] = wire[l]
        BY <2>3, <3>1, <3>2
      <4>2. \A l \in 1..Len(wire') : l < k /\ IsNotification(wire'[l]) => wire'[l].body <= emitted
        BY <3>1
      <4>3. \A l \in 1..Len(wire') : l < k => wire'[l].body \in Nat
        BY <3>1, Payloads
      <4>4. /\ emitted + 1 <= emitted' /\ consumed' < emitted + 1
            /\ IsNotification(hand') => hand'.body < emitted + 1
            /\ \A l \in 1..Len(notifyCh') : notifyCh'[l].body < emitted + 1
        BY <2>2, Payloads
      <4>5. \A l \in 1..Len(wire') : l < k /\ IsNotification(wire'[l]) => wire'[l].body < emitted + 1
        BY <4>2, <4>3, Payloads
      <4> QED
        BY <4>1, <4>4, <4>5
    <3>3. CASE k # Len(wire')
      <4>1. k \in 1..Len(wire) /\ wire'[k] = wire[k]
        BY <2>3, <3>3
      <4>2. wire[k].body <= emitted /\ emitted <= emitted'
        BY <2>2, <4>1, Payloads
      <4>3. wire[k].body <= emitted'
        BY <2>2, <4>1, <4>2, Payloads
      <4> QED
        BY <2>2, <3>1, <4>1, <4>3
    <3> QED
      BY <3>2, <3>3
  <2> QED
    BY <2>2, <2>4, Payloads
<1>8. ASSUME \/ \E i \in Ids : (\E b \in {0, 1} : DeviceAnswers(i, b)) \/ ConsoleEchoes(i)
             \/ WireNoise
      PROVE  NotesOrdered'
  <2>1. PICK m \in Message : Transmit(m) /\ ~IsNotification(m)
    BY <1>8, MessageTypes, NotNotifications DEF DeviceAnswers, ConsoleEchoes, WireNoise, Noise
  <2>2. UNCHANGED <<hand, notifyCh, consumed, emitted>>
    BY <1>8 DEF DeviceAnswers, ConsoleEchoes, WireNoise, Transmit, notifyVars, readerVars
  <2>3. \A k \in 1..Len(wire') : IF k = Len(wire')
                                 THEN wire'[k] = m
                                 ELSE k \in 1..Len(wire) /\ wire'[k] = wire[k]
    BY <2>1, TransmitAppends
  <2> QED
    BY <2>1, <2>2, <2>3
<1>9. ASSUME WireLost PROVE NotesOrdered'
  <2>1. wire' = <<>> /\ UNCHANGED <<hand, notifyCh, consumed, emitted>>
    BY <1>9 DEF WireLost, notifyVars, readerVars, deviceVars
  <2> QED
    BY <2>1
<1>10. ASSUME UNCHANGED vars PROVE NotesOrdered'
    BY <1>10 DEF vars, notifyVars, readerVars, deviceVars
<1> QED
    BY <1>1, <1>2, <1>3, <1>4, <1>5, <1>6, <1>7, <1>8, <1>9, <1>10, CallsLeaveMessages
       DEF Next, Call, Reader, Device

\* Whatever is dropped or lost, the consumer sees notifications in the order the
\* device emitted them and none twice.
THEOREM NotificationsStayInOrder == Spec => []NotesInOrder
<1>1. NotesOrdered => NotesInOrder
    BY DEF NotesOrdered
<1> QED
    BY <1>1, TypeInit, TypeStep, NotesInit, NotesStep, PTL DEF Spec

-----------------------------------------------------------------------------
(* RpcProtocol implements RpcService. *)

\* How far a call has got agrees with its outcome, and the device only knows ids
\* that were handed out.
Coupled ==
    /\ \A c \in Callers :
          /\ pc[c] = "idle" => outcome[c] = "none" /\ callId[c] = NoId
          /\ pc[c] \in {"begun", "send", "backoff", "wait"} => outcome[c] = "open"
          /\ pc[c] = "leave" => outcome[c] \notin {"none", "open"}
    /\ received \subseteq 1..nextID

ServiceInv == TypeInv /\ AnswerInv /\ NotesOrdered /\ Coupled

LEMMA CoupledInit == Init => Coupled
BY DEF Init, Coupled

LEMMA CoupledStep == TypeInv /\ Coupled /\ [Next]_vars => Coupled'
<1> SUFFICES ASSUME TypeInv, Coupled, [Next]_vars PROVE Coupled'
    OBVIOUS
<1> USE DEF Coupled
<1>1. ASSUME UNCHANGED <<pc, outcome, callId, received, nextID>> PROVE Coupled'
    BY <1>1
<1>2. ASSUME NEW c \in Callers, BeginCall(c) PROVE Coupled'
  <2>1. received' \subseteq 1..nextID'
    BY <1>2 DEF BeginCall, deviceVars, TypeInv, TypeOK
  <2> QED
    BY <1>2, <2>1 DEF BeginCall, TypeInv, TypeOK
<1>3. ASSUME NEW c \in Callers, Send(c) PROVE Coupled'
  <2>1. callId[c] \in 1..nextID
    BY <1>3 DEF Send, TypeInv, IdsHandedOut
  <2> QED
    BY <1>3, <2>1 DEF Send, Goto, Settle, tableVars, TypeInv, TypeOK
<1>4. ASSUME NEW c \in Callers,
             \/ MarshalFails(c) \/ Register(c) \/ BackoffElapsed(c) \/ BackoffAborted(c)
             \/ WaitAborted(c) \/ WaitAnswer(c) \/ Leave(c)
      PROVE  Coupled'
    BY <1>4 DEF MarshalFails, Register, BackoffElapsed, BackoffAborted, WaitAborted, Abort,
                WaitAnswer, Leave, Goto, Settle, tableVars, deviceVars, TypeInv, TypeOK
<1>5. ASSUME (\E c \in Callers : CtxExpires(c)) \/ Stop \/ Watcher \/ Reader \/ ReaderReceive
             \/ ReaderReceiveError \/ TakeNotification \/ Device \/ UNCHANGED vars
      PROVE  UNCHANGED <<pc, outcome, callId, received, nextID>>
    BY <1>5 DEF CtxExpires, Stop, Watcher, Reader, ReaderCheckDone, RouteResponse,
                RouteNotification, RouteDiscard, ReaderDeliver, ReaderReceive,
                ReaderReceiveError, ReaderAt, TakeNotification, Device, DeviceAnswers,
                ConsoleEchoes, DeviceNotifies, WireNoise, Transmit, WireLost, vars, callVars,
                tableVars, deviceVars
<1> QED
    BY <1>1, <1>2, <1>3, <1>4, <1>5 DEF Next, Call

LEMMA ServiceInit == Init => Service!Init
BY DEF Init, Service!Init, Service!NoOp, NoId

\* The calls as the abstract service sees them, and what it sees of a step that
\* moves only the call c.
ServiceOp == [c \in Callers |-> [id |-> callId[c], outcome |-> outcome[c]]]

LEMMA OneCall ==
    ASSUME TypeInv, NEW c \in Callers, NEW i, NEW o,
           callId' = [callId EXCEPT ![c] = i], outcome' = [outcome EXCEPT ![c] = o]
    PROVE  ServiceOp' = [ServiceOp EXCEPT ![c] = [id |-> i, outcome |-> o]]
BY DEF ServiceOp, TypeInv, TypeOK

LEMMA SettleMaps ==
    ASSUME TypeInv, NEW c \in Callers, outcome[c] = "open",
           NEW o \in Service!Outcomes, Settle(c, o), Service!Entitled(c, o),
           UNCHANGED <<nextID, done, answers, emitted, consumed>>
    PROVE  Service!Settle(c)
<1>1. callId' = [callId EXCEPT ![c] = callId[c]]
    BY DEF Settle, TypeInv, TypeOK
<1>2. outcome' = [outcome EXCEPT ![c] = o] /\ expired' = expired
    BY DEF Settle
<1>3. ServiceOp' = [ServiceOp EXCEPT ![c] = [id |-> callId[c], outcome |-> o]]
    BY <1>1, <1>2, OneCall
<1>4. [ServiceOp[c] EXCEPT !.outcome = o] = [id |-> callId[c], outcome |-> o]
    BY DEF ServiceOp
<1>5. ServiceOp' = [ServiceOp EXCEPT ![c].outcome = o]
    BY <1>3, <1>4
<1> QED
    BY <1>2, <1>5 DEF Service!Settle, ServiceOp

LEMMA ServiceStep ==
    ServiceInv /\ [Next]_vars => [Service!Next]_Service!vars
<1> SUFFICES ASSUME ServiceInv, [Next]_vars PROVE [Service!Next]_Service!vars
    OBVIOUS
<1> USE DEF ServiceInv
<1>1. ASSUME UNCHANGED <<callId, outcome, nextID, expired, done, answers, emitted, consumed>>
      PROVE  UNCHANGED Service!vars
    BY <1>1 DEF Service!vars
<1>2. ASSUME NEW c \in Callers, BeginCall(c) PROVE Service!Begin(c)
  <2>1. ServiceOp' = [ServiceOp EXCEPT ![c] = [id |-> nextID + 1, outcome |-> "open"]]
    BY <1>2, OneCall DEF BeginCall
  <2>2. outcome[c] = "none"
    BY <1>2 DEF BeginCall, Coupled
  <2> QED
    BY <1>2, <2>1, <2>2
       DEF ServiceOp, BeginCall, Service!Begin, notifyVars, readerVars, deviceVars
<1>3. ASSUME NEW c \in Callers, MarshalFails(c) PROVE Service!Settle(c)
    BY <1>3, SettleMaps
       DEF MarshalFails, Coupled, Service!Entitled, Service!Outcomes,
           tableVars, notifyVars, readerVars, deviceVars
<1>4. ASSUME NEW c \in Callers, Send(c)
      PROVE  Service!Settle(c) \/ UNCHANGED Service!vars
  <2>1. CASE Settle(c, "send")
    BY <1>4, <2>1, SettleMaps
       DEF Send, Coupled, Service!Entitled, Service!Outcomes, tableVars, notifyVars, readerVars
  <2>2. CASE Goto(c, "wait") \/ Goto(c, "backoff")
    BY <1>1, <1>4, <2>2 DEF Send, Goto, tableVars, notifyVars, readerVars
  <2> QED
    BY <1>4, <2>1, <2>2 DEF Send
<1>5. ASSUME NEW c \in Callers, Register(c) \/ BackoffElapsed(c)
      PROVE  UNCHANGED Service!vars
    BY <1>1, <1>5
       DEF Register, BackoffElapsed, Goto, tableVars, notifyVars, readerVars, deviceVars
<1>6. ASSUME NEW c \in Callers, BackoffAborted(c) \/ WaitAborted(c)
      PROVE  Service!Settle(c)
  <2>1. CASE c \in expired /\ Settle(c, "ctx")
    BY <1>6, <2>1, SettleMaps
       DEF BackoffAborted, WaitAborted, Abort, Coupled, Service!Entitled, Service!Outcomes,
           tableVars, notifyVars, readerVars, deviceVars
  <2>2. CASE done /\ Settle(c, "closed")
    BY <1>6, <2>2, SettleMaps
       DEF BackoffAborted, WaitAborted, Abort, Coupled, Service!Entitled, Service!Outcomes,
           tableVars, notifyVars, readerVars, deviceVars
  <2> QED
    BY <1>6, <2>1, <2>2 DEF BackoffAborted, WaitAborted, Abort
<1>7. ASSUME NEW c \in Callers, WaitAnswer(c) PROVE Service!Settle(c)
  <2> DEFINE o == IF Head(chan[callId[c]]).body = 1 THEN "rpcError" ELSE "result"
  <2>1. Settle(c, o) /\ outcome[c] = "open"
    BY <1>7 DEF WaitAnswer, Coupled
  <2>2. UNCHANGED <<nextID, done, answers, emitted, consumed>>
    BY <1>7 DEF WaitAnswer, notifyVars, readerVars, deviceVars
  <2>3. OwnAnswer'
    BY OwnAnswerStep
  <2>4. outcome'[c] = o /\ callId'[c] = callId[c] /\ o \in {"result", "rpcError"}
    BY <2>1 DEF Settle, TypeInv, TypeOK
  <2>5. Service!Entitled(c, o)
    BY <2>2, <2>3, <2>4 DEF OwnAnswer, Service!Entitled
  <2>6. o \in Service!Outcomes
    BY DEF Service!Outcomes
  <2> QED
    BY <2>1, <2>2, <2>5, <2>6, SettleMaps
<1>8. ASSUME NEW c \in Callers, Leave(c) PROVE Service!Return(c)
  <2>1. ServiceOp' = [ServiceOp EXCEPT ![c] = [id |-> NoId, outcome |-> "none"]]
    BY <1>8, OneCall DEF Leave
  <2>2. outcome[c] \notin {"none", "open"}
    BY <1>8 DEF Leave, Coupled
  <2> QED
    BY <1>8, <2>1, <2>2
       DEF ServiceOp, Leave, Service!Return, Service!NoOp, NoId, notifyVars, readerVars,
           deviceVars
<1>9. ASSUME NEW c \in Callers, CtxExpires(c) PROVE Service!Expire(c)
  <2>1. outcome[c] # "none"
    BY <1>9 DEF CtxExpires, Coupled, InCall
  <2> QED
    BY <1>9, <2>1
       DEF CtxExpires, Service!Expire, tableVars, notifyVars, readerVars, deviceVars
<1>10. ASSUME Stop PROVE Service!Stop
    BY <1>10 DEF Stop, Service!Stop, callVars, tableVars, notifyVars, deviceVars
<1>11. ASSUME Watcher \/ Reader \/ ReaderReceive \/ ReaderReceiveError
       PROVE  UNCHANGED Service!vars
    BY <1>1, <1>11
       DEF Watcher, Reader, ReaderCheckDone, RouteResponse, RouteNotification, RouteDiscard,
           ReaderDeliver, ReaderReceive, ReaderReceiveError, ReaderAt, callVars, tableVars,
           notifyVars, deviceVars
<1>12. ASSUME TakeNotification PROVE Service!Consume
  <2>1. 1 \in 1..Len(notifyCh) /\ Head(notifyCh) = notifyCh[1]
    BY <1>12 DEF TakeNotification, TypeInv, TypeOK
  <2>2. consumed' \in (consumed + 1)..emitted
    BY <1>12, <2>1, Payloads DEF TakeNotification, NotesOrdered, NotesInOrder
  <2> QED
    BY <1>12, <2>2
       DEF TakeNotification, Service!Consume, callVars, tableVars, readerVars, deviceVars
<1>13. ASSUME NEW i \in Ids, NEW b \in {0, 1}, DeviceAnswers(i, b) PROVE Service!Reply
    BY <1>13
       DEF DeviceAnswers, Coupled, Transmit, Service!Reply, callVars, tableVars, notifyVars,
           readerVars
<1>14. ASSUME DeviceNotifies PROVE Service!Emit
    BY <1>14
       DEF DeviceNotifies, Transmit, Service!Emit, callVars, tableVars, notifyVars, readerVars
<1>15. ASSUME (\E i \in Ids : ConsoleEchoes(i)) \/ WireNoise \/ WireLost \/ UNCHANGED vars
       PROVE  UNCHANGED Service!vars
    BY <1>1, <1>15
       DEF ConsoleEchoes, WireNoise, Transmit, WireLost, vars, callVars, tableVars, notifyVars,
           readerVars, deviceVars
<1> QED
    BY <1>2, <1>3, <1>4, <1>5, <1>6, <1>7, <1>8, <1>9, <1>10, <1>11, <1>12, <1>13, <1>14,
       <1>15
       DEF Next, Call, Device, Service!Next

\* Every behaviour of protocol.go is one the abstract service allows.
THEOREM ProtocolImplementsService == Spec => ImplementsService
<1>1. Init => ServiceInv
    BY TypeInit, AnswerInit, NotesInit, CoupledInit DEF ServiceInv
<1>2. ServiceInv /\ [Next]_vars => ServiceInv'
    BY TypeStep, AnswersAreGenuineStep, OwnAnswerStep, NotesStep, CoupledStep
       DEF ServiceInv, AnswerInv
<1> QED
    BY <1>1, <1>2, ServiceInit, ServiceStep, PTL DEF Spec, ImplementsService, Service!Spec
====
