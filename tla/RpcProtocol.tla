---- MODULE RpcProtocol ----
(***************************************************************************)
(* protocol.go: JSON-RPC calls multiplexed over one Transport.  Several    *)
(* goroutines run Call, one goroutine runs reader, another one waits for   *)
(* done and cancels the context the reader receives with.  The transport   *)
(* and the device are the environment: a FIFO from the device to the host, *)
(* requests that arrive or get lost, a serial console that may echo.       *)
(*                                                                         *)
(* Message payloads are abstracted to a number; a message keeps what the   *)
(* reader looks at, whether it carries an id and whether it carries a      *)
(* method.                                                                 *)
(***************************************************************************)
EXTENDS Integers, Sequences

CONSTANTS
    Callers,     \* goroutines that call Protocol.Call
    MaxCalls,    \* bound: ids handed out by nextID
    NotifyCap,   \* capacity of notifyCh, 64 in the code
    MaxEvents,   \* bound: notifications the device emits
    WireCap,     \* bound: messages between the device and the host
    Lossy,       \* whether the transport may lose the messages in flight
    Duplicates   \* whether the device may answer one id more than once

ASSUME BoundsAssumption ==
    /\ MaxCalls \in Nat \ {0}
    /\ NotifyCap \in Nat \ {0}
    /\ MaxEvents \in Nat
    /\ WireCap \in Nat \ {0}
    /\ Lossy \in BOOLEAN
    /\ Duplicates \in BOOLEAN

VARIABLES
    nextID,      \* Protocol.nextID
    pending,     \* Protocol.pending: the ids that have a channel registered
    chan,        \* chan[i]: the buffer of the channel made for call i
    notifyCh,    \* Protocol.notifyCh
    done,        \* Protocol.done is closed
    cancelled,   \* the context the reader receives with is cancelled
    readerPc,    \* where the reader is
    hand,        \* the message the reader holds
    pc,          \* pc[c]: where c is in Call
    callId,      \* callId[c]: the id of c's call
    outcome,     \* outcome[c]: how c's call ends
    expired,     \* callers whose context has ended
    wire,        \* messages from the device the transport has not returned yet
    received,    \* ids whose request may have reached the device
    answers,     \* history: pairs <<id, body>> the device has answered
    emitted,     \* number of notifications the device has emitted
    consumed     \* number of the last notification taken from notifyCh

callVars   == <<pc, callId, outcome, expired>>
tableVars  == <<nextID, pending, chan>>
notifyVars == <<notifyCh, consumed>>
readerVars == <<done, cancelled, readerPc, hand>>
deviceVars == <<received, answers, emitted>>
vars == <<callVars, tableVars, notifyVars, readerVars, wire, deviceVars>>

Ids == 1..MaxCalls
NoId == 0

\* An rpcResponse as the reader sees it: id NoId is a missing id, method "none"
\* an empty one; "garbage" stands for bytes that do not decode.
Message == [id : 0..MaxCalls,
            method : {"none", "request", "event", "garbage"},
            body : Nat]

Answer(i, b)   == [id |-> i, method |-> "none", body |-> b]
RequestEcho(i) == [id |-> i, method |-> "request", body |-> 0]
Event(n)       == [id |-> NoId, method |-> "event", body |-> n]
Garbage        == [id |-> NoId, method |-> "garbage", body |-> 0]
NoMessage      == [id |-> NoId, method |-> "none", body |-> 0]
Noise          == {Garbage, NoMessage}

\* The reader's classification of a message.
Decodes(m)        == m.method # "garbage"
IsNotification(m) == Decodes(m) /\ m.id = NoId /\ m.method # "none"

\* Mutant: a message with an id is a response, whatever its method.
HasId(m) == Decodes(m) /\ m.id # NoId

IsResponse(m)     == Decodes(m) /\ m.id # NoId /\ m.method = "none"

\* Capacity of the channel a call waits on.
ChanCap == 1

InCall == {"begun", "send", "backoff", "wait", "leave"}

Init ==
    /\ nextID = 0
    /\ pending = {}
    /\ chan = [i \in Ids |-> <<>>]
    /\ notifyCh = <<>> /\ consumed = 0
    /\ done = FALSE /\ cancelled = FALSE
    /\ readerPc = "top" /\ hand = NoMessage
    /\ pc = [c \in Callers |-> "idle"]
    /\ callId = [c \in Callers |-> NoId]
    /\ outcome = [c \in Callers |-> "none"]
    /\ expired = {}
    /\ wire = <<>>
    /\ received = {} /\ answers = {} /\ emitted = 0

-----------------------------------------------------------------------------
(* Call. *)

Goto(c, label) ==
    /\ pc' = [pc EXCEPT ![c] = label]
    /\ UNCHANGED <<callId, outcome, expired>>

\* A return statement is reached with outcome o: the deferred Delete, if one was
\* deferred, is still to run.
Settle(c, o) ==
    /\ pc' = [pc EXCEPT ![c] = "leave"]
    /\ outcome' = [outcome EXCEPT ![c] = o]
    /\ UNCHANGED <<callId, expired>>

\* Mutant: the id is read and written in two steps that race, so it may be read twice.
RacyBeginCall(c) ==
    /\ pc[c] = "idle"
    /\ nextID < MaxCalls
    /\ nextID' \in {nextID, nextID + 1}
    /\ pc' = [pc EXCEPT ![c] = "begun"]
    /\ callId' = [callId EXCEPT ![c] = nextID + 1]
    /\ outcome' = [outcome EXCEPT ![c] = "open"]
    /\ UNCHANGED <<expired, pending, chan, notifyVars, readerVars, wire, deviceVars>>

\* Call is entered with a live context and takes an id.
BeginCall(c) ==
    /\ pc[c] = "idle"
    /\ nextID < MaxCalls
    /\ nextID' = nextID + 1
    /\ pc' = [pc EXCEPT ![c] = "begun"]
    /\ callId' = [callId EXCEPT ![c] = nextID + 1]
    /\ outcome' = [outcome EXCEPT ![c] = "open"]
    /\ UNCHANGED <<expired, pending, chan, notifyVars, readerVars, wire, deviceVars>>

\* The parameters cannot be encoded: Call returns before anything is registered.
MarshalFails(c) ==
    /\ pc[c] = "begun"
    /\ Settle(c, "marshal")
    /\ UNCHANGED <<tableVars, notifyVars, readerVars, wire, deviceVars>>

\* make(chan *rpcResponse, 1) and pending.Store.
Register(c) ==
    /\ pc[c] = "begun"
    /\ Goto(c, "send")
    /\ pending' = pending \union {callId[c]}
    /\ UNCHANGED <<nextID, chan, notifyVars, readerVars, wire, deviceVars>>

\* Send returns nil, ErrReconnecting or another error.  Either way the request may
\* have reached the device, which never has to answer: a request that gets lost is
\* one that is not answered.
Send(c) ==
    /\ pc[c] = "send"
    /\ \/ Goto(c, "wait")
       \/ Goto(c, "backoff")
       \/ Settle(c, "send")
    /\ received' = received \union {callId[c]}
    /\ UNCHANGED <<tableVars, notifyVars, readerVars, wire, answers, emitted>>

\* The timer of the backoff fires: the same bytes are sent again.
BackoffElapsed(c) ==
    /\ pc[c] = "backoff"
    /\ Goto(c, "send")
    /\ UNCHANGED <<tableVars, notifyVars, readerVars, wire, deviceVars>>

\* Mutant: the selects have no ctx.Done case.
AbortOnDone(c, label) ==
    /\ pc[c] = label
    /\ done /\ Settle(c, "closed")
    /\ UNCHANGED <<tableVars, notifyVars, readerVars, wire, deviceVars>>

\* The ctx.Done and p.done cases of the backoff's select and of the final one.
Abort(c, label) ==
    /\ pc[c] = label
    /\ \/ c \in expired /\ Settle(c, "ctx")
       \/ done /\ Settle(c, "closed")
    /\ UNCHANGED <<tableVars, notifyVars, readerVars, wire, deviceVars>>

BackoffAborted(c) == Abort(c, "backoff")

WaitAborted(c) == Abort(c, "wait")

\* The answer is taken from the channel; body 1 stands for an error member.
WaitAnswer(c) ==
    /\ pc[c] = "wait"
    /\ chan[callId[c]] # <<>>
    /\ chan' = [chan EXCEPT ![callId[c]] = Tail(@)]
    /\ Settle(c, IF Head(chan[callId[c]]).body = 1 THEN "rpcError" ELSE "result")
    /\ UNCHANGED <<nextID, pending, notifyVars, readerVars, wire, deviceVars>>

\* The deferred pending.Delete, which an unregistered call does not notice, and
\* the return: what was local to the call is gone.
Leave(c) ==
    /\ pc[c] = "leave"
    /\ pc' = [pc EXCEPT ![c] = "idle"]
    /\ callId' = [callId EXCEPT ![c] = NoId]
    /\ outcome' = [outcome EXCEPT ![c] = "none"]
    /\ expired' = expired \ {c}
    /\ pending' = pending \ {callId[c]}
    /\ UNCHANGED <<nextID, chan, notifyVars, readerVars, wire, deviceVars>>

\* The context passed to Call is cancelled or reaches its deadline.
CtxExpires(c) ==
    /\ pc[c] \in InCall
    /\ c \notin expired
    /\ expired' = expired \union {c}
    /\ UNCHANGED <<pc, callId, outcome, tableVars, notifyVars, readerVars, wire, deviceVars>>

-----------------------------------------------------------------------------
(* Stop, the goroutine that cancels the reader's context, and the reader. *)

Stop ==
    /\ ~done
    /\ done' = TRUE
    /\ UNCHANGED <<callVars, tableVars, notifyVars, cancelled, readerPc, hand, wire, deviceVars>>

\* Mutant: nobody cancels the context of the reader.
NoWatcher ==
    /\ done /\ ~cancelled
    /\ UNCHANGED vars

Watcher ==
    /\ done /\ ~cancelled
    /\ cancelled' = TRUE
    /\ UNCHANGED <<callVars, tableVars, notifyVars, done, readerPc, hand, wire, deviceVars>>

\* The reader holds m and goes on at label.
ReaderAt(label, m) ==
    /\ readerPc' = label
    /\ hand' = m
    /\ UNCHANGED <<callVars, nextID, pending, done, cancelled, consumed, deviceVars>>

\* The select at the top of the loop.
ReaderCheckDone ==
    /\ readerPc = "top"
    /\ ReaderAt(IF done THEN "exited" ELSE "receive", hand)
    /\ UNCHANGED <<chan, notifyCh, wire>>

\* Receive returns a message.
ReaderReceive ==
    /\ readerPc = "receive"
    /\ wire # <<>>
    /\ wire' = Tail(wire)
    /\ ReaderAt("route", Head(wire))
    /\ UNCHANGED <<chan, notifyCh>>

\* Mutant: the reader gives up on the first error.
ReaderGivesUp ==
    /\ readerPc = "receive"
    /\ ReaderAt("exited", hand)
    /\ UNCHANGED <<chan, notifyCh, wire>>

\* Receive returns an error: a cancelled context, a lost connection, a reconnect.
ReaderReceiveError ==
    /\ readerPc = "receive"
    /\ ReaderAt(IF done THEN "exited" ELSE "top", hand)
    /\ UNCHANGED <<chan, notifyCh, wire>>

\* pending.Load finds the call: the blocking send on its channel comes next.
RouteResponse ==
    /\ readerPc = "route"
    /\ IsResponse(hand)
    /\ hand.id \in pending
    /\ ReaderAt("deliver", hand)
    /\ UNCHANGED <<chan, notifyCh, wire>>

\* Mutant: the newest notification is put first.
NewestFirst ==
    /\ readerPc = "route"
    /\ IsNotification(hand)
    /\ notifyCh' = IF Len(notifyCh) < NotifyCap THEN <<hand>> \o notifyCh ELSE notifyCh
    /\ ReaderAt("top", NoMessage)
    /\ UNCHANGED <<chan, wire>>

\* Mutant: the queue has no limit.
Unlimited ==
    /\ readerPc = "route"
    /\ IsNotification(hand)
    /\ notifyCh' = Append(notifyCh, hand)
    /\ ReaderAt("top", NoMessage)
    /\ UNCHANGED <<chan, wire>>

\* The non-blocking send on notifyCh: the new notification is dropped when full.
RouteNotification ==
    /\ readerPc = "route"
    /\ IsNotification(hand)
    /\ notifyCh' = IF Len(notifyCh) < NotifyCap THEN Append(notifyCh, hand) ELSE notifyCh
    /\ ReaderAt("top", NoMessage)
    /\ UNCHANGED <<chan, wire>>

\* Undecodable data, an answer nobody waits for, an echo, a message with neither
\* id nor method.
RouteDiscard ==
    /\ readerPc = "route"
    /\ ~IsNotification(hand)
    /\ IsResponse(hand) => hand.id \notin pending
    /\ ReaderAt("top", NoMessage)
    /\ UNCHANGED <<chan, notifyCh, wire>>

\* The send on the channel found by Load, which blocks while the buffer is full.
ReaderDeliver ==
    /\ readerPc = "deliver"
    /\ Len(chan[hand.id]) < ChanCap
    /\ chan' = [chan EXCEPT ![hand.id] = Append(@, hand)]
    /\ ReaderAt("top", NoMessage)
    /\ UNCHANGED <<notifyCh, wire>>

\* The consumer of Notifications() takes one.
TakeNotification ==
    /\ notifyCh # <<>>
    /\ consumed' = Head(notifyCh).body
    /\ notifyCh' = Tail(notifyCh)
    /\ UNCHANGED <<callVars, tableVars, readerVars, wire, deviceVars>>

-----------------------------------------------------------------------------
(* The device and the transport. *)

Transmit(m) ==
    /\ Len(wire) < WireCap
    /\ wire' = Append(wire, m)
    /\ UNCHANGED <<callVars, tableVars, notifyVars, readerVars, received>>

DeviceAnswers(i, b) ==
    /\ i \in received
    /\ Duplicates \/ \A a \in answers : a[1] # i
    /\ Transmit(Answer(i, b))
    /\ answers' = answers \union {<<i, b>>}
    /\ UNCHANGED emitted

DeviceNotifies ==
    /\ emitted < MaxEvents
    /\ emitted' = emitted + 1
    /\ Transmit(Event(emitted + 1))
    /\ UNCHANGED answers

\* The console of a serial device reflects a request it has seen.
ConsoleEchoes(i) ==
    /\ i \in received
    /\ Transmit(RequestEcho(i))
    /\ UNCHANGED <<answers, emitted>>

\* Console noise, or an object with neither id nor method.
WireNoise ==
    /\ \E m \in Noise : Transmit(m)
    /\ UNCHANGED <<answers, emitted>>

\* The connection is lost with everything in flight on it.
WireLost ==
    /\ Lossy
    /\ wire # <<>>
    /\ wire' = <<>>
    /\ UNCHANGED <<callVars, tableVars, notifyVars, readerVars, deviceVars>>

-----------------------------------------------------------------------------
Call(c) ==
    \/ MarshalFails(c) \/ Register(c) \/ Send(c)
    \/ BackoffElapsed(c) \/ BackoffAborted(c)
    \/ WaitAnswer(c) \/ WaitAborted(c) \/ Leave(c)

Reader ==
    \/ ReaderCheckDone
    \/ RouteResponse \/ RouteNotification \/ RouteDiscard \/ ReaderDeliver

Device ==
    \/ \E i \in Ids : (\E b \in {0, 1} : DeviceAnswers(i, b)) \/ ConsoleEchoes(i)
    \/ DeviceNotifies \/ WireNoise \/ WireLost

Next ==
    \/ \E c \in Callers : BeginCall(c) \/ Call(c) \/ CtxExpires(c)
    \/ Stop \/ Watcher
    \/ Reader \/ ReaderReceive \/ ReaderReceiveError
    \/ TakeNotification
    \/ Device

Spec == Init /\ [][Next]_vars

\* Goroutines that can run do run, and a Send or a Receive comes back: a Receive
\* whose context is cancelled with an error, one that keeps finding messages
\* eventually with a message.  A call in its backoff does not lose the select
\* to the timer for ever.  Nothing forces a call to begin, a context to end,
\* Stop to be called, the consumer to consume or the device to speak.
Fairness ==
    /\ \A c \in Callers : WF_vars(Call(c)) /\ SF_vars(BackoffAborted(c))
    /\ WF_vars(Watcher)
    /\ WF_vars(Reader)
    /\ SF_vars(ReaderReceive)
    /\ WF_vars(cancelled /\ ReaderReceiveError)

FairSpec == Spec /\ Fairness

-----------------------------------------------------------------------------
(* Properties. *)

\* Every variable has its type, and notifyCh never holds more than its capacity.
TypeOK ==
    /\ nextID \in 0..MaxCalls
    /\ pending \subseteq Ids
    /\ chan \in [Ids -> Seq(Message)]
    /\ notifyCh \in Seq(Message) /\ Len(notifyCh) \in 0..NotifyCap
    /\ done \in BOOLEAN /\ cancelled \in BOOLEAN
    /\ readerPc \in {"top", "receive", "route", "deliver", "exited"}
    /\ hand \in Message
    /\ pc \in [Callers -> InCall \union {"idle"}]
    /\ callId \in [Callers -> 0..MaxCalls]
    /\ outcome \in [Callers -> {"none", "open", "result", "rpcError", "ctx", "closed",
                                "send", "marshal"}]
    /\ expired \subseteq Callers
    /\ wire \in Seq(Message)
    /\ received \subseteq Ids
    /\ answers \subseteq Ids \X {0, 1}
    /\ emitted \in 0..MaxEvents
    /\ consumed \in Nat

\* A call that ends with a result or an rpc error ends with an answer the device
\* gave to that call's own id: never with another call's answer, with the late
\* answer of an abandoned call, or with the console's echo of the request
\* (lines 111-122 and 169-174).
OwnAnswer ==
    \A c \in Callers :
        /\ outcome[c] = "result"   => <<callId[c], 0>> \in answers
        /\ outcome[c] = "rpcError" => <<callId[c], 1>> \in answers

\* Lines 117-118: when the device answers every id at most once, the send on a
\* call's channel never waits, so a caller that has left can not hold up the
\* reader and with it every other call.
ReaderNeverBlocks ==
    readerPc = "deliver" => Len(chan[hand.id]) < ChanCap

\* Lines 123-131: whatever is dropped, the notifications the consumer gets come in
\* the order the device emitted them, none twice.
NotesInOrder ==
    /\ \A k \in 1..Len(notifyCh) : consumed < notifyCh[k].body
    /\ \A k, l \in 1..Len(notifyCh) : k < l => notifyCh[k].body < notifyCh[l].body

\* The calls and notifications are those of the abstract service.
Service == INSTANCE RpcService WITH
    used    <- nextID,
    op      <- [c \in Callers |-> [id |-> callId[c], outcome |-> outcome[c]]],
    stopped <- done,
    replies <- answers

\* Protocol implements the promise of RpcService.
ImplementsService == Service!Spec

\* The comment of Stop (line 187): it signals the reader goroutine to exit.
StopStopsReader == done ~> readerPc = "exited"

\* Lines 158-178: once the context of a call has ended, or the protocol is stopped,
\* the call returns, also when the transport reconnects all the time.
EndedCallsReturn ==
    \A c \in Callers :
        (pc[c] \in InCall /\ (c \in expired \/ done)) ~> pc[c] = "idle"

\* An answer to i is on its way: in the transport, with the reader, or in i's channel.
InFlight(i) ==
    \/ \E k \in 1..Len(wire) : IsResponse(wire[k]) /\ wire[k].id = i
    \/ readerPc \in {"route", "deliver"} /\ IsResponse(hand) /\ hand.id = i
    \/ chan[i] # <<>>

\* Lines 90-134: an answer that is on its way when its call waits makes the call
\* return, whatever else is in front of it and whatever the consumer does.
AnsweredCallsReturn ==
    \A c \in Callers : (pc[c] = "wait" /\ InFlight(callId[c])) ~> pc[c] = "idle"
====
