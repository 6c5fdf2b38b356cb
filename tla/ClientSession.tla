---- MODULE ClientSession ----
(***************************************************************************)
(* client.go: a Client over the Protocols of its sessions.  Each Connect   *)
(* makes a Protocol with a reader and a notifyLoop of its own and stores   *)
(* it in c.proto, over the one that is there.  All readers receive from    *)
(* the one transport; callbacks run in the notifyLoops and may make calls. *)
(*                                                                         *)
(* The inside of a Protocol is that of RpcProtocol: a call here is sent at *)
(* once, a response is handed over in one step.  Connect and Close are     *)
(* called by one goroutine after the other; only the version check of      *)
(* Connect may overlap with Close.                                         *)
(***************************************************************************)
EXTENDS Integers, Sequences, VersionRange

CONSTANTS
    Versions,     \* protocol versions the device may report
    MaxSessions,  \* bound: calls of Connect whose transport connects
    MaxCloses,    \* bound: calls of Close
    MaxEvents,    \* bound: notifications the device emits
    MaxIds,       \* bound: calls of one session
    MaxSets,      \* bound: calls of the On... setter
    NotifyCap,    \* capacity of notifyCh, 64 in the code
    WireCap,      \* bound: messages received that nobody has read
    MaxInputs     \* bound: calls of Connect, Close, the setter and notifications together

ASSUME ClientAssumption ==
    /\ MaxSessions \in Nat /\ MaxCloses \in Nat /\ MaxEvents \in Nat
    /\ MaxIds \in Nat /\ MaxSets \in Nat
    /\ NotifyCap \in Nat \ {0} /\ WireCap \in Nat \ {0} /\ MaxInputs \in Nat

Sessions == 1..MaxSessions
None == 0
User == 0                     \* the goroutine that is in Connect
Callers == {User} \union Sessions  \* it, and the notifyLoop of each session

VARIABLES
    version,     \* the device's protocol version
    proto,       \* Client.proto: the last session; None is nil
    verdict,     \* what Connect has come to: "none" yet, "nil" or "error"
    done,        \* done[s]: the Protocol's done is closed
    reader,      \* reader[s]: "off", "on" or "ended"
    nextID,      \* nextID[s]
    notifyCh,    \* notifyCh[s]
    open,        \* the transport is connected
    closer,      \* "idle", or "stopped" between the two calls of Close
    closes,      \* calls of Close
    wire,        \* messages the transport has received
    requests,    \* requests the device has not answered
    emitted,     \* number of notifications the device has emitted
    loop,        \* loop[k]: where notifyLoop k is
    serves,      \* serves[k]: the session whose notifyCh loop k ranges over
    copied,      \* copied[k]: the callback loop k has copied under mu
    registered,  \* the callback that is registered; None is nil
    sets,        \* calls of the setter
    stale,       \* stale[k]: times loop k has called a callback that was replaced
    call         \* call[c]: the call c waits for

protoVars == <<proto, done, reader, nextID>>
wireVars == <<open, wire, requests, emitted>>
closeVars == <<closer, closes>>
loopVars == <<loop, serves, copied, stale>>
regVars == <<registered, sets>>
vars == <<version, verdict, protoVars, notifyCh, wireVars, closeVars, loopVars, regVars,
          call>>

Call(s, i) == [session |-> s, id |-> i]
NoCall == Call(None, 0)
NoText == <<>>

\* A message: an answer to request id with the version it reports, NoText if the
\* question was another, or a notification, which has id 0.
Answer(i, text) == [id |-> i, text |-> text]
Event == Answer(0, NoText)

Init ==
    /\ version \in Versions
    /\ proto = None /\ verdict = "none"
    /\ done = [s \in Sessions |-> FALSE]
    /\ reader = [s \in Sessions |-> "off"]
    /\ nextID = [s \in Sessions |-> 0]
    /\ notifyCh = [s \in Sessions |-> 0]
    /\ open = FALSE /\ closer = "idle" /\ closes = 0
    /\ wire = <<>> /\ requests = {} /\ emitted = 0
    /\ loop = [k \in Sessions |-> "off"]
    /\ serves = [k \in Sessions |-> None]
    /\ copied = [k \in Sessions |-> None]
    /\ stale = [k \in Sessions |-> 0]
    /\ registered = 1 /\ sets = 0
    /\ call = [c \in Callers |-> NoCall]

\* One of the inputs bounded together happens.
Input == proto + closes + sets + emitted < MaxInputs

-----------------------------------------------------------------------------
(* Connect and Close. *)

\* Mutant: the notifyLoop looks at c.proto before the new Protocol is stored.
ConnectLoopFirst ==
    /\ Input
    /\ verdict # "none" \/ proto = None
    /\ closer = "idle" /\ call[User] = NoCall /\ proto < MaxSessions
    /\ \E kept \in BOOLEAN :
           /\ wire' = IF kept THEN wire ELSE <<>>
           /\ requests' = IF kept THEN requests ELSE {}
    /\ proto' = proto + 1
    /\ reader' = [reader EXCEPT ![proto + 1] = "on"]
    /\ loop' = [loop EXCEPT ![proto + 1] = "waiting"]
    /\ serves' = [serves EXCEPT ![proto + 1] = proto]
    /\ open' = TRUE /\ verdict' = "none"
    /\ UNCHANGED <<version, done, nextID, notifyCh, emitted, closeVars, copied, stale, regVars,
                   call>>

\* t.Connect succeeds, whether or not it was connected: it starts with nothing
\* received, or with what an earlier connection left in its channel.  The Protocol
\* is stored over the old one, its reader and its notifyLoop are started.
Connect ==
    /\ Input
    /\ verdict # "none" \/ proto = None
    /\ closer = "idle" /\ call[User] = NoCall /\ proto < MaxSessions
    /\ \E kept \in BOOLEAN :
           /\ wire' = IF kept THEN wire ELSE <<>>
           /\ requests' = IF kept THEN requests ELSE {}
    /\ proto' = proto + 1
    /\ reader' = [reader EXCEPT ![proto + 1] = "on"]
    /\ loop' = [loop EXCEPT ![proto + 1] = "starting"]
    /\ open' = TRUE /\ verdict' = "none"
    /\ UNCHANGED <<version, done, nextID, notifyCh, emitted, closeVars, serves, copied, stale,
                   regVars, call>>

\* Protocol.Call through c.proto as it is now, up to the wait.
BeginCall(c) ==
    LET id == nextID[proto] + 1
    IN  /\ call[c] = NoCall
        /\ id <= MaxIds
        /\ nextID' = [nextID EXCEPT ![proto] = id]
        /\ IF open
           THEN /\ call' = [call EXCEPT ![c] = Call(proto, id)]
                /\ requests' = requests \union {[session |-> proto, id |-> id, version |-> c = User]}
           ELSE UNCHANGED <<call, requests>>
        /\ UNCHANGED <<proto, done, reader, open, wire, emitted>>

\* The version check; a Send that fails ends Connect.
VersionCall ==
    /\ proto # None /\ verdict = "none" /\ call[User] = NoCall
    /\ BeginCall(User)
    /\ verdict' = IF open THEN "none" ELSE "error"
    /\ UNCHANGED <<version, notifyCh, closeVars, loopVars, regVars>>

\* The call of c returns an error: its Protocol has stopped, or its context has ended.
CallFails(c) ==
    /\ call[c] # NoCall
    /\ call' = [call EXCEPT ![c] = NoCall]
    /\ verdict' = IF c = User THEN "error" ELSE verdict
    /\ UNCHANGED <<version, protoVars, notifyCh, wireVars, closeVars, loopVars, regVars>>

\* Close: first Stop of the Protocol that c.proto is now, if there is one.
CloseStops ==
    /\ Input /\ closer = "idle" /\ closes < MaxCloses
    /\ closes' = closes + 1 /\ closer' = "stopped"
    /\ done' = [s \in Sessions |-> done[s] \/ s = proto]
    /\ UNCHANGED <<version, verdict, proto, reader, nextID, notifyCh, wireVars, loopVars,
                   regVars, call>>

\* Then t.Close.
CloseCloses ==
    /\ closer = "stopped"
    /\ closer' = "idle"
    /\ open' = FALSE
    /\ UNCHANGED <<version, verdict, protoVars, notifyCh, wire, requests, emitted, closes,
                   loopVars, regVars, call>>

-----------------------------------------------------------------------------
(* The readers and the device. *)

\* Mutant: the reader waits for room in the queue.
WaitingRoute(s) == notifyCh[s] < NotifyCap /\ notifyCh' = [notifyCh EXCEPT ![s] = @ + 1]

\* Mutant: nothing is dropped.
UnboundedRoute(s) == notifyCh' = [notifyCh EXCEPT ![s] = @ + 1]

\* A notification is queued, or dropped if nobody has taken the earlier ones.
RouteNotification(s) ==
    notifyCh' = [notifyCh EXCEPT ![s] = IF @ < NotifyCap THEN @ + 1 ELSE @]

\* Mutant: an answer without a version is no reason to fail.
AcceptsUnknown(text) == text = NoText \/ IsCompatible(text)

\* What Connect makes of an answer: one to another question has no version.
Accepts(text) == IsCompatible(text)

\* A reader takes a message: it routes a response to the call of its own session
\* that has this id, whichever session's question it answers, or discards it.
ReaderTakes(s) ==
    /\ reader[s] = "on" /\ open /\ wire # <<>>
    /\ wire' = Tail(wire)
    /\ IF Head(wire) = Event
       THEN RouteNotification(s) /\ UNCHANGED <<call, verdict>>
       ELSE LET of == Call(s, Head(wire).id)
            IN  /\ call' = [c \in Callers |-> IF call[c] = of THEN NoCall ELSE call[c]]
                /\ verdict' = IF call[User] # of THEN verdict
                              ELSE IF Accepts(Head(wire).text) THEN "nil" ELSE "error"
                /\ UNCHANGED notifyCh
    /\ UNCHANGED <<version, protoVars, open, requests, emitted, closeVars, loopVars, regVars>>

\* It sees that done is closed.
ReaderEnds(s) ==
    /\ reader[s] = "on" /\ done[s]
    /\ reader' = [reader EXCEPT ![s] = "ended"]
    /\ UNCHANGED <<version, verdict, proto, done, nextID, notifyCh, wireVars, closeVars,
                   loopVars, regVars, call>>

DeviceAnswers ==
    /\ open /\ Len(wire) < WireCap
    /\ \E r \in requests :
           /\ requests' = requests \ {r}
           /\ wire' = Append(wire, Answer(r.id, IF r.version THEN version ELSE NoText))
    /\ UNCHANGED <<version, verdict, protoVars, notifyCh, open, emitted, closeVars, loopVars,
                   regVars, call>>

DeviceEmits ==
    /\ Input /\ open /\ Len(wire) < WireCap /\ emitted < MaxEvents
    /\ wire' = Append(wire, Event)
    /\ emitted' = emitted + 1
    /\ UNCHANGED <<version, verdict, protoVars, notifyCh, open, requests, closeVars, loopVars,
                   regVars, call>>

-----------------------------------------------------------------------------
(* notifyLoop and the setters. *)

\* The goroutine runs at last: it ranges over the channel of c.proto as it is now.
LoopStarts(k) ==
    /\ loop[k] = "starting"
    /\ loop' = [loop EXCEPT ![k] = "waiting"]
    /\ serves' = [serves EXCEPT ![k] = proto]
    /\ UNCHANGED <<version, verdict, protoVars, notifyCh, wireVars, closeVars, copied, stale,
                   regVars, call>>

\* A notification is taken and, under mu, the callbacks are copied.
LoopTakes(k) ==
    /\ loop[k] = "waiting" /\ notifyCh[serves[k]] > 0
    /\ notifyCh' = [notifyCh EXCEPT ![serves[k]] = @ - 1]
    /\ loop' = [loop EXCEPT ![k] = "taken"]
    /\ copied' = [copied EXCEPT ![k] = registered]
    /\ UNCHANGED <<version, verdict, protoVars, wireVars, closeVars, serves, stale, regVars,
                   call>>

\* The loop goes back to its channel; what it has copied is forgotten.
Waits(k) ==
    /\ loop' = [loop EXCEPT ![k] = "waiting"]
    /\ copied' = [copied EXCEPT ![k] = None]

\* The copied callback is called, unless it is nil or the payload does not decode.
LoopCalls(k) ==
    /\ loop[k] = "taken"
    /\ \/ /\ copied[k] # None
          /\ loop' = [loop EXCEPT ![k] = "running"]
          /\ stale' = [stale EXCEPT ![k] = IF copied[k] # registered THEN @ + 1 ELSE @]
          /\ UNCHANGED copied
       \/ Waits(k) /\ UNCHANGED stale
    /\ UNCHANGED <<version, verdict, protoVars, notifyCh, wireVars, closeVars, serves,
                   regVars, call>>

CallbackCalls(k) ==
    /\ loop[k] = "running"
    /\ BeginCall(k)
    /\ UNCHANGED <<version, verdict, notifyCh, closeVars, loopVars, regVars>>

\* Mutant: a loop empties its channel with the callbacks it copied first.
DrainsQueue(k) ==
    /\ loop[k] = "running" /\ call[k] = NoCall
    /\ IF notifyCh[serves[k]] > 0
       THEN /\ loop' = [loop EXCEPT ![k] = "taken"]
            /\ notifyCh' = [notifyCh EXCEPT ![serves[k]] = @ - 1]
            /\ UNCHANGED copied
       ELSE Waits(k) /\ UNCHANGED notifyCh
    /\ UNCHANGED <<version, verdict, protoVars, wireVars, closeVars, serves, stale, regVars, call>>

CallbackReturns(k) ==
    /\ loop[k] = "running" /\ call[k] = NoCall
    /\ Waits(k)
    /\ UNCHANGED <<version, verdict, protoVars, notifyCh, wireVars, closeVars, serves, stale,
                   regVars, call>>

\* One of the On... setters: another callback, or nil.
Register ==
    /\ Input /\ sets < MaxSets
    /\ sets' = sets + 1
    /\ registered' \in {None, sets + 2}
    /\ UNCHANGED <<version, verdict, protoVars, notifyCh, wireVars, closeVars, loopVars,
                   call>>

-----------------------------------------------------------------------------
Next ==
    \/ Connect \/ VersionCall \/ CloseStops \/ CloseCloses
    \/ DeviceAnswers \/ DeviceEmits \/ Register
    \/ \E c \in Callers : CallFails(c)
    \/ \E s \in Sessions : ReaderTakes(s) \/ ReaderEnds(s)
    \/ \E k \in Sessions : LoopStarts(k) \/ LoopTakes(k) \/ LoopCalls(k)
                           \/ CallbackCalls(k) \/ CallbackReturns(k)

Spec == Init /\ [][Next]_vars

\* A reader for which there is a message takes it.  Nothing is asked of the device,
\* of the notifyLoops, of the callbacks, or of the contexts of calls.
Fairness == \A s \in Sessions : WF_vars(ReaderTakes(s))

FairSpec == Spec /\ Fairness

-----------------------------------------------------------------------------
(* Properties. *)

Texts == Versions \union {NoText}

\* Every variable has its type.
TypeOK ==
    /\ version \in Versions
    /\ proto \in 0..MaxSessions
    /\ verdict \in {"none", "nil", "error"}
    /\ done \in [Sessions -> BOOLEAN]
    /\ reader \in [Sessions -> {"off", "on", "ended"}]
    /\ nextID \in [Sessions -> 0..MaxIds]
    /\ notifyCh \in [Sessions -> 0..NotifyCap]
    /\ open \in BOOLEAN /\ closer \in {"idle", "stopped"} /\ closes \in 0..MaxCloses
    /\ wire \in Seq([id : 0..MaxIds, text : Texts])
    /\ requests \subseteq [session : Sessions, id : 1..MaxIds, version : BOOLEAN]
    /\ emitted \in 0..MaxEvents
    /\ loop \in [Sessions -> {"off", "starting", "waiting", "taken", "running"}]
    /\ serves \in [Sessions -> 0..MaxSessions]
    /\ sets \in 0..MaxSets /\ registered \in 0..(MaxSets + 1)
    /\ copied \in [Sessions -> 0..(MaxSets + 1)]
    /\ stale \in [Sessions -> Nat]
    /\ call \in [Callers -> [session : 0..MaxSessions, id : 0..MaxIds]]

\* client.go:124-142: a notifyLoop that starts late may find the channel of a later
\* session, but never that of an earlier one, and never a nil c.proto.
LoopNeverBehind ==
    \A k \in Sessions : loop[k] \notin {"off", "starting"} => serves[k] >= k

\* Lines 125-142: a callback that was replaced or cleared is called at most once
\* more by a notifyLoop, for the notification it held at that moment.
StaleAtMostOnce == \A k \in Sessions : stale[k] <= sets

\* Lines 76-84: Connect returns nil only if the device's version is one the SDK
\* speaks, whatever answer of whichever session the check was given.
NilMeansCompatible == verdict = "nil" => IsCompatible(version)

\* The readers that receive from the transport.
Reading == {s \in Sessions : reader[s] = "on"}

\* Lines 123-243 with protocol.go:125-129: a callback may make calls: an answer that
\* has been received reaches a call of the only session that reads, in a callback
\* too, however many notifications are queued behind that callback.
CallbackCallsReturn ==
    \A c \in Callers :
        (/\ call[c] # NoCall /\ Reading = {call[c].session} /\ open
         /\ \E i \in DOMAIN wire : wire[i].id = call[c].id)
            ~> (call[c] = NoCall \/ Reading # {call[c].session} \/ ~open)
====
