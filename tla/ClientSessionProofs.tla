---- MODULE ClientSessionProofs ----
(***************************************************************************)
(* Proofs about ClientSession, for every number of sessions, callbacks and *)
(* notifications and every set of versions: type correctness, which        *)
(* session a notifyLoop serves, that a replaced callback is called at most *)
(* once more, and that Connect only accepts a version the SDK speaks.      *)
(***************************************************************************)
EXTENDS ClientSession, TLAPS

-----------------------------------------------------------------------------
(* Types, in four parts, and the order of the sessions and their loops. *)

Message == [id : 0..MaxIds, text : Texts]
Request == [session : Sessions, id : 1..MaxIds, version : BOOLEAN]
CallRecord == [session : 0..MaxSessions, id : 0..MaxIds]

SessionTypes ==
    /\ version \in Versions
    /\ proto \in 0..MaxSessions
    /\ verdict \in {"none", "nil", "error"}
    /\ done \in [Sessions -> BOOLEAN]
    /\ reader \in [Sessions -> {"off", "on", "ended"}]
    /\ nextID \in [Sessions -> 0..MaxIds]
    /\ notifyCh \in [Sessions -> 0..NotifyCap]

LinkTypes ==
    /\ open \in BOOLEAN /\ closer \in {"idle", "stopped"} /\ closes \in 0..MaxCloses
    /\ wire \in Seq(Message)
    /\ requests \subseteq Request
    /\ emitted \in 0..MaxEvents

LoopTypes ==
    /\ loop \in [Sessions -> {"off", "starting", "waiting", "taken", "running"}]
    /\ serves \in [Sessions -> 0..MaxSessions]
    /\ sets \in 0..MaxSets /\ registered \in 0..(MaxSets + 1)
    /\ copied \in [Sessions -> 0..(MaxSets + 1)]
    /\ stale \in [Sessions -> Nat]

CallTypes == call \in [Callers -> CallRecord]

\* The loop of a session that was never connected is off, and one that has started
\* found c.proto at its own session or a later one.
LoopsInOrder ==
    \A k \in Sessions :
        /\ loop[k] # "off" => k <= proto
        /\ loop[k] \notin {"off", "starting"} => serves[k] >= k

TypeInv == SessionTypes /\ LinkTypes /\ LoopTypes /\ CallTypes /\ LoopsInOrder

LEMMA TypeInvSays == TypeInv => TypeOK /\ LoopNeverBehind
BY DEF TypeInv, TypeOK, SessionTypes, LinkTypes, LoopTypes, CallTypes, Message, Request,
   CallRecord, LoopsInOrder, LoopNeverBehind

LEMMA WireEnds ==
    ASSUME wire \in Seq(Message)
    PROVE  /\ \A m \in Message : Append(wire, m) \in Seq(Message)
           /\ wire # <<>> => Head(wire) \in Message /\ Tail(wire) \in Seq(Message)
OBVIOUS

LEMMA NoCallTyped == NoCall \in CallRecord /\ Event \in Message
BY ClientAssumption DEF NoCall, Call, CallRecord, None, Event, Answer, Message, Texts

LEMMA TypeInit == Init => TypeInv
<1>. SUFFICES ASSUME Init PROVE TypeInv
    OBVIOUS
<1>1. SessionTypes
    BY ClientAssumption DEF Init, SessionTypes, None
<1>2. LinkTypes
    <2>1. <<>> \in Seq(Message)
        OBVIOUS
    <2>2. wire = <<>> /\ requests = {}
        BY DEF Init
    <2>3. wire \in Seq(Message) /\ requests \subseteq Request
        BY <2>1, <2>2
    <2>4. open = FALSE /\ closer = "idle" /\ closes = 0 /\ emitted = 0
        BY DEF Init
    <2>5. closes \in 0..MaxCloses /\ emitted \in 0..MaxEvents
        BY <2>4, ClientAssumption
    <2>6. open \in BOOLEAN /\ closer \in {"idle", "stopped"}
        BY <2>4
    <2> QED
        BY <2>3, <2>5, <2>6 DEF LinkTypes
<1>3. LoopTypes
    BY ClientAssumption DEF Init, LoopTypes, None
<1>4. CallTypes
    BY NoCallTyped DEF Init, CallTypes
<1>5. LoopsInOrder
    BY DEF Init, LoopsInOrder
<1> QED
    BY <1>1, <1>2, <1>3, <1>4, <1>5 DEF TypeInv

\* The steps of a call keep the types of what they change.
LEMMA BeginCallTypes ==
    ASSUME TypeInv, proto # None, NEW c \in Callers, BeginCall(c)
    PROVE  /\ nextID' \in [Sessions -> 0..MaxIds]
           /\ CallTypes'
           /\ requests' \subseteq Request
           /\ UNCHANGED <<proto, done, reader, open, wire, emitted>>
<1>. DEFINE id == nextID[proto] + 1
<1>1. proto \in Sessions
    BY ClientAssumption DEF TypeInv, SessionTypes, Sessions, None
<1>2. id \in 1..MaxIds
    BY <1>1, ClientAssumption DEF BeginCall, TypeInv, SessionTypes
<1>3. nextID' = [nextID EXCEPT ![proto] = id]
    BY DEF BeginCall
<1>4. nextID' \in [Sessions -> 0..MaxIds]
    BY <1>1, <1>2, <1>3 DEF TypeInv, SessionTypes
<1>5. Call(proto, id) \in CallRecord
    BY <1>1, <1>2 DEF Call, CallRecord, Sessions
<1>6. /\ CallTypes'
      /\ requests' \subseteq Request
    <2>1. CASE open
        <3>1. /\ call' = [call EXCEPT ![c] = Call(proto, id)]
              /\ requests' = requests \union
                     {[session |-> proto, id |-> id, version |-> c = User]}
            BY <2>1 DEF BeginCall
        <3>2. [session |-> proto, id |-> id, version |-> c = User]
                  \in Request
            BY <1>1, <1>2 DEF Request
        <3> QED
            BY <3>1, <3>2, <1>5 DEF TypeInv, LinkTypes, CallTypes
    <2>2. CASE ~open
        BY <2>2 DEF BeginCall, TypeInv, LinkTypes, CallTypes
    <2> QED
        BY <2>1, <2>2
<1> QED
    BY <1>4, <1>6 DEF BeginCall

LEMMA TypeStep == TypeInv /\ [Next]_vars => TypeInv'
<1>. SUFFICES ASSUME TypeInv, [Next]_vars PROVE TypeInv'
    OBVIOUS
<1>. USE ClientAssumption DEF TypeInv, Sessions, None
<1>1. CASE Connect
    <2>1. proto + 1 \in Sessions /\ proto' = proto + 1
        BY <1>1 DEF Connect, SessionTypes
    <2>2. SessionTypes'
        BY <1>1, <2>1 DEF SessionTypes, Connect, protoVars
    <2>3. LinkTypes'
        BY <1>1, <2>1 DEF LinkTypes, Connect, wireVars, closeVars
    <2>4. LoopTypes'
        BY <1>1, <2>1 DEF LoopTypes, Connect, loopVars, regVars
    <2>5. CallTypes'
        BY <1>1, <2>1 DEF CallTypes, Connect
    <2>6. LoopsInOrder'
        <3>1. \A k \in Sessions : loop'[k] = IF k = proto + 1 THEN "starting" ELSE loop[k]
            BY <1>1 DEF Connect, LoopTypes
        <3>2. serves' = serves
            BY <1>1 DEF Connect
        <3>3. ASSUME NEW k \in Sessions
              PROVE  /\ loop'[k] # "off" => k <= proto'
                     /\ loop'[k] \notin {"off", "starting"} => serves'[k] >= k
            <4>1. CASE k = proto + 1
                BY <2>1, <3>1, <4>1 DEF SessionTypes
            <4>2. CASE k # proto + 1
                <5>1. loop'[k] = loop[k] /\ serves'[k] = serves[k]
                    BY <3>1, <3>2, <4>2
                <5>2. loop[k] # "off" => k <= proto
                    BY DEF LoopsInOrder
                <5>3. loop[k] # "off" => k <= proto + 1
                    BY <5>2 DEF SessionTypes
                <5>4. loop[k] \notin {"off", "starting"} => serves[k] >= k
                    BY DEF LoopsInOrder
                <5> QED
                    BY <2>1, <5>1, <5>3, <5>4
            <4> QED
                BY <4>1, <4>2
        <3> QED
            BY <3>3 DEF LoopsInOrder
    <2> QED
        BY <2>2, <2>3, <2>4, <2>5, <2>6
<1>2. CASE VersionCall
    <2>1. User \in Callers /\ proto # None /\ BeginCall(User)
        BY <1>2 DEF Callers, VersionCall
    <2>2. /\ nextID' \in [Sessions -> 0..MaxIds] /\ CallTypes' /\ requests' \subseteq Request
          /\ UNCHANGED <<proto, done, reader, open, wire, emitted>>
        BY <2>1, BeginCallTypes
    <2>3. SessionTypes'
        BY <1>2, <2>1, <2>2 DEF SessionTypes, VersionCall, protoVars
    <2>4. LinkTypes'
        BY <1>2, <2>1, <2>2 DEF LinkTypes, VersionCall, wireVars, closeVars
    <2>5. LoopTypes'
        BY <1>2, <2>1, <2>2 DEF LoopTypes, VersionCall, loopVars, regVars
    <2>6. LoopsInOrder'
        BY <1>2, <2>1, <2>2 DEF LoopsInOrder, VersionCall, protoVars, loopVars, LoopTypes, SessionTypes
    <2> QED
        BY <2>3, <2>4, <2>5, <2>6, <2>2
<1>3. CASE CloseStops
    <2>1. SessionTypes'
        BY <1>3 DEF SessionTypes, CloseStops, protoVars
    <2>2. LinkTypes'
        BY <1>3 DEF LinkTypes, CloseStops, wireVars, closeVars
    <2>3. LoopTypes'
        BY <1>3 DEF LoopTypes, CloseStops, loopVars, regVars
    <2>4. CallTypes'
        BY <1>3 DEF CallTypes, CloseStops
    <2>5. LoopsInOrder'
        BY <1>3 DEF LoopsInOrder, CloseStops, protoVars, loopVars, LoopTypes, SessionTypes
    <2> QED
        BY <2>1, <2>2, <2>3, <2>4, <2>5
<1>4. CASE CloseCloses
    <2>1. SessionTypes'
        BY <1>4 DEF SessionTypes, CloseCloses, protoVars
    <2>2. LinkTypes'
        BY <1>4 DEF LinkTypes, CloseCloses, wireVars, closeVars
    <2>3. LoopTypes'
        BY <1>4 DEF LoopTypes, CloseCloses, loopVars, regVars
    <2>4. CallTypes'
        BY <1>4 DEF CallTypes, CloseCloses
    <2>5. LoopsInOrder'
        BY <1>4 DEF LoopsInOrder, CloseCloses, protoVars, loopVars, LoopTypes, SessionTypes
    <2> QED
        BY <2>1, <2>2, <2>3, <2>4, <2>5
<1>5. CASE DeviceAnswers
    <2>1. wire' \in Seq(Message)
        <3>1. PICK r \in requests :
                  wire' = Append(wire, Answer(r.id, IF r.version THEN version ELSE NoText))
            BY <1>5 DEF DeviceAnswers
        <3>2. Answer(r.id, IF r.version THEN version ELSE NoText) \in Message
            BY <3>1 DEF Answer, Message, Texts, Request, LinkTypes, SessionTypes
        <3> QED
            BY <3>1, <3>2, WireEnds DEF LinkTypes
    <2>2. SessionTypes'
        BY <1>5, <2>1 DEF SessionTypes, DeviceAnswers, protoVars
    <2>3. LinkTypes'
        BY <1>5, <2>1 DEF LinkTypes, DeviceAnswers, wireVars, closeVars
    <2>4. LoopTypes'
        BY <1>5, <2>1 DEF LoopTypes, DeviceAnswers, loopVars, regVars
    <2>5. CallTypes'
        BY <1>5, <2>1 DEF CallTypes, DeviceAnswers
    <2>6. LoopsInOrder'
        BY <1>5, <2>1 DEF LoopsInOrder, DeviceAnswers, protoVars, loopVars, LoopTypes, SessionTypes
    <2> QED
        BY <2>2, <2>3, <2>4, <2>5, <2>6
<1>6. CASE DeviceEmits
    <2>1. wire' \in Seq(Message)
        BY <1>6, NoCallTyped, WireEnds DEF DeviceEmits, LinkTypes
    <2>2. SessionTypes'
        BY <1>6, <2>1 DEF SessionTypes, DeviceEmits, protoVars
    <2>3. LinkTypes'
        BY <1>6, <2>1 DEF LinkTypes, DeviceEmits, wireVars, closeVars
    <2>4. LoopTypes'
        BY <1>6, <2>1 DEF LoopTypes, DeviceEmits, loopVars, regVars
    <2>5. CallTypes'
        BY <1>6, <2>1 DEF CallTypes, DeviceEmits
    <2>6. LoopsInOrder'
        BY <1>6, <2>1 DEF LoopsInOrder, DeviceEmits, protoVars, loopVars, LoopTypes, SessionTypes
    <2> QED
        BY <2>2, <2>3, <2>4, <2>5, <2>6
<1>7. CASE Register
    <2>1. SessionTypes'
        BY <1>7 DEF SessionTypes, Register, protoVars
    <2>2. LinkTypes'
        BY <1>7 DEF LinkTypes, Register, wireVars, closeVars
    <2>3. LoopTypes'
        BY <1>7 DEF LoopTypes, Register, loopVars, regVars
    <2>4. CallTypes'
        BY <1>7 DEF CallTypes, Register
    <2>5. LoopsInOrder'
        BY <1>7 DEF LoopsInOrder, Register, protoVars, loopVars, LoopTypes, SessionTypes
    <2> QED
        BY <2>1, <2>2, <2>3, <2>4, <2>5
<1>8. ASSUME NEW c \in Callers, CallFails(c) PROVE TypeInv'
    <2>1. SessionTypes'
        BY <1>8 DEF SessionTypes, CallFails, protoVars
    <2>2. LinkTypes'
        BY <1>8 DEF LinkTypes, CallFails, wireVars, closeVars
    <2>3. LoopTypes'
        BY <1>8 DEF LoopTypes, CallFails, loopVars, regVars
    <2>4. CallTypes'
        BY <1>8, NoCallTyped DEF CallTypes, CallFails
    <2>5. LoopsInOrder'
        BY <1>8 DEF LoopsInOrder, CallFails, protoVars, loopVars, LoopTypes, SessionTypes
    <2> QED
        BY <2>1, <2>2, <2>3, <2>4, <2>5
<1>9. ASSUME NEW s \in Sessions, ReaderTakes(s) PROVE TypeInv'
    <2>1. wire' \in Seq(Message)
        BY <1>9, WireEnds DEF ReaderTakes, LinkTypes
    <2>2. SessionTypes'
        <3>1. notifyCh' \in [Sessions -> 0..NotifyCap]
            <4>1. notifyCh[s] \in 0..NotifyCap
                BY <1>9 DEF SessionTypes
            <4>2. (IF notifyCh[s] < NotifyCap THEN notifyCh[s] + 1 ELSE notifyCh[s])
                      \in 0..NotifyCap
                BY <4>1
            <4>3. CASE RouteNotification(s)
                BY <4>2, <4>3 DEF SessionTypes, RouteNotification
            <4> QED
                BY <1>9, <4>3 DEF ReaderTakes, SessionTypes
        <3>2. verdict' \in {"none", "nil", "error"}
            BY <1>9 DEF ReaderTakes, SessionTypes
        <3> QED
            BY <1>9, <3>1, <3>2 DEF SessionTypes, ReaderTakes, protoVars
    <2>3. LinkTypes'
        BY <1>9, <2>1 DEF LinkTypes, ReaderTakes, wireVars, closeVars
    <2>4. LoopTypes'
        BY <1>9, <2>1 DEF LoopTypes, ReaderTakes, loopVars, regVars
    <2>5. CallTypes'
        BY <1>9, <2>1, NoCallTyped DEF CallTypes, ReaderTakes
    <2>6. LoopsInOrder'
        BY <1>9, <2>1 DEF LoopsInOrder, ReaderTakes, protoVars, loopVars, LoopTypes, SessionTypes
    <2> QED
        BY <2>2, <2>3, <2>4, <2>5, <2>6
<1>10. ASSUME NEW s \in Sessions, ReaderEnds(s) PROVE TypeInv'
    <2>1. SessionTypes'
        BY <1>10 DEF SessionTypes, ReaderEnds, protoVars
    <2>2. LinkTypes'
        BY <1>10 DEF LinkTypes, ReaderEnds, wireVars, closeVars
    <2>3. LoopTypes'
        BY <1>10 DEF LoopTypes, ReaderEnds, loopVars, regVars
    <2>4. CallTypes'
        BY <1>10 DEF CallTypes, ReaderEnds
    <2>5. LoopsInOrder'
        BY <1>10 DEF LoopsInOrder, ReaderEnds, protoVars, loopVars, LoopTypes, SessionTypes
    <2> QED
        BY <2>1, <2>2, <2>3, <2>4, <2>5
<1>11. ASSUME NEW k \in Sessions, LoopStarts(k) PROVE TypeInv'
    <2>1. SessionTypes'
        BY <1>11 DEF SessionTypes, LoopStarts, protoVars
    <2>2. LinkTypes'
        BY <1>11 DEF LinkTypes, LoopStarts, wireVars, closeVars
    <2>3. LoopTypes'
        BY <1>11 DEF LoopTypes, LoopStarts, regVars, SessionTypes
    <2>4. CallTypes'
        BY <1>11 DEF CallTypes, LoopStarts
    <2>5. LoopsInOrder'
        BY <1>11 DEF LoopsInOrder, LoopStarts, protoVars, loopVars, LoopTypes, SessionTypes
    <2> QED
        BY <2>1, <2>2, <2>3, <2>4, <2>5
<1>12. ASSUME NEW k \in Sessions, LoopTakes(k) PROVE TypeInv'
    <2>1. serves[k] \in Sessions
        <3>1. serves[k] \in 0..MaxSessions
            BY <1>12 DEF LoopTypes
        <3>2. loop[k] \notin {"off", "starting"}
            BY <1>12 DEF LoopTakes
        <3>3. k \in 1..MaxSessions /\ serves[k] >= k
            BY <1>12, <3>2 DEF LoopsInOrder
        <3> QED
            BY <3>1, <3>3
    <2>2. SessionTypes'
        <3>1. notifyCh[serves[k]] \in 0..NotifyCap /\ notifyCh[serves[k]] > 0
            BY <1>12, <2>1 DEF LoopTakes, SessionTypes
        <3>2. notifyCh[serves[k]] - 1 \in 0..NotifyCap
            BY <3>1
        <3>3. notifyCh' \in [Sessions -> 0..NotifyCap]
            BY <1>12, <2>1, <3>2 DEF LoopTakes, SessionTypes
        <3> QED
            BY <1>12, <3>3 DEF SessionTypes, LoopTakes, protoVars
    <2>3. LinkTypes'
        BY <1>12, <2>1 DEF LinkTypes, LoopTakes, wireVars, closeVars
    <2>4. LoopTypes'
        BY <1>12, <2>1 DEF LoopTypes, LoopTakes, loopVars, regVars
    <2>5. CallTypes'
        BY <1>12, <2>1 DEF CallTypes, LoopTakes
    <2>6. LoopsInOrder'
        BY <1>12, <2>1 DEF LoopsInOrder, LoopTakes, protoVars, loopVars, LoopTypes, SessionTypes
    <2> QED
        BY <2>2, <2>3, <2>4, <2>5, <2>6
<1>13. ASSUME NEW k \in Sessions, LoopCalls(k) PROVE TypeInv'
    <2>1. SessionTypes'
        BY <1>13 DEF SessionTypes, LoopCalls, Waits, protoVars
    <2>2. LinkTypes'
        BY <1>13 DEF LinkTypes, LoopCalls, Waits, wireVars, closeVars
    <2>3. LoopTypes'
        <3>1. stale' \in [Sessions -> Nat]
            <4>1. stale[k] + 1 \in Nat
                BY <1>13 DEF LoopTypes
            <4> QED
                BY <1>13, <4>1 DEF LoopTypes, LoopCalls
        <3>2. loop' \in [Sessions -> {"off", "starting", "waiting", "taken", "running"}]
            BY <1>13 DEF LoopTypes, LoopCalls, Waits
        <3>3. copied' \in [Sessions -> 0..(MaxSets + 1)]
            <4>1. copied' = copied \/ copied' = [copied EXCEPT ![k] = 0]
                BY <1>13 DEF LoopCalls, Waits
            <4>2. 0 \in 0..(MaxSets + 1)
                OBVIOUS
            <4> QED
                BY <4>1, <4>2 DEF LoopTypes
        <3> QED
            BY <1>13, <3>1, <3>2, <3>3 DEF LoopTypes, LoopCalls, regVars
    <2>4. CallTypes'
        BY <1>13 DEF CallTypes, LoopCalls, Waits
    <2>5. LoopsInOrder'
        BY <1>13 DEF LoopsInOrder, LoopCalls, Waits, protoVars, loopVars, LoopTypes, SessionTypes
    <2> QED
        BY <2>1, <2>2, <2>3, <2>4, <2>5
<1>14. ASSUME NEW k \in Sessions, CallbackCalls(k) PROVE TypeInv'
    <2>1. k \in Callers /\ proto # None /\ BeginCall(k)
        BY <1>14 DEF Callers, CallbackCalls, LoopsInOrder, SessionTypes
    <2>2. /\ nextID' \in [Sessions -> 0..MaxIds] /\ CallTypes' /\ requests' \subseteq Request
          /\ UNCHANGED <<proto, done, reader, open, wire, emitted>>
        BY <2>1, BeginCallTypes
    <2>3. SessionTypes'
        BY <1>14, <2>1, <2>2 DEF SessionTypes, CallbackCalls, protoVars
    <2>4. LinkTypes'
        BY <1>14, <2>1, <2>2 DEF LinkTypes, CallbackCalls, wireVars, closeVars
    <2>5. LoopTypes'
        BY <1>14, <2>1, <2>2 DEF LoopTypes, CallbackCalls, loopVars, regVars
    <2>6. LoopsInOrder'
        BY <1>14, <2>1, <2>2 DEF LoopsInOrder, CallbackCalls, protoVars, loopVars, LoopTypes, SessionTypes
    <2> QED
        BY <2>3, <2>4, <2>5, <2>6, <2>2
<1>15. ASSUME NEW k \in Sessions, CallbackReturns(k) PROVE TypeInv'
    <2>1. SessionTypes'
        BY <1>15 DEF SessionTypes, CallbackReturns, Waits, protoVars
    <2>2. LinkTypes'
        BY <1>15 DEF LinkTypes, CallbackReturns, Waits, wireVars, closeVars
    <2>3. LoopTypes'
        BY <1>15 DEF LoopTypes, CallbackReturns, Waits, loopVars, regVars
    <2>4. CallTypes'
        BY <1>15 DEF CallTypes, CallbackReturns, Waits
    <2>5. LoopsInOrder'
        BY <1>15 DEF LoopsInOrder, CallbackReturns, Waits, protoVars, loopVars, LoopTypes, SessionTypes
    <2> QED
        BY <2>1, <2>2, <2>3, <2>4, <2>5
<1>16. CASE UNCHANGED vars
    <2>1. SessionTypes'
        BY <1>16 DEF SessionTypes, vars, protoVars, wireVars, closeVars, loopVars, regVars
    <2>2. LinkTypes'
        BY <1>16 DEF LinkTypes, vars, protoVars, wireVars, closeVars, loopVars, regVars
    <2>3. LoopTypes'
        BY <1>16 DEF LoopTypes, vars, protoVars, wireVars, closeVars, loopVars, regVars
    <2>4. CallTypes'
        BY <1>16 DEF CallTypes, vars, protoVars, wireVars, closeVars, loopVars, regVars
    <2>5. LoopsInOrder'
        BY <1>16 DEF LoopsInOrder, vars, protoVars, wireVars, closeVars, loopVars, regVars
    <2> QED
        BY <2>1, <2>2, <2>3, <2>4, <2>5
<1> QED
    BY <1>1, <1>2, <1>3, <1>4, <1>5, <1>6, <1>7, <1>8, <1>9, <1>10, <1>11, <1>12, <1>13,
       <1>14, <1>15, <1>16 DEF Next

\* Every variable has its type (client.go:15-35, 68-93, 123-247).
THEOREM ClientTypes == Spec => []TypeOK
<1>1. TypeInv => TypeOK
    BY TypeInvSays
<1> QED
    BY <1>1, TypeInit, TypeStep, PTL DEF Spec

\* A notifyLoop ranges over the channel of its own session or of a later one
\* (client.go:72-74, 124).
THEOREM LoopsServeLater == Spec => []LoopNeverBehind
<1>1. TypeInv => LoopNeverBehind
    BY TypeInvSays
<1> QED
    BY <1>1, TypeInit, TypeStep, PTL DEF Spec

-----------------------------------------------------------------------------
(* Replaced callbacks. *)

\* A loop that holds a callback which has been replaced since it was copied has
\* called fewer of them than there were replacements.
StaleInv ==
    \A k \in Sessions :
        /\ stale[k] <= sets
        /\ loop[k] = "taken" /\ copied[k] # registered => stale[k] < sets

LEMMA StaleInit == Init => StaleInv
BY DEF Init, StaleInv

LEMMA StaleStep == TypeInv /\ StaleInv /\ [Next]_vars => StaleInv'
<1>. SUFFICES ASSUME TypeInv, StaleInv, [Next]_vars PROVE StaleInv'
    OBVIOUS
<1>. USE DEF TypeInv, LoopTypes
<1>1. CASE Connect
    BY <1>1 DEF Connect, StaleInv, regVars
<1>2. ASSUME UNCHANGED loopVars, UNCHANGED regVars PROVE StaleInv'
    BY <1>2 DEF loopVars, regVars, StaleInv
<1>3. CASE VersionCall \/ CloseStops \/ CloseCloses \/ DeviceAnswers \/ DeviceEmits
    BY <1>2, <1>3 DEF VersionCall, CloseStops, CloseCloses, DeviceAnswers, DeviceEmits
<1>4. CASE Register
    <2>1. \A k \in Sessions : stale[k] \in Nat /\ stale[k] <= sets
        BY DEF StaleInv
    <2>2. sets' = sets + 1 /\ stale' = stale /\ sets \in Nat
        BY <1>4, ClientAssumption DEF Register, loopVars
    <2> QED
        BY <2>1, <2>2 DEF StaleInv
<1>5. ASSUME NEW c \in Callers, CallFails(c) PROVE StaleInv'
    BY <1>2, <1>5 DEF CallFails
<1>6. ASSUME NEW s \in Sessions, ReaderTakes(s) \/ ReaderEnds(s) PROVE StaleInv'
    BY <1>2, <1>6 DEF ReaderTakes, ReaderEnds
<1>7. ASSUME NEW k \in Sessions, LoopStarts(k) PROVE StaleInv'
    BY <1>7 DEF LoopStarts, StaleInv, regVars
<1>8. ASSUME NEW k \in Sessions, LoopTakes(k) PROVE StaleInv'
    <2>1. \A j \in Sessions : /\ loop'[j] = IF j = k THEN "taken" ELSE loop[j]
                              /\ copied'[j] = IF j = k THEN registered ELSE copied[j]
        BY <1>8 DEF LoopTakes
    <2>2. stale' = stale /\ registered' = registered /\ sets' = sets
        BY <1>8 DEF LoopTakes, regVars
    <2> QED
        BY <2>1, <2>2 DEF StaleInv
<1>9. ASSUME NEW k \in Sessions, LoopCalls(k) PROVE StaleInv'
    <2>1. registered' = registered /\ sets' = sets /\ sets \in Nat
        BY <1>9, ClientAssumption DEF LoopCalls, regVars
    <2>2. \A j \in Sessions : j # k => /\ loop'[j] = loop[j] /\ copied'[j] = copied[j]
                                       /\ stale'[j] = stale[j]
        BY <1>9 DEF LoopCalls, Waits
    <2>3. loop'[k] # "taken"
        BY <1>9 DEF LoopCalls, Waits
    <2>4. loop[k] = "taken" /\ stale[k] \in Nat
        BY <1>9 DEF LoopCalls
    <2>5. stale'[k] = stale[k] \/ (copied[k] # registered /\ stale'[k] = stale[k] + 1)
        BY <1>9 DEF LoopCalls
    <2>6. stale'[k] <= sets
        BY <2>1, <2>4, <2>5, <1>9 DEF StaleInv
    <2> QED
        BY <2>1, <2>2, <2>3, <2>6 DEF StaleInv
<1>10. ASSUME NEW k \in Sessions, CallbackCalls(k) PROVE StaleInv'
    BY <1>2, <1>10 DEF CallbackCalls
<1>11. ASSUME NEW k \in Sessions, CallbackReturns(k) PROVE StaleInv'
    BY <1>11 DEF CallbackReturns, Waits, StaleInv, regVars
<1>12. CASE UNCHANGED vars
    BY <1>2, <1>12 DEF vars
<1> QED
    BY <1>1, <1>3, <1>4, <1>5, <1>6, <1>7, <1>8, <1>9, <1>10, <1>11, <1>12 DEF Next

\* A callback that was replaced or cleared is called at most once more by a
\* notifyLoop, for the notification that it held (client.go:125-142).
THEOREM ReplacedCalledOnceMore == Spec => []StaleAtMostOnce
<1>1. StaleInv => StaleAtMostOnce
    BY DEF StaleInv, StaleAtMostOnce
<1> QED
    BY <1>1, TypeInit, TypeStep, StaleInit, StaleStep, PTL DEF Spec

-----------------------------------------------------------------------------
(* The version check. *)

\* Whatever is in flight says the device's version or none.
VersionInv ==
    /\ \A i \in DOMAIN wire : wire[i].text \in {NoText, version}
    /\ NilMeansCompatible

LEMMA NoTextIsIncompatible == ~IsCompatible(NoText)
BY DEF NoText, IsCompatible, isVersionInRange, compareVersion, Parses

LEMMA VersionInit == Init => VersionInv
BY DEF Init, VersionInv, NilMeansCompatible

LEMMA VersionStep == TypeInv /\ VersionInv /\ [Next]_vars => VersionInv'
<1>. SUFFICES ASSUME TypeInv, VersionInv, [Next]_vars PROVE VersionInv'
    OBVIOUS
<1>. USE DEF TypeInv, LinkTypes
<1>1. version' = version
    BY DEF Next, vars, Connect, VersionCall, CloseStops, CloseCloses, DeviceAnswers,
       DeviceEmits, Register, CallFails, ReaderTakes, ReaderEnds, LoopStarts, LoopTakes,
       LoopCalls, CallbackCalls, CallbackReturns
<1>2. ASSUME wire' \in {wire, <<>>}, verdict' \in {verdict, "none", "error"} PROVE VersionInv'
    BY <1>1, <1>2 DEF VersionInv, NilMeansCompatible, IsCompatible
<1>3. CASE Connect
    BY <1>2, <1>3 DEF Connect
<1>4. CASE VersionCall
    BY <1>2, <1>4 DEF VersionCall, BeginCall
<1>5. CASE CloseStops \/ CloseCloses \/ Register
    BY <1>2, <1>5 DEF CloseStops, CloseCloses, Register, wireVars
<1>6. ASSUME NEW text \in {NoText, version}, NEW id \in 0..MaxIds,
             wire' = Append(wire, Answer(id, text)), verdict' = verdict
      PROVE  VersionInv'
    <2>1. Answer(id, text) \in Message
        BY DEF Answer, Message, Texts, SessionTypes
    <2>2. \A i \in DOMAIN wire' : (i \in DOMAIN wire /\ wire'[i] = wire[i])
                                  \/ wire'[i] = Answer(id, text)
        BY <1>6, <2>1
    <2>3. \A i \in DOMAIN wire' : wire'[i].text \in {NoText, version}
        BY <2>2 DEF Answer, VersionInv
    <2> QED
        BY <1>1, <1>6, <2>3 DEF VersionInv, NilMeansCompatible, IsCompatible
<1>7. CASE DeviceAnswers
    <2>1. PICK r \in requests :
              wire' = Append(wire, Answer(r.id, IF r.version THEN version ELSE NoText))
        BY <1>7 DEF DeviceAnswers
    <2>2. r.id \in 0..MaxIds
        BY <2>1, ClientAssumption DEF Request
    <2> QED
        BY <1>6, <1>7, <2>1, <2>2 DEF DeviceAnswers
<1>8. CASE DeviceEmits
    <2>1. 0 \in 0..MaxIds
        BY ClientAssumption
    <2> QED
        BY <1>6, <1>8, <2>1 DEF DeviceEmits, Event
<1>9. ASSUME NEW c \in Callers, CallFails(c) PROVE VersionInv'
    BY <1>2, <1>9 DEF CallFails, wireVars
<1>10. ASSUME NEW s \in Sessions, ReaderTakes(s) PROVE VersionInv'
    <2>1. wire # <<>> /\ wire' = Tail(wire)
        BY <1>10 DEF ReaderTakes
    <2>2. \A i \in DOMAIN wire' : i + 1 \in DOMAIN wire /\ wire'[i] = wire[i + 1]
        BY <2>1
    <2>3. \A i \in DOMAIN wire' : wire'[i].text \in {NoText, version}
        BY <2>2 DEF VersionInv
    <2>4. 1 \in DOMAIN wire /\ Head(wire) = wire[1]
        BY <2>1
    <2>5. Head(wire).text \in {NoText, version}
        BY <2>4 DEF VersionInv
    <2>6. verdict' = "nil" => verdict = "nil" \/ Accepts(Head(wire).text)
        BY <1>10 DEF ReaderTakes
    <2>7. verdict' = "nil" => IsCompatible(version)
        BY <2>5, <2>6, NoTextIsIncompatible DEF Accepts, VersionInv, NilMeansCompatible
    <2> QED
        BY <1>1, <2>3, <2>7 DEF VersionInv, NilMeansCompatible, IsCompatible
<1>11. ASSUME NEW s \in Sessions, ReaderEnds(s) PROVE VersionInv'
    BY <1>2, <1>11 DEF ReaderEnds, wireVars
<1>12. ASSUME NEW k \in Sessions,
              \/ LoopStarts(k) \/ LoopTakes(k) \/ LoopCalls(k)
              \/ CallbackCalls(k) \/ CallbackReturns(k)
       PROVE  VersionInv'
    BY <1>2, <1>12 DEF LoopStarts, LoopTakes, LoopCalls, CallbackCalls, CallbackReturns,
       BeginCall, wireVars
<1>13. CASE UNCHANGED vars
    BY <1>2, <1>13 DEF vars, wireVars
<1> QED
    BY <1>3, <1>4, <1>5, <1>7, <1>8, <1>9, <1>10, <1>11, <1>12, <1>13 DEF Next

\* Connect returns nil only if the device's version is one the SDK speaks, whichever
\* session's answer the check was given (client.go:76-84).
THEOREM NilMeansVersionSpoken == Spec => []NilMeansCompatible
<1>1. VersionInv => NilMeansCompatible
    BY DEF VersionInv
<1> QED
    BY <1>1, TypeInit, TypeStep, VersionInit, VersionStep, PTL DEF Spec
====
