---- MODULE BleTransport ----
(***************************************************************************)
(* transport/ble.go: the link of a BLE transport as Connect, the           *)
(* background reconnectLoops, Close and the adapter's reports of link      *)
(* changes see it.  The adapter reports through a queue: its handler runs  *)
(* when the link may long have changed again, and tells links apart by     *)
(* their address only, which for one device is always the same.            *)
(*                                                                         *)
(* Sections under mu are single steps, and so is each call to the adapter  *)
(* or the device.  Lines, chunks and the retry of the token's write are    *)
(* those of BleLines; here authenticate succeeds or fails.                 *)
(***************************************************************************)
EXTENDS Integers, Sequences, FiniteSets

CONSTANTS
    User,       \* the goroutine that calls Connect
    Adapter,    \* the goroutine in which the adapter runs the handler
    Loops,      \* bound: reconnectLoop goroutines alive at a time
    Tokens,     \* whether an auth token is set: the cases considered
    MaxLosses,  \* bound: links that break by themselves
    MaxConnects, \* bound: calls of Connect
    MaxCloses,  \* bound: calls of Close
    MaxReports  \* bound: changes of the link that are not reported yet

ASSUME GoroutinesAssumption ==
    /\ User # Adapter /\ User \notin Loops /\ Adapter \notin Loops
    /\ IsFiniteSet(Loops)
    /\ Tokens \subseteq BOOLEAN
    /\ MaxLosses \in Nat /\ MaxReports \in Nat \ {0}
    /\ MaxConnects \in Nat /\ MaxCloses \in Nat

VARIABLES
    token,         \* BLE.authToken is set
    connected,     \* BLE.connected
    reconnecting,  \* BLE.reconnecting
    closing,       \* BLE.closing
    closed,        \* BLE.closeCh is closed
    link,          \* the device is linked
    handler,       \* SetConnectHandler has been called
    reports,       \* link changes the adapter has not reported yet; TRUE is up
    pc,            \* where each goroutine is
    losses,        \* links that broke by themselves
    connects,      \* calls of Connect
    closes         \* calls of Close

flags == <<connected, reconnecting, closing, closed>>
bounds == <<losses, connects, closes>>
world == <<link, handler, reports>>
vars == <<token, flags, world, pc, bounds>>

Connectors == {User} \union Loops
Goroutines == Connectors \union {Adapter}

\* Inside connect, in the order of its steps; "drop" follows a failed authentication.
InConnect == {"dial", "handler", "discover", "install", "auth", "drop"}
Labels == InConnect \union {"idle", "off", "check", "sleep", "done", "start"}

\* The reconnectLoops at work, and the goroutines about to start one.
Looping == {l \in Loops : pc[l] # "off"}
Starting == {g \in Goroutines : pc[g] = "start"}

Init ==
    /\ token \in Tokens
    /\ connected = FALSE /\ reconnecting = FALSE /\ closing = FALSE /\ closed = FALSE
    /\ link = FALSE /\ handler = FALSE /\ reports = <<>>
    /\ pc = [g \in Goroutines |-> IF g \in Loops THEN "off" ELSE "idle"]
    /\ losses = 0 /\ connects = 0 /\ closes = 0

Goto(g, label) == pc' = [pc EXCEPT ![g] = label]

\* The label after g's connect, or g's handler, has returned with a failure.
Failed(g) == IF g \in Loops THEN "sleep" ELSE "idle"

\* Mutant: a loop whose connect succeeded returns like Connect does.
ReturnsAtOnce(g) == "idle"

\* The label after connect has returned nil.
Connected(g) == IF g \in Loops THEN "done" ELSE "idle"

\* The link is up from now on, or down; only a change is reported.
LinkIs(up) ==
    /\ link # up => Len(reports) < MaxReports
    /\ link' = up
    /\ reports' = IF link # up THEN Append(reports, up) ELSE reports
    /\ UNCHANGED handler

\* device.Disconnect: it cuts the link to that address, whoever made it.
Disconnect == LinkIs(FALSE)

-----------------------------------------------------------------------------
(* Connect and connect. *)

\* The guard of Connect under mu; from here on a Close is forgotten.
Connect ==
    /\ pc[User] = "idle"
    /\ connects < MaxConnects
    /\ connects' = connects + 1
    /\ ~connected
    /\ closing' = FALSE
    /\ Goto(User, "dial")
    /\ UNCHANGED <<token, connected, reconnecting, closed, world, losses, closes>>

\* Enable, the scan with its timeout, or adapter.Connect fails.
DialFails(g) ==
    /\ pc[g] = "dial"
    /\ Goto(g, Failed(g))
    /\ UNCHANGED <<token, flags, world, bounds>>

\* A device is found and linked; an address that is linked already stays so.
Dial(g) ==
    /\ pc[g] = "dial"
    /\ LinkIs(TRUE)
    /\ Goto(g, "handler")
    /\ UNCHANGED <<token, flags, bounds>>

SetConnectHandler(g) ==
    /\ pc[g] = "handler"
    /\ handler' = TRUE
    /\ Goto(g, "discover")
    /\ UNCHANGED <<token, flags, link, reports, bounds>>

\* The services, found at once or the second time, the characteristics and the
\* notifications are there.
Discovered(g) ==
    /\ pc[g] = "discover"
    /\ link
    /\ Goto(g, "install")
    /\ UNCHANGED <<token, flags, world, bounds>>

\* No service the second time either, no characteristics, no notifications, or the
\* context ends in the delay before the second time.
DiscoveryFails(g) ==
    /\ pc[g] = "discover"
    /\ Disconnect
    /\ Goto(g, Failed(g))
    /\ UNCHANGED <<token, flags, bounds>>

\* Mutant: the flag is given back with the installation, before authenticate.
InstallReleases(g) ==
    /\ pc[g] = "install"
    /\ connected' = TRUE /\ closed' = FALSE /\ reconnecting' = FALSE
    /\ Goto(g, IF token THEN "auth" ELSE Connected(g))
    /\ UNCHANGED <<token, closing, world, bounds>>

\* The section under mu that publishes the link, which nobody checks again.
Install(g) ==
    /\ pc[g] = "install"
    /\ connected' = TRUE /\ closed' = FALSE
    /\ Goto(g, IF token THEN "auth" ELSE Connected(g))
    /\ UNCHANGED <<token, reconnecting, closing, world, bounds>>

\* authenticate: Send refuses while reconnecting, or when a loss was reported.
Authenticated(g) ==
    /\ pc[g] = "auth"
    /\ ~reconnecting /\ connected /\ link
    /\ Goto(g, Connected(g))
    /\ UNCHANGED <<token, flags, world, bounds>>

\* Send fails, the acknowledgement does not come or is a refusal: the link is cut.
AuthFails(g) ==
    /\ pc[g] = "auth"
    /\ Disconnect
    /\ Goto(g, "drop")
    /\ UNCHANGED <<token, flags, bounds>>

-----------------------------------------------------------------------------
(* handleConnectionStateChange. *)

\* Mutant: a loss starts a reconnectLoop whether or not one is at work.
LossAlwaysStarts(g) ==
    IF ~connected
    THEN Goto(g, Failed(g)) /\ UNCHANGED flags
    ELSE /\ connected' = FALSE /\ closed' = TRUE
         /\ reconnecting' = (reconnecting \/ ~closing)
         /\ Goto(g, IF closing THEN Failed(g) ELSE "start")
         /\ UNCHANGED closing

\* The section under mu for a lost link, run by g; OnDisconnect is only a callback.
HandleLoss(g) ==
    IF ~connected
    THEN Goto(g, Failed(g)) /\ UNCHANGED flags
    ELSE /\ connected' = FALSE /\ closed' = TRUE
         /\ reconnecting' = (reconnecting \/ ~closing)
         /\ Goto(g, IF closing \/ reconnecting THEN Failed(g) ELSE "start")
         /\ UNCHANGED closing

AuthDrops(g) ==
    /\ pc[g] = "drop"
    /\ HandleLoss(g)
    /\ UNCHANGED <<token, world, bounds>>

\* After the section and OnDisconnect: the goroutine of reconnectLoop.
StartLoop(g) ==
    /\ pc[g] = "start"
    /\ \E l \in Loops : /\ pc[l] = "off"
                        /\ pc' = [pc EXCEPT ![g] = Failed(g), ![l] = "check"]
    /\ UNCHANGED <<token, flags, world, bounds>>

\* The adapter reports the oldest change to the handler, if there is one: an up
\* sets connected whatever the link is by now (OnReconnect is only a callback).
Report ==
    /\ pc[Adapter] = "idle"
    /\ reports # <<>>
    /\ reports' = Tail(reports)
    /\ IF ~handler THEN UNCHANGED <<flags, pc>>
       ELSE IF Head(reports)
            THEN connected' = TRUE /\ UNCHANGED <<reconnecting, closing, closed, pc>>
            ELSE HandleLoss(Adapter)
    /\ UNCHANGED <<token, link, handler, bounds>>

-----------------------------------------------------------------------------
(* reconnectLoop. *)

\* Mutant: closing is not looked at.
BlindCheck(l) ==
    /\ pc[l] = "check"
    /\ Goto(l, "dial") /\ UNCHANGED flags
    /\ UNCHANGED <<token, world, bounds>>

LoopCheck(l) ==
    /\ pc[l] = "check"
    /\ IF closing
       THEN reconnecting' = FALSE /\ Goto(l, "off") /\ UNCHANGED <<connected, closing, closed>>
       ELSE Goto(l, "dial") /\ UNCHANGED flags
    /\ UNCHANGED <<token, world, bounds>>

LoopWakes(l) ==
    /\ pc[l] = "sleep"
    /\ Goto(l, "check")
    /\ UNCHANGED <<token, flags, world, bounds>>

\* Mutant: the flag is not given back.
DoneKeepsFlag(l) ==
    /\ pc[l] = "done"
    /\ Goto(l, "off")
    /\ UNCHANGED <<token, flags, world, bounds>>

\* The flag is given back under mu; OnReconnect is called after that.
LoopDone(l) ==
    /\ pc[l] = "done"
    /\ reconnecting' = FALSE
    /\ Goto(l, "off")
    /\ UNCHANGED <<token, connected, closing, closed, world, bounds>>

-----------------------------------------------------------------------------
\* Close: one section under mu, which holds it over device.Disconnect.
Close ==
    /\ closes < MaxCloses
    /\ closes' = closes + 1
    /\ closing' = TRUE /\ reconnecting' = FALSE /\ connected' = FALSE /\ closed' = TRUE
    /\ IF connected THEN Disconnect ELSE UNCHANGED world
    /\ UNCHANGED <<token, pc, losses, connects>>

\* The link breaks.
LinkBreaks ==
    /\ link
    /\ losses < MaxLosses
    /\ losses' = losses + 1
    /\ LinkIs(FALSE)
    /\ UNCHANGED <<token, flags, pc, connects, closes>>

-----------------------------------------------------------------------------
Connecting(g) ==
    \/ DialFails(g) \/ Dial(g) \/ SetConnectHandler(g)
    \/ Discovered(g) \/ DiscoveryFails(g) \/ Install(g)
    \/ Authenticated(g) \/ AuthFails(g) \/ AuthDrops(g)

Looped(l) == LoopCheck(l) \/ LoopWakes(l) \/ LoopDone(l)

Next ==
    \/ Connect \/ Close \/ LinkBreaks \/ Report
    \/ \E g \in Connectors : Connecting(g)
    \/ \E g \in Goroutines : StartLoop(g)
    \/ \E l \in Loops : Looped(l)

Spec == Init /\ [][Next]_vars

\* Goroutines run and the adapter reports; a loop that tries again and again finds
\* and links the device, and its services, infinitely often.
Fairness ==
    /\ WF_vars(Report)
    /\ \A g \in Goroutines : WF_vars(StartLoop(g))
    /\ \A g \in Connectors : WF_vars(Connecting(g)) /\ SF_vars(Dial(g)) /\ SF_vars(Discovered(g))
    /\ \A l \in Loops : WF_vars(Looped(l))

FairSpec == Spec /\ Fairness

-----------------------------------------------------------------------------
(* Properties. *)

\* Every variable has its type.
TypeOK ==
    /\ token \in BOOLEAN
    /\ connected \in BOOLEAN /\ reconnecting \in BOOLEAN
    /\ closing \in BOOLEAN /\ closed \in BOOLEAN
    /\ link \in BOOLEAN /\ handler \in BOOLEAN
    /\ reports \in Seq(BOOLEAN)
    /\ pc \in [Goroutines -> Labels]
    /\ pc[User] \in InConnect \union {"idle", "start"}
    /\ pc[Adapter] \in {"idle", "start"}
    /\ \A l \in Loops : pc[l] # "idle"
    /\ losses \in 0..MaxLosses /\ connects \in 0..MaxConnects /\ closes \in 0..MaxCloses

\* Reconnect loops that run or are about to.
LoopCount == Cardinality(Looping) + Cardinality(Starting)

\* Lines 433-449: one loop reconnects at a time; only a Close, which takes the flag
\* away from a loop that is still at work, allows one more.
LoopsBounded == LoopCount <= closes + (IF reconnecting THEN 1 ELSE 0)

\* Lines 492-494: Send refuses with ErrReconnecting, on which every call waits and
\* sends again, only while a loop is at work or about to be started. That the loop ends
\* the refusal is not said; with a token none does, see the next property.
RefusalHasLoop == reconnecting => LoopCount > 0

\* Lines 295-301 with 438-440 and 492-494: as long as nobody closes, a transport
\* with a token never finishes an automatic reconnect, because the write of the
\* token is refused by the flag of that very reconnect.
TokenNeverReconnects == token /\ closes = 0 => \A l \in Loops : pc[l] # "done"

\* The one loss nobody is told of, although line 120 says that OnDisconnect is called: it
\* was reported before the link was installed.
Missed == connected /\ ~link /\ \A k \in 1..Len(reports) : reports[k]

\* The link of a loop is gone before the loop has given the flag back: handled in
\* this moment, the loss starts no other loop, and the flag is taken back after.
LostBeforeDone == ~link /\ \E l \in Loops : pc[l] = "done"

\* Lines 438-485: without a token, a link that is lost is replaced, unless the
\* transport is closed or the loss is reported in one of two moments, above.
LossIsRepaired ==
    (connected /\ ~link /\ ~token) ~>
        ((connected /\ link) \/ Missed \/ LostBeforeDone \/ closing)

\* Lines 457-461: after Close every loop ends, unless Connect is called again. The link
\* of one that was inside connect stays up, although line 530 says that Close disconnects.
CloseEndsLoops == closing ~> (Looping = {} \/ ~closing)
====
