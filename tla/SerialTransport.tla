---- MODULE SerialTransport ----
(***************************************************************************)
(* transport/serial.go and auth.go: a serial port read by one goroutine,   *)
(* which hands JSON lines to Receive through a bounded channel and opens   *)
(* the port again when it is lost.  With a token every port is             *)
(* authenticated before it is used: by Connect, which holds mu meanwhile,  *)
(* or by the reader in reconnect, which does not.                          *)
(*                                                                         *)
(* Connect and the reader never run at the same time, so pc is the place   *)
(* of whichever of them there is.  A port is a number, a line a record of  *)
(* its port, its number and its kind.  The delays of reconnect are those   *)
(* of websocket.go and are left to WebSocketTransport.                     *)
(***************************************************************************)
EXTENDS Integers, Sequences

CONSTANTS
    Token,      \* whether an authentication token is configured
    Deadlines,  \* whether the port has SetReadDeadline
    RecvCap,    \* capacity of recvCh, 32 in the code
    MaxPorts,   \* bound: successful opens
    MaxLines,   \* bound: JSON lines in all
    WireCap     \* bound: lines read from the port and not yet scanned

ASSUME BoundsAssumption ==
    /\ Token \in BOOLEAN /\ Deadlines \in BOOLEAN
    /\ RecvCap \in Nat \ {0} /\ WireCap \in Nat
    /\ MaxPorts \in Nat /\ MaxLines \in Nat

VARIABLES
    conn,          \* Serial.conn; 0 is nil
    status,        \* status[k] of port k: "none" before it is opened
    pc,            \* where Connect or the reader is
    starting,      \* Connect is authenticating and holds mu
    reconnecting,  \* Serial.reconnecting
    hand,          \* the line the reader is about to send to recvCh
    recvCh,        \* Serial.recvCh
    errCh,         \* an error is in Serial.errCh
    done,          \* Serial.done is closed
    closePc,       \* where Close is
    wire,          \* what can be read from the port conn
    asked,         \* the device has a token to answer
    lines,         \* number of JSON lines the device has sent
    granted,       \* history: ports on which the token was accepted, or echoed
    written,       \* history: ports a request was written to
    last           \* history: the line Receive returned last

portVars == <<conn, status>>
chanVars == <<recvCh, errCh>>
closeVars == <<done, closePc>>
deviceVars == <<wire, asked, lines, granted>>
histVars == <<written, last>>
vars == <<portVars, pc, starting, reconnecting, hand, chanVars, closeVars, deviceVars, histVars>>

Ports == 1..MaxPorts
NoPort == 0

\* "echo" is the console's echo of the request, "accept" and "reject" are its answers,
\* "json" is any other line with a brace, cut short or not, "log" a line without.
Json == {"json", "echo", "accept", "reject"}
Line == [port : 0..MaxPorts, n : 0..MaxLines, kind : Json \union {"log"}]
NoLine == [port |-> NoPort, n |-> 0, kind |-> "log"]

\* validateAuthResponse: id 0 and no error, which the echo of the request has too.
ValidAuth(m) == m.kind \in {"accept", "echo"}

Init ==
    /\ conn = NoPort /\ status = [k \in Ports |-> "none"]
    /\ pc = "off" /\ starting = FALSE /\ reconnecting = FALSE
    /\ hand = NoLine /\ recvCh = <<>> /\ errCh = FALSE
    /\ done = FALSE /\ closePc = "open"
    /\ wire = <<>> /\ asked = FALSE /\ lines = 0 /\ granted = {}
    /\ written = {} /\ last = NoLine

-----------------------------------------------------------------------------
(* Opening and authenticating. *)

\* The port opens, with nothing in its buffer.
Opens(k) ==
    /\ status[k] = "none"
    /\ \A j \in Ports : status[j] = "none" => k <= j
    /\ conn' = k
    /\ status' = [status EXCEPT ![k] = "up"]
    /\ wire' = <<>> /\ asked' = FALSE

Closed == IF conn = NoPort \/ status[conn] = "closed" THEN status
          ELSE [status EXCEPT ![conn] = "closed"]

Connect ==
    /\ pc = "off"
    /\ \E k \in Ports : Opens(k)
    /\ pc' = IF Token THEN "authSend" ELSE "top"
    /\ starting' = Token
    /\ UNCHANGED <<reconnecting, hand, chanVars, closeVars, lines, granted, histVars>>

\* authenticate returns an error: the port is closed and forgotten, Connect returns
\* and the reader tries again.
AuthGivesUp ==
    /\ status' = Closed
    /\ conn' = NoPort
    /\ pc' = IF starting THEN "off" ELSE "check"
    /\ starting' = FALSE
    /\ wire' = <<>> /\ asked' = FALSE
    /\ UNCHANGED <<reconnecting, hand, chanVars, closeVars, lines, granted, histVars>>

\* authenticate returns nil: Connect starts the reader, reconnect gives the flag back.
AuthPasses ==
    /\ pc' = IF starting THEN "top" ELSE "onReconnect"
    /\ starting' = FALSE /\ reconnecting' = FALSE
    /\ UNCHANGED <<portVars, hand, chanVars, closeVars, asked, lines, granted,
                   histVars>>

AuthSend ==
    /\ pc = "authSend"
    /\ status[conn] = "up"
    /\ asked' = TRUE
    /\ pc' = "authRead"
    /\ UNCHANGED <<portVars, starting, reconnecting, hand, chanVars, closeVars, wire, lines,
                   granted, histVars>>

AuthSendFails ==
    /\ pc = "authSend"
    /\ AuthGivesUp

\* readAuthResponse skips what is not JSON; the first line that is decides.
AuthSkips ==
    /\ pc = "authRead" /\ wire # <<>>
    /\ Head(wire).kind \notin Json
    /\ wire' = Tail(wire)
    /\ UNCHANGED <<portVars, pc, starting, reconnecting, hand, chanVars, closeVars, asked, lines,
                   granted, histVars>>

AuthAccepts ==
    /\ pc = "authRead" /\ wire # <<>>
    /\ Head(wire).kind \in Json /\ ValidAuth(Head(wire))
    /\ wire' = Tail(wire)
    /\ AuthPasses

AuthRefuses ==
    /\ pc = "authRead" /\ wire # <<>>
    /\ Head(wire).kind \in Json /\ ~ValidAuth(Head(wire))
    /\ AuthGivesUp

\* The port is lost or closed, or its read deadline passes.
AuthReadFails ==
    /\ pc = "authRead"
    /\ status[conn] # "up" \/ Deadlines
    /\ AuthGivesUp

-----------------------------------------------------------------------------
(* The reader. *)

ReaderAt(label) ==
    /\ pc' = label
    /\ UNCHANGED <<starting, closeVars, asked, lines, granted, histVars>>

ReaderCheckDone ==
    /\ pc = "top"
    /\ ReaderAt(IF done THEN "exited" ELSE "scan")
    /\ UNCHANGED <<portVars, reconnecting, hand, chanVars, wire>>

\* Scan returns a line, also one that was buffered when the port was lost or closed.
Scan ==
    /\ pc = "scan" /\ wire # <<>>
    /\ wire' = Tail(wire)
    /\ IF Head(wire).kind \in Json
       THEN hand' = Head(wire) /\ ReaderAt("push")
       ELSE hand' = hand /\ ReaderAt("top")
    /\ UNCHANGED <<portVars, reconnecting, chanVars>>

\* Scan returns false: an error, or the end of the stream, which may come any time.
ScanFails ==
    /\ pc = "scan" /\ wire = <<>>
    /\ ReaderAt("failed")
    /\ UNCHANGED <<portVars, reconnecting, hand, chanVars, wire>>

FailedDone ==
    /\ pc = "failed" /\ done
    /\ ReaderAt("exited")
    /\ UNCHANGED <<portVars, reconnecting, hand, chanVars, wire>>

\* Without an error it may have been a timeout: a new scanner on the same port.
FailedEof ==
    /\ pc = "failed" /\ ~done
    /\ ReaderAt("top")
    /\ UNCHANGED <<portVars, reconnecting, hand, chanVars, wire>>

\* Mutant: every failed scan is taken for a timeout.
ErrorIgnored ==
    /\ pc = "failed" /\ ~done
    /\ ReaderAt("top")
    /\ UNCHANGED <<portVars, reconnecting, hand, chanVars, wire>>

\* The port is lost or closed, its deadline passed, or a line is too long for the scanner.
FailedError ==
    /\ pc = "failed" /\ ~done
    /\ ReaderAt("reconnect")
    /\ UNCHANGED <<portVars, reconnecting, hand, chanVars, wire>>

\* Mutant: the channel has no bound.
UnboundedPush ==
    /\ pc = "push"
    /\ recvCh' = Append(recvCh, hand)
    /\ hand' = NoLine
    /\ ReaderAt("top")
    /\ UNCHANGED <<portVars, reconnecting, errCh, wire>>

\* Mutant: a line is dropped when the channel is full, as protocol.go drops notifications.
DroppingPush ==
    /\ pc = "push"
    /\ recvCh' = IF Len(recvCh) < RecvCap THEN Append(recvCh, hand) ELSE recvCh
    /\ hand' = NoLine
    /\ ReaderAt("top")
    /\ UNCHANGED <<portVars, reconnecting, errCh, wire>>

\* The select on recvCh and done.
Push ==
    /\ pc = "push"
    /\ Len(recvCh) < RecvCap
    /\ recvCh' = Append(recvCh, hand)
    /\ hand' = NoLine
    /\ ReaderAt("top")
    /\ UNCHANGED <<portVars, reconnecting, errCh, wire>>

\* Mutant: a plain send to recvCh, without the case for done.
NoPushDone ==
    /\ pc = "push" /\ done
    /\ UNCHANGED vars

PushDone ==
    /\ pc = "push" /\ done
    /\ hand' = NoLine
    /\ ReaderAt("exited")
    /\ UNCHANGED <<portVars, reconnecting, chanVars, wire>>

(* reconnect. *)

Enter ==
    /\ pc = "reconnect"
    /\ reconnecting' = TRUE
    /\ status' = Closed /\ conn' = NoPort /\ wire' = <<>>
    /\ ReaderAt("onDisconnect")
    /\ UNCHANGED <<hand, chanVars>>

Callback ==
    /\ \/ pc = "onDisconnect" /\ ReaderAt("check")
       \/ pc = "onReconnect" /\ ReaderAt("top")
    /\ UNCHANGED <<portVars, reconnecting, hand, chanVars, wire>>

\* The only look at done, before the sleep.
CheckDone ==
    /\ pc = "check"
    /\ IF done
       THEN ReaderAt("giveUp") /\ reconnecting' = FALSE
       ELSE ReaderAt("open") /\ UNCHANGED reconnecting
    /\ UNCHANGED <<portVars, hand, chanVars, wire>>

OpenFails ==
    /\ pc = "open"
    /\ ReaderAt("check")
    /\ UNCHANGED <<portVars, reconnecting, hand, chanVars, wire>>

\* Mutant: the flag is given back as soon as the port is open, before authenticate.
OpenReleases ==
    /\ pc = "open"
    /\ \E k \in Ports : Opens(k)
    /\ pc' = IF Token THEN "authSend" ELSE "onReconnect"
    /\ reconnecting' = FALSE
    /\ UNCHANGED <<starting, hand, chanVars, closeVars, lines, granted, histVars>>

\* The port is installed, then authenticated; without a token that is done at once.
OpenSucceeds ==
    /\ pc = "open"
    /\ \E k \in Ports : Opens(k)
    /\ IF Token
       THEN pc' = "authSend" /\ UNCHANGED reconnecting
       ELSE pc' = "onReconnect" /\ reconnecting' = FALSE
    /\ UNCHANGED <<starting, hand, chanVars, closeVars, lines, granted, histVars>>

\* reconnect has returned ErrClosed: the error is left for Receive if there is room.
GiveUp ==
    /\ pc = "giveUp"
    /\ errCh' = TRUE
    /\ ReaderAt("exited")
    /\ UNCHANGED <<portVars, reconnecting, hand, recvCh, wire>>

-----------------------------------------------------------------------------
(* Send, Receive and Close. *)

\* Under mu; a Send that returns an error changes nothing.
Send ==
    /\ ~starting /\ ~reconnecting
    /\ conn # NoPort /\ status[conn] = "up"
    /\ written' = written \union {conn}
    /\ UNCHANGED <<portVars, pc, starting, reconnecting, hand, chanVars, closeVars, deviceVars,
                   last>>

ReceiveLine ==
    /\ recvCh # <<>>
    /\ last' = Head(recvCh)
    /\ recvCh' = Tail(recvCh)
    /\ UNCHANGED <<portVars, pc, starting, reconnecting, hand, errCh, closeVars, deviceVars,
                   written>>

ReceiveError ==
    /\ errCh
    /\ errCh' = FALSE
    /\ UNCHANGED <<portVars, pc, starting, reconnecting, hand, recvCh, closeVars, deviceVars,
                   histVars>>

CloseDone ==
    /\ closePc = "open"
    /\ done' = TRUE
    /\ closePc' = "closing"
    /\ UNCHANGED <<portVars, pc, starting, reconnecting, hand, chanVars, deviceVars, histVars>>

\* mu is free, then the current port, if any, is closed.
CloseConn ==
    /\ closePc = "closing" /\ ~starting
    /\ status' = Closed
    /\ closePc' = "closed"
    /\ UNCHANGED <<conn, pc, starting, reconnecting, hand, chanVars, done, deviceVars, histVars>>

-----------------------------------------------------------------------------
(* The device. *)

Transmit(kind, n) ==
    /\ conn # NoPort /\ status[conn] = "up"
    /\ Len(wire) < WireCap
    /\ wire' = Append(wire, [port |-> conn, n |-> n, kind |-> kind])
    /\ lines' = n
    /\ UNCHANGED <<portVars, pc, starting, reconnecting, hand, chanVars, closeVars, histVars>>

Logs == Transmit("log", lines) /\ UNCHANGED <<asked, granted>>

Speaks(kind) ==
    /\ lines < MaxLines
    /\ Transmit(kind, lines + 1)
    /\ kind # "json" => asked
    /\ asked' = (asked /\ kind \notin {"accept", "reject"})
    /\ granted' = IF kind \in {"accept", "echo"} THEN granted \union {conn} ELSE granted

\* The port is lost, with or without what was in its buffer.
Lost ==
    /\ conn # NoPort /\ status[conn] = "up"
    /\ status' = [status EXCEPT ![conn] = "lost"]
    /\ wire' \in {<<>>, wire}
    /\ UNCHANGED <<conn, pc, starting, reconnecting, hand, chanVars, closeVars, asked, lines,
                   granted, histVars>>

-----------------------------------------------------------------------------
Authenticate ==
    AuthSend \/ AuthSendFails \/ AuthSkips \/ AuthAccepts \/ AuthRefuses \/ AuthReadFails

Reader ==
    \/ ReaderCheckDone \/ Scan \/ ScanFails \/ FailedDone \/ FailedEof \/ FailedError
    \/ Push \/ PushDone

Reconnect ==
    Enter \/ Callback \/ CheckDone \/ OpenFails \/ OpenSucceeds \/ GiveUp

Receive == ReceiveLine \/ ReceiveError

Close == CloseDone \/ CloseConn

Device ==
    \/ Logs
    \/ \E kind \in Json : Speaks(kind)
    \/ Lost

Next == Connect \/ Authenticate \/ Reader \/ Reconnect \/ Send \/ Receive \/ Close \/ Device

Spec == Init /\ [][Next]_vars

\* Goroutines run; mu is not held for ever; the protocol's reader receives until Close; a
\* read deadline passes even while the device talks; and a lost port does not look like a
\* quiet one for ever.
Fairness ==
    /\ WF_vars(Authenticate) /\ WF_vars(Reader) /\ WF_vars(Reconnect)
    /\ WF_vars(CloseConn) /\ WF_vars(~done /\ Receive)
    /\ WF_vars(AuthReadFails) /\ SF_vars(FailedError)

FairSpec == Spec /\ Fairness

-----------------------------------------------------------------------------
(* Properties. *)

\* Every variable has its type.
TypeOK ==
    /\ conn \in 0..MaxPorts
    /\ status \in [Ports -> {"none", "up", "lost", "closed"}]
    /\ pc \in {"off", "authSend", "authRead", "top", "scan", "failed", "push", "reconnect",
              "onDisconnect", "check", "open", "onReconnect", "giveUp", "exited"}
    /\ starting \in BOOLEAN /\ reconnecting \in BOOLEAN
    /\ hand \in Line /\ last \in Line
    /\ recvCh \in Seq(Line) /\ Len(recvCh) <= RecvCap
    /\ errCh \in BOOLEAN /\ done \in BOOLEAN
    /\ closePc \in {"open", "closing", "closed"}
    /\ wire \in Seq(Line) /\ Len(wire) <= WireCap
    /\ asked \in BOOLEAN /\ lines \in 0..MaxLines
    /\ granted \subseteq Ports /\ written \subseteq Ports

\* What Receive returned last and what the reader has taken for it from the wire.
Taken == <<last>> \o recvCh \o (IF pc = "push" THEN <<hand>> ELSE <<>>)

\* That, and what Receive is to return, between log lines, if nothing more arrives.
Pending == Taken \o (IF pc = "exited" THEN <<>> ELSE wire)

\* b is the JSON line after a, or a log line that has none between a and itself; if they
\* are from different ports, b is a later one.
Follows(a, b) ==
    LET next == a.n + (IF b.kind \in Json THEN 1 ELSE 0)
    IN  next <= b.n /\ (a.port = b.port => b.n = next)

\* Lines leave Receive in the order the device sent them, and on one port none is missing
\* between two that arrive: not at a full channel, not behind the authentication, and not
\* across a reconnect, which leaves older lines in the channel.
NoLineSkipped == \A i \in 1..Len(Pending) - 1 : Follows(Pending[i], Pending[i + 1])

UsedPorts ==
    written \union {recvCh[i].port : i \in DOMAIN recvCh}
            \union (IF pc = "push" THEN {hand.port} ELSE {})

\* With a token no request is written to a port, and no line of a port reaches the
\* protocol, unless the token was accepted on that very port, or echoed, which
\* validateAuthResponse cannot tell apart: neither while Connect or reconnect waits for the
\* answer, nor after an earlier port was accepted.
AuthBeforeUse == Token => UsedPorts \subseteq granted

\* Line 318, "Close stops the background reader and closes the serial port": Close, once
\* called, returns, though Connect may hold mu, and the reader there is ends, whatever it
\* was waiting for. So it is on a port with read deadlines, and not on one without.
CloseStops == done ~> closePc = "closed" /\ (pc \in {"off", "exited"} \/ starting)

\* A lost port is given up, also by a reader that stands at a full channel.
LossIsNoticed ==
    \A k \in Ports : conn = k /\ status[k] = "lost" ~> conn # k \/ done

Link == INSTANCE SerialLink WITH
    requested <- written, last <- [port |-> last.port, n |-> last.n]

\* Receive and Send keep the promise of SerialLink, across every loss of the port: a line is
\* returned once, after all that were sent before it, and only a port opened anew makes a
\* gap; what is used has been authenticated.
ImplementsLink == Link!Spec
====
