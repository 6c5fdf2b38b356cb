---- MODULE WebSocketTransport ----
(***************************************************************************)
(* transport/websocket.go: one WebSocket used by the goroutine that        *)
(* receives, by goroutines that send, by the reconnect goroutines failed   *)
(* writes start, and by the goroutine that closes.  Whoever finds the      *)
(* connection broken enters reconnect; the flag reconnecting lets one in.  *)
(*                                                                         *)
(* A connection is a number and what is known of it is whether it is up.   *)
(* Sections under mu are single steps.  Every step outside mu (a read, a   *)
(* write, a callback, the sleep and the dial) is one of its own, so that   *)
(* the connection captured before it may be stale after it.                *)
(***************************************************************************)
EXTENDS Integers, FiniteSets

CONSTANTS
    Senders,   \* goroutines that call Send
    Spawned,   \* bound: reconnect goroutines of failed writes alive at a time
    Receiver,  \* the goroutine that calls Receive in a loop
    MaxConns   \* bound: connections dialled in all

ASSUME SettingsAssumption ==
    /\ Receiver \notin Spawned
    /\ MaxConns \in Nat \ {0}

VARIABLES
    conn,          \* WebSocket.conn; 0 is nil
    status,        \* status[k] of connection k: "none" before it is dialled
    reconnecting,  \* WebSocket.reconnecting
    done,          \* WebSocket.done is closed
    stopped,       \* the context of the receiving loop is cancelled (Protocol.Stop)
    closePc,       \* where Close is
    rxPc, rxConn,  \* where the receiver is, the connection it captured
    txPc, txConn,  \* the same for each sender
    job,           \* job[w]: where w is in reconnect
    delay,         \* delay[w]: reconnect's delay, in seconds
    fails,         \* fails[w]: dials that failed in this reconnect, up to 6
    fresh          \* fresh[w]: the connection w has dialled and not installed

rxVars == <<rxPc, rxConn>>
txVars == <<txPc, txConn>>
jobVars == <<job, delay, fails, fresh>>
closeVars == <<done, stopped, closePc>>
vars == <<conn, status, reconnecting, rxVars, txVars, jobVars, closeVars>>

Conns == 1..MaxConns
NoConn == 0
Workers == Spawned \union {Receiver}

\* Inside reconnect past its guard, with the flag not yet given back.
InLoop == {"onDisconnect", "check", "dial", "install"}

Init ==
    /\ conn = NoConn
    /\ status = [k \in Conns |-> "none"]
    /\ reconnecting = FALSE
    /\ done = FALSE /\ stopped = FALSE /\ closePc = "open"
    /\ rxPc = "off" /\ rxConn = NoConn
    /\ txPc = [s \in Senders |-> "idle"] /\ txConn = [s \in Senders |-> NoConn]
    /\ job = [w \in Workers |-> "idle"]
    /\ delay = [w \in Workers |-> 0]
    /\ fails = [w \in Workers |-> 0]
    /\ fresh = [w \in Workers |-> NoConn]

\* Dialling succeeds with a connection that was never used.
Dialled(k) ==
    /\ status[k] = "none"
    /\ \A j \in Conns : status[j] = "none" => k <= j
    /\ status' = [status EXCEPT ![k] = "up"]

\* Closing a connection, by Close or by the library on a cancelled context.
Closed(k) == IF status[k] = "up" THEN [status EXCEPT ![k] = "closed"] ELSE status

-----------------------------------------------------------------------------
\* Connect, for the first time or again after a dial that failed; the receiving
\* loop starts when it succeeds.
Connect ==
    /\ conn = NoConn /\ ~stopped
    /\ \E k \in Conns : Dialled(k) /\ conn' = k
    /\ rxPc' = "top"
    /\ UNCHANGED <<reconnecting, rxConn, txVars, jobVars, closeVars>>

(* Receive, called in a loop until the loop is stopped. *)

RxCapture ==
    /\ rxPc = "top"
    /\ IF stopped
       THEN rxPc' = "exited" /\ UNCHANGED rxConn
       ELSE rxPc' = "read" /\ rxConn' = conn
    /\ UNCHANGED <<conn, status, reconnecting, txVars, jobVars, closeVars>>

RxMessage ==
    /\ rxPc = "read"
    /\ status[rxConn] = "up"
    /\ rxPc' = "top" /\ rxConn' = NoConn
    /\ UNCHANGED <<conn, status, reconnecting, txVars, jobVars, closeVars>>

\* The connection is broken or closed, or the context ends, which closes it.
RxReadFails ==
    /\ rxPc = "read"
    /\ status[rxConn] # "up" \/ stopped
    /\ status' = Closed(rxConn)
    /\ rxPc' = "failed"
    /\ UNCHANGED <<conn, reconnecting, rxConn, txVars, jobVars, closeVars>>

\* The checks of done and of the context; otherwise the receiver reconnects.
RxFailed ==
    /\ rxPc = "failed"
    /\ rxConn' = NoConn
    /\ IF done \/ stopped
       THEN rxPc' = "top" /\ UNCHANGED job
       ELSE rxPc' = "reconnect" /\ job' = [job EXCEPT ![Receiver] = "enter"]
    /\ UNCHANGED <<conn, status, reconnecting, txVars, delay, fails, fresh, closeVars>>

(* Send.  It returns at once when a reconnect is going on or conn is nil. *)

TxCapture(s) ==
    /\ txPc[s] = "idle"
    /\ ~reconnecting
    /\ conn # NoConn
    /\ txPc' = [txPc EXCEPT ![s] = "write"]
    /\ txConn' = [txConn EXCEPT ![s] = conn]
    /\ UNCHANGED <<conn, status, reconnecting, rxVars, jobVars, closeVars>>

TxReturns(s) ==
    /\ txPc' = [txPc EXCEPT ![s] = "idle"]
    /\ txConn' = [txConn EXCEPT ![s] = NoConn]

\* The write succeeds, which on a broken connection only means it was buffered.
TxWritten(s) ==
    /\ txPc[s] = "write"
    /\ status[txConn[s]] # "closed"
    /\ TxReturns(s)
    /\ UNCHANGED <<conn, status, reconnecting, rxVars, jobVars, closeVars>>

\* It fails because the connection is broken or closed: a goroutine reconnects.
TxBroken(s) ==
    /\ txPc[s] = "write"
    /\ status[txConn[s]] # "up"
    /\ \E w \in Spawned : job[w] = "idle" /\ job' = [job EXCEPT ![w] = "enter"]
    /\ TxReturns(s)
    /\ UNCHANGED <<conn, status, reconnecting, rxVars, delay, fails, fresh, closeVars>>

\* It fails because the context of the call ends, which closes the connection.
TxCancelled(s) ==
    /\ txPc[s] = "write"
    /\ status' = Closed(txConn[s])
    /\ TxReturns(s)
    /\ UNCHANGED <<conn, reconnecting, rxVars, jobVars, closeVars>>

(* reconnect, run by the receiver or by a goroutine of its own. *)

JobAt(w, label) == job' = [job EXCEPT ![w] = label]

\* reconnect returns: a goroutine ends, the receiver's Receive returns.
JobReturns(w) ==
    /\ JobAt(w, "idle")
    /\ delay' = [delay EXCEPT ![w] = 0]
    /\ fails' = [fails EXCEPT ![w] = 0]
    /\ fresh' = [fresh EXCEPT ![w] = NoConn]
    /\ rxPc' = IF w = Receiver THEN "top" ELSE rxPc
    /\ UNCHANGED rxConn

\* Mutant: the flag is set but not looked at.
UnguardedEnter(w) ==
    /\ job[w] = "enter"
    /\ reconnecting' = TRUE
    /\ JobAt(w, "onDisconnect")
    /\ delay' = [delay EXCEPT ![w] = 1]
    /\ UNCHANGED <<conn, status, rxVars, txVars, fails, fresh, closeVars>>

\* The guard: nil when another goroutine is at it, else the flag is taken.
Enter(w) ==
    /\ job[w] = "enter"
    /\ IF reconnecting
       THEN JobReturns(w) /\ UNCHANGED reconnecting
       ELSE /\ reconnecting' = TRUE
            /\ JobAt(w, "onDisconnect")
            /\ delay' = [delay EXCEPT ![w] = 1]
            /\ UNCHANGED <<rxVars, fails, fresh>>
    /\ UNCHANGED <<conn, status, txVars, closeVars>>

OnDisconnect(w) ==
    /\ job[w] = "onDisconnect"
    /\ JobAt(w, "check")
    /\ UNCHANGED <<conn, status, reconnecting, rxVars, txVars, delay, fails, fresh, closeVars>>

\* Mutant: the loop does not look at done.
BlindCheck(w) ==
    /\ job[w] = "check"
    /\ JobAt(w, "dial")
    /\ UNCHANGED <<conn, status, reconnecting, rxVars, txVars, delay, fails, fresh, closeVars>>

\* The only look at done, at the top of the loop.
CheckDone(w) ==
    /\ job[w] = "check"
    /\ IF done
       THEN JobReturns(w) /\ reconnecting' = FALSE
       ELSE JobAt(w, "dial") /\ UNCHANGED <<reconnecting, rxVars, delay, fails, fresh>>
    /\ UNCHANGED <<conn, status, txVars, closeVars>>

\* Mutant: the cap is compared with the delay before it is doubled.
LateCap(w) ==
    /\ job[w] = "dial"
    /\ delay' = [delay EXCEPT ![w] = IF @ > 30 THEN 30 ELSE 2 * @]
    /\ fails' = [fails EXCEPT ![w] = IF @ = 6 THEN 6 ELSE @ + 1]
    /\ JobAt(w, "check")
    /\ UNCHANGED <<conn, status, reconnecting, rxVars, txVars, fresh, closeVars>>

\* The sleep and the dial.
DialFails(w) ==
    /\ job[w] = "dial"
    /\ delay' = [delay EXCEPT ![w] = IF 2 * @ > 30 THEN 30 ELSE 2 * @]
    /\ fails' = [fails EXCEPT ![w] = IF @ = 6 THEN 6 ELSE @ + 1]
    /\ JobAt(w, "check")
    /\ UNCHANGED <<conn, status, reconnecting, rxVars, txVars, fresh, closeVars>>

DialSucceeds(w) ==
    /\ job[w] = "dial"
    /\ \E k \in Conns : Dialled(k) /\ fresh' = [fresh EXCEPT ![w] = k]
    /\ JobAt(w, "install")
    /\ UNCHANGED <<conn, reconnecting, rxVars, txVars, delay, fails, closeVars>>

\* Mutant: the flag is not given back.
InstallHoldsFlag(w) ==
    /\ job[w] = "install"
    /\ conn' = fresh[w]
    /\ JobAt(w, "onReconnect")
    /\ UNCHANGED <<status, reconnecting, rxVars, txVars, delay, fails, fresh, closeVars>>

\* conn is replaced, the one it held is forgotten, and the flag is given back
\* before OnReconnect runs.
Install(w) ==
    /\ job[w] = "install"
    /\ conn' = fresh[w]
    /\ reconnecting' = FALSE
    /\ JobAt(w, "onReconnect")
    /\ UNCHANGED <<status, rxVars, txVars, delay, fails, fresh, closeVars>>

OnReconnect(w) ==
    /\ job[w] = "onReconnect"
    /\ JobReturns(w)
    /\ UNCHANGED <<conn, status, reconnecting, txVars, closeVars>>

(* Close, after Client.Close has stopped the protocol. *)

StopLoop ==
    /\ ~stopped
    /\ stopped' = TRUE
    /\ UNCHANGED <<conn, status, reconnecting, rxVars, txVars, jobVars, done, closePc>>

CloseDone ==
    /\ stopped /\ closePc = "open"
    /\ done' = TRUE
    /\ closePc' = "closing"
    /\ UNCHANGED <<conn, status, reconnecting, rxVars, txVars, jobVars, stopped>>

CloseConn ==
    /\ closePc = "closing"
    /\ status' = IF conn = NoConn THEN status ELSE Closed(conn)
    /\ closePc' = "closed"
    /\ UNCHANGED <<conn, reconnecting, rxVars, txVars, jobVars, done, stopped>>

\* The network or the server breaks a connection.
Drop(k) ==
    /\ status[k] = "up"
    /\ status' = [status EXCEPT ![k] = "down"]
    /\ UNCHANGED <<conn, reconnecting, rxVars, txVars, jobVars, closeVars>>

-----------------------------------------------------------------------------
RxLocal == RxCapture \/ RxReadFails \/ RxFailed

Tx(s) == TxWritten(s) \/ TxBroken(s) \/ TxCancelled(s)

Reconnect(w) ==
    \/ Enter(w) \/ OnDisconnect(w) \/ CheckDone(w)
    \/ DialFails(w) \/ DialSucceeds(w) \/ Install(w) \/ OnReconnect(w)

Close == CloseDone \/ CloseConn

Next ==
    \/ Connect
    \/ RxLocal \/ RxMessage
    \/ \E s \in Senders : TxCapture(s) \/ Tx(s)
    \/ \E w \in Workers : Reconnect(w)
    \/ StopLoop \/ Close
    \/ \E k \in Conns : Drop(k)

Spec == Init /\ [][Next]_vars

\* Goroutines run; a dial returns (it has a timeout of 10 s) and, if it is tried
\* again and again, succeeds while the bound on connections allows it; Close, once
\* the protocol is stopped, is called and returns.  No write has to end and no
\* connection to break or to carry a message.
Fairness ==
    /\ WF_vars(RxLocal)
    /\ \A w \in Workers : WF_vars(Reconnect(w)) /\ SF_vars(DialSucceeds(w))
    /\ WF_vars(Close)

FairSpec == Spec /\ Fairness

-----------------------------------------------------------------------------
(* Properties. *)

\* Every variable has its type.
TypeOK ==
    /\ conn \in 0..MaxConns
    /\ status \in [Conns -> {"none", "up", "down", "closed"}]
    /\ reconnecting \in BOOLEAN /\ done \in BOOLEAN /\ stopped \in BOOLEAN
    /\ closePc \in {"open", "closing", "closed"}
    /\ rxPc \in {"off", "top", "read", "failed", "reconnect", "exited"}
    /\ rxConn \in 0..MaxConns
    /\ txPc \in [Senders -> {"idle", "write"}] /\ txConn \in [Senders -> 0..MaxConns]
    /\ job \in [Workers -> {"idle", "enter", "onReconnect"} \union InLoop]
    /\ delay \in [Workers -> 0..30]
    /\ fails \in [Workers -> 0..6]
    /\ fresh \in [Workers -> 0..MaxConns]

\* Lines 151-156: however many goroutines find the connection broken, one at a time
\* is past the guard of reconnect, and the flag is set exactly while one is.
OneReconnector ==
    /\ \A v, w \in Workers : job[v] \in InLoop /\ job[w] \in InLoop => v = w
    /\ reconnecting <=> \E w \in Workers : job[w] \in InLoop

\* Line 149: the delays are 1, 2, 4, 8, 16 seconds and from then on 30.
BackoffSchedule ==
    \A w \in Workers :
        job[w] \in InLoop => delay[w] = <<1, 2, 4, 8, 16, 30, 30>>[fails[w] + 1]

\* Lines 183-195: conn is never replaced by an older connection, nor by one that was
\* not dialled: what a reconnect installs is newer than what it found.
ConnOnlyGetsNewer ==
    [][conn' # conn => conn < conn' /\ status'[conn'] # "none"]_vars

\* Lines 168-175 and 214-226: after Close, every goroutine in reconnect gets out of it
\* and the receiving loop ends, whatever they were doing when it was called and
\* however many sends come after it.
CloseEndsAll ==
    /\ done ~> rxPc \in {"off", "exited"}
    /\ \A w \in Workers : done ~> job[w] = "idle"

\* Lines 167-201: a reconnect ends with a connection if dialling can succeed at all.
ReconnectEnds ==
    reconnecting ~> (~reconnecting \/ \A k \in Conns : status[k] # "none")

Dialling == {"dial", "install"}

\* Lines 167-187: done is looked at before a dial and not after it, so Close lets a
\* dial that has begun put its connection into conn, where it stays open, although
\* line 149 says of reconnect that it stops. That one is the last: nobody begins to
\* dial once done is closed, and when conn is replaced nobody else is at it.
LastInstall ==
    [][done => /\ \A w \in Workers : job'[w] \in Dialling => job[w] \in Dialling
               /\ conn' # conn => \A w \in Workers : job'[w] \notin Dialling]_vars

\* The comment of OnDisconnect (line 41), "called (if non-nil) when the connection is
\* lost unexpectedly": when it is called, the current connection is not up.
OnDisconnectMeansLost ==
    \A w \in Workers : job[w] = "onDisconnect" => status[conn] # "up"
====
