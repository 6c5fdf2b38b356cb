---- MODULE SerialLink ----
(***************************************************************************)
(* What transport/serial.go promises to the protocol above it, without     *)
(* reader goroutine, channel, scanner or flags: lines of the device come   *)
(* in the order of their sending, each at most once, and there is a gap    *)
(* only where the port has been opened anew; with a token, a port is read  *)
(* and written only if the token was accepted on it.  SerialTransport      *)
(* implements this specification.                                          *)
(***************************************************************************)
EXTENDS Integers

CONSTANTS
    Token,  \* whether an authentication token is configured
    Ports   \* what the port is each time that it is opened

VARIABLES
    lines,      \* number of JSON lines the device has sent
    granted,    \* ports on which the token was accepted, or echoed
    requested,  \* ports a request was written to
    last        \* port and number of the line Receive returned last

vars == <<lines, granted, requested, last>>

NoPort == 0

Init ==
    /\ lines = 0 /\ granted = {} /\ requested = {}
    /\ last = [port |-> NoPort, n |-> 0]

Usable(k) == Token => k \in granted

\* A line of the device, which may be the answer to the token on port k.
Speak(k) ==
    /\ lines' = lines + 1
    /\ granted' \in {granted, granted \union {k}}
    /\ UNCHANGED <<requested, last>>

Request(k) ==
    /\ Usable(k)
    /\ requested' = requested \union {k}
    /\ UNCHANGED <<lines, granted, last>>

\* Receive returns line n, of port k.
Deliver(k, n) ==
    /\ Usable(k)
    /\ last.n < n
    /\ k = last.port => n = last.n + 1
    /\ last' = [port |-> k, n |-> n]
    /\ UNCHANGED <<lines, granted, requested>>

Next ==
    \/ \E k \in Ports : Speak(k) \/ Request(k)
    \/ \E k \in Ports, n \in 1..lines : Deliver(k, n)

Spec == Init /\ [][Next]_vars
====
