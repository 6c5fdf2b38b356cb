---- MODULE SerialTransportProofs ----
(***************************************************************************)
(* Proofs about SerialTransport, for every capacity and every number of    *)
(* ports and lines: type correctness; that with a token nothing is written *)
(* to or received from a port on which the token was not granted; that     *)
(* lines leave Receive in order, none skipped on one port; and that the    *)
(* transport implements SerialLink.                                        *)
(***************************************************************************)
EXTENDS SerialTransport, TLAPS

-----------------------------------------------------------------------------
(* Types. *)

Places ==
    {"off", "authSend", "authRead", "top", "scan", "failed", "push", "reconnect",
     "onDisconnect", "check", "open", "onReconnect", "giveUp", "exited"}

\* What is read from the front or written to the end of a bounded channel of lines.
LEMMA Channel ==
    ASSUME NEW ch \in Seq(Line), NEW cap \in Nat, Len(ch) <= cap
    PROVE  /\ ch # <<>> => /\ Head(ch) \in Line
                           /\ Tail(ch) \in Seq(Line) /\ Len(Tail(ch)) <= cap
           /\ \A m \in Line : Len(ch) < cap =>
                  Append(ch, m) \in Seq(Line) /\ Len(Append(ch, m)) <= cap
<1>1. ch # <<>> => Head(ch) \in Line /\ Tail(ch) \in Seq(Line) /\ Len(Tail(ch)) = Len(ch) - 1
    OBVIOUS
<1>2. \A m \in Line : Append(ch, m) \in Seq(Line) /\ Len(Append(ch, m)) = Len(ch) + 1
    OBVIOUS
<1> QED
    BY <1>1, <1>2

LEMMA EmptyChannel ==
    ASSUME NEW ch, ch = <<>>, NEW cap \in Nat
    PROVE  ch \in Seq(Line) /\ Len(ch) <= cap
OBVIOUS

LEMMA NoLineIsLine == NoLine \in Line
<1>1. NoPort \in 0..MaxPorts /\ 0 \in 0..MaxLines
    BY BoundsAssumption DEF NoPort
<1> QED
    BY <1>1 DEF NoLine, Line, Json

LEMMA TypeInit == Init => TypeOK
<1> SUFFICES ASSUME Init PROVE TypeOK
    OBVIOUS
<1>1. 0 \in 0..MaxPorts /\ 0 \in 0..MaxLines
    BY BoundsAssumption
<1>2. /\ recvCh \in Seq(Line) /\ Len(recvCh) <= RecvCap
      /\ wire \in Seq(Line) /\ Len(wire) <= WireCap
    BY EmptyChannel, BoundsAssumption DEF Init
<1> QED
    BY <1>1, <1>2, NoLineIsLine, BoundsAssumption DEF Init, TypeOK, NoPort

\* The states of ports are states of ports after any of the changes made to them.
LEMMA PortTypes ==
    ASSUME TypeOK
    PROVE  /\ Closed \in [Ports -> {"none", "up", "lost", "closed"}]
           /\ \A k \in Ports : \A v \in {"none", "up", "lost", "closed"} :
                  [status EXCEPT ![k] = v] \in [Ports -> {"none", "up", "lost", "closed"}]
BY DEF TypeOK, Closed

LEMMA OpenedTypes ==
    ASSUME TypeOK, \E k \in Ports : Opens(k)
    PROVE  /\ conn' \in 0..MaxPorts
           /\ status' \in [Ports -> {"none", "up", "lost", "closed"}]
           /\ wire' \in Seq(Line) /\ Len(wire') <= WireCap
           /\ asked' \in BOOLEAN
<1>1. PICK k \in Ports : Opens(k)
    OBVIOUS
<1>2. wire' \in Seq(Line) /\ Len(wire') <= WireCap
    BY <1>1, EmptyChannel, BoundsAssumption DEF Opens
<1>3. conn' \in 0..MaxPorts
    BY <1>1, BoundsAssumption DEF Opens, Ports
<1>4. status' \in [Ports -> {"none", "up", "lost", "closed"}] /\ asked' \in BOOLEAN
    BY <1>1, PortTypes DEF Opens
<1> QED
    BY <1>2, <1>3, <1>4

LEMMA TypeAuthenticate == TypeOK /\ (Connect \/ Authenticate) => TypeOK'
<1> SUFFICES ASSUME TypeOK PROVE Connect \/ Authenticate => TypeOK'
    OBVIOUS
<1> USE BoundsAssumption
<1>1. ASSUME AuthGivesUp PROVE TypeOK'
  <2>1. wire' \in Seq(Line) /\ Len(wire') <= WireCap
    BY <1>1, EmptyChannel DEF AuthGivesUp
  <2>2. status' \in [Ports -> {"none", "up", "lost", "closed"}] /\ conn' \in 0..MaxPorts
    BY <1>1, PortTypes DEF AuthGivesUp, NoPort
  <2>3. pc' \in Places /\ starting' \in BOOLEAN /\ asked' \in BOOLEAN
    BY <1>1 DEF AuthGivesUp, Places
  <2>4. UNCHANGED <<reconnecting, hand, chanVars, closeVars, lines, granted, histVars>>
    BY <1>1 DEF AuthGivesUp
  <2> QED
    BY <2>1, <2>2, <2>3, <2>4 DEF TypeOK, Places, chanVars, closeVars, histVars
<1>2. CASE Connect
  <2>1. \E k \in Ports : Opens(k)
    BY <1>2 DEF Connect
  <2> QED
    BY <1>2, <2>1, OpenedTypes DEF TypeOK, Connect, chanVars, closeVars, histVars
<1>3. CASE AuthSend
    BY <1>3 DEF TypeOK, AuthSend, portVars, chanVars, closeVars, histVars
<1>4. CASE AuthSkips
    BY <1>4, Channel DEF TypeOK, AuthSkips, portVars, chanVars, closeVars, histVars
<1>5. CASE AuthAccepts
    BY <1>5, Channel DEF TypeOK, AuthAccepts, AuthPasses, portVars, chanVars, closeVars, histVars
<1>6. CASE AuthSendFails \/ AuthRefuses \/ AuthReadFails
    BY <1>1, <1>6 DEF AuthSendFails, AuthRefuses, AuthReadFails
<1> QED
    BY <1>2, <1>3, <1>4, <1>5, <1>6 DEF Authenticate

LEMMA TypeReader == TypeOK /\ Reader => TypeOK'
<1> SUFFICES ASSUME TypeOK PROVE Reader => TypeOK'
    OBVIOUS
<1> USE BoundsAssumption
<1>1. ASSUME NEW label \in Places, ReaderAt(label),
             UNCHANGED <<portVars, reconnecting, hand, chanVars, wire>>
      PROVE  TypeOK'
    BY <1>1 DEF TypeOK, Places, ReaderAt, portVars, chanVars, closeVars, histVars
<1>2. CASE ReaderCheckDone
    BY <1>1, <1>2 DEF ReaderCheckDone, Places
<1>3. CASE Scan
    BY <1>3, Channel DEF TypeOK, Scan, ReaderAt, portVars, chanVars, closeVars, histVars
<1>4. CASE ScanFails
    BY <1>1, <1>4 DEF ScanFails, Places
<1>5. CASE FailedDone
    BY <1>1, <1>5 DEF FailedDone, Places
<1>6. CASE FailedEof
    BY <1>1, <1>6 DEF FailedEof, Places
<1>7. CASE FailedError
    BY <1>1, <1>7 DEF FailedError, Places
<1>8. CASE Push
    BY <1>8, Channel, NoLineIsLine DEF TypeOK, Push, ReaderAt, portVars, closeVars, histVars
<1>9. CASE PushDone
    BY <1>9, NoLineIsLine DEF TypeOK, PushDone, ReaderAt, portVars, chanVars, closeVars, histVars
<1> QED
    BY <1>2, <1>3, <1>4, <1>5, <1>6, <1>7, <1>8, <1>9 DEF Reader

LEMMA TypeReconnect == TypeOK /\ Reconnect => TypeOK'
<1> SUFFICES ASSUME TypeOK PROVE Reconnect => TypeOK'
    OBVIOUS
<1> USE BoundsAssumption
<1>1. CASE Enter
  <2>1. wire' \in Seq(Line) /\ Len(wire') <= WireCap
    BY <1>1, EmptyChannel DEF Enter
  <2> QED
    BY <1>1, <2>1, PortTypes
    DEF TypeOK, Enter, ReaderAt, NoPort, chanVars, closeVars, histVars
<1>2. CASE Callback
    BY <1>2 DEF TypeOK, Callback, ReaderAt, portVars, chanVars, closeVars, histVars
<1>3. CASE CheckDone
    BY <1>3 DEF TypeOK, CheckDone, ReaderAt, portVars, chanVars, closeVars, histVars
<1>4. CASE OpenFails
    BY <1>4 DEF TypeOK, OpenFails, ReaderAt, portVars, chanVars, closeVars, histVars
<1>5. CASE OpenSucceeds
  <2>1. \E k \in Ports : Opens(k)
    BY <1>5 DEF OpenSucceeds
  <2> QED
    BY <1>5, <2>1, OpenedTypes DEF TypeOK, OpenSucceeds, chanVars, closeVars, histVars
<1>6. CASE GiveUp
    BY <1>6 DEF TypeOK, GiveUp, ReaderAt, portVars, closeVars, histVars
<1> QED
    BY <1>1, <1>2, <1>3, <1>4, <1>5, <1>6 DEF Reconnect

LEMMA TypeOthers == TypeOK /\ (Send \/ Receive \/ Close) => TypeOK'
<1> SUFFICES ASSUME TypeOK PROVE Send \/ Receive \/ Close => TypeOK'
    OBVIOUS
<1> USE BoundsAssumption
<1>1. CASE Send
    BY <1>1 DEF TypeOK, Send, Ports, NoPort, portVars, chanVars, closeVars, deviceVars
<1>2. CASE ReceiveLine
    BY <1>2, Channel DEF TypeOK, ReceiveLine, portVars, closeVars, deviceVars
<1>3. CASE ReceiveError
    BY <1>3 DEF TypeOK, ReceiveError, portVars, closeVars, deviceVars, histVars
<1>4. CASE CloseDone
    BY <1>4 DEF TypeOK, CloseDone, portVars, chanVars, deviceVars, histVars
<1>5. CASE CloseConn
    BY <1>5, PortTypes DEF TypeOK, CloseConn, chanVars, deviceVars, histVars
<1> QED
    BY <1>1, <1>2, <1>3, <1>4, <1>5 DEF Receive, Close

\* What Transmit leaves behind is a line on the wire.
LEMMA TypeDevice == TypeOK /\ Device => TypeOK'
<1> SUFFICES ASSUME TypeOK PROVE Device => TypeOK'
    OBVIOUS
<1> USE BoundsAssumption
<1>1. ASSUME NEW kind \in Json \union {"log"}, NEW n \in 0..MaxLines, Transmit(kind, n)
      PROVE  wire' \in Seq(Line) /\ Len(wire') <= WireCap /\ lines' = n /\ conn \in Ports
  <2>1. conn \in Ports
    BY <1>1 DEF TypeOK, Transmit, NoPort, Ports
  <2>2. [port |-> conn, n |-> n, kind |-> kind] \in Line
    BY <2>1 DEF Line, Ports
  <2> QED
    BY <1>1, <2>1, <2>2, Channel DEF TypeOK, Transmit
<1>2. CASE Logs
  <2>1. Transmit("log", lines) /\ lines \in 0..MaxLines
    BY <1>2 DEF Logs, TypeOK
  <2>2. wire' \in Seq(Line) /\ Len(wire') <= WireCap /\ lines' = lines
    BY <1>1, <2>1
  <2> QED
    BY <1>2, <2>2 DEF TypeOK, Logs, Transmit, portVars, chanVars, closeVars, histVars
<1>3. ASSUME NEW kind \in Json, Speaks(kind) PROVE TypeOK'
  <2>1. Transmit(kind, lines + 1) /\ lines + 1 \in 0..MaxLines
    BY <1>3 DEF Speaks, TypeOK
  <2>2. wire' \in Seq(Line) /\ Len(wire') <= WireCap /\ lines' = lines + 1 /\ conn \in Ports
    BY <1>1, <2>1
  <2>3. asked' \in BOOLEAN /\ granted' \subseteq Ports
    BY <1>3, <2>2 DEF TypeOK, Speaks
  <2> QED
    BY <2>1, <2>2, <2>3 DEF TypeOK, Transmit, portVars, chanVars, closeVars, histVars
<1>4. CASE Lost
  <2>1. conn \in Ports
    BY <1>4 DEF TypeOK, Lost, NoPort, Ports
  <2>2. wire' \in Seq(Line) /\ Len(wire') <= WireCap
    BY <1>4, EmptyChannel DEF TypeOK, Lost
  <2> QED
    BY <1>4, <2>1, <2>2, PortTypes DEF TypeOK, Lost, chanVars, closeVars, histVars
<1> QED
    BY <1>2, <1>3, <1>4 DEF Device

\* Every reachable state of the serial transport is well typed; in particular recvCh never
\* exceeds its capacity, whatever the device sends and however slow Receive is.
THEOREM SerialTypes == Spec => []TypeOK
<1>1. Init => TypeOK
    BY TypeInit
<1>2. TypeOK /\ [Next]_vars => TypeOK'
  <2> SUFFICES ASSUME TypeOK, [Next]_vars PROVE TypeOK'
    OBVIOUS
  <2>1. CASE Next
    BY <2>1, TypeAuthenticate, TypeReader, TypeReconnect, TypeOthers, TypeDevice DEF Next
  <2>2. CASE UNCHANGED vars
    BY <2>2 DEF TypeOK, vars, portVars, chanVars, closeVars, deviceVars, histVars
  <2> QED
    BY <2>1, <2>2
<1> QED
    BY <1>1, <1>2, PTL DEF Spec

-----------------------------------------------------------------------------
(* Authentication before use. *)

Authenticating == {"authSend", "authRead"}

\* Connect holds mu while it authenticates, and reconnect holds the flag from its entry
\* until authenticate has returned.
FlagsCover ==
    /\ starting => pc \in Authenticating
    /\ pc \in Authenticating => starting \/ reconnecting
    /\ pc \in {"onDisconnect", "check", "open"} => reconnecting

\* What can be read comes from the port there is, and a line that validateAuthResponse
\* takes for an acceptance means the token was granted on it.
WireFromPort ==
    \A i \in DOMAIN wire :
        /\ wire[i].port = conn /\ conn # NoPort
        /\ ValidAuth(wire[i]) => conn \in granted

\* Away from authenticate, the port there is has been granted.
InstalledIsGranted == conn # NoPort /\ pc \notin Authenticating => conn \in granted

AuthInv == FlagsCover /\ WireFromPort /\ InstalledIsGranted /\ UsedPorts \subseteq granted

LEMMA AuthInit == Init => AuthInv
BY DEF Init, AuthInv, FlagsCover, WireFromPort, InstalledIsGranted, UsedPorts, Authenticating,
       NoPort

\* WireFromPort survives reading from the wire.
LEMMA WireShrinks ==
    ASSUME TypeOK, WireFromPort, conn' = conn, granted' = granted,
           wire' = wire \/ wire' = <<>> \/ (wire # <<>> /\ wire' = Tail(wire))
    PROVE  WireFromPort'
<1>1. CASE wire' = wire
    BY <1>1 DEF WireFromPort, ValidAuth
<1>2. CASE wire' = <<>>
    BY <1>2 DEF WireFromPort
<1>3. CASE wire # <<>> /\ wire' = Tail(wire)
  <2>1. \A i \in DOMAIN wire' : i + 1 \in DOMAIN wire /\ wire'[i] = wire[i + 1]
    BY <1>3 DEF TypeOK
  <2> QED
    BY <2>1 DEF WireFromPort, ValidAuth
<1> QED
    BY <1>1, <1>2, <1>3

\* UsedPorts stays inside granted when none of what it is made of grows.
LEMMA UsedStays ==
    ASSUME UsedPorts \subseteq granted, granted \subseteq granted',
           written' = written, recvCh' = recvCh, pc' # "push" \/ UNCHANGED <<pc, hand>>
    PROVE  UsedPorts' \subseteq granted'
BY DEF UsedPorts

\* A port just opened has nothing to read.
LEMMA OpenedWire ==
    ASSUME \E k \in Ports : Opens(k)
    PROVE  WireFromPort' /\ conn' # NoPort
BY BoundsAssumption DEF Opens, WireFromPort, Ports, NoPort

LEMMA AuthAuthenticate ==
    ASSUME Token, TypeOK, AuthInv, Connect \/ Authenticate
    PROVE  AuthInv'
<1> USE DEF AuthInv
<1>1. ASSUME AuthGivesUp, pc \in Authenticating PROVE AuthInv'
  <2>1. FlagsCover'
    BY <1>1 DEF AuthGivesUp, FlagsCover, Authenticating
  <2>2. WireFromPort'
    BY <1>1 DEF AuthGivesUp, WireFromPort
  <2>3. InstalledIsGranted'
    BY <1>1 DEF AuthGivesUp, InstalledIsGranted
  <2>4. UsedPorts' \subseteq granted'
    BY <1>1, UsedStays DEF AuthGivesUp, chanVars, histVars
  <2> QED
    BY <2>1, <2>2, <2>3, <2>4
<1>2. CASE Connect
  <2>1. FlagsCover' /\ InstalledIsGranted'
    BY <1>2 DEF Connect, FlagsCover, InstalledIsGranted, Authenticating
  <2>2. WireFromPort'
    BY <1>2, OpenedWire DEF Connect
  <2>3. UsedPorts' \subseteq granted'
    BY <1>2, UsedStays DEF Connect, chanVars, histVars
  <2> QED
    BY <2>1, <2>2, <2>3
<1>3. CASE AuthSend
  <2>1. FlagsCover' /\ InstalledIsGranted'
    BY <1>3 DEF AuthSend, FlagsCover, InstalledIsGranted, Authenticating
  <2>2. WireFromPort'
    BY <1>3, WireShrinks DEF AuthSend, portVars
  <2>3. UsedPorts' \subseteq granted'
    BY <1>3, UsedStays DEF AuthSend, chanVars, histVars
  <2> QED
    BY <2>1, <2>2, <2>3
<1>4. CASE AuthSkips
  <2>1. FlagsCover' /\ InstalledIsGranted'
    BY <1>4 DEF AuthSkips, FlagsCover, InstalledIsGranted, portVars
  <2>2. WireFromPort'
    BY <1>4, WireShrinks DEF AuthSkips, portVars
  <2>3. UsedPorts' \subseteq granted'
    BY <1>4, UsedStays DEF AuthSkips, chanVars, histVars
  <2> QED
    BY <2>1, <2>2, <2>3
<1>5. CASE AuthAccepts
  <2>1. conn \in granted
    <3>1. 1 \in DOMAIN wire /\ Head(wire) = wire[1]
      BY <1>5 DEF AuthAccepts, TypeOK
    <3> QED
      BY <1>5, <3>1 DEF AuthAccepts, WireFromPort
  <2>2. FlagsCover' /\ InstalledIsGranted'
    BY <1>5, <2>1 DEF AuthAccepts, AuthPasses, FlagsCover, InstalledIsGranted, Authenticating,
                      portVars
  <2>3. WireFromPort'
    BY <1>5, WireShrinks DEF AuthAccepts, AuthPasses, portVars
  <2>4. UsedPorts' \subseteq granted'
    BY <1>5, UsedStays DEF AuthAccepts, AuthPasses, chanVars, histVars
  <2> QED
    BY <2>2, <2>3, <2>4
<1>6. CASE AuthSendFails \/ AuthRefuses \/ AuthReadFails
    BY <1>1, <1>6 DEF AuthSendFails, AuthRefuses, AuthReadFails, Authenticating
<1> QED
    BY <1>2, <1>3, <1>4, <1>5, <1>6 DEF Authenticate

\* The reader is never in authenticate.
LEMMA AuthReader ==
    ASSUME TypeOK, AuthInv, Reader
    PROVE  AuthInv'
<1> USE DEF AuthInv
<1>1. /\ pc \in {"top", "scan", "failed", "push"}
      /\ pc' \in {"top", "scan", "failed", "push", "reconnect", "exited"}
      /\ UNCHANGED <<portVars, starting, reconnecting, granted, written>>
    BY DEF Reader, ReaderCheckDone, Scan, ScanFails, FailedDone, FailedEof, FailedError, Push,
           PushDone, ReaderAt, histVars
<1>2. FlagsCover' /\ InstalledIsGranted'
    BY <1>1 DEF FlagsCover, InstalledIsGranted, Authenticating, portVars
<1>3. WireFromPort'
  <2>1. wire' = wire \/ (wire # <<>> /\ wire' = Tail(wire))
    BY DEF Reader, ReaderCheckDone, Scan, ScanFails, FailedDone, FailedEof, FailedError, Push,
           PushDone
  <2> QED
    BY <1>1, <2>1, WireShrinks DEF portVars
<1>4. UsedPorts' \subseteq granted'
  <2>1. CASE Scan
    <3>1. 1 \in DOMAIN wire /\ Head(wire) = wire[1]
      BY <2>1 DEF Scan, TypeOK
    <3>2. Head(wire).port \in granted
      BY <2>1, <3>1 DEF Scan, WireFromPort, InstalledIsGranted, Authenticating
    <3>3. recvCh' = recvCh /\ (pc' = "push" => hand' = Head(wire))
      BY <2>1 DEF Scan, ReaderAt, chanVars
    <3> QED
      BY <1>1, <3>2, <3>3 DEF UsedPorts
  <2>2. CASE Push
    <3>1. /\ recvCh' = Append(recvCh, hand) /\ recvCh \in Seq(Line) /\ hand \in Line
          /\ hand.port \in granted /\ pc' # "push"
      BY <2>2 DEF Push, ReaderAt, TypeOK, UsedPorts
    <3>2. \A i \in DOMAIN recvCh' : recvCh'[i] = hand \/ (\E j \in DOMAIN recvCh : recvCh'[i] = recvCh[j])
      BY <3>1
    <3> QED
      BY <1>1, <3>1, <3>2 DEF UsedPorts
  <2>3. CASE ~Scan /\ ~Push
    <3>1. recvCh' = recvCh /\ pc' # "push"
      BY <2>3 DEF Reader, ReaderCheckDone, ScanFails, FailedDone, FailedEof, FailedError,
                  PushDone, ReaderAt, chanVars
    <3> QED
      BY <1>1, <3>1, UsedStays
  <2> QED
    BY <2>1, <2>2, <2>3
<1> QED
    BY <1>2, <1>3, <1>4

LEMMA AuthReconnect ==
    ASSUME Token, TypeOK, AuthInv, Reconnect
    PROVE  AuthInv'
<1> USE DEF AuthInv
<1>1. CASE Enter
  <2>1. FlagsCover' /\ InstalledIsGranted' /\ WireFromPort'
    BY <1>1 DEF Enter, ReaderAt, FlagsCover, InstalledIsGranted, WireFromPort, Authenticating
  <2>2. UsedPorts' \subseteq granted'
    BY <1>1, UsedStays DEF Enter, ReaderAt, chanVars, histVars
  <2> QED
    BY <2>1, <2>2
<1>2. CASE OpenSucceeds
  <2>1. WireFromPort'
    BY <1>2, OpenedWire DEF OpenSucceeds
  <2>2. FlagsCover' /\ InstalledIsGranted'
    BY <1>2 DEF OpenSucceeds, FlagsCover, InstalledIsGranted, Authenticating
  <2>3. UsedPorts' \subseteq granted'
    BY <1>2, UsedStays DEF OpenSucceeds, chanVars, histVars
  <2> QED
    BY <2>1, <2>2, <2>3
<1>3. CASE Callback \/ CheckDone \/ OpenFails \/ GiveUp
  <2>1. /\ pc \in {"onDisconnect", "onReconnect", "check", "open", "giveUp"}
        /\ UNCHANGED <<conn, starting, granted, written, recvCh, wire>>
        /\ \/ pc' \in {"check", "open"} /\ UNCHANGED reconnecting /\ pc # "onReconnect" /\ pc # "giveUp"
           \/ pc' \in {"top", "giveUp", "exited"}
    BY <1>3 DEF Callback, CheckDone, OpenFails, GiveUp, ReaderAt, portVars, chanVars, histVars
  <2>2. FlagsCover'
    BY <2>1 DEF FlagsCover, Authenticating
  <2>3. InstalledIsGranted'
    BY <2>1 DEF InstalledIsGranted, Authenticating
  <2>4. WireFromPort'
    BY <2>1, WireShrinks
  <2>5. UsedPorts' \subseteq granted'
    BY <2>1, UsedStays
  <2> QED
    BY <2>2, <2>3, <2>4, <2>5
<1> QED
    BY <1>1, <1>2, <1>3 DEF Reconnect

\* Send is refused while a flag is up, so the port it writes to is granted.
LEMMA AuthOthers ==
    ASSUME TypeOK, AuthInv, Send \/ Receive \/ Close
    PROVE  AuthInv'
<1> USE DEF AuthInv
<1>1. UNCHANGED <<conn, pc, starting, reconnecting, hand, wire, granted>>
    BY DEF Send, Receive, ReceiveLine, ReceiveError, Close, CloseDone, CloseConn, portVars,
           deviceVars
<1>2. FlagsCover' /\ InstalledIsGranted'
    BY <1>1 DEF FlagsCover, InstalledIsGranted
<1>3. WireFromPort'
    BY <1>1, WireShrinks
<1>4. UsedPorts' \subseteq granted'
  <2>1. CASE Send
    <3>1. written' = written \union {conn} /\ conn \in granted /\ recvCh' = recvCh
      BY <2>1 DEF Send, FlagsCover, InstalledIsGranted, chanVars
    <3> QED
      BY <1>1, <3>1 DEF UsedPorts
  <2>2. CASE ReceiveLine
    <3>1. recvCh \in Seq(Line) /\ recvCh # <<>> /\ recvCh' = Tail(recvCh) /\ written' = written
      BY <2>2 DEF ReceiveLine, TypeOK
    <3>2. \A i \in DOMAIN recvCh' : \E j \in DOMAIN recvCh : recvCh'[i] = recvCh[j]
      <4>1. \A i \in DOMAIN recvCh' : i + 1 \in DOMAIN recvCh /\ recvCh'[i] = recvCh[i + 1]
        BY <3>1
      <4> QED
        BY <4>1
    <3> QED
      BY <1>1, <3>1, <3>2 DEF UsedPorts
  <2>3. CASE ReceiveError \/ Close
    <3>1. recvCh' = recvCh /\ written' = written
      BY <2>3 DEF ReceiveError, Close, CloseDone, CloseConn, chanVars, histVars
    <3> QED
      BY <1>1, <3>1, UsedStays
  <2> QED
    BY <2>1, <2>2, <2>3 DEF Receive
<1> QED
    BY <1>2, <1>3, <1>4

LEMMA AuthDevice ==
    ASSUME TypeOK, AuthInv, Device
    PROVE  AuthInv'
<1> USE DEF AuthInv
<1>1. /\ UNCHANGED <<conn, pc, starting, reconnecting, hand, recvCh, written>>
      /\ granted \subseteq granted'
    BY DEF Device, Logs, Speaks, Lost, Transmit, portVars, chanVars, histVars
<1>2. FlagsCover' /\ InstalledIsGranted'
    BY <1>1 DEF FlagsCover, InstalledIsGranted
<1>3. UsedPorts' \subseteq granted'
    BY <1>1, UsedStays
<1>4. WireFromPort'
  <2>1. ASSUME NEW kind, NEW n, Transmit(kind, n),
               kind \in {"accept", "echo"} => conn \in granted'
        PROVE  WireFromPort'
    <3> DEFINE m == [port |-> conn, n |-> n, kind |-> kind]
    <3>1. wire \in Seq(Line) /\ wire' = Append(wire, m) /\ conn # NoPort
      BY <2>1 DEF Transmit, TypeOK
    <3>2. \A i \in DOMAIN wire' : wire'[i] = m \/ (i \in DOMAIN wire /\ wire'[i] = wire[i])
      BY <3>1
    <3>3. m.port = conn /\ (ValidAuth(m) => conn \in granted')
      BY <2>1 DEF ValidAuth
    <3> HIDE DEF m
    <3> QED
      BY <1>1, <3>1, <3>2, <3>3 DEF WireFromPort, ValidAuth
  <2>2. CASE Logs
    BY <2>1, <2>2 DEF Logs
  <2>3. ASSUME NEW kind \in Json, Speaks(kind) PROVE WireFromPort'
    BY <2>1, <2>3 DEF Speaks
  <2>4. CASE Lost
    BY <1>1, <2>4, WireShrinks DEF Lost
  <2> QED
    BY <2>2, <2>3, <2>4 DEF Device
<1> QED
    BY <1>2, <1>3, <1>4

\* With a token, whatever the device sends and however often the port is lost, no request
\* is written to a port and no line of it reaches the protocol before the token was
\* accepted, or echoed, on that very port.
THEOREM NothingUsedUnauthenticated == Spec => []AuthBeforeUse
<1>1. CASE Token
  <2>1. Init => AuthInv
    BY AuthInit
  <2>2. TypeOK /\ AuthInv /\ [Next]_vars => AuthInv'
    <3> SUFFICES ASSUME TypeOK, AuthInv, [Next]_vars PROVE AuthInv'
      OBVIOUS
    <3>1. CASE Connect \/ Authenticate \/ Reader \/ Reconnect
      BY <1>1, <3>1, AuthAuthenticate, AuthReader, AuthReconnect
    <3>2. CASE Send \/ Receive \/ Close \/ Device
      BY <3>2, AuthOthers, AuthDevice
    <3>3. CASE UNCHANGED vars
      BY <3>3 DEF AuthInv, FlagsCover, WireFromPort, InstalledIsGranted, UsedPorts, ValidAuth,
                  vars, portVars, chanVars, closeVars, deviceVars, histVars
    <3> QED
      BY <3>1, <3>2, <3>3 DEF Next
  <2>3. AuthInv => AuthBeforeUse
    BY DEF AuthInv, AuthBeforeUse
  <2> QED
    BY <2>1, <2>2, <2>3, SerialTypes, PTL DEF Spec
<1>2. CASE ~Token
  <2>1. AuthBeforeUse
    BY <1>2 DEF AuthBeforeUse
  <2> QED
    BY <2>1, PTL
<1> QED
    BY <1>1, <1>2

-----------------------------------------------------------------------------
(* The order of lines. *)

\* The line the reader took last; the next one on the wire comes after it.
Newest == Taken[Len(Taken)]

\* What the reader has taken is in order, of ports that have been opened, and sent before now.
TakenInOrder ==
    /\ \A i \in 1..Len(Taken) - 1 : Follows(Taken[i], Taken[i + 1])
    /\ \A i \in 1..Len(Taken) :
           /\ Taken[i].n <= lines
           /\ Taken[i].port # NoPort => status[Taken[i].port] # "none"

\* What is on the wire is in order, of the port there is, and up to the latest line.
WireInOrder ==
    /\ conn # NoPort => status[conn] # "none"
    /\ \A i \in 1..Len(wire) : wire[i].port = conn /\ conn # NoPort /\ wire[i].n <= lines
    /\ \A i \in 1..Len(wire) - 1 : Follows(wire[i], wire[i + 1])
    /\ wire # <<>> => wire[Len(wire)].n = lines

\* Where the two meet: an empty wire of a port that is up means that the newest line is the
\* latest one, unless it is of an earlier port; during authenticate it is.
SeamInOrder == pc # "exited" =>
    /\ wire # <<>> => Follows(Newest, wire[1])
    /\ (conn # NoPort /\ status[conn] = "up" /\ wire = <<>> /\ Newest.port = conn)
           => Newest.n = lines
    /\ pc \in Authenticating => Newest.port # conn

OrderInv == TakenInOrder /\ WireInOrder /\ SeamInOrder

\* Taken is its three parts.
LEMMA TakenShape ==
    ASSUME TypeOK
    PROVE  /\ Taken \in Seq(Line) /\ Taken # <<>> /\ Len(Taken) \in Nat \ {0}
           /\ Len(Taken) = Len(recvCh) + (IF pc = "push" THEN 2 ELSE 1)
           /\ Taken[1] = last
           /\ \A i \in 1..Len(recvCh) : Taken[i + 1] = recvCh[i]
           /\ pc = "push" => Taken[Len(Taken)] = hand
           /\ Newest \in Line
<1>1. last \in Line /\ hand \in Line /\ recvCh \in Seq(Line)
    BY DEF TypeOK
<1>2. CASE pc = "push"
  <2>1. Taken = <<last>> \o recvCh \o <<hand>>
    BY <1>2 DEF Taken
  <2> QED
    BY <1>1, <1>2, <2>1 DEF Newest
<1>3. CASE pc # "push"
  <2>1. Taken = <<last>> \o recvCh
    BY <1>1, <1>3 DEF Taken
  <2>2. Taken \in Seq(Line) /\ Len(Taken) = 1 + Len(recvCh)
    BY <1>1, <2>1
  <2> QED
    BY <1>1, <1>3, <2>1, <2>2 DEF Newest
<1> QED
    BY <1>2, <1>3

\* What each kind of step does to Taken: it takes nothing,
LEMMA TakenStays ==
    ASSUME UNCHANGED <<last, recvCh>>, pc # "push", pc' # "push"
    PROVE  Taken' = Taken /\ Newest' = Newest
BY DEF Taken, Newest

\* it takes a line from the wire,
LEMMA TakenGrows ==
    ASSUME TypeOK, TypeOK', UNCHANGED <<last, recvCh>>, pc # "push", pc' = "push"
    PROVE  Taken' = Append(Taken, hand') /\ Newest' = hand'
<1>1. last \in Line /\ hand' \in Line /\ recvCh \in Seq(Line)
    BY DEF TypeOK
<1>2. Taken = <<last>> \o recvCh
    BY <1>1 DEF Taken
<1>3. Taken' = <<last>> \o recvCh \o <<hand'>>
    BY DEF Taken
<1>4. Taken' = Append(Taken, hand')
    BY <1>1, <1>2, <1>3
<1> QED
    BY <1>1, <1>2, <1>4 DEF Newest

\* it moves a line to the channel,
LEMMA TakenMoves ==
    ASSUME TypeOK, last' = last, recvCh' = Append(recvCh, hand), pc = "push", pc' # "push"
    PROVE  Taken' = Taken /\ Newest' = Newest
<1>1. last \in Line /\ hand \in Line /\ recvCh \in Seq(Line)
    BY DEF TypeOK
<1>2. Taken = <<last>> \o recvCh \o <<hand>>
    BY DEF Taken
<1>3. Taken' = <<last>> \o Append(recvCh, hand)
    BY <1>1 DEF Taken
<1>4. Taken' = Taken
    BY <1>1, <1>2, <1>3
<1> QED
    BY <1>4 DEF Newest

\* or the oldest line leaves it.
LEMMA TakenLeaves ==
    ASSUME TypeOK, TypeOK', recvCh # <<>>, last' = Head(recvCh), recvCh' = Tail(recvCh),
           UNCHANGED <<pc, hand>>
    PROVE  Taken' = Tail(Taken) /\ Newest' = Newest
<1> DEFINE h == IF pc = "push" THEN <<hand>> ELSE <<>>
<1>1. last \in Line /\ h \in Seq(Line) /\ recvCh \in Seq(Line)
    BY DEF TypeOK
<1>2. Taken = <<last>> \o recvCh \o h /\ Taken' = <<Head(recvCh)>> \o Tail(recvCh) \o h
    BY DEF Taken
<1> HIDE DEF h
<1>3. <<Head(recvCh)>> \o Tail(recvCh) = recvCh
    BY <1>1
<1>4. Taken' = recvCh \o h
    BY <1>2, <1>3
<1>5. Tail(Taken) = recvCh \o h
    BY <1>1, <1>2
<1>6. Taken \in Seq(Line) /\ Len(Taken) > 1
    BY <1>1, <1>2
<1>7. Taken' = Tail(Taken)
    BY <1>4, <1>5
<1>8. Tail(Taken)[Len(Tail(Taken))] = Taken[Len(Taken)]
    BY <1>6
<1> QED
    BY <1>7, <1>8 DEF Newest

-----------------------------------------------------------------------------
LEMMA OrderInit == Init => OrderInv
<1> SUFFICES ASSUME Init PROVE OrderInv
    OBVIOUS
<1>1. Taken = <<NoLine>>
    BY DEF Init, Taken
<1>2. TakenInOrder
    BY <1>1 DEF TakenInOrder, Init, NoLine
<1> QED
    BY <1>2 DEF OrderInv, WireInOrder, SeamInOrder, Init, NoPort, Authenticating

\* TakenInOrder needs only that no port is closed for good and no line is unsent.
LEMMA TakenInOrderStays ==
    ASSUME TypeOK, TakenInOrder, Taken' = Taken, lines' \in Nat, lines <= lines',
           \A k \in Ports : status[k] # "none" => status'[k] # "none"
    PROVE  TakenInOrder'
<1>1. \A i \in 1..Len(Taken) : Taken[i] \in Line
    BY TakenShape
<1>2. \A i \in 1..Len(Taken) : Taken[i].n \in Nat /\ Taken[i].port \in 0..MaxPorts
    BY <1>1, BoundsAssumption DEF Line
<1>3. lines \in Nat
    BY BoundsAssumption DEF TypeOK
<1>4. ASSUME NEW i \in 1..Len(Taken)
      PROVE  Taken[i].n <= lines' /\ (Taken[i].port # NoPort => status'[Taken[i].port] # "none")
  <2>1. Taken[i].n <= lines /\ Taken[i].n \in Nat
    BY <1>2, <1>4 DEF TakenInOrder
  <2>2. Taken[i].port # NoPort => Taken[i].port \in Ports /\ status[Taken[i].port] # "none"
    BY <1>2, <1>4, BoundsAssumption DEF TakenInOrder, Ports, NoPort
  <2> QED
    BY <1>3, <2>1, <2>2
<1>5. \A i \in 1..Len(Taken') - 1 : Follows(Taken'[i], Taken'[i + 1])
    BY DEF TakenInOrder
<1> QED
    BY <1>4, <1>5 DEF TakenInOrder, Follows

\* A line after which nothing comes but log lines, if anything, can stand for them.
LEMMA FollowsOver ==
    ASSUME NEW x \in Line, NEW y \in Line, NEW z \in Line,
           Follows(x, y), Follows(y, z), y.kind \notin Json \/ x.port # z.port, y.port = z.port
    PROVE  Follows(x, z)
<1>1. x.n \in Nat /\ y.n \in Nat /\ z.n \in Nat
    BY BoundsAssumption DEF Line
<1> QED
    BY <1>1 DEF Follows

\* The first line on the wire and the second.
LEMMA WireFirst ==
    ASSUME TypeOK, wire # <<>>
    PROVE  /\ 1 \in 1..Len(wire) /\ wire[1] \in Line /\ wire[1] = Head(wire)
           /\ wire[1].n \in Nat /\ lines \in Nat
           /\ Tail(wire) = <<>> => Len(wire) = 1
           /\ Tail(wire) # <<>> => /\ 2 \in 1..Len(wire) /\ 1 \in 1..Len(wire) - 1
                                  /\ wire[2] \in Line /\ Tail(wire)[1] = wire[2]
<1>1. wire \in Seq(Line) /\ Len(wire) \in Nat /\ Len(wire) # 0
    BY DEF TypeOK
<1>2. 1 \in 1..Len(wire) /\ wire[1] \in Line /\ wire[1] = Head(wire)
    BY <1>1
<1>3. wire[1].n \in Nat /\ lines \in Nat
    BY <1>2, BoundsAssumption DEF Line, TypeOK
<1>4. Len(Tail(wire)) = Len(wire) - 1 /\ Tail(wire) \in Seq(Line)
    BY <1>1
<1>5. Tail(wire) = <<>> => Len(wire) = 1
  <2>1. Len(<<>>) = 0
    OBVIOUS
  <2>2. Tail(wire) = <<>> => Len(Tail(wire)) = 0
    BY <2>1, Zenon
  <2> QED
    BY <1>1, <1>4, <2>2
<1>6. ASSUME Tail(wire) # <<>>
      PROVE  /\ 2 \in 1..Len(wire) /\ 1 \in 1..Len(wire) - 1
             /\ wire[2] \in Line /\ Tail(wire)[1] = wire[2]
  <2>1. Len(Tail(wire)) > 0
    BY <1>4, <1>6
  <2> QED
    BY <1>1, <1>4, <2>1
<1> QED
    BY <1>2, <1>3, <1>5, <1>6

\* WireInOrder after the first line is read or all of it is dropped.
LEMMA WireReadInOrder ==
    ASSUME TypeOK, WireInOrder, UNCHANGED <<conn, lines>>, conn # NoPort => status'[conn] # "none",
           wire' = wire \/ wire' = <<>> \/ (wire # <<>> /\ wire' = Tail(wire))
    PROVE  WireInOrder'
<1>1. CASE wire' = wire
    BY <1>1 DEF WireInOrder, Follows
<1>2. CASE wire' = <<>>
    BY <1>2 DEF WireInOrder
<1>3. CASE wire # <<>> /\ wire' = Tail(wire)
  <2>1. wire \in Seq(Line)
    BY DEF TypeOK
  <2>2. /\ Len(wire') = Len(wire) - 1
        /\ \A i \in 1..Len(wire') : i + 1 \in 1..Len(wire) /\ wire'[i] = wire[i + 1]
    BY <1>3, <2>1
  <2>3. \A i \in 1..Len(wire') - 1 : i + 1 \in 1..Len(wire) - 1 /\ Follows(wire'[i], wire'[i + 1])
    BY <2>1, <2>2 DEF WireInOrder
  <2>4. wire' # <<>> => wire'[Len(wire')] = wire[Len(wire)]
    BY <1>3, <2>1
  <2>5. wire' # <<>> => wire'[Len(wire')].n = lines'
    BY <1>3, <2>4 DEF WireInOrder
  <2> QED
    BY <2>2, <2>3, <2>5 DEF WireInOrder
<1> QED
    BY <1>1, <1>2, <1>3
-----------------------------------------------------------------------------
\* One lemma for each kind of step.

\* Opening a port.
LEMMA OrderOpened ==
    ASSUME TypeOK, TypeOK', OrderInv, pc # "exited", pc # "push", pc' # "push",
           \E k \in Ports : Opens(k), UNCHANGED <<recvCh, last, lines>>
    PROVE  OrderInv'
<1>1. PICK k \in Ports : Opens(k)
    OBVIOUS
<1>2. Taken' = Taken /\ Newest' = Newest
    BY TakenStays
<1>3. TakenInOrder'
  <2>1. lines' \in Nat /\ lines <= lines'
    BY BoundsAssumption DEF TypeOK
  <2>2. \A j \in Ports : status[j] # "none" => status'[j] # "none"
    BY <1>1 DEF Opens, TypeOK
  <2> QED
    BY <1>2, <2>1, <2>2, TakenInOrderStays DEF OrderInv
<1>4. conn' = k /\ k # NoPort /\ status'[k] = "up" /\ wire' = <<>>
    BY <1>1, BoundsAssumption DEF Opens, TypeOK, Ports, NoPort
<1>5. WireInOrder'
    BY <1>4 DEF WireInOrder
<1>6. Newest.port # k
  <2>1. Newest.port # NoPort => status[Newest.port] # "none"
    BY TakenShape DEF OrderInv, TakenInOrder, Newest
  <2> QED
    BY <1>1, <1>4, <2>1 DEF Opens
<1>7. SeamInOrder'
    BY <1>2, <1>4, <1>6 DEF SeamInOrder
<1> QED
    BY <1>3, <1>5, <1>7 DEF OrderInv

\* Giving up the port, or going on without touching a line.
LEMMA OrderQuiet ==
    ASSUME TypeOK, TypeOK', OrderInv, UNCHANGED <<recvCh, last, lines>>,
           (pc # "push" /\ pc' # "push") \/ UNCHANGED <<pc, hand>>,
           \A k \in Ports : status[k] # "none" => status'[k] # "none",
           \A k \in Ports : status'[k] = "up" => status[k] = "up",
           pc' = "exited" \/ pc # "exited",
           pc' \in Authenticating => pc \in Authenticating,
           \/ wire' = <<>> /\ conn' = NoPort /\ pc' \notin Authenticating
           \/ UNCHANGED <<conn, wire>>
    PROVE  OrderInv'
<1>1. Taken' = Taken /\ Newest' = Newest
    BY DEF Taken, Newest
<1>2. TakenInOrder'
  <2>1. lines' \in Nat /\ lines <= lines'
    BY BoundsAssumption DEF TypeOK
  <2> QED
    BY <1>1, <2>1, TakenInOrderStays DEF OrderInv
<1>3. CASE wire' = <<>> /\ conn' = NoPort /\ pc' \notin Authenticating
    BY <1>2, <1>3 DEF OrderInv, WireInOrder, SeamInOrder
<1>4. CASE UNCHANGED <<conn, wire>>
  <2>1. conn # NoPort => conn \in Ports
    BY DEF TypeOK, Ports, NoPort
  <2>2. WireInOrder'
    BY <1>4, <2>1, WireReadInOrder DEF OrderInv, WireInOrder
  <2>3. SeamInOrder'
    BY <1>1, <1>4, <2>1 DEF OrderInv, SeamInOrder, Follows
  <2> QED
    BY <1>2, <2>2, <2>3 DEF OrderInv
<1> QED
    BY <1>3, <1>4
\* Reading a line for nobody: a log line, or one that authenticate takes.
LEMMA OrderSkipped ==
    ASSUME TypeOK, TypeOK', OrderInv, wire # <<>>, wire' = Tail(wire), pc # "exited",
           UNCHANGED <<conn, status, recvCh, last, lines>>, pc # "push", pc' # "push",
           wire[1].kind \notin Json \/ pc \in Authenticating,
           pc' \in Authenticating => pc \in Authenticating
    PROVE  OrderInv'
<1>1. Taken' = Taken /\ Newest' = Newest /\ Newest \in Line
    BY TakenStays, TakenShape
<1>2. TakenInOrder'
  <2>1. lines' \in Nat /\ lines <= lines'
    BY BoundsAssumption DEF TypeOK
  <2> QED
    BY <1>1, <2>1, TakenInOrderStays DEF OrderInv
<1>3. WireInOrder'
    BY WireReadInOrder DEF OrderInv, WireInOrder
<1>4. 1 \in 1..Len(wire) /\ wire[1] \in Line
    BY WireFirst
<1>5. Follows(Newest, wire[1]) /\ wire[1].port = conn /\ conn # NoPort
    BY <1>4 DEF OrderInv, SeamInOrder, WireInOrder
<1>6. Newest.port = conn => pc \notin Authenticating /\ wire[1].kind \notin Json
    BY DEF OrderInv, SeamInOrder
<1>7. ASSUME wire' # <<>> PROVE Follows(Newest', wire'[1])
  <2>1. 2 \in 1..Len(wire) /\ 1 \in 1..Len(wire) - 1 /\ wire'[1] = wire[2] /\ wire[2] \in Line
    BY <1>7, WireFirst
  <2>2. Follows(wire[1], wire[2]) /\ wire[2].port = conn
    BY <2>1 DEF OrderInv, WireInOrder
  <2> QED
    BY <1>1, <1>4, <1>5, <1>6, <2>1, <2>2, FollowsOver
<1>8. ASSUME wire' = <<>>, Newest.port = conn PROVE Newest.n = lines
  <2>1. wire[1].n = lines
    BY <1>8, WireFirst DEF OrderInv, WireInOrder
  <2>2. Newest.n \in Nat
    BY <1>1, BoundsAssumption DEF Line
  <2> QED
    BY <1>5, <1>6, <1>8, <2>1, <2>2 DEF Follows
<1>9. SeamInOrder'
    BY <1>1, <1>7, <1>8 DEF OrderInv, SeamInOrder
<1> QED
    BY <1>2, <1>3, <1>9 DEF OrderInv

\* Reading a line for Receive.
LEMMA OrderTaken ==
    ASSUME TypeOK, TypeOK', OrderInv, wire # <<>>, wire' = Tail(wire), hand' = Head(wire),
           UNCHANGED <<conn, status, recvCh, last, lines>>, pc = "scan", pc' = "push"
    PROVE  OrderInv'
<1>1. Taken' = Append(Taken, hand') /\ Newest' = hand' /\ Taken \in Seq(Line) /\ Taken # <<>>
    BY TakenGrows, TakenShape
<1>2. 1 \in 1..Len(wire) /\ hand' = wire[1] /\ wire[1] \in Line
    BY WireFirst
<1>3. Follows(Newest, hand') /\ hand'.port = conn /\ conn # NoPort /\ status[conn] # "none"
    BY <1>2 DEF OrderInv, SeamInOrder, WireInOrder
<1>4. WireInOrder'
    BY WireReadInOrder DEF OrderInv, WireInOrder
<1>5. (wire' # <<>> => Follows(hand', wire'[1])) /\ (wire' = <<>> => hand'.n = lines)
    BY <1>2, WireFirst DEF OrderInv, WireInOrder
<1>6. SeamInOrder'
    BY <1>1, <1>5 DEF SeamInOrder, Follows, Authenticating
<1>7. hand'.n <= lines
    BY <1>2 DEF OrderInv, WireInOrder
<1>8. TakenInOrder'
  <2>1. \A i \in 1..Len(Taken') :
            IF i = Len(Taken') THEN Taken'[i] = hand' ELSE i \in 1..Len(Taken) /\ Taken'[i] = Taken[i]
    BY <1>1
  <2>2. Len(Taken') = Len(Taken) + 1 /\ Len(Taken) \in Nat \ {0}
    BY <1>1
  <2>3. ASSUME NEW i \in 1..Len(Taken')
        PROVE  Taken'[i].n <= lines' /\ (Taken'[i].port # NoPort => status'[Taken'[i].port] # "none")
    BY <1>3, <1>7, <2>1 DEF OrderInv, TakenInOrder
  <2>4. ASSUME NEW i \in 1..Len(Taken') - 1
        PROVE  Follows(Taken'[i], Taken'[i + 1])
    <3>1. i \in 1..Len(Taken) /\ i \in 1..Len(Taken') /\ i + 1 \in 1..Len(Taken') /\ Taken'[i] = Taken[i]
      BY <2>1, <2>2
    <3>2. CASE i = Len(Taken)
      BY <1>3, <2>1, <2>2, <3>1, <3>2 DEF Newest
    <3>3. CASE i # Len(Taken)
      <4>1. i \in 1..Len(Taken) - 1 /\ Taken'[i + 1] = Taken[i + 1]
        BY <2>1, <2>2, <3>1, <3>3
      <4> QED
        BY <3>1, <4>1 DEF OrderInv, TakenInOrder
    <3> QED
      BY <3>2, <3>3
  <2>5. \A i \in 1..Len(Taken') - 1 : Follows(Taken'[i], Taken'[i + 1])
    BY <2>4
  <2> QED
    BY <2>3, <2>5 DEF TakenInOrder, Follows
<1> QED
    BY <1>4, <1>6, <1>8 DEF OrderInv

\* The reader ends with a line in its hand, which is lost.
LEMMA OrderDropped ==
    ASSUME TypeOK, TypeOK', OrderInv, UNCHANGED <<conn, status, recvCh, last, lines, wire>>,
           pc = "push", pc' = "exited"
    PROVE  OrderInv'
<1>1. last \in Line /\ hand \in Line /\ recvCh \in Seq(Line)
    BY DEF TypeOK
<1>2. Taken = <<last>> \o recvCh \o <<hand>> /\ Taken' = <<last>> \o recvCh
    BY <1>1 DEF Taken
<1>3. /\ Len(Taken') = Len(Taken) - 1 /\ Len(Taken') \in Nat
      /\ \A i \in 1..Len(Taken') : Taken'[i] = Taken[i]
    BY <1>1, <1>2
<1>4. \A i \in 1..Len(Taken') - 1 : Follows(Taken'[i], Taken'[i + 1])
  <2>1. \A i \in 1..Len(Taken') - 1 : i \in 1..Len(Taken') /\ i + 1 \in 1..Len(Taken')
                                     /\ i \in 1..Len(Taken) - 1
    BY <1>3
  <2> QED
    BY <1>3, <2>1 DEF OrderInv, TakenInOrder
<1>5. \A i \in 1..Len(Taken') : i \in 1..Len(Taken)
    BY <1>3
<1>6. TakenInOrder'
    BY <1>3, <1>4, <1>5 DEF OrderInv, TakenInOrder, Follows
<1>7. WireInOrder'
    BY WireReadInOrder DEF OrderInv, WireInOrder
<1> QED
    BY <1>6, <1>7 DEF OrderInv, SeamInOrder

\* The reader leaves a line in the channel.
LEMMA OrderPushed ==
    ASSUME TypeOK, TypeOK', OrderInv, Push
    PROVE  OrderInv'
<1>1. Taken' = Taken /\ Newest' = Newest
    BY TakenMoves DEF Push, ReaderAt, histVars
<1>2. UNCHANGED <<conn, status, lines, wire>> /\ pc = "push" /\ pc' = "top"
    BY DEF Push, ReaderAt, portVars
<1>3. TakenInOrder' /\ WireInOrder'
    BY <1>1, <1>2, TakenInOrderStays, WireReadInOrder, BoundsAssumption
    DEF OrderInv, WireInOrder, TypeOK
<1> QED
    BY <1>1, <1>2, <1>3 DEF OrderInv, SeamInOrder, Follows, Authenticating

\* Receive takes a line from the channel.
LEMMA OrderReceived ==
    ASSUME TypeOK, TypeOK', OrderInv, ReceiveLine
    PROVE  OrderInv'
<1>1. UNCHANGED <<conn, status, lines, wire, pc, hand>>
    BY DEF ReceiveLine, portVars, deviceVars
<1>2. Taken' = Tail(Taken) /\ Newest' = Newest /\ Taken \in Seq(Line) /\ Taken # <<>>
    BY <1>1, TakenLeaves, TakenShape DEF ReceiveLine
<1>3. \A i \in 1..Len(Taken') : i + 1 \in 1..Len(Taken) /\ Taken'[i] = Taken[i + 1]
    BY <1>2
<1>4. \A i \in 1..Len(Taken') - 1 :
          i \in 1..Len(Taken') /\ i + 1 \in 1..Len(Taken') /\ i + 1 \in 1..Len(Taken) - 1
    BY <1>2
<1>5. \A i \in 1..Len(Taken') - 1 : Follows(Taken'[i], Taken'[i + 1])
    BY <1>3, <1>4 DEF OrderInv, TakenInOrder
<1>6. TakenInOrder'
    BY <1>1, <1>3, <1>5 DEF OrderInv, TakenInOrder, Follows
<1>7. WireInOrder'
    BY <1>1, WireReadInOrder DEF OrderInv, WireInOrder
<1> QED
    BY <1>1, <1>2, <1>6, <1>7 DEF OrderInv, SeamInOrder, Follows

\* The device sends a line, number n.
LEMMA OrderSent ==
    ASSUME TypeOK, TypeOK', OrderInv, NEW kind, NEW n \in Nat, Transmit(kind, n),
           n = lines + (IF kind \in Json THEN 1 ELSE 0)
    PROVE  OrderInv'
<1> DEFINE m == [port |-> conn, n |-> n, kind |-> kind]
<1>1. /\ wire \in Seq(Line) /\ wire' = Append(wire, m) /\ lines' = n
      /\ conn # NoPort /\ status[conn] = "up"
      /\ UNCHANGED <<conn, status, pc, hand, recvCh, last>>
    BY DEF TypeOK, Transmit, portVars, chanVars, histVars
<1>2. m.port = conn /\ m.n = n /\ m.kind = kind /\ lines \in Nat
    BY BoundsAssumption DEF TypeOK
<1> HIDE DEF m
<1>3. Taken' = Taken /\ Newest' = Newest /\ Newest \in Line
    BY <1>1, TakenShape DEF Taken, Newest
<1>4. TakenInOrder'
  <2>1. lines <= lines' /\ lines' \in Nat
    BY <1>1, <1>2
  <2> QED
    BY <1>1, <1>3, <2>1, TakenInOrderStays DEF OrderInv
<1>5. /\ Len(wire') = Len(wire) + 1 /\ Len(wire) \in Nat
      /\ wire'[Len(wire')] = m
      /\ \A i \in 1..Len(wire) : wire'[i] = wire[i]
      /\ wire = <<>> <=> Len(wire) = 0
    BY <1>1
<1>6. \A x : x.n = lines => Follows(x, m)
    BY <1>2 DEF Follows
<1>7. \A i \in 1..Len(wire) : wire[i].n \in Nat /\ wire[i].n <= n
  <2>1. \A i \in 1..Len(wire) : wire[i] \in Line
    BY <1>1
  <2> QED
    BY <1>2, <2>1, BoundsAssumption DEF Line, OrderInv, WireInOrder
<1>8. WireInOrder'
  <2>1. \A i \in 1..Len(wire') : wire'[i].port = conn /\ wire'[i].n <= n
    BY <1>2, <1>5, <1>7 DEF OrderInv, WireInOrder
  <2>2. \A i \in 1..Len(wire') - 1 : Follows(wire'[i], wire'[i + 1])
    <3> SUFFICES ASSUME NEW i \in 1..Len(wire') - 1 PROVE Follows(wire'[i], wire'[i + 1])
      OBVIOUS
    <3>1. CASE i = Len(wire)
      BY <1>5, <1>6, <3>1 DEF OrderInv, WireInOrder
    <3>2. CASE i # Len(wire)
      <4>1. i \in 1..Len(wire) /\ i + 1 \in 1..Len(wire) /\ i \in 1..Len(wire) - 1
        BY <1>5, <3>2
      <4> QED
        BY <1>5, <4>1 DEF OrderInv, WireInOrder
    <3> QED
      BY <3>1, <3>2
  <2>3. wire'[Len(wire')].n = lines'
    BY <1>1, <1>2, <1>5
  <2> QED
    BY <1>1, <2>1, <2>2, <2>3 DEF OrderInv, WireInOrder, Follows
<1>9. SeamInOrder'
  <2> SUFFICES ASSUME pc # "exited"
               PROVE  /\ Follows(Newest, wire'[1])
                      /\ pc \in Authenticating => Newest.port # conn
    BY <1>1, <1>3, <1>5 DEF SeamInOrder, Follows
  <2>1. CASE wire = <<>>
    <3>1. Newest.n <= lines /\ Newest.n \in Nat
      BY <1>3, TakenShape, BoundsAssumption DEF OrderInv, TakenInOrder, Newest, Line
    <3>2. wire'[1] = m
      BY <1>5, <2>1
    <3>3. Newest.port = conn => Newest.n = lines
      BY <1>1, <2>1 DEF OrderInv, SeamInOrder
    <3> QED
      BY <1>2, <3>1, <3>2, <3>3 DEF OrderInv, SeamInOrder, Follows
  <2>2. CASE wire # <<>>
    <3>1. wire'[1] = wire[1]
      BY <1>5, <2>2
    <3> QED
      BY <2>2, <3>1 DEF OrderInv, SeamInOrder
  <2> QED
    BY <2>1, <2>2
<1> QED
    BY <1>4, <1>8, <1>9 DEF OrderInv

LEMMA OrderAuthenticate ==
    ASSUME TypeOK, TypeOK', OrderInv, Connect \/ Authenticate
    PROVE  OrderInv'
<1>1. /\ \A k \in Ports : status[k] # "none" => Closed[k] # "none"
      /\ \A k \in Ports : Closed[k] = "up" => status[k] = "up"
    BY DEF Closed, TypeOK
<1>2. ASSUME AuthGivesUp, pc \in Authenticating PROVE OrderInv'
  <2>1. /\ UNCHANGED <<recvCh, last, lines>> /\ pc # "push" /\ pc' \in {"off", "check"}
        /\ status' = Closed /\ wire' = <<>> /\ conn' = NoPort /\ pc # "exited"
    BY <1>2 DEF AuthGivesUp, Authenticating, chanVars, histVars
  <2> QED
    BY <1>1, <2>1, OrderQuiet DEF Authenticating
<1>3. CASE Connect
  <2>1. /\ pc = "off" /\ pc' # "push" /\ UNCHANGED <<recvCh, last, lines>>
        /\ \E k \in Ports : Opens(k)
    BY <1>3 DEF Connect, chanVars, histVars
  <2> QED
    BY <2>1, OrderOpened
<1>4. CASE AuthSend
  <2>1. pc = "authSend" /\ pc' = "authRead" /\ UNCHANGED <<conn, status, wire, recvCh, last, lines>>
    BY <1>4 DEF AuthSend, portVars, chanVars, histVars
  <2> QED
    BY <2>1, OrderQuiet DEF Authenticating
<1>5. CASE AuthSkips \/ AuthAccepts
  <2>1. /\ wire # <<>> /\ wire' = Tail(wire) /\ UNCHANGED <<conn, status, recvCh, last, lines>>
        /\ pc = "authRead" /\ pc' \in {"authRead", "top", "onReconnect"}
    BY <1>5 DEF AuthSkips, AuthAccepts, AuthPasses, portVars, chanVars, histVars
  <2> QED
    BY <2>1, OrderSkipped DEF Authenticating
<1>6. CASE AuthSendFails \/ AuthRefuses \/ AuthReadFails
    BY <1>2, <1>6 DEF AuthSendFails, AuthRefuses, AuthReadFails, Authenticating
<1> QED
    BY <1>3, <1>4, <1>5, <1>6 DEF Authenticate

LEMMA OrderReader ==
    ASSUME TypeOK, TypeOK', OrderInv, Reader
    PROVE  OrderInv'
<1>1. CASE Scan
  <2>1. /\ wire # <<>> /\ wire' = Tail(wire) /\ UNCHANGED <<conn, status, recvCh, last, lines>>
        /\ pc = "scan" /\ wire[1] = Head(wire)
    BY <1>1, WireFirst DEF Scan, ReaderAt, portVars, chanVars, histVars
  <2>2. CASE Head(wire).kind \in Json
    BY <1>1, <2>1, <2>2, OrderTaken DEF Scan, ReaderAt
  <2>3. CASE Head(wire).kind \notin Json
    BY <1>1, <2>1, <2>3, OrderSkipped DEF Scan, ReaderAt, Authenticating
  <2> QED
    BY <2>2, <2>3
<1>2. CASE Push
    BY <1>2, OrderPushed
<1>3. CASE PushDone
    BY <1>3, OrderDropped DEF PushDone, ReaderAt, portVars, chanVars, histVars
<1>4. CASE ReaderCheckDone \/ ScanFails \/ FailedDone \/ FailedEof \/ FailedError
  <2>1. /\ UNCHANGED <<conn, status, wire, recvCh, last, lines>>
        /\ pc \in {"top", "scan", "failed"} /\ pc' \in {"exited", "scan", "failed", "top", "reconnect"}
    BY <1>4 DEF ReaderCheckDone, ScanFails, FailedDone, FailedEof, FailedError, ReaderAt,
                portVars, chanVars, histVars
  <2> QED
    BY <2>1, OrderQuiet DEF Authenticating
<1> QED
    BY <1>1, <1>2, <1>3, <1>4 DEF Reader

LEMMA OrderReconnect ==
    ASSUME TypeOK, TypeOK', OrderInv, Reconnect
    PROVE  OrderInv'
<1>1. CASE Enter
  <2>1. /\ \A k \in Ports : status[k] # "none" => Closed[k] # "none"
        /\ \A k \in Ports : Closed[k] = "up" => status[k] = "up"
    BY DEF Closed, TypeOK
  <2>2. /\ UNCHANGED <<recvCh, last, lines>> /\ pc = "reconnect" /\ pc' = "onDisconnect"
        /\ status' = Closed /\ wire' = <<>> /\ conn' = NoPort
    BY <1>1 DEF Enter, ReaderAt, chanVars, histVars
  <2> QED
    BY <2>1, <2>2, OrderQuiet DEF Authenticating
<1>2. CASE OpenSucceeds
  <2>1. /\ pc = "open" /\ pc' # "push" /\ UNCHANGED <<recvCh, last, lines>>
        /\ \E k \in Ports : Opens(k)
    BY <1>2 DEF OpenSucceeds, chanVars, histVars
  <2> QED
    BY <2>1, OrderOpened
<1>3. CASE Callback \/ CheckDone \/ OpenFails \/ GiveUp
  <2>1. /\ UNCHANGED <<conn, status, wire, recvCh, last, lines>>
        /\ pc \in {"onDisconnect", "onReconnect", "check", "open", "giveUp"}
        /\ pc' \in {"check", "top", "giveUp", "open", "exited"}
    BY <1>3 DEF Callback, CheckDone, OpenFails, GiveUp, ReaderAt, portVars, chanVars, histVars
  <2> QED
    BY <2>1, OrderQuiet DEF Authenticating
<1> QED
    BY <1>1, <1>2, <1>3 DEF Reconnect

LEMMA OrderOthers ==
    ASSUME TypeOK, TypeOK', OrderInv, Send \/ Receive \/ Close
    PROVE  OrderInv'
<1>1. CASE ReceiveLine
    BY <1>1, OrderReceived
<1>2. CASE Send \/ ReceiveError \/ CloseDone \/ CloseConn
  <2>1. UNCHANGED <<conn, wire, recvCh, last, lines, pc, hand>> /\ (status' = status \/ status' = Closed)
    BY <1>2 DEF Send, ReceiveError, CloseDone, CloseConn, portVars, chanVars, histVars, deviceVars
  <2>2. /\ \A k \in Ports : status[k] # "none" => status'[k] # "none"
        /\ \A k \in Ports : status'[k] = "up" => status[k] = "up"
    BY <2>1 DEF Closed, TypeOK
  <2> QED
    BY <2>1, <2>2, OrderQuiet
<1> QED
    BY <1>1, <1>2 DEF Receive, Close

LEMMA OrderDevice ==
    ASSUME TypeOK, TypeOK', OrderInv, Device
    PROVE  OrderInv'
<1>1. lines \in Nat
    BY BoundsAssumption DEF TypeOK
<1>2. CASE Logs
  <2>1. Transmit("log", lines) /\ "log" \notin Json
    BY <1>2 DEF Logs, Json
  <2> QED
    BY <1>1, <2>1, OrderSent
<1>3. ASSUME NEW kind \in Json, Speaks(kind) PROVE OrderInv'
  <2>1. Transmit(kind, lines + 1)
    BY <1>3 DEF Speaks
  <2> QED
    BY <1>1, <1>3, <2>1, OrderSent
<1>4. CASE Lost
  <2>1. UNCHANGED <<conn, recvCh, last, lines, pc, hand>> /\ conn # NoPort /\ conn \in Ports
    BY <1>4 DEF Lost, chanVars, histVars, TypeOK, Ports, NoPort
  <2>2. status' = [status EXCEPT ![conn] = "lost"] /\ (wire' = wire \/ wire' = <<>>)
    BY <1>4 DEF Lost
  <2>3. /\ \A k \in Ports : status[k] # "none" => status'[k] # "none"
        /\ status'[conn] = "lost"
    BY <2>1, <2>2 DEF TypeOK
  <2>4. Taken' = Taken /\ Newest' = Newest
    BY <2>1 DEF Taken, Newest
  <2>5. TakenInOrder'
    BY <1>1, <2>1, <2>3, <2>4, TakenInOrderStays DEF OrderInv
  <2>6. WireInOrder'
    BY <2>1, <2>2, <2>3, WireReadInOrder DEF OrderInv
  <2>7. SeamInOrder'
    BY <2>1, <2>2, <2>3, <2>4 DEF OrderInv, SeamInOrder, Follows
  <2> QED
    BY <2>5, <2>6, <2>7 DEF OrderInv
<1> QED
    BY <1>2, <1>3, <1>4 DEF Device

\* OrderInv puts the two parts of Pending in one order.
LEMMA OrderMeansNoneSkipped ==
    ASSUME TypeOK, OrderInv
    PROVE  NoLineSkipped
<1> DEFINE w == IF pc = "exited" THEN <<>> ELSE wire
<1>1. Taken \in Seq(Line) /\ Taken # <<>> /\ w \in Seq(Line) /\ Pending = Taken \o w
    BY TakenShape DEF TypeOK, Pending
<1>2. /\ \A i \in 1..Len(w) - 1 : Follows(w[i], w[i + 1])
      /\ w # <<>> => Follows(Taken[Len(Taken)], w[1])
    BY DEF OrderInv, WireInOrder, SeamInOrder, Newest
<1> HIDE DEF w
<1>3. /\ Len(Pending) = Len(Taken) + Len(w) /\ Len(Taken) \in Nat \ {0} /\ Len(w) \in Nat
      /\ \A i \in 1..Len(Taken) : Pending[i] = Taken[i]
      /\ \A i \in 1..Len(w) : Pending[Len(Taken) + i] = w[i]
      /\ w = <<>> => Len(w) = 0
    BY <1>1
<1> SUFFICES ASSUME NEW i \in 1..Len(Pending) - 1
             PROVE  Follows(Pending[i], Pending[i + 1])
    BY DEF NoLineSkipped
<1>4. CASE i < Len(Taken)
  <2>1. i \in 1..Len(Taken) /\ i + 1 \in 1..Len(Taken) /\ i \in 1..Len(Taken) - 1
    BY <1>3, <1>4
  <2> QED
    BY <1>3, <2>1 DEF OrderInv, TakenInOrder
<1>5. CASE i = Len(Taken)
  <2>1. i \in 1..Len(Taken) /\ 1 \in 1..Len(w) /\ w # <<>>
    BY <1>3, <1>5
  <2> QED
    BY <1>2, <1>3, <1>5, <2>1
<1>6. CASE i > Len(Taken)
  <2>1. PICK j \in 1..Len(w) - 1 : i = Len(Taken) + j
    <3>1. i - Len(Taken) \in 1..Len(w) - 1 /\ i = Len(Taken) + (i - Len(Taken))
      BY <1>3, <1>6
    <3> QED
      BY <3>1
  <2>2. j \in 1..Len(w) /\ j + 1 \in 1..Len(w) /\ i + 1 = Len(Taken) + (j + 1)
    BY <1>3, <2>1
  <2> QED
    BY <1>2, <1>3, <2>1, <2>2
<1> QED
    BY <1>3, <1>4, <1>5, <1>6

\* OrderInv is inductive.
LEMMA OrderHolds == Spec => []OrderInv
<1>1. Init => OrderInv
    BY OrderInit
<1>2. TypeOK /\ TypeOK' /\ OrderInv /\ [Next]_vars => OrderInv'
  <2> SUFFICES ASSUME TypeOK, TypeOK', OrderInv, [Next]_vars PROVE OrderInv'
    OBVIOUS
  <2>1. CASE Connect \/ Authenticate \/ Reader \/ Reconnect
    BY <2>1, OrderAuthenticate, OrderReader, OrderReconnect
  <2>2. CASE Send \/ Receive \/ Close \/ Device
    BY <2>2, OrderOthers, OrderDevice
  <2>3. CASE UNCHANGED vars
    BY <2>3, OrderQuiet DEF vars, portVars, chanVars, deviceVars, histVars
  <2> QED
    BY <2>1, <2>2, <2>3 DEF Next
<1> QED
    BY <1>1, <1>2, SerialTypes, PTL DEF Spec

\* Whatever is lost, however full the channel is and however often the port is opened
\* again, Receive returns lines in the order the device sent them, and on one port skips
\* none.
THEOREM LinesArriveInOrder == Spec => []NoLineSkipped
<1>1. TypeOK /\ OrderInv => NoLineSkipped
    BY OrderMeansNoneSkipped
<1> QED
    BY <1>1, OrderHolds, SerialTypes, PTL

-----------------------------------------------------------------------------
(* The promise of SerialLink. *)

\* A line of some port, with a brace.
FromPort(m) == m.kind \in Json /\ m.port \in Ports

\* Nothing else is on its way to Receive.
JsonInv ==
    /\ \A i \in 1..Len(recvCh) : FromPort(recvCh[i])
    /\ pc = "push" => FromPort(hand)

LEMMA JsonStep ==
    ASSUME TypeOK, TypeOK', WireInOrder, JsonInv, [Next]_vars
    PROVE  JsonInv'
<1> USE DEF JsonInv
<1>1. CASE recvCh' = recvCh /\ pc' # "push"
    BY <1>1
<1>2. CASE UNCHANGED <<recvCh, pc, hand>>
    BY <1>2
<1>3. CASE Scan
  <2>1. /\ recvCh' = recvCh /\ hand' = (IF pc' = "push" THEN Head(wire) ELSE hand)
        /\ pc' = "push" => wire # <<>> /\ Head(wire).kind \in Json
    BY <1>3 DEF Scan, ReaderAt, chanVars
  <2>2. wire # <<>> => Head(wire).port \in Ports
    <3>1. wire # <<>> => 1 \in 1..Len(wire) /\ Head(wire) = wire[1]
      BY DEF TypeOK
    <3>2. conn # NoPort => conn \in Ports
      BY BoundsAssumption DEF TypeOK, Ports, NoPort
    <3> QED
      BY <3>1, <3>2 DEF WireInOrder
  <2> QED
    BY <2>1, <2>2 DEF FromPort
<1>4. CASE Push
  <2>1. recvCh' = Append(recvCh, hand) /\ pc = "push" /\ pc' = "top"
    BY <1>4 DEF Push, ReaderAt
  <2>2. /\ Len(recvCh') = Len(recvCh) + 1
        /\ \A i \in 1..Len(recvCh') : recvCh'[i] = recvCh[i] \/ i = Len(recvCh) + 1
        /\ recvCh'[Len(recvCh) + 1] = hand
    BY <2>1 DEF TypeOK
  <2>3. \A i \in 1..Len(recvCh') : i \in 1..Len(recvCh) \/ i = Len(recvCh) + 1
    BY <2>2 DEF TypeOK
  <2>4. ASSUME NEW i \in 1..Len(recvCh') PROVE FromPort(recvCh'[i])
    <3>1. CASE i = Len(recvCh) + 1
      BY <2>1, <2>2, <3>1
    <3>2. CASE i # Len(recvCh) + 1
      BY <2>2, <2>3, <3>2
    <3> QED
      BY <3>1, <3>2
  <2> QED
    BY <2>1, <2>4
<1>5. CASE ReceiveLine
  <2>1. recvCh # <<>> /\ recvCh' = Tail(recvCh) /\ pc' = pc /\ hand' = hand
    BY <1>5 DEF ReceiveLine
  <2>2. \A i \in 1..Len(recvCh') : i + 1 \in 1..Len(recvCh) /\ recvCh'[i] = recvCh[i + 1]
    BY <2>1 DEF TypeOK
  <2> QED
    BY <2>1, <2>2
<1>6. CASE Connect \/ Authenticate
  <2>1. recvCh' = recvCh /\ pc' # "push"
    BY <1>6 DEF Connect, Authenticate, AuthSend, AuthSendFails, AuthSkips, AuthAccepts,
                AuthRefuses, AuthReadFails, AuthGivesUp, AuthPasses, chanVars
  <2> QED
    BY <1>1, <2>1
<1>7. CASE Reader
  <2>1. Scan \/ Push \/ (recvCh' = recvCh /\ pc' # "push")
    BY <1>7 DEF Reader, ReaderCheckDone, ScanFails, FailedDone, FailedEof, FailedError, PushDone,
                ReaderAt, chanVars
  <2> QED
    BY <1>1, <1>3, <1>4, <2>1
<1>8. CASE Reconnect
  <2>1. recvCh' = recvCh /\ pc' # "push"
    BY <1>8 DEF Reconnect, Enter, Callback, CheckDone, OpenFails, OpenSucceeds, GiveUp, ReaderAt,
                chanVars
  <2> QED
    BY <1>1, <2>1
<1>9. CASE Send \/ Receive \/ Close \/ Device \/ UNCHANGED vars
  <2>1. ReceiveLine \/ UNCHANGED <<recvCh, pc, hand>>
    BY <1>9 DEF Send, Receive, ReceiveError, Close, CloseDone, CloseConn, Device, Logs, Speaks,
                Transmit, Lost, vars, chanVars
  <2> QED
    BY <1>2, <1>5, <2>1
<1> QED
    BY <1>6, <1>7, <1>8, <1>9 DEF Next

\* What SerialLink does not see.
LEMMA LinkStutters ==
    ASSUME UNCHANGED <<lines, granted, written, last>>
    PROVE  UNCHANGED Link!vars
BY DEF Link!vars

\* Receive returns the line that comes next.
LEMMA LinkDelivers ==
    ASSUME TypeOK, OrderInv, JsonInv, AuthBeforeUse, ReceiveLine
    PROVE  Link!Next
<1> DEFINE m == Head(recvCh)
<1>1. recvCh # <<>> /\ last' = m /\ UNCHANGED <<lines, granted, written>>
    BY DEF ReceiveLine, deviceVars
<1>2. m \in Line /\ m = recvCh[1] /\ 1 \in 1..Len(recvCh) /\ 1 \in DOMAIN recvCh
    BY <1>1 DEF TypeOK
<1>3. FromPort(m) /\ (Token => m.port \in granted)
    BY <1>2 DEF JsonInv, AuthBeforeUse, UsedPorts
<1>4. Taken[1] = last /\ Taken[2] = m /\ 1 \in 1..Len(Taken) - 1 /\ 2 \in 1..Len(Taken)
  <2>1. Taken[1] = last /\ Taken[2] = m
    BY <1>1, <1>2 DEF Taken, TypeOK
  <2>2. Len(recvCh) \in Nat \ {0} /\ Len(Taken) = Len(recvCh) + (IF pc = "push" THEN 2 ELSE 1)
    BY <1>1, TakenShape DEF TypeOK
  <2> QED
    BY <2>1, <2>2
<1>5. Follows(last, m) /\ m.n <= lines
    BY <1>4 DEF OrderInv, TakenInOrder
<1>6. m.n \in Nat /\ last.n \in Nat /\ lines \in Nat
    BY <1>2, BoundsAssumption DEF TypeOK, Line
<1> HIDE DEF m
<1>7. m.n \in 1..lines /\ last.n < m.n /\ (m.port = last.port => m.n = last.n + 1)
    BY <1>3, <1>5, <1>6 DEF Follows, FromPort
<1>8. Link!Deliver(m.port, m.n)
    BY <1>1, <1>3, <1>7 DEF Link!Deliver, Link!Usable
<1> QED
    BY <1>3, <1>7, <1>8 DEF Link!Next, FromPort

\* Every step is one of SerialLink or changes nothing that it sees.
LEMMA LinkStep ==
    ASSUME TypeOK, OrderInv, JsonInv, AuthBeforeUse, AuthBeforeUse', [Next]_vars
    PROVE  [Link!Next]_(Link!vars)
<1>1. conn # NoPort => conn \in Ports
    BY BoundsAssumption DEF TypeOK, Ports, NoPort
<1>2. CASE Connect \/ Authenticate
  <2>1. UNCHANGED <<lines, granted, written, last>>
    BY <1>2 DEF Connect, Authenticate, AuthSend, AuthSendFails, AuthSkips, AuthAccepts,
                AuthRefuses, AuthReadFails, AuthGivesUp, AuthPasses, histVars
  <2> QED
    BY <2>1, LinkStutters
<1>3. CASE Reader
  <2>1. UNCHANGED <<lines, granted, written, last>>
    BY <1>3 DEF Reader, ReaderCheckDone, Scan, ScanFails, FailedDone, FailedEof, FailedError,
                Push, PushDone, ReaderAt, histVars
  <2> QED
    BY <2>1, LinkStutters
<1>4. CASE Reconnect
  <2>1. UNCHANGED <<lines, granted, written, last>>
    BY <1>4 DEF Reconnect, Enter, Callback, CheckDone, OpenFails, OpenSucceeds, GiveUp, ReaderAt,
                histVars
  <2> QED
    BY <2>1, LinkStutters
<1>5. CASE Send
  <2>1. conn \in Ports /\ written' = written \union {conn} /\ UNCHANGED <<lines, granted, last>>
    BY <1>1, <1>5 DEF Send, deviceVars
  <2>2. Token => conn \in granted
    BY <2>1 DEF AuthBeforeUse, UsedPorts
  <2>3. Link!Request(conn)
    BY <2>1, <2>2 DEF Link!Request, Link!Usable
  <2> QED
    BY <2>1, <2>3 DEF Link!Next
<1>6. CASE ReceiveLine
    BY <1>6, LinkDelivers
<1>7. CASE ReceiveError \/ Close \/ Logs \/ Lost \/ UNCHANGED vars
  <2>1. UNCHANGED <<lines, granted, written, last>>
    BY <1>7 DEF ReceiveError, Close, CloseDone, CloseConn, Logs, Transmit, Lost, vars, deviceVars,
                histVars
  <2> QED
    BY <2>1, LinkStutters
<1>8. ASSUME NEW kind \in Json, Speaks(kind) PROVE Link!Next
  <2>1. /\ conn \in Ports /\ lines' = lines + 1 /\ granted' \in {granted, granted \union {conn}}
        /\ UNCHANGED <<written, last>>
    BY <1>1, <1>8 DEF Speaks, Transmit, histVars
  <2>2. Link!Speak(conn)
    BY <2>1 DEF Link!Speak
  <2> QED
    BY <2>1, <2>2 DEF Link!Next
<1> QED
    BY <1>2, <1>3, <1>4, <1>5, <1>6, <1>7, <1>8 DEF Next, Receive, Device

\* Whatever is lost or refused, and however often the port is opened again, Receive and Send
\* keep the promise of SerialLink.
THEOREM SerialImplementsLink == Spec => ImplementsLink
<1>1. Init => Link!Init
    BY DEF Init, NoLine, NoPort, Link!Init, Link!NoPort
<1>2. Init => JsonInv
    BY DEF Init, JsonInv
<1>3. TypeOK /\ TypeOK' /\ OrderInv /\ JsonInv /\ [Next]_vars => JsonInv'
    BY JsonStep DEF OrderInv
<1>4. TypeOK /\ OrderInv /\ JsonInv /\ AuthBeforeUse /\ AuthBeforeUse' /\ [Next]_vars
          => [Link!Next]_(Link!vars)
    BY LinkStep
<1> QED
    BY <1>1, <1>2, <1>3, <1>4, SerialTypes, OrderHolds, NothingUsedUnauthenticated,
       PTL DEF Spec, ImplementsLink, Link!Spec
====
