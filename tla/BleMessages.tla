---- MODULE BleMessages ----
(***************************************************************************)
(* transport/ble.go: one BLE transport over several links.  connect keeps  *)
(* the line buffer and recvCh of the link before, so that what was left    *)
(* there meets the messages of the new link, the answer to its token       *)
(* included.  Flags, loops and reports are those of BleTransport; lines    *)
(* and writes are those of BleLines.                                       *)
(*                                                                         *)
(* A message is a line of two letters, its first and its last part.  The   *)
(* letters carry what the message says and the link it was sent on.        *)
(***************************************************************************)
EXTENDS BleLines

CONSTANTS
    Tokens,      \* auth tokens that may be set, <<>> being none
    Secret,      \* the token that the device accepts
    Endings,     \* how the writes of a token may end: the cases considered
    MaxLinks,    \* bound: links
    MaxMessages  \* bound: messages the device sends by itself on one link

ASSUME TokensAssumption ==
    /\ Tokens \subseteq Seq(Letters)
    /\ Endings \subseteq Seq({"none", "busy", "failed", "lost"})
    /\ MaxLinks \in Nat /\ MaxMessages \in Nat

VARIABLES
    link,   \* number of the link, 0 before the first
    phase,  \* "down", or where Connect is: "write", "ack", and "open" when it has returned
    token,  \* BLE.authToken of this link
    sent,   \* what was written on this link, as in BleLines
    wire,   \* bytes of this link that the device has still to notify
    input,  \* lineBuf, recvCh, and the lines that Receive has returned
    ack,    \* the line that authenticate took on this link, <<>> before
    count   \* messages the device has sent by itself on this link

vars == <<link, phase, token, sent, wire, input, ack, count>>

-----------------------------------------------------------------------------
(* Messages. *)

\* What a line says as far as validateBLEAuthAck can tell: {"result": {"ok": true}},
\* whatever its id, an error, a notification, bytes that are not JSON.
Ack == [decodes |-> TRUE, error |-> FALSE, ok |-> TRUE]
Refusal == [decodes |-> TRUE, error |-> TRUE, ok |-> FALSE]
Notice == [decodes |-> TRUE, error |-> FALSE, ok |-> FALSE]
Torn == [decodes |-> FALSE, error |-> FALSE, ok |-> FALSE]

Letter(says, n, last) == [says |-> says, link |-> n, last |-> last]
Message(says, n) == <<Letter(says, n, FALSE), Letter(says, n, TRUE)>>
Said == {Ack, Refusal, Notice}

IsMessage(line) == \E says \in Said, n \in 1..link : line = Message(says, n)
Decoded(line) == IF IsMessage(line) THEN line[1].says ELSE Torn

\* Mutant: a result is not asked for.
AckWithoutResult(line) == line.decodes /\ ~line.error

\* An error member that is null counts as none.
validateBLEAuthAck(line) == line.decodes /\ ~line.error /\ line.ok

Init ==
    /\ link = 0 /\ phase = "down" /\ token = <<>> /\ sent = Fresh(<<>>)
    /\ wire = <<>> /\ input = Buffered(<<>>) /\ ack = <<>> /\ count = 0

-----------------------------------------------------------------------------
(* Connect and authenticate. *)

\* connect up to its section under mu, after SetAuthToken or not: the buffer and the
\* channel stay as they are. Without a token authenticate returns at once.
Connect ==
    /\ phase = "down" /\ link < MaxLinks
    /\ link' = link + 1
    /\ token' \in Tokens
    /\ phase' = IF token' = <<>> THEN "open" ELSE "write"
    /\ sent' = Fresh(<<>>) /\ ack' = <<>> /\ count' = 0
    /\ UNCHANGED <<wire, input>>

\* The device answers the first line of a link, if there is one.
Answer(device) ==
    IF Lines(device) = <<>> THEN <<>>
    ELSE Append(Message(IF Lines(device)[1] = Secret THEN Ack ELSE Refusal, link), NL)

\* The link is down: what it did not deliver is gone.
Down == phase' = "down" /\ wire' = <<>>

\* The token's write, with its retries, whose wait the context may end.
WriteToken ==
    /\ phase = "write"
    /\ \E outs \in Endings, patience \in 1..Retries :
           sent' = retrySend(Fresh(outs), token, patience)
    /\ IF sent'.err = "none"
       THEN phase' = "ack" /\ wire' = wire \o Answer(sent'.device)
       ELSE Down
    /\ UNCHANGED <<link, token, input, ack, count>>

\* The Receive of authenticate takes the oldest line there is.
TakeAck ==
    /\ phase = "ack"
    /\ input.recvCh # <<>>
    /\ ack' = Head(input.recvCh)
    /\ input' = Receive(input)
    /\ IF validateBLEAuthAck(Decoded(ack'))
       THEN phase' = "open" /\ UNCHANGED wire
       ELSE Down
    /\ UNCHANGED <<link, token, sent, count>>

\* Close, a loss of the link, or the end of authenticate's context. Receive may still
\* choose a line for authenticate, and Connect succeed: as if it had taken it before.
Drop ==
    /\ phase # "down"
    /\ Down
    /\ UNCHANGED <<link, token, sent, input, ack, count>>

-----------------------------------------------------------------------------
(* The device, and the readers of the transport. *)

\* The device has read the secret as the first line of this link, and nothing else.
Accepted == Lines(sent.device) = <<Secret>>

\* A notification at any time, the answer to a call where the device takes calls:
\* on a link without a token, or one it has accepted.
DeviceSends(says) ==
    /\ phase # "down" /\ count < MaxMessages
    /\ says = Ack => phase = "open" /\ (token = <<>> \/ Accepted)
    /\ count' = count + 1
    /\ wire' = wire \o Append(Message(says, link), NL)
    /\ UNCHANGED <<link, phase, token, sent, input, ack>>

\* onNotification, byte by byte, as no lock keeps a Receive from coming in between.
Notify ==
    /\ wire # <<>>
    /\ input' = TakeByte(input, Head(wire))
    /\ wire' = Tail(wire)
    /\ UNCHANGED <<link, phase, token, sent, ack, count>>

\* A Receive of the protocol's reader: recvCh goes on being read when closeCh is closed,
\* and nothing keeps a reader away while authenticate waits.
Read ==
    /\ input.recvCh # <<>>
    /\ input' = Receive(input)
    /\ UNCHANGED <<link, phase, token, sent, wire, ack, count>>

Next ==
    \/ Connect \/ WriteToken \/ TakeAck \/ Drop \/ Notify \/ Read
    \/ \E says \in {Notice, Ack} : DeviceSends(says)

Spec == Init /\ [][Next]_vars

-----------------------------------------------------------------------------
(* Properties. *)

\* Lines 286-314, 363-385: a link with a token is opened only if the device has read that
\* very token, and it is the right one, or by a line that an earlier link has left. Then
\* the token may be a wrong one, although lines 280-283 say that it gets an error.
AuthByAcceptance ==
    phase = "open" /\ token # <<>> =>
        \/ Accepted /\ token = Secret
        \/ ack[1].link < link
====
