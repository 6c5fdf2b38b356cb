---- MODULE BleLines ----
(***************************************************************************)
(* transport/ble.go: lines over Bluetooth.  A message and its newline are  *)
(* cut into the chunks of single writes; notifications bring pieces of     *)
(* lines; the token of authenticate is a line whose write is tried again   *)
(* as long as it cannot have been written in part.  These are functions of *)
(* their inputs, compared with a reference over all short inputs.          *)
(***************************************************************************)
EXTENDS Integers, Sequences

CONSTANTS
    NL,         \* the byte that ends a line
    Letters,    \* the other bytes
    ChunkSize,  \* bleChunkSize
    Retries,    \* bleAuthWriteRetries
    RecvCap,    \* capacity of recvCh, 32 in the code
    MaxLen      \* bound: bytes of the inputs considered

ASSUME SizesAssumption ==
    /\ NL \notin Letters
    /\ ChunkSize \in Nat \ {0} /\ Retries \in Nat \ {0}
    /\ RecvCap \in Nat \ {0} /\ MaxLen \in Nat

\* The sequences of up to n elements.
UpTo(S, n) == UNION {[1..m -> S] : m \in 0..n}

Texts == UpTo(Letters, MaxLen)
Streams == UpTo(Letters \union {NL}, MaxLen)

\* A loop: what step makes of st with one item after the other.
Loop(step(_, _), st, items) ==
    LET after[i \in 0..Len(items)] == IF i = 0 THEN st ELSE step(after[i - 1], items[i])
    IN  after[Len(items)]

-----------------------------------------------------------------------------
(* From the device: onNotification. *)

\* Mutant: the buffer is reset only if the line was delivered.
DeliveredResets(st, byte) ==
    IF byte # NL THEN [st EXCEPT !.lineBuf = Append(@, byte)]
    ELSE IF st.lineBuf # <<>> /\ Len(st.recvCh) < RecvCap
         THEN [st EXCEPT !.lineBuf = <<>>, !.recvCh = Append(@, st.lineBuf)]
         ELSE st

\* What one byte does to the buffered line and the received ones: a newline takes
\* the line away, whether it is empty, delivered, or dropped at a full channel.
TakeByte(st, byte) ==
    IF byte # NL THEN [st EXCEPT !.lineBuf = Append(@, byte)]
    ELSE [st EXCEPT !.lineBuf = <<>>,
                    !.recvCh = IF st.lineBuf # <<>> /\ Len(@) < RecvCap
                               THEN Append(@, st.lineBuf) ELSE @]

onNotification(st, data) == Loop(TakeByte, st, data)

\* A Receive that takes a line, if there is one.
Receive(st) ==
    IF st.recvCh = <<>> THEN st
    ELSE [st EXCEPT !.received = Append(@, Head(st.recvCh)), !.recvCh = Tail(@)]

Buffered(text) == [lineBuf |-> text, recvCh |-> <<>>, received |-> <<>>]

-----------------------------------------------------------------------------
(* To the device: Send, and what the device reads. *)

\* Mutant: a chunk ends where the next one begins, both included.
OverlappingChunk(payload, i) ==
    SubSeq(payload, i * ChunkSize + 1, IF (i + 1) * ChunkSize + 1 > Len(payload)
                                       THEN Len(payload) ELSE (i + 1) * ChunkSize + 1)

\* The i-th write of Send, counted from 0; the last one is what is left.
Chunk(payload, i) ==
    SubSeq(payload, i * ChunkSize + 1, IF (i + 1) * ChunkSize > Len(payload)
                                       THEN Len(payload) ELSE (i + 1) * ChunkSize)

Chunks(payload) ==
    [i \in 1..((Len(payload) + ChunkSize - 1) \div ChunkSize) |-> Chunk(payload, i - 1)]

\* How the next write ends: those that st.outs does not list succeed. "busy" is bluez's
\* "In Progress"; "lost" is a write that returns no error and never reaches the device.
NextOut(st) == IF st.outs = <<>> THEN "none" ELSE Head(st.outs)

\* One WriteWithoutResponse: none of a Send's chunks is written after one failed. Once
\* a write is lost the bond is, and on that link no later write reaches the device.
Write(st, chunk) ==
    LET bond == st.bond /\ NextOut(st) # "lost"
    IN  IF st.err # "none" THEN st
        ELSE [device |-> IF bond /\ NextOut(st) = "none" THEN st.device \o chunk ELSE st.device,
              bond |-> bond,
              err |-> IF NextOut(st) = "lost" THEN "none" ELSE NextOut(st),
              outs |-> IF st.outs = <<>> THEN <<>> ELSE Tail(st.outs)]

Send(st, data) == Loop(Write, [st EXCEPT !.err = "none"], Chunks(Append(data, NL)))

\* A new link: nothing written yet, and how the writes to come will end.
Fresh(outs) == [device |-> <<>>, bond |-> TRUE, err |-> "none", outs |-> outs]

\* The lines of a stream, and the beginning of the next one.
LineEnds(stream) == {i \in 1..Len(stream) : stream[i] = NL}
Begin(stream, end) == 1 + (CHOOSE k \in {0} \union LineEnds(stream) :
    /\ k < end
    /\ \A j \in LineEnds(stream) : j < end => j <= k)
Line(stream, end) == SubSeq(stream, Begin(stream, end), end - 1)
Lines(stream) ==
    LET AddLine(lines, end) ==
            IF stream[end] = NL /\ Line(stream, end) # <<>>
            THEN Append(lines, Line(stream, end)) ELSE lines
    IN  Loop(AddLine, <<>>, [i \in 1..Len(stream) |-> i])
Rest(stream) == Line(stream, Len(stream) + 1)

-----------------------------------------------------------------------------
(* The token: bleAuthAttempts and retrySend. *)

\* Mutant: the newline that Send appends is not counted.
AttemptsWithoutNewline(token) == IF Len(token) > ChunkSize THEN 1 ELSE Retries

bleAuthAttempts(token) == IF Len(token) + 1 > ChunkSize THEN 1 ELSE Retries

isTransient(err) == err = "busy"

\* The token is sent until it is written or fails for good; the context ends in
\* the wait after as many attempts as patience says.
retrySend(st, token, patience) ==
    LET Attempt(s, i) ==
            IF i = 1 \/ isTransient(s.err)
            THEN IF i > patience THEN [s EXCEPT !.err = "cancelled"] ELSE Send(s, token)
            ELSE s
    IN  Loop(Attempt, st, [i \in 1..bleAuthAttempts(token) |-> i])

-----------------------------------------------------------------------------
(* Properties. *)

Min2(a, b) == IF a < b THEN a ELSE b
Outcomes == [1..MaxLen -> {"none", "busy", "failed", "lost"}]

\* Lines 387-403, 519-528: in whatever pieces they come and whenever one is received,
\* lines are delivered in order and those that find the channel full are dropped
\* without a trace. Whatever an earlier link left in the buffer is put in front of the
\* first line, which is no complete message then, as line 518 says it is, and of no other.
LinesArrive ==
    \A old \in UpTo(Letters, 1), s \in Streams : \A k \in 0..Len(s), taken \in 0..1 :
        LET early == onNotification(Buffered(old), SubSeq(s, 1, k))
            st == onNotification(IF taken = 1 THEN Receive(early) ELSE early,
                                 SubSeq(s, k + 1, Len(s)))
            lines == Lines(old \o s)
            before == Len(Lines(old \o SubSeq(s, 1, k)))
            room == RecvCap - Len(early.recvCh) + Len(st.received)
        IN  /\ early.recvCh = SubSeq(lines, 1, Min2(before, RecvCap))
            /\ st.received \o st.recvCh =
                   early.recvCh \o SubSeq(lines, before + 1, Min2(Len(lines), before + room))
            /\ st.lineBuf = Rest(old \o s)

\* Lines 501-514: a Send that fails in the middle spoils the message that follows it,
\* in front of which its first chunks stay, and no other.
FailedSendSpoilsOne ==
    \A m \in Texts, next, last \in UpTo(Letters, 2) \ {<<>>} :
        \A k \in 1..Len(Chunks(Append(m, NL))) :
            LET outs == [i \in 1..k |-> IF i = k THEN "failed" ELSE "none"]
                st == Send(Send(Send(Fresh(outs), m), next), last)
            IN  Lines(st.device) = <<SubSeq(m, 1, (k - 1) * ChunkSize) \o next, last>>

\* Lines 322-354: however the writes end, the device reads the token once or never,
\* never a piece of it in front of a second try. It has read it exactly if success is
\* reported and no write of the link was lost without an error.
TokenIsWrittenOnce ==
    \A token \in Texts \ {<<>>}, outs \in Outcomes, patience \in 1..Retries :
        LET st == retrySend(Fresh(outs), token, patience)
        IN  Lines(st.device) = IF st.err = "none" /\ st.bond THEN <<token>> ELSE <<>>
====
