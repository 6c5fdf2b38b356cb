---- MODULE ScreenshotTransfer ----
(***************************************************************************)
(* screenshot.go: a frame is captured by one RPC and paged out of the      *)
(* device by as many more as it takes.  Several goroutines may take        *)
(* screenshots through one Client; the device holds one frame, which every *)
(* capture replaces.  The device is not trusted: what it reports of a      *)
(* chunk may be anything.                                                  *)
(*                                                                         *)
(* A pixel is the pair of the frame it belongs to and its position there.  *)
(* Width, height and format are copied from the first chunk and left out.  *)
(***************************************************************************)
EXTENDS Integers, Sequences

CONSTANTS
    Callers,     \* goroutines that call Client.Screenshot
    MaxBytes,    \* maxScreenshotBytes, 32 MiB in the code
    Sizes,       \* sizes a frame may have or be said to have
    MaxChunk,    \* bound: pixels in one chunk
    MaxFrames,   \* bound: captures the device serves
    Honest       \* whether the device reports what it does

ASSUME SizesAssumption ==
    /\ MaxBytes \in Nat \ {0}
    /\ Sizes \subseteq Int
    /\ MaxChunk \in Nat /\ MaxFrames \in Nat
    /\ Honest \in BOOLEAN

VARIABLES
    held,    \* the frame the device holds: its number and its size
    pc,      \* pc[c]: where c is in assembleScreenshot
    total,   \* total[c]: first.Total, once the first chunk is accepted
    pixels,  \* pixels[c]: shot.Pixels
    reply    \* reply[c]: the chunk the last fetch of c returned

vars == <<held, pc, total, pixels, reply>>

Frames == 0..MaxFrames
Pixel == Frames \X Nat
Chunk == [total : Int, offset : Int, data : Seq(Pixel), flaw : {"none", "error", "base64"}]
NoChunk == [total |-> 0, offset |-> 0, data |-> <<>>, flaw |-> "none"]

\* capture:true is outstanding, or a fetch at offset Len(pixels[c]).
Asking == {"capture", "fetch"}
\* The reply to the one or to the other is there.
Replied == {"first", "more"}

Init ==
    /\ held = [frame |-> 0, size |-> 0]
    /\ pc = [c \in Callers |-> "idle"]
    /\ total = [c \in Callers |-> 0]
    /\ pixels = [c \in Callers |-> <<>>]
    /\ reply = [c \in Callers |-> NoChunk]

\* Screenshot is called: the first fetch asks for a capture.
Screenshot(c) ==
    /\ pc[c] = "idle"
    /\ pc' = [pc EXCEPT ![c] = "capture"]
    /\ UNCHANGED <<held, total, pixels, reply>>

-----------------------------------------------------------------------------
(* The device. *)

\* n pixels of frame f from position o on.
Span(f, o, n) == [k \in 1..n |-> <<f, o + k - 1>>]

\* What the device may answer when frame h is held and offset o is asked for.
\* An honest one sends pixels from o on, at least one unless o is past the end.
Answers(h, o) ==
    IF Honest
    THEN {[total |-> h.size, offset |-> o, data |-> Span(h.frame, o, n), flaw |-> "none"] :
             n \in IF o < h.size
                   THEN 1..(IF h.size - o < MaxChunk THEN h.size - o ELSE MaxChunk)
                   ELSE {0}}
    ELSE {[total |-> t, offset |-> p, data |-> Span(h.frame, p, n), flaw |-> e] :
             t \in Sizes, p \in 0..MaxBytes, n \in 0..MaxChunk,
             e \in {"none", "error", "base64"}}

ServeCapture(c) ==
    /\ pc[c] = "capture"
    /\ held.frame < MaxFrames
    /\ \E s \in Sizes :
          held' = [frame |-> held.frame + 1, size |-> s]
    /\ \E k \in Answers(held', 0) : reply' = [reply EXCEPT ![c] = k]
    /\ pc' = [pc EXCEPT ![c] = "first"]
    /\ UNCHANGED <<total, pixels>>

ServeFetch(c) ==
    /\ pc[c] = "fetch"
    /\ \E k \in Answers(held, Len(pixels[c])) : reply' = [reply EXCEPT ![c] = k]
    /\ pc' = [pc EXCEPT ![c] = "more"]
    /\ UNCHANGED <<held, total, pixels>>

\* The RPC behind a fetch fails: an error reply, a context that ended, a client
\* that is closed, a result that does not decode.
FetchFails(c) ==
    /\ pc[c] \in Asking
    /\ pc' = [pc EXCEPT ![c] = "failed"]
    /\ UNCHANGED <<held, total, pixels, reply>>

-----------------------------------------------------------------------------
(* The client's handling of one chunk k, from one fetch to the next. *)

\* What the size of the frame is taken to be: the first chunk says it.
FrameTotal(c) == IF pc[c] = "first" THEN reply[c].total ELSE total[c]

\* Mutant: the cap on the size is forgotten.
AnyTotal(c) == IF pc[c] = "first" THEN reply[c].total > 0 ELSE reply[c].total = total[c]

\* The first chunk's size is accepted, a later chunk repeats it.
TotalAccepted(c) ==
    IF pc[c] = "first" THEN reply[c].total \in 1..MaxBytes ELSE reply[c].total = total[c]

\* Mutant: the offset of a chunk is not looked at.
AnyOrder(c) == reply[c].offset \in Nat

InOrder(c) == reply[c].offset = Len(pixels[c])

\* Mutant: the last chunk may run past the end.
StartsInside(c) == Len(pixels[c]) < FrameTotal(c)

Fits(c) == Len(pixels[c]) + Len(reply[c].data) <= FrameTotal(c)

\* Mutant: an empty chunk counts as progress.
EmptyAdvances(c) == reply[c].data \in Seq(Pixel)

Advances(c) == reply[c].data # <<>>

Acceptable(c) ==
    /\ reply[c].flaw = "none"
    /\ TotalAccepted(c)
    /\ InOrder(c)
    /\ Fits(c)
    /\ Advances(c)

RejectChunk(c) ==
    /\ pc[c] \in Replied
    /\ ~Acceptable(c)
    /\ pc' = [pc EXCEPT ![c] = "failed"]
    /\ UNCHANGED <<held, total, pixels, reply>>

AcceptChunk(c) ==
    /\ pc[c] \in Replied
    /\ Acceptable(c)
    /\ total' = [total EXCEPT ![c] = FrameTotal(c)]
    /\ pixels' = [pixels EXCEPT ![c] = @ \o reply[c].data]
    /\ pc' = [pc EXCEPT ![c] =
                 IF Len(pixels[c]) + Len(reply[c].data) = FrameTotal(c) THEN "done" ELSE "fetch"]
    /\ reply' = [reply EXCEPT ![c] = NoChunk]
    /\ UNCHANGED held

\* The caller takes the shot or the error; the next call starts afresh.
Return(c) ==
    /\ pc[c] \in {"done", "failed"}
    /\ pc' = [pc EXCEPT ![c] = "idle"]
    /\ total' = [total EXCEPT ![c] = 0]
    /\ pixels' = [pixels EXCEPT ![c] = <<>>]
    /\ reply' = [reply EXCEPT ![c] = NoChunk]
    /\ UNCHANGED held

Serve(c) == ServeCapture(c) \/ ServeFetch(c) \/ FetchFails(c)

Handle(c) == RejectChunk(c) \/ AcceptChunk(c)

Next == \E c \in Callers : Screenshot(c) \/ Serve(c) \/ Handle(c) \/ Return(c)

Spec == Init /\ [][Next]_vars

\* A fetch comes back, with a chunk or with an error (the context of the call may
\* end), and the goroutine that waits for it goes on.
Fairness == \A c \in Callers : WF_vars(Serve(c)) /\ WF_vars(Handle(c))

FairSpec == Spec /\ Fairness

-----------------------------------------------------------------------------
(* Properties. *)

\* Every variable has its type.  For total that is lines 86-99: no number the device
\* reports makes the client allocate more than maxScreenshotBytes.
TypeOK ==
    /\ held \in [frame : Frames, size : Int]
    /\ pc \in [Callers -> {"idle", "done", "failed"} \union Asking \union Replied]
    /\ total \in [Callers -> 0..MaxBytes]
    /\ pixels \in [Callers -> Seq(Pixel)]
    /\ reply \in [Callers -> Chunk]

\* Lines 101-121: whatever sizes and chunks the device reports, the bytes collected
\* never exceed the size announced first, for which the buffer was made.
NeverOverruns == \A c \in Callers : Len(pixels[c]) <= total[c]

\* Lines 108-132: a shot that is returned has exactly the announced size, and every
\* pixel is at the position the device said it has, without a gap or an overlap.
ShotIsComplete ==
    \A c \in Callers : pc[c] = "done" =>
        /\ total[c] > 0
        /\ Len(pixels[c]) = total[c]
        /\ \A k \in 1..Len(pixels[c]) : pixels[c][k][2] = k - 1

\* Lines 50-53, "the result is a single consistent image rather than a composite of
\* several": all pixels of a shot are of one frame.
SingleImage ==
    \A c \in Callers : pc[c] = "done" =>
        \A k, l \in 1..Len(pixels[c]) : pixels[c][k][1] = pixels[c][l][1]

\* Lines 122-127: no chunk sequence keeps a capture going for ever; as every fetch
\* comes back, each screenshot ends.
CaptureEnds ==
    \A c \in Callers :
        (pc[c] \in Asking \union Replied) ~> (pc[c] \in {"done", "failed"})
====
