---- MODULE ScreenshotTransferProofs ----
(***************************************************************************)
(* Proofs about ScreenshotTransfer, for every number of goroutines, every  *)
(* size and every device: type correctness, NeverOverruns, ShotIsComplete, *)
(* and SingleImage when one goroutine at a time captures.                  *)
(***************************************************************************)
EXTENDS ScreenshotTransfer, SequenceTheorems, TLAPS

\* The pixels of a chunk are at the positions it says.
ChunkSound(k) == \A i \in 1..Len(k.data) : k.data[i][2] = k.offset + i - 1

LEMMA SpanSound ==
    ASSUME NEW f \in Frames, NEW o \in Nat, NEW n \in Nat
    PROVE  /\ Span(f, o, n) \in Seq(Pixel)
           /\ Len(Span(f, o, n)) = n
           /\ \A i \in 1..n : Span(f, o, n)[i][2] = o + i - 1
<1>1. \A k \in 1..n : <<f, o + k - 1>> \in Pixel
    BY DEF Pixel
<1> QED
    BY <1>1 DEF Span

\* What a device answers is a chunk, honest or not.
LEMMA AnswersSound ==
    ASSUME NEW h \in [frame : Frames, size : Int], NEW o \in Nat, NEW k \in Answers(h, o)
    PROVE  k \in Chunk /\ ChunkSound(k)
<1> USE SizesAssumption
<1>1. ASSUME NEW t \in Int, NEW p \in Nat, NEW n \in Nat, NEW e \in {"none", "error", "base64"},
             k = [total |-> t, offset |-> p, data |-> Span(h.frame, p, n), flaw |-> e]
      PROVE  k \in Chunk /\ ChunkSound(k)
  <2>1. h.frame \in Frames
    OBVIOUS
  <2>2. k.data = Span(h.frame, p, n) /\ k.offset = p
    BY <1>1
  <2>3. k \in Chunk
    BY <1>1, <2>1, SpanSound DEF Chunk
  <2> QED
    BY <2>1, <2>2, <2>3, SpanSound DEF ChunkSound
<1>2. CASE Honest
  <2>1. PICK n \in IF o < h.size
                     THEN 1..(IF h.size - o < MaxChunk THEN h.size - o ELSE MaxChunk)
                     ELSE {0} :
            k = [total |-> h.size, offset |-> o, data |-> Span(h.frame, o, n), flaw |-> "none"]
    BY <1>2 DEF Answers
  <2>2. n \in Nat /\ h.size \in Int
    OBVIOUS
  <2> QED
    BY <1>1, <2>1, <2>2
<1>3. CASE ~Honest
  <2>1. PICK t \in Sizes, p \in 0..MaxBytes, n \in 0..MaxChunk, e \in {"none", "error", "base64"} :
            k = [total |-> t, offset |-> p, data |-> Span(h.frame, p, n), flaw |-> e]
    BY <1>3 DEF Answers
  <2>2. t \in Int /\ p \in Nat /\ n \in Nat
    OBVIOUS
  <2> QED
    BY <1>1, <2>1, <2>2
<1> QED
    BY <1>2, <1>3

-----------------------------------------------------------------------------
(* The inductive invariant. *)

\* What a goroutine has collected fills its buffer from the start without a gap, and
\* the chunk it is about to look at says where it belongs.  A goroutine that has
\* accepted nothing has nothing; one that still fetches lacks something; only one
\* whose buffer is full is done.
Filled(c) ==
    /\ Len(pixels[c]) <= total[c]
    /\ \A i \in 1..Len(pixels[c]) : pixels[c][i][2] = i - 1
    /\ ChunkSound(reply[c])
    /\ pc[c] \in {"idle", "capture", "first"} => pixels[c] = <<>> /\ total[c] = 0
    /\ pc[c] = "done" => total[c] > 0 /\ Len(pixels[c]) = total[c]

FillInv == TypeOK /\ \A c \in Callers : Filled(c)

LEMMA FillInit == Init => FillInv
<1> SUFFICES ASSUME Init PROVE FillInv
    OBVIOUS
<1> USE SizesAssumption DEF Init
<1>1. NoChunk \in Chunk /\ ChunkSound(NoChunk)
    BY DEF NoChunk, Chunk, ChunkSound
<1>2. TypeOK
    BY <1>1 DEF TypeOK, Frames
<1>3. ASSUME NEW c \in Callers PROVE Filled(c)
    BY <1>1 DEF Filled
<1> QED
    BY <1>2, <1>3 DEF FillInv

\* An accepted chunk continues what was collected.
LEMMA AcceptFills ==
    ASSUME FillInv, NEW c \in Callers, AcceptChunk(c)
    PROVE  /\ FrameTotal(c) \in 1..MaxBytes
           /\ pixels'[c] \in Seq(Pixel)
           /\ Len(pixels'[c]) = Len(pixels[c]) + Len(reply[c].data)
           /\ Len(pixels'[c]) <= FrameTotal(c)
           /\ \A i \in 1..Len(pixels'[c]) : pixels'[c][i][2] = i - 1
<1> USE DEF FillInv, TypeOK
<1>1. reply[c] \in Chunk /\ pixels[c] \in Seq(Pixel) /\ reply[c].data \in Seq(Pixel)
    BY DEF Chunk
<1>2. pixels'[c] = pixels[c] \o reply[c].data
    BY DEF AcceptChunk
<1>3. pixels'[c] \in Seq(Pixel) /\ Len(pixels'[c]) = Len(pixels[c]) + Len(reply[c].data)
    BY <1>1, <1>2
<1>4. reply[c].offset = Len(pixels[c]) /\ Len(pixels'[c]) <= FrameTotal(c)
    BY <1>3 DEF AcceptChunk, Acceptable, InOrder, Fits
<1>5. FrameTotal(c) \in 1..MaxBytes
  <2>1. CASE pc[c] = "first"
    BY <2>1 DEF AcceptChunk, Acceptable, TotalAccepted, FrameTotal
  <2>2. CASE pc[c] # "first"
    <3>1. FrameTotal(c) = total[c] /\ total[c] \in 0..MaxBytes
      BY <2>2 DEF FrameTotal
    <3>2. Len(reply[c].data) > 0
      BY <1>1 DEF AcceptChunk, Acceptable, Advances
    <3>3. Len(pixels'[c]) > 0
      BY <1>1, <1>3, <3>2
    <3> QED
      BY <1>3, <1>4, <3>1, <3>3, SizesAssumption
  <2> QED
    BY <2>1, <2>2
<1>6. ASSUME NEW i \in 1..Len(pixels'[c]) PROVE pixels'[c][i][2] = i - 1
  <2>1. CASE i \in 1..Len(pixels[c])
    <3>1. pixels'[c][i] = pixels[c][i]
      BY <1>1, <1>2, <2>1
    <3> QED
      BY <2>1, <3>1 DEF Filled
  <2>2. CASE i \notin 1..Len(pixels[c])
    <3> DEFINE j == i - Len(pixels[c])
    <3>1. j \in 1..Len(reply[c].data) /\ pixels'[c][i] = reply[c].data[j]
      BY <1>1, <1>2, <1>3, <2>2
    <3>2. reply[c].data[j][2] = Len(pixels[c]) + j - 1
      <4>1. ChunkSound(reply[c])
        BY DEF Filled
      <4> QED
        BY <1>4, <3>1, <4>1 DEF ChunkSound
    <3>3. pixels'[c][i][2] = Len(pixels[c]) + j - 1
      BY <3>1, <3>2
    <3>4. i \in Int /\ Len(pixels[c]) \in Int
      BY <1>1, <1>3
    <3> QED
      BY <3>3, <3>4
  <2> QED
    BY <2>1, <2>2
<1> QED
    BY <1>3, <1>4, <1>5, <1>6

LEMMA FillStep == FillInv /\ [Next]_vars => FillInv'
<1> SUFFICES ASSUME FillInv, [Next]_vars PROVE FillInv'
    OBVIOUS
<1> USE SizesAssumption
<1>0. NoChunk \in Chunk /\ ChunkSound(NoChunk)
    BY DEF NoChunk, Chunk, ChunkSound
<1>1. ASSUME NEW c \in Callers, Screenshot(c) PROVE FillInv'
    BY <1>1 DEF Screenshot, FillInv, TypeOK, Filled, Asking, Replied
<1>2. ASSUME NEW c \in Callers, ServeCapture(c) PROVE FillInv'
  <2>1. held' \in [frame : Frames, size : Int]
    BY <1>2 DEF ServeCapture, FillInv, TypeOK, Frames
  <2>2. reply'[c] \in Chunk /\ ChunkSound(reply'[c]) /\ reply' = [reply EXCEPT ![c] = reply'[c]]
    BY <1>2, <2>1, AnswersSound DEF ServeCapture, FillInv, TypeOK
  <2>3. TypeOK'
    BY <1>2, <2>1, <2>2 DEF ServeCapture, FillInv, TypeOK, Replied
  <2>4. ASSUME NEW d \in Callers PROVE Filled(d)'
    BY <1>2, <2>2 DEF ServeCapture, FillInv, TypeOK, Filled
  <2> QED
    BY <2>3, <2>4 DEF FillInv
<1>3. ASSUME NEW c \in Callers, ServeFetch(c) PROVE FillInv'
  <2>1. Len(pixels[c]) \in Nat /\ held \in [frame : Frames, size : Int]
    BY DEF FillInv, TypeOK
  <2>2. reply'[c] \in Chunk /\ ChunkSound(reply'[c]) /\ reply' = [reply EXCEPT ![c] = reply'[c]]
    BY <1>3, <2>1, AnswersSound DEF ServeFetch, FillInv, TypeOK
  <2>3. TypeOK'
    BY <1>3, <2>1, <2>2 DEF ServeFetch, FillInv, TypeOK, Replied
  <2>4. ASSUME NEW d \in Callers PROVE Filled(d)'
    BY <1>3, <2>2 DEF ServeFetch, FillInv, TypeOK, Filled
  <2> QED
    BY <2>3, <2>4 DEF FillInv
<1>4. ASSUME NEW c \in Callers, FetchFails(c) \/ RejectChunk(c) PROVE FillInv'
  <2>1. pc' = [pc EXCEPT ![c] = "failed"] /\ UNCHANGED <<held, total, pixels, reply>>
    BY <1>4 DEF FetchFails, RejectChunk
  <2>2. TypeOK'
    BY <2>1 DEF FillInv, TypeOK
  <2>3. ASSUME NEW d \in Callers PROVE Filled(d)'
    <3>1. pc'[d] = pc[d] \/ pc'[d] = "failed"
      BY <2>1 DEF FillInv, TypeOK
    <3> QED
      BY <2>1, <3>1 DEF FillInv, Filled
  <2> QED
    BY <2>2, <2>3 DEF FillInv
<1>5. ASSUME NEW c \in Callers, AcceptChunk(c) PROVE FillInv'
  <2>1. /\ total' = [total EXCEPT ![c] = FrameTotal(c)]
        /\ reply' = [reply EXCEPT ![c] = NoChunk]
        /\ pc' = [pc EXCEPT ![c] = IF Len(pixels[c]) + Len(reply[c].data) = FrameTotal(c)
                                   THEN "done" ELSE "fetch"]
        /\ pixels' = [pixels EXCEPT ![c] = pixels'[c]]
        /\ held' = held
    BY <1>5 DEF AcceptChunk, FillInv, TypeOK
  <2>2. TypeOK'
    <3>1. FrameTotal(c) \in 0..MaxBytes /\ pixels'[c] \in Seq(Pixel)
      <4>1. FrameTotal(c) \in 1..MaxBytes /\ pixels'[c] \in Seq(Pixel)
        BY <1>5, AcceptFills
      <4> QED
        BY <4>1
    <3>2. total' \in [Callers -> 0..MaxBytes] /\ pixels' \in [Callers -> Seq(Pixel)]
      BY <2>1, <3>1 DEF FillInv, TypeOK
    <3>3. reply' \in [Callers -> Chunk]
      BY <1>0, <2>1 DEF FillInv, TypeOK
    <3>4. pc' \in [Callers -> {"idle", "done", "failed"} \union Asking \union Replied]
      BY <2>1 DEF FillInv, TypeOK, Asking
    <3>5. held' \in [frame : Frames, size : Int]
      BY <2>1 DEF FillInv, TypeOK
    <3> QED
      BY <3>2, <3>3, <3>4, <3>5 DEF TypeOK
  <2>3. ASSUME NEW d \in Callers PROVE Filled(d)'
    <3>1. CASE d = c
      <4>1. total'[c] = FrameTotal(c) /\ reply'[c] = NoChunk
        BY <2>1 DEF FillInv, TypeOK
      <4>2. pc'[c] = IF Len(pixels'[c]) = FrameTotal(c) THEN "done" ELSE "fetch"
        <5>1. Len(pixels'[c]) = Len(pixels[c]) + Len(reply[c].data)
          BY <1>5, AcceptFills
        <5> QED
          BY <2>1, <5>1 DEF FillInv, TypeOK
      <4>3. /\ FrameTotal(c) \in 1..MaxBytes
            /\ Len(pixels'[c]) <= FrameTotal(c)
            /\ \A i \in 1..Len(pixels'[c]) : pixels'[c][i][2] = i - 1
        BY <1>5, AcceptFills
      <4> QED
        BY <1>0, <3>1, <4>1, <4>2, <4>3 DEF Filled
    <3>2. CASE d # c
      <4>1. /\ pc'[d] = pc[d] /\ total'[d] = total[d] /\ pixels'[d] = pixels[d]
            /\ reply'[d] = reply[d]
        BY <2>1, <3>2 DEF FillInv, TypeOK
      <4> QED
        BY <4>1 DEF FillInv, Filled
    <3> QED
      BY <3>1, <3>2
  <2> QED
    BY <2>2, <2>3 DEF FillInv
<1>6. ASSUME NEW c \in Callers, Return(c) PROVE FillInv'
    BY <1>0, <1>6 DEF Return, FillInv, TypeOK, Filled
<1>7. ASSUME UNCHANGED vars PROVE FillInv'
    BY <1>7 DEF vars, FillInv, TypeOK, Filled
<1> QED
    BY <1>1, <1>2, <1>3, <1>4, <1>5, <1>6, <1>7 DEF Next, Serve, Handle

\* Every reachable state of assembleScreenshot is well typed.
THEOREM ScreenshotTypes == Spec => []TypeOK
<1>1. FillInv => TypeOK
    BY DEF FillInv
<1> QED
    BY <1>1, FillInit, FillStep, PTL DEF Spec

\* No device can make a screenshot collect more than it announced first.
THEOREM ScreenshotsNeverOverrun == Spec => []NeverOverruns
<1>1. FillInv => NeverOverruns
    BY DEF FillInv, Filled, NeverOverruns
<1> QED
    BY <1>1, FillInit, FillStep, PTL DEF Spec

\* A screenshot that is returned is complete, every pixel in its place.
THEOREM ShotsAreComplete == Spec => []ShotIsComplete
<1>1. FillInv => ShotIsComplete
    BY DEF FillInv, Filled, ShotIsComplete
<1> QED
    BY <1>1, FillInit, FillStep, PTL DEF Spec

-----------------------------------------------------------------------------
(* One frame, when there is one goroutine. *)

AllOf(ps, f) == \A i \in 1..Len(ps) : ps[i][1] = f

\* From the answer to the capture on, what has been collected and what has just come are
\* of the frame the device holds.
OfHeldFrame(c) ==
    /\ pc[c] \in Replied \union {"fetch", "done"} => AllOf(pixels[c], held.frame)
    /\ pc[c] \in Replied => AllOf(reply[c].data, held.frame)

\* Whatever a device says of a chunk, its pixels are of the frame it holds.
LEMMA AnswersOfHeld ==
    ASSUME NEW h \in [frame : Frames, size : Int], NEW o \in Nat, NEW k \in Answers(h, o)
    PROVE  AllOf(k.data, h.frame)
<1>1. \A p \in Nat, n \in Nat : AllOf(Span(h.frame, p, n), h.frame)
    BY DEF Span, AllOf
<1>2. CASE Honest
    BY <1>1, <1>2, SizesAssumption DEF Answers
<1>3. CASE ~Honest
    BY <1>1, <1>3, SizesAssumption DEF Answers
<1> QED
    BY <1>2, <1>3

\* Only the goroutine itself could have the frame replaced.
LEMMA HeldFrameStep ==
    ASSUME \A b, c \in Callers : b = c,
           FillInv, NEW c \in Callers, OfHeldFrame(c), [Next]_vars
    PROVE  OfHeldFrame(c)'
<1> USE DEF FillInv, TypeOK, Asking, Replied
<1>1. CASE ServeCapture(c)
  <2>1. held' \in [frame : Frames, size : Int] /\ pc'[c] = "first" /\ pixels'[c] = <<>>
    BY <1>1, SizesAssumption DEF ServeCapture, Filled, Frames
  <2>2. AllOf(reply'[c].data, held'.frame)
    BY <1>1, <2>1, AnswersOfHeld DEF ServeCapture
  <2> QED
    BY <2>1, <2>2 DEF OfHeldFrame, AllOf
<1>2. CASE ServeFetch(c)
  <2>1. held' = held /\ pc[c] = "fetch" /\ pixels' = pixels /\ Len(pixels[c]) \in Nat
    BY <1>2 DEF ServeFetch
  <2>2. AllOf(reply'[c].data, held.frame)
    BY <1>2, <2>1, AnswersOfHeld DEF ServeFetch
  <2> QED
    BY <2>1, <2>2 DEF OfHeldFrame
<1>3. CASE AcceptChunk(c)
  <2>1. /\ held' = held /\ pc[c] \in Replied /\ pc'[c] \notin Replied
        /\ pixels'[c] = pixels[c] \o reply[c].data
        /\ pixels[c] \in Seq(Pixel) /\ reply[c].data \in Seq(Pixel)
    BY <1>3 DEF AcceptChunk, Chunk
  <2>2. AllOf(pixels[c], held.frame) /\ AllOf(reply[c].data, held.frame)
    BY <2>1 DEF OfHeldFrame
  <2>3. AllOf(pixels[c] \o reply[c].data, held.frame)
    <3>1. ASSUME NEW i \in 1..Len(pixels[c] \o reply[c].data)
          PROVE  \/ i \in 1..Len(pixels[c]) /\ (pixels[c] \o reply[c].data)[i] = pixels[c][i]
                 \/ \E j \in 1..Len(reply[c].data) :
                        (pixels[c] \o reply[c].data)[i] = reply[c].data[j]
      <4>1. CASE i <= Len(pixels[c])
        BY <2>1, <4>1
      <4>2. CASE i > Len(pixels[c])
        <5>1. /\ i - Len(pixels[c]) \in 1..Len(reply[c].data)
              /\ (pixels[c] \o reply[c].data)[i] = reply[c].data[i - Len(pixels[c])]
          BY <2>1, <4>2
        <5> QED
          BY <5>1
      <4> QED
        BY <2>1, <4>1, <4>2
    <3> QED
      BY <2>2, <3>1 DEF AllOf
  <2> QED
    BY <2>1, <2>3 DEF OfHeldFrame
<1>4. CASE Screenshot(c) \/ FetchFails(c) \/ RejectChunk(c) \/ Return(c)
  <2>1. pc'[c] \in {"capture", "failed", "idle"}
    BY <1>4 DEF Screenshot, FetchFails, RejectChunk, Return
  <2> QED
    BY <2>1 DEF OfHeldFrame
<1>5. CASE UNCHANGED vars
    BY <1>5 DEF vars, OfHeldFrame
<1> QED
    BY <1>1, <1>2, <1>3, <1>4, <1>5 DEF Next, Serve, Handle

\* As long as one goroutine takes screenshots, a screenshot is of one frame, whatever sizes
\* and offsets the device reports.
THEOREM SingleCallerSingleImage ==
    ASSUME \A b, c \in Callers : b = c
    PROVE  Spec => []SingleImage
<1> DEFINE HeldInv == \A c \in Callers : OfHeldFrame(c)
<1>1. Init => HeldInv
    BY DEF Init, OfHeldFrame, Replied
<1>2. FillInv /\ HeldInv /\ [Next]_vars => HeldInv'
    BY HeldFrameStep
<1>3. HeldInv => SingleImage
    BY DEF OfHeldFrame, AllOf, SingleImage
<1> QED
    BY <1>1, <1>2, <1>3, FillInit, FillStep, PTL DEF Spec
====
