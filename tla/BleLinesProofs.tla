---- MODULE BleLinesProofs ----
(***************************************************************************)
(* Proofs about BleLines, for every alphabet, size, capacity and length:   *)
(* lines arrive in order, a Send that fails spoils one message, the token  *)
(* is written once; and about BleMessages: what opens a link.  Loops are   *)
(* followed by induction on the number of steps, from the fact that a set  *)
(* of numbers has a least one: there is no first step that breaks the      *)
(* claim.                                                                  *)
(***************************************************************************)
EXTENDS MCBleMessages, SequenceTheorems, WellFoundedInduction, TLAPS

-----------------------------------------------------------------------------
(* Induction, from the well-foundedness of the natural numbers. *)

Smaller == {p \in Nat \X Nat : p[1] < p[2]}

LEMMA SmallerIsWellFounded == IsWellFoundedOn(Smaller, Nat)
<1>1. OpToRel(<, Nat) = Smaller
    BY DEF OpToRel, Smaller
<1> QED
    BY <1>1, NatLessThanWellFounded

LEMMA LeastNumber ==
    ASSUME NEW T \in SUBSET Nat, T # {}
    PROVE  \E x \in T : \A y \in T : x <= y
<1>1. PICK x \in T : \A y \in T : <<y, x>> \notin Smaller
    BY SmallerIsWellFounded, WFMin
<1>2. ASSUME NEW y \in T, y < x PROVE FALSE
  <2>1. x \in Nat /\ y \in Nat
    OBVIOUS
  <2>2. <<y, x>> \in Smaller
    BY <1>2, <2>1 DEF Smaller
  <2> QED
    BY <1>1, <2>2
<1>3. \A y \in T : x \in Int /\ y \in Int
    OBVIOUS
<1> QED
    BY <1>2, <1>3

\* A set that has 0 and with every number below n the next one has those up to n.
LEMMA Induction ==
    ASSUME NEW n \in Nat, NEW T, 0 \in T, \A i \in 0..(n - 1) : i \in T => i + 1 \in T
    PROVE  0..n \subseteq T
<1> SUFFICES ASSUME NEW j \in 0..n, j \notin T PROVE FALSE
    OBVIOUS
<1> DEFINE Missing == {i \in 0..n : i \notin T}
<1>1. Missing \in SUBSET Nat /\ Missing # {}
    OBVIOUS
<1>2. PICK x \in Missing : \A y \in Missing : x <= y
    BY <1>1, LeastNumber
<1>3. x \in 0..n /\ x \notin T /\ x # 0
    BY <1>2
<1>4. x - 1 \in 0..(n - 1)
    BY <1>3
<1>5. x - 1 \in T
    BY <1>2, <1>3, <1>4
<1>6. (x - 1) + 1 \in T
    BY <1>4, <1>5
<1> QED
    BY <1>3, <1>6

-----------------------------------------------------------------------------
(* Loops. *)

IsRun(g, step, st, n, items) ==
    g[0] = st /\ \A i \in 1..n : g[i] = step[<<g[i - 1], items[i]>>]

\* A function of a state and an item can be iterated over the items.
LEMMA Iterates ==
    ASSUME NEW S, NEW E, NEW step \in [S \X E -> S], NEW st \in S, NEW n \in Nat,
           NEW items \in [1..n -> E]
    PROVE  \E g \in [0..n -> S] : IsRun(g, step, st, n, items)
<1> DEFINE Upto(m, g) == g[0] = st /\ \A i \in 1..m : g[i] = step[<<g[i - 1], items[i]>>]
           T == {m \in 0..n : \E g \in [0..m -> S] : Upto(m, g)}
<1>1. 0 \in T
  <2>1. [i \in 0..0 |-> st] \in [0..0 -> S] /\ Upto(0, [i \in 0..0 |-> st])
    OBVIOUS
  <2> HIDE DEF Upto
  <2>2. 0 \in 0..n /\ \E g \in [0..0 -> S] : Upto(0, g)
    BY <2>1
  <2> QED
    BY <2>2
<1>2. ASSUME NEW m \in 0..(n - 1), m \in T PROVE m + 1 \in T
  <2>1. PICK g \in [0..m -> S] : Upto(m, g)
    BY <1>2
  <2> DEFINE h == [i \in 0..(m + 1) |->
                      IF i = m + 1 THEN step[<<g[m], items[m + 1]>>] ELSE g[i]]
  <2>2. m + 1 \in 1..n /\ m \in 0..m
    OBVIOUS
  <2>3. step[<<g[m], items[m + 1]>>] \in S
    BY <2>2
  <2>4. h \in [0..(m + 1) -> S]
    BY <2>3
  <2>5. Upto(m + 1, h)
    <3>1. h[0] = st
      BY <2>1
    <3>2. ASSUME NEW i \in 1..(m + 1) PROVE h[i] = step[<<h[i - 1], items[i]>>]
      <4>1. i - 1 \in 0..(m + 1) /\ i - 1 # m + 1 /\ i \in 0..(m + 1)
        OBVIOUS
      <4>2. h[i - 1] = g[i - 1]
        BY <4>1
      <4>3. CASE i = m + 1
        BY <4>1, <4>2, <4>3
      <4>4. CASE i # m + 1
        <5>1. i \in 1..m
          BY <4>4
        <5>2. g[i] = step[<<g[i - 1], items[i]>>]
          BY <2>1, <5>1
        <5> QED
          BY <4>1, <4>2, <4>4, <5>2
      <4> QED
        BY <4>3, <4>4
    <3> QED
      BY <3>1, <3>2
  <2>6. m + 1 \in 0..n
    OBVIOUS
  <2> HIDE DEF h
  <2> QED
    BY <2>4, <2>5, <2>6
<1>3. n \in 0..n
    OBVIOUS
<1> HIDE DEF T
<1>4. n \in T
    BY <1>1, <1>2, <1>3, Induction
<1> QED
    BY <1>4 DEF T, IsRun

\* What such an iteration passes through is in S.
LEMMA StaysIn ==
    ASSUME NEW S, NEW n \in Nat, NEW h, h[0] \in S, \A i \in 1..n : h[i - 1] \in S => h[i] \in S
    PROVE  \A i \in 0..n : h[i] \in S
<1> DEFINE T == {i \in 0..n : h[i] \in S}
<1>1. 0 \in T
    OBVIOUS
<1>2. ASSUME NEW i \in 0..(n - 1), i \in T PROVE i + 1 \in T
  <2>1. i + 1 \in 1..n /\ (i + 1) - 1 = i
    OBVIOUS
  <2> QED
    BY <1>2, <2>1
<1> HIDE DEF T
<1>3. 0..n \subseteq T
    BY <1>1, <1>2, Induction
<1> QED
    BY <1>3 DEF T

Bytes == Letters \union {NL}

Lined == [lineBuf : Seq(Letters), recvCh : Seq(Seq(Letters)), received : Seq(Seq(Letters))]

LEMMA TakeByteTyped ==
    ASSUME NEW st \in Lined, NEW byte \in Bytes
    PROVE  TakeByte(st, byte) \in Lined
<1>1. st.lineBuf \in Seq(Letters) /\ st.recvCh \in Seq(Seq(Letters))
    BY DEF Lined
<1>2. Append(st.recvCh, st.lineBuf) \in Seq(Seq(Letters)) /\ <<>> \in Seq(Letters)
    BY <1>1
<1>3. byte # NL => Append(st.lineBuf, byte) \in Seq(Letters)
    BY <1>1 DEF Bytes
<1> QED
    BY <1>1, <1>2, <1>3 DEF Lined, TakeByte

\* The states of onNotification after each byte.
LEMMA NotificationSteps ==
    ASSUME NEW st \in Lined, NEW data \in Seq(Bytes)
    PROVE  \E h : /\ h[0] = st
                  /\ \A i \in 1..Len(data) : h[i] = TakeByte(h[i - 1], data[i])
                  /\ \A i \in 0..Len(data) : h[i] \in Lined
                  /\ onNotification(st, data) = h[Len(data)]
<1> DEFINE n == Len(data)
           step == [p \in Lined \X Bytes |-> TakeByte(p[1], p[2])]
           Runs(f) == f = [i \in 0..n |-> IF i = 0 THEN st ELSE TakeByte(f[i - 1], data[i])]
<1>1. n \in Nat /\ data \in [1..n -> Bytes]
    OBVIOUS
<1>2. step \in [Lined \X Bytes -> Lined]
    BY TakeByteTyped
<1>3. \A s \in Lined, e \in Bytes : step[<<s, e>>] = TakeByte(s, e)
    OBVIOUS
<1> HIDE DEF n, step
<1>4. PICK g \in [0..n -> Lined] : IsRun(g, step, st, n, data)
    BY <1>1, <1>2, Iterates
<1>5. \A i \in 1..n : g[i] = TakeByte(g[i - 1], data[i])
  <2> SUFFICES ASSUME NEW i \in 1..n PROVE g[i] = TakeByte(g[i - 1], data[i])
    OBVIOUS
  <2>1. i - 1 \in 0..n
    BY <1>1
  <2> QED
    BY <1>1, <1>3, <1>4, <2>1 DEF IsRun
<1>6. Runs(g)
  <2>1. \A i \in 0..n : g[i] = IF i = 0 THEN st ELSE TakeByte(g[i - 1], data[i])
    BY <1>1, <1>4, <1>5 DEF IsRun
  <2> QED
    BY <2>1
<1> DEFINE h == CHOOSE f : Runs(f)
<1>7. onNotification(st, data) = h[n]
    BY DEF onNotification, Loop, n
<1>8. Runs(h)
    BY <1>6
<1> HIDE DEF h
<1>9. h[0] = st /\ \A i \in 1..n : h[i] = TakeByte(h[i - 1], data[i])
    BY <1>1, <1>8
<1>10. \A i \in 0..n : h[i] \in Lined
    BY <1>1, <1>9, TakeByteTyped, StaysIn
<1> QED
    BY <1>7, <1>9, <1>10 DEF n

-----------------------------------------------------------------------------
(* The lines of a stream, as bytes are added to it. *)

\* k is where the last line end before end is, or 0.
LastEnd(stream, end, k) ==
    /\ k \in {0} \union LineEnds(stream)
    /\ k < end
    /\ \A j \in LineEnds(stream) : j < end => j <= k

LEMMA LastEndExists ==
    ASSUME NEW stream \in Seq(Bytes), NEW end \in 1..(Len(stream) + 1)
    PROVE  \E k \in 0..(end - 1) : LastEnd(stream, end, k)
<1> DEFINE Ends == {j \in LineEnds(stream) : j < end}
           Above == {u \in Nat : \A j \in Ends : j <= u}
<1>1. Len(stream) \in Nat /\ Ends \subseteq 1..(end - 1)
    BY DEF LineEnds
<1>2. Above \in SUBSET Nat /\ end - 1 \in Above
    BY <1>1
<1>3. PICK k \in Above : \A u \in Above : k <= u
    BY <1>2, LeastNumber
<1>4. k \in 0..(end - 1)
    BY <1>2, <1>3
<1>5. k \in {0} \union Ends
  <2> SUFFICES ASSUME k # 0, k \notin Ends PROVE FALSE
    OBVIOUS
  <2>1. k - 1 \in Nat
    BY <1>4
  <2>2. \A j \in Ends : j <= k - 1
    BY <1>1, <1>3, <1>4
  <2>3. k - 1 \in Above
    BY <2>1, <2>2
  <2> QED
    BY <1>3, <1>4, <2>3
<1>6. LastEnd(stream, end, k)
    BY <1>3, <1>4, <1>5 DEF LastEnd
<1> QED
    BY <1>4, <1>6

LEMMA LastEndUnique ==
    ASSUME NEW stream \in Seq(Bytes), NEW end \in 1..(Len(stream) + 1),
           NEW k, LastEnd(stream, end, k)
    PROVE  Begin(stream, end) = 1 + k
<1>1. Begin(stream, end) = 1 + CHOOSE i \in {0} \union LineEnds(stream) :
                                   i < end /\ \A j \in LineEnds(stream) : j < end => j <= i
    BY DEF Begin
<1>2. PICK c \in {0} \union LineEnds(stream) :
          /\ c < end /\ \A j \in LineEnds(stream) : j < end => j <= c
          /\ Begin(stream, end) = 1 + c
    BY <1>1 DEF LastEnd
<1>3. k \in Nat /\ c \in Nat /\ k < end /\ \A j \in LineEnds(stream) : j < end => j <= k
    BY DEF LastEnd, LineEnds
<1>4. c <= k /\ k <= c
    BY <1>2, <1>3 DEF LastEnd
<1> QED
    BY <1>2, <1>3, <1>4

\* A byte more does not change where the lines before it begin and what they are.
LEMMA LineOfAppend ==
    ASSUME NEW stream \in Seq(Bytes), NEW byte \in Bytes, NEW end \in 1..(Len(stream) + 1)
    PROVE  /\ Begin(Append(stream, byte), end) = Begin(stream, end)
           /\ Line(Append(stream, byte), end) = Line(stream, end)
<1> DEFINE more == Append(stream, byte)
<1>1. more \in Seq(Bytes) /\ Len(more) = Len(stream) + 1 /\ Len(stream) \in Nat
    OBVIOUS
<1>2. \A i \in 1..Len(stream) : more[i] = stream[i]
    OBVIOUS
<1> HIDE DEF more
<1>3. PICK k \in 0..(end - 1) : LastEnd(stream, end, k)
    BY LastEndExists
<1>4. \A j \in Nat : j < end => (j \in LineEnds(more) <=> j \in LineEnds(stream))
    BY <1>1, <1>2 DEF LineEnds
<1>5. LastEnd(more, end, k)
  <2>1. k \in {0} \union LineEnds(more)
    BY <1>3, <1>4 DEF LastEnd
  <2>2. \A j \in LineEnds(more) : j \in Nat
    BY DEF LineEnds
  <2> QED
    BY <1>3, <1>4, <2>1, <2>2 DEF LastEnd
<1>6. Begin(more, end) = 1 + k /\ Begin(stream, end) = 1 + k
    BY <1>1, <1>3, <1>5, LastEndUnique
<1>7. SubSeq(more, 1 + k, end - 1) = SubSeq(stream, 1 + k, end - 1)
    BY <1>1, <1>2, <1>3 DEF more
<1> QED
    BY <1>6, <1>7 DEF Line, more

LEMMA RestOfAppend ==
    ASSUME NEW stream \in Seq(Bytes), NEW byte \in Bytes
    PROVE  Rest(Append(stream, byte)) = IF byte = NL THEN <<>> ELSE Append(Rest(stream), byte)
<1> DEFINE more == Append(stream, byte)
           n == Len(stream)
<1>1. more \in Seq(Bytes) /\ Len(more) = n + 1 /\ n \in Nat
    OBVIOUS
<1>2. more[n + 1] = byte /\ \A i \in 1..n : more[i] = stream[i]
    OBVIOUS
<1> HIDE DEF more
<1>3. CASE byte = NL
  <2>1. LastEnd(more, n + 2, n + 1)
    BY <1>1, <1>2, <1>3 DEF LastEnd, LineEnds
  <2>2. Begin(more, n + 2) = n + 2
    BY <1>1, <2>1, LastEndUnique
  <2>3. Rest(more) = SubSeq(more, n + 2, n + 1)
    BY <1>1, <2>2 DEF Rest, Line
  <2> QED
    BY <1>1, <1>3, <2>3 DEF more
<1>4. CASE byte # NL
  <2>1. PICK k \in 0..n : LastEnd(stream, n + 1, k)
    BY <1>1, LastEndExists
  <2>2. LineEnds(more) = LineEnds(stream)
    BY <1>1, <1>2, <1>4 DEF LineEnds
  <2>3. LastEnd(more, n + 2, k)
    BY <1>1, <2>1, <2>2 DEF LastEnd, LineEnds
  <2>4. Begin(more, n + 2) = 1 + k /\ Begin(stream, n + 1) = 1 + k
    BY <1>1, <2>1, <2>3, LastEndUnique
  <2>5. Rest(more) = SubSeq(more, 1 + k, n + 1) /\ Rest(stream) = SubSeq(stream, 1 + k, n)
    BY <1>1, <2>4 DEF Rest, Line
  <2>6. SubSeq(more, 1 + k, n + 1) = Append(SubSeq(stream, 1 + k, n), byte)
    <3> DEFINE long == SubSeq(more, 1 + k, n + 1)
               short == SubSeq(stream, 1 + k, n)
    <3>1. long \in Seq(Bytes) /\ Len(long) = n - k + 1 /\ \A i \in 1..(n - k + 1) : long[i] = more[k + i]
      <4>1. more \in Seq(Bytes) /\ Len(more) = n + 1 /\ n \in Nat /\ k \in 0..n
        BY <1>1, <2>1
      <4>2. \A i \in (1 + k)..(n + 1) : i \in 1..Len(more)
        BY <4>1
      <4> QED
        BY <4>1, <4>2, SubSeqProperties
    <3>2. short \in Seq(Bytes) /\ Len(short) = n - k /\ \A i \in 1..(n - k) : short[i] = stream[k + i]
      BY <1>1, <2>1
    <3> HIDE DEF long, short
    <3>3. /\ Append(short, byte) \in Seq(Bytes) /\ Len(Append(short, byte)) = n - k + 1
          /\ \A i \in 1..(n - k) : Append(short, byte)[i] = short[i]
          /\ Append(short, byte)[n - k + 1] = byte
      BY <1>1, <2>1, <3>2
    <3>4. \A i \in 1..(n - k + 1) : long[i] = Append(short, byte)[i]
      <4> SUFFICES ASSUME NEW i \in 1..(n - k + 1) PROVE long[i] = Append(short, byte)[i]
        OBVIOUS
      <4>1. CASE i = n - k + 1
        BY <1>1, <1>2, <2>1, <3>1, <3>3, <4>1
      <4>2. CASE i # n - k + 1
        <5>1. i \in 1..(n - k) /\ k + i \in 1..n
          BY <1>1, <2>1, <4>2
        <5> QED
          BY <1>2, <3>1, <3>2, <3>3, <5>1
      <4> QED
        BY <4>1, <4>2
    <3> QED
      BY <3>1, <3>3, <3>4, SeqEqual DEF long, short
  <2> QED
    BY <1>4, <2>5, <2>6 DEF more
<1> QED
    BY <1>3, <1>4

LEMMA RestOfNothing == Rest(<<>>) = <<>>
<1>1. <<>> \in Seq(Bytes) /\ Len(<<>>) = 0
    OBVIOUS
<1>2. LastEnd(<<>>, 1, 0)
    BY <1>1 DEF LastEnd, LineEnds
<1>3. Begin(<<>>, 1) = 1
  <2>1. 1 \in 1..(Len(<<>>) + 1)
    BY <1>1
  <2>2. Begin(<<>>, 1) = 1 + 0
    BY <1>1, <1>2, <2>1, LastEndUnique
  <2> QED
    BY <2>2
<1> QED
    BY <1>1, <1>3 DEF Rest, Line

\* The rest of a stream has no line end in it, since every byte behind one is a letter.
LEMMA LineTyped ==
    ASSUME NEW stream \in Seq(Bytes), NEW end \in 1..(Len(stream) + 1)
    PROVE  Line(stream, end) \in Seq(Letters)
<1>1. PICK k \in 0..(end - 1) : LastEnd(stream, end, k)
    BY LastEndExists
<1>2. Line(stream, end) = SubSeq(stream, 1 + k, end - 1)
    BY <1>1, LastEndUnique DEF Line
<1>3. \A i \in (1 + k)..(end - 1) : stream[i] \in Letters
  <2> SUFFICES ASSUME NEW i \in (1 + k)..(end - 1) PROVE stream[i] \in Letters
    OBVIOUS
  <2>1. i \in 1..Len(stream) /\ stream[i] \in Bytes
    OBVIOUS
  <2>2. i \notin LineEnds(stream)
    BY <1>1 DEF LastEnd
  <2> QED
    BY <2>1, <2>2 DEF LineEnds, Bytes
<1>4. Len(stream) \in Nat /\ 1 + k \in Int /\ end - 1 \in Int
    OBVIOUS
<1> QED
    BY <1>2, <1>3, <1>4, SubSeqProperties

\* What the loop of Lines has collected after each byte.
LineStep(stream, lines, end) ==
    IF stream[end] = NL /\ Line(stream, end) # <<>>
    THEN Append(lines, Line(stream, end)) ELSE lines

LEMMA LinesSteps ==
    ASSUME NEW stream \in Seq(Bytes)
    PROVE  \E h : /\ h[0] = <<>>
                  /\ \A i \in 1..Len(stream) : h[i] = LineStep(stream, h[i - 1], i)
                  /\ \A i \in 0..Len(stream) : h[i] \in Seq(Seq(Letters))
                  /\ Lines(stream) = h[Len(stream)]
<1> DEFINE n == Len(stream)
           S == Seq(Seq(Letters))
           items == [i \in 1..n |-> i]
           step == [p \in S \X (1..n) |-> LineStep(stream, p[1], p[2])]
           Runs(f) == f = [i \in 0..n |-> IF i = 0 THEN <<>>
                                          ELSE LineStep(stream, f[i - 1], items[i])]
<1>1. n \in Nat /\ items \in [1..n -> 1..n] /\ Len(items) = n /\ <<>> \in S
    OBVIOUS
<1>2. \A lines \in S, end \in 1..n : LineStep(stream, lines, end) \in S
    BY <1>1, LineTyped DEF LineStep
<1>3. step \in [S \X (1..n) -> S]
    BY <1>2
<1>4. \A lines \in S, end \in 1..n : step[<<lines, end>>] = LineStep(stream, lines, end)
    OBVIOUS
<1>5. \A i \in 1..n : items[i] = i
    OBVIOUS
<1> HIDE DEF n, step, S, items
<1>6. PICK g \in [0..n -> S] : IsRun(g, step, <<>>, n, items)
    BY <1>1, <1>3, Iterates
<1>7. \A i \in 1..n : g[i] = LineStep(stream, g[i - 1], items[i])
  <2> SUFFICES ASSUME NEW i \in 1..n PROVE g[i] = LineStep(stream, g[i - 1], items[i])
    OBVIOUS
  <2>1. i - 1 \in 0..n
    BY <1>1
  <2> QED
    BY <1>1, <1>4, <1>5, <1>6, <2>1 DEF IsRun
<1>8. Runs(g)
  <2>1. \A i \in 0..n : g[i] = IF i = 0 THEN <<>> ELSE LineStep(stream, g[i - 1], items[i])
    BY <1>1, <1>6, <1>7 DEF IsRun
  <2> QED
    BY <2>1
<1> DEFINE h == CHOOSE f : Runs(f)
<1>9. Lines(stream) = h[n]
  <2>1. Lines(stream) = (CHOOSE f : f = [i \in 0..Len(items) |->
                            IF i = 0 THEN <<>>
                            ELSE LineStep(stream, f[i - 1], items[i])])[Len(items)]
    BY DEF Lines, Loop, LineStep, items, n
  <2> QED
    BY <1>1, <2>1
<1>10. Runs(h)
    BY <1>8
<1> HIDE DEF h
<1>11. h[0] = <<>> /\ \A i \in 1..n : h[i] = LineStep(stream, h[i - 1], i)
    BY <1>1, <1>5, <1>10
<1>12. \A i \in 0..n : h[i] \in S
    BY <1>1, <1>2, <1>11, StaysIn
<1> QED
    BY <1>9, <1>11, <1>12 DEF n, S

LEMMA LinesTyped == ASSUME NEW stream \in Seq(Bytes) PROVE Lines(stream) \in Seq(Seq(Letters))
<1>1. Len(stream) \in 0..Len(stream)
    OBVIOUS
<1> QED
    BY <1>1, LinesSteps

LEMMA LinesOfNothing == Lines(<<>>) = <<>>
<1>1. <<>> \in Seq(Bytes) /\ Len(<<>>) = 0
    OBVIOUS
<1> QED
    BY <1>1, LinesSteps

LEMMA LinesOfAppend ==
    ASSUME NEW stream \in Seq(Bytes), NEW byte \in Bytes
    PROVE  Lines(Append(stream, byte)) =
               IF byte = NL /\ Rest(stream) # <<>> THEN Append(Lines(stream), Rest(stream))
               ELSE Lines(stream)
<1> DEFINE more == Append(stream, byte)
           n == Len(stream)
<1>1. more \in Seq(Bytes) /\ Len(more) = n + 1 /\ n \in Nat
    OBVIOUS
<1>2. more[n + 1] = byte /\ \A i \in 1..n : more[i] = stream[i]
    OBVIOUS
<1>3. \A i \in 1..(n + 1) : Line(more, i) = Line(stream, i)
    BY LineOfAppend
<1> HIDE DEF more
<1>4. PICK h : /\ h[0] = <<>> /\ \A i \in 1..n : h[i] = LineStep(stream, h[i - 1], i)
               /\ Lines(stream) = h[n]
    BY LinesSteps
<1>5. PICK g : /\ g[0] = <<>> /\ \A i \in 1..(n + 1) : g[i] = LineStep(more, g[i - 1], i)
               /\ Lines(more) = g[n + 1]
    BY <1>1, LinesSteps
<1>6. \A i \in 1..n : \A lines : LineStep(more, lines, i) = LineStep(stream, lines, i)
    BY <1>2, <1>3 DEF LineStep
<1> DEFINE T == {i \in 0..n : g[i] = h[i]}
<1>7. 0 \in T
    BY <1>1, <1>4, <1>5
<1>8. ASSUME NEW i \in 0..(n - 1), i \in T PROVE i + 1 \in T
  <2>1. i + 1 \in 1..n /\ i + 1 \in 1..(n + 1) /\ (i + 1) - 1 = i /\ g[i] = h[i]
    BY <1>1, <1>8
  <2>2. g[i + 1] = LineStep(more, g[i], i + 1) /\ h[i + 1] = LineStep(stream, h[i], i + 1)
    BY <1>4, <1>5, <2>1
  <2> QED
    BY <1>6, <2>1, <2>2
<1> HIDE DEF T
<1>9. n \in T
  <2>1. n \in Nat /\ n \in 0..n
    BY <1>1
  <2> HIDE DEF n
  <2>2. 0..n \subseteq T
    BY <1>7, <1>8, <2>1, Induction
  <2> QED
    BY <2>1, <2>2
<1>10. g[n] = Lines(stream)
    BY <1>4, <1>9 DEF T
<1>11. g[n + 1] = LineStep(more, g[n], n + 1)
    BY <1>1, <1>5
<1>12. Line(more, n + 1) = Rest(stream)
    BY <1>1, <1>3 DEF Rest
<1> QED
    BY <1>2, <1>5, <1>10, <1>11, <1>12 DEF LineStep, more

-----------------------------------------------------------------------------
(* Streams that grow by one byte after the other. *)

\* t and the first i elements of d.
Prefix(t, d, i) == t \o SubSeq(d, 1, i)

LEMMA Prefixes ==
    ASSUME NEW S, NEW t \in Seq(S), NEW d \in Seq(S)
    PROVE  /\ Prefix(t, d, 0) = t /\ Prefix(t, d, Len(d)) = t \o d
           /\ \A i \in 0..Len(d) : Prefix(t, d, i) \in Seq(S)
<1> USE DEF Prefix
<1>1. t \o SubSeq(d, 1, 0) = t
    OBVIOUS
<1>2. SubSeq(d, 1, Len(d)) = d
    BY SubSeqFull
<1>3. \A i \in 0..Len(d) : SubSeq(d, 1, i) \in Seq(S) /\ Len(SubSeq(d, 1, i)) = i
    OBVIOUS
<1>4. \A i \in 0..Len(d) : t \o SubSeq(d, 1, i) \in Seq(S)
    BY <1>3
<1> QED
    BY <1>1, <1>2, <1>4

LEMMA PrefixGrows ==
    ASSUME NEW S, NEW t \in Seq(S), NEW d \in Seq(S), NEW i \in 0..(Len(d) - 1)
    PROVE  Prefix(t, d, i + 1) = Append(Prefix(t, d, i), d[i + 1])
<1> DEFINE short == SubSeq(d, 1, i)
           long == SubSeq(d, 1, i + 1)
<1>1. /\ short \in Seq(S) /\ Len(short) = i /\ long \in Seq(S) /\ Len(long) = i + 1
      /\ \A j \in 1..i : short[j] = d[j]
      /\ \A j \in 1..(i + 1) : long[j] = d[j]
  OBVIOUS
<1>2. d[i + 1] \in S /\ i \in Nat /\ Len(t) \in Nat
  OBVIOUS
<1> HIDE DEF short, long
<1>3. /\ t \o long \in Seq(S) /\ Len(t \o long) = Len(t) + i + 1
      /\ \A j \in 1..(Len(t) + i + 1) : (t \o long)[j] = IF j <= Len(t) THEN t[j] ELSE d[j - Len(t)]
  BY <1>1, <1>2
<1>4. /\ t \o short \in Seq(S) /\ Len(t \o short) = Len(t) + i
      /\ \A j \in 1..(Len(t) + i) : (t \o short)[j] = IF j <= Len(t) THEN t[j] ELSE d[j - Len(t)]
  <2>1. /\ t \o short \in Seq(S) /\ Len(t \o short) = Len(t) + i
        /\ \A j \in 1..(Len(t) + i) : (t \o short)[j] = IF j <= Len(t) THEN t[j] ELSE short[j - Len(t)]
    BY <1>1, ConcatProperties
  <2> QED
    BY <1>1, <1>2, <2>1
<1>5. Append(t \o short, d[i + 1]) \in Seq(S) /\ Len(Append(t \o short, d[i + 1])) = Len(t) + i + 1
  <2>1. /\ Append(t \o short, d[i + 1]) \in Seq(S)
        /\ Len(Append(t \o short, d[i + 1])) = Len(t \o short) + 1
    BY <1>2, <1>4, AppendProperties
  <2> QED
    BY <1>2, <1>4, <2>1
<1>6. ASSUME NEW j \in 1..(Len(t) + i + 1)
      PROVE  Append(t \o short, d[i + 1])[j] = (t \o long)[j]
  <2>1. CASE j = Len(t) + i + 1
    <3>1. Append(t \o short, d[i + 1])[j] = d[i + 1]
      BY <1>4, <2>1
    <3>2. (t \o long)[j] = d[j - Len(t)] /\ j - Len(t) = i + 1
      BY <1>2, <1>3, <2>1
    <3> QED
      BY <3>1, <3>2
  <2>2. CASE j # Len(t) + i + 1
    <3>1. j \in 1..(Len(t) + i)
      BY <1>2, <2>2
    <3>2. Append(t \o short, d[i + 1])[j] = (t \o short)[j]
      BY <1>4, <3>1
    <3> QED
      BY <1>3, <1>4, <3>1, <3>2
  <2> QED
    BY <2>1, <2>2
<1> QED
  BY <1>3, <1>5, <1>6, SeqEqual DEF Prefix, short, long

\* Letters add to the rest and end no line.
LEMMA LettersAddNoLine ==
    ASSUME NEW t \in Seq(Bytes), NEW w \in Seq(Letters)
    PROVE  Rest(t \o w) = Rest(t) \o w /\ Lines(t \o w) = Lines(t)
<1> DEFINE n == Len(w)
           P(i) == Prefix(t, w, i)
           R(i) == Prefix(Rest(t), w, i)
           T == {i \in 0..n : Rest(P(i)) = R(i) /\ Lines(P(i)) = Lines(t)}
<1>1. n \in Nat /\ w \in Seq(Bytes) /\ \A i \in 1..n : w[i] \in Letters
    BY DEF Bytes
<1>2. Rest(t) \in Seq(Letters)
    BY LineTyped DEF Rest
<1>3. /\ P(0) = t /\ P(n) = t \o w
      /\ \A i \in 0..n : P(i) \in Seq(Bytes)
      /\ \A i \in 0..(n - 1) : P(i + 1) = Append(P(i), w[i + 1])
  <2>1. ASSUME NEW i \in 0..(n - 1) PROVE P(i + 1) = Append(P(i), w[i + 1])
    BY <1>1, PrefixGrows
  <2> QED
    BY <1>1, <2>1, Prefixes
<1>4. /\ R(0) = Rest(t) /\ R(n) = Rest(t) \o w
      /\ \A i \in 0..(n - 1) : R(i + 1) = Append(R(i), w[i + 1])
  <2>1. ASSUME NEW i \in 0..(n - 1) PROVE R(i + 1) = Append(R(i), w[i + 1])
    BY <1>2, PrefixGrows
  <2> QED
    BY <1>2, <2>1, Prefixes
<1> HIDE DEF P, R
<1>5. 0 \in T
    BY <1>1, <1>3, <1>4
<1>6. ASSUME NEW i \in 0..(n - 1), i \in T PROVE i + 1 \in T
  <2>1. P(i + 1) = Append(P(i), w[i + 1]) /\ P(i) \in Seq(Bytes) /\ i + 1 \in 0..n
    BY <1>1, <1>3
  <2>2. w[i + 1] \in Bytes /\ w[i + 1] # NL
    BY <1>1, SizesAssumption DEF Bytes
  <2>3. Rest(P(i + 1)) = Append(Rest(P(i)), w[i + 1]) /\ Lines(P(i + 1)) = Lines(P(i))
    BY <2>1, <2>2, RestOfAppend, LinesOfAppend
  <2> QED
    BY <1>4, <1>6, <2>1, <2>3
<1> HIDE DEF T, n
<1>7. n \in T
  <2>1. n \in 0..n /\ 0..n \subseteq T
    BY <1>1, <1>5, <1>6, Induction
  <2> QED
    BY <2>1
<1> QED
    BY <1>3, <1>4, <1>7 DEF T

-----------------------------------------------------------------------------
(* Delivery. *)

\* q, and of the lines behind the first known those that the room left takes.
Delivered(q, lines, known, room) ==
    q \o SubSeq(lines, known + 1, Min2(Len(lines), known + room))

LEMMA DeliveredLength ==
    ASSUME NEW S, NEW q \in Seq(S), NEW lines \in Seq(S), NEW known \in 0..Len(lines),
           NEW room \in Nat
    PROVE  /\ Delivered(q, lines, known, room) \in Seq(S)
           /\ Len(Delivered(q, lines, known, room)) =
                  Len(q) + Min2(Len(lines) - known, room)
<1> DEFINE top == Min2(Len(lines), known + room)
           sub == SubSeq(lines, known + 1, top)
<1>1. top \in known..Len(lines) /\ top - known = Min2(Len(lines) - known, room)
    BY DEF Min2
<1> HIDE DEF top
<1>2. sub \in Seq(S) /\ Len(sub) = top - known
    BY <1>1
<1> HIDE DEF sub
<1>3. q \o sub \in Seq(S) /\ Len(q \o sub) = Len(q) + Len(sub)
    BY <1>2
<1> QED
    BY <1>1, <1>2, <1>3 DEF Delivered, top, sub

\* Of a further line there is a further delivery if there is room for it.
LEMMA Min2OfSum ==
    ASSUME NEW n \in Nat, NEW known \in Nat, NEW room \in Nat, n - known < room
    PROVE  Min2(n + 1, known + room) = n + 1 /\ Min2(n, known + room) = n
BY DEF Min2

LEMMA DeliveredOfAppend ==
    ASSUME NEW S, NEW q \in Seq(S), NEW lines \in Seq(S), NEW known \in 0..Len(lines),
           NEW room \in Nat, NEW line \in S
    PROVE  Delivered(q, Append(lines, line), known, room) =
               IF Len(lines) - known < room
               THEN Append(Delivered(q, lines, known, room), line)
               ELSE Delivered(q, lines, known, room)
<1> DEFINE n == Len(lines)
           more == Append(lines, line)
<1>1. /\ more \in Seq(S) /\ Len(more) = n + 1 /\ n \in Nat
      /\ more[n + 1] = line /\ \A i \in 1..n : more[i] = lines[i]
    OBVIOUS
<1> HIDE DEF more
<1>2. CASE n - known < room
  <2>1. Min2(Len(more), known + room) = n + 1 /\ Min2(n, known + room) = n
    <3>1. known \in Nat /\ n \in Nat /\ Len(more) = n + 1
      BY <1>1
    <3> HIDE DEF n
    <3> QED
      BY <1>2, <3>1, Min2OfSum
  <2> DEFINE short == SubSeq(lines, known + 1, n)
             long == SubSeq(more, known + 1, n + 1)
  <2>2. short \in Seq(S) /\ Len(short) = n - known /\ \A i \in 1..(n - known) : short[i] = lines[known + i]
    BY <1>1
  <2>3. /\ long \in Seq(S) /\ Len(long) = n + 1 - known
        /\ \A i \in 1..(n + 1 - known) : long[i] = more[known + i]
    BY <1>1
  <2> HIDE DEF short, long
  <2>4. /\ Append(short, line) \in Seq(S) /\ Len(Append(short, line)) = n + 1 - known
        /\ \A i \in 1..(n - known) : Append(short, line)[i] = short[i]
        /\ Append(short, line)[n + 1 - known] = line
    BY <1>1, <2>2
  <2>5. long = Append(short, line)
    <3>1. ASSUME NEW i \in 1..(n + 1 - known) PROVE long[i] = Append(short, line)[i]
      <4>1. CASE i = n + 1 - known
        BY <1>1, <2>3, <2>4, <4>1
      <4>2. CASE i # n + 1 - known
        <5>1. i \in 1..(n - known) /\ known + i \in 1..n
          BY <1>1, <4>2
        <5> QED
          BY <1>1, <2>2, <2>3, <2>4, <5>1
      <4> QED
        BY <4>1, <4>2
    <3> QED
      BY <2>3, <2>4, <3>1, SeqEqual
  <2>6. q \o Append(short, line) = Append(q \o short, line)
    BY <2>2
  <2> QED
    BY <1>1, <1>2, <2>1, <2>5, <2>6 DEF Delivered, short, long, more
<1>3. CASE ~(n - known < room)
  <2>1. Min2(Len(more), known + room) = known + room /\ Min2(n, known + room) = known + room
    BY <1>1, <1>3 DEF Min2
  <2>2. SubSeq(more, known + 1, known + room) = SubSeq(lines, known + 1, known + room)
    BY <1>1, <1>3 DEF more
  <2> QED
    BY <1>3, <2>1, <2>2 DEF Delivered, more
<1> QED
    BY <1>2, <1>3

\* What st is after the stream t, of which known lines had come when recvCh was q.
DeliversTo(st, t, q, known, room, received) ==
    /\ st.lineBuf = Rest(t)
    /\ st.recvCh = Delivered(q, Lines(t), known, room)
    /\ st.received = received
    /\ known <= Len(Lines(t))

LEMMA ByteDelivers ==
    ASSUME NEW st \in Lined, NEW t \in Seq(Bytes), NEW byte \in Bytes,
           NEW q \in Seq(Seq(Letters)), Len(q) <= RecvCap, NEW known \in Nat, NEW received,
           DeliversTo(st, t, q, known, RecvCap - Len(q), received)
    PROVE  DeliversTo(TakeByte(st, byte), Append(t, byte), q, known, RecvCap - Len(q), received)
<1> DEFINE room == RecvCap - Len(q)
<1>1. room \in Nat
    BY SizesAssumption
<1>2. Lines(t) \in Seq(Seq(Letters)) /\ Rest(t) \in Seq(Letters) /\ known \in 0..Len(Lines(t))
    BY LinesTyped, LineTyped DEF Rest, DeliversTo
<1>3. /\ st.lineBuf = Rest(t) /\ st.received = received
      /\ st.recvCh = Delivered(q, Lines(t), known, room)
    BY DEF DeliversTo
<1>4. CASE byte # NL
  <2>1. TakeByte(st, byte) = [st EXCEPT !.lineBuf = Append(st.lineBuf, byte)]
    BY <1>4 DEF TakeByte
  <2>2. Rest(Append(t, byte)) = Append(Rest(t), byte) /\ Lines(Append(t, byte)) = Lines(t)
    BY <1>4, RestOfAppend, LinesOfAppend
  <2>3. /\ TakeByte(st, byte).lineBuf = Append(st.lineBuf, byte)
        /\ TakeByte(st, byte).recvCh = st.recvCh /\ TakeByte(st, byte).received = st.received
    BY <2>1 DEF Lined
  <2> QED
    BY <1>2, <1>3, <2>2, <2>3 DEF DeliversTo
<1>5. CASE byte = NL
  <2>1. Rest(Append(t, byte)) = <<>>
    BY <1>5, RestOfAppend
  <2>2. /\ TakeByte(st, byte).lineBuf = <<>> /\ TakeByte(st, byte).received = st.received
        /\ TakeByte(st, byte).recvCh =
               IF st.lineBuf # <<>> /\ Len(st.recvCh) < RecvCap
               THEN Append(st.recvCh, st.lineBuf) ELSE st.recvCh
    BY <1>5 DEF TakeByte, Lined
  <2>3. CASE Rest(t) = <<>>
    <3>1. Lines(Append(t, byte)) = Lines(t)
      BY <2>3, LinesOfAppend
    <3> QED
      BY <1>2, <1>3, <2>1, <2>2, <2>3, <3>1 DEF DeliversTo
  <2>4. CASE Rest(t) # <<>>
    <3>1. Lines(Append(t, byte)) = Append(Lines(t), Rest(t))
      BY <1>5, <2>4, LinesOfAppend
    <3>2. Len(st.recvCh) = Len(q) + Min2(Len(Lines(t)) - known, room)
      BY <1>1, <1>2, <1>3, DeliveredLength
    <3>3. Len(st.recvCh) < RecvCap <=> Len(Lines(t)) - known < room
      BY <1>1, <1>2, <3>2, SizesAssumption DEF Min2
    <3>4. Delivered(q, Append(Lines(t), Rest(t)), known, room) =
              IF Len(Lines(t)) - known < room THEN Append(st.recvCh, Rest(t)) ELSE st.recvCh
      BY <1>1, <1>2, <1>3, DeliveredOfAppend
    <3>5. known <= Len(Append(Lines(t), Rest(t)))
      BY <1>2
    <3> QED
      BY <1>3, <2>1, <2>2, <2>4, <3>1, <3>3, <3>4, <3>5 DEF DeliversTo
  <2> QED
    BY <2>3, <2>4
<1> QED
    BY <1>4, <1>5

LEMMA DeliveredNothing ==
    ASSUME NEW S, NEW q \in Seq(S), NEW lines \in Seq(S), NEW room \in Nat
    PROVE  Delivered(q, lines, Len(lines), room) = q
<1>1. Len(lines) \in Nat /\ Min2(Len(lines), Len(lines) + room) = Len(lines)
    BY DEF Min2
<1>2. SubSeq(lines, Len(lines) + 1, Len(lines)) = <<>>
    BY <1>1
<1>3. q \o <<>> = q
    OBVIOUS
<1> QED
    BY <1>1, <1>2, <1>3 DEF Delivered

\* The bytes of a notification are delivered as they would be one by one.
LEMMA NotificationsDeliver ==
    ASSUME NEW t \in Seq(Bytes), NEW data \in Seq(Bytes), NEW st \in Lined,
           st.lineBuf = Rest(t), Len(st.recvCh) <= RecvCap
    PROVE  /\ onNotification(st, data) \in Lined
           /\ DeliversTo(onNotification(st, data), t \o data, st.recvCh, Len(Lines(t)),
                         RecvCap - Len(st.recvCh), st.received)
<1> DEFINE n == Len(data)
           q == st.recvCh
           known == Len(Lines(t))
           Good(s, i) == DeliversTo(s, Prefix(t, data, i), q, known, RecvCap - Len(q), st.received)
<1>1. PICK h : /\ h[0] = st
               /\ \A i \in 1..n : h[i] = TakeByte(h[i - 1], data[i])
               /\ \A i \in 0..n : h[i] \in Lined
               /\ onNotification(st, data) = h[n]
    BY NotificationSteps
<1>2. n \in Nat /\ q \in Seq(Seq(Letters)) /\ Lines(t) \in Seq(Seq(Letters)) /\ known \in Nat
    BY LinesTyped DEF Lined
<1>3. Prefix(t, data, 0) = t /\ Prefix(t, data, n) = t \o data
    BY Prefixes
<1> DEFINE T == {i \in 0..n : Good(h[i], i)}
<1>4. 0 \in T
  <2>1. Delivered(q, Lines(t), known, RecvCap - Len(q)) = q
    <3>1. RecvCap - Len(q) \in Nat
      BY <1>2, SizesAssumption
    <3> QED
      BY <1>2, <3>1, DeliveredNothing
  <2>2. Good(st, 0)
    BY <1>2, <1>3, <2>1 DEF DeliversTo
  <2> HIDE DEF Good
  <2> QED
    BY <1>1, <1>2, <2>2
<1>5. ASSUME NEW i \in 0..(n - 1), i \in T PROVE i + 1 \in T
  <2>1. i \in 0..n /\ i + 1 \in 0..n /\ i + 1 \in 1..n /\ (i + 1) - 1 = i
    BY <1>2
  <2>2. h[i] \in Lined /\ h[i + 1] = TakeByte(h[i], data[i + 1]) /\ data[i + 1] \in Bytes
    BY <1>1, <2>1
  <2>3. /\ Prefix(t, data, i) \in Seq(Bytes)
        /\ Prefix(t, data, i + 1) = Append(Prefix(t, data, i), data[i + 1])
    BY <2>1, Prefixes, PrefixGrows
  <2>4. Good(h[i], i)
    BY <1>5
  <2>5. Good(h[i + 1], i + 1)
    BY <1>2, <2>2, <2>3, <2>4, ByteDelivers
  <2> HIDE DEF Good
  <2> QED
    BY <2>1, <2>5
<1> HIDE DEF T, n, Good
<1>6. n \in T
  <2>1. 0..n \subseteq T
    BY <1>2, <1>4, <1>5, Induction
  <2> QED
    BY <1>2, <2>1
<1>7. n \in 0..n
    BY <1>2
<1> QED
    BY <1>1, <1>3, <1>6, <1>7 DEF T, Good

-----------------------------------------------------------------------------
(* Whole messages: LinesArrive. *)

\* q is what line begins with.
Begins(q, line) == Len(q) <= Len(line) /\ \A i \in 1..Len(q) : line[i] = q[i]

\* A stream that grows keeps the lines it has.
LEMMA LinesGrow ==
    ASSUME NEW t \in Seq(Bytes), NEW d \in Seq(Bytes)
    PROVE  Begins(Lines(t), Lines(t \o d))
<1> DEFINE n == Len(d)
           P(i) == Prefix(t, d, i)
           T == {i \in 0..n : Begins(Lines(t), Lines(P(i)))}
<1>1. n \in Nat /\ Lines(t) \in Seq(Seq(Letters))
    BY LinesTyped
<1>2. P(0) = t /\ P(n) = t \o d /\ \A i \in 0..n : P(i) \in Seq(Bytes)
    BY Prefixes
<1>3. ASSUME NEW i \in 0..(n - 1) PROVE P(i + 1) = Append(P(i), d[i + 1])
    BY PrefixGrows
<1> HIDE DEF P
<1>4. 0 \in T
    BY <1>1, <1>2 DEF Begins
<1>5. ASSUME NEW i \in 0..(n - 1), i \in T PROVE i + 1 \in T
  <2>1. P(i) \in Seq(Bytes) /\ i + 1 \in 0..n /\ d[i + 1] \in Bytes
    BY <1>1, <1>2
  <2>2. Lines(P(i)) \in Seq(Seq(Letters)) /\ Rest(P(i)) \in Seq(Letters)
    BY <2>1, LinesTyped, LineTyped DEF Rest
  <2>3. Lines(P(i + 1)) \in {Lines(P(i)), Append(Lines(P(i)), Rest(P(i)))}
    BY <1>3, <2>1, LinesOfAppend
  <2>4. Begins(Lines(t), Lines(P(i)))
    BY <1>5
  <2>5. Begins(Lines(t), Append(Lines(P(i)), Rest(P(i))))
    BY <1>1, <2>2, <2>4 DEF Begins
  <2> QED
    BY <2>1, <2>3, <2>4, <2>5
<1> HIDE DEF T, n
<1>6. n \in T
  <2>1. 0..n \subseteq T
    BY <1>1, <1>4, <1>5, Induction
  <2> QED
    BY <1>1, <2>1
<1> QED
    BY <1>2, <1>6 DEF T

LEMMA BeginsCut ==
    ASSUME NEW S, NEW q \in Seq(S), NEW line \in Seq(S), Begins(q, line), NEW n \in 0..Len(q)
    PROVE  SubSeq(line, 1, n) = SubSeq(q, 1, n)
<1>1. Len(q) \in Nat /\ Len(line) \in Nat /\ Len(q) <= Len(line)
    BY DEF Begins
<1>2. \A i \in 1..n : line[i] = q[i]
    BY DEF Begins
<1> QED
    BY <1>1, <1>2

LEMMA UpToAre ==
    ASSUME NEW S, NEW n \in Nat, NEW s \in UpTo(S, n)
    PROVE  s \in Seq(S)
BY DEF UpTo

LEMMA CutInTwo ==
    ASSUME NEW S, NEW s \in Seq(S), NEW k \in 0..Len(s)
    PROVE  /\ SubSeq(s, 1, k) \in Seq(S) /\ SubSeq(s, k + 1, Len(s)) \in Seq(S)
           /\ SubSeq(s, 1, k) \o SubSeq(s, k + 1, Len(s)) = s
<1>1. SubSeq(s, 1, k) \in Seq(S) /\ SubSeq(s, k + 1, Len(s)) \in Seq(S)
    OBVIOUS
<1>2. Len(s) \in Nat /\ 1 \in 1..(Len(s) + 1) /\ k \in (1 - 1)..Len(s) /\ Len(s) \in k..Len(s)
    OBVIOUS
<1>3. SubSeq(s, 1, k) \o SubSeq(s, k + 1, Len(s)) = SubSeq(s, 1, Len(s))
    BY <1>2, ConcatAdjacentSubSeq, Zenon
<1> QED
    BY <1>1, <1>3, SubSeqFull

\* What Receive leaves in the channel and what it takes.
LEMMA ReceiveTakes ==
    ASSUME NEW st \in Lined
    PROVE  /\ Receive(st) \in Lined /\ Receive(st).lineBuf = st.lineBuf
           /\ Receive(st).received \o Receive(st).recvCh = st.received \o st.recvCh
<1>1. /\ st.lineBuf \in Seq(Letters) /\ st.recvCh \in Seq(Seq(Letters))
      /\ st.received \in Seq(Seq(Letters))
    BY DEF Lined
<1>2. CASE st.recvCh = <<>>
    BY <1>1, <1>2 DEF Receive
<1>3. CASE st.recvCh # <<>>
  <2> DEFINE h == Head(st.recvCh)
             r == Tail(st.recvCh)
             e == st.received
  <2>1. h \in Seq(Letters) /\ r \in Seq(Seq(Letters)) /\ st.recvCh = <<h>> \o r
    BY <1>1, <1>3
  <2>2. /\ Receive(st).lineBuf = st.lineBuf /\ Receive(st).recvCh = r
        /\ Receive(st).received = Append(e, h)
        /\ Receive(st) = [lineBuf |-> st.lineBuf, recvCh |-> r, received |-> Append(e, h)]
    BY <1>3 DEF Receive, Lined
  <2>3. e \in Seq(Seq(Letters))
    BY <1>1
  <2> HIDE DEF h, r, e
  <2>4. Append(e, h) \in Seq(Seq(Letters)) /\ Append(e, h) = e \o <<h>>
        /\ <<h>> \in Seq(Seq(Letters))
    BY <2>1, <2>3
  <2>5. Receive(st) \in Lined
    BY <1>1, <2>1, <2>2, <2>4 DEF Lined
  <2>6. (e \o <<h>>) \o r = e \o (<<h>> \o r)
    BY <2>1, <2>3, <2>4
  <2> QED
    BY <2>1, <2>2, <2>4, <2>5, <2>6 DEF e
<1> QED
    BY <1>2, <1>3

\* u and v are the two parts of w.
Parts(u, v, w) == u \o v = w /\ Len(u) + Len(v) = Len(w)

LEMMA ReceiveIfTaken ==
    ASSUME NEW st \in Lined, st.received = <<>>, NEW taken \in 0..1
    PROVE  LET after == IF taken = 1 THEN Receive(st) ELSE st
           IN  /\ after \in Lined /\ after.lineBuf = st.lineBuf
               /\ Parts(after.received, after.recvCh, st.recvCh)
<1> DEFINE after == IF taken = 1 THEN Receive(st) ELSE st
<1>1. st.recvCh \in Seq(Seq(Letters)) /\ st.received \o st.recvCh = st.recvCh
    BY DEF Lined
<1>2. /\ after \in Lined /\ after.lineBuf = st.lineBuf
      /\ after.received \o after.recvCh = st.recvCh
    BY <1>1, ReceiveTakes
<1> HIDE DEF after
<1>3. after.received \in Seq(Seq(Letters)) /\ after.recvCh \in Seq(Seq(Letters))
    BY <1>2 DEF Lined
<1>4. Len(after.received) + Len(after.recvCh) = Len(after.received \o after.recvCh)
    BY <1>3, ConcatProperties, Zenon
<1> QED
    BY <1>2, <1>4 DEF after, Parts

LEMMA BufferedDelivers ==
    ASSUME NEW old \in Seq(Letters), NEW data \in Seq(Bytes)
    PROVE  LET early == onNotification(Buffered(old), data)
           IN  /\ early \in Lined /\ early.received = <<>>
               /\ early.lineBuf = Rest(old \o data)
               /\ early.recvCh = SubSeq(Lines(old \o data), 1,
                                       Min2(Len(Lines(old \o data)), RecvCap))
               /\ Len(early.recvCh) <= RecvCap
<1>1. old \in Seq(Bytes) /\ <<>> \in Seq(Bytes) /\ <<>> \o old = old
    BY DEF Bytes
<1>2. Rest(old) = old /\ Lines(old) = <<>>
  <2>1. Rest(<<>> \o old) = Rest(<<>>) \o old /\ Lines(<<>> \o old) = Lines(<<>>)
    BY <1>1, LettersAddNoLine
  <2> QED
    BY <1>1, <2>1, RestOfNothing, LinesOfNothing
<1> DEFINE st == Buffered(old)
           early == onNotification(st, data)
           lines == Lines(old \o data)
<1>3. /\ st \in Lined /\ st.lineBuf = Rest(old) /\ Len(st.recvCh) = 0 /\ st.recvCh = <<>>
      /\ st.received = <<>>
    BY <1>2 DEF Buffered, Lined
<1>4. lines \in Seq(Seq(Letters))
    BY <1>1, ConcatProperties, LinesTyped
<1>5. RecvCap \in Nat /\ 0 <= RecvCap /\ RecvCap - 0 = RecvCap /\ Len(<<>>) = 0
    BY SizesAssumption
<1> HIDE DEF st
<1>6. early \in Lined /\ DeliversTo(early, old \o data, <<>>, 0, RecvCap, <<>>)
    BY <1>1, <1>2, <1>3, <1>5, NotificationsDeliver
<1> HIDE DEF early, lines
<1>7. early.recvCh = Delivered(<<>>, lines, 0, RecvCap) /\ early.received = <<>>
      /\ early.lineBuf = Rest(old \o data)
    BY <1>6 DEF DeliversTo, lines
<1> DEFINE top == Min2(Len(lines), RecvCap)
<1>8. top \in 0..RecvCap /\ top \in 0..Len(lines)
    BY <1>4, <1>5 DEF Min2
<1>9. Delivered(<<>>, lines, 0, RecvCap) = <<>> \o SubSeq(lines, 1, top)
  <2>1. 0 + 1 = 1 /\ 0 + RecvCap = RecvCap
    BY <1>5
  <2>2. Delivered(<<>>, lines, 0, RecvCap) =
            <<>> \o SubSeq(lines, 0 + 1, Min2(Len(lines), 0 + RecvCap))
    BY DEF Delivered
  <2> QED
    BY <2>1, <2>2
<1> HIDE DEF top
<1>10. SubSeq(lines, 1, top) \in Seq(Seq(Letters)) /\ Len(SubSeq(lines, 1, top)) = top
    BY <1>4, <1>5, <1>8
<1>11. <<>> \o SubSeq(lines, 1, top) = SubSeq(lines, 1, top)
    BY <1>10, ConcatEmptySeq, Zenon
<1>12. top <= RecvCap
    BY <1>5, <1>8
<1> QED
    BY <1>6, <1>7, <1>9, <1>10, <1>11, <1>12 DEF early, st, lines, top

\* Concatenations may be grouped either way.
Regroup(u, v, w) == (u \o v) \o w = u \o (v \o w)

LEMMA Regroups ==
    ASSUME NEW S, NEW u \in Seq(S), NEW v \in Seq(S), NEW w \in Seq(S)
    PROVE  Regroup(u, v, w)
BY ConcatAssociative DEF Regroup

\* A piece v that arrives after e of the lines have been received and q have not.
LEMMA SecondPiece ==
    ASSUME NEW t \in Seq(Bytes), NEW v \in Seq(Bytes), NEW after \in Lined,
           after.lineBuf = Rest(t), NEW delivered,
           Parts(after.received, after.recvCh, delivered), Len(delivered) <= RecvCap
    PROVE  LET st == onNotification(after, v)
               lines == Lines(t \o v)
               before == Len(Lines(t))
               room == RecvCap - Len(delivered) + Len(st.received)
           IN  /\ st.received \o st.recvCh =
                      delivered \o SubSeq(lines, before + 1, Min2(Len(lines), before + room))
               /\ st.lineBuf = Rest(t \o v)
<1> DEFINE st == onNotification(after, v)
           lines == Lines(t \o v)
           before == Len(Lines(t))
           e == after.received
           q == after.recvCh
           room == RecvCap - Len(q)
           more == SubSeq(lines, before + 1, Min2(Len(lines), before + room))
<1>1. e \in Seq(Seq(Letters)) /\ q \in Seq(Seq(Letters))
    BY DEF Lined
<1>2. lines \in Seq(Seq(Letters)) /\ Lines(t) \in Seq(Seq(Letters))
    BY ConcatProperties, LinesTyped
<1>3. Parts(e, q, delivered)
    OBVIOUS
<1> HIDE DEF e, q
<1>4. /\ Len(e) \in Nat /\ Len(q) \in Nat
      /\ Len(e) + Len(q) = Len(delivered) /\ Len(delivered) \in Nat
  <2>1. Len(e) \in Nat /\ Len(q) \in Nat
    BY <1>1
  <2>2. Len(e) + Len(q) = Len(delivered)
    BY <1>3, Zenon DEF Parts
  <2> HIDE DEF Parts
  <2> QED
    BY <2>1, <2>2
<1>5. Len(q) <= RecvCap /\ room \in Nat /\ RecvCap - Len(delivered) + Len(e) = room
    BY <1>4, SizesAssumption
<1>6. DeliversTo(st, t \o v, q, before, room, e)
    BY <1>5, NotificationsDeliver DEF e, q
<1> HIDE DEF st, lines, before, room
<1>7. /\ st.lineBuf = Rest(t \o v) /\ st.received = e
      /\ st.recvCh = Delivered(q, lines, before, room)
    BY <1>6 DEF DeliversTo, lines
<1>8. more \in Seq(Seq(Letters))
  <2>1. Len(lines) \in Nat /\ before \in Nat
    BY <1>2 DEF before
  <2>2. Min2(Len(lines), before + room) \in 0..Len(lines)
    BY <1>5, <2>1 DEF Min2
  <2> QED
    BY <1>2, <2>1, <2>2
<1>9. st.recvCh = q \o more
    BY <1>7 DEF Delivered
<1> HIDE DEF more
<1>10. Regroup(e, q, more)
    BY <1>1, <1>8, Regroups
<1> QED
    BY <1>3, <1>5, <1>7, <1>9, <1>10 DEF st, lines, before, room, more, Regroup, Parts

\* The claim of LinesArrive for one stream, with any old piece in front of it.
LEMMA PiecesArrive ==
    ASSUME NEW old \in Seq(Letters), NEW s \in Seq(Bytes), NEW k \in 0..Len(s),
           NEW taken \in 0..1
    PROVE  LET early == onNotification(Buffered(old), SubSeq(s, 1, k))
               st == onNotification(IF taken = 1 THEN Receive(early) ELSE early,
                                    SubSeq(s, k + 1, Len(s)))
               lines == Lines(old \o s)
               before == Len(Lines(old \o SubSeq(s, 1, k)))
               room == RecvCap - Len(early.recvCh) + Len(st.received)
           IN  /\ early.recvCh = SubSeq(lines, 1, Min2(before, RecvCap))
               /\ st.received \o st.recvCh =
                      early.recvCh \o SubSeq(lines, before + 1, Min2(Len(lines), before + room))
               /\ st.lineBuf = Rest(old \o s)
<1> DEFINE u == SubSeq(s, 1, k)
           v == SubSeq(s, k + 1, Len(s))
           t == old \o u
           early == onNotification(Buffered(old), u)
           after == IF taken = 1 THEN Receive(early) ELSE early
           st == onNotification(after, v)
           lines == Lines(old \o s)
           before == Len(Lines(t))
           room == RecvCap - Len(early.recvCh) + Len(st.received)
<1>1. u \in Seq(Bytes) /\ v \in Seq(Bytes) /\ u \o v = s
    BY CutInTwo
<1> HIDE DEF u, v
<1>2. old \in Seq(Bytes)
    BY DEF Bytes
<1>3. t \in Seq(Bytes) /\ t \o v = old \o s
  <2>1. t \in Seq(Bytes)
    BY <1>1, <1>2, ConcatProperties
  <2>2. Regroup(old, u, v)
    BY <1>1, <1>2, Regroups
  <2> QED
    BY <1>1, <2>1, <2>2 DEF Regroup
<1>4. /\ early \in Lined /\ early.received = <<>> /\ early.lineBuf = Rest(t)
      /\ early.recvCh = SubSeq(Lines(t), 1, Min2(before, RecvCap))
      /\ Len(early.recvCh) <= RecvCap
    BY <1>1, BufferedDelivers
<1>5. Lines(t) \in Seq(Seq(Letters)) /\ lines \in Seq(Seq(Letters)) /\ Begins(Lines(t), lines)
    BY <1>1, <1>2, <1>3, ConcatProperties, LinesTyped, LinesGrow
<1> HIDE DEF t, early
<1>6. /\ after \in Lined /\ after.lineBuf = Rest(t)
      /\ Parts(after.received, after.recvCh, early.recvCh)
    BY <1>4, ReceiveIfTaken
<1>7. early.recvCh \in Seq(Seq(Letters))
    BY <1>4 DEF Lined
<1> HIDE DEF after
<1>8. /\ st.received \o st.recvCh =
             early.recvCh \o SubSeq(lines, before + 1, Min2(Len(lines), before + room))
      /\ st.lineBuf = Rest(old \o s)
  <2> DEFINE Result(x) ==
          /\ st.received \o st.recvCh =
                 early.recvCh \o SubSeq(Lines(x), before + 1, Min2(Len(Lines(x)), before + room))
          /\ st.lineBuf = Rest(x)
  <2>1. Result(t \o v)
    BY <1>1, <1>3, <1>4, <1>6, <1>7, SecondPiece
  <2> QED
    BY <1>3, <2>1
<1> HIDE DEF st, lines, room
<1>9. early.recvCh = SubSeq(lines, 1, Min2(before, RecvCap))
  <2>1. Min2(before, RecvCap) \in 0..before
    BY <1>5, SizesAssumption DEF Min2
  <2> QED
    BY <1>4, <1>5, <2>1, BeginsCut
<1> QED
    BY <1>8, <1>9 DEF early, st, after, lines, room, t, u, v

\* Lines 387-403, 519-528, for all streams, pieces and capacities.
THEOREM LinesArriveInPieces == LinesArrive
<1>1. \A old \in UpTo(Letters, 1) : old \in Seq(Letters)
    BY UpToAre
<1>2. \A s \in Streams : s \in Seq(Bytes)
    BY SizesAssumption, UpToAre DEF Streams, Bytes
<1> QED
    BY <1>1, <1>2, PiecesArrive DEF LinesArrive

-----------------------------------------------------------------------------
(* Chunks. *)

\* The bytes of p in its first i chunks, as far as there are as many.
Cut(p, i) == Min2(i * ChunkSize, Len(p))

NumChunks(p) == (Len(p) + ChunkSize - 1) \div ChunkSize

LEMMA ChunksCount ==
    ASSUME NEW p \in Seq(Bytes), p # <<>>
    PROVE  /\ NumChunks(p) \in Nat \ {0}
           /\ Cut(p, 0) = 0 /\ Cut(p, NumChunks(p)) = Len(p)
           /\ \A i \in 0..(NumChunks(p) - 1) : i * ChunkSize < Len(p)
<1> DEFINE n == Len(p)
           m == NumChunks(p)
           c == ChunkSize
<1>1. n \in Nat \ {0} /\ c \in Nat \ {0}
    BY SizesAssumption
<1>2. m = (n + c - 1) \div c
    BY DEF NumChunks
<1> HIDE DEF n, c, m
<1>3. n + c - 1 \in Nat
    BY <1>1
<1>4. m \in Nat /\ c * m <= n + c - 1 /\ n + c - 1 < c * m + c
    BY <1>1, <1>2, <1>3
<1>5. c * m = m * c /\ m * c \in Nat
    BY <1>1, <1>4
<1>6. n <= m * c /\ m * c <= n + c - 1
    BY <1>1, <1>4, <1>5
<1>7. m # 0
  <2> SUFFICES ASSUME m = 0 PROVE FALSE
    OBVIOUS
  <2>1. m * c = 0
    BY <1>1
  <2> QED
    BY <1>1, <1>6, <2>1
<1>8. ASSUME NEW i \in 0..(m - 1) PROVE i * c < n
  <2>1. i + 1 <= m /\ i \in Nat /\ i + 1 \in Nat
    BY <1>4
  <2>2. (i + 1) * c <= m * c
    BY <1>1, <1>4, <2>1
  <2>3. (i + 1) * c = i * c + c /\ i * c \in Nat
    BY <1>1, <2>1
  <2> QED
    BY <1>1, <1>5, <1>6, <2>2, <2>3
<1>9. 0 * c = 0
    BY <1>1
<1> QED
    BY <1>1, <1>4, <1>5, <1>6, <1>7, <1>8, <1>9 DEF Cut, Min2, n, m, c

\* A chunk is what the payload goes on with.
LEMMA ChunkGoesOn ==
    ASSUME NEW p \in Seq(Bytes), p # <<>>, NEW i \in 0..(NumChunks(p) - 1)
    PROVE  /\ Cut(p, i) \in 0..Len(p) /\ Cut(p, i) = i * ChunkSize
           /\ Cut(p, i + 1) \in Cut(p, i)..Len(p)
           /\ Chunk(p, i) \in Seq(Bytes)
           /\ SubSeq(p, 1, Cut(p, i)) \o Chunk(p, i) = SubSeq(p, 1, Cut(p, i + 1))
<1> DEFINE n == Len(p)
           c == ChunkSize
           x == Cut(p, i)
           y == Cut(p, i + 1)
<1>1. n \in Nat /\ c \in Nat \ {0} /\ i \in Nat
    BY SizesAssumption, ChunksCount
<1>2. i * c < n
    BY ChunksCount
<1>3. (i + 1) * c = i * c + c /\ i * c \in Nat
    BY <1>1
<1>4. x = i * c /\ y = IF (i + 1) * c > n THEN n ELSE (i + 1) * c
  <2>1. x = i * c
    BY <1>1, <1>2, <1>3 DEF Cut, Min2
  <2>2. y = IF (i + 1) * c < n THEN (i + 1) * c ELSE n
    BY DEF Cut, Min2
  <2> HIDE DEF x, y, n, c
  <2> QED
    BY <1>1, <1>3, <2>1, <2>2
<1>5. Chunk(p, i) = SubSeq(p, x + 1, y)
    BY <1>4 DEF Chunk
<1> HIDE DEF x, y, n, c
<1>6. x \in 0..n /\ y \in x..n
    BY <1>1, <1>2, <1>3, <1>4
<1>7. SubSeq(p, 1, x) \o SubSeq(p, x + 1, y) = SubSeq(p, 1, y)
  <2>1. 1 \in 1..(Len(p) + 1) /\ x \in (1 - 1)..Len(p) /\ y \in x..Len(p)
    BY <1>1, <1>6 DEF n
  <2> QED
    BY <2>1, ConcatAdjacentSubSeq
<1>8. SubSeq(p, x + 1, y) \in Seq(Bytes)
    BY <1>1, <1>6 DEF n
<1> QED
    BY <1>4, <1>5, <1>6, <1>7, <1>8 DEF x, y, n, c

-----------------------------------------------------------------------------
(* Send. *)

\* What a write or an attempt reports, and how a write ends: it may be lost as well.
Errs == {"none", "busy", "failed", "cancelled"}
Ends == Errs \union {"lost"}
Wire == [device : Seq(Bytes), bond : BOOLEAN, err : Errs, outs : Seq(Ends)]

LEMMA NextOutIs ==
    ASSUME NEW st \in Wire
    PROVE  /\ NextOut(st) \in Ends
           /\ st.outs = <<>> => NextOut(st) = "none"
           /\ st.outs # <<>> => NextOut(st) = Head(st.outs)
<1>1. st.outs \in Seq(Ends)
    BY DEF Wire
<1> QED
    BY <1>1 DEF NextOut, Ends, Errs

LEMMA WriteTyped ==
    ASSUME NEW st \in Wire, NEW chunk \in Seq(Bytes)
    PROVE  Write(st, chunk) \in Wire
<1>1. /\ st.device \in Seq(Bytes) /\ st.bond \in BOOLEAN
      /\ st.err \in Errs /\ st.outs \in Seq(Ends)
    BY DEF Wire
<1>2. st.device \o chunk \in Seq(Bytes)
    BY <1>1, ConcatProperties
<1>3. /\ st.outs # <<>> => Tail(st.outs) \in Seq(Ends)
      /\ <<>> \in Seq(Ends)
    BY <1>1
<1>4. NextOut(st) \in Ends /\ (NextOut(st) # "lost" => NextOut(st) \in Errs) /\ "none" \in Errs
    BY NextOutIs DEF Ends, Errs
<1>5. (st.bond /\ NextOut(st) # "lost") \in BOOLEAN
    OBVIOUS
<1> QED
    BY <1>1, <1>2, <1>3, <1>4, <1>5 DEF Wire, Write

\* The states of Send after each write.
LEMMA SendSteps ==
    ASSUME NEW st \in Wire, NEW data \in Seq(Letters)
    PROVE  LET p == Append(data, NL)
           IN  /\ p \in Seq(Bytes) /\ p # <<>> /\ NumChunks(p) \in Nat \ {0}
               /\ \E h : /\ h[0] = [st EXCEPT !.err = "none"]
                         /\ \A i \in 1..NumChunks(p) : h[i] = Write(h[i - 1], Chunk(p, i - 1))
                         /\ \A i \in 0..NumChunks(p) : h[i] \in Wire
                         /\ Send(st, data) = h[NumChunks(p)]
<1> DEFINE p == Append(data, NL)
           n == NumChunks(p)
           E == Seq(Bytes)
           items == Chunks(p)
           first == [st EXCEPT !.err = "none"]
           step == [q \in Wire \X E |-> Write(q[1], q[2])]
           Runs(f) == f = [i \in 0..n |-> IF i = 0 THEN first ELSE Write(f[i - 1], items[i])]
<1>1. p \in Seq(Bytes) /\ p # <<>>
    BY DEF Bytes
<1> HIDE DEF p
<1>2. n \in Nat \ {0}
    BY <1>1, ChunksCount
<1>3. first \in Wire
    BY DEF Wire, Errs
<1>4. /\ items = [i \in 1..n |-> Chunk(p, i - 1)]
      /\ items \in [1..n -> E] /\ Len(items) = n
      /\ \A i \in 1..n : items[i] = Chunk(p, i - 1)
  <2>1. items = [i \in 1..n |-> Chunk(p, i - 1)]
    BY DEF Chunks, NumChunks
  <2>2. ASSUME NEW i \in 1..n PROVE Chunk(p, i - 1) \in E
    <3>1. i - 1 \in 0..(n - 1)
      BY <1>2
    <3> QED
      BY <1>1, <3>1, ChunkGoesOn
  <2> HIDE DEF items, n, E
  <2>3. items \in [1..n -> E] /\ \A i \in 1..n : items[i] = Chunk(p, i - 1)
    BY <2>1, <2>2
  <2>4. Len(items) = n
    BY <1>2, <2>1
  <2> QED
    BY <2>1, <2>3, <2>4
<1>5. step \in [Wire \X E -> Wire]
    BY WriteTyped
<1>6. \A s \in Wire, e \in E : step[<<s, e>>] = Write(s, e)
    OBVIOUS
<1> HIDE DEF n, step, E, items, first
<1>7. PICK g \in [0..n -> Wire] : IsRun(g, step, first, n, items)
    BY <1>2, <1>3, <1>4, <1>5, Iterates
<1>8. \A i \in 1..n : g[i] = Write(g[i - 1], items[i])
  <2> SUFFICES ASSUME NEW i \in 1..n PROVE g[i] = Write(g[i - 1], items[i])
    OBVIOUS
  <2>1. i - 1 \in 0..n /\ items[i] \in E
    BY <1>2, <1>4
  <2> QED
    BY <1>6, <1>7, <2>1 DEF IsRun
<1>9. Runs(g)
  <2>1. \A i \in 0..n : g[i] = IF i = 0 THEN first ELSE Write(g[i - 1], items[i])
    BY <1>2, <1>7, <1>8 DEF IsRun
  <2> QED
    BY <2>1
<1> DEFINE h == CHOOSE f : Runs(f)
<1>10. Send(st, data) = h[n]
  <2>1. Send(st, data) = (CHOOSE f : f = [i \in 0..Len(items) |->
                             IF i = 0 THEN first ELSE Write(f[i - 1], items[i])])[Len(items)]
    BY DEF Send, Loop, items, first, p
  <2> QED
    BY <1>4, <2>1
<1>11. Runs(h)
    BY <1>9
<1> HIDE DEF h
<1>12. h[0] = first /\ \A i \in 1..n : h[i] = Write(h[i - 1], items[i])
    BY <1>2, <1>11
<1>13. \A i \in 0..n : h[i] \in Wire
  <2>1. ASSUME NEW i \in 1..n, h[i - 1] \in Wire PROVE h[i] \in Wire
    BY <1>4, <1>12, <2>1, WriteTyped DEF E
  <2> QED
    BY <1>2, <1>3, <1>12, <2>1, StaysIn
<1> QED
    BY <1>1, <1>2, <1>4, <1>10, <1>12, <1>13 DEF n, first, p

\* How the writes end that come after the first i.
Left(o, i) == SubSeq(o, i + 1, Len(o))

LEMMA LeftIs ==
    ASSUME NEW S, NEW o \in Seq(S), NEW i \in Nat
    PROVE  /\ Left(o, i) \in Seq(S) /\ Left(o, 0) = o
           /\ Len(o) <= i => Left(o, i) = <<>> /\ Left(o, i + 1) = <<>>
           /\ i < Len(o) => /\ Left(o, i) # <<>> /\ Head(Left(o, i)) = o[i + 1]
                            /\ Tail(Left(o, i)) = Left(o, i + 1)
<1>1. Len(o) \in Nat
    OBVIOUS
<1>2. Left(o, 0) = o
    BY SubSeqFull DEF Left
<1>3. Left(o, i) \in Seq(S)
    BY <1>1 DEF Left
<1>4. Len(o) <= i => Left(o, i) = <<>> /\ Left(o, i + 1) = <<>>
    BY <1>1, SubSeqEmpty DEF Left
<1>5. ASSUME i < Len(o)
      PROVE  /\ Left(o, i) # <<>> /\ Head(Left(o, i)) = o[i + 1]
             /\ Tail(Left(o, i)) = Left(o, i + 1)
  <2>1. i + 1 \in 1..Len(o) /\ Len(o) \in (i + 1)..Len(o)
    BY <1>1, <1>5
  <2>2. Head(Left(o, i)) = o[i + 1] /\ Tail(Left(o, i)) = Left(o, i + 1)
    BY <2>1, HeadTailOfSubSeq DEF Left
  <2>3. Len(Left(o, i)) # 0
    BY <1>1, <1>5 DEF Left
  <2> QED
    BY <2>2, <2>3
<1> QED
    BY <1>2, <1>3, <1>4, <1>5

\* The payload p has been sent after d, the link being bonded or not before (bonded): i chunks
\* of it, or f - 1 since write f failed, or k since write k + 1 or an earlier one is lost.
Written(s, d, p, o, i) ==
    /\ s.bond /\ s.err = "none" /\ s.device = d \o SubSeq(p, 1, Cut(p, i)) /\ s.outs = Left(o, i)
    /\ \A j \in 1..i : j <= Len(o) => o[j] = "none"

FailedAt(s, d, p, o, f) ==
    /\ f <= Len(o) /\ o[f] # "none" /\ o[f] # "lost" /\ \A j \in 1..(f - 1) : o[j] = "none"
    /\ s.bond /\ s.err = o[f] /\ s.device = d \o SubSeq(p, 1, Cut(p, f - 1)) /\ s.outs = Left(o, f)

Vanished(s, d, p, o, bonded) ==
    /\ ~s.bond /\ (bonded => \E j \in 1..Len(o) : o[j] = "lost")
    /\ \E k \in 0..(NumChunks(p) - 1) : s.device = d \o SubSeq(p, 1, Cut(p, k))

Sent(s, d, p, o, bonded, i) ==
    Written(s, d, p, o, i) \/ (\E f \in 1..i : FailedAt(s, d, p, o, f)) \/ Vanished(s, d, p, o, bonded)

LEMMA ChunkIsSent ==
    ASSUME NEW p \in Seq(Bytes), p # <<>>, NEW i \in 0..(NumChunks(p) - 1),
           NEW d \in Seq(Bytes), NEW o \in Seq(Ends), NEW bonded, NEW s \in Wire,
           Sent(s, d, p, o, bonded, i)
    PROVE  Sent(Write(s, Chunk(p, i)), d, p, o, bonded, i + 1)
<1>1. i \in Nat /\ i + 1 \in Nat /\ (i + 1) - 1 = i /\ i + 1 \in 1..(i + 1) /\ Len(o) \in Nat
    BY ChunksCount
<1>2. ASSUME NEW f \in 1..i, FailedAt(s, d, p, o, f)
      PROVE  Sent(Write(s, Chunk(p, i)), d, p, o, bonded, i + 1)
  <2>1. Write(s, Chunk(p, i)) = s
    BY <1>2 DEF FailedAt, Write
  <2>2. f \in 1..(i + 1)
    BY <1>1
  <2> QED
    BY <1>2, <2>1, <2>2 DEF Sent
<1>4. ASSUME Vanished(s, d, p, o, bonded)
      PROVE  Sent(Write(s, Chunk(p, i)), d, p, o, bonded, i + 1)
  <2>1. ~s.bond
    BY <1>4 DEF Vanished
  <2>2. ~Write(s, Chunk(p, i)).bond /\ Write(s, Chunk(p, i)).device = s.device
    BY <2>1 DEF Write
  <2> QED
    BY <1>4, <2>2 DEF Sent, Vanished
<1>3. ASSUME Written(s, d, p, o, i)
      PROVE  Sent(Write(s, Chunk(p, i)), d, p, o, bonded, i + 1)
  <2> DEFINE w == Write(s, Chunk(p, i))
             done == SubSeq(p, 1, Cut(p, i))
  <2>1. /\ s.bond /\ s.err = "none" /\ s.device = d \o done /\ s.outs = Left(o, i)
        /\ \A j \in 1..i : j <= Len(o) => o[j] = "none"
    BY <1>3 DEF Written
  <2>2. /\ done \in Seq(Bytes) /\ Chunk(p, i) \in Seq(Bytes)
        /\ done \o Chunk(p, i) = SubSeq(p, 1, Cut(p, i + 1))
    BY ChunkGoesOn
  <2> HIDE DEF done
  <2>3. Regroup(d, done, Chunk(p, i))
    BY <2>2, Regroups
  <2>4. s.device \o Chunk(p, i) = d \o SubSeq(p, 1, Cut(p, i + 1))
    BY <2>1, <2>2, <2>3 DEF Regroup
  <2>5. CASE Len(o) <= i
    <3>1. s.outs = <<>> /\ Left(o, i + 1) = <<>>
      BY <1>1, <2>1, <2>5, LeftIs
    <3>2. /\ w.bond /\ w.err = "none" /\ w.device = s.device \o Chunk(p, i)
          /\ w.outs = <<>>
      BY <2>1, <3>1, NextOutIs DEF Write
    <3>3. \A j \in 1..(i + 1) : j <= Len(o) => o[j] = "none"
      BY <1>1, <2>1, <2>5
    <3> QED
      BY <2>4, <3>1, <3>2, <3>3 DEF Sent, Written
  <2>6. CASE i < Len(o)
    <3>1. s.outs # <<>> /\ Head(s.outs) = o[i + 1] /\ Tail(s.outs) = Left(o, i + 1)
      BY <1>1, <2>1, <2>6, LeftIs
    <3>2. /\ o[i + 1] # "lost" => w.bond /\ w.err = o[i + 1]
          /\ o[i + 1] = "lost" => ~w.bond
          /\ w.outs = Left(o, i + 1)
          /\ w.device = IF o[i + 1] = "none" THEN s.device \o Chunk(p, i) ELSE s.device
      BY <2>1, <3>1, NextOutIs DEF Write
    <3>3. CASE o[i + 1] = "none"
      <4>1. \A j \in 1..(i + 1) : j <= Len(o) => o[j] = "none"
        BY <1>1, <2>1, <3>3
      <4> QED
        BY <2>4, <3>2, <3>3, <4>1 DEF Sent, Written
    <3>5. CASE o[i + 1] = "lost"
      <4>1. w.device = d \o SubSeq(p, 1, Cut(p, i))
        BY <2>1, <3>2, <3>5 DEF done
      <4>2. i + 1 \in 1..Len(o)
        BY <1>1, <2>6
      <4> QED
        BY <3>2, <3>5, <4>1, <4>2 DEF Sent, Vanished
    <3>4. CASE o[i + 1] # "none" /\ o[i + 1] # "lost"
      <4>1. \A j \in 1..((i + 1) - 1) : o[j] = "none"
        BY <1>1, <2>1, <2>6
      <4>2. i + 1 <= Len(o)
        BY <1>1, <2>6
      <4>3. FailedAt(w, d, p, o, i + 1)
        BY <1>1, <2>1, <3>2, <3>4, <4>1, <4>2 DEF FailedAt, done
      <4> QED
        BY <1>1, <4>3 DEF Sent
    <3> QED
      BY <3>3, <3>4, <3>5
  <2> QED
    BY <1>1, <2>5, <2>6
<1> QED
    BY <1>2, <1>3, <1>4 DEF Sent

\* What a Send does, for every message and every way in which its writes end.
LEMMA SendSends ==
    ASSUME NEW st \in Wire, NEW data \in Seq(Letters)
    PROVE  /\ Send(st, data) \in Wire
           /\ Sent(Send(st, data), st.device, Append(data, NL), st.outs, st.bond,
                   NumChunks(Append(data, NL)))
<1> DEFINE p == Append(data, NL)
           n == NumChunks(p)
           d == st.device
           o == st.outs
           bonded == st.bond
<1>1. p \in Seq(Bytes) /\ p # <<>> /\ n \in Nat \ {0}
    BY SendSteps
<1>2. PICK h : /\ h[0] = [st EXCEPT !.err = "none"]
               /\ \A i \in 1..n : h[i] = Write(h[i - 1], Chunk(p, i - 1))
               /\ \A i \in 0..n : h[i] \in Wire
               /\ Send(st, data) = h[n]
    BY SendSteps
<1>3. d \in Seq(Bytes) /\ o \in Seq(Ends)
    BY DEF Wire
<1> DEFINE T == {i \in 0..n : Sent(h[i], d, p, o, bonded, i)}
<1>4. 0 \in T
  <2>1. h[0].err = "none" /\ h[0].device = d /\ h[0].outs = o /\ h[0].bond = bonded
    BY <1>2 DEF Wire
  <2>2. Cut(p, 0) = 0 /\ Left(o, 0) = o
    BY <1>1, <1>3, ChunksCount, LeftIs
  <2>3. d \o SubSeq(p, 1, 0) = d
    BY <1>1, <1>3
  <2>6. 0 \in 0..n
    BY <1>1
  <2>4. CASE bonded
    <3>1. \A j \in 1..0 : FALSE
      OBVIOUS
    <3>2. Written(h[0], d, p, o, 0)
      BY <2>1, <2>2, <2>3, <2>4, <3>1, Zenon DEF Written
    <3> QED
      BY <2>6, <3>2, Zenon DEF Sent
  <2>5. CASE ~bonded
    <3>1. 0 \in 0..(n - 1)
      BY <1>1
    <3>2. Vanished(h[0], d, p, o, bonded)
      BY <2>1, <2>2, <2>3, <2>5, <3>1 DEF Vanished
    <3> QED
      BY <2>6, <3>2 DEF Sent
  <2> QED
    BY <2>4, <2>5
<1> HIDE DEF p, n, d, o, bonded
<1>5. ASSUME NEW i \in 0..(n - 1), i \in T PROVE i + 1 \in T
  <2>1. i \in 0..n /\ i + 1 \in 0..n /\ i + 1 \in 1..n /\ (i + 1) - 1 = i
    BY <1>1
  <2>2. h[i] \in Wire /\ h[i + 1] = Write(h[i], Chunk(p, i))
    BY <1>2, <2>1
  <2>3. Sent(h[i], d, p, o, bonded, i)
    BY <1>5
  <2>4. i \in 0..(NumChunks(p) - 1)
    BY DEF n
  <2>5. Sent(h[i + 1], d, p, o, bonded, i + 1)
    BY <1>1, <1>3, <2>2, <2>3, <2>4, ChunkIsSent
  <2> QED
    BY <2>1, <2>5
<1> HIDE DEF T
<1>6. n \in T
  <2>1. n \in Nat /\ n \in 0..n
    BY <1>1
  <2>2. 0..n \subseteq T
    BY <1>4, <1>5, <2>1, Induction
  <2> QED
    BY <2>1, <2>2
<1>7. Send(st, data) \in Wire /\ Sent(Send(st, data), d, p, o, bonded, n)
  <2>1. n \in 0..n
    BY <1>1
  <2> QED
    BY <1>2, <1>6, <2>1 DEF T
<1> QED
    BY <1>7 DEF p, n, d, o, bonded

-----------------------------------------------------------------------------
(* What the device reads: FailedSendSpoilsOne. *)

LEMMA LettersAlone ==
    ASSUME NEW w \in Seq(Letters)
    PROVE  w \in Seq(Bytes) /\ Lines(w) = <<>> /\ Rest(w) = w
<1>1. w \in Seq(Bytes) /\ <<>> \in Seq(Bytes) /\ <<>> \o w = w
    BY DEF Bytes
<1>2. Rest(<<>> \o w) = Rest(<<>>) \o w /\ Lines(<<>> \o w) = Lines(<<>>)
    BY <1>1, LettersAddNoLine
<1> QED
    BY <1>1, <1>2, RestOfNothing, LinesOfNothing

\* A message behind t ends the line that the rest of t has begun.
LEMMA LineEnded ==
    ASSUME NEW t \in Seq(Bytes), NEW w \in Seq(Letters), w # <<>>
    PROVE  /\ t \o Append(w, NL) \in Seq(Bytes)
           /\ Lines(t \o Append(w, NL)) = Append(Lines(t), Rest(t) \o w)
           /\ Rest(t \o Append(w, NL)) = <<>>
<1>1. w \in Seq(Bytes) /\ NL \in Bytes
    BY DEF Bytes
<1>2. t \o w \in Seq(Bytes)
    BY <1>1, ConcatProperties
<1>3. t \o Append(w, NL) = Append(t \o w, NL)
    BY <1>1
<1>4. Rest(t \o w) = Rest(t) \o w /\ Lines(t \o w) = Lines(t)
    BY LettersAddNoLine
<1>5. Rest(t) \in Seq(Letters)
    BY LineTyped DEF Rest
<1>6. Rest(t) \o w # <<>>
    BY <1>5, ConcatEqualIffEmpty
<1>7. Append(t \o w, NL) \in Seq(Bytes)
    BY <1>1, <1>2
<1> QED
    BY <1>1, <1>2, <1>3, <1>4, <1>6, <1>7, LinesOfAppend, RestOfAppend

\* A Send none of whose writes fails.
LEMMA SendSucceeds ==
    ASSUME NEW st \in Wire, NEW data \in Seq(Letters), st.outs = <<>>, st.bond
    PROVE  /\ Send(st, data) \in Wire /\ Send(st, data).outs = <<>> /\ Send(st, data).bond
           /\ Send(st, data).device = st.device \o Append(data, NL)
<1> DEFINE p == Append(data, NL)
           n == NumChunks(p)
           s == Send(st, data)
<1>1. p \in Seq(Bytes) /\ p # <<>> /\ n \in Nat \ {0}
    BY SendSteps
<1>2. s \in Wire /\ Sent(s, st.device, p, <<>>, st.bond, n)
    BY SendSends
<1> HIDE DEF s, p, n
<1>3. <<>> \in Seq(Ends) /\ Len(<<>>) = 0
    OBVIOUS
<1>4. Written(s, st.device, p, <<>>, n)
  <2>2. \A j \in 1..Len(<<>>) : FALSE
    BY <1>3
  <2>1. ~Vanished(s, st.device, p, <<>>, st.bond)
    BY <2>2, Zenon DEF Vanished
  <2> QED
    <3>1. \A f \in 1..n : ~FailedAt(s, st.device, p, <<>>, f)
      BY <1>1, <1>3 DEF FailedAt
    <3> QED
      BY <1>2, <2>1, <3>1, Zenon DEF Sent
<1>5. Cut(p, n) = Len(p) /\ SubSeq(p, 1, Len(p)) = p
    BY <1>1, ChunksCount, SubSeqFull DEF n
<1>6. Left(<<>>, n) = <<>>
  <2>1. n + 1 \in Int /\ 0 \in Int /\ 0 < n + 1
    BY <1>1
  <2> QED
    BY <1>3, <2>1, SubSeqEmpty DEF Left
<1> QED
    BY <1>2, <1>4, <1>5, <1>6 DEF Written, s, p

\* The bytes of data in front of its k-th chunk.
Piece(data, k) == SubSeq(data, 1, (k - 1) * ChunkSize)

\* The k-th write is the first to fail, and none is lost.
FailsFirst(o, k) ==
    /\ k <= Len(o) /\ o[k] # "none" /\ \A j \in 1..(k - 1) : o[j] = "none"
    /\ \A j \in 1..Len(o) : o[j] # "lost"

LEMMA SendFails ==
    ASSUME NEW st \in Wire, NEW data \in Seq(Letters),
           NEW k \in 1..NumChunks(Append(data, NL)), FailsFirst(st.outs, k), st.bond
    PROVE  /\ Send(st, data) \in Wire /\ Send(st, data).outs = Left(st.outs, k)
           /\ Send(st, data).err = st.outs[k] /\ Send(st, data).bond
           /\ Piece(data, k) \in Seq(Letters)
           /\ Send(st, data).device = st.device \o Piece(data, k)
<1> DEFINE p == Append(data, NL)
           n == NumChunks(p)
           s == Send(st, data)
           o == st.outs
           x == (k - 1) * ChunkSize
<1>1. p \in Seq(Bytes) /\ p # <<>> /\ n \in Nat \ {0}
    BY SendSteps
<1>2. s \in Wire /\ Sent(s, st.device, p, o, st.bond, n)
    BY SendSends
<1>3. o[k] # "none" /\ k <= Len(o) /\ k \in 1..n /\ \A j \in 1..(k - 1) : o[j] = "none"
    BY DEF FailsFirst
<1>4. Len(p) = Len(data) + 1 /\ Len(data) \in Nat
      /\ \A j \in 1..Len(data) : p[j] = data[j]
    BY DEF Bytes
<1> HIDE DEF s, p, n, x, o
<1>5. FailedAt(s, st.device, p, o, k)
  <2>1. ~Written(s, st.device, p, o, n)
    BY <1>3 DEF Written
  <2>5. ~Vanished(s, st.device, p, o, st.bond)
    BY Zenon DEF Vanished, FailsFirst, o
  <2>2. PICK f \in 1..n : FailedAt(s, st.device, p, o, f)
    BY <1>2, <2>1, <2>5 DEF Sent
  <2>3. o[f] # "none" /\ \A j \in 1..(f - 1) : o[j] = "none"
    BY <2>2 DEF FailedAt
  <2>4. ~(f < k) /\ ~(k < f)
    BY <1>1, <1>3, <2>3
  <2>6. f = k
    BY <1>1, <1>3, <2>4
  <2> QED
    BY <2>2, <2>6
<1>6. k - 1 \in 0..(n - 1)
    BY <1>1, <1>3
<1>7. Cut(p, k - 1) = x /\ x < Len(p) /\ x \in 0..Len(p)
    BY <1>1, <1>6, ChunkGoesOn, ChunksCount DEF n, x
<1>8. x \in 0..Len(data)
    BY <1>4, <1>7
<1>9. SubSeq(p, 1, x) = SubSeq(data, 1, x)
    BY <1>4, <1>8 DEF p
<1>10. SubSeq(data, 1, x) \in Seq(Letters)
    BY <1>4, <1>8
<1> QED
    BY <1>2, <1>5, <1>7, <1>9, <1>10 DEF FailedAt, Piece, s, p, x, o

LEMMA FreshTyped == ASSUME NEW o \in Seq(Ends) PROVE Fresh(o) \in Wire
BY DEF Fresh, Wire, Errs

LEMMA EndedLineTyped ==
    ASSUME NEW w \in Seq(Letters)
    PROVE  Append(w, NL) \in Seq(Bytes) /\ Append(w, NL) # <<>>
<1>1. Letters \subseteq Bytes /\ NL \in Bytes
    BY DEF Bytes
<1>2. w \in Seq(Bytes)
    BY <1>1
<1> HIDE DEF Bytes
<1>3. Append(w, NL) \in Seq(Bytes)
    BY <1>1, <1>2
<1>4. Len(Append(w, NL)) = Len(w) + 1 /\ Len(w) \in Nat
    BY <1>2
<1>5. Append(w, NL) # <<>>
    BY <1>4
<1> QED
    BY <1>3, <1>5

\* The claim of FailedSendSpoilsOne for one message that fails and the two behind it.
LEMMA OneIsSpoiled ==
    ASSUME NEW m \in Seq(Letters), NEW next \in Seq(Letters), next # <<>>,
           NEW last \in Seq(Letters), last # <<>>,
           NEW k \in 1..NumChunks(Append(m, NL)),
           NEW outs \in Seq(Ends), Len(outs) = k, FailsFirst(outs, k)
    PROVE  Lines(Send(Send(Send(Fresh(outs), m), next), last).device) =
               <<Piece(m, k) \o next, last>>
<1> DEFINE w == Piece(m, k)
           s0 == Fresh(outs)
           s1 == Send(s0, m)
           s2 == Send(s1, next)
           s3 == Send(s2, last)
           t == w \o Append(next, NL)
<1>1. s0 \in Wire /\ s0.outs = outs /\ s0.device = <<>> /\ s0.bond
    BY FreshTyped DEF Fresh
<1> HIDE DEF s0
<1>2. /\ s1 \in Wire /\ s1.outs = Left(outs, k) /\ s1.device = <<>> \o w
      /\ s1.bond /\ w \in Seq(Letters)
  <2>1. s0 \in Wire /\ FailsFirst(s0.outs, k) /\ s0.bond
    BY <1>1
  <2>2. Send(s0, m) \in Wire /\ Send(s0, m).outs = Left(s0.outs, k) /\ Send(s0, m).bond
        /\ Piece(m, k) \in Seq(Letters) /\ Send(s0, m).device = s0.device \o Piece(m, k)
    BY <2>1, SendFails
  <2> QED
    BY <1>1, <2>2
<1>3. <<>> \o w = w
    BY <1>2, ConcatEmptySeq
<1>4. Left(outs, k) = <<>>
    BY LeftIs
<1> HIDE DEF w, s1
<1>11. s1.outs = <<>> /\ s1.device = w
    BY <1>2, <1>3, <1>4
<1>5. s2 \in Wire /\ s2.outs = <<>> /\ s2.device = t /\ s2.bond
    BY <1>2, <1>11, SendSucceeds DEF t
<1> HIDE DEF s2, t
<1>6. s3.device = t \o Append(last, NL)
    BY <1>5, SendSucceeds
<1>7. t \in Seq(Bytes) /\ Lines(t) = Append(Lines(w), Rest(w) \o next) /\ Rest(t) = <<>>
    BY <1>2, LettersAlone, LineEnded DEF t
<1>8. Lines(s3.device) = Append(Lines(t), Rest(t) \o last)
    BY <1>6, <1>7, LineEnded
<1>9. Lines(w) = <<>> /\ Rest(w) = w /\ <<>> \o last = last
    BY <1>2, LettersAlone
<1>10. Append(Append(<<>>, w \o next), last) = <<w \o next, last>>
  <2>1. \A x : Append(<<>>, x) = <<x>>
    OBVIOUS
  <2>2. ASSUME NEW x, NEW y PROVE Append(<<x>>, y) = <<x, y>>
    <3> DEFINE S == {x, y}
    <3>1. <<x>> \in Seq(S) /\ <<x, y>> \in Seq(S) /\ y \in S
      OBVIOUS
    <3>2. /\ Append(<<x>>, y) \in Seq(S) /\ Len(Append(<<x>>, y)) = 2
          /\ Append(<<x>>, y)[1] = x /\ Append(<<x>>, y)[2] = y
      BY <3>1
    <3>3. Len(<<x, y>>) = 2 /\ <<x, y>>[1] = x /\ <<x, y>>[2] = y
      OBVIOUS
    <3> HIDE DEF S
    <3>4. \A i \in 1..2 : i = 1 \/ i = 2
      OBVIOUS
    <3>5. \A i \in 1..2 : Append(<<x>>, y)[i] = <<x, y>>[i]
      BY <3>2, <3>3, <3>4, Zenon
    <3> QED
      BY <3>1, <3>2, <3>3, <3>5, SeqEqual
  <2> QED
    BY <2>1, <2>2, Zenon
<1> QED
    BY <1>7, <1>8, <1>9, <1>10 DEF w, s0, s1, s2

\* Lines 501-514, for all messages, chunk sizes and failing writes.
THEOREM OneMessageSpoiled == FailedSendSpoilsOne
<1> SUFFICES ASSUME NEW m \in Texts, NEW next \in UpTo(Letters, 2) \ {<<>>},
                    NEW last \in UpTo(Letters, 2) \ {<<>>},
                    NEW k \in 1..Len(Chunks(Append(m, NL)))
             PROVE  LET outs == [i \in 1..k |-> IF i = k THEN "failed" ELSE "none"]
                        st == Send(Send(Send(Fresh(outs), m), next), last)
                    IN  Lines(st.device) = <<SubSeq(m, 1, (k - 1) * ChunkSize) \o next, last>>
    BY DEF FailedSendSpoilsOne
<1>1. m \in Seq(Letters) /\ next \in Seq(Letters) /\ last \in Seq(Letters)
    BY SizesAssumption, UpToAre DEF Texts
<1>2. k \in 1..NumChunks(Append(m, NL)) /\ k \in Nat \ {0}
  <2>1. Append(m, NL) \in Seq(Bytes) /\ Append(m, NL) # <<>>
    BY <1>1, EndedLineTyped
  <2>2. NumChunks(Append(m, NL)) \in Nat
    BY <2>1, ChunksCount
  <2>3. Len(Chunks(Append(m, NL))) = NumChunks(Append(m, NL))
    BY <2>2 DEF Chunks, NumChunks
  <2> QED
    BY <2>2, <2>3
<1> DEFINE outs == [i \in 1..k |-> IF i = k THEN "failed" ELSE "none"]
<1>3. outs \in Seq(Ends) /\ Len(outs) = k /\ FailsFirst(outs, k)
  <2>1. outs \in [1..k -> Ends] /\ \A j \in 1..k : outs[j] # "lost"
    BY DEF Ends, Errs
  <2>2. outs \in Seq(Ends) /\ Len(outs) = k
    BY <1>2, <2>1
  <2>3. outs[k] = "failed"
    BY <1>2
  <2>4. ASSUME NEW j \in 1..(k - 1) PROVE outs[j] = "none"
    BY <1>2
  <2> QED
    BY <1>2, <2>1, <2>2, <2>3, <2>4 DEF FailsFirst
<1> HIDE DEF outs
<1>4. Lines(Send(Send(Send(Fresh(outs), m), next), last).device) =
          <<Piece(m, k) \o next, last>>
    BY <1>1, <1>2, <1>3, OneIsSpoiled
<1> QED
    BY <1>4 DEF outs, Piece

-----------------------------------------------------------------------------
(* The token: TokenIsWrittenOnce. *)

Attempt(text, patience, s, i) ==
    IF i = 1 \/ isTransient(s.err)
    THEN IF i > patience THEN [s EXCEPT !.err = "cancelled"] ELSE Send(s, text)
    ELSE s

LEMMA AttemptsCount ==
    ASSUME NEW text \in Seq(Letters)
    PROVE  /\ bleAuthAttempts(text) \in Nat \ {0}
           /\ bleAuthAttempts(text) > 1 => Len(text) + 1 <= ChunkSize
BY SizesAssumption DEF bleAuthAttempts

LEMMA AttemptTyped ==
    ASSUME NEW text \in Seq(Letters), NEW patience, NEW s \in Wire, NEW i
    PROVE  Attempt(text, patience, s, i) \in Wire
<1>1. Send(s, text) \in Wire
    BY SendSends
<1>2. [s EXCEPT !.err = "cancelled"] \in Wire
    BY DEF Wire, Errs
<1> QED
    BY <1>1, <1>2 DEF Attempt

\* The states of retrySend after each attempt.
LEMMA RetrySteps ==
    ASSUME NEW st \in Wire, NEW text \in Seq(Letters), NEW patience
    PROVE  \E h : /\ h[0] = st
                  /\ \A i \in 1..bleAuthAttempts(text) :
                         h[i] = Attempt(text, patience, h[i - 1], i)
                  /\ \A i \in 0..bleAuthAttempts(text) : h[i] \in Wire
                  /\ retrySend(st, text, patience) = h[bleAuthAttempts(text)]
<1> DEFINE n == bleAuthAttempts(text)
           items == [i \in 1..n |-> i]
           Next1(s, i) == Attempt(text, patience, s, i)
           step == [q \in Wire \X (1..n) |-> Next1(q[1], q[2])]
           Runs(f) == f = [i \in 0..n |-> IF i = 0 THEN st ELSE Next1(f[i - 1], items[i])]
<1>1. n \in Nat \ {0}
    BY AttemptsCount
<1>2. items \in [1..n -> 1..n] /\ Len(items) = n /\ \A i \in 1..n : items[i] = i
    BY <1>1
<1>3. \A i : \A s \in Wire : Next1(s, i) \in Wire
    BY AttemptTyped
<1>4. retrySend(st, text, patience) =
          (CHOOSE f : f = [i \in 0..Len(items) |->
               IF i = 0 THEN st ELSE Next1(f[i - 1], items[i])])[Len(items)]
    BY DEF retrySend, Loop, Attempt
<1> HIDE DEF n, items, Next1
<1>5. step \in [Wire \X (1..n) -> Wire]
    BY <1>3
<1>6. \A s \in Wire, i \in 1..n : step[<<s, i>>] = Next1(s, i)
    OBVIOUS
<1> HIDE DEF step
<1>7. PICK g \in [0..n -> Wire] : IsRun(g, step, st, n, items)
    BY <1>1, <1>2, <1>5, Iterates
<1>8. \A i \in 1..n : g[i] = Next1(g[i - 1], items[i])
  <2> SUFFICES ASSUME NEW i \in 1..n PROVE g[i] = Next1(g[i - 1], items[i])
    OBVIOUS
  <2>1. i - 1 \in 0..n /\ items[i] \in 1..n
    BY <1>1, <1>2
  <2> QED
    BY <1>6, <1>7, <2>1 DEF IsRun
<1>9. Runs(g)
  <2>1. \A i \in 0..n : g[i] = IF i = 0 THEN st ELSE Next1(g[i - 1], items[i])
    BY <1>1, <1>7, <1>8 DEF IsRun
  <2> QED
    BY <2>1
<1> DEFINE h == CHOOSE f : Runs(f)
<1>10. retrySend(st, text, patience) = h[n]
    BY <1>2, <1>4
<1>11. Runs(h)
    BY <1>9
<1> HIDE DEF h
<1>12. h[0] = st /\ \A i \in 1..n : h[i] = Next1(h[i - 1], i)
    BY <1>1, <1>2, <1>11
<1>13. \A i \in 0..n : h[i] \in Wire
  <2>1. ASSUME NEW i \in 1..n, h[i - 1] \in Wire PROVE h[i] \in Wire
    BY <1>3, <1>12, <2>1
  <2> QED
    BY <1>1, <1>12, <2>1, StaysIn
<1> QED
    BY <1>10, <1>12, <1>13 DEF n, Next1

\* After an attempt the token is written with its newline or, if it failed or was lost,
\* there is no newline, and nothing at all if there may be a further attempt.
Tried(s, text) ==
    /\ s.err = "none" /\ s.bond => s.device = Append(text, NL)
    /\ s.err # "none" \/ ~s.bond => /\ s.device \in Seq(Letters)
                                    /\ Len(text) + 1 <= ChunkSize => s.device = <<>>

LEMMA SendTries ==
    ASSUME NEW st \in Wire, NEW text \in Seq(Letters), st.device = <<>>
    PROVE  Tried(Send(st, text), text)
<1> DEFINE p == Append(text, NL)
           n == NumChunks(p)
           s == Send(st, text)
           o == st.outs
<1>1. /\ p \in Seq(Bytes) /\ p # <<>> /\ n \in Nat \ {0}
      /\ Len(p) = Len(text) + 1 /\ Len(text) \in Nat
      /\ \A j \in 1..Len(text) : p[j] = text[j]
  <2>1. p \in Seq(Bytes) /\ p # <<>> /\ n \in Nat \ {0}
    BY SendSteps
  <2>2. Len(p) = Len(text) + 1 /\ Len(text) \in Nat
    OBVIOUS
  <2>3. \A j \in 1..Len(text) : p[j] = text[j]
    BY <2>2, AppendProperties DEF Bytes
  <2> QED
    BY <2>1, <2>2, <2>3
<1>2. Sent(s, <<>>, p, o, st.bond, n)
    BY SendSends
<1> HIDE DEF s, n, o
<1>3. ASSUME Written(s, <<>>, p, o, n) PROVE Tried(s, text)
  <2>1. Cut(p, n) = Len(p) /\ SubSeq(p, 1, Len(p)) = p /\ <<>> \o p = p
    BY <1>1, ChunksCount, SubSeqFull, ConcatEmptySeq DEF n
  <2> HIDE DEF p
  <2> QED
    BY <1>3, <2>1 DEF Written, Tried, p
<1>4. ASSUME NEW k \in 0..(n - 1), s.device = <<>> \o SubSeq(p, 1, Cut(p, k)),
             s.err # "none" \/ ~s.bond
      PROVE  Tried(s, text)
  <2> DEFINE x == Cut(p, k)
  <2>1. k \in 0..(n - 1)
    OBVIOUS
  <2>2. x = k * ChunkSize /\ x < Len(p) /\ x \in 0..Len(p)
    BY <1>1, <2>1, ChunkGoesOn, ChunksCount DEF n
  <2> HIDE DEF x
  <2>3. x \in 0..Len(text)
    BY <1>1, <2>2
  <2>4. SubSeq(p, 1, x) = SubSeq(text, 1, x) /\ SubSeq(text, 1, x) \in Seq(Letters)
    BY <1>1, <2>3
  <2>5. s.device = SubSeq(text, 1, x)
    <3>1. s.device = <<>> \o SubSeq(p, 1, x)
      BY <1>4 DEF x
    <3>2. <<>> \o SubSeq(text, 1, x) = SubSeq(text, 1, x)
      BY <2>4, ConcatEmptySeq
    <3> QED
      BY <2>4, <3>1, <3>2
  <2>6. Len(text) + 1 <= ChunkSize => x = 0
    <3> SUFFICES ASSUME Len(p) <= ChunkSize, k # 0 PROVE FALSE
      BY <1>1, <2>2, SizesAssumption
    <3>1. k >= 1 /\ k \in Nat /\ ChunkSize \in Nat \ {0}
      BY <1>1, <2>1, SizesAssumption
    <3>2. 1 * ChunkSize <= k * ChunkSize
      BY <3>1
    <3> QED
      BY <1>1, <2>2, <3>1, <3>2
  <2>7. SubSeq(text, 1, 0) = <<>>
    OBVIOUS
  <2> QED
    BY <1>4, <2>4, <2>5, <2>6, <2>7 DEF Tried
<1>5. ASSUME NEW f \in 1..n, FailedAt(s, <<>>, p, o, f) PROVE Tried(s, text)
  <2>1. f - 1 \in 0..(n - 1)
    BY <1>1
  <2>2. s.err # "none" /\ s.device = <<>> \o SubSeq(p, 1, Cut(p, f - 1))
    BY <1>5 DEF FailedAt
  <2> QED
    BY <1>4, <2>1, <2>2
<1>6. ASSUME Vanished(s, <<>>, p, o, st.bond) PROVE Tried(s, text)
    BY <1>4, <1>6 DEF Vanished, n
<1> QED
    BY <1>2, <1>3, <1>5, <1>6 DEF Sent, s

LEMMA RetriesTry ==
    ASSUME NEW st \in Wire, NEW text \in Seq(Letters), NEW patience \in Nat \ {0},
           st.device = <<>>
    PROVE  /\ retrySend(st, text, patience) \in Wire
           /\ Tried(retrySend(st, text, patience), text)
<1> DEFINE n == bleAuthAttempts(text)
<1>1. n \in Nat \ {0} /\ (n > 1 => Len(text) + 1 <= ChunkSize)
    BY AttemptsCount
<1>2. PICK h : /\ h[0] = st
               /\ \A i \in 1..n : h[i] = Attempt(text, patience, h[i - 1], i)
               /\ \A i \in 0..n : h[i] \in Wire
               /\ retrySend(st, text, patience) = h[n]
    BY RetrySteps
<1> HIDE DEF n
<1> DEFINE T == {i \in 0..n : i = 0 \/ Tried(h[i], text)}
<1>3. 0 \in T
    BY <1>1
<1>4. ASSUME NEW i \in 0..(n - 1), i \in T PROVE i + 1 \in T
  <2>1. i \in 0..n /\ i + 1 \in 0..n /\ i + 1 \in 1..n /\ (i + 1) - 1 = i
    BY <1>1
  <2>2. h[i] \in Wire /\ h[i + 1] = Attempt(text, patience, h[i], i + 1)
    BY <1>2, <2>1
  <2>3. CASE i = 0
    <3>1. h[i + 1] = Send(h[0], text)
      BY <2>2, <2>3 DEF Attempt
    <3>2. Tried(h[i + 1], text)
      BY <1>2, <3>1, SendTries
    <3> QED
      BY <2>1, <3>2
  <2>4. CASE i # 0
    <3>1. Tried(h[i], text) /\ i + 1 # 1 /\ n > 1
      BY <1>1, <1>4, <2>1, <2>4
    <3>2. CASE ~isTransient(h[i].err)
      BY <2>1, <2>2, <3>1, <3>2 DEF Attempt
    <3>3. CASE isTransient(h[i].err)
      <4>1. h[i].device = <<>>
        BY <1>1, <3>1, <3>3 DEF Tried, isTransient
      <4>2. CASE i + 1 > patience
        <5>1. h[i + 1].err = "cancelled" /\ h[i + 1].device = <<>>
          BY <2>2, <3>3, <4>1, <4>2 DEF Attempt, Wire
        <5>2. Tried(h[i + 1], text)
          BY <5>1 DEF Tried
        <5> QED
          BY <2>1, <5>2
      <4>3. CASE ~(i + 1 > patience)
        <5>1. h[i + 1] = Send(h[i], text)
          BY <2>2, <3>3, <4>3 DEF Attempt
        <5>2. Tried(h[i + 1], text)
          BY <2>2, <4>1, <5>1, SendTries
        <5> QED
          BY <2>1, <5>2
      <4> QED
        BY <4>2, <4>3
    <3> QED
      BY <3>2, <3>3
  <2> QED
    BY <2>3, <2>4
<1> HIDE DEF T
<1>5. n \in T /\ n \in 0..n
  <2>1. n \in Nat /\ n \in 0..n
    BY <1>1
  <2>2. 0..n \subseteq T
    BY <1>3, <1>4, <2>1, Induction
  <2> QED
    BY <2>1, <2>2
<1> QED
    BY <1>1, <1>2, <1>5 DEF T

\* What the device reads, for every token and however its writes end.
LEMMA DeviceReadsToken ==
    ASSUME NEW outs \in Seq(Ends), NEW text \in Seq(Letters), text # <<>>,
           NEW patience \in Nat \ {0}
    PROVE  LET st == retrySend(Fresh(outs), text, patience)
           IN  Lines(st.device) = IF st.err = "none" /\ st.bond THEN <<text>> ELSE <<>>
<1> DEFINE st == retrySend(Fresh(outs), text, patience)
<1>1. Tried(st, text)
  <2>1. Fresh(outs) \in Wire /\ Fresh(outs).device = <<>>
    BY FreshTyped DEF Fresh
  <2> QED
    BY <2>1, RetriesTry
<1> HIDE DEF st
<1>2. Lines(Append(text, NL)) = <<text>>
  <2>1. text \in Seq(Bytes) /\ NL \in Bytes /\ Lines(text) = <<>> /\ Rest(text) = text
    BY LettersAlone DEF Bytes
  <2>2. Lines(Append(text, NL)) = Append(<<>>, text)
    BY <2>1, LinesOfAppend
  <2> QED
    BY <2>2
<1>3. CASE st.err = "none" /\ st.bond
    BY <1>1, <1>2, <1>3 DEF Tried, st
<1>4. CASE ~(st.err = "none" /\ st.bond)
    BY <1>1, <1>4, LettersAlone DEF Tried, st
<1> QED
    BY <1>3, <1>4

LEMMA OutcomesAre == Outcomes \subseteq Seq(Ends)
<1>1. MaxLen \in Nat
    BY SizesAssumption
<1>2. {"none", "busy", "failed", "lost"} \subseteq Ends
    BY DEF Ends, Errs
<1> QED
    BY <1>1, <1>2 DEF Outcomes

\* Lines 322-354, for all tokens, chunk sizes and numbers of attempts.
THEOREM TokenOnce == TokenIsWrittenOnce
<1>1. \A text \in Texts : text \in Seq(Letters)
    BY SizesAssumption, UpToAre DEF Texts
<1>2. \A patience \in 1..Retries : patience \in Nat \ {0}
    BY SizesAssumption
<1> QED
    BY <1>1, <1>2, OutcomesAre, DeviceReadsToken DEF TokenIsWrittenOnce

-----------------------------------------------------------------------------
(* BleMessages: what opens a link. *)

LEMMA SeqsGrow == ASSUME NEW S, NEW T, S \subseteq T PROVE Seq(S) \subseteq Seq(T)
OBVIOUS

LEMMA TwoParts == ASSUME NEW S, NEW x \in S, NEW y \in S PROVE <<x, y>> \in Seq(S)
OBVIOUS

\* What is buffered and received of letters from S.
Boxes(S) == [lineBuf : Seq(S), recvCh : Seq(Seq(S)), received : Seq(Seq(S))]

LEMMA BoxesGrow == ASSUME NEW S, NEW T, S \subseteq T PROVE Boxes(S) \subseteq Boxes(T)
<1>1. Seq(S) \subseteq Seq(T)
    BY SeqsGrow
<1>2. Seq(Seq(S)) \subseteq Seq(Seq(T))
    BY <1>1, SeqsGrow
<1> QED
    BY <1>1, <1>2 DEF Boxes

LEMMA ReceiveKeepsBox ==
    ASSUME NEW S, NEW box \in Boxes(S), box.recvCh # <<>>
    PROVE  Receive(box) \in Boxes(S) /\ Head(box.recvCh) \in Seq(S)
<1>1. /\ box.lineBuf \in Seq(S) /\ box.recvCh \in Seq(Seq(S)) /\ box.received \in Seq(Seq(S))
      /\ box = [lineBuf |-> box.lineBuf, recvCh |-> box.recvCh, received |-> box.received]
    BY DEF Boxes
<1>2. Head(box.recvCh) \in Seq(S) /\ Tail(box.recvCh) \in Seq(Seq(S))
    BY <1>1
<1>3. Append(box.received, Head(box.recvCh)) \in Seq(Seq(S))
    BY <1>1, <1>2
<1>4. Receive(box) = [lineBuf |-> box.lineBuf, recvCh |-> Tail(box.recvCh),
                      received |-> Append(box.received, Head(box.recvCh))]
    BY <1>1 DEF Receive
<1> QED
    BY <1>1, <1>2, <1>3, <1>4 DEF Boxes

LEMMA TakeByteKeepsBox ==
    ASSUME NEW S, NEW box \in Boxes(S), NEW byte \in S \union {NL}
    PROVE  TakeByte(box, byte) \in Boxes(S)
<1>1. /\ box.lineBuf \in Seq(S) /\ box.recvCh \in Seq(Seq(S)) /\ box.received \in Seq(Seq(S))
      /\ box = [lineBuf |-> box.lineBuf, recvCh |-> box.recvCh, received |-> box.received]
    BY DEF Boxes
<1>2. CASE byte # NL
  <2>1. Append(box.lineBuf, byte) \in Seq(S)
    BY <1>1, <1>2
  <2>2. TakeByte(box, byte) = [lineBuf |-> Append(box.lineBuf, byte),
                               recvCh |-> box.recvCh, received |-> box.received]
    BY <1>1, <1>2 DEF TakeByte
  <2> QED
    BY <1>1, <2>1, <2>2 DEF Boxes
<1>3. CASE byte = NL
  <2> DEFINE kept == IF box.lineBuf # <<>> /\ Len(box.recvCh) < RecvCap
                     THEN Append(box.recvCh, box.lineBuf) ELSE box.recvCh
  <2>1. kept \in Seq(Seq(S))
    BY <1>1
  <2>2. TakeByte(box, byte) = [lineBuf |-> <<>>, recvCh |-> kept, received |-> box.received]
    BY <1>1, <1>3 DEF TakeByte
  <2> HIDE DEF kept
  <2>3. <<>> \in Seq(S)
    OBVIOUS
  <2> QED
    BY <1>1, <2>1, <2>2, <2>3 DEF Boxes
<1> QED
    BY <1>2, <1>3

\* The device takes calls, and may have said ok, on this link.
Takes == token = <<>> \/ Accepted

\* Letters of this link or an older one, those that say ok only if the device may.
Vouched ==
    {x \in [says : Said, link : Nat, last : BOOLEAN] :
        x.link <= link /\ (x.link = link /\ x.says = Ack => Takes)}

InputVouched == wire \in Seq(Vouched \union {NL}) /\ input \in Boxes(Vouched)

\* The device has read the token or nothing, and nothing before it is written.
TokenRead ==
    /\ link \in Nat /\ token \in Seq(Letters)
    /\ phase \in {"down", "write", "ack", "open"}
    /\ Lines(sent.device) \in {<<>>, <<token>>}
    /\ phase \in {"write", "ack"} => token # <<>>
    /\ phase = "write" => Lines(sent.device) = <<>>

MessagesInv == TokenRead /\ InputVouched /\ AuthByAcceptance

LEMMA OkIsAck ==
    /\ Ack \in Said /\ Refusal \in Said /\ Notice \in Said
    /\ Refusal # Ack /\ Notice # Ack
    /\ \A says \in Said : validateBLEAuthAck(says) => says = Ack
    /\ ~validateBLEAuthAck(Torn)
BY DEF Said, Ack, Refusal, Notice, Torn, validateBLEAuthAck

\* The device can have accepted the right token only.
LEMMA AcceptedIsSecret == ASSUME TokenRead, Accepted PROVE token = Secret
<1>1. <<Secret>> = <<token>>
    BY DEF TokenRead, Accepted
<1> QED
    BY <1>1

\* A message of the device on this link, of letters from any set that has its two.
LEMMA MessageIsOf ==
    ASSUME NEW S, NEW says, NEW n, \A last \in BOOLEAN : Letter(says, n, last) \in S
    PROVE  Append(Message(says, n), NL) \in Seq(S \union {NL})
<1>1. Letter(says, n, FALSE) \in S \union {NL} /\ Letter(says, n, TRUE) \in S \union {NL}
    OBVIOUS
<1>2. Message(says, n) \in Seq(S \union {NL})
    BY <1>1, TwoParts DEF Message
<1> QED
    BY <1>2, AppendProperties

\* What was vouched for stays so.
LEMMA VouchedStays ==
    ASSUME InputVouched, Vouched \subseteq Vouched'
    PROVE  wire \in Seq(Vouched' \union {NL}) /\ input \in Boxes(Vouched')
<1>1. Vouched \union {NL} \subseteq Vouched' \union {NL}
    OBVIOUS
<1> QED
    BY <1>1, SeqsGrow, BoxesGrow DEF InputVouched

\* A step that leaves the link, the token and what the device has read as they are.
LEMMA SameLink ==
    ASSUME link' = link, token' = token, sent' = sent
    PROVE  Vouched' = Vouched /\ Takes' = Takes /\ Accepted' = Accepted
BY DEF Vouched, Takes, Accepted

LEMMA InitHasInv == Init => MessagesInv
<1> SUFFICES ASSUME Init PROVE MessagesInv
    OBVIOUS
<1>1. TokenRead
    BY LinesOfNothing DEF Init, TokenRead, Fresh
<1>2. InputVouched
    BY DEF Init, InputVouched, Boxes, Buffered
<1>3. AuthByAcceptance
    BY DEF Init, AuthByAcceptance
<1> QED
    BY <1>1, <1>2, <1>3 DEF MessagesInv

LEMMA ConnectKeepsInv == ASSUME MessagesInv, Connect PROVE MessagesInv'
<1>1. /\ link \in Nat /\ link' = link + 1 /\ token' \in Seq(Letters)
      /\ phase' = IF token' = <<>> THEN "open" ELSE "write"
      /\ sent' = Fresh(<<>>) /\ wire' = wire /\ input' = input
    BY TokensAssumption DEF MessagesInv, TokenRead, Connect
<1>2. Lines(sent'.device) = <<>>
    BY <1>1, LinesOfNothing DEF Fresh
<1>3. Vouched \subseteq Vouched'
    BY <1>1 DEF Vouched
<1>4. TokenRead'
    BY <1>1, <1>2 DEF TokenRead
<1>5. InputVouched'
    BY <1>1, <1>3, VouchedStays DEF InputVouched, MessagesInv
<1>6. AuthByAcceptance'
    BY <1>1 DEF AuthByAcceptance
<1> QED
    BY <1>4, <1>5, <1>6 DEF MessagesInv

LEMMA WriteKeepsInv == ASSUME MessagesInv, WriteToken PROVE MessagesInv'
<1>1. /\ link \in Nat /\ link' = link /\ token \in Seq(Letters) /\ token' = token
      /\ token # <<>> /\ Lines(sent.device) = <<>> /\ input' = input
    BY DEF MessagesInv, TokenRead, WriteToken
<1>2. Lines(sent'.device) \in {<<>>, <<token>>}
  <2>1. PICK outs \in Endings, patience \in 1..Retries :
            sent' = retrySend(Fresh(outs), token, patience)
    BY DEF WriteToken
  <2>2. outs \in Seq(Ends)
    <3>1. {"none", "busy", "failed", "lost"} \subseteq Ends
      BY DEF Ends, Errs
    <3> QED
      BY <3>1, TokensAssumption, SeqsGrow
  <2>3. patience \in Nat \ {0}
    BY SizesAssumption
  <2> QED
    BY <1>1, <2>1, <2>2, <2>3, DeviceReadsToken
<1>3. ~Takes
    BY <1>1 DEF Takes, Accepted
<1>4. Vouched \subseteq Vouched'
    BY <1>1, <1>3 DEF Vouched
<1>5. CASE sent'.err = "none"
  <2>1. phase' = "ack" /\ wire' = wire \o Answer(sent'.device)
    BY <1>5 DEF WriteToken
  <2>2. Answer(sent'.device) \in Seq(Vouched' \union {NL})
    <3>1. CASE Lines(sent'.device) = <<>>
      BY <3>1 DEF Answer
    <3>2. CASE Lines(sent'.device) # <<>>
      <4>1. Lines(sent'.device) = <<token>> /\ Lines(sent'.device)[1] = token
        BY <1>2, <3>2
      <4> DEFINE says == IF token = Secret THEN Ack ELSE Refusal
      <4>2. says \in Said /\ (says = Ack => Takes')
        BY <1>1, <4>1, OkIsAck DEF Takes, Accepted
      <4>3. Answer(sent'.device) = Append(Message(says, link'), NL)
        BY <1>1, <3>2, <4>1 DEF Answer
      <4> HIDE DEF says
      <4>4. \A last \in BOOLEAN : Letter(says, link', last) \in Vouched'
        BY <1>1, <4>2 DEF Letter, Vouched
      <4> QED
        BY <4>3, <4>4, MessageIsOf
    <3> QED
      BY <3>1, <3>2
  <2>3. wire \in Seq(Vouched' \union {NL})
    BY <1>4, VouchedStays DEF MessagesInv
  <2>4. wire' \in Seq(Vouched' \union {NL})
    BY <2>1, <2>2, <2>3, ConcatProperties
  <2>5. InputVouched'
    BY <1>1, <1>4, <2>4, VouchedStays DEF InputVouched, MessagesInv
  <2>6. TokenRead' /\ AuthByAcceptance'
    BY <1>1, <1>2, <2>1 DEF TokenRead, AuthByAcceptance
  <2> QED
    BY <2>5, <2>6 DEF MessagesInv
<1>6. CASE sent'.err # "none"
  <2>1. phase' = "down" /\ wire' = <<>>
    BY <1>6 DEF WriteToken, Down
  <2>2. InputVouched'
    BY <1>1, <1>4, <2>1, VouchedStays DEF InputVouched, MessagesInv
  <2>3. TokenRead' /\ AuthByAcceptance'
    BY <1>1, <1>2, <2>1 DEF TokenRead, AuthByAcceptance
  <2> QED
    BY <2>2, <2>3 DEF MessagesInv
<1> QED
    BY <1>5, <1>6

\* A vouched line that authenticate takes for an ok of this link is the device's.
LEMMA OkIsVouched ==
    ASSUME TokenRead, token # <<>>, NEW line \in Seq(Vouched), validateBLEAuthAck(Decoded(line))
    PROVE  (Accepted /\ token = Secret) \/ line[1].link < link
<1>1. IsMessage(line) /\ validateBLEAuthAck(line[1].says)
    BY OkIsAck DEF Decoded
<1>2. PICK says \in Said, n \in 1..link : line = Message(says, n)
    BY <1>1 DEF IsMessage
<1>3. line[1] = Letter(says, n, FALSE) /\ Len(line) = 2
    BY <1>2 DEF Message
<1>4. line[1] \in Vouched /\ line[1].says = says /\ line[1].link = n
  <2>1. 1 \in 1..Len(line)
    BY <1>3
  <2>2. line[1] \in Vouched
    BY <2>1, ElementOfSeq
  <2> QED
    BY <1>3, <2>2 DEF Letter
<1>5. line[1].says = Ack
    BY <1>1, <1>4, OkIsAck
<1>6. n \in Nat /\ link \in Nat /\ n <= link
    BY DEF TokenRead
<1>7. CASE n = link
  <2>1. Takes
    BY <1>4, <1>5, <1>7 DEF Vouched
  <2>2. Accepted
    BY <2>1 DEF Takes
  <2> QED
    BY <2>2, AcceptedIsSecret
<1> QED
    BY <1>4, <1>6, <1>7

LEMMA TakeKeepsInv == ASSUME MessagesInv, TakeAck PROVE MessagesInv'
<1>1. /\ link' = link /\ token' = token /\ sent' = sent /\ token # <<>> /\ phase = "ack"
      /\ input.recvCh # <<>> /\ ack' = Head(input.recvCh) /\ input' = Receive(input)
      /\ wire' \in {wire, <<>>}
    BY DEF MessagesInv, TokenRead, TakeAck, Down
<1>2. input' \in Boxes(Vouched) /\ ack' \in Seq(Vouched)
    BY <1>1, ReceiveKeepsBox DEF MessagesInv, InputVouched
<1>3. phase' = "down" \/ (phase' = "open" /\ validateBLEAuthAck(Decoded(ack')))
    BY DEF TakeAck, Down
<1>4. TokenRead'
    BY <1>1, <1>3 DEF MessagesInv, TokenRead
<1>5. InputVouched'
  <2>1. wire \in Seq(Vouched \union {NL}) /\ <<>> \in Seq(Vouched \union {NL})
    BY DEF MessagesInv, InputVouched
  <2>2. wire' \in Seq(Vouched \union {NL})
    BY <1>1, <2>1
  <2> QED
    BY <1>1, <1>2, <2>2, SameLink DEF InputVouched
<1>6. AuthByAcceptance'
  <2>1. CASE phase' = "down"
    BY <2>1 DEF AuthByAcceptance
  <2>2. CASE validateBLEAuthAck(Decoded(ack'))
    <3>1. (Accepted /\ token = Secret) \/ ack'[1].link < link
      BY <1>1, <1>2, <2>2, OkIsVouched DEF MessagesInv
    <3> QED
      BY <1>1, <3>1, SameLink DEF AuthByAcceptance
  <2> QED
    BY <1>3, <2>1, <2>2
<1> QED
    BY <1>4, <1>5, <1>6 DEF MessagesInv

LEMMA DropKeepsInv == ASSUME MessagesInv, Drop PROVE MessagesInv'
<1>1. /\ link' = link /\ token' = token /\ sent' = sent /\ input' = input
      /\ phase' = "down" /\ wire' = <<>>
    BY DEF Drop, Down
<1>2. TokenRead' /\ AuthByAcceptance'
    BY <1>1 DEF MessagesInv, TokenRead, AuthByAcceptance
<1>3. InputVouched'
    BY <1>1, SameLink DEF MessagesInv, InputVouched
<1> QED
    BY <1>2, <1>3 DEF MessagesInv

LEMMA SayingKeepsInv ==
    ASSUME MessagesInv, NEW says \in {Notice, Ack}, DeviceSends(says)
    PROVE  MessagesInv'
<1>1. /\ link' = link /\ token' = token /\ sent' = sent /\ input' = input
      /\ phase' = phase /\ ack' = ack
      /\ wire' = wire \o Append(Message(says, link), NL)
    BY DEF DeviceSends
<1>2. says \in Said /\ (says = Ack => Takes) /\ link \in Nat
    BY OkIsAck DEF DeviceSends, Takes, MessagesInv, TokenRead
<1>3. \A last \in BOOLEAN : Letter(says, link, last) \in Vouched
    BY <1>2 DEF Letter, Vouched
<1>4. Append(Message(says, link), NL) \in Seq(Vouched \union {NL})
    BY <1>3, MessageIsOf
<1>5. wire' \in Seq(Vouched \union {NL})
    BY <1>1, <1>4, ConcatProperties DEF MessagesInv, InputVouched
<1>6. InputVouched'
    BY <1>1, <1>5, SameLink DEF MessagesInv, InputVouched
<1>7. TokenRead' /\ AuthByAcceptance'
    BY <1>1, SameLink DEF MessagesInv, TokenRead, AuthByAcceptance
<1> QED
    BY <1>6, <1>7 DEF MessagesInv

LEMMA NotifyKeepsInv == ASSUME MessagesInv, Notify PROVE MessagesInv'
<1>1. /\ link' = link /\ token' = token /\ sent' = sent /\ phase' = phase /\ ack' = ack
      /\ wire # <<>> /\ input' = TakeByte(input, Head(wire)) /\ wire' = Tail(wire)
    BY DEF Notify
<1>2. Head(wire) \in Vouched \union {NL} /\ wire' \in Seq(Vouched \union {NL})
    BY <1>1 DEF MessagesInv, InputVouched
<1>3. input' \in Boxes(Vouched)
    BY <1>1, <1>2, TakeByteKeepsBox DEF MessagesInv, InputVouched
<1>4. InputVouched'
    BY <1>1, <1>2, <1>3, SameLink DEF InputVouched
<1>5. TokenRead' /\ AuthByAcceptance'
    BY <1>1, SameLink DEF MessagesInv, TokenRead, AuthByAcceptance
<1> QED
    BY <1>4, <1>5 DEF MessagesInv

LEMMA ReadKeepsInv == ASSUME MessagesInv, Read PROVE MessagesInv'
<1>1. /\ link' = link /\ token' = token /\ sent' = sent /\ phase' = phase /\ ack' = ack
      /\ input.recvCh # <<>> /\ input' = Receive(input) /\ wire' = wire
    BY DEF Read
<1>2. input' \in Boxes(Vouched)
    BY <1>1, ReceiveKeepsBox DEF MessagesInv, InputVouched
<1>3. InputVouched'
    BY <1>1, <1>2, SameLink DEF MessagesInv, InputVouched
<1>4. TokenRead' /\ AuthByAcceptance'
    BY <1>1, SameLink DEF MessagesInv, TokenRead, AuthByAcceptance
<1> QED
    BY <1>3, <1>4 DEF MessagesInv

LEMMA NextKeepsInv == ASSUME MessagesInv, [Next]_vars PROVE MessagesInv'
<1>1. CASE UNCHANGED vars
    BY <1>1 DEF vars, MessagesInv, TokenRead, InputVouched, AuthByAcceptance, Vouched, Takes,
                Accepted
<1>2. CASE \E says \in {Notice, Ack} : DeviceSends(says)
    BY <1>2, SayingKeepsInv
<1> QED
    BY <1>1, <1>2, ConnectKeepsInv, WriteKeepsInv, TakeKeepsInv, DropKeepsInv,
       NotifyKeepsInv, ReadKeepsInv DEF Next

-----------------------------------------------------------------------------
(* The properties of the runs. *)

\* ble.go:387-403, 519-528: on every link lines are delivered in order, and only the
\* first of them may be spoilt by what an earlier link has left.
THEOREM LinesOnEveryLink == Spec => []LinesKeepOrder
<1>1. LinesKeepOrder
    BY LinesArriveInPieces DEF LinesKeepOrder
<1> QED
    BY <1>1, PTL

\* ble.go:501-514: on every link a Send that fails spoils one message and no other.
THEOREM SpoiledOnEveryLink == Spec => []SendSpoilsOne
<1>1. SendSpoilsOne
    BY OneMessageSpoiled DEF SendSpoilsOne
<1> QED
    BY <1>1, PTL

\* ble.go:295-354: on every link the device reads the token once or never, and exactly
\* once if the write succeeds and is not lost.
THEOREM TokenOnEveryLink == Spec => []TokenWrittenOnce
<1>1. TokenWrittenOnce
    BY TokenOnce DEF TokenWrittenOnce
<1> QED
    BY <1>1, PTL

\* ble.go:286-314, 363-385: whatever the tokens, the endings of the writes and the bounds,
\* with lost writes and whatever earlier links have left in recvCh, a link with a token
\* is opened only if the device has read that token and accepts it, or by a line of an
\* earlier link.
THEOREM AuthIsAcceptance == Spec => []AuthByAcceptance
<1>1. MessagesInv => AuthByAcceptance
    BY DEF MessagesInv
<1> QED
    BY <1>1, InitHasInv, NextKeepsInv, PTL DEF Spec
====
