---- MODULE VersionRange ----
(***************************************************************************)
(* version.go: which firmware protocol versions the SDK accepts.  A        *)
(* version text is the sequence of its dot-separated segments, without the *)
(* prefix v; a segment is the number strconv.Atoi makes of it, or          *)
(* NoNumber.                                                               *)
(***************************************************************************)
EXTENDS Integers, Sequences

CONSTANT NoNumber  \* a segment that is no number

ASSUME SegmentAssumption == NoNumber \notin Int

MinProtocolVersion == <<0, 1, 0>>
MaxProtocolVersion == <<0, 5, 0>>

\* Whether parseVersion succeeds.
Parses(v) == Len(v) = 3 /\ \A i \in 1..3 : v[i] # NoNumber

\* Mutant: a version that does not parse equals every other.
LenientCompare(a, b) ==
    IF ~Parses(a) \/ ~Parses(b) \/ a = b THEN 0
    ELSE LET i == CHOOSE i \in 1..3 : a[i] # b[i] /\ \A j \in 1..(i - 1) : a[j] = b[j]
         IN  IF a[i] < b[i] THEN -1 ELSE 1

\* The first segment that differs decides; whichever of the two does not parse, the
\* result is that of a smaller a.
compareVersion(a, b) ==
    IF ~Parses(a) \/ ~Parses(b) THEN -1
    ELSE IF a = b THEN 0
    ELSE LET i == CHOOSE i \in 1..3 : a[i] # b[i] /\ \A j \in 1..(i - 1) : a[j] = b[j]
         IN  IF a[i] < b[i] THEN -1 ELSE 1

isVersionInRange(version, min, max) ==
    compareVersion(version, min) >= 0 /\ compareVersion(version, max) <= 0

IsCompatible(version) == isVersionInRange(version, MinProtocolVersion, MaxProtocolVersion)

-----------------------------------------------------------------------------
(* Properties. *)

Segments == {0, 1, 2, NoNumber}
Wellformed == [1..3 -> 0..2]

\* The place of a well-formed version among all of them.
Rank(v) == 9 * v[1] + 3 * v[2] + v[3]

\* version.go:30-51: between well-formed bounds exactly the well-formed versions
\* that the order of the numbers puts there are accepted, whatever number of
\* segments a text has and whichever of them is no number.
RangeIsExact ==
    \A v \in UNION {[1..n -> Segments] : n \in 0..4}, min, max \in Wellformed :
        isVersionInRange(v, min, max) <=>
            v \in Wellformed /\ Rank(min) <= Rank(v) /\ Rank(v) <= Rank(max)
====
