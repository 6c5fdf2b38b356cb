---- MODULE ClientAnswersProofs ----
(***************************************************************************)
(* Proofs about what the client makes of an answer: VersionRange for all   *)
(* numbers, ClientResults, and that AnswersAreRead holds.  None of it      *)
(* depends on the state.                                                   *)
(***************************************************************************)
EXTENDS MCClientSession, TLAPS

-----------------------------------------------------------------------------
(* The order of versions. *)

Triple == [1..3 -> Int]

\* The first number that differs is smaller in a.
Before(a, b) == \E i \in 1..3 : a[i] < b[i] /\ \A j \in 1..(i - 1) : a[j] = b[j]

AtMost(a, b) == a = b \/ Before(a, b)

\* What parses is what has three numbers.
LEMMA ParsesMeansTriple ==
    ASSUME NEW n \in Nat, NEW v \in [1..n -> Int \union {NoNumber}]
    PROVE  Parses(v) <=> v \in Triple
<1>1. Len(v) = n /\ DOMAIN v = 1..n
    OBVIOUS
<1>2. ASSUME Parses(v) PROVE v \in Triple
  <2>1. n = 3 /\ \A i \in 1..3 : v[i] # NoNumber
    BY <1>1, <1>2 DEF Parses
  <2>2. v \in [1..3 -> Int \union {NoNumber}] /\ \A i \in 1..3 : v[i] \in Int
    BY <2>1
  <2> QED
    BY <2>2 DEF Triple
<1>3. ASSUME v \in Triple PROVE Parses(v)
  <2>1. 1..n = 1..3
    BY <1>1, <1>3 DEF Triple
  <2>2. n = 3
    <3>1. 3 \in 1..n
      BY <2>1
    <3>2. n \in 1..3
      BY <2>1, <3>1
    <3> QED
      BY <3>1, <3>2
  <2> QED
    BY <1>1, <1>3, <2>2, SegmentAssumption DEF Parses, Triple
<1> QED
    BY <1>2, <1>3

\* Two triples that differ have a first number that does.
LEMMA FirstDifference ==
    ASSUME NEW a \in Triple, NEW b \in Triple, a # b
    PROVE  \E i \in 1..3 : a[i] # b[i] /\ \A j \in 1..(i - 1) : a[j] = b[j]
<1>1. \E i \in 1..3 : a[i] # b[i]
    BY DEF Triple
<1>2. CASE a[1] # b[1]
    BY <1>2
<1>3. CASE a[1] = b[1] /\ a[2] # b[2]
    BY <1>3
<1>4. CASE a[1] = b[1] /\ a[2] = b[2]
  <2>1. a[3] # b[3]
    BY <1>1, <1>4
  <2>2. \A j \in 1..(3 - 1) : a[j] = b[j]
    BY <1>4
  <2> QED
    BY <2>1, <2>2
<1> QED
    BY <1>2, <1>3, <1>4

LEMMA CompareIsOrder ==
    ASSUME NEW a \in Triple, NEW b \in Triple
    PROVE  compareVersion(a, b) = IF a = b THEN 0 ELSE IF Before(a, b) THEN -1 ELSE 1
<1>1. Parses(a) /\ Parses(b)
    BY ParsesMeansTriple DEF Triple
<1>2. CASE a = b
    BY <1>1, <1>2 DEF compareVersion
<1>3. CASE a # b
  <2> DEFINE First(i) == a[i] # b[i] /\ \A j \in 1..(i - 1) : a[j] = b[j]
  <2>1. \E i \in 1..3 : First(i)
    BY <1>3, FirstDifference
  <2>2. PICK f \in 1..3 : First(f) /\ compareVersion(a, b) = IF a[f] < b[f] THEN -1 ELSE 1
    BY <1>1, <1>3, <2>1 DEF compareVersion
  <2>3. a[f] < b[f] => Before(a, b)
    BY <2>2 DEF Before
  <2>4. ASSUME Before(a, b) PROVE a[f] < b[f]
    <3>1. PICK i \in 1..3 : a[i] < b[i] /\ \A j \in 1..(i - 1) : a[j] = b[j]
      BY <2>4 DEF Before
    <3>2. a[i] \in Int /\ b[i] \in Int
      BY DEF Triple
    <3>3. ~(i < f)
      BY <2>2, <3>1, <3>2
    <3>4. ~(f < i)
      <4>1. f < i => f \in 1..(i - 1)
        BY <2>2
      <4> QED
        BY <2>2, <3>1, <4>1
    <3>5. i = f
      BY <2>2, <3>3, <3>4
    <3> QED
      BY <3>1, <3>5
  <2> QED
    BY <1>3, <2>2, <2>3, <2>4
<1> QED
    BY <1>2, <1>3

LEMMA BeforeIsAsymmetric ==
    ASSUME NEW a \in Triple, NEW b \in Triple, Before(a, b)
    PROVE  ~Before(b, a) /\ a # b
BY DEF Before, Triple

\* version.go:30-51, for all numbers and all texts: the versions between two others are
\* exactly those with three numbers that the order of the numbers puts there.
THEOREM RangeIsTheOrder ==
    ASSUME NEW n \in Nat, NEW v \in [1..n -> Int \union {NoNumber}],
           NEW min \in Triple, NEW max \in Triple
    PROVE  isVersionInRange(v, min, max) <=> v \in Triple /\ AtMost(min, v) /\ AtMost(v, max)
<1>1. CASE v \notin Triple
    BY <1>1, ParsesMeansTriple DEF isVersionInRange, compareVersion
<1>2. CASE v \in Triple
  <2>1. compareVersion(v, min) >= 0 <=> ~Before(v, min)
    BY <1>2, CompareIsOrder, BeforeIsAsymmetric
  <2>2. compareVersion(v, max) <= 0 <=> AtMost(v, max)
    BY <1>2, CompareIsOrder DEF AtMost
  <2>3. AtMost(min, v) <=> ~Before(v, min)
    <3>1. CASE v = min
      BY <1>2, <3>1, BeforeIsAsymmetric DEF AtMost
    <3>2. CASE v # min
      <4>1. PICK i \in 1..3 : v[i] # min[i] /\ \A j \in 1..(i - 1) : v[j] = min[j]
        BY <1>2, <3>2, FirstDifference
      <4>5. v[i] \in Int /\ min[i] \in Int
        BY <1>2 DEF Triple
      <4>2. v[i] < min[i] \/ min[i] < v[i]
        BY <4>1, <4>5
      <4>3. v[i] < min[i] => Before(v, min)
        BY <4>1 DEF Before
      <4>4. min[i] < v[i] => Before(min, v)
        BY <4>1 DEF Before
      <4> QED
        BY <1>2, <3>2, <4>2, <4>3, <4>4, BeforeIsAsymmetric DEF AtMost
    <3> QED
      BY <3>1, <3>2
  <2> QED
    BY <1>2, <2>1, <2>2, <2>3 DEF isVersionInRange
<1> QED
    BY <1>1, <1>2

-----------------------------------------------------------------------------
(* What the run evaluates, for its texts and bounds. *)

LEMMA RankIsOrder ==
    ASSUME NEW a \in Wellformed, NEW b \in Wellformed
    PROVE  AtMost(a, b) <=> Rank(a) <= Rank(b)
<1>1. /\ a[1] \in 0..2 /\ a[2] \in 0..2 /\ a[3] \in 0..2
      /\ b[1] \in 0..2 /\ b[2] \in 0..2 /\ b[3] \in 0..2
    BY DEF Wellformed
<1>2. a = b <=> a[1] = b[1] /\ a[2] = b[2] /\ a[3] = b[3]
  <2>1. (\A i \in 1..3 : a[i] = b[i]) => a = b
    BY DEF Wellformed
  <2> QED
    BY <2>1
<1>3. Before(a, b) <=> \/ a[1] < b[1]
                       \/ a[1] = b[1] /\ a[2] < b[2]
                       \/ a[1] = b[1] /\ a[2] = b[2] /\ a[3] < b[3]
  <2>1. Before(a, b) <=> \/ a[1] < b[1] /\ \A j \in 1..0 : a[j] = b[j]
                         \/ a[2] < b[2] /\ \A j \in 1..1 : a[j] = b[j]
                         \/ a[3] < b[3] /\ \A j \in 1..2 : a[j] = b[j]
    BY DEF Before
  <2>2. /\ \A j \in 1..0 : a[j] = b[j]
        /\ (\A j \in 1..1 : a[j] = b[j]) <=> a[1] = b[1]
        /\ (\A j \in 1..2 : a[j] = b[j]) <=> a[1] = b[1] /\ a[2] = b[2]
    OBVIOUS
  <2> QED
    BY <2>1, <2>2
<1> QED
    BY <1>1, <1>2, <1>3 DEF AtMost, Rank

LEMMA RangeHolds == RangeIsExact
<1> SUFFICES ASSUME NEW n \in 0..4, NEW v \in [1..n -> Segments],
                    NEW min \in Wellformed, NEW max \in Wellformed
             PROVE  isVersionInRange(v, min, max) <=>
                        v \in Wellformed /\ Rank(min) <= Rank(v) /\ Rank(v) <= Rank(max)
    BY DEF RangeIsExact
<1>1. v \in [1..n -> Int \union {NoNumber}] /\ min \in Triple /\ max \in Triple
    BY DEF Segments, Wellformed, Triple
<1>2. v \in Triple <=> v \in Wellformed
  <2>1. Wellformed \subseteq Triple
    <3>1. 0..2 \subseteq Int
      OBVIOUS
    <3> QED
      BY <3>1 DEF Wellformed, Triple
  <2>2. ASSUME v \in Triple PROVE v \in Wellformed
    <3>1. DOMAIN v = 1..3 /\ \A i \in 1..3 : v[i] \in Int
      BY <2>2 DEF Triple
    <3>2. \A i \in 1..3 : v[i] \in Segments
      BY <3>1
    <3>3. \A i \in 1..3 : v[i] \in 0..2
      BY <3>1, <3>2, SegmentAssumption DEF Segments
    <3> QED
      BY <2>2, <3>1, <3>3 DEF Wellformed, Triple
  <2> QED
    BY <2>1, <2>2
<1>3. isVersionInRange(v, min, max) <=> v \in Triple /\ AtMost(min, v) /\ AtMost(v, max)
    BY <1>1, RangeIsTheOrder
<1> QED
    BY <1>2, <1>3, RankIsOrder

LEMMA ObjectsAre ==
    ASSUME NEW ks, NEW values, NEW r \in Objects(ks, values)
    PROVE  \E d \in SUBSET ks : \E f \in [d -> values] : r = Object(f)
BY DEF Objects

LEMMA SuccessHolds == SuccessIsSaid
<1> SUFFICES ASSUME NEW r \in {Failed, Absent} \union Objects({"ok", "pong", "other"},
                                                             {Bad, TRUE, FALSE})
             PROVE  /\ Command(r) => r.members["ok"] = TRUE
                    /\ Ping(r) => r.members["pong"] = TRUE
    BY DEF SuccessIsSaid
<1>1. CASE r = Failed
    BY <1>1 DEF Failed, Command, Ping, Query, Error
<1>2. CASE r = Absent
    BY <1>2 DEF Absent, Command, checkOK, Ping, Query, Decodes, Error
<1>3. ASSUME NEW d \in SUBSET {"ok", "pong", "other"}, NEW f \in [d -> {Bad, TRUE, FALSE}],
             r = Object(f)
      PROVE  /\ Command(r) => r.members["ok"] = TRUE
             /\ Ping(r) => r.members["pong"] = TRUE
  <2>1. r.members = f /\ DOMAIN f = d /\ r.object /\ ~r.err
    BY <1>3 DEF Object
  <2>2. ASSUME Command(r) PROVE f["ok"] = TRUE
    <3>1. Decodes(r, [ok |-> FALSE]) /\ With([ok |-> FALSE], f).ok
      BY <2>1, <2>2 DEF Command, checkOK
    <3>2. With([ok |-> FALSE], f).ok = IF "ok" \in d THEN f["ok"] ELSE FALSE
      BY <2>1 DEF With
    <3>3. "ok" \in d
      BY <3>1, <3>2
    <3>4. f["ok"] # Bad
      BY <2>1, <3>1, <3>3 DEF Decodes
    <3> QED
      BY <3>1, <3>2, <3>3, <3>4
  <2>3. ASSUME Ping(r) PROVE f["pong"] = TRUE
    <3>1. Decodes(r, [pong |-> FALSE]) /\ With([pong |-> FALSE], f).pong
      BY <2>1, <2>3 DEF Ping, Query, Ok, Error
    <3>2. With([pong |-> FALSE], f).pong = IF "pong" \in d THEN f["pong"] ELSE FALSE
      BY <2>1 DEF With
    <3>3. "pong" \in d
      BY <3>1, <3>2
    <3>4. f["pong"] # Bad
      BY <2>1, <3>1, <3>3 DEF Decodes
    <3> QED
      BY <3>1, <3>2, <3>3, <3>4
  <2> QED
    BY <2>1, <2>2, <2>3
<1>4. CASE r \in Objects({"ok", "pong", "other"}, {Bad, TRUE, FALSE})
  <2>1. PICK d \in SUBSET {"ok", "pong", "other"} :
            \E f \in [d -> {Bad, TRUE, FALSE}] : r = Object(f)
    <3> DEFINE values == {Bad, TRUE, FALSE}
    <3>1. r \in Objects({"ok", "pong", "other"}, values)
      BY <1>4
    <3> HIDE DEF values
    <3>2. \E d \in SUBSET {"ok", "pong", "other"} : \E f \in [d -> values] : r = Object(f)
      BY <3>1, ObjectsAre
    <3> QED
      BY <3>2 DEF values
  <2> QED
    BY <1>3, <2>1
<1> QED
    BY <1>1, <1>2, <1>4

LEMMA IDsHold == IDsAreKept
<1> DEFINE IDs == {"message_id", "packet_id", "broadcast_id"}
<1> SUFFICES ASSUME NEW r \in Objects(DOMAIN NoIDs, {Empty, 1, 2})
             PROVE  /\ sendMessageWithParams(r).value.message_id # Empty
                          <=> Says(r, {"message_id", "packet_id"})
                    /\ sendBroadcastWithParams(r).value.broadcast_id # Empty
                          <=> Says(r, {"message_id", "broadcast_id"})
    BY DEF IDsAreKept
<1>1. DOMAIN NoIDs = IDs /\ \A k \in IDs : NoIDs[k] = Empty
    BY DEF NoIDs
<1>2. PICK d \in SUBSET IDs : \E f \in [d -> {Empty, 1, 2}] : r = Object(f)
    BY <1>1, ObjectsAre
<1>3. PICK f \in [d -> {Empty, 1, 2}] : r = Object(f)
    BY <1>2
<1>4. r.members = f /\ DOMAIN f = d /\ r.object /\ ~r.err
    BY <1>3 DEF Object
<1>5. Decodes(r, NoIDs)
  <2>1. 1 # Bad /\ 2 # Bad /\ Empty # Bad
    BY ValuesAssumption
  <2>2. \A k \in d : f[k] # Bad
    BY <2>1
  <2> QED
    BY <1>4, <2>2 DEF Decodes
<1> DEFINE value == [k \in IDs |-> IF k \in d THEN f[k] ELSE Empty]
           resp == [err |-> FALSE, value |-> value]
<1>6. Query(r, NoIDs) = resp
    BY <1>1, <1>4, <1>5 DEF Query, Ok, With
<1>7. sendMessageWithParams(r).value.message_id =
          IF value.message_id = Empty THEN value.packet_id ELSE value.message_id
    BY <1>6 DEF sendMessageWithParams
<1>8. sendBroadcastWithParams(r).value.broadcast_id =
          IF value.broadcast_id = Empty THEN value.message_id ELSE value.broadcast_id
    BY <1>6 DEF sendBroadcastWithParams
<1>9. \A k \in IDs : value[k] # Empty <=> k \in d /\ f[k] # Empty
    OBVIOUS
<1>10. \A ks \in SUBSET IDs : Says(r, ks) <=> \E k \in ks : value[k] # Empty
    BY <1>4, <1>9 DEF Says
<1> HIDE DEF value
<1> QED
    BY <1>7, <1>8, <1>10

LEMMA OverridesHold == OverridesWin
<1> DEFINE Ks == {"address", "tier", "enabled", "interval_s"}
<1> SUFFICES ASSUME NEW o \in [Ks -> {Empty, 1}],
                    NEW k \in DOMAIN SetLocationContact(2, 3, o)
             PROVE  SetLocationContact(2, 3, o)[k] =
                        IF o[k] # Empty THEN o[k]
                        ELSE IF k = "address" THEN 2 ELSE IF k = "tier" THEN 3 ELSE Empty
    BY DEF OverridesWin
<1> DEFINE base == [address |-> 2, tier |-> 3, enabled |-> Empty, interval_s |-> Empty]
<1>1. DOMAIN base = Ks
    OBVIOUS
<1>2. SetLocationContact(2, 3, o) =
          [j \in Ks |-> IF j \in {f \in Ks : o[f] # Empty} THEN o[j] ELSE base[j]]
    BY <1>1 DEF SetLocationContact, SetRadio, With
<1>3. k \in Ks
    BY <1>2
<1>4. SetLocationContact(2, 3, o)[k] = IF o[k] # Empty THEN o[k] ELSE base[k]
    BY <1>2, <1>3
<1>5. base[k] = IF k = "address" THEN 2 ELSE IF k = "tier" THEN 3 ELSE Empty
    BY <1>3
<1> QED
    BY <1>4, <1>5

\* The members of the flat format, and what Airtime makes of an answer in each format.
Budget == {"critical", "normal", "broadcast", "refill"}
FlatZero == [critical |-> 0, normal |-> 0, broadcast |-> 0, refill |-> 0]
FlatTiers(v) ==
    <<Tier("critical", v.critical, v.refill), Tier("normal", v.normal, v.refill),
      Tier("broadcast", v.broadcast, v.refill)>>

LEMMA WithoutTiers ==
    ASSUME NEW r, NEW f, r = Object(f), "tiers" \notin DOMAIN f \/ f["tiers"] \in {Bad, <<>>}
    PROVE  Airtime(r) = IF Query(r, FlatZero).err THEN Error
                        ELSE Ok(FlatTiers(Query(r, FlatZero).value))
<1> DEFINE resp == Query(r, [tiers |-> <<>>])
<1>1. r.members = f /\ r.object /\ ~r.err
    BY DEF Object
<1>2. resp.err \/ resp.value.tiers = <<>>
  <2>1. CASE Decodes(r, [tiers |-> <<>>])
    <3>1. "tiers" \in DOMAIN f => f["tiers"] # Bad
      BY <1>1, <2>1 DEF Decodes
    <3>2. With([tiers |-> <<>>], f).tiers = <<>>
      BY <3>1 DEF With
    <3> QED
      BY <1>1, <2>1, <3>2 DEF Query, Ok
  <2>2. CASE ~Decodes(r, [tiers |-> <<>>])
    BY <1>1, <2>2 DEF Query, Error
  <2> QED
    BY <2>1, <2>2
<1> HIDE DEF resp
<1>3. ~(~resp.err /\ resp.value.tiers # <<>>)
    BY <1>2
<1>4. Airtime(r) = IF ~resp.err /\ resp.value.tiers # <<>> THEN Ok(resp.value.tiers)
                   ELSE IF Query(r, FlatZero).err THEN Error
                   ELSE Ok(FlatTiers(Query(r, FlatZero).value))
    BY DEF Airtime, FlatTiers, FlatZero, resp
<1> QED
    BY <1>3, <1>4

LEMMA AirtimeHolds == AirtimeIsTotal
<1>1. ASSUME NEW b \in [Budget -> 0..1]
      PROVE  LET tiers == [i \in 1..3 |->
                     LET name == <<"critical", "normal", "broadcast">>[i]
                     IN  Tier(name, b[name], b["refill"])]
             IN  Airtime(Object(b)) = Airtime(Object([tiers |-> tiers]))
  <2> DEFINE tiers == [i \in 1..3 |-> LET name == <<"critical", "normal", "broadcast">>[i]
                                     IN  Tier(name, b[name], b["refill"])]
             TierSet == [name : {"critical", "normal", "broadcast"}, ms : Int, refill : Int]
  <2>1. Object(b).members = b /\ DOMAIN b = Budget /\ Object(b).object /\ ~Object(b).err
    BY DEF Object
  <2>2. "tiers" \notin Budget /\ DOMAIN FlatZero = Budget
    BY DEF Budget, FlatZero
  <2>3. \A k \in Budget : b[k] # Bad
    BY ValuesAssumption
  <2>4. Decodes(Object(b), FlatZero)
    BY <2>1, <2>3 DEF Decodes
  <2>5. With(FlatZero, b) = b
    BY <2>1, <2>2 DEF With
  <2>6. Airtime(Object(b)) = Ok(FlatTiers(b))
    <3>1. Query(Object(b), FlatZero) = [err |-> FALSE, value |-> b]
      BY <2>1, <2>4, <2>5 DEF Query, Ok
    <3> QED
      BY <2>1, <2>2, <3>1, WithoutTiers
  <2>7. tiers = FlatTiers(b)
    BY DEF FlatTiers
  <2>8. tiers \in Seq(TierSet) /\ tiers # <<>>
    <3>1. \A k \in Budget : b[k] \in Int
      OBVIOUS
    <3>2. \A i \in 1..3 : tiers[i] \in TierSet
      BY <3>1 DEF Tier, Budget
    <3> QED
      BY <3>2
  <2> HIDE DEF tiers
  <2>9. Airtime(Object([tiers |-> tiers])) = Ok(tiers)
    <3> DEFINE r == Object([tiers |-> tiers])
    <3>1. r.members = [tiers |-> tiers] /\ r.object /\ ~r.err
      BY DEF Object
    <3>2. tiers # Bad
      BY <2>8, ValuesAssumption
    <3>3. Decodes(r, [tiers |-> <<>>])
      BY <3>1, <3>2 DEF Decodes
    <3>4. With([tiers |-> <<>>], r.members).tiers = tiers
      BY <3>1 DEF With
    <3> DEFINE resp == Query(r, [tiers |-> <<>>])
    <3> HIDE DEF r
    <3>5. ~resp.err /\ resp.value.tiers = tiers
      BY <3>1, <3>3, <3>4 DEF Query, Ok
    <3> HIDE DEF resp
    <3>6. ~resp.err /\ resp.value.tiers # <<>> => Airtime(r) = Ok(resp.value.tiers)
      BY DEF Airtime, resp
    <3> QED
      BY <2>8, <3>5, <3>6 DEF r
  <2> QED
    BY <2>6, <2>7, <2>9 DEF tiers
<1>2. ASSUME NEW r, NEW f, r = Object(f),
             "tiers" \notin DOMAIN f \/ f["tiers"] \in {Bad, <<>>}
      PROVE  Airtime(r).err \/ Len(Airtime(r).value) = 3
    BY <1>2, WithoutTiers DEF Error, Ok, FlatTiers
<1>3. Len(Airtime(Object(<<>>)).value) = 3
  <2>1. DOMAIN <<>> = {}
    OBVIOUS
  <2>2. ~Object(<<>>).err /\ Decodes(Object(<<>>), FlatZero)
    BY <2>1 DEF Object, Decodes
  <2>3. ~Query(Object(<<>>), FlatZero).err
    BY <2>2 DEF Query, Ok
  <2> QED
    BY <2>1, <2>3, WithoutTiers DEF Ok, FlatTiers
<1>4. ASSUME NEW tiers \in {Bad, <<>>}, NEW critical \in {Bad, 0}
      PROVE  LET r == Airtime(Object([tiers |-> tiers, critical |-> critical]))
             IN  r.err \/ Len(r.value) = 3
    BY <1>2
<1> QED
    BY <1>1, <1>3, <1>4 DEF AirtimeIsTotal, Budget

-----------------------------------------------------------------------------
\* What the client makes of an answer is what the device said, whatever state it is
\* in: version.go:30-51, client.go:564-611, 736-764, 1039-1059, 1340-1349.
THEOREM AnswersRead == Spec => []AnswersAreRead
<1>1. AnswersAreRead
    BY RangeHolds, SuccessHolds, IDsHold, AirtimeHolds, OverridesHold DEF AnswersAreRead
<1> QED
    BY <1>1, PTL
====
