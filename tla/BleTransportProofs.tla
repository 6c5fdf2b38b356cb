---- MODULE BleTransportProofs ----
(***************************************************************************)
(* Proofs about BleTransport, for every number of goroutines, calls and    *)
(* losses: reconnectLoops are counted by the flag reconnecting and the     *)
(* calls of Close, and with a token none of them ever succeeds.            *)
(***************************************************************************)
EXTENDS BleTransport, FiniteSetTheorems, TLAPS

-----------------------------------------------------------------------------
(* How a step changes the two sets that LoopCount counts. *)

\* What the lemmas below ask of a state.
Placed == pc \in [Goroutines -> Labels]

LEMMA UserIsNoLoop == User \in Goroutines /\ Adapter \in Goroutines
                      /\ User \notin Loops /\ Adapter \notin Loops /\ User # Adapter
BY GoroutinesAssumption DEF Goroutines, Connectors

LEMMA FiniteCounts == IsFiniteSet(Looping) /\ IsFiniteSet(Starting)
<1>1. IsFiniteSet(Loops)
    BY GoroutinesAssumption
<1>2. IsFiniteSet({User} \union Loops)
    BY <1>1, FS_Singleton, FS_Union
<1>3. IsFiniteSet(Goroutines)
    BY <1>2, FS_Singleton, FS_Union DEF Goroutines, Connectors
<1>4. Looping \in SUBSET Loops /\ Starting \in SUBSET Goroutines
    BY DEF Looping, Starting
<1> QED
    BY <1>1, <1>3, <1>4, FS_Subset

LEMMA FiniteCountsNext == IsFiniteSet(Looping') /\ IsFiniteSet(Starting')
<1>1. IsFiniteSet(Loops)
    BY GoroutinesAssumption
<1>2. IsFiniteSet({User} \union Loops)
    BY <1>1, FS_Singleton, FS_Union
<1>3. IsFiniteSet(Goroutines)
    BY <1>2, FS_Singleton, FS_Union DEF Goroutines, Connectors
<1>4. Looping' \in SUBSET Loops /\ Starting' \in SUBSET Goroutines
    BY DEF Looping, Starting
<1> QED
    BY <1>1, <1>3, <1>4, FS_Subset

LEMMA CountIsNat == Cardinality(Looping) \in Nat /\ Cardinality(Starting) \in Nat
BY FiniteCounts, FS_CardinalityType

\* A step of a goroutine between labels that count the same.
LEMMA MoveCounts ==
    ASSUME Placed, NEW g \in Goroutines, NEW label, Goto(g, label),
           pc[g] # "start", label # "start",
           g \in Loops => pc[g] # "off" /\ label # "off"
    PROVE  Looping' = Looping /\ Starting' = Starting
<1>1. pc' = [pc EXCEPT ![g] = label]
    BY DEF Goto
<1>2. \A h \in Goroutines : pc'[h] = IF h = g THEN label ELSE pc[h]
    BY <1>1 DEF Placed
<1>3. \A h \in Loops : h \in Goroutines
    BY DEF Goroutines, Connectors
<1>4. Looping' = Looping
    BY <1>2, <1>3 DEF Looping
<1>5. Starting' = Starting
    BY <1>2 DEF Starting
<1> QED
    BY <1>4, <1>5

\* A goroutine is about to start a loop.
LEMMA StartCounts ==
    ASSUME Placed, NEW g \in Goroutines, Goto(g, "start"),
           pc[g] # "start", g \in Loops => pc[g] # "off"
    PROVE  LoopCount' = LoopCount + 1
<1>1. pc' = [pc EXCEPT ![g] = "start"]
    BY DEF Goto
<1>2. \A h \in Goroutines : pc'[h] = IF h = g THEN "start" ELSE pc[h]
    BY <1>1 DEF Placed
<1>3. \A h \in Loops : h \in Goroutines
    BY DEF Goroutines, Connectors
<1>4. Looping' = Looping
    BY <1>2, <1>3 DEF Looping
<1>5. Starting' = Starting \cup {g} /\ g \notin Starting
    BY <1>2 DEF Starting
<1>6. Cardinality(Starting') = Cardinality(Starting) + 1
    BY <1>5, FiniteCounts, FS_AddElement
<1> QED
    BY <1>4, <1>6, CountIsNat DEF LoopCount

\* A loop ends.
LEMMA EndCounts ==
    ASSUME Placed, NEW l \in Loops, Goto(l, "off"), pc[l] # "start", pc[l] # "off"
    PROVE  LoopCount' = LoopCount - 1
<1>1. pc' = [pc EXCEPT ![l] = "off"]
    BY DEF Goto
<1>2. \A h \in Goroutines : pc'[h] = IF h = l THEN "off" ELSE pc[h]
    BY <1>1 DEF Placed
<1>3. \A h \in Loops : h \in Goroutines
    BY DEF Goroutines, Connectors
<1>4. Looping' = Looping \ {l} /\ l \in Looping
    BY <1>2, <1>3 DEF Looping
<1>5. Starting' = Starting
    BY <1>2, <1>3 DEF Starting
<1>6. Cardinality(Looping') = Cardinality(Looping) - 1
    BY <1>4, FiniteCounts, FS_RemoveElement
<1> QED
    BY <1>5, <1>6, CountIsNat DEF LoopCount

\* A goroutine that was about to start a loop has started it.
LEMMA StartedCounts ==
    ASSUME Placed, NEW g \in Goroutines, NEW l \in Loops, NEW label,
           pc[g] = "start", pc[l] = "off", label # "start", label # "off",
           \A h \in Goroutines : pc'[h] = IF h = l THEN "check"
                                         ELSE IF h = g THEN label ELSE pc[h]
    PROVE  LoopCount' = LoopCount
<1>1. l \in Goroutines /\ l # g
    BY DEF Goroutines, Connectors
<1>3. \A h \in Loops : h \in Goroutines
    BY DEF Goroutines, Connectors
<1>4. Looping' = Looping \cup {l} /\ l \notin Looping
  <2>1. \A h \in Loops : (pc'[h] # "off") <=> (pc[h] # "off" \/ h = l)
    BY <1>3
  <2> QED
    BY <2>1 DEF Looping
<1>5. Starting' = Starting \ {g} /\ g \in Starting
  <2>1. \A h \in Goroutines : (pc'[h] = "start") <=> (pc[h] = "start" /\ h # g)
    BY <1>1
  <2> QED
    BY <2>1 DEF Starting
<1>6. Cardinality(Looping') = Cardinality(Looping) + 1
    BY <1>4, FiniteCounts, FS_AddElement
<1>7. Cardinality(Starting') = Cardinality(Starting) - 1
    BY <1>5, FiniteCounts, FS_RemoveElement
<1> QED
    BY <1>6, <1>7, CountIsNat DEF LoopCount

-----------------------------------------------------------------------------
(* Type correctness. *)

\* A step of g to another label keeps the part of TypeOK about pc.
PcOK ==
    /\ pc \in [Goroutines -> Labels]
    /\ pc[User] \in InConnect \union {"idle", "start"}
    /\ pc[Adapter] \in {"idle", "start"}
    /\ \A l \in Loops : pc[l] # "idle"

LEMMA GotoPcOK ==
    ASSUME PcOK, NEW g \in Goroutines, NEW label \in Labels, Goto(g, label),
           g = User => label \in InConnect \union {"idle", "start"},
           g = Adapter => label \in {"idle", "start"},
           g \in Loops => label # "idle"
    PROVE  PcOK'
<1>1. pc' = [pc EXCEPT ![g] = label] /\ pc \in [Goroutines -> Labels]
    BY DEF Goto, PcOK
<1>2. \A h \in Goroutines : pc'[h] = IF h = g THEN label ELSE pc[h]
    BY <1>1
<1>3. pc' \in [Goroutines -> Labels]
    BY <1>1
<1>4. \A l \in Loops : l \in Goroutines
    BY DEF Goroutines, Connectors
<1>5. pc'[User] \in InConnect \union {"idle", "start"} /\ pc'[Adapter] \in {"idle", "start"}
    BY <1>2, UserIsNoLoop DEF PcOK
<1>6. \A l \in Loops : pc'[l] # "idle"
    BY <1>2, <1>4 DEF PcOK
<1> QED
    BY <1>3, <1>5, <1>6 DEF PcOK

\* Where a connect leads.
LEMMA LabelsAfter ==
    ASSUME NEW g \in Goroutines
    PROVE  /\ Failed(g) \in Labels /\ Connected(g) \in Labels
           /\ Failed(g) # "off" /\ Failed(g) # "start"
           /\ Connected(g) # "off" /\ Connected(g) # "start"
           /\ g \in Loops => Failed(g) # "idle" /\ Connected(g) # "idle"
           /\ g \notin Loops => Failed(g) = "idle" /\ Connected(g) = "idle"
BY DEF Failed, Connected, Labels, InConnect

LEMMA ConnectorsAre ==
    ASSUME NEW g \in Connectors
    PROVE  g \in Goroutines /\ g # Adapter /\ (g = User \/ g \in Loops) /\ (g = User => g \notin Loops)
BY GoroutinesAssumption DEF Goroutines, Connectors

\* The rest of TypeOK.
DataOK ==
    /\ token \in BOOLEAN
    /\ connected \in BOOLEAN /\ reconnecting \in BOOLEAN
    /\ closing \in BOOLEAN /\ closed \in BOOLEAN
    /\ link \in BOOLEAN /\ handler \in BOOLEAN
    /\ reports \in Seq(BOOLEAN)
    /\ losses \in 0..MaxLosses /\ connects \in 0..MaxConnects /\ closes \in 0..MaxCloses

LEMMA TypeParts == TypeOK <=> DataOK /\ PcOK
BY DEF TypeOK, DataOK, PcOK

LEMMA TypePartsNext == TypeOK' <=> DataOK' /\ PcOK'
BY DEF TypeOK, DataOK, PcOK

LEMMA LinkOK ==
    ASSUME DataOK, NEW up \in BOOLEAN, LinkIs(up)
    PROVE  link' \in BOOLEAN /\ handler' \in BOOLEAN /\ reports' \in Seq(BOOLEAN)
<1>1. reports \in Seq(BOOLEAN) /\ link \in BOOLEAN /\ handler \in BOOLEAN
    BY DEF DataOK
<1>2. Append(reports, up) \in Seq(BOOLEAN)
    BY <1>1
<1> QED
    BY <1>1, <1>2 DEF LinkIs

LEMMA BleTypeInit == Init => TypeOK
<1> SUFFICES ASSUME Init PROVE TypeOK
    OBVIOUS
<1>1. DataOK
  <2>1. token \in BOOLEAN
    BY GoroutinesAssumption DEF Init
  <2>2. reports \in Seq(BOOLEAN)
    BY DEF Init
  <2>3. 0 \in 0..MaxLosses /\ 0 \in 0..MaxConnects /\ 0 \in 0..MaxCloses
    BY GoroutinesAssumption
  <2> QED
    BY <2>1, <2>2, <2>3 DEF Init, DataOK
<1>2. PcOK
  <2>1. pc \in [Goroutines -> Labels]
    BY DEF Init, Labels
  <2>2. pc[User] = "idle" /\ pc[Adapter] = "idle"
    BY UserIsNoLoop DEF Init
  <2>3. \A l \in Loops : pc[l] # "idle"
    BY DEF Init, Goroutines, Connectors
  <2> QED
    BY <2>1, <2>2, <2>3 DEF PcOK
<1> QED
    BY <1>1, <1>2, TypeParts

\* The steps of connect.
LEMMA ConnectingType ==
    ASSUME TypeOK, NEW g \in Connectors, Connecting(g)
    PROVE  TypeOK'
<1> USE TypeParts, TypePartsNext
<1>0. DataOK /\ PcOK
    OBVIOUS
<1>1. /\ g \in Goroutines /\ g # Adapter
      /\ Failed(g) \in Labels /\ Connected(g) \in Labels
      /\ Failed(g) \in {"idle", "sleep"} /\ Connected(g) \in {"idle", "done"}
    BY ConnectorsAre, LabelsAfter DEF Failed, Connected
<1>2. ASSUME NEW label \in InConnect \union {Failed(g), Connected(g), "start"}, Goto(g, label)
      PROVE  PcOK'
  <2>1. label \in Labels
    BY <1>1 DEF Labels
  <2>2. g = User => label \in InConnect \union {"idle", "start"}
    BY UserIsNoLoop DEF Failed, Connected
  <2>3. g \in Loops => label # "idle"
    BY DEF Failed, Connected, InConnect
  <2> QED
    BY <1>0, <1>1, <1>2, <2>1, <2>2, <2>3, GotoPcOK
<1>3. CASE DialFails(g)
    BY <1>0, <1>2, <1>3 DEF DialFails, DataOK, flags, world, bounds
<1>4. CASE Dial(g)
  <2>1. LinkIs(TRUE) /\ Goto(g, "handler")
    BY <1>4 DEF Dial
  <2>2. link' \in BOOLEAN /\ handler' \in BOOLEAN /\ reports' \in Seq(BOOLEAN)
    BY <1>0, <2>1, LinkOK
  <2>3. PcOK'
    BY <1>2, <2>1 DEF InConnect
  <2> QED
    BY <1>0, <1>4, <2>2, <2>3 DEF Dial, DataOK, flags, bounds
<1>5. CASE SetConnectHandler(g)
  <2>1. PcOK'
    BY <1>2, <1>5 DEF SetConnectHandler, InConnect
  <2> QED
    BY <1>0, <1>5, <2>1 DEF SetConnectHandler, DataOK, flags, bounds
<1>6. CASE Discovered(g)
  <2>1. PcOK'
    BY <1>2, <1>6 DEF Discovered, InConnect
  <2> QED
    BY <1>0, <1>6, <2>1 DEF Discovered, DataOK, flags, world, bounds
<1>7. CASE DiscoveryFails(g)
  <2>1. LinkIs(FALSE) /\ Goto(g, Failed(g))
    BY <1>7 DEF DiscoveryFails, Disconnect
  <2>2. link' \in BOOLEAN /\ handler' \in BOOLEAN /\ reports' \in Seq(BOOLEAN)
    BY <1>0, <2>1, LinkOK
  <2>3. PcOK'
    BY <1>2, <2>1
  <2> QED
    BY <1>0, <1>7, <2>2, <2>3 DEF DiscoveryFails, DataOK, flags, bounds
<1>8. CASE Install(g)
  <2>1. PcOK'
    BY <1>2, <1>8 DEF Install, InConnect
  <2> QED
    BY <1>0, <1>8, <2>1 DEF Install, DataOK, world, bounds
<1>9. CASE Authenticated(g)
    BY <1>0, <1>2, <1>9 DEF Authenticated, DataOK, flags, world, bounds
<1>10. CASE AuthFails(g)
  <2>1. LinkIs(FALSE) /\ Goto(g, "drop")
    BY <1>10 DEF AuthFails, Disconnect
  <2>2. link' \in BOOLEAN /\ handler' \in BOOLEAN /\ reports' \in Seq(BOOLEAN)
    BY <1>0, <2>1, LinkOK
  <2>3. PcOK'
    BY <1>2, <2>1 DEF InConnect
  <2> QED
    BY <1>0, <1>10, <2>2, <2>3 DEF AuthFails, DataOK, flags, bounds
<1>11. CASE AuthDrops(g)
  <2>1. PcOK'
    BY <1>2, <1>11 DEF AuthDrops, HandleLoss
  <2> QED
    BY <1>0, <1>11, <2>1 DEF AuthDrops, HandleLoss, DataOK, flags, world, bounds
<1> QED
    BY <1>3, <1>4, <1>5, <1>6, <1>7, <1>8, <1>9, <1>10, <1>11 DEF Connecting

\* The steps of a reconnectLoop outside connect.
LEMMA LoopedType ==
    ASSUME TypeOK, NEW l \in Loops, Looped(l)
    PROVE  TypeOK'
<1> USE TypeParts, TypePartsNext
<1>0. DataOK /\ PcOK
    OBVIOUS
<1>1. l \in Goroutines /\ l # User /\ l # Adapter
    BY UserIsNoLoop DEF Goroutines, Connectors
<1>2. ASSUME NEW label \in {"off", "dial", "check"}, Goto(l, label)
      PROVE  PcOK'
  <2>1. label \in Labels
    BY DEF Labels, InConnect
  <2> QED
    BY <1>0, <1>1, <1>2, <2>1, GotoPcOK
<1>3. CASE LoopCheck(l)
  <2>1. PcOK'
    BY <1>2, <1>3 DEF LoopCheck
  <2> QED
    BY <1>0, <1>3, <2>1 DEF LoopCheck, DataOK, flags, world, bounds
<1>4. CASE LoopWakes(l)
    BY <1>0, <1>2, <1>4 DEF LoopWakes, DataOK, flags, world, bounds
<1>5. CASE LoopDone(l)
    BY <1>0, <1>2, <1>5 DEF LoopDone, DataOK, flags, world, bounds
<1> QED
    BY <1>3, <1>4, <1>5 DEF Looped

\* A loop is started.
LEMMA StartLoopType ==
    ASSUME TypeOK, NEW g \in Goroutines, StartLoop(g)
    PROVE  TypeOK'
<1> USE TypeParts, TypePartsNext
<1>0. DataOK /\ PcOK
    OBVIOUS
<1>1. PICK l \in Loops : pc[l] = "off" /\ pc' = [pc EXCEPT ![g] = Failed(g), ![l] = "check"]
    BY DEF StartLoop
<1>2. l \in Goroutines /\ Failed(g) \in Labels /\ "check" \in Labels
    BY LabelsAfter DEF Goroutines, Connectors, Labels
<1>3. \A h \in Goroutines : pc'[h] = IF h = l THEN "check"
                                     ELSE IF h = g THEN Failed(g) ELSE pc[h]
    BY <1>0, <1>1, <1>2 DEF PcOK
<1>4. pc' \in [Goroutines -> Labels]
    BY <1>0, <1>1, <1>2 DEF PcOK
<1>5. /\ pc'[User] \in InConnect \union {"idle", "start"}
      /\ pc'[Adapter] \in {"idle", "start"}
    BY <1>0, <1>3, UserIsNoLoop DEF PcOK, Failed
<1>6. \A h \in Loops : pc'[h] # "idle"
    BY <1>0, <1>3 DEF PcOK, Failed, Goroutines, Connectors
<1> QED
    BY <1>0, <1>4, <1>5, <1>6 DEF PcOK, StartLoop, DataOK, flags, world, bounds

LEMMA BleTypeNext == TypeOK /\ [Next]_vars => TypeOK'
<1> SUFFICES ASSUME TypeOK, [Next]_vars PROVE TypeOK'
    OBVIOUS
<1> USE TypeParts, TypePartsNext
<1>0. DataOK /\ PcOK
    OBVIOUS
<1>1. CASE Connect
  <2>1. Goto(User, "dial") /\ connects < MaxConnects /\ connects' = connects + 1
    BY <1>1 DEF Connect
  <2>2. PcOK'
    BY <1>0, <2>1, UserIsNoLoop, GotoPcOK DEF Labels, InConnect
  <2>3. connects' \in 0..MaxConnects
    BY <1>0, <2>1, GoroutinesAssumption DEF DataOK
  <2> QED
    BY <1>0, <1>1, <2>2, <2>3 DEF Connect, DataOK, world
<1>2. CASE Close
  <2>1. closes' \in 0..MaxCloses
    BY <1>0, <1>2, GoroutinesAssumption DEF DataOK, Close
  <2>2. link' \in BOOLEAN /\ handler' \in BOOLEAN /\ reports' \in Seq(BOOLEAN)
    BY <1>0, <1>2, LinkOK DEF Close, Disconnect, world, DataOK
  <2>3. PcOK'
    BY <1>0, <1>2 DEF Close, PcOK
  <2> QED
    BY <1>0, <1>2, <2>1, <2>2, <2>3 DEF Close, DataOK
<1>3. CASE LinkBreaks
  <2>1. losses' \in 0..MaxLosses
    BY <1>0, <1>3, GoroutinesAssumption DEF DataOK, LinkBreaks
  <2>2. link' \in BOOLEAN /\ handler' \in BOOLEAN /\ reports' \in Seq(BOOLEAN)
    BY <1>0, <1>3, LinkOK DEF LinkBreaks
  <2>3. PcOK'
    BY <1>0, <1>3 DEF LinkBreaks, PcOK
  <2> QED
    BY <1>0, <1>3, <2>1, <2>2, <2>3 DEF LinkBreaks, DataOK, flags
<1>4. CASE Report
  <2>1. reports' \in Seq(BOOLEAN)
    <3>1. reports \in Seq(BOOLEAN) /\ reports # <<>> /\ reports' = Tail(reports)
      BY <1>0, <1>4 DEF Report, DataOK
    <3> QED
      BY <3>1
  <2>2. CASE handler /\ ~Head(reports)
    <3>1. HandleLoss(Adapter)
      BY <1>4, <2>2 DEF Report
    <3>2. PcOK'
      BY <1>0, <3>1, UserIsNoLoop, GotoPcOK DEF HandleLoss, Failed, Labels
    <3> QED
      BY <1>0, <1>4, <2>1, <3>1, <3>2 DEF Report, HandleLoss, DataOK, flags, bounds
  <2>3. CASE ~handler \/ Head(reports)
    <3>1. PcOK'
      BY <1>0, <1>4, <2>3 DEF Report, PcOK
    <3> QED
      BY <1>0, <1>4, <2>1, <2>3, <3>1 DEF Report, DataOK, flags, bounds
  <2> QED
    BY <2>2, <2>3
<1>5. CASE \E g \in Connectors : Connecting(g)
    BY <1>5, ConnectingType
<1>6. CASE \E g \in Goroutines : StartLoop(g)
    BY <1>6, StartLoopType
<1>7. CASE \E l \in Loops : Looped(l)
    BY <1>7, LoopedType
<1>8. CASE UNCHANGED vars
    BY <1>0, <1>8 DEF vars, flags, world, bounds, DataOK, PcOK
<1> QED
    BY <1>1, <1>2, <1>3, <1>4, <1>5, <1>6, <1>7, <1>8 DEF Next

-----------------------------------------------------------------------------
(* The loops and the flag. *)

LoopInv == TypeOK /\ LoopsBounded /\ RefusalHasLoop /\ TokenNeverReconnects

\* What LoopsBounded and RefusalHasLoop say, as arithmetic.
LEMMA CountFacts ==
    ASSUME LoopInv
    PROVE  /\ LoopCount \in Nat /\ closes \in Nat /\ Placed
           /\ reconnecting => LoopCount <= closes + 1
           /\ ~reconnecting => LoopCount <= closes
           /\ reconnecting => LoopCount > 0
<1>1. TypeOK
    BY DEF LoopInv
<1>2. closes \in Nat /\ reconnecting \in BOOLEAN /\ Placed
    BY <1>1, GoroutinesAssumption DEF TypeOK, Placed
<1>3. LoopCount \in Nat
    BY CountIsNat DEF LoopCount
<1> QED
    BY <1>2, <1>3 DEF LoopInv, LoopsBounded, RefusalHasLoop

\* A loop inside connect counts, so nobody has the flag unless a Close took it.
LEMMA WorkingLoopCounts ==
    ASSUME LoopInv, NEW l \in Loops, pc[l] # "off"
    PROVE  LoopCount > 0
<1>1. l \in Looping
    BY DEF Looping
<1>2. Cardinality(Looping) # 0
    BY <1>1, FiniteCounts, FS_EmptySet
<1> QED
    BY <1>2, CountIsNat DEF LoopCount

\* Steps that leave the count, the flag and closes alone.
LEMMA CountsKept ==
    ASSUME LoopInv, Looping' = Looping, Starting' = Starting,
           reconnecting' = reconnecting, closes' = closes
    PROVE  LoopsBounded' /\ RefusalHasLoop'
<1>1. LoopCount' = LoopCount
    BY DEF LoopCount
<1> QED
    BY <1>1 DEF LoopInv, LoopsBounded, RefusalHasLoop

\* Steps that bring no loop to its end.
LEMMA NoneDone ==
    ASSUME LoopInv, token' = token, closes' = closes,
           \A l \in Loops : pc'[l] = "done" => pc[l] = "done"
    PROVE  TokenNeverReconnects'
BY DEF LoopInv, TokenNeverReconnects

\* A step of one goroutine to a label that is not "done".
LEMMA GotoNotDone ==
    ASSUME LoopInv, NEW g \in Goroutines, NEW label, Goto(g, label), label # "done",
           token' = token, closes' = closes
    PROVE  TokenNeverReconnects'
<1>1. Placed
    BY CountFacts
<1>2. \A h \in Goroutines : pc'[h] = IF h = g THEN label ELSE pc[h]
    BY <1>1 DEF Goto, Placed
<1>3. \A l \in Loops : pc'[l] = "done" => pc[l] = "done"
    BY <1>2 DEF Goroutines, Connectors
<1> QED
    BY <1>3, NoneDone

\* The section of a lost link.
LEMMA HandleLossLoops ==
    ASSUME LoopInv, NEW g \in Goroutines, HandleLoss(g), pc[g] # "start",
           g \in Loops => pc[g] # "off", token' = token, closes' = closes
    PROVE  LoopsBounded' /\ RefusalHasLoop' /\ TokenNeverReconnects'
<1>1. Placed /\ reconnecting \in BOOLEAN
    BY CountFacts DEF LoopInv, TypeOK
<1>2. Failed(g) # "off" /\ Failed(g) # "start" /\ Failed(g) # "done"
    BY DEF Failed
<1>3. CASE ~connected \/ closing \/ reconnecting
  <2>1. Goto(g, Failed(g)) /\ reconnecting' = reconnecting
    BY <1>1, <1>3 DEF HandleLoss, flags
  <2>2. Looping' = Looping /\ Starting' = Starting
    BY <1>1, <1>2, <2>1, MoveCounts
  <2> QED
    BY <1>2, <2>1, <2>2, CountsKept, GotoNotDone
<1>4. CASE connected /\ ~closing /\ ~reconnecting
  <2>1. Goto(g, "start") /\ reconnecting' = TRUE
    BY <1>4 DEF HandleLoss
  <2>2. LoopCount' = LoopCount + 1
    BY <1>1, <2>1, StartCounts
  <2>3. LoopsBounded' /\ RefusalHasLoop'
    BY <1>4, <2>1, <2>2, CountFacts DEF LoopsBounded, RefusalHasLoop
  <2> QED
    BY <2>1, <2>3, GotoNotDone
<1> QED
    BY <1>3, <1>4

\* The steps of connect: a loop with a token does not get past authenticate.
LEMMA ConnectingLoops ==
    ASSUME LoopInv, NEW g \in Connectors, Connecting(g)
    PROVE  LoopsBounded' /\ RefusalHasLoop' /\ TokenNeverReconnects'
<1>0. /\ g \in Goroutines /\ Placed
      /\ Failed(g) \in {"idle", "sleep"} /\ Connected(g) \in {"idle", "done"}
    BY ConnectorsAre, CountFacts DEF Failed, Connected
<1>1. ASSUME pc[g] \in InConnect,
             NEW label \in InConnect \union {Failed(g), Connected(g)}, Goto(g, label),
             reconnecting' = reconnecting, closes' = closes
      PROVE  LoopsBounded' /\ RefusalHasLoop'
  <2>1. pc[g] # "start" /\ pc[g] # "off" /\ label # "start" /\ label # "off"
    BY <1>0, <1>1 DEF InConnect
  <2>2. Looping' = Looping /\ Starting' = Starting
    BY <1>0, <1>1, <2>1, MoveCounts
  <2> QED
    BY <1>1, <2>2, CountsKept
<1>2. CASE DialFails(g)
  <2>1. /\ pc[g] \in InConnect /\ Goto(g, Failed(g)) /\ Failed(g) # "done"
        /\ reconnecting' = reconnecting /\ closes' = closes /\ token' = token
    BY <1>0, <1>2 DEF DialFails, InConnect, flags, bounds
  <2> QED
    BY <1>0, <1>1, <2>1, GotoNotDone
<1>3. CASE Dial(g)
  <2>1. /\ pc[g] \in InConnect /\ Goto(g, "handler") /\ "handler" \in InConnect
        /\ reconnecting' = reconnecting /\ closes' = closes /\ token' = token
    BY <1>3 DEF Dial, InConnect, flags, bounds
  <2> QED
    BY <1>0, <1>1, <2>1, GotoNotDone
<1>4. CASE SetConnectHandler(g)
  <2>1. /\ pc[g] \in InConnect /\ Goto(g, "discover") /\ "discover" \in InConnect
        /\ reconnecting' = reconnecting /\ closes' = closes /\ token' = token
    BY <1>4 DEF SetConnectHandler, InConnect, flags, bounds
  <2> QED
    BY <1>0, <1>1, <2>1, GotoNotDone
<1>5. CASE Discovered(g)
  <2>1. /\ pc[g] \in InConnect /\ Goto(g, "install") /\ "install" \in InConnect
        /\ reconnecting' = reconnecting /\ closes' = closes /\ token' = token
    BY <1>5 DEF Discovered, InConnect, flags, bounds
  <2> QED
    BY <1>0, <1>1, <2>1, GotoNotDone
<1>6. CASE DiscoveryFails(g)
  <2>1. /\ pc[g] \in InConnect /\ Goto(g, Failed(g)) /\ Failed(g) # "done"
        /\ reconnecting' = reconnecting /\ closes' = closes /\ token' = token
    BY <1>0, <1>6 DEF DiscoveryFails, InConnect, flags, bounds
  <2> QED
    BY <1>0, <1>1, <2>1, GotoNotDone
<1>7. CASE Install(g)
  <2>1. /\ pc[g] \in InConnect /\ reconnecting' = reconnecting
        /\ closes' = closes /\ token' = token
        /\ Goto(g, IF token THEN "auth" ELSE Connected(g)) /\ "auth" \in InConnect
    BY <1>7 DEF Install, InConnect, bounds
  <2>2. LoopsBounded' /\ RefusalHasLoop'
    BY <1>1, <2>1
  <2>3. CASE token
    BY <1>0, <2>1, <2>2, <2>3, GotoNotDone
  <2>4. CASE ~token
    BY <2>1, <2>2, <2>4 DEF TokenNeverReconnects
  <2> QED
    BY <2>3, <2>4
<1>8. CASE Authenticated(g)
  <2>1. /\ pc[g] = "auth" /\ ~reconnecting /\ Goto(g, Connected(g))
        /\ reconnecting' = reconnecting /\ closes' = closes /\ token' = token
    BY <1>8 DEF Authenticated, flags, bounds
  <2>2. LoopsBounded' /\ RefusalHasLoop'
    BY <1>1, <2>1 DEF InConnect
  <2>3. CASE g \in Loops
    <3>1. LoopCount > 0
      BY <2>1, <2>3, WorkingLoopCounts
    <3>2. closes > 0
      BY <2>1, <3>1, CountFacts
    <3> QED
      BY <2>1, <2>2, <3>2 DEF TokenNeverReconnects
  <2>4. CASE g \notin Loops
    BY <1>0, <2>1, <2>2, <2>4, GotoNotDone DEF Connected
  <2> QED
    BY <2>3, <2>4
<1>9. CASE AuthFails(g)
  <2>1. /\ pc[g] \in InConnect /\ Goto(g, "drop") /\ "drop" \in InConnect
        /\ reconnecting' = reconnecting /\ closes' = closes /\ token' = token
    BY <1>9 DEF AuthFails, InConnect, flags, bounds
  <2> QED
    BY <1>0, <1>1, <2>1, GotoNotDone
<1>10. CASE AuthDrops(g)
  <2>1. pc[g] = "drop" /\ HandleLoss(g) /\ token' = token /\ closes' = closes
    BY <1>10 DEF AuthDrops, bounds
  <2> QED
    BY <1>0, <2>1, HandleLossLoops
<1> QED
    BY <1>2, <1>3, <1>4, <1>5, <1>6, <1>7, <1>8, <1>9, <1>10 DEF Connecting

\* The steps of a reconnectLoop outside connect: the flag goes with the loop.
LEMMA LoopedLoops ==
    ASSUME LoopInv, NEW l \in Loops, Looped(l)
    PROVE  LoopsBounded' /\ RefusalHasLoop' /\ TokenNeverReconnects'
<1>0. l \in Goroutines /\ Placed /\ reconnecting \in BOOLEAN
    BY CountFacts DEF Goroutines, Connectors, LoopInv, TypeOK
<1>1. ASSUME pc[l] # "start", pc[l] # "off", Goto(l, "off"), reconnecting' = FALSE,
             closes' = closes, token' = token
      PROVE  LoopsBounded' /\ RefusalHasLoop' /\ TokenNeverReconnects'
  <2>1. LoopCount' = LoopCount - 1
    BY <1>0, <1>1, EndCounts
  <2>2. LoopsBounded' /\ RefusalHasLoop'
    BY <1>0, <1>1, <2>1, CountFacts DEF LoopsBounded, RefusalHasLoop
  <2> QED
    BY <1>0, <1>1, <2>2, GotoNotDone
<1>2. ASSUME pc[l] # "start", pc[l] # "off", NEW label \in {"dial", "check"}, Goto(l, label),
             reconnecting' = reconnecting, closes' = closes, token' = token
      PROVE  LoopsBounded' /\ RefusalHasLoop' /\ TokenNeverReconnects'
  <2>1. Looping' = Looping /\ Starting' = Starting
    BY <1>0, <1>2, MoveCounts
  <2> QED
    BY <1>0, <1>2, <2>1, CountsKept, GotoNotDone
<1>3. CASE LoopCheck(l)
  <2>1. pc[l] = "check" /\ closes' = closes /\ token' = token
    BY <1>3 DEF LoopCheck, bounds
  <2>2. CASE closing
    BY <1>1, <1>3, <2>1, <2>2 DEF LoopCheck
  <2>3. CASE ~closing
    BY <1>2, <1>3, <2>1, <2>3 DEF LoopCheck, flags
  <2> QED
    BY <2>2, <2>3
<1>4. CASE LoopWakes(l)
    BY <1>2, <1>4 DEF LoopWakes, flags, bounds
<1>5. CASE LoopDone(l)
    BY <1>1, <1>5 DEF LoopDone, bounds
<1> QED
    BY <1>3, <1>4, <1>5 DEF Looped

\* A loop that was announced is started.
LEMMA StartLoopLoops ==
    ASSUME LoopInv, NEW g \in Goroutines, StartLoop(g)
    PROVE  LoopsBounded' /\ RefusalHasLoop' /\ TokenNeverReconnects'
<1>0. Placed
    BY CountFacts
<1>1. /\ pc[g] = "start" /\ reconnecting' = reconnecting /\ closes' = closes
      /\ token' = token
    BY DEF StartLoop, flags, bounds
<1>2. PICK l \in Loops : pc[l] = "off" /\ pc' = [pc EXCEPT ![g] = Failed(g), ![l] = "check"]
    BY DEF StartLoop
<1>3. l \in Goroutines
    BY DEF Goroutines, Connectors
<1>4. \A h \in Goroutines : pc'[h] = IF h = l THEN "check"
                                     ELSE IF h = g THEN Failed(g) ELSE pc[h]
    BY <1>0, <1>2, <1>3 DEF Placed
<1>5. Failed(g) # "start" /\ Failed(g) # "off" /\ Failed(g) # "done"
    BY DEF Failed
<1>6. LoopCount' = LoopCount
    BY <1>0, <1>1, <1>2, <1>4, <1>5, StartedCounts
<1>7. LoopsBounded' /\ RefusalHasLoop'
    BY <1>1, <1>6 DEF LoopInv, LoopsBounded, RefusalHasLoop
<1>8. \A h \in Loops : pc'[h] = "done" => pc[h] = "done"
    BY <1>4, <1>5 DEF Goroutines, Connectors
<1> QED
    BY <1>1, <1>7, <1>8, NoneDone

LEMMA LoopInit == Init => LoopInv
<1> SUFFICES ASSUME Init PROVE LoopInv
    OBVIOUS
<1>1. TypeOK
    BY BleTypeInit
<1>2. Looping = {} /\ Starting = {}
    BY DEF Init, Looping, Starting, Goroutines, Connectors
<1>3. LoopCount = 0
    BY <1>2, FS_EmptySet DEF LoopCount
<1>4. LoopsBounded /\ RefusalHasLoop
    BY <1>3 DEF Init, LoopsBounded, RefusalHasLoop
<1>5. TokenNeverReconnects
    BY DEF Init, TokenNeverReconnects, Goroutines, Connectors
<1> QED
    BY <1>1, <1>4, <1>5 DEF LoopInv

LEMMA LoopNext == LoopInv /\ [Next]_vars => LoopInv'
<1> SUFFICES ASSUME LoopInv, [Next]_vars
             PROVE  LoopsBounded' /\ RefusalHasLoop' /\ TokenNeverReconnects'
    BY BleTypeNext DEF LoopInv
<1>0. Placed /\ reconnecting \in BOOLEAN
    BY CountFacts DEF LoopInv, TypeOK
<1>1. CASE Connect
  <2>1. /\ pc[User] = "idle" /\ Goto(User, "dial")
        /\ reconnecting' = reconnecting /\ closes' = closes /\ token' = token
    BY <1>1 DEF Connect
  <2>2. Looping' = Looping /\ Starting' = Starting
    BY <1>0, <2>1, MoveCounts, UserIsNoLoop
  <2> QED
    BY <2>1, <2>2, CountsKept, GotoNotDone, UserIsNoLoop
<1>2. CASE Close
  <2>1. pc' = pc /\ closes' = closes + 1 /\ reconnecting' = FALSE /\ token' = token
    BY <1>2 DEF Close
  <2>2. LoopCount' = LoopCount
    BY <2>1 DEF LoopCount, Looping, Starting
  <2>3. LoopsBounded' /\ RefusalHasLoop'
    BY <1>0, <2>1, <2>2, CountFacts DEF LoopsBounded, RefusalHasLoop
  <2>4. closes' # 0
    BY <2>1, CountFacts
  <2> QED
    BY <2>3, <2>4 DEF TokenNeverReconnects
<1>3. CASE LinkBreaks \/ UNCHANGED vars
  <2>1. pc' = pc /\ closes' = closes /\ reconnecting' = reconnecting /\ token' = token
    BY <1>3 DEF LinkBreaks, vars, flags, bounds
  <2>2. Looping' = Looping /\ Starting' = Starting
    BY <2>1 DEF Looping, Starting
  <2> QED
    BY <2>1, <2>2, CountsKept, NoneDone
<1>4. CASE Report
  <2>1. pc[Adapter] = "idle" /\ token' = token /\ closes' = closes
    BY <1>4 DEF Report, bounds
  <2>2. CASE handler /\ ~Head(reports)
    BY <1>4, <2>1, <2>2, HandleLossLoops, UserIsNoLoop DEF Report
  <2>3. CASE ~handler \/ Head(reports)
    <3>1. pc' = pc /\ reconnecting' = reconnecting
      BY <1>4, <2>3 DEF Report, flags
    <3>2. Looping' = Looping /\ Starting' = Starting
      BY <3>1 DEF Looping, Starting
    <3> QED
      BY <2>1, <3>1, <3>2, CountsKept, NoneDone
  <2> QED
    BY <2>2, <2>3
<1>5. CASE \E g \in Connectors : Connecting(g)
    BY <1>5, ConnectingLoops
<1>6. CASE \E g \in Goroutines : StartLoop(g)
    BY <1>6, StartLoopLoops
<1>7. CASE \E l \in Loops : Looped(l)
    BY <1>7, LoopedLoops
<1> QED
    BY <1>1, <1>2, <1>3, <1>4, <1>5, <1>6, <1>7 DEF Next

\* Every reachable state has the invariant.
THEOREM LoopsSafe == Spec => []LoopInv
<1>1. Init => LoopInv
    BY LoopInit
<1>2. LoopInv /\ [Next]_vars => LoopInv'
    BY LoopNext
<1> QED
    BY <1>1, <1>2, PTL DEF Spec

\* ble.go: every variable keeps its type.
THEOREM BleTypeSafe == Spec => []TypeOK
<1>1. LoopInv => TypeOK
    BY DEF LoopInv
<1> QED
    BY <1>1, LoopsSafe, PTL

\* ble.go:433-449: there are never more reconnectLoops than calls of Close, and one
\* more while the flag is set.
THEOREM ReconnectLoopsBounded == Spec => []LoopsBounded
<1>1. LoopInv => LoopsBounded
    BY DEF LoopInv
<1> QED
    BY <1>1, LoopsSafe, PTL

\* ble.go:492-494: Send says that a reconnect is going on only while a loop is at work or
\* about to be started. Not that the loop ends it: with a token none does, see below.
THEOREM RefusalsHaveLoops == Spec => []RefusalHasLoop
<1>1. LoopInv => RefusalHasLoop
    BY DEF LoopInv
<1> QED
    BY <1>1, LoopsSafe, PTL

\* ble.go:295-301 with 492-494: with a token no automatic reconnect ever succeeds.
THEOREM TokenBlocksReconnect == Spec => []TokenNeverReconnects
<1>1. LoopInv => TokenNeverReconnects
    BY DEF LoopInv
<1> QED
    BY <1>1, LoopsSafe, PTL
====
