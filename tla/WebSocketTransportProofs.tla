---- MODULE WebSocketTransportProofs ----
(***************************************************************************)
(* Proofs about WebSocketTransport, for every number of goroutines and of  *)
(* connections: the flag reconnecting is a lock, the backoff keeps its     *)
(* schedule, what a reconnect installs is newer than what it found, every  *)
(* state is well typed, and after Close one more connection comes at most. *)
(***************************************************************************)
EXTENDS WebSocketTransport, TLAPS

-----------------------------------------------------------------------------
(* The flag as a lock. *)

JobTypes ==
    /\ job \in [Workers -> {"idle", "enter", "onReconnect"} \union InLoop]
    /\ delay \in [Workers -> Int]
    /\ fails \in [Workers -> 0..6]
    /\ fresh \in [Workers -> 0..MaxConns]
    /\ reconnecting \in BOOLEAN

\* The receiver is in reconnect exactly when its Receive waits for it.
ReceiverJob == (job[Receiver] # "idle") <=> (rxPc = "reconnect")

\* Before the first connection nothing has started that could use one.
NothingBeforeConnect ==
    /\ conn \in 0..MaxConns
    /\ conn = NoConn =>
           /\ rxPc = "off"
           /\ \A s \in Senders : txPc[s] = "idle"
           /\ \A w \in Workers : job[w] = "idle"

LockInv == JobTypes /\ ReceiverJob /\ OneReconnector

LEMMA ReceiverWorks == Receiver \in Workers
BY DEF Workers

LEMMA LockInit == Init => LockInv
<1> SUFFICES ASSUME Init PROVE LockInv
    OBVIOUS
<1>1. MaxConns \in Nat
    BY SettingsAssumption
<1>2. \A w \in Workers : job[w] = "idle"
    BY DEF Init
<1>3. JobTypes
  <2>1. job \in [Workers -> {"idle", "enter", "onReconnect"} \union InLoop]
    BY DEF Init
  <2>2. delay \in [Workers -> Int] /\ fails \in [Workers -> 0..6]
    BY DEF Init
  <2>3. fresh \in [Workers -> 0..MaxConns] /\ reconnecting \in BOOLEAN
    <3>1. fresh = [w \in Workers |-> 0]
      BY DEF Init, NoConn
    <3>2. 0 \in 0..MaxConns
      BY <1>1
    <3>3. reconnecting \in BOOLEAN
      BY DEF Init
    <3> QED
      BY <3>1, <3>2, <3>3
  <2> QED
    BY <2>1, <2>2, <2>3 DEF JobTypes
<1>4. ReceiverJob
    BY <1>2, ReceiverWorks DEF Init, ReceiverJob
<1>5. OneReconnector
    BY <1>2 DEF Init, OneReconnector, InLoop
<1> QED
    BY <1>3, <1>4, <1>5 DEF LockInv

\* A goroutine that returns from reconnect leaves no trace.
LEMMA JobReturnsLock ==
    ASSUME LockInv, NEW w \in Workers, job[w] # "idle", JobReturns(w)
    PROVE  /\ job' = [job EXCEPT ![w] = "idle"]
           /\ reconnecting' \in BOOLEAN => JobTypes'
           /\ ReceiverJob'
<1>1. job' = [job EXCEPT ![w] = "idle"]
    BY DEF JobReturns, JobAt
<1>2. job' \in [Workers -> {"idle", "enter", "onReconnect"} \union InLoop]
    BY <1>1 DEF LockInv, JobTypes
<1>3. delay' \in [Workers -> Int] /\ fails' \in [Workers -> 0..6]
    BY DEF LockInv, JobTypes, JobReturns
<1>4. fresh' \in [Workers -> 0..MaxConns]
    BY SettingsAssumption DEF LockInv, JobTypes, JobReturns, NoConn
<1>5. ReceiverJob'
    BY <1>1, ReceiverWorks DEF LockInv, JobTypes, ReceiverJob, JobReturns
<1> QED
    BY <1>1, <1>2, <1>3, <1>4, <1>5 DEF JobTypes

LEMMA LockStep == LockInv /\ NothingBeforeConnect /\ [Next]_vars => LockInv'
<1> SUFFICES ASSUME LockInv, NothingBeforeConnect, [Next]_vars PROVE LockInv'
    OBVIOUS
<1> USE ReceiverWorks DEF LockInv
<1>1. ASSUME UNCHANGED <<jobVars, reconnecting>>, rxPc' = "reconnect" <=> rxPc = "reconnect"
      PROVE  LockInv'
    BY <1>1 DEF jobVars, JobTypes, ReceiverJob, OneReconnector
<1>2. ASSUME RxFailed PROVE LockInv'
    BY <1>2 DEF RxFailed, JobTypes, ReceiverJob, OneReconnector, InLoop
<1>3. ASSUME NEW s \in Senders, TxBroken(s) PROVE LockInv'
  <2>1. PICK w \in Spawned : job[w] = "idle" /\ job' = [job EXCEPT ![w] = "enter"]
    BY <1>3 DEF TxBroken
  <2>2. w \in Workers /\ w # Receiver
    BY SettingsAssumption DEF Workers
  <2> QED
    BY <1>3, <2>1, <2>2 DEF TxBroken, rxVars, JobTypes, ReceiverJob, OneReconnector, InLoop
<1>4. ASSUME NEW w \in Workers, Enter(w) PROVE LockInv'
  <2>1. CASE reconnecting
    <3>1. job[w] = "enter" /\ JobReturns(w) /\ reconnecting' = reconnecting
      BY <1>4, <2>1 DEF Enter
    <3>2. job' = [job EXCEPT ![w] = "idle"] /\ JobTypes' /\ ReceiverJob'
      BY <3>1, JobReturnsLock DEF JobTypes
    <3> QED
      BY <3>1, <3>2 DEF JobTypes, OneReconnector, InLoop
  <2>2. CASE ~reconnecting
    <3>1. \A v \in Workers : job[v] \notin InLoop
      BY <2>2 DEF OneReconnector
    <3> QED
      BY <1>4, <2>2, <3>1
         DEF Enter, JobAt, rxVars, JobTypes, ReceiverJob, OneReconnector, InLoop
  <2> QED
    BY <2>1, <2>2
<1>5. ASSUME NEW w \in Workers, CheckDone(w) PROVE LockInv'
  <2>1. CASE done
    <3>1. job[w] = "check" /\ JobReturns(w) /\ reconnecting' = FALSE
      BY <1>5, <2>1 DEF CheckDone
    <3>2. job' = [job EXCEPT ![w] = "idle"] /\ JobTypes' /\ ReceiverJob'
      BY <3>1, JobReturnsLock
    <3>3. \A v \in Workers : job'[v] \notin InLoop
      BY <3>1, <3>2 DEF JobTypes, OneReconnector, InLoop
    <3> QED
      BY <3>1, <3>2, <3>3 DEF OneReconnector
  <2>2. CASE ~done
    BY <1>5, <2>2
       DEF CheckDone, JobAt, rxVars, JobTypes, ReceiverJob, OneReconnector, InLoop
  <2> QED
    BY <2>1, <2>2
<1>6. ASSUME NEW w \in Workers, OnDisconnect(w) \/ DialFails(w) PROVE LockInv'
    BY <1>6 DEF OnDisconnect, DialFails, JobAt, rxVars, JobTypes, ReceiverJob, OneReconnector,
                InLoop
<1>7. ASSUME NEW w \in Workers, DialSucceeds(w) PROVE LockInv'
    BY <1>7 DEF DialSucceeds, JobAt, rxVars, Conns, JobTypes, ReceiverJob, OneReconnector,
                InLoop
<1>8. ASSUME NEW w \in Workers, Install(w) PROVE LockInv'
    BY <1>8 DEF Install, JobAt, rxVars, JobTypes, ReceiverJob, OneReconnector, InLoop
<1>9. ASSUME NEW w \in Workers, OnReconnect(w) PROVE LockInv'
  <2>1. job[w] = "onReconnect" /\ JobReturns(w) /\ reconnecting' = reconnecting
    BY <1>9 DEF OnReconnect
  <2>2. job' = [job EXCEPT ![w] = "idle"] /\ JobTypes' /\ ReceiverJob'
    BY <2>1, JobReturnsLock DEF JobTypes
  <2>3. OneReconnector'
    BY <2>1, <2>2 DEF JobTypes, OneReconnector, InLoop
  <2> QED
    BY <2>2, <2>3
<1>10. ASSUME \/ Connect \/ RxCapture \/ RxReadFails \/ RxMessage
              \/ \E s \in Senders : TxCapture(s) \/ TxWritten(s) \/ TxCancelled(s)
              \/ StopLoop \/ Close \/ (\E k \in Conns : Drop(k)) \/ UNCHANGED vars
       PROVE  LockInv'
  <2>1. UNCHANGED <<jobVars, reconnecting>>
    BY <1>10 DEF Connect, RxCapture, RxReadFails, RxMessage, TxCapture, TxWritten, TxCancelled,
                 StopLoop, Close, CloseDone, CloseConn, Drop, vars
  <2>2. rxPc' = "reconnect" <=> rxPc = "reconnect"
    <3>1. CASE Connect
      BY <3>1 DEF Connect, NothingBeforeConnect
    <3>4. CASE RxCapture \/ RxReadFails \/ RxMessage
      BY <3>4 DEF RxCapture, RxReadFails, RxMessage
    <3>2. ASSUME NEW s \in Senders, TxCapture(s) \/ TxWritten(s) \/ TxCancelled(s)
          PROVE  rxPc' = rxPc
      BY <3>2 DEF TxCapture, TxWritten, TxCancelled, rxVars
    <3>3. CASE StopLoop \/ Close \/ (\E k \in Conns : Drop(k)) \/ UNCHANGED vars
      BY <3>3 DEF StopLoop, Close, CloseDone, CloseConn, Drop, vars, rxVars
    <3> QED
      BY <1>10, <3>1, <3>2, <3>3, <3>4
  <2> QED
    BY <1>1, <2>1, <2>2
<1> QED
    BY <1>2, <1>3, <1>4, <1>5, <1>6, <1>7, <1>8, <1>9, <1>10
       DEF Next, RxLocal, Tx, Reconnect

-----------------------------------------------------------------------------
(* Connections are numbered as they are dialled, so newer is greater. *)

ConnTypes ==
    /\ conn \in 0..MaxConns
    /\ status \in [Conns -> {"none", "up", "down", "closed"}]

DialsInOrder ==
    \A j, k \in Conns : j < k /\ status[k] # "none" => status[j] # "none"

ConnDialled == conn # NoConn => status[conn] # "none"

\* What is about to be installed was dialled after the current connection.
FreshIsNewer ==
    \A w \in Workers :
        job[w] = "install" => /\ fresh[w] \in Conns
                              /\ status[fresh[w]] # "none"
                              /\ conn < fresh[w]

ConnInv ==
    ConnTypes /\ DialsInOrder /\ ConnDialled /\ FreshIsNewer /\ NothingBeforeConnect

LEMMA ConnInit == Init => ConnInv
<1> SUFFICES ASSUME Init PROVE ConnInv
    OBVIOUS
<1>1. conn = 0 /\ 0 \in 0..MaxConns
    BY SettingsAssumption DEF Init, NoConn
<1>2. rxPc = "off" /\ (\A s \in Senders : txPc[s] = "idle") /\ \A w \in Workers : job[w] = "idle"
    BY DEF Init
<1>3. status = [k \in Conns |-> "none"]
    BY DEF Init
<1> QED
    BY <1>1, <1>2, <1>3
       DEF ConnInv, ConnTypes, DialsInOrder, ConnDialled, FreshIsNewer, NothingBeforeConnect,
           NoConn

\* Closing a connection does not change which were dialled.
LEMMA ClosedIsDialled ==
    ASSUME ConnTypes, NEW c
    PROVE  /\ Closed(c) \in [Conns -> {"none", "up", "down", "closed"}]
           /\ \A k \in Conns : Closed(c)[k] = "none" <=> status[k] = "none"
BY DEF ConnTypes, Closed

\* A step that leaves conn, that dials nothing and brings nobody to install.
LEMMA NothingDialled ==
    ASSUME ConnInv, conn' = conn,
           status' \in [Conns -> {"none", "up", "down", "closed"}],
           \A k \in Conns : status'[k] = "none" <=> status[k] = "none",
           \A w \in Workers :
               job'[w] = "install" => job[w] = "install" /\ fresh'[w] = fresh[w],
           NothingBeforeConnect'
    PROVE  ConnInv'
<1>1. ConnTypes' /\ DialsInOrder'
    BY DEF ConnInv, ConnTypes, DialsInOrder
<1>2. ConnDialled'
    BY SettingsAssumption DEF ConnInv, ConnTypes, ConnDialled, NoConn, Conns
<1>3. FreshIsNewer'
    BY DEF ConnInv, FreshIsNewer
<1> QED
    BY <1>1, <1>2, <1>3 DEF ConnInv

\* The connection a dial yields is newer than every other.
LEMMA DialIsNewest ==
    ASSUME ConnInv, NEW k \in Conns, Dialled(k)
    PROVE  /\ conn < k /\ status[k] = "none"
           /\ status' = [status EXCEPT ![k] = "up"]
           /\ DialsInOrder'
<1>1. status[k] = "none" /\ status' = [status EXCEPT ![k] = "up"]
    BY DEF Dialled
<1>2. \A j \in Conns : status[j] = "none" => k <= j
    BY DEF Dialled
<1>3. conn < k
  <2>1. CASE conn = 0
    BY <2>1, SettingsAssumption DEF Conns
  <2>2. CASE conn # 0
    <3>1. conn \in Conns /\ status[conn] # "none"
      BY <2>2, SettingsAssumption DEF ConnInv, ConnTypes, ConnDialled, NoConn, Conns
    <3>2. ~(k <= conn)
      BY <1>1, <3>1, SettingsAssumption DEF ConnInv, DialsInOrder, Conns
    <3> QED
      BY <3>1, <3>2, SettingsAssumption DEF Conns
  <2> QED
    BY <2>1, <2>2
<1>4. DialsInOrder'
  <2> SUFFICES ASSUME NEW i \in Conns, NEW j \in Conns, i < j, status'[j] # "none"
               PROVE  status'[i] # "none"
    BY DEF DialsInOrder
  <2>1. CASE status[j] # "none"
    BY <2>1, <1>1 DEF ConnInv, ConnTypes, DialsInOrder
  <2>2. CASE status[j] = "none"
    <3>1. j = k
      BY <2>2, <1>1 DEF ConnInv, ConnTypes
    <3>2. status[i] # "none"
      BY <3>1, <1>2, SettingsAssumption DEF Conns
    <3> QED
      BY <3>1, <3>2, <1>1 DEF ConnInv, ConnTypes
  <2> QED
    BY <2>1, <2>2
<1> QED
    BY <1>1, <1>3, <1>4

\* Every step either leaves conn or replaces it by a newer connection.
LEMMA ConnStep ==
    LockInv /\ ConnInv /\ [Next]_vars
        => ConnInv' /\ (conn' # conn => conn < conn' /\ status'[conn'] # "none")
<1> SUFFICES ASSUME LockInv, ConnInv, [Next]_vars
             PROVE  ConnInv' /\ (conn' # conn => conn < conn' /\ status'[conn'] # "none")
    OBVIOUS
<1> USE ReceiverWorks
\* A step of something that is going on has a connection.
<1>1. ASSUME conn # 0, conn' = conn PROVE NothingBeforeConnect'
    BY <1>1 DEF ConnInv, NothingBeforeConnect, NoConn
<1>2. CASE Connect
  <2>1. PICK k \in Conns : Dialled(k) /\ conn' = k
    BY <1>2 DEF Connect
  <2>2. conn < k /\ status' = [status EXCEPT ![k] = "up"] /\ DialsInOrder'
    BY <2>1, DialIsNewest
  <2>3. conn' # 0 /\ conn' \in 0..MaxConns
    BY <2>1, SettingsAssumption DEF Conns
  <2>4. ConnTypes' /\ ConnDialled' /\ NothingBeforeConnect'
    BY <2>1, <2>2, <2>3 DEF ConnInv, ConnTypes, ConnDialled, NothingBeforeConnect, NoConn
  <2>5. FreshIsNewer'
    BY <1>2 DEF Connect, jobVars, ConnInv, NothingBeforeConnect, FreshIsNewer
  <2> QED
    BY <2>1, <2>2, <2>4, <2>5 DEF ConnInv, ConnTypes
<1>3. CASE RxLocal \/ RxMessage
  <2>1. conn' = conn /\ rxPc # "off"
    BY <1>3 DEF RxLocal, RxMessage, RxCapture, RxReadFails, RxFailed
  <2>2. NothingBeforeConnect'
    BY <1>1, <2>1 DEF ConnInv, NothingBeforeConnect, NoConn
  <2>3. status' = status \/ status' = Closed(rxConn)
    BY <1>3 DEF RxLocal, RxMessage, RxCapture, RxReadFails, RxFailed
  <2>4. /\ fresh' = fresh
        /\ job' = job \/ job' = [job EXCEPT ![Receiver] = "enter"]
    BY <1>3 DEF RxLocal, RxMessage, RxCapture, RxReadFails, RxFailed, jobVars
  <2>5. \A w \in Workers : job'[w] = "install" => job[w] = "install" /\ fresh'[w] = fresh[w]
    BY <2>4 DEF LockInv, JobTypes
  <2>6. /\ status' \in [Conns -> {"none", "up", "down", "closed"}]
        /\ \A k \in Conns : status'[k] = "none" <=> status[k] = "none"
    BY <2>3, ClosedIsDialled DEF ConnInv, ConnTypes
  <2> QED
    BY <2>1, <2>2, <2>5, <2>6, NothingDialled
<1>4. ASSUME NEW s \in Senders, TxCapture(s) \/ Tx(s)
      PROVE  ConnInv' /\ conn' = conn
  <2>1. conn' = conn /\ (conn # 0 \/ txPc[s] # "idle")
    BY <1>4 DEF TxCapture, Tx, TxWritten, TxBroken, TxCancelled, NoConn
  <2>2. NothingBeforeConnect'
    BY <1>1, <2>1 DEF ConnInv, NothingBeforeConnect, NoConn
  <2>3. status' = status \/ status' = Closed(txConn[s])
    BY <1>4 DEF TxCapture, Tx, TxWritten, TxBroken, TxCancelled
  <2>4. /\ fresh' = fresh
        /\ job' = job \/ \E w \in Spawned : job' = [job EXCEPT ![w] = "enter"]
    BY <1>4 DEF TxCapture, Tx, TxWritten, TxBroken, TxCancelled, jobVars
  <2>5. \A w \in Workers : job'[w] = "install" => job[w] = "install" /\ fresh'[w] = fresh[w]
    BY <2>4 DEF LockInv, JobTypes
  <2>6. /\ status' \in [Conns -> {"none", "up", "down", "closed"}]
        /\ \A k \in Conns : status'[k] = "none" <=> status[k] = "none"
    BY <2>3, ClosedIsDialled DEF ConnInv, ConnTypes
  <2> QED
    BY <2>1, <2>2, <2>5, <2>6, NothingDialled
<1>5. ASSUME NEW w \in Workers, Reconnect(w)
      PROVE  ConnInv' /\ (conn' # conn => conn < conn' /\ status'[conn'] # "none")
  <2>1. conn # 0
    <3>1. job[w] # "idle"
      BY <1>5 DEF Reconnect, Enter, OnDisconnect, CheckDone, DialFails, DialSucceeds, Install,
                  OnReconnect
    <3> QED
      BY <3>1 DEF ConnInv, NothingBeforeConnect, NoConn
  <2>2. CASE Install(w)
    <3>1. /\ job[w] = "install" /\ job' = [job EXCEPT ![w] = "onReconnect"]
          /\ conn' = fresh[w] /\ status' = status /\ fresh' = fresh
      BY <2>2 DEF Install, JobAt
    <3>2. fresh[w] \in Conns /\ status[fresh[w]] # "none" /\ conn < fresh[w]
      BY <3>1 DEF ConnInv, FreshIsNewer
    <3>3. conn' # 0 /\ conn' \in 0..MaxConns
      BY <3>1, <3>2, SettingsAssumption DEF Conns
    <3>4. ConnTypes' /\ DialsInOrder' /\ ConnDialled' /\ NothingBeforeConnect'
      BY <3>1, <3>2, <3>3
         DEF ConnInv, ConnTypes, DialsInOrder, ConnDialled, NothingBeforeConnect, NoConn
    <3>5. \A v \in Workers : job'[v] # "install"
      BY <3>1 DEF LockInv, JobTypes, OneReconnector, InLoop
    <3> QED
      BY <3>1, <3>2, <3>4, <3>5 DEF ConnInv, FreshIsNewer
  <2>3. CASE DialSucceeds(w)
    <3>1. /\ conn' = conn /\ job[w] = "dial" /\ job' = [job EXCEPT ![w] = "install"]
      BY <2>3 DEF DialSucceeds, JobAt
    <3>2. PICK k \in Conns : Dialled(k) /\ fresh' = [fresh EXCEPT ![w] = k]
      BY <2>3 DEF DialSucceeds
    <3>3. conn < k /\ status[k] = "none" /\ status' = [status EXCEPT ![k] = "up"] /\ DialsInOrder'
      BY <3>2, DialIsNewest
    <3>4. ConnTypes' /\ ConnDialled' /\ NothingBeforeConnect'
      BY <3>1, <3>3, <2>1, <1>1 DEF ConnInv, ConnTypes, ConnDialled, Conns, NoConn
    <3>5. \A v \in Workers : job'[v] = "install" => v = w
      BY <3>1 DEF LockInv, JobTypes, OneReconnector, InLoop
    <3>6. fresh'[w] = k /\ status'[k] # "none" /\ conn' < k
      BY <3>1, <3>2, <3>3 DEF LockInv, JobTypes, ConnInv, ConnTypes
    <3> QED
      BY <3>1, <3>3, <3>4, <3>5, <3>6 DEF ConnInv, FreshIsNewer
  <2>4. CASE ~Install(w) /\ ~DialSucceeds(w)
    <3>1. conn' = conn /\ status' = status
      BY <1>5, <2>4 DEF Reconnect, Enter, OnDisconnect, CheckDone, DialFails, OnReconnect
    <3>2. \/ fresh' = fresh
          \/ job' = [job EXCEPT ![w] = "idle"] /\ fresh' = [fresh EXCEPT ![w] = NoConn]
      BY <1>5, <2>4 DEF Reconnect, Enter, OnDisconnect, CheckDone, DialFails, OnReconnect,
                        JobReturns, JobAt
    <3>3. \E l \in {"idle", "onDisconnect", "check", "dial"} : job' = [job EXCEPT ![w] = l]
      BY <1>5, <2>4 DEF Reconnect, Enter, OnDisconnect, CheckDone, DialFails, OnReconnect,
                        JobReturns, JobAt
    <3>4. \A v \in Workers : job'[v] = "install" => job[v] = "install" /\ fresh'[v] = fresh[v]
      BY <3>2, <3>3 DEF LockInv, JobTypes
    <3>5. NothingBeforeConnect'
      BY <3>1, <2>1, <1>1
    <3> QED
      BY <3>1, <3>4, <3>5, NothingDialled DEF ConnInv, ConnTypes
  <2> QED
    BY <2>2, <2>3, <2>4, <1>5
<1>6. CASE StopLoop \/ Close \/ (\E k \in Conns : Drop(k)) \/ UNCHANGED vars
  <2>1. conn' = conn /\ UNCHANGED <<rxPc, txPc, job, fresh>>
    BY <1>6 DEF StopLoop, Close, CloseDone, CloseConn, Drop, vars, rxVars, txVars, jobVars
  <2>2. NothingBeforeConnect'
    BY <2>1 DEF ConnInv, NothingBeforeConnect
  <2>3. \/ status' = status \/ status' = Closed(conn)
        \/ \E k \in Conns : status[k] = "up" /\ status' = [status EXCEPT ![k] = "down"]
    BY <1>6 DEF StopLoop, Close, CloseDone, CloseConn, Drop, vars
  <2>4. /\ status' \in [Conns -> {"none", "up", "down", "closed"}]
        /\ \A k \in Conns : status'[k] = "none" <=> status[k] = "none"
    BY <2>3, ClosedIsDialled DEF ConnInv, ConnTypes
  <2> QED
    BY <2>1, <2>2, <2>4, NothingDialled
<1> QED
    BY <1>2, <1>3, <1>4, <1>5, <1>6 DEF Next

-----------------------------------------------------------------------------
(* The backoff. *)

\* A reconnect starts with no failed dial.
NoFailsYet == \A w \in Workers : job[w] \in {"idle", "enter"} => fails[w] = 0

BackoffInv == NoFailsYet /\ BackoffSchedule

LEMMA BackoffInit == Init => BackoffInv
BY DEF Init, BackoffInv, NoFailsYet, BackoffSchedule, InLoop

LEMMA BackoffStep == LockInv /\ BackoffInv /\ [Next]_vars => BackoffInv'
<1> SUFFICES ASSUME LockInv, BackoffInv, [Next]_vars PROVE BackoffInv'
    OBVIOUS
<1> USE ReceiverWorks DEF BackoffInv, NoFailsYet, BackoffSchedule
<1>1. ASSUME UNCHANGED <<delay, fails>>, NEW w \in Workers, NEW l,
             job' = [job EXCEPT ![w] = l],
             \/ l = "enter" /\ job[w] = "idle"
             \/ l \in InLoop \union {"onReconnect"} /\ job[w] \in InLoop
      PROVE  BackoffInv'
    BY <1>1 DEF LockInv, JobTypes, InLoop
<1>2. ASSUME NEW w \in Workers, JobReturns(w) PROVE BackoffInv'
  <2>1. /\ job' = [job EXCEPT ![w] = "idle"] /\ delay' = [delay EXCEPT ![w] = 0]
        /\ fails' = [fails EXCEPT ![w] = 0]
    BY <1>2 DEF JobReturns, JobAt
  <2> QED
    BY <2>1 DEF LockInv, JobTypes, InLoop
<1>3. CASE RxFailed
  <2>1. CASE job' = job
    BY <1>3, <2>1 DEF RxFailed
  <2>2. CASE job' # job
    <3>1. rxPc = "failed" /\ job' = [job EXCEPT ![Receiver] = "enter"] /\ UNCHANGED <<delay, fails>>
      BY <1>3, <2>2 DEF RxFailed
    <3>2. job[Receiver] = "idle"
      BY <3>1 DEF LockInv, ReceiverJob
    <3> QED
      BY <1>1, <3>1, <3>2
  <2> QED
    BY <2>1, <2>2
<1>4. ASSUME NEW s \in Senders, TxBroken(s) PROVE BackoffInv'
  <2>1. PICK w \in Spawned : job[w] = "idle" /\ job' = [job EXCEPT ![w] = "enter"]
    BY <1>4 DEF TxBroken
  <2>2. w \in Workers /\ UNCHANGED <<delay, fails>>
    BY <1>4 DEF Workers, TxBroken
  <2> QED
    BY <1>1, <2>1, <2>2
<1>5. ASSUME NEW w \in Workers, Enter(w) PROVE BackoffInv'
  <2>1. CASE reconnecting
    BY <1>5, <2>1, <1>2 DEF Enter
  <2>2. CASE ~reconnecting
    <3>1. /\ job[w] = "enter" /\ job' = [job EXCEPT ![w] = "onDisconnect"]
          /\ delay' = [delay EXCEPT ![w] = 1] /\ fails' = fails
      BY <1>5, <2>2 DEF Enter, JobAt
    <3> QED
      BY <3>1 DEF LockInv, JobTypes, InLoop
  <2> QED
    BY <2>1, <2>2
<1>6. ASSUME NEW w \in Workers, CheckDone(w) PROVE BackoffInv'
  <2>1. CASE done
    BY <1>6, <2>1, <1>2 DEF CheckDone
  <2>2. CASE ~done
    BY <1>6, <2>2, <1>1 DEF CheckDone, JobAt, InLoop
  <2> QED
    BY <2>1, <2>2
<1>7. ASSUME NEW w \in Workers, OnDisconnect(w) \/ DialSucceeds(w) \/ Install(w)
      PROVE  BackoffInv'
    BY <1>7, <1>1 DEF OnDisconnect, DialSucceeds, Install, JobAt, InLoop
<1>8. ASSUME NEW w \in Workers, DialFails(w) PROVE BackoffInv'
  <2>1. /\ job[w] = "dial" /\ job' = [job EXCEPT ![w] = "check"]
        /\ delay' = [delay EXCEPT ![w] = IF 2 * delay[w] > 30 THEN 30 ELSE 2 * delay[w]]
        /\ fails' = [fails EXCEPT ![w] = IF fails[w] = 6 THEN 6 ELSE fails[w] + 1]
    BY <1>8 DEF DialFails, JobAt
  <2>2. fails[w] \in 0..6 /\ delay[w] = <<1, 2, 4, 8, 16, 30, 30>>[fails[w] + 1]
    BY <2>1 DEF LockInv, JobTypes, InLoop
  <2>3. delay'[w] = <<1, 2, 4, 8, 16, 30, 30>>[fails'[w] + 1]
    BY <2>1, <2>2 DEF LockInv, JobTypes
  <2> QED
    BY <2>1, <2>3 DEF LockInv, JobTypes, InLoop
<1>9. ASSUME NEW w \in Workers, OnReconnect(w) PROVE BackoffInv'
    BY <1>9, <1>2 DEF OnReconnect
<1>10. CASE \/ Connect \/ RxCapture \/ RxReadFails \/ RxMessage
            \/ (\E s \in Senders : TxCapture(s) \/ TxWritten(s) \/ TxCancelled(s))
            \/ StopLoop \/ Close \/ (\E k \in Conns : Drop(k)) \/ UNCHANGED vars
  <2>1. UNCHANGED <<job, delay, fails>>
    BY <1>10 DEF Connect, RxCapture, RxReadFails, RxMessage, TxCapture, TxWritten, TxCancelled,
                 StopLoop, Close, CloseDone, CloseConn, Drop, vars, jobVars
  <2> QED
    BY <2>1
<1> QED
    BY <1>3, <1>4, <1>5, <1>6, <1>7, <1>8, <1>9, <1>10
       DEF Next, RxLocal, Tx, Reconnect

-----------------------------------------------------------------------------
(* The types of the rest: where the goroutines are, what they captured. *)

CloseTypes ==
    /\ done \in BOOLEAN /\ stopped \in BOOLEAN
    /\ closePc \in {"open", "closing", "closed"}

RxTypes ==
    /\ rxPc \in {"off", "top", "read", "failed", "reconnect", "exited"}
    /\ rxConn \in 0..MaxConns

TxTypes ==
    txPc \in [Senders -> {"idle", "write"}] /\ txConn \in [Senders -> 0..MaxConns]

DelayTypes == delay \in [Workers -> 0..30]

\* Close comes after the protocol has stopped, and closes done before conn.
ClosesInOrder ==
    /\ done => stopped
    /\ closePc # "open" => done

RestInv == CloseTypes /\ RxTypes /\ TxTypes /\ DelayTypes /\ ClosesInOrder

LEMMA RestInit == Init => RestInv
<1> SUFFICES ASSUME Init PROVE RestInv
    OBVIOUS
<1>1. 0 \in 0..MaxConns
    BY SettingsAssumption
<1>2. CloseTypes /\ ClosesInOrder
    BY DEF Init, CloseTypes, ClosesInOrder
<1>3. RxTypes /\ DelayTypes
    BY <1>1 DEF Init, RxTypes, DelayTypes, NoConn
<1>4. TxTypes
  <2>1. txPc = [s \in Senders |-> "idle"] /\ txConn = [s \in Senders |-> 0]
    BY DEF Init, NoConn
  <2> QED
    BY <1>1, <2>1 DEF TxTypes
<1> QED
    BY <1>2, <1>3, <1>4 DEF RestInv

LEMMA RestStep == ConnTypes /\ RestInv /\ [Next]_vars => RestInv'
<1> SUFFICES ASSUME ConnTypes, RestInv, [Next]_vars PROVE RestInv'
    OBVIOUS
<1> USE DEF RestInv
<1>1. MaxConns \in Nat /\ conn \in 0..MaxConns
    BY SettingsAssumption DEF ConnTypes
<1>2. CloseTypes' /\ ClosesInOrder'
  <2>1. CASE StopLoop \/ Close
    BY <2>1 DEF StopLoop, Close, CloseDone, CloseConn, CloseTypes, ClosesInOrder
  <2>2. CASE ~(StopLoop \/ Close)
    <3>1. UNCHANGED closeVars
      BY <2>2 DEF Next, Connect, RxLocal, RxCapture, RxReadFails, RxFailed, RxMessage, TxCapture,
                  Tx, TxWritten, TxBroken, TxCancelled, Reconnect, Enter, OnDisconnect, CheckDone,
                  DialFails, DialSucceeds, Install, OnReconnect, Drop, vars
    <3> QED
      BY <3>1 DEF closeVars, CloseTypes, ClosesInOrder
  <2> QED
    BY <2>1, <2>2
<1>3. ASSUME NEW w \in Workers, Reconnect(w) PROVE RxTypes' /\ TxTypes' /\ DelayTypes'
  <2>1. rxConn' = rxConn /\ (rxPc' = rxPc \/ rxPc' = "top")
    BY <1>3 DEF Reconnect, Enter, OnDisconnect, CheckDone, DialFails, DialSucceeds, Install,
                OnReconnect, JobReturns, rxVars
  <2>2. UNCHANGED <<txPc, txConn>>
    BY <1>3 DEF Reconnect, Enter, OnDisconnect, CheckDone, DialFails, DialSucceeds, Install,
                OnReconnect, txVars
  <2>3. \/ delay' = delay \/ \E d \in {0, 1} : delay' = [delay EXCEPT ![w] = d]
        \/ delay' = [delay EXCEPT ![w] = IF 2 * delay[w] > 30 THEN 30 ELSE 2 * delay[w]]
    BY <1>3 DEF Reconnect, Enter, OnDisconnect, CheckDone, DialFails, DialSucceeds, Install,
                OnReconnect, JobReturns
  <2>4. DelayTypes'
    <3>1. delay[w] \in 0..30 => (IF 2 * delay[w] > 30 THEN 30 ELSE 2 * delay[w]) \in 0..30
      OBVIOUS
    <3> QED
      BY <2>3, <3>1 DEF DelayTypes
  <2> QED
    BY <2>1, <2>2, <2>4 DEF RxTypes, TxTypes
<1>4. ASSUME ~\E w \in Workers : Reconnect(w) PROVE RxTypes' /\ TxTypes' /\ DelayTypes'
  <2>1. delay' = delay
    BY <1>4 DEF Next, Connect, RxLocal, RxCapture, RxReadFails, RxFailed, RxMessage, TxCapture,
                Tx, TxWritten, TxBroken, TxCancelled, StopLoop, Close, CloseDone, CloseConn, Drop,
                vars, jobVars
  <2>2. RxTypes'
    <3>1. CASE Connect \/ RxLocal \/ RxMessage
      BY <3>1, <1>1 DEF Connect, RxLocal, RxCapture, RxReadFails, RxFailed, RxMessage, RxTypes,
                        NoConn
    <3>2. CASE ~(Connect \/ RxLocal \/ RxMessage)
      <4>1. UNCHANGED <<rxPc, rxConn>>
        BY <1>4, <3>2 DEF Next, TxCapture, Tx, TxWritten, TxBroken, TxCancelled, StopLoop, Close,
                          CloseDone, CloseConn, Drop, vars, rxVars
      <4> QED
        BY <4>1 DEF RxTypes
    <3> QED
      BY <3>1, <3>2
  <2>3. TxTypes'
    <3>1. ASSUME NEW s \in Senders, TxCapture(s) \/ Tx(s) PROVE TxTypes'
      <4>1. \/ txPc' = [txPc EXCEPT ![s] = "write"] /\ txConn' = [txConn EXCEPT ![s] = conn]
            \/ txPc' = [txPc EXCEPT ![s] = "idle"] /\ txConn' = [txConn EXCEPT ![s] = 0]
        BY <3>1 DEF TxCapture, Tx, TxWritten, TxBroken, TxCancelled, TxReturns, NoConn
      <4> QED
        BY <4>1, <1>1 DEF TxTypes
    <3>2. CASE ~\E s \in Senders : TxCapture(s) \/ Tx(s)
      <4>1. UNCHANGED <<txPc, txConn>>
        BY <1>4, <3>2 DEF Next, Connect, RxLocal, RxCapture, RxReadFails, RxFailed, RxMessage,
                          StopLoop, Close, CloseDone, CloseConn, Drop, vars, txVars
      <4> QED
        BY <4>1 DEF TxTypes
    <3> QED
      BY <3>1, <3>2
  <2> QED
    BY <2>1, <2>2, <2>3 DEF DelayTypes
<1> QED
    BY <1>2, <1>3, <1>4

-----------------------------------------------------------------------------
(* After Close. *)

LEMMA LastInstallStep ==
    ASSUME LockInv, ClosesInOrder, done, [Next]_vars
    PROVE  /\ \A w \in Workers : job'[w] \in Dialling => job[w] \in Dialling
           /\ conn' # conn => \A w \in Workers : job'[w] \notin Dialling
<1> USE ReceiverWorks DEF Dialling
<1>1. job \in [Workers -> {"idle", "enter", "onReconnect"} \union InLoop] /\ stopped
    BY DEF LockInv, JobTypes, ClosesInOrder
<1>2. ASSUME NEW w \in Workers, Reconnect(w)
      PROVE  /\ \A v \in Workers : job'[v] \in Dialling => job[v] \in Dialling
             /\ conn' # conn => \A v \in Workers : job'[v] \notin Dialling
  <2>1. CASE Install(w)
    <3>1. job[w] = "install" /\ job' = [job EXCEPT ![w] = "onReconnect"]
      BY <2>1 DEF Install, JobAt
    <3>2. \A v \in Workers : job[v] \in InLoop => v = w
      BY <3>1 DEF LockInv, OneReconnector, InLoop
    <3> QED
      BY <1>1, <3>1, <3>2 DEF InLoop
  <2>2. CASE DialSucceeds(w)
    BY <1>1, <2>2 DEF DialSucceeds, JobAt
  <2>3. CASE ~Install(w) /\ ~DialSucceeds(w)
    <3>1. conn' = conn
      BY <1>2, <2>3 DEF Reconnect, Enter, OnDisconnect, CheckDone, DialFails, OnReconnect
    <3>2. \E l \in {"idle", "onDisconnect", "check"} : job' = [job EXCEPT ![w] = l]
      BY <1>2, <2>3 DEF Reconnect, Enter, OnDisconnect, CheckDone, DialFails, OnReconnect,
                        JobReturns, JobAt
    <3> QED
      BY <1>1, <3>1, <3>2
  <2> QED
    BY <1>2, <2>1, <2>2, <2>3
<1>3. CASE ~\E w \in Workers : Reconnect(w)
  <2>1. conn' = conn
    BY <1>1, <1>3 DEF Next, Connect, RxLocal, RxCapture, RxReadFails, RxFailed, RxMessage,
                      TxCapture, Tx, TxWritten, TxBroken, TxCancelled, StopLoop, Close, CloseDone,
                      CloseConn, Drop, vars
  <2>2. job' = job \/ \E w \in Workers : job' = [job EXCEPT ![w] = "enter"]
    BY <1>1, <1>3 DEF Next, Connect, RxLocal, RxCapture, RxReadFails, RxFailed, RxMessage,
                      TxCapture, Tx, TxWritten, TxBroken, TxCancelled, StopLoop, Close, CloseDone,
                      CloseConn, Drop, vars, jobVars, Workers
  <2> QED
    BY <1>1, <2>1, <2>2
<1> QED
    BY <1>2, <1>3

-----------------------------------------------------------------------------
LEMMA ConnImpliesNothing == ConnInv => NothingBeforeConnect
BY DEF ConnInv

\* However many goroutines find the connection broken, one at a time reconnects.
THEOREM OneReconnectorAtATime == Spec => []OneReconnector
<1>1. LockInv => OneReconnector
    BY DEF LockInv
<1> QED
    BY <1>1, LockInit, LockStep, ConnInit, ConnStep, ConnImpliesNothing, PTL DEF Spec

\* conn is only ever replaced by a connection dialled after it (lines 183-187).
THEOREM ConnectionsGetNewer == Spec => ConnOnlyGetsNewer
<1>1. LockInv /\ ConnInv /\ [Next]_vars
          => [conn' # conn => conn < conn' /\ status'[conn'] # "none"]_vars
    BY ConnStep
<1> QED
    BY <1>1, LockInit, LockStep, ConnInit, ConnStep, ConnImpliesNothing, PTL
       DEF Spec, ConnOnlyGetsNewer

\* The delays of a reconnect are those the comment of reconnect lists (line 149).
THEOREM BackoffKeepsSchedule == Spec => []BackoffSchedule
<1>1. BackoffInv => BackoffSchedule
    BY DEF BackoffInv
<1> QED
    BY <1>1, LockInit, LockStep, ConnInit, ConnStep, ConnImpliesNothing, BackoffInit, BackoffStep,
       PTL DEF Spec

\* Every variable has its type; the backoff never leaves 0 to 30 seconds (line 162).
THEOREM TypesHold == Spec => []TypeOK
<1>1. LockInv /\ ConnInv /\ RestInv => TypeOK
    BY DEF LockInv, JobTypes, ConnInv, ConnTypes, RestInv, CloseTypes, RxTypes, TxTypes,
           DelayTypes, TypeOK
<1>2. ConnInv => ConnTypes
    BY DEF ConnInv
<1> QED
    BY <1>1, <1>2, LockInit, LockStep, ConnInit, ConnStep, ConnImpliesNothing, RestInit, RestStep,
       PTL DEF Spec

\* Close lets at most one more connection into conn (lines 167-187).
THEOREM CloseStopsDialling == Spec => LastInstall
<1>1. LockInv /\ RestInv /\ [Next]_vars
          => [done => /\ \A w \in Workers : job'[w] \in Dialling => job[w] \in Dialling
                      /\ conn' # conn => \A w \in Workers : job'[w] \notin Dialling]_vars
    BY LastInstallStep DEF RestInv
<1>2. ConnInv => ConnTypes
    BY DEF ConnInv
<1> QED
    BY <1>1, <1>2, LockInit, LockStep, ConnInit, ConnStep, ConnImpliesNothing, RestInit, RestStep,
       PTL DEF Spec, LastInstall
====
