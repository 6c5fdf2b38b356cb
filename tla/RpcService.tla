---- MODULE RpcService ----
(***************************************************************************)
(* What protocol.go promises to the goroutines that use it, without any    *)
(* transport, reader goroutine or channel: every call gets an id of its    *)
(* own and ends at most once, with an answer the device gave to that very  *)
(* id, or because its context ended, or because the protocol was stopped,  *)
(* or because the request could not be encoded or sent.  Notifications     *)
(* reach the consumer in the order the device emitted them, possibly with  *)
(* gaps.  RpcProtocol implements this specification.                       *)
(***************************************************************************)
EXTENDS Integers

CONSTANT Callers  \* goroutines that use one Protocol

VARIABLES
    used,      \* number of ids given out; ids are 1, 2, ..., used
    op,        \* op[c]: the id and the outcome of c's call
    expired,   \* callers whose context has ended
    stopped,   \* Stop was called
    replies,   \* pairs <<id, body>> the device has answered; body 1 is an error
    emitted,   \* number of notifications the device has emitted
    consumed   \* number of the last notification the consumer took

vars == <<used, op, expired, stopped, replies, emitted, consumed>>

NoOp == [id |-> 0, outcome |-> "none"]

Outcomes == {"none", "open", "result", "rpcError", "ctx", "closed", "send", "marshal"}

Init ==
    /\ used = 0
    /\ op = [c \in Callers |-> NoOp]
    /\ expired = {}
    /\ stopped = FALSE
    /\ replies = {}
    /\ emitted = 0
    /\ consumed = 0

Begin(c) ==
    /\ op[c].outcome = "none"
    /\ used' = used + 1
    /\ op' = [op EXCEPT ![c] = [id |-> used + 1, outcome |-> "open"]]
    /\ UNCHANGED <<expired, stopped, replies, emitted, consumed>>

\* What entitles c's open call to end with outcome o.
Entitled(c, o) ==
    \/ o = "result"   /\ <<op[c].id, 0>> \in replies
    \/ o = "rpcError" /\ <<op[c].id, 1>> \in replies
    \/ o = "ctx"      /\ c \in expired
    \/ o = "closed"   /\ stopped
    \/ o \in {"send", "marshal"}

Settle(c) ==
    /\ op[c].outcome = "open"
    /\ \E o \in Outcomes :
          /\ Entitled(c, o)
          /\ op' = [op EXCEPT ![c].outcome = o]
    /\ UNCHANGED <<used, expired, stopped, replies, emitted, consumed>>

\* A call returns once, and only when its outcome is settled.
Return(c) ==
    /\ op[c].outcome \notin {"none", "open"}
    /\ op' = [op EXCEPT ![c] = NoOp]
    /\ expired' = expired \ {c}
    /\ UNCHANGED <<used, stopped, replies, emitted, consumed>>

Expire(c) ==
    /\ op[c].outcome # "none"
    /\ expired' = expired \union {c}
    /\ UNCHANGED <<used, op, stopped, replies, emitted, consumed>>

Stop ==
    /\ stopped' = TRUE
    /\ UNCHANGED <<used, op, expired, replies, emitted, consumed>>

\* The device can only answer an id that some caller has been given.
Reply ==
    /\ \E i \in 1..used, b \in {0, 1} : replies' = replies \union {<<i, b>>}
    /\ UNCHANGED <<used, op, expired, stopped, emitted, consumed>>

Emit ==
    /\ emitted' = emitted + 1
    /\ UNCHANGED <<used, op, expired, stopped, replies, consumed>>

Consume ==
    /\ consumed' \in (consumed + 1)..emitted
    /\ UNCHANGED <<used, op, expired, stopped, replies, emitted>>

Next ==
    \/ \E c \in Callers : Begin(c) \/ Settle(c) \/ Return(c) \/ Expire(c)
    \/ Stop \/ Reply \/ Emit \/ Consume

Spec == Init /\ [][Next]_vars
====
