---- MODULE MCBleTransport ----
(***************************************************************************)
(* BleTransport with its goroutines as model values.                       *)
(***************************************************************************)
EXTENDS BleTransport, TLC

CONSTANTS l1, l2  \* reconnectLoop goroutines

TwoLoops == {l1, l2}
AnyToken == BOOLEAN
====
