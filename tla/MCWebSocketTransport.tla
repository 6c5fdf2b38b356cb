---- MODULE MCWebSocketTransport ----
(***************************************************************************)
(* WebSocketTransport with its goroutines as model values.                 *)
(***************************************************************************)
EXTENDS WebSocketTransport, TLC

CONSTANTS s1, s2,  \* goroutines that send
          g1, g2   \* goroutines that reconnect after a failed write

OneSender == {s1}
TwoSenders == {s1, s2}
OneSpawned == {g1}
TwoSpawned == {g1, g2}
====
