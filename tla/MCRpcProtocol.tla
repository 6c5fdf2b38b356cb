---- MODULE MCRpcProtocol ----
(***************************************************************************)
(* RpcProtocol with two goroutines calling.  The goroutines are            *)
(* interchangeable, so the runs that check safety only use their symmetry. *)
(***************************************************************************)
EXTENDS RpcProtocol, TLC

CONSTANTS c1, c2  \* two goroutines

OneCaller == {c1}
TwoCallers == {c1, c2}

CallerSymmetry == Permutations(TwoCallers)
====
