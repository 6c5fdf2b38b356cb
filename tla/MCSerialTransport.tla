---- MODULE MCSerialTransport ----
(***************************************************************************)
(* SerialTransport for TLC.                                                *)
(***************************************************************************)
EXTENDS SerialTransport
====
