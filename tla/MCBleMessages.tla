---- MODULE MCBleMessages ----
(***************************************************************************)
(* BleMessages with bytes as model values.  What BleLines says depends on  *)
(* no state, so it is evaluated in the initial state only.                 *)
(***************************************************************************)
EXTENDS BleMessages, TLC

CONSTANTS a, b  \* bytes

TwoLetters == {a, b}

\* No token, the right one, and a wrong one that takes two chunks.
ThreeTokens == {<<>>, <<a>>, <<b, a>>}
RightToken == <<a>>

\* Written, tried again, failed, lost, and lost after the first chunk of two.
FiveEndings == {<<>>, <<"busy">>, <<"failed">>, <<"lost">>, <<"none", "lost">>}

\* ble.go:387-403: lines arrive in order and without a trace of the dropped ones, and
\* an earlier link spoils the first at most, see BleLines.
LinesKeepOrder == link = 0 => LinesArrive

\* ble.go:501-514: a Send that fails in the middle spoils one message, see BleLines.
SendSpoilsOne == link = 0 => FailedSendSpoilsOne

\* ble.go:295-354: the token's write is never repeated in part, and read by the device
\* if it is reported to have succeeded and was not lost, see BleLines.
TokenWrittenOnce == link = 0 => TokenIsWrittenOnce
====
