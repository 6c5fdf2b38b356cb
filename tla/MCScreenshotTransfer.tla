---- MODULE MCScreenshotTransfer ----
(***************************************************************************)
(* ScreenshotTransfer with one goroutine or two.                           *)
(***************************************************************************)
EXTENDS ScreenshotTransfer, TLC

CONSTANTS c1, c2  \* goroutines that take screenshots

OneCaller == {c1}
TwoCallers == {c1, c2}

\* Sizes an unreliable device reports: negative, none, plausible, too large.
WildSizes == {-1, 0, 2, 3, 4}
OneSize == {3}
====
