---- MODULE MCClientSession ----
(***************************************************************************)
(* ClientSession with a device of the newest version the SDK speaks, or of *)
(* an unreadable one.  What VersionRange and ClientResults say depends on  *)
(* no state, so it is evaluated in the initial states only.                *)
(***************************************************************************)
EXTENDS ClientSession, ClientResults, TLC

TwoVersions == {<<0, 5, 0>>, <<0, NoNumber, 0>>}

AtStart == proto = None /\ sets = 0 /\ closes = 0

\* version.go:30-51, client.go:252-1349: what the client makes of an answer: the version
\* range is the one of the numbers' order, a success was said by the device, names
\* and tiers are not lost, see VersionRange and ClientResults.
AnswersAreRead ==
    AtStart => RangeIsExact /\ SuccessIsSaid /\ IDsAreKept /\ AirtimeIsTotal /\ OverridesWin
====
