---------------------------- MODULE MCPushAlerts ----------------------------
(***************************************************************************)
(* Small stores for TLC: rosters, alert kinds and keys for PushAlerts.     *)
(***************************************************************************)
EXTENDS PushAlerts, TLC

CONSTANTS a1, a2, f1, b1, cam

\* One theft alert of the level that escalates and repeats.
KindCritical == [a \in Alerts |-> "critical"]
\* Beside it an alert of a restricted area: every phone at once, reminders, a
\* deadline.
KindEach == [a \in Alerts |-> IF a = a1 THEN "critical" ELSE "areaCritical"]

\* A night-guard alert: it escalates and does not repeat.
KindNight == [a \in Alerts |-> "night"]

\* Every alert comes from one camera with one type.
OneKey == [a \in Alerts |-> cam]

TwoAndOne == [p \in Phones |-> IF p = b1 THEN "backup" ELSE "first"]
=============================================================================
