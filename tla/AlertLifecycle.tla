---------------------------- MODULE AlertLifecycle ----------------------------
(***************************************************************************)
(* What the escalation of phone alerts promises, without ticks, locks,     *)
(* requests, sends and crashes (docstring of services/push_alerts.py):     *)
(* an alert is recorded once, escalated at most once and repeated a        *)
(* bounded number of times while it is open, closed once and for good, and *)
(* after an acknowledgement only the phones that had got it are told.      *)
(***************************************************************************)
EXTENDS Integers

CONSTANTS Alerts, Phones, MaxReminders

VARIABLES
  stage,         \* of each alert: "none", "open", "closed"
  escalated,     \* alerts that went to the backup people
  reminders,     \* how often each was repeated
  reached,       \* phones known to have got each
  acknowledged,  \* alerts somebody has acknowledged
  told           \* phones told that each is handled

vars == <<stage, escalated, reminders, reached, acknowledged, told>>

Init ==
  /\ stage = [a \in Alerts |-> "none"]
  /\ escalated = {} /\ acknowledged = {}
  /\ reminders = [a \in Alerts |-> 0]
  /\ reached = [a \in Alerts |-> {}] /\ told = [a \in Alerts |-> {}]

(***************************************************************************)
(* What may become of one alert in one step.                               *)
(***************************************************************************)
SameStage(a) == stage'[a] = stage[a]
SameAlarms(a) == (a \in escalated' <=> a \in escalated) /\ reminders'[a] = reminders[a]
SamePhones(a) == reached'[a] = reached[a] /\ told'[a] = told[a]

\* Staff messages are recorded closed.
Record(a) ==
  /\ stage[a] = "none" /\ stage'[a] \in {"open", "closed"}
  /\ SameAlarms(a) /\ told'[a] = told[a]

Escalate(a) ==
  /\ stage[a] = "open" /\ a \notin escalated
  /\ a \in escalated' /\ reminders'[a] = reminders[a]
  /\ SameStage(a) /\ SamePhones(a)

Remind(a) ==
  /\ stage[a] = "open" /\ reminders[a] < MaxReminders
  /\ reminders'[a] = reminders[a] + 1 /\ (a \in escalated' <=> a \in escalated)
  /\ SameStage(a) /\ SamePhones(a)

\* A follow-up has reached more phones.
Reach(a) ==
  /\ stage[a] = "open" /\ reached[a] \subseteq reached'[a]
  /\ SameStage(a) /\ SameAlarms(a) /\ told'[a] = told[a]

Close(a) ==
  /\ stage[a] = "open" /\ stage'[a] = "closed"
  /\ SameAlarms(a) /\ SamePhones(a)

Tell(a) ==
  /\ stage[a] = "closed" /\ a \in acknowledged
  /\ told[a] \subseteq told'[a] /\ told'[a] \subseteq told[a] \cup reached[a]
  /\ SameStage(a) /\ SameAlarms(a) /\ reached'[a] = reached[a]

Rest(a) == SameStage(a) /\ SameAlarms(a) /\ SamePhones(a)

\* A tick commits its decisions on many alerts at once.
Next ==
  /\ acknowledged \subseteq acknowledged'
  /\ \A a \in Alerts :
       Record(a) \/ Escalate(a) \/ Remind(a) \/ Reach(a) \/ Close(a) \/ Tell(a) \/ Rest(a)

Spec == Init /\ [][Next]_vars
===============================================================================
