------------------------------ MODULE AlertReview ------------------------------
(***************************************************************************)
(* What people say about one alert, each in a request of his own: a theft  *)
(* incident is acknowledged, staff are sent to it, it is resolved          *)
(* (theft_detection_service.py, routes/theft.py); an alert of a restricted *)
(* area is acknowledged with what happened (routes/events.py,              *)
(* routes/restricted_areas.py); either is acknowledged from a phone's      *)
(* notification (push_alerts.py).                                          *)
(*                                                                         *)
(* A request reads a row, gives way, and writes the columns it changed in  *)
(* its copy.  A copy stays in the request's session until it is refreshed. *)
(***************************************************************************)
EXTENDS FiniteSets

CONSTANT Requests

VARIABLES
  theft,      \* the alert is a theft incident, else one of a restricted area
  incident,   \* its row: [status, resolution, sender, details]
  event,      \* the row of the alert's history: [acked, at, meta]
  req,        \* the requests: [pc, kind, incident, event]
  given,      \* the outcome of the incident that was given last
  clean,      \* nobody has crossed it, acknowledged or sent staff since
  sentTwice,  \* requests that send staff have crossed
  first,      \* who acknowledged the history's row first
  crossed,    \* a copy of it was no longer true when written
  phoned,     \* a phone has acknowledged it
  recorded    \* what happened, as the audit trail has it: <<request, outcome>>

ghosts == <<given, clean, sentTwice, first, crossed, phoned, recorded>>
vars == <<theft, incident, event, req, ghosts>>

Nobody == "nobody"
None == "none"
Outcomes == {"false_alarm", "real"}
Kinds == {"acknowledge", "send", "phone", "seen"} \cup Outcomes

NoIncident == [status |-> "active", resolution |-> None, sender |-> Nobody,
               details |-> [by |-> Nobody, report |-> Nobody]]
NoEvent == [acked |-> FALSE, at |-> Nobody, meta |-> [by |-> Nobody, outcome |-> None]]

Init ==
  /\ theft \in BOOLEAN /\ incident = NoIncident /\ event = NoEvent
  /\ req = [r \in Requests |-> [pc |-> "new", kind |-> "seen", incident |-> NoIncident, event |-> NoEvent]]
  /\ given = None /\ clean = FALSE /\ sentTwice = FALSE /\ first = Nobody /\ crossed = FALSE
  /\ phoned = FALSE /\ recorded = {}

To(r, pc) == req' = [req EXCEPT ![r].pc = pc]

\* For a mutant: the whole copy is written.
Whole(row, copy, new) == new
Columns(row, copy, new) == [c \in DOMAIN row |-> IF new[c] = copy[c] THEN row[c] ELSE new[c]]

(***************************************************************************)
(* A theft incident.                                                       *)
(***************************************************************************)
ReadIncident(r, kind, pc) ==
  /\ req' = [req EXCEPT ![r].pc = pc, ![r].kind = kind, ![r].incident = incident]
  /\ UNCHANGED <<theft, incident, event, ghosts>>

Ask(r) ==
  /\ theft /\ req[r].pc = "new"
  /\ \E kind \in {"acknowledge", "send"} \cup Outcomes : ReadIncident(r, kind, "incident")

WriteIncident(r, new) == incident' = Columns(incident, req[r].incident, new)

\* acknowledge_incident, for the dashboard and for a phone.
Acknowledge(r) ==
  /\ req[r].pc = "incident" /\ req[r].kind \in {"acknowledge", "phone"}
  /\ WriteIncident(r, [req[r].incident EXCEPT !.status = "acknowledged"])
  /\ clean' = (clean /\ req[r].kind = "phone")
  /\ To(r, IF req[r].kind = "phone" THEN "phone_event" ELSE "done")
  /\ UNCHANGED <<theft, event, given, sentTwice, first, crossed, phoned, recorded>>

Sending == {q \in Requests : req[q].kind = "send" /\ req[q].pc \in {"incident", "sent", "alerting"}}

\* dispatch_security.
Send(r) ==
  /\ req[r].pc = "incident" /\ req[r].kind = "send"
  /\ WriteIncident(r, [req[r].incident EXCEPT !.status = "dispatched", !.sender = r,
                                              !.details = [by |-> r, report |-> Nobody]])
  /\ clean' = FALSE /\ sentTwice' = (sentTwice \/ Sending # {r})
  /\ To(r, "sent")
  /\ UNCHANGED <<theft, event, given, first, crossed, phoned, recorded>>

\* The row is read again, and the alert goes out unless the phones are not to hear it.
Refresh(r) ==
  /\ req[r].pc = "sent"
  /\ \E notify \in BOOLEAN :
       req' = [req EXCEPT ![r].pc = IF notify THEN "alerting" ELSE "done", ![r].incident = incident]
  /\ UNCHANGED <<theft, incident, event, ghosts>>

\* record_dispatch_alert: on the session's copy, which is not read again.
Report(r) ==
  /\ req[r].pc = "alerting"
  /\ WriteIncident(r, [req[r].incident EXCEPT !.details.report = r])
  /\ sentTwice' = (sentTwice \/ Sending # {r})
  /\ To(r, "done")
  /\ UNCHANGED <<theft, event, given, clean, first, crossed, phoned, recorded>>

\* resolve_incident.
Pressing == \E q \in Requests : req[q].kind = "phone" /\ req[q].pc \in {"phone", "incident"}
StatusOf(outcome) == IF outcome = "false_alarm" THEN "false_alarm" ELSE "resolved"

Resolve(r) ==
  /\ req[r].pc = "incident" /\ req[r].kind \in Outcomes
  /\ WriteIncident(r, [req[r].incident EXCEPT !.status = StatusOf(req[r].kind), !.resolution = req[r].kind])
  /\ given' = req[r].kind /\ clean' = (incident = req[r].incident /\ ~ Pressing)
  /\ To(r, "done")
  /\ UNCHANGED <<theft, event, sentTwice, first, crossed, phoned, recorded>>

\* review_outcome
Review ==
  IF incident.status = "false_alarm" THEN "false_alarm"
  ELSE IF incident.status = "resolved" THEN incident.resolution ELSE None

(***************************************************************************)
(* The row of the alert's history.                                         *)
(***************************************************************************)
ReadEvent(r, kind, pc) ==
  /\ req' = [req EXCEPT ![r].pc = pc, ![r].kind = kind, ![r].event = event]
  /\ UNCHANGED <<theft, incident, event, ghosts>>

WriteEvent(r, new) ==
  /\ event' = Columns(event, req[r].event, new)
  /\ crossed' = (crossed \/ event # req[r].event)
  /\ first' = IF first = Nobody THEN r ELSE first

\* For a mutant: nobody is asked what happened.
NeverAsked(row) == FALSE
AsksOutcome(row) == ~ theft /\ row.meta.outcome = None

\* acknowledge_event without an outcome, and with one; record_outcome by itself.
See(r) ==
  /\ req[r].pc = "new" /\ ~ AsksOutcome(event) /\ ReadEvent(r, "seen", "plain")
SeeWith(r) ==
  /\ req[r].pc = "new" /\ AsksOutcome(event)
  /\ \E outcome \in Outcomes, pc \in {"outcome", "outcome_alone"} : ReadEvent(r, outcome, pc)

RecordOutcome(r) ==
  /\ req[r].pc \in {"outcome", "outcome_alone"}
  /\ LET copy == req[r].event
         said == [copy EXCEPT !.meta.outcome = req[r].kind]
     IN  WriteEvent(r, IF copy.acked THEN said
                       ELSE [said EXCEPT !.acked = TRUE, !.at = r,
                                         !.meta.by = IF @ = Nobody THEN r ELSE @])
  /\ recorded' = recorded \cup {<<r, req[r].kind>>}
  /\ To(r, IF req[r].pc = "outcome" THEN "refresh" ELSE "done")
  /\ UNCHANGED <<theft, incident, given, clean, sentTwice, phoned>>

RefreshEvent(r) == req[r].pc = "refresh" /\ ReadEvent(r, req[r].kind, "plain")

\* For a mutant: the last acknowledgement is kept.
IsNew(copy) == TRUE
IsFirst(copy) == ~ copy.acked

\* _acknowledge_plain, and the end of acknowledge_from_push.
Stamp(r) ==
  IF IsFirst(req[r].event)
  THEN WriteEvent(r, [req[r].event EXCEPT !.acked = TRUE, !.at = r, !.meta.by = r])
  ELSE UNCHANGED <<event, crossed, first>>

Plain(r) ==
  /\ req[r].pc = "plain" /\ Stamp(r) /\ To(r, "done")
  /\ UNCHANGED <<theft, incident, given, clean, sentTwice, phoned, recorded>>

(***************************************************************************)
(* The button of a phone's notification: it does nothing about an alert    *)
(* that somebody has already taken care of.                                *)
(***************************************************************************)
\* For a mutant: the button always acknowledges.
NeverHandled == FALSE
Handled == event.acked \/ (theft /\ incident.status # "active")

Button(r) ==
  /\ req[r].pc = "new" /\ ~ Handled
  /\ req' = [req EXCEPT ![r].pc = IF theft THEN "phone" ELSE "phone_event", ![r].kind = "phone"]
  /\ UNCHANGED <<theft, incident, event, ghosts>>

ButtonReads(r) == req[r].pc = "phone" /\ ReadIncident(r, "phone", "incident")

ButtonReadsEvent(r) == req[r].pc = "phone_event" /\ ReadEvent(r, "phone", "phone_event_read")

ButtonEvent(r) ==
  /\ req[r].pc = "phone_event_read" /\ Stamp(r) /\ To(r, "done") /\ phoned' = TRUE
  /\ UNCHANGED <<theft, incident, given, clean, sentTwice, recorded>>

Next ==
  \E r \in Requests :
    \/ Ask(r) \/ Acknowledge(r) \/ Send(r) \/ Refresh(r) \/ Report(r) \/ Resolve(r)
    \/ See(r) \/ SeeWith(r) \/ RecordOutcome(r) \/ RefreshEvent(r) \/ Plain(r)
    \/ Button(r) \/ ButtonReads(r) \/ ButtonReadsEvent(r) \/ ButtonEvent(r)

Spec == Init /\ [][Next]_vars

-------------------------------------------------------------------------------
(* Properties *)

TypeOK ==
  /\ incident.status \in {"active", "acknowledged", "dispatched", "resolved", "false_alarm"}
  /\ incident.resolution \in Outcomes \cup {None} /\ event.meta.outcome \in Outcomes \cup {None}
  /\ {incident.sender, incident.details.by, incident.details.report, event.at, event.meta.by, first}
       \subseteq Requests \cup {Nobody}
  /\ \A r \in Requests : req[r].kind \in Kinds

\* The outcome of an incident counts as it was given until somebody on the
\* dashboard acknowledges the incident or sends staff to it, whatever a phone or
\* the report of an earlier alert still writes, if the request that gave it did
\* not cross another.
OutcomeCounts == clean => Review = given /\ incident.resolution = given

\* The details of the staff sent are those of whoever is named as having sent
\* them, with the report of that alert, unless two requests crossed.
ReportBelongs ==
  ~ sentTwice => incident.details.by = incident.sender /\ incident.details.report \in {Nobody, incident.sender}

\* The first acknowledgement is kept, by name and by time, unless requests crossed.
FirstKept == ~ crossed /\ event.acked => event.at = first /\ event.meta.by = first

\* On the dashboard nobody acknowledges an alert of a restricted area without
\* saying what happened, and what the audit trail has been told the alert shows,
\* unless a phone's button was pressed meanwhile.
OutcomeKept ==
  ~ theft =>
    /\ event.acked /\ ~ phoned => event.meta.outcome # None
    /\ ~ crossed /\ recorded # {} => \E r \in Requests : recorded = {<<r, event.meta.outcome>>}

ReviewSound == OutcomeCounts /\ ReportBelongs /\ FirstKept /\ OutcomeKept
===============================================================================
