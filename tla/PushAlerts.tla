------------------------------ MODULE PushAlerts ------------------------------
(***************************************************************************)
(* Alerts to the installed web-app phones of a store: who gets what, the   *)
(* escalation to the backup people, the reminders of a critical alert and  *)
(* the acknowledgement (edge_backend/app/services/push_alerts.py).         *)
(*                                                                         *)
(* Every coroutine of the service runs on one event loop, so a step of     *)
(* this specification is the code between two awaits: the stretches of     *)
(* on_alert, of tick and its follow-ups, and of the acknowledgement        *)
(* requests interleave.  A phone is one web-push subscription.  Time is    *)
(* counted in units of the shortest escalation delay; the escalation loop  *)
(* runs several times per unit (TICK_S = 15 s).  A crash loses everything  *)
(* that is not in the database.                                            *)
(***************************************************************************)
EXTENDS Integers, FiniteSets

CONSTANTS
  Alerts,         \* alert ids, each dispatched once
  Phones,         \* web-push subscriptions
  Requests,       \* acknowledgement requests being served at one time
  Loop,           \* the escalation loop
  Kind,           \* Alerts -> Kinds, what the dispatcher routed the alert as
  Key,            \* Alerts -> (camera, event type)
  InitTier,       \* Phones -> Tiers, the roster at the start
  Delay,          \* escalate_after_min
  Cooldown,       \* CAMERA_ALERT_COOLDOWN_SEC
  NoticeWithin,   \* HANDLED_NOTICE_WITHIN
  OpenFor,        \* OPEN_FOR
  MaxRepeats,     \* CRITICAL_MAX_REPEATS
  MaxAlerts,      \* bound: alerts that are raised
  MaxTime,        \* bound: the clock stops here
  MaxCrashes,     \* bound: crashes of the process
  MaxEdits,       \* bound: roster edits and unsubscriptions
  MaxFaults,      \* bound: failed database writes and pushes that go wrong
  MaxTroubles     \* bound: crashes, edits and faults together

Kinds == {"critical", "alert", "night", "areaCritical", "staff"}
Tiers == {"first", "backup", "none"}
None == -1
Tickers == Requests \cup {Loop}
Time == 0 .. MaxTime
MaybeTime == Time \cup {None}

ASSUME BoundsAssumption ==
  /\ Delay \in Nat \ {0} /\ Cooldown \in Nat /\ NoticeWithin \in Nat
  /\ OpenFor \in Nat /\ MaxRepeats \in Nat /\ MaxTime \in Nat
  /\ MaxAlerts \in Nat /\ MaxTroubles \in Nat
  /\ MaxCrashes \in Nat /\ MaxEdits \in Nat /\ MaxFaults \in Nat
ASSUME RosterAssumption ==
  /\ Kind \in [Alerts -> Kinds] /\ InitTier \in [Phones -> Tiers]
  /\ Loop \notin Requests /\ None \notin Requests \cup {Loop}

VARIABLES
  now,       \* the clock
  loopAt,    \* the last unit of time in which the loop ran a tick
  crashes, edits, faults,
  tier,      \* the saved roster, by phone of the person
  subs,      \* subscriptions in the database
  lastPush,  \* _last_push, in memory
  task,      \* on_alert: one coroutine per alert
  row,       \* push_alerts table
  logged,    \* alerts with an incident or event that can be marked
  acked,     \* alerts whose incident or event is acknowledged
  shown,     \* what each phone last displayed about each alert
  alarms,    \* history: alerting messages begun for each phone and alert
  second,    \* phones to which a message about an alert is sent a second time
  resent,    \* history: second tries of alerting messages
  lock,      \* _tick_lock
  tick,      \* tick() of the loop and of each request
  req        \* acknowledgement requests

world  == <<now, loopAt, crashes, edits, faults>>
phones == <<tier, subs>>
vars   == <<world, phones, lastPush, task, row, logged, acked, shown, alarms,
            second, resent, lock, tick, req>>

(***************************************************************************)
(* What the alert kinds mean to this service (qualifies, on_alert).        *)
(***************************************************************************)
Tracks(k)        == k # "staff"
Escalates(k)     == k \in {"critical", "night"}
Repeats(k)       == k \in {"critical", "areaCritical"}
ToEveryone(k)    == k = "areaCritical"
SkipsCooldown(k) == k \in {"critical", "areaCritical", "staff"}
IgnoresMute(k)   == k = "areaCritical"
HasIncident(k)   == k \in {"critical", "alert", "staff"}
HasDeadline(k)   == k = "areaCritical"

People(t, ps) == {p \in ps : t[p] \in {"first", "backup"}}
InTier(t, ps, name) == {p \in ps : t[p] = name}

NoTask == [pc |-> "new", at |-> None, roster |-> InitTier, waiting |-> {},
           accepted |-> {}]
NoRow == [created |-> None, escalateAt |-> None, escalatedAt |-> None,
          sentTo |-> {}, closedAt |-> None, count |-> 0,
          lastAt |-> None]
Recorded(a) == row[a].created # None
Open(a) == Recorded(a) /\ row[a].closedAt = None

JobKinds == {"handled", "escalate", "repeat"}
IdleTick == [pc |-> "idle", at |-> None, plan |-> {}, jobs |-> {},
             doing |-> {}, waiting |-> {}, accepted |-> {}]
IdleReq == [pc |-> "idle", alert |-> None]

Init ==
  /\ now = 0 /\ loopAt = None /\ crashes = 0 /\ edits = 0 /\ faults = 0
  /\ tier = InitTier
  /\ subs = Phones
  /\ lastPush = [k \in {Key[a] : a \in Alerts} |-> None]
  /\ task = [a \in Alerts |-> NoTask]
  /\ row = [a \in Alerts |-> NoRow]
  /\ logged = {} /\ acked = {}
  /\ shown = [a \in Alerts |-> [p \in Phones |-> "none"]]
  /\ alarms = [a \in Alerts |-> [p \in Phones |-> 0]]
  /\ second = [a \in Alerts |-> {}]
  /\ resent = [a \in Alerts |-> [p \in Phones |-> 0]]
  /\ lock = None
  /\ tick = [t \in Tickers |-> IdleTick]
  /\ req = [r \in Requests |-> IdleReq]

TroubleLeft == crashes + edits + faults < MaxTroubles
Fault == faults < MaxFaults /\ TroubleLeft /\ faults' = faults + 1
NoFault == UNCHANGED faults

(***************************************************************************)
(* One POST of a message to one phone (web_push.send, for _send_all's      *)
(* one): "sent" when the push service took it, "gone" when it reports the  *)
(* subscription removed (the row is deleted), "failed" when it was not     *)
(* taken, "unsure" when it was taken but its answer was lost, "refused"    *)
(* with any other answer.  A message that failed or may have failed is     *)
(* posted once more half a second later, whatever becomes of that.         *)
(***************************************************************************)
Outcomes == {"sent", "gone", "refused", "failed", "unsure"}
\* Mutant: the attempts are not counted.
TryAgainForever(a, p, outcome) == outcome \in {"failed", "unsure"}
TryAgain(a, p, outcome) == outcome \in {"failed", "unsure"} /\ p \notin second[a]

Push(a, p, outcome, face) ==
  LET again == TryAgain(a, p, outcome) IN
  /\ shown' = IF outcome \in {"sent", "unsure"}
                THEN [shown EXCEPT ![a][p] = face] ELSE shown
  /\ subs' = IF outcome = "gone" THEN subs \ {p} ELSE subs
  /\ second' = [second EXCEPT ![a] = IF again THEN @ \cup {p} ELSE @ \ {p}]
  /\ resent' = IF again /\ face = "alert" THEN [resent EXCEPT ![a][p] = @ + 1] ELSE resent
  /\ IF outcome \in {"sent", "gone"} \/ p \in second[a] THEN NoFault ELSE Fault
  /\ UNCHANGED <<now, loopAt, crashes, edits, tier>>
\* The sender's list of phones still to answer and of those that accepted.
Answered(sender, a, p, outcome) ==
  [sender EXCEPT !.waiting = IF TryAgain(a, p, outcome) THEN @ ELSE @ \ {p},
                 !.accepted = IF outcome = "sent" THEN @ \cup {p} ELSE @]

(***************************************************************************)
(* on_alert, called by the dispatcher after the alert was logged.          *)
(***************************************************************************)
\* AlertDispatcher.dispatch: the alert history row is written (an unknown
\* camera or a database error leaves no row and the alert goes on).
LogAlert(a, ok) ==
  /\ task[a].pc = "new"
  /\ Cardinality({b \in Alerts : task[b].pc # "new"}) < MaxAlerts
  /\ now + Delay <= MaxTime
  /\ HasIncident(Kind[a]) => ok
  /\ IF ok THEN NoFault ELSE Fault
  /\ logged' = IF ok THEN logged \cup {a} ELSE logged
  /\ task' = [task EXCEPT ![a].pc = "logged"]
  /\ UNCHANGED <<now, loopAt, crashes, edits, phones, lastPush, row, acked,
                 shown, alarms, second, resent, lock, tick, req>>

HeldBack(a) ==
  LET last == lastPush[Key[a]]
  IN ~SkipsCooldown(Kind[a]) /\ last # None /\ now - last < Cooldown

\* The first stretch of on_alert: roster read, camera mute, cooldown.
CheckAlert(a, muted) ==
  /\ task[a].pc = "logged"
  /\ muted => ~IgnoresMute(Kind[a])
  /\ task' = [task EXCEPT ![a] =
                [@ EXCEPT !.pc = IF muted \/ HeldBack(a) THEN "skipped" ELSE "checked",
                          !.at = now, !.roster = tier]]
  /\ UNCHANGED <<world, phones, lastPush, row, logged, acked, shown, alarms,
                 second, resent, lock, tick, req>>

\* Accounts and subscriptions have been read: the push starts and the
\* cooldown runs from the time the check read.
StartPush(a) ==
  LET t == task[a].roster
      targets == IF ToEveryone(Kind[a]) THEN People(t, subs)
                 ELSE InTier(t, subs, "first")
  IN
  /\ task[a].pc = "checked"
  /\ lastPush' = [lastPush EXCEPT ![Key[a]] = task[a].at]
  /\ task' = [task EXCEPT ![a] = [@ EXCEPT !.pc = "sending", !.waiting = targets]]
  /\ alarms' = [alarms EXCEPT ![a] =
                  [p \in Phones |-> @[p] + IF p \in targets THEN 1 ELSE 0]]
  /\ UNCHANGED <<world, phones, row, logged, acked, shown, lock, tick, req,
                 second, resent>>

PushAlert(a, p, outcome) ==
  /\ task[a].pc = "sending" /\ p \in task[a].waiting
  /\ Push(a, p, outcome, "alert")
  /\ task' = [task EXCEPT ![a] = Answered(@, a, p, outcome)]
  /\ UNCHANGED <<lastPush, row, logged, acked, alarms, lock, tick, req>>

\* When the backup people hear of alert a if nobody acknowledges it.
EscalateAt(a) ==
  LET backup == InTier(task[a].roster, Phones, "backup")
      accepted == task[a].accepted
  IN IF /\ Tracks(Kind[a]) /\ backup # {} /\ ~ToEveryone(Kind[a])
        /\ Escalates(Kind[a]) \/ accepted = {}
     THEN IF accepted = {} THEN now ELSE now + Delay
     ELSE None

\* Messages that are not tracked are recorded closed.
NewRow(a) ==
  [created |-> now, escalateAt |-> EscalateAt(a), escalatedAt |-> None,
   sentTo |-> task[a].accepted,
   closedAt |-> IF Tracks(Kind[a]) THEN None ELSE now,
   count |-> 0, lastAt |-> None]

\* _record_alert, once every phone has answered (ok = FALSE: database error).
RecordAlert(a, ok) ==
  /\ task[a].pc = "sending" /\ task[a].waiting = {}
  /\ IF ok THEN NoFault ELSE Fault
  /\ task' = [task EXCEPT ![a] = [NoTask EXCEPT !.pc = "done", !.at = task[a].at]]
  /\ row' = IF ok THEN [row EXCEPT ![a] = NewRow(a)] ELSE row
  /\ UNCHANGED <<now, loopAt, crashes, edits, phones, lastPush, logged, acked,
                 shown, alarms, second, resent, lock, tick, req>>

\* A restricted-area alert is given 15 s in all; then its coroutine is cancelled.
CancelAlert(a) ==
  /\ HasDeadline(Kind[a]) /\ task[a].pc \in {"logged", "checked", "sending"}
  /\ Fault
  /\ task' = [task EXCEPT ![a].pc = "cancelled"]
  /\ second' = [second EXCEPT ![a] = {}]
  /\ UNCHANGED <<now, loopAt, crashes, edits, phones, lastPush, row, logged,
                 acked, shown, alarms, resent, lock, tick, req>>

(***************************************************************************)
(* The escalation worker: tick() under its lock, from the loop for every   *)
(* open alert and from an acknowledgement request for one alert.           *)
(***************************************************************************)
LastAlarm(r) ==
  IF r.lastAt # None THEN r.lastAt
  ELSE IF r.escalatedAt # None THEN r.escalatedAt ELSE r.created

\* Mutant: one reminder too many.
DueRepeatOneMore(a, t) ==
  row[a].count <= MaxRepeats /\ t - LastAlarm(row[a]) >= Delay
DueRepeat(a, t) ==
  row[a].count < MaxRepeats /\ t - LastAlarm(row[a]) >= Delay

Decision(a, t) ==
  LET r == row[a]
      escalation == r.escalateAt # None
  IN IF t - r.created > OpenFor THEN "expire"
     ELSE IF a \in acked THEN "handled"
     ELSE IF escalation /\ r.escalatedAt = None /\ r.escalateAt <= t THEN "escalate"
     ELSE IF Repeats(Kind[a]) /\ (escalation => r.escalatedAt # None) /\ DueRepeat(a, t)
       THEN "repeat"
     ELSE "leave"

\* The rows a tick reads: all open ones, or the one it was asked for.
Scope(t) == IF t = Loop THEN {a \in Alerts : Open(a)}
            ELSE {a \in {req[t].alert} : Open(a)}
WantsTick(t) == IF t = Loop THEN TRUE ELSE req[t].pc = "tick"

\* Mutant: no lock.
CanEnterUnlocked(t) == tick[t].pc = "idle" /\ WantsTick(t)
CanEnter(t) == lock = None /\ tick[t].pc = "idle" /\ WantsTick(t)

TickRead(t) ==
  /\ CanEnter(t)
  /\ lock' = t
  /\ tick' = [tick EXCEPT ![t] =
                [IdleTick EXCEPT !.pc = "read", !.at = now,
                   !.plan = {[what |-> Decision(a, now), alert |-> a] :
                               a \in Scope(t)}]]
  /\ UNCHANGED <<world, phones, lastPush, task, row, logged, acked, shown,
                 alarms, second, resent, req>>

Planned(t, a) == {j.what : j \in {k \in tick[t].plan : k.alert = a}}

\* Mutant: the escalation is not marked before it is sent.
RowAfterUnmarked(t, a) ==
  LET at == tick[t].at
      r == row[a]
      d == Planned(t, a)
  IN IF d \cap {"expire", "handled"} # {} THEN [r EXCEPT !.closedAt = at]
     ELSE IF "repeat" \in d THEN [r EXCEPT !.count = @ + 1, !.lastAt = at]
     ELSE r
RowAfter(t, a) ==
  LET at == tick[t].at
      r == row[a]
      d == Planned(t, a)
  IN IF d \cap {"expire", "handled"} # {} THEN [r EXCEPT !.closedAt = at]
     ELSE IF "escalate" \in d THEN [r EXCEPT !.escalatedAt = at]
     ELSE IF "repeat" \in d THEN [r EXCEPT !.count = @ + 1, !.lastAt = at]
     ELSE r

\* Work that follows the commit: the notice of an acknowledgement is sent only
\* to phones that got the alert, and only within NoticeWithin of the alert.
NoticeDue(t, a) ==
  row[a].sentTo # {} /\ tick[t].at - row[a].created <= NoticeWithin
\* Mutant: a boundary in the wrong place.
FollowUpsTooStrict(t) ==
  {j \in tick[t].plan :
     \/ j.what \in {"escalate", "repeat"}
     \/ /\ j.what = "handled" /\ row[j.alert].sentTo # {}
        /\ tick[t].at - row[j.alert].created < NoticeWithin}
\* Mutant: the notice's condition asked of the escalation too.
FollowUpsOnlyReached(t) ==
  {j \in tick[t].plan :
     \/ j.what \in {"escalate", "repeat"} /\ row[j.alert].sentTo # {}
     \/ j.what = "handled" /\ NoticeDue(t, j.alert)}
FollowUps(t) ==
  {j \in tick[t].plan :
     \/ j.what \in {"escalate", "repeat"}
     \/ j.what = "handled" /\ NoticeDue(t, j.alert)}

TickCommit(t) ==
  /\ tick[t].pc = "read"
  /\ row' = [a \in Alerts |-> RowAfter(t, a)]
  /\ tick' = [tick EXCEPT ![t] =
                [IdleTick EXCEPT !.pc = "follow",
                          !.jobs = {[what |-> j.what, alert |-> j.alert,
                                        already |-> row[j.alert].sentTo] :
                                      j \in FollowUps(t)}]]
  /\ UNCHANGED <<world, phones, lastPush, task, logged, acked, shown, alarms,
                 second, resent, lock, req>>

EndTick(t) ==
  /\ lock' = None
  /\ tick' = [tick EXCEPT ![t] = IdleTick]
  /\ req' = IF t = Loop THEN req ELSE [req EXCEPT ![t] = IdleReq]
  /\ loopAt' = IF t = Loop THEN now ELSE loopAt

\* The commit failed (locked database): the tick ends and changed nothing.
TickAbort(t) ==
  /\ tick[t].pc = "read"
  /\ Fault
  /\ EndTick(t)
  /\ UNCHANGED <<now, crashes, edits, phones, lastPush, task, row, logged,
                 acked, shown, alarms, second, resent>>

Targets(j) ==
  CASE j.what = "escalate" -> InTier(tier, subs, "backup") \ j.already
    [] j.what = "repeat"   -> People(tier, subs)
    [] j.what = "handled"  -> subs \cap j.already

\* _escalate, _repeat and _send_handled read the roster and the phones afresh.
StartFollowUp(t, j) ==
  /\ tick[t].pc = "follow" /\ tick[t].doing = {} /\ j \in tick[t].jobs
  /\ tick' = [tick EXCEPT ![t] = [@ EXCEPT !.doing = {j}, !.waiting = Targets(j)]]
  /\ alarms' = IF j.what = "handled" THEN alarms
               ELSE [alarms EXCEPT ![j.alert] =
                       [p \in Phones |-> @[p] + IF p \in Targets(j) THEN 1 ELSE 0]]
  /\ UNCHANGED <<world, phones, lastPush, task, row, logged, acked, shown, lock,
                 req, second, resent>>

SendFollowUp(t, j, p, outcome) ==
  /\ tick[t].pc = "follow" /\ j \in tick[t].doing /\ p \in tick[t].waiting
  /\ Push(j.alert, p, outcome, IF j.what = "handled" THEN "handled" ELSE "alert")
  /\ tick' = [tick EXCEPT ![t] = Answered(@, j.alert, p, outcome)]
  /\ UNCHANGED <<lastPush, task, row, logged, acked, alarms, lock, req>>

\* Mutant: the phones reached replace the ones that had the alert.
ListedReplaced(t, j) ==
  IF j.what = "handled" THEN row[j.alert].sentTo ELSE tick[t].accepted
\* The phones reached are added to the row, except for the notice.
Listed(t, j) ==
  IF j.what = "handled" THEN row[j.alert].sentTo
  ELSE row[j.alert].sentTo \cup tick[t].accepted

Without(s, j) == [s EXCEPT !.doing = {}, !.jobs = @ \ {j}, !.accepted = {}]
FollowUpDone(t, j) == tick' = [tick EXCEPT ![t] = Without(@, j)]

EndFollowUp(t, j) ==
  /\ tick[t].pc = "follow" /\ j \in tick[t].doing /\ tick[t].waiting = {}
  /\ row' = [row EXCEPT ![j.alert].sentTo = Listed(t, j)]
  /\ FollowUpDone(t, j)
  /\ UNCHANGED <<world, phones, lastPush, task, logged, acked, shown, alarms,
                 second, resent, lock, req>>

\* A database error before the sends or after them is logged and the tick goes
\* on with the next follow-up: this one is not tried again.
FailFollowUp(t, j) ==
  /\ tick[t].pc = "follow" /\ j \in tick[t].jobs /\ tick[t].waiting = {}
  /\ tick[t].doing \in {{}, {j}}
  /\ Fault
  /\ FollowUpDone(t, j)
  /\ UNCHANGED <<now, loopAt, crashes, edits, phones, lastPush, task, row,
                 logged, acked, shown, alarms, second, resent, lock, req>>

TickEnd(t) ==
  /\ tick[t].pc = "follow" /\ tick[t].jobs = {} /\ tick[t].doing = {}
  /\ EndTick(t)
  /\ UNCHANGED <<now, crashes, edits, faults, phones, lastPush, task, row,
                 logged, acked, shown, alarms, second, resent>>

(***************************************************************************)
(* Acknowledgement.                                                        *)
(***************************************************************************)
\* In the dashboard: the incident or event is marked; the restricted-area
\* route also runs a tick for its alert, the others leave it to the loop.
DashboardAck(r, a) ==
  /\ req[r].pc = "idle" /\ a \in logged \ acked
  /\ acked' = acked \cup {a}
  /\ req' = IF Kind[a] = "areaCritical"
            THEN [req EXCEPT ![r] = [IdleReq EXCEPT !.pc = "tick", !.alert = a]] ELSE req
  /\ UNCHANGED <<world, phones, lastPush, task, row, logged, shown, alarms,
                 second, resent, lock, tick>>

Button(a, p) == shown[a][p] = "alert" /\ p \in subs

\* The notification's own button: refused unless the alert is recorded and the
\* phone still subscribed; what it finds acknowledged is read here ...
PhoneAckRead(r, a, p) ==
  /\ req[r].pc = "idle" /\ Button(a, p) /\ Recorded(a)
  /\ req' = [req EXCEPT ![r] = [pc |-> IF a \in acked THEN "tick" ELSE "mark",
                                alert |-> a]]
  /\ UNCHANGED <<world, phones, lastPush, task, row, logged, acked, shown,
                 alarms, second, resent, lock, tick>>

\* ... and marked here, where there is something to mark.
PhoneAckWrite(r) ==
  /\ req[r].pc = "mark"
  /\ acked' = acked \cup ({req[r].alert} \cap logged)
  /\ req' = [req EXCEPT ![r].pc = "tick"]
  /\ UNCHANGED <<world, phones, lastPush, task, row, logged, shown, alarms,
                 second, resent, lock, tick>>

(***************************************************************************)
(* The world: time, roster edits, phones leaving, crashes.                 *)
(***************************************************************************)
Advance ==
  /\ now < MaxTime /\ loopAt = now
  /\ now' = now + 1
  /\ UNCHANGED <<loopAt, crashes, edits, faults, phones, lastPush, task, row,
                 logged, acked, shown, alarms, second, resent, lock, tick, req>>

EditRoster(p, t) ==
  /\ edits < MaxEdits /\ TroubleLeft /\ edits' = edits + 1
  /\ tier[p] # t /\ tier' = [tier EXCEPT ![p] = t]
  /\ UNCHANGED <<now, loopAt, crashes, faults, subs, lastPush, task, row,
                 logged, acked, shown, alarms, second, resent, lock, tick, req>>

Unsubscribe(p) ==
  /\ edits < MaxEdits /\ TroubleLeft /\ edits' = edits + 1
  /\ p \in subs /\ subs' = subs \ {p}
  /\ UNCHANGED <<now, loopAt, crashes, faults, tier, lastPush, task, row,
                 logged, acked, shown, alarms, second, resent, lock, tick, req>>

\* The process dies and is started again: coroutines, the lock and the
\* cooldowns are gone, the database stays.
Crash ==
  /\ crashes < MaxCrashes /\ TroubleLeft /\ crashes' = crashes + 1
  /\ task' = [a \in Alerts |->
                IF task[a].pc \in {"new", "skipped", "cancelled", "done"}
                  THEN task[a] ELSE [task[a] EXCEPT !.pc = "cancelled"]]
  /\ lastPush' = [k \in DOMAIN lastPush |-> None]
  /\ second' = [a \in Alerts |-> {}]
  /\ lock' = None
  /\ tick' = [t \in Tickers |-> IdleTick]
  /\ req' = [r \in Requests |-> IdleReq]
  /\ UNCHANGED <<now, loopAt, edits, faults, phones, row, logged, acked, shown,
                 alarms, resent>>

AlertStep(a) ==
  \/ \E ok \in BOOLEAN : LogAlert(a, ok) \/ RecordAlert(a, ok)
  \/ \E muted \in BOOLEAN : CheckAlert(a, muted)
  \/ StartPush(a)
  \/ \E p \in Phones, o \in Outcomes : PushAlert(a, p, o)

TickStep(t) ==
  \/ TickRead(t) \/ TickCommit(t) \/ TickEnd(t)
  \/ \E j \in tick[t].jobs :
       \/ StartFollowUp(t, j) \/ EndFollowUp(t, j)
       \/ \E p \in Phones, o \in Outcomes : SendFollowUp(t, j, p, o)

Next ==
  \/ \E a \in Alerts : AlertStep(a) \/ CancelAlert(a)
  \/ \E t \in Tickers :
       TickStep(t) \/ TickAbort(t) \/ \E j \in tick[t].jobs : FailFollowUp(t, j)
  \/ \E r \in Requests : PhoneAckWrite(r)
  \/ \E r \in Requests, a \in Alerts :
       DashboardAck(r, a) \/ \E p \in Phones : PhoneAckRead(r, a, p)
  \/ Advance
  \/ \E p \in Phones : Unsubscribe(p) \/ \E t \in Tiers : EditRoster(p, t)
  \/ Crash

\* The event loop runs every ready coroutine and asyncio.Lock wakes its waiters
\* in order; people, failures and deadlines are free.
Fairness ==
  /\ \A a \in Alerts : WF_vars(AlertStep(a))
  /\ \A t \in Tickers : WF_vars(TickStep(t)) /\ SF_vars(TickRead(t))
  /\ \A r \in Requests : WF_vars(PhoneAckWrite(r))
  /\ WF_vars(Advance)

Spec == Init /\ [][Next]_vars
FairSpec == Spec /\ Fairness

-------------------------------------------------------------------------------
(***************************************************************************)
(* Properties.                                                             *)
(***************************************************************************)
Jobs == [what : JobKinds, alert : Alerts, already : SUBSET Phones]
Plans == [what : JobKinds \cup {"expire", "leave"}, alert : Alerts]

Tasks == [pc : {"new", "logged", "checked", "sending", "done", "skipped",
                "cancelled"},
          at : MaybeTime, roster : [Phones -> Tiers],
          waiting : SUBSET Phones, accepted : SUBSET Phones]
Rows == [created : MaybeTime, escalateAt : Nat \cup {None},
         escalatedAt : MaybeTime, sentTo : SUBSET Phones, closedAt : MaybeTime,
         count : 0 .. MaxRepeats, lastAt : MaybeTime]
Ticks == [pc : {"idle", "read", "follow"}, at : MaybeTime, plan : SUBSET Plans,
          jobs : SUBSET Jobs, doing : SUBSET Jobs,
          waiting : SUBSET Phones, accepted : SUBSET Phones]
Reqs == {IdleReq} \cup [pc : {"mark", "tick"}, alert : Alerts]

\* Every variable stays in its domain; in particular a row never counts more
\* reminders than CRITICAL_MAX_REPEATS.
TypeOK ==
  /\ now \in Time /\ loopAt \in MaybeTime
  /\ crashes \in 0 .. MaxCrashes /\ edits \in 0 .. MaxEdits /\ faults \in 0 .. MaxFaults
  /\ tier \in [Phones -> Tiers] /\ subs \in SUBSET Phones
  /\ lastPush \in [{Key[a] : a \in Alerts} -> MaybeTime]
  /\ task \in [Alerts -> Tasks] /\ row \in [Alerts -> Rows]
  /\ logged \in SUBSET Alerts /\ acked \in SUBSET Alerts
  /\ shown \in [Alerts -> [Phones -> {"none", "alert", "handled"}]]
  /\ alarms \in [Alerts -> [Phones -> Nat]]
  /\ second \in [Alerts -> SUBSET Phones] /\ resent \in [Alerts -> [Phones -> Nat]]
  /\ lock \in Tickers \cup {None}
  /\ tick \in [Tickers -> Ticks] /\ req \in [Requests -> Reqs]

\* An alert is sent to a phone at most once when it is raised, once when it is
\* escalated (a phone that missed the first push and moved to the backup list
\* gets both) and MaxRepeats times as a reminder, also across crashes: the tick
\* commits what it is about to send before it sends it.  A message whose answer
\* is lost or which is put off is posted a second time, so that the phone may
\* sound twice as often, and once more for each push that went wrong.
AlarmsBounded ==
  \A a \in Alerts, p \in Phones :
    LET messages == (IF edits = 0 THEN 1 ELSE 2)
                    + (IF Repeats(Kind[a]) THEN MaxRepeats ELSE 0)
        posts == alarms[a][p] + resent[a][p]
    IN /\ alarms[a][p] <= messages
       /\ posts <= messages + messages
       /\ posts <= messages + faults

\* No tick is about to alarm anybody for an alert whose row is closed: reading
\* the rows, committing and sending are one critical section of _tick_lock.
NoFollowUpOnClosed ==
  \A t \in Tickers : tick[t].pc = "follow" =>
    \A j \in tick[t].jobs :
      j.what \in {"escalate", "repeat"} => row[j.alert].closedAt = None

\* The escalation implements its abstract life cycle: whatever ticks, requests,
\* crashes and failed commits overlap, an alert is escalated at most once,
\* repeated only while it is open, final once it is closed, and after that only
\* the phones that had got it are told, for good, that it was acknowledged.
L == INSTANCE AlertLifecycle WITH
       MaxReminders <- MaxRepeats,
       stage <- [a \in Alerts |-> IF ~Recorded(a) THEN "none"
                                  ELSE IF Open(a) THEN "open" ELSE "closed"],
       escalated <- {a \in Alerts : row[a].escalatedAt # None},
       reminders <- [a \in Alerts |-> row[a].count],
       reached <- [a \in Alerts |-> row[a].sentTo],
       acknowledged <- acked,
       told <- [a \in Alerts |-> {p \in Phones : shown[a][p] = "handled"}]
Lifecycle == L!Spec

Working(a) ==
  \/ task[a].pc = "sending"
  \/ \E t \in Tickers : \E j \in tick[t].doing : j.alert = a

\* While nothing fails, every phone that displays an alert is on the row's list
\* of phones to be told about its acknowledgement.
EveryoneIsListed ==
  crashes = 0 /\ faults = 0 =>
    \A a \in Alerts, p \in Phones :
      shown[a][p] = "alert" /\ ~Working(a) => p \in row[a].sentTo

\* When nobody acknowledges a recorded alert in time, every phone of the backup
\* people is asked to sound, unless the phone or the roster changed or the
\* database failed meanwhile.
BackupsHear ==
  \A a \in Alerts, p \in Phones :
    Open(a) /\ row[a].escalateAt # None /\ now >= row[a].escalateAt
      /\ InitTier[p] = "backup"
    ~> \/ a \in acked \/ p \notin subs \/ alarms[a][p] > 0
       \/ edits > 0 \/ faults > 0 \/ now - row[a].created > OpenFor

\* "When nobody acknowledges it within escalate_after_min minutes, every phone
\* of the backup people gets it as well": of an alert that no reminder repeats,
\* also when its row expires before it was sent to them.
EscalationIsSent ==
  \A a \in Alerts, p \in Phones :
    row[a].escalatedAt # None /\ InitTier[p] = "backup" /\ ~Repeats(Kind[a])
    ~> a \in acked \/ p \notin subs \/ alarms[a][p] > 0 \/ edits > 0 \/ faults > 0

\* Once an alert is acknowledged, the phones that got it are told, as long as
\* nothing failed and the notice is not too old to be useful.
HandledIsTold ==
  \A a \in Alerts, p \in Phones :
    a \in acked /\ Open(a) /\ p \in row[a].sentTo
    ~> \/ shown[a][p] = "handled" \/ p \notin subs \/ faults > 0
       \/ row[a].closedAt # None /\ row[a].closedAt - row[a].created > NoticeWithin

===============================================================================
