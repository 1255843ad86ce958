-------------------------- MODULE PushAlertsProofs --------------------------
(***************************************************************************)
(* Proofs about PushAlerts for every set of alerts and phones and every    *)
(* bound.  They rest on one inductive invariant: the tick that holds       *)
(* _tick_lock is the only one with work, what it has read is still true    *)
(* when it commits, and what it is sending agrees with the rows.  Two      *)
(* stronger ones follow it, for the life cycle of an alert and for the     *)
(* phones it reaches.                                                      *)
(***************************************************************************)
EXTENDS PushAlerts, TLAPS

\* At most one tick has work and it holds the lock.
LockHeld ==
  \A t \in Tickers :
    /\ tick[t].pc # "idle" <=> lock = t
    /\ tick[t].pc # "read" => tick[t].plan = {}
    /\ tick[t].pc # "follow" => tick[t].jobs = {}
    /\ tick[t].doing \subseteq tick[t].jobs
    /\ tick[t].pc = "read" => tick[t].at \in Time

\* What the tick has read stays true until it commits: only it writes to rows
\* that are recorded.
PlanIsCurrent ==
  \A t \in Tickers : \A j \in tick[t].plan :
    /\ Open(j.alert)
    /\ j.what = "repeat" => row[j.alert].count < MaxRepeats
    /\ \A k \in tick[t].plan : k.alert = j.alert => k.what = j.what

\* What is being sent agrees with the row, which only this tick can close.
JobsAgree ==
  \A t \in Tickers : \A j \in tick[t].jobs :
    /\ Recorded(j.alert)
    /\ j.what = "handled" <=> row[j.alert].closedAt # None

\* An alert that is still being pushed has no row.
NotYetRecorded ==
  \A a \in Alerts : task[a].pc \in {"new", "logged", "checked", "sending"}
                    => ~Recorded(a)

\* Only the phones of closed rows have been told.
ToldOnlyIfClosed ==
  \A a \in Alerts, p \in Phones :
    shown[a][p] = "handled" => Recorded(a) /\ ~Open(a)

IInv ==
  /\ TypeOK /\ LockHeld /\ PlanIsCurrent /\ JobsAgree /\ NotYetRecorded
  /\ ToldOnlyIfClosed

LEMMA InitIInv == Init => IInv
<1> SUFFICES ASSUME Init PROVE IInv
  OBVIOUS
<1> USE BoundsAssumption, RosterAssumption
<1>1. TypeOK
  <2>1. NoTask \in Tasks /\ NoRow \in Rows /\ IdleTick \in Ticks /\ IdleReq \in Reqs
    BY DEF NoTask, NoRow, IdleTick, IdleReq, Tasks, Rows, Ticks, Reqs, Time,
           MaybeTime, None
  <2>2. lastPush \in [{Key[a] : a \in Alerts} -> MaybeTime]
    BY DEF Init, MaybeTime
  <2>3. task \in [Alerts -> Tasks] /\ row \in [Alerts -> Rows]
        /\ tick \in [Tickers -> Ticks] /\ req \in [Requests -> Reqs]
    BY <2>1 DEF Init
  <2>4. logged \in SUBSET Alerts /\ acked \in SUBSET Alerts
        /\ shown \in [Alerts -> [Phones -> {"none", "alert", "handled"}]]
        /\ alarms \in [Alerts -> [Phones -> Nat]]
        /\ second \in [Alerts -> SUBSET Phones] /\ resent \in [Alerts -> [Phones -> Nat]]
    BY DEF Init
  <2> QED BY <2>2, <2>3, <2>4 DEF Init, TypeOK, Time, MaybeTime
<1>2. LockHeld
  BY DEF Init, LockHeld, IdleTick, Tickers
<1>3. PlanIsCurrent /\ JobsAgree
  BY DEF Init, PlanIsCurrent, JobsAgree, IdleTick
<1>4. NotYetRecorded /\ ToldOnlyIfClosed
  BY DEF Init, NotYetRecorded, ToldOnlyIfClosed, Recorded, NoRow, None
<1> QED BY <1>1, <1>2, <1>3, <1>4 DEF IInv

\* A step that leaves the rows, the ticks and the lock alone keeps what IInv
\* says about them.
LEMMA Untouched ==
  ASSUME IInv, UNCHANGED <<row, tick, lock>>
  PROVE  LockHeld' /\ PlanIsCurrent' /\ JobsAgree'
BY DEF IInv, LockHeld, PlanIsCurrent, JobsAgree, Open, Recorded

LEMMA LogAlertStep ==
  ASSUME IInv, NEW a \in Alerts, NEW ok \in BOOLEAN, LogAlert(a, ok)
  PROVE  IInv'
<1>1. task \in [Alerts -> Tasks] /\ task' = [task EXCEPT ![a].pc = "logged"]
      /\ task[a].pc = "new"
  BY DEF IInv, TypeOK, LogAlert
<1>2. task' \in [Alerts -> Tasks]
  BY <1>1 DEF Tasks
<1>3. logged' \in SUBSET Alerts /\ faults' \in 0 .. MaxFaults
  BY BoundsAssumption DEF IInv, TypeOK, LogAlert, Fault, NoFault
<1>4. TypeOK'
  BY <1>2, <1>3 DEF IInv, TypeOK, LogAlert, phones
<1>5. NotYetRecorded'
  BY <1>1 DEF IInv, LogAlert, NotYetRecorded, Recorded, Tasks
<1>6. ToldOnlyIfClosed'
  BY DEF IInv, LogAlert, ToldOnlyIfClosed, Recorded, Open
<1> QED BY <1>4, <1>5, <1>6, Untouched DEF IInv, LogAlert

LEMMA CheckAlertStep ==
  ASSUME IInv, NEW a \in Alerts, NEW muted \in BOOLEAN, CheckAlert(a, muted)
  PROVE  IInv'
<1>1. /\ task \in [Alerts -> Tasks] /\ tier \in [Phones -> Tiers]
      /\ now \in MaybeTime /\ task[a].pc = "logged"
  BY DEF IInv, TypeOK, CheckAlert, MaybeTime
<1>2. PICK pc \in {"skipped", "checked"} :
        task' = [task EXCEPT ![a] = [@ EXCEPT !.pc = pc, !.at = now,
                                              !.roster = tier]]
  BY DEF CheckAlert
<1>3. task' \in [Alerts -> Tasks]
  BY <1>1, <1>2 DEF Tasks
<1>4. TypeOK'
  BY <1>3 DEF IInv, TypeOK, CheckAlert, world, phones
<1>5. NotYetRecorded'
  BY <1>1, <1>2 DEF IInv, CheckAlert, NotYetRecorded, Recorded, Tasks
<1>6. ToldOnlyIfClosed'
  BY DEF IInv, CheckAlert, ToldOnlyIfClosed, Recorded, Open
<1> QED BY <1>4, <1>5, <1>6, Untouched DEF IInv, CheckAlert

LEMMA StartPushStep ==
  ASSUME IInv, NEW a \in Alerts, StartPush(a)
  PROVE  IInv'
<1>1. /\ task \in [Alerts -> Tasks] /\ task[a].pc = "checked"
      /\ lastPush \in [{Key[b] : b \in Alerts} -> MaybeTime]
      /\ alarms \in [Alerts -> [Phones -> Nat]]
  BY DEF IInv, TypeOK, StartPush
<1>2. PICK targets \in SUBSET Phones :
        /\ task' = [task EXCEPT ![a] = [@ EXCEPT !.pc = "sending",
                                                 !.waiting = targets]]
        /\ alarms' = [alarms EXCEPT ![a] =
                        [p \in Phones |-> @[p] + IF p \in targets THEN 1 ELSE 0]]
  BY DEF IInv, TypeOK, StartPush, People, InTier
<1>3. task' \in [Alerts -> Tasks]
  BY <1>1, <1>2 DEF Tasks
<1>4. alarms' \in [Alerts -> [Phones -> Nat]]
  BY <1>1, <1>2
<1>5. lastPush' \in [{Key[b] : b \in Alerts} -> MaybeTime]
  <2>1. task[a].at \in MaybeTime
    BY <1>1 DEF Tasks
  <2> QED BY <1>1, <2>1 DEF StartPush
<1>6. TypeOK'
  BY <1>3, <1>4, <1>5 DEF IInv, TypeOK, StartPush, world, phones
<1>7. NotYetRecorded'
  BY <1>1, <1>2 DEF IInv, StartPush, NotYetRecorded, Recorded, Tasks
<1>8. ToldOnlyIfClosed'
  BY DEF IInv, StartPush, ToldOnlyIfClosed, Recorded, Open
<1> QED BY <1>6, <1>7, <1>8, Untouched DEF IInv, StartPush

\* One push changes what one phone shows, and perhaps drops its subscription.
LEMMA PushTypes ==
  ASSUME IInv, NEW a \in Alerts, NEW p \in Phones, NEW o \in Outcomes,
         NEW face \in {"alert", "handled"}, Push(a, p, o, face)
  PROVE  /\ shown' \in [Alerts -> [Phones -> {"none", "alert", "handled"}]]
         /\ subs' \in SUBSET Phones /\ faults' \in 0 .. MaxFaults
         /\ second' \in [Alerts -> SUBSET Phones] /\ resent' \in [Alerts -> [Phones -> Nat]]
         /\ UNCHANGED <<now, loopAt, crashes, edits, tier>>
         /\ \A b \in Alerts, q \in Phones :
              shown'[b][q] = shown[b][q] \/ (b = a /\ shown'[b][q] = face)
<1>1. /\ shown \in [Alerts -> [Phones -> {"none", "alert", "handled"}]]
      /\ subs \in SUBSET Phones /\ faults \in 0 .. MaxFaults
  BY DEF IInv, TypeOK
<1>2. \/ shown' = shown
      \/ shown' = [shown EXCEPT ![a][p] = face]
  BY DEF Push
<1>3. /\ shown' \in [Alerts -> [Phones -> {"none", "alert", "handled"}]]
      /\ \A b \in Alerts, q \in Phones :
              shown'[b][q] = shown[b][q] \/ (b = a /\ shown'[b][q] = face)
  <2>1. CASE shown' = shown
    BY <1>1, <2>1
  <2>2. CASE shown' = [shown EXCEPT ![a][p] = face]
    <3>1. [shown[a] EXCEPT ![p] = face] \in [Phones -> {"none", "alert", "handled"}]
      BY <1>1
    <3>2. shown' = [shown EXCEPT ![a] = [shown[a] EXCEPT ![p] = face]]
      BY <2>2
    <3> QED BY <1>1, <3>1, <3>2
  <2> QED BY <1>2, <2>1, <2>2
<1>4. subs' \in SUBSET Phones
  BY <1>1 DEF Push
<1>5. faults' \in 0 .. MaxFaults
  BY <1>1, BoundsAssumption DEF Push, Fault, NoFault
<1>6. second' \in [Alerts -> SUBSET Phones]
  BY DEF IInv, TypeOK, Push
<1>7. resent' \in [Alerts -> [Phones -> Nat]]
  <2>1. resent' = resent \/ resent' = [resent EXCEPT ![a] = [resent[a] EXCEPT ![p] = @ + 1]]
    BY DEF Push
  <2>2. resent \in [Alerts -> [Phones -> Nat]]
    BY DEF IInv, TypeOK
  <2>3. [resent[a] EXCEPT ![p] = @ + 1] \in [Phones -> Nat]
    BY <2>2
  <2> QED BY <2>1, <2>2, <2>3
<1> QED BY <1>3, <1>4, <1>5, <1>6, <1>7 DEF Push

LEMMA PushAlertStep ==
  ASSUME IInv, NEW a \in Alerts, NEW p \in Phones, NEW o \in Outcomes,
         PushAlert(a, p, o)
  PROVE  IInv'
<1>1. task \in [Alerts -> Tasks] /\ task[a].pc = "sending"
  BY DEF IInv, TypeOK, PushAlert
<1>2. task' = [task EXCEPT ![a] = Answered(@, a, p, o)]
  BY DEF PushAlert
<1>3. task' \in [Alerts -> Tasks]
  <2>1. Answered(task[a], a, p, o) \in Tasks
    <3>1. task[a] \in Tasks
      BY <1>1
    <3>2. CASE TryAgain(a, p, o)
      BY <3>1, <3>2 DEF Tasks, Answered
    <3>3. CASE ~TryAgain(a, p, o)
      BY <3>1, <3>3 DEF Tasks, Answered
    <3> QED BY <3>2, <3>3
  <2>2. task' = [task EXCEPT ![a] = Answered(task[a], a, p, o)]
    BY <1>2
  <2> QED BY <1>1, <2>1, <2>2
<1>4. /\ shown' \in [Alerts -> [Phones -> {"none", "alert", "handled"}]]
      /\ subs' \in SUBSET Phones /\ faults' \in 0 .. MaxFaults
      /\ second' \in [Alerts -> SUBSET Phones] /\ resent' \in [Alerts -> [Phones -> Nat]]
      /\ UNCHANGED <<now, loopAt, crashes, edits, tier>>
      /\ \A b \in Alerts, q \in Phones :
           shown'[b][q] = shown[b][q] \/ (b = a /\ shown'[b][q] = "alert")
  BY PushTypes DEF PushAlert
<1>5. TypeOK'
  BY <1>3, <1>4 DEF IInv, TypeOK, PushAlert
<1>6. NotYetRecorded'
  BY <1>1, <1>2 DEF IInv, PushAlert, NotYetRecorded, Recorded, Tasks, Answered
<1>7. ToldOnlyIfClosed'
  BY <1>4 DEF IInv, PushAlert, ToldOnlyIfClosed, Recorded, Open
<1> QED BY <1>5, <1>6, <1>7, Untouched DEF IInv, PushAlert

LEMMA CancelAlertStep ==
  ASSUME IInv, NEW a \in Alerts, CancelAlert(a)
  PROVE  IInv'
<1>1. task \in [Alerts -> Tasks] /\ task' = [task EXCEPT ![a].pc = "cancelled"]
  BY DEF IInv, TypeOK, CancelAlert
<1>2. task' \in [Alerts -> Tasks]
  BY <1>1 DEF Tasks
<1>3. faults' \in 0 .. MaxFaults /\ second' \in [Alerts -> SUBSET Phones]
  BY BoundsAssumption DEF IInv, TypeOK, CancelAlert, Fault
<1>4. TypeOK'
  BY <1>2, <1>3 DEF IInv, TypeOK, CancelAlert, phones
<1>5. NotYetRecorded'
  BY <1>1 DEF IInv, CancelAlert, NotYetRecorded, Recorded, Tasks
<1>6. ToldOnlyIfClosed'
  BY DEF IInv, CancelAlert, ToldOnlyIfClosed, Recorded, Open
<1> QED BY <1>4, <1>5, <1>6, Untouched DEF IInv, CancelAlert

\* A step that changes neither the rows nor what the ticks are sending nor the
\* coroutines of the alerts keeps all of IInv but its types.
LEMMA Elsewhere ==
  ASSUME IInv, UNCHANGED <<row, tick, lock, task, shown>>, TypeOK'
  PROVE  IInv'
<1>1. NotYetRecorded' /\ ToldOnlyIfClosed'
  BY DEF IInv, NotYetRecorded, ToldOnlyIfClosed, Recorded, Open
<1> QED BY <1>1, Untouched DEF IInv

\* Writing the row of an alert that had none.
LEMMA RecordAlertStep ==
  ASSUME IInv, NEW a \in Alerts, NEW ok \in BOOLEAN, RecordAlert(a, ok)
  PROVE  IInv'
<1>1. /\ task \in [Alerts -> Tasks] /\ row \in [Alerts -> Rows]
      /\ task[a].pc = "sending" /\ now \in Time /\ task[a] \in Tasks
      /\ ~Recorded(a)
  BY DEF IInv, TypeOK, RecordAlert, NotYetRecorded
<1>2. task' = [task EXCEPT ![a] = [NoTask EXCEPT !.pc = "done", !.at = task[a].at]]
  BY DEF RecordAlert
<1>3. task' \in [Alerts -> Tasks]
  BY <1>1, <1>2, RosterAssumption DEF Tasks, NoTask, MaybeTime
<1>4. faults' \in 0 .. MaxFaults
  BY BoundsAssumption DEF IInv, TypeOK, RecordAlert, Fault, NoFault
<1>5. EscalateAt(a) \in Nat \cup {None}
  <2>1. now \in Nat /\ now + Delay \in Nat
    BY <1>1, BoundsAssumption DEF Time
  <2>2. EscalateAt(a) \in {now, now + Delay, None}
    BY DEF EscalateAt
  <2> QED BY <2>1, <2>2
<1>6. NewRow(a) \in Rows
  <2>1. task[a].accepted \in SUBSET Phones
    BY <1>1 DEF Tasks
  <2>2. {None, now} \subseteq MaybeTime /\ 0 \in 0 .. MaxRepeats
    BY <1>1, BoundsAssumption DEF MaybeTime
  <2> QED BY <1>5, <2>1, <2>2 DEF NewRow, Rows
<1>7. row' \in [Alerts -> Rows] /\ \A b \in Alerts : b # a => row'[b] = row[b]
  BY <1>1, <1>6 DEF RecordAlert
<1>8. TypeOK'
  BY <1>3, <1>4, <1>7 DEF IInv, TypeOK, RecordAlert, phones
<1>9. \A b \in Alerts : b # a => row'[b] = row[b] /\ task'[b] = task[b]
  BY <1>1, <1>2, <1>7
<1>10. task'[a].pc = "done"
  BY <1>1, <1>2 DEF NoTask
<1>11. LockHeld'
  BY DEF IInv, LockHeld, RecordAlert
<1>12. \A t \in Tickers : tick[t] \in Ticks
  BY DEF IInv, TypeOK
<1>13. PlanIsCurrent' /\ JobsAgree'
  BY <1>1, <1>9, <1>12 DEF IInv, PlanIsCurrent, JobsAgree, RecordAlert, Open,
                           Recorded, Ticks, Plans, Jobs
<1>14. NotYetRecorded'
  BY <1>9, <1>10 DEF IInv, NotYetRecorded, Recorded
<1>15. ToldOnlyIfClosed'
  BY <1>1, <1>9 DEF IInv, ToldOnlyIfClosed, RecordAlert, Open, Recorded
<1> QED BY <1>8, <1>11, <1>13, <1>14, <1>15 DEF IInv

LEMMA DashboardAckStep ==
  ASSUME IInv, NEW r \in Requests, NEW a \in Alerts, DashboardAck(r, a)
  PROVE  IInv'
<1>1. req \in [Requests -> Reqs] /\ acked' \in SUBSET Alerts
  BY DEF IInv, TypeOK, DashboardAck
<1>2. \/ req' = req
      \/ req' = [req EXCEPT ![r] = [IdleReq EXCEPT !.pc = "tick", !.alert = a]]
  BY DEF DashboardAck
<1>3. [IdleReq EXCEPT !.pc = "tick", !.alert = a] \in Reqs
  BY DEF IdleReq, Reqs
<1>4. req' \in [Requests -> Reqs]
  BY <1>1, <1>2, <1>3
<1>5. TypeOK'
  BY <1>1, <1>4 DEF IInv, TypeOK, DashboardAck, world, phones
<1> QED BY <1>5, Elsewhere DEF DashboardAck

LEMMA PhoneAckReadStep ==
  ASSUME IInv, NEW r \in Requests, NEW a \in Alerts, NEW p \in Phones,
         PhoneAckRead(r, a, p)
  PROVE  IInv'
<1>1. req \in [Requests -> Reqs]
  BY DEF IInv, TypeOK
<1>2. PICK new \in Reqs : req' = [req EXCEPT ![r] = new]
  BY DEF PhoneAckRead, Reqs
<1>3. req' \in [Requests -> Reqs]
  BY <1>1, <1>2
<1>4. TypeOK'
  BY <1>3 DEF IInv, TypeOK, PhoneAckRead, world, phones
<1> QED BY <1>4, Elsewhere DEF PhoneAckRead

LEMMA PhoneAckWriteStep ==
  ASSUME IInv, NEW r \in Requests, PhoneAckWrite(r)
  PROVE  IInv'
<1>1. req \in [Requests -> Reqs] /\ req[r].pc = "mark"
      /\ req' = [req EXCEPT ![r].pc = "tick"]
  BY DEF IInv, TypeOK, PhoneAckWrite
<1>2. req' \in [Requests -> Reqs]
  BY <1>1 DEF Reqs, IdleReq
<1>3. acked' \in SUBSET Alerts
  BY DEF IInv, TypeOK, PhoneAckWrite
<1>4. TypeOK'
  BY <1>2, <1>3 DEF IInv, TypeOK, PhoneAckWrite, world, phones
<1> QED BY <1>4, Elsewhere DEF PhoneAckWrite

LEMMA AdvanceStep == ASSUME IInv, Advance PROVE IInv'
<1>1. now' \in Time
  BY BoundsAssumption DEF IInv, TypeOK, Advance, Time
<1>2. TypeOK'
  BY <1>1 DEF IInv, TypeOK, Advance, phones
<1> QED BY <1>2, Elsewhere DEF Advance

LEMMA EditRosterStep ==
  ASSUME IInv, NEW p \in Phones, NEW t \in Tiers, EditRoster(p, t)
  PROVE  IInv'
<1>1. edits' \in 0 .. MaxEdits
  BY BoundsAssumption DEF IInv, TypeOK, EditRoster
<1>2. tier' \in [Phones -> Tiers]
  BY DEF IInv, TypeOK, EditRoster
<1>3. TypeOK'
  BY <1>1, <1>2 DEF IInv, TypeOK, EditRoster
<1> QED BY <1>3, Elsewhere DEF EditRoster

LEMMA UnsubscribeStep ==
  ASSUME IInv, NEW p \in Phones, Unsubscribe(p)
  PROVE  IInv'
<1>1. edits' \in 0 .. MaxEdits
  BY BoundsAssumption DEF IInv, TypeOK, Unsubscribe
<1>2. TypeOK'
  BY <1>1 DEF IInv, TypeOK, Unsubscribe
<1> QED BY <1>2, Elsewhere DEF Unsubscribe

LEMMA CrashStep == ASSUME IInv, Crash PROVE IInv'
<1>1. crashes' \in 0 .. MaxCrashes
  BY BoundsAssumption DEF IInv, TypeOK, Crash
<1>2. task \in [Alerts -> Tasks]
  BY DEF IInv, TypeOK
<1>3. task' \in [Alerts -> Tasks]
  <2>1. \A a \in Alerts : [task[a] EXCEPT !.pc = "cancelled"] \in Tasks
    BY <1>2 DEF Tasks
  <2> QED BY <1>2, <2>1 DEF Crash
<1>4. IdleTick \in Ticks /\ IdleReq \in Reqs
  BY DEF IdleTick, IdleReq, Ticks, Reqs, MaybeTime, None
<1>5. tick' \in [Tickers -> Ticks] /\ req' \in [Requests -> Reqs]
  BY <1>4 DEF Crash
<1>6. /\ lastPush' \in [{Key[a] : a \in Alerts} -> MaybeTime]
      /\ second' \in [Alerts -> SUBSET Phones]
  BY DEF IInv, TypeOK, Crash, MaybeTime
<1>7. TypeOK'
  BY <1>1, <1>3, <1>5, <1>6 DEF IInv, TypeOK, Crash, phones
<1>8. LockHeld' /\ PlanIsCurrent' /\ JobsAgree'
  BY RosterAssumption DEF Crash, LockHeld, PlanIsCurrent, JobsAgree, IdleTick,
                          Tickers
<1>9. \A a \in Alerts : task'[a].pc \in {task[a].pc, "cancelled"}
  BY <1>2 DEF Crash, Tasks
<1>10. NotYetRecorded' /\ ToldOnlyIfClosed'
  BY <1>9 DEF IInv, Crash, NotYetRecorded, ToldOnlyIfClosed, Recorded, Open
<1> QED BY <1>7, <1>8, <1>10 DEF IInv

(***************************************************************************)
(* The ticks.                                                              *)
(***************************************************************************)
\* What a tick decides about a row.
LEMMA DecisionFacts ==
  ASSUME NEW a, NEW t
  PROVE  /\ Decision(a, t) \in JobKinds \cup {"expire", "leave"}
         /\ Decision(a, t) = "repeat" => row[a].count < MaxRepeats
BY DEF Decision, DueRepeat, JobKinds

\* A tick that is not at work has nothing planned and nothing to send, and a
\* tick at work is alone.
LEMMA Alone ==
  ASSUME IInv, NEW t \in Tickers
  PROVE  /\ tick[t] \in Ticks
         /\ lock = t => \A u \in Tickers \ {t} : tick[u].pc = "idle"
         /\ lock = None => \A u \in Tickers : tick[u].pc = "idle"
         /\ tick[t].pc = "idle" => tick[t].plan = {} /\ tick[t].jobs = {}
                                   /\ tick[t].doing = {}
BY RosterAssumption DEF IInv, TypeOK, LockHeld, Tickers

LEMMA TickReadStep ==
  ASSUME IInv, NEW t \in Tickers, TickRead(t)
  PROVE  IInv'
<1> DEFINE plan == {[what |-> Decision(a, now), alert |-> a] : a \in Scope(t)}
           new == [IdleTick EXCEPT !.pc = "read", !.at = now, !.plan = plan]
<1>1. tick \in [Tickers -> Ticks] /\ tick' = [tick EXCEPT ![t] = new] /\ lock' = t
      /\ lock = None /\ UNCHANGED row /\ now \in Time
  BY DEF IInv, TypeOK, TickRead, CanEnter
<1>2. Scope(t) \subseteq {a \in Alerts : Open(a)}
  <2>1. CASE t = Loop
    BY <2>1 DEF Scope
  <2>2. CASE t # Loop
    <3>1. t \in Requests /\ req[t].pc = "tick" /\ req[t] \in Reqs
      BY <2>2 DEF IInv, TypeOK, TickRead, CanEnter, WantsTick, Tickers
    <3>2. req[t].alert \in Alerts
      BY <3>1 DEF Reqs, IdleReq
    <3> QED BY <2>2, <3>2 DEF Scope
  <2> QED BY <2>1, <2>2
<1>3. plan \in SUBSET Plans
  BY <1>2, DecisionFacts DEF Plans
<1>4. /\ new.pc = "read" /\ new.at = now /\ new.plan = plan /\ new.jobs = {}
      /\ new.doing = {} /\ new.waiting = {} /\ new.accepted = {}
  BY DEF IdleTick
<1>5. new \in Ticks
  BY <1>1, <1>3 DEF IdleTick, Ticks, MaybeTime
<1>6. \A j \in plan : /\ Open(j.alert)
                      /\ j.what = "repeat" => row[j.alert].count < MaxRepeats
                      /\ \A k \in plan : k.alert = j.alert => k.what = j.what
  BY <1>2, DecisionFacts
<1> HIDE DEF plan, new
<1>7. tick' \in [Tickers -> Ticks] /\ tick'[t] = new
      /\ \A u \in Tickers \ {t} : tick'[u] = tick[u]
  BY <1>1, <1>5
<1>8. TypeOK'
  BY <1>1, <1>7 DEF IInv, TypeOK, TickRead, world, phones
<1>9. \A u \in Tickers \ {t} : tick'[u].pc = "idle" /\ tick'[u].plan = {}
                               /\ tick'[u].jobs = {} /\ tick'[u].doing = {}
  BY <1>1, <1>7, Alone
<1>10. LockHeld'
  BY <1>1, <1>4, <1>7, <1>9 DEF LockHeld
<1>11. PlanIsCurrent'
  BY <1>1, <1>4, <1>6, <1>7, <1>9 DEF PlanIsCurrent, Open, Recorded
<1>12. JobsAgree'
  BY <1>1, <1>4, <1>7, <1>9 DEF JobsAgree
<1>13. NotYetRecorded' /\ ToldOnlyIfClosed'
  BY DEF IInv, TickRead, NotYetRecorded, ToldOnlyIfClosed, Recorded, Open
<1> QED BY <1>8, <1>10, <1>11, <1>12, <1>13 DEF IInv

\* Closing a tick.
LEMMA EndTickFacts ==
  ASSUME IInv, NEW t \in Tickers, tick[t].pc # "idle", EndTick(t)
  PROVE  /\ tick' \in [Tickers -> Ticks] /\ req' \in [Requests -> Reqs]
         /\ loopAt' \in MaybeTime /\ lock' = None
         /\ \A u \in Tickers : tick'[u].pc = "idle" /\ tick'[u].plan = {}
                               /\ tick'[u].jobs = {} /\ tick'[u].doing = {}
<1>1. lock = t
  BY DEF IInv, LockHeld
<1>2. /\ tick \in [Tickers -> Ticks] /\ req \in [Requests -> Reqs]
      /\ now \in MaybeTime /\ loopAt \in MaybeTime
  BY DEF IInv, TypeOK, MaybeTime
<1>3. IdleTick \in Ticks /\ IdleReq \in Reqs
  BY DEF IdleTick, IdleReq, Ticks, Reqs, MaybeTime, None
<1>4. tick' = [tick EXCEPT ![t] = IdleTick]
  BY DEF EndTick
<1>5. req' = req \/ req' = [req EXCEPT ![t] = IdleReq]
  BY DEF EndTick
<1>6. req' \in [Requests -> Reqs]
  BY <1>2, <1>3, <1>5
<1>7. \A u \in Tickers : tick'[u].pc = "idle" /\ tick'[u].plan = {}
                         /\ tick'[u].jobs = {} /\ tick'[u].doing = {}
  <2>1. tick'[t] = IdleTick
    BY <1>2, <1>4
  <2>2. \A u \in Tickers \ {t} : tick'[u] = tick[u]
    BY <1>2, <1>4
  <2> QED BY <1>1, <2>1, <2>2, Alone DEF IdleTick
<1> QED BY <1>2, <1>3, <1>4, <1>6, <1>7 DEF EndTick

LEMMA EndTickStep ==
  ASSUME IInv, NEW t \in Tickers, tick[t].pc # "idle", EndTick(t),
         UNCHANGED <<now, crashes, edits, phones, lastPush, task, row, logged,
                     acked, shown, alarms, second, resent>>,
         faults' \in 0 .. MaxFaults
  PROVE  IInv'
<1>1. TypeOK'
  BY EndTickFacts DEF IInv, TypeOK, phones
<1>2. LockHeld'
  BY EndTickFacts, RosterAssumption DEF LockHeld, Tickers
<1>3. PlanIsCurrent' /\ JobsAgree'
  BY EndTickFacts DEF PlanIsCurrent, JobsAgree
<1>4. NotYetRecorded' /\ ToldOnlyIfClosed'
  BY DEF IInv, NotYetRecorded, ToldOnlyIfClosed, Recorded, Open
<1> QED BY <1>1, <1>2, <1>3, <1>4 DEF IInv

LEMMA TickAbortStep ==
  ASSUME IInv, NEW t \in Tickers, TickAbort(t)
  PROVE  IInv'
<1>1. faults' \in 0 .. MaxFaults
  BY BoundsAssumption DEF IInv, TypeOK, TickAbort, Fault
<1> QED BY <1>1, EndTickStep DEF TickAbort

LEMMA TickEndStep ==
  ASSUME IInv, NEW t \in Tickers, TickEnd(t)
  PROVE  IInv'
BY EndTickStep DEF TickEnd, IInv, TypeOK

\* What the commit of a tick does to the row of one alert.
LEMMA RowAfterFacts ==
  ASSUME IInv, NEW t \in Tickers, tick[t].pc = "read", NEW a \in Alerts
  PROVE  /\ RowAfter(t, a) \in Rows
         /\ RowAfter(t, a).created = row[a].created
         /\ RowAfter(t, a).closedAt =
              IF \E j \in tick[t].plan : j.alert = a /\ j.what \in {"expire", "handled"}
              THEN tick[t].at ELSE row[a].closedAt
         /\ RowAfter(t, a) # row[a] => Open(a)
<1>1. /\ row[a] \in Rows /\ tick[t].at \in Time /\ tick[t].plan \in SUBSET Plans
  BY DEF IInv, TypeOK, LockHeld, Ticks
<1>2. \A j \in tick[t].plan :
         /\ Open(j.alert)
         /\ j.what = "repeat" => row[j.alert].count < MaxRepeats
  BY DEF IInv, PlanIsCurrent
<1>3. \A w : w \in Planned(t, a) <=> \E j \in tick[t].plan : j.alert = a /\ j.what = w
  BY DEF Planned
<1> DEFINE d == Planned(t, a)
           r == row[a]
           at == tick[t].at
<1>4. tick[t].at \in MaybeTime
  BY <1>1 DEF MaybeTime
<1>5. CASE d \cap {"expire", "handled"} # {}
  <2>1. RowAfter(t, a) = [r EXCEPT !.closedAt = at]
    BY <1>5 DEF RowAfter
  <2> QED BY <1>1, <1>2, <1>3, <1>4, <1>5, <2>1 DEF Rows
<1>6. CASE d \cap {"expire", "handled"} = {} /\ "escalate" \in d
  <2>1. RowAfter(t, a) = [r EXCEPT !.escalatedAt = at]
    BY <1>6 DEF RowAfter
  <2> QED BY <1>1, <1>2, <1>3, <1>4, <1>6, <2>1 DEF Rows
<1>7. CASE d \cap {"expire", "handled"} = {} /\ "escalate" \notin d /\ "repeat" \in d
  <2>1. RowAfter(t, a) = [r EXCEPT !.count = @ + 1, !.lastAt = at]
    BY <1>7 DEF RowAfter
  <2>2. r.count + 1 \in 0 .. MaxRepeats
    BY <1>1, <1>2, <1>3, <1>7, BoundsAssumption DEF Rows
  <2> DEFINE n == r.count + 1
  <2>3. RowAfter(t, a) = [r EXCEPT !.count = n, !.lastAt = at]
    BY <1>1, <2>1 DEF Rows
  <2>4. n \in 0 .. MaxRepeats
    BY <2>2
  <2> HIDE DEF n
  <2>5. /\ RowAfter(t, a) \in Rows
        /\ RowAfter(t, a).created = r.created
        /\ RowAfter(t, a).closedAt = r.closedAt
    BY <1>1, <1>4, <2>3, <2>4 DEF Rows
  <2> QED BY <1>2, <1>3, <1>7, <2>5
<1>8. CASE d \cap {"expire", "handled", "escalate", "repeat"} = {}
  <2>1. RowAfter(t, a) = r
    BY <1>8 DEF RowAfter
  <2> QED BY <1>1, <1>3, <1>8, <2>1
<1> QED BY <1>5, <1>6, <1>7, <1>8

LEMMA TickCommitStep ==
  ASSUME IInv, NEW t \in Tickers, TickCommit(t)
  PROVE  IInv'
<1> DEFINE jobs == {[what |-> j.what, alert |-> j.alert,
                     already |-> row[j.alert].sentTo] : j \in FollowUps(t)}
           new == [IdleTick EXCEPT !.pc = "follow", !.jobs = jobs]
<1>1. /\ tick \in [Tickers -> Ticks] /\ tick' = [tick EXCEPT ![t] = new]
      /\ tick[t].pc = "read" /\ tick[t].plan \in SUBSET Plans
      /\ tick[t].at \in Time /\ tick[t].at # None
  BY BoundsAssumption DEF IInv, TypeOK, TickCommit, LockHeld, Ticks, Time, None
<1>2. row' = [a \in Alerts |-> RowAfter(t, a)] /\ row \in [Alerts -> Rows]
      /\ lock' = lock
  BY DEF IInv, TypeOK, TickCommit
<1>3. lock = t /\ \A u \in Tickers \ {t} :
                     tick[u].pc = "idle" /\ tick[u].plan = {} /\ tick[u].jobs = {}
                     /\ tick[u].doing = {}
  BY <1>1, Alone DEF IInv, LockHeld
<1>4. row' \in [Alerts -> Rows]
  BY <1>1, <1>2, RowAfterFacts
<1>5. \A j \in FollowUps(t) : j \in tick[t].plan /\ j.what \in JobKinds
  BY DEF FollowUps, JobKinds
<1>6. jobs \in SUBSET Jobs
  <2>1. \A a \in Alerts : row[a].sentTo \in SUBSET Phones
    BY <1>2 DEF Rows
  <2> QED BY <1>1, <1>5, <2>1 DEF Jobs, Plans
<1>7. /\ new.pc = "follow" /\ new.plan = {} /\ new.jobs = jobs /\ new.doing = {}
  BY DEF IdleTick
<1>8. new \in Ticks
  BY <1>6 DEF IdleTick, Ticks, MaybeTime
<1>9. \A j \in jobs : \E k \in tick[t].plan :
         j.alert = k.alert /\ j.what = k.what /\ k.what \in JobKinds
  BY <1>5
<1> HIDE DEF new, jobs
<1>10. tick' \in [Tickers -> Ticks] /\ tick'[t] = new
       /\ \A u \in Tickers \ {t} : tick'[u] = tick[u]
  BY <1>1, <1>8
<1>11. TypeOK'
  BY <1>4, <1>10 DEF IInv, TypeOK, TickCommit, world, phones
<1>12. LockHeld'
  BY <1>1, <1>2, <1>3, <1>7, <1>10 DEF LockHeld
<1>13. PlanIsCurrent'
  BY <1>3, <1>7, <1>10 DEF PlanIsCurrent
<1>14. \A a \in Alerts :
         /\ row'[a].created = row[a].created
         /\ row'[a].closedAt =
              IF \E j \in tick[t].plan : j.alert = a /\ j.what \in {"expire", "handled"}
              THEN tick[t].at ELSE row[a].closedAt
         /\ row'[a] # row[a] => Open(a)
  BY <1>1, <1>2, RowAfterFacts
<1>15. \A j \in tick[t].plan :
         /\ Open(j.alert) /\ j.alert \in Alerts
         /\ \A k \in tick[t].plan : k.alert = j.alert => k.what = j.what
  BY <1>1 DEF IInv, PlanIsCurrent, Plans
<1>16. JobsAgree'
  <2>1. ASSUME NEW j \in jobs
        PROVE  /\ row'[j.alert].created # None
               /\ j.what = "handled" <=> row'[j.alert].closedAt # None
    <3>1. PICK k \in tick[t].plan : j.alert = k.alert /\ j.what = k.what
                                    /\ k.what \in JobKinds
      BY <1>9, <2>1
    <3>2. Open(k.alert) /\ k.alert \in Alerts
      BY <1>15
    <3>3. row'[k.alert].created # None
      BY <1>14, <3>2 DEF Open, Recorded
    <3>4. CASE k.what = "handled"
      BY <1>1, <1>14, <3>1, <3>2, <3>3, <3>4
    <3>5. CASE k.what # "handled"
      <4>1. ~ \E m \in tick[t].plan : m.alert = k.alert /\ m.what \in {"expire", "handled"}
        BY <1>15, <3>1, <3>5 DEF JobKinds
      <4> QED BY <1>14, <3>1, <3>2, <3>3, <3>5, <4>1 DEF Open
    <3> QED BY <3>4, <3>5
  <2> QED BY <1>3, <1>7, <1>10, <2>1 DEF JobsAgree, Recorded
<1>17. NotYetRecorded'
  BY <1>14 DEF IInv, TickCommit, NotYetRecorded, Recorded
<1>18. ToldOnlyIfClosed'
  BY <1>1, <1>14 DEF IInv, TickCommit, ToldOnlyIfClosed, Recorded, Open
<1> QED BY <1>11, <1>12, <1>13, <1>16, <1>17, <1>18 DEF IInv

\* A step of a tick that leaves the rows' closing alone.
LEMMA FollowUpFrame ==
  ASSUME IInv, NEW t \in Tickers, NEW new \in Ticks,
         tick[t].pc = "follow", tick' = [tick EXCEPT ![t] = new],
         new.pc = "follow", new.plan = {}, new.jobs \subseteq tick[t].jobs,
         new.doing \subseteq new.jobs, UNCHANGED <<lock, task>>,
         \A a \in Alerts : /\ row'[a].created = row[a].created
                           /\ row'[a].closedAt = row[a].closedAt
  PROVE  /\ tick' \in [Tickers -> Ticks] /\ LockHeld' /\ PlanIsCurrent'
         /\ JobsAgree' /\ NotYetRecorded'
<1>1. tick \in [Tickers -> Ticks]
  BY DEF IInv, TypeOK
<1>2. tick' \in [Tickers -> Ticks] /\ tick'[t] = new
      /\ \A u \in Tickers \ {t} : tick'[u] = tick[u]
  BY <1>1
<1>3. LockHeld'
  BY <1>2 DEF IInv, LockHeld
<1>4. \A u \in Tickers \ {t} : tick'[u].plan = {} /\ tick'[u].jobs = {}
  BY <1>2, Alone DEF IInv, LockHeld
<1>5. PlanIsCurrent'
  BY <1>2, <1>4 DEF PlanIsCurrent
<1>6. \A j \in tick[t].jobs : j.alert \in Alerts
  BY <1>1 DEF Ticks, Jobs
<1>7. JobsAgree'
  BY <1>2, <1>4, <1>6 DEF IInv, JobsAgree, Recorded
<1>8. NotYetRecorded'
  BY DEF IInv, NotYetRecorded, Recorded
<1> QED BY <1>2, <1>3, <1>5, <1>7, <1>8

LEMMA StartFollowUpStep ==
  ASSUME IInv, NEW t \in Tickers, NEW j \in tick[t].jobs, StartFollowUp(t, j)
  PROVE  IInv'
<1> DEFINE new == [tick[t] EXCEPT !.doing = {j}, !.waiting = Targets(j)]
<1>1. tick[t] \in Ticks /\ tick[t].pc = "follow" /\ tick' = [tick EXCEPT ![t] = new]
      /\ alarms \in [Alerts -> [Phones -> Nat]]
  BY DEF IInv, TypeOK, StartFollowUp
<1>2. j \in Jobs
  BY <1>1 DEF Ticks
<1>3. Targets(j) \in SUBSET Phones
  BY <1>2 DEF Targets, IInv, TypeOK, InTier, People, Jobs, JobKinds
<1>4. new \in Ticks /\ new.pc = "follow" /\ new.plan = {} /\ new.jobs = tick[t].jobs
      /\ new.doing = {j}
  BY <1>1, <1>2, <1>3 DEF Ticks, IInv, LockHeld
<1>5. alarms' \in [Alerts -> [Phones -> Nat]]
  <2>1. j.alert \in Alerts
    BY <1>2 DEF Jobs
  <2>2. \A T \in SUBSET Phones :
          [alarms EXCEPT ![j.alert] = [p \in Phones |-> @[p] + IF p \in T THEN 1 ELSE 0]]
            \in [Alerts -> [Phones -> Nat]]
    BY <1>1, <2>1
  <2> QED BY <1>1, <1>3, <2>2 DEF StartFollowUp
<1> HIDE DEF new
<1>6. /\ tick' \in [Tickers -> Ticks] /\ LockHeld' /\ PlanIsCurrent'
      /\ JobsAgree' /\ NotYetRecorded'
  BY <1>1, <1>4, FollowUpFrame DEF StartFollowUp
<1>7. TypeOK'
  BY <1>5, <1>6 DEF IInv, TypeOK, StartFollowUp, world, phones
<1>8. ToldOnlyIfClosed'
  BY DEF IInv, StartFollowUp, ToldOnlyIfClosed, Recorded, Open
<1> QED BY <1>6, <1>7, <1>8 DEF IInv

LEMMA SendFollowUpStep ==
  ASSUME IInv, NEW t \in Tickers, NEW j \in tick[t].jobs, NEW p \in Phones,
         NEW o \in Outcomes, SendFollowUp(t, j, p, o)
  PROVE  IInv'
<1> DEFINE new == Answered(tick[t], j.alert, p, o)
           face == IF j.what = "handled" THEN "handled" ELSE "alert"
<1>1. tick[t] \in Ticks /\ tick[t].pc = "follow" /\ tick' = [tick EXCEPT ![t] = new]
  BY DEF IInv, TypeOK, SendFollowUp
<1>2. j \in Jobs /\ j.alert \in Alerts
  BY <1>1 DEF Ticks, Jobs
<1>3. new \in Ticks /\ new.pc = "follow" /\ new.plan = {} /\ new.jobs = tick[t].jobs
      /\ new.doing \subseteq new.jobs
  BY <1>1 DEF Ticks, IInv, LockHeld, Answered
<1>4. /\ shown' \in [Alerts -> [Phones -> {"none", "alert", "handled"}]]
      /\ subs' \in SUBSET Phones /\ faults' \in 0 .. MaxFaults
      /\ second' \in [Alerts -> SUBSET Phones] /\ resent' \in [Alerts -> [Phones -> Nat]]
      /\ UNCHANGED <<now, loopAt, crashes, edits, tier>>
      /\ \A b \in Alerts, q \in Phones :
           shown'[b][q] = shown[b][q] \/ (b = j.alert /\ shown'[b][q] = face)
  <2>1. Push(j.alert, p, o, face) /\ face \in {"alert", "handled"}
    BY DEF SendFollowUp
  <2> HIDE DEF face
  <2> QED BY <1>2, <2>1, PushTypes
<1> HIDE DEF new
<1>5. /\ tick' \in [Tickers -> Ticks] /\ LockHeld' /\ PlanIsCurrent'
      /\ JobsAgree' /\ NotYetRecorded'
  BY <1>1, <1>3, FollowUpFrame DEF SendFollowUp
<1>6. TypeOK'
  BY <1>4, <1>5 DEF IInv, TypeOK, SendFollowUp
<1>7. ToldOnlyIfClosed'
  <2>1. j.what = "handled" => Recorded(j.alert) /\ ~Open(j.alert)
    BY DEF IInv, JobsAgree, Open
  <2>2. ASSUME NEW b \in Alerts, NEW q \in Phones, shown'[b][q] = "handled"
        PROVE  Recorded(b) /\ ~Open(b)
    <3>1. CASE shown'[b][q] = shown[b][q]
      BY <2>2, <3>1 DEF IInv, ToldOnlyIfClosed
    <3>2. CASE b = j.alert /\ shown'[b][q] = face
      BY <2>1, <2>2, <3>2
    <3> QED BY <1>4, <3>1, <3>2
  <2>3. UNCHANGED row
    BY DEF SendFollowUp
  <2> QED BY <2>2, <2>3 DEF ToldOnlyIfClosed, Recorded, Open
<1> QED BY <1>5, <1>6, <1>7 DEF IInv

LEMMA DoneFacts ==
  ASSUME IInv, NEW t \in Tickers, NEW j \in tick[t].jobs, FollowUpDone(t, j),
         tick[t].pc = "follow"
  PROVE  \E new \in Ticks :
           /\ tick' = [tick EXCEPT ![t] = new] /\ new.pc = "follow"
           /\ new.plan = {} /\ new.jobs \subseteq tick[t].jobs
           /\ new.doing \subseteq new.jobs
<1> DEFINE new == Without(tick[t], j)
<1>1. tick[t] \in Ticks /\ tick' = [tick EXCEPT ![t] = new]
  BY DEF IInv, TypeOK, FollowUpDone
<1>2. new \in Ticks /\ new.pc = "follow" /\ new.plan = {} /\ new.doing = {}
      /\ new.jobs \subseteq tick[t].jobs
  BY <1>1 DEF Ticks, IInv, LockHeld, Without
<1> HIDE DEF new
<1> QED BY <1>1, <1>2

LEMMA EndFollowUpStep ==
  ASSUME IInv, NEW t \in Tickers, NEW j \in tick[t].jobs, EndFollowUp(t, j)
  PROVE  IInv'
<1>1. tick[t] \in Ticks /\ tick[t].pc = "follow" /\ row \in [Alerts -> Rows]
      /\ row' = [row EXCEPT ![j.alert].sentTo = Listed(t, j)]
  BY DEF IInv, TypeOK, EndFollowUp
<1>2. j.alert \in Alerts /\ tick[t].accepted \in SUBSET Phones
  BY <1>1 DEF Ticks, Jobs
<1>3. Listed(t, j) \in SUBSET Phones
  <2>1. row[j.alert].sentTo \in SUBSET Phones
    BY <1>1, <1>2 DEF Rows
  <2> QED BY <1>2, <2>1 DEF Listed
<1>4. row' \in [Alerts -> Rows]
  BY <1>1, <1>2, <1>3 DEF Rows
<1>5. \A a \in Alerts : /\ row'[a].created = row[a].created
                        /\ row'[a].closedAt = row[a].closedAt
  BY <1>1, <1>2 DEF Rows
<1>6. /\ tick' \in [Tickers -> Ticks] /\ LockHeld' /\ PlanIsCurrent'
      /\ JobsAgree' /\ NotYetRecorded'
  BY <1>1, <1>5, DoneFacts, FollowUpFrame DEF EndFollowUp
<1>7. TypeOK'
  BY <1>4, <1>6 DEF IInv, TypeOK, EndFollowUp, world, phones
<1>8. ToldOnlyIfClosed'
  BY <1>5 DEF IInv, EndFollowUp, ToldOnlyIfClosed, Recorded, Open
<1> QED BY <1>6, <1>7, <1>8 DEF IInv

LEMMA FailFollowUpStep ==
  ASSUME IInv, NEW t \in Tickers, NEW j \in tick[t].jobs, FailFollowUp(t, j)
  PROVE  IInv'
<1>1. faults' \in 0 .. MaxFaults
  BY BoundsAssumption DEF IInv, TypeOK, FailFollowUp, Fault
<1>2. /\ tick' \in [Tickers -> Ticks] /\ LockHeld' /\ PlanIsCurrent'
      /\ JobsAgree' /\ NotYetRecorded'
  BY DoneFacts, FollowUpFrame DEF FailFollowUp
<1>3. TypeOK'
  BY <1>1, <1>2 DEF IInv, TypeOK, FailFollowUp, phones
<1>4. ToldOnlyIfClosed'
  BY DEF IInv, FailFollowUp, ToldOnlyIfClosed, Recorded, Open
<1> QED BY <1>2, <1>3, <1>4 DEF IInv

(***************************************************************************)
(* The theorems.                                                           *)
(***************************************************************************)
LEMMA NextIInv == IInv /\ [Next]_vars => IInv'
<1> SUFFICES ASSUME IInv, [Next]_vars PROVE IInv'
  OBVIOUS
<1>1. ASSUME NEW a \in Alerts, AlertStep(a) PROVE IInv'
  BY <1>1, LogAlertStep, RecordAlertStep, CheckAlertStep, StartPushStep,
     PushAlertStep DEF AlertStep
<1>2. ASSUME NEW t \in Tickers, TickStep(t) PROVE IInv'
  <2>1. ASSUME NEW j \in tick[t].jobs,
               StartFollowUp(t, j) \/ EndFollowUp(t, j)
                 \/ \E p \in Phones, o \in Outcomes : SendFollowUp(t, j, p, o)
        PROVE IInv'
    BY <2>1, StartFollowUpStep, EndFollowUpStep, SendFollowUpStep
  <2> QED
    BY <1>2, <2>1, TickReadStep, TickCommitStep, TickEndStep DEF TickStep
<1>3. ASSUME NEW t \in Tickers, TickAbort(t) PROVE IInv'
  BY <1>3, TickAbortStep
<1>4. ASSUME NEW t \in Tickers, NEW j \in tick[t].jobs, FailFollowUp(t, j) PROVE IInv'
  BY <1>4, FailFollowUpStep
<1>5. ASSUME NEW a \in Alerts, CancelAlert(a) PROVE IInv'
  BY <1>5, CancelAlertStep
<1>6. ASSUME NEW r \in Requests, NEW a \in Alerts, DashboardAck(r, a) PROVE IInv'
  BY <1>6, DashboardAckStep
<1>7. ASSUME NEW r \in Requests, NEW a \in Alerts, NEW p \in Phones,
             PhoneAckRead(r, a, p)
      PROVE IInv'
  BY <1>7, PhoneAckReadStep
<1>8. ASSUME NEW r \in Requests, PhoneAckWrite(r) PROVE IInv'
  BY <1>8, PhoneAckWriteStep
<1>9. ASSUME NEW p \in Phones, Unsubscribe(p) \/ \E t \in Tiers : EditRoster(p, t)
      PROVE IInv'
  BY <1>9, UnsubscribeStep, EditRosterStep
<1>10. CASE UNCHANGED vars
  <2>1. TypeOK'
    BY <1>10 DEF IInv, TypeOK, vars, world, phones
  <2> QED BY <1>10, <2>1, Elsewhere DEF vars
<1> QED
  BY <1>1, <1>2, <1>3, <1>4, <1>5, <1>6, <1>7, <1>8, <1>9, <1>10, AdvanceStep,
     CrashStep DEF Next

\* The lock discipline of the escalation worker, for any number of alerts,
\* phones and acknowledgement requests.
THEOREM Invariance == Spec => []IInv
<1>1. Init => IInv
  BY InitIInv
<1>2. IInv /\ [Next]_vars => IInv'
  BY NextIInv
<1> QED BY <1>1, <1>2, PTL DEF Spec

\* Every variable keeps its type; no row counts more than MaxRepeats reminders.
THEOREM TypeCorrect == Spec => []TypeOK
<1>1. IInv => TypeOK
  BY DEF IInv
<1> QED BY <1>1, Invariance, PTL

\* A tick never prepares an escalation or a reminder for an alert that is
\* already acknowledged and closed.
THEOREM NoFollowUpOnClosedHolds == Spec => []NoFollowUpOnClosed
<1>1. IInv => NoFollowUpOnClosed
  BY DEF IInv, JobsAgree, NoFollowUpOnClosed
<1> QED BY <1>1, Invariance, PTL

\* Rows are only written open: an action either leaves the row of a closed
\* alert alone or has read it while it was open.
LEMMA ClosedRowStep ==
  ASSUME IInv, [Next]_vars, NEW a \in Alerts, Recorded(a), ~Open(a)
  PROVE  row'[a] = row[a]
<1>1. ASSUME NEW b \in Alerts, NEW ok \in BOOLEAN, RecordAlert(b, ok)
      PROVE  row'[a] = row[a]
  <2>1. ~Recorded(b) /\ row \in [Alerts -> Rows]
    BY <1>1 DEF RecordAlert, IInv, TypeOK, NotYetRecorded
  <2> QED BY <1>1, <2>1 DEF RecordAlert
<1>2. ASSUME NEW t \in Tickers, TickCommit(t) PROVE row'[a] = row[a]
  <2>1. tick[t].pc = "read" /\ row' = [b \in Alerts |-> RowAfter(t, b)]
    BY <1>2 DEF TickCommit
  <2> QED BY <2>1, RowAfterFacts
<1>3. ASSUME NEW t \in Tickers, NEW j \in tick[t].jobs, EndFollowUp(t, j)
      PROVE  row'[a] = row[a]
  <2>1. row \in [Alerts -> Rows] /\ tick[t] \in Ticks
        /\ row' = [row EXCEPT ![j.alert].sentTo = Listed(t, j)]
    BY <1>3 DEF EndFollowUp, IInv, TypeOK
  <2>2. j.alert \in Alerts
    BY <2>1 DEF Ticks, Jobs
  <2>3. CASE j.alert # a
    BY <2>1, <2>2, <2>3
  <2>4. CASE j.alert = a
    <3>1. j.what = "handled"
      BY <2>4 DEF IInv, JobsAgree, Open
    <3>2. row' = [row EXCEPT ![a].sentTo = row[a].sentTo]
      BY <2>1, <2>4, <3>1 DEF Listed
    <3> QED BY <2>1, <3>2 DEF Rows
  <2> QED BY <2>3, <2>4
<1>4. ASSUME NEW t \in Tickers, TickStep(t) PROVE row'[a] = row[a]
  <2>1. CASE TickRead(t) \/ TickEnd(t) \/ \E j \in tick[t].jobs :
               StartFollowUp(t, j)
               \/ \E p \in Phones, o \in Outcomes : SendFollowUp(t, j, p, o)
    BY <2>1 DEF TickRead, TickEnd, StartFollowUp, SendFollowUp
  <2> QED BY <1>2, <1>3, <1>4, <2>1 DEF TickStep
<1>5. ASSUME NEW b \in Alerts, AlertStep(b) PROVE row'[a] = row[a]
  <2>1. CASE \/ \E ok \in BOOLEAN : LogAlert(b, ok)
             \/ \E muted \in BOOLEAN : CheckAlert(b, muted)
             \/ StartPush(b)
             \/ \E p \in Phones, o \in Outcomes : PushAlert(b, p, o)
    BY <2>1 DEF LogAlert, CheckAlert, StartPush, PushAlert
  <2> QED BY <1>1, <1>5, <2>1 DEF AlertStep
<1>6. CASE \/ \E b \in Alerts : CancelAlert(b)
           \/ \E t \in Tickers : TickAbort(t) \/ \E j \in tick[t].jobs : FailFollowUp(t, j)
           \/ \E r \in Requests : PhoneAckWrite(r)
           \/ \E r \in Requests, b \in Alerts :
                DashboardAck(r, b) \/ \E p \in Phones : PhoneAckRead(r, b, p)
           \/ Advance
           \/ \E p \in Phones : Unsubscribe(p) \/ \E t \in Tiers : EditRoster(p, t)
           \/ Crash \/ UNCHANGED vars
  BY <1>6 DEF CancelAlert, TickAbort, FailFollowUp, PhoneAckWrite, DashboardAck,
              PhoneAckRead, Advance, Unsubscribe, EditRoster, Crash, vars
<1> QED BY <1>4, <1>5, <1>6 DEF Next

\* The whole row of a closed alert is final.
ClosedIsFinal ==
  [][\A a \in Alerts : Recorded(a) /\ ~Open(a) => row'[a] = row[a]]_vars

\* A closed row never changes again, whatever ticks, acknowledgements and
\* crashes overlap with its closing.
THEOREM ClosedIsFinalHolds == Spec => ClosedIsFinal
<1>1. IInv /\ [Next]_vars
        => [\A a \in Alerts : Recorded(a) /\ ~Open(a) => row'[a] = row[a]]_vars
  BY ClosedRowStep
<1> QED BY <1>1, Invariance, PTL DEF Spec, ClosedIsFinal

\* A phone that shows an alert as handled is sent nothing louder: what is still
\* being sent for its alert is the notice itself.
LEMMA HandledStep ==
  ASSUME IInv, [Next]_vars, NEW a \in Alerts, NEW q \in Phones,
         shown[a][q] = "handled"
  PROVE  shown'[a][q] = "handled"
<1>1. Recorded(a) /\ ~Open(a)
  BY DEF IInv, ToldOnlyIfClosed
<1>2. ASSUME NEW b \in Alerts, NEW p \in Phones, NEW o \in Outcomes, PushAlert(b, p, o)
      PROVE  shown'[a][q] = "handled"
  <2>1. b # a
    BY <1>1, <1>2 DEF IInv, NotYetRecorded, PushAlert
  <2>2. shown'[a][q] = shown[a][q] \/ (a = b /\ shown'[a][q] = "alert")
    BY <1>2, PushTypes DEF PushAlert
  <2> QED BY <2>1, <2>2
<1>3. ASSUME NEW t \in Tickers, NEW j \in tick[t].jobs, NEW p \in Phones,
             NEW o \in Outcomes, SendFollowUp(t, j, p, o)
      PROVE  shown'[a][q] = "handled"
  <2> DEFINE face == IF j.what = "handled" THEN "handled" ELSE "alert"
  <2>1. j.alert = a => face = "handled"
    BY <1>1 DEF IInv, JobsAgree, Open
  <2>2. face \in {"alert", "handled"}
    OBVIOUS
  <2>3. j.alert \in Alerts
    BY DEF IInv, TypeOK, Ticks, Jobs
  <2>4. Push(j.alert, p, o, face)
    BY <1>3 DEF SendFollowUp
  <2> HIDE DEF face
  <2>5. shown'[a][q] = shown[a][q] \/ (a = j.alert /\ shown'[a][q] = face)
    BY <2>2, <2>3, <2>4, PushTypes
  <2> QED BY <2>1, <2>5
<1>4. ASSUME NEW t \in Tickers, TickStep(t) PROVE shown'[a][q] = "handled"
  <2>1. CASE TickRead(t) \/ TickCommit(t) \/ TickEnd(t) \/ \E j \in tick[t].jobs :
               StartFollowUp(t, j) \/ EndFollowUp(t, j)
    BY <2>1 DEF TickRead, TickCommit, TickEnd, StartFollowUp, EndFollowUp
  <2> QED BY <1>3, <1>4, <2>1 DEF TickStep
<1>5. ASSUME NEW b \in Alerts, AlertStep(b) PROVE shown'[a][q] = "handled"
  <2>1. CASE \/ \E ok \in BOOLEAN : LogAlert(b, ok) \/ RecordAlert(b, ok)
             \/ \E muted \in BOOLEAN : CheckAlert(b, muted)
             \/ StartPush(b)
    BY <2>1 DEF LogAlert, RecordAlert, CheckAlert, StartPush
  <2> QED BY <1>2, <1>5, <2>1 DEF AlertStep
<1>6. CASE \/ \E b \in Alerts : CancelAlert(b)
           \/ \E t \in Tickers : TickAbort(t) \/ \E j \in tick[t].jobs : FailFollowUp(t, j)
           \/ \E r \in Requests : PhoneAckWrite(r)
           \/ \E r \in Requests, b \in Alerts :
                DashboardAck(r, b) \/ \E p \in Phones : PhoneAckRead(r, b, p)
           \/ Advance
           \/ \E p \in Phones : Unsubscribe(p) \/ \E t \in Tiers : EditRoster(p, t)
           \/ Crash \/ UNCHANGED vars
  BY <1>6 DEF CancelAlert, TickAbort, FailFollowUp, PhoneAckWrite, DashboardAck,
              PhoneAckRead, Advance, Unsubscribe, EditRoster, Crash, vars
<1> QED BY <1>4, <1>5, <1>6 DEF Next

\* A phone that was told an alert is handled shows nothing else about it later.
HandledStays ==
  [][\A a \in Alerts, p \in Phones :
       shown[a][p] = "handled" => shown'[a][p] = "handled"]_vars

\* Nobody who was told that an alert is handled is alarmed for it again.
THEOREM HandledStaysHolds == Spec => HandledStays
<1>1. IInv /\ [Next]_vars
        => [\A a \in Alerts, p \in Phones :
              shown[a][p] = "handled" => shown'[a][p] = "handled"]_vars
  BY HandledStep
<1> QED BY <1>1, Invariance, PTL DEF Spec, HandledStays

-----------------------------------------------------------------------------
(***************************************************************************)
(* PushAlerts implements AlertLifecycle.  Beside IInv this needs what      *)
(* justifies the work of a tick: an escalation it plans has not been made, *)
(* and a notice it plans or sends is about an acknowledged alert and goes  *)
(* to phones on the alert's list.                                          *)
(***************************************************************************)
\* An alert without a row has neither been escalated nor repeated.
BlankRows ==
  \A a \in Alerts : ~Recorded(a) => row[a].escalatedAt = None /\ row[a].count = 0

PlanJustified ==
  \A t \in Tickers : \A j \in tick[t].plan :
    /\ j.what = "escalate" => row[j.alert].escalatedAt = None
    /\ j.what = "handled" => j.alert \in acked

NoticeJustified ==
  \A t \in Tickers :
    /\ \A j \in tick[t].jobs : j.what = "handled" =>
         j.alert \in acked /\ j.already \subseteq row[j.alert].sentTo
    /\ \A j \in tick[t].doing : j.what = "handled" => tick[t].waiting \subseteq j.already

JInv == IInv /\ BlankRows /\ PlanJustified /\ NoticeJustified

LEMMA InitJInv == Init => JInv
<1> SUFFICES ASSUME Init PROVE JInv
  OBVIOUS
<1>1. BlankRows
  BY DEF Init, BlankRows, NoRow
<1>2. PlanJustified /\ NoticeJustified
  BY DEF Init, PlanJustified, NoticeJustified, IdleTick
<1> QED BY <1>1, <1>2, InitIInv DEF JInv

(***************************************************************************)
(* Steps that leave the rows alone.                                        *)
(***************************************************************************)
\* A tick that is left alone or becomes idle stays justified.
LEMMA StillJustified ==
  ASSUME JInv, IInv', row' = row, acked \subseteq acked',
         \A t \in Tickers : tick'[t] = tick[t] \/ tick'[t] = IdleTick
  PROVE  JInv'
<1>1. BlankRows'
  BY DEF JInv, BlankRows, Recorded
<1>2. PlanJustified'
  BY DEF JInv, PlanJustified, IdleTick
<1>3. NoticeJustified'
  BY DEF JInv, NoticeJustified, IdleTick
<1> QED BY <1>1, <1>2, <1>3 DEF JInv

\* Nor does the life cycle move, as long as no phone is told anything.
LEMMA StillRests ==
  ASSUME row' = row, acked \subseteq acked',
         \A a \in Alerts, p \in Phones : shown'[a][p] = "handled" <=> shown[a][p] = "handled"
  PROVE  L!Next
<1>1. \A a \in Alerts : L!Rest(a)
  BY DEF L!Rest, L!SameStage, L!SameAlarms, L!SamePhones, Recorded, Open
<1> QED BY <1>1 DEF L!Next

\* Every step but that of a tick's work and that of recording an alert.
LEMMA ElsewhereStep ==
  ASSUME JInv, IInv', row' = row, acked \subseteq acked',
         \A t \in Tickers : tick'[t] = tick[t] \/ tick'[t] = IdleTick,
         \A a \in Alerts, p \in Phones : shown'[a][p] = "handled" <=> shown[a][p] = "handled"
  PROVE  JInv' /\ L!Next
BY StillJustified, StillRests

LEMMA WorldStep ==
  ASSUME JInv, IInv',
         \/ \E a \in Alerts :
              \/ \E ok \in BOOLEAN : LogAlert(a, ok)
              \/ \E muted \in BOOLEAN : CheckAlert(a, muted)
              \/ StartPush(a) \/ CancelAlert(a)
         \/ \E r \in Requests : PhoneAckWrite(r)
         \/ \E r \in Requests, a \in Alerts :
              DashboardAck(r, a) \/ \E p \in Phones : PhoneAckRead(r, a, p)
         \/ Advance
         \/ \E p \in Phones : Unsubscribe(p) \/ \E t \in Tiers : EditRoster(p, t)
         \/ UNCHANGED vars
  PROVE  JInv' /\ L!Next
<1>1. UNCHANGED <<row, tick, shown>> /\ acked \subseteq acked'
  BY DEF LogAlert, CheckAlert, StartPush, CancelAlert, PhoneAckWrite, DashboardAck,
         PhoneAckRead, Advance, Unsubscribe, EditRoster, vars
<1> QED BY <1>1, ElsewhereStep

LEMMA CrashesStep ==
  ASSUME JInv, IInv', Crash
  PROVE  JInv' /\ L!Next
<1>1. UNCHANGED <<row, acked, shown>> /\ \A t \in Tickers : tick'[t] = IdleTick
  BY DEF Crash
<1> QED BY <1>1, ElsewhereStep

LEMMA EndsStep ==
  ASSUME JInv, IInv', NEW t \in Tickers, TickAbort(t) \/ TickEnd(t)
  PROVE  JInv' /\ L!Next
<1>1. tick \in [Tickers -> Ticks] /\ tick' = [tick EXCEPT ![t] = IdleTick]
  BY DEF JInv, IInv, TypeOK, TickAbort, TickEnd, EndTick
<1>2. UNCHANGED <<row, acked, shown>>
  BY DEF TickAbort, TickEnd
<1> QED BY <1>1, <1>2, ElsewhereStep

\* The first push of an alert finds no phone that was told about it.
LEMMA PushedStep ==
  ASSUME JInv, IInv', NEW a \in Alerts, NEW p \in Phones, NEW o \in Outcomes, PushAlert(a, p, o)
  PROVE  JInv' /\ L!Next
<1>1. UNCHANGED <<row, acked, tick>> /\ Push(a, p, o, "alert") /\ task[a].pc = "sending"
  BY DEF PushAlert
<1>2. \A b \in Alerts, q \in Phones :
        shown'[b][q] = shown[b][q] \/ (b = a /\ shown'[b][q] = "alert")
  BY <1>1, PushTypes DEF JInv
<1>3. \A q \in Phones : shown[a][q] # "handled"
  BY <1>1 DEF JInv, IInv, NotYetRecorded, ToldOnlyIfClosed
<1> QED BY <1>1, <1>2, <1>3, ElsewhereStep

(***************************************************************************)
(* Recording an alert.                                                     *)
(***************************************************************************)
LEMMA RecordedStep ==
  ASSUME JInv, IInv', NEW a \in Alerts, NEW ok \in BOOLEAN, RecordAlert(a, ok)
  PROVE  JInv' /\ L!Next
<1>1. CASE ~ok
  BY <1>1, ElsewhereStep DEF RecordAlert
<1>2. CASE ok
  <2>1. /\ row \in [Alerts -> Rows] /\ row' = [row EXCEPT ![a] = NewRow(a)]
        /\ ~Recorded(a) /\ UNCHANGED <<acked, tick, shown>>
        /\ now \in Time
    BY <1>2 DEF RecordAlert, JInv, IInv, TypeOK, NotYetRecorded
  <2>2. row'[a] = NewRow(a) /\ \A b \in Alerts : b # a => row'[b] = row[b]
    BY <2>1
  <2>3. row'[a].created # None /\ row'[a].escalatedAt = None /\ row'[a].count = 0
        /\ row[a].escalatedAt = None /\ row[a].count = 0
    BY <2>1, <2>2 DEF NewRow, JInv, BlankRows, Time, None
  <2>4. BlankRows'
    BY <2>2, <2>3 DEF JInv, BlankRows, Recorded
  <2>5. PlanJustified'
    BY <2>1, <2>2, <2>3 DEF JInv, PlanJustified, IInv, PlanIsCurrent, Open
  <2>6. NoticeJustified'
    BY <2>1, <2>2 DEF JInv, NoticeJustified, IInv, JobsAgree
  <2>7. L!Record(a)
    BY <2>1, <2>2, <2>3 DEF L!Record, L!SameAlarms, Recorded, Open
  <2>8. \A b \in Alerts : b # a => L!Rest(b)
    BY <2>1, <2>2 DEF L!Rest, L!SameStage, L!SameAlarms, L!SamePhones, Recorded, Open
  <2> QED BY <2>1, <2>4, <2>5, <2>6, <2>7, <2>8 DEF JInv, L!Next
<1> QED BY <1>1, <1>2

(***************************************************************************)
(* The work of a tick.                                                     *)
(***************************************************************************)
\* The one that works is alone, so the others have nothing planned or to send.
LEMMA Idlers ==
  ASSUME IInv, NEW t \in Tickers, tick[t].pc # "idle"
  PROVE  \A u \in Tickers \ {t} : tick[u].plan = {} /\ tick[u].jobs = {} /\ tick[u].doing = {}
BY Alone DEF IInv, LockHeld

LEMMA ReadStep ==
  ASSUME JInv, IInv', NEW t \in Tickers, TickRead(t)
  PROVE  JInv' /\ L!Next
<1> DEFINE plan == {[what |-> Decision(a, now), alert |-> a] : a \in Scope(t)}
           new == [IdleTick EXCEPT !.pc = "read", !.at = now, !.plan = plan]
<1>1. /\ tick \in [Tickers -> Ticks] /\ tick' = [tick EXCEPT ![t] = new]
      /\ UNCHANGED <<row, acked, shown>>
  BY DEF JInv, IInv, TypeOK, TickRead
<1>2. new.plan = plan /\ new.jobs = {} /\ new.doing = {}
  BY DEF IdleTick
<1>3. \A j \in plan : /\ j.what = "escalate" => row[j.alert].escalatedAt = None
                      /\ j.what = "handled" => j.alert \in acked
  BY DEF Decision
<1> HIDE DEF plan, new
<1>4. tick'[t] = new /\ \A u \in Tickers \ {t} : tick'[u] = tick[u]
  BY <1>1
<1>5. BlankRows'
  BY <1>1 DEF JInv, BlankRows, Recorded
<1>6. PlanJustified'
  BY <1>1, <1>2, <1>3, <1>4 DEF JInv, PlanJustified
<1>7. NoticeJustified'
  BY <1>1, <1>2, <1>4 DEF JInv, NoticeJustified
<1> QED BY <1>1, <1>5, <1>6, <1>7, StillRests DEF JInv

\* What the commit does to one alert is one step of its life.
LEMMA CommitsOne ==
  ASSUME JInv, NEW t \in Tickers, TickCommit(t), NEW a \in Alerts
  PROVE  /\ L!Escalate(a) \/ L!Remind(a) \/ L!Close(a) \/ L!Rest(a)
         /\ ~Recorded(a) => row'[a] = row[a]
         /\ row'[a].sentTo = row[a].sentTo
<1> DEFINE d == Planned(t, a)
           r == row[a]
           at == tick[t].at
<1>1. /\ row'[a] = RowAfter(t, a) /\ r \in Rows /\ tick[t].pc = "read"
      /\ UNCHANGED <<acked, shown>>
  BY DEF TickCommit, JInv, IInv, TypeOK
<1>2. at \in Nat /\ at # None
  BY <1>1, BoundsAssumption DEF JInv, IInv, LockHeld, Time, None
<1>3. \A w \in d : \E j \in tick[t].plan : j.alert = a /\ j.what = w
  BY DEF Planned
<1>4. d # {} => Open(a) /\ Recorded(a)
  BY <1>3 DEF JInv, IInv, PlanIsCurrent, Open
<1>5. "escalate" \in d => r.escalatedAt = None
  BY <1>3 DEF JInv, PlanJustified
<1>6. "repeat" \in d => r.count < MaxRepeats
  BY <1>3 DEF JInv, IInv, PlanIsCurrent
<1> HIDE DEF d
<1>7. CASE d \cap {"expire", "handled"} # {}
  <2>1. row'[a] = [r EXCEPT !.closedAt = at]
    BY <1>1, <1>7 DEF RowAfter, d
  <2>2. L!Close(a)
    BY <1>1, <1>2, <1>4, <1>7, <2>1
       DEF L!Close, L!SameAlarms, L!SamePhones, Recorded, Open, Rows
  <2> QED BY <1>1, <1>4, <1>7, <2>1, <2>2 DEF Rows
<1>8. CASE d \cap {"expire", "handled"} = {} /\ "escalate" \in d
  <2>1. row'[a] = [r EXCEPT !.escalatedAt = at]
    BY <1>1, <1>8 DEF RowAfter, d
  <2>2. L!Escalate(a)
    BY <1>1, <1>2, <1>4, <1>5, <1>8, <2>1
       DEF L!Escalate, L!SameStage, L!SamePhones, Recorded, Open, Rows
  <2> QED BY <1>1, <1>4, <1>8, <2>1, <2>2 DEF Rows
<1>9. CASE d \cap {"expire", "handled"} = {} /\ "escalate" \notin d /\ "repeat" \in d
  <2>1. row'[a] = [r EXCEPT !.count = @ + 1, !.lastAt = at]
    BY <1>1, <1>9 DEF RowAfter, d
  <2>2. row'[a].count = r.count + 1 /\ row'[a].created = r.created
        /\ row'[a].closedAt = r.closedAt /\ row'[a].escalatedAt = r.escalatedAt
        /\ row'[a].sentTo = r.sentTo
    BY <1>1, <2>1 DEF Rows
  <2>3. L!Remind(a)
    BY <1>1, <1>4, <1>6, <1>9, <2>2
       DEF L!Remind, L!SameStage, L!SamePhones, Recorded, Open
  <2> QED BY <1>4, <1>9, <2>2, <2>3
<1>10. CASE d \cap {"expire", "handled", "escalate", "repeat"} = {}
  <2>1. row'[a] = r
    BY <1>1, <1>10 DEF RowAfter, d
  <2>2. L!Rest(a)
    BY <1>1, <2>1 DEF L!Rest, L!SameStage, L!SameAlarms, L!SamePhones, Recorded, Open
  <2> QED BY <2>1, <2>2
<1> QED BY <1>7, <1>8, <1>9, <1>10

LEMMA CommitStep ==
  ASSUME JInv, IInv', NEW t \in Tickers, TickCommit(t)
  PROVE  JInv' /\ L!Next
<1> DEFINE jobs == {[what |-> j.what, alert |-> j.alert,
                     already |-> row[j.alert].sentTo] : j \in FollowUps(t)}
           new == [IdleTick EXCEPT !.pc = "follow", !.jobs = jobs]
<1>1. /\ tick \in [Tickers -> Ticks] /\ tick' = [tick EXCEPT ![t] = new]
      /\ tick[t].pc = "read" /\ tick[t].plan \in SUBSET Plans /\ UNCHANGED acked
  BY DEF JInv, IInv, TypeOK, TickCommit, Ticks
<1>2. new.plan = {} /\ new.jobs = jobs /\ new.doing = {}
  BY DEF IdleTick
<1>3. \A j \in jobs : \E k \in tick[t].plan :
         j.alert = k.alert /\ j.what = k.what /\ j.already = row[k.alert].sentTo
  BY DEF FollowUps
<1>4. \A k \in tick[t].plan : k.alert \in Alerts
  BY <1>1 DEF Plans
<1>5. \A a \in Alerts : row'[a].sentTo = row[a].sentTo /\ (~Recorded(a) => row'[a] = row[a])
  BY CommitsOne
<1> HIDE DEF jobs, new
<1>6. tick'[t] = new /\ \A u \in Tickers \ {t} : tick'[u] = tick[u]
  BY <1>1
<1>7. \A u \in Tickers \ {t} : tick[u].plan = {} /\ tick[u].jobs = {} /\ tick[u].doing = {}
  BY <1>1, Idlers DEF JInv
<1>8. \A j \in jobs : j.what = "handled" =>
         j.alert \in acked' /\ j.already \subseteq row'[j.alert].sentTo
  BY <1>1, <1>3, <1>4, <1>5 DEF JInv, PlanJustified
<1>9. BlankRows'
  <2>1. \A a \in Alerts : row'[a].created = None => ~Recorded(a)
    BY <1>1, RowAfterFacts DEF TickCommit, JInv, Recorded
  <2> QED BY <1>5, <2>1 DEF JInv, BlankRows, Recorded
<1>10. PlanJustified'
  BY <1>2, <1>6, <1>7 DEF PlanJustified
<1>11. NoticeJustified'
  BY <1>2, <1>6, <1>7, <1>8 DEF NoticeJustified
<1>12. L!Next
  BY <1>1, CommitsOne DEF L!Next
<1> QED BY <1>9, <1>10, <1>11, <1>12 DEF JInv

\* A follow-up keeps what its sends and its end do not add to.
LEMMA StillWorking ==
  ASSUME JInv, IInv', NEW t \in Tickers, NEW new, tick' = [tick EXCEPT ![t] = new],
         tick[t].pc = "follow", new.plan = {}, new.jobs \subseteq tick[t].jobs,
         acked \subseteq acked',
         \A a \in Alerts : /\ row'[a].created = row[a].created
                           /\ row'[a].escalatedAt = row[a].escalatedAt
                           /\ row'[a].count = row[a].count
                           /\ row[a].sentTo \subseteq row'[a].sentTo,
         \A j \in new.doing : j.what = "handled" => new.waiting \subseteq j.already
  PROVE  JInv'
<1>1. tick \in [Tickers -> Ticks] /\ tick[t].jobs \in SUBSET Jobs
  BY DEF JInv, IInv, TypeOK, Ticks
<1>2. tick'[t] = new /\ \A u \in Tickers \ {t} : tick'[u] = tick[u]
  BY <1>1
<1>3. \A u \in Tickers \ {t} : tick[u].plan = {} /\ tick[u].jobs = {} /\ tick[u].doing = {}
  BY Idlers DEF JInv
<1>4. BlankRows'
  BY DEF JInv, BlankRows, Recorded
<1>5. PlanJustified'
  BY <1>2, <1>3 DEF PlanJustified
<1>6. \A j \in new.jobs : j.what = "handled" =>
         j.alert \in acked' /\ j.already \subseteq row'[j.alert].sentTo
  <2>1. \A j \in tick[t].jobs : j.alert \in Alerts
    BY <1>1 DEF Jobs
  <2> QED BY <2>1 DEF JInv, NoticeJustified
<1>7. NoticeJustified'
  BY <1>2, <1>3, <1>6 DEF NoticeJustified
<1> QED BY <1>4, <1>5, <1>7 DEF JInv

LEMMA StartsStep ==
  ASSUME JInv, IInv', NEW t \in Tickers, NEW j \in tick[t].jobs, StartFollowUp(t, j)
  PROVE  JInv' /\ L!Next
<1> DEFINE new == [tick[t] EXCEPT !.doing = {j}, !.waiting = Targets(j)]
<1>1. /\ tick[t] \in Ticks /\ tick[t].pc = "follow" /\ tick' = [tick EXCEPT ![t] = new]
      /\ UNCHANGED <<row, acked, shown>>
  BY DEF JInv, IInv, TypeOK, StartFollowUp
<1>2. /\ new.plan = {} /\ new.jobs = tick[t].jobs /\ new.doing = {j}
      /\ new.waiting = Targets(j)
  BY <1>1 DEF Ticks, JInv, IInv, LockHeld
<1>3. j.what = "handled" => Targets(j) \subseteq j.already
  BY DEF Targets
<1> HIDE DEF new
<1>4. JInv'
  BY <1>1, <1>2, <1>3, StillWorking
<1> QED BY <1>1, <1>4, StillRests

LEMMA SendsStep ==
  ASSUME JInv, IInv', NEW t \in Tickers, NEW j \in tick[t].jobs, NEW p \in Phones,
         NEW o \in Outcomes, SendFollowUp(t, j, p, o)
  PROVE  JInv' /\ L!Next
<1> DEFINE new == Answered(tick[t], j.alert, p, o)
           face == IF j.what = "handled" THEN "handled" ELSE "alert"
<1>1. /\ tick[t] \in Ticks /\ tick[t].pc = "follow" /\ tick' = [tick EXCEPT ![t] = new]
      /\ UNCHANGED <<row, acked>> /\ j \in tick[t].doing /\ p \in tick[t].waiting
      /\ Push(j.alert, p, o, face)
  BY DEF JInv, IInv, TypeOK, SendFollowUp
<1>2. /\ new.plan = {} /\ new.jobs = tick[t].jobs /\ new.doing = tick[t].doing
      /\ new.waiting \subseteq tick[t].waiting
  BY <1>1 DEF Ticks, JInv, IInv, LockHeld, Answered
<1>3. j.alert \in Alerts /\ face \in {"alert", "handled"}
  BY <1>1 DEF Ticks, Jobs
<1>4. Recorded(j.alert) /\ (j.what = "handled" <=> ~Open(j.alert))
  BY DEF JInv, IInv, JobsAgree, Open
<1>5. face = "handled" <=> j.what = "handled"
  OBVIOUS
<1> HIDE DEF new, face
<1>6. JInv'
  BY <1>1, <1>2, StillWorking DEF JInv, NoticeJustified
<1>7. \A b \in Alerts, q \in Phones :
        shown'[b][q] = shown[b][q] \/ (b = j.alert /\ q = p /\ shown'[b][q] = face)
  <2>1. shown \in [Alerts -> [Phones -> {"none", "alert", "handled"}]]
    BY DEF JInv, IInv, TypeOK
  <2>2. shown' = shown \/ shown' = [shown EXCEPT ![j.alert][p] = face]
    BY <1>1 DEF Push
  <2>3. shown' = shown \/ shown' = [shown EXCEPT ![j.alert] = [shown[j.alert] EXCEPT ![p] = face]]
    BY <2>2
  <2>4. [shown[j.alert] EXCEPT ![p] = face] \in [Phones -> {"none", "alert", "handled"}]
    BY <1>3, <2>1
  <2> QED BY <1>3, <2>1, <2>3, <2>4
<1>8. CASE j.what = "handled"
  <2>1. p \in row[j.alert].sentTo /\ j.alert \in acked
    BY <1>1, <1>8 DEF JInv, NoticeJustified
  <2>2. L!Tell(j.alert)
    BY <1>1, <1>3, <1>4, <1>5, <1>7, <1>8, <2>1
       DEF L!Tell, L!SameStage, L!SameAlarms, Recorded, Open
  <2>3. \A b \in Alerts : b # j.alert => L!Rest(b)
    BY <1>1, <1>7 DEF L!Rest, L!SameStage, L!SameAlarms, L!SamePhones, Recorded, Open
  <2> QED BY <1>1, <1>6, <2>2, <2>3 DEF L!Next
<1>9. CASE j.what # "handled"
  <2>1. \A q \in Phones : shown[j.alert][q] # "handled"
    BY <1>3, <1>4, <1>9 DEF JInv, IInv, ToldOnlyIfClosed
  <2> QED BY <1>1, <1>5, <1>6, <1>7, <1>9, <2>1, StillRests
<1> QED BY <1>8, <1>9

LEMMA FinishesStep ==
  ASSUME JInv, IInv', NEW t \in Tickers, NEW j \in tick[t].jobs,
         EndFollowUp(t, j) \/ FailFollowUp(t, j)
  PROVE  JInv' /\ L!Next
<1> DEFINE new == Without(tick[t], j)
<1>1. /\ tick[t] \in Ticks /\ tick[t].pc = "follow" /\ tick' = [tick EXCEPT ![t] = new]
      /\ UNCHANGED <<acked, shown>>
  BY DEF JInv, IInv, TypeOK, EndFollowUp, FailFollowUp, FollowUpDone
<1>2. new.plan = {} /\ new.jobs \subseteq tick[t].jobs /\ new.doing = {}
  BY <1>1 DEF Ticks, JInv, IInv, LockHeld, Without
<1>3. j.alert \in Alerts /\ row \in [Alerts -> Rows]
  BY <1>1 DEF Ticks, Jobs, JInv, IInv, TypeOK
<1> HIDE DEF new
<1>4. CASE FailFollowUp(t, j)
  <2>1. row' = row
    BY <1>4 DEF FailFollowUp
  <2> QED BY <1>1, <1>2, <2>1, StillWorking, StillRests
<1>5. CASE EndFollowUp(t, j)
  <2>1. row' = [row EXCEPT ![j.alert].sentTo = Listed(t, j)]
    BY <1>5 DEF EndFollowUp
  <2>2. \A a \in Alerts :
          /\ row'[a].created = row[a].created /\ row'[a].closedAt = row[a].closedAt
          /\ row'[a].escalatedAt = row[a].escalatedAt /\ row'[a].count = row[a].count
          /\ row[a].sentTo \subseteq row'[a].sentTo
          /\ (a # j.alert => row'[a].sentTo = row[a].sentTo)
          /\ (j.what = "handled" => row'[a].sentTo = row[a].sentTo)
    BY <1>3, <2>1 DEF Rows, Listed
  <2>3. Recorded(j.alert) /\ (j.what = "handled" <=> ~Open(j.alert))
    BY DEF JInv, IInv, JobsAgree, Open
  <2>4. L!Reach(j.alert) \/ L!Rest(j.alert)
    BY <1>1, <1>3, <2>2, <2>3
       DEF L!Reach, L!Rest, L!SameStage, L!SameAlarms, L!SamePhones, Recorded, Open
  <2>5. \A b \in Alerts : b # j.alert => L!Rest(b)
    BY <1>1, <2>2 DEF L!Rest, L!SameStage, L!SameAlarms, L!SamePhones, Recorded, Open
  <2>6. L!Next
    BY <1>1, <2>4, <2>5 DEF L!Next
  <2> QED BY <1>1, <1>2, <2>2, <2>6, StillWorking
<1> QED BY <1>4, <1>5

(***************************************************************************)
(* The theorem.                                                            *)
(***************************************************************************)
LEMMA InitLifecycle == Init => L!Init
<1> SUFFICES ASSUME Init PROVE L!Init
  OBVIOUS
<1>1. \A a \in Alerts : /\ ~Recorded(a) /\ row[a].escalatedAt = None /\ row[a].count = 0
                        /\ row[a].sentTo = {} /\ \A p \in Phones : shown[a][p] # "handled"
  BY DEF Init, NoRow, Recorded
<1>2. acked = {}
  BY DEF Init
<1> QED BY <1>1, <1>2 DEF L!Init

LEMMA NextJInv == JInv /\ [Next]_vars => JInv' /\ L!Next
<1> SUFFICES ASSUME JInv, [Next]_vars PROVE JInv' /\ L!Next
  OBVIOUS
<1>1. IInv'
  BY NextIInv DEF JInv
<1>2. ASSUME NEW a \in Alerts, AlertStep(a) PROVE JInv' /\ L!Next
  BY <1>1, <1>2, WorldStep, PushedStep, RecordedStep DEF AlertStep
<1>3. ASSUME NEW t \in Tickers, TickStep(t) PROVE JInv' /\ L!Next
  <2>1. ASSUME NEW j \in tick[t].jobs,
               StartFollowUp(t, j) \/ EndFollowUp(t, j)
                 \/ \E p \in Phones, o \in Outcomes : SendFollowUp(t, j, p, o)
        PROVE JInv' /\ L!Next
    BY <1>1, <2>1, StartsStep, FinishesStep, SendsStep
  <2> QED BY <1>1, <1>3, <2>1, ReadStep, CommitStep, EndsStep DEF TickStep
<1>4. ASSUME NEW t \in Tickers, TickAbort(t) \/ \E j \in tick[t].jobs : FailFollowUp(t, j)
      PROVE JInv' /\ L!Next
  BY <1>1, <1>4, EndsStep, FinishesStep
<1>5. CASE \/ \E a \in Alerts : CancelAlert(a)
           \/ \E r \in Requests : PhoneAckWrite(r)
           \/ \E r \in Requests, a \in Alerts :
                DashboardAck(r, a) \/ \E p \in Phones : PhoneAckRead(r, a, p)
           \/ Advance
           \/ \E p \in Phones : Unsubscribe(p) \/ \E t \in Tiers : EditRoster(p, t)
           \/ UNCHANGED vars
  BY <1>1, <1>5, WorldStep
<1> QED BY <1>1, <1>2, <1>3, <1>4, <1>5, CrashesStep DEF Next

\* The escalation worker, with its overlapping ticks and requests, its crashes
\* and its failures, implements the life cycle of an alert.
THEOREM LifecycleHolds == Spec => Lifecycle
<1>1. JInv /\ [Next]_vars => [L!Next]_(L!vars)
  BY NextJInv
<1>2. JInv /\ [Next]_vars => JInv'
  BY NextJInv
<1> QED BY <1>1, <1>2, InitJInv, InitLifecycle, PTL DEF Spec, Lifecycle, L!Spec

-----------------------------------------------------------------------------
(***************************************************************************)
(* Second tries.                                                           *)
(***************************************************************************)
\* A message about alert a that alarms phone p is on its way.
InHand(a, p) ==
  \/ task[a].pc = "sending" /\ p \in task[a].waiting
  \/ \E t \in Tickers : \E j \in tick[t].doing :
       j.alert = a /\ j.what # "handled" /\ p \in tick[t].waiting

\* A message is sent a second time only after something went wrong, and no more
\* often than once: one that is on its first try has its second still to come.
Resending ==
  \A a \in Alerts, p \in Phones :
    /\ resent[a][p] <= faults /\ resent[a][p] <= alarms[a][p]
    /\ p \in second[a] => faults > 0
    /\ InHand(a, p) /\ p \notin second[a] => resent[a][p] < alarms[a][p]

LEMMA InitResending == Init => Resending
BY DEF Init, Resending, InHand, NoTask, IdleTick

\* What is true of the counts as such, and what their sender may be.
LEMMA ResentTypes ==
  ASSUME IInv
  PROVE  /\ faults \in Nat
         /\ \A a \in Alerts, p \in Phones : resent[a][p] \in Nat /\ alarms[a][p] \in Nat
BY BoundsAssumption DEF IInv, TypeOK

\* One sender at a time: an alert that is still being pushed has no follow-up,
\* and the ticks take turns.
LEMMA OneSender ==
  ASSUME IInv, NEW t \in Tickers, NEW j \in tick[t].doing
  PROVE  /\ j.alert \in Alerts /\ task[j.alert].pc # "sending"
         /\ \A u \in Tickers \ {t} : tick[u].doing = {}
<1>1. /\ tick[t] \in Ticks /\ tick[t].doing \subseteq tick[t].jobs
      /\ tick[t].pc # "idle" /\ lock = t
  BY Alone DEF IInv, LockHeld
<1>2. j.alert \in Alerts /\ Recorded(j.alert)
  BY <1>1 DEF Ticks, Jobs, IInv, JobsAgree
<1>3. task[j.alert].pc # "sending"
  BY <1>2 DEF IInv, NotYetRecorded
<1>4. \A u \in Tickers \ {t} : tick[u].doing = {}
  BY <1>1, Alone
<1> QED BY <1>2, <1>3, <1>4

\* A step that sends nothing.
LEMMA ResendingFrame ==
  ASSUME IInv, IInv', Resending, UNCHANGED <<alarms, resent>>, faults' >= faults,
         \A a \in Alerts, p \in Phones :
           /\ p \in second'[a] => p \in second[a]
           /\ InHand(a, p)' /\ p \notin second'[a] => InHand(a, p) /\ p \notin second[a]
  PROVE  Resending'
<1> SUFFICES ASSUME NEW a \in Alerts, NEW p \in Phones
             PROVE  /\ resent[a][p] <= faults' /\ resent[a][p] <= alarms[a][p]
                    /\ p \in second'[a] => faults' > 0
                    /\ InHand(a, p)' /\ p \notin second'[a] => resent[a][p] < alarms[a][p]
  BY DEF Resending
<1>1. faults \in Nat /\ faults' \in Nat /\ resent[a][p] \in Nat /\ alarms[a][p] \in Nat
  BY ResentTypes, BoundsAssumption DEF IInv, TypeOK
<1> QED BY <1>1 DEF Resending

\* A message that begins for some phones has not been resent yet.
LEMMA ResendingBegins ==
  ASSUME IInv, IInv', Resending, NEW a \in Alerts, NEW T \in SUBSET Phones,
         UNCHANGED <<second, resent, faults>>,
         alarms' = [alarms EXCEPT ![a] =
                      [p \in Phones |-> @[p] + IF p \in T THEN 1 ELSE 0]],
         \A b \in Alerts, p \in Phones :
           InHand(b, p)' => InHand(b, p) \/ (b = a /\ p \in T)
  PROVE  Resending'
<1> SUFFICES ASSUME NEW b \in Alerts, NEW p \in Phones
             PROVE  /\ resent[b][p] <= faults /\ resent[b][p] <= alarms'[b][p]
                    /\ p \in second[b] => faults > 0
                    /\ InHand(b, p)' /\ p \notin second[b] => resent[b][p] < alarms'[b][p]
  BY DEF Resending
<1>1. faults \in Nat /\ resent[b][p] \in Nat /\ alarms[b][p] \in Nat
  BY ResentTypes
<1>2. alarms'[b][p] = alarms[b][p] + IF b = a /\ p \in T THEN 1 ELSE 0
  BY <1>1 DEF IInv, TypeOK
<1>3. /\ resent[b][p] <= faults /\ resent[b][p] <= alarms[b][p]
      /\ p \in second[b] => faults > 0
      /\ InHand(b, p) /\ p \notin second[b] => resent[b][p] < alarms[b][p]
  BY DEF Resending
<1>4. CASE b = a /\ p \in T
  BY <1>1, <1>2, <1>3, <1>4
<1>5. CASE ~(b = a /\ p \in T)
  BY <1>1, <1>2, <1>3, <1>5
<1> QED BY <1>4, <1>5

\* One POST: it is answered for good, or the message goes out once more.
LEMMA ResendingPush ==
  ASSUME IInv, Resending, NEW a \in Alerts, NEW p \in Phones, NEW o \in Outcomes,
         NEW face \in {"alert", "handled"}, Push(a, p, o, face), alarms' = alarms,
         face = "alert" => InHand(a, p),
         \A b \in Alerts, q \in Phones : InHand(b, q)' => InHand(b, q),
         ~TryAgain(a, p, o) => ~InHand(a, p)'
  PROVE  Resending'
<1>1. /\ second \in [Alerts -> SUBSET Phones] /\ resent \in [Alerts -> [Phones -> Nat]]
      /\ faults \in Nat /\ \A q \in Phones : alarms[a][q] \in Nat
  BY ResentTypes DEF IInv, TypeOK
<1>2. second' = [second EXCEPT ![a] = IF TryAgain(a, p, o) THEN @ \cup {p} ELSE @ \ {p}]
  BY DEF Push
<1>3. faults' \in {faults, faults + 1} /\ (TryAgain(a, p, o) => faults' = faults + 1)
  BY DEF Push, TryAgain, Fault, NoFault
<1>4. \A b \in Alerts, q \in Phones : b # a \/ q # p =>
        resent'[b][q] = resent[b][q] /\ (q \in second'[b] <=> q \in second[b])
  <2>1. resent' = resent \/ resent' = [resent EXCEPT ![a] = [resent[a] EXCEPT ![p] = @ + 1]]
    BY DEF Push
  <2>2. [resent[a] EXCEPT ![p] = @ + 1] \in [Phones -> Nat]
    BY <1>1
  <2> QED BY <1>1, <1>2, <2>1, <2>2
<1>5. ASSUME NEW b \in Alerts, NEW q \in Phones, b # a \/ q # p
      PROVE  /\ resent'[b][q] <= faults' /\ resent'[b][q] <= alarms'[b][q]
             /\ q \in second'[b] => faults' > 0
             /\ InHand(b, q)' /\ q \notin second'[b] => resent'[b][q] < alarms'[b][q]
  <2>1. resent[b][q] \in Nat
    BY <1>1
  <2> QED BY <1>1, <1>3, <1>4, <1>5, <2>1 DEF Resending
<1>6. /\ resent'[a][p] <= faults' /\ resent'[a][p] <= alarms'[a][p]
      /\ p \in second'[a] => faults' > 0
      /\ InHand(a, p)' /\ p \notin second'[a] => resent'[a][p] < alarms'[a][p]
  <2>1. resent[a][p] \in Nat /\ resent[a][p] <= faults /\ resent[a][p] <= alarms[a][p]
    BY <1>1 DEF Resending
  <2>2. CASE TryAgain(a, p, o)
    <3>1. p \in second'[a] /\ faults' = faults + 1 /\ p \notin second[a]
      BY <1>1, <1>2, <1>3, <2>2 DEF TryAgain
    <3>2. CASE face = "alert"
      <4>1. resent[a][p] < alarms[a][p]
        BY <3>1, <3>2 DEF Resending
      <4>2. resent' = [resent EXCEPT ![a] = [resent[a] EXCEPT ![p] = @ + 1]]
        BY <2>2, <3>2 DEF Push
      <4>3. resent'[a][p] = resent[a][p] + 1
        BY <1>1, <4>2
      <4> QED BY <1>1, <2>1, <3>1, <4>1, <4>3
    <3>3. CASE face # "alert"
      <4>1. resent' = resent
        BY <3>3 DEF Push
      <4> QED BY <1>1, <2>1, <3>1, <4>1
    <3> QED BY <3>2, <3>3
  <2>3. CASE ~TryAgain(a, p, o)
    <3>1. resent' = resent /\ p \notin second'[a] /\ ~InHand(a, p)'
      BY <1>1, <1>2, <2>3 DEF Push
    <3> QED BY <1>1, <1>3, <2>1, <3>1
  <2> QED BY <2>2, <2>3
<1> QED BY <1>5, <1>6 DEF Resending

\* The steps of the alerts' own coroutines.
LEMMA TaskResends ==
  ASSUME IInv, IInv', Resending, NEW a \in Alerts, AlertStep(a) \/ CancelAlert(a)
  PROVE  Resending'
<1>1. task \in [Alerts -> Tasks] /\ faults \in Nat
  BY ResentTypes DEF IInv, TypeOK
<1>2. ASSUME NEW ok \in BOOLEAN, LogAlert(a, ok) \/ RecordAlert(a, ok)
      PROVE  Resending'
  <2>1. /\ UNCHANGED <<tick, alarms, second, resent>> /\ task'[a].pc # "sending"
        /\ \A b \in Alerts \ {a} : task'[b] = task[b]
    BY <1>1, <1>2 DEF LogAlert, RecordAlert, Tasks, NoTask
  <2>2. faults' >= faults
    BY <1>1, <1>2 DEF LogAlert, RecordAlert, Fault, NoFault
  <2>3. \A b \in Alerts, p \in Phones : InHand(b, p)' => InHand(b, p)
    BY <2>1 DEF InHand
  <2> QED BY <2>1, <2>2, <2>3, ResendingFrame
<1>3. ASSUME NEW muted \in BOOLEAN, CheckAlert(a, muted) PROVE Resending'
  <2>1. /\ UNCHANGED <<tick, alarms, second, resent, faults>> /\ task'[a].pc # "sending"
        /\ \A b \in Alerts \ {a} : task'[b] = task[b]
    BY <1>1, <1>3 DEF CheckAlert, world, Tasks
  <2>2. \A b \in Alerts, p \in Phones : InHand(b, p)' => InHand(b, p)
    BY <2>1 DEF InHand
  <2> QED BY <1>1, <2>1, <2>2, ResendingFrame
<1>4. CASE CancelAlert(a)
  <2>1. /\ UNCHANGED <<tick, alarms, resent>> /\ faults' = faults + 1
        /\ task[a].pc \in {"logged", "checked", "sending"} /\ task'[a].pc = "cancelled"
        /\ \A b \in Alerts \ {a} : task'[b] = task[b] /\ second'[b] = second[b]
        /\ second'[a] = {}
    BY <1>1, <1>4 DEF CancelAlert, Fault, Tasks, IInv, TypeOK
  <2>2. \A t \in Tickers : \A j \in tick[t].doing : j.alert # a
    <3>1. ~Recorded(a)
      BY <2>1 DEF IInv, NotYetRecorded
    <3> QED BY <3>1 DEF IInv, LockHeld, JobsAgree
  <2>3. /\ \A p \in Phones : ~InHand(a, p)'
        /\ \A b \in Alerts \ {a}, p \in Phones : InHand(b, p)' => InHand(b, p)
    BY <2>1, <2>2 DEF InHand
  <2>4. \A b \in Alerts, p \in Phones :
          /\ p \in second'[b] => p \in second[b]
          /\ InHand(b, p)' /\ p \notin second'[b] => InHand(b, p) /\ p \notin second[b]
    BY <2>1, <2>3
  <2> QED BY <1>1, <2>1, <2>4, ResendingFrame
<1>5. CASE StartPush(a)
  <2> DEFINE T == IF ToEveryone(Kind[a]) THEN People(task[a].roster, subs)
                  ELSE InTier(task[a].roster, subs, "first")
  <2>1. /\ task' = [task EXCEPT ![a] = [@ EXCEPT !.pc = "sending", !.waiting = T]]
        /\ alarms' = [alarms EXCEPT ![a] =
                        [p \in Phones |-> @[p] + IF p \in T THEN 1 ELSE 0]]
    BY <1>5 DEF StartPush
  <2>4. T \in SUBSET Phones
    BY DEF IInv, TypeOK, People, InTier
  <2> HIDE DEF T
  <2>2. /\ UNCHANGED <<tick, second, resent, faults>>
        /\ task'[a].waiting = T /\ \A b \in Alerts \ {a} : task'[b] = task[b]
    <3>1. task[a] \in Tasks
      BY <1>1
    <3>2. [task[a] EXCEPT !.pc = "sending", !.waiting = T].waiting = T
      BY <3>1 DEF Tasks
    <3>3. UNCHANGED <<tick, second, resent, faults>>
      BY <1>5 DEF StartPush, world
    <3> QED BY <1>1, <2>1, <3>2, <3>3
  <2>3. \A b \in Alerts, p \in Phones :
          InHand(b, p)' => InHand(b, p) \/ (b = a /\ p \in T)
    BY <2>2 DEF InHand
  <2> QED BY <2>1, <2>2, <2>3, <2>4, ResendingBegins
<1>6. ASSUME NEW p \in Phones, NEW o \in Outcomes, PushAlert(a, p, o)
      PROVE  Resending'
  <2>1. /\ task[a].pc = "sending" /\ p \in task[a].waiting /\ Push(a, p, o, "alert")
        /\ UNCHANGED <<tick, alarms>> /\ \A b \in Alerts \ {a} : task'[b] = task[b]
        /\ task'[a].pc = "sending" /\ task'[a].waiting \subseteq task[a].waiting
        /\ ~TryAgain(a, p, o) => p \notin task'[a].waiting
    BY <1>1, <1>6 DEF PushAlert, Answered, Tasks
  <2>2. \A t \in Tickers : \A j \in tick[t].doing : j.alert # a
    BY <2>1, OneSender
  <2>3. /\ InHand(a, p) /\ (~TryAgain(a, p, o) => ~InHand(a, p)')
        /\ \A b \in Alerts, q \in Phones : InHand(b, q)' => InHand(b, q)
    BY <2>1, <2>2 DEF InHand
  <2> QED BY <2>1, <2>3, ResendingPush
<1> QED BY <1>2, <1>3, <1>4, <1>5, <1>6 DEF AlertStep

\* The steps of the ticks.
LEMMA TickResends ==
  ASSUME IInv, IInv', Resending, NEW t \in Tickers,
         \/ TickStep(t) \/ TickAbort(t)
         \/ \E j \in tick[t].jobs : FailFollowUp(t, j)
  PROVE  Resending'
<1>1. /\ tick \in [Tickers -> Ticks] /\ tick[t] \in Ticks /\ faults \in Nat
      /\ tick[t].doing \subseteq tick[t].jobs
  BY ResentTypes DEF IInv, TypeOK, LockHeld
<1>2. ASSUME \/ TickRead(t) \/ TickCommit(t) \/ TickEnd(t) \/ TickAbort(t)
             \/ \E j \in tick[t].jobs : EndFollowUp(t, j) \/ FailFollowUp(t, j)
      PROVE  Resending'
  <2>1. /\ UNCHANGED <<task, alarms, second, resent>>
        /\ faults' >= faults
        /\ \A u \in Tickers \ {t} : tick'[u] = tick[u]
        /\ tick'[t].doing = {}
    <3>1. CASE TickRead(t)
      BY <1>1, <3>1 DEF TickRead, IdleTick, world
    <3>2. CASE TickCommit(t)
      BY <1>1, <3>2 DEF TickCommit, IdleTick, world
    <3>3. CASE TickEnd(t)
      BY <1>1, <3>3 DEF TickEnd, EndTick, IdleTick
    <3>4. CASE TickAbort(t)
      BY <1>1, <3>4 DEF TickAbort, EndTick, IdleTick, Fault
    <3>5. ASSUME NEW j \in tick[t].jobs, EndFollowUp(t, j) \/ FailFollowUp(t, j)
          PROVE  /\ UNCHANGED <<task, alarms, second, resent>>
                 /\ faults' >= faults
                 /\ tick' = [tick EXCEPT ![t] = Without(tick[t], j)]
      BY <1>1, <3>5 DEF EndFollowUp, FailFollowUp, FollowUpDone, Fault, world
    <3>6. ASSUME NEW j \in tick[t].jobs
          PROVE  Without(tick[t], j).doing = {}
      BY <1>1 DEF Without, Ticks
    <3> QED BY <1>1, <1>2, <3>1, <3>2, <3>3, <3>4, <3>5, <3>6
  <2>3. \A b \in Alerts, p \in Phones : InHand(b, p)' => InHand(b, p)
    BY <2>1 DEF InHand
  <2> QED BY <2>1, <2>3, ResendingFrame
<1>3. ASSUME NEW j \in tick[t].jobs, StartFollowUp(t, j) PROVE Resending'
  <2>1. /\ UNCHANGED <<task, second, resent, faults>>
        /\ \A u \in Tickers \ {t} : tick'[u] = tick[u]
        /\ tick'[t].doing = {j} /\ tick'[t].waiting = Targets(j)
    BY <1>1, <1>3 DEF StartFollowUp, world, Ticks
  <2>2. j \in Jobs /\ j.alert \in Alerts /\ Targets(j) \in SUBSET Phones
    BY <1>1 DEF Ticks, Jobs, JobKinds, Targets, IInv, TypeOK, InTier, People
  <2>3. \A b \in Alerts, p \in Phones :
          InHand(b, p)' =>
            InHand(b, p) \/ (j.what # "handled" /\ b = j.alert /\ p \in Targets(j))
    BY <2>1 DEF InHand
  <2>4. CASE j.what = "handled"
    <3>1. alarms' = alarms
      BY <1>3, <2>4 DEF StartFollowUp
    <3> QED BY <1>1, <2>1, <2>3, <2>4, <3>1, ResendingFrame
  <2>5. CASE j.what # "handled"
    <3>1. alarms' = [alarms EXCEPT ![j.alert] =
                       [p \in Phones |-> @[p] + IF p \in Targets(j) THEN 1 ELSE 0]]
      BY <1>3, <2>5 DEF StartFollowUp
    <3> QED BY <2>1, <2>2, <2>3, <3>1, ResendingBegins
  <2> QED BY <2>4, <2>5
<1>4. ASSUME NEW j \in tick[t].jobs, NEW p \in Phones, NEW o \in Outcomes,
             SendFollowUp(t, j, p, o)
      PROVE  Resending'
  <2> DEFINE face == IF j.what = "handled" THEN "handled" ELSE "alert"
  <2>1. /\ j \in tick[t].doing /\ p \in tick[t].waiting /\ Push(j.alert, p, o, face)
        /\ UNCHANGED <<task, alarms>> /\ \A u \in Tickers \ {t} : tick'[u] = tick[u]
        /\ tick'[t].doing = tick[t].doing /\ tick'[t].waiting \subseteq tick[t].waiting
        /\ ~TryAgain(j.alert, p, o) => p \notin tick'[t].waiting
    BY <1>1, <1>4 DEF SendFollowUp, Answered, Ticks
  <2>2. /\ j.alert \in Alerts /\ task[j.alert].pc # "sending"
        /\ \A u \in Tickers \ {t} : tick[u].doing = {}
    BY <2>1, OneSender
  <2>3. face \in {"alert", "handled"} /\ (face = "alert" => j.what # "handled")
    OBVIOUS
  <2> HIDE DEF face
  <2>4. /\ face = "alert" => InHand(j.alert, p)
        /\ ~TryAgain(j.alert, p, o) => ~InHand(j.alert, p)'
        /\ \A b \in Alerts, q \in Phones : InHand(b, q)' => InHand(b, q)
    BY <2>1, <2>2, <2>3 DEF InHand
  <2> QED BY <2>1, <2>2, <2>3, <2>4, ResendingPush
<1> QED BY <1>2, <1>3, <1>4 DEF TickStep

LEMMA NextResending ==
  ASSUME IInv, IInv', Resending, [Next]_vars
  PROVE  Resending'
<1>1. faults \in Nat /\ task \in [Alerts -> Tasks]
  BY ResentTypes DEF IInv, TypeOK
<1>2. ASSUME NEW a \in Alerts, AlertStep(a) \/ CancelAlert(a) PROVE Resending'
  BY <1>2, TaskResends
<1>3. ASSUME NEW t \in Tickers,
             TickStep(t) \/ TickAbort(t) \/ \E j \in tick[t].jobs : FailFollowUp(t, j)
      PROVE  Resending'
  BY <1>3, TickResends
<1>4. CASE \/ \E r \in Requests : PhoneAckWrite(r)
           \/ \E r \in Requests, a \in Alerts :
                DashboardAck(r, a) \/ \E p \in Phones : PhoneAckRead(r, a, p)
           \/ Advance
           \/ \E p \in Phones : Unsubscribe(p) \/ \E t \in Tiers : EditRoster(p, t)
           \/ UNCHANGED vars
  <2>1. UNCHANGED <<task, tick, alarms, second, resent, faults>>
    BY <1>4 DEF PhoneAckWrite, DashboardAck, PhoneAckRead, Advance, Unsubscribe, EditRoster,
                vars, world
  <2>2. \A b \in Alerts, p \in Phones : InHand(b, p)' => InHand(b, p)
    BY <2>1 DEF InHand
  <2> QED BY <1>1, <2>1, <2>2, ResendingFrame
<1>5. CASE Crash
  <2>1. /\ UNCHANGED <<alarms, resent, faults>> /\ \A a \in Alerts : second'[a] = {}
        /\ \A a \in Alerts : task'[a].pc # "sending"
        /\ \A t \in Tickers : tick'[t].doing = {}
    BY <1>1, <1>5 DEF Crash, Tasks, IdleTick
  <2>2. \A b \in Alerts, p \in Phones : ~InHand(b, p)'
    BY <2>1 DEF InHand
  <2> QED BY <1>1, <2>1, <2>2, ResendingFrame
<1> QED BY <1>2, <1>3, <1>4, <1>5 DEF Next

-----------------------------------------------------------------------------
(***************************************************************************)
(* Who is on an alert's list, and how often an alert sounds.               *)
(***************************************************************************)
\* A tick has one follow-up per alert and works on one at a time; it sends an
\* escalation after it was marked.
JobsOnce ==
  \A t \in Tickers :
    /\ \A j, k \in tick[t].jobs : j.alert = k.alert => j = k
    /\ \A j, k \in tick[t].doing : j = k
    /\ \A j \in tick[t].jobs : j.what = "escalate" => row[j.alert].escalatedAt # None

\* An alert that sounds on every phone at once has no escalation, and only the
\* kinds that repeat do; a tick's plan agrees.
RowKinds ==
  \A a \in Alerts :
    /\ ToEveryone(Kind[a]) => row[a].escalateAt = None /\ row[a].escalatedAt = None
    /\ row[a].count > 0 => Repeats(Kind[a])
PlanKinds ==
  \A t \in Tickers : \A j \in tick[t].plan :
    /\ j.what = "escalate" => row[j.alert].escalateAt # None
    /\ j.what = "repeat" => Repeats(Kind[j.alert])

\* Until somebody edits it, every push goes by the first roster.
Rostered == edits = 0 => tier = InitTier /\ \A a \in Alerts : task[a].roster = InitTier

\* While nothing fails, a phone that shows an alert is on its list, or among the
\* phones that the push under way has already reached.
Reached(a, p) ==
  \/ p \in row[a].sentTo
  \/ task[a].pc = "sending" /\ p \in task[a].accepted
  \/ \E t \in Tickers : \E j \in tick[t].doing :
       j.alert = a /\ j.what # "handled" /\ p \in tick[t].accepted
Unlisted == \A a \in Alerts : ~Recorded(a) => row[a].sentTo = {}
Calm == crashes = 0 /\ faults = 0
ShownReached ==
  Calm =>
    \A a \in Alerts, p \in Phones : shown[a][p] = "alert" => Reached(a, p)

\* The alarms asked for so far: the first push, the escalation and the reminders
\* that are marked, less what is marked but not yet started.
Pushed(a) == task[a].pc \in {"sending", "done", "cancelled"}
Due(a, what) ==
  \E t \in Tickers : \E j \in tick[t].jobs \ tick[t].doing : j.alert = a /\ j.what = what
FirstPush(a, p) ==
  Pushed(a) /\ (edits > 0 \/ InitTier[p] = "first" \/ ToEveryone(Kind[a]))
BackupPush(a, p) ==
  /\ row[a].escalatedAt # None /\ ~Due(a, "escalate")
  /\ edits > 0 \/ InitTier[p] = "backup"
Bit(b) == IF b THEN 1 ELSE 0
AlarmsCounted ==
  \A a \in Alerts, p \in Phones :
    alarms[a][p] + Bit(Due(a, "repeat"))
      <= Bit(FirstPush(a, p)) + Bit(BackupPush(a, p)) + row[a].count

Listing == Unlisted /\ ShownReached
Counting == RowKinds /\ PlanKinds /\ Rostered /\ AlarmsCounted
KInv == JInv /\ JobsOnce /\ Listing /\ Counting

LEMMA InitKInv == Init => KInv
<1> SUFFICES ASSUME Init PROVE KInv
  OBVIOUS
<1>1. /\ \A a \in Alerts : row[a] = NoRow /\ task[a] = NoTask
      /\ \A t \in Tickers : tick[t] = IdleTick
  BY DEF Init
<1>2. JobsOnce /\ PlanKinds
  BY <1>1 DEF JobsOnce, PlanKinds, IdleTick
<1>3. Unlisted /\ RowKinds
  BY <1>1 DEF Unlisted, RowKinds, NoRow
<1>4. ShownReached
  BY DEF Init, ShownReached
<1>5. Rostered
  BY DEF Init, Rostered, NoTask
<1>6. AlarmsCounted
  <2> SUFFICES ASSUME NEW a \in Alerts, NEW p \in Phones
               PROVE  alarms[a][p] + Bit(Due(a, "repeat"))
                        <= Bit(FirstPush(a, p)) + Bit(BackupPush(a, p)) + row[a].count
    BY DEF AlarmsCounted
  <2>1. ~Due(a, "repeat") /\ alarms[a][p] = 0 /\ row[a].count = 0
    BY <1>1 DEF Init, Due, IdleTick, NoRow
  <2> QED BY <2>1 DEF Bit
<1> QED BY <1>2, <1>3, <1>4, <1>5, <1>6, InitJInv DEF KInv, Listing, Counting

(***************************************************************************)
(* What most steps leave as it is.                                         *)
(***************************************************************************)
LEMMA TroubleFacts ==
  ASSUME IInv
  PROVE  /\ crashes \in Nat /\ faults \in Nat /\ edits \in Nat
         /\ Fault => ~Calm'
         /\ NoFault /\ UNCHANGED crashes => (Calm' => Calm)
BY BoundsAssumption DEF IInv, TypeOK, Fault, NoFault, Calm

\* No follow-up is added, and no mark of an escalation is taken away.
LEMMA JobsFrame ==
  ASSUME JobsOnce,
         \A t \in Tickers : tick'[t].jobs \subseteq tick[t].jobs
                           /\ tick'[t].doing \subseteq tick[t].doing,
         \A t \in Tickers : \A j \in tick'[t].jobs :
           row'[j.alert].escalatedAt = row[j.alert].escalatedAt
  PROVE  JobsOnce'
BY DEF JobsOnce

LEMMA ListingFrame ==
  ASSUME Listing,
         \A a \in Alerts : ~Recorded(a)' => ~Recorded(a) /\ row'[a].sentTo = row[a].sentTo,
         Calm' => /\ Calm
                  /\ \A a \in Alerts, p \in Phones : shown'[a][p] = "alert" =>
                        Reached(a, p)' \/ (shown[a][p] = "alert" /\ (Reached(a, p) => Reached(a, p)'))
  PROVE  Listing'
<1>1. Unlisted'
  BY DEF Listing, Unlisted
<1>2. ShownReached'
  BY DEF Listing, ShownReached
<1> QED BY <1>1, <1>2 DEF Listing

LEMMA PlanFrame ==
  ASSUME JInv, PlanKinds,
         \A t \in Tickers : tick'[t].plan \subseteq tick[t].plan,
         \A t \in Tickers : \A j \in tick[t].plan :
           row'[j.alert].escalateAt = row[j.alert].escalateAt
  PROVE  PlanKinds'
BY DEF PlanKinds

\* No alarm is asked for, and none that is due is forgotten in the count.
LEMMA CountingFrame ==
  ASSUME JInv, JInv', Counting, PlanKinds', alarms' = alarms,
         (edits' = edits /\ tier' = tier) \/ edits' = edits + 1,
         \A a \in Alerts : /\ row'[a].count = row[a].count
                           /\ row'[a].escalatedAt = row[a].escalatedAt
                           /\ ToEveryone(Kind[a]) => row'[a].escalateAt = None
                           /\ task'[a].roster \in {task[a].roster, tier, InitTier}
                           /\ Pushed(a) => Pushed(a)'
                           /\ Due(a, "repeat")' => Due(a, "repeat")
                           /\ Due(a, "escalate")' => Due(a, "escalate")
  PROVE  Counting'
<1>1. edits \in Nat
  BY TroubleFacts DEF JInv
<1>2. RowKinds'
  BY DEF Counting, RowKinds
<1>3. Rostered'
  BY <1>1 DEF Counting, Rostered
<1>4. AlarmsCounted'
  <2> SUFFICES ASSUME NEW a \in Alerts, NEW p \in Phones
               PROVE  alarms[a][p] + Bit(Due(a, "repeat")')
                        <= Bit(FirstPush(a, p)') + Bit(BackupPush(a, p)') + row'[a].count
    BY DEF AlarmsCounted, Bit
  <2>1. alarms[a][p] \in Nat /\ row[a].count \in Nat
    BY BoundsAssumption DEF JInv, IInv, TypeOK, Rows
  <2>2. alarms[a][p] + Bit(Due(a, "repeat"))
          <= Bit(FirstPush(a, p)) + Bit(BackupPush(a, p)) + row[a].count
    BY DEF Counting, AlarmsCounted
  <2>3. (FirstPush(a, p) => FirstPush(a, p)') /\ (BackupPush(a, p) => BackupPush(a, p)')
    BY <1>1 DEF FirstPush, BackupPush
  <2>4. Bit(Due(a, "repeat")') <= Bit(Due(a, "repeat"))
        /\ Bit(FirstPush(a, p)) <= Bit(FirstPush(a, p)')
        /\ Bit(BackupPush(a, p)) <= Bit(BackupPush(a, p)')
    BY <2>3 DEF Bit
  <2>5. /\ Bit(Due(a, "repeat")') \in {0, 1} /\ Bit(Due(a, "repeat")) \in {0, 1}
        /\ Bit(FirstPush(a, p)) \in {0, 1} /\ Bit(FirstPush(a, p)') \in {0, 1}
        /\ Bit(BackupPush(a, p)) \in {0, 1} /\ Bit(BackupPush(a, p)') \in {0, 1}
    BY DEF Bit
  <2> QED BY <2>1, <2>2, <2>4, <2>5
<1> QED BY <1>2, <1>3, <1>4 DEF Counting

(***************************************************************************)
(* The steps.                                                              *)
(***************************************************************************)
\* A step that touches neither the rows nor the ticks, raises nothing, and asks
\* for no alarm.
LEMMA AsideStep ==
  ASSUME KInv, JInv', UNCHANGED <<row, tick, alarms>>,
         (edits' = edits /\ tier' = tier) \/ edits' = edits + 1,
         Calm' => /\ Calm
                  /\ \A a \in Alerts, p \in Phones : shown'[a][p] = "alert" =>
                        \/ shown[a][p] = "alert"
                        \/ task'[a].pc = "sending" /\ p \in task'[a].accepted
                  /\ \A a \in Alerts : task[a].pc = "sending" =>
                        task'[a].pc = "sending" /\ task[a].accepted \subseteq task'[a].accepted,
         \A a \in Alerts : /\ task'[a].roster \in {task[a].roster, tier, InitTier}
                           /\ Pushed(a) => Pushed(a)'
  PROVE  KInv'
<1>1. JobsOnce'
  BY JobsFrame DEF KInv
<1>2. Listing'
  <2>1. \A a \in Alerts : ~Recorded(a)' => ~Recorded(a) /\ row'[a].sentTo = row[a].sentTo
    BY DEF Recorded
  <2>2. ASSUME Calm', NEW a \in Alerts, NEW p \in Phones
        PROVE  /\ Reached(a, p) => Reached(a, p)'
               /\ task'[a].pc = "sending" /\ p \in task'[a].accepted => Reached(a, p)'
    BY <2>2 DEF Reached
  <2> QED BY <2>1, <2>2, ListingFrame DEF KInv
<1>3. PlanKinds'
  BY PlanFrame DEF KInv, Counting
<1>4. Counting'
  <2>1. \A a \in Alerts, w \in {"repeat", "escalate"} : Due(a, w)' => Due(a, w)
    BY DEF Due
  <2> QED BY <1>3, <2>1, CountingFrame DEF KInv, Counting, RowKinds
<1> QED BY <1>1, <1>2, <1>4 DEF KInv

LEMMA OthersKStep ==
  ASSUME KInv, JInv',
         \/ \E r \in Requests : PhoneAckWrite(r)
         \/ \E r \in Requests, a \in Alerts :
              DashboardAck(r, a) \/ \E p \in Phones : PhoneAckRead(r, a, p)
         \/ Advance
         \/ \E p \in Phones : Unsubscribe(p) \/ \E t \in Tiers : EditRoster(p, t)
         \/ UNCHANGED vars
  PROVE  KInv'
<1>1. /\ UNCHANGED <<row, tick, alarms, task, shown, crashes, faults>>
      /\ (edits' = edits /\ tier' = tier) \/ edits' = edits + 1
  BY DEF PhoneAckWrite, DashboardAck, PhoneAckRead, Advance, Unsubscribe, EditRoster, vars,
         world, phones
<1>2. Calm' => Calm
  BY <1>1 DEF Calm
<1>3. \A a \in Alerts : Pushed(a) => Pushed(a)'
  BY <1>1 DEF Pushed
<1> QED BY <1>1, <1>2, <1>3, AsideStep

LEMMA TaskKStep ==
  ASSUME KInv, JInv', NEW a \in Alerts,
         \/ \E ok \in BOOLEAN : LogAlert(a, ok)
         \/ \E muted \in BOOLEAN : CheckAlert(a, muted)
         \/ CancelAlert(a)
  PROVE  KInv'
<1>1. UNCHANGED <<row, tick, alarms, shown, crashes, edits, tier>>
  BY DEF LogAlert, CheckAlert, CancelAlert, phones, world
<1>2. task \in [Alerts -> Tasks]
  BY DEF KInv, JInv, IInv, TypeOK
<1>3. Calm' => Calm
  BY <1>1, TroubleFacts DEF KInv, JInv, LogAlert, CheckAlert, CancelAlert, world, Calm
<1>4. /\ \A b \in Alerts : b # a => task'[b] = task[b]
      /\ task'[a].roster \in {task[a].roster, tier}
      /\ Pushed(a) => Pushed(a)'
      /\ task[a].pc = "sending" => CancelAlert(a)
  BY <1>2 DEF LogAlert, CheckAlert, CancelAlert, Tasks, Pushed
<1>5. CancelAlert(a) => ~Calm'
  BY TroubleFacts DEF CancelAlert, KInv, JInv
<1>6. \A b \in Alerts : /\ task'[b].roster \in {task[b].roster, tier, InitTier}
                        /\ Pushed(b) => Pushed(b)'
  BY <1>4 DEF Pushed
<1>7. \A b \in Alerts : Calm' /\ task[b].pc = "sending" => task'[b] = task[b]
  BY <1>4, <1>5
<1> QED BY <1>1, <1>3, <1>6, <1>7, AsideStep

LEMMA PushKStep ==
  ASSUME KInv, Resending, JInv', NEW a \in Alerts, NEW p \in Phones, NEW o \in Outcomes,
         PushAlert(a, p, o)
  PROVE  KInv'
<1>1. /\ UNCHANGED <<row, tick, alarms, crashes, edits, tier>> /\ task[a].pc = "sending"
      /\ Push(a, p, o, "alert") /\ task' = [task EXCEPT ![a] = Answered(@, a, p, o)]
      /\ task \in [Alerts -> Tasks]
  BY DEF PushAlert, Push, KInv, JInv, IInv, TypeOK
<1>2. /\ \A b \in Alerts : b # a => task'[b] = task[b]
      /\ task'[a].pc = "sending" /\ task'[a].roster = task[a].roster
      /\ task[a].accepted \subseteq task'[a].accepted
      /\ o = "sent" => p \in task'[a].accepted
  BY <1>1 DEF Answered, Tasks
<1>3. Calm' => Calm /\ o \in {"sent", "gone"}
  BY <1>1, TroubleFacts DEF KInv, JInv, Push, Calm, Resending, Fault, NoFault
<1>4. ASSUME NEW b \in Alerts, NEW q \in Phones, shown'[b][q] # shown[b][q]
      PROVE  b = a /\ q = p /\ o \in {"sent", "unsure"}
  <2>1. shown \in [Alerts -> [Phones -> {"none", "alert", "handled"}]]
    BY DEF KInv, JInv, IInv, TypeOK
  <2> QED BY <1>1, <1>4, <2>1 DEF Push
<1>5. \A b \in Alerts, q \in Phones : Calm' /\ shown'[b][q] = "alert" =>
        \/ shown[b][q] = "alert"
        \/ task'[b].pc = "sending" /\ q \in task'[b].accepted
  BY <1>2, <1>3, <1>4
<1>6. \A b \in Alerts : Pushed(b) => Pushed(b)'
  BY <1>1, <1>2 DEF Pushed
<1> QED BY <1>1, <1>2, <1>3, <1>5, <1>6, AsideStep

\* The first push: one alarm for each phone it is for.
LEMMA StartPushKStep ==
  ASSUME KInv, JInv', NEW a \in Alerts, StartPush(a)
  PROVE  KInv'
<1> DEFINE t == task[a].roster
           targets == IF ToEveryone(Kind[a]) THEN People(t, subs)
                      ELSE InTier(t, subs, "first")
<1>1. /\ UNCHANGED <<row, tick, shown, crashes, faults, edits, tier>>
      /\ task[a].pc = "checked" /\ task \in [Alerts -> Tasks]
      /\ task' = [task EXCEPT ![a] = [@ EXCEPT !.pc = "sending", !.waiting = targets]]
      /\ alarms' = [alarms EXCEPT ![a] =
                      [p \in Phones |-> @[p] + IF p \in targets THEN 1 ELSE 0]]
      /\ alarms \in [Alerts -> [Phones -> Nat]]
  BY DEF StartPush, world, phones, KInv, JInv, IInv, TypeOK
<1>2. /\ \A b \in Alerts : b # a => task'[b] = task[b] /\ alarms'[b] = alarms[b]
      /\ task'[a].pc = "sending" /\ task'[a].roster = task[a].roster
      /\ \A p \in Phones : alarms'[a][p] = alarms[a][p] + (IF p \in targets THEN 1 ELSE 0)
  BY <1>1 DEF Tasks
<1>3. \A p \in targets : edits = 0 => InitTier[p] = "first" \/ ToEveryone(Kind[a])
  BY DEF KInv, Counting, Rostered, InTier
<1> HIDE DEF t, targets
<1>4. JobsOnce' /\ PlanKinds' /\ RowKinds'
  BY <1>1 DEF KInv, Counting, JobsOnce, PlanKinds, RowKinds
<1>5. Listing'
  <2>1. \A b \in Alerts : Recorded(b)' = Recorded(b) /\ row'[b] = row[b]
    BY <1>1 DEF Recorded
  <2>2. Calm' = Calm
    BY <1>1 DEF Calm
  <2>3. \A b \in Alerts, p \in Phones : Reached(b, p) => Reached(b, p)'
    BY <1>1, <1>2 DEF Reached
  <2> QED BY <1>1, <2>1, <2>2, <2>3, ListingFrame DEF KInv
<1>6. Rostered'
  BY <1>1, <1>2 DEF KInv, Counting, Rostered
<1>7. AlarmsCounted'
  <2> SUFFICES ASSUME NEW b \in Alerts, NEW p \in Phones
               PROVE  alarms'[b][p] + Bit(Due(b, "repeat"))
                        <= Bit(FirstPush(b, p)') + Bit(BackupPush(b, p)) + row[b].count
    BY <1>1 DEF AlarmsCounted, Due, BackupPush
  <2>1. /\ alarms[b][p] + Bit(Due(b, "repeat"))
             <= Bit(FirstPush(b, p)) + Bit(BackupPush(b, p)) + row[b].count
        /\ alarms[b][p] \in Nat /\ row[b].count \in Nat /\ edits \in Nat
    BY BoundsAssumption, TroubleFacts DEF KInv, Counting, AlarmsCounted, JInv, IInv, TypeOK, Rows
  <2>2. CASE b # a
    BY <1>1, <1>2, <2>1, <2>2 DEF FirstPush, Pushed
  <2>3. CASE b = a
    <3>1. ~FirstPush(a, p)
      BY <1>1 DEF FirstPush, Pushed
    <3>2. p \in targets => FirstPush(a, p)'
      BY <1>1, <1>2, <1>3, <2>1 DEF FirstPush, Pushed
    <3> QED BY <1>2, <2>1, <2>3, <3>1, <3>2 DEF Bit
  <2> QED BY <2>2, <2>3
<1> QED BY <1>4, <1>5, <1>6, <1>7 DEF KInv, Counting

LEMMA RecordKStep ==
  ASSUME KInv, JInv', NEW a \in Alerts, NEW ok \in BOOLEAN, RecordAlert(a, ok)
  PROVE  KInv'
<1>1. /\ UNCHANGED <<tick, alarms, shown, crashes, edits, tier>>
      /\ task[a].pc = "sending" /\ task \in [Alerts -> Tasks] /\ row \in [Alerts -> Rows]
      /\ task' = [task EXCEPT ![a] = [NoTask EXCEPT !.pc = "done", !.at = task[a].at]]
      /\ row' = IF ok THEN [row EXCEPT ![a] = NewRow(a)] ELSE row
      /\ ~Recorded(a) /\ now # None /\ (Calm' => Calm /\ ok)
  BY TroubleFacts, BoundsAssumption
     DEF RecordAlert, phones, KInv, JInv, IInv, TypeOK, NotYetRecorded, Time, None
<1>2. /\ \A b \in Alerts : b # a => task'[b] = task[b] /\ row'[b] = row[b]
      /\ task'[a].pc = "done" /\ task'[a].roster = InitTier
      /\ ~ok => row'[a] = row[a]
      /\ ok => row'[a] = NewRow(a)
  BY <1>1 DEF NoTask
<1>3. /\ row'[a].count = row[a].count /\ row'[a].escalatedAt = row[a].escalatedAt
      /\ ToEveryone(Kind[a]) => row'[a].escalateAt = None
      /\ ok => row'[a].sentTo = task[a].accepted /\ row'[a].created # None
  BY <1>1, <1>2 DEF KInv, JInv, BlankRows, NewRow, EscalateAt, Counting, RowKinds
<1>4. \A t \in Tickers : /\ \A j \in tick[t].plan : j.alert \in Alerts \ {a}
                         /\ \A j \in tick[t].jobs : j.alert \in Alerts \ {a}
                         /\ \A j \in tick[t].doing : j.alert \in Alerts \ {a}
  <2>1. \A t \in Tickers : tick[t] \in Ticks
    BY DEF KInv, JInv, IInv, TypeOK
  <2>2. \A t \in Tickers : /\ \A j \in tick[t].plan : j.alert \in Alerts /\ Recorded(j.alert)
                           /\ \A j \in tick[t].jobs : j.alert \in Alerts /\ Recorded(j.alert)
                           /\ tick[t].doing \subseteq tick[t].jobs
    BY <2>1 DEF KInv, JInv, IInv, PlanIsCurrent, JobsAgree, LockHeld, Open, Ticks, Plans, Jobs
  <2> QED BY <1>1, <2>2
<1>5. JobsOnce'
  BY <1>1, <1>2, <1>4, JobsFrame DEF KInv
<1>6. Listing'
  <2>1. \A b \in Alerts : ~Recorded(b)' => ~Recorded(b) /\ row'[b].sentTo = row[b].sentTo
    BY <1>1, <1>2, <1>3 DEF Recorded
  <2>2. ASSUME Calm', NEW b \in Alerts, NEW p \in Phones, Reached(b, p)
        PROVE  Reached(b, p)'
    <3>1. CASE b # a
      BY <1>1, <1>2, <2>2, <3>1 DEF Reached
    <3>2. CASE b = a
      <4>1. row[a].sentTo = {}
        BY <1>1 DEF KInv, Listing, Unlisted
      <4>2. p \in task[a].accepted
        BY <1>4, <2>2, <3>2, <4>1 DEF Reached
      <4> QED BY <1>1, <1>3, <2>2, <3>2, <4>2 DEF Reached
    <3> QED BY <3>1, <3>2
  <2> QED BY <1>1, <2>1, <2>2, ListingFrame DEF KInv
<1>7. PlanKinds'
  BY <1>1, <1>2, <1>4, PlanFrame DEF KInv, Counting
<1>8. Counting'
  <2>1. \A b \in Alerts : /\ task'[b].roster \in {task[b].roster, InitTier}
                          /\ Pushed(b) => Pushed(b)'
                          /\ ToEveryone(Kind[b]) => row'[b].escalateAt = None
    BY <1>2, <1>3 DEF Pushed, KInv, Counting, RowKinds
  <2>2. \A b \in Alerts, w \in {"repeat", "escalate"} : Due(b, w)' => Due(b, w)
    BY <1>1 DEF Due
  <2> QED BY <1>1, <1>2, <1>3, <1>7, <2>1, <2>2, CountingFrame DEF KInv
<1> QED BY <1>5, <1>6, <1>8 DEF KInv

LEMMA CrashKStep == ASSUME KInv, JInv', Crash PROVE KInv'
<1>1. /\ UNCHANGED <<row, alarms, edits, tier>> /\ crashes' = crashes + 1
      /\ \A t \in Tickers : tick'[t] = IdleTick
      /\ task \in [Alerts -> Tasks]
      /\ \A a \in Alerts : \/ task'[a] = task[a]
                           \/ task'[a] = [task[a] EXCEPT !.pc = "cancelled"]
  BY DEF Crash, phones, KInv, JInv, IInv, TypeOK
<1>2. ~Calm'
  BY <1>1, TroubleFacts DEF KInv, JInv, Calm
<1>3. \A a \in Alerts : task'[a].roster = task[a].roster /\ (Pushed(a) => Pushed(a)')
  <2> SUFFICES ASSUME NEW a \in Alerts
               PROVE  task'[a].roster = task[a].roster /\ (Pushed(a) => Pushed(a)')
    OBVIOUS
  <2>1. CASE task'[a] = task[a]
    BY <2>1 DEF Pushed
  <2>2. CASE task'[a] = [task[a] EXCEPT !.pc = "cancelled"]
    <3>1. task[a] \in Tasks
      BY <1>1
    <3>2. task'[a].pc = "cancelled" /\ task'[a].roster = task[a].roster
      BY <2>2, <3>1 DEF Tasks
    <3> QED BY <3>2 DEF Pushed
  <2> QED BY <1>1, <2>1, <2>2
<1>4. JobsOnce' /\ PlanKinds'
  <2>1. \A t \in Tickers : tick'[t].plan = {} /\ tick'[t].jobs = {} /\ tick'[t].doing = {}
    BY <1>1 DEF IdleTick
  <2> QED BY <2>1 DEF JobsOnce, PlanKinds
<1>5. Listing'
  BY <1>1, <1>2, ListingFrame DEF KInv, Recorded
<1>6. \A a \in Alerts, w \in {"repeat", "escalate"} : ~Due(a, w)'
  BY <1>1 DEF Due, IdleTick
<1>7. Counting'
  BY <1>1, <1>3, <1>4, <1>6, CountingFrame DEF KInv, Counting, RowKinds
<1> QED BY <1>4, <1>5, <1>7 DEF KInv

(***************************************************************************)
(* The steps of a tick.                                                    *)
(***************************************************************************)
\* A step of a tick that starts nothing: it drops follow-ups, sends, or puts the
\* phones it has reached on the list.
LEMMA TickFrame ==
  ASSUME KInv, JInv', UNCHANGED <<alarms, task, edits, tier>>, PlanKinds',
         \A t \in Tickers : /\ tick'[t].jobs \subseteq tick[t].jobs
                           /\ tick'[t].doing \subseteq tick[t].doing
                           /\ tick'[t].jobs \ tick'[t].doing \subseteq tick[t].jobs \ tick[t].doing,
         \A a \in Alerts : /\ row'[a].escalatedAt = row[a].escalatedAt
                           /\ row'[a].escalateAt = row[a].escalateAt
                           /\ row'[a].count = row[a].count,
         Listing'
  PROVE  KInv'
<1>1. \A t \in Tickers : \A j \in tick'[t].jobs : j.alert \in Alerts
  BY DEF JInv, IInv, TypeOK, Ticks, Jobs
<1>2. JobsOnce'
  BY <1>1, JobsFrame DEF KInv
<1>3. \A a \in Alerts, w \in {"repeat", "escalate"} : Due(a, w)' => Due(a, w)
  BY DEF Due
<1>4. Counting'
  BY <1>3, CountingFrame DEF KInv, Counting, RowKinds, Pushed
<1> QED BY <1>2, <1>4 DEF KInv

LEMMA TickReadKStep ==
  ASSUME KInv, JInv', NEW t \in Tickers, TickRead(t)
  PROVE  KInv'
<1> DEFINE plan == {[what |-> Decision(a, now), alert |-> a] : a \in Scope(t)}
           new == [IdleTick EXCEPT !.pc = "read", !.at = now, !.plan = plan]
<1>1. /\ tick \in [Tickers -> Ticks] /\ tick' = [tick EXCEPT ![t] = new]
      /\ UNCHANGED <<row, alarms, task, shown, crashes, faults, edits, tier>>
      /\ tick[t].jobs = {} /\ tick[t].doing = {}
  BY Alone DEF TickRead, CanEnter, world, phones, KInv, JInv, IInv, TypeOK
<1>2. new.plan = plan /\ new.jobs = {} /\ new.doing = {}
  BY DEF IdleTick
<1>3. \A j \in plan : /\ j.what = "escalate" => row[j.alert].escalateAt # None
                      /\ j.what = "repeat" => Repeats(Kind[j.alert])
  BY DEF Decision
<1> HIDE DEF plan, new
<1>4. /\ tick'[t] = new /\ \A u \in Tickers \ {t} : tick'[u] = tick[u]
      /\ \A u \in Tickers : tick'[u].jobs = tick[u].jobs /\ tick'[u].doing = tick[u].doing
  BY <1>1, <1>2
<1>5. PlanKinds'
  BY <1>1, <1>2, <1>3, <1>4 DEF KInv, Counting, PlanKinds
<1>6. Listing'
  <2>1. \A a \in Alerts, p \in Phones : Reached(a, p) => Reached(a, p)'
    <3> SUFFICES ASSUME NEW a \in Alerts, NEW p \in Phones, Reached(a, p)
                 PROVE  Reached(a, p)'
      OBVIOUS
    <3>1. ASSUME NEW u \in Tickers, NEW j \in tick[u].doing
          PROVE  u # t /\ tick'[u] = tick[u]
      BY <1>1, <1>4
    <3> QED BY <1>1, <3>1 DEF Reached
  <2>2. Calm' = Calm
    BY <1>1 DEF Calm
  <2> QED BY <1>1, <2>1, <2>2, ListingFrame DEF KInv, Recorded
<1> QED BY <1>1, <1>4, <1>5, <1>6, TickFrame

LEMMA TickOverKStep ==
  ASSUME KInv, JInv', NEW t \in Tickers, TickAbort(t) \/ TickEnd(t)
  PROVE  KInv'
<1>1. /\ tick \in [Tickers -> Ticks] /\ tick' = [tick EXCEPT ![t] = IdleTick]
      /\ UNCHANGED <<row, alarms, task, shown, crashes, edits, tier>>
      /\ tick[t].jobs = {} /\ tick[t].doing = {}
  BY DEF TickAbort, TickEnd, EndTick, phones, KInv, JInv, IInv, TypeOK, LockHeld
<1>2. /\ tick'[t] = IdleTick /\ \A u \in Tickers \ {t} : tick'[u] = tick[u]
      /\ IdleTick.plan = {} /\ IdleTick.jobs = {} /\ IdleTick.doing = {}
  BY <1>1 DEF IdleTick
<1>3. PlanKinds'
  BY <1>1, <1>2 DEF KInv, Counting, PlanKinds
<1>4. Listing'
  <2>1. \A a \in Alerts, p \in Phones : Reached(a, p) => Reached(a, p)'
    <3> SUFFICES ASSUME NEW a \in Alerts, NEW p \in Phones, Reached(a, p)
                 PROVE  Reached(a, p)'
      OBVIOUS
    <3>1. ASSUME NEW u \in Tickers, NEW j \in tick[u].doing
          PROVE  u # t /\ tick'[u] = tick[u]
      BY <1>1, <1>2
    <3> QED BY <1>1, <3>1 DEF Reached
  <2>2. Calm' => Calm
    BY <1>1, TroubleFacts DEF TickAbort, TickEnd, KInv, JInv, Calm
  <2> QED BY <1>1, <2>1, <2>2, ListingFrame DEF KInv, Recorded
<1> QED BY <1>1, <1>2, <1>3, <1>4, TickFrame

\* The commit marks what its plan says, and nothing else.
LEMMA CommitMarks ==
  ASSUME KInv, NEW t \in Tickers, TickCommit(t), NEW a \in Alerts
  PROVE  /\ row'[a].created = row[a].created /\ row'[a].escalateAt = row[a].escalateAt
         /\ row'[a].escalatedAt =
              IF "escalate" \in Planned(t, a) THEN tick[t].at ELSE row[a].escalatedAt
         /\ row'[a].count = row[a].count + Bit("repeat" \in Planned(t, a))
         /\ tick[t].at # None
         /\ "escalate" \in Planned(t, a) =>
              /\ "repeat" \notin Planned(t, a) /\ row[a].escalatedAt = None
              /\ ~ToEveryone(Kind[a])
         /\ "repeat" \in Planned(t, a) => Repeats(Kind[a])
<1> DEFINE d == Planned(t, a)
           r == row[a]
           at == tick[t].at
<1>1. /\ row'[a] = RowAfter(t, a) /\ r \in Rows /\ tick[t].pc = "read"
      /\ at \in Nat /\ at # None
  BY BoundsAssumption DEF TickCommit, KInv, JInv, IInv, TypeOK, LockHeld, Time, None
<1>2. \A w \in d : \E j \in tick[t].plan : j.alert = a /\ j.what = w
  BY DEF Planned
<1>3. \A w, v \in d : w = v
  BY <1>2 DEF KInv, JInv, IInv, PlanIsCurrent
<1>4. "escalate" \in d => row[a].escalatedAt = None /\ row[a].escalateAt # None
  BY <1>2 DEF KInv, JInv, PlanJustified, Counting, PlanKinds
<1>5. "repeat" \in d => Repeats(Kind[a])
  BY <1>2 DEF KInv, Counting, PlanKinds
<1>6. "escalate" \in d => ~ToEveryone(Kind[a])
  BY <1>4 DEF KInv, Counting, RowKinds
<1> HIDE DEF d
<1>7. r.count \in Nat
  BY <1>1, BoundsAssumption DEF Rows
<1>8. CASE d \cap {"expire", "handled"} # {}
  <2>1. row'[a] = [r EXCEPT !.closedAt = at] /\ "escalate" \notin d /\ "repeat" \notin d
    BY <1>1, <1>3, <1>8 DEF RowAfter, d
  <2> QED BY <1>1, <1>7, <2>1 DEF Rows, Bit, d
<1>9. CASE d \cap {"expire", "handled"} = {} /\ "escalate" \in d
  <2>1. row'[a] = [r EXCEPT !.escalatedAt = at] /\ "repeat" \notin d
    BY <1>1, <1>3, <1>9 DEF RowAfter, d
  <2> QED BY <1>1, <1>4, <1>6, <1>7, <1>9, <2>1 DEF Rows, Bit, d
<1>10. CASE d \cap {"expire", "handled"} = {} /\ "escalate" \notin d /\ "repeat" \in d
  <2>1. row'[a] = [r EXCEPT !.count = @ + 1, !.lastAt = at]
    BY <1>1, <1>10 DEF RowAfter, d
  <2>2. /\ row'[a].count = r.count + 1 /\ row'[a].created = r.created
        /\ row'[a].escalatedAt = r.escalatedAt /\ row'[a].escalateAt = r.escalateAt
    BY <1>1, <2>1 DEF Rows
  <2> QED BY <1>1, <1>5, <1>10, <2>2 DEF Bit, d
<1>11. CASE d \cap {"expire", "handled", "escalate", "repeat"} = {}
  <2>1. row'[a] = r
    BY <1>1, <1>11 DEF RowAfter, d
  <2> QED BY <1>1, <1>7, <1>11, <2>1 DEF Bit, d
<1> QED BY <1>8, <1>9, <1>10, <1>11

LEMMA TickCommitKStep ==
  ASSUME KInv, JInv', NEW t \in Tickers, TickCommit(t)
  PROVE  KInv'
<1> DEFINE jobs == {[what |-> j.what, alert |-> j.alert,
                     already |-> row[j.alert].sentTo] : j \in FollowUps(t)}
           new == [IdleTick EXCEPT !.pc = "follow", !.jobs = jobs]
<1>1. /\ tick \in [Tickers -> Ticks] /\ tick' = [tick EXCEPT ![t] = new]
      /\ tick[t].pc = "read" /\ tick[t].plan \in SUBSET Plans
      /\ UNCHANGED <<alarms, task, shown, crashes, faults, edits, tier>>
  BY DEF KInv, JInv, IInv, TypeOK, TickCommit, Ticks, world, phones
<1>2. new.plan = {} /\ new.jobs = jobs /\ new.doing = {}
  BY DEF IdleTick
<1>3. \A j \in jobs : \E k \in tick[t].plan :
         j = [what |-> k.what, alert |-> k.alert, already |-> row[k.alert].sentTo]
  BY DEF FollowUps
<1>4. \A k \in tick[t].plan : k.what \in {"escalate", "repeat"} =>
         \E j \in jobs : j.alert = k.alert /\ j.what = k.what
  <2> SUFFICES ASSUME NEW k \in tick[t].plan, k.what \in {"escalate", "repeat"}
               PROVE  \E j \in jobs : j.alert = k.alert /\ j.what = k.what
    OBVIOUS
  <2> DEFINE j == [what |-> k.what, alert |-> k.alert, already |-> row[k.alert].sentTo]
  <2>1. k \in FollowUps(t)
    BY DEF FollowUps
  <2>2. j \in jobs /\ j.alert = k.alert /\ j.what = k.what
    BY <2>1
  <2> QED BY <2>2
<1> HIDE DEF jobs, new
<1>5. tick'[t] = new /\ \A u \in Tickers \ {t} : tick'[u] = tick[u]
  BY <1>1
<1>6. \A u \in Tickers : tick[u].jobs = {} /\ tick[u].doing = {}
                         /\ (u # t => tick[u].plan = {})
  BY <1>1, Idlers DEF KInv, JInv, IInv, LockHeld
<1>7. \A k \in tick[t].plan : /\ k.alert \in Alerts
                              /\ \A l \in tick[t].plan : l.alert = k.alert => l.what = k.what
  BY <1>1 DEF Plans, KInv, JInv, IInv, PlanIsCurrent
<1>8. JobsOnce'
  <2>1. \A j, k \in jobs : j.alert = k.alert => j = k
    <3> SUFFICES ASSUME NEW j \in jobs, NEW k \in jobs, j.alert = k.alert
                 PROVE  j = k
      OBVIOUS
    <3>1. PICK l \in tick[t].plan :
            j = [what |-> l.what, alert |-> l.alert, already |-> row[l.alert].sentTo]
      BY <1>3
    <3>2. PICK m \in tick[t].plan :
            k = [what |-> m.what, alert |-> m.alert, already |-> row[m.alert].sentTo]
      BY <1>3
    <3>3. l.alert = m.alert /\ l.what = m.what
      BY <1>7, <3>1, <3>2
    <3> QED BY <3>1, <3>2, <3>3
  <2>2. \A j \in jobs : j.what = "escalate" => row'[j.alert].escalatedAt # None
    <3> SUFFICES ASSUME NEW j \in jobs, j.what = "escalate"
                 PROVE  row'[j.alert].escalatedAt # None
      OBVIOUS
    <3>1. PICK k \in tick[t].plan : k.what = "escalate" /\ k.alert = j.alert
      BY <1>3
    <3>2. j.alert \in Alerts /\ "escalate" \in Planned(t, j.alert)
      BY <1>7, <3>1 DEF Planned
    <3> QED BY <3>2, CommitMarks
  <2> QED BY <1>2, <1>5, <1>6, <2>1, <2>2 DEF JobsOnce
<1>9. Listing'
  <2>1. \A a \in Alerts : row'[a].sentTo = row[a].sentTo /\ Recorded(a)' = Recorded(a)
    BY CommitsOne, CommitMarks DEF KInv, Recorded
  <2>2. \A a \in Alerts, p \in Phones : Reached(a, p) => Reached(a, p)'
    BY <1>1, <1>6, <2>1 DEF Reached
  <2>3. Calm' = Calm
    BY <1>1 DEF Calm
  <2> QED BY <1>1, <2>1, <2>2, <2>3, ListingFrame DEF KInv
<1>10. PlanKinds'
  BY <1>2, <1>5, <1>6 DEF PlanKinds
<1>11. RowKinds'
  <2> SUFFICES ASSUME NEW a \in Alerts
               PROVE  /\ ToEveryone(Kind[a]) =>
                           row'[a].escalateAt = None /\ row'[a].escalatedAt = None
                      /\ row'[a].count > 0 => Repeats(Kind[a])
    BY DEF RowKinds
  <2>1. row[a].count \in Nat
    BY BoundsAssumption DEF KInv, JInv, IInv, TypeOK, Rows
  <2> QED BY <2>1, CommitMarks DEF KInv, Counting, RowKinds, Bit
<1>12. Rostered'
  BY <1>1 DEF KInv, Counting, Rostered
<1>13. AlarmsCounted'
  <2> SUFFICES ASSUME NEW a \in Alerts, NEW p \in Phones
               PROVE  alarms[a][p] + Bit(Due(a, "repeat")')
                        <= Bit(FirstPush(a, p)) + Bit(BackupPush(a, p)') + row'[a].count
    BY <1>1 DEF AlarmsCounted, FirstPush, Pushed
  <2>1. /\ alarms[a][p] + Bit(Due(a, "repeat"))
             <= Bit(FirstPush(a, p)) + Bit(BackupPush(a, p)) + row[a].count
        /\ alarms[a][p] \in Nat /\ row[a].count \in Nat
    BY BoundsAssumption DEF KInv, Counting, AlarmsCounted, JInv, IInv, TypeOK, Rows
  <2>2. \A w : ~Due(a, w)
    BY <1>6 DEF Due
  <2>3. \A w \in {"escalate", "repeat"} : Due(a, w)' <=> w \in Planned(t, a)
    <3> SUFFICES ASSUME NEW w \in {"escalate", "repeat"}
                 PROVE  Due(a, w)' <=> w \in Planned(t, a)
      OBVIOUS
    <3>1. Due(a, w)' <=> \E j \in jobs : j.alert = a /\ j.what = w
      BY <1>2, <1>5, <1>6 DEF Due
    <3>2. w \in Planned(t, a) <=> \E k \in tick[t].plan : k.alert = a /\ k.what = w
      BY DEF Planned
    <3> QED BY <1>3, <1>4, <3>1, <3>2
  <2>4. BackupPush(a, p)' <=> BackupPush(a, p)
    BY <1>1, <2>2, <2>3, CommitMarks DEF BackupPush
  <2>5. /\ row'[a].count = row[a].count + Bit(Due(a, "repeat")')
        /\ Bit(Due(a, "repeat")) = 0 /\ Bit(Due(a, "repeat")') \in {0, 1}
        /\ Bit(BackupPush(a, p)') = Bit(BackupPush(a, p))
        /\ Bit(BackupPush(a, p)) \in {0, 1} /\ Bit(FirstPush(a, p)) \in {0, 1}
    BY <2>2, <2>3, <2>4, CommitMarks DEF Bit
  <2> QED BY <2>1, <2>5
<1> QED BY <1>8, <1>9, <1>10, <1>11, <1>12, <1>13 DEF KInv, Counting

\* A follow-up starts: its mark turns into alarms of the phones it is for.
LEMMA StartKStep ==
  ASSUME KInv, JInv', NEW t \in Tickers, NEW j \in tick[t].jobs, StartFollowUp(t, j)
  PROVE  KInv'
<1> DEFINE new == [tick[t] EXCEPT !.doing = {j}, !.waiting = Targets(j)]
           T == Targets(j)
<1>1. /\ tick \in [Tickers -> Ticks] /\ tick[t].pc = "follow" /\ tick[t].doing = {}
      /\ tick' = [tick EXCEPT ![t] = new]
      /\ UNCHANGED <<row, task, shown, crashes, faults, edits, tier>>
      /\ alarms' = IF j.what = "handled" THEN alarms
                   ELSE [alarms EXCEPT ![j.alert] =
                           [p \in Phones |-> @[p] + IF p \in T THEN 1 ELSE 0]]
      /\ alarms \in [Alerts -> [Phones -> Nat]]
  BY DEF StartFollowUp, world, phones, KInv, JInv, IInv, TypeOK
<1>2. /\ j.alert \in Alerts /\ j.what \in JobKinds
      /\ new.plan = tick[t].plan /\ new.jobs = tick[t].jobs /\ new.doing = {j}
  BY <1>1 DEF Ticks, Jobs
<1>3. j.what = "escalate" => \A p \in T : tier[p] = "backup"
  BY DEF Targets, InTier
<1> HIDE DEF new, T
<1>4. /\ tick'[t] = new /\ \A u \in Tickers \ {t} : tick'[u] = tick[u]
      /\ \A u \in Tickers \ {t} : tick[u].jobs = {}
  BY <1>1, Idlers DEF KInv, JInv
<1>5. JobsOnce'
  BY <1>1, <1>2, <1>4 DEF KInv, JobsOnce
<1>6. Listing'
  <2>1. \A a \in Alerts, p \in Phones : Reached(a, p) => Reached(a, p)'
    BY <1>1, <1>4 DEF Reached
  <2>2. Calm' = Calm
    BY <1>1 DEF Calm
  <2> QED BY <1>1, <2>1, <2>2, ListingFrame DEF KInv, Recorded
<1>7. PlanKinds' /\ RowKinds' /\ Rostered'
  BY <1>1, <1>2, <1>4 DEF KInv, Counting, PlanKinds, RowKinds, Rostered
<1>8. AlarmsCounted'
  <2> SUFFICES ASSUME NEW a \in Alerts, NEW p \in Phones
               PROVE  alarms'[a][p] + Bit(Due(a, "repeat")')
                        <= Bit(FirstPush(a, p)) + Bit(BackupPush(a, p)') + row[a].count
    BY <1>1 DEF AlarmsCounted, FirstPush, Pushed
  <2>1. /\ alarms[a][p] + Bit(Due(a, "repeat"))
             <= Bit(FirstPush(a, p)) + Bit(BackupPush(a, p)) + row[a].count
        /\ alarms[a][p] \in Nat /\ row[a].count \in Nat
        /\ Bit(FirstPush(a, p)) \in {0, 1}
    BY BoundsAssumption DEF KInv, Counting, AlarmsCounted, JInv, IInv, TypeOK, Rows, Bit
  <2>2. \A w : /\ Due(a, w) <=> \E k \in tick[t].jobs : k.alert = a /\ k.what = w
               /\ Due(a, w)' <=> \E k \in tick[t].jobs \ {j} : k.alert = a /\ k.what = w
    BY <1>1, <1>2, <1>4 DEF Due
  <2>3. CASE a # j.alert
    <3>1. \A w : Due(a, w)' <=> Due(a, w)
      BY <2>2, <2>3
    <3>2. alarms'[a] = alarms[a]
      BY <1>1, <2>3
    <3>3. /\ Bit(BackupPush(a, p)') = Bit(BackupPush(a, p))
          /\ Bit(Due(a, "repeat")') = Bit(Due(a, "repeat"))
      BY <1>1, <3>1 DEF BackupPush, Bit
    <3> QED BY <2>1, <3>2, <3>3
  <2>4. CASE a = j.alert
    <3>1. \A w : ~Due(a, w)' /\ (Due(a, w) <=> w = j.what)
      BY <2>2, <2>4 DEF KInv, JobsOnce
    <3>2. Bit(Due(a, "repeat")') = 0
          /\ Bit(Due(a, "repeat")) = IF j.what = "repeat" THEN 1 ELSE 0
      BY <3>1 DEF Bit
    <3>3. CASE j.what = "handled"
      <4>1. alarms' = alarms /\ BackupPush(a, p)' = BackupPush(a, p)
        BY <1>1, <3>1, <3>3 DEF BackupPush
      <4> QED BY <2>1, <3>2, <3>3, <4>1
    <3>4. CASE j.what = "repeat"
      <4>1. BackupPush(a, p)' = BackupPush(a, p) /\ Bit(BackupPush(a, p)) \in {0, 1}
        BY <1>1, <3>1, <3>4 DEF BackupPush, Bit
      <4>2. alarms'[a][p] <= alarms[a][p] + 1 /\ alarms'[a][p] \in Nat
        BY <1>1, <2>4, <3>4
      <4> QED BY <2>1, <3>2, <3>4, <4>1, <4>2
    <3>5. CASE j.what = "escalate"
      <4>1. ~BackupPush(a, p)
        BY <3>1, <3>5 DEF BackupPush
      <4>2. alarms'[a][p] = alarms[a][p] + (IF p \in T THEN 1 ELSE 0)
        BY <1>1, <2>4, <3>5
      <4>3. p \in T => BackupPush(a, p)'
        <5>1. row[a].escalatedAt # None
          BY <2>4, <3>5 DEF KInv, JobsOnce
        <5>2. edits \in Nat
          BY TroubleFacts DEF KInv, JInv
        <5>3. p \in T => edits > 0 \/ InitTier[p] = "backup"
          BY <1>3, <3>5, <5>2 DEF KInv, Counting, Rostered
        <5> QED BY <1>1, <3>1, <5>1, <5>3 DEF BackupPush
      <4>4. /\ Bit(BackupPush(a, p)) = 0 /\ Bit(BackupPush(a, p)') \in {0, 1}
            /\ p \in T => Bit(BackupPush(a, p)') = 1
        BY <4>1, <4>3 DEF Bit
      <4> QED BY <2>1, <3>2, <3>5, <4>2, <4>4
    <3> QED BY <1>2, <3>3, <3>4, <3>5 DEF JobKinds
  <2> QED BY <2>3, <2>4
<1> QED BY <1>5, <1>6, <1>7, <1>8 DEF KInv, Counting

LEMMA SendKStep ==
  ASSUME KInv, Resending, JInv', NEW t \in Tickers, NEW j \in tick[t].jobs, NEW p \in Phones,
         NEW o \in Outcomes, SendFollowUp(t, j, p, o)
  PROVE  KInv'
<1> DEFINE new == Answered(tick[t], j.alert, p, o)
           face == IF j.what = "handled" THEN "handled" ELSE "alert"
<1>1. /\ tick \in [Tickers -> Ticks] /\ j \in tick[t].doing
      /\ tick' = [tick EXCEPT ![t] = new] /\ Push(j.alert, p, o, face)
      /\ UNCHANGED <<row, task, alarms, crashes, edits, tier>>
  BY DEF SendFollowUp, Push, KInv, JInv, IInv, TypeOK
<1>2. /\ new.plan = tick[t].plan /\ new.jobs = tick[t].jobs /\ new.doing = tick[t].doing
      /\ tick[t].accepted \subseteq new.accepted
      /\ o = "sent" => p \in new.accepted
  BY <1>1 DEF Ticks, Answered
<1>3. face = "alert" <=> j.what # "handled"
  OBVIOUS
<1> HIDE DEF new, face
<1>4. tick'[t] = new /\ \A u \in Tickers \ {t} : tick'[u] = tick[u]
  BY <1>1
<1>5. Calm' => Calm /\ o \in {"sent", "gone"}
  <2>1. j.alert \in Alerts
    BY <1>1 DEF Ticks, Jobs
  <2> QED BY <1>1, <2>1, TroubleFacts DEF KInv, JInv, Push, Calm, Resending, Fault, NoFault
<1>6. ASSUME NEW b \in Alerts, NEW q \in Phones, shown'[b][q] # shown[b][q]
      PROVE  b = j.alert /\ q = p /\ o \in {"sent", "unsure"} /\ shown'[b][q] = face
  <2>1. shown \in [Alerts -> [Phones -> {"none", "alert", "handled"}]]
    BY DEF KInv, JInv, IInv, TypeOK
  <2> QED BY <1>1, <1>6, <2>1 DEF Push
<1>7. Listing'
  <2>1. ASSUME NEW b \in Alerts, NEW q \in Phones, Reached(b, q)
        PROVE  Reached(b, q)'
    BY <1>1, <1>2, <1>4, <2>1 DEF Reached
  <2>2. ASSUME Calm', NEW b \in Alerts, NEW q \in Phones, shown'[b][q] = "alert",
               shown[b][q] # "alert"
        PROVE  Reached(b, q)'
    <3>1. b = j.alert /\ q = p /\ o = "sent" /\ j.what # "handled"
      BY <1>3, <1>5, <1>6, <2>2
    <3>2. j \in tick'[t].doing /\ q \in tick'[t].accepted
      BY <1>1, <1>2, <1>4, <3>1
    <3> QED BY <3>1, <3>2 DEF Reached
  <2> QED BY <1>1, <1>5, <2>1, <2>2, ListingFrame DEF KInv, Recorded
<1>8. PlanKinds'
  BY <1>1, <1>2, <1>4 DEF KInv, Counting, PlanKinds
<1> QED BY <1>1, <1>2, <1>4, <1>7, <1>8, TickFrame

LEMMA FinishKStep ==
  ASSUME KInv, JInv', NEW t \in Tickers, NEW j \in tick[t].jobs,
         EndFollowUp(t, j) \/ FailFollowUp(t, j)
  PROVE  KInv'
<1> DEFINE new == Without(tick[t], j)
<1>1. /\ tick \in [Tickers -> Ticks] /\ tick' = [tick EXCEPT ![t] = new]
      /\ tick[t].doing \in {{}, {j}} /\ tick[t].pc = "follow"
      /\ UNCHANGED <<task, alarms, shown, crashes, edits, tier>>
  BY DEF EndFollowUp, FailFollowUp, FollowUpDone, world, phones, KInv, JInv, IInv, TypeOK, JobsOnce
<1>2. new.plan = tick[t].plan /\ new.jobs = tick[t].jobs \ {j} /\ new.doing = {}
  BY <1>1 DEF Ticks, Without
<1>3. j.alert \in Alerts /\ row \in [Alerts -> Rows]
  BY <1>1 DEF Ticks, Jobs, KInv, JInv, IInv, TypeOK
<1> HIDE DEF new
<1>4. tick'[t] = new /\ \A u \in Tickers \ {t} : tick'[u] = tick[u]
  BY <1>1
<1>5. \A a \in Alerts :
        /\ row'[a].created = row[a].created /\ row'[a].escalatedAt = row[a].escalatedAt
        /\ row'[a].escalateAt = row[a].escalateAt /\ row'[a].count = row[a].count
        /\ row[a].sentTo \subseteq row'[a].sentTo
        /\ a # j.alert => row'[a] = row[a]
  BY <1>3 DEF EndFollowUp, FailFollowUp, Rows, Listed
<1>6. EndFollowUp(t, j) /\ j.what # "handled" => tick[t].accepted \subseteq row'[j.alert].sentTo
  BY <1>3 DEF EndFollowUp, Rows, Listed
<1>7. FailFollowUp(t, j) => ~Calm'
  BY TroubleFacts DEF FailFollowUp, KInv, JInv
<1>8. Listing'
  <2>1. \A a \in Alerts : ~Recorded(a)' => ~Recorded(a) /\ row'[a].sentTo = row[a].sentTo
    BY <1>5 DEF KInv, JInv, IInv, JobsAgree, Recorded
  <2>2. Calm' => Calm /\ EndFollowUp(t, j)
    BY <1>1, <1>7 DEF EndFollowUp, world, Calm
  <2>3. ASSUME Calm', NEW a \in Alerts, NEW p \in Phones, Reached(a, p)
        PROVE  Reached(a, p)'
    <3>1. CASE p \in row[a].sentTo
      BY <1>5, <3>1 DEF Reached
    <3>2. CASE task[a].pc = "sending" /\ p \in task[a].accepted
      BY <1>1, <3>2 DEF Reached
    <3>3. ASSUME NEW u \in Tickers, NEW k \in tick[u].doing,
                 k.alert = a /\ k.what # "handled" /\ p \in tick[u].accepted
          PROVE  Reached(a, p)'
      <4>1. CASE u = t
        <5>1. k = j
          BY <1>1, <3>3, <4>1
        <5> QED BY <1>6, <2>2, <2>3, <3>3, <4>1, <5>1 DEF Reached
      <4>2. CASE u # t
        BY <1>4, <3>3, <4>2 DEF Reached
      <4> QED BY <4>1, <4>2
    <3> QED BY <2>3, <3>1, <3>2, <3>3 DEF Reached
  <2> QED BY <1>1, <2>1, <2>2, <2>3, ListingFrame DEF KInv
<1>9. PlanKinds'
  <2>1. \A u \in Tickers : \A k \in tick[u].plan : k.alert \in Alerts
    BY <1>1 DEF Ticks, Plans
  <2>2. \A u \in Tickers : tick'[u].plan = tick[u].plan
    BY <1>2, <1>4
  <2> QED BY <1>5, <2>1, <2>2, PlanFrame DEF KInv, Counting
<1>10. \A u \in Tickers : /\ tick'[u].jobs \subseteq tick[u].jobs
                          /\ tick'[u].doing \subseteq tick[u].doing
                          /\ tick'[u].jobs \ tick'[u].doing \subseteq tick[u].jobs \ tick[u].doing
  BY <1>1, <1>2, <1>4
<1> QED BY <1>1, <1>5, <1>8, <1>9, <1>10, TickFrame

(***************************************************************************)
(* The theorems.                                                           *)
(***************************************************************************)
LEMMA NextKInv == KInv /\ Resending /\ [Next]_vars => KInv' /\ Resending'
<1> SUFFICES ASSUME KInv, Resending, [Next]_vars PROVE KInv' /\ Resending'
  OBVIOUS
<1>1. JInv'
  BY NextJInv DEF KInv
<1>2. ASSUME NEW a \in Alerts, AlertStep(a) \/ CancelAlert(a) PROVE KInv'
  BY <1>1, <1>2, TaskKStep, StartPushKStep, PushKStep, RecordKStep DEF AlertStep
<1>3. ASSUME NEW t \in Tickers, TickStep(t) PROVE KInv'
  <2>1. ASSUME NEW j \in tick[t].jobs,
               StartFollowUp(t, j) \/ EndFollowUp(t, j)
                 \/ \E p \in Phones, o \in Outcomes : SendFollowUp(t, j, p, o)
        PROVE KInv'
    BY <1>1, <2>1, StartKStep, FinishKStep, SendKStep
  <2> QED BY <1>1, <1>3, <2>1, TickReadKStep, TickCommitKStep, TickOverKStep DEF TickStep
<1>4. ASSUME NEW t \in Tickers, TickAbort(t) \/ \E j \in tick[t].jobs : FailFollowUp(t, j)
      PROVE KInv'
  BY <1>1, <1>4, TickOverKStep, FinishKStep
<1>5. ASSUME \/ \E r \in Requests : PhoneAckWrite(r)
             \/ \E r \in Requests, a \in Alerts :
                  DashboardAck(r, a) \/ \E p \in Phones : PhoneAckRead(r, a, p)
             \/ Advance
             \/ \E p \in Phones : Unsubscribe(p) \/ \E t \in Tiers : EditRoster(p, t)
             \/ UNCHANGED vars
      PROVE  KInv'
  BY <1>1, <1>5, OthersKStep
<1>6. Resending'
  BY <1>1, NextResending DEF KInv, JInv
<1> QED BY <1>1, <1>2, <1>3, <1>4, <1>5, <1>6, CrashKStep DEF Next

\* What is known of the phones an alert reaches holds in every reachable state.
THEOREM ReachInvariance == Spec => [](KInv /\ Resending)
<1> QED BY InitKInv, InitResending, NextKInv, PTL DEF Spec

\* While nothing fails, whoever sees an alert can be told that it is handled:
\* the phone is on the row's list once no push about the alert is under way.
THEOREM EveryoneIsListedHolds == Spec => []EveryoneIsListed
<1>1. KInv => EveryoneIsListed
  BY DEF KInv, Listing, ShownReached, Calm, Reached, EveryoneIsListed, Working
<1> QED BY <1>1, ReachInvariance, PTL

\* An alert is sent at most once when it is raised or escalated, twice if the
\* roster changed in between, and MaxRepeats times as a reminder; each message
\* goes out a second time at most, and only after a push that went wrong.
THEOREM AlarmsBoundedHolds == Spec => []AlarmsBounded
<1>1. KInv /\ Resending => AlarmsBounded
  <2> SUFFICES ASSUME KInv, Resending, NEW a \in Alerts, NEW p \in Phones
               PROVE  LET messages == (IF edits = 0 THEN 1 ELSE 2)
                                      + (IF Repeats(Kind[a]) THEN MaxRepeats ELSE 0)
                          posts == alarms[a][p] + resent[a][p]
                      IN /\ alarms[a][p] <= messages
                         /\ posts <= messages + messages
                         /\ posts <= messages + faults
    BY DEF AlarmsBounded
  <2>1. /\ alarms[a][p] + Bit(Due(a, "repeat"))
             <= Bit(FirstPush(a, p)) + Bit(BackupPush(a, p)) + row[a].count
        /\ alarms[a][p] \in Nat /\ row[a].count \in 0 .. MaxRepeats /\ MaxRepeats \in Nat
    BY BoundsAssumption DEF KInv, Counting, AlarmsCounted, JInv, IInv, TypeOK, Rows
  <2>2. row[a].count <= IF Repeats(Kind[a]) THEN MaxRepeats ELSE 0
    BY <2>1 DEF KInv, Counting, RowKinds
  <2>3. edits = 0 => ~(FirstPush(a, p) /\ BackupPush(a, p))
    BY DEF FirstPush, BackupPush, KInv, Counting, RowKinds
  <2>4. /\ Bit(Due(a, "repeat")) \in {0, 1}
        /\ Bit(FirstPush(a, p)) \in {0, 1} /\ Bit(BackupPush(a, p)) \in {0, 1}
        /\ edits = 0 => Bit(FirstPush(a, p)) + Bit(BackupPush(a, p)) <= 1
    BY <2>3 DEF Bit
  <2>5. alarms[a][p] <= (IF edits = 0 THEN 1 ELSE 2)
                        + (IF Repeats(Kind[a]) THEN MaxRepeats ELSE 0)
    BY <2>1, <2>2, <2>4
  <2>6. /\ resent[a][p] \in Nat /\ faults \in Nat
        /\ resent[a][p] <= alarms[a][p] /\ resent[a][p] <= faults
    BY ResentTypes DEF KInv, JInv, Resending
  <2> QED BY <2>1, <2>5, <2>6
<1> QED BY <1>1, ReachInvariance, PTL
=============================================================================
