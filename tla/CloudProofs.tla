------------------------------- MODULE CloudProofs -------------------------------
(***************************************************************************)
(* What the box exchanges with the outside: proofs about FleetControl,     *)
(* OfflineWatchdog, RemoteTunnel and SupportUploads, for all their         *)
(* parameters.  Each part has lemmas on its first state, its steps and     *)
(* what its invariant says (Init, Next, Safe), which StoreProofs cites,    *)
(* and a theorem.                                                          *)
(***************************************************************************)
EXTENDS Integers, Sequences, WellFoundedInduction, TLAPS

CONSTANTS
  Restarts, Probes, MaxPlan, FleetTroubles,
  MaxEdits, MaxOutages, WatchTroubles,
  Callers, Checks, MaxStarts, MaxCalls, TunnelTroubles,
  Prints, Cap, Reports, MaxCaptures, MaxUpdates, UploadTroubles

VARIABLES
  app, boot, stored, phase, copy, sent, answer, timer, published, heard, fired, newest, blind,
  trials,
  phones, wake, loop, upload, pending, handled, told, held, outage, outagePhase, lastRun, overtaken,
  incidents,
  disk, using, inPlan, thread, event, proc, sup, frpc, call, calls, checking, started, crossed,
  stale, troubles,
  mem, file, flushing, captured, post, vps, report, cursor, checkin, undone, mishap

F == INSTANCE FleetControl WITH MaxTroubles <- FleetTroubles
W == INSTANCE OfflineWatchdog WITH phase <- outagePhase, MaxTroubles <- WatchTroubles
O == INSTANCE RemoteTunnel WITH mem <- using, plan <- inPlan, MaxTroubles <- TunnelTroubles
U == INSTANCE SupportUploads WITH MaxTroubles <- UploadTroubles

-------------------------------------------------------------------------------
(* FleetControl: any commands, plans and crashes.                          *)

AnyRow == [plan : Int, seen : SUBSET F!Commands, results : SUBSET F!Commands]

FleetShapes ==
  /\ stored \in AnyRow /\ copy \in AnyRow
  /\ answer \in [plan : Int, commands : SUBSET F!Commands]
  /\ newest \in Int /\ fired \in [Restarts -> Nat] /\ blind \in {"no", "yes"}

\* The check-in's copy is ahead of the stored row: nobody else saves.
CopyAhead ==
  phase # "idle" =>
    /\ stored.seen \subseteq copy.seen /\ copy.plan = stored.plan
    /\ copy.seen \subseteq copy.results \cup heard

\* A restart that waits or was made is of a command the stored row has noted, and
\* the one that waits is the first.
RestartsNoted ==
  \A c \in Restarts :
    /\ fired[c] <= 1
    /\ timer = c => fired[c] = 0
    /\ (timer = c \/ fired[c] > 0) => c \in stored.seen

FleetSound == CopyAhead /\ RestartsNoted /\ F!AnswersKept /\ F!PlanKept

FleetInv == FleetShapes /\ (blind = "no" => FleetSound)

\* What is no command's name.
FleetNames == {"none", "plan"} \cap Restarts = {}

-------------------------------------------------------------------------------

\* The types follow from every step's assignments.
LEMMA FleetShapesStep ==
  ASSUME FleetShapes, [F!Next]_(F!vars)
  PROVE  FleetShapes'
<1>1. ASSUME NEW c \in F!Commands, copy' = F!Noted(c) PROVE copy' \in AnyRow
  BY <1>1 DEF FleetShapes, F!Noted, AnyRow
<1>2. ASSUME NEW plan \in 0..published, NEW cs \in SUBSET F!Commands, F!Receive(plan, cs) PROVE FleetShapes'
  <2>1. copy' \in AnyRow
    BY <1>2 DEF FleetShapes, F!Receive, F!Left, AnyRow
  <2> QED BY <1>2, <2>1 DEF FleetShapes, F!Receive, F!ghosts
<1>3. CASE F!ApplyPlan
  <2>1. copy' \in AnyRow
    BY <1>3 DEF FleetShapes, F!ApplyPlan, AnyRow
  <2>2. copy'.plan \in Int
    BY <2>1 DEF AnyRow
  <2> QED BY <1>3, <2>1, <2>2 DEF FleetShapes, F!ApplyPlan, F!Save
<1>4. ASSUME NEW c \in F!Commands, F!Replay(c) \/ F!Probe(c) \/ F!RunRestart(c) PROVE FleetShapes'
  <2>1. answer' \in [plan : Int, commands : SUBSET F!Commands]
    BY <1>4 DEF FleetShapes, F!Replay, F!Probe, F!RunRestart, F!Run
  <2>2. copy' \in AnyRow
    BY <1>1, <1>4 DEF FleetShapes, F!Replay, F!Probe, F!RunRestart
  <2>3. copy'.plan \in Int
    BY <2>2 DEF AnyRow
  <2> QED BY <1>4, <2>1, <2>2, <2>3 DEF FleetShapes, F!Replay, F!Probe, F!RunRestart, F!Run,
     F!Save
<1>5. CASE F!Fail \/ F!Finish
  <2>1. F!Blank \in AnyRow /\ copy.plan \in Int
    BY DEF FleetShapes, F!Blank, AnyRow
  <2> QED BY <1>5, <2>1 DEF FleetShapes, F!Fail, F!Finish, F!Save, F!Nothing
<1>6. CASE F!RestartLater
  BY <1>6 DEF FleetShapes, F!RestartLater, F!checkin
<1>7. CASE F!BeginCheckin \/ F!BeginBlind \/ F!Crash \/ F!Exit
  <2>1. F!Blank \in AnyRow /\ F!Nothing \in [plan : Int, commands : SUBSET F!Commands]
    BY DEF F!Blank, AnyRow, F!Nothing
  <2> QED BY <1>7, <2>1 DEF FleetShapes, F!BeginCheckin, F!BeginBlind, F!Begin, F!Crash, F!Exit,
     F!Vanish, F!ghosts
<1>8. CASE F!Start \/ F!Publish \/ F!KeepPlan \/ F!CheckRestart \/ UNCHANGED F!vars
  BY <1>8 DEF FleetShapes, F!Start, F!Publish, F!KeepPlan, F!CheckRestart, F!vars, F!checkin,
     F!ghosts
<1> QED BY <1>2, <1>3, <1>4, <1>5, <1>6, <1>7, <1>8 DEF F!Next

\* Beginning: what the check-in works on is the stored row.
LEMMA BeginSound ==
  ASSUME FleetShapes, FleetSound, F!BeginCheckin PROVE FleetSound'
  BY DEF FleetShapes, FleetSound, CopyAhead, RestartsNoted, F!AnswersKept, F!PlanKept,
     F!BeginCheckin, F!Begin, AnyRow, F!ctl

\* What is saved has noted all that was noted, with the same plan or a newer one.
LEMMA SaveSound ==
  ASSUME FleetShapes, FleetSound, phase # "idle", phase' = "idle", F!Save(copy), heard \subseteq heard',
         UNCHANGED <<timer, fired>>
  PROVE  FleetSound'
<1>1. stored' = copy /\ copy.plan = newest /\ newest' = newest
  BY DEF F!Save, FleetSound, CopyAhead, F!PlanKept
<1> QED BY <1>1 DEF FleetShapes, FleetSound, CopyAhead, RestartsNoted, F!AnswersKept, F!PlanKept

\* A result leaves the queue only with the answer that says it has arrived.
LEMMA ReceiveSound ==
  ASSUME FleetShapes, FleetSound, NEW plan \in 0..published, NEW cs \in SUBSET F!Commands, F!Receive(plan, cs)
  PROVE  FleetSound'
<1>1. /\ copy'.seen = copy.seen /\ copy'.plan = copy.plan /\ copy'.results = copy.results \ sent
      /\ heard' = heard \cup sent /\ phase # "idle"
  BY DEF FleetShapes, AnyRow, F!Receive, F!Left
<1>2. UNCHANGED <<stored, timer, fired, newest>>
  BY DEF F!Receive, F!ctl, F!ghosts
<1> QED BY <1>1, <1>2 DEF FleetSound, CopyAhead, RestartsNoted, F!AnswersKept, F!PlanKept

\* A plan that is applied is newer than any before it.
LEMMA ApplySound ==
  ASSUME FleetShapes, FleetSound, FleetNames, F!ApplyPlan PROVE FleetSound'
<1>1. /\ stored' = copy' /\ copy'.seen = copy.seen /\ copy'.results = copy.results
      /\ copy'.plan = answer.plan /\ answer.plan > stored.plan /\ phase # "idle"
  BY DEF FleetShapes, AnyRow, F!ApplyPlan, F!Newer, F!Save
<1>2. answer.plan \in Int /\ stored.plan = newest /\ newest \in Int
  BY DEF FleetShapes, FleetSound, F!PlanKept
<1>3. newest' = copy'.plan
  BY <1>1, <1>2 DEF F!ApplyPlan, F!Save
<1>4. heard' = heard /\ fired' = fired /\ timer' \in {timer, "plan"}
  BY DEF F!ApplyPlan, F!Schedule
<1>5. \A c \in Restarts : timer' = c => timer = c
  BY <1>4 DEF FleetNames
<1> QED BY <1>1, <1>3, <1>4, <1>5 DEF FleetSound, CopyAhead, RestartsNoted, F!AnswersKept,
   F!PlanKept

\* A command that is run is new, and noted before anything waits for it.
LEMMA CommandSound ==
  ASSUME FleetShapes, FleetSound, NEW c \in F!Commands, F!Replay(c) \/ F!Probe(c) \/ F!RunRestart(c) PROVE FleetSound'
<1>1. phase = "commands" /\ phase' = phase /\ heard' = heard /\ fired' = fired
  BY DEF F!Replay, F!Probe, F!RunRestart, F!Run
<1>2. CASE F!Replay(c)
  BY <1>1, <1>2 DEF F!Replay, FleetSound, CopyAhead, RestartsNoted, F!AnswersKept, F!PlanKept
<1>3. ASSUME copy' = F!Noted(c)
      PROVE  /\ copy'.seen = copy.seen \cup {c} /\ copy'.results = copy.results \cup {c}
             /\ copy'.plan = copy.plan
  BY <1>3 DEF F!Noted, FleetShapes, AnyRow
<1>4. CASE F!Probe(c)
  BY <1>1, <1>3, <1>4 DEF F!Probe, FleetSound, CopyAhead, RestartsNoted, F!AnswersKept, F!PlanKept
<1>5. CASE F!RunRestart(c)
  <2>1. stored' = copy' /\ c \notin copy.seen /\ timer' \in {timer, c}
    BY <1>5 DEF F!RunRestart, F!Save, F!Schedule
  <2>2. newest' = newest /\ copy.plan = newest
    BY <1>1, <1>3, <1>5 DEF F!RunRestart, F!Save, FleetSound, CopyAhead, F!PlanKept
  <2>3. c \in Restarts => fired[c] = 0 /\ timer # c
    BY <1>1, <2>1 DEF FleetSound, CopyAhead, RestartsNoted, FleetShapes
  <2> QED BY <1>1, <1>3, <1>5, <2>1, <2>2, <2>3
          DEF F!RunRestart, FleetSound, CopyAhead, RestartsNoted, F!AnswersKept, F!PlanKept
<1> QED BY <1>2, <1>4, <1>5

\* A restart that was waiting is made once.
LEMMA RestartSound ==
  ASSUME FleetShapes, FleetSound, FleetNames, F!RestartLater PROVE FleetSound'
<1>1. UNCHANGED <<stored, copy, phase, heard, newest>> /\ timer' = "none"
  BY DEF F!RestartLater, F!checkin
<1>2. \A c \in Restarts : fired'[c] = IF c = timer /\ fired[c] < 2 THEN fired[c] + 1 ELSE fired[c]
  BY DEF F!RestartLater
<1>3. \A c \in Restarts : fired'[c] <= 1 /\ (fired'[c] > 0 => c \in stored.seen)
  BY <1>2 DEF FleetSound, RestartsNoted, FleetShapes
<1>4. \A c \in Restarts : timer' # c
  BY <1>1 DEF FleetNames
<1> QED BY <1>1, <1>3, <1>4 DEF FleetSound, CopyAhead, RestartsNoted, F!AnswersKept, F!PlanKept

-------------------------------------------------------------------------------

\* The three hold after every step of a box that could read its row.
LEMMA SoundStep ==
  ASSUME FleetShapes, FleetSound, FleetNames, [F!Next]_(F!vars), blind' = "no"
  PROVE  FleetSound'
<1>1. ASSUME NEW plan \in 0..published, NEW cs \in SUBSET F!Commands, F!Receive(plan, cs) PROVE FleetSound'
  BY <1>1, ReceiveSound
<1>2. CASE F!BeginCheckin
  BY <1>2, BeginSound
<1>3. CASE F!BeginBlind
  BY <1>3 DEF F!BeginBlind
<1>4. CASE F!Fail
  BY <1>4, SaveSound DEF F!Fail, F!ctl
<1>5. CASE F!Finish
  BY <1>5, SaveSound DEF F!Finish, F!ctl
<1>6. CASE F!ApplyPlan
  BY <1>6, ApplySound
<1>7. ASSUME NEW c \in F!Commands, F!Replay(c) \/ F!Probe(c) \/ F!RunRestart(c) PROVE FleetSound'
  BY <1>7, CommandSound
<1>8. CASE F!RestartLater
  BY <1>8, RestartSound
<1>9. CASE F!Crash \/ F!Exit
  BY <1>9 DEF F!Crash, F!Exit, F!Vanish, FleetNames, F!ghosts, FleetSound, CopyAhead,
     RestartsNoted, F!AnswersKept, F!PlanKept
<1>10. CASE F!CheckRestart
  BY <1>10 DEF F!CheckRestart, F!Schedule, FleetNames, F!checkin, F!ghosts, FleetSound, CopyAhead,
     RestartsNoted,
     F!AnswersKept, F!PlanKept
<1>11. CASE F!Start \/ F!Publish \/ F!KeepPlan \/ UNCHANGED F!vars
  BY <1>11 DEF F!Start, F!Publish, F!KeepPlan, F!vars, F!ctl, F!checkin, F!ghosts, FleetSound,
     CopyAhead, RestartsNoted,
     F!AnswersKept, F!PlanKept
<1> QED BY <1>1, <1>2, <1>3, <1>4, <1>5, <1>6, <1>7, <1>8, <1>9, <1>10, <1>11 DEF F!Next

\* A box that has once begun with an unreadable row is never again one that has not.
LEMMA BlindForGood ==
  ASSUME FleetShapes, [F!Next]_(F!vars), blind' = "no" PROVE blind = "no"
  BY DEF FleetShapes, F!Next, F!Start, F!Crash, F!Exit, F!Vanish, F!Publish, F!BeginCheckin,
     F!BeginBlind, F!Begin, F!Fail, F!Receive,
     F!ApplyPlan, F!KeepPlan, F!Finish, F!Replay, F!Probe, F!RunRestart, F!Run, F!CheckRestart,
     F!RestartLater, F!vars, F!ghosts

\* The invariant holds at the start.
LEMMA FleetInit == FleetNames /\ F!Init => FleetInv
BY DEF F!Init, FleetInv, FleetShapes, FleetSound, CopyAhead, RestartsNoted, F!AnswersKept,
   F!PlanKept,
   F!Blank, F!Nothing, AnyRow, FleetNames

\* No step breaks it.
LEMMA FleetNext == FleetNames /\ FleetInv /\ [F!Next]_(F!vars) => FleetInv'
BY FleetShapesStep, SoundStep, BlindForGood DEF FleetInv

\* It says that the commands are sound.
LEMMA FleetSafe == FleetInv => F!CommandsSound
BY DEF FleetInv, FleetSound, RestartsNoted, F!CommandsSound, F!RestartsOnce

\* Until a check-in begins with a row it cannot read: a restart command restarts
\* the box once at most, a command that was noted is answered or its result is
\* queued, and the plan on the box is the newest it ever had, whatever is sent
\* again and whenever the box crashes (_checkin, _run_command, schedule_restart).
THEOREM CommandsHold ==
  ASSUME FleetNames
  PROVE  F!Spec => []F!CommandsSound
BY FleetInit, FleetNext, FleetSafe, PTL DEF F!Spec

-------------------------------------------------------------------------------
(* FleetControl: the domains.                                              *)

\* There are a last plan and a last trouble.
FleetLimits == MaxPlan \in Nat /\ FleetTroubles \in Nat

\* The domains at the start.
LEMMA FleetTypesInit == FleetLimits => (F!Init => F!TypeOK)
BY DEF FleetLimits, F!Init, F!TypeOK, F!Row, F!Blank, F!Nothing

\* No step leaves them.
LEMMA FleetTypesNext == FleetLimits => (F!TypeOK /\ [F!Next]_(F!vars) => F!TypeOK')
<1> SUFFICES ASSUME FleetLimits, F!TypeOK, [F!Next]_(F!vars) PROVE F!TypeOK'
  OBVIOUS
<1> USE DEF FleetLimits, F!TypeOK, F!Trouble
<1>1. /\ F!Blank \in F!Row /\ F!Nothing \in [plan : 0..MaxPlan, commands : SUBSET F!Commands]
      /\ \A r \in F!Row : r.plan \in 0..MaxPlan /\ r.results \subseteq F!Commands
      /\ \A p \in 0..MaxPlan : F!Paused(p) \in 0..1
  BY DEF F!Blank, F!Row, F!Nothing, F!Paused
<1>2. CASE F!Start \/ F!Publish \/ F!CheckRestart \/ UNCHANGED F!vars
  BY <1>1, <1>2 DEF F!Start, F!Publish, F!CheckRestart, F!Schedule, F!vars, F!ctl, F!checkin,
     F!ghosts
<1>3. CASE F!Crash \/ F!Exit
  BY <1>1, <1>3 DEF F!Crash, F!Exit, F!Vanish, F!ghosts
<1>4. CASE F!BeginCheckin \/ F!BeginBlind
  BY <1>1, <1>4 DEF F!BeginCheckin, F!BeginBlind, F!Begin, F!ctl
<1>5. CASE F!Fail \/ F!Finish
  BY <1>1, <1>5 DEF F!Fail, F!Finish, F!Save, F!ctl
<1>6. ASSUME NEW plan \in 0..published, NEW cs \in SUBSET F!Commands, F!Receive(plan, cs)
      PROVE  F!TypeOK'
  <2>1. copy' \in F!Row
    BY <1>6 DEF F!Receive, F!Left, F!Row
  <2> QED BY <1>6, <2>1 DEF F!Receive, F!ctl, F!ghosts
<1>7. CASE F!ApplyPlan
  <2>1. copy' \in F!Row
    BY <1>7 DEF F!ApplyPlan, F!Row
  <2>2. copy'.plan \in 0..MaxPlan
    BY <1>1, <2>1
  <2> QED BY <1>7, <2>1, <2>2 DEF F!ApplyPlan, F!Save, F!Schedule
<1>8. CASE F!KeepPlan
  BY <1>8 DEF F!KeepPlan, F!ctl, F!ghosts
<1>11. ASSUME NEW c \in F!Commands, copy' = F!Noted(c) PROVE copy' \in F!Row
  BY <1>11 DEF F!Noted, F!Row
<1>9. ASSUME NEW c \in F!Commands, F!Replay(c) \/ F!Probe(c) \/ F!RunRestart(c)
      PROVE  F!TypeOK'
  <2>1. copy' \in F!Row
    BY <1>9, <1>11 DEF F!Replay, F!Probe, F!RunRestart
  <2>2. answer' \in [plan : 0..MaxPlan, commands : SUBSET F!Commands]
    BY <1>9 DEF F!Replay, F!Probe, F!RunRestart, F!Run
  <2>3. copy'.plan \in 0..MaxPlan
    BY <1>1, <2>1
  <2> QED BY <1>9, <2>1, <2>2, <2>3 DEF F!Replay, F!Probe, F!RunRestart, F!Run, F!Save, F!Schedule
<1>10. CASE F!RestartLater
  BY <1>10 DEF F!RestartLater, F!checkin
<1> QED BY <1>2, <1>3, <1>4, <1>5, <1>6, <1>7, <1>8, <1>9, <1>10 DEF F!Next

-------------------------------------------------------------------------------
(* OfflineWatchdog: any edits, outages and failures.                       *)

Upload == [step : {"none", "sent", "answered", "telling"}, list : Nat, ack : Nat, reply : Nat]
WatchShapes ==
  /\ phones \in Nat /\ outage \in Nat /\ pending \in Nat /\ held \in Int
  /\ upload \in [W!Uploaders -> Upload]
  /\ \A u \in W!Uploaders : upload[u].list <= phones
  /\ upload["loop"].step # "none" <=> loop = "uploading"

\* What is acknowledged, or about to be, was told; the VPS has an outage to forget.
AcksTold ==
  /\ pending = 0 \/ pending \in told
  /\ \A u \in W!Uploaders : upload[u].ack = 0 \/ upload[u].ack \in told
  /\ outagePhase # "none" => outage # 0

\* The VPS has the list as it is, or an older one by an upload of the page that
\* came late, and then the page's next has it as it is.
VpsCurrent ==
  \/ held = phones
  \/ overtaken = "yes" /\ (upload["page"].step = "sent" => upload["page"].list = phones)

\* While nobody has poked the loop, its upload has the list as it is.
UploadCurrent ==
  wake = "clear" =>
    /\ upload["loop"].step # "none" => upload["loop"].list = phones
    /\ upload["loop"].step \in {"answered", "telling"} => VpsCurrent
    /\ loop = "wait" /\ lastRun = "stored" => VpsCurrent

WatchInv == WatchShapes /\ AcksTold /\ UploadCurrent /\ W!AckedAreTold

LEMMA NoUploadIs ==
  W!NoUpload \in Upload /\ W!NoUpload.step = "none" /\ W!NoUpload.list = 0 /\ W!NoUpload.ack = 0
BY DEF W!NoUpload, Upload

LEMMA WatchInit == W!Init => WatchInv
BY NoUploadIs DEF W!Init, WatchInv, WatchShapes, AcksTold, UploadCurrent, W!AckedAreTold,
   W!Uploaders

LEMMA WatchNext == WatchInv /\ [W!Next]_(W!vars) => WatchInv'
<1> SUFFICES ASSUME WatchInv, [W!Next]_(W!vars) PROVE WatchInv'
  OBVIOUS
<1> USE NoUploadIs DEF WatchInv, WatchShapes, AcksTold, UploadCurrent, W!AckedAreTold, VpsCurrent, W!Uploaders, Upload,
    W!Incident, W!memory, W!watched
<1>1. CASE W!Edit \/ W!Woken \/ W!TimedOut
  BY <1>1 DEF W!Edit, W!Woken, W!TimedOut
<1>2. CASE W!Outage
  BY <1>2 DEF W!Outage
<1>10. CASE W!Back
  BY <1>10 DEF W!Back
<1>9. CASE W!Restart
  <2>1. WatchShapes'
    BY <1>9 DEF W!Restart
  <2>2. AcksTold' /\ W!AckedAreTold'
    BY <1>9 DEF W!Restart
  <2>3. UploadCurrent'
    BY <1>9 DEF W!Restart
  <2> QED BY <2>1, <2>2, <2>3
<1>3. ASSUME NEW u \in W!Uploaders, W!Build(u) PROVE WatchInv'
  <2> DEFINE r == [W!NoUpload EXCEPT !.step = "sent", !.list = phones, !.ack = pending]
  <2>0. r \in Upload /\ r.step = "sent" /\ r.list = phones /\ r.ack = pending
    OBVIOUS
  <2>5. upload' = [upload EXCEPT ![u] = r]
    BY <1>3 DEF W!Build
  <2> HIDE DEF r
  <2>1. WatchShapes'
    BY <1>3, <2>0, <2>5 DEF W!Build
  <2>2. AcksTold' /\ W!AckedAreTold'
    BY <1>3, <2>0, <2>5 DEF W!Build
  <2>3. UploadCurrent'
    BY <1>3, <2>0, <2>5 DEF W!Build
  <2> QED BY <2>1, <2>2, <2>3
<1>4. ASSUME NEW u \in W!Uploaders, W!Arrive(u) PROVE WatchInv'
  BY <1>4 DEF W!Arrive
<1>5. ASSUME NEW u \in W!Uploaders, W!Fail(u) PROVE WatchInv'
  BY <1>5 DEF W!Fail, W!Done
<1>6. ASSUME NEW u \in W!Uploaders, W!Receive(u) PROVE WatchInv'
  BY <1>6 DEF W!Receive, W!Taken, W!Done
<1>7. ASSUME NEW u \in W!Uploaders, W!Tell(u) PROVE WatchInv'
  BY <1>7 DEF W!Tell, W!Done
<1>8. CASE UNCHANGED W!vars
  BY <1>8 DEF W!vars
<1> QED BY <1>1, <1>2, <1>3, <1>4, <1>5, <1>6, <1>7, <1>8, <1>9, <1>10 DEF W!Next

LEMMA WatchSafe == WatchInv => W!WatchdogSound
BY DEF WatchInv, W!WatchdogSound, UploadCurrent, VpsCurrent, W!HeldIsCurrent

\* The VPS forgets an outage only when the phones were told of it, and a loop that
\* rests after an upload that was stored has left it the phones as they are, for
\* every number of edits, outages and troubles (offline_watchdog.py).
THEOREM WatchdogHolds == W!Spec => []W!WatchdogSound
BY WatchInit, WatchNext, WatchSafe, PTL DEF W!Spec

-------------------------------------------------------------------------------
(* OfflineWatchdog: the domains.                                           *)

\* There are a last edit, outage and trouble.
WatchLimits == MaxEdits \in Nat /\ MaxOutages \in Nat /\ WatchTroubles \in Nat

\* The phones are told of an outage that has been.
WatchTypes ==
  /\ W!TypeOK
  /\ \A u \in W!Uploaders : upload[u].step = "telling" => upload[u].reply > 0

\* The domains at the start.
LEMMA WatchTypesInit == WatchLimits => (W!Init => WatchTypes)
BY DEF WatchLimits, W!Init, WatchTypes, W!TypeOK, W!NoUpload

\* No step leaves them.
LEMMA WatchTypesNext == WatchLimits => (WatchInv /\ WatchTypes /\ [W!Next]_(W!vars) => WatchTypes')
<1> SUFFICES ASSUME WatchLimits, WatchShapes, WatchTypes, [W!Next]_(W!vars) PROVE WatchTypes'
  BY DEF WatchInv
<1> USE DEF WatchLimits, WatchTypes, W!TypeOK, W!memory, W!watched
<1>1. /\ upload \in [W!Uploaders -> Upload]
      /\ W!NoUpload.step = "none" /\ W!NoUpload.list = 0 /\ W!NoUpload.ack = 0 /\ W!NoUpload.reply = 0
  BY DEF WatchShapes, W!NoUpload
<1>2. CASE W!Edit
  BY <1>2 DEF W!Edit, W!TypeOK
<1>8. CASE W!Woken \/ W!TimedOut \/ W!Back \/ UNCHANGED W!vars
  BY <1>8 DEF W!Woken, W!TimedOut, W!Back, W!vars
<1>9. CASE W!Outage
  <2>1. outage' = outage + 1 /\ outage' \in 0..MaxOutages /\ UNCHANGED <<upload, W!memory>>
    BY <1>9 DEF W!Outage
  <2>2. outage \in Nat /\ \A u \in W!Uploaders : upload[u].ack \in 0..outage' /\ upload[u].reply \in 0..outage'
    BY <2>1
  <2>3. pending \in 0..outage' /\ told \subseteq 1..outage'
    BY <2>1
  <2> QED BY <1>9, <2>1, <2>2, <2>3 DEF W!Outage
<1>3. CASE W!Restart
  BY <1>1, <1>3 DEF W!Restart, W!Incident
<1>4. ASSUME NEW u \in W!Uploaders, W!Build(u) PROVE WatchTypes'
  <2> DEFINE r == [W!NoUpload EXCEPT !.step = "sent", !.list = phones, !.ack = pending]
  <2>1. upload' = [upload EXCEPT ![u] = r] /\ r.step = "sent" /\ r.list = phones /\ r.ack = pending
        /\ r.reply = 0
    BY <1>4 DEF W!Build, W!NoUpload
  <2> HIDE DEF r
  <2> QED BY <1>1, <1>4, <2>1 DEF W!Build
<1>5. ASSUME NEW u \in W!Uploaders, W!Arrive(u) PROVE WatchTypes'
  <2> DEFINE rest == IF outagePhase = "over" /\ upload[u].ack = outage THEN "acked" ELSE outagePhase
             n == IF rest = "over" THEN outage ELSE 0
  <2>1. /\ upload' = [upload EXCEPT ![u].step = "answered", ![u].reply = n]
        /\ n \in 0..outage
    BY <1>5 DEF W!Arrive
  <2>2. /\ \A v \in W!Uploaders : v # u => upload'[v] = upload[v]
        /\ upload'[u].step = "answered" /\ upload'[u].reply = n /\ upload'[u].list = upload[u].list
        /\ upload'[u].ack = upload[u].ack
    BY <1>1, <2>1 DEF Upload
  <2>3. /\ outagePhase' \in {"none", "under_way", "over", "acked"} /\ held' \in 0..phones
        /\ UNCHANGED <<phones, wake, loop, W!memory, outage, lastRun, incidents>>
    BY <1>5 DEF W!Arrive
  <2> HIDE DEF n
  <2>4. \A v \in W!Uploaders : /\ upload'[v].step \in {"none", "sent", "answered", "telling"}
                               /\ upload'[v].list \in 0..phones
                               /\ upload'[v].ack \in 0..outage /\ upload'[v].reply \in 0..outage
                               /\ upload'[v].step = "telling" => upload'[v].reply > 0
    BY <2>1, <2>2
  <2> QED BY <2>3, <2>4
<1>6. ASSUME NEW u \in W!Uploaders, W!Fail(u) \/ W!Tell(u) PROVE WatchTypes'
  <2>1. upload' = [upload EXCEPT ![u] = W!NoUpload] /\ UNCHANGED <<phones, wake, W!watched>>
    BY <1>6 DEF W!Fail, W!Tell, W!Done
  <2>2. \A v \in W!Uploaders : /\ upload'[v].step \in {"none", "sent", "answered", "telling"}
                               /\ upload'[v].list \in 0..phones
                               /\ upload'[v].ack \in 0..outage /\ upload'[v].reply \in 0..outage
                               /\ upload'[v].step = "telling" => upload'[v].reply > 0
    BY <1>1, <2>1
  <2>3. CASE W!Fail(u)
    BY <2>1, <2>2, <2>3 DEF W!Fail, W!Done, W!Incident
  <2>4. CASE W!Tell(u)
    <3>1. pending' = upload[u].reply /\ told' = told \cup {upload[u].reply}
          /\ handled' = handled \cup {upload[u].reply} /\ upload[u].step = "telling"
          /\ UNCHANGED <<phones, wake, W!watched, incidents>>
      BY <2>4 DEF W!Tell
    <3>2. upload[u].reply \in 0..outage /\ upload[u].reply > 0 /\ outage \in Nat
      BY <3>1
    <3>3. upload[u].reply \in 1..outage
      BY <3>2
    <3>4. loop' \in {"wait", "debounce", "uploading"} /\ lastRun' \in {"none", "stored", "failed"}
      BY <2>4 DEF W!Tell, W!Done
    <3> QED BY <2>2, <3>1, <3>2, <3>3, <3>4
  <2> QED BY <1>6, <2>3, <2>4
<1>7. ASSUME NEW u \in W!Uploaders, W!Receive(u) PROVE WatchTypes'
  <2>1. pending' \in 0..outage
    BY <1>7 DEF W!Receive, W!Taken
  <2>2. CASE upload[u].reply = 0
    BY <1>1, <1>7, <2>1, <2>2 DEF W!Receive, W!Done
  <2>3. CASE upload[u].reply # 0
    <3>1. upload' = [upload EXCEPT ![u].step = "telling"]
      BY <1>7, <2>3 DEF W!Receive
    <3>2. /\ \A v \in W!Uploaders : v # u => upload'[v] = upload[v]
          /\ upload'[u].step = "telling" /\ upload'[u].reply = upload[u].reply
          /\ upload'[u].list = upload[u].list /\ upload'[u].ack = upload[u].ack
      BY <1>1, <3>1 DEF Upload
    <3> QED BY <1>7, <2>1, <2>3, <3>2 DEF W!Receive
  <2> QED BY <2>2, <2>3
<1> QED BY <1>2, <1>3, <1>4, <1>5, <1>6, <1>7, <1>8, <1>9 DEF W!Next

-------------------------------------------------------------------------------
(* RemoteTunnel: any callers, checks and launches.                         *)

TunnelBounds == MaxStarts \in Nat \ {0}

SupPc == {"none", "top", "open", "opened", "check", "read", "wait", "ended"}
CallPc == {"idle", "decide", "look", "stop", "end", "join", "start"}
SupType == [pc : SupPc, stop : BOOLEAN, with : Int]
CallType == [pc : CallPc, restart : BOOLEAN, run : BOOLEAN, thread : 0 .. MaxStarts]
TunnelSetting == [on : BOOLEAN, version : Int]

TunnelShapes ==
  /\ using \in TunnelSetting /\ disk \in TunnelSetting /\ inPlan \in BOOLEAN
  /\ checking \in [Checks -> SUBSET TunnelSetting]
  /\ started \in 0 .. MaxStarts /\ thread \in 0 .. started /\ event \in 0 .. started
  /\ proc \in 0 .. MaxStarts
  /\ sup \in [O!Sups -> SupType] /\ frpc \in [O!Sups -> Int]
  /\ call \in [Callers -> CallType]
  /\ \A t \in O!Sups : t > started => sup[t].pc = "none"

\* A child belongs to a supervisor that has opened it and not yet reaped it.
ChildWatched == \A t \in O!Sups : frpc[t] # 0 => sup[t].pc \in {"opened", "check", "read"}

\* While calls do not cross: one is at work, and where it is the tunnel agrees
\* with what it has found.
OneCall == \A c, d \in Callers : c # d => call[c].pc = "idle" \/ call[d].pc = "idle"
OneSup ==
  /\ \A t \in O!Sups \ {thread} : ~O!ThreadAlive(t)
  /\ \A t \in O!Sups : sup[t].pc \in {"check", "read"} => proc = t
Up == thread # 0 => O!ThreadAlive(thread) /\ ~sup[thread].stop /\ event = thread
Stopping(c) == call[c].pc \in {"end", "join"}

AsFound ==
  /\ (\A c \in Callers : ~Stopping(c)) => Up
  /\ O!AtRest => (thread # 0 <=> O!ShouldRun)
  /\ \A c \in Callers :
       /\ call[c].pc \in {"look", "stop", "end", "join", "start"} => call[c].run = O!ShouldRun
       /\ call[c].pc = "stop" => thread # 0
       /\ Stopping(c) => thread # 0 /\ call[c].thread = thread /\ sup[thread].stop
       /\ call[c].pc = "start" => thread = 0 /\ O!ShouldRun

\* A call that is to restart frpc has yet to stop it, or frpc is current.
Restarting(c) == call[c].restart /\ call[c].pc \in {"decide", "look", "stop", "end", "join"}
Current ==
  \A t \in O!Sups :
    /\ frpc[t] \in {0, using.version}
    /\ sup[t].pc = "open" => sup[t].with = using.version
RestartsSoon == Current \/ \E c \in Callers : Restarting(c)

Turn == OneCall /\ OneSup /\ AsFound /\ RestartsSoon
InTurn == ~crossed => Turn

TunnelInv == TunnelShapes /\ ChildWatched /\ O!SettingsLast /\ InTurn

LEMMA FirstSupIs ==
  ASSUME TunnelBounds, NEW run \in BOOLEAN
  PROVE  /\ O!FirstSup(run) \in [O!Sups -> SupType]
         /\ O!First(run) \in 0 .. MaxStarts /\ O!First(run) \in {0, 1} /\ (O!First(run) # 0 <=> run)
         /\ \A t \in O!Sups : /\ O!FirstSup(run)[t].pc = IF t = O!First(run) THEN "top" ELSE "none"
                              /\ ~O!FirstSup(run)[t].stop
<1>1. O!NoSup \in SupType /\ O!NoSup.pc = "none" /\ O!NoSup.stop = FALSE
  BY DEF O!NoSup, SupType, SupPc
<1>2. 1 \in O!Sups /\ \A t \in O!Sups : t # 0
  BY DEF TunnelBounds, O!Sups
<1>3. [O!NoSup EXCEPT !.pc = "top"] \in SupType /\ [O!NoSup EXCEPT !.pc = "top"].pc = "top"
      /\ [O!NoSup EXCEPT !.pc = "top"].stop = FALSE
  BY <1>1 DEF SupType, SupPc
<1>4. O!First(run) \in {0, 1} /\ (O!First(run) # 0 <=> run) /\ O!First(run) \in 0 .. MaxStarts
  BY DEF O!First, TunnelBounds
<1>5. ASSUME NEW t \in O!Sups
      PROVE  /\ O!FirstSup(run)[t] \in SupType
             /\ O!FirstSup(run)[t].pc = IF t = O!First(run) THEN "top" ELSE "none"
             /\ ~O!FirstSup(run)[t].stop
  BY <1>1, <1>2, <1>3, <1>5 DEF O!FirstSup, O!First
<1>6. O!FirstSup(run) \in [O!Sups -> SupType]
  BY <1>1, <1>3 DEF O!FirstSup
<1> QED BY <1>4, <1>5, <1>6

LEMMA CallerIdleIs ==
  TunnelBounds => O!Idle \in CallType /\ O!Idle.pc = "idle" /\ O!Idle.restart = FALSE
BY DEF O!Idle, CallType, CallPc, TunnelBounds

LEMMA NoSupIs ==
  /\ O!NoSup \in SupType /\ O!NoSup.pc = "none" /\ O!NoSup.stop = FALSE
  /\ [O!NoSup EXCEPT !.pc = "top"] \in SupType /\ [O!NoSup EXCEPT !.pc = "top"].pc = "top"
  /\ [O!NoSup EXCEPT !.pc = "top"].stop = FALSE
<1>1. O!NoSup \in SupType /\ O!NoSup.pc = "none" /\ O!NoSup.stop = FALSE
  BY DEF O!NoSup, SupType, SupPc
<1> QED BY <1>1 DEF SupType, SupPc

LEMMA TunnelInit == TunnelBounds /\ O!Init => TunnelInv
<1> SUFFICES ASSUME TunnelBounds, O!Init PROVE TunnelInv
  OBVIOUS
<1>0. using \in TunnelSetting /\ disk = using /\ inPlan = TRUE /\ O!ShouldRun \in BOOLEAN
  BY DEF O!Init, TunnelSetting, O!ShouldRun
<1> DEFINE run == O!ShouldRun
<1>1. /\ sup \in [O!Sups -> SupType] /\ thread \in 0 .. MaxStarts /\ thread \in {0, 1}
      /\ (thread # 0 <=> O!ShouldRun) /\ event = thread /\ started = thread
      /\ \A t \in O!Sups : /\ sup[t].pc = IF t = thread THEN "top" ELSE "none"
                           /\ ~sup[t].stop
  BY <1>0, FirstSupIs DEF O!Init
<1>2. TunnelShapes
  BY <1>0, <1>1, CallerIdleIs DEF O!Init, TunnelShapes, TunnelSetting, TunnelBounds, O!Sups
<1>3. ChildWatched /\ O!SettingsLast
  BY <1>0 DEF O!Init, ChildWatched, O!SettingsLast
<1>4. \A c \in Callers : call[c].pc = "idle"
  BY CallerIdleIs DEF O!Init
<1>5. OneCall /\ OneSup /\ RestartsSoon
  BY <1>1, <1>4 DEF O!Init, OneCall, OneSup, O!ThreadAlive, RestartsSoon, Current
<1>6. thread # 0 => thread \in O!Sups
  BY <1>1 DEF O!Sups, TunnelBounds
<1>7. Up
  BY <1>1, <1>6 DEF Up, O!ThreadAlive
<1>8. AsFound
  BY <1>1, <1>4, <1>7 DEF AsFound, O!AtRest, Stopping
<1> QED BY <1>2, <1>3, <1>5, <1>8 DEF TunnelInv, InTurn, Turn

LEMMA CallMoves ==
  ASSUME TunnelBounds, TunnelShapes, NEW c \in Callers
  PROVE  /\ \A pc \in CallPc : [call EXCEPT ![c].pc = pc] \in [Callers -> CallType]
         /\ [call EXCEPT ![c] = O!Idle] \in [Callers -> CallType]
         /\ \A run \in BOOLEAN :
              [call EXCEPT ![c].pc = "look", ![c].run = run] \in [Callers -> CallType]
         /\ [call EXCEPT ![c].pc = "end", ![c].thread = thread] \in [Callers -> CallType]
         /\ \A restart \in BOOLEAN :
              [call EXCEPT ![c] = [O!Idle EXCEPT !.pc = "decide", !.restart = restart]]
                \in [Callers -> CallType]
<1>1. O!Idle \in CallType /\ call \in [Callers -> CallType] /\ thread \in 0 .. MaxStarts
  BY CallerIdleIs DEF TunnelShapes, TunnelBounds
<1>2. \A restart \in BOOLEAN : [O!Idle EXCEPT !.pc = "decide", !.restart = restart] \in CallType
  BY <1>1 DEF CallType, CallPc
<1>3. \A pc \in CallPc : [call[c] EXCEPT !.pc = pc] \in CallType
  BY <1>1 DEF CallType
<1>4. \A run \in BOOLEAN : [call EXCEPT ![c].pc = "look", ![c].run = run] \in [Callers -> CallType]
  BY <1>1 DEF CallType, CallPc
<1>5. [call EXCEPT ![c].pc = "end", ![c].thread = thread] \in [Callers -> CallType]
  BY <1>1 DEF CallType, CallPc
<1> QED BY <1>1, <1>2, <1>3, <1>4, <1>5

LEMMA SupMoves ==
  ASSUME TunnelBounds, TunnelShapes, NEW t \in O!Sups
  PROVE  /\ \A pc \in SupPc : [sup EXCEPT ![t].pc = pc] \in [O!Sups -> SupType]
         /\ [sup EXCEPT ![t].pc = "open", ![t].with = using.version] \in [O!Sups -> SupType]
         /\ [sup EXCEPT ![t].stop = TRUE] \in [O!Sups -> SupType]
         /\ [sup EXCEPT ![t] = [O!NoSup EXCEPT !.pc = "top"]] \in [O!Sups -> SupType]
<1>1. sup \in [O!Sups -> SupType] /\ using.version \in Int /\ [O!NoSup EXCEPT !.pc = "top"] \in SupType
  BY NoSupIs DEF TunnelShapes, TunnelSetting
<1>2. \A pc \in SupPc : [sup[t] EXCEPT !.pc = pc] \in SupType
  BY <1>1 DEF SupType
<1>3. [sup EXCEPT ![t].pc = "open", ![t].with = using.version] \in [O!Sups -> SupType]
  BY <1>1 DEF SupType, SupPc
<1>4. [sup EXCEPT ![t].stop = TRUE] \in [O!Sups -> SupType]
  BY <1>1 DEF SupType, SupPc
<1> QED BY <1>1, <1>2, <1>3, <1>4

LEMMA TunnelShapesNext ==
  ASSUME TunnelBounds, TunnelInv, O!Next
  PROVE  TunnelShapes'
<1>0. TunnelShapes
  BY DEF TunnelInv
<1> USE DEF O!settings, O!tunnel, CallPc, SupPc
<1>2. ASSUME NEW c \in Callers, O!Save(c) PROVE TunnelShapes'
  <2>1. PICK on \in BOOLEAN, change \in {0, 1} :
          /\ using' = [on |-> on, version |-> using.version + change]
          /\ O!BeginApply(c, O!NeedsRestart(using, using'))
    BY <1>2 DEF O!Save
  <2>2. using' \in TunnelSetting /\ disk' = using'
    BY <1>0, <1>2, <2>1 DEF O!Save, TunnelShapes, TunnelSetting
  <2>3. call' \in [Callers -> CallType]
    BY <1>0, <2>1, CallMoves DEF O!BeginApply, O!NeedsRestart
  <2> QED BY <1>0, <1>2, <2>2, <2>3 DEF O!Save, TunnelShapes
<1>3. ASSUME NEW c \in Callers, O!PlanTurns(c) PROVE TunnelShapes'
  BY <1>0, <1>3, CallMoves DEF O!PlanTurns, O!BeginApply, TunnelShapes
<1>4. ASSUME NEW c \in Callers, O!Decide(c) PROVE TunnelShapes'
  <2>1. O!ShouldRun \in BOOLEAN
    BY <1>0 DEF O!ShouldRun, TunnelSetting, TunnelShapes
  <2>2. call' \in [Callers -> CallType]
    BY <1>0, <1>4, <2>1, CallMoves DEF O!Decide
  <2> QED BY <1>0, <1>4, <2>2 DEF O!Decide, TunnelShapes
<1>5. ASSUME NEW c \in Callers, O!Look(c) PROVE TunnelShapes'
  <2>2. call' \in [Callers -> CallType]
    <3>1. ASSUME NEW pc \in CallPc, O!Move(c, pc) PROVE call' \in [Callers -> CallType]
      BY <1>0, <3>1, CallMoves DEF O!Move
    <3>2. CASE O!Done(c)
      BY <1>0, <3>2, CallMoves DEF O!Done
    <3> QED BY <1>5, <3>1, <3>2 DEF O!Look
  <2> QED BY <1>0, <1>5, <2>2 DEF O!Look, TunnelShapes
<1>6. ASSUME NEW c \in Callers, O!SetEvent(c) PROVE TunnelShapes'
  <2>1. event # 0 => event \in O!Sups
    BY <1>0 DEF TunnelShapes, O!Sups, TunnelBounds
  <2>2. call' \in [Callers -> CallType] /\ sup' \in [O!Sups -> SupType]
    BY <1>0, <1>6, <2>1, CallMoves, SupMoves DEF O!SetEvent, TunnelShapes
  <2>3. \A t \in O!Sups : sup'[t].pc = sup[t].pc
    BY <1>0, <1>6, <2>1 DEF O!SetEvent, TunnelShapes, SupType
  <2> QED BY <1>0, <1>6, <2>2, <2>3 DEF O!SetEvent, TunnelShapes
<1>7. ASSUME NEW c \in Callers, O!End(c) \/ O!EndAgain(c) PROVE TunnelShapes'
  <2>2. call' \in [Callers -> CallType]
    <3>1. CASE O!Move(c, "join")
      BY <1>0, <3>1, CallMoves DEF O!Move
    <3> QED BY <1>0, <1>7, <3>1 DEF O!End, O!EndAgain, TunnelShapes
  <2>3. frpc' \in [O!Sups -> Int]
    BY <1>0, <1>7 DEF O!End, O!EndAgain, O!EndChild, TunnelShapes
  <2> QED BY <1>0, <1>7, <2>2, <2>3 DEF O!End, O!EndAgain, TunnelShapes
<1>8. ASSUME NEW c \in Callers, O!Forget(c) PROVE TunnelShapes'
  <2>2. call' \in [Callers -> CallType]
    <3>1. CASE O!Move(c, "start")
      BY <1>0, <3>1, CallMoves DEF O!Move
    <3>2. CASE O!Done(c)
      BY <1>0, <3>2, CallMoves DEF O!Done
    <3> QED BY <1>8, <3>1, <3>2 DEF O!Forget
  <2>3. thread' \in 0 .. started
    BY <1>0, <1>8 DEF O!Forget, TunnelShapes, TunnelBounds
  <2> QED BY <1>0, <1>8, <2>2, <2>3 DEF O!Forget, TunnelShapes
<1>9. ASSUME NEW c \in Callers, O!Start(c) PROVE TunnelShapes'
  <2>1. started + 1 \in O!Sups /\ started' = started + 1 /\ started' \in 0 .. MaxStarts
        /\ thread' \in 0 .. started' /\ event' \in 0 .. started'
    BY <1>0, <1>9 DEF O!Start, O!StartSupervisor, TunnelShapes, O!Sups, TunnelBounds
  <2>2. call' \in [Callers -> CallType] /\ sup' \in [O!Sups -> SupType]
    BY <1>0, <1>9, <2>1, CallMoves, SupMoves DEF O!Start, O!Done, O!StartSupervisor
  <2>3. \A t \in O!Sups : t > started' => t > started /\ sup'[t] = sup[t]
    BY <1>0, <1>9, <2>1 DEF O!Start, O!StartSupervisor, TunnelShapes, O!Sups, TunnelBounds
  <2> QED BY <1>0, <1>9, <2>1, <2>2, <2>3 DEF O!Start, TunnelShapes
<1>10. ASSUME NEW t \in O!Sups, O!Supervise(t) PROVE TunnelShapes'
  <2>1. sup' \in [O!Sups -> SupType]
    <3>1. CASE sup' = [sup EXCEPT ![t].pc = "open", ![t].with = using.version]
      BY <1>0, <3>1, SupMoves
    <3>2. ASSUME NEW pc \in SupPc, O!SupMove(t, pc) PROVE sup' \in [O!Sups -> SupType]
      BY <1>0, <3>2, SupMoves DEF O!SupMove
    <3>3. CASE sup' = sup
      BY <1>0, <3>3 DEF TunnelShapes
    <3> QED
      BY <1>10, <3>1, <3>2, <3>3
      DEF O!Supervise, O!Prepare, O!PrepareFails, O!Open, O!OpenFails, O!Register, O!Check,
         O!Reap, O!Wait, O!Dies, O!Otherwise
  <2>2. \A u \in O!Sups : sup[u].pc = "none" => sup'[u].pc = "none"
    BY <1>0, <1>10
    DEF O!Supervise, O!Prepare, O!PrepareFails, O!Open, O!OpenFails, O!Register, O!Check, O!Reap,
       O!Wait, O!Dies, O!SupMove, O!Otherwise, TunnelShapes, SupType
  <2>3. frpc' \in [O!Sups -> Int]
    BY <1>0, <1>10
    DEF O!Supervise, O!Prepare, O!PrepareFails, O!Open, O!OpenFails, O!Register, O!Check, O!Reap,
       O!Wait, O!Dies, O!EndChild, TunnelShapes, SupType
  <2>4. proc' \in 0 .. MaxStarts
    BY <1>0, <1>10
    DEF O!Supervise, O!Prepare, O!PrepareFails, O!Open, O!OpenFails, O!Register, O!Check, O!Reap,
       O!Wait, O!Dies, TunnelShapes, O!Sups, TunnelBounds
  <2>5. UNCHANGED <<O!settings, thread, event, started, call>>
    BY <1>10
    DEF O!Supervise, O!Prepare, O!PrepareFails, O!Open, O!OpenFails, O!Register, O!Check, O!Reap,
       O!Wait, O!Dies
  <2> QED BY <1>0, <2>1, <2>2, <2>3, <2>4, <2>5 DEF TunnelShapes
<1>13. ASSUME NEW k \in Checks, O!CheckNotes(k) \/ O!CheckSaves(k) PROVE TunnelShapes'
  BY <1>0, <1>13 DEF O!CheckNotes, O!CheckSaves, TunnelShapes
<1>14. CASE O!Restart
  <2>1. disk.on \in BOOLEAN /\ (disk.on /\ inPlan) \in BOOLEAN
    BY <1>0 DEF TunnelSetting, TunnelShapes
  <2> DEFINE run == disk.on /\ inPlan
  <2>2. /\ thread' = O!First(run) /\ event' = O!First(run) /\ started' = O!First(run)
        /\ sup' = O!FirstSup(run) /\ proc' = 0 /\ frpc' = [t \in O!Sups |-> 0]
        /\ call' = [c \in Callers |-> O!Idle] /\ using' = disk /\ disk' = disk /\ inPlan' = inPlan
        /\ checking' = [k \in Checks |-> {}]
    BY <1>14 DEF O!Restart
  <2> HIDE DEF run
  <2>3. /\ thread' \in {0, 1} /\ event' = thread' /\ started' = thread' /\ started' \in 0 .. MaxStarts
        /\ sup' \in [O!Sups -> SupType] /\ \A t \in O!Sups : t # thread' => sup'[t].pc = "none"
    BY <2>1, <2>2, FirstSupIs DEF run
  <2>4. call' \in [Callers -> CallType] /\ frpc' \in [O!Sups -> Int] /\ proc' \in 0 .. MaxStarts
    BY <2>2, CallerIdleIs DEF TunnelBounds
  <2>5. checking' \in [Checks -> SUBSET TunnelSetting]
    BY <2>2
  <2> QED BY <1>0, <2>2, <2>3, <2>4, <2>5 DEF TunnelShapes, O!Sups
<1> QED
  BY <1>2, <1>3, <1>4, <1>5, <1>6, <1>7, <1>8, <1>9, <1>10, <1>13, <1>14
  DEF O!Next, O!Apply

LEMMA ChildWatchedNext ==
  ASSUME TunnelBounds, TunnelInv, O!Next
  PROVE  ChildWatched'
<1>0. TunnelShapes /\ ChildWatched
  BY DEF TunnelInv
<1>1. /\ sup \in [O!Sups -> SupType] /\ frpc \in [O!Sups -> Int]
      /\ \A t \in O!Sups : t > started => sup[t].pc = "none"
      /\ started \in Nat
  BY <1>0 DEF TunnelShapes, TunnelBounds
<1> USE DEF ChildWatched, O!settings, O!tunnel
<1>2. ASSUME NEW t \in O!Sups, O!Supervise(t) PROVE ChildWatched'
  BY <1>0, <1>1, <1>2
  DEF O!Supervise, O!Prepare, O!PrepareFails, O!Open, O!OpenFails, O!Register, O!Check, O!Reap,
     O!Wait, O!Dies, O!SupMove, O!Otherwise, O!EndChild, SupType, SupPc
<1>3. ASSUME NEW c \in Callers, O!SetEvent(c) PROVE ChildWatched'
  BY <1>0, <1>1, <1>3 DEF O!SetEvent, SupType, SupPc
<1>4. ASSUME NEW c \in Callers, O!End(c) \/ O!EndAgain(c) PROVE ChildWatched'
  BY <1>0, <1>1, <1>4 DEF O!End, O!EndAgain, O!EndChild
<1>5. ASSUME NEW c \in Callers, O!Start(c) PROVE ChildWatched'
  <2>1. \A t \in O!Sups : t # started + 1 => sup'[t] = sup[t]
    BY <1>1, <1>5 DEF O!Start, O!StartSupervisor
  <2>2. started + 1 > started
    BY <1>1
  <2>3. frpc' = frpc
    BY <1>5 DEF O!Start
  <2> QED BY <1>0, <1>1, <2>1, <2>2, <2>3
<1>6. CASE O!Restart
  BY <1>6 DEF O!Restart
<1>7. CASE UNCHANGED <<sup, frpc>>
  BY <1>0, <1>7
<1> QED
  BY <1>2, <1>3, <1>4, <1>5, <1>6, <1>7
  DEF O!Next, O!Apply, O!Save, O!PlanTurns, O!Decide, O!Look, O!Forget, O!CheckNotes, O!CheckSaves

LEMMA SettingsLastNext ==
  ASSUME TunnelInv, O!Next
  PROVE  O!SettingsLast'
<1>1. CASE UNCHANGED O!settings
  BY <1>1 DEF TunnelInv, O!SettingsLast, O!settings
<1>2. CASE O!Restart
  BY <1>2 DEF O!Restart, O!SettingsLast
<1>3. ASSUME NEW c \in Callers, O!Save(c) \/ O!PlanTurns(c) PROVE O!SettingsLast'
  BY <1>3 DEF O!Save, O!PlanTurns, TunnelInv, O!SettingsLast
<1>4. ASSUME NEW k \in Checks, O!CheckNotes(k) \/ O!CheckSaves(k) PROVE O!SettingsLast'
  BY <1>4 DEF O!CheckNotes, O!CheckSaves, TunnelInv, O!SettingsLast
<1> QED
  BY <1>1, <1>2, <1>3, <1>4
  DEF O!Next, O!Apply, O!Decide, O!Look, O!SetEvent, O!End, O!EndAgain, O!Forget, O!Start,
     O!Supervise, O!Prepare, O!PrepareFails, O!Open, O!OpenFails, O!Register, O!Check, O!Reap,
     O!Wait, O!Dies

\* Where nobody is at work there is no child.
LEMMA NobodyAtWork ==
  ASSUME ChildWatched, \A t \in O!Sups : ~O!ThreadAlive(t)
  PROVE  Current
BY DEF ChildWatched, Current, O!ThreadAlive, O!Sups

LEMMA BeginKeeps ==
  ASSUME TunnelInv, NEW c \in Callers, O!Save(c) \/ O!PlanTurns(c), ~crossed'
  PROVE  Turn'
<1>1. ~crossed /\ call[c].pc = "idle" /\ \A d \in Callers \ {c} : call[d].pc = "idle"
  BY DEF O!Save, O!PlanTurns, O!BeginApply
<1>2. Turn /\ O!AtRest /\ TunnelShapes
  BY <1>1 DEF TunnelInv, InTurn, O!AtRest
<1>3. PICK restart \in BOOLEAN :
        /\ call' = [call EXCEPT ![c] = [O!Idle EXCEPT !.pc = "decide", !.restart = restart]]
        /\ restart \/ using'.version = using.version
        /\ UNCHANGED O!tunnel
  BY DEF O!Save, O!PlanTurns, O!BeginApply, O!NeedsRestart
<1> DEFINE r == [O!Idle EXCEPT !.pc = "decide", !.restart = restart]
<1>4. r.pc = "decide" /\ r.restart = restart
  BY DEF O!Idle
<1>5. call'[c] = r /\ \A d \in Callers \ {c} : call'[d] = call[d]
  BY <1>2, <1>3 DEF TunnelShapes
<1> HIDE DEF r
<1>6. call'[c].pc = "decide" /\ call'[c].restart = restart
      /\ \A d \in Callers \ {c} : call'[d].pc = "idle"
  BY <1>1, <1>4, <1>5
<1>7. OneCall'
  BY <1>6 DEF OneCall
<1>8. OneSup' /\ Up'
  BY <1>1, <1>2, <1>3 DEF Turn, OneSup, AsFound, Up, O!ThreadAlive, O!tunnel, Stopping, O!AtRest
<1>9. AsFound'
  BY <1>6, <1>8 DEF AsFound, O!AtRest, Stopping
<1>10. RestartsSoon'
  <2>1. Current
    BY <1>2 DEF Turn, RestartsSoon, Restarting, O!AtRest
  <2>2. CASE restart
    BY <1>6, <2>2 DEF RestartsSoon, Restarting
  <2>3. CASE using'.version = using.version
    BY <1>3, <2>1, <2>3 DEF RestartsSoon, Current, O!tunnel
  <2> QED BY <1>3, <2>2, <2>3
<1> QED BY <1>7, <1>8, <1>9, <1>10 DEF Turn

\* What a step of one call leaves as it was.
LEMMA OneCallStays ==
  ASSUME TunnelShapes, OneCall, NEW c \in Callers, call[c].pc # "idle",
         call' = [call EXCEPT ![c] = call'[c]]
  PROVE  /\ OneCall'
         /\ \A d \in Callers \ {c} : call[d].pc = "idle" /\ call'[d].pc = "idle"
<1>1. \A d \in Callers \ {c} : call'[d] = call[d]
  BY DEF TunnelShapes
<1> QED BY <1>1 DEF OneCall

LEMMA DecideKeeps ==
  ASSUME TunnelInv, Turn, NEW c \in Callers, O!Decide(c)
  PROVE  Turn'
<1>0. TunnelShapes /\ OneCall /\ OneSup /\ AsFound /\ RestartsSoon /\ call[c].pc = "decide"
  BY DEF TunnelInv, Turn, O!Decide
<1>1. /\ call' = [call EXCEPT ![c] = call'[c]]
      /\ call'[c].pc = "look" /\ call'[c].run = O!ShouldRun /\ call'[c].restart = call[c].restart
  BY <1>0 DEF O!Decide, TunnelShapes, CallType
<1>2. OneCall' /\ \A d \in Callers \ {c} : call[d].pc = "idle" /\ call'[d].pc = "idle"
  BY <1>0, <1>1, OneCallStays
<1>3. UNCHANGED O!tunnel /\ UNCHANGED O!settings
  BY DEF O!Decide
<1>4. OneSup' /\ Up'
  BY <1>0, <1>2, <1>3 DEF OneSup, AsFound, Up, O!ThreadAlive, O!tunnel, Stopping
<1>5. AsFound'
  BY <1>1, <1>2, <1>3, <1>4 DEF AsFound, O!AtRest, Stopping, O!ShouldRun, O!settings
<1>6. RestartsSoon'
  BY <1>0, <1>1, <1>2, <1>3 DEF RestartsSoon, Restarting, Current, O!tunnel, O!settings
<1> QED BY <1>2, <1>4, <1>5, <1>6 DEF Turn

LEMMA LookKeeps ==
  ASSUME TunnelInv, Turn, NEW c \in Callers, O!Look(c)
  PROVE  Turn'
<1>0. /\ TunnelShapes /\ OneCall /\ OneSup /\ AsFound /\ RestartsSoon /\ ChildWatched
      /\ call[c].pc = "look" /\ UNCHANGED O!tunnel /\ UNCHANGED O!settings
  BY DEF TunnelInv, Turn, O!Look
<1>1. call' = [call EXCEPT ![c] = call'[c]]
  BY <1>0 DEF O!Look, O!Move, O!Done, TunnelShapes, CallType
<1>2. OneCall' /\ \A d \in Callers \ {c} : call[d].pc = "idle" /\ call'[d].pc = "idle"
  BY <1>0, <1>1, OneCallStays
<1>3. Up /\ call[c].run = O!ShouldRun
  BY <1>0, <1>2 DEF AsFound, Stopping
<1>4. OneSup' /\ Up' /\ O!ShouldRun' = O!ShouldRun
  BY <1>0, <1>3 DEF OneSup, Up, O!ThreadAlive, O!tunnel, O!ShouldRun, O!settings
<1>5. Current => Current'
  BY <1>0 DEF Current, O!tunnel, O!settings
<1>6. ~O!ThreadAlive(thread) => thread = 0 /\ Current
  <2> SUFFICES ASSUME ~O!ThreadAlive(thread) PROVE thread = 0 /\ Current
    OBVIOUS
  <2>1. thread = 0
    BY <1>3 DEF Up
  <2>2. \A t \in O!Sups : ~O!ThreadAlive(t)
    BY <1>0, <2>1 DEF OneSup, O!Sups
  <2> QED BY <1>0, <2>1, <2>2, NobodyAtWork
<1>7. O!ThreadAlive(thread) => thread # 0
  BY DEF O!ThreadAlive
<1>8. CASE O!ThreadAlive(thread) /\ (~call[c].run \/ call[c].restart) /\ O!Move(c, "stop")
  <2>1. call'[c].pc = "stop" /\ call'[c].run = call[c].run /\ call'[c].restart = call[c].restart
    BY <1>0, <1>8 DEF O!Move, TunnelShapes, CallType
  <2>2. AsFound'
    BY <1>0, <1>2, <1>3, <1>4, <1>7, <1>8, <2>1 DEF AsFound, O!AtRest, Stopping, O!tunnel
  <2>3. RestartsSoon'
    BY <1>0, <1>2, <1>5, <2>1 DEF RestartsSoon, Restarting
  <2> QED BY <1>2, <1>4, <2>2, <2>3 DEF Turn
<1>9. ASSUME O!Done(c), \/ O!ThreadAlive(thread) /\ call[c].run /\ ~call[c].restart
                        \/ ~O!ThreadAlive(thread) /\ ~call[c].run
      PROVE  Turn'
  <2>1. call'[c].pc = "idle"
    BY <1>0, <1>9 DEF O!Done, TunnelShapes, O!Idle
  <2>2. thread # 0 <=> O!ShouldRun
    BY <1>3, <1>6, <1>7, <1>9
  <2>3. AsFound'
    BY <1>0, <1>2, <1>4, <2>1, <2>2 DEF AsFound, O!AtRest, Stopping, O!tunnel
  <2>4. Current
    BY <1>0, <1>2, <1>6, <1>9 DEF RestartsSoon, Restarting
  <2> QED BY <1>2, <1>4, <1>5, <2>3, <2>4 DEF Turn, RestartsSoon
<1>10. CASE ~O!ThreadAlive(thread) /\ call[c].run /\ O!Move(c, "start")
  <2>1. call'[c].pc = "start" /\ call'[c].run = call[c].run
    BY <1>0, <1>10 DEF O!Move, TunnelShapes, CallType
  <2>2. AsFound'
    BY <1>0, <1>2, <1>3, <1>4, <1>6, <1>10, <2>1 DEF AsFound, O!AtRest, Stopping, O!tunnel
  <2> QED BY <1>2, <1>4, <1>5, <1>6, <1>10, <2>2 DEF Turn, RestartsSoon
<1>11. \/ O!ThreadAlive(thread) /\ (~call[c].run \/ call[c].restart) /\ O!Move(c, "stop")
       \/ O!ThreadAlive(thread) /\ call[c].run /\ ~call[c].restart /\ O!Done(c)
       \/ ~O!ThreadAlive(thread) /\ call[c].run /\ O!Move(c, "start")
       \/ ~O!ThreadAlive(thread) /\ ~call[c].run /\ O!Done(c)
  BY DEF O!Look
<1>12. CASE O!ThreadAlive(thread)
  BY <1>8, <1>9, <1>11, <1>12
<1>13. CASE ~O!ThreadAlive(thread)
  BY <1>9, <1>10, <1>11, <1>13
<1> QED BY <1>12, <1>13

LEMMA StopKeeps ==
  ASSUME TunnelBounds, TunnelInv, Turn, NEW c \in Callers, O!SetEvent(c)
  PROVE  Turn'
<1>0. /\ TunnelShapes /\ OneCall /\ OneSup /\ AsFound /\ RestartsSoon
      /\ call[c].pc = "stop" /\ UNCHANGED <<thread, event, proc, frpc, started>> /\ UNCHANGED O!settings
  BY DEF TunnelInv, Turn, O!SetEvent
<1>1. /\ call' = [call EXCEPT ![c] = call'[c]]
      /\ call'[c].pc = "end" /\ call'[c].run = call[c].run /\ call'[c].restart = call[c].restart
      /\ call'[c].thread = thread
  BY <1>0 DEF O!SetEvent, TunnelShapes, CallType
<1>2. OneCall' /\ \A d \in Callers \ {c} : call[d].pc = "idle" /\ call'[d].pc = "idle"
  BY <1>0, <1>1, OneCallStays
<1>3. thread # 0 /\ Up /\ call[c].run = O!ShouldRun
  BY <1>0, <1>2 DEF AsFound, Stopping
<1>4. event = thread /\ thread \in O!Sups
  BY <1>0, <1>3 DEF Up, TunnelShapes, TunnelBounds, O!Sups
<1>5. /\ sup'[thread].stop
      /\ \A t \in O!Sups : sup'[t].pc = sup[t].pc /\ sup'[t].with = sup[t].with
  BY <1>0, <1>3, <1>4 DEF O!SetEvent, TunnelShapes, SupType
<1>6. OneSup'
  BY <1>0, <1>5 DEF OneSup, O!ThreadAlive
<1>7. AsFound'
  BY <1>0, <1>1, <1>2, <1>3, <1>5 DEF AsFound, O!AtRest, Stopping, O!ShouldRun, O!settings
<1>8. RestartsSoon'
  BY <1>0, <1>1, <1>2, <1>5 DEF RestartsSoon, Restarting, Current, O!settings
<1> QED BY <1>2, <1>6, <1>7, <1>8 DEF Turn

LEMMA EndKeeps ==
  ASSUME TunnelInv, Turn, NEW c \in Callers, O!End(c) \/ O!EndAgain(c)
  PROVE  Turn'
<1>0. /\ TunnelShapes /\ OneCall /\ OneSup /\ AsFound /\ RestartsSoon
      /\ Stopping(c) /\ UNCHANGED <<thread, event, proc, sup, started>> /\ UNCHANGED O!settings
      /\ O!EndChild
  BY DEF TunnelInv, Turn, O!End, O!EndAgain, Stopping
<1>1. /\ call' = [call EXCEPT ![c] = call'[c]]
      /\ call'[c].pc = "join" /\ call'[c].run = call[c].run /\ call'[c].restart = call[c].restart
      /\ call'[c].thread = call[c].thread
  BY <1>0 DEF O!End, O!EndAgain, O!Move, TunnelShapes, CallType
<1>2. OneCall' /\ \A d \in Callers \ {c} : call[d].pc = "idle" /\ call'[d].pc = "idle"
  BY <1>0, <1>1, OneCallStays DEF Stopping
<1>3. \A t \in O!Sups : frpc'[t] \in {0, frpc[t]}
  BY <1>0 DEF O!EndChild, TunnelShapes
<1>6. OneSup'
  BY <1>0 DEF OneSup, O!ThreadAlive
<1>7. AsFound'
  BY <1>0, <1>1, <1>2 DEF AsFound, O!AtRest, Stopping, O!ShouldRun, O!settings
<1>8. RestartsSoon'
  BY <1>0, <1>1, <1>2, <1>3 DEF RestartsSoon, Restarting, Stopping, Current, O!settings
<1> QED BY <1>2, <1>6, <1>7, <1>8 DEF Turn

LEMMA ForgetKeeps ==
  ASSUME TunnelBounds, TunnelInv, Turn, NEW c \in Callers, O!Forget(c)
  PROVE  Turn'
<1>0. /\ TunnelShapes /\ OneCall /\ OneSup /\ AsFound /\ ChildWatched
      /\ call[c].pc = "join" /\ UNCHANGED <<event, proc, sup, frpc, started>> /\ UNCHANGED O!settings
      /\ O!Joined(call[c].thread) /\ thread' = 0
  BY DEF TunnelInv, Turn, O!Forget
<1>1. /\ call' = [call EXCEPT ![c] = call'[c]]
      /\ IF call[c].run THEN call'[c].pc = "start" /\ call'[c].run ELSE call'[c].pc = "idle"
  BY <1>0 DEF O!Forget, O!Move, O!Done, TunnelShapes, CallType, O!Idle
<1>2. OneCall' /\ \A d \in Callers \ {c} : call[d].pc = "idle" /\ call'[d].pc = "idle"
  BY <1>0, <1>1, OneCallStays
<1>3. thread # 0 /\ call[c].thread = thread /\ call[c].run = O!ShouldRun
  BY <1>0 DEF AsFound, Stopping
<1>4. thread \in O!Sups
  BY <1>0, <1>3 DEF TunnelShapes, TunnelBounds, O!Sups
<1>5. \A t \in O!Sups : ~O!ThreadAlive(t)
  BY <1>0, <1>3, <1>4 DEF O!Joined, OneSup
<1>6. Current
  BY <1>0, <1>5, NobodyAtWork
<1>7. OneSup'
  BY <1>0, <1>5 DEF OneSup, O!ThreadAlive
<1>8. AsFound'
  BY <1>0, <1>1, <1>2, <1>3 DEF AsFound, O!AtRest, Stopping, Up, O!ShouldRun, O!settings
<1>9. RestartsSoon'
  BY <1>0, <1>6 DEF RestartsSoon, Current, O!settings
<1> QED BY <1>2, <1>7, <1>8, <1>9 DEF Turn

LEMMA StartKeeps ==
  ASSUME TunnelBounds, TunnelInv, Turn, NEW c \in Callers, O!Start(c)
  PROVE  Turn'
<1>0. /\ TunnelShapes /\ OneCall /\ OneSup /\ AsFound /\ ChildWatched
      /\ call[c].pc = "start" /\ UNCHANGED <<proc, frpc>> /\ UNCHANGED O!settings
      /\ O!StartSupervisor
  BY DEF TunnelInv, Turn, O!Start
<1>1. call' = [call EXCEPT ![c] = call'[c]] /\ call'[c].pc = "idle"
  BY <1>0 DEF O!Start, O!Done, TunnelShapes, O!Idle
<1>2. OneCall' /\ \A d \in Callers \ {c} : call[d].pc = "idle" /\ call'[d].pc = "idle"
  BY <1>0, <1>1, OneCallStays
<1>3. thread = 0 /\ O!ShouldRun
  BY <1>0 DEF AsFound
<1>4. \A t \in O!Sups : ~O!ThreadAlive(t)
  BY <1>0, <1>3 DEF OneSup, O!Sups
<1>5. Current
  BY <1>0, <1>4, NobodyAtWork
<1>6. /\ thread' \in O!Sups /\ event' = thread' /\ sup'[thread'].pc = "top" /\ ~sup'[thread'].stop
      /\ \A t \in O!Sups \ {thread'} : sup'[t] = sup[t]
  BY <1>0, NoSupIs DEF O!StartSupervisor, TunnelShapes, TunnelBounds, O!Sups
<1>7. thread' # 0
  BY <1>6 DEF O!Sups
<1>8. OneSup'
  BY <1>0, <1>4, <1>6 DEF OneSup, O!ThreadAlive, O!Sups
<1>9. Up' /\ O!ShouldRun' = O!ShouldRun
  BY <1>0, <1>6, <1>7 DEF Up, O!ThreadAlive, O!ShouldRun, O!settings
<1>10. AsFound'
  BY <1>1, <1>2, <1>3, <1>7, <1>9 DEF AsFound, O!AtRest, Stopping
<1>11. RestartsSoon'
  BY <1>0, <1>5, <1>6 DEF RestartsSoon, Current, O!settings
<1> QED BY <1>2, <1>8, <1>10, <1>11 DEF Turn

LEMMA SuperviseKeeps ==
  ASSUME TunnelBounds, TunnelInv, Turn, NEW t \in O!Sups, O!Supervise(t)
  PROVE  Turn'
<1>0. /\ TunnelShapes /\ OneCall /\ OneSup /\ AsFound /\ RestartsSoon /\ ChildWatched
      /\ sup \in [O!Sups -> SupType] /\ frpc \in [O!Sups -> Int] /\ using.version \in Int
  BY DEF TunnelInv, Turn, TunnelShapes, TunnelSetting
<1>1. UNCHANGED <<O!settings, thread, event, started, call>>
  BY DEF O!Supervise, O!Prepare, O!PrepareFails, O!Open, O!OpenFails, O!Register, O!Check, O!Reap,
     O!Wait, O!Dies
<1>2. O!ThreadAlive(t)
  BY <1>0
  DEF O!Supervise, O!Prepare, O!PrepareFails, O!Open, O!OpenFails, O!Register, O!Check, O!Reap,
     O!Wait, O!Dies, O!ThreadAlive, ChildWatched, O!Sups
<1>3. t = thread
  BY <1>0, <1>2 DEF OneSup
<1>4. \A u \in O!Sups \ {t} : sup'[u] = sup[u]
  BY <1>0
  DEF O!Supervise, O!Prepare, O!PrepareFails, O!Open, O!OpenFails, O!Register, O!Check, O!Reap,
     O!Wait, O!Dies, O!SupMove, O!Otherwise
<1>5. /\ sup'[t].stop = sup[t].stop
      /\ ~sup[t].stop => sup'[t].pc \notin {"none", "ended"}
  BY <1>0, <1>2
  DEF O!Supervise, O!Prepare, O!PrepareFails, O!Open, O!OpenFails, O!Register, O!Check, O!Reap,
     O!Wait, O!Dies, O!SupMove, O!Otherwise, SupType, O!ThreadAlive
<1>6. \A u \in O!Sups \ {t} : sup[u].pc \in {"none", "ended"}
  BY <1>0, <1>3 DEF OneSup, O!ThreadAlive, O!Sups
<1>7. sup'[t].pc \in {"check", "read"} => proc' = t
  BY <1>0
  DEF O!Supervise, O!Prepare, O!PrepareFails, O!Open, O!OpenFails, O!Register, O!Check, O!Reap,
     O!Wait, O!Dies, O!SupMove, O!Otherwise, SupType, OneSup
<1>8. OneSup'
  BY <1>1, <1>3, <1>4, <1>6, <1>7 DEF OneSup, O!ThreadAlive
<1>9. AsFound'
  BY <1>0, <1>1, <1>2, <1>3, <1>5 DEF AsFound, O!AtRest, Up, Stopping, O!ThreadAlive, O!ShouldRun,
     O!settings
<1>10. Current => Current'
  <2> SUFFICES ASSUME Current, NEW u \in O!Sups
               PROVE  /\ frpc'[u] \in {0, using.version}
                      /\ sup'[u].pc = "open" => sup'[u].with = using.version
    BY <1>1 DEF Current, O!settings
  <2>1. frpc'[u] \in {0, using.version}
    BY <1>0
    DEF O!Supervise, O!Prepare, O!PrepareFails, O!Open, O!OpenFails, O!Register, O!Check, O!Reap,
       O!Wait, O!Dies, O!EndChild, Current
  <2>2. sup'[u].pc = "open" => sup'[u].with = using.version
    BY <1>0
    DEF O!Supervise, O!Prepare, O!PrepareFails, O!Open, O!OpenFails, O!Register, O!Check, O!Reap,
       O!Wait, O!Dies, O!SupMove, O!Otherwise, SupType, SupPc, Current
  <2> QED BY <2>1, <2>2
<1>11. OneCall' /\ RestartsSoon'
  BY <1>0, <1>1, <1>10 DEF OneCall, RestartsSoon, Restarting
<1> QED BY <1>8, <1>9, <1>11 DEF Turn

LEMMA RestartKeeps ==
  ASSUME TunnelBounds, TunnelInv, O!Restart
  PROVE  Turn'
<1>0. TunnelShapes /\ disk.on \in BOOLEAN /\ (disk.on /\ inPlan) \in BOOLEAN
  BY DEF TunnelInv, TunnelShapes, TunnelSetting
<1> DEFINE run == disk.on /\ inPlan
<1>1. /\ thread' = O!First(run) /\ event' = O!First(run) /\ sup' = O!FirstSup(run) /\ proc' = 0
      /\ frpc' = [t \in O!Sups |-> 0] /\ call' = [c \in Callers |-> O!Idle]
      /\ using' = disk /\ inPlan' = inPlan
  BY DEF O!Restart
<1>2. O!ShouldRun' = run
  BY <1>1 DEF O!ShouldRun
<1> HIDE DEF run
<1>3. /\ thread' \in {0, 1} /\ event' = thread' /\ (thread' # 0 <=> run)
      /\ \A t \in O!Sups : sup'[t].pc = (IF t = thread' THEN "top" ELSE "none") /\ ~sup'[t].stop
  BY <1>0, <1>1, FirstSupIs DEF run
<1>4. \A c \in Callers : call'[c].pc = "idle"
  BY <1>1, CallerIdleIs
<1>5. OneCall' /\ OneSup' /\ RestartsSoon'
  BY <1>1, <1>3, <1>4 DEF OneCall, OneSup, O!ThreadAlive, RestartsSoon, Current
<1>6. thread' # 0 => thread' \in O!Sups
  BY <1>3 DEF O!Sups, TunnelBounds
<1>7. Up'
  BY <1>3, <1>6 DEF Up, O!ThreadAlive
<1>8. AsFound'
  BY <1>2, <1>3, <1>4, <1>7 DEF AsFound, O!AtRest, Stopping
<1> QED BY <1>5, <1>8 DEF Turn

LEMMA CheckKeeps ==
  ASSUME Turn, UNCHANGED <<using, inPlan, O!tunnel, call>>
  PROVE  Turn'
BY DEF Turn, OneCall, OneSup, AsFound, RestartsSoon, Restarting, Stopping, Up, O!AtRest,
   O!ThreadAlive, O!ShouldRun, Current, O!tunnel

LEMMA TunnelNext == TunnelBounds /\ TunnelInv /\ [O!Next]_(O!vars) => TunnelInv'
<1> SUFFICES ASSUME TunnelBounds, TunnelInv, [O!Next]_(O!vars) PROVE TunnelInv'
  OBVIOUS
<1>1. CASE O!Next
  <2>1. InTurn'
    <3> SUFFICES ASSUME ~crossed' PROVE Turn'
      BY DEF InTurn
    <3>1. ASSUME NEW c \in Callers, O!Save(c) \/ O!PlanTurns(c) PROVE Turn'
      BY <3>1, BeginKeeps
    <3>2. CASE O!Restart
      BY <3>2, RestartKeeps
    <3>3. ASSUME crossed' = crossed PROVE Turn
      BY <3>3 DEF TunnelInv, InTurn
    <3>4. ASSUME NEW c \in Callers, O!Apply(c) PROVE Turn'
      <4>1. Turn
        BY <3>3, <3>4 DEF O!Apply, O!Decide, O!Look, O!SetEvent, O!End, O!EndAgain, O!Forget,
           O!Start
      <4> QED
        BY <3>4, <4>1, DecideKeeps, LookKeeps, StopKeeps, EndKeeps, ForgetKeeps, StartKeeps DEF
           O!Apply
    <3>5. ASSUME NEW t \in O!Sups, O!Supervise(t) PROVE Turn'
      <4>1. Turn
        BY <3>3, <3>5
        DEF O!Supervise, O!Prepare, O!PrepareFails, O!Open, O!OpenFails, O!Register, O!Check,
           O!Reap, O!Wait, O!Dies
      <4> QED BY <3>5, <4>1, SuperviseKeeps
    <3>6. ASSUME NEW k \in Checks, O!CheckNotes(k) \/ O!CheckSaves(k) PROVE Turn'
      BY <3>3, <3>6, CheckKeeps DEF O!CheckNotes, O!CheckSaves
    <3> QED BY <1>1, <3>1, <3>2, <3>4, <3>5, <3>6 DEF O!Next
  <2> QED BY <1>1, <2>1, TunnelShapesNext, ChildWatchedNext, SettingsLastNext DEF TunnelInv
<1>2. CASE UNCHANGED O!vars
  <2>1. InTurn'
    BY <1>2, CheckKeeps DEF O!vars, O!settings, TunnelInv, InTurn
  <2>2. TunnelShapes' /\ ChildWatched' /\ O!SettingsLast'
    BY <1>2 DEF O!vars, O!settings, O!tunnel, TunnelInv, TunnelShapes, ChildWatched,
       O!SettingsLast
  <2> QED BY <2>1, <2>2 DEF TunnelInv
<1> QED BY <1>1, <1>2

LEMMA TunnelSafe == TunnelBounds /\ TunnelInv => O!TunnelSound
<1> SUFFICES ASSUME TunnelBounds, TunnelInv PROVE O!TunnelSound
  OBVIOUS
<1>1. O!FrpcIsWatched
  BY DEF TunnelInv, ChildWatched, O!FrpcIsWatched, O!ThreadAlive, O!Sups
<1>2. ASSUME O!AtRest, ~crossed
      PROVE  /\ O!ShouldRun <=> O!ThreadAlive(thread) /\ ~sup[thread].stop
             /\ \A t \in O!Sups \ {thread} : ~O!ThreadAlive(t) /\ frpc[t] = 0
             /\ Current
  <2>1. OneSup /\ Up /\ (thread # 0 <=> O!ShouldRun) /\ Current
    BY <1>2 DEF TunnelInv, InTurn, Turn, AsFound, O!AtRest, Stopping, RestartsSoon, Restarting
  <2>2. ~O!ThreadAlive(0)
    BY DEF O!ThreadAlive
  <2>3. \A t \in O!Sups \ {thread} : ~O!ThreadAlive(t) /\ frpc[t] = 0
    BY <1>1, <2>1 DEF OneSup, O!FrpcIsWatched
  <2> QED BY <2>1, <2>2, <2>3 DEF Up
<1>3. O!TunnelAsSaved /\ O!TunnelIsCurrent
  BY <1>2 DEF O!TunnelAsSaved, O!TunnelIsCurrent, Current
<1> QED BY <1>1, <1>3 DEF O!TunnelSound, TunnelInv

\* No frpc without a supervisor that watches it; where calls have not crossed, the
\* tunnel is up, and with the settings as they are, exactly when they say so; a
\* restart finds the settings saved last unless a check wrote older ones: for
\* every number of calls, checks, launches and restarts (remote_access_service.py).
THEOREM TunnelHolds == TunnelBounds => (O!Spec => []O!TunnelSound)
<1> SUFFICES ASSUME TunnelBounds PROVE O!Spec => []O!TunnelSound
  OBVIOUS
<1>1. O!Init => TunnelInv
  BY TunnelInit
<1>2. TunnelInv /\ [O!Next]_(O!vars) => TunnelInv'
  BY TunnelNext
<1>3. TunnelInv => O!TunnelSound
  BY TunnelSafe
<1> QED BY <1>1, <1>2, <1>3, PTL DEF O!Spec

-------------------------------------------------------------------------------
(* RemoteTunnel: the domains.                                              *)

\* There are a last call and a last trouble.
TunnelLimits == MaxCalls \in Nat /\ TunnelTroubles \in Nat

\* What TypeOK says beyond the shapes: no version is newer than the calls there
\* were, and the child in use is one of a supervisor that was started.
TunnelTypes ==
  /\ using \in O!Settings /\ disk \in O!Settings /\ checking \in [Checks -> SUBSET O!Settings]
  /\ proc <= started
  /\ \A t \in O!Sups : sup[t].with \in 0 .. calls + 1 /\ frpc[t] \in 0 .. calls + 1
  /\ calls \in 0 .. MaxCalls /\ crossed \in BOOLEAN /\ stale \in BOOLEAN
  /\ troubles \in 0 .. TunnelTroubles

\* The domains at the start.
LEMMA TunnelTypesInit == TunnelBounds /\ TunnelLimits => (O!Init => TunnelTypes)
<1> SUFFICES ASSUME TunnelBounds, TunnelLimits, O!Init PROVE TunnelTypes
  OBVIOUS
<1>1. O!NoSup.with = 0 /\ [O!NoSup EXCEPT !.pc = "top"].with = 0
  BY DEF O!NoSup
<1>2. \A t \in O!Sups : sup[t].with = 0 /\ frpc[t] = 0
  BY <1>1 DEF O!Init, O!FirstSup
<1>3. started \in Nat /\ proc = 0
  BY DEF O!Init, O!First
<1>4. disk \in O!Settings /\ using \in O!Settings /\ calls = 0 /\ troubles = 0
      /\ checking = [k \in Checks |-> {}]
  BY DEF O!Init, O!Settings
<1>5. checking \in [Checks -> SUBSET O!Settings] /\ proc <= started
      /\ calls \in 0 .. MaxCalls /\ troubles \in 0 .. TunnelTroubles
      /\ \A t \in O!Sups : sup[t].with \in 0 .. calls + 1 /\ frpc[t] \in 0 .. calls + 1
  BY <1>2, <1>3, <1>4 DEF TunnelLimits
<1>6. crossed \in BOOLEAN /\ stale \in BOOLEAN
  BY DEF O!Init
<1> QED BY <1>4, <1>5, <1>6 DEF TunnelTypes

\* Versions and settings a supervisor may have stay such when there is a call more.
LEMMA MoreCalls ==
  ASSUME calls \in Nat, calls' = calls \/ calls' = calls + 1
  PROVE  /\ \A n \in 0 .. calls + 1 : n \in 0 .. calls' + 1
         /\ O!Settings \subseteq O!Settings'
<1>1. /\ \A n \in 0 .. calls + 1 : n \in 0 .. calls' + 1
      /\ \A n \in 1 .. calls + 1 : n \in 1 .. calls' + 1
  OBVIOUS
<1>2. ASSUME NEW s \in O!Settings PROVE s \in O!Settings'
  BY <1>1, <1>2 DEF O!Settings
<1> QED BY <1>1, <1>2

\* No step leaves them.
LEMMA TunnelTypesNext ==
  TunnelBounds /\ TunnelLimits => (TunnelInv /\ TunnelTypes /\ [O!Next]_(O!vars) => TunnelTypes')
<1> SUFFICES ASSUME TunnelBounds, TunnelLimits, TunnelShapes, TunnelTypes, [O!Next]_(O!vars)
             PROVE  TunnelTypes'
  BY DEF TunnelInv
<1>0. /\ sup \in [O!Sups -> SupType] /\ frpc \in [O!Sups -> Int] /\ started \in 0 .. MaxStarts
      /\ \A t \in O!Sups : t > started => sup[t].pc = "none"
      /\ calls \in Nat /\ proc \in Int
  BY DEF TunnelShapes, TunnelTypes, TunnelLimits
<1> USE DEF O!settings, O!tunnel, O!Trouble, TunnelLimits
<1>1. CASE UNCHANGED O!vars
  BY <1>1 DEF O!vars, TunnelTypes, O!Settings
<1>2. ASSUME NEW c \in Callers, O!Save(c) PROVE TunnelTypes'
  <2>1. PICK on \in BOOLEAN, change \in {0, 1} :
          using' = [on |-> on, version |-> using.version + change]
    BY <1>2 DEF O!Save
  <2>2. /\ calls' = calls + 1 /\ calls < MaxCalls /\ disk' = using' /\ crossed' \in BOOLEAN
        /\ UNCHANGED <<checking, O!tunnel, troubles>> /\ stale' \in BOOLEAN
    BY <1>2 DEF O!Save, O!BeginApply, TunnelTypes
  <2>3. using.version \in 1 .. calls + 1
    BY DEF TunnelTypes, O!Settings
  <2>4. using' \in O!Settings'
    BY <1>0, <2>1, <2>2, <2>3 DEF O!Settings
  <2>5. checking' \in [Checks -> SUBSET O!Settings']
    BY <1>0, <2>2, MoreCalls DEF TunnelTypes
  <2>6. \A t \in O!Sups : sup'[t].with \in 0 .. calls' + 1 /\ frpc'[t] \in 0 .. calls' + 1
    BY <1>0, <2>2, MoreCalls DEF TunnelTypes
  <2>7. calls' \in 0 .. MaxCalls
    BY <1>0, <2>2
  <2>8. proc' <= started' /\ troubles' \in 0 .. TunnelTroubles
    BY <2>2 DEF TunnelTypes
  <2> QED BY <2>2, <2>4, <2>5, <2>6, <2>7, <2>8 DEF TunnelTypes
<1>3. ASSUME NEW c \in Callers, O!PlanTurns(c) PROVE TunnelTypes'
  <2>1. /\ calls' = calls + 1 /\ calls < MaxCalls /\ crossed' \in BOOLEAN
        /\ UNCHANGED <<disk, using, checking, stale, O!tunnel, troubles>>
    BY <1>3 DEF O!PlanTurns, O!BeginApply, TunnelTypes
  <2>2. checking' \in [Checks -> SUBSET O!Settings']
    BY <1>0, <2>1, MoreCalls DEF TunnelTypes
  <2>3. using' \in O!Settings' /\ disk' \in O!Settings'
    BY <1>0, <2>1, MoreCalls DEF TunnelTypes
  <2> QED BY <1>0, <2>1, <2>2, <2>3, MoreCalls DEF TunnelTypes
<1>4. ASSUME NEW k \in Checks, O!CheckNotes(k) \/ O!CheckSaves(k) PROVE TunnelTypes'
  <2>1. /\ UNCHANGED <<using, O!tunnel, calls, crossed, troubles>>
        /\ O!Settings' = O!Settings
    BY <1>4 DEF O!CheckNotes, O!CheckSaves, O!Settings
  <2>2. checking' \in [Checks -> SUBSET O!Settings]
    BY <1>4 DEF O!CheckNotes, O!CheckSaves, TunnelTypes
  <2>3. disk' \in O!Settings /\ stale' \in BOOLEAN
    BY <1>4 DEF O!CheckNotes, O!CheckSaves, TunnelTypes
  <2> QED BY <2>1, <2>2, <2>3 DEF TunnelTypes
<1>5. ASSUME NEW c \in Callers, O!Decide(c) \/ O!Look(c) PROVE TunnelTypes'
  BY <1>5 DEF O!Decide, O!Look, TunnelTypes, O!Settings
<1>6. ASSUME NEW c \in Callers, O!SetEvent(c) PROVE TunnelTypes'
  <2>1. \A t \in O!Sups : sup'[t].with = sup[t].with
    BY <1>0, <1>6 DEF O!SetEvent, SupType
  <2> QED BY <1>6, <2>1 DEF O!SetEvent, TunnelTypes, O!Settings
<1>7. ASSUME NEW c \in Callers, O!End(c) \/ O!EndAgain(c) \/ O!Forget(c) PROVE TunnelTypes'
  <2>1. \A t \in O!Sups : frpc'[t] \in {frpc[t], 0}
    BY <1>0, <1>7 DEF O!End, O!EndAgain, O!Forget, O!EndChild
  <2>2. UNCHANGED <<O!settings, sup, proc, started, calls, crossed, troubles>>
    BY <1>7 DEF O!End, O!EndAgain, O!Forget
  <2> QED BY <1>0, <2>1, <2>2 DEF TunnelTypes, O!Settings
<1>8. ASSUME NEW c \in Callers, O!Start(c) PROVE TunnelTypes'
  <2>1. \A t \in O!Sups : sup'[t].with \in {sup[t].with, 0}
    BY <1>0, <1>8 DEF O!Start, O!StartSupervisor, O!NoSup
  <2>2. started' = started + 1 /\ UNCHANGED <<O!settings, proc, frpc, calls, crossed, troubles>>
    BY <1>8 DEF O!Start, O!StartSupervisor
  <2> QED BY <1>0, <2>1, <2>2 DEF TunnelTypes, O!Settings
<1>9. ASSUME NEW t \in O!Sups, O!Supervise(t) PROVE TunnelTypes'
  <2>0. UNCHANGED <<O!settings, started, calls, crossed>>
    BY <1>9
    DEF O!Supervise, O!Prepare, O!PrepareFails, O!Open, O!OpenFails, O!Register, O!Check, O!Reap,
       O!Wait, O!Dies
  <2>1. using.version \in 0 .. calls + 1
    BY <1>0 DEF TunnelTypes, O!Settings
  <2>2. \A u \in O!Sups : sup'[u].with \in {sup[u].with, using.version}
    BY <1>0, <1>9
    DEF O!Supervise, O!Prepare, O!PrepareFails, O!Open, O!OpenFails, O!Register, O!Check, O!Reap,
       O!Wait, O!Dies, O!SupMove, O!Otherwise, SupType
  <2>3. \A u \in O!Sups : frpc'[u] \in {frpc[u], 0, sup[u].with}
    BY <1>0, <1>9
    DEF O!Supervise, O!Prepare, O!PrepareFails, O!Open, O!OpenFails, O!Register, O!Check, O!Reap,
       O!Wait, O!Dies, O!EndChild
  <2>4. proc' <= started
    <3>1. sup[t].pc = "opened" => t <= started
      BY <1>0 DEF O!Sups
    <3>2. CASE O!Register(t)
      BY <1>0, <3>1, <3>2 DEF O!Register
    <3>3. CASE O!Reap(t)
      BY <1>0, <3>3 DEF O!Reap
    <3>4. CASE proc' = proc
      BY <3>4 DEF TunnelTypes
    <3> QED
      BY <1>9, <3>2, <3>3, <3>4
      DEF O!Supervise, O!Prepare, O!PrepareFails, O!Open, O!OpenFails, O!Check, O!Wait, O!Dies
  <2>5. troubles' \in 0 .. TunnelTroubles
    BY <1>9
    DEF O!Supervise, O!Prepare, O!PrepareFails, O!Open, O!OpenFails, O!Register, O!Check, O!Reap,
       O!Wait, O!Dies, TunnelTypes
  <2>6. \A u \in O!Sups : sup'[u].with \in 0 .. calls + 1 /\ frpc'[u] \in 0 .. calls + 1
    BY <1>0, <2>1, <2>2, <2>3 DEF TunnelTypes
  <2> QED BY <2>0, <2>4, <2>5, <2>6 DEF TunnelTypes, O!Settings
<1>10. CASE O!Restart
  <2>1. O!NoSup.with = 0 /\ [O!NoSup EXCEPT !.pc = "top"].with = 0
    BY DEF O!NoSup
  <2>2. \A t \in O!Sups : sup'[t].with = 0 /\ frpc'[t] = 0
    BY <1>10, <2>1 DEF O!Restart, O!FirstSup
  <2>3. started' \in Nat /\ proc' = 0 /\ checking' = [k \in Checks |-> {}] /\ using' = disk
        /\ UNCHANGED <<disk, calls>>
        /\ troubles' \in 0 .. TunnelTroubles
    BY <1>10 DEF O!Restart, O!First, TunnelTypes
  <2>4. O!Settings' = O!Settings /\ checking' \in [Checks -> SUBSET O!Settings]
    BY <2>3 DEF O!Settings
  <2>5. \A t \in O!Sups : sup'[t].with \in 0 .. calls + 1 /\ frpc'[t] \in 0 .. calls + 1
    BY <1>0, <2>2
  <2>6. crossed' \in BOOLEAN /\ stale' \in BOOLEAN
    BY <1>10 DEF O!Restart
  <2>7. proc' <= started'
    BY <2>3
  <2> QED BY <2>3, <2>4, <2>5, <2>6, <2>7 DEF TunnelTypes
<1> QED
  BY <1>1, <1>2, <1>3, <1>4, <1>5, <1>6, <1>7, <1>8, <1>9, <1>10 DEF O!Next, O!Apply

\* They are what TypeOK says.
LEMMA TunnelTypesSafe == TunnelBounds /\ TunnelLimits => (TunnelInv /\ TunnelTypes => O!TypeOK)
<1> SUFFICES ASSUME TunnelBounds, TunnelLimits, TunnelShapes, TunnelTypes PROVE O!TypeOK
  BY DEF TunnelInv
<1>1. started \in Nat /\ proc \in 0 .. started
  BY DEF TunnelShapes, TunnelTypes, TunnelBounds
<1>2. sup \in [O!Sups -> [pc : SupPc, stop : BOOLEAN, with : 0 .. calls + 1]]
  BY DEF TunnelShapes, TunnelTypes, SupType
<1>3. frpc \in [O!Sups -> 0 .. calls + 1]
  BY DEF TunnelShapes, TunnelTypes
<1> QED BY <1>1, <1>2, <1>3 DEF TunnelShapes, TunnelTypes, O!TypeOK, SupPc, CallType, CallPc

-------------------------------------------------------------------------------
(* SupportUploads: any rows and reports.                                   *)

IssueRow == [occ : Seq(Nat), sent : Nat, mixed : BOOLEAN]
Items == UNION {[some -> IssueRow] : some \in SUBSET Prints}
MemType ==
  [rows : [Prints -> IssueRow], dirty : SUBSET Prints, deleted : SUBSET Prints, dropped : Nat,
   droppedDirty : BOOLEAN, evicted : Nat]
FileType == [rows : [Prints -> IssueRow], dropped : Nat, evicted : Nat]
FlushType ==
  [rows : Items \cup {<< >>}, deleted : SUBSET Prints, counts : BOOLEAN, dropped : Nat,
   evicted : Nat, on : BOOLEAN]
PostType ==
  [pc : {"idle", "sent", "answered", "marked", "acknowledged"}, items : Items \cup {<< >>},
   reports : SUBSET Reports, dropped : Nat, issuesIn : SUBSET Prints, reportsIn : SUBSET Reports]
VpsType ==
  [had : SUBSET Nat, dropped : Nat, reports : SUBSET Reports, at : [Reports -> Nat], newest : Nat]
ReportType == [status : {"none", "queued", "received", "set"}, accepted : BOOLEAN, at : Nat]

UploadShapes ==
  /\ mem \in MemType /\ file \in FileType /\ flushing \in FlushType /\ captured \in Nat
  /\ flushing.on => flushing.rows \in Items
  /\ post \in PostType /\ vps \in VpsType
  /\ post.pc # "idle" => post.items \in Items /\ post.issuesIn \subseteq DOMAIN post.items
  /\ report \in [Reports -> ReportType] /\ cursor \in Nat /\ undone \subseteq Prints
  /\ checkin # << >> => DOMAIN checkin \subseteq Reports /\ \A r \in DOMAIN checkin : checkin[r] \in Nat

\* What a row says is true of what the VPS `had` of it, and of no occurrence to come.
GoodRow(row, n, had) ==
  /\ row.sent <= Len(row.occ)
  /\ Len(row.occ) = 0 => row = U!Absent
  /\ \A i \in 1..Len(row.occ) : row.occ[i] <= n
  /\ row.mixed \/ \A i \in 1..row.sent : row.occ[i] \in had

RowsGood ==
  /\ \A p \in Prints : GoodRow(mem.rows[p], captured, vps.had) /\ GoodRow(file.rows[p], captured, vps.had)
  /\ flushing.on => \A p \in DOMAIN flushing.rows : GoodRow(flushing.rows[p], captured, vps.had)

\* A row that the upload holds is not taken for one that began again.
ItemsGood ==
  post.pc # "idle" =>
    \A p \in DOMAIN post.items :
      /\ GoodRow(post.items[p], captured, vps.had) /\ Len(post.items[p].occ) > 0
      /\ U!Continues(mem.rows[p], post.items[p]) /\ post.items[p].mixed => mem.rows[p].mixed
      /\ post.pc # "sent" /\ p \in post.issuesIn =>
           post.items[p].mixed \/ \A i \in 1..Len(post.items[p].occ) : post.items[p].occ[i] \in vps.had

EvictionsKnown ==
  /\ U!EvictionsTold
  /\ flushing.on /\ flushing.counts => vps.dropped + flushing.dropped >= flushing.evicted
  /\ post.pc # "idle" => post.dropped <= mem.dropped
  /\ post.pc \in {"answered", "marked", "acknowledged"} =>
       vps.dropped + mem.dropped >= mem.evicted + post.dropped

\* The file as it will be when the flush under way is over.
RowAfter(p) ==
  IF flushing.on /\ p \in flushing.deleted THEN U!Absent
  ELSE IF flushing.on /\ p \in DOMAIN flushing.rows THEN flushing.rows[p]
  ELSE file.rows[p]
UndoneAfter(p) ==
  IF flushing.on /\ p \in DOMAIN flushing.rows THEN p \in flushing.deleted ELSE p \in undone
DroppedAfter == IF flushing.on /\ flushing.counts THEN flushing.dropped ELSE file.dropped

FollowsSoon ==
  /\ \A p \in Prints :
       /\ p \notin mem.dirty \cup mem.deleted => UndoneAfter(p) \/ RowAfter(p) = mem.rows[p]
       /\ p \in mem.deleted \ mem.dirty => p \notin U!Known(mem)
       /\ p \in mem.dirty \ U!Known(mem) => p \in mem.deleted
  /\ ~mem.droppedDirty => mem.dropped = DroppedAfter
  /\ flushing.on =>
       /\ \A p \in flushing.deleted \ DOMAIN flushing.rows : p \in mem.dirty \/ p \notin U!Known(mem)
       /\ \A p \in DOMAIN flushing.rows \ U!Known(mem) : p \in mem.deleted \cup flushing.deleted

\* What a check-in brings is all that the cursor will pass.
Covered(r) ==
  \/ vps.at[r] <= cursor
  \/ r \in DOMAIN checkin /\ checkin[r] = vps.at[r]
  \/ vps.at[r] > cursor /\ \A q \in DOMAIN checkin : checkin[q] < vps.at[r]

StatusesKnown ==
  /\ U!ReportsAreTrue /\ cursor <= vps.newest
  /\ post.reportsIn \subseteq vps.reports
  /\ \A r \in Reports :
       /\ vps.at[r] <= vps.newest /\ (vps.at[r] > 0 => r \in vps.reports)
       /\ report[r].at <= vps.at[r]
  /\ checkin # << >> =>
       /\ \A r \in DOMAIN checkin : cursor < checkin[r] /\ checkin[r] <= vps.at[r]
       /\ \A r \in Reports : Covered(r)

UploadInv ==
  UploadShapes /\ RowsGood /\ ItemsGood /\ EvictionsKnown /\ FollowsSoon /\ StatusesKnown

LEMMA AbsentIs ==
  U!Absent \in IssueRow /\ U!Absent.occ = << >> /\ Len(U!Absent.occ) = 0 /\ U!Absent.sent = 0 /\ U!Absent.mixed = FALSE
BY DEF U!Absent, IssueRow

LEMMA ItemsIs ==
  ASSUME NEW f \in Items
  PROVE  DOMAIN f \subseteq Prints /\ f \in [DOMAIN f -> IssueRow]
BY DEF Items

LEMMA ItemsMade ==
  ASSUME NEW f, NEW some \in SUBSET Prints, f \in [some -> IssueRow]
  PROVE  f \in Items
BY DEF Items

LEMMA KnownIs ==
  ASSUME NEW m \in MemType, NEW p \in Prints
  PROVE  p \in U!Known(m) <=> Len(m.rows[p].occ) > 0
<1>1. m.rows[p].occ \in Seq(Nat)
  BY DEF MemType, IssueRow
<1>2. m.rows[p].occ = << >> <=> Len(m.rows[p].occ) = 0
  BY <1>1
<1>3. Len(m.rows[p].occ) \in Nat
  BY <1>1
<1> QED BY <1>2, <1>3 DEF U!Known

LEMMA SeqEqualIs ==
  ASSUME NEW a \in Seq(Nat), NEW b \in Seq(Nat), Len(a) = Len(b)
  PROVE  a = b <=> \A i \in 1..Len(b) : a[i] = b[i]
OBVIOUS

LEMMA ContinuesIs ==
  ASSUME NEW row \in IssueRow, NEW item \in IssueRow
  PROVE  U!Continues(row, item) <=>
           /\ Len(row.occ) >= Len(item.occ)
           /\ \A i \in 1..Len(item.occ) : row.occ[i] = item.occ[i]
<1> DEFINE a == row.occ  b == item.occ
<1>1. a \in Seq(Nat) /\ b \in Seq(Nat) /\ Len(a) \in Nat /\ Len(b) \in Nat
  BY DEF IssueRow
<1>2. ASSUME Len(a) >= Len(b)
      PROVE  SubSeq(a, 1, Len(b)) = b <=> \A i \in 1..Len(b) : a[i] = b[i]
  <2>1. SubSeq(a, 1, Len(b)) \in Seq(Nat) /\ Len(SubSeq(a, 1, Len(b))) = Len(b)
        /\ \A i \in 1..Len(b) : SubSeq(a, 1, Len(b))[i] = a[i]
    BY <1>1, <1>2
  <2> HIDE DEF a, b
  <2>2. SubSeq(a, 1, Len(b)) = b <=> \A i \in 1..Len(b) : SubSeq(a, 1, Len(b))[i] = b[i]
    BY <1>1, <2>1, SeqEqualIs
  <2> QED BY <2>1, <2>2
<1> QED BY <1>1, <1>2 DEF U!Continues

LEMMA RemoveIs ==
  ASSUME NEW m \in MemType, NEW p \in Prints
  PROVE  /\ U!Remove(m, p) \in MemType
         /\ U!Remove(m, p).rows = [m.rows EXCEPT ![p] = U!Absent]
         /\ U!Remove(m, p).dirty = m.dirty \ {p} /\ U!Remove(m, p).deleted = m.deleted \cup {p}
         /\ U!Remove(m, p).dropped = m.dropped /\ U!Remove(m, p).droppedDirty = m.droppedDirty
         /\ U!Remove(m, p).evicted = m.evicted
BY AbsentIs DEF U!Remove, MemType

LEMMA CountedIs ==
  ASSUME NEW m \in MemType, NEW p \in Prints, captured \in Nat
  PROVE  /\ U!Counted(m, p) \in MemType
         /\ \A q \in Prints \ {p} : U!Counted(m, p).rows[q] = m.rows[q]
         /\ U!Counted(m, p).rows[p].occ = Append(m.rows[p].occ, captured + 1)
         /\ U!Counted(m, p).rows[p].sent = m.rows[p].sent
         /\ U!Counted(m, p).rows[p].mixed = m.rows[p].mixed
         /\ U!Counted(m, p).dirty = m.dirty \cup {p} /\ U!Counted(m, p).deleted = m.deleted
         /\ U!Counted(m, p).dropped = m.dropped /\ U!Counted(m, p).droppedDirty = m.droppedDirty
         /\ U!Counted(m, p).evicted = m.evicted
<1> DEFINE row == [m.rows[p] EXCEPT !.occ = Append(m.rows[p].occ, captured + 1)]
<1>1. m.rows[p] \in IssueRow /\ m.rows \in [Prints -> IssueRow]
  BY DEF MemType
<1>2. Append(m.rows[p].occ, captured + 1) \in Seq(Nat)
  BY <1>1 DEF IssueRow
<1>3. /\ row \in IssueRow /\ row.occ = Append(m.rows[p].occ, captured + 1)
      /\ row.sent = m.rows[p].sent /\ row.mixed = m.rows[p].mixed
  BY <1>1, <1>2 DEF IssueRow
<1> DEFINE rows == [m.rows EXCEPT ![p] = row]  dirty == m.dirty \cup {p}
<1>4. U!Counted(m, p) = [m EXCEPT !.rows = rows, !.dirty = dirty]
  BY DEF U!Counted, MemType
<1> HIDE DEF row
<1>5. rows \in [Prints -> IssueRow] /\ dirty \in SUBSET Prints
  BY <1>1, <1>3 DEF MemType
<1> HIDE DEF rows, dirty
<1>6. /\ U!Counted(m, p) \in MemType
      /\ U!Counted(m, p).rows = rows
      /\ U!Counted(m, p).dirty = dirty /\ U!Counted(m, p).deleted = m.deleted
      /\ U!Counted(m, p).dropped = m.dropped /\ U!Counted(m, p).droppedDirty = m.droppedDirty
      /\ U!Counted(m, p).evicted = m.evicted
  BY <1>4, <1>5 DEF MemType
<1> QED BY <1>1, <1>3, <1>6 DEF rows, dirty

LEMMA EvictIs ==
  ASSUME NEW m \in MemType, NEW p \in Prints
  PROVE  /\ U!Evict(m, p) \in MemType
         /\ U!Evict(m, p).rows = [m.rows EXCEPT ![p] = U!Absent]
         /\ U!Evict(m, p).dirty = m.dirty \ {p} /\ U!Evict(m, p).deleted = m.deleted \cup {p}
         /\ \/ U!Evict(m, p).dropped = m.dropped /\ U!Evict(m, p).evicted = m.evicted
               /\ U!Evict(m, p).droppedDirty = m.droppedDirty
            \/ U!Evict(m, p).dropped = m.dropped + 1 /\ U!Evict(m, p).evicted = m.evicted + 1
               /\ U!Evict(m, p).droppedDirty = TRUE
<1> DEFINE m1 == U!Remove(m, p)
<1>1. m1 \in MemType
  BY RemoveIs
<1>2. CASE U!Unsent(m.rows[p])
  <2> DEFINE dropped == m1.dropped + 1  evicted == m1.evicted + 1
  <2>1. U!Evict(m, p) = [m1 EXCEPT !.dropped = dropped, !.droppedDirty = TRUE, !.evicted = evicted]
    BY <1>2 DEF U!Evict
  <2> HIDE DEF m1
  <2>2. dropped \in Nat /\ evicted \in Nat
    BY <1>1 DEF MemType
  <2> HIDE DEF dropped, evicted
  <2>3. /\ U!Evict(m, p) \in MemType /\ U!Evict(m, p).rows = m1.rows /\ U!Evict(m, p).dirty = m1.dirty
        /\ U!Evict(m, p).deleted = m1.deleted /\ U!Evict(m, p).dropped = dropped
        /\ U!Evict(m, p).evicted = evicted /\ U!Evict(m, p).droppedDirty = TRUE
    BY <1>1, <2>1, <2>2 DEF MemType
  <2> QED BY <2>3, RemoveIs DEF m1, dropped, evicted
<1>3. CASE ~U!Unsent(m.rows[p])
  BY <1>3, RemoveIs DEF U!Evict
<1> QED BY <1>2, <1>3

\* What each action does, with the types of what it changes.
LEMMA CaptureIs ==
  ASSUME UploadShapes, NEW p \in Prints, U!Capture(p)
  PROVE  /\ captured' = captured + 1
         /\ UNCHANGED <<file, flushing, post, vps, report, cursor, checkin, undone>>
         /\ mem' \in MemType
         /\ mem'.rows[p].occ = Append(mem.rows[p].occ, captured + 1)
         /\ mem'.rows[p].sent = mem.rows[p].sent /\ mem'.rows[p].mixed = mem.rows[p].mixed
         /\ \E gone \in SUBSET (Prints \ {p}) :
              /\ \A q \in gone : mem'.rows[q] = U!Absent
              /\ \A q \in Prints \ (gone \cup {p}) : mem'.rows[q] = mem.rows[q]
              /\ mem'.dirty = (mem.dirty \cup {p}) \ gone /\ mem'.deleted = mem.deleted \cup gone
         /\ \/ mem'.dropped = mem.dropped /\ mem'.evicted = mem.evicted
               /\ mem'.droppedDirty = mem.droppedDirty
            \/ mem'.dropped = mem.dropped + 1 /\ mem'.evicted = mem.evicted + 1
               /\ mem'.droppedDirty = TRUE
<1> DEFINE m == U!Counted(mem, p)
<1>1. captured \in Nat /\ mem \in MemType
  BY DEF UploadShapes
<1>2. /\ m \in MemType
      /\ \A q \in Prints \ {p} : m.rows[q] = mem.rows[q]
      /\ m.rows[p].occ = Append(mem.rows[p].occ, captured + 1)
      /\ m.rows[p].sent = mem.rows[p].sent /\ m.rows[p].mixed = mem.rows[p].mixed
      /\ m.dirty = mem.dirty \cup {p} /\ m.deleted = mem.deleted
      /\ m.dropped = mem.dropped /\ m.droppedDirty = mem.droppedDirty /\ m.evicted = mem.evicted
  BY <1>1, CountedIs
<1>3. mem' = m \/ \E q \in U!Known(m) \ {p} : mem' = U!Evict(m, q)
  BY DEF U!Capture
<1>4. captured' = captured + 1
      /\ UNCHANGED <<file, flushing, post, vps, report, cursor, checkin, undone>>
  BY DEF U!Capture, U!reports
<1> HIDE DEF m
<1>5. CASE mem' = m
  <2> DEFINE gone == {}
  <2>1. gone \in SUBSET (Prints \ {p})
    OBVIOUS
  <2>2. /\ \A q \in gone : mem'.rows[q] = U!Absent
        /\ \A q \in Prints \ (gone \cup {p}) : mem'.rows[q] = mem.rows[q]
        /\ mem'.dirty = (mem.dirty \cup {p}) \ gone /\ mem'.deleted = mem.deleted \cup gone
    BY <1>2, <1>5
  <2> HIDE DEF gone
  <2> QED BY <1>2, <1>4, <1>5, <2>1, <2>2
<1>6. ASSUME NEW q \in U!Known(m) \ {p}, mem' = U!Evict(m, q)
      PROVE  /\ mem' \in MemType /\ m.rows \in [Prints -> IssueRow] /\ q \in Prints \ {p}
             /\ mem'.rows = [m.rows EXCEPT ![q] = U!Absent]
             /\ mem'.dirty = m.dirty \ {q} /\ mem'.deleted = m.deleted \cup {q}
             /\ \/ mem'.dropped = m.dropped /\ mem'.evicted = m.evicted
                   /\ mem'.droppedDirty = m.droppedDirty
                \/ mem'.dropped = m.dropped + 1 /\ mem'.evicted = m.evicted + 1
                   /\ mem'.droppedDirty = TRUE
  <2>1. q \in Prints
    BY <1>6 DEF U!Known
  <2>2. m.rows \in [Prints -> IssueRow]
    BY <1>2 DEF MemType
  <2> QED BY <1>2, <1>6, <2>1, <2>2, EvictIs
<1>7. ASSUME NEW q \in U!Known(m) \ {p}, mem' = U!Evict(m, q)
      PROVE  \E gone \in SUBSET (Prints \ {p}) :
               /\ \A o \in gone : mem'.rows[o] = U!Absent
               /\ \A o \in Prints \ (gone \cup {p}) : mem'.rows[o] = mem.rows[o]
               /\ mem'.dirty = (mem.dirty \cup {p}) \ gone /\ mem'.deleted = mem.deleted \cup gone
  <2> DEFINE gone == {q}
  <2>1. gone \in SUBSET (Prints \ {p})
    BY <1>6, <1>7
  <2>2. mem'.dirty = (mem.dirty \cup {p}) \ gone /\ mem'.deleted = mem.deleted \cup gone
    BY <1>2, <1>6, <1>7
  <2>3. mem'.rows[q] = U!Absent /\ \A o \in Prints \ {p, q} : mem'.rows[o] = mem.rows[o]
    <3>1. q \in Prints /\ m.rows \in [Prints -> IssueRow] /\ mem'.rows = [m.rows EXCEPT ![q] = U!Absent]
      BY <1>6, <1>7
    <3> QED BY <1>2, <3>1
  <2>4. /\ \A o \in gone : mem'.rows[o] = U!Absent
        /\ \A o \in Prints \ (gone \cup {p}) : mem'.rows[o] = mem.rows[o]
    BY <2>3
  <2> HIDE DEF gone
  <2> QED BY <2>1, <2>2, <2>4
<1>8. ASSUME NEW q \in U!Known(m) \ {p}, mem' = U!Evict(m, q)
      PROVE  /\ mem' \in MemType
             /\ mem'.rows[p] = m.rows[p]
             /\ \/ mem'.dropped = mem.dropped /\ mem'.evicted = mem.evicted
                   /\ mem'.droppedDirty = mem.droppedDirty
                \/ mem'.dropped = mem.dropped + 1 /\ mem'.evicted = mem.evicted + 1
                   /\ mem'.droppedDirty = TRUE
  BY <1>2, <1>6, <1>8
<1> QED BY <1>2, <1>3, <1>4, <1>5, <1>7, <1>8

LEMMA PruneIs ==
  ASSUME UploadShapes, NEW p \in Prints, U!Prune(p)
  PROVE  /\ UNCHANGED <<file, flushing, captured, post, vps, report, cursor, checkin, undone>>
         /\ mem' \in MemType
         /\ mem'.rows[p] = U!Absent /\ \A q \in Prints \ {p} : mem'.rows[q] = mem.rows[q]
         /\ mem'.dirty = mem.dirty \ {p} /\ mem'.deleted = mem.deleted \cup {p}
         /\ mem'.dropped = mem.dropped /\ mem'.evicted = mem.evicted
         /\ mem'.droppedDirty = mem.droppedDirty
<1>1. mem \in MemType /\ mem.rows \in [Prints -> IssueRow] /\ mem' = U!Remove(mem, p)
  BY DEF UploadShapes, MemType, U!Prune
<1>2. UNCHANGED <<file, flushing, captured, post, vps, report, cursor, checkin, undone>>
  BY DEF U!Prune, U!reports
<1> QED BY <1>1, <1>2, RemoveIs

LEMMA FlushBeginIs ==
  ASSUME UploadShapes, U!FlushBegin
  PROVE  /\ UNCHANGED <<file, captured, post, vps, report, cursor, checkin, undone>>
         /\ ~flushing.on /\ mem' \in MemType /\ flushing' \in FlushType /\ flushing'.on
         /\ mem'.rows = mem.rows /\ mem'.dirty = {} /\ mem'.deleted = {} /\ ~mem'.droppedDirty
         /\ mem'.dropped = mem.dropped /\ mem'.evicted = mem.evicted
         /\ flushing'.rows \in Items /\ DOMAIN flushing'.rows = mem.dirty \cap U!Known(mem)
         /\ \A p \in DOMAIN flushing'.rows : flushing'.rows[p] = mem.rows[p]
         /\ flushing'.deleted = mem.deleted /\ flushing'.counts = mem.droppedDirty
         /\ flushing'.dropped = mem.dropped /\ flushing'.evicted = mem.evicted
<1> DEFINE some == mem.dirty \cap U!Known(mem)  rows == [p \in some |-> mem.rows[p]]
<1>1. mem \in MemType
  BY DEF UploadShapes
<1>2. mem.rows \in [Prints -> IssueRow] /\ some \in SUBSET Prints
  BY <1>1 DEF MemType
<1>3. rows \in Items /\ DOMAIN rows = some /\ \A p \in some : rows[p] = mem.rows[p]
  <2>1. rows \in [some -> IssueRow]
    BY <1>2
  <2> QED BY <1>2, <2>1, ItemsMade
<1>4. /\ flushing' = [rows |-> rows, deleted |-> mem.deleted, counts |-> mem.droppedDirty,
                      dropped |-> mem.dropped, evicted |-> mem.evicted, on |-> TRUE]
      /\ mem' = U!Clean(mem.rows, mem.dropped, mem.evicted) /\ ~flushing.on
      /\ UNCHANGED <<file, captured, post, vps, report, cursor, checkin, undone>>
  BY DEF U!FlushBegin, U!reports
<1> HIDE DEF some, rows
<1>5. mem' \in MemType /\ mem'.rows = mem.rows /\ mem'.dirty = {} /\ mem'.deleted = {}
      /\ ~mem'.droppedDirty /\ mem'.dropped = mem.dropped /\ mem'.evicted = mem.evicted
  BY <1>1, <1>4 DEF U!Clean, MemType
<1>6. flushing' \in FlushType
  BY <1>1, <1>3, <1>4 DEF MemType, FlushType
<1> QED BY <1>3, <1>4, <1>5, <1>6 DEF some

LEMMA NoFlushIs == U!NoFlush \in FlushType /\ U!NoFlush.on = FALSE
BY DEF U!NoFlush, FlushType

LEMMA FlushWritesIs ==
  ASSUME UploadShapes, U!FlushWrites
  PROVE  /\ UNCHANGED <<mem, captured, post, vps, report, cursor, checkin>>
         /\ flushing.on /\ flushing' \in FlushType /\ ~flushing'.on /\ file' \in FileType
         /\ \A p \in Prints : file'.rows[p] = RowAfter(p)
         /\ file'.dropped = DroppedAfter
         /\ file'.evicted = IF flushing.counts THEN flushing.evicted ELSE file.evicted
         /\ undone' \subseteq Prints /\ \A p \in Prints : p \in undone' <=> UndoneAfter(p)
<1>1. /\ flushing.on /\ flushing' = U!NoFlush
      /\ UNCHANGED <<mem, captured, post, vps, report, cursor, checkin>>
      /\ undone' = (undone \ DOMAIN flushing.rows) \cup (flushing.deleted \cap DOMAIN flushing.rows)
  BY DEF U!FlushWrites, U!reports
<1>2. /\ flushing \in FlushType /\ file \in FileType /\ flushing.rows \in Items /\ undone \subseteq Prints
      /\ file.rows \in [Prints -> IssueRow]
  BY <1>1 DEF UploadShapes, FileType
<1>3. DOMAIN flushing.rows \subseteq Prints /\ flushing.rows \in [DOMAIN flushing.rows -> IssueRow]
      /\ flushing.deleted \subseteq Prints
  BY <1>2, ItemsIs DEF FlushType
<1> DEFINE after == [p \in Prints |-> IF p \in flushing.deleted THEN U!Absent
                                      ELSE IF p \in DOMAIN flushing.rows THEN flushing.rows[p]
                                      ELSE file.rows[p]]
<1>4. file' = [rows |-> after, dropped |-> IF flushing.counts THEN flushing.dropped ELSE file.dropped,
               evicted |-> IF flushing.counts THEN flushing.evicted ELSE file.evicted]
  BY DEF U!FlushWrites
<1>5. after \in [Prints -> IssueRow] /\ \A p \in Prints : after[p] = RowAfter(p)
  BY <1>1, <1>2, <1>3, AbsentIs DEF RowAfter
<1> HIDE DEF after
<1>6. file' \in FileType /\ file'.rows = after /\ file'.dropped = DroppedAfter
      /\ file'.evicted = IF flushing.counts THEN flushing.evicted ELSE file.evicted
  BY <1>1, <1>2, <1>4, <1>5 DEF FileType, FlushType, DroppedAfter
<1>7. undone' \subseteq Prints /\ \A p \in Prints : p \in undone' <=> UndoneAfter(p)
  BY <1>1, <1>2, <1>3 DEF UndoneAfter
<1> QED BY <1>1, <1>5, <1>6, <1>7, NoFlushIs

LEMMA FlushFailsIs ==
  ASSUME UploadShapes, U!FlushFails
  PROVE  /\ UNCHANGED <<file, captured, post, vps, report, cursor, checkin, undone>>
         /\ flushing.on /\ flushing' \in FlushType /\ ~flushing'.on /\ mem' \in MemType
         /\ mem'.rows = mem.rows /\ mem'.dropped = mem.dropped /\ mem'.evicted = mem.evicted
         /\ mem'.dirty = mem.dirty \cup DOMAIN flushing.rows
         /\ mem'.deleted = mem.deleted \cup flushing.deleted
         /\ mem'.droppedDirty = (mem.droppedDirty \/ flushing.counts)
<1>1. /\ flushing.on /\ flushing' = U!NoFlush /\ mem' = U!TriedAgain(mem)
      /\ UNCHANGED <<file, captured, post, vps, report, cursor, checkin, undone>>
  BY DEF U!FlushFails, U!reports
<1>2. flushing \in FlushType /\ flushing.rows \in Items /\ mem \in MemType
  BY <1>1 DEF UploadShapes
<1> DEFINE dirty == mem.dirty \cup DOMAIN flushing.rows  deleted == mem.deleted \cup flushing.deleted
           counts == mem.droppedDirty \/ flushing.counts
<1>3. mem' = [mem EXCEPT !.dirty = dirty, !.deleted = deleted, !.droppedDirty = counts]
  BY <1>1 DEF U!TriedAgain
<1>4. dirty \in SUBSET Prints /\ deleted \in SUBSET Prints /\ counts \in BOOLEAN
  BY <1>2, ItemsIs DEF MemType, FlushType
<1> HIDE DEF dirty, deleted, counts
<1>5. /\ mem' \in MemType /\ mem'.rows = mem.rows /\ mem'.dropped = mem.dropped
      /\ mem'.evicted = mem.evicted /\ mem'.dirty = dirty /\ mem'.deleted = deleted
      /\ mem'.droppedDirty = counts
  BY <1>2, <1>3, <1>4 DEF MemType
<1> QED BY <1>1, <1>5, NoFlushIs DEF dirty, deleted, counts

LEMMA IdleIs ==
  /\ U!Idle \in PostType /\ U!Idle.pc = "idle" /\ U!Idle.items = << >> /\ U!Idle.issuesIn = {}
  /\ U!Idle.reportsIn = {} /\ U!Idle.reports = {} /\ U!Idle.dropped = 0
BY DEF U!Idle, PostType

LEMMA BodyIs ==
  ASSUME UploadShapes, U!Body
  PROVE  /\ UNCHANGED <<mem, file, flushing, captured, undone, vps, report, cursor, checkin>>
         /\ post' \in PostType /\ post'.pc = "sent" /\ post'.items \in Items
         /\ post'.issuesIn = {} /\ post'.reportsIn = {} /\ post'.dropped = mem.dropped
         /\ \A r \in post'.reports : report[r].status # "none"
         /\ \A p \in DOMAIN post'.items :
              post'.items[p] = mem.rows[p] /\ Len(mem.rows[p].occ) > mem.rows[p].sent
<1>1. PICK some \in SUBSET {p \in U!Known(mem) : U!Unsent(mem.rows[p])},
           few \in SUBSET {r \in Reports : report[r].status # "none" /\ ~report[r].accepted} :
        post' = [U!Idle EXCEPT !.pc = "sent", !.items = [p \in some |-> mem.rows[p]],
                               !.reports = few, !.dropped = mem.dropped]
  BY DEF U!Body
<1>2. /\ UNCHANGED <<mem, file, flushing, captured, undone, vps, report, cursor, checkin>>
      /\ mem \in MemType
  BY DEF U!Body, U!issues, U!reports, UploadShapes
<1>3. mem.rows \in [Prints -> IssueRow] /\ some \in SUBSET Prints /\ mem.dropped \in Nat
      /\ few \in SUBSET Reports
  BY <1>2 DEF MemType, U!Known
<1> DEFINE items == [p \in some |-> mem.rows[p]]
<1>4. items \in Items /\ DOMAIN items = some /\ \A p \in some : items[p] = mem.rows[p]
  <2>1. items \in [some -> IssueRow]
    BY <1>3
  <2> QED BY <1>3, <2>1, ItemsMade
<1>5. post' = [U!Idle EXCEPT !.pc = "sent", !.items = items, !.reports = few, !.dropped = mem.dropped]
  BY <1>1
<1> HIDE DEF items
<1>6. /\ post' \in PostType /\ post'.pc = "sent" /\ post'.items = items /\ post'.reports = few
      /\ post'.dropped = mem.dropped /\ post'.issuesIn = {} /\ post'.reportsIn = {}
  BY <1>3, <1>4, <1>5, IdleIs DEF PostType
<1>7. /\ \A p \in some : Len(mem.rows[p].occ) > mem.rows[p].sent
      /\ \A r \in few : report[r].status # "none"
  BY DEF U!Unsent
<1> QED BY <1>2, <1>4, <1>6, <1>7

LEMMA DeltaIs ==
  ASSUME NEW row \in IssueRow
  PROVE  /\ U!Delta(row) \subseteq Nat
         /\ \A i \in 1..Len(row.occ) : i > row.sent => row.occ[i] \in U!Delta(row)
<1>1. row.occ \in Seq(Nat) /\ row.sent \in Nat
  BY DEF IssueRow
<1> QED BY <1>1 DEF U!Delta

LEMMA TakenIs ==
  ASSUME UploadShapes, U!Taken
  PROVE  /\ UNCHANGED <<mem, file, flushing, captured, undone, report, cursor, checkin>>
         /\ post.pc = "sent" /\ post' \in PostType /\ post'.pc = "answered"
         /\ post'.items = post.items /\ post'.dropped = post.dropped
         /\ post'.issuesIn \subseteq DOMAIN post.items
         /\ vps' \in VpsType /\ vps.had \subseteq vps'.had
         /\ vps'.dropped = vps.dropped + post.dropped
         /\ vps'.reports = vps.reports \cup post'.reportsIn
         /\ vps'.at = vps.at /\ vps'.newest = vps.newest
         /\ \A p \in post'.issuesIn : U!Delta(post.items[p]) \subseteq vps'.had
<1>1. PICK some \in SUBSET DOMAIN post.items, few \in SUBSET post.reports :
        /\ vps' = [vps EXCEPT !.had = @ \cup UNION {U!Delta(post.items[p]) : p \in some},
                              !.dropped = @ + post.dropped, !.reports = @ \cup few]
        /\ post' = [post EXCEPT !.pc = "answered", !.issuesIn = some, !.reportsIn = few]
  BY DEF U!Taken
<1>2. /\ post.pc = "sent" /\ post \in PostType /\ post.items \in Items /\ vps \in VpsType
      /\ UNCHANGED <<mem, file, flushing, captured, undone, report, cursor, checkin>>
  BY DEF U!Taken, U!issues, U!reports, UploadShapes
<1>3. some \in SUBSET Prints /\ few \in SUBSET Reports /\ post.items \in [DOMAIN post.items -> IssueRow]
  BY <1>2, ItemsIs DEF PostType
<1> DEFINE had == vps.had \cup UNION {U!Delta(post.items[p]) : p \in some}
           dropped == vps.dropped + post.dropped  known == vps.reports \cup few
<1>4. had \in SUBSET Nat /\ vps.had \subseteq had /\ \A p \in some : U!Delta(post.items[p]) \subseteq had
  BY <1>2, <1>3, DeltaIs DEF VpsType
<1>5. dropped \in Nat /\ known \in SUBSET Reports
  BY <1>2, <1>3 DEF VpsType, PostType
<1>6. vps' = [vps EXCEPT !.had = had, !.dropped = dropped, !.reports = known]
  BY <1>1
<1> HIDE DEF had, dropped, known
<1>7. /\ vps' \in VpsType /\ vps'.had = had /\ vps'.dropped = dropped /\ vps'.reports = known
      /\ vps'.at = vps.at /\ vps'.newest = vps.newest
  BY <1>2, <1>4, <1>5, <1>6 DEF VpsType
<1>8. /\ post' \in PostType /\ post'.pc = "answered" /\ post'.items = post.items
      /\ post'.dropped = post.dropped /\ post'.issuesIn = some /\ post'.reportsIn = few
  BY <1>1, <1>2, <1>3 DEF PostType
<1> QED BY <1>2, <1>4, <1>7, <1>8 DEF dropped, known

LEMMA MarkedIs ==
  ASSUME NEW rep \in ReportType
  PROVE  /\ U!Marked(rep) \in ReportType /\ U!Marked(rep).at = rep.at
         /\ (U!Marked(rep).status = "set" <=> rep.status = "set")
BY DEF U!Marked, ReportType

LEMMA MarkAcceptedIs ==
  ASSUME UploadShapes, U!MarkAccepted
  PROVE  /\ UNCHANGED <<mem, file, flushing, captured, undone, vps, cursor, checkin>>
         /\ post.pc = "answered" /\ post' \in PostType /\ post'.pc = "marked"
         /\ post'.items = post.items /\ post'.dropped = post.dropped
         /\ post'.issuesIn = post.issuesIn /\ post'.reportsIn = post.reportsIn
         /\ report' \in [Reports -> ReportType]
         /\ \A r \in Reports :
              /\ report'[r].at = report[r].at /\ (report'[r].status = "set" <=> report[r].status = "set")
              /\ report'[r].accepted => report[r].accepted \/ r \in post.reportsIn
<1>1. /\ post.pc = "answered" /\ post \in PostType /\ report \in [Reports -> ReportType]
      /\ post' = [post EXCEPT !.pc = "marked"]
      /\ report' = [r \in Reports |-> IF r \in post.reportsIn THEN U!Marked(report[r]) ELSE report[r]]
      /\ UNCHANGED <<mem, file, flushing, captured, undone, vps, cursor, checkin>>
  BY DEF U!MarkAccepted, U!issues, UploadShapes
<1>2. /\ post' \in PostType /\ post'.pc = "marked" /\ post'.items = post.items
      /\ post'.dropped = post.dropped /\ post'.issuesIn = post.issuesIn
      /\ post'.reportsIn = post.reportsIn
  BY <1>1 DEF PostType
<1>3. report' \in [Reports -> ReportType]
  BY <1>1, MarkedIs
<1>4. ASSUME NEW r \in Reports
      PROVE  /\ report'[r].at = report[r].at
             /\ (report'[r].status = "set" <=> report[r].status = "set")
             /\ report'[r].accepted => report[r].accepted \/ r \in post.reportsIn
  BY <1>1, MarkedIs
<1> QED BY <1>1, <1>2, <1>3, <1>4

LEMMA SentNowIs ==
  ASSUME NEW row \in IssueRow, NEW item \in IssueRow, row.sent <= Len(row.occ)
  PROVE  /\ U!SentNow(row, item) \in Nat /\ U!SentNow(row, item) <= Len(row.occ)
         /\ \A i \in 1..U!SentNow(row, item) : i <= row.sent \/ i <= Len(item.occ)
<1>1. row.occ \in Seq(Nat) /\ row.sent \in Nat /\ item.occ \in Seq(Nat)
  BY DEF IssueRow
<1>2. Len(row.occ) \in Nat /\ Len(item.occ) \in Nat
  BY <1>1
<1> QED BY <1>1, <1>2 DEF U!SentNow, U!Greater, U!Lesser

LEMMA AcknowledgeIs ==
  ASSUME UploadShapes, RowsGood, U!Acknowledge
  PROVE  /\ UNCHANGED <<file, flushing, captured, undone, vps, report, cursor, checkin>>
         /\ post.pc = "marked" /\ post' \in PostType /\ post'.pc = "acknowledged"
         /\ post'.items = post.items /\ post'.dropped = post.dropped
         /\ post'.issuesIn = post.issuesIn /\ post'.reportsIn = post.reportsIn
         /\ mem' \in MemType /\ mem'.deleted = mem.deleted /\ mem'.dropped = mem.dropped
         /\ mem'.droppedDirty = mem.droppedDirty /\ mem'.evicted = mem.evicted
         /\ mem'.dirty = mem.dirty \cup (DOMAIN post.items \cap U!Known(mem))
         /\ \A p \in Prints :
              /\ p \notin DOMAIN post.items \cap U!Known(mem) \cap post.issuesIn => mem'.rows[p] = mem.rows[p]
              /\ p \in DOMAIN post.items \cap U!Known(mem) \cap post.issuesIn =>
                   /\ mem'.rows[p].occ = mem.rows[p].occ
                   /\ mem'.rows[p].sent = U!SentNow(mem.rows[p], post.items[p])
                   /\ mem'.rows[p].mixed = (mem.rows[p].mixed \/ ~U!Continues(mem.rows[p], post.items[p]))
<1> DEFINE there == DOMAIN post.items \cap U!Known(mem)
           row(p) == [mem.rows[p] EXCEPT !.sent = U!SentNow(mem.rows[p], post.items[p]),
                        !.mixed = mem.rows[p].mixed \/ ~U!Continues(mem.rows[p], post.items[p])]
           rows == [p \in Prints |-> IF p \in there \cap post.issuesIn THEN row(p) ELSE mem.rows[p]]
           dirty == mem.dirty \cup there
<1>1. /\ post.pc = "marked" /\ post \in PostType /\ post.items \in Items /\ mem \in MemType
      /\ UNCHANGED <<file, flushing, captured, undone, vps, report, cursor, checkin>>
      /\ post' = [post EXCEPT !.pc = "acknowledged"]
  BY DEF U!Acknowledge, U!reports, UploadShapes
<1>2. mem.rows \in [Prints -> IssueRow] /\ dirty \in SUBSET Prints /\ DOMAIN post.items \subseteq Prints
      /\ post.items \in [DOMAIN post.items -> IssueRow]
  BY <1>1, ItemsIs DEF MemType
<1>3. mem' = [mem EXCEPT !.dirty = dirty, !.rows = rows]
  BY DEF U!Acknowledge
<1>4. ASSUME NEW p \in Prints, p \in there \cap post.issuesIn
      PROVE  /\ row(p) \in IssueRow /\ row(p).occ = mem.rows[p].occ
             /\ row(p).sent = U!SentNow(mem.rows[p], post.items[p])
             /\ row(p).mixed = (mem.rows[p].mixed \/ ~U!Continues(mem.rows[p], post.items[p]))
  <2> DEFINE r == mem.rows[p]  counted == U!SentNow(mem.rows[p], post.items[p])
             mixed == mem.rows[p].mixed \/ ~U!Continues(mem.rows[p], post.items[p])
  <2>1. r \in IssueRow /\ post.items[p] \in IssueRow
    BY <1>2, <1>4
  <2>2. r.sent <= Len(r.occ)
    BY DEF RowsGood, GoodRow
  <2>3. counted \in Nat /\ mixed \in BOOLEAN
    BY <2>1, <2>2, SentNowIs DEF IssueRow
  <2>4. row(p) = [r EXCEPT !.sent = counted, !.mixed = mixed]
    OBVIOUS
  <2> HIDE DEF r, counted, mixed, row
  <2>5. row(p) \in IssueRow /\ row(p).occ = r.occ /\ row(p).sent = counted /\ row(p).mixed = mixed
    BY <2>1, <2>3, <2>4 DEF IssueRow
  <2> QED BY <2>5 DEF r, counted, mixed
<1> HIDE DEF there, row
<1>5. rows \in [Prints -> IssueRow]
  BY <1>2, <1>4
<1>6. \A p \in Prints : rows[p] = IF p \in there \cap post.issuesIn THEN row(p) ELSE mem.rows[p]
  OBVIOUS
<1> HIDE DEF rows, dirty
<1>7. /\ mem' \in MemType /\ mem'.deleted = mem.deleted /\ mem'.dropped = mem.dropped
      /\ mem'.droppedDirty = mem.droppedDirty /\ mem'.evicted = mem.evicted
      /\ mem'.dirty = dirty /\ mem'.rows = rows
  BY <1>1, <1>2, <1>3, <1>5 DEF MemType
<1>8. /\ post' \in PostType /\ post'.pc = "acknowledged" /\ post'.items = post.items
      /\ post'.dropped = post.dropped /\ post'.issuesIn = post.issuesIn
      /\ post'.reportsIn = post.reportsIn
  BY <1>1 DEF PostType
<1> QED BY <1>1, <1>4, <1>6, <1>7, <1>8 DEF there, dirty

LEMMA AcknowledgeDroppedIs ==
  ASSUME UploadShapes, U!AcknowledgeDropped
  PROVE  /\ UNCHANGED <<file, flushing, captured, undone, vps, report, cursor, checkin>>
         /\ post.pc = "acknowledged" /\ post' = U!Idle
         /\ mem' \in MemType /\ mem'.rows = mem.rows /\ mem'.dirty = mem.dirty
         /\ mem'.deleted = mem.deleted /\ mem'.evicted = mem.evicted
         /\ IF post.dropped > 0
              THEN mem'.droppedDirty /\ mem'.dropped = U!LeftToTell(post.dropped)
              ELSE mem'.droppedDirty = mem.droppedDirty /\ mem'.dropped = mem.dropped
<1> DEFINE left == U!LeftToTell(post.dropped)
<1>1. /\ mem \in MemType /\ post \in PostType /\ post.pc = "acknowledged" /\ post' = U!Idle
      /\ UNCHANGED <<file, flushing, captured, undone, vps, report, cursor, checkin>>
      /\ mem' = IF post.dropped > 0 THEN [mem EXCEPT !.dropped = left, !.droppedDirty = TRUE] ELSE mem
  BY DEF U!AcknowledgeDropped, U!reports, UploadShapes
<1>2. left \in Nat
  BY <1>1 DEF U!LeftToTell, U!Greater, MemType, PostType
<1> HIDE DEF left
<1>3. CASE post.dropped > 0
  <2>1. /\ mem' \in MemType /\ mem'.rows = mem.rows /\ mem'.dirty = mem.dirty
        /\ mem'.deleted = mem.deleted /\ mem'.evicted = mem.evicted
        /\ mem'.droppedDirty /\ mem'.dropped = left
    BY <1>1, <1>2, <1>3 DEF MemType
  <2> QED BY <1>1, <1>3, <2>1 DEF left
<1> QED BY <1>1, <1>3

LEMMA UnfiledIs == U!Unfiled \in ReportType /\ U!Unfiled.at = 0 /\ U!Unfiled.status = "none" /\ ~U!Unfiled.accepted
BY DEF U!Unfiled, ReportType

LEMMA FileIs ==
  ASSUME UploadShapes, NEW r \in Reports, U!File(r)
  PROVE  /\ UNCHANGED <<mem, file, flushing, captured, undone, post, vps, cursor, checkin>>
         /\ report' \in [Reports -> ReportType]
         /\ \A q \in Reports :
              /\ report'[q].at = report[q].at /\ report'[q].accepted = report[q].accepted
              /\ (report'[q].status = "set" <=> report[q].status = "set")
<1>1. /\ report \in [Reports -> ReportType] /\ report[r] = U!Unfiled
      /\ report' = [report EXCEPT ![r].status = "queued"]
      /\ UNCHANGED <<mem, file, flushing, captured, undone, post, vps, cursor, checkin>>
  BY DEF U!File, U!issues, UploadShapes
<1>2. report' \in [Reports -> ReportType]
  BY <1>1 DEF ReportType
<1>3. report[r].status # "set"
  BY <1>1, UnfiledIs
<1>4. ASSUME NEW q \in Reports
      PROVE  /\ report'[q].at = report[q].at /\ report'[q].accepted = report[q].accepted
             /\ (report'[q].status = "set" <=> report[q].status = "set")
  BY <1>1, <1>3 DEF ReportType
<1> QED BY <1>1, <1>2, <1>4

LEMMA SetByStaffIs ==
  ASSUME UploadShapes, NEW r \in Reports, U!SetByStaff(r)
  PROVE  /\ UNCHANGED <<mem, file, flushing, captured, undone, post, report, cursor, checkin>>
         /\ r \in vps.reports /\ vps' \in VpsType
         /\ vps'.had = vps.had /\ vps'.dropped = vps.dropped /\ vps'.reports = vps.reports
         /\ vps'.newest = vps.newest + 1 /\ vps'.at[r] = vps.newest + 1
         /\ \A q \in Reports \ {r} : vps'.at[q] = vps.at[q]
<1> DEFINE at == [vps.at EXCEPT ![r] = vps.newest + 1]  number == vps.newest + 1
<1>1. /\ vps \in VpsType /\ r \in vps.reports /\ vps' = [vps EXCEPT !.at = at, !.newest = number]
      /\ UNCHANGED <<mem, file, flushing, captured, undone, post, report, cursor, checkin>>
  BY DEF U!SetByStaff, U!issues, U!reports, UploadShapes, VpsType
<1>2. vps.at \in [Reports -> Nat] /\ number \in Nat
  BY <1>1 DEF VpsType
<1>3. at \in [Reports -> Nat] /\ at[r] = number /\ \A q \in Reports \ {r} : at[q] = vps.at[q]
  BY <1>2
<1> HIDE DEF at, number
<1>4. /\ vps' \in VpsType /\ vps'.had = vps.had /\ vps'.dropped = vps.dropped
      /\ vps'.reports = vps.reports /\ vps'.newest = number /\ vps'.at = at
  BY <1>1, <1>2, <1>3 DEF VpsType
<1> QED BY <1>1, <1>3, <1>4 DEF number

\* A greatest of bounded numbers is a least of what they leave to the bound.
LEMMA LeastIs ==
  ASSUME NEW S \in SUBSET Nat, S # {}
  PROVE  \E x \in S : \A y \in S : x <= y
<1> DEFINE R == OpToRel(<, Nat)
<1>1. IsWellFoundedOn(R, Nat)
  BY NatLessThanWellFounded, Zenon
<1>2. R = {ss \in Nat \X Nat : ss[1] < ss[2]}
  BY DEF OpToRel
<1> HIDE DEF R
<1>3. \E x \in S : \A y \in S : ~ (<<y, x>> \in R)
  BY <1>1, WFMin
<1>4. \A x, y \in Nat : y < x => <<y, x>> \in R
  BY <1>2
<1>5. PICK x \in S : \A y \in S : ~ (<<y, x>> \in R)
  BY <1>3
<1>6. \A y \in S : ~ (y < x)
  BY <1>4, <1>5
<1>7. \A y \in S : x <= y
  BY <1>6
<1> QED BY <1>7

LEMMA GreatestIs ==
  ASSUME NEW S \in SUBSET Nat, S # {}, NEW n \in Nat, \A x \in S : x <= n
  PROVE  U!Max(S) \in S /\ \A x \in S : x <= U!Max(S)
<1> DEFINE left == {m \in Nat : \E x \in S : m = n - x}
<1>1. left \in SUBSET Nat /\ \A x \in S : n - x \in left
  OBVIOUS
<1>2. left # {}
  BY <1>1
<1>3. PICK least \in left : \A m \in left : least <= m
  <2> HIDE DEF left
  <2> QED BY <1>1, <1>2, LeastIs
<1>4. PICK x \in S : least = n - x
  BY <1>3
<1> HIDE DEF left
<1>45. \A y \in S : x >= y
  <2> TAKE y \in S
  <2>1. n - y \in left /\ x \in Nat /\ y \in Nat
    BY <1>1
  <2>2. n - x <= n - y
    BY <1>3, <1>4, <2>1
  <2> QED BY <2>1, <2>2
<1>5. \E z \in S : \A y \in S : z >= y
  BY <1>45
<1>6. U!Max(S) \in S /\ \A y \in S : U!Max(S) >= y
  BY <1>5 DEF U!Max
<1> QED BY <1>6

LEMMA ApplyUpdatesIs ==
  ASSUME UploadShapes, StatusesKnown, U!ApplyUpdates
  PROVE  /\ UNCHANGED <<mem, file, flushing, captured, undone, post, vps>>
         /\ checkin # << >> /\ checkin' = << >>
         /\ cursor' \in Nat /\ cursor <= cursor'
         /\ \A r \in DOMAIN checkin : checkin[r] <= cursor'
         /\ cursor' = cursor \/ \E r \in DOMAIN checkin : cursor' = checkin[r]
         /\ report' \in [Reports -> ReportType]
         /\ \A r \in Reports :
              /\ r \notin DOMAIN checkin => report'[r] = report[r]
              /\ r \in DOMAIN checkin =>
                   \/ report[r].at > checkin[r] /\ report'[r] = report[r]
                   \/ report'[r].at = checkin[r] /\ report'[r].status = "set"
<1> DEFINE S == {cursor} \cup {checkin[r] : r \in DOMAIN checkin}
<1>1. /\ checkin # << >> /\ checkin' = << >> /\ cursor' = U!Max(S)
      /\ report' = [r \in Reports |-> IF r \in DOMAIN checkin THEN U!Updated(report[r], checkin[r])
                                      ELSE report[r]]
      /\ UNCHANGED <<mem, file, flushing, captured, undone, post, vps>>
  BY DEF U!ApplyUpdates, U!issues
<1>2. /\ DOMAIN checkin \subseteq Reports /\ \A r \in DOMAIN checkin : checkin[r] \in Nat
      /\ cursor \in Nat /\ vps.newest \in Nat /\ report \in [Reports -> ReportType]
      /\ vps.at \in [Reports -> Nat]
  BY <1>1 DEF UploadShapes, VpsType
<1>3. \A r \in DOMAIN checkin : checkin[r] <= vps.at[r] /\ vps.at[r] <= vps.newest
  BY <1>1, <1>2 DEF StatusesKnown
<1>4. S \in SUBSET Nat /\ S # {} /\ \A x \in S : x <= vps.newest
  <2>1. \A r \in DOMAIN checkin : checkin[r] <= vps.newest
    BY <1>2, <1>3
  <2>2. cursor <= vps.newest
    BY DEF StatusesKnown
  <2> QED BY <1>2, <2>1, <2>2
<1>5. U!Max(S) \in S /\ \A x \in S : x <= U!Max(S)
  BY <1>2, <1>4, GreatestIs
<1>6. /\ cursor' \in Nat /\ cursor <= cursor'
      /\ \A r \in DOMAIN checkin : checkin[r] <= cursor'
      /\ cursor' = cursor \/ \E r \in DOMAIN checkin : cursor' = checkin[r]
  BY <1>1, <1>4, <1>5
<1> HIDE DEF S
<1>7. ASSUME NEW rep \in ReportType, NEW at \in Nat
      PROVE  /\ U!Updated(rep, at) \in ReportType
             /\ \/ rep.at > at /\ U!Updated(rep, at) = rep
                \/ U!Updated(rep, at).at = at /\ U!Updated(rep, at).status = "set"
  BY DEF U!Updated, ReportType
<1>8. ASSUME NEW r \in Reports
      PROVE  /\ report'[r] \in ReportType
             /\ r \notin DOMAIN checkin => report'[r] = report[r]
             /\ r \in DOMAIN checkin =>
                  \/ report[r].at > checkin[r] /\ report'[r] = report[r]
                  \/ report'[r].at = checkin[r] /\ report'[r].status = "set"
  BY <1>1, <1>2, <1>7
<1>9. report' \in [Reports -> ReportType]
  BY <1>1, <1>8
<1> QED BY <1>1, <1>6, <1>8, <1>9

LEMMA RestartIs ==
  ASSUME UploadShapes, U!Restart
  PROVE  /\ UNCHANGED <<file, captured, vps, report, cursor>>
         /\ flushing' = U!NoFlush /\ post' = U!Idle /\ checkin' = << >> /\ undone' = {}
         /\ mem' \in MemType /\ mem'.rows = file.rows /\ mem'.dirty = {} /\ mem'.deleted = {}
         /\ ~mem'.droppedDirty /\ mem'.dropped = file.dropped /\ mem'.evicted = file.evicted
<1>1. /\ UNCHANGED <<file, captured, vps, report, cursor>>
      /\ flushing' = U!NoFlush /\ post' = U!Idle /\ checkin' = << >> /\ undone' = {}
      /\ mem' = U!Clean(file.rows, file.dropped, file.evicted) /\ file \in FileType
  BY DEF U!Restart, UploadShapes
<1> QED BY <1>1 DEF U!Clean, MemType, FileType

LEMMA UploadFailsIs ==
  ASSUME U!UploadFails
  PROVE  /\ UNCHANGED <<mem, file, flushing, captured, undone, vps, report, cursor, checkin>>
         /\ post' = U!Idle
BY DEF U!UploadFails, U!issues, U!reports

LEMMA CheckInIs ==
  ASSUME UploadShapes, U!CheckIn
  PROVE  /\ UNCHANGED <<mem, file, flushing, captured, undone, post, vps, report, cursor>>
         /\ DOMAIN checkin' = {r \in Reports : vps.at[r] > cursor}
         /\ \A r \in DOMAIN checkin' : checkin'[r] = vps.at[r] /\ checkin'[r] \in Nat
<1> DEFINE news == {r \in Reports : vps.at[r] > cursor}
<1>1. /\ checkin' = [r \in news |-> vps.at[r]] /\ vps \in VpsType
      /\ UNCHANGED <<mem, file, flushing, captured, undone, post, vps, report, cursor>>
  BY DEF U!CheckIn, U!issues, UploadShapes
<1>2. \A r \in Reports : vps.at[r] \in Nat
  BY <1>1 DEF VpsType
<1> QED BY <1>1, <1>2

LEMMA ApplyFailsIs ==
  ASSUME U!ApplyFails
  PROVE  /\ UNCHANGED <<mem, file, flushing, captured, undone, post, vps, report, cursor>>
         /\ checkin' = << >>
BY DEF U!ApplyFails, U!CursorKept, U!issues

LEMMA UploadShapesNext ==
  ASSUME UploadInv, U!Next
  PROVE  UploadShapes'
<1>0. UploadShapes /\ RowsGood /\ StatusesKnown
  BY DEF UploadInv
<1>1. ASSUME NEW p \in Prints, U!Capture(p) PROVE UploadShapes'
  <2>1. captured \in Nat /\ captured' = captured + 1
    BY <1>0, <1>1, CaptureIs DEF UploadShapes
  <2>2. captured' \in Nat
    BY <2>1
  <2> QED BY <1>0, <1>1, <2>2, CaptureIs DEF UploadShapes
<1>2. ASSUME NEW p \in Prints, U!Prune(p) PROVE UploadShapes'
  BY <1>0, <1>2, PruneIs DEF UploadShapes
<1>3. CASE U!FlushBegin
  BY <1>0, <1>3, FlushBeginIs DEF UploadShapes
<1>4. CASE U!FlushWrites
  BY <1>0, <1>4, FlushWritesIs DEF UploadShapes
<1>5. CASE U!FlushFails
  BY <1>0, <1>5, FlushFailsIs DEF UploadShapes
<1>6. ASSUME NEW r \in Reports, U!File(r) PROVE UploadShapes'
  BY <1>0, <1>6, FileIs DEF UploadShapes
<1>7. ASSUME NEW r \in Reports, U!SetByStaff(r) PROVE UploadShapes'
  BY <1>0, <1>7, SetByStaffIs DEF UploadShapes
<1>8. CASE U!Body
  BY <1>0, <1>8, BodyIs DEF UploadShapes
<1>9. CASE U!Taken
  <2>1. post'.items \in Items /\ post'.issuesIn \subseteq DOMAIN post'.items
    BY <1>0, <1>9, TakenIs DEF UploadShapes
  <2> QED BY <1>0, <1>9, <2>1, TakenIs DEF UploadShapes
<1>10. CASE U!UploadFails
  BY <1>0, <1>10, UploadFailsIs, IdleIs DEF UploadShapes
<1>11. CASE U!MarkAccepted
  BY <1>0, <1>11, MarkAcceptedIs DEF UploadShapes
<1>12. CASE U!Acknowledge
  BY <1>0, <1>12, AcknowledgeIs DEF UploadShapes
<1>13. CASE U!AcknowledgeDropped
  BY <1>0, <1>13, AcknowledgeDroppedIs, IdleIs DEF UploadShapes
<1>14. CASE U!CheckIn
  BY <1>0, <1>14, CheckInIs DEF UploadShapes
<1>15. CASE U!ApplyUpdates
  BY <1>0, <1>15, ApplyUpdatesIs DEF UploadShapes
<1>16. CASE U!ApplyFails
  BY <1>0, <1>16, ApplyFailsIs DEF UploadShapes
<1>17. CASE U!Restart
  BY <1>0, <1>17, RestartIs, NoFlushIs, IdleIs DEF UploadShapes
<1> QED
  BY <1>1, <1>2, <1>3, <1>4, <1>5, <1>6, <1>7, <1>8, <1>9, <1>10, <1>11, <1>12, <1>13, <1>14,
     <1>15, <1>16, <1>17
  DEF U!Next

LEMMA GoodRowStays ==
  ASSUME NEW row \in IssueRow, NEW n \in Nat, NEW m \in Nat, n <= m, NEW had, NEW has, had \subseteq has,
         GoodRow(row, n, had)
  PROVE  GoodRow(row, m, has)
<1>1. row.occ \in Seq(Nat)
  BY DEF IssueRow
<1>2. \A i \in 1..Len(row.occ) : row.occ[i] \in Nat
  BY <1>1
<1>3. \A i \in 1..Len(row.occ) : row.occ[i] <= m
  BY <1>2 DEF GoodRow
<1> QED BY <1>3 DEF GoodRow

LEMMA AbsentIsGood ==
  ASSUME NEW n \in Nat, NEW had
  PROVE  GoodRow(U!Absent, n, had)
<1>1. 1..Len(U!Absent.occ) = {} /\ 1..U!Absent.sent = {}
  BY AbsentIs
<1> QED BY <1>1, AbsentIs DEF GoodRow

LEMMA CountedIsGood ==
  ASSUME NEW row \in IssueRow, NEW r \in IssueRow, NEW n \in Nat, NEW had, GoodRow(r, n, had),
         row.occ = Append(r.occ, n + 1), row.sent = r.sent, row.mixed = r.mixed
  PROVE  GoodRow(row, n + 1, had)
<1>1. r.occ \in Seq(Nat) /\ r.sent \in Nat
  BY DEF IssueRow
<1>2. /\ Len(row.occ) = Len(r.occ) + 1 /\ Len(r.occ) \in Nat
      /\ \A i \in 1..Len(r.occ) : row.occ[i] = r.occ[i] /\ r.occ[i] \in Nat
      /\ row.occ[Len(r.occ) + 1] = n + 1
  BY <1>1
<1>3. \A i \in 1..Len(row.occ) : row.occ[i] <= n + 1
  <2> TAKE i \in 1..Len(row.occ)
  <2>1. CASE i \in 1..Len(r.occ)
    <3>1. r.occ[i] <= n
      BY <2>1 DEF GoodRow
    <3> QED BY <1>2, <2>1, <3>1
  <2>2. CASE i = Len(r.occ) + 1
    BY <1>2, <2>2
  <2> QED BY <1>2, <2>1, <2>2
<1>4. row.mixed \/ \A i \in 1..row.sent : row.occ[i] \in had
  <2>1. r.sent <= Len(r.occ) /\ (r.mixed \/ \A i \in 1..r.sent : r.occ[i] \in had)
    BY DEF GoodRow
  <2>2. \A i \in 1..r.sent : row.occ[i] = r.occ[i]
    BY <1>1, <1>2, <2>1
  <2> QED BY <2>1, <2>2
<1>5. row.sent <= Len(row.occ) /\ Len(row.occ) # 0
  BY <1>1, <1>2 DEF GoodRow
<1> QED BY <1>3, <1>4, <1>5 DEF GoodRow

LEMMA RowsIs ==
  ASSUME UploadShapes
  PROVE  /\ captured \in Nat /\ \A p \in Prints : mem.rows[p] \in IssueRow /\ file.rows[p] \in IssueRow
         /\ flushing.on => /\ DOMAIN flushing.rows \subseteq Prints
                           /\ \A p \in DOMAIN flushing.rows : flushing.rows[p] \in IssueRow
         /\ post.pc # "idle" => /\ DOMAIN post.items \subseteq Prints
                                /\ \A p \in DOMAIN post.items : post.items[p] \in IssueRow
<1>1. flushing.on => /\ DOMAIN flushing.rows \subseteq Prints
                     /\ \A p \in DOMAIN flushing.rows : flushing.rows[p] \in IssueRow
  BY ItemsIs DEF UploadShapes
<1>2. post.pc # "idle" => /\ DOMAIN post.items \subseteq Prints
                          /\ \A p \in DOMAIN post.items : post.items[p] \in IssueRow
  BY ItemsIs DEF UploadShapes
<1>3. captured \in Nat /\ \A p \in Prints : mem.rows[p] \in IssueRow /\ file.rows[p] \in IssueRow
  BY DEF UploadShapes, MemType, FileType
<1> QED BY <1>1, <1>2, <1>3

LEMMA RowsGoodNext ==
  ASSUME UploadInv, U!Next
  PROVE  RowsGood'
<1>0. UploadShapes /\ RowsGood /\ StatusesKnown /\ UploadShapes'
  BY UploadShapesNext DEF UploadInv
<1>31. /\ captured \in Nat /\ \A p \in Prints : mem.rows[p] \in IssueRow /\ file.rows[p] \in IssueRow
       /\ flushing.on => \A p \in DOMAIN flushing.rows : flushing.rows[p] \in IssueRow
  BY <1>0, RowsIs
<1>32. \A p \in Prints : mem'.rows[p] \in IssueRow
  BY <1>0 DEF UploadShapes, MemType
<1>1. ASSUME NEW p \in Prints, U!Capture(p) PROVE RowsGood'
  <2>0. /\ captured' = captured + 1 /\ UNCHANGED <<file, flushing, vps>> /\ captured + 1 \in Nat
        /\ captured <= captured + 1
    <3>1. captured' = captured + 1 /\ UNCHANGED <<file, flushing, vps>>
      BY <1>0, <1>1, CaptureIs
    <3> QED BY <1>31, <3>1
  <2>1. ASSUME NEW row \in IssueRow, GoodRow(row, captured, vps.had)
        PROVE  GoodRow(row, captured', vps.had')
    BY <1>31, <2>0, <2>1, GoodRowStays
  <2>2. PICK gone \in SUBSET (Prints \ {p}) :
          /\ \A q \in gone : mem'.rows[q] = U!Absent
          /\ \A q \in Prints \ (gone \cup {p}) : mem'.rows[q] = mem.rows[q]
    BY <1>0, <1>1, CaptureIs
  <2>3. GoodRow(mem'.rows[p], captured', vps.had')
    <3>1. /\ mem'.rows[p].occ = Append(mem.rows[p].occ, captured + 1)
          /\ mem'.rows[p].sent = mem.rows[p].sent /\ mem'.rows[p].mixed = mem.rows[p].mixed
      BY <1>0, <1>1, CaptureIs
    <3>2. GoodRow(mem.rows[p], captured, vps.had)
      BY <1>0 DEF RowsGood
    <3>3. GoodRow(mem'.rows[p], captured + 1, vps.had)
      BY <1>31, <1>32, <3>1, <3>2, CountedIsGood
    <3> QED BY <2>0, <3>3
  <2>4. \A q \in gone : GoodRow(mem'.rows[q], captured', vps.had')
    BY <2>0, <2>2, AbsentIsGood
  <2>5. \A q \in Prints \ (gone \cup {p}) : GoodRow(mem'.rows[q], captured', vps.had')
    BY <1>0, <1>31, <2>1, <2>2 DEF RowsGood
  <2>6. \A q \in Prints : GoodRow(mem'.rows[q], captured', vps.had')
    BY <2>3, <2>4, <2>5
  <2>7. \A q \in Prints : GoodRow(file'.rows[q], captured', vps.had')
    BY <1>0, <1>31, <2>0, <2>1 DEF RowsGood
  <2>8. flushing'.on => \A q \in DOMAIN flushing'.rows : GoodRow(flushing'.rows[q], captured', vps.had')
    BY <1>0, <1>31, <2>0, <2>1 DEF RowsGood
  <2> QED BY <2>6, <2>7, <2>8 DEF RowsGood
<1>2. ASSUME NEW p \in Prints, U!Prune(p) PROVE RowsGood'
  BY <1>0, <1>2, <1>31, PruneIs, AbsentIsGood DEF RowsGood
<1>3. CASE U!FlushBegin
  <2>1. DOMAIN flushing'.rows \subseteq Prints
    BY <1>0, <1>3, FlushBeginIs DEF U!Known
  <2> QED BY <1>0, <1>3, <2>1, FlushBeginIs DEF RowsGood
<1>4. CASE U!FlushWrites
  <2>1. \A p \in Prints : GoodRow(RowAfter(p), captured, vps.had)
    BY <1>0, <1>31, AbsentIsGood DEF RowsGood, RowAfter
  <2> QED BY <1>0, <1>4, <2>1, FlushWritesIs DEF RowsGood
<1>5. CASE U!FlushFails
  BY <1>0, <1>5, FlushFailsIs DEF RowsGood
<1>6. ASSUME vps' = vps \/ (vps.had \subseteq vps'.had),
             UNCHANGED <<mem, file, flushing, captured>>
      PROVE  RowsGood'
  <2>1. ASSUME NEW row \in IssueRow, GoodRow(row, captured, vps.had)
        PROVE  GoodRow(row, captured', vps.had')
    <3>1. vps.had \subseteq vps'.had /\ captured <= captured /\ captured' = captured
      BY <1>6, <1>31
    <3> QED BY <1>31, <2>1, <3>1, GoodRowStays
  <2> QED BY <1>0, <1>6, <1>31, <2>1 DEF RowsGood
<1>7. CASE U!Acknowledge
  <2>0. UNCHANGED <<file, flushing, captured, vps>> /\ post.pc = "marked"
    BY <1>0, <1>7, AcknowledgeIs
  <2>1. ASSUME NEW p \in Prints PROVE GoodRow(mem'.rows[p], captured, vps.had)
    <3> DEFINE row == mem.rows[p]  new == mem'.rows[p]  item == post.items[p]
    <3>1. CASE new = row
      BY <1>0, <3>1 DEF RowsGood
    <3>2. CASE new # row
      <4>1. /\ p \in DOMAIN post.items /\ p \in post.issuesIn /\ new.occ = row.occ
            /\ new.sent = U!SentNow(row, item) /\ new.mixed = (row.mixed \/ ~U!Continues(row, item))
            /\ p \in U!Known(mem)
        BY <1>0, <1>7, <3>2, AcknowledgeIs
      <4>2. item \in IssueRow /\ row \in IssueRow /\ new \in IssueRow
        BY <1>0, <1>31, <1>32, <2>0, <4>1, RowsIs
      <4>3. GoodRow(row, captured, vps.had)
        BY <1>0 DEF RowsGood
      <4>4. /\ U!Continues(row, item) /\ item.mixed => row.mixed
            /\ item.mixed \/ \A i \in 1..Len(item.occ) : item.occ[i] \in vps.had
        BY <2>0, <4>1 DEF UploadInv, ItemsGood
      <4> HIDE DEF row, new, item
      <4>5. /\ new.sent <= Len(row.occ)
            /\ \A i \in 1..new.sent : i <= row.sent \/ i <= Len(item.occ)
        BY <4>1, <4>2, <4>3, SentNowIs DEF GoodRow
      <4>6. ASSUME ~new.mixed, NEW i \in 1..new.sent PROVE new.occ[i] \in vps.had
        <5>1. ~row.mixed /\ U!Continues(row, item) /\ ~item.mixed
          BY <4>1, <4>4, <4>6
        <5>2. /\ \A j \in 1..Len(item.occ) : row.occ[j] = item.occ[j] /\ item.occ[j] \in vps.had
              /\ \A j \in 1..row.sent : row.occ[j] \in vps.had
          BY <4>2, <4>3, <4>4, <5>1, ContinuesIs DEF GoodRow
        <5>3. i \in 1..row.sent \/ i \in 1..Len(item.occ)
          <6>1. item.occ \in Seq(Nat) /\ row.sent \in Nat /\ Len(item.occ) \in Nat
            BY <4>2 DEF IssueRow
          <6> QED BY <4>5, <6>1
        <5> QED BY <4>1, <5>2, <5>3
      <4>7. Len(new.occ) # 0
        <5>1. Len(row.occ) > 0 /\ Len(row.occ) \in Nat
          BY <1>0, <4>1, <4>2, KnownIs DEF UploadShapes, IssueRow, row
        <5> QED BY <4>1, <5>1
      <4>8. new.mixed \in BOOLEAN
        BY <4>2 DEF IssueRow
      <4>9. GoodRow(new, captured, vps.had)
        BY <4>1, <4>3, <4>5, <4>6, <4>7, <4>8 DEF GoodRow
      <4> QED BY <4>9 DEF new
    <3> QED BY <3>1, <3>2
  <2> QED BY <1>0, <2>0, <2>1 DEF RowsGood
<1>8. CASE U!AcknowledgeDropped
  BY <1>0, <1>8, AcknowledgeDroppedIs DEF RowsGood
<1>9. CASE U!Restart
  BY <1>0, <1>9, RestartIs, NoFlushIs DEF RowsGood
<1>10. ASSUME NEW r \in Reports, U!File(r) \/ U!SetByStaff(r) PROVE RowsGood'
  BY <1>0, <1>6, <1>10, FileIs, SetByStaffIs
<1>11. CASE U!Body \/ U!Taken \/ U!UploadFails \/ U!MarkAccepted
  BY <1>0, <1>6, <1>11, BodyIs, TakenIs, UploadFailsIs, MarkAcceptedIs
<1>12. CASE U!CheckIn \/ U!ApplyUpdates \/ U!ApplyFails
  BY <1>0, <1>6, <1>12, CheckInIs, ApplyUpdatesIs, ApplyFailsIs
<1> QED
  BY <1>1, <1>2, <1>3, <1>4, <1>5, <1>7, <1>8, <1>9, <1>10, <1>11, <1>12 DEF U!Next

LEMMA ItemsGoodNext ==
  ASSUME UploadInv, U!Next
  PROVE  ItemsGood'
<1>0. UploadShapes /\ RowsGood /\ ItemsGood /\ StatusesKnown /\ UploadShapes' /\ RowsGood'
  BY UploadShapesNext, RowsGoodNext DEF UploadInv
<1>31. /\ captured \in Nat /\ \A p \in Prints : mem.rows[p] \in IssueRow
       /\ post.pc # "idle" => /\ DOMAIN post.items \subseteq Prints
                              /\ \A p \in DOMAIN post.items : post.items[p] \in IssueRow
  BY <1>0, RowsIs
<1>32. \A p \in Prints : mem'.rows[p] \in IssueRow
  BY <1>0 DEF UploadShapes, MemType
<1>1. ASSUME NEW p \in Prints, U!Capture(p) PROVE ItemsGood'
  <2>0. captured' = captured + 1 /\ UNCHANGED <<post, vps>> /\ captured + 1 \in Nat
        /\ captured <= captured + 1
    <3>1. captured' = captured + 1 /\ UNCHANGED <<post, vps>>
      BY <1>0, <1>1, CaptureIs
    <3> QED BY <1>31, <3>1
  <2>1. PICK gone \in SUBSET (Prints \ {p}) :
          /\ \A q \in gone : mem'.rows[q] = U!Absent
          /\ \A q \in Prints \ (gone \cup {p}) : mem'.rows[q] = mem.rows[q]
    BY <1>0, <1>1, CaptureIs
  <2> SUFFICES ASSUME post.pc # "idle", NEW q \in DOMAIN post.items
               PROVE  /\ GoodRow(post.items[q], captured', vps.had)
                      /\ U!Continues(mem'.rows[q], post.items[q]) /\ post.items[q].mixed => mem'.rows[q].mixed
    BY <1>0, <2>0 DEF ItemsGood
  <2> DEFINE item == post.items[q]  row == mem.rows[q]  new == mem'.rows[q]
  <2>2. q \in Prints /\ item \in IssueRow /\ row \in IssueRow /\ new \in IssueRow
    BY <1>31, <1>32
  <2>3. GoodRow(item, captured, vps.had) /\ Len(item.occ) > 0
        /\ (U!Continues(row, item) /\ item.mixed => row.mixed)
    BY <1>0 DEF ItemsGood
  <2>4. GoodRow(item, captured', vps.had)
    BY <1>31, <2>0, <2>2, <2>3, GoodRowStays
  <2>5. CASE q \in gone
    <3>1. new = U!Absent
      BY <2>1, <2>5
    <3> HIDE DEF item, row, new
    <3>2. ~U!Continues(new, item)
      <4>1. Len(new.occ) = 0 /\ item.occ \in Seq(Nat)
        BY <2>2, <3>1, AbsentIs DEF IssueRow
      <4> QED BY <2>2, <2>3, <4>1, ContinuesIs
    <3> QED BY <2>4, <3>2 DEF item, row, new
  <2>6. CASE q = p
    <3>1. new.occ = Append(row.occ, captured + 1) /\ new.mixed = row.mixed
      BY <1>0, <1>1, <2>6, CaptureIs
    <3> HIDE DEF item, row, new
    <3>2. U!Continues(new, item) => U!Continues(row, item)
      <4>1. /\ Len(new.occ) = Len(row.occ) + 1 /\ Len(row.occ) \in Nat /\ Len(item.occ) \in Nat
            /\ \A i \in 1..Len(row.occ) : new.occ[i] = row.occ[i]
            /\ new.occ[Len(row.occ) + 1] = captured + 1
        BY <1>31, <2>2, <3>1 DEF IssueRow
      <4> HAVE U!Continues(new, item)
      <4>2. Len(item.occ) <= Len(row.occ) + 1 /\ \A i \in 1..Len(item.occ) : new.occ[i] = item.occ[i]
        BY <2>2, <4>1, ContinuesIs
      <4>3. \A i \in 1..Len(item.occ) : item.occ[i] <= captured
        BY <2>3 DEF GoodRow
      <4>4. Len(item.occ) # Len(row.occ) + 1
        <5> SUFFICES ASSUME Len(item.occ) = Len(row.occ) + 1 PROVE FALSE
          OBVIOUS
        <5>1. Len(item.occ) \in 1..Len(item.occ)
          BY <2>3, <4>1
        <5>2. item.occ[Len(item.occ)] = captured + 1 /\ item.occ[Len(item.occ)] <= captured
          BY <4>1, <4>2, <4>3, <5>1
        <5> QED BY <1>31, <5>2
      <4>5. Len(item.occ) <= Len(row.occ)
        BY <4>1, <4>2, <4>4
      <4>6. \A i \in 1..Len(item.occ) : row.occ[i] = item.occ[i]
        <5> TAKE i \in 1..Len(item.occ)
        <5>1. i \in 1..Len(row.occ)
          BY <4>1, <4>5
        <5> QED BY <4>1, <4>2, <5>1
      <4> QED BY <2>2, <4>1, <4>5, <4>6, ContinuesIs
    <3> QED BY <2>3, <2>4, <3>1, <3>2 DEF item, row, new
  <2>7. CASE q \notin gone /\ q # p
    BY <2>1, <2>2, <2>3, <2>4, <2>7
  <2> QED BY <2>5, <2>6, <2>7
<1>2. ASSUME NEW p \in Prints, U!Prune(p) PROVE ItemsGood'
  <2>0. UNCHANGED <<captured, post, vps>> /\ mem'.rows[p] = U!Absent
        /\ \A q \in Prints \ {p} : mem'.rows[q] = mem.rows[q]
    BY <1>0, <1>2, PruneIs
  <2> SUFFICES ASSUME post.pc # "idle", p \in DOMAIN post.items
               PROVE  ~U!Continues(mem'.rows[p], post.items[p])
    BY <1>0, <1>31, <2>0 DEF ItemsGood
  <2> DEFINE item == post.items[p]  new == mem'.rows[p]
  <2>1. item \in IssueRow /\ new \in IssueRow /\ Len(item.occ) > 0
    BY <1>0, <1>31, <1>32 DEF ItemsGood
  <2>2. Len(new.occ) = 0
    BY <2>0, AbsentIs
  <2> HIDE DEF item, new
  <2>3. Len(item.occ) \in Nat
    BY <2>1 DEF IssueRow
  <2>4. ~U!Continues(new, item)
    BY <2>1, <2>2, <2>3, ContinuesIs
  <2> QED BY <2>4 DEF item, new
<1>3. CASE U!Body
  <2>0. /\ UNCHANGED <<mem, captured, vps>> /\ post'.pc = "sent"
        /\ \A p \in DOMAIN post'.items :
             post'.items[p] = mem.rows[p] /\ Len(mem.rows[p].occ) > mem.rows[p].sent
    BY <1>0, <1>3, BodyIs
  <2>1. DOMAIN post'.items \subseteq Prints
    BY <1>0, <1>3, BodyIs, ItemsIs
  <2>2. ASSUME NEW p \in DOMAIN post'.items
        PROVE  GoodRow(mem.rows[p], captured, vps.had) /\ Len(mem.rows[p].occ) > 0
    <3>1. mem.rows[p] \in IssueRow /\ mem.rows[p].occ \in Seq(Nat)
      BY <1>31, <2>1 DEF IssueRow
    <3>2. Len(mem.rows[p].occ) \in Nat /\ mem.rows[p].sent \in Nat
      BY <3>1 DEF IssueRow
    <3>3. Len(mem.rows[p].occ) > 0
      BY <2>0, <3>2
    <3> QED BY <1>0, <2>1, <3>3 DEF RowsGood
  <2> QED BY <2>0, <2>2 DEF ItemsGood
<1>4. CASE U!Taken
  <2>0. /\ UNCHANGED <<mem, captured>> /\ post.pc = "sent" /\ post'.items = post.items
        /\ vps.had \subseteq vps'.had /\ post'.issuesIn \subseteq DOMAIN post.items
        /\ \A p \in post'.issuesIn : U!Delta(post.items[p]) \subseteq vps'.had
    BY <1>0, <1>4, TakenIs
  <2> SUFFICES ASSUME NEW p \in DOMAIN post.items
               PROVE  /\ GoodRow(post.items[p], captured, vps'.had)
                      /\ p \in post'.issuesIn =>
                           post.items[p].mixed
                             \/ \A i \in 1..Len(post.items[p].occ) : post.items[p].occ[i] \in vps'.had
    BY <1>0, <2>0 DEF ItemsGood
  <2> DEFINE item == post.items[p]
  <2>1. item \in IssueRow /\ GoodRow(item, captured, vps.had)
    BY <1>0, <1>31, <2>0 DEF ItemsGood
  <2>2. p \in post'.issuesIn => U!Delta(item) \subseteq vps'.had
    BY <2>0
  <2> HIDE DEF item
  <2>3. GoodRow(item, captured, vps'.had)
    BY <1>31, <2>0, <2>1, GoodRowStays
  <2>4. ASSUME p \in post'.issuesIn, ~item.mixed, NEW i \in 1..Len(item.occ)
        PROVE  item.occ[i] \in vps'.had
    <3>1. item.occ \in Seq(Nat) /\ item.sent \in Nat
      BY <2>1 DEF IssueRow
    <3>2. CASE i <= item.sent
      BY <2>3, <2>4, <3>1, <3>2 DEF GoodRow
    <3>3. CASE i > item.sent
      BY <2>1, <2>2, <2>4, <3>3, DeltaIs
    <3> QED BY <3>1, <3>2, <3>3
  <2> QED BY <2>3, <2>4 DEF item
<1>5. CASE U!UploadFails
  BY <1>0, <1>5, UploadFailsIs, IdleIs DEF ItemsGood
<1>6. CASE U!MarkAccepted
  BY <1>0, <1>6, MarkAcceptedIs DEF ItemsGood
<1>7. CASE U!Acknowledge
  <2>0. /\ UNCHANGED <<captured, vps>> /\ post.pc = "marked" /\ post'.items = post.items
        /\ post'.issuesIn = post.issuesIn
    BY <1>0, <1>7, AcknowledgeIs
  <2> SUFFICES ASSUME NEW p \in DOMAIN post.items
               PROVE  U!Continues(mem'.rows[p], post.items[p]) /\ post.items[p].mixed => mem'.rows[p].mixed
    BY <1>0, <2>0 DEF ItemsGood
  <2>1. U!Continues(mem.rows[p], post.items[p]) /\ post.items[p].mixed => mem.rows[p].mixed
    BY <1>0, <2>0 DEF ItemsGood
  <2>2. p \in Prints
    BY <1>31, <2>0
  <2>3. /\ mem'.rows[p].occ = mem.rows[p].occ
        /\ mem.rows[p].mixed => mem'.rows[p].mixed
    BY <1>0, <1>7, <2>2, AcknowledgeIs
  <2> QED BY <2>1, <2>3 DEF U!Continues
<1>8. CASE U!AcknowledgeDropped
  BY <1>0, <1>8, AcknowledgeDroppedIs, IdleIs DEF ItemsGood
<1>9. CASE U!Restart
  BY <1>0, <1>9, RestartIs, IdleIs DEF ItemsGood
<1>10. CASE UNCHANGED <<captured, post>> /\ mem'.rows = mem.rows /\ vps'.had = vps.had
  BY <1>0, <1>10 DEF ItemsGood
<1>11. ASSUME NEW r \in Reports, U!File(r) \/ U!SetByStaff(r) PROVE ItemsGood'
  BY <1>0, <1>10, <1>11, FileIs, SetByStaffIs
<1>12. CASE U!FlushBegin \/ U!FlushWrites \/ U!FlushFails
  BY <1>0, <1>10, <1>12, FlushBeginIs, FlushWritesIs, FlushFailsIs
<1>13. CASE U!CheckIn \/ U!ApplyUpdates \/ U!ApplyFails
  BY <1>0, <1>10, <1>13, CheckInIs, ApplyUpdatesIs, ApplyFailsIs
<1> QED
  BY <1>1, <1>2, <1>3, <1>4, <1>5, <1>6, <1>7, <1>8, <1>9, <1>11, <1>12, <1>13 DEF U!Next

LEMMA CountsAre ==
  ASSUME UploadShapes
  PROVE  /\ mem.dropped \in Nat /\ mem.evicted \in Nat /\ file.dropped \in Nat /\ file.evicted \in Nat
         /\ flushing.dropped \in Nat /\ flushing.evicted \in Nat
         /\ post.dropped \in Nat /\ vps.dropped \in Nat
BY DEF UploadShapes, MemType, FileType, FlushType, PostType, VpsType

LEMMA EvictionsKnownNext ==
  ASSUME UploadInv, U!Next
  PROVE  EvictionsKnown'
<1>0. UploadShapes /\ RowsGood /\ StatusesKnown /\ EvictionsKnown
  BY DEF UploadInv
<1>1. /\ mem.dropped \in Nat /\ mem.evicted \in Nat /\ file.dropped \in Nat /\ file.evicted \in Nat
      /\ flushing.dropped \in Nat /\ flushing.evicted \in Nat
      /\ post.dropped \in Nat /\ vps.dropped \in Nat
  BY <1>0, CountsAre
<1> USE <1>0, <1>1 DEF EvictionsKnown, U!EvictionsTold
<1>2. ASSUME NEW p \in Prints, U!Capture(p) PROVE EvictionsKnown'
  <2>1. /\ UNCHANGED <<file, flushing, post, vps>>
        /\ \/ mem'.dropped = mem.dropped /\ mem'.evicted = mem.evicted
           \/ mem'.dropped = mem.dropped + 1 /\ mem'.evicted = mem.evicted + 1
    BY <1>2, CaptureIs
  <2> QED BY <2>1
<1>3. ASSUME NEW p \in Prints, U!Prune(p) PROVE EvictionsKnown'
  BY <1>3, PruneIs
<1>4. CASE U!FlushBegin
  <2>1. /\ UNCHANGED <<file, post, vps>> /\ mem'.dropped = mem.dropped /\ mem'.evicted = mem.evicted
        /\ flushing'.dropped = mem.dropped /\ flushing'.evicted = mem.evicted
    BY <1>4, FlushBeginIs
  <2> QED BY <2>1
<1>5. CASE U!FlushWrites
  <2>1. /\ UNCHANGED <<mem, post, vps>> /\ flushing.on /\ ~flushing'.on
        /\ file'.dropped = DroppedAfter
        /\ file'.evicted = IF flushing.counts THEN flushing.evicted ELSE file.evicted
    BY <1>5, FlushWritesIs
  <2> QED BY <2>1 DEF DroppedAfter
<1>6. CASE U!FlushFails
  BY <1>6, FlushFailsIs
<1>7. CASE U!Body
  BY <1>7, BodyIs
<1>8. CASE U!Taken
  <2>1. /\ UNCHANGED <<mem, file, flushing>> /\ post.pc = "sent" /\ post'.pc = "answered"
        /\ post'.dropped = post.dropped /\ vps'.dropped = vps.dropped + post.dropped
    BY <1>8, TakenIs
  <2> QED BY <2>1
<1>9. CASE U!UploadFails
  BY <1>9, UploadFailsIs, IdleIs
<1>10. CASE U!MarkAccepted
  BY <1>10, MarkAcceptedIs
<1>11. CASE U!Acknowledge
  BY <1>11, AcknowledgeIs
<1>12. CASE U!AcknowledgeDropped
  <2>1. /\ UNCHANGED <<file, flushing, vps>> /\ post.pc = "acknowledged" /\ post'.pc = "idle"
        /\ mem'.evicted = mem.evicted
        /\ mem'.dropped = IF post.dropped > 0 THEN U!LeftToTell(post.dropped) ELSE mem.dropped
    BY <1>12, AcknowledgeDroppedIs, IdleIs
  <2> QED BY <2>1 DEF U!LeftToTell, U!Greater
<1>13. CASE U!Restart
  BY <1>13, RestartIs, NoFlushIs, IdleIs
<1>14. CASE UNCHANGED <<mem, file, flushing, post>> /\ vps'.dropped = vps.dropped
  BY <1>14
<1>15. ASSUME NEW r \in Reports, U!File(r) \/ U!SetByStaff(r) PROVE EvictionsKnown'
  <2>1. UNCHANGED <<mem, file, flushing, post>> /\ vps'.dropped = vps.dropped
    BY <1>15, FileIs, SetByStaffIs
  <2> QED BY <1>14, <2>1
<1>16. CASE U!CheckIn \/ U!ApplyUpdates \/ U!ApplyFails
  <2>1. UNCHANGED <<mem, file, flushing, post>> /\ vps'.dropped = vps.dropped
    BY <1>16, CheckInIs, ApplyUpdatesIs, ApplyFailsIs
  <2> QED BY <1>14, <2>1
<1> QED
  BY <1>2, <1>3, <1>4, <1>5, <1>6, <1>7, <1>8, <1>9, <1>10, <1>11, <1>12, <1>13, <1>15, <1>16 DEF
     U!Next

LEMMA SameRowsSameKnown ==
  ASSUME NEW m, NEW n, m.rows = n.rows
  PROVE  U!Known(m) = U!Known(n)
BY DEF U!Known

LEMMA AbsentUnknown ==
  ASSUME NEW m, NEW p, m.rows[p] = U!Absent
  PROVE  p \notin U!Known(m)
BY AbsentIs DEF U!Known

LEMMA UnknownIsAbsent ==
  ASSUME UploadShapes, RowsGood, NEW p \in Prints, p \notin U!Known(mem)
  PROVE  mem.rows[p] = U!Absent
<1>1. mem \in MemType /\ mem.rows[p].occ \in Seq(Nat)
  BY DEF UploadShapes, MemType, IssueRow
<1>2. Len(mem.rows[p].occ) = 0
  BY <1>1, KnownIs
<1> QED BY <1>2 DEF RowsGood, GoodRow

LEMMA FollowsSoonNext ==
  ASSUME UploadInv, U!Next
  PROVE  FollowsSoon'
<1>0. UploadShapes /\ RowsGood /\ StatusesKnown /\ FollowsSoon
  BY DEF UploadInv
<1>1. flushing.on => DOMAIN flushing.rows \subseteq Prints
  BY <1>0, RowsIs
<1>2. U!Known(mem) \subseteq Prints /\ mem.dirty \subseteq Prints /\ mem.deleted \subseteq Prints
      /\ flushing.deleted \subseteq Prints
  BY <1>0 DEF U!Known, UploadShapes, MemType, FlushType
<1>3. ASSUME NEW p \in Prints, U!Capture(p) PROVE FollowsSoon'
  <2>1. UNCHANGED <<file, flushing, undone>>
    BY <1>0, <1>3, CaptureIs
  <2>2. PICK gone \in SUBSET (Prints \ {p}) :
          /\ \A q \in gone : mem'.rows[q] = U!Absent
          /\ \A q \in Prints \ (gone \cup {p}) : mem'.rows[q] = mem.rows[q]
          /\ mem'.dirty = (mem.dirty \cup {p}) \ gone /\ mem'.deleted = mem.deleted \cup gone
    BY <1>0, <1>3, CaptureIs
  <2>3. \A q \in gone : q \notin U!Known(mem')
    BY <2>2, AbsentUnknown
  <2>4. \A q \in Prints \ (gone \cup {p}) : q \in U!Known(mem') <=> q \in U!Known(mem)
    BY <2>2 DEF U!Known
  <2>5. p \in U!Known(mem')
    <3>1. mem'.rows[p].occ = Append(mem.rows[p].occ, captured + 1) /\ mem' \in MemType
      BY <1>0, <1>3, CaptureIs
    <3>2. mem.rows[p].occ \in Seq(Nat) /\ captured + 1 \in Nat
      BY <1>0 DEF UploadShapes, MemType, IssueRow
    <3>3. Len(mem'.rows[p].occ) > 0
      BY <3>1, <3>2
    <3> QED BY <3>1, <3>3, KnownIs
  <2>6. ~mem'.droppedDirty => mem'.dropped = mem.dropped /\ ~mem.droppedDirty
    <3>1. mem.droppedDirty \in BOOLEAN
      BY <1>0 DEF UploadShapes, MemType
    <3>2. \/ mem'.dropped = mem.dropped /\ mem'.droppedDirty = mem.droppedDirty
          \/ mem'.droppedDirty = TRUE
      BY <1>0, <1>3, CaptureIs
    <3> QED BY <3>1, <3>2
  <2>7. ~mem'.droppedDirty => mem'.dropped = DroppedAfter'
    BY <1>0, <2>1, <2>6 DEF FollowsSoon, DroppedAfter
  <2>8. ASSUME NEW q \in Prints
        PROVE  /\ q \notin mem'.dirty \cup mem'.deleted => UndoneAfter(q)' \/ RowAfter(q)' = mem'.rows[q]
               /\ q \in mem'.deleted \ mem'.dirty => q \notin U!Known(mem')
               /\ q \in mem'.dirty \ U!Known(mem') => q \in mem'.deleted
    BY <1>0, <2>1, <2>2, <2>3, <2>4, <2>5 DEF FollowsSoon, UndoneAfter, RowAfter
  <2>9. ASSUME flushing.on
        PROVE  /\ \A q \in flushing.deleted \ DOMAIN flushing.rows : q \in mem'.dirty \/ q \notin U!Known(mem')
               /\ \A q \in DOMAIN flushing.rows \ U!Known(mem') : q \in mem'.deleted \cup flushing.deleted
    BY <1>0, <1>1, <1>2, <2>2, <2>3, <2>4, <2>5, <2>9 DEF FollowsSoon
  <2> QED BY <2>1, <2>7, <2>8, <2>9 DEF FollowsSoon
<1>4. ASSUME NEW p \in Prints, U!Prune(p) PROVE FollowsSoon'
  <2>1. /\ UNCHANGED <<file, flushing, undone>>
        /\ mem'.rows[p] = U!Absent /\ \A q \in Prints \ {p} : mem'.rows[q] = mem.rows[q]
        /\ mem'.dirty = mem.dirty \ {p} /\ mem'.deleted = mem.deleted \cup {p}
        /\ mem'.dropped = mem.dropped /\ mem'.droppedDirty = mem.droppedDirty
    BY <1>0, <1>4, PruneIs
  <2>2. p \notin U!Known(mem') /\ \A q \in Prints \ {p} : q \in U!Known(mem') <=> q \in U!Known(mem)
    BY <2>1, AbsentUnknown DEF U!Known
  <2> QED
    BY <1>0, <1>1, <1>2, <2>1, <2>2 DEF FollowsSoon, UndoneAfter, RowAfter, DroppedAfter
<1>5. CASE U!FlushBegin
  <2>1. /\ UNCHANGED <<file, undone>> /\ ~flushing.on /\ flushing'.on
        /\ mem'.rows = mem.rows /\ mem'.dirty = {} /\ mem'.deleted = {} /\ ~mem'.droppedDirty
        /\ mem'.dropped = mem.dropped
        /\ DOMAIN flushing'.rows = mem.dirty \cap U!Known(mem)
        /\ \A p \in DOMAIN flushing'.rows : flushing'.rows[p] = mem.rows[p]
        /\ flushing'.deleted = mem.deleted /\ flushing'.counts = mem.droppedDirty
        /\ flushing'.dropped = mem.dropped
    BY <1>0, <1>5, FlushBeginIs
  <2>2. U!Known(mem') = U!Known(mem)
    BY <2>1, SameRowsSameKnown
  <2>3. mem'.dropped = DroppedAfter'
    BY <1>0, <2>1 DEF FollowsSoon, DroppedAfter
  <2>4. ASSUME NEW p \in Prints PROVE UndoneAfter(p)' \/ RowAfter(p)' = mem'.rows[p]
    <3>1. CASE p \in mem.deleted
      <4>1. CASE p \in mem.dirty \cap U!Known(mem)
        BY <2>1, <3>1, <4>1 DEF UndoneAfter
      <4>2. CASE p \notin mem.dirty \cap U!Known(mem)
        <5>1. p \notin U!Known(mem)
          BY <1>0, <3>1, <4>2 DEF FollowsSoon
        <5> QED BY <1>0, <2>1, <3>1, <5>1, UnknownIsAbsent DEF RowAfter
      <4> QED BY <4>1, <4>2
    <3>2. CASE p \notin mem.deleted
      <4>1. CASE p \in mem.dirty
        BY <1>0, <2>1, <3>2, <4>1 DEF FollowsSoon, RowAfter
      <4>2. CASE p \notin mem.dirty
        BY <1>0, <2>1, <3>2, <4>2 DEF FollowsSoon, UndoneAfter, RowAfter
      <4> QED BY <4>1, <4>2
    <3> QED BY <3>1, <3>2
  <2>5. \A p \in flushing'.deleted \ DOMAIN flushing'.rows : p \notin U!Known(mem')
    BY <1>0, <1>2, <2>1, <2>2 DEF FollowsSoon
  <2> QED BY <2>1, <2>2, <2>3, <2>4, <2>5 DEF FollowsSoon
<1>6. CASE U!FlushWrites
  <2>1. /\ UNCHANGED mem /\ ~flushing'.on /\ \A p \in Prints : file'.rows[p] = RowAfter(p)
        /\ file'.dropped = DroppedAfter /\ \A p \in Prints : p \in undone' <=> UndoneAfter(p)
    BY <1>0, <1>6, FlushWritesIs
  <2>2. DroppedAfter' = DroppedAfter
    BY <2>1 DEF DroppedAfter
  <2>3. \A p \in Prints : (UndoneAfter(p)' <=> UndoneAfter(p)) /\ RowAfter(p)' = RowAfter(p)
    <3> TAKE p \in Prints
    <3>1. UndoneAfter(p)' <=> p \in undone'
      BY <2>1 DEF UndoneAfter
    <3>2. RowAfter(p)' = file'.rows[p]
      BY <2>1 DEF RowAfter
    <3> QED BY <2>1, <3>1, <3>2
  <2> QED BY <1>0, <2>1, <2>2, <2>3 DEF FollowsSoon
<1>7. CASE U!FlushFails
  <2>1. /\ UNCHANGED <<file, undone>> /\ flushing.on /\ ~flushing'.on
        /\ mem'.rows = mem.rows /\ mem'.dropped = mem.dropped
        /\ mem'.dirty = mem.dirty \cup DOMAIN flushing.rows
        /\ mem'.deleted = mem.deleted \cup flushing.deleted
        /\ mem'.droppedDirty = (mem.droppedDirty \/ flushing.counts)
    BY <1>0, <1>7, FlushFailsIs
  <2>2. U!Known(mem') = U!Known(mem)
    BY <2>1, SameRowsSameKnown
  <2>3. ~mem'.droppedDirty => mem'.dropped = DroppedAfter'
    BY <1>0, <2>1 DEF FollowsSoon, DroppedAfter
  <2>4. ASSUME NEW p \in Prints
        PROVE  /\ p \notin mem'.dirty \cup mem'.deleted => UndoneAfter(p)' \/ RowAfter(p)' = mem'.rows[p]
               /\ p \in mem'.deleted \ mem'.dirty => p \notin U!Known(mem')
               /\ p \in mem'.dirty \ U!Known(mem') => p \in mem'.deleted
    BY <1>0, <2>1, <2>2 DEF FollowsSoon, UndoneAfter, RowAfter
  <2> QED BY <2>1, <2>3, <2>4 DEF FollowsSoon
<1>8. CASE U!Acknowledge
  <2>1. /\ UNCHANGED <<file, flushing, undone>> /\ mem' \in MemType
        /\ mem'.deleted = mem.deleted /\ mem'.dropped = mem.dropped /\ mem'.droppedDirty = mem.droppedDirty
        /\ mem'.dirty = mem.dirty \cup (DOMAIN post.items \cap U!Known(mem))
        /\ \A p \in Prints :
             /\ p \notin DOMAIN post.items \cap U!Known(mem) => mem'.rows[p] = mem.rows[p]
             /\ mem'.rows[p].occ = mem.rows[p].occ
    BY <1>0, <1>8, AcknowledgeIs
  <2>2. U!Known(mem') = U!Known(mem)
    BY <2>1 DEF U!Known
  <2>3. ~mem'.droppedDirty => mem'.dropped = DroppedAfter'
    BY <1>0, <2>1 DEF FollowsSoon, DroppedAfter
  <2>4. ASSUME NEW p \in Prints
        PROVE  /\ p \notin mem'.dirty \cup mem'.deleted => UndoneAfter(p)' \/ RowAfter(p)' = mem'.rows[p]
               /\ p \in mem'.deleted \ mem'.dirty => p \notin U!Known(mem')
               /\ p \in mem'.dirty \ U!Known(mem') => p \in mem'.deleted
    BY <1>0, <2>1, <2>2 DEF FollowsSoon, UndoneAfter, RowAfter
  <2>5. flushing'.on =>
          /\ \A p \in flushing'.deleted \ DOMAIN flushing'.rows : p \in mem'.dirty \/ p \notin U!Known(mem')
          /\ \A p \in DOMAIN flushing'.rows \ U!Known(mem') : p \in mem'.deleted \cup flushing'.deleted
    BY <1>0, <2>1, <2>2 DEF FollowsSoon
  <2> QED BY <2>3, <2>4, <2>5 DEF FollowsSoon
<1>9. CASE U!AcknowledgeDropped
  <2>1. /\ UNCHANGED <<file, flushing, undone>> /\ mem'.rows = mem.rows /\ mem'.dirty = mem.dirty
        /\ mem'.deleted = mem.deleted
        /\ ~mem'.droppedDirty => mem'.dropped = mem.dropped /\ ~mem.droppedDirty
    BY <1>0, <1>9, AcknowledgeDroppedIs
  <2>2. U!Known(mem') = U!Known(mem)
    BY <2>1, SameRowsSameKnown
  <2> QED BY <1>0, <2>1, <2>2 DEF FollowsSoon, UndoneAfter, RowAfter, DroppedAfter
<1>10. CASE U!Restart
  BY <1>0, <1>10, RestartIs, NoFlushIs DEF FollowsSoon, UndoneAfter, RowAfter, DroppedAfter
<1>11. CASE UNCHANGED <<mem, file, flushing, undone>>
  BY <1>0, <1>11 DEF FollowsSoon, UndoneAfter, RowAfter, DroppedAfter, U!Known
<1>12. ASSUME NEW r \in Reports, U!File(r) \/ U!SetByStaff(r) PROVE FollowsSoon'
  BY <1>0, <1>11, <1>12, FileIs, SetByStaffIs
<1>13. CASE U!Body \/ U!Taken \/ U!UploadFails \/ U!MarkAccepted
  BY <1>0, <1>11, <1>13, BodyIs, TakenIs, UploadFailsIs, MarkAcceptedIs
<1>14. CASE U!CheckIn \/ U!ApplyUpdates \/ U!ApplyFails
  BY <1>0, <1>11, <1>14, CheckInIs, ApplyUpdatesIs, ApplyFailsIs
<1> QED
  BY <1>3, <1>4, <1>5, <1>6, <1>7, <1>8, <1>9, <1>10, <1>12, <1>13, <1>14 DEF U!Next

LEMMA StatusesKnownNext ==
  ASSUME UploadInv, U!Next
  PROVE  StatusesKnown'
<1>0. UploadShapes /\ RowsGood /\ StatusesKnown
  BY DEF UploadInv
<1>1. /\ vps \in VpsType /\ vps.at \in [Reports -> Nat] /\ vps.newest \in Nat /\ cursor \in Nat
      /\ report \in [Reports -> ReportType] /\ \A r \in Reports : report[r].at \in Nat
      /\ checkin # << >> => DOMAIN checkin \subseteq Reports /\ \A r \in DOMAIN checkin : checkin[r] \in Nat
  BY <1>0 DEF UploadShapes, VpsType, ReportType
<1>2. CASE UNCHANGED <<post, vps, report, cursor, checkin>>
  BY <1>0, <1>2 DEF StatusesKnown, U!ReportsAreTrue, Covered
<1>3. CASE UNCHANGED <<vps, report, cursor, checkin>> /\ post'.reportsIn \in {{}, post.reportsIn}
  BY <1>0, <1>3 DEF StatusesKnown, U!ReportsAreTrue, Covered
<1>4. ASSUME NEW r \in Reports, U!File(r) PROVE StatusesKnown'
  <2>1. /\ UNCHANGED <<post, vps, cursor, checkin>>
        /\ \A q \in Reports :
             /\ report'[q].at = report[q].at /\ report'[q].accepted = report[q].accepted
             /\ (report'[q].status = "set" <=> report[q].status = "set")
    BY <1>0, <1>4, FileIs
  <2> QED BY <1>0, <2>1 DEF StatusesKnown, U!ReportsAreTrue, Covered
<1>5. ASSUME NEW r \in Reports, U!SetByStaff(r) PROVE StatusesKnown'
  <2>1. /\ UNCHANGED <<post, report, cursor, checkin>> /\ r \in vps.reports
        /\ vps'.reports = vps.reports
        /\ vps'.newest = vps.newest + 1 /\ vps'.at[r] = vps.newest + 1
        /\ \A q \in Reports \ {r} : vps'.at[q] = vps.at[q]
    BY <1>0, <1>5, SetByStaffIs
  <2>2. vps.at[r] <= vps.newest /\ cursor <= vps.newest /\ report[r].at <= vps.at[r]
    BY <1>0 DEF StatusesKnown
  <2>3. vps'.at[r] > cursor /\ vps'.at[r] > vps.at[r] /\ report[r].at <= vps'.at[r]
        /\ vps'.at[r] > 0 /\ cursor <= vps'.newest
    BY <1>1, <2>1, <2>2
  <2>4. U!ReportsAreTrue'
    BY <1>0, <1>1, <2>1, <2>3 DEF StatusesKnown, U!ReportsAreTrue
  <2>5. \A q \in Reports :
          /\ vps'.at[q] <= vps'.newest /\ (vps'.at[q] > 0 => q \in vps'.reports)
          /\ report'[q].at <= vps'.at[q]
    BY <1>0, <1>1, <2>1, <2>3 DEF StatusesKnown
  <2>6. ASSUME checkin # << >>
        PROVE  /\ \A q \in DOMAIN checkin : cursor < checkin[q] /\ checkin[q] <= vps'.at[q]
               /\ \A q \in Reports : Covered(q)'
    <3>1. \A q \in DOMAIN checkin : checkin[q] <= vps.at[q] /\ vps.at[q] <= vps.newest
      BY <1>0, <1>1, <2>6 DEF StatusesKnown
    <3>2. \A q \in DOMAIN checkin : checkin[q] < vps'.at[r]
      BY <1>1, <2>1, <2>6, <3>1
    <3>3. Covered(r)'
      BY <2>1, <2>3, <3>2 DEF Covered
    <3>4. \A q \in Reports \ {r} : Covered(q)'
      BY <1>0, <2>1, <2>6 DEF StatusesKnown, Covered
    <3>5. \A q \in DOMAIN checkin : cursor < checkin[q]
      BY <1>0, <2>6 DEF StatusesKnown
    <3>6. \A q \in DOMAIN checkin : checkin[q] <= vps'.at[q]
      BY <1>1, <2>1, <2>6, <3>1, <3>2
    <3> QED BY <3>3, <3>4, <3>5, <3>6
  <2>7. post'.reportsIn \subseteq vps'.reports
    BY <1>0, <2>1 DEF StatusesKnown
  <2> QED BY <2>1, <2>3, <2>4, <2>5, <2>6, <2>7 DEF StatusesKnown
<1>6. CASE U!Taken
  <2>1. /\ UNCHANGED <<report, cursor, checkin>> /\ vps'.reports = vps.reports \cup post'.reportsIn
        /\ vps'.at = vps.at /\ vps'.newest = vps.newest
    BY <1>0, <1>6, TakenIs
  <2> QED BY <1>0, <2>1 DEF StatusesKnown, U!ReportsAreTrue, Covered
<1>7. CASE U!MarkAccepted
  <2>1. /\ UNCHANGED <<vps, cursor, checkin>> /\ post'.reportsIn = post.reportsIn
        /\ \A r \in Reports :
             /\ report'[r].at = report[r].at /\ (report'[r].status = "set" <=> report[r].status = "set")
             /\ report'[r].accepted => report[r].accepted \/ r \in post.reportsIn
    BY <1>0, <1>7, MarkAcceptedIs
  <2> QED BY <1>0, <2>1 DEF StatusesKnown, U!ReportsAreTrue, Covered
<1>8. CASE U!CheckIn
  <2>1. /\ UNCHANGED <<post, vps, report, cursor>>
        /\ DOMAIN checkin' = {r \in Reports : vps.at[r] > cursor}
        /\ \A r \in DOMAIN checkin' : checkin'[r] = vps.at[r]
    BY <1>0, <1>8, CheckInIs
  <2>2. \A r \in Reports : Covered(r)'
    BY <1>1, <2>1 DEF Covered
  <2>3. \A r \in DOMAIN checkin' : cursor < checkin'[r] /\ checkin'[r] <= vps.at[r]
    BY <1>1, <2>1
  <2> QED BY <1>0, <2>1, <2>2, <2>3 DEF StatusesKnown, U!ReportsAreTrue
<1>9. CASE U!ApplyUpdates
  <2>1. /\ UNCHANGED <<post, vps>> /\ checkin # << >> /\ checkin' = << >>
        /\ cursor' \in Nat /\ cursor <= cursor'
        /\ \A r \in DOMAIN checkin : checkin[r] <= cursor'
        /\ cursor' = cursor \/ \E r \in DOMAIN checkin : cursor' = checkin[r]
        /\ report' \in [Reports -> ReportType]
        /\ \A r \in Reports :
             /\ r \notin DOMAIN checkin => report'[r] = report[r]
             /\ r \in DOMAIN checkin =>
                  \/ report[r].at > checkin[r] /\ report'[r] = report[r]
                  \/ report'[r].at = checkin[r] /\ report'[r].status = "set"
    BY <1>0, <1>9, ApplyUpdatesIs
  <2>2. /\ DOMAIN checkin \subseteq Reports
        /\ \A r \in DOMAIN checkin : checkin[r] \in Nat /\ cursor < checkin[r] /\ checkin[r] <= vps.at[r]
        /\ \A r \in Reports : Covered(r)
    BY <1>0, <1>1, <2>1 DEF StatusesKnown
  <2>3. /\ \A r \in Reports :
             /\ vps.at[r] \in Nat /\ vps.at[r] <= vps.newest /\ (vps.at[r] > 0 => r \in vps.reports)
             /\ report[r].at <= vps.at[r] /\ report[r].at \in Nat
             /\ (report[r].accepted => r \in vps.reports)
             /\ ((report[r].at > 0) <=> (report[r].status = "set"))
             /\ (vps.at[r] <= cursor => report[r].at = vps.at[r])
        /\ cursor <= vps.newest
    BY <1>0, <1>1 DEF StatusesKnown, U!ReportsAreTrue
  <2>4. cursor' <= vps.newest
    BY <1>1, <2>1, <2>2, <2>3
  <2>5. \A r \in Reports : vps.at[r] > cursor /\ (\A q \in DOMAIN checkin : checkin[q] < vps.at[r]) =>
          vps.at[r] > cursor'
    BY <1>1, <2>1, <2>2
  <2>6. ASSUME NEW r \in Reports
        PROVE  /\ report'[r].at <= vps.at[r]
               /\ report'[r].accepted => r \in vps.reports
               /\ ((report'[r].at > 0) <=> (report'[r].status = "set"))
               /\ (vps.at[r] <= cursor' => report'[r].at = vps.at[r])
    <3>1. CASE r \notin DOMAIN checkin
      <4>1. report'[r] = report[r]
        BY <2>1, <3>1
      <4>2. vps.at[r] <= cursor' => vps.at[r] <= cursor
        <5>1. vps.at[r] <= cursor \/ (vps.at[r] > cursor /\ \A q \in DOMAIN checkin : checkin[q] < vps.at[r])
          BY <2>2, <3>1 DEF Covered
        <5> QED BY <1>1, <2>1, <2>3, <2>5, <5>1
      <4> QED BY <2>3, <4>1, <4>2
    <3>2. CASE r \in DOMAIN checkin
      <4>1. \/ report[r].at > checkin[r] /\ report'[r] = report[r]
            \/ report'[r].at = checkin[r] /\ report'[r].status = "set"
        BY <2>1, <3>2
      <4>2. checkin[r] \in Nat /\ cursor < checkin[r] /\ checkin[r] <= vps.at[r] /\ r \in vps.reports
        BY <1>1, <2>2, <2>3, <3>2
      <4>3. vps.at[r] <= cursor' => checkin[r] = vps.at[r]
        <5>1. \/ vps.at[r] <= cursor \/ checkin[r] = vps.at[r]
              \/ vps.at[r] > cursor /\ \A q \in DOMAIN checkin : checkin[q] < vps.at[r]
          BY <2>2 DEF Covered
        <5> QED BY <1>1, <2>1, <2>3, <2>5, <4>2, <5>1
      <4>4. CASE report[r].at > checkin[r] /\ report'[r] = report[r]
        BY <2>3, <4>2, <4>3, <4>4
      <4>5. CASE report'[r].at = checkin[r] /\ report'[r].status = "set"
        BY <1>1, <4>2, <4>3, <4>5
      <4> QED BY <4>1, <4>4, <4>5
    <3> QED BY <3>1, <3>2
  <2>7. U!ReportsAreTrue'
    BY <2>1, <2>6 DEF U!ReportsAreTrue
  <2> QED BY <1>0, <2>1, <2>4, <2>6, <2>7 DEF StatusesKnown
<1>10. CASE U!ApplyFails
  BY <1>0, <1>10, ApplyFailsIs DEF StatusesKnown, U!ReportsAreTrue
<1>11. CASE U!Restart
  BY <1>0, <1>11, RestartIs, IdleIs DEF StatusesKnown, U!ReportsAreTrue
<1>12. ASSUME NEW p \in Prints, U!Capture(p) \/ U!Prune(p) PROVE StatusesKnown'
  BY <1>0, <1>2, <1>12, CaptureIs, PruneIs
<1>13. CASE U!FlushBegin \/ U!FlushWrites \/ U!FlushFails
  BY <1>0, <1>2, <1>13, FlushBeginIs, FlushWritesIs, FlushFailsIs
<1>14. CASE U!Body \/ U!UploadFails \/ U!AcknowledgeDropped
  BY <1>0, <1>3, <1>14, BodyIs, UploadFailsIs, AcknowledgeDroppedIs, IdleIs
<1>15. CASE U!Acknowledge
  BY <1>0, <1>3, <1>15, AcknowledgeIs
<1> QED
  BY <1>4, <1>5, <1>6, <1>7, <1>8, <1>9, <1>10, <1>11, <1>12, <1>13, <1>14, <1>15 DEF U!Next

LEMMA UploadInit == U!Init => UploadInv
<1> SUFFICES ASSUME U!Init PROVE UploadInv
  OBVIOUS
<1>1. mem \in MemType /\ file \in FileType /\ mem.rows = U!NoRows /\ file.rows = U!NoRows
      /\ mem.dirty = {} /\ mem.deleted = {} /\ ~mem.droppedDirty /\ mem.dropped = 0 /\ mem.evicted = 0
      /\ file.dropped = 0 /\ file.evicted = 0
  <2>1. U!NoRows \in [Prints -> IssueRow]
    BY AbsentIs DEF U!NoRows
  <2> QED BY <2>1 DEF U!Init, U!Clean, MemType, FileType
<1>2. vps \in VpsType /\ vps.had = {} /\ vps.dropped = 0 /\ vps.reports = {} /\ vps.newest = 0
      /\ \A r \in Reports : vps.at[r] = 0
  BY DEF U!Init, VpsType
<1>3. report \in [Reports -> ReportType] /\ \A r \in Reports :
        report[r].at = 0 /\ report[r].status = "none" /\ ~report[r].accepted
  BY UnfiledIs DEF U!Init
<1>4. /\ flushing \in FlushType /\ ~flushing.on /\ post = U!Idle /\ post \in PostType /\ post.pc = "idle"
      /\ post.reportsIn = {} /\ captured = 0 /\ cursor = 0 /\ checkin = << >> /\ undone = {}
  BY NoFlushIs, IdleIs DEF U!Init
<1>5. \A p \in Prints : mem.rows[p] = U!Absent /\ file.rows[p] = U!Absent
  BY <1>1 DEF U!NoRows
<1>6. UploadShapes
  BY <1>1, <1>2, <1>3, <1>4 DEF UploadShapes
<1>7. RowsGood /\ ItemsGood
  BY <1>4, <1>5, AbsentIsGood DEF RowsGood, ItemsGood
<1>8. EvictionsKnown
  BY <1>1, <1>2, <1>4 DEF EvictionsKnown, U!EvictionsTold
<1>9. FollowsSoon
  BY <1>1, <1>4, <1>5, AbsentUnknown DEF FollowsSoon, RowAfter, UndoneAfter, DroppedAfter
<1>10. StatusesKnown
  BY <1>2, <1>3, <1>4 DEF StatusesKnown, U!ReportsAreTrue
<1> QED BY <1>6, <1>7, <1>8, <1>9, <1>10 DEF UploadInv

LEMMA UploadNext == UploadInv /\ [U!Next]_(U!vars) => UploadInv'
<1> SUFFICES ASSUME UploadInv, [U!Next]_(U!vars) PROVE UploadInv'
  OBVIOUS
<1>1. CASE U!Next
  BY <1>1, UploadShapesNext, RowsGoodNext, ItemsGoodNext, EvictionsKnownNext, FollowsSoonNext,
     StatusesKnownNext
  DEF UploadInv
<1>2. CASE UNCHANGED U!vars
  BY <1>2
  DEF U!vars, UploadInv, UploadShapes, RowsGood, ItemsGood, EvictionsKnown, U!EvictionsTold,
     FollowsSoon, RowAfter, UndoneAfter, DroppedAfter, U!Known, StatusesKnown, U!ReportsAreTrue,
     Covered
<1> QED BY <1>1, <1>2

LEMMA UploadSafe == UploadInv => U!UploadsSound
<1> SUFFICES ASSUME UploadInv PROVE U!UploadsSound
  OBVIOUS
<1>1. U!SentIsThere
  <2> SUFFICES ASSUME NEW row \in {mem.rows[p] : p \in Prints} \cup {file.rows[p] : p \in Prints}
               PROVE  row.mixed \/ \A i \in 1..row.sent : row.occ[i] \in vps.had
    BY DEF U!SentIsThere
  <2>1. GoodRow(row, captured, vps.had)
    BY DEF UploadInv, RowsGood
  <2> QED BY <2>1 DEF GoodRow
<1>2. U!FileFollows
  BY DEF UploadInv, FollowsSoon, U!FileFollows, RowAfter, UndoneAfter, DroppedAfter
<1>3. U!EvictionsTold /\ U!ReportsAreTrue
  BY DEF UploadInv, EvictionsKnown, StatusesKnown
<1> QED BY <1>1, <1>2, <1>3 DEF U!UploadsSound

\* What a row counts as sent the VPS has, the VPS is told of what was evicted
\* unsent, the file follows the memory and reports show what support said last:
\* for every number of fingerprints, rows, captures, uploads and failures
\* (issue_log.py, support_reports.py).
THEOREM UploadsHold == U!Spec => []U!UploadsSound
BY UploadInit, UploadNext, UploadSafe, PTL DEF U!Spec

-------------------------------------------------------------------------------
(* SupportUploads: the domains.                                            *)

\* There are a last occurrence, status and trouble.
UploadLimits == MaxCaptures \in Nat /\ MaxUpdates \in Nat /\ UploadTroubles \in Nat

\* A row has no more occurrences than there were.
Counting(row, n) == Len(row.occ) <= n /\ \A i \in 1..Len(row.occ) : row.occ[i] \in 1..n

RowsCount ==
  /\ \A p \in Prints : Counting(mem.rows[p], captured) /\ Counting(file.rows[p], captured)
  /\ flushing.on => \A p \in DOMAIN flushing.rows : Counting(flushing.rows[p], captured)
  /\ post.pc # "idle" => \A p \in DOMAIN post.items : Counting(post.items[p], captured)

\* What TypeOK says beyond the shapes and the rows.
UploadTypes ==
  /\ RowsCount /\ \A n \in vps.had : n \in 1..captured
  /\ captured <= MaxCaptures /\ vps.newest <= MaxUpdates /\ mishap \in 0..UploadTroubles

LEMMA CountingStays ==
  ASSUME NEW row, NEW n \in Nat, NEW m \in Nat, n <= m, Counting(row, n), row \in IssueRow
  PROVE  Counting(row, m)
<1>1. Len(row.occ) \in Nat
  BY DEF IssueRow
<1> QED BY <1>1 DEF Counting

LEMMA AbsentCounts ==
  ASSUME NEW n \in Nat
  PROVE  Counting(U!Absent, n)
<1>1. 1..Len(U!Absent.occ) = {} /\ Len(U!Absent.occ) = 0
  BY AbsentIs
<1> QED BY <1>1 DEF Counting

LEMMA CountedCounts ==
  ASSUME NEW row \in IssueRow, NEW r \in IssueRow, NEW n \in Nat, Counting(r, n),
         row.occ = Append(r.occ, n + 1)
  PROVE  Counting(row, n + 1)
<1>1. /\ Len(row.occ) = Len(r.occ) + 1 /\ Len(r.occ) \in Nat
      /\ \A i \in 1..Len(r.occ) : row.occ[i] = r.occ[i]
      /\ row.occ[Len(r.occ) + 1] = n + 1
  BY DEF IssueRow
<1>2. Len(r.occ) <= n /\ \A i \in 1..Len(r.occ) : row.occ[i] \in 1..n
  BY <1>1 DEF Counting
<1>3. \A i \in 1..Len(row.occ) : row.occ[i] \in 1..(n + 1)
  <2> TAKE i \in 1..Len(row.occ)
  <2>1. CASE i \in 1..Len(r.occ)
    BY <1>2, <2>1
  <2>2. CASE i = Len(r.occ) + 1
    BY <1>1, <2>2
  <2> QED BY <1>1, <2>1, <2>2
<1> QED BY <1>1, <1>2, <1>3 DEF Counting

\* No step leaves a row with more.
LEMMA RowsCountNext ==
  ASSUME UploadInv, RowsCount, U!Next
  PROVE  RowsCount'
<1>0. UploadShapes /\ RowsGood /\ StatusesKnown /\ UploadShapes'
  BY UploadShapesNext DEF UploadInv
<1>1. /\ captured \in Nat /\ \A p \in Prints : mem.rows[p] \in IssueRow /\ file.rows[p] \in IssueRow
      /\ flushing.on => \A p \in DOMAIN flushing.rows : flushing.rows[p] \in IssueRow
      /\ post.pc # "idle" => \A p \in DOMAIN post.items : post.items[p] \in IssueRow
  BY <1>0, RowsIs
<1>2. \A p \in Prints : mem'.rows[p] \in IssueRow
  BY <1>0 DEF UploadShapes, MemType
<1>3. ASSUME NEW p \in Prints, U!Capture(p) PROVE RowsCount'
  <2>1. captured' = captured + 1 /\ UNCHANGED <<file, flushing, post>>
    BY <1>0, <1>3, CaptureIs
  <2>2. ASSUME NEW row \in IssueRow, Counting(row, captured) PROVE Counting(row, captured')
    <3>1. captured + 1 \in Nat /\ captured <= captured + 1
      BY <1>1
    <3> QED BY <1>1, <2>1, <2>2, <3>1, CountingStays
  <2>3. PICK gone \in SUBSET (Prints \ {p}) :
          /\ \A q \in gone : mem'.rows[q] = U!Absent
          /\ \A q \in Prints \ (gone \cup {p}) : mem'.rows[q] = mem.rows[q]
    BY <1>0, <1>3, CaptureIs
  <2>4. Counting(mem'.rows[p], captured')
    <3>1. mem'.rows[p].occ = Append(mem.rows[p].occ, captured + 1)
      BY <1>0, <1>3, CaptureIs
    <3>2. Counting(mem.rows[p], captured)
      BY DEF RowsCount
    <3>3. Counting(mem'.rows[p], captured + 1)
      BY <1>1, <1>2, <3>1, <3>2, CountedCounts
    <3> QED BY <2>1, <3>3
  <2>5. \A q \in gone : Counting(mem'.rows[q], captured')
    <3>1. captured' \in Nat
      BY <1>1, <2>1
    <3> QED BY <2>3, <3>1, AbsentCounts
  <2>6. \A q \in Prints \ (gone \cup {p}) : Counting(mem'.rows[q], captured')
    BY <1>1, <2>2, <2>3 DEF RowsCount
  <2>7. \A q \in Prints : Counting(mem'.rows[q], captured') /\ Counting(file'.rows[q], captured')
    <3>1. \A q \in Prints : Counting(file'.rows[q], captured')
      BY <1>1, <2>1, <2>2 DEF RowsCount
    <3> QED BY <2>4, <2>5, <2>6, <3>1
  <2>8. flushing'.on => \A q \in DOMAIN flushing'.rows : Counting(flushing'.rows[q], captured')
    BY <1>1, <2>1, <2>2 DEF RowsCount
  <2>9. post'.pc # "idle" => \A q \in DOMAIN post'.items : Counting(post'.items[q], captured')
    BY <1>1, <2>1, <2>2 DEF RowsCount
  <2> QED BY <2>7, <2>8, <2>9 DEF RowsCount
<1>4. ASSUME NEW p \in Prints, U!Prune(p) PROVE RowsCount'
  BY <1>0, <1>1, <1>4, PruneIs, AbsentCounts DEF RowsCount
<1>5. CASE U!FlushBegin
  <2>1. DOMAIN flushing'.rows \subseteq Prints
    BY <1>0, <1>5, FlushBeginIs DEF U!Known
  <2> QED BY <1>0, <1>5, <2>1, FlushBeginIs DEF RowsCount
<1>6. CASE U!FlushWrites
  <2>1. \A p \in Prints : Counting(RowAfter(p), captured)
    BY <1>1, AbsentCounts DEF RowsCount, RowAfter
  <2> QED BY <1>0, <1>6, <2>1, FlushWritesIs DEF RowsCount
<1>7. CASE U!FlushFails
  BY <1>0, <1>7, FlushFailsIs DEF RowsCount
<1>8. CASE U!Body
  <2>1. DOMAIN post'.items \subseteq Prints
    BY <1>0, <1>8, BodyIs, ItemsIs
  <2> QED BY <1>0, <1>8, <2>1, BodyIs DEF RowsCount
<1>9. CASE U!Taken
  BY <1>0, <1>9, TakenIs DEF RowsCount
<1>10. CASE U!MarkAccepted
  BY <1>0, <1>10, MarkAcceptedIs DEF RowsCount
<1>11. CASE U!UploadFails
  BY <1>0, <1>11, UploadFailsIs, IdleIs DEF RowsCount
<1>12. CASE U!Acknowledge
  <2>1. UNCHANGED <<file, flushing, captured>> /\ post.pc = "marked" /\ post'.items = post.items
    BY <1>0, <1>12, AcknowledgeIs
  <2>2. \A p \in Prints : mem'.rows[p].occ = mem.rows[p].occ
    BY <1>0, <1>12, AcknowledgeIs
  <2>3. \A p \in Prints : Counting(mem'.rows[p], captured)
    BY <2>2 DEF RowsCount, Counting
  <2> QED BY <2>1, <2>3 DEF RowsCount
<1>13. CASE U!AcknowledgeDropped
  BY <1>0, <1>13, AcknowledgeDroppedIs, IdleIs DEF RowsCount
<1>14. CASE U!Restart
  BY <1>0, <1>14, RestartIs, NoFlushIs, IdleIs DEF RowsCount
<1>15. ASSUME NEW r \in Reports, U!File(r) \/ U!SetByStaff(r) PROVE RowsCount'
  BY <1>0, <1>15, FileIs, SetByStaffIs DEF RowsCount
<1>16. CASE U!CheckIn \/ U!ApplyUpdates \/ U!ApplyFails
  BY <1>0, <1>16, CheckInIs, ApplyUpdatesIs, ApplyFailsIs DEF RowsCount
<1> QED
  BY <1>3, <1>4, <1>5, <1>6, <1>7, <1>8, <1>9, <1>10, <1>11, <1>12, <1>13, <1>14, <1>15, <1>16
  DEF U!Next

\* What the VPS takes are occurrences that were.
LEMMA TakenAreOccurrences ==
  ASSUME UploadShapes, RowsCount, \A n \in vps.had : n \in 1..captured, U!Taken
  PROVE  \A n \in vps'.had : n \in 1..captured
<1>1. PICK some \in SUBSET DOMAIN post.items, few \in SUBSET post.reports :
        vps' = [vps EXCEPT !.had = @ \cup UNION {U!Delta(post.items[p]) : p \in some},
                           !.dropped = @ + post.dropped, !.reports = @ \cup few]
  BY DEF U!Taken
<1>2. vps'.had = vps.had \cup UNION {U!Delta(post.items[p]) : p \in some}
  BY <1>1 DEF UploadShapes, VpsType
<1>3. ASSUME NEW p \in some, NEW n \in U!Delta(post.items[p]) PROVE n \in 1..captured
  <2>1. post.items[p] \in IssueRow /\ Counting(post.items[p], captured)
    BY RowsIs DEF U!Taken, RowsCount
  <2>2. PICK i \in (post.items[p].sent + 1)..Len(post.items[p].occ) : n = post.items[p].occ[i]
    BY DEF U!Delta
  <2>3. i \in 1..Len(post.items[p].occ)
    BY <2>1, <2>2 DEF IssueRow
  <2> QED BY <2>1, <2>2, <2>3 DEF Counting
<1> QED BY <1>2, <1>3

\* The domains at the start.
LEMMA UploadTypesInit == UploadLimits => (U!Init => UploadTypes)
<1> SUFFICES ASSUME UploadLimits, U!Init PROVE UploadTypes
  OBVIOUS
<1>1. /\ \A p \in Prints : mem.rows[p] = U!Absent /\ file.rows[p] = U!Absent
      /\ vps.had = {} /\ vps.newest = 0 /\ captured = 0 /\ mishap = 0
      /\ ~flushing.on /\ post.pc = "idle"
  BY NoFlushIs, IdleIs DEF U!Init, U!Clean, U!NoRows
<1>2. RowsCount
  BY <1>1, AbsentCounts DEF RowsCount
<1> QED BY <1>1, <1>2 DEF UploadTypes, UploadLimits

\* No step leaves them.
LEMMA UploadTypesNext == UploadLimits => (UploadInv /\ UploadTypes /\ [U!Next]_(U!vars) => UploadTypes')
<1> SUFFICES ASSUME UploadLimits, UploadInv, UploadTypes, [U!Next]_(U!vars) PROVE UploadTypes'
  OBVIOUS
<1>0. UploadShapes /\ StatusesKnown /\ RowsGood
  BY DEF UploadInv
<1>1. CASE UNCHANGED U!vars
  BY <1>1 DEF U!vars, UploadTypes, RowsCount
<1>2. CASE U!Next
  <2>1. RowsCount'
    BY <1>2, RowsCountNext DEF UploadTypes
  <2>2. mishap' \in 0..UploadTroubles
    <3>1. CASE U!Trouble
      BY <3>1 DEF U!Trouble, UploadTypes, UploadLimits
    <3>2. CASE mishap' = mishap
      BY <3>2 DEF UploadTypes
    <3>3. \A p \in Prints : U!Capture(p) \/ U!Prune(p) => mishap' = mishap
      BY DEF U!Capture, U!Prune
    <3>4. \A r \in Reports : U!File(r) \/ U!SetByStaff(r) => mishap' = mishap
      BY DEF U!File, U!SetByStaff
    <3>5. U!FlushBegin \/ U!FlushWrites \/ U!Body \/ U!Taken \/ U!MarkAccepted => mishap' = mishap
      BY DEF U!FlushBegin, U!FlushWrites, U!Body, U!Taken, U!MarkAccepted
    <3>6. U!Acknowledge \/ U!AcknowledgeDropped \/ U!CheckIn \/ U!ApplyUpdates => mishap' = mishap
      BY DEF U!Acknowledge, U!AcknowledgeDropped, U!CheckIn, U!ApplyUpdates
    <3>7. U!FlushFails \/ U!UploadFails \/ U!ApplyFails \/ U!Restart => U!Trouble
      BY DEF U!FlushFails, U!UploadFails, U!ApplyFails, U!Restart
    <3> QED BY <1>2, <3>1, <3>2, <3>3, <3>4, <3>5, <3>6, <3>7 DEF U!Next
  <2>3. CASE \E p \in Prints : U!Capture(p)
    <3>1. captured' = captured + 1 /\ vps' = vps /\ captured < MaxCaptures /\ captured \in Nat
      BY <1>0, <2>3, RowsIs, CaptureIs DEF U!Capture
    <3>2. \A n \in vps'.had : n \in 1..captured'
      BY <3>1 DEF UploadTypes
    <3>3. captured' <= MaxCaptures /\ vps'.newest <= MaxUpdates
      BY <3>1 DEF UploadTypes, UploadLimits
    <3> QED BY <2>1, <2>2, <3>2, <3>3 DEF UploadTypes
  <2>4. CASE U!Taken
    <3>1. captured' = captured /\ vps'.newest = vps.newest
      BY <1>0, <2>4, TakenIs
    <3>2. \A n \in vps'.had : n \in 1..captured'
      BY <1>0, <2>4, <3>1, TakenAreOccurrences DEF UploadTypes
    <3> QED BY <2>1, <2>2, <3>1, <3>2 DEF UploadTypes
  <2>5. ASSUME NEW r \in Reports, U!SetByStaff(r) PROVE UploadTypes'
    <3>1. captured' = captured /\ vps'.had = vps.had /\ vps'.newest = vps.newest + 1
      BY <1>0, <2>5, SetByStaffIs
    <3>2. vps.newest < MaxUpdates /\ vps.newest \in Nat
      BY <1>0, <2>5 DEF U!SetByStaff, UploadShapes, VpsType
    <3>3. vps'.newest <= MaxUpdates
      BY <3>1, <3>2 DEF UploadLimits
    <3> QED BY <2>1, <2>2, <3>1, <3>3 DEF UploadTypes
  <2>6. CASE UNCHANGED <<captured, vps>>
    BY <2>1, <2>2, <2>6 DEF UploadTypes
  <2>7. (\E p \in Prints : U!Prune(p)) \/ (\E r \in Reports : U!File(r)) => UNCHANGED <<captured, vps>>
    BY <1>0, PruneIs, FileIs
  <2>8. U!FlushBegin \/ U!FlushWrites \/ U!FlushFails => UNCHANGED <<captured, vps>>
    BY <1>0, FlushBeginIs, FlushWritesIs, FlushFailsIs
  <2>9. U!Body \/ U!UploadFails \/ U!MarkAccepted \/ U!Acknowledge \/ U!AcknowledgeDropped =>
          UNCHANGED <<captured, vps>>
    BY <1>0, BodyIs, UploadFailsIs, MarkAcceptedIs, AcknowledgeIs, AcknowledgeDroppedIs
  <2>10. U!CheckIn \/ U!ApplyUpdates \/ U!ApplyFails \/ U!Restart => UNCHANGED <<captured, vps>>
    BY <1>0, CheckInIs, ApplyUpdatesIs, ApplyFailsIs, RestartIs
  <2> QED BY <1>2, <2>3, <2>4, <2>5, <2>6, <2>7, <2>8, <2>9, <2>10 DEF U!Next
<1> QED BY <1>1, <1>2

LEMMA SeqInto ==
  ASSUME NEW s \in Seq(Nat), NEW S, \A i \in 1..Len(s) : s[i] \in S
  PROVE  s \in Seq(S)
<1>1. DOMAIN s = 1..Len(s) /\ Len(s) \in Nat
  OBVIOUS
<1>2. s \in [1..Len(s) -> S]
  OBVIOUS
<1>3. \E n \in Nat : s \in [1..n -> S]
  BY <1>1, <1>2
<1>4. Seq(S) = UNION {[1..n -> S] : n \in Nat}
  OBVIOUS
<1> QED BY <1>3, <1>4

\* A row in its bounds is of the type TypeOK gives it.
LEMMA RowTyped ==
  ASSUME UploadLimits, NEW row \in IssueRow, NEW n \in Nat, n <= MaxCaptures, Counting(row, n),
         NEW had, GoodRow(row, n, had)
  PROVE  row \in U!RowType
<1>1. /\ row.occ \in Seq(Nat) /\ Len(row.occ) \in Nat /\ Len(row.occ) <= n
      /\ row.sent \in Nat /\ row.sent <= Len(row.occ) /\ row.mixed \in BOOLEAN
  BY DEF IssueRow, Counting, GoodRow
<1>2. \A i \in 1..Len(row.occ) : row.occ[i] \in 1..MaxCaptures
  BY <1>1 DEF Counting, UploadLimits
<1>3. row.occ \in Seq(1..MaxCaptures)
  BY <1>1, <1>2, SeqInto
<1>4. row.sent \in 0..MaxCaptures
  BY <1>1 DEF UploadLimits
<1> QED BY <1>1, <1>3, <1>4 DEF IssueRow, U!RowType

\* They are what TypeOK says.
LEMMA UploadTypesSafe == UploadLimits => (UploadInv /\ UploadTypes => U!TypeOK)
<1> SUFFICES ASSUME UploadLimits, UploadInv, UploadTypes PROVE U!TypeOK
  OBVIOUS
<1>0. UploadShapes /\ RowsGood /\ StatusesKnown /\ RowsCount /\ captured \in Nat /\ captured <= MaxCaptures
  BY RowsIs DEF UploadInv, UploadTypes
<1>1. mem.rows \in [Prints -> U!RowType]
  <2>1. \A p \in Prints : mem.rows[p] \in U!RowType
    BY <1>0, RowsIs, RowTyped DEF RowsGood, RowsCount
  <2> QED BY <1>0, <2>1 DEF UploadShapes, MemType
<1>2. file.rows \in [Prints -> U!RowType]
  <2>1. \A p \in Prints : file.rows[p] \in U!RowType
    BY <1>0, RowsIs, RowTyped DEF RowsGood, RowsCount
  <2> QED BY <1>0, <2>1 DEF UploadShapes, FileType
<1>3. /\ mem.dirty \subseteq Prints /\ mem.deleted \subseteq Prints /\ undone \subseteq Prints
      /\ mem.dropped \in Nat /\ file.dropped \in Nat /\ mem.evicted \in Nat /\ file.evicted \in Nat
  BY <1>0 DEF UploadShapes, MemType, FileType
<1>4. flushing.on \in BOOLEAN
  BY <1>0 DEF UploadShapes, FlushType
<1>5. /\ captured \in 0..MaxCaptures
      /\ post.pc \in {"idle", "sent", "answered", "marked", "acknowledged"}
  BY <1>0 DEF UploadShapes, PostType
<1>6. vps.had \subseteq 1..MaxCaptures /\ vps.reports \subseteq Reports /\ vps.newest \in Nat
  BY <1>0 DEF UploadShapes, VpsType, UploadTypes, UploadLimits
<1>7. vps.newest <= MaxUpdates /\ cursor \in 0..MaxUpdates /\ mishap \in 0..UploadTroubles
  BY <1>0, <1>6 DEF UploadShapes, UploadTypes, StatusesKnown, UploadLimits
<1>8. report \in [Reports -> [status : {"none", "queued", "received", "set"}, accepted : BOOLEAN,
                              at : 0..MaxUpdates]]
  <2>1. ASSUME NEW r \in Reports PROVE report[r].at \in 0..MaxUpdates
    <3>1. report[r].at \in Nat /\ vps.at[r] \in Nat
      BY <1>0 DEF UploadShapes, ReportType, VpsType
    <3>2. report[r].at <= vps.at[r] /\ vps.at[r] <= vps.newest
      BY <1>0 DEF StatusesKnown
    <3> QED BY <1>6, <1>7, <3>1, <3>2 DEF UploadLimits
  <2>2. report \in [Reports -> ReportType]
    BY <1>0 DEF UploadShapes
  <2> QED BY <2>1, <2>2 DEF ReportType

<1> QED BY <1>1, <1>2, <1>3, <1>4, <1>5, <1>6, <1>7, <1>8 DEF U!TypeOK
===============================================================================
