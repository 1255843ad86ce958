---------------------------- MODULE FleetControl ----------------------------
(***************************************************************************)
(* The box's check-in with the control server (services/fleet_control.py): *)
(* one row of the database holds the applied plan, the ids of the commands *)
(* seen and the results not yet delivered; a check-in works on a copy of   *)
(* it and saves it at some points; commands and plans restart the app.     *)
(*                                                                         *)
(* Check-ins exclude each other (_alock).  A crash may come between any    *)
(* two steps.  Every plan and command is one whose signature has verified: *)
(* the key and its pin are not modelled.                                   *)
(***************************************************************************)
EXTENDS Integers, FiniteSets

CONSTANTS
  Restarts,     \* restart_app commands
  Probes,       \* commands answered at once (checkin_now, run_health_check)
  MaxPlan,      \* bound: versions of the plan; odd ones pause the box
  MaxTroubles   \* bound: crashes and unreadable databases

Commands == Restarts \cup Probes

VARIABLES
  app,        \* "down", "up", "exiting" (SIGTERM sent)
  boot,       \* the plan's pause as of record_boot()
  stored,     \* the fleet_control row: plan, seen, results
  phase,      \* the check-in: "idle", "waiting" (for the answer), "plan", "commands"
  copy,       \* its copy of the row
  sent,       \* results in its request
  answer,     \* what is left to do of the answer: a plan (0 for none), commands
  timer,      \* _restart_task: "none", "plan" or the command it is for
  published,  \* the server's newest plan
  heard,      \* commands whose result the server has
  fired,      \* restarts made for each command
  newest,     \* highest plan ever stored
  blind,      \* "yes" once a check-in has begun with an unreadable row
  trials

ctl == <<app, boot, timer>>
checkin == <<phase, copy, sent, answer>>
ghosts == <<fired, newest, blind>>
vars == <<ctl, stored, checkin, published, heard, ghosts, trials>>

Paused(plan) == plan % 2
Blank == [plan |-> 0, seen |-> {}, results |-> {}]
Nothing == [plan |-> 0, commands |-> {}]

Init ==
  /\ app = "down" /\ boot = 0 /\ stored = Blank
  /\ phase = "idle" /\ copy = Blank /\ sent = {} /\ answer = Nothing
  /\ timer = "none" /\ published = 0 /\ heard = {}
  /\ fired = [c \in Restarts |-> 0] /\ newest = 0 /\ blind = "no" /\ trials = 0

Trouble == trials < MaxTroubles /\ trials' = trials + 1

Save(row) ==
  /\ stored' = row
  /\ newest' = IF row.plan > newest THEN row.plan ELSE newest

(***************************************************************************)
(* The process.                                                            *)
(***************************************************************************)
Start ==
  /\ app = "down"
  /\ app' = "up" /\ boot' = Paused(stored.plan)
  /\ UNCHANGED <<stored, checkin, timer, published, heard, ghosts, trials>>

Vanish ==
  /\ app' = "down" /\ timer' = "none" /\ phase' = "idle"
  /\ copy' = Blank /\ sent' = {} /\ answer' = Nothing
  /\ UNCHANGED <<boot, stored, published, heard, ghosts>>

Crash == app # "down" /\ Trouble /\ Vanish
Exit == app = "exiting" /\ Vanish /\ UNCHANGED trials

(***************************************************************************)
(* The check-in.  The request holds the results there is room for.         *)
(***************************************************************************)
Begin(row) ==
  /\ app # "down" /\ phase = "idle"
  /\ copy' = row /\ sent' \in SUBSET row.results
  /\ phase' = "waiting"
  /\ UNCHANGED <<ctl, stored, answer, published, heard, fired, newest>>

BeginCheckin == Begin(stored) /\ UNCHANGED <<blind, trials>>
BeginBlind == Trouble /\ Begin(Blank) /\ blind' = "yes"

\* No answer, an error or one that makes no sense; the server may have read
\* the request all the same.
Fail ==
  /\ phase = "waiting"
  /\ heard' \in {heard, heard \cup sent}
  /\ Save(copy)
  /\ phase' = "idle" /\ copy' = Blank /\ sent' = {}
  /\ UNCHANGED <<ctl, answer, published, fired, blind, trials>>

\* For a mutant: everything queued counts as delivered, whatever was in the request.
LeftEarly(row) == {}
Left(row) == row.results \ sent

Receive(plan, cs) ==
  /\ phase = "waiting"
  /\ heard' = heard \cup sent
  /\ copy' = [copy EXCEPT !.results = Left(copy)]
  /\ answer' = [plan |-> plan, commands |-> cs]
  /\ phase' = "plan" /\ sent' = {}
  /\ UNCHANGED <<ctl, stored, published, ghosts, trials>>

Schedule(by) ==
  timer' = IF app = "up" /\ timer = "none" THEN by ELSE timer

\* For a mutant: any version is applied.
NewerAlways == answer.plan # 0
Newer == answer.plan > stored.plan

ApplyPlan ==
  /\ phase = "plan" /\ Newer
  /\ copy' = [copy EXCEPT !.plan = answer.plan]
  /\ Save(copy')
  /\ IF Paused(answer.plan) # boot THEN Schedule("plan") ELSE UNCHANGED timer
  /\ phase' = "commands"
  /\ UNCHANGED <<app, boot, sent, answer, published, heard, fired, blind, trials>>

KeepPlan ==
  /\ phase = "plan" /\ ~Newer
  /\ phase' = "commands"
  /\ UNCHANGED <<ctl, stored, copy, sent, answer, published, heard, ghosts, trials>>

\* For a mutant: the id is not noted.
NotedNot(c) == [copy EXCEPT !.results = @ \cup {c}]
Noted(c) == [copy EXCEPT !.seen = @ \cup {c}, !.results = @ \cup {c}]

Run(c) ==
  /\ phase = "commands" /\ c \in answer.commands
  /\ answer' = [answer EXCEPT !.commands = @ \ {c}]
  /\ UNCHANGED <<app, boot, phase, sent, published, heard, fired, blind, trials>>

Replay(c) == Run(c) /\ c \in copy.seen /\ UNCHANGED <<copy, stored, newest, timer>>

Probe(c) ==
  /\ Run(c) /\ c \in Probes \ copy.seen
  /\ copy' = Noted(c)
  /\ UNCHANGED <<stored, newest, timer>>

RunRestart(c) ==
  /\ Run(c) /\ c \in Restarts \ copy.seen
  /\ copy' = Noted(c)
  /\ Save(copy')
  /\ Schedule(c)

Finish ==
  /\ phase = "commands" /\ answer.commands = {}
  /\ Save(copy)
  /\ phase' = "idle" /\ copy' = Blank /\ answer' = Nothing
  /\ UNCHANGED <<ctl, sent, published, heard, fired, blind, trials>>

(***************************************************************************)
(* The restart, now or when the delay is over.                             *)
(***************************************************************************)
CheckRestart ==
  /\ app = "up" /\ Paused(stored.plan) # boot
  /\ timer = "none" /\ Schedule("plan")
  /\ UNCHANGED <<app, boot, stored, checkin, published, heard, ghosts, trials>>

RestartLater ==
  /\ timer # "none"
  /\ timer' = "none"
  /\ app' = IF timer \in Restarts \/ Paused(stored.plan) # boot THEN "exiting" ELSE app
  /\ fired' = [c \in Restarts |-> IF c = timer /\ fired[c] < 2 THEN fired[c] + 1 ELSE fired[c]]
  /\ UNCHANGED <<boot, stored, checkin, published, heard, newest, blind, trials>>

\* The server (external): a new plan.  Its answers hold any plan and commands
\* it has, also ones it has sent before.
Publish ==
  /\ published < MaxPlan /\ published' = published + 1
  /\ UNCHANGED <<ctl, stored, checkin, heard, ghosts, trials>>

Next ==
  \/ Start \/ Crash \/ Exit \/ Publish
  \/ BeginCheckin \/ BeginBlind \/ Fail
  \/ \E plan \in 0..published, cs \in SUBSET Commands : Receive(plan, cs)
  \/ ApplyPlan \/ KeepPlan \/ Finish
  \/ \E c \in Commands : Replay(c) \/ Probe(c) \/ RunRestart(c)
  \/ CheckRestart \/ RestartLater

Spec == Init /\ [][Next]_vars

-----------------------------------------------------------------------------
(* Properties.                                                             *)

Row == [plan : 0..MaxPlan, seen : SUBSET Commands, results : SUBSET Commands]

TypeOK ==
  /\ app \in {"down", "up", "exiting"} /\ boot \in 0..1
  /\ stored \in Row /\ copy \in Row /\ sent \subseteq Commands
  /\ phase \in {"idle", "waiting", "plan", "commands"}
  /\ answer \in [plan : 0..MaxPlan, commands : SUBSET Commands]
  /\ timer \in {"none", "plan"} \cup Restarts
  /\ published \in 0..MaxPlan /\ heard \subseteq Commands
  /\ fired \in [Restarts -> 0..2] /\ newest \in 0..MaxPlan
  /\ blind \in {"no", "yes"} /\ trials \in 0..MaxTroubles

\* A restart command restarts the app once at most, however often the server
\* sends it and whenever the box crashes.
RestartsOnce == \A c \in Restarts : fired[c] <= 1

\* A command the box has noted, and will not run again, is answered: its result
\* is at the server or still queued.
AnswersKept == stored.seen \subseteq stored.results \cup heard

\* The plan on the box never goes back to an older version.
PlanKept == stored.plan = newest

\* All three hold until a check-in begins with a row it cannot read: load_state
\* then takes the defaults, and what it saves replaces the row.
CommandsSound == blind = "no" => RestartsOnce /\ AnswersKept /\ PlanKept
=============================================================================
