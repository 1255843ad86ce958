---------------------------- MODULE CameraPipeline ----------------------------
(***************************************************************************)
(* The camera workers: their reconciliation with the database              *)
(* (pipeline_supervisor.py), the life of a worker thread and of the ones   *)
(* it replaces (live_analytics_engine.py), the slots and holds of the      *)
(* inference scheduler (inference_scheduler.py) and the night watch that   *)
(* holds a camera (night_watch.py).                                        *)
(*                                                                         *)
(* A thread is <<camera, number>>.  Scheduler and night watch are keyed by *)
(* camera, so a worker and those it replaces share their entries.  Every   *)
(* action is what a thread does under one lock, or between two awaits.     *)
(***************************************************************************)
EXTENDS Integers, FiniteSets

CONSTANTS
  Cameras,
  Callers,       \* who calls reconcile_cameras: the loop and requests
  Loop,          \* the caller that is _reconcile_loop
  Cap,           \* ANALYTICS_MAX_INFLIGHT
  MaxChanges,    \* bound: edits of a camera's row, blocked reads and threads that die
  MaxFaults      \* bound: lost streams, planned reopens and failures of night watch

ASSUME CamerasAssumption == IsFiniteSet(Cameras)
ASSUME CallersAssumption == Loop \in Callers /\ "free" \notin Callers
ASSUME CapAssumption == Cap \in Nat \ {0}
ASSUME BoundsAssumption == MaxChanges \in Nat /\ MaxFaults \in Nat

VARIABLES
  \* the world
  row,        \* the camera's row: on, off (or beyond the plan's limit), gone; its source
  hours,      \* night watch's schedule: "open" (disarmed) or "closed"
  secured,    \* cameras that see an armed restricted area
  changes, faults,
  \* the supervisor
  caller,     \* each reconcile_cameras() call: "idle", "wants", "read"
  lock,       \* _reconcile_lock: free, or its holder
  read,       \* the rows each call has read
  synced,     \* cameras whose present row a reconcile has applied
  \* the engine
  runtime,    \* live_engine.runtimes: what the camera's runtime was made for
  workers,    \* live_engine.workers: number of the camera's worker, 0 for none
  made,       \* threads made so far
  \* the threads
  pc, plan,   \* where a thread is and what it is about
  stopped,    \* _stop is set
  nightArmed, \* _night_armed
  \* the scheduler
  entries, held, boosted, \* _cams, and which of them are held, boosted
  inflight,   \* slots of each entry
  total,      \* _inflight
  robbed,     \* frames that lost their slot to forget() while being analysed
  \* night watch
  watch,      \* the state of each camera's _Watch
  wiped       \* cameras whose state was wiped while two threads worked on it

world == <<row, hours, secured>>
supervisor == <<caller, lock, read, synced>>
engine == <<runtime, workers, made>>
slots == <<inflight, total, robbed>>
sched == <<entries, held, boosted, slots>>
night == <<watch, wiped>>
used == <<changes, faults>>
vars == <<world, used, supervisor, engine, pc, plan, stopped, nightArmed, sched, night>>

\* A camera gets a thread at the start and after a change.
MaxWorkers == 1 + MaxChanges
Threads == Cameras \X (1..MaxWorkers)
Rows == [state : {"on", "off", "gone"}, source : 0..MaxChanges]
NoRuntime == [state |-> "gone", source |-> 0]
NoRead == [c \in Cameras |-> NoRuntime]
Places == {"unborn", "open", "read", "blocked", "ask", "analyse",
           "forget", "forgetNight", "dead"}
Plans == {"normal", "confirm", "retry", "finish"}
WatchStates == {"disarmed", "armed_idle", "motion", "person_confirmed", "cooldown"}

Armed(c) == watch[c] # "disarmed"
Alive(t) == pc[t] \notin {"unborn", "dead"}
Analysing(c) == {t \in Threads : t[1] = c /\ pc[t] = "analyse"}
IsCurrent(t) == workers[t[1]] \in {0, t[2]}
Alone(t) == \A u \in Threads : u[1] = t[1] /\ Alive(u) => u = t
\* The slots of the entries together: one for each count of each camera.
Slots == Cardinality(UNION {{c} \X (1..inflight[c]) : c \in Cameras})

Init ==
  /\ row = [c \in Cameras |-> [state |-> "on", source |-> 0]]
  /\ hours = "open" /\ secured = {} /\ changes = 0 /\ faults = 0
  /\ caller = [r \in Callers |-> "idle"] /\ lock = "free"
  /\ read = [r \in Callers |-> NoRead] /\ synced = {}
  /\ runtime = [c \in Cameras |-> NoRuntime]
  /\ workers = [c \in Cameras |-> 0] /\ made = [c \in Cameras |-> 0]
  /\ pc = [t \in Threads |-> "unborn"] /\ plan = [t \in Threads |-> "normal"]
  /\ stopped = {} /\ nightArmed = {}
  /\ entries = {} /\ held = {} /\ boosted = {}
  /\ inflight = [c \in Cameras |-> 0] /\ total = 0 /\ robbed = 0
  /\ watch = [c \in Cameras |-> "disarmed"] /\ wiped = {}

Change ==
  /\ changes < MaxChanges
  /\ changes' = changes + 1
  /\ UNCHANGED faults

Fault ==
  /\ faults < MaxFaults
  /\ faults' = faults + 1
  /\ UNCHANGED changes

GoWith(t, place, what) ==
  /\ pc' = [pc EXCEPT ![t] = place]
  /\ plan' = [plan EXCEPT ![t] = what]

GoTo(t, place) == GoWith(t, place, "normal")

(***************************************************************************)
(* The world: a camera is switched, pointed elsewhere or deleted; a delete *)
(* stops its worker itself, without the lock.  Hours pass, areas arm.      *)
(***************************************************************************)
StopWorkers(C) ==
  /\ stopped' = stopped \cup {t \in Threads : t[1] \in C /\ workers[t[1]] = t[2]}

ChangeRow(c, new) ==
  /\ Change
  /\ row' = [row EXCEPT ![c] = [state |-> new, source |-> changes + 1]]
  /\ synced' = synced \ {c}
  /\ UNCHANGED <<hours, secured, lock, read, made, pc, plan, nightArmed, sched, night>>

Edit(c, r) ==
  /\ row[c].state # "gone" /\ caller[r] = "idle" /\ r # Loop
  /\ \E new \in {"on", "off"} : ChangeRow(c, new)
  /\ caller' = [caller EXCEPT ![r] = "wants"]
  /\ UNCHANGED <<runtime, workers, stopped>>

Delete(c) ==
  /\ row[c].state # "gone"
  /\ ChangeRow(c, "gone")
  /\ StopWorkers({c})
  /\ workers' = [workers EXCEPT ![c] = 0]
  /\ runtime' = [runtime EXCEPT ![c] = NoRuntime]
  /\ UNCHANGED caller

Environment ==
  /\ \/ hours' \in {"open", "closed"} \ {hours} /\ UNCHANGED secured
     \/ \E c \in Cameras : secured' \in {secured \cup {c}, secured \ {c}} \ {secured} /\ UNCHANGED hours
  /\ UNCHANGED <<row, used, supervisor, engine, pc, plan, stopped, nightArmed, sched, night>>

(***************************************************************************)
(* reconcile_cameras: the lock, the read of the rows, and then, without    *)
(* another await, the workers.  A request's call has a time limit.         *)
(***************************************************************************)
\* For a mutant: the lock is not asked for.
MayReconcileUnlocked == TRUE
MayReconcile == lock = "free"

TimeOut(r) ==
  /\ r # Loop /\ caller[r] # "idle"
  /\ caller' = [caller EXCEPT ![r] = "idle"]
  /\ lock' = IF lock = r THEN "free" ELSE lock
  /\ read' = [read EXCEPT ![r] = NoRead]
  /\ UNCHANGED <<world, used, synced, engine, pc, plan, stopped, nightArmed, sched, night>>

\* The loop comes back after its sleep, a request after an edit.
ReadRows(r) ==
  /\ IF r = Loop THEN caller[r] = "idle" ELSE caller[r] = "wants"
  /\ MayReconcile
  /\ lock' = r
  /\ caller' = [caller EXCEPT ![r] = "read"]
  /\ read' = [read EXCEPT ![r] = row]
  /\ UNCHANGED <<world, used, synced, engine, pc, plan, stopped, nightArmed, sched, night>>

Target(rows, c) ==
  IF rows[c].state = "on" THEN rows[c] ELSE [NoRuntime EXCEPT !.state = rows[c].state]

\* A worker is kept if it runs for this row; S are the stuck ones to restart.
Kept(rows, c, S) ==
  /\ runtime[c] = Target(rows, c)
  /\ rows[c].state = "on" => Alive(<<c, workers[c]>>) /\ c \notin S

Stuck(c) == workers[c] > 0 /\ pc[<<c, workers[c]>>] = "blocked"

Apply(r, S) ==
  LET changed == {c \in Cameras : ~ Kept(read[r], c, S)}
      started == {c \in changed : read[r][c].state = "on"}
      threads == {<<c, made[c] + 1>> : c \in started}
  IN /\ caller[r] = "read"
     /\ \A c \in S : Stuck(c)
     /\ StopWorkers(changed)
     /\ runtime' = [c \in Cameras |-> Target(read[r], c)]
     /\ made' = [c \in Cameras |-> IF c \in started THEN made[c] + 1 ELSE made[c]]
     /\ workers' = [c \in Cameras |-> IF c \in started THEN made[c] + 1
                                      ELSE IF c \in changed THEN 0 ELSE workers[c]]
     /\ pc' = [t \in Threads |-> IF t \in threads THEN "open" ELSE pc[t]]
     /\ synced' = synced \cup {c \in Cameras : read[r][c] = row[c]}
     /\ caller' = [caller EXCEPT ![r] = "idle"]
     /\ read' = [read EXCEPT ![r] = NoRead]
     /\ lock' = "free"
     /\ UNCHANGED <<world, used, plan, nightArmed, sched, night>>

(***************************************************************************)
(* A thread leaves when its stream is lost ("retry": it will open it       *)
(* again) and when it was told to stop ("finish").  It drops the state     *)
(* kept by camera if it is still the camera's worker: the check and the    *)
(* two calls are three steps.                                              *)
(***************************************************************************)
ThreadOnly == UNCHANGED <<world, supervisor, engine, stopped, sched, night>>

Leave(t, why) ==
  /\ IF IsCurrent(t) THEN GoWith(t, "forget", why)
     ELSE GoTo(t, IF why = "retry" THEN "open" ELSE "dead")
  /\ nightArmed' = IF IsCurrent(t) THEN nightArmed ELSE nightArmed \ {t}

\* An error outside the loop's handler ends the thread without a farewell.
Die(t) ==
  /\ GoTo(t, "dead")
  /\ nightArmed' = nightArmed \ {t}

Stop(t) == t \in stopped /\ Leave(t, "finish") /\ UNCHANGED used
Lose(t) == t \notin stopped /\ Leave(t, "retry")

Open(t) ==
  /\ pc[t] = "open"
  /\ \/ Stop(t)
     \/ t \notin stopped /\ GoTo(t, "read") /\ UNCHANGED <<used, nightArmed>>
     \/ Lose(t) /\ Fault
     \/ Die(t) /\ Change
  /\ ThreadOnly

\* The stream is lost, is reopened as planned (width or frame rate), or blocks.
ReadFails(t) ==
  /\ pc[t] = "read"
  /\ \/ Stop(t)
     \/ Lose(t) /\ Fault
     \/ t \notin stopped /\ GoTo(t, "open") /\ Fault /\ UNCHANGED nightArmed
     \/ t \notin stopped /\ GoTo(t, "blocked") /\ Change /\ UNCHANGED nightArmed
  /\ ThreadOnly

Unblock(t) ==
  /\ pc[t] = "blocked"
  /\ Stop(t) \/ (Lose(t) /\ UNCHANGED used)
  /\ ThreadOnly

(***************************************************************************)
(* The scheduler's calls, each under its lock.                             *)
(***************************************************************************)
Hold(c) ==
  /\ entries' = entries \cup {c}
  /\ held' = held \cup {c}
  /\ UNCHANGED <<boosted, slots>>

Release(c) ==
  /\ held' = held \ {c}
  /\ boosted' = IF c \in held THEN boosted \ {c} ELSE boosted
  /\ UNCHANGED <<entries, slots>>

Boost(c) ==
  /\ entries' = entries \cup {c}
  /\ boosted' = boosted \cup {c}
  /\ UNCHANGED <<held, slots>>

EndBoost(c) ==
  /\ entries' = entries \cup {c}
  /\ boosted' = boosted \ {c}
  /\ UNCHANGED <<held, slots>>

Admissible(c) ==
  /\ c \in held => c \in boosted
  /\ total < Cap + (IF c \in boosted THEN 1 ELSE 0)

\* For a mutant: done() that only lowers the camera's own count.
DoneOfCamera(c) ==
  /\ inflight' = [inflight EXCEPT ![c] = IF @ > 0 THEN @ - 1 ELSE 0]
  /\ UNCHANGED <<total, robbed>>
\* For a mutant: done() of a camera that holds no slot.
DoneUnchecked(c) ==
  /\ inflight' = [inflight EXCEPT ![c] = @ - 1]
  /\ total' = total - 1
  /\ UNCHANGED robbed
Done(c) ==
  /\ inflight' = [inflight EXCEPT ![c] = IF @ > 0 THEN @ - 1 ELSE 0]
  /\ total' = IF inflight[c] > 0 THEN total - 1 ELSE total
  /\ UNCHANGED robbed

ForgetSlots(c) ==
  /\ entries' = entries \ {c}
  /\ held' = held \ {c}
  /\ boosted' = boosted \ {c}
  /\ inflight' = [inflight EXCEPT ![c] = 0]
  /\ total' = total - inflight[c]
  /\ robbed' = robbed + inflight[c]

BoostExpires(c) ==
  /\ c \in boosted
  /\ boosted' = boosted \ {c}
  /\ UNCHANGED <<world, used, supervisor, engine, pc, plan, stopped, nightArmed,
                 entries, held, slots, night>>

(***************************************************************************)
(* Night watch on a frame that was read: the camera arms and holds its analysis, motion  *)
(* boosts it to confirm a person, and so on; a camera that sees an armed   *)
(* restricted area is never held.                                          *)
(***************************************************************************)
Watches(c, s) == watch' = [watch EXCEPT ![c] = s]

SecuredFrame(t) ==
  /\ t[1] \in secured
  /\ IF t \in nightArmed THEN Release(t[1]) ELSE UNCHANGED sched
  /\ nightArmed' = nightArmed \ {t}
  /\ GoTo(t, "ask")
  /\ UNCHANGED watch

Arm(c) == ~ Armed(c) /\ Watches(c, "armed_idle") /\ Hold(c)

\* For a mutant: the hold is not given back.
DisarmHeld(c) == Armed(c) /\ Watches(c, "disarmed") /\ UNCHANGED sched
Disarm(c) == Armed(c) /\ Watches(c, "disarmed") /\ Release(c)

Watching(c) ==
  \/ Watches(c, watch[c]) /\ UNCHANGED sched
  \/ watch[c] = "armed_idle" /\ Watches(c, "motion") /\ Boost(c)
  \/ watch[c] = "motion" /\ Watches(c, "armed_idle") /\ EndBoost(c)
  \/ watch[c] = "person_confirmed" /\ Watches(c, "cooldown") /\ UNCHANGED sched
  \/ watch[c] = "cooldown" /\ Watches(c, "armed_idle") /\ UNCHANGED sched

ArmedFrame(t) ==
  /\ t[1] \notin secured /\ hours = "closed"
  /\ Arm(t[1]) \/ (Armed(t[1]) /\ Watching(t[1]))
  /\ nightArmed' = nightArmed \cup {t}
  /\ IF watch'[t[1]] = "motion" THEN GoWith(t, "ask", "confirm") ELSE GoTo(t, "read")

PlainFrame(t) ==
  /\ t[1] \notin secured /\ hours = "open"
  /\ Disarm(t[1]) \/ (~ Armed(t[1]) /\ UNCHANGED <<watch, sched>>)
  /\ nightArmed' = nightArmed \ {t}
  /\ GoTo(t, "ask")

\* Night watch raises: its hold is released, and this frame is a normal one.
NightFails(t) ==
  /\ t[1] \notin secured
  /\ Release(t[1])
  /\ nightArmed' = nightArmed \ {t}
  /\ GoTo(t, "ask")
  /\ UNCHANGED watch

NightStep(t) ==
  /\ pc[t] = "read" /\ t \notin stopped
  /\ \/ (SecuredFrame(t) \/ ArmedFrame(t) \/ PlainFrame(t)) /\ UNCHANGED used
     \/ NightFails(t) /\ Fault
  /\ UNCHANGED <<world, supervisor, engine, stopped, wiped>>

(***************************************************************************)
(* admit(), the analysis, and done().                                      *)
(***************************************************************************)
Admit(t) ==
  LET c == t[1] IN
  /\ pc[t] = "ask"
  /\ entries' = entries \cup {c}
  /\ \/ /\ Admissible(c)
        /\ inflight' = [inflight EXCEPT ![c] = @ + 1]
        /\ total' = total + 1
        /\ GoWith(t, "analyse", plan[t])
     \/ \* refused, or not due
        /\ UNCHANGED <<inflight, total>>
        /\ GoTo(t, "read")
  /\ UNCHANGED <<world, used, supervisor, engine, stopped, nightArmed, held, boosted, robbed, night>>

Confirmed(t) ==
  /\ plan[t] = "confirm" /\ watch[t[1]] = "motion"
  /\ Watches(t[1], "person_confirmed")
  /\ EndBoost(t[1])
  /\ GoTo(t, "analyse")

Analysed(t) ==
  /\ Done(t[1])
  /\ GoTo(t, "read")
  /\ UNCHANGED <<entries, held, boosted, watch>>

Analyse(t) ==
  /\ pc[t] = "analyse"
  /\ Confirmed(t) \/ Analysed(t)
  /\ UNCHANGED <<world, used, supervisor, engine, stopped, nightArmed, wiped>>

(***************************************************************************)
(* The state kept by camera is dropped, first in the scheduler, then in    *)
(* night watch.                                                            *)
(***************************************************************************)
Forget(t) ==
  /\ pc[t] = "forget"
  /\ IF t[1] \in entries THEN ForgetSlots(t[1]) ELSE UNCHANGED sched
  /\ wiped' = IF Alone(t) THEN wiped ELSE wiped \cup {t[1]}
  /\ GoWith(t, "forgetNight", plan[t])
  /\ UNCHANGED <<world, used, supervisor, engine, stopped, nightArmed, watch>>

ForgetNight(t) ==
  /\ pc[t] = "forgetNight"
  /\ Watches(t[1], "disarmed")
  /\ wiped' = IF Alone(t) THEN wiped ELSE wiped \cup {t[1]}
  /\ nightArmed' = nightArmed \ {t}
  /\ GoTo(t, IF plan[t] = "retry" THEN "open" ELSE "dead")
  /\ UNCHANGED <<world, used, supervisor, engine, stopped, sched>>

ThreadStep(t) ==
  \/ Open(t) \/ ReadFails(t) \/ Unblock(t) \/ NightStep(t) \/ Admit(t) \/ Analyse(t)
  \/ Forget(t) \/ ForgetNight(t)

Call(r) == ReadRows(r) \/ \E S \in SUBSET Cameras : Apply(r, S)

Next ==
  \/ \E c \in Cameras, r \in Callers : Edit(c, r)
  \/ \E c \in Cameras : Delete(c) \/ BoostExpires(c)
  \/ Environment
  \/ \E r \in Callers : TimeOut(r) \/ Call(r)
  \/ \E t \in Threads : ThreadStep(t)

Spec == Init /\ [][Next]_vars

\* Fair: the loop, whoever holds the lock, and every thread.
Fairness ==
  /\ \A r \in Callers : WF_vars(Call(r))
  /\ \A t \in Threads : WF_vars(ThreadStep(t))

FairSpec == Spec /\ Fairness

-----------------------------------------------------------------------------
(* Properties.                                                             *)

TypeOK ==
  /\ row \in [Cameras -> Rows] /\ hours \in {"open", "closed"} /\ secured \subseteq Cameras
  /\ changes \in 0..MaxChanges /\ faults \in 0..MaxFaults
  /\ caller \in [Callers -> {"idle", "wants", "read"}] /\ lock \in Callers \cup {"free"}
  /\ read \in [Callers -> [Cameras -> Rows]] /\ synced \subseteq Cameras
  /\ runtime \in [Cameras -> Rows]
  /\ workers \in [Cameras -> 0..MaxWorkers] /\ made \in [Cameras -> 0..MaxWorkers]
  /\ pc \in [Threads -> Places] /\ plan \in [Threads -> Plans]
  /\ stopped \subseteq Threads /\ nightArmed \subseteq Threads
  /\ entries \subseteq Cameras /\ held \subseteq entries /\ boosted \subseteq entries
  /\ inflight \in [Cameras -> Nat] /\ total \in Nat /\ robbed \in Nat
  /\ watch \in [Cameras -> WatchStates] /\ wiped \subseteq Cameras

\* A slot of the accelerator is held by a frame that is being analysed: none
\* leaks when a worker is replaced, loses its stream or dies, and the sum that
\* admit() looks at is the sum of the cameras' counts.
NoSlotLeaked ==
  /\ total = Slots
  /\ \A c \in Cameras : inflight[c] <= Cardinality(Analysing(c))

\* At most ANALYTICS_MAX_INFLIGHT frames (one more in a confirmation burst) are
\* analysed at once, but for those that forget() has struck from the books.
InFlightBounded ==
  Cardinality({t \in Threads : pc[t] = "analyse"}) <= Cap + 1 + robbed

\* Slots neither leak nor multiply, whatever workers come and go.
SlotsSound == NoSlotLeaked /\ InFlightBounded

\* Once a reconcile has applied the present row of a camera, the engine runs
\* exactly that: nothing for a camera turned off, one worker for one that is on,
\* and every other thread of the camera has been told to stop.
WorkersMatch ==
  \A c \in synced :
    /\ runtime[c] = Target(row, c)
    /\ (workers[c] > 0) <=> (row[c].state = "on")
    /\ \A t \in Threads : t[1] = c /\ Alive(t) /\ t[2] # workers[c] => t \in stopped

\* A camera that is still held when its night is over is analysed again.
HoldEnds ==
  \A c \in Cameras :
    (c \in held /\ hours = "open")
      ~> (c \notin held \/ hours = "closed" \/ row[c].state # "on" \/ c \in secured \cup wiped)

\* "A camera that sees an armed restricted area is never held"
\* (live_analytics_engine.py:1467): not so for a worker that replaces one, since
\* _night_watch_step releases only a hold this worker has seen begin.
SecuredIsReleased ==
  \A c \in Cameras :
    (c \in secured /\ c \in held) ~> (c \notin held \/ c \notin secured \/ row[c].state # "on")
=============================================================================
