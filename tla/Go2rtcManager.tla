----------------------------- MODULE Go2rtcManager -----------------------------
(***************************************************************************)
(* The supervision of the go2rtc child process                             *)
(* (edge_backend/app/services/go2rtc_manager.py): ensure_running() on the  *)
(* event loop, whose start runs in a thread; one supervisor thread per     *)
(* start, which relaunches the child after a crash; and stop(), whose work *)
(* runs in a thread and takes up to seconds.  _lock guards single          *)
(* assignments, not these operations, so they interleave.                  *)
(*                                                                         *)
(* Children and supervisor threads are numbered as they are created; the   *)
(* stop event of a start has the number of its thread.  The 10 s limit of  *)
(* the join is reached only when the thread waits for a live child.        *)
(*                                                                         *)
(* The names that every specification has are Gateway... here: VideoProofs *)
(* extends this module and LiveSessions.                                   *)
(***************************************************************************)
EXTENDS Integers, FiniteSets

CONSTANTS
  Starters,      \* ensure_running() calls, one after the other (_start_lock)
  Stoppers,      \* stop() calls
  MaxChildren,   \* bound: go2rtc processes launched
  MaxCrashes     \* bound: unexpected ends of a child

ASSUME ChildrenAssumption == MaxChildren \in Nat /\ MaxCrashes \in Nat
ASSUME ActorsAssumption == Starters \cap Stoppers = {}

Children == 1 .. MaxChildren
Actors == Starters \cup Stoppers

VARIABLES
  \* the operating system
  launched,     \* children launched so far
  alive,        \* those still running
  listening,    \* the child that has bound the API port, as a set
  crashes,
  \* the manager
  proc,         \* _proc, 0 when None
  thread,       \* _thread and its _stop event, 0 when None
  state,        \* "stopped", "starting", "running", "error"
  pidfile,      \* the child named in the pid file, 0 when there is none
  startLock,    \* _start_lock, as a set
  \* the threads
  sup,          \* supervisor threads
  act,          \* ensure_running() and stop() calls
  \* history
  overlapped    \* children launched while a stop() was at work

system  == <<launched, alive, listening, crashes>>
manager == <<proc, thread, state, pidfile, startLock>>
gatewayVars == <<system, manager, sup, act, overlapped>>

NoSupervisor == [pc |-> "none", proc |-> 0, stop |-> 0]
Started == [pc |-> "read", proc |-> 0, stop |-> 0]
Ended == [pc |-> "ended", proc |-> 0, stop |-> 0]
Idle == [pc |-> "idle", thread |-> 0]

GatewayInit ==
  /\ launched = 0 /\ alive = {} /\ listening = {} /\ crashes = 0
  /\ proc = 0 /\ thread = 0 /\ state = "stopped" /\ pidfile = 0
  /\ startLock = {}
  /\ sup = [t \in Children |-> NoSupervisor]
  /\ act = [c \in Actors |-> Idle]
  /\ overlapped = {}

ManagerRunning == proc \in alive /\ state = "running"
ThreadAlive(t) == t # 0 /\ sup[t].pc \notin {"none", "ended"}
\* A call of _stop_supervisor has read what it will stop and has not yet
\* forgotten it.
SomeoneStops == \E c \in Actors : act[c].pc \in {"kill", "join", "forget"}

(***************************************************************************)
(* The child: it binds its port some time after the launch; it can crash.  *)
(***************************************************************************)
Bind(p) ==
  /\ p \in alive /\ listening = {}
  /\ listening' = {p}
  /\ UNCHANGED <<launched, alive, crashes, manager, sup, act, overlapped>>
ChildEnds(p) ==
  /\ p \in alive /\ crashes < MaxCrashes
  /\ crashes' = crashes + 1
  /\ alive' = alive \ {p} /\ listening' = listening \ {p}
  /\ UNCHANGED <<launched, manager, sup, act, overlapped>>

(***************************************************************************)
(* _prepare: a child named in the pid file is killed and the file removed  *)
(* (stop_leftover), then the port must be free.  _launch: the new child    *)
(* becomes _proc.                                                          *)
(***************************************************************************)
WithoutLeftover(ps) == ps \ {pidfile}
PortFree == WithoutLeftover(listening) = {}
MayLaunch == PortFree /\ launched < MaxChildren
Launch(p) ==
  /\ launched' = p
  /\ alive' = WithoutLeftover(alive) \cup {p}
  /\ listening' = WithoutLeftover(listening)
  /\ proc' = p /\ pidfile' = p
  /\ overlapped' = IF SomeoneStops THEN overlapped \cup {p} ELSE overlapped
NoLaunch ==
  /\ alive' = WithoutLeftover(alive) /\ listening' = WithoutLeftover(listening)
  /\ pidfile' = 0
  /\ UNCHANGED <<launched, overlapped>>
\* _prepare fails: the port is taken (or the bound on children is reached), the
\* configuration cannot be written, or there is no program and nothing is killed.
Unprepared ==
  \/ ~MayLaunch /\ NoLaunch /\ UNCHANGED crashes
  \/ /\ crashes < MaxCrashes /\ crashes' = crashes + 1
     /\ NoLaunch \/ UNCHANGED <<launched, alive, listening, pidfile, overlapped>>

(***************************************************************************)
(* ensure_running().                                                       *)
(***************************************************************************)
Enter(c) ==
  /\ act[c].pc = "idle" /\ startLock = {} /\ ~ManagerRunning
  /\ startLock' = {c}
  /\ act' = [act EXCEPT ![c].pc = "start"]
  /\ UNCHANGED <<system, proc, thread, state, pidfile, sup, overlapped>>
\* _start, in a thread, under _lock throughout.
StartNothing(c) ==
  /\ act[c].pc = "start" /\ ThreadAlive(thread)
  /\ act' = [act EXCEPT ![c].pc = "poll"]
  /\ UNCHANGED <<system, manager, sup, overlapped>>
StartBeside(c) ==
  /\ act[c].pc = "start" /\ MayLaunch
  /\ Launch(launched + 1)
  /\ thread' = launched + 1 /\ state' = "starting"
  /\ sup' = [sup EXCEPT ![launched + 1] = Started]
  /\ act' = [act EXCEPT ![c].pc = "poll"]
  /\ UNCHANGED <<crashes, startLock>>
StartChild(c) ==
  /\ act[c].pc = "start" /\ ~ThreadAlive(thread) /\ MayLaunch
  /\ Launch(launched + 1)
  /\ thread' = launched + 1 /\ state' = "starting"
  /\ sup' = [sup EXCEPT ![launched + 1] = Started]
  /\ act' = [act EXCEPT ![c].pc = "poll"]
  /\ UNCHANGED <<crashes, startLock>>
StartFails(c) ==
  /\ act[c].pc = "start" /\ ~ThreadAlive(thread)
  /\ Unprepared
  /\ state' = "error"
  /\ act' = [act EXCEPT ![c].pc = "poll"]
  /\ UNCHANGED <<proc, thread, startLock, sup>>
\* The program cannot be executed: the exception leaves ensure_running.
StartRaises(c) ==
  /\ act[c].pc = "start" /\ ~ThreadAlive(thread)
  /\ PortFree /\ crashes < MaxCrashes
  /\ crashes' = crashes + 1
  /\ NoLaunch
  /\ state' = "starting" /\ startLock' = {}
  /\ act' = [act EXCEPT ![c] = Idle]
  /\ UNCHANGED <<proc, thread, sup>>
\* The API answers: only the child that has the current password does.
Answered(c) ==
  /\ act[c].pc = "poll" /\ proc \in listening
  /\ state' = "running" /\ startLock' = {}
  /\ act' = [act EXCEPT ![c] = Idle]
  /\ UNCHANGED <<system, proc, thread, pidfile, sup, overlapped>>

(***************************************************************************)
(* stop(), and the failed start, run _stop_supervisor: read and set the    *)
(* stop event, read the thread; kill _proc and its group; join the thread; *)
(* forget both.                                                            *)
(***************************************************************************)
StopSupervisor(c) ==
  /\ act' = [act EXCEPT ![c] = [pc |-> "kill", thread |-> thread]]
  /\ sup' = IF ThreadAlive(thread) THEN [sup EXCEPT ![thread].stop = 1] ELSE sup
StopCall(c) ==
  /\ act[c].pc = "idle"
  /\ StopSupervisor(c)
  /\ UNCHANGED <<system, manager, overlapped>>
\* ensure_running: the child has ended, there is none, or the time is over.
GiveUpOnExit(c) ==
  /\ act[c].pc = "poll" /\ proc \notin alive
  /\ state' = "error"
  /\ StopSupervisor(c)
  /\ UNCHANGED <<system, proc, thread, pidfile, startLock, overlapped>>
StartGivesUp(c) ==
  /\ act[c].pc = "poll" /\ proc \notin listening
  /\ state' = "error"
  /\ StopSupervisor(c)
  /\ UNCHANGED <<system, proc, thread, pidfile, startLock, overlapped>>
KillRunning(c) ==
  /\ act[c].pc = "kill"
  /\ IF ManagerRunning
       THEN alive' = alive \ {proc} /\ listening' = listening \ {proc}
       ELSE UNCHANGED <<alive, listening>>
  /\ act' = [act EXCEPT ![c].pc = "join"]
  /\ UNCHANGED <<launched, crashes, manager, sup, overlapped>>
KillLeavesPort(c) ==
  /\ act[c].pc = "kill"
  /\ alive' = alive \ {proc}
  /\ act' = [act EXCEPT ![c].pc = "join"]
  /\ UNCHANGED <<launched, listening, crashes, manager, sup, overlapped>>
Kill(c) ==
  /\ act[c].pc = "kill"
  /\ alive' = alive \ {proc} /\ listening' = listening \ {proc}
  /\ act' = [act EXCEPT ![c].pc = "join"]
  /\ UNCHANGED <<launched, crashes, manager, sup, overlapped>>
Stuck(t) == sup[t].pc = "wait" /\ sup[t].proc \in alive
JoinForever(c) ==
  /\ act[c].pc = "join" /\ ~ThreadAlive(act[c].thread)
  /\ act' = [act EXCEPT ![c].pc = "forget"]
  /\ UNCHANGED <<system, manager, sup, overlapped>>
Join(c) ==
  /\ act[c].pc = "join"
  /\ ThreadAlive(act[c].thread) => Stuck(act[c].thread)
  /\ act' = [act EXCEPT ![c].pc = "forget"]
  /\ UNCHANGED <<system, manager, sup, overlapped>>
Forget(c) ==
  /\ act[c].pc = "forget"
  /\ proc' = 0 /\ thread' = 0 /\ pidfile' = 0
  /\ state' = IF c \in Starters THEN "error" ELSE "stopped"
  /\ startLock' = startLock \ {c}
  /\ act' = [act EXCEPT ![c] = Idle]
  /\ UNCHANGED <<system, sup, overlapped>>

(***************************************************************************)
(* _supervise.                                                             *)
(***************************************************************************)
SupRead(t) ==
  /\ sup[t].pc = "read"
  /\ sup' = [sup EXCEPT ![t] =
       IF @.stop = 1 \/ proc = 0 THEN Ended
       ELSE [pc |-> "wait", proc |-> proc, stop |-> 0]]
  /\ UNCHANGED <<system, manager, act, overlapped>>
\* The output of the child ends and its group is reaped: after stop() the
\* supervisor ends, else it reports the crash and waits.
SupWait(t) ==
  /\ sup[t].pc = "wait" /\ sup[t].proc \notin alive
  /\ IF sup[t].stop = 1
       THEN /\ sup' = [sup EXCEPT ![t] = Ended]
            /\ UNCHANGED state
       ELSE /\ sup' = [sup EXCEPT ![t] = [pc |-> "backoff", proc |-> 0, stop |-> 0]]
            /\ state' = "error"
  /\ UNCHANGED <<system, proc, thread, pidfile, startLock, act, overlapped>>
\* stop.wait(backoff): the event, or the time is over.
BackoffForever(t) ==
  /\ sup[t].pc = "backoff" /\ sup[t].stop = 1
  /\ sup' = [sup EXCEPT ![t] = Ended]
  /\ UNCHANGED <<system, manager, act, overlapped>>
SupBackoff(t) ==
  /\ sup[t].pc = "backoff"
  /\ sup' = [sup EXCEPT ![t] =
       IF @.stop = 1 THEN Ended ELSE [pc |-> "relaunch", proc |-> 0, stop |-> 0]]
  /\ UNCHANGED <<system, manager, act, overlapped>>
SupRelaunch(t) ==
  /\ sup[t].pc = "relaunch" /\ MayLaunch
  /\ Launch(launched + 1)
  /\ state' = "running"
  /\ sup' = [sup EXCEPT ![t].pc = "read"]
  /\ UNCHANGED <<crashes, thread, startLock, act>>
\* _prepare fails: _proc keeps the dead child and the backoff starts again.
SupFails(t) ==
  /\ sup[t].pc = "relaunch"
  /\ Unprepared
  /\ state' = "error"
  /\ sup' = [sup EXCEPT ![t].pc = "read"]
  /\ UNCHANGED <<proc, thread, startLock, act>>
\* The launch fails: the supervisor ends.
SupRaises(t) ==
  /\ sup[t].pc = "relaunch" /\ PortFree /\ crashes < MaxCrashes
  /\ crashes' = crashes + 1
  /\ NoLaunch
  /\ state' = "error" /\ proc' = 0
  /\ sup' = [sup EXCEPT ![t] = Ended]
  /\ UNCHANGED <<thread, startLock, act>>

Supervise(t) ==
  SupRead(t) \/ SupWait(t) \/ SupBackoff(t) \/ SupRelaunch(t) \/ SupFails(t)
  \/ SupRaises(t)
Ensure(c) ==
  StartNothing(c) \/ StartChild(c) \/ StartFails(c) \/ StartRaises(c)
  \/ Answered(c) \/ StartGivesUp(c)
Stop(c) == Kill(c) \/ Join(c) \/ Forget(c)

GatewayNext ==
  \/ \E c \in Starters : Enter(c) \/ Ensure(c)
  \/ \E c \in Stoppers : StopCall(c)
  \/ \E c \in Actors : Stop(c)
  \/ \E p \in Children : Bind(p) \/ ChildEnds(p) \/ Supervise(p)

GatewaySpec == GatewayInit /\ [][GatewayNext]_gatewayVars
\* Threads run, a child that lives binds the free port.
GatewayFairness ==
  /\ \A c \in Starters : WF_gatewayVars(Ensure(c))
  /\ \A c \in Actors : WF_gatewayVars(Stop(c))
  /\ \A p \in Children : WF_gatewayVars(Bind(p)) /\ WF_gatewayVars(Supervise(p))
GatewayFairSpec == GatewaySpec /\ GatewayFairness

-----------------------------------------------------------------------------
(***************************************************************************)
(* Properties.                                                             *)
(***************************************************************************)
GatewayTypeOK ==
  /\ launched \in 0 .. MaxChildren /\ alive \subseteq 1 .. launched
  /\ listening \subseteq alive /\ Cardinality(listening) <= 1
  /\ crashes \in 0 .. MaxCrashes
  /\ proc \in 0 .. launched /\ thread \in 0 .. launched
  /\ state \in {"stopped", "starting", "running", "error"}
  /\ pidfile \in 0 .. launched
  /\ startLock \in SUBSET Starters
  /\ sup \in [Children -> [pc : {"none", "read", "wait", "backoff", "relaunch",
                                 "ended"}, proc : 0 .. MaxChildren, stop : 0 .. 1]]
  /\ act \in [Actors -> [pc : {"idle", "start", "poll", "kill", "join", "forget"},
                         thread : 0 .. MaxChildren]]
  /\ overlapped \subseteq 1 .. launched

\* The manager knows every go2rtc that runs: a child is lost (it runs and no
\* stop() will find it) only when it was launched while a stop() was at work.
NoChildLost == alive \subseteq {proc} \cup overlapped

\* At most one supervisor is at work: besides the one the manager has, only
\* those told to stop, and those started while a stop() was at work.
OneSupervisor ==
  \A t \in Children :
    ThreadAlive(t) => t = thread \/ sup[t].stop = 1 \/ t \in overlapped

\* Every stop() and every failed start come to their end: they do not wait for
\* a supervisor that waits for them (_lock, the join).
StopReturns == \A c \in Actors : act[c].pc = "kill" ~> act[c].pc = "idle"
\* A viewer's ensure_running() always gets an answer, also when go2rtc ends or
\* never serves while it is polled.
StartReturns == \A c \in Starters : act[c].pc = "start" ~> act[c].pc = "idle"
\* No caller of the manager waits for ever: a stop is not held up by the thread
\* it joins, a start not by a go2rtc that never answers.
CallsReturn == StopReturns /\ StartReturns
\* A crashed go2rtc serves again (while the bound lets another be launched),
\* unless it is being stopped, its program cannot be executed, a lost child
\* holds the port, or the supervisor of a start that overlapped a stop relaunches
\* beside it (each kills the child the other has named in the pid file).
Recovers ==
  \A t \in Children :
    sup[t].pc = "backoff" /\ t \notin overlapped /\ launched < MaxChildren ~>
      \/ proc \in listening \/ sup[t].stop = 1 \/ ~ThreadAlive(t)
      \/ alive \ {proc} # {}
      \/ \E u \in overlapped : ThreadAlive(u)

(***************************************************************************)
(* What the code says and does not hold.                                   *)
(***************************************************************************)
\* "the app's shutdown stops it": a stop() that has joined the supervisor, no
\* other having been started meanwhile, leaves no child behind.
RelaunchedIsStopped ==
  [][\A c \in Stoppers :
       (Forget(c) /\ act[c].thread # 0 /\ act[c].thread = thread) => alive' = {}]_gatewayVars
=============================================================================
