------------------------------ MODULE VideoProofs ------------------------------
(***************************************************************************)
(* Live pictures: proofs about Go2rtcManager, for any number of starts,    *)
(* stops, children and crashes, and about LiveSessions, for every set of   *)
(* sessions and every limit.                                               *)
(***************************************************************************)
EXTENDS Go2rtcManager, LiveSessions, FiniteSetTheorems, TLAPS

-------------------------------------------------------------------------------
(***************************************************************************)
(* Go2rtcManager: every go2rtc that runs and every supervisor at work is   *)
(* the manager's, but for those that come into being while a stop() is at  *)
(* work.                                                                   *)
(***************************************************************************)
Supervisor ==
  [pc : {"none", "read", "wait", "backoff", "relaunch", "ended"}, proc : 0 .. MaxChildren,
   stop : 0 .. 1]
Call == [pc : {"idle", "start", "poll", "kill", "join", "forget"}, thread : 0 .. MaxChildren]

\* GatewayTypeOK, with the port of one child said without counting.
SystemShape ==
  /\ launched \in 0 .. MaxChildren /\ alive \subseteq 1 .. launched
  /\ listening \subseteq alive /\ \E p \in Int : listening \subseteq {p}
  /\ crashes \in 0 .. MaxCrashes
  /\ overlapped \subseteq 1 .. launched
ManagerShape ==
  /\ proc \in 0 .. launched /\ thread \in 0 .. launched
  /\ state \in {"stopped", "starting", "running", "error"}
  /\ pidfile \in 0 .. launched
  /\ startLock \in SUBSET Starters
Shapes ==
  /\ SystemShape /\ ManagerShape
  /\ sup \in [Children -> Supervisor]
  /\ act \in [Actors -> Call]

\* The pid file names the manager's child for as long as it lives.
PidNamed == proc \in alive => pidfile = proc

\* What a stop() that has killed will forget is dead, or was launched beside it.
KilledIsDead ==
  (\E c \in Actors : act[c].pc \in {"join", "forget"})
    => proc \notin alive \/ proc \in overlapped

\* The supervisor a stop() will forget has its event set, or was started beside it.
ForgottenIsStopped ==
  SomeoneStops /\ ThreadAlive(thread) => sup[thread].stop = 1 \/ thread \in overlapped

GatewayInv ==
  /\ Shapes
  /\ PidNamed /\ KilledIsDead /\ NoChildLost
  /\ ForgottenIsStopped /\ OneSupervisor

-------------------------------------------------------------------------------
(* The types.                                                              *)

LEMMA GatewayRecords ==
  /\ Started \in Supervisor /\ Ended \in Supervisor /\ NoSupervisor \in Supervisor /\ Idle \in Call
  /\ \A s \in Supervisor :
       /\ \A place \in {"none", "read", "wait", "backoff", "relaunch", "ended"} :
            [s EXCEPT !.pc = place] \in Supervisor
       /\ [s EXCEPT !.stop = 1] \in Supervisor
  /\ \A a \in Call : \A place \in {"idle", "start", "poll", "kill", "join", "forget"} :
       [a EXCEPT !.pc = place] \in Call
  BY ChildrenAssumption DEF Supervisor, Call, Started, Ended, NoSupervisor, Idle

LEMMA SystemStep ==
  ASSUME Shapes, [GatewayNext]_gatewayVars
  PROVE  SystemShape' /\ ManagerShape'
<1> USE ChildrenAssumption DEF Shapes, SystemShape, ManagerShape
<1>1. ASSUME NEW c \in Starters, StartChild(c) PROVE SystemShape' /\ ManagerShape'
  BY <1>1 DEF StartChild, MayLaunch, PortFree, WithoutLeftover, Launch
<1>2. ASSUME NEW t \in Children, SupRelaunch(t) PROVE SystemShape' /\ ManagerShape'
  BY <1>2 DEF SupRelaunch, MayLaunch, PortFree, WithoutLeftover, Launch
<1>3. ASSUME NoLaunch \/ UNCHANGED <<launched, alive, listening, pidfile, overlapped>>,
             crashes' \in 0 .. MaxCrashes, proc' \in {proc, 0}, thread' = thread,
             state' \in {"starting", "error"}, startLock' \in {startLock, {}}
      PROVE  SystemShape' /\ ManagerShape'
  <2>1. CASE NoLaunch
    BY <1>3, <2>1 DEF NoLaunch, WithoutLeftover
  <2>2. CASE UNCHANGED <<launched, alive, listening, pidfile, overlapped>>
    BY <1>3, <2>2
  <2> QED BY <1>3, <2>1, <2>2
<1>4. ASSUME NEW c \in Starters, StartFails(c) \/ StartRaises(c) PROVE SystemShape' /\ ManagerShape'
  BY <1>3, <1>4 DEF StartFails, StartRaises, Unprepared
<1>5. ASSUME NEW t \in Children, SupFails(t) \/ SupRaises(t) PROVE SystemShape' /\ ManagerShape'
  BY <1>3, <1>5 DEF SupFails, SupRaises, Unprepared
<1>6. ASSUME UNCHANGED system, UNCHANGED overlapped, proc' \in {proc, 0}, thread' \in {thread, 0},
             pidfile' \in {pidfile, 0}, state' \in {state, "stopped", "running", "error"},
             startLock' \in SUBSET Starters
      PROVE  SystemShape' /\ ManagerShape'
  BY <1>6 DEF system
<1>7. ASSUME NEW c \in Starters,
             Enter(c) \/ StartNothing(c) \/ Answered(c) \/ StartGivesUp(c)
      PROVE  SystemShape' /\ ManagerShape'
  BY <1>6, <1>7 DEF Enter, StartNothing, Answered, StartGivesUp, manager
<1>8. ASSUME NEW c \in Actors, StopCall(c) \/ Join(c) \/ Forget(c) PROVE SystemShape' /\ ManagerShape'
  BY <1>6, <1>8 DEF StopCall, Join, Forget, manager
<1>9. ASSUME NEW c \in Actors, Kill(c) PROVE SystemShape' /\ ManagerShape'
  BY <1>9 DEF Kill, manager
<1>10. ASSUME NEW t \in Children, SupRead(t) \/ SupWait(t) \/ SupBackoff(t)
       PROVE  SystemShape' /\ ManagerShape'
  BY <1>6, <1>10 DEF SupRead, SupWait, SupBackoff, manager
<1>11. ASSUME NEW p \in Children, Bind(p) \/ ChildEnds(p) PROVE SystemShape' /\ ManagerShape'
  <2>1. p \in Int
    BY DEF Children
  <2>2. CASE Bind(p)
    BY <2>1, <2>2 DEF Bind, manager
  <2>3. CASE ChildEnds(p)
    BY <2>3 DEF ChildEnds, manager
  <2> QED BY <1>11, <2>2, <2>3
<1>12. CASE UNCHANGED gatewayVars
  BY <1>6, <1>12 DEF gatewayVars, manager
<1> QED BY <1>1, <1>2, <1>4, <1>5, <1>7, <1>8, <1>9, <1>10, <1>11, <1>12
  DEF GatewayNext, Ensure, Stop, Supervise, Actors

\* A call or a supervisor that moves takes a record of its kind.
LEMMA ActStep ==
  ASSUME Shapes, [GatewayNext]_gatewayVars
  PROVE  act' \in [Actors -> Call]
<1> USE DEF Shapes
<1>1. [pc |-> "kill", thread |-> thread] \in Call
  BY ChildrenAssumption DEF Call, SystemShape, ManagerShape
<1>2. ASSUME NEW c \in Actors, NEW a \in Call, act' = [act EXCEPT ![c] = a] PROVE act' \in [Actors -> Call]
  BY <1>2
<1>3. ASSUME NEW c \in Actors, NEW place \in {"start", "poll", "join", "forget"},
             act' = [act EXCEPT ![c].pc = place]
      PROVE  act' \in [Actors -> Call]
  BY <1>3, GatewayRecords
<1>4. ASSUME NEW c \in Starters, Enter(c) \/ Ensure(c) PROVE act' \in [Actors -> Call]
  <2>1. c \in Actors
    BY DEF Actors
  <2>2. CASE Enter(c) \/ StartNothing(c) \/ StartChild(c) \/ StartFails(c)
    <3>1. \E place \in {"start", "poll", "join", "forget"} : act' = [act EXCEPT ![c].pc = place]
      BY <2>2 DEF Enter, StartNothing, StartChild, StartFails
    <3> QED BY <2>1, <3>1, <1>3
  <2>3. CASE StartRaises(c) \/ Answered(c)
    BY <2>1, <2>3, <1>2, GatewayRecords DEF StartRaises, Answered
  <2>4. CASE StartGivesUp(c)
    BY <2>1, <2>4, <1>1, <1>2 DEF StartGivesUp, StopSupervisor
  <2> QED BY <1>4, <2>2, <2>3, <2>4 DEF Ensure
<1>5. ASSUME NEW c \in Actors, Stop(c) \/ StopCall(c) PROVE act' \in [Actors -> Call]
  <2>1. CASE Kill(c) \/ Join(c)
    <3>1. \E place \in {"start", "poll", "join", "forget"} : act' = [act EXCEPT ![c].pc = place]
      BY <2>1 DEF Kill, Join
    <3> QED BY <3>1, <1>3
  <2>2. CASE Forget(c) \/ StopCall(c)
    BY <2>2, <1>1, <1>2, GatewayRecords DEF Forget, StopCall, StopSupervisor
  <2> QED BY <1>5, <2>1, <2>2 DEF Stop
<1>6. CASE UNCHANGED act
  BY <1>6
<1> QED BY <1>4, <1>5, <1>6 DEF GatewayNext, Actors, Bind, ChildEnds, Supervise, SupRead, SupWait, SupBackoff,
    SupRelaunch, SupFails, SupRaises, gatewayVars

LEMMA SupStep ==
  ASSUME Shapes, [GatewayNext]_gatewayVars
  PROVE  sup' \in [Children -> Supervisor]
<1> USE DEF Shapes
<1>1. /\ [pc |-> "wait", proc |-> proc, stop |-> 0] \in Supervisor
      /\ [pc |-> "backoff", proc |-> 0, stop |-> 0] \in Supervisor
      /\ [pc |-> "relaunch", proc |-> 0, stop |-> 0] \in Supervisor
  BY ChildrenAssumption DEF Supervisor, SystemShape, ManagerShape
<1>2. ASSUME NEW t, NEW s \in Supervisor, sup' = [sup EXCEPT ![t] = s] PROVE sup' \in [Children -> Supervisor]
  BY <1>2
<1>3. ASSUME NEW t \in Children, Supervise(t) PROVE sup' \in [Children -> Supervisor]
  <2>1. sup[t] \in Supervisor
    OBVIOUS
  <2>2. \E s \in Supervisor : sup' = [sup EXCEPT ![t] = s]
    <3>1. CASE SupRead(t) \/ SupWait(t) \/ SupBackoff(t)
      BY <3>1, <1>1, GatewayRecords DEF SupRead, SupWait, SupBackoff
    <3>2. CASE SupRelaunch(t) \/ SupFails(t)
      <4>1. sup' = [sup EXCEPT ![t] = [sup[t] EXCEPT !.pc = "read"]]
        BY <3>2 DEF SupRelaunch, SupFails
      <4> QED BY <4>1, <2>1, GatewayRecords
    <3>3. CASE SupRaises(t)
      BY <3>3, GatewayRecords DEF SupRaises
    <3> QED BY <1>3, <3>1, <3>2, <3>3 DEF Supervise
  <2> QED BY <2>2, <1>2
<1>4. ASSUME NEW c, StopSupervisor(c) PROVE sup' \in [Children -> Supervisor]
  <2>1. CASE sup' = sup
    BY <2>1
  <2>2. CASE sup' = [sup EXCEPT ![thread].stop = 1]
    BY <2>2, GatewayRecords
  <2> QED BY <1>4, <2>1, <2>2 DEF StopSupervisor
<1>5. ASSUME NEW c \in Starters, StartChild(c) PROVE sup' \in [Children -> Supervisor]
  BY <1>5, <1>2, GatewayRecords DEF StartChild
<1>6. CASE UNCHANGED sup
  BY <1>6
<1> QED BY <1>3, <1>4, <1>5, <1>6 DEF GatewayNext, Bind, ChildEnds, Enter, Ensure, StartNothing, StartFails,
    StartRaises, Answered, StartGivesUp, StopCall, Stop, Kill, Join, Forget, manager, gatewayVars

LEMMA ShapesStep ==
  ASSUME Shapes, [GatewayNext]_gatewayVars
  PROVE  Shapes'
  BY SystemStep, ActStep, SupStep DEF Shapes

-------------------------------------------------------------------------------
(* The children.                                                           *)

\* A launch kills the child it replaces, which the pid file names, and one
\* beside a stop() is marked so (_prepare, _launch).
LEMMA LaunchKeeps ==
  ASSUME GatewayInv, NEW p, Launch(p), UNCHANGED launched \/ p \notin alive,
         \A c \in Actors : act'[c].pc \in {"join", "forget"} => act[c].pc \in {"join", "forget"}
  PROVE  (PidNamed /\ KilledIsDead /\ NoChildLost)'
  BY DEF GatewayInv, Launch, WithoutLeftover, PidNamed, KilledIsDead, NoChildLost, SomeoneStops

\* A launch that fails has killed the child it would have replaced (_prepare).
LEMMA NoLaunchKeeps ==
  ASSUME GatewayInv, NoLaunch, proc' \in {proc, 0},
         \A c \in Actors : act'[c].pc \in {"join", "forget"} => act[c].pc \in {"join", "forget"}
  PROVE  (PidNamed /\ KilledIsDead /\ NoChildLost)'
  BY DEF GatewayInv, Shapes, SystemShape, ManagerShape, NoLaunch, WithoutLeftover,
     PidNamed, KilledIsDead, NoChildLost

\* A step that launches and kills nothing, and forgets nothing.
LEMMA QuietKeeps ==
  ASSUME GatewayInv, alive' \subseteq alive, UNCHANGED <<proc, pidfile, overlapped>>,
         \A c \in Actors : act'[c].pc \in {"join", "forget"} => act[c].pc \in {"join", "forget"}
  PROVE  (PidNamed /\ KilledIsDead /\ NoChildLost)'
  BY DEF GatewayInv, PidNamed, KilledIsDead, NoChildLost

LEMMA ChildrenStep ==
  ASSUME GatewayInv, [GatewayNext]_gatewayVars
  PROVE  (PidNamed /\ KilledIsDead /\ NoChildLost)'
<1> DEFINE NoNewStop ==
      \A c \in Actors : act'[c].pc \in {"join", "forget"} => act[c].pc \in {"join", "forget"}
<1> USE DEF GatewayInv, Shapes, SystemShape, ManagerShape
<1>1. ASSUME NEW c \in Starters, StartChild(c) PROVE (PidNamed /\ KilledIsDead /\ NoChildLost)'
  <2>1. NoNewStop /\ launched + 1 \notin alive
    BY <1>1, ChildrenAssumption DEF StartChild, Actors
  <2> QED BY <1>1, <2>1, LaunchKeeps DEF StartChild
<1>2. ASSUME NEW t \in Children, SupRelaunch(t) PROVE (PidNamed /\ KilledIsDead /\ NoChildLost)'
  <2>1. NoNewStop /\ launched + 1 \notin alive
    BY <1>2, ChildrenAssumption DEF SupRelaunch
  <2> QED BY <1>2, <2>1, LaunchKeeps DEF SupRelaunch
<1>3. ASSUME NEW c \in Starters, StartFails(c) \/ StartRaises(c)
      PROVE  (PidNamed /\ KilledIsDead /\ NoChildLost)'
  <2>1. NoNewStop
    <3>1. CASE StartFails(c)
      BY <3>1 DEF StartFails, Actors
    <3>2. CASE StartRaises(c)
      BY <3>2 DEF StartRaises, Idle, Actors
    <3> QED BY <1>3, <3>1, <3>2
  <2>2. proc' = proc /\ (NoLaunch \/ UNCHANGED <<alive, pidfile, overlapped>>)
    BY <1>3 DEF StartFails, StartRaises, Unprepared
  <2> QED BY <2>1, <2>2, NoLaunchKeeps, QuietKeeps
<1>4. ASSUME NEW t \in Children, SupFails(t) \/ SupRaises(t)
      PROVE  (PidNamed /\ KilledIsDead /\ NoChildLost)'
  <2>1. NoNewStop /\ proc' \in {proc, 0}
    BY <1>4 DEF SupFails, SupRaises
  <2>2. NoLaunch \/ UNCHANGED <<alive, proc, pidfile, overlapped>>
    BY <1>4 DEF SupFails, SupRaises, Unprepared
  <2> QED BY <2>1, <2>2, NoLaunchKeeps, QuietKeeps
<1>5. ASSUME NEW c \in Actors, Kill(c) PROVE (PidNamed /\ KilledIsDead /\ NoChildLost)'
  BY <1>5 DEF Kill, PidNamed, KilledIsDead, NoChildLost, manager
<1>6. ASSUME NEW c \in Actors, Join(c) PROVE (PidNamed /\ KilledIsDead /\ NoChildLost)'
  <2>1. NoNewStop
    BY <1>6 DEF Join
  <2> QED BY <1>6, <2>1, QuietKeeps DEF Join, manager, system
<1>7. ASSUME NEW c \in Actors, Forget(c) PROVE (PidNamed /\ KilledIsDead /\ NoChildLost)'
  <2>1. proc \notin alive \/ proc \in overlapped
    BY <1>7 DEF Forget, KilledIsDead
  <2>2. 0 \notin alive
    OBVIOUS
  <2> QED BY <1>7, <2>1, <2>2 DEF Forget, PidNamed, KilledIsDead, NoChildLost, system
<1>8. ASSUME NEW c \in Starters, Enter(c) \/ StartNothing(c) \/ Answered(c) \/ StartGivesUp(c)
      PROVE  (PidNamed /\ KilledIsDead /\ NoChildLost)'
  <2>1. NoNewStop
    <3>1. CASE Enter(c)
      BY <3>1 DEF Enter, Actors
    <3>4. CASE StartNothing(c)
      BY <3>4 DEF StartNothing, Actors
    <3>2. CASE Answered(c)
      BY <3>2 DEF Answered, Idle, Actors
    <3>3. CASE StartGivesUp(c)
      BY <3>3 DEF StartGivesUp, StopSupervisor, Actors
    <3> QED BY <1>8, <3>1, <3>2, <3>3, <3>4
  <2> QED BY <1>8, <2>1, QuietKeeps
    DEF Enter, StartNothing, Answered, StartGivesUp, manager, system
<1>9. ASSUME NEW c \in Stoppers, StopCall(c) PROVE (PidNamed /\ KilledIsDead /\ NoChildLost)'
  <2>1. NoNewStop
    BY <1>9 DEF StopCall, StopSupervisor, Actors
  <2> QED BY <1>9, <2>1, QuietKeeps DEF StopCall, manager, system
<1>10. ASSUME NEW t \in Children, Bind(t) \/ ChildEnds(t) \/ SupRead(t) \/ SupWait(t) \/ SupBackoff(t)
       PROVE  (PidNamed /\ KilledIsDead /\ NoChildLost)'
  <2>1. NoNewStop
    BY <1>10 DEF Bind, ChildEnds, SupRead, SupWait, SupBackoff
  <2> QED BY <1>10, <2>1, QuietKeeps DEF Bind, ChildEnds, SupRead, SupWait, SupBackoff, manager, system
<1>11. CASE UNCHANGED gatewayVars
  <2>1. NoNewStop
    BY <1>11 DEF gatewayVars
  <2> QED BY <1>11, <2>1, QuietKeeps DEF gatewayVars, manager, system
<1> QED BY <1>1, <1>2, <1>3, <1>4, <1>5, <1>6, <1>7, <1>8, <1>9, <1>10, <1>11
  DEF GatewayNext, Ensure, Stop, Supervise

-------------------------------------------------------------------------------
(* The supervisors.                                                        *)

\* A step that starts no supervisor, wakes none up, clears no event, and lets
\* no stop() begin.
LEMMA SupervisorsKept ==
  ASSUME GatewayInv, UNCHANGED thread, overlapped \subseteq overlapped',
         SomeoneStops' => SomeoneStops,
         \A t \in Children : ThreadAlive(t)' => ThreadAlive(t) /\ sup'[t].stop = sup[t].stop
  PROVE  (ForgottenIsStopped /\ OneSupervisor)'
<1>1. ThreadAlive(thread)' => thread \in Children
  BY ChildrenAssumption DEF GatewayInv, Shapes, SystemShape, ManagerShape, Children, ThreadAlive
<1> QED BY <1>1 DEF GatewayInv, ForgottenIsStopped, OneSupervisor, ThreadAlive

\* Whoever begins to stop sets the event of the manager's supervisor first
\* (_stop_supervisor).
LEMMA StopSupervisorKeeps ==
  ASSUME GatewayInv, NEW c \in Actors, StopSupervisor(c), UNCHANGED <<thread, overlapped>>
  PROVE  (ForgottenIsStopped /\ OneSupervisor)'
<1>1. ThreadAlive(thread) => thread \in Children
  BY ChildrenAssumption DEF GatewayInv, Shapes, SystemShape, ManagerShape, Children, ThreadAlive
<1>2. ThreadAlive(thread) => sup'[thread].stop = 1
  BY <1>1 DEF StopSupervisor, GatewayInv, Shapes
<1>3. \A t \in Children : sup'[t].pc = sup[t].pc /\ (sup[t].stop = 1 => sup'[t].stop = 1)
  BY <1>1 DEF StopSupervisor, GatewayInv, Shapes
<1>4. \A t \in Children : ThreadAlive(t)' => ThreadAlive(t)
  BY <1>3 DEF ThreadAlive
<1>5. ThreadAlive(thread)' => ThreadAlive(thread)
  BY <1>4, ChildrenAssumption DEF GatewayInv, Shapes, SystemShape, ManagerShape, Children, ThreadAlive
<1> QED BY <1>2, <1>3, <1>4, <1>5 DEF GatewayInv, ForgottenIsStopped, OneSupervisor

\* A start launches a supervisor only when the manager's has ended; while a
\* stop() is at work the new one counts as started beside it (_start).
LEMMA StartChildKeeps ==
  ASSUME GatewayInv, NEW c \in Starters, StartChild(c)
  PROVE  (ForgottenIsStopped /\ OneSupervisor)'
<1> USE DEF GatewayInv, Shapes, SystemShape, ManagerShape
<1>1. thread' = launched + 1 /\ launched + 1 \in Children
  BY ChildrenAssumption DEF StartChild, MayLaunch, Children
<1>2. overlapped' = IF SomeoneStops THEN overlapped \cup {launched + 1} ELSE overlapped
  BY DEF StartChild, Launch
<1>3. SomeoneStops' => SomeoneStops
  BY DEF StartChild, SomeoneStops, Actors
<1>4. \A t \in Children : t # launched + 1 => sup'[t] = sup[t]
  BY DEF StartChild
<1>5. ForgottenIsStopped'
  BY <1>1, <1>2, <1>3 DEF ForgottenIsStopped
<1>6. OneSupervisor'
  BY <1>1, <1>2, <1>4 DEF OneSupervisor, StartChild, ThreadAlive
<1> QED BY <1>5, <1>6

LEMMA SupervisorsStep ==
  ASSUME GatewayInv, [GatewayNext]_gatewayVars
  PROVE  (ForgottenIsStopped /\ OneSupervisor)'
<1> DEFINE Same == \A t \in Children : ThreadAlive(t)' => ThreadAlive(t) /\ sup'[t].stop = sup[t].stop
<1> USE DEF GatewayInv, Shapes, SystemShape, ManagerShape
<1>1. ASSUME NEW c \in Starters, StartGivesUp(c) PROVE (ForgottenIsStopped /\ OneSupervisor)'
  BY <1>1, StopSupervisorKeeps DEF StartGivesUp, Actors
<1>2. ASSUME NEW c \in Stoppers, StopCall(c) PROVE (ForgottenIsStopped /\ OneSupervisor)'
  BY <1>2, StopSupervisorKeeps DEF StopCall, Actors, manager
<1>3. ASSUME NEW c \in Actors, Forget(c) PROVE (ForgottenIsStopped /\ OneSupervisor)'
  <2>1. ThreadAlive(thread) => sup[thread].stop = 1 \/ thread \in overlapped
    BY <1>3 DEF Forget, ForgottenIsStopped, SomeoneStops
  <2>2. ~ThreadAlive(thread)'
    BY <1>3 DEF Forget, ThreadAlive
  <2> QED BY <1>3, <2>1, <2>2 DEF Forget, ForgottenIsStopped, OneSupervisor, ThreadAlive
<1>4. ASSUME NEW c \in Starters,
             Enter(c) \/ StartNothing(c) \/ StartFails(c) \/ StartRaises(c) \/ Answered(c)
      PROVE  (ForgottenIsStopped /\ OneSupervisor)'
  <2>1. UNCHANGED <<thread, sup, overlapped>>
    BY <1>4 DEF Enter, StartNothing, StartFails, StartRaises, Answered, Unprepared, NoLaunch,
       manager
  <2>2. SomeoneStops' => SomeoneStops
    <3>1. CASE Enter(c)
      BY <3>1 DEF Enter, SomeoneStops, Actors
    <3>2. CASE StartNothing(c)
      BY <3>2 DEF StartNothing, SomeoneStops, Actors
    <3>3. CASE StartFails(c)
      BY <3>3 DEF StartFails, SomeoneStops, Actors
    <3>4. CASE StartRaises(c) \/ Answered(c)
      BY <3>4 DEF StartRaises, Answered, Idle, SomeoneStops, Actors
    <3> QED BY <1>4, <3>1, <3>2, <3>3, <3>4
  <2>3. Same
    BY <2>1 DEF ThreadAlive
  <2> QED BY <2>1, <2>2, <2>3, SupervisorsKept
<1>5. ASSUME NEW c \in Actors, Kill(c) \/ Join(c) PROVE (ForgottenIsStopped /\ OneSupervisor)'
  <2>1. UNCHANGED <<thread, sup, overlapped>> /\ SomeoneStops
    BY <1>5 DEF Kill, Join, manager, SomeoneStops
  <2>2. Same
    BY <2>1 DEF ThreadAlive
  <2> QED BY <2>1, <2>2, SupervisorsKept
<1>6. ASSUME NEW t \in Children, Bind(t) \/ ChildEnds(t) \/ Supervise(t)
      PROVE  (ForgottenIsStopped /\ OneSupervisor)'
  <2>1. UNCHANGED <<thread, act>> /\ overlapped \subseteq overlapped'
    BY <1>6 DEF Bind, ChildEnds, Supervise, SupRead, SupWait, SupBackoff, SupRelaunch, SupFails, SupRaises,
       Launch, Unprepared, NoLaunch, manager
  <2>2. SomeoneStops' => SomeoneStops
    BY <2>1 DEF SomeoneStops
  <2>3. ASSUME NEW u \in Children PROVE ThreadAlive(u)' => ThreadAlive(u) /\ sup'[u].stop = sup[u].stop
    <3>1. CASE Bind(t) \/ ChildEnds(t)
      BY <3>1 DEF Bind, ChildEnds, ThreadAlive
    <3>2. CASE Supervise(t)
      <4>1. CASE u # t
        BY <3>2, <4>1 DEF Supervise, SupRead, SupWait, SupBackoff, SupRelaunch, SupFails, SupRaises,
           ThreadAlive
      <4>2. sup[t] \in Supervisor /\ t # 0
        BY DEF Children
      <4>3. CASE SupRead(t) \/ SupWait(t) \/ SupBackoff(t)
        BY <4>2, <4>3 DEF SupRead, SupWait, SupBackoff, Supervisor, Ended, ThreadAlive
      <4>4. CASE SupRelaunch(t) \/ SupFails(t)
        BY <4>2, <4>4 DEF SupRelaunch, SupFails, Supervisor, ThreadAlive
      <4>5. CASE SupRaises(t)
        BY <4>2, <4>5 DEF SupRaises, Ended, ThreadAlive
      <4>6. CASE u = t
        BY <3>2, <4>3, <4>4, <4>5, <4>6 DEF Supervise
      <4> QED BY <4>1, <4>6
    <3> QED BY <1>6, <3>1, <3>2
  <2> QED BY <2>1, <2>2, <2>3, SupervisorsKept
<1>7. CASE UNCHANGED gatewayVars
  BY <1>7 DEF gatewayVars, system, manager, ForgottenIsStopped, OneSupervisor, ThreadAlive, SomeoneStops
<1> QED BY <1>1, <1>2, <1>3, <1>4, <1>5, <1>6, <1>7, StartChildKeeps DEF GatewayNext, Ensure, Stop

-------------------------------------------------------------------------------

\* The invariant holds at the start and no step breaks it.
LEMMA GatewayInvariance == GatewaySpec => []GatewayInv
<1>1. GatewayInit => GatewayInv
  BY ChildrenAssumption
  DEF GatewayInit, GatewayInv, Shapes, SystemShape, ManagerShape, Supervisor, Call, PidNamed,
      KilledIsDead, NoChildLost, ForgottenIsStopped, OneSupervisor, SomeoneStops, ThreadAlive, NoSupervisor, Idle, Children, Actors
<1>2. GatewayInv /\ [GatewayNext]_gatewayVars => GatewayInv'
  BY ShapesStep, ChildrenStep, SupervisorsStep DEF GatewayInv
<1> QED BY <1>1, <1>2, PTL DEF GatewaySpec

\* Every variable keeps its type; at most one child has the API port, and only
\* a child that was launched is ever named, killed or waited for.
THEOREM GatewayTypeCorrect == GatewaySpec => []GatewayTypeOK
<1>1. GatewayInv => GatewayTypeOK
  <2> SUFFICES ASSUME GatewayInv PROVE GatewayTypeOK
    OBVIOUS
  <2>1. PICK p \in Int : listening \subseteq {p}
    BY DEF GatewayInv, Shapes, SystemShape, ManagerShape
  <2>2. listening = {} \/ listening = {p}
    BY <2>1
  <2>3. Cardinality(listening) \in {0, 1}
    BY <2>2, FS_EmptySet, FS_Singleton
  <2> QED BY <2>3 DEF GatewayInv, Shapes, SystemShape, ManagerShape, GatewayTypeOK, Supervisor, Call
<1> QED BY <1>1, GatewayInvariance, PTL

\* Every go2rtc that runs is the manager's, or was launched while a stop() was
\* at work (_launch, _terminate, _stop_supervisor).
THEOREM NoChildLostHolds == GatewaySpec => []NoChildLost
<1> QED BY GatewayInvariance, PTL DEF GatewayInv

\* Every supervisor at work is the manager's, has been told to stop, or was
\* started while a stop() was at work (_start, _stop_supervisor, _supervise).
THEOREM OneSupervisorHolds == GatewaySpec => []OneSupervisor
<1> QED BY GatewayInvariance, PTL DEF GatewayInv

-------------------------------------------------------------------------------
(***************************************************************************)
(* LiveSessions: no more pictures at a time than the limit, and the        *)
(* streams of ended sessions go.                                           *)
(***************************************************************************)
USE SessionsAssumption, LimitAssumption, BoundsAssumption

-----------------------------------------------------------------------------
(***************************************************************************)
(* TypeOK is inductive.                                                    *)
(***************************************************************************)
LEMMA TypeInit == Init => TypeOK
  BY DEF Init, TypeOK, Nothing, Counted, Running, Ready, Negotiating

\* Deleting streams, whether or not a deletion fails.
LEMMA DropType ==
  ASSUME TypeOK, NEW S, DropStreams(S)
  PROVE  /\ streams' \subseteq streams /\ streams \ S \subseteq streams'
         /\ used' \in [Counted -> Nat]
         /\ used'["changes"] = used["changes"] /\ used'["settings"] = used["settings"]
         /\ used'["faults"] <= MaxFaults
  BY DEF DropStreams, Count, TypeOK, Counted

LEMMA NegotiateType ==
  ASSUME TypeOK, NEW s \in Sessions, Reserve(s) \/ Negotiate(s) \/ Fail(s)
  PROVE  TypeOK'
<1> USE DEF TypeOK, Negotiating, Ready, Running, Counted, world, gateway, registry
<1>1. CASE Reserve(s)
  BY <1>1 DEF Reserve
<1>2. CASE ReadCamera(s)
  BY <1>2 DEF ReadCamera, Goto
<1>3. CASE EnsureRunning(s)
  BY <1>3 DEF EnsureRunning, Goto
<1>4. CASE ReadMasks(s)
  BY <1>4 DEF ReadMasks, Goto
<1>5. CASE AddStream(s)
  BY <1>5 DEF AddStream, Goto
<1>6. CASE Answer(s)
  BY <1>6 DEF Answer, Goto
<1>7. CASE BecomeReady(s)
  BY <1>7 DEF BecomeReady
<1>8. CASE Refuse(s)
  BY <1>8 DEF Refuse, Refused, GiveUp
<1>9. CASE Fail(s)
  BY <1>9 DEF Fail, GiveUp, Count
<1> QED
  BY <1>1, <1>2, <1>3, <1>4, <1>5, <1>6, <1>7, <1>8, <1>9 DEF Negotiate

LEMMA ViewerType ==
  ASSUME TypeOK, NEW s \in Sessions, Viewer(s)
  PROVE  TypeOK'
<1> USE DEF TypeOK, Negotiating, Ready, Running, Counted, world, gateway, registry
<1>1. CASE FallSilent(s) \/ Leave(s)
  BY <1>1 DEF FallSilent, Leave, PageOnly
<1>2. CASE Beat(s) \/ BecomeLate(s)
  BY <1>2 DEF Beat, BecomeLate, PageOnly
<1>3. CASE BecomeOverdue(s)
  BY <1>3 DEF BecomeOverdue
<1>4. CASE Detach(s)
  BY <1>4 DEF Detach
<1>5. CASE Close(s)
  BY <1>5 DEF Close, End, Closed
<1> QED
  BY <1>1, <1>2, <1>3, <1>4, <1>5 DEF Viewer

LEMMA EnvironmentType ==
  ASSUME TypeOK, Environment \/ Relaunch
  PROVE  TypeOK'
<1> USE DEF TypeOK, Negotiating, Ready, Running, Counted, world, gateway, registry
<1>1. CASE SwitchCamera
  BY <1>1 DEF SwitchCamera, Count
<1>2. CASE ChangeMasks
  BY <1>2 DEF ChangeMasks, Count
<1>3. CASE ChangeSettings
  BY <1>3 DEF ChangeSettings, Count
<1>4. CASE Crash
  BY <1>4 DEF Crash, Count
<1>5. CASE Relaunch
  BY <1>5 DEF Relaunch
<1> QED
  BY <1>1, <1>2, <1>3, <1>4, <1>5 DEF Environment

\* What the three ways of ending sessions have in common.
LEMMA EndType ==
  ASSUME TypeOK, NEW S \in SUBSET Ready, End(S) \/ EndAndClear(S)
  PROVE  /\ pc' \in [Sessions -> Negotiating \cup {"new", "ready", "ended", "failed"}]
         /\ late' \subseteq Ready'
         /\ ending' \subseteq Sessions
         /\ overdue' \subseteq ending'
  BY DEF TypeOK, End, EndAndClear, Closed, Ready

LEMMA EndStaleType ==
  ASSUME TypeOK, NEW S \in SUBSET Ready, EndStale(S)
  PROVE  /\ pc' \in [Sessions -> Negotiating \cup {"new", "ready", "ended", "failed"}]
         /\ late' \subseteq Ready'
         /\ ending' \subseteq Sessions
         /\ overdue' \subseteq ending'
<1>1. EndAndClear(Ready) \/ End(S \cup Stale)
  BY DEF EndStale
<1>2. S \cup Stale \in SUBSET Ready
  BY DEF Stale
<1> QED
  BY <1>1, <1>2, EndType

LEMMA TaskType ==
  ASSUME TypeOK, Task
  PROVE  TypeOK'
<1> USE DEF world, gateway, registry
<1>1. CASE EndAll
  BY <1>1, EndType DEF EndAll, TypeOK, Running
<1>2. CASE CheckPrivacy
  BY <1>2, EndStaleType DEF CheckPrivacy, TypeOK, Running
<1>3. CASE ApplyIdleRestart
  BY <1>3 DEF ApplyIdleRestart, TypeOK, Running, Ready
<1>4. CASE TaskStopped
  BY <1>4 DEF TaskStopped, StopGateway, TypeOK, Running, Ready
<1>5. CASE SettleAsk
  BY <1>5 DEF SettleAsk, TypeOK, Running, Ready
<1>6. CASE Settle
  BY <1>6, DropType DEF Settle, TypeOK, Running, Ready
<1> QED
  BY <1>1, <1>2, <1>3, <1>4, <1>5, <1>6 DEF Task

LEMMA ReapType ==
  ASSUME TypeOK, Reap
  PROVE  TypeOK'
<1> USE DEF world, gateway, registry, PassOver
<1>1. CASE ReapTimes
  <2>1. late \in SUBSET Ready
    BY DEF TypeOK
  <2> QED
    BY <1>1, <2>1, EndType DEF ReapTimes, TypeOK, Running
<1>2. CASE QueryCamera
  BY <1>2 DEF QueryCamera, TypeOK, Running, Ready
<1>3. CASE ReapRows
  <2> DEFINE off == IF seen.camera = "off" THEN Ready ELSE {}
  <2>1. off \in SUBSET Ready /\ EndStale(off)
    BY <1>3 DEF ReapRows
  <2>2. seen' \in [camera : {"on", "off"}, streams : SUBSET Sessions,
                   consumers : SUBSET Sessions, settle : SUBSET Sessions]
    BY <1>3 DEF ReapRows, TypeOK
  <2>3. reaper' \in {"forced", "gateway"}
    BY <1>3 DEF ReapRows
  <2> QED
    BY <1>3, <2>1, <2>2, <2>3, EndStaleType DEF ReapRows, TypeOK, Running
<1>4. CASE ReapGateway
  BY <1>4, EndType DEF ReapGateway, TypeOK, Running, Ready
<1>5. CASE Ask
  BY <1>5 DEF Ask, TypeOK, Running, Ready
<1>6. CASE AskFails
  <2>1. /\ used' \in [Counted -> Nat]
        /\ used'["changes"] = used["changes"]
        /\ used'["settings"] = used["settings"]
        /\ used'["faults"] <= MaxFaults
    BY <1>6 DEF AskFails, Count, TypeOK, Counted
  <2>2. reaper' \in {"sleep", "idle", "off"} /\ restart' \subseteq {1}
    BY <1>6 DEF AskFails, TypeOK
  <2> QED
    BY <1>6, <2>1, <2>2 DEF AskFails, TypeOK, Running, Ready
<1>7. CASE ReapAnswer
  BY <1>7, DropType DEF ReapAnswer, Lost, Closed, TypeOK, Running, Ready
<1>8. CASE ReapOrphans
  <2>1. /\ streams' \subseteq streams /\ used' \in [Counted -> Nat]
        /\ used'["changes"] = used["changes"] /\ used'["settings"] = used["settings"]
        /\ used'["faults"] <= MaxFaults
    BY <1>8, DropType DEF ReapOrphans
  <2>2. CASE reaper = "overdue"
    BY <1>8, <2>1, <2>2, EndType DEF ReapOrphans, TypeOK, Running
  <2>3. CASE reaper # "overdue"
    <3>1. ending' \subseteq Sessions
      BY <1>8, <2>3 DEF ReapOrphans, Orphans, TypeOK
    <3>2. /\ UNCHANGED <<pc, late, overdue>> /\ ending \subseteq ending'
          /\ reaper' \in {"sleep", "idle", "off"} /\ restart' \subseteq {1}
      BY <1>8, <2>3 DEF ReapOrphans, TypeOK
    <3> QED
      BY <1>8, <2>1, <3>1, <3>2 DEF ReapOrphans, TypeOK, Running, Ready
  <2> QED
    BY <2>2, <2>3
<1>9. CASE ReaperStopped
  BY <1>9 DEF ReaperStopped, StopGateway, TypeOK, Running, Ready
<1> QED
  BY <1>1, <1>2, <1>3, <1>4, <1>5, <1>6, <1>7, <1>8, <1>9 DEF Reap

LEMMA TypeStep == TypeOK /\ [Next]_vars => TypeOK'
<1> SUFFICES ASSUME TypeOK, [Next]_vars PROVE TypeOK'
  OBVIOUS
<1>1. CASE \E s \in Sessions : Reserve(s) \/ Negotiate(s) \/ Fail(s) \/ Viewer(s)
  BY <1>1, NegotiateType, ViewerType
<1>2. CASE Reap \/ Task
  BY <1>2, ReapType, TaskType
<1>3. CASE Environment \/ Relaunch
  BY <1>3, EnvironmentType
<1>4. CASE UNCHANGED vars
  BY <1>4 DEF vars, world, gateway, registry, TypeOK, Running, Ready
<1> QED
  BY <1>1, <1>2, <1>3, <1>4 DEF Next

\* Every variable keeps its type; a go2rtc that is down has neither streams nor
\* consumers, and only open sessions are late.
THEOREM TypeCorrect == Spec => []TypeOK
  BY TypeInit, TypeStep, PTL DEF Spec

-----------------------------------------------------------------------------
(***************************************************************************)
(* The limit.  Only Reserve adds a session to the registry, and it has     *)
(* counted those that are being negotiated.                                *)
(***************************************************************************)
\* What any other action does to the registry: it takes sessions out of it.
OnlyLeaves == Registered' \subseteq Registered

LEMMA NegotiateLeaves ==
  ASSUME TypeOK, NEW s \in Sessions, Negotiate(s) \/ Fail(s)
  PROVE  OnlyLeaves
<1> USE DEF OnlyLeaves, Registered, Negotiating, TypeOK
<1>1. CASE ReadCamera(s) \/ EnsureRunning(s) \/ ReadMasks(s)
  BY <1>1 DEF ReadCamera, EnsureRunning, ReadMasks, Goto
<1>2. CASE AddStream(s) \/ Answer(s) \/ BecomeReady(s)
  BY <1>2 DEF AddStream, Answer, BecomeReady, Goto
<1>3. CASE Refuse(s) \/ Fail(s)
  BY <1>3 DEF Refuse, Fail, GiveUp
<1> QED
  BY <1>1, <1>2, <1>3 DEF Negotiate

LEMMA EndLeaves ==
  ASSUME TypeOK, NEW S \in SUBSET Ready, End(S) \/ EndAndClear(S)
  PROVE  OnlyLeaves
  BY DEF TypeOK, End, EndAndClear, Closed, OnlyLeaves, Registered, Negotiating

LEMMA EndStaleLeaves ==
  ASSUME TypeOK, NEW S \in SUBSET Ready, EndStale(S)
  PROVE  OnlyLeaves
<1>1. EndAndClear(Ready) \/ End(S \cup Stale)
  BY DEF EndStale
<1>2. S \cup Stale \in SUBSET Ready
  BY DEF Stale
<1> QED
  BY <1>1, <1>2, EndLeaves

LEMMA SamePc ==
  ASSUME pc' = pc
  PROVE  OnlyLeaves
  BY DEF OnlyLeaves, Registered

LEMMA ReapLeaves ==
  ASSUME TypeOK, Reap
  PROVE  OnlyLeaves
<1>1. CASE ReapTimes
  BY <1>1, EndLeaves DEF ReapTimes, TypeOK
<1>2. CASE QueryCamera \/ Ask
  BY <1>2, SamePc DEF QueryCamera, Ask, registry
<1>3. CASE ReapRows
  <2> DEFINE off == IF seen.camera = "off" THEN Ready ELSE {}
  <2>1. off \in SUBSET Ready /\ EndStale(off)
    BY <1>3 DEF ReapRows
  <2> QED
    BY <2>1, EndStaleLeaves
<1>4. CASE ReapGateway
  BY <1>4, EndLeaves, SamePc DEF ReapGateway
<1>5. CASE AskFails \/ ReaperStopped
  BY <1>5, SamePc DEF AskFails, ReaperStopped
<1>6. CASE ReapAnswer
  BY <1>6 DEF ReapAnswer, Lost, Closed, OnlyLeaves, Registered, Negotiating, TypeOK
<1>7. CASE ReapOrphans
  BY <1>7, EndLeaves, SamePc DEF ReapOrphans
<1> QED
  BY <1>1, <1>2, <1>3, <1>4, <1>5, <1>6, <1>7 DEF Reap

LEMMA OthersLeave ==
  ASSUME TypeOK, NEW s \in Sessions,
         Viewer(s) \/ Task \/ Environment \/ Relaunch \/ UNCHANGED vars
  PROVE  OnlyLeaves
<1> USE DEF registry
<1>1. CASE Close(s)
  BY <1>1, EndLeaves DEF Close
<1>2. CASE Viewer(s) /\ ~Close(s)
  BY <1>2, SamePc DEF Viewer, FallSilent, Leave, Beat, BecomeLate, BecomeOverdue,
                      Detach, PageOnly
<1>3. CASE EndAll
  BY <1>3, EndLeaves DEF EndAll
<1>4. CASE CheckPrivacy
  BY <1>4, EndStaleLeaves DEF CheckPrivacy
<1>5. CASE Task /\ ~EndAll /\ ~CheckPrivacy
  BY <1>5, SamePc DEF Task, ApplyIdleRestart, TaskStopped, SettleAsk, Settle
<1>6. CASE Environment \/ Relaunch
  BY <1>6, SamePc DEF Environment, SwitchCamera, ChangeMasks, ChangeSettings, Crash,
                      Relaunch
<1>7. CASE UNCHANGED vars
  BY <1>7, SamePc DEF vars
<1> QED
  BY <1>1, <1>2, <1>3, <1>4, <1>5, <1>6, <1>7

LEMMA LimitInit == Init => SlotsBounded
<1> SUFFICES ASSUME Init PROVE SlotsBounded
  OBVIOUS
<1>1. Registered = {}
  BY DEF Init, Registered, Negotiating
<1> QED
  BY <1>1, FS_EmptySet DEF SlotsBounded

LEMMA LimitStep == TypeOK /\ SlotsBounded /\ [Next]_vars => SlotsBounded'
<1> SUFFICES ASSUME TypeOK, SlotsBounded, [Next]_vars PROVE SlotsBounded'
  OBVIOUS
<1>1. IsFiniteSet(Registered) /\ Cardinality(Registered) \in Nat
  BY FS_Subset, FS_CardinalityType DEF Registered
<1>2. CASE \E s \in Sessions : Reserve(s)
  <2>1. PICK s \in Sessions : Reserve(s)
    BY <1>2
  <2>2. Registered' = Registered \cup {s} /\ s \notin Registered
    BY <2>1 DEF Reserve, Registered, Negotiating, TypeOK
  <2>3. Cardinality(Registered) < Limit
    BY <2>1 DEF Reserve
  <2>4. Cardinality(Registered \cup {s}) = Cardinality(Registered) + 1
    BY <1>1, <2>2, FS_AddElement
  <2> QED
    BY <1>1, <2>2, <2>3, <2>4 DEF SlotsBounded
<1>3. CASE OnlyLeaves
  <2>1. Cardinality(Registered') <= Cardinality(Registered)
    BY <1>1, <1>3, FS_Subset DEF OnlyLeaves
  <2>2. Cardinality(Registered') \in Nat
    BY <1>1, <1>3, FS_Subset, FS_CardinalityType DEF OnlyLeaves
  <2> QED
    BY <1>1, <2>1, <2>2 DEF SlotsBounded
<1>4. (\E s \in Sessions : Reserve(s)) \/ OnlyLeaves
  <2>1. CASE \E s \in Sessions : Negotiate(s) \/ Fail(s) \/ Viewer(s)
    BY <2>1, NegotiateLeaves, OthersLeave
  <2>2. CASE Reap
    BY <2>2, ReapLeaves
  <2>3. CASE Task \/ Environment \/ Relaunch \/ UNCHANGED vars
    <3>1. CASE Sessions = {}
      BY <3>1 DEF OnlyLeaves, Registered
    <3>2. CASE Sessions # {}
      BY <2>3, <3>2, OthersLeave
    <3> QED
      BY <3>1, <3>2
  <2> QED
    BY <2>1, <2>2, <2>3 DEF Next
<1> QED
  BY <1>2, <1>3, <1>4

\* max_video_sessions bounds the sessions in the registry, however creations,
\* ends and the reaper interleave.
THEOREM SlotsBoundedHolds == Spec => []SlotsBounded
<1>1. Init => TypeOK /\ SlotsBounded
  BY TypeInit, LimitInit
<1>2. TypeOK /\ SlotsBounded /\ [Next]_vars => TypeOK' /\ SlotsBounded'
  BY TypeStep, LimitStep
<1> QED
  BY <1>1, <1>2, PTL DEF Spec

-----------------------------------------------------------------------------
(***************************************************************************)
(* The leftover streams.  EndingIsEnded is inductive once it is known that *)
(* what go2rtc, an answer of go2rtc and _ending name are sessions that     *)
(* have been opened: a new session cannot take over a leftover stream.     *)
(***************************************************************************)
Opened == \A s \in ending \cup streams \cup seen.streams : pc[s] # "new"
EndingInv == TypeOK /\ EndingIsEnded /\ Opened

LEMMA EndingInit == Init => EndingInv
  BY TypeInit DEF Init, EndingInv, EndingIsEnded, Opened, Nothing

\* A step that leaves pc alone.
LEMMA EndingSamePc ==
  ASSUME EndingInv, TypeOK', pc' = pc,
         ending' \cap Registered = {},
         ending' \cup streams' \cup seen'.streams
           \subseteq ending \cup streams \cup seen.streams
  PROVE  EndingInv'
<1>1. Registered' = Registered
  BY DEF Registered
<1>2. Opened'
  BY DEF EndingInv, Opened
<1> QED
  BY <1>1, <1>2 DEF EndingInv, EndingIsEnded

\* A step of a negotiation.
LEMMA EndingNegotiate ==
  ASSUME EndingInv, TypeOK', NEW s \in Sessions, Reserve(s) \/ Negotiate(s) \/ Fail(s)
  PROVE  EndingInv'
<1> USE DEF EndingInv, TypeOK
<1>1. /\ ending' = ending
      /\ seen' = seen
      /\ streams' \subseteq streams \cup {s}
    BY DEF Negotiate, Reserve, ReadCamera, EnsureRunning, ReadMasks, AddStream,
           Answer, BecomeReady, Refuse, Fail, GiveUp, Goto, gateway
<1>2. \/ pc[s] = "new" /\ pc' = [pc EXCEPT ![s] = "reserved"] /\ streams' = streams
      \/ pc[s] \in Negotiating /\ \E v \in Negotiating \cup {"ready", "failed"} :
                                    pc' = [pc EXCEPT ![s] = v]
    BY DEF Negotiate, Reserve, ReadCamera, EnsureRunning, ReadMasks, AddStream,
           Answer, BecomeReady, Refuse, Refused, Fail, GiveUp, Goto, Negotiating, gateway
<1>3. Opened'
    BY <1>1, <1>2 DEF Opened, Negotiating
<1>4. EndingIsEnded'
    BY <1>1, <1>2 DEF EndingIsEnded, Registered, Opened, Negotiating
<1> QED
    BY <1>3, <1>4

\* Ending ready sessions.
LEMMA EndingEnd ==
  ASSUME EndingInv, TypeOK', NEW S \in SUBSET Ready, End(S) \/ EndAndClear(S),
         streams' \subseteq streams,
         seen'.streams \subseteq seen.streams
  PROVE  EndingInv'
<1>1. Opened'
  BY DEF EndingInv, Opened, End, EndAndClear, Closed, TypeOK, Ready
<1>2. EndingIsEnded'
  BY DEF EndingInv, EndingIsEnded, End, EndAndClear, Closed, TypeOK, Ready,
         Registered, Negotiating
<1> QED
  BY <1>1, <1>2 DEF EndingInv

LEMMA EndingEndStale ==
  ASSUME EndingInv, TypeOK', NEW S \in SUBSET Ready, EndStale(S),
         streams' \subseteq streams,
         seen'.streams \subseteq seen.streams
  PROVE  EndingInv'
<1>1. EndAndClear(Ready) \/ End(S \cup Stale)
  BY DEF EndStale
<1>2. S \cup Stale \in SUBSET Ready
  BY DEF Stale
<1> QED
  BY <1>1, <1>2, EndingEnd

LEMMA EndingOthers ==
  ASSUME EndingInv, TypeOK', NEW s \in Sessions,
         Viewer(s) \/ Task \/ Environment \/ Relaunch
  PROVE  EndingInv'
<1> USE DEF gateway, registry
<1>a. ending \cap Registered = {}
  BY DEF EndingInv, EndingIsEnded
<1>1. CASE Close(s)
  BY <1>1, EndingEnd DEF Close
<1>2. CASE Viewer(s) /\ ~Close(s)
  BY <1>2, <1>a, EndingSamePc DEF Viewer, FallSilent, Leave, Beat, BecomeLate,
                              BecomeOverdue, Detach, PageOnly
<1>3. CASE EndAll
  BY <1>3, EndingEnd DEF EndAll
<1>4. CASE CheckPrivacy
  BY <1>4, EndingEndStale DEF CheckPrivacy
<1>5. CASE ApplyIdleRestart \/ TaskStopped
  BY <1>5, <1>a, EndingSamePc DEF ApplyIdleRestart, TaskStopped, StopGateway
<1>6. CASE SettleAsk \/ Settle
  BY <1>6, <1>a, EndingSamePc, DropType DEF SettleAsk, Settle, EndingInv, TypeOK
<1>7. CASE Environment \/ Relaunch
  BY <1>7, <1>a, EndingSamePc DEF Environment, SwitchCamera, ChangeMasks,
                              ChangeSettings, Crash, Relaunch
<1> QED
  BY <1>1, <1>2, <1>3, <1>4, <1>5, <1>6, <1>7 DEF Task

LEMMA EndingReap ==
  ASSUME EndingInv, TypeOK', Reap
  PROVE  EndingInv'
<1> USE DEF gateway, registry
<1>a. ending \cap Registered = {}
  BY DEF EndingInv, EndingIsEnded
<1>1. CASE ReapTimes
  BY <1>1, EndingEnd DEF ReapTimes, EndingInv, TypeOK
<1>2. CASE QueryCamera \/ Ask
  BY <1>2, <1>a, EndingSamePc DEF QueryCamera, Ask, EndingInv, TypeOK
<1>3. CASE ReapRows
  <2> DEFINE off == IF seen.camera = "off" THEN Ready ELSE {}
  <2>1. off \in SUBSET Ready /\ EndStale(off)
    BY <1>3 DEF ReapRows
  <2>2. seen'.streams = seen.streams
    BY <1>3 DEF ReapRows, EndingInv, TypeOK
  <2> QED
    BY <1>3, <2>1, <2>2, EndingEndStale DEF ReapRows
<1>4. CASE ReapGateway
  BY <1>4, <1>a, EndingEnd, EndingSamePc DEF ReapGateway
<1>5. CASE AskFails \/ ReaperStopped
  BY <1>5, <1>a, EndingSamePc DEF AskFails, ReaperStopped, StopGateway
<1>6. CASE ReapAnswer
  <2>1. /\ pc' = Closed(Lost)
        /\ ending' \subseteq ending \cup Lost
        /\ streams' \subseteq streams /\ seen' = seen
    BY <1>6, DropType DEF ReapAnswer, EndingInv
  <2>2. Opened'
    BY <2>1 DEF Opened, Closed, Lost, Ready, EndingInv, TypeOK
  <2>3. EndingIsEnded'
    BY <2>1 DEF EndingIsEnded, Closed, Lost, Ready, Registered, Negotiating,
                EndingInv, TypeOK
  <2> QED
    BY <2>2, <2>3 DEF EndingInv
<1>7. CASE ReapOrphans
  <2>1. streams' \subseteq streams /\ seen'.streams = {}
    BY <1>7, DropType DEF ReapOrphans, EndingInv, TypeOK
  <2>2. CASE reaper = "overdue"
    BY <1>7, <2>1, <2>2, EndingEnd DEF ReapOrphans
  <2>3. CASE reaper # "overdue"
    <3>1. pc' = pc /\ ending' = ending \cup (Orphans \cap seen.consumers)
      BY <1>7, <2>3 DEF ReapOrphans
    <3>2. ending' \cap Registered = {}
      BY <1>a, <3>1 DEF Orphans
    <3> QED
      BY <2>1, <3>1, <3>2, EndingSamePc DEF Orphans
  <2> QED
    BY <2>2, <2>3
<1> QED
  BY <1>1, <1>2, <1>3, <1>4, <1>5, <1>6, <1>7 DEF Reap

LEMMA EndingStep == EndingInv /\ [Next]_vars => EndingInv'
<1> SUFFICES ASSUME EndingInv, [Next]_vars PROVE EndingInv'
  OBVIOUS
<1>1. TypeOK'
  BY TypeStep DEF EndingInv
<1>2. CASE \E s \in Sessions : Reserve(s) \/ Negotiate(s) \/ Fail(s) \/ Viewer(s)
  BY <1>1, <1>2, EndingNegotiate, EndingOthers
<1>3. CASE Reap
  BY <1>1, <1>3, EndingReap
<1>4. CASE (Task \/ Environment \/ Relaunch) /\ Sessions # {}
  BY <1>1, <1>4, EndingOthers
<1>5. CASE Sessions = {}
  BY <1>1, <1>5 DEF EndingInv, EndingIsEnded, Opened, TypeOK, Registered
<1>6. CASE UNCHANGED vars
  BY <1>1, <1>6 DEF vars, gateway, registry, EndingInv, EndingIsEnded, Opened, Registered
<1> QED
  BY <1>2, <1>3, <1>4, <1>5, <1>6 DEF Next

\* The leftover streams that the reaper may delete or count as overdue are never
\* those of a session being opened or watched.
THEOREM EndingIsEndedHolds == Spec => []EndingIsEnded
<1>1. EndingInv => EndingIsEnded
  BY DEF EndingInv
<1> QED
  BY <1>1, EndingInit, EndingStep, PTL DEF Spec

\* The reaper's clean-up of unowned streams leaves those of every session in the
\* registry, negotiating or watched, in go2rtc.
THEOREM OwnedStreamKeptHolds == Spec => OwnedStreamKept
<1>1. ReapOrphans /\ reaper = "orphans" =>
        \A s \in Registered : s \in streams => s \in streams'
  BY DEF ReapOrphans, Orphans, DropStreams
<1> QED
  BY <1>1, PTL DEF OwnedStreamKept
=============================================================================
