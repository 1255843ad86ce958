------------------------------ MODULE RemoteTunnel ------------------------------
(***************************************************************************)
(* Online access (services/remote_access_service.py): the saved settings,  *)
(* the supervisor thread with its frpc child, and the calls that make the  *)
(* one agree with the other: a save on the dashboard and a change of plan  *)
(* at a check-in, each in a thread of its own.  The lock is released       *)
(* between the steps of apply().  The check of the public address writes   *)
(* the settings too.                                                       *)
(*                                                                         *)
(* A supervisor is named by the number of its start, its stop event and    *)
(* its child with it.                                                      *)
(***************************************************************************)
EXTENDS Integers

CONSTANTS
  Callers,     \* requests to save, and check-ins
  Checks,      \* verify(): on request, after a connection, every ten minutes
  MaxStarts,   \* bound: supervisors started in one run of the box
  MaxCalls,    \* bound: saves and changes of plan
  MaxTroubles  \* bound: launches and children that fail, restarts

Sups == 1 .. MaxStarts

VARIABLES
  disk,     \* the settings in system_setup
  mem,      \* _settings
  plan,     \* the plan includes online access
  thread,   \* _thread, 0 for None
  event,    \* the supervisor whose stop event is _stop, 0 before the first
  proc,     \* the supervisor whose child is _proc, 0 for None
  sup,      \* the supervisors
  frpc,     \* the settings a supervisor's child runs with, 0 when it has none
  call,     \* apply() of each caller
  calls,    \* how many there have been
  checking, \* the copy each verify() is about to save, as a set
  \* history
  started,  \* supervisors of this run
  crossed,  \* two apply() were at work at once in this run
  stale,    \* the last write of the settings was a check's, with older ones
  troubles

settings == <<disk, mem, plan, checking, stale>>
tunnel == <<thread, event, proc, sup, frpc, started>>
vars == <<settings, tunnel, call, calls, crossed, troubles>>

NoSup == [pc |-> "none", stop |-> FALSE, with |-> 0]
Idle == [pc |-> "idle", restart |-> FALSE, run |-> FALSE, thread |-> 0]

\* should_run: switched on, in the plan; what else it asks is part of a save.
ShouldRun == mem.on /\ plan
ThreadAlive(t) == t # 0 /\ sup[t].pc \notin {"none", "ended"}

\* start(): the settings are those of the disk, and apply() runs before there
\* are requests.
FirstSup(run) == [t \in Sups |-> IF t = 1 /\ run THEN [NoSup EXCEPT !.pc = "top"] ELSE NoSup]
First(run) == IF run THEN 1 ELSE 0

Init ==
  /\ disk \in [on : BOOLEAN, version : {1}] /\ mem = disk /\ plan = TRUE
  /\ thread = First(ShouldRun) /\ event = First(ShouldRun) /\ started = First(ShouldRun)
  /\ proc = 0 /\ sup = FirstSup(ShouldRun) /\ frpc = [t \in Sups |-> 0]
  /\ call = [c \in Callers |-> Idle] /\ checking = [k \in Checks |-> {}]
  /\ calls = 0 /\ crossed = FALSE /\ stale = FALSE /\ troubles = 0

Trouble == troubles < MaxTroubles /\ troubles' = troubles + 1

(***************************************************************************)
(* What leads to apply().                                                  *)
(***************************************************************************)
BeginApply(c, restart) ==
  /\ call[c].pc = "idle"
  /\ calls < MaxCalls /\ calls' = calls + 1
  /\ call' = [call EXCEPT ![c] = [Idle EXCEPT !.pc = "decide", !.restart = restart]]
  /\ crossed' = (crossed \/ \E d \in Callers \ {c} : call[d].pc # "idle")

\* For a mutant: only switching on or off is told from a save of the same.
Toggled(old, new) == new.on # old.on
NeedsRestart(old, new) == new.version # old.version

\* A change of the address, the server, the store or a secret is a new version.
Save(c) ==
  /\ \E on \in BOOLEAN, change \in {0, 1} :
       /\ mem' = [on |-> on, version |-> mem.version + change]
       /\ BeginApply(c, NeedsRestart(mem, mem'))
  /\ disk' = mem' /\ stale' = FALSE
  /\ UNCHANGED <<plan, checking, tunnel, troubles>>
PlanTurns(c) ==
  /\ plan' = ~plan
  /\ BeginApply(c, FALSE)
  /\ UNCHANGED <<disk, mem, checking, stale, tunnel, troubles>>

\* verify(): the result goes into the settings under the lock; they are saved
\* after it.
CheckNotes(k) ==
  /\ checking[k] = {}
  /\ checking' = [checking EXCEPT ![k] = {mem}]
  /\ UNCHANGED <<disk, mem, plan, stale, tunnel, call, calls, crossed, troubles>>
CheckSaves(k) ==
  /\ checking[k] # {}
  /\ checking' = [checking EXCEPT ![k] = {}]
  /\ disk' \in checking[k] /\ stale' = (disk' # mem)
  /\ UNCHANGED <<mem, plan, tunnel, call, calls, crossed, troubles>>

(***************************************************************************)
(* apply().                                                                *)
(***************************************************************************)
Move(c, pc) == call' = [call EXCEPT ![c].pc = pc]
Done(c) == call' = [call EXCEPT ![c] = Idle]

Decide(c) ==
  /\ call[c].pc = "decide"
  /\ call' = [call EXCEPT ![c].pc = "look", ![c].run = ShouldRun]
  /\ UNCHANGED <<settings, tunnel, calls, crossed, troubles>>
Look(c) ==
  LET running == ThreadAlive(thread)
  IN /\ call[c].pc = "look"
     /\ \/ running /\ (~call[c].run \/ call[c].restart) /\ Move(c, "stop")
        \/ running /\ call[c].run /\ ~call[c].restart /\ Done(c)
        \/ ~running /\ call[c].run /\ Move(c, "start")
        \/ ~running /\ ~call[c].run /\ Done(c)
     /\ UNCHANGED <<settings, tunnel, calls, crossed, troubles>>

\* _stop_supervisor: set the event, end the child, join the thread; forget it.
SetEvent(c) ==
  /\ call[c].pc = "stop"
  /\ sup' = IF event # 0 THEN [sup EXCEPT ![event].stop = TRUE] ELSE sup
  /\ call' = [call EXCEPT ![c].pc = "end", ![c].thread = thread]
  /\ UNCHANGED <<settings, thread, event, proc, frpc, started, calls, crossed, troubles>>
EndChild == frpc' = IF proc # 0 THEN [frpc EXCEPT ![proc] = 0] ELSE frpc
End(c) ==
  /\ call[c].pc = "end"
  /\ EndChild
  /\ Move(c, "join")
  /\ UNCHANGED <<settings, thread, event, proc, sup, started, calls, crossed, troubles>>
\* Every half second the child is ended again, should there be one by now.
EndAgain(c) ==
  /\ call[c].pc = "join" /\ ThreadAlive(call[c].thread)
  /\ EndChild
  /\ UNCHANGED <<settings, thread, event, proc, sup, started, call, calls, crossed, troubles>>
\* For a mutant: the child is ended once and nobody waits for the thread.
JoinedAtOnce(t) == TRUE
\* The 15 s are over only for a thread that reads from a child that is not _proc.
Joined(t) == ThreadAlive(t) => sup[t].pc = "read" /\ frpc[t] # 0 /\ proc # t
Forget(c) ==
  /\ call[c].pc = "join" /\ Joined(call[c].thread)
  /\ thread' = 0
  /\ IF call[c].run THEN Move(c, "start") ELSE Done(c)
  /\ UNCHANGED <<settings, event, proc, sup, frpc, started, calls, crossed, troubles>>

StartSupervisor ==
  /\ started < MaxStarts
  /\ started' = started + 1
  /\ thread' = started + 1 /\ event' = started + 1
  /\ sup' = [sup EXCEPT ![started + 1] = [NoSup EXCEPT !.pc = "top"]]
Start(c) ==
  /\ call[c].pc = "start"
  /\ StartSupervisor
  /\ Done(c)
  /\ UNCHANGED <<settings, proc, frpc, calls, crossed, troubles>>

(***************************************************************************)
(* _supervise.                                                             *)
(***************************************************************************)
SupMove(t, pc) == sup' = [sup EXCEPT ![t].pc = pc]
Otherwise(t, pc) == SupMove(t, IF sup[t].stop THEN "ended" ELSE pc)

\* _prepare writes frpc's configuration; it fails without the program, the
\* secrets or the certificates.  The event is asked before and after it, which
\* is one question here: the thread has done nothing to see meanwhile.
Prepare(t) ==
  /\ sup[t].pc = "top"
  /\ IF sup[t].stop
       THEN SupMove(t, "ended")
       ELSE sup' = [sup EXCEPT ![t].pc = "open", ![t].with = mem.version]
  /\ UNCHANGED <<settings, thread, event, proc, frpc, started, call, calls, crossed, troubles>>
PrepareFails(t) ==
  /\ sup[t].pc = "top" /\ ~sup[t].stop /\ Trouble
  /\ SupMove(t, "wait")
  /\ UNCHANGED <<settings, thread, event, proc, frpc, started, call, calls, crossed>>
Open(t) ==
  /\ sup[t].pc = "open"
  /\ frpc' = [frpc EXCEPT ![t] = sup[t].with]
  /\ SupMove(t, "opened")
  /\ UNCHANGED <<settings, thread, event, proc, started, call, calls, crossed, troubles>>
OpenFails(t) ==
  /\ sup[t].pc = "open" /\ Trouble
  /\ SupMove(t, "wait")
  /\ UNCHANGED <<settings, thread, event, proc, frpc, started, call, calls, crossed>>
Register(t) ==
  /\ sup[t].pc = "opened"
  /\ proc' = t
  /\ SupMove(t, "check")
  /\ UNCHANGED <<settings, thread, event, frpc, started, call, calls, crossed, troubles>>
Check(t) ==
  /\ sup[t].pc = "check"
  /\ IF sup[t].stop THEN EndChild ELSE UNCHANGED frpc
  /\ SupMove(t, "read")
  /\ UNCHANGED <<settings, thread, event, proc, started, call, calls, crossed, troubles>>
\* For a mutant: the child is taken to have ended when its output is read.
ReapEarly(t) ==
  /\ sup[t].pc = "read"
  /\ proc' = 0
  /\ Otherwise(t, "wait")
  /\ UNCHANGED <<settings, thread, event, frpc, started, call, calls, crossed, troubles>>
\* The output ends and the child is reaped.
Reap(t) ==
  /\ sup[t].pc = "read" /\ frpc[t] = 0
  /\ proc' = 0
  /\ Otherwise(t, "wait")
  /\ UNCHANGED <<settings, thread, event, frpc, started, call, calls, crossed, troubles>>
\* The event, or the delay is over.
Wait(t) ==
  /\ sup[t].pc = "wait"
  /\ Otherwise(t, "top")
  /\ UNCHANGED <<settings, thread, event, proc, frpc, started, call, calls, crossed, troubles>>
Dies(t) ==
  /\ frpc[t] # 0 /\ Trouble
  /\ frpc' = [frpc EXCEPT ![t] = 0]
  /\ UNCHANGED <<settings, thread, event, proc, sup, started, call, calls, crossed>>

\* The box goes down with its children, and starts.
Restart ==
  /\ Trouble
  /\ mem' = disk /\ stale' = FALSE /\ checking' = [k \in Checks |-> {}]
  /\ LET run == disk.on /\ plan
     IN /\ thread' = First(run) /\ event' = First(run) /\ started' = First(run)
        /\ sup' = FirstSup(run)
  /\ proc' = 0 /\ frpc' = [t \in Sups |-> 0]
  /\ call' = [c \in Callers |-> Idle] /\ crossed' = FALSE
  /\ UNCHANGED <<disk, plan, calls>>

Apply(c) ==
  Decide(c) \/ Look(c) \/ SetEvent(c) \/ End(c) \/ EndAgain(c) \/ Forget(c) \/ Start(c)
Supervise(t) ==
  \/ Prepare(t) \/ PrepareFails(t) \/ Open(t) \/ OpenFails(t) \/ Register(t)
  \/ Check(t) \/ Reap(t) \/ Wait(t) \/ Dies(t)

Next ==
  \/ \E c \in Callers : Save(c) \/ PlanTurns(c) \/ Apply(c)
  \/ \E t \in Sups : Supervise(t)
  \/ \E k \in Checks : CheckNotes(k) \/ CheckSaves(k)
  \/ Restart

Spec == Init /\ [][Next]_vars

-------------------------------------------------------------------------------
(* Properties.                                                             *)

Settings == [on : BOOLEAN, version : 1 .. calls + 1]
\* Every variable stays in its domain.
TypeOK ==
  /\ disk \in Settings /\ mem \in Settings /\ plan \in BOOLEAN /\ checking \in [Checks -> SUBSET Settings]
  /\ thread \in 0 .. started /\ event \in 0 .. started /\ proc \in 0 .. started
  /\ sup \in [Sups -> [pc : {"none", "top", "open", "opened", "check", "read", "wait",
                              "ended"},
                       stop : BOOLEAN, with : 0 .. calls + 1]]
  /\ frpc \in [Sups -> 0 .. calls + 1]
  /\ call \in [Callers -> [pc : {"idle", "decide", "look", "stop", "end", "join", "start"},
                           restart : BOOLEAN, run : BOOLEAN, thread : 0 .. MaxStarts]]
  /\ started \in 0 .. MaxStarts /\ calls \in 0 .. MaxCalls
  /\ crossed \in BOOLEAN /\ stale \in BOOLEAN /\ troubles \in 0 .. MaxTroubles

AtRest == \A c \in Callers : call[c].pc = "idle"

\* While every save and change of plan has been applied, one after the other, the
\* tunnel is up exactly when it should be: one supervisor is at work when it is to
\* run and none when not, and every frpc is that supervisor's
\* (apply, _stop_supervisor, _supervise).
TunnelAsSaved ==
  AtRest /\ ~crossed =>
    /\ ShouldRun <=> ThreadAlive(thread) /\ ~sup[thread].stop
    /\ \A t \in Sups \ {thread} : ~ThreadAlive(t) /\ frpc[t] = 0

\* ... and an frpc that runs has the settings saved last (update, _prepare).
TunnelIsCurrent == AtRest /\ ~crossed => \A t \in Sups : frpc[t] \in {0, mem.version}

\* Whatever crosses, no frpc runs on without its supervisor (_supervise).
FrpcIsWatched == \A t \in Sups : frpc[t] # 0 => ThreadAlive(t)

\* A restart finds the settings saved last, unless a check of the address saved
\* its copy after them (update, verify, reload_settings).
SettingsLast == stale \/ disk = mem

TunnelSound == TunnelAsSaved /\ TunnelIsCurrent /\ FrpcIsWatched /\ SettingsLast
===============================================================================
