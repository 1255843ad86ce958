----------------------------- MODULE LiveSessions -----------------------------
(***************************************************************************)
(* Live video sessions (edge_backend/app/services/webrtc_sessions.py):     *)
(* negotiation of a session with go2rtc, the registry and its limit, the   *)
(* reaper and what it awaits, the privacy masks, forced restarts of go2rtc *)
(* and the streams of ended sessions.                                      *)
(*                                                                         *)
(* Everything runs on one event loop: an action is the code between two    *)
(* awaits.  There is one camera.  go2rtc is up or down here; how it is     *)
(* started and stopped is Go2rtcManager.  Time is abstract: a session can  *)
(* become late and an ended one overdue at any moment.                     *)
(***************************************************************************)
EXTENDS Integers, FiniteSets

CONSTANTS
  Sessions,      \* session ids; an id is used once
  Limit,         \* max_video_sessions
  MaxChanges,    \* bound: changes of the camera and of its masks
  MaxSettings,   \* bound: changes of the remote video settings
  MaxFaults,     \* bound: go2rtc crashes and API calls that fail
  MaxEvents      \* bound: all of these together

ASSUME SessionsAssumption == IsFiniteSet(Sessions)
ASSUME LimitAssumption == Limit \in Nat \ {0}
ASSUME BoundsAssumption ==
  /\ MaxChanges \in Nat /\ MaxSettings \in Nat
  /\ MaxFaults \in Nat /\ MaxEvents \in Nat

VARIABLES
  \* the world
  camera,     \* the row in the database: "on", "off" (or deleted, re-pointed)
  masks,      \* version of the privacy masks; 0: none, the raw picture
  page,       \* the viewer's page: "none", "live", "silent", "gone"
  used,       \* what the bounds count
  \* go2rtc
  up,         \* "up", "down", "crashed" (the supervisor will relaunch it)
  streams,    \* sessions that have a stream
  consumers,  \* sessions whose WebRTC consumer is attached
  \* the registry
  pc,         \* where each session is
  picture,    \* the mask version its source was built with
  late,       \* ready sessions whose heartbeat is missing for too long
  ending,     \* _ending: streams of ended sessions
  overdue,    \* those past the grace
  restart,    \* _restart_when_idle, as a set
  \* tasks
  reaper,     \* where the reaper is
  seen,       \* the answer it waits for or works on
  looped,     \* _loop is known, as a set
  tasks,      \* scheduled and not yet begun, or waiting for go2rtc's stop
  unlisted    \* history: sessions that attached after the answer in use was given

world    == <<camera, masks, page, used>>
gateway  == <<up, streams, consumers>>
registry == <<pc, picture, late, ending, overdue, restart>>
vars == <<world, gateway, registry, reaper, seen, looped, tasks, unlisted>>

Negotiating == {"reserved", "gateway", "masks", "stream", "answer", "learn"}
Registered == {s \in Sessions : pc[s] \in Negotiating \cup {"ready"}}
Ready == {s \in Sessions : pc[s] = "ready"}
Running == up = "up"
Counted == {"changes", "settings", "faults"}
Nothing == [camera |-> "on", streams |-> {}, consumers |-> {}, settle |-> {}]

Init ==
  /\ camera = "on" /\ masks = 0
  /\ page = [s \in Sessions |-> "none"]
  /\ used = [what \in Counted |-> 0]
  /\ up = "down" /\ streams = {} /\ consumers = {}
  /\ pc = [s \in Sessions |-> "new"] /\ picture = [s \in Sessions |-> 0]
  /\ late = {} /\ ending = {} /\ overdue = {} /\ restart = {}
  /\ reaper = "off" /\ seen = Nothing /\ looped = {} /\ tasks = {}
  /\ unlisted = {}

Count(what, max) ==
  /\ used[what] < max
  /\ used["changes"] + used["settings"] + used["faults"] < MaxEvents
  /\ used' = [used EXCEPT ![what] = @ + 1]

(***************************************************************************)
(* _end for a set of sessions; EndAndClear is for the callers that clear   *)
(* _ending as well.                                                        *)
(***************************************************************************)
Closed(S) == [s \in Sessions |-> IF s \in S THEN "ended" ELSE pc[s]]
End(S) ==
  /\ pc' = Closed(S) /\ late' = late \ S
  /\ ending' = ending \cup S /\ overdue' = overdue \ S
EndAndClear(S) ==
  /\ pc' = Closed(S) /\ late' = late \ S
  /\ ending' = {} /\ overdue' = {}

\* _drop_stream for a set of streams: a deletion that fails is only logged.
DropStreams(S) ==
  \/ streams' = streams \ S /\ UNCHANGED used
  \/ /\ Count("faults", MaxFaults)
     /\ \E s \in S \cap streams : streams' = streams \ (S \ {s})

(***************************************************************************)
(* create(): the slot is reserved under the lock, before the negotiation.  *)
(* Ids are random: which of the unused ones comes next does not matter.    *)
(***************************************************************************)
Fresh == CHOOSE s \in Sessions : pc[s] = "new"
ReserveUnregistered(s) ==
  /\ pc[s] = "new" /\ s = Fresh /\ Cardinality(Ready) < Limit
  /\ pc' = [pc EXCEPT ![s] = "reserved"]
  /\ UNCHANGED <<world, gateway, picture, late, ending, overdue, restart, reaper, seen,
                 looped, tasks, unlisted>>
Reserve(s) ==
  /\ pc[s] = "new" /\ s = Fresh /\ Cardinality(Registered) < Limit
  /\ pc' = [pc EXCEPT ![s] = "reserved"]
  /\ UNCHANGED <<world, gateway, picture, late, ending, overdue, restart, reaper, seen,
                 looped, tasks, unlisted>>
Goto(s, next) ==
  /\ pc' = [pc EXCEPT ![s] = next]
  /\ UNCHANGED <<world, late, ending, overdue, restart, reaper, seen, looped, tasks>>
ReadCamera(s) ==
  /\ pc[s] = "reserved" /\ camera = "on"
  /\ Goto(s, "gateway")
  /\ UNCHANGED <<gateway, picture, unlisted>>
EnsureRunning(s) ==
  /\ pc[s] = "gateway" /\ up # "crashed"
  /\ up' = "up"
  /\ Goto(s, "masks")
  /\ UNCHANGED <<streams, consumers, picture, unlisted>>
\* privacy_masks: the masks the source is built with, in a thread.
ReadMasks(s) ==
  /\ pc[s] = "masks"
  /\ picture' = [picture EXCEPT ![s] = masks]
  /\ Goto(s, "stream")
  /\ UNCHANGED <<gateway, unlisted>>
AddStreamBlindly(s) ==
  /\ pc[s] = "stream"
  /\ streams' = streams \cup {s}
  /\ Goto(s, "answer")
  /\ UNCHANGED <<up, consumers, picture, unlisted>>
AddStream(s) ==
  /\ pc[s] = "stream" /\ Running
  /\ streams' = streams \cup {s}
  /\ Goto(s, "answer")
  /\ UNCHANGED <<up, consumers, picture, unlisted>>
\* go2rtc opens the camera and attaches the consumer, perhaps while somebody
\* holds a list of the consumers that is older.
Answer(s) ==
  /\ pc[s] = "answer" /\ s \in streams
  /\ consumers' = consumers \cup {s}
  /\ unlisted' = IF reaper \in {"answer", "orphans", "overdue"} \/ "settled" \in tasks
                 THEN unlisted \cup {s} ELSE unlisted
  /\ Goto(s, "learn")
  /\ UNCHANGED <<up, streams, picture>>
\* _learn_codec is over: the answer goes to the page, the reaper runs.
BecomeReady(s) ==
  /\ pc[s] = "learn"
  /\ pc' = [pc EXCEPT ![s] = "ready"]
  /\ page' = [page EXCEPT ![s] = "live"]
  /\ IF reaper = "off" THEN reaper' = "sleep" /\ looped' = {1}
                       ELSE UNCHANGED <<reaper, looped>>
  /\ UNCHANGED <<camera, masks, used, gateway, picture, late, ending, overdue,
                 restart, seen, tasks, unlisted>>
\* The negotiation cannot go on: the camera is off, go2rtc is not there.
Refused(s) ==
  \/ pc[s] = "reserved" /\ camera = "off"
  \/ pc[s] = "gateway" /\ up = "crashed"
  \/ pc[s] = "stream" /\ ~Running
  \/ pc[s] = "answer" /\ s \notin streams
GiveUp(s) ==
  /\ pc' = [pc EXCEPT ![s] = "failed"]
  /\ UNCHANGED <<camera, masks, page, up, consumers, picture, late, ending, overdue,
                 restart, reaper, seen, looped, tasks, unlisted>>
Refuse(s) ==
  /\ Refused(s)
  /\ streams' = streams \ {s}
  /\ GiveUp(s) /\ UNCHANGED used
\* Any await can fail, the answer of go2rtc can be lost, the request can be
\* cancelled; the deletion of the stream can fail as well.
Fail(s) ==
  /\ pc[s] \in Negotiating
  /\ Count("faults", MaxFaults)
  /\ streams' \in {streams, streams \ {s}}
  /\ GiveUp(s)
Negotiate(s) ==
  \/ ReadCamera(s) \/ EnsureRunning(s) \/ ReadMasks(s) \/ AddStream(s)
  \/ Answer(s) \/ BecomeReady(s) \/ Refuse(s)

(***************************************************************************)
(* The page: it beats, falls silent with its connection still open, or     *)
(* closes; a heartbeat answered 404 makes it close.  go2rtc then notices   *)
(* that the consumer is gone, and gives up one that never connected.       *)
(***************************************************************************)
PageOnly == UNCHANGED <<camera, masks, used, gateway, pc, picture, ending, overdue,
                        restart, reaper, seen, looped, tasks, unlisted>>
FallSilent(s) ==
  /\ page[s] = "live"
  /\ page' = [page EXCEPT ![s] = "silent"]
  /\ PageOnly /\ UNCHANGED late
Leave(s) ==
  /\ page[s] \in {"live", "silent"}
  /\ page' = [page EXCEPT ![s] = "gone"]
  /\ PageOnly /\ UNCHANGED late
Beat(s) ==
  /\ page[s] = "live" /\ s \in late
  /\ late' = late \ {s}
  /\ PageOnly /\ UNCHANGED page
BecomeLate(s) ==
  /\ s \in Ready /\ s \notin late
  /\ late' = late \cup {s}
  /\ PageOnly /\ UNCHANGED page
BecomeOverdue(s) ==
  /\ s \in ending \ overdue
  /\ overdue' = overdue \cup {s}
  /\ UNCHANGED <<world, gateway, pc, picture, late, ending, restart, reaper, seen,
                 looped, tasks, unlisted>>
Detach(s) ==
  /\ s \in consumers /\ (page[s] = "gone" \/ pc[s] = "failed")
  /\ consumers' = consumers \ {s}
  /\ UNCHANGED <<world, up, streams, registry, reaper, seen, looped, tasks, unlisted>>
\* The page's DELETE: close(), which looks at the ended streams a second later.
Close(s) ==
  /\ page[s] = "gone" /\ s \in Ready
  /\ End({s})
  /\ tasks' = tasks \cup {"settle"}
  /\ UNCHANGED <<world, gateway, picture, restart, reaper, seen, looped, unlisted>>

(***************************************************************************)
(* The environment: camera, masks, settings, go2rtc.                       *)
(***************************************************************************)
SwitchCamera ==
  /\ Count("changes", MaxChanges)
  /\ camera' = IF camera = "on" THEN "off" ELSE "on"
  /\ UNCHANGED <<masks, page, gateway, registry, reaper, seen, looped, tasks, unlisted>>
\* masks_changed schedules check_privacy() when there are sessions.
ChangeMasks ==
  /\ Count("changes", MaxChanges)
  /\ masks' = masks + 1
  /\ tasks' = IF Registered # {} /\ looped # {} THEN tasks \cup {"privacy"} ELSE tasks
  /\ UNCHANGED <<camera, page, gateway, registry, reaper, seen, looped, unlisted>>
\* settings_changed.
ChangeSettings ==
  /\ Count("settings", MaxSettings) /\ Running
  /\ restart' = {1}
  /\ tasks' = IF Registered = {} /\ looped # {} THEN tasks \cup {"idle"} ELSE tasks
  /\ UNCHANGED <<camera, masks, page, gateway, pc, picture, late, ending, overdue,
                 reaper, seen, looped, unlisted>>
\* The supervisor calls on_exit, then waits, then launches go2rtc again: the
\* event loop has run end_all by then.
Crash ==
  /\ Running /\ Count("faults", MaxFaults)
  /\ up' = "crashed" /\ streams' = {} /\ consumers' = {}
  /\ tasks' = IF looped # {} THEN tasks \cup {"endall"} ELSE tasks
  /\ UNCHANGED <<camera, masks, page, registry, reaper, seen, looped, unlisted>>
Relaunch ==
  /\ up = "crashed" /\ "endall" \notin tasks
  /\ up' = "up"
  /\ UNCHANGED <<world, streams, consumers, registry, reaper, seen, looped, tasks,
                 unlisted>>

(***************************************************************************)
(* Tasks.  go2rtc.stop() is awaited: its end is GatewayStopped.            *)
(***************************************************************************)
EndAll ==
  /\ "endall" \in tasks
  /\ EndAndClear(Ready)
  /\ tasks' = tasks \ {"endall"}
  /\ UNCHANGED <<world, gateway, picture, restart, reaper, seen, looped, unlisted>>
\* The sessions whose picture is not built with the current masks.
Stale == {s \in Ready : picture[s] # masks}
\* check_privacy, after the sessions of gone have been ended: when a session
\* is ended, all are, and go2rtc is stopped.
EndStale(gone) ==
  IF Stale \ gone # {} /\ Running THEN EndAndClear(Ready) ELSE End(gone \cup Stale)
CheckPrivacy ==
  /\ "privacy" \in tasks
  /\ EndStale({})
  /\ tasks' = (tasks \ {"privacy"}) \cup (IF Stale # {} /\ Running THEN {"stop"} ELSE {})
  /\ UNCHANGED <<world, gateway, picture, restart, reaper, seen, looped, unlisted>>
\* _apply_idle_restart, as a task of settings_changed.
ApplyIdleRestart ==
  /\ "idle" \in tasks
  /\ IF restart # {} /\ Registered = {} /\ ending = {}
       THEN restart' = {} /\ tasks' = (tasks \ {"idle"}) \cup {"stop"}
       ELSE UNCHANGED restart /\ tasks' = tasks \ {"idle"}
  /\ UNCHANGED <<world, gateway, pc, picture, late, ending, overdue, reaper, seen,
                 looped, unlisted>>
StopGateway == up' = "down" /\ streams' = {} /\ consumers' = {}
TaskStopped ==
  /\ "stop" \in tasks
  /\ StopGateway
  /\ tasks' = tasks \ {"stop"}
  /\ UNCHANGED <<world, registry, reaper, seen, looped, unlisted>>
\* _settle_ending: ask go2rtc, then drop the streams nobody watches.
SettleAsk ==
  /\ "settle" \in tasks
  /\ IF ending # {} /\ Running
       THEN /\ seen' = [seen EXCEPT !.settle = consumers \cap streams]
            /\ tasks' = (tasks \ {"settle"}) \cup {"settled"}
       ELSE /\ tasks' = tasks \ {"settle"}
            /\ UNCHANGED seen
  /\ UNCHANGED <<world, gateway, registry, reaper, looped, unlisted>>
Settle ==
  /\ "settled" \in tasks
  /\ ending' = ending \cap seen.settle /\ overdue' = overdue \cap seen.settle
  /\ DropStreams(ending \ seen.settle)
  /\ seen' = [seen EXCEPT !.settle = {}]
  /\ tasks' = tasks \ {"settled"}
  /\ UNCHANGED <<camera, masks, page, up, consumers, pc, picture, late, restart, reaper,
                 looped, unlisted>>

(***************************************************************************)
(* The reaper.  A pass is over: it goes on while there is a session or a   *)
(* leftover stream; else settings that wait are applied and it ends.       *)
(***************************************************************************)
PassOverNoSession ==
  IF Registered' # {} THEN reaper' = "sleep" /\ UNCHANGED restart
  ELSE IF restart # {} THEN reaper' = "idle" /\ restart' = {}
  ELSE reaper' = "off" /\ UNCHANGED restart
PassOver ==
  IF Registered' # {} \/ ending' # {} THEN reaper' = "sleep" /\ UNCHANGED restart
  ELSE IF restart # {} THEN reaper' = "idle" /\ restart' = {}
  ELSE reaper' = "off" /\ UNCHANGED restart
\* Without a ready session neither the camera nor the masks are looked at.
ReapTimes ==
  /\ reaper = "sleep"
  /\ End(late)
  /\ reaper' = IF Ready = late THEN "gateway" ELSE "query"
  /\ UNCHANGED <<world, gateway, picture, restart, seen, looped, tasks, unlisted>>
QueryCached ==
  /\ reaper = "query"
  /\ reaper' = "rows"
  /\ UNCHANGED <<world, gateway, registry, seen, looped, tasks, unlisted>>
QueryCamera ==
  /\ reaper = "query"
  /\ seen' = [seen EXCEPT !.camera = camera]
  /\ reaper' = "rows"
  /\ UNCHANGED <<world, gateway, registry, looped, tasks, unlisted>>
ReapRowsNoMasks ==
  /\ reaper = "rows"
  /\ End(IF seen.camera = "off" THEN Ready ELSE {})
  /\ reaper' = "gateway" /\ seen' = [seen EXCEPT !.camera = "on"]
  /\ UNCHANGED <<world, gateway, picture, restart, looped, tasks, unlisted>>
\* _check_cameras with the rows, then check_privacy.
ReapRows ==
  LET off == IF seen.camera = "off" THEN Ready ELSE {} IN
  /\ reaper = "rows"
  /\ EndStale(off)
  /\ reaper' = IF Stale \ off # {} /\ Running THEN "forced" ELSE "gateway"
  /\ seen' = [seen EXCEPT !.camera = "on"]
  /\ UNCHANGED <<world, gateway, picture, restart, looped, tasks, unlisted>>
ReapGateway ==
  /\ reaper = "gateway"
  /\ IF Running THEN reaper' = "ask" /\ UNCHANGED <<pc, late, ending, overdue, restart>>
                ELSE EndAndClear(Ready) /\ PassOver
  /\ UNCHANGED <<world, gateway, picture, seen, looped, tasks, unlisted>>
Ask ==
  /\ reaper = "ask" /\ Running
  /\ seen' = [seen EXCEPT !.streams = streams, !.consumers = consumers \cap streams]
  /\ reaper' = "answer"
  /\ UNCHANGED <<world, gateway, registry, looped, tasks, unlisted>>
AskFailsForGood ==
  /\ reaper = "ask"
  /\ \/ ~Running /\ UNCHANGED used
     \/ Count("faults", MaxFaults)
  /\ reaper' = "off"
  /\ UNCHANGED <<camera, masks, page, gateway, registry, seen, looped, tasks, unlisted>>
AskFails ==
  /\ reaper = "ask"
  /\ \/ ~Running /\ UNCHANGED used
     \/ Count("faults", MaxFaults)
  /\ UNCHANGED <<pc, ending>> /\ PassOver
  /\ UNCHANGED <<camera, masks, page, gateway, picture, late, overdue, seen, looped,
                 tasks, unlisted>>
\* Sessions without a consumer in the answer end; ended streams without one
\* are dropped (the deletion can fail); one that is overdue forces a restart.
Lost == Ready \ seen.consumers
ReapAnswer ==
  LET idle == (ending \cup Lost) \ seen.consumers IN
  /\ reaper = "answer"
  /\ pc' = Closed(Lost) /\ late' = late \ Lost
  /\ ending' = (ending \cup Lost) \ idle /\ overdue' = overdue \ idle
  /\ DropStreams(idle)
  /\ reaper' = IF overdue \cap seen.consumers # {} THEN "overdue" ELSE "orphans"
  /\ UNCHANGED <<camera, masks, page, up, consumers, picture, restart, seen, looped,
                 tasks, unlisted>>
\* Streams no session owns.
OrphansOfReady == seen.streams \ (Ready \cup ending)
Orphans == seen.streams \ (Registered \cup ending)
ReapOrphans ==
  LET kept == Orphans \cap seen.consumers IN
  /\ reaper \in {"orphans", "overdue"}
  /\ DropStreams(Orphans \ seen.consumers)
  /\ IF reaper = "overdue"
       THEN EndAndClear(Ready) /\ reaper' = "cut" /\ UNCHANGED restart
       ELSE /\ ending' = ending \cup kept
            /\ UNCHANGED <<pc, late, overdue>>
            /\ PassOver
  /\ seen' = [seen EXCEPT !.streams = {}, !.consumers = {}]
  /\ UNCHANGED <<camera, masks, page, up, consumers, picture, looped, tasks, unlisted>>
\* go2rtc.stop() has returned to the reaper.
ReaperStopped ==
  /\ reaper \in {"forced", "cut", "idle"}
  /\ StopGateway
  /\ UNCHANGED <<pc, ending>>
  /\ \/ reaper = "forced" /\ reaper' = "gateway" /\ UNCHANGED restart
     \/ reaper = "cut" /\ PassOver
     \/ reaper = "idle" /\ reaper' = "off" /\ UNCHANGED restart
  /\ UNCHANGED <<world, picture, late, overdue, seen, looped, tasks, unlisted>>

Reap ==
  \/ ReapTimes \/ QueryCamera \/ ReapRows \/ ReapGateway \/ Ask \/ AskFails
  \/ ReapAnswer \/ ReapOrphans \/ ReaperStopped
Task == EndAll \/ CheckPrivacy \/ ApplyIdleRestart \/ TaskStopped \/ SettleAsk \/ Settle
Environment == SwitchCamera \/ ChangeMasks \/ ChangeSettings \/ Crash
Viewer(s) ==
  FallSilent(s) \/ Leave(s) \/ Beat(s) \/ BecomeLate(s) \/ BecomeOverdue(s)
  \/ Detach(s) \/ Close(s)

Next ==
  \/ \E s \in Sessions : Reserve(s) \/ Negotiate(s) \/ Fail(s) \/ Viewer(s)
  \/ Reap \/ Task \/ Environment \/ Relaunch

Spec == Init /\ [][Next]_vars

(***************************************************************************)
(* The loop runs its tasks, time passes, go2rtc is relaunched and notices  *)
(* a closed connection.  Nothing is assumed of the pages.  The reaper goes *)
(* round for ever; all the others are taken a finite number of times (an   *)
(* id is used once, changes and faults are counted), so that fairness of   *)
(* their disjunction is fairness of each.                                  *)
(***************************************************************************)
Due(s) ==
  \/ Negotiate(s) \/ Detach(s) \/ BecomeOverdue(s)
  \/ page[s] # "live" /\ BecomeLate(s)
Others == Task \/ Relaunch \/ \E s \in Sessions : Due(s)
Fairness == WF_vars(Reap) /\ WF_vars(Others)
FairSpec == Spec /\ Fairness

-----------------------------------------------------------------------------
(***************************************************************************)
(* Properties.                                                             *)
(***************************************************************************)
TypeOK ==
  /\ camera \in {"on", "off"} /\ masks \in Nat
  /\ page \in [Sessions -> {"none", "live", "silent", "gone"}]
  /\ used \in [Counted -> Nat]
  /\ used["changes"] <= MaxChanges /\ masks <= used["changes"]
  /\ used["settings"] <= MaxSettings /\ used["faults"] <= MaxFaults
  /\ up \in {"up", "down", "crashed"}
  /\ streams \subseteq Sessions /\ consumers \subseteq Sessions
  /\ unlisted \subseteq Sessions
  /\ ~Running => streams = {} /\ consumers = {}
  /\ pc \in [Sessions -> Negotiating \cup {"new", "ready", "ended", "failed"}]
  /\ picture \in [Sessions -> 0 .. masks]
  /\ late \subseteq Ready
  /\ ending \subseteq Sessions /\ overdue \subseteq ending
  /\ reaper \in {"off", "sleep", "query", "rows", "gateway", "ask", "answer",
                 "orphans", "overdue", "forced", "cut", "idle"}
  /\ seen \in [camera : {"on", "off"}, streams : SUBSET Sessions,
               consumers : SUBSET Sessions, settle : SUBSET Sessions]
  /\ restart \subseteq {1} /\ looped \subseteq {1}
  /\ tasks \subseteq {"privacy", "stop", "idle", "endall", "settle", "settled"}

\* max_video_sessions bounds the sessions, those being negotiated included: the
\* count and the registration in create() stay together whatever awaits follow.
SlotsBounded == Cardinality(Registered) <= Limit

\* The streams the reaper watches for their consumer are not those of a session
\* that is being opened or watched: a session enters _ending when _end() takes
\* it out of the registry, or as an orphan (_check_go2rtc), never else.
EndingIsEnded == ending \cap Registered = {}

\* The clean-up of streams nobody owns never takes the stream of a session that
\* is being negotiated or watched, though go2rtc's list is older than the
\* registry it is compared with (_check_go2rtc).
OwnedStreamKept ==
  [][ReapOrphans /\ reaper = "orphans" =>
       \A s \in Registered : s \in streams => s \in streams']_vars

\* The slot of a viewer who left or fell silent becomes free, also when go2rtc
\* fails to answer or is restarted (heartbeat deadline, reap_once).  An id is used
\* once, so that here and below a set that becomes empty releases each of its
\* members.
Unattended == {s \in Ready : page[s] # "live"}
SlotReleased == Unattended # {} ~> Unattended = {}

\* A viewer does not keep a session with a camera that is turned off, though it
\* may be turned off at any moment of the negotiation (_check_cameras).
OffIsCut == Ready # {} /\ camera = "off" ~> Ready = {} \/ camera = "on"

\* The connection of a session that has ended is cut, whatever its page does and
\* whichever requests to go2rtc fail, unless the session is one whose consumer
\* was attached after the answer that somebody goes by (_settle_ending,
\* _force_restart): then its stream is deleted under the connection, which
\* nothing ever cuts.
LeftConnected == {s \in consumers \ unlisted : pc[s] = "ended"}
EndedIsCut == LeftConnected # {} ~> LeftConnected = {}

\* A picture built with other masks than the current ones is cut, though the
\* masks may change between their reading and the ready session, or while a
\* restart is under way (check_privacy), with the same exception.
OldPictures == {s \in consumers \ unlisted : picture[s] # masks}
OldPictureIsCut == OldPictures # {} ~> OldPictures = {}

(***************************************************************************)
(* What the documentation says and does not hold.                          *)
(***************************************************************************)
\* "The reaper runs ... while a session or a leftover stream exists".
ReaperWatches == Ready # {} => reaper # "off"
=============================================================================
