# Supermarket Edge CCTV in TLA+

The repository is an edge box for a supermarket: it reads the store's cameras and
recorder, analyses the pictures, raises alerts to staff phones and shows live
video in the browser. It is one Python process (FastAPI on one asyncio loop, one
thread per camera, worker threads for blocking calls), an SQLite database, two
child processes (go2rtc for video, frpc for remote access), a phone app and a VPS.

This directory models the parts whose correctness depends on the *order* of things:
what happens between two awaits, in another thread, after a crash, when an answer is
lost. Paths below are relative to `src/edge_backend/app/` (`services/` when no
directory is given).

- [What is here](#what-is-here)
- [The modules](#the-modules)
- [Runs, bounds, fairness](#runs)
- [What is proved](#what-is-proved)
- [What the models show besides](#what-the-models-show-besides)
- [Inventory of the system](#inventory-of-the-system)
- [Not modelled](#not-modelled)
- [Plan](#plan)

## What is here

| Module | Models | Code it stands for |
|---|---|---|
| `PushAlerts` | web-push alerts, escalation, reminders, acknowledgement | `push_alerts.py`, parts of `alert_dispatcher.py`, `restricted_area_engine.py`, `routes/push.py`, `routes/restricted_areas.py`, `web_push.py` |
| `AlertLifecycle` | the abstract specification PushAlerts implements | docstring of `push_alerts.py` |
| `AlertDispatch` | alerts through Firebase, push tokens, service account | `alert_dispatcher.py`, parts of `pairing_service.py`, `routes/pairing.py` |
| `Go2rtcManager` | start, supervision and stop of the go2rtc child | `go2rtc_manager.py` |
| `LiveSessions` | live video sessions, reaper, privacy cut | `webrtc_sessions.py` |
| `CameraPipeline` | workers, scheduler slots and holds, night watch | `pipeline_supervisor.py`, `live_analytics_engine.py`, `inference_scheduler.py`, `night_watch.py`, `camera_restarts.py`, `routes/cameras.py` |
| `PhoneAccess` | pairing code, registration, revocation | `pairing_service.py` |
| `AlertSockets` | alert websockets against sign-outs | `notification_service.py`, `routes/events.py` |
| `TokenRevocations` | signed-out sessions and accounts | `token_revocation.py`, `auth_service.py` |
| `VisitFlush` | zone visits on their way to the database | `pipeline_supervisor.py`, `live_analytics_engine.py` |
| `FleetControl` | check-ins, plans, commands, restarts | `fleet_control.py`, `entitlements.py` |
| `OfflineWatchdog` | phones left with the VPS, outages told | `offline_watchdog.py` |
| `RecorderSubstreams` | changes of a recorder's channels and their roll-back | `recorder_substreams.py`, `stream_selection.py` |
| `RestrictedArea` | announcements, the engine's snapshot, entries | `restricted_areas.py`, `restricted_area_engine.py`, `routes/restricted_areas.py` |
| `EvidenceStorage` | passes that delete old evidence | `evidence_storage.py`, parts of `pose_analytics.py`, `clip_recorder.py` |
| `IncidentClips` | incidents on their way to the database, shared clips | `pose_analytics.py`, `clip_recorder.py` |
| `Backups` | migrations, copies, retention, restore | `migrations/runner.py`, `backup_service.py`, `routes/system.py` |
| `AlertReview` | what people say about an alert | `theft_detection_service.py`, `routes/theft.py`, `routes/events.py`, `routes/restricted_areas.py`, `push_alerts.py` |
| `InsightTopics` | findings grouped into topics | `insight_topics.py`, `routes/insights.py`, `business_analysis_service.py` |
| `SupportUploads` | counted errors and problem reports on their way to support | `issue_log.py`, `support_reports.py` |
| `Tripwires` | one track against one line, crossings on their way to the table | `tripwire_engine.py` |
| `QueueAreas` | visits to a queue area | `tripwire_engine.py` |
| `RemoteTunnel` | online access: settings, supervisor, frpc | `remote_access_service.py` |
| `PushAlertsProofs`, `AlertDispatchProofs`, `VideoProofs`, `CameraPipelineProofs`, `ServicesProofs`, `StorageProofs`, `CloudProofs`, `StoreProofs` | theorems | |
| `MC...` | the small instances for TLC; `MCStore` has all modules from `PhoneAccess` on | |

Every definition that stands for code is listed with its lines in `PROJECT.json`
(`map`). Definitions such as `ScopeWithClosed` or `MayRetryAgain`, each introduced by
"For a mutant" or standing directly before the definition they change, are plausible
bugs: a property that no such bug breaks would say nothing about the code.

## The modules

### PushAlerts

An alert hook (`on_alert`) logs the alert, asks for the cooldown, fetches the roster
and the subscriptions, pushes to every phone of the tier at once and only then writes
the row `push_alerts` that the escalation worker looks at. The worker's `tick()` runs
under `_tick_lock`, from a loop for all open rows and from every acknowledgement
request for one row: it *reads* the rows and decides (`TickRead`), *commits* what it
decided (`TickCommit`: closed, escalated, reminder counted) and *then* sends the
follow-ups (`StartFollowUp`, `SendFollowUp`, `EndFollowUp`), several at once.

| State | Code |
|---|---|
| `task` | one `on_alert` call per alert: where it is, the roster it read, the phones that have not answered |
| `row` | the row of `push_alerts`: created, escalate_at, escalated_at, sent_to, closed_at, repeat count |
| `acked`, `logged` | the acknowledgement in the history row or the incident; whether the history row was written |
| `tick`, `lock` | one `tick()` per caller and `_tick_lock` |
| `req` | acknowledgement requests from phone buttons and the dashboard |
| `tier`, `subs`, `lastPush` | roster, subscriptions, `_last_push` |
| `second` | the phones to which a message is being posted for the second time |
| `shown`, `alarms`, `resent` | history: what each phone displays, how often it was sent an alert, how often such a message was posted again |

A POST has five outcomes (`Outcomes`): taken, subscription gone, refused for good, not
taken (a transport error, 429 or 5xx) and taken with a lost answer. `web_push.send`
posts a message of the last two kinds once more (`TryAgain`), so a phone that took the
first may sound twice for one message. `Fault` also stands for a failing database write, a failing follow-up
and the 15 s limit that cancels a restricted-area dispatch in the middle. `Crash` keeps
what is in the database and loses the rest (stop() and a restart look the same: the
loop is cancelled where it stands). Time is a small clock; `Delay`, `Cooldown`,
`NoticeWithin`, `OpenFor` are the code's time limits in its units, chosen so that their
order is that of the code (reminder and escalation before the notice limit, before the
end of the follow-up).

The kinds of alert (`Kinds`) stand for the outcomes of `qualifies`, `Escalates`,
`Repeats`, `ToEveryone`, `HasDeadline`: what a kind is decides everything the module
does with an alert.

### AlertDispatch

One `_push` task per alert, one `_deliver` per alert and phone: cooldown, reading the
paired phones, `FcmV1Provider.send` with its retry after 5xx and transport errors and
its one refresh after 401, the OAuth token minted under `_token_lock`, the clearing of a
token FCM calls unregistered, the result on the phone's row. Against it: phones that get
new tokens (`Rotate`), report them late (`PutRead`, `PutWrite`: read-check-write across
an await), are uninstalled or revoked; an administrator who replaces or deletes the
service account (`SaveAccount`, then `Invalidate`); the status page, whose thread reads
the account and stores it a moment later (`StatusRead`, `StatusWrite`).

A push token is the number of its registration, a bearer token is the account it was
minted from: this is all the properties tell apart. FCM's answer is any that is
possible (`Answers`): a live token with the right project may be accepted, accepted with
a lost answer, or meet any error; a dead one is never accepted.

### Go2rtcManager

`ensure_running()` (`Enter`, then `StartChild`, `StartNothing`, `StartFails`,
`StartRaises` in a thread, then the polling of the API), the supervisor thread of each
start (`SupRead`, `SupWait`, `SupBackoff`, `SupRelaunch`...) and `stop()`, which also is
what a failed start calls (`StopSupervisor`/`StopCall`, `Kill`, `Join`, `Forget`). `_lock`
protects single assignments, so these operations interleave at every step. Children and
threads are numbered as they are made; a stop event belongs to its thread. A launch may find no program, the port taken or a configuration
that cannot be written (`Unprepared`). `Bind` and
`ChildEnds` are the child's own steps. `overlapped` records the children launched while a
`stop()` was under way: the properties are exact about them.

### LiveSessions

`create()` reserves a slot, then negotiates across five awaits (camera row, go2rtc,
masks in a thread, stream, SDP answer); heartbeats and `close()`; the reaper, whose pass
is `ReapTimes`, `QueryCamera`/`ReapRows`, `ReapGateway`, `Ask`/`ReapAnswer`/`ReapOrphans`,
with what it awaited kept in `seen` while the rest of the box moves on; the mask check
`CheckPrivacy`; forced restarts (`EndAndClear`, `ReaperStopped`, `TaskStopped`) and idle
ones; the end of go2rtc reported from its supervisor's thread (`Crash`, `EndAll`).
`streams` and `consumers` are what go2rtc has, `pc` is the registry, `ending` the streams
of ended sessions that are still to go. There is one camera: sessions of different
cameras share only the slots, go2rtc and the reaper, which are all here. Pages do what
they like: silent, gone, or connected after their session has ended. A deletion at go2rtc may
fail (`DropStreams`), which the code logs; one that succeeds takes the stream off
go2rtc's list and cuts nobody. `unlisted` records the sessions that attached while
somebody held an older answer of go2rtc. How long things take
is abstract: a session may become late, and an ended one overdue, at any time.

`LiveSessions` uses go2rtc as a component that is up, down, or crashed and about to be
relaunched; `Go2rtcManager` shows when that picture is right (`Recovers`, `NoChildLost`).

### AlertLifecycle

What an alert promises, with nothing of how it is kept: it is recorded once, escalated at
most once and repeated a bounded number of times while it is open, closed once and for
good, and after an acknowledgement only phones that had got it are told. `PushAlerts`
ends with the instance: an alert's stage is `row[a]` and `closedAt`, `reached` is `sentTo`, `told`
the phones that show "handled". Ticks, locks, requests, sends and crashes are steps or
stutters of it; a tick that commits decides on many alerts at once, so the abstract step
is a conjunction over alerts.

### CameraPipeline

Three components that meet on a camera's name. `reconcile_cameras()` reads the rows
across an await and applies them under `_reconcile_lock` (`Call`); each worker is a
thread (`ThreadStep`) that opens its stream, asks the scheduler to admit a frame,
analyses it and gives the slot back, asks `_is_current()` before it drops the camera's
state, and steps night watch, which holds and releases the camera. A replaced thread
goes on until it looks at `_stop`: scheduler and night watch are keyed by camera, so old
and new share an entry, which `forget()` drops under both. `robbed` and `wiped` record
what the code does not protect: frames whose slot was struck off while they were being
analysed, cameras whose state was wiped while two threads worked on them. Properties are
exact about these.

### The services of MCStore

They share no state, so one run takes them one at a time: the initial state chooses
which one moves (`part`), and the variables `v1` to `v16` are the state of that one. The
limits of the parts are CONSTANTS of MCStore, with their values in `Store.cfg`. What each action is between is in the module's heading.

- `PhoneAccess`: requests of one phone, by code or password (`Pair`: look, claim the
  code, find the active row, commit, drop the mark), revocation (`RevokeRow`, then
  `MarkRevoked`), threads in `is_active()` (`Verify`: ask, read, store). `cache` and
  `marked` are the registry's two memories; `reopened` are rows whose mark a
  registration has dropped.
- `AlertSockets`: two walks over the connections, a broadcast and a sign-out's prune,
  which give way at every socket (`Cut`, `Send`), while sockets are verified and
  connected. `late` are sockets that were being accepted when their credential ended.
- `TokenRevocations`: memory and table of ended sessions and cut-offs, sign-outs whose
  writes come after the answer of the memory, refreshes that read before and issue after,
  sign-ins in the same millisecond, a table that cannot be read after a restart.
- `VisitFlush`: facts in a buffer, in the batches of three possible flushes (loop,
  record-now, stop) and in the list kept for a retry; start and stop of the supervisor.
- `FleetControl`: one check-in at a time on a copy of the stored row: plan, commands,
  results; the restart's debounce task; crashes between any two steps; rows that cannot
  be read (`blind`).
- `OfflineWatchdog`: the loop's upload and the settings page's, which may overtake one
  another; the outage the reply reports, told to the phones and then acknowledged.
- `RecorderSubstreams`: one run over the channels: saved, written, re-read, verified,
  undone; a recorder that refuses, keeps half, does not answer or has a new password.
  `rejected` counts the requests refused for it and, apart, the openings of the stream by
  the check, which takes a refusal for a picture that is not there yet (`OpenRejected`).
- `RestrictedArea`: announcements committed and then shown to the engine by a refresh
  (`Compile`, `Swap`), which requests and the loop run; the engine's frames of one track;
  `verdict` is what the last frame did, judged against the stored announcements.
- `EvidenceStorage`: threads that save, note and link a file against passes that scan,
  delete and mark rows, with the lock, the mark left for a further pass (`rerun`) and
  the running count that a pass overwrites.
- `IncidentClips`: the queue, its flushes with retries, and the threads that record a
  clip, which later incidents of the camera may share through `_clips_active`.
- `Backups`: server and tool contend for the migration lock; copies before non-additive
  migrations; nightly, manual and safety copies; a retention pass over a list read at its
  start; a restore that replaces the database under whoever runs.
- `AlertReview`: each request reads a row, gives way, and writes the columns its copy
  changed; a session's copy stays until it is refreshed.
- `InsightTopics`: the daily grouping and the operators' status, split and merge
  requests, which read their topic before they hold the lock.
- `SupportUploads`: captures, evictions, pruning, flushes, the uploader's phases and the
  statuses a check-in brings back. It is instanced twice, with errors and with reports.
- `Tripwires`: `Stepped` is step_crossing with its branches in the code's order, over a
  geometry that keeps only what the branches tell apart: the side, the band, and whether
  a path goes through the line or round its end. Crossings wait in a buffer that flushes
  drain and put back.
- `QueueAreas`: step_queue on one track, with seconds that bring no frame at all.
- `RemoteTunnel`: a save or a change of plan calls apply(), which decides, looks, stops
  (set the event, end the child, wait for the thread, forget it) and starts, the lock
  released between; the supervisor prepares, opens, registers, checks the event, reads,
  reaps and waits. `frpc` has the version of the settings a child was started with.
  verify() notes its copy of the settings and saves it in a later step.

## Runs

Twelve runs; nine pass and three find what a document says and the code does not do.
Bounds are constants of the modules (`Max...`), so they are visible in each `.cfg`;
`MCStore` gives those of its services names of their own.

| Run | Question | Bounds, and why they suffice |
|---|---|---|
| `push_escalation` | Can an alert sound too often, be reminded of after it is handled, be forgotten in the list of phones? Does the row follow its life cycle? | one alert of the kind that escalates and repeats; a first-priority and a backup phone; one request beside the loop (two tickers contend for the lock); one crash, one roster edit, one fault, two of them in all; four clock values: enough for escalation, reminder, notice and expiry to follow each other |
| `push_live` | Do the backup phones hear, is an acknowledgement told to the phones? | two kinds of alert (for first-priority staff; for everybody, whose dispatch may be cancelled half-way), one of them raised; three clock values; no crash (see `push_escalation_lost`), one fault |
| `dispatch_one_phone` | What does a delivery show, report and delete? | one alert, one phone with two registrations, two accounts; a retry needs no second alert, and a race of tokens needs two of them |
| `dispatch_live` | Is only one OAuth request under way; does every push end? | two alerts of one camera to one phone: two deliveries contend for the lock and for the cooldown |
| `gateway` | Can a child or a supervisor escape the manager? Do stop and start return, does a crash heal? | one viewer's start (repeatable), one stop (repeatable), two children, one crash |
| `sessions_safe` | Are slots overrun, are streams of open sessions deleted? | two sessions, one slot, one change of camera or masks, one of the settings, one crash, failed call or failed deletion |
| `sessions_live` | Are slots freed and old pictures cut? | two sessions for one slot, so that a list the reaper holds can be older than the second; one change of camera or masks, or one fault (`MaxEvents` bounds them together) |
| `cameras` | Do slots leak, does the engine run what the rows say, does a hold end? | one camera (cameras share only the slots, which the threads of one contend for), the loop and a request, one slot, one edit or dead thread (so a worker and its successor), one lost stream, reopen or failure of night watch |
| `store` | Does each of the seventeen smaller services keep its promise? | see below |
| `push_escalation_lost` | violation | a night-guard alert, which no reminder repeats; a crash; five clock values, so that the row expires within them |
| `gateway_left_relaunched` | violation | two children, one crash |
| `sessions_unwatched` | violation | two sessions, one slot, one settings change |

The parts of `store` and what their bounds allow:

| Part | Bounds |
|---|---|
| `PhoneAccess` | two requests for one code, one checking thread, two rows (so one is reused or made anew), one restart or unreadable database |
| `AlertSockets` | three sockets: one sent to, one being closed, one connecting |
| `TokenRevocations` | two sessions of one account, three milliseconds (before, at and after a cut-off), one failure |
| `VisitFlush` | two visits, a retry list of three facts (it overflows), two failures |
| `FleetControl` | a restart and a command answered at once, two plans, one crash or unreadable row |
| `OfflineWatchdog` | two edits, two outages, one failure |
| `RecorderSubstreams` | two channels, the code's four attempts at the picture, two runs (a change and its restore), three mishaps |
| `RestrictedArea` | one person, two announcements, four moments, a grace of one after the end and none before the start |
| `EvidenceStorage` | two incidents with a still and a clip each, room for one and a half of them, the loop and a background thread, one failure |
| `IncidentClips` | four incidents: a clip of the second covers the third, one of the third the fourth, so an entry can be replaced and its successor popped; a queue of two, two tries, two failures |
| `Backups` | two migrations of which the second is not additive, budgets of one and four, three copies, one failure |
| `AlertReview` | three requests of any kinds on one alert |
| `InsightTopics` | three findings, the third alike the second's topic and any that was split out; two requests, two days, two analyses |
| `SupportUploads` | two fingerprints for one row and three occurrences; two reports and two statuses; one failure each |
| `Tripwires` | ten frames, two to confirm, six to settle (a bounce, a walk round the end and a crossing fit in), two flushes, one kept crossing, one failure |
| `QueueAreas` | eight seconds, a grace of two |
| `RemoteTunnel` | instanced twice: two calls that may cross with one failure or restart, and one beside a check of the address with two; three supervisors (each save may need a new one), two saves or changes of plan |

Deadlock checking is off everywhere: every system here may come to rest (all alerts
handled, no viewer), and the bounds end what the real one would go on doing.
No symmetry set is used; in `LiveSessions` the ids, which are random, are taken in one
order (`Fresh`).

The properties, by what they would catch:

- *Who is alarmed and how often*: `AlarmsBounded`, `NoFollowUpOnClosed`, `Lifecycle`,
  `EveryoneIsListed` (escalation and acknowledgement overlap, a crash between commit and
  send); `ShownAtMostTwice`, `ReportIsTrue`, `RevokedHearsNothing`, `LiveTokenKept` (lost
  answers, 401s, late registrations); `AreaSound` (an alarm on announced people, or none
  on others).
- *Nobody waits for ever*: `BackupsHear`, `HandledIsTold`, `PushEnds`, `CallsReturn`,
  `Recovers`, `SlotReleased`, `OffIsCut`, `EndedIsCut`, `OldPictureIsCut`, `HoldEnds`.
- *Resources*: `OneMint`, `NoChildLost`, `OneSupervisor`, `SlotsBounded`,
  `EndingIsEnded`, `OwnedStreamKept`, `SlotsSound`, `WorkersMatch`.
- *Who is let in*: `AccessSound` (a code used twice, a revoked phone let in),
  `SignOutSound` (a signed-out session that works or hears).
- *Records*: `RecordsAreTrue` (visits, reviews, topics, crossings, queue visits),
  `EvidenceSound` (links to evidence, clips), `BackupsSound` (upgrades, copies),
  `ChangeSound` (a recorder's settings), `CloudSound` (commands, outages, support,
  the tunnel).

A property of `store` is the conjunction of those of its parts, each of which is a
named, commented definition in the part's module. Where the code itself lets go of a promise under a
particular interleaving, the property says so by a history variable (`late`, `reopened`,
`robbed`, `overlapped`, `uncounted`, ...): it is exact about what remains true, and the
case is listed under [What the models show besides](#what-the-models-show-besides).

### Fairness

Fair are the steps the program itself takes: coroutines that can run (asyncio runs every
ready callback), threads, the completion of requests that have a time limit, the relaunch
of a child. Strong fairness is assumed in two places only, both an `asyncio.Lock`, whose
waiters are woken in order of arrival: the entry to `tick()` and the OAuth token's lock.
In `LiveSessions` the
reaper is fair and so are all other tasks together: each of those is taken finitely often
(an id is used once, changes and failures are counted), so that none waits for ever. Not fair are people, pages, phones, administrators, failures, crashes and deadlines:
whatever a liveness property needs from them stands in its left side (`page[s] # "live"`)
or its escapes (`hours = "closed"`). `BecomeLate` is fair only for a page that no longer sends
heartbeats, `Bind` because a live go2rtc opens its port when it is free. The clock of
PushAlerts is fair up to its bound. In `CameraPipeline` the loop, whoever holds the
reconcile lock and every thread are fair; streams that come and go are not. The services
of `MCStore` are checked for safety only: each ends in a state of rest that a person, the
VPS or a restart moves on.

## What is proved

TLAPS proves, for every set of alerts, phones, requests and sessions and all bounds:

| Theorem | Says |
|---|---|
| `PushAlertsProofs!TypeCorrect`, `NoFollowUpOnClosedHolds`, `ClosedIsFinalHolds`, `HandledStaysHolds` | a row counts no more reminders than allowed, nothing is prepared for a closed alert, a closed row is final, a phone that shows "handled" is never alarmed again |
| `PushAlertsProofs!EveryoneIsListedHolds`, `AlarmsBoundedHolds` | every phone that was made to sound, or is about to be, is in the row; none is sent it more often than the first push, the escalation and the counted reminders give it, and each message is posted twice at most, the second time only for a failure |
| `PushAlertsProofs!LifecycleHolds` | PushAlerts implements AlertLifecycle |
| `AlertDispatchProofs!TypeCorrect`, `ShownAtMostTwiceHolds`, `RevokedHearsNothingHolds`, `OneMintHolds`, `LiveTokenKeptHolds`, `ReportIsTrueHolds` | at most three tries and two showings, a phone revoked before an alert is silent, one OAuth request at a time, the clean-up deletes no live token, the counts a dispatch reports are those of what happened |
| `VideoProofs!TypeCorrect`, `SlotsBoundedHolds`, `EndingIsEndedHolds`, `OwnedStreamKeptHolds` | slots are never overrun, leftover streams are never those of an open session |
| `VideoProofs!GatewayTypeCorrect`, `NoChildLostHolds`, `OneSupervisorHolds` | every go2rtc that runs and every supervisor at work is the manager's, but for those that come into being while a stop() is at work |
| `CameraPipelineProofs!TypeCorrect`, `SlotsSoundHolds`, `WorkersMatchHolds` | the scheduler's slots are those of the frames being analysed (but for the ones struck off), and every camera has the worker of its last settings once a reconcile has ended |
| `StoreProofs!AccessSoundHolds` | a code lets one phone in, a phone whose revocation was confirmed stays out |
| `StoreProofs!SignOutSoundHolds` | an answered sign-out leaves no socket open and no alert on its way, and no session that was signed out is accepted again, after a restart too |
| `StoreProofs!ChangeSoundHolds` | what a channel had before its last change is on disk, what a run says of a channel is so, in a run one request at most is rejected, beside the openings of one check |
| `StoreProofs!AreaSoundHolds` | no alarm on somebody whom an answered announcement covers, and nobody stays in a guarded area without one |
| `StoreProofs!RecordsAreTrueHolds` | what the tables say of visits, reviews, topics, lines and queue areas is what happened (the five theorems of `ServicesProofs` below, of the store) |
| `StoreProofs!EvidenceSoundHolds`, `BackupsSoundHolds` | those of `StorageProofs` below, of the store |
| `StoreProofs!TypeOKHolds` | every variable of the smaller services stays in its domain |
| `StoreProofs!CloudSoundHolds` | those of `CloudProofs` below, of the store |
| `ServicesProofs!VisitsHold` | a zone visit's row says what the camera saw unless a fact of it was dropped for a named reason; after a start nobody of an earlier run is in a zone |
| `ServicesProofs!CrossingsHold` | a line's ins minus outs are where its track has gone, and each crossing is stored once |
| `ServicesProofs!QueueVisitsHold` | a queue area's visits are the stays of the frames, cut where the track was away for longer than the grace and nowhere else |
| `ServicesProofs!ReviewHolds` | an outcome stays until somebody gives another, whoever sends staff is named with his own report, the first acknowledgement is kept, unless the requests crossed |
| `ServicesProofs!TopicsHold` | every finding is in one live topic, a topic has all that was merged into it, what was split out is not taken back, a problem that comes back opens its topic again |
| `StorageProofs!EvidenceHolds` | a row links files that are there or were never reported gone, an incident's files are deleted together, the count is not behind the disk, a box over its limit has a pass or a mark |
| `StorageProofs!ClipsHold` | an incident is stored, waiting or dropped for a named reason, and a shared clip covers every incident that is linked to it |
| `StorageProofs!BackupsHold` | the server runs on a database of its release, migrations keep their order, a larger one has its copy, the safety copy of a restore and the newest of each kind stay |
| `CloudProofs!CommandsHold`, `WatchdogHolds`, `UploadsHold`, `TunnelHolds` | a restart command restarts once, a noted command is answered or queued, the plan never goes back; an outage the VPS forgets was told; support has what is counted as sent to it; the tunnel is up exactly when the settings saved last say so |

Assumptions: bounds, limits and times are naturals, `Limit` is positive, the sets of
sessions and of cameras are finite, the roster assigns a tier, `Bypass` is a set of
alerts, `Confirm` is positive (the code takes the maximum with 1), starts and stops of
go2rtc are different calls (`CallersAssumption`), no restart command is called "none"
or "plan" (`FleetNames`): the model uses these for the empty note and the plan, and a run
of the box starts one tunnel supervisor at least (`TunnelBounds`); the list of facts to
try again, the tries of an incident and the copies kept of a kind are one at least
(`VisitBounds`, `ClipBounds`, `BackupBounds`: the code takes `max(1, ...)`,
`backup_service.py:185`, and 20000 and 30 for the others), budgets and limits are naturals,
and the names the models give to nobody, to the loop, to a topic that was split out and
to one that is gone are no request's, thread's or finding's (`ReviewBounds`,
`EvidenceBounds`, `TopicBounds`). For `TypeOKHolds` the bounds on steps and troubles are
naturals too, the requests to pair a phone are finitely many and there is room for one row,
the sessions' clock has a first moment, and a crossing waits before it settles
(`PhoneBounds`, `TokenBounds`, `LineLimits` and the other `Limits`). Nothing else. `StoreAssumption` is that of MCStore, which
TLC evaluates. In the store the issue log and
the reports are instanced apart, as are calls that cross and a call beside a check;
`UploadsHold` and `TunnelHolds` are about all of them at once.

*PushAlerts.* `NoFollowUpOnClosed` is not inductive: a tick decides on rows it has read
and sends after it has committed. `IInv` adds that the ticker with work is the one that
holds the lock (`LockHeld`), that what it planned is still true of the rows because
nobody else writes recorded rows (`PlanIsCurrent`), that what it is sending agrees with
them (`JobsAgree`), that an alert still being pushed has no row (`NotYetRecorded`) and
that only phones of closed rows display "handled" (`ToldOnlyIfClosed`). One lemma per
action shows each preserved; the action properties follow from `IInv` and one step.

*AlertLifecycle.* Initial states map to initial states; the lemmas have one action of
PushAlerts each and show that under `IInv` it maps, for each alert, to one of the
abstract steps or to rest. The invariant is needed where a step relies on what was
decided earlier: a commit escalates only what is still open and not yet escalated, a
"handled" goes only to phones the row names.

*AlertDispatch.* `ShownAtMostTwice` needs to know, for each place in `send()`, how many
tries have been made and how many of them may have shown (`Counted`): only a lost answer
to the first try is followed by another that can show, and the third request, after a
401, is one FCM did not take. `LiveTokenKept` needs that a token FCM refused as
unregistered is dead for good (`DeadIsDead`, `TokensIssued`); `OneMint` that whoever mints
has the lock.

*LiveSessions.* `SlotsBounded` is inductive with the type invariant: one lemma per group
of actions says that only `Reserve` adds to the registry, under the count
(`OnlyLeaves`). `EndingIsEnded` needs `Opened`: what go2rtc has, or had when the reaper
asked, belongs to sessions that were once begun, so an orphan in an old answer is never a
session that registers later under the same id.

*Go2rtcManager.* `NoChildLost` needs that the pid file names the manager's child for as
long as it lives (`PidNamed`), so that a launch kills what it replaces, and that what a
stop() past its kill will forget is dead or was launched beside it (`KilledIsDead`).
`OneSupervisor` needs the same of the supervisor (`ForgottenIsStopped`): whoever stops
sets the event first, and a start launches another only when the manager's has ended.

*PushAlerts, the counts.* `KInv` carries `IInv` on: a tick has one job for an alert at a
time (`JobsOnce`), so that every alarm is paid for by the first push, by the escalation
the row has noted or by a reminder it has counted (`Counting`), and phones that have
been reached are in the row, or in the list of whoever is about to write it (`Listing`).
`Resending` counts what is posted again: a message that waits for its first answer has its
second post still to come, and an alert has one sender at a time (`OneSender`).

*AlertDispatch, the report.* `Reported` says of each place in `send()` what its status may
be when the alert was, may have been, or was not shown; only the step that reads FCM's
answer changes both.

*CameraPipeline.* `IInv` has two halves. `Supervised`: whoever is in a reconcile holds the
lock, what it has read is the row unless the row was edited since, every thread but the
camera's last has been told to stop, and the workers made are paid for by edits
(`Budget`). `Booked`: the scheduler's total is the sum over the cameras and never more
than the limit, each camera has no more slots than frames that are being analysed, and
frames beyond the total are those whose slot was struck off. Sums over cameras are
counted as sets of pairs (`Pairs`), which the library's facts on cardinality know.

*PhoneAccess.* `CodeInv` says that whoever is let in uses the code up. `RefusedInv` says
of each confirmed revocation that the row is marked, or that neither the registry's
memory, past its age too, nor a thread about to store its answer takes it for active: a
check that read the row before the revocation can still be on its way.

*AlertSockets.* `SignOutSees` and `BroadcastSees` say that an open socket which should not
be is still before the walk that will find it, since each walk goes on over a list it
took at its start; `Accepting` that a socket on its way in was verified or is `late`.

*TokenRevocations.* Memory and table each know what the other may not: after a restart only
the table counts, before the write only the memory (`SignOutsKept`, `CutOffs`). A session
that a cut-off ends has no token younger than that and no refresh on its way to one
(`CutSessions`), and the caller's own new session is younger (`OwnIsYounger`).

*FleetControl.* The box has two memories of a command: the row and the copy the check-in
works on. `CopyAhead` says that the copy is never behind the row, `RestartsNoted` that a
restart that was set off is noted in the row already, so that a crash after it finds it.

*OfflineWatchdog.* Whoever uploads carries the list and the acknowledgement that it had when
it began. `AcksTold` says that what is noted or carried as an acknowledgement was told;
`UploadCurrent` that the loop's upload has the phones as they are for as long as nobody
has poked the loop, because an edit is stored before the poke. `VpsCurrent` also remembers
the page's upload that came late: until then, the page's next has the list as it is.

*RemoteTunnel.* apply() releases the lock between its steps, so each relies on what an
earlier one found. `AsFound` says for each place in a call what it still knows of the
thread, the event and the settings while no other call crosses; `RestartsSoon` that an
frpc with older settings is one that the call at work is going to stop. `ChildWatched`
and `SettingsLast` hold whatever crosses: only the supervisor that opened a child reaps it.

*SupportUploads.* Memory, the flush on its way to the file, the upload on its way to the
VPS and the file each have their own copy of a row. `RowsGood` and `ItemsGood` say of
every copy that what it counts as sent the VPS had, and of an upload that the row in memory
goes on from it or began again, which `mixed` notes. `EvictionsKnown` carries the number of
evictions through flush and upload: memory forgets only those that an answer has
confirmed. `FollowsSoon` says what the file will be when the flush is over (`RowAfter`), which is where a row that is
neither dirty nor deleted has to agree. `StatusesKnown` says that a check-in brings all
that the cursor will pass (`Covered`), so that a report is never left with an older status.

*Tripwires.* `Balanced` is inductive with the types and with `NoSideYet` (the state has a
side exactly when the history has a first one). One lemma per branch of step_crossing
says what it does to side and crossing; a crossing that settles only moves from the
state to the count, a bounce takes away the crossing it undoes, and a way round the end
is counted as such. `RecordedOnce` follows from `PlaceInv`: a settled crossing is in
exactly one of the buffer, one flush's batch, the table and what was dropped, and no list
has it twice. Lemmas on joined and cut lists (`JoinedIs`) carry it over the flushes.

*RestrictedArea.* The engine judges by a list that is older than the table. `EngineKnows`
says that its list, and the one a refresh is about to show it, have every announcement
that was answered as it is, or that it ended longer ago than anybody looks back
(`UpToDate`); `TrackTrue` that a person who is passed over in silence was alarmed on.

*RecorderSubstreams.* `Underway` cuts the channels in three by the run's place: those behind
are final and reported as they are (`Closed`), those ahead untouched, and the one at hand
has its settings of before on disk from the moment it may have been written. `SignIns` says
that a run which goes on had no request rejected, and that if openings of the stream were,
its next request is the one that ends it.

*VisitFlush.* A fact is in the buffer, in a flush's batch, in the list to try again, or
written. `WrittenInv` says that one that is in none of the lists (`InPlay`) has been
written unless it was dropped (`lost`); that a row is closed as it should be needs that no list
has a close before its open (`SortedInv`) and that what the buffer opens nobody else has
begun to close (`VisitBufferInv`), because lists are put back in front of others.

*QueueAreas.* The history is the set of seconds in which the track was inside (`within`)
and outside. `StaysInv` says that stays are apart, have every second inside, and that
between two of them, or after the last, more than the grace has passed; `PausesInv` that
within a stay it has not. `OpenInv` puts the open stay last.

*AlertReview.* A request's copy of the row may be old in any column, and the write takes
the columns the copy changed (`Columns`). `NamedInv` says that only who has sent staff is
named, in the row and in every copy, `SendInv` that a sender alone finds his own details
until his report; `FreshInv` and `AskedInv` say what requests at work know of the history's row.

*InsightTopics.* `CopyInv` says what the copy a request read before it waited for the lock
still has to do with its topic: the topic is that one or gone, and has what the copy had
taken in, unless two merges that crossed lost it (`loose`). `UniqueInv` (no two topics take
the same finding) and `OwesInv` (a topic takes what was merged into it) carry the rest.

*IncidentClips.* `EntryInv` says whose the camera's entry is: of a clip being recorded, and a
clip that is recorded without its entry is `mixed`. `OnceInv` says that an incident starts
one clip or joins one, `JoinedInv` where an incident that joined is until it is linked. An
earlier version of the model marked clips `mixed` only when an entry was replaced; the
step that pops somebody else's entry left its owner unmarked, and `EntryInv` was
not inductive. With four incidents instead of three TLC shows the same: the clip that lost
its entry loses its sharers too. `mixed` now has both.

*EvidenceStorage.* `LockInv` gives the time between scan and end to one pass. `PassInv` says
that what it has decided to delete is enough (`ExcessIsEnough`, over any number of files
with any times of writing), and takes a clip before its still; with `CountHolds` and `OverInv`, what a
box over its limit waits for follows: a pass on its way, or the mark of one that
finished before it.

*Backups.* `MigrateInv` says that who migrates has the lock and has still to apply what
the database lacks, and that the database and every copy are a prefix of the
migrations unless a restore came between. `UpgradeInv` and `SafetyInv` follow the copies
that must stay, by their number, through the retention pass (`Lasting`) that may have read its list
before they were made; `SweepInv` says that the list only has what is there and that
of each kind enough newer ones stay.

*StoreProofs.* The modules above are proved about with variables and constants of their
own names, in `ServicesProofs`, `StorageProofs` and `CloudProofs`, as facts on initial
states, steps and safety. StoreProofs instantiates these with `v1` to `v16` (`CloudProofs` twice: the store
has two instances of the uploads and of the tunnel), shows that the choice of a part
is for good and that the part's steps are the module's (`PartMoves`), and so has the
theorems for the runs' specification.

*TypeOK of the store.* Every part's types, under `TypesInv`: the type lemmas of each module
(`PhoneTypesNext`, ..., `UploadTypesNext`) need its invariant where a bound follows from it,
as that a row has no more occurrences than were captured, and the bounds of its constants.
They showed one type to be wrong: the channels in a row without an answer were said to be 2
at most, which holds with the two channels of the run and not with three, since a run that
restores does not stop at the second (`recorder_substreams.py:682` has the stop, `run_restore` has
none); they are fewer than the place of the channel at hand. `LineRepeat` must be positive: with a repeat of 0 the code settles a
crossing at once (`tripwire_engine.py:236`), which the model leaves out.

No safety property of a run is only model-checked. All liveness
properties stay with TLC, since TLAPS here has no fairness or ENABLED: `BackupsHear`, `HandledIsTold`, `PushEnds`, `CallsReturn`,
`Recovers`, `SlotReleased`, `OffIsCut`, `EndedIsCut`, `OldPictureIsCut`, `HoldEnds`.

## What the models show besides

The three violation runs (`findings` in `PROJECT.json`):

1. `push_escalation_lost`: escalations are committed before they are sent; a restart in
   between leaves the backup phones silent (`push_alerts.py:590`). The run has an alert
   that no reminder repeats (a night-guard alert): its row stays open until it expires and
   nothing is sent for it. A critical alert has a reminder, which goes to the backup phones
   one delay later.
2. `gateway_left_relaunched`: the supervisor asks for the stop event, launches a new child,
   and a stop() that came in between kills the old one, waits for the thread and forgets
   the new child (`go2rtc_manager.py:569`).
3. `sessions_unwatched`: the reaper, with nothing left to watch, awaits an idle restart and
   then ends without looking again; a session that became ready meanwhile has no reaper
   and keeps its slot (`webrtc_sessions.py:595`).

While these were modelled, TLC also showed the following behaviours. They can be
reproduced by checking the formula given as an invariant (or property) of the module; no
run keeps them, and no property of a passing run depends on their absence.

- `PushAlerts`: two alerts of one camera and type that are both checked before either has
  stored its time are both pushed (`push_alerts.py:361` and `:378`); the same in
  `AlertDispatch` (`alert_dispatcher.py:602` and `:633`).
- `PushAlerts`: the acknowledge button of a phone that answered early is refused while the
  slowest phone has not answered, because the row is written last:
  `\A a \in Alerts, p \in Phones : Button(a, p) => Recorded(a)`.
- `PushAlerts`: an acknowledgement from a phone, of an alert without incident whose history
  row could not be written, reports success and stores nothing:
  `\A r \in Requests : req[r].pc = "tick" => req[r].alert \in acked`.
- `AlertDispatch`: an OAuth request for the old service account that ends after an upload
  caches its token: `upload = "idle" /\ cached # 0 => cached = account`.
- `AlertDispatch`: the status page's thread can put a removed account back:
  `upload = "idle" /\ account = 0 => ServiceAccount = 0`.
- `Go2rtcManager`: a start that overlaps a stop leaves a child without a supervisor the
  manager knows of (`Forget` clears what the start has just set).
- `LiveSessions`: the reaper ends a session that became ready after go2rtc wrote the list
  it is working on, and deletes its stream and forgets it although its consumer has attached meanwhile
  (`webrtc_sessions.py:697-722`, `:744-747`; `unlisted`). A page that goes silent then stays
  connected for ever: go2rtc does not cut a consumer whose stream is deleted, and no
  restart is forced, against the docstring (14-19, "if a consumer is still attached
  `FORCE_GRACE_S` after its session ended, go2rtc is restarted"). `EndedIsCut` and
  `OldPictureIsCut` except these sessions; without the exception TLC shows the case. An ended session whose page stays connected pulls the camera beside a
  new one until the grace is over; the page of an ended session keeps a picture with the
  old masks for that grace, because the mask check looks only at ready sessions.

Found later, by TLC (the history variable that marks the case is named, and dropping it
from the property shows the behaviour) or by reading:

- `Go2rtcManager`: with three children, a start that overlaps a stop leaves two supervisors
  that relaunch in competition.
- `CameraPipeline`: a worker that replaces another starts with `_night_armed` False, so
  `_night_watch_step` (`live_analytics_engine.py:1471-1474`) does not release the hold its
  predecessor left when an armed restricted area appears, against its docstring (1466-1467;
  `SecuredIsReleased`). `_is_current()` is asked, then `forget()` called: a replaced thread
  wipes its successor's state (`wiped`), and frames may be in flight beyond the limit by
  those whose slot was struck off (`robbed`).
- `PhoneAccess`: two simultaneous registrations list a phone twice (docstring of
  `register_phone`: "so a phone never shows up twice"); a registration that overlaps a
  revocation writes its tokens on the revoked row and drops the mark (`reopened`).
- `AlertSockets`: a socket that is being accepted when its credential ends escapes the
  prune (`late`) until the re-check after 30 s of silence (`routes/events.py:297-301`).
- `TokenRevocations`: a refresh under way when the account is signed out issues a token
  just after the cut-off, which stays valid.
- `VisitFlush`: stop() cancels the flush loop in the middle of a commit and loses the batch;
  two flushes that fail overwrite each other's list (`_retry_visits =`); both are in `lost`.
- `FleetControl`: a forced restart is dropped while an unforced one debounces (1030-1041)
  although "restarted" is answered (1008-1014); after an unreadable row the save overwrites
  plan, pin and seen ids (`blind`).
- `OfflineWatchdog`: the settings page's upload may arrive after the loop's newer one and
  leaves the older list for up to 30 minutes (`overtaken`); two overlapping uploads, or a
  restart, may say "back online" twice.
- `RecorderSubstreams`: an unanswered setConfig is reported as "kept current settings"
  though it may have been applied (`unsure`; against `docs/FEATURES.md:198`); the check of the
  picture opens the stream up to four times with a password that is rejected, and the
  roll-back then signs in once more (`recorder_substreams.py:344-364`, `SignInsBounded`), against the docstring (21-22): "A rejected
  login stops the whole run at once, without retries (Dahua locks the account after about
  five failed logins)"; `_restore` verifies only the size.
- `RestrictedArea`: a person inside who renews an announcement is matched to the earlier one
  until the later ends, then to none: "overstay" at once, without the grace that
  `docs/USER_MANUAL.md:1310-1311` promises. A refresh that fails after an announcement is
  still answered 201.
- `EvidenceStorage`: a pass overwrites `_used_bytes`, so files noted during it are not counted
  (`uncounted`); a mark left while the loop holds the lock waits for its next pass
  (`markedUnder`); a link stored after its file was deleted points to nothing (`tooEarly`).
  The floor of `evidence_floor_bytes` is only applied when other data alone exceed the limit.
- `IncidentClips`: a thread whose camera entry was replaced pops the newer entry
  (`pose_analytics.py:2155`; `mixed`): its sharers are linked to a clip that does not cover
  them.
- `Backups`: the newest copy, if made during a pass, is not spared by its budget
  (`squeezed`; docstring line 21 "The newest backup is never deleted"); a failed migration
  start that had made its copy makes another at each restart (comment at `runner.py:224`
  says it does not), which may push the original out; a restore takes no migration lock
  (`crossed`) and leaves a running server on the older schema (`swapped`).
- `AlertReview`: acknowledging or sending staff does not look at the status: a resolved
  incident becomes active again and keeps its resolution; two dispatches that overlap mix
  their details (`sentTwice`); two plain acknowledgements that cross replace the first, against
  "The first acknowledgement is kept" (`routes/events.py:463`; `overlapped`).
- `InsightTopics`: two merges into one topic that cross lose the first one's key (`loose`), and
  a topic that was split out never takes future findings, both against "its future findings
  join this topic" (`routes/insights.py:250`).
- `SupportUploads`: a row evicted and captured again before the next flush is written and
  deleted in one flush, so a restart loses it (`undone`); one evicted and begun again
  during an upload counts its new occurrence as sent (`mixed`); lost answers make the VPS
  count twice.
- `Tripwires`: a track that crosses, goes back round the line's end and crosses again
  within `TRIPWIRE_MIN_REPEAT_SEC` has two crossings of one direction cancelled as a
  "bounce" (`tripwire_engine.py:233-235`, `since.wrong`), against the docstring "Crossing
  straight back before that cancels both". Removing a line drops a crossing that waits.
- `RemoteTunnel`: two apply() that cross (`crossed`) both find the tunnel down and start a
  supervisor each, of which only one can be stopped later, or one starts it after the other
  found it should be off; it stays so until the next save or, for the forgotten supervisor,
  the next restart. verify() writes its copy of the settings outside the lock and may write
  older ones over a save (`remote_access_service.py:1169-1174`, `stale`): the next restart
  finds those.

## Inventory of the system

For each part: its state; its operations; whom it meets; what is hard; what makes it
correct. *Modelled* parts name their module; what of a part is not in its module, and
why the others are left out, is said under [Not modelled](#not-modelled) and, per
component, in `PROJECT.json`.

**Alerts**

- *Phone alerts by web push* (`push_alerts.py`, `web_push.py`): subscriptions, roster,
  rows of pushed alerts; alert, tick, acknowledge, subscribe. Called by the dispatcher and
  the acknowledgement routes. Hard: lock, crash, partial failures, time limits. *PushAlerts,
  AlertLifecycle.*
- *Alerts through Firebase* (`alert_dispatcher.py`): cooldown times, OAuth token, service
  account, push tokens. Hard: retries, token races. *AlertDispatch.*
- *Alert websocket* (`notification_service.py`): open sockets and their sessions; connect,
  broadcast, prune. Hard: a session revoked between two sends. Correct: only authorised
  sessions hear. *AlertSockets.*
- *Review of alerts* (`theft_detection_service.py`, `routes/theft.py`, `routes/events.py`):
  incidents and events with a status; acknowledge, send staff, resolve, outcome; operators
  and phones meet on one row. Correct: what was said stays said. *AlertReview.*
- *Restricted areas* (`restricted_areas.py`, `restricted_area_engine.py`): armed windows,
  announcements with grace, presence per track. Correct: nobody unannounced stays
  unreported; an announced visit is not reported. *RestrictedArea.*
- *Lines and queue areas* (`tripwire_engine.py`): state per line and track, buffered events.
  Correct: ins and outs balance, each crossing is stored once. *Tripwires, QueueAreas.*
- *Store-offline watchdog* (`offline_watchdog.py`): the list at the VPS, the pending
  acknowledgement. Correct: an outage is told before it is forgotten. *OfflineWatchdog.*

**Video**

- *Live sessions* (`webrtc_sessions.py`, `privacy_video.py`). *LiveSessions.*
- *go2rtc child* (`go2rtc_manager.py`). *Go2rtcManager.*
- *Camera pipeline, inference scheduler, night watch* (`pipeline_supervisor.py`,
  `live_analytics_engine.py`, `camera_restarts.py`, `inference_scheduler.py`,
  `night_watch.py`): workers per camera, replaced on every edit; in-flight slots, holds,
  boosts. Hard: an old worker still inside a frame. *CameraPipeline.*
- *Recorder settings* (`recorder_substreams.py`, `stream_selection.py`): one change at a time
  with a saved copy and a rollback that can fail too. *RecorderSubstreams.*

**Phones, people, access**

- *Pairing* (`pairing_service.py`): one-time codes, phones, token hashes, caches of
  activity. Correct: a code is used once, a revoked phone stays out. *PhoneAccess.*
- *Sign-out* (`token_revocation.py`, `auth_service.py`): keys in memory and database, reloads.
  Correct: a signed-out session never works again. *TokenRevocations.*
- *Fleet control and entitlements* (`fleet_control.py`, `entitlements.py`): policy, command
  ids, pending results. Hard: lost answers, replays, restarts. Correct: versions only rise,
  a command runs once. *FleetControl.*
- *Remote access* (`remote_access_service.py`): settings, a supervisor thread, its frpc child.
  Hard: saves and check-ins that stop and start it from threads of their own. Correct: frpc runs
  exactly when it should, with the settings saved last. *RemoteTunnel.*

**Storage and upkeep**

- *Visits* (`live_analytics_engine.py`, `pipeline_supervisor.py`): buffered facts, retries.
  *VisitFlush.*
- *Evidence* (`evidence_storage.py`, `clip_recorder.py`, `pose_analytics.py`): files by kind, a
  running total, a background pass; incidents and their clips. *EvidenceStorage,
  IncidentClips.*
- *Backups and migrations* (`backup_service.py`, `migrations/`): copies with retention, one
  migrator. *Backups.*
- *Insights* (`insight_topics.py`, `business_analysis_service.py`): findings, topics, the
  operators' actions. *InsightTopics.*
- *Support reports, issue log* (`support_reports.py`, `issue_log.py`): queues with statuses.
  *SupportUploads.*
- *Settings, features, secrets, statistics, map, drivers*: read and written whole, or
  computed from stored rows; no concurrency of their own.

## Not modelled

- *Image analysis* (`pose_analytics.py` but for its queue and clips, `tracking_service.py`,
  `inference_backend.py`, the theft rules, queue lengths, heat maps): floating-point
  arithmetic, thresholds and tuned numbers. No small instance stands for them, and the
  models take their results as free.
- *Store map, calibration, zones, privacy masks*: geometry on real numbers and documents
  edited in one request each.
- *Camera and recorder drivers, discovery, set-up*: exchanges whose answers are the
  devices'; a camera that answers, fails or blocks is free in CameraPipeline and
  RecorderSubstreams.
- *Statistics and reports*: reads of stored rows.
- *Dashboard pages and the phone app*: what a page or phone may ask, and its silence, is
  free in the models; the app's own reconnection lives outside the box.
- *TURN and STUN probes, delivery of pages* (`turn_service.py`, `stun_probe.py`,
  `web_delivery.py`): no state another part relies on.
- *Automation suggestions, the model trial in the background, database maintenance, log
  redaction, exposure checks*: each works within one call, or changes no state another
  part relies on.
- Of modelled components: the inference rates and the re-fit of a model, the queue of
  night watch's notices, the clock of back-offs; the key and pin of the fleet server (a
  signature that verifies is taken as such); schedules of restricted areas; the
  reconcile copy and the factory reset beside the backups; trends, texts and action plans of
  topics; restricted areas of the old kind in `tripwire_engine.py`, alerts and snapshots of
  lines, their geometry; frpc's configuration and log lines. The notes of the components in `PROJECT.json` say so one by one.

Much of the repository's code is of these kinds: the map covers the lines whose order
matters, not their number.

## Plan

Done: the four core modules with their proofs, the abstract life cycle with
its refinement proof, the camera pipeline, the seventeen services. What would come next, in
this order:

1. `GatewaySlot`, an abstract specification of what LiveSessions assumes of go2rtc and
   Go2rtcManager gives.
2. Liveness for the services: an upload that failed is tried again, a set-up restart
   happens.
3. `allocate_rates` and `choose_level` of the scheduler as functions, against a definition
   of max-min fairness on small inputs.
