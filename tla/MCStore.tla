-------------------------------- MODULE MCStore --------------------------------
(***************************************************************************)
(* The smaller services of the box for TLC.  The models share no state, so *)
(* one run takes them one after the other: the initial state chooses which *)
(* of them moves.  They take turns with the same variables, v1 to v16; the *)
(* INSTANCE of a part says what each is to it, and what it has no use for  *)
(* stays 0.                                                                *)
(***************************************************************************)
EXTENDS Integers, Sequences, FiniteSets

CONSTANTS
  PhoneRequests, PhoneChecks, PhoneRows, PhoneTroubles,      \* PhoneAccess
  Sockets,                                                   \* AlertSockets
  Sessions, TokenTime, TokenTroubles,                        \* TokenRevocations
  LastChannel, RecorderAttempts, RecorderRuns, RecorderTroubles, \* RecorderSubstreams
  AreaPeople, AreaLength, AreaGrace, AreaEarlyGrace, AreaSlack, AreaWindow,
  AreaTime, AreaEntries,                                     \* RestrictedArea
  FleetRestarts, FleetProbes, FleetPlans, FleetTroubles,     \* FleetControl
  WatchEdits, WatchOutages, WatchTroubles,                   \* OfflineWatchdog
  IssuePrints, IssueCap, Captures, SupportReports, Updates, UploadTroubles,   \* SupportUploads
  TunnelCallers, CheckedCallers, AddressChecks, TunnelStarts, TunnelCalls,
  ApplyTroubles, CheckTroubles,                              \* RemoteTunnel
  ZoneVisits, VisitRetryMax, VisitTroubles,                  \* VisitFlush
  ReviewRequests,                                            \* AlertReview
  FindingKeys, AlikeFindings, TopicRequests, TopicKinds, TopicRows, TopicRuns, TopicAsks,
  TopicDays,                                                 \* InsightTopics
  LineConfirm, LineRepeat, LineTtl, LineKeep, LineFlushers, LineTime, LineTroubles,   \* Tripwires
  QueueGrace, QueueFrames,                                   \* QueueAreas
  EvidenceIncidents, EvidenceLimits, EvidenceRunners, EvidenceTroubles,   \* EvidenceStorage
  ClipSeenAt, ClipPostRoll, ClipQueue, ClipTries, ClipTroubles,           \* IncidentClips
  LatestMigration, LargerMigrations, StartupCopies, CopiesPerKind, CopyBudgets, CopiesMade,
  BackupTroubles                                             \* Backups

\* Times, limits, troubles and the number of channels are numbers, the requests to pair
\* a phone can be counted and one of them gets a row, the sessions have a first moment,
\* a crossing can be told from one repeated at once, no command has the name of another
\* timer, the run of a box starts its tunnel once at least, no request about an alert is
\* called "nobody", the key of a finding is not what a topic has that was taken out of
\* another ("split:") or one that is not there, no background thread is called "loop" or
\* "nobody", and one copy of each kind is kept at least.
ASSUME StoreAssumption ==
  /\ IsFiniteSet(PhoneRequests) /\ PhoneRows \in Nat \ {0} /\ PhoneTroubles \in Nat
  /\ TokenTime \in Nat \ {0} /\ TokenTroubles \in Nat
  /\ LastChannel \in Nat /\ RecorderAttempts \in Nat /\ RecorderRuns \in Nat /\ RecorderTroubles \in Nat
  /\ AreaLength \in Nat /\ AreaGrace \in Nat /\ AreaEarlyGrace \in Nat /\ AreaSlack \in Nat
  /\ AreaWindow \in Nat /\ AreaTime \in Nat /\ AreaEntries \in Nat
  /\ {"none", "plan"} \cap FleetRestarts = {} /\ FleetPlans \in Nat /\ FleetTroubles \in Nat
  /\ WatchEdits \in Nat /\ WatchOutages \in Nat /\ WatchTroubles \in Nat
  /\ Captures \in Nat /\ Updates \in Nat /\ UploadTroubles \in Nat
  /\ TunnelStarts \in Nat \ {0} /\ TunnelCalls \in Nat
  /\ ApplyTroubles \in Nat /\ CheckTroubles \in Nat
  /\ VisitRetryMax \in Nat \ {0} /\ VisitTroubles \in Nat
  /\ "nobody" \notin ReviewRequests
  /\ {"split:", "none", "gone"} \cap {FindingKeys[f] : f \in DOMAIN FindingKeys} = {}
  /\ TopicRows \in Nat \ {0} /\ TopicDays \in Nat \ {0} /\ TopicRuns \in Nat /\ TopicAsks \in Nat
  /\ LineConfirm \in Nat \ {0} /\ LineRepeat \in Nat \ {0} /\ LineKeep \in Nat
  /\ LineTime \in Nat /\ LineTroubles \in Nat
  /\ QueueGrace \in Nat /\ QueueFrames \in Nat
  /\ EvidenceIncidents \in Nat /\ EvidenceLimits \subseteq Nat /\ EvidenceTroubles \in Nat
  /\ {"loop", "nobody"} \cap EvidenceRunners = {}
  /\ ClipSeenAt \in Seq(Int) /\ ClipPostRoll \in Nat /\ ClipTries \in Nat \ {0} /\ ClipTroubles \in Nat
  /\ LatestMigration \in Nat /\ StartupCopies \in Nat /\ CopiesPerKind \in Nat \ {0}
  /\ CopyBudgets \subseteq Nat /\ CopiesMade \in Nat /\ BackupTroubles \in Nat

\* The third of three findings is worded like the topic of the second and like one taken out.
ThreeFindings == <<"k1", "k2", "k3">>
ThirdIsAlike == {<<3, "k2">>, <<3, "split:">>}

\* A clip of the second of four incidents covers the third, one of the third the fourth.
FourIncidents == <<1, 4, 6, 7>>

VARIABLES part, v1, v2, v3, v4, v5, v6, v7, v8, v9, v10, v11, v12, v13, v14, v15, v16

vars == <<part, v1, v2, v3, v4, v5, v6, v7, v8, v9, v10, v11, v12, v13, v14, v15, v16>>

P == INSTANCE PhoneAccess WITH
     Requests <- PhoneRequests, Checks <- PhoneChecks, MaxRows <- PhoneRows,
     MaxTroubles <- PhoneTroubles,
     code <- v1, req <- v2, entered <- v3, found <- v4, made <- v5, revoked <- v6, ended <- v7,
     reopened <- v8, cache <- v9, marked <- v10, check <- v11, asks <- v12, sees <- v13,
     troubles <- v14
S == INSTANCE AlertSockets WITH
     valid <- v1, socket <- v2, walk <- v3, todo <- v4, answered <- v5, late <- v6, began <- v7,
     told <- v8
T == INSTANCE TokenRevocations WITH
     MaxTime <- TokenTime, MaxTroubles <- TokenTroubles,
     now <- v1, issued <- v2, out <- v3, cut <- v4, outRows <- v5, cutRow <- v6, loaded <- v7,
     writes <- v8, writeCut <- v9, caught <- v10, replace <- v11, refreshing <- v12, ended <- v13,
     endedBy <- v14, own <- v15, troubles <- v16
V == INSTANCE VisitFlush WITH
     Visits <- ZoneVisits, RetryMax <- VisitRetryMax, MaxTroubles <- VisitTroubles,
     up <- v1, visit <- v2, touched <- v3, buffer <- v4, batch <- v5, retry <- v6, row <- v7,
     rowTouched <- v8, lost <- v9, orphans <- v10, troubles <- v11
F == INSTANCE FleetControl WITH
     Restarts <- FleetRestarts, Probes <- FleetProbes, MaxPlan <- FleetPlans,
     MaxTroubles <- FleetTroubles,
     app <- v1, boot <- v2, stored <- v3, phase <- v4, copy <- v5, sent <- v6, answer <- v7,
     timer <- v8, published <- v9, heard <- v10, fired <- v11, newest <- v12, blind <- v13,
     trials <- v14
R == INSTANCE RecorderSubstreams WITH
     Attempts <- RecorderAttempts, MaxRuns <- RecorderRuns, MaxTroubles <- RecorderTroubles,
     setting <- v1, password <- v2, saved <- v3, measured <- v4, kind <- v5, step <- v6, at <- v7,
     enc <- v8, outcome <- v9, errors <- v10, begun <- v11, prior <- v12, unsure <- v13,
     rejected <- v14, runs <- v15, mishaps <- v16
A == INSTANCE RestrictedArea WITH
     People <- AreaPeople, Length <- AreaLength, Grace <- AreaGrace, EarlyGrace <- AreaEarlyGrace,
     Slack <- AreaSlack, Window <- AreaWindow, MaxTime <- AreaTime, MaxEntries <- AreaEntries,
     clock <- v1, entries <- v2, snapshot <- v3, ask <- v4, compiled <- v5, assured <- v6,
     track <- v7, cooling <- v8, verdict <- v9
W == INSTANCE OfflineWatchdog WITH
     MaxEdits <- WatchEdits, MaxOutages <- WatchOutages, MaxTroubles <- WatchTroubles,
     phones <- v1, wake <- v2, loop <- v3, upload <- v4, pending <- v5, handled <- v6, told <- v7,
     held <- v8, outage <- v9, phase <- v10, lastRun <- v11, overtaken <- v12, incidents <- v13
E == INSTANCE EvidenceStorage WITH
     MaxIncidents <- EvidenceIncidents, Limits <- EvidenceLimits, Runners <- EvidenceRunners,
     MaxTroubles <- EvidenceTroubles,
     saving <- v1, written <- v2, row <- v3, used <- v4, effective <- v5, rerun <- v6, lock <- v7,
     pass <- v8, uncounted <- v9, stuck <- v10, markedUnder <- v11, tooEarly <- v12,
     unrecorded <- v13, troubles <- v14
C == INSTANCE IncidentClips WITH
     SeenAt <- ClipSeenAt, PostRoll <- ClipPostRoll, QueueMax <- ClipQueue, Tries <- ClipTries,
     MaxTroubles <- ClipTroubles,
     seen <- v1, queue <- v2, tries <- v3, still <- v4, flush <- v5, row <- v6, entry <- v7,
     clip <- v8, linking <- v9, joined <- v10, mixed <- v11, unlinked <- v12, lost <- v13,
     troubles <- v14
B == INSTANCE Backups WITH
     Latest <- LatestMigration, NonAdditive <- LargerMigrations, KeepStartup <- StartupCopies,
     KeepPerKind <- CopiesPerKind, Budgets <- CopyBudgets, MaxCopies <- CopiesMade,
     MaxTroubles <- BackupTroubles,
     db <- v1, copies <- v2, made <- v3, marker <- v4, lock <- v5, proc <- v6, pass <- v7,
     restore <- v8, swapped <- v9, crossed <- v10, refused <- v11, squeezed <- v12, early <- v13,
     twice <- v14, troubles <- v15
Q == INSTANCE AlertReview WITH
     Requests <- ReviewRequests,
     theft <- v1, incident <- v2, event <- v3, req <- v4, given <- v5, clean <- v6,
     sentTwice <- v7, first <- v8, crossed <- v9, phoned <- v10, recorded <- v11
I == INSTANCE InsightTopics WITH
     KeyOf <- FindingKeys, Alike <- AlikeFindings, Requests <- TopicRequests,
     Kinds <- TopicKinds, MaxTopics <- TopicRows, MaxRuns <- TopicRuns, MaxAsks <- TopicAsks,
     LastDay <- TopicDays,
     clock <- v1, runs <- v2, finding <- v3, topic <- v4, sync <- v5, req <- v6, asks <- v7,
     owes <- v8, loose <- v9

(* Issues and reports share only the uploader, which takes each as it is.   *)
U == INSTANCE SupportUploads WITH
     Prints <- IssuePrints, Cap <- IssueCap, Reports <- {}, MaxCaptures <- Captures,
     MaxUpdates <- 0, MaxTroubles <- UploadTroubles,
     mem <- v1, file <- v2, flushing <- v3, captured <- v4, post <- v5, vps <- v6, report <- v7,
     cursor <- v8, checkin <- v9, undone <- v10, mishap <- v11
N == INSTANCE SupportUploads WITH
     Prints <- {}, Cap <- IssueCap, Reports <- SupportReports, MaxCaptures <- 0,
     MaxUpdates <- Updates, MaxTroubles <- UploadTroubles,
     mem <- v1, file <- v2, flushing <- v3, captured <- v4, post <- v5, vps <- v6, report <- v7,
     cursor <- v8, checkin <- v9, undone <- v10, mishap <- v11
L == INSTANCE Tripwires WITH
     Confirm <- LineConfirm, Repeat <- LineRepeat, Ttl <- LineTtl, Keep <- LineKeep,
     Flushers <- LineFlushers, MaxTime <- LineTime, MaxTroubles <- LineTroubles,
     frames <- v1, wire <- v2, since <- v3, settled <- v4, events <- v5, moving <- v6, rows <- v7,
     gone <- v8, failures <- v9
K == INSTANCE QueueAreas WITH
     Grace <- QueueGrace, LastFrame <- QueueFrames,
     second <- v1, stay <- v2, visits <- v3, cleared <- v4, within <- v5, outside <- v6

(* Two calls that cross, and one beside a check of the address.            *)
O == INSTANCE RemoteTunnel WITH
     Callers <- TunnelCallers, Checks <- {}, MaxStarts <- TunnelStarts, MaxCalls <- TunnelCalls,
     MaxTroubles <- ApplyTroubles,
     disk <- v1, mem <- v2, plan <- v3, thread <- v4, event <- v5, proc <- v6, sup <- v7,
     frpc <- v8, call <- v9, calls <- v10, checking <- v11, started <- v12, crossed <- v13,
     stale <- v14, troubles <- v15
D == INSTANCE RemoteTunnel WITH
     Callers <- CheckedCallers, Checks <- AddressChecks, MaxStarts <- TunnelStarts,
     MaxCalls <- TunnelCalls, MaxTroubles <- CheckTroubles,
     disk <- v1, mem <- v2, plan <- v3, thread <- v4, event <- v5, proc <- v6, sup <- v7,
     frpc <- v8, call <- v9, calls <- v10, checking <- v11, started <- v12, crossed <- v13,
     stale <- v14, troubles <- v15

Init ==
  \/ part = "phones" /\ P!Init /\ v15 = 0 /\ v16 = 0
  \/ part = "sockets" /\ S!Init
        /\ v9 = 0 /\ v10 = 0 /\ v11 = 0 /\ v12 = 0 /\ v13 = 0 /\ v14 = 0 /\ v15 = 0 /\ v16 = 0
  \/ part = "tokens" /\ T!Init
  \/ part = "visits" /\ V!Init /\ v12 = 0 /\ v13 = 0 /\ v14 = 0 /\ v15 = 0 /\ v16 = 0
  \/ part = "fleet" /\ F!Init /\ v15 = 0 /\ v16 = 0
  \/ part = "recorder" /\ R!Init
  \/ part = "area" /\ A!Init
        /\ v10 = 0 /\ v11 = 0 /\ v12 = 0 /\ v13 = 0 /\ v14 = 0 /\ v15 = 0 /\ v16 = 0
  \/ part = "watchdog" /\ W!Init /\ v14 = 0 /\ v15 = 0 /\ v16 = 0
  \/ part = "evidence" /\ E!Init /\ v15 = 0 /\ v16 = 0
  \/ part = "clips" /\ C!Init /\ v15 = 0 /\ v16 = 0
  \/ part = "backups" /\ B!Init /\ v16 = 0
  \/ part = "review" /\ Q!Init /\ v12 = 0 /\ v13 = 0 /\ v14 = 0 /\ v15 = 0 /\ v16 = 0
  \/ part = "topics" /\ I!Init
        /\ v10 = 0 /\ v11 = 0 /\ v12 = 0 /\ v13 = 0 /\ v14 = 0 /\ v15 = 0 /\ v16 = 0
  \/ part = "issues" /\ U!Init /\ v12 = 0 /\ v13 = 0 /\ v14 = 0 /\ v15 = 0 /\ v16 = 0
  \/ part = "reports" /\ N!Init /\ v12 = 0 /\ v13 = 0 /\ v14 = 0 /\ v15 = 0 /\ v16 = 0
  \/ part = "lines" /\ L!Init
        /\ v10 = 0 /\ v11 = 0 /\ v12 = 0 /\ v13 = 0 /\ v14 = 0 /\ v15 = 0 /\ v16 = 0
  \/ part = "queues" /\ K!Init
        /\ v7 = 0 /\ v8 = 0 /\ v9 = 0 /\ v10 = 0 /\ v11 = 0 /\ v12 = 0 /\ v13 = 0 /\ v14 = 0
        /\ v15 = 0 /\ v16 = 0
  \/ part = "applies" /\ O!Init /\ v16 = 0
  \/ part = "checks" /\ D!Init /\ v16 = 0

Next ==
  \/ part = "phones" /\ P!Next /\ UNCHANGED <<part, v15, v16>>
  \/ part = "sockets" /\ S!Next /\ UNCHANGED <<part, v9, v10, v11, v12, v13, v14, v15, v16>>
  \/ part = "tokens" /\ T!Next /\ UNCHANGED part
  \/ part = "visits" /\ V!Next /\ UNCHANGED <<part, v12, v13, v14, v15, v16>>
  \/ part = "fleet" /\ F!Next /\ UNCHANGED <<part, v15, v16>>
  \/ part = "recorder" /\ R!Next /\ UNCHANGED part
  \/ part = "area" /\ A!Next /\ UNCHANGED <<part, v10, v11, v12, v13, v14, v15, v16>>
  \/ part = "watchdog" /\ W!Next /\ UNCHANGED <<part, v14, v15, v16>>
  \/ part = "evidence" /\ E!Next /\ UNCHANGED <<part, v15, v16>>
  \/ part = "clips" /\ C!Next /\ UNCHANGED <<part, v15, v16>>
  \/ part = "backups" /\ B!Next /\ UNCHANGED <<part, v16>>
  \/ part = "review" /\ Q!Next /\ UNCHANGED <<part, v12, v13, v14, v15, v16>>
  \/ part = "topics" /\ I!Next /\ UNCHANGED <<part, v10, v11, v12, v13, v14, v15, v16>>
  \/ part = "issues" /\ U!Next /\ UNCHANGED <<part, v12, v13, v14, v15, v16>>
  \/ part = "reports" /\ N!Next /\ UNCHANGED <<part, v12, v13, v14, v15, v16>>
  \/ part = "lines" /\ L!Next /\ UNCHANGED <<part, v10, v11, v12, v13, v14, v15, v16>>
  \/ part = "queues" /\ K!Next /\ UNCHANGED <<part, v7, v8, v9, v10, v11, v12, v13, v14, v15, v16>>
  \/ part = "applies" /\ O!Next /\ UNCHANGED <<part, v16>>
  \/ part = "checks" /\ D!Next /\ UNCHANGED <<part, v16>>

Spec == Init /\ [][Next]_vars

-------------------------------------------------------------------------------
(* Properties: those of the parts.                                         *)

\* Every variable of every part stays in its domain.
TypeOK ==
  /\ part = "phones" => P!TypeOK
  /\ part = "sockets" => S!TypeOK
  /\ part = "tokens" => T!TypeOK
  /\ part = "visits" => V!TypeOK
  /\ part = "fleet" => F!TypeOK
  /\ part = "recorder" => R!TypeOK
  /\ part = "area" => A!TypeOK
  /\ part = "watchdog" => W!TypeOK
  /\ part = "evidence" => E!TypeOK
  /\ part = "clips" => C!TypeOK
  /\ part = "backups" => B!TypeOK
  /\ part = "review" => Q!TypeOK
  /\ part = "topics" => I!TypeOK
  /\ part = "issues" => U!TypeOK
  /\ part = "reports" => N!TypeOK
  /\ part = "lines" => L!TypeOK
  /\ part = "queues" => K!TypeOK
  /\ part = "applies" => O!TypeOK
  /\ part = "checks" => D!TypeOK

\* A pairing code lets one phone in, and a phone whose revocation was confirmed
\* is refused from then on (services/pairing_service.py).
AccessSound == part = "phones" => P!AccessSound

\* An answered sign-out leaves no socket of its credential open, an alert goes to
\* nobody whose credential had ended when the broadcast began, and a session that
\* was signed out, itself or with its account, is not accepted again
\* (services/notification_service.py, token_revocation.py, auth_service.py).
SignOutSound == (part = "sockets" => S!SilentAfterEnd) /\ (part = "tokens" => T!SignedOutIsRefused)

\* A zone visit's row says what the camera saw unless a fact of it was dropped, and
\* nobody of an earlier run is still "in the zone"; what people said about an alert
\* stays as they said it unless their requests crossed; findings stay in the topic
\* they were grouped, merged or split into; a line's ins and outs balance with where
\* its track has gone and each crossing is recorded once, and a queue area's visits
\* are the stays the frames showed (services/pipeline_supervisor.py,
\* theft_detection_service.py, insight_topics.py, tripwire_engine.py,
\* routes/events.py).
RecordsAreTrue ==
  (part = "visits" => V!VisitsAreTrue) /\ (part = "review" => Q!ReviewSound)
  /\ (part = "topics" => I!TopicsSound)
  /\ (part = "lines" => L!CrossingsSound) /\ (part = "queues" => K!VisitsSound)

\* A restart command restarts once, every command is answered and the plan never
\* goes back, while the stored row can be read; an outage the VPS forgets was told
\* to the phones, and a loop that rests has left it the stored phones; what the box
\* counts as sent to support the VPS has, it is told of what was evicted unsent,
\* and a report shows what support said last; the tunnel is up as the settings
\* saved last say, and a restart finds these (services/fleet_control.py,
\* offline_watchdog.py, issue_log.py, support_reports.py, remote_access_service.py).
CloudSound ==
  (part = "fleet" => F!CommandsSound) /\ (part = "watchdog" => W!WatchdogSound)
  /\ (part = "issues" => U!UploadsSound) /\ (part = "reports" => N!UploadsSound)
  /\ (part = "applies" => O!TunnelSound) /\ (part = "checks" => D!TunnelSound)

\* A run leaves a recorder's channels changed or as they were, says which, can
\* always restore them, has one request rejected at most, and has no more streams
\* rejected than one check opens (services/recorder_substreams.py).
ChangeSound == part = "recorder" => R!ChangeSound

\* No alarm on somebody whom an answered announcement covers, and nobody stays
\* inside a guarded area without one (services/restricted_areas.py and the
\* engine beside it).
AreaSound == part = "area" => A!AreaSound

\* A row links evidence that is there or was never told it is gone, the files of
\* an incident go together, the count never falls behind the disk and a box over
\* its limit is followed up; an incident is stored, waiting or dropped for a named
\* reason, and linked to a clip that covers it (services/evidence_storage.py,
\* pose_analytics.py, clip_recorder.py).
EvidenceSound == (part = "evidence" => E!EvidenceSound) /\ (part = "clips" => C!ClipsSound)

\* The server runs on a database of its release, upgraded in order and only after
\* a copy where more than an addition is made, and the copies that are to stay
\* stay (migrations/runner.py, services/backup_service.py, routes/system.py).
BackupsSound == part = "backups" => B!BackupsSound
===============================================================================
