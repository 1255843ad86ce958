------------------------------- MODULE StoreProofs -------------------------------
(***************************************************************************)
(* MCStore: what ServicesProofs, StorageProofs and CloudProofs prove of a  *)
(* part holds of the store whenever that part moves, for every value of    *)
(* its constants.                                                          *)
(***************************************************************************)
EXTENDS MCStore, TLAPS

SP == INSTANCE ServicesProofs WITH
      code <- v1, req <- v2, entered <- v3, found <- v4, made <- v5, revoked <- v6, ended <- v7,
      reopened <- v8, cache <- v9, marked <- v10, check <- v11, asks <- v12, sees <- v13,
      troubles <- v14,
      valid <- v1, socket <- v2, walk <- v3, todo <- v4, answered <- v5, late <- v6, began <- v7,
      told <- v8,
      present <- v1, issued <- v2, out <- v3, cut <- v4, outRows <- v5, cutRow <- v6,
      loaded <- v7, writes <- v8, writeCut <- v9, caught <- v10, replace <- v11,
      refreshing <- v12, signedOut <- v13, endedBy <- v14, own <- v15, writeFailures <- v16,
      Confirm <- LineConfirm, Repeat <- LineRepeat, Ttl <- LineTtl, Keep <- LineKeep,
      Flushers <- LineFlushers,
      frames <- v1, wire <- v2, since <- v3, settled <- v4, events <- v5, moving <- v6, rows <- v7,
      gone <- v8, failures <- v9,
      setting <- v1, password <- v2, saved <- v3, measured <- v4, kind <- v5, step <- v6, at <- v7,
      enc <- v8, outcome <- v9, errors <- v10, begun <- v11, prior <- v12, unsure <- v13,
      rejected <- v14, runs <- v15, mishaps <- v16,
      People <- AreaPeople, Length <- AreaLength, Grace <- AreaGrace, EarlyGrace <- AreaEarlyGrace,
      Slack <- AreaSlack, Window <- AreaWindow,
      clock <- v1, entries <- v2, snapshot <- v3, ask <- v4, compiled <- v5, assured <- v6,
      track <- v7, cooling <- v8, verdict <- v9,
      Visits <- ZoneVisits, RetryMax <- VisitRetryMax,
      up <- v1, visit <- v2, touched <- v3, buffer <- v4, batch <- v5, retry <- v6, row <- v7,
      rowTouched <- v8, lost <- v9, orphans <- v10, visitTroubles <- v11,
      Reviewers <- ReviewRequests,
      theft <- v1, incident <- v2, event <- v3, rq <- v4, given <- v5, clean <- v6,
      sentTwice <- v7, firstBy <- v8, crossed <- v9, phoned <- v10, recorded <- v11,
      KeyOf <- FindingKeys, Alike <- AlikeFindings, Operators <- TopicRequests,
      MaxTopics <- TopicRows, MaxAnalyses <- TopicRuns, MaxTopicAsks <- TopicAsks,
      LastDay <- TopicDays,
      today <- v1, analyses <- v2, finding <- v3, topic <- v4, sync <- v5, tq <- v6, asked <- v7,
      owes <- v8, loose <- v9,
      LastFrame <- QueueFrames,
      second <- v1, openStay <- v2, visits <- v3, cleared <- v4, within <- v5, outside <- v6

\* The evidence, the clips and the copies of the database.
KP == INSTANCE StorageProofs WITH
      saving <- v1, written <- v2, evidenceRow <- v3, used <- v4, effective <- v5, rerun <- v6,
      lock <- v7, pass <- v8, uncounted <- v9, stuck <- v10, markedUnder <- v11, tooEarly <- v12,
      unrecorded <- v13, evidenceTroubles <- v14,
      seen <- v1, queue <- v2, tries <- v3, still <- v4, flush <- v5, clipRow <- v6, entry <- v7,
      clip <- v8, linking <- v9, joined <- v10, mixed <- v11, unlinked <- v12, lostRows <- v13,
      clipTroubles <- v14,
      db <- v1, copies <- v2, lastCopy <- v3, marker <- v4, upgradeLock <- v5, proc <- v6,
      sweep <- v7, restore <- v8, swapped <- v9, underway <- v10, refused <- v11, squeezed <- v12,
      early <- v13, twice <- v14, backupTroubles <- v15

\* The fleet, the watchdog, the issue log and calls that cross; then the reports
\* and a call beside a check of the address.
CP == INSTANCE CloudProofs WITH
      Restarts <- FleetRestarts, Probes <- FleetProbes, MaxPlan <- FleetPlans,
      MaxEdits <- WatchEdits, MaxOutages <- WatchOutages,
      Callers <- TunnelCallers, Checks <- {}, MaxStarts <- TunnelStarts, MaxCalls <- TunnelCalls,
      TunnelTroubles <- ApplyTroubles,
      Prints <- IssuePrints, Cap <- IssueCap, Reports <- {}, MaxCaptures <- Captures,
      MaxUpdates <- 0,
      app <- v1, boot <- v2, stored <- v3, phase <- v4, copy <- v5, sent <- v6, answer <- v7,
      timer <- v8, published <- v9, heard <- v10, fired <- v11, newest <- v12, blind <- v13,
      trials <- v14,
      phones <- v1, wake <- v2, loop <- v3, upload <- v4, pending <- v5, handled <- v6, told <- v7,
      held <- v8, outage <- v9, outagePhase <- v10, lastRun <- v11, overtaken <- v12,
      incidents <- v13,
      disk <- v1, using <- v2, inPlan <- v3, thread <- v4, event <- v5, proc <- v6, sup <- v7,
      frpc <- v8, call <- v9, calls <- v10, checking <- v11, started <- v12, crossed <- v13,
      stale <- v14, troubles <- v15,
      mem <- v1, file <- v2, flushing <- v3, captured <- v4, post <- v5, vps <- v6, report <- v7,
      cursor <- v8, checkin <- v9, undone <- v10, mishap <- v11
CQ == INSTANCE CloudProofs WITH
      Restarts <- FleetRestarts, Probes <- FleetProbes, MaxPlan <- FleetPlans,
      MaxEdits <- WatchEdits, MaxOutages <- WatchOutages,
      Callers <- CheckedCallers, Checks <- AddressChecks, MaxStarts <- TunnelStarts,
      MaxCalls <- TunnelCalls, TunnelTroubles <- CheckTroubles,
      Prints <- {}, Cap <- IssueCap, Reports <- SupportReports, MaxCaptures <- 0,
      MaxUpdates <- Updates,
      app <- v1, boot <- v2, stored <- v3, phase <- v4, copy <- v5, sent <- v6, answer <- v7,
      timer <- v8, published <- v9, heard <- v10, fired <- v11, newest <- v12, blind <- v13,
      trials <- v14,
      phones <- v1, wake <- v2, loop <- v3, upload <- v4, pending <- v5, handled <- v6, told <- v7,
      held <- v8, outage <- v9, outagePhase <- v10, lastRun <- v11, overtaken <- v12,
      incidents <- v13,
      disk <- v1, using <- v2, inPlan <- v3, thread <- v4, event <- v5, proc <- v6, sup <- v7,
      frpc <- v8, call <- v9, calls <- v10, checking <- v11, started <- v12, crossed <- v13,
      stale <- v14, troubles <- v15,
      mem <- v1, file <- v2, flushing <- v3, captured <- v4, post <- v5, vps <- v6, report <- v7,
      cursor <- v8, checkin <- v9, undone <- v10, mishap <- v11

-------------------------------------------------------------------------------
(* The same part in both: word for word.                                   *)

\* Pairing and revocation (PhoneAccess): the first states.
LEMMA PhoneBegins == P!Init => SP!P!Init
BY DEF P!Init, P!Rows, SP!P!Init, SP!P!Rows

\* Pairing and revocation (PhoneAccess): the steps.
LEMMA PhoneMoves == P!Next => SP!P!Next
BY DEF P!Next, P!CloseCode, P!Restart, P!Pair, P!Rows, P!RevokeRow, P!MarkRevoked, P!Age, P!Verify,
   P!checking, P!SeeCode, P!TakeCode, P!SignIn, P!FindRow, P!WriteRow, P!ForgetRow, P!Active,
   P!pairing, P!Mark, P!Ask, P!Read, P!Unreadable, P!Store, P!Unused, SP!P!Next, SP!P!CloseCode,
   SP!P!Restart, SP!P!Pair, SP!P!Rows, SP!P!RevokeRow, SP!P!MarkRevoked, SP!P!Age, SP!P!Verify,
   SP!P!checking, SP!P!SeeCode, SP!P!TakeCode, SP!P!SignIn, SP!P!FindRow, SP!P!WriteRow,
   SP!P!ForgetRow, SP!P!Active, SP!P!pairing, SP!P!Mark, SP!P!Ask, SP!P!Read, SP!P!Unreadable,
   SP!P!Store, SP!P!Unused

\* Pairing and revocation (PhoneAccess): the property.
LEMMA PhoneSays == SP!P!AccessSound => P!AccessSound
BY DEF P!AccessSound, P!CodeOnce, P!RevokedIsRefused, SP!P!AccessSound, SP!P!CodeOnce,
   SP!P!RevokedIsRefused

\* The alert sockets (AlertSockets): the first states.
LEMMA SocketBegins == S!Init => SP!S!Init
BY DEF S!Init, S!Walkers, SP!S!Init, SP!S!Walkers

\* The alert sockets (AlertSockets): the steps.
LEMMA SocketMoves == S!Next => SP!S!Next
BY DEF S!Next, S!Broadcast, S!Sent, S!Verify, S!Connect, S!Close, S!SignOut, S!Send, S!Walkers,
   S!Pruned, S!Cut, S!StartPrune, S!Open, SP!S!Next, SP!S!Broadcast, SP!S!Sent, SP!S!Verify,
   SP!S!Connect, SP!S!Close, SP!S!SignOut, SP!S!Send, SP!S!Walkers, SP!S!Pruned, SP!S!Cut,
   SP!S!StartPrune, SP!S!Open

\* The alert sockets (AlertSockets): the property.
LEMMA SocketSays == SP!S!SilentAfterEnd => S!SilentAfterEnd
BY DEF S!SilentAfterEnd, S!Open, SP!S!SilentAfterEnd, SP!S!Open

\* Sessions and sign-outs (TokenRevocations): the first states.
LEMMA TokenBegins == T!Init => SP!T!Init
BY DEF T!Init, T!None, SP!T!Init, SP!T!None

\* Sessions and sign-outs (TokenRevocations): the steps.
LEMMA TokenMoves == T!Next => SP!T!Next
BY DEF T!Next, T!Tick, T!Reload, T!SignOutAccount, T!WriteAccount, T!Restart, T!SignIn, T!Replace,
   T!RefreshAsk, T!RefreshIssue, T!SignOut, T!WriteSignOut, T!memory, T!table, T!signouts,
   T!answers, T!Merged, T!Trouble, T!Later, T!Begin, T!Accepted, T!Refreshed, T!IssueTime,
   SP!T!Next, SP!T!Tick, SP!T!Reload, SP!T!SignOutAccount, SP!T!WriteAccount, SP!T!Restart,
   SP!T!SignIn, SP!T!Replace, SP!T!RefreshAsk, SP!T!RefreshIssue, SP!T!SignOut, SP!T!WriteSignOut,
   SP!T!memory, SP!T!table, SP!T!signouts, SP!T!answers, SP!T!Merged, SP!T!Trouble, SP!T!Later,
   SP!T!Begin, SP!T!Accepted, SP!T!Refreshed, SP!T!IssueTime

\* Sessions and sign-outs (TokenRevocations): the property.
LEMMA TokenSays == SP!T!SignedOutIsRefused => T!SignedOutIsRefused
BY DEF T!SignedOutIsRefused, T!Accepted, SP!T!SignedOutIsRefused, SP!T!Accepted

\* The recorder's channels (RecorderSubstreams): the first states.
LEMMA RecBegins == R!Init => SP!R!Init
BY DEF R!Init, R!Channels, R!Settings, R!Unsaved, R!NoneRejected, SP!R!Init, SP!R!Channels,
   SP!R!Settings, SP!R!Unsaved, SP!R!NoneRejected

\* The recorder's channels (RecorderSubstreams): the steps.
LEMMA RecMoves == R!Next => SP!R!Next
BY DEF R!Next, R!Start, R!ReadAll, R!ReadFails, R!Finish, R!Reject, R!Skip, R!Save, R!Accept,
   R!Refuse, R!Unanswered, R!Check, R!Verify, R!VerifyFails, R!OpenRejected, R!NoneRejected, R!BeginRestore, R!Undo,
   R!UndoFails, R!Reread, R!ChangePassword, R!Crash, R!Channels, R!Unsaved, R!recorder, R!ghosts, R!Trouble,
   R!Ended, R!Stop, R!Close, R!Goal, R!SavedBefore, R!Mixed, R!CloseUnanswered, R!Sticks, R!Was,
   R!Undone, R!Back, R!progress, SP!R!Next, SP!R!Start, SP!R!ReadAll, SP!R!ReadFails, SP!R!Finish,
   SP!R!Reject, SP!R!Skip, SP!R!Save, SP!R!Accept, SP!R!Refuse, SP!R!Unanswered, SP!R!Check,
   SP!R!Verify, SP!R!VerifyFails, SP!R!OpenRejected, SP!R!NoneRejected, SP!R!BeginRestore, SP!R!Undo, SP!R!UndoFails, SP!R!Reread,
   SP!R!ChangePassword, SP!R!Crash, SP!R!Channels, SP!R!Unsaved, SP!R!recorder, SP!R!ghosts,
   SP!R!Trouble, SP!R!Ended, SP!R!Stop, SP!R!Close, SP!R!Goal, SP!R!SavedBefore, SP!R!Mixed,
   SP!R!CloseUnanswered, SP!R!Sticks, SP!R!Was, SP!R!Undone, SP!R!Back, SP!R!progress

\* The recorder's channels (RecorderSubstreams): the property.
LEMMA RecSays == SP!R!ChangeSound => R!ChangeSound
BY DEF R!ChangeSound, R!Restorable, R!ReportIsTrue, R!SignInsBounded, R!Channels, R!Unsaved, R!Sound,
   SP!R!ChangeSound, SP!R!Restorable, SP!R!ReportIsTrue, SP!R!SignInsBounded, SP!R!Channels,
   SP!R!Unsaved, SP!R!Sound

\* The restricted area (RestrictedArea): the first states.
LEMMA AreaBegins == A!Init => SP!A!Init
BY DEF A!Init, A!Callers, A!NoRefresh, A!NewTrack, A!Never, SP!A!Init, SP!A!Callers, SP!A!NoRefresh,
   SP!A!NewTrack, SP!A!Never

\* Both count with the same library.
LEMMA SameCount == \A x : A!Cardinality(x) = SP!A!Cardinality(x)
BY DEF A!Cardinality, SP!A!Cardinality

\* The restricted area (RestrictedArea): the steps.
LEMMA AreaMoves == A!Next => SP!A!Next
BY SameCount DEF A!Next, A!Announce, A!EndAnnouncement, A!Callers, A!Compile, A!Swap, A!RefreshFails,
   A!Inside, A!Outside, A!Lost, A!Tick, A!WithEnded, A!Open, A!Never, A!Commit, A!refresh, A!Free,
   A!NoRefresh, A!End, A!engine, A!Compiled, A!Step, A!NewTrack, A!Sooner, A!Fires, A!Wanted,
   A!Allowed, A!Guarded, A!Announced, A!Cover, A!Active, A!Covers, A!GraceUntil, SP!A!Next,
   SP!A!Announce, SP!A!EndAnnouncement, SP!A!Callers, SP!A!Compile, SP!A!Swap, SP!A!RefreshFails,
   SP!A!Inside, SP!A!Outside, SP!A!Lost, SP!A!Tick, SP!A!WithEnded, SP!A!Open, SP!A!Never,
   SP!A!Commit, SP!A!refresh, SP!A!Free, SP!A!NoRefresh, SP!A!End, SP!A!engine, SP!A!Compiled,
   SP!A!Step, SP!A!NewTrack, SP!A!Sooner, SP!A!Fires, SP!A!Wanted, SP!A!Allowed, SP!A!Guarded,
   SP!A!Announced, SP!A!Cover, SP!A!Active, SP!A!Covers, SP!A!GraceUntil

\* The restricted area (RestrictedArea): the property.
LEMMA AreaSays == SP!A!AreaSound => A!AreaSound
BY DEF A!AreaSound, SP!A!AreaSound

\* The fleet (FleetControl): the first states.
LEMMA FleetBegins == F!Init => CP!F!Init
BY DEF F!Init, F!Blank, F!Nothing, CP!F!Init, CP!F!Blank, CP!F!Nothing

\* The fleet (FleetControl): the steps.
LEMMA FleetMoves == F!Next => CP!F!Next
BY DEF F!Next, F!Start, F!Crash, F!Exit, F!Publish, F!BeginCheckin, F!BeginBlind, F!Fail,
   F!Commands, F!Receive, F!ApplyPlan, F!KeepPlan, F!Finish, F!Replay, F!Probe, F!RunRestart,
   F!CheckRestart, F!RestartLater, F!Paused, F!checkin, F!ghosts, F!Trouble, F!Vanish, F!ctl,
   F!Begin, F!Blank, F!Save, F!Left, F!Newer, F!Schedule, F!Nothing, F!Run, F!Noted, CP!F!Next,
   CP!F!Start, CP!F!Crash, CP!F!Exit, CP!F!Publish, CP!F!BeginCheckin, CP!F!BeginBlind, CP!F!Fail,
   CP!F!Commands, CP!F!Receive, CP!F!ApplyPlan, CP!F!KeepPlan, CP!F!Finish, CP!F!Replay, CP!F!Probe,
   CP!F!RunRestart, CP!F!CheckRestart, CP!F!RestartLater, CP!F!Paused, CP!F!checkin, CP!F!ghosts,
   CP!F!Trouble, CP!F!Vanish, CP!F!ctl, CP!F!Begin, CP!F!Blank, CP!F!Save, CP!F!Left, CP!F!Newer,
   CP!F!Schedule, CP!F!Nothing, CP!F!Run, CP!F!Noted

\* The fleet (FleetControl): the property.
LEMMA FleetSays == CP!F!CommandsSound => F!CommandsSound
BY DEF F!CommandsSound, F!RestartsOnce, F!AnswersKept, F!PlanKept, CP!F!CommandsSound,
   CP!F!RestartsOnce, CP!F!AnswersKept, CP!F!PlanKept

\* The watchdog (OfflineWatchdog): the first states.
LEMMA WatchBegins == W!Init => CP!W!Init
BY DEF W!Init, W!Uploaders, W!NoUpload, CP!W!Init, CP!W!Uploaders, CP!W!NoUpload

\* The watchdog (OfflineWatchdog): the steps.
LEMMA WatchMoves == W!Next => CP!W!Next
BY DEF W!Next, W!Edit, W!Woken, W!TimedOut, W!Outage, W!Back, W!Restart, W!Uploaders, W!Build,
   W!Arrive, W!Fail, W!Receive, W!Tell, W!memory, W!watched, W!Incident, W!NoUpload, W!Done,
   W!Taken, CP!W!Next, CP!W!Edit, CP!W!Woken, CP!W!TimedOut, CP!W!Outage, CP!W!Back, CP!W!Restart,
   CP!W!Uploaders, CP!W!Build, CP!W!Arrive, CP!W!Fail, CP!W!Receive, CP!W!Tell, CP!W!memory,
   CP!W!watched, CP!W!Incident, CP!W!NoUpload, CP!W!Done, CP!W!Taken

\* The watchdog (OfflineWatchdog): the property.
LEMMA WatchSays == CP!W!WatchdogSound => W!WatchdogSound
BY DEF W!WatchdogSound, W!AckedAreTold, W!HeldIsCurrent, CP!W!WatchdogSound, CP!W!AckedAreTold,
   CP!W!HeldIsCurrent

\* All take sizes and greatest numbers from the same library.
LEMMA SameSize ==
  /\ \A x : U!Cardinality(x) = CP!U!Cardinality(x)
  /\ \A x : N!Cardinality(x) = CQ!U!Cardinality(x)
BY DEF U!Cardinality, CP!U!Cardinality, N!Cardinality, CQ!U!Cardinality

LEMMA SameMax == (\A x : U!Max(x) = CP!U!Max(x)) /\ (\A x : N!Max(x) = CQ!U!Max(x))
BY DEF U!Max, CP!U!Max, N!Max, CQ!U!Max

\* The issue log (SupportUploads): the first states.
LEMMA IssueBegins == U!Init => CP!U!Init
BY SameMax, SameSize DEF U!Init, U!Clean, U!NoRows, U!NoFlush, U!Idle, U!reports, U!Unfiled,
   U!Absent, CP!U!Init, CP!U!Clean, CP!U!NoRows, CP!U!NoFlush, CP!U!Idle, CP!U!reports,
   CP!U!Unfiled, CP!U!Absent

\* The issue log (SupportUploads): the steps.
LEMMA IssueMoves == U!Next => CP!U!Next
BY SameMax, SameSize DEF U!Next, U!Capture, U!Prune, U!FlushBegin, U!FlushWrites, U!FlushFails,
   U!File, U!SetByStaff, U!Body, U!Taken, U!UploadFails, U!MarkAccepted, U!Acknowledge,
   U!AcknowledgeDropped, U!CheckIn, U!ApplyUpdates, U!ApplyFails, U!Restart, U!Counted, U!Known,
   U!LastSeen, U!Evict, U!reports, U!Unsent, U!Remove, U!Clean, U!Absent, U!NoFlush, U!Trouble,
   U!TriedAgain, U!Unfiled, U!issues, U!Idle, U!Delta, U!Marked, U!SentNow, U!Continues,
   U!LeftToTell, U!Updated, U!CursorKept, U!Greater, U!Lesser, CP!U!Next, CP!U!Capture, CP!U!Prune,
   CP!U!FlushBegin, CP!U!FlushWrites, CP!U!FlushFails, CP!U!File, CP!U!SetByStaff, CP!U!Body,
   CP!U!Taken, CP!U!UploadFails, CP!U!MarkAccepted, CP!U!Acknowledge, CP!U!AcknowledgeDropped,
   CP!U!CheckIn, CP!U!ApplyUpdates, CP!U!ApplyFails, CP!U!Restart, CP!U!Counted, CP!U!Known,
   CP!U!LastSeen, CP!U!Evict, CP!U!reports, CP!U!Unsent, CP!U!Remove, CP!U!Clean, CP!U!Absent,
   CP!U!NoFlush, CP!U!Trouble, CP!U!TriedAgain, CP!U!Unfiled, CP!U!issues, CP!U!Idle, CP!U!Delta,
   CP!U!Marked, CP!U!SentNow, CP!U!Continues, CP!U!LeftToTell, CP!U!Updated, CP!U!CursorKept,
   CP!U!Greater, CP!U!Lesser

\* The issue log (SupportUploads): the property.
LEMMA IssueSays == CP!U!UploadsSound => U!UploadsSound
BY SameMax, SameSize DEF U!UploadsSound, U!SentIsThere, U!EvictionsTold, U!FileFollows,
   U!ReportsAreTrue, U!reports, CP!U!UploadsSound, CP!U!SentIsThere, CP!U!EvictionsTold,
   CP!U!FileFollows, CP!U!ReportsAreTrue, CP!U!reports

\* The support reports (SupportUploads): the first states.
LEMMA ReportBegins == N!Init => CQ!U!Init
BY SameMax, SameSize DEF N!Init, N!Clean, N!NoRows, N!NoFlush, N!Idle, N!reports, N!Unfiled,
   N!Absent, CQ!U!Init, CQ!U!Clean, CQ!U!NoRows, CQ!U!NoFlush, CQ!U!Idle, CQ!U!reports,
   CQ!U!Unfiled, CQ!U!Absent

\* The support reports (SupportUploads): the steps.
LEMMA ReportMoves == N!Next => CQ!U!Next
BY SameMax, SameSize DEF N!Next, N!Capture, N!Prune, N!FlushBegin, N!FlushWrites, N!FlushFails,
   N!File, N!SetByStaff, N!Body, N!Taken, N!UploadFails, N!MarkAccepted, N!Acknowledge,
   N!AcknowledgeDropped, N!CheckIn, N!ApplyUpdates, N!ApplyFails, N!Restart, N!Counted, N!Known,
   N!LastSeen, N!Evict, N!reports, N!Unsent, N!Remove, N!Clean, N!Absent, N!NoFlush, N!Trouble,
   N!TriedAgain, N!Unfiled, N!issues, N!Idle, N!Delta, N!Marked, N!SentNow, N!Continues,
   N!LeftToTell, N!Updated, N!CursorKept, N!Greater, N!Lesser, CQ!U!Next, CQ!U!Capture, CQ!U!Prune,
   CQ!U!FlushBegin, CQ!U!FlushWrites, CQ!U!FlushFails, CQ!U!File, CQ!U!SetByStaff, CQ!U!Body,
   CQ!U!Taken, CQ!U!UploadFails, CQ!U!MarkAccepted, CQ!U!Acknowledge, CQ!U!AcknowledgeDropped,
   CQ!U!CheckIn, CQ!U!ApplyUpdates, CQ!U!ApplyFails, CQ!U!Restart, CQ!U!Counted, CQ!U!Known,
   CQ!U!LastSeen, CQ!U!Evict, CQ!U!reports, CQ!U!Unsent, CQ!U!Remove, CQ!U!Clean, CQ!U!Absent,
   CQ!U!NoFlush, CQ!U!Trouble, CQ!U!TriedAgain, CQ!U!Unfiled, CQ!U!issues, CQ!U!Idle, CQ!U!Delta,
   CQ!U!Marked, CQ!U!SentNow, CQ!U!Continues, CQ!U!LeftToTell, CQ!U!Updated, CQ!U!CursorKept,
   CQ!U!Greater, CQ!U!Lesser

\* The support reports (SupportUploads): the property.
LEMMA ReportSays == CQ!U!UploadsSound => N!UploadsSound
BY SameMax, SameSize DEF N!UploadsSound, N!SentIsThere, N!EvictionsTold, N!FileFollows,
   N!ReportsAreTrue, N!reports, CQ!U!UploadsSound, CQ!U!SentIsThere, CQ!U!EvictionsTold,
   CQ!U!FileFollows, CQ!U!ReportsAreTrue, CQ!U!reports

\* Calls that cross (RemoteTunnel): the first states.
LEMMA ApplyBegins == O!Init => CP!O!Init
BY DEF O!Init, O!First, O!ShouldRun, O!FirstSup, O!Sups, O!Idle, O!NoSup, CP!O!Init, CP!O!First,
   CP!O!ShouldRun, CP!O!FirstSup, CP!O!Sups, CP!O!Idle, CP!O!NoSup

\* Calls that cross (RemoteTunnel): the steps.
LEMMA ApplyMoves == O!Next => CP!O!Next
BY DEF O!Next, O!Save, O!PlanTurns, O!Apply, O!Sups, O!Supervise, O!CheckNotes, O!CheckSaves,
   O!Restart, O!BeginApply, O!NeedsRestart, O!tunnel, O!Decide, O!Look, O!SetEvent, O!End,
   O!EndAgain, O!Forget, O!Start, O!Prepare, O!PrepareFails, O!Open, O!OpenFails, O!Register,
   O!Check, O!Reap, O!Wait, O!Dies, O!Trouble, O!First, O!FirstSup, O!Idle, O!ShouldRun, O!settings,
   O!ThreadAlive, O!Move, O!Done, O!EndChild, O!Joined, O!StartSupervisor, O!SupMove, O!Otherwise,
   O!NoSup, CP!O!Next, CP!O!Save, CP!O!PlanTurns, CP!O!Apply, CP!O!Sups, CP!O!Supervise,
   CP!O!CheckNotes, CP!O!CheckSaves, CP!O!Restart, CP!O!BeginApply, CP!O!NeedsRestart, CP!O!tunnel,
   CP!O!Decide, CP!O!Look, CP!O!SetEvent, CP!O!End, CP!O!EndAgain, CP!O!Forget, CP!O!Start,
   CP!O!Prepare, CP!O!PrepareFails, CP!O!Open, CP!O!OpenFails, CP!O!Register, CP!O!Check, CP!O!Reap,
   CP!O!Wait, CP!O!Dies, CP!O!Trouble, CP!O!First, CP!O!FirstSup, CP!O!Idle, CP!O!ShouldRun,
   CP!O!settings, CP!O!ThreadAlive, CP!O!Move, CP!O!Done, CP!O!EndChild, CP!O!Joined,
   CP!O!StartSupervisor, CP!O!SupMove, CP!O!Otherwise, CP!O!NoSup

\* Calls that cross (RemoteTunnel): the property.
LEMMA ApplySays == CP!O!TunnelSound => O!TunnelSound
BY DEF O!TunnelSound, O!TunnelAsSaved, O!TunnelIsCurrent, O!FrpcIsWatched, O!SettingsLast, O!AtRest,
   O!ShouldRun, O!ThreadAlive, O!Sups, CP!O!TunnelSound, CP!O!TunnelAsSaved, CP!O!TunnelIsCurrent,
   CP!O!FrpcIsWatched, CP!O!SettingsLast, CP!O!AtRest, CP!O!ShouldRun, CP!O!ThreadAlive, CP!O!Sups

\* A call beside a check (RemoteTunnel): the first states.
LEMMA CheckBegins == D!Init => CQ!O!Init
BY DEF D!Init, D!First, D!ShouldRun, D!FirstSup, D!Sups, D!Idle, D!NoSup, CQ!O!Init, CQ!O!First,
   CQ!O!ShouldRun, CQ!O!FirstSup, CQ!O!Sups, CQ!O!Idle, CQ!O!NoSup

\* A call beside a check (RemoteTunnel): the steps.
LEMMA CheckMoves == D!Next => CQ!O!Next
BY DEF D!Next, D!Save, D!PlanTurns, D!Apply, D!Sups, D!Supervise, D!CheckNotes, D!CheckSaves,
   D!Restart, D!BeginApply, D!NeedsRestart, D!tunnel, D!Decide, D!Look, D!SetEvent, D!End,
   D!EndAgain, D!Forget, D!Start, D!Prepare, D!PrepareFails, D!Open, D!OpenFails, D!Register,
   D!Check, D!Reap, D!Wait, D!Dies, D!Trouble, D!First, D!FirstSup, D!Idle, D!ShouldRun, D!settings,
   D!ThreadAlive, D!Move, D!Done, D!EndChild, D!Joined, D!StartSupervisor, D!SupMove, D!Otherwise,
   D!NoSup, CQ!O!Next, CQ!O!Save, CQ!O!PlanTurns, CQ!O!Apply, CQ!O!Sups, CQ!O!Supervise,
   CQ!O!CheckNotes, CQ!O!CheckSaves, CQ!O!Restart, CQ!O!BeginApply, CQ!O!NeedsRestart, CQ!O!tunnel,
   CQ!O!Decide, CQ!O!Look, CQ!O!SetEvent, CQ!O!End, CQ!O!EndAgain, CQ!O!Forget, CQ!O!Start,
   CQ!O!Prepare, CQ!O!PrepareFails, CQ!O!Open, CQ!O!OpenFails, CQ!O!Register, CQ!O!Check, CQ!O!Reap,
   CQ!O!Wait, CQ!O!Dies, CQ!O!Trouble, CQ!O!First, CQ!O!FirstSup, CQ!O!Idle, CQ!O!ShouldRun,
   CQ!O!settings, CQ!O!ThreadAlive, CQ!O!Move, CQ!O!Done, CQ!O!EndChild, CQ!O!Joined,
   CQ!O!StartSupervisor, CQ!O!SupMove, CQ!O!Otherwise, CQ!O!NoSup

\* A call beside a check (RemoteTunnel): the property.
LEMMA CheckSays == CQ!O!TunnelSound => D!TunnelSound
BY DEF D!TunnelSound, D!TunnelAsSaved, D!TunnelIsCurrent, D!FrpcIsWatched, D!SettingsLast, D!AtRest,
   D!ShouldRun, D!ThreadAlive, D!Sups, CQ!O!TunnelSound, CQ!O!TunnelAsSaved, CQ!O!TunnelIsCurrent,
   CQ!O!FrpcIsWatched, CQ!O!SettingsLast, CQ!O!AtRest, CQ!O!ShouldRun, CQ!O!ThreadAlive, CQ!O!Sups
\* Zone visits (VisitFlush): the first states.
LEMMA VisitBegins == V!Init => SP!V!Init
BY DEF V!Init, V!NoBatch, V!Flushes, SP!V!Init, SP!V!NoBatch, SP!V!Flushes

\* Zone visits (VisitFlush): the steps.
LEMMA VisitMoves == V!Next => SP!V!Next
BY DEF V!Next, V!Start, V!Stop, V!Joined, V!End, V!Enter, V!Touch, V!Exit, V!Flushes, V!Drain,
   V!Commit, V!Fail, V!Orphaned, V!Trouble, V!seen, V!facts, V!Of, V!rows, V!Pending, V!NoBatch,
   V!Buffer, V!MayFlush, V!Duplicate, V!Written, V!Flagged, V!Flushed, V!Kept, V!Dropped, V!Has,
   V!EndsWith, SP!V!Next, SP!V!Start, SP!V!Stop, SP!V!Joined, SP!V!End, SP!V!Enter, SP!V!Touch,
   SP!V!Exit, SP!V!Flushes, SP!V!Drain, SP!V!Commit, SP!V!Fail, SP!V!Orphaned, SP!V!Trouble,
   SP!V!seen, SP!V!facts, SP!V!Of, SP!V!rows, SP!V!Pending, SP!V!NoBatch, SP!V!Buffer,
   SP!V!MayFlush, SP!V!Duplicate, SP!V!Written, SP!V!Flagged, SP!V!Flushed, SP!V!Kept, SP!V!Dropped,
   SP!V!Has, SP!V!EndsWith

\* Zone visits (VisitFlush): the property.
LEMMA VisitSays == SP!V!VisitsAreTrue => V!VisitsAreTrue
BY DEF V!VisitsAreTrue, V!FlushedIsTrue, V!NoGhostVisits, V!Pending, V!Of, V!Flushes,
   SP!V!VisitsAreTrue, SP!V!FlushedIsTrue, SP!V!NoGhostVisits, SP!V!Pending, SP!V!Of, SP!V!Flushes

\* What people say about an alert (AlertReview): the first states.
LEMMA ReviewBegins == Q!Init => SP!Q!Init
BY DEF Q!Init, Q!NoIncident, Q!NoEvent, Q!None, Q!Nobody, SP!Q!Init, SP!Q!NoIncident, SP!Q!NoEvent,
   SP!Q!None, SP!Q!Nobody

\* What people say about an alert (AlertReview): the steps.
LEMMA ReviewMoves == Q!Next => SP!Q!Next
BY DEF Q!Next, Q!Ask, Q!Acknowledge, Q!Send, Q!Refresh, Q!Report, Q!Resolve, Q!See, Q!SeeWith,
   Q!RecordOutcome, Q!RefreshEvent, Q!Plain, Q!Button, Q!ButtonReads, Q!ButtonReadsEvent,
   Q!ButtonEvent, Q!Outcomes, Q!ReadIncident, Q!WriteIncident, Q!To, Q!Nobody, Q!Sending, Q!ghosts,
   Q!StatusOf, Q!Pressing, Q!AsksOutcome, Q!ReadEvent, Q!WriteEvent, Q!Stamp, Q!Handled, Q!Columns,
   Q!None, Q!IsFirst, SP!Q!Next, SP!Q!Ask, SP!Q!Acknowledge, SP!Q!Send, SP!Q!Refresh, SP!Q!Report,
   SP!Q!Resolve, SP!Q!See, SP!Q!SeeWith, SP!Q!RecordOutcome, SP!Q!RefreshEvent, SP!Q!Plain,
   SP!Q!Button, SP!Q!ButtonReads, SP!Q!ButtonReadsEvent, SP!Q!ButtonEvent, SP!Q!Outcomes,
   SP!Q!ReadIncident, SP!Q!WriteIncident, SP!Q!To, SP!Q!Nobody, SP!Q!Sending, SP!Q!ghosts,
   SP!Q!StatusOf, SP!Q!Pressing, SP!Q!AsksOutcome, SP!Q!ReadEvent, SP!Q!WriteEvent, SP!Q!Stamp,
   SP!Q!Handled, SP!Q!Columns, SP!Q!None, SP!Q!IsFirst

\* What people say about an alert (AlertReview): the property.
LEMMA ReviewSays == SP!Q!ReviewSound => Q!ReviewSound
BY DEF Q!ReviewSound, Q!OutcomeCounts, Q!ReportBelongs, Q!FirstKept, Q!OutcomeKept, Q!Review,
   Q!Nobody, Q!None, SP!Q!ReviewSound, SP!Q!OutcomeCounts, SP!Q!ReportBelongs, SP!Q!FirstKept,
   SP!Q!OutcomeKept, SP!Q!Review, SP!Q!Nobody, SP!Q!None

\* Both take the least and the greatest number from the same library.
LEMMA SameLeast == (\A x : I!Min(x) = SP!I!Min(x)) /\ (\A x : I!Max(x) = SP!I!Max(x))
BY DEF I!Min, SP!I!Min, I!Max, SP!I!Max

\* The topics of the findings (InsightTopics): the first states.
LEMMA TopicBegins == I!Init => SP!I!Init
BY SameLeast DEF I!Init, I!Findings, I!NotFound, I!Topics, I!Unused, I!NoRequest, I!NewTopic,
   SP!I!Init, SP!I!Findings, SP!I!NotFound, SP!I!Topics, SP!I!Unused, SP!I!NoRequest, SP!I!NewTopic

\* The topics of the findings (InsightTopics): the steps.
LEMMA TopicMoves == I!Next => SP!I!Next
<1>1. I!Fresh = SP!I!Fresh
  BY SameLeast DEF I!Fresh, I!Topics, SP!I!Fresh, SP!I!Topics
<1>2. \A t : I!LastSeen(t) = SP!I!LastSeen(t)
  BY SameLeast DEF I!LastSeen, I!Members, I!Made, I!Findings, SP!I!LastSeen, SP!I!Members,
     SP!I!Made, SP!I!Findings
<1>3. \A X : I!Newest(X) = SP!I!Newest(X)
  BY <1>2 DEF I!Newest, SP!I!Newest
<1>4. I!NextDay => SP!I!NextDay
  BY DEF I!NextDay, SP!I!NextDay
<1>5. \A holds : I!Persist(holds) => SP!I!Persist(holds)
  BY DEF I!Persist, I!Findings, I!NotFound, SP!I!Persist, SP!I!Findings, SP!I!NotFound
<1>6. \A f : I!Assign(f) => SP!I!Assign(f)
  BY <1>1, <1>3 DEF I!Assign, I!Oldest, I!Unassigned, I!JoinExact, I!JoinSimilar, I!BeginTopic,
     I!Made, I!Exact, I!Join, I!Matchable, I!HasRoom, I!NewTopic, I!Findings, I!Answers,
     I!IsLater, I!Live, I!Split, I!Topics, SP!I!Assign, SP!I!Oldest, SP!I!Unassigned,
     SP!I!JoinExact, SP!I!JoinSimilar, SP!I!BeginTopic, SP!I!Made, SP!I!Exact, SP!I!Join,
     SP!I!Matchable, SP!I!HasRoom, SP!I!NewTopic, SP!I!Findings, SP!I!Answers, SP!I!IsLater,
     SP!I!Live, SP!I!Split, SP!I!Topics
<1>7. (I!SyncBegin => SP!I!SyncBegin) /\ (I!Tidy => SP!I!Tidy) /\ (I!SyncFails => SP!I!SyncFails)
  BY DEF I!SyncBegin, I!Tidy, I!SyncFails, I!Unassigned, I!Live, I!Tidied, I!Made, I!Topics,
     I!Orphans, I!Gone, I!Findings, I!Members, I!NewTopic, SP!I!SyncBegin, SP!I!Tidy,
     SP!I!SyncFails, SP!I!Unassigned, SP!I!Live, SP!I!Tidied, SP!I!Made, SP!I!Topics,
     SP!I!Orphans, SP!I!Gone, SP!I!Findings, SP!I!Members, SP!I!NewTopic
<1>8. \A r : I!Ask(r) => SP!I!Ask(r)
  BY DEF I!Ask, I!Topics, I!Statuses, I!Read, I!Members, I!Live, I!Made, I!Findings, SP!I!Ask,
     SP!I!Topics, SP!I!Statuses, SP!I!Read, SP!I!Members, SP!I!Live, SP!I!Made, SP!I!Findings
<1>9. \A r : I!SetStatus(r) => SP!I!SetStatus(r)
  BY DEF I!SetStatus, I!Columns, I!Copy, I!Serve, I!Statuses, I!Mine, I!Live, I!NoRequest,
     I!Topics, I!Unused, I!NewTopic, SP!I!SetStatus, SP!I!Columns, SP!I!Copy, SP!I!Serve,
     SP!I!Statuses, SP!I!Mine, SP!I!Live, SP!I!NoRequest, SP!I!Topics, SP!I!Unused, SP!I!NewTopic
<1>10. \A r : I!TakeOut(r) => SP!I!TakeOut(r)
  BY <1>1, <1>3 DEF I!TakeOut, I!Serve, I!Members, I!Mine, I!HasRoom, I!NewTopic, I!Split,
     I!NoRequest, I!Made, I!Topics, I!Unused, I!Findings, SP!I!TakeOut, SP!I!Serve, SP!I!Members,
     SP!I!Mine, SP!I!HasRoom, SP!I!NewTopic, SP!I!Split, SP!I!NoRequest, SP!I!Made, SP!I!Topics,
     SP!I!Unused, SP!I!Findings
<1>11. \A r : I!Merge(r) => SP!I!Merge(r)
  BY DEF I!Merge, I!Mine, I!Columns, I!Merged, I!Serve, I!Live, I!Gone, I!Findings, I!Members,
     I!Split, I!Folded, I!Copy, I!NoRequest, I!Topics, I!NewTopic, I!Made, I!Answers, I!Unused,
     SP!I!Merge, SP!I!Mine, SP!I!Columns, SP!I!Merged, SP!I!Serve, SP!I!Live, SP!I!Gone,
     SP!I!Findings, SP!I!Members, SP!I!Split, SP!I!Folded, SP!I!Copy, SP!I!NoRequest, SP!I!Topics,
     SP!I!NewTopic, SP!I!Made, SP!I!Answers, SP!I!Unused
<1>12. \A r : I!Refused(r) => SP!I!Refused(r)
  BY DEF I!Refused, I!Serve, I!Mine, I!Live, I!Members, I!NoRequest, I!Topics, I!Made, I!Unused,
     I!Findings, I!NewTopic, SP!I!Refused, SP!I!Serve, SP!I!Mine, SP!I!Live, SP!I!Members,
     SP!I!NoRequest, SP!I!Topics, SP!I!Made, SP!I!Unused, SP!I!Findings, SP!I!NewTopic
<1> QED
  BY <1>4, <1>5, <1>6, <1>7, <1>8, <1>9, <1>10, <1>11, <1>12 DEF I!Next, SP!I!Next, I!Findings,
     SP!I!Findings

\* The topics of the findings (InsightTopics): the property.
LEMMA TopicSays == SP!I!TopicsSound => I!TopicsSound
BY DEF I!TopicsSound, I!Grouped, I!FutureJoins, I!StaysSplit, I!OpensAgain, I!Made, I!Live,
   I!Matchable, I!Answers, I!Split, I!Findings, I!Topics, SP!I!TopicsSound, SP!I!Grouped,
   SP!I!FutureJoins, SP!I!StaysSplit, SP!I!OpensAgain, SP!I!Made, SP!I!Live, SP!I!Matchable,
   SP!I!Answers, SP!I!Split, SP!I!Findings, SP!I!Topics

\* Both count with the same library.
LEMMA SameLineCount == \A x : L!Cardinality(x) = SP!L!Cardinality(x)
BY DEF L!Cardinality, SP!L!Cardinality

\* Line crossings (Tripwires): the first states.
LEMMA LineBegins == L!Init => SP!L!Init
BY DEF L!Init, L!Fresh, L!Begun, L!Somewhere, L!None, SP!L!Init, SP!L!Fresh, SP!L!Begun,
   SP!L!Somewhere, SP!L!None

\* Line crossings (Tripwires): the steps.
LEMMA LineMoves == L!Next => SP!L!Next
BY DEF L!Next, L!Foot, L!Seen, L!Unseen, L!Removed, L!Drain, L!Commit, L!CommitFails, L!Restart,
   L!Stepped, L!Lived, L!Emitted, L!Due, L!flushVars, L!None, L!Fresh, L!Begun, L!wireVars,
   L!Trouble, L!PutBack, L!LastOf, L!Ids, L!FirstOf, L!Rest, L!Stands, L!Cleared, L!Waits,
   L!Crosses, L!Bounced, L!Flips, L!Somewhere, SP!L!Next, SP!L!Foot, SP!L!Seen, SP!L!Unseen,
   SP!L!Removed, SP!L!Drain, SP!L!Commit, SP!L!CommitFails, SP!L!Restart, SP!L!Stepped, SP!L!Lived,
   SP!L!Emitted, SP!L!Due, SP!L!flushVars, SP!L!None, SP!L!Fresh, SP!L!Begun, SP!L!wireVars,
   SP!L!Trouble, SP!L!PutBack, SP!L!LastOf, SP!L!Ids, SP!L!FirstOf, SP!L!Rest, SP!L!Stands,
   SP!L!Cleared, SP!L!Waits, SP!L!Crosses, SP!L!Bounced, SP!L!Flips, SP!L!Somewhere

\* Line crossings (Tripwires): the property.
LEMMA LineSays == SP!L!CrossingsSound => L!CrossingsSound
BY SameLineCount DEF L!CrossingsSound, L!Balanced, L!RecordedOnce, L!Ids, SP!L!CrossingsSound,
   SP!L!Balanced, SP!L!RecordedOnce, SP!L!Ids

\* Both count with the same library.
LEMMA SameQueueCount == \A x : K!Cardinality(x) = SP!K!Cardinality(x)
BY DEF K!Cardinality, SP!K!Cardinality

\* Queue areas (QueueAreas): the first states.
LEMMA QueueBegins == K!Init => SP!K!Init
BY DEF K!Init, K!Nowhere, SP!K!Init, SP!K!Nowhere

\* Queue areas (QueueAreas): the steps.
LEMMA QueueMoves == K!Next => SP!K!Next
BY DEF K!Next, K!Inside, K!Outside, K!NoFrame, K!CountingOff, K!Tick, K!Entered, K!Over, K!Nowhere,
   SP!K!Next, SP!K!Inside, SP!K!Outside, SP!K!NoFrame, SP!K!CountingOff, SP!K!Tick, SP!K!Entered,
   SP!K!Over, SP!K!Nowhere

\* Queue areas (QueueAreas): the property.
LEMMA QueueSays == SP!K!VisitsSound => K!VisitsSound
BY SameQueueCount DEF K!VisitsSound, K!Stays, K!Nowhere, SP!K!VisitsSound, SP!K!Stays, SP!K!Nowhere

\* Both count with the same library.
LEMMA SameFileCount == \A x : E!Cardinality(x) = KP!E!Cardinality(x)
BY DEF E!Cardinality, KP!E!Cardinality

\* Evidence on the disk (EvidenceStorage): the first states.
LEMMA EvidenceBegins == E!Init => KP!E!Init
BY DEF E!Init, E!Files, E!Incidents, E!NoRow, E!Unknown, E!Cap, E!NoPasses, E!Threads, E!NoPass,
   E!At, KP!E!Init, KP!E!Files, KP!E!Incidents, KP!E!NoRow, KP!E!Unknown, KP!E!Cap, KP!E!NoPasses,
   KP!E!Threads, KP!E!NoPass, KP!E!At

\* Evidence on the disk (EvidenceStorage): the steps.
LEMMA EvidenceMoves == E!Next => KP!E!Next
<1>1. E!disk = KP!E!disk
  BY DEF E!disk, E!Files, E!On, E!Incidents, KP!E!disk, KP!E!Files, KP!E!On, KP!E!Incidents
<1>2. \A X : E!Total(X) = KP!E!Total(X)
  BY SameFileCount DEF E!Total, KP!E!Total
<1>3. \A limit : E!Excess(limit) = KP!E!Excess(limit)
  BY <1>1, <1>2 DEF E!Excess, E!Older, KP!E!Excess, KP!E!Older
<1>4. \A X : E!WithSiblings(X) = KP!E!WithSiblings(X)
  BY <1>1 DEF E!WithSiblings, KP!E!WithSiblings
<1>5. \A f : E!Save(f) => KP!E!Save(f)
  BY SameFileCount DEF E!Save, E!MaySave, E!Files, E!Trouble, E!counts, E!passes, E!history,
     E!Incidents, E!Still, KP!E!Save, KP!E!MaySave, KP!E!Files, KP!E!Trouble, KP!E!counts,
     KP!E!passes, KP!E!history, KP!E!Incidents, KP!E!Still
<1>6. \A f : E!NoteWrite(f) => KP!E!NoteWrite(f)
  BY DEF E!NoteWrite, E!Note, E!history, E!On, E!Unknown, E!Size, E!Mark, E!StartRunner, E!At,
     KP!E!NoteWrite, KP!E!Note, KP!E!history, KP!E!On, KP!E!Unknown, KP!E!Size, KP!E!Mark,
     KP!E!StartRunner, KP!E!At
<1>7. \A f : E!LinkFails(f) => KP!E!LinkFails(f)
  BY DEF E!LinkFails, E!Trouble, E!counts, E!passes, E!history, KP!E!LinkFails, KP!E!Trouble,
     KP!E!counts, KP!E!passes, KP!E!history
<1>8. \A i : E!StoreRow(i) => KP!E!StoreRow(i)
  BY DEF E!StoreRow, E!Still, E!Stored, E!Linked, E!counts, E!passes, E!On, KP!E!StoreRow,
     KP!E!Still, KP!E!Stored, KP!E!Linked, KP!E!counts, KP!E!passes, KP!E!On
<1>9. \A i : E!LinkClip(i) => KP!E!LinkClip(i)
  BY DEF E!LinkClip, E!Clip, E!Linked, E!counts, E!passes, E!On, KP!E!LinkClip, KP!E!Clip,
     KP!E!Linked, KP!E!counts, KP!E!passes, KP!E!On
<1>10. \A t : E!Enter(t) => KP!E!Enter(t)
  BY DEF E!Enter, E!At, E!counts, E!history, KP!E!Enter, KP!E!At, KP!E!counts, KP!E!history
<1>11. \A t : E!Scan(t) => KP!E!Scan(t)
  BY <1>1, <1>3, <1>4 DEF E!Scan, E!counts, E!history, KP!E!Scan, KP!E!counts, KP!E!history
<1>12. \A t : E!Delete(t) => KP!E!Delete(t)
  BY DEF E!Delete, E!Trouble, E!Files, E!counts, E!history, E!Incidents, KP!E!Delete, KP!E!Trouble,
     KP!E!Files, KP!E!counts, KP!E!history, KP!E!Incidents
<1>13. \A t : E!MarkExpired(t) => KP!E!MarkExpired(t)
  BY <1>1, <1>2 DEF E!MarkExpired, E!At, E!Still, E!Incidents, E!Expired, E!Trouble, E!Unnoted,
     E!Files, KP!E!MarkExpired, KP!E!At, KP!E!Still, KP!E!Incidents, KP!E!Expired, KP!E!Trouble,
     KP!E!Unnoted, KP!E!Files
<1>14. \A t : E!Release(t) => KP!E!Release(t)
  BY DEF E!Release, E!At, E!NoPass, E!counts, E!history, KP!E!Release, KP!E!At, KP!E!NoPass,
     KP!E!counts, KP!E!history
<1>15. \A t : E!Reread(t) => KP!E!Reread(t)
  BY DEF E!Reread, E!Again, E!At, E!NoPass, E!counts, E!history, KP!E!Reread, KP!E!Again, KP!E!At,
     KP!E!NoPass, KP!E!counts, KP!E!history
<1>16. E!Crash => KP!E!Crash
  BY DEF E!Crash, E!Trouble, E!Files, E!Still, E!Unknown, E!Cap, E!NoPasses, E!Threads, E!Incidents,
     E!NoPass, E!At, KP!E!Crash, KP!E!Trouble, KP!E!Files, KP!E!Still, KP!E!Unknown, KP!E!Cap,
     KP!E!NoPasses, KP!E!Threads, KP!E!Incidents, KP!E!NoPass, KP!E!At
<1> QED BY <1>5, <1>6, <1>7, <1>8, <1>9, <1>10, <1>11, <1>12, <1>13, <1>14, <1>15, <1>16 DEF E!Next,
     E!Files, E!Incidents, E!Threads, KP!E!Next, KP!E!Files, KP!E!Incidents, KP!E!Threads

\* Evidence on the disk (EvidenceStorage): the property.
LEMMA EvidenceSays == KP!E!EvidenceSound => E!EvidenceSound
BY SameFileCount DEF E!EvidenceSound, E!LinksAreTrue, E!TakenTogether, E!CountHolds,
   E!OverIsFollowed, E!Incidents, E!On, E!BeingMarked, E!Threads, E!Still, E!Clip, E!Unknown,
   E!Total, E!disk, E!Unnoted, E!AtRest, E!Files, KP!E!EvidenceSound, KP!E!LinksAreTrue,
   KP!E!TakenTogether, KP!E!CountHolds, KP!E!OverIsFollowed, KP!E!Incidents, KP!E!On,
   KP!E!BeingMarked, KP!E!Threads, KP!E!Still, KP!E!Clip, KP!E!Unknown, KP!E!Total, KP!E!disk,
   KP!E!Unnoted, KP!E!AtRest, KP!E!Files

\* Both count with the same library.
LEMMA SameClipCount == \A x : C!Cardinality(x) = KP!C!Cardinality(x)
BY DEF C!Cardinality, KP!C!Cardinality

\* Incidents and their clips (IncidentClips): the first states.
LEMMA ClipBegins == C!Init => KP!C!Init
BY DEF C!Init, C!NoTries, C!NoStills, C!NoFlush, C!Incidents, C!Nothing, C!NoEntry, C!NoClips,
   C!NoLinks, KP!C!Init, KP!C!NoTries, KP!C!NoStills, KP!C!NoFlush, KP!C!Incidents, KP!C!Nothing,
   KP!C!NoEntry, KP!C!NoClips, KP!C!NoLinks

\* Incidents and their clips (IncidentClips): the steps.
LEMMA ClipMoves == C!Next => KP!C!Next
BY SameClipCount DEF C!Next, C!See, C!Take, C!WriteStill, C!Commit, C!CommitFails, C!StartClip,
   C!Flushed, C!Restart, C!Incidents, C!Recorded, C!Pop, C!Link, C!Newest, C!clips, C!history,
   C!Oldest, C!Unpictured, C!Trouble, C!Pictured, C!Plain, C!InFront, C!NoFlush, C!Shares, C!Share,
   C!ThreadStarts, C!Nothing, C!NoTries, C!NoStills, C!NoEntry, C!NoClips, C!NoLinks, C!writer,
   C!InEntry, C!Covers, KP!C!Next, KP!C!See, KP!C!Take, KP!C!WriteStill, KP!C!Commit,
   KP!C!CommitFails, KP!C!StartClip, KP!C!Flushed, KP!C!Restart, KP!C!Incidents, KP!C!Recorded,
   KP!C!Pop, KP!C!Link, KP!C!Newest, KP!C!clips, KP!C!history, KP!C!Oldest, KP!C!Unpictured,
   KP!C!Trouble, KP!C!Pictured, KP!C!Plain, KP!C!InFront, KP!C!NoFlush, KP!C!Shares, KP!C!Share,
   KP!C!ThreadStarts, KP!C!Nothing, KP!C!NoTries, KP!C!NoStills, KP!C!NoEntry, KP!C!NoClips,
   KP!C!NoLinks, KP!C!writer, KP!C!InEntry, KP!C!Covers

\* Incidents and their clips (IncidentClips): the property.
LEMMA ClipSays == KP!C!ClipsSound => C!ClipsSound
BY SameClipCount DEF C!ClipsSound, C!SharedClipCovers, C!SharersAreLinked, C!NothingForgotten,
   C!Incidents, C!Covers, C!BeingStored, C!Stored, C!Nothing, KP!C!ClipsSound,
   KP!C!SharedClipCovers, KP!C!SharersAreLinked, KP!C!NothingForgotten, KP!C!Incidents, KP!C!Covers,
   KP!C!BeingStored, KP!C!Stored, KP!C!Nothing

\* Both count with the same library.
LEMMA SameCopyCount == \A x : B!Cardinality(x) = KP!B!Cardinality(x)
BY DEF B!Cardinality, KP!B!Cardinality

\* The copies of the database (Backups): the first states.
LEMMA BackupBegins == B!Init => KP!B!Init
BY DEF B!Init, B!Places, B!NoCopy, B!Procs, B!Down, B!NoPass, B!NoRestore, B!NoFile, B!Plain,
   KP!B!Init, KP!B!Places, KP!B!NoCopy, KP!B!Procs, KP!B!Down, KP!B!NoPass, KP!B!NoRestore,
   KP!B!NoFile, KP!B!Plain

\* The copies of the database (Backups): the steps.
LEMMA BackupMoves == B!Next => KP!B!Next
<1>1. B!Entries = KP!B!Entries
  BY DEF B!Entries, B!File, B!Places, B!Plain, B!Packed, KP!B!Entries, KP!B!File, KP!B!Places,
     KP!B!Plain, KP!B!Packed
<1>2. \A X, n : B!Newest(X, n) = KP!B!Newest(X, n)
  BY SameCopyCount DEF B!Newest, B!Newer, B!Packed, B!Plain, KP!B!Newest, KP!B!Newer, KP!B!Packed,
     KP!B!Plain
<1>3. \A X : B!Kept(X) = KP!B!Kept(X)
  BY <1>2 DEF B!Kept, B!OfKind, B!KeepOf, B!Kinds, KP!B!Kept, KP!B!OfKind, KP!B!KeepOf, KP!B!Kinds
<1>4. \A X : B!Without(X) = KP!B!Without(X)
  BY DEF B!Without, B!Places, B!Left, B!NoCopy, B!File, KP!B!Without, KP!B!Places, KP!B!Left,
     KP!B!NoCopy, KP!B!File
<1>5. \A X : B!Total(X) = KP!B!Total(X)
  BY SameCopyCount DEF B!Total, B!Plain, KP!B!Total, KP!B!Plain
<1>6. \A n : B!Over(n) = KP!B!Over(n)
  BY <1>1, <1>5 DEF B!Over, B!MayGo, B!Sooner, B!Newer, B!Packed, B!Plain, KP!B!Over, KP!B!MayGo,
     KP!B!Sooner, KP!B!Newer, KP!B!Packed, KP!B!Plain
<1>7. B!Relied = KP!B!Relied
  BY DEF B!Relied, B!Ids, B!Procs, B!Places, KP!B!Relied, KP!B!Ids, KP!B!Procs, KP!B!Places
<1>8. B!MarkerAges => KP!B!MarkerAges
  BY DEF B!MarkerAges, B!files, B!history, KP!B!MarkerAges, KP!B!files, KP!B!history
<1>9. B!Manual => KP!B!Manual
  BY DEF B!Manual, B!Serving, B!Copy, B!history, B!Plain, KP!B!Manual, KP!B!Serving, KP!B!Copy,
     KP!B!history, KP!B!Plain
<1>10. B!Night => KP!B!Night
  BY DEF B!Night, B!Serving, B!Copy, B!files, B!history, B!Plain, KP!B!Night, KP!B!Serving,
     KP!B!Copy, KP!B!files, KP!B!history, KP!B!Plain
<1>11. B!Scan => KP!B!Scan
  BY <1>1, <1>2, <1>3 DEF B!Scan, B!NoPass, B!OfKind, B!files, B!history, B!NoFile, B!Plain,
     KP!B!Scan, KP!B!NoPass, KP!B!OfKind, KP!B!files, KP!B!history, KP!B!NoFile, KP!B!Plain
<1>12. B!Drop => KP!B!Drop
  BY SameCopyCount, <1>2, <1>4 DEF B!Drop, B!TooFewNewer, B!Ids, B!IdsAfter, B!OfKind, B!Plain,
     B!NewerOfKind, B!KeepOf, B!Places, KP!B!Drop, KP!B!TooFewNewer, KP!B!Ids, KP!B!IdsAfter,
     KP!B!OfKind, KP!B!Plain, KP!B!NewerOfKind, KP!B!KeepOf, KP!B!Places
<1>13. B!ZipOne => KP!B!ZipOne
  BY <1>2 DEF B!ZipOne, B!WithForms, B!Packed, B!history, KP!B!ZipOne, KP!B!WithForms, KP!B!Packed,
     KP!B!history
<1>14. B!KeepBudget => KP!B!KeepBudget
  BY <1>4, <1>6, <1>7 DEF B!KeepBudget, B!IdsAfter, B!NoPass, B!Places, B!NoFile, B!Plain,
     KP!B!KeepBudget, KP!B!IdsAfter, KP!B!NoPass, KP!B!Places, KP!B!NoFile, KP!B!Plain
<1>15. B!Choose => KP!B!Choose
  BY <1>1 DEF B!Choose, B!Serving, B!files, B!history, KP!B!Choose, KP!B!Serving, KP!B!files,
     KP!B!history
<1>16. B!Secure => KP!B!Secure
  BY DEF B!Secure, B!Serving, B!Copy, B!Trouble, B!Given, B!files, B!history, B!Plain, B!NoRestore,
     B!NoFile, KP!B!Secure, KP!B!Serving, KP!B!Copy, KP!B!Trouble, KP!B!Given, KP!B!files,
     KP!B!history, KP!B!Plain, KP!B!NoRestore, KP!B!NoFile
<1>17. B!Put => KP!B!Put
  BY <1>1 DEF B!Put, B!Serving, B!There, B!Procs, B!NoRestore, B!files, B!NoFile, B!Plain, KP!B!Put,
     KP!B!Serving, KP!B!There, KP!B!Procs, KP!B!NoRestore, KP!B!files, KP!B!NoFile, KP!B!Plain
<1>18. \A p : B!Begin(p) => KP!B!Begin(p)
  BY DEF B!Begin, B!files, KP!B!Begin, KP!B!files
<1>19. \A p : B!Enter(p) => KP!B!Enter(p)
  BY DEF B!Enter, B!Turn, B!Pending, B!files, B!history, B!Versions, KP!B!Enter, KP!B!Turn,
     KP!B!Pending, KP!B!files, KP!B!history, KP!B!Versions
<1>20. \A p : B!NoCopyNeeded(p) => KP!B!NoCopyNeeded(p)
  BY DEF B!NoCopyNeeded, B!Needed, B!GoOn, B!files, B!history, KP!B!NoCopyNeeded, KP!B!Needed,
     KP!B!GoOn, KP!B!files, KP!B!history
<1>21. \A p : B!CopyFirst(p) => KP!B!CopyFirst(p)
  BY DEF B!CopyFirst, B!Needed, B!Copy, B!GoOn, B!history, B!Plain, KP!B!CopyFirst, KP!B!Needed,
     KP!B!Copy, KP!B!GoOn, KP!B!history, KP!B!Plain
<1>22. \A p : B!CopyFails(p) => KP!B!CopyFails(p)
  BY DEF B!CopyFails, B!Needed, B!Trouble, B!MayGoWithout, B!Skip, B!files, B!history, B!Additive,
     B!GoOn, B!Leave, B!Down, KP!B!CopyFails, KP!B!Needed, KP!B!Trouble, KP!B!MayGoWithout,
     KP!B!Skip, KP!B!files, KP!B!history, KP!B!Additive, KP!B!GoOn, KP!B!Leave, KP!B!Down
<1>23. \A p : B!NoCopyTried(p) => KP!B!NoCopyTried(p)
  BY DEF B!NoCopyTried, B!Needed, B!Trouble, B!MayGoWithout, B!Skip, B!files, B!history, B!Additive,
     B!GoOn, B!Leave, B!Down, KP!B!NoCopyTried, KP!B!Needed, KP!B!Trouble, KP!B!MayGoWithout,
     KP!B!Skip, KP!B!files, KP!B!history, KP!B!Additive, KP!B!GoOn, KP!B!Leave, KP!B!Down
<1>24. \A p : B!ApplyOne(p) => KP!B!ApplyOne(p)
  BY DEF B!ApplyOne, B!NextOf, B!Leave, B!Trouble, B!files, B!Down, KP!B!ApplyOne, KP!B!NextOf,
     KP!B!Leave, KP!B!Trouble, KP!B!files, KP!B!Down
<1>25. \A p : B!Finish(p) => KP!B!Finish(p)
  BY DEF B!Finish, B!Down, B!files, B!history, KP!B!Finish, KP!B!Down, KP!B!files, KP!B!history
<1>26. \A p : B!Exit(p) => KP!B!Exit(p)
  BY <1>2 DEF B!Exit, B!Trouble, B!Leave, B!NoPass, B!NoRestore, B!WithForms, B!Plain, B!Packed,
     B!Down, B!NoFile, KP!B!Exit, KP!B!Trouble, KP!B!Leave, KP!B!NoPass, KP!B!NoRestore,
     KP!B!WithForms, KP!B!Plain, KP!B!Packed, KP!B!Down, KP!B!NoFile
<1> QED BY <1>8, <1>9, <1>10, <1>11, <1>12, <1>13, <1>14, <1>15, <1>16, <1>17, <1>18, <1>19, <1>20,
     <1>21, <1>22, <1>23, <1>24, <1>25, <1>26 DEF B!Next, B!Procs, KP!B!Next, KP!B!Procs

\* The copies of the database (Backups): the property.
LEMMA BackupSays == KP!B!BackupsSound => B!BackupsSound
BY SameCopyCount DEF B!BackupsSound, B!ServedIsCurrent, B!InOrder, B!UpgradeHasCopy, B!SafetyStays,
   B!LastStays, B!KeptOfKind, B!Serving, B!Versions, B!Procs, B!Squeezed, B!Ids, B!Places,
   KP!B!BackupsSound, KP!B!ServedIsCurrent, KP!B!InOrder, KP!B!UpgradeHasCopy, KP!B!SafetyStays,
   KP!B!LastStays, KP!B!KeptOfKind, KP!B!Serving, KP!B!Versions, KP!B!Procs, KP!B!Squeezed,
   KP!B!Ids, KP!B!Places

\* Both count with the same library.
LEMMA SamePhoneCount ==
  /\ \A x : P!Cardinality(x) = SP!P!Cardinality(x)
  /\ \A x : IsFiniteSet(x) <=> SP!IsFiniteSet(x)
BY DEF P!Cardinality, SP!P!Cardinality, IsFiniteSet, SP!IsFiniteSet

\* Pairing and revocation (PhoneAccess): the types.
LEMMA PhoneTyped == SP!P!TypeOK => P!TypeOK
BY SamePhoneCount DEF P!TypeOK, P!Rows, SP!P!TypeOK, SP!P!Rows

\* The alert sockets (AlertSockets): the types.
LEMMA SocketTyped == SP!S!TypeOK => S!TypeOK
BY DEF S!TypeOK, S!Walkers, SP!S!TypeOK, SP!S!Walkers

\* Sessions and sign-outs (TokenRevocations): the types.
LEMMA TokenTyped == SP!T!TypeOK => T!TypeOK
BY DEF T!TypeOK, T!Times, SP!T!TypeOK, SP!T!Times

\* The recorder's channels (RecorderSubstreams): the types.
LEMMA RecTyped == SP!R!TypeOK => R!TypeOK
BY DEF R!TypeOK, R!Channels, R!Unsaved, R!Settings, SP!R!TypeOK, SP!R!Channels, SP!R!Unsaved,
   SP!R!Settings

\* The restricted area (RestrictedArea): the types.
LEMMA AreaTyped == SP!A!TypeOK => A!TypeOK
BY DEF A!TypeOK, A!Triggers, A!Never, A!Announcement, A!Callers, SP!A!TypeOK, SP!A!Triggers,
   SP!A!Never, SP!A!Announcement, SP!A!Callers

\* Zone visits (VisitFlush): the types.
LEMMA VisitTyped == SP!V!TypeOK => V!TypeOK
BY DEF V!TypeOK, V!Facts, V!Flushes, SP!V!TypeOK, SP!V!Facts, SP!V!Flushes

\* What people say about an alert (AlertReview): the types.
LEMMA ReviewTyped == SP!Q!TypeOK => Q!TypeOK
BY DEF Q!TypeOK, Q!Kinds, Q!Outcomes, Q!Nobody, Q!None, SP!Q!TypeOK, SP!Q!Kinds, SP!Q!Outcomes,
   SP!Q!Nobody, SP!Q!None

\* The topics of the findings (InsightTopics): the types.
LEMMA TopicTyped == SP!I!TypeOK => I!TypeOK
BY DEF I!TypeOK, I!Keys, I!Findings, I!Topics, I!TopicRow, I!Statuses, I!Split, SP!I!TypeOK,
   SP!I!Keys, SP!I!Findings, SP!I!Topics, SP!I!TopicRow, SP!I!Statuses, SP!I!Split

\* Line crossings (Tripwires): the types.
LEMMA LineTyped == SP!L!TypeOK => L!TypeOK
BY DEF L!TypeOK, L!None, L!Sides, L!Foot, SP!L!TypeOK, SP!L!None, SP!L!Sides, SP!L!Foot

\* Queue areas (QueueAreas): the types.
LEMMA QueueTyped == SP!K!TypeOK => K!TypeOK
BY DEF K!TypeOK, SP!K!TypeOK

\* Evidence on the disk (EvidenceStorage): the types.
LEMMA EvidenceTyped == KP!E!TypeOK => E!TypeOK
BY DEF E!TypeOK, E!Files, E!Incidents, E!Threads, E!Unknown, KP!E!TypeOK, KP!E!Files,
   KP!E!Incidents, KP!E!Threads, KP!E!Unknown

\* The clips (IncidentClips): the types.
LEMMA ClipTyped == KP!C!TypeOK => C!TypeOK
BY DEF C!TypeOK, C!Incidents, C!Nothing, C!Plain, KP!C!TypeOK, KP!C!Incidents, KP!C!Nothing,
   KP!C!Plain

\* The copies of the database (Backups): the types.
LEMMA BackupTyped == KP!B!TypeOK => B!TypeOK
BY DEF B!TypeOK, B!Places, B!Procs, B!FileType, B!Packed, B!Plain, B!Kinds, B!Versions, KP!B!TypeOK,
   KP!B!Places, KP!B!Procs, KP!B!FileType, KP!B!Packed, KP!B!Plain, KP!B!Kinds, KP!B!Versions

\* The fleet (FleetControl): the types.
LEMMA FleetTyped == CP!F!TypeOK => F!TypeOK
BY DEF F!TypeOK, F!Commands, F!Row, CP!F!TypeOK, CP!F!Commands, CP!F!Row

\* The watchdog (OfflineWatchdog): the types.
LEMMA WatchTyped == CP!W!TypeOK => W!TypeOK
BY DEF W!TypeOK, W!Uploaders, CP!W!TypeOK, CP!W!Uploaders

\* The issue log (SupportUploads): the types.
LEMMA IssueTyped == CP!U!TypeOK => U!TypeOK
BY DEF U!TypeOK, U!RowType, CP!U!TypeOK, CP!U!RowType

\* The support reports (SupportUploads): the types.
LEMMA ReportTyped == CQ!U!TypeOK => N!TypeOK
BY DEF N!TypeOK, N!RowType, CQ!U!TypeOK, CQ!U!RowType

\* Calls that cross (RemoteTunnel): the types.
LEMMA ApplyTyped == CP!O!TypeOK => O!TypeOK
BY DEF O!TypeOK, O!Sups, O!Settings, CP!O!TypeOK, CP!O!Sups, CP!O!Settings

\* A call beside a check (RemoteTunnel): the types.
LEMMA CheckTyped == CQ!O!TypeOK => D!TypeOK
BY DEF D!TypeOK, D!Sups, D!Settings, CQ!O!TypeOK, CQ!O!Sups, CQ!O!Settings

-------------------------------------------------------------------------------
(* The part that moves keeps its invariant; the choice of it is for good.  *)

PhonesInv == part = "phones" => SP!PhoneInv
SignOutInv == (part = "sockets" => SP!SocketInv) /\ (part = "tokens" => SP!TokenInv)
ChangeInv == part = "recorder" => SP!RecInv
GuardInv == part = "area" => SP!AreaInv
RecordsInv ==
  (part = "visits" => SP!VisitInv) /\ (part = "review" => SP!ReviewInv)
  /\ (part = "topics" => SP!TopicInv) /\ (part = "lines" => SP!LineInv)
  /\ (part = "queues" => SP!QueueInv)
KeptInv == (part = "evidence" => KP!EvidenceInv) /\ (part = "clips" => KP!ClipInv)
CopiesInv == part = "backups" => KP!BackupInv
CloudInv ==
  (part = "fleet" => CP!FleetInv) /\ (part = "watchdog" => CP!WatchInv)
  /\ (part = "issues" => CP!UploadInv) /\ (part = "reports" => CQ!UploadInv)
  /\ (part = "applies" => CP!TunnelInv) /\ (part = "checks" => CQ!TunnelInv)

\* A step of the store is a step of the part, or leaves its variables alone.
LEMMA PartMoves ==
  ASSUME [Next]_vars
  PROVE  /\ part' = part
         /\ part = "phones" => [SP!P!Next]_(SP!P!vars)
         /\ part = "sockets" => [SP!S!Next]_(SP!S!vars)
         /\ part = "tokens" => [SP!T!Next]_(SP!T!vars)
         /\ part = "recorder" => [SP!R!Next]_(SP!R!vars)
         /\ part = "area" => [SP!A!Next]_(SP!A!vars)
         /\ part = "visits" => [SP!V!Next]_(SP!V!vars)
         /\ part = "review" => [SP!Q!Next]_(SP!Q!vars)
         /\ part = "topics" => [SP!I!Next]_(SP!I!vars)
         /\ part = "lines" => [SP!L!Next]_(SP!L!vars)
         /\ part = "queues" => [SP!K!Next]_(SP!K!vars)
         /\ part = "evidence" => [KP!E!Next]_(KP!E!vars)
         /\ part = "clips" => [KP!C!Next]_(KP!C!vars)
         /\ part = "backups" => [KP!B!Next]_(KP!B!vars)
         /\ part = "fleet" => [CP!F!Next]_(CP!F!vars)
         /\ part = "watchdog" => [CP!W!Next]_(CP!W!vars)
         /\ part = "issues" => [CP!U!Next]_(CP!U!vars)
         /\ part = "reports" => [CQ!U!Next]_(CQ!U!vars)
         /\ part = "applies" => [CP!O!Next]_(CP!O!vars)
         /\ part = "checks" => [CQ!O!Next]_(CQ!O!vars)
<1>1. CASE UNCHANGED vars
  BY <1>1 DEF vars, SP!P!vars, SP!S!vars, SP!T!vars, SP!T!memory, SP!T!table, SP!T!signouts,
     SP!T!answers, SP!R!vars, SP!R!recorder, SP!R!progress, SP!R!ghosts, SP!A!vars, SP!A!refresh,
     SP!A!engine, SP!V!vars, SP!V!seen, SP!V!facts, SP!V!rows, SP!Q!vars, SP!Q!ghosts, SP!I!vars,
     SP!L!vars, SP!L!wireVars, SP!L!flushVars, SP!K!vars, KP!E!vars, KP!E!counts, KP!E!passes,
     KP!E!history, KP!C!vars, KP!C!writer, KP!C!clips, KP!C!history, KP!B!vars, KP!B!files,
     KP!B!history, CP!F!vars, CP!F!ctl, CP!F!checkin, CP!F!ghosts, CP!W!vars, CP!W!memory,
     CP!W!watched, CP!U!vars, CQ!U!vars, CP!O!vars, CP!O!settings, CP!O!tunnel, CQ!O!vars,
     CQ!O!settings, CQ!O!tunnel
<1>2. CASE Next
  BY <1>2, PhoneMoves, SocketMoves, TokenMoves, RecMoves, AreaMoves, VisitMoves, ReviewMoves,
     TopicMoves, LineMoves, QueueMoves, EvidenceMoves, ClipMoves, BackupMoves, FleetMoves,
     WatchMoves, IssueMoves, ReportMoves, ApplyMoves, CheckMoves DEF Next
<1> QED BY <1>1, <1>2

\* A pairing code lets one phone in, and a phone whose revocation was confirmed is
\* refused from then on, for every number of requests, checks, rows and troubles
\* (services/pairing_service.py).
THEOREM AccessSoundHolds == Spec => []AccessSound
<1>1. Init => PhonesInv
  BY PhoneBegins, SP!PhoneInit DEF Init, PhonesInv
<1>2. PhonesInv /\ [Next]_vars => PhonesInv'
  BY PartMoves, SP!PhoneNext DEF PhonesInv
<1>3. PhonesInv => AccessSound
  BY SP!PhoneSafe, PhoneSays DEF PhonesInv, AccessSound
<1> QED BY <1>1, <1>2, <1>3, PTL DEF Spec

\* An answered sign-out leaves no socket open and no alert on its way, and no
\* session that was signed out is accepted again, for every number of sockets,
\* sessions, failed writes and restarts (services/notification_service.py,
\* token_revocation.py, auth_service.py).
THEOREM SignOutSoundHolds == Spec => []SignOutSound
<1>1. Init => SignOutInv
  BY SocketBegins, TokenBegins, SP!SocketInit, SP!TokenInit DEF Init, SignOutInv
<1>2. SignOutInv /\ [Next]_vars => SignOutInv'
  BY PartMoves, SP!SocketNext, SP!TokenNext DEF SignOutInv
<1>3. SignOutInv => SignOutSound
  BY SocketSays, TokenSays, SP!TokenSafe DEF SignOutInv, SignOutSound, SP!SocketInv
<1> QED BY <1>1, <1>2, <1>3, PTL DEF Spec

\* What a channel had before its last change is on disk, what a run says of a
\* channel is so, and in a run one request at most is rejected, beside the
\* openings of one check, for every number of channels, attempts, runs and
\* troubles (services/recorder_substreams.py).
THEOREM ChangeSoundHolds == Spec => []ChangeSound
<1>1. Init => ChangeInv
  BY RecBegins, SP!RecInit, StoreAssumption DEF Init, ChangeInv
<1>2. ChangeInv /\ [Next]_vars => ChangeInv'
  BY PartMoves, SP!RecNext DEF ChangeInv
<1>3. ChangeInv => ChangeSound
  BY RecSays DEF ChangeInv, ChangeSound, SP!RecInv
<1> QED BY <1>1, <1>2, <1>3, PTL DEF Spec

\* No alarm on somebody whom an answered announcement allows, and nobody stays in
\* a guarded area without one, for every number of people and announcements and
\* all lengths and graces (services/restricted_areas.py and the engine beside it).
THEOREM AreaSoundHolds == Spec => []AreaSound
<1>0. SP!AreaBounds
  BY StoreAssumption DEF SP!AreaBounds
<1>1. Init => GuardInv
  BY <1>0, AreaBegins, SP!AreaInit DEF Init, GuardInv
<1>2. GuardInv /\ [Next]_vars => GuardInv'
  BY PartMoves, SP!AreaNext DEF GuardInv
<1>3. GuardInv => AreaSound
  BY AreaSays, SP!AreaSafe DEF GuardInv, AreaSound
<1> QED BY <1>1, <1>2, <1>3, PTL DEF Spec

\* A visit's row says what the camera saw unless a fact was dropped; what people said
\* about an alert stays unless requests crossed; findings stay in the topic they were
\* grouped, merged or split into; ins and outs balance and each crossing is recorded
\* once; a queue area's visits are the stays the frames showed: for every number of
\* visits, requests, findings, topics, frames and failures (pipeline_supervisor.py,
\* theft_detection_service.py, routes/events.py, insight_topics.py, tripwire_engine.py).
THEOREM RecordsAreTrueHolds == Spec => []RecordsAreTrue
<1>0. SP!VisitBounds /\ SP!ReviewBounds /\ SP!TopicBounds /\ SP!LineBounds /\ SP!QueueBounds
  <2>1. SP!VisitBounds /\ SP!LineBounds /\ SP!QueueBounds
    BY StoreAssumption DEF SP!VisitBounds, SP!LineBounds, SP!QueueBounds
  <2>2. SP!ReviewBounds
    BY StoreAssumption DEF SP!ReviewBounds, SP!Q!Nobody
  <2>3. SP!TopicBounds
    BY StoreAssumption DEF SP!TopicBounds, SP!I!Split, SP!I!Keys, SP!I!Findings
  <2> QED BY <2>1, <2>2, <2>3
<1>1. Init => RecordsInv
  BY <1>0, VisitBegins, ReviewBegins, TopicBegins, LineBegins, QueueBegins, SP!VisitInit,
     SP!ReviewInit, SP!TopicInit, SP!LineInit, SP!QueueInit DEF Init, RecordsInv
<1>2. RecordsInv /\ [Next]_vars => RecordsInv'
  BY <1>0, PartMoves, SP!VisitNext, SP!ReviewNext, SP!TopicNext, SP!LineNext, SP!QueueNext
     DEF RecordsInv
<1>3. RecordsInv => RecordsAreTrue
  BY <1>0, VisitSays, ReviewSays, TopicSays, LineSays, QueueSays, SP!VisitSafe, SP!ReviewSafe,
     SP!TopicSafe, SP!LineSafe, SP!QueueSafe DEF RecordsInv, RecordsAreTrue
<1> QED BY <1>1, <1>2, <1>3, PTL DEF Spec

\* A row links a file that is there, unless its deletion was not recorded or came
\* before the link; the count is not below what the disk holds; the limit exceeded
\* is followed by a pass; an incident is linked to a clip that covers it, and none
\* is forgotten: for every number of incidents, limits, threads and troubles, and
\* whenever the incidents happen (services/evidence_storage.py, pose_analytics.py,
\* clip_recorder.py).
THEOREM EvidenceSoundHolds == Spec => []EvidenceSound
<1>0. KP!EvidenceBounds /\ KP!ClipBounds
  BY StoreAssumption DEF KP!EvidenceBounds, KP!ClipBounds, KP!E!Threads
<1>1. Init => KeptInv
  BY <1>0, EvidenceBegins, ClipBegins, KP!EvidenceStart, KP!ClipStart DEF Init, KeptInv
<1>2. KeptInv /\ [Next]_vars => KeptInv'
  BY <1>0, PartMoves, KP!EvidenceNext, KP!ClipNext DEF KeptInv
<1>3. KeptInv => EvidenceSound
  BY EvidenceSays, ClipSays, KP!EvidenceSafe, KP!ClipSafe DEF KeptInv, EvidenceSound
<1> QED BY <1>1, <1>2, <1>3, PTL DEF Spec

\* The server runs on a database of its release, migrations are applied in their
\* order and those that change more than by adding with a copy made first, the copy
\* of what a restore replaces stays, and one copy is always left: for every number
\* of migrations, copies and budgets (migrations/runner.py,
\* services/backup_service.py, routes/system.py).
THEOREM BackupsSoundHolds == Spec => []BackupsSound
<1>0. KP!BackupBounds
  BY StoreAssumption DEF KP!BackupBounds
<1>1. Init => CopiesInv
  BY <1>0, BackupBegins, KP!BackupStart DEF Init, CopiesInv
<1>2. CopiesInv /\ [Next]_vars => CopiesInv'
  BY <1>0, PartMoves, KP!BackupNext DEF CopiesInv
<1>3. CopiesInv => BackupsSound
  BY BackupSays, KP!BackupSafe DEF CopiesInv, BackupsSound
<1> QED BY <1>1, <1>2, <1>3, PTL DEF Spec

\* A restart command restarts once and every command is answered; an outage the
\* VPS forgets was told to the phones; what support is said to have, it has, and a
\* report shows what it said last; the tunnel is up as the settings saved last say:
\* for every number of commands, plans, edits, outages, rows, reports, calls and
\* troubles (services/fleet_control.py, offline_watchdog.py, issue_log.py,
\* support_reports.py, remote_access_service.py).
THEOREM CloudSoundHolds == Spec => []CloudSound
<1>0. CP!FleetNames /\ CP!TunnelBounds /\ CQ!TunnelBounds
  BY StoreAssumption DEF CP!FleetNames, CP!TunnelBounds, CQ!TunnelBounds
<1>1. Init => CloudInv
  BY <1>0, FleetBegins, WatchBegins, IssueBegins, ReportBegins, ApplyBegins, CheckBegins,
     CP!FleetInit, CP!WatchInit, CP!UploadInit, CQ!UploadInit, CP!TunnelInit, CQ!TunnelInit
     DEF Init, CloudInv
<1>2. CloudInv /\ [Next]_vars => CloudInv'
  BY <1>0, PartMoves, CP!FleetNext, CP!WatchNext, CP!UploadNext, CQ!UploadNext, CP!TunnelNext,
     CQ!TunnelNext DEF CloudInv
<1>3. CloudInv => CloudSound
  BY <1>0, FleetSays, WatchSays, IssueSays, ReportSays, ApplySays, CheckSays, CP!FleetSafe,
     CP!WatchSafe, CP!UploadSafe, CQ!UploadSafe, CP!TunnelSafe, CQ!TunnelSafe
     DEF CloudInv, CloudSound
<1> QED BY <1>1, <1>2, <1>3, PTL DEF Spec

\* The part that moves keeps its types; where these rest on its invariant, that too.
TypesInv ==
  /\ part = "phones" => SP!PhoneInv /\ SP!PhoneTypes
  /\ part = "sockets" => SP!S!TypeOK
  /\ part = "tokens" => SP!TokenTypes
  /\ part = "visits" => SP!VisitInv
  /\ part = "fleet" => CP!F!TypeOK
  /\ part = "recorder" => SP!RecInv /\ SP!RecTypes
  /\ part = "area" => SP!AreaInv /\ SP!AreaTypes
  /\ part = "watchdog" => CP!WatchInv /\ CP!WatchTypes
  /\ part = "evidence" => KP!EvidenceInv
  /\ part = "clips" => KP!ClipInv
  /\ part = "backups" => KP!BackupInv
  /\ part = "review" => SP!ReviewInv
  /\ part = "topics" => SP!TopicInv
  /\ part = "issues" => CP!UploadInv /\ CP!UploadTypes
  /\ part = "reports" => CQ!UploadInv /\ CQ!UploadTypes
  /\ part = "lines" => SP!LineInv /\ SP!LineTypes
  /\ part = "queues" => SP!QueueInv
  /\ part = "applies" => CP!TunnelInv /\ CP!TunnelTypes
  /\ part = "checks" => CQ!TunnelInv /\ CQ!TunnelTypes

\* Every variable of every part stays in its domain, for every value of the constants
\* that a store can be given (all the services above).
THEOREM TypeOKHolds == Spec => []TypeOK
<1>1. /\ SP!PhoneBounds /\ SP!TokenBounds /\ SP!RecLimits /\ SP!AreaBounds /\ LastChannel \in Nat
      /\ RecorderAttempts \in Nat /\ SP!VisitBounds /\ SP!ReviewBounds /\ SP!TopicBounds
      /\ SP!LineBounds /\ SP!LineLimits /\ SP!QueueBounds
  <2>1. SP!PhoneBounds
    BY StoreAssumption, SamePhoneCount DEF SP!PhoneBounds
  <2>2. /\ SP!TokenBounds /\ SP!RecLimits /\ SP!AreaBounds /\ LastChannel \in Nat
        /\ RecorderAttempts \in Nat /\ SP!VisitBounds
    BY StoreAssumption DEF SP!TokenBounds, SP!RecLimits, SP!AreaBounds, SP!VisitBounds
  <2>3. SP!LineBounds /\ SP!LineLimits /\ SP!QueueBounds
    BY StoreAssumption DEF SP!LineBounds, SP!LineLimits, SP!QueueBounds
  <2>4. SP!ReviewBounds
    BY StoreAssumption DEF SP!ReviewBounds, SP!Q!Nobody
  <2>5. SP!TopicBounds
    BY StoreAssumption DEF SP!TopicBounds, SP!I!Split, SP!I!Keys, SP!I!Findings
  <2> QED BY <2>1, <2>2, <2>3, <2>4, <2>5
<1>2. KP!EvidenceBounds /\ KP!ClipBounds /\ KP!BackupBounds
  BY StoreAssumption DEF KP!EvidenceBounds, KP!ClipBounds, KP!E!Threads, KP!BackupBounds
<1>3. /\ CP!FleetLimits /\ CP!WatchLimits /\ CP!UploadLimits /\ CQ!UploadLimits
      /\ CP!TunnelBounds /\ CP!TunnelLimits /\ CQ!TunnelBounds /\ CQ!TunnelLimits
  BY StoreAssumption DEF CP!FleetLimits, CP!WatchLimits, CP!UploadLimits, CQ!UploadLimits,
     CP!TunnelBounds, CP!TunnelLimits, CQ!TunnelBounds, CQ!TunnelLimits
<1>4. Init => TypesInv
  BY <1>1, <1>2, <1>3, PhoneBegins, SocketBegins, TokenBegins, RecBegins, AreaBegins, VisitBegins,
     ReviewBegins, TopicBegins, LineBegins, QueueBegins, EvidenceBegins, ClipBegins, BackupBegins,
     FleetBegins, WatchBegins, IssueBegins, ReportBegins, ApplyBegins, CheckBegins, SP!PhoneInit,
     SP!PhoneTypesInit, SP!SocketTypesInit, SP!TokenTypesInit, SP!RecInit, SP!RecTypesInit,
     SP!AreaInit, SP!AreaTypesInit, SP!VisitInit, SP!ReviewInit, SP!TopicInit, SP!LineInit,
     SP!LineTypesInit, SP!QueueInit, KP!EvidenceStart, KP!ClipStart, KP!BackupStart,
     CP!FleetTypesInit, CP!WatchInit, CP!WatchTypesInit, CP!UploadInit, CP!UploadTypesInit,
     CQ!UploadInit, CQ!UploadTypesInit, CP!TunnelInit, CP!TunnelTypesInit, CQ!TunnelInit,
     CQ!TunnelTypesInit DEF Init, TypesInv
<1>5. TypesInv /\ [Next]_vars => TypesInv'
  BY <1>1, <1>2, <1>3, PartMoves, SP!PhoneNext, SP!PhoneTypesNext, SP!SocketTypesNext,
     SP!TokenTypesNext, SP!RecNext, SP!RecTypesNext, SP!AreaNext, SP!AreaTypesNext, SP!VisitNext,
     SP!ReviewNext, SP!TopicNext, SP!LineNext, SP!LineTypesNext, SP!QueueNext, KP!EvidenceNext,
     KP!ClipNext, KP!BackupNext, CP!FleetTypesNext, CP!WatchNext, CP!WatchTypesNext, CP!UploadNext,
     CP!UploadTypesNext, CQ!UploadNext, CQ!UploadTypesNext, CP!TunnelNext, CP!TunnelTypesNext,
     CQ!TunnelNext, CQ!TunnelTypesNext DEF TypesInv
<1>6. TypesInv => TypeOK
  <2>1. ASSUME TypesInv
        PROVE  /\ part = "phones" => P!TypeOK
               /\ part = "sockets" => S!TypeOK
               /\ part = "tokens" => T!TypeOK
               /\ part = "recorder" => R!TypeOK
               /\ part = "area" => A!TypeOK
    BY <1>1, <2>1, PhoneTyped, SocketTyped, TokenTyped, RecTyped, AreaTyped, SP!RecTypesSafe,
       SP!AreaTypesSafe DEF TypesInv, SP!PhoneTypes, SP!TokenTypes
  <2>2. ASSUME TypesInv
        PROVE  /\ part = "visits" => V!TypeOK
               /\ part = "review" => Q!TypeOK
               /\ part = "topics" => I!TypeOK
               /\ part = "lines" => L!TypeOK
               /\ part = "queues" => K!TypeOK
    BY <1>1, <2>2, VisitTyped, ReviewTyped, TopicTyped, LineTyped, QueueTyped, SP!VisitSafe,
       SP!ReviewSafe, SP!TopicSafe, SP!LineTypesSafe, SP!QueueSafe DEF TypesInv
  <2>3. ASSUME TypesInv
        PROVE  /\ part = "evidence" => E!TypeOK
               /\ part = "clips" => C!TypeOK
               /\ part = "backups" => B!TypeOK
    BY <2>3, EvidenceTyped, ClipTyped, BackupTyped, KP!EvidenceSafe, KP!ClipSafe, KP!BackupSafe
       DEF TypesInv
  <2>4. ASSUME TypesInv
        PROVE  /\ part = "fleet" => F!TypeOK
               /\ part = "watchdog" => W!TypeOK
               /\ part = "issues" => U!TypeOK
               /\ part = "reports" => N!TypeOK
               /\ part = "applies" => O!TypeOK
               /\ part = "checks" => D!TypeOK
    BY <1>3, <2>4, FleetTyped, WatchTyped, IssueTyped, ReportTyped, ApplyTyped, CheckTyped,
       CP!UploadTypesSafe, CQ!UploadTypesSafe, CP!TunnelTypesSafe, CQ!TunnelTypesSafe
       DEF TypesInv, CP!WatchTypes
  <2> QED BY <2>1, <2>2, <2>3, <2>4 DEF TypeOK
<1> QED BY <1>4, <1>5, <1>6, PTL DEF Spec
===============================================================================
