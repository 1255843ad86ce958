------------------------- MODULE RecorderSubstreams -------------------------
(***************************************************************************)
(* Changes of a recorder's sub-streams and their roll-back                 *)
(* (services/recorder_substreams.py): one run at a time per recorder, and  *)
(* in it one channel after the other: the settings saved, the change       *)
(* written, re-read, verified on the stream and, if anything went wrong,   *)
(* written back; or the saved settings restored.                           *)
(*                                                                         *)
(* The recorder may refuse a write, keep a part of what it accepted, not   *)
(* answer (with the write carried out or not), deliver another picture or  *)
(* change its password.  A crash may come between any two requests.        *)
(***************************************************************************)
EXTENDS Integers

CONSTANTS
  LastChannel,
  Attempts,     \* verify_attempts: openings of the stream before a check has failed
  MaxRuns,      \* bound: runs the operator starts
  MaxTroubles   \* bound: misbehaviours of the recorder and crashes

Channels == 1..LastChannel
Settings == [size : {"cif", "d1"}, rate : {"low", "high"}]
Unsaved == [size |-> "none", rate |-> "none"]

VARIABLES
  setting,    \* the recorder's settings of each channel (external)
  password,   \* "known", or "changed" since the run began (external)
  saved,      \* the state file's "backups"
  measured,   \* stream_selection: the sub-stream's verified size, or "none"
  kind,       \* the last run's: "upgrade", "raise", "lower" or "restore"
  step, at,   \* where it is, and with which channel
  enc,        \* the settings it has read
  outcome,    \* what it reports of each channel
  errors,     \* http_errors
  begun,      \* the settings when the run began
  prior,      \* what a channel had before its last change, Unsaved if never changed
  unsure,     \* channels a request was left unanswered or rejected in the middle of
  rejected,   \* rejected sign-ins of the run: requests (calls), openings of the stream
  runs, mishaps

recorder == <<setting, password>>
progress == <<kind, step, at, enc, errors>>
ghosts == <<begun, prior, unsure, rejected>>
vars == <<recorder, saved, measured, progress, outcome, ghosts, runs, mishaps>>

Trouble == mishaps < MaxTroubles /\ mishaps' = mishaps + 1

NoneRejected == [calls |-> 0, opens |-> 0]

Init ==
  /\ setting \in [Channels -> {s \in Settings : s.size = "cif" => s.rate = "low"}]
  /\ password = "known"
  /\ saved = [c \in Channels |-> Unsaved] /\ measured = [c \in Channels |-> "none"]
  /\ kind = "restore" /\ step = "idle" /\ at = 1 /\ enc = setting /\ errors = 0
  /\ outcome = [c \in Channels |-> "pending"]
  /\ begun = setting /\ prior = [c \in Channels |-> Unsaved]
  /\ unsure = {} /\ rejected = NoneRejected /\ runs = 0 /\ mishaps = 0

(***************************************************************************)
(* A run begins, reads the recorder's settings once, takes its channels in *)
(* turn and ends.                                                          *)
(***************************************************************************)
Start(k) ==
  /\ step = "idle" /\ runs < MaxRuns
  /\ k = "restore" => \E c \in Channels : saved[c] # Unsaved
  /\ kind' = k /\ step' = (IF k = "restore" THEN "next" ELSE "read")
  /\ at' = 1 /\ errors' = 0 /\ password' = "known"
  /\ outcome' = [c \in Channels |-> "pending"]
  /\ begun' = setting /\ unsure' = {} /\ rejected' = NoneRejected /\ runs' = runs + 1
  /\ UNCHANGED <<setting, saved, measured, enc, prior, mishaps>>

Ended(rest) == [c \in Channels |-> IF outcome[c] \in {"pending", "working"} THEN rest ELSE outcome[c]]

ReadAll ==
  /\ step = "read" /\ password = "known"
  /\ enc' = setting /\ step' = "next"
  /\ UNCHANGED <<recorder, saved, measured, kind, at, errors, outcome, ghosts, runs, mishaps>>

ReadFails ==
  /\ step = "read" /\ password = "known" /\ Trouble
  /\ step' = "idle" /\ outcome' = Ended("not_attempted")
  /\ UNCHANGED <<recorder, saved, measured, kind, at, enc, errors, ghosts, runs>>

Finish ==
  /\ step = "next" /\ at > LastChannel
  /\ step' = "idle"
  /\ UNCHANGED <<recorder, saved, measured, kind, at, enc, errors, outcome, ghosts, runs, mishaps>>

\* The channel has its outcome; the run goes on with the next one.
Close(result) ==
  /\ outcome' = [outcome EXCEPT ![at] = result]
  /\ step' = "next" /\ at' = at + 1 /\ errors' = 0
  /\ UNCHANGED <<password, kind, begun, rejected, runs>>

\* Two channels in a row without an answer end a run, but not a restore.
CloseUnanswered ==
  LET over == kind # "restore" /\ errors = 1
      now == [outcome EXCEPT ![at] = "error"]
  IN /\ outcome' = [c \in Channels |-> IF over /\ now[c] = "pending" THEN "not_attempted" ELSE now[c]]
     /\ step' = IF over THEN "idle" ELSE "next"
     /\ at' = at + 1 /\ errors' = errors + 1
     /\ UNCHANGED <<password, kind, begun, rejected, runs>>

\* A request whose sign-in is rejected ends the run at once.
\* For a mutant: while a change is checked it counts as a failure of the check.
StopUnlessChecking == IF step = "check" THEN "undo" ELSE "idle"
Stop == "idle"

Reject ==
  /\ step \in {"read", "next", "write", "check", "undo", "undone"} /\ at <= LastChannel
  /\ password = "changed"
  /\ rejected' = [rejected EXCEPT !.calls = @ + 1]
  /\ step' = Stop
  /\ outcome' = [Ended("not_attempted") EXCEPT ![at] = IF step = "read" THEN "not_attempted" ELSE "stopped"]
  /\ unsure' = IF step \in {"check", "undo", "undone"} THEN unsure \cup {at} ELSE unsure
  /\ UNCHANGED <<recorder, saved, measured, kind, at, enc, errors, begun, prior, runs, mishaps>>

(***************************************************************************)
(* One channel: left alone, or saved and changed.                          *)
(***************************************************************************)
Was == IF kind = "restore" THEN saved[at] ELSE enc[at]
Goal == CASE kind = "upgrade" -> [size |-> "d1", rate |-> "high"]
          [] kind = "raise" -> [enc[at] EXCEPT !.rate = "high"]
          [] kind = "lower" -> [enc[at] EXCEPT !.rate = "low"]

\* Not there, not able, its abilities unknown, or as wanted already.
Skip ==
  /\ step = "next" /\ at <= LastChannel
  /\ kind = "restore" => saved[at] = Unsaved
  /\ Close("kept")
  /\ UNCHANGED <<setting, saved, measured, enc, prior, unsure, mishaps>>

\* For a mutant: what was saved first is kept.
SavedOnce == IF saved[at] = Unsaved THEN [saved EXCEPT ![at] = enc[at]] ELSE saved
SavedBefore == [saved EXCEPT ![at] = enc[at]]

Save ==
  /\ step = "next" /\ at <= LastChannel /\ kind # "restore"
  /\ IF kind = "upgrade" THEN enc[at].size = "cif" ELSE enc[at].rate # Goal.rate
  /\ saved' = SavedBefore
  /\ outcome' = [outcome EXCEPT ![at] = "working"]
  /\ step' = "write"
  /\ UNCHANGED <<recorder, measured, kind, at, enc, errors, ghosts, runs, mishaps>>

\* What the recorder may have after it has accepted: some of it may not stick.
Mixed(old, new) == [size : {old.size, new.size}, rate : {old.rate, new.rate}]

Accept ==
  /\ step = "write" /\ password = "known"
  /\ \/ setting' = [setting EXCEPT ![at] = Goal] /\ UNCHANGED mishaps
     \/ Trouble /\ \E s \in Mixed(setting[at], Goal) \ {Goal} : setting' = [setting EXCEPT ![at] = s]
  /\ prior' = [prior EXCEPT ![at] = setting[at]]
  /\ step' = "check"
  /\ UNCHANGED <<password, saved, measured, kind, at, enc, errors, outcome, begun, unsure, rejected, runs>>

Refuse ==
  /\ step = "write" /\ password = "known" /\ Trouble
  /\ Close("kept")
  /\ UNCHANGED <<setting, saved, measured, enc, prior, unsure>>

\* No answer to the write: an exception, reported as "kept current settings".
Unanswered ==
  /\ step = "write" /\ password = "known" /\ Trouble
  /\ setting' \in {setting, [setting EXCEPT ![at] = Goal]}
  /\ prior' = [prior EXCEPT ![at] = setting[at]]
  /\ unsure' = unsure \cup {at}
  /\ CloseUnanswered
  /\ UNCHANGED <<saved, measured, enc>>

\* For a mutant: an accepted write is taken as done.
SticksAlways == TRUE
Sticks ==
  IF kind = "upgrade" THEN setting[at].size = Goal.size
  ELSE setting[at] = Goal

Check ==
  /\ step = "check" /\ password = "known"
  /\ \/ step' = (IF Sticks THEN "verify" ELSE "undo") /\ UNCHANGED mishaps
     \/ Trouble /\ step' = "undo"
  /\ UNCHANGED <<recorder, saved, measured, kind, at, enc, errors, outcome, ghosts, runs>>

\* The picture of the real stream, and on success its size for stream selection.
Verify ==
  /\ step = "verify" /\ password = "known"
  /\ measured' = [measured EXCEPT ![at] = Goal.size]
  /\ Close("switched")
  /\ UNCHANGED <<setting, saved, enc, prior, unsure, mishaps>>

VerifyFails ==
  /\ step = "verify" /\ password = "known" /\ Trouble
  /\ step' = "undo"
  /\ UNCHANGED <<recorder, saved, measured, kind, at, enc, errors, outcome, ghosts, runs>>

\* A rejected opening is taken for a picture not there yet: the stream is opened
\* again, n times since the password changed, and what was changed goes back.
OpenRejected(n) ==
  /\ step = "verify" /\ password = "changed"
  /\ rejected' = [rejected EXCEPT !.opens = @ + n]
  /\ step' = "undo"
  /\ UNCHANGED <<recorder, saved, measured, kind, at, enc, errors, outcome, begun, prior, unsure, runs,
                 mishaps>>

(***************************************************************************)
(* _restore: after a failure, or as a run of its own.                      *)
(***************************************************************************)
BeginRestore ==
  /\ step = "next" /\ at <= LastChannel /\ kind = "restore" /\ saved[at] # Unsaved
  /\ password = "known"
  /\ \/ /\ step' = "undo" /\ outcome' = [outcome EXCEPT ![at] = "working"]
        /\ UNCHANGED <<password, kind, at, errors, begun, rejected, runs, mishaps>>
     \/ Trouble /\ CloseUnanswered
  /\ UNCHANGED <<setting, saved, measured, enc, prior, unsure>>

Undo ==
  /\ step = "undo" /\ password = "known"
  /\ \/ setting' = [setting EXCEPT ![at] = Was] /\ UNCHANGED mishaps
     \/ Trouble /\ \E s \in Mixed(setting[at], Was) \ {Was} : setting' = [setting EXCEPT ![at] = s]
  /\ step' = "undone"
  /\ UNCHANGED <<password, saved, measured, kind, at, enc, errors, outcome, ghosts, runs>>

\* The cameras of the channel reopen; their measured size is forgotten.
Undone(result) ==
  /\ measured' = [measured EXCEPT ![at] = "none"]
  /\ Close(result)
  /\ UNCHANGED <<saved, enc, prior, unsure>>

\* Refused, or no answer; a restore run reports the latter as an error.
UndoFails ==
  /\ step = "undo" /\ password = "known" /\ Trouble
  /\ \/ Undone("restore_failed") /\ UNCHANGED setting
     \/ /\ kind # "restore" /\ Undone("restore_failed")
        /\ setting' = [setting EXCEPT ![at] = Was]
     \/ /\ kind = "restore" /\ CloseUnanswered
        /\ setting' \in {setting, [setting EXCEPT ![at] = Was]}
        /\ unsure' = unsure \cup {at}
        /\ UNCHANGED <<saved, measured, enc, prior>>

\* For a mutant: the settings are not read again.
BackAlways == TRUE
Back == setting[at].size = Was.size

Reread ==
  /\ step = "undone" /\ password = "known"
  /\ \/ Undone(IF Back THEN "restored" ELSE "restore_failed") /\ UNCHANGED mishaps
     \/ Trouble /\ Undone("restore_failed")
  /\ UNCHANGED setting

(***************************************************************************)
(* Around it.                                                              *)
(***************************************************************************)
ChangePassword ==
  /\ step # "idle" /\ password = "known" /\ Trouble
  /\ password' = "changed"
  /\ UNCHANGED <<setting, saved, measured, progress, outcome, ghosts, runs>>

Crash ==
  /\ step # "idle" /\ Trouble
  /\ step' = "idle" /\ unsure' = Channels
  /\ UNCHANGED <<recorder, saved, measured, kind, at, enc, errors, outcome, begun, prior, rejected, runs>>

Next ==
  \/ \E k \in {"upgrade", "raise", "lower", "restore"} : Start(k)
  \/ ReadAll \/ ReadFails \/ Finish \/ Reject
  \/ Skip \/ Save \/ Accept \/ Refuse \/ Unanswered \/ Check \/ Verify \/ VerifyFails
  \/ \E n \in 1..Attempts : OpenRejected(n)
  \/ BeginRestore \/ Undo \/ UndoFails \/ Reread
  \/ ChangePassword \/ Crash

Spec == Init /\ [][Next]_vars

-----------------------------------------------------------------------------
(* Properties.                                                             *)

TypeOK ==
  /\ setting \in [Channels -> Settings] /\ enc \in [Channels -> Settings]
  /\ password \in {"known", "changed"}
  /\ saved \in [Channels -> Settings \cup {Unsaved}]
  /\ measured \in [Channels -> {"none", "cif", "d1"}]
  /\ kind \in {"upgrade", "raise", "lower", "restore"}
  /\ step \in {"idle", "read", "next", "write", "check", "verify", "undo", "undone"}
  /\ at \in 1..(LastChannel + 1) /\ errors \in 0..(at - 1)
  /\ outcome \in [Channels -> {"pending", "working", "kept", "switched", "restored",
                               "restore_failed", "error", "stopped", "not_attempted"}]
  /\ begun \in [Channels -> Settings] /\ prior \in [Channels -> Settings \cup {Unsaved}]
  /\ unsure \subseteq Channels /\ rejected \in [calls : Nat, opens : Nat]
  /\ runs \in 0..MaxRuns /\ mishaps \in 0..MaxTroubles

\* Whatever went wrong, at whatever step, the settings a channel had before its
\* last change are on disk (or those it has, when the next change is under way).
Restorable == \A c \in Channels : prior[c] # Unsaved => saved[c] \in {prior[c], setting[c]}

\* What a run that is over says of a channel is so, unless a request about it
\* was left unanswered (which the code reports as "kept current settings").
Sound(c) ==
  CASE outcome[c] \in {"kept", "not_attempted", "error"} -> setting[c] = begun[c]
    [] outcome[c] = "switched" -> /\ measured[c] = setting[c].size
                                  /\ kind = "upgrade" => setting[c].size = "d1"
                                  /\ kind = "raise" => setting[c].rate = "high"
                                  /\ kind = "lower" => setting[c].rate = "low"
    [] outcome[c] = "restored" -> setting[c].size = saved[c].size
    [] OTHER -> TRUE
ReportIsTrue == step = "idle" => \A c \in Channels \ unsure : Sound(c)

\* A recorder locks the account after about five rejected sign-ins: in a run one
\* request at most is rejected, and the openings of one check of one channel.
SignInsBounded == rejected.calls <= 1 /\ rejected.opens <= Attempts

ChangeSound == Restorable /\ ReportIsTrue /\ SignInsBounded
=============================================================================
