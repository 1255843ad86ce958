------------------------------ MODULE VisitFlush ------------------------------
(***************************************************************************)
(* Zone visits on their way to the database: the facts camera workers      *)
(* buffer (live_analytics_engine.py), the flushes that write them, the     *)
(* facts a failed flush keeps, and the start and the stop of the           *)
(* supervisor around them (pipeline_supervisor.py).                        *)
(*                                                                         *)
(* The loop and "record now" may flush at the same time; a stop cancels    *)
(* the loop, waits a while for the workers and flushes once more.          *)
(***************************************************************************)
EXTENDS Integers, Sequences

CONSTANTS
  Visits,
  RetryMax,     \* RETRY_MAX_VISITS
  MaxTroubles   \* bound: flushes that fail, crashes, failures of the start

VARIABLES
  up,         \* "down", "running", "joining" (stop waits), "flushing" (its last flush), "flushed"
  visit,      \* what the camera sees: "none", "in", "out"; "past" of an earlier run
  touched,    \* visits with a shelf interaction
  buffer,     \* _pending_visits: facts <<visit, phase>>
  batch,      \* the facts each flush is about to commit
  retry,      \* _retry_visits
  row,        \* zone_visits: "none", "in" (no exit time), "out"
  rowTouched, \* rows with the interacted flag
  lost,       \* visits of which the process has dropped a fact
  orphans,    \* "closed" if the last start has closed the rows it found open
  troubles

seen == <<visit, touched>>
facts == <<buffer, batch, retry>>
rows == <<row, rowTouched>>
vars == <<up, seen, facts, rows, lost, orphans, troubles>>

Flushes == {"loop", "record", "stop"}
Of(s) == {s[i][1] : i \in DOMAIN s}
NoBatch == [f \in Flushes |-> <<>>]
Pending == Of(buffer) \cup Of(retry) \cup UNION {Of(batch[f]) : f \in Flushes}

Init ==
  /\ up = "down" /\ visit = [v \in Visits |-> "none"] /\ touched = {}
  /\ buffer = <<>> /\ batch = NoBatch /\ retry = <<>>
  /\ row = [v \in Visits |-> "none"] /\ rowTouched = {}
  /\ lost = {} /\ orphans = "left" /\ troubles = 0

Trouble == troubles < MaxTroubles /\ troubles' = troubles + 1

(***************************************************************************)
(* The workers: a visit opens, may touch the shelf, and closes.  One that  *)
(* is stuck when the stop has waited long enough goes on for a while.      *)
(***************************************************************************)
Buffer(v, phase) ==
  /\ up # "down"
  /\ buffer' = Append(buffer, <<v, phase>>)
  /\ UNCHANGED <<up, batch, retry, rows, lost, orphans, troubles>>

Enter(v) ==
  /\ up = "running" /\ visit[v] = "none"
  /\ visit' = [visit EXCEPT ![v] = "in"]
  /\ UNCHANGED touched /\ Buffer(v, "open")

Touch(v) ==
  /\ visit[v] = "in" /\ v \notin touched
  /\ touched' = touched \cup {v}
  /\ UNCHANGED visit /\ Buffer(v, "interact")

Exit(v) ==
  /\ visit[v] = "in"
  /\ visit' = [visit EXCEPT ![v] = "out"]
  /\ UNCHANGED touched /\ Buffer(v, "close")

(***************************************************************************)
(* flush_once: takes what is kept and what is buffered, and commits it.    *)
(***************************************************************************)
MayFlush(f) ==
  /\ batch[f] = <<>>
  /\ IF f = "stop" THEN up = "flushing" ELSE up = "running"

Drain(f) ==
  /\ MayFlush(f) /\ retry \o buffer # <<>>
  /\ batch' = [batch EXCEPT ![f] = retry \o buffer]
  /\ retry' = <<>> /\ buffer' = <<>>
  /\ UNCHANGED <<up, seen, rows, lost, orphans, troubles>>

Flushed(f) == up' = IF f = "stop" THEN "flushed" ELSE up

Has(s, v, phase) == \E i \in DOMAIN s : s[i] = <<v, phase>>

\* The row of a visit after the facts, in their order: an interaction leaves its
\* times alone.
EndsWith(s, v, phase, other) ==
  \E i \in DOMAIN s : s[i] = <<v, phase>> /\ \A j \in DOMAIN s : j > i => s[j] # <<v, other>>
Written(s, v) ==
  IF EndsWith(s, v, "close", "open") THEN "out" ELSE IF Has(s, v, "open") THEN "in" ELSE row[v]

\* The id is the key: a visit cannot be opened that another flush has closed.
Duplicate(f) == \E v \in Visits : Has(batch[f], v, "open") /\ row[v] # "none"

\* A row that is closed takes the flag the visit ended with; an interaction of a row
\* that is not there is dropped.
Flagged(f, after) ==
  {v \in Visits : IF Has(batch[f], v, "close") THEN v \in touched
                  ELSE v \in rowTouched \/ (after[v] # "none" /\ Has(batch[f], v, "interact"))}

Commit(f) ==
  /\ batch[f] # <<>> /\ ~ Duplicate(f)
  /\ row' = [v \in Visits |-> Written(batch[f], v)]
  /\ rowTouched' = Flagged(f, row')
  /\ batch' = [batch EXCEPT ![f] = <<>>] /\ Flushed(f)
  /\ UNCHANGED <<seen, buffer, retry, lost, orphans, troubles>>

\* For mutants: what could not be written is not kept; all of it is.
KeptNone(s) == <<>>
KeptAll(s) == s
Kept(s) == IF Len(s) > RetryMax THEN SubSeq(s, Len(s) - RetryMax + 1, Len(s)) ELSE s
Dropped(s) == IF Len(s) > RetryMax THEN Of(SubSeq(s, 1, Len(s) - RetryMax)) ELSE {}

\* The list is replaced: what another flush has kept meanwhile is lost.
Fail(f) ==
  /\ batch[f] # <<>>
  /\ IF Duplicate(f) THEN UNCHANGED troubles ELSE Trouble
  /\ retry' = Kept(batch[f])
  /\ lost' = lost \cup Dropped(batch[f]) \cup Of(retry)
  /\ batch' = [batch EXCEPT ![f] = <<>>] /\ Flushed(f)
  /\ UNCHANGED <<seen, buffer, rows, orphans>>

(***************************************************************************)
(* The supervisor stops: the loop is cancelled, with the batch it may be   *)
(* committing; the workers get their time; the rest is flushed.            *)
(***************************************************************************)
Stop ==
  /\ up = "running"
  /\ up' = "joining"
  /\ lost' = lost \cup Of(batch["loop"])
  /\ batch' = [batch EXCEPT !["loop"] = <<>>]
  /\ UNCHANGED <<seen, buffer, retry, rows, orphans, troubles>>

Joined ==
  /\ up = "joining" /\ up' = "flushing"
  /\ UNCHANGED <<seen, facts, rows, lost, orphans, troubles>>

\* The process ends: after the last flush, or at any time.
End ==
  /\ up # "down"
  /\ \/ /\ up = "flushed" \/ (up = "flushing" /\ batch["stop"] = <<>> /\ retry \o buffer = <<>>)
        /\ UNCHANGED troubles
     \/ Trouble
  /\ up' = "down"
  /\ lost' = lost \cup Pending \cup {v \in Visits : visit[v] = "in"}
  /\ visit' = [v \in Visits |-> IF visit[v] = "none" THEN "none" ELSE "past"]
  /\ buffer' = <<>> /\ batch' = NoBatch /\ retry' = <<>>
  /\ UNCHANGED <<touched, rows, orphans>>

\* For a mutant: the start leaves open rows alone.
OrphansLeft == row
Orphaned == [v \in Visits |-> IF row[v] = "in" THEN "out" ELSE row[v]]

Start ==
  /\ up = "down" /\ up' = "running"
  /\ \/ row' = Orphaned /\ orphans' = "closed" /\ UNCHANGED troubles
     \/ Trouble /\ UNCHANGED row /\ orphans' = "left"
  /\ UNCHANGED <<seen, facts, rowTouched, lost>>

Next ==
  \/ Start \/ Stop \/ Joined \/ End
  \/ \E v \in Visits : Enter(v) \/ Touch(v) \/ Exit(v)
  \/ \E f \in Flushes : Drain(f) \/ Commit(f) \/ Fail(f)

Spec == Init /\ [][Next]_vars

-----------------------------------------------------------------------------
(* Properties.                                                             *)

Facts == Visits \X {"open", "interact", "close"}

TypeOK ==
  /\ up \in {"down", "running", "joining", "flushing", "flushed"}
  /\ visit \in [Visits -> {"none", "in", "out", "past"}] /\ touched \subseteq Visits
  /\ buffer \in Seq(Facts) /\ retry \in Seq(Facts) /\ Len(retry) <= RetryMax
  /\ batch \in [Flushes -> Seq(Facts)]
  /\ row \in [Visits -> {"none", "in", "out"}] /\ rowTouched \subseteq Visits
  /\ lost \subseteq Visits /\ orphans \in {"left", "closed"} /\ troubles \in 0..MaxTroubles

\* Once nothing of a visit is pending, its row says what the camera saw, however
\* flushes failed and overlapped: it is there, it has ended if the visit has, and
\* then with the right interaction flag.  Only a visit of which a fact was
\* dropped (a cancelled flush, a kept list that another one replaced or that
\* overflowed, a crash) may differ.
FlushedIsTrue ==
  \A v \in Visits \ (lost \cup Pending) :
    /\ visit[v] \in {"none", "in", "out"} => row[v] = visit[v]
    /\ visit[v] = "out" => ((v \in rowTouched) <=> (v \in touched))

\* After a start nobody of an earlier run is "in the zone", unless the start
\* could not close the rows.
NoGhostVisits ==
  up = "running" /\ orphans = "closed" =>
    \A v \in Visits : visit[v] = "past" => row[v] # "in"

VisitsAreTrue == FlushedIsTrue /\ NoGhostVisits
=============================================================================
