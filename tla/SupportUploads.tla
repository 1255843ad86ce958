---------------------------- MODULE SupportUploads ----------------------------
(***************************************************************************)
(* What the box reports to support (services/issue_log.py,                 *)
(* support_reports.py): errors counted by fingerprint in memory and        *)
(* flushed to a small file, problem reports with their statuses, and the   *)
(* one uploader that sends both.  Captures come from every thread; the     *)
(* VPS takes an upload before, or without, its answer arriving.            *)
(*                                                                         *)
(* An occurrence of an error is a number; a row is the occurrences it has  *)
(* counted, in order.  When an upload is tried, and how much of what is    *)
(* waiting fits into it, is free.                                          *)
(***************************************************************************)
EXTENDS Integers, Sequences, FiniteSets, FiniteSetsExt

CONSTANTS
  Prints,       \* fingerprints
  Cap,          \* rows kept
  Reports,
  MaxCaptures,  \* bound: occurrences
  MaxUpdates,   \* bound: statuses set by support
  MaxTroubles   \* bound: failures and restarts

VARIABLES
  mem,      \* the rows in memory, what is still to be flushed, `dropped`
  file,     \* support.db
  flushing, \* what the flush under way writes
  captured, \* occurrences so far
  post,     \* the upload under way
  vps,      \* what the VPS was given, and its newest status of each report
  report,   \* the table of reports
  cursor,   \* report_cursor
  checkin,  \* statuses an answered check-in brings
  undone,   \* rows that a flush wrote and deleted at once
  mishap

vars == <<mem, file, flushing, captured, post, vps, report, cursor, checkin, undone, mishap>>

(* `mixed` marks, for the properties, a row that an upload of an earlier    *)
(* row of its fingerprint has acknowledged.                                 *)
Absent == [occ |-> <<>>, sent |-> 0, mixed |-> FALSE]
NoRows == [p \in Prints |-> Absent]
Clean(rows, dropped, evicted) ==
  [rows |-> rows, dirty |-> {}, deleted |-> {}, dropped |-> dropped, droppedDirty |-> FALSE,
   evicted |-> evicted]
NoFlush == [rows |-> << >>, deleted |-> {}, counts |-> FALSE, dropped |-> 0, evicted |-> 0, on |-> FALSE]
Idle == [pc |-> "idle", items |-> << >>, reports |-> {}, dropped |-> 0, issuesIn |-> {}, reportsIn |-> {}]
Unfiled == [status |-> "none", accepted |-> FALSE, at |-> 0]

Init ==
  /\ mem = Clean(NoRows, 0, 0)
  /\ file = [rows |-> NoRows, dropped |-> 0, evicted |-> 0]
  /\ flushing = NoFlush /\ captured = 0 /\ post = Idle
  /\ vps = [had |-> {}, dropped |-> 0, reports |-> {}, at |-> [r \in Reports |-> 0], newest |-> 0]
  /\ report = [r \in Reports |-> Unfiled]
  /\ cursor = 0 /\ checkin = << >> /\ undone = {} /\ mishap = 0

Trouble == mishap < MaxTroubles /\ mishap' = mishap + 1

issues == <<mem, file, flushing, captured, undone>>
reports == <<report, cursor, checkin>>

-------------------------------------------------------------------------------
(* Captures, evictions, the weekly prune.                                   *)

Known(m) == {p \in Prints : m.rows[p].occ # <<>>}
Unsent(row) == Len(row.occ) > row.sent
LastSeen(row) == row.occ[Len(row.occ)]

Remove(m, p) ==
  [m EXCEPT !.rows[p] = Absent, !.dirty = @ \ {p}, !.deleted = @ \cup {p}]

Evict(m, p) ==
  LET m1 == Remove(m, p)
  IN  IF Unsent(m.rows[p])
        THEN [m1 EXCEPT !.dropped = @ + 1, !.droppedDirty = TRUE, !.evicted = @ + 1]
        ELSE m1

Counted(m, p) == [m EXCEPT !.rows[p].occ = Append(@, captured + 1), !.dirty = @ \cup {p}]

\* One row over the cap at most: the one seen longest ago goes.
Capture(p) ==
  LET m == Counted(mem, p)
  IN  /\ captured < MaxCaptures /\ captured' = captured + 1
      /\ \/ Cardinality(Known(m)) <= Cap /\ mem' = m
         \/ /\ Cardinality(Known(m)) > Cap
            /\ \E q \in Known(m) \ {p} :
                 /\ \A o \in Known(m) \ {p} : LastSeen(m.rows[q]) <= LastSeen(m.rows[o])
                 /\ mem' = Evict(m, q)
      /\ UNCHANGED <<file, flushing, post, vps, reports, undone, mishap>>

Prune(p) ==
  /\ p \in Known(mem) /\ ~Unsent(mem.rows[p])
  /\ mem' = Remove(mem, p)
  /\ UNCHANGED <<file, flushing, captured, post, vps, reports, undone, mishap>>

-------------------------------------------------------------------------------
(* flush: under the lock it takes what has changed; the file follows.       *)

FlushBegin ==
  /\ ~flushing.on
  /\ mem.dirty # {} \/ mem.deleted # {} \/ mem.droppedDirty
  /\ flushing' = [rows |-> [p \in mem.dirty \cap Known(mem) |-> mem.rows[p]], deleted |-> mem.deleted,
                  counts |-> mem.droppedDirty, dropped |-> mem.dropped, evicted |-> mem.evicted, on |-> TRUE]
  /\ mem' = Clean(mem.rows, mem.dropped, mem.evicted)
  /\ UNCHANGED <<file, captured, post, vps, reports, undone, mishap>>

\* Rows are written before rows are deleted.
FlushWrites ==
  /\ flushing.on
  /\ file' = [rows |-> [p \in Prints |-> IF p \in flushing.deleted THEN Absent
                                          ELSE IF p \in DOMAIN flushing.rows THEN flushing.rows[p]
                                          ELSE file.rows[p]],
              dropped |-> IF flushing.counts THEN flushing.dropped ELSE file.dropped,
              evicted |-> IF flushing.counts THEN flushing.evicted ELSE file.evicted]
  /\ undone' = (undone \ DOMAIN flushing.rows) \cup (flushing.deleted \cap DOMAIN flushing.rows)
  /\ flushing' = NoFlush
  /\ UNCHANGED <<mem, captured, post, vps, reports, mishap>>

\* For a mutant: what could not be written is not tried again.
GivenUp(m) == m
TriedAgain(m) ==
  [m EXCEPT !.dirty = @ \cup DOMAIN flushing.rows, !.deleted = @ \cup flushing.deleted,
            !.droppedDirty = @ \/ flushing.counts]

FlushFails ==
  /\ flushing.on /\ Trouble
  /\ mem' = TriedAgain(mem)
  /\ flushing' = NoFlush
  /\ UNCHANGED <<file, captured, post, vps, reports, undone>>

-------------------------------------------------------------------------------
(* Reports and the upload, one at a time.                                   *)

File(r) ==
  /\ report[r] = Unfiled
  /\ report' = [report EXCEPT ![r].status = "queued"]
  /\ UNCHANGED <<issues, post, vps, cursor, checkin, mishap>>

Body ==
  /\ post.pc = "idle"
  /\ \E some \in SUBSET {p \in Known(mem) : Unsent(mem.rows[p])},
        few \in SUBSET {r \in Reports : report[r].status # "none" /\ ~report[r].accepted} :
       /\ some # {} \/ few # {} \/ mem.dropped > 0
       /\ post' = [Idle EXCEPT !.pc = "sent", !.items = [p \in some |-> mem.rows[p]],
                               !.reports = few, !.dropped = mem.dropped]
  /\ UNCHANGED <<issues, vps, reports, mishap>>

Delta(row) == {row.occ[i] : i \in (row.sent + 1)..Len(row.occ)}

Taken ==
  /\ post.pc = "sent"
  /\ \E some \in SUBSET DOMAIN post.items, few \in SUBSET post.reports :
       /\ vps' = [vps EXCEPT !.had = @ \cup UNION {Delta(post.items[p]) : p \in some},
                             !.dropped = @ + post.dropped, !.reports = @ \cup few]
       /\ post' = [post EXCEPT !.pc = "answered", !.issuesIn = some, !.reportsIn = few]
  /\ UNCHANGED <<issues, reports, mishap>>

\* Not reached, refused, or the answer or the reports' table fails.
UploadFails ==
  /\ post.pc \in {"sent", "answered"} /\ Trouble
  /\ post' = Idle
  /\ UNCHANGED <<issues, vps, reports>>

\* For a mutant: whatever its status, an accepted report is "received".
MarkedAlways(rep) == [rep EXCEPT !.accepted = TRUE, !.status = "received"]
Marked(rep) ==
  IF rep.accepted THEN rep
  ELSE [rep EXCEPT !.accepted = TRUE, !.status = IF @ = "queued" THEN "received" ELSE @]

MarkAccepted ==
  /\ post.pc = "answered"
  /\ report' = [r \in Reports |-> IF r \in post.reportsIn THEN Marked(report[r]) ELSE report[r]]
  /\ post' = [post EXCEPT !.pc = "marked"]
  /\ UNCHANGED <<issues, vps, cursor, checkin, mishap>>

Lesser(a, b) == IF a < b THEN a ELSE b
Greater(a, b) == IF a > b THEN a ELSE b

\* For a mutant: everything counted so far is done, not only what was sent.
AllSent(row, item) == Len(row.occ)
SentNow(row, item) == Greater(row.sent, Lesser(Len(item.occ), Len(row.occ)))

Continues(row, item) ==
  Len(row.occ) >= Len(item.occ) /\ SubSeq(row.occ, 1, Len(item.occ)) = item.occ

Acknowledge ==
  /\ post.pc = "marked"
  /\ LET there == DOMAIN post.items \cap Known(mem)
     IN  mem' = [mem EXCEPT
           !.dirty = @ \cup there,
           !.rows = [p \in Prints |->
             IF p \in there \cap post.issuesIn
               THEN [mem.rows[p] EXCEPT !.sent = SentNow(mem.rows[p], post.items[p]),
                                        !.mixed = @ \/ ~Continues(mem.rows[p], post.items[p])]
               ELSE mem.rows[p]]]
  /\ post' = [post EXCEPT !.pc = "acknowledged"]
  /\ UNCHANGED <<file, flushing, captured, vps, reports, undone, mishap>>

\* For a mutant: nothing is left to tell.
NoneLeft(n) == 0
LeftToTell(n) == Greater(0, mem.dropped - n)

AcknowledgeDropped ==
  /\ post.pc = "acknowledged"
  /\ mem' = IF post.dropped > 0
              THEN [mem EXCEPT !.dropped = LeftToTell(post.dropped), !.droppedDirty = TRUE]
              ELSE mem
  /\ post' = Idle
  /\ UNCHANGED <<file, flushing, captured, vps, reports, undone, mishap>>

-------------------------------------------------------------------------------
(* Statuses from support: a check-in brings those after the cursor.         *)

SetByStaff(r) ==
  /\ r \in vps.reports /\ vps.newest < MaxUpdates
  /\ vps' = [vps EXCEPT !.at[r] = vps.newest + 1, !.newest = @ + 1]
  /\ UNCHANGED <<issues, post, reports, mishap>>

CheckIn ==
  LET news == {r \in Reports : vps.at[r] > cursor}
  IN  /\ checkin = << >> /\ news # {}
      /\ checkin' = [r \in news |-> vps.at[r]]
      /\ UNCHANGED <<issues, post, vps, report, cursor, mishap>>

Updated(rep, at) ==
  IF rep.at <= at THEN [status |-> "set", accepted |-> TRUE, at |-> at] ELSE rep

ApplyUpdates ==
  /\ checkin # << >>
  /\ report' = [r \in Reports |-> IF r \in DOMAIN checkin THEN Updated(report[r], checkin[r]) ELSE report[r]]
  /\ cursor' = Max({cursor} \cup {checkin[r] : r \in DOMAIN checkin})
  /\ checkin' = << >>
  /\ UNCHANGED <<issues, post, vps, mishap>>

\* For a mutant: the cursor moves though the table could not be written.
Passed == Max({cursor} \cup {checkin[r] : r \in DOMAIN checkin})
CursorKept == cursor

ApplyFails ==
  /\ checkin # << >> /\ Trouble
  /\ cursor' = CursorKept
  /\ checkin' = << >>
  /\ UNCHANGED <<issues, post, vps, report>>

\* The box stops without its last flush.
Restart ==
  /\ Trouble
  /\ mem' = Clean(file.rows, file.dropped, file.evicted)
  /\ flushing' = NoFlush /\ post' = Idle /\ checkin' = << >> /\ undone' = {}
  /\ UNCHANGED <<file, captured, vps, report, cursor>>

Next ==
  \/ \E p \in Prints : Capture(p) \/ Prune(p)
  \/ FlushBegin \/ FlushWrites \/ FlushFails
  \/ \E r \in Reports : File(r) \/ SetByStaff(r)
  \/ Body \/ Taken \/ UploadFails \/ MarkAccepted \/ Acknowledge \/ AcknowledgeDropped
  \/ CheckIn \/ ApplyUpdates \/ ApplyFails \/ Restart

Spec == Init /\ [][Next]_vars

-------------------------------------------------------------------------------
(* Properties.                                                             *)

RowType == [occ : Seq(1..MaxCaptures), sent : 0..MaxCaptures, mixed : BOOLEAN]

\* Every variable stays in its domain.
TypeOK ==
  /\ mem.rows \in [Prints -> RowType] /\ file.rows \in [Prints -> RowType]
  /\ mem.dirty \subseteq Prints /\ mem.deleted \subseteq Prints /\ undone \subseteq Prints
  /\ mem.dropped \in Nat /\ file.dropped \in Nat /\ mem.evicted \in Nat /\ file.evicted \in Nat
  /\ flushing.on \in BOOLEAN /\ captured \in 0..MaxCaptures
  /\ post.pc \in {"idle", "sent", "answered", "marked", "acknowledged"}
  /\ vps.had \subseteq 1..MaxCaptures /\ vps.reports \subseteq Reports
  /\ report \in [Reports -> [status : {"none", "queued", "received", "set"}, accepted : BOOLEAN,
                             at : 0..MaxUpdates]]
  /\ cursor \in 0..MaxUpdates /\ mishap \in 0..MaxTroubles

\* What a row counts as sent the VPS has, in memory and after a restart, unless
\* the row was evicted and began again during the upload (acknowledge).
SentIsThere ==
  \A row \in {mem.rows[p] : p \in Prints} \cup {file.rows[p] : p \in Prints} :
    row.mixed \/ \A i \in 1..row.sent : row.occ[i] \in vps.had

\* The VPS is, or will be, told of every row that was evicted with occurrences
\* it did not have (acknowledge_dropped, _evict_oldest).
EvictionsTold ==
  /\ vps.dropped + mem.dropped >= mem.evicted
  /\ vps.dropped + file.dropped >= file.evicted

\* When nothing is left to flush the file holds what the memory does, except a
\* row that came back between its eviction and the flush of it (flush).
FileFollows ==
  mem.dirty = {} /\ mem.deleted = {} /\ ~mem.droppedDirty /\ ~flushing.on =>
    /\ file.dropped = mem.dropped
    /\ \A p \in Prints \ undone : file.rows[p] = mem.rows[p]

\* A report counts as accepted only when the VPS has it, shows the status that
\* support set last among those the cursor has passed, and the cursor passes no
\* status unapplied (mark_accepted, apply_updates).
ReportsAreTrue ==
  \A r \in Reports :
    /\ report[r].accepted => r \in vps.reports
    /\ (report[r].at > 0) <=> (report[r].status = "set")
    /\ vps.at[r] <= cursor => report[r].at = vps.at[r]

UploadsSound == SentIsThere /\ EvictionsTold /\ FileFollows /\ ReportsAreTrue
===============================================================================
