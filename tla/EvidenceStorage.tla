---------------------------- MODULE EvidenceStorage ----------------------------
(***************************************************************************)
(* The evidence of theft incidents on the disk: the passes that delete the *)
(* oldest files when the limit is exceeded (evidence_storage.py), against  *)
(* the threads that save a still or a clip, note it and then link it in    *)
(* the incident's row (pose_analytics.py, clip_recorder.py).               *)
(*                                                                         *)
(* A file is <<incident, kind>>, and the disk knows when it was written.   *)
(* Each incident has its own clip (IncidentClips has the shared ones).     *)
(***************************************************************************)
EXTENDS Integers, FiniteSets

CONSTANTS
  MaxIncidents, \* bound: incidents they are numbered in the order they happen
  Limits,       \* the totals the cap and the disk may allow
  Runners,      \* bound: background threads at once
  MaxTroubles   \* bound: writes that fail, crashes

VARIABLES
  saving,       \* what has become of each file: "none", "saved", "noted", "linked", "failed", "lost"
  written,      \* when each file on the disk was written, 0 for one that is not there
  row,          \* theft_incidents: stored, and the evidence it links
  used,         \* _used_bytes
  effective,    \* _effective_cap
  rerun,        \* _rerun
  lock,         \* who has _lock
  pass,         \* what each thread's pass has scanned and decided
  uncounted,    \* files whose note a pass has overwritten
  stuck,        \* files the last pass could not delete
  markedUnder,  \* who had the lock when the mark was left
  tooEarly,     \* files deleted before their row linked them
  unrecorded,   \* files whose deletion the rows were not told
  troubles

counts == <<used, effective>>
passes == <<rerun, lock, pass, uncounted, stuck, markedUnder>>
history == <<tooEarly, unrecorded>>
vars == <<saving, written, row, counts, passes, history, troubles>>

Incidents == 1..MaxIncidents
Unknown == -1
Threads == {"loop"} \cup Runners
Still(i) == <<i, "still">>
Clip(i) == <<i, "clip">>
Files == Incidents \X {"still", "clip"}
Size(f) == IF f[2] = "clip" THEN 2 ELSE 1
Total(S) == Cardinality(S) + Cardinality({f \in S : f[2] = "clip"})
On(f) == written[f] # 0
disk == {f \in Files : On(f)}
Cap == {limit \in Limits : \A other \in Limits : other <= limit}
Unnoted == {f \in Files : saving[f] = "saved"}

At(pc, run) == [pc |-> pc, run |-> run, files |-> {}, limit |-> 0, doomed |-> {}]
NoPass == At("idle", 1)
NoRow == [stored |-> FALSE, linked |-> {}, expired |-> FALSE]
NoPasses == [t \in Threads |-> NoPass]

Init ==
  /\ saving = [f \in Files |-> "none"] /\ written = [f \in Files |-> 0] /\ row = [i \in Incidents |-> NoRow]
  /\ used = Unknown /\ effective \in Cap
  /\ rerun = FALSE /\ lock = "nobody" /\ pass = NoPasses
  /\ uncounted = {} /\ stuck = {} /\ markedUnder = "nobody"
  /\ tooEarly = {} /\ unrecorded = {} /\ troubles = 0

Trouble == troubles < MaxTroubles /\ troubles' = troubles + 1

(***************************************************************************)
(* note_write: counts the file, and starts a pass, or leaves a mark for    *)
(* the one that runs, when the limit is exceeded.                          *)
(***************************************************************************)
Mark ==
  /\ rerun' = TRUE
  /\ markedUnder' = IF lock \in Runners /\ pass[lock].run = 1 THEN "first_run" ELSE "other"
  /\ UNCHANGED pass

StartRunner ==
  /\ \E t \in Runners :
       pass[t].pc = "idle" /\ pass' = [pass EXCEPT ![t] = At("due", 1)]
  /\ UNCHANGED <<rerun, markedUnder>>

Note(f) ==
  /\ IF ~ On(f) \/ used = Unknown
     THEN UNCHANGED <<used, rerun, markedUnder, pass>>
     ELSE /\ used' = used + Size(f)
          /\ CASE used' <= effective -> UNCHANGED <<rerun, markedUnder, pass>>
               [] used' > effective /\ lock # "nobody" -> Mark
               [] OTHER -> StartRunner
  /\ UNCHANGED <<effective, lock, uncounted, stuck>>

(***************************************************************************)
(* The writers: the still, one at a time, before the row that links it;    *)
(* the clip, on a thread of its own, once the row is stored.  A still that *)
(* could not be saved leaves a row without a link.                         *)
(***************************************************************************)
MaySave(f) ==
  /\ saving[f] = "none"
  /\ IF f[2] = "still"
     THEN \A i \in Incidents : saving[Still(i)] # "saved" /\ (i < f[1] => saving[Still(i)] # "none")
     ELSE row[f[1]].stored

Save(f) ==
  /\ MaySave(f)
  /\ \/ /\ saving' = [saving EXCEPT ![f] = "saved"]
        /\ written' = [written EXCEPT ![f] = 1 + Cardinality({g \in Files : saving[g] # "none"})]
        /\ UNCHANGED troubles
     \/ Trouble /\ saving' = [saving EXCEPT ![f] = "failed"] /\ UNCHANGED written
  /\ UNCHANGED <<row, counts, passes, history>>

NoteWrite(f) ==
  /\ saving[f] = "saved" /\ Note(f)
  /\ saving' = [saving EXCEPT ![f] = "noted"]
  /\ UNCHANGED <<written, row, history, troubles>>

Stored(links) == [stored |-> TRUE, linked |-> links, expired |-> FALSE]

\* Nobody looks whether the file is still there.
Linked(f) ==
  /\ saving' = [saving EXCEPT ![f] = "linked"]
  /\ tooEarly' = IF On(f) THEN tooEarly ELSE tooEarly \cup {f}

StoreRow(i) ==
  /\ ~ row[i].stored /\ saving[Still(i)] \in {"noted", "failed"}
  /\ IF saving[Still(i)] = "noted"
     THEN row' = [row EXCEPT ![i] = Stored({"still"})] /\ Linked(Still(i))
     ELSE row' = [row EXCEPT ![i] = Stored({})] /\ UNCHANGED <<saving, tooEarly>>
  /\ UNCHANGED <<written, counts, passes, unrecorded, troubles>>

LinkClip(i) ==
  /\ saving[Clip(i)] = "noted"
  /\ row' = [row EXCEPT ![i].linked = @ \cup {"clip"}] /\ Linked(Clip(i))
  /\ UNCHANGED <<written, counts, passes, unrecorded, troubles>>

\* A row is tried many times and then dropped, the link of a clip once.
LinkFails(f) ==
  /\ saving[f] = "noted" /\ Trouble
  /\ saving' = [saving EXCEPT ![f] = "lost"]
  /\ UNCHANGED <<written, row, counts, passes, history>>

(***************************************************************************)
(* A pass: enforce.  The retention by age and the caps of single kinds     *)
(* choose the oldest too, and are taken with the limit.                    *)
(***************************************************************************)
Enter(t) ==
  /\ IF t = "loop" THEN pass[t].pc = "idle" ELSE pass[t].pc = "due"
  /\ rerun' = FALSE /\ pass' = [pass EXCEPT ![t] = At("waiting", @.run)]
  /\ UNCHANGED <<saving, written, row, counts, lock, uncounted, stuck, markedUnder, history, troubles>>

\* A file has to go if, without all that are older, there is too much.
Older(f) == {g \in disk : written[g] < written[f]}
Excess(limit) == {f \in disk : Total(disk \ Older(f)) > limit}

\* For a mutant: the files of an incident are looked at one by one.
NoSiblings(oldest) == oldest
WithSiblings(oldest) == {f \in disk : \E g \in oldest : g[1] = f[1]}

Scan(t) ==
  /\ pass[t].pc = "waiting" /\ lock = "nobody" /\ lock' = t
  /\ \E limit \in Limits :
       pass' = [pass EXCEPT ![t] = [pc |-> "decided", run |-> @.run, files |-> disk, limit |-> limit,
                                    doomed |-> WithSiblings(Excess(limit))]]
  /\ UNCHANGED <<saving, written, row, counts, rerun, uncounted, stuck, markedUnder, history, troubles>>

Delete(t) ==
  /\ pass[t].pc = "decided"
  /\ \/ stuck' = {} /\ UNCHANGED troubles
     \/ Trouble /\ \E f \in pass[t].doomed : stuck' = {f}
  /\ LET gone == pass[t].doomed \ stuck' IN
       /\ written' = [f \in Files |-> IF f \in gone THEN 0 ELSE written[f]]
       /\ pass' = [pass EXCEPT ![t] = [pc |-> "deleted", run |-> @.run, files |-> @.files \ gone, limit |-> @.limit,
                                    doomed |-> gone]]
  /\ UNCHANGED <<saving, row, counts, rerun, lock, uncounted, markedUnder, history>>

\* _mark_expired finds the row by the name of the file.
Expired(r, i, gone) ==
  IF r.stored /\ \E f \in gone : f[1] = i
  THEN [stored |-> TRUE, linked |-> {k \in r.linked : <<i, k>> \notin gone}, expired |-> TRUE]
  ELSE r

\* The rows are told, of stills first; the count is replaced by what the pass has left.
MarkExpired(t) ==
  /\ pass[t].pc = "deleted" /\ pass' = [pass EXCEPT ![t] = At("published", @.run)]
  /\ \E told \in {pass[t].doomed, pass[t].doomed \cap {Still(i) : i \in Incidents}, {}} :
       /\ row' = [i \in Incidents |-> Expired(row[i], i, told)]
       /\ unrecorded' = unrecorded \cup (pass[t].doomed \ told)
       /\ IF told = pass[t].doomed THEN UNCHANGED troubles ELSE Trouble
  /\ used' = Total(pass[t].files) /\ effective' = pass[t].limit
  /\ uncounted' = (disk \ pass[t].files) \ Unnoted
  /\ UNCHANGED <<saving, written, rerun, lock, stuck, markedUnder, tooEarly>>

\* A background thread looks at the mark after its first pass, and only then.
Release(t) ==
  /\ pass[t].pc = "published" /\ lock' = "nobody"
  /\ pass' = [pass EXCEPT ![t] = IF t \in Runners /\ @.run = 1 THEN At("reread", 1) ELSE NoPass]
  /\ UNCHANGED <<saving, written, row, counts, rerun, uncounted, stuck, markedUnder, history, troubles>>

\* For a mutant: the mark is not looked at.
NotAgain(t) == FALSE
Again(t) == rerun

Reread(t) ==
  /\ pass[t].pc = "reread"
  /\ pass' = [pass EXCEPT ![t] = IF Again(t) THEN At("due", 2) ELSE NoPass]
  /\ UNCHANGED <<saving, written, row, counts, rerun, lock, uncounted, stuck, markedUnder, history, troubles>>

\* The box restarts: the files and the rows are all that is left.
Crash ==
  /\ Trouble
  /\ saving' = [f \in Files |->
       IF saving[f] = "linked" \/ saving[Still(f[1])] = "none" THEN saving[f] ELSE "lost"]
  /\ used' = Unknown /\ effective' \in Cap
  /\ rerun' = FALSE /\ lock' = "nobody" /\ pass' = NoPasses
  /\ uncounted' = {} /\ stuck' = {} /\ markedUnder' = "nobody"
  /\ unrecorded' = unrecorded \cup UNION {pass[t].doomed : t \in {u \in Threads : pass[u].pc = "deleted"}}
  /\ UNCHANGED <<written, row, tooEarly>>

Next ==
  \/ \E f \in Files : Save(f) \/ NoteWrite(f) \/ LinkFails(f)
  \/ \E i \in Incidents : StoreRow(i) \/ LinkClip(i)
  \/ \E t \in Threads :
       \/ Enter(t) \/ Scan(t) \/ Delete(t) \/ MarkExpired(t) \/ Release(t) \/ Reread(t)
  \/ Crash

Spec == Init /\ [][Next]_vars

-------------------------------------------------------------------------------
(* Properties *)

TypeOK ==
  /\ saving \in [Files -> {"none", "saved", "noted", "linked", "failed", "lost"}]
  /\ written \in [Files -> Nat]
  /\ row \in [Incidents -> [stored : BOOLEAN, linked : SUBSET {"still", "clip"}, expired : BOOLEAN]]
  /\ used \in Nat \cup {Unknown} /\ effective \in Limits /\ rerun \in BOOLEAN
  /\ lock \in Threads \cup {"nobody"}
  /\ pass \in [Threads -> [pc : {"idle", "due", "waiting", "decided", "deleted", "published", "reread"},
                          run : {1, 2}, files : SUBSET Files, limit : Limits \cup {0}, doomed : SUBSET Files]]
  /\ uncounted \cup stuck \cup tooEarly \cup unrecorded \subseteq Files
  /\ markedUnder \in {"nobody", "first_run", "other"} /\ troubles \in 0..MaxTroubles

\* Whoever deletes a file tells the row that links it: a row that still links a
\* file that is gone got the link afterwards, or the database failed.
BeingMarked(f) == \E t \in Threads : pass[t].pc = "deleted" /\ f \in pass[t].doomed
LinksAreTrue ==
  \A i \in Incidents : \A k \in row[i].linked :
    On(<<i, k>>) \/ BeingMarked(<<i, k>>) \/ <<i, k>> \in tooEarly \cup unrecorded

\* A pass takes the still and the clip of an incident together, of those it has
\* found (step 4 of _enforce).
TakenTogether ==
  \A t \in Threads, i \in Incidents :
    pass[t].pc = "deleted" /\ Still(i) \in pass[t].doomed => Clip(i) \notin pass[t].files \ stuck

\* The count is never below what is on the disk, but for files noted while a
\* pass that has not seen them was under way.
CountHolds == used # Unknown => Total(disk \ (uncounted \cup Unnoted)) <= used

\* When everything rests over the limit, a mark has been left, and by one whose
\* pass nobody followed: the loop's, or the second of a background thread.
AtRest == \A t \in Threads : pass[t].pc = "idle"
OverIsFollowed ==
  AtRest =>
    /\ used > effective => rerun \/ stuck # {}
    /\ rerun => markedUnder = "other"

EvidenceSound == LinksAreTrue /\ TakenTogether /\ CountHolds /\ OverIsFollowed
================================================================================
