----------------------------- MODULE IncidentClips -----------------------------
(***************************************************************************)
(* Theft incidents on their way to the database and the clips recorded for *)
(* them: the queue the cameras' threads fill, the writer's flushes with    *)
(* their retries, and the threads that record a clip, which incidents of   *)
(* one camera may share (pose_analytics.py, clip_recorder.py).             *)
(*                                                                         *)
(* There is one camera; those of the other cameras may hold all places for *)
(* clips.  The incidents are numbered as they happen, and every list of    *)
(* them is in that order: what a failed flush puts back in front of the    *)
(* queue is older than what has come since.  So a list is a set here.      *)
(***************************************************************************)
EXTENDS Integers, Sequences, FiniteSets

CONSTANTS
  SeenAt,       \* when each incident happened, in the order they are seen
  PostRoll,     \* POST_EVENT_RECORD_SECONDS
  QueueMax,     \* the bound of _enqueue
  Tries,        \* flushes that try to store an incident
  MaxTroubles   \* bound: writes that fail, clips without a picture, restarts

VARIABLES
  seen,         \* incidents that have happened
  queue,        \* _pending
  tries,        \* _attempts of each incident
  still,        \* _snapshot_path: "none", "kept", "failed"
  flush,        \* flush_now: where it is and its batch
  row,          \* theft_incidents: "none", "plain", or the incident whose clip it links
  entry,        \* the camera's entry of _clips_active
  clip,         \* the thread that records each incident's clip
  linking,      \* the incidents that thread is about to link
  joined,       \* the clip each incident was told it shares
  mixed,        \* clips of which one has taken the other's entry
  unlinked,     \* clips whose link could not be written
  lost,         \* incidents that were dropped
  troubles

writer == <<queue, tries, still, flush>>
clips == <<entry, clip, linking>>
history == <<joined, mixed, unlinked>>
vars == <<seen, writer, row, clips, history, lost, troubles>>

Incidents == DOMAIN SeenAt
Oldest(S) == {i \in S : \A j \in S : i <= j}
Nothing == 0
Plain == -1
Covers(i, j) == SeenAt[j] <= SeenAt[i] + PostRoll

NoFlush == [pc |-> "idle", batch |-> {}]
NoEntry == [id |-> Nothing, shared |-> {}]
NoTries == [i \in Incidents |-> 0]
NoStills == [i \in Incidents |-> "none"]
NoClips == [i \in Incidents |-> "none"]
NoLinks == [i \in Incidents |-> {}]

Init ==
  /\ seen = 0 /\ queue = {} /\ tries = NoTries /\ still = NoStills /\ flush = NoFlush
  /\ row = [i \in Incidents |-> Nothing]
  /\ entry = NoEntry /\ clip = NoClips /\ linking = NoLinks
  /\ joined = [i \in Incidents |-> Nothing] /\ mixed = {} /\ unlinked = {}
  /\ lost = {} /\ troubles = 0

Trouble == troubles < MaxTroubles /\ troubles' = troubles + 1

(***************************************************************************)
(* The queue and the writer.                                               *)
(***************************************************************************)
Newest(S, n) == {i \in S : Cardinality({j \in S : j > i}) < n}

\* _enqueue drops the oldest of a queue that is full.
See ==
  /\ seen + 1 \in Incidents /\ seen' = seen + 1
  /\ queue' = Newest(queue \cup {seen'}, QueueMax)
  /\ lost' = lost \cup ((queue \cup {seen'}) \ queue')
  /\ UNCHANGED <<tries, still, flush, row, clips, history, troubles>>

Take ==
  /\ flush.pc = "idle" /\ queue # {}
  /\ flush' = [pc |-> "stills", batch |-> queue] /\ queue' = {}
  /\ UNCHANGED <<seen, tries, still, row, clips, history, lost, troubles>>

Unpictured == {i \in flush.batch : still[i] = "none"}

\* A still that fails is not tried again, and one that is kept is not saved twice.
WriteStill ==
  /\ flush.pc = "stills"
  /\ \E i \in Oldest(Unpictured) :
       \/ still' = [still EXCEPT ![i] = "kept"] /\ UNCHANGED troubles
       \/ Trouble /\ still' = [still EXCEPT ![i] = "failed"]
  /\ UNCHANGED <<seen, queue, tries, flush, row, clips, history, lost>>

Pictured == flush.pc = "stills" /\ Unpictured = {}

Commit ==
  /\ Pictured
  /\ row' = [i \in Incidents |-> IF i \in flush.batch THEN Plain ELSE row[i]]
  /\ flush' = [flush EXCEPT !.pc = "clips"]
  /\ UNCHANGED <<seen, queue, tries, still, clips, history, lost, troubles>>

\* For a mutant: what has come meanwhile is replaced by the batch.
Instead(batch) == batch
InFront(batch) == batch \cup queue

CommitFails ==
  /\ Pictured /\ Trouble
  /\ tries' = [i \in Incidents |-> IF i \in flush.batch THEN tries[i] + 1 ELSE tries[i]]
  /\ queue' = InFront({i \in flush.batch : tries'[i] < Tries})
  /\ lost' = lost \cup {i \in flush.batch : tries'[i] = Tries}
  /\ flush' = NoFlush
  /\ UNCHANGED <<seen, still, row, clips, history>>

(***************************************************************************)
(* _start_incident_clip: an incident within the post-roll of the camera's  *)
(* clip shares it; another gets a clip of its own, if there is a place,    *)
(* and its entry takes the place of the camera's last one.                 *)
(***************************************************************************)
\* For a mutant: whatever clip is being recorded is shared.
SharesAny(i) == entry.id # Nothing
Shares(i) == entry.id # Nothing /\ Covers(entry.id, i)

ThreadStarts(i) ==
  /\ entry' = [id |-> i, shared |-> {}]
  /\ clip' = [clip EXCEPT ![i] = "recording"]
  /\ mixed' = IF entry.id = Nothing THEN mixed ELSE mixed \cup {entry.id, i}
  /\ UNCHANGED joined

Share(i) ==
  /\ entry' = [entry EXCEPT !.shared = @ \cup {i}]
  /\ joined' = [joined EXCEPT ![i] = entry.id]
  /\ UNCHANGED <<clip, mixed>>

StartClip ==
  /\ flush.pc = "clips"
  /\ \E i \in Oldest(flush.batch) :
       /\ IF Shares(i) THEN Share(i)
          ELSE ThreadStarts(i) \/ UNCHANGED <<entry, clip, joined, mixed>>
       /\ flush' = [flush EXCEPT !.batch = @ \ {i}]
  /\ UNCHANGED <<seen, queue, tries, still, row, linking, unlinked, lost, troubles>>

Flushed ==
  /\ flush.pc = "clips" /\ flush.batch = {} /\ flush' = NoFlush
  /\ UNCHANGED <<seen, queue, tries, still, row, clips, history, lost, troubles>>

(***************************************************************************)
(* The thread of a clip: it saves the file, takes the camera's entry away, *)
(* whoever's it is by then, and links the clip to those it finds in it.    *)
(***************************************************************************)
Recorded(i) ==
  /\ clip[i] = "recording"
  /\ \/ clip' = [clip EXCEPT ![i] = "saved"] /\ UNCHANGED troubles
     \/ Trouble /\ clip' = [clip EXCEPT ![i] = "failed"]
  /\ UNCHANGED <<seen, writer, row, entry, linking, history, lost>>

\* For a mutant: only the incident the clip was started for is linked.
Own(i) == {i}
InEntry(i) == {i} \cup entry.shared

Pop(i) ==
  /\ clip[i] \in {"saved", "failed"}
  /\ entry' = NoEntry
  /\ mixed' = IF entry.id \in {Nothing, i} THEN mixed ELSE mixed \cup {entry.id, i}
  /\ IF clip[i] = "saved"
     THEN clip' = [clip EXCEPT ![i] = "linking"] /\ linking' = [linking EXCEPT ![i] = InEntry(i)]
     ELSE clip' = [clip EXCEPT ![i] = "none"] /\ UNCHANGED linking
  /\ UNCHANGED <<seen, writer, row, joined, unlinked, lost, troubles>>

Link(i) ==
  /\ clip[i] = "linking"
  /\ clip' = [clip EXCEPT ![i] = "done"] /\ linking' = [linking EXCEPT ![i] = {}]
  /\ \/ /\ row' = [j \in Incidents |-> IF j \in linking[i] THEN i ELSE row[j]]
        /\ UNCHANGED <<unlinked, troubles>>
     \/ Trouble /\ unlinked' = unlinked \cup {i} /\ UNCHANGED row
  /\ UNCHANGED <<seen, writer, entry, joined, mixed, lost>>

\* The rows are all that a restart leaves.
Restart ==
  /\ Trouble
  /\ lost' = lost \cup {i \in 1..seen : row[i] = Nothing}
  /\ queue' = {} /\ tries' = NoTries /\ still' = NoStills /\ flush' = NoFlush
  /\ entry' = NoEntry /\ clip' = NoClips /\ linking' = NoLinks
  /\ UNCHANGED <<seen, row, history>>

Next ==
  \/ See \/ Take \/ WriteStill \/ Commit \/ CommitFails \/ StartClip \/ Flushed \/ Restart
  \/ \E i \in Incidents : Recorded(i) \/ Pop(i) \/ Link(i)

Spec == Init /\ [][Next]_vars

-------------------------------------------------------------------------------
(* Properties *)

TypeOK ==
  /\ seen \in 0..Len(SeenAt) /\ queue \subseteq Incidents
  /\ tries \in [Incidents -> 0..Tries] /\ still \in [Incidents -> {"none", "kept", "failed"}]
  /\ flush \in [pc : {"idle", "stills", "clips"}, batch : SUBSET Incidents]
  /\ row \in [Incidents -> Incidents \cup {Nothing, Plain}]
  /\ entry \in [id : Incidents \cup {Nothing}, shared : SUBSET Incidents]
  /\ clip \in [Incidents -> {"none", "recording", "saved", "failed", "linking", "done"}]
  /\ linking \in [Incidents -> SUBSET Incidents]
  /\ joined \in [Incidents -> Incidents \cup {Nothing}]
  /\ mixed \cup unlinked \cup lost \subseteq Incidents /\ troubles \in 0..MaxTroubles

\* An incident is linked to the clip of another only if that clip covers it,
\* unless two clips of the camera ran at once.
SharedClipCovers ==
  \A i, j \in Incidents : row[j] = i => Covers(i, j) \/ i \in mixed

\* Who was told it shares a clip is linked to it once the clip is, unless two
\* clips of the camera ran at once or the link could not be written.
SharersAreLinked ==
  \A i, j \in Incidents :
    joined[j] = i /\ clip[i] = "done" => row[j] = i \/ i \in mixed \cup unlinked

\* No incident is in two places, or in none: it waits, is being stored, is
\* stored, or was dropped after all its tries, by a full queue or a restart.
BeingStored == IF flush.pc = "stills" THEN flush.batch ELSE {}
Stored == {i \in Incidents : row[i] # Nothing}
NothingForgotten ==
  /\ queue \cup BeingStored \cup Stored \cup lost = 1..seen
  /\ queue \cap (BeingStored \cup Stored \cup lost) = {}
  /\ BeingStored \cap (Stored \cup lost) = {} /\ Stored \cap lost = {}

ClipsSound == SharedClipCovers /\ SharersAreLinked /\ NothingForgotten
================================================================================
