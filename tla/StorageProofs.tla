------------------------------ MODULE StorageProofs ------------------------------
(***************************************************************************)
(* What the box keeps: proofs about IncidentClips, EvidenceStorage and     *)
(* Backups, for all their parameters.  Each part has lemmas on its first   *)
(* state, its steps and what its invariant says (Start, Next, Safe), which *)
(* StoreProofs cites, and a theorem.                                       *)
(***************************************************************************)
EXTENDS Integers, Sequences, FiniteSets, FiniteSetTheorems, FunctionTheorems,
        WellFoundedInduction, TLAPS

CONSTANTS
  ClipSeenAt, ClipPostRoll, ClipQueue, ClipTries, ClipTroubles,
  EvidenceIncidents, EvidenceLimits, EvidenceRunners, EvidenceTroubles,
  LatestMigration, LargerMigrations, StartupCopies, CopiesPerKind, CopyBudgets, CopiesMade,
  BackupTroubles

VARIABLES
  seen, queue, tries, still, flush, clipRow, entry, clip, linking, joined, mixed, unlinked, lostRows,
  clipTroubles,
  saving, written, evidenceRow, used, effective, rerun, lock, pass, uncounted, stuck, markedUnder,
  tooEarly, unrecorded, evidenceTroubles,
  db, copies, lastCopy, marker, upgradeLock, proc, sweep, restore, swapped, underway, refused,
  squeezed, early, twice, backupTroubles

C == INSTANCE IncidentClips WITH SeenAt <- ClipSeenAt, PostRoll <- ClipPostRoll,
                                 QueueMax <- ClipQueue, Tries <- ClipTries,
                                 MaxTroubles <- ClipTroubles, row <- clipRow, lost <- lostRows,
                                 troubles <- clipTroubles
E == INSTANCE EvidenceStorage WITH MaxIncidents <- EvidenceIncidents, Limits <- EvidenceLimits,
                                   Runners <- EvidenceRunners, MaxTroubles <- EvidenceTroubles,
                                   row <- evidenceRow, troubles <- evidenceTroubles
B == INSTANCE Backups WITH Latest <- LatestMigration, NonAdditive <- LargerMigrations,
                           KeepStartup <- StartupCopies, KeepPerKind <- CopiesPerKind,
                           Budgets <- CopyBudgets, MaxCopies <- CopiesMade,
                           MaxTroubles <- BackupTroubles, made <- lastCopy, lock <- upgradeLock,
                           pass <- sweep, crossed <- underway, troubles <- backupTroubles

-------------------------------------------------------------------------------
(* IncidentClips: any incidents, flushes, failures and restarts.            *)

ClipBounds == /\ ClipSeenAt \in Seq(Int) /\ ClipPostRoll \in Nat /\ ClipTries \in Nat \ {0}
              /\ ClipTroubles \in Nat

Active(i) == clip[i] \in {"recording", "saved", "failed"}
NotYetTried(i) == clip[i] = "none" /\ joined[i] = C!Nothing /\ \A j \in C!Incidents : joined[j] # i

\* An incident that has had all its tries is dropped, and what is about to get a
\* clip is stored.
WriterInv ==
  /\ C!NothingForgotten
  /\ \A i \in C!Incidents : tries[i] = ClipTries => i \in lostRows
  /\ flush.pc = "clips" => flush.batch \subseteq C!Stored
  /\ flush.pc = "idle" => flush.batch = {}

\* The entry is that of a clip being recorded; one without its entry is mixed.
EntryInv ==
  /\ IF entry.id = C!Nothing THEN entry.shared = {} ELSE Active(entry.id)
  /\ \A i \in C!Incidents : Active(i) /\ entry.id # i => i \in mixed
  /\ \A j \in entry.shared : joined[j] = entry.id /\ C!Covers(entry.id, j)

\* An incident is taken once: it starts a clip or joins one.
OnceInv ==
  /\ \A i \in C!Incidents : i \in flush.batch \/ clipRow[i] = C!Nothing => NotYetTried(i)
  /\ \A i \in C!Incidents : joined[i] # C!Nothing => clip[i] = "none"

LinkInv ==
  /\ \A i \in C!Incidents : linking[i] # {} => clip[i] = "linking"
  /\ \A i \in C!Incidents : \A j \in linking[i] :
       j = i \/ (joined[j] = i /\ C!Covers(i, j)) \/ (i \in mixed /\ joined[j] \in mixed)
  /\ C!SharedClipCovers

\* Where an incident that joined a clip is, until it is linked.
ComesAlong(i, j) ==
  \/ i \in mixed \cup unlinked \/ clip[i] = "none"
  \/ Active(i) /\ entry.id = i /\ j \in entry.shared
  \/ clip[i] = "linking" /\ j \in linking[i]
  \/ clip[i] = "done" /\ clipRow[j] = i
JoinedInv == \A i, j \in C!Incidents : joined[j] = i => ComesAlong(i, j)

ClipInv == ClipBounds /\ C!TypeOK /\ WriterInv /\ EntryInv /\ OnceInv /\ LinkInv /\ JoinedInv

\* The constants of the bounds, as numbers.
LEMMA ClipNames ==
  ClipBounds => /\ Len(ClipSeenAt) \in Nat /\ C!Incidents = 1..Len(ClipSeenAt)
                /\ C!Nothing \notin C!Incidents /\ C!Plain \notin C!Incidents
                /\ C!Plain # C!Nothing
BY DEF ClipBounds, C!Incidents, C!Nothing, C!Plain

\* Nothing has been seen.
LEMMA ClipStart == ClipBounds => (C!Init => ClipInv)
<1> SUFFICES ASSUME ClipBounds, C!Init PROVE ClipInv
  OBVIOUS
<1> USE ClipNames
<1>1. 1..0 = {} /\ 0 \in 0..Len(ClipSeenAt) /\ 0 \in 0..ClipTries /\ 0 \in 0..ClipTroubles
  BY DEF ClipBounds
<1>2. C!TypeOK
  <2>1. /\ C!NoTries \in [C!Incidents -> 0..ClipTries]
        /\ C!NoStills \in [C!Incidents -> {"none", "kept", "failed"}]
    BY <1>1 DEF C!NoTries, C!NoStills
  <2>2. C!NoClips \in [C!Incidents -> {"none", "recording", "saved", "failed", "linking", "done"}]
    BY DEF C!NoClips
  <2>3. C!NoLinks \in [C!Incidents -> SUBSET C!Incidents]
    BY DEF C!NoLinks
  <2>4. /\ clipRow \in [C!Incidents -> C!Incidents \cup {C!Nothing, C!Plain}]
        /\ joined \in [C!Incidents -> C!Incidents \cup {C!Nothing}]
    BY DEF C!Init
  <2>5. C!NoFlush \in [pc : {"idle", "stills", "clips"}, batch : SUBSET C!Incidents]
    BY DEF C!NoFlush
  <2>6. C!NoEntry \in [id : C!Incidents \cup {C!Nothing}, shared : SUBSET C!Incidents]
    BY DEF C!NoEntry
  <2> QED BY <1>1, <2>1, <2>2, <2>3, <2>4, <2>5, <2>6 DEF C!Init, C!TypeOK
<1>3. WriterInv
  BY <1>1 DEF C!Init, WriterInv, C!NothingForgotten, C!BeingStored, C!Stored, C!NoFlush,
     C!NoTries, ClipBounds
<1>4. EntryInv /\ OnceInv /\ LinkInv /\ JoinedInv
  BY DEF C!Init, EntryInv, OnceInv, LinkInv, JoinedInv, C!NoEntry, C!NoClips, C!NoLinks,
     C!NoFlush, NotYetTried, Active, ComesAlong, C!SharedClipCovers
<1> QED BY <1>2, <1>3, <1>4 DEF ClipInv

\* Every step leaves functions functions.
LEMMA ClipTypes ==
  ASSUME ClipInv, [C!Next]_(C!vars)
  PROVE  C!TypeOK'
<1> USE ClipNames
<1>1. CASE C!See
  BY <1>1 DEF ClipInv, ClipBounds, C!TypeOK, C!writer, C!clips, C!history, C!Trouble, C!See,
     C!Newest, C!Incidents
<1>2. CASE C!Take
  BY <1>2 DEF ClipInv, ClipBounds, C!TypeOK, C!writer, C!clips, C!history, C!Trouble, C!Take
<1>3. CASE C!WriteStill
  <2>1. PICK i \in C!Oldest(C!Unpictured) :
          \/ still' = [still EXCEPT ![i] = "kept"] /\ UNCHANGED clipTroubles
          \/ C!Trouble /\ still' = [still EXCEPT ![i] = "failed"]
    BY <1>3 DEF C!WriteStill
  <2>2. still' \in [C!Incidents -> {"none", "kept", "failed"}] /\ clipTroubles' \in 0..ClipTroubles
    <3>1. i \in C!Incidents /\ clipTroubles' \in 0..ClipTroubles
      BY <2>1 DEF ClipInv, ClipBounds, C!TypeOK, C!Trouble, C!Oldest, C!Unpictured
    <3>2. CASE still' = [still EXCEPT ![i] = "kept"]
      BY <3>1, <3>2 DEF ClipInv, C!TypeOK
    <3>3. CASE still' = [still EXCEPT ![i] = "failed"]
      BY <3>1, <3>3 DEF ClipInv, C!TypeOK
    <3> QED BY <2>1, <3>1, <3>2, <3>3
  <2> QED BY <1>3, <2>2 DEF ClipInv, C!TypeOK, C!WriteStill, C!clips, C!history
<1>4. CASE C!Commit
  BY <1>4 DEF ClipInv, ClipBounds, C!TypeOK, C!writer, C!clips, C!history, C!Trouble, C!Commit
<1>5. CASE C!CommitFails
  <2>1. \A i \in flush.batch : i \in C!Incidents /\ tries[i] + 1 \in 0..ClipTries
    BY <1>5 DEF ClipInv, ClipBounds, C!TypeOK, C!writer, C!clips, C!history, C!Trouble, WriterInv,
       C!NothingForgotten, C!BeingStored, C!Stored, C!CommitFails, C!Pictured
  <2>2. tries' \in [C!Incidents -> 0..ClipTries] /\ clipTroubles' \in 0..ClipTroubles
    BY <1>5, <2>1 DEF ClipInv, ClipBounds, C!TypeOK, C!CommitFails, C!Trouble
  <2>3. queue' \subseteq C!Incidents /\ lostRows' \subseteq C!Incidents
    BY <1>5 DEF ClipInv, C!TypeOK, C!CommitFails, C!InFront
  <2> QED BY <1>5, <2>2, <2>3 DEF ClipInv, C!TypeOK, C!CommitFails, C!NoFlush, C!clips, C!history
<1>6. CASE C!StartClip
  <2>1. PICK i \in C!Oldest(flush.batch) :
          /\ IF C!Shares(i) THEN C!Share(i)
             ELSE C!ThreadStarts(i) \/ UNCHANGED <<entry, clip, joined, mixed>>
          /\ flush' = [flush EXCEPT !.batch = @ \ {i}]
    BY <1>6 DEF C!StartClip
  <2>2. i \in C!Incidents /\ flush' \in [pc : {"idle", "stills", "clips"}, batch : SUBSET C!Incidents]
    BY <2>1 DEF ClipInv, C!TypeOK, C!Oldest
  <2>3. /\ entry' \in [id : C!Incidents \cup {C!Nothing}, shared : SUBSET C!Incidents]
        /\ clip' \in [C!Incidents -> {"none", "recording", "saved", "failed", "linking", "done"}]
        /\ joined' \in [C!Incidents -> C!Incidents \cup {C!Nothing}]
        /\ mixed' \subseteq C!Incidents
    <3>1. CASE C!Share(i) /\ C!Shares(i)
      <4>1. entry.id \in C!Incidents /\ entry.shared \in SUBSET C!Incidents
        BY <3>1 DEF ClipInv, C!TypeOK, C!Shares
      <4>2. entry' \in [id : C!Incidents \cup {C!Nothing}, shared : SUBSET C!Incidents]
        BY <2>2, <3>1, <4>1 DEF ClipInv, C!TypeOK, C!Share
      <4>3. joined' \in [C!Incidents -> C!Incidents \cup {C!Nothing}] /\ UNCHANGED <<clip, mixed>>
        BY <2>2, <3>1, <4>1 DEF ClipInv, C!TypeOK, C!Share
      <4> QED BY <4>2, <4>3 DEF ClipInv, C!TypeOK
    <3>2. CASE C!ThreadStarts(i)
      BY <2>2, <3>2 DEF ClipInv, C!TypeOK, C!ThreadStarts
    <3>3. CASE UNCHANGED <<entry, clip, joined, mixed>>
      BY <3>3 DEF ClipInv, C!TypeOK
    <3> QED BY <2>1, <3>1, <3>2, <3>3
  <2> QED BY <1>6, <2>2, <2>3 DEF ClipInv, C!TypeOK, C!StartClip
<1>7. CASE C!Flushed
  BY <1>7 DEF ClipInv, ClipBounds, C!TypeOK, C!writer, C!clips, C!history, C!Trouble, C!Flushed,
     C!NoFlush
<1>8. CASE C!Restart
  <2>1. /\ C!NoTries \in [C!Incidents -> 0..ClipTries]
        /\ C!NoStills \in [C!Incidents -> {"none", "kept", "failed"}]
    BY DEF ClipInv, ClipBounds, C!NoTries, C!NoStills
  <2>2. C!NoClips \in [C!Incidents -> {"none", "recording", "saved", "failed", "linking", "done"}]
    BY DEF C!NoClips
  <2>3. C!NoLinks \in [C!Incidents -> SUBSET C!Incidents] /\ clipTroubles' \in 0..ClipTroubles
    BY <1>8 DEF ClipInv, ClipBounds, C!TypeOK, C!Restart, C!Trouble, C!NoLinks
  <2>4. C!NoFlush \in [pc : {"idle", "stills", "clips"}, batch : SUBSET C!Incidents]
    BY DEF C!NoFlush
  <2>5. C!NoEntry \in [id : C!Incidents \cup {C!Nothing}, shared : SUBSET C!Incidents]
    BY DEF C!NoEntry
  <2>6. lostRows' \subseteq C!Incidents
    BY <1>8 DEF ClipInv, ClipBounds, C!TypeOK, C!Restart
  <2> QED BY <1>8, <2>1, <2>2, <2>3, <2>4, <2>5, <2>6 DEF ClipInv, C!TypeOK, C!Restart, C!history
<1>9. ASSUME NEW i \in C!Incidents, C!Recorded(i) PROVE C!TypeOK'
  <2>1. clipTroubles' \in 0..ClipTroubles
    BY <1>9 DEF ClipInv, ClipBounds, C!TypeOK, C!Recorded, C!Trouble
  <2>2. clip' \in [C!Incidents -> {"none", "recording", "saved", "failed", "linking", "done"}]
    BY <1>9 DEF ClipInv, C!TypeOK, C!Recorded
  <2> QED BY <1>9, <2>1, <2>2 DEF ClipInv, C!TypeOK, C!Recorded, C!writer, C!history
<1>10. ASSUME NEW i \in C!Incidents, C!Pop(i) PROVE C!TypeOK'
  <2>1. /\ C!InEntry(i) \subseteq C!Incidents
        /\ C!NoEntry \in [id : C!Incidents \cup {C!Nothing}, shared : SUBSET C!Incidents]
    BY DEF ClipInv, C!TypeOK, C!InEntry, C!NoEntry
  <2>2. clip' \in [C!Incidents -> {"none", "recording", "saved", "failed", "linking", "done"}]
    <3>1. CASE clip[i] = "saved"
      BY <1>10, <3>1 DEF ClipInv, C!TypeOK, C!Pop
    <3>2. CASE clip[i] # "saved"
      <4>1. clip' = [clip EXCEPT ![i] = "none"]
        BY <1>10, <3>2 DEF C!Pop
      <4> QED BY <4>1 DEF ClipInv, C!TypeOK
    <3> QED BY <3>1, <3>2
  <2>3. linking' \in [C!Incidents -> SUBSET C!Incidents]
    <3>1. CASE clip[i] = "saved"
      <4>1. linking' = [linking EXCEPT ![i] = C!InEntry(i)]
        BY <1>10, <3>1 DEF C!Pop
      <4> QED BY <2>1, <4>1 DEF ClipInv, C!TypeOK
    <3>2. CASE clip[i] # "saved"
      BY <1>10, <3>2 DEF ClipInv, C!TypeOK, C!Pop
    <3> QED BY <3>1, <3>2
  <2>4. mixed' \subseteq C!Incidents
    BY <1>10 DEF ClipInv, C!TypeOK, C!Pop
  <2> QED BY <1>10, <2>1, <2>2, <2>3, <2>4 DEF ClipInv, C!TypeOK, C!Pop, C!writer
<1>11. ASSUME NEW i \in C!Incidents, C!Link(i) PROVE C!TypeOK'
  <2>1. /\ clip' \in [C!Incidents -> {"none", "recording", "saved", "failed", "linking", "done"}]
        /\ linking' \in [C!Incidents -> SUBSET C!Incidents]
    BY <1>11 DEF ClipInv, C!TypeOK, C!Link
  <2>2. clipRow' \in [C!Incidents -> C!Incidents \cup {C!Nothing, C!Plain}]
    BY <1>11 DEF ClipInv, C!TypeOK, C!Link
  <2>3. clipTroubles' \in 0..ClipTroubles /\ unlinked' \subseteq C!Incidents
    BY <1>11 DEF ClipInv, ClipBounds, C!TypeOK, C!Link, C!Trouble
  <2> QED BY <1>11, <2>1, <2>2, <2>3 DEF ClipInv, C!TypeOK, C!Link, C!writer
<1>12. CASE UNCHANGED C!vars
  BY <1>12 DEF ClipInv, ClipBounds, C!TypeOK, C!writer, C!clips, C!history, C!Trouble, C!vars,
     C!writer, C!clips, C!history
<1> QED BY <1>1, <1>2, <1>3, <1>4, <1>5, <1>6, <1>7, <1>8, <1>9, <1>10, <1>11, <1>12 DEF C!Next

\* A flush takes what waits, and tries an incident so many times (_enqueue, flush_now).
LEMMA WriterKeeps ==
  ASSUME ClipInv, [C!Next]_(C!vars)
  PROVE  WriterInv'
<1> USE ClipNames
<1>1. CASE C!See
  <2>1. seen' = seen + 1 /\ seen \in Nat /\ 1..seen' = (1..seen) \cup {seen'} /\ seen' \notin 1..seen
    BY <1>1 DEF ClipInv, C!TypeOK, C!See
  <2>2. queue' \cup lostRows' = queue \cup lostRows \cup {seen'} /\ lostRows \subseteq lostRows'
    BY <1>1 DEF C!See, C!Newest
  <2>3. /\ queue' \cap lostRows' = {} /\ queue' \subseteq queue \cup {seen'}
        /\ lostRows' \subseteq lostRows \cup queue \cup {seen'}
    BY <1>1, <2>1 DEF ClipInv, ClipBounds, C!TypeOK, C!writer, C!clips, C!history, C!Trouble,
       WriterInv, C!NothingForgotten, C!BeingStored, C!Stored, C!See, C!Newest
  <2>4. C!NothingForgotten'
    <3>1. UNCHANGED <<flush, clipRow>> /\ UNCHANGED <<C!BeingStored, C!Stored>>
      BY <1>1 DEF C!See, C!writer, C!clips, C!BeingStored, C!Stored
    <3> QED BY <1>1, <2>1, <2>2, <2>3, <3>1 DEF ClipInv, WriterInv, C!NothingForgotten
  <2> QED BY <1>1, <2>2, <2>4 DEF ClipInv, ClipBounds, C!TypeOK, C!writer, C!clips, C!history,
     C!Trouble, WriterInv, C!NothingForgotten, C!BeingStored, C!Stored, C!See
<1>2. CASE C!Take
  BY <1>2 DEF ClipInv, ClipBounds, C!TypeOK, C!writer, C!clips, C!history, C!Trouble, WriterInv,
     C!NothingForgotten, C!BeingStored, C!Stored, C!Take, C!NoFlush
<1>3. CASE C!WriteStill
  BY <1>3 DEF ClipInv, ClipBounds, C!TypeOK, C!writer, C!clips, C!history, C!Trouble, WriterInv,
     C!NothingForgotten, C!BeingStored, C!Stored, C!WriteStill
<1>4. CASE C!Commit
  BY <1>4 DEF ClipInv, ClipBounds, C!TypeOK, C!writer, C!clips, C!history, C!Trouble, WriterInv,
     C!NothingForgotten, C!BeingStored, C!Stored, C!Commit, C!Pictured
<1>5. CASE C!CommitFails
  <2>1. \A i \in flush.batch : i \in C!Incidents /\ tries[i] + 1 \in 0..ClipTries /\ i \notin lostRows
    BY <1>5 DEF ClipInv, ClipBounds, C!TypeOK, C!writer, C!clips, C!history, C!Trouble, WriterInv,
       C!NothingForgotten, C!BeingStored, C!Stored, C!CommitFails, C!Pictured
  <2>2. \A i \in flush.batch :
          tries'[i] = tries[i] + 1 /\ (tries'[i] < ClipTries \/ tries'[i] = ClipTries)
    BY <1>5, <2>1 DEF ClipInv, ClipBounds, C!TypeOK, C!CommitFails
  <2>3. queue' \cup lostRows' = queue \cup lostRows \cup flush.batch
    BY <1>5, <2>2 DEF C!CommitFails, C!InFront
  <2>4. /\ queue' \cap lostRows' = {} /\ queue' \subseteq queue \cup flush.batch
        /\ lostRows' \subseteq lostRows \cup flush.batch
    BY <1>5, <2>1, <2>2 DEF ClipInv, ClipBounds, C!TypeOK, C!writer, C!clips, C!history,
       C!Trouble, WriterInv, C!NothingForgotten, C!BeingStored, C!Stored, C!CommitFails,
       C!InFront, C!Pictured
  <2>5. C!NothingForgotten'
    <3>1. C!BeingStored = flush.batch /\ C!BeingStored' = {} /\ C!Stored' = C!Stored /\ seen' = seen
      BY <1>5 DEF C!CommitFails, C!Pictured, C!NoFlush, C!BeingStored, C!Stored
    <3> QED BY <2>3, <2>4, <3>1 DEF ClipInv, WriterInv, C!NothingForgotten
  <2>6. \A i \in C!Incidents : tries'[i] = ClipTries => i \in lostRows'
    BY <1>5, <2>1 DEF ClipInv, ClipBounds, C!TypeOK, C!writer, C!clips, C!history, C!Trouble,
       WriterInv, C!NothingForgotten, C!BeingStored, C!Stored, C!CommitFails, C!Pictured
  <2> QED BY <1>5, <2>5, <2>6 DEF WriterInv, C!CommitFails, C!NoFlush
<1>6. CASE C!StartClip
  BY <1>6 DEF ClipInv, ClipBounds, C!TypeOK, C!writer, C!clips, C!history, C!Trouble, WriterInv,
     C!NothingForgotten, C!BeingStored, C!Stored, C!StartClip, C!Oldest
<1>7. CASE C!Flushed
  BY <1>7 DEF ClipInv, ClipBounds, C!TypeOK, C!writer, C!clips, C!history, C!Trouble, WriterInv,
     C!NothingForgotten, C!BeingStored, C!Stored, C!Flushed, C!NoFlush
<1>8. CASE C!Restart
  BY <1>8 DEF ClipInv, ClipBounds, C!TypeOK, C!writer, C!clips, C!history, C!Trouble, WriterInv,
     C!NothingForgotten, C!BeingStored, C!Stored, C!Restart, C!NoTries, C!NoFlush
<1>9. ASSUME NEW i \in C!Incidents, C!Recorded(i) PROVE WriterInv'
  BY <1>9 DEF ClipInv, ClipBounds, C!TypeOK, C!writer, C!clips, C!history, C!Trouble, WriterInv,
     C!NothingForgotten, C!BeingStored, C!Stored, C!Recorded
<1>10. ASSUME NEW i \in C!Incidents, C!Pop(i) PROVE WriterInv'
  BY <1>10 DEF ClipInv, ClipBounds, C!TypeOK, C!writer, C!clips, C!history, C!Trouble, WriterInv,
     C!NothingForgotten, C!BeingStored, C!Stored, C!Pop
<1>11. ASSUME NEW i \in C!Incidents, C!Link(i) PROVE WriterInv'
  <2>1. linking[i] \subseteq C!Stored
    BY <1>11 DEF ClipInv, C!TypeOK, LinkInv, OnceInv, NotYetTried, C!Stored, C!Link
  <2>2. C!Stored' = C!Stored
    BY <1>11, <2>1 DEF ClipInv, C!TypeOK, C!Stored, C!Link
  <2>3. UNCHANGED <<seen, C!writer, lostRows, C!BeingStored>>
    BY <1>11 DEF C!Link, C!writer, C!BeingStored
  <2> QED BY <2>2, <2>3 DEF ClipInv, WriterInv, C!NothingForgotten, C!writer
<1>12. CASE UNCHANGED C!vars
  BY <1>12 DEF ClipInv, ClipBounds, C!TypeOK, C!writer, C!clips, C!history, C!Trouble, WriterInv,
     C!NothingForgotten, C!BeingStored, C!Stored, C!vars, C!writer, C!clips, C!history
<1> QED BY <1>1, <1>2, <1>3, <1>4, <1>5, <1>6, <1>7, <1>8, <1>9, <1>10, <1>11, <1>12 DEF C!Next

\* A clip takes the camera's entry over, and only its own thread gives it up (_clips_active).
LEMMA EntryKeeps ==
  ASSUME ClipInv, [C!Next]_(C!vars)
  PROVE  EntryInv'
<1> USE ClipNames
<1>1. CASE C!See
  BY <1>1 DEF ClipInv, ClipBounds, C!TypeOK, C!writer, C!clips, C!history, C!Trouble, EntryInv,
     Active, C!Covers, C!See
<1>2. CASE C!Take
  BY <1>2 DEF ClipInv, ClipBounds, C!TypeOK, C!writer, C!clips, C!history, C!Trouble, EntryInv,
     Active, C!Covers, C!Take
<1>3. CASE C!WriteStill
  BY <1>3 DEF ClipInv, ClipBounds, C!TypeOK, C!writer, C!clips, C!history, C!Trouble, EntryInv,
     Active, C!Covers, C!WriteStill
<1>4. CASE C!Commit
  BY <1>4 DEF ClipInv, ClipBounds, C!TypeOK, C!writer, C!clips, C!history, C!Trouble, EntryInv,
     Active, C!Covers, C!Commit
<1>5. CASE C!CommitFails
  BY <1>5 DEF ClipInv, ClipBounds, C!TypeOK, C!writer, C!clips, C!history, C!Trouble, EntryInv,
     Active, C!Covers, C!CommitFails
<1>6. CASE C!StartClip
  <2>1. PICK i \in C!Oldest(flush.batch) :
          /\ IF C!Shares(i) THEN C!Share(i)
             ELSE C!ThreadStarts(i) \/ UNCHANGED <<entry, clip, joined, mixed>>
          /\ flush' = [flush EXCEPT !.batch = @ \ {i}]
    BY <1>6 DEF C!StartClip
  <2>2. /\ i \in C!Incidents /\ i \in flush.batch /\ NotYetTried(i) /\ clipRow[i] # C!Nothing
        /\ flush'.batch = flush.batch \ {i} /\ UNCHANGED <<clipRow, linking, unlinked>>
    BY <1>6, <2>1 DEF ClipInv, C!TypeOK, OnceInv, C!Oldest, WriterInv, C!Stored, C!StartClip
  <2>3. CASE C!Share(i) /\ C!Shares(i)
    BY <2>2, <2>3 DEF ClipInv, C!TypeOK, EntryInv, Active, C!Covers, OnceInv, NotYetTried,
       C!Share, C!Shares
  <2>4. CASE C!ThreadStarts(i)
    BY <2>2, <2>4 DEF ClipInv, C!TypeOK, EntryInv, Active, C!Covers, OnceInv, NotYetTried,
       C!ThreadStarts
  <2>5. CASE UNCHANGED <<entry, clip, joined, mixed>>
    BY <2>2, <2>5 DEF ClipInv, C!TypeOK, EntryInv, Active, C!Covers, OnceInv, NotYetTried
  <2> QED BY <2>1, <2>3, <2>4, <2>5
<1>7. CASE C!Flushed
  BY <1>7 DEF ClipInv, ClipBounds, C!TypeOK, C!writer, C!clips, C!history, C!Trouble, EntryInv,
     Active, C!Covers, C!Flushed
<1>8. CASE C!Restart
  BY <1>8 DEF ClipInv, ClipBounds, C!TypeOK, C!writer, C!clips, C!history, C!Trouble, EntryInv,
     Active, C!Covers, C!Restart, C!NoEntry, C!NoClips
<1>9. ASSUME NEW i \in C!Incidents, C!Recorded(i) PROVE EntryInv'
  BY <1>9 DEF ClipInv, ClipBounds, C!TypeOK, C!writer, C!clips, C!history, C!Trouble, EntryInv,
     Active, C!Covers, C!Recorded
<1>10. ASSUME NEW i \in C!Incidents, C!Pop(i) PROVE EntryInv'
  <2>1. entry'.id = C!Nothing /\ entry'.shared = {}
    BY <1>10 DEF C!Pop, C!NoEntry
  <2>2. \A j \in C!Incidents : Active(j)' => Active(j) /\ j # i
    BY <1>10 DEF ClipInv, C!TypeOK, Active, C!Pop
  <2>3. \A j \in C!Incidents : Active(j)' => j \in mixed'
    BY <1>10, <2>2 DEF ClipInv, EntryInv, C!Pop
  <2> QED BY <2>1, <2>3 DEF EntryInv
<1>11. ASSUME NEW i \in C!Incidents, C!Link(i) PROVE EntryInv'
  BY <1>11 DEF ClipInv, ClipBounds, C!TypeOK, C!writer, C!clips, C!history, C!Trouble, EntryInv,
     Active, C!Covers, C!Link
<1>12. CASE UNCHANGED C!vars
  BY <1>12 DEF ClipInv, ClipBounds, C!TypeOK, C!writer, C!clips, C!history, C!Trouble, EntryInv,
     Active, C!Covers, C!vars, C!writer, C!clips, C!history
<1> QED BY <1>1, <1>2, <1>3, <1>4, <1>5, <1>6, <1>7, <1>8, <1>9, <1>10, <1>11, <1>12 DEF C!Next

\* Only an incident of the batch starts or joins a clip, the oldest first.
LEMMA OnceKeeps ==
  ASSUME ClipInv, [C!Next]_(C!vars)
  PROVE  OnceInv'
<1> USE ClipNames
<1>1. CASE C!See
  BY <1>1 DEF ClipInv, ClipBounds, C!TypeOK, C!writer, C!clips, C!history, C!Trouble, OnceInv,
     NotYetTried, C!See
<1>2. CASE C!Take
  BY <1>2 DEF ClipInv, ClipBounds, C!TypeOK, C!writer, C!clips, C!history, C!Trouble, OnceInv,
     NotYetTried, C!Take, WriterInv, C!NothingForgotten, C!Stored
<1>3. CASE C!WriteStill
  BY <1>3 DEF ClipInv, ClipBounds, C!TypeOK, C!writer, C!clips, C!history, C!Trouble, OnceInv,
     NotYetTried, C!WriteStill
<1>4. CASE C!Commit
  BY <1>4 DEF ClipInv, ClipBounds, C!TypeOK, C!writer, C!clips, C!history, C!Trouble, OnceInv,
     NotYetTried, C!Commit, C!Pictured
<1>5. CASE C!CommitFails
  BY <1>5 DEF ClipInv, ClipBounds, C!TypeOK, C!writer, C!clips, C!history, C!Trouble, OnceInv,
     NotYetTried, C!CommitFails, C!NoFlush
<1>6. CASE C!StartClip
  <2>1. PICK i \in C!Oldest(flush.batch) :
          /\ IF C!Shares(i) THEN C!Share(i)
             ELSE C!ThreadStarts(i) \/ UNCHANGED <<entry, clip, joined, mixed>>
          /\ flush' = [flush EXCEPT !.batch = @ \ {i}]
    BY <1>6 DEF C!StartClip
  <2>2. /\ i \in C!Incidents /\ i \in flush.batch /\ NotYetTried(i) /\ clipRow[i] # C!Nothing
        /\ flush'.batch = flush.batch \ {i} /\ UNCHANGED <<clipRow, linking, unlinked>>
    BY <1>6, <2>1 DEF ClipInv, C!TypeOK, OnceInv, C!Oldest, WriterInv, C!Stored, C!StartClip
  <2>3. CASE C!Share(i) /\ C!Shares(i)
    BY <2>2, <2>3 DEF ClipInv, C!TypeOK, OnceInv, NotYetTried, EntryInv, Active, C!Share, C!Shares
  <2>4. CASE C!ThreadStarts(i)
    BY <2>2, <2>4 DEF ClipInv, C!TypeOK, OnceInv, NotYetTried, EntryInv, Active, C!ThreadStarts
  <2>5. CASE UNCHANGED <<entry, clip, joined, mixed>>
    BY <2>2, <2>5 DEF ClipInv, C!TypeOK, OnceInv, NotYetTried, EntryInv, Active
  <2> QED BY <2>1, <2>3, <2>4, <2>5
<1>7. CASE C!Flushed
  BY <1>7 DEF ClipInv, ClipBounds, C!TypeOK, C!writer, C!clips, C!history, C!Trouble, OnceInv,
     NotYetTried, C!Flushed, C!NoFlush
<1>8. CASE C!Restart
  BY <1>8 DEF ClipInv, ClipBounds, C!TypeOK, C!writer, C!clips, C!history, C!Trouble, OnceInv,
     NotYetTried, C!Restart, C!NoFlush, C!NoClips
<1>9. ASSUME NEW i \in C!Incidents, C!Recorded(i) PROVE OnceInv'
  <2>1. clip[i] # "none"
    BY <1>9 DEF ClipInv, C!TypeOK, OnceInv, NotYetTried, C!Recorded
  <2>2. UNCHANGED <<flush, joined>> /\ \A k \in C!Incidents : clip[k] = "none" => clip'[k] = "none"
    BY <1>9 DEF ClipInv, C!TypeOK, C!Recorded, C!writer, C!history
  <2>3. \A k \in C!Incidents : clipRow'[k] = C!Nothing => clipRow[k] = C!Nothing
    BY <1>9 DEF ClipInv, C!TypeOK, C!Recorded
  <2> QED BY <2>1, <2>2, <2>3 DEF ClipInv, C!TypeOK, OnceInv, NotYetTried
<1>10. ASSUME NEW i \in C!Incidents, C!Pop(i) PROVE OnceInv'
  <2>1. clip[i] # "none"
    BY <1>10 DEF ClipInv, C!TypeOK, OnceInv, NotYetTried, C!Pop
  <2>2. UNCHANGED <<flush, joined>> /\ \A k \in C!Incidents : clip[k] = "none" => clip'[k] = "none"
    BY <1>10 DEF ClipInv, C!TypeOK, C!Pop, C!writer, C!history
  <2>3. \A k \in C!Incidents : clipRow'[k] = C!Nothing => clipRow[k] = C!Nothing
    BY <1>10 DEF ClipInv, C!TypeOK, C!Pop
  <2> QED BY <2>1, <2>2, <2>3 DEF ClipInv, C!TypeOK, OnceInv, NotYetTried
<1>11. ASSUME NEW i \in C!Incidents, C!Link(i) PROVE OnceInv'
  <2>1. clip[i] # "none"
    BY <1>11 DEF ClipInv, C!TypeOK, OnceInv, NotYetTried, C!Link
  <2>2. UNCHANGED <<flush, joined>> /\ \A k \in C!Incidents : clip[k] = "none" => clip'[k] = "none"
    BY <1>11 DEF ClipInv, C!TypeOK, C!Link, C!writer, C!history
  <2>3. \A k \in C!Incidents : clipRow'[k] = C!Nothing => clipRow[k] = C!Nothing
    BY <1>11 DEF ClipInv, C!TypeOK, C!Link
  <2> QED BY <2>1, <2>2, <2>3 DEF ClipInv, C!TypeOK, OnceInv, NotYetTried
<1>12. CASE UNCHANGED C!vars
  BY <1>12 DEF ClipInv, ClipBounds, C!TypeOK, C!writer, C!clips, C!history, C!Trouble, OnceInv,
     NotYetTried, C!vars, C!writer, C!clips, C!history
<1> QED BY <1>1, <1>2, <1>3, <1>4, <1>5, <1>6, <1>7, <1>8, <1>9, <1>10, <1>11, <1>12 DEF C!Next

\* A clip's thread links its own incident and those of the entry it took.
LEMMA LinkKeeps ==
  ASSUME ClipInv, [C!Next]_(C!vars)
  PROVE  LinkInv'
<1> USE ClipNames
<1>1. CASE C!See
  BY <1>1 DEF ClipInv, ClipBounds, C!TypeOK, C!writer, C!clips, C!history, C!Trouble, LinkInv,
     C!SharedClipCovers, C!Covers, C!See
<1>2. CASE C!Take
  BY <1>2 DEF ClipInv, ClipBounds, C!TypeOK, C!writer, C!clips, C!history, C!Trouble, LinkInv,
     C!SharedClipCovers, C!Covers, C!Take
<1>3. CASE C!WriteStill
  BY <1>3 DEF ClipInv, ClipBounds, C!TypeOK, C!writer, C!clips, C!history, C!Trouble, LinkInv,
     C!SharedClipCovers, C!Covers, C!WriteStill
<1>4. CASE C!Commit
  BY <1>4 DEF ClipInv, ClipBounds, C!TypeOK, C!writer, C!clips, C!history, C!Trouble, LinkInv,
     C!SharedClipCovers, C!Covers, C!Commit
<1>5. CASE C!CommitFails
  BY <1>5 DEF ClipInv, ClipBounds, C!TypeOK, C!writer, C!clips, C!history, C!Trouble, LinkInv,
     C!SharedClipCovers, C!Covers, C!CommitFails
<1>6. CASE C!StartClip
  <2>1. PICK i \in C!Oldest(flush.batch) :
          /\ IF C!Shares(i) THEN C!Share(i)
             ELSE C!ThreadStarts(i) \/ UNCHANGED <<entry, clip, joined, mixed>>
          /\ flush' = [flush EXCEPT !.batch = @ \ {i}]
    BY <1>6 DEF C!StartClip
  <2>2. /\ i \in C!Incidents /\ i \in flush.batch /\ NotYetTried(i) /\ clipRow[i] # C!Nothing
        /\ flush'.batch = flush.batch \ {i} /\ UNCHANGED <<clipRow, linking, unlinked>>
    BY <1>6, <2>1 DEF ClipInv, C!TypeOK, OnceInv, C!Oldest, WriterInv, C!Stored, C!StartClip
  <2>3. CASE C!Share(i) /\ C!Shares(i)
    BY <2>2, <2>3 DEF ClipInv, C!TypeOK, LinkInv, C!SharedClipCovers, OnceInv, NotYetTried,
       EntryInv, Active, C!Share, C!Shares
  <2>4. CASE C!ThreadStarts(i)
    BY <2>2, <2>4 DEF ClipInv, C!TypeOK, LinkInv, C!SharedClipCovers, OnceInv, NotYetTried,
       EntryInv, Active, C!ThreadStarts
  <2>5. CASE UNCHANGED <<entry, clip, joined, mixed>>
    BY <2>2, <2>5 DEF ClipInv, C!TypeOK, LinkInv, C!SharedClipCovers, OnceInv, NotYetTried,
       EntryInv, Active
  <2> QED BY <2>1, <2>3, <2>4, <2>5
<1>7. CASE C!Flushed
  BY <1>7 DEF ClipInv, ClipBounds, C!TypeOK, C!writer, C!clips, C!history, C!Trouble, LinkInv,
     C!SharedClipCovers, C!Covers, C!Flushed
<1>8. CASE C!Restart
  BY <1>8 DEF ClipInv, ClipBounds, C!TypeOK, C!writer, C!clips, C!history, C!Trouble, LinkInv,
     C!SharedClipCovers, C!Covers, C!Restart, C!NoLinks
<1>9. ASSUME NEW i \in C!Incidents, C!Recorded(i) PROVE LinkInv'
  BY <1>9 DEF ClipInv, ClipBounds, C!TypeOK, C!writer, C!clips, C!history, C!Trouble, LinkInv,
     C!SharedClipCovers, C!Covers, C!Recorded
<1>10. ASSUME NEW i \in C!Incidents, C!Pop(i) PROVE LinkInv'
  <2>1. mixed \subseteq mixed' /\ joined' = joined /\ clipRow' = clipRow
    BY <1>10 DEF C!Pop
  <2>2. \A k \in C!Incidents \ {i} : linking'[k] = linking[k] /\ clip'[k] = clip[k]
    BY <1>10 DEF ClipInv, C!TypeOK, C!Pop
  <2>3. linking'[i] # {} => clip'[i] = "linking"
    BY <1>10 DEF ClipInv, C!TypeOK, LinkInv, C!Pop
  <2>4. \A j \in linking'[i] :
          j = i \/ (joined[j] = i /\ C!Covers(i, j)) \/ (i \in mixed' /\ joined[j] \in mixed')
    BY <1>10 DEF ClipInv, C!TypeOK, LinkInv, EntryInv, Active, C!InEntry, C!Pop
  <2> QED BY <2>1, <2>2, <2>3, <2>4 DEF ClipInv, LinkInv, C!SharedClipCovers, C!Covers
<1>11. ASSUME NEW i \in C!Incidents, C!Link(i) PROVE LinkInv'
  <2>1. /\ \A k \in C!Incidents \ {i} : linking'[k] = linking[k] /\ clip'[k] = clip[k]
        /\ linking'[i] = {} /\ UNCHANGED <<joined, mixed>>
    BY <1>11 DEF ClipInv, C!TypeOK, C!Link
  <2>2. C!Covers(i, i)
    BY DEF ClipInv, ClipBounds, C!Incidents, C!Covers
  <2>3. \A j \in C!Incidents : clipRow'[j] = clipRow[j] \/ (clipRow'[j] = i /\ j \in linking[i])
    BY <1>11 DEF ClipInv, C!TypeOK, C!Link
  <2>4. C!SharedClipCovers'
    BY <2>1, <2>2, <2>3 DEF ClipInv, LinkInv, C!SharedClipCovers, C!Covers
  <2> QED BY <2>1, <2>4 DEF ClipInv, LinkInv, C!Covers
<1>12. CASE UNCHANGED C!vars
  BY <1>12 DEF ClipInv, ClipBounds, C!TypeOK, C!writer, C!clips, C!history, C!Trouble, LinkInv,
     C!SharedClipCovers, C!Covers, C!vars, C!writer, C!clips, C!history
<1> QED BY <1>1, <1>2, <1>3, <1>4, <1>5, <1>6, <1>7, <1>8, <1>9, <1>10, <1>11, <1>12 DEF C!Next

\* Who shares a clip is in the entry, then among those to link, then linked, unless two
\* clips had the entry at once or the link failed.
LEMMA ClipJoinedKeeps ==
  ASSUME ClipInv, [C!Next]_(C!vars)
  PROVE  JoinedInv'
<1> USE ClipNames
<1>1. CASE C!See
  BY <1>1 DEF ClipInv, ClipBounds, C!TypeOK, C!writer, C!clips, C!history, C!Trouble, JoinedInv,
     ComesAlong, Active, C!See
<1>2. CASE C!Take
  BY <1>2 DEF ClipInv, ClipBounds, C!TypeOK, C!writer, C!clips, C!history, C!Trouble, JoinedInv,
     ComesAlong, Active, C!Take
<1>3. CASE C!WriteStill
  BY <1>3 DEF ClipInv, ClipBounds, C!TypeOK, C!writer, C!clips, C!history, C!Trouble, JoinedInv,
     ComesAlong, Active, C!WriteStill
<1>4. CASE C!Commit
  <2>1. \A j \in C!Incidents : clipRow'[j] = clipRow[j] \/ clipRow[j] = C!Nothing
    BY <1>4 DEF ClipInv, C!TypeOK, WriterInv, C!NothingForgotten, C!BeingStored, C!Stored,
       C!Commit, C!Pictured
  <2> QED BY <1>4, <2>1 DEF ClipInv, JoinedInv, ComesAlong, Active, C!Commit, C!clips, C!history
<1>5. CASE C!CommitFails
  BY <1>5 DEF ClipInv, ClipBounds, C!TypeOK, C!writer, C!clips, C!history, C!Trouble, JoinedInv,
     ComesAlong, Active, C!CommitFails
<1>6. CASE C!StartClip
  <2>1. PICK i \in C!Oldest(flush.batch) :
          /\ IF C!Shares(i) THEN C!Share(i)
             ELSE C!ThreadStarts(i) \/ UNCHANGED <<entry, clip, joined, mixed>>
          /\ flush' = [flush EXCEPT !.batch = @ \ {i}]
    BY <1>6 DEF C!StartClip
  <2>2. /\ i \in C!Incidents /\ i \in flush.batch /\ NotYetTried(i) /\ clipRow[i] # C!Nothing
        /\ flush'.batch = flush.batch \ {i} /\ UNCHANGED <<clipRow, linking, unlinked>>
    BY <1>6, <2>1 DEF ClipInv, C!TypeOK, OnceInv, C!Oldest, WriterInv, C!Stored, C!StartClip
  <2>3. CASE C!Share(i) /\ C!Shares(i)
    BY <2>2, <2>3 DEF ClipInv, C!TypeOK, JoinedInv, ComesAlong, Active, OnceInv, NotYetTried,
       EntryInv, C!Share, C!Shares
  <2>4. CASE C!ThreadStarts(i)
    BY <2>2, <2>4 DEF ClipInv, C!TypeOK, JoinedInv, ComesAlong, Active, OnceInv, NotYetTried,
       EntryInv, C!ThreadStarts
  <2>5. CASE UNCHANGED <<entry, clip, joined, mixed>>
    BY <2>2, <2>5 DEF ClipInv, C!TypeOK, JoinedInv, ComesAlong, Active, OnceInv, NotYetTried,
       EntryInv
  <2> QED BY <2>1, <2>3, <2>4, <2>5
<1>7. CASE C!Flushed
  BY <1>7 DEF ClipInv, ClipBounds, C!TypeOK, C!writer, C!clips, C!history, C!Trouble, JoinedInv,
     ComesAlong, Active, C!Flushed
<1>8. CASE C!Restart
  BY <1>8 DEF ClipInv, ClipBounds, C!TypeOK, C!writer, C!clips, C!history, C!Trouble, JoinedInv,
     ComesAlong, Active, C!Restart, C!NoClips
<1>9. ASSUME NEW i \in C!Incidents, C!Recorded(i) PROVE JoinedInv'
  BY <1>9 DEF ClipInv, ClipBounds, C!TypeOK, C!writer, C!clips, C!history, C!Trouble, JoinedInv,
     ComesAlong, Active, C!Recorded
<1>10. ASSUME NEW i \in C!Incidents, C!Pop(i) PROVE JoinedInv'
  BY <1>10 DEF ClipInv, ClipBounds, C!TypeOK, C!writer, C!clips, C!history, C!Trouble, JoinedInv,
     ComesAlong, Active, C!Pop, C!InEntry, EntryInv
<1>11. ASSUME NEW i \in C!Incidents, C!Link(i) PROVE JoinedInv'
  <2>1. /\ \A k \in C!Incidents \ {i} : linking'[k] = linking[k] /\ clip'[k] = clip[k]
        /\ clip[i] = "linking" /\ clip'[i] = "done" /\ UNCHANGED <<joined, mixed, entry>>
        /\ unlinked \subseteq unlinked'
    BY <1>11 DEF ClipInv, C!TypeOK, C!Link
  <2>2. \A j \in C!Incidents :
          clipRow'[j] = (IF j \in linking[i] /\ i \notin unlinked' THEN i ELSE clipRow[j]) \/
            i \in unlinked'
    BY <1>11 DEF ClipInv, C!TypeOK, C!Link
  <2>3. \A j \in C!Incidents : clipRow'[j] = clipRow[j] \/ j \in linking[i]
    BY <1>11 DEF ClipInv, C!TypeOK, C!Link
  <2> QED BY <2>1, <2>2, <2>3 DEF ClipInv, C!TypeOK, JoinedInv, ComesAlong, Active, LinkInv,
     OnceInv
<1>12. CASE UNCHANGED C!vars
  BY <1>12 DEF ClipInv, ClipBounds, C!TypeOK, C!writer, C!clips, C!history, C!Trouble, JoinedInv,
     ComesAlong, Active, C!vars, C!writer, C!clips, C!history
<1> QED BY <1>1, <1>2, <1>3, <1>4, <1>5, <1>6, <1>7, <1>8, <1>9, <1>10, <1>11, <1>12 DEF C!Next

\* Every step.
LEMMA ClipNext == ClipBounds => (ClipInv /\ [C!Next]_(C!vars) => ClipInv')
<1> SUFFICES ASSUME ClipInv, [C!Next]_(C!vars) PROVE ClipInv'
  OBVIOUS
<1> QED BY ClipTypes, WriterKeeps, EntryKeeps, OnceKeeps, LinkKeeps, ClipJoinedKeeps DEF ClipInv,
   ClipBounds

\* What the invariant says of the clips.
LEMMA ClipSafe == ClipInv => C!ClipsSound /\ C!TypeOK
<1>1. ClipInv => C!SharersAreLinked
  BY DEF ClipInv, JoinedInv, ComesAlong, C!SharersAreLinked, Active
<1> QED BY <1>1 DEF ClipInv, C!ClipsSound, LinkInv, WriterInv

\* No incident is forgotten while the box runs, and a row that links a clip of another
\* incident links one that covers it, unless two clips had the camera's entry at once
\* (services/pose_analytics.py, services/clip_recorder.py).
THEOREM ClipsHold == ClipBounds => (C!Spec => []C!ClipsSound)
<1> SUFFICES ASSUME ClipBounds PROVE C!Spec => []C!ClipsSound
  OBVIOUS
<1>1. C!Init => ClipInv
  BY ClipStart
<1>2. ClipInv /\ [C!Next]_(C!vars) => ClipInv'
  BY ClipNext
<1>3. ClipInv => C!ClipsSound
  BY ClipSafe
<1> QED BY <1>1, <1>2, <1>3, PTL DEF C!Spec

-------------------------------------------------------------------------------
(* EvidenceStorage: any incidents, threads and limits.                      *)

\* A set of numbers has a least one.
LEMMA LeastIs ==
  ASSUME NEW X \in SUBSET Nat, X # {}
  PROVE  \E x \in X : \A y \in X : x <= y
<1> DEFINE less == OpToRel(<, Nat)
<1>1. IsWellFoundedOn(less, Nat)
  BY NatLessThanWellFounded, Zenon
<1>2. less = {ss \in Nat \X Nat : ss[1] < ss[2]}
  BY DEF OpToRel
<1> HIDE DEF less
<1>3. \E x \in X : \A y \in X : ~ (<<y, x>> \in less)
  BY <1>1, WFMin
<1>4. \A x, y \in Nat : y < x => <<y, x>> \in less
  BY <1>2
<1>5. PICK x \in X : \A y \in X : ~ (<<y, x>> \in less)
  BY <1>3
<1>6. \A y \in X : ~ (y < x)
  BY <1>4, <1>5
<1>7. \A y \in X : x <= y
  BY <1>6
<1> QED BY <1>7

\* The number of elements is the same in the module and here.
LEMMA SameFileCount == \A X : E!Cardinality(X) = Cardinality(X)
BY DEF E!Cardinality, Cardinality

EvidenceBounds ==
  /\ EvidenceIncidents \in Nat /\ EvidenceLimits \subseteq Nat /\ EvidenceTroubles \in Nat
  /\ "loop" \notin EvidenceRunners /\ "nobody" \notin E!Threads

Deleting == {"decided", "deleted", "published"}
Coming == {"due", "waiting", "decided", "deleted"}

\* One pass at a time is between its scan and its end.
LockInv == \A t \in E!Threads : pass[t].pc \in Deleting <=> lock = t

\* What a pass has chosen is enough, unless a file cannot be deleted, and has
\* no still without the clip.
PassInv ==
  \A t \in E!Threads :
    /\ pass[t].pc = "decided" =>
         /\ E!Total(pass[t].files \ pass[t].doomed) <= pass[t].limit
         /\ \A i \in E!Incidents :
              E!Still(i) \in pass[t].doomed => E!Clip(i) \notin pass[t].files \ pass[t].doomed
    /\ pass[t].pc = "deleted" => stuck # {} \/ E!Total(pass[t].files) <= pass[t].limit
    /\ pass[t].pc \in {"decided", "deleted"} => pass[t].limit \in EvidenceLimits

\* A clip is there once its row is stored.
FileInv == \A i \in E!Incidents : saving[E!Clip(i)] \in {"saved", "noted"} => evidenceRow[i].stored

RowInv == \A i \in E!Incidents : evidenceRow[i].linked # {} => evidenceRow[i].stored

\* Over the limit a pass is on its way, or a mark is left; and one left for the
\* first pass of a background thread will be seen by that thread.
OverInv ==
  /\ used > effective => rerun \/ stuck # {} \/ \E t \in E!Threads : pass[t].pc \in Coming
  /\ rerun /\ markedUnder # "other" =>
       \E t \in EvidenceRunners : \/ pass[t].pc \in Deleting /\ pass[t].run = 1
                                  \/ pass[t].pc \in {"reread", "due"}

EvidenceInv ==
  /\ EvidenceBounds /\ E!TypeOK /\ LockInv /\ PassInv /\ FileInv /\ RowInv
  /\ E!LinksAreTrue /\ E!TakenTogether /\ E!CountHolds /\ OverInv

\* Files, threads and the unknown count are told apart.
LEMMA EvidenceNames ==
  EvidenceBounds =>
    /\ \A i \in E!Incidents : E!Still(i) \in E!Files /\ E!Clip(i) \in E!Files
    /\ \A f \in E!Files : f[1] \in E!Incidents /\ f = <<f[1], f[2]>> /\ f[2] \in {"still", "clip"}
    /\ "loop" \in E!Threads /\ EvidenceRunners \subseteq E!Threads /\ "nobody" \notin E!Threads
    /\ E!Unknown \notin Nat /\ E!Unknown \in Int
BY DEF EvidenceBounds, E!Incidents, E!Still, E!Clip, E!Files, E!Threads, E!Unknown

\* There are finitely many files.
LEMMA FilesFinite == EvidenceBounds => IsFiniteSet(E!Files)
<1> SUFFICES ASSUME EvidenceBounds PROVE IsFiniteSet(E!Files)
  OBVIOUS
<1>1. IsFiniteSet(E!Incidents)
  BY FS_Interval DEF EvidenceBounds, E!Incidents
<1>2. IsFiniteSet({"still", "clip"})
  <2>1. {"still", "clip"} = ({} \cup {"still"}) \cup {"clip"}
    OBVIOUS
  <2>2. IsFiniteSet({} \cup {"still"})
    BY SameFileCount, FS_EmptySet, FS_AddElement
  <2> QED BY <2>1, <2>2, SameFileCount, FS_AddElement
<1> QED BY <1>1, <1>2, FS_Product DEF E!Files

\* What some files take is a number, and fewer files take no more.
LEMMA TotalOfFewer ==
  ASSUME EvidenceBounds, NEW X \in SUBSET E!Files, NEW Y \in SUBSET X
  PROVE  E!Total(X) \in Nat /\ E!Total(Y) \in Nat /\ E!Total(Y) <= E!Total(X)
<1> DEFINE clipsOf(Z) == {f \in Z : f[2] = "clip"}
<1>1. IsFiniteSet(X) /\ IsFiniteSet(Y) /\ E!Cardinality(Y) <= E!Cardinality(X)
  BY FilesFinite, SameFileCount, FS_Subset
<1>2. clipsOf(X) \subseteq X /\ clipsOf(Y) \subseteq clipsOf(X)
  OBVIOUS
<1> HIDE DEF clipsOf
<1>3. /\ IsFiniteSet(clipsOf(X)) /\ IsFiniteSet(clipsOf(Y))
      /\ E!Cardinality(clipsOf(Y)) <= E!Cardinality(clipsOf(X))
  BY <1>1, <1>2, SameFileCount, FS_Subset
<1>4. /\ E!Cardinality(X) \in Nat /\ E!Cardinality(Y) \in Nat
      /\ E!Cardinality(clipsOf(X)) \in Nat /\ E!Cardinality(clipsOf(Y)) \in Nat
  BY <1>1, <1>3, SameFileCount, FS_CardinalityType
<1>5. /\ E!Total(X) = E!Cardinality(X) + E!Cardinality(clipsOf(X))
      /\ E!Total(Y) = E!Cardinality(Y) + E!Cardinality(clipsOf(Y))
  BY DEF E!Total, clipsOf
<1> QED BY <1>1, <1>3, <1>4, <1>5

\* One more file adds at most its size.
LEMMA TotalWithOneMore ==
  ASSUME EvidenceBounds, NEW X \in SUBSET E!Files, NEW f \in E!Files
  PROVE  E!Total(X \cup {f}) <= E!Total(X) + E!Size(f)
<1> DEFINE clipsOf(Z) == {g \in Z : g[2] = "clip"}
<1>1. IsFiniteSet(X) /\ E!Cardinality(X) \in Nat
  BY FilesFinite, SameFileCount, FS_Subset, FS_CardinalityType
<1>2. clipsOf(X) \subseteq X
  OBVIOUS
<1>3. clipsOf(X \cup {f}) = IF f[2] = "clip" THEN clipsOf(X) \cup {f} ELSE clipsOf(X)
  OBVIOUS
<1>4. E!Total(X) = E!Cardinality(X) + E!Cardinality(clipsOf(X))
  BY DEF E!Total
<1>5. E!Total(X \cup {f}) = E!Cardinality(X \cup {f}) + E!Cardinality(clipsOf(X \cup {f}))
  BY DEF E!Total
<1> HIDE DEF clipsOf
<1>6. IsFiniteSet(clipsOf(X)) /\ E!Cardinality(clipsOf(X)) \in Nat
  BY <1>1, <1>2, SameFileCount, FS_Subset, FS_CardinalityType
<1>7. E!Cardinality(X \cup {f}) \in Nat /\ E!Cardinality(X \cup {f}) <= E!Cardinality(X) + 1
  <2>1. /\ IsFiniteSet(X \cup {f})
        /\ E!Cardinality(X \cup {f}) = IF f \in X THEN E!Cardinality(X) ELSE E!Cardinality(X) + 1
    BY <1>1, SameFileCount, FS_AddElement
  <2>2. E!Cardinality(X \cup {f}) \in Nat
    BY <2>1, SameFileCount, FS_CardinalityType
  <2> QED BY <1>1, <2>1, <2>2
<1>8. /\ E!Cardinality(clipsOf(X) \cup {f}) \in Nat
      /\ E!Cardinality(clipsOf(X) \cup {f}) <= E!Cardinality(clipsOf(X)) + 1
  BY <1>6, SameFileCount, FS_AddElement, FS_CardinalityType
<1>9. CASE f[2] = "clip"
  <2>1. clipsOf(X \cup {f}) = clipsOf(X) \cup {f} /\ E!Size(f) = 2
    BY <1>3, <1>9 DEF E!Size
  <2>2. E!Total(X \cup {f}) = E!Cardinality(X \cup {f}) + E!Cardinality(clipsOf(X) \cup {f})
    BY <1>5, <2>1
  <2> QED BY <1>1, <1>4, <1>6, <1>7, <1>8, <2>1, <2>2
<1>10. CASE f[2] # "clip"
  BY <1>1, <1>3, <1>4, <1>5, <1>6, <1>7, <1>10 DEF E!Size
<1> QED BY <1>9, <1>10

\* What is left once the excess is gone is within the limit: the oldest file of it
\* was not in excess, and all of it is as new.
LEMMA ExcessIsEnough ==
  ASSUME EvidenceBounds, E!TypeOK, NEW limit \in Nat
  PROVE  E!Total(E!disk \ E!Excess(limit)) <= limit
<1> DEFINE left == E!disk \ E!Excess(limit)
           times == {written[f] : f \in left}
<1>1. E!disk \subseteq E!Files /\ left \subseteq E!disk
  BY DEF E!disk
<1>2. CASE left = {}
  <2>1. {f \in left : f[2] = "clip"} = {}
    BY <1>2
  <2> QED BY <1>2, <2>1, SameFileCount, FS_EmptySet DEF E!Total
<1>3. CASE left # {}
  <2>1. times \in SUBSET Nat /\ times # {}
    BY <1>1, <1>3 DEF E!TypeOK
  <2> HIDE DEF times
  <2>2. PICK x \in times : \A y \in times : x <= y
    BY <2>1, LeastIs
  <2>3. PICK g \in left : written[g] = x
    BY DEF times
  <2>4. \A f \in left : written[g] <= written[f] /\ written[f] \in Nat /\ f \in E!disk
    BY <1>1, <2>2, <2>3 DEF times, E!TypeOK
  <2>5. left \subseteq E!disk \ E!Older(g)
    BY <2>3, <2>4 DEF E!Older
  <2>6. ~ (E!Total(E!disk \ E!Older(g)) > limit)
    BY <2>3 DEF E!Excess
  <2>7. E!disk \ E!Older(g) \in SUBSET E!Files
    BY <1>1
  <2>8. /\ E!Total(left) \in Nat /\ E!Total(E!disk \ E!Older(g)) \in Nat
        /\ E!Total(left) <= E!Total(E!disk \ E!Older(g))
    BY <2>5, <2>7, TotalOfFewer
  <2> QED BY <2>6, <2>8
<1> QED BY <1>2, <1>3

PassType == [pc : {"idle", "due", "waiting", "decided", "deleted", "published", "reread"},
             run : {1, 2}, files : SUBSET E!Files, limit : EvidenceLimits \cup {0}, doomed :
               SUBSET E!Files]

\* A pass that has seen nothing is a pass.
LEMMA AtType ==
  ASSUME NEW pc \in {"idle", "due", "waiting", "published", "reread"}, NEW run \in {1, 2}
  PROVE  E!At(pc, run) \in PassType /\ E!At(pc, run).pc = pc /\ E!At(pc, run).run = run
BY DEF E!At, PassType

\* What a pass holds, by the type invariant.
LEMMA PassOfThread ==
  ASSUME E!TypeOK, NEW t \in E!Threads
  PROVE  /\ pass[t] \in PassType /\ pass[t].run \in {1, 2}
         /\ pass[t].files \subseteq E!Files /\ pass[t].doomed \subseteq E!Files
         /\ pass[t].limit \in EvidenceLimits \cup {0}
BY DEF E!TypeOK, PassType

\* Nothing is saved, nobody passes.
LEMMA EvidenceStart == EvidenceBounds => (E!Init => EvidenceInv)
<1> SUFFICES ASSUME EvidenceBounds, E!Init PROVE EvidenceInv
  OBVIOUS
<1> USE EvidenceNames
<1>1. \A t \in E!Threads : pass[t] = E!NoPass
  BY DEF E!Init, E!NoPasses
<1>2. E!NoPass \in PassType /\ E!NoPass.pc = "idle"
  BY AtType DEF E!NoPass
<1>3. E!TypeOK
  <2>1. pass \in [E!Threads -> PassType]
    BY <1>2 DEF E!Init, E!NoPasses
  <2>2. evidenceRow \in [E!Incidents -> [stored : BOOLEAN, linked : SUBSET {"still", "clip"},
          expired : BOOLEAN]]
    BY DEF E!Init, E!NoRow
  <2>3. effective \in EvidenceLimits /\ evidenceTroubles \in 0..EvidenceTroubles
    BY DEF E!Init, E!Cap, EvidenceBounds
  <2> QED BY <2>1, <2>2, <2>3 DEF E!Init, E!TypeOK, PassType
<1>4. LockInv /\ PassInv /\ E!TakenTogether
  BY <1>1, <1>2 DEF LockInv, PassInv, E!TakenTogether, E!Init, Deleting
<1>5. \A i \in E!Incidents : evidenceRow[i].linked = {}
  BY DEF E!Init, E!NoRow
<1>6. RowInv /\ E!LinksAreTrue /\ FileInv
  BY <1>5 DEF RowInv, E!LinksAreTrue, FileInv, E!Init
<1>7. E!CountHolds
  BY DEF E!Init, E!CountHolds
<1>8. OverInv
  BY <1>3 DEF E!Init, OverInv, EvidenceBounds, E!TypeOK, E!Unknown
<1> QED BY <1>3, <1>4, <1>6, <1>7, <1>8 DEF EvidenceInv

\* What a step does to the passes: only one of them changes, or none.
OtherPasses(t) == /\ pass' \in [E!Threads -> PassType] /\ \A u \in E!Threads \ {t} : pass'[u] = pass[u]

\* Each step of a pass but the scan: where it was, where it is (enforce).
LEMMA PassSteps ==
  ASSUME EvidenceInv, NEW t \in E!Threads
  PROVE  /\ E!Enter(t) => /\ OtherPasses(t) /\ pass[t].pc \in {"idle", "due"} /\ pass'[t].pc = "waiting"
                          /\ rerun' = FALSE /\ UNCHANGED lock
         /\ E!Delete(t) => /\ OtherPasses(t) /\ pass[t].pc = "decided" /\ pass'[t].pc = "deleted"
                           /\ pass'[t].run = pass[t].run /\ pass'[t].limit = pass[t].limit
                           /\ pass'[t].doomed = pass[t].doomed \ stuck'
                           /\ pass'[t].files = pass[t].files \ (pass[t].doomed \ stuck')
                           /\ UNCHANGED lock
         /\ E!MarkExpired(t) => /\ OtherPasses(t) /\ pass[t].pc = "deleted" /\ pass'[t].pc = "published"
                                /\ pass'[t].run = pass[t].run /\ UNCHANGED lock
         /\ E!Release(t) => /\ OtherPasses(t) /\ pass[t].pc = "published"
                            /\ pass'[t].pc = (IF t \in EvidenceRunners /\ pass[t].run = 1 THEN "reread" ELSE "idle")
                            /\ lock' = "nobody"
         /\ E!Reread(t) => /\ OtherPasses(t) /\ pass[t].pc = "reread"
                           /\ pass'[t].pc = (IF rerun THEN "due" ELSE "idle")
                           /\ UNCHANGED <<lock, rerun>>
<1> USE DEF EvidenceInv
<1>1. pass \in [E!Threads -> PassType] /\ pass[t].run \in {1, 2}
  BY PassOfThread DEF E!TypeOK, PassType
<1>2. ASSUME NEW pc \in {"idle", "due", "waiting", "published", "reread"}, NEW run \in {1, 2},
             pass' = [pass EXCEPT ![t] = E!At(pc, run)]
      PROVE  OtherPasses(t) /\ pass'[t].pc = pc /\ pass'[t].run = run
  <2>1. E!At(pc, run) \in PassType /\ E!At(pc, run).pc = pc /\ E!At(pc, run).run = run
    BY <1>2, AtType
  <2> QED BY <1>1, <1>2, <2>1 DEF OtherPasses
<1>3. ASSUME E!Enter(t)
      PROVE  /\ OtherPasses(t) /\ pass[t].pc \in {"idle", "due"} /\ pass'[t].pc = "waiting"
             /\ rerun' = FALSE /\ UNCHANGED lock
  <2>1. pass' = [pass EXCEPT ![t] = E!At("waiting", pass[t].run)]
    BY <1>3 DEF E!Enter
  <2> QED BY <1>1, <1>2, <1>3, <2>1 DEF E!Enter
<1>4. ASSUME E!Delete(t)
      PROVE  /\ OtherPasses(t) /\ pass[t].pc = "decided" /\ pass'[t].pc = "deleted"
             /\ pass'[t].run = pass[t].run /\ pass'[t].limit = pass[t].limit
             /\ pass'[t].doomed = pass[t].doomed \ stuck'
             /\ pass'[t].files = pass[t].files \ (pass[t].doomed \ stuck')
             /\ UNCHANGED lock
  <2> DEFINE removed == pass[t].doomed \ stuck'
             now == [pc |-> "deleted", run |-> pass[t].run, files |-> pass[t].files \ removed,
                     limit |-> pass[t].limit, doomed |-> removed]
  <2>1. pass' = [pass EXCEPT ![t] = now]
    BY <1>4 DEF E!Delete
  <2>2. now \in PassType
    BY <1>1, PassOfThread DEF PassType
  <2>3. /\ now.pc = "deleted" /\ now.run = pass[t].run /\ now.limit = pass[t].limit
        /\ now.doomed = removed /\ now.files = pass[t].files \ removed
    OBVIOUS
  <2> HIDE DEF now
  <2>4. OtherPasses(t) /\ pass'[t] = now
    BY <1>1, <2>1, <2>2 DEF OtherPasses
  <2> QED BY <1>4, <2>3, <2>4 DEF E!Delete
<1>5. ASSUME E!MarkExpired(t)
      PROVE  /\ OtherPasses(t) /\ pass[t].pc = "deleted" /\ pass'[t].pc = "published"
             /\ pass'[t].run = pass[t].run /\ UNCHANGED lock
  <2>1. pass' = [pass EXCEPT ![t] = E!At("published", pass[t].run)]
    BY <1>5 DEF E!MarkExpired
  <2> QED BY <1>1, <1>2, <1>5, <2>1 DEF E!MarkExpired
<1>6. ASSUME E!Release(t)
      PROVE  /\ OtherPasses(t) /\ pass[t].pc = "published"
             /\ pass'[t].pc = (IF t \in EvidenceRunners /\ pass[t].run = 1 THEN "reread" ELSE "idle")
             /\ lock' = "nobody"
  <2>1. pass' = [pass EXCEPT ![t] = IF t \in EvidenceRunners /\ pass[t].run = 1 THEN E!At("reread", 1)
          ELSE E!At("idle", 1)]
    BY <1>6 DEF E!Release, E!NoPass
  <2> QED BY <1>1, <1>2, <1>6, <2>1 DEF E!Release
<1>7. ASSUME E!Reread(t)
      PROVE  /\ OtherPasses(t) /\ pass[t].pc = "reread"
             /\ pass'[t].pc = (IF rerun THEN "due" ELSE "idle")
             /\ UNCHANGED <<lock, rerun>>
  <2>1. pass' = [pass EXCEPT ![t] = IF rerun THEN E!At("due", 2) ELSE E!At("idle", 1)]
    BY <1>7 DEF E!Reread, E!NoPass, E!Again
  <2> QED BY <1>1, <1>2, <1>7, <2>1 DEF E!Reread
<1> QED BY <1>3, <1>4, <1>5, <1>6, <1>7

\* The scan sees what is on the disk, and chooses what is over the limit.
LEMMA ScanDoes ==
  ASSUME EvidenceInv, NEW t \in E!Threads, E!Scan(t)
  PROVE  /\ OtherPasses(t) /\ pass[t].pc = "waiting" /\ lock = "nobody" /\ lock' = t
         /\ pass'[t].pc = "decided" /\ pass'[t].run = pass[t].run
         /\ pass'[t].limit \in EvidenceLimits
         /\ pass'[t].files = E!disk /\ pass'[t].doomed = E!WithSiblings(E!Excess(pass'[t].limit))
<1> USE DEF EvidenceInv
<1>1. pass \in [E!Threads -> PassType] /\ pass[t].run \in {1, 2}
  BY PassOfThread DEF E!TypeOK, PassType
<1>2. PICK limit \in EvidenceLimits :
        pass' = [pass EXCEPT ![t] = [pc |-> "decided", run |-> pass[t].run, files |-> E!disk, limit |-> limit,
                                     doomed |-> E!WithSiblings(E!Excess(limit))]]
  BY DEF E!Scan
<1> DEFINE now == [pc |-> "decided", run |-> pass[t].run, files |-> E!disk, limit |-> limit,
                   doomed |-> E!WithSiblings(E!Excess(limit))]
<1>3. now \in PassType
  BY <1>1 DEF PassType, E!WithSiblings, E!disk
<1>4. /\ now.pc = "decided" /\ now.run = pass[t].run /\ now.files = E!disk /\ now.limit = limit
      /\ now.doomed = E!WithSiblings(E!Excess(limit))
  OBVIOUS
<1>5. pass' = [pass EXCEPT ![t] = now]
  BY <1>2
<1> HIDE DEF now
<1>6. OtherPasses(t) /\ pass'[t] = now
  BY <1>1, <1>3, <1>5 DEF OtherPasses
<1> QED BY <1>4, <1>6 DEF E!Scan

\* A file that is noted is counted, and when there is too much then, a mark is left
\* for who has the lock, or a thread is started.
LEMMA NoteDoes ==
  ASSUME EvidenceInv, NEW f \in E!Files, E!Note(f)
  PROVE  \/ UNCHANGED <<used, rerun, markedUnder, pass>> /\ (~ E!On(f) \/ used = E!Unknown)
         \/ /\ used \in Nat /\ used' = used + E!Size(f) /\ E!On(f) /\ used' <= effective
            /\ UNCHANGED <<rerun, markedUnder, pass>>
         \/ /\ used \in Nat /\ used' = used + E!Size(f) /\ E!On(f) /\ lock # "nobody"
            /\ UNCHANGED pass /\ rerun' = TRUE
            /\ markedUnder' = IF lock \in EvidenceRunners /\ pass[lock].run = 1 THEN "first_run"
                 ELSE "other"
         \/ /\ used \in Nat /\ used' = used + E!Size(f) /\ E!On(f)
            /\ UNCHANGED <<rerun, markedUnder>>
            /\ \E t \in EvidenceRunners :
                 /\ pass[t].pc = "idle" /\ OtherPasses(t) /\ pass'[t].pc = "due"
<1> USE DEF EvidenceInv
<1>1. CASE ~ E!On(f) \/ used = E!Unknown
  BY <1>1 DEF E!Note
<1>2. CASE ~ (~ E!On(f) \/ used = E!Unknown)
  <2>1. used \in Nat /\ used' = used + E!Size(f) /\ E!On(f) /\ used' \in Nat /\ effective \in Nat
    BY <1>2 DEF E!Note, E!TypeOK, E!Size, EvidenceBounds
  <2>2. CASE UNCHANGED <<rerun, markedUnder, pass>> /\ used' <= effective
    BY <2>1, <2>2
  <2>3. CASE E!Mark /\ lock # "nobody"
    BY <2>1, <2>3 DEF E!Mark
  <2>4. CASE E!StartRunner
    <3>1. PICK t \in EvidenceRunners :
            pass[t].pc = "idle" /\ pass' = [pass EXCEPT ![t] = E!At("due", 1)]
      BY <2>4 DEF E!StartRunner
    <3>2. t \in E!Threads /\ pass \in [E!Threads -> PassType]
      BY EvidenceNames DEF E!TypeOK, PassType
    <3>3. OtherPasses(t) /\ pass'[t].pc = "due"
      BY <3>1, <3>2, AtType DEF OtherPasses
    <3> QED BY <2>1, <2>4, <3>1, <3>3 DEF E!StartRunner
  <2> QED BY <1>2, <2>1, <2>2, <2>3, <2>4 DEF E!Note
<1> QED BY <1>1, <1>2

\* Every step leaves functions functions.
LEMMA EvidenceTypes ==
  ASSUME EvidenceInv, [E!Next]_(E!vars)
  PROVE  E!TypeOK'
<1> USE EvidenceNames DEF EvidenceInv
<1>1. ASSUME NEW f \in E!Files, E!Save(f) PROVE E!TypeOK'
  <2>1. E!Cardinality({g \in E!Files : saving[g] # "none"}) \in Nat
    BY FilesFinite, SameFileCount, FS_Subset, FS_CardinalityType
  <2>2. written' \in [E!Files -> Nat]
    <3> DEFINE time == 1 + E!Cardinality({g \in E!Files : saving[g] # "none"})
    <3>1. time \in Nat
      BY <2>1
    <3> HIDE DEF time
    <3>2. CASE written' = [written EXCEPT ![f] = time]
      BY <3>1, <3>2 DEF E!TypeOK
    <3>3. CASE UNCHANGED written
      BY <3>3 DEF E!TypeOK
    <3> QED BY <1>1, <3>2, <3>3 DEF E!Save, time
  <2>4. saving' \in [E!Files -> {"none", "saved", "noted", "linked", "failed", "lost"}]
    <3>1. CASE saving' = [saving EXCEPT ![f] = "saved"]
      BY <3>1 DEF E!TypeOK
    <3>2. CASE saving' = [saving EXCEPT ![f] = "failed"]
      BY <3>2 DEF E!TypeOK
    <3> QED BY <1>1, <3>1, <3>2 DEF E!Save
  <2>3. evidenceTroubles' \in 0..EvidenceTroubles
    BY <1>1 DEF E!TypeOK, EvidenceBounds, E!Save, E!Trouble
  <2> QED BY <1>1, <2>2, <2>3, <2>4 DEF E!TypeOK, E!Save, E!counts, E!passes, E!history
<1>2. ASSUME NEW f \in E!Files, E!NoteWrite(f) PROVE E!TypeOK'
  <2>3. E!Note(f) /\ pass \in [E!Threads -> PassType] /\ E!Size(f) \in Nat
    BY <1>2 DEF E!NoteWrite, E!TypeOK, PassType, E!Size
  <2>1. /\ pass' \in [E!Threads -> PassType] /\ used' \in Nat \cup {E!Unknown}
        /\ rerun' \in BOOLEAN
        /\ markedUnder' \in {"nobody", "first_run", "other"}
    <3>4. used' \in Nat \cup {E!Unknown}
      <4>1. used' = used \/ (used \in Nat /\ used' = used + E!Size(f))
        BY <2>3, NoteDoes
      <4> QED BY <2>3, <4>1 DEF E!TypeOK
    <3>1. CASE UNCHANGED <<rerun, markedUnder, pass>>
      BY <2>3, <3>1, <3>4 DEF E!TypeOK
    <3>2. CASE /\ UNCHANGED pass /\ rerun' = TRUE
               /\ markedUnder' = IF lock \in EvidenceRunners /\ pass[lock].run = 1 THEN "first_run"
                    ELSE "other"
      BY <2>3, <3>2, <3>4 DEF E!TypeOK
    <3>3. CASE used' = used + E!Size(f) /\ used \in Nat /\ UNCHANGED <<rerun, markedUnder>> /\
                 \E t \in EvidenceRunners : OtherPasses(t)
      BY <2>3, <3>3 DEF E!TypeOK, OtherPasses
    <3> QED BY <2>3, <3>1, <3>2, <3>3, NoteDoes
  <2>2. saving' \in [E!Files -> {"none", "saved", "noted", "linked", "failed", "lost"}]
    BY <1>2 DEF E!TypeOK, E!NoteWrite
  <2> QED BY <1>2, <2>1, <2>2 DEF E!TypeOK, PassType, E!NoteWrite, E!Note, E!history
<1>3. ASSUME NEW f \in E!Files, E!LinkFails(f) PROVE E!TypeOK'
  BY <1>3 DEF E!TypeOK, EvidenceBounds, E!Trouble, E!LinkFails, E!counts, E!passes, E!history
<1>4. ASSUME NEW i \in E!Incidents, E!StoreRow(i) PROVE E!TypeOK'
  <2>1. evidenceRow' \in [E!Incidents -> [stored : BOOLEAN, linked : SUBSET {"still", "clip"},
          expired : BOOLEAN]]
    <3>1. CASE evidenceRow' = [evidenceRow EXCEPT ![i] = E!Stored({"still"})]
      BY <3>1 DEF E!TypeOK, E!Stored
    <3>2. CASE evidenceRow' = [evidenceRow EXCEPT ![i] = E!Stored({})]
      BY <3>2 DEF E!TypeOK, E!Stored
    <3> QED BY <1>4, <3>1, <3>2 DEF E!StoreRow
  <2>2. /\ saving' \in [E!Files -> {"none", "saved", "noted", "linked", "failed", "lost"}]
        /\ tooEarly' \subseteq E!Files
    <3>1. CASE E!Linked(E!Still(i))
      BY <3>1 DEF E!TypeOK, E!Linked
    <3>2. CASE UNCHANGED <<saving, tooEarly>>
      BY <3>2 DEF E!TypeOK
    <3> QED BY <1>4, <3>1, <3>2 DEF E!StoreRow
  <2> QED BY <1>4, <2>1, <2>2 DEF E!TypeOK, E!StoreRow, E!counts, E!passes
<1>5. ASSUME NEW i \in E!Incidents, E!LinkClip(i) PROVE E!TypeOK'
  <2>1. evidenceRow' \in [E!Incidents -> [stored : BOOLEAN, linked : SUBSET {"still", "clip"},
          expired : BOOLEAN]]
    <3> DEFINE Rows == [stored : BOOLEAN, linked : SUBSET {"still", "clip"}, expired : BOOLEAN]
               new == [evidenceRow[i] EXCEPT !.linked = evidenceRow[i].linked \cup {"clip"}]
    <3>1. evidenceRow' = [evidenceRow EXCEPT ![i] = new]
      BY <1>5 DEF E!LinkClip
    <3>3. PICK old \in Rows : old = evidenceRow[i]
      BY DEF E!TypeOK
    <3>2. new \in Rows
      BY <3>3
    <3> HIDE DEF new
    <3> QED BY <3>1, <3>2 DEF E!TypeOK
  <2>2. /\ saving' \in [E!Files -> {"none", "saved", "noted", "linked", "failed", "lost"}]
        /\ tooEarly' \subseteq E!Files
    BY <1>5 DEF E!TypeOK, E!LinkClip, E!Linked
  <2> QED BY <1>5, <2>1, <2>2 DEF E!TypeOK, E!LinkClip, E!counts, E!passes
<1>6. ASSUME NEW t \in E!Threads, E!Enter(t) PROVE E!TypeOK'
  BY <1>6, PassSteps DEF E!TypeOK, EvidenceBounds, E!Trouble, E!Enter, E!counts, E!passes,
     E!history, E!TypeOK, PassType, OtherPasses
<1>7. ASSUME NEW t \in E!Threads, E!Scan(t) PROVE E!TypeOK'
  BY <1>7, ScanDoes DEF E!TypeOK, EvidenceBounds, E!Trouble, E!Scan, E!counts, E!passes,
     E!history, E!TypeOK, PassType, OtherPasses
<1>8. ASSUME NEW t \in E!Threads, E!Delete(t) PROVE E!TypeOK'
  <2>1. stuck' \subseteq E!Files /\ evidenceTroubles' \in 0..EvidenceTroubles
    BY <1>8, PassOfThread DEF E!TypeOK, EvidenceBounds, E!Delete, E!Trouble
  <2>2. written' \in [E!Files -> Nat]
    BY <1>8 DEF E!TypeOK, E!Delete
  <2>3. pass' \in [E!Threads -> PassType]
    BY <1>8, PassSteps DEF OtherPasses
  <2> QED BY <1>8, <2>1, <2>2, <2>3 DEF E!TypeOK, PassType, E!Delete, E!counts, E!history
<1>9. ASSUME NEW t \in E!Threads, E!MarkExpired(t) PROVE E!TypeOK'
  <2>1. PICK informed \in {pass[t].doomed, pass[t].doomed \cap {E!Still(i) : i \in E!Incidents}, {}} :
          /\ evidenceRow' = [i \in E!Incidents |-> E!Expired(evidenceRow[i], i, informed)]
          /\ unrecorded' = unrecorded \cup (pass[t].doomed \ informed)
          /\ IF informed = pass[t].doomed THEN UNCHANGED evidenceTroubles ELSE E!Trouble
    BY <1>9 DEF E!MarkExpired
  <2>2. \A i \in E!Incidents :
          E!Expired(evidenceRow[i], i, informed) \in [stored : BOOLEAN,
            linked : SUBSET {"still", "clip"}, expired : BOOLEAN]
    BY DEF E!TypeOK, E!Expired
  <2>3. evidenceRow' \in [E!Incidents -> [stored : BOOLEAN, linked : SUBSET {"still", "clip"},
          expired : BOOLEAN]]
    BY <2>1, <2>2
  <2>4. evidenceTroubles' \in 0..EvidenceTroubles /\ unrecorded' \subseteq E!Files
    BY <2>1, PassOfThread DEF E!TypeOK, EvidenceBounds, E!Trouble
  <2>5. pass' \in [E!Threads -> PassType]
    BY <1>9, PassSteps DEF OtherPasses
  <2>6. used' \in Nat /\ effective' \in EvidenceLimits /\ uncounted' \subseteq E!Files
    <3>1. /\ used' = E!Total(pass[t].files) /\ pass[t].files \in SUBSET E!Files
          /\ effective' = pass[t].limit
      BY <1>9, PassOfThread DEF E!MarkExpired
    <3>2. used' \in Nat
      BY <3>1, TotalOfFewer
    <3>3. effective' \in EvidenceLimits
      BY <1>9, <3>1 DEF PassInv, E!MarkExpired
    <3> QED BY <1>9, <3>2, <3>3 DEF E!MarkExpired, E!disk
  <2> QED BY <1>9, <2>3, <2>4, <2>5, <2>6 DEF E!TypeOK, PassType, E!MarkExpired
<1>10. ASSUME NEW t \in E!Threads, E!Release(t) PROVE E!TypeOK'
  BY <1>10, PassSteps DEF E!TypeOK, EvidenceBounds, E!Trouble, E!Release, E!counts, E!passes,
     E!history, E!TypeOK, PassType, OtherPasses
<1>11. ASSUME NEW t \in E!Threads, E!Reread(t) PROVE E!TypeOK'
  BY <1>11, PassSteps DEF E!TypeOK, EvidenceBounds, E!Trouble, E!Reread, E!counts, E!passes,
     E!history, E!TypeOK, PassType, OtherPasses
<1>12. CASE E!Crash
  <2>1. pass' \in [E!Threads -> PassType]
    BY <1>12, AtType DEF E!Crash, E!NoPasses, E!NoPass
  <2>2. saving' \in [E!Files -> {"none", "saved", "noted", "linked", "failed", "lost"}]
    BY <1>12 DEF E!TypeOK, E!Crash
  <2>3. effective' \in EvidenceLimits /\ evidenceTroubles' \in 0..EvidenceTroubles
    BY <1>12 DEF E!TypeOK, EvidenceBounds, E!Crash, E!Cap, E!Trouble
  <2>4. unrecorded' \subseteq E!Files
    BY <1>12, PassOfThread DEF E!TypeOK, E!Crash
  <2> QED BY <1>12, <2>1, <2>2, <2>3, <2>4 DEF E!TypeOK, PassType, E!Crash
<1>13. CASE UNCHANGED E!vars
  BY <1>13 DEF E!TypeOK, EvidenceBounds, E!Trouble, E!vars, E!counts, E!passes, E!history
<1> QED BY <1>1, <1>2, <1>3, <1>4, <1>5, <1>6, <1>7, <1>8, <1>9, <1>10, <1>11, <1>12, <1>13 DEF
   E!Next

\* A step of a pass does not change what another has between its scan and its end,
\* for no other is there.
LEMMA Alone ==
  ASSUME EvidenceInv, NEW t \in E!Threads, NEW u \in E!Threads, pass[t].pc \in Deleting,
         pass[u].pc \in Deleting
  PROVE  u = t
BY DEF EvidenceInv, LockInv

\* A pass has the lock from its scan until it releases it.
LEMMA LockKeeps ==
  ASSUME EvidenceInv, [E!Next]_(E!vars)
  PROVE  LockInv'
<1> USE EvidenceNames DEF EvidenceInv
<1>1. ASSUME NEW f \in E!Files, E!Save(f) PROVE LockInv'
  BY <1>1 DEF LockInv, Deleting, E!TypeOK, E!Save, E!counts, E!passes, E!history
<1>2. ASSUME NEW f \in E!Files, E!NoteWrite(f) PROVE LockInv'
  <2>1. E!Note(f) /\ UNCHANGED lock
    BY <1>2 DEF E!NoteWrite, E!Note
  <2>2. CASE UNCHANGED pass
    BY <2>1, <2>2 DEF LockInv
  <2>3. ASSUME NEW t \in EvidenceRunners, pass[t].pc = "idle", OtherPasses(t), pass'[t].pc = "due"
        PROVE LockInv'
    BY <2>1, <2>3 DEF LockInv, OtherPasses, Deleting
  <2> QED BY <2>1, <2>2, <2>3, NoteDoes
<1>3. ASSUME NEW f \in E!Files, E!LinkFails(f) PROVE LockInv'
  BY <1>3 DEF LockInv, Deleting, E!TypeOK, E!LinkFails, E!counts, E!passes, E!history
<1>4. ASSUME NEW i \in E!Incidents, E!StoreRow(i) PROVE LockInv'
  BY <1>4 DEF LockInv, Deleting, E!TypeOK, E!StoreRow, E!counts, E!passes, E!history
<1>5. ASSUME NEW i \in E!Incidents, E!LinkClip(i) PROVE LockInv'
  BY <1>5 DEF LockInv, Deleting, E!TypeOK, E!LinkClip, E!counts, E!passes, E!history
<1>6. ASSUME NEW t \in E!Threads, E!Enter(t) PROVE LockInv'
  <2>1. OtherPasses(t) /\ pass[t].pc \notin Deleting /\ pass'[t].pc \notin Deleting /\ UNCHANGED lock
    BY <1>6, PassSteps DEF Deleting
  <2> QED BY <2>1 DEF LockInv, OtherPasses
<1>7. ASSUME NEW t \in E!Threads, E!Scan(t) PROVE LockInv'
  BY <1>7, ScanDoes DEF LockInv, Deleting, E!TypeOK, E!Scan, E!counts, E!passes, E!history,
     OtherPasses
<1>8. ASSUME NEW t \in E!Threads, E!Delete(t) PROVE LockInv'
  BY <1>8, PassSteps DEF LockInv, Deleting, E!TypeOK, E!Delete, E!counts, E!passes, E!history,
     OtherPasses
<1>9. ASSUME NEW t \in E!Threads, E!MarkExpired(t) PROVE LockInv'
  BY <1>9, PassSteps DEF LockInv, Deleting, E!TypeOK, E!MarkExpired, E!counts, E!passes,
     E!history, OtherPasses
<1>10. ASSUME NEW t \in E!Threads, E!Release(t) PROVE LockInv'
  <2>1. OtherPasses(t) /\ pass[t].pc \in Deleting /\ pass'[t].pc \notin Deleting /\ lock' = "nobody"
    <3>1. pass'[t].pc \in {"reread", "idle"}
      BY <1>10, PassSteps
    <3> QED BY <1>10, <3>1, PassSteps DEF Deleting
  <2>2. \A u \in E!Threads \ {t} : pass[u].pc \notin Deleting
    BY <2>1, Alone
  <2> QED BY <2>1, <2>2 DEF LockInv, OtherPasses
<1>11. ASSUME NEW t \in E!Threads, E!Reread(t) PROVE LockInv'
  <2>1. OtherPasses(t) /\ pass[t].pc \notin Deleting /\ pass'[t].pc \notin Deleting /\ UNCHANGED lock
    <3>1. pass'[t].pc \in {"due", "idle"}
      BY <1>11, PassSteps
    <3> QED BY <1>11, <3>1, PassSteps DEF Deleting
  <2> QED BY <2>1 DEF LockInv, OtherPasses
<1>12. CASE E!Crash
  BY <1>12, AtType DEF LockInv, Deleting, E!TypeOK, E!Crash, E!counts, E!passes, E!history,
     E!NoPasses, E!NoPass
<1>13. CASE UNCHANGED E!vars
  BY <1>13 DEF LockInv, Deleting, E!TypeOK, E!vars, E!counts, E!passes, E!history
<1> QED BY <1>1, <1>2, <1>3, <1>4, <1>5, <1>6, <1>7, <1>8, <1>9, <1>10, <1>11, <1>12, <1>13 DEF
   E!Next

\* What holds of the other passes still does when none of them moves.
LEMMA PassesStay ==
  ASSUME EvidenceInv, NEW t \in E!Threads, OtherPasses(t), PassInv, UNCHANGED stuck,
         pass'[t].pc \notin {"decided", "deleted"}
  PROVE  PassInv'
<1>1. \A u \in E!Threads : pass'[u].pc \in {"decided", "deleted"} => pass'[u] = pass[u]
  BY DEF OtherPasses
<1> QED BY <1>1 DEF PassInv

\* A pass has chosen enough, siblings included, and deletes that but for what is stuck.
LEMMA PassKeeps ==
  ASSUME EvidenceInv, [E!Next]_(E!vars)
  PROVE  PassInv'
<1> USE EvidenceNames DEF EvidenceInv
<1>1. ASSUME NEW f \in E!Files, E!Save(f) PROVE PassInv'
  <2>1. UNCHANGED <<pass, stuck>>
    BY <1>1 DEF E!Save, E!counts, E!passes, E!history
  <2> QED BY <2>1 DEF PassInv
<1>2. ASSUME NEW f \in E!Files, E!NoteWrite(f) PROVE PassInv'
  <2>1. UNCHANGED stuck
    BY <1>2 DEF E!NoteWrite, E!Note
  <2>2. CASE UNCHANGED pass
    BY <2>1, <2>2 DEF PassInv
  <2>3. ASSUME NEW t \in EvidenceRunners, OtherPasses(t), pass'[t].pc = "due" PROVE PassInv'
    BY <2>1, <2>3, PassesStay
  <2> QED BY <1>2, <2>2, <2>3, NoteDoes DEF E!NoteWrite
<1>3. ASSUME NEW f \in E!Files, E!LinkFails(f) PROVE PassInv'
  <2>1. UNCHANGED <<pass, stuck>>
    BY <1>3 DEF E!LinkFails, E!counts, E!passes, E!history
  <2> QED BY <2>1 DEF PassInv
<1>4. ASSUME NEW i \in E!Incidents, E!StoreRow(i) PROVE PassInv'
  <2>1. UNCHANGED <<pass, stuck>>
    BY <1>4 DEF E!StoreRow, E!counts, E!passes, E!history
  <2> QED BY <2>1 DEF PassInv
<1>5. ASSUME NEW i \in E!Incidents, E!LinkClip(i) PROVE PassInv'
  <2>1. UNCHANGED <<pass, stuck>>
    BY <1>5 DEF E!LinkClip, E!counts, E!passes, E!history
  <2> QED BY <2>1 DEF PassInv
<1>6. ASSUME NEW t \in E!Threads, E!Enter(t) PROVE PassInv'
  <2>1. OtherPasses(t) /\ pass'[t].pc \notin {"decided", "deleted"} /\ UNCHANGED stuck
    BY <1>6, PassSteps DEF E!Enter
  <2> QED BY <2>1, PassesStay
<1>7. ASSUME NEW t \in E!Threads, E!Scan(t) PROVE PassInv'
  <2>1. /\ \A u \in E!Threads \ {t} : pass'[u] = pass[u]
        /\ pass'[t].pc = "decided" /\ pass'[t].limit \in EvidenceLimits
        /\ pass'[t].files = E!disk /\ pass'[t].doomed = E!WithSiblings(E!Excess(pass'[t].limit))
    BY <1>7, ScanDoes DEF OtherPasses
  <2>2. E!disk \in SUBSET E!Files /\ pass'[t].limit \in Nat
    BY <2>1 DEF E!disk, EvidenceBounds
  <2>3. E!Total(pass'[t].files \ pass'[t].doomed) <= pass'[t].limit
    <3>1. E!Total(E!disk \ E!Excess(pass'[t].limit)) <= pass'[t].limit
      BY <2>2, ExcessIsEnough
    <3>2. pass'[t].files \ pass'[t].doomed \subseteq E!disk \ E!Excess(pass'[t].limit)
      BY <2>1 DEF E!WithSiblings, E!Excess
    <3>3. E!disk \ E!Excess(pass'[t].limit) \in SUBSET E!Files
      BY <2>2
    <3>4. /\ E!Total(E!disk \ E!Excess(pass'[t].limit)) \in Nat
          /\ E!Total(pass'[t].files \ pass'[t].doomed) \in Nat
          /\ E!Total(pass'[t].files \ pass'[t].doomed) <= E!Total(E!disk \ E!Excess(pass'[t].limit))
      BY <3>2, <3>3, TotalOfFewer
    <3> QED BY <2>2, <3>1, <3>4
  <2>4. \A i \in E!Incidents :
          E!Still(i) \in pass'[t].doomed => E!Clip(i) \notin pass'[t].files \ pass'[t].doomed
    <3> SUFFICES ASSUME NEW i \in E!Incidents, E!Still(i) \in pass'[t].doomed, E!Clip(i) \in E!disk
                 PROVE  E!Clip(i) \in pass'[t].doomed
      BY <2>1
    <3>1. PICK g \in E!Excess(pass'[t].limit) : g[1] = E!Still(i)[1]
      BY <2>1 DEF E!WithSiblings
    <3>2. E!Still(i)[1] = E!Clip(i)[1]
      BY DEF E!Still, E!Clip
    <3> QED BY <2>1, <3>1, <3>2 DEF E!WithSiblings
  <2>5. UNCHANGED stuck
    BY <1>7 DEF E!Scan
  <2> QED BY <2>1, <2>3, <2>4, <2>5 DEF PassInv
<1>8. ASSUME NEW t \in E!Threads, E!Delete(t) PROVE PassInv'
  <2>1. /\ \A u \in E!Threads \ {t} : pass'[u] = pass[u]
        /\ pass[t].pc = "decided" /\ pass'[t].pc = "deleted" /\ pass'[t].limit = pass[t].limit
        /\ pass'[t].files = pass[t].files \ (pass[t].doomed \ stuck')
    BY <1>8, PassSteps DEF OtherPasses
  <2>2. \A u \in E!Threads : pass'[u].pc \in {"decided", "deleted"} => u = t
    BY <2>1, Alone DEF Deleting
  <2>3. stuck' # {} \/ E!Total(pass'[t].files) <= pass'[t].limit
    BY <2>1 DEF PassInv
  <2> QED BY <2>1, <2>2, <2>3 DEF PassInv
<1>9. ASSUME NEW t \in E!Threads, E!MarkExpired(t) PROVE PassInv'
  <2>1. OtherPasses(t) /\ pass'[t].pc \notin {"decided", "deleted"} /\ UNCHANGED stuck
    BY <1>9, PassSteps DEF E!MarkExpired
  <2> QED BY <2>1, PassesStay
<1>10. ASSUME NEW t \in E!Threads, E!Release(t) PROVE PassInv'
  <2>1. pass'[t].pc \in {"reread", "due", "idle"}
    BY <1>10, PassSteps
  <2>2. OtherPasses(t) /\ UNCHANGED stuck
    BY <1>10, PassSteps DEF E!Release
  <2> QED BY <2>1, <2>2, PassesStay
<1>11. ASSUME NEW t \in E!Threads, E!Reread(t) PROVE PassInv'
  <2>1. pass'[t].pc \in {"reread", "due", "idle"}
    BY <1>11, PassSteps
  <2>2. OtherPasses(t) /\ UNCHANGED stuck
    BY <1>11, PassSteps DEF E!Reread
  <2> QED BY <2>1, <2>2, PassesStay
<1>12. CASE E!Crash
  <2>1. \A u \in E!Threads : pass'[u].pc = "idle"
    BY <1>12, AtType DEF E!Crash, E!NoPasses, E!NoPass
  <2> QED BY <2>1 DEF PassInv
<1>13. CASE UNCHANGED E!vars
  BY <1>13 DEF PassInv, E!vars, E!counts, E!passes, E!history
<1> QED BY <1>1, <1>2, <1>3, <1>4, <1>5, <1>6, <1>7, <1>8, <1>9, <1>10, <1>11, <1>12, <1>13 DEF
   E!Next

\* What a pass has deleted has no still without the clip it had found.
LEMMA TakenKeeps ==
  ASSUME EvidenceInv, [E!Next]_(E!vars)
  PROVE  E!TakenTogether'
<1> USE EvidenceNames DEF EvidenceInv
<1>1. ASSUME NEW f \in E!Files, E!Save(f) PROVE E!TakenTogether'
  <2>1. UNCHANGED <<pass, stuck>>
    BY <1>1 DEF E!Save, E!counts, E!passes, E!history
  <2> QED BY <2>1 DEF E!TakenTogether
<1>2. ASSUME NEW f \in E!Files, E!NoteWrite(f) PROVE E!TakenTogether'
  <2>1. UNCHANGED stuck
    BY <1>2 DEF E!NoteWrite, E!Note
  <2>2. \A u \in E!Threads : pass'[u].pc = "deleted" => pass'[u] = pass[u]
    BY <1>2, NoteDoes DEF E!NoteWrite, OtherPasses
  <2> QED BY <2>1, <2>2 DEF E!TakenTogether
<1>3. ASSUME NEW f \in E!Files, E!LinkFails(f) PROVE E!TakenTogether'
  <2>1. UNCHANGED <<pass, stuck>>
    BY <1>3 DEF E!LinkFails, E!counts, E!passes, E!history
  <2> QED BY <2>1 DEF E!TakenTogether
<1>4. ASSUME NEW i \in E!Incidents, E!StoreRow(i) PROVE E!TakenTogether'
  <2>1. UNCHANGED <<pass, stuck>>
    BY <1>4 DEF E!StoreRow, E!counts, E!passes, E!history
  <2> QED BY <2>1 DEF E!TakenTogether
<1>5. ASSUME NEW i \in E!Incidents, E!LinkClip(i) PROVE E!TakenTogether'
  <2>1. UNCHANGED <<pass, stuck>>
    BY <1>5 DEF E!LinkClip, E!counts, E!passes, E!history
  <2> QED BY <2>1 DEF E!TakenTogether
<1>6. ASSUME NEW t \in E!Threads, E!Enter(t) PROVE E!TakenTogether'
  <2>1. \A u \in E!Threads : pass'[u].pc = "deleted" => pass'[u] = pass[u]
    BY <1>6, PassSteps DEF OtherPasses
  <2>2. UNCHANGED stuck
    BY <1>6 DEF E!Enter
  <2> QED BY <2>1, <2>2 DEF E!TakenTogether
<1>7. ASSUME NEW t \in E!Threads, E!Scan(t) PROVE E!TakenTogether'
  <2>1. \A u \in E!Threads : pass'[u].pc = "deleted" => pass'[u] = pass[u]
    BY <1>7, ScanDoes DEF OtherPasses
  <2>2. UNCHANGED stuck
    BY <1>7 DEF E!Scan
  <2> QED BY <2>1, <2>2 DEF E!TakenTogether
<1>8. ASSUME NEW t \in E!Threads, E!Delete(t) PROVE E!TakenTogether'
  <2>1. /\ \A u \in E!Threads \ {t} : pass'[u] = pass[u]
        /\ pass[t].pc = "decided" /\ pass'[t].pc = "deleted"
        /\ pass'[t].doomed = pass[t].doomed \ stuck'
        /\ pass'[t].files = pass[t].files \ (pass[t].doomed \ stuck')
    BY <1>8, PassSteps DEF OtherPasses
  <2>2. \A u \in E!Threads : pass'[u].pc = "deleted" => u = t
    BY <2>1, Alone DEF Deleting
  <2> QED BY <2>1, <2>2 DEF E!TakenTogether, PassInv
<1>9. ASSUME NEW t \in E!Threads, E!MarkExpired(t) PROVE E!TakenTogether'
  <2>1. \A u \in E!Threads : pass'[u].pc = "deleted" => pass'[u] = pass[u]
    BY <1>9, PassSteps DEF OtherPasses
  <2>2. UNCHANGED stuck
    BY <1>9 DEF E!MarkExpired
  <2> QED BY <2>1, <2>2 DEF E!TakenTogether
<1>10. ASSUME NEW t \in E!Threads, E!Release(t) PROVE E!TakenTogether'
  <2>1. \A u \in E!Threads : pass'[u].pc = "deleted" => pass'[u] = pass[u]
    BY <1>10, PassSteps DEF OtherPasses
  <2>2. UNCHANGED stuck
    BY <1>10 DEF E!Release
  <2> QED BY <2>1, <2>2 DEF E!TakenTogether
<1>11. ASSUME NEW t \in E!Threads, E!Reread(t) PROVE E!TakenTogether'
  <2>1. \A u \in E!Threads : pass'[u].pc = "deleted" => pass'[u] = pass[u]
    BY <1>11, PassSteps DEF OtherPasses
  <2>2. UNCHANGED stuck
    BY <1>11 DEF E!Reread
  <2> QED BY <2>1, <2>2 DEF E!TakenTogether
<1>12. CASE E!Crash
  <2>1. \A u \in E!Threads : pass'[u].pc = "idle"
    BY <1>12, AtType DEF E!Crash, E!NoPasses, E!NoPass
  <2> QED BY <2>1 DEF E!TakenTogether
<1>13. CASE UNCHANGED E!vars
  BY <1>13 DEF E!TakenTogether, E!vars, E!counts, E!passes, E!history
<1> QED BY <1>1, <1>2, <1>3, <1>4, <1>5, <1>6, <1>7, <1>8, <1>9, <1>10, <1>11, <1>12, <1>13 DEF
   E!Next

\* Only a pass that is about to tell the rows deletes a file a row links (_mark_expired).
LEMMA LinksKeep ==
  ASSUME EvidenceInv, [E!Next]_(E!vars)
  PROVE  (RowInv /\ E!LinksAreTrue)'
<1> USE EvidenceNames DEF EvidenceInv
<1>1. ASSUME NEW f \in E!Files, E!Save(f) PROVE (RowInv /\ E!LinksAreTrue)'
  <2>1. UNCHANGED <<evidenceRow, pass, tooEarly, unrecorded>>
    BY <1>1 DEF E!Save, E!passes, E!history
  <2>2. \A g \in E!Files : E!On(g) => E!On(g)'
    <3> DEFINE time == 1 + E!Cardinality({g \in E!Files : saving[g] # "none"})
    <3>1. time # 0
      <4>1. E!Cardinality({g \in E!Files : saving[g] # "none"}) \in Nat
        BY FilesFinite, SameFileCount, FS_Subset, FS_CardinalityType
      <4> QED BY <4>1
    <3> HIDE DEF time
    <3>2. CASE written' = [written EXCEPT ![f] = time]
      BY <3>1, <3>2 DEF E!On, E!TypeOK
    <3>3. CASE UNCHANGED written
      BY <3>3 DEF E!On
    <3> QED BY <1>1, <3>2, <3>3 DEF E!Save, time
  <2> QED BY <2>1, <2>2 DEF RowInv, E!LinksAreTrue, E!BeingMarked, E!TypeOK, E!Files
<1>2. ASSUME NEW f \in E!Files, E!NoteWrite(f) PROVE (RowInv /\ E!LinksAreTrue)'
  <2>1. UNCHANGED <<evidenceRow, written, tooEarly, unrecorded>> /\ E!Note(f)
    BY <1>2 DEF E!NoteWrite, E!history
  <2>2. \A g \in E!Files : E!BeingMarked(g) => E!BeingMarked(g)'
    BY <2>1, NoteDoes DEF E!BeingMarked, OtherPasses
  <2> QED BY <2>1, <2>2 DEF RowInv, E!LinksAreTrue, E!On, E!Files, E!TypeOK
<1>3. ASSUME NEW f \in E!Files, E!LinkFails(f) PROVE (RowInv /\ E!LinksAreTrue)'
  BY <1>3 DEF RowInv, E!LinksAreTrue, E!BeingMarked, E!On, E!LinkFails, E!counts, E!passes,
     E!history
<1>4. ASSUME NEW i \in E!Incidents, E!StoreRow(i) PROVE (RowInv /\ E!LinksAreTrue)'
  <2>1. UNCHANGED <<written, pass, unrecorded>> /\ tooEarly \subseteq tooEarly'
    BY <1>4 DEF E!StoreRow, E!Linked, E!passes
  <2>2. /\ \A j \in E!Incidents \ {i} : evidenceRow'[j] = evidenceRow[j]
        /\ evidenceRow'[i].stored = TRUE /\ evidenceRow'[i].linked \subseteq {"still"}
        /\ "still" \in evidenceRow'[i].linked => E!On(E!Still(i)) \/ E!Still(i) \in tooEarly'
    <3>1. CASE evidenceRow' = [evidenceRow EXCEPT ![i] = E!Stored({"still"})] /\ E!Linked(E!Still(i))
      BY <3>1 DEF E!TypeOK, E!Stored, E!Linked
    <3>2. CASE evidenceRow' = [evidenceRow EXCEPT ![i] = E!Stored({})]
      BY <3>2 DEF E!TypeOK, E!Stored
    <3> QED BY <1>4, <3>1, <3>2 DEF E!StoreRow
  <2> QED BY <2>1, <2>2 DEF RowInv, E!LinksAreTrue, E!BeingMarked, E!On, E!Still
<1>5. ASSUME NEW i \in E!Incidents, E!LinkClip(i) PROVE (RowInv /\ E!LinksAreTrue)'
  <2>1. UNCHANGED <<written, pass, unrecorded>> /\ tooEarly \subseteq tooEarly'
    BY <1>5 DEF E!LinkClip, E!Linked, E!passes
  <2>2. /\ \A j \in E!Incidents \ {i} : evidenceRow'[j] = evidenceRow[j]
        /\ evidenceRow'[i].stored = evidenceRow[i].stored
        /\ evidenceRow'[i].linked = evidenceRow[i].linked \cup {"clip"}
    BY <1>5 DEF E!LinkClip, E!TypeOK
  <2>3. E!On(E!Clip(i)) \/ E!Clip(i) \in tooEarly'
    BY <1>5 DEF E!LinkClip, E!Linked
  <2>4. evidenceRow[i].stored
    BY <1>5 DEF E!LinkClip, FileInv
  <2> QED BY <2>1, <2>2, <2>3, <2>4 DEF RowInv, E!LinksAreTrue, E!BeingMarked, E!On, E!Clip
<1>6. ASSUME NEW t \in E!Threads, E!Enter(t) PROVE (RowInv /\ E!LinksAreTrue)'
  <2>1. UNCHANGED <<evidenceRow, written, tooEarly, unrecorded>>
    BY <1>6 DEF E!Enter, E!counts, E!history
  <2>2. \A u \in E!Threads : pass[u].pc = "deleted" => pass'[u] = pass[u]
    BY <1>6, PassSteps DEF OtherPasses
  <2> QED BY <2>1, <2>2 DEF RowInv, E!LinksAreTrue, E!BeingMarked, E!On
<1>7. ASSUME NEW t \in E!Threads, E!Scan(t) PROVE (RowInv /\ E!LinksAreTrue)'
  <2>1. UNCHANGED <<evidenceRow, written, tooEarly, unrecorded>>
    BY <1>7 DEF E!Scan, E!counts, E!history
  <2>2. \A u \in E!Threads : pass[u].pc = "deleted" => pass'[u] = pass[u]
    BY <1>7, ScanDoes DEF OtherPasses
  <2> QED BY <2>1, <2>2 DEF RowInv, E!LinksAreTrue, E!BeingMarked, E!On
<1>8. ASSUME NEW t \in E!Threads, E!Delete(t) PROVE (RowInv /\ E!LinksAreTrue)'
  <2>1. UNCHANGED <<evidenceRow, tooEarly, unrecorded>>
    BY <1>8 DEF E!Delete, E!history
  <2>2. /\ \A u \in E!Threads \ {t} : pass'[u] = pass[u]
        /\ pass[t].pc = "decided" /\ pass'[t].pc = "deleted"
        /\ pass'[t].doomed = pass[t].doomed \ stuck'
    BY <1>8, PassSteps DEF OtherPasses
  <2>3. \A f \in E!Files : E!On(f) => E!On(f)' \/ f \in pass'[t].doomed
    BY <1>8, <2>2 DEF E!Delete, E!On
  <2>4. \A f \in E!Files : E!BeingMarked(f) => E!BeingMarked(f)'
    BY <2>2 DEF E!BeingMarked
  <2>5. \A f \in E!Files : E!On(f) => E!On(f)' \/ E!BeingMarked(f)'
    BY <2>2, <2>3 DEF E!BeingMarked
  <2>6. \A i \in E!Incidents : \A k \in evidenceRow[i].linked : <<i, k>> \in E!Files
    BY DEF E!TypeOK, E!Files
  <2> QED BY <2>1, <2>4, <2>5, <2>6 DEF RowInv, E!LinksAreTrue
<1>9. ASSUME NEW t \in E!Threads, E!MarkExpired(t) PROVE (RowInv /\ E!LinksAreTrue)'
  <2>1. UNCHANGED <<written, tooEarly>>
    BY <1>9 DEF E!MarkExpired
  <2>2. PICK informed \in {pass[t].doomed, pass[t].doomed \cap {E!Still(i) : i \in E!Incidents}, {}} :
          /\ evidenceRow' = [i \in E!Incidents |-> E!Expired(evidenceRow[i], i, informed)]
          /\ unrecorded' = unrecorded \cup (pass[t].doomed \ informed)
    BY <1>9 DEF E!MarkExpired
  <2>3. \A f \in E!Files : E!BeingMarked(f) => E!BeingMarked(f)' \/ f \in unrecorded' \/ f \in informed
    BY <1>9, <2>2, PassSteps DEF E!BeingMarked, OtherPasses
  <2>4. \A i \in E!Incidents :
          /\ evidenceRow'[i].linked \subseteq evidenceRow[i].linked
          /\ evidenceRow'[i].stored = evidenceRow[i].stored
          /\ evidenceRow[i].stored => \A k \in evidenceRow'[i].linked : <<i, k>> \notin informed
    <3> SUFFICES ASSUME NEW i \in E!Incidents
                 PROVE  /\ evidenceRow'[i].linked \subseteq evidenceRow[i].linked
                        /\ evidenceRow'[i].stored = evidenceRow[i].stored
                        /\ evidenceRow[i].stored => \A k \in evidenceRow'[i].linked :
                             <<i, k>> \notin informed
      OBVIOUS
    <3>1. evidenceRow'[i] = E!Expired(evidenceRow[i], i, informed) /\ evidenceRow[i].stored \in BOOLEAN
      BY <2>2 DEF E!TypeOK
    <3>2. CASE evidenceRow[i].stored /\ \E f \in informed : f[1] = i
      <4>1. evidenceRow'[i] = [stored |-> TRUE, linked |-> {k \in evidenceRow[i].linked : <<i, k>> \notin informed}, expired |-> TRUE]
        BY <3>1, <3>2 DEF E!Expired
      <4> QED BY <3>2, <4>1
    <3>3. CASE ~ (evidenceRow[i].stored /\ \E f \in informed : f[1] = i)
      <4>1. evidenceRow'[i] = evidenceRow[i]
        BY <3>1, <3>3 DEF E!Expired
      <4> QED BY <3>3, <4>1
    <3> QED BY <3>2, <3>3
  <2>5. \A i \in E!Incidents : \A k \in evidenceRow[i].linked : <<i, k>> \in E!Files
    BY DEF E!TypeOK, E!Files
  <2>6. unrecorded \subseteq unrecorded'
    BY <2>2
  <2> QED BY <2>1, <2>3, <2>4, <2>5, <2>6 DEF RowInv, E!LinksAreTrue, E!On
<1>10. ASSUME NEW t \in E!Threads, E!Release(t) PROVE (RowInv /\ E!LinksAreTrue)'
  <2>1. UNCHANGED <<evidenceRow, written, tooEarly, unrecorded>>
    BY <1>10 DEF E!Release, E!counts, E!history
  <2>2. \A u \in E!Threads : pass[u].pc = "deleted" => pass'[u] = pass[u]
    BY <1>10, PassSteps DEF OtherPasses
  <2> QED BY <2>1, <2>2 DEF RowInv, E!LinksAreTrue, E!BeingMarked, E!On
<1>11. ASSUME NEW t \in E!Threads, E!Reread(t) PROVE (RowInv /\ E!LinksAreTrue)'
  <2>1. UNCHANGED <<evidenceRow, written, tooEarly, unrecorded>>
    BY <1>11 DEF E!Reread, E!counts, E!history
  <2>2. \A u \in E!Threads : pass[u].pc = "deleted" => pass'[u] = pass[u]
    BY <1>11, PassSteps DEF OtherPasses
  <2> QED BY <2>1, <2>2 DEF RowInv, E!LinksAreTrue, E!BeingMarked, E!On
<1>12. CASE E!Crash
  <2>1. UNCHANGED <<evidenceRow, written, tooEarly>>
    BY <1>12 DEF E!Crash
  <2>2. \A f \in E!Files : E!BeingMarked(f) => f \in unrecorded'
    BY <1>12 DEF E!Crash, E!BeingMarked
  <2>3. unrecorded \subseteq unrecorded'
    BY <1>12 DEF E!Crash
  <2>4. \A i \in E!Incidents : \A k \in evidenceRow[i].linked : <<i, k>> \in E!Files
    BY DEF E!TypeOK, E!Files
  <2> QED BY <2>1, <2>2, <2>3, <2>4 DEF RowInv, E!LinksAreTrue, E!On
<1>13. CASE UNCHANGED E!vars
  BY <1>13 DEF RowInv, E!LinksAreTrue, E!BeingMarked, E!On, E!vars, E!counts, E!passes, E!history
<1> QED BY <1>1, <1>2, <1>3, <1>4, <1>5, <1>6, <1>7, <1>8, <1>9, <1>10, <1>11, <1>12, <1>13 DEF
   E!Next

\* A clip is saved, and noted, once the row is stored.
LEMMA FileKeeps ==
  ASSUME EvidenceInv, [E!Next]_(E!vars)
  PROVE  FileInv'
<1> USE EvidenceNames DEF EvidenceInv
<1>1. ASSUME NEW f \in E!Files, E!Save(f) PROVE FileInv'
  <2>1. UNCHANGED evidenceRow /\ \A g \in E!Files \ {f} : saving'[g] = saving[g]
    BY <1>1 DEF E!Save, E!TypeOK
  <2>2. \A i \in E!Incidents : f = E!Clip(i) => evidenceRow[i].stored
    BY <1>1 DEF E!Save, E!MaySave, E!Clip
  <2> QED BY <2>1, <2>2 DEF FileInv
<1>2. ASSUME NEW f \in E!Files, E!NoteWrite(f) PROVE FileInv'
  <2>1. UNCHANGED evidenceRow /\ saving[f] = "saved" /\ \A g \in E!Files \ {f} : saving'[g] = saving[g]
    BY <1>2 DEF E!NoteWrite, E!TypeOK
  <2> QED BY <2>1 DEF FileInv
<1>3. ASSUME NEW f \in E!Files, E!LinkFails(f) PROVE FileInv'
  <2>1. UNCHANGED evidenceRow /\ saving[f] = "noted" /\ \A g \in E!Files \ {f} : saving'[g] = saving[g]
    BY <1>3 DEF E!LinkFails, E!TypeOK
  <2> QED BY <2>1 DEF FileInv
<1>4. ASSUME NEW i \in E!Incidents, E!StoreRow(i) PROVE FileInv'
  <2>1. \A j \in E!Incidents : saving'[E!Clip(j)] = saving[E!Clip(j)]
    BY <1>4 DEF E!StoreRow, E!Linked, E!TypeOK, E!Still, E!Clip
  <2>2. \A j \in E!Incidents : evidenceRow[j].stored => evidenceRow'[j].stored
    BY <1>4 DEF E!StoreRow, E!Stored, E!TypeOK
  <2> QED BY <2>1, <2>2 DEF FileInv
<1>5. ASSUME NEW i \in E!Incidents, E!LinkClip(i) PROVE FileInv'
  <2>1. \A j \in E!Incidents \ {i} :
          saving'[E!Clip(j)] = saving[E!Clip(j)] /\ evidenceRow'[j] = evidenceRow[j]
    BY <1>5 DEF E!LinkClip, E!Linked, E!TypeOK, E!Clip
  <2>2. saving'[E!Clip(i)] = "linked"
    BY <1>5 DEF E!LinkClip, E!Linked, E!TypeOK
  <2> QED BY <2>1, <2>2 DEF FileInv
<1>6. ASSUME NEW t \in E!Threads, E!Enter(t) PROVE FileInv'
  <2>1. UNCHANGED <<saving, evidenceRow>>
    BY <1>6 DEF E!Enter, E!counts, E!passes, E!history
  <2> QED BY <2>1 DEF FileInv
<1>7. ASSUME NEW t \in E!Threads, E!Scan(t) PROVE FileInv'
  <2>1. UNCHANGED <<saving, evidenceRow>>
    BY <1>7 DEF E!Scan, E!counts, E!passes, E!history
  <2> QED BY <2>1 DEF FileInv
<1>8. ASSUME NEW t \in E!Threads, E!Delete(t) PROVE FileInv'
  <2>1. UNCHANGED <<saving, evidenceRow>>
    BY <1>8 DEF E!Delete, E!counts, E!passes, E!history
  <2> QED BY <2>1 DEF FileInv
<1>9. ASSUME NEW t \in E!Threads, E!MarkExpired(t) PROVE FileInv'
  <2>1. \A i \in E!Incidents : evidenceRow[i].stored => evidenceRow'[i].stored
    BY <1>9 DEF E!MarkExpired, E!Expired
  <2>2. UNCHANGED saving
    BY <1>9 DEF E!MarkExpired
  <2> QED BY <2>1, <2>2 DEF FileInv
<1>10. ASSUME NEW t \in E!Threads, E!Release(t) PROVE FileInv'
  <2>1. UNCHANGED <<saving, evidenceRow>>
    BY <1>10 DEF E!Release, E!counts, E!passes, E!history
  <2> QED BY <2>1 DEF FileInv
<1>11. ASSUME NEW t \in E!Threads, E!Reread(t) PROVE FileInv'
  <2>1. UNCHANGED <<saving, evidenceRow>>
    BY <1>11 DEF E!Reread, E!counts, E!passes, E!history
  <2> QED BY <2>1 DEF FileInv
<1>12. CASE E!Crash
  <2>1. \A i \in E!Incidents : saving'[E!Clip(i)] \in {"saved", "noted"} =>
          saving[E!Clip(i)] = saving'[E!Clip(i)]
    BY <1>12 DEF E!Crash
  <2>2. UNCHANGED evidenceRow
    BY <1>12 DEF E!Crash
  <2> QED BY <2>1, <2>2 DEF FileInv
<1>13. CASE UNCHANGED E!vars
  BY <1>13 DEF FileInv, E!vars, E!counts, E!passes, E!history
<1> QED BY <1>1, <1>2, <1>3, <1>4, <1>5, <1>6, <1>7, <1>8, <1>9, <1>10, <1>11, <1>12, <1>13 DEF
   E!Next

\* What is counted is on the disk; fewer files, with the same count, hold as well.
LEMMA CountOfFewer ==
  ASSUME EvidenceInv, UNCHANGED used,
         E!disk' \ (uncounted' \cup E!Unnoted') \subseteq E!disk \ (uncounted \cup E!Unnoted)
  PROVE  E!CountHolds'
<1> DEFINE all == E!disk \ (uncounted \cup E!Unnoted)
           left == E!disk' \ (uncounted' \cup E!Unnoted')
<1>1. all \in SUBSET E!Files /\ left \in SUBSET all
  BY DEF E!disk
<1>2. E!Total(all) \in Nat /\ E!Total(left) \in Nat /\ E!Total(left) <= E!Total(all)
  BY <1>1, TotalOfFewer DEF EvidenceInv
<1>3. used # E!Unknown => E!Total(all) <= used /\ used \in Nat
  BY DEF EvidenceInv, E!CountHolds, E!TypeOK
<1> HIDE DEF all, left
<1>4. used # E!Unknown => E!Total(left) <= used
  BY <1>2, <1>3
<1> QED BY <1>4 DEF E!CountHolds, left

\* A note adds the file, a pass replaces the count by what it leaves (note_write, enforce).
LEMMA CountKeeps ==
  ASSUME EvidenceInv, [E!Next]_(E!vars)
  PROVE  E!CountHolds'
<1> USE EvidenceNames DEF EvidenceInv
<1>1. ASSUME NEW f \in E!Files, E!Save(f) PROVE E!CountHolds'
  <2>1. UNCHANGED <<used, uncounted>>
    BY <1>1 DEF E!Save, E!counts, E!passes
  <2>2. \A g \in E!Files \ {f} : saving'[g] = saving[g] /\ written'[g] = written[g]
    BY <1>1 DEF E!Save, E!TypeOK
  <2>3. CASE saving' = [saving EXCEPT ![f] = "saved"]
    <3>1. f \in E!Unnoted' /\ E!disk' \subseteq E!disk \cup {f} /\ E!Unnoted \subseteq E!Unnoted'
      BY <2>2, <2>3 DEF E!disk, E!On, E!Unnoted, E!TypeOK
    <3> QED BY <2>1, <3>1, CountOfFewer
  <2>4. CASE UNCHANGED written /\ saving[f] = "none"
    <3>1. E!disk' = E!disk /\ E!Unnoted \subseteq E!Unnoted'
      BY <2>2, <2>4 DEF E!disk, E!On, E!Unnoted
    <3> QED BY <2>1, <3>1, CountOfFewer
  <2> QED BY <1>1, <2>3, <2>4 DEF E!Save, E!MaySave
<1>2. ASSUME NEW f \in E!Files, E!NoteWrite(f) PROVE E!CountHolds'
  <2>1. UNCHANGED <<uncounted, written>> /\ E!Note(f) /\ saving' = [saving EXCEPT ![f] = "noted"]
    BY <1>2 DEF E!NoteWrite, E!Note
  <2>2. E!Unnoted' = E!Unnoted \ {f} /\ E!disk' = E!disk
    BY <2>1 DEF E!Unnoted, E!disk, E!On, E!TypeOK
  <2> DEFINE all == E!disk \ (uncounted \cup E!Unnoted)
             now == E!disk' \ (uncounted' \cup E!Unnoted')
  <2>3. now \subseteq all \cup {f} /\ all \in SUBSET E!Files /\ all \cup {f} \in SUBSET E!Files
    BY <2>1, <2>2 DEF E!disk
  <2>4. ~ E!On(f) => now \subseteq all
    BY <2>1, <2>2 DEF E!disk
  <2>5. CASE UNCHANGED used /\ ~ E!On(f)
    BY <2>4, <2>5, CountOfFewer
  <2>6. CASE UNCHANGED used /\ used = E!Unknown
    BY <2>6 DEF E!CountHolds
  <2>7. CASE used \in Nat /\ used' = used + E!Size(f)
    <3>1. E!Total(all) \in Nat /\ E!Total(all) <= used
      BY <2>3, <2>7, TotalOfFewer DEF E!CountHolds
    <3> HIDE DEF all, now
    <3>2. E!Total(all \cup {f}) <= E!Total(all) + E!Size(f)
      BY <2>3, TotalWithOneMore
    <3>3. E!Total(now) \in Nat /\ E!Total(all \cup {f}) \in Nat /\ E!Total(now) <= E!Total(all \cup {f})
      BY <2>3, TotalOfFewer
    <3>4. E!Total(now) <= used'
      BY <2>7, <3>1, <3>2, <3>3 DEF E!Size
    <3> QED BY <3>4 DEF E!CountHolds, now
  <2> QED BY <2>1, <2>5, <2>6, <2>7, NoteDoes
<1>3. ASSUME NEW f \in E!Files, E!LinkFails(f) PROVE E!CountHolds'
  <2>1. UNCHANGED <<used, uncounted, written>> /\ E!Unnoted \subseteq E!Unnoted'
    BY <1>3 DEF E!LinkFails, E!counts, E!passes, E!Unnoted, E!TypeOK
  <2>2. E!disk' = E!disk
    BY <2>1 DEF E!disk, E!On
  <2> QED BY <2>1, <2>2, CountOfFewer
<1>4. ASSUME NEW i \in E!Incidents, E!StoreRow(i) PROVE E!CountHolds'
  <2>1. UNCHANGED <<used, uncounted, written>> /\ E!Unnoted \subseteq E!Unnoted'
    BY <1>4 DEF E!StoreRow, E!counts, E!passes, E!Unnoted, E!TypeOK, E!Linked
  <2>2. E!disk' = E!disk
    BY <2>1 DEF E!disk, E!On
  <2> QED BY <2>1, <2>2, CountOfFewer
<1>5. ASSUME NEW i \in E!Incidents, E!LinkClip(i) PROVE E!CountHolds'
  <2>1. UNCHANGED <<used, uncounted, written>> /\ E!Unnoted \subseteq E!Unnoted'
    BY <1>5 DEF E!LinkClip, E!counts, E!passes, E!Unnoted, E!TypeOK, E!Linked
  <2>2. E!disk' = E!disk
    BY <2>1 DEF E!disk, E!On
  <2> QED BY <2>1, <2>2, CountOfFewer
<1>6. ASSUME NEW t \in E!Threads, E!Enter(t) PROVE E!CountHolds'
  <2>1. UNCHANGED <<used, uncounted, written>> /\ E!Unnoted \subseteq E!Unnoted'
    BY <1>6 DEF E!Enter, E!counts, E!passes, E!Unnoted, E!TypeOK
  <2>2. E!disk' = E!disk
    BY <2>1 DEF E!disk, E!On
  <2> QED BY <2>1, <2>2, CountOfFewer
<1>7. ASSUME NEW t \in E!Threads, E!Scan(t) PROVE E!CountHolds'
  <2>1. UNCHANGED <<used, uncounted, written>> /\ E!Unnoted \subseteq E!Unnoted'
    BY <1>7 DEF E!Scan, E!counts, E!passes, E!Unnoted, E!TypeOK
  <2>2. E!disk' = E!disk
    BY <2>1 DEF E!disk, E!On
  <2> QED BY <2>1, <2>2, CountOfFewer
<1>8. ASSUME NEW t \in E!Threads, E!Delete(t) PROVE E!CountHolds'
  <2>1. UNCHANGED <<used, uncounted, saving>>
    BY <1>8 DEF E!Delete, E!counts
  <2>2. E!disk' \subseteq E!disk /\ E!Unnoted' = E!Unnoted
    BY <1>8, <2>1 DEF E!Delete, E!disk, E!On, E!Unnoted
  <2> QED BY <2>1, <2>2, CountOfFewer
<1>9. ASSUME NEW t \in E!Threads, E!MarkExpired(t) PROVE E!CountHolds'
  <2>1. /\ used' = E!Total(pass[t].files) /\ uncounted' = (E!disk \ pass[t].files) \ E!Unnoted
        /\ UNCHANGED <<saving, written>>
    BY <1>9 DEF E!MarkExpired
  <2>2. E!disk' = E!disk /\ E!Unnoted' = E!Unnoted /\ pass[t].files \in SUBSET E!Files
    BY <2>1, PassOfThread DEF E!disk, E!On, E!Unnoted
  <2> DEFINE left == E!disk' \ (uncounted' \cup E!Unnoted')
  <2>3. left \in SUBSET pass[t].files
    BY <2>1, <2>2
  <2>4. E!Total(left) <= used'
    BY <2>1, <2>2, <2>3, TotalOfFewer
  <2> QED BY <2>4 DEF E!CountHolds
<1>10. ASSUME NEW t \in E!Threads, E!Release(t) PROVE E!CountHolds'
  <2>1. UNCHANGED <<used, uncounted, written>> /\ E!Unnoted \subseteq E!Unnoted'
    BY <1>10 DEF E!Release, E!counts, E!passes, E!Unnoted, E!TypeOK
  <2>2. E!disk' = E!disk
    BY <2>1 DEF E!disk, E!On
  <2> QED BY <2>1, <2>2, CountOfFewer
<1>11. ASSUME NEW t \in E!Threads, E!Reread(t) PROVE E!CountHolds'
  <2>1. UNCHANGED <<used, uncounted, written>> /\ E!Unnoted \subseteq E!Unnoted'
    BY <1>11 DEF E!Reread, E!counts, E!passes, E!Unnoted, E!TypeOK
  <2>2. E!disk' = E!disk
    BY <2>1 DEF E!disk, E!On
  <2> QED BY <2>1, <2>2, CountOfFewer
<1>12. CASE E!Crash
  <2> QED BY <1>12 DEF E!Crash, E!CountHolds
<1>13. CASE UNCHANGED E!vars
  BY <1>13 DEF E!CountHolds, E!disk, E!On, E!Unnoted, E!vars, E!counts, E!passes, E!history
<1> QED BY <1>1, <1>2, <1>3, <1>4, <1>5, <1>6, <1>7, <1>8, <1>9, <1>10, <1>11, <1>12, <1>13 DEF
   E!Next

\* Whoever is on its way stays so, if only another pass changes.
LEMMA OverStays ==
  ASSUME EvidenceInv, UNCHANGED <<used, effective, rerun, stuck, markedUnder>>,
         \A u \in E!Threads : /\ pass[u].pc \in Coming => pass'[u].pc \in Coming
                              /\ pass[u].pc \in Deleting /\ pass[u].run = 1 =>
                                 pass'[u].pc \in Deleting /\ pass'[u].run = 1
                              /\ pass[u].pc \in {"reread", "due"} => pass'[u].pc \in {"reread", "due"}
  PROVE  OverInv'
<1>1. used' > effective' => rerun' \/ stuck' # {} \/ \E t \in E!Threads : pass'[t].pc \in Coming
  BY DEF EvidenceInv, OverInv
<1>2. rerun' /\ markedUnder' # "other" =>
        \E t \in EvidenceRunners : \/ pass'[t].pc \in Deleting /\ pass'[t].run = 1
                                   \/ pass'[t].pc \in {"reread", "due"}
  BY DEF EvidenceInv, OverInv, E!Threads
<1> QED BY <1>1, <1>2 DEF OverInv

\* Who counts over the limit starts a pass or leaves a mark, and a background thread reads
\* the mark once more (_rerun).
LEMMA OverKeeps ==
  ASSUME EvidenceInv, [E!Next]_(E!vars)
  PROVE  OverInv'
<1> USE EvidenceNames DEF EvidenceInv
<1>1. ASSUME NEW f \in E!Files, E!Save(f) PROVE OverInv'
  <2>1. UNCHANGED <<used, effective, rerun, stuck, markedUnder, pass>>
    BY <1>1 DEF E!Save, E!counts, E!passes, E!history
  <2> QED BY <2>1, OverStays
<1>2. ASSUME NEW f \in E!Files, E!NoteWrite(f) PROVE OverInv'
  <2>1. E!Note(f) /\ UNCHANGED <<effective, stuck, lock>>
    BY <1>2 DEF E!NoteWrite, E!Note
  <2>2. CASE UNCHANGED <<used, rerun, markedUnder, pass>>
    BY <2>1, <2>2, OverStays
  <2>3. CASE used' <= effective /\ used' = used + E!Size(f) /\ used \in Nat /\
               UNCHANGED <<rerun, markedUnder, pass>>
    <3>1. ~ (used' > effective')
      BY <2>1, <2>3 DEF E!TypeOK, EvidenceBounds, E!Size
    <3> QED BY <2>3, <3>1 DEF OverInv
  <2>4. CASE /\ lock # "nobody" /\ UNCHANGED pass /\ rerun' = TRUE
             /\ markedUnder' = IF lock \in EvidenceRunners /\ pass[lock].run = 1 THEN "first_run"
                  ELSE "other"
    <3>1. lock \in EvidenceRunners => pass[lock].pc \in Deleting
      BY DEF LockInv, E!Threads
    <3> QED BY <2>4, <3>1 DEF OverInv
  <2>5. ASSUME NEW t \in EvidenceRunners, pass[t].pc = "idle", OtherPasses(t), pass'[t].pc = "due",
               UNCHANGED <<rerun, markedUnder>>
        PROVE  OverInv'
    <3>1. pass'[t].pc \in Coming /\ t \in E!Threads
      BY <2>5 DEF Coming, E!Threads
    <3>2. pass'[t].pc \in {"reread", "due"}
      BY <2>5
    <3> QED BY <2>5, <3>1, <3>2 DEF OverInv
  <2> QED BY <2>1, <2>2, <2>3, <2>4, <2>5, NoteDoes
<1>3. ASSUME NEW f \in E!Files, E!LinkFails(f) PROVE OverInv'
  <2>1. UNCHANGED <<used, effective, rerun, stuck, markedUnder, pass>>
    BY <1>3 DEF E!LinkFails, E!counts, E!passes, E!history
  <2> QED BY <2>1, OverStays
<1>4. ASSUME NEW i \in E!Incidents, E!StoreRow(i) PROVE OverInv'
  <2>1. UNCHANGED <<used, effective, rerun, stuck, markedUnder, pass>>
    BY <1>4 DEF E!StoreRow, E!counts, E!passes, E!history
  <2> QED BY <2>1, OverStays
<1>5. ASSUME NEW i \in E!Incidents, E!LinkClip(i) PROVE OverInv'
  <2>1. UNCHANGED <<used, effective, rerun, stuck, markedUnder, pass>>
    BY <1>5 DEF E!LinkClip, E!counts, E!passes, E!history
  <2> QED BY <2>1, OverStays
<1>6. ASSUME NEW t \in E!Threads, E!Enter(t) PROVE OverInv'
  <2>1. pass'[t].pc \in Coming /\ rerun' = FALSE
    BY <1>6, PassSteps DEF Coming
  <2> QED BY <2>1 DEF OverInv
<1>7. ASSUME NEW t \in E!Threads, E!Scan(t) PROVE OverInv'
  <2>1. /\ UNCHANGED <<used, effective, rerun, stuck, markedUnder>>
        /\ \A u \in E!Threads \ {t} : pass'[u] = pass[u]
        /\ pass[t].pc = "waiting" /\ pass'[t].pc = "decided"
    BY <1>7, ScanDoes DEF E!Scan, E!counts, OtherPasses
  <2> QED BY <2>1, OverStays DEF Coming, Deleting
<1>8. ASSUME NEW t \in E!Threads, E!Delete(t) PROVE OverInv'
  <2>1. /\ UNCHANGED <<used, effective, rerun, markedUnder>> /\ OtherPasses(t)
        /\ pass[t].pc = "decided" /\ pass'[t].pc = "deleted" /\ pass'[t].run = pass[t].run
    BY <1>8, PassSteps DEF E!Delete, E!counts
  <2>2. pass'[t].pc \in Coming
    BY <2>1 DEF Coming
  <2>3. \A u \in E!Threads :
          /\ pass[u].pc \in Deleting /\ pass[u].run = 1 => pass'[u].pc \in Deleting /\ pass'[u].run = 1
          /\ pass[u].pc \in {"reread", "due"} => pass'[u].pc \in {"reread", "due"}
    BY <2>1 DEF OtherPasses, Deleting
  <2> QED BY <2>1, <2>2, <2>3 DEF OverInv, E!Threads
<1>9. ASSUME NEW t \in E!Threads, E!MarkExpired(t) PROVE OverInv'
  <2>1. /\ UNCHANGED <<rerun, stuck, markedUnder>> /\ OtherPasses(t)
        /\ used' = E!Total(pass[t].files) /\ effective' = pass[t].limit
        /\ pass[t].pc = "deleted" /\ pass'[t].pc = "published" /\ pass'[t].run = pass[t].run
    BY <1>9, PassSteps DEF E!MarkExpired
  <2>2. used' > effective' => stuck' # {}
    <3>1. E!Total(pass[t].files) \in Nat /\ pass[t].limit \in Nat
      BY <2>1, PassOfThread, TotalOfFewer DEF EvidenceBounds
    <3>2. stuck # {} \/ E!Total(pass[t].files) <= pass[t].limit
      BY <2>1 DEF PassInv
    <3> QED BY <2>1, <3>1, <3>2
  <2>3. \A u \in E!Threads :
          /\ pass[u].pc \in Deleting /\ pass[u].run = 1 => pass'[u].pc \in Deleting /\ pass'[u].run = 1
          /\ pass[u].pc \in {"reread", "due"} => pass'[u].pc \in {"reread", "due"}
    BY <2>1 DEF OtherPasses, Deleting
  <2> QED BY <2>1, <2>2, <2>3 DEF OverInv, E!Threads
<1>10. ASSUME NEW t \in E!Threads, E!Release(t) PROVE OverInv'
  <2>1. /\ UNCHANGED <<used, effective, rerun, stuck, markedUnder>> /\ OtherPasses(t)
        /\ pass[t].pc = "published"
    BY <1>10, PassSteps DEF E!Release, E!counts
  <2>2. t \in EvidenceRunners /\ pass[t].run = 1 => pass'[t].pc \in {"reread", "due"}
    BY <1>10, PassSteps
  <2>3. \A u \in E!Threads \ {t} : pass'[u] = pass[u]
    BY <2>1 DEF OtherPasses
  <2>4. used' > effective' => rerun' \/ stuck' # {} \/ \E u \in E!Threads : pass'[u].pc \in Coming
    BY <2>1, <2>3 DEF OverInv, Coming
  <2>5. rerun' /\ markedUnder' # "other" =>
          \E u \in EvidenceRunners : \/ pass'[u].pc \in Deleting /\ pass'[u].run = 1
                                     \/ pass'[u].pc \in {"reread", "due"}
    BY <2>1, <2>2, <2>3 DEF OverInv, Deleting, E!Threads
  <2> QED BY <2>4, <2>5 DEF OverInv
<1>11. ASSUME NEW t \in E!Threads, E!Reread(t) PROVE OverInv'
  <2>1. /\ UNCHANGED <<used, effective, rerun, stuck, markedUnder>> /\ OtherPasses(t)
        /\ pass[t].pc = "reread"
    BY <1>11, PassSteps DEF E!Reread, E!counts
  <2>2. rerun => pass'[t].pc \in {"reread", "due"}
    BY <1>11, PassSteps
  <2>3. \A u \in E!Threads \ {t} : pass'[u] = pass[u]
    BY <2>1 DEF OtherPasses
  <2>4. used' > effective' => rerun' \/ stuck' # {} \/ \E u \in E!Threads : pass'[u].pc \in Coming
    BY <2>1, <2>3 DEF OverInv, Coming
  <2>5. rerun' /\ markedUnder' # "other" =>
          \E u \in EvidenceRunners : \/ pass'[u].pc \in Deleting /\ pass'[u].run = 1
                                     \/ pass'[u].pc \in {"reread", "due"}
    BY <2>1, <2>2, <2>3 DEF OverInv, Deleting, E!Threads
  <2> QED BY <2>4, <2>5 DEF OverInv
<1>12. CASE E!Crash
  <2>1. used' = E!Unknown /\ effective' \in Nat /\ rerun' = FALSE
    BY <1>12 DEF E!Crash, E!Cap, EvidenceBounds
  <2>2. ~ (used' > effective')
    BY <2>1 DEF E!Unknown
  <2> QED BY <2>1, <2>2 DEF OverInv
<1>13. CASE UNCHANGED E!vars
  BY <1>13 DEF OverInv, E!vars, E!counts, E!passes, E!history
<1> QED BY <1>1, <1>2, <1>3, <1>4, <1>5, <1>6, <1>7, <1>8, <1>9, <1>10, <1>11, <1>12, <1>13 DEF
   E!Next

\* Every step.
LEMMA EvidenceNext == EvidenceBounds => (EvidenceInv /\ [E!Next]_(E!vars) => EvidenceInv')
<1> SUFFICES ASSUME EvidenceInv, [E!Next]_(E!vars) PROVE EvidenceInv'
  OBVIOUS
<1>1. EvidenceBounds'
  BY DEF EvidenceInv, EvidenceBounds, E!Threads
<1> QED
  BY <1>1, EvidenceTypes, LockKeeps, PassKeeps, FileKeeps, TakenKeeps, LinksKeep, CountKeeps,
     OverKeeps DEF EvidenceInv

\* What the invariant says of the evidence.
LEMMA EvidenceSafe == EvidenceInv => E!EvidenceSound /\ E!TypeOK
<1> SUFFICES ASSUME EvidenceInv PROVE E!EvidenceSound /\ E!TypeOK
  OBVIOUS
<1>1. E!OverIsFollowed
  <2> SUFFICES ASSUME E!AtRest
               PROVE  /\ used > effective => rerun \/ stuck # {}
                      /\ rerun => markedUnder = "other"
    BY DEF E!OverIsFollowed
  <2>1. \A t \in E!Threads :
          pass[t].pc \notin Coming /\ pass[t].pc \notin Deleting /\ pass[t].pc \notin {"reread", "due"}
    BY DEF E!AtRest, Coming, Deleting
  <2> QED BY <2>1 DEF EvidenceInv, OverInv, E!Threads
<1> QED BY <1>1 DEF EvidenceInv, E!EvidenceSound

\* Rows, count and files agree, a pass takes the still with the clip, and what is over
\* the limit is followed up, for every number of threads (services/evidence_storage.py).
THEOREM EvidenceHolds == EvidenceBounds => (E!Spec => []E!EvidenceSound)
<1> SUFFICES ASSUME EvidenceBounds PROVE E!Spec => []E!EvidenceSound
  OBVIOUS
<1>1. E!Init => EvidenceInv
  BY EvidenceStart
<1>2. EvidenceInv /\ [E!Next]_(E!vars) => EvidenceInv'
  BY EvidenceNext
<1>3. EvidenceInv => E!EvidenceSound
  BY EvidenceSafe
<1> QED BY <1>1, <1>2, <1>3, PTL DEF E!Spec

-------------------------------------------------------------------------------
(* Backups: any migrations, copies and budgets.                             *)

\* The number of elements is the same in the module and here.
LEMMA SameCopyCount == \A X : B!Cardinality(X) = Cardinality(X)
BY DEF B!Cardinality, Cardinality

BackupBounds ==
  /\ LatestMigration \in Nat /\ StartupCopies \in Nat /\ CopiesPerKind \in Nat \ {0}
  /\ CopyBudgets \subseteq Nat
  /\ CopiesMade \in Nat /\ BackupTroubles \in Nat

Migrating(p) == proc[p].pc \in {"locked", "applying"}
Prefixes == {1..n : n \in 0..LatestMigration}

\* A file is of a copy that was made, and only a stop leaves it in both forms.
CopiesInv ==
  /\ \A id \in B!Ids : id <= lastCopy /\ copies[id].kind \in B!Kinds
  /\ \A id \in B!Places : copies[id].forms = {B!Plain, B!Packed} => twice

\* Who migrates has the lock, and has still to apply what the database lacks.  But
\* for a restore under it the database holds what it held, and what is done.
MigrateInv ==
  /\ \A p \in B!Procs : Migrating(p) => upgradeLock = p
  /\ Migrating("server") => proc["server"].pending = B!Versions \ db
  /\ B!ServedIsCurrent
  /\ ~ underway =>
       /\ refused = {} /\ db \in Prefixes /\ \A id \in B!Ids : copies[id].db \in Prefixes
       /\ \A p \in B!Procs : Migrating(p) =>
            /\ proc[p].pending = B!Versions \ db /\ proc[p].from \subseteq db
            /\ proc[p].pc = "locked" => proc[p].from = db

\* The newest copy of its kind that is there stays after a pass.
Lasting(id) == id \in B!Ids /\ (sweep.pc = "dropping" => \E f \in B!Entries : f.id = id /\ f \notin sweep.todo)
NewestOf(id, sort) == \A other \in B!Ids : copies[other].kind = sort => other <= id

UpgradeInv ==
  \A p \in B!Procs : proc[p].pc = "applying" =>
    /\ ~ underway /\ proc[p].copied = 0 => (B!Versions \ proc[p].from) \cap LargerMigrations = {}
    /\ proc[p].copied # 0 =>
         /\ NewestOf(proc[p].copied, "pre-v") /\ proc[p].copied <= lastCopy
         /\ proc[p].copied \in B!Ids => copies[proc[p].copied].kind = "pre-v"
         /\ \/ B!Squeezed(proc[p].copied, CopyBudgets)
            \/ Lasting(proc[p].copied) /\ (underway \/ copies[proc[p].copied].db = proc[p].from)

SafetyInv ==
  restore.pc \in {"secured", "restarting"} =>
    /\ restore.safety \in 1..lastCopy /\ NewestOf(restore.safety, "pre-restore")
    /\ restore.safety \in B!Ids => /\ copies[restore.safety].kind = "pre-restore"
                                   /\ copies[restore.safety].forms # {B!Plain, B!Packed}
    /\ \/ Lasting(restore.safety)
       \/ B!Squeezed(restore.safety, IF lastCopy > restore.safety THEN CopyBudgets ELSE 0..3)

\* What a pass has seen is there until it is dropped, and so is the newest.
SweepInv ==
  /\ sweep.pc \in {"dropping", "zipping"} =>
       sweep.newest \in B!Entries /\ sweep.newest \notin sweep.todo
  /\ sweep.pc = "dropping" =>
       /\ sweep.todo \subseteq sweep.seen /\ sweep.seen \subseteq B!Entries
       /\ \A f \in sweep.todo :
            B!Cardinality({g \in B!OfKind(sweep.seen, f.kind) : B!Newer(g, f)}) >= B!KeepOf(f.kind)
  /\ sweep.pc = "zipping" => sweep.todo \subseteq {f \in B!Entries : f.form = B!Plain}

BackupInv ==
  /\ BackupBounds /\ B!TypeOK /\ CopiesInv /\ MigrateInv /\ UpgradeInv /\ SafetyInv /\ SweepInv
  /\ B!LastStays /\ B!KeptOfKind

CopyType == [kind : B!Kinds \cup {"none"}, db : SUBSET B!Versions, forms : SUBSET {B!Plain, B!Packed}]
ProcType == [pc : {"down", "waiting", "locked", "applying", "serving"},
             pending : SUBSET B!Versions, from : SUBSET B!Versions, copied : 0..CopiesMade]
SweepType == [pc : {"idle", "scanning", "dropping", "zipping"}, seen : SUBSET B!FileType,
              newest : B!FileType, todo : SUBSET B!FileType]
RestoreType == [pc : {"idle", "looked_at", "secured", "restarting"},
  file : B!FileType, safety : 0..CopiesMade]

\* Forms, processes and places are told apart.
LEMMA BackupNames ==
  BackupBounds =>
    /\ B!Plain \in {B!Plain, B!Packed} /\ B!Packed \in {B!Plain, B!Packed} /\ B!Plain # B!Packed
    /\ "server" \in B!Procs /\ "cli" \in B!Procs /\ "nobody" \notin B!Procs
    /\ 0 \notin B!Places /\ B!Places \subseteq Nat /\ 0 \in 0..CopiesMade
    /\ B!Places \subseteq 0..CopiesMade
BY DEF BackupBounds, B!Plain, B!Packed, B!Procs, B!Places

Typed == BackupBounds /\ B!TypeOK

\* The files that are there are those of the copies.
EntryFacts ==
  /\ \A id \in B!Places : \A form \in copies[id].forms : B!File(id, form) \in B!Entries
  /\ \A f \in B!Entries : /\ f.id \in B!Ids /\ f.id \in B!Places /\ f.form \in copies[f.id].forms
                          /\ f.kind = copies[f.id].kind /\ f = B!File(f.id, f.form)
                          /\ f \in B!FileType
                          /\ f.form \in {B!Plain, B!Packed}
  /\ \A id \in B!Ids : \E f \in B!Entries : f.id = id
  /\ \A id, form : B!File(id, form).id = id /\ B!File(id, form).form = form /\
       B!File(id, form).kind = copies[id].kind

\* What a file is of, by the type invariant.
LEMMA EntryIs == Typed => EntryFacts
<1> SUFFICES ASSUME BackupBounds, B!TypeOK PROVE EntryFacts
  BY DEF Typed
<1> USE BackupNames
<1>0. copies \in [B!Places -> CopyType]
  BY DEF B!TypeOK, CopyType
<1>1. \A id, form : B!File(id, form).id = id /\ B!File(id, form).form = form /\
        B!File(id, form).kind = copies[id].kind
  BY DEF B!File
<1>2. \A id \in B!Places :
        copies[id].forms \subseteq {B!Plain, B!Packed} /\ copies[id].kind \in B!Kinds \cup {"none"}
  BY <1>0 DEF CopyType
<1>3. \A id \in B!Places : \A form \in copies[id].forms : B!File(id, form) \in B!Entries
  BY <1>1, <1>2 DEF B!Entries
<1>4. \A f \in B!Entries :
        /\ f.id \in B!Places /\ f.form \in copies[f.id].forms /\ f.kind = copies[f.id].kind
                           /\ f = B!File(f.id, f.form) /\ f.form \in {B!Plain, B!Packed}
  <2> SUFFICES ASSUME NEW f \in B!Entries
               PROVE  /\ f.id \in B!Places /\ f.form \in copies[f.id].forms /\ f.kind = copies[f.id].kind
                      /\ f = B!File(f.id, f.form) /\ f.form \in {B!Plain, B!Packed}
    OBVIOUS
  <2>1. PICK id \in B!Places, form \in {B!Plain, B!Packed} :
          f = B!File(id, form) /\ f.form \in copies[f.id].forms
    BY DEF B!Entries
  <2> QED BY <1>1, <2>1
<1>5. \A id \in B!Places, form \in {B!Plain, B!Packed} : B!File(id, form) \in B!FileType
  BY <1>2 DEF B!File, B!FileType
<1>6. \A f \in B!Entries : f.id \in B!Ids /\ f \in B!FileType
  BY <1>4, <1>5 DEF B!Ids
<1>7. \A id \in B!Ids : \E f \in B!Entries : f.id = id
  BY <1>1, <1>3 DEF B!Ids
<1> QED BY <1>1, <1>3, <1>4, <1>6, <1>7 DEF EntryFacts

\* The same after a step.
LEMMA EntryNext == Typed' => EntryFacts'
BY EntryIs, PTL

\* The only copy a step makes is the next one, of the database there is; all others
\* keep their kind and what they hold.
CopyAdded(sort) ==
  /\ lastCopy' = lastCopy + 1 /\ lastCopy' \in B!Places /\ lastCopy' \notin B!Ids
  /\ B!Ids' = B!Ids \cup {lastCopy'}
  /\ copies'[lastCopy'].kind = sort /\ copies'[lastCopy'].db = db
  /\ copies'[lastCopy'].forms = {B!Plain}
  /\ \A id \in B!Places \ {lastCopy'} : copies'[id] = copies[id]
SameKinds ==
  \A id \in B!Ids' :
    id \in B!Ids /\ copies'[id].kind = copies[id].kind /\ copies'[id].db = copies[id].db

\* A new copy (create_backup).
LEMMA CopyDoes ==
  ASSUME Typed, CopiesInv, NEW sort \in B!Kinds, B!Copy(sort)
  PROVE  CopyAdded(sort) /\ copies' \in [B!Places -> CopyType] /\ lastCopy' \in 0..CopiesMade
<1> DEFINE new == [kind |-> sort, db |-> db, forms |-> {B!Plain}]
<1>1. /\ lastCopy \in Nat /\ lastCopy' = lastCopy + 1 /\ lastCopy' \in B!Places
      /\ copies \in [B!Places -> CopyType]
  BY DEF Typed, BackupBounds, B!TypeOK, CopyType, B!Copy, B!Places
<1>2. copies' = [copies EXCEPT ![lastCopy'] = new]
  BY DEF B!Copy
<1>3. new \in CopyType /\ new.kind = sort /\ new.db = db /\ new.forms = {B!Plain}
  BY DEF CopyType, Typed, B!TypeOK
<1> HIDE DEF new
<1>4. copies'[lastCopy'] = new /\ \A id \in B!Places \ {lastCopy'} : copies'[id] = copies[id]
  BY <1>1, <1>2
<1>5. lastCopy' \notin B!Ids
  BY <1>1 DEF CopiesInv
<1>6. B!Ids' = B!Ids \cup {lastCopy'}
  BY <1>1, <1>3, <1>4 DEF B!Ids
<1>7. copies' \in [B!Places -> CopyType] /\ lastCopy' \in 0..CopiesMade
  BY <1>1, <1>2, <1>3 DEF B!Places, Typed, BackupBounds
<1> QED BY <1>1, <1>3, <1>4, <1>5, <1>6, <1>7 DEF CopyAdded

\* Files are deleted: what is left is of the copies there were.
LEMMA WithoutDoes ==
  ASSUME Typed, NEW deleted, copies' = B!Without(deleted)
  PROVE  /\ copies' \in [B!Places -> CopyType] /\ SameKinds /\ B!Ids' \subseteq B!Ids
         /\ \A id \in B!Places : copies'[id].forms \subseteq copies[id].forms
         /\ \A f \in B!Entries : f \notin deleted => f \in B!Entries' /\ f.id \in B!Ids'
         /\ B!Entries' \subseteq B!Entries \ deleted
<1> USE BackupNames DEF Typed
<1>1. EntryFacts /\ copies \in [B!Places -> CopyType]
  BY EntryIs DEF B!TypeOK, CopyType
<1>2. \A id \in B!Places : B!Left(id, deleted) \subseteq copies[id].forms
  BY DEF B!Left
<1>3. \A id \in B!Places : /\ copies'[id].forms = B!Left(id, deleted)
                           /\ B!Left(id, deleted) # {} =>
                                copies'[id].kind = copies[id].kind /\ copies'[id].db = copies[id].db
  <2> SUFFICES ASSUME NEW id \in B!Places
               PROVE  /\ copies'[id].forms = B!Left(id, deleted)
                      /\ B!Left(id, deleted) # {} =>
                           copies'[id].kind = copies[id].kind /\ copies'[id].db = copies[id].db
    OBVIOUS
  <2>1. CASE B!Left(id, deleted) = {}
    BY <2>1 DEF B!Without, B!NoCopy
  <2>2. CASE B!Left(id, deleted) # {}
    <3>1. copies'[id] = [kind |-> copies[id].kind, db |-> copies[id].db, forms |-> B!Left(id, deleted)]
      BY <2>2 DEF B!Without
    <3> QED BY <3>1
  <2> QED BY <2>1, <2>2
<1>4. copies' \in [B!Places -> CopyType]
  <2>1. B!NoCopy \in CopyType
    BY DEF B!NoCopy, CopyType
  <2>2. \A id \in B!Places :
          [kind |-> copies[id].kind, db |-> copies[id].db, forms |-> B!Left(id, deleted)] \in CopyType
    BY <1>1, <1>2 DEF CopyType
  <2> QED BY <2>1, <2>2 DEF B!Without
<1>5. B!Ids' \subseteq B!Ids /\ SameKinds
  BY <1>2, <1>3 DEF B!Ids, SameKinds
<1>6. \A id \in B!Places, form \in {B!Plain, B!Packed} :
        copies'[id].forms # {} => B!File(id, form)' = B!File(id, form)
  BY <1>3 DEF B!File
<1>7. \A f \in B!Entries : f \notin deleted => f \in B!Entries' /\ f.id \in B!Ids'
  <2> SUFFICES ASSUME NEW f \in B!Entries, f \notin deleted PROVE f \in B!Entries' /\ f.id \in B!Ids'
    OBVIOUS
  <2>1. /\ f.id \in B!Places /\ f.form \in {B!Plain, B!Packed} /\ f.form \in copies[f.id].forms
        /\ f = B!File(f.id, f.form)
    BY <1>1 DEF EntryFacts
  <2>2. f.form \in copies'[f.id].forms
    BY <1>3, <2>1 DEF B!Left
  <2>3. f = B!File(f.id, f.form)'
    BY <1>6, <2>1, <2>2
  <2>4. f.id \in B!Ids'
    BY <2>1, <2>2 DEF B!Ids
  <2> QED BY <2>1, <2>2, <2>3, <2>4 DEF B!Entries
<1>8. B!Entries' \subseteq B!Entries \ deleted
  <2> SUFFICES ASSUME NEW f \in B!Entries' PROVE f \in B!Entries /\ f \notin deleted
    OBVIOUS
  <2>1. PICK id \in B!Places, form \in {B!Plain, B!Packed} :
          f = B!File(id, form)' /\ f.form \in copies'[f.id].forms
    BY DEF B!Entries
  <2>2. f.id = id /\ f.form = form
    BY <2>1 DEF B!File
  <2>3. f = B!File(id, form) /\ form \in B!Left(id, deleted)
    BY <1>3, <1>6, <2>1, <2>2
  <2>4. B!File(id, form) \notin deleted /\ form \in copies[id].forms
    BY <2>3 DEF B!Left
  <2> QED BY <1>1, <2>3, <2>4 DEF EntryFacts
<1> QED BY <1>2, <1>3, <1>4, <1>5, <1>7, <1>8

\* A copy gets other files (compression).
LEMMA FormsDo ==
  ASSUME Typed, NEW f \in B!Entries, NEW forms \in SUBSET {B!Plain, B!Packed}, forms # {},
         copies' = B!WithForms(f.id, forms)
  PROVE  /\ copies' \in [B!Places -> CopyType] /\ SameKinds /\ B!Ids' = B!Ids
         /\ copies'[f.id].forms = forms /\ \A id \in B!Places \ {f.id} : copies'[id] = copies[id]
         /\ \A g \in B!Entries : g.id # f.id \/ g.form \in forms => g \in B!Entries'
<1> USE BackupNames DEF Typed
<1>1. EntryFacts /\ copies \in [B!Places -> CopyType] /\ f.id \in B!Places
  BY EntryIs DEF B!TypeOK, CopyType, EntryFacts
<1>2. /\ copies'[f.id].forms = forms /\ copies'[f.id].kind = copies[f.id].kind
      /\ copies'[f.id].db = copies[f.id].db
      /\ \A id \in B!Places \ {f.id} : copies'[id] = copies[id]
  BY <1>1 DEF B!WithForms, CopyType
<1>3. copies' \in [B!Places -> CopyType]
  BY <1>1 DEF B!WithForms, CopyType
<1>4. B!Ids' = B!Ids /\ SameKinds
  BY <1>1, <1>2 DEF B!Ids, SameKinds, EntryFacts
<1>5. \A id \in B!Places, form \in {B!Plain, B!Packed} : B!File(id, form)' = B!File(id, form)
  BY <1>1, <1>2 DEF B!File
<1>6. ASSUME NEW g \in B!Entries, g.id # f.id \/ g.form \in forms PROVE g \in B!Entries'
  <2>1. /\ g.id \in B!Places /\ g.form \in {B!Plain, B!Packed} /\ g.form \in copies[g.id].forms
        /\ g = B!File(g.id, g.form)
    BY <1>1 DEF EntryFacts
  <2>2. g.form \in copies'[g.id].forms /\ g = B!File(g.id, g.form)'
    BY <1>2, <1>5, <1>6, <2>1
  <2> QED BY <2>1, <2>2 DEF B!Entries
<1> QED BY <1>2, <1>3, <1>4, <1>6

\* What is added is one more file.
LEMMA AddedEntry ==
  ASSUME Typed, CopiesInv, NEW sort \in B!Kinds, CopyAdded(sort)
  PROVE  /\ B!Entries \subseteq B!Entries' /\ \A f \in B!Entries' : f \in B!Entries \/ f.id = lastCopy'
         /\ \E f \in B!Entries' : f.id = lastCopy'
<1> USE BackupNames DEF Typed
<1>1. EntryFacts
  BY EntryIs
<1>2. \A id \in B!Places \ {lastCopy'}, form \in {B!Plain, B!Packed} :
        B!File(id, form)' = B!File(id, form)
  BY DEF B!File, CopyAdded
<1>3. ASSUME NEW f \in B!Entries PROVE f \in B!Entries'
  <2>1. /\ f.id \in B!Places /\ f.form \in {B!Plain, B!Packed} /\ f.form \in copies[f.id].forms
        /\ f = B!File(f.id, f.form) /\ f.id \in B!Ids
    BY <1>1 DEF EntryFacts
  <2>2. f.id # lastCopy' /\ copies'[f.id] = copies[f.id]
    BY <2>1 DEF CopyAdded
  <2>3. f = B!File(f.id, f.form)' /\ f.form \in copies'[f.id].forms
    BY <1>2, <2>1, <2>2
  <2> QED BY <2>1, <2>3 DEF B!Entries
<1>4. ASSUME NEW f \in B!Entries', f.id # lastCopy' PROVE f \in B!Entries
  <2>1. PICK id \in B!Places, form \in {B!Plain, B!Packed} :
          f = B!File(id, form)' /\ f.form \in copies'[f.id].forms
    BY DEF B!Entries
  <2>2. f.id = id /\ f.form = form
    BY <2>1 DEF B!File
  <2>3. f = B!File(id, form) /\ form \in copies[id].forms
    BY <1>2, <1>4, <2>1, <2>2 DEF CopyAdded
  <2> QED BY <1>1, <2>1, <2>3 DEF EntryFacts
<1>5. \E f \in B!Entries' : f.id = lastCopy'
  <2>0. PICK n \in B!Places : n = lastCopy'
    BY DEF CopyAdded
  <2>1. B!File(n, B!Plain)'.id = n /\ B!File(n, B!Plain)'.form = B!Plain
    BY DEF B!File
  <2>2. B!Plain \in copies'[n].forms
    BY <2>0 DEF CopyAdded
  <2>3. B!File(n, B!Plain)' \in B!Entries'
    BY <2>1, <2>2 DEF B!Entries
  <2> QED BY <2>0, <2>1, <2>3
<1> QED BY <1>3, <1>4, <1>5

\* There are finitely many files.
LEMMA EntriesFinite ==
  ASSUME Typed
  PROVE IsFiniteSet(B!Entries) /\ \A X \in SUBSET B!Entries : IsFiniteSet(X) /\ B!Cardinality(X) \in Nat
<1> DEFINE Y == B!Places \X {B!Plain, B!Packed}
           name == [f \in B!Entries |-> <<f.id, f.form>>]
<1>1. IsFiniteSet(B!Places) /\ IsFiniteSet({B!Plain, B!Packed})
  <2>1. IsFiniteSet(B!Places)
    BY FS_Interval DEF Typed, BackupBounds, B!Places
  <2>2. {B!Plain, B!Packed} = {B!Plain} \cup {B!Packed}
    OBVIOUS
  <2>3. IsFiniteSet({B!Plain} \cup {B!Packed})
    BY SameCopyCount, FS_Singleton, FS_AddElement
  <2> QED BY <2>1, <2>2, <2>3
<1>2. IsFiniteSet(Y)
  BY <1>1, FS_Product
<1>3. EntryFacts
  BY EntryIs
<1>4. name \in Injection(B!Entries, Y)
  <2>1. name \in [B!Entries -> Y]
    BY <1>3 DEF EntryFacts
  <2>2. ASSUME NEW f \in B!Entries, NEW g \in B!Entries, name[f] = name[g] PROVE f = g
    <3>1. f.id = g.id /\ f.form = g.form
      BY <2>2
    <3> QED BY <1>3, <3>1 DEF EntryFacts
  <2> QED BY <2>1, <2>2 DEF Injection, IsInjective
<1>5. IsFiniteSet(B!Entries)
  <2> HIDE DEF Y, name
  <2> QED BY <1>2, <1>4, SameCopyCount, FS_Injection
<1> QED BY <1>5, SameCopyCount, FS_Subset, FS_CardinalityType

\* What a step does to who upgrades: only one of them changes.
Others(p) == proc' \in [B!Procs -> ProcType] /\ \A q \in B!Procs \ {p} : proc'[q] = proc[q]
Gone(p) == /\ Others(p) /\ proc'[p] = B!Down
           /\ upgradeLock' = (IF upgradeLock = p THEN "nobody" ELSE upgradeLock)
Goes(p, copied) ==
  /\ Others(p) /\ UNCHANGED upgradeLock /\ proc'[p].pc = "applying"
  /\ proc'[p].pending = proc[p].pending
  /\ proc'[p].from = proc[p].from /\ proc'[p].copied = copied

\* The steps of an upgrade (migrations/runner.py).
LEMMA ProcSteps ==
  ASSUME Typed, NEW p \in B!Procs
  PROVE  /\ B!Leave(p) => Gone(p)
         /\ \A copied \in 0..CopiesMade : B!GoOn(p, copied) => Goes(p, copied)
         /\ B!Begin(p) => Others(p) /\ proc'[p].pc = "waiting"
         /\ B!Enter(p) => /\ Others(p) /\ proc'[p].pc = "locked" /\ proc'[p].pending = B!Pending
                          /\ proc'[p].from = db
         /\ B!Finish(p) => /\ Others(p) /\ proc'[p].pc \in {"down", "serving"}
                           /\ proc[p].pc = "applying" /\ proc[p].pending = {}
                           /\ upgradeLock' = (IF upgradeLock = p THEN "nobody" ELSE upgradeLock)
<1> USE BackupNames DEF Typed
<1>1. proc \in [B!Procs -> ProcType]
  BY DEF B!TypeOK, ProcType
<1>2. ASSUME NEW new \in ProcType, proc' = [proc EXCEPT ![p] = new] PROVE Others(p) /\ proc'[p] = new
  BY <1>1, <1>2 DEF Others
<1>3. B!Down \in ProcType
  BY DEF B!Down, ProcType
<1>4. B!Leave(p) => Gone(p)
  BY <1>2, <1>3 DEF B!Leave, Gone
<1>5. ASSUME NEW copied \in 0..CopiesMade, B!GoOn(p, copied) PROVE Goes(p, copied)
  <2> DEFINE new == [pc |-> "applying", pending |-> proc[p].pending, from |-> proc[p].from, copied |-> copied]
  <2>1. /\ new \in ProcType /\ new.pc = "applying" /\ new.pending = proc[p].pending
        /\ new.from = proc[p].from /\ new.copied = copied
    BY <1>1 DEF ProcType
  <2>2. proc' = [proc EXCEPT ![p] = new] /\ UNCHANGED upgradeLock
    BY <1>1, <1>5 DEF B!GoOn
  <2> HIDE DEF new
  <2> QED BY <1>2, <2>1, <2>2 DEF Goes
<1>6. ASSUME B!Begin(p) PROVE Others(p) /\ proc'[p].pc = "waiting"
  BY <1>1, <1>6 DEF B!Begin, Others, ProcType
<1>7. ASSUME B!Enter(p)
      PROVE  Others(p) /\ proc'[p].pc = "locked" /\ proc'[p].pending = B!Pending /\ proc'[p].from = db
  <2> DEFINE new == [pc |-> "locked", pending |-> B!Pending, from |-> db, copied |-> 0]
  <2>1. new \in ProcType /\ new.pc = "locked" /\ new.pending = B!Pending /\ new.from = db
    BY DEF ProcType, B!Pending, B!TypeOK
  <2>2. proc' = [proc EXCEPT ![p] = new]
    BY <1>7 DEF B!Enter
  <2> HIDE DEF new
  <2> QED BY <1>2, <2>1, <2>2
<1>8. ASSUME B!Finish(p)
      PROVE  /\ Others(p) /\ proc'[p].pc \in {"down", "serving"}
             /\ proc[p].pc = "applying" /\ proc[p].pending = {}
             /\ upgradeLock' = (IF upgradeLock = p THEN "nobody" ELSE upgradeLock)
  <2> DEFINE served == [pc |-> "serving", pending |-> {}, from |-> {}, copied |-> proc[p].copied]
             new == IF p = "cli" THEN B!Down ELSE served
  <2>1. served \in ProcType /\ served.pc = "serving" /\ B!Down.pc = "down"
    BY <1>1 DEF ProcType, B!Down
  <2>2. /\ proc' = [proc EXCEPT ![p] = new] /\ proc[p].pc = "applying" /\ proc[p].pending = {}
        /\ upgradeLock' = (IF upgradeLock = p THEN "nobody" ELSE upgradeLock)
    BY <1>1, <1>8 DEF B!Finish
  <2> HIDE DEF served
  <2>3. new \in ProcType /\ new.pc \in {"down", "serving"}
    BY <1>3, <2>1
  <2> HIDE DEF new
  <2> QED BY <1>2, <2>2, <2>3
<1> QED BY <1>4, <1>5, <1>6, <1>7, <1>8

\* What a step does to the files.
FilesStay == UNCHANGED <<copies, lastCopy>>
FilesMove ==
  /\ lastCopy' \in 0..CopiesMade /\ lastCopy <= lastCopy' /\ lastCopy' <= lastCopy + 1
  /\ \A id \in B!Ids' :
       \/ id \in B!Ids /\ copies'[id].kind = copies[id].kind /\ copies'[id].db = copies[id].db
       \/ /\ id = lastCopy' /\ lastCopy' = lastCopy + 1 /\ copies'[id].db = db
          /\ copies'[id].kind \in B!Kinds
          /\ copies'[id].forms = {B!Plain}

\* What the untouched copies keep.
LEMMA StillThere ==
  ASSUME FilesStay PROVE B!Ids' = B!Ids /\ B!Entries' = B!Entries
BY DEF FilesStay, B!Ids, B!Entries, B!File

\* The steps of a pass, each with what it does to the files.
LEMMA SweepSteps ==
  ASSUME Typed, CopiesInv, SweepInv
  PROVE  /\ B!Scan =>
              /\ FilesStay
              /\ \/ sweep' = B!NoPass
                 \/ \E newest \in B!Entries, daily \in SUBSET B!OfKind(B!Entries, "auto") :
                      /\ sweep'.pc = "dropping" /\ sweep'.seen = B!Entries
                      /\ sweep'.newest = newest
                      /\ sweep'.todo = B!Entries \ (B!Kept(B!Entries) \cup daily \cup {newest})
                      /\ sweep' \in SweepType
         /\ B!Drop =>
              /\ sweep'.pc = "zipping" /\ sweep'.newest = sweep.newest
              /\ sweep'.newest \notin sweep'.todo
              /\ sweep'.todo \subseteq {f \in sweep.seen \ sweep.todo : f.form = B!Plain}
              /\ sweep' \in SweepType
         /\ B!ZipOne =>
              \E f \in sweep.todo :
                /\ f \in B!Entries /\ f.form = B!Plain /\ copies' = B!WithForms(f.id, {B!Packed})
                                    /\ sweep'.pc = "zipping" /\ sweep'.newest = sweep.newest
                                    /\ sweep'.todo = sweep.todo \ {f} /\ sweep' \in SweepType
<1> USE BackupNames DEF Typed
<1>1. sweep \in SweepType /\ EntryFacts
  BY EntryIs DEF B!TypeOK, SweepType
<1>2. B!Entries \subseteq B!FileType
  BY <1>1 DEF EntryFacts
<1>3. ASSUME B!Scan
      PROVE  /\ FilesStay
             /\ \/ sweep' = B!NoPass
                \/ \E newest \in B!Entries, daily \in SUBSET B!OfKind(B!Entries, "auto") :
                     /\ sweep'.pc = "dropping" /\ sweep'.seen = B!Entries
                     /\ sweep'.newest = newest
                     /\ sweep'.todo = B!Entries \ (B!Kept(B!Entries) \cup daily \cup {newest})
                     /\ sweep' \in SweepType
  <2>1. FilesStay
    BY <1>3 DEF B!Scan, FilesStay, B!files
  <2>2. CASE B!Entries = {}
    BY <1>3, <2>1, <2>2 DEF B!Scan
  <2>3. CASE B!Entries # {}
    <3>1. PICK newest \in B!Newest(B!Entries, 1), daily \in SUBSET B!OfKind(B!Entries, "auto") :
            sweep' = [pc |-> "dropping", seen |-> B!Entries, newest |-> newest,
                     todo |-> B!Entries \ (B!Kept(B!Entries) \cup daily \cup {newest})]
      BY <1>3, <2>3 DEF B!Scan
    <3> DEFINE unzipped == B!Entries \ (B!Kept(B!Entries) \cup daily \cup {newest})
    <3>2. newest \in B!Entries /\ unzipped \subseteq B!Entries
      BY DEF B!Newest
    <3> HIDE DEF unzipped
    <3>3. sweep' = [pc |-> "dropping", seen |-> B!Entries, newest |-> newest, todo |-> unzipped]
      BY <3>1 DEF unzipped
    <3>4. /\ sweep' \in SweepType /\ sweep'.pc = "dropping" /\ sweep'.seen = B!Entries
          /\ sweep'.newest = newest /\ sweep'.todo = unzipped
      BY <1>2, <3>2, <3>3 DEF SweepType
    <3> QED BY <2>1, <3>2, <3>4 DEF unzipped
  <2> QED BY <2>2, <2>3
<1>4. ASSUME B!Drop
      PROVE  /\ sweep'.pc = "zipping" /\ sweep'.newest = sweep.newest /\ sweep'.newest \notin sweep'.todo
             /\ sweep'.todo \subseteq {f \in sweep.seen \ sweep.todo : f.form = B!Plain}
             /\ sweep' \in SweepType
  <2> DEFINE left == sweep.seen \ sweep.todo
             plain == {sweep.newest} \cup B!Newest(B!OfKind(left, "pre-v"), 1)
             unzipped == {f \in left : f.form = B!Plain} \ plain
  <2>1. sweep' = [sweep EXCEPT !.pc = "zipping", !.todo = unzipped]
    BY <1>4 DEF B!Drop
  <2>2. /\ sweep.newest \notin unzipped /\ unzipped \subseteq {f \in left : f.form = B!Plain}
        /\ unzipped \subseteq sweep.seen
    OBVIOUS
  <2> HIDE DEF unzipped
  <2>3. /\ sweep'.pc = "zipping" /\ sweep'.newest = sweep.newest /\ sweep'.todo = unzipped
        /\ sweep' \in SweepType
    BY <1>1, <2>1, <2>2 DEF SweepType
  <2> QED BY <2>2, <2>3
<1>5. ASSUME B!ZipOne
      PROVE  \E f \in sweep.todo :
        /\ f \in B!Entries /\ f.form = B!Plain /\ copies' = B!WithForms(f.id, {B!Packed})
                                   /\ sweep'.pc = "zipping" /\ sweep'.newest = sweep.newest
                                   /\ sweep'.todo = sweep.todo \ {f} /\ sweep' \in SweepType
  <2>1. PICK f \in B!Newest(sweep.todo, 1) :
          copies' = B!WithForms(f.id, {B!Packed}) /\ sweep' = [sweep EXCEPT !.todo = @ \ {f}]
    BY <1>5 DEF B!ZipOne
  <2>2. f \in sweep.todo /\ f \in B!Entries /\ f.form = B!Plain /\ sweep.pc = "zipping"
    BY <1>5 DEF B!Newest, SweepInv, B!ZipOne
  <2>3. /\ sweep'.pc = "zipping" /\ sweep'.newest = sweep.newest /\ sweep'.todo = sweep.todo \ {f}
        /\ sweep' \in SweepType
    BY <1>1, <2>1, <2>2 DEF SweepType
  <2> QED BY <2>1, <2>2, <2>3
<1> QED BY <1>3, <1>4, <1>5

\* No copy, nobody upgrades.
LEMMA BackupStart == BackupBounds => (B!Init => BackupInv)
<1> SUFFICES ASSUME BackupBounds, B!Init PROVE BackupInv
  OBVIOUS
<1> USE BackupNames DEF B!Init
<1>1. B!TypeOK
  <2>1. B!NoCopy \in CopyType /\ B!Down \in ProcType
    BY DEF B!NoCopy, CopyType, B!Down, ProcType
  <2>2. B!NoFile \in B!FileType
    BY DEF B!NoFile, B!FileType
  <2>3. B!NoPass \in SweepType /\ B!NoRestore \in RestoreType
    BY <2>2 DEF B!NoPass, B!NoRestore, SweepType, RestoreType
  <2>4. copies \in [B!Places -> CopyType] /\ proc \in [B!Procs -> ProcType]
    BY <2>1
  <2>5. lastCopy \in 0..CopiesMade /\ backupTroubles \in 0..BackupTroubles
    BY DEF BackupBounds
  <2> QED BY <2>3, <2>4, <2>5 DEF B!TypeOK, CopyType, ProcType, SweepType, RestoreType
<1>2. B!Ids = {}
  BY DEF B!Ids, B!NoCopy
<1>3. \A p \in B!Procs : proc[p].pc = "down"
  BY DEF B!Down
<1>4. CopiesInv
  BY <1>2 DEF CopiesInv, B!NoCopy
<1>5. MigrateInv
  <2>1. db = 1..0 /\ 0 \in 0..LatestMigration
    BY DEF BackupBounds
  <2>2. db \in Prefixes
    BY <2>1 DEF Prefixes
  <2>3. B!ServedIsCurrent
    BY <1>3 DEF B!ServedIsCurrent, B!Serving
  <2> QED BY <1>2, <1>3, <2>2, <2>3 DEF MigrateInv, Migrating
<1>6. UpgradeInv /\ SafetyInv /\ SweepInv
  BY <1>3 DEF UpgradeInv, SafetyInv, SweepInv, B!NoPass, B!NoRestore
<1> QED BY <1>1, <1>4, <1>5, <1>6 DEF BackupInv, B!LastStays, B!KeptOfKind

\* What any step does to the copies.
LEMMA FilesMoved ==
  ASSUME Typed, CopiesInv, SweepInv, [B!Next]_(B!vars)
  PROVE  FilesMove /\ copies' \in [B!Places -> CopyType]
<1> USE BackupNames DEF Typed
<1>0. copies \in [B!Places -> CopyType] /\ lastCopy \in 0..CopiesMade /\ lastCopy \in Nat
  BY DEF B!TypeOK, CopyType, BackupBounds
<1>1. ASSUME FilesStay PROVE FilesMove /\ copies' \in [B!Places -> CopyType]
  BY <1>0, <1>1, StillThere DEF FilesStay, FilesMove
<1>2. ASSUME NEW sort \in B!Kinds, B!Copy(sort) PROVE FilesMove /\ copies' \in [B!Places -> CopyType]
  <2>1. CopyAdded(sort) /\ copies' \in [B!Places -> CopyType] /\ lastCopy' \in 0..CopiesMade
    BY <1>2, CopyDoes
  <2>2. lastCopy' = lastCopy + 1 /\ lastCopy <= lastCopy' /\ lastCopy' <= lastCopy + 1
    BY <1>0, <2>1 DEF CopyAdded
  <2>3. ASSUME NEW id \in B!Ids, id # lastCopy' PROVE copies'[id] = copies[id]
    BY <2>1, <2>3 DEF CopyAdded, B!Ids
  <2>4. /\ B!Ids' = B!Ids \cup {lastCopy'} /\ copies'[lastCopy'].kind \in B!Kinds
        /\ copies'[lastCopy'].db = db
        /\ copies'[lastCopy'].forms = {B!Plain}
    BY <2>1 DEF CopyAdded
  <2> QED BY <2>1, <2>2, <2>3, <2>4 DEF FilesMove
<1>3. ASSUME UNCHANGED lastCopy, SameKinds PROVE FilesMove
  BY <1>0, <1>3 DEF FilesMove, SameKinds
<1>4. ASSUME NEW deleted, copies' = B!Without(deleted), UNCHANGED lastCopy
      PROVE FilesMove /\ copies' \in [B!Places -> CopyType]
  BY <1>3, <1>4, WithoutDoes
<1>5. ASSUME NEW f \in B!Entries, NEW forms \in SUBSET {B!Plain, B!Packed}, forms # {},
             copies' = B!WithForms(f.id, forms), UNCHANGED lastCopy
      PROVE  FilesMove /\ copies' \in [B!Places -> CopyType]
  BY <1>3, <1>5, FormsDo
<1>6. {"auto", "pre-v", "manual", "pre-restore"} = B!Kinds
  BY DEF B!Kinds
<1>7. CASE B!MarkerAges \/ B!Choose \/ B!Put \/ B!Scan \/ UNCHANGED B!vars
  BY <1>1, <1>7 DEF B!MarkerAges, B!Choose, B!Put, B!Scan, B!vars, B!files, FilesStay
<1>8. CASE B!Manual
  BY <1>2, <1>6, <1>8 DEF B!Manual
<1>9. CASE B!Night
  BY <1>1, <1>2, <1>6, <1>9 DEF B!Night, B!files, FilesStay
<1>10. CASE B!Secure
  BY <1>1, <1>2, <1>6, <1>10 DEF B!Secure, B!files, FilesStay
<1>11. CASE B!Drop
  BY <1>4, <1>11 DEF B!Drop
<1>12. CASE B!KeepBudget
  BY <1>4, <1>12 DEF B!KeepBudget
<1>13. CASE B!ZipOne
  <2>1. PICK f \in sweep.todo : f \in B!Entries /\ copies' = B!WithForms(f.id, {B!Packed})
    BY <1>13, SweepSteps
  <2>2. UNCHANGED lastCopy /\ {B!Packed} \in SUBSET {B!Plain, B!Packed} /\ {B!Packed} # {}
    BY <1>13 DEF B!ZipOne
  <2> QED BY <1>5, <2>1, <2>2
<1>14. ASSUME NEW p \in B!Procs,
              B!Begin(p) \/ B!Enter(p) \/ B!NoCopyNeeded(p) \/ B!CopyFails(p) \/ B!NoCopyTried(p) \/
                B!ApplyOne(p) \/ B!Finish(p)
       PROVE  FilesStay
  BY <1>14 DEF B!Begin, B!Enter, B!NoCopyNeeded, B!CopyFails, B!NoCopyTried, B!ApplyOne, B!Finish,
     B!files, FilesStay
<1>15. ASSUME NEW p \in B!Procs, B!CopyFirst(p) PROVE FilesMove /\ copies' \in [B!Places -> CopyType]
  BY <1>2, <1>6, <1>15 DEF B!CopyFirst
<1>16. ASSUME NEW p \in B!Procs, B!Exit(p) PROVE FilesMove /\ copies' \in [B!Places -> CopyType]
  <2>1. CASE UNCHANGED copies
    BY <1>1, <1>16, <2>1 DEF B!Exit, FilesStay
  <2>2. CASE copies' # copies
    <3>1. PICK f \in B!Newest(sweep.todo, 1) : copies' = B!WithForms(f.id, {B!Plain, B!Packed})
      BY <1>16, <2>2 DEF B!Exit
    <3>2. f \in B!Entries /\ UNCHANGED lastCopy
      BY <1>16, <2>2, <3>1 DEF B!Exit, SweepInv, B!Newest
    <3> QED BY <1>5, <3>1, <3>2
  <2> QED BY <2>1, <2>2
<1> QED BY <1>1, <1>7, <1>8, <1>9, <1>10, <1>11, <1>12, <1>13, <1>14, <1>15, <1>16 DEF B!Next

\* The types that stand beside those of the files.
LEMMA BackupTypes ==
  ASSUME Typed, CopiesInv, SweepInv, [B!Next]_(B!vars)
  PROVE  B!TypeOK'
<1> USE BackupNames DEF Typed
<1>1. /\ db \subseteq B!Versions /\ lastCopy \in 0..CopiesMade
      /\ copies \in [B!Places -> CopyType]
      /\ proc \in [B!Procs -> ProcType] /\ sweep \in SweepType /\ restore \in RestoreType
      /\ upgradeLock \in B!Procs \cup {"nobody"} /\ EntryFacts
  BY EntryIs DEF B!TypeOK, CopyType, ProcType, SweepType, RestoreType
<1>2. copies' \in [B!Places -> CopyType] /\ lastCopy' \in 0..CopiesMade
  BY FilesMoved DEF FilesMove
<1> DEFINE ProcsOK == /\ proc' \in [B!Procs -> ProcType]
                      /\ upgradeLock' \in B!Procs \cup {"nobody"} /\ db' \subseteq B!Versions
                      /\ refused' \subseteq B!Procs /\ {swapped', underway'} \subseteq BOOLEAN
           RestOK == /\ sweep' \in SweepType /\ restore' \in RestoreType /\ {early', twice'} \subseteq BOOLEAN
                     /\ squeezed' \subseteq B!Places \X CopyBudgets
                     /\ backupTroubles' \in 0..BackupTroubles
                     /\ marker' \in {"none", "failed", "old_failure", "no_space", "skipped"}
<1>3. ASSUME ProcsOK, RestOK PROVE B!TypeOK'
  BY <1>2, <1>3 DEF B!TypeOK, CopyType, ProcType, SweepType, RestoreType
<1>4. ASSUME B!Trouble PROVE backupTroubles' \in 0..BackupTroubles
  BY <1>4 DEF B!Trouble, B!TypeOK, BackupBounds
<1>5. ASSUME UNCHANGED <<sweep, restore, early, twice, squeezed>>,
             UNCHANGED backupTroubles \/ B!Trouble,
             marker' \in {marker, "none", "failed", "old_failure", "no_space", "skipped"}
      PROVE  RestOK
  BY <1>1, <1>4, <1>5 DEF B!TypeOK
<1>6. ASSUME UNCHANGED <<proc, upgradeLock, db, refused, swapped, underway>> PROVE ProcsOK
  BY <1>1, <1>6 DEF B!TypeOK
<1>7. B!NoPass \in SweepType /\ B!NoRestore \in RestoreType
  <2>1. B!NoFile \in B!FileType
    BY DEF B!NoFile, B!FileType
  <2> QED BY <2>1 DEF B!NoPass, B!NoRestore, SweepType, RestoreType
<1>8. ASSUME B!MarkerAges \/ B!Manual \/ UNCHANGED B!vars PROVE B!TypeOK'
  <2>1. ProcsOK
    BY <1>6, <1>8 DEF B!MarkerAges, B!Manual, B!vars, B!history
  <2>2. RestOK
    BY <1>5, <1>8 DEF B!MarkerAges, B!Manual, B!vars, B!history
  <2> QED BY <1>3, <2>1, <2>2
<1>9. ASSUME B!Night PROVE B!TypeOK'
  <2>1. ProcsOK
    BY <1>1, <1>9 DEF B!Night, B!history, B!TypeOK, ProcType
  <2>2. sweep' \in SweepType
    BY <1>1, <1>9 DEF B!Night, SweepType
  <2>3. RestOK
    BY <1>1, <1>9, <2>2 DEF B!Night, B!history, B!TypeOK
  <2> QED BY <1>3, <2>1, <2>3
<1>10. ASSUME B!Scan PROVE B!TypeOK'
  <2>1. ProcsOK
    BY <1>6, <1>10 DEF B!Scan, B!history
  <2>2. sweep' \in SweepType
    BY <1>7, <1>10, SweepSteps
  <2>3. RestOK
    BY <1>1, <1>10, <2>2 DEF B!Scan, B!history, B!TypeOK
  <2> QED BY <1>3, <2>1, <2>3
<1>11. ASSUME B!Drop PROVE B!TypeOK'
  <2>1. ProcsOK
    BY <1>6, <1>11 DEF B!Drop
  <2>2. sweep' \in SweepType
    BY <1>11, SweepSteps
  <2>3. early' \in BOOLEAN
    BY <1>11 DEF B!Drop, B!TypeOK, B!TooFewNewer
  <2>4. RestOK
    BY <1>1, <1>11, <2>2, <2>3 DEF B!Drop, B!TypeOK
  <2> QED BY <1>3, <2>1, <2>4
<1>12. ASSUME B!ZipOne PROVE B!TypeOK'
  <2>1. ProcsOK
    BY <1>6, <1>12 DEF B!ZipOne, B!history
  <2>2. sweep' \in SweepType
    BY <1>12, SweepSteps
  <2>3. RestOK
    BY <1>1, <1>12, <2>2 DEF B!ZipOne, B!history, B!TypeOK
  <2> QED BY <1>3, <2>1, <2>3
<1>13. ASSUME B!KeepBudget PROVE B!TypeOK'
  <2>1. ProcsOK
    BY <1>6, <1>13 DEF B!KeepBudget
  <2>2. squeezed' \subseteq B!Places \X CopyBudgets
    <3>1. PICK budget \in CopyBudgets :
            squeezed' = squeezed \cup {<<id, budget>> : id \in B!Relied \ B!IdsAfter}
      BY <1>13 DEF B!KeepBudget
    <3>2. B!Relied \subseteq B!Places
      BY DEF B!Relied, B!Ids
    <3> QED BY <3>1, <3>2 DEF B!TypeOK
  <2>3. RestOK
    BY <1>1, <1>7, <1>13, <2>2 DEF B!KeepBudget, B!TypeOK
  <2> QED BY <1>3, <2>1, <2>3
<1>14. ASSUME B!Choose PROVE B!TypeOK'
  <2>1. ProcsOK
    BY <1>6, <1>14 DEF B!Choose, B!history
  <2>2. restore' \in RestoreType
    <3>1. PICK f \in B!Entries : restore' = [pc |-> "looked_at", file |-> f, safety |-> 0]
      BY <1>14 DEF B!Choose
    <3>2. f \in B!FileType
      BY <1>1 DEF EntryFacts
    <3> QED BY <3>1, <3>2 DEF RestoreType
  <2>3. RestOK
    BY <1>1, <1>14, <2>2 DEF B!Choose, B!history, B!TypeOK
  <2> QED BY <1>3, <2>1, <2>3
<1>15. ASSUME B!Secure PROVE B!TypeOK'
  <2>1. ProcsOK
    BY <1>6, <1>15 DEF B!Secure, B!history
  <2>2. restore' \in RestoreType
    <3>1. CASE restore' = [restore EXCEPT !.pc = "secured", !.safety = lastCopy']
      BY <1>1, <1>2, <3>1 DEF RestoreType
    <3> QED BY <1>7, <1>15, <3>1 DEF B!Secure, B!Given
  <2>3. /\ marker' \in {"none", "failed", "old_failure", "no_space", "skipped"}
        /\ backupTroubles' \in 0..BackupTroubles
    BY <1>4, <1>15 DEF B!Secure, B!TypeOK
  <2>4. RestOK
    BY <1>1, <1>15, <2>2, <2>3 DEF B!Secure, B!history, B!TypeOK
  <2> QED BY <1>3, <2>1, <2>4
<1>16. ASSUME B!Put PROVE B!TypeOK'
  <2>1. ProcsOK
    <3>1. /\ UNCHANGED <<proc, upgradeLock, refused>>
          /\ \/ UNCHANGED <<db, swapped, underway>>
             \/ /\ B!There(restore.file) /\ db' = copies[restore.file.id].db /\ swapped' = TRUE
                /\ underway' = (underway \/ \E p \in B!Procs : proc[p].pc \in {"locked", "applying"})
      BY <1>16 DEF B!Put
    <3>2. CASE UNCHANGED <<db, swapped, underway>>
      BY <1>6, <3>1, <3>2
    <3>3. CASE /\ B!There(restore.file) /\ db' = copies[restore.file.id].db /\ swapped' = TRUE
               /\ underway' = (underway \/ \E p \in B!Procs : proc[p].pc \in {"locked", "applying"})
      <4>1. restore.file.id \in B!Places
        BY <1>1, <3>3 DEF B!There, EntryFacts
      <4>2. db' \subseteq B!Versions
        BY <1>1, <3>3, <4>1 DEF CopyType
      <4>3. underway' \in BOOLEAN /\ swapped' \in BOOLEAN
        BY <3>3 DEF B!TypeOK
      <4> QED BY <1>1, <3>1, <4>2, <4>3 DEF B!TypeOK
    <3> QED BY <3>1, <3>2, <3>3
  <2>2. restore' \in RestoreType
    <3>1. CASE restore' = [restore EXCEPT !.pc = "restarting"]
      BY <1>1, <3>1 DEF RestoreType
    <3> QED BY <1>7, <1>16, <3>1 DEF B!Put
  <2>3. RestOK
    BY <1>1, <1>16, <2>2 DEF B!Put, B!TypeOK
  <2> QED BY <1>3, <2>1, <2>3
<1>17. ASSUME NEW p \in B!Procs, B!Begin(p) \/ B!Enter(p) PROVE B!TypeOK'
  <2>1. proc' \in [B!Procs -> ProcType]
    BY <1>17, ProcSteps DEF Others
  <2>2. ProcsOK
    BY <1>1, <1>17, <2>1 DEF B!Begin, B!Enter, B!history, B!TypeOK
  <2>3. RestOK
    BY <1>5, <1>17 DEF B!Begin, B!Enter, B!history
  <2> QED BY <1>3, <2>2, <2>3
<1>18. ASSUME NEW p \in B!Procs, NEW copied \in 0..CopiesMade, B!GoOn(p, copied) \/ B!Leave(p)
       PROVE  proc' \in [B!Procs -> ProcType] /\ upgradeLock' \in B!Procs \cup {"nobody"}
  BY <1>1, <1>18, ProcSteps DEF Gone, Goes, Others
<1>19. ASSUME NEW p \in B!Procs, B!NoCopyNeeded(p) \/ B!CopyFirst(p) \/ B!CopyFails(p) \/
                B!NoCopyTried(p)
       PROVE B!TypeOK'
  <2>1. \E copied \in 0..CopiesMade : B!GoOn(p, copied) \/ B!Leave(p)
    <3>1. CASE B!CopyFirst(p)
      BY <1>2, <3>1 DEF B!CopyFirst
    <3>2. CASE B!NoCopyNeeded(p) \/ B!CopyFails(p) \/ B!NoCopyTried(p)
      BY <3>2 DEF B!NoCopyNeeded, B!CopyFails, B!NoCopyTried, B!Skip
    <3> QED BY <1>19, <3>1, <3>2
  <2>2. ProcsOK
    <3>1. UNCHANGED <<db, refused, swapped, underway>>
      BY <1>19 DEF B!NoCopyNeeded, B!CopyFirst, B!CopyFails, B!NoCopyTried, B!history
    <3> QED BY <1>18, <2>1, <3>1 DEF B!TypeOK
  <2>3. /\ UNCHANGED <<sweep, restore, early, twice, squeezed>>
        /\ UNCHANGED backupTroubles \/ B!Trouble
        /\ marker' \in {marker, "none", "failed", "old_failure", "no_space", "skipped"}
    BY <1>19 DEF B!NoCopyNeeded, B!CopyFirst, B!CopyFails, B!NoCopyTried, B!history
  <2> QED BY <1>3, <1>5, <2>2, <2>3
<1>20. ASSUME NEW p \in B!Procs, B!ApplyOne(p) PROVE B!TypeOK'
  <2>1. PICK v \in B!NextOf(proc[p].pending) :
          \/ /\ v \notin db /\ db' = db \cup {v}
             /\ proc' = [proc EXCEPT ![p].pending = @ \ {v}]
             /\ UNCHANGED <<upgradeLock, refused, backupTroubles>>
          \/ /\ v \in db /\ refused' = refused \cup {p} /\ B!Leave(p)
             /\ UNCHANGED <<db, backupTroubles>>
          \/ /\ B!Trouble /\ B!Leave(p) /\ UNCHANGED <<db, refused>>
    BY <1>20 DEF B!ApplyOne
  <2>2. v \in B!Versions
    BY <1>1 DEF B!NextOf, ProcType
  <2>3. UNCHANGED <<swapped, underway>>
    BY <1>20 DEF B!ApplyOne
  <2>4. CASE /\ v \notin db /\ db' = db \cup {v}
             /\ proc' = [proc EXCEPT ![p].pending = @ \ {v}]
             /\ UNCHANGED <<upgradeLock, refused, backupTroubles>>
    <3>1. proc' \in [B!Procs -> ProcType]
      BY <1>1, <2>4 DEF ProcType
    <3> QED BY <1>1, <1>3, <1>5, <1>20, <2>2, <2>3, <2>4, <3>1 DEF B!TypeOK, B!ApplyOne
  <2>5. CASE v \in db /\ refused' = refused \cup {p} /\ B!Leave(p) /\ UNCHANGED <<db, backupTroubles>>
    <3>1. ProcsOK
      BY <1>1, <1>18, <2>3, <2>5 DEF B!TypeOK
    <3> QED BY <1>3, <1>5, <1>20, <2>5, <3>1 DEF B!ApplyOne
  <2>6. CASE B!Trouble /\ B!Leave(p) /\ UNCHANGED <<db, refused>>
    <3>1. ProcsOK
      BY <1>1, <1>18, <2>3, <2>6 DEF B!TypeOK
    <3> QED BY <1>3, <1>5, <1>20, <2>6, <3>1 DEF B!ApplyOne
  <2> QED BY <2>1, <2>4, <2>5, <2>6
<1>21. ASSUME NEW p \in B!Procs, B!Finish(p) PROVE B!TypeOK'
  <2>1. proc' \in [B!Procs -> ProcType] /\ upgradeLock' \in B!Procs \cup {"nobody"}
    BY <1>1, <1>21, ProcSteps DEF Others
  <2>2. ProcsOK
    BY <1>1, <1>21, <2>1 DEF B!Finish, B!history, B!TypeOK
  <2>3. RestOK
    BY <1>5, <1>21 DEF B!Finish, B!history
  <2> QED BY <1>3, <2>2, <2>3
<1>22. ASSUME NEW p \in B!Procs, B!Exit(p) PROVE B!TypeOK'
  <2>1. ProcsOK
    BY <1>1, <1>18, <1>22 DEF B!Exit, B!TypeOK
  <2>2. sweep' \in SweepType /\ restore' \in RestoreType /\ twice' \in BOOLEAN
    BY <1>1, <1>7, <1>22 DEF B!Exit, B!TypeOK
  <2>3. backupTroubles' \in 0..BackupTroubles
    BY <1>4, <1>22 DEF B!Exit, B!TypeOK
  <2>4. RestOK
    BY <1>1, <1>22, <2>2, <2>3 DEF B!Exit, B!TypeOK
  <2> QED BY <1>3, <2>1, <2>4
<1> QED BY <1>8, <1>9, <1>10, <1>11, <1>12, <1>13, <1>14, <1>15, <1>16, <1>17, <1>19, <1>20,
   <1>21, <1>22 DEF B!Next

\* Copies are numbered as they are made; in two forms only after a stop.
LEMMA CopiesKeep ==
  ASSUME Typed, CopiesInv, SweepInv, [B!Next]_(B!vars)
  PROVE  CopiesInv'
<1> USE BackupNames DEF Typed
<1>1. FilesMove /\ lastCopy \in Nat /\ lastCopy' \in Nat
  BY FilesMoved DEF FilesMove, B!TypeOK, BackupBounds
<1>2. \A id \in B!Ids' : id <= lastCopy' /\ copies'[id].kind \in B!Kinds
  BY <1>1 DEF FilesMove, CopiesInv, B!Ids
<1> DEFINE Both(id) == copies'[id].forms = {B!Plain, B!Packed}
<1> SUFFICES \A id \in B!Places : Both(id) => twice'
  BY <1>2 DEF CopiesInv, B!Ids
<1>3. ASSUME UNCHANGED twice, \A id \in B!Places : Both(id) => copies[id].forms = {B!Plain, B!Packed}
      PROVE  \A id \in B!Places : Both(id) => twice'
  BY <1>3 DEF CopiesInv
<1>4. ASSUME NEW sort \in B!Kinds, B!Copy(sort), UNCHANGED twice
      PROVE \A id \in B!Places : Both(id) => twice'
  <2>1. /\ copies'[lastCopy'].forms = {B!Plain}
        /\ \A id \in B!Places \ {lastCopy'} : copies'[id] = copies[id]
    BY <1>4, CopyDoes DEF CopyAdded
  <2> QED BY <1>3, <1>4, <2>1
<1>5. ASSUME NEW deleted, copies' = B!Without(deleted), UNCHANGED twice
      PROVE \A id \in B!Places : Both(id) => twice'
  <2>1. \A id \in B!Places :
          copies'[id].forms \subseteq copies[id].forms /\ copies[id].forms \subseteq {B!Plain, B!Packed}
    BY <1>5, WithoutDoes DEF B!TypeOK
  <2> QED BY <1>3, <1>5, <2>1
<1>6. {"auto", "pre-v", "manual", "pre-restore"} = B!Kinds
  BY DEF B!Kinds
<1>7. CASE FilesStay /\ UNCHANGED twice
  BY <1>3, <1>7 DEF FilesStay
<1>8. CASE B!MarkerAges \/ B!Choose \/ B!Put \/ B!Scan \/ UNCHANGED B!vars
  BY <1>7, <1>8 DEF B!MarkerAges, B!Choose, B!Put, B!Scan, B!vars, B!files, FilesStay, B!history
<1>9. CASE B!Manual \/ B!Night \/ B!Secure
  BY <1>4, <1>6, <1>7, <1>9 DEF B!Manual, B!Night, B!Secure, B!history, B!files, FilesStay
<1>10. CASE B!Drop \/ B!KeepBudget
  BY <1>5, <1>10 DEF B!Drop, B!KeepBudget
<1>11. CASE B!ZipOne
  <2>1. PICK f \in sweep.todo : f \in B!Entries /\ copies' = B!WithForms(f.id, {B!Packed})
    BY <1>11, SweepSteps
  <2>2. {B!Packed} \in SUBSET {B!Plain, B!Packed} /\ {B!Packed} # {}
    OBVIOUS
  <2>3. copies'[f.id].forms = {B!Packed} /\ \A id \in B!Places \ {f.id} : copies'[id] = copies[id]
    BY <2>1, <2>2, FormsDo
  <2>4. B!Plain \notin {B!Packed}
    OBVIOUS
  <2> QED BY <1>3, <1>11, <2>3, <2>4 DEF B!ZipOne, B!history
<1>12. ASSUME NEW p \in B!Procs,
              B!Begin(p) \/ B!Enter(p) \/ B!NoCopyNeeded(p) \/ B!CopyFails(p) \/ B!NoCopyTried(p) \/
                B!ApplyOne(p) \/ B!Finish(p)
       PROVE  FilesStay /\ UNCHANGED twice
  BY <1>12 DEF B!Begin, B!Enter, B!NoCopyNeeded, B!CopyFails, B!NoCopyTried, B!ApplyOne, B!Finish,
     B!files, FilesStay, B!history
<1>13. ASSUME NEW p \in B!Procs, B!CopyFirst(p) PROVE \A id \in B!Places : Both(id) => twice'
  BY <1>4, <1>6, <1>13 DEF B!CopyFirst, B!history
<1>14. ASSUME NEW p \in B!Procs, B!Exit(p) PROVE \A id \in B!Places : Both(id) => twice'
  <2>1. (UNCHANGED <<copies, twice>>) \/ twice' = TRUE
    BY <1>14 DEF B!Exit
  <2> QED BY <1>3, <2>1
<1> QED BY <1>7, <1>8, <1>9, <1>10, <1>11, <1>12, <1>13, <1>14 DEF B!Next

\* What migrations have to do with each other: the steps that none of them takes, and
\* the others.
Apart == UNCHANGED <<db, upgradeLock, swapped, underway, refused>>
NextVersion == \A n \in 0..LatestMigration : \A v \in B!NextOf(B!Versions \ (1..n)) :
  (1..n) \cup {v} \in Prefixes

\* The next migration of a database that has the first n.
LEMMA OneFurther == BackupBounds => NextVersion
<1> SUFFICES ASSUME BackupBounds, NEW n \in 0..LatestMigration, NEW v \in B!NextOf(B!Versions \ (1..n))
             PROVE  (1..n) \cup {v} \in Prefixes
  BY DEF NextVersion
<1>1. v \in 1..LatestMigration /\ v \notin 1..n /\ n \in Nat /\ LatestMigration \in Nat
  BY DEF BackupBounds, B!NextOf, B!Versions
<1>2. v = n + 1
  <2>1. n + 1 \in B!Versions \ (1..n)
    BY <1>1 DEF B!Versions
  <2> QED BY <1>1, <2>1 DEF B!NextOf
<1>3. (1..n) \cup {v} = 1..(n + 1) /\ n + 1 \in 0..LatestMigration
  BY <1>1, <1>2
<1> QED BY <1>3 DEF Prefixes

\* Who migrates is alone, and goes on from what the database has.
LEMMA MigrateKeeps ==
  ASSUME Typed, CopiesInv, SweepInv, MigrateInv, [B!Next]_(B!vars)
  PROVE  MigrateInv'
<1> USE BackupNames DEF Typed
<1>1. /\ proc \in [B!Procs -> ProcType] /\ db \subseteq B!Versions /\ FilesMove
      /\ copies \in [B!Places -> CopyType] /\ EntryFacts
  BY FilesMoved, EntryIs DEF B!TypeOK, ProcType, CopyType
<1>2. \A p, q \in B!Procs : Migrating(p) /\ Migrating(q) => p = q
  BY DEF MigrateInv
<1> DEFINE Copied == ~ underway' => \A id \in B!Ids' : copies'[id].db \in Prefixes
           Locked == \A p \in B!Procs : Migrating(p)' => upgradeLock' = p
           Lacks(p) == proc'[p].pending = B!Versions \ db'
           Begun(p) == proc'[p].from \subseteq db' /\ (proc'[p].pc = "locked" => proc'[p].from = db')
           InStep == ~ underway' => /\ refused' = {} /\ db' \in Prefixes
                                    /\ \A p \in B!Procs : Migrating(p)' => Lacks(p) /\ Begun(p)
           Served == proc'["server"].pc = "serving" /\ ~ swapped' => db' = B!Versions
           Full == Migrating("server")' => Lacks("server")
<1>3. ASSUME ~ underway' => ~ underway PROVE Copied
  BY <1>1, <1>3 DEF FilesMove, MigrateInv
<1>4. ASSUME Copied, Locked, InStep, Served, Full PROVE MigrateInv'
  BY <1>4 DEF MigrateInv, B!ServedIsCurrent, B!Serving, Migrating
<1>5. /\ \A p \in B!Procs : Migrating(p) => upgradeLock = p
      /\ Migrating("server") => proc["server"].pending = B!Versions \ db
      /\ proc["server"].pc = "serving" /\ ~ swapped => db = B!Versions
      /\ ~ underway => /\ refused = {} /\ db \in Prefixes
                       /\ \A p \in B!Procs : Migrating(p) =>
                            /\ proc[p].pending = B!Versions \ db /\ proc[p].from \subseteq db
                            /\ proc[p].pc = "locked" => proc[p].from = db
  BY DEF MigrateInv, B!ServedIsCurrent, B!Serving
<1>6. ASSUME Apart, UNCHANGED proc PROVE MigrateInv'
  <2>1. Copied
    BY <1>3, <1>6 DEF Apart
  <2> QED BY <1>4, <1>5, <1>6, <2>1 DEF Apart, Migrating
<1>7. CASE B!MarkerAges \/ B!Manual \/ B!Scan \/ B!Drop \/ B!ZipOne \/ B!KeepBudget \/ B!Choose \/
             B!Secure \/ UNCHANGED B!vars
  <2>1. Apart /\ UNCHANGED proc
    BY <1>7 DEF B!MarkerAges, B!Manual, B!Scan, B!Drop, B!ZipOne, B!KeepBudget, B!Choose,
       B!Secure, B!vars, B!history, Apart
  <2> QED BY <1>6, <2>1
<1>8. CASE B!Night
  <2>1. Apart /\ \A p \in B!Procs : /\ proc'[p].pc = proc[p].pc /\ proc'[p].pending = proc[p].pending
                                    /\ proc'[p].from = proc[p].from
    BY <1>1, <1>8 DEF B!Night, B!history, Apart, ProcType
  <2>2. Copied
    BY <1>3, <2>1 DEF Apart
  <2> QED BY <1>4, <1>5, <2>1, <2>2 DEF Apart, Migrating
<1>9. CASE B!Put
  <2>1. UNCHANGED <<proc, upgradeLock, refused>> /\ proc["server"].pc = "serving"
    BY <1>9 DEF B!Put, B!Serving
  <2>2. CASE UNCHANGED <<db, swapped, underway>>
    BY <1>6, <2>1, <2>2 DEF Apart
  <2>3. CASE /\ B!There(restore.file) /\ db' = copies[restore.file.id].db /\ swapped' = TRUE
             /\ underway' = (underway \/ \E p \in B!Procs : proc[p].pc \in {"locked", "applying"})
    <3>1. restore.file.id \in B!Ids
      BY <1>1, <2>3 DEF B!There, EntryFacts
    <3>2. ~ underway' => ~ underway /\ db' \in Prefixes /\ \A p \in B!Procs : ~ Migrating(p)
      BY <2>3, <3>1 DEF MigrateInv, Migrating
    <3>3. ~ Migrating("server")'
      BY <2>1 DEF Migrating
    <3>4. Locked /\ InStep /\ Served /\ Full
      BY <1>5, <2>1, <2>3, <3>2, <3>3 DEF Migrating
    <3> QED BY <1>3, <1>4, <3>2, <3>4
  <2> QED BY <1>9, <2>2, <2>3 DEF B!Put
<1>10. ASSUME NEW p \in B!Procs, B!Begin(p) PROVE MigrateInv'
  <2>1. /\ Others(p) /\ proc'[p].pc = "waiting"
        /\ UNCHANGED <<db, upgradeLock, underway, refused>>
        /\ (p = "server" \/ UNCHANGED swapped)
    BY <1>10, ProcSteps DEF B!Begin
  <2>2. Copied
    BY <1>3, <2>1
  <2>3. Locked /\ InStep /\ Full
    BY <1>5, <2>1 DEF Others, Migrating
  <2>4. Served
    BY <1>5, <2>1 DEF Others
  <2> QED BY <1>4, <2>2, <2>3, <2>4
<1>11. ASSUME NEW p \in B!Procs, B!Enter(p) PROVE MigrateInv'
  <2>1. /\ Others(p) /\ proc'[p].pc = "locked" /\ proc'[p].pending = B!Versions \ db
        /\ proc'[p].from = db
        /\ UNCHANGED <<db, underway, refused, swapped>> /\ upgradeLock = "nobody"
        /\ upgradeLock' = p
    BY <1>11, ProcSteps DEF B!Enter, B!Turn, B!Pending, B!history
  <2>2. Copied
    BY <1>3, <2>1
  <2>3. \A q \in B!Procs \ {p} : ~ Migrating(q) /\ ~ Migrating(q)'
    BY <1>5, <2>1 DEF Others, Migrating
  <2>4. Locked /\ InStep /\ Full
    BY <1>5, <2>1, <2>3
  <2>5. Served
    BY <1>5, <2>1 DEF Others
  <2> QED BY <1>4, <2>2, <2>4, <2>5
<1>12. ASSUME NEW p \in B!Procs, NEW copied \in 0..CopiesMade, Goes(p, copied), proc[p].pc = "locked",
              UNCHANGED <<db, underway, refused, swapped>>
       PROVE  MigrateInv'
  <2>1. Copied
    BY <1>3, <1>12
  <2>2. Locked /\ InStep /\ Full
    BY <1>5, <1>12 DEF Goes, Others, Migrating
  <2>3. Served
    BY <1>5, <1>12 DEF Goes, Others
  <2> QED BY <1>4, <2>1, <2>2, <2>3
<1>13. ASSUME NEW p \in B!Procs, Others(p), proc'[p].pc \in {"down", "serving"},
              upgradeLock' = (IF upgradeLock = p THEN "nobody" ELSE upgradeLock),
              UNCHANGED <<db, underway, refused, swapped>>,
              p = "server" /\ proc'[p].pc = "serving" => db = B!Versions
       PROVE  MigrateInv'
  <2>1. Copied
    BY <1>3, <1>13
  <2>2. /\ ~ Migrating(p)'
        /\ \A q \in B!Procs \ {p} : proc'[q] = proc[q] /\ (Migrating(q)' <=> Migrating(q))
    BY <1>13 DEF Others, Migrating
  <2>3. Locked
    BY <1>5, <1>13, <2>2
  <2>4. InStep /\ Full
    BY <1>5, <1>13, <2>2
  <2>5. Served
    BY <1>5, <1>13, <2>2
  <2> QED BY <1>4, <2>1, <2>3, <2>4, <2>5
<1>14. ASSUME NEW p \in B!Procs, Gone(p), UNCHANGED <<db, underway, refused, swapped>> PROVE MigrateInv'
  <2>1. B!Down.pc = "down"
    BY DEF B!Down
  <2> QED BY <1>13, <1>14, <2>1 DEF Gone
<1>15. ASSUME NEW p \in B!Procs, B!NoCopyNeeded(p) \/ B!CopyFirst(p) \/ B!CopyFails(p) \/
                B!NoCopyTried(p)
       PROVE MigrateInv'
  <2>1. UNCHANGED <<db, underway, refused, swapped>> /\ proc[p].pc = "locked"
    BY <1>15 DEF B!NoCopyNeeded, B!CopyFirst, B!CopyFails, B!NoCopyTried, B!history
  <2>2. (\E copied \in 0..CopiesMade : B!GoOn(p, copied)) \/ B!Leave(p)
    <3>1. lastCopy' \in 0..CopiesMade
      BY <1>1 DEF FilesMove
    <3>2. CASE B!CopyFirst(p)
      BY <3>1, <3>2 DEF B!CopyFirst
    <3>3. CASE B!NoCopyNeeded(p) \/ B!CopyFails(p) \/ B!NoCopyTried(p)
      BY <3>3 DEF B!NoCopyNeeded, B!CopyFails, B!NoCopyTried, B!Skip
    <3> QED BY <1>15, <3>2, <3>3
  <2> QED BY <1>12, <1>14, <2>1, <2>2, ProcSteps
<1>16. ASSUME NEW p \in B!Procs, B!Finish(p) PROVE MigrateInv'
  <2>1. /\ Others(p) /\ proc'[p].pc \in {"down", "serving"} /\ proc[p].pc = "applying"
        /\ proc[p].pending = {}
        /\ upgradeLock' = (IF upgradeLock = p THEN "nobody" ELSE upgradeLock)
        /\ UNCHANGED <<db, underway, refused, swapped>>
    BY <1>16, ProcSteps DEF B!Finish, B!history
  <2>2. p = "server" => db = B!Versions
    BY <1>1, <1>5, <2>1 DEF Migrating
  <2> QED BY <1>13, <2>1, <2>2
<1>17. ASSUME NEW p \in B!Procs, B!Exit(p) PROVE MigrateInv'
  <2>1. B!Leave(p) /\ UNCHANGED <<db, underway, refused, swapped>>
    BY <1>17 DEF B!Exit
  <2> QED BY <1>14, <2>1, ProcSteps
<1>18. ASSUME NEW p \in B!Procs, B!ApplyOne(p) PROVE MigrateInv'
  <2>1. PICK v \in B!NextOf(proc[p].pending) :
          \/ /\ v \notin db /\ db' = db \cup {v}
             /\ proc' = [proc EXCEPT ![p].pending = @ \ {v}]
             /\ UNCHANGED <<upgradeLock, refused, backupTroubles>>
          \/ /\ v \in db /\ refused' = refused \cup {p} /\ B!Leave(p)
             /\ UNCHANGED <<db, backupTroubles>>
          \/ /\ B!Trouble /\ B!Leave(p) /\ UNCHANGED <<db, refused>>
    BY <1>18 DEF B!ApplyOne
  <2>2. /\ UNCHANGED <<swapped, underway>> /\ proc[p].pc = "applying" /\ Migrating(p)
        /\ v \in proc[p].pending /\ v \in B!Versions
    BY <1>1, <1>18 DEF B!ApplyOne, Migrating, B!NextOf, ProcType
  <2>3. CASE /\ v \notin db /\ db' = db \cup {v}
             /\ proc' = [proc EXCEPT ![p].pending = @ \ {v}]
             /\ UNCHANGED <<upgradeLock, refused, backupTroubles>>
    <3>1. /\ proc'[p].pending = proc[p].pending \ {v} /\ proc'[p].pc = "applying"
          /\ proc'[p].from = proc[p].from /\ \A q \in B!Procs \ {p} : proc'[q] = proc[q]
      BY <1>1, <2>2, <2>3 DEF ProcType
    <3>2. \A q \in B!Procs \ {p} : ~ Migrating(q) /\ ~ Migrating(q)'
      BY <1>2, <2>2, <3>1 DEF Migrating
    <3>3. Copied
      BY <1>3, <2>2
    <3>4. Locked
      BY <1>5, <2>2, <2>3, <3>2
    <3>5. proc[p].pending = B!Versions \ db => Lacks(p)
      BY <2>3, <3>1
    <3>6. Full
      BY <1>5, <2>2, <3>2, <3>5
    <3>7. Served
      BY <1>1, <1>5, <2>2, <2>3, <3>1
    <3>8. InStep
      <4> SUFFICES ASSUME ~ underway' PROVE /\ refused' = {} /\ db' \in Prefixes
                                            /\ \A q \in B!Procs : Migrating(q)' => Lacks(q) /\ Begun(q)
        OBVIOUS
      <4>1. /\ refused = {} /\ db \in Prefixes /\ proc[p].pending = B!Versions \ db
            /\ proc[p].from \subseteq db
        BY <1>5, <2>2
      <4>2. PICK n \in 0..LatestMigration : db = 1..n
        BY <4>1 DEF Prefixes
      <4>3. db' \in Prefixes
        BY <2>3, <4>1, <4>2, OneFurther DEF NextVersion
      <4>4. Lacks(p) /\ Begun(p)
        BY <2>3, <3>1, <3>5, <4>1
      <4> QED BY <2>3, <3>2, <4>1, <4>3, <4>4
    <3> QED BY <1>4, <3>3, <3>4, <3>6, <3>7, <3>8
  <2>4. CASE v \in db /\ refused' = refused \cup {p} /\ B!Leave(p) /\ UNCHANGED <<db, backupTroubles>>
    <3>1. Gone(p) /\ underway
      BY <1>5, <2>2, <2>4, ProcSteps
    <3>2. B!Down.pc = "down" /\ ~ Migrating(p)'
      BY <3>1 DEF Gone, B!Down, Migrating
    <3>3. Locked /\ Full /\ Served
      BY <1>5, <2>2, <2>4, <3>1, <3>2 DEF Gone, Others, Migrating
    <3>4. InStep /\ Copied
      BY <2>2, <3>1
    <3> QED BY <1>4, <3>3, <3>4
  <2>5. CASE B!Trouble /\ B!Leave(p) /\ UNCHANGED <<db, refused>>
    BY <1>14, <2>2, <2>5, ProcSteps
  <2> QED BY <2>1, <2>3, <2>4, <2>5
<1> QED BY <1>7, <1>8, <1>9, <1>10, <1>11, <1>15, <1>16, <1>17, <1>18 DEF B!Next

\* A copy that is the newest of its kind and stays after a pass still does, unless it
\* goes for a budget.
Spared(id) == \E budget \in CopyBudgets : <<id, budget>> \in squeezed'
LastOfKind(id) == /\ copies[id].kind \in {"pre-v", "pre-restore"} /\ \A other \in B!Ids :
                       copies[other].kind = copies[id].kind => other <= id

\* Such a copy stays one, or goes for a budget.
LEMMA LastingStays ==
  ASSUME Typed, CopiesInv, SweepInv, [B!Next]_(B!vars), NEW id \in B!Places, Lasting(id),
         LastOfKind(id),
         id \in B!Relied \/ ~ B!KeepBudget
  PROVE  Lasting(id)' \/ (B!KeepBudget /\ Spared(id))
<1> USE BackupNames DEF Typed
<1>1. EntryFacts /\ copies \in [B!Places -> CopyType] /\ id \in B!Ids
  BY EntryIs DEF B!TypeOK, CopyType, Lasting
<1>2. ASSUME UNCHANGED sweep, B!Entries \subseteq B!Entries', id \in B!Ids' PROVE Lasting(id)'
  BY <1>2 DEF Lasting
<1>3. ASSUME sweep'.pc # "dropping", id \in B!Ids' PROVE Lasting(id)'
  BY <1>3 DEF Lasting
<1>4. ASSUME FilesStay, UNCHANGED sweep PROVE Lasting(id)'
  BY <1>1, <1>2, <1>4, StillThere
<1>5. ASSUME NEW sort \in B!Kinds, B!Copy(sort) PROVE B!Entries \subseteq B!Entries' /\ id \in B!Ids'
  <2>1. CopyAdded(sort)
    BY <1>5, CopyDoes
  <2> QED BY <1>1, <2>1, AddedEntry DEF CopyAdded
<1>6. {"auto", "pre-v", "manual", "pre-restore"} = B!Kinds
  BY DEF B!Kinds
<1>7. CASE B!MarkerAges \/ B!Choose \/ B!Put \/ UNCHANGED B!vars
  BY <1>4, <1>7 DEF B!MarkerAges, B!Choose, B!Put, B!vars, B!files, FilesStay
<1>8. CASE B!Manual
  BY <1>2, <1>5, <1>6, <1>8 DEF B!Manual
<1>9. CASE B!Secure
  BY <1>2, <1>4, <1>5, <1>6, <1>9 DEF B!Secure, B!files, FilesStay
<1>10. CASE B!Night
  <2>1. id \in B!Ids'
    BY <1>1, <1>5, <1>6, <1>10, StillThere DEF B!Night, B!files, FilesStay
  <2>2. sweep'.pc = "scanning"
    BY <1>10 DEF B!Night, B!TypeOK
  <2> QED BY <1>3, <2>1, <2>2
<1>11. CASE B!Scan
  <2>0. FilesStay /\ B!Ids' = B!Ids /\ B!Entries' = B!Entries
    BY <1>11, SweepSteps, StillThere
  <2>1. CASE sweep' = B!NoPass
    <3>1. B!NoPass.pc = "idle"
      BY DEF B!NoPass
    <3> QED BY <1>1, <1>3, <2>0, <2>1, <3>1
  <2>2. ASSUME NEW newest \in B!Entries, NEW daily \in SUBSET B!OfKind(B!Entries, "auto"),
               sweep'.pc = "dropping",
               sweep'.todo = B!Entries \ (B!Kept(B!Entries) \cup daily \cup {newest})
        PROVE  Lasting(id)'
    <3> DEFINE form == IF B!Packed \in copies[id].forms THEN B!Packed ELSE B!Plain
               f == B!File(id, form)
               newer == {g \in B!OfKind(B!Entries, f.kind) : B!Newer(g, f)}
    <3>1. form \in copies[id].forms
      BY <1>1 DEF CopyType, B!Ids
    <3>2. f \in B!Entries /\ f.id = id /\ f.form = form /\ f.kind = copies[id].kind
      BY <1>1, <3>1 DEF EntryFacts
    <3>3. newer = {}
      <4> SUFFICES ASSUME NEW g \in B!Entries, g.kind = copies[id].kind, B!Newer(g, f) PROVE FALSE
        BY <3>2 DEF B!OfKind
      <4> HIDE DEF form, f, newer
      <4>1. /\ g.id \in B!Ids /\ g.form \in copies[g.id].forms
            /\ copies[g.id].kind = copies[id].kind /\ g.id \in Nat /\ id \in Nat
        BY <1>1 DEF EntryFacts
      <4>2. g.id <= id
        BY <4>1 DEF LastOfKind
      <4>3. g.id = id /\ g.form = B!Packed /\ f.form = B!Plain
        BY <3>2, <4>1, <4>2 DEF B!Newer
      <4>4. form = B!Packed
        BY <4>1, <4>3 DEF form
      <4> QED BY <3>2, <4>3, <4>4
    <3>4. B!KeepOf(f.kind) \in Nat \ {0} /\ f.kind \in B!Kinds
      BY <3>2 DEF B!KeepOf, LastOfKind, BackupBounds, B!Kinds
    <3> HIDE DEF form, f
    <3>5. B!Cardinality(newer) = 0
      <4> HIDE DEF newer
      <4> QED BY <3>3, SameCopyCount, FS_EmptySet
    <3>6. f \in B!Newest(B!OfKind(B!Entries, f.kind), B!KeepOf(f.kind))
      <4>1. f \in B!OfKind(B!Entries, f.kind)
        BY <3>2 DEF B!OfKind
      <4> QED BY <3>4, <3>5, <4>1 DEF B!Newest
    <3>7. f \in B!Kept(B!Entries)
      BY <3>4, <3>6 DEF B!Kept
    <3> QED BY <1>1, <2>0, <2>2, <3>2, <3>7 DEF Lasting
  <2> QED BY <1>11, <2>1, <2>2, SweepSteps
<1>12. CASE B!Drop
  <2>1. PICK f \in B!Entries : f.id = id /\ f \notin sweep.todo
    BY <1>12 DEF Lasting, B!Drop
  <2>2. copies' = B!Without(sweep.todo)
    BY <1>12 DEF B!Drop
  <2>3. id \in B!Ids'
    BY <2>1, <2>2, WithoutDoes
  <2>4. sweep'.pc = "zipping"
    BY <1>12, SweepSteps
  <2> QED BY <1>3, <2>3, <2>4
<1>13. CASE B!ZipOne
  <2>1. PICK f \in sweep.todo :
          f \in B!Entries /\ copies' = B!WithForms(f.id, {B!Packed}) /\ sweep'.pc = "zipping"
    BY <1>13, SweepSteps
  <2>2. {B!Packed} \in SUBSET {B!Plain, B!Packed} /\ {B!Packed} # {}
    OBVIOUS
  <2>3. B!Ids' = B!Ids
    BY <2>1, <2>2, FormsDo
  <2> QED BY <1>1, <1>3, <2>1, <2>3
<1>14. CASE B!KeepBudget
  <2>1. PICK budget \in CopyBudgets :
          squeezed' = squeezed \cup {<<deleted, budget>> : deleted \in B!Relied \ B!IdsAfter}
    BY <1>14 DEF B!KeepBudget
  <2>2. B!IdsAfter = B!Ids'
    BY DEF B!IdsAfter, B!Ids
  <2>3. sweep' = B!NoPass /\ B!NoPass.pc = "idle"
    BY <1>14 DEF B!KeepBudget, B!NoPass
  <2>4. CASE id \in B!Ids'
    BY <1>3, <2>3, <2>4
  <2>5. CASE id \notin B!Ids'
    BY <1>14, <2>1, <2>2, <2>5 DEF Spared
  <2> QED BY <2>4, <2>5
<1>15. ASSUME NEW p \in B!Procs,
              B!Begin(p) \/ B!Enter(p) \/ B!NoCopyNeeded(p) \/ B!CopyFails(p) \/ B!NoCopyTried(p) \/
                B!ApplyOne(p) \/ B!Finish(p)
       PROVE  FilesStay /\ UNCHANGED sweep
  BY <1>15 DEF B!Begin, B!Enter, B!NoCopyNeeded, B!CopyFails, B!NoCopyTried, B!ApplyOne, B!Finish,
     B!files, FilesStay
<1>16. ASSUME NEW p \in B!Procs, B!CopyFirst(p) PROVE Lasting(id)'
  BY <1>2, <1>5, <1>6, <1>16 DEF B!CopyFirst
<1>17. ASSUME NEW p \in B!Procs, B!Exit(p) PROVE Lasting(id)'
  <2>1. CASE UNCHANGED <<copies, sweep>>
    BY <1>4, <1>17, <2>1 DEF B!Exit, FilesStay
  <2>2. CASE p = "server"
    <3>1. sweep' = B!NoPass /\ B!NoPass.pc = "idle" /\ UNCHANGED lastCopy
      BY <1>17, <2>2 DEF B!Exit, B!NoPass
    <3>2. B!Ids' = B!Ids
      <4>1. CASE UNCHANGED copies
        BY <3>1, <4>1, StillThere DEF FilesStay
      <4>2. CASE sweep.pc = "zipping" /\ \E f \in B!Newest(sweep.todo, 1) :
              copies' = B!WithForms(f.id, {B!Plain, B!Packed})
        <5>1. PICK f \in sweep.todo : copies' = B!WithForms(f.id, {B!Plain, B!Packed})
          BY <4>2 DEF B!Newest
        <5>2. f \in B!Entries
          BY <4>2, <5>1 DEF SweepInv
        <5>3. {B!Plain, B!Packed} # {}
          OBVIOUS
        <5> QED BY <5>1, <5>2, <5>3, FormsDo
      <4> QED BY <1>17, <2>2, <4>1, <4>2 DEF B!Exit
    <3> QED BY <1>1, <1>3, <3>1, <3>2
  <2> QED BY <1>17, <2>1, <2>2 DEF B!Exit
<1> QED BY <1>4, <1>7, <1>8, <1>9, <1>10, <1>11, <1>12, <1>13, <1>14, <1>15, <1>16, <1>17 DEF
   B!Next

\* A pass: what it saw and took for the newest is there.
LEMMA SweepKeeps ==
  ASSUME Typed, CopiesInv, SweepInv, [B!Next]_(B!vars)
  PROVE  SweepInv'
<1> USE BackupNames DEF Typed
<1>1. EntryFacts /\ sweep \in SweepType
  BY EntryIs DEF B!TypeOK, SweepType
<1>2. ASSUME UNCHANGED sweep, B!Entries \subseteq B!Entries' PROVE SweepInv'
  BY <1>2 DEF SweepInv
<1>3. ASSUME sweep'.pc \in {"idle", "scanning"} PROVE SweepInv'
  BY <1>3 DEF SweepInv
<1>4. B!NoPass.pc = "idle"
  BY DEF B!NoPass
<1>5. ASSUME FilesStay, UNCHANGED sweep PROVE SweepInv'
  BY <1>2, <1>5, StillThere
<1>6. ASSUME NEW sort \in B!Kinds, B!Copy(sort), UNCHANGED sweep PROVE SweepInv'
  <2>1. CopyAdded(sort)
    BY <1>6, CopyDoes
  <2> QED BY <1>2, <1>6, <2>1, AddedEntry
<1>7. {"auto", "pre-v", "manual", "pre-restore"} = B!Kinds
  BY DEF B!Kinds
<1>8. CASE B!MarkerAges \/ B!Choose \/ B!Put \/ UNCHANGED B!vars
  BY <1>5, <1>8 DEF B!MarkerAges, B!Choose, B!Put, B!vars, B!files, FilesStay
<1>9. CASE B!Manual
  BY <1>6, <1>7, <1>9 DEF B!Manual
<1>10. CASE B!Secure
  BY <1>5, <1>6, <1>7, <1>10 DEF B!Secure, B!files, FilesStay
<1>11. CASE B!Night
  <2>1. sweep'.pc = "scanning"
    BY <1>1, <1>11 DEF B!Night, SweepType
  <2> QED BY <1>3, <2>1
<1>12. CASE B!Scan
  <2>1. FilesStay /\ B!Entries' = B!Entries
    BY <1>12, SweepSteps, StillThere
  <2>2. ASSUME NEW newest \in B!Entries, NEW daily \in SUBSET B!OfKind(B!Entries, "auto"),
               sweep'.pc = "dropping", sweep'.seen = B!Entries, sweep'.newest = newest,
               sweep'.todo = B!Entries \ (B!Kept(B!Entries) \cup daily \cup {newest})
        PROVE  SweepInv'
    <3>1. ASSUME NEW f \in B!Entries, f \notin B!Kept(B!Entries)
          PROVE  B!Cardinality({g \in B!OfKind(B!Entries, f.kind) : B!Newer(g, f)}) >= B!KeepOf(f.kind)
      <4>1. f.kind \in B!Kinds /\ f \in B!OfKind(B!Entries, f.kind)
        BY <1>1 DEF EntryFacts, CopiesInv, B!OfKind
      <4>2. f \notin B!Newest(B!OfKind(B!Entries, f.kind), B!KeepOf(f.kind))
        BY <3>1, <4>1 DEF B!Kept
      <4>3. ~ (B!Cardinality({g \in B!OfKind(B!Entries, f.kind) : B!Newer(g, f)}) < B!KeepOf(f.kind))
        BY <4>1, <4>2 DEF B!Newest
      <4>4. {g \in B!OfKind(B!Entries, f.kind) : B!Newer(g, f)} \subseteq B!Entries
        BY DEF B!OfKind
      <4>5. B!Cardinality({g \in B!OfKind(B!Entries, f.kind) : B!Newer(g, f)}) \in Nat
        <5> DEFINE newer == {g \in B!OfKind(B!Entries, f.kind) : B!Newer(g, f)}
        <5> HIDE DEF newer
        <5>1. newer \in SUBSET B!Entries => B!Cardinality(newer) \in Nat
          BY EntriesFinite
        <5> QED BY <4>4, <5>1 DEF newer
      <4>6. B!KeepOf(f.kind) \in Nat
        BY DEF B!KeepOf, BackupBounds
      <4> QED BY <4>3, <4>5, <4>6
    <3>2. \A f \in sweep'.todo : f \in B!Entries /\ f \notin B!Kept(B!Entries)
      BY <2>2
    <3>3. \A f \in sweep'.todo :
            B!Cardinality({g \in B!OfKind(sweep'.seen, f.kind) : B!Newer(g, f)}) >= B!KeepOf(f.kind)
      BY <2>2, <3>1, <3>2
    <3>4. sweep'.newest \in B!Entries' /\ sweep'.newest \notin sweep'.todo
      BY <2>1, <2>2
    <3>5. sweep'.todo \subseteq sweep'.seen /\ sweep'.seen \subseteq B!Entries'
      BY <2>1, <2>2
    <3> QED BY <2>2, <3>3, <3>4, <3>5 DEF SweepInv
  <2> QED BY <1>3, <1>4, <1>12, <2>2, SweepSteps
<1>13. CASE B!Drop
  <2>1. copies' = B!Without(sweep.todo) /\ sweep.pc = "dropping"
    BY <1>13 DEF B!Drop
  <2>2. \A f \in B!Entries : f \notin sweep.todo => f \in B!Entries'
    BY <2>1, WithoutDoes
  <2>3. sweep.newest \in B!Entries' /\ sweep.seen \ sweep.todo \subseteq B!Entries'
    BY <2>1, <2>2 DEF SweepInv
  <2>4. /\ sweep'.pc = "zipping" /\ sweep'.newest = sweep.newest
        /\ sweep'.newest \notin sweep'.todo
        /\ sweep'.todo \subseteq {f \in sweep.seen \ sweep.todo : f.form = B!Plain}
    BY <1>13, SweepSteps
  <2> QED BY <2>3, <2>4 DEF SweepInv
<1>14. CASE B!ZipOne
  <2>1. PICK f \in sweep.todo :
          /\ f \in B!Entries /\ f.form = B!Plain /\ copies' = B!WithForms(f.id, {B!Packed})
                                /\ sweep'.pc = "zipping" /\ sweep'.newest = sweep.newest
                                /\ sweep'.todo = sweep.todo \ {f}
    BY <1>14, SweepSteps
  <2>2. sweep.pc = "zipping"
    BY <1>14 DEF B!ZipOne
  <2>3. {B!Packed} \in SUBSET {B!Plain, B!Packed} /\ {B!Packed} # {}
    OBVIOUS
  <2>4. \A g \in B!Entries : g.id # f.id \/ g.form = B!Packed => g \in B!Entries'
    BY <2>1, <2>3, FormsDo
  <2>5. \A g \in B!Entries : g # f => g.id # f.id \/ g.form = B!Packed
    <3> SUFFICES ASSUME NEW g \in B!Entries, g.id = f.id, g.form # B!Packed PROVE g = f
      OBVIOUS
    <3>1. g.form = B!Plain /\ g = B!File(g.id, g.form) /\ f = B!File(f.id, f.form)
      BY <1>1, <2>1 DEF EntryFacts
    <3> QED BY <2>1, <3>1
  <2>6. \A g \in B!Entries : g # f => g \in B!Entries'
    BY <2>4, <2>5
  <2> QED BY <2>1, <2>2, <2>6 DEF SweepInv
<1>15. CASE B!KeepBudget
  BY <1>3, <1>4, <1>15 DEF B!KeepBudget
<1>16. ASSUME NEW p \in B!Procs,
              B!Begin(p) \/ B!Enter(p) \/ B!NoCopyNeeded(p) \/ B!CopyFails(p) \/ B!NoCopyTried(p) \/
                B!ApplyOne(p) \/ B!Finish(p)
       PROVE  FilesStay /\ UNCHANGED sweep
  BY <1>16 DEF B!Begin, B!Enter, B!NoCopyNeeded, B!CopyFails, B!NoCopyTried, B!ApplyOne, B!Finish,
     B!files, FilesStay
<1>17. ASSUME NEW p \in B!Procs, B!CopyFirst(p) PROVE SweepInv'
  BY <1>6, <1>7, <1>17 DEF B!CopyFirst
<1>18. ASSUME NEW p \in B!Procs, B!Exit(p) PROVE SweepInv'
  BY <1>3, <1>4, <1>5, <1>18 DEF B!Exit, FilesStay
<1> QED BY <1>5, <1>8, <1>9, <1>10, <1>11, <1>12, <1>13, <1>14, <1>15, <1>16, <1>17, <1>18 DEF
   B!Next

\* The newest file there was is left.
LEMMA LastKept ==
  ASSUME Typed, CopiesInv, SweepInv, B!LastStays, [B!Next]_(B!vars)
  PROVE  B!LastStays'
<1> USE BackupNames DEF Typed
<1>1. ASSUME FilesStay PROVE B!LastStays'
  BY <1>1, StillThere DEF FilesStay, B!LastStays
<1>2. ASSUME NEW sort \in B!Kinds, B!Copy(sort) PROVE B!LastStays'
  BY <1>2, CopyDoes DEF CopyAdded, B!LastStays
<1>3. ASSUME NEW deleted, copies' = B!Without(deleted), sweep.newest \notin deleted,
             sweep.pc \in {"dropping", "zipping"}
      PROVE  B!LastStays'
  <2>1. sweep.newest \in B!Entries
    BY <1>3 DEF SweepInv
  <2>2. sweep.newest.id \in B!Ids'
    BY <1>3, <2>1, WithoutDoes
  <2> QED BY <2>2 DEF B!LastStays
<1>4. {"auto", "pre-v", "manual", "pre-restore"} = B!Kinds
  BY DEF B!Kinds
<1>5. ASSUME NEW f \in B!Entries, NEW forms \in SUBSET {B!Plain, B!Packed}, forms # {},
             UNCHANGED lastCopy,
             copies' = B!WithForms(f.id, forms)
      PROVE  B!LastStays'
  BY <1>5, FormsDo DEF B!LastStays
<1>6. CASE B!MarkerAges \/ B!Choose \/ B!Put \/ B!Scan \/ UNCHANGED B!vars
  BY <1>1, <1>6 DEF B!MarkerAges, B!Choose, B!Put, B!Scan, B!vars, B!files, FilesStay
<1>7. CASE B!Manual \/ B!Night \/ B!Secure
  BY <1>1, <1>2, <1>4, <1>7 DEF B!Manual, B!Night, B!Secure, B!files, FilesStay
<1>8. CASE B!Drop
  BY <1>3, <1>8 DEF B!Drop, SweepInv
<1>9. CASE B!KeepBudget
  <2>1. PICK budget \in CopyBudgets : copies' = B!Without(B!Over(budget))
    BY <1>9 DEF B!KeepBudget
  <2>2. sweep.newest \notin B!Over(budget) /\ sweep.pc = "zipping"
    BY <1>9 DEF B!KeepBudget, B!Over, B!MayGo
  <2> QED BY <1>3, <2>1, <2>2
<1>10. CASE B!ZipOne
  <2>1. PICK f \in sweep.todo : f \in B!Entries /\ copies' = B!WithForms(f.id, {B!Packed})
    BY <1>10, SweepSteps
  <2>2. {B!Packed} \in SUBSET {B!Plain, B!Packed} /\ {B!Packed} # {} /\ UNCHANGED lastCopy
    BY <1>10 DEF B!ZipOne
  <2> QED BY <1>5, <2>1, <2>2
<1>11. ASSUME NEW p \in B!Procs,
              B!Begin(p) \/ B!Enter(p) \/ B!NoCopyNeeded(p) \/ B!CopyFails(p) \/ B!NoCopyTried(p) \/
                B!ApplyOne(p) \/ B!Finish(p)
       PROVE  FilesStay
  BY <1>11 DEF B!Begin, B!Enter, B!NoCopyNeeded, B!CopyFails, B!NoCopyTried, B!ApplyOne, B!Finish,
     B!files, FilesStay
<1>12. ASSUME NEW p \in B!Procs, B!CopyFirst(p) PROVE B!LastStays'
  BY <1>2, <1>4, <1>12 DEF B!CopyFirst
<1>13. ASSUME NEW p \in B!Procs, B!Exit(p) PROVE B!LastStays'
  <2>1. CASE UNCHANGED copies
    BY <1>1, <1>13, <2>1 DEF B!Exit, FilesStay
  <2>2. CASE sweep.pc = "zipping" /\ \E f \in B!Newest(sweep.todo, 1) :
          copies' = B!WithForms(f.id, {B!Plain, B!Packed})
    <3>1. PICK f \in sweep.todo : copies' = B!WithForms(f.id, {B!Plain, B!Packed})
      BY <2>2 DEF B!Newest
    <3>2. f \in B!Entries /\ {B!Plain, B!Packed} # {} /\ UNCHANGED lastCopy
      BY <1>13, <2>2, <3>1 DEF SweepInv, B!Exit
    <3> QED BY <1>5, <3>1, <3>2
  <2> QED BY <1>13, <2>1, <2>2 DEF B!Exit
<1> QED BY <1>1, <1>6, <1>7, <1>8, <1>9, <1>10, <1>11, <1>12, <1>13 DEF B!Next

\* A pass drops a copy only for newer ones of its kind, whose files it has seen: as many
\* copies as files, if none is there in both forms.
LEMMA KindKept ==
  ASSUME Typed, CopiesInv, SweepInv, B!KeptOfKind, [B!Next]_(B!vars)
  PROVE  B!KeptOfKind'
<1> USE BackupNames DEF Typed
<1>1. EntryFacts
  BY EntryIs
<1>2. ASSUME UNCHANGED early, twice => twice' PROVE B!KeptOfKind'
  BY <1>2 DEF B!KeptOfKind
<1>3. CASE B!Drop
  <2>1. /\ UNCHANGED twice /\ early' = (early \/ B!TooFewNewer(B!Ids \ B!IdsAfter)) /\ sweep.pc = "dropping"
        /\ copies' = B!Without(sweep.todo) /\ B!IdsAfter = B!Ids'
    BY <1>3 DEF B!Drop, B!IdsAfter, B!Ids
  <2>12. \A id \in B!Ids : /\ IsFiniteSet(B!NewerOfKind(id)) /\ B!Cardinality(B!NewerOfKind(id)) \in Nat
                           /\ B!KeepOf(copies[id].kind) \in Nat
    <3> SUFFICES ASSUME NEW id \in B!Ids
                 PROVE  /\ IsFiniteSet(B!NewerOfKind(id)) /\ B!Cardinality(B!NewerOfKind(id)) \in Nat
                        /\ B!KeepOf(copies[id].kind) \in Nat
      OBVIOUS
    <3>1. B!NewerOfKind(id) \in SUBSET B!Places
      BY DEF B!NewerOfKind, B!Ids
    <3>2. IsFiniteSet(B!Places)
      BY FS_Interval DEF BackupBounds, B!Places
    <3>3. B!KeepOf(copies[id].kind) \in Nat
      BY DEF B!KeepOf, BackupBounds
    <3> QED BY <3>1, <3>2, <3>3, SameCopyCount, FS_Subset, FS_CardinalityType
  <2>13. B!TooFewNewer(B!Ids \ B!IdsAfter) =>
          \E id \in B!Ids \ B!Ids' : B!Cardinality(B!NewerOfKind(id)) < B!KeepOf(copies[id].kind)
    BY <2>1 DEF B!TooFewNewer
  <2>14. ASSUME \A id \in B!Ids \ B!Ids' : B!Cardinality(B!NewerOfKind(id)) >= B!KeepOf(copies[id].kind)
         PROVE  ~ B!TooFewNewer(B!Ids \ B!IdsAfter)
    BY <2>12, <2>13, <2>14
  <2> SUFFICES ASSUME ~ twice, NEW id \in B!Ids \ B!Ids'
               PROVE B!Cardinality(B!NewerOfKind(id)) >= B!KeepOf(copies[id].kind)
    BY <2>1, <2>14 DEF B!KeptOfKind
  <2>2. PICK f \in B!Entries : f.id = id /\ f.kind = copies[id].kind
    BY <1>1 DEF EntryFacts
  <2>3. f \in sweep.todo
    BY <2>1, <2>2, WithoutDoes
  <2> DEFINE sight == {g \in B!OfKind(sweep.seen, f.kind) : B!Newer(g, f)}
             name == [g \in sight |-> g.id]
  <2>4. B!Cardinality(sight) >= B!KeepOf(f.kind)
    BY <2>1, <2>3 DEF SweepInv
  <2>5. \A g \in sight : g \in B!Entries /\ g.kind = f.kind /\ B!Newer(g, f)
    BY <2>1 DEF SweepInv, B!OfKind
  <2>6. \A g, h \in B!Entries : g.id = h.id => g = h
    <3> SUFFICES ASSUME NEW g \in B!Entries, NEW h \in B!Entries, g.id = h.id PROVE g = h
      OBVIOUS
    <3>1. /\ g.id \in B!Places /\ g.form \in copies[g.id].forms /\ h.form \in copies[g.id].forms
          /\ g = B!File(g.id, g.form) /\ h = B!File(h.id, h.form)
          /\ {g.form, h.form} \subseteq {B!Plain, B!Packed}
      BY <1>1 DEF EntryFacts
    <3>2. copies[g.id].forms # {B!Plain, B!Packed} /\ copies[g.id].forms \subseteq {B!Plain, B!Packed}
      BY <3>1 DEF CopiesInv, B!TypeOK
    <3>3. g.form = h.form
      BY <3>1, <3>2
    <3> QED BY <3>1, <3>3
  <2>7. \A g \in sight : g.id \in B!NewerOfKind(id)
    <3> SUFFICES ASSUME NEW g \in B!Entries, g.kind = f.kind, B!Newer(g, f)
                 PROVE g.id \in B!NewerOfKind(id)
      BY <2>5
    <3>1. g.id > f.id
      <4>1. CASE g.id = f.id
        <5>1. g = f
          BY <2>6, <4>1
        <5>2. f.id \in Nat /\ ~ (f.id > f.id)
          BY <1>1 DEF EntryFacts
        <5>3. B!Newer(f, f)
          BY <5>1
        <5>4. f.form = B!Packed /\ f.form = B!Plain
          BY <5>2, <5>3 DEF B!Newer
        <5> QED BY <5>4
      <4> QED BY <4>1 DEF B!Newer
    <3> QED BY <1>1, <2>2, <3>1 DEF EntryFacts, B!NewerOfKind
  <2>8. name \in Injection(sight, B!NewerOfKind(id))
    <3>1. name \in [sight -> B!NewerOfKind(id)]
      BY <2>7
    <3>2. \A g, h \in sight : name[g] = name[h] => g = h
      BY <2>5, <2>6
    <3> QED BY <3>1, <3>2 DEF Injection, IsInjective
  <2>9. IsFiniteSet(B!NewerOfKind(id)) /\ B!Cardinality(B!NewerOfKind(id)) \in Nat
    BY <2>12
  <2> HIDE DEF sight, name
  <2>10. B!Cardinality(sight) <= B!Cardinality(B!NewerOfKind(id)) /\ IsFiniteSet(sight)
    BY <2>8, <2>9, SameCopyCount, FS_Injection
  <2>11. B!Cardinality(sight) \in Nat /\ B!KeepOf(f.kind) \in Nat
    BY <2>10, SameCopyCount, FS_CardinalityType DEF B!KeepOf, BackupBounds
  <2> QED BY <2>2, <2>4, <2>9, <2>10, <2>11
<1>4. CASE B!MarkerAges \/ B!Choose \/ B!Put \/ B!Scan \/ UNCHANGED B!vars \/ B!Manual \/ B!Night \/
             B!Secure \/ B!ZipOne \/ B!KeepBudget
  BY <1>2, <1>4 DEF B!MarkerAges, B!Choose, B!Put, B!Scan, B!vars, B!Manual, B!Night, B!Secure,
     B!ZipOne, B!KeepBudget, B!history
<1>5. ASSUME NEW p \in B!Procs,
             \/ B!Begin(p) \/ B!Enter(p) \/ B!NoCopyNeeded(p) \/ B!CopyFirst(p)
             \/ B!CopyFails(p) \/ B!NoCopyTried(p) \/ B!ApplyOne(p) \/ B!Finish(p)
      PROVE  B!KeptOfKind'
  BY <1>2, <1>5 DEF B!Begin, B!Enter, B!NoCopyNeeded, B!CopyFirst, B!CopyFails, B!NoCopyTried,
     B!ApplyOne, B!Finish, B!history
<1>6. ASSUME NEW p \in B!Procs, B!Exit(p) PROVE B!KeptOfKind'
  BY <1>2, <1>6 DEF B!Exit
<1> QED BY <1>3, <1>4, <1>5, <1>6 DEF B!Next

\* What went for a budget is remembered.
LEMMA SqueezedStays ==
  ASSUME [B!Next]_(B!vars) PROVE squeezed \subseteq squeezed'
<1>1. CASE B!KeepBudget
  BY <1>1 DEF B!KeepBudget
<1>2. CASE B!MarkerAges \/ B!Manual \/ B!Night \/ B!Scan \/ B!Drop \/ B!ZipOne \/ B!Choose \/
             B!Secure \/ B!Put \/ UNCHANGED B!vars
  BY <1>2 DEF B!MarkerAges, B!Manual, B!Night, B!Scan, B!Drop, B!ZipOne, B!Choose, B!Secure,
     B!Put, B!vars, B!history
<1>3. ASSUME NEW p \in B!Procs,
             \/ B!Begin(p) \/ B!Enter(p) \/ B!NoCopyNeeded(p) \/ B!CopyFirst(p)
             \/ B!CopyFails(p) \/ B!NoCopyTried(p) \/ B!ApplyOne(p) \/ B!Finish(p) \/ B!Exit(p)
      PROVE  UNCHANGED squeezed
  BY <1>3 DEF B!Begin, B!Enter, B!NoCopyNeeded, B!CopyFirst, B!CopyFails, B!NoCopyTried,
     B!ApplyOne, B!Finish, B!Exit, B!history
<1> QED BY <1>1, <1>2, <1>3 DEF B!Next

\* Of a kind that is copied for somebody there is a new copy only for one who starts.
NoNewer(sort) == \A id \in B!Ids' : copies'[id].kind = sort => id \in B!Ids /\ copies[id].kind = sort

\* Only an upgrade, and a restore, make a copy of their kind.
LEMMA NewOnes ==
  ASSUME Typed, CopiesInv, SweepInv, [B!Next]_(B!vars)
  PROVE  /\ (\E p \in B!Procs : B!CopyFirst(p)) \/ NoNewer("pre-v")
         /\ B!Secure \/ NoNewer("pre-restore")
<1> USE BackupNames DEF Typed
<1>0. FilesMove
  BY FilesMoved
<1>1. ASSUME UNCHANGED lastCopy PROVE NoNewer("pre-v") /\ NoNewer("pre-restore")
  <2>1. lastCopy' # lastCopy + 1
    BY <1>1 DEF B!TypeOK
  <2> QED BY <1>0, <2>1 DEF FilesMove, NoNewer
<1>2. ASSUME NEW sort \in B!Kinds, NEW other \in B!Kinds, B!Copy(sort), sort # other
      PROVE NoNewer(other)
  <2>1. CopyAdded(sort)
    BY <1>2, CopyDoes
  <2>2. \A id \in B!Ids : id \in B!Places /\ id # lastCopy'
    BY <2>1 DEF CopyAdded, B!Ids
  <2>3. \A id \in B!Ids : copies'[id] = copies[id]
    BY <2>1, <2>2 DEF CopyAdded
  <2>4. B!Ids' = B!Ids \cup {lastCopy'} /\ copies'[lastCopy'].kind = sort
    BY <2>1 DEF CopyAdded
  <2> QED BY <1>2, <2>3, <2>4 DEF NoNewer
<1>3. {"auto", "pre-v", "manual", "pre-restore"} = B!Kinds
  BY DEF B!Kinds
<1>4. CASE B!MarkerAges \/ B!Choose \/ B!Put \/ B!Scan \/ UNCHANGED B!vars \/ B!Drop \/ B!ZipOne \/
             B!KeepBudget
  BY <1>1, <1>4 DEF B!MarkerAges, B!Choose, B!Put, B!Scan, B!vars, B!files, B!Drop, B!ZipOne,
     B!KeepBudget
<1>5. CASE B!Manual
  BY <1>2, <1>3, <1>5 DEF B!Manual
<1>6. CASE B!Night
  BY <1>1, <1>2, <1>3, <1>6 DEF B!Night, B!files
<1>7. CASE B!Secure
  BY <1>1, <1>2, <1>3, <1>7 DEF B!Secure, B!files
<1>8. ASSUME NEW p \in B!Procs, B!CopyFirst(p) PROVE NoNewer("pre-restore")
  BY <1>2, <1>3, <1>8 DEF B!CopyFirst
<1>9. ASSUME NEW p \in B!Procs,
             \/ B!Begin(p) \/ B!Enter(p) \/ B!NoCopyNeeded(p)
             \/ B!CopyFails(p) \/ B!NoCopyTried(p) \/ B!ApplyOne(p) \/ B!Finish(p) \/ B!Exit(p)
      PROVE  UNCHANGED lastCopy
  BY <1>9 DEF B!Begin, B!Enter, B!NoCopyNeeded, B!CopyFails, B!NoCopyTried, B!ApplyOne, B!Finish,
     B!Exit, B!files
<1> QED BY <1>1, <1>4, <1>5, <1>6, <1>7, <1>8, <1>9 DEF B!Next

\* The parts of what is said of a process, one by one.
HasCopy(p) ==
  /\ NewestOf(proc[p].copied, "pre-v") /\ proc[p].copied <= lastCopy
  /\ proc[p].copied \in B!Ids => copies[proc[p].copied].kind = "pre-v"
  /\ \/ B!Squeezed(proc[p].copied, CopyBudgets)
     \/ Lasting(proc[p].copied) /\ (underway \/ copies[proc[p].copied].db = proc[p].from)
Upgrades(p) == proc[p].pc = "applying" =>
  /\ ~ underway /\ proc[p].copied = 0 => (B!Versions \ proc[p].from) \cap LargerMigrations = {}
  /\ proc[p].copied # 0 => HasCopy(p)

\* The copy an upgrade relies on stays, or goes for a budget.
LEMMA CopyStays ==
  ASSUME Typed, CopiesInv, SweepInv, [B!Next]_(B!vars), NEW p \in B!Procs, HasCopy(p),
         proc[p].copied # 0,
         NoNewer("pre-v"), proc'[p].copied = proc[p].copied, proc'[p].from = proc[p].from,
         underway => underway'
  PROVE  HasCopy(p)'
<1> USE BackupNames DEF Typed
<1> DEFINE id == proc[p].copied
<1>1. FilesMove /\ id \in B!Places /\ lastCopy \in Nat
  BY FilesMoved DEF B!TypeOK, BackupBounds, B!Places
<1>2. NewestOf(id, "pre-v")'
  BY DEF HasCopy, NewestOf, NoNewer
<1>3. id <= lastCopy'
  BY <1>1 DEF HasCopy, FilesMove, B!Places
<1>4. id \in B!Ids' => id \in B!Ids /\ copies'[id].kind = copies[id].kind /\
        copies'[id].db = copies[id].db
  BY <1>1 DEF HasCopy, FilesMove, B!Places
<1>5. \/ B!Squeezed(id, CopyBudgets)'
      \/ Lasting(id)' /\ (underway' \/ copies'[id].db = proc[p].from)
  <2>1. CASE B!Squeezed(id, CopyBudgets)
    BY <2>1, SqueezedStays DEF B!Squeezed
  <2>2. CASE Lasting(id) /\ (underway \/ copies[id].db = proc[p].from)
    <3>1. LastOfKind(id) /\ id \in B!Relied
      BY <2>2 DEF Lasting, LastOfKind, HasCopy, NewestOf, B!Relied
    <3>2. Lasting(id)' \/ Spared(id)
      BY <1>1, <2>2, <3>1, LastingStays
    <3>3. CASE Spared(id)
      BY <3>3 DEF Spared, B!Squeezed
    <3>4. CASE Lasting(id)'
      BY <1>4, <2>2, <3>4 DEF Lasting
    <3> QED BY <3>2, <3>3, <3>4
  <2> QED BY <2>1, <2>2 DEF HasCopy
<1> HIDE DEF id
<1>6. proc'[p].copied = id /\ proc'[p].from = proc[p].from /\ (id \in B!Ids => copies[id].kind = "pre-v")
  BY DEF id, HasCopy
<1>7. (id \in B!Ids)' => copies'[id].kind = "pre-v"
  BY <1>4, <1>6 DEF id
<1> QED BY <1>2, <1>3, <1>5, <1>6, <1>7 DEF HasCopy, id

\* An upgrade has its copy before it applies anything that needs one.
LEMMA UpgradeKeeps ==
  ASSUME Typed, CopiesInv, SweepInv, MigrateInv, UpgradeInv, [B!Next]_(B!vars)
  PROVE  UpgradeInv'
<1> USE BackupNames DEF Typed
<1>1. proc \in [B!Procs -> ProcType] /\ lastCopy \in Nat /\ \A p \in B!Procs : Upgrades(p)
  BY DEF B!TypeOK, ProcType, BackupBounds, UpgradeInv, Upgrades, HasCopy
<1> SUFFICES ASSUME NEW p \in B!Procs PROVE Upgrades(p)'
  BY DEF UpgradeInv, Upgrades, HasCopy
<1>2. ASSUME proc'[p].pc # "applying" PROVE Upgrades(p)'
  BY <1>2 DEF Upgrades
<1>3. ASSUME proc[p].pc = "applying", proc'[p].from = proc[p].from, proc'[p].copied = proc[p].copied,
             NoNewer("pre-v"), underway => underway'
      PROVE  Upgrades(p)'
  <2>1. proc[p].copied # 0 => HasCopy(p)'
    BY <1>1, <1>3, CopyStays DEF Upgrades
  <2> HIDE DEF HasCopy
  <2>2. ~ underway' /\ proc[p].copied = 0 => (B!Versions \ proc[p].from) \cap LargerMigrations = {}
    BY <1>1, <1>3 DEF Upgrades
  <2> QED BY <1>3, <2>1, <2>2 DEF Upgrades
<1>4. ASSUME proc'[p] = proc[p], underway => underway' PROVE Upgrades(p)'
  <2>1. CASE NoNewer("pre-v")
    BY <1>2, <1>3, <1>4, <2>1
  <2>2. ASSUME NEW q \in B!Procs, B!CopyFirst(q) PROVE Upgrades(p)'
    <3>1. proc[q].pc = "locked" /\ Goes(q, lastCopy')
      <4>1. lastCopy' \in 0..CopiesMade
        BY FilesMoved DEF FilesMove
      <4> QED BY <2>2, <4>1, ProcSteps DEF B!CopyFirst
    <3>2. q # p
      BY <1>4, <3>1 DEF Goes
    <3>3. proc[p].pc # "applying"
      BY <3>1, <3>2 DEF MigrateInv, Migrating
    <3> QED BY <1>2, <1>4, <3>3
  <2> QED BY <2>1, <2>2, NewOnes
<1>5. ASSUME NEW q \in B!Procs, Others(q), q # p, underway => underway' PROVE Upgrades(p)'
  BY <1>4, <1>5 DEF Others
<1>6. CASE B!MarkerAges \/ B!Manual \/ B!Scan \/ B!Drop \/ B!ZipOne \/ B!KeepBudget \/ B!Choose \/
             B!Secure \/ B!Put \/ UNCHANGED B!vars
  <2>1. UNCHANGED proc
    BY <1>6 DEF B!MarkerAges, B!Manual, B!Scan, B!Drop, B!ZipOne, B!KeepBudget, B!Choose,
       B!Secure, B!Put, B!vars, B!history
  <2>2. (UNCHANGED underway) \/ B!Put
    BY <1>6 DEF B!MarkerAges, B!Manual, B!Scan, B!Drop, B!ZipOne, B!KeepBudget, B!Choose,
       B!Secure, B!vars, B!history
  <2>3. B!Put /\ underway => underway'
    <3>1. ASSUME B!Put, underway PROVE underway'
      <4>1. CASE B!There(restore.file)
        BY <3>1, <4>1, Zenon DEF B!Put
      <4>2. CASE ~ B!There(restore.file)
        BY <3>1, <4>2, Zenon DEF B!Put
      <4> QED BY <4>1, <4>2
    <3> QED BY <3>1
  <2>4. underway => underway'
    BY <2>2, <2>3
  <2> QED BY <1>4, <2>1, <2>4
<1>7. CASE B!Night
  <2>1. /\ proc["server"].pc = "serving" /\ proc' = [proc EXCEPT !["server"].copied = 0]
        /\ UNCHANGED underway
    BY <1>7 DEF B!Night, B!Serving, B!history
  <2>2. CASE p = "server"
    <3>1. proc'[p].pc = "serving"
      BY <1>1, <2>1, <2>2 DEF ProcType
    <3> QED BY <1>2, <3>1
  <2>3. CASE p # "server"
    <3>1. proc'[p] = proc[p]
      BY <1>1, <2>1, <2>3
    <3> QED BY <1>4, <2>1, <3>1
  <2> QED BY <2>2, <2>3
<1>8. ASSUME NEW q \in B!Procs, B!Begin(q) \/ B!Enter(q) \/ B!Finish(q) PROVE Upgrades(p)'
  <2>1. Others(q) /\ proc'[q].pc # "applying" /\ UNCHANGED underway
    BY <1>8, ProcSteps DEF B!Begin, B!Enter, B!Finish, B!history
  <2> QED BY <1>2, <1>5, <2>1
<1>9. ASSUME NEW q \in B!Procs, Gone(q), UNCHANGED underway PROVE Upgrades(p)'
  <2>1. B!Down.pc = "down"
    BY DEF B!Down
  <2> QED BY <1>2, <1>5, <1>9, <2>1 DEF Gone
<1>10. ASSUME NEW q \in B!Procs, Goes(q, 0), UNCHANGED underway, proc[q].pc = "locked", B!Additive(q)
       PROVE  Upgrades(p)'
  <2>1. CASE q = p
    <3>1. ~ underway => proc[p].pending = B!Versions \ proc[p].from
      BY <1>10, <2>1 DEF MigrateInv, Migrating
    <3>2. proc'[p].copied = 0 /\ proc'[p].from = proc[p].from
      BY <1>10, <2>1 DEF Goes
    <3>3. ~ underway => (B!Versions \ proc[p].from) \cap LargerMigrations = {}
      BY <1>10, <2>1, <3>1 DEF B!Additive
    <3> QED BY <1>10, <3>2, <3>3 DEF Upgrades
  <2> QED BY <1>5, <1>10, <2>1 DEF Goes
<1>11. ASSUME NEW q \in B!Procs, B!NoCopyNeeded(q) \/ B!CopyFails(q) \/ B!NoCopyTried(q)
       PROVE Upgrades(p)'
  <2>1. proc[q].pc = "locked" /\ UNCHANGED underway
    BY <1>11 DEF B!NoCopyNeeded, B!CopyFails, B!NoCopyTried, B!history
  <2>2. (B!GoOn(q, 0) /\ B!Additive(q)) \/ B!Leave(q)
    BY <1>11 DEF B!NoCopyNeeded, B!CopyFails, B!NoCopyTried, B!Skip, B!MayGoWithout, B!Needed,
       B!Additive
  <2> QED BY <1>9, <1>10, <2>1, <2>2, ProcSteps
<1>12. ASSUME NEW q \in B!Procs, B!CopyFirst(q) PROVE Upgrades(p)'
  <2>0. "pre-v" \in B!Kinds
    BY DEF B!Kinds
  <2>1. /\ CopyAdded("pre-v") /\ lastCopy' \in 0..CopiesMade /\ proc[q].pc = "locked"
        /\ UNCHANGED <<underway, db, sweep>>
        /\ B!GoOn(q, lastCopy')
    BY <1>12, <2>0, CopyDoes DEF B!CopyFirst, B!history
  <2>2. Goes(q, lastCopy')
    BY <2>1, ProcSteps
  <2>3. CASE q = p
    <3>1. /\ proc'[p].copied = lastCopy' /\ proc'[p].from = proc[p].from
          /\ (~ underway => proc[p].from = db)
      BY <2>1, <2>2, <2>3 DEF Goes, MigrateInv, Migrating
    <3>6. PICK n \in Nat : n = lastCopy' /\ n = lastCopy + 1
      BY <1>1, <2>1 DEF CopyAdded
    <3>2. NewestOf(n, "pre-v")'
      <4>1. \A id \in B!Ids : id <= lastCopy /\ id \in Nat
        BY DEF CopiesInv, B!Ids, B!Places
      <4>2. \A id \in B!Ids' : id <= n
        BY <1>1, <2>1, <3>6, <4>1 DEF CopyAdded
      <4> QED BY <4>2 DEF NewestOf
    <3>3. lastCopy' \in B!Ids' /\ copies'[lastCopy'].kind = "pre-v" /\ copies'[lastCopy'].db = db
      BY <2>1 DEF CopyAdded
    <3>4. sweep'.pc = "dropping" => \E f \in B!Entries' : f.id = lastCopy' /\ f \notin sweep'.todo
      <4>1. PICK f \in B!Entries' : f.id = lastCopy'
        BY <2>0, <2>1, AddedEntry
      <4>2. sweep.pc = "dropping" => f \notin sweep.todo
        <5>1. sweep.pc = "dropping" => \A g \in sweep.todo : g.id \in B!Ids
          BY EntryIs DEF EntryFacts, SweepInv
        <5> QED BY <2>1, <4>1, <5>1 DEF CopyAdded
      <4> QED BY <2>1, <4>1, <4>2
    <3>5. lastCopy' # 0 /\ lastCopy' <= lastCopy'
      BY <2>1 DEF CopyAdded, B!Places
    <3>7. Lasting(n)'
      BY <3>3, <3>4, <3>6 DEF Lasting
    <3>8. HasCopy(p)'
      BY <2>1, <3>1, <3>2, <3>3, <3>5, <3>6, <3>7 DEF HasCopy
    <3> QED BY <3>1, <3>5, <3>8 DEF Upgrades
  <2> QED BY <1>5, <2>1, <2>2, <2>3 DEF Goes
<1>13. ASSUME NEW q \in B!Procs, B!ApplyOne(q) PROVE Upgrades(p)'
  <2>1. PICK v \in B!NextOf(proc[q].pending) :
          proc' = [proc EXCEPT ![q].pending = @ \ {v}] \/ B!Leave(q)
    BY <1>13 DEF B!ApplyOne
  <2>2. UNCHANGED <<underway, lastCopy>> /\ proc[q].pc = "applying"
    BY <1>13 DEF B!ApplyOne, B!files
  <2>3. CASE proc' = [proc EXCEPT ![q].pending = @ \ {v}]
    <3>1. CASE q = p
      <4>1. proc'[p].from = proc[p].from /\ proc'[p].copied = proc[p].copied /\ proc[p].pc = "applying"
        BY <1>1, <2>2, <2>3, <3>1 DEF ProcType
      <4>2. NoNewer("pre-v")
        <5>1. lastCopy' # lastCopy + 1
          BY <1>1, <2>2
        <5> QED BY <5>1, FilesMoved DEF FilesMove, NoNewer
      <4> QED BY <1>3, <2>2, <4>1, <4>2
    <3>2. CASE q # p
      <4>1. proc'[p] = proc[p]
        BY <1>1, <2>3, <3>2
      <4> QED BY <1>4, <2>2, <4>1
    <3> QED BY <3>1, <3>2
  <2>4. CASE B!Leave(q)
    BY <1>9, <2>2, <2>4, ProcSteps
  <2> QED BY <2>1, <2>3, <2>4
<1>14. ASSUME NEW q \in B!Procs, B!Exit(q) PROVE Upgrades(p)'
  <2>1. B!Leave(q) /\ UNCHANGED underway
    BY <1>14 DEF B!Exit
  <2> QED BY <1>9, <2>1, ProcSteps
<1> QED BY <1>6, <1>7, <1>8, <1>11, <1>12, <1>13, <1>14 DEF B!Next

\* The copy of what a restore replaces only goes for a budget with no room for two plain
\* ones: of the others all but the newest go before it.
LEMMA TwoFilesTake ==
  ASSUME Typed
  PROVE \A f, g \in B!Entries : \A X \in SUBSET {f, g} : B!Total(X) \in Nat /\ B!Total(X) <= 4
<1> SUFFICES ASSUME NEW f \in B!Entries, NEW g \in B!Entries, NEW X \in SUBSET {f, g}
             PROVE  B!Total(X) \in Nat /\ B!Total(X) <= 4
  OBVIOUS
<1>1. IsFiniteSet({f, g}) /\ B!Cardinality({f, g}) <= 2 /\ B!Cardinality({f, g}) \in Nat
  <2>1. {f, g} = {f} \cup {g} /\ IsFiniteSet({f}) /\ B!Cardinality({f}) = 1
    BY SameCopyCount, FS_Singleton
  <2>2. /\ IsFiniteSet({f} \cup {g})
        /\ B!Cardinality({f} \cup {g}) = IF g \in {f} THEN B!Cardinality({f}) ELSE B!Cardinality({f}) + 1
    BY <2>1, SameCopyCount, FS_AddElement
  <2>3. B!Cardinality({f} \cup {g}) = 1 \/ B!Cardinality({f} \cup {g}) = 2
    BY <2>1, <2>2
  <2> QED BY <2>1, <2>2, <2>3
<1>2. ASSUME NEW Y \in SUBSET {f, g} PROVE B!Cardinality(Y) \in Nat /\ B!Cardinality(Y) <= 2
  <2>1. IsFiniteSet(Y) /\ B!Cardinality(Y) <= B!Cardinality({f, g})
    BY <1>1, SameCopyCount, FS_Subset
  <2> QED BY <1>1, <2>1, SameCopyCount, FS_CardinalityType
<1> DEFINE plain == {h \in X : h.form = B!Plain}
<1>3. plain \in SUBSET {f, g} /\ B!Total(X) = B!Cardinality(X) + B!Cardinality(plain)
  BY DEF B!Total
<1> HIDE DEF plain
<1> QED BY <1>2, <1>3

\* A budget of four lets the newest and the copy of what a restore replaces stay.
LEMMA SafetyInBudget ==
  ASSUME Typed, CopiesInv, SweepInv, NEW id \in B!Ids, id = lastCopy, sweep.pc = "zipping",
         copies[id].kind = "pre-restore", copies[id].forms # {B!Plain, B!Packed},
         NEW budget \in Nat, budget \notin 0..3, copies' = B!Without(B!Over(budget))
  PROVE  id \in B!Ids'
<1> USE BackupNames DEF Typed
<1>1. EntryFacts /\ sweep.newest \in B!Entries
  BY EntryIs DEF SweepInv
<1>2. PICK f \in B!Entries :
        f.id = id /\ f.kind = "pre-restore" /\ f = B!File(f.id, f.form) /\ f.form \in copies[f.id].forms
  BY <1>1 DEF EntryFacts
<1>3. \A g \in B!Entries : g.id = id => g = f
  <2> SUFFICES ASSUME NEW g \in B!Entries, g.id = id PROVE g = f
    OBVIOUS
  <2>1. /\ g.form \in copies[id].forms /\ g = B!File(g.id, g.form)
        /\ {g.form, f.form} \subseteq {B!Plain, B!Packed}
    BY <1>1 DEF EntryFacts
  <2>2. copies[id].forms \subseteq {B!Plain, B!Packed}
    BY DEF B!TypeOK, B!Ids
  <2>3. g.form = f.form
    BY <1>2, <2>1, <2>2
  <2> QED BY <1>2, <2>1, <2>3
<1>4. \A g \in B!Entries : g # f => B!Sooner(g, f)
  <2> SUFFICES ASSUME NEW g \in B!Entries, g # f PROVE B!Sooner(g, f)
    OBVIOUS
  <2>1. g.id # id /\ g.id \in B!Ids /\ g.id <= lastCopy /\ g.id \in Nat /\ lastCopy \in Nat
    BY <1>1, <1>3 DEF EntryFacts, CopiesInv, B!TypeOK, BackupBounds
  <2>2. B!Newer(f, g)
    BY <1>2, <2>1 DEF B!Newer
  <2> QED BY <1>2, <2>2 DEF B!Sooner
<1> DEFINE all == {g \in B!Entries : B!MayGo(g)}
           rest == B!Entries \ {g \in all : B!Sooner(g, f)}
<1>5. rest \subseteq {sweep.newest, f}
  BY <1>4 DEF B!MayGo
<1>6. B!Total(rest) \in Nat /\ B!Total(rest) <= 4
  BY <1>1, <1>5, TwoFilesTake
<1>7. f \notin B!Over(budget)
  <2>1. ASSUME f \in B!Over(budget) PROVE B!Total(rest) > budget
    BY <2>1 DEF B!Over
  <2> HIDE DEF rest
  <2> QED BY <1>6, <2>1
<1> QED BY <1>2, <1>7, WithoutDoes

\* The copy of what a restore replaces stays until the restore is over.
LEMMA SafetyKeeps ==
  ASSUME Typed, CopiesInv, SweepInv, SafetyInv, [B!Next]_(B!vars)
  PROVE  SafetyInv'
<1> USE BackupNames DEF Typed
<1>1. /\ lastCopy \in Nat /\ lastCopy' \in Nat /\ FilesMove /\ restore \in RestoreType
      /\ copies \in [B!Places -> CopyType] /\ squeezed \subseteq squeezed'
  BY FilesMoved, SqueezedStays DEF FilesMove, B!TypeOK, BackupBounds, RestoreType, CopyType
<1>2. ASSUME restore'.pc \notin {"secured", "restarting"} PROVE SafetyInv'
  BY <1>2 DEF SafetyInv
<1>3. ASSUME restore.pc \in {"secured", "restarting"}, restore'.safety = restore.safety,
             NoNewer("pre-restore"),
             \A id \in B!Ids' : copies'[id].forms = {B!Plain, B!Packed} =>
               id \in B!Ids /\ copies[id].forms = {B!Plain, B!Packed}
      PROVE  SafetyInv'
  <2>0. restore.safety \in 1..lastCopy /\ restore.safety \in B!Places /\ restore.safety \in 1..lastCopy'
    BY <1>1, <1>3 DEF SafetyInv, B!TypeOK, FilesMove, BackupBounds, B!Places
  <2> PICK id \in B!Places : id = restore.safety
    BY <2>0
  <2>1. /\ NewestOf(id, "pre-restore")
        /\ id \in B!Ids => /\ copies[id].kind = "pre-restore" /\ copies[id].forms # {B!Plain, B!Packed}
        /\ Lasting(id) \/ B!Squeezed(id, IF lastCopy > id THEN CopyBudgets ELSE 0..3)
    BY <1>3 DEF SafetyInv
  <2>2. id \in 1..lastCopy /\ id \in 1..lastCopy'
    BY <2>0
  <2>3. id \in B!Ids' => /\ id \in B!Ids /\ copies'[id].kind = "pre-restore"
                         /\ copies'[id].forms # {B!Plain, B!Packed}
    BY <1>1, <1>3, <2>1, <2>2 DEF FilesMove
  <2>4. NewestOf(id, "pre-restore")'
    BY <1>3, <2>1 DEF NewestOf, NoNewer
  <2>5. Lasting(id)' \/ B!Squeezed(id, IF lastCopy > id THEN CopyBudgets ELSE 0..3)'
    <3>1. CASE B!Squeezed(id, IF lastCopy > id THEN CopyBudgets ELSE 0..3)
      <4>1. PICK budget \in IF lastCopy > id THEN CopyBudgets ELSE 0..3 : <<id, budget>> \in squeezed'
        BY <1>1, <3>1 DEF B!Squeezed
      <4>2. budget \in CopyBudgets
        BY <1>1, <3>1, <4>1, BackupTypes DEF B!TypeOK
      <4>3. lastCopy' > id \/ (lastCopy' = id /\ lastCopy = id)
        BY <1>1, <2>2 DEF FilesMove
      <4> QED BY <1>1, <2>2, <4>1, <4>2, <4>3 DEF B!Squeezed
    <3>2. CASE Lasting(id)
      <4>1. LastOfKind(id) /\ id \in B!Relied
        BY <2>1, <3>2 DEF Lasting, LastOfKind, NewestOf, B!Relied
      <4>2. Lasting(id)' \/ (B!KeepBudget /\ Spared(id))
        BY <2>2, <3>2, <4>1, LastingStays
      <4>3. CASE B!KeepBudget
        <5>1. PICK budget \in CopyBudgets : /\ copies' = B!Without(B!Over(budget))
                                            /\ squeezed' = squeezed \cup {<<deleted, budget>>
                                                 : deleted \in B!Relied \ B!IdsAfter}
          BY <4>3 DEF B!KeepBudget
        <5>2. /\ lastCopy' = lastCopy /\ B!IdsAfter = B!Ids' /\ sweep.pc = "zipping"
              /\ sweep' = B!NoPass /\ B!NoPass.pc = "idle"
          BY <4>3 DEF B!KeepBudget, B!IdsAfter, B!Ids, B!NoPass
        <5>3. CASE id \in B!Ids'
          BY <5>2, <5>3 DEF Lasting
        <5>4. CASE id \notin B!Ids'
          <6>1. <<id, budget>> \in squeezed'
            BY <4>1, <5>1, <5>2, <5>4
          <6>2. CASE lastCopy > id
            BY <5>2, <6>1, <6>2 DEF B!Squeezed
          <6>3. CASE ~ (lastCopy > id)
            <7>1. /\ id = lastCopy /\ id \in B!Ids /\ copies[id].kind = "pre-restore"
                  /\ copies[id].forms # {B!Plain, B!Packed}
              BY <1>1, <2>1, <2>2, <3>2, <6>3 DEF Lasting
            <7>2. budget \in Nat
              BY DEF BackupBounds
            <7>3. budget \in 0..3
              BY <5>1, <5>2, <5>4, <7>1, <7>2, SafetyInBudget
            <7> QED BY <5>2, <6>1, <6>3, <7>3 DEF B!Squeezed
          <6> QED BY <6>2, <6>3
        <5> QED BY <5>3, <5>4
      <4> QED BY <4>2, <4>3
    <3> QED BY <2>1, <3>1, <3>2
  <2>6. restore'.safety = id
    BY <1>3
  <2> QED BY <2>2, <2>3, <2>4, <2>5, <2>6 DEF SafetyInv
<1> DEFINE OneForm == \A id \in B!Ids' : copies'[id].forms = {B!Plain, B!Packed} =>
  id \in B!Ids /\ copies[id].forms = {B!Plain, B!Packed}
<1>4. ASSUME FilesStay PROVE OneForm
  BY <1>4, StillThere DEF FilesStay
<1>5. ASSUME NEW sort \in B!Kinds, B!Copy(sort) PROVE OneForm
  <2>1. CopyAdded(sort)
    BY <1>5, CopyDoes
  <2> QED BY <1>1, <2>1 DEF CopyAdded, B!Ids
<1>6. ASSUME NEW deleted, copies' = B!Without(deleted) PROVE OneForm
  <2>1. \A id \in B!Places :
          copies'[id].forms \subseteq copies[id].forms /\ copies[id].forms \subseteq {B!Plain, B!Packed}
    BY <1>6, WithoutDoes DEF B!TypeOK
  <2>2. B!Ids' \subseteq B!Ids /\ B!Ids \subseteq B!Places
    BY <1>6, WithoutDoes DEF B!Ids
  <2> QED BY <2>1, <2>2
<1>7. {"auto", "pre-v", "manual", "pre-restore"} = B!Kinds
  BY DEF B!Kinds
<1>8. ASSUME UNCHANGED restore, OneForm, NoNewer("pre-restore") PROVE SafetyInv'
  BY <1>2, <1>3, <1>8
<1> HIDE DEF OneForm
<1>9. CASE B!Secure
  <2>1. CASE B!Given
    <3>1. B!NoRestore.pc = "idle"
      BY DEF B!NoRestore
    <3> QED BY <1>2, <2>1, <3>1 DEF B!Given
  <2>2. CASE B!Copy("pre-restore") /\ restore' = [restore EXCEPT !.pc = "secured", !.safety = lastCopy']
    <3>0. "pre-restore" \in B!Kinds
      BY DEF B!Kinds
    <3>1. CopyAdded("pre-restore") /\ UNCHANGED sweep
      BY <1>9, <2>2, <3>0, CopyDoes DEF B!Secure
    <3>2. PICK n \in B!Places : n = lastCopy' /\ n = lastCopy + 1
      BY <3>1 DEF CopyAdded
    <3>3. restore'.safety = n
      BY <1>1, <2>2, <3>2 DEF RestoreType
    <3>4. NewestOf(n, "pre-restore")'
      <4>1. \A id \in B!Ids : id <= lastCopy /\ id \in Nat
        BY DEF CopiesInv, B!Ids, B!Places
      <4>2. \A id \in B!Ids' : id <= n
        BY <1>1, <3>1, <3>2, <4>1 DEF CopyAdded
      <4> QED BY <4>2 DEF NewestOf
    <3>5. n \in B!Ids' /\ copies'[n].kind = "pre-restore" /\ copies'[n].forms # {B!Plain, B!Packed}
      BY <3>1, <3>2 DEF CopyAdded
    <3>6. sweep'.pc = "dropping" => \E f \in B!Entries' : f.id = n /\ f \notin sweep'.todo
      <4>1. PICK f \in B!Entries' : f.id = n
        BY <3>0, <3>1, <3>2, AddedEntry
      <4>2. sweep.pc = "dropping" => f \notin sweep.todo
        <5>1. sweep.pc = "dropping" => \A g \in sweep.todo : g.id \in B!Ids
          BY EntryIs DEF EntryFacts, SweepInv
        <5> QED BY <3>1, <3>2, <4>1, <5>1 DEF CopyAdded
      <4> QED BY <3>1, <4>1, <4>2
    <3>7. Lasting(n)'
      BY <3>5, <3>6 DEF Lasting
    <3>8. n \in 1..lastCopy'
      BY <1>1, <3>2
    <3> QED BY <3>3, <3>4, <3>5, <3>7, <3>8 DEF SafetyInv
  <2> QED BY <1>9, <2>1, <2>2 DEF B!Secure
<1>10. CASE ~ B!Secure
  <2>1. NoNewer("pre-restore")
    BY <1>10, NewOnes
  <2>2. ASSUME B!MarkerAges \/ B!Manual \/ B!Night \/ B!Scan \/ B!Drop \/ B!KeepBudget \/
                 UNCHANGED B!vars
        PROVE SafetyInv'
    <3>1. UNCHANGED restore
      BY <2>2 DEF B!MarkerAges, B!Manual, B!Night, B!Scan, B!Drop, B!KeepBudget, B!vars
    <3>2. OneForm
      <4>1. CASE B!MarkerAges \/ B!Scan \/ UNCHANGED B!vars
        BY <1>4, <4>1 DEF B!MarkerAges, B!Scan, B!vars, B!files, FilesStay
      <4>2. CASE B!Manual
        BY <1>5, <1>7, <4>2 DEF B!Manual
      <4>3. CASE B!Night
        BY <1>4, <1>5, <1>7, <4>3 DEF B!Night, B!files, FilesStay
      <4>4. CASE B!Drop \/ B!KeepBudget
        BY <1>6, <4>4 DEF B!Drop, B!KeepBudget
      <4> QED BY <2>2, <4>1, <4>2, <4>3, <4>4
    <3> QED BY <1>8, <2>1, <3>1, <3>2
  <2>3. ASSUME B!ZipOne PROVE SafetyInv'
    <3>1. PICK f \in sweep.todo : f \in B!Entries /\ copies' = B!WithForms(f.id, {B!Packed})
      BY <2>3, SweepSteps
    <3>2. {B!Packed} \in SUBSET {B!Plain, B!Packed} /\ {B!Packed} # {} /\ B!Plain \notin {B!Packed}
      OBVIOUS
    <3>3. /\ copies'[f.id].forms = {B!Packed} /\ B!Ids' = B!Ids
          /\ \A id \in B!Places \ {f.id} : copies'[id] = copies[id]
      BY <3>1, <3>2, FormsDo
    <3>4. OneForm
      BY <3>2, <3>3 DEF OneForm, B!Ids
    <3>5. UNCHANGED restore
      BY <2>3 DEF B!ZipOne
    <3> QED BY <1>8, <2>1, <3>4, <3>5
  <2>4. ASSUME B!Choose PROVE SafetyInv'
    <3>1. restore'.pc = "looked_at"
      BY <2>4 DEF B!Choose
    <3> QED BY <1>2, <3>1
  <2>5. ASSUME B!Put PROVE SafetyInv'
    <3>1. FilesStay /\ restore.pc = "secured"
      BY <2>5 DEF B!Put, FilesStay, B!files
    <3>2. OneForm
      BY <1>4, <3>1
    <3>3. CASE restore' = [restore EXCEPT !.pc = "restarting"]
      <4>1. restore'.safety = restore.safety
        BY <1>1, <3>3 DEF RestoreType
      <4> QED BY <1>3, <2>1, <3>1, <3>2, <4>1 DEF OneForm
    <3>4. CASE restore' = B!NoRestore
      <4>1. B!NoRestore.pc = "idle"
        BY DEF B!NoRestore
      <4> QED BY <1>2, <3>4, <4>1
    <3> QED BY <2>5, <3>3, <3>4 DEF B!Put
  <2>6. ASSUME NEW p \in B!Procs,
               \/ B!Begin(p) \/ B!Enter(p) \/ B!NoCopyNeeded(p)
               \/ B!CopyFails(p) \/ B!NoCopyTried(p) \/ B!ApplyOne(p) \/ B!Finish(p)
        PROVE  SafetyInv'
    <3>1. FilesStay /\ UNCHANGED restore
      BY <2>6 DEF B!Begin, B!Enter, B!NoCopyNeeded, B!CopyFails, B!NoCopyTried, B!ApplyOne,
         B!Finish, B!files, FilesStay
    <3> QED BY <1>4, <1>8, <2>1, <3>1
  <2>7. ASSUME NEW p \in B!Procs, B!CopyFirst(p) PROVE SafetyInv'
    BY <1>5, <1>7, <1>8, <2>1, <2>7 DEF B!CopyFirst
  <2>8. ASSUME NEW p \in B!Procs, B!Exit(p) PROVE SafetyInv'
    <3>1. CASE p = "server"
      <4>1. restore' = B!NoRestore /\ B!NoRestore.pc = "idle"
        BY <2>8, <3>1 DEF B!Exit, B!NoRestore
      <4> QED BY <1>2, <4>1
    <3>2. CASE p # "server"
      <4>1. FilesStay /\ UNCHANGED restore
        BY <2>8, <3>2 DEF B!Exit, FilesStay
      <4> QED BY <1>4, <1>8, <2>1, <4>1
    <3> QED BY <3>1, <3>2
  <2> QED BY <1>10, <2>2, <2>3, <2>4, <2>5, <2>6, <2>7, <2>8 DEF B!Next
<1> QED BY <1>9, <1>10

\* Every step.
LEMMA BackupNext == BackupBounds => (BackupInv /\ [B!Next]_(B!vars) => BackupInv')
<1> SUFFICES ASSUME BackupInv, [B!Next]_(B!vars) PROVE BackupInv'
  OBVIOUS
<1>1. /\ Typed /\ CopiesInv /\ SweepInv /\ MigrateInv /\ UpgradeInv /\ SafetyInv /\ B!LastStays
      /\ B!KeptOfKind
  BY DEF BackupInv, Typed
<1>2. B!TypeOK'
  BY <1>1, BackupTypes
<1>3. BackupBounds'
  BY DEF BackupInv, BackupBounds
<1>4. CopiesInv' /\ SweepInv'
  BY <1>1, CopiesKeep, SweepKeeps
<1>5. MigrateInv' /\ UpgradeInv'
  BY <1>1, MigrateKeeps, UpgradeKeeps
<1>6. SafetyInv' /\ B!LastStays' /\ B!KeptOfKind'
  BY <1>1, SafetyKeeps, LastKept, KindKept
<1> QED BY <1>2, <1>3, <1>4, <1>5, <1>6 DEF BackupInv

\* What the invariant says of the copies.
LEMMA BackupSafe == BackupInv => B!BackupsSound /\ B!TypeOK
<1> SUFFICES ASSUME BackupInv PROVE B!BackupsSound
  BY DEF BackupInv
<1> USE DEF BackupInv
<1>1. B!ServedIsCurrent /\ B!LastStays /\ B!KeptOfKind
  BY DEF MigrateInv
<1>2. B!InOrder
  BY DEF B!InOrder, MigrateInv, Prefixes
<1>3. B!UpgradeHasCopy
  <2> SUFFICES ASSUME NEW p \in B!Procs, proc[p].pc = "applying", ~ underway,
                      (B!Versions \ (proc[p].from \cup proc[p].pending)) \cap LargerMigrations # {}
               PROVE  B!Squeezed(proc[p].copied, CopyBudgets) \/ (proc[p].copied \in B!Ids /\
                        copies[proc[p].copied].db = proc[p].from)
    BY DEF B!UpgradeHasCopy
  <2>1. (B!Versions \ proc[p].from) \cap LargerMigrations # {}
    OBVIOUS
  <2>2. proc[p].copied # 0
    BY <2>1 DEF UpgradeInv
  <2> QED BY <2>2 DEF UpgradeInv, Lasting
<1>4. B!SafetyStays
  BY DEF B!SafetyStays, SafetyInv, Lasting
<1> QED BY <1>1, <1>2, <1>3, <1>4 DEF B!BackupsSound

\* Whoever migrates or restores has the copy to go back to, and a pass leaves the
\* newest copies, for every number of migrations, copies, failures and stops
\* (migrations/runner.py, services/backup_service.py, routes/system.py).
THEOREM BackupsHold == BackupBounds => (B!Spec => []B!BackupsSound)
<1> SUFFICES ASSUME BackupBounds PROVE B!Spec => []B!BackupsSound
  OBVIOUS
<1>1. B!Init => BackupInv
  BY BackupStart
<1>2. BackupInv /\ [B!Next]_(B!vars) => BackupInv'
  BY BackupNext
<1>3. BackupInv => B!BackupsSound
  BY BackupSafe
<1> QED BY <1>1, <1>2, <1>3, PTL DEF B!Spec
===============================================================================
