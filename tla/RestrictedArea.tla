---------------------------- MODULE RestrictedArea ----------------------------
(***************************************************************************)
(* One restricted area that is always armed: announcements of entry        *)
(* (routes/restricted_areas.py), the compiled snapshot that requests and   *)
(* the background loop renew (services/restricted_areas.py), and the entry *)
(* rules the engine evaluates on each frame of one camera's track          *)
(* (services/restricted_area_engine.py).                                   *)
(*                                                                         *)
(* The engine reads only the snapshot; a frame may be evaluated between    *)
(* any two steps of a request.  Two requests of one person that overlap    *)
(* act as two people's: neither replaces the other's announcement.         *)
(***************************************************************************)
EXTENDS Integers, FiniteSets

CONSTANTS
  People,                \* who announces, one request each at a time
  Length,                \* for how long
  Grace, EarlyGrace,     \* overstay grace; EARLY_END_GRACE_SEC
  Slack,                 \* an entry counts as announced this long before
  Window,                \* an ended announcement is looked at for so long
  MaxTime, MaxEntries    \* bounds

VARIABLES
  clock,
  entries,       \* the stored announcements
  snapshot,      \* those the engine knows
  ask,           \* a request: "idle", or "refresh" once it is committed
  compiled,      \* what a refresh under way has read
  assured,       \* stored announcements that a refresh has shown the engine
  track,         \* what the engine keeps of the person it follows
  cooling,       \* triggers whose cooldown runs
  verdict        \* the last frame: "right", "false" alarm or "missed" intruder

refresh == <<snapshot, compiled, assured>>
engine == <<track, cooling, verdict>>
vars == <<clock, entries, ask, refresh, engine>>

Never == MaxTime + Length + 1
Callers == People \cup {"loop"}
Triggers == {"entry", "overstay"}
NoRefresh == [under |-> "none", anns |-> {}]

Sooner(a, b) == IF a < b THEN a ELSE b
End(a) == Sooner(a.until, a.ended)
Active(a) == a.start <= clock /\ clock < End(a)
GraceUntil(a) == IF a.ended < a.until THEN a.ended + EarlyGrace ELSE a.until + Grace

NewTrack == [stay |-> "none", first |-> Never, alerted |-> {}, fired |-> {}]

Init ==
  /\ clock = 0 /\ entries = {} /\ snapshot = {}
  /\ ask = [c \in Callers |-> "idle"]
  /\ compiled = [c \in Callers |-> NoRefresh] /\ assured = {}
  /\ track = NewTrack /\ cooling = {} /\ verdict = "right"

(***************************************************************************)
(* Requests: each commits, and then refreshes before it answers.           *)
(***************************************************************************)
Commit(c) ==
  /\ ask[c] = "idle"
  /\ ask' = [ask EXCEPT ![c] = "refresh"]
  /\ assured' = assured \cap entries'
  /\ UNCHANGED <<clock, snapshot, compiled, engine>>

Open(u) == {a \in entries : a.by = u /\ a.ended = Never /\ clock < a.until}
WithEnded(some) == (entries \ some) \cup {[a EXCEPT !.ended = clock] : a \in some}

\* announcing again replaces the person's announcement
Announce(u) ==
  /\ Cardinality(entries) < MaxEntries
  /\ entries' = WithEnded(Open(u))
                \cup {[id |-> Cardinality(entries), by |-> u, start |-> clock,
                       until |-> clock + Length, ended |-> Never]}
  /\ Commit(u)

EndAnnouncement(u) ==
  /\ \E a \in Open(u) : entries' = WithEnded({a})
  /\ Commit(u)

(***************************************************************************)
(* refresh(): under the lock, reads what is stored and swaps the snapshot; *)
(* the last good one stays if that fails, and a request is answered all    *)
(* the same.                                                               *)
(***************************************************************************)
\* For a mutant: nothing holds a second refresh back.
FreeAlways == TRUE
Free == \A c \in Callers : compiled[c] = NoRefresh

Compile(c) ==
  /\ (ask[c] = "refresh") \/ (c = "loop")
  /\ Free /\ compiled[c] = NoRefresh
  /\ compiled' = [compiled EXCEPT ![c] =
       [under |-> "lock", anns |-> {a \in entries : clock - End(a) <= Window}]]
  /\ UNCHANGED <<clock, entries, ask, snapshot, assured, engine>>

Compiled(c) ==
  /\ compiled[c] # NoRefresh
  /\ compiled' = [compiled EXCEPT ![c] = NoRefresh]
  /\ ask' = [ask EXCEPT ![c] = "idle"]
  /\ UNCHANGED <<clock, entries, engine>>

Swap(c) ==
  /\ Compiled(c)
  /\ snapshot' = compiled[c].anns
  /\ assured' = (assured \cup compiled[c].anns) \cap entries

RefreshFails(c) ==
  /\ Compiled(c)
  /\ UNCHANGED <<snapshot, assured>>

(***************************************************************************)
(* The engine.                                                             *)
(***************************************************************************)
Announced == \E a \in snapshot : Active(a)

\* For a mutant: an ended announcement covers whoever is still inside,
\* whenever they came.
CoversAll(a, t) == ~Active(a) /\ clock - End(a) < Window
Covers(a, t) ==
  /\ ~Active(a) /\ clock - End(a) < Window
  /\ a.start - Slack <= t.first /\ t.first < End(a)

\* _covering_announcement: the one that ended last decides.
Cover(t) ==
  LET found == {a \in snapshot : Covers(a, t)}
      latest == {a \in found : \A b \in found : End(b) <= End(a)}
  IN IF found = {} THEN "none"
     ELSE IF \E a \in latest : clock < GraceUntil(a) THEN "covered" ELSE "overstay"

\* The entry part of _inside_triggers: which trigger fires for a confirmed stay.
Wanted(t) ==
  IF Announced \/ Cover(t) = "covered" THEN {}
  ELSE {IF Cover(t) = "overstay" THEN "overstay" ELSE "entry"}
Fires(t) == {k \in Wanted(t) : k \notin t.alerted /\ k \notin cooling}

(***************************************************************************)
(* What is stored, against what the frame did.                             *)
(***************************************************************************)
\* Within an announcement, or in its grace if there is no other.
Allowed(t) ==
  \E a \in assured :
    \/ Active(a)
    \/ entries = {a} /\ Covers(a, t) /\ clock < GraceUntil(a)

\* Every announcement and its grace are over, and known to be.
Guarded ==
  /\ entries \subseteq assured
  /\ \A a \in entries : GraceUntil(a) <= clock

\* An overstay that is held back by its cooldown passes the entry off as raised.
Step(t) ==
  LET fired == Fires(t)
      passed == IF Wanted(t) = {"overstay"} THEN {"entry"} ELSE {}
      after == [t EXCEPT !.alerted = @ \cup fired \cup passed, !.fired = @ \cup fired]
  IN /\ track' = after
     /\ cooling' = cooling \cup fired
     /\ verdict' = IF fired # {} /\ Allowed(t) THEN "false"
                   ELSE IF Guarded /\ after.fired = {} /\ cooling = {}
                        THEN "missed" ELSE "right"

\* A frame with the person inside; a gap of more than EXIT_GRACE_SEC since the
\* last one starts the stay anew.  A second frame confirms it once
\* min_presence_sec has passed, which it has when the clock moves on.
Inside(gap, brief) ==
  LET t == [track EXCEPT !.stay = IF @ = "none" \/ gap THEN "new" ELSE @,
                         !.first = IF @ = Never THEN clock ELSE @]
  IN /\ IF ~gap /\ (track.stay = "old" \/ (track.stay = "new" /\ ~brief))
        THEN Step(t)
        ELSE track' = t /\ verdict' = "right" /\ UNCHANGED cooling
     /\ UNCHANGED <<clock, entries, ask, refresh>>

\* A frame with the person outside for longer than EXIT_GRACE_SEC.
Outside ==
  /\ track.stay # "none" /\ track' = [track EXCEPT !.stay = "none"]
  /\ UNCHANGED <<clock, entries, ask, refresh, cooling, verdict>>

\* The tracker loses the person and takes them for someone else.
Lost ==
  /\ track # NewTrack /\ track' = NewTrack
  /\ UNCHANGED <<clock, entries, ask, refresh, cooling, verdict>>

\* A unit of time is longer than a cooldown and than min_presence_sec.
Tick ==
  /\ clock < MaxTime /\ clock' = clock + 1
  /\ track' = [track EXCEPT !.stay = IF @ = "new" THEN "old" ELSE @]
  /\ cooling' = {}
  /\ UNCHANGED <<entries, ask, refresh, verdict>>

Next ==
  \/ \E u \in People : Announce(u) \/ EndAnnouncement(u)
  \/ \E c \in Callers : Compile(c) \/ Swap(c) \/ RefreshFails(c)
  \/ \E gap, brief \in BOOLEAN : Inside(gap, brief)
  \/ Outside \/ Lost \/ Tick

Spec == Init /\ [][Next]_vars

-----------------------------------------------------------------------------
(* Properties.                                                             *)

Announcement == [id : 0..MaxEntries, by : People, start : 0..MaxTime, until : 0..Never, ended : 0..Never]

TypeOK ==
  /\ clock \in 0..MaxTime /\ entries \subseteq Announcement /\ snapshot \subseteq Announcement
  /\ ask \in [Callers -> {"idle", "refresh"}]
  /\ \A c \in Callers : compiled[c].under \in {"none", "lock"} /\ compiled[c].anns \subseteq Announcement
  /\ assured \subseteq entries
  /\ track.stay \in {"none", "new", "old"} /\ track.first \in 0..Never
  /\ track.fired \subseteq track.alerted /\ track.alerted \subseteq Triggers
  /\ cooling \subseteq Triggers /\ verdict \in {"right", "false", "missed"}

\* What the engine does with a frame agrees with what is stored: no alarm on
\* somebody whom an announcement that was answered covers, and nobody stays
\* inside a guarded area without one, cooldowns aside.
AreaSound == verdict = "right"
=============================================================================
