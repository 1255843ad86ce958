------------------------------ MODULE Tripwires ------------------------------
(***************************************************************************)
(* Line crossings (services/tripwire_engine.py): one track against one     *)
(* line, from foot points to settled crossings, and the buffer from which  *)
(* flushes move them to the table.                                         *)
(*                                                                         *)
(* The line is x = 0 for y = 0 and goes no further: a path crosses it when *)
(* it begins and ends at y = 0, and passes its end otherwise.  x = 0 is    *)
(* inside the band.  Each analysed frame is one unit of time.              *)
(***************************************************************************)
EXTENDS Integers, Sequences, FiniteSets

CONSTANTS
  Confirm,     \* TRIPWIRE_CONFIRM_FRAMES
  Repeat,      \* TRIPWIRE_MIN_REPEAT_SEC, more than 0: a crossing waits (1 s unless set)
  Ttl,         \* STATE_TTL_SEC
  Keep,        \* crossings kept of a flush that failed
  Flushers,
  MaxTime,     \* bound: frames
  MaxTroubles  \* bound: flushes that fail, restarts

VARIABLES
  frames,   \* time
  wire,     \* WireTrackState of the track
  since,    \* what the state has lived through: its first side, the net of its
            \* crossings and of its ways round the end, a wrong cancellation
  settled,  \* crossings so far
  events,   \* those in _pending_events
  moving,   \* those each flush under way has drained
  rows,     \* tripwire_events
  gone,     \* those dropped: not counted, too many, lost with the process
  failures

wireVars == <<frames, wire, since>>
flushVars == <<moving, rows, failures>>
vars == <<frames, wire, since, settled, events, moving, rows, gone, failures>>

Sides == {-1, 1}
Foot == [x : -1..1, y : 0..1]
Somewhere == [x |-> 0, y |-> 0]
None == [side |-> 0, at |-> 0]
Fresh == [side |-> 0, anchor |-> Somewhere, pendingSide |-> 0, pendingCount |-> 0,
          tentative |-> None, seenAt |-> 0]
Begun == [first |-> 0, net |-> 0, round |-> 0, wrong |-> FALSE]

Init ==
  /\ frames = 0 /\ wire = Fresh /\ since = Begun /\ settled = 0
  /\ events = <<>> /\ moving = [f \in Flushers |-> <<>>] /\ rows = <<>> /\ gone = {} /\ failures = 0

Trouble == failures < MaxTroubles /\ failures' = failures + 1

-------------------------------------------------------------------------------
(* step_crossing.                                                           *)

Crosses(p, q) == p.y = 0 /\ q.y = 0

\* The tentative crossing that has stood long enough, if any.
Due(w, now) == IF w.tentative # None /\ now - w.tentative.at >= Repeat THEN w.tentative ELSE None
Rest(w, now) == [w EXCEPT !.tentative = IF Due(w, now) # None THEN None ELSE @, !.seenAt = now]

Cleared(w, s) == (IF w.pendingSide = s THEN w.pendingCount ELSE 0) + 1 >= Confirm

Waits(w, s) ==
  [w EXCEPT !.pendingSide = s, !.pendingCount = (IF w.pendingSide = s THEN @ ELSE 0) + 1]
Stands(w, foot) == [w EXCEPT !.side = foot.x, !.anchor = foot, !.pendingSide = 0, !.pendingCount = 0]

\* For a mutant: stepping back leaves the first crossing standing.
BouncedNot(w, s, now) == IF w.tentative # None THEN w ELSE [w EXCEPT !.tentative = [side |-> s, at |-> now]]
Bounced(w, s, now) ==
  [w EXCEPT !.tentative = IF w.tentative # None THEN None ELSE [side |-> s, at |-> now]]

Stepped(w, foot, now) ==
  LET r == Rest(w, now)
  IN  CASE foot.x = 0 -> r
        [] foot.x # 0 /\ (r.side = 0 \/ foot.x = r.side) -> Stands(r, foot)
        [] foot.x # 0 /\ r.side = -foot.x /\ ~Cleared(r, foot.x) -> Waits(r, foot.x)
        [] foot.x # 0 /\ r.side = -foot.x /\ Cleared(r, foot.x) /\ ~Crosses(r.anchor, foot) -> Stands(r, foot)
        [] OTHER -> Bounced(Stands(r, foot), foot.x, now)

Flips(w, foot) == foot.x # 0 /\ w.side = -foot.x /\ Cleared(w, foot.x)

\* What the properties keep of a step.
Lived(w, foot, now) ==
  LET r == Rest(w, now)
  IN  [since EXCEPT
        !.first = IF @ = 0 THEN foot.x ELSE @,
        !.net = @ + Due(w, now).side,
        !.round = IF Flips(r, foot) /\ ~Crosses(r.anchor, foot) THEN @ + foot.x ELSE @,
        !.wrong = @ \/ (Flips(r, foot) /\ Crosses(r.anchor, foot) /\ r.tentative.side = foot.x)]

\* _emit_crossing: one event, unless people are not counted.
Emitted(crossing) ==
  \/ crossing = None /\ UNCHANGED <<settled, events, gone>>
  \/ /\ crossing # None /\ settled' = settled + 1
     /\ \/ events' = Append(events, settled + 1) /\ UNCHANGED gone
        \/ gone' = gone \cup {settled + 1} /\ UNCHANGED events

Seen(foot) ==
  /\ frames < MaxTime /\ frames' = frames + 1
  /\ wire' = Stepped(wire, foot, frames + 1)
  /\ since' = Lived(wire, foot, frames + 1)
  /\ Emitted(Due(wire, frames + 1))
  /\ UNCHANGED flushVars

\* A track that is gone keeps the crossing it has made; later its state goes.
Unseen ==
  /\ frames < MaxTime /\ frames' = frames + 1
  /\ Emitted(wire.tentative)
  /\ \/ /\ wire' = [wire EXCEPT !.tentative = None]
        /\ since' = [since EXCEPT !.net = @ + wire.tentative.side]
     \/ /\ wire.seenAt + Ttl < frames + 1
        /\ wire' = Fresh /\ since' = Begun
  /\ UNCHANGED flushVars

\* The line is removed or switched off.
Removed ==
  /\ wire # Fresh /\ wire' = Fresh /\ since' = Begun
  /\ UNCHANGED <<frames, settled, events, gone, flushVars>>

-------------------------------------------------------------------------------
(* _flush_crossings.                                                        *)

Drain(f) ==
  /\ moving[f] = <<>> /\ events # <<>>
  /\ moving' = [moving EXCEPT ![f] = events] /\ events' = <<>>
  /\ UNCHANGED <<wireVars, settled, rows, gone, failures>>

Commit(f) ==
  /\ moving[f] # <<>>
  /\ rows' = rows \o moving[f]
  /\ moving' = [moving EXCEPT ![f] = <<>>]
  /\ UNCHANGED <<wireVars, settled, events, gone, failures>>

LastOf(s) == IF Len(s) > Keep THEN SubSeq(s, Len(s) - Keep + 1, Len(s)) ELSE s
FirstOf(s) == IF Len(s) > Keep THEN SubSeq(s, 1, Len(s) - Keep) ELSE <<>>
Ids(s) == {s[i] : i \in 1..Len(s)}

\* For a mutant: what the buffer has got meanwhile is replaced.
PutInstead(s) == s
PutBack(s) == s \o events

CommitFails(f) ==
  /\ moving[f] # <<>> /\ Trouble
  /\ events' = PutBack(LastOf(moving[f]))
  /\ gone' = gone \cup Ids(FirstOf(moving[f]))
  /\ moving' = [moving EXCEPT ![f] = <<>>]
  /\ UNCHANGED <<wireVars, settled, rows>>

\* The process ends: the state, the buffer and the flushes go with it.
Restart ==
  /\ Trouble
  /\ wire' = Fresh /\ since' = Begun
  /\ events' = <<>> /\ moving' = [f \in Flushers |-> <<>>]
  /\ gone' = gone \cup Ids(events) \cup UNION {Ids(moving[f]) : f \in Flushers}
  /\ UNCHANGED <<frames, settled, rows>>

Next ==
  \/ \E foot \in Foot : Seen(foot)
  \/ Unseen \/ Removed
  \/ \E f \in Flushers : Drain(f) \/ Commit(f) \/ CommitFails(f)
  \/ Restart

Spec == Init /\ [][Next]_vars

-------------------------------------------------------------------------------
(* Properties.                                                             *)

\* Every variable stays in its domain; a crossing waits less than Repeat.
TypeOK ==
  /\ frames \in 0..MaxTime /\ settled \in 0..MaxTime /\ failures \in 0..MaxTroubles
  /\ wire \in [side : {0} \cup Sides, anchor : Foot, pendingSide : {0} \cup Sides,
               pendingCount : 0..(Confirm - 1),
               tentative : {None} \cup [side : Sides, at : 1..MaxTime], seenAt : 0..MaxTime]
  /\ since \in [first : {0} \cup Sides, net : Int, round : Int, wrong : BOOLEAN]
  /\ wire.tentative # None => frames - wire.tentative.at < Repeat

\* Ins minus outs, with the one that waits, is where the track has gone since it
\* was first seen: neither a bounce nor a slow walk nor a way round the end of
\* the line counts one-sided (step_crossing, settle_crossing); unless a track
\* crosses, goes back round the end and crosses again within Repeat.
Balanced ==
  since.wrong \/ 2 * (since.net + wire.tentative.side + since.round) = wire.side - since.first

\* Every settled crossing is in the buffer, in a flush, in the table or dropped,
\* and in one of them only (_flush_crossings).
RecordedOnce ==
  LET waiting == Ids(events)
      drained == [f \in Flushers |-> Ids(moving[f])]
      stored == Ids(rows)
      all == UNION {drained[f] : f \in Flushers}
  IN  /\ waiting \cup all \cup stored \cup gone = 1..settled
      /\ waiting \cap (all \cup stored \cup gone) = {} /\ stored \cap (all \cup gone) = {}
      /\ all \cap gone = {}
      /\ \A f, g \in Flushers : f # g => drained[f] \cap drained[g] = {}
      /\ Len(rows) = Cardinality(stored)

CrossingsSound == Balanced /\ RecordedOnce
===============================================================================
