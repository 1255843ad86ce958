------------------------------ MODULE QueueAreas ------------------------------
(***************************************************************************)
(* Visits to a checkout or queue area (services/tripwire_engine.py): what  *)
(* is recorded of one track whose foot point is inside, outside or not     *)
(* seen in each analysed frame, with frames that fail to come.             *)
(***************************************************************************)
EXTENDS Integers, FiniteSets

CONSTANTS
  Grace,     \* QUEUE_AREA_EXIT_GRACE_SEC
  LastFrame  \* bound: time

VARIABLES
  second,  \* time
  stay,    \* QueueTrackState: since when, until when; 0 for none
  visits,  \* finished (_emit_queue_visit leaves out those that were too short)
  cleared, \* stays forgotten when counting stopped
  within,  \* seconds in which the track was seen inside
  outside  \* seconds in which the area was evaluated without it

vars == <<second, stay, visits, cleared, within, outside>>

Nowhere == [from |-> 0, to |-> 0]

Init ==
  /\ second = 0 /\ stay = Nowhere /\ visits = {} /\ cleared = {}
  /\ within = {} /\ outside = {}

Tick == second < LastFrame /\ second' = second + 1

\* For a mutant: coming back begins the stay anew.
EnteredAgain(s, now) == now
Entered(s, now) == IF s.from = 0 THEN now ELSE s.from

Inside ==
  /\ Tick
  /\ stay' = [from |-> Entered(stay, second + 1), to |-> second + 1]
  /\ within' = within \cup {second + 1}
  /\ UNCHANGED <<visits, cleared, outside>>

\* For a mutant: every step outside ends the visit.
OverAtOnce(s, now) == s # Nowhere
Over(s, now) == s # Nowhere /\ now - s.to > Grace

\* The foot point is outside, or the track is gone.
Outside ==
  /\ Tick
  /\ outside' = outside \cup {second + 1}
  /\ \/ ~Over(stay, second + 1) /\ UNCHANGED <<stay, visits>>
     \/ /\ Over(stay, second + 1)
        /\ visits' = visits \cup {stay}
        /\ stay' = Nowhere
  /\ UNCHANGED <<cleared, within>>

\* No frame is analysed.
NoFrame == Tick /\ UNCHANGED <<stay, visits, cleared, within, outside>>

\* People are no longer counted, the area is removed, or the box restarts.
CountingOff ==
  /\ stay # Nowhere
  /\ stay' = Nowhere /\ cleared' = cleared \cup {stay}
  /\ UNCHANGED <<second, visits, within, outside>>

Next == Inside \/ Outside \/ NoFrame \/ CountingOff

Spec == Init /\ [][Next]_vars

-------------------------------------------------------------------------------
(* Properties.                                                             *)

\* Every variable stays in its domain.
TypeOK ==
  /\ second \in 0..LastFrame
  /\ stay \in [from : 0..LastFrame, to : 0..LastFrame] /\ stay.from <= stay.to
  /\ within \cup outside \subseteq 1..LastFrame /\ within \cap outside = {}

Stays == visits \cup cleared \cup (IF stay = Nowhere THEN {} ELSE {stay})

\* The stays are what a reader of the frames would write down: each begins and
\* ends with a frame that shows the track inside and every such frame is in one
\* stay, a pause that no frame has shown to be longer than Grace ends none and
\* one that a frame has ends it (step_queue, _eval_queue).
VisitsSound ==
  /\ \A s \in Stays : {s.from, s.to} \subseteq within
  /\ \A t \in within : Cardinality({s \in Stays : s.from <= t /\ t <= s.to}) = 1
  /\ \A s \in Stays \ cleared, r \in Stays : s.to < r.from => r.from - s.to > Grace
  /\ \A s \in Stays, t \in outside :
       s.from < t /\ (t < s.to \/ s = stay) => \E u \in within : u < t /\ t - u <= Grace
===============================================================================
