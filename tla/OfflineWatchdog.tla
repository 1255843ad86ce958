---------------------------- MODULE OfflineWatchdog ----------------------------
(***************************************************************************)
(* The store-offline watchdog on the box (services/offline_watchdog.py):   *)
(* the list of phones it leaves with the VPS, and the outages the VPS      *)
(* reports back, which the phones are told about before they are           *)
(* acknowledged.                                                           *)
(*                                                                         *)
(* The loop uploads when it is poked, after a failure and now and then;    *)
(* the settings page uploads at any moment.  The VPS is outside.           *)
(***************************************************************************)
EXTENDS Integers

CONSTANTS MaxEdits, MaxOutages, MaxTroubles   \* bounds

VARIABLES
  phones,    \* which edit of the phone list is stored
  wake,      \* the loop's event: "set" since a poke, or "clear"
  loop,      \* "wait", "debounce", "uploading"
  upload,    \* of the loop and of the page: step, list, ack, the reply's outage
  pending,   \* _pending_ack: the outage to acknowledge, or 0
  handled,   \* _handled_alerts
  told,      \* outages the phones were told are over
  held,      \* which edit the VPS holds
  outage,    \* outages so far; the newest is under way, "over" or "acked"
  phase,
  lastRun,   \* how the loop's last upload ended: "stored", "failed", or "none" yet
  overtaken, \* "yes" if the VPS has taken an older list after a newer one
  incidents  \* failures, crashes

watched == <<held, outage, phase, overtaken>>
memory == <<pending, handled, told>>
vars == <<phones, wake, loop, upload, memory, watched, lastRun, incidents>>

Uploaders == {"loop", "page"}
NoUpload == [step |-> "none", list |-> 0, ack |-> 0, reply |-> 0]
Incident == incidents < MaxTroubles /\ incidents' = incidents + 1

Init ==
  /\ phones = 0 /\ wake = "clear" /\ loop = "wait"
  /\ upload = [u \in Uploaders |-> NoUpload]
  /\ pending = 0 /\ handled = {} /\ told = {}
  /\ held = -1 /\ outage = 0 /\ phase = "none"
  /\ lastRun = "none" /\ overtaken = "no" /\ incidents = 0

\* For a mutant: a change that pokes nobody.
EditUnpoked ==
  /\ phones < MaxEdits /\ phones' = phones + 1
  /\ UNCHANGED <<wake, loop, upload, memory, watched, lastRun, incidents>>
\* A phone or the roster changes and the watchdog is poked.
Edit ==
  /\ phones < MaxEdits /\ phones' = phones + 1 /\ wake' = "set"
  /\ UNCHANGED <<loop, upload, memory, watched, lastRun, incidents>>

(***************************************************************************)
(* The loop.                                                               *)
(***************************************************************************)
Woken ==
  /\ loop = "wait" /\ wake = "set"
  /\ loop' = "debounce" /\ wake' = "clear"
  /\ UNCHANGED <<phones, upload, memory, watched, lastRun, incidents>>

\* ... or the start-up delay, a retry or the half hour is over.
TimedOut ==
  /\ loop = "wait" /\ loop' = "debounce"
  /\ UNCHANGED <<phones, wake, upload, memory, watched, lastRun, incidents>>

(***************************************************************************)
(* upload_now.                                                             *)
(***************************************************************************)
Build(u) ==
  /\ upload[u].step = "none" /\ (u = "loop" => loop = "debounce")
  /\ upload' = [upload EXCEPT ![u] =
                  [NoUpload EXCEPT !.step = "sent", !.list = phones, !.ack = pending]]
  /\ loop' = IF u = "loop" THEN "uploading" ELSE loop
  /\ UNCHANGED <<phones, wake, memory, watched, lastRun, incidents>>

\* External: the VPS keeps the list, forgets the outage that is acknowledged
\* and answers with the newest other one.
Arrive(u) ==
  /\ upload[u].step = "sent"
  /\ LET forgets == phase = "over" /\ upload[u].ack = outage
         rest == IF forgets THEN "acked" ELSE phase
     IN /\ phase' = rest
        /\ upload' = [upload EXCEPT ![u].step = "answered",
                                    ![u].reply = IF rest = "over" THEN outage ELSE 0]
  /\ held' = upload[u].list
  /\ overtaken' = IF upload[u].list < held THEN "yes" ELSE "no"
  /\ UNCHANGED <<phones, wake, loop, memory, outage, lastRun, incidents>>

Done(u, how) ==
  /\ upload' = [upload EXCEPT ![u] = NoUpload]
  /\ IF u = "loop" THEN loop' = "wait" /\ lastRun' = how ELSE UNCHANGED <<loop, lastRun>>

\* No connection, no answer, one that is not "ok", or no way to tell the phones.
Fail(u) ==
  /\ upload[u].step # "none"
  /\ Incident /\ Done(u, "failed")
  /\ UNCHANGED <<phones, wake, memory, watched>>

\* For a mutant: the outage is to be acknowledged before the phones are told.
TakenFirst(u) == IF upload[u].reply # 0 THEN upload[u].reply
                 ELSE IF upload[u].ack = pending THEN 0 ELSE pending
Taken(u) == IF upload[u].ack = pending THEN 0 ELSE pending

\* The answer is read.  An outage that is over is told before it is noted.
Receive(u) ==
  /\ upload[u].step = "answered"
  /\ pending' = Taken(u)
  /\ IF upload[u].reply = 0
     THEN Done(u, "stored")
     ELSE /\ upload' = [upload EXCEPT ![u].step = "telling"]
          /\ UNCHANGED <<loop, lastRun>>
  /\ UNCHANGED <<phones, wake, handled, told, watched, incidents>>

\* _handle_alert: send_notice, unless this outage was told, and then note it.
Tell(u) ==
  /\ upload[u].step = "telling"
  /\ told' = told \cup {upload[u].reply}
  /\ handled' = handled \cup {upload[u].reply}
  /\ pending' = upload[u].reply
  /\ Done(u, "stored")
  /\ UNCHANGED <<phones, wake, watched, incidents>>

(***************************************************************************)
(* Outages, and restarts of the box.                                       *)
(***************************************************************************)
Outage ==
  /\ outage < MaxOutages /\ phase # "under_way" /\ held >= 0
  /\ outage' = outage + 1 /\ phase' = "under_way"
  /\ UNCHANGED <<phones, wake, loop, upload, memory, held, overtaken, lastRun, incidents>>

Back ==
  /\ phase = "under_way" /\ phase' = "over"
  /\ UNCHANGED <<phones, wake, loop, upload, memory, held, outage, overtaken, lastRun, incidents>>

Restart ==
  /\ Incident
  /\ wake' = "clear" /\ loop' = "wait" /\ lastRun' = "none"
  /\ upload' = [u \in Uploaders |-> NoUpload]
  /\ pending' = 0 /\ handled' = {}
  /\ UNCHANGED <<phones, told, watched>>

Next ==
  \/ Edit \/ Woken \/ TimedOut \/ Outage \/ Back \/ Restart
  \/ \E u \in Uploaders : Build(u) \/ Arrive(u) \/ Fail(u) \/ Receive(u) \/ Tell(u)

Spec == Init /\ [][Next]_vars

-----------------------------------------------------------------------------
(* Properties.                                                             *)

TypeOK ==
  /\ phones \in 0..MaxEdits /\ held \in -1..phones
  /\ wake \in {"set", "clear"} /\ loop \in {"wait", "debounce", "uploading"}
  /\ \A u \in Uploaders : /\ upload[u].step \in {"none", "sent", "answered", "telling"}
                          /\ upload[u].list \in 0..phones
                          /\ upload[u].ack \in 0..outage /\ upload[u].reply \in 0..outage
  /\ pending \in 0..outage /\ handled \subseteq told /\ told \subseteq 1..outage
  /\ phase \in {"none", "under_way", "over", "acked"} /\ outage \in 0..MaxOutages
  /\ lastRun \in {"none", "stored", "failed"} /\ incidents \in 0..MaxTroubles

\* An outage the VPS has forgotten was told to the phones as being over.
AckedAreTold == phase = "acked" => outage \in told

\* When the loop rests after a success and nobody has poked it, the VPS holds
\* the stored phones: no change slips between the end of an upload and the next
\* wait.  A page's upload that overtakes the loop's may leave the older list.
HeldIsCurrent ==
  loop = "wait" /\ wake = "clear" /\ lastRun = "stored" => held = phones \/ overtaken = "yes"

WatchdogSound == AckedAreTold /\ HeldIsCurrent
=============================================================================
