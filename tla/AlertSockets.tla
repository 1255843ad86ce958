----------------------------- MODULE AlertSockets -----------------------------
(***************************************************************************)
(* The live alert sockets (services/notification_service.py AlertHub, the  *)
(* /ws route of routes/events.py) and the credentials they were opened     *)
(* with, which end while alerts are on their way.                          *)
(*                                                                         *)
(* Two coroutines walk over the connections: an alert that is broadcast,   *)
(* and a sign-out that closes the sockets of its credential before it is   *)
(* answered.  They give way to one another whenever they close or send.    *)
(***************************************************************************)
EXTENDS FiniteSets

CONSTANT Sockets

VARIABLES
  valid,      \* sockets whose credential still verifies
  socket,     \* "none", "checked" (credential verified, accept() awaited), "open", "closed"
  walk, todo, \* a walker: "idle", "prune", "send"; the connections it has before it
  answered,   \* sockets whose sign-out has been answered
  late,       \* sockets that were being accepted when their credential ended
  began,      \* sockets that could be told when the broadcast began
  told        \* sockets the present broadcast has reached

vars == <<valid, socket, walk, todo, answered, late, began, told>>

Walkers == {"alert", "signout"}
Open == {s \in Sockets : socket[s] = "open"}

Init ==
  /\ valid = Sockets /\ socket = [s \in Sockets |-> "none"]
  /\ walk = [w \in Walkers |-> "idle"] /\ todo = [w \in Walkers |-> {}]
  /\ answered = {} /\ late = {} /\ began = {} /\ told = {}

Verify(s) ==
  /\ socket[s] = "none" /\ s \in valid
  /\ socket' = [socket EXCEPT ![s] = "checked"]
  /\ UNCHANGED <<valid, walk, todo, answered, late, began, told>>

Connect(s) ==
  /\ socket[s] = "checked"
  /\ socket' = [socket EXCEPT ![s] = "open"]
  /\ UNCHANGED <<valid, walk, todo, answered, late, began, told>>

\* The client goes, or the socket was silent for WS_RECHECK_S and is asked again.
Close(s) ==
  /\ socket[s] = "open"
  /\ socket' = [socket EXCEPT ![s] = "closed"]
  /\ UNCHANGED <<valid, walk, todo, answered, late, began, told>>

(***************************************************************************)
(* Walks.  The credential ends (a sign-out, a revoked phone, a removed     *)
(* account) and its route prunes; a broadcast prunes and then sends.       *)
(***************************************************************************)
StartPrune(w) ==
  /\ walk' = [walk EXCEPT ![w] = "prune"]
  /\ todo' = [todo EXCEPT ![w] = Open]

SignOut(s) ==
  /\ s \in valid /\ walk["signout"] = "idle"
  /\ valid' = valid \ {s}
  /\ late' = IF socket[s] = "checked" THEN late \cup {s} ELSE late
  /\ StartPrune("signout")
  /\ UNCHANGED <<socket, answered, began, told>>

\* For a mutant: an alert is sent to whoever is connected.
BroadcastUnpruned ==
  /\ walk["alert"] = "idle"
  /\ walk' = [walk EXCEPT !["alert"] = "send"] /\ todo' = [todo EXCEPT !["alert"] = Open]
  /\ began' = valid /\ told' = {}
  /\ UNCHANGED <<valid, socket, answered, late>>
Broadcast ==
  /\ walk["alert"] = "idle"
  /\ StartPrune("alert")
  /\ began' = valid /\ told' = {}
  /\ UNCHANGED <<valid, socket, answered, late>>

\* The sockets before s in the list verify; s does not, and closing it gives way.
Cut(w, s, rest) ==
  /\ walk[w] = "prune" /\ s \in todo[w] \ valid
  /\ rest \subseteq todo[w] \ {s} /\ todo[w] \ (rest \cup {s}) \subseteq valid
  /\ todo' = [todo EXCEPT ![w] = rest]
  /\ socket' = [socket EXCEPT ![s] = "closed"]
  /\ UNCHANGED <<valid, walk, answered, late, began, told>>

\* All that are left verify.  The sign-out answers; the alert copies the list.
Pruned(w) ==
  /\ walk[w] = "prune" /\ todo[w] \subseteq valid
  /\ IF w = "alert"
     THEN /\ walk' = [walk EXCEPT ![w] = "send"]
          /\ todo' = [todo EXCEPT ![w] = Open]
          /\ UNCHANGED answered
     ELSE /\ walk' = [walk EXCEPT ![w] = "idle"]
          /\ todo' = [todo EXCEPT ![w] = {}]
          /\ answered' = Sockets \ valid
  /\ UNCHANGED <<valid, socket, late, began, told>>

Send(s) ==
  /\ walk["alert"] = "send" /\ s \in todo["alert"]
  /\ todo' = [todo EXCEPT !["alert"] = @ \ {s}]
  /\ told' = IF socket[s] = "open" THEN told \cup {s} ELSE told
  /\ UNCHANGED <<valid, socket, walk, answered, late, began>>

Sent ==
  /\ walk["alert"] = "send" /\ todo["alert"] = {}
  /\ walk' = [walk EXCEPT !["alert"] = "idle"]
  /\ began' = {} /\ told' = {}
  /\ UNCHANGED <<valid, socket, todo, answered, late>>

Next ==
  \/ Broadcast \/ Sent
  \/ \E s \in Sockets : Verify(s) \/ Connect(s) \/ Close(s) \/ SignOut(s) \/ Send(s)
  \/ \E w \in Walkers : Pruned(w) \/ (\E s \in Sockets, rest \in SUBSET Sockets : Cut(w, s, rest))

Spec == Init /\ [][Next]_vars

-----------------------------------------------------------------------------
(* Properties.                                                             *)

TypeOK ==
  /\ valid \subseteq Sockets /\ socket \in [Sockets -> {"none", "checked", "open", "closed"}]
  /\ walk \in [Walkers -> {"idle", "prune", "send"}] /\ todo \in [Walkers -> SUBSET Sockets]
  /\ answered \subseteq Sockets \ valid /\ late \subseteq Sockets \ valid 
  /\ began \subseteq Sockets /\ told \subseteq Sockets

\* An answered sign-out leaves no socket of its credential open, and an alert
\* reaches no socket whose credential had ended when the alert set out, unless
\* the socket was being accepted at that moment, which neither of them sees.
SilentAfterEnd ==
  /\ answered \cap Open \subseteq late
  /\ told \subseteq began \cup late
=============================================================================
