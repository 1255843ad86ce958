----------------------------- MODULE InsightTopics -----------------------------
(***************************************************************************)
(* The findings of the daily analysis and the topics they are grouped into *)
(* (services/insight_topics.py).  One lock serialises the grouping and the *)
(* operators' actions, but a request reads its topic before it takes the   *)
(* lock and writes back the columns in which its copy has changed.         *)
(*                                                                         *)
(* What two findings have in common is abstract: a finding has a key, and  *)
(* its wording may be similar to a topic's (Alike).  A snooze may be over  *)
(* at any time, and the operator's mark that keeps a finding of today from *)
(* being replaced is left out.                                             *)
(***************************************************************************)
EXTENDS Integers, FiniteSets, FiniteSetsExt

CONSTANTS
  KeyOf,        \* the keys of the findings the analysis can make, a sequence
  Alike,        \* pairs: a finding, and the key of a topic its wording is similar to
  Requests,     \* requests of operators that may be open together
  Kinds,        \* what they ask: a status, a split, a merge
  MaxTopics, MaxRuns, MaxAsks, LastDay

VARIABLES
  clock,        \* the store's day
  finding,      \* rows of ai_decision_recommendations: day, topic, who put it there
  topic,        \* rows of insight_topics
  sync,         \* a grouping holds the lock: "assign" in a batch, "tidy" after it
  req,          \* requests that have read their topic and wait for the lock
  runs, asks,   \* how many analyses and requests there were
  owes,         \* history: the keys of topics merged into a topic
  loose         \* history: merged keys that lead nowhere any more (an older list was written back) or
                \* to a topic that takes no new findings (it was split out)

vars == <<clock, runs, finding, topic, sync, req, asks, owes, loose>>

Findings == DOMAIN KeyOf
Keys == {KeyOf[f] : f \in Findings}
Topics == 1..MaxTopics
Split == "split:"
Statuses == {"open", "acknowledged", "snoozed", "resolved"}
NewTopic(k) == [key |-> k, alias |-> {}, status |-> "open", resolvedOn |-> 0]
Unused == NewTopic("none")
Gone == NewTopic("gone")
NotFound == [day |-> 0, topic |-> 0, by |-> "none"]
NoRequest == [kind |-> "none", topic |-> 1, other |-> 0, copy |-> Unused]

TopicRow == [key : Keys \cup {Split, "none", "gone"}, alias : SUBSET Keys, status : Statuses,
             resolvedOn : 0..LastDay]

Live == {t \in Topics : topic[t].key \notin {"none", "gone"}}
Made == {f \in Findings : finding[f].day > 0}
Unassigned == {f \in Made : finding[f].topic = 0}
Members(t) == {f \in Made : finding[f].topic = t}

TypeOK ==
  /\ clock \in 1..LastDay /\ asks \in 0..MaxAsks /\ runs \in 0..MaxRuns /\ sync \in {"idle", "assign", "tidy"}
  /\ finding \in [Findings -> [day : 0..LastDay, topic : 0..MaxTopics, by : {"none", "sync", "hand"}]]
  /\ topic \in [Topics -> TopicRow]
  /\ req \in [Requests -> [kind : Statuses \cup {"split", "merge", "none"}, topic : Topics,
                          other : 0..MaxTopics \cup Findings, copy : TopicRow]]
  /\ owes \in [Topics -> SUBSET Keys] /\ loose \subseteq Keys

Init ==
  /\ clock = 1 /\ asks = 0 /\ runs = 0 /\ sync = "idle" /\ loose = {}
  /\ finding = [f \in Findings |-> NotFound]
  /\ topic = [t \in Topics |-> Unused]
  /\ req = [r \in Requests |-> NoRequest]
  /\ owes = [t \in Topics |-> {}]

\* A new row with the next id; ids are never used twice.
Fresh == Min({t \in Topics : topic[t].key = "none"})
HasRoom == \E t \in Topics : topic[t].key = "none"

(***************************************************************************)
(* The analysis makes and drops findings of today, without the lock.  Its  *)
(* rows are not seen by a batch that has already read what it groups.      *)
(***************************************************************************)

NextDay ==
  /\ clock < LastDay /\ sync = "idle" /\ clock' = clock + 1
  /\ UNCHANGED <<runs, finding, topic, sync, req, asks, owes, loose>>

\* _persist: the findings of today that still hold, and no others.
Persist(holds) ==
  /\ sync # "assign" /\ runs < MaxRuns /\ runs' = runs + 1
  /\ finding' = [f \in Findings |->
                   IF finding[f].day = 0 /\ f \in holds
                   THEN [day |-> clock, topic |-> 0, by |-> "none"]
                   ELSE IF finding[f].day = clock /\ f \notin holds THEN NotFound
                   ELSE finding[f]]
  /\ UNCHANGED <<clock, topic, sync, req, asks, owes, loose>>

(***************************************************************************)
(* _sync: rows without a topic are grouped and committed, topics without   *)
(* findings deleted, snoozed ones woken.                                   *)
(***************************************************************************)

\* For a mutant: what was taken out is grouped like the rest.
AllLive == Live
Matchable == {t \in Live : topic[t].key # Split}
Answers(t) == {topic[t].key} \cup topic[t].alias
Exact(k) == {t \in Matchable : k \in Answers(t)}
LastSeen(t) == Max({0} \cup {finding[f].day : f \in Members(t)})
Newest(S) == {t \in S : \A u \in S : LastSeen(u) <= LastSeen(t)}

\* For a mutant: one day too late.
IsMuchLater(f, t) == finding[f].day > topic[t].resolvedOn + 1
\* A finding on a later day opens a resolved topic again.
IsLater(f, t) == finding[f].day > topic[t].resolvedOn

Join(f, t, alias) ==
  /\ topic' = [topic EXCEPT ![t].alias = @ \cup alias,
                            ![t].status = IF @ = "resolved" /\ IsLater(f, t) THEN "open" ELSE @]
  /\ finding' = [finding EXCEPT ![f].topic = t, ![f].by = "sync"]

JoinExact(f) == \E t \in Newest(Exact(KeyOf[f])) : Join(f, t, {})
JoinSimilar(f) ==
  /\ Exact(KeyOf[f]) = {}
  /\ \E t \in Matchable : <<f, topic[t].key>> \in Alike /\ Join(f, t, {KeyOf[f]})
BeginTopic(f) ==
  /\ Exact(KeyOf[f]) = {} /\ HasRoom
  /\ \A t \in Matchable : <<f, topic[t].key>> \notin Alike
  /\ topic' = [topic EXCEPT ![Fresh] = NewTopic(KeyOf[f])]
  /\ finding' = [finding EXCEPT ![f].topic = Fresh, ![f].by = "sync"]

SyncBegin ==
  /\ sync = "idle" /\ sync' = IF Unassigned = {} THEN "tidy" ELSE "assign"
  /\ UNCHANGED <<clock, runs, finding, topic, req, asks, owes, loose>>

Oldest(S) == {f \in S : \A g \in S : finding[f].day <= finding[g].day}

Assign(f) ==
  /\ sync = "assign" /\ f \in Oldest(Unassigned)
  /\ JoinExact(f) \/ JoinSimilar(f) \/ BeginTopic(f)
  /\ sync' = IF Unassigned = {f} THEN "tidy" ELSE "assign"
  /\ UNCHANGED <<clock, runs, req, asks, owes, loose>>

\* prune_orphans and wake_snoozed; the analyses that follow write other columns.
Orphans == {t \in Live : Members(t) = {}}
Tidied(woken) ==
  [t \in Topics |-> IF t \in Orphans THEN Gone
                    ELSE IF t \in woken THEN [topic[t] EXCEPT !.status = "open"]
                    ELSE topic[t]]
Tidy ==
  /\ sync = "tidy" /\ sync' = "idle"
  /\ \E woken \in SUBSET {t \in Live : topic[t].status = "snoozed"} : topic' = Tidied(woken)
  /\ UNCHANGED <<clock, runs, finding, req, asks, owes, loose>>

\* An error after the batch: the run goes on without the rest.
SyncFails ==
  /\ sync = "tidy" /\ sync' = "idle"
  /\ UNCHANGED <<clock, runs, finding, topic, req, asks, owes, loose>>

(***************************************************************************)
(* A request reads its topic, waits for the lock, then acts on what it     *)
(* read.  A topic that is gone by then fails the whole request.            *)
(***************************************************************************)

Read(r, kind, t, other) ==
  /\ req[r].kind = "none" /\ asks < MaxAsks /\ sync # "assign" /\ t \in Live
  /\ req' = [req EXCEPT ![r] = [kind |-> kind, topic |-> t, other |-> other, copy |-> topic[t]]]
  /\ asks' = asks + 1
  /\ UNCHANGED <<clock, runs, finding, topic, sync, owes, loose>>

Serve(r) ==
  /\ sync = "idle" /\ req[r].kind # "none" /\ req' = [req EXCEPT ![r] = NoRequest]
  /\ UNCHANGED <<clock, runs, sync, asks>>

Mine(r) == req[r].topic
Copy(r) == req[r].copy
\* A column is written when it differs from the copy, over whatever it holds by now.
Columns(r, new) ==
  [c \in DOMAIN new |-> IF new[c] # Copy(r)[c] THEN new[c] ELSE topic[Mine(r)][c]]

SetStatus(r) ==
  LET s == req[r].kind
      row == Columns(r, [Copy(r) EXCEPT !.status = s])
  IN /\ Serve(r) /\ s \in Statuses /\ Mine(r) \in Live
     /\ topic' = [topic EXCEPT ![Mine(r)] =
                    IF s = "resolved" THEN [row EXCEPT !.resolvedOn = clock] ELSE row]
     /\ UNCHANGED <<finding, owes, loose>>

TakeOut(r) ==
  LET f == req[r].other
  IN /\ Serve(r) /\ req[r].kind = "split"
     /\ f \in Members(Mine(r)) /\ Members(Mine(r)) # {f} /\ HasRoom
     /\ topic' = [topic EXCEPT ![Fresh] = NewTopic(Split)]
     /\ finding' = [finding EXCEPT ![f].topic = Fresh, ![f].by = "hand"]
     /\ UNCHANGED <<owes, loose>>

\* For a mutant: what the other topic had taken in before is forgotten.
OwnKey(o) == {topic[o].key} \ {Split}
Folded(o) == Answers(o) \ {Split}
Merged(r, o) ==
  [Copy(r) EXCEPT !.alias = @ \cup (Folded(o) \ {Copy(r).key}),
                  !.status = IF @ = "resolved" /\ topic[o].status # "resolved" THEN topic[o].status ELSE @]
Merge(r) ==
  LET t == Mine(r)
      o == req[r].other
      row == Columns(r, Merged(r, o))
  IN /\ Serve(r) /\ req[r].kind = "merge"
     /\ t \in Live /\ o \in Live \ {t}
     /\ topic' = [topic EXCEPT ![t] = row, ![o] = Gone]
     /\ finding' = [f \in Findings |-> IF f \in Members(o) THEN [finding[f] EXCEPT !.topic = t, !.by = "hand"]
                                       ELSE finding[f]]
     /\ owes' = [owes EXCEPT ![t] = @ \cup owes[o] \cup ({topic[o].key} \ {Split})]
     /\ loose' = loose \cup (topic[t].alias \ row.alias)
                       \cup (IF row.key = Split THEN Folded(o) ELSE {})

\* 404, 409 and the error of an update that finds no row leave everything as it is.
Refused(r) ==
  /\ Serve(r)
  /\ \/ Mine(r) \notin Live
     \/ req[r].kind = "merge" /\ req[r].other \notin Live
     \/ req[r].kind = "split" /\ (req[r].other \notin Members(Mine(r)) \/ Members(Mine(r)) = {req[r].other})
  /\ UNCHANGED <<finding, topic, owes, loose>>

Ask(r) ==
  \E t \in Topics :
    \/ \E s \in Statuses \cap Kinds : Read(r, s, t, 0)
    \/ "split" \in Kinds /\ \E f \in Members(t) : Read(r, "split", t, f)
    \/ "merge" \in Kinds /\ \E o \in Live \ {t} : Read(r, "merge", t, o)

Next ==
  \/ NextDay
  \/ \E holds \in SUBSET Findings : Persist(holds)
  \/ \E f \in Findings : Assign(f)
  \/ SyncBegin \/ Tidy \/ SyncFails
  \/ \E r \in Requests : Ask(r) \/ SetStatus(r) \/ TakeOut(r) \/ Merge(r) \/ Refused(r)

Spec == Init /\ [][Next]_vars

-----------------------------------------------------------------------------

\* No finding is ever left in a topic that is gone, whichever of two crossing actions wins.
Grouped == \A f \in Made : finding[f].topic # 0 => finding[f].topic \in Live

\* What was merged stays merged: the future findings of a topic folded into another join it, through
\* any number of merges, unless two actions on the topic crossed; and no two topics compete for a key.
FutureJoins ==
  \A t \in Matchable :
    /\ owes[t] \ loose \subseteq Answers(t)
    /\ \A u \in Matchable : u > t => Answers(t) \cap Answers(u) \subseteq loose

\* What an operator took out stays out: the grouping puts nothing into such a topic.
StaysSplit == \A f \in Made : finding[f].topic # 0 /\ topic[finding[f].topic].key = Split => finding[f].by = "hand"

\* A resolved topic holds no finding of a later day that the grouping put there: it was opened again.
OpensAgain ==
  \A f \in Made : finding[f].by = "sync" /\ topic[finding[f].topic].status = "resolved"
                  => finding[f].day <= topic[finding[f].topic].resolvedOn

\* Findings stay in the topic they were grouped, merged or split into (services/insight_topics.py).
TopicsSound == Grouped /\ FutureJoins /\ StaysSplit /\ OpensAgain

=============================================================================
