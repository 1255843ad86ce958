--------------------------- MODULE TokenRevocations ---------------------------
(***************************************************************************)
(* Sign-out on the server (services/token_revocation.py and the sessions   *)
(* of services/auth_service.py): the keys of ended sessions and the        *)
(* accounts' cut-off times, kept in memory and in a table, over refreshes, *)
(* new sign-ins in the same millisecond, failed writes and restarts.       *)
(*                                                                         *)
(* One account.  A session is its sid, which its access and refresh tokens *)
(* carry; a refresh makes a token of the same session.                     *)
(***************************************************************************)
EXTENDS Integers

CONSTANTS
  Sessions,
  MaxTime,      \* bound: the clock, in milliseconds
  MaxTroubles   \* bound: writes and reads of the table that fail, restarts

VARIABLES
  now,        \* milliseconds
  issued,     \* issue time of each session's newest token, 0 if it never began
  out,        \* sessions in _revoked
  cut,        \* the account's entry in _cutoffs, 0 for none
  outRows, cutRow, \* the table
  loaded,     \* "no" after a start, "failed" if the first read did, "yes"
  writes, writeCut, \* what sign-outs have yet to write to the table
  caught,     \* sessions the account's sign-out under way is to end
  replace,    \* earliest time of the session that replaces the caller's, 0 for none
  refreshing, \* sessions whose refresh token was accepted, the new one not made
  ended,      \* sessions signed out, answered
  endedBy,    \* the account's sign-out that ended a session, answered
  own,        \* earliest time of a token that replaced the caller's, until refreshed
  troubles

table == <<outRows, cutRow>>
memory == <<out, cut, loaded>>
signouts == <<writes, writeCut, caught, replace>>
answers == <<ended, endedBy>>
vars == <<now, issued, memory, table, signouts, refreshing, answers, own, troubles>>

Later(a, b) == IF a > b THEN a ELSE b

None == [s \in Sessions |-> 0]

Init ==
  /\ now = 1 /\ issued = None /\ own = None
  /\ out = {} /\ cut = 0 /\ loaded = "no" /\ outRows = {} /\ cutRow = 0
  /\ writes = {} /\ writeCut = 0 /\ caught = {} /\ replace = 0
  /\ refreshing = {} /\ ended = {} /\ endedBy = None /\ troubles = 0

Trouble == troubles < MaxTroubles /\ troubles' = troubles + 1

Tick ==
  /\ now < MaxTime /\ now' = now + 1
  /\ UNCHANGED <<issued, memory, table, signouts, refreshing, answers, own, troubles>>

(***************************************************************************)
(* is_revoked first reloads, if the table has not been read for RELOAD_SEC *)
(* or never, and then looks at the session's key and the account's cut-off.*)
(***************************************************************************)
\* For a mutant: a reload replaces what is in memory.
MergedReplaces == out' = outRows /\ cut' = cutRow
Merged == out' = out \cup outRows /\ cut' = Later(cut, cutRow)

Reload ==
  /\ \/ Merged /\ loaded' = "yes" /\ UNCHANGED troubles
     \/ /\ Trouble /\ UNCHANGED <<out, cut>>
        /\ loaded' = IF loaded = "no" THEN "failed" ELSE loaded
  /\ UNCHANGED <<now, issued, table, signouts, refreshing, answers, own>>

Accepted(s) ==
  /\ issued[s] > 0 /\ s \notin out
  /\ issued[s] > cut

(***************************************************************************)
(* Sessions begin, with a time no sooner than the cut-off their own        *)
(* sign-out has set, and are refreshed: check and issue are two steps.     *)
(***************************************************************************)
\* For a mutant: the session of a changed password has the time of the change.
IssueTimeNow(notBefore) == now
IssueTime(notBefore) == Later(now, notBefore)

Begin(s, notBefore) ==
  /\ issued[s] = 0
  /\ issued' = [issued EXCEPT ![s] = IssueTime(notBefore)]

SignIn(s) ==
  /\ Begin(s, 0)
  /\ UNCHANGED <<now, memory, table, signouts, refreshing, answers, own, troubles>>

Replace(s) ==
  /\ replace > 0
  /\ Begin(s, replace)
  /\ own' = [own EXCEPT ![s] = replace]
  /\ replace' = 0
  /\ UNCHANGED <<now, memory, table, writes, writeCut, caught, refreshing, answers, troubles>>

\* (Forgets, for the property, a sign-out that the unread table has not told.)
RefreshAsk(s) ==
  /\ loaded # "no" /\ Accepted(s)
  /\ refreshing' = refreshing \cup {s}
  /\ endedBy' = [endedBy EXCEPT ![s] = 0]
  /\ UNCHANGED <<now, issued, memory, table, signouts, ended, own, troubles>>

\* For a mutant: the new token is of no session that a sign-out knows.
RefreshedAnew(s) == out' = out \ {s}
Refreshed(s) == UNCHANGED out

RefreshIssue(s) ==
  /\ s \in refreshing
  /\ refreshing' = refreshing \ {s}
  /\ issued' = [issued EXCEPT ![s] = now]
  /\ own' = [own EXCEPT ![s] = 0]
  /\ Refreshed(s)
  /\ UNCHANGED <<now, cut, loaded, table, signouts, answers, troubles>>

(***************************************************************************)
(* Sign-outs: memory first, then the table; a write that fails is logged.  *)
(***************************************************************************)
SignOut(s) ==
  /\ loaded # "no" /\ issued[s] > 0 /\ s \notin out
  /\ out' = out \cup {s}
  /\ writes' = writes \cup {s}
  /\ UNCHANGED <<now, issued, cut, loaded, table, writeCut, caught, replace, refreshing, answers, own, troubles>>

WriteSignOut(s) ==
  /\ s \in writes
  /\ writes' = writes \ {s}
  /\ \/ outRows' = outRows \cup {s} /\ UNCHANGED troubles
     \/ Trouble /\ UNCHANGED outRows
  /\ ended' = ended \cup {s}
  /\ UNCHANGED <<now, issued, memory, cutRow, writeCut, caught, replace, refreshing, endedBy, own>>

\* A password is changed, or the account is disabled or removed; not twice in
\* one millisecond.
SignOutAccount ==
  /\ loaded # "no" /\ writeCut = 0 /\ replace = 0 /\ now > cut
  /\ cut' = now /\ writeCut' = now
  /\ caught' = {s \in Sessions \ refreshing : issued[s] > 0}
  /\ UNCHANGED <<now, issued, out, loaded, table, writes, replace, refreshing, answers, own, troubles>>

WriteAccount ==
  /\ writeCut > 0
  /\ writeCut' = 0 /\ caught' = {}
  /\ \/ cutRow' = Later(cutRow, writeCut) /\ UNCHANGED troubles
     \/ Trouble /\ UNCHANGED cutRow
  /\ endedBy' = [s \in Sessions |-> IF s \in caught THEN writeCut ELSE endedBy[s]]
  /\ replace' \in {0, writeCut + 1}
  /\ UNCHANGED <<now, issued, memory, outRows, writes, refreshing, ended, own>>

\* Takes a while.  What was only in memory is gone; so are the sign-outs it stood for.
Restart ==
  /\ Trouble /\ now < MaxTime /\ now' = now + 1
  /\ out' = {} /\ cut' = 0 /\ loaded' = "no"
  /\ writes' = {} /\ writeCut' = 0 /\ caught' = {} /\ replace' = 0 /\ refreshing' = {}
  /\ ended' = ended \cap outRows
  /\ endedBy' = [s \in Sessions |-> IF endedBy[s] <= cutRow THEN endedBy[s] ELSE 0]
  /\ UNCHANGED <<issued, table, own>>

Next ==
  \/ Tick \/ Reload \/ SignOutAccount \/ WriteAccount \/ Restart
  \/ \E s \in Sessions : SignIn(s) \/ Replace(s) \/ RefreshAsk(s) \/ RefreshIssue(s)
                         \/ SignOut(s) \/ WriteSignOut(s)

Spec == Init /\ [][Next]_vars

-----------------------------------------------------------------------------
(* Properties.                                                             *)

Times == 0..(MaxTime + 1)

TypeOK ==
  /\ now \in 1..MaxTime /\ issued \in [Sessions -> Times] /\ own \in [Sessions -> Times]
  /\ out \subseteq Sessions /\ cut \in Times /\ loaded \in {"no", "failed", "yes"}
  /\ outRows \subseteq Sessions /\ cutRow \in Times
  /\ writes \subseteq Sessions /\ writeCut \in Times /\ caught \subseteq Sessions /\ replace \in Times
  /\ refreshing \subseteq Sessions /\ ended \subseteq Sessions /\ endedBy \in [Sessions -> Times]
  /\ troubles \in 0..MaxTroubles

\* A session that was signed out, itself or with its account, is not accepted
\* again, neither with a token refreshed meanwhile nor after a restart, unless
\* its row could not be written (then: until the restart) or the table cannot be
\* read after it; an account's sign-out does not reach a session that is in the
\* middle of a refresh, nor one that was refreshed while the table was unreadable.
\* The session that replaces the caller's own is accepted.
SignedOutIsRefused ==
  /\ loaded = "yes" => \A s \in Sessions : s \in ended \/ endedBy[s] > 0 => ~ Accepted(s)
  /\ \A s \in Sessions : own[s] = cut + 1 /\ s \notin out => Accepted(s)
=============================================================================
