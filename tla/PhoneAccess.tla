----------------------------- MODULE PhoneAccess -----------------------------
(***************************************************************************)
(* Pairing and revocation of one phone (services/pairing_service.py): the  *)
(* one-time code two requests race for, the row a registration reuses, and *)
(* the registry's memory of which rows are active, which request threads   *)
(* fill while the event loop registers and revokes.                        *)
(*                                                                         *)
(* Requests are coroutines of one phone, pairing by code or by password;   *)
(* an action is what one does between two awaits.  Checks are threads in   *)
(* is_active(), which holds the registry's lock only to look and to store. *)
(***************************************************************************)
EXTENDS Integers, FiniteSets

CONSTANTS
  Requests,     \* pairing requests of the phone
  Checks,       \* threads of API requests that verify a token
  MaxRows,      \* bound: rows of paired_devices
  MaxTroubles   \* bound: unreadable databases and restarts

VARIABLES
  code,       \* the one-time code: "open", "closed" (cancelled, expired) or "used"
  req,        \* where a registration is
  entered,    \* registrations the code has let in
  found,      \* the active row it has read, 0 for none
  made,       \* rows made so far
  revoked,    \* rows with revoked_at set
  ended,      \* revoked rows whose revocation the operator has had confirmed
  reopened,   \* of those, rows whose mark a registration has dropped
  cache,      \* registry._active
  marked,     \* registry._revoked
  check, asks, sees, \* where a thread is, the row it asks for, what it found
  troubles

vars == <<code, req, entered, found, made, revoked, ended, reopened, cache, marked,
          check, asks, sees, troubles>>
pairing == <<code, req, entered, found, made>>
checking == <<check, asks, sees>>

Rows == 1..MaxRows
Active == (1..made) \ revoked

Init ==
  /\ code = "open"
  /\ req = [r \in Requests |-> "idle"] /\ entered = 0
  /\ found = [r \in Requests |-> 0]
  /\ made = 0 /\ revoked = {} /\ ended = {} /\ reopened = {}
  /\ cache = [p \in Rows |-> "none"] /\ marked = {}
  /\ check = [k \in Checks |-> "idle"] /\ asks = [k \in Checks |-> 1]
  /\ sees = [k \in Checks |-> "no"]
  /\ troubles = 0

(***************************************************************************)
(* The code: looked up, then taken by an update that asks again whether    *)
(* somebody has used it.                                                   *)
(***************************************************************************)
CloseCode ==
  /\ code = "open" /\ code' = "closed"
  /\ UNCHANGED <<req, entered, found, made, revoked, ended, reopened, cache, marked, checking, troubles>>

SeeCode(r) ==
  /\ req[r] = "idle" /\ code = "open"
  /\ req' = [req EXCEPT ![r] = "seen"]
  /\ UNCHANGED <<code, entered, found, made, revoked, ended, reopened, cache, marked, checking, troubles>>

\* For a mutant: the update does not ask.
UnusedAlways == TRUE
Unused == code # "used"

TakeCode(r) ==
  /\ req[r] = "seen"
  /\ req' = [req EXCEPT ![r] = IF Unused THEN "won" ELSE "idle"]
  /\ entered' = IF Unused THEN entered + 1 ELSE entered
  /\ code' = "used"
  /\ UNCHANGED <<found, made, revoked, ended, reopened, cache, marked, checking, troubles>>

\* A phone that signs in with the operator's password needs no code.
SignIn(r) ==
  /\ req[r] = "idle"
  /\ req' = [req EXCEPT ![r] = "won"]
  /\ UNCHANGED <<code, entered, found, made, revoked, ended, reopened, cache, marked, checking, troubles>>

(***************************************************************************)
(* register_phone: the phone's active row is read, written with new        *)
(* tokens, and then forgotten by the registry.                             *)
(***************************************************************************)
FindRow(r) ==
  /\ req[r] = "won"
  /\ \E p \in Active \cup {0} : (p = 0 => Active = {}) /\ found' = [found EXCEPT ![r] = p]
  /\ req' = [req EXCEPT ![r] = "found"]
  /\ UNCHANGED <<code, entered, made, revoked, ended, reopened, cache, marked, checking, troubles>>

WriteRow(r) ==
  /\ req[r] = "found"
  /\ found[r] = 0 => made < MaxRows
  /\ made' = IF found[r] = 0 THEN made + 1 ELSE made
  /\ found' = [found EXCEPT ![r] = IF @ = 0 THEN made + 1 ELSE @]
  /\ req' = [req EXCEPT ![r] = "kept"]
  /\ UNCHANGED <<code, entered, revoked, ended, reopened, cache, marked, checking, troubles>>

ForgetRow(r) ==
  /\ req[r] = "kept"
  /\ cache' = [cache EXCEPT ![found[r]] = "none"]
  /\ marked' = marked \ {found[r]}
  /\ reopened' = reopened \cup ({found[r]} \cap revoked)
  /\ found' = [found EXCEPT ![r] = 0]
  /\ req' = [req EXCEPT ![r] = "done"]
  /\ UNCHANGED <<code, entered, made, revoked, ended, checking, troubles>>

(***************************************************************************)
(* revoke_device: the row, and after its commit the registry.              *)
(***************************************************************************)
RevokeRow(p) ==
  /\ p \in Active
  /\ revoked' = revoked \cup {p}
  /\ UNCHANGED <<pairing, ended, reopened, cache, marked, checking, troubles>>

\* For a mutant: the row is noted where a check may overwrite it.
MarkCached(p) ==
  /\ UNCHANGED marked
  /\ cache' = [cache EXCEPT ![p] = "no"]
Mark(p) ==
  /\ marked' = marked \cup {p}
  /\ cache' = [cache EXCEPT ![p] = "no"]

MarkRevoked(p) ==
  /\ p \in revoked \ ended
  /\ Mark(p)
  /\ ended' = ended \cup {p}
  /\ UNCHANGED <<pairing, revoked, reopened, checking, troubles>>

(***************************************************************************)
(* is_active: the marks (without the lock), the cached answer, the row,    *)
(* and the answer stored.  An unreadable database keeps the last answer.   *)
(***************************************************************************)
Ask(k, p) ==
  /\ check[k] = "idle" /\ p \in 1..made
  /\ p \notin marked /\ cache[p] \notin {"yes", "no"}
  /\ check' = [check EXCEPT ![k] = "asked"]
  /\ asks' = [asks EXCEPT ![k] = p]
  /\ sees' = [sees EXCEPT ![k] = IF cache[p] = "was_yes" THEN "yes" ELSE "no"]
  /\ UNCHANGED <<pairing, revoked, ended, reopened, cache, marked, troubles>>

Read(k) ==
  /\ check[k] = "asked"
  /\ check' = [check EXCEPT ![k] = "read"]
  /\ sees' = [sees EXCEPT ![k] = IF asks[k] \in revoked THEN "revoked" ELSE "yes"]
  /\ UNCHANGED <<pairing, revoked, ended, reopened, cache, marked, asks, troubles>>

Unreadable(k) ==
  /\ check[k] = "asked" /\ troubles < MaxTroubles
  /\ troubles' = troubles + 1
  /\ check' = [check EXCEPT ![k] = "read"]
  /\ UNCHANGED <<pairing, revoked, ended, reopened, cache, marked, asks, sees>>

Store(k) ==
  /\ check[k] = "read"
  /\ cache' = [cache EXCEPT ![asks[k]] = IF sees[k] = "yes" THEN "yes" ELSE "no"]
  /\ marked' = IF sees[k] = "revoked" THEN marked \cup {asks[k]} ELSE marked
  /\ check' = [check EXCEPT ![k] = "idle"]
  /\ asks' = [asks EXCEPT ![k] = 1] /\ sees' = [sees EXCEPT ![k] = "no"]
  /\ UNCHANGED <<pairing, revoked, ended, reopened, troubles>>

\* ACTIVE_TTL_S has passed.
Age(p) ==
  /\ cache[p] \in {"yes", "no"}
  /\ cache' = [cache EXCEPT ![p] = IF @ = "yes" THEN "was_yes" ELSE "was_no"]
  /\ UNCHANGED <<pairing, revoked, ended, reopened, marked, checking, troubles>>

Restart ==
  /\ troubles < MaxTroubles /\ troubles' = troubles + 1
  /\ req' = [r \in Requests |-> IF req[r] = "done" THEN "done" ELSE "idle"]
  /\ check' = [k \in Checks |-> "idle"]
  /\ asks' = [k \in Checks |-> 1] /\ sees' = [k \in Checks |-> "no"]
  /\ cache' = [p \in Rows |-> "none"] /\ marked' = {}
  /\ ended' = revoked /\ reopened' = {}
  /\ found' = [r \in Requests |-> 0]
  /\ UNCHANGED <<code, entered, made, revoked>>

Pair(r) == SeeCode(r) \/ TakeCode(r) \/ SignIn(r) \/ FindRow(r) \/ WriteRow(r) \/ ForgetRow(r)
Verify(k) == (\E p \in Rows : Ask(k, p)) \/ Read(k) \/ Unreadable(k) \/ Store(k)

Next ==
  \/ CloseCode \/ Restart
  \/ \E r \in Requests : Pair(r)
  \/ \E p \in Rows : RevokeRow(p) \/ MarkRevoked(p) \/ Age(p)
  \/ \E k \in Checks : Verify(k)

Spec == Init /\ [][Next]_vars

-----------------------------------------------------------------------------
(* Properties.                                                             *)

TypeOK ==
  /\ code \in {"open", "closed", "used"}
  /\ req \in [Requests -> {"idle", "seen", "won", "found", "kept", "done"}]
  /\ entered \in 0..Cardinality(Requests) /\ found \in [Requests -> 0..MaxRows]
  /\ made \in 0..MaxRows /\ revoked \subseteq 1..made
  /\ ended \subseteq revoked /\ reopened \subseteq revoked
  /\ cache \in [Rows -> {"none", "yes", "no", "was_yes", "was_no"}] /\ marked \subseteq revoked
  /\ check \in [Checks -> {"idle", "asked", "read"}] /\ asks \in [Checks -> Rows]
  /\ sees \in [Checks -> {"yes", "no", "revoked"}]
  /\ troubles \in 0..MaxTroubles

\* A pairing code lets one phone in, however many requests present it at once.
CodeOnce == entered <= 1

\* A phone whose revocation was confirmed is refused from then on, also by
\* checks that had read its row before and store what they read after, and after
\* a restart; a registration that had found the row active drops the mark, and
\* then a check that old may be believed for ACTIVE_TTL_S.
RevokedIsRefused ==
  \A p \in ended \ reopened : p \in marked \/ cache[p] # "yes"

AccessSound == CodeOnce /\ RevokedIsRefused
=============================================================================
