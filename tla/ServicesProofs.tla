---------------------------- MODULE ServicesProofs ----------------------------
(***************************************************************************)
(* Proofs about PhoneAccess, AlertSockets, TokenRevocations, Tripwires,    *)
(* RestrictedArea, RecorderSubstreams, VisitFlush, QueueAreas, AlertReview *)
(* and InsightTopics, for all their parameters.  Each part has lemmas on   *)
(* its first state, its steps and what its invariant says (Init, Next,     *)
(* Safe), which StoreProofs cites, and a theorem.                          *)
(***************************************************************************)
EXTENDS Integers, Sequences, FiniteSets, FiniteSetTheorems, FunctionTheorems,
        SequenceTheorems, WellFoundedInduction, TLAPS

CONSTANTS
  PhoneRequests, PhoneChecks, PhoneRows, PhoneTroubles,
  Sockets,
  Sessions, TokenTime, TokenTroubles,
  Confirm, Repeat, Ttl, Keep, Flushers, LineTime, LineTroubles,
  People, Length, Grace, EarlyGrace, Slack, Window, AreaTime, AreaEntries,
  LastChannel, RecorderAttempts, RecorderRuns, RecorderTroubles,
  Visits, RetryMax, VisitTroubles,
  QueueGrace, LastFrame,
  Reviewers,                   \* the requests about an alert
  KeyOf, Alike, Operators,     \* the requests about topics
  TopicKinds, MaxTopics, MaxAnalyses, MaxTopicAsks, LastDay

VARIABLES
  code, req, entered, found, made, revoked, ended, reopened, cache, marked, check, asks, sees,
  troubles,
  valid, socket, walk, todo, answered, late, began, told,
  present, issued, out, cut, outRows, cutRow, loaded, writes, writeCut, caught, replace, refreshing,
  signedOut, endedBy, own, writeFailures,
  frames, wire, since, settled, events, moving, rows, gone, failures,
  clock, entries, snapshot, ask, compiled, assured, track, cooling, verdict,
  setting, password, saved, measured, kind, step, at, enc, outcome, errors, begun, prior, unsure,
  rejected, runs, mishaps,
  up, visit, touched, buffer, batch, retry, row, rowTouched, lost, orphans, visitTroubles,
  second, openStay, visits, cleared, within, outside,
  theft, incident, event, rq, given, clean, sentTwice, firstBy, crossed, phoned, recorded,
  today, analyses, finding, topic, sync, tq, asked, owes, loose

P == INSTANCE PhoneAccess WITH Requests <- PhoneRequests, Checks <- PhoneChecks,
                               MaxRows <- PhoneRows, MaxTroubles <- PhoneTroubles
S == INSTANCE AlertSockets
T == INSTANCE TokenRevocations WITH MaxTime <- TokenTime, MaxTroubles <- TokenTroubles,
                                    now <- present, ended <- signedOut,
                                    troubles <- writeFailures
L == INSTANCE Tripwires WITH MaxTime <- LineTime, MaxTroubles <- LineTroubles
A == INSTANCE RestrictedArea WITH MaxTime <- AreaTime, MaxEntries <- AreaEntries
R == INSTANCE RecorderSubstreams WITH Attempts <- RecorderAttempts, MaxRuns <- RecorderRuns,
                                      MaxTroubles <- RecorderTroubles
V == INSTANCE VisitFlush WITH MaxTroubles <- VisitTroubles, troubles <- visitTroubles
K == INSTANCE QueueAreas WITH Grace <- QueueGrace, stay <- openStay
Q == INSTANCE AlertReview WITH Requests <- Reviewers, req <- rq, first <- firstBy
I == INSTANCE InsightTopics WITH Requests <- Operators, Kinds <- TopicKinds, MaxRuns <- MaxAnalyses,
                                 MaxAsks <- MaxTopicAsks, clock <- today, runs <- analyses,
                                 req <- tq, asks <- asked

-------------------------------------------------------------------------------
(* Pairing and revocation of a phone.                                      *)

PhoneShapes ==
  /\ entered \in Nat
  /\ ended \subseteq revoked /\ revoked \subseteq P!Rows
  /\ cache = [p \in P!Rows |-> cache[p]] /\ check = [k \in PhoneChecks |-> check[k]]
  /\ asks = [k \in PhoneChecks |-> asks[k]] /\ sees = [k \in PhoneChecks |-> sees[k]]

\* Whoever is let in uses up the code.
CodeInv == entered <= 1 /\ (code # "used" => entered = 0)

\* Of a row whose mark is there, or that nobody takes for active: neither the
\* registry's memory, past its age too, nor a thread about to store an answer.
Refused(p) ==
  \/ p \in marked
  \/ /\ (p \in P!Rows => cache[p] \notin {"yes", "was_yes"})
     /\ \A k \in PhoneChecks : check[k] # "idle" /\ asks[k] = p => sees[k] # "yes"

RefusedInv == \A p \in ended \ reopened : Refused(p)

PhoneInv == PhoneShapes /\ CodeInv /\ RefusedInv

-------------------------------------------------------------------------------
(* The code.                                                               *)

\* Two requests may have seen the code open; the update asks again
\* (consume_code).
LEMMA CodeStep ==
  ASSUME PhoneInv, [P!Next]_(P!vars)
  PROVE  CodeInv' /\ entered' \in Nat
<1>1. CASE \E r \in PhoneRequests : P!TakeCode(r)
  BY <1>1 DEF PhoneInv, PhoneShapes, CodeInv, P!TakeCode, P!Unused
<1>2. CASE entered' = entered /\ (code' # "used" => code # "used")
  BY <1>2 DEF PhoneInv, PhoneShapes, CodeInv
<1> QED
  BY <1>1, <1>2 DEF P!Next, P!Pair, P!Verify, P!CloseCode, P!Restart, P!SeeCode, P!SignIn,
     P!FindRow, P!WriteRow, P!ForgetRow, P!RevokeRow, P!MarkRevoked, P!Mark, P!Age, P!Ask, P!Read,
     P!Unreadable, P!Store, P!vars, P!pairing, P!checking

-------------------------------------------------------------------------------
(* The revocation.                                                         *)

\* Every step leaves the functions functions, and a confirmed revocation is one
\* of a revoked row (paired_devices, _Registry).
LEMMA PhoneShapesStep ==
  ASSUME PhoneInv, [P!Next]_(P!vars)
  PROVE  /\ ended' \subseteq revoked' /\ revoked' \subseteq P!Rows
         /\ cache' = [p \in P!Rows |-> cache'[p]] /\ check' = [k \in PhoneChecks |-> check'[k]]
         /\ asks' = [k \in PhoneChecks |-> asks'[k]] /\ sees' = [k \in PhoneChecks |-> sees'[k]]
  BY DEF PhoneInv, PhoneShapes, P!Next, P!Pair, P!Verify, P!CloseCode, P!Restart, P!SeeCode,
     P!SignIn, P!TakeCode, P!FindRow, P!WriteRow, P!ForgetRow, P!RevokeRow, P!MarkRevoked, P!Mark,
     P!Age, P!Ask, P!Read, P!Unreadable, P!Store, P!vars, P!pairing, P!checking

\* A registration drops a mark only of a row it then counts as reopened (forget).
LEMMA ForgetKeeps ==
  ASSUME PhoneInv, NEW r \in PhoneRequests, P!ForgetRow(r)
  PROVE  RefusedInv'
<1> SUFFICES ASSUME NEW p \in (ended \ reopened)' PROVE Refused(p)'
  BY DEF RefusedInv
<1>1. p \in ended \ reopened /\ p \in revoked /\ p # found[r]
  BY DEF P!ForgetRow, PhoneInv, PhoneShapes
<1>2. Refused(p)
  BY <1>1 DEF PhoneInv, RefusedInv
<1>3. p \in marked => p \in marked'
  BY <1>1 DEF P!ForgetRow
<1>4. p \in P!Rows => cache'[p] = cache[p]
  BY <1>1 DEF P!ForgetRow, PhoneInv, PhoneShapes
<1> QED BY <1>2, <1>3, <1>4 DEF Refused, P!ForgetRow, P!checking

\* A check takes a row for active only if it was, or if the row is active now
\* (is_active).
LEMMA VerifyKeeps ==
  ASSUME PhoneInv, NEW k \in PhoneChecks, P!Verify(k)
  PROVE  RefusedInv'
<1> SUFFICES ASSUME NEW p \in (ended \ reopened)' PROVE Refused(p)'
  BY DEF RefusedInv
<1>1. p \in ended \ reopened /\ p \in revoked /\ Refused(p) /\ marked \subseteq marked'
  BY DEF P!Verify, P!Ask, P!Read, P!Unreadable, P!Store, PhoneInv, PhoneShapes, RefusedInv
<1>2. CASE p \in marked
  BY <1>1, <1>2 DEF Refused
<1>3. CASE p \notin marked
  <2>1. /\ p \in P!Rows => cache[p] \notin {"yes", "was_yes"}
        /\ \A c \in PhoneChecks : check[c] # "idle" /\ asks[c] = p => sees[c] # "yes"
    BY <1>1, <1>3 DEF Refused
  <2>2. ASSUME NEW q \in P!Rows, P!Ask(k, q) PROVE Refused(p)'
    BY <1>1, <2>1, <2>2 DEF P!Ask, PhoneInv, PhoneShapes, Refused
  <2>3. CASE P!Read(k)
    BY <1>1, <2>1, <2>3 DEF P!Read, PhoneInv, PhoneShapes, Refused
  <2>4. CASE P!Unreadable(k)
    BY <1>1, <2>1, <2>4 DEF P!Unreadable, PhoneInv, PhoneShapes, Refused
  <2>5. CASE P!Store(k)
    BY <1>1, <2>1, <2>5 DEF P!Store, PhoneInv, PhoneShapes, Refused
  <2> QED BY <2>2, <2>3, <2>4, <2>5 DEF P!Verify
<1> QED BY <1>2, <1>3

\* A row that has been marked is refused, and nothing but the above takes that
\* back (mark_revoked, the ageing of the answers, a restart).
LEMMA RefusedStep ==
  ASSUME PhoneInv, [P!Next]_(P!vars)
  PROVE  RefusedInv'
<1>1. ASSUME NEW r \in PhoneRequests, P!ForgetRow(r) PROVE RefusedInv'
  BY <1>1, ForgetKeeps
<1>2. ASSUME NEW k \in PhoneChecks, P!Verify(k) PROVE RefusedInv'
  BY <1>2, VerifyKeeps
<1>3. ASSUME NEW q \in P!Rows, P!MarkRevoked(q) PROVE RefusedInv'
  BY <1>3 DEF P!MarkRevoked, P!Mark, PhoneInv, PhoneShapes, RefusedInv, Refused, P!checking
<1>4. ASSUME NEW q \in P!Rows, P!Age(q) PROVE RefusedInv'
  BY <1>4 DEF P!Age, PhoneInv, PhoneShapes, RefusedInv, Refused, P!checking
<1>5. CASE P!Restart
  BY <1>5 DEF P!Restart, RefusedInv, Refused
<1>6. CASE UNCHANGED <<ended, reopened, cache, marked, P!checking>>
  BY <1>6 DEF PhoneInv, RefusedInv, Refused, P!checking
<1> QED
  BY <1>1, <1>2, <1>3, <1>4, <1>5, <1>6
  DEF P!Next, P!Pair, P!CloseCode, P!SeeCode, P!TakeCode, P!SignIn, P!FindRow, P!WriteRow,
     P!RevokeRow, P!vars, P!pairing, P!checking

-------------------------------------------------------------------------------

\* The invariant holds at the start.
LEMMA PhoneInit == P!Init => PhoneInv
BY DEF P!Init, PhoneInv, PhoneShapes, CodeInv, RefusedInv

\* No step breaks it.
LEMMA PhoneNext == PhoneInv /\ [P!Next]_(P!vars) => PhoneInv'
BY CodeStep, PhoneShapesStep, RefusedStep DEF PhoneInv, PhoneShapes

\* It says that one is let in and the revoked are refused.
LEMMA PhoneSafe == PhoneInv => P!AccessSound
<1> SUFFICES ASSUME PhoneInv PROVE P!AccessSound
  OBVIOUS
<1>1. P!CodeOnce
  BY DEF PhoneInv, CodeInv, P!CodeOnce
<1>2. P!RevokedIsRefused
  BY DEF PhoneInv, PhoneShapes, RefusedInv, Refused, P!RevokedIsRefused
<1> QED BY <1>1, <1>2 DEF P!AccessSound

\* A pairing code lets one phone in, and a phone whose revocation was confirmed
\* is refused from then on, also by checks that overlap it and after a restart
\* (consume_code, revoke_device, is_active).
THEOREM PhonesSound == P!Spec => []P!AccessSound
BY PhoneInit, PhoneNext, PhoneSafe, PTL DEF P!Spec

-------------------------------------------------------------------------------
(* Pairing and revocation: the domains.                                    *)

\* A row can be made, there is a last trouble, and finitely many requests.
PhoneBounds == PhoneRows \in Nat \ {0} /\ PhoneTroubles \in Nat /\ IsFiniteSet(PhoneRequests)

\* A registration that has kept a row knows it, and each row it knows has been made.
PhoneTypes ==
  /\ P!TypeOK
  /\ \A r \in PhoneRequests : found[r] <= made /\ (req[r] = "kept" => found[r] > 0)
  /\ \A k \in PhoneChecks : sees[k] = "revoked" => asks[k] \in revoked

\* Where there is a request, there is one at least.
LEMMA OneRequest ==
  ASSUME IsFiniteSet(PhoneRequests), NEW r \in PhoneRequests
  PROVE  0 \in 0..P!Cardinality(PhoneRequests) /\ 1 \in 0..P!Cardinality(PhoneRequests)
<1>1. Cardinality(PhoneRequests) \in Nat /\ Cardinality(PhoneRequests) # 0
  BY FS_CardinalityType, FS_EmptySet
<1>2. P!Cardinality(PhoneRequests) = Cardinality(PhoneRequests)
  BY DEF P!Cardinality, Cardinality
<1> QED BY <1>1, <1>2

\* A request (consume_code, register_phone).
LEMMA PairTyped ==
  ASSUME PhoneBounds, PhoneTypes, CodeInv, CodeInv', NEW r \in PhoneRequests, P!Pair(r)
  PROVE  PhoneTypes'
<1> USE DEF PhoneBounds, PhoneTypes, P!TypeOK, P!Rows
<1>1. CASE P!SeeCode(r)
  BY <1>1 DEF P!SeeCode, P!checking
<1>2. CASE P!TakeCode(r)
  <2>1. entered' \in {0, 1}
    BY <1>2 DEF P!TakeCode, CodeInv, P!Unused
  <2>2. entered' \in 0..P!Cardinality(PhoneRequests)
    BY <2>1, OneRequest
  <2> QED BY <1>2, <2>2 DEF P!TakeCode, P!checking
<1>3. CASE P!SignIn(r)
  BY <1>3 DEF P!SignIn, P!checking
<1>4. CASE P!FindRow(r)
  <2>1. PICK p \in P!Active \cup {0} : found' = [found EXCEPT ![r] = p]
    BY <1>4 DEF P!FindRow
  <2>2. p \in 0..made
    BY <2>1 DEF P!Active
  <2> QED BY <1>4, <2>1, <2>2 DEF P!FindRow, P!checking
<1>5. CASE P!WriteRow(r)
  BY <1>5 DEF P!WriteRow, P!checking
<1>6. CASE P!ForgetRow(r)
  <2>1. cache' \in [P!Rows -> {"none", "yes", "no", "was_yes", "was_no"}]
    BY <1>6 DEF P!ForgetRow
  <2>2. found' \in [PhoneRequests -> 0..PhoneRows] /\ \A q \in PhoneRequests : found'[q] <= made
    BY <1>6 DEF P!ForgetRow
  <2>3. /\ req' \in [PhoneRequests -> {"idle", "seen", "won", "found", "kept", "done"}]
        /\ \A q \in PhoneRequests : req'[q] = "kept" => found'[q] > 0
    BY <1>6 DEF P!ForgetRow
  <2>4. marked' \subseteq revoked /\ reopened' \subseteq revoked
    BY <1>6 DEF P!ForgetRow
  <2> QED BY <1>6, <2>1, <2>2, <2>3, <2>4 DEF P!ForgetRow, P!checking
<1> QED BY <1>1, <1>2, <1>3, <1>4, <1>5, <1>6 DEF P!Pair

\* A check (is_active).
LEMMA VerifyTyped ==
  ASSUME PhoneBounds, PhoneTypes, NEW k \in PhoneChecks, P!Verify(k)
  PROVE  PhoneTypes'
<1> USE DEF PhoneBounds, PhoneTypes, P!TypeOK, P!Rows
<1>1. ASSUME NEW p \in P!Rows, P!Ask(k, p) PROVE PhoneTypes'
  BY <1>1 DEF P!Ask, P!pairing
<1>2. CASE P!Read(k)
  BY <1>2 DEF P!Read, P!pairing
<1>3. CASE P!Unreadable(k)
  BY <1>3 DEF P!Unreadable, P!pairing
<1>4. CASE P!Store(k)
  <2>1. cache' \in [P!Rows -> {"none", "yes", "no", "was_yes", "was_no"}]
    BY <1>4 DEF P!Store
  <2>2. marked' \subseteq revoked
    BY <1>4 DEF P!Store
  <2>3. /\ check' \in [PhoneChecks -> {"idle", "asked", "read"}] /\ asks' \in [PhoneChecks -> P!Rows]
        /\ sees' \in [PhoneChecks -> {"yes", "no", "revoked"}]
        /\ \A c \in PhoneChecks : sees'[c] = "revoked" => asks'[c] \in revoked
    BY <1>4 DEF P!Store
  <2> QED BY <1>4, <2>1, <2>2, <2>3 DEF P!Store, P!pairing
<1> QED BY <1>1, <1>2, <1>3, <1>4 DEF P!Verify

\* The domains at the start.
LEMMA PhoneTypesInit == PhoneBounds => (P!Init => PhoneTypes)
<1> SUFFICES ASSUME PhoneBounds, P!Init PROVE PhoneTypes
  OBVIOUS
<1>1. P!Cardinality(PhoneRequests) = Cardinality(PhoneRequests)
  BY DEF P!Cardinality, Cardinality
<1>2. 0 \in 0..P!Cardinality(PhoneRequests)
  BY <1>1, FS_CardinalityType DEF PhoneBounds
<1> QED BY <1>2 DEF PhoneBounds, P!Init, PhoneTypes, P!TypeOK, P!Rows

\* No step leaves them.
LEMMA PhoneTypesNext ==
  PhoneBounds => (PhoneInv /\ PhoneTypes /\ [P!Next]_(P!vars) => PhoneTypes')
<1> SUFFICES ASSUME PhoneBounds, PhoneInv, PhoneTypes, [P!Next]_(P!vars) PROVE PhoneTypes'
  OBVIOUS
<1>1. CodeInv /\ CodeInv'
  BY CodeStep DEF PhoneInv
<1>2. ASSUME NEW r \in PhoneRequests, P!Pair(r) PROVE PhoneTypes'
  BY <1>1, <1>2, PairTyped
<1>3. ASSUME NEW k \in PhoneChecks, P!Verify(k) PROVE PhoneTypes'
  BY <1>3, VerifyTyped
<1> USE DEF PhoneBounds, PhoneTypes, P!TypeOK, P!Rows
<1>4. CASE P!CloseCode \/ UNCHANGED P!vars
  BY <1>4 DEF P!CloseCode, P!vars, P!checking, P!pairing
<1>5. CASE P!Restart
  BY <1>5 DEF P!Restart
<1>6. ASSUME NEW p \in P!Rows, P!RevokeRow(p) PROVE PhoneTypes'
  BY <1>6 DEF P!RevokeRow, P!Active, P!pairing, P!checking
<1>7. ASSUME NEW p \in P!Rows, P!MarkRevoked(p) PROVE PhoneTypes'
  BY <1>7 DEF P!MarkRevoked, P!Mark, P!pairing, P!checking
<1>8. ASSUME NEW p \in P!Rows, P!Age(p) PROVE PhoneTypes'
  BY <1>8 DEF P!Age, P!pairing, P!checking
<1> QED BY <1>2, <1>3, <1>4, <1>5, <1>6, <1>7, <1>8 DEF P!Next

-------------------------------------------------------------------------------
(* The live alert sockets.                                                 *)

SocketShapes ==
  /\ socket = [s \in Sockets |-> socket[s]]
  /\ walk = [w \in S!Walkers |-> walk[w]] /\ todo = [w \in S!Walkers |-> todo[w]]
  /\ answered \cap valid = {} /\ late \cap valid = {}

\* A socket that is being accepted has a credential, or is known to be late.
Accepting == \A s \in Sockets : socket[s] = "checked" => s \in valid \cup late

\* An open socket without a credential is before the sign-out that ends it.
SignOutSees ==
  \A s \in S!Open : s \in valid \cup late \/ (walk["signout"] = "prune" /\ s \in todo["signout"])

\* An open socket that the broadcast may not tell is before its pruning, and gone
\* when the sending begins.
BroadcastSees ==
  walk["alert"] # "idle" =>
    /\ valid \subseteq began
    /\ \A s \in S!Open : s \in began \cup late \/ (walk["alert"] = "prune" /\ s \in todo["alert"])

SocketInv ==
  SocketShapes /\ Accepting /\ SignOutSees /\ BroadcastSees /\ S!SilentAfterEnd

\* The socket's own steps: what opens was verified, or is late (websocket_alerts).
LEMMA SocketMoves ==
  ASSUME SocketInv, NEW s \in Sockets, S!Verify(s) \/ S!Connect(s) \/ S!Close(s)
  PROVE  SocketInv'
BY DEF SocketInv, SocketShapes, Accepting, SignOutSees, BroadcastSees, S!SilentAfterEnd, S!Open,
   S!Verify, S!Connect, S!Close

\* A sign-out has every open socket of its credential before it (prune).
LEMMA SignOutKeeps ==
  ASSUME SocketInv, NEW s \in Sockets, S!SignOut(s)
  PROVE  SocketInv'
BY DEF SocketInv, SocketShapes, Accepting, SignOutSees, BroadcastSees, S!SilentAfterEnd, S!Open,
   S!SignOut, S!StartPrune, S!Walkers

\* A broadcast has every open socket before it, and sends to those that are left
\* (broadcast).
LEMMA BroadcastKeeps ==
  ASSUME SocketInv, S!Broadcast \/ S!Sent \/ \E s \in Sockets : S!Send(s)
  PROVE  SocketInv'
BY DEF SocketInv, SocketShapes, Accepting, SignOutSees, BroadcastSees, S!SilentAfterEnd, S!Open,
   S!Broadcast, S!StartPrune, S!Sent, S!Send, S!Walkers

\* A walker passes over nothing but sockets that verify (prune).
LEMMA CutKeeps ==
  ASSUME SocketInv, NEW w \in S!Walkers, NEW s \in Sockets, NEW rest \in SUBSET Sockets,
         S!Cut(w, s, rest)
  PROVE  SocketInv'
BY DEF SocketInv, SocketShapes, Accepting, SignOutSees, BroadcastSees, S!SilentAfterEnd, S!Open,
   S!Cut, S!Walkers

\* At the end of a walk nothing is open that it should have closed (prune).
LEMMA PrunedKeeps ==
  ASSUME SocketInv, NEW w \in S!Walkers, S!Pruned(w)
  PROVE  SocketInv'
BY DEF SocketInv, SocketShapes, Accepting, SignOutSees, BroadcastSees, S!SilentAfterEnd, S!Open,
   S!Pruned, S!Walkers

\* The invariant holds at the start.
LEMMA SocketInit == S!Init => SocketInv
BY DEF S!Init, SocketInv, SocketShapes, Accepting, SignOutSees, BroadcastSees, S!SilentAfterEnd,
   S!Open, S!Walkers

\* No step breaks it.
LEMMA SocketNext == SocketInv /\ [S!Next]_(S!vars) => SocketInv'
<1> SUFFICES ASSUME SocketInv, [S!Next]_(S!vars) PROVE SocketInv'
  OBVIOUS
<1>1. CASE UNCHANGED S!vars
  BY <1>1 DEF S!vars, SocketInv, SocketShapes, Accepting, SignOutSees, BroadcastSees,
     S!SilentAfterEnd, S!Open
<1>2. CASE S!Next
  BY <1>2, SocketMoves, SignOutKeeps, BroadcastKeeps, CutKeeps, PrunedKeeps DEF S!Next
<1> QED BY <1>1, <1>2

\* An answered sign-out leaves no socket of its credential open, and an alert goes
\* to nobody whose credential had ended when it set out, for every number of
\* sockets and whatever opens and closes meanwhile (prune, broadcast).
THEOREM SocketsSilent == S!Spec => []S!SilentAfterEnd
BY SocketInit, SocketNext, PTL DEF S!Spec, SocketInv

-------------------------------------------------------------------------------
(* The live alert sockets: the domains.                                    *)

\* The domains at the start.
LEMMA SocketTypesInit == S!Init => S!TypeOK
BY DEF S!Init, S!TypeOK, S!Walkers

\* No step leaves them.
LEMMA SocketTypesNext == S!TypeOK /\ [S!Next]_(S!vars) => S!TypeOK'
<1> SUFFICES ASSUME S!TypeOK, [S!Next]_(S!vars) PROVE S!TypeOK'
  OBVIOUS
<1> USE DEF S!TypeOK
<1>1. ASSUME NEW s \in Sockets, S!Verify(s) \/ S!Connect(s) \/ S!Close(s) PROVE S!TypeOK'
  BY <1>1 DEF S!Verify, S!Connect, S!Close
<1>2. ASSUME NEW s \in Sockets, S!SignOut(s) PROVE S!TypeOK'
  BY <1>2 DEF S!SignOut, S!StartPrune, S!Open, S!Walkers
<1>3. CASE S!Broadcast
  BY <1>3 DEF S!Broadcast, S!StartPrune, S!Open, S!Walkers
<1>4. ASSUME NEW s \in Sockets, S!Send(s) PROVE S!TypeOK'
  BY <1>4 DEF S!Send, S!Walkers
<1>5. CASE S!Sent \/ UNCHANGED S!vars
  BY <1>5 DEF S!Sent, S!vars, S!Walkers
<1>6. ASSUME NEW w \in S!Walkers, NEW s \in Sockets, NEW rest \in SUBSET Sockets, S!Cut(w, s, rest)
      PROVE  S!TypeOK'
  BY <1>6 DEF S!Cut
<1>7. ASSUME NEW w \in S!Walkers, S!Pruned(w) PROVE S!TypeOK'
  BY <1>7 DEF S!Pruned, S!Open
<1> QED BY <1>1, <1>2, <1>3, <1>4, <1>5, <1>6, <1>7 DEF S!Next

-------------------------------------------------------------------------------
(* Sign-out and sessions.                                                  *)

TokenShapes ==
  /\ present \in Nat /\ cut \in Nat /\ cutRow \in Nat /\ writeCut \in Nat /\ replace \in Nat
  /\ issued \in [Sessions -> Nat] /\ own \in [Sessions -> Nat] /\ endedBy \in [Sessions -> Nat]
  /\ loaded \in {"no", "failed", "yes"}

\* Nothing is cut off later than now; the table is never ahead of what was read,
\* and a cut-off that is still to be written is the account's.
CutOffs ==
  /\ cut <= present /\ cutRow <= present
  /\ loaded = "yes" => cutRow <= cut
  /\ cut > 0 => cutRow <= cut
  /\ writeCut > 0 => writeCut = cut
  /\ replace <= cut + 1

\* A session that was signed out is in memory or, after a restart, in the table.
SignOutsKept ==
  /\ writes \subseteq out /\ signedOut \subseteq out \cup outRows
  /\ loaded = "yes" => outRows \subseteq out

\* A session that a sign-out of the account is ending, or has finished, has no token
\* younger than that, and no refresh on its way to one.
CutSessions ==
  /\ \A s \in Sessions : issued[s] <= present \/ issued[s] <= cut + 1
  /\ \A s \in Sessions : s \in caught =>
        issued[s] > 0 /\ issued[s] <= writeCut /\ s \notin refreshing
  /\ caught # {} => writeCut > 0
  /\ \A s \in Sessions : endedBy[s] > 0 =>
        issued[s] > 0 /\ issued[s] <= endedBy[s] /\ s \notin refreshing
        /\ (endedBy[s] <= cut \/ endedBy[s] <= cutRow)
  /\ \A s \in Sessions : s \in refreshing => issued[s] > 0

\* The session that replaces the caller's is younger than the cut-off it follows.
OwnIsYounger == \A s \in Sessions : own[s] <= issued[s]

TokenInv == TokenShapes /\ CutOffs /\ SignOutsKept /\ CutSessions /\ OwnIsYounger

\* Time, the table read again, sign-ins (is_revoked, issue).
LEMMA ReadsKeep ==
  ASSUME TokenInv,
         T!Tick \/ T!Reload \/ \E s \in Sessions : T!SignIn(s) \/ T!Replace(s)
  PROVE  TokenInv'
<1>1. CASE T!Tick
  BY <1>1 DEF T!Tick, TokenInv, TokenShapes, CutOffs, SignOutsKept, CutSessions, OwnIsYounger,
     T!memory, T!table, T!signouts, T!answers
<1>2. CASE T!Reload
  BY <1>2 DEF T!Reload, T!Merged, T!Later, T!Trouble, TokenInv, TokenShapes, CutOffs,
     SignOutsKept, CutSessions, OwnIsYounger, T!table, T!signouts, T!answers
<1>3. ASSUME NEW s \in Sessions, T!SignIn(s) PROVE TokenInv'
  BY <1>3 DEF T!SignIn, T!Begin, T!IssueTime, T!Later, TokenInv, TokenShapes, CutOffs,
     SignOutsKept, CutSessions, OwnIsYounger, T!memory, T!table, T!signouts, T!answers
<1>4. ASSUME NEW s \in Sessions, T!Replace(s) PROVE TokenInv'
  BY <1>4 DEF T!Replace, T!Begin, T!IssueTime, T!Later, TokenInv, TokenShapes, CutOffs,
     SignOutsKept, CutSessions, OwnIsYounger, T!memory, T!table, T!signouts, T!answers
<1> QED BY <1>1, <1>2, <1>3, <1>4

\* Refreshes: a check that accepts a session has seen no cut-off that ends it
\* (refresh).
LEMMA RefreshesKeep ==
  ASSUME TokenInv, \E s \in Sessions : T!RefreshAsk(s) \/ T!RefreshIssue(s)
  PROVE  TokenInv'
<1>1. ASSUME NEW s \in Sessions, T!RefreshAsk(s) PROVE TokenInv'
  BY <1>1 DEF T!RefreshAsk, T!Accepted, TokenInv, TokenShapes, CutOffs, SignOutsKept,
     CutSessions, OwnIsYounger,
     T!memory, T!table, T!signouts, T!answers
<1>2. ASSUME NEW s \in Sessions, T!RefreshIssue(s) PROVE TokenInv'
  BY <1>2 DEF T!RefreshIssue, T!Refreshed, TokenInv, TokenShapes, CutOffs, SignOutsKept,
     CutSessions, OwnIsYounger,
     T!memory, T!table, T!signouts, T!answers
<1> QED BY <1>1, <1>2

\* Sign-outs of a session and of the account (revoke, revoke_user).
LEMMA SignOutsKeep ==
  ASSUME TokenInv,
         T!SignOutAccount \/ T!WriteAccount \/ \E s \in Sessions : T!SignOut(s) \/ T!WriteSignOut(s)
  PROVE  TokenInv'
<1>1. ASSUME NEW s \in Sessions, T!SignOut(s) PROVE TokenInv'
  BY <1>1 DEF T!SignOut, TokenInv, TokenShapes, CutOffs, SignOutsKept,
     CutSessions, OwnIsYounger,
     T!memory, T!table, T!signouts, T!answers
<1>2. ASSUME NEW s \in Sessions, T!WriteSignOut(s) PROVE TokenInv'
  BY <1>2 DEF T!WriteSignOut, T!Trouble, TokenInv, TokenShapes, CutOffs, SignOutsKept,
     CutSessions, OwnIsYounger,
     T!memory, T!table, T!signouts, T!answers
<1>3. CASE T!SignOutAccount
  BY <1>3 DEF T!SignOutAccount, TokenInv, TokenShapes, CutOffs, SignOutsKept,
     CutSessions, OwnIsYounger,
     T!memory, T!table, T!signouts, T!answers
<1>4. CASE T!WriteAccount
  BY <1>4 DEF T!WriteAccount, T!Trouble, T!Later, TokenInv, TokenShapes, CutOffs, SignOutsKept,
     CutSessions, OwnIsYounger,
     T!memory, T!table, T!signouts, T!answers
<1> QED BY <1>1, <1>2, <1>3, <1>4

\* A restart forgets what the table does not have, and the answers that stood for
\* it.
LEMMA TokenRestartKeeps ==
  ASSUME TokenInv, T!Restart
  PROVE  TokenInv'
BY DEF T!Restart, T!Trouble, TokenInv, TokenShapes, CutOffs, SignOutsKept, CutSessions,
   OwnIsYounger, T!table

\* The invariant holds at the start.
LEMMA TokenInit == T!Init => TokenInv
BY DEF T!Init, T!None, TokenInv, TokenShapes, CutOffs, SignOutsKept, CutSessions, OwnIsYounger

\* No step breaks it.
LEMMA TokenNext == TokenInv /\ [T!Next]_(T!vars) => TokenInv'
<1> SUFFICES ASSUME TokenInv, [T!Next]_(T!vars) PROVE TokenInv'
  OBVIOUS
<1>1. CASE UNCHANGED T!vars
  BY <1>1 DEF T!vars, TokenInv, TokenShapes, CutOffs, SignOutsKept, CutSessions, OwnIsYounger,
     T!memory, T!table, T!signouts, T!answers
<1>2. CASE T!Next
  BY <1>2, ReadsKeep, RefreshesKeep, SignOutsKeep, TokenRestartKeeps DEF T!Next
<1> QED BY <1>1, <1>2

\* It says that what is signed out is refused, and the caller's new session not.
LEMMA TokenSafe == TokenInv => T!SignedOutIsRefused
BY DEF TokenInv, TokenShapes, CutOffs, SignOutsKept, CutSessions, OwnIsYounger,
   T!SignedOutIsRefused, T!Accepted

\* A session that was signed out, itself or with its account, is not accepted
\* again, and the one that replaces the caller's own is, for every number of
\* sessions, refreshes, failed writes and restarts (is_revoked, revoke_user).
THEOREM SignedOutStaysOut == T!Spec => []T!SignedOutIsRefused
BY TokenInit, TokenNext, TokenSafe, PTL DEF T!Spec

-------------------------------------------------------------------------------
(* Sign-out and sessions: the domains.                                     *)

\* There is a first millisecond and a last trouble.
TokenBounds == TokenTime \in Nat \ {0} /\ TokenTroubles \in Nat

\* A cut-off is of a time that has been.
TokenTypes == T!TypeOK /\ cut <= present /\ cutRow <= present /\ writeCut <= present

\* The domains at the start.
LEMMA TokenTypesInit == TokenBounds => (T!Init => TokenTypes)
BY DEF TokenBounds, T!Init, T!None, TokenTypes, T!TypeOK, T!Times

\* No step leaves them.
LEMMA TokenTypesNext == TokenBounds => (TokenTypes /\ [T!Next]_(T!vars) => TokenTypes')
<1> SUFFICES ASSUME TokenBounds, TokenTypes, [T!Next]_(T!vars) PROVE TokenTypes'
  OBVIOUS
<1> USE DEF TokenBounds, TokenTypes, T!TypeOK, T!Times, T!Trouble
<1>1. CASE T!Tick \/ UNCHANGED T!vars
  BY <1>1 DEF T!Tick, T!vars, T!memory, T!table, T!signouts, T!answers
<1>2. CASE T!Reload
  BY <1>2 DEF T!Reload, T!Merged, T!Later, T!table, T!signouts, T!answers
<1>3. ASSUME NEW s \in Sessions, T!SignIn(s) \/ T!Replace(s) PROVE TokenTypes'
  BY <1>3 DEF T!SignIn, T!Replace, T!Begin, T!IssueTime, T!Later, T!memory, T!table, T!signouts,
     T!answers
<1>4. ASSUME NEW s \in Sessions, T!RefreshAsk(s) \/ T!RefreshIssue(s) PROVE TokenTypes'
  BY <1>4 DEF T!RefreshAsk, T!RefreshIssue, T!Refreshed, T!memory, T!table, T!signouts, T!answers
<1>5. ASSUME NEW s \in Sessions, T!SignOut(s) \/ T!WriteSignOut(s) PROVE TokenTypes'
  BY <1>5 DEF T!SignOut, T!WriteSignOut, T!memory, T!table, T!answers
<1>6. CASE T!SignOutAccount
  BY <1>6 DEF T!SignOutAccount, T!table, T!answers
<1>7. CASE T!WriteAccount
  BY <1>7 DEF T!WriteAccount, T!Later, T!memory
<1>8. CASE T!Restart
  BY <1>8 DEF T!Restart, T!table
<1> QED BY <1>1, <1>2, <1>3, <1>4, <1>5, <1>6, <1>7, <1>8 DEF T!Next

-------------------------------------------------------------------------------
(* Tripwires: any confirmation and settling time and any path.             *)

Wire == [side : {0} \cup L!Sides, anchor : L!Foot, pendingSide : {0} \cup L!Sides,
         pendingCount : 0..(Confirm - 1), tentative : {L!None} \cup [side : L!Sides, at : Nat],
         seenAt : Nat]

WireType ==
  /\ frames \in Nat /\ wire \in Wire
  /\ since \in [first : {0} \cup L!Sides, net : Int, round : Int, wrong : BOOLEAN]

\* A track that has had no side yet has nothing to balance.
NoSideYet == wire.side = 0 <=> since.first = 0

BalanceInv == WireType /\ NoSideYet /\ L!Balanced

-------------------------------------------------------------------------------
(* What each way of step_crossing does to the state.                       *)

\* A crossing that settles leaves the state, and nothing else of it changes
\* (the first lines of step_crossing).
LEMMA RestKeeps ==
  ASSUME NEW w \in Wire, NEW now \in Nat
  PROVE  /\ L!Rest(w, now) \in Wire
         /\ L!Rest(w, now).side = w.side
         /\ L!Due(w, now).side \in Int
         /\ L!Due(w, now).side + L!Rest(w, now).tentative.side = w.tentative.side
<1>1. w.tentative.side \in Int /\ L!None.side = 0
  BY DEF Wire, L!None, L!Sides
<1>2. CASE L!Due(w, now) = L!None
  <2>1. L!Rest(w, now) = [w EXCEPT !.seenAt = now]
    BY <1>2 DEF L!Rest, Wire
  <2> QED BY <1>1, <1>2, <2>1 DEF Wire
<1>3. CASE L!Due(w, now) # L!None
  <2>1. L!Due(w, now) = w.tentative
    BY <1>3 DEF L!Due
  <2>2. L!Rest(w, now) = [w EXCEPT !.tentative = L!None, !.seenAt = now]
    BY <1>3 DEF L!Rest
  <2>3. L!Rest(w, now) \in Wire
    BY <2>2 DEF Wire
  <2>4. L!Rest(w, now).side = w.side /\ L!Rest(w, now).tentative = L!None
    BY <2>2 DEF Wire
  <2> QED BY <1>1, <2>1, <2>3, <2>4
<1> QED BY <1>2, <1>3

\* A frame clear of the line that is not yet enough leaves side and crossing.
LEMMA WaitsKeeps ==
  ASSUME NEW w \in Wire, NEW s \in L!Sides, Confirm \in Nat \ {0}, ~L!Cleared(w, s)
  PROVE  /\ L!Waits(w, s) \in Wire
         /\ L!Waits(w, s).side = w.side /\ L!Waits(w, s).tentative = w.tentative
<1> DEFINE n == (IF w.pendingSide = s THEN w.pendingCount ELSE 0) + 1
<1>1. n \in 0..(Confirm - 1)
  BY DEF Wire, L!Cleared
<1>2. L!Waits(w, s) = [w EXCEPT !.pendingSide = s, !.pendingCount = n]
  BY DEF L!Waits
<1> QED BY <1>1, <1>2 DEF Wire

\* A frame that decides the side says which.
LEMMA StandsThere ==
  ASSUME NEW w \in Wire, NEW foot \in L!Foot, foot.x # 0, Confirm \in Nat \ {0}
  PROVE  /\ L!Stands(w, foot) \in Wire
         /\ L!Stands(w, foot).side = foot.x /\ L!Stands(w, foot).tentative = w.tentative
<1>1. foot.x \in L!Sides
  BY DEF L!Foot, L!Sides
<1>2. 0 \in 0..(Confirm - 1)
  OBVIOUS
<1> QED BY <1>1, <1>2 DEF L!Stands, Wire

\* A crossing waits, or takes away the one that waited.
LEMMA BouncedIs ==
  ASSUME NEW w \in Wire, NEW s \in L!Sides, NEW now \in Nat
  PROVE  /\ L!Bounced(w, s, now) \in Wire /\ L!Bounced(w, s, now).side = w.side
         /\ L!Bounced(w, s, now).tentative.side = IF w.tentative # L!None THEN 0 ELSE s
  BY DEF L!Bounced, Wire, L!None

-------------------------------------------------------------------------------
(* A frame.                                                                *)

\* A frame that shows the track moves its side by as much as it counts, now or
\* later, or as it went round the end (step_crossing).
LEMMA SeenBalanced ==
  ASSUME Confirm \in Nat \ {0}, BalanceInv, NEW foot \in L!Foot, L!Seen(foot)
  PROVE  BalanceInv'
<1> DEFINE now == frames + 1
           r == L!Rest(wire, now)
           due == L!Due(wire, now).side
           flips == L!Flips(r, foot)
<1>1. /\ frames \in Nat /\ now \in Nat /\ wire \in Wire
      /\ since \in [first : {0} \cup L!Sides, net : Int, round : Int, wrong : BOOLEAN]
  BY DEF BalanceInv, WireType
<1>2. /\ r \in Wire /\ r.side = wire.side /\ due \in Int
      /\ due + r.tentative.side = wire.tentative.side
  BY <1>1, RestKeeps
<1>3. /\ frames' = now /\ wire' = L!Stepped(wire, foot, now)
      /\ since'.first = IF since.first = 0 THEN foot.x ELSE since.first
      /\ since'.net = since.net + due
      /\ since'.round = IF flips /\ ~L!Crosses(r.anchor, foot) THEN since.round + foot.x ELSE since.round
      /\ since'.wrong = (since.wrong \/ (flips /\ L!Crosses(r.anchor, foot) /\ r.tentative.side = foot.x))
  BY <1>1 DEF L!Seen, L!Lived
<1>4. foot.x \in Int /\ foot.x \in {0} \cup L!Sides
  BY DEF L!Foot, L!Sides
<1>5. since' \in [first : {0} \cup L!Sides, net : Int, round : Int, wrong : BOOLEAN]
  <2> DEFINE first == IF since.first = 0 THEN foot.x ELSE since.first
             round == IF flips /\ ~L!Crosses(r.anchor, foot) THEN since.round + foot.x ELSE since.round
             wrong == since.wrong \/ (flips /\ L!Crosses(r.anchor, foot) /\ r.tentative.side = foot.x)
  <2>1. since' = [since EXCEPT !.first = first, !.net = since.net + due, !.round = round, !.wrong = wrong]
    BY <1>1 DEF L!Seen, L!Lived
  <2>2. first \in {0} \cup L!Sides /\ since.net + due \in Int /\ round \in Int
    BY <1>1, <1>2, <1>4
  <2>3. wrong \in BOOLEAN
    OBVIOUS
  <2> HIDE DEF first, round, wrong
  <2> QED BY <1>1, <2>1, <2>2, <2>3
<1>6. /\ wire.side \in {0} \cup L!Sides /\ wire.tentative.side \in Int
      /\ r.tentative.side \in Int /\ since.first \in {0} \cup L!Sides
      /\ since.net \in Int /\ since.round \in Int
      /\ (wire.side = 0 <=> since.first = 0)
  BY <1>1, <1>2 DEF BalanceInv, NoSideYet, L!Balanced, Wire, L!None, L!Sides
<1>6a. ~since'.wrong => 2 * (since.net + wire.tentative.side + since.round) = wire.side - since.first
  BY <1>3 DEF BalanceInv, L!Balanced
<1> DEFINE Moved == /\ wire' \in Wire /\ (wire'.side = 0 <=> since'.first = 0)
                    /\ ~since'.wrong => 2 * (since'.net + wire'.tentative.side + since'.round)
                                        = wire'.side - since'.first
<1>7. SUFFICES Moved
  <2> SUFFICES ASSUME Moved PROVE BalanceInv'
    OBVIOUS
  <2>1. L!Balanced'
    BY ZenonT(30) DEF L!Balanced
  <2>2. WireType' /\ NoSideYet'
    BY <1>1, <1>3, <1>5 DEF WireType, NoSideYet
  <2> QED BY <2>1, <2>2 DEF BalanceInv
<1>8. CASE foot.x = 0
  <2>1. wire' = r /\ ~flips
    BY <1>3, <1>8 DEF L!Stepped, L!Flips
  <2> QED BY <1>2, <1>3, <1>6, <1>6a, <1>8, <2>1 DEF L!Sides
<1>9. CASE foot.x # 0 /\ (wire.side = 0 \/ foot.x = wire.side)
  <2>1. wire' = L!Stands(r, foot) /\ ~flips
    BY <1>2, <1>3, <1>4, <1>9 DEF L!Stepped, L!Flips, L!Sides
  <2>2. wire' \in Wire /\ wire'.side = foot.x /\ wire'.tentative.side = r.tentative.side
    BY <1>2, <1>9, <2>1, StandsThere
  <2> QED BY <1>2, <1>3, <1>4, <1>6, <1>6a, <1>9, <2>1, <2>2 DEF L!Sides
<1>10. CASE foot.x # 0 /\ wire.side = -foot.x /\ ~L!Cleared(r, foot.x)
  <2>1. wire' = L!Waits(r, foot.x) /\ ~flips
    BY <1>2, <1>3, <1>4, <1>10 DEF L!Stepped, L!Flips, L!Sides
  <2>2. wire' \in Wire /\ wire'.side = wire.side /\ wire'.tentative.side = r.tentative.side
    BY <1>2, <1>4, <1>10, <2>1, WaitsKeeps
  <2> QED BY <1>2, <1>3, <1>4, <1>6, <1>6a, <1>10, <2>1, <2>2 DEF L!Sides
<1>11. CASE foot.x # 0 /\ wire.side = -foot.x /\ L!Cleared(r, foot.x) /\ ~L!Crosses(r.anchor, foot)
  <2>1. wire' = L!Stands(r, foot) /\ flips
    BY <1>2, <1>3, <1>4, <1>11 DEF L!Stepped, L!Flips, L!Sides
  <2>2. wire' \in Wire /\ wire'.side = foot.x /\ wire'.tentative.side = r.tentative.side
    BY <1>2, <1>11, <2>1, StandsThere
  <2>3. /\ since'.round = since.round + foot.x /\ since'.net = since.net + due
        /\ since'.first = since.first /\ since.first # 0 /\ wire.side = -foot.x
    BY <1>3, <1>4, <1>6, <1>11, <2>1 DEF L!Sides
  <2>4. ASSUME ~since'.wrong
        PROVE  2 * (since'.net + wire'.tentative.side + since'.round) = wire'.side - since'.first
    <3> DEFINE n == since.net
           w == wire.tentative.side
           o == since.round
           f == since.first
           x == foot.x
           t == r.tentative.side
    <3>1. /\ n \in Int /\ w \in Int /\ o \in Int /\ f \in Int /\ x \in Int /\ t \in Int /\ due \in Int
          /\ due + t = w
      BY <1>2, <1>4, <1>6 DEF L!Sides
    <3>2. 2 * (n + w + o) = -x - f
      BY <1>6a, <2>3, <2>4
    <3>3. /\ since'.net = n + due /\ wire'.tentative.side = t /\ since'.round = o + x
          /\ wire'.side = x /\ since'.first = f
      BY <2>2, <2>3
    <3> HIDE DEF n, w, o, f, x, t, due
    <3>4. 2 * ((n + due) + t + (o + x)) = x - f
      BY <3>1, <3>2
    <3> QED BY <3>3, <3>4
  <2> QED BY <1>11, <2>2, <2>3, <2>4
<1>12. CASE foot.x # 0 /\ wire.side = -foot.x /\ L!Cleared(r, foot.x) /\ L!Crosses(r.anchor, foot)
  <2>1. wire' = L!Bounced(L!Stands(r, foot), foot.x, now) /\ flips
    BY <1>2, <1>3, <1>4, <1>12 DEF L!Stepped, L!Flips, L!Sides
  <2>2. /\ L!Stands(r, foot) \in Wire /\ L!Stands(r, foot).side = foot.x
        /\ L!Stands(r, foot).tentative = r.tentative
    BY <1>2, <1>12, StandsThere
  <2>3. /\ wire' \in Wire /\ wire'.side = foot.x
        /\ wire'.tentative.side = IF r.tentative # L!None THEN 0 ELSE foot.x
    BY <1>1, <1>4, <1>12, <2>1, <2>2, BouncedIs
  <2>3a. /\ since'.round = since.round /\ since'.net = since.net + due
        /\ since'.first = since.first /\ since.first # 0 /\ wire.side = -foot.x
    BY <1>3, <1>4, <1>6, <1>12, <2>1 DEF L!Sides
  <2>4. CASE r.tentative = L!None
    <3>1. r.tentative.side = 0 /\ wire'.tentative.side = foot.x
      BY <2>3, <2>4 DEF L!None
    <3>2. wire'.side # 0 /\ since'.first # 0 /\ wire' \in Wire
      BY <1>12, <2>3a, <2>3
    <3>3. due = wire.tentative.side
      BY <1>2, <1>6, <3>1
    <3>4. ASSUME ~since'.wrong
          PROVE  2 * (since'.net + wire'.tentative.side + since'.round) = wire'.side - since'.first
      <4> DEFINE n == since.net
             w == wire.tentative.side
             o == since.round
             f == since.first
             x == foot.x
      <4>1. n \in Int /\ w \in Int /\ o \in Int /\ f \in Int /\ x \in Int /\ due = w
        BY <1>2, <1>4, <1>6, <3>3 DEF L!Sides
      <4>2. 2 * (n + w + o) = -x - f
        BY <1>6a, <2>3a, <3>4
      <4>3. /\ since'.net = n + due /\ wire'.tentative.side = x /\ since'.round = o
            /\ wire'.side = x /\ since'.first = f
        BY <2>3, <2>3a, <3>1
      <4> HIDE DEF n, w, o, f, x, due
      <4>4. 2 * ((n + due) + x + o) = x - f
        BY <4>1, <4>2
      <4> QED BY <4>3, <4>4
    <3> QED BY <3>2, <3>4
  <2>5. CASE r.tentative # L!None /\ r.tentative.side # foot.x
    <3>1. r.tentative.side = -foot.x /\ wire'.tentative.side = 0
      BY <1>2, <1>4, <1>12, <2>3, <2>5 DEF Wire, L!Sides
    <3>2. wire'.side # 0 /\ since'.first # 0 /\ wire' \in Wire
      BY <1>12, <2>3a, <2>3
    <3>3. ASSUME ~since'.wrong
          PROVE  2 * (since'.net + wire'.tentative.side + since'.round) = wire'.side - since'.first
      <4> DEFINE n == since.net
             w == wire.tentative.side
             o == since.round
             f == since.first
             x == foot.x
      <4>1. /\ n \in Int /\ w \in Int /\ o \in Int /\ f \in Int /\ x \in Int /\ due \in Int
            /\ due - x = w
        BY <1>2, <1>4, <1>6, <3>1 DEF L!Sides
      <4>2. 2 * (n + w + o) = -x - f
        BY <1>6a, <2>3a, <3>3
      <4>3. /\ since'.net = n + due /\ wire'.tentative.side = 0 /\ since'.round = o
            /\ wire'.side = x /\ since'.first = f
        BY <2>3, <2>3a, <3>1
      <4> HIDE DEF n, w, o, f, x, due
      <4>4. 2 * ((n + due) + 0 + o) = x - f
        BY <4>1, <4>2
      <4> QED BY <4>3, <4>4
    <3> QED BY <3>2, <3>3
  <2>6. CASE r.tentative.side = foot.x
    BY <1>3, <1>4, <1>6, <1>6a, <1>12, <2>1, <2>3, <2>6 DEF L!Sides
  <2> QED BY <2>4, <2>5, <2>6
<1> QED BY <1>4, <1>6, <1>8, <1>9, <1>10, <1>11, <1>12 DEF L!Sides

-------------------------------------------------------------------------------
(* Every step.                                                             *)

\* A state that is forgotten is balanced again, and one that nobody touches
\* stays so.
LEMMA FreshBalanced ==
  ASSUME Confirm \in Nat \ {0}, BalanceInv, frames' \in Nat, wire' = L!Fresh, since' = L!Begun
  PROVE  BalanceInv'
  BY DEF BalanceInv, WireType, NoSideYet, L!Balanced, Wire, L!Fresh, L!Begun, L!None, L!Somewhere,
     L!Foot

\* The invariant holds at the start.
LEMMA BalanceInit == Confirm \in Nat \ {0} /\ L!Init => BalanceInv
BY DEF L!Init, BalanceInv, WireType, NoSideYet, L!Balanced, Wire, L!Fresh, L!Begun, L!None,
   L!Somewhere, L!Foot

\* No step breaks it.
LEMMA BalanceNext == Confirm \in Nat \ {0} /\ BalanceInv /\ [L!Next]_(L!vars) => BalanceInv'
<1> SUFFICES ASSUME Confirm \in Nat \ {0}, BalanceInv, [L!Next]_(L!vars) PROVE BalanceInv'
  OBVIOUS
<1>1. ASSUME NEW foot \in L!Foot, L!Seen(foot) PROVE BalanceInv'
  BY <1>1, SeenBalanced
<1>2. CASE L!Unseen
  <2>1. frames' \in Nat
    BY <1>2 DEF L!Unseen, BalanceInv, WireType
  <2>2. CASE wire' = L!Fresh /\ since' = L!Begun
    BY <2>1, <2>2, FreshBalanced
  <2>3. CASE /\ wire' = [wire EXCEPT !.tentative = L!None]
             /\ since' = [since EXCEPT !.net = @ + wire.tentative.side]
    <3>1. wire' \in Wire /\ wire'.side = wire.side /\ wire'.tentative.side = 0
      BY <2>3 DEF BalanceInv, WireType, Wire, L!None
    <3>2. wire.tentative.side \in Int
      BY DEF BalanceInv, WireType, Wire, L!None, L!Sides
    <3>3. /\ since' \in [first : {0} \cup L!Sides, net : Int, round : Int, wrong : BOOLEAN]
          /\ since'.first = since.first /\ since'.net = since.net + wire.tentative.side
          /\ since'.round = since.round /\ since'.wrong = since.wrong
      BY <2>3, <3>2 DEF BalanceInv, WireType
    <3> QED BY <2>1, <3>1, <3>2, <3>3 DEF BalanceInv, WireType, NoSideYet, L!Balanced
  <2> QED BY <1>2, <2>2, <2>3 DEF L!Unseen
<1>3. CASE L!Removed
  BY <1>3, FreshBalanced DEF L!Removed, BalanceInv, WireType
<1>4. CASE L!Restart
  BY <1>4, FreshBalanced DEF L!Restart, BalanceInv, WireType
<1>5. CASE UNCHANGED L!wireVars
  BY <1>5 DEF L!wireVars, BalanceInv, WireType, NoSideYet, L!Balanced
<1> QED BY <1>1, <1>2, <1>3, <1>4, <1>5
        DEF L!Next, L!Drain, L!Commit, L!CommitFails, L!vars, L!wireVars


-------------------------------------------------------------------------------
(* Tripwires: where each settled crossing is.                              *)

\* A list with nothing twice.
Once(s) == \A i, j \in 1..Len(s) : s[i] = s[j] => i = j

LineShapes ==
  /\ settled \in Nat
  /\ events \in Seq(Nat) /\ rows \in Seq(Nat) /\ moving \in [Flushers -> Seq(Nat)]
  /\ Once(events) /\ Once(rows) /\ \A f \in Flushers : Once(moving[f])

Drained(k) == \E f \in Flushers : k \in L!Ids(moving[f])

\* RecordedOnce, of one crossing after the other.
PlaceInv ==
  /\ \A k : (k \in L!Ids(events) \/ Drained(k) \/ k \in L!Ids(rows) \/ k \in gone) <=> k \in 1..settled
  /\ \A k \in L!Ids(events) : ~Drained(k) /\ k \notin L!Ids(rows) /\ k \notin gone
  /\ \A k \in L!Ids(rows) : ~Drained(k) /\ k \notin gone
  /\ \A k \in gone : ~Drained(k)
  /\ \A f, g \in Flushers : \A k \in L!Ids(moving[f]) : k \in L!Ids(moving[g]) => f = g

BufferInv == LineShapes /\ PlaceInv

\* What lists that are joined, made longer and cut in two hold.
LEMMA JoinedIs ==
  ASSUME NEW s \in Seq(Nat), NEW t \in Seq(Nat)
  PROVE  /\ s \o t \in Seq(Nat) /\ L!Ids(s \o t) = L!Ids(s) \cup L!Ids(t)
         /\ Once(s) /\ Once(t) /\ L!Ids(s) \cap L!Ids(t) = {} => Once(s \o t)
<1>1. /\ s \o t \in Seq(Nat) /\ Len(s \o t) = Len(s) + Len(t) /\ Len(s) \in Nat /\ Len(t) \in Nat
      /\ \A i \in 1..(Len(s) + Len(t)) : (s \o t)[i] = IF i <= Len(s) THEN s[i] ELSE t[i - Len(s)]
  OBVIOUS
<1>2. ASSUME NEW k \in L!Ids(s \o t) PROVE k \in L!Ids(s) \cup L!Ids(t)
  <2>1. PICK i \in 1..(Len(s) + Len(t)) : k = (s \o t)[i]
    BY <1>1 DEF L!Ids
  <2>2. CASE i <= Len(s)
    BY <1>1, <2>1, <2>2 DEF L!Ids
  <2>3. CASE i > Len(s)
    <3>1. i - Len(s) \in 1..Len(t) /\ k = t[i - Len(s)]
      BY <1>1, <2>1, <2>3
    <3> QED BY <3>1 DEF L!Ids
  <2> QED BY <1>1, <2>2, <2>3
<1>3. ASSUME NEW k \in L!Ids(s) PROVE k \in L!Ids(s \o t)
  <2>1. PICK i \in 1..Len(s) : k = s[i]
    BY DEF L!Ids
  <2>2. i \in 1..Len(s \o t) /\ (s \o t)[i] = k
    BY <1>1, <2>1
  <2> QED BY <2>2 DEF L!Ids
<1>4. ASSUME NEW k \in L!Ids(t) PROVE k \in L!Ids(s \o t)
  <2>1. PICK i \in 1..Len(t) : k = t[i]
    BY DEF L!Ids
  <2>2. i + Len(s) \in 1..Len(s \o t) /\ (s \o t)[i + Len(s)] = k
    BY <1>1, <2>1
  <2> QED BY <2>2 DEF L!Ids
<1>5. ASSUME Once(s), Once(t), L!Ids(s) \cap L!Ids(t) = {}, NEW i \in 1..Len(s \o t), NEW j \in 1..Len(s \o t),
             (s \o t)[i] = (s \o t)[j]
      PROVE  i = j
  <2>1. i \in Int /\ j \in Int /\ i >= 1 /\ j >= 1 /\ i <= Len(s) + Len(t) /\ j <= Len(s) + Len(t)
    BY <1>1
  <2>2. \A m \in 1..(Len(s) + Len(t)) : /\ m <= Len(s) => (s \o t)[m] \in L!Ids(s)
                                        /\ m > Len(s) => (s \o t)[m] \in L!Ids(t)
    <3>1. ASSUME NEW m \in 1..(Len(s) + Len(t)), m <= Len(s) PROVE (s \o t)[m] \in L!Ids(s)
      BY <1>1, <3>1 DEF L!Ids
    <3>2. ASSUME NEW m \in 1..(Len(s) + Len(t)), m > Len(s) PROVE (s \o t)[m] \in L!Ids(t)
      <4>1. m - Len(s) \in 1..Len(t) /\ (s \o t)[m] = t[m - Len(s)]
        BY <1>1, <3>2
      <4> QED BY <4>1 DEF L!Ids
    <3> QED BY <3>1, <3>2
  <2>3. (i <= Len(s)) = (j <= Len(s))
    BY <1>1, <1>5, <2>1, <2>2
  <2>4. CASE i <= Len(s)
    BY <1>1, <1>5, <2>1, <2>3, <2>4 DEF Once
  <2>5. CASE i > Len(s)
    <3>1. i - Len(s) \in 1..Len(t) /\ j - Len(s) \in 1..Len(t) /\ t[i - Len(s)] = t[j - Len(s)]
      BY <1>1, <1>5, <2>1, <2>3, <2>5
    <3>2. i - Len(s) = j - Len(s)
      BY <1>5, <3>1 DEF Once
    <3> QED BY <1>1, <2>1, <3>2
  <2> QED BY <1>1, <2>1, <2>4, <2>5
<1>6. Once(s) /\ Once(t) /\ L!Ids(s) \cap L!Ids(t) = {} => Once(s \o t)
  BY <1>5 DEF Once
<1>7. L!Ids(s \o t) = L!Ids(s) \cup L!Ids(t)
  BY <1>2, <1>3, <1>4
<1> QED BY <1>1, <1>6, <1>7

\* A list that gets one more entry.
LEMMA LongerIs ==
  ASSUME NEW s \in Seq(Nat), NEW e \in Nat
  PROVE  /\ Append(s, e) \in Seq(Nat) /\ L!Ids(Append(s, e)) = L!Ids(s) \cup {e}
         /\ Once(s) /\ e \notin L!Ids(s) => Once(Append(s, e))
<1> DEFINE one == <<e>>
<1>1. Append(s, e) = s \o one /\ one \in Seq(Nat)
  OBVIOUS
<1>2. L!Ids(one) = {e} /\ Once(one)
  BY DEF L!Ids, Once
<1> HIDE DEF one
<1> QED BY <1>1, <1>2, JoinedIs

\* The end of a list is kept and the rest dropped (_flush_crossings).
LEMMA CutIs ==
  ASSUME NEW s \in Seq(Nat), Keep \in Nat
  PROVE  /\ L!LastOf(s) \in Seq(Nat)
         /\ L!Ids(L!LastOf(s)) \cup L!Ids(L!FirstOf(s)) = L!Ids(s)
         /\ Once(s) => Once(L!LastOf(s)) /\ L!Ids(L!LastOf(s)) \cap L!Ids(L!FirstOf(s)) = {}
<1>1. CASE Len(s) <= Keep
  <2>1. L!LastOf(s) = s /\ L!FirstOf(s) = <<>>
    BY <1>1 DEF L!LastOf, L!FirstOf
  <2>2. L!Ids(<<>>) = {}
    BY DEF L!Ids
  <2> QED BY <2>1, <2>2
<1>2. CASE Len(s) > Keep
  <2> DEFINE c == Len(s) - Keep
             last == SubSeq(s, c + 1, Len(s))
             first == SubSeq(s, 1, c)
  <2>1. c \in Nat /\ Len(s) \in Nat /\ c <= Len(s) /\ Len(s) - c = Keep
    BY <1>2
  <2>2. L!LastOf(s) = last /\ L!FirstOf(s) = first
    BY <1>2 DEF L!LastOf, L!FirstOf
  <2>3. /\ last \in Seq(Nat) /\ Len(last) = Len(s) - c /\ \A i \in 1..(Len(s) - c) : last[i] = s[c + i]
        /\ first \in Seq(Nat) /\ Len(first) = c /\ \A i \in 1..c : first[i] = s[i]
    BY <2>1
  <2> HIDE DEF last, first, c
  <2>7. c \in Int /\ \A i \in 1..Len(last) : /\ i \in Int /\ c + i \in 1..Len(s)
                                           /\ c + i > c /\ last[i] = s[c + i]
    BY <2>1, <2>3
  <2>8. \A i \in 1..Len(first) : i \in Int /\ i \in 1..Len(s) /\ i <= c /\ first[i] = s[i]
    BY <2>1, <2>3
  <2>4. first \o last = s
    <3>0. first \o last \in Seq(Nat) /\ Len(first \o last) = Len(first) + Len(last)
      BY <2>3, ConcatProperties
    <3>1. first \o last \in Seq(Nat) /\ Len(first \o last) = Len(s)
      BY <2>1, <2>3, <3>0
    <3>2. ASSUME NEW i \in 1..Len(s) PROVE (first \o last)[i] = s[i]
      <4>1. (first \o last)[i] = IF i <= c THEN first[i] ELSE last[i - c]
        BY <2>1, <2>3, <3>2
      <4>2. CASE i <= c
        BY <2>1, <2>3, <4>1, <4>2
      <4>3. CASE i > c
        <5>1. i - c \in 1..(Len(s) - c) /\ c + (i - c) = i
          BY <2>1, <4>3
        <5>2. last[i - c] = s[c + (i - c)]
          BY <2>3, <5>1
        <5> QED BY <2>1, <4>1, <4>3, <5>1, <5>2
      <4>4. i <= c \/ i > c
        BY <2>1
      <4> QED BY <4>2, <4>3, <4>4
    <3> QED BY <3>1, <3>2, SeqEqual
  <2>5. L!Ids(s) = L!Ids(first) \cup L!Ids(last)
    BY <2>3, <2>4, JoinedIs
  <2>6. ASSUME Once(s) PROVE Once(last) /\ L!Ids(last) \cap L!Ids(first) = {}
    <3>1. Once(last)
      <4> SUFFICES ASSUME NEW i \in 1..Len(last), NEW j \in 1..Len(last), last[i] = last[j] PROVE i = j
        BY DEF Once
      <4>1. c + i \in 1..Len(s) /\ c + j \in 1..Len(s) /\ s[c + i] = s[c + j]
        BY <2>7
      <4>2. c + i = c + j
        BY <2>6, <4>1 DEF Once
      <4> QED BY <2>7, <4>2
    <3>2. ASSUME NEW k \in L!Ids(last), k \in L!Ids(first) PROVE FALSE
      <4>1. PICK i \in 1..Len(last), j \in 1..Len(first) : k = last[i] /\ k = first[j]
        BY <3>2 DEF L!Ids
      <4>2. c + i \in 1..Len(s) /\ c + i > c /\ last[i] = s[c + i] /\ i \in Int /\ c \in Int
        BY <2>7
      <4>3. j \in Int /\ j \in 1..Len(s) /\ j <= c /\ first[j] = s[j]
        BY <2>8
      <4>4. c + i = j
        BY <2>6, <4>1, <4>2, <4>3 DEF Once
      <4> QED BY <4>2, <4>3, <4>4
    <3> QED BY <3>1, <3>2
  <2> QED BY <2>2, <2>3, <2>5, <2>6
<1> QED BY <1>1, <1>2

\* A crossing that settles is a new one (_emit_crossing).
LEMMA EmittedKeeps ==
  ASSUME BufferInv, NEW x, L!Emitted(x), UNCHANGED <<moving, rows>>
  PROVE  BufferInv'
<1>1. CASE UNCHANGED <<settled, events, gone>>
  BY <1>1 DEF BufferInv, LineShapes, PlaceInv, Drained
<1>2. CASE settled' = settled + 1 /\ gone' = gone \cup {settled + 1} /\ UNCHANGED events
  <2>1. settled \in Nat /\ settled + 1 \notin 1..settled /\ 1..(settled + 1) = 1..settled \cup {settled + 1}
    BY DEF BufferInv, LineShapes
  <2>2. LineShapes'
    BY <1>2, <2>1 DEF BufferInv, LineShapes
  <2>3. PlaceInv'
    BY <1>2, <2>1 DEF BufferInv, PlaceInv, Drained
  <2> QED BY <2>2, <2>3 DEF BufferInv
<1>3. CASE settled' = settled + 1 /\ events' = Append(events, settled + 1) /\ UNCHANGED gone
  <2>1. settled \in Nat /\ settled + 1 \notin 1..settled /\ 1..(settled + 1) = 1..settled \cup {settled + 1}
    BY DEF BufferInv, LineShapes
  <2>2. settled + 1 \notin L!Ids(events) /\ settled + 1 \in Nat
    BY <2>1 DEF BufferInv, PlaceInv
  <2>3. /\ events' \in Seq(Nat) /\ L!Ids(events') = L!Ids(events) \cup {settled + 1} /\ Once(events')
    BY <1>3, <2>2, LongerIs DEF BufferInv, LineShapes
  <2>4. LineShapes'
    BY <1>3, <2>1, <2>3 DEF BufferInv, LineShapes
  <2>5. PlaceInv'
    BY <1>3, <2>1, <2>3 DEF BufferInv, PlaceInv, Drained
  <2> QED BY <2>4, <2>5 DEF BufferInv
<1> QED BY <1>1, <1>2, <1>3 DEF L!Emitted

\* A flush takes the buffer with it, and commits it or puts its end back before
\* what the buffer has got meanwhile (_flush_crossings).
LEMMA FlushKeeps ==
  ASSUME BufferInv, Keep \in Nat, NEW f \in Flushers, L!Drain(f) \/ L!Commit(f) \/ L!CommitFails(f)
  PROVE  BufferInv'
<1> DEFINE mine == moving[f]
<1>01. L!Ids(<<>>) = {} /\ Once(<<>>) /\ <<>> \in Seq(Nat) /\ settled' = settled
  BY DEF L!Ids, Once, L!Drain, L!Commit, L!CommitFails
<1>02. mine \in Seq(Nat) /\ Once(mine) /\ events \in Seq(Nat) /\ rows \in Seq(Nat)
  BY DEF BufferInv, LineShapes
<1>03. L!Ids(mine) \cap L!Ids(events) = {} /\ L!Ids(mine) \cap L!Ids(rows) = {}
  BY DEF BufferInv, PlaceInv, Drained
<1>0. /\ L!Ids(<<>>) = {} /\ Once(<<>>) /\ <<>> \in Seq(Nat)
      /\ mine \in Seq(Nat) /\ Once(mine) /\ events \in Seq(Nat) /\ rows \in Seq(Nat)
      /\ L!Ids(mine) \cap L!Ids(events) = {} /\ L!Ids(mine) \cap L!Ids(rows) = {}
      /\ settled' = settled
  BY <1>01, <1>02, <1>03
<1>1. CASE L!Drain(f)
  <2>1. /\ moving' = [moving EXCEPT ![f] = events] /\ events' = <<>> /\ moving[f] = <<>>
        /\ UNCHANGED <<settled, rows, gone>>
    BY <1>1 DEF L!Drain
  <2>2. LineShapes'
    BY <1>0, <2>1 DEF BufferInv, LineShapes
  <2>3. \A g \in Flushers : L!Ids(moving'[g]) = IF g = f THEN L!Ids(events) ELSE L!Ids(moving[g])
    BY <2>1 DEF BufferInv, LineShapes
  <2>4. PlaceInv'
    BY <1>0, <2>1, <2>3 DEF BufferInv, PlaceInv, Drained
  <2> QED BY <2>2, <2>4 DEF BufferInv
<1>2. CASE L!Commit(f)
  <2>1. /\ moving' = [moving EXCEPT ![f] = <<>>] /\ rows' = rows \o mine
        /\ UNCHANGED <<settled, events, gone>>
    BY <1>2 DEF L!Commit
  <2>2. rows' \in Seq(Nat) /\ L!Ids(rows') = L!Ids(rows) \cup L!Ids(mine) /\ Once(rows')
    BY <1>0, <2>1, JoinedIs DEF BufferInv, LineShapes
  <2>3. LineShapes'
    BY <1>0, <2>1, <2>2 DEF BufferInv, LineShapes
  <2>4. \A g \in Flushers : L!Ids(moving'[g]) = IF g = f THEN {} ELSE L!Ids(moving[g])
    BY <1>0, <2>1 DEF BufferInv, LineShapes
  <2>5. PlaceInv'
    BY <1>0, <2>1, <2>2, <2>4 DEF BufferInv, PlaceInv, Drained
  <2> QED BY <2>3, <2>5 DEF BufferInv
<1>3. CASE L!CommitFails(f)
  <2> DEFINE last == L!LastOf(mine)
             first == L!FirstOf(mine)
  <2>1. /\ moving' = [moving EXCEPT ![f] = <<>>] /\ events' = last \o events
        /\ gone' = gone \cup L!Ids(first) /\ UNCHANGED <<settled, rows>>
    BY <1>3 DEF L!CommitFails, L!PutBack
  <2>2. /\ last \in Seq(Nat) /\ L!Ids(last) \cup L!Ids(first) = L!Ids(mine)
        /\ Once(last) /\ L!Ids(last) \cap L!Ids(first) = {}
    BY <1>0, CutIs
  <2> HIDE DEF last, first
  <2>3. events' \in Seq(Nat) /\ L!Ids(events') = L!Ids(last) \cup L!Ids(events) /\ Once(events')
    <3>1. L!Ids(last) \cap L!Ids(events) = {} /\ Once(events)
      BY <1>0, <2>2 DEF BufferInv, LineShapes
    <3> QED BY <1>0, <2>1, <2>2, <3>1, JoinedIs
  <2>4. LineShapes'
    BY <1>0, <2>1, <2>3 DEF BufferInv, LineShapes
  <2>5. \A g \in Flushers : L!Ids(moving'[g]) = IF g = f THEN {} ELSE L!Ids(moving[g])
    BY <1>0, <2>1 DEF BufferInv, LineShapes
  <2>6. PlaceInv'
    <3>1. \A k : Drained(k) <=> Drained(k)' \/ k \in L!Ids(last) \/ k \in L!Ids(first)
      BY <2>2, <2>5 DEF Drained
    <3>2. \A k : (k \in L!Ids(last) \/ k \in L!Ids(first)) => Drained(k) /\ ~Drained(k)'
      BY <2>2, <2>5 DEF BufferInv, PlaceInv, Drained
    <3>3. \A g, h \in Flushers : \A k \in L!Ids(moving'[g]) : k \in L!Ids(moving'[h]) => g = h
      BY <2>5 DEF BufferInv, PlaceInv
    <3> QED BY <2>1, <2>2, <2>3, <3>1, <3>2, <3>3 DEF BufferInv, PlaceInv
  <2> QED BY <2>4, <2>6 DEF BufferInv
<1> QED BY <1>1, <1>2, <1>3

\* The buffer and the flushes go with the process.
LEMMA LostKeeps == BufferInv /\ L!Restart => BufferInv'
<1> SUFFICES ASSUME BufferInv, L!Restart PROVE BufferInv'
  OBVIOUS
<1>1. /\ events' = <<>> /\ moving' = [f \in Flushers |-> <<>>] /\ UNCHANGED <<settled, rows>>
      /\ gone' = gone \cup L!Ids(events) \cup UNION {L!Ids(moving[f]) : f \in Flushers}
  BY DEF L!Restart
<1>2. L!Ids(<<>>) = {} /\ Once(<<>>) /\ <<>> \in Seq(Nat)
  BY DEF L!Ids, Once
<1>3. LineShapes'
  BY <1>1, <1>2 DEF BufferInv, LineShapes
<1>4. /\ \A k : k \in gone' <=> k \in gone \/ k \in L!Ids(events) \/ Drained(k)
      /\ L!Ids(events') = {} /\ \A f \in Flushers : L!Ids(moving'[f]) = {}
  BY <1>1, <1>2 DEF Drained
<1>5. \A k : ~Drained(k)'
  BY <1>4 DEF Drained
<1>6. PlaceInv'
  BY <1>1, <1>4, <1>5 DEF BufferInv, PlaceInv
<1> QED BY <1>3, <1>6 DEF BufferInv

\* The rows are as many as the crossings in them.
LEMMA RowsCounted == LineShapes => Len(rows) = L!Cardinality(L!Ids(rows))
<1> SUFFICES ASSUME LineShapes PROVE Len(rows) = L!Cardinality(L!Ids(rows))
  OBVIOUS
<1>1. Len(rows) \in Nat /\ rows \in Seq(Nat) /\ Once(rows)
  BY DEF LineShapes
<1> DEFINE f == [i \in 1..Len(rows) |-> rows[i]]
<1>2. f \in Bijection(1..Len(rows), L!Ids(rows))
  BY <1>1 DEF L!Ids, Once, Bijection, Injection, Surjection, IsInjective
<1>3. Cardinality(L!Ids(rows)) = Len(rows)
  BY <1>1, <1>2, FS_CountingElements DEF ExistsBijection
<1>4. L!Cardinality(L!Ids(rows)) = Cardinality(L!Ids(rows))
  BY DEF L!Cardinality, Cardinality
<1> QED BY <1>3, <1>4

\* It says that each settled crossing is recorded once.
LEMMA BufferSafe == BufferInv => L!RecordedOnce
<1> SUFFICES ASSUME BufferInv PROVE L!RecordedOnce
  OBVIOUS
<1> DEFINE drained == [f \in Flushers |-> L!Ids(moving[f])]
           all == UNION {drained[f] : f \in Flushers}
<1>1. \A k : k \in all <=> Drained(k)
  BY DEF Drained
<1>2. \A f \in Flushers : drained[f] = L!Ids(moving[f])
  OBVIOUS
<1> HIDE DEF all
<1>3. /\ L!Ids(events) \cup all \cup L!Ids(rows) \cup gone = 1..settled
      /\ L!Ids(events) \cap (all \cup L!Ids(rows) \cup gone) = {}
      /\ L!Ids(rows) \cap (all \cup gone) = {} /\ all \cap gone = {}
  BY <1>1 DEF BufferInv, PlaceInv
<1>4. \A f, g \in Flushers : f # g => drained[f] \cap drained[g] = {}
  BY <1>2 DEF BufferInv, PlaceInv
<1>5. Len(rows) = L!Cardinality(L!Ids(rows))
  BY RowsCounted DEF BufferInv
<1> QED BY <1>3, <1>4, <1>5 DEF L!RecordedOnce, all

-------------------------------------------------------------------------------
(* Tripwires: both.                                                        *)

LineBounds == Confirm \in Nat \ {0} /\ Keep \in Nat

LineInv == BalanceInv /\ BufferInv

\* The invariant holds at the start.
LEMMA LineInit == LineBounds /\ L!Init => LineInv
<1> SUFFICES ASSUME LineBounds, L!Init PROVE LineInv
  OBVIOUS
<1>1. L!Ids(<<>>) = {} /\ Once(<<>>) /\ <<>> \in Seq(Nat) /\ 1..0 = {}
  BY DEF L!Ids, Once
<1>2. LineShapes
  BY <1>1 DEF L!Init, LineShapes
<1>3. PlaceInv
  BY <1>1 DEF L!Init, PlaceInv, Drained
<1> QED BY <1>2, <1>3, BalanceInit DEF LineBounds, LineInv, BufferInv

\* No step breaks the buffer's.
LEMMA BufferNext == LineBounds /\ BufferInv /\ [L!Next]_(L!vars) => BufferInv'
<1> SUFFICES ASSUME LineBounds, BufferInv, [L!Next]_(L!vars) PROVE BufferInv'
  OBVIOUS
<1>1. ASSUME NEW foot \in L!Foot, L!Seen(foot) PROVE BufferInv'
  BY <1>1, EmittedKeeps DEF L!Seen, L!flushVars
<1>2. CASE L!Unseen
  BY <1>2, EmittedKeeps DEF L!Unseen, L!flushVars
<1>3. ASSUME NEW f \in Flushers, L!Drain(f) \/ L!Commit(f) \/ L!CommitFails(f) PROVE BufferInv'
  BY <1>3, FlushKeeps DEF LineBounds
<1>4. CASE L!Restart
  BY <1>4, LostKeeps
<1>5. CASE L!Removed \/ UNCHANGED L!vars
  BY <1>5 DEF L!Removed, L!vars, L!flushVars, BufferInv, LineShapes, PlaceInv, Drained
<1> QED BY <1>1, <1>2, <1>3, <1>4, <1>5 DEF L!Next

\* No step breaks either.
LEMMA LineNext == LineBounds /\ LineInv /\ [L!Next]_(L!vars) => LineInv'
BY BalanceNext, BufferNext DEF LineBounds, LineInv

\* It says that the crossings balance and each is recorded once.
LEMMA LineSafe == LineInv => L!CrossingsSound
BY BufferSafe DEF LineInv, BalanceInv, L!CrossingsSound

\* Ins minus outs, with the crossing that waits, are where the track has gone,
\* whatever its path and the settings (step_crossing, settle_crossing), and every
\* crossing that settled is in the buffer, in one flush, in the table or dropped,
\* and once, however flushes overlap and fail (_flush_crossings).
THEOREM CrossingsHold ==
  ASSUME LineBounds
  PROVE  L!Spec => []L!CrossingsSound
BY LineInit, LineNext, LineSafe, PTL DEF L!Spec

-------------------------------------------------------------------------------
(* Tripwires: the domains.                                                 *)

\* A crossing waits for a frame at least, and there are a last frame and a last trouble.
LineLimits == Repeat \in Nat \ {0} /\ LineTime \in Nat /\ LineTroubles \in Nat

\* At frame n nothing has been seen later, and a crossing waits less than Repeat.
Recent(w, n) ==
  /\ w.seenAt <= n
  /\ w.tentative # L!None => w.tentative.at \in 1..n /\ n - w.tentative.at < Repeat

\* A frame settles one crossing at most.
LineTypes ==
  /\ frames <= LineTime /\ settled \in 0..frames /\ failures \in 0..LineTroubles
  /\ Recent(wire, frames)

\* A frame settles what is due, and what begins to wait begins now (step_crossing).
LEMMA SteppedIsRecent ==
  ASSUME Confirm \in Nat \ {0}, Repeat \in Nat \ {0}, NEW n \in Nat, NEW w \in Wire, Recent(w, n),
         NEW foot \in L!Foot
  PROVE  Recent(L!Stepped(w, foot, n + 1), n + 1)
<1> DEFINE r == L!Rest(w, n + 1)
<1>1. r \in Wire /\ r.seenAt = n + 1 /\ r.tentative \in {L!None, w.tentative}
  <2>1. r \in Wire
    BY RestKeeps
  <2>2. r \in {[w EXCEPT !.tentative = L!None, !.seenAt = n + 1], [w EXCEPT !.seenAt = n + 1]}
    BY DEF L!Rest, Wire
  <2> QED BY <2>1, <2>2 DEF Wire
<1>2. r.tentative # L!None => r.tentative = w.tentative /\ n + 1 - w.tentative.at < Repeat
  <2>1. CASE L!Due(w, n + 1) = L!None
    <3>1. w.tentative # L!None => w.tentative.at \in Nat
      BY DEF Wire
    <3>2. w.tentative # L!None => ~((n + 1) - w.tentative.at >= Repeat)
      BY <2>1, Zenon DEF L!Due
    <3>3. r.tentative = w.tentative
      BY <2>1 DEF L!Rest, Wire
    <3> QED BY <3>1, <3>2, <3>3
  <2>2. CASE L!Due(w, n + 1) # L!None
    BY <2>2 DEF L!Rest, Wire
  <2> QED BY <2>1, <2>2
<1>3. Recent(r, n + 1)
  BY <1>1, <1>2 DEF Recent
<1> HIDE DEF r
<1>4. foot.x # 0 => foot.x \in L!Sides
  BY DEF L!Foot, L!Sides
<1>5. ASSUME NEW s \in L!Sides PROVE Recent(L!Waits(r, s), n + 1)
  BY <1>1, <1>3 DEF Recent, L!Waits, Wire
<1>6. L!Stands(r, foot).seenAt = r.seenAt /\ L!Stands(r, foot).tentative = r.tentative
  BY <1>1 DEF L!Stands, Wire
<1>7. Recent(L!Stands(r, foot), n + 1)
  BY <1>3, <1>6 DEF Recent
<1>8. ASSUME foot.x # 0 PROVE Recent(L!Bounced(L!Stands(r, foot), foot.x, n + 1), n + 1)
  <2> DEFINE t == L!Stands(r, foot)
             b == L!Bounced(t, foot.x, n + 1)
  <2>1. t \in Wire
    BY <1>1, <1>8, StandsThere
  <2> HIDE DEF t
  <2>2. b.seenAt = t.seenAt /\ b.tentative \in {L!None, [side |-> foot.x, at |-> n + 1]}
    BY <2>1 DEF L!Bounced, Wire
  <2>3. t.seenAt = n + 1
    BY <1>1, <1>6 DEF t
  <2>4. b.tentative # L!None => b.tentative.at = n + 1
    BY <2>2
  <2> HIDE DEF b
  <2>5. Recent(b, n + 1)
    BY <2>2, <2>3, <2>4 DEF Recent
  <2> QED BY <2>5 DEF b, t
<1>9. L!Stepped(w, foot, n + 1)
        \in {r, L!Stands(r, foot), L!Waits(r, foot.x), L!Bounced(L!Stands(r, foot), foot.x, n + 1)}
      /\ (foot.x = 0 => L!Stepped(w, foot, n + 1) = r)
  BY DEF L!Stepped, r
<1> QED BY <1>3, <1>4, <1>5, <1>7, <1>8, <1>9

\* The domains at the start.
LEMMA LineTypesInit == LineLimits => (L!Init => LineTypes)
BY DEF LineLimits, L!Init, LineTypes, Recent, L!Fresh

\* No step leaves them.
LEMMA LineTypesNext ==
  LineBounds /\ LineLimits => (LineInv /\ LineTypes /\ [L!Next]_(L!vars) => LineTypes')
<1> SUFFICES ASSUME LineBounds, LineLimits, LineInv, LineTypes, [L!Next]_(L!vars)
             PROVE  LineTypes'
  OBVIOUS
<1>1. frames \in Nat /\ wire \in Wire /\ settled \in Nat
  BY DEF LineInv, BalanceInv, WireType, BufferInv, LineShapes
<1>2. Recent(L!Fresh, frames) /\ Recent(L!Fresh, frames + 1)
  BY <1>1 DEF Recent, L!Fresh
<1> USE DEF LineBounds, LineLimits, LineTypes
<1>3. ASSUME NEW foot \in L!Foot, L!Seen(foot) PROVE LineTypes'
  <2>1. settled' \in 0..(frames + 1)
    BY <1>1, <1>3 DEF L!Seen, L!Emitted
  <2> QED BY <1>1, <1>3, <2>1, SteppedIsRecent DEF L!Seen, L!flushVars, Recent
<1>4. CASE L!Unseen
  <2>1. settled' \in 0..(frames + 1)
    BY <1>1, <1>4 DEF L!Unseen, L!Emitted
  <2>2. ASSUME wire' = [wire EXCEPT !.tentative = L!None] PROVE Recent(wire', frames + 1)
    BY <1>1, <2>2 DEF Recent, Wire
  <2>3. wire' = [wire EXCEPT !.tentative = L!None] \/ wire' = L!Fresh
    BY <1>4 DEF L!Unseen
  <2> QED BY <1>1, <1>2, <1>4, <2>1, <2>2, <2>3 DEF L!Unseen, L!flushVars, Recent
<1>5. CASE L!Removed
  BY <1>2, <1>5 DEF L!Removed, L!flushVars, Recent
<1>6. CASE L!Restart
  BY <1>2, <1>6 DEF L!Restart, L!Trouble, Recent
<1>7. ASSUME NEW f \in Flushers, L!Drain(f) \/ L!Commit(f) \/ L!CommitFails(f) PROVE LineTypes'
  BY <1>7 DEF L!Drain, L!Commit, L!CommitFails, L!Trouble, L!wireVars, Recent
<1>8. CASE UNCHANGED L!vars
  BY <1>8 DEF L!vars, L!wireVars, Recent
<1> QED BY <1>3, <1>4, <1>5, <1>6, <1>7, <1>8 DEF L!Next

\* They are the model's.
LEMMA LineTypesSafe == LineLimits => (LineInv /\ LineTypes => L!TypeOK)
<1> SUFFICES ASSUME LineLimits, LineInv, LineTypes PROVE L!TypeOK
  OBVIOUS
<1>1. WireType
  BY DEF LineInv, BalanceInv
<1>2. wire.tentative \in {L!None} \cup [side : L!Sides, at : 1..LineTime]
  BY <1>1 DEF WireType, Wire, LineTypes, LineLimits, Recent
<1>3. wire.seenAt \in 0..LineTime
  BY <1>1 DEF WireType, Wire, LineTypes, LineLimits, Recent
<1>4. wire \in [side : {0} \cup L!Sides, anchor : L!Foot, pendingSide : {0} \cup L!Sides,
                pendingCount : 0..(Confirm - 1),
                tentative : {L!None} \cup [side : L!Sides, at : 1..LineTime],
                seenAt : 0..LineTime]
  BY <1>1, <1>2, <1>3 DEF WireType, Wire

<1> QED BY <1>1, <1>4 DEF L!TypeOK, WireType, LineTypes, LineLimits, Recent
-------------------------------------------------------------------------------
(* One restricted area.                                                    *)

\* The times and limits are numbers.
AreaBounds ==
  /\ Length \in Nat /\ Grace \in Nat /\ EarlyGrace \in Nat /\ Slack \in Nat /\ Window \in Nat
  /\ AreaTime \in Nat /\ AreaEntries \in Nat

Known == [id : Nat, by : People, start : Nat, until : Nat, ended : Nat]
Refresh == [under : {"none", "lock"}, anns : SUBSET Known]

AreaShapes ==
  /\ AreaBounds
  /\ clock \in 0..AreaTime
  /\ entries \subseteq Known /\ snapshot \subseteq Known
  /\ compiled \in [A!Callers -> Refresh]
  /\ \A c \in A!Callers : compiled[c].under = "none" => compiled[c] = A!NoRefresh
  /\ track \in [stay : {"none", "new", "old"}, first : Nat,
                alerted : SUBSET A!Triggers, fired : SUBSET A!Triggers]
  /\ cooling \subseteq A!Triggers

IdsOf(anns) == {a.id : a \in anns}
OneEach(anns) == \A a, b \in anns : a.id = b.id => a = b

\* The stored announcements are numbered as they were made.
Numbered(anns, n) == n \in Nat /\ IdsOf(anns) = 0..(n - 1) /\ OneEach(anns)
Stored == \E n \in Nat : Numbered(entries, n)

\* A list of announcements that has of each assured one nothing else, and has it
\* unless it is over for longer than anybody looks at it.
UpToDate(anns) ==
  /\ \A a \in anns : a.start <= clock /\ a.id \in IdsOf(entries)
  /\ \A a \in assured : \A b \in anns : b.id = a.id => b = a
  /\ \A a \in assured : a \in anns \/ clock - A!End(a) > Window

\* What the engine knows, and what a refresh is about to show it, are up to date
\* with what was answered; refreshes exclude each other (refresh's lock).
EngineKnows ==
  /\ assured \subseteq entries /\ \A a \in entries : a.start <= clock
  /\ UpToDate(snapshot)
  /\ \A c \in A!Callers : compiled[c].under = "lock" =>
        UpToDate(compiled[c].anns) /\ OneEach(compiled[c].anns)
  /\ \A c, d \in A!Callers : compiled[c].under = "lock" /\ compiled[d].under = "lock" => c = d

\* Whoever has been passed over was alarmed on; an overstay that cools was this
\* person's, or one of whoever was followed before, in the same moment.
TrackTrue ==
  /\ track.alerted # {} => track.fired # {}
  /\ "overstay" \in cooling => "overstay" \in track.fired \/ track.first >= clock

AreaInv == AreaShapes /\ Stored /\ EngineKnows /\ TrackTrue /\ verdict = "right"

\* The end of an announcement, and of its grace, are times.
LEMMA EndIs ==
  ASSUME AreaBounds, NEW a \in Known
  PROVE  /\ A!End(a) \in Nat /\ A!GraceUntil(a) \in Nat
         /\ A!End(a) <= A!GraceUntil(a)
BY DEF AreaBounds, Known, A!End, A!Sooner, A!GraceUntil

\* Numbered announcements are as many as their numbers.
LEMMA HowMany ==
  ASSUME NEW anns \in SUBSET Known, NEW n \in Nat, Numbered(anns, n)
  PROVE  Cardinality(anns) = n
<1> DEFINE f == [a \in anns |-> a.id]
<1>1. f \in Bijection(anns, 0..(n - 1))
  <2>1. f \in [anns -> 0..(n - 1)]
    BY DEF Numbered, IdsOf
  <2>2. \A a, b \in anns : f[a] = f[b] => a = b
    BY DEF Numbered, OneEach
  <2>3. \A i \in 0..(n - 1) : \E a \in anns : f[a] = i
    BY DEF Numbered, IdsOf
  <2> QED BY <2>1, <2>2, <2>3, Fun_IsBij
<1>2. IsFiniteSet(0..(n - 1)) /\ Cardinality(0..(n - 1)) = n
  BY FS_Interval
<1>3. ExistsBijection(anns, 0..(n - 1))
  BY <1>1, Fun_ExistsBij
<1> QED BY <1>2, <1>3, Fun_ExistsBijSymmetric, FS_Bijection

\* Ending announcements keeps their numbers.
LEMMA EndedKeeps ==
  ASSUME AreaInv, NEW n \in Nat, Numbered(entries, n), NEW some \in SUBSET entries
  PROVE  Numbered(A!WithEnded(some), n) /\ A!WithEnded(some) \subseteq Known
<1> DEFINE over(a) == [a EXCEPT !.ended = clock]
<1>1. \A a \in some : over(a) \in Known /\ over(a).id = a.id /\ over(a).start = a.start
  BY DEF AreaInv, AreaShapes, AreaBounds, Known
<1>2. A!WithEnded(some) = (entries \ some) \cup {over(a) : a \in some}
  BY DEF A!WithEnded
<1>3. A!WithEnded(some) \subseteq Known
  BY <1>1, <1>2 DEF AreaInv, AreaShapes
<1> HIDE DEF over
<1>4. IdsOf(A!WithEnded(some)) = IdsOf(entries)
  BY <1>1, <1>2 DEF IdsOf
<1>5. OneEach(A!WithEnded(some))
  BY <1>1, <1>2 DEF OneEach, Numbered
<1> QED BY <1>3, <1>4, <1>5 DEF Numbered

\* What a commit leaves: announcements numbered as before or with one more, and
\* nothing is taken for assured that was not, or has changed.
LEMMA CommitKeeps ==
  ASSUME AreaInv, NEW n \in Nat, Numbered(entries', n), entries' \subseteq Known,
         IdsOf(entries) \subseteq IdsOf(entries'), \A a \in entries' : a.start <= clock,
         NEW c \in People, A!Commit(c)
  PROVE  AreaInv'
<1>1. assured' \subseteq assured /\ assured' \subseteq entries'
  BY DEF A!Commit
<1>2. UNCHANGED <<clock, snapshot, compiled, track, cooling, verdict>>
  BY DEF A!Commit, A!engine
<1>3. AreaShapes' /\ TrackTrue' /\ verdict' = "right" /\ Stored'
  BY <1>2 DEF AreaInv, AreaShapes, TrackTrue, Stored
<1>4. ASSUME NEW anns, UpToDate(anns)
      PROVE  UpToDate(anns)'
  BY <1>1, <1>2, <1>4 DEF UpToDate
<1>5. EngineKnows'
  BY <1>1, <1>2, <1>4 DEF AreaInv, EngineKnows
<1> QED BY <1>3, <1>5 DEF AreaInv

\* Requests: announcing anew ends what is open and adds a new number; ending one
\* changes it (announce_entry, end_announcement).
LEMMA RequestKeeps ==
  ASSUME AreaInv, NEW u \in People, A!Announce(u) \/ A!EndAnnouncement(u)
  PROVE  AreaInv'
<1> PICK n \in Nat : Numbered(entries, n)
  BY DEF AreaInv, Stored
<1>1. A!Open(u) \subseteq entries
  BY DEF A!Open
<1>2. ASSUME NEW some \in SUBSET entries
      PROVE  /\ Numbered(A!WithEnded(some), n) /\ A!WithEnded(some) \subseteq Known
             /\ \A a \in A!WithEnded(some) : a.start <= clock
  <2>1. \A a \in entries : a \in Known /\ a.start <= clock
    BY DEF AreaInv, AreaShapes, EngineKnows
  <2>2. \A a \in some : [a EXCEPT !.ended = clock].start = a.start
    BY <2>1 DEF Known
  <2> QED BY EndedKeeps, <2>1, <2>2 DEF A!WithEnded
<1>3. CASE A!EndAnnouncement(u)
  <2>1. PICK a \in A!Open(u) : entries' = A!WithEnded({a})
    BY <1>3 DEF A!EndAnnouncement
  <2>2. Numbered(entries', n) /\ entries' \subseteq Known /\ \A b \in entries' : b.start <= clock
    BY <1>1, <1>2, <2>1
  <2>3. A!Commit(u)
    BY <1>3 DEF A!EndAnnouncement
  <2> QED BY <2>2, <2>3, CommitKeeps DEF Numbered
<1>4. CASE A!Announce(u)
  <2> DEFINE new == [id |-> n, by |-> u, start |-> clock, until |-> clock + Length, ended |-> A!Never]
  <2>1. A!Cardinality(entries) = n
    <3>1. A!Cardinality(entries) = Cardinality(entries)
      BY DEF A!Cardinality, Cardinality
    <3> QED BY <3>1, HowMany DEF AreaInv, AreaShapes
  <2>2. entries' = A!WithEnded(A!Open(u)) \cup {new}
    BY <1>4, <2>1 DEF A!Announce
  <2>3. new \in Known /\ new.start = clock /\ new.id = n /\ clock \in Nat
    BY DEF AreaInv, AreaShapes, AreaBounds, Known, A!Never
  <2>4. /\ Numbered(A!WithEnded(A!Open(u)), n) /\ A!WithEnded(A!Open(u)) \subseteq Known
        /\ \A a \in A!WithEnded(A!Open(u)) : a.start <= clock
    BY <1>1, <1>2
  <2> HIDE DEF new
  <2>5. entries' \subseteq Known /\ \A b \in entries' : b.start <= clock
    BY <2>2, <2>3, <2>4
  <2>6. Numbered(entries', n + 1)
    <3>1. IdsOf(entries') = 0..n
      <4>1. IdsOf(entries') = IdsOf(A!WithEnded(A!Open(u))) \cup {n}
        BY <2>2, <2>3 DEF IdsOf
      <4>2. IdsOf(A!WithEnded(A!Open(u))) = 0..(n - 1)
        BY <2>4 DEF Numbered
      <4>3. 0..n = 0..(n - 1) \cup {n}
        OBVIOUS
      <4> QED BY <4>1, <4>2, <4>3
    <3>2. \A a \in A!WithEnded(A!Open(u)) : a.id # n
      <4>1. n \notin IdsOf(A!WithEnded(A!Open(u)))
        BY <2>4 DEF Numbered
      <4> QED BY <4>1 DEF IdsOf
    <3>3. OneEach(entries')
      BY <2>2, <2>3, <2>4, <3>2 DEF OneEach, Numbered
    <3> QED BY <3>1, <3>3 DEF Numbered
  <2>7. IdsOf(entries) \subseteq IdsOf(entries')
    BY <2>6 DEF Numbered
  <2>8. A!Commit(u)
    BY <1>4 DEF A!Announce
  <2> QED BY <2>5, <2>6, <2>7, <2>8, CommitKeeps
<1> QED BY <1>3, <1>4

\* A refresh reads, under the lock, what is stored and not long over (_compile).
LEMMA CompileKeeps ==
  ASSUME AreaInv, NEW c \in A!Callers, A!Compile(c)
  PROVE  AreaInv'
<1> DEFINE anns == {a \in entries : clock - A!End(a) <= Window}
<1>1. /\ compiled' = [compiled EXCEPT ![c] = [under |-> "lock", anns |-> anns]]
      /\ UNCHANGED <<clock, entries, snapshot, assured, track, cooling, verdict>>
      /\ \A d \in A!Callers : compiled[d].under # "lock"
  BY DEF A!Compile, A!Free, A!NoRefresh, A!engine
<1>2. AreaShapes'
  BY <1>1 DEF AreaInv, AreaShapes, Refresh
<1>3. UpToDate(anns) /\ OneEach(anns)
  <2>1. OneEach(entries) /\ assured \subseteq entries /\ \A a \in entries : a.start <= clock
    BY DEF AreaInv, Stored, Numbered, EngineKnows
  <2>2. \A a \in assured : A!End(a) \in Nat /\ clock \in Nat /\ Window \in Nat
    BY <2>1, EndIs DEF AreaInv, AreaShapes, AreaBounds
  <2>3. \A a \in assured : a \in anns \/ clock - A!End(a) > Window
    BY <2>1, <2>2
  <2> QED BY <2>1, <2>3 DEF UpToDate, OneEach, IdsOf
<1> HIDE DEF anns
<1>4. ASSUME NEW x PROVE UpToDate(x) => UpToDate(x)'
  BY <1>1 DEF UpToDate
<1>5. EngineKnows'
  <2>1. compiled'[c] = [under |-> "lock", anns |-> anns]
    BY <1>1 DEF AreaInv, AreaShapes
  <2>2. \A d \in A!Callers : compiled'[d].under = "lock" => d = c
    BY <1>1 DEF AreaInv, AreaShapes
  <2>3. UpToDate(snapshot)' /\ UpToDate(compiled[c].anns)' /\ OneEach(compiled'[c].anns)
    BY <1>1, <1>3, <1>4, <2>1 DEF AreaInv, EngineKnows
  <2> QED BY <1>1, <2>2, <2>3 DEF AreaInv, EngineKnows
<1> QED BY <1>1, <1>2, <1>5 DEF AreaInv, Stored, TrackTrue

\* What was read becomes what the engine knows, or the last good list stays
\* (refresh).
LEMMA SwapKeeps ==
  ASSUME AreaInv, NEW c \in A!Callers, A!Swap(c) \/ A!RefreshFails(c)
  PROVE  AreaInv'
<1>1. /\ compiled' = [compiled EXCEPT ![c] = A!NoRefresh]
      /\ UNCHANGED <<clock, entries, track, cooling, verdict>>
      /\ compiled[c].under = "lock" /\ compiled[c] \in Refresh
  BY DEF A!Swap, A!RefreshFails, A!Compiled, A!engine, AreaInv, AreaShapes, Refresh
<1>2. A!NoRefresh \in Refresh /\ A!NoRefresh.under = "none"
  BY DEF A!NoRefresh, Refresh
<1>3. \A d \in A!Callers : compiled'[d].under # "lock"
  BY <1>1, <1>2 DEF AreaInv, AreaShapes, EngineKnows
<1>4. UpToDate(compiled[c].anns) /\ OneEach(compiled[c].anns)
  BY <1>1 DEF AreaInv, EngineKnows
<1>5. UpToDate(snapshot)' /\ assured' \subseteq entries /\ snapshot' \subseteq Known
  <2>1. CASE A!RefreshFails(c)
    BY <1>1, <2>1 DEF A!RefreshFails, AreaInv, AreaShapes, EngineKnows, UpToDate
  <2>2. CASE A!Swap(c)
    <3>1. snapshot' = compiled[c].anns /\ assured' = (assured \cup compiled[c].anns) \cap entries
      BY <2>2 DEF A!Swap
    <3> QED BY <1>1, <1>4, <3>1 DEF UpToDate, OneEach, Refresh
  <2> QED BY <2>1, <2>2
<1>6. AreaShapes'
  BY <1>1, <1>2, <1>5 DEF AreaInv, AreaShapes
<1>7. EngineKnows'
  BY <1>1, <1>3, <1>5 DEF AreaInv, EngineKnows
<1> QED BY <1>1, <1>6, <1>7 DEF AreaInv, Stored, TrackTrue

-------------------------------------------------------------------------------

\* Whoever an assured announcement allows wants no alarm: the engine has the
\* announcement, and no other that would decide (_covering_announcement).
LEMMA AllowedIsSilent ==
  ASSUME AreaInv, NEW t, A!Allowed(t)
  PROVE  A!Wanted(t) = {}
<1>1. \A a \in assured : /\ a \in entries /\ a \in Known /\ A!End(a) \in Nat
                         /\ a \in snapshot \/ clock - A!End(a) > Window
  BY EndIs DEF AreaInv, AreaShapes, EngineKnows, UpToDate
<1>2. clock \in Nat /\ Window \in Nat
  BY DEF AreaInv, AreaShapes, AreaBounds
<1>3. PICK a \in assured : \/ A!Active(a)
                           \/ entries = {a} /\ A!Covers(a, t) /\ clock < A!GraceUntil(a)
  BY DEF A!Allowed
<1>4. CASE A!Active(a)
  <2>1. a \in snapshot
    BY <1>1, <1>2, <1>4 DEF A!Active
  <2> QED BY <1>4, <2>1 DEF A!Wanted, A!Announced
<1>5. CASE entries = {a} /\ A!Covers(a, t) /\ clock < A!GraceUntil(a)
  <2>1. a \in snapshot
    BY <1>1, <1>2, <1>5 DEF A!Covers
  <2>2. \A b \in snapshot : b = a
    BY <1>5 DEF AreaInv, EngineKnows, UpToDate, IdsOf
  <2>3. {b \in snapshot : A!Covers(b, t)} = {a}
    BY <1>5, <2>1, <2>2
  <2>4. A!End(a) <= A!End(a)
    BY <1>1
  <2>5. A!Cover(t) = "covered"
    BY <1>5, <2>3, <2>4 DEF A!Cover
  <2> QED BY <2>5 DEF A!Wanted
<1> QED BY <1>3, <1>4, <1>5

\* In a guarded area whoever is inside wants an alarm: the engine knows of
\* nothing that is not over.
LEMMA GuardedIsAlarmed ==
  ASSUME AreaInv, NEW t, A!Guarded
  PROVE  A!Wanted(t) = {"overstay"} \/ A!Wanted(t) = {"entry"}
<1>1. \A b \in snapshot : b \in entries /\ b \in Known
  BY DEF AreaInv, AreaShapes, EngineKnows, UpToDate, IdsOf, A!Guarded
<1>2. \A b \in snapshot : /\ A!End(b) \in Nat /\ A!GraceUntil(b) \in Nat
                          /\ A!End(b) <= A!GraceUntil(b) /\ A!GraceUntil(b) <= clock
  BY <1>1, EndIs DEF AreaInv, AreaShapes, A!Guarded
<1>3. clock \in Nat
  BY DEF AreaInv, AreaShapes, AreaBounds
<1>4. ~A!Announced
  BY <1>2, <1>3 DEF A!Announced, A!Active
<1>5. A!Cover(t) # "covered"
  BY <1>2, <1>3 DEF A!Cover
<1> QED BY <1>4, <1>5 DEF A!Wanted

\* An overstay is of a stay that began before the moment (Covers).
LEMMA OverstayIsOld ==
  ASSUME AreaInv, NEW t, t.first \in Nat, A!Wanted(t) = {"overstay"}
  PROVE  t.first < clock
<1>1. A!Cover(t) = "overstay"
  BY DEF A!Wanted
<1>2. PICK b \in snapshot : A!Covers(b, t)
  BY <1>1 DEF A!Cover
<1>3. b \in Known /\ A!End(b) \in Nat /\ b.start <= clock /\ clock \in Nat
  BY EndIs DEF AreaInv, AreaShapes, AreaBounds, EngineKnows, UpToDate
<1> QED BY <1>2, <1>3 DEF A!Covers, A!Active, Known

\* The entry rules on a frame: no alarm on whoever is allowed, and whoever stays
\* in a guarded area has been alarmed on (_inside_triggers).
LEMMA StepKeeps ==
  ASSUME AreaInv, UNCHANGED <<clock, entries, ask, snapshot, compiled, assured>>,
         NEW t \in [stay : {"none", "new", "old"}, first : Nat,
                    alerted : SUBSET A!Triggers, fired : SUBSET A!Triggers],
         t.alerted = track.alerted, t.fired = track.fired, track.first < clock => t.first = track.first,
         track.first >= clock => t.first >= clock,
         A!Step(t)
  PROVE  AreaInv'
<1> DEFINE fires == A!Fires(t)
           passed == IF A!Wanted(t) = {"overstay"} THEN {"entry"} ELSE {}
           after == [t EXCEPT !.alerted = t.alerted \cup fires \cup passed, !.fired = t.fired \cup fires]
<1>1. /\ track' = after /\ cooling' = cooling \cup fires
      /\ verdict' = IF fires # {} /\ A!Allowed(t) THEN "false"
                    ELSE IF A!Guarded /\ after.fired = {} /\ cooling = {} THEN "missed" ELSE "right"
  BY DEF A!Step
<1>2. /\ fires \subseteq A!Wanted(t) /\ A!Wanted(t) \subseteq A!Triggers
      /\ A!Wanted(t) = {} \/ A!Wanted(t) = {"entry"} \/ A!Wanted(t) = {"overstay"}
      /\ \A k \in A!Wanted(t) : k \in fires \/ k \in t.alerted \/ k \in cooling
  BY DEF A!Fires, A!Wanted, A!Triggers
<1>3. passed \subseteq A!Triggers /\ (passed # {} => A!Wanted(t) = {"overstay"})
  BY DEF A!Triggers
<1> HIDE DEF fires, passed
<1>4. /\ track'.stay = t.stay /\ track'.first = t.first /\ track'.fired = t.fired \cup fires
      /\ track'.alerted = t.alerted \cup fires \cup passed
  BY <1>1
<1>5. clock \in Nat /\ track.first \in Nat /\ cooling \subseteq A!Triggers
  BY DEF AreaInv, AreaShapes, AreaBounds
<1>6. "overstay" \in cooling => "overstay" \in t.fired \/ t.first >= clock
  BY <1>5 DEF AreaInv, TrackTrue
<1>7. t.alerted # {} => t.fired # {}
  BY DEF AreaInv, TrackTrue
<1>8. ASSUME A!Wanted(t) = {"overstay"} PROVE track'.fired # {}
  <2>1. "overstay" \in fires \/ "overstay" \in t.alerted \/ "overstay" \in t.fired
    BY <1>2, <1>5, <1>6, <1>8, OverstayIsOld
  <2> QED BY <1>4, <1>7, <2>1
<1>9. AreaShapes'
  BY <1>1, <1>2, <1>3, <1>4, <1>5 DEF AreaInv, AreaShapes
<1>10. TrackTrue'
  BY <1>1, <1>2, <1>3, <1>4, <1>6, <1>7, <1>8 DEF TrackTrue
<1>11. fires # {} => ~A!Allowed(t)
  BY <1>2, AllowedIsSilent
<1>12. A!Guarded /\ cooling = {} => track'.fired # {}
  BY <1>2, <1>4, <1>7, <1>8, GuardedIsAlarmed
<1>13. verdict' = "right"
  BY <1>1, <1>11, <1>12
<1> QED BY <1>9, <1>10, <1>13 DEF AreaInv, Stored, EngineKnows, UpToDate

\* Frames with and without the person, a lost track, and time.
LEMMA EngineKeeps ==
  ASSUME AreaInv, (\E gap, brief \in BOOLEAN : A!Inside(gap, brief)) \/ A!Outside \/ A!Lost \/ A!Tick
  PROVE  AreaInv'
<1> USE DEF AreaInv
<1>1. /\ clock \in Nat /\ A!Never \in Nat /\ clock < A!Never
      /\ track \in [stay : {"none", "new", "old"}, first : Nat,
                    alerted : SUBSET A!Triggers, fired : SUBSET A!Triggers]
  BY DEF AreaShapes, AreaBounds, A!Never
<1>2. ASSUME NEW gap \in BOOLEAN, NEW brief \in BOOLEAN, A!Inside(gap, brief) PROVE AreaInv'
  <2> DEFINE stay == IF track.stay = "none" \/ gap THEN "new" ELSE track.stay
             first == IF track.first = A!Never THEN clock ELSE track.first
             t == [track EXCEPT !.stay = stay, !.first = first]
  <2>10. stay \in {"none", "new", "old"}
    BY <1>1
  <2>11. /\ first \in Nat
         /\ track.first < clock => first = track.first
         /\ track.first >= clock => first >= clock
    BY <1>1
  <2>12. A!Step(t) \/ (track' = t /\ verdict' = "right" /\ UNCHANGED cooling)
    BY <1>2 DEF A!Inside
  <2> HIDE DEF stay, first
  <2>1. /\ t \in [stay : {"none", "new", "old"}, first : Nat,
                  alerted : SUBSET A!Triggers, fired : SUBSET A!Triggers]
        /\ t.alerted = track.alerted /\ t.fired = track.fired /\ t.first = first
        /\ track.first < clock => t.first = track.first
        /\ track.first >= clock => t.first >= clock
    BY <1>1, <2>10, <2>11
  <2>2. UNCHANGED <<clock, entries, ask, snapshot, compiled, assured>>
    BY <1>2 DEF A!Inside, A!refresh
  <2> HIDE DEF t
  <2>4. CASE A!Step(t)
    BY <2>1, <2>2, <2>4, StepKeeps
  <2>5. CASE track' = t /\ verdict' = "right" /\ UNCHANGED cooling
    <3>1. AreaShapes'
      BY <2>1, <2>2, <2>5 DEF AreaShapes
    <3>2. TrackTrue'
      BY <1>1, <2>1, <2>2, <2>5 DEF TrackTrue
    <3> QED BY <2>2, <2>5, <3>1, <3>2 DEF Stored, EngineKnows, UpToDate
  <2> QED BY <2>12, <2>4, <2>5
<1>3. CASE A!Outside \/ A!Lost
  <2>1. UNCHANGED <<clock, entries, ask, snapshot, compiled, assured, cooling, verdict>>
    BY <1>3 DEF A!Outside, A!Lost, A!refresh
  <2>2. AreaShapes'
    BY <1>1, <1>3, <2>1 DEF AreaShapes, A!Outside, A!Lost, A!NewTrack, A!Triggers
  <2>3. TrackTrue'
    BY <1>1, <1>3, <2>1 DEF TrackTrue, A!Outside, A!Lost, A!NewTrack
  <2> QED BY <2>1, <2>2, <2>3 DEF Stored, EngineKnows, UpToDate
<1>4. CASE A!Tick
  <2>1. /\ clock' = clock + 1 /\ clock' \in 0..AreaTime /\ cooling' = {}
        /\ UNCHANGED <<entries, ask, snapshot, compiled, assured, verdict>>
    BY <1>1, <1>4 DEF A!Tick, A!refresh, AreaShapes, AreaBounds
  <2>2. AreaShapes' /\ TrackTrue'
    BY <1>1, <1>4, <2>1 DEF AreaShapes, TrackTrue, A!Tick
  <2>3. \A a \in entries \cup assured : A!End(a) \in Nat
    BY EndIs DEF AreaShapes, EngineKnows
  <2>4. ASSUME NEW x \in SUBSET Known, UpToDate(x) PROVE UpToDate(x)'
    BY <1>1, <2>1, <2>3, <2>4 DEF UpToDate, AreaShapes, AreaBounds, Known
  <2>5. EngineKnows'
    BY <1>1, <2>1, <2>4 DEF EngineKnows, AreaShapes, Refresh, Known
  <2> QED BY <2>1, <2>2, <2>5 DEF Stored
<1> QED BY <1>2, <1>3, <1>4

\* The invariant holds at the start.
LEMMA AreaInit == AreaBounds /\ A!Init => AreaInv
<1> SUFFICES ASSUME AreaBounds, A!Init PROVE AreaInv
  OBVIOUS
<1>1. A!NoRefresh \in Refresh /\ A!NoRefresh.under = "none" /\ A!NewTrack.first \in Nat
  BY DEF A!NoRefresh, Refresh, A!NewTrack, A!Never, AreaBounds
<1>2. AreaShapes
  BY <1>1 DEF AreaBounds, A!Init, AreaShapes, A!NewTrack, A!Triggers
<1>3. Stored
  <2>1. Numbered({}, 0)
    BY DEF Numbered, IdsOf, OneEach
  <2> QED BY <2>1 DEF Stored, A!Init
<1>4. EngineKnows /\ TrackTrue
  BY <1>1 DEF A!Init, EngineKnows, TrackTrue, UpToDate, A!NewTrack
<1> QED BY <1>2, <1>3, <1>4 DEF A!Init, AreaInv

\* No step breaks it.
LEMMA AreaNext == AreaInv /\ [A!Next]_(A!vars) => AreaInv'
<1> SUFFICES ASSUME AreaInv, [A!Next]_(A!vars) PROVE AreaInv'
  OBVIOUS
<1>1. CASE UNCHANGED A!vars
  BY <1>1 DEF A!vars, A!refresh, A!engine, AreaInv, AreaShapes, Stored, EngineKnows, UpToDate,
     TrackTrue
<1>2. CASE A!Next
  BY <1>2, RequestKeeps, CompileKeeps, SwapKeeps, EngineKeeps DEF A!Next
<1> QED BY <1>1, <1>2

\* It says that the verdict is right.
LEMMA AreaSafe == AreaInv => A!AreaSound
BY DEF AreaInv, A!AreaSound

\* For every set of people, length of stay and grace, and whatever announcements,
\* refreshes and frames come between one another: no alarm on somebody whom an
\* answered announcement allows, and nobody stays in a guarded area without one
\* (announce_entry, refresh, _inside_triggers).
THEOREM AreaHolds ==
  ASSUME AreaBounds
  PROVE  A!Spec => []A!AreaSound
BY AreaInit, AreaNext, AreaSafe, PTL DEF A!Spec

-------------------------------------------------------------------------------
(* One restricted area: the domains.                                       *)

\* Announcements as the bounds of the model have them.
Bounded ==
  [id : 0..AreaEntries, by : People, start : 0..AreaTime, until : 0..A!Never, ended : 0..A!Never]

AreaTypes ==
  /\ entries \subseteq Bounded /\ snapshot \subseteq Bounded
  /\ \A c \in A!Callers : compiled[c].anns \subseteq Bounded
  /\ ask \in [A!Callers -> {"idle", "refresh"}]
  /\ track.first <= A!Never /\ track.fired \subseteq track.alerted

\* An announcement that is ended stays within the bounds, and so does a new one
\* (announce_entry, end_announcement).
LEMMA RequestTyped ==
  ASSUME AreaInv, AreaTypes, NEW u \in People, A!Announce(u) \/ A!EndAnnouncement(u)
  PROVE  AreaTypes'
<1> PICK n \in Nat : Numbered(entries, n)
  BY DEF AreaInv, Stored
<1>1. /\ clock \in 0..AreaTime /\ A!Never \in Nat /\ AreaTime \in Nat /\ Length \in Nat
      /\ A!Never = AreaTime + Length + 1 /\ AreaEntries \in Nat
  BY DEF AreaInv, AreaShapes, AreaBounds, A!Never
<1>2. ASSUME NEW some \in SUBSET entries PROVE A!WithEnded(some) \subseteq Bounded
  <2>1. \A a \in some : [a EXCEPT !.ended = clock] \in Bounded
    BY <1>1 DEF AreaTypes, Bounded
  <2> QED BY <2>1 DEF A!WithEnded, AreaTypes
<1>3. A!Open(u) \subseteq entries
  BY DEF A!Open
<1>4. entries' \subseteq Bounded
  <2>1. CASE A!EndAnnouncement(u)
    BY <1>2, <1>3, <2>1 DEF A!EndAnnouncement
  <2>2. CASE A!Announce(u)
    <3> DEFINE new == [id |-> n, by |-> u, start |-> clock, until |-> clock + Length, ended |-> A!Never]
    <3>1. A!Cardinality(entries) = n
      <4>1. A!Cardinality(entries) = Cardinality(entries)
        BY DEF A!Cardinality, Cardinality
      <4> QED BY <4>1, HowMany DEF AreaInv, AreaShapes
    <3>2. entries' = A!WithEnded(A!Open(u)) \cup {new} /\ n < AreaEntries
      BY <2>2, <3>1 DEF A!Announce
    <3>3. new \in Bounded
      BY <1>1, <3>2 DEF Bounded
    <3> QED BY <1>2, <1>3, <3>2, <3>3
  <2> QED BY <2>1, <2>2
<1>5. A!Commit(u)
  BY DEF A!Announce, A!EndAnnouncement
<1> QED BY <1>4, <1>5 DEF AreaTypes, A!Commit, A!engine, A!Callers

\* The domains at the start.
LEMMA AreaTypesInit == AreaBounds => (A!Init => AreaTypes)
<1> SUFFICES ASSUME AreaBounds, A!Init PROVE AreaTypes
  OBVIOUS
<1>1. A!Never \in Nat
  BY DEF AreaBounds, A!Never
<1> QED BY <1>1 DEF A!Init, AreaTypes, A!NoRefresh, A!NewTrack

\* No step leaves them.
LEMMA AreaTypesNext == AreaInv /\ AreaTypes /\ [A!Next]_(A!vars) => AreaTypes'
<1> SUFFICES ASSUME AreaInv, AreaTypes, [A!Next]_(A!vars) PROVE AreaTypes'
  OBVIOUS
<1>1. /\ clock \in Nat /\ A!Never \in Nat /\ clock <= A!Never
      /\ track \in [stay : {"none", "new", "old"}, first : Nat,
                    alerted : SUBSET A!Triggers, fired : SUBSET A!Triggers]
      /\ compiled \in [A!Callers -> Refresh]
  BY DEF AreaInv, AreaShapes, AreaBounds, A!Never
<1>2. ASSUME NEW u \in People, A!Announce(u) \/ A!EndAnnouncement(u) PROVE AreaTypes'
  BY <1>2, RequestTyped
<1>3. ASSUME NEW c \in A!Callers, A!Compile(c) PROVE AreaTypes'
  BY <1>1, <1>3 DEF AreaTypes, A!Compile, A!engine
<1>4. ASSUME NEW c \in A!Callers, A!Swap(c) \/ A!RefreshFails(c) PROVE AreaTypes'
  BY <1>1, <1>4 DEF AreaTypes, A!Swap, A!RefreshFails, A!Compiled, A!NoRefresh, A!engine
<1>5. ASSUME NEW gap \in BOOLEAN, NEW brief \in BOOLEAN, A!Inside(gap, brief) PROVE AreaTypes'
  <2> DEFINE t == [track EXCEPT !.stay = IF track.stay = "none" \/ gap THEN "new" ELSE track.stay,
                                !.first = IF track.first = A!Never THEN clock ELSE track.first]
  <2>1. /\ t.first <= A!Never /\ t.fired \subseteq t.alerted /\ t.fired = track.fired
        /\ t \in [stay : {"none", "new", "old"}, first : Nat,
                  alerted : SUBSET A!Triggers, fired : SUBSET A!Triggers]
    BY <1>1 DEF AreaTypes
  <2>2. A!Step(t) \/ track' = t
    BY <1>5 DEF A!Inside
  <2>3. UNCHANGED <<clock, entries, ask, snapshot, compiled>>
    BY <1>5 DEF A!Inside, A!refresh
  <2> HIDE DEF t
  <2>4. ASSUME A!Step(t) PROVE track'.first = t.first /\ track'.fired \subseteq track'.alerted
    <3> DEFINE f == A!Fires(t)
               p == IF A!Wanted(t) = {"overstay"} THEN {"entry"} ELSE {}
    <3>1. track' = [t EXCEPT !.alerted = t.alerted \cup f \cup p, !.fired = t.fired \cup f]
      BY <2>4 DEF A!Step
    <3> HIDE DEF f, p
    <3> QED BY <2>1, <3>1
  <2> QED BY <2>1, <2>2, <2>3, <2>4 DEF AreaTypes
<1>6. CASE A!Outside \/ A!Lost \/ A!Tick
  BY <1>1, <1>6 DEF AreaTypes, A!Outside, A!Lost, A!Tick, A!NewTrack, A!refresh
<1>7. CASE UNCHANGED A!vars
  BY <1>7 DEF AreaTypes, A!vars, A!refresh, A!engine
<1> QED BY <1>2, <1>3, <1>4, <1>5, <1>6, <1>7 DEF A!Next

\* They are the model's.
LEMMA AreaTypesSafe == AreaInv /\ AreaTypes => A!TypeOK
<1> SUFFICES ASSUME AreaInv, AreaTypes PROVE A!TypeOK
  OBVIOUS
<1>1. A!Announcement = Bounded
  BY DEF A!Announcement, Bounded
<1>2. \A c \in A!Callers : compiled[c].under \in {"none", "lock"}
  BY DEF AreaInv, AreaShapes, Refresh
<1>3. assured \subseteq entries /\ clock \in 0..AreaTime /\ verdict = "right"
  BY DEF AreaInv, AreaShapes, EngineKnows
<1>4. /\ track.stay \in {"none", "new", "old"} /\ track.first \in 0..A!Never
      /\ track.alerted \subseteq A!Triggers /\ cooling \subseteq A!Triggers
  BY DEF AreaInv, AreaShapes, AreaBounds, AreaTypes, A!Never
<1> QED BY <1>1, <1>2, <1>3, <1>4 DEF AreaTypes, A!TypeOK

-------------------------------------------------------------------------------
(* RecorderSubstreams: a run at any of its steps.                          *)

RecShapes ==
  /\ LastChannel \in Nat
  /\ setting \in [R!Channels -> R!Settings] /\ enc \in [R!Channels -> R!Settings]
  /\ begun \in [R!Channels -> R!Settings]
  /\ saved \in [R!Channels -> R!Settings \cup {R!Unsaved}]
  /\ prior \in [R!Channels -> R!Settings \cup {R!Unsaved}]
  /\ DOMAIN measured = R!Channels /\ DOMAIN outcome = R!Channels
  /\ kind \in {"upgrade", "raise", "lower", "restore"}
  /\ step \in {"idle", "read", "next", "write", "check", "verify", "undo", "undone"}
  /\ at \in Nat \ {0} /\ rejected \in [calls : Nat, opens : Nat]

\* A channel of which the report is final, and one the run has not come to.
Closed(c) == outcome[c] \notin {"pending", "working"} /\ (c \in unsure \/ R!Sound(c))
Untouched(c) == setting[c] = begun[c] /\ (kind # "restore" /\ step # "read" => enc[c] = setting[c])

\* Where a run is between any two requests, and what it can go back to.
Underway ==
  /\ \A c \in R!Channels : /\ c < at => Closed(c)
                           /\ c > at => Untouched(c) /\ outcome[c] = "pending"
  /\ step \in {"read", "next"} => \A c \in R!Channels : c = at => Untouched(c) /\ outcome[c] = "pending"
  /\ step \notin {"read", "next"} => at \in R!Channels
  /\ step = "write" => kind # "restore" /\ Untouched(at) /\ saved[at] = enc[at]
  /\ step \in {"check", "verify"} => kind # "restore" /\ saved[at] = enc[at] /\ prior[at] = enc[at]
  /\ step = "verify" => R!Sticks
  /\ step \in {"undo", "undone"} => IF kind = "restore" THEN saved[at] # R!Unsaved
                                    ELSE saved[at] = enc[at] /\ prior[at] = enc[at]

\* No request of a run that goes on was rejected.  Openings of the stream were only
\* if it is about to write back what it changed: that request will be.
SignIns ==
  /\ rejected.calls = 0
  /\ rejected.opens = 0 \/ (password = "changed" /\ step = "undo" /\ rejected.opens <= RecorderAttempts)

RecInv ==
  /\ RecShapes /\ R!ChangeSound /\ RecorderAttempts \in Nat
  /\ step # "idle" => SignIns /\ Underway

\* What a change asks for and what it goes back to are settings.
LEMMA GoalIs ==
  ASSUME RecShapes, at \in R!Channels, kind # "restore"
  PROVE  /\ R!Goal \in R!Settings
         /\ kind = "upgrade" => R!Goal.size = "d1"
         /\ kind = "raise" => R!Goal.rate = "high"
         /\ kind = "lower" => R!Goal.rate = "low"
<1>1. enc[at] \in [size : {"cif", "d1"}, rate : {"low", "high"}]
  BY DEF RecShapes, R!Settings
<1>2. /\ [size |-> "d1", rate |-> "high"] \in R!Settings
      /\ [enc[at] EXCEPT !.rate = "high"] \in R!Settings
      /\ [enc[at] EXCEPT !.rate = "low"] \in R!Settings
      /\ [enc[at] EXCEPT !.rate = "high"].rate = "high"
      /\ [enc[at] EXCEPT !.rate = "low"].rate = "low"
  BY <1>1 DEF R!Settings
<1>3. kind = "upgrade" \/ kind = "raise" \/ kind = "lower"
  BY DEF RecShapes
<1>4. /\ kind = "upgrade" => R!Goal = [size |-> "d1", rate |-> "high"]
      /\ kind = "raise" => R!Goal = [enc[at] EXCEPT !.rate = "high"]
      /\ kind = "lower" => R!Goal = [enc[at] EXCEPT !.rate = "low"]
  BY DEF R!Goal
<1>5. CASE kind = "upgrade"
  BY <1>2, <1>4, <1>5
<1>6. CASE kind = "raise"
  BY <1>2, <1>4, <1>6
<1>7. CASE kind = "lower"
  BY <1>2, <1>4, <1>7
<1> QED BY <1>3, <1>5, <1>6, <1>7

\* A recorder that has the settings already keeps them, whatever sticks.
LEMMA MixedIs ==
  ASSUME NEW old \in R!Settings, NEW new \in R!Settings
  PROVE  R!Mixed(old, new) \subseteq R!Settings /\ R!Mixed(old, old) = {old}
<1>1. /\ old.size \in {"cif", "d1"} /\ new.size \in {"cif", "d1"}
      /\ old.rate \in {"low", "high"} /\ new.rate \in {"low", "high"}
      /\ old = [size |-> old.size, rate |-> old.rate]
  BY DEF R!Settings
<1>2. R!Mixed(old, new) \subseteq R!Settings
  BY <1>1 DEF R!Mixed, R!Settings
<1>3. R!Mixed(old, old) = [size : {old.size}, rate : {old.rate}]
  BY DEF R!Mixed
<1>4. ASSUME NEW x \in R!Mixed(old, old) PROVE x = old
  <2>1. x.size = old.size /\ x.rate = old.rate /\ x = [size |-> x.size, rate |-> x.rate]
    BY <1>3
  <2> QED BY <1>1, <2>1
<1>5. old \in R!Mixed(old, old)
  BY <1>1, <1>3
<1> QED BY <1>2, <1>4, <1>5

\* Numbers are in order.
LEMMA OneOfThree == \A a, b \in Int : a < b \/ a = b \/ a > b
OBVIOUS

\* The channel at hand gets its final report: the run goes on with the next
\* one, or ends and has not attempted the rest.
LEMMA ChannelDone ==
  ASSUME RecInv, step \notin {"idle", "read"}, at \in R!Channels,
         RecShapes', R!Restorable', UNCHANGED <<kind, begun, enc, rejected>>, rejected.opens = 0,
         unsure \subseteq unsure', at' = at + 1, step' \in {"next", "idle"},
         \A c \in R!Channels \ {at} :
            /\ setting'[c] = setting[c] /\ saved'[c] = saved[c] /\ measured'[c] = measured[c]
            /\ outcome'[c] = IF step' = "idle" /\ outcome[c] = "pending" THEN "not_attempted" ELSE outcome[c],
         \A c \in R!Channels : c = at => outcome'[c] \notin {"pending", "working"} /\ (c \in unsure' \/ R!Sound(c)')
  PROVE  RecInv'
<1>0. at \in Int /\ \A c \in R!Channels : c \in Int
  BY DEF RecInv, RecShapes, R!Channels
<1>1. /\ rejected.calls = 0 /\ RecorderAttempts \in Nat
      /\ \A c \in R!Channels : /\ c < at => Closed(c)
                               /\ c > at => Untouched(c) /\ outcome[c] = "pending"
  BY DEF RecInv, Underway, SignIns
<1>2. ASSUME NEW c \in R!Channels, c < at PROVE Closed(c)' /\ outcome'[c] # "pending"
  BY <1>1, <1>2 DEF Closed, R!Sound
<1>3. ASSUME NEW c \in R!Channels, c > at
      PROVE  /\ step' = "next" => Untouched(c)' /\ outcome'[c] = "pending"
             /\ step' = "idle" => Closed(c)'
  BY <1>1, <1>3 DEF Closed, Untouched, R!Sound
<1>4. \A c \in R!Channels : c < at \/ c = at \/ c > at
  BY <1>0, OneOfThree, Zenon
<1>5. ASSUME step' = "next" PROVE Underway'
  <2>1. \A c \in R!Channels : /\ c < at' => Closed(c)'
                              /\ c >= at' => Untouched(c)' /\ outcome'[c] = "pending"
    BY <1>0, <1>1, <1>2, <1>3, <1>4, <1>5 DEF Closed
  <2> QED BY <1>0, <1>5, <2>1 DEF Underway
<1>6. ASSUME step' = "idle" PROVE R!ReportIsTrue'
  BY <1>2, <1>3, <1>4, <1>6 DEF Closed, R!ReportIsTrue
<1>7. R!ReportIsTrue' /\ R!SignInsBounded' /\ SignIns'
  BY <1>1, <1>6 DEF R!ReportIsTrue, R!SignInsBounded, SignIns
<1> QED BY <1>1, <1>5, <1>7 DEF RecInv, R!ChangeSound

\* Work on one channel leaves the others alone.
LEMMA OthersKeep ==
  ASSUME RecInv, step \notin {"idle", "read"}, step' \notin {"idle", "read"}, at \in R!Channels,
         UNCHANGED <<kind, begun, enc, at>>, unsure \subseteq unsure',
         \A c \in R!Channels \ {at} : /\ setting'[c] = setting[c] /\ saved'[c] = saved[c]
                                      /\ measured'[c] = measured[c] /\ outcome'[c] = outcome[c]
  PROVE  \A c \in R!Channels : /\ c < at' => Closed(c)'
                               /\ c > at' => Untouched(c)' /\ outcome'[c] = "pending"
<1>1. at \in Int /\ \A c \in R!Channels : c \in Int
  BY DEF RecInv, RecShapes, R!Channels
<1>2. ASSUME NEW c \in R!Channels, c < at PROVE Closed(c)'
  BY <1>1, <1>2 DEF RecInv, Underway, Closed, R!Sound
<1>3. ASSUME NEW c \in R!Channels, c > at PROVE Untouched(c)' /\ outcome'[c] = "pending"
  BY <1>1, <1>3 DEF RecInv, Underway, Untouched
<1> QED BY <1>2, <1>3

\* A run begins, reads the settings, ends, or breaks off before it knows them.
LEMMA RunKeeps ==
  ASSUME RecInv, \/ \E k \in {"upgrade", "raise", "lower", "restore"} : R!Start(k)
                 \/ R!ReadAll \/ R!ReadFails \/ R!Finish
  PROVE  RecInv'
<1> USE DEF RecInv
<1>0. at \in Int /\ LastChannel \in Int /\ \A c \in R!Channels : c \in Int /\ c >= 1 /\ c <= LastChannel
  BY DEF RecShapes, R!Channels
<1>1. ASSUME NEW k \in {"upgrade", "raise", "lower", "restore"}, R!Start(k) PROVE RecInv'
  <2>1. RecShapes' /\ R!Restorable' /\ R!SignInsBounded' /\ R!ReportIsTrue' /\ SignIns'
    BY <1>1 DEF R!Start, R!NoneRejected, SignIns, RecShapes, R!ChangeSound, R!Restorable, R!SignInsBounded, R!ReportIsTrue
  <2>2. Underway'
    BY <1>0, <1>1 DEF R!Start, Underway, Untouched
  <2> QED BY <2>1, <2>2 DEF R!ChangeSound
<1>2. CASE R!ReadAll
  <2>1. RecShapes' /\ R!Restorable' /\ R!SignInsBounded' /\ R!ReportIsTrue' /\ SignIns'
    BY <1>2 DEF R!ReadAll, SignIns, R!recorder, R!ghosts, RecShapes, R!ChangeSound, R!Restorable,
       R!SignInsBounded, R!ReportIsTrue
  <2>2. \A c \in R!Channels : c < at => Closed(c)'
    BY <1>2 DEF R!ReadAll, R!recorder, R!ghosts, Underway, Closed, R!Sound
  <2>3. Underway'
    BY <1>0, <1>2, <2>2 DEF R!ReadAll, R!recorder, R!ghosts, Underway, Untouched
  <2> QED BY <2>1, <2>3 DEF R!ChangeSound
<1>3. CASE R!ReadFails
  <2>1. RecShapes' /\ R!Restorable' /\ R!SignInsBounded' /\ step' = "idle"
    BY <1>3 DEF R!ReadFails, R!Ended, R!recorder, R!ghosts, RecShapes, R!ChangeSound,
       R!Restorable, R!SignInsBounded
  <2>2. ASSUME NEW c \in R!Channels, c < at PROVE Closed(c)'
    BY <1>3, <2>2 DEF R!ReadFails, R!Ended, R!recorder, R!ghosts, Underway, Closed, R!Sound
  <2>3. ASSUME NEW c \in R!Channels, c >= at PROVE R!Sound(c)'
    <3>1. outcome'[c] = "not_attempted" /\ setting'[c] = begun'[c]
      BY <1>0, <1>3, <2>3 DEF R!ReadFails, R!Ended, R!recorder, R!ghosts, Underway, Untouched
    <3> QED BY <3>1 DEF R!Sound
  <2>4. R!ReportIsTrue'
    BY <1>0, <2>2, <2>3 DEF Closed, R!ReportIsTrue
  <2> QED BY <2>1, <2>4 DEF R!ChangeSound
<1>4. CASE R!Finish
  <2>1. RecShapes' /\ R!Restorable' /\ R!SignInsBounded' /\ step' = "idle"
    BY <1>4 DEF R!Finish, R!recorder, R!ghosts, RecShapes, R!ChangeSound, R!Restorable,
       R!SignInsBounded
  <2>2. \A c \in R!Channels : Closed(c)'
    BY <1>0, <1>4 DEF R!Finish, R!recorder, R!ghosts, Underway, Closed, R!Sound
  <2>3. R!ReportIsTrue'
    BY <2>2 DEF Closed, R!ReportIsTrue
  <2> QED BY <2>1, <2>3 DEF R!ChangeSound
<1> QED BY <1>1, <1>2, <1>3, <1>4

\* A rejected sign-in ends the run: what it did not come to is as it was.
LEMMA RejectKeeps == RecInv /\ R!Reject => RecInv'
<1> SUFFICES ASSUME RecInv, R!Reject PROVE RecInv'
  OBVIOUS
<1> USE DEF RecInv
<1>0. at \in Int /\ \A c \in R!Channels : c \in Int
  BY DEF RecShapes, R!Channels
<1>1. /\ step # "idle" /\ step' = "idle" /\ rejected.calls = 0
      /\ rejected' = [rejected EXCEPT !.calls = @ + 1] /\ unsure \subseteq unsure'
      /\ UNCHANGED <<setting, saved, measured, kind, at, enc, begun, prior>>
      /\ outcome' = [R!Ended("not_attempted") EXCEPT ![at] = IF step = "read" THEN "not_attempted" ELSE "stopped"]
  BY DEF R!Reject, R!Stop, R!recorder, SignIns
<1>2. RecShapes' /\ R!Restorable' /\ R!SignInsBounded'
  BY <1>1 DEF R!Ended, RecShapes, R!ChangeSound, R!Restorable, R!SignInsBounded
<1>3. ASSUME NEW c \in R!Channels, c < at PROVE Closed(c)'
  <2>1. outcome'[c] = outcome[c] /\ Closed(c)
    BY <1>0, <1>1, <1>3 DEF R!Ended, Underway, Closed
  <2> QED BY <1>1, <2>1 DEF Closed, R!Sound
<1>4. ASSUME NEW c \in R!Channels, c > at PROVE R!Sound(c)'
  <2>1. outcome'[c] = "not_attempted" /\ setting'[c] = begun'[c]
    BY <1>0, <1>1, <1>4 DEF R!Ended, Underway, Untouched
  <2> QED BY <2>1 DEF R!Sound
<1>5. ASSUME NEW c \in R!Channels, c = at PROVE R!Sound(c)'
  <2>1. CASE step = "read"
    <3>1. outcome'[c] = "not_attempted" /\ setting'[c] = begun'[c]
      BY <1>0, <1>1, <1>5, <2>1 DEF R!Ended, Underway, Untouched
    <3> QED BY <3>1 DEF R!Sound
  <2>2. CASE step # "read"
    BY <1>1, <1>5, <2>2 DEF R!Ended, R!Sound
  <2> QED BY <2>1, <2>2
<1>6. R!ReportIsTrue'
  BY <1>0, <1>3, <1>4, <1>5 DEF Closed, R!ReportIsTrue
<1> QED BY <1>1, <1>2, <1>6 DEF R!ChangeSound

\* The recorder gets another password, and the box crashes.
LEMMA AroundKeeps == RecInv /\ (R!ChangePassword \/ R!Crash) => RecInv'
<1> SUFFICES ASSUME RecInv, R!ChangePassword \/ R!Crash PROVE RecInv'
  OBVIOUS
<1>1. CASE R!ChangePassword
  BY <1>1 DEF R!ChangePassword, R!progress, R!ghosts, RecInv, RecShapes, R!ChangeSound,
     R!Restorable,
     R!SignInsBounded, R!ReportIsTrue, R!Sound, Underway, Closed, Untouched, R!Sticks, R!Goal,
     SignIns
<1>2. CASE R!Crash
  BY <1>2 DEF R!Crash, R!recorder, RecInv, RecShapes, R!ChangeSound, R!Restorable,
     R!SignInsBounded, R!ReportIsTrue
<1> QED BY <1>1, <1>2

\* A channel that is left alone, or saved; a write refused or left unanswered.
LEMMA ChangeKeeps ==
  ASSUME RecInv, R!Skip \/ R!Save \/ R!Accept \/ R!Refuse \/ R!Unanswered
  PROVE  RecInv'
<1> USE DEF RecInv
<1>0. /\ at \in Int /\ at >= 1 /\ LastChannel \in Int
      /\ \A c \in Int : c >= 1 /\ c <= LastChannel => c \in R!Channels
  BY DEF RecShapes, R!Channels
<1>1. step # "idle" /\ at \in R!Channels /\ rejected.calls = 0 /\ rejected.opens = 0
  BY <1>0 DEF RecShapes, Underway, SignIns, R!Skip, R!Save, R!Accept, R!Refuse, R!Unanswered
<1>2. CASE R!Skip
  <2>1. RecShapes' /\ R!Restorable'
    BY <1>2 DEF R!Skip, R!Close, RecShapes, R!ChangeSound, R!Restorable
  <2>2. ASSUME NEW c \in R!Channels, c = at PROVE outcome'[c] = "kept" /\ R!Sound(c)'
    <3>1. outcome'[c] = "kept" /\ setting'[c] = begun'[c]
      BY <1>2, <2>2 DEF R!Skip, R!Close, RecShapes, Underway, Untouched
    <3> QED BY <3>1 DEF R!Sound
  <2> QED BY <1>1, <1>2, <2>1, <2>2, ChannelDone DEF R!Skip, R!Close
<1>3. CASE R!Save
  <2>1. /\ kind # "restore" /\ step' = "write" /\ saved' = [saved EXCEPT ![at] = enc[at]]
        /\ setting[at] = enc[at] /\ Untouched(at)
    BY <1>1, <1>3 DEF R!Save, R!SavedBefore, Underway, Untouched
  <2>2. RecShapes' /\ R!Restorable' /\ R!SignInsBounded' /\ R!ReportIsTrue'
    BY <1>1, <1>3, <2>1 DEF R!Save, R!recorder, R!ghosts, RecShapes, R!ChangeSound, R!Restorable,
       R!SignInsBounded, R!ReportIsTrue
  <2>3. Underway'
    <3>1. \A c \in R!Channels : /\ c < at' => Closed(c)'
                                /\ c > at' => Untouched(c)' /\ outcome'[c] = "pending"
      BY <1>1, <1>3, <2>1, OthersKeep DEF R!Save, R!recorder, R!ghosts, RecShapes
    <3> QED BY <1>1, <1>3, <2>1, <3>1 DEF R!Save, R!recorder, R!ghosts, Underway, Untouched,
       RecShapes
  <2> QED BY <1>1, <1>3, <2>2, <2>3 DEF R!Save, R!ghosts, R!ChangeSound, SignIns
<1>4. CASE R!Accept
  <2>1. kind # "restore" /\ setting[at] = enc[at] /\ saved[at] = enc[at] /\ enc[at] \in R!Settings
    BY <1>1, <1>4 DEF R!Accept, Underway, Untouched, RecShapes
  <2>2. R!Goal \in R!Settings
    BY <1>1, <2>1, GoalIs
  <2>3. PICK s \in R!Settings : setting' = [setting EXCEPT ![at] = s]
    BY <1>4, <2>1, <2>2, MixedIs DEF R!Accept
  <2>4. prior' = [prior EXCEPT ![at] = enc[at]] /\ step' = "check"
    BY <1>4, <2>1 DEF R!Accept
  <2>5. RecShapes' /\ R!Restorable' /\ R!SignInsBounded' /\ R!ReportIsTrue'
    BY <1>1, <1>4, <2>1, <2>3, <2>4 DEF R!Accept, RecShapes, R!ChangeSound, R!Restorable,
       R!SignInsBounded, R!ReportIsTrue
  <2>6. \A c \in R!Channels : /\ c < at' => Closed(c)'
                              /\ c > at' => Untouched(c)' /\ outcome'[c] = "pending"
    BY <1>1, <1>4, <2>3, <2>4, OthersKeep DEF R!Accept, RecShapes
  <2>7. Underway'
    BY <1>1, <1>4, <2>1, <2>4, <2>6 DEF R!Accept, Underway, RecShapes
  <2> QED BY <1>1, <1>4, <2>5, <2>7 DEF R!Accept, R!ChangeSound, SignIns
<1>5. CASE R!Refuse
  <2>1. RecShapes' /\ R!Restorable'
    BY <1>5 DEF R!Refuse, R!Close, RecShapes, R!ChangeSound, R!Restorable
  <2>2. ASSUME NEW c \in R!Channels, c = at PROVE outcome'[c] = "kept" /\ R!Sound(c)'
    <3>1. outcome'[c] = "kept" /\ setting'[c] = begun'[c]
      BY <1>5, <2>2 DEF R!Refuse, R!Close, RecShapes, Underway, Untouched
    <3> QED BY <3>1 DEF R!Sound
  <2> QED BY <1>1, <1>5, <2>1, <2>2, ChannelDone DEF R!Refuse, R!Close
<1>6. CASE R!Unanswered
  <2>1. kind # "restore" /\ setting[at] = enc[at] /\ saved[at] = enc[at] /\ enc[at] \in R!Settings
    BY <1>1, <1>6 DEF R!Unanswered, Underway, Untouched, RecShapes
  <2>2. R!Goal \in R!Settings
    BY <1>1, <2>1, GoalIs
  <2>3. /\ prior' = [prior EXCEPT ![at] = enc[at]] /\ unsure' = unsure \cup {at} /\ at' = at + 1
        /\ step' \in {"next", "idle"} /\ UNCHANGED <<saved, measured, enc, kind, begun, rejected>>
        /\ setting' \in [R!Channels -> R!Settings]
        /\ \A c \in R!Channels \ {at} : setting'[c] = setting[c]
    BY <1>1, <1>6, <2>1, <2>2 DEF R!Unanswered, R!CloseUnanswered, RecShapes
  <2>4. /\ \A c \in R!Channels \ {at} :
             outcome'[c] = IF step' = "idle" /\ outcome[c] = "pending" THEN "not_attempted" ELSE outcome[c]
        /\ \A c \in R!Channels : c = at => outcome'[c] = "error"
        /\ DOMAIN outcome' = R!Channels
    BY <1>1, <1>6, <2>1 DEF R!Unanswered, R!CloseUnanswered, RecShapes
  <2>5. RecShapes' /\ R!Restorable'
    BY <1>1, <2>1, <2>3, <2>4 DEF RecShapes, R!ChangeSound, R!Restorable
  <2>6. \A c \in R!Channels : c = at => outcome'[c] \notin {"pending", "working"} /\ c \in unsure'
    BY <2>3, <2>4
  <2>7. step \notin {"idle", "read"}
    BY <1>6 DEF R!Unanswered
  <2> QED BY <1>1, <2>3, <2>4, <2>5, <2>6, <2>7, ChannelDone
<1> QED BY <1>2, <1>3, <1>4, <1>5, <1>6

\* What was written is read again and seen on the stream, or is to go back.
LEMMA CheckKeeps ==
  ASSUME RecInv, \/ R!Check \/ R!Verify \/ R!VerifyFails
                 \/ \E n \in 1..RecorderAttempts : R!OpenRejected(n)
  PROVE  RecInv'
<1> USE DEF RecInv
<1>1. /\ step \notin {"idle", "read"} /\ at \in R!Channels /\ kind # "restore"
      /\ rejected.calls = 0 /\ rejected.opens = 0
      /\ saved[at] = enc[at] /\ prior[at] = enc[at] /\ (step = "verify" => R!Sticks)
  BY DEF Underway, SignIns, R!Check, R!Verify, R!VerifyFails, R!OpenRejected
<1>2. CASE R!Check \/ R!VerifyFails
  <2>1. /\ UNCHANGED <<setting, saved, measured, kind, at, enc, outcome, begun, prior, unsure, rejected>>
        /\ step' = "undo" \/ (step' = "verify" /\ R!Sticks)
    BY <1>2 DEF R!Check, R!VerifyFails, R!recorder, R!ghosts
  <2>2. RecShapes' /\ R!Restorable' /\ R!SignInsBounded' /\ R!ReportIsTrue'
    BY <2>1 DEF RecShapes, R!ChangeSound, R!Restorable, R!SignInsBounded, R!ReportIsTrue
  <2>3. \A c \in R!Channels : /\ c < at' => Closed(c)'
                              /\ c > at' => Untouched(c)' /\ outcome'[c] = "pending"
    BY <1>1, <2>1, OthersKeep
  <2>4. Underway'
    BY <1>1, <2>1, <2>3 DEF Underway, R!Sticks, R!Goal
  <2> QED BY <1>1, <2>1, <2>2, <2>4 DEF R!ChangeSound, SignIns
<1>3. CASE R!Verify
  <2>1. RecShapes' /\ R!Restorable'
    BY <1>3 DEF R!Verify, R!Close, RecShapes, R!ChangeSound, R!Restorable
  <2>2. R!Sticks
    BY <1>1, <1>3 DEF R!Verify
  <2>3. /\ R!Goal.size = setting[at].size
        /\ kind = "upgrade" => setting[at].size = "d1"
        /\ kind = "raise" => setting[at].rate = "high"
        /\ kind = "lower" => setting[at].rate = "low"
    BY <1>1, <2>2, GoalIs DEF R!Sticks
  <2>4. ASSUME NEW c \in R!Channels, c = at PROVE outcome'[c] = "switched" /\ R!Sound(c)'
    <3>1. outcome'[c] = "switched" /\ measured'[c] = R!Goal.size /\ UNCHANGED <<setting, kind>>
      BY <1>3, <2>4 DEF R!Verify, R!Close, RecShapes
    <3> QED BY <2>3, <2>4, <3>1 DEF R!Sound
  <2> QED BY <1>1, <1>3, <2>1, <2>4, ChannelDone DEF R!Verify, R!Close
<1>4. ASSUME NEW n \in 1..RecorderAttempts, R!OpenRejected(n) PROVE RecInv'
  <2>1. /\ UNCHANGED <<setting, saved, measured, kind, at, enc, outcome, begun, prior, unsure>>
        /\ step' = "undo" /\ password' = "changed"
        /\ rejected' = [rejected EXCEPT !.opens = @ + n]
    BY <1>4 DEF R!OpenRejected, R!recorder
  <2>2. /\ rejected'.calls = 0 /\ rejected'.opens = n /\ n <= RecorderAttempts
        /\ rejected' \in [calls : Nat, opens : Nat]
    BY <1>1, <2>1 DEF RecShapes
  <2>3. RecShapes' /\ R!Restorable' /\ R!SignInsBounded' /\ R!ReportIsTrue' /\ SignIns'
    BY <2>1, <2>2 DEF RecShapes, R!ChangeSound, R!Restorable, R!SignInsBounded, R!ReportIsTrue,
       SignIns
  <2>4. \A c \in R!Channels : /\ c < at' => Closed(c)'
                              /\ c > at' => Untouched(c)' /\ outcome'[c] = "pending"
    BY <1>1, <2>1, OthersKeep
  <2>5. Underway'
    BY <1>1, <2>1, <2>4 DEF Underway
  <2> QED BY <2>3, <2>5 DEF R!ChangeSound
<1> QED BY <1>2, <1>3, <1>4

\* The saved settings go back, kept or not, and are read again.
LEMMA RestoreKeeps ==
  ASSUME RecInv, R!BeginRestore \/ R!Undo \/ R!UndoFails \/ R!Reread
  PROVE  RecInv'
<1> USE DEF RecInv
<1>0. /\ at \in Int /\ at >= 1 /\ LastChannel \in Int
      /\ \A c \in Int : c >= 1 /\ c <= LastChannel => c \in R!Channels
  BY DEF RecShapes, R!Channels
<1>1. step \notin {"idle", "read"} /\ at \in R!Channels /\ rejected.calls = 0 /\ rejected.opens = 0
  BY <1>0 DEF RecShapes, Underway, SignIns, R!BeginRestore, R!Undo, R!UndoFails, R!Reread
<1>2. ASSUME step \in {"undo", "undone"}
      PROVE  /\ R!Was \in R!Settings /\ R!Was = saved[at]
             /\ kind # "restore" => prior[at] = R!Was
    <2>1. CASE kind = "restore"
      BY <1>1, <1>2, <2>1 DEF R!Was, Underway, RecShapes
    <2>2. CASE kind # "restore"
      BY <1>1, <1>2, <2>2 DEF R!Was, Underway, RecShapes
    <2> QED BY <2>1, <2>2
<1>3. ASSUME step = "undo", NEW s \in R!Settings, setting' = [setting EXCEPT ![at] = s],
             setting[at] = R!Was => s = R!Was, UNCHANGED <<saved, prior>>
      PROVE  R!Restorable'
  BY <1>1, <1>2, <1>3 DEF RecShapes, R!ChangeSound, R!Restorable
<1>4. CASE R!BeginRestore
  <2>1. /\ step = "next" /\ kind = "restore" /\ saved[at] # R!Unsaved
        /\ UNCHANGED <<setting, saved, measured, enc, prior, unsure, kind, begun, rejected>>
    BY <1>4 DEF R!BeginRestore, R!CloseUnanswered
  <2>2. CASE step' = "undo" /\ outcome' = [outcome EXCEPT ![at] = "working"] /\ at' = at
    <3>1. RecShapes' /\ R!Restorable' /\ R!SignInsBounded' /\ R!ReportIsTrue'
      BY <1>1, <2>1, <2>2 DEF RecShapes, R!ChangeSound, R!Restorable, R!SignInsBounded,
         R!ReportIsTrue
    <3>2. \A c \in R!Channels : /\ c < at' => Closed(c)'
                                /\ c > at' => Untouched(c)' /\ outcome'[c] = "pending"
      BY <1>1, <2>1, <2>2, OthersKeep DEF RecShapes
    <3>3. Underway'
      BY <1>1, <2>1, <2>2, <3>2 DEF Underway
    <3> QED BY <1>1, <2>1, <2>2, <3>1, <3>3 DEF R!ChangeSound, SignIns
  <2>3. CASE R!CloseUnanswered
    <3>1. step' = "next" /\ at' = at + 1 /\ outcome' = [outcome EXCEPT ![at] = "error"]
      BY <2>1, <2>3 DEF R!CloseUnanswered, RecShapes
    <3>2. RecShapes' /\ R!Restorable'
      BY <2>1, <3>1 DEF RecShapes, R!ChangeSound, R!Restorable
    <3>3. ASSUME NEW c \in R!Channels, c = at PROVE outcome'[c] = "error" /\ R!Sound(c)'
      <4>1. outcome'[c] = "error" /\ setting'[c] = begun'[c]
        BY <2>1, <3>1, <3>3 DEF RecShapes, Underway, Untouched
      <4> QED BY <4>1 DEF R!Sound
    <3> QED BY <1>1, <2>1, <3>1, <3>2, <3>3, ChannelDone
  <2> QED BY <1>4, <2>2, <2>3 DEF R!BeginRestore
<1>5. CASE R!Undo
  <2>1. /\ step = "undo" /\ step' = "undone"
        /\ UNCHANGED <<saved, measured, kind, at, enc, outcome, begun, prior, unsure, rejected>>
    BY <1>5 DEF R!Undo, R!ghosts
  <2>2. R!Was \in R!Settings /\ setting[at] \in R!Settings
    BY <1>1, <1>2, <2>1 DEF RecShapes
  <2>3. PICK s \in R!Settings : /\ setting' = [setting EXCEPT ![at] = s]
                                /\ setting[at] = R!Was => s = R!Was
    BY <1>5, <2>2, MixedIs DEF R!Undo
  <2>4. RecShapes' /\ R!Restorable' /\ R!SignInsBounded' /\ R!ReportIsTrue'
    BY <1>1, <1>3, <2>1, <2>3 DEF RecShapes, R!ChangeSound, R!SignInsBounded, R!ReportIsTrue
  <2>5. \A c \in R!Channels : /\ c < at' => Closed(c)'
                              /\ c > at' => Untouched(c)' /\ outcome'[c] = "pending"
    BY <1>1, <2>1, <2>3, OthersKeep DEF RecShapes
  <2>6. Underway'
    BY <1>1, <2>1, <2>5 DEF Underway
  <2> QED BY <1>1, <2>1, <2>4, <2>6 DEF R!ChangeSound, SignIns
<1>6. CASE R!UndoFails
  <2>1. /\ step = "undo" /\ R!Was \in R!Settings
        /\ UNCHANGED <<saved, enc, prior, kind, begun, rejected>> /\ unsure \subseteq unsure'
        /\ at' = at + 1 /\ step' = "next"
    BY <1>2, <1>6 DEF R!UndoFails, R!Undone, R!Close, R!CloseUnanswered
  <2>2. setting' = setting \/ setting' = [setting EXCEPT ![at] = R!Was]
    BY <1>6 DEF R!UndoFails
  <2>3. R!Restorable' /\ setting' \in [R!Channels -> R!Settings]
    BY <1>1, <1>3, <2>1, <2>2 DEF R!ChangeSound, R!Restorable, RecShapes
  <2>4. \/ /\ outcome' = [outcome EXCEPT ![at] = "restore_failed"]
           /\ measured' = [measured EXCEPT ![at] = "none"]
        \/ /\ outcome' = [outcome EXCEPT ![at] = "error"] /\ UNCHANGED measured
           /\ unsure' = unsure \cup {at}
    BY <1>6 DEF R!UndoFails, R!Undone, R!Close, R!CloseUnanswered, RecShapes
  <2>5. RecShapes'
    BY <2>1, <2>3, <2>4 DEF RecShapes
  <2>6. ASSUME NEW c \in R!Channels, c = at
        PROVE  outcome'[c] \notin {"pending", "working"} /\ (c \in unsure' \/ R!Sound(c)')
    BY <2>4, <2>6 DEF RecShapes, R!Sound
  <2>7. \A c \in R!Channels \ {at} : /\ setting'[c] = setting[c] /\ measured'[c] = measured[c]
                                     /\ outcome'[c] = outcome[c]
    BY <2>2, <2>4 DEF RecShapes
  <2> QED BY <1>1, <2>1, <2>3, <2>5, <2>6, <2>7, ChannelDone
<1>7. CASE R!Reread
  <2>1. /\ step = "undone" /\ UNCHANGED <<setting, saved, enc, prior, kind, begun, rejected, unsure>>
        /\ at' = at + 1 /\ step' = "next" /\ measured' = [measured EXCEPT ![at] = "none"]
        /\ \/ outcome' = [outcome EXCEPT ![at] = "restore_failed"]
           \/ outcome' = [outcome EXCEPT ![at] = "restored"] /\ R!Back
    BY <1>7 DEF R!Reread, R!Undone, R!Close
  <2>2. RecShapes' /\ R!Restorable'
    BY <2>1 DEF RecShapes, R!ChangeSound, R!Restorable
  <2>3. R!Back => setting[at].size = saved[at].size
    BY <1>2, <2>1 DEF R!Back
  <2>4. ASSUME NEW c \in R!Channels, c = at
        PROVE  outcome'[c] \notin {"pending", "working"} /\ R!Sound(c)'
    BY <2>1, <2>3, <2>4 DEF RecShapes, R!Sound
  <2> QED BY <1>1, <2>1, <2>2, <2>4, ChannelDone DEF RecShapes
<1> QED BY <1>4, <1>5, <1>6, <1>7

\* The invariant holds at the start.
LEMMA RecInit == LastChannel \in Nat /\ RecorderAttempts \in Nat /\ R!Init => RecInv
<1> SUFFICES ASSUME LastChannel \in Nat, RecorderAttempts \in Nat, R!Init PROVE RecInv
  OBVIOUS
<1>1. {s \in R!Settings : s.size = "cif" => s.rate = "low"} \subseteq R!Settings
  OBVIOUS
<1>2. RecShapes
  BY <1>1 DEF R!Init, R!NoneRejected, RecShapes
<1>3. R!ChangeSound /\ step = "idle"
  BY <1>1 DEF R!Init, R!NoneRejected, R!ChangeSound, R!Restorable, R!ReportIsTrue, R!SignInsBounded, R!Sound
<1> QED BY <1>2, <1>3 DEF RecInv

\* No step breaks it.
LEMMA RecNext == RecInv /\ [R!Next]_(R!vars) => RecInv'
<1> SUFFICES ASSUME RecInv, [R!Next]_(R!vars) PROVE RecInv'
  OBVIOUS
<1>1. CASE UNCHANGED R!vars
  BY <1>1 DEF R!vars, R!recorder, R!progress, R!ghosts, RecInv, RecShapes, R!ChangeSound,
     R!Restorable,
     R!SignInsBounded, R!ReportIsTrue, R!Sound, Underway, Closed, Untouched, R!Sticks, R!Goal,
     SignIns
<1>2. CASE R!Next
  BY <1>2, RunKeeps, RejectKeeps, ChangeKeeps, CheckKeeps, RestoreKeeps, AroundKeeps DEF R!Next
<1> QED BY <1>1, <1>2

\* For every number of channels and whatever the recorder does, and wherever a
\* crash comes: what a channel had before its last change is on disk, what a run
\* says of a channel is so, and in a run one request at most is rejected, beside
\* the openings of one check (RecorderSubstreams.run, restore).
THEOREM ChangesHold ==
  ASSUME LastChannel \in Nat, RecorderAttempts \in Nat
  PROVE  R!Spec => []R!ChangeSound
<1>1. RecInv => R!ChangeSound
  BY DEF RecInv
<1> QED BY <1>1, RecInit, RecNext, PTL DEF R!Spec

-------------------------------------------------------------------------------
(* RecorderSubstreams: the domains.                                        *)

\* There are a last run and a last trouble.
RecLimits == RecorderRuns \in Nat /\ RecorderTroubles \in Nat

Reports == {"pending", "working", "kept", "switched", "restored", "restore_failed", "error",
            "stopped", "not_attempted"}

\* Each request that goes unanswered is about another channel.
RecTypes ==
  /\ password \in {"known", "changed"} /\ measured \in [R!Channels -> {"none", "cif", "d1"}]
  /\ at <= LastChannel + 1 /\ errors \in 0..(at - 1)
  /\ outcome \in [R!Channels -> Reports] /\ unsure \subseteq R!Channels
  /\ runs \in 0..RecorderRuns /\ mishaps \in 0..RecorderTroubles

\* A channel gets its outcome.
LEMMA CloseTyped ==
  ASSUME RecShapes, RecTypes, at \in R!Channels, NEW result \in Reports,
         R!Close(result) \/ R!CloseUnanswered
  PROVE  /\ outcome' \in [R!Channels -> Reports] /\ at' <= LastChannel + 1 /\ errors' \in 0..(at' - 1)
         /\ UNCHANGED <<password, rejected, runs>>
<1>1. at \in Nat /\ LastChannel \in Nat /\ at <= LastChannel /\ errors \in Nat /\ errors <= at - 1
  BY DEF RecShapes, RecTypes, R!Channels
<1>2. outcome \in [R!Channels -> Reports] /\ "error" \in Reports /\ "not_attempted" \in Reports
  BY DEF RecTypes, Reports
<1>3. CASE R!Close(result)
  BY <1>1, <1>2, <1>3 DEF R!Close
<1>4. CASE R!CloseUnanswered
  BY <1>1, <1>2, <1>4 DEF R!CloseUnanswered
<1> QED BY <1>3, <1>4

\* The domains at the start.
LEMMA RecTypesInit == LastChannel \in Nat /\ RecLimits => (R!Init => RecTypes)
BY DEF RecLimits, R!Init, RecTypes, Reports

\* A run begins, reads the settings, ends or breaks off.
LEMMA RunTyped ==
  ASSUME RecLimits, RecShapes, RecTypes,
         \/ \E k \in {"upgrade", "raise", "lower", "restore"} : R!Start(k)
         \/ R!ReadAll \/ R!ReadFails \/ R!Finish \/ R!Reject \/ R!ChangePassword \/ R!Crash
  PROVE  RecTypes'
<1>1. LastChannel \in Nat /\ at \in Nat
  BY DEF RecShapes
<1>2. ASSUME NEW rest \in Reports PROVE R!Ended(rest) \in [R!Channels -> Reports]
  BY DEF R!Ended, RecTypes
<1> USE DEF RecLimits, RecTypes
<1>3. ASSUME NEW k \in {"upgrade", "raise", "lower", "restore"}, R!Start(k) PROVE RecTypes'
  BY <1>1, <1>3 DEF R!Start, Reports
<1>4. CASE R!ReadAll \/ R!Finish
  BY <1>4 DEF R!ReadAll, R!Finish, R!recorder, R!ghosts
<1>5. CASE R!ReadFails
  BY <1>2, <1>5 DEF R!ReadFails, R!recorder, R!ghosts, R!Trouble, Reports
<1>6. CASE R!Reject
  <2>1. outcome' \in [R!Channels -> Reports]
    BY <1>2, <1>6 DEF R!Reject, Reports
  <2>2. unsure' \subseteq R!Channels
    BY <1>1, <1>6 DEF R!Reject, R!Channels
  <2> QED BY <1>6, <2>1, <2>2 DEF R!Reject, R!recorder
<1>7. CASE R!ChangePassword \/ R!Crash
  BY <1>7 DEF R!ChangePassword, R!Crash, R!recorder, R!progress, R!ghosts, R!Trouble
<1> QED BY <1>3, <1>4, <1>5, <1>6, <1>7

\* A channel is left alone or changed.
LEMMA ChangeTyped ==
  ASSUME RecLimits, RecShapes, RecTypes, at \in R!Channels,
         \/ R!Skip \/ R!Save \/ R!Accept \/ R!Refuse \/ R!Unanswered \/ R!Check \/ R!VerifyFails
         \/ kind # "restore" /\ R!Verify
         \/ \E n \in 1..RecorderAttempts : R!OpenRejected(n)
  PROVE  RecTypes'
<1>1. "kept" \in Reports /\ "switched" \in Reports /\ "working" \in Reports
  BY DEF Reports
<1> USE DEF RecLimits
<1>2. CASE R!Skip \/ R!Refuse \/ R!Unanswered
  <2>1. R!Close("kept") \/ R!CloseUnanswered
    BY <1>2 DEF R!Skip, R!Refuse, R!Unanswered
  <2>2. measured' = measured /\ unsure' \subseteq R!Channels /\ mishaps' \in 0..RecorderTroubles
    BY <1>2 DEF R!Skip, R!Refuse, R!Unanswered, R!Trouble, RecTypes
  <2> QED BY <1>1, <2>1, <2>2, CloseTyped DEF RecTypes
<1>3. CASE R!Save \/ R!Accept \/ R!Check \/ R!VerifyFails
  BY <1>1, <1>3 DEF RecTypes, R!Save, R!Accept, R!Check, R!VerifyFails, R!Trouble, R!recorder,
     R!ghosts
<1>4. CASE kind # "restore" /\ R!Verify
  <2>1. R!Goal.size \in {"cif", "d1"}
    BY <1>4, GoalIs DEF R!Settings
  <2>2. measured' \in [R!Channels -> {"none", "cif", "d1"}]
    BY <1>4, <2>1 DEF R!Verify, RecTypes
  <2> QED BY <1>1, <1>4, <2>2, CloseTyped DEF RecTypes, R!Verify
<1>5. CASE \E n \in 1..RecorderAttempts : R!OpenRejected(n)
  BY <1>5 DEF RecTypes, R!OpenRejected, R!recorder
<1> QED BY <1>2, <1>3, <1>4, <1>5

\* A channel is restored.
LEMMA RestoreTyped ==
  ASSUME RecLimits, RecShapes, RecTypes, at \in R!Channels,
         R!BeginRestore \/ R!Undo \/ R!UndoFails \/ R!Reread
  PROVE  RecTypes'
<1>1. "restored" \in Reports /\ "restore_failed" \in Reports /\ "working" \in Reports
  BY DEF Reports
<1>2. [measured EXCEPT ![at] = "none"] \in [R!Channels -> {"none", "cif", "d1"}]
  BY DEF RecTypes
<1> USE DEF RecLimits
<1>3. CASE R!BeginRestore
  <2>1. CASE R!CloseUnanswered /\ R!Trouble
    BY <1>1, <1>3, <2>1, CloseTyped DEF RecTypes, R!BeginRestore, R!Trouble
  <2>2. CASE outcome' = [outcome EXCEPT ![at] = "working"]
             /\ UNCHANGED <<password, kind, at, errors, begun, rejected, runs, mishaps>>
    BY <1>1, <1>3, <2>2 DEF RecTypes, R!BeginRestore
  <2> QED BY <1>3, <2>1, <2>2 DEF R!BeginRestore
<1>4. CASE R!Undo
  BY <1>4 DEF RecTypes, R!Undo, R!Trouble, R!ghosts
<1>5. CASE R!UndoFails
  <2>1. R!Close("restore_failed") \/ R!CloseUnanswered
    BY <1>5 DEF R!UndoFails, R!Undone
  <2>2. /\ measured' \in [R!Channels -> {"none", "cif", "d1"}] /\ unsure' \subseteq R!Channels
        /\ mishaps' \in 0..RecorderTroubles
    BY <1>2, <1>5 DEF R!UndoFails, R!Undone, R!Trouble, RecTypes
  <2> QED BY <1>1, <2>1, <2>2, CloseTyped DEF RecTypes
<1>6. CASE R!Reread
  <2>1. R!Close("restore_failed") \/ R!Close("restored")
    BY <1>6 DEF R!Reread, R!Undone
  <2>2. /\ measured' \in [R!Channels -> {"none", "cif", "d1"}] /\ unsure' \subseteq R!Channels
        /\ mishaps' \in 0..RecorderTroubles
    BY <1>2, <1>6 DEF R!Reread, R!Undone, R!Trouble, RecTypes
  <2> QED BY <1>1, <2>1, <2>2, CloseTyped DEF RecTypes
<1> QED BY <1>3, <1>4, <1>5, <1>6

\* No step leaves them.
LEMMA RecTypesNext == RecLimits => (RecInv /\ RecTypes /\ [R!Next]_(R!vars) => RecTypes')
<1> SUFFICES ASSUME RecLimits, RecInv, RecTypes, [R!Next]_(R!vars) PROVE RecTypes'
  OBVIOUS
<1>1. RecShapes /\ (step # "idle" => Underway)
  BY DEF RecInv
<1>2. CASE UNCHANGED R!vars
  BY <1>2 DEF RecTypes, R!vars, R!recorder, R!progress, R!ghosts
<1>3. CASE \/ R!Skip \/ R!Save \/ R!Accept \/ R!Refuse \/ R!Unanswered \/ R!Check \/ R!Verify
           \/ R!VerifyFails \/ R!BeginRestore \/ R!Undo \/ R!UndoFails \/ R!Reread
           \/ \E n \in 1..RecorderAttempts : R!OpenRejected(n)
  <2>1. step # "idle" /\ (step = "next" => at <= LastChannel) /\ step # "read"
    BY <1>3 DEF R!Skip, R!Save, R!Accept, R!Refuse, R!Unanswered, R!Check, R!Verify, R!VerifyFails,
       R!OpenRejected, R!BeginRestore, R!Undo, R!UndoFails, R!Reread
  <2>2. at \in R!Channels
    BY <1>1, <2>1 DEF Underway, RecShapes, R!Channels
  <2>3. R!Verify => kind # "restore"
    BY <1>1, <2>1 DEF R!Verify, Underway
  <2> QED BY <1>1, <1>3, <2>2, <2>3, ChangeTyped, RestoreTyped
<1>4. CASE \/ \E k \in {"upgrade", "raise", "lower", "restore"} : R!Start(k)
           \/ R!ReadAll \/ R!ReadFails \/ R!Finish \/ R!Reject \/ R!ChangePassword \/ R!Crash
  BY <1>1, <1>4, RunTyped
<1> QED BY <1>2, <1>3, <1>4 DEF R!Next

\* They are the model's.
LEMMA RecTypesSafe == RecInv /\ RecTypes => R!TypeOK
BY DEF RecInv, RecShapes, RecTypes, R!TypeOK, Reports

-------------------------------------------------------------------------------
(* VisitFlush: any visits, any length of the list to try again.             *)

VisitBounds == RetryMax \in Nat \ {0} /\ VisitTroubles \in Nat

\* Somewhere on its way to the database.
InPlay(v, phase) ==
  V!Has(buffer, v, phase) \/ V!Has(retry, v, phase) \/ \E f \in V!Flushes : V!Has(batch[f], v, phase)
Phases == {"open", "interact", "close"}
\* A close comes after its open in every list.
Sorted(s) == \A i, j \in DOMAIN s : i < j => \A v \in Visits : ~ (s[i] = <<v, "close">> /\ s[j] = <<v, "open">>)

VisitShapes ==
  /\ V!TypeOK
  /\ up = "down" => /\ \A v \in Visits : visit[v] \in {"none", "past"}
                    /\ \A f \in V!Flushes : batch[f] = <<>>

\* What has not happened is on its way nowhere; what the buffer opens nobody else has.
VisitBufferInv ==
  \A v \in Visits :
    /\ visit[v] = "none" => row[v] = "none" /\ v \notin touched /\ \A p \in Phases : ~ InPlay(v, p)
    /\ visit[v] = "in" => ~ InPlay(v, "close") /\ row[v] # "out"
    /\ visit[v] = "past" => \A p \in Phases : ~ InPlay(v, p)
    /\ v \notin touched => ~ InPlay(v, "interact")
    /\ V!Has(buffer, v, "open") =>
         ~ V!Has(retry, v, "close") /\ \A f \in V!Flushes : ~ V!Has(batch[f], v, "close")
SortedInv == Sorted(buffer) /\ Sorted(retry) /\ \A f \in V!Flushes : Sorted(batch[f])

\* A fact that is nowhere on its way has been written, unless it was dropped.
WrittenInv ==
  \A v \in Visits \ lost :
    /\ visit[v] \in {"in", "out"} /\ ~ InPlay(v, "open") => row[v] # "none"
    /\ visit[v] = "out" /\ ~ InPlay(v, "close") => row[v] = "out"
TouchedInv ==
  \A v \in Visits :
    /\ v \in rowTouched => v \in touched
    /\ visit[v] = "out" /\ row[v] = "out" /\ v \in touched => v \in rowTouched
GhostInv ==
  up # "down" /\ orphans = "closed" => \A v \in Visits : visit[v] = "past" => row[v] # "in"

VisitInv ==
  VisitShapes /\ VisitBufferInv /\ SortedInv /\ WrittenInv /\ TouchedInv /\ GhostInv

\* A list with one fact more.
LEMMA HasAppend ==
  ASSUME NEW s \in Seq(V!Facts), NEW v \in Visits, NEW p \in Phases
  PROVE  LET t == Append(s, <<v, p>>)
         IN  /\ t \in Seq(V!Facts)
             /\ \A w \in Visits, q \in Phases : V!Has(t, w, q) <=> V!Has(s, w, q) \/ (w = v /\ q = p)
             /\ Sorted(s) /\ (p = "open" => ~ V!Has(s, v, "close")) => Sorted(t)
<1> DEFINE t == Append(s, <<v, p>>)
<1>1. <<v, p>> \in V!Facts
  BY DEF V!Facts, Phases
<1>2. t \in Seq(V!Facts) /\ Len(t) = Len(s) + 1 /\ Len(s) \in Nat /\ DOMAIN t = 1..(Len(s) + 1) /\ DOMAIN s = 1..Len(s)
  BY <1>1
<1>3. /\ \A i \in DOMAIN s : t[i] = s[i]
      /\ t[Len(s) + 1] = <<v, p>>
  BY <1>1
<1> HIDE DEF t
<1>4. \A w \in Visits, q \in Phases : V!Has(t, w, q) <=> V!Has(s, w, q) \/ (w = v /\ q = p)
  <2> SUFFICES ASSUME NEW w \in Visits, NEW q \in Phases
               PROVE  V!Has(t, w, q) <=> V!Has(s, w, q) \/ (w = v /\ q = p)
    OBVIOUS
  <2>1. <<w, q>> = <<v, p>> <=> w = v /\ q = p
    OBVIOUS
  <2>2. \A i \in DOMAIN t : i \in DOMAIN s \/ i = Len(s) + 1
    BY <1>2
  <2>3. \A i \in DOMAIN s : i \in DOMAIN t
    BY <1>2
  <2>4. Len(s) + 1 \in DOMAIN t
    BY <1>2
  <2> QED BY <1>3, <2>1, <2>2, <2>3, <2>4 DEF V!Has
<1>5. ASSUME Sorted(s), p = "open" => ~ V!Has(s, v, "close") PROVE Sorted(t)
  <2> SUFFICES ASSUME NEW i \in DOMAIN t, NEW j \in DOMAIN t, i < j, NEW w \in Visits,
                      t[i] = <<w, "close">>, t[j] = <<w, "open">>
               PROVE  FALSE
    BY DEF Sorted
  <2>1. i \in DOMAIN s
    BY <1>2
  <2>2. CASE j \in DOMAIN s
    BY <1>3, <1>5, <2>1, <2>2 DEF Sorted
  <2>3. CASE j = Len(s) + 1
    <3>1. w = v /\ p = "open"
      BY <1>3, <2>3
    <3> QED BY <1>3, <1>5, <2>1, <3>1 DEF V!Has
  <2> QED BY <1>2, <2>2, <2>3
<1> QED BY <1>2, <1>4, <1>5 DEF t

\* One list put before another.
LEMMA HasConcat ==
  ASSUME NEW r \in Seq(V!Facts), NEW s \in Seq(V!Facts)
  PROVE  /\ r \o s \in Seq(V!Facts)
         /\ \A v \in Visits, p \in Phases : V!Has(r \o s, v, p) <=> V!Has(r, v, p) \/ V!Has(s, v, p)
         /\ Sorted(r) /\ Sorted(s) /\ (\A v \in Visits : V!Has(s, v, "open") => ~ V!Has(r, v, "close"))
              => Sorted(r \o s)
<1> DEFINE t == r \o s
<1>1. /\ t \in Seq(V!Facts) /\ Len(r) \in Nat /\ Len(s) \in Nat /\ DOMAIN t = 1..(Len(r) + Len(s))
      /\ DOMAIN r = 1..Len(r) /\ DOMAIN s = 1..Len(s)
  OBVIOUS
<1>2. /\ \A i \in DOMAIN r : t[i] = r[i]
      /\ \A i \in DOMAIN t \ DOMAIN r : i - Len(r) \in DOMAIN s /\ t[i] = s[i - Len(r)]
      /\ \A i \in DOMAIN s : i + Len(r) \in DOMAIN t /\ t[i + Len(r)] = s[i]
  OBVIOUS
<1> HIDE DEF t
<1>3. \A v \in Visits, p \in Phases : V!Has(t, v, p) <=> V!Has(r, v, p) \/ V!Has(s, v, p)
  <2>1. \A i \in DOMAIN r : i \in DOMAIN t
    BY <1>1
  <2> QED BY <1>2, <2>1 DEF V!Has
<1>4. ASSUME Sorted(r), Sorted(s), \A v \in Visits : V!Has(s, v, "open") => ~ V!Has(r, v, "close")
      PROVE  Sorted(t)
  <2> SUFFICES ASSUME NEW i \in DOMAIN t, NEW j \in DOMAIN t, i < j, NEW v \in Visits,
                      t[i] = <<v, "close">>, t[j] = <<v, "open">>
               PROVE  FALSE
    BY DEF Sorted
  <2>1. CASE j \in DOMAIN r
    <3>1. i \in DOMAIN r
      BY <1>1, <2>1
    <3> QED BY <1>2, <1>4, <2>1, <3>1 DEF Sorted
  <2>2. CASE i \notin DOMAIN r
    <3>1. j \notin DOMAIN r /\ i - Len(r) < j - Len(r)
      BY <1>1, <2>2
    <3> QED BY <1>2, <1>4, <2>2, <3>1 DEF Sorted
  <2>3. CASE i \in DOMAIN r /\ j \notin DOMAIN r
    <3>1. V!Has(r, v, "close") /\ V!Has(s, v, "open")
      BY <1>2, <2>3 DEF V!Has
    <3> QED BY <1>4, <3>1
  <2> QED BY <2>1, <2>2, <2>3
<1> QED BY <1>1, <1>3, <1>4 DEF t

\* What is kept of a list is in it, and the rest is known to be dropped.
LEMMA KeptFactsIs ==
  ASSUME VisitBounds, NEW s \in Seq(V!Facts)
  PROVE  /\ V!Kept(s) \in Seq(V!Facts) /\ Len(V!Kept(s)) <= RetryMax /\ V!Dropped(s) \subseteq Visits
         /\ \A v \in Visits, p \in Phases : V!Has(V!Kept(s), v, p) => V!Has(s, v, p)
         /\ \A v \in Visits \ V!Dropped(s), p \in Phases : V!Has(s, v, p) => V!Has(V!Kept(s), v, p)
         /\ Sorted(s) => Sorted(V!Kept(s))
<1> DEFINE n == Len(s)
           t == SubSeq(s, n - RetryMax + 1, n)
           d == SubSeq(s, 1, n - RetryMax)
<1> USE DEF VisitBounds
<1>1. CASE n <= RetryMax
  BY <1>1 DEF V!Kept, V!Dropped
<1>2. CASE n > RetryMax
  <2>1. /\ n \in Nat /\ DOMAIN s = 1..n
        /\ t \in Seq(V!Facts) /\ Len(t) = RetryMax /\ DOMAIN t = 1..RetryMax
        /\ d \in Seq(V!Facts) /\ Len(d) = n - RetryMax /\ DOMAIN d = 1..(n - RetryMax)
    BY <1>2
  <2>2. /\ \A i \in DOMAIN t : i + (n - RetryMax) \in DOMAIN s /\ t[i] = s[i + (n - RetryMax)]
        /\ \A i \in DOMAIN d : i \in DOMAIN s /\ d[i] = s[i]
    BY <1>2
  <2>4. V!Kept(s) = t /\ V!Dropped(s) = V!Of(d)
    BY <1>2 DEF V!Kept, V!Dropped
  <2> HIDE DEF t, d, n
  <2>3. \A i \in DOMAIN s : i \in DOMAIN d \/ i - (n - RetryMax) \in DOMAIN t
    BY <1>2, <2>1
  <2>5. V!Dropped(s) \subseteq Visits
    BY <2>1, <2>4 DEF V!Of, V!Facts
  <2>6. \A v \in Visits, p \in Phases : V!Has(t, v, p) => V!Has(s, v, p)
    BY <2>2 DEF V!Has
  <2>7. ASSUME NEW v \in Visits \ V!Of(d), NEW p \in Phases, V!Has(s, v, p) PROVE V!Has(t, v, p)
    <3>1. PICK i \in DOMAIN s : s[i] = <<v, p>>
      BY <2>7 DEF V!Has
    <3>2. i \notin DOMAIN d
      BY <2>2, <3>1 DEF V!Of
    <3>3. i - (n - RetryMax) \in DOMAIN t /\ t[i - (n - RetryMax)] = s[i]
      BY <2>1, <2>2, <2>3, <3>2
    <3> QED BY <3>1, <3>3 DEF V!Has
  <2>8. ASSUME Sorted(s) PROVE Sorted(t)
    <3> SUFFICES ASSUME NEW i \in DOMAIN t, NEW j \in DOMAIN t, i < j, NEW v \in Visits,
                        t[i] = <<v, "close">>, t[j] = <<v, "open">>
                 PROVE  FALSE
      BY DEF Sorted
    <3>1. i + (n - RetryMax) < j + (n - RetryMax)
      BY <2>1
    <3> QED BY <2>2, <2>8, <3>1 DEF Sorted
  <2> QED BY <2>1, <2>4, <2>5, <2>6, <2>7, <2>8
<1> QED BY <1>1, <1>2

\* The facts of a list.
LEMMA OfIs ==
  ASSUME NEW s \in Seq(V!Facts)
  PROVE  /\ V!Of(s) \subseteq Visits
         /\ \A v \in Visits \ V!Of(s), p \in Phases : ~ V!Has(s, v, p)
BY DEF V!Of, V!Has, V!Facts

\* The box begins without visits.
LEMMA VisitInit == VisitBounds => (V!Init => VisitInv)
<1> SUFFICES ASSUME VisitBounds, V!Init PROVE VisitInv
  OBVIOUS
<1>1. /\ \A v \in Visits : visit[v] = "none" /\ row[v] = "none"
      /\ touched = {} /\ rowTouched = {} /\ lost = {} /\ up = "down" /\ orphans = "left"
      /\ buffer = <<>> /\ retry = <<>> /\ \A f \in V!Flushes : batch[f] = <<>>
  BY DEF V!Init, V!NoBatch
<1>2. V!TypeOK
  BY DEF V!Init, V!TypeOK, V!NoBatch, VisitBounds
<1>3. \A v \in Visits, p \in Phases : ~ V!Has(<<>>, v, p)
  BY DEF V!Has
<1>4. Sorted(<<>>)
  BY DEF Sorted
<1>5. \A v \in Visits, p \in Phases : ~ InPlay(v, p) /\ ~ V!Has(buffer, v, p)
  BY <1>1, <1>3 DEF InPlay
<1>6. VisitBufferInv
  BY <1>1, <1>5 DEF VisitBufferInv, Phases
<1> QED BY <1>1, <1>2, <1>4, <1>6
        DEF VisitInv, VisitShapes, SortedInv, WrittenInv, TouchedInv, GhostInv

\* A worker buffers a fact of its visit.
LEMMA BufferKeeps ==
  ASSUME VisitBounds, VisitInv, NEW v \in Visits, NEW p \in Phases, V!Buffer(v, p)
  PROVE  /\ buffer' \in Seq(V!Facts) /\ up # "down"
         /\ UNCHANGED <<up, batch, retry, row, rowTouched, lost, orphans, visitTroubles>>
         /\ \A w \in Visits, q \in Phases : V!Has(buffer', w, q) <=> V!Has(buffer, w, q) \/ (w = v /\ q = p)
         /\ \A w \in Visits, q \in Phases : InPlay(w, q)' <=> InPlay(w, q) \/ (w = v /\ q = p)
         /\ (p = "open" => visit[v] = "none") => SortedInv'
<1> USE DEF VisitInv
<1>1. /\ buffer \in Seq(V!Facts) /\ buffer' = Append(buffer, <<v, p>>)
      /\ UNCHANGED <<up, batch, retry, row, rowTouched, lost, orphans, visitTroubles>>
      /\ up # "down"
  BY DEF V!Buffer, VisitShapes, V!TypeOK, V!rows
<1>2. /\ buffer' \in Seq(V!Facts)
      /\ \A w \in Visits, q \in Phases : V!Has(buffer', w, q) <=> V!Has(buffer, w, q) \/ (w = v /\ q = p)
      /\ Sorted(buffer) /\ (p = "open" => ~ V!Has(buffer, v, "close")) => Sorted(buffer')
  BY <1>1, HasAppend
<1>3. visit[v] = "none" => ~ V!Has(buffer, v, "close")
  BY DEF VisitBufferInv, InPlay, Phases
<1>4. (p = "open" => visit[v] = "none") => SortedInv'
  BY <1>1, <1>2, <1>3 DEF SortedInv
<1>5. \A w \in Visits, q \in Phases : InPlay(w, q)' <=> InPlay(w, q) \/ (w = v /\ q = p)
  BY <1>1, <1>2 DEF InPlay
<1> QED BY <1>1, <1>2, <1>4, <1>5

\* A worker's fact goes to the end of the buffer (pipeline_supervisor.py).
LEMMA WorkerKeeps ==
  ASSUME VisitBounds, VisitInv, NEW v \in Visits, V!Enter(v) \/ V!Touch(v) \/ V!Exit(v)
  PROVE  VisitInv'
<1> USE DEF VisitInv
<1>0. PICK p \in Phases :
        /\ V!Buffer(v, p)
        /\ p = "open" => visit[v] = "none" /\ up = "running" /\ visit' = [visit EXCEPT ![v] = "in"] /\ touched' = touched
        /\ p = "interact" => visit[v] = "in" /\ visit' = visit /\ touched' = touched \cup {v}
        /\ p = "close" => visit[v] = "in" /\ visit' = [visit EXCEPT ![v] = "out"] /\ touched' = touched
  BY DEF V!Enter, V!Touch, V!Exit, Phases
<1>1. /\ buffer' \in Seq(V!Facts) /\ up # "down"
      /\ up' = up /\ batch' = batch /\ retry' = retry /\ row' = row /\ rowTouched' = rowTouched
      /\ lost' = lost /\ orphans' = orphans /\ visitTroubles' = visitTroubles
      /\ \A w \in Visits, q \in Phases : V!Has(buffer', w, q) <=> V!Has(buffer, w, q) \/ (w = v /\ q = p)
      /\ \A w \in Visits, q \in Phases : InPlay(w, q)' <=> InPlay(w, q) \/ (w = v /\ q = p)
      /\ SortedInv'
  BY <1>0, BufferKeeps
<1>2. /\ visit' \in [Visits -> {"none", "in", "out", "past"}] /\ touched' \subseteq Visits
      /\ \A w \in Visits \ {v} : visit'[w] = visit[w] /\ (w \in touched' <=> w \in touched)
      /\ p = "open" => visit[v] = "none" /\ visit'[v] = "in" /\ touched' = touched
      /\ p = "interact" => visit[v] = "in" /\ visit'[v] = "in" /\ v \in touched'
      /\ p = "close" => visit[v] = "in" /\ visit'[v] = "out" /\ touched' = touched
      /\ p \in {"open", "interact", "close"}
  BY <1>0 DEF VisitShapes, V!TypeOK, Phases
<1>3. VisitShapes'
  BY <1>1, <1>2 DEF VisitShapes, V!TypeOK
<1>4. VisitBufferInv'
  BY <1>1, <1>2 DEF VisitBufferInv, Phases, InPlay
<1>5. WrittenInv'
  BY <1>1, <1>2 DEF WrittenInv, Phases, VisitBufferInv
<1>6. TouchedInv'
  BY <1>1, <1>2 DEF TouchedInv, VisitBufferInv, WrittenInv
<1>7. GhostInv'
  BY <1>1, <1>2 DEF GhostInv
<1> QED BY <1>1, <1>3, <1>4, <1>5, <1>6, <1>7

\* A flush takes what is to be tried again, then the buffer.
LEMMA DrainKeeps ==
  ASSUME VisitBounds, VisitInv, NEW f \in V!Flushes, V!Drain(f)
  PROVE  VisitInv'
<1> USE DEF VisitInv
<1> DEFINE t == retry \o buffer
<1>1. /\ batch[f] = <<>> /\ batch' = [batch EXCEPT ![f] = t] /\ retry' = <<>> /\ buffer' = <<>>
      /\ up' = up /\ visit' = visit /\ touched' = touched /\ row' = row
      /\ rowTouched' = rowTouched
      /\ lost' = lost /\ orphans' = orphans /\ visitTroubles' = visitTroubles
      /\ buffer \in Seq(V!Facts) /\ retry \in Seq(V!Facts)
      /\ batch \in [V!Flushes -> Seq(V!Facts)]
  BY DEF V!Drain, V!MayFlush, V!seen, V!rows, VisitShapes, V!TypeOK
<1>2. /\ t \in Seq(V!Facts)
      /\ \A v \in Visits, p \in Phases : V!Has(t, v, p) <=> V!Has(retry, v, p) \/ V!Has(buffer, v, p)
      /\ Sorted(t)
  <2>1. \A v \in Visits : V!Has(buffer, v, "open") => ~ V!Has(retry, v, "close")
    BY DEF VisitBufferInv
  <2> QED BY <1>1, <2>1, HasConcat DEF SortedInv
<1> HIDE DEF t
<1>3. /\ batch' \in [V!Flushes -> Seq(V!Facts)] /\ batch'[f] = t
      /\ \A g \in V!Flushes \ {f} : batch'[g] = batch[g]
  BY <1>1, <1>2
<1>4. \A v \in Visits, p \in Phases : ~ V!Has(<<>>, v, p)
  BY DEF V!Has
<1>5. \A v \in Visits, p \in Phases : InPlay(v, p)' <=> InPlay(v, p)
  BY <1>1, <1>2, <1>3, <1>4 DEF InPlay
<1>6. VisitShapes'
  <2>1. up # "down"
    BY DEF V!Drain, V!MayFlush
  <2> QED BY <1>1, <1>3, <2>1 DEF VisitShapes, V!TypeOK, VisitBounds
<1>7. VisitBufferInv'
  BY <1>1, <1>4, <1>5 DEF VisitBufferInv, Phases
<1>8. SortedInv'
  <2>1. Sorted(<<>>)
    BY DEF Sorted
  <2> QED BY <1>1, <1>2, <1>3, <2>1 DEF SortedInv
<1>9. WrittenInv' /\ TouchedInv' /\ GhostInv'
  BY <1>1, <1>5 DEF WrittenInv, TouchedInv, GhostInv, Phases
<1> QED BY <1>6, <1>7, <1>8, <1>9

\* A batch goes out of play, whatever becomes of it.
LEMMA BatchGone ==
  ASSUME VisitInv, NEW f \in V!Flushes, batch' = [batch EXCEPT ![f] = <<>>]
  PROVE  /\ batch' \in [V!Flushes -> Seq(V!Facts)] /\ \A g \in V!Flushes : Sorted(batch'[g])
         /\ \A g \in V!Flushes, v \in Visits, p \in Phases :
              V!Has(batch'[g], v, p) <=> g # f /\ V!Has(batch[g], v, p)
<1> USE DEF VisitInv
<1>1. batch' \in [V!Flushes -> Seq(V!Facts)] /\ \A g \in V!Flushes : batch'[g] = IF g = f THEN <<>> ELSE batch[g]
  BY DEF VisitShapes, V!TypeOK
<1>2. \A v \in Visits, p \in Phases : ~ V!Has(<<>>, v, p)
  BY DEF V!Has
<1>3. Sorted(<<>>)
  BY DEF Sorted
<1> QED BY <1>1, <1>2, <1>3 DEF SortedInv

\* A flush that commits leaves every row as its last fact says.
LEMMA VisitCommitKeeps ==
  ASSUME VisitBounds, VisitInv, NEW f \in V!Flushes, V!Commit(f)
  PROVE  VisitInv'
<1> USE DEF VisitInv
<1> DEFINE b == batch[f]
<1>1. /\ b # <<>> /\ up # "down" /\ b \in Seq(V!Facts)
      /\ ~ V!Duplicate(f) /\ row' = [v \in Visits |-> V!Written(b, v)]
      /\ rowTouched' = V!Flagged(f, row')
      /\ batch' = [batch EXCEPT ![f] = <<>>] /\ up' \in {up, "flushed"}
      /\ visit' = visit /\ touched' = touched /\ buffer' = buffer /\ retry' = retry
      /\ lost' = lost /\ orphans' = orphans /\ visitTroubles' = visitTroubles
  BY DEF V!Commit, V!Flushed, V!seen, VisitShapes, V!TypeOK
<1>2. /\ batch' \in [V!Flushes -> Seq(V!Facts)] /\ \A g \in V!Flushes : Sorted(batch'[g])
      /\ \A g \in V!Flushes, v \in Visits, p \in Phases :
           V!Has(batch'[g], v, p) <=> g # f /\ V!Has(batch[g], v, p)
  BY <1>1, BatchGone
<1>3. \A v \in Visits, p \in Phases : /\ InPlay(v, p)' => InPlay(v, p)
                                      /\ InPlay(v, p) => InPlay(v, p)' \/ V!Has(b, v, p)
                                      /\ V!Has(b, v, p) => InPlay(v, p)
  BY <1>1, <1>2 DEF InPlay
<1>4. \A v \in Visits : /\ V!Has(b, v, "open") => row[v] = "none"
                        /\ V!Has(b, v, "close") => row'[v] = "out"
                        /\ ~ V!Has(b, v, "close") /\ V!Has(b, v, "open") => row'[v] = "in"
                        /\ ~ V!Has(b, v, "close") /\ ~ V!Has(b, v, "open") => row'[v] = row[v]
  <2> SUFFICES ASSUME NEW v \in Visits
               PROVE  /\ V!Has(b, v, "open") => row[v] = "none"
                      /\ V!Has(b, v, "close") => V!Written(b, v) = "out"
                      /\ ~ V!Has(b, v, "close") /\ V!Has(b, v, "open") => V!Written(b, v) = "in"
                      /\ ~ V!Has(b, v, "close") /\ ~ V!Has(b, v, "open") => V!Written(b, v) = row[v]
    BY <1>1
  <2>1. V!Has(b, v, "open") => row[v] = "none"
    BY <1>1 DEF V!Duplicate
  <2>2. V!EndsWith(b, v, "close", "open") <=> V!Has(b, v, "close")
    BY DEF V!EndsWith, V!Has, SortedInv, Sorted
  <2> QED BY <2>1, <2>2 DEF V!Written
<1>5. \A v \in Visits :
        v \in rowTouched' <=> IF V!Has(b, v, "close") THEN v \in touched
                             ELSE v \in rowTouched \/ (row'[v] # "none" /\ V!Has(b, v, "interact"))
  BY <1>1 DEF V!Flagged
<1>6. rowTouched' \subseteq Visits /\ row' \in [Visits -> {"none", "in", "out"}]
  <2>1. row' = [v \in Visits |-> row'[v]]
    BY <1>1
  <2>2. \A v \in Visits : row'[v] \in {"none", "in", "out"}
    BY <1>4 DEF VisitShapes, V!TypeOK
  <2>3. rowTouched' \subseteq Visits
    BY <1>1 DEF V!Flagged
  <2> QED BY <2>1, <2>2, <2>3
<1>7. VisitShapes'
  BY <1>1, <1>2, <1>6 DEF VisitShapes, V!TypeOK
<1>8. VisitBufferInv'
  BY <1>1, <1>2, <1>3, <1>4 DEF VisitBufferInv, Phases
<1>9. SortedInv'
  BY <1>1, <1>2 DEF SortedInv
<1>10. WrittenInv'
  BY <1>1, <1>3, <1>4 DEF WrittenInv, Phases
<1>11. TouchedInv'
  <2>1. \A v \in Visits : V!Has(b, v, "interact") => v \in touched
    BY <1>3 DEF VisitBufferInv, Phases
  <2> QED BY <1>1, <1>4, <1>5, <2>1 DEF TouchedInv
<1>12. GhostInv'
  BY <1>1, <1>3, <1>4 DEF GhostInv, VisitBufferInv, Phases
<1> QED BY <1>7, <1>8, <1>9, <1>10, <1>11, <1>12

\* A flush that fails puts its facts first among those to try again, or drops them.
LEMMA FailKeeps ==
  ASSUME VisitBounds, VisitInv, NEW f \in V!Flushes, V!Fail(f)
  PROVE  VisitInv'
<1> USE DEF VisitInv
<1> DEFINE b == batch[f]
<1>1. /\ b # <<>> /\ up # "down" /\ b \in Seq(V!Facts)
      /\ retry' = V!Kept(b) /\ lost' = lost \cup V!Dropped(b) \cup V!Of(retry)
      /\ batch' = [batch EXCEPT ![f] = <<>>] /\ up' \in {up, "flushed"}
      /\ visit' = visit /\ touched' = touched /\ buffer' = buffer /\ row' = row
      /\ rowTouched' = rowTouched /\ orphans' = orphans /\ visitTroubles' \in 0..VisitTroubles
  BY DEF V!Fail, V!Flushed, V!seen, V!rows, VisitShapes, V!TypeOK, V!Trouble, VisitBounds
<1>2. /\ batch' \in [V!Flushes -> Seq(V!Facts)] /\ \A g \in V!Flushes : Sorted(batch'[g])
      /\ \A g \in V!Flushes, v \in Visits, p \in Phases :
           V!Has(batch'[g], v, p) <=> g # f /\ V!Has(batch[g], v, p)
  BY <1>1, BatchGone
<1>3. /\ retry' \in Seq(V!Facts) /\ Len(retry') <= RetryMax /\ V!Dropped(b) \subseteq Visits
      /\ \A v \in Visits, p \in Phases : V!Has(retry', v, p) => V!Has(b, v, p)
      /\ \A v \in Visits \ V!Dropped(b), p \in Phases : V!Has(b, v, p) => V!Has(retry', v, p)
      /\ Sorted(retry')
  BY <1>1, KeptFactsIs DEF SortedInv
<1>4. V!Of(retry) \subseteq Visits /\ \A v \in Visits \ V!Of(retry), p \in Phases : ~ V!Has(retry, v, p)
  BY OfIs DEF VisitShapes, V!TypeOK
<1>5. /\ \A v \in Visits, p \in Phases : InPlay(v, p)' => InPlay(v, p)
      /\ \A v \in Visits \ lost', p \in Phases : InPlay(v, p) => InPlay(v, p)'
  BY <1>1, <1>2, <1>3, <1>4 DEF InPlay
<1>6. VisitShapes'
  BY <1>1, <1>2, <1>3, <1>4 DEF VisitShapes, V!TypeOK
<1>7. VisitBufferInv'
  BY <1>1, <1>2, <1>3, <1>5 DEF VisitBufferInv, Phases
<1>8. SortedInv'
  BY <1>1, <1>2, <1>3 DEF SortedInv
<1>9. WrittenInv'
  BY <1>1, <1>5 DEF WrittenInv, Phases
<1>10. TouchedInv' /\ GhostInv'
  BY <1>1 DEF TouchedInv, GhostInv
<1> QED BY <1>6, <1>7, <1>8, <1>9, <1>10

\* The box stops taking facts.
LEMMA StopKeeps ==
  ASSUME VisitBounds, VisitInv, V!Stop
  PROVE  VisitInv'
<1> USE DEF VisitInv
<1> DEFINE b == batch["loop"]
<1>1. /\ up = "running" /\ up' = "joining" /\ "loop" \in V!Flushes /\ b \in Seq(V!Facts)
      /\ lost' = lost \cup V!Of(b) /\ batch' = [batch EXCEPT !["loop"] = <<>>]
      /\ visit' = visit /\ touched' = touched /\ buffer' = buffer /\ row' = row /\ retry' = retry
      /\ rowTouched' = rowTouched /\ orphans' = orphans /\ visitTroubles' = visitTroubles
  BY DEF V!Stop, V!seen, V!rows, V!Flushes, VisitShapes, V!TypeOK
<1>2. /\ batch' \in [V!Flushes -> Seq(V!Facts)] /\ \A g \in V!Flushes : Sorted(batch'[g])
      /\ \A g \in V!Flushes, v \in Visits, p \in Phases :
           V!Has(batch'[g], v, p) <=> g # "loop" /\ V!Has(batch[g], v, p)
  BY <1>1, BatchGone
<1>3. V!Of(b) \subseteq Visits /\ \A v \in Visits \ V!Of(b), p \in Phases : ~ V!Has(b, v, p)
  BY <1>1, OfIs
<1>4. /\ \A v \in Visits, p \in Phases : InPlay(v, p)' => InPlay(v, p)
      /\ \A v \in Visits \ lost', p \in Phases : InPlay(v, p) => InPlay(v, p)'
  BY <1>1, <1>2, <1>3 DEF InPlay
<1>5. VisitShapes'
  BY <1>1, <1>2, <1>3 DEF VisitShapes, V!TypeOK
<1>6. VisitBufferInv'
  BY <1>1, <1>2, <1>4 DEF VisitBufferInv, Phases
<1>7. SortedInv'
  BY <1>1, <1>2 DEF SortedInv
<1>8. WrittenInv' /\ TouchedInv' /\ GhostInv'
  BY <1>1, <1>4 DEF WrittenInv, TouchedInv, GhostInv, Phases
<1> QED BY <1>5, <1>6, <1>7, <1>8

\* The flusher has ended.
LEMMA JoinedKeeps ==
  ASSUME VisitInv, V!Joined
  PROVE  VisitInv'
<1> USE DEF VisitInv
<1>1. /\ up = "joining" /\ up' = "flushing"
      /\ visit' = visit /\ touched' = touched /\ buffer' = buffer /\ row' = row /\ retry' = retry
      /\ batch' = batch /\ lost' = lost
      /\ rowTouched' = rowTouched /\ orphans' = orphans /\ visitTroubles' = visitTroubles
  BY DEF V!Joined, V!seen, V!rows, V!facts
<1> QED BY <1>1 DEF VisitShapes, V!TypeOK, VisitBufferInv, SortedInv, WrittenInv, TouchedInv,
   GhostInv, InPlay

\* The process ends: visits are past, and what was buffered is gone.
LEMMA EndKeeps ==
  ASSUME VisitBounds, VisitInv, V!End
  PROVE  VisitInv'
<1> USE DEF VisitInv
<1>1. /\ up' = "down" /\ lost' = lost \cup V!Pending \cup {v \in Visits : visit[v] = "in"}
      /\ visit' = [v \in Visits |-> IF visit[v] = "none" THEN "none" ELSE "past"]
      /\ buffer' = <<>> /\ batch' = V!NoBatch /\ retry' = <<>>
      /\ touched' = touched /\ row' = row /\ rowTouched' = rowTouched /\ orphans' = orphans
      /\ visitTroubles' \in 0..VisitTroubles
  BY DEF V!End, V!rows, V!Trouble, VisitBounds, VisitShapes, V!TypeOK
<1>2. V!Of(buffer) \subseteq Visits /\ V!Of(retry) \subseteq Visits /\ \A f \in V!Flushes : V!Of(batch[f]) \subseteq Visits
  BY OfIs DEF VisitShapes, V!TypeOK
<1>3. lost' \subseteq Visits
  BY <1>1, <1>2 DEF V!Pending, VisitShapes, V!TypeOK
<1>4. \A v \in Visits, p \in Phases : ~ V!Has(<<>>, v, p)
  BY DEF V!Has
<1>5. batch' \in [V!Flushes -> Seq(V!Facts)] /\ \A f \in V!Flushes : batch'[f] = <<>>
  BY <1>1 DEF V!NoBatch
<1>6. \A v \in Visits, p \in Phases : ~ InPlay(v, p)'
  BY <1>1, <1>4, <1>5 DEF InPlay
<1>7. VisitShapes'
  BY <1>1, <1>3, <1>5 DEF VisitShapes, V!TypeOK, VisitBounds
<1>8. VisitBufferInv'
  BY <1>1, <1>4, <1>6 DEF VisitBufferInv, Phases
<1>9. SortedInv'
  <2>1. Sorted(<<>>)
    BY DEF Sorted
  <2> QED BY <1>1, <1>5, <2>1 DEF SortedInv
<1>10. WrittenInv' /\ TouchedInv' /\ GhostInv'
  BY <1>1 DEF WrittenInv, TouchedInv, GhostInv
<1> QED BY <1>7, <1>8, <1>9, <1>10

\* The next run closes the rows of the one before.
LEMMA StartKeeps ==
  ASSUME VisitBounds, VisitInv, V!Start
  PROVE  VisitInv'
<1> USE DEF VisitInv
<1>1. /\ up = "down" /\ up' = "running"
      /\ visit' = visit /\ touched' = touched /\ buffer' = buffer /\ retry' = retry
      /\ batch' = batch
      /\ lost' = lost /\ rowTouched' = rowTouched /\ visitTroubles' \in 0..VisitTroubles
  BY DEF V!Start, V!Trouble, VisitBounds, VisitShapes, V!TypeOK, V!seen, V!facts
<1>0. \/ row' = V!Orphaned /\ orphans' = "closed"
      \/ row' = row /\ orphans' = "left"
  BY DEF V!Start
<1>2. /\ row' \in [Visits -> {"none", "in", "out"}] /\ orphans' \in {"left", "closed"}
      /\ \A v \in Visits : /\ visit[v] \in {"none", "past"} /\ (row'[v] = "none" <=> row[v] = "none")
                           /\ orphans' = "closed" => row'[v] # "in"
  BY <1>0, <1>1 DEF V!Orphaned, VisitShapes, V!TypeOK
<1>3. VisitShapes'
  BY <1>1, <1>2 DEF VisitShapes, V!TypeOK
<1>4. \A v \in Visits, p \in Phases : InPlay(v, p)' <=> InPlay(v, p)
  BY <1>1 DEF InPlay
<1>5. VisitBufferInv'
  BY <1>1, <1>2, <1>4 DEF VisitBufferInv, Phases
<1>6. SortedInv'
  BY <1>1 DEF SortedInv
<1>7. WrittenInv' /\ TouchedInv'
  BY <1>1, <1>2 DEF WrittenInv, TouchedInv
<1>8. GhostInv'
  BY <1>1, <1>2 DEF GhostInv
<1> QED BY <1>3, <1>5, <1>6, <1>7, <1>8

\* Every step keeps the invariant.
LEMMA VisitNext == VisitBounds => (VisitInv /\ [V!Next]_(V!vars) => VisitInv')
<1> SUFFICES ASSUME VisitBounds, VisitInv, [V!Next]_(V!vars) PROVE VisitInv'
  OBVIOUS
<1>1. CASE UNCHANGED V!vars
  BY <1>1 DEF V!vars, V!seen, V!facts, V!rows, VisitInv, VisitShapes, V!TypeOK, VisitBufferInv,
     SortedInv, WrittenInv, TouchedInv, GhostInv, InPlay
<1>2. CASE V!Next
  BY <1>2, WorkerKeeps, DrainKeeps, VisitCommitKeeps, FailKeeps, StopKeeps, JoinedKeeps, EndKeeps,
     StartKeeps DEF V!Next
<1> QED BY <1>1, <1>2

\* The invariant has the rows say what the camera saw.
LEMMA VisitSafe == VisitInv => V!VisitsAreTrue /\ V!TypeOK
<1> SUFFICES ASSUME VisitInv PROVE V!VisitsAreTrue /\ V!TypeOK
  OBVIOUS
<1> USE DEF VisitInv
<1>1. V!FlushedIsTrue
  <2> SUFFICES ASSUME NEW v \in Visits \ (lost \cup V!Pending)
               PROVE  /\ visit[v] \in {"none", "in", "out"} => row[v] = visit[v]
                      /\ visit[v] = "out" => ((v \in rowTouched) <=> (v \in touched))
    BY DEF V!FlushedIsTrue
  <2>1. \A p \in Phases : ~ InPlay(v, p)
    BY OfIs DEF V!Pending, InPlay, VisitShapes, V!TypeOK
  <2> QED BY <2>1 DEF VisitBufferInv, WrittenInv, TouchedInv, Phases, VisitShapes, V!TypeOK
<1>2. V!NoGhostVisits
  BY DEF V!NoGhostVisits, GhostInv
<1> QED BY <1>1, <1>2 DEF V!VisitsAreTrue, VisitShapes

\* The row of a visit says what the camera saw unless a fact of it was dropped, and
\* after a restart nobody of an earlier run is still "in the zone", for every number
\* of visits, failed commits and stops (services/pipeline_supervisor.py).
THEOREM VisitsHold == VisitBounds => (V!Spec => []V!VisitsAreTrue)
<1> SUFFICES ASSUME VisitBounds PROVE V!Spec => []V!VisitsAreTrue
  OBVIOUS
<1>1. V!Init => VisitInv
  BY VisitInit
<1>2. VisitInv /\ [V!Next]_(V!vars) => VisitInv'
  BY VisitNext
<1>3. VisitInv => V!VisitsAreTrue
  BY VisitSafe
<1> QED BY <1>1, <1>2, <1>3, PTL DEF V!Spec

-------------------------------------------------------------------------------
(* QueueAreas: any grace, any sequence of frames.                           *)

QueueBounds == QueueGrace \in Nat /\ LastFrame \in Nat

EndedStays == visits \cup cleared
QueueShapes ==
  /\ second \in Nat /\ second <= LastFrame
  /\ within \subseteq 1..second /\ outside \subseteq 1..second /\ within \cap outside = {}
  /\ EndedStays \subseteq [from : 1..second, to : 1..second]
  /\ \A s \in EndedStays : s.from <= s.to
  /\ openStay = K!Nowhere \/ (openStay \in [from : 1..second, to : 1..second] /\ openStay.from <= openStay.to)
\* The open stay is the last, and goes to the last frame with the track inside.
OpenInv ==
  openStay # K!Nowhere => /\ \A s \in EndedStays : s.to < openStay.from
                          /\ \A t \in within : t <= openStay.to
\* Stays do not meet, have all the frames inside, and a visit has been over for Grace.
StaysInv ==
  /\ \A s \in K!Stays : s.from \in within /\ s.to \in within
  /\ \A s, r \in EndedStays : s # r => s.to < r.from \/ r.to < s.from
  /\ \A t \in within : \E s \in K!Stays : s.from <= t /\ t <= s.to
  /\ \A s \in visits \ cleared : second - s.to > QueueGrace
  /\ \A s \in EndedStays \ cleared, r \in K!Stays : s.to < r.from => r.from - s.to > QueueGrace
PausesInv ==
  \A s \in K!Stays, t \in outside :
    s.from < t /\ (t < s.to \/ s = openStay) => \E u \in within : u < t /\ t - u <= QueueGrace
QueueInv == QueueShapes /\ OpenInv /\ StaysInv /\ PausesInv

\* No stay is open before the first frame.
LEMMA NowhereIs == K!Nowhere.from = 0 /\ K!Nowhere.to = 0
BY DEF K!Nowhere

\* No stays yet.
LEMMA QueueInit == QueueBounds => (K!Init => QueueInv)
<1> SUFFICES ASSUME QueueBounds, K!Init PROVE QueueInv
  OBVIOUS
<1>1. /\ second = 0 /\ openStay = K!Nowhere /\ EndedStays = {} /\ K!Stays = {} /\ within = {}
      /\ outside = {}
      /\ visits = {}
  BY DEF K!Init, EndedStays, K!Stays
<1> QED BY <1>1 DEF QueueBounds, QueueInv, QueueShapes, OpenInv, StaysInv, PausesInv

\* A frame with the track inside: the open stay goes on, or a new one begins after Grace.
LEMMA InsideKeeps ==
  ASSUME QueueBounds, QueueInv, K!Inside
  PROVE  QueueInv'
<1> USE DEF QueueInv
<1> DEFINE now == second + 1
           from == K!Entered(openStay, now)
<1>1. /\ second' = now /\ now <= LastFrame /\ openStay' = [from |-> from, to |-> now]
      /\ within' = within \cup {now} /\ visits' = visits /\ cleared' = cleared
      /\ outside' = outside
  BY DEF K!Inside, K!Tick, QueueBounds, QueueShapes
<1>2. /\ from \in 1..now
      /\ openStay # K!Nowhere => from = openStay.from
      /\ openStay = K!Nowhere => from = now
  BY NowhereIs DEF K!Entered, QueueShapes
<1>3. openStay'.from = from /\ openStay'.to = now /\ openStay' # K!Nowhere
  BY <1>1, <1>2, NowhereIs
<1>4. QueueShapes'
  BY <1>1, <1>2, <1>3 DEF QueueShapes, EndedStays, QueueBounds
<1>5. OpenInv'
  BY <1>1, <1>2, <1>3, <1>4 DEF OpenInv, QueueShapes, EndedStays
<1>6. \A s \in K!Stays' : s = openStay' \/ (s \in EndedStays /\ s \in K!Stays)
  BY <1>1 DEF K!Stays, EndedStays
<1>7. StaysInv'
  <2>1. \A s \in K!Stays' : s.from \in within' /\ s.to \in within'
    BY <1>1, <1>2, <1>3, <1>6 DEF StaysInv, K!Stays
  <2>2. \A t \in within' : \E s \in K!Stays' : s.from <= t /\ t <= s.to
    <3> SUFFICES ASSUME NEW t \in within' PROVE \E s \in K!Stays' : s.from <= t /\ t <= s.to
      OBVIOUS
    <3>1. openStay' \in K!Stays'
      BY <1>3 DEF K!Stays
    <3>2. CASE t = now
      BY <3>1, <3>2, <1>2, <1>3 DEF QueueShapes
    <3>3. CASE t \in within
      <4>1. PICK s \in K!Stays : s.from <= t /\ t <= s.to
        BY <3>3 DEF StaysInv
      <4>2. CASE s \in EndedStays
        BY <4>1, <4>2, <1>1 DEF K!Stays, EndedStays
      <4>3. CASE s = openStay /\ openStay # K!Nowhere
        BY <4>1, <4>3, <3>1, <3>3, <1>2, <1>3 DEF QueueShapes
      <4> QED BY <4>2, <4>3 DEF K!Stays, EndedStays
    <3> QED BY <3>2, <3>3, <1>1
  <2>3. \A s \in visits' \ cleared' : second' - s.to > QueueGrace
    BY <1>1 DEF StaysInv, QueueShapes, EndedStays, QueueBounds
  <2>4. \A s \in EndedStays' \ cleared', r \in K!Stays' : s.to < r.from => r.from - s.to > QueueGrace
    <3> SUFFICES ASSUME NEW s \in visits \ cleared, NEW r \in K!Stays', s.to < r.from
                 PROVE  r.from - s.to > QueueGrace
      BY <1>1 DEF EndedStays
    <3>1. CASE r \in K!Stays
      BY <3>1 DEF StaysInv, EndedStays
    <3>2. CASE r = openStay' /\ openStay = K!Nowhere
      BY <3>2, <1>2, <1>3 DEF StaysInv, EndedStays, QueueShapes, QueueBounds
    <3>3. CASE r = openStay' /\ openStay # K!Nowhere
      <4>1. openStay \in K!Stays /\ r.from = openStay.from
        BY <3>3, <1>2, <1>3 DEF K!Stays
      <4> QED BY <4>1 DEF StaysInv, EndedStays
    <3> QED BY <3>1, <3>2, <3>3, <1>6
  <2> QED BY <1>1, <2>1, <2>2, <2>3, <2>4 DEF StaysInv, EndedStays
<1>8. PausesInv'
  <2> SUFFICES ASSUME NEW s \in K!Stays', NEW t \in outside, s.from < t, t < s.to \/ s = openStay'
               PROVE  \E u \in within : u < t /\ t - u <= QueueGrace
    BY <1>1 DEF PausesInv
  <2>1. CASE s = openStay'
    <3>1. openStay # K!Nowhere /\ openStay \in K!Stays /\ openStay.from < t
      BY <2>1, <1>2, <1>3 DEF QueueShapes, K!Stays
    <3> QED BY <3>1 DEF PausesInv
  <2>2. CASE s # openStay'
    BY <2>2, <1>6 DEF PausesInv
  <2> QED BY <2>1, <2>2
<1> QED BY <1>4, <1>5, <1>7, <1>8

\* A frame with the track outside: the stay ends once that has lasted for Grace.
LEMMA OutsideKeeps ==
  ASSUME QueueBounds, QueueInv, K!Outside
  PROVE  QueueInv'
<1> USE DEF QueueInv
<1> DEFINE now == second + 1
<1>1. /\ second' = now /\ now <= LastFrame /\ now \in Nat /\ outside' = outside \cup {now}
      /\ within' = within /\ cleared' = cleared
  BY DEF K!Outside, K!Tick, QueueBounds, QueueShapes
<1>2. CASE ~ K!Over(openStay, now) /\ UNCHANGED <<openStay, visits>>
  <2>1. EndedStays' = EndedStays /\ K!Stays' = K!Stays /\ openStay' = openStay /\ visits' = visits
    BY <1>1, <1>2 DEF EndedStays, K!Stays
  <2>2. openStay # K!Nowhere => now - openStay.to <= QueueGrace
    BY <1>2 DEF K!Over, QueueShapes, QueueBounds
  <2>3. QueueShapes'
    BY <1>1, <2>1 DEF QueueShapes
  <2>4. OpenInv' /\ StaysInv'
    BY <1>1, <2>1 DEF OpenInv, StaysInv, QueueShapes, QueueBounds, EndedStays
  <2>5. PausesInv'
    <3> SUFFICES ASSUME NEW s \in K!Stays, NEW t \in outside', s.from < t, t < s.to \/ s = openStay
                 PROVE  \E u \in within : u < t /\ t - u <= QueueGrace
      BY <1>1, <2>1 DEF PausesInv
    <3>1. CASE t = now
      <4>1. s.to <= second /\ s.to \in within /\ s.to \in Nat
        BY DEF K!Stays, EndedStays, QueueShapes, StaysInv
      <4>2. s = openStay /\ openStay # K!Nowhere
        BY <3>1, <4>1, <1>1, NowhereIs DEF K!Stays, EndedStays, QueueShapes
      <4> QED BY <2>2, <3>1, <4>1, <4>2 DEF QueueShapes
    <3> QED BY <1>1, <3>1 DEF PausesInv
  <2> QED BY <2>3, <2>4, <2>5
<1>3. CASE K!Over(openStay, now) /\ visits' = visits \cup {openStay} /\ openStay' = K!Nowhere
  <2>1. openStay # K!Nowhere /\ now - openStay.to > QueueGrace
    BY <1>3 DEF K!Over
  <2>2. EndedStays' = EndedStays \cup {openStay} /\ K!Stays' = K!Stays /\ K!Stays = EndedStays \cup {openStay}
    BY <1>1, <1>3, <2>1 DEF EndedStays, K!Stays
  <2>3. QueueShapes'
    <3>1. openStay \in [from : 1..second, to : 1..second] /\ openStay.from <= openStay.to
      BY <2>1 DEF QueueShapes
    <3>2. EndedStays' \subseteq [from : 1..second', to : 1..second']
      BY <1>1, <2>2, <3>1 DEF QueueShapes
    <3> QED BY <1>1, <1>3, <2>2, <3>1, <3>2 DEF QueueShapes
  <2>4. OpenInv'
    BY <1>3 DEF OpenInv
  <2>5. StaysInv'
    <3>1. \A s, r \in EndedStays' : s # r => s.to < r.from \/ r.to < s.from
      BY <2>1, <2>2 DEF StaysInv, OpenInv
    <3>2. \A s \in visits' \ cleared' : second' - s.to > QueueGrace
      BY <1>1, <1>3, <2>1 DEF StaysInv, QueueShapes, EndedStays, QueueBounds
    <3>3. \A s \in EndedStays' \ cleared', r \in K!Stays' : s.to < r.from => r.from - s.to > QueueGrace
      BY <1>1, <2>1, <2>2 DEF StaysInv, OpenInv, QueueShapes
    <3> QED BY <1>1, <2>2, <3>1, <3>2, <3>3 DEF StaysInv
  <2>6. PausesInv'
    <3> SUFFICES ASSUME NEW s \in K!Stays, NEW t \in outside', s.from < t, t < s.to
                 PROVE  \E u \in within : u < t /\ t - u <= QueueGrace
      BY <1>1, <1>3, <2>1, <2>2, NowhereIs DEF PausesInv, QueueShapes
    <3>1. s.to <= second
      BY <2>1, <2>2 DEF QueueShapes
    <3>2. t \in outside
      BY <1>1, <3>1, <2>1, <2>2 DEF QueueShapes
    <3> QED BY <3>2 DEF PausesInv
  <2> QED BY <2>3, <2>4, <2>5, <2>6
<1> QED BY <1>2, <1>3 DEF K!Outside

\* A second without a frame.
LEMMA NoFrameKeeps ==
  ASSUME QueueBounds, QueueInv, K!NoFrame
  PROVE  QueueInv'
<1> USE DEF QueueInv
<1>1. /\ second' = second + 1 /\ second' <= LastFrame /\ openStay' = openStay /\ visits' = visits
      /\ cleared' = cleared /\ within' = within /\ outside' = outside
  BY DEF K!NoFrame, K!Tick, QueueBounds, QueueShapes
<1>2. QueueShapes'
  BY <1>1 DEF QueueShapes, EndedStays
<1>3. OpenInv' /\ PausesInv'
  BY <1>1 DEF OpenInv, PausesInv, EndedStays, K!Stays
<1>4. StaysInv'
  BY <1>1 DEF StaysInv, QueueShapes, QueueBounds, EndedStays, K!Stays
<1> QED BY <1>2, <1>3, <1>4

\* Counting is switched off: what was counted is cleared.
LEMMA CountingOffKeeps ==
  ASSUME QueueBounds, QueueInv, K!CountingOff
  PROVE  QueueInv'
<1> USE DEF QueueInv
<1>1. /\ second' = second /\ openStay # K!Nowhere /\ openStay' = K!Nowhere /\ visits' = visits
      /\ cleared' = cleared \cup {openStay} /\ within' = within /\ outside' = outside
  BY DEF K!CountingOff
<1>2. EndedStays' = EndedStays \cup {openStay} /\ K!Stays' = K!Stays /\ K!Stays = EndedStays \cup {openStay}
  BY <1>1 DEF EndedStays, K!Stays
<1>3. QueueShapes'
  <2>1. openStay \in [from : 1..second, to : 1..second] /\ openStay.from <= openStay.to
    BY <1>1 DEF QueueShapes
  <2>2. EndedStays' \subseteq [from : 1..second', to : 1..second']
    BY <1>1, <1>2, <2>1 DEF QueueShapes
  <2> QED BY <1>1, <1>2, <2>1, <2>2 DEF QueueShapes
<1>4. OpenInv'
  BY <1>1 DEF OpenInv
<1>5. StaysInv'
  <2>1. \A s, r \in EndedStays' : s # r => s.to < r.from \/ r.to < s.from
    BY <1>1, <1>2 DEF StaysInv, OpenInv
  <2>2. \A s \in EndedStays' \ cleared', r \in K!Stays' : s.to < r.from => r.from - s.to > QueueGrace
    BY <1>1, <1>2 DEF StaysInv
  <2> QED BY <1>1, <1>2, <2>1, <2>2 DEF StaysInv
<1>6. PausesInv'
  <2>1. \A s \in K!Stays : s # K!Nowhere
    BY <1>1, <1>2, NowhereIs DEF QueueShapes
  <2> QED BY <1>1, <1>2, <2>1 DEF PausesInv
<1> QED BY <1>3, <1>4, <1>5, <1>6

\* Every frame keeps the invariant.
LEMMA QueueNext == QueueBounds => (QueueInv /\ [K!Next]_(K!vars) => QueueInv')
<1> SUFFICES ASSUME QueueBounds, QueueInv, [K!Next]_(K!vars) PROVE QueueInv'
  OBVIOUS
<1>1. CASE UNCHANGED K!vars
  BY <1>1 DEF K!vars, QueueInv, QueueShapes, OpenInv, StaysInv, PausesInv, EndedStays, K!Stays
<1>2. CASE K!Next
  BY <1>2, InsideKeeps, OutsideKeeps, NoFrameKeeps, CountingOffKeeps DEF K!Next
<1> QED BY <1>1, <1>2

\* The invariant has every frame inside in exactly one stay.
LEMMA QueueSafe == QueueBounds => (QueueInv => K!VisitsSound /\ K!TypeOK)
<1> SUFFICES ASSUME QueueBounds, QueueInv PROVE K!VisitsSound /\ K!TypeOK
  OBVIOUS
<1> USE DEF QueueInv
<1>1. K!TypeOK
  BY DEF K!TypeOK, QueueShapes, K!Nowhere, QueueBounds
<1>2. \A s \in K!Stays : /\ {s.from, s.to} \subseteq within /\ s.from \in Nat /\ s.to \in Nat
                         /\ s.from <= s.to
  <2>1. \A s \in K!Stays : s.from \in within /\ s.to \in within
    BY DEF StaysInv
  <2>2. \A t \in within : t \in Nat
    BY DEF QueueShapes
  <2> QED BY <2>1, <2>2 DEF K!Stays, EndedStays, QueueShapes
<1>3. \A s, r \in K!Stays : s # r => s.to < r.from \/ r.to < s.from
  BY DEF StaysInv, OpenInv, K!Stays, EndedStays
<1>4. ASSUME NEW t \in within
      PROVE  K!Cardinality({s \in K!Stays : s.from <= t /\ t <= s.to}) = 1
  <2>1. PICK s \in K!Stays : s.from <= t /\ t <= s.to
    BY DEF StaysInv
  <2>2. \A r \in K!Stays : r.from \in Nat /\ r.to \in Nat
    BY <1>2
  <2>3. t \in Nat
    BY DEF QueueShapes
  <2>4. {r \in K!Stays : r.from <= t /\ t <= r.to} = {s}
    BY <1>3, <2>1, <2>2, <2>3
  <2>5. K!Cardinality({r \in K!Stays : r.from <= t /\ t <= r.to}) = 1
    <3>1. K!Cardinality({s}) = Cardinality({s})
      BY DEF K!Cardinality, Cardinality
    <3> QED BY <2>4, <3>1, FS_Singleton
  <2> QED BY <2>5
<1>5. \A s \in K!Stays \ cleared, r \in K!Stays : s.to < r.from => r.from - s.to > QueueGrace
  <2> SUFFICES ASSUME NEW s \in K!Stays \ cleared, NEW r \in K!Stays, s.to < r.from
               PROVE  r.from - s.to > QueueGrace
    OBVIOUS
  <2>1. CASE s \in EndedStays
    BY <2>1 DEF StaysInv
  <2>2. CASE s = openStay /\ openStay # K!Nowhere
    <3>2. r.from <= openStay.to
      BY <2>2 DEF StaysInv, OpenInv
    <3> QED BY <2>2, <3>2, <1>2
  <2> QED BY <2>1, <2>2 DEF K!Stays, EndedStays
<1> QED BY <1>1, <1>2, <1>4, <1>5 DEF K!VisitsSound, PausesInv

\* A queue area's visits are the stays the frames showed: no frame inside is in none
\* or in two, and only a pause longer than the grace ends one (tracking of queue
\* areas in services/tripwire_engine.py and the engine beside it).
THEOREM QueueVisitsHold == QueueBounds => (K!Spec => []K!VisitsSound)
<1> SUFFICES ASSUME QueueBounds PROVE K!Spec => []K!VisitsSound
  OBVIOUS
<1>1. K!Init => QueueInv
  BY QueueInit
<1>2. QueueInv /\ [K!Next]_(K!vars) => QueueInv'
  BY QueueNext
<1>3. QueueInv => K!VisitsSound
  BY QueueSafe
<1> QED BY <1>1, <1>2, <1>3, PTL DEF K!Spec

-------------------------------------------------------------------------------
(* AlertReview: any number of requests.                                     *)

ReviewBounds == Q!Nobody \notin Reviewers

Anyone == Reviewers \cup {Q!Nobody}
IncidentRows ==
  [status : {"active", "acknowledged", "dispatched", "resolved", "false_alarm"},
   resolution : Q!Outcomes \cup {Q!None}, sender : Anyone, details : [by : Anyone, report : Anyone]]
EventRows == [acked : BOOLEAN, at : Anyone, meta : [by : Anyone, outcome : Q!Outcomes \cup {Q!None}]]
ReviewSteps == {"new", "incident", "sent", "alerting", "done", "phone", "phone_event",
          "phone_event_read", "outcome", "outcome_alone", "refresh", "plain"}

ReviewShapes ==
  /\ theft \in BOOLEAN /\ incident \in IncidentRows /\ event \in EventRows
  /\ rq \in [Reviewers -> [pc : ReviewSteps, kind : Q!Kinds, incident : IncidentRows, event : EventRows]]
  /\ clean \in BOOLEAN /\ sentTwice \in BOOLEAN /\ crossed \in BOOLEAN /\ phoned \in BOOLEAN
  /\ firstBy \in Anyone

\* While the outcome counts no phone is about to write.
OutcomeInv ==
  clean =>
    /\ given \in Q!Outcomes /\ incident.status = Q!StatusOf(given) /\ incident.resolution = given
    /\ ~ Q!Pressing

\* Only who has sent staff is named, in the row and in every copy.
HasSent(r) == rq[r].kind = "send" /\ rq[r].pc \in {"sent", "alerting", "done"}
Names(rec, r) == rec.sender = r \/ rec.details.by = r
NamedInv ==
  \A r \in Reviewers :
    /\ rq[r].pc \in {"sent", "alerting"} => rq[r].kind = "send"
    /\ Names(incident, r) => HasSent(r)
    /\ \A q \in Reviewers : Names(rq[q].incident, r) => HasSent(r)

\* Whoever sends staff alone finds his own details until his report.
SendInv ==
  ~ sentTwice =>
    \A r \in Reviewers : rq[r].pc \in {"sent", "alerting"} =>
      /\ incident.sender = r /\ incident.details.by = r
      /\ rq[r].pc = "alerting" => rq[r].incident.sender = r /\ rq[r].incident.details.by = r

\* Until the first acknowledgement the row is empty, and no copy is ahead of it.
FreshInv ==
  /\ ~ event.acked => event = Q!NoEvent /\ firstBy = Q!Nobody /\ recorded = {}
  /\ event.acked => firstBy # Q!Nobody
  /\ \A r \in Reviewers : rq[r].event.acked => event.acked

\* Who writes an outcome was asked for it, and who writes none was not.
AskedInv ==
  /\ ~ theft => \A r \in Reviewers :
       /\ rq[r].pc \in {"outcome", "outcome_alone"} => rq[r].event.meta.outcome = Q!None
       /\ rq[r].pc = "plain" => rq[r].event.acked
  /\ \A r \in Reviewers : rq[r].pc \in {"outcome", "outcome_alone"} => rq[r].kind \in Q!Outcomes
  /\ \A r \in Reviewers : rq[r].pc = "refresh" => event.acked
  /\ \A r \in Reviewers : rq[r].pc = "phone" => rq[r].kind = "phone"
  /\ ~ theft /\ event.meta.outcome # Q!None => event.acked
OutcomeIs ==
  ~ theft =>
    /\ event.acked /\ ~ phoned => event.meta.outcome # Q!None
    /\ ~ crossed /\ recorded # {} =>
         event.meta.outcome # Q!None /\ \E r \in Reviewers : recorded = {<<r, event.meta.outcome>>}

ReviewInv ==
  /\ ReviewShapes /\ OutcomeInv /\ NamedInv /\ SendInv /\ Q!ReportBelongs
  /\ FreshInv /\ Q!FirstKept /\ AskedInv /\ OutcomeIs

\* The empty rows.
LEMMA NoRowIs ==
  /\ Q!NoIncident \in IncidentRows /\ Q!NoIncident.status = "active"
  /\ Q!NoIncident.sender = Q!Nobody
  /\ Q!NoIncident.details.by = Q!Nobody /\ Q!NoIncident.details.report = Q!Nobody
  /\ Q!NoEvent \in EventRows /\ ~ Q!NoEvent.acked /\ Q!NoEvent.meta.outcome = Q!None
  /\ Q!NoEvent.meta.by = Q!Nobody /\ Q!NoEvent.at = Q!Nobody
BY DEF Q!NoIncident, Q!NoEvent, IncidentRows, EventRows, Anyone

\* Nobody has said anything.
LEMMA ReviewInit == ReviewBounds => (Q!Init => ReviewInv)
<1> SUFFICES ASSUME ReviewBounds, Q!Init PROVE ReviewInv
  OBVIOUS
<1>1. ReviewShapes
  BY NoRowIs DEF Q!Init, ReviewShapes, ReviewSteps, Q!Kinds, Anyone
<1>2. \A r \in Reviewers : rq[r].pc = "new" /\ rq[r].incident = Q!NoIncident /\ rq[r].event = Q!NoEvent
  BY DEF Q!Init
<1> QED
  BY <1>1, <1>2, NoRowIs DEF Q!Init, ReviewInv, OutcomeInv, NamedInv, Names, HasSent, SendInv,
     Q!ReportBelongs, FreshInv, Q!FirstKept, AskedInv, OutcomeIs, ReviewBounds

\* What a column of the incident holds after a request wrote its row.
LEMMA IncidentColumns ==
  ASSUME NEW rec \in IncidentRows, NEW copy \in IncidentRows, NEW new \in IncidentRows
  PROVE  LET c == Q!Columns(rec, copy, new)
         IN  /\ c \in IncidentRows
             /\ c.status = IF new.status = copy.status THEN rec.status ELSE new.status
             /\ c.resolution = IF new.resolution = copy.resolution THEN rec.resolution ELSE new.resolution
             /\ c.sender = IF new.sender = copy.sender THEN rec.sender ELSE new.sender
             /\ c.details = IF new.details = copy.details THEN rec.details ELSE new.details
BY DEF Q!Columns, IncidentRows

\* What a column of the history's row holds after a request wrote it.
LEMMA EventColumns ==
  ASSUME NEW rec \in EventRows, NEW copy \in EventRows, NEW new \in EventRows
  PROVE  LET c == Q!Columns(rec, copy, new)
         IN  /\ c \in EventRows
             /\ c.acked = IF new.acked = copy.acked THEN rec.acked ELSE new.acked
             /\ c.at = IF new.at = copy.at THEN rec.at ELSE new.at
             /\ c.meta = IF new.meta = copy.meta THEN rec.meta ELSE new.meta
BY DEF Q!Columns, EventRows

ReviewRequest == [pc : ReviewSteps, kind : Q!Kinds, incident : IncidentRows, event : EventRows]

\* What a request that only reads may become: it has sent nobody it had not sent
\* before, and writes no outcome it was not asked for.
MayBecome(r, s) ==
  /\ s.incident \in {rq[r].incident, incident} /\ s.event \in {rq[r].event, event}
  /\ s.kind = "phone" /\ s.pc \in {"phone", "incident"} => Q!Pressing \/ ~ clean
  /\ HasSent(r) => s.kind = "send" /\ s.pc \in {"sent", "alerting", "done"}
  /\ s.pc \in {"sent", "alerting"} =>
       rq[r].pc = "sent" /\ s.kind = "send" /\ s.incident = incident
  /\ s.pc \in {"outcome", "outcome_alone"} =>
       s.kind \in Q!Outcomes /\ (theft \/ s.event.meta.outcome = Q!None)
  /\ s.pc # "refresh" /\ (s.pc = "phone" => s.kind = "phone")
  /\ s.pc = "plain" => theft \/ s.event.acked

\* A request that reads, and writes nothing.
LEMMA ReviewerKeeps ==
  ASSUME ReviewBounds, ReviewInv, NEW r \in Reviewers, NEW s \in ReviewRequest, MayBecome(r, s),
         UNCHANGED <<theft, incident, event, Q!ghosts>>, rq' = [rq EXCEPT ![r] = s]
  PROVE  ReviewInv'
<1> USE DEF ReviewInv, MayBecome
<1>1. \A q \in Reviewers : rq'[q] = IF q = r THEN s ELSE rq[q]
  BY DEF ReviewShapes
<1>2. ReviewShapes'
  BY DEF ReviewShapes, ReviewRequest, Q!ghosts
<1> /\ theft' = theft /\ incident' = incident /\ event' = event /\ clean' = clean /\ given' = given
    /\ sentTwice' = sentTwice /\ firstBy' = firstBy /\ crossed' = crossed /\ phoned' = phoned
    /\ recorded' = recorded
  BY DEF Q!ghosts
<1>3. OutcomeInv'
  BY <1>1 DEF OutcomeInv, Q!Pressing
<1>4. NamedInv'
  BY <1>1 DEF NamedInv, Names, HasSent
<1>5. SendInv'
  BY <1>1 DEF SendInv
<1>6. Q!ReportBelongs' /\ Q!FirstKept'
  BY DEF Q!ReportBelongs, Q!FirstKept
<1>7. FreshInv'
  BY <1>1 DEF FreshInv
<1>8. AskedInv'
  BY <1>1 DEF AskedInv
<1>9. OutcomeIs'
  BY <1>1 DEF OutcomeIs
<1> QED BY <1>2, <1>3, <1>4, <1>5, <1>6, <1>7, <1>8, <1>9

\* A button of the incident reads the row (routes/theft.py).
LEMMA ReviewAskKeeps ==
  ASSUME ReviewBounds, ReviewInv, NEW r \in Reviewers, Q!Ask(r)
  PROVE  ReviewInv'
<1> USE DEF ReviewInv
<1>p. PICK want \in {"acknowledge", "send"} \cup Q!Outcomes : Q!ReadIncident(r, want, "incident")
  BY DEF Q!Ask, Q!ReadIncident
<1> DEFINE s == [rq[r] EXCEPT !.pc = "incident", !.kind = want, !.incident = incident]
<1>1. /\ rq[r] \in ReviewRequest /\ incident \in IncidentRows /\ event \in EventRows
  BY DEF ReviewShapes, ReviewRequest
<1>2. s \in ReviewRequest
  BY <1>1, <1>p DEF ReviewRequest, ReviewSteps, Q!Kinds, Q!Outcomes, Q!Ask, Q!ReadIncident
<1>3. rq' = [rq EXCEPT ![r] = s] /\ UNCHANGED <<theft, incident, event, Q!ghosts>>
  BY <1>1, <1>p DEF ReviewRequest, ReviewShapes, Q!Ask, Q!ReadIncident
<1>4. MayBecome(r, s)
  BY <1>1, <1>p DEF MayBecome, ReviewRequest, Q!Ask, Q!ReadIncident, HasSent, Q!Pressing,
     OutcomeInv, Q!StatusOf, NamedInv, AskedInv, FreshInv, Q!Outcomes
<1> HIDE DEF s
<1> QED BY <1>2, <1>3, <1>4, ReviewerKeeps

\* Who has sent staff reads the row again.
LEMMA RefreshKeeps ==
  ASSUME ReviewBounds, ReviewInv, NEW r \in Reviewers, Q!Refresh(r)
  PROVE  ReviewInv'
<1> USE DEF ReviewInv
<1>p. PICK notify \in BOOLEAN :
       rq' = [rq EXCEPT ![r].pc = IF notify THEN "alerting" ELSE "done", ![r].incident = incident]
  BY DEF Q!Refresh
<1> DEFINE s == [rq[r] EXCEPT !.pc = IF notify THEN "alerting" ELSE "done", !.incident = incident]
<1>1. /\ rq[r] \in ReviewRequest /\ incident \in IncidentRows /\ event \in EventRows
  BY DEF ReviewShapes, ReviewRequest
<1>2. s \in ReviewRequest
  BY <1>1, <1>p DEF ReviewRequest, ReviewSteps, Q!Kinds, Q!Outcomes, Q!Refresh
<1>3. rq' = [rq EXCEPT ![r] = s] /\ UNCHANGED <<theft, incident, event, Q!ghosts>>
  BY <1>1, <1>p DEF ReviewRequest, ReviewShapes, Q!Refresh
<1>4. MayBecome(r, s)
  BY <1>1, <1>p DEF MayBecome, ReviewRequest, Q!Refresh, HasSent, Q!Pressing, OutcomeInv,
     Q!StatusOf, NamedInv, AskedInv, FreshInv, Q!Outcomes
<1> HIDE DEF s
<1> QED BY <1>2, <1>3, <1>4, ReviewerKeeps

\* An acknowledgement reads the row (routes/events.py).
LEMMA SeeKeeps ==
  ASSUME ReviewBounds, ReviewInv, NEW r \in Reviewers, Q!See(r)
  PROVE  ReviewInv'
<1> USE DEF ReviewInv
<1> DEFINE s == [rq[r] EXCEPT !.pc = "plain", !.kind = "seen", !.event = event]
<1>1. /\ rq[r] \in ReviewRequest /\ incident \in IncidentRows /\ event \in EventRows
  BY DEF ReviewShapes, ReviewRequest
<1>2. s \in ReviewRequest
  BY <1>1 DEF ReviewRequest, ReviewSteps, Q!Kinds, Q!Outcomes, Q!See, Q!ReadEvent, Q!AsksOutcome
<1>3. rq' = [rq EXCEPT ![r] = s] /\ UNCHANGED <<theft, incident, event, Q!ghosts>>
  BY <1>1 DEF ReviewRequest, ReviewShapes, Q!See, Q!ReadEvent, Q!AsksOutcome
<1>4. MayBecome(r, s)
  BY <1>1 DEF MayBecome, ReviewRequest, Q!See, Q!ReadEvent, Q!AsksOutcome, HasSent, Q!Pressing,
     OutcomeInv, Q!StatusOf, NamedInv, AskedInv, FreshInv, Q!Outcomes
<1> HIDE DEF s
<1> QED BY <1>2, <1>3, <1>4, ReviewerKeeps

\* An acknowledgement with an outcome reads it.
LEMMA SeeWithKeeps ==
  ASSUME ReviewBounds, ReviewInv, NEW r \in Reviewers, Q!SeeWith(r)
  PROVE  ReviewInv'
<1> USE DEF ReviewInv
<1>p. PICK what \in Q!Outcomes, pc \in {"outcome", "outcome_alone"} : Q!ReadEvent(r, what, pc)
  BY DEF Q!SeeWith, Q!ReadEvent, Q!AsksOutcome
<1> DEFINE s == [rq[r] EXCEPT !.pc = pc, !.kind = what, !.event = event]
<1>1. /\ rq[r] \in ReviewRequest /\ incident \in IncidentRows /\ event \in EventRows
  BY DEF ReviewShapes, ReviewRequest
<1>2. s \in ReviewRequest
  BY <1>1, <1>p DEF ReviewRequest, ReviewSteps, Q!Kinds, Q!Outcomes, Q!SeeWith, Q!ReadEvent,
     Q!AsksOutcome
<1>3. rq' = [rq EXCEPT ![r] = s] /\ UNCHANGED <<theft, incident, event, Q!ghosts>>
  BY <1>1, <1>p DEF ReviewRequest, ReviewShapes, Q!SeeWith, Q!ReadEvent, Q!AsksOutcome
<1>4. MayBecome(r, s)
  BY <1>1, <1>p DEF MayBecome, ReviewRequest, Q!SeeWith, Q!ReadEvent, Q!AsksOutcome, HasSent,
     Q!Pressing, OutcomeInv, Q!StatusOf, NamedInv, AskedInv, FreshInv, Q!Outcomes
<1> HIDE DEF s
<1> QED BY <1>2, <1>3, <1>4, ReviewerKeeps

\* What wrote an outcome reads the row again.
LEMMA RefreshEventKeeps ==
  ASSUME ReviewBounds, ReviewInv, NEW r \in Reviewers, Q!RefreshEvent(r)
  PROVE  ReviewInv'
<1> USE DEF ReviewInv
<1> DEFINE s == [rq[r] EXCEPT !.pc = "plain", !.kind = rq[r].kind, !.event = event]
<1>1. /\ rq[r] \in ReviewRequest /\ incident \in IncidentRows /\ event \in EventRows
  BY DEF ReviewShapes, ReviewRequest
<1>2. s \in ReviewRequest
  BY <1>1 DEF ReviewRequest, ReviewSteps, Q!Kinds, Q!Outcomes, Q!RefreshEvent, Q!ReadEvent
<1>3. rq' = [rq EXCEPT ![r] = s] /\ UNCHANGED <<theft, incident, event, Q!ghosts>>
  BY <1>1 DEF ReviewRequest, ReviewShapes, Q!RefreshEvent, Q!ReadEvent
<1>4. MayBecome(r, s)
  BY <1>1 DEF MayBecome, ReviewRequest, Q!RefreshEvent, Q!ReadEvent, HasSent, Q!Pressing,
     OutcomeInv, Q!StatusOf, NamedInv, AskedInv, FreshInv, Q!Outcomes
<1> HIDE DEF s
<1> QED BY <1>2, <1>3, <1>4, ReviewerKeeps

\* The button of a phone.
LEMMA ButtonKeeps ==
  ASSUME ReviewBounds, ReviewInv, NEW r \in Reviewers, Q!Button(r)
  PROVE  ReviewInv'
<1> USE DEF ReviewInv
<1> DEFINE s == [rq[r] EXCEPT !.pc = IF theft THEN "phone" ELSE "phone_event", !.kind = "phone"]
<1>1. /\ rq[r] \in ReviewRequest /\ incident \in IncidentRows /\ event \in EventRows
  BY DEF ReviewShapes, ReviewRequest
<1>2. s \in ReviewRequest
  BY <1>1 DEF ReviewRequest, ReviewSteps, Q!Kinds, Q!Outcomes, Q!Button, Q!Handled
<1>3. rq' = [rq EXCEPT ![r] = s] /\ UNCHANGED <<theft, incident, event, Q!ghosts>>
  BY <1>1 DEF ReviewRequest, ReviewShapes, Q!Button, Q!Handled
<1>4. MayBecome(r, s)
  BY <1>1 DEF MayBecome, ReviewRequest, Q!Button, Q!Handled, HasSent, Q!Pressing, OutcomeInv,
     Q!StatusOf, NamedInv, AskedInv, FreshInv, Q!Outcomes
<1> HIDE DEF s
<1> QED BY <1>2, <1>3, <1>4, ReviewerKeeps

\* It reads the incident.
LEMMA ButtonReadsKeeps ==
  ASSUME ReviewBounds, ReviewInv, NEW r \in Reviewers, Q!ButtonReads(r)
  PROVE  ReviewInv'
<1> USE DEF ReviewInv
<1> DEFINE s == [rq[r] EXCEPT !.pc = "incident", !.kind = "phone", !.incident = incident]
<1>1. /\ rq[r] \in ReviewRequest /\ incident \in IncidentRows /\ event \in EventRows
  BY DEF ReviewShapes, ReviewRequest
<1>2. s \in ReviewRequest
  BY <1>1 DEF ReviewRequest, ReviewSteps, Q!Kinds, Q!Outcomes, Q!ButtonReads, Q!ReadIncident
<1>3. rq' = [rq EXCEPT ![r] = s] /\ UNCHANGED <<theft, incident, event, Q!ghosts>>
  BY <1>1 DEF ReviewRequest, ReviewShapes, Q!ButtonReads, Q!ReadIncident
<1>4. MayBecome(r, s)
  BY <1>1 DEF MayBecome, ReviewRequest, Q!ButtonReads, Q!ReadIncident, HasSent, Q!Pressing,
     OutcomeInv, Q!StatusOf, NamedInv, AskedInv, FreshInv, Q!Outcomes
<1> HIDE DEF s
<1> QED BY <1>2, <1>3, <1>4, ReviewerKeeps

\* It reads the history's row.
LEMMA ButtonReadsEventKeeps ==
  ASSUME ReviewBounds, ReviewInv, NEW r \in Reviewers, Q!ButtonReadsEvent(r)
  PROVE  ReviewInv'
<1> USE DEF ReviewInv
<1> DEFINE s == [rq[r] EXCEPT !.pc = "phone_event_read", !.kind = "phone", !.event = event]
<1>1. /\ rq[r] \in ReviewRequest /\ incident \in IncidentRows /\ event \in EventRows
  BY DEF ReviewShapes, ReviewRequest
<1>2. s \in ReviewRequest
  BY <1>1 DEF ReviewRequest, ReviewSteps, Q!Kinds, Q!Outcomes, Q!ButtonReadsEvent, Q!ReadEvent
<1>3. rq' = [rq EXCEPT ![r] = s] /\ UNCHANGED <<theft, incident, event, Q!ghosts>>
  BY <1>1 DEF ReviewRequest, ReviewShapes, Q!ButtonReadsEvent, Q!ReadEvent
<1>4. MayBecome(r, s)
  BY <1>1 DEF MayBecome, ReviewRequest, Q!ButtonReadsEvent, Q!ReadEvent, HasSent, Q!Pressing,
     OutcomeInv, Q!StatusOf, NamedInv, AskedInv, FreshInv, Q!Outcomes
<1> HIDE DEF s
<1> QED BY <1>2, <1>3, <1>4, ReviewerKeeps

\* A request that writes columns of the incident, and goes on.
LEMMA WrittenIncident ==
  ASSUME ReviewBounds, ReviewInv, NEW r \in Reviewers, NEW new \in IncidentRows,
         incident' = Q!Columns(incident, rq[r].incident, new),
         NEW pc \in {"sent", "done", "phone_event"}, rq' = [rq EXCEPT ![r].pc = pc],
         UNCHANGED <<theft, event, firstBy, crossed, phoned, recorded>>,
         clean' \in BOOLEAN, sentTwice' \in BOOLEAN
  PROVE  /\ ReviewShapes' /\ FreshInv' /\ Q!FirstKept' /\ AskedInv' /\ OutcomeIs'
         /\ \A q \in Reviewers : /\ rq'[q].incident = rq[q].incident /\ rq'[q].kind = rq[q].kind
                                 /\ rq'[q].pc = IF q = r THEN pc ELSE rq[q].pc
<1> USE DEF ReviewInv
<1>1. rq[r] \in ReviewRequest /\ rq[r].incident \in IncidentRows /\ incident \in IncidentRows
  BY DEF ReviewShapes, ReviewRequest
<1> DEFINE s == [rq[r] EXCEPT !.pc = pc]
<1>2. s \in ReviewRequest /\ s.incident = rq[r].incident /\ s.event = rq[r].event /\ s.pc = pc /\ s.kind = rq[r].kind
  BY <1>1 DEF ReviewRequest, ReviewSteps
<1>3. rq' = [rq EXCEPT ![r] = s]
  OBVIOUS
<1> HIDE DEF s
<1>4. \A q \in Reviewers : rq'[q] = IF q = r THEN s ELSE rq[q]
  BY <1>3 DEF ReviewShapes
<1>5. incident' \in IncidentRows
  BY <1>1, IncidentColumns
<1>6. ReviewShapes'
  BY <1>2, <1>3, <1>5 DEF ReviewShapes, ReviewRequest
<1>7. FreshInv' /\ Q!FirstKept' /\ AskedInv' /\ OutcomeIs'
  BY <1>2, <1>4 DEF FreshInv, Q!FirstKept, AskedInv, OutcomeIs
<1> QED BY <1>2, <1>4, <1>6, <1>7

\* The acknowledgement of an incident keeps its sender and its details.
LEMMA AcknowledgeKeeps ==
  ASSUME ReviewBounds, ReviewInv, NEW r \in Reviewers, Q!Acknowledge(r)
  PROVE  ReviewInv'
<1> USE DEF ReviewInv
<1> DEFINE new == [rq[r].incident EXCEPT !.status = "acknowledged"]
           pc == IF rq[r].kind = "phone" THEN "phone_event" ELSE "done"
<1>1. rq[r].incident \in IncidentRows /\ incident \in IncidentRows
  BY DEF ReviewShapes
<1>2. /\ new \in IncidentRows /\ new.resolution = rq[r].incident.resolution
      /\ new.sender = rq[r].incident.sender /\ new.details = rq[r].incident.details
  BY <1>1 DEF IncidentRows
<1>3. /\ rq[r].pc = "incident" /\ rq[r].kind \in {"acknowledge", "phone"}
      /\ incident' = Q!Columns(incident, rq[r].incident, new)
      /\ pc \in {"done", "phone_event"} /\ pc \in {"sent", "done", "phone_event"}
      /\ rq' = [rq EXCEPT ![r].pc = pc]
      /\ UNCHANGED <<theft, event, given, sentTwice, firstBy, crossed, phoned, recorded>>
      /\ clean' = (clean /\ rq[r].kind = "phone") /\ clean' \in BOOLEAN /\ sentTwice' \in BOOLEAN
  BY DEF Q!Acknowledge, Q!WriteIncident, Q!To, ReviewShapes
<1> HIDE DEF new, pc
<1>4. /\ ReviewShapes' /\ FreshInv' /\ Q!FirstKept' /\ AskedInv' /\ OutcomeIs'
      /\ \A q \in Reviewers : /\ rq'[q].incident = rq[q].incident /\ rq'[q].kind = rq[q].kind
                              /\ rq'[q].pc = IF q = r THEN pc ELSE rq[q].pc
  BY <1>2, <1>3, WrittenIncident
<1>5. incident'.sender = incident.sender /\ incident'.details = incident.details
  BY <1>1, <1>2, <1>3, IncidentColumns
<1>6. OutcomeInv'
  BY <1>3 DEF OutcomeInv, Q!Pressing
<1>7. NamedInv'
  BY <1>3, <1>4, <1>5 DEF NamedInv, Names, HasSent
<1>8. SendInv'
  BY <1>3, <1>4, <1>5 DEF SendInv
<1>9. Q!ReportBelongs'
  BY <1>3, <1>5 DEF Q!ReportBelongs
<1> QED BY <1>4, <1>6, <1>7, <1>8, <1>9

\* Who sends staff is named; somebody else who is on his way is overtaken.
LEMMA SendKeeps ==
  ASSUME ReviewBounds, ReviewInv, NEW r \in Reviewers, Q!Send(r)
  PROVE  ReviewInv'
<1> USE DEF ReviewInv
<1> DEFINE d == [by |-> r, report |-> Q!Nobody]
           new == [rq[r].incident EXCEPT !.status = "dispatched", !.sender = r, !.details = d]
<1>1. rq[r].incident \in IncidentRows /\ incident \in IncidentRows
  BY DEF ReviewShapes
<1>2. d \in [by : Anyone, report : Anyone] /\ d.by = r /\ d.report = Q!Nobody
  BY DEF Anyone
<1>3. /\ rq[r].pc = "incident" /\ rq[r].kind = "send"
      /\ incident' = Q!Columns(incident, rq[r].incident, new)
      /\ "sent" \in {"sent", "done", "phone_event"} /\ rq' = [rq EXCEPT ![r].pc = "sent"]
      /\ UNCHANGED <<theft, event, given, firstBy, crossed, phoned, recorded>>
      /\ clean' = FALSE /\ sentTwice' = (sentTwice \/ Q!Sending # {r})
      /\ clean' \in BOOLEAN /\ sentTwice' \in BOOLEAN
  BY DEF Q!Send, Q!WriteIncident, Q!To, ReviewShapes
<1> HIDE DEF d
<1>4. new \in IncidentRows /\ new.sender = r /\ new.details = d
  BY <1>1, <1>2 DEF IncidentRows, Anyone
<1> HIDE DEF new
<1>5. /\ ReviewShapes' /\ FreshInv' /\ Q!FirstKept' /\ AskedInv' /\ OutcomeIs'
      /\ \A q \in Reviewers : /\ rq'[q].incident = rq[q].incident /\ rq'[q].kind = rq[q].kind
                              /\ rq'[q].pc = IF q = r THEN "sent" ELSE rq[q].pc
  BY <1>3, <1>4, WrittenIncident
<1>6. rq[r].incident.sender # r /\ rq[r].incident.details.by # r
  BY <1>3 DEF NamedInv, Names, HasSent
<1>7. incident'.sender = r /\ incident'.details = d
  BY <1>1, <1>2, <1>3, <1>4, <1>6, IncidentColumns
<1>8. OutcomeInv'
  BY <1>3 DEF OutcomeInv
<1>9. NamedInv'
  BY <1>2, <1>3, <1>5, <1>7 DEF NamedInv, Names, HasSent
<1>10. ~ sentTwice' => \A q \in Reviewers \ {r} : rq[q].pc \notin {"sent", "alerting"}
  BY <1>3 DEF Q!Sending, NamedInv
<1>11. SendInv'
  BY <1>2, <1>3, <1>5, <1>7, <1>10 DEF SendInv
<1>12. Q!ReportBelongs'
  BY <1>2, <1>7 DEF Q!ReportBelongs
<1> QED BY <1>5, <1>8, <1>9, <1>11, <1>12

\* The report of an alarm belongs to who sent staff.
LEMMA ReportKeeps ==
  ASSUME ReviewBounds, ReviewInv, NEW r \in Reviewers, Q!Report(r)
  PROVE  ReviewInv'
<1> USE DEF ReviewInv
<1> DEFINE d == [rq[r].incident.details EXCEPT !.report = r]
           new == [rq[r].incident EXCEPT !.details = d]
<1>1. rq[r].incident \in IncidentRows /\ incident \in IncidentRows
  BY DEF ReviewShapes
<1>2. d \in [by : Anyone, report : Anyone] /\ d.by = rq[r].incident.details.by /\ d.report = r
  BY <1>1 DEF IncidentRows, Anyone
<1>3. /\ rq[r].pc = "alerting" /\ rq[r].kind = "send"
      /\ incident' = Q!Columns(incident, rq[r].incident, new)
      /\ "done" \in {"sent", "done", "phone_event"} /\ rq' = [rq EXCEPT ![r].pc = "done"]
      /\ UNCHANGED <<theft, event, given, clean, firstBy, crossed, phoned, recorded>>
      /\ sentTwice' = (sentTwice \/ Q!Sending # {r})
      /\ clean' \in BOOLEAN /\ sentTwice' \in BOOLEAN
  BY DEF Q!Report, Q!WriteIncident, Q!To, ReviewShapes, NamedInv
<1> HIDE DEF d
<1>4. /\ new \in IncidentRows /\ new.sender = rq[r].incident.sender /\ new.details = d
      /\ new.status = rq[r].incident.status /\ new.resolution = rq[r].incident.resolution
  BY <1>1, <1>2 DEF IncidentRows
<1> HIDE DEF new
<1>5. /\ ReviewShapes' /\ FreshInv' /\ Q!FirstKept' /\ AskedInv' /\ OutcomeIs'
      /\ \A q \in Reviewers : /\ rq'[q].incident = rq[q].incident /\ rq'[q].kind = rq[q].kind
                              /\ rq'[q].pc = IF q = r THEN "done" ELSE rq[q].pc
  BY <1>3, <1>4, WrittenIncident
<1>6. /\ incident'.sender = incident.sender /\ incident'.details \in {d, incident.details}
      /\ incident'.status = incident.status /\ incident'.resolution = incident.resolution
  BY <1>1, <1>3, <1>4, IncidentColumns
<1>7. OutcomeInv'
  BY <1>3, <1>5, <1>6 DEF OutcomeInv, Q!Pressing
<1>8. NamedInv'
  BY <1>2, <1>3, <1>5, <1>6 DEF NamedInv, Names, HasSent
<1>9. ~ sentTwice' => \A q \in Reviewers \ {r} : rq[q].pc \notin {"sent", "alerting"}
  BY <1>3 DEF Q!Sending, NamedInv
<1>10. SendInv'
  BY <1>3, <1>5, <1>9 DEF SendInv
<1>11. Q!ReportBelongs'
  BY <1>2, <1>3, <1>6 DEF Q!ReportBelongs, SendInv
<1> QED BY <1>5, <1>7, <1>8, <1>10, <1>11

\* The outcome of an incident; from here on it counts.
LEMMA ResolveKeeps ==
  ASSUME ReviewBounds, ReviewInv, NEW r \in Reviewers, Q!Resolve(r)
  PROVE  ReviewInv'
<1> USE DEF ReviewInv
<1> DEFINE status == Q!StatusOf(rq[r].kind)
           new == [rq[r].incident EXCEPT !.status = status, !.resolution = rq[r].kind]
<1>1. rq[r].incident \in IncidentRows /\ incident \in IncidentRows
  BY DEF ReviewShapes
<1>2. /\ rq[r].pc = "incident" /\ rq[r].kind \in Q!Outcomes
      /\ incident' = Q!Columns(incident, rq[r].incident, new)
      /\ "done" \in {"sent", "done", "phone_event"} /\ rq' = [rq EXCEPT ![r].pc = "done"]
      /\ UNCHANGED <<theft, event, sentTwice, firstBy, crossed, phoned, recorded>>
      /\ given' = rq[r].kind /\ clean' = (incident = rq[r].incident /\ ~ Q!Pressing)
      /\ clean' \in BOOLEAN /\ sentTwice' \in BOOLEAN
  BY DEF Q!Resolve, Q!WriteIncident, Q!To, ReviewShapes
<1>3. status \in {"false_alarm", "resolved"}
  BY DEF Q!StatusOf
<1> HIDE DEF status
<1>4. /\ new \in IncidentRows /\ new.sender = rq[r].incident.sender
      /\ new.details = rq[r].incident.details
      /\ new.status = status /\ new.resolution = rq[r].kind
  BY <1>1, <1>2, <1>3 DEF IncidentRows
<1> HIDE DEF new
<1>5. /\ ReviewShapes' /\ FreshInv' /\ Q!FirstKept' /\ AskedInv' /\ OutcomeIs'
      /\ \A q \in Reviewers : /\ rq'[q].incident = rq[q].incident /\ rq'[q].kind = rq[q].kind
                              /\ rq'[q].pc = IF q = r THEN "done" ELSE rq[q].pc
  BY <1>2, <1>4, WrittenIncident
<1>6. /\ incident'.sender = incident.sender /\ incident'.details = incident.details
      /\ incident = rq[r].incident =>
           incident'.status = status /\ incident'.resolution = rq[r].kind
  BY <1>1, <1>2, <1>4, IncidentColumns
<1>7. OutcomeInv'
  BY <1>2, <1>5, <1>6 DEF OutcomeInv, Q!Pressing, status
<1>8. NamedInv'
  BY <1>2, <1>5, <1>6 DEF NamedInv, Names, HasSent, Q!Outcomes
<1>9. SendInv'
  BY <1>2, <1>5, <1>6 DEF SendInv
<1>10. Q!ReportBelongs'
  BY <1>2, <1>6 DEF Q!ReportBelongs
<1> QED BY <1>5, <1>7, <1>8, <1>9, <1>10

\* A request that writes columns of the history's row: they were the row's, or
\* requests have crossed.
LEMMA WrittenEvent ==
  ASSUME ReviewBounds, ReviewInv, NEW r \in Reviewers, NEW new \in EventRows, new.acked,
         Q!WriteEvent(r, new),
         NEW pc \in {"done", "refresh"}, rq' = [rq EXCEPT ![r].pc = pc],
         UNCHANGED <<theft, incident, given, clean, sentTwice>>, phoned' \in BOOLEAN,
         HasSent(r) => pc = "done"
  PROVE  /\ ReviewShapes' /\ OutcomeInv' /\ NamedInv' /\ SendInv' /\ Q!ReportBelongs' /\ FreshInv'
         /\ event'.acked
         /\ event'.meta = IF new.meta = rq[r].event.meta THEN event.meta ELSE new.meta
         /\ ~ crossed' => event = rq[r].event /\ event' = new
         /\ \A q \in Reviewers : /\ rq'[q].event = rq[q].event /\ rq'[q].kind = rq[q].kind
                                 /\ rq'[q].pc = IF q = r THEN pc ELSE rq[q].pc
<1> USE DEF ReviewInv
<1>1. rq[r] \in ReviewRequest /\ rq[r].event \in EventRows /\ event \in EventRows
  BY DEF ReviewShapes, ReviewRequest
<1> DEFINE s == [rq[r] EXCEPT !.pc = pc]
<1>2. s \in ReviewRequest /\ s.incident = rq[r].incident /\ s.event = rq[r].event /\ s.pc = pc /\ s.kind = rq[r].kind
  BY <1>1 DEF ReviewRequest, ReviewSteps
<1>3. rq' = [rq EXCEPT ![r] = s]
  OBVIOUS
<1> HIDE DEF s
<1>4. \A q \in Reviewers : rq'[q] = IF q = r THEN s ELSE rq[q]
  BY <1>3 DEF ReviewShapes
<1>5. /\ event' = Q!Columns(event, rq[r].event, new)
      /\ crossed' = (crossed \/ event # rq[r].event)
      /\ firstBy' = IF firstBy = Q!Nobody THEN r ELSE firstBy
  BY DEF Q!WriteEvent
<1> DEFINE c == Q!Columns(event, rq[r].event, new)
<1>6. /\ event' \in EventRows
      /\ event'.acked = IF new.acked = rq[r].event.acked THEN event.acked ELSE new.acked
      /\ event'.at = IF new.at = rq[r].event.at THEN event.at ELSE new.at
      /\ event'.meta = IF new.meta = rq[r].event.meta THEN event.meta ELSE new.meta
  <2>1. event' = c
    BY <1>5
  <2>2. /\ c \in EventRows
        /\ c.acked = IF new.acked = rq[r].event.acked THEN event.acked ELSE new.acked
        /\ c.at = IF new.at = rq[r].event.at THEN event.at ELSE new.at
        /\ c.meta = IF new.meta = rq[r].event.meta THEN event.meta ELSE new.meta
    BY <1>1 DEF Q!Columns, EventRows
  <2> HIDE DEF c
  <2> QED BY <2>1, <2>2, Zenon
<1>7. ReviewShapes'
  BY <1>2, <1>3, <1>5, <1>6 DEF ReviewShapes, ReviewRequest, Anyone
<1>8. event'.acked
  BY <1>1, <1>6 DEF FreshInv
<1>9. ~ crossed' => event = rq[r].event /\ event' = new
  <2> SUFFICES ASSUME ~ crossed' PROVE event = rq[r].event /\ event' = new
    OBVIOUS
  <2>1. event = rq[r].event
    BY <1>5
  <2>2. Q!Columns(event, event, new) = new
    BY <1>1 DEF Q!Columns, EventRows
  <2> QED BY <1>5, <2>1, <2>2
<1>10. OutcomeInv'
  BY <1>2, <1>4 DEF OutcomeInv, Q!Pressing
<1>11. NamedInv'
  BY <1>2, <1>4 DEF NamedInv, Names, HasSent
<1>12. SendInv' /\ Q!ReportBelongs'
  BY <1>2, <1>4 DEF SendInv, Q!ReportBelongs
<1>13. FreshInv'
  BY <1>4, <1>5, <1>8 DEF FreshInv, ReviewBounds
<1>14. \A q \in Reviewers : /\ rq'[q].event = rq[q].event /\ rq'[q].kind = rq[q].kind
                            /\ rq'[q].pc = IF q = r THEN pc ELSE rq[q].pc
  BY <1>2, <1>4
<1>15. event'.meta = IF new.meta = rq[r].event.meta THEN event.meta ELSE new.meta
  BY <1>6
<1> QED BY <1>7, <1>8, <1>9, <1>10, <1>11, <1>12, <1>13, <1>14, <1>15

\* The outcome of the history's row: it stands unless requests have crossed.
LEMMA RecordOutcomeKeeps ==
  ASSUME ReviewBounds, ReviewInv, NEW r \in Reviewers, Q!RecordOutcome(r)
  PROVE  ReviewInv'
<1> USE DEF ReviewInv
<1> DEFINE copy == rq[r].event
           said == [copy EXCEPT !.meta.outcome = rq[r].kind]
           by == IF copy.meta.by = Q!Nobody THEN r ELSE copy.meta.by
           signed == [said EXCEPT !.acked = TRUE, !.at = r, !.meta.by = IF @ = Q!Nobody THEN r ELSE @]
           new == IF copy.acked THEN said ELSE signed
           pc == IF rq[r].pc = "outcome" THEN "refresh" ELSE "done"
<1>1. rq[r] \in ReviewRequest /\ copy \in EventRows /\ event \in EventRows
  BY DEF ReviewShapes, ReviewRequest
<1>2. rq[r].pc \in {"outcome", "outcome_alone"} /\ rq[r].kind \in Q!Outcomes
  BY DEF Q!RecordOutcome, AskedInv
<1>3. /\ said \in EventRows /\ said.acked = copy.acked /\ said.at = copy.at
      /\ said.meta.by = copy.meta.by /\ said.meta.outcome = rq[r].kind
  BY <1>1, <1>2 DEF EventRows
<1> HIDE DEF said
<1>4. /\ signed \in EventRows /\ signed.acked /\ signed.at = r
      /\ signed.meta.by = by /\ signed.meta.outcome = rq[r].kind
  BY <1>1, <1>3 DEF EventRows, Anyone
<1> HIDE DEF signed, by
<1>13. /\ new \in EventRows /\ new.acked /\ new.meta.outcome = rq[r].kind
       /\ copy.acked => new.at = copy.at /\ new.meta.by = copy.meta.by
       /\ ~ copy.acked => new.at = r /\ new.meta.by = by
  BY <1>3, <1>4
<1>5. /\ Q!WriteEvent(r, new) /\ pc \in {"done", "refresh"} /\ rq' = [rq EXCEPT ![r].pc = pc]
      /\ UNCHANGED <<theft, incident, given, clean, sentTwice, phoned>> /\ phoned' \in BOOLEAN
      /\ recorded' = recorded \cup {<<r, rq[r].kind>>}
  BY DEF Q!RecordOutcome, Q!To, said, signed, ReviewShapes
<1>6. ~ HasSent(r)
  BY <1>2 DEF HasSent
<1> HIDE DEF new, pc
<1>7. /\ ReviewShapes' /\ OutcomeInv' /\ NamedInv' /\ SendInv' /\ Q!ReportBelongs' /\ FreshInv'
      /\ event'.acked
      /\ event'.meta = IF new.meta = copy.meta THEN event.meta ELSE new.meta
      /\ ~ crossed' => event = copy /\ event' = new
      /\ \A q \in Reviewers : /\ rq'[q].event = rq[q].event /\ rq'[q].kind = rq[q].kind
                              /\ rq'[q].pc = IF q = r THEN pc ELSE rq[q].pc
  <2>1. new \in EventRows /\ new.acked /\ Q!WriteEvent(r, new)
    BY <1>5, <1>13
  <2>2. pc \in {"done", "refresh"} /\ rq' = [rq EXCEPT ![r].pc = pc]
    BY <1>5
  <2>3. UNCHANGED <<theft, incident, given, clean, sentTwice>> /\ phoned' \in BOOLEAN
    BY <1>5
  <2>4. HasSent(r) => pc = "done"
    BY <1>6
  <2> HIDE DEF copy, ReviewInv
  <2> QED BY <2>1, <2>2, <2>3, <2>4, WrittenEvent DEF copy
<1>8. Q!FirstKept'
  <2> SUFFICES ASSUME ~ crossed' PROVE event'.at = firstBy' /\ event'.meta.by = firstBy'
    BY DEF Q!FirstKept
  <2>1. event = copy /\ event' = new /\ ~ crossed
    BY <1>5, <1>7 DEF Q!WriteEvent
  <2>2. firstBy' = IF firstBy = Q!Nobody THEN r ELSE firstBy
    BY <1>5 DEF Q!WriteEvent
  <2> QED BY <1>13, <2>1, <2>2, NoRowIs DEF Q!FirstKept, FreshInv, by
<1>9. ~ theft => copy.meta.outcome = Q!None /\ event'.meta.outcome = rq[r].kind /\ Q!None \notin Q!Outcomes
  BY <1>2, <1>7, <1>13 DEF AskedInv, Q!Outcomes, Q!None
<1>10. AskedInv'
  BY <1>5, <1>7 DEF AskedInv
<1>11. ~ theft /\ ~ crossed' => recorded = {}
  BY <1>5, <1>7, <1>9 DEF OutcomeIs, Q!WriteEvent
<1>12. OutcomeIs'
  BY <1>2, <1>5, <1>9, <1>11 DEF OutcomeIs
<1> QED BY <1>7, <1>8, <1>10, <1>12

\* A first acknowledgement without an outcome.
LEMMA StampKeeps ==
  ASSUME ReviewBounds, ReviewInv, NEW r \in Reviewers, Q!Stamp(r),
         rq[r].pc \in {"plain", "phone_event_read"}, rq' = [rq EXCEPT ![r].pc = "done"],
         UNCHANGED <<theft, incident, given, clean, sentTwice, recorded>>, phoned' \in BOOLEAN,
         phoned => phoned', rq[r].pc = "phone_event_read" => phoned'
  PROVE  ReviewInv'
<1> USE DEF ReviewInv
<1> DEFINE copy == rq[r].event
           new == [copy EXCEPT !.acked = TRUE, !.at = r, !.meta.by = r]
<1>1. rq[r] \in ReviewRequest /\ copy \in EventRows /\ event \in EventRows
  BY DEF ReviewShapes, ReviewRequest
<1>2. CASE copy.acked
  <2>1. UNCHANGED <<event, crossed, firstBy>>
    BY <1>2 DEF Q!Stamp, Q!IsFirst
  <2> DEFINE s == [rq[r] EXCEPT !.pc = "done"]
  <2>2. /\ s \in ReviewRequest /\ s.incident = rq[r].incident /\ s.event = copy /\ s.pc = "done"
        /\ s.kind = rq[r].kind
    BY <1>1 DEF ReviewRequest, ReviewSteps
  <2>3. rq' = [rq EXCEPT ![r] = s]
    OBVIOUS
  <2> HIDE DEF s
  <2>4. \A q \in Reviewers : rq'[q] = IF q = r THEN s ELSE rq[q]
    BY <2>3 DEF ReviewShapes
  <2>5. ReviewShapes'
    BY <2>1, <2>2, <2>3 DEF ReviewShapes, ReviewRequest
  <2>6. OutcomeInv'
    BY <2>2, <2>4 DEF OutcomeInv, Q!Pressing
  <2>7. NamedInv'
    BY <2>2, <2>4 DEF NamedInv, Names, HasSent
  <2>8. SendInv' /\ Q!ReportBelongs' /\ Q!FirstKept'
    BY <2>1, <2>2, <2>4 DEF SendInv, Q!ReportBelongs, Q!FirstKept
  <2>9. FreshInv' /\ AskedInv' /\ OutcomeIs'
    BY <2>1, <2>2, <2>4 DEF FreshInv, AskedInv, OutcomeIs
  <2> QED BY <2>5, <2>6, <2>7, <2>8, <2>9
<1>3. CASE ~ copy.acked
  <2>1. Q!WriteEvent(r, new) /\ ~ HasSent(r)
    BY <1>3 DEF Q!Stamp, Q!IsFirst, HasSent
  <2>2. /\ new \in EventRows /\ new.acked /\ new.at = r /\ new.meta.by = r
        /\ new.meta.outcome = copy.meta.outcome
    BY <1>1 DEF EventRows, Anyone
  <2> HIDE DEF new
  <2>3. /\ ReviewShapes' /\ OutcomeInv' /\ NamedInv' /\ SendInv' /\ Q!ReportBelongs' /\ FreshInv'
        /\ event'.acked
        /\ ~ crossed' => event = copy /\ event' = new
        /\ \A q \in Reviewers : /\ rq'[q].event = rq[q].event /\ rq'[q].kind = rq[q].kind
                                /\ rq'[q].pc = IF q = r THEN "done" ELSE rq[q].pc
    BY <2>1, <2>2, WrittenEvent
  <2>4. Q!FirstKept'
    BY <1>3, <2>1, <2>2, <2>3 DEF Q!FirstKept, FreshInv, Q!WriteEvent
  <2>5. AskedInv'
    BY <2>3 DEF AskedInv
  <2>6. OutcomeIs'
    BY <1>3, <2>3 DEF OutcomeIs, AskedInv, FreshInv
  <2> QED BY <2>3, <2>4, <2>5, <2>6
<1> QED BY <1>2, <1>3

\* The acknowledgement that says no outcome.
LEMMA PlainKeeps ==
  ASSUME ReviewBounds, ReviewInv, NEW r \in Reviewers, Q!Plain(r)
  PROVE  ReviewInv'
BY StampKeeps DEF Q!Plain, Q!To, ReviewInv, ReviewShapes

\* The one of a phone.
LEMMA ButtonEventKeeps ==
  ASSUME ReviewBounds, ReviewInv, NEW r \in Reviewers, Q!ButtonEvent(r)
  PROVE  ReviewInv'
BY StampKeeps DEF Q!ButtonEvent, Q!To, ReviewInv, ReviewShapes

\* Every step of a request keeps the invariant.
LEMMA ReviewNext == ReviewBounds => (ReviewInv /\ [Q!Next]_(Q!vars) => ReviewInv')
<1> SUFFICES ASSUME ReviewBounds, ReviewInv, [Q!Next]_(Q!vars) PROVE ReviewInv'
  OBVIOUS
<1>1. CASE UNCHANGED Q!vars
  BY <1>1 DEF Q!vars, Q!ghosts, ReviewInv, ReviewShapes, OutcomeInv, Q!Pressing, NamedInv, Names,
     HasSent, SendInv, Q!ReportBelongs, FreshInv, Q!FirstKept, AskedInv, OutcomeIs
<1>2. CASE Q!Next
  <2>1. PICK r \in Reviewers :
          \/ Q!Ask(r) \/ Q!Acknowledge(r) \/ Q!Send(r) \/ Q!Refresh(r) \/ Q!Report(r) \/ Q!Resolve(r)
          \/ Q!See(r) \/ Q!SeeWith(r) \/ Q!RecordOutcome(r) \/ Q!RefreshEvent(r) \/ Q!Plain(r)
          \/ Q!Button(r) \/ Q!ButtonReads(r) \/ Q!ButtonReadsEvent(r) \/ Q!ButtonEvent(r)
    BY <1>2 DEF Q!Next
  <2> QED
    BY <2>1, ReviewAskKeeps, AcknowledgeKeeps, SendKeeps, RefreshKeeps, ReportKeeps, ResolveKeeps,
       SeeKeeps, SeeWithKeeps, RecordOutcomeKeeps, RefreshEventKeeps, PlainKeeps, ButtonKeeps,
       ButtonReadsKeeps, ButtonReadsEventKeeps, ButtonEventKeeps
<1> QED BY <1>1, <1>2

\* The invariant says what people said, and that the rows keep to their sets.
LEMMA ReviewSafe == ReviewInv => Q!ReviewSound /\ Q!TypeOK
<1> SUFFICES ASSUME ReviewInv PROVE Q!ReviewSound /\ Q!TypeOK
  OBVIOUS
<1> USE DEF ReviewInv
<1>1. Q!OutcomeCounts
  BY DEF OutcomeInv, Q!OutcomeCounts, Q!Review, Q!StatusOf, Q!Outcomes
<1>2. Q!OutcomeKept
  BY DEF OutcomeIs, Q!OutcomeKept
<1>3. Q!TypeOK
  BY DEF Q!TypeOK, ReviewShapes, IncidentRows, EventRows, Anyone
<1> QED BY <1>1, <1>2, <1>3 DEF Q!ReviewSound

\* What people said about an alert stays as they said it unless their requests
\* crossed, for every number of requests (routes/theft.py, routes/events.py).
THEOREM ReviewHolds == ReviewBounds => (Q!Spec => []Q!ReviewSound)
<1> SUFFICES ASSUME ReviewBounds PROVE Q!Spec => []Q!ReviewSound
  OBVIOUS
<1>1. Q!Init => ReviewInv
  BY ReviewInit
<1>2. ReviewInv /\ [Q!Next]_(Q!vars) => ReviewInv'
  BY ReviewNext
<1>3. ReviewInv => Q!ReviewSound
  BY ReviewSafe
<1> QED BY <1>1, <1>2, <1>3, PTL DEF Q!Spec

-------------------------------------------------------------------------------
(* InsightTopics: any findings, any likeness, any requests.                 *)

\* A set of numbers has a least one.
LEMMA LeastIs ==
  ASSUME NEW X \in SUBSET Nat, X # {}
  PROVE  \E x \in X : \A y \in X : x <= y
<1> DEFINE less == OpToRel(<, Nat)
<1>1. IsWellFoundedOn(less, Nat)
  BY NatLessThanWellFounded, Zenon
<1>2. less = {ss \in Nat \X Nat : ss[1] < ss[2]}
  BY DEF OpToRel
<1> HIDE DEF less
<1>3. \E x \in X : \A y \in X : ~ (<<y, x>> \in less)
  BY <1>1, WFMin
<1>4. \A x, y \in Nat : y < x => <<y, x>> \in less
  BY <1>2
<1>5. PICK x \in X : \A y \in X : ~ (<<y, x>> \in less)
  BY <1>3
<1>6. \A y \in X : ~ (y < x)
  BY <1>4, <1>5
<1>7. \A y \in X : x <= y
  BY <1>6
<1> QED BY <1>7

TopicBounds ==
  /\ MaxTopics \in Nat \ {0} /\ LastDay \in Nat \ {0} /\ MaxAnalyses \in Nat
  /\ MaxTopicAsks \in Nat
  /\ {I!Split, "none", "gone"} \cap I!Keys = {}

\* A finding is in a topic only while it is there, and the grouping puts it into one.
TopicShapes ==
  /\ I!TypeOK
  /\ \A f \in I!Findings : /\ finding[f].day <= today
                           /\ finding[f].day = 0 => finding[f].topic = 0
                           /\ finding[f].by = "sync" => finding[f].topic # 0
  /\ \A t \in I!Topics : topic[t].key = "none" => owes[t] = {}

\* The topic a request read is that one still, or gone; what its copy took in the
\* topic has, or is known to have lost.
CopyInv ==
  \A r \in Operators : tq[r].kind # "none" =>
    /\ tq[r].copy.key \notin {"none", "gone"}
    /\ topic[tq[r].topic].key \in {tq[r].copy.key, "gone"}
    /\ topic[tq[r].topic].key # "gone" => tq[r].copy.alias \subseteq topic[tq[r].topic].alias \cup loose

OwesInv == \A t \in I!Live : owes[t] \ loose \subseteq I!Answers(t)
SplitInv == \A t \in I!Live : topic[t].key = I!Split => topic[t].alias \subseteq loose
UniqueInv == \A t, u \in I!Matchable : t # u => I!Answers(t) \cap I!Answers(u) \subseteq loose

TopicInv ==
  /\ TopicShapes /\ CopyInv /\ OwesInv /\ SplitInv /\ UniqueInv
  /\ I!Grouped /\ I!StaysSplit /\ I!OpensAgain

\* A new row.
LEMMA UnusedIs ==
  TopicBounds =>
  /\ \A k \in I!Keys \cup {I!Split, "none", "gone"} :
       /\ I!NewTopic(k) \in I!TopicRow /\ I!NewTopic(k).key = k /\ I!NewTopic(k).alias = {}
       /\ I!NewTopic(k).status = "open"
  /\ I!Unused = I!NewTopic("none") /\ I!Gone = I!NewTopic("gone")
BY DEF I!NewTopic, I!TopicRow, I!Unused, I!Gone, I!Statuses, TopicBounds

\* The next row is one that was never used.
LEMMA FreshIs ==
  ASSUME I!HasRoom, MaxTopics \in Nat
  PROVE  I!Fresh \in I!Topics /\ topic[I!Fresh].key = "none"
<1> DEFINE X == {t \in I!Topics : topic[t].key = "none"}
<1>1. X \in SUBSET Nat /\ X # {}
  BY DEF I!HasRoom, I!Topics
<1> HIDE DEF X
<1>2. \E x \in X : \A y \in X : x <= y
  BY <1>1, LeastIs
<1>3. I!Min(X) \in X
  BY <1>2 DEF I!Min
<1>4. I!Fresh = I!Min(X)
  BY DEF I!Fresh, X
<1> QED BY <1>3, <1>4 DEF X

\* No findings, no topics.
LEMMA TopicInit == TopicBounds => (I!Init => TopicInv)
<1> SUFFICES ASSUME TopicBounds, I!Init PROVE TopicInv
  OBVIOUS
<1>1. /\ \A t \in I!Topics : topic[t] = I!Unused /\ owes[t] = {}
      /\ \A f \in I!Findings : finding[f] = I!NotFound
      /\ \A r \in Operators : tq[r].kind = "none"
  BY DEF I!Init, I!NoRequest
<1>2. I!NotFound.day = 0 /\ I!NotFound.topic = 0 /\ I!NotFound.by = "none"
  BY DEF I!NotFound
<1>3. I!TypeOK
  <2>1. I!Unused \in I!TopicRow /\ 1 \in I!Topics
    BY UnusedIs DEF TopicBounds, I!NewTopic, I!TopicRow, I!Unused, I!Statuses, I!Topics
  <2>2. I!NoRequest \in [kind : I!Statuses \cup {"split", "merge", "none"}, topic : I!Topics,
                       other : 0..MaxTopics \cup I!Findings, copy : I!TopicRow]
    BY <2>1 DEF I!NoRequest, TopicBounds
  <2>3. I!NotFound \in [day : 0..LastDay, topic : 0..MaxTopics, by : {"none", "sync", "hand"}]
    BY DEF I!NotFound, TopicBounds
  <2> QED BY <2>1, <2>2, <2>3 DEF I!TypeOK, I!Init, TopicBounds
<1>4. \A t \in I!Topics : topic[t].key = "none"
  BY <1>1 DEF I!Unused, I!NewTopic
<1>5. TopicShapes
  BY <1>1, <1>2, <1>3 DEF TopicShapes, I!TypeOK
<1>6. I!Live = {} /\ I!Matchable = {} /\ I!Made = {}
  BY <1>1, <1>2, <1>4 DEF I!Live, I!Matchable, I!Made
<1> QED BY <1>1, <1>5, <1>6
        DEF TopicInv, CopyInv, OwesInv, SplitInv, UniqueInv, I!Grouped, I!StaysSplit, I!OpensAgain

\* A step that changes neither the findings nor the topics, and asks nothing new.
LEMMA QuietKeeps ==
  ASSUME TopicBounds, TopicInv, UNCHANGED <<finding, topic, owes, loose>>, I!TypeOK', today <= today',
         \A r \in Operators : \/ tq'[r] = tq[r] \/ tq'[r].kind = "none"
                              \/ tq'[r].topic \in I!Live /\ tq'[r].copy = topic[tq'[r].topic]
  PROVE  TopicInv'
<1> USE DEF TopicInv
<1>1. finding' = finding /\ topic' = topic /\ owes' = owes /\ loose' = loose
  OBVIOUS
<1>2. TopicShapes'
  BY <1>1 DEF TopicShapes, I!TypeOK
<1>3. CopyInv'
  BY <1>1 DEF CopyInv, I!Live
<1>4. I!Live' = I!Live /\ I!Matchable' = I!Matchable /\ I!Made' = I!Made /\ \A t \in I!Topics : I!Answers(t)' = I!Answers(t)
  BY <1>1 DEF I!Live, I!Matchable, I!Made, I!Answers
<1>5. OwesInv' /\ SplitInv' /\ UniqueInv'
  BY <1>1, <1>4 DEF OwesInv, SplitInv, UniqueInv, I!Matchable, I!Live
<1>6. I!Grouped' /\ I!StaysSplit' /\ I!OpensAgain'
  BY <1>1, <1>4 DEF I!Grouped, I!StaysSplit, I!OpensAgain
<1> QED BY <1>2, <1>3, <1>5, <1>6

\* The day turns; a grouping begins, or fails.
LEMMA QuietStepsKeep ==
  ASSUME TopicBounds, TopicInv, I!NextDay \/ I!SyncBegin \/ I!SyncFails
  PROVE  TopicInv'
<1>1. /\ UNCHANGED <<finding, topic, owes, loose, tq, analyses, asked>>
      /\ today' \in {today, today + 1}
      /\ today' # today => today < LastDay
      /\ sync' \in {"idle", "assign", "tidy"}
  BY DEF I!NextDay, I!SyncBegin, I!SyncFails, TopicInv, TopicShapes, I!TypeOK
<1>2. I!TypeOK' /\ today <= today'
  BY <1>1 DEF TopicInv, TopicShapes, I!TypeOK, TopicBounds
<1> QED BY <1>1, <1>2, QuietKeeps

\* A request reads its topic.
LEMMA TopicAskKeeps ==
  ASSUME TopicBounds, TopicInv, NEW r \in Operators, I!Ask(r)
  PROVE  TopicInv'
<1> USE DEF TopicInv
<1>1. PICK t \in I!Topics, want \in I!Statuses \cup {"split", "merge"}, other \in 0..MaxTopics \cup I!Findings :
        I!Read(r, want, t, other)
  <2>1. PICK u \in I!Topics :
          \/ \E s \in I!Statuses \cap TopicKinds : I!Read(r, s, u, 0)
          \/ "split" \in TopicKinds /\ \E f \in I!Members(u) : I!Read(r, "split", u, f)
          \/ "merge" \in TopicKinds /\ \E o \in I!Live \ {u} : I!Read(r, "merge", u, o)
    BY DEF I!Ask
  <2>2. \A f \in I!Members(u) : f \in I!Findings
    BY DEF I!Members, I!Made
  <2>3. 0 \in 0..MaxTopics /\ \A o \in I!Live : o \in 0..MaxTopics
    BY DEF I!Live, I!Topics, TopicBounds
  <2> QED BY <2>1, <2>2, <2>3
<1> DEFINE q == [kind |-> want, topic |-> t, other |-> other, copy |-> topic[t]]
<1>2. /\ UNCHANGED <<finding, topic, owes, loose, today, analyses, sync>> /\ t \in I!Live
      /\ tq' = [tq EXCEPT ![r] = q] /\ asked' = asked + 1 /\ asked < MaxTopicAsks
  BY <1>1 DEF I!Read
<1>3. /\ q \in [kind : I!Statuses \cup {"split", "merge", "none"}, topic : I!Topics,
               other : 0..MaxTopics \cup I!Findings, copy : I!TopicRow]
      /\ q.kind # "none" /\ q.topic = t /\ q.copy = topic[t]
  BY DEF TopicShapes, I!TypeOK, I!Statuses
<1> HIDE DEF q
<1>4. \A p \in Operators : tq'[p] = IF p = r THEN q ELSE tq[p]
  BY <1>2 DEF TopicShapes, I!TypeOK
<1>5. I!TypeOK' /\ today <= today'
  BY <1>2, <1>3 DEF TopicShapes, I!TypeOK, TopicBounds
<1> QED BY <1>2, <1>3, <1>4, <1>5, QuietKeeps

\* A request that is served is asked no more.
LEMMA ServeIs ==
  ASSUME TopicBounds, TopicInv, NEW r \in Operators, I!Serve(r)
  PROVE  /\ tq[r].kind # "none" /\ UNCHANGED <<today, analyses, sync, asked>>
         /\ tq' \in [Operators -> [kind : I!Statuses \cup {"split", "merge", "none"}, topic : I!Topics,
                                   other : 0..MaxTopics \cup I!Findings, copy : I!TopicRow]]
         /\ \A p \in Operators : tq'[p].kind # "none" => p # r /\ tq'[p] = tq[p]
         /\ tq[r].topic \in I!Topics /\ tq[r].copy \in I!TopicRow
         /\ topic[tq[r].topic].key \in {tq[r].copy.key, "gone"}
         /\ tq[r].copy.key \notin {"none", "gone"}
<1> USE DEF TopicInv
<1>1. tq' = [tq EXCEPT ![r] = I!NoRequest] /\ tq[r].kind # "none" /\ UNCHANGED <<today, analyses, sync, asked>>
  BY DEF I!Serve
<1>2. I!NoRequest.kind = "none" /\ I!NoRequest \in [kind : I!Statuses \cup {"split", "merge", "none"}, topic : I!Topics,
                                   other : 0..MaxTopics \cup I!Findings, copy : I!TopicRow]
  <2>1. I!Unused \in I!TopicRow /\ 1 \in I!Topics
    BY DEF TopicBounds, I!NewTopic, I!TopicRow, I!Unused, I!Statuses, I!Topics
  <2> QED BY <2>1 DEF I!NoRequest, TopicBounds
<1> QED BY <1>1, <1>2 DEF CopyInv, TopicShapes, I!TypeOK

\* A request whose topic is gone changes nothing.
LEMMA RefusedKeeps ==
  ASSUME TopicBounds, TopicInv, NEW r \in Operators, I!Refused(r)
  PROVE  TopicInv'
<1>1. UNCHANGED <<finding, topic, owes, loose>> /\ I!Serve(r)
  BY DEF I!Refused
<1>2. I!TypeOK' /\ today <= today'
  BY <1>1, ServeIs DEF TopicInv, TopicShapes, I!TypeOK
<1> QED BY <1>1, <1>2, ServeIs, QuietKeeps

\* An analysis replaces the findings of today (_persist).
LEMMA PersistKeeps ==
  ASSUME TopicBounds, TopicInv, NEW holds \in SUBSET I!Findings, I!Persist(holds)
  PROVE  TopicInv'
<1> USE DEF TopicInv
<1> DEFINE new == [day |-> today, topic |-> 0, by |-> "none"]
           Row == [day : 0..LastDay, topic : 0..MaxTopics, by : {"none", "sync", "hand"}]
<1>1. /\ topic' = topic /\ owes' = owes /\ loose' = loose /\ today' = today /\ sync' = sync
      /\ tq' = tq /\ asked' = asked
      /\ analyses' \in 0..MaxAnalyses
      /\ finding' = [f \in I!Findings |->
                   IF finding[f].day = 0 /\ f \in holds THEN new
                   ELSE IF finding[f].day = today /\ f \notin holds THEN I!NotFound
                   ELSE finding[f]]
  BY DEF I!Persist, TopicShapes, I!TypeOK, TopicBounds
<1>2. /\ new \in Row /\ new.day = today /\ new.topic = 0 /\ new.by = "none"
      /\ I!NotFound \in Row /\ I!NotFound.day = 0 /\ I!NotFound.topic = 0
      /\ I!NotFound.by = "none"
  BY DEF I!NotFound, TopicShapes, I!TypeOK, TopicBounds
<1>3. \A f \in I!Findings : finding'[f] \in {new, I!NotFound, finding[f]}
  BY <1>1
<1>4. finding' \in [I!Findings -> Row]
  BY <1>1, <1>2 DEF TopicShapes, I!TypeOK
<1> HIDE DEF new
<1>5. TopicShapes'
  BY <1>1, <1>2, <1>3, <1>4 DEF TopicShapes, I!TypeOK, TopicBounds
<1>6. I!Live' = I!Live /\ I!Matchable' = I!Matchable /\ \A t \in I!Topics : I!Answers(t)' = I!Answers(t)
  BY <1>1 DEF I!Live, I!Matchable, I!Answers
<1>7. CopyInv' /\ OwesInv' /\ SplitInv' /\ UniqueInv'
  BY <1>1, <1>6 DEF CopyInv, OwesInv, SplitInv, UniqueInv, I!Matchable, I!Live
<1>8. I!Grouped' /\ I!StaysSplit' /\ I!OpensAgain'
  BY <1>1, <1>2, <1>3, <1>6 DEF I!Grouped, I!StaysSplit, I!OpensAgain, I!Made
<1> QED BY <1>5, <1>7, <1>8

\* A topic is begun: its row was never used, so that nobody has read it.
LEMMA BegunIs ==
  ASSUME TopicBounds, TopicInv, NEW t \in I!Topics, topic[t].key = "none", NEW k \in I!Keys \cup {I!Split},
         topic' = [topic EXCEPT ![t] = I!NewTopic(k)], loose' = loose, owes' = owes,
         \A r \in Operators : tq'[r].kind # "none" => tq'[r] = tq[r],
         k = I!Split \/ \A u \in I!Matchable : k \notin I!Answers(u)
  PROVE  /\ topic' \in [I!Topics -> I!TopicRow] /\ topic'[t].key = k /\ topic'[t].status = "open"
         /\ \A u \in I!Topics \ {t} : topic'[u] = topic[u]
         /\ t \notin I!Live /\ I!Live' = I!Live \cup {t}
         /\ CopyInv' /\ OwesInv' /\ SplitInv' /\ UniqueInv'
<1> USE DEF TopicInv
<1>1. /\ I!NewTopic(k) \in I!TopicRow /\ I!NewTopic(k).key = k /\ I!NewTopic(k).alias = {}
      /\ I!NewTopic(k).status = "open"
  BY UnusedIs
<1>2. /\ topic' \in [I!Topics -> I!TopicRow] /\ topic'[t] = I!NewTopic(k)
      /\ \A u \in I!Topics \ {t} : topic'[u] = topic[u]
  BY <1>1 DEF TopicShapes, I!TypeOK
<1>3. k \notin {"none", "gone"}
  BY DEF TopicBounds, I!Split
<1>4. t \notin I!Live /\ I!Live' = I!Live \cup {t}
  BY <1>1, <1>2, <1>3 DEF I!Live
<1>5. CopyInv'
  <2> SUFFICES ASSUME NEW r \in Operators, tq'[r].kind # "none"
               PROVE  /\ tq'[r].copy.key \notin {"none", "gone"}
                      /\ topic'[tq'[r].topic].key \in {tq'[r].copy.key, "gone"}
                      /\ topic'[tq'[r].topic].key # "gone" =>
                           tq'[r].copy.alias \subseteq topic'[tq'[r].topic].alias \cup loose'
    BY DEF CopyInv
  <2>1. tq'[r] = tq[r] /\ tq[r].topic \in I!Topics /\ tq[r].topic # t
    BY DEF CopyInv, TopicShapes, I!TypeOK
  <2> QED BY <1>2, <2>1 DEF CopyInv
<1>6. OwesInv'
  BY <1>2, <1>4 DEF OwesInv, TopicShapes, I!Answers, I!Live
<1>7. SplitInv'
  BY <1>1, <1>2, <1>4 DEF SplitInv, I!Live
<1>8. UniqueInv'
  <2>1. \A u \in I!Matchable' : u = t \/ u \in I!Matchable
    BY <1>2, <1>4 DEF I!Matchable
  <2>2. \A u \in I!Topics \ {t} : I!Answers(u)' = I!Answers(u)
    BY <1>2 DEF I!Answers
  <2>3. I!Answers(t)' = {k}
    BY <1>1, <1>2 DEF I!Answers
  <2>4. t \in I!Matchable' => k # I!Split
    BY <1>1, <1>2 DEF I!Matchable
  <2>5. \A u \in I!Matchable : u \in I!Topics \ {t}
    BY <1>4 DEF I!Matchable, I!Live
  <2> QED BY <2>1, <2>2, <2>3, <2>4, <2>5 DEF UniqueInv
<1> QED BY <1>1, <1>2, <1>4, <1>5, <1>6, <1>7, <1>8

\* A finding joins a topic.
LEMMA JoinKeeps ==
  ASSUME TopicBounds, TopicInv, NEW f \in I!Unassigned, NEW t \in I!Matchable, NEW new \in SUBSET I!Keys,
         \A u \in I!Matchable : I!Answers(u) \cap new = {},
         I!Join(f, t, new), UNCHANGED <<today, analyses, tq, asked, owes, loose>>, sync' \in {"tidy", "assign"}
  PROVE  TopicInv'
<1> USE DEF TopicInv
<1> DEFINE st == IF topic[t].status = "resolved" /\ I!IsLater(f, t) THEN "open" ELSE topic[t].status
           rec == [topic[t] EXCEPT !.alias = topic[t].alias \cup new, !.status = st]
           moved == [finding[f] EXCEPT !.topic = t, !.by = "sync"]
           Row == [day : 0..LastDay, topic : 0..MaxTopics, by : {"none", "sync", "hand"}]
<1>1. /\ t \in I!Topics /\ t \in I!Live /\ topic[t] \in I!TopicRow
      /\ topic[t].key \notin {I!Split, "none", "gone"}
      /\ f \in I!Findings /\ finding[f] \in Row /\ finding[f].day > 0 /\ finding[f].topic = 0
      /\ t \in 0..MaxTopics /\ t # 0
  BY DEF I!Matchable, I!Live, I!Unassigned, I!Made, TopicShapes, I!TypeOK, I!Topics, TopicBounds
<1>2. /\ st \in I!Statuses /\ (st = "resolved" => topic[t].status = "resolved" /\ ~ I!IsLater(f, t))
  BY <1>1 DEF I!TopicRow, I!Statuses
<1>3. topic' = [topic EXCEPT ![t] = rec] /\ finding' = [finding EXCEPT ![f] = moved]
  BY <1>1 DEF I!Join, TopicShapes, I!TypeOK, I!TopicRow
<1> HIDE DEF st
<1>4. /\ rec \in I!TopicRow /\ rec.key = topic[t].key /\ rec.alias = topic[t].alias \cup new
      /\ rec.status = st /\ rec.resolvedOn = topic[t].resolvedOn
  BY <1>1, <1>2 DEF I!TopicRow
<1>5. moved \in Row /\ moved.day = finding[f].day /\ moved.topic = t /\ moved.by = "sync"
  BY <1>1
<1> HIDE DEF rec, moved
<1>6. /\ topic' \in [I!Topics -> I!TopicRow] /\ finding' \in [I!Findings -> Row]
      /\ \A u \in I!Topics : topic'[u] = IF u = t THEN rec ELSE topic[u]
      /\ \A g \in I!Findings : finding'[g] = IF g = f THEN moved ELSE finding[g]
  BY <1>1, <1>3, <1>4, <1>5 DEF TopicShapes, I!TypeOK
<1>7. /\ \A u \in I!Topics : topic'[u].key = topic[u].key
      /\ today' = today /\ analyses' = analyses /\ tq' = tq /\ asked' = asked /\ owes' = owes
      /\ loose' = loose
  BY <1>4, <1>6
<1>8. I!Live' = I!Live /\ I!Matchable' = I!Matchable
  BY <1>7 DEF I!Live, I!Matchable
<1>17. I!TypeOK'
  BY <1>6, <1>7 DEF TopicShapes, I!TypeOK
<1>18. TopicShapes'
  <2>1. \A g \in I!Findings : /\ finding'[g].day <= today'
                              /\ finding'[g].day = 0 => finding'[g].topic = 0
                              /\ finding'[g].by = "sync" => finding'[g].topic # 0
    BY <1>1, <1>5, <1>6, <1>7 DEF TopicShapes
  <2>2. \A u \in I!Topics : topic'[u].key = "none" => owes'[u] = {}
    BY <1>7 DEF TopicShapes
  <2> QED BY <1>17, <2>1, <2>2 DEF TopicShapes
<1>9. CopyInv'
  BY <1>4, <1>6 DEF CopyInv, TopicShapes, I!TypeOK
<1>10. \A u \in I!Topics : I!Answers(u)' = I!Answers(u) \cup (IF u = t THEN new ELSE {})
  BY <1>4, <1>6 DEF I!Answers
<1>11. OwesInv'
  BY <1>8, <1>10 DEF OwesInv, I!Live
<1>12. SplitInv'
  BY <1>1, <1>4, <1>6, <1>8 DEF SplitInv, I!Live
<1>13. UniqueInv'
  <2> SUFFICES ASSUME NEW u \in I!Matchable, NEW w \in I!Matchable, u # w
               PROVE  I!Answers(u)' \cap I!Answers(w)' \subseteq loose
    BY <1>8 DEF UniqueInv
  <2>1. u \in I!Topics /\ w \in I!Topics
    BY DEF I!Matchable, I!Live
  <2> QED BY <1>10, <2>1 DEF UniqueInv
<1>14. I!Made' = I!Made
  BY <1>5, <1>6 DEF I!Made
<1>15. I!Grouped' /\ I!StaysSplit'
  <2>1. \A g \in I!Made : finding'[g].topic = IF g = f THEN t ELSE finding[g].topic
    BY <1>5, <1>6 DEF I!Made
  <2>2. \A g \in I!Made : g # f => finding'[g].by = finding[g].by
    BY <1>6 DEF I!Made
  <2>3. \A g \in I!Made : finding'[g].topic # 0 => finding'[g].topic \in I!Live
    BY <1>1, <2>1 DEF I!Grouped
  <2>4. I!Live \subseteq I!Topics
    BY DEF I!Live
  <2> QED BY <1>1, <1>7, <1>8, <1>14, <2>1, <2>2, <2>3, <2>4 DEF I!Grouped, I!StaysSplit
<1>16. I!OpensAgain'
  <2> SUFFICES ASSUME NEW g \in I!Made, finding'[g].by = "sync", topic'[finding'[g].topic].status = "resolved"
               PROVE  finding'[g].day <= topic'[finding'[g].topic].resolvedOn
    BY <1>14 DEF I!OpensAgain
  <2>1. g \in I!Findings
    BY DEF I!Made
  <2>2. CASE g = f
    BY <1>1, <1>2, <1>4, <1>5, <1>6, <2>2 DEF I!IsLater, I!TopicRow
  <2>3. CASE g # f
    <3>1. finding'[g] = finding[g] /\ finding[g].topic \in I!Topics
      BY <1>6, <2>1, <2>3 DEF TopicShapes, I!TypeOK, I!Topics
    <3>2. topic[finding[g].topic].status = "resolved"
      BY <1>2, <1>4, <1>6, <3>1
    <3>3. topic'[finding[g].topic].resolvedOn = topic[finding[g].topic].resolvedOn
      BY <1>4, <1>6, <3>1
    <3> QED BY <3>1, <3>2, <3>3 DEF I!OpensAgain
  <2> QED BY <2>2, <2>3
<1> QED BY <1>9, <1>11, <1>12, <1>13, <1>15, <1>16, <1>18

\* A finding joins a topic with its key, one with its wording, or begins one (_sync).
LEMMA AssignKeeps ==
  ASSUME TopicBounds, TopicInv, NEW f \in I!Findings, I!Assign(f)
  PROVE  TopicInv'
<1> USE DEF TopicInv
<1>1. /\ f \in I!Unassigned /\ UNCHANGED <<today, analyses, tq, asked, owes, loose>>
      /\ sync' \in {"tidy", "assign"} /\ KeyOf[f] \in I!Keys
  BY DEF I!Assign, I!Oldest, I!Keys
<1>2. CASE I!JoinExact(f)
  <2>1. PICK t \in I!Matchable : I!Join(f, t, {})
    BY <1>2 DEF I!JoinExact, I!Newest, I!Exact
  <2> QED BY <1>1, <2>1, JoinKeeps
<1>3. CASE I!JoinSimilar(f)
  <2>1. PICK t \in I!Matchable : I!Join(f, t, {KeyOf[f]})
    BY <1>3 DEF I!JoinSimilar
  <2>2. \A u \in I!Matchable : I!Answers(u) \cap {KeyOf[f]} = {}
    BY <1>3 DEF I!JoinSimilar, I!Exact
  <2> QED BY <1>1, <2>1, <2>2, JoinKeeps
<1>4. CASE I!BeginTopic(f)
  <2> DEFINE t == I!Fresh
             k == KeyOf[f]
             moved == [finding[f] EXCEPT !.topic = t, !.by = "sync"]
             Row == [day : 0..LastDay, topic : 0..MaxTopics, by : {"none", "sync", "hand"}]
  <2>1. /\ t \in I!Topics /\ topic[t].key = "none"
    BY <1>4, FreshIs DEF I!BeginTopic, TopicBounds
  <2>2. /\ topic' = [topic EXCEPT ![t] = I!NewTopic(k)]
        /\ \A u \in I!Matchable : k \notin I!Answers(u)
        /\ finding' = [finding EXCEPT ![f].topic = t, ![f].by = "sync"]
    BY <1>4 DEF I!BeginTopic, I!Exact
  <2> HIDE DEF t, k
  <2>3. k \in I!Keys \cup {I!Split} /\ k # I!Split
    BY <1>1 DEF k, TopicBounds
  <2>4. /\ topic' \in [I!Topics -> I!TopicRow] /\ topic'[t].key = k /\ topic'[t].status = "open"
        /\ \A u \in I!Topics \ {t} : topic'[u] = topic[u]
        /\ t \notin I!Live /\ I!Live' = I!Live \cup {t}
        /\ CopyInv' /\ OwesInv' /\ SplitInv' /\ UniqueInv'
    BY <1>1, <2>1, <2>2, <2>3, BegunIs
  <2>5. /\ f \in I!Findings /\ finding[f] \in Row /\ finding[f].day > 0 /\ t \in 0..MaxTopics
        /\ t # 0
    BY <1>1, <2>1 DEF I!Unassigned, I!Made, TopicShapes, I!TypeOK, I!Topics, TopicBounds
  <2>6. /\ moved \in Row /\ moved.day = finding[f].day /\ moved.topic = t /\ moved.by = "sync"
        /\ finding' = [finding EXCEPT ![f] = moved]
    BY <2>2, <2>5
  <2> HIDE DEF moved
  <2>7. /\ finding' \in [I!Findings -> Row]
        /\ \A g \in I!Findings : finding'[g] = IF g = f THEN moved ELSE finding[g]
    BY <2>6 DEF TopicShapes, I!TypeOK
  <2>8. TopicShapes'
    <3>1. \A u \in I!Topics : topic'[u].key = "none" => owes[u] = {}
      BY <2>3, <2>4 DEF TopicShapes, TopicBounds
    <3> QED BY <1>1, <2>4, <2>5, <2>6, <2>7, <3>1 DEF TopicShapes, I!TypeOK
  <2>9. I!Made' = I!Made
    BY <2>6, <2>7 DEF I!Made
  <2>10. \A g \in I!Made : g # f /\ finding[g].topic # 0 => finding[g].topic \in I!Topics \ {t}
    BY <2>4 DEF I!Grouped, I!Live
  <2>11. I!Grouped' /\ I!StaysSplit'
    BY <2>3, <2>4, <2>6, <2>7, <2>9, <2>10 DEF I!Grouped, I!StaysSplit, I!Made
  <2>12. I!OpensAgain'
    BY <2>4, <2>6, <2>7, <2>9, <2>10 DEF I!OpensAgain, I!Made, TopicShapes
  <2> QED BY <2>4, <2>8, <2>11, <2>12
<1> QED BY <1>2, <1>3, <1>4 DEF I!Assign

\* Topics without findings go; nobody is left in one (prune_orphans, wake_snoozed).
LEMMA TidyKeeps ==
  ASSUME TopicBounds, TopicInv, I!Tidy
  PROVE  TopicInv'
<1> USE DEF TopicInv
<1>1. /\ sync' = "idle" /\ today' = today /\ analyses' = analyses /\ finding' = finding
      /\ tq' = tq
      /\ asked' = asked /\ owes' = owes /\ loose' = loose
  BY DEF I!Tidy
<1>2. PICK woken \in SUBSET {t \in I!Live : topic[t].status = "snoozed"} : topic' = I!Tidied(woken)
  BY DEF I!Tidy
<1>3. I!Gone \in I!TopicRow /\ I!Gone.key = "gone"
  BY UnusedIs
<1>4. ASSUME NEW t \in I!Topics
      PROVE  /\ topic'[t] \in I!TopicRow
             /\ t \in I!Orphans => topic'[t] = I!Gone
             /\ t \notin I!Orphans => /\ topic'[t].key = topic[t].key /\ topic'[t].alias = topic[t].alias
                                      /\ topic'[t].resolvedOn = topic[t].resolvedOn
                                      /\ topic'[t].status \in {"open", topic[t].status}
  <2>1. topic[t] \in I!TopicRow
    BY DEF TopicShapes, I!TypeOK
  <2> DEFINE rec == [topic[t] EXCEPT !.status = "open"]
  <2>2. /\ rec \in I!TopicRow /\ rec.key = topic[t].key /\ rec.alias = topic[t].alias
        /\ rec.resolvedOn = topic[t].resolvedOn /\ rec.status = "open"
    BY <2>1 DEF I!TopicRow, I!Statuses
  <2>3. topic'[t] = IF t \in I!Orphans THEN I!Gone ELSE IF t \in woken THEN rec ELSE topic[t]
    BY <1>2 DEF I!Tidied
  <2> QED BY <1>3, <2>1, <2>2, <2>3
<1>5. topic' \in [I!Topics -> I!TopicRow]
  BY <1>2, <1>4 DEF I!Tidied
<1>6. TopicShapes'
  BY <1>1, <1>3, <1>4, <1>5 DEF TopicShapes, I!TypeOK
<1>7. I!Live' = I!Live \ I!Orphans /\ I!Matchable' = I!Matchable \ I!Orphans
  BY <1>3, <1>4 DEF I!Live, I!Matchable, I!Orphans
<1>8. \A t \in I!Topics \ I!Orphans : I!Answers(t)' = I!Answers(t)
  BY <1>4 DEF I!Answers
<1>9. CopyInv'
  BY <1>1, <1>3, <1>4 DEF CopyInv, TopicShapes, I!TypeOK
<1>10. OwesInv' /\ SplitInv' /\ UniqueInv'
  BY <1>1, <1>4, <1>7, <1>8 DEF OwesInv, SplitInv, UniqueInv, I!Live, I!Matchable
<1>11. \A f \in I!Made : finding[f].topic # 0 => finding[f].topic \in I!Live \ I!Orphans
  BY DEF I!Grouped, I!Orphans, I!Members
<1>12. I!Made' = I!Made
  BY <1>1 DEF I!Made
<1>13. I!Grouped' /\ I!StaysSplit' /\ I!OpensAgain'
  BY <1>1, <1>4, <1>7, <1>11, <1>12 DEF I!Grouped, I!StaysSplit, I!OpensAgain, I!Live, I!Made,
     TopicShapes
<1> QED BY <1>6, <1>9, <1>10, <1>13

\* A request's row: the columns its copy does not change are those of the topic.
LEMMA ColumnsIs ==
  ASSUME TopicBounds, TopicInv, NEW r \in Operators, tq[r].copy \in I!TopicRow, tq[r].topic \in I!Topics,
         NEW new \in I!TopicRow, new.key = tq[r].copy.key
  PROVE  /\ I!Columns(r, new) \in I!TopicRow /\ I!Columns(r, new).key = topic[tq[r].topic].key
         /\ I!Columns(r, new).alias = IF new.alias # tq[r].copy.alias THEN new.alias ELSE topic[tq[r].topic].alias
         /\ I!Columns(r, new).status = IF new.status # tq[r].copy.status THEN new.status ELSE topic[tq[r].topic].status
         /\ new.resolvedOn = tq[r].copy.resolvedOn => I!Columns(r, new).resolvedOn = topic[tq[r].topic].resolvedOn
<1>1. topic[tq[r].topic] \in I!TopicRow
  BY DEF TopicInv, TopicShapes, I!TypeOK
<1>2. DOMAIN new = {"key", "alias", "status", "resolvedOn"}
  BY DEF I!TopicRow
<1>3. I!Columns(r, new) =
        [c \in {"key", "alias", "status", "resolvedOn"} |->
           IF new[c] # tq[r].copy[c] THEN new[c] ELSE topic[tq[r].topic][c]]
  BY <1>2 DEF I!Columns, I!Copy, I!Mine
<1>4. I!Columns(r, new) =
        [key |-> IF new.key # tq[r].copy.key THEN new.key ELSE topic[tq[r].topic].key,
         alias |-> IF new.alias # tq[r].copy.alias THEN new.alias ELSE topic[tq[r].topic].alias,
         status |-> IF new.status # tq[r].copy.status THEN new.status ELSE topic[tq[r].topic].status,
         resolvedOn |-> IF new.resolvedOn # tq[r].copy.resolvedOn THEN new.resolvedOn
                        ELSE topic[tq[r].topic].resolvedOn]
  BY <1>3
<1> QED BY <1>1, <1>4 DEF I!TopicRow

\* A status: a topic that is resolved today has no later finding.
LEMMA SetStatusKeeps ==
  ASSUME TopicBounds, TopicInv, NEW r \in Operators, I!SetStatus(r)
  PROVE  TopicInv'
<1> USE DEF TopicInv
<1> DEFINE t == tq[r].topic
           s == tq[r].kind
           new == [tq[r].copy EXCEPT !.status = s]
           rec == I!Columns(r, new)
           res == IF s = "resolved" THEN [rec EXCEPT !.resolvedOn = today] ELSE rec
<1>1. /\ I!Serve(r) /\ s \in I!Statuses /\ t \in I!Live /\ UNCHANGED <<finding, owes, loose>>
      /\ topic' = [topic EXCEPT ![t] = res]
  BY DEF I!SetStatus, I!Mine, I!Copy
<1>2. /\ UNCHANGED <<today, analyses, sync, asked>>
      /\ tq' \in [Operators -> [kind : I!Statuses \cup {"split", "merge", "none"}, topic : I!Topics,
                                other : 0..MaxTopics \cup I!Findings, copy : I!TopicRow]]
      /\ \A p \in Operators : tq'[p].kind # "none" => p # r /\ tq'[p] = tq[p]
      /\ t \in I!Topics /\ tq[r].copy \in I!TopicRow
  BY <1>1, ServeIs
<1> HIDE DEF s
<1>3. new \in I!TopicRow /\ new.key = tq[r].copy.key /\ new.alias = tq[r].copy.alias
      /\ new.status = s /\ new.resolvedOn = tq[r].copy.resolvedOn
  BY <1>1, <1>2 DEF I!TopicRow
<1> HIDE DEF new
<1>4. /\ rec \in I!TopicRow /\ rec.key = topic[t].key /\ rec.alias = topic[t].alias
      /\ rec.status \in {s, topic[t].status} /\ rec.resolvedOn = topic[t].resolvedOn
  BY <1>2, <1>3, ColumnsIs
<1> HIDE DEF rec
<1>5. today \in 0..LastDay
  BY DEF TopicShapes, I!TypeOK, TopicBounds
<1>6. /\ res \in I!TopicRow /\ res.key = topic[t].key /\ res.alias = topic[t].alias
      /\ res.status \in {s, topic[t].status}
      /\ res.resolvedOn = IF s = "resolved" THEN today ELSE topic[t].resolvedOn
  BY <1>4, <1>5 DEF I!TopicRow
<1> HIDE DEF res
<1>7. topic' \in [I!Topics -> I!TopicRow] /\ \A u \in I!Topics : topic'[u] = IF u = t THEN res ELSE topic[u]
  BY <1>1, <1>2, <1>6 DEF TopicShapes, I!TypeOK
<1>8. /\ \A u \in I!Topics : topic'[u].key = topic[u].key /\ topic'[u].alias = topic[u].alias
      /\ finding' = finding /\ owes' = owes /\ loose' = loose /\ today' = today
  BY <1>1, <1>2, <1>6, <1>7
<1>9. I!TypeOK'
  BY <1>1, <1>2, <1>7 DEF TopicShapes, I!TypeOK
<1>10. TopicShapes'
  BY <1>8, <1>9 DEF TopicShapes
<1>11. /\ I!Live' = I!Live /\ I!Matchable' = I!Matchable
       /\ \A u \in I!Topics : I!Answers(u)' = I!Answers(u)
       /\ I!Made' = I!Made
  BY <1>8 DEF I!Live, I!Matchable, I!Answers, I!Made
<1>12. CopyInv'
  <2>1. \A p \in Operators : tq[p].topic \in I!Topics
    BY DEF TopicShapes, I!TypeOK
  <2>2. \A p \in Operators : tq'[p].kind # "none" => tq'[p] = tq[p]
    BY <1>2
  <2> QED BY <1>8, <2>1, <2>2 DEF CopyInv
<1>13. OwesInv' /\ SplitInv' /\ UniqueInv'
  BY <1>8, <1>11 DEF OwesInv, SplitInv, UniqueInv, I!Live, I!Matchable
<1>14. I!Grouped' /\ I!StaysSplit'
  BY <1>8, <1>11 DEF I!Grouped, I!StaysSplit, I!Live
<1>15. I!OpensAgain'
  <2> SUFFICES ASSUME NEW g \in I!Made, finding[g].by = "sync", topic'[finding[g].topic].status = "resolved"
               PROVE  finding[g].day <= topic'[finding[g].topic].resolvedOn
    BY <1>8, <1>11 DEF I!OpensAgain
  <2>1. g \in I!Findings /\ finding[g].topic \in I!Topics /\ finding[g].day <= today
    BY DEF I!Made, TopicShapes, I!TypeOK, I!Topics
  <2>2. CASE finding[g].topic = t
    <3>1. s = "resolved" => finding[g].day <= topic'[finding[g].topic].resolvedOn
      BY <1>6, <1>7, <2>1, <2>2
    <3>2. s # "resolved" => topic[t].status = "resolved" /\ topic'[finding[g].topic].resolvedOn = topic[t].resolvedOn
      BY <1>6, <1>7, <2>1, <2>2
    <3> QED BY <2>2, <3>1, <3>2 DEF I!OpensAgain
  <2>3. CASE finding[g].topic # t
    BY <1>7, <2>1, <2>3 DEF I!OpensAgain
  <2> QED BY <2>2, <2>3
<1> QED BY <1>10, <1>12, <1>13, <1>14, <1>15

\* A finding is taken out into a topic of its own, which nothing joins (split).
LEMMA TakeOutKeeps ==
  ASSUME TopicBounds, TopicInv, NEW r \in Operators, I!TakeOut(r)
  PROVE  TopicInv'
<1> USE DEF TopicInv
<1> DEFINE t == I!Fresh
           f == tq[r].other
           moved == [finding[f] EXCEPT !.topic = t, !.by = "hand"]
           Row == [day : 0..LastDay, topic : 0..MaxTopics, by : {"none", "sync", "hand"}]
<1>1. /\ I!Serve(r) /\ f \in I!Members(tq[r].topic) /\ I!HasRoom /\ UNCHANGED <<owes, loose>>
      /\ topic' = [topic EXCEPT ![t] = I!NewTopic(I!Split)]
      /\ finding' = [finding EXCEPT ![f].topic = t, ![f].by = "hand"]
  BY DEF I!TakeOut, I!Mine
<1>2. /\ UNCHANGED <<today, analyses, sync, asked>>
      /\ tq' \in [Operators -> [kind : I!Statuses \cup {"split", "merge", "none"}, topic : I!Topics,
                                other : 0..MaxTopics \cup I!Findings, copy : I!TopicRow]]
      /\ \A p \in Operators : tq'[p].kind # "none" => tq'[p] = tq[p]
  BY <1>1, ServeIs
<1>3. t \in I!Topics /\ topic[t].key = "none"
  BY <1>1, FreshIs DEF TopicBounds
<1>4. f \in I!Findings /\ finding[f] \in Row /\ finding[f].day > 0 /\ t \in 0..MaxTopics /\ t # 0
  BY <1>1, <1>3 DEF I!Members, I!Made, TopicShapes, I!TypeOK, I!Topics, TopicBounds
<1> HIDE DEF t, f
<1>5. /\ topic' \in [I!Topics -> I!TopicRow] /\ topic'[t].key = I!Split
      /\ topic'[t].status = "open"
      /\ \A u \in I!Topics \ {t} : topic'[u] = topic[u]
      /\ t \notin I!Live /\ I!Live' = I!Live \cup {t}
      /\ CopyInv' /\ OwesInv' /\ SplitInv' /\ UniqueInv'
  <2>1. I!Split \in I!Keys \cup {I!Split}
    OBVIOUS
  <2> QED BY <1>1, <1>2, <1>3, <2>1, BegunIs
<1>6. /\ moved \in Row /\ moved.day = finding[f].day /\ moved.topic = t /\ moved.by = "hand"
      /\ finding' = [finding EXCEPT ![f] = moved]
  BY <1>1, <1>4
<1> HIDE DEF moved
<1>7. /\ finding' \in [I!Findings -> Row]
      /\ \A g \in I!Findings : finding'[g] = IF g = f THEN moved ELSE finding[g]
  BY <1>6 DEF TopicShapes, I!TypeOK
<1>8. TopicShapes'
  <2>1. \A u \in I!Topics : topic'[u].key = "none" => owes[u] = {}
    BY <1>5 DEF TopicShapes, I!Split
  <2>2. I!TypeOK'
    BY <1>1, <1>2, <1>5, <1>7 DEF TopicShapes, I!TypeOK
  <2> QED BY <1>1, <1>2, <1>4, <1>6, <1>7, <2>1, <2>2 DEF TopicShapes
<1>9. I!Made' = I!Made
  BY <1>6, <1>7 DEF I!Made
<1>10. \A g \in I!Made : g # f /\ finding[g].topic # 0 => finding[g].topic \in I!Topics \ {t}
  BY <1>5 DEF I!Grouped, I!Live
<1>11. I!Grouped' /\ I!StaysSplit'
  BY <1>5, <1>6, <1>7, <1>9, <1>10 DEF I!Grouped, I!StaysSplit, I!Made
<1>12. I!OpensAgain'
  BY <1>5, <1>6, <1>7, <1>9, <1>10 DEF I!OpensAgain, I!Made, TopicShapes
<1> QED BY <1>5, <1>8, <1>11, <1>12

\* Request r folds topic o into t, whose row becomes the one given.
FoldedInto(r, t, o, rec) ==
  /\ I!Serve(r) /\ t \in I!Live /\ o \in I!Live /\ t # o
  /\ topic' = [topic EXCEPT ![t] = rec, ![o] = I!Gone]
  /\ finding' = [f \in I!Findings |-> IF f \in I!Members(o) THEN [finding[f] EXCEPT !.topic = t, !.by = "hand"]
                                      ELSE finding[f]]
  /\ owes' = [owes EXCEPT ![t] = owes[t] \cup owes[o] \cup ({topic[o].key} \ {I!Split})]
  /\ loose' = loose \cup (topic[t].alias \ rec.alias)
                    \cup (IF rec.key = I!Split THEN I!Folded(o) ELSE {})
  /\ rec.key = topic[t].key /\ rec.resolvedOn = topic[t].resolvedOn
  /\ rec.status = "resolved" => topic[t].status = "resolved"
  /\ I!Folded(o) \subseteq rec.alias \cup {topic[t].key} \cup loose
  /\ rec.alias \subseteq topic[t].alias \cup I!Folded(o) \cup loose

\* What a topic folded into another answers to is answered there, or lost.
LEMMA MergedIs ==
  ASSUME TopicBounds, TopicInv, NEW r \in Operators, I!Merge(r), NEW t, NEW o,
         t = tq[r].topic, o = tq[r].other
  PROVE  \E rec \in I!TopicRow : FoldedInto(r, t, o, rec)
<1> USE DEF TopicInv
<1> DEFINE copy == tq[r].copy
           new == I!Merged(r, o)
           rec == I!Columns(r, new)
<1>1. /\ I!Serve(r) /\ t \in I!Live /\ o \in I!Live /\ t # o
      /\ topic' = [topic EXCEPT ![t] = rec, ![o] = I!Gone]
      /\ finding' = [f \in I!Findings |-> IF f \in I!Members(o) THEN [finding[f] EXCEPT !.topic = t, !.by = "hand"]
                                          ELSE finding[f]]
      /\ owes' = [owes EXCEPT ![t] = owes[t] \cup owes[o] \cup ({topic[o].key} \ {I!Split})]
      /\ loose' = loose \cup (topic[t].alias \ rec.alias)
                        \cup (IF rec.key = I!Split THEN I!Folded(o) ELSE {})
  BY DEF I!Merge, I!Mine, TopicShapes, I!TypeOK
<1>2. /\ t \in I!Topics /\ o \in I!Topics /\ topic[t] \in I!TopicRow /\ topic[o] \in I!TopicRow
      /\ copy \in I!TopicRow
      /\ topic[t].key = copy.key /\ copy.alias \subseteq topic[t].alias \cup loose
  BY <1>1, ServeIs DEF I!Live, TopicShapes, I!TypeOK, CopyInv
<1>3. I!Folded(o) \subseteq I!Keys
  BY <1>1, <1>2 DEF I!Folded, I!Answers, I!TopicRow, I!Live
<1>4. /\ new \in I!TopicRow /\ new.key = copy.key /\ new.resolvedOn = copy.resolvedOn
      /\ new.alias = copy.alias \cup (I!Folded(o) \ {copy.key})
      /\ new.status = IF copy.status = "resolved" /\ topic[o].status # "resolved" THEN topic[o].status ELSE copy.status
  <2> DEFINE st == IF copy.status = "resolved" /\ topic[o].status # "resolved" THEN topic[o].status ELSE copy.status
             al == copy.alias \cup (I!Folded(o) \ {copy.key})
  <2>1. st \in I!Statuses /\ al \in SUBSET I!Keys
    BY <1>2, <1>3 DEF I!TopicRow
  <2>2. new = [copy EXCEPT !.alias = al, !.status = st]
    BY <1>2 DEF I!Merged, I!Copy, I!TopicRow
  <2> HIDE DEF st, al, new, copy
  <2>3. /\ new \in I!TopicRow /\ new.key = copy.key /\ new.resolvedOn = copy.resolvedOn
        /\ new.alias = al /\ new.status = st
    BY <1>2, <2>1, <2>2 DEF I!TopicRow
  <2> QED BY <2>3 DEF st, al
<1> HIDE DEF new
<1>5. /\ rec \in I!TopicRow /\ rec.key = topic[t].key /\ rec.resolvedOn = topic[t].resolvedOn
      /\ rec.alias = IF new.alias # copy.alias THEN new.alias ELSE topic[t].alias
      /\ rec.status = IF new.status # copy.status THEN new.status ELSE topic[t].status
  BY <1>2, <1>4, ColumnsIs
<1> HIDE DEF rec
<1>6. rec.status = "resolved" => topic[t].status = "resolved"
  BY <1>4, <1>5
<1>7. I!Folded(o) \subseteq rec.alias \cup {topic[t].key} \cup loose
  BY <1>2, <1>4, <1>5
<1>8. rec.alias \subseteq topic[t].alias \cup I!Folded(o) \cup loose
  BY <1>2, <1>4, <1>5
<1> QED BY <1>1, <1>5, <1>6, <1>7, <1>8 DEF FoldedInto

\* A topic is folded into another, over a row that may have changed since it was read.
LEMMA FoldKeeps ==
  ASSUME TopicBounds, TopicInv, NEW r \in Operators, I!Merge(r)
  PROVE  TopicInv'
<1> USE DEF TopicInv
<1> DEFINE Row == [day : 0..LastDay, topic : 0..MaxTopics, by : {"none", "sync", "hand"}]
<1>0. PICK t, o : t = tq[r].topic /\ o = tq[r].other
  OBVIOUS
<1>1. PICK rec \in I!TopicRow : FoldedInto(r, t, o, rec)
  BY <1>0, MergedIs
<1> USE DEF FoldedInto
<1>2. /\ UNCHANGED <<today, analyses, sync, asked>>
      /\ tq' \in [Operators -> [kind : I!Statuses \cup {"split", "merge", "none"}, topic : I!Topics,
                                other : 0..MaxTopics \cup I!Findings, copy : I!TopicRow]]
      /\ \A p \in Operators : tq'[p].kind # "none" => tq'[p] = tq[p]
  BY <1>1, ServeIs
<1>3. /\ t \in I!Topics /\ o \in I!Topics /\ topic[t] \in I!TopicRow /\ topic[o] \in I!TopicRow
      /\ topic[t].key \notin {"none", "gone"} /\ topic[o].key \notin {"none", "gone"}
      /\ t \in 0..MaxTopics /\ t # 0
  <2>1. t \in I!Topics /\ o \in I!Topics
    BY <1>1 DEF I!Live
  <2>2. t \in 0..MaxTopics /\ t # 0
    BY <2>1 DEF I!Topics, TopicBounds
  <2> QED BY <1>1, <2>1, <2>2 DEF I!Live, TopicShapes, I!TypeOK
<1>4. /\ I!Folded(o) \subseteq I!Keys /\ I!Folded(o) \subseteq I!Answers(o)
      /\ I!Answers(o) \subseteq I!Folded(o) \cup {I!Split} /\ ~ (I!Split \in I!Keys)
  BY <1>3 DEF I!Folded, I!Answers, I!TopicRow, TopicBounds
<1>5. I!Gone \in I!TopicRow /\ I!Gone.key = "gone"
  BY UnusedIs
<1>6. /\ topic' \in [I!Topics -> I!TopicRow] /\ topic'[t] = rec /\ topic'[o] = I!Gone
      /\ \A u \in I!Topics \ {t, o} : topic'[u] = topic[u]
  BY <1>1, <1>3, <1>5 DEF TopicShapes, I!TypeOK
<1>7. /\ loose \subseteq loose' /\ loose' \subseteq I!Keys
      /\ topic[t].alias \subseteq rec.alias \cup loose'
      /\ rec.key = I!Split => I!Folded(o) \subseteq loose'
  BY <1>1, <1>3, <1>4 DEF I!TopicRow, TopicShapes, I!TypeOK
<1>8. /\ owes' \in [I!Topics -> SUBSET I!Keys]
      /\ owes'[t] = owes[t] \cup owes[o] \cup ({topic[o].key} \ {I!Split})
      /\ \A u \in I!Topics \ {t} : owes'[u] = owes[u]
  <2>1. owes[t] \cup owes[o] \cup ({topic[o].key} \ {I!Split}) \in SUBSET I!Keys
    BY <1>3 DEF I!TopicRow, TopicShapes, I!TypeOK
  <2> QED BY <1>1, <1>3, <2>1 DEF TopicShapes, I!TypeOK
<1>9. ASSUME NEW f \in I!Findings
      PROVE  /\ finding'[f] \in Row /\ finding'[f].day = finding[f].day
             /\ f \in I!Members(o) => finding'[f].topic = t /\ finding'[f].by = "hand"
             /\ f \notin I!Members(o) => finding'[f] = finding[f]
  <2>1. finding[f] \in Row
    BY DEF TopicShapes, I!TypeOK
  <2> DEFINE moved == [finding[f] EXCEPT !.topic = t, !.by = "hand"]
  <2>2. moved \in Row /\ moved.day = finding[f].day /\ moved.topic = t /\ moved.by = "hand"
    BY <1>3, <2>1
  <2>3. finding'[f] = IF f \in I!Members(o) THEN moved ELSE finding[f]
    BY <1>1
  <2> QED BY <2>1, <2>2, <2>3
<1>10. finding' \in [I!Findings -> Row]
  BY <1>1, <1>9
<1>11. I!TypeOK'
  BY <1>2, <1>6, <1>7, <1>8, <1>10 DEF TopicShapes, I!TypeOK
<1>12. TopicShapes'
  <2>1. \A g \in I!Findings : /\ finding'[g].day <= today'
                              /\ finding'[g].day = 0 => finding'[g].topic = 0
                              /\ finding'[g].by = "sync" => finding'[g].topic # 0
    <3> TAKE g \in I!Findings
    <3>1. CASE g \in I!Members(o)
      BY <1>2, <1>9, <3>1 DEF I!Members, I!Made, TopicShapes, I!TypeOK
    <3>2. CASE g \notin I!Members(o)
      BY <1>2, <1>9, <3>2 DEF TopicShapes
    <3> QED BY <3>1, <3>2
  <2>2. \A u \in I!Topics : topic'[u].key = "none" => owes'[u] = {}
    BY <1>1, <1>3, <1>5, <1>6, <1>8 DEF TopicShapes
  <2> QED BY <1>11, <2>1, <2>2 DEF TopicShapes
<1>13. I!Live' = I!Live \ {o}
  BY <1>1, <1>3, <1>5, <1>6 DEF I!Live
<1>14. I!Matchable' = I!Matchable \ {o}
  <2>1. \A u \in I!Topics \ {o} : topic'[u].key = topic[u].key
    BY <1>1, <1>3, <1>6
  <2> QED BY <1>13, <2>1 DEF I!Matchable, I!Live
<1>15. /\ I!Answers(t)' = {topic[t].key} \cup rec.alias
       /\ \A u \in I!Topics \ {t, o} : I!Answers(u)' = I!Answers(u)
  BY <1>1, <1>3, <1>6 DEF I!Answers
<1>16. CopyInv'
  <2> SUFFICES ASSUME NEW p \in Operators, tq'[p].kind # "none"
               PROVE  /\ tq'[p].copy.key \notin {"none", "gone"}
                      /\ topic'[tq'[p].topic].key \in {tq'[p].copy.key, "gone"}
                      /\ topic'[tq'[p].topic].key # "gone" =>
                           tq'[p].copy.alias \subseteq topic'[tq'[p].topic].alias \cup loose'
    BY DEF CopyInv
  <2>1. tq'[p] = tq[p] /\ tq[p].topic \in I!Topics
    BY <1>2 DEF TopicShapes, I!TypeOK
  <2>2. /\ tq[p].copy.key \notin {"none", "gone"}
        /\ topic[tq[p].topic].key \in {tq[p].copy.key, "gone"}
        /\ topic[tq[p].topic].key # "gone" => tq[p].copy.alias \subseteq topic[tq[p].topic].alias \cup loose
    BY <2>1 DEF CopyInv
  <2>3. CASE tq[p].topic = o
    BY <1>5, <1>6, <2>1, <2>2, <2>3
  <2>4. CASE tq[p].topic = t
    BY <1>1, <1>3, <1>6, <1>7, <2>1, <2>2, <2>4
  <2>5. CASE tq[p].topic \notin {t, o}
    BY <1>6, <1>7, <2>1, <2>2, <2>5
  <2> QED BY <2>3, <2>4, <2>5
<1>17. OwesInv'
  <2> SUFFICES ASSUME NEW u \in I!Live \ {o}
               PROVE  owes'[u] \ loose' \subseteq I!Answers(u)'
    BY <1>13 DEF OwesInv
  <2>1. u \in I!Topics
    BY DEF I!Live
  <2>2. CASE u = t
    <3>1. owes[t] \subseteq I!Answers(t) \cup loose
      BY <1>1 DEF OwesInv
    <3>2. owes[o] \subseteq I!Folded(o) \cup loose
      <4>1. owes[o] \subseteq I!Answers(o) \cup loose
        BY <1>1 DEF OwesInv
      <4>2. owes[o] \subseteq I!Keys
        BY <1>3 DEF TopicShapes, I!TypeOK
      <4> QED BY <1>4, <4>1, <4>2
    <3>3. {topic[o].key} \ {I!Split} \subseteq I!Folded(o)
      BY DEF I!Folded, I!Answers
    <3>4. I!Answers(t) \subseteq I!Answers(t)' \cup loose'
      BY <1>7, <1>15 DEF I!Answers
    <3>5. I!Folded(o) \subseteq I!Answers(t)' \cup loose'
      BY <1>1, <1>7, <1>15
    <3> QED BY <1>7, <1>8, <2>2, <3>1, <3>2, <3>3, <3>4, <3>5
  <2>3. CASE u # t
    <3>1. owes[u] \subseteq I!Answers(u) \cup loose
      BY DEF OwesInv
    <3>2. owes'[u] = owes[u] /\ I!Answers(u)' = I!Answers(u)
      BY <1>8, <1>15, <2>1, <2>3
    <3> QED BY <1>7, <3>1, <3>2
  <2> QED BY <2>2, <2>3
<1>18. SplitInv'
  <2> SUFFICES ASSUME NEW u \in I!Live \ {o}, topic'[u].key = I!Split
               PROVE  topic'[u].alias \subseteq loose'
    BY <1>13 DEF SplitInv
  <2>1. u \in I!Topics
    BY DEF I!Live
  <2>2. CASE u = t
    <3>1. topic[t].alias \subseteq loose
      BY <1>1, <1>6, <2>2 DEF SplitInv
    <3> QED BY <1>1, <1>6, <1>7, <2>2, <3>1
  <2>3. CASE u # t
    BY <1>6, <1>7, <2>1, <2>3 DEF SplitInv
  <2> QED BY <2>2, <2>3
<1>19. ASSUME NEW w \in I!Matchable \ {t, o}, t \in I!Matchable
       PROVE  I!Answers(t)' \cap I!Answers(w) \subseteq loose
  <2>1. I!Answers(t) \cap I!Answers(w) \subseteq loose
    BY <1>19 DEF UniqueInv
  <2>2. I!Folded(o) \cap I!Answers(w) \subseteq loose
    <3>1. CASE topic[o].key = I!Split
      BY <1>1, <3>1 DEF SplitInv, I!Folded, I!Answers
    <3>2. CASE topic[o].key # I!Split
      BY <1>1, <1>4, <3>2 DEF UniqueInv, I!Matchable
    <3> QED BY <3>1, <3>2
  <2>3. I!Answers(t)' \subseteq I!Answers(t) \cup I!Folded(o) \cup loose
    BY <1>1, <1>15 DEF I!Answers
  <2> QED BY <2>1, <2>2, <2>3
<1>20. UniqueInv'
  <2> SUFFICES ASSUME NEW u \in I!Matchable \ {o}, NEW w \in I!Matchable \ {o}, u # w
               PROVE  I!Answers(u)' \cap I!Answers(w)' \subseteq loose'
    BY <1>14 DEF UniqueInv
  <2>1. u \in I!Topics /\ w \in I!Topics
    BY DEF I!Matchable, I!Live
  <2>2. CASE u = t
    BY <1>7, <1>15, <1>19, <2>1, <2>2
  <2>3. CASE w = t
    BY <1>7, <1>15, <1>19, <2>1, <2>3
  <2>4. CASE u # t /\ w # t
    BY <1>7, <1>15, <2>1, <2>4 DEF UniqueInv
  <2> QED BY <2>2, <2>3, <2>4
<1>21. I!Made' = I!Made
  BY <1>1, <1>9 DEF I!Made
<1>22. I!Members(o) \subseteq I!Made /\ \A g \in I!Made \ I!Members(o) : finding[g].topic # o
  BY DEF I!Members
<1>23. I!Grouped'
  BY <1>1, <1>3, <1>9, <1>13, <1>21, <1>22 DEF I!Grouped, I!Made
<1>24. I!StaysSplit'
  <2> SUFFICES ASSUME NEW g \in I!Made, finding'[g].topic # 0, topic'[finding'[g].topic].key = I!Split
               PROVE  finding'[g].by = "hand"
    BY <1>21 DEF I!StaysSplit
  <2>1. g \in I!Findings
    BY DEF I!Made
  <2>2. CASE g \in I!Members(o)
    BY <1>9, <2>1, <2>2
  <2>3. CASE g \notin I!Members(o)
    <3>1. finding'[g] = finding[g] /\ finding[g].topic \in I!Live \ {o}
      BY <1>9, <1>22, <2>1, <2>3 DEF I!Grouped
    <3>2. topic'[finding[g].topic].key = topic[finding[g].topic].key
      BY <1>1, <1>6, <3>1 DEF I!Live
    <3> QED BY <3>1, <3>2 DEF I!StaysSplit
  <2> QED BY <2>2, <2>3
<1>25. I!OpensAgain'
  <2> SUFFICES ASSUME NEW g \in I!Made, finding'[g].by = "sync", topic'[finding'[g].topic].status = "resolved"
               PROVE  finding'[g].day <= topic'[finding'[g].topic].resolvedOn
    BY <1>21 DEF I!OpensAgain
  <2>1. g \in I!Findings
    BY DEF I!Made
  <2>2. g \notin I!Members(o)
    BY <1>9, <2>1
  <2>3. finding'[g] = finding[g] /\ finding[g].topic \in I!Live \ {o}
    BY <1>9, <1>22, <2>1, <2>2 DEF I!Grouped, TopicShapes
  <2>4. /\ topic'[finding[g].topic].resolvedOn = topic[finding[g].topic].resolvedOn
        /\ topic'[finding[g].topic].status = "resolved" => topic[finding[g].topic].status = "resolved"
    BY <1>1, <1>6, <2>3 DEF I!Live
  <2> QED BY <2>3, <2>4 DEF I!OpensAgain
<1> QED BY <1>12, <1>16, <1>17, <1>18, <1>20, <1>23, <1>24, <1>25

\* Every step keeps the invariant.
LEMMA TopicNext == TopicBounds => (TopicInv /\ [I!Next]_(I!vars) => TopicInv')
<1> SUFFICES ASSUME TopicBounds, TopicInv, [I!Next]_(I!vars) PROVE TopicInv'
  OBVIOUS
<1>1. CASE I!NextDay \/ I!SyncBegin \/ I!SyncFails
  BY <1>1, QuietStepsKeep
<1>2. CASE \E holds \in SUBSET I!Findings : I!Persist(holds)
  BY <1>2, PersistKeeps
<1>3. CASE \E f \in I!Findings : I!Assign(f)
  BY <1>3, AssignKeeps
<1>4. CASE I!Tidy
  BY <1>4, TidyKeeps
<1>5. CASE \E r \in Operators : I!Ask(r) \/ I!SetStatus(r) \/ I!TakeOut(r) \/ I!Merge(r) \/ I!Refused(r)
  BY <1>5, TopicAskKeeps, SetStatusKeeps, TakeOutKeeps, FoldKeeps, RefusedKeeps
<1>6. CASE UNCHANGED I!vars
  <2>1. /\ UNCHANGED <<finding, topic, owes, loose, today, analyses, sync, asked>> /\ tq' = tq
    BY <1>6 DEF I!vars
  <2>2. I!TypeOK' /\ today <= today'
    BY <2>1 DEF TopicInv, TopicShapes, I!TypeOK
  <2> QED BY <2>1, <2>2, QuietKeeps
<1> QED BY <1>1, <1>2, <1>3, <1>4, <1>5, <1>6 DEF I!Next

\* The invariant says where findings are, and where the next ones will be.
LEMMA TopicSafe == TopicInv => I!TopicsSound /\ I!TypeOK
<1> SUFFICES ASSUME TopicInv PROVE I!TopicsSound /\ I!TypeOK
  OBVIOUS
<1>1. I!FutureJoins
  <2>1. \A t \in I!Matchable : t \in I!Live
    BY DEF I!Matchable
  <2>2. \A t, u \in I!Matchable : u > t => t # u
    BY DEF I!Matchable, I!Live, I!Topics
  <2> QED BY <2>1, <2>2 DEF I!FutureJoins, TopicInv, OwesInv, UniqueInv
<1> QED BY <1>1 DEF I!TopicsSound, TopicInv, TopicShapes

\* Findings stay in the topic they were grouped, merged or split into, and the next
\* ones join it, for every number of findings, topics, analyses and requests
\* (services/insight_topics.py).
THEOREM TopicsHold == TopicBounds => (I!Spec => []I!TopicsSound)
<1> SUFFICES ASSUME TopicBounds PROVE I!Spec => []I!TopicsSound
  OBVIOUS
<1>1. I!Init => TopicInv
  BY TopicInit
<1>2. TopicInv /\ [I!Next]_(I!vars) => TopicInv'
  BY TopicNext
<1>3. TopicInv => I!TopicsSound
  BY TopicSafe
<1> QED BY <1>1, <1>2, <1>3, PTL DEF I!Spec
===============================================================================
