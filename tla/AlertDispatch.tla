----------------------------- MODULE AlertDispatch -----------------------------
(***************************************************************************)
(* Alerts to the paired phones through Firebase Cloud Messaging            *)
(* (edge_backend/app/services/alert_dispatcher.py): the dispatcher's       *)
(* cooldown, fan-out and clean-up of dead push tokens, and the provider's  *)
(* cached OAuth token, with the phones' registrations                      *)
(* (pairing_service.set_push_token, revoke_device) and the change of the   *)
(* service account (routes/pairing.py) interleaving.                       *)
(*                                                                         *)
(* One step is the code between two awaits of the event loop; the status   *)
(* page reads the service account in a thread of its own.  A push token is *)
(* the number of the registration FCM issued it for: it is live when it is *)
(* the phone's last one and the app is still installed.                    *)
(***************************************************************************)
EXTENDS Integers, FiniteSets

CONSTANTS
  Alerts,        \* alerts, each dispatched once
  Phones,        \* rows of paired_devices
  Key,           \* Alerts -> (camera, event type)
  Bypass,        \* alerts that skip the cooldown: critical, or asked for
  Cooldown,      \* CAMERA_ALERT_COOLDOWN_SEC
  MaxTime,       \* bound: the clock stops here
  MaxTokens,     \* bound: push tokens FCM issues to a phone
  MaxAccounts    \* bound: service accounts uploaded

None == -1
NotLoaded == -1
Tokens == 0 .. MaxTokens           \* 0: no token
Accounts == 0 .. MaxAccounts       \* 0: no service account

ASSUME BoundsAssumption ==
  /\ Cooldown \in Nat /\ MaxTime \in Nat /\ MaxTokens \in Nat
  /\ MaxAccounts \in Nat \ {0}
ASSUME BypassAssumption == Bypass \subseteq Alerts

VARIABLES
  now,        \* time.monotonic()
  \* the phones and FCM
  issued,     \* the last token FCM issued to each phone
  installed,  \* phones that still have the app
  puts,       \* registrations <<phone, token>> on their way to the server
  \* paired_devices
  token, revoked,
  writing,    \* set_push_token calls past the check of revoked_at
  \* the provider
  account,    \* the stored service account
  upload,     \* a change of the service account: "idle", "saved"
  status,     \* the service account a status page's thread has read
  held,       \* _sa, NotLoaded when _sa_loaded is false
  cached,     \* _token, as the account it was minted from; 0: no usable token
  lock,       \* _token_lock: {} or {<<alert, phone>>}
  \* the dispatcher
  lastPush,   \* _last_push
  task,       \* one dispatch per alert
  send,       \* _deliver, for each alert and phone
  \* history
  shown,      \* how often FCM took the alert for the phone
  unsure,     \* FCM took it and its answer was lost
  before      \* phones revoked before the alert was dispatched

phones   == <<issued, installed, puts, token, revoked, writing>>
provider == <<account, upload, status, held, cached, lock>>
history  == <<shown, unsure, before>>
vars == <<now, phones, provider, lastPush, task, send, history>>

Deliveries == Alerts \X Phones
NoSend == [pc |-> "none", token |-> 0, sa |-> 0, key |-> 0, bearer |-> 0,
           tries |-> 0, refreshed |-> 0, status |-> "none"]

Init ==
  /\ now = 0
  /\ issued = [p \in Phones |-> IF MaxTokens = 0 THEN 0 ELSE 1]
  /\ installed = Phones /\ puts = {}
  /\ token = issued /\ revoked = {} /\ writing = {}
  /\ account = 1 /\ upload = "idle" /\ status = NotLoaded
  /\ held = NotLoaded /\ cached = 0 /\ lock = {}
  /\ lastPush = [k \in {Key[a] : a \in Alerts} |-> None]
  /\ task = [a \in Alerts |-> [pc |-> "new", at |-> None]]
  /\ send = [d \in Deliveries |-> NoSend]
  /\ shown = [d \in Deliveries |-> 0]
  /\ unsure = {} /\ before = [a \in Alerts |-> {}]

(***************************************************************************)
(* The phones: FCM issues a new token to the app, the app reports it, a    *)
(* report may arrive late; an administrator revokes a phone.               *)
(***************************************************************************)
Live(p, t) == t = issued[p] /\ p \in installed

Rotate(p) ==
  /\ p \in installed /\ issued[p] < MaxTokens
  /\ issued' = [issued EXCEPT ![p] = @ + 1]
  /\ puts' = puts \cup {<<p, issued[p] + 1>>}
  /\ UNCHANGED <<now, installed, token, revoked, writing, provider, lastPush,
                 task, send, history>>
Uninstall(p) ==
  /\ p \in installed
  /\ installed' = installed \ {p}
  /\ UNCHANGED <<now, issued, puts, token, revoked, writing, provider,
                 lastPush, task, send, history>>
\* set_push_token: the row is read and checked, then written.
PutRead(p, t) ==
  /\ <<p, t>> \in puts
  /\ puts' = puts \ {<<p, t>>}
  /\ writing' = IF p \in revoked THEN writing ELSE writing \cup {<<p, t>>}
  /\ UNCHANGED <<now, issued, installed, token, revoked, provider, lastPush,
                 task, send, history>>
PutWrite(p, t) ==
  /\ <<p, t>> \in writing
  /\ writing' = writing \ {<<p, t>>}
  /\ token' = [token EXCEPT ![p] = t]
  /\ UNCHANGED <<now, issued, installed, puts, revoked, provider, lastPush,
                 task, send, history>>
Revoke(p) ==
  /\ p \notin revoked
  /\ revoked' = revoked \cup {p}
  /\ token' = [token EXCEPT ![p] = 0]
  /\ UNCHANGED <<now, issued, installed, puts, writing, provider, lastPush,
                 task, send, history>>

(***************************************************************************)
(* The service account: a route stores it (or deletes it: 0) in a thread   *)
(* and then invalidates what the provider holds.                           *)
(***************************************************************************)
SaveAccount(new) ==
  /\ upload = "idle" /\ account < MaxAccounts /\ new \in {0, account + 1}
  /\ account' = new /\ upload' = "saved"
  /\ UNCHANGED <<now, phones, status, held, cached, lock, lastPush, task,
                 send, history>>
Invalidate ==
  /\ upload = "saved"
  /\ upload' = "idle" /\ held' = NotLoaded /\ cached' = 0
  /\ UNCHANGED <<now, phones, account, status, lock, lastPush, task, send,
                 history>>
\* FcmV1Provider.status in a thread, when the account is not loaded yet.
StatusRead ==
  /\ held = NotLoaded /\ status = NotLoaded
  /\ status' = account
  /\ UNCHANGED <<now, phones, account, upload, held, cached, lock, lastPush,
                 task, send, history>>
StatusWrite ==
  /\ status # NotLoaded
  /\ held' = status /\ status' = NotLoaded
  /\ UNCHANGED <<now, phones, account, upload, cached, lock, lastPush, task,
                 send, history>>
\* service_account(): read on first use, then kept.
ServiceAccount == IF held = NotLoaded THEN account ELSE held

TokenExpires ==
  /\ cached # 0
  /\ cached' = 0
  /\ UNCHANGED <<now, phones, account, upload, status, held, lock, lastPush,
                 task, send, history>>
Advance ==
  /\ now < MaxTime
  /\ now' = now + 1
  /\ UNCHANGED <<phones, provider, lastPush, task, send, history>>

(***************************************************************************)
(* _push of one alert.  A muted camera or a phone's own preferences leave  *)
(* phones out: any set of phones may be filtered.                          *)
(***************************************************************************)
Dispatch(a) ==
  /\ task[a].pc = "new"
  /\ before' = [before EXCEPT ![a] = revoked]
  /\ task' = [task EXCEPT ![a].pc = "routed"]
  /\ UNCHANGED <<now, phones, provider, lastPush, send, shown, unsure>>

Cooling(a) ==
  a \notin Bypass /\ lastPush[Key[a]] # None /\ now - lastPush[Key[a]] < Cooldown
CheckCooldown(a) ==
  /\ task[a].pc = "routed"
  /\ task' = [task EXCEPT ![a] =
       IF Cooling(a) THEN [pc |-> "done", at |-> None]
                     ELSE [pc |-> "reading", at |-> now]]
  /\ UNCHANGED <<now, phones, provider, lastPush, send, history>>

\* For a mutant of Targets: the query forgets revoked_at.
TargetsWithRevoked == {p \in Phones : token[p] # 0}
\* The phones an alert may go to: not revoked, with a push token.
Targets == {p \in Phones : p \notin revoked /\ token[p] # 0}

\* _targets answers; the cooldown starts and one delivery per phone.
ReadTargets(a, ps) ==
  /\ task[a].pc = "reading"
  /\ ps \subseteq Targets
  /\ send' = [d \in Deliveries |->
       IF d[1] = a /\ d[2] \in ps
         THEN [pc |-> "start", token |-> token[d[2]], sa |-> 0, key |-> 0,
               bearer |-> 0, tries |-> 0, refreshed |-> 0, status |-> "none"]
         ELSE send[d]]
  /\ lastPush' = IF ps = {} THEN lastPush
                            ELSE [lastPush EXCEPT ![Key[a]] = task[a].at]
  /\ task' = [task EXCEPT ![a].pc = "sending"]
  /\ UNCHANGED <<now, phones, provider, history>>

FinishPush(a) ==
  /\ task[a].pc = "sending"
  /\ \A p \in Phones : send[<<a, p>>].pc \in {"none", "done"}
  /\ task' = [task EXCEPT ![a].pc = "done"]
  /\ UNCHANGED <<now, phones, provider, lastPush, send, history>>

(***************************************************************************)
(* FcmV1Provider.send: at most two tries after errors, and one more with a *)
(* fresh bearer token after a 401.                                         *)
(***************************************************************************)
Ended(r, result) == [r EXCEPT !.pc = "record", !.status = result]
\* attempts += 1, then access_token() takes the account and asks for the lock.
Asking(r, key) == IF key = 0 THEN Ended([r EXCEPT !.tries = @ + 1], "failed")
                  ELSE [r EXCEPT !.pc = "lock", !.key = key, !.tries = @ + 1]
sendFrame == <<now, phones, lastPush, task, before>>

StartSend(d) ==
  /\ send[d].pc = "start"
  /\ held' = ServiceAccount
  /\ send' = [send EXCEPT ![d] =
       IF ServiceAccount = 0 THEN Ended(@, "not_configured")
       ELSE [Asking(@, ServiceAccount) EXCEPT !.sa = ServiceAccount]]
  /\ UNCHANGED <<sendFrame, account, upload, status, cached, lock, shown,
                 unsure>>
\* After a pause the loop of send() comes round.
Retry(d) ==
  /\ send[d].pc = "retry"
  /\ held' = ServiceAccount
  /\ send' = [send EXCEPT ![d] = Asking(@, ServiceAccount)]
  /\ UNCHANGED <<sendFrame, account, upload, status, cached, lock, shown,
                 unsure>>

\* access_token() with the lock: the cached token, or a new one is minted.
TakeToken(d) ==
  /\ send[d].pc = "lock" /\ lock = {} /\ cached # 0
  /\ send' = [send EXCEPT ![d] = [@ EXCEPT !.pc = "post", !.bearer = cached]]
  /\ UNCHANGED <<sendFrame, provider, shown, unsure>>
\* For a mutant of MayMint: the lock is forgotten.
MayMintUnlocked == cached = 0
MayMint == lock = {} /\ cached = 0
MintStart(d) ==
  /\ send[d].pc = "lock" /\ MayMint
  /\ lock' = {d}
  /\ send' = [send EXCEPT ![d].pc = "mint"]
  /\ UNCHANGED <<sendFrame, account, upload, status, held, cached, shown,
                 unsure>>
\* For a mutant of MintEnd: a failed request keeps the lock.
MintEndKeepsLock(d, ok) ==
  /\ send[d].pc = "mint"
  /\ lock' = IF ok THEN {} ELSE lock
  /\ cached' = IF ok THEN send[d].key ELSE cached
  /\ send' = [send EXCEPT ![d] =
       IF ok THEN [@ EXCEPT !.pc = "post", !.bearer = send[d].key]
             ELSE Ended(@, "failed")]
  /\ UNCHANGED <<sendFrame, account, upload, status, held, shown, unsure>>
MintEnd(d, ok) ==
  /\ send[d].pc = "mint"
  /\ lock' = {}
  /\ cached' = IF ok THEN send[d].key ELSE cached
  /\ send' = [send EXCEPT ![d] =
       IF ok THEN [@ EXCEPT !.pc = "post", !.bearer = send[d].key]
             ELSE Ended(@, "failed")]
  /\ UNCHANGED <<sendFrame, account, upload, status, held, shown, unsure>>

\* What FCM can answer to the message: "lost" was taken and the answer is
\* not seen; "refused" is a 4xx, of another project's token or of the message.
Answers(d) ==
  LET r == send[d]
      matches == r.bearer = r.sa
  IN  {"unreached", "unauthorized", "refused"}
      \cup (IF matches /\ Live(d[2], r.token) THEN {"ok", "lost"} ELSE {})
      \cup (IF matches /\ ~Live(d[2], r.token) THEN {"unregistered"} ELSE {})

\* For a mutant of MayRetry: one try more.
MayRetryAgain(r) == r.tries <= 2
MayRetry(r) == r.tries < 2
\* For a mutant of Verdict: an answer is taken for success unread.
VerdictUnread(r, answer) ==
  CASE answer \in {"lost", "unreached"} ->
         IF MayRetry(r) THEN [r EXCEPT !.pc = "retry"] ELSE Ended(r, "failed")
    [] answer \notin {"lost", "unreached"} -> Ended(r, "sent")
\* What the delivery does with an answer.
Verdict(r, answer) ==
  CASE answer = "ok" -> Ended(r, "sent")
    [] answer = "unregistered" -> [r EXCEPT !.pc = "clear", !.status = "unregistered"]
    [] answer = "refused" -> Ended(r, "failed")
    [] answer \in {"lost", "unreached"} ->
         IF MayRetry(r) THEN [r EXCEPT !.pc = "retry"] ELSE Ended(r, "failed")
    [] answer = "unauthorized" ->
         IF r.refreshed = 0
           THEN Asking([r EXCEPT !.refreshed = 1], ServiceAccount)
           ELSE Ended(r, "failed")
Post(d, answer) ==
  /\ send[d].pc = "post" /\ answer \in Answers(d)
  /\ send' = [send EXCEPT ![d] = Verdict(@, answer)]
  /\ shown' = IF answer \in {"ok", "lost"} THEN [shown EXCEPT ![d] = @ + 1]
              ELSE shown
  /\ unsure' = IF answer = "lost" THEN unsure \cup {d} ELSE unsure
  /\ IF answer = "unauthorized" /\ send[d].refreshed = 0
       THEN cached' = 0 /\ held' = ServiceAccount
       ELSE UNCHANGED <<cached, held>>
  /\ UNCHANGED <<sendFrame, account, upload, status, lock>>

(***************************************************************************)
(* _deliver after the send: a dead token is dropped unless the phone has   *)
(* registered another meanwhile, and the result is written.                *)
(***************************************************************************)
\* For a mutant of Cleared: whatever token the phone has now.
ClearedAny(p, t) == [token EXCEPT ![p] = 0]
Cleared(p, t) == IF token[p] = t THEN [token EXCEPT ![p] = 0] ELSE token
ClearToken(d, ok) ==
  /\ send[d].pc = "clear"
  /\ token' = IF ok THEN Cleared(d[2], send[d].token) ELSE token
  /\ send' = [send EXCEPT ![d].pc = "record"]
  /\ UNCHANGED <<now, issued, installed, puts, revoked, writing, provider,
                 lastPush, task, history>>
Record(d) ==
  /\ send[d].pc = "record"
  /\ send' = [send EXCEPT ![d].pc = "done"]
  /\ UNCHANGED <<sendFrame, provider, shown, unsure>>

Deliver(d) ==
  \/ StartSend(d) \/ Retry(d) \/ MintStart(d) \/ TakeToken(d) \/ Record(d)
  \/ \E ok \in {TRUE, FALSE} : MintEnd(d, ok) \/ ClearToken(d, ok)
  \/ \E answer \in {"ok", "lost", "unreached", "unauthorized", "refused",
                    "unregistered"} : Post(d, answer)
Push(a) ==
  \/ Dispatch(a) \/ CheckCooldown(a) \/ FinishPush(a)
  \/ \E ps \in SUBSET Phones : ReadTargets(a, ps)
Phone(p) ==
  \/ Rotate(p) \/ Uninstall(p) \/ Revoke(p)
  \/ \E t \in Tokens : PutRead(p, t) \/ PutWrite(p, t)
Account ==
  \/ \E new \in Accounts : SaveAccount(new)
  \/ Invalidate \/ StatusRead \/ StatusWrite \/ TokenExpires

Next ==
  \/ \E a \in Alerts : Push(a)
  \/ \E d \in Deliveries : Deliver(d)
  \/ \E p \in Phones : Phone(p)
  \/ Account
  \/ Advance

Spec == Init /\ [][Next]_vars

\* Coroutines that can run do run, HTTP requests end (they have time limits)
\* and the lock is handed over in order of arrival.
Fairness ==
  /\ \A a \in Alerts : WF_vars(\/ CheckCooldown(a) \/ FinishPush(a)
                              \/ \E ps \in SUBSET Phones : ReadTargets(a, ps))
  /\ \A d \in Deliveries :
       /\ WF_vars(Deliver(d))
       /\ SF_vars(TakeToken(d) \/ MintStart(d))
FairSpec == Spec /\ Fairness

-----------------------------------------------------------------------------
(***************************************************************************)
(* Properties.                                                             *)
(***************************************************************************)
SendPc == {"none", "start", "lock", "mint", "post", "retry", "clear",
           "record", "done"}
Results == {"none", "sent", "failed", "not_configured", "unregistered"}
\* Every variable keeps to its set; in particular a message is tried at most
\* three times, also when errors, lost answers and a 401 come together
\* (send(), attempts and refreshed).
TypeOK ==
  /\ now \in 0 .. MaxTime
  /\ issued \in [Phones -> Tokens] /\ installed \subseteq Phones
  /\ puts \subseteq Phones \X Tokens /\ writing \subseteq Phones \X Tokens
  /\ token \in [Phones -> Tokens] /\ revoked \subseteq Phones
  /\ account \in Accounts /\ upload \in {"idle", "saved"}
  /\ status \in Accounts \cup {NotLoaded} /\ held \in Accounts \cup {NotLoaded}
  /\ cached \in Accounts /\ lock \in SUBSET Deliveries
  /\ lastPush \in [{Key[a] : a \in Alerts} -> 0 .. MaxTime \cup {None}]
  /\ task \in [Alerts -> [pc : {"new", "routed", "reading", "sending", "done"},
                          at : 0 .. MaxTime \cup {None}]]
  /\ send \in [Deliveries -> [pc : SendPc, token : Tokens, sa : Accounts,
                              key : Accounts, bearer : Accounts, tries : 0 .. 3,
                              refreshed : {0, 1}, status : Results]]
  /\ shown \in [Deliveries -> Nat]
  /\ unsure \subseteq Deliveries
  /\ before \in [Alerts -> SUBSET Phones]

\* A retry after a lost answer shows an alert a second time at most: never a
\* third time, whatever errors and 401s follow (send(), the retry rules).
ShownAtMostTwice == \A d \in Deliveries : shown[d] <= 2

\* The delivery report overstates and understates nothing (alert_dispatcher.py,
\* "nothing is ever reported as delivered that was not accepted"): "sent" means
\* FCM took the alert, anything else that it did not, unless its answer was lost.
ReportIsTrue ==
  \A d \in Deliveries : send[d].pc = "done" =>
    /\ send[d].status = "sent" => shown[d] > 0
    /\ send[d].status # "sent" /\ shown[d] > 0 => d \in unsure

\* The dispatcher never drops a token that FCM accepts, though the phone may
\* register a new one, or be reinstalled, while the old one is being refused
\* (_clear_token): only the revocation of the phone does.
LiveTokenKept ==
  [][\A p \in Phones :
       token[p] # 0 /\ Live(p, token[p]) /\ token'[p] = 0
         => p \in revoked']_vars

\* A phone revoked before an alert is raised never gets it, though the phone
\* may be registering a push token at that moment (set_push_token, _targets).
RevokedHearsNothing ==
  \A d \in Deliveries : shown[d] > 0 => d[2] \notin before[d[1]]

\* Deliveries that find no bearer token do not all mint one: one OAuth request
\* is under way at a time (access_token, _token_lock).
OneMint ==
  Cardinality({d \in Deliveries : send[d].pc = "mint"}) <= 1

\* Every dispatched alert gets its delivery report: neither the lock nor a
\* provider that keeps answering 401 holds it up for ever.
PushEnds == \A a \in Alerts : task[a].pc = "routed" ~> task[a].pc = "done"

=============================================================================
