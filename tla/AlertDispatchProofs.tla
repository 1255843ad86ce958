------------------------- MODULE AlertDispatchProofs -------------------------
(***************************************************************************)
(* Proofs about AlertDispatch for every set of alerts and phones and every *)
(* bound.  The inductive invariant counts what a delivery may already have *)
(* shown at each point of send(), says that a token FCM has refused is     *)
(* dead for good, that nothing is sent before the phones are read, and who *)
(* holds the token lock.                                                   *)
(***************************************************************************)
EXTENDS AlertDispatch, FiniteSetTheorems, TLAPS

Sends == [pc : SendPc, token : Tokens, sa : Accounts, key : Accounts,
          bearer : Accounts, tries : 0 .. 3, refreshed : {0, 1},
          status : Results]

\* What a delivery may have shown, by how far send() has come: only a lost
\* answer to the first try is followed by another try.
Counted(r, n) ==
  /\ n <= 2
  /\ r.pc \in {"none", "start"} => n = 0 /\ r.tries = 0 /\ r.refreshed = 0
  /\ r.pc \in {"lock", "mint", "post"} =>
       /\ n <= 1 /\ r.tries >= 1 /\ r.tries <= 2 + r.refreshed
       /\ r.tries = 1 => n = 0 /\ r.refreshed = 0
  /\ r.pc = "retry" => n <= 1 /\ r.tries = 1 /\ r.refreshed = 0
Counts == \A d \in Deliveries : Counted(send[d], shown[d])

\* Tokens only come from FCM, which never issues one twice.
TokensIssued ==
  /\ \A p \in Phones : token[p] <= issued[p]
  /\ \A e \in puts \cup writing : e[2] # 0 /\ e[2] <= issued[e[1]]
  /\ \A d \in Deliveries : send[d].token <= issued[d[2]]
\* A token that was refused as unregistered stays dead.
DeadIsDead ==
  \A d \in Deliveries : send[d].pc = "clear" => ~Live(d[2], send[d].token)

\* Nothing is sent before the phones are read, and the phones that were
\* revoked before are never among them.
NotYetSent ==
  \A d \in Deliveries :
    /\ task[d[1]].pc \in {"new", "routed", "reading"} => send[d].pc = "none"
    /\ d[2] \in before[d[1]] => send[d].pc = "none"
    /\ task[d[1]].pc = "new" => before[d[1]] = {}
StillRevoked == \A a \in Alerts : before[a] \subseteq revoked

MinterHasLock == \A d \in Deliveries : send[d].pc = "mint" => lock = {d}

IInv ==
  /\ TypeOK /\ Counts /\ TokensIssued /\ DeadIsDead /\ NotYetSent
  /\ StillRevoked /\ MinterHasLock

LEMMA InitIInv == Init => IInv
<1> SUFFICES ASSUME Init PROVE IInv
  OBVIOUS
<1> USE BoundsAssumption
<1>1. /\ NoSend \in Sends
      /\ NoSend.pc = "none" /\ NoSend.tries = 0 /\ NoSend.refreshed = 0
      /\ NoSend.token = 0
  BY DEF NoSend, Sends, SendPc, Results, Tokens, Accounts
<1>2. send \in [Deliveries -> Sends] /\ issued \in [Phones -> Tokens]
      /\ \A d \in Deliveries : send[d] = NoSend /\ shown[d] = 0
  BY <1>1 DEF Init, Tokens
<1>3. task \in [Alerts -> [pc : {"new", "routed", "reading", "sending", "done"},
                           at : 0 .. MaxTime \cup {None}]]
      /\ lastPush \in [{Key[a] : a \in Alerts} -> 0 .. MaxTime \cup {None}]
  BY DEF Init
<1>4. TypeOK
  BY <1>2, <1>3 DEF Init, TypeOK, Tokens, Accounts, Sends
<1>5. Counts /\ DeadIsDead /\ MinterHasLock
  BY <1>1, <1>2 DEF Counts, Counted, DeadIsDead, MinterHasLock
<1>6. TokensIssued
  <2>1. \A d \in Deliveries : send[d].token = 0 /\ d[2] \in Phones
    BY <1>1, <1>2 DEF Deliveries
  <2> QED BY <1>2, <2>1 DEF Init, TokensIssued, Tokens
<1>7. NotYetSent /\ StillRevoked
  BY <1>1, <1>2 DEF Init, NotYetSent, StillRevoked, Deliveries
<1> QED BY <1>4, <1>5, <1>6, <1>7 DEF IInv

(***************************************************************************)
(* The steps of one delivery.  Each replaces send[d] by a record that      *)
(* agrees with what was shown; the phones' tokens stay.                    *)
(***************************************************************************)
LEMMA SendStep ==
  ASSUME IInv, NEW d \in Deliveries, NEW r \in Sends,
         send' = [send EXCEPT ![d] = r],
         send[d].pc # "none",
         r.token = send[d].token,
         Counted(r, shown'[d]), shown' \in [Deliveries -> Nat],
         \A e \in Deliveries : e # d => shown'[e] = shown[e],
         r.pc = "clear" => ~Live(d[2], r.token),
         r.pc = "mint" => lock' = {d},
         lock' # lock => (lock = {} \/ lock = {d}) /\ lock' \in {{}, {d}},
         held' \in Accounts \cup {NotLoaded}, cached' \in Accounts,
         unsure' \in SUBSET Deliveries,
         UNCHANGED <<sendFrame, account, upload, status>>
  PROVE  IInv'
<1>1. send \in [Deliveries -> Sends]
  BY DEF IInv, TypeOK, Sends
<1>2. send' \in [Deliveries -> Sends]
      /\ send'[d] = r /\ \A e \in Deliveries : e # d => send'[e] = send[e]
  BY <1>1
<1>3. TypeOK'
  <2>1. lock' \in SUBSET Deliveries
    BY DEF IInv, TypeOK
  <2> QED BY <1>2, <2>1 DEF IInv, TypeOK, sendFrame, phones, Sends
<1>4. Counts'
  BY <1>2 DEF IInv, Counts
<1>5. TokensIssued' /\ DeadIsDead'
  BY <1>2 DEF IInv, TokensIssued, DeadIsDead, Live, sendFrame, phones
<1>6. NotYetSent' /\ StillRevoked'
  BY <1>2 DEF IInv, NotYetSent, StillRevoked, sendFrame, phones
<1>7. MinterHasLock'
  <2> SUFFICES ASSUME NEW e \in Deliveries, send'[e].pc = "mint"
               PROVE  lock' = {e}
    BY DEF MinterHasLock
  <2>1. CASE e = d
    BY <1>2, <2>1
  <2>2. CASE e # d
    <3>1. lock = {e}
      BY <1>2, <2>2 DEF IInv, MinterHasLock
    <3> QED BY <2>2, <3>1
  <2> QED BY <2>1, <2>2
<1> QED BY <1>3, <1>4, <1>5, <1>6, <1>7 DEF IInv

\* What access_token makes of a delivery that asks for a bearer token.
LEMMA AskingFacts ==
  ASSUME NEW r \in Sends, NEW key \in Accounts, r.tries <= 2
  PROVE  /\ Asking(r, key) \in Sends
         /\ Asking(r, key).token = r.token
         /\ Asking(r, key).tries = r.tries + 1
         /\ Asking(r, key).refreshed = r.refreshed
         /\ Asking(r, key).pc \in {"lock", "record"}
<1>1. r.tries + 1 \in 0 .. 3
  BY DEF Sends
<1>2. CASE key = 0
  BY <1>1, <1>2 DEF Asking, Ended, Sends, SendPc, Results
<1>3. CASE key # 0
  BY <1>1, <1>3 DEF Asking, Sends, SendPc
<1> QED BY <1>2, <1>3

LEMMA EndedFacts ==
  ASSUME NEW r \in Sends, NEW result \in Results
  PROVE  /\ Ended(r, result) \in Sends
         /\ Ended(r, result).token = r.token
         /\ Ended(r, result).pc = "record"
BY DEF Ended, Sends, SendPc

LEMMA AccountInUse == TypeOK => ServiceAccount \in Accounts
BY DEF TypeOK, ServiceAccount

LEMMA StartStep ==
  ASSUME IInv, NEW d \in Deliveries, StartSend(d)
  PROVE  IInv'
<1> DEFINE key == ServiceAccount
<1> DEFINE r == IF key = 0 THEN Ended(send[d], "not_configured")
                ELSE [Asking(send[d], key) EXCEPT !.sa = key]
<1>1. /\ send[d] \in Sends /\ key \in Accounts
      /\ send[d].tries = 0 /\ send[d].refreshed = 0 /\ shown[d] = 0
  BY AccountInUse DEF IInv, TypeOK, Sends, Counts, Counted, StartSend
<1>2. /\ r \in Sends /\ r.token = send[d].token
      /\ r.pc \in {"lock", "record"}
      /\ r.pc = "lock" => r.tries = 1 /\ r.refreshed = 0
  <2>1. CASE key = 0
    BY <1>1, <2>1, EndedFacts DEF Results
  <2>2. CASE key # 0
    <3>1. /\ Asking(send[d], key) \in Sends
          /\ Asking(send[d], key).token = send[d].token
          /\ Asking(send[d], key).tries = 1
          /\ Asking(send[d], key).refreshed = 0
          /\ Asking(send[d], key).pc \in {"lock", "record"}
      BY <1>1, AskingFacts
    <3>2. r = [Asking(send[d], key) EXCEPT !.sa = key]
      BY <2>2
    <3> HIDE DEF r, key
    <3> QED BY <1>1, <3>1, <3>2 DEF Sends
  <2> QED BY <2>1, <2>2
<1>3. send' = [send EXCEPT ![d] = r] /\ send[d].pc = "start" /\ held' \in Accounts
  BY <1>1 DEF StartSend
<1> HIDE DEF r, key
<1>4. Counted(r, shown'[d])
  BY <1>1, <1>2 DEF Counted, StartSend
<1> QED BY <1>2, <1>3, <1>4, SendStep DEF StartSend, IInv, TypeOK

LEMMA RetryStep ==
  ASSUME IInv, NEW d \in Deliveries, Retry(d)
  PROVE  IInv'
<1> DEFINE r == Asking(send[d], ServiceAccount)
<1>1. /\ send[d] \in Sends /\ ServiceAccount \in Accounts /\ shown[d] \in Nat
      /\ send[d].tries = 1 /\ send[d].refreshed = 0 /\ shown[d] <= 1
  BY AccountInUse DEF IInv, TypeOK, Sends, Counts, Counted, Retry
<1>2. /\ r \in Sends /\ r.token = send[d].token
      /\ r.pc \in {"lock", "record"} /\ r.tries = 2 /\ r.refreshed = 0
  BY <1>1, AskingFacts
<1>3. send' = [send EXCEPT ![d] = r] /\ send[d].pc = "retry" /\ held' \in Accounts
  BY <1>1 DEF Retry
<1> HIDE DEF r
<1>4. Counted(r, shown'[d])
  BY <1>1, <1>2 DEF Counted, Retry
<1> QED BY <1>2, <1>3, <1>4, SendStep DEF Retry, IInv, TypeOK

LEMMA TokenStep ==
  ASSUME IInv, NEW d \in Deliveries, TakeToken(d) \/ MintStart(d)
  PROVE  IInv'
<1>1. /\ send[d] \in Sends /\ send[d].pc = "lock" /\ cached \in Accounts
      /\ Counted(send[d], shown[d])
  BY DEF IInv, TypeOK, Sends, Counts, TakeToken, MintStart
<1>2. CASE TakeToken(d)
  <2> DEFINE r == [send[d] EXCEPT !.pc = "post", !.bearer = cached]
  <2>1. /\ r \in Sends /\ r.token = send[d].token /\ r.pc = "post"
        /\ Counted(r, shown[d])
    BY <1>1 DEF Sends, SendPc, Counted
  <2>2. send' = [send EXCEPT ![d] = r]
    BY <1>2 DEF TakeToken
  <2> HIDE DEF r
  <2> QED BY <1>1, <1>2, <2>1, <2>2, SendStep DEF TakeToken, provider, IInv, TypeOK
<1>3. CASE MintStart(d)
  <2> DEFINE r == [send[d] EXCEPT !.pc = "mint"]
  <2>1. /\ r \in Sends /\ r.token = send[d].token /\ r.pc = "mint"
        /\ Counted(r, shown[d])
    BY <1>1 DEF Sends, SendPc, Counted
  <2>2. send' = [send EXCEPT ![d] = r]
    BY <1>3 DEF MintStart
  <2> HIDE DEF r
  <2> QED BY <1>1, <1>3, <2>1, <2>2, SendStep DEF MintStart, MayMint, IInv, TypeOK
<1> QED BY <1>2, <1>3

LEMMA MintEndStep ==
  ASSUME IInv, NEW d \in Deliveries, NEW ok \in BOOLEAN, MintEnd(d, ok)
  PROVE  IInv'
<1> DEFINE r == IF ok THEN [send[d] EXCEPT !.pc = "post", !.bearer = send[d].key]
                ELSE Ended(send[d], "failed")
<1>1. /\ send[d] \in Sends /\ send[d].pc = "mint" /\ cached' \in Accounts
      /\ Counted(send[d], shown[d]) /\ lock = {d}
  BY DEF IInv, TypeOK, Sends, Counts, MinterHasLock, MintEnd
<1>2. r \in Sends /\ r.token = send[d].token /\ r.pc \in {"post", "record"}
      /\ Counted(r, shown[d])
  <2>1. CASE ok
    BY <1>1, <2>1 DEF Sends, SendPc, Counted
  <2>2. CASE ~ok
    BY <1>1, <2>2, EndedFacts DEF Results, Counted
  <2> QED BY <2>1, <2>2
<1>3. send' = [send EXCEPT ![d] = r]
  BY DEF MintEnd
<1> HIDE DEF r
<1> QED BY <1>1, <1>2, <1>3, SendStep DEF MintEnd, IInv, TypeOK

LEMMA PostStep ==
  ASSUME IInv, NEW d \in Deliveries,
         NEW answer \in {"ok", "lost", "unreached", "unauthorized", "refused",
                         "unregistered"},
         Post(d, answer)
  PROVE  IInv'
<1> DEFINE r == Verdict(send[d], answer)
<1>1. /\ send[d] \in Sends /\ send[d].pc = "post" /\ ServiceAccount \in Accounts
      /\ Counted(send[d], shown[d]) /\ shown[d] \in Nat
  BY AccountInUse DEF IInv, TypeOK, Sends, Counts, Post
<1>2. /\ send[d].tries \in 1 .. 3 /\ send[d].refreshed \in {0, 1} /\ shown[d] <= 1
      /\ send[d].tries <= 2 + send[d].refreshed
      /\ send[d].tries = 1 => shown[d] = 0 /\ send[d].refreshed = 0
  BY <1>1 DEF Counted, Sends
<1>3. /\ shown' \in [Deliveries -> Nat]
      /\ \A e \in Deliveries : e # d => shown'[e] = shown[e]
      /\ shown'[d] = IF answer \in {"ok", "lost"} THEN shown[d] + 1 ELSE shown[d]
  BY DEF IInv, TypeOK, Post
<1>4. /\ shown'[d] \in 0 .. 2
      /\ answer \notin {"ok", "lost"} => shown'[d] <= 1
      /\ send[d].tries = 1 => shown'[d] <= 1
  <2>1. shown'[d] = shown[d] \/ shown'[d] = shown[d] + 1
    BY <1>3
  <2>2. answer \notin {"ok", "lost"} => shown'[d] = shown[d]
    BY <1>3
  <2>3. shown[d] \in {0, 1} /\ (send[d].tries = 1 => shown[d] = 0)
    BY <1>1, <1>2
  <2> QED BY <2>1, <2>2, <2>3
<1>5. /\ r \in Sends /\ r.token = send[d].token /\ Counted(r, shown'[d])
      /\ r.pc \in {"record", "clear", "retry", "lock"}
      /\ r.pc = "clear" => answer = "unregistered"
  <2>1. CASE answer \in {"ok", "refused"}
    <3>1. PICK result \in Results : r = Ended(send[d], result)
      BY <2>1 DEF Verdict, Results
    <3> HIDE DEF r
    <3>2. r \in Sends /\ r.token = send[d].token /\ r.pc = "record"
      BY <1>1, <3>1, EndedFacts
    <3> QED BY <1>4, <3>2 DEF Counted
  <2>2. CASE answer = "unregistered"
    <3>1. r = [send[d] EXCEPT !.pc = "clear", !.status = "unregistered"]
      BY <2>2 DEF Verdict
    <3> HIDE DEF r
    <3>2. r \in Sends /\ r.token = send[d].token /\ r.pc = "clear"
      BY <1>1, <3>1 DEF Sends, SendPc, Results
    <3> QED BY <1>4, <2>2, <3>2 DEF Counted
  <2>3. CASE answer \in {"lost", "unreached"} /\ MayRetry(send[d])
    <3>1. r = [send[d] EXCEPT !.pc = "retry"]
      BY <2>3 DEF Verdict
    <3> HIDE DEF r
    <3>2. /\ r \in Sends /\ r.token = send[d].token /\ r.pc = "retry"
          /\ r.tries = send[d].tries /\ r.refreshed = send[d].refreshed
      BY <1>1, <3>1 DEF Sends, SendPc
    <3>3. send[d].tries = 1
      BY <1>2, <2>3 DEF MayRetry
    <3> QED BY <1>2, <1>4, <3>2, <3>3 DEF Counted
  <2>4. CASE answer \in {"lost", "unreached"} /\ ~MayRetry(send[d])
    <3>1. r = Ended(send[d], "failed")
      BY <2>4 DEF Verdict
    <3> HIDE DEF r
    <3>2. r \in Sends /\ r.token = send[d].token /\ r.pc = "record"
      BY <1>1, <3>1, EndedFacts DEF Results
    <3> QED BY <1>4, <3>2 DEF Counted
  <2>5. CASE answer = "unauthorized" /\ send[d].refreshed = 0
    <3> DEFINE q == [send[d] EXCEPT !.refreshed = 1]
    <3>1. r = Asking(q, ServiceAccount)
      BY <2>5 DEF Verdict
    <3>2. /\ q \in Sends /\ q.token = send[d].token /\ q.tries = send[d].tries
          /\ q.refreshed = 1 /\ q.tries <= 2
      BY <1>1, <1>2, <2>5 DEF Sends
    <3> HIDE DEF q, r
    <3>3. /\ r \in Sends /\ r.token = send[d].token /\ r.refreshed = 1
          /\ r.tries = send[d].tries + 1 /\ r.pc \in {"lock", "record"}
      BY <1>1, <3>1, <3>2, AskingFacts
    <3>4. r.tries \in 2 .. 3 /\ shown'[d] <= 1
      BY <1>2, <1>4, <2>5, <3>2, <3>3
    <3> QED BY <1>4, <3>3, <3>4 DEF Counted
  <2>6. CASE answer = "unauthorized" /\ send[d].refreshed # 0
    <3>1. r = Ended(send[d], "failed")
      BY <2>6 DEF Verdict
    <3> HIDE DEF r
    <3>2. r \in Sends /\ r.token = send[d].token /\ r.pc = "record"
      BY <1>1, <3>1, EndedFacts DEF Results
    <3> QED BY <1>4, <3>2 DEF Counted
  <2> QED BY <2>1, <2>2, <2>3, <2>4, <2>5, <2>6
<1>6. answer = "unregistered" => ~Live(d[2], send[d].token)
  BY DEF Post, Answers
<1>7. /\ send' = [send EXCEPT ![d] = r]
      /\ held' \in Accounts \cup {NotLoaded} /\ cached' \in Accounts
      /\ unsure' \in SUBSET Deliveries
  BY <1>1, BoundsAssumption DEF Post, IInv, TypeOK, Accounts
<1> HIDE DEF r
<1> QED BY <1>1, <1>3, <1>5, <1>6, <1>7, SendStep DEF Post

LEMMA ClearStep ==
  ASSUME IInv, NEW d \in Deliveries, NEW ok \in BOOLEAN, ClearToken(d, ok)
  PROVE  IInv'
<1> DEFINE r == [send[d] EXCEPT !.pc = "record"]
<1>1. /\ send[d] \in Sends /\ r \in Sends /\ r.pc = "record"
      /\ r.token = send[d].token /\ Counted(r, shown[d])
  BY DEF IInv, TypeOK, Sends, SendPc, Counts, Counted, ClearToken
<1>2. token' \in [Phones -> Tokens]
      /\ \A p \in Phones : token'[p] = token[p] \/ token'[p] = 0
  BY BoundsAssumption DEF IInv, TypeOK, ClearToken, Cleared, Tokens, Deliveries
<1>3. /\ send' = [send EXCEPT ![d] = r]
      /\ send' \in [Deliveries -> Sends] /\ send'[d] = r
      /\ \A e \in Deliveries : e # d => send'[e] = send[e]
  BY <1>1 DEF ClearToken, IInv, TypeOK, Sends
<1> HIDE DEF r
<1>4. TypeOK'
  BY <1>2, <1>3 DEF IInv, TypeOK, ClearToken, provider, history, Sends
<1>5. Counts' /\ DeadIsDead' /\ NotYetSent' /\ StillRevoked' /\ MinterHasLock'
  BY <1>1, <1>3 DEF IInv, Counts, DeadIsDead, NotYetSent, StillRevoked,
                    MinterHasLock, ClearToken, provider, history, Live
<1>6. TokensIssued'
  <2>1. issued \in [Phones -> Tokens] /\ \A e \in Deliveries : send'[e].token = send[e].token
    BY <1>1, <1>3 DEF IInv, TypeOK
  <2> QED BY <1>2, <2>1 DEF IInv, TokensIssued, ClearToken, Tokens
<1> QED BY <1>4, <1>5, <1>6 DEF IInv

LEMMA RecordStep ==
  ASSUME IInv, NEW d \in Deliveries, Record(d)
  PROVE  IInv'
<1> DEFINE r == [send[d] EXCEPT !.pc = "done"]
<1>1. /\ r \in Sends /\ r.token = send[d].token /\ r.pc = "done"
      /\ Counted(r, shown[d]) /\ send' = [send EXCEPT ![d] = r]
      /\ send[d].pc = "record"
  BY DEF IInv, TypeOK, Sends, SendPc, Counts, Counted, Record
<1> HIDE DEF r
<1> QED BY <1>1, SendStep DEF Record, provider, IInv, TypeOK

LEMMA DeliverStep ==
  ASSUME IInv, NEW d \in Deliveries, Deliver(d)
  PROVE  IInv'
BY StartStep, RetryStep, TokenStep, MintEndStep, PostStep, ClearStep, RecordStep
   DEF Deliver

(***************************************************************************)
(* The steps of _push.                                                     *)
(***************************************************************************)
LEMMA PushStep ==
  ASSUME IInv, NEW a \in Alerts, Push(a)
  PROVE  IInv'
<1> DEFINE Tasks == [pc : {"new", "routed", "reading", "sending", "done"},
                     at : 0 .. MaxTime \cup {None}]
<1>1. task \in [Alerts -> Tasks] /\ task[a] \in Tasks
  BY DEF IInv, TypeOK
<1>2. CASE Dispatch(a)
  <2>1. task' = [task EXCEPT ![a].pc = "routed"] /\ task[a].pc = "new"
    BY <1>2 DEF Dispatch
  <2>2. task' \in [Alerts -> Tasks]
    BY <1>1, <2>1
  <2>3. before' \in [Alerts -> SUBSET Phones] /\ StillRevoked'
        /\ before' = [before EXCEPT ![a] = revoked]
    BY <1>2 DEF Dispatch, IInv, TypeOK, StillRevoked, phones
  <2>4. TypeOK'
    BY <1>2, <2>2, <2>3 DEF Dispatch, IInv, TypeOK, phones, provider
  <2>5. Counts' /\ TokensIssued' /\ DeadIsDead' /\ MinterHasLock'
    BY <1>2 DEF Dispatch, IInv, Counts, TokensIssued, DeadIsDead, MinterHasLock,
                phones, provider, Live
  <2>6. NotYetSent'
    <3> SUFFICES ASSUME NEW d \in Deliveries
                 PROVE  /\ task'[d[1]].pc \in {"new", "routed", "reading"}
                             => send'[d].pc = "none"
                        /\ d[2] \in before'[d[1]] => send'[d].pc = "none"
                        /\ task'[d[1]].pc = "new" => before'[d[1]] = {}
      BY DEF NotYetSent
    <3>1. d[1] \in Alerts
      BY DEF Deliveries
    <3>2. CASE d[1] = a
      BY <1>1, <1>2, <2>1, <3>2 DEF Dispatch, IInv, NotYetSent
    <3>3. CASE d[1] # a
      BY <1>1, <1>2, <2>1, <2>3, <3>1, <3>3 DEF Dispatch, IInv, NotYetSent, TypeOK
    <3> QED BY <3>2, <3>3
  <2> QED BY <2>3, <2>4, <2>5, <2>6 DEF IInv
<1>3. CASE CheckCooldown(a) \/ FinishPush(a)
  <2>1. PICK new \in Tasks : task' = [task EXCEPT ![a] = new]
                             /\ new.pc \in {"done", "reading"}
                             /\ (new.pc = "reading" => task[a].pc = "routed")
    <3>1. CASE CheckCooldown(a)
      <4>1. now \in 0 .. MaxTime
        BY DEF IInv, TypeOK
      <4>2. [pc |-> "done", at |-> None] \in Tasks /\ [pc |-> "reading", at |-> now] \in Tasks
        BY <4>1
      <4> QED BY <3>1, <4>2 DEF CheckCooldown
    <3>2. CASE FinishPush(a)
      <4>1. [task[a] EXCEPT !.pc = "done"] \in Tasks
        BY <1>1
      <4> QED BY <1>1, <3>2, <4>1 DEF FinishPush
    <3> QED BY <1>3, <3>1, <3>2
  <2>2. /\ UNCHANGED <<now, phones, provider, lastPush, send, history>>
    BY <1>3 DEF CheckCooldown, FinishPush
  <2>3. task' \in [Alerts -> Tasks]
    BY <1>1, <2>1
  <2>4. TypeOK'
    BY <2>2, <2>3 DEF IInv, TypeOK, phones, provider, history
  <2>5. Counts' /\ TokensIssued' /\ DeadIsDead' /\ MinterHasLock' /\ StillRevoked'
    BY <2>2 DEF IInv, Counts, TokensIssued, DeadIsDead, MinterHasLock,
                StillRevoked, phones, provider, history, Live
  <2>6. NotYetSent'
    BY <1>1, <2>1, <2>2 DEF IInv, NotYetSent, history, Deliveries
  <2> QED BY <2>4, <2>5, <2>6 DEF IInv
<1>4. ASSUME NEW ps \in SUBSET Phones, ReadTargets(a, ps)
      PROVE  IInv'
  <2> DEFINE fresh(p) == [pc |-> "start", token |-> token[p], sa |-> 0,
                          key |-> 0, bearer |-> 0, tries |-> 0,
                          refreshed |-> 0, status |-> "none"]
  <2>1. \A p \in Phones : fresh(p) \in Sends
    BY BoundsAssumption DEF IInv, TypeOK, Sends, SendPc, Results, Accounts
  <2>2. \A d \in Deliveries : send'[d] = IF d[1] = a /\ d[2] \in ps
                                         THEN fresh(d[2]) ELSE send[d]
    BY <1>4 DEF ReadTargets
  <2>3. \A d \in Deliveries :
          IF d[1] = a /\ d[2] \in ps
            THEN /\ send'[d].pc = "start" /\ send'[d].token = token[d[2]]
                 /\ send'[d].tries = 0 /\ send'[d].refreshed = 0
            ELSE send'[d] = send[d]
    <3> SUFFICES ASSUME NEW d \in Deliveries
                 PROVE  IF d[1] = a /\ d[2] \in ps
                          THEN /\ send'[d].pc = "start"
                               /\ send'[d].token = token[d[2]]
                               /\ send'[d].tries = 0
                               /\ send'[d].refreshed = 0
                          ELSE send'[d] = send[d]
      OBVIOUS
    <3>1. CASE d[1] = a /\ d[2] \in ps
      <4>1. send'[d] = fresh(d[2])
        BY <2>2, <3>1
      <4> QED BY <3>1, <4>1
    <3>2. CASE ~(d[1] = a /\ d[2] \in ps)
      BY <2>2, <3>2
    <3> QED BY <3>1, <3>2
  <2>4. send' \in [Deliveries -> Sends]
    <3>1. \A d \in Deliveries : send[d] \in Sends /\ d[2] \in Phones
      BY DEF IInv, TypeOK, Sends, Deliveries
    <3>2. send' = [d \in Deliveries |-> IF d[1] = a /\ d[2] \in ps
                                        THEN fresh(d[2]) ELSE send[d]]
      BY <1>4 DEF ReadTargets
    <3> HIDE DEF fresh
    <3> QED BY <2>1, <3>1, <3>2
  <2>5. task' = [task EXCEPT ![a].pc = "sending"] /\ task' \in [Alerts -> Tasks]
        /\ task[a].pc = "reading" /\ task[a].at \in 0 .. MaxTime \cup {None}
    BY <1>1, <1>4 DEF ReadTargets
  <2>6. lastPush' \in [{Key[b] : b \in Alerts} -> 0 .. MaxTime \cup {None}]
    BY <1>4, <2>5 DEF ReadTargets, IInv, TypeOK
  <2>7. TypeOK'
    BY <1>4, <2>4, <2>5, <2>6 DEF ReadTargets, IInv, TypeOK, phones, provider,
                                  history, Sends
  <2>8. \A d \in Deliveries : d[1] = a => send[d].pc = "none" /\ shown[d] = 0
    BY <2>5 DEF IInv, NotYetSent, Counts, Counted
  <2>9. Counts'
    <3> SUFFICES ASSUME NEW d \in Deliveries PROVE Counted(send'[d], shown'[d])
      BY DEF Counts
    <3>1. shown'[d] = shown[d]
      BY <1>4 DEF ReadTargets, history
    <3>2. CASE d[1] = a /\ d[2] \in ps
      <4>1. shown'[d] = 0
        BY <2>8, <3>1, <3>2
      <4>3. shown'[d] <= 2
        BY <4>1
      <4>2. /\ send'[d].pc = "start" /\ send'[d].tries = 0
            /\ send'[d].refreshed = 0
        BY <2>3, <3>2
      <4> QED BY <4>1, <4>2, <4>3 DEF Counted
    <3>3. CASE ~(d[1] = a /\ d[2] \in ps)
      BY <2>2, <3>1, <3>3 DEF IInv, Counts
    <3> QED BY <3>2, <3>3
  <2>10. UNCHANGED <<now, phones, provider, history>>
    BY <1>4 DEF ReadTargets
  <2>11. TokensIssued' /\ DeadIsDead' /\ MinterHasLock' /\ StillRevoked'
    <3>1. \A d \in Deliveries :
            /\ d[2] \in Phones
            /\ \/ send'[d] = send[d]
               \/ send'[d].pc = "start" /\ send'[d].token = token[d[2]]
      BY <2>3 DEF Deliveries
    <3>2. TokensIssued'
      BY <2>10, <3>1 DEF IInv, TokensIssued, phones
    <3> QED BY <2>10, <3>1, <3>2 DEF IInv, DeadIsDead, MinterHasLock,
               StillRevoked, phones, provider, history, Live
  <2>12. NotYetSent'
    <3> SUFFICES ASSUME NEW d \in Deliveries
                 PROVE  /\ task'[d[1]].pc \in {"new", "routed", "reading"}
                             => send'[d].pc = "none"
                        /\ d[2] \in before'[d[1]] => send'[d].pc = "none"
                        /\ task'[d[1]].pc = "new" => before'[d[1]] = {}
      BY DEF NotYetSent
    <3>1. d[1] \in Alerts
      BY DEF Deliveries
    <3>2. CASE d[1] = a
      <4>1. d[2] \in ps => d[2] \notin before[d[1]]
        BY <1>4, <3>1 DEF ReadTargets, Targets, IInv, StillRevoked
      <4> QED BY <1>1, <2>2, <2>5, <2>10, <3>2, <4>1 DEF IInv, NotYetSent, history
    <3>3. CASE d[1] # a
      BY <1>1, <2>2, <2>5, <2>10, <3>1, <3>3 DEF IInv, NotYetSent, history
    <3> QED BY <3>2, <3>3
  <2> QED BY <2>7, <2>9, <2>11, <2>12 DEF IInv
<1> QED BY <1>2, <1>3, <1>4 DEF Push

(***************************************************************************)
(* The phones, the service account and the clock.                          *)
(***************************************************************************)
LEMMA PhoneStep ==
  ASSUME IInv, NEW p \in Phones, Phone(p)
  PROVE  IInv'
<1>1. /\ issued \in [Phones -> Nat] /\ token \in [Phones -> Nat]
      /\ \A d \in Deliveries : send[d].token \in Nat /\ d[2] \in Phones
      /\ \A e \in puts \cup writing : e[1] \in Phones /\ e[2] \in Nat
  BY BoundsAssumption DEF IInv, TypeOK, Tokens, Deliveries
<1>2. CASE Rotate(p)
  <2>1. issued' \in [Phones -> Tokens] /\ puts' \subseteq Phones \X Tokens
        /\ issued' = [issued EXCEPT ![p] = @ + 1]
    BY <1>1, <1>2, BoundsAssumption DEF Rotate, IInv, TypeOK, Tokens
  <2>2. TypeOK'
    BY <1>2, <2>1 DEF Rotate, IInv, TypeOK, provider, history
  <2>3. TokensIssued'
    <3>1. \A q \in Phones : issued[q] <= issued'[q]
      BY <1>1, <2>1
    <3>2. \A q \in Phones, t \in Nat : t <= issued[q] => t <= issued'[q]
      BY <1>1, <2>1, <3>1 DEF Tokens
    <3>3. \A e \in puts' \cup writing' : e[2] # 0 /\ e[2] <= issued'[e[1]]
      <4> SUFFICES ASSUME NEW e \in puts' \cup writing'
                   PROVE  e[2] # 0 /\ e[2] <= issued'[e[1]]
        OBVIOUS
      <4>1. CASE e \in puts \cup writing
        BY <1>1, <3>2, <4>1 DEF IInv, TokensIssued
      <4>2. CASE e = <<p, issued[p] + 1>>
        BY <1>1, <2>1, <4>2
      <4> QED BY <1>2, <4>1, <4>2 DEF Rotate
    <3> QED BY <1>1, <1>2, <3>2, <3>3 DEF Rotate, IInv, TokensIssued
  <2>4. DeadIsDead'
    BY <1>1, <1>2, <2>1 DEF Rotate, IInv, TokensIssued, DeadIsDead, Live
  <2> QED BY <1>2, <2>2, <2>3, <2>4 DEF Rotate, IInv, Counts, NotYetSent,
             StillRevoked, MinterHasLock, provider, history
<1>3. CASE Uninstall(p)
  <2>1. TypeOK' /\ TokensIssued' /\ DeadIsDead'
    BY <1>3 DEF Uninstall, IInv, TypeOK, TokensIssued, DeadIsDead, Live, provider, history
  <2> QED BY <1>3, <2>1 DEF Uninstall, IInv, Counts, NotYetSent,
             StillRevoked, MinterHasLock, provider, history
<1>4. CASE Revoke(p)
  <2>1. token' \in [Phones -> Tokens] /\ token' = [token EXCEPT ![p] = 0]
    BY <1>4, BoundsAssumption DEF Revoke, IInv, TypeOK, Tokens
  <2>2. TypeOK'
    BY <1>4, <2>1 DEF Revoke, IInv, TypeOK, provider, history
  <2>3. TokensIssued'
    BY <1>1, <1>4, <2>1 DEF Revoke, IInv, TokensIssued
  <2>4. DeadIsDead' /\ StillRevoked'
    BY <1>4 DEF Revoke, IInv, DeadIsDead, Live, StillRevoked, history
  <2> QED BY <1>4, <2>2, <2>3, <2>4 DEF Revoke, IInv, Counts, NotYetSent,
             MinterHasLock, provider, history
<1>5. ASSUME NEW t \in Tokens, PutRead(p, t) PROVE IInv'
  <2>1. puts' \subseteq puts /\ writing' \subseteq writing \cup puts
    BY <1>5 DEF PutRead
  <2>2. TypeOK'
    BY <1>5, <2>1 DEF PutRead, IInv, TypeOK, provider, history
  <2>3. TokensIssued' /\ DeadIsDead'
    BY <1>5, <2>1 DEF PutRead, IInv, TokensIssued, DeadIsDead, Live
  <2> QED BY <1>5, <2>2, <2>3 DEF PutRead, IInv, Counts, NotYetSent,
             StillRevoked, MinterHasLock, provider, history
<1>6. ASSUME NEW t \in Tokens, PutWrite(p, t) PROVE IInv'
  <2>1. token' \in [Phones -> Tokens] /\ token' = [token EXCEPT ![p] = t]
        /\ writing' \subseteq writing /\ t <= issued[p]
    BY <1>6 DEF PutWrite, IInv, TypeOK, TokensIssued
  <2>2. TypeOK'
    BY <1>6, <2>1 DEF PutWrite, IInv, TypeOK, provider, history
  <2>3. TokensIssued' /\ DeadIsDead'
    BY <1>1, <1>6, <2>1 DEF PutWrite, IInv, TokensIssued, DeadIsDead, Live
  <2> QED BY <1>6, <2>2, <2>3 DEF PutWrite, IInv, Counts, NotYetSent,
             StillRevoked, MinterHasLock, provider, history
<1> QED BY <1>2, <1>3, <1>4, <1>5, <1>6 DEF Phone

LEMMA OtherStep ==
  ASSUME IInv, Account \/ Advance \/ UNCHANGED vars
  PROVE  IInv'
<1>1. UNCHANGED <<phones, lock, task, send, history>>
  BY DEF Account, SaveAccount, Invalidate, StatusRead, StatusWrite,
         TokenExpires, Advance, vars, provider
<1>2. TypeOK'
  <2>1. /\ account' \in Accounts /\ upload' \in {"idle", "saved"}
        /\ status' \in Accounts \cup {NotLoaded}
        /\ held' \in Accounts \cup {NotLoaded} /\ cached' \in Accounts
        /\ now' \in 0 .. MaxTime /\ lastPush' = lastPush
    BY BoundsAssumption DEF IInv, TypeOK, Accounts, Account, SaveAccount,
       Invalidate, StatusRead, StatusWrite, TokenExpires, Advance, vars, provider
  <2> QED BY <1>1, <2>1 DEF IInv, TypeOK, phones, history
<1> QED BY <1>1, <1>2 DEF IInv, Counts, TokensIssued, DeadIsDead, Live,
           NotYetSent, StillRevoked, MinterHasLock, phones, history

LEMMA NextIInv == IInv /\ [Next]_vars => IInv'
BY DeliverStep, PushStep, PhoneStep, OtherStep DEF Next

THEOREM Invariance == Spec => []IInv
BY InitIInv, NextIInv, PTL DEF Spec

\* Every variable keeps to its set; no message is tried more than three times.
THEOREM TypeCorrect == Spec => []TypeOK
BY Invariance, PTL DEF IInv

\* No phone is shown an alert more than twice.
THEOREM ShownAtMostTwiceHolds == Spec => []ShownAtMostTwice
<1>1. IInv => ShownAtMostTwice
  BY DEF IInv, Counts, Counted, ShownAtMostTwice
<1> QED BY <1>1, Invariance, PTL

\* A phone that was revoked before an alert was raised does not get it.
THEOREM RevokedHearsNothingHolds == Spec => []RevokedHearsNothing
<1>1. IInv => RevokedHearsNothing
  <2> SUFFICES ASSUME IInv, NEW d \in Deliveries, d[2] \in before[d[1]]
               PROVE  ~(shown[d] > 0)
    BY DEF RevokedHearsNothing
  <2>1. send[d].pc = "none"
    BY DEF IInv, NotYetSent
  <2> QED BY <2>1 DEF IInv, Counts, Counted
<1> QED BY <1>1, Invariance, PTL

\* One OAuth request is under way at a time.
THEOREM OneMintHolds == Spec => []OneMint
<1>1. IInv => OneMint
  <2> SUFFICES ASSUME IInv PROVE OneMint
    OBVIOUS
  <2> DEFINE minting == {d \in Deliveries : send[d].pc = "mint"}
  <2>1. CASE minting = {}
    BY <2>1, FS_EmptySet DEF OneMint
  <2>2. CASE minting # {}
    <3>1. PICK d \in minting : TRUE
      BY <2>2
    <3>2. \A e \in minting : lock = {e}
      BY DEF IInv, MinterHasLock
    <3>3. minting = {d}
      BY <3>1, <3>2
    <3> HIDE DEF minting
    <3>4. Cardinality(minting) = 1
      BY <3>3, FS_Singleton
    <3> QED BY <3>4 DEF OneMint, minting
  <2> QED BY <2>1, <2>2
<1> QED BY <1>1, Invariance, PTL

\* A token that FCM accepts is only ever dropped when its phone is revoked.
LEMMA LiveTokenStep ==
  ASSUME IInv, [Next]_vars, NEW p \in Phones,
         token[p] # 0, Live(p, token[p]), token'[p] = 0
  PROVE  p \in revoked'
<1>1. token \in [Phones -> Tokens] /\ \A d \in Deliveries : d[2] \in Phones
  BY DEF IInv, TypeOK, Deliveries
<1>2. PICK q \in Phones : \/ Revoke(q)
                          \/ \E t \in Tokens : PutWrite(q, t)
                          \/ \E d \in Deliveries, ok \in BOOLEAN : ClearToken(d, ok)
  BY DEF Next, Push, Deliver, Phone, Account, Dispatch, CheckCooldown,
         ReadTargets, FinishPush, StartSend, Retry, TakeToken, MintStart,
         MintEnd, Post, Record, Rotate, Uninstall, PutRead, SaveAccount,
         Invalidate, StatusRead, StatusWrite, TokenExpires, Advance, vars,
         phones, sendFrame
<1>3. CASE Revoke(q)
  BY <1>1, <1>3 DEF Revoke
<1>4. ASSUME NEW t \in Tokens, PutWrite(q, t) PROVE FALSE
  BY <1>1, <1>4 DEF PutWrite, IInv, TokensIssued
<1>5. ASSUME NEW d \in Deliveries, NEW ok \in BOOLEAN, ClearToken(d, ok)
      PROVE  FALSE
  BY <1>1, <1>5 DEF ClearToken, Cleared, IInv, DeadIsDead
<1> QED BY <1>2, <1>3, <1>4, <1>5

THEOREM LiveTokenKeptHolds == Spec => LiveTokenKept
<1>1. IInv /\ [Next]_vars
        => [\A p \in Phones : token[p] # 0 /\ Live(p, token[p]) /\ token'[p] = 0
              => p \in revoked']_vars
  BY LiveTokenStep
<1> QED BY <1>1, Invariance, PTL DEF Spec, LiveTokenKept

(***************************************************************************)
(* The delivery report.  While send() is under way the row has no result;  *)
(* afterwards the result says what FCM did, but for lost answers.          *)
(***************************************************************************)
Reported(r, n, lost) ==
  /\ r.status = "sent" => n > 0
  /\ r.status # "sent" /\ n > 0 => lost
  /\ r.pc \notin {"clear", "record", "done"} => r.status = "none"
Reports == \A d \in Deliveries : Reported(send[d], shown[d], d \in unsure)

LEMMA InitReports == Init => Reports
<1> SUFFICES ASSUME Init, NEW d \in Deliveries
             PROVE  Reported(send[d], shown[d], d \in unsure)
  BY DEF Reports
<1>1. send[d].status = "none" /\ shown[d] = 0
  BY DEF Init, NoSend
<1> QED BY <1>1 DEF Reported

\* A step of one delivery that FCM does not see.
LEMMA QuietReport ==
  ASSUME IInv, Reports, NEW d \in Deliveries, NEW r \in Sends,
         send' = [send EXCEPT ![d] = r], UNCHANGED <<shown, unsure>>,
         \/ r.pc \in {"lock", "mint", "post"} /\ r.status = "none"
         \/ r.pc = "record" /\ r.status # "sent" /\ send[d].status = "none"
         \/ r.pc \in {"record", "done"} /\ r.status = send[d].status,
         r.pc \in {"lock", "mint", "post"} => send[d].status = "none"
  PROVE  Reports'
<1>1. /\ send'[d] = r
      /\ \A e \in Deliveries : e # d => send'[e] = send[e]
  BY DEF IInv, TypeOK
<1>2. Reported(send[d], shown[d], d \in unsure)
  BY DEF Reports
<1>3. Reported(r, shown[d], d \in unsure)
  BY <1>2 DEF Reported
<1> QED BY <1>1, <1>3 DEF Reports

\* The result that asking for a bearer token may already give.
LEMMA AskingStatus ==
  ASSUME NEW r \in Sends, NEW key \in Accounts, r.tries <= 2
  PROVE  \/ Asking(r, key).pc = "lock" /\ Asking(r, key).status = r.status
         \/ Asking(r, key).pc = "record" /\ Asking(r, key).status = "failed"
<1>1. r.tries + 1 \in 0 .. 3
  BY DEF Sends
<1>2. CASE key = 0
  BY <1>1, <1>2 DEF Asking, Ended, Sends, SendPc, Results
<1>3. CASE key # 0
  BY <1>1, <1>3 DEF Asking, Sends, SendPc
<1> QED BY <1>2, <1>3

LEMMA EndedStatus ==
  ASSUME NEW r \in Sends, NEW result \in Results
  PROVE  Ended(r, result).status = result
BY DEF Ended, Sends, SendPc

LEMMA PostReport ==
  ASSUME IInv, Reports, NEW d \in Deliveries,
         NEW answer \in {"ok", "lost", "unreached", "unauthorized", "refused",
                         "unregistered"},
         Post(d, answer)
  PROVE  Reports'
<1> DEFINE r == Verdict(send[d], answer)
<1>1. /\ send[d] \in Sends /\ send[d].pc = "post" /\ ServiceAccount \in Accounts
      /\ Counted(send[d], shown[d]) /\ shown[d] \in Nat
      /\ Reported(send[d], shown[d], d \in unsure)
  BY AccountInUse DEF IInv, TypeOK, Sends, Counts, Post, Reports
<1>2. send[d].status = "none" /\ (shown[d] > 0 => d \in unsure)
  BY <1>1 DEF Reported
<1>3. /\ send'[d] = r
      /\ shown'[d] = IF answer \in {"ok", "lost"} THEN shown[d] + 1 ELSE shown[d]
      /\ unsure' = IF answer = "lost" THEN unsure \cup {d} ELSE unsure
      /\ \A e \in Deliveries : e # d => send'[e] = send[e] /\ shown'[e] = shown[e]
  BY DEF IInv, TypeOK, Post
<1>4. answer # "ok" /\ shown'[d] > 0 => d \in unsure'
  BY <1>2, <1>3
<1>5. CASE answer = "ok"
  <2>1. r = Ended(send[d], "sent") /\ shown'[d] > 0
    BY <1>1, <1>3, <1>5 DEF Verdict
  <2> HIDE DEF r
  <2>3. r.status = "sent" /\ r.pc = "record"
    BY <1>1, <2>1, EndedFacts, EndedStatus DEF Results
  <2>2. Reported(r, shown'[d], d \in unsure')
    BY <2>1, <2>3 DEF Reported
  <2> QED BY <1>3, <1>5, <2>2 DEF Reports
<1>6. CASE answer # "ok"
  <2>1. \/ r.pc \in {"clear", "record"} /\ r.status \in {"failed", "unregistered"}
        \/ r.pc \in {"retry", "lock"} /\ r.status = "none"
    <3>1. CASE answer = "unregistered"
      BY <1>1, <3>1 DEF Verdict, Sends, SendPc, Results
    <3>2. CASE \/ answer = "refused"
               \/ answer \in {"lost", "unreached"} /\ ~MayRetry(send[d])
               \/ answer = "unauthorized" /\ send[d].refreshed # 0
      <4>1. r = Ended(send[d], "failed")
        BY <3>2 DEF Verdict
      <4> HIDE DEF r
      <4> QED BY <1>1, <4>1, EndedFacts, EndedStatus DEF Results
    <3>3. CASE answer \in {"lost", "unreached"} /\ MayRetry(send[d])
      <4>1. r = [send[d] EXCEPT !.pc = "retry"]
        BY <3>3 DEF Verdict
      <4> QED BY <1>1, <1>2, <4>1 DEF Sends, SendPc
    <3>4. CASE answer = "unauthorized" /\ send[d].refreshed = 0
      <4> DEFINE q == [send[d] EXCEPT !.refreshed = 1]
      <4>1. r = Asking(q, ServiceAccount)
        BY <3>4 DEF Verdict
      <4>2. q \in Sends /\ q.status = "none" /\ q.tries <= 2
        BY <1>1, <1>2, <3>4 DEF Sends, Counted
      <4> HIDE DEF q, r
      <4> QED BY <1>1, <4>1, <4>2, AskingStatus
    <3> QED BY <1>6, <3>1, <3>2, <3>3, <3>4
  <2> HIDE DEF r
  <2>2. Reported(r, shown'[d], d \in unsure')
    BY <1>4, <1>6, <2>1 DEF Reported
  <2> QED BY <1>3, <2>2 DEF Reports
<1> QED BY <1>5, <1>6

LEMMA DeliverReports ==
  ASSUME IInv, Reports, NEW d \in Deliveries, Deliver(d)
  PROVE  Reports'
<1>1. /\ send[d] \in Sends /\ ServiceAccount \in Accounts
      /\ Counted(send[d], shown[d]) /\ cached \in Accounts
      /\ Reported(send[d], shown[d], d \in unsure)
  BY AccountInUse DEF IInv, TypeOK, Sends, Counts, Reports
<1>2. CASE StartSend(d)
  <2>1. send[d].tries = 0 /\ send[d].status = "none"
    BY <1>1, <1>2 DEF StartSend, Counted, Reported
  <2>2. CASE ServiceAccount = 0
    <3>1. send' = [send EXCEPT ![d] = Ended(send[d], "not_configured")]
      BY <1>2, <2>2 DEF StartSend
    <3> QED BY <1>1, <1>2, <2>1, <3>1, EndedFacts, EndedStatus, QuietReport
            DEF StartSend, Results
  <2>3. CASE ServiceAccount # 0
    <3> DEFINE q == Asking(send[d], ServiceAccount)
               r == [q EXCEPT !.sa = ServiceAccount]
    <3>1. /\ q \in Sends
          /\ \/ q.pc = "lock" /\ q.status = "none"
             \/ q.pc = "record" /\ q.status = "failed"
      BY <1>1, <2>1, AskingFacts, AskingStatus
    <3>2. send' = [send EXCEPT ![d] = r]
      BY <1>2, <2>3 DEF StartSend
    <3> HIDE DEF q
    <3>3. r \in Sends /\ r.pc = q.pc /\ r.status = q.status
      BY <1>1, <3>1 DEF Sends
    <3> HIDE DEF r
    <3> QED BY <1>2, <2>1, <3>1, <3>2, <3>3, QuietReport DEF StartSend
  <2> QED BY <2>2, <2>3
<1>3. CASE Retry(d)
  <2>1. send[d].tries = 1 /\ send[d].status = "none"
    BY <1>1, <1>3 DEF Retry, Counted, Reported
  <2> DEFINE r == Asking(send[d], ServiceAccount)
  <2>2. /\ r \in Sends
        /\ \/ r.pc = "lock" /\ r.status = "none"
           \/ r.pc = "record" /\ r.status = "failed"
    BY <1>1, <2>1, AskingFacts, AskingStatus
  <2>3. send' = [send EXCEPT ![d] = r]
    BY <1>3 DEF Retry
  <2> HIDE DEF r
  <2> QED BY <1>3, <2>1, <2>2, <2>3, QuietReport DEF Retry
<1>4. CASE TakeToken(d)
  <2> DEFINE r == [send[d] EXCEPT !.pc = "post", !.bearer = cached]
  <2>1. send[d].status = "none"
    BY <1>1, <1>4 DEF TakeToken, Reported
  <2>2. r \in Sends /\ r.pc = "post" /\ r.status = "none"
    BY <1>1, <2>1 DEF Sends, SendPc
  <2>3. send' = [send EXCEPT ![d] = r]
    BY <1>4 DEF TakeToken
  <2> HIDE DEF r
  <2> QED BY <1>4, <2>1, <2>2, <2>3, QuietReport DEF TakeToken
<1>5. CASE MintStart(d)
  <2> DEFINE r == [send[d] EXCEPT !.pc = "mint"]
  <2>1. send[d].status = "none"
    BY <1>1, <1>5 DEF MintStart, Reported
  <2>2. r \in Sends /\ r.pc = "mint" /\ r.status = "none"
    BY <1>1, <2>1 DEF Sends, SendPc
  <2>3. send' = [send EXCEPT ![d] = r]
    BY <1>5 DEF MintStart
  <2> HIDE DEF r
  <2> QED BY <1>5, <2>1, <2>2, <2>3, QuietReport DEF MintStart
<1>6. ASSUME NEW ok \in BOOLEAN, MintEnd(d, ok)
      PROVE  Reports'
  <2>1. send[d].status = "none"
    BY <1>1, <1>6 DEF MintEnd, Reported
  <2>2. CASE ok
    <3> DEFINE r == [send[d] EXCEPT !.pc = "post", !.bearer = send[d].key]
    <3>1. r \in Sends /\ r.pc = "post" /\ r.status = "none"
      BY <1>1, <2>1 DEF Sends, SendPc
    <3>2. send' = [send EXCEPT ![d] = r]
      BY <1>6, <2>2 DEF MintEnd
    <3> HIDE DEF r
    <3> QED BY <1>6, <2>1, <3>1, <3>2, QuietReport DEF MintEnd
  <2>3. CASE ~ok
    <3>1. send' = [send EXCEPT ![d] = Ended(send[d], "failed")]
      BY <1>6, <2>3 DEF MintEnd
    <3> QED BY <1>1, <1>6, <2>1, <3>1, EndedFacts, EndedStatus, QuietReport
            DEF MintEnd, Results
  <2> QED BY <2>2, <2>3
<1>7. ASSUME NEW ok \in BOOLEAN, ClearToken(d, ok) \/ Record(d)
      PROVE  Reports'
  <2>1. PICK pc \in {"record", "done"} : send' = [send EXCEPT ![d].pc = pc]
    BY <1>7 DEF ClearToken, Record
  <2> DEFINE r == [send[d] EXCEPT !.pc = pc]
  <2>2. r \in Sends /\ r.pc = pc /\ r.status = send[d].status
    BY <1>1 DEF Sends, SendPc
  <2>3. send' = [send EXCEPT ![d] = r] /\ UNCHANGED <<shown, unsure>>
    BY <1>7, <2>1 DEF ClearToken, Record, history
  <2> HIDE DEF r
  <2> QED BY <2>2, <2>3, QuietReport
<1> QED BY <1>2, <1>3, <1>4, <1>5, <1>6, <1>7, PostReport DEF Deliver

LEMMA NextReports == IInv /\ Reports /\ [Next]_vars => Reports'
<1> SUFFICES ASSUME IInv, Reports, [Next]_vars PROVE Reports'
  OBVIOUS
<1>1. ASSUME NEW a \in Alerts, NEW ps \in SUBSET Phones, ReadTargets(a, ps)
      PROVE  Reports'
  <2> SUFFICES ASSUME NEW d \in Deliveries
               PROVE  Reported(send'[d], shown'[d], d \in unsure')
    BY DEF Reports
  <2>1. Reported(send[d], shown[d], d \in unsure)
    BY DEF Reports
  <2>2. shown'[d] = shown[d] /\ unsure' = unsure
    BY <1>1 DEF ReadTargets, history
  <2>3. CASE d[1] = a /\ d[2] \in ps
    <3>1. shown[d] = 0
      BY <1>1, <2>3 DEF ReadTargets, IInv, NotYetSent, Counts, Counted
    <3>2. send'[d].status = "none"
      BY <1>1, <2>3 DEF ReadTargets
    <3> QED BY <2>2, <3>1, <3>2 DEF Reported
  <2>4. CASE ~(d[1] = a /\ d[2] \in ps)
    BY <1>1, <2>1, <2>2, <2>4 DEF ReadTargets
  <2> QED BY <2>3, <2>4
<1>2. CASE \/ \E a \in Alerts : Dispatch(a) \/ CheckCooldown(a) \/ FinishPush(a)
           \/ \E p \in Phones : Phone(p)
           \/ Account \/ Advance \/ UNCHANGED vars
  <2>1. UNCHANGED <<send, shown, unsure>>
    BY <1>2 DEF Dispatch, CheckCooldown, FinishPush, Phone, Rotate, Uninstall,
       Revoke, PutRead, PutWrite, Account, SaveAccount, Invalidate, StatusRead,
       StatusWrite, TokenExpires, Advance, vars, history
  <2> QED BY <2>1 DEF Reports
<1> QED BY <1>1, <1>2, DeliverReports DEF Next, Push

\* What the delivery report says of a phone is what FCM did: "sent" was taken,
\* anything else was not, unless the answer to an earlier try was lost.
THEOREM ReportIsTrueHolds == Spec => []ReportIsTrue
<1>1. Reports => ReportIsTrue
  BY DEF Reports, Reported, ReportIsTrue
<1> QED BY <1>1, InitIInv, NextIInv, InitReports, NextReports, PTL DEF Spec
==============================================================================
