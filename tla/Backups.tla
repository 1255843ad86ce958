-------------------------------- MODULE Backups --------------------------------
(***************************************************************************)
(* The database, its copies and its upgrades: migrations under their lock, *)
(* each after a copy of what it changes (migrations/runner.py), the copies *)
(* made at night, by hand and before a restore, the pass that drops and    *)
(* compresses them (backup_service.py), and the restore of one of them     *)
(* (routes/system.py).                                                     *)
(*                                                                         *)
(* Of the database there are its applied migrations.  It holds data from   *)
(* the start.                                                              *)
(***************************************************************************)
EXTENDS Integers, FiniteSets

CONSTANTS
  Latest,       \* the migrations are 1..Latest
  NonAdditive,  \* those that do not just add tables, columns and indexes
  KeepStartup,  \* keep_startup
  KeepPerKind,  \* keep_per_kind
  Budgets,      \* bytes all copies may take; a plain copy takes two, a compressed one one
  MaxCopies,    \* bound: copies made
  MaxTroubles   \* bound: copies and migrations that fail, crashes

VARIABLES
  db,       \* the applied migrations
  copies,   \* the copies, numbered as they are made: kind, what of the database, and its files
  made,     \* copies made so far
  marker,   \* <db>.backup-status.json
  lock,     \* who has <db>.migrate.lock
  proc,     \* the server and the command-line tool
  pass,     \* apply_retention
  restore,  \* restore_backup_safely
  swapped,  \* a restore has replaced the database of the server that runs
  crossed,  \* a restore has replaced it under a migration
  refused,  \* upgrades that failed although nothing went wrong
  squeezed, \* copies somebody relies on that went for a budget
  early,    \* a copy went although few newer ones of its kind were there
  twice,    \* a copy lay there in both forms
  troubles

history == <<swapped, crossed, refused, squeezed, early, twice>>
files == <<copies, made>>
vars == <<db, files, marker, lock, proc, pass, restore, history, troubles>>

Procs == {"server", "cli"}
Versions == 1..Latest
Plain == "db"
Packed == "gz"
Places == 1..MaxCopies
NoCopy == [kind |-> "none", db |-> {}, forms |-> {}]
Ids == {id \in Places : copies[id].forms # {}}
NoFile == [id |-> 0, kind |-> "none", form |-> Plain]

Down == [pc |-> "down", pending |-> {}, from |-> {}, copied |-> 0]
NoPass == [pc |-> "idle", seen |-> {}, newest |-> NoFile, todo |-> {}]
NoRestore == [pc |-> "idle", file |-> NoFile, safety |-> 0]

Init ==
  /\ db = {} /\ copies = [id \in Places |-> NoCopy] /\ made = 0 /\ marker = "none"
  /\ lock = "nobody" /\ proc = [p \in Procs |-> Down] /\ pass = NoPass /\ restore = NoRestore
  /\ swapped = FALSE /\ crossed = FALSE /\ refused = {} /\ squeezed = {} /\ early = FALSE /\ twice = FALSE
  /\ troubles = 0

Trouble == troubles < MaxTroubles /\ troubles' = troubles + 1
Serving == proc["server"].pc = "serving"

(***************************************************************************)
(* The files as the directory lists them, the newest first; one that was   *)
(* being compressed when the box stopped is listed twice.                  *)
(***************************************************************************)
File(id, form) == [id |-> id, kind |-> copies[id].kind, form |-> form]
Entries == {f \in {File(id, form) : id \in Places, form \in {Plain, Packed}} : f.form \in copies[f.id].forms}
Newer(f, g) == f.id > g.id \/ (f.id = g.id /\ f.form = Packed /\ g.form = Plain)
Newest(S, n) == {f \in S : Cardinality({g \in S : Newer(g, f)}) < n}
OfKind(S, kind) == {f \in S : f.kind = kind}

\* create_backup, without the look whether anything has changed.
Copy(kind) ==
  /\ made < MaxCopies /\ made' = made + 1
  /\ copies' = [copies EXCEPT ![made'] = [kind |-> kind, db |-> db, forms |-> {Plain}]]

WithForms(id, forms) == [copies EXCEPT ![id].forms = forms]
Left(id, gone) == {form \in copies[id].forms : File(id, form) \notin gone}
Without(gone) ==
  [id \in Places |-> IF Left(id, gone) = {} THEN NoCopy
                     ELSE [kind |-> copies[id].kind, db |-> copies[id].db, forms |-> Left(id, gone)]]
IdsAfter == {id \in Places : copies'[id].forms # {}}

(***************************************************************************)
(* run_migrations.                                                         *)
(***************************************************************************)
Pending == Versions \ db

Begin(p) ==
  /\ proc[p].pc = "down"
  /\ proc' = [proc EXCEPT ![p].pc = "waiting"]
  /\ swapped' = IF p = "server" THEN FALSE ELSE swapped
  /\ UNCHANGED <<db, files, marker, lock, pass, restore, crossed, refused, squeezed, early, twice, troubles>>

\* For a mutant: the tool does not wait for its turn.
Unlocked(p) == p = "cli" \/ lock = "nobody"
Turn(p) == lock = "nobody"

Enter(p) ==
  /\ proc[p].pc = "waiting" /\ Turn(p) /\ lock' = p
  /\ proc' = [proc EXCEPT ![p] = [pc |-> "locked", pending |-> Pending, from |-> db, copied |-> 0]]
  /\ UNCHANGED <<db, files, marker, pass, restore, history, troubles>>

Leave(p) == lock' = (IF lock = p THEN "nobody" ELSE lock) /\ proc' = [proc EXCEPT ![p] = Down]

Additive(p) == proc[p].pending \cap NonAdditive = {}
Needed(p) == proc[p].pending # {}
GoOn(p, copied) ==
  /\ proc' = [proc EXCEPT ![p] = [pc |-> "applying", pending |-> @.pending, from |-> @.from, copied |-> copied]]
  /\ UNCHANGED lock

\* _pre_migration_backup.  A copy that failed a while ago is not tried again; a
\* change that only adds goes on without one, any other is not made.
NoCopyNeeded(p) ==
  /\ proc[p].pc = "locked" /\ ~ Needed(p) /\ GoOn(p, 0)
  /\ UNCHANGED <<db, files, marker, pass, restore, history, troubles>>

CopyFirst(p) ==
  /\ proc[p].pc = "locked" /\ Needed(p) /\ marker # "failed"
  /\ Copy("pre-v") /\ marker' = "none" /\ GoOn(p, made')
  /\ UNCHANGED <<db, pass, restore, history, troubles>>

\* For a mutant: whatever the change is.
EvenSo(p) == TRUE
MayGoWithout(p) == Additive(p)

Skip(p) ==
  IF MayGoWithout(p) THEN GoOn(p, 0) ELSE Leave(p)

CopyFails(p) ==
  /\ proc[p].pc = "locked" /\ Needed(p) /\ marker # "failed" /\ Trouble
  /\ marker' = (IF MayGoWithout(p) THEN "skipped" ELSE "failed") /\ Skip(p)
  /\ UNCHANGED <<db, files, pass, restore, history>>

NoCopyTried(p) ==
  /\ proc[p].pc = "locked" /\ Needed(p)
  /\ \/ marker = "failed" /\ UNCHANGED troubles
     \/ Trouble
  /\ marker' = (IF MayGoWithout(p) THEN "skipped" ELSE IF marker = "none" THEN "no_space" ELSE marker)
  /\ Skip(p)
  /\ UNCHANGED <<db, files, pass, restore, history>>

\* For a mutant: in the order in which they are found.
LastFirst(pending) == {v \in pending : \A w \in pending : v >= w}
NextOf(pending) == {v \in pending : \A w \in pending : v <= w}

\* Each migration and its row in one transaction; the row is unique.
ApplyOne(p) ==
  /\ proc[p].pc = "applying" /\ proc[p].pending # {}
  /\ \E v \in NextOf(proc[p].pending) :
       \/ /\ v \notin db /\ db' = db \cup {v}
          /\ proc' = [proc EXCEPT ![p].pending = @ \ {v}]
          /\ UNCHANGED <<lock, refused, troubles>>
       \/ /\ v \in db /\ refused' = refused \cup {p} /\ Leave(p)
          /\ UNCHANGED <<db, troubles>>
       \/ /\ Trouble /\ Leave(p) /\ UNCHANGED <<db, refused>>
  /\ UNCHANGED <<files, marker, pass, restore, swapped, crossed, squeezed, early, twice>>

Finish(p) ==
  /\ proc[p].pc = "applying" /\ proc[p].pending = {}
  /\ lock' = IF lock = p THEN "nobody" ELSE lock
  /\ proc' = [proc EXCEPT ![p] = IF p = "cli" THEN Down
                              ELSE [pc |-> "serving", pending |-> {}, from |-> {}, copied |-> @.copied]]
  /\ UNCHANGED <<db, files, marker, pass, restore, history, troubles>>

\* The thirty minutes are over after which a failed copy is tried again.
MarkerAges ==
  /\ marker = "failed" /\ marker' = "old_failure"
  /\ UNCHANGED <<db, files, lock, proc, pass, restore, history, troubles>>

(***************************************************************************)
(* Copies by hand, and those at the start and at night, with the pass that *)
(* follows: it drops, compresses and then looks at the budget.             *)
(***************************************************************************)
Manual ==
  /\ Serving /\ Copy("manual") /\ marker' = (IF marker = "skipped" THEN "none" ELSE marker)
  /\ UNCHANGED <<db, lock, proc, pass, restore, history, troubles>>

\* There is no copy if nothing has changed since one of that day, after one before
\* an upgrade, or without space; the pass comes all the same.
Night ==
  /\ Serving /\ pass.pc = "idle"
  /\ \/ Copy("auto") /\ marker' = (IF marker = "skipped" THEN "none" ELSE marker)
     \/ UNCHANGED <<files, marker>>
  /\ proc' = [proc EXCEPT !["server"].copied = 0]
  /\ pass' = [pass EXCEPT !.pc = "scanning"]
  /\ UNCHANGED <<db, lock, restore, history, troubles>>

Kinds == {"auto", "pre-v", "manual", "pre-restore"}
KeepOf(kind) == IF kind = "auto" THEN KeepStartup ELSE KeepPerKind

\* For a mutant: all kinds but the automatic one are counted together.
KeptTogether(S) == Newest(OfKind(S, "auto"), KeepStartup) \cup Newest(S \ OfKind(S, "auto"), KeepPerKind)
Kept(S) == UNION {Newest(OfKind(S, kind), KeepOf(kind)) : kind \in Kinds}

\* An automatic copy may also be kept as the newest of its day.
Scan ==
  /\ pass.pc = "scanning"
  /\ IF Entries = {}
     THEN pass' = NoPass
     ELSE \E newest \in Newest(Entries, 1), daily \in SUBSET OfKind(Entries, "auto") :
            pass' = [pc |-> "dropping", seen |-> Entries, newest |-> newest,
                     todo |-> Entries \ (Kept(Entries) \cup daily \cup {newest})]
  /\ UNCHANGED <<db, files, marker, lock, proc, restore, history, troubles>>

NewerOfKind(id) == {other \in Ids : other > id /\ copies[other].kind = copies[id].kind}
TooFewNewer(ids) == \E id \in ids : Cardinality(NewerOfKind(id)) < KeepOf(copies[id].kind)

Drop ==
  /\ pass.pc = "dropping"
  /\ copies' = Without(pass.todo)
  /\ early' = (early \/ TooFewNewer(Ids \ IdsAfter))
  /\ LET left == pass.seen \ pass.todo
         plain == {pass.newest} \cup Newest(OfKind(left, "pre-v"), 1)
     IN  pass' = [pass EXCEPT !.pc = "zipping", !.todo = {f \in left : f.form = Plain} \ plain]
  /\ UNCHANGED <<db, made, marker, lock, proc, restore, swapped, crossed, refused, squeezed, twice, troubles>>

ZipOne ==
  /\ pass.pc = "zipping"
  /\ \E f \in Newest(pass.todo, 1) :
       copies' = WithForms(f.id, {Packed}) /\ pass' = [pass EXCEPT !.todo = @ \ {f}]
  /\ UNCHANGED <<db, made, marker, lock, proc, restore, history, troubles>>

\* The oldest automatic copies go first, then the oldest of the others.  A file goes
\* if, without all that go before it, there is too much.
Total(S) == Cardinality(S) + Cardinality({f \in S : f.form = Plain})
Sooner(f, g) ==
  IF f.kind = "auto" <=> g.kind = "auto" THEN Newer(g, f) ELSE f.kind = "auto"

\* For a mutant: the newest may go too.
NoneSpared(f) == TRUE
MayGo(f) == f # pass.newest

Over(budget) ==
  LET all == {f \in Entries : MayGo(f)}
  IN  {f \in all : Total(Entries \ {g \in all : Sooner(g, f)}) > budget}

Relied == Ids \cap ({restore.safety} \cup {proc[p].copied : p \in Procs})

KeepBudget ==
  /\ pass.pc = "zipping" /\ pass.todo = {}
  /\ \E budget \in Budgets :
       /\ copies' = Without(Over(budget))
       /\ squeezed' = squeezed \cup {<<id, budget>> : id \in Relied \ IdsAfter}
  /\ pass' = NoPass
  /\ UNCHANGED <<db, made, marker, lock, proc, restore, swapped, crossed, refused, early, twice, troubles>>

(***************************************************************************)
(* restore_backup_safely: a copy is chosen and looked at, one is made of   *)
(* the database there is, and the chosen one is read again and put in its  *)
(* place.  Under a supervisor the server then restarts, also if that has   *)
(* failed.  No lock is taken, and other requests go on.                    *)
(***************************************************************************)
Choose ==
  /\ Serving /\ restore.pc = "idle"
  /\ \E f \in Entries : restore' = [pc |-> "looked_at", file |-> f, safety |-> 0]
  /\ UNCHANGED <<db, files, marker, lock, proc, pass, history, troubles>>

\* For a mutant: the restore goes on without it.
SafetyFailed == restore' = [restore EXCEPT !.pc = "secured"]
Given == restore' = NoRestore

Secure ==
  /\ Serving /\ restore.pc = "looked_at"
  /\ \/ /\ Copy("pre-restore") /\ restore' = [restore EXCEPT !.pc = "secured", !.safety = made']
        /\ marker' = (IF marker = "skipped" THEN "none" ELSE marker)
        /\ UNCHANGED troubles
     \/ Trouble /\ Given /\ UNCHANGED <<files, marker>>
  /\ UNCHANGED <<db, lock, proc, pass, history>>

There(f) == f \in Entries

Put ==
  /\ Serving /\ restore.pc = "secured"
  /\ IF There(restore.file)
     THEN /\ db' = copies[restore.file.id].db /\ swapped' = TRUE
          /\ crossed' = (crossed \/ \E p \in Procs : proc[p].pc \in {"locked", "applying"})
     ELSE UNCHANGED <<db, swapped, crossed>>
  /\ \E supervised \in BOOLEAN :
       restore' = IF supervised THEN [restore EXCEPT !.pc = "restarting"] ELSE NoRestore
  /\ UNCHANGED <<files, marker, lock, proc, pass, refused, squeezed, early, twice, troubles>>

(***************************************************************************)
(* The server or the tool stops: to restart after a restore, or at any     *)
(* time; the file being compressed is then there in both forms.            *)
(***************************************************************************)
Exit(p) ==
  /\ proc[p].pc # "down"
  /\ \/ p = "server" /\ restore.pc = "restarting" /\ UNCHANGED troubles
     \/ Trouble
  /\ Leave(p)
  /\ IF p = "server"
     THEN /\ pass' = NoPass /\ restore' = NoRestore
          /\ \/ UNCHANGED <<copies, twice>>
             \/ /\ pass.pc = "zipping"
                /\ \E f \in Newest(pass.todo, 1) : copies' = WithForms(f.id, {Plain, Packed})
                /\ twice' = TRUE
     ELSE UNCHANGED <<copies, pass, restore, twice>>
  /\ UNCHANGED <<db, made, marker, swapped, crossed, refused, squeezed, early>>

Next ==
  \/ MarkerAges \/ Manual \/ Night \/ Scan \/ Drop \/ ZipOne \/ KeepBudget
  \/ Choose \/ Secure \/ Put
  \/ \E p \in Procs :
       \/ Begin(p) \/ Enter(p) \/ NoCopyNeeded(p) \/ CopyFirst(p) \/ CopyFails(p) \/ NoCopyTried(p)
       \/ ApplyOne(p) \/ Finish(p) \/ Exit(p)

Spec == Init /\ [][Next]_vars

-------------------------------------------------------------------------------
(* Properties *)

FileType == [id : Places \cup {0}, kind : Kinds \cup {"none"}, form : {Plain, Packed}]
TypeOK ==
  /\ db \subseteq Versions /\ made \in 0..MaxCopies
  /\ copies \in [Places -> [kind : Kinds \cup {"none"}, db : SUBSET Versions, forms : SUBSET {Plain, Packed}]]
  /\ marker \in {"none", "failed", "old_failure", "no_space", "skipped"}
  /\ lock \in Procs \cup {"nobody"}
  /\ proc \in [Procs -> [pc : {"down", "waiting", "locked", "applying", "serving"},
                         pending : SUBSET Versions, from : SUBSET Versions, copied : 0..MaxCopies]]
  /\ pass \in [pc : {"idle", "scanning", "dropping", "zipping"}, seen : SUBSET FileType,
               newest : FileType, todo : SUBSET FileType]
  /\ restore \in [pc : {"idle", "looked_at", "secured", "restarting"}, file : FileType, safety : 0..MaxCopies]
  /\ {swapped, crossed, early, twice} \subseteq BOOLEAN /\ refused \subseteq Procs
  /\ squeezed \subseteq Places \X Budgets /\ troubles \in 0..MaxTroubles

\* The server runs on a database of its own release, unless a restore has put an
\* older one under it.
ServedIsCurrent == Serving /\ ~ swapped => db = Versions

\* Migrations are applied in their order, and no process finds applied what it
\* was about to apply, unless a restore has replaced the database under it.
InOrder ==
  crossed \/ (refused = {} /\ \E n \in 0..Latest : db = 1..n)

\* What changes more than by adding is only done with a copy of the database it
\* started from, which stays meanwhile unless it goes for the budget.
Squeezed(id, budgets) == \E budget \in budgets : <<id, budget>> \in squeezed
UpgradeHasCopy ==
  \A p \in Procs :
    LET done == Versions \ (proc[p].from \cup proc[p].pending)
        id == proc[p].copied
    IN  proc[p].pc = "applying" /\ done \cap NonAdditive # {} /\ ~ crossed =>
          \/ Squeezed(id, Budgets)
          \/ id \in Ids /\ copies[id].db = proc[p].from

\* The copy of what a restore replaces stays until the restart, whatever a pass
\* that began before it deletes, if the budget has room for two copies and no
\* further one has been made.
SafetyStays ==
  restore.pc \in {"secured", "restarting"} =>
    \/ restore.safety \in Ids
    \/ Squeezed(restore.safety, IF made > restore.safety THEN Budgets ELSE 0..3)

\* However small the budget and whatever is made during a pass, a copy is left.
LastStays == made > 0 => Ids # {}

\* But for the budget a copy only goes when enough newer ones of its kind are
\* there, unless a file has been listed twice.
KeptOfKind == early => twice

BackupsSound == ServedIsCurrent /\ InOrder /\ UpgradeHasCopy /\ SafetyStays /\ LastStays /\ KeptOfKind
===============================================================================
