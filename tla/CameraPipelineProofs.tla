------------------------- MODULE CameraPipelineProofs -------------------------
(***************************************************************************)
(* Proofs about CameraPipeline for every set of cameras and callers and    *)
(* every bound.  The inductive invariant says who holds the lock and that  *)
(* what it has read is still the row of a camera that counts as synced,    *)
(* that a camera's threads but the last are stopped, how many threads the  *)
(* edits and accidents so far can have cost, and that the books of the     *)
(* inference scheduler agree with the frames under analysis.               *)
(***************************************************************************)
EXTENDS CameraPipeline, FiniteSetTheorems, TLAPS

(***************************************************************************)
(* The supervisor and the engine.                                          *)
(***************************************************************************)
\* One reconcile at a time; a reader's rows are those of the synced cameras.
LockHeld == \A r \in Callers : caller[r] = "read" <=> lock = r
ReadsFresh ==
  \A r \in Callers, c \in synced : caller[r] = "read" => read[r][c] = row[c]
SyncedRuns == \A c \in synced : runtime[c] = Target(row, c)

RunsByWorker == \A c \in Cameras : (runtime[c].state = "on") <=> (workers[c] > 0)
Numbered ==
  /\ \A c \in Cameras : workers[c] <= made[c]
  /\ \A t \in Threads : t[2] > made[t[1]] => pc[t] = "unborn"
\* Every thread but the camera's worker is stopped, and the worker is not.
OldStopped == \A t \in Threads : Alive(t) /\ t[2] # workers[t[1]] => t \in stopped
StoppedOld == \A t \in stopped : t[2] <= made[t[1]] /\ t[2] # workers[t[1]]
Leaving ==
  \A t \in Threads :
    pc[t] \in {"forget", "forgetNight"} /\ plan[t] # "retry" => t \in stopped

\* A thread is made for a row that no running worker serves.  What is owed is
\* that, for the row that was read and for one edited since.
Running(c) ==
  /\ workers[c] > 0
  /\ pc[<<c, workers[c]>>] \notin {"unborn", "dead", "blocked"}
Unserved(rows, c) ==
  rows[c].state = "on" /\ ~(runtime[c] = rows[c] /\ Running(c))
Edited(c) == read[lock][c] # row[c] /\ row[c].state = "on"
Owed(b) == IF b THEN 1 ELSE 0
Pending(c) ==
  IF lock = "free" THEN Owed(Unserved(row, c))
                   ELSE Owed(Unserved(read[lock], c)) + Owed(Edited(c))
Budget == \A c \in Cameras : made[c] + Pending(c) <= 1 + changes

Supervised ==
  /\ LockHeld /\ ReadsFresh /\ SyncedRuns
  /\ RunsByWorker /\ Numbered /\ OldStopped /\ StoppedOld /\ Leaving /\ Budget

(***************************************************************************)
(* The scheduler's books.                                                  *)
(***************************************************************************)
AllAnalysing == {t \in Threads : pc[t] = "analyse"}
Booked ==
  /\ total = Slots /\ total <= Cap + 1
  /\ \A c \in Cameras : inflight[c] <= Cardinality(Analysing(c))
  /\ Cardinality(AllAnalysing) <= total + robbed

IInv == TypeOK /\ Supervised /\ Booked

-----------------------------------------------------------------------------
(***************************************************************************)
(* The sets behind the sums.                                               *)
(***************************************************************************)
Pairs(f) == UNION {{c} \X (1..f[c]) : c \in Cameras}

LEMMA ThreadsFinite == IsFiniteSet(Threads)
<1>1. MaxWorkers \in Int
  BY BoundsAssumption DEF MaxWorkers
<1>2. IsFiniteSet(1..MaxWorkers)
  BY <1>1, FS_Interval
<1> QED BY <1>2, CamerasAssumption, FS_Product DEF Threads

LEMMA ColumnSize ==
  ASSUME NEW c, NEW n \in Nat
  PROVE  /\ IsFiniteSet({c} \X (1..n))
         /\ Cardinality({c} \X (1..n)) = n
<1>1. IsFiniteSet(1..n) /\ Cardinality(1..n) = n
  BY FS_Interval
<1>2. IsFiniteSet({c}) /\ Cardinality({c}) = 1
  BY FS_Singleton
<1> QED BY <1>1, <1>2, FS_Product

LEMMA UnionFinite ==
  ASSUME NEW C \in SUBSET Cameras, NEW f \in [Cameras -> Nat]
  PROVE  IsFiniteSet(UNION {{c} \X (1..f[c]) : c \in C})
<1> DEFINE columns == {{c} \X (1..f[c]) : c \in C}
           column == [c \in C |-> {c} \X (1..f[c])]
<1>1. IsFiniteSet(C)
  BY CamerasAssumption, FS_Subset
<1>2. column \in Surjection(C, columns)
  BY DEF Surjection
<1>3. \A X \in columns : IsFiniteSet(X)
  <2> SUFFICES ASSUME NEW c \in C PROVE IsFiniteSet({c} \X (1..f[c]))
    OBVIOUS
  <2>1. f[c] \in Nat
    OBVIOUS
  <2> QED BY <2>1, ColumnSize
<1> HIDE DEF column, columns
<1>4. IsFiniteSet(columns)
  BY <1>1, <1>2, FS_Surjection
<1>5. IsFiniteSet(UNION columns)
  BY <1>3, <1>4, FS_UNION
<1> QED BY <1>5 DEF columns

\* A camera's slots count in the sum by themselves.
LEMMA PairsSplit ==
  ASSUME NEW f \in [Cameras -> Nat], NEW c \in Cameras
  PROVE  Cardinality(Pairs(f))
           = Cardinality(UNION {{d} \X (1..f[d]) : d \in Cameras \ {c}}) + f[c]
<1> DEFINE rest == UNION {{d} \X (1..f[d]) : d \in Cameras \ {c}}
           column == {c} \X (1..f[c])
<1>1. Pairs(f) = rest \cup column
  BY DEF Pairs
<1>2. rest \cap column = {}
  OBVIOUS
<1>3. IsFiniteSet(rest)
  BY UnionFinite
<1>4. IsFiniteSet(column) /\ Cardinality(column) = f[c] /\ f[c] \in Nat
  BY ColumnSize
<1> HIDE DEF rest, column
<1>5. Cardinality(rest) \in Nat
  BY <1>3, FS_CardinalityType
<1>6. Cardinality(rest \cap column) = 0
  BY <1>2, FS_EmptySet
<1>7. Cardinality(rest \cup column)
        = Cardinality(rest) + Cardinality(column) - Cardinality(rest \cap column)
  BY <1>3, <1>4, FS_Union
<1>8. Cardinality(Pairs(f)) = Cardinality(rest) + f[c]
  BY <1>1, <1>4, <1>5, <1>6, <1>7
<1> QED BY <1>8 DEF rest

\* What the sum is after one camera's count has changed.
LEMMA PairsChange ==
  ASSUME NEW f \in [Cameras -> Nat], NEW c \in Cameras, NEW n \in Nat
  PROVE  /\ Cardinality(Pairs(f)) \in Nat /\ Cardinality(Pairs(f)) >= f[c]
         /\ Cardinality(Pairs([f EXCEPT ![c] = n]))
              = Cardinality(Pairs(f)) - f[c] + n
<1> DEFINE g == [f EXCEPT ![c] = n]
           rest(h) == UNION {{d} \X (1..h[d]) : d \in Cameras \ {c}}
<1>1. g \in [Cameras -> Nat] /\ g[c] = n /\ f[c] \in Nat
  OBVIOUS
<1>2. rest(g) = rest(f)
  OBVIOUS
<1>3. Cardinality(rest(f)) \in Nat
  BY UnionFinite, FS_CardinalityType
<1>4. Cardinality(Pairs(f)) = Cardinality(rest(f)) + f[c]
  BY PairsSplit
<1> HIDE DEF g
<1>5. Cardinality(Pairs(g)) = Cardinality(rest(g)) + n
  BY <1>1, PairsSplit
<1> HIDE DEF rest
<1>6. Cardinality(Pairs(g)) = Cardinality(rest(f)) + n
  BY <1>2, <1>5
<1>7. Cardinality(Pairs(g)) = Cardinality(Pairs(f)) - f[c] + n
  BY <1>1, <1>3, <1>4, <1>6
<1> QED BY <1>1, <1>3, <1>4, <1>7 DEF g

\* Adding a thread to a set of threads, or taking one out.
LEMMA ThreadSets ==
  ASSUME NEW S \in SUBSET Threads, NEW t
  PROVE  /\ Cardinality(S) \in Nat
         /\ t \notin S => Cardinality(S \cup {t}) = Cardinality(S) + 1
         /\ t \in S => Cardinality(S \ {t}) = Cardinality(S) - 1
<1>1. IsFiniteSet(S)
  BY ThreadsFinite, FS_Subset
<1> QED BY <1>1, FS_CardinalityType, FS_AddElement, FS_RemoveElement

-----------------------------------------------------------------------------
(***************************************************************************)
(* The beginning.                                                          *)
(***************************************************************************)
LEMMA TargetFacts ==
  ASSUME NEW rows \in [Cameras -> Rows], NEW c \in Cameras
  PROVE  /\ Target(rows, c) \in Rows
         /\ Target(rows, c).state = rows[c].state
         /\ rows[c].state = "on" => Target(rows, c) = rows[c]
BY BoundsAssumption DEF Target, Rows, NoRuntime

LEMMA InitIInv == Init => IInv
<1> SUFFICES ASSUME Init PROVE IInv
  OBVIOUS
<1> USE BoundsAssumption
<1>1. NoRuntime \in Rows /\ [state |-> "on", source |-> 0] \in Rows
      /\ NoRead \in [Cameras -> Rows]
  BY DEF NoRuntime, Rows, NoRead
<1>2. TypeOK
  BY <1>1 DEF Init, TypeOK, MaxWorkers, Places, Plans, WatchStates
<1>3. Supervised
  <2>1. LockHeld /\ ReadsFresh /\ SyncedRuns
    BY CallersAssumption DEF Init, LockHeld, ReadsFresh, SyncedRuns
  <2>2. RunsByWorker /\ Numbered
    BY DEF Init, RunsByWorker, Numbered, NoRuntime, Threads, MaxWorkers
  <2>3. OldStopped /\ StoppedOld /\ Leaving
    BY DEF Init, OldStopped, StoppedOld, Leaving, Alive
  <2>4. Budget
    BY DEF Init, Budget, Pending, Owed
  <2> QED BY <2>1, <2>2, <2>3, <2>4 DEF Supervised
<1>4. Booked
  <2>1. {} = UNION {{c} \X (1..inflight[c]) : c \in Cameras}
    BY DEF Init
  <2>2. Slots = 0
    BY <2>1, FS_EmptySet DEF Slots
  <2>3. AllAnalysing = {} /\ \A c \in Cameras : Analysing(c) = {}
    BY DEF Init, AllAnalysing, Analysing
  <2>4. Cardinality(AllAnalysing) = 0
        /\ \A c \in Cameras : Cardinality(Analysing(c)) = 0
    BY <2>3, FS_EmptySet
  <2> QED BY <2>2, <2>4, CapAssumption DEF Init, Booked
<1> QED BY <1>2, <1>3, <1>4 DEF IInv

-----------------------------------------------------------------------------
(***************************************************************************)
(* Edits, deletions and the calls of reconcile_cameras.                    *)
(***************************************************************************)
\* A step that starts and ends no analysis leaves the books as they are.
LEMMA BooksKept ==
  ASSUME TypeOK, Booked, UNCHANGED slots,
         \A t \in Threads : (pc'[t] = "analyse") <=> (pc[t] = "analyse")
  PROVE  Booked'
<1>1. Slots' = Slots /\ AllAnalysing' = AllAnalysing
      /\ \A c \in Cameras : Analysing(c)' = Analysing(c)
  BY DEF Slots, AllAnalysing, Analysing, slots
<1> QED BY <1>1 DEF Booked, slots

LEMMA EditStep ==
  ASSUME IInv, NEW c \in Cameras, NEW r \in Callers, Edit(c, r)
  PROVE  IInv'
<1> USE DEF IInv
<1>1. PICK new \in {"on", "off"} : ChangeRow(c, new)
  BY DEF Edit
<1> DEFINE fresh == [state |-> new, source |-> changes + 1]
<1>2. /\ fresh \in Rows /\ row' = [row EXCEPT ![c] = fresh] /\ row' \in [Cameras -> Rows]
      /\ changes' = changes + 1 /\ changes' \in 0..MaxChanges /\ changes \in Nat
      /\ synced' = synced \ {c}
  BY <1>1, BoundsAssumption DEF ChangeRow, Change, TypeOK, Rows
<1>3. /\ caller' = [caller EXCEPT ![r] = "wants"] /\ caller[r] = "idle"
      /\ caller' \in [Callers -> {"idle", "wants", "read"}]
  BY DEF Edit, TypeOK
<1>4. /\ UNCHANGED <<hours, secured, lock, read, engine, pc, plan, stopped, nightArmed,
                     sched, night, faults>>
  BY <1>1 DEF Edit, ChangeRow, Change, engine
<1>5. TypeOK'
  BY <1>2, <1>3, <1>4 DEF TypeOK, engine, sched, slots, night
<1>6. Booked'
  BY <1>4, BooksKept DEF sched
<1>7. LockHeld' /\ ReadsFresh' /\ SyncedRuns'
  BY <1>2, <1>3, <1>4 DEF TypeOK, Supervised, LockHeld, ReadsFresh, SyncedRuns, Target, engine
<1>8. RunsByWorker' /\ Numbered' /\ OldStopped' /\ StoppedOld' /\ Leaving'
  BY <1>4 DEF Supervised, RunsByWorker, Numbered, OldStopped, StoppedOld, Leaving, Alive, engine
<1>9. Budget'
  <2> SUFFICES ASSUME NEW d \in Cameras
               PROVE  made[d] + Pending(d)' <= 1 + changes + 1
    BY <1>2, <1>4 DEF Budget, engine, TypeOK
  <2>1. made[d] + Pending(d) <= 1 + changes /\ made[d] \in Nat
    BY DEF Supervised, Budget, TypeOK
  <2>2. Pending(d)' <= Pending(d) + 1 /\ Pending(d)' \in Nat /\ Pending(d) \in Nat
    <3>1. Running(d)' = Running(d)
      BY <1>4 DEF Running, engine
    <3>2. CASE lock = "free"
      BY <1>4, <3>2 DEF Pending, Owed
    <3>3. CASE lock # "free"
      <4>1. Unserved(read[lock], d)' = Unserved(read[lock], d)
        BY <1>4, <3>1 DEF Unserved, engine
      <4> QED BY <1>4, <3>3, <4>1 DEF Pending, Owed
    <3> QED BY <3>2, <3>3
  <2> QED BY <1>2, <2>1, <2>2
<1> QED BY <1>5, <1>6, <1>7, <1>8, <1>9 DEF Supervised

LEMMA DeleteStep ==
  ASSUME IInv, NEW c \in Cameras, Delete(c)
  PROVE  IInv'
<1> USE DEF IInv
<1> DEFINE gone == [state |-> "gone", source |-> changes + 1]
           told == {t \in Threads : t[1] \in {c} /\ workers[t[1]] = t[2]}
<1>1. /\ gone \in Rows /\ row' = [row EXCEPT ![c] = gone] /\ row' \in [Cameras -> Rows]
      /\ changes' = changes + 1 /\ changes' \in 0..MaxChanges /\ changes \in Nat
      /\ synced' = synced \ {c}
  BY BoundsAssumption DEF Delete, ChangeRow, Change, TypeOK, Rows
<1>2. /\ workers' = [workers EXCEPT ![c] = 0] /\ workers' \in [Cameras -> 0..MaxWorkers]
      /\ runtime' = [runtime EXCEPT ![c] = NoRuntime] /\ runtime' \in [Cameras -> Rows]
      /\ stopped' = stopped \cup told /\ stopped' \subseteq Threads
  BY BoundsAssumption DEF Delete, StopWorkers, TypeOK, MaxWorkers, Rows, NoRuntime
<1>3. UNCHANGED <<hours, secured, caller, lock, read, made, pc, plan, nightArmed,
                  sched, night, faults>>
  BY DEF Delete, ChangeRow, Change
<1>4. TypeOK'
  BY <1>1, <1>2, <1>3 DEF TypeOK, sched, slots, night
<1>5. Booked'
  BY <1>3, BooksKept DEF sched
<1>6. LockHeld' /\ ReadsFresh' /\ SyncedRuns'
  BY <1>1, <1>2, <1>3 DEF TypeOK, Supervised, LockHeld, ReadsFresh, SyncedRuns, Target
<1>7. \A t \in Threads : t[1] \in Cameras /\ t[2] \in 1..MaxWorkers
  BY DEF Threads
<1>8. RunsByWorker' /\ Numbered' /\ Leaving'
  BY <1>2, <1>3 DEF TypeOK, Supervised, RunsByWorker, Numbered, Leaving, NoRuntime
<1>9. OldStopped'
  BY <1>2, <1>3, <1>7 DEF TypeOK, Supervised, OldStopped, Alive
<1>10. StoppedOld'
  BY <1>2, <1>3, <1>7, BoundsAssumption DEF TypeOK, Supervised, StoppedOld, Numbered, MaxWorkers
<1>11. Budget'
  <2> SUFFICES ASSUME NEW d \in Cameras
               PROVE  made[d] + Pending(d)' <= 1 + changes + 1
    BY <1>1, <1>3 DEF Budget, TypeOK
  <2>1. made[d] + Pending(d) <= 1 + changes /\ made[d] \in Nat
    BY DEF Supervised, Budget, TypeOK
  <2>2. Pending(d)' <= Pending(d) + 1 /\ Pending(d)' \in Nat /\ Pending(d) \in Nat
    <3>1. Pending(d)' \in Nat /\ Pending(d) \in Nat
      BY DEF Pending, Owed
    <3>2. CASE d = c
      <4>1. row'[d].state = "gone"
        BY <1>1, <3>2 DEF TypeOK
      <4>2. Pending(d)' <= 1
        BY <4>1 DEF Pending, Owed, Edited
      <4> QED BY <3>1, <4>2
    <3>3. CASE d # c
      <4>1. row'[d] = row[d] /\ runtime'[d] = runtime[d] /\ workers'[d] = workers[d]
        BY <1>1, <1>2, <3>3 DEF TypeOK
      <4>2. Pending(d)' = Pending(d)
        BY <1>3, <4>1 DEF Pending, Unserved, Running, Edited
      <4> QED BY <3>1, <4>2
    <3> QED BY <3>2, <3>3
  <2> QED BY <1>1, <2>1, <2>2
<1> QED BY <1>4, <1>5, <1>6, <1>8, <1>9, <1>10, <1>11 DEF Supervised

LEMMA TimeOutStep ==
  ASSUME IInv, NEW r \in Callers, TimeOut(r)
  PROVE  IInv'
<1> USE DEF IInv
<1>1. /\ caller' = [caller EXCEPT ![r] = "idle"]
      /\ caller' \in [Callers -> {"idle", "wants", "read"}]
      /\ lock' = IF lock = r THEN "free" ELSE lock
      /\ read' = [read EXCEPT ![r] = NoRead] /\ read' \in [Callers -> [Cameras -> Rows]]
  BY BoundsAssumption DEF TimeOut, TypeOK, NoRead, NoRuntime, Rows
<1>2. UNCHANGED <<world, used, synced, engine, pc, plan, stopped, nightArmed, sched, night>>
  BY DEF TimeOut
<1>3. TypeOK'
  BY <1>1, <1>2 DEF TypeOK, world, used, engine, sched, slots, night
<1>4. Booked'
  BY <1>2, BooksKept DEF sched
<1>5. LockHeld' /\ ReadsFresh' /\ SyncedRuns'
  BY <1>1, <1>2, CallersAssumption
     DEF TypeOK, Supervised, LockHeld, ReadsFresh, SyncedRuns, Target, engine, world
<1>6. RunsByWorker' /\ Numbered' /\ OldStopped' /\ StoppedOld' /\ Leaving'
  BY <1>2 DEF Supervised, RunsByWorker, Numbered, OldStopped, StoppedOld, Leaving, Alive, engine
<1>7. Budget'
  <2> SUFFICES ASSUME NEW c \in Cameras
               PROVE  made[c] + Pending(c)' <= 1 + changes
    BY <1>2 DEF Budget, engine, used
  <2>1. made[c] + Pending(c) <= 1 + changes /\ made[c] \in Nat /\ changes \in Nat
    BY BoundsAssumption DEF Supervised, Budget, TypeOK
  <2>2. Unserved(row, c)' = Unserved(row, c)
    BY <1>2 DEF Unserved, Running, engine, world
  <2>3. CASE lock = r
    <3>1. Pending(c)' = Owed(Unserved(row, c))
      BY <1>1, <2>2, <2>3 DEF Pending
    <3>2. r # "free"
      BY CallersAssumption
    <3>3. Pending(c) = Owed(Unserved(read[r], c)) + Owed(Edited(c))
      BY <2>3, <3>2 DEF Pending
    <3>4. CASE read[r][c] = row[c]
      BY <2>1, <3>1, <3>3, <3>4 DEF Unserved, Owed
    <3>5. CASE read[r][c] # row[c]
      BY <2>1, <2>3, <3>1, <3>3, <3>5 DEF Unserved, Edited, Owed
    <3> QED BY <3>4, <3>5
  <2>4. CASE lock # r
    <3>1. lock' = lock
      BY <1>1, <2>4
    <3>2. lock # "free" => read'[lock] = read[lock]
      BY <1>1, <2>4 DEF TypeOK
    <3>3. Pending(c)' = Pending(c)
      BY <1>2, <3>1, <3>2 DEF Pending, Unserved, Running, Edited, engine, world
    <3> QED BY <2>1, <3>3
  <2> QED BY <2>3, <2>4
<1> QED BY <1>3, <1>4, <1>5, <1>6, <1>7 DEF Supervised

LEMMA ReadStep ==
  ASSUME IInv, NEW r \in Callers, ReadRows(r)
  PROVE  IInv'
<1> USE DEF IInv
<1>1. /\ caller' = [caller EXCEPT ![r] = "read"]
      /\ caller' \in [Callers -> {"idle", "wants", "read"}]
      /\ lock = "free" /\ lock' = r /\ r # "free"
      /\ read' = [read EXCEPT ![r] = row] /\ read' \in [Callers -> [Cameras -> Rows]]
  BY CallersAssumption DEF ReadRows, MayReconcile, TypeOK
<1>2. UNCHANGED <<world, used, synced, engine, pc, plan, stopped, nightArmed, sched, night>>
  BY DEF ReadRows
<1>3. TypeOK'
  BY <1>1, <1>2 DEF TypeOK, world, used, engine, sched, slots, night
<1>4. Booked'
  BY <1>2, BooksKept DEF sched
<1>5. LockHeld' /\ ReadsFresh' /\ SyncedRuns'
  BY <1>1, <1>2, CallersAssumption
     DEF TypeOK, Supervised, LockHeld, ReadsFresh, SyncedRuns, Target, engine, world
<1>6. RunsByWorker' /\ Numbered' /\ OldStopped' /\ StoppedOld' /\ Leaving'
  BY <1>2 DEF Supervised, RunsByWorker, Numbered, OldStopped, StoppedOld, Leaving, Alive, engine
<1>7. Budget'
  <2> SUFFICES ASSUME NEW c \in Cameras
               PROVE  made[c] + Pending(c)' <= 1 + changes
    BY <1>2 DEF Budget, engine, used
  <2>1. made[c] + Pending(c) <= 1 + changes
    BY DEF Supervised, Budget
  <2>2. read'[lock'] = row /\ row' = row
    BY <1>1, <1>2 DEF TypeOK, world
  <2>3. Unserved(read[lock], c)' = Unserved(row, c) /\ ~Edited(c)'
    BY <1>2, <2>2 DEF Unserved, Running, Edited, engine
  <2>4. Pending(c)' = Pending(c)
    BY <1>1, <2>3 DEF Pending, Owed
  <2> QED BY <2>1, <2>4
<1> QED BY <1>3, <1>4, <1>5, <1>6, <1>7 DEF Supervised

\* One camera in a reconcile: kept as it is, given a new thread, or left without.
LEMMA ApplyCamera ==
  ASSUME IInv, NEW r \in Callers, NEW S \in SUBSET Cameras, Apply(r, S),
         NEW c \in Cameras
  PROVE  /\ runtime'[c] = Target(read[r], c)
         /\ \/ /\ Kept(read[r], c, S) /\ made'[c] = made[c] /\ workers'[c] = workers[c]
               /\ \A t \in Threads : t[1] = c =>
                    pc'[t] = pc[t] /\ (t \in stopped' <=> t \in stopped)
            \/ /\ ~Kept(read[r], c, S) /\ read[r][c].state = "on"
               /\ Unserved(read[r], c)
               /\ made'[c] = made[c] + 1 /\ workers'[c] = made[c] + 1
               /\ made[c] + 1 \in 1..MaxWorkers
               /\ \A t \in Threads : t[1] = c =>
                    /\ pc'[t] = IF t[2] = made[c] + 1 THEN "open" ELSE pc[t]
                    /\ t \in stopped' <=> t \in stopped \/ workers[c] = t[2]
            \/ /\ ~Kept(read[r], c, S) /\ read[r][c].state # "on"
               /\ made'[c] = made[c] /\ workers'[c] = 0
               /\ \A t \in Threads : t[1] = c =>
                    /\ pc'[t] = pc[t]
                    /\ t \in stopped' <=> t \in stopped \/ workers[c] = t[2]
<1> USE DEF IInv
<1> DEFINE changed == {d \in Cameras : ~ Kept(read[r], d, S)}
           started == {d \in changed : read[r][d].state = "on"}
           threads == {<<d, made[d] + 1>> : d \in started}
           kept == Kept(read[r], c, S)
           on == read[r][c].state = "on"
<1>1. /\ caller[r] = "read"
      /\ \A d \in S : Stuck(d)
      /\ stopped' = stopped \cup {t \in Threads : t[1] \in changed /\ workers[t[1]] = t[2]}
      /\ runtime' = [d \in Cameras |-> Target(read[r], d)]
      /\ made' = [d \in Cameras |-> IF d \in started THEN made[d] + 1 ELSE made[d]]
      /\ workers' = [d \in Cameras |-> IF d \in started THEN made[d] + 1
                                       ELSE IF d \in changed THEN 0 ELSE workers[d]]
      /\ pc' = [t \in Threads |-> IF t \in threads THEN "open" ELSE pc[t]]
  BY DEF Apply, StopWorkers
<1>2. /\ c \in changed <=> ~kept
      /\ c \in started <=> ~kept /\ on
  OBVIOUS
<1>3. \A t \in Threads : t[1] = c =>
        (t \in threads <=> c \in started /\ t[2] = made[c] + 1)
  <2> SUFFICES ASSUME NEW t \in Threads, t[1] = c
               PROVE  t \in threads <=> c \in started /\ t[2] = made[c] + 1
    OBVIOUS
  <2>1. t = <<t[1], t[2]>>
    BY DEF Threads
  <2> QED BY <2>1
<1> HIDE DEF threads, started, changed
<1>4. \A t \in Threads : t[1] = c =>
        /\ pc'[t] = IF c \in started /\ t[2] = made[c] + 1 THEN "open" ELSE pc[t]
        /\ t \in stopped' <=> t \in stopped \/ (c \in changed /\ workers[c] = t[2])
  BY <1>1, <1>3
<1>5. /\ runtime'[c] = Target(read[r], c)
      /\ made'[c] = IF c \in started THEN made[c] + 1 ELSE made[c]
      /\ workers'[c] = IF c \in started THEN made[c] + 1
                       ELSE IF c \in changed THEN 0 ELSE workers[c]
  BY <1>1
<1>6. ~kept /\ on => Unserved(read[r], c) /\ made[c] + 1 \in 1..MaxWorkers
  <2> SUFFICES ASSUME ~kept, on
               PROVE  Unserved(read[r], c) /\ made[c] + 1 \in 1..MaxWorkers
    OBVIOUS
  <2>1. Target(read[r], c) = read[r][c]
    BY TargetFacts DEF TypeOK
  <2>2. Unserved(read[r], c)
    BY <1>1, <2>1 DEF Kept, Unserved, Running, Stuck, Alive
  <2>3. lock = r /\ r # "free"
    BY <1>1, CallersAssumption DEF Supervised, LockHeld
  <2>4. Pending(c) >= 1 /\ Pending(c) \in Nat
    BY <2>2, <2>3 DEF Pending, Owed
  <2>5. made[c] + Pending(c) <= 1 + changes /\ changes <= MaxChanges
        /\ made[c] \in Nat /\ changes \in Nat
    BY BoundsAssumption DEF Supervised, Budget, TypeOK
  <2> QED BY <2>2, <2>4, <2>5, BoundsAssumption DEF MaxWorkers
<1>7. CASE kept
  BY <1>2, <1>4, <1>5, <1>7
<1>8. CASE ~kept /\ on
  <2>1. c \in started /\ c \in changed
    BY <1>2, <1>8
  <2> HIDE DEF kept, on
  <2>2. \A t \in Threads : t[1] = c =>
          /\ pc'[t] = IF t[2] = made[c] + 1 THEN "open" ELSE pc[t]
          /\ t \in stopped' <=> t \in stopped \/ workers[c] = t[2]
    BY <1>4, <2>1
  <2> QED BY <1>5, <1>6, <1>8, <2>1, <2>2 DEF kept, on
<1>9. CASE ~kept /\ ~on
  BY <1>2, <1>4, <1>5, <1>9
<1> QED BY <1>7, <1>8, <1>9

LEMMA ApplyStep ==
  ASSUME IInv, NEW r \in Callers, NEW S \in SUBSET Cameras, Apply(r, S)
  PROVE  IInv'
<1> USE DEF IInv
<1>1. /\ caller[r] = "read" /\ lock = r /\ r # "free" /\ lock' = "free"
      /\ caller' = [caller EXCEPT ![r] = "idle"]
      /\ caller' \in [Callers -> {"idle", "wants", "read"}]
      /\ read' \in [Callers -> [Cameras -> Rows]] /\ read[r] \in [Cameras -> Rows]
      /\ synced' = synced \cup {c \in Cameras : read[r][c] = row[c]}
  BY CallersAssumption, BoundsAssumption
     DEF Apply, TypeOK, Supervised, LockHeld, NoRead, NoRuntime, Rows
<1>2. UNCHANGED <<world, used, plan, nightArmed, sched, night>>
  BY DEF Apply
<1>3. \A t \in Threads : t[1] \in Cameras /\ t[2] \in 1..MaxWorkers
  BY DEF Threads
<1>4. \A c \in Cameras :
        /\ made[c] \in 0..MaxWorkers /\ workers[c] \in 0..MaxWorkers /\ workers[c] <= made[c]
        /\ Target(read[r], c) \in Rows /\ Target(read[r], c).state = read[r][c].state
        /\ read[r][c].state = "on" => Target(read[r], c) = read[r][c]
  BY <1>1, TargetFacts DEF TypeOK, Supervised, Numbered
<1>5. TypeOK'
  <2>1. runtime' \in [Cameras -> Rows]
    <3>1. runtime' = [c \in Cameras |-> Target(read[r], c)]
      BY DEF Apply
    <3> QED BY <1>4, <3>1
  <2>2. made' \in [Cameras -> 0..MaxWorkers] /\ workers' \in [Cameras -> 0..MaxWorkers]
    <3>1. /\ made' = [c \in Cameras |-> made'[c]]
          /\ workers' = [c \in Cameras |-> workers'[c]]
      BY DEF Apply
    <3>2. \A c \in Cameras : made'[c] \in 0..MaxWorkers /\ workers'[c] \in 0..MaxWorkers
      <4> SUFFICES ASSUME NEW c \in Cameras
                   PROVE  made'[c] \in 0..MaxWorkers /\ workers'[c] \in 0..MaxWorkers
        OBVIOUS
      <4> QED BY <1>4, ApplyCamera, BoundsAssumption DEF MaxWorkers
    <3> QED BY <3>1, <3>2
  <2>3. pc' \in [Threads -> Places] /\ stopped' \subseteq Threads
    BY DEF Apply, StopWorkers, TypeOK, Places
  <2> QED BY <1>1, <1>2, <2>1, <2>2, <2>3 DEF TypeOK, world, used, sched, slots, night
<1>6. \A t \in Threads : (pc'[t] = "analyse") <=> (pc[t] = "analyse")
  <2> SUFFICES ASSUME NEW t \in Threads
               PROVE  (pc'[t] = "analyse") <=> (pc[t] = "analyse")
    OBVIOUS
  <2>1. CASE pc'[t] = pc[t]
    BY <2>1
  <2>2. CASE pc'[t] = "open" /\ t[2] = made[t[1]] + 1
    <3>1. pc[t] = "unborn"
      BY <1>3, <1>4, <2>2 DEF Supervised, Numbered
    <3> QED BY <2>2, <3>1
  <2> QED BY <1>3, <2>1, <2>2, ApplyCamera
<1>7. Booked'
  BY <1>2, <1>6, BooksKept DEF sched
<1>8. LockHeld' /\ ReadsFresh'
  BY <1>1, CallersAssumption DEF Supervised, LockHeld, ReadsFresh, TypeOK
<1>9. SyncedRuns'
  <2> SUFFICES ASSUME NEW c \in synced' PROVE runtime'[c] = Target(row', c)
    BY DEF SyncedRuns
  <2>1. c \in Cameras /\ read[r][c] = row[c]
    BY <1>1 DEF Supervised, ReadsFresh, TypeOK
  <2>2. runtime'[c] = Target(read[r], c)
    BY <2>1, ApplyCamera
  <2> QED BY <1>2, <2>1, <2>2 DEF Target, world
<1>10. RunsByWorker'
  <2> SUFFICES ASSUME NEW c \in Cameras
               PROVE  (runtime'[c].state = "on") <=> (workers'[c] > 0)
    BY DEF RunsByWorker
  <2>1. (runtime[c].state = "on") <=> (workers[c] > 0)
    BY DEF Supervised, RunsByWorker
  <2>2. CASE Kept(read[r], c, S)
    <3>1. runtime'[c] = runtime[c] /\ workers'[c] = workers[c]
      BY <2>2, ApplyCamera DEF Kept
    <3> QED BY <2>1, <3>1
  <2>3. CASE ~Kept(read[r], c, S)
    BY <1>4, <2>3, ApplyCamera DEF MaxWorkers
  <2> QED BY <2>2, <2>3
<1>11. Numbered'
  <2>1. \A c \in Cameras : workers'[c] <= made'[c]
    <3> SUFFICES ASSUME NEW c \in Cameras PROVE workers'[c] <= made'[c]
      OBVIOUS
    <3> QED BY <1>4, ApplyCamera
  <2>2. ASSUME NEW t \in Threads, t[2] > made'[t[1]] PROVE pc'[t] = "unborn"
    <3>1. /\ made'[t[1]] = made[t[1]] /\ pc'[t] = pc[t]
          \/ /\ made'[t[1]] = made[t[1]] + 1
             /\ pc'[t] = IF t[2] = made[t[1]] + 1 THEN "open" ELSE pc[t]
      BY <1>3, ApplyCamera
    <3>2. t[2] > made[t[1]] /\ pc'[t] = pc[t]
      BY <1>3, <1>4, <2>2, <3>1
    <3> QED BY <3>2 DEF Supervised, Numbered
  <2> QED BY <2>1, <2>2 DEF Numbered
<1>12. OldStopped'
  <2> SUFFICES ASSUME NEW t \in Threads, Alive(t)', t[2] # workers'[t[1]]
               PROVE  t \in stopped'
    BY DEF OldStopped
  <2>1. pc'[t] = pc[t] => Alive(t)
    BY DEF Alive
  <2>2. Alive(t) /\ t[2] # workers[t[1]] => t \in stopped
    BY DEF Supervised, OldStopped
  <2> QED BY <1>3, <2>1, <2>2, ApplyCamera
<1>13. StoppedOld'
  <2> SUFFICES ASSUME NEW t \in stopped'
               PROVE  t[2] <= made'[t[1]] /\ t[2] # workers'[t[1]]
    BY DEF StoppedOld
  <2>1. t \in Threads
    BY <1>5 DEF TypeOK
  <2>2. t[1] \in Cameras /\ t[2] \in 1..MaxWorkers
    BY <1>3, <2>1
  <2>3. t \in stopped => t[2] <= made[t[1]] /\ t[2] # workers[t[1]]
    BY DEF Supervised, StoppedOld
  <2> QED BY <1>4, <2>1, <2>2, <2>3, ApplyCamera
<1>14. Leaving'
  <2> SUFFICES ASSUME NEW t \in Threads, pc'[t] \in {"forget", "forgetNight"},
                      plan'[t] # "retry"
               PROVE  t \in stopped'
    BY DEF Leaving
  <2>1. pc'[t] = pc[t] /\ plan'[t] = plan[t]
    BY <1>2, <1>3, ApplyCamera
  <2>2. t \in stopped
    BY <2>1 DEF Supervised, Leaving
  <2> QED BY <2>2 DEF Apply, StopWorkers
<1>15. Budget'
  <2> SUFFICES ASSUME NEW c \in Cameras
               PROVE  made'[c] + Pending(c)' <= 1 + changes
    BY <1>2 DEF Budget, used
  <2>1. /\ made[c] + Pending(c) <= 1 + changes /\ made[c] \in Nat /\ changes \in Nat
    BY BoundsAssumption DEF Supervised, Budget, TypeOK
  <2>2. Pending(c) = Owed(Unserved(read[r], c)) + Owed(Edited(c))
    BY <1>1 DEF Pending
  <2>3. Pending(c)' = Owed(Unserved(row, c)') /\ row' = row
    BY <1>1, <1>2 DEF Pending, world
  <2>4. CASE read[r][c] # row[c]
    <3>1. Owed(Unserved(row, c)') <= Owed(Edited(c))
      BY <1>1, <2>3, <2>4 DEF Unserved, Edited, Owed
    <3>2. made'[c] = made[c] \/ (made'[c] = made[c] + 1 /\ Unserved(read[r], c))
      BY ApplyCamera
    <3> QED BY <2>1, <2>2, <2>3, <3>1, <3>2 DEF Owed
  <2>5. CASE read[r][c] = row[c]
    <3>1. CASE Kept(read[r], c, S)
      <4>1. /\ made'[c] = made[c] /\ workers'[c] = workers[c] /\ runtime'[c] = runtime[c]
            /\ \A t \in Threads : t[1] = c => pc'[t] = pc[t]
        BY <3>1, ApplyCamera DEF Kept
      <4>2. Running(c)' = Running(c)
        <5>1. CASE workers[c] > 0
          <6>1. <<c, workers[c]>> \in Threads
            BY <1>4, <5>1 DEF Threads, MaxWorkers
          <6> QED BY <4>1, <6>1 DEF Running
        <5>2. CASE ~(workers[c] > 0)
          BY <4>1, <5>2 DEF Running
        <5> QED BY <5>1, <5>2
      <4>3. Unserved(row, c)' = Unserved(read[r], c)
        BY <2>3, <2>5, <4>1, <4>2 DEF Unserved
      <4> QED BY <2>1, <2>2, <2>3, <4>1, <4>3 DEF Owed
    <3>2. CASE ~Kept(read[r], c, S) /\ read[r][c].state = "on"
      <4>1. /\ made'[c] = made[c] + 1 /\ workers'[c] = made[c] + 1
            /\ made[c] + 1 \in 1..MaxWorkers /\ Unserved(read[r], c)
            /\ runtime'[c] = read[r][c]
        BY <1>4, <3>2, ApplyCamera
      <4>2. <<c, made[c] + 1>> \in Threads
        BY <4>1 DEF Threads
      <4>3. pc'[<<c, made[c] + 1>>] = "open"
        BY <3>2, <4>2, ApplyCamera
      <4>4. ~Unserved(row, c)'
        BY <2>1, <2>3, <2>5, <4>1, <4>3 DEF Unserved, Running
      <4> QED BY <2>1, <2>2, <2>3, <4>1, <4>4 DEF Owed
    <3>3. CASE ~Kept(read[r], c, S) /\ read[r][c].state # "on"
      <4>1. made'[c] = made[c] /\ ~Unserved(row, c)'
        BY <2>3, <2>5, <3>3, ApplyCamera DEF Unserved
      <4> QED BY <2>1, <2>2, <2>3, <4>1 DEF Owed
    <3> QED BY <3>1, <3>2, <3>3
  <2> QED BY <2>4, <2>5
<1> QED BY <1>5, <1>7, <1>8, <1>9, <1>10, <1>11, <1>12, <1>13, <1>14, <1>15 DEF Supervised

-----------------------------------------------------------------------------
(***************************************************************************)
(* The threads.                                                            *)
(***************************************************************************)
\* What every step of a thread leaves to the supervisor: it changes its own
\* place, and only an accident ends or blocks a thread that was not stopped.
LEMMA ThreadKeeps ==
  ASSUME TypeOK, Supervised, NEW t \in Threads, NEW place \in Places \ {"unborn"},
         NEW what \in Plans, GoWith(t, place, what), pc[t] \notin {"unborn", "dead"},
         place \in {"forget", "forgetNight"} /\ what # "retry" => t \in stopped,
         changes' \in {changes, changes + 1},
         place \in {"dead", "blocked"} => t \in stopped \/ changes' = changes + 1,
         UNCHANGED <<world, supervisor, engine, stopped>>
  PROVE  Supervised'
<1>1. /\ pc' = [pc EXCEPT ![t] = place] /\ plan' = [plan EXCEPT ![t] = what]
      /\ pc \in [Threads -> Places] /\ plan \in [Threads -> Plans]
      /\ t[1] \in Cameras /\ t[2] \in 1..MaxWorkers /\ t = <<t[1], t[2]>>
  BY DEF GoWith, TypeOK, Threads
<1>2. LockHeld' /\ ReadsFresh' /\ SyncedRuns' /\ RunsByWorker' /\ StoppedOld'
  BY DEF Supervised, LockHeld, ReadsFresh, SyncedRuns, RunsByWorker, StoppedOld, Target,
         world, supervisor, engine
<1>3. Numbered' /\ OldStopped' /\ Leaving'
  BY <1>1 DEF Supervised, Numbered, OldStopped, Leaving, Alive, engine
<1>4. Budget'
  <2> SUFFICES ASSUME NEW c \in Cameras
               PROVE  made[c] + Pending(c)' <= 1 + changes'
    BY DEF Budget, engine
  <2>1. /\ made[c] + Pending(c) <= 1 + changes /\ made[c] \in Nat /\ changes \in Nat
        /\ workers[c] \in Nat
    BY BoundsAssumption DEF Supervised, Budget, TypeOK, MaxWorkers
  <2>2. CASE Running(c) => Running(c)'
    <3>1. /\ Unserved(row, c)' => Unserved(row, c)
          /\ lock # "free" => (Unserved(read[lock], c)' => Unserved(read[lock], c))
      BY <2>2 DEF Unserved, engine, world, supervisor
    <3>2. Edited(c)' = Edited(c) /\ lock' = lock
      BY DEF Edited, world, supervisor
    <3>3. Pending(c)' <= Pending(c) /\ Pending(c)' \in Nat /\ Pending(c) \in Nat
      BY <3>1, <3>2 DEF Pending, Owed
    <3> QED BY <2>1, <3>3
  <2>3. CASE Running(c) /\ ~Running(c)'
    <3>1. t = <<c, workers[c]>> /\ place \in {"dead", "blocked"}
      <4>1. workers[c] > 0 /\ workers'[c] = workers[c]
        BY <2>3 DEF Running, engine
      <4>2. <<c, workers[c]>> \in Threads
        BY <2>1, <4>1 DEF TypeOK, Threads
      <4> QED BY <1>1, <2>3, <4>1, <4>2 DEF Running
    <3>2. t \notin stopped
      BY <1>1, <3>1 DEF Supervised, StoppedOld
    <3>3. changes' = changes + 1
      BY <3>1, <3>2
    <3>4. Pending(c)' <= Pending(c) + 1 /\ Pending(c)' \in Nat /\ Pending(c) \in Nat
      <4>1. Edited(c)' = Edited(c) /\ lock' = lock
        BY DEF Edited, world, supervisor
      <4> QED BY <4>1 DEF Pending, Owed
    <3> QED BY <2>1, <3>3, <3>4
  <2> QED BY <2>2, <2>3
<1> QED BY <1>2, <1>3, <1>4 DEF Supervised

LEMMA ThreadTypes ==
  ASSUME TypeOK, NEW t \in Threads, NEW place \in Places, NEW what \in Plans,
         GoWith(t, place, what), UNCHANGED <<world, supervisor, engine, stopped>>,
         changes' \in 0..MaxChanges, faults' \in 0..MaxFaults,
         nightArmed' \subseteq Threads,
         entries' \subseteq Cameras, held' \subseteq entries', boosted' \subseteq entries',
         inflight' \in [Cameras -> Nat], total' \in Nat, robbed' \in Nat,
         watch' \in [Cameras -> WatchStates], wiped' \subseteq Cameras
  PROVE  TypeOK'
<1>1. pc' \in [Threads -> Places] /\ plan' \in [Threads -> Plans]
  BY DEF GoWith, TypeOK
<1> QED BY <1>1 DEF TypeOK, world, supervisor, engine

\* A step of a thread that is not about a slot.
LEMMA SlotlessStep ==
  ASSUME IInv, NEW t \in Threads, NEW place \in Places \ {"unborn", "analyse"},
         NEW what \in Plans, GoWith(t, place, what),
         pc[t] \notin {"unborn", "dead", "analyse"},
         place \in {"forget", "forgetNight"} /\ what # "retry" => t \in stopped,
         changes' \in 0..MaxChanges, faults' \in 0..MaxFaults,
         changes' \in {changes, changes + 1},
         place \in {"dead", "blocked"} => t \in stopped \/ changes' = changes + 1,
         UNCHANGED <<world, supervisor, engine, stopped, slots>>,
         nightArmed' \subseteq Threads,
         entries' \subseteq Cameras, held' \subseteq entries', boosted' \subseteq entries',
         watch' \in [Cameras -> WatchStates], wiped' \subseteq Cameras
  PROVE  IInv'
<1>1. TypeOK'
  BY ThreadTypes DEF IInv, TypeOK, slots
<1>2. Supervised'
  BY ThreadKeeps DEF IInv
<1>3. \A u \in Threads : (pc'[u] = "analyse") <=> (pc[u] = "analyse")
  BY DEF IInv, TypeOK, GoWith
<1>4. Booked'
  BY <1>3, BooksKept DEF IInv
<1> QED BY <1>1, <1>2, <1>4 DEF IInv

LEMMA ChangeFacts ==
  TypeOK => /\ Change => /\ changes' = changes + 1 /\ changes' \in 0..MaxChanges
                         /\ faults' \in 0..MaxFaults
            /\ Fault => /\ changes' = changes /\ changes' \in 0..MaxChanges
                        /\ faults' \in 0..MaxFaults
            /\ UNCHANGED used => /\ changes' = changes /\ changes' \in 0..MaxChanges
                                 /\ faults' \in 0..MaxFaults
BY BoundsAssumption DEF TypeOK, Change, Fault, used

\* Leaving, opening, reading and blocking touch nothing but the thread.
LEMMA LeaveStep ==
  ASSUME IInv, NEW t \in Threads, NEW why \in {"retry", "finish"}, Leave(t, why),
         pc[t] \in {"open", "read", "blocked"}, why = "finish" => t \in stopped,
         ThreadOnly, UNCHANGED used \/ Fault
  PROVE  IInv'
<1>1. /\ UNCHANGED <<world, supervisor, engine, stopped, slots>>
      /\ nightArmed' \subseteq Threads
      /\ entries' \subseteq Cameras /\ held' \subseteq entries' /\ boosted' \subseteq entries'
      /\ watch' \in [Cameras -> WatchStates] /\ wiped' \subseteq Cameras
  BY DEF ThreadOnly, Leave, sched, night, IInv, TypeOK
<1>2. changes' = changes /\ changes' \in 0..MaxChanges /\ faults' \in 0..MaxFaults
  BY ChangeFacts DEF IInv
<1>3. PICK place \in {"forget", "open", "dead"}, what \in {"normal", why} :
        /\ GoWith(t, place, what)
        /\ place = "forget" => what = why
        /\ place = "dead" => why = "finish"
  BY DEF Leave, GoTo
<1>4. place \in Places \ {"unborn", "analyse"} /\ what \in Plans
  BY DEF Places, Plans
<1> QED BY <1>1, <1>2, <1>3, <1>4, SlotlessStep

LEMMA OpenStep ==
  ASSUME IInv, NEW t \in Threads, Open(t) \/ ReadFails(t) \/ Unblock(t)
  PROVE  IInv'
<1>1. ThreadOnly /\ pc[t] \in {"open", "read", "blocked"}
  BY DEF Open, ReadFails, Unblock
<1>2. /\ UNCHANGED <<world, supervisor, engine, stopped, slots>>
      /\ entries' \subseteq Cameras /\ held' \subseteq entries' /\ boosted' \subseteq entries'
      /\ watch' \in [Cameras -> WatchStates] /\ wiped' \subseteq Cameras
  BY <1>1 DEF ThreadOnly, sched, night, IInv, TypeOK
<1>3. CASE Stop(t)
  BY <1>1, <1>3, LeaveStep DEF Stop
<1>4. CASE Lose(t) /\ (Fault \/ UNCHANGED used)
  BY <1>1, <1>4, LeaveStep DEF Lose
<1>5. ASSUME NEW place \in {"read", "open"}, GoTo(t, place), Fault \/ UNCHANGED used,
             UNCHANGED nightArmed
      PROVE  IInv'
  <2>1. /\ GoWith(t, place, "normal") /\ "normal" \in Plans
        /\ place \in Places \ {"unborn", "analyse"} /\ nightArmed' \subseteq Threads
    BY <1>5 DEF GoTo, Plans, Places, IInv, TypeOK
  <2>2. changes' = changes /\ changes' \in 0..MaxChanges /\ faults' \in 0..MaxFaults
    BY <1>5, ChangeFacts DEF IInv
  <2> QED BY <1>1, <1>2, <1>5, <2>1, <2>2, SlotlessStep
<1>6. ASSUME NEW place \in {"blocked", "dead"}, GoTo(t, place), Change,
             nightArmed' \subseteq Threads
      PROVE  IInv'
  <2>1. /\ GoWith(t, place, "normal") /\ "normal" \in Plans
        /\ place \in Places \ {"unborn", "analyse"}
    BY <1>6 DEF GoTo, Plans, Places
  <2>2. changes' = changes + 1 /\ changes' \in 0..MaxChanges /\ faults' \in 0..MaxFaults
    BY <1>6, ChangeFacts DEF IInv
  <2> QED BY <1>1, <1>2, <1>6, <2>1, <2>2, SlotlessStep
<1>7. Die(t) \/ UNCHANGED nightArmed => nightArmed' \subseteq Threads
  BY DEF Die, IInv, TypeOK
<1>8. CASE Open(t)
  BY <1>3, <1>4, <1>5, <1>6, <1>7, <1>8 DEF Open, Die
<1>9. CASE ReadFails(t)
  BY <1>3, <1>4, <1>5, <1>6, <1>7, <1>9 DEF ReadFails
<1>10. CASE Unblock(t)
  BY <1>3, <1>4, <1>10 DEF Unblock
<1> QED BY <1>8, <1>9, <1>10


\* The calls that night watch makes into the scheduler move no slot.
LEMMA SchedulerCalls ==
  ASSUME TypeOK, NEW c \in Cameras,
         UNCHANGED sched \/ Hold(c) \/ Release(c) \/ Boost(c) \/ EndBoost(c)
  PROVE  /\ entries' \subseteq Cameras /\ held' \subseteq entries' /\ boosted' \subseteq entries'
         /\ UNCHANGED slots
BY DEF TypeOK, sched, Hold, Release, Boost, EndBoost

LEMMA WatchTypes ==
  ASSUME TypeOK, NEW c \in Cameras, NEW s \in WatchStates, Watches(c, s)
  PROVE  watch' \in [Cameras -> WatchStates]
BY DEF TypeOK, Watches

LEMMA NightFrame ==
  ASSUME IInv, NEW t \in Threads, NightStep(t)
  PROVE  IInv'
<1> USE DEF IInv
<1>1. /\ t[1] \in Cameras /\ pc[t] = "read"
      /\ UNCHANGED <<world, supervisor, engine, stopped>>
      /\ wiped' \subseteq Cameras
  BY DEF NightStep, TypeOK, Threads
<1>2. /\ changes' = changes /\ changes' \in 0..MaxChanges /\ faults' \in 0..MaxFaults
  BY ChangeFacts DEF NightStep
<1>3. nightArmed' \subseteq Threads
  BY DEF NightStep, SecuredFrame, ArmedFrame, PlainFrame, NightFails, TypeOK
<1>4. \/ UNCHANGED sched \/ Hold(t[1]) \/ Release(t[1]) \/ Boost(t[1]) \/ EndBoost(t[1])
  <2>1. SecuredFrame(t) \/ NightFails(t) => Release(t[1]) \/ UNCHANGED sched
    BY DEF SecuredFrame, NightFails
  <2>2. ArmedFrame(t) => \/ UNCHANGED sched \/ Hold(t[1]) \/ Boost(t[1]) \/ EndBoost(t[1])
    BY DEF ArmedFrame, Arm, Watching
  <2>3. PlainFrame(t) => Release(t[1]) \/ UNCHANGED sched
    BY DEF PlainFrame, Disarm
  <2> QED BY <2>1, <2>2, <2>3 DEF NightStep
<1>5. watch' \in [Cameras -> WatchStates]
  <2>1. /\ watch \in [Cameras -> WatchStates] /\ watch[t[1]] \in WatchStates
        /\ {"armed_idle", "disarmed", "motion", "cooldown"} \subseteq WatchStates
    BY <1>1 DEF TypeOK, WatchStates
  <2>2. SecuredFrame(t) \/ NightFails(t) => watch' = watch
    BY DEF SecuredFrame, NightFails
  <2>3. ArmedFrame(t) => \E s \in WatchStates : Watches(t[1], s)
    BY <2>1 DEF ArmedFrame, Arm, Watching
  <2>4. PlainFrame(t) => watch' = watch \/ Watches(t[1], "disarmed")
    BY DEF PlainFrame, Disarm
  <2> QED BY <1>1, <2>1, <2>2, <2>3, <2>4, WatchTypes DEF NightStep
<1>6. PICK place \in {"ask", "read"}, what \in {"normal", "confirm"} : GoWith(t, place, what)
  <2>1. SecuredFrame(t) \/ PlainFrame(t) \/ NightFails(t) => GoWith(t, "ask", "normal")
    BY DEF SecuredFrame, PlainFrame, NightFails, GoTo
  <2>2. ArmedFrame(t) => GoWith(t, "ask", "confirm") \/ GoWith(t, "read", "normal")
    BY DEF ArmedFrame, GoTo
  <2> QED BY <2>1, <2>2 DEF NightStep
<1>7. place \in Places \ {"unborn", "analyse"} /\ what \in Plans
  BY DEF Places, Plans
<1>8. /\ entries' \subseteq Cameras /\ held' \subseteq entries' /\ boosted' \subseteq entries'
      /\ UNCHANGED slots
  BY <1>1, <1>4, SchedulerCalls
<1> QED BY <1>1, <1>2, <1>3, <1>5, <1>6, <1>7, <1>8, SlotlessStep

LEMMA ForgetNightStep ==
  ASSUME IInv, NEW t \in Threads, ForgetNight(t)
  PROVE  IInv'
<1> USE DEF IInv
<1>1. /\ t[1] \in Cameras /\ pc[t] = "forgetNight" /\ "disarmed" \in WatchStates
      /\ UNCHANGED <<world, supervisor, engine, stopped, used, sched>>
      /\ wiped' \subseteq Cameras /\ nightArmed' \subseteq Threads
      /\ Watches(t[1], "disarmed")
  BY DEF ForgetNight, TypeOK, Threads, WatchStates
<1>2. watch' \in [Cameras -> WatchStates]
  BY <1>1, WatchTypes
<1>3. /\ changes' = changes /\ changes' \in 0..MaxChanges /\ faults' \in 0..MaxFaults
  BY <1>1, ChangeFacts
<1>4. /\ UNCHANGED slots
      /\ entries' \subseteq Cameras /\ held' \subseteq entries' /\ boosted' \subseteq entries'
  BY <1>1, SchedulerCalls
<1>5. PICK place \in {"open", "dead"} :
        GoWith(t, place, "normal") /\ (place = "dead" => plan[t] # "retry")
  BY DEF ForgetNight, GoTo
<1>6. place = "dead" => t \in stopped
  BY <1>1, <1>5 DEF Supervised, Leaving
<1>7. place \in Places \ {"unborn", "analyse"} /\ "normal" \in Plans
  BY DEF Places, Plans
<1> QED BY <1>1, <1>2, <1>3, <1>4, <1>5, <1>6, <1>7, SlotlessStep

(***************************************************************************)
(* The slots: admit(), done() and forget().                                *)
(***************************************************************************)
\* What the sum becomes when a camera's count is set to n.
LEMMA SlotsChange ==
  ASSUME TypeOK, Booked, NEW c \in Cameras, NEW n \in Nat,
         inflight' = [inflight EXCEPT ![c] = n]
  PROVE  /\ inflight' \in [Cameras -> Nat] /\ inflight[c] \in Nat
         /\ inflight[c] <= total /\ total \in Nat
         /\ Slots' = total - inflight[c] + n
<1>1. inflight \in [Cameras -> Nat] /\ total \in Nat /\ total = Slots
  BY DEF TypeOK, Booked
<1>2. /\ Cardinality(Pairs(inflight)) >= inflight[c]
      /\ Cardinality(Pairs([inflight EXCEPT ![c] = n]))
           = Cardinality(Pairs(inflight)) - inflight[c] + n
  BY <1>1, PairsChange
<1>3. Slots = Cardinality(Pairs(inflight))
      /\ Slots' = Cardinality(Pairs([inflight EXCEPT ![c] = n]))
  BY DEF Slots, Pairs
<1> QED BY <1>1, <1>2, <1>3

LEMMA AdmitStep ==
  ASSUME IInv, NEW t \in Threads, Admit(t)
  PROVE  IInv'
<1> USE DEF IInv
<1> DEFINE c == t[1]
<1>1. /\ c \in Cameras /\ pc[t] = "ask" /\ plan[t] \in Plans
      /\ UNCHANGED <<world, used, supervisor, engine, stopped, nightArmed, robbed, night>>
      /\ entries' \subseteq Cameras /\ held' \subseteq entries' /\ boosted' \subseteq entries'
  BY DEF Admit, TypeOK, Threads
<1>2. /\ changes' = changes /\ changes' \in 0..MaxChanges /\ faults' \in 0..MaxFaults
  BY <1>1, ChangeFacts
<1>3. /\ nightArmed' \subseteq Threads /\ watch' \in [Cameras -> WatchStates]
      /\ wiped' \subseteq Cameras
  BY <1>1 DEF TypeOK, night
<1>4. CASE UNCHANGED <<inflight, total>> /\ GoTo(t, "read")
  <2>1. GoWith(t, "read", "normal") /\ "read" \in Places \ {"unborn", "analyse"}
        /\ "normal" \in Plans
    BY <1>4 DEF GoTo, Places, Plans
  <2>2. UNCHANGED slots
    BY <1>1, <1>4 DEF slots
  <2> QED BY <1>1, <1>2, <1>3, <2>1, <2>2, SlotlessStep
<1>5. CASE /\ Admissible(c) /\ GoWith(t, "analyse", plan[t]) /\ total' = total + 1
           /\ inflight' = [inflight EXCEPT ![c] = @ + 1]
  <2>1. inflight[c] + 1 \in Nat /\ inflight' = [inflight EXCEPT ![c] = inflight[c] + 1]
    BY <1>1, <1>5 DEF TypeOK
  <2>2. /\ inflight' \in [Cameras -> Nat] /\ inflight[c] \in Nat /\ total \in Nat
        /\ Slots' = total + 1
    <3> HIDE DEF c
    <3>1. /\ inflight' \in [Cameras -> Nat] /\ inflight[c] \in Nat /\ total \in Nat
          /\ Slots' = total - inflight[c] + (inflight[c] + 1)
      BY <1>1, <2>1, SlotsChange
    <3> QED BY <3>1
  <2>3. /\ pc' = [pc EXCEPT ![t] = "analyse"] /\ pc \in [Threads -> Places]
        /\ "analyse" \in Places \ {"unborn"}
    BY <1>5 DEF GoWith, TypeOK, Places
  <2>4. TypeOK'
    <3>1. total' \in Nat /\ robbed' \in Nat
      BY <1>1, <1>5, <2>2 DEF TypeOK
    <3> QED BY <1>1, <1>2, <1>3, <1>5, <2>2, <2>3, <3>1, ThreadTypes
  <2>5. Supervised'
    BY <1>1, <1>2, <1>5, <2>3, ThreadKeeps
  <2>6. total' <= Cap + 1
    BY <1>5, <2>2, CapAssumption DEF Admissible
  <2>7. /\ AllAnalysing' = AllAnalysing \cup {t} /\ t \notin AllAnalysing
        /\ Analysing(c)' = Analysing(c) \cup {t} /\ t \notin Analysing(c)
        /\ \A d \in Cameras \ {c} : Analysing(d)' = Analysing(d)
    BY <1>1, <2>3 DEF AllAnalysing, Analysing
  <2>8. /\ Cardinality(AllAnalysing)' = Cardinality(AllAnalysing) + 1
        /\ Cardinality(Analysing(c))' = Cardinality(Analysing(c)) + 1
        /\ Cardinality(AllAnalysing) \in Nat /\ Cardinality(Analysing(c)) \in Nat
    BY <2>7, ThreadSets DEF AllAnalysing, Analysing
  <2>9. \A d \in Cameras : inflight'[d] <= Cardinality(Analysing(d))'
    <3>1. inflight'[c] <= Cardinality(Analysing(c))'
      BY <1>1, <1>5, <2>2, <2>8 DEF Booked, TypeOK
    <3>2. \A d \in Cameras \ {c} : inflight'[d] <= Cardinality(Analysing(d))'
      BY <1>5, <2>7 DEF Booked, TypeOK
    <3> QED BY <3>1, <3>2
  <2>10. Booked'
    <3>1. robbed \in Nat /\ robbed' = robbed /\ Cardinality(AllAnalysing) <= total + robbed
      BY <1>1 DEF TypeOK, Booked
    <3>2. Cardinality(AllAnalysing)' <= total' + robbed'
      BY <1>5, <2>2, <2>8, <3>1
    <3> QED BY <1>5, <2>2, <2>6, <2>9, <3>2 DEF Booked
  <2> QED BY <2>4, <2>5, <2>10
<1> QED BY <1>4, <1>5 DEF Admit

LEMMA AnalyseStep ==
  ASSUME IInv, NEW t \in Threads, Analyse(t)
  PROVE  IInv'
<1> USE DEF IInv
<1> DEFINE c == t[1]
<1>1. /\ c \in Cameras /\ pc[t] = "analyse" /\ "normal" \in Plans
      /\ {"analyse", "read"} \subseteq Places \ {"unborn"}
      /\ UNCHANGED <<world, used, supervisor, engine, stopped, nightArmed, wiped>>
  BY DEF Analyse, TypeOK, Threads, Plans, Places
<1>2. /\ changes' = changes /\ changes' \in 0..MaxChanges /\ faults' \in 0..MaxFaults
  BY <1>1, ChangeFacts
<1>3. nightArmed' \subseteq Threads /\ wiped' \subseteq Cameras
  BY <1>1 DEF TypeOK
<1>4. CASE Confirmed(t)
  <2>1. /\ GoWith(t, "analyse", "normal") /\ EndBoost(c) /\ Watches(c, "person_confirmed")
        /\ "person_confirmed" \in WatchStates
    BY <1>4 DEF Confirmed, GoTo, WatchStates
  <2>2. watch' \in [Cameras -> WatchStates]
    BY <1>1, <2>1, WatchTypes
  <2>3. /\ entries' \subseteq Cameras /\ held' \subseteq entries' /\ boosted' \subseteq entries'
        /\ UNCHANGED slots
    BY <1>1, <2>1, SchedulerCalls
  <2>4. inflight' \in [Cameras -> Nat] /\ total' \in Nat /\ robbed' \in Nat
    BY <2>3 DEF slots, TypeOK
  <2>5. TypeOK'
    BY <1>1, <1>2, <1>3, <2>1, <2>2, <2>3, <2>4, ThreadTypes
  <2>6. Supervised'
    BY <1>1, <1>2, <2>1, ThreadKeeps
  <2>7. \A u \in Threads : (pc'[u] = "analyse") <=> (pc[u] = "analyse")
    BY <1>1, <2>1 DEF TypeOK, GoWith
  <2> QED BY <2>3, <2>5, <2>6, <2>7, BooksKept
<1>5. CASE Analysed(t)
  <2> DEFINE n == IF inflight[c] > 0 THEN inflight[c] - 1 ELSE 0
  <2>1. /\ GoWith(t, "read", "normal") /\ robbed' = robbed
        /\ UNCHANGED <<entries, held, boosted, watch>>
        /\ total' = IF inflight[c] > 0 THEN total - 1 ELSE total
    BY <1>5 DEF Analysed, Done, GoTo
  <2>2. /\ n \in Nat /\ inflight[c] \in Nat
        /\ inflight' = [inflight EXCEPT ![c] = n]
    BY <1>1, <1>5 DEF Analysed, Done, TypeOK
  <2>3. /\ inflight' \in [Cameras -> Nat] /\ inflight[c] <= total /\ total \in Nat
        /\ Slots' = total - inflight[c] + n
    <3> HIDE DEF c, n
    <3> QED BY <1>1, <2>2, SlotsChange
  <2>4. total' \in Nat /\ total' = Slots' /\ total' <= total
    BY <2>1, <2>2, <2>3
  <2>5. TypeOK'
    <3>1. /\ entries' \subseteq Cameras /\ held' \subseteq entries' /\ boosted' \subseteq entries'
          /\ watch' \in [Cameras -> WatchStates] /\ robbed' \in Nat
      BY <2>1 DEF TypeOK
    <3> QED BY <1>1, <1>2, <1>3, <2>1, <2>3, <2>4, <3>1, ThreadTypes
  <2>6. Supervised'
    BY <1>1, <1>2, <2>1, ThreadKeeps
  <2>7. pc' = [pc EXCEPT ![t] = "read"] /\ pc \in [Threads -> Places]
    BY <2>1 DEF GoWith, TypeOK
  <2>8. /\ AllAnalysing' = AllAnalysing \ {t} /\ t \in AllAnalysing
        /\ Analysing(c)' = Analysing(c) \ {t} /\ t \in Analysing(c)
        /\ \A d \in Cameras \ {c} : Analysing(d)' = Analysing(d)
    BY <1>1, <2>7 DEF AllAnalysing, Analysing
  <2>9. /\ Cardinality(AllAnalysing)' = Cardinality(AllAnalysing) - 1
        /\ Cardinality(Analysing(c))' = Cardinality(Analysing(c)) - 1
        /\ Cardinality(AllAnalysing)' \in Nat
        /\ Cardinality(Analysing(c)) \in Nat /\ Cardinality(Analysing(c))' \in Nat
        /\ Cardinality(AllAnalysing) \in Nat
    BY <2>8, ThreadSets DEF AllAnalysing, Analysing
  <2>10. \A d \in Cameras : inflight'[d] <= Cardinality(Analysing(d))'
    <3>1. inflight[c] <= Cardinality(Analysing(c)) /\ inflight'[c] = n
      BY <1>1, <2>2 DEF Booked, TypeOK
    <3>2. inflight'[c] <= Cardinality(Analysing(c))'
      BY <2>2, <2>9, <3>1
    <3>3. \A d \in Cameras \ {c} : inflight'[d] <= Cardinality(Analysing(d))'
      BY <2>2, <2>8 DEF Booked, TypeOK
    <3> QED BY <3>2, <3>3
  <2>11. Booked'
    <3>1. /\ robbed \in Nat /\ Cardinality(AllAnalysing) <= total + robbed
          /\ total <= Cap + 1
      BY DEF TypeOK, Booked
    <3>2. Cardinality(AllAnalysing)' <= total' + robbed'
      BY <2>1, <2>2, <2>3, <2>9, <3>1
    <3>3. total' <= Cap + 1
      BY <2>3, <2>4, <3>1, CapAssumption
    <3> QED BY <2>4, <2>10, <3>2, <3>3 DEF Booked
  <2> QED BY <2>5, <2>6, <2>11
<1> QED BY <1>4, <1>5 DEF Analyse

LEMMA ForgetStep ==
  ASSUME IInv, NEW t \in Threads, Forget(t)
  PROVE  IInv'
<1> USE DEF IInv
<1> DEFINE c == t[1]
<1>1. /\ c \in Cameras /\ pc[t] = "forget" /\ plan[t] \in Plans
      /\ "forgetNight" \in Places \ {"unborn", "analyse"}
      /\ UNCHANGED <<world, used, supervisor, engine, stopped, nightArmed, watch>>
      /\ GoWith(t, "forgetNight", plan[t]) /\ wiped' \subseteq Cameras
  BY DEF Forget, TypeOK, Threads, Places
<1>2. /\ changes' = changes /\ changes' \in 0..MaxChanges /\ faults' \in 0..MaxFaults
  BY <1>1, ChangeFacts
<1>3. nightArmed' \subseteq Threads /\ watch' \in [Cameras -> WatchStates]
  BY <1>1 DEF TypeOK
<1>4. plan[t] # "retry" => t \in stopped
  BY <1>1 DEF Supervised, Leaving
<1>5. CASE UNCHANGED sched
  <2>1. /\ entries' \subseteq Cameras /\ held' \subseteq entries' /\ boosted' \subseteq entries'
        /\ UNCHANGED slots
    BY <1>1, <1>5, SchedulerCalls
  <2> QED BY <1>1, <1>2, <1>3, <1>4, <2>1, SlotlessStep
<1>6. CASE ForgetSlots(c)
  <2>1. /\ inflight' = [inflight EXCEPT ![c] = 0]
        /\ total' = total - inflight[c] /\ robbed' = robbed + inflight[c]
        /\ entries' = entries \ {c} /\ held' = held \ {c} /\ boosted' = boosted \ {c}
    BY <1>6 DEF ForgetSlots
  <2>2. /\ inflight' \in [Cameras -> Nat] /\ inflight[c] \in Nat
        /\ inflight[c] <= total /\ total \in Nat
        /\ Slots' = total - inflight[c] + 0
    <3> HIDE DEF c
    <3> QED BY <1>1, <2>1, SlotsChange
  <2>3. total' \in Nat /\ total' = Slots' /\ total' <= total
        /\ robbed \in Nat /\ robbed' \in Nat /\ total' + robbed' = total + robbed
    BY <2>1, <2>2 DEF TypeOK
  <2>4. /\ entries' \subseteq Cameras /\ held' \subseteq entries' /\ boosted' \subseteq entries'
    BY <2>1 DEF TypeOK
  <2>5. TypeOK'
    BY <1>1, <1>2, <1>3, <2>2, <2>3, <2>4, ThreadTypes
  <2>6. Supervised'
    BY <1>1, <1>2, <1>4, ThreadKeeps
  <2>7. pc' = [pc EXCEPT ![t] = "forgetNight"] /\ pc \in [Threads -> Places]
    BY <1>1 DEF GoWith, TypeOK
  <2>8. AllAnalysing' = AllAnalysing /\ \A d \in Cameras : Analysing(d)' = Analysing(d)
    BY <1>1, <2>7 DEF AllAnalysing, Analysing
  <2>9. \A d \in Cameras : inflight'[d] <= Cardinality(Analysing(d))'
    <3>1. Cardinality(Analysing(c)) \in Nat
      BY ThreadSets DEF Analysing
    <3> QED BY <2>1, <2>8, <3>1 DEF Booked, TypeOK
  <2>10. Booked'
    <3>1. Cardinality(AllAnalysing) <= total + robbed /\ total <= Cap + 1
      BY DEF Booked
    <3>2. Cardinality(AllAnalysing)' <= total' + robbed'
      BY <2>3, <2>8, <3>1
    <3>3. total' <= Cap + 1
      BY <2>2, <2>3, <3>1, CapAssumption
    <3> QED BY <2>3, <2>9, <3>2, <3>3 DEF Booked
  <2> QED BY <2>5, <2>6, <2>10
<1> QED BY <1>5, <1>6 DEF Forget

-----------------------------------------------------------------------------
(***************************************************************************)
(* The theorems.                                                           *)
(***************************************************************************)
LEMMA Elsewhere ==
  ASSUME IInv, UNCHANGED vars \/ Environment \/ \E c \in Cameras : BoostExpires(c)
  PROVE  IInv'
<1> USE DEF IInv
<1>1. UNCHANGED <<row, used, supervisor, engine, pc, plan, stopped, nightArmed,
                  entries, held, slots, night>>
  BY DEF Environment, BoostExpires, vars, world, sched
<1>2. /\ hours' \in {"open", "closed"} /\ secured' \subseteq Cameras
      /\ boosted' \subseteq entries'
  BY DEF TypeOK, Environment, BoostExpires, vars, world, sched
<1>3. TypeOK'
  BY <1>1, <1>2 DEF TypeOK, used, supervisor, engine, slots, night
<1>4. Supervised'
  <2>1. LockHeld' /\ ReadsFresh' /\ SyncedRuns' /\ RunsByWorker' /\ Numbered'
    BY <1>1 DEF Supervised, LockHeld, ReadsFresh, SyncedRuns, Target, RunsByWorker, Numbered,
                supervisor, engine
  <2>2. OldStopped' /\ StoppedOld' /\ Leaving'
    BY <1>1 DEF Supervised, OldStopped, StoppedOld, Leaving, Alive, engine
  <2>3. Budget'
    BY <1>1 DEF Supervised, Budget, Pending, Unserved, Running, Edited, supervisor, engine, used
  <2> QED BY <2>1, <2>2, <2>3 DEF Supervised
<1>5. Booked'
  BY <1>1, BooksKept
<1> QED BY <1>3, <1>4, <1>5

LEMMA NextIInv == IInv /\ [Next]_vars => IInv'
<1> SUFFICES ASSUME IInv, [Next]_vars PROVE IInv'
  OBVIOUS
<1>1. CASE \E c \in Cameras, r \in Callers : Edit(c, r)
  BY <1>1, EditStep
<1>2. CASE \E c \in Cameras : Delete(c)
  BY <1>2, DeleteStep
<1>3. CASE UNCHANGED vars \/ Environment \/ \E c \in Cameras : BoostExpires(c)
  BY <1>3, Elsewhere
<1>4. CASE \E r \in Callers : TimeOut(r) \/ Call(r)
  BY <1>4, TimeOutStep, ReadStep, ApplyStep DEF Call
<1>5. CASE \E t \in Threads : ThreadStep(t)
  BY <1>5, OpenStep, NightFrame, AdmitStep, AnalyseStep, ForgetStep, ForgetNightStep
     DEF ThreadStep
<1> QED BY <1>1, <1>2, <1>3, <1>4, <1>5 DEF Next

\* The inductive invariant holds in every reachable state.
THEOREM Invariance == Spec => []IInv
<1> QED BY InitIInv, NextIInv, PTL DEF Spec

\* Types, the bound on the threads of a camera among them: reconcile_cameras
\* starts at most one per edit, blocked read or death, and one to begin with.
THEOREM TypeCorrect == Spec => []TypeOK
<1>1. IInv => TypeOK
  BY DEF IInv
<1> QED BY <1>1, Invariance, PTL

\* A slot belongs to a frame that is being analysed, admit()'s sum is the sum of
\* the cameras' counts, and the analyses at once stay within the limit but for
\* those that forget() has struck from the books.
THEOREM SlotsSoundHolds == Spec => []SlotsSound
<1>1. IInv => SlotsSound
  <2> SUFFICES ASSUME IInv PROVE SlotsSound
    OBVIOUS
  <2>1. NoSlotLeaked
    BY DEF IInv, Booked, NoSlotLeaked
  <2>2. InFlightBounded
    <3>1. /\ Cardinality(AllAnalysing) <= total + robbed /\ total <= Cap + 1
          /\ total \in Nat /\ robbed \in Nat
      BY DEF IInv, Booked, TypeOK
    <3>2. Cardinality(AllAnalysing) \in Nat
      BY ThreadSets DEF AllAnalysing
    <3>3. Cardinality(AllAnalysing) <= Cap + 1 + robbed
      BY <3>1, <3>2, CapAssumption
    <3> QED BY <3>3 DEF InFlightBounded, AllAnalysing
  <2> QED BY <2>1, <2>2 DEF SlotsSound
<1> QED BY <1>1, Invariance, PTL

\* What a reconcile that applied the present row has left is what the row asks
\* for: one worker or none, and every other thread of the camera told to stop.
THEOREM WorkersMatchHolds == Spec => []WorkersMatch
<1>1. IInv => WorkersMatch
  <2> SUFFICES ASSUME IInv, NEW c \in synced
               PROVE  /\ runtime[c] = Target(row, c)
                      /\ (workers[c] > 0) <=> (row[c].state = "on")
                      /\ \A t \in Threads :
                           t[1] = c /\ Alive(t) /\ t[2] # workers[c] => t \in stopped
    BY DEF WorkersMatch
  <2>1. c \in Cameras /\ row \in [Cameras -> Rows]
    BY DEF IInv, TypeOK
  <2>2. runtime[c] = Target(row, c)
    BY DEF IInv, Supervised, SyncedRuns
  <2>3. (workers[c] > 0) <=> (row[c].state = "on")
    BY <2>1, <2>2, TargetFacts DEF IInv, Supervised, RunsByWorker
  <2>4. \A t \in Threads : t[1] = c /\ Alive(t) /\ t[2] # workers[c] => t \in stopped
    BY DEF IInv, Supervised, OldStopped
  <2> QED BY <2>2, <2>3, <2>4
<1> QED BY <1>1, Invariance, PTL

=============================================================================
