------------------------- MODULE TestLifecycleProofs -------------------------
(***************************************************************************)
(* Theorems about the test lifecycle, for any number of workers, requests, *)
(* tests and crashes, any recipes and any bounds: the types, what is true  *)
(* of every row and every copy of one, and then what the history of the    *)
(* rows shows.                                                             *)
(***************************************************************************)
EXTENDS TestLifecycle, TLAPS

-----------------------------------------------------------------------------
(* Type correctness.                                                       *)

LEMMA BlankType == Blank \in Row
BY DEF Blank, Row, Status, AbsentStatus, OptTime, Time, NotSet, NoRecipe

LEMMA TimeField ==
  ASSUME NEW r \in Row, NEW x \in OptTime
  PROVE  /\ [r EXCEPT !.stable = x] \in Row
         /\ [r EXCEPT !.stop = x] \in Row
         /\ [r EXCEPT !.ended = x] \in Row
BY DEF Row

LEMMA StatusField ==
  ASSUME NEW r \in Row, NEW s \in Status
  PROVE  [r EXCEPT !.status = s] \in Row
BY DEF Row

\* A process may hold any row at any point of its program.
LEMMA HoldType ==
  ASSUME LocalOK, NEW p \in Procs, NEW t \in 0 .. MaxTests, NEW r \in Row, NEW c \in PC,
         c \in NoRowYet \/ t \in TestIds,
         Hold(p, t, r, c)
  PROVE  LocalOK'
BY DEF LocalOK, Hold, Go

LEMMA ReturnType ==
  ASSUME LocalOK, NEW p \in Procs, Return(p)
  PROVE  LocalOK'
<1>1. "idle" \in PC /\ "idle" \in NoRowYet /\ 0 \in 0 .. MaxTests
  BY BoundAssumption DEF PC, NoRowYet
<1> QED
  BY <1>1, BlankType DEF LocalOK, Return, Go

LEMMA GoType ==
  ASSUME LocalOK, NEW p \in Procs, NEW c \in PC,
         c \in NoRowYet \/ tid[p] \in TestIds,
         Go(p, c), UNCHANGED <<tid, mem>>
  PROVE  LocalOK'
BY DEF LocalOK, Go

LEMMA CommandType ==
  ASSUME NEW a \in BOOLEAN, NEW b \in BOOLEAN, NEW c \in BOOLEAN, NEW f \in Phase, NEW d \in BOOLEAN
  PROVE  Command(a, b, c, f, d) \in Commands
BY DEF Command, Commands

\* Writing one field, or a whole row, keeps the table well typed.
LEMMA SaveTime ==
  ASSUME db \in [TestIds -> Row], NEW t, NEW x \in OptTime
  PROVE  /\ [db EXCEPT ![t].stable = x] \in [TestIds -> Row]
         /\ [db EXCEPT ![t].stop = x] \in [TestIds -> Row]
         /\ [db EXCEPT ![t].ended = x] \in [TestIds -> Row]
BY TimeField

LEMMA SaveStatus ==
  ASSUME db \in [TestIds -> Row], NEW t, NEW s \in Status
  PROVE  [db EXCEPT ![t].status = s] \in [TestIds -> Row]
BY StatusField

LEMMA SaveStatusAndEnd ==
  ASSUME db \in [TestIds -> Row], NEW t, NEW s \in Status, NEW x \in OptTime
  PROVE  [db EXCEPT ![t].status = s, ![t].ended = x] \in [TestIds -> Row]
BY DEF Row

LEMMA VerdictType ==
  ASSUME db \in [TestIds -> Row], NEW p, SaveVerdict(p)
  PROVE  db' \in [TestIds -> Row]
<1>1. PICK v \in CompletedStatus : db' = [db EXCEPT ![tid[p]].status = v]
  BY DEF SaveVerdict
<1>2. v \in Status
  BY DEF Status
<1> QED
  BY <1>1, <1>2, SaveStatus

\* One step of the program keeps every variable in its type.
LEMMA TypeStep == TypeOK /\ [Next]_vars => TypeOK'
<1> SUFFICES ASSUME TypeOK, [Next]_vars
             PROVE  TypeOK'
  OBVIOUS
<1> USE DEF plc, local
<1>a. /\ now \in Nat /\ now \in OptTime /\ 0 \in 0 .. MaxTests /\ lossSince \in OptTime
      /\ \A p \in Procs : mem[p] \in Row /\ tid[p] \in 0 .. MaxTests
      /\ \A t \in TestIds : db[t] \in Row /\ t \in 0 .. MaxTests
      /\ \A q \in Procs : pc[q] \notin NoRowYet => tid[q] \in TestIds
      /\ LocalOK
  BY BoundAssumption DEF TypeOK, LocalOK, OptTime, Time, TestIds
<1>b. \A p \in Procs : /\ mem[p].stable \in OptTime
                       /\ mem[p].stop \in OptTime
                       /\ mem[p].ended \in OptTime
                       /\ PhaseOf(mem[p]) \in Phase
  BY <1>a DEF Row, PhaseOf, Phase
<1>c. /\ "idle" \in PC /\ "start_recipe" \in PC /\ "start_insert" \in PC /\ "start_command" \in PC
      /\ "start_commit" \in PC /\ "supervise" \in PC /\ "save_stable" \in PC /\ "save_stop" \in PC
      /\ "phase_command" \in PC /\ "save_ended" \in PC /\ "stop_command" \in PC /\ "evaluate" \in PC
      /\ "enqueue_reports" \in PC /\ "reevaluate" \in PC /\ "abort_save" \in PC /\ "abort_command" \in PC
      /\ "abort_log" \in PC /\ "delete" \in PC
      /\ "idle" \in NoRowYet /\ "start_recipe" \in NoRowYet /\ "start_insert" \in NoRowYet
      /\ \A q \in Procs : /\ pc[q] # "idle" /\ pc[q] # "start_recipe" /\ pc[q] # "start_insert"
                           => tid[q] \in TestIds
  BY <1>a DEF PC, NoRowYet
<1>d. /\ CompletedStatus \subseteq Status /\ "ABORTED" \in Status /\ "RUNNING" \in Status
      /\ "START_REQUESTED" \in Status /\ "DELETED" \in Status
      /\ {"IDLE", "START", "STABLE", "STOP", "ABORTED"} \subseteq Phase
  BY DEF Status, CompletedStatus, AbsentStatus, ActiveStatus, Phase
<1>e. ASSUME UNCHANGED local PROVE LocalOK'
  BY <1>a, <1>e DEF LocalOK
<1>1. CASE Tick
  BY <1>1, <1>e DEF Tick, TypeOK, Time
<1>2. CASE PollOk
  BY <1>2, <1>e DEF PollOk, TypeOK, OptTime
<1>3. CASE PollLost
  BY <1>3, <1>a, <1>e DEF PollLost, TypeOK
<1>4. ASSUME NEW p \in Starters, StartCheck(p) \/ StartStep(p)
      PROVE  TypeOK'
  <2> p \in Procs
    BY DEF Procs
  <2>1. CASE StartCheck(p)
    BY <2>1, <1>c, GoType DEF StartCheck, TypeOK
  <2>2. CASE StartRecipe(p)
    <3>1. PICK r \in Recipes :
            Hold(p, 0, [Blank EXCEPT !.status = "START_REQUESTED", !.started = now, !.recipe = r],
                 "start_insert")
      BY <2>2 DEF StartRecipe
    <3>2. [Blank EXCEPT !.status = "START_REQUESTED", !.started = now, !.recipe = r] \in Row
      BY <1>a, <1>d, BlankType DEF Row, Time
    <3>3. LocalOK'
      BY <3>1, <3>2, <1>a, <1>c, HoldType
    <3> QED
      BY <2>2, <3>3 DEF StartRecipe, TypeOK
  <2>3. CASE StartInsert(p)
    <3>1. lastId + 1 \in 0 .. MaxTests
      BY <2>3, BoundAssumption DEF StartInsert, TypeOK
    <3>0. lastId + 1 \in TestIds
      BY <2>3, BoundAssumption DEF StartInsert, TypeOK, TestIds
    <3>2. LocalOK'
      BY <2>3, <3>0, <3>1, <1>a, <1>c, HoldType DEF StartInsert
    <3> QED
      BY <2>3, <3>1, <3>2 DEF StartInsert, TypeOK
  <2>4. CASE StartDuplicate(p)
    BY <2>4, ReturnType DEF StartDuplicate, TypeOK
  <2>5. CASE StartCommand(p)
    BY <2>5, <1>c, <1>d, GoType, CommandType DEF StartCommand, TypeOK
  <2>6. CASE StartCommit(p)
    <3>1. [mem[p] EXCEPT !.status = "RUNNING"] \in Row
      BY <1>a, <1>d DEF Row
    <3>2. db' \in [TestIds -> Row]
      BY <2>6, <3>1 DEF StartCommit, TypeOK
    <3> QED
      BY <2>6, <3>2, ReturnType DEF StartCommit, TypeOK
  <2> QED
    BY <1>4, <2>1, <2>2, <2>3, <2>4, <2>5, <2>6 DEF StartStep
<1>5. ASSUME NEW p \in Supervisors, SuperviseStep(p)
      PROVE  TypeOK'
  <2> p \in Procs
    BY DEF Procs
  <2>1. CASE SupervisePick(p)
    <3>1. LocalOK'
      BY <2>1, <1>a, <1>c, HoldType DEF SupervisePick
    <3> QED
      BY <2>1, <3>1 DEF SupervisePick, TypeOK
  <2>2. CASE SuperviseAbort(p)
    <3>1. LocalOK'
      BY <2>2, <1>a, <1>c, HoldType, TimeField DEF SuperviseAbort
    <3> QED
      BY <2>2, <3>1 DEF SuperviseAbort, TypeOK
  <2>3. CASE EnterStable(p)
    <3>1. LocalOK'
      BY <2>3, <1>a, <1>c, HoldType, TimeField DEF EnterStable
    <3> QED
      BY <2>3, <3>1 DEF EnterStable, TypeOK
  <2>4. CASE EnterStop(p)
    <3>1. LocalOK'
      BY <2>4, <1>a, <1>c, HoldType, TimeField DEF EnterStop
    <3> QED
      BY <2>4, <3>1 DEF EnterStop, TypeOK
  <2>5. CASE StayInPhase(p)
    BY <2>5, <1>c, GoType DEF StayInPhase, TypeOK
  <2>6. CASE SaveStable(p)
    <3>1. db' \in [TestIds -> Row]
      BY <2>6, <1>b, SaveTime DEF SaveStable, TypeOK
    <3> QED
      BY <2>6, <3>1, <1>c, GoType DEF SaveStable, TypeOK
  <2>7. CASE SaveStop(p)
    <3>1. db' \in [TestIds -> Row]
      BY <2>7, <1>b, SaveTime DEF SaveStop, TypeOK
    <3> QED
      BY <2>7, <3>1, <1>c, GoType DEF SaveStop, TypeOK
  <2>8. CASE PhaseCommand(p)
    <3>1. command' \in Commands
      BY <2>8, <1>b, CommandType DEF PhaseCommand
    <3>2. [mem[p] EXCEPT !.ended = now] \in Row
      BY <1>a, TimeField
    <3>3. LocalOK'
      BY <2>8, <3>2, <1>a, <1>c, HoldType, ReturnType DEF PhaseCommand
    <3> QED
      BY <2>8, <3>1, <3>3 DEF PhaseCommand, TypeOK
  <2>9. CASE SaveEnded(p)
    <3>1. db' \in [TestIds -> Row]
      BY <2>9, <1>b, SaveTime DEF SaveEnded, TypeOK
    <3> QED
      BY <2>9, <3>1, <1>c, GoType DEF SaveEnded, TypeOK
  <2>10. CASE StopCommand(p)
    BY <2>10, <1>c, <1>d, GoType, CommandType DEF StopCommand, TypeOK
  <2>11. CASE Evaluate(p)
    <3>1. db' \in [TestIds -> Row]
      BY <2>11, VerdictType DEF Evaluate, TypeOK
    <3> QED
      BY <2>11, <3>1, <1>c, GoType DEF Evaluate, TypeOK
  <2>12. CASE EnqueueReports(p)
    <3>1. tid[p] \in TestIds
      BY <2>12, <1>c DEF EnqueueReports
    <3> QED
      BY <2>12, <3>1, ReturnType DEF EnqueueReports, TypeOK
  <2> QED
    BY <1>5, <2>1, <2>2, <2>3, <2>4, <2>5, <2>6, <2>7, <2>8, <2>9, <2>10, <2>11, <2>12
       DEF SuperviseStep
<1>6. ASSUME NEW p \in Procs, AbortPick(p) \/ AbortStep(p)
      PROVE  TypeOK'
  <2>1. CASE AbortPick(p)
    <3>1. LocalOK'
      BY <2>1, <1>a, <1>c, HoldType, TimeField DEF AbortPick
    <3> QED
      BY <2>1, <3>1 DEF AbortPick, TypeOK
  <2>2. CASE AbortSave(p)
    <3>1. db' \in [TestIds -> Row]
      BY <2>2, <1>b, <1>d, SaveStatusAndEnd DEF AbortSave, TypeOK
    <3> QED
      BY <2>2, <3>1, <1>a, <1>c, GoType DEF AbortSave, TypeOK
  <2>3. CASE AbortCommand(p)
    BY <2>3, <1>a, <1>c, <1>d, GoType, CommandType DEF AbortCommand, TypeOK
  <2>4. CASE AbortLog(p)
    <3>1. tid[p] \in TestIds
      BY <2>4, <1>c DEF AbortLog
    <3> QED
      BY <2>4, <3>1, <1>a, ReturnType DEF AbortLog, TypeOK
  <2> QED
    BY <1>6, <2>1, <2>2, <2>3, <2>4 DEF AbortStep
<1>7. ASSUME NEW p \in Viewers, ViewPick(p) \/ ReportPick(p) \/ Reevaluate(p)
      PROVE  TypeOK'
  <2> p \in Procs
    BY DEF Procs
  <2>0. Completed \subseteq TestIds
    BY DEF Completed
  <2>1. CASE ViewPick(p)
    <3>1. LocalOK'
      BY <2>0, <2>1, <1>a, <1>c, HoldType DEF ViewPick
    <3> QED
      BY <2>1, <3>1 DEF ViewPick, TypeOK
  <2>2. CASE ReportPick(p)
    <3>1. PICK t \in queued :
            /\ queued' \in {queued, queued \ {t}}
            /\ \/ t \in Completed /\ Hold(p, t, db[t], "reevaluate")
               \/ t \notin Completed /\ UNCHANGED local
      BY <2>2 DEF ReportPick
    <3>2. LocalOK'
      <4>1. CASE Hold(p, t, db[t], "reevaluate")
        BY <3>1, <4>1, <2>0, <1>a, <1>c, HoldType DEF TypeOK
      <4>2. CASE UNCHANGED local
        BY <4>2, <1>a DEF LocalOK
      <4> QED
        BY <3>1, <4>1, <4>2
    <3> QED
      BY <2>2, <3>1, <3>2 DEF ReportPick, TypeOK
  <2>3. CASE Reevaluate(p)
    <3>1. db' \in [TestIds -> Row]
      BY <2>3, VerdictType DEF Reevaluate, TypeOK
    <3> QED
      BY <2>3, <3>1, <1>a, ReturnType DEF Reevaluate, TypeOK
  <2> QED
    BY <1>7, <2>1, <2>2, <2>3
<1>8. ASSUME NEW p \in Deleters, DeletePick(p) \/ DeleteRow(p)
      PROVE  TypeOK'
  <2> p \in Procs
    BY DEF Procs
  <2>1. CASE DeletePick(p)
    <3>1. LocalOK'
      BY <2>1, <1>a, <1>c, HoldType DEF DeletePick
    <3> QED
      BY <2>1, <3>1 DEF DeletePick, TypeOK
  <2>2. CASE DeleteRow(p)
    <3>1. [Blank EXCEPT !.status = "DELETED"] \in Row
      BY <1>d, BlankType, StatusField
    <3>2. db' \in [TestIds -> Row]
      BY <2>2, <3>1 DEF DeleteRow, TypeOK
    <3> QED
      BY <2>2, <3>2, <1>a, ReturnType DEF DeleteRow, TypeOK
  <2> QED
    BY <1>8, <2>1, <2>2
<1>9. ASSUME NEW p \in Procs, RowGone(p) \/ Crash(p)
      PROVE  TypeOK'
  <2>1. CASE RowGone(p)
    BY <2>1, <1>a, ReturnType DEF RowGone, TypeOK
  <2>2. CASE Crash(p)
    BY <2>2, <1>a, ReturnType, BoundAssumption DEF Crash, TypeOK
  <2> QED
    BY <1>9, <2>1, <2>2
<1>10. CASE UNCHANGED vars
  BY <1>10, <1>e DEF vars, TypeOK
<1> QED
  <2> Supervisors \cup Aborters \subseteq Procs /\ Aborters \subseteq Procs
    BY DEF Procs
  <2> QED
    BY <1>1, <1>2, <1>3, <1>4, <1>5, <1>6, <1>7, <1>8, <1>9, <1>10 DEF Next

LEMMA TypeInit == Init => TypeOK
<1> SUFFICES ASSUME Init PROVE TypeOK
  OBVIOUS
<1>1. /\ "idle" \in PC /\ "idle" \in NoRowYet
      /\ 0 \in 0 .. MaxTests /\ 0 \in 0 .. MaxCrashes
  BY BoundAssumption DEF PC, NoRowYet
<1>2. LocalOK
  BY <1>1, BlankType DEF Init, LocalOK
<1>3. NoCommand \in Commands
  BY CommandType DEF NoCommand, Phase
<1> QED
  BY <1>1, <1>2, <1>3, BlankType DEF Init, TypeOK, OptTime, Time, NotSet

\* Every variable keeps its type; in particular no request or task works on a row
\* without having its key (start_test, supervise_active_test, abort_test).
THEOREM TypeCorrect == Spec => []TypeOK
BY TypeInit, TypeStep, PTL DEF Spec

-----------------------------------------------------------------------------
(* The inductive invariant.  Each step moves at most one process and       *)
(* writes at most one row; DbKeeps says what a write leaves as it was, and *)
(* that is all a process that did not move relies on.                      *)

DbKeeps ==
  /\ \A t \in TestIds :
       /\ db[t].status = "NONE" <=> db'[t].status = "NONE"
       /\ db'[t].status \notin AbsentStatus =>
            db[t].status \notin AbsentStatus /\ SameTest(db[t], db'[t])
       /\ db'[t].status \in ActiveStatus => db[t].status \in ActiveStatus
  /\ lastId' >= lastId
  /\ now' >= now

Idles(q) == pc'[q] = pc[q] /\ tid'[q] = tid[q] /\ mem'[q] = mem[q]

LEMMA Numbers ==
  ASSUME TypeOK
  PROVE  /\ now \in Nat /\ lastId \in Nat /\ MaxTests \in Nat
         /\ \A t \in TestIds : /\ db[t] \in Row
                               /\ Due(db[t]) \in Nat
                               /\ db[t].started \in Nat
                               /\ db[t].stable \in Int /\ db[t].stop \in Int
                               /\ db[t].recipe.start \in Nat /\ db[t].recipe.stable \in Nat
                               /\ db[t].recipe.stop \in Nat
         /\ \A p \in Procs : /\ mem[p] \in Row
                             /\ Due(mem[p]) \in Nat
                             /\ mem[p].started \in Nat
                             /\ mem[p].stable \in Int /\ mem[p].stop \in Int
                             /\ mem[p].recipe.start \in Nat /\ mem[p].recipe.stable \in Nat
                             /\ mem[p].recipe.stop \in Nat
<1>1. ASSUME NEW r \in Row
      PROVE  /\ Due(r) \in Nat /\ r.started \in Nat
             /\ r.stable \in Int /\ r.stop \in Int
             /\ r.recipe.start \in Nat /\ r.recipe.stable \in Nat /\ r.recipe.stop \in Nat
  <2>1. r.recipe \in [start : Nat, stable : Nat, stop : Nat]
    BY RecipeAssumption DEF Row, NoRecipe
  <2>2. r.started \in Nat /\ r.stable \in Int /\ r.stop \in Int
    BY DEF Row, OptTime, Time, NotSet
  <2> QED
    BY <2>1, <2>2 DEF Due
<1> QED
  BY <1>1, BoundAssumption DEF TypeOK, LocalOK, Time

LEMMA IdleProcess ==
  ASSUME TypeOK, TypeOK', DbKeeps, NEW q \in Procs, ProcInv(q), Idles(q)
  PROVE  ProcInv(q)'
<1>1. pc[q] \notin NoRowYet => tid[q] \in TestIds
  BY DEF TypeOK, LocalOK
<1>2. InTransaction \cap NoRowYet = {} /\ "delete" \notin NoRowYet
  BY DEF InTransaction, NoRowYet
<1>3. PhaseTimes(mem[q])'
  BY DEF ProcInv, Idles
<1>4. HasRow(q)' => /\ db'[tid'[q]].status # "NONE"
                    /\ Exists(tid[q])' => SameTest(mem[q], db[tid[q]])'
  BY <1>1 DEF ProcInv, Idles, HasRow, DbKeeps, Exists, SameTest
<1>5. (pc[q] \in Judging => now >= Due(mem[q]))'
  <2>1. now \in Nat /\ now' \in Nat /\ Due(mem[q]) \in Nat
    BY Numbers DEF TypeOK, Time
  <2> QED
    BY <2>1 DEF ProcInv, Idles, DbKeeps, Due
<1>6. (pc[q] = "delete" => tid[q] \notin Active)'
  BY <1>1, <1>2 DEF ProcInv, Idles, DbKeeps, Active
<1>7. (pc[q] \in InTransaction => tid[q] <= lastId /\ db[tid[q]].status = "NONE")'
  <2>1. lastId \in Nat /\ lastId' \in Nat /\ tid[q] \in Nat
    BY DEF TypeOK, LocalOK
  <2> QED
    BY <1>1, <1>2, <2>1 DEF ProcInv, Idles, DbKeeps
<1> QED
  BY <1>3, <1>4, <1>5, <1>6, <1>7 DEF ProcInv

\* A step that leaves the table alone.
LEMMA RowsRead ==
  ASSUME TypeOK, TypeOK', db' = db, now' >= now, lastId' >= lastId,
         \A t \in TestIds : RowInv(t)
  PROVE  DbKeeps /\ \A t \in TestIds : RowInv(t)'
<1>1. now' \in Nat /\ lastId' \in Nat
  BY DEF TypeOK, Time
<1>2. DbKeeps
  BY DEF DbKeeps, SameTest
<1>3. ASSUME NEW t \in TestIds PROVE RowInv(t)'
  <2>1. RowInv(t) /\ t \in Nat
    BY BoundAssumption DEF TestIds
  <2> QED
    BY <1>1, <2>1, Numbers DEF RowInv, Completed, PhaseTimes, Due
<1> QED
  BY <1>2, <1>3

\* A step that replaces one row of the table.
LEMMA RowWritten ==
  ASSUME TypeOK, NEW t \in TestIds, NEW r \in Row,
         db' = [db EXCEPT ![t] = r], UNCHANGED <<now, lastId>>,
         db[t].status # "NONE", r.status # "NONE",
         r.status \notin AbsentStatus => Exists(t) /\ SameTest(db[t], r),
         r.status \in ActiveStatus => db[t].status \in ActiveStatus,
         PhaseTimes(r),
         r.status \in CompletedStatus => now >= Due(r),
         \A u \in TestIds : RowInv(u)
  PROVE  DbKeeps /\ \A u \in TestIds : RowInv(u)'
<1>1. db'[t] = r /\ \A u \in TestIds \ {t} : db'[u] = db[u]
  BY DEF TypeOK
<1>2. DbKeeps
  <2>1. lastId' >= lastId /\ now' >= now
    BY DEF TypeOK, Time
  <2>2. ASSUME NEW u \in TestIds
        PROVE  /\ db[u].status = "NONE" <=> db'[u].status = "NONE"
               /\ db'[u].status \notin AbsentStatus =>
                    db[u].status \notin AbsentStatus /\ SameTest(db[u], db'[u])
               /\ db'[u].status \in ActiveStatus => db[u].status \in ActiveStatus
    BY <1>1 DEF Exists, SameTest
  <2> QED
    BY <2>1, <2>2 DEF DbKeeps
<1>3. ASSUME NEW u \in TestIds PROVE RowInv(u)'
  BY <1>1 DEF RowInv, Completed, PhaseTimes, Due
<1> QED
  BY <1>2, <1>3

LEMMA KeysKept ==
  ASSUME OwnKey, NEW p \in Procs, \A q \in Procs \ {p} : Idles(q),
         \/ pc'[p] \notin InTransaction
         \/ pc[p] \in InTransaction /\ tid'[p] = tid[p]
  PROVE  OwnKey'
BY DEF OwnKey, Idles

LEMMA Moves ==
  ASSUME TypeOK, NEW p \in Procs, NEW c, NEW t, NEW r
  PROVE  /\ Go(p, c) /\ UNCHANGED <<tid, mem>> =>
              /\ pc'[p] = c /\ tid'[p] = tid[p] /\ mem'[p] = mem[p]
              /\ \A q \in Procs \ {p} : Idles(q)
         /\ Hold(p, t, r, c) =>
              /\ pc'[p] = c /\ tid'[p] = t /\ mem'[p] = r
              /\ \A q \in Procs \ {p} : Idles(q)
         /\ Return(p) =>
              /\ pc'[p] = "idle" /\ tid'[p] = 0 /\ mem'[p] = Blank
              /\ \A q \in Procs \ {p} : Idles(q)
BY DEF TypeOK, LocalOK, Go, Hold, Return, Idles

\* Only the process that moved is left to look at.
LEMMA OneProcess ==
  ASSUME TypeOK, TypeOK', IInv, NEW p \in Procs,
         DbKeeps, \A t \in TestIds : RowInv(t)',
         \A q \in Procs \ {p} : Idles(q),
         \/ pc'[p] \notin InTransaction
         \/ pc[p] \in InTransaction /\ tid'[p] = tid[p],
         ProcInv(p)'
  PROVE  IInv'
<1>1. \A q \in Procs : ProcInv(q)'
  BY IdleProcess DEF IInv
<1>2. OwnKey'
  BY KeysKept DEF IInv
<1> QED
  BY <1>1, <1>2 DEF IInv

LEMMA BlankTimes == PhaseTimes(Blank)
BY DEF PhaseTimes, Blank

\* A process that gives up its copy.
LEMMA Returned ==
  ASSUME TypeOK, TypeOK', IInv, NEW p \in Procs, Return(p),
         DbKeeps, \A t \in TestIds : RowInv(t)'
  PROVE  IInv'
<1>1. /\ pc'[p] = "idle" /\ mem'[p] = Blank
      /\ \A q \in Procs \ {p} : Idles(q)
  BY Moves
<1>2. ProcInv(p)'
  BY <1>1, BlankTimes DEF ProcInv, HasRow, NoRowYet, Judging, InTransaction, PhaseTimes
<1> QED
  BY <1>1, <1>2, OneProcess DEF InTransaction

\* The new process keeps its row's identity, so the copy and the row still agree.
LEMMA HeldRow ==
  ASSUME TypeOK, IInv, NEW t \in TestIds, db[t].status # "NONE"
  PROVE  PhaseTimes(db[t]) /\ SameTest(db[t], db[t]) /\ (t \in Completed => now >= Due(db[t]))
BY DEF IInv, RowInv, SameTest

LEMMA StartStepInv ==
  ASSUME TypeOK, TypeOK', IInv, NEW p \in Starters, StartCheck(p) \/ StartStep(p)
  PROVE  IInv'
<1> USE DEF plc, local
<1> p \in Procs
  BY DEF Procs
<1>0. now \in Nat /\ lastId \in Nat /\ \A t \in TestIds : RowInv(t)
  BY Numbers DEF IInv
<1>1. CASE StartCheck(p)
  <2>1. DbKeeps /\ \A t \in TestIds : RowInv(t)'
    BY <1>0, <1>1, RowsRead DEF StartCheck
  <2>2. /\ pc'[p] = "start_recipe" /\ mem'[p] = mem[p]
        /\ \A q \in Procs \ {p} : Idles(q)
    BY <1>1, Moves DEF StartCheck
  <2>3. ProcInv(p)'
    BY <2>2 DEF ProcInv, HasRow, NoRowYet, Judging, InTransaction, IInv
  <2> QED
    BY <2>1, <2>2, <2>3, OneProcess DEF InTransaction
<1>2. CASE StartRecipe(p)
  <2>1. DbKeeps /\ \A t \in TestIds : RowInv(t)'
    BY <1>0, <1>2, RowsRead DEF StartRecipe
  <2>2. PICK r \in Recipes :
          Hold(p, 0, [Blank EXCEPT !.status = "START_REQUESTED", !.started = now, !.recipe = r],
               "start_insert")
    BY <1>2 DEF StartRecipe
  <2> DEFINE row == [Blank EXCEPT !.status = "START_REQUESTED", !.started = now, !.recipe = r]
  <2>3. /\ pc'[p] = "start_insert" /\ mem'[p] = row
        /\ \A q \in Procs \ {p} : Idles(q)
    BY <2>2, Moves
  <2>4. PhaseTimes(row)
    BY DEF PhaseTimes, Blank
  <2>5. ProcInv(p)'
    BY <2>3, <2>4 DEF ProcInv, HasRow, NoRowYet, Judging, InTransaction, PhaseTimes
  <2> QED
    BY <2>1, <2>3, <2>5, OneProcess DEF InTransaction
<1>3. CASE StartInsert(p)
  <2>1. DbKeeps /\ \A t \in TestIds : RowInv(t)'
    BY <1>0, <1>3, RowsRead DEF StartInsert
  <2>2. /\ pc'[p] = "start_command" /\ mem'[p] = mem[p] /\ tid'[p] = lastId + 1
        /\ \A q \in Procs \ {p} : Idles(q)
    BY <1>3, Moves DEF StartInsert
  <2>3. lastId + 1 \in TestIds /\ db[lastId + 1].status = "NONE"
    BY <1>0, <1>3, BoundAssumption DEF StartInsert, TestIds, RowInv
  <2>4. ProcInv(p)'
    BY <1>0, <1>3, <2>2, <2>3
       DEF StartInsert, ProcInv, HasRow, NoRowYet, Judging, InTransaction, IInv, PhaseTimes
  <2>5. \A q \in Procs \ {p} : ProcInv(q)'
    BY <2>1, <2>2, IdleProcess DEF IInv
  <2>6. \A q \in Procs : pc[q] \in InTransaction => tid[q] \in Nat /\ tid[q] <= lastId
    BY DEF IInv, ProcInv, TypeOK, LocalOK
  <2>7. OwnKey'
    BY <1>0, <2>2, <2>6 DEF OwnKey, Idles, IInv
  <2> QED
    BY <2>1, <2>4, <2>5, <2>7 DEF IInv
<1>4. CASE StartDuplicate(p)
  BY <1>0, <1>4, RowsRead, Returned DEF StartDuplicate
<1>5. CASE StartCommand(p)
  <2>1. DbKeeps /\ \A t \in TestIds : RowInv(t)'
    BY <1>0, <1>5, RowsRead DEF StartCommand
  <2>2. /\ pc[p] = "start_command" /\ pc'[p] = "start_commit"
        /\ mem'[p] = mem[p] /\ tid'[p] = tid[p]
        /\ \A q \in Procs \ {p} : Idles(q)
        /\ db' = db /\ lastId' = lastId
    BY <1>5, Moves DEF StartCommand
  <2>3. ProcInv(p)'
    BY <2>2 DEF ProcInv, HasRow, NoRowYet, Judging, InTransaction, IInv, PhaseTimes
  <2> QED
    BY <2>1, <2>2, <2>3, OneProcess DEF InTransaction
<1>6. CASE StartCommit(p)
  <2> DEFINE t == tid[p]
             r == [mem[p] EXCEPT !.status = "RUNNING"]
  <2>1. /\ pc[p] = "start_commit" /\ pc'[p] = "idle" /\ mem'[p] = Blank
        /\ \A q \in Procs \ {p} : Idles(q)
        /\ db' = [db EXCEPT ![t] = r] /\ lastId' = lastId /\ now' = now
    BY <1>6, Moves DEF StartCommit
  <2>2. t \in TestIds /\ t <= lastId /\ db[t].status = "NONE" /\ PhaseTimes(mem[p])
    BY <2>1 DEF IInv, ProcInv, InTransaction, TypeOK, LocalOK, NoRowYet
  <2>3. mem[p] \in Row /\ r.status = "RUNNING" /\ PhaseTimes(r)
    BY <2>2, Numbers DEF PhaseTimes, Row
  <2>4. db'[t] = r /\ \A u \in TestIds \ {t} : db'[u] = db[u]
    BY <2>1, <2>2 DEF TypeOK
  <2>5. ASSUME NEW u \in TestIds PROVE RowInv(u)'
    <3>1. CASE u = t
      <4>1. t \in Nat /\ db'[t].status = "RUNNING" /\ PhaseTimes(db'[t])
        BY <2>2, <2>3, <2>4, BoundAssumption DEF TestIds
      <4> QED
        BY <1>0, <2>1, <2>2, <3>1, <4>1
           DEF RowInv, Completed, CompletedStatus, PhaseTimes
    <3>2. CASE u # t
      BY <1>0, <2>1, <2>4, <3>2 DEF RowInv, Completed, PhaseTimes, Due
    <3> QED
      BY <3>1, <3>2
  <2>6. ASSUME NEW q \in Procs \ {p} PROVE ProcInv(q)'
    <3>1. ProcInv(q) /\ Idles(q)
      BY <2>1 DEF IInv
    <3>2. pc[q] \in InTransaction => tid[q] # t
      BY <2>1 DEF IInv, OwnKey, InTransaction
    <3>3. pc[q] \notin NoRowYet => tid[q] \in TestIds
      BY DEF TypeOK, LocalOK
    <3>4. HasRow(q) => tid[q] # t
      BY <2>2, <3>1 DEF ProcInv
    <3>5. pc[q] \notin NoRowYet => db'[tid[q]] = db[tid[q]]
      BY <2>4, <3>2, <3>3, <3>4 DEF HasRow
    <3>6. pc[q] \in InTransaction \/ pc[q] = "delete" => pc[q] \notin NoRowYet
      BY DEF InTransaction, NoRowYet
    <3> QED
      BY <2>1, <3>1, <3>3, <3>5, <3>6
         DEF ProcInv, Idles, HasRow, Exists, Active, SameTest, PhaseTimes, Due
  <2>7. ProcInv(p)'
    BY <2>1, BlankTimes DEF ProcInv, HasRow, NoRowYet, Judging, InTransaction, PhaseTimes
  <2>8. OwnKey'
    BY <2>1, KeysKept DEF IInv, InTransaction
  <2> QED
    BY <2>5, <2>6, <2>7, <2>8 DEF IInv
<1> QED
  BY <1>1, <1>2, <1>3, <1>4, <1>5, <1>6 DEF StartStep

\* A step that reads or computes: the table stays, p goes on with row r in memory.
LEMMA Reading ==
  ASSUME TypeOK, TypeOK', IInv, NEW p \in Procs, NEW t \in TestIds, NEW r, NEW c,
         c \notin NoRowYet \cup InTransaction,
         pc'[p] = c, tid'[p] = t, mem'[p] = r,
         \A q \in Procs \ {p} : Idles(q),
         UNCHANGED <<db, lastId, now>>,
         db[t].status # "NONE",
         PhaseTimes(r),
         Exists(t) => SameTest(r, db[t]),
         c \in Judging => now >= Due(r),
         c = "delete" => t \notin Active
  PROVE  IInv'
<1>1. now' >= now /\ lastId' >= lastId
  BY Numbers
<1>2. DbKeeps /\ \A u \in TestIds : RowInv(u)'
  BY <1>1, RowsRead DEF IInv
<1>3. ProcInv(p)'
  BY DEF ProcInv, HasRow, Exists, Active, SameTest, PhaseTimes, Due
<1> QED
  BY <1>2, <1>3, OneProcess

\* What a process with a row knows about it.
LEMMA Known ==
  ASSUME TypeOK, IInv, NEW p \in Procs, HasRow(p)
  PROVE  /\ tid[p] \in TestIds /\ db[tid[p]].status # "NONE"
         /\ mem[p] \in Row /\ db[tid[p]] \in Row
         /\ PhaseTimes(mem[p]) /\ PhaseTimes(db[tid[p]])
         /\ Exists(tid[p]) => SameTest(mem[p], db[tid[p]])
         /\ pc[p] \in Judging => now >= Due(mem[p])
<1>1. tid[p] \in TestIds /\ mem[p] \in Row
  BY DEF HasRow, TypeOK, LocalOK
<1> QED
  BY <1>1 DEF IInv, ProcInv, RowInv, TypeOK

\* A step that writes row r for the test p works on and keeps p's copy.
LEMMA Writing ==
  ASSUME TypeOK, TypeOK', IInv, NEW p \in Procs, HasRow(p), NEW c, NEW r \in Row,
         Exists(tid[p]),
         db' = [db EXCEPT ![tid[p]] = r], UNCHANGED <<now, lastId>>,
         r.status \notin AbsentStatus, SameTest(db[tid[p]], r),
         r.status \in ActiveStatus => db[tid[p]].status \in ActiveStatus,
         PhaseTimes(r),
         r.status \in CompletedStatus => now >= Due(r),
         \/ Return(p)
         \/ /\ Go(p, c) /\ UNCHANGED <<tid, mem>>
            /\ c \notin NoRowYet \cup InTransaction /\ c # "delete"
            /\ c \in Judging => now >= Due(mem[p])
  PROVE  IInv'
<1>1. DbKeeps /\ \A u \in TestIds : RowInv(u)'
  BY RowWritten, Known DEF IInv, AbsentStatus
<1>2. CASE Return(p)
  BY <1>1, <1>2, Returned
<1>3. CASE /\ Go(p, c) /\ UNCHANGED <<tid, mem>>
           /\ c \notin NoRowYet \cup InTransaction /\ c # "delete"
           /\ c \in Judging => now >= Due(mem[p])
  <2>1. /\ pc'[p] = c /\ tid'[p] = tid[p] /\ mem'[p] = mem[p]
        /\ \A q \in Procs \ {p} : Idles(q)
    BY <1>3, Moves
  <2>2. db'[tid[p]] = r
    BY Known DEF TypeOK
  <2>3. ProcInv(p)'
    BY <1>3, <2>1, <2>2, Known DEF ProcInv, HasRow, SameTest, PhaseTimes, Due, AbsentStatus
  <2> QED
    BY <1>1, <1>3, <2>1, <2>3, OneProcess
<1> QED
  BY <1>2, <1>3

LEMMA Points ==
  /\ \A c \in {"supervise", "save_stable", "save_stop", "phase_command", "enqueue_reports",
                "abort_save", "abort_command", "abort_log", "delete"} :
        c \notin NoRowYet \cup InTransaction /\ c \notin Judging
  /\ \A c \in Judging : c \notin NoRowYet \cup InTransaction
BY DEF NoRowYet, InTransaction, Judging

\* A verdict written by a process that may judge.
LEMMA VerdictInv ==
  ASSUME TypeOK, TypeOK', IInv, NEW p \in Procs, HasRow(p), pc[p] \in Judging,
         Exists(tid[p]), SaveVerdict(p), UNCHANGED <<now, lastId>>,
         \/ Return(p)
         \/ Go(p, "enqueue_reports") /\ UNCHANGED <<tid, mem>>
  PROVE  IInv'
<1>1. PICK v \in CompletedStatus : db' = [db EXCEPT ![tid[p]].status = v]
  BY DEF SaveVerdict
<1> DEFINE r == [db[tid[p]] EXCEPT !.status = v]
<1>2. db' = [db EXCEPT ![tid[p]] = r]
  BY <1>1
<1>3. v \in Status /\ v \notin AbsentStatus /\ v \notin ActiveStatus
  BY DEF Status, CompletedStatus, AbsentStatus, ActiveStatus
<1>4. r \in Row /\ r.status = v
  BY <1>3, Known, StatusField DEF Row
<1>5. PhaseTimes(r) /\ SameTest(db[tid[p]], r) /\ Due(r) = Due(mem[p])
  BY Known DEF PhaseTimes, SameTest, Due, Row
<1>6. now >= Due(mem[p])
  BY Known
<1>7. "enqueue_reports" \notin NoRowYet \cup InTransaction /\ "enqueue_reports" \notin Judging
  BY Points
<1> HIDE DEF r
<1> QED
  BY <1>2, <1>3, <1>4, <1>5, <1>6, <1>7, Writing

LEMMA SuperviseStepInv ==
  ASSUME TypeOK, TypeOK', IInv, NEW p \in Supervisors, SuperviseStep(p)
  PROVE  IInv'
<1> USE DEF plc, local
<1> p \in Procs
  BY DEF Procs
<1>0. now \in Nat /\ lastId \in Nat /\ (HasRow(p) => mem[p].recipe.start \in Nat)
  BY Numbers
<1>1. CASE SupervisePick(p)
  <2>1. PICK t \in TestIds : IsFirstActive(t) /\ Hold(p, t, db[t], "supervise")
    BY <1>1 DEF SupervisePick
  <2>2. db[t].status # "NONE"
    BY <2>1 DEF IsFirstActive, Active, ActiveStatus
  <2>3. /\ pc'[p] = "supervise" /\ tid'[p] = t /\ mem'[p] = db[t]
        /\ \A q \in Procs \ {p} : Idles(q)
    BY <2>1, Moves
  <2>4. UNCHANGED <<db, lastId, now>>
    BY <1>1 DEF SupervisePick
  <2> QED
    BY <2>2, <2>3, <2>4, HeldRow, Points, Reading
<1>2. CASE SuperviseAbort(p)
  <2> DEFINE r == [mem[p] EXCEPT !.ended = now]
  <2>1. HasRow(p)
    BY <1>2, Points DEF SuperviseAbort, HasRow
  <2>2. /\ pc'[p] = "abort_save" /\ tid'[p] = tid[p] /\ mem'[p] = r
        /\ \A q \in Procs \ {p} : Idles(q)
        /\ UNCHANGED <<db, lastId, now>>
    BY <1>2, Moves DEF SuperviseAbort
  <2>3. PhaseTimes(r) /\ (Exists(tid[p]) => SameTest(r, db[tid[p]]))
    BY <2>1, Known DEF PhaseTimes, SameTest, Row
  <2> HIDE DEF r
  <2> QED
    BY <2>1, <2>2, <2>3, Known, Points, Reading
<1>3. CASE EnterStable(p)
  <2> DEFINE r == [mem[p] EXCEPT !.stable = now]
  <2>1. HasRow(p)
    BY <1>3, Points DEF EnterStable, HasRow
  <2>2. /\ pc'[p] = "save_stable" /\ tid'[p] = tid[p] /\ mem'[p] = r
        /\ \A q \in Procs \ {p} : Idles(q)
        /\ UNCHANGED <<db, lastId, now>>
    BY <1>3, Moves DEF EnterStable
  <2>3. PhaseTimes(r) /\ (Exists(tid[p]) => SameTest(r, db[tid[p]]))
    BY <1>3, <2>1, Known DEF EnterStable, StableDue, PhaseTimes, SameTest, Row
  <2> HIDE DEF r
  <2> QED
    BY <2>1, <2>2, <2>3, Known, Points, Reading
<1>4. CASE EnterStop(p)
  <2> DEFINE r == [mem[p] EXCEPT !.stop = now]
  <2>1. HasRow(p)
    BY <1>4, Points DEF EnterStop, HasRow
  <2>2. /\ pc'[p] = "save_stop" /\ tid'[p] = tid[p] /\ mem'[p] = r
        /\ \A q \in Procs \ {p} : Idles(q)
        /\ UNCHANGED <<db, lastId, now>>
    BY <1>4, Moves DEF EnterStop
  <2>3. now >= mem[p].started + mem[p].recipe.start + mem[p].recipe.stable
    BY <1>0, <1>4, <2>1, Known, Numbers DEF EnterStop, StopDue, PhaseTimes
  <2>4. PhaseTimes(r) /\ (Exists(tid[p]) => SameTest(r, db[tid[p]]))
    BY <2>1, <2>3, Known DEF PhaseTimes, SameTest, Row
  <2> HIDE DEF r
  <2> QED
    BY <2>1, <2>2, <2>4, Known, Points, Reading
<1>5. CASE StayInPhase(p)
  <2>1. HasRow(p)
    BY <1>5, Points DEF StayInPhase, HasRow
  <2>2. /\ pc'[p] = "phase_command" /\ tid'[p] = tid[p] /\ mem'[p] = mem[p]
        /\ \A q \in Procs \ {p} : Idles(q)
        /\ UNCHANGED <<db, lastId, now>>
    BY <1>5, Moves DEF StayInPhase
  <2> QED
    BY <2>1, <2>2, Known, Points, Reading
<1>6. CASE SaveStable(p)
  <2> DEFINE r == [db[tid[p]] EXCEPT !.stable = mem[p].stable]
  <2>1. HasRow(p) /\ Exists(tid[p])
    BY <1>6, Points DEF SaveStable, HasRow
  <2>2. /\ db' = [db EXCEPT ![tid[p]] = r] /\ UNCHANGED <<now, lastId>>
        /\ Go(p, "phase_command") /\ UNCHANGED <<tid, mem>>
    BY <1>6 DEF SaveStable
  <2>3. r \in Row
    BY <2>1, Known, TimeField DEF Row
  <2>4. /\ PhaseTimes(r) /\ SameTest(db[tid[p]], r) /\ r.status = db[tid[p]].status
        /\ Due(r) = Due(db[tid[p]])
    BY <2>1, Known DEF PhaseTimes, SameTest, Due, Row
  <2>5. db[tid[p]].status \in CompletedStatus => now >= Due(db[tid[p]])
    BY <2>1, Known DEF IInv, RowInv, Completed
  <2> HIDE DEF r
  <2> QED
    BY <2>1, <2>2, <2>3, <2>4, <2>5, Points, Writing DEF Exists
<1>7. CASE SaveStop(p)
  <2> DEFINE r == [db[tid[p]] EXCEPT !.stop = mem[p].stop]
  <2>1. HasRow(p) /\ Exists(tid[p])
    BY <1>7, Points DEF SaveStop, HasRow
  <2>2. /\ db' = [db EXCEPT ![tid[p]] = r] /\ UNCHANGED <<now, lastId>>
        /\ Go(p, "phase_command") /\ UNCHANGED <<tid, mem>>
    BY <1>7 DEF SaveStop
  <2>3. r \in Row
    BY <2>1, Known, TimeField DEF Row
  <2>4. /\ PhaseTimes(r) /\ SameTest(db[tid[p]], r) /\ r.status = db[tid[p]].status
        /\ Due(r) = Due(db[tid[p]])
    BY <2>1, Known DEF PhaseTimes, SameTest, Due, Row
  <2>5. db[tid[p]].status \in CompletedStatus => now >= Due(db[tid[p]])
    BY <2>1, Known DEF IInv, RowInv, Completed
  <2> HIDE DEF r
  <2> QED
    BY <2>1, <2>2, <2>3, <2>4, <2>5, Points, Writing DEF Exists
<1>8. CASE PhaseCommand(p)
  <2>1. HasRow(p) /\ UNCHANGED <<db, lastId, now>>
    BY <1>8, Points DEF PhaseCommand, HasRow
  <2>2. CASE Return(p)
    <3>1. DbKeeps /\ \A t \in TestIds : RowInv(t)'
      BY <1>0, <2>1, RowsRead DEF IInv
    <3> QED
      BY <2>2, <3>1, Returned
  <2>3. StopServed(mem[p]) => now >= Due(mem[p])
    BY <1>0, <2>1, Known, Numbers DEF StopServed, PhaseTimes, Due
  <2>4. CASE StopServed(mem[p]) /\ Hold(p, tid[p], [mem[p] EXCEPT !.ended = now], "save_ended")
    <3> DEFINE r == [mem[p] EXCEPT !.ended = now]
    <3>1. /\ pc'[p] = "save_ended" /\ tid'[p] = tid[p] /\ mem'[p] = r
          /\ \A q \in Procs \ {p} : Idles(q)
      BY <2>4, Moves
    <3>2. /\ PhaseTimes(r) /\ (Exists(tid[p]) => SameTest(r, db[tid[p]]))
          /\ Due(r) = Due(mem[p])
      BY <2>1, Known DEF PhaseTimes, SameTest, Due, Row
    <3> HIDE DEF r
    <3>3. "save_ended" \in Judging
      BY DEF Judging
    <3> QED
      BY <2>1, <2>3, <2>4, <3>1, <3>2, <3>3, Known, Points, Reading
  <2>5. CASE StopServed(mem[p]) /\ Hold(p, tid[p], mem[p], "stop_command")
    <3>1. /\ pc'[p] = "stop_command" /\ tid'[p] = tid[p] /\ mem'[p] = mem[p]
          /\ \A q \in Procs \ {p} : Idles(q)
      BY <2>5, Moves
    <3>2. "stop_command" \in Judging
      BY DEF Judging
    <3> QED
      BY <2>1, <2>3, <2>5, <3>1, <3>2, Known, Points, Reading
  <2> QED
    BY <1>8, <2>2, <2>4, <2>5 DEF PhaseCommand
<1>9. CASE SaveEnded(p)
  <2> DEFINE r == [db[tid[p]] EXCEPT !.ended = mem[p].ended]
  <2>1. HasRow(p) /\ Exists(tid[p]) /\ pc[p] \in Judging /\ "stop_command" \in Judging
    BY <1>9, Points DEF SaveEnded, HasRow, Judging
  <2>2. /\ db' = [db EXCEPT ![tid[p]] = r] /\ UNCHANGED <<now, lastId>>
        /\ Go(p, "stop_command") /\ UNCHANGED <<tid, mem>>
    BY <1>9 DEF SaveEnded
  <2>3. r \in Row
    BY <2>1, Known, TimeField DEF Row
  <2>4. /\ PhaseTimes(r) /\ SameTest(db[tid[p]], r) /\ r.status = db[tid[p]].status
        /\ Due(r) = Due(db[tid[p]])
    BY <2>1, Known DEF PhaseTimes, SameTest, Due, Row
  <2>5. db[tid[p]].status \in CompletedStatus => now >= Due(db[tid[p]])
    BY <2>1, Known DEF IInv, RowInv, Completed
  <2> HIDE DEF r
  <2> QED
    BY <2>1, <2>2, <2>3, <2>4, <2>5, Known, Points, Writing DEF Exists
<1>10. CASE StopCommand(p)
  <2>1. HasRow(p) /\ pc[p] \in Judging /\ "evaluate" \in Judging
    BY <1>10, Points DEF StopCommand, HasRow, Judging
  <2>2. /\ pc'[p] = "evaluate" /\ tid'[p] = tid[p] /\ mem'[p] = mem[p]
        /\ \A q \in Procs \ {p} : Idles(q)
        /\ UNCHANGED <<db, lastId, now>>
    BY <1>10, Moves DEF StopCommand
  <2> QED
    BY <2>1, <2>2, Known, Points, Reading
<1>11. CASE Evaluate(p)
  <2>1. HasRow(p) /\ Exists(tid[p]) /\ pc[p] \in Judging
    BY <1>11, Points DEF Evaluate, HasRow, Judging
  <2> QED
    BY <1>11, <2>1, VerdictInv, Points DEF Evaluate
<1>12. CASE EnqueueReports(p)
  BY <1>0, <1>12, RowsRead, Returned DEF EnqueueReports, IInv
<1> QED
  BY <1>1, <1>2, <1>3, <1>4, <1>5, <1>6, <1>7, <1>8, <1>9, <1>10, <1>11, <1>12
     DEF SuperviseStep

LEMMA AbortStepInv ==
  ASSUME TypeOK, TypeOK', IInv, NEW p \in Procs, AbortPick(p) \/ AbortStep(p)
  PROVE  IInv'
<1> USE DEF plc, local
<1>0. now \in Nat /\ lastId \in Nat
  BY Numbers
<1>1. CASE AbortPick(p)
  <2>1. PICK t \in TestIds :
          IsFirstActive(t) /\ Hold(p, t, [db[t] EXCEPT !.ended = now], "abort_save")
    BY <1>1 DEF AbortPick
  <2> DEFINE r == [db[t] EXCEPT !.ended = now]
  <2>2. db[t].status # "NONE"
    BY <2>1 DEF IsFirstActive, Active, ActiveStatus
  <2>3. /\ pc'[p] = "abort_save" /\ tid'[p] = t /\ mem'[p] = r
        /\ \A q \in Procs \ {p} : Idles(q)
        /\ UNCHANGED <<db, lastId, now>>
    BY <1>1, <2>1, Moves DEF AbortPick
  <2>4. PhaseTimes(r) /\ SameTest(r, db[t])
    BY <2>2, HeldRow, Numbers DEF PhaseTimes, SameTest, Row
  <2> HIDE DEF r
  <2> QED
    BY <2>2, <2>3, <2>4, Points, Reading
<1>2. CASE AbortSave(p)
  <2> DEFINE r == [db[tid[p]] EXCEPT !.status = "ABORTED", !.ended = mem[p].ended]
  <2>1. HasRow(p) /\ Exists(tid[p])
    BY <1>2, Points DEF AbortSave, HasRow
  <2>2. /\ db' = [db EXCEPT ![tid[p]] = r] /\ UNCHANGED <<now, lastId>>
        /\ Go(p, "abort_command") /\ UNCHANGED <<tid, mem>>
    BY <1>2 DEF AbortSave
  <2>3. "ABORTED" \in Status \ (ActiveStatus \cup CompletedStatus \cup AbsentStatus)
    BY DEF Status, ActiveStatus, CompletedStatus, AbsentStatus
  <2>4. r \in Row /\ r.status = "ABORTED"
    BY <2>1, <2>3, Known DEF Row
  <2>5. PhaseTimes(r) /\ SameTest(db[tid[p]], r)
    BY <2>1, Known DEF PhaseTimes, SameTest, Row
  <2> HIDE DEF r
  <2> QED
    BY <2>1, <2>2, <2>3, <2>4, <2>5, Points, Writing
<1>3. CASE AbortCommand(p)
  <2>1. HasRow(p)
    BY <1>3, Points DEF AbortCommand, HasRow
  <2>2. /\ pc'[p] = "abort_log" /\ tid'[p] = tid[p] /\ mem'[p] = mem[p]
        /\ \A q \in Procs \ {p} : Idles(q)
        /\ UNCHANGED <<db, lastId, now>>
    BY <1>3, Moves DEF AbortCommand
  <2> QED
    BY <2>1, <2>2, Known, Points, Reading
<1>4. CASE AbortLog(p)
  BY <1>0, <1>4, RowsRead, Returned DEF AbortLog, IInv
<1> QED
  BY <1>1, <1>2, <1>3, <1>4 DEF AbortStep

LEMMA ViewStepInv ==
  ASSUME TypeOK, TypeOK', IInv, NEW p \in Viewers,
         ViewPick(p) \/ ReportPick(p) \/ Reevaluate(p)
  PROVE  IInv'
<1> USE DEF plc, local
<1> p \in Procs
  BY DEF Procs
<1>0. now \in Nat /\ lastId \in Nat
  BY Numbers
<1>1. ASSUME NEW t \in Completed, Hold(p, t, db[t], "reevaluate"), UNCHANGED <<db, lastId, now>>
      PROVE  IInv'
  <2>1. t \in TestIds /\ db[t].status # "NONE" /\ "reevaluate" \in Judging
    BY <1>1 DEF Completed, CompletedStatus, Judging
  <2>2. /\ pc'[p] = "reevaluate" /\ tid'[p] = t /\ mem'[p] = db[t]
        /\ \A q \in Procs \ {p} : Idles(q)
    BY <1>1, Moves
  <2> QED
    BY <1>1, <2>1, <2>2, HeldRow, Points, Reading
<1>2. CASE ViewPick(p)
  BY <1>1, <1>2 DEF ViewPick
<1>3. CASE ReportPick(p)
  <2>1. /\ UNCHANGED <<db, lastId, now>>
        /\ (\E t \in Completed : Hold(p, t, db[t], "reevaluate")) \/ UNCHANGED local
    BY <1>3 DEF ReportPick
  <2>2. CASE UNCHANGED local
    <3>1. \A q \in Procs : Idles(q)
      BY <2>2 DEF Idles
    <3>2. DbKeeps /\ \A t \in TestIds : RowInv(t)'
      BY <1>0, <2>1, RowsRead DEF IInv
    <3>3. \A q \in Procs : ProcInv(q)'
      BY <3>1, <3>2, IdleProcess DEF IInv
    <3>4. OwnKey'
      BY <2>2 DEF OwnKey, IInv
    <3> QED
      BY <3>2, <3>3, <3>4 DEF IInv
  <2> QED
    BY <1>1, <2>1, <2>2
<1>4. CASE Reevaluate(p)
  <2>1. HasRow(p) /\ Exists(tid[p]) /\ pc[p] \in Judging
    BY <1>4, Points DEF Reevaluate, HasRow, Judging
  <2> QED
    BY <1>4, <2>1, VerdictInv DEF Reevaluate
<1> QED
  BY <1>2, <1>3, <1>4

LEMMA DeleteStepInv ==
  ASSUME TypeOK, TypeOK', IInv, NEW p \in Deleters, DeletePick(p) \/ DeleteRow(p)
  PROVE  IInv'
<1> USE DEF plc, local
<1> p \in Procs
  BY DEF Procs
<1>1. CASE DeletePick(p)
  <2>1. PICK t \in TestIds : Exists(t) /\ t \notin Active /\ Hold(p, t, db[t], "delete")
    BY <1>1 DEF DeletePick
  <2>2. db[t].status # "NONE"
    BY <2>1 DEF Exists, AbsentStatus
  <2>3. /\ pc'[p] = "delete" /\ tid'[p] = t /\ mem'[p] = db[t]
        /\ \A q \in Procs \ {p} : Idles(q)
        /\ UNCHANGED <<db, lastId, now>>
    BY <1>1, <2>1, Moves DEF DeletePick
  <2> QED
    BY <2>1, <2>2, <2>3, HeldRow, Points, Reading
<1>2. CASE DeleteRow(p)
  <2> DEFINE r == [Blank EXCEPT !.status = "DELETED"]
  <2>1. HasRow(p)
    BY <1>2, Points DEF DeleteRow, HasRow
  <2>2. db' = [db EXCEPT ![tid[p]] = r] /\ UNCHANGED <<now, lastId>> /\ Return(p)
    BY <1>2 DEF DeleteRow
  <2>3. r \in Row /\ r.status = "DELETED" /\ PhaseTimes(r)
    BY BlankType, StatusField DEF Status, AbsentStatus, Blank, PhaseTimes
  <2>4. "DELETED" \in AbsentStatus \ (ActiveStatus \cup CompletedStatus)
    BY DEF AbsentStatus, ActiveStatus, CompletedStatus
  <2> HIDE DEF r
  <2>5. DbKeeps /\ \A t \in TestIds : RowInv(t)'
    BY <2>1, <2>2, <2>3, <2>4, Known, RowWritten DEF IInv
  <2> QED
    BY <2>2, <2>5, Returned
<1> QED
  BY <1>1, <1>2

LEMMA IInvStep == TypeOK /\ IInv /\ [Next]_vars => IInv'
<1> SUFFICES ASSUME TypeOK, IInv, [Next]_vars
             PROVE  IInv'
  OBVIOUS
<1> USE DEF plc, local
<1>0. TypeOK' /\ now \in Nat /\ lastId \in Nat
  BY TypeStep, Numbers
<1>1. ASSUME db' = db, lastId' = lastId, now' >= now, UNCHANGED local
      PROVE  IInv'
  <2>1. DbKeeps /\ \A t \in TestIds : RowInv(t)'
    BY <1>0, <1>1, RowsRead DEF IInv
  <2>2. \A q \in Procs : Idles(q)
    BY <1>1 DEF Idles
  <2>3. \A q \in Procs : ProcInv(q)'
    BY <1>0, <2>1, <2>2, IdleProcess DEF IInv
  <2>4. OwnKey'
    BY <1>1 DEF OwnKey, IInv
  <2> QED
    BY <2>1, <2>3, <2>4 DEF IInv
<1>2. CASE Tick \/ PollOk \/ PollLost \/ UNCHANGED vars
  BY <1>0, <1>1, <1>2 DEF Tick, PollOk, PollLost, vars
<1>3. ASSUME NEW p \in Procs, RowGone(p) \/ Crash(p)
      PROVE  IInv'
  <2>1. UNCHANGED <<db, lastId, now>> /\ Return(p)
    BY <1>3 DEF RowGone, Crash
  <2> QED
    BY <1>0, <2>1, RowsRead, Returned DEF IInv
<1> QED
  <2> Supervisors \cup Aborters \subseteq Procs /\ Aborters \subseteq Procs
    BY DEF Procs
  <2> QED
    BY <1>0, <1>2, <1>3, StartStepInv, SuperviseStepInv, AbortStepInv, ViewStepInv, DeleteStepInv
       DEF Next

LEMMA IInvInit == Init => IInv
<1> SUFFICES ASSUME Init PROVE IInv
  OBVIOUS
<1>1. \A t \in TestIds : RowInv(t)
  BY BlankTimes DEF Init, RowInv, Completed, CompletedStatus, Blank
<1>2. \A p \in Procs : ProcInv(p)
  BY BlankTimes DEF Init, ProcInv, HasRow, NoRowYet, InTransaction, Judging
<1>3. OwnKey
  BY DEF Init, OwnKey, InTransaction
<1> QED
  BY <1>1, <1>2, <1>3 DEF IInv

\* The inductive invariant holds: rows and in-memory copies agree on the test they
\* are about and honour its recipe, whatever the interleaving.
THEOREM Inductive == Spec => [](TypeOK /\ IInv)
<1>1. Init => TypeOK /\ IInv
  BY TypeInit, IInvInit
<1>2. TypeOK /\ IInv /\ [Next]_vars => (TypeOK /\ IInv)'
  BY TypeStep, IInvStep
<1> QED
  BY <1>1, <1>2, PTL DEF Spec

\* Whatever workers, requests and crashes do to each other, a test has a verdict only
\* once its start, stable and stop phase have gone by (supervise_active_test,
\* complete_test, reconcile_completed_result).
THEOREM NoEarlyVerdict == Spec => []CompletedOnlyWhenDue
<1>1. IInv => CompletedOnlyWhenDue
  BY DEF IInv, RowInv, CompletedOnlyWhenDue, Completed
<1> QED
  BY <1>1, Inductive, PTL
-----------------------------------------------------------------------------
(***************************************************************************)
(* The history of the rows.  TestLifecycle implements TestPromise: the     *)
(* rows are all the abstraction sees, so only the steps that write a row   *)
(* need an argument, and what each of them writes is a start, a verdict,   *)
(* an abort, a deletion, or nothing the promise speaks of.  That no test   *)
(* runs again and no running test is deleted are read off the abstract     *)
(* steps.                                                                  *)
(*                                                                         *)
(* Test numbers are unique for any number of operators: the unique index   *)
(* makes an insert wait for the transactions that hold the same number and *)
(* refuses it afterwards.  That there is one active test at a time is      *)
(* guaranteed for one operator only: with two, each reads the table before *)
(* the other commits.                                                      *)
(***************************************************************************)

LifeMap == [t \in TestIds |-> LifeOf(db[t])]
DueMap == [t \in TestIds |-> Due(db[t])]

\* The abstract step that replacing row r by row s is.
Starts(r, s) == LifeOf(r) = "none" /\ LifeOf(s) = "running" /\ Due(s) \in Nat
Judges(r, s) ==
  /\ LifeOf(r) \in {"running", "verdict", "aborted"}
  /\ LifeOf(s) = "verdict"
  /\ Due(s) = Due(r)
  /\ now >= Due(r)
Aborts(r, s) ==
  /\ LifeOf(r) \in {"running", "verdict", "aborted"}
  /\ LifeOf(s) = "aborted"
  /\ Due(s) = Due(r)
Deletes(r, s) ==
  /\ LifeOf(r) \in {"verdict", "aborted", "deleted"}
  /\ LifeOf(s) = "deleted"
  /\ Due(s) = 0
Keeps(r, s) == LifeOf(s) = LifeOf(r) /\ Due(s) = Due(r)

LEMMA LifeByStatus ==
  ASSUME NEW r \in Row
  PROVE  /\ r.status = "NONE" <=> LifeOf(r) = "none"
         /\ r.status \in ActiveStatus <=> LifeOf(r) = "running"
         /\ r.status \in CompletedStatus <=> LifeOf(r) = "verdict"
         /\ r.status = "ABORTED" <=> LifeOf(r) = "aborted"
         /\ r.status = "DELETED" <=> LifeOf(r) = "deleted"
         /\ LifeOf(r) \in {"none", "running", "verdict", "aborted", "deleted"}
<1>1. r.status \in Status
  BY DEF Row
<1> QED
  BY <1>1 DEF LifeOf, Status, ActiveStatus, CompletedStatus, AbsentStatus

LEMMA RowStep ==
  ASSUME TypeOK, NEW t \in TestIds, NEW r \in Row, db' = [db EXCEPT ![t] = r], now' = now,
         \/ Starts(db[t], r) \/ Judges(db[t], r) \/ Aborts(db[t], r)
         \/ Deletes(db[t], r) \/ Keeps(db[t], r)
  PROVE  [Promise!Next]_(Promise!vars)
<1> USE DEF LifeMap, DueMap
<1>1. /\ LifeMap' = [LifeMap EXCEPT ![t] = LifeOf(r)]
      /\ DueMap' = [DueMap EXCEPT ![t] = Due(r)]
  <2>1. \A u \in TestIds : db'[u] = IF u = t THEN r ELSE db[u]
    BY DEF TypeOK
  <2>2. LifeMap' = [u \in TestIds |-> LifeOf(db'[u])]
    OBVIOUS
  <2>3. DueMap' = [u \in TestIds |-> Due(db'[u])]
    OBVIOUS
  <2>4. \A u \in TestIds : LifeOf(db'[u]) = IF u = t THEN LifeOf(r) ELSE LifeOf(db[u])
    BY <2>1
  <2>5. \A u \in TestIds : Due(db'[u]) = IF u = t THEN Due(r) ELSE Due(db[u])
    BY <2>1
  <2> QED
    BY <2>2, <2>3, <2>4, <2>5
<1>2. LifeMap[t] = LifeOf(db[t]) /\ DueMap[t] = Due(db[t])
  OBVIOUS
<1>3. CASE Starts(db[t], r)
  <2>1. DueMap' \in [TestIds -> Nat]
    BY <1>1, <1>3, Numbers DEF Starts
  <2>2. \A u \in TestIds \ {t} : DueMap'[u] = DueMap[u]
    BY <1>1
  <2> HIDE DEF LifeMap, DueMap
  <2>3. LifeMap[t] = "none" /\ LifeMap' = [LifeMap EXCEPT ![t] = "running"]
    BY <1>1, <1>2, <1>3 DEF Starts
  <2> QED
    BY <2>1, <2>2, <2>3 DEF Promise!Next, Promise!Start, Promise!Become, LifeMap, DueMap
<1>4. CASE Judges(db[t], r)
  <2>1. DueMap' = DueMap
    BY <1>1, <1>4 DEF Judges
  <2> QED
    BY <1>1, <1>2, <1>4, <2>1 DEF Judges, Promise!Next, Promise!Judge, Promise!Become
<1>5. CASE Aborts(db[t], r)
  <2>1. DueMap' = DueMap
    BY <1>1, <1>5 DEF Aborts
  <2> QED
    BY <1>1, <1>2, <1>5, <2>1 DEF Aborts, Promise!Next, Promise!Abort, Promise!Become
<1>6. CASE Deletes(db[t], r)
  BY <1>1, <1>2, <1>6 DEF Deletes, Promise!Next, Promise!Delete, Promise!Become
<1>7. CASE Keeps(db[t], r)
  <2>1. LifeMap' = LifeMap /\ DueMap' = DueMap
    BY <1>1, <1>7 DEF Keeps
  <2> QED
    BY <2>1 DEF Promise!vars
<1> QED
  BY <1>3, <1>4, <1>5, <1>6, <1>7

LEMMA NoRowStep ==
  ASSUME TypeOK, UNCHANGED <<db, now>>
  PROVE  [Promise!Next]_(Promise!vars)
BY DEF Promise!vars

\* A row that exists and is written by its key's holder has started and has the same
\* programme as the copy.
LEMMA VerdictStep ==
  ASSUME TypeOK, IInv, NEW p \in Procs, HasRow(p), pc[p] \in Judging, Exists(tid[p]),
         SaveVerdict(p), now' = now
  PROVE  [Promise!Next]_(Promise!vars)
<1>1. PICK v \in CompletedStatus : db' = [db EXCEPT ![tid[p]].status = v]
  BY DEF SaveVerdict
<1> DEFINE r == [db[tid[p]] EXCEPT !.status = v]
<1>2. db' = [db EXCEPT ![tid[p]] = r]
  BY <1>1
<1>3. r \in Row /\ r.status = v /\ Due(r) = Due(db[tid[p]])
  BY Known, StatusField DEF Status, Row, Due
<1>4. now >= Due(db[tid[p]])
  BY Known DEF SameTest, Due
<1>5. LifeOf(r) = "verdict"
  BY <1>3, LifeByStatus
<1>6. LifeOf(db[tid[p]]) \in {"running", "verdict", "aborted"}
  BY Known, LifeByStatus DEF Exists, AbsentStatus
<1>7. Judges(db[tid[p]], r)
  BY <1>3, <1>4, <1>5, <1>6 DEF Judges
<1> HIDE DEF r
<1> QED
  BY <1>2, <1>3, <1>7, Known, RowStep

\* A time field of an existing row is not the promise's business.
LEMMA TimeStep ==
  ASSUME TypeOK, IInv, NEW p \in Procs, HasRow(p), now' = now,
         NEW x \in OptTime,
         \/ db' = [db EXCEPT ![tid[p]].stable = x]
         \/ db' = [db EXCEPT ![tid[p]].stop = x]
         \/ db' = [db EXCEPT ![tid[p]].ended = x]
  PROVE  [Promise!Next]_(Promise!vars)
<1> DEFINE d == db[tid[p]]
<1>1. PICK r \in Row : /\ db' = [db EXCEPT ![tid[p]] = r]
                       /\ r.status = d.status /\ SameTest(r, d)
  <2>1. d \in Row
    BY Known
  <2>2. \A r \in {[d EXCEPT !.stable = x], [d EXCEPT !.stop = x], [d EXCEPT !.ended = x]} :
          r \in Row /\ r.status = d.status /\ SameTest(r, d)
    BY <2>1, TimeField DEF Row, SameTest
  <2> QED
    BY <2>2
<1>2. Keeps(d, r)
  BY <1>1 DEF Keeps, LifeOf, Due, SameTest
<1> QED
  BY <1>1, <1>2, Known, RowStep

LEMMA StartCommitStep ==
  ASSUME TypeOK, IInv, NEW p \in Procs, StartCommit(p)
  PROVE  [Promise!Next]_(Promise!vars)
<1> DEFINE r == [mem[p] EXCEPT !.status = "RUNNING"]
<1>1. pc[p] \in InTransaction /\ tid[p] \in TestIds /\ mem[p] \in Row
  BY DEF StartCommit, InTransaction, TypeOK, LocalOK, NoRowYet
<1>2. db[tid[p]].status = "NONE" /\ db[tid[p]] \in Row
  BY <1>1 DEF IInv, ProcInv, TypeOK
<1>3. "RUNNING" \in Status /\ "RUNNING" \in ActiveStatus
  BY DEF Status, ActiveStatus
<1>4. r \in Row /\ r.status = "RUNNING" /\ Due(r) = Due(mem[p])
  BY <1>1, <1>3, StatusField DEF Row, Due
<1>5. Starts(db[tid[p]], r)
  BY <1>2, <1>3, <1>4, LifeByStatus, Numbers DEF Starts
<1>6. db' = [db EXCEPT ![tid[p]] = r] /\ now' = now
  BY DEF StartCommit
<1> HIDE DEF r
<1> QED
  BY <1>1, <1>4, <1>5, <1>6, RowStep

LEMMA AbortSaveStep ==
  ASSUME TypeOK, IInv, NEW p \in Procs, AbortSave(p)
  PROVE  [Promise!Next]_(Promise!vars)
<1> DEFINE d == db[tid[p]]
           r == [[d EXCEPT !.status = "ABORTED"] EXCEPT !.ended = mem[p].ended]
<1>1. HasRow(p) /\ Exists(tid[p])
  BY Points DEF AbortSave, HasRow
<1>2. d \in Row /\ mem[p].ended \in OptTime /\ "ABORTED" \in Status
  BY <1>1, Known DEF Row, Status
<1>3. r \in Row /\ r.status = "ABORTED" /\ Due(r) = Due(d)
  BY <1>2, StatusField, TimeField DEF Row, Due
<1>4. Aborts(d, r)
  BY <1>1, <1>2, <1>3, LifeByStatus DEF Aborts, Exists, AbsentStatus
<1>5. db' = [db EXCEPT ![tid[p]] = r] /\ now' = now
  BY DEF AbortSave
<1> HIDE DEF r
<1> QED
  BY <1>1, <1>3, <1>4, <1>5, Known, RowStep

LEMMA DeleteRowStep ==
  ASSUME TypeOK, IInv, NEW p \in Procs, DeleteRow(p)
  PROVE  [Promise!Next]_(Promise!vars)
<1> DEFINE d == db[tid[p]]
           r == [Blank EXCEPT !.status = "DELETED"]
<1>1. HasRow(p) /\ tid[p] \notin Active
  BY Points DEF DeleteRow, HasRow, IInv, ProcInv
<1>2. d \in Row /\ tid[p] \in TestIds /\ d.status # "NONE" /\ d.status \notin ActiveStatus
  BY <1>1, Known DEF Active
<1>3. r \in Row /\ r.status = "DELETED" /\ Due(r) = 0
  BY BlankType, StatusField DEF Status, AbsentStatus, Blank, Due, NoRecipe
<1>4. Deletes(d, r)
  BY <1>2, <1>3, LifeByStatus DEF Deletes
<1>5. db' = [db EXCEPT ![tid[p]] = r] /\ now' = now
  BY DEF DeleteRow
<1> HIDE DEF r
<1> QED
  BY <1>2, <1>3, <1>4, <1>5, RowStep

LEMMA SuperviseKeepsPromise ==
  ASSUME TypeOK, IInv, NEW p \in Procs, SuperviseStep(p)
  PROVE  [Promise!Next]_(Promise!vars)
<1>1. CASE SupervisePick(p) \/ SuperviseAbort(p) \/ EnterStable(p) \/ EnterStop(p) \/ StayInPhase(p)
           \/ PhaseCommand(p) \/ StopCommand(p) \/ EnqueueReports(p)
  BY <1>1, NoRowStep DEF SupervisePick, SuperviseAbort, EnterStable, EnterStop, StayInPhase,
     PhaseCommand, StopCommand, EnqueueReports
<1>2. CASE SaveStable(p)
  <2>1. HasRow(p) /\ mem[p].stable \in OptTime
    BY <1>2, Points, Known DEF SaveStable, HasRow, Row
  <2> QED
    BY <1>2, <2>1, TimeStep DEF SaveStable
<1>3. CASE SaveStop(p)
  <2>1. HasRow(p) /\ mem[p].stop \in OptTime
    BY <1>3, Points, Known DEF SaveStop, HasRow, Row
  <2> QED
    BY <1>3, <2>1, TimeStep DEF SaveStop
<1>4. CASE SaveEnded(p)
  <2>1. HasRow(p) /\ mem[p].ended \in OptTime
    BY <1>4, Points, Known DEF SaveEnded, HasRow, Row, Judging
  <2> QED
    BY <1>4, <2>1, TimeStep DEF SaveEnded
<1>5. CASE Evaluate(p)
  <2>1. HasRow(p) /\ pc[p] \in Judging /\ Exists(tid[p])
    BY <1>5, Points DEF Evaluate, HasRow, Judging
  <2> QED
    BY <1>5, <2>1, VerdictStep DEF Evaluate
<1> QED
  BY <1>1, <1>2, <1>3, <1>4, <1>5 DEF SuperviseStep

\* Every step of the lifecycle is a step of the promise, or one it does not see.
LEMMA PromiseStep == TypeOK /\ IInv /\ [Next]_vars => [Promise!Next]_(Promise!vars)
<1> SUFFICES ASSUME TypeOK, IInv, [Next]_vars
             PROVE  [Promise!Next]_(Promise!vars)
  OBVIOUS
<1>1. CASE Tick
  <2>1. now' = now + 1 /\ db' = db
    BY <1>1 DEF Tick
  <2> QED
    BY <2>1 DEF Promise!Next, Promise!Advance
<1>2. CASE PollOk \/ PollLost \/ UNCHANGED vars
  BY <1>2, NoRowStep DEF PollOk, PollLost, vars
<1>3. ASSUME NEW p \in Procs, StartCheck(p) \/ StartStep(p)
      PROVE  [Promise!Next]_(Promise!vars)
  BY <1>3, NoRowStep, StartCommitStep
     DEF StartStep, StartCheck, StartRecipe, StartInsert, StartDuplicate, StartCommand
<1>4. ASSUME NEW p \in Procs, AbortPick(p) \/ AbortStep(p)
      PROVE  [Promise!Next]_(Promise!vars)
  BY <1>4, NoRowStep, AbortSaveStep DEF AbortStep, AbortPick, AbortCommand, AbortLog
<1>5. ASSUME NEW p \in Procs, ViewPick(p) \/ ReportPick(p) \/ Reevaluate(p)
      PROVE  [Promise!Next]_(Promise!vars)
  <2>1. CASE Reevaluate(p)
    <3>1. HasRow(p) /\ pc[p] \in Judging /\ Exists(tid[p])
      BY <2>1, Points DEF Reevaluate, HasRow, Judging
    <3> QED
      BY <2>1, <3>1, VerdictStep DEF Reevaluate
  <2> QED
    BY <1>5, <2>1, NoRowStep DEF ViewPick, ReportPick
<1>6. ASSUME NEW p \in Procs, DeletePick(p) \/ DeleteRow(p)
      PROVE  [Promise!Next]_(Promise!vars)
  BY <1>6, NoRowStep, DeleteRowStep DEF DeletePick
<1>7. ASSUME NEW p \in Procs, RowGone(p) \/ Crash(p)
      PROVE  [Promise!Next]_(Promise!vars)
  BY <1>7, NoRowStep DEF RowGone, Crash
<1> QED
  BY <1>1, <1>2, <1>3, <1>4, <1>5, <1>6, <1>7, SuperviseKeepsPromise DEF Next, Procs

\* The record lifecycle, with all its stale copies, crashes and overlapping tasks, keeps
\* the promise of TestPromise to every test.
THEOREM LifecycleKeepsPromise == Spec => KeepsPromise
<1>1. Init => Promise!Init
  <2>1. LifeOf(Blank) = "none" /\ Due(Blank) = 0
    BY BlankType, LifeByStatus DEF Blank, Due, NoRecipe
  <2> QED
    BY <2>1 DEF Init, Promise!Init
<1>2. TypeOK /\ IInv /\ [Next]_vars => [Promise!Next]_(Promise!vars)
  BY PromiseStep
<1> QED
  BY <1>1, <1>2, Inductive, PTL DEF Spec, KeepsPromise, Promise!Spec

-----------------------------------------------------------------------------
(* What the promise says about single steps of a row.                      *)

LEMMA LifeStep ==
  ASSUME TypeOK, [Promise!Next]_(Promise!vars), NEW t \in TestIds
  PROVE  /\ LifeMap'[t] = "running" => LifeMap[t] \in {"none", "running"}
         /\ LifeMap[t] = "running" => LifeMap'[t] \notin {"none", "deleted"}
<1>1. LifeMap = [LifeMap EXCEPT ![t] = LifeMap[t]] /\ DOMAIN LifeMap = TestIds
  BY DEF LifeMap
<1>2. CASE UNCHANGED Promise!vars
  <2>1. LifeMap' = LifeMap
    BY <1>2 DEF Promise!vars, LifeMap
  <2> QED
    BY <2>1
<1>3. CASE Promise!Advance
  <2>1. LifeMap' = LifeMap
    BY <1>3 DEF Promise!Advance, LifeMap
  <2> QED
    BY <2>1
<1>4. ASSUME NEW u \in TestIds,
             Promise!Start(u) \/ Promise!Judge(u) \/ Promise!Abort(u) \/ Promise!Delete(u)
      PROVE  /\ LifeMap'[t] = "running" => LifeMap[t] \in {"none", "running"}
             /\ LifeMap[t] = "running" => LifeMap'[t] \notin {"none", "deleted"}
  <2>1. CASE Promise!Start(u)
    <3>1. LifeMap[u] = "none" /\ LifeMap' = [LifeMap EXCEPT ![u] = "running"]
      BY <2>1 DEF Promise!Start, Promise!Become, LifeMap
    <3> QED
      BY <1>1, <3>1
  <2>2. CASE Promise!Judge(u)
    <3>1. LifeMap' = [LifeMap EXCEPT ![u] = "verdict"]
      BY <2>2 DEF Promise!Judge, Promise!Become, LifeMap
    <3> QED
      BY <1>1, <3>1
  <2>3. CASE Promise!Abort(u)
    <3>1. LifeMap' = [LifeMap EXCEPT ![u] = "aborted"]
      BY <2>3 DEF Promise!Abort, Promise!Become, LifeMap
    <3> QED
      BY <1>1, <3>1
  <2>4. CASE Promise!Delete(u)
    <3>1. LifeMap[u] # "running" /\ LifeMap' = [LifeMap EXCEPT ![u] = "deleted"]
      BY <2>4 DEF Promise!Delete, Promise!Become, LifeMap
    <3> QED
      BY <1>1, <3>1
  <2> QED
    BY <1>4, <2>1, <2>2, <2>3, <2>4
<1> QED
  BY <1>2, <1>3, <1>4 DEF Promise!Next

LEMMA ActiveByLife ==
  ASSUME TypeOK, NEW t \in TestIds
  PROVE  /\ t \in Active <=> LifeMap[t] = "running"
         /\ db[t].status = "NONE" <=> LifeMap[t] = "none"
         /\ db[t].status = "DELETED" <=> LifeMap[t] = "deleted"
BY LifeByStatus DEF Active, LifeMap, TypeOK

LEMMA ActivePrimed ==
  ASSUME TypeOK', NEW t \in TestIds
  PROVE  /\ t \in Active' <=> LifeMap'[t] = "running"
         /\ db'[t].status = "NONE" <=> LifeMap'[t] = "none"
         /\ db'[t].status = "DELETED" <=> LifeMap'[t] = "deleted"
<1>1. db'[t] \in Row
  BY DEF TypeOK
<1>2. LifeMap'[t] = LifeOf(db'[t])
  BY DEF LifeMap
<1> QED
  BY <1>1, <1>2, LifeByStatus DEF Active

\* A test that has ended or was deleted never runs again: save(update_fields) of an old
\* copy cannot bring its status back.
THEOREM EndedTestsStayEnded == Spec => NoResurrection
<1>1. TypeOK /\ IInv /\ [Next]_vars =>
        [\A t \in TestIds : db[t].status # "NONE" /\ t \notin Active => t \notin Active']_db
  <2> SUFFICES ASSUME TypeOK, IInv, [Next]_vars, NEW t \in TestIds,
                      db[t].status # "NONE", t \notin Active
               PROVE  t \notin Active'
    OBVIOUS
  <2>1. TypeOK' /\ [Promise!Next]_(Promise!vars)
    BY PromiseStep, TypeStep
  <2>2. LifeMap[t] \notin {"none", "running"}
    BY ActiveByLife
  <2>3. LifeMap'[t] # "running"
    BY <2>1, <2>2, LifeStep
  <2> QED
    BY <2>1, <2>3, ActivePrimed
<1> QED
  BY <1>1, Inductive, PTL DEF Spec, NoResurrection

\* The history screen never deletes a running test: one that it has found ended stays
\* ended until the deletion.
THEOREM DeletionSparesActive == Spec => DeleteSparesActive
<1>1. TypeOK /\ IInv /\ [Next]_vars => [\A t \in Active : Exists(t)']_db
  <2> SUFFICES ASSUME TypeOK, IInv, [Next]_vars, NEW t \in Active
               PROVE  Exists(t)'
    OBVIOUS
  <2>1. TypeOK' /\ [Promise!Next]_(Promise!vars) /\ t \in TestIds
    BY PromiseStep, TypeStep DEF Active
  <2>2. LifeMap[t] = "running"
    BY <2>1, ActiveByLife
  <2>3. LifeMap'[t] \notin {"none", "deleted"}
    BY <2>1, <2>2, LifeStep
  <2> QED
    BY <2>1, <2>3, ActivePrimed DEF Exists, AbsentStatus
<1> QED
  BY <1>1, Inductive, PTL DEF Spec, DeleteSparesActive

-----------------------------------------------------------------------------
(* What start_test guarantees.                                             *)

StartPoints == {"start_recipe", "start_insert"} \cup InTransaction

\* An uncommitted row has a number of its own among the rows and the uncommitted rows.
NumberInv ==
  /\ TestNoUnique
  /\ \A p \in Procs : pc[p] \in InTransaction =>
       /\ p \in Starters
       /\ \A t \in TestIds : Exists(t) => TestNo(db[t]) # TestNo(mem[p])
  /\ \A p, q \in Procs :
       pc[p] \in InTransaction /\ pc[q] \in InTransaction /\ TestNo(mem[p]) = TestNo(mem[q])
         => p = q

\* Each active test was committed by a starter of its own, who has not begun another
\* start since.
OwnersInv ==
  \E starter \in [Active -> Starters] :
    /\ \A t, u \in Active : starter[t] = starter[u] => t = u
    /\ \A t \in Active : pc[starter[t]] \notin StartPoints

-----------------------------------------------------------------------------
(* Steps outside start_test: rows keep their number, no test becomes       *)
(* active, and no process arrives at a point of start_test.                *)

Outside == DbKeeps /\ \A q \in Procs : pc'[q] \in StartPoints => Idles(q)

LEMMA Overwrite ==
  ASSUME TypeOK, NEW t \in TestIds, NEW r \in Row,
         db' = [db EXCEPT ![t] = r], UNCHANGED <<now, lastId>>,
         db[t].status # "NONE", r.status # "NONE",
         r.status \notin AbsentStatus => Exists(t) /\ SameTest(db[t], r),
         r.status \in ActiveStatus => db[t].status \in ActiveStatus
  PROVE  DbKeeps
<1>1. \A u \in TestIds : db'[u] = IF u = t THEN r ELSE db[u]
  BY DEF TypeOK
<1> QED
  BY <1>1, Numbers DEF DbKeeps, Exists, SameTest

LEMMA Untouched ==
  ASSUME TypeOK, db' = db, lastId' >= lastId, now' >= now
  PROVE  DbKeeps
BY DEF DbKeeps, SameTest

LEMMA OneMoves ==
  ASSUME TypeOK, NEW p \in Procs, NEW c, NEW t, NEW r, DbKeeps,
         \/ c \notin StartPoints /\ Go(p, c) /\ UNCHANGED <<tid, mem>>
         \/ c \notin StartPoints /\ Hold(p, t, r, c)
         \/ Return(p)
  PROVE  Outside
<1>1. "idle" \notin StartPoints
  BY DEF StartPoints, InTransaction
<1>2. pc'[p] \notin StartPoints /\ \A q \in Procs \ {p} : Idles(q)
  BY <1>1, Moves
<1> QED
  BY <1>2 DEF Outside

LEMMA Reads ==
  ASSUME TypeOK, NEW p \in Procs, NEW c, NEW t, NEW r, UNCHANGED <<db, lastId, now>>,
         \/ c \notin StartPoints /\ Go(p, c) /\ UNCHANGED <<tid, mem>>
         \/ c \notin StartPoints /\ Hold(p, t, r, c)
         \/ Return(p)
  PROVE  Outside
BY Numbers, Untouched, OneMoves

LEMMA PointsOutside ==
  \A c \in {"idle", "supervise", "save_stable", "save_stop", "phase_command", "save_ended",
            "stop_command", "evaluate", "enqueue_reports", "reevaluate",
            "abort_save", "abort_command", "abort_log", "delete"} : c \notin StartPoints
BY DEF StartPoints, InTransaction

LEMMA VerdictKeeps ==
  ASSUME TypeOK, IInv, NEW p \in Procs, HasRow(p), Exists(tid[p]), SaveVerdict(p),
         UNCHANGED <<now, lastId>>
  PROVE  DbKeeps
<1>1. PICK v \in CompletedStatus : db' = [db EXCEPT ![tid[p]].status = v]
  BY DEF SaveVerdict
<1> DEFINE d == db[tid[p]]
           r == [d EXCEPT !.status = v]
<1>2. db' = [db EXCEPT ![tid[p]] = r]
  BY <1>1
<1>3. v \in Status /\ v \notin AbsentStatus /\ v \notin ActiveStatus
  BY DEF Status, CompletedStatus, AbsentStatus, ActiveStatus
<1>4. r \in Row /\ r.status = v /\ SameTest(d, r)
  BY <1>3, Known, StatusField DEF Row, SameTest
<1> HIDE DEF r
<1> QED
  BY <1>2, <1>3, <1>4, Known, Overwrite DEF AbsentStatus

LEMMA TimeKeeps ==
  ASSUME TypeOK, IInv, NEW p \in Procs, HasRow(p), Exists(tid[p]), UNCHANGED <<now, lastId>>,
         NEW x \in OptTime,
         \/ db' = [db EXCEPT ![tid[p]].stable = x]
         \/ db' = [db EXCEPT ![tid[p]].stop = x]
         \/ db' = [db EXCEPT ![tid[p]].ended = x]
  PROVE  DbKeeps
<1> DEFINE d == db[tid[p]]
<1>1. PICK r \in Row : /\ db' = [db EXCEPT ![tid[p]] = r]
                       /\ r.status = d.status /\ SameTest(d, r)
  <2>1. d \in Row
    BY Known
  <2>2. \A r \in {[d EXCEPT !.stable = x], [d EXCEPT !.stop = x], [d EXCEPT !.ended = x]} :
          r \in Row /\ r.status = d.status /\ SameTest(d, r)
    BY <2>1, TimeField DEF Row, SameTest
  <2> QED
    BY <2>2
<1> QED
  BY <1>1, Known, Overwrite

LEMMA SuperviseOutside ==
  ASSUME TypeOK, IInv, NEW p \in Procs, SuperviseStep(p)
  PROVE  Outside
<1>1. CASE SupervisePick(p)
  <2>1. PICK t \in TestIds : Hold(p, t, db[t], "supervise")
    BY <1>1 DEF SupervisePick
  <2> QED
    BY <1>1, <2>1, PointsOutside, Reads DEF SupervisePick
<1>2. CASE SuperviseAbort(p) \/ EnterStable(p) \/ EnterStop(p) \/ StayInPhase(p)
  BY <1>2, PointsOutside, Reads DEF SuperviseAbort, EnterStable, EnterStop, StayInPhase
<1>3. CASE PhaseCommand(p) \/ StopCommand(p) \/ EnqueueReports(p)
  BY <1>3, PointsOutside, Reads DEF PhaseCommand, StopCommand, EnqueueReports
<1>4. CASE SaveStable(p) \/ SaveStop(p) \/ SaveEnded(p)
  <2>1. HasRow(p) /\ Exists(tid[p])
    BY <1>4, Points DEF SaveStable, SaveStop, SaveEnded, HasRow, Judging
  <2>2. mem[p].stable \in OptTime /\ mem[p].stop \in OptTime /\ mem[p].ended \in OptTime
    BY <2>1, Known DEF Row
  <2>3. DbKeeps
    BY <1>4, <2>1, <2>2, TimeKeeps DEF SaveStable, SaveStop, SaveEnded
  <2> QED
    BY <1>4, <2>3, PointsOutside, OneMoves DEF SaveStable, SaveStop, SaveEnded
<1>5. CASE Evaluate(p)
  <2>1. HasRow(p)
    BY <1>5, Points DEF Evaluate, HasRow, Judging
  <2>2. DbKeeps
    BY <1>5, <2>1, VerdictKeeps DEF Evaluate
  <2> QED
    BY <1>5, <2>2, PointsOutside, OneMoves DEF Evaluate
<1> QED
  BY <1>1, <1>2, <1>3, <1>4, <1>5 DEF SuperviseStep

LEMMA AbortOutside ==
  ASSUME TypeOK, IInv, NEW p \in Procs, AbortPick(p) \/ AbortStep(p)
  PROVE  Outside
<1>1. CASE AbortPick(p)
  <2>1. PICK t \in TestIds : Hold(p, t, [db[t] EXCEPT !.ended = now], "abort_save")
    BY <1>1 DEF AbortPick
  <2> QED
    BY <1>1, <2>1, PointsOutside, Reads DEF AbortPick
<1>2. CASE AbortSave(p)
  <2> DEFINE d == db[tid[p]]
             r == [[d EXCEPT !.status = "ABORTED"] EXCEPT !.ended = mem[p].ended]
  <2>1. HasRow(p) /\ Exists(tid[p])
    BY <1>2, Points DEF AbortSave, HasRow
  <2>2. d \in Row /\ mem[p].ended \in OptTime /\ "ABORTED" \in Status \ ActiveStatus
    BY <2>1, Known DEF Row, Status, ActiveStatus
  <2>3. r \in Row /\ r.status = "ABORTED" /\ SameTest(d, r)
    BY <2>2, StatusField, TimeField DEF Row, SameTest
  <2>4. db' = [db EXCEPT ![tid[p]] = r] /\ UNCHANGED <<now, lastId>>
    BY <1>2 DEF AbortSave
  <2> HIDE DEF r
  <2>5. DbKeeps
    BY <2>1, <2>2, <2>3, <2>4, Known, Overwrite
  <2> QED
    BY <1>2, <2>5, PointsOutside, OneMoves DEF AbortSave
<1>3. CASE AbortCommand(p) \/ AbortLog(p)
  BY <1>3, PointsOutside, Reads DEF AbortCommand, AbortLog
<1> QED
  BY <1>1, <1>2, <1>3 DEF AbortStep

LEMMA ViewOutside ==
  ASSUME TypeOK, IInv, NEW p \in Procs, ViewPick(p) \/ ReportPick(p) \/ Reevaluate(p)
  PROVE  Outside
<1>1. CASE UNCHANGED <<db, lastId, now, pc, tid, mem>>
  <2>1. DbKeeps
    BY <1>1, Untouched, Numbers
  <2> QED
    BY <1>1, <2>1 DEF Outside, Idles
<1>2. CASE UNCHANGED <<db, lastId, now>> /\ \E t \in TestIds : Hold(p, t, db[t], "reevaluate")
  BY <1>2, PointsOutside, Reads
<1>3. CASE Reevaluate(p)
  <2>1. HasRow(p)
    BY <1>3, Points DEF Reevaluate, HasRow, Judging
  <2>2. DbKeeps
    BY <1>3, <2>1, VerdictKeeps DEF Reevaluate
  <2> QED
    BY <1>3, <2>2, OneMoves DEF Reevaluate
<1>4. ViewPick(p) => UNCHANGED <<db, lastId, now>> /\ \E t \in TestIds : Hold(p, t, db[t], "reevaluate")
  BY DEF ViewPick, Completed
<1>5. ReportPick(p) => \/ UNCHANGED <<db, lastId, now, pc, tid, mem>>
                       \/ UNCHANGED <<db, lastId, now>>
                          /\ \E t \in TestIds : Hold(p, t, db[t], "reevaluate")
  BY DEF ReportPick, Completed, local
<1> QED
  BY <1>1, <1>2, <1>3, <1>4, <1>5

LEMMA DeleteOutside ==
  ASSUME TypeOK, IInv, NEW p \in Procs, DeletePick(p) \/ DeleteRow(p)
  PROVE  Outside
<1>1. CASE DeletePick(p)
  <2>1. PICK t \in TestIds : Hold(p, t, db[t], "delete")
    BY <1>1 DEF DeletePick
  <2> QED
    BY <1>1, <2>1, PointsOutside, Reads DEF DeletePick
<1>2. CASE DeleteRow(p)
  <2> DEFINE r == [Blank EXCEPT !.status = "DELETED"]
  <2>1. HasRow(p)
    BY <1>2, Points DEF DeleteRow, HasRow
  <2>2. r \in Row /\ r.status = "DELETED" /\ "DELETED" \in AbsentStatus \ ActiveStatus
    BY BlankType, StatusField DEF Status, AbsentStatus, ActiveStatus, Blank
  <2>3. db' = [db EXCEPT ![tid[p]] = r] /\ UNCHANGED <<now, lastId>>
    BY <1>2 DEF DeleteRow
  <2> HIDE DEF r
  <2>4. DbKeeps
    BY <2>1, <2>2, <2>3, Known, Overwrite
  <2> QED
    BY <1>2, <2>4, OneMoves DEF DeleteRow
<1> QED
  BY <1>1, <1>2

\* Every step is one of start_test or outside it.
LEMMA NextCases ==
  ASSUME TypeOK, IInv, [Next]_vars
  PROVE  Outside \/ \E p \in Starters : StartCheck(p) \/ StartStep(p)
<1>1. CASE Tick \/ PollOk \/ PollLost \/ UNCHANGED vars
  <2>1. DbKeeps
    BY <1>1, Numbers, Untouched DEF Tick, PollOk, PollLost, vars
  <2> QED
    BY <1>1, <2>1 DEF Outside, Idles, Tick, PollOk, PollLost, vars, local
<1>2. ASSUME NEW p \in Procs, RowGone(p) \/ Crash(p)
      PROVE  Outside
  BY <1>2, Reads DEF RowGone, Crash
<1> QED
  BY <1>1, <1>2, SuperviseOutside, AbortOutside, ViewOutside, DeleteOutside DEF Next, Procs

-----------------------------------------------------------------------------
(* The steps of start_test.                                                *)

\* A step of start_test that leaves the rows alone.
LEMMA StartReads ==
  ASSUME TypeOK, NEW p \in Starters, StartCheck(p) \/ StartStep(p), ~ StartCommit(p)
  PROVE  db' = db
BY DEF StartCheck, StartStep, StartRecipe, StartInsert, StartDuplicate, StartCommand

LEMMA NumberStep == TypeOK /\ IInv /\ NumberInv /\ [Next]_vars => NumberInv'
<1> SUFFICES ASSUME TypeOK, IInv, NumberInv, [Next]_vars
             PROVE  NumberInv'
  OBVIOUS
<1>1. CASE Outside
  <2>1. \A t \in TestIds : Exists(t)' => Exists(t) /\ TestNo(db'[t]) = TestNo(db[t])
    BY <1>1 DEF Outside, DbKeeps, Exists, SameTest, TestNo
  <2>2. \A q \in Procs : pc'[q] \in InTransaction => pc[q] \in InTransaction /\ mem'[q] = mem[q]
    BY <1>1 DEF Outside, StartPoints, Idles
  <2> QED
    BY <2>1, <2>2 DEF NumberInv, TestNoUnique
<1>2. ASSUME NEW p \in Starters, StartCheck(p) \/ StartStep(p)
      PROVE  NumberInv'
  <2> p \in Procs
    BY DEF Procs
  <2>1. CASE StartCheck(p) \/ StartRecipe(p) \/ StartDuplicate(p)
    <3>1. db' = db /\ pc'[p] \notin InTransaction /\ \A q \in Procs \ {p} : Idles(q)
      <4>1. CASE StartCheck(p)
        <5>1. db' = db /\ pc'[p] = "start_recipe" /\ \A q \in Procs \ {p} : Idles(q)
          BY <4>1, Moves DEF StartCheck
        <5> QED
          BY <5>1 DEF InTransaction
      <4>2. CASE StartDuplicate(p)
        BY <4>2, Moves DEF StartDuplicate, InTransaction
      <4>3. CASE StartRecipe(p)
        <5>1. db' = db
          BY <4>3 DEF StartRecipe
        <5>2. PICK r : Hold(p, 0, r, "start_insert")
          BY <4>3 DEF StartRecipe
        <5> QED
          BY <5>1, <5>2, Moves DEF InTransaction
      <4> QED
        BY <2>1, <4>1, <4>2, <4>3
    <3> QED
      BY <3>1 DEF NumberInv, TestNoUnique, Exists, Idles
  <2>2. CASE StartInsert(p)
    <3>1. db' = db /\ mem'[p] = mem[p] /\ \A q \in Procs \ {p} : Idles(q)
      BY <2>2, Moves DEF StartInsert
    <3>2. \A t \in TestIds : Exists(t) => TestNo(db[t]) # TestNo(mem[p])
      BY <2>2 DEF StartInsert, TestNoTaken
    <3>3. \A q \in Starters \ {p} : pc[q] \in InTransaction => TestNo(mem[q]) # TestNo(mem[p])
      BY <2>2 DEF StartInsert, InsertBlocked
    <3> QED
      BY <3>1, <3>2, <3>3 DEF NumberInv, TestNoUnique, Exists, Idles
  <2>3. CASE StartCommand(p)
    <3>1. db' = db /\ mem'[p] = mem[p] /\ pc[p] \in InTransaction
          /\ \A q \in Procs \ {p} : Idles(q)
      BY <2>3, Moves DEF StartCommand, InTransaction
    <3> QED
      BY <3>1 DEF NumberInv, TestNoUnique, Exists, Idles
  <2>4. CASE StartCommit(p)
    <3>1. pc[p] \in InTransaction /\ tid[p] \in TestIds /\ mem[p] \in Row
      BY <2>4 DEF StartCommit, InTransaction, TypeOK, LocalOK, NoRowYet
    <3>2. pc'[p] \notin InTransaction /\ \A q \in Procs \ {p} : Idles(q)
      BY <2>4, Moves DEF StartCommit, InTransaction
    <3>3. \A t \in TestIds : db'[t] = IF t = tid[p] THEN [mem[p] EXCEPT !.status = "RUNNING"]
                                                    ELSE db[t]
      BY <2>4 DEF StartCommit, TypeOK
    <3>4. TestNo(db'[tid[p]]) = TestNo(mem[p])
      BY <3>1, <3>3 DEF TestNo, Row
    <3> QED
      BY <3>1, <3>2, <3>3, <3>4 DEF NumberInv, TestNoUnique, Exists, Idles
  <2> QED
    BY <1>2, <2>1, <2>2, <2>3, <2>4 DEF StartStep
<1> QED
  BY <1>1, <1>2, NextCases

\* Two tests never have the same number (start_test, TestRecord.test_no), for any number
\* of operators starting tests at once and any clock resolution.
THEOREM NumbersUnique == Spec => []TestNoUnique
<1>1. Init => NumberInv
  BY DEF Init, NumberInv, TestNoUnique, Exists, Blank, AbsentStatus, InTransaction
<1>2. NumberInv => TestNoUnique
  BY DEF NumberInv
<1> QED
  BY <1>1, <1>2, NumberStep, Inductive, PTL DEF Spec

-----------------------------------------------------------------------------
(* Active tests and those who started them.                                *)

\* The owners of tests that stay active stay their owners.
LEMMA OwnersStay ==
  ASSUME OwnersInv, Active' \subseteq Active,
         \A q \in Starters : pc'[q] \in StartPoints => pc[q] \in StartPoints \/ Active = {}
  PROVE  OwnersInv'
<1>1. PICK o \in [Active -> Starters] :
         /\ \A t, u \in Active : o[t] = o[u] => t = u
         /\ \A t \in Active : pc[o[t]] \notin StartPoints
  BY DEF OwnersInv
<1> DEFINE n == [t \in Active' |-> o[t]]
<1>2. n \in [Active' -> Starters]
  OBVIOUS
<1>3. \A t, u \in Active' : n[t] = n[u] => t = u
  BY <1>1
<1>4. \A t \in Active' : pc'[n[t]] \notin StartPoints
  BY <1>1
<1> HIDE DEF n
<1> QED
  BY <1>2, <1>3, <1>4 DEF OwnersInv

\* The test a starter commits is its only one.
LEMMA OwnersGrow ==
  ASSUME OwnersInv, NEW p \in Starters, NEW new, Active' = Active \cup {new}, new \notin Active,
         pc[p] \in StartPoints, pc'[p] \notin StartPoints,
         \A q \in Starters \ {p} : pc'[q] = pc[q]
  PROVE  OwnersInv'
<1>1. PICK o \in [Active -> Starters] :
         /\ \A t, u \in Active : o[t] = o[u] => t = u
         /\ \A t \in Active : pc[o[t]] \notin StartPoints
  BY DEF OwnersInv
<1> DEFINE n == [t \in Active' |-> IF t = new THEN p ELSE o[t]]
<1>2. n \in [Active' -> Starters]
  OBVIOUS
<1>3. \A t \in Active : n[t] = o[t] /\ o[t] # p
  BY <1>1
<1>4. n[new] = p
  OBVIOUS
<1> HIDE DEF n
<1>5. \A t, u \in Active' : n[t] = n[u] => t = u
  BY <1>1, <1>3, <1>4
<1>6. \A t \in Active' : pc'[n[t]] \notin StartPoints
  BY <1>1, <1>3, <1>4
<1> QED
  BY <1>2, <1>5, <1>6 DEF OwnersInv

LEMMA OwnersStep == TypeOK /\ IInv /\ OwnersInv /\ [Next]_vars => OwnersInv'
<1> SUFFICES ASSUME TypeOK, IInv, OwnersInv, [Next]_vars
             PROVE  OwnersInv'
  OBVIOUS
<1>1. CASE Outside
  <2>1. Active' \subseteq Active
    BY <1>1 DEF Outside, DbKeeps, Active
  <2>2. \A q \in Starters : pc'[q] \in StartPoints => pc[q] \in StartPoints
    BY <1>1 DEF Outside, Idles, Procs
  <2> QED
    BY <2>1, <2>2, OwnersStay
<1>2. ASSUME NEW p \in Starters, StartCheck(p) \/ StartStep(p)
      PROVE  OwnersInv'
  <2> p \in Procs
    BY DEF Procs
  <2>1. \A q \in Starters \ {p} : pc'[q] = pc[q]
    BY <1>2, Moves DEF StartCheck, StartStep, StartRecipe, StartInsert, StartDuplicate,
       StartCommand, StartCommit, Procs, Idles
  <2>2. CASE ~ StartCommit(p)
    <3>1. Active' = Active
      BY <1>2, <2>2, StartReads DEF Active
    <3>2. pc[p] \in StartPoints \/ Active = {}
      BY <1>2, <2>2 DEF StartCheck, StartStep, StartRecipe, StartInsert, StartDuplicate,
         StartCommand, StartPoints, InTransaction
    <3> QED
      BY <2>1, <3>1, <3>2, OwnersStay
  <2>3. CASE StartCommit(p)
    <3>1. pc[p] \in InTransaction /\ pc[p] \in StartPoints
      BY <2>3 DEF StartCommit, InTransaction, StartPoints
    <3>2. pc'[p] \notin StartPoints
      BY <2>3, Moves DEF StartCommit, StartPoints, InTransaction
    <3>3. tid[p] \in TestIds /\ mem[p] \in Row
      BY <3>1 DEF InTransaction, TypeOK, LocalOK, NoRowYet
    <3>4. tid[p] \notin Active
      BY <3>1 DEF IInv, ProcInv, Active, ActiveStatus
    <3>5. \A t \in TestIds : db'[t] = IF t = tid[p] THEN [mem[p] EXCEPT !.status = "RUNNING"]
                                                    ELSE db[t]
      BY <2>3 DEF StartCommit, TypeOK
    <3>6. db'[tid[p]].status = "RUNNING"
      BY <3>3, <3>5 DEF Row
    <3>7. Active' = Active \cup {tid[p]}
      BY <3>3, <3>5, <3>6 DEF Active, ActiveStatus
    <3> QED
      BY <2>1, <3>1, <3>2, <3>4, <3>7, OwnersGrow
  <2> QED
    BY <2>2, <2>3
<1> QED
  BY <1>1, <1>2, NextCases

\* However many operators start tests at the same time, no two active tests come from the
\* same one: start_test can let through as many tests as there are overlapping requests
\* and no more, and with a single operator there is at most one active test.
THEOREM OperatorsOwnTheirTests == Spec => []OneTestPerOperator
<1>1. Init => OwnersInv
  <2> SUFFICES ASSUME Init PROVE OwnersInv
    OBVIOUS
  <2>1. Active = {}
    BY DEF Init, Active, ActiveStatus, Blank
  <2>2. [t \in {} |-> 0] \in [{} -> Starters]
    OBVIOUS
  <2> QED
    BY <2>1, <2>2 DEF OwnersInv
<1>2. OwnersInv => OneTestPerOperator
  BY DEF OwnersInv, OneTestPerOperator
<1> QED
  BY <1>1, <1>2, OwnersStep, Inductive, PTL DEF Spec

-----------------------------------------------------------------------------
(* An abort that settles.                                                  *)

\* Nobody picks an aborted test to decide on it.
LEMMA NewDecision ==
  ASSUME TypeOK, NEW p \in Procs, NEW t \in TestIds, db[t].status = "ABORTED",
         SupervisePick(p) \/ ViewPick(p) \/ ReportPick(p), tid'[p] = t, pc'[p] \in Deciding
  PROVE  tid[p] = t /\ pc[p] \in Deciding
<1>1. \A u \in TestIds : u \in Active \cup Completed => u # t
  BY DEF Active, ActiveStatus, Completed, CompletedStatus
<1>2. CASE SupervisePick(p)
  BY <1>1, <1>2, Moves DEF SupervisePick, IsFirstActive
<1>3. CASE ViewPick(p)
  BY <1>1, <1>3, Moves DEF ViewPick, Completed
<1>4. CASE ReportPick(p)
  BY <1>1, <1>4, Moves DEF ReportPick, Completed, local
<1> QED
  BY <1>2, <1>3, <1>4

\* A process that goes on to another point does not decide.
LEMMA NotDeciding ==
  ASSUME TypeOK, NEW p \in Procs, NEW c, NEW t, NEW r,
         \/ c \notin Deciding /\ Go(p, c) /\ UNCHANGED <<tid, mem>>
         \/ c \notin Deciding /\ Hold(p, t, r, c)
         \/ Return(p)
  PROVE  pc'[p] \notin Deciding /\ \A q \in Procs \ {p} : Idles(q)
<1>1. "idle" \notin Deciding
  BY DEF Deciding
<1> QED
  BY <1>1, Moves

LEMMA PointsUndecided ==
  \A c \in {"start_recipe", "start_insert", "start_command", "start_commit", "abort_save",
            "abort_command", "abort_log", "delete", "enqueue_reports"} : c \notin Deciding
BY DEF Deciding

\* A process decides on t after a step only if it did before.
LEMMA DecisionStep ==
  ASSUME TypeOK, NEW t \in TestIds, db[t].status = "ABORTED", [Next]_vars,
         NEW q \in Procs, tid'[q] = t, pc'[q] \in Deciding
  PROVE  tid[q] = t /\ pc[q] \in Deciding
<1>1. CASE Idles(q)
  BY <1>1 DEF Idles
<1>2. CASE Tick \/ PollOk \/ PollLost \/ UNCHANGED vars
  BY <1>2 DEF Tick, PollOk, PollLost, vars, local
<1>3. ASSUME NEW p \in Procs, ~ Idles(q),
             \/ SuperviseAbort(p) \/ AbortPick(p) \/ AbortStep(p) \/ StartCheck(p) \/ StartStep(p)
             \/ DeletePick(p) \/ DeleteRow(p) \/ RowGone(p) \/ Crash(p)
             \/ EnqueueReports(p) \/ Reevaluate(p)
      PROVE  FALSE
  <2>1. pc'[p] \notin Deciding /\ \A u \in Procs \ {p} : Idles(u)
    <3>1. CASE StartRecipe(p)
      <4>1. PICK r : Hold(p, 0, r, "start_insert")
        BY <3>1 DEF StartRecipe
      <4> QED
        BY <4>1, PointsUndecided, NotDeciding
    <3>2. CASE AbortPick(p)
      <4>1. PICK u \in TestIds : Hold(p, u, [db[u] EXCEPT !.ended = now], "abort_save")
        BY <3>2 DEF AbortPick
      <4> QED
        BY <4>1, PointsUndecided, NotDeciding
    <3>3. CASE DeletePick(p)
      <4>1. PICK u \in TestIds : Hold(p, u, db[u], "delete")
        BY <3>3 DEF DeletePick
      <4> QED
        BY <4>1, PointsUndecided, NotDeciding
    <3>4. CASE \/ StartCheck(p) \/ StartInsert(p) \/ StartDuplicate(p) \/ StartCommand(p)
               \/ StartCommit(p)
      BY <3>4, PointsUndecided, NotDeciding DEF StartCheck, StartInsert, StartDuplicate,
         StartCommand, StartCommit
    <3>5. CASE SuperviseAbort(p) \/ AbortSave(p) \/ AbortCommand(p) \/ AbortLog(p)
      BY <3>5, PointsUndecided, NotDeciding DEF SuperviseAbort, AbortSave, AbortCommand, AbortLog
    <3>6. CASE DeleteRow(p) \/ RowGone(p) \/ Crash(p) \/ EnqueueReports(p) \/ Reevaluate(p)
      BY <3>6, NotDeciding DEF DeleteRow, RowGone, Crash, EnqueueReports, Reevaluate
    <3> QED
      BY <1>3, <3>1, <3>2, <3>3, <3>4, <3>5, <3>6 DEF StartStep, AbortStep
  <2> QED
    BY <1>3, <2>1
<1>4. ASSUME NEW p \in Procs, ~ Idles(q),
             \/ EnterStable(p) \/ EnterStop(p) \/ StayInPhase(p) \/ SaveStable(p) \/ SaveStop(p)
             \/ PhaseCommand(p) \/ SaveEnded(p) \/ StopCommand(p) \/ Evaluate(p)
      PROVE  tid[q] = t /\ pc[q] \in Deciding
  <2>1. pc[p] \in Deciding
    BY <1>4 DEF Deciding, EnterStable, EnterStop, StayInPhase, SaveStable, SaveStop, PhaseCommand,
       SaveEnded, StopCommand, Evaluate
  <2>2. p = q
    BY <1>4, Moves DEF EnterStable, EnterStop, StayInPhase, SaveStable, SaveStop, PhaseCommand,
       SaveEnded, StopCommand, Evaluate
  <2>3. tid'[p] = tid[p] \/ pc'[p] = "idle"
    BY <1>4, Moves DEF EnterStable, EnterStop, StayInPhase, SaveStable, SaveStop, PhaseCommand,
       SaveEnded, StopCommand, Evaluate
  <2> QED
    BY <2>1, <2>2, <2>3 DEF Deciding
<1>5. ASSUME NEW p \in Procs, ~ Idles(q), SupervisePick(p) \/ ViewPick(p) \/ ReportPick(p)
      PROVE  tid[q] = t /\ pc[q] \in Deciding
  <2>1. p = q
    BY <1>5, Moves DEF SupervisePick, ViewPick, ReportPick, local, Idles
  <2> QED
    BY <1>5, <2>1, NewDecision
<1> QED
  BY <1>1, <1>2, <1>3, <1>4, <1>5 DEF Next, SuperviseStep, Procs

\* What a step can make of an aborted row on which nobody decides.
LEMMA AbortedRow ==
  ASSUME TypeOK, IInv, NEW t \in TestIds, Settled(t), [Next]_vars
  PROVE  db'[t].status \in {"ABORTED", "DELETED"}
<1>1. ASSUME NEW p \in Procs,
             \/ SaveStable(p) \/ SaveStop(p) \/ SaveEnded(p) \/ Evaluate(p) \/ Reevaluate(p)
             \/ StartCommit(p)
      PROVE  db'[t] = db[t]
  <2>1. tid[p] # t
    <3>1. CASE StartCommit(p)
      BY <3>1 DEF StartCommit, InTransaction, IInv, ProcInv, Settled
    <3>2. CASE ~ StartCommit(p)
      BY <1>1, <3>2 DEF SaveStable, SaveStop, SaveEnded, Evaluate, Reevaluate, Settled, Deciding
    <3> QED
      BY <3>1, <3>2
  <2> QED
    BY <1>1, <2>1 DEF SaveStable, SaveStop, SaveEnded, Evaluate, Reevaluate, SaveVerdict,
       StartCommit, TypeOK
<1>2. ASSUME NEW p \in Procs, AbortSave(p)
      PROVE  db'[t].status = "ABORTED"
  <2>1. db[t] \in Row /\ db[t].status = "ABORTED"
    BY DEF TypeOK, Settled
  <2>2. db'[t] = db[t] \/ db'[t] = [[db[t] EXCEPT !.status = "ABORTED"] EXCEPT !.ended = mem[p].ended]
    BY <1>2 DEF AbortSave, TypeOK
  <2> QED
    BY <2>1, <2>2 DEF Row
<1>3. ASSUME NEW p \in Procs, DeleteRow(p)
      PROVE  db'[t] = db[t] \/ db'[t].status = "DELETED"
  BY <1>3 DEF DeleteRow, TypeOK, Blank
<1>4. ASSUME NEW p \in Procs,
             \/ StartCheck(p) \/ (StartStep(p) /\ ~ StartCommit(p)) \/ ViewPick(p) \/ ReportPick(p)
             \/ DeletePick(p) \/ AbortPick(p) \/ AbortCommand(p) \/ AbortLog(p) \/ RowGone(p)
             \/ Crash(p)
      PROVE  db' = db
  BY <1>4 DEF StartCheck, StartStep, StartRecipe, StartInsert, StartDuplicate, StartCommand,
     ViewPick, ReportPick, DeletePick, AbortPick, AbortCommand, AbortLog, RowGone, Crash
<1>5. ASSUME NEW p \in Procs,
             \/ SupervisePick(p) \/ SuperviseAbort(p) \/ EnterStable(p) \/ EnterStop(p)
             \/ StayInPhase(p) \/ PhaseCommand(p) \/ StopCommand(p) \/ EnqueueReports(p)
      PROVE  db' = db
  BY <1>5 DEF SupervisePick, SuperviseAbort, EnterStable, EnterStop, StayInPhase, PhaseCommand,
     StopCommand, EnqueueReports
<1>6. ASSUME Tick \/ PollOk \/ PollLost \/ UNCHANGED vars
      PROVE  db' = db
  BY <1>6 DEF Tick, PollOk, PollLost, vars
<1>7. db[t].status = "ABORTED"
  BY DEF Settled
<1>8. db' = db \/ db'[t] = db[t] \/ db'[t].status = "ABORTED" \/ db'[t].status = "DELETED"
  BY <1>1, <1>2, <1>3, <1>4, <1>5, <1>6 DEF Next, SuperviseStep, AbortStep, Procs
<1> QED
  BY <1>7, <1>8

\* An abort is final once those who held the row at the time have returned (abort_test,
\* evaluate, reconcile_completed_result), for any number of supervisors, operators, views,
\* report tasks, deletions and crashes.
THEOREM AbortsSettle == Spec => AbortSettles
<1>1. TypeOK /\ IInv /\ [Next]_vars =>
        [\A t \in TestIds : Settled(t) => Settled(t)' \/ db'[t].status = "DELETED"]_vars
  <2> SUFFICES ASSUME TypeOK, IInv, [Next]_vars, NEW t \in TestIds, Settled(t),
                      db'[t].status # "DELETED"
               PROVE  Settled(t)'
    OBVIOUS
  <2>1. db[t].status = "ABORTED" /\ db'[t].status = "ABORTED"
    BY AbortedRow DEF Settled
  <2>2. \A q \in Procs : tid'[q] = t => pc'[q] \notin Deciding
    BY <2>1, DecisionStep DEF Settled
  <2> QED
    BY <2>1, <2>2 DEF Settled
<1> QED
  BY <1>1, Inductive, PTL DEF Spec, AbortSettles
=============================================================================
