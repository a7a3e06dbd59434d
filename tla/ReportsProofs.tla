---------------------------- MODULE ReportsProofs ----------------------------
(***************************************************************************)
(* Proofs about pages and reports, for any number of reporters and other   *)
(* evaluators, any samples, limits and languages: what a page or a file    *)
(* shows belongs together, although it is read piece by piece while the    *)
(* test is evaluated again, samples arrive and the test may be deleted.    *)
(***************************************************************************)
EXTENDS Reports, EvaluationProofs

Samples == FirstSamples \cup LateSamples
Stages == {"none", "evaluate", "refresh", "definitions", "excursions", "results", "statistics",
           "sheets", "all", "draw", "mark", "write", "stamp"}
Result == [of : SUBSET Samples, passed : {"pass", "fail", "none"}]
View == [at : Stages, kind : {"page", "file"}, path : Path, alone : BOOLEAN,
         status : {"ENDED", "PASS", "FAIL", "DELETED"}, shown : SUBSET Parameters,
         excursions : SUBSET (Samples \X Parameters), result : [Keys -> SUBSET Result],
         stats : [Keys -> SUBSET SUBSET Samples], sheet : Seq(SUBSET Samples),
         all : SUBSET Samples, drawn : SUBSET Samples, marks : SUBSET (Samples \X Parameters)]

ReportTypeOK ==
  /\ TypeOK
  /\ view \in [Reporters -> View]
  /\ month \in 0 .. MaxMonths /\ files \subseteq Path /\ stamped \subseteq Path

-----------------------------------------------------------------------------
(* What a step of the reports is to the evaluation: a step of it, or a     *)
(* reporter that is killed outside of it.                                  *)

KilledOutside == crashes' = crashes + 1 /\ UNCHANGED <<test, status, samples, rows, registry, pc, mem>>

LEMMA ReporterFacts == Reporters \subseteq Evaluators
BY ReportersAssumption

LEMMA EvaluateStep == ASSUME NEW r \in Reporters, Evaluate(r) PROVE Step(r)
BY DEF Evaluate, Step

LEMMA ReportIsStep ==
  ASSUME [ReportNext]_reportVars
  PROVE  [Next]_vars \/ KilledOutside
<1>1. ASSUME NEW r \in Reporters, Report(r) PROVE [Next]_vars \/ KilledOutside
  <2>0. r \in Evaluators
    BY ReporterFacts
  <2>1. CASE Open(r)
    BY <2>0, <2>1 DEF Open, Next, Step
  <2>2. CASE Evaluate(r)
    BY <2>0, <2>2, EvaluateStep DEF Next
  <2>3. CASE Killed(r)
    BY <2>3 DEF Killed, KilledOutside
  <2>4. CASE ~ Open(r) /\ ~ Evaluate(r) /\ ~ Killed(r)
    <3>1. UNCHANGED vars
      BY <1>1, <2>4 DEF Report, Refresh, ReadDefinitions, ReadExcursions, ReadResults, ReadStatistics,
         ReadSheet, ReadAll, ReadDrawn, ReadMarks, WriteFile, SaveStamp, reading
    <3> QED BY <3>1
  <2> QED BY <2>1, <2>2, <2>3, <2>4
<1>2. ASSUME NEW e \in Evaluators \ Reporters, Other(e) PROVE [Next]_vars
  BY <1>2 DEF Other, Next
<1>3. CASE \/ (Arrive \/ EditTag) /\ UNCHANGED <<view, table>>
           \/ DeleteWithPath \/ NewMonth \/ Gone
           \/ UNCHANGED reportVars
  BY <1>3 DEF DeleteWithPath, NewMonth, reportVars, Next
<1> QED BY <1>1, <1>2, <1>3 DEF ReportNext

\* The invariants of the evaluation hold here too.
EvaluationInv == TypeOK /\ CoveredInv /\ VerdictInv /\ OneInv /\ JudgedInv

LEMMA KilledKeeps ==
  ASSUME EvaluationInv, KilledOutside
  PROVE  EvaluationInv'
<1>1. crashes' \in Nat /\ crashes' # 0
  BY DEF EvaluationInv, TypeOK, KilledOutside
<1>2. TypeOK'
  BY <1>1 DEF EvaluationInv, TypeOK, KilledOutside, registry, AtWork
<1>3. UNCHANGED <<InForce, limits, circuit, tags, cached, edits>>
  BY ForceStays DEF KilledOutside, registry, test
<1>4. LoopInv' /\ TagsInv' /\ CoverInv'
  BY <1>1, <1>3 DEF EvaluationInv, CoveredInv, LoopInv, TagsInv, CoverInv, KilledOutside, AtWork
<1>5. RowsInv' /\ OneRowEach'
  BY DEF EvaluationInv, OneInv, RowsInv, OneRowEach, Made, Done, InLoop, AtWork, KilledOutside
<1>6. JudgedInv'
  BY <1>3, OutcomeStays DEF EvaluationInv, JudgedInv, KilledOutside
<1>7. VerdictInv'
  <2>1. \A k : Bad(k)' = Bad(k)
    BY <1>3, BadStays DEF KilledOutside
  <2>2. \A k : Counted(k, tags)' = Counted(k, tags)
    BY <1>3 DEF Counted, IsValid, KilledOutside
  <2>3. FoundInv'
    BY <1>3, <2>1, <2>2 DEF EvaluationInv, VerdictInv, FoundInv, Found, Held, Untouched, Done, AtWork,
       IsNext, KilledOutside
  <2>4. VerdictOfSamples'
    BY <1>3, <2>1 DEF EvaluationInv, VerdictInv, VerdictOfSamples, Bad, Untouched, KilledOutside
  <2> QED BY <2>3, <2>4 DEF VerdictInv
<1> QED BY <1>2, <1>4, <1>5, <1>6, <1>7 DEF EvaluationInv, CoveredInv, OneInv

LEMMA EvaluationNext == EvaluationInv /\ [ReportNext]_reportVars => EvaluationInv'
<1>1. EvaluationInv /\ [Next]_vars => EvaluationInv'
  BY NextTyped, CoveredStep, VerdictNext, OneStep, JudgedNext DEF EvaluationInv
<1> QED BY <1>1, KilledKeeps, ReportIsStep

-----------------------------------------------------------------------------
(* The parts of the inductive invariants.                                  *)

\* The file is there before its path is.
PathInv ==
  /\ \A r \in Reporters : view[r].at = "stamp" => view[r].path \in files
  /\ stamped \subseteq files

\* The sheets of the phases hold samples of the test, and of the sheet of all.
SheetInv(v) ==
  \A i \in DOMAIN v.sheet :
    v.sheet[i] \subseteq IF v.at \in {"draw", "mark", "write", "stamp"} THEN v.all ELSE samples

ListInv(v) ==
  /\ v.excursions \subseteq Excursions(tags)
  /\ \A x \in v.excursions :
       /\ v.at \in {"mark", "write", "stamp"} => x[1] \in v.drawn
       /\ v.at \in {"write", "stamp"} => (x[1].at \in Axis => x \in v.marks)

\* Rows are of limits in force and taken over samples that are still there.
BasisInv ==
  /\ \A i \in 1 .. Len(rows) :
       rows[i].key \in InForce /\ rows[i].of \subseteq Counted(rows[i].key, tags)
  /\ \A e \in Evaluators : pc[e] = "create" =>
       \A q \in Parameters : IsNext(e, q) => mem[e].of \subseteq Counted(<<mem[e].at, q>>, tags)

AfterResults == {"statistics"} \cup Complete

\* So are the results a reporter has read; and the statistics it read later are taken
\* over all of those and perhaps more.
ResultInv(v) ==
  \A k \in Keys :
    /\ v.at \notin AfterResults => v.result[k] = {} /\ v.stats[k] = {}
    /\ \A x \in v.result[k] :
         /\ k \in InForce /\ x.of \subseteq Counted(k, tags) /\ x.passed = Outcome(k, x.of)
         /\ \A T \in v.stats[k] : x.of \subseteq T
    /\ \A T \in v.stats[k] : T \subseteq Counted(k, tags)
    /\ \A T, U \in v.stats[k] : T = U

OfOne(r) == \A i \in 1 .. Len(rows) : rows[i].by = r
SomeFailed == \E i \in 1 .. Len(rows) : rows[i].passed = "fail"

\* The rows are those of r alone, as far as it has come.
RowsSoFar(r) ==
  /\ OfOne(r)
  /\ \A k \in InForce : Done(r, k) => HasRow(k)
  /\ mem[r].failed <=> SomeFailed

RowsOfAll(r) ==
  /\ OfOne(r)
  /\ \A k \in InForce : HasRow(k)
  /\ status \in {"PASS", "FAIL"}
  /\ status = "FAIL" <=> SomeFailed

HasVerdict(v) == v.status \in {"PASS", "FAIL"}

ResultsOfAll(v) ==
  /\ \A k \in InForce : v.result[k] # {}
  /\ \A k \in Keys : \A x, y \in v.result[k] : x = y
  /\ v.status = "FAIL" <=> \E k \in Keys : \E x \in v.result[k] : x.passed = "fail"

\* A reporter that is alone sees the rows of its own evaluation only.
AloneWith(r) ==
  LET v == view[r] IN
  v.alone =>
    /\ v.at \in Early => \A e \in Evaluators : e # r => pc[e] = "idle"
    /\ v.at = "evaluate" /\ pc[r] # "delete" => RowsSoFar(r)
    /\ v.at = "refresh" => RowsOfAll(r)
    /\ v.at \in Early \ {"evaluate", "refresh"} /\ HasVerdict(v) => RowsOfAll(r) /\ v.status = status
    /\ v.at \in AfterResults /\ HasVerdict(v) => ResultsOfAll(v)

ShownInv(v) == v.at \in {"excursions", "results"} \cup AfterResults => v.shown = Codes(tags)

\* A sample beyond the limit of k.
HasExcursion(v, k) == \E x \in v.excursions : x[1].phase = Phases[k[1]] /\ x[2] = k[2]

\* What has failed is listed, also when the test is deleted after the list was made.
FailedInv(v) ==
  /\ v.alone /\ v.at = "results" =>
       \A i \in 1 .. Len(rows) : rows[i].passed = "fail" => HasExcursion(v, rows[i].key)
  /\ v.alone /\ v.at \in AfterResults =>
       \A k \in Keys : \A x \in v.result[k] : x.passed = "fail" => HasExcursion(v, k)

TagsUntouched == edits = 0 => tags = [q \in Parameters |-> "judged"] /\ cached = tags
GoneInv == status = "DELETED" => rows = << >>

-----------------------------------------------------------------------------
(* Types of what a reporter has read.                                      *)

LEMMA Greatest ==
  ASSUME NEW n \in Nat, NEW A \in SUBSET (1 .. n), A # {}
  PROVE  \E i \in A : \A j \in A : i >= j
<1> DEFINE B == {n - i : i \in A}
<1>0. \A i \in A : n - i \in Nat
  OBVIOUS
<1>1. B \in SUBSET Nat /\ B # {}
  BY <1>0
<1>2. PICK m \in B : \A x \in B : m <= x
  BY <1>1, Least
<1>3. PICK i \in A : m = n - i
  BY <1>2
<1>4. ASSUME NEW j \in A PROVE i >= j
  <2>1. n - j \in B
    OBVIOUS
  <2>2. n - i <= n - j
    BY <1>2, <1>3, <2>1
  <2>3. i \in Int /\ j \in Int
    OBVIOUS
  <2> HIDE DEF B
  <2> QED BY <2>2, <2>3
<1> QED BY <1>4

\* The result of a limit is that of a row of it, if there is one.
LEMMA ResultOfRow ==
  ASSUME TypeOK, NEW k
  PROVE  \/ ~ HasRow(k) /\ ResultOf(k) = {}
         \/ \E i \in 1 .. Len(rows) :
              rows[i].key = k /\ ResultOf(k) = {[of |-> rows[i].of, passed |-> rows[i].passed]}
<1> DEFINE A == {i \in 1 .. Len(rows) : rows[i].key = k}
           j == CHOOSE i \in A : \A x \in A : i >= x
<1>1. CASE A = {}
  BY <1>1 DEF HasRow, ResultOf, None
<1>2. CASE A # {}
  <2>1. A \in SUBSET (1 .. Len(rows)) /\ Len(rows) \in Nat
    BY DEF TypeOK
  <2>2. j \in A
    <3>1. \E i \in A : \A x \in A : i >= x
      <4> HIDE DEF A
      <4> QED BY <1>2, <2>1, Greatest
    <3> HIDE DEF A
    <3> QED BY <3>1
  <2>3. ResultOf(k) = {[of |-> rows[j].of, passed |-> rows[j].passed]}
    BY <1>2 DEF ResultOf
  <2> QED BY <2>2, <2>3
<1> QED BY <1>1, <1>2

LEMMA ResultType ==
  ASSUME TypeOK, NEW k PROVE ResultOf(k) \in SUBSET Result
<1>1. \A i \in 1 .. Len(rows) : rows[i] \in Row
  BY DEF TypeOK
<1> QED BY <1>1, ResultOfRow DEF Row, Result, Samples

LEMMA NoViewType == NoView \in View
<1>1. (CHOOSE p \in Path : TRUE) \in Path
  <2>1. PICK l \in Languages : TRUE
    BY PathsAssumption
  <2>2. <<l, 0>> \in Path
    BY <2>1, PathsAssumption DEF Path
  <2> QED BY <2>2
<1>2. << >> \in Seq(SUBSET Samples)
  OBVIOUS
<1> QED BY <1>1, <1>2 DEF NoView, View, Stages, None

SameJob(w, v) == w.kind = v.kind /\ w.path = v.path /\ w.alone = v.alone
SameTables(w, v) == w.excursions = v.excursions /\ w.result = v.result /\ w.stats = v.stats
SameSheets(w, v) == w.sheet = v.sheet /\ w.all = v.all
SameCharts(w, v) == w.drawn = v.drawn /\ w.marks = v.marks
SameRest(w, v) == SameJob(w, v) /\ SameTables(w, v) /\ SameSheets(w, v) /\ SameCharts(w, v)

LEMMA ThenFields ==
  ASSUME ReportTypeOK, NEW r \in Reporters, NEW s \in Stages
  PROVE  LET w == Then(r, s) IN
         /\ w \in View /\ w.at = s /\ w.status = view[r].status /\ w.shown = view[r].shown
         /\ SameRest(w, view[r])
<1>1. view[r] \in View
  BY DEF ReportTypeOK
<1>2. Then(r, s) \in View
  BY <1>1 DEF Then, View
<1>3. Then(r, s).at = s /\ Then(r, s).status = view[r].status /\ Then(r, s).shown = view[r].shown
  BY <1>1 DEF Then, View
<1>4. SameJob(Then(r, s), view[r]) /\ SameTables(Then(r, s), view[r])
  BY <1>1 DEF Then, View, SameJob, SameTables
<1>5. SameSheets(Then(r, s), view[r]) /\ SameCharts(Then(r, s), view[r])
  BY <1>1 DEF Then, View, SameSheets, SameCharts
<1> QED BY <1>2, <1>3, <1>4, <1>5 DEF SameRest

LEMMA PutFields ==
  ASSUME ReportTypeOK, NEW r \in Reporters, NEW v \in View, Put(r, v)
  PROVE  /\ view' \in [Reporters -> View] /\ view'[r] = v
         /\ \A q \in Reporters : q # r => view'[q] = view[q]
BY DEF ReportTypeOK, Put

LEMMA CountedType == TypeOK => \A k, g : Counted(k, g) \in SUBSET Samples
BY DEF TypeOK, Counted, Samples

LEMMA ExcursionsType == TypeOK => \A g : Excursions(g) \in SUBSET (Samples \X Parameters)
BY DEF TypeOK, Excursions, Samples, Defined, Codes

-----------------------------------------------------------------------------
(* What each step of a reporter does to what it has read.                  *)

\* r reads, and has w in the end; nothing else happens.
Reads(r, w) ==
  /\ view' \in [Reporters -> View] /\ w \in View /\ view'[r] = w
  /\ \A q \in Reporters : q # r => view'[q] = view[q]
  /\ UNCHANGED reading

SameExcept(w, v) == w.status = v.status /\ w.shown = v.shown /\ SameJob(w, v)

LEMMA GiveUpReads ==
  ASSUME ReportTypeOK, NEW r \in Reporters, Put(r, NoView), UNCHANGED reading
  PROVE  Reads(r, NoView)
BY NoViewType, PutFields DEF Reads

LEMMA RefreshReads ==
  ASSUME ReportTypeOK, NEW r \in Reporters, Refresh(r)
  PROVE  LET v == view[r]
             w == view'[r]
         IN  /\ Reads(r, w) /\ v.at = "refresh"
             /\ \/ w = NoView /\ status = "DELETED"
                \/ /\ status # "DELETED" /\ w.at = "definitions" /\ w.status = status
                   /\ w.shown = v.shown /\ SameRest(w, v)
<1>0. view[r].at = "refresh" /\ UNCHANGED reading
  BY DEF Refresh, At
<1>1. CASE status = "DELETED"
  <2>1. Put(r, NoView)
    BY <1>1 DEF Refresh
  <2> QED BY <1>0, <1>1, <2>1, GiveUpReads DEF Reads
<1>2. CASE status # "DELETED"
  <2> DEFINE u == Then(r, "definitions")
             w == [u EXCEPT !.status = status]
  <2>1. u \in View /\ u.at = "definitions" /\ u.shown = view[r].shown /\ SameRest(u, view[r])
    BY ThenFields DEF Stages
  <2>2. Put(r, w)
    BY <1>2 DEF Refresh
  <2> HIDE DEF u
  <2>3. w \in View /\ w.at = u.at /\ w.status = status /\ w.shown = u.shown
    BY <2>1 DEF View, ReportTypeOK, TypeOK
  <2>4. SameRest(w, view[r])
    BY <2>1 DEF View, SameRest, SameJob, SameTables, SameSheets, SameCharts
  <2> HIDE DEF w
  <2>5. Reads(r, w) /\ view'[r] = w
    BY <1>0, <2>2, <2>3, PutFields DEF Reads
  <2> QED BY <1>0, <1>2, <2>1, <2>3, <2>4, <2>5
<1> QED BY <1>1, <1>2

LEMMA DefinitionsReads ==
  ASSUME ReportTypeOK, NEW r \in Reporters, ReadDefinitions(r)
  PROVE  LET v == view[r]
             w == view'[r]
         IN  /\ Reads(r, w) /\ v.at = "definitions" /\ w.at = "excursions" /\ w.status = v.status
             /\ \E g, h \in Known : w.shown = {q \in Codes(g) : h[q] # "off"}
             /\ SameRest(w, v)
<1> PICK g \in Known, h \in Known :
      Put(r, [Then(r, "excursions") EXCEPT !.shown = {q \in Codes(g) : h[q] # "off"}])
  BY DEF ReadDefinitions
<1> DEFINE u == Then(r, "excursions")
           x == {q \in Codes(g) : h[q] # "off"}
           w == [u EXCEPT !.shown = x]
<1>0. view[r].at = "definitions" /\ UNCHANGED reading
  BY DEF ReadDefinitions, At
<1>1. u \in View /\ u.at = "excursions" /\ u.status = view[r].status /\ SameRest(u, view[r])
  BY ThenFields DEF Stages
<1>2. x \subseteq Parameters
  BY DEF Codes
<1>3. Put(r, w)
  OBVIOUS
<1> HIDE DEF u, x
<1>4. w \in View /\ w.at = u.at /\ w.status = u.status /\ w.shown = x
  BY <1>1, <1>2 DEF View
<1>5. SameRest(w, view[r])
  BY <1>1 DEF View, SameRest, SameJob, SameTables, SameSheets, SameCharts
<1> HIDE DEF w
<1>6. Reads(r, w) /\ view'[r] = w
  BY <1>0, <1>3, <1>4, PutFields DEF Reads
<1> QED BY <1>0, <1>1, <1>4, <1>5, <1>6 DEF x

LEMMA ExcursionsReads ==
  ASSUME ReportTypeOK, NEW r \in Reporters, ReadExcursions(r)
  PROVE  LET v == view[r]
             w == view'[r]
         IN  /\ Reads(r, w) /\ v.at = "excursions" /\ w.at = "results"
             /\ \E g \in Known : w.excursions = Excursions(g)
             /\ w.result = v.result /\ w.stats = v.stats
             /\ SameExcept(w, v) /\ SameSheets(w, v) /\ SameCharts(w, v)
<1> PICK g \in Known : Put(r, [Then(r, "results") EXCEPT !.excursions = Excursions(g)])
  BY DEF ReadExcursions
<1> DEFINE u == Then(r, "results")
           x == Excursions(g)
           w == [u EXCEPT !.excursions = x]
<1>0. view[r].at = "excursions" /\ UNCHANGED reading
  BY DEF ReadExcursions, At
<1>1. u \in View /\ u.at = "results" /\ u.status = view[r].status /\ u.shown = view[r].shown
      /\ SameRest(u, view[r])
  BY ThenFields DEF Stages
<1>2. x \in SUBSET (Samples \X Parameters)
  BY ExcursionsType DEF ReportTypeOK
<1>3. Put(r, w)
  OBVIOUS
<1> HIDE DEF u, x
<1>4. w \in View /\ w.at = u.at /\ w.excursions = x
  BY <1>1, <1>2 DEF View
<1>5. w.result = view[r].result /\ w.stats = view[r].stats /\ SameExcept(w, view[r])
  BY <1>1 DEF View, SameRest, SameExcept, SameJob, SameTables
<1>6. SameSheets(w, view[r]) /\ SameCharts(w, view[r])
  BY <1>1 DEF View, SameRest, SameSheets, SameCharts
<1> HIDE DEF w
<1>7. Reads(r, w) /\ view'[r] = w
  BY <1>0, <1>3, <1>4, PutFields DEF Reads
<1> QED BY <1>0, <1>1, <1>4, <1>5, <1>6, <1>7 DEF x

LEMMA ResultsReads ==
  ASSUME ReportTypeOK, NEW r \in Reporters, ReadResults(r)
  PROVE  LET v == view[r]
             w == view'[r]
         IN  /\ Reads(r, w) /\ v.at = "results" /\ w.at \in {"statistics", "sheets"}
             /\ w.result = [k \in Keys |-> ResultOf(k)]
             /\ w.excursions = v.excursions /\ w.stats = v.stats
             /\ SameExcept(w, v) /\ SameSheets(w, v) /\ SameCharts(w, v)
<1> DEFINE s == IF view[r].shown = {} THEN "sheets" ELSE "statistics"
           u == Then(r, s)
           x == [k \in Keys |-> ResultOf(k)]
           w == [u EXCEPT !.result = x]
<1>0. view[r].at = "results" /\ UNCHANGED reading /\ Put(r, w)
  BY DEF ReadResults, At
<1>1. s \in {"statistics", "sheets"} /\ s \in Stages
  BY DEF Stages
<1> HIDE DEF s
<1>2. u \in View /\ u.at = s /\ u.status = view[r].status /\ u.shown = view[r].shown
      /\ SameRest(u, view[r])
  BY <1>1, ThenFields
<1>3. x \in [Keys -> SUBSET Result]
  BY ResultType DEF ReportTypeOK
<1> HIDE DEF u, x
<1>4. w \in View /\ w.at = u.at /\ w.result = x
  BY <1>2, <1>3 DEF View
<1>5. w.excursions = view[r].excursions /\ w.stats = view[r].stats /\ SameExcept(w, view[r])
  BY <1>2 DEF View, SameRest, SameExcept, SameJob, SameTables
<1>6. SameSheets(w, view[r]) /\ SameCharts(w, view[r])
  BY <1>2 DEF View, SameRest, SameSheets, SameCharts
<1> HIDE DEF w
<1>7. Reads(r, w) /\ view'[r] = w
  BY <1>0, <1>4, PutFields DEF Reads
<1> QED BY <1>0, <1>1, <1>2, <1>4, <1>5, <1>6, <1>7 DEF x

LEMMA StatisticsReads ==
  ASSUME ReportTypeOK, NEW r \in Reporters, ReadStatistics(r)
  PROVE  LET v == view[r]
             w == view'[r]
         IN  /\ Reads(r, w) /\ v.at = "statistics" /\ w.at \in {"statistics", "sheets"}
             /\ \E k \in Keys, g \in Known :
                  v.stats[k] = None /\ w.stats = [v.stats EXCEPT ![k] = {Counted(k, g)}]
             /\ w.excursions = v.excursions /\ w.result = v.result
             /\ SameExcept(w, v) /\ SameSheets(w, v) /\ SameCharts(w, v)
<1> PICK k \in Keys, g \in Known, s \in {"statistics", "sheets"} :
      /\ view[r].stats[k] = None
      /\ Put(r, [Then(r, s) EXCEPT !.stats[k] = {Counted(k, g)}])
  BY DEF ReadStatistics, Tables
<1> DEFINE u == Then(r, s)
           x == [u.stats EXCEPT ![k] = {Counted(k, g)}]
           w == [u EXCEPT !.stats = x]
<1>0. view[r].at = "statistics" /\ UNCHANGED reading
  BY DEF ReadStatistics, At
<1>1. s \in Stages
  BY DEF Stages
<1>2. u \in View /\ u.at = s /\ u.status = view[r].status /\ u.shown = view[r].shown
      /\ SameRest(u, view[r])
  BY <1>1, ThenFields
<1>3. {Counted(k, g)} \in SUBSET SUBSET Samples
  BY CountedType DEF ReportTypeOK
<1>4. Put(r, w)
  OBVIOUS
<1> HIDE DEF u
<1>5. x \in [Keys -> SUBSET SUBSET Samples]
  BY <1>2, <1>3 DEF View
<1>6. x = [view[r].stats EXCEPT ![k] = {Counted(k, g)}]
  BY <1>2 DEF SameRest, SameTables
<1> HIDE DEF x
<1>7. w \in View /\ w.at = u.at /\ w.stats = x
  BY <1>2, <1>5 DEF View
<1>8. w.excursions = view[r].excursions /\ w.result = view[r].result /\ SameExcept(w, view[r])
  BY <1>2 DEF View, SameRest, SameExcept, SameJob, SameTables
<1>9. SameSheets(w, view[r]) /\ SameCharts(w, view[r])
  BY <1>2 DEF View, SameRest, SameSheets, SameCharts
<1> HIDE DEF w
<1>10. Reads(r, w) /\ view'[r] = w
  BY <1>0, <1>4, <1>7, PutFields DEF Reads
<1> QED BY <1>0, <1>2, <1>6, <1>7, <1>8, <1>9, <1>10

LEMMA SheetReads ==
  ASSUME ReportTypeOK, NEW r \in Reporters, ReadSheet(r)
  PROVE  LET v == view[r]
             w == view'[r]
         IN  /\ Reads(r, w) /\ v.at = "sheets"
             /\ \/ w = NoView
                \/ /\ w.at \in {"sheets", "all"} /\ w.all = v.all
                   /\ \/ w.sheet = v.sheet
                      \/ \E S \in SUBSET samples : w.sheet = Append(v.sheet, S)
                   /\ SameExcept(w, v) /\ SameTables(w, v) /\ SameCharts(w, v)
<1>0. view[r].at = "sheets" /\ UNCHANGED reading /\ view[r] \in View
  BY DEF ReadSheet, At, ReportTypeOK
<1>1. CASE Put(r, NoView)
  BY <1>0, <1>1, GiveUpReads DEF Reads
<1>2. CASE Put(r, Then(r, "all"))
  <2> DEFINE w == Then(r, "all")
  <2>1. w \in View /\ w.at = "all" /\ w.status = view[r].status /\ w.shown = view[r].shown
        /\ SameRest(w, view[r])
    BY ThenFields DEF Stages
  <2> HIDE DEF w
  <2>2. Reads(r, w) /\ view'[r] = w
    BY <1>0, <1>2, <2>1, PutFields DEF Reads, w
  <2> QED BY <1>0, <2>1, <2>2 DEF SameRest, SameExcept, SameSheets
<1>3. CASE \E S \in SUBSET samples : Put(r, [view[r] EXCEPT !.sheet = Append(@, S)])
  <2> PICK S \in SUBSET samples : Put(r, [view[r] EXCEPT !.sheet = Append(@, S)])
    BY <1>3
  <2> DEFINE x == Append(view[r].sheet, S)
             w == [view[r] EXCEPT !.sheet = x]
  <2>1. view[r].sheet \in Seq(SUBSET Samples) /\ S \in SUBSET Samples
    BY <1>0 DEF View, ReportTypeOK, TypeOK, Samples
  <2>2. x \in Seq(SUBSET Samples)
    BY <2>1
  <2>3. Put(r, w)
    OBVIOUS
  <2> HIDE DEF x
  <2>4. w \in View /\ w.at = view[r].at /\ w.sheet = x /\ w.all = view[r].all
    BY <1>0, <2>2 DEF View
  <2>5. SameExcept(w, view[r]) /\ SameTables(w, view[r]) /\ SameCharts(w, view[r])
    BY <1>0 DEF View, SameExcept, SameJob, SameTables, SameCharts
  <2> HIDE DEF w
  <2>6. Reads(r, w) /\ view'[r] = w
    BY <1>0, <2>3, <2>4, PutFields DEF Reads
  <2> QED BY <1>0, <2>4, <2>5, <2>6 DEF x
<1>4. Put(r, NoView) \/ Put(r, Then(r, "all"))
      \/ \E S \in SUBSET samples : Put(r, [view[r] EXCEPT !.sheet = Append(@, S)])
  BY DEF ReadSheet
<1> QED BY <1>1, <1>2, <1>3, <1>4

LEMMA AllReads ==
  ASSUME ReportTypeOK, NEW r \in Reporters, ReadAll(r)
  PROVE  LET v == view[r]
             w == view'[r]
         IN  /\ Reads(r, w) /\ v.at = "all" /\ w.at = "draw" /\ w.all = samples
             /\ w.sheet = v.sheet
             /\ SameExcept(w, v) /\ SameTables(w, v) /\ SameCharts(w, v)
<1> DEFINE u == Then(r, "draw")
           w == [u EXCEPT !.all = samples]
<1>0. view[r].at = "all" /\ UNCHANGED reading /\ Put(r, w)
  BY DEF ReadAll, At
<1>1. u \in View /\ u.at = "draw" /\ u.status = view[r].status /\ u.shown = view[r].shown
      /\ SameRest(u, view[r])
  BY ThenFields DEF Stages
<1>2. samples \in SUBSET Samples
  BY DEF ReportTypeOK, TypeOK, Samples
<1> HIDE DEF u
<1>3. w \in View /\ w.at = u.at /\ w.all = samples /\ w.sheet = u.sheet
  BY <1>1, <1>2 DEF View
<1>4. SameExcept(w, view[r]) /\ SameTables(w, view[r]) /\ SameCharts(w, view[r])
  BY <1>1 DEF View, SameRest, SameExcept, SameJob, SameTables, SameCharts
<1> HIDE DEF w
<1>5. Reads(r, w) /\ view'[r] = w
  BY <1>0, <1>3, PutFields DEF Reads
<1> QED BY <1>0, <1>1, <1>3, <1>4, <1>5 DEF SameRest, SameSheets

LEMMA DrawnReads ==
  ASSUME ReportTypeOK, NEW r \in Reporters, ReadDrawn(r)
  PROVE  LET v == view[r]
             w == view'[r]
         IN  /\ Reads(r, w) /\ v.at = "draw" /\ w.at = "mark" /\ w.drawn = samples
             /\ SameExcept(w, v) /\ SameTables(w, v) /\ SameSheets(w, v)
<1> DEFINE u == Then(r, "mark")
           w == [u EXCEPT !.drawn = samples]
<1>0. view[r].at = "draw" /\ UNCHANGED reading /\ Put(r, w)
  BY DEF ReadDrawn, At
<1>1. u \in View /\ u.at = "mark" /\ u.status = view[r].status /\ u.shown = view[r].shown
      /\ SameRest(u, view[r])
  BY ThenFields DEF Stages
<1>2. samples \in SUBSET Samples
  BY DEF ReportTypeOK, TypeOK, Samples
<1> HIDE DEF u
<1>3. w \in View /\ w.at = u.at /\ w.drawn = samples
  BY <1>1, <1>2 DEF View
<1>4. SameExcept(w, view[r]) /\ SameTables(w, view[r]) /\ SameSheets(w, view[r])
  BY <1>1 DEF View, SameRest, SameExcept, SameJob, SameTables, SameSheets
<1> HIDE DEF w
<1>5. Reads(r, w) /\ view'[r] = w
  BY <1>0, <1>3, PutFields DEF Reads
<1> QED BY <1>0, <1>1, <1>3, <1>4, <1>5

LEMMA MarksReads ==
  ASSUME ReportTypeOK, NEW r \in Reporters, ReadMarks(r)
  PROVE  LET v == view[r]
             w == view'[r]
         IN  /\ Reads(r, w) /\ v.at = "mark" /\ w.at = "write"
             /\ \E f, g, h \in Known : w.marks = Marked(Excursions(f), Lines(g, h))
             /\ w.drawn = v.drawn /\ SameExcept(w, v) /\ SameTables(w, v) /\ SameSheets(w, v)
<1> PICK f \in Known, g \in Known, h \in Known :
      Put(r, [Then(r, "write") EXCEPT !.marks = Marked(Excursions(f), Lines(g, h))])
  BY DEF ReadMarks
<1> DEFINE u == Then(r, "write")
           x == Marked(Excursions(f), Lines(g, h))
           w == [u EXCEPT !.marks = x]
<1>0. view[r].at = "mark" /\ UNCHANGED reading
  BY DEF ReadMarks, At
<1>1. u \in View /\ u.at = "write" /\ u.status = view[r].status /\ u.shown = view[r].shown
      /\ SameRest(u, view[r])
  BY ThenFields DEF Stages
<1>2. x \in SUBSET (Samples \X Parameters)
  BY ExcursionsType DEF ReportTypeOK, Marked
<1>3. Put(r, w)
  OBVIOUS
<1> HIDE DEF u, x
<1>4. w \in View /\ w.at = u.at /\ w.marks = x /\ w.drawn = u.drawn
  BY <1>1, <1>2 DEF View
<1>5. SameExcept(w, view[r]) /\ SameTables(w, view[r]) /\ SameSheets(w, view[r])
  BY <1>1 DEF View, SameRest, SameExcept, SameJob, SameTables, SameSheets
<1> HIDE DEF w
<1>6. Reads(r, w) /\ view'[r] = w
  BY <1>0, <1>3, <1>4, PutFields DEF Reads
<1> QED BY <1>0, <1>1, <1>4, <1>5, <1>6 DEF x, SameRest, SameCharts

-----------------------------------------------------------------------------
(* The other steps, for any reporter.                                      *)

\* Nothing but whether it is alone has changed.
Kept(w, v) ==
  /\ w.at = v.at /\ w.status = v.status /\ w.shown = v.shown /\ w.kind = v.kind /\ w.path = v.path
  /\ SameTables(w, v) /\ SameSheets(w, v) /\ SameCharts(w, v)
  /\ w.alone => v.alone

\* Nothing has been read.
Fresh(w) ==
  /\ w.at \in {"none", "evaluate", "definitions"} /\ w.status = "ENDED"
  /\ w.excursions = {} /\ w.result = [k \in Keys |-> None] /\ w.stats = [k \in Keys |-> None]
  /\ w.sheet = << >>

LEMMA NoViewFresh == Fresh(NoView) /\ NoView.at = "none" /\ NoView.alone
BY DEF NoView, Fresh

LEMMA DisturbedFields ==
  ASSUME ReportTypeOK, NEW e
  PROVE  /\ Disturbed(e) \in [Reporters -> View]
         /\ \A q \in Reporters :
              /\ Kept(Disturbed(e)[q], view[q])
              /\ Disturbed(e)[q].alone => view[q].alone /\ (q = e \/ view[q].at \notin Early)
<1> SUFFICES ASSUME NEW q \in Reporters
             PROVE  /\ Disturbed(e)[q] \in View /\ Kept(Disturbed(e)[q], view[q])
                    /\ Disturbed(e)[q].alone => view[q].alone /\ (q = e \/ view[q].at \notin Early)
  BY DEF Disturbed
<1>1. view[q] \in View
  BY DEF ReportTypeOK
<1>2. PICK b \in BOOLEAN : b = (view[q].alone /\ (q = e \/ view[q].at \notin Early))
  OBVIOUS
<1> DEFINE w == [view[q] EXCEPT !.alone = b]
<1>3. Disturbed(e)[q] = w
  BY <1>2, Zenon DEF Disturbed
<1>4. w \in View /\ w.alone = b
  BY <1>1 DEF View
<1>5. w.at = view[q].at /\ w.status = view[q].status /\ w.shown = view[q].shown
      /\ w.kind = view[q].kind /\ w.path = view[q].path
  BY <1>1 DEF View
<1>6. SameTables(w, view[q]) /\ SameSheets(w, view[q]) /\ SameCharts(w, view[q])
  BY <1>1 DEF View, SameTables, SameSheets, SameCharts
<1> HIDE DEF w
<1> QED BY <1>2, <1>3, <1>4, <1>5, <1>6 DEF Kept

LEMMA PutDisturbedFields ==
  ASSUME ReportTypeOK, NEW r \in Reporters, NEW v \in View, PutDisturbed(r, v)
  PROVE  /\ view' \in [Reporters -> View] /\ view'[r] = v
         /\ \A q \in Reporters \ {r} :
              /\ Kept(view'[q], view[q])
              /\ view'[q].alone => view[q].alone /\ view[q].at \notin Early
<1>1. /\ Disturbed(r) \in [Reporters -> View]
      /\ \A q \in Reporters :
           /\ Kept(Disturbed(r)[q], view[q])
           /\ Disturbed(r)[q].alone => view[q].alone /\ (q = r \/ view[q].at \notin Early)
  BY DisturbedFields
<1>2. view' = [Disturbed(r) EXCEPT ![r] = v]
  BY DEF PutDisturbed
<1> QED BY <1>1, <1>2

LEMMA SameKept == ASSUME NEW v PROVE Kept(v, v)
BY DEF Kept, SameTables, SameSheets, SameCharts

\* Others are left alone, and are disturbed if they were early and r evaluates.
Apart(r, evaluates) ==
  \A q \in Reporters \ {r} :
    /\ Kept(view'[q], view[q])
    /\ evaluates /\ view'[q].alone => view[q].at \notin Early

LEMMA PutApart ==
  ASSUME ReportTypeOK, NEW r \in Reporters, NEW v \in View
  PROVE  /\ Put(r, v) => view' \in [Reporters -> View] /\ view'[r] = v /\ Apart(r, FALSE)
         /\ PutDisturbed(r, v) => view' \in [Reporters -> View] /\ view'[r] = v /\ Apart(r, TRUE)
BY PutFields, PutDisturbedFields, SameKept DEF Apart

LEMMA OpenReads ==
  ASSUME ReportTypeOK, NEW r \in Reporters, Open(r)
  PROVE  LET w == view'[r] IN
         /\ view[r].at = "none" /\ view' \in [Reporters -> View] /\ Fresh(w) /\ status # "DELETED"
         /\ \/ w.at = "evaluate" /\ Begin(r) /\ Apart(r, TRUE)
            \/ w.at = "definitions" /\ UNCHANGED vars /\ Apart(r, FALSE)
         /\ w.alone => \A e \in Evaluators : pc[e] = "idle"
         /\ UNCHANGED table
<1>0. view[r].at = "none" /\ status # "DELETED" /\ UNCHANGED table
  BY DEF Open, At
<1> DEFINE idle == \A e \in Evaluators : pc[e] = "idle"
<1>1. PICK b \in BOOLEAN : b = idle
  OBVIOUS
<1>2. PICK kind \in Kinds, l \in Languages :
        LET v == [NoView EXCEPT !.kind = kind, !.path = <<l, month>>, !.alone = b]
        IN  \/ Begin(r) /\ PutDisturbed(r, [v EXCEPT !.at = "evaluate"])
            \/ UNCHANGED vars /\ Put(r, [v EXCEPT !.at = "definitions"])
  BY <1>1, Zenon DEF Open
<1> DEFINE v == [NoView EXCEPT !.kind = kind, !.path = <<l, month>>, !.alone = b]
<1>3. kind \in {"page", "file"} /\ <<l, month>> \in Path
  BY ReportersAssumption DEF ReportTypeOK, Path
<1>4. /\ v \in View /\ v.alone = b /\ v.status = "ENDED" /\ v.excursions = {}
      /\ v.result = [k \in Keys |-> None] /\ v.stats = [k \in Keys |-> None] /\ v.sheet = << >>
  <2>1. v \in View /\ v.alone = b /\ v.status = NoView.status /\ v.excursions = NoView.excursions
        /\ v.result = NoView.result /\ v.stats = NoView.stats /\ v.sheet = NoView.sheet
    BY <1>3, NoViewType DEF View
  <2> HIDE DEF v
  <2> QED BY <2>1, NoViewFresh DEF Fresh, NoView
<1>5. \/ Begin(r) /\ PutDisturbed(r, [v EXCEPT !.at = "evaluate"])
      \/ UNCHANGED vars /\ Put(r, [v EXCEPT !.at = "definitions"])
  BY <1>2
<1> HIDE DEF v
<1>6. ASSUME NEW s \in {"evaluate", "definitions"}
      PROVE  LET w == [v EXCEPT !.at = s] IN w \in View /\ Fresh(w) /\ w.at = s /\ w.alone = b
  <2>1. s \in Stages
    BY DEF Stages
  <2> DEFINE w == [v EXCEPT !.at = s]
  <2>2. w \in View /\ w.at = s /\ w.alone = b
    BY <1>4, <2>1 DEF View
  <2>3. Fresh(w)
    BY <1>4 DEF View, Fresh
  <2> QED BY <2>2, <2>3
<1> HIDE DEF idle
<1>7. CASE Begin(r) /\ PutDisturbed(r, [v EXCEPT !.at = "evaluate"])
  <2>1. /\ view' \in [Reporters -> View] /\ Fresh(view'[r]) /\ view'[r].at = "evaluate"
        /\ view'[r].alone = b /\ Apart(r, TRUE)
    BY <1>6, <1>7, PutApart
  <2> QED BY <1>0, <1>1, <1>7, <2>1 DEF idle
<1>8. CASE UNCHANGED vars /\ Put(r, [v EXCEPT !.at = "definitions"])
  <2>1. /\ view' \in [Reporters -> View] /\ Fresh(view'[r]) /\ view'[r].at = "definitions"
        /\ view'[r].alone = b /\ Apart(r, FALSE)
    BY <1>6, <1>8, PutApart
  <2> QED BY <1>0, <1>1, <1>8, <2>1 DEF idle
<1> QED BY <1>5, <1>7, <1>8

LEMMA EvaluateReads ==
  ASSUME ReportTypeOK, NEW r \in Reporters, Evaluate(r)
  PROVE  LET v == view[r]
             w == view'[r]
         IN  /\ v.at = "evaluate" /\ view' \in [Reporters -> View] /\ Apart(r, TRUE) /\ UNCHANGED table
             /\ \/ /\ DeleteRows(r) \/ EnterPhase(r) \/ ReadValues(r) \/ CreateRow(r)
                   /\ Kept(w, v)
                \/ /\ SaveVerdict(r) /\ w.at = "refresh" /\ w.status = v.status /\ w.shown = v.shown
                   /\ SameRest(w, v)
                \/ (Refused(r) \/ Crash(r)) /\ w = NoView
<1>0. view[r].at = "evaluate" /\ UNCHANGED table
  BY DEF Evaluate, At
<1>1. CASE (DeleteRows(r) \/ EnterPhase(r) \/ ReadValues(r) \/ CreateRow(r)) /\ view' = Disturbed(r)
  BY <1>0, <1>1, DisturbedFields DEF Apart
<1>2. CASE SaveVerdict(r) /\ PutDisturbed(r, Then(r, "refresh"))
  <2>1. "refresh" \in Stages
    BY DEF Stages
  <2> DEFINE w == Then(r, "refresh")
  <2>2. w \in View /\ w.at = "refresh" /\ w.status = view[r].status /\ w.shown = view[r].shown
        /\ SameRest(w, view[r])
    BY <2>1, ThenFields
  <2> HIDE DEF w
  <2>3. view' \in [Reporters -> View] /\ view'[r] = w /\ Apart(r, TRUE)
    BY <1>2, <2>2, PutApart DEF w
  <2> QED BY <1>0, <1>2, <2>2, <2>3
<1>3. CASE (Refused(r) \/ Crash(r)) /\ PutDisturbed(r, NoView)
  BY <1>0, <1>3, PutApart, NoViewType
<1> QED BY <1>1, <1>2, <1>3 DEF Evaluate

\* Reporter r is at the step s, and nothing else has changed.
On(w, v, s) == w.at = s /\ w.status = v.status /\ w.shown = v.shown /\ SameRest(w, v)

LEMMA WriteReads ==
  ASSUME ReportTypeOK, NEW r \in Reporters, WriteFile(r)
  PROVE  /\ view[r].at = "write" /\ view' \in [Reporters -> View] /\ Apart(r, FALSE)
         /\ On(view'[r], view[r], "stamp")
         /\ files' = files \cup {view[r].path} /\ UNCHANGED <<vars, month, stamped>>
<1> DEFINE w == Then(r, "stamp")
<1>1. "stamp" \in Stages
  BY DEF Stages
<1>2. w \in View /\ On(w, view[r], "stamp")
  BY <1>1, ThenFields DEF On
<1>3. Put(r, w)
  BY DEF WriteFile
<1> HIDE DEF w
<1> QED BY <1>2, <1>3, PutApart DEF WriteFile, At

LEMMA EndReads ==
  ASSUME ReportTypeOK, NEW r \in Reporters, SaveStamp(r) \/ Killed(r)
  PROVE  /\ view' \in [Reporters -> View] /\ Apart(r, FALSE) /\ view'[r] = NoView
         /\ view[r].at \notin {"none", "evaluate"}
<1>1. Put(r, NoView)
  BY DEF SaveStamp, Killed
<1>2. view[r].at \notin {"none", "evaluate"}
  BY DEF SaveStamp, Killed, At
<1> QED BY <1>1, <1>2, PutApart, NoViewType

Reading(r) ==
  \/ Refresh(r) \/ ReadDefinitions(r) \/ ReadExcursions(r) \/ ReadResults(r) \/ ReadStatistics(r)
  \/ ReadSheet(r) \/ ReadAll(r) \/ ReadDrawn(r) \/ ReadMarks(r)

LEMMA ReadingReads ==
  ASSUME ReportTypeOK, NEW r \in Reporters, Reading(r)
  PROVE  Reads(r, view'[r]) /\ view[r].at \notin {"none", "evaluate"} /\ Apart(r, FALSE)
<1>1. Reads(r, view'[r]) /\ view[r].at \notin {"none", "evaluate"}
  BY RefreshReads, DefinitionsReads, ExcursionsReads, ResultsReads, StatisticsReads, SheetReads,
     AllReads, DrawnReads, MarksReads DEF Reading
<1> QED BY <1>1, SameKept DEF Reads, Apart

LEMMA ReportReads ==
  ASSUME ReportTypeOK, NEW r \in Reporters, Report(r)
  PROVE  /\ view' \in [Reporters -> View] /\ Apart(r, FALSE)
         /\ \/ Kept(view'[r], view[r]) \/ Fresh(view'[r]) \/ Reading(r)
            \/ SaveVerdict(r) /\ view[r].at = "evaluate" /\ On(view'[r], view[r], "refresh")
            \/ WriteFile(r)
<1>1. CASE Open(r)
  BY <1>1, OpenReads DEF Apart
<1>2. CASE Evaluate(r)
  BY <1>2, EvaluateReads, NoViewFresh DEF Apart, On
<1>3. CASE Reading(r)
  BY <1>3, ReadingReads DEF Reads
<1>4. CASE WriteFile(r)
  BY <1>4, WriteReads
<1>5. CASE SaveStamp(r) \/ Killed(r)
  BY <1>5, EndReads, NoViewFresh
<1> QED BY <1>1, <1>2, <1>3, <1>4, <1>5 DEF Report, Reading

\* What a step makes of the view of r.
LEMMA ViewStep ==
  ASSUME ReportTypeOK, [ReportNext]_reportVars, NEW r \in Reporters
  PROVE  /\ view' \in [Reporters -> View]
         /\ \/ Kept(view'[r], view[r]) \/ Fresh(view'[r]) \/ Reading(r)
            \/ SaveVerdict(r) /\ view[r].at = "evaluate" /\ On(view'[r], view[r], "refresh")
            \/ WriteFile(r)
<1>1. CASE \E q \in Reporters : Report(q)
  BY <1>1, ReportReads DEF Apart
<1>2. CASE \E e \in Evaluators \ Reporters : Other(e)
  BY <1>2, DisturbedFields DEF Other
<1>3. CASE UNCHANGED view
  BY <1>3, SameKept DEF ReportTypeOK
<1> QED BY <1>1, <1>2, <1>3 DEF ReportNext, DeleteWithPath, NewMonth, reportVars

LEMMA PathsStep ==
  ASSUME ReportTypeOK, [ReportNext]_reportVars
  PROVE  /\ month' \in 0 .. MaxMonths /\ files' \subseteq Path /\ stamped' \subseteq Path
         /\ files \subseteq files'
         /\ \/ stamped' \subseteq stamped
            \/ \E r \in Reporters : SaveStamp(r) /\ stamped' = {view[r].path} /\ UNCHANGED files
<1>1. ASSUME NEW r \in Reporters, Report(r)
      PROVE  /\ month' = month /\ files \subseteq files' /\ files' \subseteq files \cup {view[r].path}
             /\ \/ stamped' = stamped
                \/ SaveStamp(r) /\ stamped' = {view[r].path} /\ UNCHANGED files
  <2>1. CASE WriteFile(r)
    BY <2>1 DEF WriteFile
  <2>2. CASE SaveStamp(r)
    BY <2>2 DEF SaveStamp, Stamp
  <2>3. CASE ~ WriteFile(r) /\ ~ SaveStamp(r)
    BY <1>1, <2>3 DEF Report, Open, Evaluate, Refresh, ReadDefinitions, ReadExcursions, ReadResults,
       ReadStatistics, ReadSheet, ReadAll, ReadDrawn, ReadMarks, Killed, reading, table
  <2> QED BY <2>1, <2>2, <2>3
<1>2. \A r \in Reporters : view[r].path \in Path
  BY DEF ReportTypeOK, View
<1>3. CASE \E r \in Reporters : Report(r)
  BY <1>1, <1>2, <1>3 DEF ReportTypeOK
<1>4. CASE UNCHANGED table
  BY <1>4 DEF ReportTypeOK, table
<1>5. CASE DeleteWithPath
  BY <1>5 DEF DeleteWithPath, ReportTypeOK
<1>6. CASE NewMonth
  BY <1>6, PathsAssumption DEF NewMonth, ReportTypeOK
<1> QED BY <1>3, <1>4, <1>5, <1>6 DEF ReportNext, Other, reportVars, table

-----------------------------------------------------------------------------
(* Types, and the invariants of the evaluation.                            *)

LEMMA ReportTyped ==
  ASSUME ReportTypeOK, EvaluationInv, [ReportNext]_reportVars PROVE ReportTypeOK'
<1>1. view' \in [Reporters -> View]
  <2>1. CASE Reporters = {}
    <3>1. UNCHANGED view
      BY <2>1 DEF ReportNext, Other, Disturbed, DeleteWithPath, NewMonth, reportVars, ReportTypeOK
    <3> QED BY <3>1 DEF ReportTypeOK
  <2> QED BY <2>1, ViewStep
<1> QED BY <1>1, PathsStep, EvaluationNext DEF ReportTypeOK, EvaluationInv

Base == ReportTypeOK /\ EvaluationInv

LEMMA InitBase == ReportInit => Base
<1> SUFFICES ASSUME ReportInit PROVE Base
  OBVIOUS
<1>1. Init
  BY DEF ReportInit
<1>2. EvaluationInv
  BY <1>1, InitTyped, InitCovered, InitVerdict, InitOne DEF EvaluationInv, JudgedInv, Init
<1>3. ReportTypeOK
  BY <1>2, NoViewType, PathsAssumption DEF ReportInit, ReportTypeOK, EvaluationInv
<1> QED BY <1>2, <1>3 DEF Base

LEMMA NextBase == Base /\ [ReportNext]_reportVars => Base'
BY ReportTyped, EvaluationNext DEF Base

\* Whatever reporters read, write and are killed in, has its type; and an evaluation does
\* what it does without them (apps.reports.services).
THEOREM ReportsTypeCorrect == ReportSpec => []Base
BY InitBase, NextBase, PTL DEF ReportSpec

-----------------------------------------------------------------------------
(* Files and sheets.                                                       *)

\* What any step does to the test, its samples and the tags.
LEMMA World ==
  ASSUME Base, [ReportNext]_reportVars
  PROVE  /\ UNCHANGED test /\ edits \in Nat /\ edits' \in Nat
         /\ status = "DELETED" => status' = "DELETED"
         /\ status' # "DELETED" => samples \subseteq samples'
         /\ edits' = 0 => edits = 0 /\ UNCHANGED <<tags, cached>>
<1>0. edits \in Nat /\ edits' \in Nat
  BY NextBase DEF Base, ReportTypeOK, TypeOK
<1>1. CASE KilledOutside
  BY <1>0, <1>1 DEF KilledOutside, registry
<1>2. CASE \E e \in Evaluators : Step(e)
  <2> PICK e \in Evaluators : Step(e)
    BY <1>2
  <2>1. UNCHANGED <<test, samples, registry>>
    BY OthersStay DEF Base, ReportTypeOK
  <2>2. status = "DELETED" => status' = "DELETED"
    BY DEF Step, Begin, DeleteRows, EnterPhase, ReadValues, CreateRow, SaveVerdict, Refused, Crash
  <2> QED BY <1>0, <2>1, <2>2 DEF registry
<1>3. CASE Around
  BY <1>0, <1>3 DEF Around, Arrive, EditTag, DeleteTest, vars, registry
<1> QED BY <1>1, <1>2, <1>3, ReportIsStep, NextCases

\* A reporter is killed or gives up, or goes on to the next step.
LEMMA ReadingAt ==
  ASSUME ReportTypeOK, NEW r \in Reporters, Reading(r)
  PROVE  \/ view'[r] = NoView
         \/ /\ view[r].at \notin {"none", "evaluate", "write", "stamp"}
            /\ view'[r].at \notin {"none", "evaluate", "refresh", "stamp"}
            /\ view'[r].path = view[r].path /\ view'[r].kind = view[r].kind
            /\ view'[r].alone = view[r].alone
<1>1. CASE Refresh(r) \/ ReadDefinitions(r)
  BY <1>1, RefreshReads, DefinitionsReads DEF SameRest, SameJob
<1>2. CASE ReadExcursions(r) \/ ReadResults(r) \/ ReadStatistics(r)
  BY <1>2, ExcursionsReads, ResultsReads, StatisticsReads DEF SameExcept, SameJob
<1>3. CASE ReadSheet(r)
  BY <1>3, SheetReads DEF SameExcept, SameJob
<1>4. CASE ReadAll(r) \/ ReadDrawn(r) \/ ReadMarks(r)
  BY <1>4, AllReads, DrawnReads, MarksReads DEF SameExcept, SameJob
<1> QED BY <1>1, <1>2, <1>3, <1>4 DEF Reading

LEMMA PathStep ==
  ASSUME ReportTypeOK, PathInv, [ReportNext]_reportVars
  PROVE  PathInv'
<1>1. ASSUME NEW r \in Reporters, view'[r].at = "stamp" PROVE view'[r].path \in files'
  <2>1. CASE Kept(view'[r], view[r])
    BY <1>1, <2>1, PathsStep DEF Kept, PathInv
  <2>2. CASE Reading(r)
    BY <1>1, <2>2, ReadingAt, NoViewFresh DEF Fresh
  <2>3. CASE WriteFile(r)
    BY <2>3, WriteReads DEF On, SameRest, SameJob
  <2> QED BY <1>1, <2>1, <2>2, <2>3, ViewStep DEF Fresh, On
<1>2. stamped' \subseteq files'
  BY PathsStep DEF PathInv, SaveStamp, At
<1> QED BY <1>1, <1>2 DEF PathInv

LEMMA InitViews == ReportInit => \A r \in Reporters : view[r] = NoView
BY DEF ReportInit

\* The path that a test has of its report is that of a file, whoever is killed while making
\* one (generate_test_excel, generate_test_pdf).
THEOREM PathsHaveFiles == ReportSpec => []PathHasFile
<1>1. ReportInit => PathInv
  BY InitViews, NoViewFresh DEF ReportInit, PathInv
<1>2. PathInv => PathHasFile
  BY DEF PathInv, PathHasFile
<1>3. Base /\ PathInv /\ [ReportNext]_reportVars => PathInv'
  BY PathStep DEF Base
<1> QED BY <1>1, <1>2, <1>3, ReportsTypeCorrect, PTL DEF ReportSpec

LEMMA SheetStep ==
  ASSUME Base, NEW r \in Reporters, SheetInv(view[r]), [ReportNext]_reportVars,
         status' # "DELETED"
  PROVE  SheetInv(view[r])'
<1> DEFINE v == view[r]
           w == view'[r]
<1>0. samples \subseteq samples' /\ ReportTypeOK /\ v \in View
  BY World DEF Base, ReportTypeOK
<1>1. CASE Kept(w, v)
  BY <1>0, <1>1 DEF Kept, SameSheets, SheetInv
<1>2. CASE Fresh(w)
  BY <1>2 DEF Fresh, SheetInv
<1>3. CASE \/ On(w, v, "refresh") /\ v.at = "evaluate"
           \/ On(w, v, "stamp") /\ v.at = "write"
  BY <1>0, <1>3 DEF On, SameRest, SameSheets, SheetInv
<1>4. CASE Reading(r)
  <2>1. CASE Refresh(r) \/ ReadDefinitions(r)
    BY <1>0, <1>2, <2>1, RefreshReads, DefinitionsReads, NoViewFresh DEF SameRest, SameSheets, SheetInv
  <2>2. CASE ReadExcursions(r) \/ ReadResults(r) \/ ReadStatistics(r)
    BY <1>0, <2>2, ExcursionsReads, ResultsReads, StatisticsReads DEF SameSheets, SheetInv
  <2>3. CASE ReadSheet(r)
    <3>1. CASE w = NoView
      BY <1>2, <3>1, NoViewFresh
    <3>2. CASE w.sheet = v.sheet /\ w.at \in {"sheets", "all"} /\ v.at = "sheets"
      BY <1>0, <3>2 DEF SheetInv
    <3>3. CASE w.at \in {"sheets", "all"} /\ v.at = "sheets"
               /\ \E S \in SUBSET samples : w.sheet = Append(v.sheet, S)
      <4> PICK S \in SUBSET samples : w.sheet = Append(v.sheet, S)
        BY <3>3
      <4>1. v.sheet \in Seq(SUBSET Samples) /\ S \subseteq Samples
        BY <1>0 DEF View, ReportTypeOK, TypeOK, Samples
      <4>2. \A i \in DOMAIN w.sheet : (i \in DOMAIN v.sheet /\ w.sheet[i] = v.sheet[i]) \/ w.sheet[i] = S
        BY <4>1
      <4> QED BY <1>0, <3>3, <4>2 DEF SheetInv
    <3> QED BY <1>0, <2>3, <3>1, <3>2, <3>3, SheetReads
  <2>4. CASE ReadAll(r)
    BY <1>0, <2>4, AllReads DEF SheetInv
  <2>5. CASE ReadDrawn(r) \/ ReadMarks(r)
    BY <1>0, <2>5, DrawnReads, MarksReads DEF SameSheets, SheetInv
  <2> QED BY <1>4, <2>1, <2>2, <2>3, <2>4, <2>5 DEF Reading
<1> QED BY <1>0, <1>1, <1>2, <1>3, <1>4, ViewStep, WriteReads

SheetsInv == status # "DELETED" => \A r \in Reporters : SheetInv(view[r])

\* Whatever arrives while a report is made, the sheet of all samples has those in the
\* sheets of the phases (_build_excel_workbook).
THEOREM SheetsFit == ReportSpec => []SheetsAgree
<1>1. ReportInit => SheetsInv
  BY InitViews, NoViewFresh DEF SheetsInv, Fresh, SheetInv
<1>2. SheetsInv => SheetsAgree
  BY DEF SheetsInv, SheetInv, SheetsAgree, Finished
<1>3. Base /\ SheetsInv /\ [ReportNext]_reportVars => SheetsInv'
  BY SheetStep, World DEF SheetsInv
<1> QED BY <1>1, <1>2, <1>3, ReportsTypeCorrect, PTL DEF ReportSpec

-----------------------------------------------------------------------------
(* The list of excursions and the charts.                                  *)

\* Without edits, every look at the tags sees the same.
LEMMA OneLook ==
  ASSUME Base, edits = 0 PROVE \A g \in Known : g = tags
BY DEF Base, EvaluationInv, CoveredInv, TagsInv, Known

\* Samples only come, and what counts or exceeds a limit goes on to do so.
LEMMA Grows ==
  ASSUME Base, [ReportNext]_reportVars, edits' = 0, status' # "DELETED"
  PROVE  /\ status # "DELETED" /\ edits = 0
         /\ samples \subseteq samples' /\ UNCHANGED <<test, tags, cached, InForce>>
         /\ Excursions(tags) \subseteq Excursions(tags)'
         /\ \A k : Counted(k, tags) \subseteq Counted(k, tags)'
<1>1. status # "DELETED" /\ edits = 0 /\ samples \subseteq samples' /\ UNCHANGED <<test, tags, cached>>
  BY World
<1>2. UNCHANGED InForce
  BY <1>1, ForceStays
<1>3. UNCHANGED <<limits, circuit>>
  BY <1>1 DEF test
<1>4. Excursions(tags) \subseteq Excursions(tags)'
  BY <1>1, <1>3 DEF Excursions, IsValid, Defined, Codes, ScopesOf
<1>5. \A k : Counted(k, tags) \subseteq Counted(k, tags)'
  BY <1>1 DEF Counted, IsValid
<1> QED BY <1>1, <1>2, <1>4, <1>5

LEMMA ListedSample ==
  ASSUME NEW x \in Excursions(tags)
  PROVE  x[1] \in samples /\ x[2] \in Codes(tags) /\ x[2] \in Lines(tags, tags)
BY DEF Excursions, Lines, Charted, Codes

LEMMA ListStep ==
  ASSUME Base, NEW r \in Reporters, ListInv(view[r]), [ReportNext]_reportVars,
         edits' = 0, status' # "DELETED"
  PROVE  ListInv(view[r])'
<1> DEFINE v == view[r]
           w == view'[r]
<1>0. Excursions(tags) \subseteq Excursions(tags)' /\ ReportTypeOK
  BY Grows DEF Base
<1>1. CASE Kept(w, v)
  BY <1>0, <1>1 DEF Kept, SameTables, SameCharts, ListInv
<1>2. CASE Fresh(w)
  BY <1>2 DEF Fresh, ListInv
<1>3. CASE \/ On(w, v, "refresh") /\ v.at = "evaluate"
           \/ On(w, v, "stamp") /\ v.at = "write"
  BY <1>0, <1>3 DEF On, SameRest, SameTables, SameCharts, ListInv
<1>4. CASE Reading(r)
  <2>0. UNCHANGED Excursions(tags) /\ \A g \in Known : g = tags
    <3>1. UNCHANGED <<samples, tags, circuit, limits>>
      BY <1>0, <1>4, ReadingReads DEF Reads, reading, vars, test, registry
    <3>2. UNCHANGED Excursions(tags)
      BY <3>1 DEF Excursions, IsValid, Defined, Codes, ScopesOf
    <3> QED BY <3>2, OneLook, Grows
  <2>1. CASE Refresh(r) \/ ReadDefinitions(r)
    BY <1>0, <1>2, <2>1, RefreshReads, DefinitionsReads, NoViewFresh
    DEF SameRest, SameTables, SameCharts, ListInv
  <2>2. CASE ReadExcursions(r)
    <3>1. w.excursions = Excursions(tags) /\ w.at = "results"
      BY <1>0, <2>0, <2>2, ExcursionsReads
    <3> QED BY <2>0, <3>1 DEF ListInv
  <2>3. CASE ReadResults(r) \/ ReadStatistics(r)
    BY <1>0, <2>3, ResultsReads, StatisticsReads DEF SameCharts, ListInv
  <2>4. CASE ReadSheet(r)
    BY <1>0, <1>2, <2>4, SheetReads, NoViewFresh DEF SameTables, SameCharts, ListInv
  <2>5. CASE ReadAll(r)
    BY <1>0, <2>5, AllReads DEF SameTables, SameCharts, ListInv
  <2>6. CASE ReadDrawn(r)
    <3>1. w.excursions = v.excursions /\ w.at = "mark" /\ w.drawn = samples
      BY <1>0, <2>6, DrawnReads DEF SameTables
    <3> QED BY <1>0, <3>1, ListedSample DEF ListInv
  <2>7. CASE ReadMarks(r)
    <3>1. /\ w.excursions = v.excursions /\ w.at = "write" /\ w.drawn = v.drawn /\ v.at = "mark"
          /\ w.marks = Marked(Excursions(tags), Lines(tags, tags))
      BY <1>0, <2>0, <2>7, MarksReads DEF SameTables
    <3>2. \A x \in v.excursions : x[1].at \in Axis => x \in w.marks
      BY <3>1, ListedSample DEF ListInv, Marked
    <3> QED BY <1>0, <3>1, <3>2 DEF ListInv
  <2> QED BY <1>4, <2>1, <2>2, <2>3, <2>4, <2>5, <2>6, <2>7 DEF Reading
<1> QED BY <1>0, <1>1, <1>2, <1>3, <1>4, ViewStep, WriteReads

ListsInv == edits = 0 /\ status # "DELETED" => \A r \in Reporters : ListInv(view[r])

\* A sample that is listed as beyond its limit is drawn and marked in the charts of the
\* same report, if it is from within the axis of the chart of the whole test, whatever
\* arrives and is evaluated meanwhile (build_phase_series, _alert_points).
THEOREM ListedAreMarked == ReportSpec => []ListedIsMarked
<1>1. ReportInit => ListsInv
  BY InitViews, NoViewFresh DEF ListsInv, Fresh, ListInv
<1>2. ListsInv => ListedIsMarked
  BY DEF ListsInv, ListInv, ListedIsMarked, Finished
<1>3. Base /\ ListsInv /\ [ReportNext]_reportVars => ListsInv'
  BY ListStep, Grows DEF ListsInv
<1> QED BY <1>1, <1>2, <1>3, ReportsTypeCorrect, PTL DEF ReportSpec

-----------------------------------------------------------------------------
(* Averages.                                                               *)

LEMMA BasisRead ==
  ASSUME Base, BasisInv, edits = 0, NEW e \in Evaluators, Step(e), NEW f \in Evaluators,
         pc'[f] = "create", NEW q \in Parameters, IsNext(f, q)'
  PROVE  mem'[f].of \subseteq Counted(<<mem'[f].at, q>>, tags)
<1>0. TypeOK
  BY DEF Base, ReportTypeOK
<1>1. CASE f # e
  <2>1. mem'[f] = mem[f] /\ pc'[f] = pc[f]
    BY <1>0, <1>1, OthersStay
  <2> QED BY <2>1 DEF BasisInv, IsNext
<1>2. CASE f = e
  <2>1. ReadValues(e)
    <3>1. CASE EnterPhase(e)
      BY <1>0, <1>2, <3>1, EnterTurn DEF EnterPhase, Enter, Go, TypeOK
    <3>2. CASE CreateRow(e)
      BY <1>0, <1>2, <3>2, NextTurn DEF CreateRow, Judges
    <3>3. CASE Begin(e) \/ DeleteRows(e) \/ SaveVerdict(e) \/ Refused(e) \/ Crash(e)
      BY <1>0, <1>2, <3>3 DEF Begin, DeleteRows, SaveVerdict, Refused, Crash, Return, Go, TypeOK
    <3> QED BY <3>1, <3>2, <3>3 DEF Step
  <2> PICK p \in Parameters, g \in Known :
        IsNext(e, p) /\ mem' = [mem EXCEPT ![e].of = Counted(<<mem[e].at, p>>, g)]
    BY <2>1 DEF ReadValues
  <2>2. g = tags
    BY OneLook
  <2>3. /\ mem'[e].of = Counted(<<mem[e].at, p>>, tags)
        /\ mem'[e].at = mem[e].at /\ mem'[e].todo = mem[e].todo
    BY <1>0, <2>2 DEF TypeOK, Local
  <2>4. q = p
    BY <1>2, <2>3, OneIsNext DEF IsNext
  <2> QED BY <1>2, <2>3, <2>4
<1> QED BY <1>1, <1>2

LEMMA BasisRows ==
  ASSUME Base, BasisInv, edits = 0, NEW e \in Evaluators, Step(e), NEW i \in 1 .. Len(rows')
  PROVE  rows'[i].key \in InForce /\ rows'[i].of \subseteq Counted(rows'[i].key, tags)
<1>0. TypeOK /\ rows \in Seq(Row) /\ TagsInv
  BY DEF Base, ReportTypeOK, TypeOK, EvaluationInv, CoveredInv
<1>1. CASE UNCHANGED rows \/ rows' = << >>
  BY <1>1 DEF BasisInv
<1>2. ASSUME NEW q \in Parameters, pc[e] = "create", q \in mem[e].todo, IsNext(e, q),
             rows' = Append(rows, NewRow(e, q))
      PROVE  rows'[i].key \in InForce /\ rows'[i].of \subseteq Counted(rows'[i].key, tags)
  <2>1. <<mem[e].at, q>> \in InForce
    BY <1>0, <1>2 DEF TagsInv, AtWork
  <2>2. mem[e].of \subseteq Counted(<<mem[e].at, q>>, tags)
    BY <1>2 DEF BasisInv
  <2>3. NewRow(e, q).key \in InForce /\ NewRow(e, q).of \subseteq Counted(NewRow(e, q).key, tags)
    BY <2>1, <2>2 DEF NewRow
  <2>4. (i \in 1 .. Len(rows) /\ rows'[i] = rows[i]) \/ rows'[i] = NewRow(e, q)
    BY <1>0, <1>2
  <2> QED BY <2>3, <2>4 DEF BasisInv
<1> QED BY <1>0, <1>1, <1>2, RowsAfter

LEMMA BasisStep ==
  ASSUME Base, BasisInv, [ReportNext]_reportVars, edits' = 0, status' # "DELETED"
  PROVE  BasisInv'
<1>1. /\ status # "DELETED" /\ edits = 0 /\ UNCHANGED <<test, tags, cached, InForce>>
      /\ \A k : Counted(k, tags) \subseteq Counted(k, tags)'
  BY Grows
<1>2. CASE UNCHANGED <<rows, pc, mem>>
  BY <1>1, <1>2 DEF BasisInv, IsNext
<1>3. CASE \E e \in Evaluators : Step(e)
  <2> PICK e \in Evaluators : Step(e)
    BY <1>3
  <2>1. \A i \in 1 .. Len(rows') :
          rows'[i].key \in InForce /\ rows'[i].of \subseteq Counted(rows'[i].key, tags)
    BY <1>1, BasisRows
  <2>2. \A f \in Evaluators : pc'[f] = "create" =>
          \A q \in Parameters : IsNext(f, q)' => mem'[f].of \subseteq Counted(<<mem'[f].at, q>>, tags)
    BY <1>1, BasisRead
  <2> QED BY <1>1, <2>1, <2>2 DEF BasisInv
<1>4. CASE Around
  BY <1>1, <1>2, <1>4 DEF Around, Arrive, EditTag, DeleteTest, vars
<1> QED BY <1>1, <1>2, <1>3, <1>4, ReportIsStep, NextCases DEF KilledOutside

\* The results read are those of the rows.
LEMMA ResultBasis ==
  ASSUME Base, BasisInv, NEW k, NEW x \in ResultOf(k)
  PROVE  k \in InForce /\ x.of \subseteq Counted(k, tags) /\ x.passed = Outcome(k, x.of)
<1>1. PICK i \in 1 .. Len(rows) :
        rows[i].key = k /\ ResultOf(k) = {[of |-> rows[i].of, passed |-> rows[i].passed]}
  BY ResultOfRow DEF Base, ReportTypeOK
<1>2. x = [of |-> rows[i].of, passed |-> rows[i].passed]
  BY <1>1
<1>3. x.of = rows[i].of /\ x.passed = rows[i].passed
  BY <1>2
<1> QED BY <1>1, <1>3 DEF BasisInv, Base, EvaluationInv, JudgedInv

LEMMA ResultStep ==
  ASSUME Base, BasisInv, NEW r \in Reporters, ResultInv(view[r]), [ReportNext]_reportVars,
         edits' = 0, status' # "DELETED"
  PROVE  ResultInv(view[r])'
<1> DEFINE v == view[r]
           w == view'[r]
<1>0. /\ edits = 0 /\ UNCHANGED <<limits, InForce>> /\ ReportTypeOK /\ v \in View
      /\ \A k : Counted(k, tags) \subseteq Counted(k, tags)'
  BY Grows DEF Base, ReportTypeOK, test
<1>a. \A k, S : Outcome(k, S)' = Outcome(k, S)
  BY <1>0, OutcomeStays
<1>1. ASSUME SameTables(w, v), w.at \in AfterResults <=> v.at \in AfterResults
      PROVE  ResultInv(view[r])'
  BY <1>0, <1>1, <1>a DEF SameTables, ResultInv
<1>2. CASE Fresh(w)
  BY <1>2 DEF Fresh, ResultInv, None, AfterResults, Complete
<1>3. CASE Kept(w, v) \/ (On(w, v, "refresh") /\ v.at = "evaluate") \/ (On(w, v, "stamp") /\ v.at = "write")
  BY <1>1, <1>3 DEF Kept, On, SameRest, AfterResults, Complete
<1>4. CASE Reading(r)
  <2>1. CASE Refresh(r) \/ ReadDefinitions(r)
    BY <1>0, <1>1, <1>2, <2>1, RefreshReads, DefinitionsReads, NoViewFresh
    DEF SameRest, AfterResults, Complete
  <2>2. CASE ReadExcursions(r)
    <3>1. w.result = v.result /\ w.stats = v.stats /\ v.at \notin AfterResults
      BY <1>0, <2>2, ExcursionsReads DEF AfterResults, Complete
    <3> QED BY <1>0, <1>a, <3>1 DEF ResultInv
  <2>3. CASE ReadResults(r)
    <3>1. /\ w.result = [k \in Keys |-> ResultOf(k)] /\ w.stats = v.stats
          /\ v.at \notin AfterResults /\ w.at \in AfterResults
      BY <1>0, <2>3, ResultsReads DEF AfterResults, Complete
    <3>2. \A k \in Keys : w.stats[k] = {} /\ w.result[k] = ResultOf(k)
      BY <3>1 DEF ResultInv
    <3>3. \A k \in Keys : \A x \in w.result[k] :
            k \in InForce /\ x.of \subseteq Counted(k, tags) /\ x.passed = Outcome(k, x.of)
      BY <3>2, ResultBasis
    <3> QED BY <1>0, <1>a, <3>1, <3>2, <3>3 DEF ResultInv
  <2>4. CASE ReadStatistics(r)
    <3>1. /\ w.result = v.result /\ v.at = "statistics" /\ w.at \in {"statistics", "sheets"}
          /\ \E k \in Keys, g \in Known :
               v.stats[k] = None /\ w.stats = [v.stats EXCEPT ![k] = {Counted(k, g)}]
      BY <1>0, <2>4, StatisticsReads
    <3> PICK p \in Keys : w.stats = [v.stats EXCEPT ![p] = {Counted(p, tags)}]
      BY <1>0, <3>1, OneLook
    <3>2. w.at \in AfterResults /\ v.at \in AfterResults
      BY <3>1 DEF AfterResults, Complete
    <3>3. \A k \in Keys : w.stats[k] = IF k = p THEN {Counted(p, tags)} ELSE v.stats[k]
      BY <1>0 DEF View
    <3> QED BY <1>0, <1>a, <3>1, <3>2, <3>3 DEF ResultInv
  <2>5. CASE ReadSheet(r)
    BY <1>0, <1>1, <1>2, <2>5, SheetReads, NoViewFresh DEF AfterResults, Complete
  <2>6. CASE ReadAll(r) \/ ReadDrawn(r) \/ ReadMarks(r)
    BY <1>0, <1>1, <2>6, AllReads, DrawnReads, MarksReads DEF AfterResults, Complete
  <2> QED BY <1>4, <2>1, <2>2, <2>3, <2>4, <2>5, <2>6 DEF Reading
<1> QED BY <1>0, <1>2, <1>3, <1>4, ViewStep, WriteReads

\* A finite set has an element at which f is least, and one at which it is greatest.
LEMMA LeastOf ==
  ASSUME NEW S, IsFiniteSet(S), S # {}, NEW f \in [S -> Int]
  PROVE  \E s \in S : \A t \in S : f[s] <= f[t]
<1> DEFINE Without(T) == T # {} /\ ~ \E s \in T : \A t \in T : f[s] <= f[t]
           A == {n \in Nat : \E T \in UpTo(S, n) : Without(T)}
<1> SUFFICES ASSUME Without(S) PROVE FALSE
  OBVIOUS
<1>1. A \in SUBSET Nat
  OBVIOUS
<1>2. Cardinality(S) \in A
  BY FS_CardinalityType DEF UpTo
<1>3. PICK n \in A : \A m \in A : n <= m
  <2> HIDE DEF A
  <2> QED BY <1>1, <1>2, Least
<1>4. PICK T \in UpTo(S, n) : Without(T)
  BY <1>3
<1> DEFINE c == Chosen(T)
           U == T \ {c}
<1>5. n \in Nat /\ n > 0 /\ c \in T /\ U \in UpTo(S, n - 1) /\ n - 1 \in Nat
  <2>1. n \in Nat /\ T # {}
    BY <1>1, <1>3, <1>4
  <2> HIDE DEF A, Without
  <2>2. n > 0 /\ c \in T /\ U \in UpTo(S, n - 1)
    BY <2>1, SmallerSet
  <2> QED BY <2>1, <2>2
<1>6. ~ Without(U)
  <2>1. n - 1 \notin A
    <3> HIDE DEF A
    <3> QED BY <1>1, <1>3, <1>5
  <2> HIDE DEF Without, U
  <2> QED BY <1>5, <2>1
<1>7. T \subseteq S /\ \A t \in T : f[t] \in Int
  BY <1>4 DEF UpTo
<1> HIDE DEF c
<1>8. CASE U = {}
  <2>1. \A t \in T : t = c
    BY <1>8
  <2> QED BY <1>4, <1>5, <1>7, <2>1
<1>9. CASE U # {}
  <2>1. PICK s \in U : \A t \in U : f[s] <= f[t]
    BY <1>6, <1>9
  <2>2. \A t \in T : t = c \/ t \in U
    OBVIOUS
  <2>3. CASE f[s] <= f[c]
    <3>1. \A t \in T : f[s] <= f[t]
      BY <2>1, <2>2, <2>3
    <3> QED BY <1>4, <3>1
  <2>4. CASE ~ (f[s] <= f[c])
    <3>1. \A t \in T : f[c] <= f[t]
      BY <1>5, <1>7, <2>1, <2>2, <2>4
    <3> QED BY <1>4, <1>5, <3>1
  <2> QED BY <2>3, <2>4
<1> QED BY <1>8, <1>9

LEMMA GreatestOf ==
  ASSUME NEW S, IsFiniteSet(S), S # {}, NEW f \in [S -> Int]
  PROVE  \E s \in S : \A t \in S : f[s] >= f[t]
<1> DEFINE g == [s \in S |-> - f[s]]
<1>1. g \in [S -> Int] /\ \A s \in S : g[s] = - f[s]
  OBVIOUS
<1> HIDE DEF g
<1>2. PICK s \in S : \A t \in S : g[s] <= g[t]
  BY <1>1, LeastOf
<1> QED BY <1>1, <1>2

\* The minimum and the maximum of the values of q in T.
LEMMA Extremes ==
  ASSUME NEW q \in Parameters, NEW T \in SUBSET Samples, T # {}
  PROVE  /\ \E s \in T : \A t \in T : s.value[q] <= t.value[q]
         /\ \E s \in T : \A t \in T : s.value[q] >= t.value[q]
<1> DEFINE f == [s \in T |-> s.value[q]]
<1>1. IsFiniteSet(T)
  BY TotalTypes DEF Samples
<1>2. f \in [T -> Int] /\ \A s \in T : f[s] = s.value[q] /\ s.value[q] \in Int
  BY SamplesAssumption DEF Samples
<1> HIDE DEF f
<1>3. \E s \in T : \A t \in T : s.value[q] <= t.value[q]
  <2>1. PICK s \in T : \A t \in T : f[s] <= f[t]
    BY <1>1, <1>2, LeastOf
  <2> QED BY <1>2, <2>1
<1>4. \E s \in T : \A t \in T : s.value[q] >= t.value[q]
  <2>1. PICK s \in T : \A t \in T : f[s] >= f[t]
    BY <1>1, <1>2, GreatestOf
  <2> QED BY <1>2, <2>1
<1> QED BY <1>3, <1>4

\* The exact average lies between the least and the greatest value, and rounding does not
\* bring it beyond either.
LEMMA InRange ==
  ASSUME ReportTypeOK, NEW r \in Reporters, ResultInv(view[r]), NEW k \in Keys,
         NEW S \in Average(view[r], k), NEW T \in view[r].stats[k], S # {},
         NEW a \in Shown(k[2], S)
  PROVE  (\E s \in T : s.value[k[2]] <= a) /\ (\E s \in T : s.value[k[2]] >= a)
<1> DEFINE n == Cardinality(S)
           t == Total(k[2], S)
<1>1. k[2] \in Parameters /\ T \in SUBSET Samples
  BY DEF ReportTypeOK, View, Keys
<1>2. S \subseteq T /\ T # {}
  BY DEF Average, ResultInv
<1>3. PICK low \in T, high \in T :
        \A s \in T : low.value[k[2]] <= s.value[k[2]] /\ s.value[k[2]] <= high.value[k[2]]
  <2>1. PICK low \in T : \A s \in T : low.value[k[2]] <= s.value[k[2]]
    BY <1>1, <1>2, Extremes
  <2>2. PICK high \in T : \A s \in T : high.value[k[2]] >= s.value[k[2]]
    BY <1>1, <1>2, Extremes
  <2>3. \A s \in T : s.value[k[2]] \in Int
    BY <1>1, SamplesAssumption DEF Samples
  <2> QED BY <2>1, <2>2, <2>3
<1>4. IsFiniteSet(S) /\ (\A s \in S : s.value[k[2]] \in Int) /\ n \in Nat /\ n > 0 /\ t \in Int
  BY <1>1, <1>2, TotalTypes, SamplesAssumption DEF Samples
<1>5. low.value[k[2]] \in Int /\ high.value[k[2]] \in Int
  BY <1>1, <1>3, SamplesAssumption DEF Samples
<1>6. low.value[k[2]] * n <= t /\ t <= high.value[k[2]] * n
  BY <1>2, <1>3, <1>4, <1>5, SumBounds
<1>7. a \in Int /\ 2 * (a * n - t) \in -n .. n
  <2>1. t \div n \in Int
    BY <1>4
  <2> QED BY <2>1 DEF Shown
<1> HIDE DEF n, t
<1>8. low.value[k[2]] <= a /\ a <= high.value[k[2]]
  <2>1. low.value[k[2]] * n \in Int /\ high.value[k[2]] * n \in Int
    BY <1>4, <1>5
  <2>2. t >= low.value[k[2]] * n => a >= low.value[k[2]]
    BY <1>4, <1>5, <1>7, Rounded
  <2>3. t <= high.value[k[2]] * n => a <= high.value[k[2]]
    BY <1>4, <1>5, <1>7, Rounded
  <2> QED BY <1>4, <1>5, <1>6, <1>7, <2>1, <2>2, <2>3
<1> QED BY <1>3, <1>5, <1>7, <1>8

AveragesInv ==
  edits = 0 /\ status # "DELETED" => BasisInv /\ \A r \in Reporters : ResultInv(view[r])

LEMMA InitAverages == ReportInit => AveragesInv
<1> SUFFICES ASSUME ReportInit PROVE AveragesInv
  OBVIOUS
<1>1. \A r \in Reporters : ResultInv(view[r])
  BY InitViews, NoViewFresh DEF Fresh, ResultInv, None, AfterResults, Complete
<1>2. rows = << >> /\ \A e \in Evaluators : pc[e] = "idle"
  BY DEF ReportInit, Init
<1> QED BY <1>1, <1>2 DEF AveragesInv, BasisInv

LEMMA NextAverages == Base /\ AveragesInv /\ [ReportNext]_reportVars => AveragesInv'
BY BasisStep, ResultStep, Grows DEF AveragesInv

\* The average in a table, rounded as it is, lies between the minimum and the maximum next
\* to it, which are read later, whatever other evaluations do meanwhile (_phase_table_rows).
THEOREM AveragesInRange == ReportSpec => []AverageInRange
<1>1. Base /\ AveragesInv => AverageInRange
  BY InRange DEF AveragesInv, AverageInRange, Base, Tables
<1> QED BY <1>1, InitAverages, NextAverages, ReportsTypeCorrect, PTL DEF ReportSpec

-----------------------------------------------------------------------------
(* Failures and excursions.                                                *)

\* As long as a reporter that has not read the results is alone, no other evaluation goes on.
LEMMA Undisturbed ==
  ASSUME Base, [ReportNext]_reportVars, NEW r \in Reporters, view'[r].alone, view[r].at \in Early
  PROVE  (view[r].at = "evaluate" /\ Evaluate(r)) \/ Around \/ KilledOutside
<1>0. ReportTypeOK
  BY DEF Base
<1>1. ASSUME NEW q \in Reporters, Report(q)
      PROVE  (view[r].at = "evaluate" /\ Evaluate(r)) \/ Around \/ KilledOutside
  <2>1. CASE UNCHANGED vars
    BY <2>1 DEF Around, vars
  <2>2. CASE Open(q) /\ ~ UNCHANGED vars
    BY <1>0, <2>2, OpenReads DEF Apart, Early
  <2>3. CASE Evaluate(q)
    BY <1>0, <2>3, EvaluateReads DEF Apart
  <2>4. CASE Killed(q)
    BY <2>4 DEF Killed, KilledOutside
  <2>5. CASE ~ Open(q) /\ ~ Evaluate(q) /\ ~ Killed(q)
    BY <1>1, <2>1, <2>5 DEF Report, Refresh, ReadDefinitions, ReadExcursions, ReadResults, ReadStatistics,
       ReadSheet, ReadAll, ReadDrawn, ReadMarks, WriteFile, SaveStamp, reading
  <2> QED BY <2>1, <2>2, <2>3, <2>4, <2>5
<1>2. ASSUME NEW e \in Evaluators \ Reporters, Other(e) PROVE FALSE
  BY <1>0, <1>2, DisturbedFields DEF Other
<1>3. CASE \/ (Arrive \/ EditTag) /\ UNCHANGED <<view, table>>
           \/ DeleteWithPath \/ NewMonth \/ Gone
           \/ UNCHANGED reportVars
  BY <1>3 DEF DeleteWithPath, NewMonth, Gone, reportVars, Around, Arrive, EditTag, DeleteTest, vars
<1> QED BY <1>1, <1>2, <1>3 DEF ReportNext

\* What has failed on average has a sample beyond the limit.
LEMMA FailedHasSample ==
  ASSUME TypeOK, limits \in Snapshots, NEW k \in InForce, NEW S \in SUBSET Counted(k, tags),
         Outcome(k, S) = "fail"
  PROVE  \E x \in Excursions(tags) : x[1].phase = Phases[k[1]] /\ x[2] = k[2]
<1> DEFINE q == k[2]
           l == Limit(k)
           n == Cardinality(S)
           t == Total(q, S)
<1>1. k \in Keys /\ q \in Parameters /\ q \in Codes(tags) /\ q \in Defined(tags)
      /\ HasActiveLimit(limits[q], Phases[k[1]])
  BY DEF InForce, Limited, Keys
<1>2. S \in SUBSET (FirstSamples \cup LateSamples)
  BY CountedType DEF Samples
<1>3. IsFiniteSet(S) /\ \A s \in S : s.value[q] \in Int
  BY <1>1, <1>2, TotalTypes, SamplesAssumption
<1>4. l.min \in Int /\ l.max \in Int
  BY <1>1, LimitTypes
<1>5. (MinSet(l) /\ t < l.min * n) \/ (MaxSet(l) /\ t > l.max * n)
  BY DEF Outcome
<1>6. n \in Nat /\ t \in Int
  BY <1>1, <1>2, TotalTypes
<1>7. \E s \in S : (MinSet(l) /\ s.value[q] < l.min) \/ (MaxSet(l) /\ s.value[q] > l.max)
  <2>1. CASE MinSet(l) /\ t < l.min * n
    <3>1. ~ (l.min * n <= t)
      BY <1>4, <1>6, <2>1
    <3>2. ~ \A s \in S : l.min <= s.value[q]
      BY <1>3, <1>4, <3>1, SumBounds
    <3> QED BY <1>3, <1>4, <2>1, <3>2
  <2>2. CASE MaxSet(l) /\ t > l.max * n
    <3>1. ~ (t <= l.max * n)
      BY <1>4, <1>6, <2>2
    <3>2. ~ \A s \in S : s.value[q] <= l.max
      BY <1>3, <1>4, <3>1, SumBounds
    <3> QED BY <1>3, <1>4, <2>2, <3>2
  <2> QED BY <1>5, <2>1, <2>2
<1> PICK s \in S : (MinSet(l) /\ s.value[q] < l.min) \/ (MaxSet(l) /\ s.value[q] > l.max)
  BY <1>7
<1>8. s \in samples /\ s.phase = Phases[k[1]] /\ IsValid(s, q, tags) /\ s.value[q] # NotSet
  BY DEF Counted
<1>9. <<s, q>> \in Excursions(tags)
  BY <1>1, <1>8 DEF Excursions, Limit
<1> QED BY <1>8, <1>9

LEMMA GoneStep ==
  ASSUME GoneInv, [ReportNext]_reportVars PROVE GoneInv'
<1>1. CASE Around \/ KilledOutside
  BY <1>1 DEF GoneInv, Around, Arrive, EditTag, DeleteTest, vars, KilledOutside
<1>2. CASE \E e \in Evaluators : Step(e)
  BY <1>2 DEF GoneInv, Step, Begin, DeleteRows, EnterPhase, ReadValues, CreateRow, SaveVerdict, Refused, Crash
<1> QED BY <1>1, <1>2, ReportIsStep, NextCases

LEMMA FailedStep ==
  ASSUME Base, GoneInv, AveragesInv, NEW r \in Reporters, FailedInv(view[r]), [ReportNext]_reportVars,
         edits = 0
  PROVE  FailedInv(view[r])'
<1> DEFINE v == view[r]
           w == view'[r]
           rowsListed(u, R) == \A i \in 1 .. Len(R) : R[i].passed = "fail" => HasExcursion(u, R[i].key)
           resultListed(u) == \A k \in Keys : \A x \in u.result[k] : x.passed = "fail" => HasExcursion(u, k)
<1>0. ReportTypeOK /\ TypeOK /\ JudgedInv /\ v \in View
  BY DEF Base, EvaluationInv, ReportTypeOK
<1>a. v.alone /\ v.at = "results" => rowsListed(v, rows)
  BY DEF FailedInv
<1>b. v.alone /\ v.at \in AfterResults => resultListed(v)
  BY DEF FailedInv
<1>1. ASSUME w.alone, w.at = "results" PROVE rowsListed(w, rows')
  <2>1. CASE Kept(w, v)
    <3>1. v.alone /\ v.at = "results" /\ w.excursions = v.excursions
      BY <1>1, <2>1 DEF Kept, SameTables
    <3>2. UNCHANGED rows \/ rows' = << >>
      BY <1>1, <3>1, Undisturbed DEF Early, Around, Arrive, EditTag, DeleteTest, vars, KilledOutside
    <3> QED BY <1>a, <3>1, <3>2 DEF HasExcursion
  <2>2. CASE ReadExcursions(r)
    <3>1. w.excursions = Excursions(tags) /\ UNCHANGED rows
      BY <1>0, <2>2, ExcursionsReads, OneLook DEF Reads, reading, vars
    <3>2. ASSUME NEW i \in 1 .. Len(rows), rows[i].passed = "fail" PROVE HasExcursion(w, rows[i].key)
      <4>1. status # "DELETED"
        BY DEF GoneInv
      <4>2. /\ rows[i].key \in InForce /\ rows[i].of \subseteq Counted(rows[i].key, tags)
            /\ Outcome(rows[i].key, rows[i].of) = "fail"
        BY <1>0, <3>2, <4>1 DEF AveragesInv, BasisInv, JudgedInv
      <4> QED BY <1>0, <3>1, <4>2, FailedHasSample DEF HasExcursion, JudgedInv
    <3> QED BY <3>1, <3>2
  <2>3. CASE Reading(r) /\ ~ ReadExcursions(r)
    BY <1>0, <1>1, <2>3, RefreshReads, DefinitionsReads, ResultsReads, StatisticsReads, SheetReads,
       AllReads, DrawnReads, MarksReads, NoViewFresh DEF Reading
  <2> QED BY <1>0, <1>1, <2>1, <2>2, <2>3, ViewStep, WriteReads DEF Fresh, On
<1>2. ASSUME w.alone, w.at \in AfterResults PROVE resultListed(w)
  <2>1. CASE v.at \in AfterResults /\ v.alone /\ w.excursions = v.excursions /\ w.result = v.result
    BY <1>b, <2>1 DEF HasExcursion
  <2>2. CASE ReadResults(r)
    <3>1. /\ w.result = [k \in Keys |-> ResultOf(k)] /\ w.excursions = v.excursions
          /\ v.at = "results" /\ v.alone
      BY <1>0, <1>2, <2>2, ResultsReads DEF SameExcept, SameJob
    <3>2. ASSUME NEW k \in Keys, NEW x \in ResultOf(k), x.passed = "fail" PROVE HasExcursion(w, k)
      <4>1. PICK i \in 1 .. Len(rows) :
              rows[i].key = k /\ ResultOf(k) = {[of |-> rows[i].of, passed |-> rows[i].passed]}
        BY <1>0, <3>2, ResultOfRow
      <4>2. rows[i].passed = "fail"
        BY <3>2, <4>1
      <4> QED BY <1>a, <3>1, <4>1, <4>2 DEF HasExcursion
    <3> QED BY <3>1, <3>2
  <2>3. CASE Kept(w, v) \/ WriteFile(r)
    BY <1>0, <1>2, <2>1, <2>3, WriteReads DEF Kept, On, SameRest, SameTables, SameJob, AfterResults, Complete
  <2>4. CASE ReadStatistics(r) \/ ReadSheet(r)
    BY <1>0, <1>2, <2>1, <2>4, StatisticsReads, SheetReads, NoViewFresh
    DEF SameExcept, SameTables, SameJob, AfterResults, Complete
  <2>5. CASE ReadAll(r) \/ ReadDrawn(r) \/ ReadMarks(r)
    BY <1>0, <1>2, <2>1, <2>5, AllReads, DrawnReads, MarksReads
    DEF SameExcept, SameTables, SameJob, AfterResults, Complete
  <2>6. CASE Refresh(r) \/ ReadDefinitions(r) \/ ReadExcursions(r)
    BY <1>0, <1>2, <2>6, RefreshReads, DefinitionsReads, ExcursionsReads, NoViewFresh
    DEF AfterResults, Complete
  <2>7. ~ Fresh(w) /\ ~ On(w, v, "refresh")
    BY <1>2 DEF Fresh, On, AfterResults, Complete
  <2> QED BY <1>0, <2>2, <2>3, <2>4, <2>5, <2>6, <2>7, ViewStep DEF Reading
<1> QED BY <1>1, <1>2 DEF FailedInv

FailuresInv == GoneInv /\ AveragesInv /\ (edits = 0 => \A r \in Reporters : FailedInv(view[r]))

LEMMA InitFailures == ReportInit => FailuresInv
<1>1. ReportInit => GoneInv
  BY DEF ReportInit, Init, GoneInv
<1>2. ReportInit => \A r \in Reporters : FailedInv(view[r])
  BY InitViews, NoViewFresh DEF FailedInv, AfterResults, Complete
<1> QED BY <1>1, <1>2, InitAverages DEF FailuresInv

LEMMA NextFailures == Base /\ FailuresInv /\ [ReportNext]_reportVars => FailuresInv'
BY GoneStep, NextAverages, FailedStep, World DEF FailuresInv

\* A limit shown as failed has a sample beyond it in the list of the same page or report,
\* whatever arrives meanwhile and also if the test is deleted (build_test_report_context).
THEOREM FailuresAreListed == ReportSpec => []FailedIsListed
<1>1. Base /\ FailuresInv => FailedIsListed
  <2> SUFFICES ASSUME Base, FailuresInv, edits = 0, NEW r \in Reporters, view[r].at \in Complete, view[r].alone,
                      NEW k \in Keys, "fail" \in {Cell(view[r], k), StatCell(view[r], k)}
               PROVE  HasExcursion(view[r], k)
    BY DEF FailedIsListed, HasExcursion, Tables
  <2>1. Cell(view[r], k) = "fail"
    BY DEF StatCell
  <2>2. \E x \in view[r].result[k] : x.passed = "fail"
    BY <2>1 DEF Cell
  <2> QED BY <2>2 DEF FailuresInv, FailedInv, AfterResults
<1> QED BY <1>1, InitFailures, NextFailures, ReportsTypeCorrect, PTL DEF ReportSpec

-----------------------------------------------------------------------------
(* The head and the tables of a reporter that is alone.                    *)

LEMMA ShownStep ==
  ASSUME Base, NEW r \in Reporters, ShownInv(view[r]), [ReportNext]_reportVars, edits' = 0
  PROVE  ShownInv(view[r])'
<1> DEFINE v == view[r]
           w == view'[r]
           later == {"excursions", "results"} \cup AfterResults
<1>0. ReportTypeOK /\ UNCHANGED Codes(tags) /\ \A g \in Known : g = tags
  <2>1. UNCHANGED <<circuit, tags>> /\ edits = 0
    BY World DEF test
  <2> QED BY <2>1, OneLook DEF Base, Codes, ScopesOf
<1>1. ASSUME w.shown = v.shown, w.at \in later => v.at \in later PROVE ShownInv(view[r])'
  BY <1>0, <1>1 DEF ShownInv
<1>2. CASE w.at \notin later
  BY <1>2 DEF ShownInv
<1>3. CASE ReadDefinitions(r)
  <2>1. w.shown = Codes(tags)
    BY <1>0, <1>3, DefinitionsReads DEF Codes
  <2> QED BY <1>0, <2>1 DEF ShownInv
<1>4. CASE Kept(w, v) \/ WriteFile(r) \/ On(w, v, "refresh")
  BY <1>0, <1>1, <1>2, <1>4, WriteReads DEF Kept, On, AfterResults, Complete
<1>5. CASE Fresh(w) \/ Refresh(r)
  BY <1>0, <1>2, <1>5, RefreshReads, NoViewFresh DEF Fresh, AfterResults, Complete
<1>6. CASE ReadExcursions(r) \/ ReadResults(r) \/ ReadStatistics(r) \/ ReadSheet(r)
  BY <1>0, <1>1, <1>2, <1>6, ExcursionsReads, ResultsReads, StatisticsReads, SheetReads, NoViewFresh
  DEF SameExcept, Fresh, AfterResults, Complete
<1>7. CASE ReadAll(r) \/ ReadDrawn(r) \/ ReadMarks(r)
  BY <1>0, <1>1, <1>7, AllReads, DrawnReads, MarksReads DEF SameExcept, AfterResults, Complete
<1> QED BY <1>0, <1>3, <1>4, <1>5, <1>6, <1>7, ViewStep DEF Reading

\* A reporter begins, makes a step of its evaluation, reads, or is left alone.
LEMMA OwnStep ==
  ASSUME ReportTypeOK, [ReportNext]_reportVars, NEW r \in Reporters
  PROVE  LET v == view[r]
             w == view'[r]
         IN  \/ w.at = "none" \/ Open(r) \/ Reading(r) \/ WriteFile(r)
             \/ /\ DeleteRows(r) \/ EnterPhase(r) \/ ReadValues(r) \/ CreateRow(r)
                /\ v.at = "evaluate" /\ Kept(w, v)
             \/ SaveVerdict(r) /\ v.at = "evaluate" /\ On(w, v, "refresh")
             \/ Kept(w, v) /\ ~ Report(r)
<1>1. CASE Report(r)
  <2>1. CASE Evaluate(r)
    BY <2>1, EvaluateReads, NoViewFresh DEF On
  <2>2. CASE SaveStamp(r) \/ Killed(r)
    BY <2>2, EndReads, NoViewFresh
  <2> QED BY <1>1, <2>1, <2>2 DEF Report, Reading
<1>2. CASE ~ Report(r) /\ \E q \in Reporters : Report(q)
  BY <1>2, ReportReads DEF Apart
<1>3. CASE ~ Report(r) /\ \E e \in Evaluators \ Reporters : Other(e)
  BY <1>3, DisturbedFields DEF Other
<1>4. CASE ~ Report(r) /\ UNCHANGED view
  BY <1>4, SameKept DEF ReportTypeOK
<1> QED BY <1>1, <1>2, <1>3, <1>4 DEF ReportNext, DeleteWithPath, NewMonth, reportVars

\* As far as the rows go.
LEMMA SoFarStep ==
  ASSUME Base, edits = 0, NEW r \in Evaluators,
         DeleteRows(r) \/ EnterPhase(r) \/ ReadValues(r) \/ CreateRow(r),
         pc[r] # "delete" => RowsSoFar(r)
  PROVE  RowsSoFar(r)'
<1>0. TypeOK /\ LoopInv /\ TagsInv /\ rows \in Seq(Row) /\ Step(r)
  BY DEF Base, ReportTypeOK, TypeOK, EvaluationInv, CoveredInv, Step
<1>a. UNCHANGED InForce /\ \A k \in InForce : k \in Keys /\ k[1] \in 1 .. 3
  BY <1>0, OthersStay, ForceStays DEF registry, InForce, Keys
<1>1. CASE DeleteRows(r)
  <2>1. rows' = << >> /\ mem'[r].at = 1 /\ ~ mem'[r].failed /\ pc'[r] = "phase"
    BY <1>0, <1>1 DEF DeleteRows, LoopInv, TypeOK, Go
  <2>2. \A k \in InForce : ~ Done(r, k)'
    BY <1>a, <2>1 DEF Done, AtWork
  <2>3. Len(rows') = 0
    BY <2>1
  <2> QED BY <1>a, <2>1, <2>2, <2>3 DEF RowsSoFar, OfOne, SomeFailed
<1>2. CASE EnterPhase(r) \/ ReadValues(r)
  <2>1. RowsSoFar(r) /\ UNCHANGED rows
    BY <1>2 DEF EnterPhase, ReadValues
  <2>2. \A k \in InForce : Done(r, k)' = Done(r, k)
    BY <1>0, <1>2, EnterDone, ReadDone
  <2>3. mem'[r].failed = mem[r].failed
    BY <1>0, <1>2, ReadDone, EnterTurn DEF EnterPhase
  <2> QED BY <1>a, <2>1, <2>2, <2>3 DEF RowsSoFar, OfOne, SomeFailed, HasRow
<1>3. CASE CreateRow(r)
  <2> PICK q \in Parameters : /\ pc[r] = "create" /\ q \in mem[r].todo /\ Judges(r, q)
                              /\ rows' = Append(rows, NewRow(r, q))
    BY <1>0, <1>3, NextTurn DEF CreateRow, IsNext, NewRow
  <2> DEFINE n == Len(rows)
             new == NewRow(r, q)
  <2>0. RowsSoFar(r)
    OBVIOUS
  <2>1. new.by = r /\ new.key = <<mem[r].at, q>> /\ new.passed = Outcome(<<mem[r].at, q>>, mem[r].of)
    BY DEF NewRow
  <2> HIDE DEF new
  <2>2. /\ n \in Nat /\ Len(rows') = n + 1 /\ rows'[n + 1] = new
        /\ \A i \in 1 .. n : rows'[i] = rows[i]
    BY <1>0 DEF new
  <2>3. OfOne(r)'
    <3>1. \A i \in 1 .. n : rows[i].by = r
      BY <2>0 DEF RowsSoFar, OfOne
    <3> QED BY <2>1, <2>2, <3>1 DEF OfOne
  <2>4. \A k : HasRow(k)' <=> HasRow(k) \/ k = <<mem[r].at, q>>
    BY <2>1, <2>2 DEF HasRow
  <2>5. \A k \in InForce : Done(r, k)' => Done(r, k) \/ k = <<mem[r].at, q>>
    BY <1>0, <1>a, CreateDone
  <2>6. \A k \in InForce : Done(r, k)' => HasRow(k)'
    BY <2>0, <2>4, <2>5 DEF RowsSoFar
  <2>7. SomeFailed' <=> SomeFailed \/ new.passed = "fail"
    BY <2>2 DEF SomeFailed
  <2>8. mem'[r].failed <=> mem[r].failed \/ new.passed = "fail"
    BY <2>1, Zenon DEF Judges
  <2>9. mem'[r].failed <=> SomeFailed'
    BY <2>0, <2>7, <2>8 DEF RowsSoFar
  <2> QED BY <1>a, <2>3, <2>6, <2>9 DEF RowsSoFar
<1> QED BY <1>1, <1>2, <1>3

LEMMA SavedAll ==
  ASSUME Base, NEW r \in Evaluators, SaveVerdict(r), RowsSoFar(r)
  PROVE  RowsOfAll(r)'
<1>0. TypeOK /\ LoopInv /\ Step(r)
  BY DEF Base, ReportTypeOK, EvaluationInv, CoveredInv, Step
<1>1. UNCHANGED <<InForce, rows>> /\ status' = IF mem[r].failed THEN "FAIL" ELSE "PASS"
  BY <1>0, OthersStay, ForceStays DEF SaveVerdict, registry
<1>2. mem[r].at = 4
  BY <1>0 DEF LoopInv, SaveVerdict
<1>3. \A k \in InForce : Done(r, k)
  BY <1>2 DEF Done, InForce, Keys
<1> QED BY <1>1, <1>3 DEF RowsSoFar, RowsOfAll, OfOne, HasRow, SomeFailed

\* The results of an evaluation that is finished and whose rows are the only ones.
LEMMA AllRead ==
  ASSUME Base, NEW r \in Reporters, RowsOfAll(r), NEW w,
         w.result = [k \in Keys |-> ResultOf(k)], w.status = status
  PROVE  ResultsOfAll(w)
<1>0. TypeOK /\ OneRowEach /\ \A i \in 1 .. Len(rows) : rows[i].key \in Keys
  <2>1. TypeOK /\ OneRowEach /\ \A i \in 1 .. Len(rows) : rows[i] \in Row
    BY DEF Base, ReportTypeOK, EvaluationInv, OneInv, TypeOK
  <2> QED BY <2>1 DEF Row
<1>1. \A k \in Keys : w.result[k] = ResultOf(k)
  OBVIOUS
<1>2. ASSUME NEW k \in InForce PROVE w.result[k] # {}
  <2>1. k \in Keys /\ HasRow(k)
    BY DEF RowsOfAll, InForce
  <2>2. PICK j \in 1 .. Len(rows) : ResultOf(k) = {[of |-> rows[j].of, passed |-> rows[j].passed]}
    BY <1>0, <2>1, ResultOfRow
  <2>3. ResultOf(k) # {}
    BY <2>2
  <2> QED BY <1>1, <2>1, <2>3
<1>3. \A k \in Keys : \A x, y \in w.result[k] : x = y
  BY <1>0, <1>1, ResultOfRow
<1>4. ASSUME NEW i \in 1 .. Len(rows), rows[i].passed = "fail"
      PROVE  \E k \in Keys : \E x \in w.result[k] : x.passed = "fail"
  <2> DEFINE k == rows[i].key
  <2>1. k \in Keys /\ HasRow(k)
    BY <1>0 DEF HasRow
  <2>2. PICK j \in 1 .. Len(rows) :
          rows[j].key = k /\ ResultOf(k) = {[of |-> rows[j].of, passed |-> rows[j].passed]}
    BY <1>0, <2>1, ResultOfRow
  <2>3. i = j
    BY <1>0, <2>2 DEF OneRowEach, RowsOfAll, OfOne
  <2> DEFINE x == [of |-> rows[j].of, passed |-> rows[j].passed]
  <2>4. x \in w.result[k] /\ x.passed = "fail"
    BY <1>1, <1>4, <2>1, <2>2, <2>3
  <2> HIDE DEF k, x
  <2> QED BY <2>1, <2>4
<1>5. ASSUME NEW k \in Keys, NEW x \in w.result[k], x.passed = "fail"
      PROVE  SomeFailed
  <2>1. PICK j \in 1 .. Len(rows) :
          rows[j].key = k /\ ResultOf(k) = {[of |-> rows[j].of, passed |-> rows[j].passed]}
    BY <1>0, <1>1, <1>5, ResultOfRow
  <2>2. x.passed = rows[j].passed
    BY <1>1, <2>1
  <2> QED BY <1>5, <2>2 DEF SomeFailed
<1> QED BY <1>2, <1>3, <1>4, <1>5 DEF ResultsOfAll, RowsOfAll, SomeFailed

\* What goes on around a reporter that is alone leaves its rows alone.
LEMMA AroundAlone ==
  ASSUME Base, [ReportNext]_reportVars, NEW r \in Reporters, ~ Report(r),
         view'[r].alone, view[r].at \in Early, edits' = 0, status' # "DELETED"
  PROVE  UNCHANGED <<rows, status, pc, mem, InForce>>
<1>1. Around \/ KilledOutside
  BY Undisturbed DEF Report
<1>2. UNCHANGED InForce
  BY Grows
<1> QED BY <1>1, <1>2 DEF Around, Arrive, EditTag, DeleteTest, vars, KilledOutside

LEMMA SameRows ==
  ASSUME UNCHANGED <<rows, status, mem, pc, InForce>>, NEW r
  PROVE  (RowsSoFar(r) => RowsSoFar(r)') /\ (RowsOfAll(r) => RowsOfAll(r)')
BY DEF RowsSoFar, RowsOfAll, OfOne, SomeFailed, HasRow, Done, AtWork

LEMMA AloneStep ==
  ASSUME Base, NEW r \in Reporters, AloneWith(r), [ReportNext]_reportVars,
         edits' = 0, status' # "DELETED"
  PROVE  AloneWith(r)'
<1> DEFINE v == view[r]
           w == view'[r]
<1> SUFFICES ASSUME w.alone
             PROVE  /\ w.at \in Early => \A e \in Evaluators : e # r => pc'[e] = "idle"
                    /\ w.at = "evaluate" /\ pc'[r] # "delete" => RowsSoFar(r)'
                    /\ w.at = "refresh" => RowsOfAll(r)'
                    /\ w.at \in Early \ {"evaluate", "refresh"} /\ HasVerdict(w) =>
                         RowsOfAll(r)' /\ w.status = status'
                    /\ w.at \in AfterResults /\ HasVerdict(w) => ResultsOfAll(view[r])'
  BY DEF AloneWith, HasVerdict
<1>0. ReportTypeOK /\ TypeOK /\ r \in Evaluators /\ edits = 0 /\ UNCHANGED InForce
  BY Grows, ReporterFacts DEF Base, ReportTypeOK
<1>a. v.alone =>
        /\ v.at \in Early => \A e \in Evaluators : e # r => pc[e] = "idle"
        /\ v.at = "evaluate" /\ pc[r] # "delete" => RowsSoFar(r)
        /\ v.at = "refresh" => RowsOfAll(r)
        /\ v.at \in Early \ {"evaluate", "refresh"} /\ HasVerdict(v) => RowsOfAll(r) /\ v.status = status
        /\ v.at \in AfterResults /\ HasVerdict(v) => ResultsOfAll(v)
  BY DEF AloneWith
<1>b. ASSUME w.result = v.result, w.status = v.status, ResultsOfAll(v) PROVE ResultsOfAll(view[r])'
  BY <1>0, <1>b DEF ResultsOfAll
<1>1. CASE w.at = "none"
  BY <1>1 DEF Early, AfterResults, Complete
<1>2. CASE Open(r)
  <2>1. Fresh(w) /\ w.at \in {"evaluate", "definitions"} /\ \A e \in Evaluators : pc[e] = "idle"
    BY <1>0, <1>2, OpenReads
  <2>2. ~ HasVerdict(w) /\ w.at \notin AfterResults
    BY <2>1 DEF Fresh, HasVerdict, AfterResults, Complete
  <2>3. (w.at = "evaluate" /\ Begin(r)) \/ (w.at # "evaluate" /\ UNCHANGED vars)
    BY <1>0, <1>2, OpenReads
  <2>4. \A e \in Evaluators : e # r => pc'[e] = "idle"
    BY <1>0, <2>1, <2>3, OthersStay DEF Step, vars
  <2>5. w.at = "evaluate" => pc'[r] = "delete"
    BY <1>0, <2>3 DEF Begin, Go, TypeOK
  <2> QED BY <2>1, <2>2, <2>4, <2>5
<1>3. CASE /\ DeleteRows(r) \/ EnterPhase(r) \/ ReadValues(r) \/ CreateRow(r)
           /\ v.at = "evaluate" /\ Kept(w, v)
  <2>1. w.at = "evaluate" /\ v.alone
    BY <1>3 DEF Kept
  <2>2. \A e \in Evaluators : e # r => pc'[e] = "idle"
    BY <1>0, <1>3, <1>a, <2>1, OthersStay DEF Step, Early
  <2>3. RowsSoFar(r)'
    BY <1>0, <1>3, <1>a, <2>1, SoFarStep
  <2> QED BY <2>1, <2>2, <2>3 DEF AfterResults, Complete
<1>4. CASE SaveVerdict(r) /\ v.at = "evaluate" /\ On(w, v, "refresh")
  <2>1. w.at = "refresh" /\ v.alone
    BY <1>4 DEF On, SameRest, SameJob
  <2>2. \A e \in Evaluators : e # r => pc'[e] = "idle"
    BY <1>0, <1>4, <1>a, <2>1, OthersStay DEF Step, Early
  <2>3. RowsSoFar(r)
    BY <1>4, <1>a, <2>1 DEF SaveVerdict
  <2>4. RowsOfAll(r)'
    BY <1>0, <1>4, <2>3, SavedAll
  <2> QED BY <2>1, <2>2, <2>4 DEF AfterResults, Complete
<1>5. CASE Kept(w, v) /\ ~ Report(r)
  <2>1. v.alone /\ w.at = v.at /\ w.status = v.status /\ w.result = v.result
    BY <1>5 DEF Kept, SameTables
  <2>2. CASE v.at \in Early
    <3>1. UNCHANGED <<rows, status, pc, mem, InForce>>
      BY <1>5, <2>2, AroundAlone
    <3>2. (RowsSoFar(r) => RowsSoFar(r)') /\ (RowsOfAll(r) => RowsOfAll(r)')
      BY <3>1, SameRows
    <3> QED BY <1>a, <2>1, <2>2, <3>1, <3>2 DEF HasVerdict, AfterResults, Complete, Early
  <2>3. CASE v.at \notin Early
    BY <1>a, <1>b, <2>1, <2>3 DEF HasVerdict, Early
  <2> QED BY <2>2, <2>3
<1>6. CASE WriteFile(r)
  <2>1. /\ v.alone /\ w.at = "stamp" /\ v.at = "write"
        /\ w.status = v.status /\ w.result = v.result
    BY <1>0, <1>6, WriteReads DEF On, SameRest, SameJob, SameTables
  <2> QED BY <1>a, <1>b, <2>1 DEF HasVerdict, Early, AfterResults, Complete
<1>7. CASE Reading(r) /\ w.at # "none"
  <2>0. v.alone /\ UNCHANGED <<rows, status, pc, mem, InForce>>
    BY <1>0, <1>7, ReadingReads, ReadingAt, NoViewFresh DEF Reads, reading, vars
  <2>1. (RowsSoFar(r) => RowsSoFar(r)') /\ (RowsOfAll(r) => RowsOfAll(r)')
    BY <2>0, SameRows
  <2>2. w.at \in Early => v.at \in Early
    <3>1. CASE Refresh(r) \/ ReadDefinitions(r) \/ ReadExcursions(r) \/ ReadResults(r)
      BY <1>0, <3>1, RefreshReads, DefinitionsReads, ExcursionsReads, ResultsReads DEF Early
    <3>2. CASE ReadStatistics(r) \/ ReadSheet(r)
      BY <1>0, <1>7, <3>2, StatisticsReads, SheetReads, NoViewFresh DEF Early
    <3>3. CASE ReadAll(r) \/ ReadDrawn(r) \/ ReadMarks(r)
      BY <1>0, <3>3, AllReads, DrawnReads, MarksReads DEF Early
    <3> QED BY <1>7, <3>1, <3>2, <3>3 DEF Reading
  <2>3. w.at \in Early => \A e \in Evaluators : e # r => pc'[e] = "idle"
    BY <1>a, <2>0, <2>2
  <2>4. CASE Refresh(r)
    <3>1. v.at = "refresh" /\ w.at = "definitions" /\ w.status = status
      BY <1>0, <1>7, <2>4, RefreshReads, NoViewFresh
    <3> QED BY <1>a, <2>0, <2>1, <2>3, <3>1 DEF AfterResults, Complete
  <2>5. CASE ReadDefinitions(r) \/ ReadExcursions(r)
    <3>1. /\ v.at \in {"definitions", "excursions"} /\ w.at \in {"excursions", "results"}
          /\ w.status = v.status
      BY <1>0, <2>5, DefinitionsReads, ExcursionsReads DEF SameExcept
    <3> QED BY <1>a, <2>0, <2>1, <2>3, <3>1 DEF HasVerdict, AfterResults, Complete, Early
  <2>6. CASE ReadResults(r)
    <3>1. /\ v.at = "results" /\ w.at \in {"statistics", "sheets"} /\ w.status = v.status
          /\ w.result = [k \in Keys |-> ResultOf(k)]
      BY <1>0, <2>6, ResultsReads DEF SameExcept
    <3>2. ASSUME HasVerdict(w) PROVE ResultsOfAll(view[r])'
      <4>1. RowsOfAll(r) /\ w.status = status
        BY <1>a, <2>0, <3>1, <3>2 DEF HasVerdict, Early
      <4>2. \A u : u.result = [k \in Keys |-> ResultOf(k)] /\ u.status = status => ResultsOfAll(u)
        BY <4>1, AllRead
      <4>3. /\ \A k \in InForce : w.result[k] # {}
            /\ \A k \in Keys : \A x, y \in w.result[k] : x = y
            /\ w.status = "FAIL" <=> \E k \in Keys : \E x \in w.result[k] : x.passed = "fail"
        BY <3>1, <4>1, <4>2 DEF ResultsOfAll
      <4> QED BY <1>0, <4>3 DEF ResultsOfAll
    <3> QED BY <2>3, <3>1, <3>2 DEF AfterResults, Complete, Early
  <2>7. CASE ReadStatistics(r) \/ ReadSheet(r) \/ ReadAll(r) \/ ReadDrawn(r) \/ ReadMarks(r)
    <3>1. /\ v.at \in AfterResults /\ w.at \in AfterResults
          /\ w.status = v.status /\ w.result = v.result
      <4>1. CASE ReadStatistics(r) \/ ReadSheet(r)
        BY <1>0, <1>7, <4>1, StatisticsReads, SheetReads, NoViewFresh
        DEF SameExcept, SameTables, AfterResults, Complete
      <4>2. CASE ReadAll(r) \/ ReadDrawn(r) \/ ReadMarks(r)
        BY <1>0, <4>2, AllReads, DrawnReads, MarksReads DEF SameExcept, SameTables, AfterResults, Complete
      <4> QED BY <2>7, <4>1, <4>2
    <3> QED BY <1>a, <1>b, <2>0, <2>3, <3>1 DEF HasVerdict, AfterResults, Complete, Early
  <2> QED BY <1>7, <2>4, <2>5, <2>6, <2>7 DEF Reading
<1> QED BY <1>0, <1>1, <1>2, <1>3, <1>4, <1>5, <1>6, <1>7, OwnStep

HeadsInv ==
  /\ AveragesInv /\ TagsUntouched
  /\ edits = 0 => \A r \in Reporters : ShownInv(view[r])
  /\ edits = 0 /\ status # "DELETED" => \A r \in Reporters : AloneWith(r)

LEMMA InitHeads == ReportInit => HeadsInv
<1> SUFFICES ASSUME ReportInit PROVE HeadsInv
  OBVIOUS
<1>1. \A r \in Reporters : view[r].at = "none"
  BY InitViews, NoViewFresh
<1>2. \A r \in Reporters : ShownInv(view[r]) /\ AloneWith(r)
  BY <1>1 DEF ShownInv, AloneWith, Early, AfterResults, Complete
<1>3. TagsUntouched
  BY DEF ReportInit, Init, TagsUntouched
<1> QED BY <1>2, <1>3, InitAverages DEF HeadsInv

LEMMA NextHeads == Base /\ HeadsInv /\ [ReportNext]_reportVars => HeadsInv'
<1> SUFFICES ASSUME Base, HeadsInv, [ReportNext]_reportVars PROVE HeadsInv'
  OBVIOUS
<1>1. AveragesInv'
  BY NextAverages DEF HeadsInv
<1>2. TagsUntouched'
  BY World DEF HeadsInv, TagsUntouched
<1>3. edits' = 0 => \A r \in Reporters : ShownInv(view[r])'
  BY ShownStep, World DEF HeadsInv
<1>4. edits' = 0 /\ status' # "DELETED" => \A r \in Reporters : AloneWith(r)'
  BY AloneStep, World DEF HeadsInv
<1> QED BY <1>1, <1>2, <1>3, <1>4 DEF HeadsInv

LEMMA LineOfHead ==
  ASSUME Base, HeadsInv, edits = 0, status # "DELETED", NEW r \in Reporters, view[r].at \in Complete,
         view[r].alone, HasVerdict(view[r]), NEW k \in Tables(view[r])
  PROVE  LET v == view[r] IN
         /\ Cell(v, k) = "fail" <=> \E x \in v.result[k] : x.passed = "fail"
         /\ \A m \in Messages(v, k) :
              /\ m \in {"below", "above"} => Cell(v, k) = "fail"
              /\ Cell(v, k) = "fail" => m \in {"below", "above"} \/ (m = "passed" /\ OnLimit(v, k))
              /\ Cell(v, k) = "invalid" => m = "no samples"
<1> DEFINE v == view[r]
           q == k[2]
           judged == {x \in v.result[k] : x.of # {}}
<1>0. k \in Keys /\ q \in Parameters /\ q \in Codes(tags) /\ Defined(tags) = Parameters
  BY DEF Tables, Keys, HeadsInv, ShownInv, AfterResults, TagsUntouched, Defined
<1>1. ResultsOfAll(v) /\ ResultInv(v)
  BY DEF HeadsInv, AveragesInv, AloneWith, AfterResults
<1>2. \A x \in v.result[k] : (x.passed = "none" <=> x.of = {}) /\ x.passed = Outcome(k, x.of)
  BY <1>0, <1>1 DEF ResultInv, Outcome
<1>3. q \in Limited(Parameters, k[1]) => v.result[k] # {}
  BY <1>0, <1>1 DEF ResultsOfAll, InForce, Limited, Codes
<1>4. CASE \E x \in v.result[k] : x.passed # "none"
  <2> PICK x \in v.result[k] : x.passed # "none"
    BY <1>4
  <2>1. v.result[k] = {x} /\ \A y \in v.result[k] : y = x
    BY <1>0, <1>1 DEF ResultsOfAll
  <2>2. Cell(v, k) = x.passed
    BY <2>1 DEF Cell
  <2>3. x.passed \in {"pass", "fail"} /\ x.of # {} /\ x.passed = Outcome(k, x.of)
    BY <1>2 DEF Outcome
  <2>4. judged = {x}
    BY <2>1, <2>3
  <2>5. UNION {y.of : y \in judged} = x.of
    BY <2>4
  <2>6. Messages(v, k) = {ResultMessage(k, a) : a \in Shown(q, x.of)}
    BY <2>4, <2>5 DEF Messages
  <2>7. ASSUME NEW a \in Shown(q, x.of)
        PROVE  /\ ResultMessage(k, a) \in {"below", "above"} => x.passed = "fail"
               /\ x.passed = "fail" =>
                    \/ ResultMessage(k, a) \in {"below", "above"}
                    \/ ResultMessage(k, a) = "passed" /\ OnLimit(v, k)
    <3> DEFINE l == Limit(k)
    <3>1. x.of \in SUBSET Samples
      BY <1>0, <2>1 DEF Base, ReportTypeOK, View, Result
    <3>2. /\ Beyond(a, l) => x.passed = "fail"
          /\ Within(a, l) => x.passed = "pass"
      BY <1>0, <2>3, <3>1, RowDecides DEF Base, EvaluationInv, JudgedInv, Samples
    <3>3. l.min \in Int /\ l.max \in Int /\ a \in Int
      <4>1. limits \in Snapshots
        BY DEF Base, EvaluationInv, JudgedInv
      <4>2. Total(q, x.of) \in Int /\ Cardinality(x.of) \in Nat /\ Cardinality(x.of) > 0
        BY <1>0, <2>3, <3>1, TotalTypes DEF Samples
      <4>3. Total(q, x.of) \div Cardinality(x.of) \in Int
        BY <4>2
      <4> QED BY <1>0, <4>1, <4>3, LimitTypes DEF Shown
    <3>4. /\ ResultMessage(k, a) \in {"below", "above", "passed"}
          /\ ResultMessage(k, a) \in {"below", "above"} <=> Beyond(a, l)
      BY DEF ResultMessage, Beyond
    <3>5. CASE Beyond(a, l)
      BY <3>2, <3>4, <3>5
    <3>6. CASE Within(a, l)
      BY <3>2, <3>4, <3>6
    <3>7. CASE ~ Beyond(a, l) /\ ~ Within(a, l)
      <4>1. (MinSet(l) /\ a = l.min) \/ (MaxSet(l) /\ a = l.max)
        BY <3>3, <3>7 DEF Beyond, Within
      <4>2. OnLimit(v, k)
        BY <2>1, <4>1 DEF OnLimit
      <4> QED BY <3>4, <3>7, <4>2
    <3> QED BY <3>5, <3>6, <3>7
  <2> QED BY <2>1, <2>2, <2>3, <2>6, <2>7
<1>5. CASE \A x \in v.result[k] : x.passed = "none"
  <2>1. Cell(v, k) = IF q \in Limited(Parameters, k[1]) THEN "invalid" ELSE "n/a"
    BY <1>5 DEF Cell
  <2>2. judged = {}
    BY <1>2, <1>5
  <2>3. Messages(v, k) \subseteq {"no samples", "unknown", "no limit"}
    BY <2>2 DEF Messages
  <2>4. v.result[k] # {} => Messages(v, k) = {"no samples"}
    BY <2>2 DEF Messages, None
  <2> QED BY <1>3, <1>5, <2>1, <2>3, <2>4
<1> QED BY <1>4, <1>5

\* What a page or a report says in its head, and what its tables say of each limit, is the
\* same, although they are read apart while samples arrive, unless another evaluation of
\* the test overlaps, a tag is edited, or rounding has put an average on its limit (build_test_report_context, phase_result_map).
THEOREM HeadsMatchTables == ReportSpec => []HeadMatchesTables
<1>1. Base /\ HeadsInv => HeadMatchesTables
  <2> SUFFICES ASSUME Base, HeadsInv, edits = 0, status # "DELETED", NEW r \in Reporters,
                      view[r].at \in Complete, view[r].alone, HasVerdict(view[r])
               PROVE  Label(view[r]) = "FAILED" <=> \E k \in Tables(view[r]) : Cell(view[r], k) = "fail"
    BY LineOfHead DEF HeadMatchesTables, HasVerdict
  <2> DEFINE v == view[r]
  <2>1. ResultsOfAll(v) /\ ResultInv(v)
    BY DEF HeadsInv, AveragesInv, AloneWith, AfterResults
  <2>2. Label(v) = "FAILED" <=> \E k \in Keys : \E x \in v.result[k] : x.passed = "fail"
    BY <2>1 DEF Label, HasVerdict, ResultsOfAll
  <2>3. \A k \in Keys : v.result[k] # {} => k \in Tables(v)
    BY <2>1 DEF ResultInv, InForce, Limited, Codes, Tables, HeadsInv, ShownInv, AfterResults
  <2>4. \A k \in Tables(v) : k \in Keys /\ (Cell(v, k) = "fail" <=> \E x \in v.result[k] : x.passed = "fail")
    BY LineOfHead DEF Tables
  <2> QED BY <2>2, <2>3, <2>4
<1> QED BY <1>1, InitHeads, NextHeads, ReportsTypeCorrect, PTL DEF ReportSpec
=============================================================================
