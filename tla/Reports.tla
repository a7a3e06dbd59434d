-------------------------------- MODULE Reports --------------------------------
(***************************************************************************)
(* What a page, a PDF or an Excel file shows of a test.  It evaluates the  *)
(* test first (Evaluation); then it reads status, tags, excursions, result *)
(* rows, statistics and samples one query after the other, while other     *)
(* processes evaluate the same test again, late samples arrive and the     *)
(* test may be deleted.  A file is written before its path is saved.       *)
(*                                                                         *)
(* Statistics are represented by the samples they are taken over, a path   *)
(* by its language and its month.  A sample has a time (at), in seconds    *)
(* since the start.  Left out are titles, labels, colours and the drawing. *)
(***************************************************************************)
EXTENDS Evaluation

CONSTANTS
  Reporters,   \* the evaluators that make a page or a file of it
  Kinds,       \* what they make: "page" or "file"
  Languages,   \* of the files
  Context,     \* phase_context_sec_snapshot: the seconds a chart shows of before the start
  Horizon,     \* seconds from the start of the test to its planned end
  MaxMonths    \* bound: turns of the month

ASSUME ReportersAssumption == Reporters \subseteq Evaluators /\ Kinds \subseteq {"page", "file"}
ASSUME PathsAssumption == Languages # {} /\ MaxMonths \in Nat

VARIABLES
  view,     \* what a reporter has read so far
  month,    \* of the clock
  files,    \* the paths of the files that exist
  stamped   \* excel_file_path, with excel_generated_at, or those of the PDF, or none

reportVars == <<vars, view, month, files, stamped>>

-----------------------------------------------------------------------------
(* The content.                                                            *)

None == {}
Path == Languages \X (0 .. MaxMonths)

\* What a reporter has read: at, the step it is at; path, of its file; alone, whether no other
\* evaluation overlapped; status; shown, the tags; excursions and marks, samples with the
\* parameter whose limit they exceed; result and stats, for a limit the row [of, passed] and
\* the samples, the empty set if not read or not there; sheet, in the order of the phases;
\* all and drawn, samples.
NoView == [at |-> "none", kind |-> "page", path |-> CHOOSE p \in Path : TRUE, alone |-> TRUE,
           status |-> "ENDED", shown |-> {}, excursions |-> {},
           result |-> [k \in Keys |-> None], stats |-> [k \in Keys |-> None],
           sheet |-> << >>, all |-> {}, drawn |-> {}, marks |-> {}]

\* phase_result_map: of the rows of a key the last one.  FirstOfParameter is wrong on purpose.
FirstOfParameter(k) ==
  LET of == {i \in 1 .. Len(rows) : rows[i].key[2] = k[2]}
  IN  IF of = {} THEN None
      ELSE LET r == rows[CHOOSE i \in of : \A j \in of : i <= j] IN {[of |-> r.of, passed |-> r.passed]}
ResultOf(k) ==
  LET of == {i \in 1 .. Len(rows) : rows[i].key = k}
  IN  IF of = {} THEN None
      ELSE LET r == rows[CHOOSE i \in of : \A j \in of : i >= j] IN {[of |-> r.of, passed |-> r.passed]}

\* The result column of a table: INVALID if there is a limit, but no result.
Cell(v, k) ==
  IF \E x \in v.result[k] : x.passed # "none" THEN (CHOOSE x \in v.result[k] : TRUE).passed
  ELSE IF k[2] \in Limited(Parameters, k[1]) THEN "invalid" ELSE "n/a"

\* The sheets of the statistics: the rows of STABLE come without limit and result.
StatCell(v, k) == IF k[1] = 2 THEN "n/a" ELSE Cell(v, k)

\* The average column: avg_value of the result, or else of the statistics.
Average(v, k) == IF v.result[k] # None THEN {x.of : x \in v.result[k]} ELSE v.stats[k]

\* What a result says of its average, as the database gives it back.
ResultMessage(k, a) ==
  LET l == Limit(k)
  IN  IF MinSet(l) /\ a < l.min THEN "below"
      ELSE IF MaxSet(l) /\ a > l.max THEN "above" ELSE "passed"

\* What a line of a table may say, out of the result or without it: one message, or two if
\* the average lies half-way between two of four decimals.  The lines of STABLE have a
\* function of their own that says the same.
Messages(v, k) ==
  LET judged == {x \in v.result[k] : x.of # {}}
  IN  CASE judged # {} -> {ResultMessage(k, a) : a \in Shown(k[2], UNION {x.of : x \in judged})}
        [] judged = {} /\ (v.result[k] # None \/ v.stats[k] = {{}}) -> {"no samples"}
        [] OTHER -> {IF k[2] \in Limited(Parameters, k[1]) THEN "unknown" ELSE "no limit"}

\* _overall_result_label: whatever is neither passed nor aborted has failed.
Label(v) == IF v.status = "PASS" THEN "PASS" ELSE "FAILED"

Tables(v) == {k \in Keys : k[2] \in v.shown}

\* get_chart_groups has every active tag in some chart; each chart has a line for those of
\* the circuit, for two looks at the tags.
Charted(g) == {q \in Parameters : g[q] # "off"}
Lines(g, h) == Charted(g) \cap Codes(h)

\* _alert_points of the chart of the whole test, whose axis begins before the start of the
\* test and ends with its plan.  BeforeEnd is wrong on purpose.
Axis == (0 - Context) .. Horizon
BeforeEnd(marks, lines) == {x \in marks : x[2] \in lines /\ x[1].at \in Axis \ {Horizon}}
Marked(marks, lines) == {x \in marks : x[2] \in lines /\ x[1].at \in Axis}

-----------------------------------------------------------------------------
(* Reporters.                                                              *)

table == <<month, files, stamped>>
At(r, stage) == view[r].at = stage
Put(r, v) == view' = [view EXCEPT ![r] = v]
Then(r, stage) == [view[r] EXCEPT !.at = stage]

\* A step of an evaluation: a reporter that has not read the results yet is not alone any
\* more, unless the evaluation is its own.
Early == {"evaluate", "refresh", "definitions", "excursions", "results"}
Disturbed(e) ==
  [r \in Reporters |-> [view[r] EXCEPT !.alone = @ /\ (r = e \/ view[r].at \notin Early)]]
PutDisturbed(r, v) == view' = [Disturbed(r) EXCEPT ![r] = v]

\* reconcile_completed_result at the head of a page or of a report.  A download makes a
\* file unless one has been made before and the one asked for is there.
Needed(kind, p) == kind = "page" \/ stamped = {} \/ p \notin files
Open(r) ==
  /\ At(r, "none") /\ status # "DELETED"
  /\ \E kind \in Kinds, l \in Languages :
       LET v == [NoView EXCEPT !.kind = kind, !.path = <<l, month>>,
                               !.alone = \A e \in Evaluators : pc[e] = "idle"]
       IN  /\ Needed(kind, <<l, month>>)
           /\ \/ /\ status \in {"PASS", "FAIL"} /\ Begin(r)
                 /\ PutDisturbed(r, [v EXCEPT !.at = "evaluate"])
              \/ status = "ENDED" /\ UNCHANGED vars /\ Put(r, [v EXCEPT !.at = "definitions"])
  /\ UNCHANGED table

Evaluate(r) ==
  /\ At(r, "evaluate")
  /\ \/ /\ DeleteRows(r) \/ EnterPhase(r) \/ ReadValues(r) \/ CreateRow(r)
        /\ view' = Disturbed(r)
     \/ SaveVerdict(r) /\ PutDisturbed(r, Then(r, "refresh"))
     \/ (Refused(r) \/ Crash(r)) /\ PutDisturbed(r, NoView)
  /\ UNCHANGED table

reading == <<vars, table>>

\* refresh_from_db
Refresh(r) ==
  /\ At(r, "refresh")
  /\ \/ status # "DELETED" /\ Put(r, [Then(r, "definitions") EXCEPT !.status = status])
     \/ status = "DELETED" /\ Put(r, NoView)
  /\ UNCHANGED reading

\* get_parameter_definitions and _parameter_codes_for_test: two looks at the tags.
ReadDefinitions(r) ==
  /\ At(r, "definitions")
  /\ \E g, h \in Known :
       Put(r, [Then(r, "excursions") EXCEPT !.shown = {q \in Codes(g) : h[q] # "off"}])
  /\ UNCHANGED reading

\* Wrong on purpose: only the stable phase.
StableExcursions(r) ==
  /\ At(r, "excursions")
  /\ \E g \in Known :
       Put(r, [Then(r, "results") EXCEPT
                 !.excursions = {x \in Excursions(g) : x[1].phase = "STABLE"}])
  /\ UNCHANGED reading

ReadExcursions(r) ==
  /\ At(r, "excursions")
  /\ \E g \in Known :
       Put(r, [Then(r, "results") EXCEPT !.excursions = Excursions(g)])
  /\ UNCHANGED reading

ReadResults(r) ==
  /\ At(r, "results")
  /\ Put(r, [Then(r, IF view[r].shown = {} THEN "sheets" ELSE "statistics")
               EXCEPT !.result = [k \in Keys |-> ResultOf(k)]])
  /\ UNCHANGED reading

\* stable_stats and phase_stats, first of STABLE, then of START and of STOP.
Turn(k) == IF k[1] = 2 THEN 0 ELSE k[1]
Before(k, l) == Turn(k) < Turn(l) \/ (k[1] = l[1] /\ k[2] <= l[2])
ReadStatistics(r) ==
  /\ At(r, "statistics")
  /\ LET left == {k \in Tables(view[r]) : view[r].stats[k] = None}
     IN  \E k \in left, g \in Known :
           /\ \A l \in left : Before(k, l)
           /\ Put(r, [Then(r, IF left = {k} THEN "sheets" ELSE "statistics")
                        EXCEPT !.stats[k] = {Counted(k, g)}])
  /\ UNCHANGED reading

\* Wrong on purpose: the sheet of all samples is made first.
AllBefore(r) ==
  /\ At(r, "sheets")
  /\ LET n == Len(view[r].sheet)
     IN  \/ view[r].kind = "page" /\ Put(r, NoView)
         \/ view[r].kind = "file" /\ n = 3 /\ Put(r, Then(r, "draw"))
         \/ /\ view[r].kind = "file" /\ n < 3
            /\ Put(r, [view[r] EXCEPT !.sheet = Append(@, {s \in samples : s.phase = Phases[n + 1]}),
                                      !.all = IF n = 0 THEN samples ELSE @])
  /\ UNCHANGED reading

\* A page shows no samples.
ReadSheet(r) ==
  /\ At(r, "sheets")
  /\ LET n == Len(view[r].sheet)
     IN  \/ view[r].kind = "page" /\ Put(r, NoView)
         \/ view[r].kind = "file" /\ n = 3 /\ Put(r, Then(r, "all"))
         \/ /\ view[r].kind = "file" /\ n < 3
            /\ Put(r, [view[r] EXCEPT !.sheet = Append(@, {s \in samples : s.phase = Phases[n + 1]})])
  /\ UNCHANGED reading

ReadAll(r) ==
  /\ At(r, "all")
  /\ Put(r, [Then(r, "draw") EXCEPT !.all = samples])
  /\ UNCHANGED reading

\* build_phase_series: the samples, the excursions once more, and the lines.
ReadDrawn(r) ==
  /\ At(r, "draw")
  /\ Put(r, [Then(r, "mark") EXCEPT !.drawn = samples])
  /\ UNCHANGED reading

ReadMarks(r) ==
  /\ At(r, "mark")
  /\ \E f, g, h \in Known :
       Put(r, [Then(r, "write") EXCEPT !.marks = Marked(Excursions(f), Lines(g, h))])
  /\ UNCHANGED reading

\* The file, and then its path and time; the save fails if the test has gone.
\* StampFirst is wrong on purpose.
Stamp(r) == stamped' = IF status = "DELETED" THEN stamped ELSE {view[r].path}
StampFirst(r) ==
  /\ At(r, "write")
  /\ Put(r, Then(r, "stamp")) /\ Stamp(r)
  /\ UNCHANGED <<vars, month, files>>
WriteFile(r) ==
  /\ At(r, "write")
  /\ Put(r, Then(r, "stamp")) /\ files' = files \cup {view[r].path}
  /\ UNCHANGED <<vars, month, stamped>>

SaveStamp(r) ==
  /\ At(r, "stamp")
  /\ Put(r, NoView) /\ Stamp(r)
  /\ UNCHANGED <<vars, month, files>>

\* A reporter is killed after its evaluation; Crash has those killed in it.
Killed(r) ==
  /\ view[r].at \notin {"none", "evaluate"}
  /\ crashes < MaxCrashes
  /\ crashes' = crashes + 1
  /\ Put(r, NoView)
  /\ UNCHANGED <<test, status, samples, rows, registry, pc, mem, table>>

Report(r) ==
  \/ Open(r) \/ Evaluate(r) \/ Refresh(r) \/ ReadDefinitions(r) \/ ReadExcursions(r)
  \/ ReadResults(r) \/ ReadStatistics(r) \/ ReadSheet(r) \/ ReadAll(r) \/ ReadDrawn(r)
  \/ ReadMarks(r) \/ WriteFile(r) \/ SaveStamp(r) \/ Killed(r)

\* An evaluation of another process.
Other(e) ==
  /\ Step(e)
  /\ view' = Disturbed(e)
  /\ UNCHANGED table

\* The row of a test that is gone has no path.
DeleteWithPath ==
  /\ DeleteTest
  /\ stamped' = {}
  /\ UNCHANGED <<view, month, files>>

\* Only Open reads the month: it suffices that it turns between two reports.
NewMonth ==
  /\ month < MaxMonths /\ status # "DELETED"
  /\ \A r \in Reporters : At(r, "none")
  /\ month' = month + 1
  /\ UNCHANGED <<vars, view, files, stamped>>

ReportInit ==
  /\ Init
  /\ view = [r \in Reporters |-> NoView]
  /\ month = 0 /\ files = {} /\ stamped = {}

ReportNext ==
  \/ \E r \in Reporters : Report(r)
  \/ \E e \in Evaluators \ Reporters : Other(e)
  \/ (Arrive \/ EditTag) /\ UNCHANGED <<view, table>>
  \/ DeleteWithPath \/ NewMonth
  \/ Gone /\ (\A r \in Reporters : At(r, "none")) /\ UNCHANGED <<view, table>>

ReportSpec == ReportInit /\ [][ReportNext]_reportVars

-----------------------------------------------------------------------------
(* Properties.                                                             *)

Complete == {"sheets", "all", "draw", "mark", "write", "stamp"}
Finished == {"write", "stamp"}

\* What a page or a report says in its head and what its tables say is the same, although
\* it reads them apart and samples may arrive meanwhile: a test that has passed shows no
\* limit as failed, one that has failed at least one and says for each what is wrong, and
\* no limit is left without a verdict unless it has no samples; if no other evaluation of
\* the test overlaps and no tag is edited.  A limit shown as failed says that it has passed
\* in one case: if its average is shown as the limit itself, to which it was rounded.
OnLimit(v, k) ==
  \E x \in v.result[k], l \in {Limit(k)} : \E a \in Shown(k[2], x.of) :
    (MinSet(l) /\ a = l.min) \/ (MaxSet(l) /\ a = l.max)
HeadMatchesTables ==
  \A r \in Reporters : LET v == view[r] IN
    v.at \in Complete /\ v.alone /\ edits = 0 /\ v.status \in {"PASS", "FAIL"} /\ status # "DELETED" =>
      /\ Label(v) = "FAILED" <=> \E k \in Tables(v) : Cell(v, k) = "fail"
      /\ \A k \in Tables(v) : \A m \in Messages(v, k) :
           /\ m \in {"below", "above"} => Cell(v, k) = "fail"
           /\ Cell(v, k) = "fail" => m \in {"below", "above"} \/ (m = "passed" /\ OnLimit(v, k))
           /\ Cell(v, k) = "invalid" => m = "no samples"

\* A limit shown as failed has a sample beyond it in the list of excursions of the same
\* page or report; under the same conditions.
FailedIsListed ==
  \A r \in Reporters : LET v == view[r] IN
    v.at \in Complete /\ v.alone /\ edits = 0 /\ v.status \in {"PASS", "FAIL"} =>
      \A k \in Tables(v) : "fail" \in {Cell(v, k), StatCell(v, k)} =>
        \E x \in v.excursions : x[1].phase = Phases[k[1]] /\ x[2] = k[2]

\* A sample in that list is drawn in the charts of the same report and marked there, if it
\* is from within their axis: not from long before the start, from where a sync stores
\* samples as well, nor from after the planned end; whatever arrives and is evaluated
\* meanwhile.
ListedIsMarked ==
  \A r \in Reporters : LET v == view[r] IN
    v.at \in Finished /\ v.kind = "file" /\ edits = 0 /\ status # "DELETED" =>
      \A x \in v.excursions : x[1].at \in Axis => x[1] \in v.drawn /\ x \in v.marks

\* The average in a table, as it is shown there, lies between the minimum and the maximum
\* next to it, although it is an evaluation's and they are read later, whatever other
\* evaluations do meanwhile; values have no more decimals than an average that is shown.
AverageInRange ==
  \A r \in Reporters : LET v == view[r] IN
    edits = 0 /\ status # "DELETED" =>
      \A k \in Tables(v) : \A S \in Average(v, k), T \in v.stats[k] :
        S # {} =>
          \A a \in Shown(k[2], S) :
            /\ \E s \in T : s.value[k[2]] <= a
            /\ \E s \in T : s.value[k[2]] >= a

\* A sample in the sheet of a phase is in the sheet of all samples, also one that arrives
\* while the report is made.
SheetsAgree ==
  \A r \in Reporters : LET v == view[r] IN
    v.at \in Finished /\ v.kind = "file" /\ status # "DELETED" =>
      \A i \in DOMAIN v.sheet : v.sheet[i] \subseteq v.all

\* The path that a test has of a report is that of a file, whoever is killed while making
\* one, and however many are made in other languages and months.
PathHasFile == stamped \subseteq files
=============================================================================
