------------------------------ MODULE Evaluation ------------------------------
(***************************************************************************)
(* The result rows and the verdict of one test.  The supervisor evaluates  *)
(* a test that has come to its end, and every page and every report that   *)
(* shows a completed test evaluates it again: rows are deleted and made    *)
(* anew, one database statement at a time, by any number of processes at   *)
(* the same time, while samples may still arrive, tags be edited and the   *)
(* test be deleted.                                                        *)
(*                                                                         *)
(* Left out are names, units and messages; the rest of a test's life is in *)
(* TestLifecycle, where an evaluation is a single step.                    *)
(***************************************************************************)
EXTENDS PhaseLimits, Sequences, FiniteSets, FiniteSetsExt

CONSTANTS
  Evaluators,    \* supervisor, web and report processes
  Parameters,    \* codes of the tags, as numbers
  Scope,         \* circuit_scope of each tag
  Circuits,      \* CIRCUIT_1, CIRCUIT_2 or BOTH, as 1, 2 and 3
  Snapshots,     \* what limits_snapshot_json may hold
  FirstSamples,  \* what may have been stored when the test ended
  LateSamples,   \* what may still arrive
  MaxEdits,      \* bound: edits of the tags, more than a cache's age apart
  MaxCrashes     \* bound: processes killed

ASSUME ParametersAssumption == Parameters \subseteq Int /\ IsFiniteSet(Parameters)
ASSUME SamplesAssumption ==
  /\ FirstSamples \cap LateSamples = {} /\ IsFiniteSet(FirstSamples \cup LateSamples)
  /\ \A s \in FirstSamples \cup LateSamples, q \in Parameters : s.value[q] \in Int
ASSUME SnapshotsAssumption ==
  \A l \in Snapshots, q \in Parameters, phase \in {"START", "STABLE", "STOP"} :
    PhaseLimit(l[q], phase).min \in Int /\ PhaseLimit(l[q], phase).max \in Int

VARIABLES
  circuit,    \* TestRecord.selected_circuit
  limits,     \* TestRecord.limits_snapshot_json
  status,     \* TestRecord.status; "ENDED": RUNNING, with ended_at set
  samples,    \* the TestSample rows
  rows,       \* the TestEvaluationResult rows in the order of their keys
  tags,       \* what each tag is used for
  cached,     \* the tags before the last edit, which a process may still have in its cache
  pc,         \* where each process is
  mem,        \* its local variables
  edits,      \* edits of the tags so far
  crashes     \* processes killed so far

test == <<circuit, limits>>
registry == <<tags, cached, edits>>
vars == <<test, status, samples, rows, registry, pc, mem, crashes>>

-----------------------------------------------------------------------------
(* Tags, samples and limits.                                               *)

Phases == <<"START", "STABLE", "STOP">>
Keys == (1 .. 3) \X Parameters      \* phase and parameter of a row

Use == {"off", "shown", "judged"}   \* is_active, include_in_limits

\* get_tags: from the database, or from a cache that is at most five seconds old.
Known == {tags, cached}

\* get_parameter_definitions(include_limits_only=True)
Defined(g) == {q \in Parameters : g[q] = "judged"}

ScopesOf(c) ==
  {"shared"} \cup (IF c \in {1, 3} THEN {"circuit1"} ELSE {})
             \cup (IF c \in {2, 3} THEN {"circuit2"} ELSE {})
\* _parameter_codes
Codes(g) == {q \in Parameters : g[q] # "off" /\ Scope[q] \in ScopesOf(circuit)}

\* The parameters with a limit in phase i, out of the ones in S.
Limited(S, i) == {q \in S : HasActiveLimit(limits[q], Phases[i])}

Limit(k) == PhaseLimit(limits[k[2]], Phases[k[1]])

\* _is_valid: a tag that is not active has no validity bit to look at.
IsValid(s, q, g) == g[q] # "off" => q \in s.valid

\* phase_valid_values: the samples with a value that counts for a key.
Counted(k, g) ==
  {s \in samples : /\ s.phase = Phases[k[1]]
                   /\ IsValid(s, k[2], g) /\ s.value[k[2]] # NotSet}

Total(q, S) == MapThenSumSet(LAMBDA s : s.value[q], S)

MinSet(l) == l.minOn /\ l.min # NotSet
MaxSet(l) == l.maxOn /\ l.max # NotSet

\* Only the minimum is looked at; on purpose wrong.
MinimumOutcome(k, S) ==
  LET q == k[2]
      l == Limit(k)
  IN  IF S = {} THEN "none"
      ELSE IF MinSet(l) /\ Total(q, S) < l.min * Cardinality(S) THEN "fail" ELSE "pass"

\* _evaluate_single: the average of the values in S against the limit, multiplied out.
Outcome(k, S) ==
  LET q == k[2]
      l == Limit(k)
  IN  IF S = {} THEN "none"
      ELSE IF \/ MinSet(l) /\ Total(q, S) < l.min * Cardinality(S)
              \/ MaxSet(l) /\ Total(q, S) > l.max * Cardinality(S)
           THEN "fail" ELSE "pass"

\* LimitAnalysisService.analyze, for the tags g: single samples beyond a limit.
Excursions(g) ==
  {x \in samples \X (Defined(g) \cap Codes(g)) :
     LET s == x[1]
         q == x[2]
         l == PhaseLimit(limits[q], s.phase)
     IN  /\ IsValid(s, q, g) /\ s.value[q] # NotSet
         /\ HasActiveLimit(limits[q], s.phase)
         /\ \/ MinSet(l) /\ s.value[q] < l.min
            \/ MaxSet(l) /\ s.value[q] > l.max}

-----------------------------------------------------------------------------
Local == [defs : SUBSET Parameters, at : 1 .. 4, todo : SUBSET Parameters,
          of : SUBSET (FirstSamples \cup LateSamples), failed : BOOLEAN]
NoLocal == [defs |-> {}, at |-> 1, todo |-> {}, of |-> {}, failed |-> FALSE]

Init ==
  /\ circuit \in Circuits
  /\ limits \in Snapshots
  /\ status = "ENDED"
  /\ samples \in SUBSET FirstSamples
  /\ rows = << >>
  /\ tags = [q \in Parameters |-> "judged"]
  /\ cached = tags
  /\ pc = [e \in Evaluators |-> "idle"]
  /\ mem = [e \in Evaluators |-> NoLocal]
  /\ edits = 0 /\ crashes = 0

Go(e, where) == pc' = [pc EXCEPT ![e] = where]

Return(e) ==
  /\ Go(e, "idle")
  /\ mem' = [mem EXCEPT ![e] = NoLocal]

\* The parameter whose turn it is: the codes are sorted.
IsNext(e, q) == q \in mem[e].todo /\ \A r \in mem[e].todo : q <= r

\* The parameters to judge in the phase: the loop skips the others.
Enter(e, todo) ==
  \/ todo = {} /\ mem' = [mem EXCEPT ![e].at = @ + 1] /\ UNCHANGED pc
  \/ todo # {} /\ mem' = [mem EXCEPT ![e].todo = todo] /\ Go(e, "read")

outside == <<test, samples, registry, crashes>>

-----------------------------------------------------------------------------
(* Wrong variants of definitions below, for the properties to refute.      *)

\* The rows of the last evaluation are kept.
KeepRows(e) ==
  /\ pc[e] = "delete"
  /\ Go(e, "phase")
  /\ UNCHANGED <<outside, status, rows, mem>>

\* The loop ends before its last phase.
EnterTwoPhases(e) ==
  /\ pc[e] = "phase"
  /\ \/ mem[e].at > 2 /\ Go(e, "save") /\ UNCHANGED mem
     \/ /\ mem[e].at <= 2
        /\ \E g \in Known : Enter(e, Limited(Codes(g) \cap mem[e].defs, mem[e].at))
  /\ UNCHANGED <<outside, status, rows>>

\* The values are those of all phases.
ReadEveryPhase(e) ==
  /\ pc[e] = "read"
  /\ \E q \in Parameters, g \in Known :
       /\ IsNext(e, q)
       /\ mem' = [mem EXCEPT ![e].of = UNION {Counted(<<i, q>>, g) : i \in 1 .. 3}]
  /\ Go(e, "create")
  /\ UNCHANGED <<outside, status, rows>>

\* The last limit alone decides.
NextForgets(e, q) ==
  LET rest == mem[e].todo \ {q}
  IN  /\ mem' = [mem EXCEPT ![e].todo = rest, ![e].of = {},
                            ![e].at = IF rest = {} THEN @ + 1 ELSE @,
                            ![e].failed = Outcome(<<mem[e].at, q>>, mem[e].of) = "fail"]
      /\ Go(e, IF rest = {} THEN "phase" ELSE "read")

-----------------------------------------------------------------------------
(* evaluate                                                                *)

\* complete_test of a test that has just ended, or reconcile_completed_result.
Begin(e) ==
  /\ pc[e] = "idle"
  /\ status \in {"ENDED", "PASS", "FAIL"}
  /\ \E g \in Known : mem' = [mem EXCEPT ![e].defs = Defined(g)]
  /\ Go(e, "delete")
  /\ UNCHANGED <<outside, status, rows>>

DeleteRows(e) ==
  /\ pc[e] = "delete"
  /\ rows' = << >>
  /\ Go(e, "phase")
  /\ UNCHANGED <<outside, status, mem>>

\* The codes are looked up once for each phase, the definitions once.
EnterPhase(e) ==
  /\ pc[e] = "phase"
  /\ \/ mem[e].at > 3 /\ Go(e, "save") /\ UNCHANGED mem
     \/ /\ mem[e].at <= 3
        /\ \E g \in Known : Enter(e, Limited(Codes(g) \cap mem[e].defs, mem[e].at))
  /\ UNCHANGED <<outside, status, rows>>

ReadValues(e) ==
  /\ pc[e] = "read"
  /\ \E q \in Parameters, g \in Known :
       IsNext(e, q) /\ mem' = [mem EXCEPT ![e].of = Counted(<<mem[e].at, q>>, g)]
  /\ Go(e, "create")
  /\ UNCHANGED <<outside, status, rows>>

\* What is left to do after the row of q; a failure is never forgotten.
NextParameter(e, q) ==
  LET rest == mem[e].todo \ {q}
  IN  /\ mem' = [mem EXCEPT ![e].todo = rest, ![e].of = {},
                            ![e].at = IF rest = {} THEN @ + 1 ELSE @,
                            ![e].failed = @ \/ Outcome(<<mem[e].at, q>>, mem[e].of) = "fail"]
      /\ Go(e, IF rest = {} THEN "phase" ELSE "read")

\* A row keeps what it was judged on; avg_value is the average of that.
CreateRow(e) ==
  /\ pc[e] = "create"
  /\ status # "DELETED"
  /\ \E q \in Parameters :
       LET k == <<mem[e].at, q>>
       IN  /\ IsNext(e, q)
           /\ rows' = Append(rows, [by |-> e, key |-> k, of |-> mem[e].of,
                                    passed |-> Outcome(k, mem[e].of)])
           /\ NextParameter(e, q)
  /\ UNCHANGED <<outside, status>>

SaveVerdict(e) ==
  /\ pc[e] = "save"
  /\ status # "DELETED"
  /\ status' = IF mem[e].failed THEN "FAIL" ELSE "PASS"
  /\ Return(e)
  /\ UNCHANGED <<outside, rows>>

\* The foreign key of a row, or a save of named columns, of a test that is gone.
Refused(e) ==
  /\ pc[e] \in {"create", "save"}
  /\ status = "DELETED"
  /\ Return(e)
  /\ UNCHANGED <<outside, status, rows>>

Crash(e) ==
  /\ pc[e] # "idle"
  /\ crashes < MaxCrashes
  /\ crashes' = crashes + 1
  /\ Return(e)
  /\ UNCHANGED <<test, samples, registry, status, rows>>

-----------------------------------------------------------------------------
(* What goes on around.                                                    *)

\* history_sync and fast_poll store what they had in hand when the test ended.
Arrive ==
  /\ status # "DELETED"
  /\ \E s \in LateSamples \ samples : samples' = samples \cup {s}
  /\ UNCHANGED <<test, status, rows, registry, pc, mem, crashes>>

\* The settings page.
EditTag ==
  /\ edits < MaxEdits
  /\ \E q \in Parameters, u \in Use : u # tags[q] /\ tags' = [tags EXCEPT ![q] = u]
  /\ cached' = tags
  /\ edits' = edits + 1
  /\ UNCHANGED <<test, status, samples, rows, pc, mem, crashes>>

\* Rows and samples go with the test.
DeleteTest ==
  /\ status \in {"PASS", "FAIL"}
  /\ status' = "DELETED"
  /\ samples' = {} /\ rows' = << >>
  /\ UNCHANGED <<test, registry, pc, mem, crashes>>

Step(e) ==
  \/ Begin(e)
  \/ DeleteRows(e)
  \/ EnterPhase(e)
  \/ ReadValues(e)
  \/ CreateRow(e)
  \/ SaveVerdict(e)
  \/ Refused(e)
  \/ Crash(e)

Quiet == \A e \in Evaluators : pc[e] = "idle"

\* A test that is gone is left alone.
Gone == status = "DELETED" /\ Quiet /\ UNCHANGED vars

Next == (\E e \in Evaluators : Step(e)) \/ Arrive \/ EditTag \/ DeleteTest \/ Gone

Spec == Init /\ [][Next]_vars

-----------------------------------------------------------------------------
(* Properties.                                                             *)

Row == [by : Evaluators, key : Keys, of : SUBSET (FirstSamples \cup LateSamples),
        passed : {"pass", "fail", "none"}]

\* A process in a phase has something left to do there.
AtWork(e) == pc[e] \in {"read", "create"}

TypeOK ==
  /\ status \in {"ENDED", "PASS", "FAIL", "DELETED"}
  /\ samples \subseteq FirstSamples \cup LateSamples
  /\ rows \in Seq(Row)
  /\ tags \in [Parameters -> Use] /\ cached \in [Parameters -> Use]
  /\ pc \in [Evaluators -> {"idle", "delete", "phase", "read", "create", "save"}]
  /\ mem \in [Evaluators -> Local]
  /\ \A e \in Evaluators : AtWork(e) => mem[e].at <= 3 /\ mem[e].todo # {}
  /\ edits \in Nat /\ crashes \in Nat

\* However many evaluations overlap, each process has at most one row for a limit: there
\* are never more rows of a limit than processes, and one if evaluations do not overlap.
OneRowEach ==
  \A i, j \in 1 .. Len(rows) :
    rows[i].by = rows[j].by /\ rows[i].key = rows[j].key => i = j

\* The limits that are in force.
InForce == {k \in Keys : k[2] \in Limited(Codes(tags) \cap Defined(tags), k[1])}

HasRow(k) == \E i \in 1 .. Len(rows) : rows[i].key = k

\* Between two evaluations no limit in force is without its row, although each evaluation
\* deletes the rows of all others; as long as none was killed and no tag was edited.
NoRowMissing ==
  Quiet /\ status \in {"PASS", "FAIL"} /\ crashes = 0 /\ edits = 0 =>
    \A k \in InForce : HasRow(k)

\* The verdict is the one the samples give, whoever saves it last and whoever was killed
\* on the way, as long as no sample arrives late and no tag is edited.
Untouched == edits = 0 /\ samples \subseteq FirstSamples
VerdictOfSamples ==
  Untouched =>
    /\ status = "FAIL" => \E k \in InForce : Outcome(k, Counted(k, tags)) = "fail"
    /\ status = "PASS" => \A k \in InForce : Outcome(k, Counted(k, tags)) # "fail"

\* avg_value has four decimals, one unit here; the database rounds to the nearest.
Shown(q, S) ==
  LET n == Cardinality(S)
      d == Total(q, S) \div n
  IN  {a \in {d, d + 1} : 2 * (a * n - Total(q, S)) \in -n .. n}

\* What the database keeps of an average is rounded, but the verdict is of the exact one.
\* A row whose average is shown beyond a limit has failed all the same, and one whose
\* average is shown strictly within its limits has passed.  Only of an average shown as the
\* limit itself the row does not tell: it may have failed by less than half a unit.
Beyond(a, l) == (MinSet(l) /\ a < l.min) \/ (MaxSet(l) /\ a > l.max)
Within(a, l) == (MinSet(l) => a > l.min) /\ (MaxSet(l) => a < l.max)
ShownDecides ==
  \A i \in 1 .. Len(rows) :
    LET r == rows[i]
        l == Limit(r.key)
    IN  r.of # {} =>
          \A a \in Shown(r.key[2], r.of) :
            /\ Beyond(a, l) => r.passed = "fail"
            /\ Within(a, l) => r.passed = "pass"
=============================================================================
