--------------------------- MODULE EvaluationProofs ---------------------------
(***************************************************************************)
(* Proofs about Evaluation, for any number of processes, parameters and    *)
(* samples and any limits.  What an evaluation is worth is looked into     *)
(* only where averages are: elsewhere Outcome and Counted stay folded.     *)
(***************************************************************************)
EXTENDS Evaluation, FiniteSetTheorems, WellFoundedInduction, TLAPS

InLoop(e) == pc[e] \in {"phase", "read", "create"}

\* Process e has the row of key k behind it, in this evaluation.
Done(e, k) ==
  k[1] < mem[e].at \/ (AtWork(e) /\ k[1] = mem[e].at /\ k[2] \notin mem[e].todo)

\* Process e has the row of key k still before it.
Will(e, k) == pc[e] = "delete" \/ (InLoop(e) /\ ~ Done(e, k))

Bad(k) == Outcome(k, Counted(k, tags)) = "fail"

\* Every evaluation starts from the beginning and ends behind the last phase.
LoopInv ==
  \A e \in Evaluators :
    /\ pc[e] \in {"idle", "delete"} => mem[e].at = 1 /\ ~ mem[e].failed
    /\ pc[e] = "save" => mem[e].at = 4

Made(e, k) == \E i \in 1 .. Len(rows) : rows[i].by = e /\ rows[i].key = k

\* The rows of a process are behind it.
RowsInv == \A e \in Evaluators, k \in Keys : InLoop(e) /\ Made(e, k) => Done(e, k)

\* As long as no tag was edited, all processes agree on the limits in force.
TagsInv ==
  edits = 0 =>
    /\ cached = tags
    /\ \A e \in Evaluators :
         /\ pc[e] # "idle" => mem[e].defs = Defined(tags)
         /\ AtWork(e) => \A q \in mem[e].todo : <<mem[e].at, q>> \in InForce

\* Once an evaluation has begun, a limit without a row has a process that will make it.
CoverInv ==
  /\ edits = 0 /\ crashes = 0
  /\ status \in {"PASS", "FAIL"} \/ (status = "ENDED" /\ \E e \in Evaluators : pc[e] # "idle")
  => \A k \in InForce : HasRow(k) \/ \E e \in Evaluators : Will(e, k)

\* What a process has found so far, and has read, is what the samples say.
Found(e) == mem[e].failed <=> \E k \in InForce : Done(e, k) /\ Bad(k)
Held(e) ==
  pc[e] = "create" =>
    \A q \in Parameters : IsNext(e, q) => mem[e].of = Counted(<<mem[e].at, q>>, tags)

FoundInv ==
  Untouched /\ status # "DELETED" =>
    \A e \in Evaluators : pc[e] # "idle" => Found(e) /\ Held(e)

-----------------------------------------------------------------------------
(* Types.                                                                  *)

LEMMA InitTyped == Init => TypeOK
<1> SUFFICES ASSUME Init PROVE TypeOK
  OBVIOUS
<1>1. rows \in Seq(Row) /\ status \in {"ENDED", "PASS", "FAIL", "DELETED"}
  BY DEF Init
<1>2. tags \in [Parameters -> Use] /\ cached \in [Parameters -> Use]
  BY DEF Init, Use
<1>3. mem \in [Evaluators -> Local] /\ \A e \in Evaluators : ~ AtWork(e)
  BY DEF Init, Local, NoLocal, AtWork
<1>4. /\ samples \subseteq FirstSamples \cup LateSamples
      /\ pc \in [Evaluators -> {"idle", "delete", "phase", "read", "create", "save"}]
      /\ edits \in Nat /\ crashes \in Nat
  BY DEF Init
<1> QED
  BY <1>1, <1>2, <1>3, <1>4 DEF TypeOK

\* A step of one process leaves the memory of the others and the tags alone.
LEMMA OthersStay ==
  ASSUME TypeOK, NEW e \in Evaluators, Step(e)
  PROVE  /\ \A f \in Evaluators \ {e} : pc'[f] = pc[f] /\ mem'[f] = mem[f]
         /\ UNCHANGED <<test, samples, registry>>
<1>1. UNCHANGED <<test, samples, registry>>
  BY DEF Step, Begin, DeleteRows, EnterPhase, ReadValues, CreateRow, SaveVerdict, Refused,
         Crash, outside
<1>2. ASSUME NEW f \in Evaluators \ {e} PROVE pc'[f] = pc[f]
  BY <1>2 DEF Step, Begin, DeleteRows, EnterPhase, Enter, ReadValues, CreateRow, NextParameter,
              SaveVerdict, Refused, Crash, Go, Return, TypeOK
<1>3. ASSUME NEW f \in Evaluators \ {e} PROVE mem'[f] = mem[f]
  BY <1>3 DEF Step, Begin, DeleteRows, EnterPhase, Enter, ReadValues, CreateRow, NextParameter,
              SaveVerdict, Refused, Crash, Go, Return, TypeOK
<1> QED
  BY <1>1, <1>2, <1>3

\* What the steps of a process do to its own memory.
Judges(e, q) ==
  LET m == mem[e]
      n == mem'[e]
  IN  /\ n.defs = m.defs
      /\ n.todo = m.todo \ {q}
      /\ n.at = IF n.todo = {} THEN m.at + 1 ELSE m.at
      /\ n.failed = (m.failed \/ Outcome(<<m.at, q>>, m.of) = "fail")
      /\ pc'[e] = IF n.todo = {} THEN "phase" ELSE "read"

LEMMA NextTurn ==
  ASSUME TypeOK, NEW e \in Evaluators, NEW q, NextParameter(e, q)
  PROVE  Judges(e, q) /\ mem'[e].of = {}
<1>1. mem[e] \in Local /\ mem[e].at \in 1 .. 4
  BY DEF TypeOK, Local
<1> QED
  BY <1>1 DEF NextParameter, Judges, Go, TypeOK, Local

LEMMA EnterTurn ==
  ASSUME TypeOK, NEW e \in Evaluators, NEW todo, Enter(e, todo)
  PROVE  /\ mem'[e].defs = mem[e].defs /\ mem'[e].of = mem[e].of
         /\ mem'[e].failed = mem[e].failed
         /\ todo = {} => mem'[e].at = mem[e].at + 1 /\ pc'[e] = pc[e]
         /\ todo # {} => mem'[e].at = mem[e].at /\ mem'[e].todo = todo /\ pc'[e] = "read"
<1>1. mem[e] \in Local
  BY DEF TypeOK
<1> QED
  BY <1>1 DEF Enter, Go, TypeOK, Local

Steps == {"idle", "delete", "phase", "read", "create", "save"}

LEMMA GoTyped ==
  ASSUME TypeOK, NEW e \in Evaluators, NEW w \in Steps, NEW m \in Local,
         Go(e, w), mem' = [mem EXCEPT ![e] = m],
         w \in {"read", "create"} => m.at <= 3 /\ m.todo # {}
  PROVE  /\ pc' \in [Evaluators -> Steps]
         /\ mem' \in [Evaluators -> Local]
         /\ \A f \in Evaluators : AtWork(f)' => mem'[f].at <= 3 /\ mem'[f].todo # {}
<1>1. pc' \in [Evaluators -> Steps] /\ mem' \in [Evaluators -> Local]
  BY DEF TypeOK, Go, Steps
<1>2. ASSUME NEW f \in Evaluators, AtWork(f)' PROVE mem'[f].at <= 3 /\ mem'[f].todo # {}
  <2>1. CASE f = e
    BY <1>2, <2>1 DEF TypeOK, Go, AtWork
  <2>2. CASE f # e
    BY <1>2, <2>2 DEF TypeOK, Go, AtWork
  <2> QED BY <2>1, <2>2
<1> QED BY <1>1, <1>2

LEMMA ReturnTyped ==
  ASSUME TypeOK, NEW e \in Evaluators, Return(e)
  PROVE  /\ pc' \in [Evaluators -> Steps]
         /\ mem' \in [Evaluators -> Local]
         /\ \A f \in Evaluators : AtWork(f)' => mem'[f].at <= 3 /\ mem'[f].todo # {}
<1>1. NoLocal \in Local
  BY DEF NoLocal, Local
<1> QED
  BY <1>1, GoTyped DEF Return, Steps

\* What a process keeps in mind after a step, given as the record it is.
LEMMA LocalTyped ==
  ASSUME TypeOK, NEW e \in Evaluators
  PROVE  /\ mem[e] \in Local
         /\ mem[e].at \in 1 .. 4 /\ mem[e].todo \subseteq Parameters
         /\ mem[e].of \subseteq FirstSamples \cup LateSamples
         /\ AtWork(e) => mem[e].at \in 1 .. 3 /\ mem[e].todo # {}
BY DEF TypeOK, Local

LEMMA StepTyped ==
  ASSUME TypeOK, NEW e \in Evaluators, Step(e)
  PROVE  /\ pc' \in [Evaluators -> Steps]
         /\ mem' \in [Evaluators -> Local]
         /\ \A f \in Evaluators : AtWork(f)' => mem'[f].at <= 3 /\ mem'[f].todo # {}
<1>1. CASE Begin(e)
  <2> PICK g \in Known : mem' = [mem EXCEPT ![e].defs = Defined(g)]
    BY <1>1 DEF Begin
  <2>1. [mem[e] EXCEPT !.defs = Defined(g)] \in Local
    BY LocalTyped DEF Local, Defined
  <2>2. mem' = [mem EXCEPT ![e] = [mem[e] EXCEPT !.defs = Defined(g)]]
    BY DEF TypeOK
  <2> QED BY <1>1, <2>1, <2>2, GoTyped DEF Begin, Steps
<1>2. CASE DeleteRows(e)
  <2>1. mem' = [mem EXCEPT ![e] = mem[e]]
    BY <1>2 DEF DeleteRows, TypeOK
  <2> QED BY <1>2, <2>1, LocalTyped, GoTyped DEF DeleteRows, Steps
<1>3. CASE EnterPhase(e)
  <2>1. CASE mem[e].at > 3 /\ Go(e, "save") /\ UNCHANGED mem
    <3>1. mem' = [mem EXCEPT ![e] = mem[e]]
      BY <2>1 DEF TypeOK
    <3> QED BY <2>1, <3>1, LocalTyped, GoTyped DEF Steps
  <2>2. CASE mem[e].at <= 3
    <3>0. \E g \in Known : Enter(e, Limited(Codes(g) \cap mem[e].defs, mem[e].at))
      BY <1>3, <2>2, LocalTyped DEF EnterPhase
    <3> PICK g \in Known : Enter(e, Limited(Codes(g) \cap mem[e].defs, mem[e].at))
      BY <3>0
    <3> DEFINE todo == Limited(Codes(g) \cap mem[e].defs, mem[e].at)
    <3>1. todo \subseteq Parameters
      BY DEF Limited, Codes
    <3> HIDE DEF todo
    <3>2. CASE todo = {}
      <4>1. mem' = [mem EXCEPT ![e] = [mem[e] EXCEPT !.at = @ + 1]] /\ UNCHANGED pc
        BY <3>2 DEF todo, Enter, TypeOK
      <4>2. [mem[e] EXCEPT !.at = @ + 1] \in Local
        BY <2>2, LocalTyped DEF Local
      <4>3. Go(e, "phase")
        BY <1>3, <4>1 DEF EnterPhase, Go, TypeOK
      <4> QED BY <4>1, <4>2, <4>3, GoTyped DEF Steps
    <3>3. CASE todo # {}
      <4>1. mem' = [mem EXCEPT ![e] = [mem[e] EXCEPT !.todo = todo]] /\ Go(e, "read")
        BY <3>3 DEF todo, Enter, TypeOK
      <4>2. [mem[e] EXCEPT !.todo = todo] \in Local
        BY <3>1, LocalTyped DEF Local
      <4>3. /\ [mem[e] EXCEPT !.todo = todo].at <= 3
            /\ [mem[e] EXCEPT !.todo = todo].todo # {}
        BY <2>2, <3>3, LocalTyped DEF Local
      <4> QED BY <4>1, <4>2, <4>3, GoTyped DEF Steps
    <3> QED BY <3>2, <3>3
  <2> QED BY <1>3, <2>1, <2>2 DEF EnterPhase
<1>4. CASE ReadValues(e)
  <2> PICK q \in Parameters, g \in Known :
        mem' = [mem EXCEPT ![e].of = Counted(<<mem[e].at, q>>, g)]
    BY <1>4 DEF ReadValues
  <2> DEFINE of == Counted(<<mem[e].at, q>>, g)
  <2>1. of \subseteq FirstSamples \cup LateSamples
    BY DEF Counted, TypeOK
  <2>2. mem' = [mem EXCEPT ![e] = [mem[e] EXCEPT !.of = of]]
    BY DEF TypeOK
  <2> HIDE DEF of
  <2>3. [mem[e] EXCEPT !.of = of] \in Local
    BY <2>1, LocalTyped DEF Local
  <2>4. [mem[e] EXCEPT !.of = of].at <= 3 /\ [mem[e] EXCEPT !.of = of].todo # {}
    BY <1>4, LocalTyped DEF ReadValues, AtWork, Local
  <2> QED BY <1>4, <2>2, <2>3, <2>4, GoTyped DEF ReadValues, Steps
<1>5. CASE CreateRow(e)
  <2> PICK q \in Parameters : NextParameter(e, q)
    BY <1>5 DEF CreateRow
  <2> DEFINE rest == mem[e].todo \ {q}
             at == IF rest = {} THEN mem[e].at + 1 ELSE mem[e].at
             bad == mem[e].failed \/ Outcome(<<mem[e].at, q>>, mem[e].of) = "fail"
             m == [mem[e] EXCEPT !.todo = rest, !.of = {}, !.at = at, !.failed = bad]
  <2>1. AtWork(e)
    BY <1>5 DEF CreateRow, AtWork
  <2>2. rest \subseteq Parameters /\ at \in 1 .. 4 /\ bad \in BOOLEAN
        /\ (rest # {} => at <= 3)
    BY <2>1, LocalTyped DEF Local
  <2>3. mem' = [mem EXCEPT ![e] = m] /\ Go(e, IF rest = {} THEN "phase" ELSE "read")
    BY DEF NextParameter, TypeOK
  <2>4. m \in Local /\ m.at = at /\ m.todo = rest
    <3> HIDE DEF rest, at, bad
    <3> QED BY <2>2, LocalTyped DEF Local
  <2> HIDE DEF m, rest, at, bad
  <2> QED BY <2>2, <2>3, <2>4, GoTyped DEF Steps
<1>6. CASE SaveVerdict(e) \/ Refused(e) \/ Crash(e)
  BY <1>6, ReturnTyped DEF SaveVerdict, Refused, Crash
<1> QED
  BY <1>1, <1>2, <1>3, <1>4, <1>5, <1>6 DEF Step

LEMMA StepTyped2 ==
  ASSUME TypeOK, NEW e \in Evaluators, Step(e)
  PROVE  /\ status' \in {"ENDED", "PASS", "FAIL", "DELETED"}
         /\ rows' \in Seq(Row) /\ crashes' \in Nat
<1>1. status' \in {"ENDED", "PASS", "FAIL", "DELETED"}
  BY DEF Step, Begin, DeleteRows, EnterPhase, ReadValues, CreateRow, SaveVerdict, Refused,
         Crash, TypeOK
<1>2. rows' \in Seq(Row)
  <2>1. CASE CreateRow(e)
    <3> PICK q \in Parameters :
          rows' = Append(rows, [by |-> e, key |-> <<mem[e].at, q>>, of |-> mem[e].of,
                                passed |-> Outcome(<<mem[e].at, q>>, mem[e].of)])
      BY <2>1 DEF CreateRow
    <3>1. <<mem[e].at, q>> \in Keys
      BY <2>1, LocalTyped DEF CreateRow, AtWork, Keys
    <3>2. Outcome(<<mem[e].at, q>>, mem[e].of) \in {"pass", "fail", "none"}
      BY DEF Outcome
    <3>3. [by |-> e, key |-> <<mem[e].at, q>>, of |-> mem[e].of,
           passed |-> Outcome(<<mem[e].at, q>>, mem[e].of)] \in Row
      BY <3>1, <3>2, LocalTyped DEF Row
    <3> QED BY <3>3 DEF TypeOK
  <2>2. CASE ~ CreateRow(e)
    <3>1. rows' = rows \/ rows' = << >>
      BY <2>2 DEF Step, Begin, DeleteRows, EnterPhase, ReadValues, SaveVerdict, Refused, Crash
    <3>2. << >> \in Seq(Row)
      OBVIOUS
    <3>3. rows \in Seq(Row)
      BY DEF TypeOK
    <3> QED BY <3>1, <3>2, <3>3
  <2> QED BY <2>1, <2>2
<1>3. crashes' \in Nat
  BY DEF Step, Begin, DeleteRows, EnterPhase, ReadValues, CreateRow, SaveVerdict, Refused,
         Crash, outside, TypeOK
<1> QED BY <1>1, <1>2, <1>3

LEMMA NextTyped == TypeOK /\ [Next]_vars => TypeOK'
<1> SUFFICES ASSUME TypeOK, [Next]_vars PROVE TypeOK'
  OBVIOUS
<1>1. ASSUME NEW e \in Evaluators, Step(e) PROVE TypeOK'
  BY <1>1, StepTyped, StepTyped2, OthersStay DEF TypeOK, registry, Steps
<1>2. CASE Arrive
  BY <1>2 DEF Arrive, TypeOK, registry, AtWork
<1>3. CASE EditTag
  BY <1>3 DEF EditTag, TypeOK, AtWork
<1>4. CASE DeleteTest
  <2>1. rows' \in Seq(Row)
    BY <1>4 DEF DeleteTest
  <2> QED BY <1>4, <2>1 DEF DeleteTest, TypeOK, registry, AtWork
<1>5. CASE UNCHANGED vars
  BY <1>5 DEF vars, registry, TypeOK, AtWork
<1> QED BY <1>1, <1>2, <1>3, <1>4, <1>5 DEF Next, Gone

\* Every variable keeps its type, and a process in the midst of a phase has a limit to
\* judge (TestEvaluationService.evaluate).
THEOREM EvaluationTypeCorrect == Spec => []TypeOK
BY InitTyped, NextTyped, PTL DEF Spec

-----------------------------------------------------------------------------
(* One row for each process and limit.                                     *)

OneInv == LoopInv /\ RowsInv /\ OneRowEach

\* What the environment does is no step of a process.
Around == UNCHANGED <<pc, mem>> /\ (Arrive \/ EditTag \/ DeleteTest \/ UNCHANGED vars)

LEMMA NextCases ==
  ASSUME [Next]_vars
  PROVE  (\E e \in Evaluators : Step(e)) \/ Around
BY DEF Next, Around, Arrive, EditTag, DeleteTest, Gone, vars

LEMMA LoopStep ==
  ASSUME TypeOK, LoopInv, NEW e \in Evaluators, Step(e)
  PROVE  LoopInv'
<1>1. /\ pc'[e] \in {"idle", "delete"} => mem'[e].at = 1 /\ ~ mem'[e].failed
      /\ pc'[e] = "save" => mem'[e].at = 4
  <2>0. mem[e].at \in 1 .. 4 /\ mem[e].failed \in BOOLEAN
    BY DEF TypeOK, Local
  <2>1. CASE Begin(e)
    BY <2>1 DEF Begin, LoopInv, TypeOK, Local, Go
  <2>2. CASE EnterPhase(e)
    <3>1. pc'[e] \in {"phase", "read"} \/ (mem'[e] = mem[e] /\ mem[e].at > 3 /\ pc'[e] = "save")
      BY <2>2 DEF EnterPhase, Enter, TypeOK, Go
    <3> QED BY <2>0, <3>1
  <2>3. CASE CreateRow(e)
    BY <2>0, <2>3, NextTurn DEF CreateRow, Judges
  <2>4. CASE DeleteRows(e) \/ ReadValues(e)
    BY <2>4 DEF DeleteRows, ReadValues, TypeOK, Go
  <2>5. CASE SaveVerdict(e) \/ Refused(e) \/ Crash(e)
    BY <2>5 DEF SaveVerdict, Refused, Crash, Return, Go, TypeOK, NoLocal
  <2> QED BY <2>1, <2>2, <2>3, <2>4, <2>5 DEF Step
<1> QED BY <1>1, OthersStay DEF LoopInv

\* What is behind a process stays behind it until it begins again.
LEMMA DoneStays ==
  ASSUME TypeOK, NEW e \in Evaluators, Step(e), NEW f \in Evaluators, NEW k \in Keys,
         InLoop(f), InLoop(f)', Done(f, k)
  PROVE  Done(f, k)'
<1>1. CASE f # e
  BY <1>1, OthersStay DEF Done, AtWork
<1>2. CASE f = e
  <2>0. mem[e].at \in 1 .. 4 /\ k[1] \in 1 .. 3
    BY DEF TypeOK, Local, Keys
  <2>1. CASE EnterPhase(e)
    <3>1. Done(e, k) => k[1] < mem[e].at
      BY <2>1 DEF EnterPhase, Done, AtWork
    <3>2. mem'[e].at \in {mem[e].at, mem[e].at + 1}
      BY <2>0, <2>1, EnterTurn DEF EnterPhase
    <3> QED BY <1>2, <2>0, <3>1, <3>2 DEF Done
  <2>2. CASE ReadValues(e)
    BY <1>2, <2>0, <2>2 DEF ReadValues, Done, AtWork, TypeOK, Go
  <2>3. CASE CreateRow(e)
    BY <1>2, <2>0, <2>3, NextTurn DEF CreateRow, Judges, Done, AtWork
  <2>4. CASE Begin(e) \/ DeleteRows(e) \/ SaveVerdict(e) \/ Refused(e) \/ Crash(e)
    BY <1>2, <2>4 DEF Begin, DeleteRows, SaveVerdict, Refused, Crash, Return, Go, InLoop, TypeOK
  <2> QED BY <2>1, <2>2, <2>3, <2>4 DEF Step
<1> QED BY <1>1, <1>2

\* A process in its loop was there before, or has just deleted all rows.
LEMMA LoopEntered ==
  ASSUME TypeOK, NEW e \in Evaluators, Step(e), ~ DeleteRows(e),
         NEW f \in Evaluators, InLoop(f)'
  PROVE  InLoop(f)
<1>1. CASE f # e
  BY <1>1, OthersStay DEF InLoop
<1>2. CASE f = e
  BY <1>2 DEF Step, Begin, EnterPhase, Enter, ReadValues, CreateRow, NextParameter, SaveVerdict,
              Refused, Crash, Return, Go, InLoop, TypeOK
<1> QED BY <1>1, <1>2

\* The rows there were, and the one that is made.
NewRow(e, q) ==
  [by |-> e, key |-> <<mem[e].at, q>>, of |-> mem[e].of,
   passed |-> Outcome(<<mem[e].at, q>>, mem[e].of)]

LEMMA RowsAfter ==
  ASSUME TypeOK, NEW e \in Evaluators, Step(e)
  PROVE  \/ UNCHANGED rows /\ ~ DeleteRows(e)
         \/ rows' = << >> /\ DeleteRows(e)
         \/ \E q \in Parameters :
              /\ pc[e] = "create" /\ q \in mem[e].todo /\ <<mem[e].at, q>> \in Keys
              /\ NextParameter(e, q) /\ Judges(e, q) /\ IsNext(e, q) /\ status # "DELETED"
              /\ rows' = Append(rows, NewRow(e, q)) /\ ~ DeleteRows(e)
<1>1. CASE CreateRow(e)
  <2> PICK q \in Parameters :
        IsNext(e, q) /\ rows' = Append(rows, NewRow(e, q)) /\ NextParameter(e, q)
    BY <1>1 DEF CreateRow, NewRow
  <2>1. <<mem[e].at, q>> \in Keys
    BY <1>1, LocalTyped DEF CreateRow, AtWork, Keys
  <2> QED BY <1>1, <2>1, NextTurn DEF CreateRow, DeleteRows, IsNext
<1>2. CASE ~ CreateRow(e)
  BY <1>2 DEF Step, Begin, DeleteRows, EnterPhase, ReadValues, SaveVerdict, Refused, Crash
<1> QED BY <1>1, <1>2

LEMMA RowsStep ==
  ASSUME TypeOK, OneInv, NEW e \in Evaluators, Step(e)
  PROVE  RowsInv' /\ OneRowEach'
<1>0. rows \in Seq(Row)
  BY DEF TypeOK
<1>a. \A i \in 1 .. Len(rows) : rows[i] \in Row
  BY <1>0
<1>b. ASSUME ~ DeleteRows(e), NEW f \in Evaluators, NEW k \in Keys, Made(f, k), InLoop(f)'
      PROVE  Done(f, k)'
  <2>1. InLoop(f) /\ Done(f, k)
    BY <1>b, LoopEntered DEF OneInv, RowsInv
  <2> QED BY <1>b, <2>1, DoneStays
<1>1. CASE UNCHANGED rows /\ ~ DeleteRows(e)
  <2>1. \A f, k : Made(f, k)' = Made(f, k)
    BY <1>1 DEF Made
  <2> QED BY <1>1, <1>b, <2>1 DEF RowsInv, OneInv, OneRowEach
<1>2. CASE rows' = << >>
  BY <1>2 DEF RowsInv, Made, OneRowEach
<1>3. ASSUME NEW q \in Parameters, pc[e] = "create", q \in mem[e].todo,
             <<mem[e].at, q>> \in Keys,
             Judges(e, q), rows' = Append(rows, NewRow(e, q)), ~ DeleteRows(e)
      PROVE  RowsInv' /\ OneRowEach'
  <2>1. /\ Len(rows') = Len(rows) + 1 /\ Len(rows) \in Nat
        /\ \A i \in 1 .. Len(rows) : rows'[i] = rows[i]
        /\ rows'[Len(rows) + 1] = NewRow(e, q)
    BY <1>0, <1>3
  <2>2. NewRow(e, q).by = e /\ NewRow(e, q).key = <<mem[e].at, q>>
    BY DEF NewRow
  <2>3. ASSUME NEW k, k = <<mem[e].at, q>> PROVE Done(e, k)' /\ ~ Done(e, k)
    <3>1. mem[e].at \in 1 .. 4
      BY LocalTyped
    <3> QED BY <1>3, <2>3, <3>1 DEF Judges, Done, AtWork
  <2>4. ~ Made(e, <<mem[e].at, q>>)
    BY <1>3, <2>3 DEF OneInv, RowsInv, InLoop
  <2>5. ASSUME NEW f, NEW k, Made(f, k)' PROVE Made(f, k) \/ (f = e /\ k = <<mem[e].at, q>>)
    <3> PICK i \in 1 .. Len(rows') : rows'[i].by = f /\ rows'[i].key = k
      BY <2>5 DEF Made
    <3>1. CASE i \in 1 .. Len(rows)
      BY <2>1, <3>1 DEF Made
    <3>2. CASE i = Len(rows) + 1
      BY <2>1, <2>2, <3>2
    <3> QED BY <2>1, <3>1, <3>2
  <2>6. RowsInv'
    BY <1>3, <1>b, <2>3, <2>5 DEF RowsInv
  <2>7. OneRowEach'
    <3> SUFFICES ASSUME NEW i \in 1 .. Len(rows'), NEW j \in 1 .. Len(rows'),
                        rows'[i].by = rows'[j].by, rows'[i].key = rows'[j].key
                 PROVE  i = j
      BY DEF OneRowEach
    <3>1. CASE i \in 1 .. Len(rows) /\ j \in 1 .. Len(rows)
      BY <2>1, <3>1 DEF OneInv, OneRowEach
    <3>2. CASE i = Len(rows) + 1 \/ j = Len(rows) + 1
      BY <2>1, <2>2, <2>4, <3>2 DEF Made
    <3> QED BY <2>1, <3>1, <3>2
  <2> QED BY <2>6, <2>7
<1> QED BY <1>1, <1>2, <1>3, RowsAfter

LEMMA OneStep == TypeOK /\ OneInv /\ [Next]_vars => OneInv'
<1> SUFFICES ASSUME TypeOK, OneInv, [Next]_vars PROVE OneInv'
  OBVIOUS
<1>1. ASSUME NEW e \in Evaluators, Step(e) PROVE OneInv'
  BY <1>1, LoopStep, RowsStep DEF OneInv
<1>2. CASE Around
  <2>1. LoopInv'
    BY <1>2 DEF OneInv, LoopInv, Around
  <2>2. CASE rows' = rows
    BY <1>2, <2>1, <2>2 DEF OneInv, Around, RowsInv, Made, OneRowEach, InLoop, Done, AtWork
  <2>3. CASE rows' = << >>
    BY <2>1, <2>3 DEF OneInv, RowsInv, Made, OneRowEach
  <2> QED
    BY <1>2, <2>2, <2>3 DEF Around, Arrive, EditTag, DeleteTest, vars
<1> QED BY <1>1, <1>2, NextCases

LEMMA InitOne == Init => OneInv
<1> SUFFICES ASSUME Init PROVE OneInv
  OBVIOUS
<1>1. LoopInv
  BY DEF Init, LoopInv, NoLocal
<1>2. Len(rows) = 0
  BY DEF Init
<1> QED BY <1>1, <1>2 DEF OneInv, RowsInv, Made, OneRowEach

\* However many evaluations overlap, a process never makes a second row for a limit without
\* having deleted the first (TestEvaluationService.evaluate).
THEOREM OneRowForEach == Spec => []OneRowEach
<1>1. OneInv => OneRowEach
  BY DEF OneInv
<1> QED
  BY <1>1, InitOne, OneStep, EvaluationTypeCorrect, PTL DEF Spec

-----------------------------------------------------------------------------
(* The limits in force, and what the processes know of them.               *)

LEMMA ForceStays ==
  ASSUME UNCHANGED <<test, tags>> PROVE UNCHANGED InForce
BY DEF test, InForce, Limited, Codes, Defined, ScopesOf

LEMMA BadStays ==
  ASSUME UNCHANGED <<test, tags, samples>>, NEW k PROVE Bad(k)' = Bad(k)
<1>1. UNCHANGED Counted(k, tags)
  BY DEF Counted, IsValid
<1> QED
  BY <1>1 DEF Bad, Outcome, Limit, test

\* Without edits, a process looks at the limits in force.
LEMMA InForceAt ==
  ASSUME TypeOK, TagsInv, edits = 0, NEW e \in Evaluators, pc[e] # "idle", NEW g \in Known,
         mem[e].at \in 1 .. 3
  PROVE  Limited(Codes(g) \cap mem[e].defs, mem[e].at)
           = {q \in Parameters : <<mem[e].at, q>> \in InForce}
<1>1. g = tags /\ mem[e].defs = Defined(tags)
  BY DEF TagsInv, Known
<1> QED
  BY <1>1 DEF InForce, Keys, Limited, Codes, Defined

LEMMA TagsStep ==
  ASSUME TypeOK, TagsInv, NEW e \in Evaluators, Step(e)
  PROVE  TagsInv'
<1>0. UNCHANGED <<test, tags, cached, edits, InForce>>
  BY OthersStay, ForceStays DEF registry
<1> SUFFICES ASSUME edits = 0
             PROVE  /\ pc'[e] # "idle" => mem'[e].defs = Defined(tags)
                    /\ AtWork(e)' => \A q \in mem'[e].todo : <<mem'[e].at, q>> \in InForce
  BY <1>0, OthersStay DEF TagsInv, AtWork, Defined
<1>1. CASE Begin(e)
  BY <1>1 DEF Begin, Known, TagsInv, TypeOK, Local, Go, AtWork
<1>2. CASE EnterPhase(e)
  <2>1. CASE mem[e].at > 3
    BY <1>2, <2>1, LocalTyped DEF EnterPhase, Go, TagsInv, AtWork, TypeOK
  <2>2. CASE mem[e].at <= 3
    <3> PICK g \in Known : Enter(e, Limited(Codes(g) \cap mem[e].defs, mem[e].at))
      BY <1>2, <2>2, LocalTyped DEF EnterPhase
    <3>1. Limited(Codes(g) \cap mem[e].defs, mem[e].at)
            = {q \in Parameters : <<mem[e].at, q>> \in InForce}
      BY <1>2, <2>2, LocalTyped, InForceAt DEF EnterPhase
    <3> DEFINE todo == Limited(Codes(g) \cap mem[e].defs, mem[e].at)
    <3> HIDE DEF todo
    <3>2. Enter(e, todo) /\ todo = {q \in Parameters : <<mem[e].at, q>> \in InForce}
      BY <3>1 DEF todo
    <3>3. mem[e].defs = Defined(tags)
      BY <1>2 DEF TagsInv, EnterPhase
    <3> QED BY <1>2, <3>2, <3>3, EnterTurn DEF EnterPhase, AtWork
  <2> QED BY <2>1, <2>2, LocalTyped
<1>3. CASE CreateRow(e)
  <2> PICK q \in Parameters : Judges(e, q)
    BY <1>3, NextTurn DEF CreateRow
  <2> QED BY <1>3 DEF CreateRow, Judges, TagsInv, AtWork
<1>4. CASE DeleteRows(e)
  BY <1>4 DEF DeleteRows, TagsInv, AtWork, TypeOK, Go
<1>5. CASE ReadValues(e)
  BY <1>5 DEF ReadValues, TagsInv, AtWork, TypeOK, Local, Go
<1>6. CASE SaveVerdict(e) \/ Refused(e) \/ Crash(e)
  BY <1>6 DEF SaveVerdict, Refused, Crash, Return, Go, TypeOK, AtWork
<1> QED BY <1>1, <1>2, <1>3, <1>4, <1>5, <1>6 DEF Step

LEMMA TagsAround == ASSUME TypeOK, TagsInv, Around PROVE TagsInv'
<1>1. CASE UNCHANGED <<test, tags, cached, edits>>
  BY <1>1, ForceStays DEF Around, TagsInv, AtWork, Defined
<1>2. CASE EditTag
  BY <1>2 DEF EditTag, TagsInv, TypeOK
<1> QED
  BY <1>1, <1>2 DEF Around, Arrive, DeleteTest, registry, vars

-----------------------------------------------------------------------------
(* What a step puts behind a process.                                      *)

LEMMA EnterDone ==
  ASSUME TypeOK, TagsInv, edits = 0, NEW e \in Evaluators, EnterPhase(e), NEW k \in InForce
  PROVE  /\ Done(e, k)' = Done(e, k) /\ (~ Done(e, k) => InLoop(e)')
         /\ mem'[e].failed = mem[e].failed
<1>0. k[1] \in 1 .. 3 /\ k[2] \in Parameters /\ mem[e].at \in 1 .. 4 /\ k = <<k[1], k[2]>>
  BY LocalTyped DEF InForce, Keys
<1>1. CASE mem[e].at > 3
  <2>1. Done(e, k) /\ mem' = mem
    BY <1>0, <1>1 DEF EnterPhase, Done
  <2> QED BY <1>0, <1>1, <2>1 DEF Done
<1>2. CASE mem[e].at <= 3
  <2> PICK g \in Known : Enter(e, Limited(Codes(g) \cap mem[e].defs, mem[e].at))
    BY <1>2, LocalTyped DEF EnterPhase
  <2>0. pc[e] # "idle" /\ mem[e].at \in 1 .. 3
    BY <1>0, <1>2 DEF EnterPhase
  <2>1. Limited(Codes(g) \cap mem[e].defs, mem[e].at)
          = {q \in Parameters : <<mem[e].at, q>> \in InForce}
    BY <2>0, InForceAt
  <2> DEFINE todo == {q \in Parameters : <<mem[e].at, q>> \in InForce}
  <2>2. Enter(e, todo)
    BY <2>1
  <2> HIDE DEF todo
  <2>3. k[1] = mem[e].at => k[2] \in todo
    BY <1>0 DEF todo
  <2>4. Done(e, k) <=> k[1] < mem[e].at
    BY DEF EnterPhase, Done, AtWork
  <2>5. CASE todo = {}
    <3>1. mem'[e].at = mem[e].at + 1 /\ pc'[e] = "phase"
      BY <2>2, <2>5, EnterTurn DEF EnterPhase
    <3> QED BY <1>0, <2>2, <2>3, <2>4, <2>5, <3>1, EnterTurn DEF Done, AtWork, InLoop
  <2>6. CASE todo # {}
    <3>1. mem'[e].at = mem[e].at /\ mem'[e].todo = todo /\ pc'[e] = "read"
      BY <2>2, <2>6, EnterTurn
    <3> QED BY <1>0, <2>2, <2>3, <2>4, <3>1, EnterTurn DEF Done, AtWork, InLoop
  <2> QED BY <2>5, <2>6
<1> QED BY <1>0, <1>1, <1>2

LEMMA ReadDone ==
  ASSUME TypeOK, NEW e \in Evaluators, ReadValues(e), NEW k
  PROVE  Done(e, k)' = Done(e, k) /\ InLoop(e)' /\ mem'[e].failed = mem[e].failed
<1>1. mem'[e].at = mem[e].at /\ mem'[e].todo = mem[e].todo /\ mem'[e].failed = mem[e].failed
  BY DEF ReadValues, TypeOK, Local
<1>2. pc[e] = "read" /\ pc'[e] = "create"
  BY DEF ReadValues, Go, TypeOK
<1> QED BY <1>1, <1>2 DEF Done, AtWork, InLoop

LEMMA CreateDone ==
  ASSUME TypeOK, NEW e \in Evaluators, NEW q, pc[e] = "create", q \in mem[e].todo, Judges(e, q),
         NEW k \in Keys
  PROVE  (Done(e, k)' <=> Done(e, k) \/ k = <<mem[e].at, q>>) /\ InLoop(e)'
<1>0. k[1] \in 1 .. 3 /\ mem[e].at \in 1 .. 3 /\ k = <<k[1], k[2]>>
  BY LocalTyped DEF Keys, AtWork
<1>1. InLoop(e)'
  BY DEF Judges, InLoop
<1>2. CASE mem'[e].todo = {}
  BY <1>0, <1>1, <1>2 DEF Judges, Done, AtWork
<1>3. CASE mem'[e].todo # {}
  BY <1>0, <1>1, <1>3 DEF Judges, Done, AtWork
<1> QED BY <1>1, <1>2, <1>3

LEMMA OtherDone ==
  ASSUME TypeOK, NEW e \in Evaluators, Step(e), NEW f \in Evaluators \ {e}, NEW k
  PROVE  Done(f, k)' = Done(f, k) /\ Will(f, k)' = Will(f, k)
BY OthersStay DEF Done, Will, AtWork, InLoop

-----------------------------------------------------------------------------
(* No row is missing.                                                      *)

LEMMA CoverStep ==
  ASSUME TypeOK, LoopInv, TagsInv, CoverInv, NEW e \in Evaluators, Step(e)
  PROVE  CoverInv'
<1>0. UNCHANGED <<edits, InForce>>
  BY OthersStay, ForceStays DEF registry
<1> SUFFICES ASSUME edits = 0, crashes' = 0, status' # "DELETED", NEW k \in InForce
             PROVE  HasRow(k)' \/ \E f \in Evaluators : Will(f, k)'
  BY <1>0 DEF CoverInv
<1>k. k \in Keys /\ k[1] \in 1 .. 3
  BY DEF InForce, Keys
<1>1. CASE Begin(e)
  BY <1>1 DEF Begin, Will, Go, TypeOK
<1>2. CASE DeleteRows(e)
  <2>1. mem'[e].at = 1 /\ pc'[e] = "phase"
    BY <1>2 DEF DeleteRows, LoopInv, Go, TypeOK
  <2> QED BY <1>k, <2>1 DEF Will, Done, AtWork, InLoop
<1>3. CASE ~ Begin(e) /\ ~ DeleteRows(e)
  <2>1. crashes = 0 /\ ~ Crash(e)
    BY DEF Step, Begin, DeleteRows, EnterPhase, ReadValues, CreateRow, SaveVerdict, Refused,
           Crash, outside, TypeOK
  <2>2. pc[e] # "idle" /\ pc[e] # "delete" /\ status # "DELETED"
    BY <1>3, <2>1 DEF Step, EnterPhase, ReadValues, CreateRow, SaveVerdict, Refused
  <2>3. HasRow(k) \/ \E f \in Evaluators : Will(f, k)
    BY <2>1, <2>2 DEF CoverInv, TypeOK
  <2>4. CASE HasRow(k)
    <3>1. rows \in Seq(Row)
      BY DEF TypeOK
    <3>2. UNCHANGED rows \/ \E x : rows' = Append(rows, x)
      BY <1>3, RowsAfter
    <3> QED BY <2>4, <3>1, <3>2 DEF HasRow
  <2>5. ASSUME NEW f \in Evaluators \ {e}, Will(f, k) PROVE Will(f, k)'
    BY <2>5, OtherDone
  <2>6. CASE Will(e, k)
    <3>1. InLoop(e) /\ ~ Done(e, k)
      BY <2>2, <2>6 DEF Will
    <3>2. CASE EnterPhase(e)
      BY <3>1, <3>2, EnterDone DEF Will
    <3>3. CASE ReadValues(e)
      BY <3>1, <3>3, ReadDone DEF Will
    <3>4. CASE CreateRow(e)
      <4> PICK q \in Parameters :
            Judges(e, q) /\ q \in mem[e].todo /\ rows' = Append(rows, NewRow(e, q))
        BY <3>4, NextTurn DEF CreateRow, IsNext, NewRow
      <4>1. CASE k = <<mem[e].at, q>>
        <5>1. /\ rows'[Len(rows) + 1] = NewRow(e, q)
              /\ Len(rows') = Len(rows) + 1 /\ Len(rows) \in Nat
          BY DEF TypeOK
        <5>2. NewRow(e, q).key = k
          BY <4>1 DEF NewRow
        <5> QED BY <5>1, <5>2 DEF HasRow
      <4>2. CASE k # <<mem[e].at, q>>
        BY <1>k, <3>1, <3>4, <4>2, CreateDone DEF CreateRow, Will
      <4> QED BY <4>1, <4>2
    <3>5. CASE SaveVerdict(e) \/ Refused(e)
      BY <2>2, <3>1, <3>5 DEF SaveVerdict, Refused, InLoop
    <3> QED BY <1>3, <2>1, <3>2, <3>3, <3>4, <3>5 DEF Step
  <2> QED BY <2>3, <2>4, <2>5, <2>6
<1> QED BY <1>1, <1>2, <1>3

LEMMA CoverAround == ASSUME TypeOK, CoverInv, Around PROVE CoverInv'
<1>1. CASE UNCHANGED <<test, registry, crashes, status, rows, pc, mem>>
  BY <1>1, ForceStays DEF registry, CoverInv, HasRow, Will, InLoop, Done, AtWork
<1>2. CASE EditTag
  BY <1>2 DEF EditTag, CoverInv, TypeOK
<1>3. CASE DeleteTest
  BY <1>3 DEF DeleteTest, CoverInv
<1> QED
  BY <1>1, <1>2, <1>3 DEF Around, Arrive, vars

CoveredInv == LoopInv /\ TagsInv /\ CoverInv

LEMMA InitCovered == Init => CoveredInv
<1> SUFFICES ASSUME Init PROVE CoveredInv
  OBVIOUS
<1>1. \A e \in Evaluators : pc[e] = "idle" /\ mem[e] = NoLocal /\ ~ AtWork(e)
  BY DEF Init, AtWork
<1>2. status = "ENDED" /\ cached = tags
  BY DEF Init
<1> QED BY <1>1, <1>2 DEF CoveredInv, LoopInv, TagsInv, CoverInv, NoLocal

LEMMA CoveredStep == TypeOK /\ CoveredInv /\ [Next]_vars => CoveredInv'
<1> SUFFICES ASSUME TypeOK, CoveredInv, [Next]_vars PROVE CoveredInv'
  OBVIOUS
<1>1. ASSUME NEW e \in Evaluators, Step(e) PROVE CoveredInv'
  BY <1>1, LoopStep, TagsStep, CoverStep DEF CoveredInv
<1>2. CASE Around
  BY <1>2, TagsAround, CoverAround DEF CoveredInv, LoopInv, Around
<1> QED BY <1>1, <1>2, NextCases

\* Each evaluation deletes the rows of all others, and yet no limit in force is without its
\* row when all have come to their end, unless one was killed or a tag was edited
\* (TestEvaluationService.evaluate and reconcile_completed_result).
THEOREM RowsComplete == Spec => []NoRowMissing
<1>1. CoveredInv => NoRowMissing
  BY DEF CoveredInv, CoverInv, NoRowMissing, Quiet, Will, InLoop
<1> QED
  BY <1>1, InitCovered, CoveredStep, EvaluationTypeCorrect, PTL DEF Spec

-----------------------------------------------------------------------------
(* The verdict.                                                            *)

LEMMA OneIsNext ==
  ASSUME NEW e \in Evaluators, NEW q \in Parameters, NEW r \in Parameters,
         IsNext(e, q), IsNext(e, r)
  PROVE  q = r
<1>1. q \in Int /\ r \in Int
  BY ParametersAssumption
<1>2. q <= r /\ r <= q
  BY DEF IsNext
<1> QED BY <1>1, <1>2

VerdictInv == FoundInv /\ VerdictOfSamples

LEMMA FoundStep ==
  ASSUME TypeOK, LoopInv, TagsInv, FoundInv, NEW e \in Evaluators, Step(e)
  PROVE  FoundInv'
<1>0. UNCHANGED <<test, samples, tags, edits, InForce>>
  BY OthersStay, ForceStays DEF registry
<1>1. status' # "DELETED" => status # "DELETED"
  BY DEF Step, Begin, DeleteRows, EnterPhase, ReadValues, CreateRow, SaveVerdict, Refused, Crash
<1> SUFFICES ASSUME Untouched, status # "DELETED", NEW f \in Evaluators, pc'[f] # "idle"
             PROVE  Found(f)' /\ Held(f)'
  BY <1>0, <1>1 DEF FoundInv, Untouched
<1>b. \A k : Bad(k)' = Bad(k)
  BY <1>0, BadStays
<1>k. \A k \in InForce : k \in Keys /\ k[1] \in 1 .. 3
  BY DEF InForce, Keys
<1>g. Found(f)' <=> (mem'[f].failed <=> \E k \in InForce : Done(f, k)' /\ Bad(k))
  BY <1>0, <1>b DEF Found
<1>h. Held(f)' <=> (pc'[f] = "create" => \A q \in Parameters : IsNext(f, q)' =>
                                             mem'[f].of = Counted(<<mem'[f].at, q>>, tags))
  BY <1>0 DEF Held, Counted, IsValid
<1>f. pc[f] # "idle" => Found(f) /\ Held(f)
  BY DEF FoundInv
<1>2. CASE f # e
  <2>1. mem'[f] = mem[f] /\ pc'[f] = pc[f] /\ \A k : Done(f, k)' = Done(f, k)
    BY <1>2, OthersStay, OtherDone
  <2>2. Found(f)'
    BY <1>f, <1>g, <2>1 DEF Found
  <2>3. Held(f)'
    BY <1>f, <1>h, <2>1 DEF Held, IsNext
  <2> QED BY <2>2, <2>3
<1>3. CASE f = e
  <2>1. CASE Begin(e) \/ DeleteRows(e)
    <3>1. mem'[e].at = 1 /\ ~ mem'[e].failed /\ pc'[e] \in {"delete", "phase"}
      BY <2>1 DEF Begin, DeleteRows, LoopInv, TypeOK, Local, Go
    <3>2. \A k \in InForce : ~ Done(e, k)'
      BY <1>k, <3>1 DEF Done, AtWork
    <3> QED BY <1>3, <1>g, <1>h, <3>1, <3>2
  <2>2. CASE EnterPhase(e)
    <3>1. \A k \in InForce : Done(e, k)' = Done(e, k) /\ mem'[e].failed = mem[e].failed
      BY <2>2, EnterDone DEF Untouched
    <3>2. pc[e] # "idle" /\ pc'[e] # "create" /\ mem'[e].failed = mem[e].failed
      BY <2>2, EnterTurn DEF EnterPhase, Enter, Go, TypeOK
    <3> QED BY <1>3, <1>f, <1>g, <1>h, <3>1, <3>2 DEF Found
  <2>3. CASE ReadValues(e)
    <3> PICK q \in Parameters, g \in Known :
          IsNext(e, q) /\ mem' = [mem EXCEPT ![e].of = Counted(<<mem[e].at, q>>, g)]
      BY <2>3 DEF ReadValues
    <3>1. g = tags
      BY DEF Untouched, TagsInv, Known
    <3>2. /\ mem'[e].of = Counted(<<mem[e].at, q>>, tags)
          /\ mem'[e].at = mem[e].at /\ mem'[e].todo = mem[e].todo
      BY <3>1 DEF TypeOK, Local
    <3>3. ASSUME NEW r \in Parameters, IsNext(e, r)' PROVE r = q
      BY <3>2, <3>3, OneIsNext DEF IsNext
    <3>4. pc[e] # "idle"
      BY <2>3 DEF ReadValues
    <3>5. Found(e)'
      BY <1>3, <1>f, <1>g, <2>3, <3>4, ReadDone DEF Found
    <3>6. Held(e)'
      BY <1>3, <1>h, <3>2, <3>3
    <3> QED BY <1>3, <3>5, <3>6
  <2>4. CASE CreateRow(e)
    <3> PICK q \in Parameters : Judges(e, q) /\ IsNext(e, q)
      BY <2>4, NextTurn DEF CreateRow
    <3>1. pc[e] = "create" /\ q \in mem[e].todo
      BY <2>4 DEF CreateRow, IsNext
    <3>2. <<mem[e].at, q>> \in InForce
      BY <3>1 DEF TagsInv, Untouched, AtWork
    <3>3. mem'[e].failed <=> mem[e].failed \/ Bad(<<mem[e].at, q>>)
      BY <1>3, <1>f, <3>1 DEF Judges, Bad, Held
    <3>4. \A k \in InForce : Done(e, k)' <=> Done(e, k) \/ k = <<mem[e].at, q>>
      BY <1>k, <3>1, CreateDone
    <3>5. pc'[e] # "create"
      BY DEF Judges
    <3> QED BY <1>3, <1>f, <1>g, <1>h, <3>1, <3>2, <3>3, <3>4, <3>5 DEF Found
  <2>5. CASE SaveVerdict(e) \/ Refused(e) \/ Crash(e)
    BY <1>3, <2>5 DEF SaveVerdict, Refused, Crash, Return, Go, TypeOK
  <2> QED BY <2>1, <2>2, <2>3, <2>4, <2>5 DEF Step
<1> QED BY <1>2, <1>3

LEMMA VerdictStep ==
  ASSUME TypeOK, LoopInv, FoundInv, VerdictOfSamples, NEW e \in Evaluators, Step(e)
  PROVE  VerdictOfSamples'
<1>0. UNCHANGED <<test, samples, tags, edits, InForce>>
  BY OthersStay, ForceStays DEF registry
<1>1. \A k : Bad(k)' = Bad(k)
  BY <1>0, BadStays
<1> SUFFICES ASSUME Untouched
             PROVE  /\ status' = "FAIL" => \E k \in InForce : Bad(k)
                    /\ status' = "PASS" => \A k \in InForce : ~ Bad(k)
  BY <1>0, <1>1 DEF VerdictOfSamples, Untouched, Bad
<1>2. CASE SaveVerdict(e)
  <2>1. mem[e].at = 4 /\ pc[e] = "save" /\ status # "DELETED"
    BY <1>2 DEF SaveVerdict, LoopInv
  <2>2. \A k \in InForce : Done(e, k)
    BY <2>1 DEF InForce, Keys, Done
  <2>3. mem[e].failed <=> \E k \in InForce : Bad(k)
    BY <2>1, <2>2 DEF FoundInv, Found
  <2> QED BY <1>2, <2>3 DEF SaveVerdict
<1>3. CASE ~ SaveVerdict(e)
  <2>1. status' = status
    BY <1>3 DEF Step, Begin, DeleteRows, EnterPhase, ReadValues, CreateRow, Refused, Crash
  <2> QED BY <2>1 DEF VerdictOfSamples, Bad
<1> QED BY <1>2, <1>3

LEMMA VerdictAround == ASSUME TypeOK, VerdictInv, Around PROVE VerdictInv'
<1>1. CASE UNCHANGED <<test, registry, samples, status, pc, mem>>
  <2>1. UNCHANGED InForce /\ \A k : Bad(k)' = Bad(k)
    BY <1>1, ForceStays, BadStays DEF registry
  <2>2. \A k : Counted(k, tags)' = Counted(k, tags)
    BY <1>1 DEF Counted, IsValid, registry
  <2>3. FoundInv'
    BY <1>1, <2>1, <2>2 DEF VerdictInv, FoundInv, Found, Held, Untouched, Done, AtWork, IsNext,
                            registry
  <2>4. VerdictOfSamples'
    BY <1>1, <2>1 DEF VerdictInv, VerdictOfSamples, Bad, Untouched, registry
  <2> QED BY <2>3, <2>4 DEF VerdictInv
<1>2. CASE EditTag
  BY <1>2 DEF EditTag, VerdictInv, FoundInv, VerdictOfSamples, Untouched, TypeOK
<1>3. CASE Arrive
  <2>1. ~ Untouched'
    BY <1>3, SamplesAssumption DEF Arrive, Untouched
  <2> QED BY <2>1 DEF VerdictInv, FoundInv, VerdictOfSamples
<1>4. CASE DeleteTest
  BY <1>4 DEF DeleteTest, VerdictInv, FoundInv, VerdictOfSamples
<1> QED
  BY <1>1, <1>2, <1>3, <1>4 DEF Around, vars

LEMMA InitVerdict == Init => VerdictInv
<1> SUFFICES ASSUME Init PROVE VerdictInv
  OBVIOUS
<1>1. status = "ENDED" /\ \A e \in Evaluators : pc[e] = "idle"
  BY DEF Init
<1> QED BY <1>1 DEF VerdictInv, FoundInv, VerdictOfSamples

LEMMA VerdictNext == TypeOK /\ CoveredInv /\ VerdictInv /\ [Next]_vars => VerdictInv'
<1> SUFFICES ASSUME TypeOK, CoveredInv, VerdictInv, [Next]_vars PROVE VerdictInv'
  OBVIOUS
<1>1. ASSUME NEW e \in Evaluators, Step(e) PROVE VerdictInv'
  BY <1>1, FoundStep, VerdictStep DEF CoveredInv, VerdictInv
<1> QED BY <1>1, VerdictAround, NextCases

\* The verdict is the one the samples give, whichever evaluation saved it last and whatever
\* was killed on the way, as long as no sample came late and no tag was edited
\* (TestEvaluationService.evaluate).
THEOREM VerdictIsOfSamples == Spec => []VerdictOfSamples
<1>1. VerdictInv => VerdictOfSamples
  BY DEF VerdictInv
<1> QED
  BY <1>1, InitVerdict, VerdictNext, InitCovered, CoveredStep, EvaluationTypeCorrect, PTL
  DEF Spec
-----------------------------------------------------------------------------
(* Sums.  The average of some samples is a sum over their number; that the *)
(* sum lies where its parts lie is shown by the smallest set for which it  *)
(* would not.                                                              *)

Chosen(T) == CHOOSE x \in T : TRUE

\* The sums over the sets in D, as a fold computes them.
Sums(q, D, F) ==
  F = [T \in D |-> IF T = {} THEN 0 ELSE Chosen(T).value[q] + F[T \ {Chosen(T)}]]

\* Up to size n.
UpTo(S, n) == {T \in SUBSET S : Cardinality(T) <= n}

LEMMA Least ==
  ASSUME NEW A \in SUBSET Nat, A # {}
  PROVE  \E n \in A : \A m \in A : n <= m
<1>1. PICK n \in A : \A m \in A : ~ (<<m, n>> \in OpToRel(<, Nat))
  BY NatLessThanWellFounded, WFMin
<1>2. \A m \in A : ~ (m < n)
  BY <1>1 DEF OpToRel
<1> QED
  BY <1>2

LEMMA SmallerSet ==
  ASSUME NEW S, IsFiniteSet(S), NEW n \in Nat, NEW T \in UpTo(S, n), T # {}
  PROVE  /\ Chosen(T) \in T /\ T \ {Chosen(T)} \in SUBSET S
         /\ Cardinality(T) = Cardinality(T \ {Chosen(T)}) + 1
         /\ Cardinality(T \ {Chosen(T)}) \in Nat
         /\ n > 0 /\ T \ {Chosen(T)} \in UpTo(S, n - 1)
<1>1. IsFiniteSet(T) /\ Chosen(T) \in T /\ Cardinality(T) <= n
  BY FS_Subset DEF UpTo, Chosen
<1>2. Cardinality(T \ {Chosen(T)}) = Cardinality(T) - 1 /\ Cardinality(T) \in Nat
  BY <1>1, FS_RemoveElement, FS_CardinalityType
<1>3. Cardinality(T \ {Chosen(T)}) \in Nat
  BY <1>1, FS_RemoveElement, FS_CardinalityType
<1> QED BY <1>1, <1>2, <1>3 DEF UpTo

LEMMA SumsUpTo ==
  ASSUME NEW q, NEW S, IsFiniteSet(S), NEW n \in Nat
  PROVE  \E F : Sums(q, UpTo(S, n), F)
<1> DEFINE A == {m \in Nat : ~ \E F : Sums(q, UpTo(S, m), F)}
<1> SUFFICES ASSUME A # {} PROVE FALSE
  OBVIOUS
<1>0. A \in SUBSET Nat /\ A # {}
  OBVIOUS
<1>1. PICK m \in A : \A i \in A : m <= i
  BY <1>0, Least
<1>2. PICK G : m > 0 => Sums(q, UpTo(S, m - 1), G)
  BY <1>1
<1> DEFINE R(H, T) == IF T = {} THEN 0 ELSE Chosen(T).value[q] + H[T \ {Chosen(T)}]
           F == [T \in UpTo(S, m) |-> R(G, T)]
<1>3. ASSUME NEW T \in UpTo(S, m) PROVE R(G, T) = R(F, T)
  <2>1. CASE T = {}
    BY <2>1
  <2>2. CASE T # {}
    <3> DEFINE U == T \ {Chosen(T)}
    <3>1. m > 0 /\ U \in UpTo(S, m - 1) /\ U \in UpTo(S, m)
      BY <2>2, SmallerSet DEF UpTo
    <3> HIDE DEF U
    <3>2. G[U] = R(G, U)
      BY <1>2, <3>1 DEF Sums
    <3>3. F[U] = R(G, U)
      BY <3>1
    <3> QED BY <3>2, <3>3 DEF U
  <2> QED BY <2>1, <2>2
<1> HIDE DEF R
<1>4. F = [T \in UpTo(S, m) |-> R(F, T)]
  BY <1>3
<1>5. Sums(q, UpTo(S, m), F)
  BY <1>4 DEF Sums, R
<1> QED BY <1>1, <1>5

LEMMA SumsExist ==
  ASSUME NEW q, NEW S, IsFiniteSet(S)
  PROVE  \E F : Sums(q, SUBSET S, F)
<1>1. Cardinality(S) \in Nat /\ UpTo(S, Cardinality(S)) = SUBSET S
  BY FS_CardinalityType, FS_Subset DEF UpTo
<1>2. PICK F : Sums(q, UpTo(S, Cardinality(S)), F)
  BY <1>1, SumsUpTo
<1> QED BY <1>1, <1>2

\* The sum is a fold.
LEMMA TotalIsSum ==
  ASSUME NEW q, NEW S, IsFiniteSet(S)
  PROVE  \E F : Sums(q, SUBSET S, F) /\ Total(q, S) = F[S]
<1> DEFINE G == CHOOSE F : Sums(q, SUBSET S, F)
<1>1. Sums(q, SUBSET S, G)
  BY SumsExist
<1>2. Total(q, S) = G[S]
  BY DEF Total, MapThenSumSet, MapThenFoldSet, Sums, Chosen
<1> QED BY <1>1, <1>2

LEMMA TimesNext ==
  ASSUME NEW a \in Int, NEW n \in Int
  PROVE  a * (n + 1) = a * n + a /\ a * n \in Int
OBVIOUS

\* A sum of whole numbers of which each is at least low, and at most high.
LEMMA SumBounds ==
  ASSUME NEW q, NEW S, IsFiniteSet(S), \A s \in S : s.value[q] \in Int
  PROVE  /\ Total(q, S) \in Int
         /\ \A low \in Int : (\A s \in S : low <= s.value[q]) => low * Cardinality(S) <= Total(q, S)
         /\ \A high \in Int : (\A s \in S : s.value[q] <= high) => Total(q, S) <= high * Cardinality(S)
<1> DEFINE Right(T, x) ==
      /\ x \in Int
      /\ \A low \in Int : (\A s \in S : low <= s.value[q]) => low * Cardinality(T) <= x
      /\ \A high \in Int : (\A s \in S : s.value[q] <= high) => x <= high * Cardinality(T)
<1>1. PICK F : Sums(q, SUBSET S, F) /\ Total(q, S) = F[S]
  BY TotalIsSum
<1> DEFINE A == {m \in Nat : \E T \in SUBSET S : Cardinality(T) = m /\ ~ Right(T, F[T])}
<1>2. SUFFICES ASSUME A # {} PROVE FALSE
  <2>1. Cardinality(S) \in Nat
    BY FS_CardinalityType
  <2>2. Right(S, F[S])
    BY <1>2, <2>1
  <2> QED BY <1>1, <2>2
<1>3. PICK m \in A : \A i \in A : m <= i
  <2>1. A \in SUBSET Nat /\ A # {}
    BY <1>2
  <2> HIDE DEF A
  <2> QED BY <2>1, Least
<1>4. PICK T \in SUBSET S : Cardinality(T) = m /\ ~ Right(T, F[T])
  BY <1>3
<1>5. CASE T = {}
  <2>1. F[T] = 0 /\ Cardinality(T) = 0
    BY <1>1, <1>5, FS_EmptySet DEF Sums
  <2> QED BY <1>4, <2>1
<1>6. CASE T # {}
  <2> DEFINE x == Chosen(T)
             U == T \ {x}
  <2>1. x \in S /\ U \in SUBSET S /\ Cardinality(T) = Cardinality(U) + 1 /\ Cardinality(U) \in Nat
    BY <1>3, <1>4, <1>6, SmallerSet DEF UpTo
  <2>2. F[T] = x.value[q] + F[U]
    BY <1>1, <1>6 DEF Sums
  <2> HIDE DEF U, x
  <2>3. Cardinality(U) \notin A
    BY <1>3, <1>4, <2>1
  <2>4. Right(U, F[U])
    BY <2>1, <2>3
  <2>5. F[T] \in Int
    BY <2>1, <2>2, <2>4
  <2>6. ASSUME NEW low \in Int, \A s \in S : low <= s.value[q]
        PROVE  low * Cardinality(T) <= F[T]
    <3>1. low * Cardinality(U) <= F[U] /\ low <= x.value[q]
      BY <2>1, <2>4, <2>6
    <3>2. low * (Cardinality(U) + 1) = low * Cardinality(U) + low
          /\ low * Cardinality(U) \in Int
      <4>1. Cardinality(U) \in Int
        BY <2>1
      <4> QED BY <4>1, TimesNext
    <3>3. x.value[q] \in Int /\ F[U] \in Int
      BY <2>1, <2>4
    <3> QED BY <2>1, <2>2, <3>1, <3>2, <3>3
  <2>7. ASSUME NEW high \in Int, \A s \in S : s.value[q] <= high
        PROVE  F[T] <= high * Cardinality(T)
    <3>1. F[U] <= high * Cardinality(U) /\ x.value[q] <= high
      BY <2>1, <2>4, <2>7
    <3>2. high * (Cardinality(U) + 1) = high * Cardinality(U) + high
          /\ high * Cardinality(U) \in Int
      <4>1. Cardinality(U) \in Int
        BY <2>1
      <4> QED BY <4>1, TimesNext
    <3>3. x.value[q] \in Int /\ F[U] \in Int
      BY <2>1, <2>4
    <3> QED BY <2>1, <2>2, <3>1, <3>2, <3>3
  <2> QED BY <1>4, <2>5, <2>6, <2>7
<1> QED BY <1>5, <1>6

-----------------------------------------------------------------------------
(* What a row shows.                                                       *)

JudgedInv ==
  /\ limits \in Snapshots
  /\ \A i \in 1 .. Len(rows) : rows[i].passed = Outcome(rows[i].key, rows[i].of)

LEMMA TimesLess ==
  ASSUME NEW a \in Int, NEW b \in Int, NEW n \in Nat, a < b
  PROVE  a * n + n <= b * n
<1>1. (b - a - 1) * n >= 0
  BY Z3
<1>2. (b - a - 1) * n = b * n - a * n - n
  BY Z3
<1> QED BY <1>1, <1>2

LEMMA PhaseNames == \A i \in 1 .. 3 : Phases[i] \in {"START", "STABLE", "STOP"}
BY DEF Phases

\* The limits of a row are numbers.
LEMMA LimitTypes ==
  ASSUME limits \in Snapshots, NEW k \in Keys
  PROVE  Limit(k).min \in Int /\ Limit(k).max \in Int
<1>1. k[1] \in 1 .. 3 /\ k[2] \in Parameters
  BY DEF Keys
<1> QED BY <1>1, PhaseNames, SnapshotsAssumption DEF Limit

\* Samples have a number and a sum.
LEMMA TotalTypes ==
  ASSUME NEW q \in Parameters, NEW S \in SUBSET (FirstSamples \cup LateSamples)
  PROVE  /\ IsFiniteSet(S) /\ Cardinality(S) \in Nat /\ Total(q, S) \in Int
         /\ S # {} => Cardinality(S) > 0
<1>1. IsFiniteSet(S) /\ Cardinality(S) \in Nat
  BY SamplesAssumption, FS_Subset, FS_CardinalityType
<1>2. \A s \in S : s.value[q] \in Int
  BY SamplesAssumption
<1> QED BY <1>1, <1>2, SumBounds, FS_EmptySet

\* A rounded average a of n samples with the sum t, against a bound.
LEMMA Rounded ==
  ASSUME NEW t \in Int, NEW n \in Nat, n > 0, NEW a \in Int, 2 * (a * n - t) \in -n .. n,
         NEW b \in Int
  PROVE  /\ t < b * n => a <= b
         /\ t <= b * n => a <= b
         /\ t > b * n => a >= b
         /\ t >= b * n => a >= b
<1>1. a * n \in Int /\ b * n \in Int
  OBVIOUS
<1>2. 2 * (a * n) - 2 * t <= n /\ 2 * t - 2 * (a * n) <= n
  BY <1>1
<1>3. a < b => a * n + n <= b * n
  BY TimesLess
<1>4. b < a => b * n + n <= a * n
  BY TimesLess
<1> DEFINE x == a * n
           y == b * n
<1> HIDE DEF x, y
<1>5. /\ x \in Int /\ y \in Int /\ 2 * x - 2 * t <= n /\ 2 * t - 2 * x <= n
      /\ a < b => x + n <= y
      /\ b < a => y + n <= x
  BY <1>1, <1>2, <1>3, <1>4 DEF x, y
<1>6. /\ t < y => a <= b
      /\ t <= y => a <= b
      /\ t > y => a >= b
      /\ t >= y => a >= b
  BY <1>5
<1> QED BY <1>6 DEF x, y

LEMMA RowDecides ==
  ASSUME limits \in Snapshots, NEW k \in Keys,
         NEW S \in SUBSET (FirstSamples \cup LateSamples), S # {}, NEW a \in Shown(k[2], S)
  PROVE  LET l == Limit(k) IN
         /\ Beyond(a, l) => Outcome(k, S) = "fail"
         /\ Within(a, l) => Outcome(k, S) = "pass"
<1> DEFINE l == Limit(k)
           n == Cardinality(S)
           t == Total(k[2], S)
<1>1. l.min \in Int /\ l.max \in Int
  BY LimitTypes
<1>2. n \in Nat /\ n > 0 /\ t \in Int
  <2>1. k[2] \in Parameters
    BY DEF Keys
  <2> QED BY <2>1, TotalTypes
<1>3. a \in Int /\ 2 * (a * n - t) \in -n .. n
  <2>1. t \div n \in Int
    BY <1>2
  <2> QED BY <2>1 DEF Shown
<1> HIDE DEF n, t, l
<1>4. /\ t < l.min * n => a <= l.min
      /\ t >= l.min * n => a >= l.min
      /\ t > l.max * n => a >= l.max
      /\ t <= l.max * n => a <= l.max
  BY <1>1, <1>2, <1>3, Rounded
<1>5. l.min * n \in Int /\ l.max * n \in Int
  BY <1>1, <1>2
<1>6. Outcome(k, S) = IF \/ MinSet(l) /\ t < l.min * n
                         \/ MaxSet(l) /\ t > l.max * n
                      THEN "fail" ELSE "pass"
  BY DEF Outcome, l, t, n
<1>7. /\ Beyond(a, l) => Outcome(k, S) = "fail"
      /\ Within(a, l) => Outcome(k, S) = "pass"
  BY <1>1, <1>2, <1>3, <1>4, <1>5, <1>6 DEF Beyond, Within
<1> QED BY <1>7 DEF l

LEMMA OutcomeStays ==
  ASSUME UNCHANGED limits, NEW k, NEW S PROVE Outcome(k, S)' = Outcome(k, S)
BY DEF Outcome, Limit

LEMMA JudgedStep ==
  ASSUME TypeOK, JudgedInv, NEW e \in Evaluators, Step(e)
  PROVE  JudgedInv'
<1>1. UNCHANGED limits
  BY OthersStay DEF test
<1>2. CASE UNCHANGED rows \/ rows' = << >>
  BY <1>1, <1>2, OutcomeStays DEF JudgedInv
<1>3. CASE \E q \in Parameters : rows' = Append(rows, NewRow(e, q))
  <2> PICK q \in Parameters : rows' = Append(rows, NewRow(e, q))
    BY <1>3
  <2>1. NewRow(e, q).passed = Outcome(NewRow(e, q).key, NewRow(e, q).of)
    BY DEF NewRow
  <2>2. rows \in Seq(Row)
    BY DEF TypeOK
  <2> HIDE DEF NewRow
  <2>3. \A i \in 1 .. Len(rows') : rows'[i] = NewRow(e, q) \/ (i \in 1 .. Len(rows) /\ rows'[i] = rows[i])
    BY <2>2
  <2>4. \A i \in 1 .. Len(rows') : rows'[i].passed = Outcome(rows'[i].key, rows'[i].of)
    BY <2>1, <2>3 DEF JudgedInv
  <2> QED BY <1>1, <2>4, OutcomeStays DEF JudgedInv
<1> QED BY <1>2, <1>3, RowsAfter

LEMMA JudgedNext == TypeOK /\ JudgedInv /\ [Next]_vars => JudgedInv'
<1> SUFFICES ASSUME TypeOK, JudgedInv, [Next]_vars PROVE JudgedInv'
  OBVIOUS
<1>1. CASE Around
  <2>1. UNCHANGED limits /\ (UNCHANGED rows \/ rows' = << >>)
    BY <1>1 DEF Around, Arrive, EditTag, DeleteTest, vars, test
  <2> QED BY <2>1, OutcomeStays DEF JudgedInv
<1> QED BY <1>1, JudgedStep, NextCases

LEMMA JudgedDecides == TypeOK /\ JudgedInv => ShownDecides
<1> SUFFICES ASSUME TypeOK, JudgedInv, NEW i \in 1 .. Len(rows), rows[i].of # {},
                    NEW a \in Shown(rows[i].key[2], rows[i].of)
             PROVE  LET r == rows[i]
                        l == Limit(r.key)
                    IN  /\ Beyond(a, l) => r.passed = "fail"
                        /\ Within(a, l) => r.passed = "pass"
  BY DEF ShownDecides
<1>1. rows[i] \in Row
  BY DEF TypeOK
<1>2. rows[i].key \in Keys /\ rows[i].of \in SUBSET (FirstSamples \cup LateSamples)
  BY <1>1 DEF Row
<1>3. limits \in Snapshots /\ rows[i].passed = Outcome(rows[i].key, rows[i].of)
  BY DEF JudgedInv
<1> QED BY <1>2, <1>3, RowDecides

\* A row shown beyond a limit has failed and one shown strictly within its limits has
\* passed, for any limits and any samples: the exact average (evaluation.py) and the one
\* the database keeps of it (models.py) can differ in what they say at the limit only.
THEOREM ShownAverageDecides == Spec => []ShownDecides
<1>1. Init => JudgedInv
  BY DEF Init, JudgedInv
<1> QED BY <1>1, JudgedNext, JudgedDecides, EvaluationTypeCorrect, PTL DEF Spec
=============================================================================
