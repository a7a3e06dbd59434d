------------------------------ MODULE LiveCharts ------------------------------
(***************************************************************************)
(* What an operator sees of a running test: the page of the active test is *)
(* rendered with the samples stored so far, then follows the broadcasts of *)
(* the poller over a websocket and draws each live record on its charts.   *)
(*                                                                         *)
(* Modelled are the live history in Redis, the samples of before the start,*)
(* the throttled broadcast, the chart builder and the charts of the page,  *)
(* with one series and one compressor.  A record of the PLC is named by    *)
(* its time stamp: one is taken each second.  Polls follow one another;    *)
(* the runtime row, the samples and the phases of a test are those of      *)
(* Poller and TestLifecycle, reduced to what is shown.  What history_sync  *)
(* stores is left out: a page shows it when it is loaded again.  So is the *)
(* hash of the payload, as last_seen_at or data_age_seconds make each one  *)
(* that passes the throttle a new one, and values, limits and texts.       *)
(***************************************************************************)
EXTENDS Integers, Sequences, SequencesExt

CONSTANTS
  Recipe,         \* durations of the phases [start, stable, stop]
  Context,        \* phase_context_sec
  HistoryLength,  \* MAX_HISTORY_LENGTH
  Throttle,       \* throttle_seconds
  MaxTests,       \* bound: tests ever started
  MaxTime,        \* bound: records taken by the PLC
  Traces          \* bound: records that can be those with the compressor running

NotSet == -1
Stamps == 0 .. MaxTime
TestIds == 1 .. MaxTests
Total == Recipe.start + Recipe.stable + Recipe.stop

ASSUME ChartAssumption ==
  /\ Recipe \in [start : Nat, stable : Nat, stop : Nat]
  /\ Context \in Nat /\ HistoryLength \in Nat \ {0} /\ Throttle \in Nat
  /\ MaxTests \in Nat /\ MaxTime \in Nat
  /\ Traces \subseteq SUBSET Stamps

VARIABLES
  now,      \* the clock, and the time stamp of the newest record of the PLC
  running,  \* the records that show the compressor running
  test,     \* the active test, or the number of the last one
  stored,   \* the TestSample rows of the active test
  rt,       \* live_record_json of the runtime row
  history,  \* the live history
  age,      \* seconds since the last broadcast, up to Throttle
  pc, msg,  \* where the poll is, and the payload it is about to send
  page      \* the page in the browser of an operator

\* The members of a list that are in S, in the order of the list.
Keep(list, S) ==
  LET kept[i \in 0 .. Len(list)] ==
        IF i = 0 THEN << >>
        ELSE IF list[i] \in S THEN Append(kept[i - 1], list[i]) ELSE kept[i - 1]
  IN  kept[Len(list)]

shop == <<test, stored>>
feed == <<rt, history, age, pc, msg>>
vars == <<now, running, shop, feed, page>>

-----------------------------------------------------------------------------
(* Tests.  Of a test that has ended only the number is kept, as no page    *)
(* and no broadcast looks at the rest.                                     *)

Phases == {"NONE", "START", "STABLE", "STOP"}
OptStamp == Stamps \cup {NotSet}
Test == [id : 0 .. MaxTests, phase : Phases, started : OptStamp, since : OptStamp,
         prestart : Seq(Stamps)]
EndedTest(id) == [id |-> id, phase |-> "NONE", started |-> NotSet, since |-> NotSet,
                  prestart |-> << >>]

Active == test.phase # "NONE"

\* start_test: the records of the live history that fall into the context before the
\* start are kept with the row.  As polls follow one another they are in order.
StartTest ==
  /\ ~Active /\ test.id < MaxTests
  /\ test' = [id |-> test.id + 1, phase |-> "START", started |-> now, since |-> now,
              prestart |-> Keep(history, (now - Context) .. (now - 1))]
  /\ UNCHANGED <<now, running, stored, feed, page>>

\* determine_phase; since is when the phase began.
EnterPhase ==
  /\ \/ /\ test.phase = "START" /\ now >= test.since + Recipe.start
        /\ test' = [test EXCEPT !.phase = "STABLE", !.since = now]
     \/ /\ test.phase = "STABLE" /\ now >= test.since + Recipe.stable
        /\ test' = [test EXCEPT !.phase = "STOP", !.since = now]
  /\ UNCHANGED <<now, running, stored, feed, page>>

\* A verdict or an abort.
EndTest ==
  /\ Active
  /\ test' = EndedTest(test.id) /\ stored' = {}
  /\ UNCHANGED <<now, running, feed, page>>

-----------------------------------------------------------------------------
(* The poll and its broadcast.                                             *)

Message == [test : 0 .. MaxTests, phase : Phases, started : OptStamp, rec : OptStamp]
NoMessage == [test |-> 0, phase |-> "NONE", started |-> NotSet, rec |-> NotSet]
PC == {"idle", "polled", "failed", "send_polled", "send_failed", "persist"}

\* deque(maxlen = MAX_HISTORY_LENGTH); NoMaxLength is wrong on purpose.
NoMaxLength(list) == list
Bounded(list) == IF Len(list) > HistoryLength THEN Tail(list) ELSE list

\* The newest record of the PLC is read, saved in the runtime row and appended to the
\* live history.
PollRead ==
  /\ pc = "idle" /\ pc' = "polled"
  /\ rt' = now
  /\ history' = Bounded(Append(history, now))
  /\ UNCHANGED <<now, running, shop, age, msg, page>>

\* The PLC does not answer: the runtime row keeps its record.  The failure of a
\* history_sync is broadcast in the same way.
PollFailed ==
  /\ pc = "idle" /\ pc' = "failed"
  /\ UNCHANGED <<now, running, shop, rt, history, age, msg, page>>

\* broadcast_runtime_update builds the payload.
BroadcastPick ==
  /\ \/ pc = "polled" /\ pc' = "send_polled"
     \/ pc = "failed" /\ pc' = "send_failed"
  /\ msg' = [test |-> IF Active THEN test.id ELSE 0, phase |-> test.phase,
             started |-> test.started, rec |-> rt]
  /\ UNCHANGED <<now, running, shop, rt, history, age, page>>

AfterBroadcast ==
  /\ \/ pc = "send_polled" /\ pc' = "persist"
     \/ pc = "send_failed" /\ pc' = "idle"
  /\ msg' = NoMessage

\* When the last broadcast was, after one that has been refused; AgeFromRefused is
\* wrong on purpose.
AgeFromRefused == 0
AgeAfterRefusal == age

\* _should_broadcast: too soon after the last one.
Throttled ==
  /\ age < Throttle
  /\ age' = AgeAfterRefusal
  /\ AfterBroadcast
  /\ UNCHANGED <<now, running, shop, rt, history, page>>

\* The time is remembered and the payload goes to the page if it is connected; if a
\* payload still waits there for the timer it is replaced.
Send ==
  /\ age >= Throttle
  /\ age' = 0
  /\ page' = IF page.at = "live" THEN [page EXCEPT !.pending = <<msg>>] ELSE page
  /\ AfterBroadcast
  /\ UNCHANGED <<now, running, shop, rt, history>>

\* _persist_live_sample_if_needed
Persist ==
  /\ pc = "persist" /\ pc' = "idle"
  /\ stored' = IF Active THEN stored \cup {rt} ELSE stored
  /\ UNCHANGED <<now, running, test, rt, history, age, msg, page>>

-----------------------------------------------------------------------------
(* Charts as the server builds them.                                       *)

Kinds == {"all", "start", "stable", "stop"}

\* _phase_windows: where a chart has its zero, and what it shows of the test.
Window(k) ==
  LET stable == Recipe.start
      stop == Recipe.start + Recipe.stable
  IN  CASE k = "all" -> [zero |-> 0, from |-> 0, to |-> Total]
        [] k = "start" -> [zero |-> 0, from |-> -Context, to |-> stable]
        [] k = "stable" -> [zero |-> stable, from |-> Max({0, stable - Context}), to |-> stop]
        [] k = "stop" -> [zero |-> stop, from |-> Max({0, stop - Context}), to |-> Total]

AxisMin == -Context
AxisMax(k) == Window(k).to - Window(k).zero
OnAxis(k, x) == AxisMin <= x /\ x <= AxisMax(k)

InOrder(records) == Keep([i \in 1 .. MaxTime + 1 |-> i - 1], records)

\* _sample_elapsed_seconds, _prestart_samples and _sample_status_flag.
Elapsed(r) == r - test.started
BeforeStart(k) == IF k \in {"all", "start"} THEN test.prestart ELSE << >>
ShowsRunning(r) == r \in running

\* The records of a chart: those of before the start, then the samples, each in order.
Source(k) ==
  LET Shown(r) == k = "all" \/ (Window(k).from <= Elapsed(r) /\ Elapsed(r) <= Window(k).to)
  IN  Keep(BeforeStart(k) \o InOrder(stored), {r \in Stamps : Shown(r)})

\* _compressor_run_bands: a segment begins with the first record that shows the
\* compressor running and ends with the first that does not, or with the axis.
Bands(k, all) ==
  LET points == Keep(all, {p \in ToSet(all) : OnAxis(k, p.x)})
      On(i) == ShowsRunning(points[i].at)
      begins == {i \in DOMAIN points : On(i) /\ (i > 1 => ~On(i - 1))}
      Stops(i) == {j \in DOMAIN points : j > i /\ ~On(j)}
      Segment(i) == [start |-> points[i].x,
                     end |-> IF Stops(i) = {} THEN AxisMax(k) ELSE points[Min(Stops(i))].x]
      order == Keep([i \in DOMAIN points |-> i], begins)
  IN  [segments |-> [i \in DOMAIN order |-> Segment(order[i])],
       flag |-> points # << >> /\ On(Len(points))]

ServerChart(k) ==
  LET Point(r) == [x |-> Elapsed(r) - Window(k).zero, at |-> r]
      records == Source(k)
      points == [i \in DOMAIN records |-> Point(records[i])]
      bands == Bands(k, points)
  IN  [points |-> points, segments |-> bands.segments, flag |-> bands.flag]

NoChart == [points |-> << >>, segments |-> << >>, flag |-> FALSE]
NoCharts == [k \in Kinds |-> NoChart]

-----------------------------------------------------------------------------
(* The page.                                                               *)

Places == {"closed", "loading", "rendered", "live"}
NoPage == [at |-> "closed", test |-> 0, phase |-> "NONE", charts |-> NoCharts,
           pending |-> << >>, notice |-> FALSE]

\* The operator opens the page.
OpenPage ==
  /\ page.at = "closed"
  /\ page' = [NoPage EXCEPT !.at = "loading"]
  /\ UNCHANGED <<now, running, shop, feed>>

\* ActiveTestView finds the active test and its samples, or sends the browser to the
\* history.  (The samples are read a little later; those stored in between are the ones
\* of a later rendering.)  The phase the page knows is none until the first message, as
\* its countdown data cannot be parsed: escapejs has escaped the quotes.
Render ==
  /\ page.at = "loading"
  /\ page' = IF ~Active THEN NoPage
             ELSE [page EXCEPT !.at = "rendered", !.test = test.id,
                               !.charts = [k \in Kinds |-> ServerChart(k)]]
  /\ UNCHANGED <<now, running, shop, feed>>

\* bindLiveSocket, DashboardConsumer.connect
Connect ==
  /\ page.at = "rendered"
  /\ page' = [page EXCEPT !.at = "live"]
  /\ UNCHANGED <<now, running, shop, feed>>

\* The operator leaves the page, or its websocket breaks, which nothing opens again: the
\* page takes no more part.
Disconnect ==
  /\ page.at = "live"
  /\ page' = NoPage
  /\ UNCHANGED <<now, running, shop, feed>>

LastSequence(chart) == IF chart.points = << >> THEN 0 ELSE Last(chart.points).x

\* Whether a chart takes a point.  AnyPoint is wrong on purpose.
AnyPoint(k, chart, elapsed) == k # "all" => elapsed <= Window(k).to
TakesPoint(k, chart, elapsed) ==
  /\ k # "all" => elapsed <= Window(k).to
  /\ LastSequence(chart) < elapsed - Window(k).zero

\* The segments after a record that shows the compressor running.  (With the last flag
\* set there is a segment, see BandsMatchPoints.)  ExtendLast is wrong on purpose.
ExtendLast(chart, x) ==
  IF chart.segments # << >>
  THEN [chart.segments EXCEPT ![Len(chart.segments)].end = x]
  ELSE <<[start |-> x, end |-> x]>>
Extend(chart, x) ==
  IF chart.flag /\ chart.segments # << >>
  THEN [chart.segments EXCEPT ![Len(chart.segments)].end = x]
  ELSE Append(chart.segments, [start |-> x, end |-> x])

\* appendLivePointToActiveCharts, for one chart.  A record of before the start is
\* drawn at the start.
Drawn(k, chart, started, r) ==
  LET elapsed == Max({0, r - started})
      x == elapsed - Window(k).zero
      runs == r \in running
  IN  IF ~TakesPoint(k, chart, elapsed) THEN chart
      ELSE [points |-> Append(chart.points, [x |-> x, at |-> r]),
            segments |-> IF runs THEN Extend(chart, x) ELSE chart.segments,
            flag |-> runs]

\* Whether a message is about another test than the page.  OnlyNoTest is wrong on
\* purpose.
OnlyNoTest(m) == m.test = 0
IsOver(m) == m.test = 0 \/ m.test # page.test

\* The timer of the page fires (onmessage, applyActiveTestUpdate): the page says that its
\* test is over, or is loaded again as the phase has changed, or draws the record.
Apply ==
  LET m == Head(page.pending)
      charts == IF m.rec = NotSet THEN page.charts
                ELSE [k \in Kinds |-> Drawn(k, page.charts[k], m.started, m.rec)]
  IN
    /\ page.at = "live" /\ page.pending # << >>
    /\ page' = IF IsOver(m) THEN [page EXCEPT !.notice = TRUE, !.pending = << >>]
               ELSE IF page.phase \notin {"NONE", m.phase}
               THEN [NoPage EXCEPT !.at = "loading"]
               ELSE [page EXCEPT !.phase = m.phase, !.charts = charts, !.pending = << >>]
    /\ UNCHANGED <<now, running, shop, feed>>

-----------------------------------------------------------------------------

\* A second goes by and the PLC takes a record.  Past the bound only the throttle
\* sees the time.
Tick ==
  /\ age' = Min({age + 1, Throttle})
  /\ now' = Min({now + 1, MaxTime})
  /\ UNCHANGED <<running, shop, rt, history, pc, msg, page>>

Init ==
  /\ now = 0 /\ running \in Traces
  /\ test = EndedTest(0) /\ stored = {}
  /\ rt = NotSet /\ history = << >> /\ age = Throttle
  /\ pc = "idle" /\ msg = NoMessage
  /\ page = NoPage

PollStep == PollRead \/ PollFailed \/ BroadcastPick \/ Throttled \/ Send \/ Persist
PageStep == Render \/ Connect \/ Apply

Next ==
  \/ PollStep \/ PageStep \/ StartTest \/ EnterPhase \/ EndTest
  \/ OpenPage \/ Disconnect \/ Tick

Spec == Init /\ [][Next]_vars

\* Beat queues the poll for ever and a worker carries it out; the timer of the page
\* fires; time passes.
Fairness == WF_vars(PollStep) /\ WF_vars(Apply) /\ WF_vars(Tick)
FairSpec == Spec /\ Fairness

-----------------------------------------------------------------------------
(* Properties.                                                             *)

Points == Seq([x : Int, at : Stamps])
Segments == Seq([start : Int, end : Int])
Chart == [points : Points, segments : Segments, flag : BOOLEAN]

TypeOK ==
  /\ now \in Stamps /\ running \subseteq Stamps
  /\ test \in Test /\ stored \subseteq Stamps
  /\ rt \in OptStamp
  /\ history \in Seq(Stamps) /\ Len(history) <= HistoryLength
  /\ age \in 0 .. Throttle
  /\ pc \in PC /\ msg \in Message
  /\ page \in [at : Places, test : 0 .. MaxTests, phase : Phases, charts : [Kinds -> Chart],
                pending : Seq(Message), notice : BOOLEAN]

\* The points of a chart, those the page was rendered with and those drawn since, go
\* from left to right, each once, whatever was stored or sent twice or late.  Only a
\* record of before the start can be there twice: polled twice it is twice in the live
\* history, and a poll that overlaps the start stores it as a sample as well.
PointsInOrder ==
  \A k \in Kinds : LET points == page.charts[k].points IN
    \A i \in 2 .. Len(points) :
      \/ points[i - 1].x < points[i].x
      \/ points[i - 1].x = points[i].x /\ points[i].x + Window(k).zero < 0

\* The bar of the compressor agrees with the points of its chart: it covers each that
\* was taken while the compressor ran and no other.  (A bar that goes to the end of the
\* axis is one the server has left open: it covers what is to come.)
BandsMatchPoints ==
  \A k \in Kinds : LET c == page.charts[k] IN
    /\ c.flag => c.segments # << >>
    /\ \A p \in ToSet(c.points) : OnAxis(k, p.x) =>
         IF p.at \in running
         THEN \E s \in ToSet(c.segments) : s.start <= p.x /\ p.x <= s.end
         ELSE \A s \in ToSet(c.segments) : s.end < AxisMax(k) =>
                ~(s.start <= p.x /\ p.x < s.end)

\* A page draws nothing that was recorded after the next test began, although that test
\* may run before the page hears of it.
DrawsOwnTest ==
  (page.test > 0 /\ page.test < test.id /\ Active) =>
    \A k \in Kinds : \A p \in ToSet(page.charts[k].points) : p.at <= test.started

\* A page that is connected says so when its test is over, also if the next test has
\* begun in the meantime.
Connected == page.at = "live"
ItsTestRuns == Active /\ page.test = test.id
EndNoticed == Connected /\ ~ItsTestRuns ~> page.notice \/ ~Connected

=============================================================================
