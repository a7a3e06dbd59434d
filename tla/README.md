# A verification project for the HVAC test automation

The program (Django, Celery, Redis, PostgreSQL, and an S7-1200 PLC program in SCL) runs
acceptance tests of HVAC units. An operator starts a test; a supervisor task takes it
through the phases START, STABLE and STOP; pollers read the PLC over Modbus TCP and store
samples; at the end the samples are judged against the limits of a recipe and reports are
made. This directory holds TLA+ models of that program, the TLC runs that check them and
TLAPS proofs about them. Everything is translated from the source; the paths below are
relative to `src/`.

## 1. Inventory

| Component | State it keeps | Operations | Hard because |
|---|---|---|---|
| Test lifecycle (`apps/tests/services/test_runner.py`, `test_state_machine.py`, `apps/tests/models.py`) | `TestRecord` rows, the command last sent to the PLC | `start_test`, `supervise_active_test` every second, `complete_test`, `abort_test`, delete | Celery tasks and web requests overlap; each works on its own copy of a row and every save is a statement of its own (no `ATOMIC_REQUESTS`); workers can be killed |
| PLC program (`siemens/s7_1200_modbus_server`) | data blocks, ring of 100 records, 4000 Modbus registers | one scan: clock, signals, outputs, server, ring, register map, `MB_SERVER` | blocks see values of this scan or the last one; overlapping register blocks; nothing is retained over a restart |
| Polling and history sync (`apps/plc/services/poller.py`, `apps/plc/models.py`) | the `PlcRuntimeState` row, `TestSample` rows, `PlcEventLog` | `fast_poll` every 0.5 s, `history_sync` every 2 s | polls overlap when a request waits for its timeout; stale copies of the row; the ring moves on between requests; the PLC restarts |
| Modbus client (`apps/plc/services/modbus_client.py`) | none | reads, simulated and hybrid reads, command stub | requests fail one by one, and each failure is replaced in another way; the tags may be edited between two looks of one poll |
| Evaluation and limits (`apps/tests/services/evaluation.py`, `limit_analysis.py`, `apps/recipes/services/phase_limits.py`) | `TestEvaluationResult` rows, the verdict | `evaluate`, `reconcile_completed_result` | run by the supervisor, by every report task and by every page that shows a test, at the same time |
| Record parser (`apps/plc/services/parser.py`) | none | decode words | widths, word order, validity bits |
| Live history, dashboard push (`live_history.py`, `apps/dashboard/services.py`, `consumers.py`) | a list and a time in Redis | append, throttled broadcast | get and set are two requests; a message held back is not repeated |
| Charts of the active test (`apps/reports/services/chart_builder.py`, `static/js/charts.js`) | the charts of each open page | render, draw a live record, reload, notice the end | the server draws stored samples, the browser continues with messages that are late, repeated or about another test |
| Time sync (`time_sync.py`) | two columns of the runtime row | compare clocks | the client's `sync_time` is a stub |
| Tag registry and settings (`apps/core/services/tag_registry.py`, `apps/core/views.py`) | `TagConfig`, `PlcSchemaConfig`, a cache per process | load, `ensure_defaults`, edit, add, delete | a cache per process, cleared in one of them only; requests to the settings page overlap row by row |
| Reports (`apps/reports`) | files, two path columns | PDF and Excel builders, downloads | a report reads status, tags, rows, statistics and samples apart, while the test is evaluated again; file and path are two steps |
| Recipes, products, companies | rows | create, edit | - |
| Views, templates, scripts, commands | - | presentation | - |

How they interact. The web process and the workers share nothing but the database, Redis
and the PLC. Beat queues `fast_poll`, `history_sync`, `supervise_active_test`,
`periodic_time_sync` and `cleanup_old_events` (`config/settings.py:160-181`) whether or
not the last one has ended. The pollers tell the supervisor about the PLC only through the
columns `plc_fault` and `communication_loss_since`. A test talks to the pollers only
through its row (is it active, when did it start, how long are its phases).

What makes each one correct:

* lifecycle: no verdict before the programme is over; an ended test stays ended; numbers are
  unique; an abort becomes final; every test ends, and its start request is taken back;
* PLC: no sample is missing from the ring, each is in the slot where the client looks, what
  the client reads in one scan belongs together, command levels are kept;
* polling: a sample is stored once, is one the PLC took, in the phase its test had then; the
  runtime row settles to the state of the connection; a loss that lasts is noticed;
* evaluation: the rows and the verdict agree with each other and with the samples;
* charts: points in order, bars that agree with them, nothing of another test, the end is noticed;
* registry: nothing served is older than the cache allows; what is edited in the settings page stays (it does not: section 8);
* client and parser: a value is whole, comes from where it should, and is valid if its source says so;
* reports: what one report says in different places agrees, and a path saved leads to a file.

The hazards behind these, each with its line, are in `PROJECT.json`.

## 2. Plan

1. `TestPromise`, `TestLifecycle` and their proofs. Done.
2. `HistoryWindow`, `PlcServer` and its proofs. Done.
3. `Poller`, between the two abstract specifications of 1 and 2. Done: see section 5.
4. `PhaseLimits`, `Evaluation` and its proofs: limits of a phase, averages, validity, overlapping
   `evaluate` runs, rows against verdict and excursions. Done: see section 6.
5. `Reports`, on top of `Evaluation`: what pages and reports read between two evaluations, and their
   files. Done: see section 10.
6. `TagRegistry` and its proofs: cache per process, `ensure_defaults`, edits of the settings page.
   Done: see section 8.
7. `PlcReader`: the simulated and the hybrid client and the parser. Done: see section 9.
8. `LiveCharts`: live history, push and the charts of the active test. Done: see section 7.

Left: polls that overlap on the live history, the
dashboard and detail pages; recipes, products and companies; command pulses and time sync as a protocol
between server and PLC.

The abstract specifications are `TestPromise` (what an operator may expect of a test) and
`HistoryWindow` (what a reader may expect of the PLC's history); `Poller` is written against both.

## 3. Test lifecycle

`TestPromise` is the abstract specification. A test is `none`, `running`, `verdict`,
`aborted` or `deleted`; it gets a verdict only when its programme is over, an end is final
except that an ended test may be deleted, a deleted test is gone.

`TestLifecycle` is the code. Its unit of interleaving is one database statement together
with the Python code up to the next one. Each process has a program counter `pc` and a
copy of the row it works on; a save writes the columns its `update_fields` names.

| Model | Code |
|---|---|
| `StartCheck`, `StartRecipe`, `StartInsert`, `StartCommand`, `StartCommit` | `start_test`: an atomic block, so the row is invisible until the commit; an insert with a key of an open transaction waits for it (`InsertBlocked`) |
| `SupervisePick` ... `PhaseCommand` | `supervise_active_test` and `determine_phase` |
| `SaveEnded`, `StopCommand`, `Evaluate`/`SaveVerdict`, `EnqueueReports` | `complete_test` |
| `ViewPick`, `ReportPick`, `Reevaluate` | the history page and the report tasks, which evaluate again |
| `AbortPick`, `AbortSave`, `AbortCommand`, `AbortLog` | `ActiveTestView.post`, `abort_test` |
| `DeletePick`, `DeleteRow` | `TestDeleteView` |
| `RowGone` | Django: a save with `update_fields` of a row that is gone raises |
| `PollOk`, `PollLost`, `Tick`, `Crash` | what the poller leaves in the runtime row; the clock; a killed process |

`write_test_command` is a logging stub in this code, so `command` is the last command
issued. The verdict is a free choice here; `Evaluation` says which one it is. One
element of `queued` stands for the four report tasks. `result_passed`,
`fail_reason_summary` and `abort_reason` change together with the status and are left out.
The IDLE branch of `determine_phase` cannot be reached, as `started_at` is always set.
`test_no` has the resolution of a second (`TicksPerSecond`). For liveness the clock must
not run out; `SlidingSpec` subtracts a tick from every stored time when the clock is at its
bound, which no guard can tell as they only compare differences up to `MaxTime`.

| Run | What it shows |
|---|---|
| `races` (1.66 M states) | two overlapping supervisors and two web workers, either of which starts tests while one aborts and views and one deletes; two tests that may begin within the same second: refinement of `TestPromise` (`KeepsPromise`), hence no early verdict, no resurrection and no deletion of a running test; `TestNoUnique`; `AbortSettles` |
| `ends` (215 k) | every active test ends although supervisors overlap, the connection is lost and one process is killed; the start request is taken back when nothing is killed |

`AbortSettles` is what can be said of an abort under overlapping supervisors: `evaluate` does save a verdict over ABORTED
(`evaluation.py:66`) if its task picked the test before the abort, so an abort is final only once those who held the row
have returned, and then it is, whatever they did. `StartPulseEnds` needs that no process is killed: the
start command goes out before its transaction is committed, and a crash between the two leaves the request up.

Seen in the model and not made runs:

* Two operators who start a test at the same time both pass the check of `test_runner.py:39`, and two
  active tests are inserted. What does hold, for any number of operators, is the theorem
  `OperatorsOwnTheirTests`: no two active tests come from the same one.
* Phase times and commands are right under one supervisor only. With two, a supervisor with an
  old copy enters a phase that has begun and overwrites its time with a later one; the programme gets longer, never shorter
  (`KeepsPromise`). And a supervisor that read the row before an operator aborts the test sends its phase
  command after the abort command (`test_runner.py:100`): the PLC keeps `TestActive` = 1, and no later task looks at a test that is not
  active. Celery does not keep two of these tasks from overlapping, so no property is stated that would need it.
* The requests of stop and abort, which the documentation of the PLC program calls pulses of two
  seconds (`docs/s7-1200-modbus-server/README.md:37`), are taken back by no code: they stay raised until the command of the next test.

Bounds. Two supervisors are enough for every race of a stale copy with a save, two web workers for two
inserts that meet. Two tests are enough for an old and a new one, and two ticks of a second for two tests in one
second and in two; durations of one tick keep every phase boundary. In `races` a web worker has one role at
a time (a process is one request after the other), and the connection holds, as a lost one only adds another reason to abort;
it is lost in `ends`. One crash can be anywhere. The theorems below are for any number of all of these.

Fairness (`Fairness`): beat queues the supervisor every second and a worker takes it, so
each step of a supervisor that can be taken is taken in the end; requests and report tasks
that have begun are carried out; time goes on. Crashes are finitely many. Nothing is assumed
of operators, who may never come, or of the connection.

## 4. The PLC program

`HistoryWindow` is the abstract specification: the last sample and the set of numbers kept;
a sample is added under the next number and at most the oldest kept is dropped; a restart forgets all.

`PlcServer` is a scan of `FC_MB_Server_Side`, one action per block in the order in which
they are called: `Runtime`, `Signals`, `Outputs`, `Server`, `RingBuffer`, `RegisterMap`,
then `ModbusRead` or `ModbusWrite` or neither, as only `MB_SERVER` lets a client in.
`Restart` can come between any two blocks and resets every data block (`NON_RETAIN`).
Timers are abstracted to "on for one scan", at any scan; the sine values of simulation to their
means; energy counts to `MaxEnergy`. Registers keep their addresses and their width of 16
bits. The overlay of history slots on command registers only exists from capacity 21 on, so
`plc_levels` has the real 100 and the passing run, whose questions are about the
ring, has 3 (2.0 M states); the ring properties are proved for every capacity.

`plc_ring` checks the slot of each number, that what a client
reads in one scan belongs together, and the refinement of `HistoryWindow`. `plc_levels` shows
what the overlay does to the command levels: the ring is written over them. It does the same to
the registers of the abort request and of the time synchronisation, for which there is no run.

## 5. Polling

`Poller` composes the two abstract specifications (`Plc == INSTANCE HistoryWindow`,
`Lives == INSTANCE TestPromise`) with the two Celery tasks, each step of which is one
statement or one Modbus request. `rt` is the runtime row, `mem[p].rt` the copy a task
loaded; `PollSave` writes the whole row, `FailSave` and `SyncFailed` the columns named.

| Model | Code |
|---|---|
| `PollLoad`, `ReadStatus`, `ReadLive`, `PollPick`, `PollSave`, `LogRestored` | `fast_poll:24-60` |
| `PersistPick`, `PersistCheck`, `PersistInsert` | `_persist_live_sample_if_needed` |
| `FailSave`, `LogLost` | `fast_poll:61-81` |
| `SyncLoad`, `SyncPick`, `SyncLast`, `SyncOverrun`, `SyncRead`, `SyncCheck`, `SyncInsert`, `SyncFailed` | `history_sync` and the requests of `_read_history_records_from_plc` |
| `InsertRefused`, `OverrunRefused` | `IntegrityError` of the unique index or of a deleted test |
| `StartTest`, `EndTest`, `DeleteTest` | the steps of `TestPromise` |
| `TakeSample`, `PlcRestart` | the steps of `HistoryWindow` |

Modelled is the client without simulation. One operator starts tests, so one test is active.
The clock of the PLC runs with the server's but begins at 0 after a restart, as
`sync_time` only logs. A sample with number 0 is the empty record of a ring slot or live record never
written. `Capacity` is 1 in `poller_samples`, so that the ring overruns with
the second sample, and 2 in `poller_link`.

| Run | What it shows |
|---|---|
| `poller_samples` (2.0 M) | poll and sync on two tests while the ring overruns: `SamplesGenuine`, samples as the PLC took them |
| `poller_link` (335 k) | poll and sync over a cut, a crash and a PLC restart, under fairness: a loss is noticed, the row settles to the state of the connection, stored samples keep up with the PLC |

That a sample has the phase its test was in when it was taken is only proved (`PhaseIsOfItsTest`, for any number
of polls and syncs, any recipe and any times), as it needs more seconds and phases than a run can have; and it is said of
samples from after the start only. Of those from before it the opposite holds, as the next paragraph says.

Seen in the model and not made runs: two polls load a row that is up; one fails, saves and logs the loss, the other succeeds,
saves that the connection is up and logs nothing, as its own copy was up (`poller.py:48-53`), so the event log ends with
a loss while the connection lasts; a poll that waited for its timeout saves an
old `communication_loss_since` after one that has succeeded (`poller.py:63`), and a sync that loses the
connection logs no event; once `fast_poll` has stored a newer sample a gap
below it is never filled; after a restart of the PLC live samples are taken for samples already stored; a test without samples asks for everything since the
PLC started, so `history_sync` stores up to a ring of records of the idle time before it, those of an earlier test
among them, as START samples of that test, and they are judged with the others, while `README.md:19` says that idle data is not stored; and for the same reason the first sync of a
test reports an overrun once the PLC has taken more samples than its ring holds. Fairness: beat queues both tasks for ever, a task that can take a step
takes one in the end; nothing is assumed of the connection, the PLC, the tests or the clock. So
`ConnectionRecovers` speaks of a connection that stays as it is.

## 6. Evaluation

`PhaseLimits` has the limits of a parameter, as recipes hold them and tests copy them, the older form
without phases included. `Evaluation` is one test after its end and any number of processes in
`evaluate`, one step for each database statement. The supervisor is one of them; history page,
detail page and each report task are others, as all of them call `reconcile_completed_result`.

| Model | Code |
|---|---|
| `Begin` | `complete_test` or `reconcile_completed_result` with the first look at the tags |
| `DeleteRows`, `EnterPhase`, `ReadValues`, `CreateRow`, `SaveVerdict` | the statements of `evaluate` |
| `Outcome`, `Counted`, `Codes` | `_evaluate_single`, `phase_valid_values`, `_parameter_codes` |
| `Refused` | an insert or a save for a test that is gone |
| `Excursions` | `LimitAnalysisService.analyze` |
| `Arrive`, `EditTag`, `DeleteTest`, `Crash` | a late insert of the pollers, the settings page, `TestDeleteView`, a killed process |

An evaluation looks at the tags several times, and each time finds those of the database or of a cache
that is at most five seconds old (`Known`); with more than one edit in five seconds a cache could
be older than the model has it. `ENDED` is RUNNING with `ended_at` set. Averages are compared as the
code does it, unrounded; one unit is the fourth decimal.

`evaluation` (1.9 M states): two processes, two parameters of different scope, two samples and a
late one, limits of both forms, an edit, a crash. `OneRowEach`: rows double only as often as
evaluations overlap. `NoRowMissing`: although each evaluation deletes the rows of all others, none is
missing in the end. `VerdictOfSamples`: it does not matter whose verdict is saved last. The
premises name what breaks them: an edit of a tag, a late sample or a crash leaves rows and verdict
that the next visit of a page mends. `ShownDecides`: averages are judged unrounded and kept rounded to four decimals; one that is
kept beyond a limit has failed and one kept strictly within its limits has passed. Only one kept as the limit itself does not tell: it
may have failed by less than half a unit, and page and report, which compare what was kept (`views.py:275-288`,
`report_context.py:196-209`), then say of a failed row that it has passed.
Two processes are enough, as a property speaks of two at most: the one that deletes and the
one whose row or verdict it meets; the theorems below are for any number. Samples are finitely many, values and
limits whole numbers (`SamplesAssumption`, `SnapshotsAssumption`), as they are in the units of the averages.

## 7. Live charts

`LiveCharts` is one page of the active test, from its request to its end, and what feeds it: the
list of live records, the throttled broadcast, the stored samples. The server and the browser each
have their own way to draw: `ServerChart` is what the page is rendered with, `Drawn` what the script
adds for a message. A chart is the whole test (`all`) or one phase with its context.

| Model | Code |
|---|---|
| `PollRead`, `PollFailed`, `Persist` | `fast_poll`, `append_live_history`, `_persist_live_sample_if_needed` |
| `BroadcastPick`, `Throttled`, `Send` | `broadcast_runtime_update`, `_should_broadcast` |
| `StartTest`, `EnterPhase`, `EndTest` | the steps of `TestLifecycle`, with the records of before the start |
| `Window`, `Source`, `Bands`, `ServerChart` | `ChartBuilderService` |
| `OpenPage`, `Render`, `Connect`, `Disconnect` | `ActiveTestView`, `bindLiveSocket`, `DashboardConsumer` |
| `Apply`, `Drawn`, `TakesPoint`, `Extend`, `IsOver` | `applyActiveTestUpdate`, `appendLivePointToActiveCharts` |

One series and one compressor stand for all, as each is drawn on its own. A record is named by its time;
one is taken each second. Polls follow one another. Only the latest message waits at the page
(`pendingWsPayload`), so `pending` has at most one. `Render` reads the row and the samples in one step.
What `history_sync` stores is left out, as a page shows it only when it is loaded again, and so is
the hash of the payload, as the age of the data is part of it.

`live_charts` (465 k states): two tests, a page that may be opened, left and opened again at any
time. `PointsInOrder` and `BandsMatchPoints`: the joint between what the server drew and what the
browser adds holds whatever was sent late, twice or not at all. `DrawsOwnTest`: the page of one test
takes nothing of the next. `EndNoticed`: although a message held back by the throttle is not sent again,
a page that stays connected says that its test is over. Three seconds and a live history of one record are
enough for every order of poll, broadcast, request and end; a throttle of two seconds skips records;
the compressor runs, stops and runs again. A live history of one record has no repetitions, the second
case `PointsInOrder` allows for; the theorems below are for any length of it and any times.
Fairness: beat queues polls for ever, the timer of the page fires, time goes on. Nothing is assumed of the
operator, the tests or the PLC.

Seen in the model and not made runs: a bar that the server leaves open to the end of the axis stays
there when the compressor stops later; the page draws a record of before the start at zero, where the server
draws it at its own place; the page does not know its phase until the first message, as its data is escaped
for a script and then parsed as JSON (`apps/tests/templates/tests/active.html:17`); a broken websocket is not opened again.

## 8. Tag registry and settings

`TagRegistry` has the two tables, the cache of each process and the requests to the settings page, one step
for each statement or access to a cache. Requests of the web process run in threads and share its
cache; a child of the worker has a cache of its own and one task at a time, hence one reader for it.

| Model | Code |
|---|---|
| `LoadValue`, `StoreValue`, `Unexpired`, `Loaded` | `get_tags`, `get_register_layout`, `_get_cached`, `_load_tags`, `_load_layout` |
| `Visit`, `Post` | `SettingsView.dispatch`, `SettingsActionView.post` |
| `EnsureRead`, `EnsureFix`, `EnsureMake`, `Clear` | `ensure_defaults`: read, save row by row, `bulk_create`, `clear_cache` |
| `PickTag`, `SaveTag`, `AddTag`, `DeleteTag`, `SaveLayout`, `Refuse` | the forms of the settings page |
| `Tick` | the clock; `MaxLoad` bounds the time from a load to its store |

A column of a tag is either as in `TAG_DEFINITIONS` or edited; what the values are used for is in
`Evaluation` (whose `Known` is what `StaleBound` justifies) and `PlcReader`.

`registry` (2.0 M states): two requests, two default tags of which one is disabled, one reader in each
process, two forms. Two requests are enough for each statement of one to come between any two of
the other; deleting and adding a default tag stands for the tags that are not default. `StaleBound`: what a process
serves was in the table at most five seconds and one load ago, although a cache is cleared in one process
only, a request may fail before it clears, and a value loaded before a change can be stored after the clear.

`settings_edits` finds a disagreement of code and page. The page says that tags are managed there, and "Tag was updated." after an
edit (`ui_translations.py:177`, `:221`); but each visit of the page begins with `ensure_defaults`, which writes the defaults over
every default tag that differs (`views.py:22`, `tag_registry.py:99-140`), and the page the browser is sent to after the edit is such a
visit. `EditsStay` says what the page promises and is violated in a few steps. That the visits do
restore the defaults, whatever overlaps, is proved (`SettingsRestoreDefaults`).

Seen in the model and not made runs: a tag deleted
while another request edits it is inserted again by that save; a disabled tag without a row is active until the
next visit (`tag_registry.py:179-255` does not look at the disabled ones); a request refused by `ensure_defaults` leaves
its cache as it was.

## 9. Client and parser

`PlcReader` is one call of `fast_poll` or `read_history_records` after the other, with the samples parsed from what it
returns. A register word carries where it comes from: the scan of the PLC and the offset, or the simulated
value and the number encoded. So a property can say what a value was put together from.

| Model | Code |
|---|---|
| `Begin`, `BuildNext`, `Choose` | `fast_poll`, `_hybrid_fast_poll`, `_hybrid_history_records` |
| `Build`, `SimValue`, `Encode`, `Jittered`, `SimPhase`, `Running` | `_build_record` and what it calls |
| `ReadStatus`, `ReadPayloadStatus`, `ReadLive`, `ReadHistory`, `ReadTag`, `Rebuild` | the requests, and what is done when one fails |
| `Overlay` | `_overlay_simulated_tags` |
| `ParseNext`, `Parsed`, `WordsOf`, `Number`, `Valid` | `PlcParserService.parse_record` |
| `Scan`, `Edit` | the PLC moves on; the settings page changes a tag |

A tag is a row of the table with one choice of the columns that say where its registers are and how they are read
(`register_offset`, `modbus_address`, `data_type`, `word_order`, `validity_bit`). `Edit` saves a row with all its columns, so that it may
put another tag into the row; a row that is deleted is no longer active. `_build_record` writes the tags in the
order of `get_tags` (`Place`), so that one that overlaps another overwrites it.

Nothing in the code keeps the registers of two tags apart, or stays the same between the looks of a
call at the table: there is no lock, no copy, and no check in the form. An edit of the offset, the type or the word order of a tag between building a record
(`modbus_client.py:88`) and parsing it (`parser.py:121`) joins words that do not belong together. So the properties name what they need:
`Apart`, the rows do not overlap and lie in the live record, and `Steady`, which adds that no
tag was put into another place during the call; `NeverTorn` and `ReadsBack` hold under `Steady`, and both are violated without it.
Switching tags on, off, to the PLC or to the simulation during a call needs no premise.
`ValueFromItsSource` and `ValidIfPlcSaysSo` are about calls during which no tag is edited at all (`calm`).

Assumptions of the module: a word has an even number of values (its sign is one bit), and a test has at most two circuits.
The lengths of the blocks (`PlcSchemaConfig`) are constants. Left out are the
scale, the number a float32 stands for, and the sine waves, which are any value.

`reader` (656 k states): two rows, one with one word and a compressor, one with two words, low word first. An edit turns the second into one of
other registers, type, order and validity bit (the bit of the first, so that the two share it), or into one that overlaps the first. A history record
ends in the middle of the second row; words of 16 values make signs, high words and jitter meet the bounds; one scan and one edit at any point of
a call. `NeverTorn`: no value is put together from
two sources. `ValueFromItsSource`, `ValidIfPlcSaysSo`: real tags show the PLC, unless nothing could be read; a real tag
is shown valid against the PLC only by a simulated tag that shares its validity bit, which several tags of `TAG_DEFINITIONS` do.
`HistoryNotMixed`: the records of one read may be compared with each other. `ReadsBack`: encoding and parsing
are inverse up to the jitter.

Seen in the model and not made runs: after a failed live read a hybrid record has the time as its sequence
number, and `history_sync` finds nothing missing any more; a record rebuilt tag by tag shows all tags valid,
whatever the PLC says; history records have 34 words, so tags 127 to 132 have no value in a synced sample though
their validity bit may be set; a simulated -1 or -2 with its jitter can leave the range of a word, which `_s16` does not cut;
with the low word first the jitter hits the high word; a simulated float32 encodes the bits of an integer; in the
second in which a test starts the simulation says IDLE while the poller stores START.

## 10. Reports

`Reports` EXTENDS `Evaluation`: some evaluators (`Reporters`) are a page, a download or a report task, which
first evaluates, then reads one query after the other (`Refresh`, `ReadDefinitions`, `ReadExcursions`, `ReadResults`,
`ReadStatistics`, `ReadSheet`, `ReadAll`, `ReadDrawn`, `ReadMarks`), then writes the file (`WriteFile`) and saves its path
(`SaveStamp`). Statistics are represented by the samples they are over; `Cell`, `StatCell`, `Messages`, `Average`
and `Label` are what the report shows. `Messages` is made of the average as the database gives it back, with four decimals
(`Shown`), while the result beside it was judged by the exact one. `Axis` is the time of the charts, from `Context` seconds before the start to the planned end. A step of an evaluation leaves no other reporter `alone` that has not read
its results yet (`Disturbed`), whether it is made by a reporter or by somebody else. `Other` is an evaluation of another process, `Arrive` a late sample, `NewMonth`
the clock, which is in the path.

`reports` (2.6 M states): a reporter that makes pages and files, another evaluator, a parameter with limits in
START and STOP, a crash, a deletion, two months. The sample of START is one that a sync has stored from before the axis of the charts; STOP has one
sample and gets another, with the time of the planned end, whose average with the first lies half-way between the limit and the next unit.
`HeadMatchesTables`, `FailedIsListed`: the head, the tables and the list of excursions agree, as long as no other evaluation overlaps
and no tag is edited; late samples may come. A failed row says that it has passed in one case, which the property names: if its average is rounded
to the limit itself. `ListedIsMarked`: an excursion in the list from within the axis is drawn and marked
in the charts made later. `AverageInRange`: an average as it is shown, of a first sample, lies between the minimum and the maximum next to it, of one or two, whatever other
evaluations do. `SheetsAgree`: the sheet of all samples has those of the phases. `PathHasFile`: a path saved leads to a
file, whoever is killed. One reporter is enough: reports meet in the rows, the files and the path only, and
evaluations of others are `Other`; the theorems below are for any number of both.

Seen in the model and not made runs: the Excel sheet of the stable statistics always says N/A, without limits, as its rows
carry no result (`StatCell`); a report of a test that still runs says FAILED, also one downloaded after
`ended_at` was saved and before the verdict, and its time makes it look fresh until the report tasks have
run; `pdf_generated_at` is one for both languages, so an old file of the other language looks fresh; files are
not written atomically, and those of a deleted test stay; excursions after the planned end, or from before the axis of
a chart (`chart_builder.py:356`), are listed but not marked in it.

## 11. Proofs

Proved for every value of the constants that meets the named assumptions.

* `TestLifecycleProofs`: `TypeCorrect`, `Inductive` (`IInv`), `NoEarlyVerdict`. `IInv` is needed
  because `CompletedOnlyWhenDue` is about the row while the verdict is saved from a copy:
  it says that copies and keys belong to the test they are about and that phase times in any copy, old or
  new, are late enough for the durations of the recipe.
  In its second part, on the history of the rows: `LifecycleKeepsPromise`, each step of the code is a step of the promise
  or a stutter; `EndedTestsStayEnded` and `DeletionSparesActive` follow along the same cases;
  `NumbersUnique` for any number of operators (rows and keys held by open transactions are
  unique together). `OperatorsOwnTheirTests`, also for any number of them, by `OwnersInv`, a map from active tests and
  open transactions to the operators they come from. `AbortsSettle` by the cases of the steps: nobody picks a test that is aborted to judge it.
* `PlcServerProofs`: `PlcTypeCorrect`; then by `RingInv` (the ring is the last samples in
  order, the write index is the slot after the newest) and, within a scan, `LapInv` and `NewestIsLive`:
  `RingOrdered`, `SamplesFound`, `WireIsConsistent` and the refinement `RingKeepsWindow`.
* `PollerProofs`: `PollerTypeCorrect`, `PollerInductive`, and from `IInv` `UniqueSamples`,
  `GenuineSamples` and `PhaseIsOfItsTest`, all for any number of polls and syncs. `IInv` is needed because a sample is written from what a task
  read some steps ago: it says that every record in a task's hands was taken by the PLC and has
  the phase of the test the task works for, and that no sample is stored for a test that has not begun.
* `EvaluationProofs`: `EvaluationTypeCorrect`; `OneRowForEach` by `RowsInv` (the rows of a process are
  behind it in its loops); `RowsComplete` by `CoverInv` (a limit without a row has a process that
  will still make it); `VerdictIsOfSamples` by `FoundInv` (what a process has found so far is what the
  samples say). `ShownAverageDecides` looks into `Outcome`: a row is as it was judged (`JudgedInv`), and a rounded
  average does not get past a limit. `SumBounds`, that a sum of values is at least the least and at most the
  greatest times their number, is an induction over finite sets; it is done by the smallest set for which it would
  fail, and so is that the fold of the community modules is a sum at all.
* `ReportsProofs`: `ReportsTypeCorrect`, as each step of `Reports` is a step of `Evaluation`, or a reporter killed outside of it,
  so that what is proved there holds here; then all six properties of the run. `PathsHaveFiles` by `PathInv`, `SheetsFit`
  by `SheetInv` (samples only come), `ListedAreMarked` by `ListInv`. `AveragesInRange` by `BasisInv` and `ResultInv`: rows, results
  and values in hand are taken over samples that are still there, and statistics read later are over at least those;
  then `SumBounds`. `FailuresAreListed` by `FailedInv`: an average beyond a limit has a sample beyond it, again by
  `SumBounds`. `HeadsMatchTables` by `AloneWith`: a reporter that is alone finds the rows of its own evaluation and no others,
  one for each limit it has done, and a failed one exactly if it remembers a failure; so status, verdict and
  results agree when it reads them.
* `TagRegistryProofs`: `RegistryTypeCorrect`; `CacheStaleBound` by `AgeInv` (what a cache holds, or a reader is about
  to store, is at most as old as it says); `SettingsRestoreDefaults` (`VisitRestoresDefaults`: a visit that is not refused leaves the default tags as they were designed,
  unless a form changed one since it read them) by `KeyInv` and `PlanInv` (what differs from the
  defaults while a visit is under way is still in its plan).
* `PlcReaderProofs`: `CallIsInvariant` (`Inv`), and from it `PlcReaderTypes`, `NeverTornAlways`, `ValueFromItsSourceAlways`,
  `ValidIfPlcSaysSoAlways`, `HistoryIsNotMixed` and `ReadsBackAlways`. `Inv` is needed because a sample is parsed at the end of a call from
  records that were built, read, rebuilt and overlaid many steps before: it says of each record in hand where each of its
  words comes from, and which table was in force. It follows only the tags that can be followed (`Followed`): those of rows that do not
  overlap and have not become other tags during the call; every look at the table then finds them in their rows (`SteadyInv`), and each of their words has
  one tag that writes it (`OneOwner`). An edit of registers ends all that is held against the records of the call. That among the tags which write a word there is a last one, and among those
  to be read a first one, is proved by the smallest number of a set (`SmallestExists`, `LastExists`), as the provers have no induction over numbers.
  `ReadsBackAlways` adds to it that the words of a simulated tag are the encoding of one value (`Encoded`, a conjunct
  of `Good`); a jitter of two then stays in its word (`JitterIsSmall`), and two words are put together again
  (`DoubleReadsBack`, `SignOf`) for any even number of values of a word.

* `LiveChartsProofs`: `ChartsTypeCorrect`, and the other three safety properties of the run. `PointsStayInOrder` by `FeedInv`: the live
  history is in order, and no record of before the start is later than a sample, because a poll stores only what it
  has read last. `BandsFollowPoints` by `BarsFit`, which `BandsMatchPoints` does not contain: a bar that has ended ends
  at a point, and while the flag is set the last bar, which the next point may lengthen, has no point of a
  stopped compressor after its start. `PagesDrawTheirTest` by `PastInv`: what is under way about an earlier test is from before the start
  of the active one. `Keep`, the filter of the model, is a recursive function; that it has the members asked for,
  in order (`KeepPicks`), and that it exists at all, is shown by the smallest index for which it would fail.

The runs repeat only what is a question of its own: the type invariants of the proved modules, the inductive
invariants, `CompletedOnlyWhenDue`, `NoResurrection`, `DeleteSparesActive`, `OneTestPerOperator`, `RingInOrder`, `SamplesUnique`, `PhaseOfItsTest` and
`VisitRestoresDefaults` hold by
these theorems and are in no configuration.

Assumptions are the named `ASSUME`s of the modules (positive capacity, durations and bounds
natural numbers); TLC evaluates each of them in the runs.

Only model-checked: everything under fairness (no prover installed handles it), the
properties of the runs `ends` and `poller_link`, `EndNoticed`,
and what the theorem list does not name.

## 12. Not modelled

Command pulses and time sync as a protocol (the client's writes are stubs that log); the dashboard and detail
pages; polls that overlap on the live history; single-phase charts in reports, and the drawing of charts.
Recipes, products and companies are forms of single rows; a test copies what it needs of a recipe in one read when
it starts. Templates, scripts, chart layout, migrations and demo-data commands are presentation or tooling.
The wrap of `SequenceNo` at 2^32 is out of the bounds: it takes 68 years of samples.
