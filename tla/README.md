# Insanity: a TLA+ model of the test runner

Insanity runs test programs: a client owns a list of *test runs*, a test run
turns its batches into *tests*, and each test is a program spawned on a private
D-Bus session bus, driven by asynchronous remote calls and observed through
signals.  Everything that happens is written to a *data storage* by a thread of
its own.  This directory holds TLA+ modules for those parts, the TLC
configurations that check them, and proofs for the parts whose correctness
should not depend on a bound.  Source paths below are relative to `src/`.

## 1. Inventory

| component | code | state it keeps | operations | who it talks to |
|---|---|---|---|---|
| Action queue thread | `insanity/threads.py`, `insanity/storage/async.py` | lock, condition, `_queue`, `_exit`, `_abort` | `queueAction`, `queueFinalAction`, `abort`, the worker's `run` | every writer of an asynchronous storage |
| Test (base class) | `insanity/test.py` | iteration, `_stopping`, two timers, per-iteration arguments and checklists | `run`, `setUp`, `start`, `stop`, `tearDown`, timer callbacks, `validateChecklistItem` | signals to TestRun; GLib timers |
| DBusTest | `insanity/dbustest.py` | subprocess, return code, proxy, poll timer | reply and error handlers, `_newRemoteTest`, `_removedRemoteTest`, `_pollSubProcess` | the program over the private bus |
| libinsanity program | `lib/insanity/insanitytest.c`, `insanitythreadedtest.c` | run level, iteration, `exit`, worker thread, tables of results and arguments | `on_setup`, `on_start`, `on_stop`, `on_teardown`, `insanity_test_done`, `validate_checklist_item`, the standalone run | the runner over the private bus |
| Checklist | `insanity/test.py`, `insanitytest.c` | one table in the program, one list per iteration in the runner, expected failures | `validateChecklistItem`, `getIterationCheckList`, `getSuccessPercentage` | storage, reports |
| TestRun | `insanity/testrun.py`, `insanity/environment.py` | `_tests`, `_runninginstances`, environment | `run`, `abort`, `addTest`, `_runNextBatch`, callbacks of the tests | Test signals, storage, client |
| TesterClient | `insanity/client.py` | `_testruns`, `_current`, `_running` | `run`, `quit`, `addTestRun`, `_runNext`, callbacks of the run | TestRun signals, storage, main loop |
| Data storage | `insanity/storage/storage.py`, `dbstorage.py` | rows of `testrun`, `test`, dictionaries; maps from objects to row ids | `startNewTestRun`, `newTestStarted/Stopped/Finished`, `endTestRun`, `close` | SQL database |
| Class information, merge | `insanity/storage/dbstorage.py`, `bin/insanity-dbmerge` | `testclassinfo`, the dictionaries of names | `__storeTestClassInfo`, `__storeMonitorClassInfo`, `merge` | two databases |
| Opening, conversion | `insanity/storage/dbstorage.py`, `dbconvert.py`, `sqlite.py`, `mysql.py` | the scheme and its version | `_setUp`, `_createTables`, the conversions 1 to 2 and 2 to 3 | SQL database |
| Arguments, generators | `insanity/arguments.py`, `generator.py`, `generators/` | position of the enumeration | `next`, `current`, `len`; `generate` | tests; files and processes |
| Test metadata | `insanity/testmetadata.py`, `utils.py`, `bin/insanity-run` | the alarm of the process and its handler | scan of a program with an alarm | the program's standard output |
| Web runner | `web/insanityweb/runner.py`, `views.py`, `management/commands/daemon.py` | current run, progress | `start_test`, `stop_test`, the client's `stop`, `clearTestRuns` and `quit` | TesterClient, the pages |
| Monitors | `insanity/monitor.py` | external tools | `setUp`, `tearDown` | gdb, valgrind, log files |
| Other clients, reports | `bin/`, `web/` views and models | none | queries | storage |

How they interact.  All of the runner's Python code runs as callbacks of one
GLib main loop, so a callback is atomic for the others, with two exceptions:
`DBusTest.tearDown()` blocks the loop in `kill_process()` while the program goes
on, and the storage's worker thread executes queued writes at its own pace.  The
program has a main loop of its own and, for an `InsanityThreadedTest`, a worker
thread.  Between runner and program only asynchronous calls, their answers,
signals and the loss of a bus name travel.  Before the main loop there is only
the main thread, and the alarm of its process.

What is hard here, and what correctness means:

* *Action queue*: wake-ups, aborts and a close that race with the worker.
  Nothing accepted is lost, reordered or begun after an abort; the thread ends
  when told to.
* *One test*: answers that cross timers, aborts and the death of the program;
  two stops on their way at once; a worker thread that outlives its run.  Every
  iteration is started and stopped once, in order; what is reported is filed
  under the right iteration; the test is done, once; no process stays behind.
* *Checklist*: two filters, of which neither sees what the other has dropped,
  and a list that is stored while it may still change.  A verdict is one that
  was reported in its iteration, and it stays.
* *Test run and client*: three places call `_runNextBatch()`; signals of an
  aborted run arrive when another is current; the storage is closed while tests
  run.  Each batch is executed, runs do not overlap, the run is done once, and
  the client quits with everything stored.
* *Storage*: the worker reads test objects the main loop goes on changing; a
  kill leaves what happened to be committed.
* *Merge and conversion*: every id changes, in some twenty commits.  What is
  copied or moved says what it said before, also after a kill.
* *Start-up*: one alarm and one handler for every read that may hang.
* *Web runner*: a client that must not quit, whose aborted runs end late.

`PROJECT.json` lists each of these hazards at its line, with the property that
would catch it or the reason why none does.

## 2. Modules

| module | models | remarks |
|---|---|---|
| `SerialExecutor` | what the docstring of `ActionQueueThread` promises | abstract: a log, executed in order, closed by a final action, cut off by an abort |
| `ActionQueue` | `threads.py` 81-188 | one action per stretch of code between two lock operations; the condition variable is modelled by the worker sleeping and a `notified` flag |
| `TestLifecycle` | what listeners of one test rely on | abstract: start, stop, start, ..., in every life; when nothing goes wrong one per argument set, then done, once |
| `RemoteLink` | the private bus and the subprocess | external: order of calls, answers, signals, and what the bus daemon says when a program leaves |
| `InsanityTest` | `insanitytest.c` in remote mode and `insanitythreadedtest.c` | the creation of the thread and the assignment of `priv->thread` are two steps |
| `DBusTest` | `test.py` and `dbustest.py` | one action per callback; `tearDown()` is two, before and after `kill_process()` |
| `RemoteSession` | the last three composed, with their properties | |
| `Checklist` | the results, from the program's table to the verdicts of an iteration; the standalone run | |
| `TesterClient` | `client.py`, and the storage as seen from the main loop | shared by the two compositions below |
| `TestRun` | `testrun.py` composed with the client, with the properties of both | a test is reduced to what `TestLifecycle` says, plus named exceptions |
| `WebRunner` | `runner.py` and the pages composed with the client | a run is reduced to the arguments its test takes |
| `DBStorage` | the queued writes, the asynchronous and the synchronous storage | `tables` is what the connection sees, `disk` what is committed |
| `DBMerge` | class information and `merge()` | two databases, one program at a time |
| `DBConvert` | `_setUp()` with its conversions | every statement is a commit; `stmt` is the next one, with its row |
| `Arguments` | `arguments.py` | |
| `Startup` | `bin/insanity-run` up to its main loop: metadata, generators, `Arguments` | |
| `ActionQueueProofs`, `RemoteSessionProofs`, `TestRunProofs`, `DBStorageProofs`, `ChecklistProofs`, `StartupProofs`, `WebRunnerProofs`, `DBMergeProofs` | theorems about these modules | section 4 |
| `MC*` | instances for TLC | |

Correspondence.  A variable carries the name of the attribute or field it stands
for, or its comment does (`stopping` is `Test._stopping`, `runlevel` is
`priv->runlevel`).  Variables whose comment says *history* have no counterpart:
they record what observers were told, or what was lost on the way (`stops`, `dones`,
`filed`, `ran`, `leaked`, `log`, `lost`, `calls`, `copies`, `origin`, `stale`) and no guard of the modelled code reads them, except
where they bound the environment.  The map in `PROJECT.json` gives the lines of
every definition.  Definitions whose comment says *Mutant* are variants of the
definition that follows with a plausible bug; they are used by no specification
and serve to show that a property notices the bug.

What may go wrong is a *constant of the behaviour*: the variable `faults`
(`RemoteSession`), `events` (`TestRun`, `WebRunner`) or `programs`, `generators`
and `slow` (`Startup`) is chosen in the initial state and never changes.  A
property can so be conditional on what the environment does, and one run can
cover several environments.

Abstractions.

* Time: an armed timer may fire at any moment, which covers whatever `ping()` and
  the configured lengths do to it.  In `Startup`, an alarm that was left behind
  goes off before the main loop only if somebody is slow.
* Arguments: a number per set; a set may fail to parse (`badArgs`).  `Arguments`
  has the positions, not the items.
* Results: in `RemoteSession` a checklist item carries only the run in which it
  was reported.  `Checklist` has their values, and takes from `RemoteLink` that a
  program's messages arrive in order.
* Storage in `TestRun` and `WebRunner`: a sequence of writes, cut off by
  `close()`; that such a sequence reaches the worker in order is what
  `ActionQueue` shows, and what becomes of the writes is `DBStorage`.
* `DBStorage`: a step of the worker reaches up to the next point where it commits
  or reads a test object, since these are the points where the main loop, or the
  end of the process, can make a difference.  A crash is no action: it leaves
  `disk`, and an invariant on `disk` says what is found after a crash at any
  moment.  A checklist or a dictionary is its length, which is what distinguishes
  a live list from the one that was handed in; a row of `test` holds whose results
  were written into it.  Every test is of a class that the database does not know
  yet, the case with the most commits.
* `DBMerge`: a program is a list of statements still to do.  A merge
  adds to the list what a query found when it gets there (the classes of a run that are
  missing, the next test, a parent that comes before its class).  A
  dictionary is the set of its names, and of dictionaries that are treated alike
  one is in the model.
* `DBConvert`: the conversion is one sequence of statements, so the program is the
  statement that is next and the row it is at.  The id of a row is its place in the
  table, as it is for a table from which nothing was ever deleted.  Of dictionaries
  that are treated alike one is in the model, and a value is left out.
* In both a kill is an action, because the next program goes on with what it left.

## 3. Runs

| run | question | bounds | result |
|---|---|---|---|
| `action_queue` | is the thread a serial executor, and does it always get its work done? | 2 callers, 3 calls each | holds, 32 166 states |
| `session` | does the bookkeeping of a test hold, is its life cycle the promised one, and do tests end without leaving a program that runs, whatever goes wrong? | 2 argument sets, 1 item, 1 abort; 7 environments | holds, 292 175 states |
| `session_crash` | does a test end when its program dies? (comment at `dbustest.py:445`) | 2 argument sets | violated |
| `run_serial` | one test at a time: do the batches of a run form one chain, do runs stay apart, does the client quit with everything stored? | 2 runs, 2 batches, 1 iteration | holds, 108 620 states |
| `checklist` | are verdicts what was reported, and do they stay? | 2 items, 3 iterations, 4 reports | holds, 619 956 states |
| `failure_wins` | does an item fail when any result for it was a failure? (comment at `insanitytest.c:555`) | the same | violated |
| `db_storage` | do the rows hold the results of their iteration, is what a kill leaves consistent, is everything stored when `close()` calls back? | 2 tests of 2 iterations, 1 monitor, 1 report, 2 queued writes | holds, 2.5 million states |
| `merge` | does every id in a row resolve, and do copies agree with their originals? | 2 recorded runs, 2 merges, 1 kill, 2 test classes, 1 monitor class | holds, 512 861 states |
| `merge_parents` | is the parent of a copy the copy of its parent? (comments at `dbstorage.py:787` and 794) | the same, 1 client, 1 test class, 2 kills | violated |
| `convert` | does an attempt to open an old database lose or change anything? | up to 2 monitors, 2 engines, 3 attempts, 1 kill | holds, 418 142 states |
| `startup` | does the runner get to its main loop, with its tests and argument sets? | 2 programs, 2 generators, 3 lines | holds, 322 679 states |
| `web` | does the daemon keep serving, and does its page tell the truth? | 3 runs, 2 argument sets, 3 percentages | holds, 590 694 states |

Why the bounds are enough.  The protocol of a test has no memory beyond the
current and the next iteration: two argument sets give a first, a following and
a last stop, and every pair of outstanding stops; a third set only adds another
middle iteration.  The seven environments of `session` are the one without faults,
those for which a property is conditional (everything that does not excuse a test
from its end; everything that does not excuse it from ending once) and those with late
answers, so that every fault occurs, and occurs with those it interacts with.  One reported item per run is
enough for an item to arrive late.  A single abort, besides both timers and the
done signal, gives up to four outstanding stops.  For the client, two runs
are a current and a waiting one; with two batches a run has a first batch, a
following one and an empty list.  Three calls per caller of the queue allow two
actions and the call that closes or aborts, in any order, from both.

For a checklist, two items are one that is expected to fail and may be skipped
and one that is not; three iterations give one behind, one being stored and one
running; four reports let an item succeed, fail and succeed again while another
is reported.  For the storage, two tests mix their writes in the queue and two
iterations give a row that is followed by another of the same test; two queued
writes besides the one being executed let the main loop be a whole iteration ahead
of the worker; one report lets a list change between a stop and the moment it is
read, and `tearDown()` always makes one more.

Two recorded runs are two on one database, or one on each, so that a merge finds
an empty destination, one of its own and one that knows the classes; two merges are
a second after a completed or a killed first.  Three attempts to open are a first,
one after a kill and one more.  Two monitors are of one class or of two, on one
test or on two, and their classes were declared in another order than their names, so
that a wrong id is a wrong class.  Two programs at the start are one whose alarm
is left and one in which it goes off; lists of up to three items make two
generators wrap at different times.  Three runs of the web client are one that goes
on after its abort, its successor, and one that waits.

Deadlock.  All configurations say `CHECK_DEADLOCK FALSE`: the worker of the
queue waits for ever when nobody calls, a test that is done has no step, nor has
a client that has quit, a program that has ended or a page that nobody looks at.
That they get there is what the liveness properties say.

### What the violated runs show

`session_crash`: `_removedRemoteTest()` clears the proxy and then calls
`stop()`, which needs the proxy.  `_pollSubProcess()` does the same.  Nothing
else ever calls `tearDown()`, so the test run waits for ever.  This is why
`EventuallyDone` excludes crashes.

`merge_parents`: `__mergeTest()` copies the `parentid` of the origin with the row and
returns it, and `__mergeTestRun()` writes it once more under the heading "Updating
test.parentid with new values".  The mapping from old to new ids that the comment asks
for is built and never looked up.  In the trace a row keeps a parent since its runner was
killed between a stop and the end of the test (see *Storage* below), and the
destination has a row already: the copy refers to whatever row has that number there.
It is always the number of a row (`ReferencesResolve`), but of the wrong one.

`failure_wins`: the comment promises that an item succeeds only if all calls succeed.
In the trace an item passes in the set-up and fails in the first iteration; the program
reports both, and the runner keeps the first.  In a standalone run it is the other way
round: the table stores a failure as NULL, which the lookup takes for "not there", and
the next success replaces it.  So `VerdictsAreReported` says only that a
verdict was reported, not which of several counts.

### Where code and words differ otherwise

The models follow the code; these are places where it does something a reader
may not expect, met while translating it.  The properties make exceptions for
them, by name, or say nothing of them.

* *Sessions.*  A program that is spawned and never joins the bus is never done: the
  set-up timer calls `stop()`, which does nothing without a proxy, and the poll sees a
  process that lives (the comment at `dbustest.py:203` reminds of a timeout).
  `EventuallyDone` excepts it (`mute`).  When a process outlives the ten SIGKILLs of
  `kill_process()` (`utils.py:102`), `tearDown()` drops it and the test is done with
  the process still there (`gaveUp` in `NoOrphan`).  A start handler that was connected
  to come after that of the class refuses when the worker has been spawned
  (`insanitytest.c:2082`): the refusal tears the test down and the worker's done signal
  may do so again (`refusesLate` in `DoneOnce`).  A stop takes an argument set and
  records it for the next iteration even if that one has a record; the replaced record
  was never used (`RecordedArgsRan`).
  A threaded test is not ready to start again after `remoteStop`,
  as `docs/random/dbus-api:12` has it: the worker sends the done signal before
  `test_thread_func()` returns, and if `remoteStop` and the next `remoteStart` are
  handled before `priv->thread` is cleared, or the assignment of the result of
  `g_thread_new()` comes after that, the start is refused and the test is torn
  down.
* *Runs.*  With `maxnbtests` above 1 the end of a run is the moment its list of
  batches is empty, and tests that go on report into an ended run
  (`storage.py:83` says "closed and done"); all callers pass 1.  `abort()`
  (`testrun.py:149`) leaves the remaining batches alone (it has a `TODO`).
* *Storage.*  `newTestStopped()` hands its flag `commit` to a parameter that is
  the id of the parent (`dbstorage.py:160`, 302): the row of a stopped
  iteration becomes a child of row 1, and `__newTestFinished()` sets only the last
  one back.  `close()` of a synchronous storage (`storage.py:55`) never calls back.
  A dictionary that `tearDown()` or a late signal extends while the worker iterates
  over it makes the write raise (`StopRaises`); a test that was refused in its
  set-up has no row when it finishes, so that its result and its monitors are not
  stored (`FinishRaises`); when the user quits early, the lists of the last monitor
  may be lost, since they are written behind the commit of its row.
* *Merge.*  Parents are not mapped (above).  `getTestClassInfoFull()` looks names up by the id of the row (line 345)
  while they are stored under the type (line 1308), so that arguments and checklists
  are not copied; extra information of which the destination knows some names makes
  `map_dict_full` raise.  That is why `CopiesAgree` asks for a subset of names.  The
  classes of a monitor are committed child first, although the comment at line 1389
  says parent first.
* *Conversion.*  No conversion ends.  On SQLite the statement `ALTER TABLE ...
  CHANGE` fails; a database of version 1 fails at `CREATE INDEX` on the next attempt
  and for ever after.  On MySQL a name that is not defined (`dbconvert.py:119`)
  raises after the monitors were moved.  A kill while they are moved loses
  them, and a kill between the creation of the tables and of the row with the version
  makes every later attempt raise.  The MySQL scheme has no
  `test_error_explanation_dict`.
* *Checklist.*  The table of the program is never cleared between iterations.  The percentage of an iteration is over all so far,
  and is computed before `subprocess-exited-normally` is known.  Which failures are
  expected does not depend on the iteration.  Booleans of extra information are sent
  inverted.
* *Web.*  A page offers to start a test only when none is shown; a user who starts
  one all the same overlaps runs, and progress is then computed from the wrong run and
  can be negative.  The handlers of a test are never disconnected (the FIXME at
  `testrun.py:241`): a result that arrives while `tearDown()` blocks is dispatched after
  "done", and the page that was just cleared shows the progress of a test without a name
  and offers no start (`stale` in `ShowsWhatRuns`).  `clearTestRuns()` drops starts that are waiting.  A stop between
  `run()` and its idle callback finds nothing to stop, and the page shows a run that
  waits until the next start.

### Fairness

* Main loops (the runner's and the program's) dispatch what is ready: weak
  fairness on their dispatch actions, and on each armed timer.  A spawned program gets
  to its main loop, that is, joins the bus, unless it is `mute`, which only some
  environments allow.  `kill_process()` comes to one of its ends.  The timers' actions
  exist only in environments with the fault `timeout`.
* The queue's worker is scheduled, and an action that was begun comes to its end
  (database writes do); a caller inside the lock leaves it.  Nobody is required
  to call.  In `SerialExecutor` that is weak fairness on the end of an action.
* A worker thread of a program makes progress unless it hangs, which only
  happens in environments with `hang`; nothing forces a crash, a hang, a reply
  timeout or an abort.
* In `TestRun`, every test comes to its end: that is `EventuallyDone` of
  `RemoteSession`, under the conditions stated there.  The user of the client
  adds the runs and starts it; quitting is never required.
* In `Startup`, the main thread goes on, and an alarm goes off when its time has come
  (weak fairness on `TimesOut`), which the kernel sees to.
* `WebRunner` states no liveness and assumes no fairness.

## 4. Proofs

`ActionQueueProofs` proves for any set of callers and any number of calls that
`TypeOK`, `NothingLostOrReordered` and `NoLostWakeup` are invariants, that no
action is begun after an abort, and that the thread refines the safety part of
`SerialExecutor`.  Assumption: `CallersAssumption` (the worker and the free-lock
marker are no callers).  The inductive invariant adds to the properties the lock
discipline and two facts: past the test of `_abort` in the worker the flag is
still clear, and the thread has returned only when it had to.  The first is what
makes the second test of `_abort` (line 130) necessary: without it an abort during
`wait()` would be followed by one more action.

`RemoteSessionProofs` proves `TypeOK`, the invariants of the run `session`
(`EachIterationStopsOnce`, `TimerOnlyWhileRunning`, `FiledUnderOwnIteration`,
`RecordedArgsRan`, `NoOrphan`, `DoneOnce`, `ExitsNormally`) and the refinement of
`TestLifecycle` but for its fairness, for any number of argument sets and results and in
every environment: a crash, a refusal, lost answers, timers, aborts and a process that
cannot be killed may fall anywhere, in any combination.  What makes the bookkeeping of
the iterations inductive is what is on its way (`LinkBook`): the program joins the bus
once, before anything was sent to it, so
`remoteSetUp` is the first of all calls and the only one of its kind; until it is
answered, iteration 0 has not been left and a set of arguments has been taken for the
first one.  From there on every start follows a stop in the same callback
(`StopBook`), and the iterations never outrun the sets taken: the records that
`_prepareArguments()` writes are therefore for iterations to come, and the one that is
there when its iteration starts is the set the runner holds.  `ExitBook` says where a
runner without a process came from: the poll reaped it, or `kill_process()` did, or it
was given up.  `FiledUnderOwnIteration` needs that the program
cannot be ahead (`RunBook`): the runs it has begun and the `remoteStart` calls that
still wait for it are together no more than the iterations the runner has started, so
that whatever is on its way to the runner is about the current iteration or one before.

The refinement (`ImplementsLifecycleSafety`) holds in every environment: whatever goes
wrong, the iterations reported as stopped, which the refinement mapping chooses from the
history, are those before the current one, and the current one once it is stopping
(`ReportedStops`), so each step of a session is a start, a stop, an end, or nothing
to its listeners.

When nothing goes wrong, whoever holds the next step is unique: a call, its answer, the
thread of the test or its done signal.  `Healthy` names the five stages a session
then goes through and what each finds on its way in either direction.  From it follow
`ExitsNormally`, the half of `FiledUnderOwnIteration` that says "exactly", and what
`TestLifecycle` asks of a life without faults.  The proof found a condition that the run
could not: `ExitsNormally` says nothing of a test for which no argument set was generated,
which is torn down without having been set up, so that its program does not obey and is
killed after the timeout.

`DoneOnce` is proved for every environment without timers, aborts, slow answers and
refusals of a start whose worker exists (`Undisturbed`): the program may crash, refuse
otherwise, hang, race, stay away from the bus or not be spawned.  What can end the test is then
in one place at a time (`EndBook`): a call that the program has not answered, an answer
that the runner acts upon, the worker, its done signal or the program's arrival.
`tearDown()` takes it out of the world.  Two transitions need care.  While the start of
the thread is being served, both the call and the worker exist, but until the call is
answered it cannot fail unless the program dies, and with it the worker
(`EndSpawned`).  When the program dies, its signals and an unanswered stop no longer end
anything, while an unanswered set-up or start becomes a fatal error (`EndExited`).
All invariants were checked with TLC before they were proved, `Healthy` for zero, one
and three argument sets, `EndBook` for zero and three in an environment with crashes,
refusals, hangs and races, the others with every fault at once (6.3 million states).

`TestRunProofs` proves `TypeOK` and `SingleChain` for any number of runs, batches
and iterations: with one test at a time the environment's callback, the idle
callback, the running test and the end of the run are one token handed on, so no
batch is dropped and no run is done twice.  The inductive invariant `Chain` says
which of the four holds the token; it needs that a launched test is running until
it is done (`RunningUntilDone`) and that only popped batches are launched
(`LaunchedWerePopped`), so that a test that reports "done" is the one that holds
the token.

On it rest `ClosedAndDone`, `RunsDoNotOverlap` and `QuitsWhenComplete`, in the same
module and each for `MaxTests = 1`.  The token says who may write, and
`Books` what the storage holds then: unless the user has quit, the current run is the
one that was begun and has not ended (`ClientBook`); a run that has ended has popped
all its batches, and a batch that was not launched has started nothing (`RunBook`); in
the log, whoever is followed by another run has ended, and nothing comes before a
run's begin or after its end (`Ordered`).  `Books` was checked with TLC as an
invariant of the same instance before it was proved.

`ChecklistProofs` proves `VerdictsAreReported` and `PastVerdictsStay` for any finite set
of items and any expectations.  The argument for the first is about what the two filters do to each other: the
program keeps back a success only when its last one was a success as well, and the
first result the runner gets for an item in an iteration is, if it is a failure, a
failure reported in it, because failures always get through.  A list agrees
with the reports of its iteration as long as it is the current one, and what is
added later is reported under the same iteration.  For a standalone run, the table
holds a pass exactly when the latest report is one, which is then a success that was
reported.  What the comment promises beyond that is refuted (`failure_wins`).

For `PastVerdictsStay` lists only grow (`Grows`).  A failure of an item that is expected to
fail puts the item into the expected failures, so no verdict on a result that is there
depends on what later iterations add (`ExpectedBook`).  Until the tear-down, the item
`subprocess-exited-normally` is open in every list (`OpenBook`), so that no list counts
as free of unexpected failures and its successes are the items that passed
(`SuccessesWhenOpen`).  The number of these is monotonic in the list, and the sum over the
iterations and its quotient are so too (`TotalGrows`, `QuotientGrows`), by induction over
the iterations.

`DBStorageProofs` proves `TypeOK` and the four properties of the run `db_storage`
(`RowPerIteration`, `PercentageCommittedLast`, `NothingReportedIsMissing`,
`CallsBackWhenStored`) for any number of tests, iterations, monitors and reports and
however far the worker is behind.  The argument follows one write through the queue.
The writes of a test stand there in the order of its life, whatever the writes of
other tests do in between (`QueueOrder`).  So when the worker gets to a stop, either
the start of that iteration is queued before it or the latest row of the test is the
one of that iteration and nothing was stored in it (`PendingFits`, `Fresh`): that is
why the map `__tests`, which holds one row per test, is enough.  A row with results
and without extra information is the one the worker is at, or one it gave up
(`CompleteBook`), so the percentage comes last on disk.  An iteration has a complete
row, or the writes that complete it are queued or still to come (`IterationBook`),
and the monitors that have no row yet are those the worker still has to do
(`MonitorBook`); when nothing is queued behind the end of the run, nothing is still
to come.  `SInv`, the conjunction, was checked with TLC on the instance of
`DBStorage.cfg` and on one with a single test of three iterations and two monitors
before it was proved.

`StartupProofs` proves `TypeOK`, `ReadsAreLimited`, `AlarmTakenBack`, `TestsListed` and
`EveryCombinationOnce` for any number of programs, generators and lines, and the
properties of `DBConvert`, for the start opens the storage.  The first three together are inductive: they follow from
where the main thread is when it arms the alarm and when it takes it back.  The stray
alarm is the only other step that touches it, and it is none of the reads', because
the process has one timer and to arm it for a read replaces what was left.  For
`TestsListed` the invariant says which programs are listed while the scan is at one of
them (`ListBook`).  For `EveryCombinationOnce` a position of the generators is read as
a number in the mixed radix of their lengths (`Value`).  To advance it, with the break
where a generator has not come back to its start, is to add one (`AdvanceAddsOne`);
different positions are different numbers (`ValueIsInjective`), all below the number of
combinations (`ValueBounded`).  So the set returned at place i is the one with number
i - 1, none is returned twice, and when the counter has reached the number of
combinations none is missing.  The lemmas are by induction over the generators: with
the least element of the set of those for which the claim is wrong (`LeastNumber`,
`OneByOne`, `ByRecursion`), because the induction theorems of the library, which take
an operator, cannot be applied.  `MaxLines` stands for the longest generator, any number.

For the opening of a database it proves `NothingLost`, `MovedAgree` and `ReadyIsWhole`
for any old database, any environment variables and any number of opens and kills.  The
invariant (`ConvAlways`, `ConvInv`) compares the database with what was opened, row by
row.  *What* is in a table does not depend on the program: first the rows that were there,
changed at most in the way the conversion changes them, then the first rows of the
monitors' table with every id shifted by the length of the table it refers to
(`TablesBook`).  That is true after any kill, because the conversion is never begun twice:
the column that it reads first is the one it renames first, so a second attempt
raises before it inserts anything.  *How much* is there follows, while the conversion goes on, from
the statement that is next: of the tables before it everything, of its own table the rows
before its row, of those behind it nothing (`PlaceBook`); and the mappings in memory are
then exactly the shifts (`Shifted`).  A row moves only after the rows it refers to have all been moved, which is
what makes a lookup in a mapping succeed.  For the environment `PlaceBook` compares what
the rows say, since they are read in any order: the variables of a row that has been
deleted and not replaced are owed by the statement that inserts them (`Inserted`).  The
last statement is thus reached when everything is there (`Whole`), so that an attempt
that is not killed ends with the database untouched, before `ALTER TABLE`, or whole
(`LostBook`).  From `Whole` follows `Converted`: a monitor is the row `T0 + i` for the
old monitor `i`, a shift that keeps what is said of it, so that of each kind there are as
many (`ShiftedSets`); in the same way a part of them gives `MovedAgree`.  For
`ReadyIsWhole`, the version is written when the tables are there, and an old one stays
(`VersionBook`).  `ConvInv` was checked with TLC on the instance of `Convert.cfg` before
it was proved.  `OldDatabasesAssumption` says what programs of version 1 and 2 leave
(`IsOld`): every id resolves, a test has one scenario, and the blobs of the environment
are those of `uname` and the variables.

`DBMergeProofs` proves the three properties of the run `merge` (`ReferencesResolve`,
`CopiesAgree`, `MergeOnlyAdds`) for any number of sessions, merges and kills and any
clients, classes and names.  The invariant (`BooksAlways`) has two parts.  `DatabaseBook`:
every id in what is written, and in what is committed, is the id of a row that is there;
what is committed lacks only names and entries, never a row that something refers to
(`Behind`), so a rollback leaves no dangling id; and a row that was merged agrees with
what is committed of its original, has the parent of the original, and is the copy of one row only
(`CopyBook`).  Parents are part of it (`ParentThere`): the only parent that the
row of a test is ever given is row 1 or none, and a database with a copy has a row 1;
monitors, whose parent is the row of their test, are not copied.  `ProgramBook`: each statement a runner has still to do finds what it
refers to, or comes after the statement that writes it (`RecordingTask`), and it writes
results only into a row that was not merged (`Own`); the statements of a merge come in an
order (`Before`) in which the run, its classes and the copied row are those at the
end of their tables when they are used (`MergeReady`).  A class is inserted only while it
has no row, so the id of a class never changes; of two classes waiting the first is
the parent of the other.  For `MergeOnlyAdds`, `_ExecuteMany` with the parents finds only
rows of the run that is being merged.  The property would allow it to map them, and
`ParentsAreMapped`, which the run `merge_parents` refutes, says that it should.  The helpers are the lemmas: what each statement adds to the
tables (`More`), whatever they hold.  The invariant was checked with TLC on the instance
of `Merge.cfg` before it was proved.

`WebRunnerProofs` proves `TypeOK`, `KeepsServing` and `ShowsWhatRuns` for any runs,
argument sets and percentages.  The first needs that a client that is running always
has a current run or one that waits (`NeverIdle`), so that `_runNext()` never finds
nothing to do; the second that, with patient users, the run that `Client` remembers is
the one that goes on (`RemembersWhatRuns`), so that the position it counts with is
not that of another run.  A run that has ended may still report, which is what `stale`
remembers until the next start or end clears the page.

Assumptions of all: those named in the modules (`NArgsAssumption`,
`MaxItemsAssumption`, `EnvironmentsAssumption`, `ItemsAssumption`,
`ArgumentsAssumption`, `ProgramsAssumption`, `WebAssumption`, `DBStorageAssumption`,
`ClassesAssumption`, `OldDatabasesAssumption`, `VariablesAssumption` and the ones of the
client), nothing else.  `ClassesAssumption` says
that no monitor and no test is the class `Monitor` itself and that a class declares
finitely many names.

Only model-checked: all liveness and the fairness of `TestLifecycle`, since weak fairness
and ENABLED are outside what the proof system handles here.  Every invariant and action
property that a passing run checks is stated by a theorem.

## 5. Not modelled, and what is left

Not modelled: monitors, the command line and desktop clients, report tools, web
views and models, logging (process or database I/O and presentation); scenarios
(no caller creates one); what stands behind the statements at which every
conversion fails (`dbconvert.py`, arguments and the dropping of columns); in
`threads.py` the classes without a caller; descriptions, explanations and values that
nothing decides upon.

What would be next:

1. `DBStorage` with a storage that is opened by `DBConvert` and merged by `DBMerge`:
   three models of the same tables at three levels of detail.
2. `WebRunner` over `TestRun` itself instead of its reduction.
