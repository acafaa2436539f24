------------------------------ MODULE DBStorage ------------------------------
(***************************************************************************)
(* insanity/storage/dbstorage.py: what a test run asks the storage to      *)
(* write becomes rows of a database.  An asynchronous storage queues the   *)
(* writes for a worker thread (ActionQueue shows that it executes them in  *)
(* order), which reads the test objects when it gets to a write; the main  *)
(* loop goes on changing them.  A synchronous storage executes a write     *)
(* before the call returns.                                                *)
(*                                                                         *)
(* tables is what the connection sees, disk what has been committed and so *)
(* what is left whenever the process is killed.  A worker's step reaches   *)
(* up to the next point where it reads a test object or commits.  Each     *)
(* test is of a class that the database does not know yet.                 *)
(***************************************************************************)
EXTENDS Naturals, Sequences, FiniteSets

CONSTANTS
    Tests,           \* the tests of the run
    NIters,          \* iterations of a test, at most
    NMonitors,       \* monitors applied to each test
    MaxReports,      \* bound: reports of all tests
    MaxQueue,        \* bound: writes in the queue
    Modes            \* kinds of storages: a subset of {"async", "sync"}

ASSUME DBStorageAssumption ==
    /\ NIters \in Nat
    /\ NMonitors \in Nat
    /\ MaxReports \in Nat
    /\ MaxQueue \in Nat
    /\ Modes \subseteq {"async", "sync"}

VARIABLES
    mode,            \* _async
    runState,        \* what the test run has told the storage about itself
    phase,           \* phase[t]: what test t is doing
    iter,            \* iter[t]: Test._iteration
    items,           \* items[t][i]: length of the checklist of iteration i,
    infos,           \* and size of its dictionaries (extra info, output files)
    reports,         \* reports made so far
    atStop,          \* history: items[t][i] when iteration i was stopped
    closing,         \* close() was called
    calledBack,      \* the callback passed to close() was called
    queue,           \* writes that the worker has not begun
    job,             \* the write it is executing, beyond its first step
    seen,            \* size of the dictionary it is iterating over
    tests,           \* __tests: the row of a test, 0 if there is none
    tables,          \* the database as this connection sees it
    disk,            \* the committed database
    raised           \* history: <<test, iteration>> of the writes that raised

testVars == <<phase, iter, items, infos, reports, atStop>>
mainVars == <<mode, runState, testVars, closing>>
workerVars == <<job, seen, tests, tables, disk, raised, calledBack>>
vars == <<mainVars, queue, workerVars>>

Iterations == 0..NIters
None == NIters + 2
Overall == NIters + 1
NULL == 0

Write(what, t, i) == [what |-> what, test |-> t, iteration |-> i]
RunWrite(what) == [what |-> what]
NoJob == RunWrite("none")

\* A row of the table test, with what the dictionary tables hold for it.
\* iteration is history: what the row was inserted for.
Row(t, i, isMonitor) ==
    [of |-> t, iteration |-> i, results |-> None, items |-> 0, infos |-> FALSE,
     perc |-> None, parent |-> NULL, monitor |-> isMonitor]

Empty == [run |-> "none", env |-> FALSE, tests |-> <<>>]

Init ==
    /\ mode \in Modes
    /\ runState = "new"
    /\ phase = [t \in Tests |-> "idle"]
    /\ iter = [t \in Tests |-> 0]
    /\ items = [t \in Tests |-> [i \in Iterations |-> 0]]
    /\ infos = [t \in Tests |-> [i \in Iterations |-> 0]]
    /\ reports = 0
    /\ atStop = [t \in Tests |-> [i \in Iterations |-> 0]]
    /\ closing = FALSE
    /\ calledBack = FALSE
    /\ queue = <<>>
    /\ job = NoJob
    /\ seen = 0
    /\ tests = [t \in Tests |-> 0]
    /\ tables = Empty
    /\ disk = Empty
    /\ raised = {}

-----------------------------------------------------------------------------
(* The main loop.  It ends when close() has called back, and it waits for  *)
(* a synchronous storage.                                                  *)

MainRuns ==
    /\ ~calledBack
    /\ mode = "sync" => queue = <<>> /\ job = NoJob
    /\ Len(queue) < MaxQueue

\* queuemethod, and queueAction() refusing what comes after the final action.
Submit(w) ==
    queue' = IF mode = "async" /\ closing THEN queue ELSE Append(queue, w)

BeginRun ==
    /\ MainRuns
    /\ runState = "new"
    /\ runState' = "begun"
    /\ Submit(RunWrite("begin"))
    /\ UNCHANGED <<mode, testVars, closing, workerVars>>

EndRun ==
    /\ MainRuns
    /\ runState = "begun"
    /\ \A t \in Tests : phase[t] = "done" \/ (phase[t] = "stopped" /\ iter[t] = 0)
    /\ runState' = IF closing THEN "cut" ELSE "ended"
    /\ Submit(RunWrite("end"))
    /\ UNCHANGED <<mode, testVars, closing, workerVars>>

\* Mutant: the lists of the previous iteration are emptied and used again.
StartIterationInPlace(t) ==
    /\ phase[t] \in {"idle", "stopped"}
    /\ iter[t] < NIters
    /\ iter' = [iter EXCEPT ![t] = @ + 1]
    /\ phase' = [phase EXCEPT ![t] = "running"]
    /\ items' = [items EXCEPT ![t][iter[t]] = items[t][0], ![t][iter[t] + 1] = items[t][0]]
    /\ infos' = [infos EXCEPT ![t][iter[t]] = infos[t][0], ![t][iter[t] + 1] = infos[t][0]]

\* Test.start(): the lists of the new iteration are copies of those of the
\* set-up.
StartIteration(t) ==
    /\ phase[t] \in {"idle", "stopped"}
    /\ iter[t] < NIters
    /\ iter' = [iter EXCEPT ![t] = @ + 1]
    /\ phase' = [phase EXCEPT ![t] = "running"]
    /\ items' = [items EXCEPT ![t][iter[t] + 1] = items[t][0]]
    /\ infos' = [infos EXCEPT ![t][iter[t] + 1] = infos[t][0]]

NewTestStarted(t) ==
    /\ MainRuns
    /\ runState = "begun"
    /\ StartIteration(t)
    /\ Submit(Write("started", t, iter[t] + 1))
    /\ UNCHANGED <<mode, runState, reports, atStop, closing, workerVars>>

\* An item or a piece of extra information is added to the lists of the
\* latest iteration, whether or not it has been stopped.
Report(t) ==
    /\ MainRuns
    /\ phase[t] # "done"
    /\ reports < MaxReports
    /\ reports' = reports + 1
    /\ \/ items' = [items EXCEPT ![t][iter[t]] = @ + 1] /\ UNCHANGED infos
       \/ infos' = [infos EXCEPT ![t][iter[t]] = @ + 1] /\ UNCHANGED items
    /\ UNCHANGED <<mode, runState, phase, iter, atStop, closing, queue, workerVars>>

\* Test.stop(), also of a test that was never started (iteration 0).
NewTestStopped(t) ==
    /\ MainRuns
    /\ runState = "begun"
    /\ phase[t] \in {"idle", "running"}
    /\ phase' = [phase EXCEPT ![t] = "stopped"]
    /\ atStop' = [atStop EXCEPT ![t][iter[t]] = items[t][iter[t]]]
    /\ Submit(Write("stopped", t, iter[t]))
    /\ UNCHANGED <<mode, runState, iter, items, infos, reports, closing, workerVars>>

\* tearDown() adds to the lists of the iteration stopped last, and the test
\* is done; a test that was refused in its set-up was never stopped.
NewTestFinished(t) ==
    /\ MainRuns
    /\ runState = "begun"
    /\ phase[t] \in {"idle", "stopped"}
    /\ phase' = [phase EXCEPT ![t] = "done"]
    /\ items' = [items EXCEPT ![t][iter[t]] = @ + 1]
    /\ infos' = [infos EXCEPT ![t][iter[t]] = @ + 1]
    /\ Submit(Write("finished", t, iter[t]))
    /\ UNCHANGED <<mode, runState, iter, reports, atStop, closing, workerVars>>

\* close(), at the end or when the user quits: queueFinalAction() does
\* nothing for a synchronous storage.
Close ==
    /\ MainRuns
    /\ ~closing
    /\ closing' = TRUE
    /\ queue' = IF mode = "async" THEN Append(queue, RunWrite("close")) ELSE queue
    /\ UNCHANGED <<mode, runState, testVars, workerVars>>

-----------------------------------------------------------------------------
(* The worker, or the same code inside the call.                           *)

Insert(tb, row) == [tb EXCEPT !.tests = Append(@, row)]
LastId(tb) == Len(tb.tests)

\* __startNewTestRun(), by whichever write comes first.
OpenRun(tb) ==
    IF tb.run = "none" THEN [tb EXCEPT !.run = "begun", !.env = TRUE] ELSE tb

Takes(what) ==
    /\ job = NoJob
    /\ queue # <<>>
    /\ Head(queue).what = what
    /\ queue' = Tail(queue)
    /\ UNCHANGED mainVars

Commit(tb) == tables' = tb /\ disk' = tb

\* The environment is written behind the commit of the row of the run.
StoreBegin ==
    /\ Takes("begin")
    /\ tables' = OpenRun(tables)
    /\ disk' = [OpenRun(tables) EXCEPT !.env = tables.env]
    /\ UNCHANGED <<job, seen, tests, raised, calledBack>>

\* Mutant: the id of the next row.
StoreStartedOffByOne ==
    /\ Takes("started")
    /\ LET w == Head(queue)
           tb == Insert(OpenRun(tables), Row(w.test, w.iteration, FALSE))
       IN  /\ Commit(tb)
           /\ tests' = [tests EXCEPT ![w.test] = LastId(tb) + 1]
    /\ UNCHANGED <<job, seen, raised, calledBack>>

\* Mutant: a test keeps its first row.
StoreStartedOnce ==
    /\ Takes("started")
    /\ LET w == Head(queue)
           tb == Insert(OpenRun(tables), Row(w.test, w.iteration, FALSE))
       IN  /\ Commit(tb)
           /\ tests' = [tests EXCEPT ![w.test] = IF @ = 0 THEN LastId(tb) ELSE @]
    /\ UNCHANGED <<job, seen, raised, calledBack>>

\* __newTestStarted(): each iteration has a row of its own.
StoreStarted ==
    /\ Takes("started")
    /\ LET w == Head(queue)
           tb == Insert(OpenRun(tables), Row(w.test, w.iteration, FALSE))
       IN  /\ Commit(tb)
           /\ tests' = [tests EXCEPT ![w.test] = LastId(tb)]
    /\ UNCHANGED <<job, seen, raised, calledBack>>

\* Mutant: the row is completed before its lists are written.
BeginStopUpdatesFirst ==
    /\ Takes("stopped")
    /\ LET w == Head(queue)
           known == tests[w.test] # 0
           tb == IF known THEN tables
                          ELSE Insert(OpenRun(tables), Row(w.test, w.iteration, FALSE))
           id == IF known THEN tests[w.test] ELSE LastId(tb)
       IN  /\ tables' = [tb EXCEPT !.tests[id].results = w.iteration,
                                   !.tests[id].items = items[w.test][w.iteration],
                                   !.tests[id].perc = w.iteration]
           /\ disk' = [tb EXCEPT !.tests[id].perc = w.iteration]
           /\ tests' = [tests EXCEPT ![w.test] = id]
           /\ seen' = infos[w.test][w.iteration]
           /\ job' = w
    /\ UNCHANGED <<raised, calledBack>>

\* __newTestStopped() up to the dictionaries of the iteration: a test without
\* a row gets one now, and its class is committed before it.
BeginStop ==
    /\ Takes("stopped")
    /\ LET w == Head(queue)
           known == tests[w.test] # 0
           tb == IF known THEN tables
                          ELSE Insert(OpenRun(tables), Row(w.test, w.iteration, FALSE))
           id == IF known THEN tests[w.test] ELSE LastId(tb)
       IN  /\ tables' = [tb EXCEPT !.tests[id].results = w.iteration,
                                   !.tests[id].items = items[w.test][w.iteration]]
           /\ disk' = IF known THEN disk ELSE OpenRun(tables)
           /\ tests' = [tests EXCEPT ![w.test] = id]
           /\ seen' = infos[w.test][w.iteration]
           /\ job' = w
    /\ UNCHANGED <<raised, calledBack>>

\* A dictionary that has grown while it is iterated over raises; what was
\* written so far stays in the transaction.
StopRaises ==
    /\ job.what = "stopped"
    /\ seen # infos[job.test][job.iteration]
    /\ raised' = raised \cup {<<job.test, job.iteration>>}
    /\ job' = NoJob
    /\ UNCHANGED <<mainVars, queue, seen, tests, tables, disk, calledBack>>

\* The rest of __newTestStopped().  The wrapper passes its flag commit (True)
\* where the parent is expected: the row becomes a child of row 1.
EndStop ==
    /\ job.what = "stopped"
    /\ seen = infos[job.test][job.iteration]
    /\ LET id == tests[job.test]
       IN  Commit([tables EXCEPT !.tests[id].infos = TRUE,
                                 !.tests[id].perc = job.iteration,
                                 !.tests[id].parent = 1])
    /\ job' = NoJob
    /\ UNCHANGED <<mainVars, queue, seen, tests, raised, calledBack>>

\* __newTestFinished() of a test without a row: a KeyError.
FinishRaises ==
    /\ Takes("finished")
    /\ tests[Head(queue).test] = 0
    /\ UNCHANGED workerVars

Monitors(t, n) == IF n = 0 THEN NoJob ELSE Write("monitors", t, n)

\* __newTestFinished(): the latest row gets the result of the whole test.
StoreFinished ==
    /\ Takes("finished")
    /\ LET t == Head(queue).test
           id == tests[t]
       IN  /\ id # 0
           /\ Commit([tables EXCEPT !.tests[id].perc = Overall, !.tests[id].parent = NULL])
           /\ job' = Monitors(t, NMonitors)
    /\ UNCHANGED <<seen, tests, raised, calledBack>>

\* __rawStoreMonitor(): the row is committed, its lists are written behind it.
StoreMonitor ==
    /\ job.what = "monitors"
    /\ LET row == [Row(job.test, 0, TRUE) EXCEPT !.perc = Overall, !.parent = tests[job.test]]
       IN  /\ disk' = Insert(tables, row)
           /\ tables' = Insert(tables, [row EXCEPT !.results = 0, !.infos = TRUE])
    /\ job' = Monitors(job.test, job.iteration - 1)
    /\ UNCHANGED <<mainVars, queue, seen, tests, raised, calledBack>>

\* Mutant: the time of the end is not committed.
StoreEndUncommitted ==
    /\ Takes("end")
    /\ tables' = [OpenRun(tables) EXCEPT !.run = "stopped"]
    /\ UNCHANGED <<disk, job, seen, tests, raised, calledBack>>

StoreEnd ==
    /\ Takes("end")
    /\ Commit([OpenRun(tables) EXCEPT !.run = "stopped"])
    /\ UNCHANGED <<job, seen, tests, raised, calledBack>>

\* __closedb(): closing the connection drops what was not committed.
CloseDB ==
    /\ Takes("close")
    /\ tables' = disk
    /\ calledBack' = TRUE
    /\ UNCHANGED <<disk, job, seen, tests, raised>>

-----------------------------------------------------------------------------
TestStep(t) ==
    \/ NewTestStarted(t)
    \/ Report(t)
    \/ NewTestStopped(t)
    \/ NewTestFinished(t)

MainStep ==
    \/ BeginRun
    \/ EndRun
    \/ Close
    \/ \E t \in Tests : TestStep(t)

WorkerStep ==
    \/ StoreBegin
    \/ StoreStarted
    \/ BeginStop
    \/ StopRaises
    \/ EndStop
    \/ FinishRaises
    \/ StoreFinished
    \/ StoreMonitor
    \/ StoreEnd
    \/ CloseDB

Next == MainStep \/ WorkerStep

Spec == Init /\ [][Next]_vars

-----------------------------------------------------------------------------
(* Properties.                                                             *)

RowType ==
    [of : Tests, iteration : Iterations, results : Iterations \cup {None}, items : Nat,
     infos : BOOLEAN, perc : Iterations \cup {Overall, None}, parent : Nat,
     monitor : BOOLEAN]

DBType == [run : {"none", "begun", "stopped"}, env : BOOLEAN, tests : Seq(RowType)]

TestWrites ==
    [what : {"started", "stopped", "finished"}, test : Tests, iteration : Iterations]
Writes == TestWrites \cup {RunWrite(what) : what \in {"begin", "end", "close"}}
Jobs == {NoJob} \cup [what : {"stopped", "monitors"}, test : Tests, iteration : Nat]

TypeOK ==
    /\ mode \in Modes
    /\ runState \in {"new", "begun", "ended", "cut"}
    /\ phase \in [Tests -> {"idle", "running", "stopped", "done"}]
    /\ iter \in [Tests -> Iterations]
    /\ items \in [Tests -> [Iterations -> Nat]]
    /\ infos \in [Tests -> [Iterations -> Nat]]
    /\ atStop \in [Tests -> [Iterations -> Nat]]
    /\ reports \in Nat
    /\ closing \in BOOLEAN
    /\ calledBack \in BOOLEAN
    /\ queue \in Seq(Writes)
    /\ job \in Jobs
    /\ seen \in Nat
    /\ tests \in [Tests -> Nat]
    /\ tables \in DBType
    /\ disk \in DBType
    /\ raised \in SUBSET (Tests \X Iterations)

TestRows(tb) == {k \in DOMAIN tb.tests : ~tb.tests[k].monitor}

\* Although the worker is behind, and writes of several tests are mixed in
\* its queue, each iteration has a row of its own that holds its results and
\* no other's (the map __tests of the worker is the row being filled).
RowPerIteration ==
    \A k \in TestRows(tables) :
        LET row == tables.tests[k]
        IN  /\ row.results \in {None, row.iteration}
            /\ row.perc \in {None, row.iteration, Overall}
            /\ \A l \in TestRows(tables) :
                  tables.tests[l].of = row.of /\ tables.tests[l].iteration = row.iteration
                      => l = k

\* Whenever the process is killed, a row with a percentage has the checklist
\* and the extra information that the percentage is about (dbstorage.py 966:
\* "finally update the test"), unless storing them has raised.
PercentageCommittedLast ==
    \A k \in TestRows(disk) :
        LET row == disk.tests[k]
        IN  row.perc # None /\ <<row.of, row.iteration>> \notin raised =>
                \/ row.results = row.iteration /\ row.infos
                \/ row.perc = Overall /\ row.results = None

\* A checklist read late is the one of that iteration: it may have grown,
\* but nothing reported before the stop is missing (test.py 419 hands out the
\* live list, test.py 442 begins a new one).
NothingReportedIsMissing ==
    \A k \in TestRows(tables) :
        LET row == tables.tests[k]
        IN  row.results # None => row.items >= atStop[row.of][row.results]

StoredInFull(row) ==
    \/ row.perc # None /\ row.results # None /\ row.infos
    \/ <<row.of, row.iteration>> \in raised

\* When close() calls back after the end of the run, everything is on disk:
\* the run and its environment, a row for each iteration of each test, and
\* the results of the monitors with their lists (dbstorage.py 115: "called
\* when it's finished processing pending actions").
CallsBackWhenStored ==
    calledBack /\ runState = "ended" =>
        /\ disk.run = "stopped" /\ disk.env
        /\ \A t \in Tests :
              /\ \A i \in 1..iter[t] : \E k \in TestRows(disk) :
                    /\ disk.tests[k].of = t /\ disk.tests[k].iteration = i
                    /\ StoredInFull(disk.tests[k])
              /\ phase[t] = "done" /\ tests[t] # 0 =>
                    Cardinality({k \in DOMAIN disk.tests :
                        /\ disk.tests[k].monitor
                        /\ disk.tests[k].of = t
                        /\ disk.tests[k].results # None}) = NMonitors
=============================================================================
