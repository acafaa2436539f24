------------------------------- MODULE TestRun -------------------------------
(***************************************************************************)
(* insanity/testrun.py TestRun: the batches of a run become tests, at most *)
(* MaxTests of them at a time; what they report is passed to the storage,  *)
(* and the run is done when no batch is left.  Composed with the client    *)
(* that executes several runs (TesterClient).                              *)
(*                                                                         *)
(* Batches are numbered in the order of addTest(); a batch and the test    *)
(* made of it have the same number.  A test shows what TestLifecycle says  *)
(* and RemoteSession is checked against, or the exceptions to it named in  *)
(* EventKinds.                                                             *)
(***************************************************************************)
EXTENDS TesterClient, FiniteSets

CONSTANTS
    MaxTests,        \* maxnbtests
    NIters           \* iterations of each test

ASSUME TestRunAssumption == MaxTests \in Nat \ {0} /\ NIters \in Nat

VARIABLES
    collected,       \* runs whose environment has arrived
    popped,          \* popped[r]: batches taken from _tests
    instances,       \* instances[r]: _runninginstances
    idles,           \* idles[r]: _runNextBatch callbacks in the main loop
    ended,           \* history: times the run emitted "done"
    launched,        \* history: tests of the run whose run() returned True
    dropped,         \* history: batches popped without making a test of them
    started,         \* started[r][b]: iterations the test has started,
    stopped,         \* stopped,
    dones            \* and how many times it was done

testVars == <<started, stopped, dones>>
runVars == <<collected, popped, instances, idles, ended, launched, dropped, testVars>>
vars == <<events, clientVars, loop, storeVars, handed, runVars>>

Batches == 1..NBatches

Begin(r) == [what |-> "begin", run |-> r, test |-> 0, iteration |-> 0]
End(r) == [what |-> "end", run |-> r, test |-> 0, iteration |-> 0]
Started(r, b, i) == [what |-> "started", run |-> r, test |-> b, iteration |-> i]
Stopped(r, b, i) == [what |-> "stopped", run |-> r, test |-> b, iteration |-> i]
Finished(r, b) == [what |-> "finished", run |-> r, test |-> b, iteration |-> 0]

Init ==
    /\ ClientInit
    /\ collected = {}
    /\ popped = [r \in Runs |-> 0]
    /\ instances = [r \in Runs |-> {}]
    /\ idles = [r \in Runs |-> 0]
    /\ ended = [r \in Runs |-> 0]
    /\ launched = [r \in Runs |-> {}]
    /\ dropped = [r \in Runs |-> {}]
    /\ started = [r \in Runs |-> [b \in Batches |-> 0]]
    /\ stopped = [r \in Runs |-> [b \in Batches |-> 0]]
    /\ dones = [r \in Runs |-> [b \in Batches |-> 0]]

-----------------------------------------------------------------------------
(* What a callback does to its run.  running and n are _runninginstances   *)
(* and the number of idle callbacks as the callback leaves them so far.    *)

\* The end of _runNext(): below the maximum, another batch when idle.
Reschedule(r, running, n) ==
    /\ instances' = [instances EXCEPT ![r] = running]
    /\ idles' = [idles EXCEPT ![r] = IF Cardinality(running) < MaxTests THEN n + 1 ELSE n]

\* Mutant: a test that could not be launched ends the chain of callbacks.
RunTestNoReschedule(r, b, running, n) ==
    \/ /\ Cardinality(running) >= MaxTests
       /\ dropped' = [dropped EXCEPT ![r] = @ \cup {b}]
       /\ instances' = [instances EXCEPT ![r] = running]
       /\ idles' = [idles EXCEPT ![r] = n]
       /\ UNCHANGED launched
    \/ /\ Cardinality(running) < MaxTests
       /\ launched' = [launched EXCEPT ![r] = @ \cup {b}]
       /\ Reschedule(r, running \cup {b}, n)
       /\ UNCHANGED dropped
    \/ /\ Cardinality(running) < MaxTests
       /\ "launchFails" \in events
       /\ instances' = [instances EXCEPT ![r] = running]
       /\ idles' = [idles EXCEPT ![r] = n]
       /\ UNCHANGED <<launched, dropped>>

\* _runNext() for the batch b that was just popped: when the maximum is
\* reached the batch is gone; the test's run() may return False.
RunTest(r, b, running, n) ==
    \/ /\ Cardinality(running) >= MaxTests
       /\ dropped' = [dropped EXCEPT ![r] = @ \cup {b}]
       /\ instances' = [instances EXCEPT ![r] = running]
       /\ idles' = [idles EXCEPT ![r] = n]
       /\ UNCHANGED launched
    \/ /\ Cardinality(running) < MaxTests
       /\ launched' = [launched EXCEPT ![r] = @ \cup {b}]
       /\ Reschedule(r, running \cup {b}, n)
       /\ UNCHANGED dropped
    \/ /\ Cardinality(running) < MaxTests
       /\ "launchFails" \in events
       /\ Reschedule(r, running, n)
       /\ UNCHANGED <<launched, dropped>>

\* Mutant: the end of the run is found when its last batch is popped.
RunNextBatchEndsEarly(r, writes, running, n) ==
    /\ popped' = [popped EXCEPT ![r] = @ + 1]
    /\ RunTest(r, popped[r] + 1, running, n)
    /\ IF popped[r] + 1 = NBatches
          THEN /\ Submit(Append(writes, End(r)))
               /\ ended' = [ended EXCEPT ![r] = @ + 1]
               /\ CurrentDone(r)
          ELSE /\ Submit(writes)
               /\ UNCHANGED <<clientRunning, current, testruns, closed, requested, ended>>

\* Mutant: goes on after the end of the run.
RunNextBatchNoReturn(r, writes, running, n) ==
    /\ popped' = [popped EXCEPT ![r] = @ + 1]
    /\ RunTest(r, popped[r] + 1, running, n)
    /\ \/ /\ popped[r] >= NBatches
          /\ Submit(Append(writes, End(r)))
          /\ ended' = [ended EXCEPT ![r] = @ + 1]
          /\ CurrentDone(r)
       \/ /\ popped[r] < NBatches
          /\ Submit(writes)
          /\ UNCHANGED <<clientRunning, current, testruns, closed, requested, ended>>

\* _runNextBatch(), after the callback has submitted writes: the next batch,
\* or the end of the run.
RunNextBatch(r, writes, running, n) ==
    \/ /\ popped[r] = NBatches
       /\ Submit(Append(writes, End(r)))
       /\ ended' = [ended EXCEPT ![r] = @ + 1]
       /\ CurrentDone(r)
       /\ instances' = [instances EXCEPT ![r] = running]
       /\ idles' = [idles EXCEPT ![r] = n]
       /\ UNCHANGED <<popped, launched, dropped>>
    \/ /\ popped[r] < NBatches
       /\ Submit(writes)
       /\ popped' = [popped EXCEPT ![r] = @ + 1]
       /\ RunTest(r, popped[r] + 1, running, n)
       /\ UNCHANGED <<clientRunning, current, testruns, closed, requested, ended>>

-----------------------------------------------------------------------------
(* The callbacks.                                                          *)

\* _gotEnvironment(): the run begins.
GotEnvironment(r) ==
    /\ loop = "up"
    /\ r \in requested \ collected
    /\ collected' = collected \cup {r}
    /\ RunNextBatch(r, <<Begin(r)>>, instances[r], idles[r])
    /\ UNCHANGED <<runIdles, loop, handed, interrupted, testVars>>

NextBatchIdle(r) ==
    /\ loop = "up"
    /\ idles[r] > 0
    /\ RunNextBatch(r, <<>>, instances[r], idles[r] - 1)
    /\ UNCHANGED <<runIdles, loop, handed, interrupted, collected, testVars>>

\* A test reports the start of an iteration: _singleTestStart().
SingleTestStart(r, b) ==
    /\ loop = "up"
    /\ b \in launched[r]
    /\ dones[r][b] = 0
    /\ stopped[r][b] = started[r][b]
    /\ started[r][b] < NIters
    /\ started' = [started EXCEPT ![r][b] = @ + 1]
    /\ Submit(<<Started(r, b, started[r][b] + 1)>>)
    /\ UNCHANGED <<clientVars, loop, handed, collected, popped, instances,
                   idles, ended, launched, dropped, stopped, dones>>

\* _singleTestStop()
SingleTestStop(r, b) ==
    /\ loop = "up"
    /\ dones[r][b] = 0
    /\ stopped[r][b] < started[r][b]
    /\ stopped' = [stopped EXCEPT ![r][b] = started[r][b]]
    /\ Submit(<<Stopped(r, b, started[r][b])>>)
    /\ UNCHANGED <<clientVars, loop, handed, collected, popped, instances,
                   idles, ended, launched, dropped, started, dones>>

\* A test that may report that it is done.
MayBeDone(r, b) ==
    /\ b \in launched[r]
    /\ \/ dones[r][b] = 0 /\ ("refuses" \in events \/ stopped[r][b] = NIters)
       \/ dones[r][b] = 1 /\ "again" \in events

\* Mutant: the test stays in _runninginstances.
SingleTestDoneKept(r, b) ==
    /\ loop = "up"
    /\ MayBeDone(r, b)
    /\ dones' = [dones EXCEPT ![r][b] = @ + 1]
    /\ RunNextBatch(r, <<Finished(r, b)>>, instances[r], idles[r])
    /\ UNCHANGED <<runIdles, loop, handed, interrupted, collected, started, stopped>>

\* _singleTestDone()
SingleTestDone(r, b) ==
    /\ loop = "up"
    /\ MayBeDone(r, b)
    /\ dones' = [dones EXCEPT ![r][b] = @ + 1]
    /\ RunNextBatch(r, <<Finished(r, b)>>, instances[r] \ {b}, idles[r])
    /\ UNCHANGED <<runIdles, loop, handed, interrupted, collected, started, stopped>>

RunStep(r) ==
    \/ GotEnvironment(r)
    \/ NextBatchIdle(r)

TestStep(r, b) ==
    \/ SingleTestStart(r, b)
    \/ SingleTestStop(r, b)
    \/ SingleTestDone(r, b)

\* The client and the runs; what may happen stays what it is.
Client(A) == A /\ UNCHANGED <<events, runVars>>
Run(A) == A /\ UNCHANGED events

Next ==
    \/ Client(ClientNext)
    \/ \E r \in Runs : Run(RunStep(r))
    \/ \E r \in Runs, b \in Batches : Run(TestStep(r, b))

\* The main loop dispatches what is ready, the collection of the environment
\* ends, the storage's worker gets its work done (ActionQueue), and every test
\* comes to its end (RemoteSession says when).  Runs are added and the client
\* is started, in any order; nobody has to quit.
Fairness ==
    /\ WF_vars(Client(RunClient))
    /\ WF_vars(Client(RunNextIdle))
    /\ WF_vars(Client(StorageClosed))
    /\ \A r \in Runs :
          /\ WF_vars(Client(AddTestRun(r)))
          /\ WF_vars(Run(RunStep(r)))
          /\ \A b \in Batches : WF_vars(Run(TestStep(r, b)))

Spec == Init /\ [][Next]_vars
FairSpec == Spec /\ Fairness

-----------------------------------------------------------------------------
(* Properties.                                                             *)

Writes ==
    {Begin(r) : r \in Runs} \cup {End(r) : r \in Runs}
        \cup {Finished(r, b) : r \in Runs, b \in Batches}
        \cup {Started(r, b, i) : r \in Runs, b \in Batches, i \in 1..NIters}
        \cup {Stopped(r, b, i) : r \in Runs, b \in Batches, i \in 1..NIters}

\* The values of the variables; no run is ever popped beyond its batches.
TypeOK ==
    /\ events \in Environments
    /\ clientRunning \in BOOLEAN
    /\ current \in Runs \cup {None}
    /\ testruns \in Seq(Runs)
    /\ runIdles \in 0..1
    /\ loop \in {"up", "quit"}
    /\ closed \in BOOLEAN
    /\ log \in Seq(Writes)
    /\ lost \in SUBSET Writes
    /\ handed \in SUBSET Runs
    /\ requested \in SUBSET Runs
    /\ interrupted \in BOOLEAN
    /\ collected \in SUBSET Runs
    /\ popped \in [Runs -> 0..NBatches]
    /\ instances \in [Runs -> SUBSET Batches]
    /\ idles \in [Runs -> Nat]
    /\ ended \in [Runs -> Nat]
    /\ launched \in [Runs -> SUBSET Batches]
    /\ dropped \in [Runs -> SUBSET Batches]
    /\ started \in [Runs -> [Batches -> 0..NIters]]
    /\ stopped \in [Runs -> [Batches -> 0..NIters]]
    /\ dones \in [Runs -> [Batches -> 0..2]]

\* With one test at a time, what drives a run is a single chain of callbacks:
\* the environment, then an idle callback or a running test, then the end.
\* So no batch is dropped and the run is not done twice.
SingleChain ==
    MaxTests = 1 /\ "again" \notin events =>
        \A r \in Runs :
            /\ Cardinality(instances[r]) + idles[r] + ended[r]
                  = (IF r \in collected THEN 1 ELSE 0)
            /\ dropped[r] = {}

\* storage.py endTestRun: "the given testrun is closed and done": nothing of
\* a run is stored after its end, nor before its begin.
ClosedAndDone ==
    "again" \notin events => \A i, j \in DOMAIN log :
        i < j /\ log[i].run = log[j].run =>
            log[i].what # "end" /\ log[j].what # "begin"

\* A client executes its runs one after the other: what they store does not
\* interleave.
RunsDoNotOverlap ==
    "again" \notin events => \A i, j, k \in DOMAIN log :
        i < j /\ j < k /\ log[i].run = log[k].run => log[j].run = log[i].run

\* A client that quits because it has nothing left to run has had everything
\* stored: every run it was given has ended, every batch was made a test, and
\* no write came too late.  (Not so when the user quits.)
QuitsWhenComplete ==
    closed /\ ~interrupted /\ "again" \notin events =>
        /\ lost = {}
        /\ \A r \in requested : ended[r] = 1 /\ popped[r] = NBatches /\ instances[r] = {}

\* A client that serves a single round quits in the end, although tests do
\* not launch, refuse iterations or are ended by the user: every callback
\* leaves another one behind it (testrun.py 286-292, client.py 173-211).
EventuallyQuits == SingleRun => <>(loop = "quit")
=============================================================================
