----------------------------- MODULE WebRunner ------------------------------
(***************************************************************************)
(* The web service (web/insanityweb/runner.py): one client for as long as  *)
(* the daemon lives, whose stop() ends no more than the current run, and   *)
(* the runner that says what is shown.  A page starts a run of one test on *)
(* the files of a folder, or stops it.                                     *)
(*                                                                         *)
(* The client is TesterClient with its own stop() and quit(); a run is     *)
(* reduced to the arguments its test has taken, what TestRun and           *)
(* RemoteSession say of it, and goes on after an abort.                    *)
(***************************************************************************)
EXTENDS TesterClient, Integers, FiniteSets

CONSTANTS
    NSets,           \* argument sets of a test: files in the folder
    Percentages      \* what getSuccessPercentage() may say

ASSUME WebAssumption ==
    /\ SingleRun = TRUE
    /\ NSets \in Nat \ {0}
    /\ Percentages \subseteq 0..100

VARIABLES
    collected,       \* runs whose environment has arrived
    taken,           \* taken[r]: getCurrentBatchPosition()
    began,           \* runs whose test has started: "check" is connected
    ended,           \* runs that are done
    clientRun,       \* Client.current_run
    shown,           \* Runner.test_name and the like: the run, or None
    progress,        \* Runner.current_run_progress, or Nothing
    impatient,       \* history: a test was started while one was shown
    stale            \* history: progress was reported by a run that had ended

testVars == <<collected, taken, began, ended>>
pageVars == <<clientRun, shown, progress, impatient, stale>>
vars == <<events, clientVars, loop, storeVars, handed, testVars, pageVars>>

Nothing == -1000     \* None, for a number

Init ==
    /\ ClientInit
    /\ collected = {}
    /\ taken = [r \in Runs |-> 0]
    /\ began = {}
    /\ ended = {}
    /\ clientRun = None
    /\ shown = None
    /\ progress = Nothing
    /\ impatient = FALSE
    /\ stale = FALSE

Up == loop = "up" /\ UNCHANGED events

Begin(r) == [what |-> "begin", run |-> r]
End(r) == [what |-> "end", run |-> r]

-----------------------------------------------------------------------------
(* The pages.                                                              *)

\* start_test(): addTestRun(), which goes to the next run if the client is
\* running, and run(), which schedules that if it is not.
StartTest(r) ==
    /\ Up
    /\ r \notin handed
    /\ handed' = handed \cup {r}
    /\ shown' = r
    /\ progress' = 0
    /\ impatient' = (impatient \/ progress # Nothing)
    /\ stale' = FALSE
    /\ IF clientRunning
       THEN RunNext(current, Append(testruns, r)) /\ UNCHANGED runIdles
       ELSE /\ testruns' = Append(testruns, r)
            /\ clientRunning' = TRUE
            /\ runIdles' = runIdles + 1
            /\ UNCHANGED <<current, closed, requested>>
    /\ UNCHANGED <<loop, storeVars, interrupted, testVars, clientRun>>

\* Client.stop(): abort() asks the tests of the current run to stop, and comes
\* back as _currentAbortedCb(), whose _runNext() finds the client stopped.
Stop ==
    /\ clientRunning' = FALSE
    /\ current' = IF clientRunning THEN None ELSE current

StopTest ==
    /\ Up
    /\ Stop
    /\ UNCHANGED <<loop, storeVars, handed, testruns, runIdles, closed, requested,
                   interrupted, testVars, pageVars>>

\* The daemon is interrupted: Runner.quit() and the end of the main loop.
Interrupt ==
    /\ Up
    /\ "quit" \in events
    /\ Stop
    /\ closed' = TRUE
    /\ interrupted' = TRUE
    /\ loop' = "quit"
    /\ UNCHANGED <<storeVars, handed, testruns, runIdles, requested, testVars, pageVars>>

-----------------------------------------------------------------------------
(* The client and its runs.                                                *)

NextRunIdle ==
    /\ Up
    /\ RunNextIdle
    /\ UNCHANGED <<testVars, pageVars>>

\* _gotEnvironment(): the run starts, whether it is current or not, and
\* test_run_start() remembers it.
GotEnvironment(r) ==
    /\ Up
    /\ r \in requested \ collected
    /\ collected' = collected \cup {r}
    /\ clientRun' = r
    /\ Submit(<<Begin(r)>>)
    /\ UNCHANGED <<clientVars, loop, handed, taken, began, ended, shown, progress, impatient,
                   stale>>

Testing(r) == r \in collected \ ended

\* The program is connected, or the previous iteration has stopped.
TakeArguments(r) ==
    /\ Up
    /\ Testing(r)
    /\ taken[r] < NSets
    /\ taken' = [taken EXCEPT ![r] = @ + 1]
    /\ UNCHANGED <<clientVars, loop, storeVars, handed, collected, began, ended, pageVars>>

\* single_test_start_cb() of the first iteration
TestStarts(r) ==
    /\ Up
    /\ Testing(r)
    /\ taken[r] > 0
    /\ r \notin began
    /\ began' = began \cup {r}
    /\ UNCHANGED <<clientVars, loop, storeVars, handed, collected, taken, ended, pageVars>>

\* int(), which rounds towards zero
Quotient(a, b) == IF a >= 0 THEN a \div b ELSE -((-a) \div b)

\* Mutant: the position is taken for an index.
OverallOneLate(position, pct) == Quotient(100 * position + pct, NSets)

Overall(position, pct) == Quotient(100 * (position - 1) + pct, NSets)

\* Mutant: of the run that is current.
CheckOfTheFirst(r, pct) ==
    /\ Up
    /\ r \in began
    /\ progress' = IF current = None THEN Nothing ELSE Overall(taken[current], pct)
    /\ stale' = (r \in ended)
    /\ UNCHANGED <<clientVars, loop, storeVars, handed, testVars, clientRun, shown, impatient>>

\* test_check_cb() and test_progress_cb(): of the run that started last,
\* whichever reports.  The callback stays connected, so that a result that the
\* program sent before it was killed is shown after the run is done.
Check(r, pct) ==
    /\ Up
    /\ r \in began
    /\ progress' = Overall(taken[clientRun], pct)
    /\ stale' = (r \in ended)
    /\ UNCHANGED <<clientVars, loop, storeVars, handed, testVars, clientRun, shown, impatient>>

\* A test is done when it has used its arguments, or before that.
MayEnd(r) ==
    /\ Testing(r)
    /\ \/ taken[r] = NSets
       \/ {"refuses", "launchFails"} \cap events # {}

\* Mutant: the runs are forgotten, but the client is not stopped.
TestRunDoneRunning(r) ==
    /\ Up
    /\ MayEnd(r)
    /\ ended' = ended \cup {r}
    /\ Submit(<<End(r)>>)
    /\ shown' = None
    /\ progress' = Nothing
    /\ stale' = FALSE
    /\ RunNext(IF current = r THEN None ELSE current, <<>>)
    /\ UNCHANGED <<runIdles, loop, handed, interrupted, collected, taken, began,
                   clientRun, impatient>>

\* "done": Runner.test_run_done() clears what is shown and, with
\* clearTestRuns(), stops the client, which aborts its current run if that is
\* another, and forgets the runs that wait.
TestRunDone(r) ==
    /\ Up
    /\ MayEnd(r)
    /\ ended' = ended \cup {r}
    /\ Submit(<<End(r)>>)
    /\ shown' = None
    /\ progress' = Nothing
    /\ stale' = FALSE
    /\ Stop
    /\ testruns' = <<>>
    /\ UNCHANGED <<runIdles, closed, requested, loop, handed, interrupted, collected, taken,
                   began, clientRun, impatient>>

RunStep(r) ==
    \/ GotEnvironment(r)
    \/ TakeArguments(r)
    \/ TestStarts(r)
    \/ TestRunDone(r)

Next ==
    \/ \E r \in Runs : StartTest(r)
    \/ StopTest
    \/ Interrupt
    \/ NextRunIdle
    \/ \E r \in Runs : RunStep(r)
    \/ \E r \in Runs, pct \in Percentages : Check(r, pct)

Spec == Init /\ [][Next]_vars

-----------------------------------------------------------------------------
(* Properties.                                                             *)

\* The values of the variables.
TypeOK ==
    /\ clientRunning \in BOOLEAN
    /\ current \in Runs \cup {None}
    /\ testruns \in Seq(handed)
    /\ runIdles \in Nat
    /\ closed \in BOOLEAN
    /\ interrupted \in BOOLEAN
    /\ handed \subseteq Runs
    /\ requested \subseteq handed
    /\ collected \subseteq requested
    /\ ended \subseteq collected
    /\ taken \in [Runs -> 0..NSets]
    /\ began \subseteq collected
    /\ clientRun \in collected \cup {None}
    /\ collected # {} => clientRun # None
    /\ shown \in handed \cup {None}
    /\ progress \in Int
    /\ impatient \in BOOLEAN
    /\ stale \in BOOLEAN

\* The daemon is a single-run client that is never out of runs: as long as
\* nobody interrupts it its storage stays open and takes every write, in
\* whatever order tests are started, stopped and done.
KeepsServing == ~interrupted => ~closed /\ lost = {}

\* Users who start a test only when the page offers it have one test running
\* at a time, whenever they stop it: the one that is shown, until it has ended,
\* and until then the page offers no other.  Its progress is a percentage, and
\* gone when the test is, unless the last to report was a run that had ended:
\* its late result is shown as the progress of a test without a name.
ShowsWhatRuns ==
    ~impatient =>
        /\ \A r \in handed \ ended : shown = r
        /\ shown # None => progress # Nothing
        /\ ~stale /\ progress # Nothing => shown # None /\ progress \in 0..100
=============================================================================
