----------------------------- MODULE TesterClient -----------------------------
(***************************************************************************)
(* insanity/client.py TesterClient: a list of test runs, executed one      *)
(* after the other, and the storage that is closed when the client quits.  *)
(*                                                                         *)
(* The storage is seen from the main loop: an asynchronous DBStorage       *)
(* accepts writes until its final action is queued and silently drops      *)
(* every later one (insanity/storage/async.py); its worker (ActionQueue)   *)
(* executes what was accepted, then _exit().                               *)
(***************************************************************************)
EXTENDS Naturals, Sequences

CONSTANTS
    Runs,            \* the test runs, 1, 2, ...
    SingleRun,       \* singlerun: quit when nothing is left to be run
    NBatches,        \* bound: tests added to each run
    Environments     \* the environments considered, each a set of EventKinds

EventKinds == {"quit",        \* the user quits while tests are running
               "launchFails", \* Test.run() returns False
               "refuses",     \* a test is done although iterations are missing
               "again"}       \* a test is done twice (see RemoteSession)

ASSUME ClientAssumption ==
    /\ Runs \subseteq Nat \ {0}
    /\ SingleRun \in BOOLEAN
    /\ NBatches \in Nat
    /\ Environments \subseteq SUBSET EventKinds

None == 0            \* self._current is None

VARIABLE events      \* what may happen in this behaviour; never changes

VARIABLES
    clientRunning,   \* self._running of the client
    current,         \* self._current
    testruns,        \* self._testruns
    runIdles,        \* _runNext callbacks in the main loop
    loop,            \* "up", or "quit" after _exit()
    closed,          \* the final action is queued: writes are dropped
    log,             \* history: writes the storage accepted, oldest first
    lost,            \* history: writes it dropped
    handed,          \* history: runs given to addTestRun()
    requested,       \* runs whose run() was called: environment wanted
    interrupted      \* history: the user has quit

clientVars == <<clientRunning, current, testruns, runIdles, closed, requested,
              interrupted>>
storeVars == <<log, lost>>

ClientInit ==
    /\ events \in Environments
    /\ clientRunning = FALSE
    /\ current = None
    /\ testruns = <<>>
    /\ runIdles = 0
    /\ loop = "up"
    /\ closed = FALSE
    /\ log = <<>>
    /\ lost = {}
    /\ handed = {}
    /\ requested = {}
    /\ interrupted = FALSE

\* queuemethod: accepted in order, or dropped when the storage is closed.
Submit(writes) ==
    \/ /\ ~closed
       /\ log' = log \o writes
       /\ UNCHANGED lost
    \/ /\ closed
       /\ lost' = lost \cup {writes[k] : k \in DOMAIN writes}
       /\ UNCHANGED log

-----------------------------------------------------------------------------
\* quit() without a current run: close the storage.
QuitIdle ==
    /\ clientRunning' = FALSE
    /\ closed' = TRUE
    /\ UNCHANGED requested

\* Mutant: quits as soon as the last run was taken.
RunNextQuitsEarly(now, waiting) ==
    \/ /\ clientRunning
       /\ now = None
       /\ waiting # <<>>
       /\ current' = Head(waiting)
       /\ testruns' = Tail(waiting)
       /\ requested' = requested \cup {Head(waiting)}
       /\ IF SingleRun /\ Tail(waiting) = <<>>
             THEN clientRunning' = FALSE /\ closed' = TRUE
             ELSE UNCHANGED <<clientRunning, closed>>
    \/ /\ ~clientRunning \/ now # None \/ waiting = <<>>
       /\ current' = now
       /\ testruns' = waiting
       /\ UNCHANGED <<clientRunning, closed, requested>>

\* Mutant: does not look at self._current.
RunNextRegardless(now, waiting) ==
    \/ /\ clientRunning
       /\ waiting # <<>>
       /\ current' = Head(waiting)
       /\ testruns' = Tail(waiting)
       /\ requested' = requested \cup {Head(waiting)}
       /\ UNCHANGED <<clientRunning, closed>>
    \/ /\ clientRunning
       /\ now = None
       /\ waiting = <<>>
       /\ current' = None
       /\ testruns' = waiting
       /\ IF SingleRun
             THEN QuitIdle
             ELSE UNCHANGED <<clientRunning, closed, requested>>
    \/ /\ ~clientRunning \/ (now # None /\ waiting = <<>>)
       /\ current' = now
       /\ testruns' = waiting
       /\ UNCHANGED <<clientRunning, closed, requested>>

\* _runNext() while _current is now and _testruns is waiting: take the next
\* run and run() it, which starts to collect the environment (TestRun.run()
\* never refuses: its _running is never set).
RunNext(now, waiting) ==
    \/ /\ clientRunning
       /\ now = None
       /\ waiting # <<>>
       /\ current' = Head(waiting)
       /\ testruns' = Tail(waiting)
       /\ requested' = requested \cup {Head(waiting)}
       /\ UNCHANGED <<clientRunning, closed>>
    \/ /\ clientRunning
       /\ now = None
       /\ waiting = <<>>
       /\ current' = None
       /\ testruns' = waiting
       /\ IF SingleRun
             THEN QuitIdle
             ELSE UNCHANGED <<clientRunning, closed, requested>>
    \/ /\ ~clientRunning \/ now # None
       /\ current' = now
       /\ testruns' = waiting
       /\ UNCHANGED <<clientRunning, closed, requested>>

\* _currentDoneCb(): only the current run makes room for the next one.
CurrentDone(r) == RunNext(IF current = r THEN None ELSE current, testruns)

-----------------------------------------------------------------------------
(* What the user of a client does.                                         *)

AddTestRun(r) ==
    /\ loop = "up"
    /\ r \notin handed
    /\ handed' = handed \cup {r}
    /\ RunNext(current, Append(testruns, r))
    /\ UNCHANGED <<runIdles, loop, log, lost, interrupted>>

RunClient ==
    /\ loop = "up"
    /\ ~clientRunning
    /\ ~closed
    /\ clientRunning' = TRUE
    /\ runIdles' = runIdles + 1
    /\ UNCHANGED <<current, testruns, loop, closed, log, lost, handed, requested,
                   interrupted>>

RunNextIdle ==
    /\ loop = "up"
    /\ runIdles > 0
    /\ runIdles' = runIdles - 1
    /\ RunNext(current, testruns)
    /\ UNCHANGED <<loop, log, lost, handed, interrupted>>

\* quit() with abort() of the current run, which asks its tests to stop and
\* comes back as _currentAbortedCb(); _runNext() finds the client stopped.
Quit ==
    /\ loop = "up"
    /\ "quit" \in events
    /\ clientRunning
    /\ clientRunning' = FALSE
    /\ current' = None
    /\ closed' = TRUE
    /\ interrupted' = TRUE
    /\ UNCHANGED <<testruns, runIdles, loop, log, lost, handed, requested>>

\* The worker has executed all accepted writes and calls _exit().
StorageClosed ==
    /\ loop = "up"
    /\ closed
    /\ loop' = "quit"
    /\ UNCHANGED <<clientVars, storeVars, handed>>

ClientNext ==
    \/ \E r \in Runs : AddTestRun(r)
    \/ RunClient
    \/ RunNextIdle
    \/ Quit
    \/ StorageClosed
=============================================================================
