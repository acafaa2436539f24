---------------------------- MODULE InsanityTest ----------------------------
(***************************************************************************)
(* The test program: libinsanity's main loop (listen()), the run level     *)
(* that decides which remote calls are obeyed, and the worker thread of an *)
(* InsanityThreadedTest, which runs the test function and calls            *)
(* insanity_test_done() at its end (tests/insanity-test-blank.c).          *)
(***************************************************************************)
EXTENDS RemoteLink

CONSTANT MaxItems    \* bound: results the test function reports in one run

ASSUME MaxItemsAssumption == MaxItems \in Nat

VARIABLES
    runlevel,        \* priv->runlevel
    run,             \* priv->iteration + 1: the run in progress or to come
    exiting,         \* priv->exit
    main,            \* "loop", or "spawned": in start(), after g_thread_new()
    thread,          \* priv->thread is not NULL
    worker,          \* what the worker thread is doing
    workerRun,       \* history: the run for which it was created
    items            \* results it has reported in that run

remoteVars == <<runlevel, run, exiting, main, thread, worker, workerRun, items>>

RemoteInit ==
    /\ runlevel = "idle"
    /\ run = 1
    /\ exiting = FALSE
    /\ main = "loop"
    /\ thread = FALSE
    /\ worker = "none"
    /\ workerRun = 0
    /\ items = 0

\* g_object construction, dbus_bus_request_name(), then the main loop.
Connect ==
    /\ process = "starting"
    /\ process' = "connected"
    /\ Emit(Joined)
    /\ UNCHANGED <<exitCode, calls, pending, remoteVars>>

-----------------------------------------------------------------------------
(* The main loop: one call at a time, answered when its handler returns.   *)

Serving(m) ==
    /\ process = "connected"
    /\ ~exiting
    /\ main = "loop"
    /\ calls # <<>>
    /\ Head(calls) = m
    /\ UNCHANGED <<process, exitCode, pending>>

\* on_setup(): the answer of the set-up handlers does not keep the program
\* from reaching the run level.
HandleSetUp ==
    /\ Serving("remoteSetUp")
    /\ IF runlevel # "idle"
          THEN Answer(FALSE) /\ UNCHANGED <<runlevel, run>>
          ELSE /\ \/ Answer(TRUE)
                  \/ "refuses" \in faults /\ Answer(FALSE)
               /\ runlevel' = "setup"
               /\ run' = 1
    /\ UNCHANGED <<exiting, main, thread, worker, workerRun, items>>

\* on_start() refusing: at the wrong run level nothing changes; when a thread
\* that is still known refuses, or a handler that comes before the one of the
\* class, no thread is created and the run level is rl_started all the same.
HandleStartRefused ==
    /\ Serving("remoteStart")
    /\ \/ /\ runlevel # "setup"
          /\ UNCHANGED runlevel
       \/ /\ runlevel = "setup"
          /\ thread \/ "refuses" \in faults
          /\ runlevel' = "started"
    /\ Answer(FALSE)
    /\ UNCHANGED <<run, exiting, main, thread, worker, workerRun, items>>

\* 'start' is emitted: insanity_threaded_test_start(), the handler of the
\* class, up to and including g_thread_new().
HandleStart ==
    /\ Serving("remoteStart")
    /\ runlevel = "setup"
    /\ ~thread
    /\ main' = "spawned"
    /\ worker' = "testing"
    /\ workerRun' = run
    /\ items' = 0
    /\ UNCHANGED <<calls, inbox, runlevel, run, exiting, thread>>

\* priv->thread is assigned, whatever the new thread has done meanwhile.  The
\* signal is RUN_LAST and its accumulator returns the last answer: a handler
\* connected after that of the class still refuses, with the thread there.
StartReturns ==
    /\ process = "connected"
    /\ main = "spawned"
    /\ main' = "loop"
    /\ thread' = TRUE
    /\ runlevel' = "started"
    /\ Answer(TRUE) \/ ("refusesLate" \in faults /\ Answer(FALSE))
    /\ UNCHANGED <<process, exitCode, pending, run, exiting, worker, workerRun, items>>

\* Mutant: every remoteStop counts.
HandleStopCounts ==
    /\ Serving("remoteStop")
    /\ IF runlevel = "started"
          THEN runlevel' = "setup"
          ELSE UNCHANGED runlevel
    /\ run' = run + 1
    /\ Answer(TRUE)
    /\ UNCHANGED <<exiting, main, thread, worker, workerRun, items>>

\* on_stop(): the worker is neither told nor waited for.
HandleStop ==
    /\ Serving("remoteStop")
    /\ IF runlevel = "started"
          THEN runlevel' = "setup" /\ run' = run + 1
          ELSE UNCHANGED <<runlevel, run>>
    /\ Answer(TRUE)
    /\ UNCHANGED <<exiting, main, thread, worker, workerRun, items>>

\* Mutant: priv->exit is not set.
HandleTearDownStays ==
    /\ Serving("remoteTearDown")
    /\ IF runlevel = "setup"
          THEN runlevel' = "idle"
          ELSE UNCHANGED runlevel
    /\ Answer(TRUE)
    /\ UNCHANGED <<run, exiting, main, thread, worker, workerRun, items>>

\* on_teardown(): only obeyed between runs.
HandleTearDown ==
    /\ Serving("remoteTearDown")
    /\ IF runlevel = "setup"
          THEN runlevel' = "idle" /\ exiting' = TRUE
          ELSE UNCHANGED <<runlevel, exiting>>
    /\ Answer(TRUE)
    /\ UNCHANGED <<run, main, thread, worker, workerRun, items>>

\* The loop sees priv->exit; main() returns, and so ends any worker.
Exit ==
    /\ process = "connected"
    /\ main = "loop"
    /\ exiting
    /\ Leave(0)
    /\ UNCHANGED remoteVars

-----------------------------------------------------------------------------
(* The worker thread.  Unless the fault "race" is allowed, it is slower    *)
(* than the rest of on_start(), and it clears priv->thread before the      *)
(* runner can have answered its done signal.                               *)

WorkerRuns(state) ==
    /\ process = "connected"
    /\ worker = state
    /\ main = "loop" \/ "race" \in faults
    /\ UNCHANGED <<process, exitCode, calls, pending, runlevel, run, exiting,
                   main, workerRun>>

\* The test function validates an item, or reports extra information.
WorkerValidates ==
    /\ WorkerRuns("testing")
    /\ items < MaxItems
    /\ Emit(Validate(workerRun))
    /\ items' = items + 1
    /\ UNCHANGED <<worker, thread>>

\* insanity_test_done(), the last thing the test function does.
WorkerDone ==
    /\ WorkerRuns("testing")
    /\ Emit(Done)
    /\ UNCHANGED items
    /\ IF "race" \in faults
          THEN worker' = "returning" /\ UNCHANGED thread
          ELSE worker' = "none" /\ thread' = FALSE

\* test_thread_func() after the test signal: priv->thread = NULL.
WorkerReturns ==
    /\ WorkerRuns("returning")
    /\ worker' = "none"
    /\ thread' = FALSE
    /\ UNCHANGED <<inbox, items>>

WorkerHangs ==
    /\ "hang" \in faults
    /\ WorkerRuns("testing")
    /\ worker' = "hung"
    /\ UNCHANGED <<thread, inbox, items>>

Crash ==
    /\ "crash" \in faults
    /\ process \in {"starting", "connected"}
    /\ Leave(1)
    /\ UNCHANGED remoteVars

-----------------------------------------------------------------------------
RemoteStep ==
    \/ HandleSetUp
    \/ HandleStart
    \/ HandleStartRefused
    \/ StartReturns
    \/ HandleStop
    \/ HandleTearDown
    \/ Exit

WorkerStep ==
    \/ WorkerValidates
    \/ WorkerDone
    \/ WorkerReturns

RemoteNext == Connect \/ RemoteStep \/ WorkerStep \/ WorkerHangs \/ Crash
=============================================================================
