------------------------------ MODULE DBusTest ------------------------------
(***************************************************************************)
(* The runner's half of one test: insanity/test.py Test with               *)
(* insanity/dbustest.py DBusTest on top.  Everything runs as callbacks of  *)
(* one GLib main loop, so a callback is one step; the exception is         *)
(* tearDown(), which blocks that loop in kill_process() while the program  *)
(* goes on.                                                                *)
(*                                                                         *)
(* Time is abstracted: with the fault "timeout", an armed timer may fire   *)
(* between any two callbacks (that is, whatever ping() did to it).         *)
(***************************************************************************)
EXTENDS RemoteLink

CONSTANT NArgs       \* argument sets _test_arguments generates for this test

ASSUME NArgsAssumption == NArgs \in Nat

VARIABLES
    launched,        \* "no", "yes", or "failed": the result of run()
    busy,            \* the main loop is inside kill_process()
    hasProcess,      \* self._process is not None
    returncode,      \* self._returncode, or NoCode
    remote,          \* self._remoteinstance is not None
    listening,       \* connected to new-remote-test and removed-remote-test
    args,            \* index of the argument set in self.args, 0 for None
    consumed,        \* argument sets taken from _test_arguments
    iteration,       \* self._iteration
    iterArgs,        \* self.iteration_arguments: the set recorded for each
    stopping,        \* self._stopping
    asyncTimer,      \* self._asynctimeoutid # 0
    testTimer,       \* self._testtimeoutid # 0
    pollTimer,       \* self._processpollid # 0
    normalExit,      \* "subprocess-exited-normally": "unset", "yes", "no"
    gaveUp           \* kill_process() returned None: the process has got ten
                     \* SIGKILLs, runs no more and is still there, or was then

VARIABLES            \* what observers of the test have seen
    stops,           \* stops[i]: times "stop" was emitted for iteration i
    dones,           \* times "done" was emitted
    filed,           \* <<run, iteration>>: where results of a run were filed
    aborts,          \* calls of stop() from outside
    ran,             \* ran[i]: the argument set that iteration i was started with
    leaked           \* start() overwrote the identifier of an armed test timer

timerVars == <<asyncTimer, testTimer, pollTimer>>
argVars == <<args, consumed, iterArgs>>
startVars == <<ran, leaked>>
historyVars == <<stops, dones, filed, aborts, startVars>>
runnerVars == <<launched, busy, hasProcess, returncode, remote, listening,
                argVars, iteration, stopping, timerVars, normalExit, gaveUp,
                historyVars>>

NoCode == 99
Iterations == 0..NArgs
MaxAborts == 1       \* bound: one abort of the whole test run

RunnerInit ==
    /\ launched = "no"
    /\ busy = FALSE
    /\ hasProcess = FALSE
    /\ returncode = NoCode
    /\ remote = FALSE
    /\ listening = TRUE
    /\ args = 0
    /\ consumed = 0
    /\ iteration = 0
    /\ iterArgs = [i \in 1..NArgs |-> 0]
    /\ stopping = FALSE
    /\ asyncTimer = FALSE
    /\ testTimer = FALSE
    /\ pollTimer = FALSE
    /\ normalExit = "unset"
    /\ gaveUp = FALSE
    /\ stops = [i \in Iterations |-> 0]
    /\ dones = 0
    /\ filed = {}
    /\ aborts = 0
    /\ ran = [i \in 1..NArgs |-> 0]
    /\ leaked = FALSE

-----------------------------------------------------------------------------
(* Pieces that callbacks are made of.                                      *)

\* The main loop is free to dispatch a callback.
Idle == launched = "yes" /\ ~busy

\* callRemoteStop() and its siblings do nothing without a proxy.
IfRemote(ms) == IF remote THEN ms ELSE <<>>

\* Mutant: recorded for the iteration that is being stopped.
PrepareArgumentsOffByOne ==
    IF consumed < NArgs
       THEN /\ args' = consumed + 1
            /\ consumed' = consumed + 1
            /\ iterArgs' = [iterArgs EXCEPT ![iteration] = consumed + 1]
       ELSE /\ args' = 0
            /\ UNCHANGED <<consumed, iterArgs>>

\* _prepareArguments(): the next set, recorded for the next iteration, or
\* None when next() raises.
PrepareArguments ==
    IF consumed < NArgs
       THEN /\ args' = consumed + 1
            /\ consumed' = consumed + 1
            /\ iterArgs' = [iterArgs EXCEPT ![iteration + 1] = consumed + 1]
       ELSE /\ args' = 0
            /\ UNCHANGED <<consumed, iterArgs>>

\* Mutant: every call is reported.
StopAlways == stops' = [stops EXCEPT ![iteration] = @ + 1]

\* Mutant: reported under the iteration about to start.
StopOnceLate ==
    stops' = IF stopping \/ iteration = NArgs
                THEN stops
                ELSE [stops EXCEPT ![iteration + 1] = @ + 1]

\* Test.stop(): only the first call after a start() is reported.
StopOnce ==
    stops' = IF stopping THEN stops ELSE [stops EXCEPT ![iteration] = @ + 1]

\* DBusTest.start() with the argument set a: Test.start(), then
\* callRemoteStart(), which raises for None and for a set that does not
\* parse.  box and expected are what the callback leaves on the link, timer
\* is the test timer as start() finds it: it is overwritten, not removed.
Start(a, box, expected, timer) ==
    /\ stopping' = FALSE
    /\ iteration' = iteration + 1
    /\ ran' = [ran EXCEPT ![iteration + 1] = a]
    /\ asyncTimer' = FALSE
    /\ testTimer' = TRUE
    /\ leaked' = (leaked \/ timer)
    /\ normalExit' = "unset"
    /\ \/ a # 0 /\ Exchange(box, expected, IfRemote(<<"remoteStart">>))
       \/ /\ remote
          /\ a = 0 \/ "badArgs" \in faults
          /\ Exchange(box, expected, <<>>)
       \/ a = 0 /\ ~remote /\ Exchange(box, expected, <<>>)

\* The end of tearDown(), once the process is out of the way: the return
\* code becomes a checklist item (the first value stays), Test.tearDown()
\* removes the timers and emits "done".
FinishTearDown(code) ==
    /\ normalExit' = IF normalExit = "unset" 
                      THEN (IF code = 0 THEN "yes" ELSE "no")
                      ELSE normalExit
    /\ asyncTimer' = FALSE
    /\ testTimer' = FALSE
    /\ dones' = dones + 1

\* DBusTest.tearDown() up to kill_process(), or to its end when no process
\* is left to be killed.  timer: the test timer as tearDown() finds it.
TearDown(box, expected, timer) ==
    /\ Exchange(box, expected, IfRemote(<<"remoteTearDown">>))
    /\ listening' = FALSE
    /\ pollTimer' = FALSE
    /\ IF hasProcess
          THEN /\ busy' = TRUE
               /\ testTimer' = timer
               /\ UNCHANGED <<asyncTimer, normalExit, dones>>
          ELSE /\ FinishTearDown(returncode)
               /\ UNCHANGED busy
    /\ UNCHANGED <<hasProcess, returncode>>

\* DBusTest.stop() called from a callback that leaves box on the link.
StopFrom(box) == Exchange(box, pending, IfRemote(<<"remoteStop">>))

-----------------------------------------------------------------------------
(* Launching.                                                              *)

\* Test.run() with DBusTest.setUp().
Run ==
    /\ launched = "no"
    /\ launched' = "yes"
    /\ PrepareArguments
    /\ process' = "starting"
    /\ hasProcess' = TRUE
    /\ pollTimer' = TRUE
    /\ asyncTimer' = TRUE
    /\ UNCHANGED <<exitCode, calls, pending, inbox, busy, returncode, remote,
                   listening, iteration, stopping, testTimer, normalExit,
                   gaveUp, historyVars>>

\* Popen raises: stop() has no remote to talk to, run() returns False.
RunFails ==
    /\ launched = "no"
    /\ "spawnFails" \in faults
    /\ launched' = "failed"
    /\ PrepareArguments
    /\ UNCHANGED <<linkVars, busy, hasProcess, returncode, remote, listening,
                   iteration, stopping, timerVars, normalExit, gaveUp,
                   historyVars>>

-----------------------------------------------------------------------------
(* Messages from the private bus.                                          *)

Unchanged == UNCHANGED <<process, exitCode, launched, gaveUp>>

\* _newRemoteTest(): the program is on the bus.  Without arguments, or with
\* global arguments that do not parse, the exception ends in stop().
NewRemoteTest ==
    /\ Idle
    /\ Incoming("joined")
    /\ listening
    /\ process = "connected"
    /\ remote' = TRUE
    /\ \/ /\ args # 0
          /\ Exchange(Tail(inbox), pending, <<"remoteSetUp">>)
       \/ /\ args = 0 \/ "badArgs" \in faults
          /\ Exchange(Tail(inbox), pending, <<"remoteStop">>)
    /\ Unchanged
    /\ UNCHANGED <<busy, hasProcess, returncode, listening, argVars, iteration,
                   stopping, timerVars, normalExit, historyVars>>

\* The name is gone again (get_object() raises), or the test was torn down.
NewRemoteTestLate ==
    /\ Idle
    /\ Incoming("joined")
    /\ ~listening \/ process # "connected"
    /\ Exchange(Tail(inbox), pending, <<>>)
    /\ Unchanged
    /\ UNCHANGED <<busy, hasProcess, returncode, remote, listening, argVars,
                   iteration, stopping, timerVars, normalExit, historyVars>>

\* _removedRemoteTest(): the proxy is dropped before stop() could use it.
RemovedRemoteTest ==
    /\ Idle
    /\ Incoming("left")
    /\ remote' = (remote /\ ~listening)
    /\ Exchange(Tail(inbox), pending, <<>>)
    /\ Unchanged
    /\ UNCHANGED <<busy, hasProcess, returncode, listening, argVars, iteration,
                   stopping, timerVars, normalExit, historyVars>>

\* remoteSetUp answered TRUE: start() the first iteration.
SetUpReply ==
    /\ Idle
    /\ Answers("remoteSetUp", "reply")
    /\ Head(inbox).ok
    /\ Start(args, Tail(inbox), Tail(pending), testTimer)
    /\ Unchanged
    /\ UNCHANGED <<busy, hasProcess, returncode, remote, listening, argVars,
                   pollTimer, stops, dones, filed, aborts>>

\* remoteStart answered TRUE: nothing to do, the test runs.
StartReply ==
    /\ Idle
    /\ Answers("remoteStart", "reply")
    /\ Head(inbox).ok
    /\ Exchange(Tail(inbox), Tail(pending), <<>>)
    /\ Unchanged
    /\ UNCHANGED <<busy, hasProcess, returncode, remote, listening, argVars,
                   iteration, stopping, timerVars, normalExit, historyVars>>

\* remoteSetUp or remoteStart answered FALSE or failed: "FATAL", tearDown().
FatalReply ==
    /\ Idle
    /\ \E m \in {"remoteSetUp", "remoteStart"} :
          \/ Answers(m, "reply") /\ ~Head(inbox).ok
          \/ Answers(m, "error")
    /\ TearDown(Tail(inbox), Tail(pending), testTimer)
    /\ Unchanged
    /\ UNCHANGED <<remote, argVars, iteration, stopping, stops, filed, aborts,
                   startVars>>

\* Mutant: stop() leaves the test timer to start(), which overwrites it.
StopReplyNextTimerStays ==
    /\ Idle
    /\ Answers("remoteStop", "reply")
    /\ consumed < NArgs
    /\ PrepareArguments
    /\ StopOnce
    /\ Start(consumed + 1, Tail(inbox), Tail(pending), testTimer)
    /\ Unchanged
    /\ UNCHANGED <<busy, hasProcess, returncode, remote, listening, pollTimer,
                   dones, filed, aborts>>

\* remoteStop answered: close this iteration, which removes the timer unless
\* the test was stopping already, then start the next one ...
StopReplyNext ==
    /\ Idle
    /\ Answers("remoteStop", "reply")
    /\ consumed < NArgs
    /\ PrepareArguments
    /\ StopOnce
    /\ Start(consumed + 1, Tail(inbox), Tail(pending), testTimer /\ stopping)
    /\ Unchanged
    /\ UNCHANGED <<busy, hasProcess, returncode, remote, listening, pollTimer,
                   dones, filed, aborts>>

\* ... or tear the test down when there are no arguments left.
StopReplyLast ==
    /\ Idle
    /\ Answers("remoteStop", "reply")
    /\ consumed = NArgs
    /\ PrepareArguments
    /\ StopOnce
    /\ stopping' = TRUE
    /\ TearDown(Tail(inbox), Tail(pending), testTimer /\ stopping)
    /\ Unchanged
    /\ UNCHANGED <<remote, iteration, filed, aborts, startVars>>

\* Answers nobody acts upon: to remoteTearDown, errors of remoteStop
\* (fatal=False), and whatever arrives after its call has timed out.
IgnoredReply ==
    /\ Idle
    /\ \/ Answers("remoteTearDown", "reply")
       \/ \E m \in {"remoteStop", "remoteTearDown"} : Answers(m, "error")
       \/ /\ Incoming("reply") \/ Incoming("error")
          /\ pending # <<>> /\ ~Head(pending).live
    /\ Exchange(Tail(inbox), Tail(pending), <<>>)
    /\ Unchanged
    /\ UNCHANGED <<busy, hasProcess, returncode, remote, listening, argVars,
                   iteration, stopping, timerVars, normalExit, historyVars>>

\* remoteDoneSignal: stop().
RemoteDone ==
    /\ Idle
    /\ Incoming("done")
    /\ StopFrom(Tail(inbox))
    /\ Unchanged
    /\ UNCHANGED <<busy, hasProcess, returncode, remote, listening, argVars,
                   iteration, stopping, timerVars, normalExit, historyVars>>

\* remoteValidateChecklistItemSignal, remoteExtraInfoSignal: filed under the
\* current iteration.
RemoteValidate ==
    /\ Idle
    /\ Incoming("validate")
    /\ filed' = filed \cup {<<Head(inbox).run, iteration>>}
    /\ Exchange(Tail(inbox), pending, <<>>)
    /\ Unchanged
    /\ UNCHANGED <<busy, hasProcess, returncode, remote, listening, argVars,
                   iteration, stopping, timerVars, normalExit, stops, dones, aborts,
                   startVars>>

-----------------------------------------------------------------------------
(* Timers, the process poll, and stop() from outside.                      *)

\* The runner gives up on the oldest call it still waits for: the error
\* handler of that call, before any answer.
ReplyTimeout ==
    /\ Idle
    /\ "slow" \in faults
    /\ \E k \in DOMAIN pending :
          LET expired == [pending EXCEPT ![k].live = FALSE]
          IN  /\ pending[k].live
              /\ \A j \in 1..(k - 1) : ~pending[j].live
              /\ IF pending[k].method \in {"remoteSetUp", "remoteStart"}
                    THEN TearDown(inbox, expired, testTimer)
                    ELSE /\ Exchange(inbox, expired, <<>>)
                         /\ UNCHANGED <<busy, hasProcess, returncode, listening,
                                        timerVars, normalExit, dones>>
    /\ Unchanged
    /\ UNCHANGED <<remote, argVars, iteration, stopping, stops, filed, aborts,
                   startVars>>

\* _asyncSetupTimeoutCb().
AsyncSetupTimeout ==
    /\ Idle
    /\ "timeout" \in faults
    /\ asyncTimer
    /\ asyncTimer' = FALSE
    /\ StopFrom(inbox)
    /\ Unchanged
    /\ UNCHANGED <<busy, hasProcess, returncode, remote, listening, argVars,
                   iteration, stopping, testTimer, pollTimer, normalExit,
                   historyVars>>

\* Mutant: the timer only disarms itself.
TestTimeoutSilent ==
    /\ Idle
    /\ "timeout" \in faults
    /\ testTimer
    /\ testTimer' = FALSE
    /\ Unchanged
    /\ UNCHANGED <<calls, pending, inbox, busy, hasProcess, returncode, remote,
                   listening, argVars, iteration, stopping, asyncTimer, pollTimer,
                   normalExit, historyVars>>

\* _testTimeoutCb().
TestTimeout ==
    /\ Idle
    /\ "timeout" \in faults
    /\ testTimer
    /\ testTimer' = FALSE
    /\ StopFrom(inbox)
    /\ Unchanged
    /\ UNCHANGED <<busy, hasProcess, returncode, remote, listening, argVars,
                   iteration, stopping, asyncTimer, pollTimer, normalExit,
                   historyVars>>

\* Mutant: the poll tears the test down instead of stopping it.
PollTearsDown ==
    /\ Idle
    /\ pollTimer
    /\ hasProcess
    /\ process = "exited"
    /\ returncode' = exitCode
    /\ hasProcess' = FALSE
    /\ pollTimer' = FALSE
    /\ listening' = FALSE
    /\ Exchange(inbox, pending, <<>>)
    /\ FinishTearDown(exitCode)
    /\ Unchanged
    /\ UNCHANGED <<busy, remote, argVars, iteration, stopping, stops, filed, aborts,
                   startVars>>

\* _pollSubProcess() finding that the process has ended.
PollSubProcess ==
    /\ Idle
    /\ pollTimer
    /\ hasProcess
    /\ process = "exited"
    /\ returncode' = exitCode
    /\ hasProcess' = FALSE
    /\ pollTimer' = FALSE
    /\ StopFrom(inbox)
    /\ Unchanged
    /\ UNCHANGED <<busy, remote, listening, argVars, iteration, stopping,
                   asyncTimer, testTimer, normalExit, historyVars>>

\* TestRun.abort() on a test that is running.
AbortTest ==
    /\ Idle
    /\ "abort" \in faults
    /\ dones = 0
    /\ aborts < MaxAborts
    /\ aborts' = aborts + 1
    /\ StopFrom(inbox)
    /\ Unchanged
    /\ UNCHANGED <<busy, hasProcess, returncode, remote, listening, argVars,
                   iteration, stopping, timerVars, normalExit, stops, dones, filed,
                   startVars>>

-----------------------------------------------------------------------------
(* The end of kill_process() (the kill itself is in RemoteSession).        *)

\* tearDown() after kill_process(), which returned code.
AfterKill(code) ==
    /\ busy
    /\ busy' = FALSE
    /\ hasProcess' = FALSE
    /\ returncode' = code
    /\ FinishTearDown(code)
    /\ UNCHANGED <<linkVars, launched, remote, listening, argVars, iteration,
                   stopping, pollTimer, stops, filed, aborts, startVars>>

\* Mutant: the process is not waited for, and what poll() has not returned
\* counts as 0.
KillEndsEarly ==
    /\ AfterKill(exitCode)
    /\ UNCHANGED gaveUp

\* The process is reaped.
KillEnds ==
    /\ process = "exited"
    /\ AfterKill(exitCode)
    /\ UNCHANGED gaveUp

\* After ten rounds with a SIGKILL in each the process is still there:
\* kill_process() returns None and tearDown() drops it all the same.
KillGivesUp ==
    /\ "undying" \in faults
    /\ process \in {"starting", "connected"}
    /\ AfterKill(NoCode)
    /\ gaveUp' = TRUE

-----------------------------------------------------------------------------
RunnerDispatch ==
    \/ NewRemoteTest
    \/ NewRemoteTestLate
    \/ RemovedRemoteTest
    \/ SetUpReply
    \/ StartReply
    \/ FatalReply
    \/ StopReplyNext
    \/ StopReplyLast
    \/ IgnoredReply
    \/ RemoteDone
    \/ RemoteValidate

RunnerNext ==
    \/ Run
    \/ RunFails
    \/ RunnerDispatch
    \/ ReplyTimeout
    \/ AsyncSetupTimeout
    \/ TestTimeout
    \/ PollSubProcess
    \/ AbortTest
    \/ KillEnds
    \/ KillGivesUp
=============================================================================
