---------------------------- MODULE RemoteSession ----------------------------
(***************************************************************************)
(* One test, from run() to "done": the runner's DBusTest, the spawned      *)
(* InsanityTest, and the link between them.                                *)
(***************************************************************************)
EXTENDS InsanityTest, DBusTest

vars == <<faults, linkVars, remoteVars, runnerVars>>

Init ==
    /\ LinkInit
    /\ RemoteInit
    /\ RunnerInit

\* utils.py kill_process() while the program is there: SIGTERM, then SIGKILL.
\* (KillGivesUp is how it ends when that does not help.)
\* The program has a tenth of a second to go by itself first, which is enough
\* when nothing is slow: its loop looks for a message every hundredth.
Kill ==
    /\ busy
    /\ process \in {"starting", "connected"}
    /\ "slow" \in faults \/ (calls = <<>> /\ ~exiting)
    /\ Leave(1)

\* A process that kill_process() has given up ends after all.
DiesLate ==
    /\ gaveUp
    /\ process \in {"starting", "connected"}
    /\ Leave(1)

\* Each part moves by itself; the environment stays what it is.  A program
\* that has got its SIGKILL runs no more.
Program(A) == ~gaveUp /\ A /\ UNCHANGED <<faults, runnerVars>>
Runner(A) == A /\ UNCHANGED <<faults, remoteVars>>
System(A) == A /\ UNCHANGED <<faults, remoteVars, runnerVars>>

Next ==
    \/ Program(RemoteNext)
    \/ Runner(RunnerNext)
    \/ System(Kill)
    \/ System(DiesLate)

\* The program's loop polls for ever once it is on the bus, and a worker that
\* does not hang is scheduled; a program that is not mute gets to its loop.
\* The runner's main loop dispatches what is ready: messages and timers, each
\* source in its turn; the launch is TestRun's business and happens, and
\* kill_process() comes to one of its ends.  Nothing forces a crash, a reply
\* timeout, an abort, or the late end of a process that was given up.
Fairness ==
    /\ WF_vars("mute" \notin faults /\ Program(Connect))
    /\ WF_vars(Program(RemoteStep))
    /\ WF_vars(Program(WorkerStep))
    /\ WF_vars(Runner(Run \/ RunFails))
    /\ WF_vars(Runner(RunnerDispatch))
    /\ WF_vars(Runner(AsyncSetupTimeout))
    /\ WF_vars(Runner(TestTimeout))
    /\ WF_vars(Runner(PollSubProcess))
    /\ WF_vars(Runner(KillEnds \/ KillGivesUp) \/ System(Kill))

Spec == Init /\ [][Next]_vars
FairSpec == Spec /\ Fairness

-----------------------------------------------------------------------------
(* Properties.                                                             *)

Messages ==
    {Joined, Left, Done} \cup [type : {"validate"}, run : Nat] \cup
    [type : {"reply"}, method : Methods, ok : BOOLEAN] \cup
    [type : {"error"}, method : Methods]

\* The values of the variables: of the link, ...
LinkTypes ==
    /\ faults \in Environments
    /\ process \in {"unborn", "starting", "connected", "exited"}
    /\ exitCode \in {0, 1}
    /\ calls \in Seq(Methods)
    /\ pending \in Seq([method : Methods, live : BOOLEAN])
    /\ inbox \in Seq(Messages)

\* ... of the program, ...
RemoteTypes ==
    /\ runlevel \in {"idle", "setup", "started"}
    /\ run \in Nat
    /\ exiting \in BOOLEAN
    /\ main \in {"loop", "spawned"}
    /\ thread \in BOOLEAN
    /\ worker \in {"none", "testing", "returning", "hung"}
    /\ workerRun \in Nat
    /\ items \in 0..MaxItems

\* ... and of the runner.
RunnerFlags ==
    /\ busy \in BOOLEAN
    /\ hasProcess \in BOOLEAN
    /\ remote \in BOOLEAN
    /\ listening \in BOOLEAN
    /\ stopping \in BOOLEAN
    /\ asyncTimer \in BOOLEAN
    /\ testTimer \in BOOLEAN
    /\ pollTimer \in BOOLEAN
    /\ gaveUp \in BOOLEAN
    /\ leaked \in BOOLEAN

RunnerTypes ==
    /\ launched \in {"no", "yes", "failed"}
    /\ returncode \in {0, 1, NoCode}
    /\ consumed \in 0..NArgs
    /\ args \in 0..consumed
    /\ iteration \in 0..consumed
    /\ iterArgs \in [1..NArgs -> 0..NArgs]
    /\ normalExit \in {"unset", "yes", "no"}
    /\ stops \in [Iterations -> Nat]
    /\ dones \in Nat
    /\ aborts \in 0..MaxAborts
    /\ ran \in [1..NArgs -> 0..NArgs]

TypeOK == LinkTypes /\ RemoteTypes /\ RunnerFlags /\ RunnerTypes

\* Every started iteration but the current one was reported as stopped,
\* exactly once; the current one at most once; none before its start.
EachIterationStopsOnce ==
    \A i \in Iterations :
        /\ i \in 1..(iteration - 1) => stops[i] = 1
        /\ i = iteration => stops[i] <= 1
        /\ i > iteration => stops[i] = 0

\* The test timer belongs to the iteration in progress: it is not armed while
\* the test is stopping, nor before the first start.  So no start() ever
\* overwrites the identifier of an armed timer, which could then not be
\* removed and would stop a later iteration.
TimerOnlyWhileRunning ==
    /\ testTimer => ~stopping /\ iteration > 0
    /\ ~leaked

\* Whatever the test function, its arguments or an abort do, the timers bring
\* every test to its end, as long as the program was spawned, joins the bus,
\* does not die on its own and answers in time.  (Each of the four exceptions
\* is real: a timer calls stop(), and stop() does nothing without a proxy, or
\* when its call is not answered.  SessionCrash shows one.)
EventuallyDone ==
    faults \cap {"mute", "crash", "slow", "spawnFails"} = {} => <>(dones > 0)

\* Without timers or aborts a test is done once, even if the program dies or
\* refuses: a fatal answer and the loss of the program never both end it.
\* (They may with a second stop on its way: two answers, two tearDown().  A
\* start that is refused when the worker is there already has that second
\* stop: the worker's done signal leads to one.)
DoneOnce ==
    faults \cap {"timeout", "abort", "slow", "refusesLate"} = {} => dones <= 1

\* A test that was reported as done leaves no program behind that still runs:
\* it is gone, or kill_process() has tried ten times.  And a normal exit is
\* recorded only for a program that has ended so, never for one that was
\* killed, given up or was not waited for.
NoOrphan ==
    /\ dones > 0 => process = "exited" \/ gaveUp
    /\ normalExit = "yes" => process = "exited" /\ exitCode = 0

\* The arguments recorded for an iteration are those it was started with,
\* although every stop takes new ones from the generator and records them for
\* the iteration to come, which may have a record already: when the set-up
\* ends in a stop, the second argument set replaces the first.
RecordedArgsRan == \A i \in 1..iteration : iterArgs[i] = ran[i]

\* What the program reports is never filed under an earlier iteration than
\* the one whose run reported it, and when nothing goes wrong under that one.
FiledUnderOwnIteration ==
    \A f \in filed : f[1] <= f[2] /\ (faults = {} => f[1] = f[2])

\* When nothing goes wrong the program ends by itself with a null exit code
\* and is recorded so, although kill_process() waits for it only so long.  (A
\* test that no argument set was generated for is never set up: its program
\* does not obey remoteTearDown, and is killed.)
ExitsNormally == faults = {} /\ NArgs > 0 /\ dones > 0 => normalExit = "yes"

\* The iterations reported as stopped, for the refinement.
reported == CHOOSE n \in Iterations :
    /\ \A i \in 1..n : stops[i] > 0
    /\ n + 1 \in Iterations => stops[n + 1] = 0

Lifecycle == INSTANCE TestLifecycle WITH
    smooth <- (faults = {}),
    started <- iteration,
    stopped <- reported,
    done <- dones

\* Whatever goes wrong, the iterations that observers see come one after the
\* other, each started and stopped once; and when nothing goes wrong, there is
\* one per argument set and the test comes to its end, once.
ImplementsLifecycle == Lifecycle!Spec

-----------------------------------------------------------------------------
(* What the repository says and the code does not do.                      *)

\* dbustest.py _removedRemoteTest: "abort if the test hasn't actually
\* finished": a test whose program went away still comes to its end.
EndsWhenProgramLeaves == (process = "exited") ~> (dones > 0)
=============================================================================
