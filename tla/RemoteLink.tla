----------------------------- MODULE RemoteLink -----------------------------
(***************************************************************************)
(* What lies between a DBusTest of the runner and the test program it      *)
(* spawned: the subprocess and the private D-Bus session bus.              *)
(*                                                                         *)
(* Calls and signals of one connection arrive in the order in which they   *)
(* were sent.  libinsanity answers the calls one by one from its main loop *)
(* (listen(), insanity_call_interface()), so answers come in the order of  *)
(* the calls.  When the process leaves the bus, the daemon delivers what   *)
(* it had sent, then the loss of its name, then an error for every call    *)
(* it has not answered.                                                    *)
(***************************************************************************)
EXTENDS Naturals, Sequences

CONSTANT Environments
    \* the environments to be considered, each the set of what may go wrong:
    \*   "crash"       the program dies, before or after it joined the bus
    \*   "mute"        the program may never join the bus
    \*   "undying"     the kernel may need longer to end the program than
    \*                 kill_process() goes on killing it
    \*   "spawnFails"  Popen raises
    \*   "refuses"     a set-up handler, or a start handler that comes before
    \*                 the one of the class, answers FALSE
    \*   "refusesLate" a start handler that was connected to come after the one
    \*                 of the class, which has spawned the worker, answers FALSE
    \*   "hang"        the program's test function stops making progress
    \*   "race"        the worker thread runs at its own pace (InsanityTest)
    \*   "timeout"     the runner's timers fire
    \*   "abort"       TestRun.abort() stops the test from outside
    \*   "slow"        an answer or an exit takes longer than the runner waits
    \*   "badArgs"     an argument does not parse (_parse_test_arguments)

FaultKinds == {"crash", "mute", "undying", "spawnFails", "refuses",
               "refusesLate", "hang", "race", "timeout", "abort", "slow", "badArgs"}

ASSUME EnvironmentsAssumption == Environments \subseteq SUBSET FaultKinds

VARIABLE faults      \* what may go wrong in this behaviour; never changes

VARIABLES
    process,         \* "unborn", "starting", "connected" or "exited"
    exitCode,        \* return code of an exited process, 0 or 1 (not null)
    calls,           \* method calls the program has not answered
    pending,         \* answers the runner expects; live: not timed out yet
    inbox            \* signals, answers and errors on their way to the runner

linkVars == <<process, exitCode, calls, pending, inbox>>

Methods == {"remoteSetUp", "remoteStart", "remoteStop", "remoteTearDown"}

Joined == [type |-> "joined"]
Left == [type |-> "left"]
Done == [type |-> "done"]
Validate(run) == [type |-> "validate", run |-> run]

\* Answers carry the serial of their call: here, its method.
Reply(m, ok) == [type |-> "reply", method |-> m, ok |-> ok]
Error(m) == [type |-> "error", method |-> m]

LinkInit ==
    /\ faults \in Environments
    /\ process = "unborn"
    /\ exitCode = 0
    /\ calls = <<>>
    /\ pending = <<>>
    /\ inbox = <<>>

-----------------------------------------------------------------------------
(* The runner's end: a callback takes what it was invoked for out of inbox *)
(* and pending, and may issue asynchronous calls.                          *)

Errors(ms) == [k \in DOMAIN ms |-> Error(ms[k])]

\* What is left is `box` and `expected`; the methods ms are called.  The
\* daemon answers a call to a name that nobody owns any more.
Exchange(box, expected, ms) ==
    /\ pending' = expected \o [k \in DOMAIN ms |-> [method |-> ms[k], live |-> TRUE]]
    /\ IF process = "connected"
          THEN calls' = calls \o ms /\ inbox' = box
          ELSE inbox' = box \o Errors(ms) /\ UNCHANGED calls

\* The next message for the runner.
Incoming(t) == inbox # <<>> /\ Head(inbox).type = t

\* The next message answers the oldest call, m, and somebody still waits.
Answers(m, t) ==
    /\ Incoming(t)
    /\ Head(inbox).method = m
    /\ pending # <<>>
    /\ Head(pending) = [method |-> m, live |-> TRUE]

-----------------------------------------------------------------------------
(* The program's end.                                                      *)

Emit(signal) == inbox' = Append(inbox, signal)

Answer(ok) ==
    /\ calls' = Tail(calls)
    /\ inbox' = Append(inbox, Reply(Head(calls), ok))

\* The process is gone, and with it its name on the bus.
Leave(code) ==
    /\ process' = "exited"
    /\ exitCode' = code
    /\ calls' = <<>>
    /\ inbox' = IF process = "connected"
                   THEN inbox \o <<Left>> \o Errors(calls)
                   ELSE inbox
    /\ UNCHANGED pending
=============================================================================
