----------------------------- MODULE ActionQueue -----------------------------
(***************************************************************************)
(* insanity/threads.py ActionQueueThread: one worker thread, any number of *)
(* calling threads, a list of actions and two flags behind one             *)
(* threading.Condition.  The storage backends push every database write    *)
(* through it (insanity/storage/async.py).                                 *)
(*                                                                         *)
(* Grain: taking the lock and everything done while holding it are         *)
(* separate steps, so that a caller can be between acquire() and release() *)
(* while the worker wants the lock, and the worker can be between the test *)
(* of a flag and wait().                                                   *)
(***************************************************************************)
EXTENDS Naturals, Sequences, FiniteSets

CONSTANTS
    Callers,         \* threads that call queueAction/queueFinalAction/abort
    Worker,          \* the ActionQueueThread itself
    Free,            \* "nobody holds the lock"
    MaxCalls         \* bound: calls made by each caller

ASSUME CallersAssumption ==
    /\ Worker \notin Callers
    /\ Free \notin Callers \cup {Worker}
    /\ MaxCalls \in Nat

VARIABLES
    lock,            \* holder of self._lock
    abort,           \* self._abort
    exit,            \* self._exit
    queue,           \* self._queue
    pc,              \* where run() is
    call,            \* call[c]: the method caller c is executing
    calls,           \* calls[c]: how many calls c has made
    accepted,        \* history: actions for which the result was True
    started          \* history: actions popped and called

callerVars == <<call, calls>>
vars == <<lock, abort, exit, queue, pc, call, calls, accepted, started>>

Methods == {"queueAction", "queueFinalAction", "abort"}

\* The n-th call of a caller identifies the callable that was passed to it.
Item == [caller : Callers, n : 0..MaxCalls, final : BOOLEAN]

Init ==
    /\ lock = Free
    /\ abort = FALSE
    /\ exit = FALSE
    /\ queue = <<>>
    /\ pc = "acquiring"
    /\ call = [c \in Callers |-> "none"]
    /\ calls = [c \in Callers |-> 0]
    /\ accepted = <<>>
    /\ started = <<>>

-----------------------------------------------------------------------------
(* The callers.                                                            *)

\* self._lock.notify(): a worker blocked in wait() may try to take the lock.
Notify == pc' = IF pc = "waiting" THEN "notified" ELSE pc

\* A caller enters one of the three methods and obtains the lock.
Enter(c, m) ==
    /\ lock = Free
    /\ call[c] = "none"
    /\ calls[c] < MaxCalls
    /\ lock' = c
    /\ call' = [call EXCEPT ![c] = m]
    /\ calls' = [calls EXCEPT ![c] = @ + 1]
    /\ UNCHANGED <<abort, exit, queue, pc, accepted, started>>

Leave(c, m) ==
    /\ lock = c
    /\ call[c] = m
    /\ lock' = Free
    /\ call' = [call EXCEPT ![c] = "none"]
    /\ UNCHANGED <<calls, started>>

Push(item) ==
    /\ queue' = Append(queue, item)
    /\ accepted' = Append(accepted, item)

\* queueAction(): refused, without a notification, once the thread is
\* aborting or exiting.
QueueAction(c) ==
    /\ Leave(c, "queueAction")
    /\ \/ /\ ~abort
          /\ ~exit
          /\ Push([caller |-> c, n |-> calls[c], final |-> FALSE])
          /\ Notify
       \/ /\ abort \/ exit
          /\ UNCHANGED <<queue, accepted, pc>>
    /\ UNCHANGED <<abort, exit>>

\* Mutant: notify() only beside the append, as in queueAction().
FinalNotifiesOnlyIfAccepted(c) ==
    /\ Leave(c, "queueFinalAction")
    /\ \/ /\ ~abort
          /\ ~exit
          /\ Push([caller |-> c, n |-> calls[c], final |-> TRUE])
          /\ UNCHANGED pc
       \/ /\ abort \/ exit
          /\ UNCHANGED <<queue, accepted>>
          /\ Notify
    /\ exit' = TRUE
    /\ UNCHANGED abort

\* queueFinalAction(): the action may be refused, but _exit is set and the
\* worker notified in either case.
QueueFinalAction(c) ==
    /\ Leave(c, "queueFinalAction")
    /\ \/ /\ ~abort
          /\ ~exit
          /\ Push([caller |-> c, n |-> calls[c], final |-> TRUE])
       \/ /\ abort \/ exit
          /\ UNCHANGED <<queue, accepted>>
    /\ exit' = TRUE
    /\ Notify
    /\ UNCHANGED abort

Abort(c) ==
    /\ Leave(c, "abort")
    /\ abort' = TRUE
    /\ Notify
    /\ UNCHANGED <<exit, queue, accepted>>

-----------------------------------------------------------------------------
(* The worker: run().                                                      *)

\* Mutant: _abort is not tested again after wait().
WorkerAcquireNoRetest ==
    /\ pc \in {"acquiring", "notified"}
    /\ lock = Free
    /\ lock' = Worker
    /\ pc' = IF pc = "notified" THEN "testQueue" ELSE "testAbort"
    /\ UNCHANGED <<abort, exit, queue, accepted, started, callerVars>>

\* acquire() on entry, after a call, and the re-acquisition inside wait();
\* each is followed by a test of _abort.
WorkerAcquire ==
    /\ pc \in {"acquiring", "notified"}
    /\ lock = Free
    /\ lock' = Worker
    /\ pc' = "testAbort"
    /\ UNCHANGED <<abort, exit, queue, accepted, started, callerVars>>

TestAbort ==
    /\ pc = "testAbort"
    /\ \/ /\ abort
          /\ pc' = "returned"
          /\ lock' = Free
       \/ /\ ~abort
          /\ pc' = "testQueue"
          /\ UNCHANGED lock
    /\ UNCHANGED <<abort, exit, queue, accepted, started, callerVars>>

\* Mutant: _exit is not looked at.
EmptyQueueAlwaysWaits ==
    /\ pc = "testQueue"
    /\ queue = <<>>
    /\ pc' = "waiting"
    /\ lock' = Free
    /\ UNCHANGED <<abort, exit, queue, accepted, started, callerVars>>

\* Nothing queued: leave for good when _exit is set, else wait().
EmptyQueue ==
    /\ pc = "testQueue"
    /\ queue = <<>>
    /\ pc' = IF exit THEN "returned" ELSE "waiting"
    /\ lock' = Free
    /\ UNCHANGED <<abort, exit, queue, accepted, started, callerVars>>

\* Mutant: pop() instead of pop(0).
PopLast ==
    /\ pc = "testQueue"
    /\ queue # <<>>
    /\ queue' = SubSeq(queue, 1, Len(queue) - 1)
    /\ started' = Append(started, queue[Len(queue)])
    /\ pc' = "calling"
    /\ lock' = Free
    /\ UNCHANGED <<abort, exit, accepted, callerVars>>

\* pop(0), release the lock, and call the method.
PopAndCall ==
    /\ pc = "testQueue"
    /\ queue # <<>>
    /\ queue' = Tail(queue)
    /\ started' = Append(started, Head(queue))
    /\ pc' = "calling"
    /\ lock' = Free
    /\ UNCHANGED <<abort, exit, accepted, callerVars>>

\* The method returns, or raises and the exception is logged and dropped:
\* either way the worker goes for the lock again.
CallEnds ==
    /\ pc = "calling"
    /\ pc' = "acquiring"
    /\ UNCHANGED <<lock, abort, exit, queue, accepted, started, callerVars>>

-----------------------------------------------------------------------------
CallerStep(c) ==
    \/ QueueAction(c)
    \/ QueueFinalAction(c)
    \/ Abort(c)

WorkerStep ==
    \/ WorkerAcquire
    \/ TestAbort
    \/ EmptyQueue
    \/ PopAndCall
    \/ CallEnds

Next ==
    \/ \E c \in Callers : CallerStep(c) \/ \E m \in Methods : Enter(c, m)
    \/ WorkerStep

\* The scheduler runs every thread that is not blocked.  No caller is obliged
\* to call, but one that holds the lock does not stop before releasing it.
\* MaxCalls makes weak fairness enough for the worker to obtain the lock.
Fairness ==
    /\ WF_vars(WorkerStep)
    /\ \A c \in Callers : WF_vars(CallerStep(c))

Spec == Init /\ [][Next]_vars
FairSpec == Spec /\ Fairness

-----------------------------------------------------------------------------
(* Properties.                                                             *)

\* The values of the variables; a thread is inside a method exactly while it
\* holds the lock (threads.py acquire()/release() pairs).
TypeOK ==
    /\ lock \in Callers \cup {Worker, Free}
    /\ abort \in BOOLEAN
    /\ exit \in BOOLEAN
    /\ queue \in Seq(Item)
    /\ pc \in {"acquiring", "notified", "testAbort", "testQueue", "waiting",
               "calling", "returned"}
    /\ call \in [Callers -> Methods \cup {"none"}]
    /\ calls \in [Callers -> 0..MaxCalls]
    /\ accepted \in Seq(Item)
    /\ started \in Seq(Item)

\* The lock excludes: the worker is between acquire() and release() exactly
\* when it holds the lock, a caller likewise.
LockDiscipline ==
    /\ (lock = Worker) <=> (pc \in {"testAbort", "testQueue"})
    /\ \A c \in Callers : (lock = c) <=> (call[c] # "none")

\* Nothing that was accepted is lost, duplicated or overtaken: what was
\* called, followed by what is still queued, is exactly what was accepted,
\* in the order in which it was accepted.
NothingLostOrReordered == accepted = started \o queue

\* No lost wake-up: whenever the worker sleeps in wait() without having been
\* notified, there is nothing for it to do: no action, no exit, no abort
\* (queueAction's early return skips notify(), which is sound only for this
\* reason).
NoLostWakeup ==
    pc = "waiting" => queue = <<>> /\ ~exit /\ ~abort

\* Once abort() has set the flag, no further action is begun, although the
\* worker tests the flag in one place and pops in another.
NothingBegunAfterAbort == [][abort => UNCHANGED started]_vars

-----------------------------------------------------------------------------
(* Refinement of the executor the docstring promises.                      *)

mode == IF abort THEN "aborted" ELSE IF exit THEN "closed" ELSE "open"

Executor == INSTANCE SerialExecutor WITH
    Items <- Item,
    log <- accepted,
    begun <- started,
    mode <- mode,
    running <- pc = "calling",
    returned <- pc = "returned"

\* The thread implements the serial executor: each of its steps is a step of
\* the executor or changes nothing the executor shows, and under the fairness
\* of the scheduler it is as live: what was accepted is called in the end
\* unless the thread is aborted, even if actions before it raise, and
\* queueFinalAction() and abort() end the thread.  The executor accepts
\* the refused queueFinalAction() as no step: _exit was already set, or the
\* abort overrides it.
ImplementsExecutor == Executor!Spec
=============================================================================
