--------------------------- MODULE SerialExecutor ---------------------------
(***************************************************************************)
(* What an ActionQueueThread promises the storage code that uses it        *)
(* (docstring of insanity/threads.py ActionQueueThread), with no lock, no  *)
(* condition variable and no queue:                                        *)
(*                                                                         *)
(*   - actions that are accepted form a log, and they are begun one at a   *)
(*     time in the order of the log;                                       *)
(*   - a final action closes the log: nothing is accepted behind it, and   *)
(*     the executor returns once the log is exhausted;                     *)
(*   - after an abort nothing is accepted and nothing is begun any more.   *)
(***************************************************************************)
EXTENDS Naturals, Sequences

CONSTANT Items       \* the actions callers may submit

VARIABLES
    log,             \* actions accepted so far, oldest first
    begun,           \* actions begun so far, oldest first
    mode,            \* "open", "closed" (final action seen) or "aborted"
    running,         \* an action is being executed
    returned         \* the executor has returned

vars == <<log, begun, mode, running, returned>>

Init ==
    /\ log = <<>>
    /\ begun = <<>>
    /\ mode = "open"
    /\ running = FALSE
    /\ returned = FALSE

Submit(i) ==
    /\ mode = "open"
    /\ log' = Append(log, i)
    /\ UNCHANGED <<begun, mode, running, returned>>

SubmitFinal(i) ==
    /\ mode = "open"
    /\ log' = Append(log, i)
    /\ mode' = "closed"
    /\ UNCHANGED <<begun, running, returned>>

\* An abort is possible at any time and overrides a close.
Abort ==
    /\ mode' = "aborted"
    /\ UNCHANGED <<log, begun, running, returned>>

Begin ==
    /\ mode # "aborted"
    /\ ~running
    /\ ~returned
    /\ Len(begun) < Len(log)
    /\ begun' = Append(begun, log[Len(begun) + 1])
    /\ running' = TRUE
    /\ UNCHANGED <<log, mode, returned>>

Finish ==
    /\ running
    /\ running' = FALSE
    /\ UNCHANGED <<log, begun, mode, returned>>

Return ==
    /\ ~running
    /\ ~returned
    /\ \/ mode = "aborted"
       \/ mode = "closed" /\ Len(begun) = Len(log)
    /\ returned' = TRUE
    /\ UNCHANGED <<log, begun, mode, running>>

Next ==
    \/ \E i \in Items : Submit(i) \/ SubmitFinal(i)
    \/ Abort
    \/ Begin
    \/ Finish
    \/ Return

SafetySpec == Init /\ [][Next]_vars

\* Every accepted action is begun in the end unless the executor is aborted,
\* an action that ends badly ends too, and the executor returns when it is
\* told to.
Fairness ==
    /\ WF_vars(Begin)
    /\ WF_vars(Finish)
    /\ WF_vars(Return)

Spec == SafetySpec /\ Fairness
=============================================================================
