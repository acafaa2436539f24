-------------------------- MODULE ActionQueueProofs --------------------------
(***************************************************************************)
(* Safety of ActionQueueThread for any set of calling threads and any      *)
(* number of calls.                                                        *)
(*                                                                         *)
(* The inductive invariant is IInv.  The lock discipline carries it: a     *)
(* caller's step needs the lock, so it cannot happen while the worker is   *)
(* between its test of _abort and its pop, which is what AbortTested says. *)
(***************************************************************************)
EXTENDS ActionQueue, SequenceTheorems, TLAPS

\* Past the test of _abort, the flag is still clear.
AbortTested == pc = "testQueue" => ~abort

\* The thread has returned only after an abort or with nothing left to do.
ReturnsOnlyWhenDone == pc = "returned" => abort \/ (exit /\ queue = <<>>)

IInv ==
    /\ TypeOK
    /\ LockDiscipline
    /\ NothingLostOrReordered
    /\ NoLostWakeup
    /\ AbortTested
    /\ ReturnsOnlyWhenDone

-----------------------------------------------------------------------------
(* Sequences.                                                              *)

\* Appending to the queue appends to what has been accepted.
LEMMA AppendToQueue ==
    ASSUME NEW s \in Seq(Item), NEW q \in Seq(Item), NEW e \in Item
    PROVE  Append(s \o q, e) = s \o Append(q, e)
BY ConcatProperties, AppendProperties, SMTT(20)

\* Moving the head of the queue behind what was started changes nothing.
LEMMA MoveHead ==
    ASSUME NEW S, NEW s \in Seq(S), NEW q \in Seq(S), q # <<>>
    PROVE  /\ s \o q = Append(s, Head(q)) \o Tail(q)
           /\ (s \o q)[Len(s) + 1] = Head(q)
           /\ Len(s) < Len(s \o q)
BY ConcatProperties, AppendProperties, HeadTailProperties, SMTT(20)

-----------------------------------------------------------------------------
\* The initial state satisfies the invariant.
LEMMA InitInv == Init => IInv
  <1> SUFFICES ASSUME Init PROVE IInv
    OBVIOUS
  <1>1. TypeOK
    <2>1. 0 \in 0..MaxCalls
      BY CallersAssumption DEF CallersAssumption
    <2>2. <<>> \in Seq(Item)
      OBVIOUS
    <2> QED
      BY <2>1, <2>2 DEF Init, TypeOK
  <1>2. LockDiscipline
    BY CallersAssumption DEF Init, LockDiscipline
  <1>3. NothingLostOrReordered
    BY DEF Init, NothingLostOrReordered
  <1> QED
    BY <1>1, <1>2, <1>3 DEF Init, IInv, NoLostWakeup, AbortTested, ReturnsOnlyWhenDone

\* A caller's three methods, and the acquisition before them.
LEMMA CallerPreserves ==
    ASSUME IInv, NEW c \in Callers,
           CallerStep(c) \/ \E m \in Methods : Enter(c, m)
    PROVE  IInv'
  <1> USE CallersAssumption DEF IInv
  <1>1. ASSUME NEW m \in Methods, Enter(c, m)
        PROVE  IInv'
    <2>1. TypeOK'
      BY <1>1 DEF Enter, TypeOK
    <2>2. LockDiscipline'
      BY <1>1 DEF Enter, TypeOK, LockDiscipline, Methods
    <2> QED
      BY <1>1, <2>1, <2>2 DEF Enter, NothingLostOrReordered, NoLostWakeup,
         AbortTested, ReturnsOnlyWhenDone
  <1>2. CASE CallerStep(c)
    <2>1. /\ lock = c
          /\ lock' = Free
          /\ call' = [call EXCEPT ![c] = "none"]
          /\ UNCHANGED <<calls, started>>
          /\ pc \notin {"testAbort", "testQueue"}
          /\ pc' = pc \/ Notify
      BY <1>2 DEF CallerStep, QueueAction, QueueFinalAction, Abort, Leave, LockDiscipline
    <2>2. pc' \in {"acquiring", "notified", "waiting", "calling", "returned"}
      BY <2>1 DEF Notify, TypeOK
    <2>3. LockDiscipline'
      BY <2>1, <2>2 DEF LockDiscipline, TypeOK
    <2>4. \/ /\ ~abort /\ ~exit
             /\ \E i \in Item : Push(i)
          \/ UNCHANGED <<queue, accepted>>
      BY <1>2 DEF CallerStep, QueueAction, QueueFinalAction, Abort, Item, TypeOK
    <2>5. TypeOK'
      <3>1. queue' \in Seq(Item) /\ accepted' \in Seq(Item)
        <4>1. ASSUME NEW i \in Item, Push(i)
              PROVE  queue' \in Seq(Item) /\ accepted' \in Seq(Item)
          BY <4>1, AppendProperties DEF Push, TypeOK
        <4> QED
          BY <2>4, <4>1 DEF TypeOK
      <3>2. abort' \in BOOLEAN /\ exit' \in BOOLEAN
        BY <1>2 DEF CallerStep, QueueAction, QueueFinalAction, Abort, TypeOK
      <3> QED
        BY <2>1, <2>2, <3>1, <3>2 DEF TypeOK
    <2>6. NothingLostOrReordered'
      <3>1. ASSUME NEW i \in Item, Push(i)
            PROVE  accepted' = started \o queue'
        <4>1. queue \in Seq(Item) /\ started \in Seq(Item)
          BY DEF TypeOK
        <4>2. Append(started \o queue, i) = started \o Append(queue, i)
          BY <4>1, AppendToQueue
        <4> QED
          BY <3>1, <4>2 DEF Push, NothingLostOrReordered
      <3> QED
        BY <2>1, <2>4, <3>1 DEF NothingLostOrReordered
    <2>7. NoLostWakeup'
      BY <1>2, <2>1 DEF CallerStep, QueueAction, QueueFinalAction, Abort, Push,
         Notify, NoLostWakeup, TypeOK
    <2>8. AbortTested' /\ ReturnsOnlyWhenDone'
      BY <1>2, <2>1, <2>2 DEF CallerStep, QueueAction, QueueFinalAction, Abort,
         Push, Notify, AbortTested, ReturnsOnlyWhenDone, TypeOK
    <2> QED
      BY <2>3, <2>5, <2>6, <2>7, <2>8
  <1> QED
    BY <1>1, <1>2

\* The worker's steps.
LEMMA WorkerPreserves ==
    ASSUME IInv, WorkerStep
    PROVE  IInv'
  <1> USE CallersAssumption DEF IInv, callerVars
  <1>1. CASE WorkerAcquire
    <2>1. TypeOK'
      BY <1>1 DEF WorkerAcquire, TypeOK
    <2> QED
      BY <1>1, <2>1 DEF WorkerAcquire, TypeOK, LockDiscipline,
         NothingLostOrReordered, NoLostWakeup, AbortTested, ReturnsOnlyWhenDone
  <1>2. CASE TestAbort
    <2>1. TypeOK'
      BY <1>2 DEF TestAbort, TypeOK
    <2> QED
      BY <1>2, <2>1 DEF TestAbort, TypeOK, LockDiscipline,
         NothingLostOrReordered, NoLostWakeup, AbortTested, ReturnsOnlyWhenDone
  <1>3. CASE EmptyQueue
    <2>1. TypeOK'
      BY <1>3 DEF EmptyQueue, TypeOK
    <2> QED
      BY <1>3, <2>1 DEF EmptyQueue, TypeOK, LockDiscipline,
         NothingLostOrReordered, NoLostWakeup, AbortTested, ReturnsOnlyWhenDone
  <1>4. CASE PopAndCall
    <2>1. Head(queue) \in Item /\ Tail(queue) \in Seq(Item)
      BY <1>4 DEF PopAndCall, TypeOK
    <2>2. TypeOK'
      BY <1>4, <2>1 DEF PopAndCall, TypeOK
    <2>3. NothingLostOrReordered'
      BY <1>4, <2>1, MoveHead, SMTT(20) DEF PopAndCall, NothingLostOrReordered, TypeOK
    <2> QED
      BY <1>4, <2>2, <2>3 DEF PopAndCall, TypeOK, LockDiscipline,
         NoLostWakeup, AbortTested, ReturnsOnlyWhenDone
  <1>5. CASE CallEnds
    <2>1. TypeOK'
      BY <1>5 DEF CallEnds, TypeOK
    <2> QED
      BY <1>5, <2>1 DEF CallEnds, TypeOK, LockDiscipline,
         NothingLostOrReordered, NoLostWakeup, AbortTested, ReturnsOnlyWhenDone
  <1> QED
    BY <1>1, <1>2, <1>3, <1>4, <1>5 DEF WorkerStep

\* Every step preserves the invariant.
LEMMA NextInv == IInv /\ [Next]_vars => IInv'
  <1> SUFFICES ASSUME IInv, [Next]_vars PROVE IInv'
    OBVIOUS
  <1>1. CASE UNCHANGED vars
    BY <1>1 DEF vars, callerVars, IInv, TypeOK, LockDiscipline, NothingLostOrReordered,
       NoLostWakeup, AbortTested, ReturnsOnlyWhenDone
  <1> QED
    BY <1>1, CallerPreserves, WorkerPreserves DEF Next

LEMMA Invariance == Spec => []IInv
  BY InitInv, NextInv, PTL DEF Spec

-----------------------------------------------------------------------------
\* Type correctness.
THEOREM TypeCorrect == Spec => []TypeOK
  <1>1. IInv => TypeOK
    BY DEF IInv
  <1> QED
    BY <1>1, Invariance, PTL

\* Accepted actions are neither lost nor reordered.
THEOREM NothingLost == Spec => []NothingLostOrReordered
  <1>1. IInv => NothingLostOrReordered
    BY DEF IInv
  <1> QED
    BY <1>1, Invariance, PTL

\* The worker never sleeps through an action, an exit or an abort.
THEOREM NoLostWakeupTheorem == Spec => []NoLostWakeup
  <1>1. IInv => NoLostWakeup
    BY DEF IInv
  <1> QED
    BY <1>1, Invariance, PTL

\* No step begins an action once abort() has been executed.
THEOREM AbortIsFinal == Spec => NothingBegunAfterAbort
  <1>1. IInv /\ [Next]_vars => [abort => UNCHANGED started]_vars
    <2> SUFFICES ASSUME IInv, Next, abort
                 PROVE  UNCHANGED started
      BY DEF vars
    <2>1. ~PopAndCall
      BY DEF PopAndCall, IInv, AbortTested
    <2> QED
      BY <2>1 DEF Next, CallerStep, QueueAction, QueueFinalAction, Abort, Leave, Enter,
         WorkerStep, WorkerAcquire, TestAbort, EmptyQueue, CallEnds
  <1> QED
    BY <1>1, Invariance, PTL DEF Spec, NothingBegunAfterAbort

-----------------------------------------------------------------------------
(* Refinement, without the fairness.                                       *)

LEMMA InitRefines == Init => Executor!Init
  BY DEF Init, Executor!Init, mode

LEMMA StepRefines ==
    IInv /\ [Next]_vars => [Executor!Next]_(Executor!vars)
  <1> SUFFICES ASSUME IInv, [Next]_vars
               PROVE  Executor!Next \/ UNCHANGED Executor!vars
    OBVIOUS
  <1> USE DEF IInv, mode, Executor!vars, Executor!Next
  <1>1. ASSUME NEW c \in Callers, NEW m \in Methods, Enter(c, m)
        PROVE  UNCHANGED Executor!vars
    BY <1>1 DEF Enter
  <1>2. ASSUME NEW c \in Callers, QueueAction(c)
        PROVE  Executor!Next \/ UNCHANGED Executor!vars
    <2>1. pc' = "calling" <=> pc = "calling"
      BY <1>2 DEF QueueAction, Notify
    <2>2. pc' = "returned" <=> pc = "returned"
      BY <1>2 DEF QueueAction, Notify
    <2>3. [caller |-> c, n |-> calls[c], final |-> FALSE] \in Item
      BY DEF Item, TypeOK
    <2> QED
      BY <1>2, <2>1, <2>2, <2>3 DEF QueueAction, Leave, Push, Executor!Submit, TypeOK
  <1>3. ASSUME NEW c \in Callers, QueueFinalAction(c)
        PROVE  Executor!Next \/ UNCHANGED Executor!vars
    <2>1. pc' = "calling" <=> pc = "calling"
      BY <1>3 DEF QueueFinalAction, Notify
    <2>2. pc' = "returned" <=> pc = "returned"
      BY <1>3 DEF QueueFinalAction, Notify
    <2>3. [caller |-> c, n |-> calls[c], final |-> TRUE] \in Item
      BY DEF Item, TypeOK
    <2> QED
      BY <1>3, <2>1, <2>2, <2>3 DEF QueueFinalAction, Leave, Push,
         Executor!SubmitFinal, TypeOK
  <1>4. ASSUME NEW c \in Callers, Abort(c)
        PROVE  Executor!Next
    BY <1>4 DEF Abort, Leave, Notify, Executor!Abort
  <1>5. CASE WorkerAcquire \/ TestAbort \/ EmptyQueue \/ CallEnds
    BY <1>5 DEF WorkerAcquire, TestAbort, EmptyQueue, CallEnds, AbortTested,
       NothingLostOrReordered, TypeOK, Executor!Return, Executor!Finish
  <1>6. CASE PopAndCall
    BY <1>6, MoveHead DEF PopAndCall, AbortTested, NothingLostOrReordered, TypeOK,
       Executor!Begin
  <1>7. CASE UNCHANGED vars
    BY <1>7 DEF vars
  <1> QED
    BY <1>1, <1>2, <1>3, <1>4, <1>5, <1>6, <1>7 DEF Next, CallerStep, WorkerStep

\* Every behaviour of the thread is one of the serial executor: one action at
\* a time, in order, nothing behind a final action, nothing after an abort.
THEOREM RefinesExecutor == Spec => Executor!SafetySpec
  BY InitRefines, StepRefines, Invariance, PTL DEF Spec, Executor!SafetySpec
=============================================================================
