--------------------------- MODULE TestRunProofs ---------------------------
(***************************************************************************)
(* The test run and its client for any number of runs, batches and         *)
(* iterations: the types of the variables; that with one test at a time    *)
(* what drives a run is a single chain of callbacks; and, when tests are   *)
(* done once too, that runs are stored one after the other, each from its  *)
(* begin to its end, and that a client that quits on its own has stored    *)
(* all of them.                                                            *)
(*                                                                         *)
(* The argument for the chain: the environment that is awaited, the idle   *)
(* callback, the running test and the end of the run are one token handed  *)
(* on by RunNextBatch.  A test that reports "done" holds it, because a     *)
(* launched test is running until it is done.                              *)
(*                                                                         *)
(* The argument for the order: unless the user quits, the current run is   *)
(* the one that was begun and has not ended (ClientBook).  Only a run that *)
(* has not ended writes (ActiveRun), so that whatever is written while the *)
(* storage is open is the current run's, and every other run in the log    *)
(* has ended.                                                              *)
(***************************************************************************)
EXTENDS TestRun, SequenceTheorems, FiniteSetTheorems, TLAPS

\* A client that has stopped is closing, so run() schedules _runNext() once.
ScheduledOnce == clientRunning \/ closed \/ runIdles = 0

TInv == TypeOK /\ ScheduledOnce

-----------------------------------------------------------------------------
(* Types.                                                                  *)

LEMMA BatchAfter ==
    ASSUME NEW n \in 0..NBatches, n < NBatches
    PROVE  /\ n + 1 \in Batches
           /\ n + 1 \in 0..NBatches
BY ClientAssumption DEF ClientAssumption, Batches

LEMMA WritesAre ==
    ASSUME NEW r \in Runs
    PROVE  /\ Begin(r) \in Writes
           /\ End(r) \in Writes
           /\ \A b \in Batches : Finished(r, b) \in Writes
           /\ \A b \in Batches, i \in 1..NIters :
                 Started(r, b, i) \in Writes /\ Stopped(r, b, i) \in Writes
BY DEF Writes

\* The storage keeps what it is given or counts it as lost.
LEMMA SubmitType ==
    ASSUME TypeOK, NEW writes \in Seq(Writes), Submit(writes)
    PROVE  log' \in Seq(Writes) /\ lost' \in SUBSET Writes
  <1>1. CASE log' = log \o writes /\ lost' = lost
    BY <1>1, ConcatProperties DEF TypeOK
  <1>2. CASE lost' = lost \cup {writes[k] : k \in DOMAIN writes} /\ log' = log
    <2>1. \A k \in DOMAIN writes : writes[k] \in Writes
      BY ElementOfSeq, LenProperties
    <2> QED
      BY <1>2, <2>1 DEF TypeOK
  <1> QED
    BY <1>1, <1>2 DEF Submit

\* _runNext() of the client, for any value of _current and _testruns.
LEMMA RunNextType ==
    ASSUME TInv, NEW now \in Runs \cup {None}, NEW waiting \in Seq(Runs),
           RunNext(now, waiting)
    PROVE  /\ clientRunning' \in BOOLEAN
           /\ current' \in Runs \cup {None}
           /\ testruns' \in Seq(Runs)
           /\ closed' \in BOOLEAN
           /\ requested' \in SUBSET Runs
           /\ clientRunning' \/ closed' \/ runIdles = 0
           /\ closed => closed'
  <1>1. CASE /\ waiting # <<>>
             /\ current' = Head(waiting)
             /\ testruns' = Tail(waiting)
             /\ requested' = requested \cup {Head(waiting)}
             /\ UNCHANGED <<clientRunning, closed>>
    BY <1>1, HeadTailProperties DEF TInv, TypeOK, ScheduledOnce
  <1>2. CASE /\ current' = None
             /\ testruns' = waiting
             /\ IF SingleRun
                   THEN QuitIdle
                   ELSE UNCHANGED <<clientRunning, closed, requested>>
    BY <1>2 DEF TInv, TypeOK, ScheduledOnce, QuitIdle
  <1>3. CASE /\ current' = now
             /\ testruns' = waiting
             /\ UNCHANGED <<clientRunning, closed, requested>>
    BY <1>3 DEF TInv, TypeOK, ScheduledOnce
  <1> QED
    BY <1>1, <1>2, <1>3 DEF RunNext

\* _runNextBatch() of a run, for any running tests and pending callbacks.
LEMMA RunNextBatchType ==
    ASSUME TInv, NEW r \in Runs, NEW writes \in Seq(Writes),
           NEW running \in SUBSET Batches, NEW n \in Nat,
           RunNextBatch(r, writes, running, n)
    PROVE  /\ popped' \in [Runs -> 0..NBatches]
           /\ instances' \in [Runs -> SUBSET Batches]
           /\ idles' \in [Runs -> Nat]
           /\ ended' \in [Runs -> Nat]
           /\ launched' \in [Runs -> SUBSET Batches]
           /\ dropped' \in [Runs -> SUBSET Batches]
           /\ log' \in Seq(Writes)
           /\ lost' \in SUBSET Writes
           /\ clientRunning' \in BOOLEAN
           /\ current' \in Runs \cup {None}
           /\ testruns' \in Seq(Runs)
           /\ closed' \in BOOLEAN
           /\ requested' \in SUBSET Runs
           /\ clientRunning' \/ closed' \/ runIdles = 0
  <1>1. CASE /\ Submit(Append(writes, End(r)))
             /\ ended' = [ended EXCEPT ![r] = @ + 1]
             /\ CurrentDone(r)
             /\ instances' = [instances EXCEPT ![r] = running]
             /\ idles' = [idles EXCEPT ![r] = n]
             /\ UNCHANGED <<popped, launched, dropped>>
    <2>1. Append(writes, End(r)) \in Seq(Writes)
      BY WritesAre, AppendProperties
    <2>2. log' \in Seq(Writes) /\ lost' \in SUBSET Writes
      BY <1>1, <2>1, SubmitType DEF TInv
    <2>3. /\ (IF current = r THEN None ELSE current) \in Runs \cup {None}
          /\ testruns \in Seq(Runs)
      BY DEF TInv, TypeOK
    <2>4. /\ clientRunning' \in BOOLEAN
          /\ current' \in Runs \cup {None}
          /\ testruns' \in Seq(Runs)
          /\ closed' \in BOOLEAN
          /\ requested' \in SUBSET Runs
          /\ clientRunning' \/ closed' \/ runIdles = 0
      BY <1>1, <2>3, RunNextType DEF CurrentDone
    <2>5. /\ popped' \in [Runs -> 0..NBatches]
          /\ instances' \in [Runs -> SUBSET Batches]
          /\ idles' \in [Runs -> Nat]
          /\ ended' \in [Runs -> Nat]
          /\ launched' \in [Runs -> SUBSET Batches]
          /\ dropped' \in [Runs -> SUBSET Batches]
      BY <1>1 DEF TInv, TypeOK
    <2> QED
      BY <2>2, <2>4, <2>5
  <1>2. CASE /\ popped[r] < NBatches
             /\ Submit(writes)
             /\ popped' = [popped EXCEPT ![r] = @ + 1]
             /\ RunTest(r, popped[r] + 1, running, n)
             /\ UNCHANGED <<clientRunning, current, testruns, closed, requested, ended>>
    <2> DEFINE b == popped[r] + 1
    <2>1. b \in Batches /\ b \in 0..NBatches
      BY <1>2, BatchAfter DEF TInv, TypeOK
    <2>2. log' \in Seq(Writes) /\ lost' \in SUBSET Writes
      BY <1>2, SubmitType DEF TInv
    <2>3. /\ instances' \in [Runs -> SUBSET Batches]
          /\ idles' \in [Runs -> Nat]
          /\ launched' \in [Runs -> SUBSET Batches]
          /\ dropped' \in [Runs -> SUBSET Batches]
      <3> HIDE DEF b
      <3>1. RunTest(r, b, running, n)
        BY <1>2 DEF b
      <3>2. running \cup {b} \in SUBSET Batches /\ n + 1 \in Nat
        BY <2>1
      <3>3. /\ \E x \in {running, running \cup {b}} :
                  instances' = [instances EXCEPT ![r] = x]
            /\ \E k \in {n, n + 1} : idles' = [idles EXCEPT ![r] = k]
            /\ \E x \in {launched[r], launched[r] \cup {b}} :
                  launched' = [launched EXCEPT ![r] = x]
            /\ \E x \in {dropped[r], dropped[r] \cup {b}} :
                  dropped' = [dropped EXCEPT ![r] = x]
        BY <3>1, Zenon DEF RunTest, Reschedule, TInv, TypeOK
      <3>4. instances' \in [Runs -> SUBSET Batches]
        BY <3>2, <3>3 DEF TInv, TypeOK
      <3>5. idles' \in [Runs -> Nat]
        BY <3>2, <3>3 DEF TInv, TypeOK
      <3>6. launched[r] \cup {b} \in SUBSET Batches
            /\ dropped[r] \cup {b} \in SUBSET Batches
            /\ launched[r] \in SUBSET Batches
            /\ dropped[r] \in SUBSET Batches
        BY <2>1 DEF TInv, TypeOK
      <3>7. launched' \in [Runs -> SUBSET Batches]
        BY <3>6, <3>3 DEF TInv, TypeOK
      <3>8. dropped' \in [Runs -> SUBSET Batches]
        BY <3>6, <3>3 DEF TInv, TypeOK
      <3> QED
        BY <3>4, <3>5, <3>7, <3>8
    <2>4. popped' \in [Runs -> 0..NBatches]
      BY <1>2, <2>1 DEF TInv, TypeOK
    <2>5. /\ ended' \in [Runs -> Nat]
          /\ clientRunning' \in BOOLEAN
          /\ current' \in Runs \cup {None}
          /\ testruns' \in Seq(Runs)
          /\ closed' \in BOOLEAN
          /\ requested' \in SUBSET Runs
      BY <1>2 DEF TInv, TypeOK
    <2>6. clientRunning' \/ closed' \/ runIdles = 0
      BY <1>2 DEF TInv, ScheduledOnce
    <2> QED
      BY <2>2, <2>3, <2>4, <2>5, <2>6
  <1> QED
    BY <1>1, <1>2 DEF RunNextBatch

\* The initial state is of the right types.
LEMMA InitTInv == Init => TInv
  <1> SUFFICES ASSUME Init PROVE TInv
    OBVIOUS
  <1>1. <<>> \in Seq(Runs) /\ <<>> \in Seq(Writes)
    OBVIOUS
  <1>2. 0 \in 0..NBatches /\ 0 \in 0..NIters
    BY ClientAssumption, TestRunAssumption DEF ClientAssumption, TestRunAssumption
  <1>3. /\ events \in Environments
        /\ current \in Runs \cup {None}
        /\ testruns \in Seq(Runs)
        /\ runIdles \in 0..1
        /\ loop \in {"up", "quit"}
        /\ log \in Seq(Writes)
        /\ lost \in SUBSET Writes
        /\ handed \in SUBSET Runs
        /\ requested \in SUBSET Runs
    BY <1>1 DEF Init, ClientInit
  <1>7. /\ clientRunning \in BOOLEAN
        /\ closed \in BOOLEAN
        /\ interrupted \in BOOLEAN
        /\ ScheduledOnce
    BY DEF Init, ClientInit, ScheduledOnce
  <1>4. /\ popped \in [Runs -> 0..NBatches]
        /\ idles \in [Runs -> Nat]
        /\ ended \in [Runs -> Nat]
        /\ collected \in SUBSET Runs
    BY <1>2 DEF Init
  <1>5. /\ instances \in [Runs -> SUBSET Batches]
        /\ launched \in [Runs -> SUBSET Batches]
        /\ dropped \in [Runs -> SUBSET Batches]
    BY DEF Init
  <1>6. /\ started \in [Runs -> [Batches -> 0..NIters]]
        /\ stopped \in [Runs -> [Batches -> 0..NIters]]
        /\ dones \in [Runs -> [Batches -> 0..2]]
    BY <1>2 DEF Init
  <1> QED
    BY <1>3, <1>4, <1>5, <1>6, <1>7 DEF TInv, TypeOK

\* What the user of the client and its storage do.
LEMMA ClientKeepsTInv ==
    ASSUME TInv, ClientNext, UNCHANGED <<events, runVars>>
    PROVE  TInv'
  <1> USE DEF runVars, testVars
  <1>1. CASE \E r \in Runs : AddTestRun(r)
    <2> PICK r \in Runs : AddTestRun(r)
      BY <1>1
    <2>1. Append(testruns, r) \in Seq(Runs) /\ current \in Runs \cup {None}
      BY AppendProperties DEF TInv, TypeOK
    <2>2. RunNext(current, Append(testruns, r))
      BY DEF AddTestRun
    <2>3. /\ clientRunning' \in BOOLEAN
          /\ current' \in Runs \cup {None}
          /\ testruns' \in Seq(Runs)
          /\ closed' \in BOOLEAN
          /\ requested' \in SUBSET Runs
          /\ clientRunning' \/ closed' \/ runIdles = 0
      BY <2>1, <2>2, RunNextType
    <2> QED
      BY <2>3 DEF AddTestRun, TInv, TypeOK, ScheduledOnce
  <1>2. CASE RunClient
    <2>1. runIdles' = 1
      BY <1>2 DEF RunClient, TInv, TypeOK, ScheduledOnce
    <2> QED
      BY <1>2, <2>1 DEF RunClient, TInv, TypeOK, ScheduledOnce
  <1>3. CASE RunNextIdle
    <2>1. runIdles = 1 /\ runIdles' = 0
      BY <1>3 DEF RunNextIdle, TInv, TypeOK
    <2>2. testruns \in Seq(Runs) /\ current \in Runs \cup {None}
      BY DEF TInv, TypeOK
    <2>3. /\ clientRunning' \in BOOLEAN
          /\ current' \in Runs \cup {None}
          /\ testruns' \in Seq(Runs)
          /\ closed' \in BOOLEAN
          /\ requested' \in SUBSET Runs
      BY <1>3, <2>2, RunNextType DEF RunNextIdle
    <2> QED
      BY <1>3, <2>1, <2>3 DEF RunNextIdle, TInv, TypeOK, ScheduledOnce
  <1>4. CASE Quit
    BY <1>4 DEF Quit, TInv, TypeOK, ScheduledOnce
  <1>5. CASE StorageClosed
    BY <1>5 DEF StorageClosed, clientVars, storeVars, TInv, TypeOK, ScheduledOnce
  <1> QED
    BY <1>1, <1>2, <1>3, <1>4, <1>5 DEF ClientNext

\* The callbacks of a run.
LEMMA RunKeepsTInv ==
    ASSUME TInv, NEW r \in Runs, RunStep(r), UNCHANGED events
    PROVE  TInv'
  <1> USE DEF testVars
  <1>1. CASE GotEnvironment(r)
    <2>1. <<Begin(r)>> \in Seq(Writes)
      BY WritesAre
    <2>2. instances[r] \in SUBSET Batches /\ idles[r] \in Nat
      BY DEF TInv, TypeOK
    <2>3. RunNextBatch(r, <<Begin(r)>>, instances[r], idles[r])
      BY <1>1 DEF GotEnvironment
    <2> HIDE DEF testVars
    <2>4. TypeOK' /\ ScheduledOnce'
      BY <1>1, <2>1, <2>2, <2>3, RunNextBatchType
         DEF GotEnvironment, testVars, TInv, TypeOK, ScheduledOnce
    <2> QED
      BY <2>4 DEF TInv
  <1>2. CASE NextBatchIdle(r)
    <2>1. <<>> \in Seq(Writes)
      OBVIOUS
    <2>2. instances[r] \in SUBSET Batches /\ idles[r] - 1 \in Nat
      BY <1>2 DEF NextBatchIdle, TInv, TypeOK
    <2>3. RunNextBatch(r, <<>>, instances[r], idles[r] - 1)
      BY <1>2 DEF NextBatchIdle
    <2>4. TypeOK' /\ ScheduledOnce'
      BY <1>2, <2>1, <2>2, <2>3, RunNextBatchType
         DEF NextBatchIdle, TInv, TypeOK, ScheduledOnce
    <2> QED
      BY <2>4 DEF TInv
  <1> QED
    BY <1>1, <1>2 DEF RunStep

\* The signals of a test.
LEMMA TestKeepsTInv ==
    ASSUME TInv, NEW r \in Runs, NEW b \in Batches, TestStep(r, b), UNCHANGED events
    PROVE  TInv'
  <1> USE DEF clientVars
  <1>0. /\ started[r][b] \in 0..NIters
        /\ stopped[r][b] \in 0..NIters
        /\ dones[r][b] \in 0..2
    BY DEF TInv, TypeOK
  <1>1. CASE SingleTestStart(r, b)
    <2>1. started[r][b] + 1 \in 1..NIters /\ started[r][b] + 1 \in 0..NIters
      BY <1>0, <1>1, TestRunAssumption DEF SingleTestStart, TestRunAssumption
    <2>2. <<Started(r, b, started[r][b] + 1)>> \in Seq(Writes)
      BY <2>1, WritesAre
    <2>3. log' \in Seq(Writes) /\ lost' \in SUBSET Writes
      BY <1>1, <2>2, SubmitType DEF SingleTestStart, TInv
    <2>4. started' \in [Runs -> [Batches -> 0..NIters]]
      BY <1>1, <2>1 DEF SingleTestStart, TInv, TypeOK
    <2> QED
      BY <1>1, <2>3, <2>4 DEF SingleTestStart, TInv, TypeOK, ScheduledOnce
  <1>2. CASE SingleTestStop(r, b)
    <2>1. started[r][b] \in 1..NIters
      BY <1>0, <1>2, TestRunAssumption DEF SingleTestStop, TestRunAssumption
    <2>2. <<Stopped(r, b, started[r][b])>> \in Seq(Writes)
      BY <2>1, WritesAre
    <2>3. log' \in Seq(Writes) /\ lost' \in SUBSET Writes
      BY <1>2, <2>2, SubmitType DEF SingleTestStop, TInv
    <2>4. stopped' \in [Runs -> [Batches -> 0..NIters]]
      BY <1>0, <1>2 DEF SingleTestStop, TInv, TypeOK
    <2> QED
      BY <1>2, <2>3, <2>4 DEF SingleTestStop, TInv, TypeOK, ScheduledOnce
  <1>3. CASE SingleTestDone(r, b)
    <2>1. dones[r][b] + 1 \in 0..2
      BY <1>0, <1>3 DEF SingleTestDone, MayBeDone
    <2>2. dones' \in [Runs -> [Batches -> 0..2]]
      BY <1>3, <2>1 DEF SingleTestDone, TInv, TypeOK
    <2>3. <<Finished(r, b)>> \in Seq(Writes)
      BY WritesAre
    <2>4. instances[r] \ {b} \in SUBSET Batches /\ idles[r] \in Nat
      BY DEF TInv, TypeOK
    <2>5. RunNextBatch(r, <<Finished(r, b)>>, instances[r] \ {b}, idles[r])
      BY <1>3 DEF SingleTestDone
    <2> QED
      BY <1>3, <2>2, <2>3, <2>4, <2>5, RunNextBatchType
         DEF SingleTestDone, TInv, TypeOK, ScheduledOnce
  <1> QED
    BY <1>1, <1>2, <1>3 DEF TestStep

LEMMA NextTInv == TInv /\ [Next]_vars => TInv'
  <1> SUFFICES ASSUME TInv, [Next]_vars PROVE TInv'
    OBVIOUS
  <1>1. CASE Client(ClientNext)
    BY <1>1, ClientKeepsTInv DEF Client
  <1>2. ASSUME NEW r \in Runs, Run(RunStep(r)) PROVE TInv'
    BY <1>2, RunKeepsTInv DEF Run
  <1>3. ASSUME NEW r \in Runs, NEW b \in Batches, Run(TestStep(r, b)) PROVE TInv'
    BY <1>3, TestKeepsTInv DEF Run
  <1>4. CASE UNCHANGED vars
    BY <1>4 DEF vars, clientVars, storeVars, runVars, testVars, TInv, TypeOK, ScheduledOnce
  <1> QED
    BY <1>1, <1>2, <1>3, <1>4 DEF Next

LEMMA TInvInvariant == Spec => []TInv
BY InitTInv, NextTInv, PTL DEF Spec

\* The variables have their types; no run takes more batches than it has, and
\* the client schedules _runNext() at most once.
THEOREM TypeCorrect == Spec => []TypeOK
  <1>1. TInv => TypeOK
    BY DEF TInv
  <1> QED
    BY <1>1, TInvInvariant, PTL

-----------------------------------------------------------------------------
(* The chain.                                                              *)

\* Only batches that were taken from the list are launched.
LaunchedWerePopped == \A r \in Runs : \A b \in launched[r] : b <= popped[r]

\* Only tests that were launched report anything.
DoneWasLaunched ==
    \A r \in Runs : \A b \in Batches : b \notin launched[r] => dones[r][b] = 0

\* A test is running from its launch until it is done.
RunningUntilDone ==
    \A r \in Runs : instances[r] = {b \in launched[r] : dones[r][b] = 0}

\* Where the token of a run is: nowhere yet, with an idle callback, spent, or
\* with a running test.
Token(r) ==
    IF r \in collected
       THEN \/ instances[r] = {} /\ idles[r] = 1 /\ ended[r] = 0
            \/ instances[r] = {} /\ idles[r] = 0 /\ ended[r] = 1
            \/ /\ \E b \in Batches : instances[r] = {b}
               /\ idles[r] = 0
               /\ ended[r] = 0
       ELSE instances[r] = {} /\ idles[r] = 0 /\ ended[r] = 0

Chain ==
    /\ LaunchedWerePopped
    /\ DoneWasLaunched
    /\ RunningUntilDone
    /\ \A r \in Runs : Token(r)
    /\ \A r \in Runs : dropped[r] = {}

Single == MaxTests = 1 /\ "again" \notin events

CInv == TInv /\ (Single => Chain)

\* What _runNextBatch() does for a run of which nothing is under way.
LEMMA HandOn ==
    ASSUME TInv, MaxTests = 1, NEW r \in Runs, NEW writes,
           RunNextBatch(r, writes, {}, 0), ended[r] = 0
    PROVE  /\ dropped' = dropped
           /\ \A s \in Runs \ {r} :
                 /\ instances'[s] = instances[s]
                 /\ idles'[s] = idles[s]
                 /\ ended'[s] = ended[s]
                 /\ launched'[s] = launched[s]
                 /\ popped'[s] = popped[s]
           /\ \/ /\ popped'[r] = popped[r]
                 /\ launched'[r] = launched[r]
                 /\ instances'[r] = {} /\ idles'[r] = 0 /\ ended'[r] = 1
              \/ /\ popped'[r] = popped[r] + 1
                 /\ popped[r] + 1 \in Batches
                 /\ launched'[r] = launched[r] \cup {popped[r] + 1}
                 /\ instances'[r] = {popped[r] + 1} /\ idles'[r] = 0 /\ ended'[r] = 0
              \/ /\ popped'[r] = popped[r] + 1
                 /\ launched'[r] = launched[r]
                 /\ instances'[r] = {} /\ idles'[r] = 1 /\ ended'[r] = 0
  <1>0. /\ popped \in [Runs -> 0..NBatches]
        /\ instances \in [Runs -> SUBSET Batches]
        /\ idles \in [Runs -> Nat]
        /\ ended \in [Runs -> Nat]
        /\ launched \in [Runs -> SUBSET Batches]
    BY DEF TInv, TypeOK
  <1>1. CASE /\ ended' = [ended EXCEPT ![r] = @ + 1]
             /\ instances' = [instances EXCEPT ![r] = {}]
             /\ idles' = [idles EXCEPT ![r] = 0]
             /\ UNCHANGED <<popped, launched, dropped>>
    BY <1>0, <1>1
  <1>2. CASE /\ popped[r] < NBatches
             /\ popped' = [popped EXCEPT ![r] = @ + 1]
             /\ RunTest(r, popped[r] + 1, {}, 0)
             /\ ended' = ended
    <2> DEFINE b == popped[r] + 1
    <2>1. b \in Batches
      BY <1>0, <1>2, BatchAfter
    <2>2. Cardinality({}) = 0 /\ Cardinality({} \cup {b}) = 1
      <3>1. {} \cup {b} = {b}
        OBVIOUS
      <3> QED
        BY <3>1, FS_EmptySet, FS_Singleton
    <2>3. \/ /\ launched' = [launched EXCEPT ![r] = @ \cup {b}]
             /\ instances' = [instances EXCEPT ![r] = {b}]
             /\ idles' = [idles EXCEPT ![r] = 0]
             /\ UNCHANGED dropped
          \/ /\ instances' = [instances EXCEPT ![r] = {}]
             /\ idles' = [idles EXCEPT ![r] = 1]
             /\ UNCHANGED <<launched, dropped>>
      <3> HIDE DEF b
      <3>1. RunTest(r, b, {}, 0)
        BY <1>2 DEF b
      <3>2. {} \cup {b} = {b} /\ 0 + 1 = 1 /\ 0 < 1 /\ ~(0 >= 1) /\ ~(1 < 1)
        OBVIOUS
      <3> QED
        BY <2>2, <3>1, <3>2 DEF RunTest, Reschedule
    <2> QED
      BY <1>0, <1>2, <2>1, <2>3
  <1> QED
    BY <1>1, <1>2 DEF RunNextBatch

\* The callback that holds the token of a run hands it on.
LEMMA TokenHandedOn ==
    ASSUME TInv, MaxTests = 1, Chain, NEW r \in Runs, NEW writes,
           RunNextBatch(r, writes, {}, 0), ended[r] = 0,
           collected' = collected \cup {r},
           \A s \in Runs \ {r} : dones'[s] = dones[s],
           \A b \in launched[r] : dones'[r][b] # 0,
           \A b \in Batches : b \notin launched[r] => dones'[r][b] = 0
    PROVE  Chain'
  <1>1. /\ popped[r] \in 0..NBatches
        /\ \A b \in launched[r] : b \in Nat /\ b <= popped[r]
    BY DEF TInv, TypeOK, Chain, LaunchedWerePopped, Batches
  <1>2. popped[r] + 1 \notin launched[r]
    BY <1>1
  <1>3. LaunchedWerePopped'
    BY <1>1, HandOn DEF LaunchedWerePopped, Chain
  <1>4. DoneWasLaunched'
    BY HandOn DEF DoneWasLaunched, Chain
  <1>5. RunningUntilDone'
    <2>1. instances'[r] = {b \in launched'[r] : dones'[r][b] = 0}
      BY <1>2, HandOn
    <2>2. ASSUME NEW s \in Runs \ {r}
          PROVE  instances'[s] = {b \in launched'[s] : dones'[s][b] = 0}
      BY HandOn DEF RunningUntilDone, Chain
    <2> QED
      BY <2>1, <2>2 DEF RunningUntilDone
  <1>6. \A s \in Runs : Token(s)'
    <2>1. Token(r)'
      BY HandOn DEF Token
    <2>2. ASSUME NEW s \in Runs \ {r} PROVE Token(s)'
      <3>1. Token(s) /\ (s \in collected' <=> s \in collected)
        BY DEF Chain
      <3> QED
        BY <3>1, HandOn DEF Token
    <2> QED
      BY <2>1, <2>2
  <1>7. \A s \in Runs : dropped'[s] = {}
    BY HandOn DEF Chain
  <1> QED
    BY <1>3, <1>4, <1>5, <1>6, <1>7 DEF Chain

LEMMA RunKeepsChain ==
    ASSUME TInv, Single, Chain, NEW r \in Runs, RunStep(r), UNCHANGED events
    PROVE  Chain'
  <1>0. MaxTests = 1 /\ Token(r)
    BY DEF Single, Chain
  <1>1. CASE GotEnvironment(r)
    <2>1. instances[r] = {} /\ idles[r] = 0 /\ ended[r] = 0
      BY <1>0, <1>1 DEF GotEnvironment, Token
    <2>2. \A b \in launched[r] : dones[r][b] # 0
      BY <2>1 DEF Chain, RunningUntilDone
    <2>3. RunNextBatch(r, <<Begin(r)>>, {}, 0)
      BY <1>1, <2>1 DEF GotEnvironment
    <2>4. collected' = collected \cup {r} /\ dones' = dones
      BY <1>1 DEF GotEnvironment, testVars
    <2>5. \A b \in Batches : b \notin launched[r] => dones[r][b] = 0
      BY DEF Chain, DoneWasLaunched
    <2> QED
      BY <1>0, <2>1, <2>2, <2>3, <2>4, <2>5, TokenHandedOn
  <1>2. CASE NextBatchIdle(r)
    <2>1. /\ r \in collected
          /\ instances[r] = {}
          /\ idles[r] - 1 = 0
          /\ ended[r] = 0
      BY <1>0, <1>2 DEF NextBatchIdle, Token
    <2>2. \A b \in launched[r] : dones[r][b] # 0
      BY <2>1 DEF Chain, RunningUntilDone
    <2>3. RunNextBatch(r, <<>>, {}, 0)
      BY <1>2, <2>1 DEF NextBatchIdle
    <2>4. collected' = collected \cup {r} /\ dones' = dones
      BY <1>2, <2>1 DEF NextBatchIdle, testVars
    <2>5. \A b \in Batches : b \notin launched[r] => dones[r][b] = 0
      BY DEF Chain, DoneWasLaunched
    <2> QED
      BY <1>0, <2>1, <2>2, <2>3, <2>4, <2>5, TokenHandedOn
  <1> QED
    BY <1>1, <1>2 DEF RunStep

LEMMA TestKeepsChain ==
    ASSUME TInv, Single, Chain, NEW r \in Runs, NEW b \in Batches, TestStep(r, b),
           UNCHANGED events
    PROVE  Chain'
  <1>1. CASE SingleTestStart(r, b)
    BY <1>1 DEF SingleTestStart, Chain, LaunchedWerePopped, DoneWasLaunched,
                RunningUntilDone, Token
  <1>2. CASE SingleTestStop(r, b)
    BY <1>2 DEF SingleTestStop, Chain, LaunchedWerePopped, DoneWasLaunched,
                RunningUntilDone, Token
  <1>3. CASE SingleTestDone(r, b)
    <2>0. MaxTests = 1 /\ Token(r)
      BY DEF Single, Chain
    <2>1. b \in launched[r] /\ dones[r][b] = 0
      BY <1>3 DEF SingleTestDone, MayBeDone, Single
    <2>2. b \in instances[r]
      BY <2>1 DEF Chain, RunningUntilDone
    <2>3. /\ r \in collected
          /\ instances[r] = {b}
          /\ idles[r] = 0
          /\ ended[r] = 0
      BY <2>0, <2>2 DEF Token
    <2>4. RunNextBatch(r, <<Finished(r, b)>>, {}, 0)
      <3>1. instances[r] \ {b} = {}
        BY <2>3
      <3> QED
        BY <1>3, <2>3, <3>1 DEF SingleTestDone
    <2>5. /\ collected' = collected \cup {r}
          /\ dones' = [dones EXCEPT ![r][b] = @ + 1]
          /\ dones \in [Runs -> [Batches -> 0..2]]
      BY <1>3, <2>3 DEF SingleTestDone, TInv, TypeOK
    <2>6. \A s \in Runs \ {r} : dones'[s] = dones[s]
      BY <2>5
    <2>7. /\ dones'[r][b] = 1
          /\ \A c \in Batches \ {b} : dones'[r][c] = dones[r][c]
      BY <2>1, <2>5
    <2>8. \A c \in launched[r] : dones'[r][c] # 0
      <3>1. \A c \in launched[r] : c # b => dones[r][c] # 0
        BY <2>3 DEF Chain, RunningUntilDone
      <3>2. launched[r] \subseteq Batches
        BY DEF TInv, TypeOK
      <3> QED
        BY <2>7, <3>1, <3>2
    <2>9. \A c \in Batches : c \notin launched[r] => dones'[r][c] = 0
      BY <2>1, <2>7 DEF Chain, DoneWasLaunched
    <2> QED
      BY <2>0, <2>3, <2>4, <2>5, <2>6, <2>8, <2>9, TokenHandedOn
  <1> QED
    BY <1>1, <1>2, <1>3 DEF TestStep

LEMMA InitChain == Init => CInv
  <1> SUFFICES ASSUME Init PROVE CInv
    OBVIOUS
  <1>1. TInv
    BY InitTInv
  <1>2. Chain
    BY DEF Init, Chain, LaunchedWerePopped, DoneWasLaunched, RunningUntilDone, Token
  <1> QED
    BY <1>1, <1>2 DEF CInv

LEMMA NextChain == CInv /\ [Next]_vars => CInv'
  <1> SUFFICES ASSUME CInv, [Next]_vars PROVE CInv'
    OBVIOUS
  <1>1. TInv' /\ TInv
    BY NextTInv DEF CInv
  <1>2. ASSUME Single' PROVE Chain'
    <2>1. UNCHANGED events
      BY DEF Next, Client, Run, vars
    <2>2. Single /\ Chain
      BY <1>2, <2>1 DEF Single, CInv
    <2>3. CASE Client(ClientNext) \/ UNCHANGED vars
      <3>1. UNCHANGED <<collected, popped, instances, idles, ended, launched, dropped, dones>>
        BY <2>3 DEF Client, vars, runVars, testVars
      <3> QED
        BY <2>2, <3>1 DEF Chain, LaunchedWerePopped, DoneWasLaunched,
                          RunningUntilDone, Token
    <2>4. ASSUME NEW r \in Runs, Run(RunStep(r)) PROVE Chain'
      BY <1>1, <2>2, <2>4, RunKeepsChain DEF Run
    <2>5. ASSUME NEW r \in Runs, NEW b \in Batches, Run(TestStep(r, b)) PROVE Chain'
      BY <1>1, <2>2, <2>5, TestKeepsChain DEF Run
    <2> QED
      BY <2>3, <2>4, <2>5 DEF Next
  <1> QED
    BY <1>1, <1>2 DEF CInv

\* The chain, in the form in which it is checked.
LEMMA ChainIsSingle == CInv => SingleChain
  <1> SUFFICES ASSUME CInv, Single, NEW r \in Runs
               PROVE  /\ Cardinality(instances[r]) + idles[r] + ended[r]
                            = (IF r \in collected THEN 1 ELSE 0)
                      /\ dropped[r] = {}
    BY DEF SingleChain, Single
  <1>1. Token(r) /\ dropped[r] = {}
    BY DEF CInv, Chain
  <1>2. CASE instances[r] = {}
    BY <1>1, <1>2, FS_EmptySet DEF Token
  <1>3. CASE \E b \in Batches : instances[r] = {b}
    <2>1. Cardinality(instances[r]) = 1 /\ instances[r] # {}
      BY <1>3, FS_Singleton
    <2> QED
      BY <1>1, <2>1 DEF Token
  <1> QED
    BY <1>1, <1>2, <1>3 DEF Token

\* With one test at a time no batch is dropped, no two callbacks or tests of a
\* run are under way together, and no run is done twice.
THEOREM SingleChainTheorem == Spec => []SingleChain
BY InitChain, NextChain, ChainIsSingle, PTL DEF Spec

-----------------------------------------------------------------------------
(* The order in which runs are stored, when tests run one at a time and    *)
(* are done once.                                                          *)

\* A list of different members of S.
Fresh(s, S) ==
    /\ s \in Seq(S)
    /\ \A j, k \in DOMAIN s : s[j] = s[k] => j = k

\* The runs that wait, the current run and the storage, as the client has them.
ClientBook ==
    /\ requested \subseteq handed
    /\ Fresh(testruns, handed \ requested)
    /\ interrupted => closed
    /\ closed => ~clientRunning
    /\ ~interrupted =>
          /\ \A r \in Runs : current = r <=> r \in requested /\ ended[r] = 0
          /\ closed => current = None
          /\ lost = {}

\* The runs.
RunBook ==
    /\ collected \subseteq requested
    /\ \A r \in Runs : ended[r] # 0 => popped[r] = NBatches
    /\ \A r \in Runs : \A b \in Batches : b \notin launched[r] => started[r][b] = 0

\* The log: who writes after another run has written finds that one ended.
Ordered ==
    /\ \A i \in DOMAIN log :
          /\ log[i].run \in collected
          /\ log[i].what = "end" => ended[log[i].run] # 0
    /\ \A i, j \in DOMAIN log : i < j =>
          /\ log[i].run = log[j].run => log[i].what # "end" /\ log[j].what # "begin"
          /\ log[i].run # log[j].run => ended[log[i].run] # 0
    /\ \A i, j, k \in DOMAIN log :
          i < j /\ j < k /\ log[i].run = log[k].run => log[j].run = log[i].run

Books == ClientBook /\ RunBook /\ Ordered

OInv == CInv /\ (Single => Books)

-----------------------------------------------------------------------------
(* Lists without duplicates.                                               *)

LEMMA TakeFirst ==
    ASSUME NEW S, NEW s, Fresh(s, S), s # <<>>
    PROVE  Head(s) \in S /\ Fresh(Tail(s), S \ {Head(s)})
  <1>1. s \in Seq(S) /\ \A j, k \in DOMAIN s : s[j] = s[k] => j = k
    BY DEF Fresh
  <1>2. /\ Head(s) \in S /\ Head(s) = s[1]
        /\ Len(s) \in Nat /\ Len(s) >= 1 /\ DOMAIN s = 1..Len(s)
        /\ Tail(s) \in Seq(S)
        /\ Len(Tail(s)) = Len(s) - 1
        /\ \A k \in 1..Len(Tail(s)) : Tail(s)[k] = s[k + 1]
    BY <1>1, HeadTailProperties, LenProperties, EmptySeq
  <1>3. DOMAIN Tail(s) = 1..Len(Tail(s))
    BY <1>2, LenProperties
  <1>4. \A k \in 1..Len(Tail(s)) : k + 1 \in DOMAIN s /\ 1 \in DOMAIN s /\ k + 1 # 1
    BY <1>2
  <1>5. \A k \in 1..Len(Tail(s)) : Tail(s)[k] \in S \ {Head(s)}
    BY <1>1, <1>2, <1>4, ElementOfSeq
  <1>6. Tail(s) \in Seq(S \ {Head(s)})
    <2>1. Tail(s) \in [1..Len(Tail(s)) -> S] /\ Len(Tail(s)) \in Nat
      BY <1>2, LenProperties
    <2>2. Tail(s) \in [1..Len(Tail(s)) -> S \ {Head(s)}]
      BY <2>1, <1>5
    <2> QED
      BY <2>1, <2>2, SeqDef
  <1>7. \A j, k \in DOMAIN Tail(s) : Tail(s)[j] = Tail(s)[k] => j = k
    BY <1>1, <1>2, <1>3, <1>4
  <1> QED
    BY <1>2, <1>6, <1>7 DEF Fresh

LEMMA AddLast ==
    ASSUME NEW S, NEW s, Fresh(s, S), NEW r, r \notin S
    PROVE  Fresh(Append(s, r), S \cup {r})
  <1>1. s \in Seq(S) /\ \A j, k \in DOMAIN s : s[j] = s[k] => j = k
    BY DEF Fresh
  <1>2. s \in Seq(S \cup {r})
    BY <1>1
  <1>3. /\ Append(s, r) \in Seq(S \cup {r})
        /\ Len(Append(s, r)) = Len(s) + 1
        /\ \A k \in 1..Len(s) : Append(s, r)[k] = s[k]
        /\ Append(s, r)[Len(s) + 1] = r
    BY <1>2, AppendProperties
  <1>4. /\ DOMAIN s = 1..Len(s) /\ Len(s) \in Nat
        /\ DOMAIN Append(s, r) = 1..(Len(s) + 1)
    BY <1>1, <1>3, LenProperties
  <1>5. \A k \in 1..Len(s) : s[k] # r
    BY <1>1, ElementOfSeq
  <1>6. \A j, k \in DOMAIN Append(s, r) : Append(s, r)[j] = Append(s, r)[k] => j = k
    BY <1>1, <1>3, <1>4, <1>5
  <1> QED
    BY <1>3, <1>6 DEF Fresh

-----------------------------------------------------------------------------
(* The client.                                                             *)

LEMMA NoneIsNoRun == None \notin Runs
BY ClientAssumption DEF ClientAssumption, None

\* _runNext(), for any value of _current and _testruns that agrees with the
\* runs that have ended by then.
LEMMA RunNextBook ==
    ASSUME TInv,
           NEW now \in Runs \cup {None}, NEW waiting,
           requested \subseteq handed', handed' \subseteq Runs,
           Fresh(waiting, handed' \ requested),
           interrupted => closed,
           closed => ~clientRunning,
           interrupted' = interrupted,
           ~interrupted =>
               /\ \A r \in Runs : now = r <=> r \in requested /\ ended'[r] = 0
               /\ closed => now = None
               /\ lost' = {},
           \A r \in Runs : r \notin requested => ended'[r] = 0,
           RunNext(now, waiting)
    PROVE  ClientBook' /\ requested \subseteq requested'
  <1>1. CASE /\ clientRunning
             /\ now = None
             /\ waiting # <<>>
             /\ current' = Head(waiting)
             /\ testruns' = Tail(waiting)
             /\ requested' = requested \cup {Head(waiting)}
             /\ UNCHANGED <<clientRunning, closed>>
    <2>1. /\ Head(waiting) \in handed' \ requested
          /\ Fresh(Tail(waiting), (handed' \ requested) \ {Head(waiting)})
      BY <1>1, TakeFirst
    <2>2. handed' \ requested' = (handed' \ requested) \ {Head(waiting)}
      BY <1>1
    <2>3. Fresh(testruns', handed' \ requested')
      BY <1>1, <2>1, <2>2
    <2>4. ~closed' /\ ~interrupted' /\ clientRunning'
      BY <1>1
    <2>5. \A r \in Runs : r \in requested => ended'[r] # 0
      BY <1>1, NoneIsNoRun
    <2>6. \A r \in Runs : current' = r <=> r \in requested' /\ ended'[r] = 0
      BY <1>1, <2>1, <2>5
    <2> QED
      BY <1>1, <2>1, <2>3, <2>4, <2>6 DEF ClientBook
  <1>2. CASE /\ clientRunning
             /\ now = None
             /\ waiting = <<>>
             /\ current' = None
             /\ testruns' = waiting
             /\ IF SingleRun
                   THEN QuitIdle
                   ELSE UNCHANGED <<clientRunning, closed, requested>>
    <2>1. requested' = requested /\ (closed' => ~clientRunning') /\ ~interrupted'
      BY <1>2 DEF QuitIdle
    <2> QED
      BY <1>2, <2>1 DEF ClientBook
  <1>3. CASE /\ current' = now
             /\ testruns' = waiting
             /\ UNCHANGED <<clientRunning, closed, requested>>
    BY <1>3 DEF ClientBook
  <1> QED
    BY <1>1, <1>2, <1>3 DEF RunNext

\* What the user of the client and its storage do.
LEMMA ClientKeepsBook ==
    ASSUME TInv, Chain, ClientBook, RunBook, ClientNext, UNCHANGED <<events, runVars>>
    PROVE  ClientBook' /\ requested \subseteq requested' /\ log' = log
  <1>0. /\ ended' = ended
        /\ \A r \in Runs : r \notin requested => ended[r] = 0
    BY DEF runVars, RunBook, Chain, Token
  <1>1. CASE \E r \in Runs : AddTestRun(r)
    <2> PICK r \in Runs : AddTestRun(r)
      BY <1>1
    <2>1. /\ r \notin handed
          /\ handed' = handed \cup {r}
          /\ RunNext(current, Append(testruns, r))
          /\ UNCHANGED <<log, lost, interrupted>>
      BY DEF AddTestRun
    <2>2. r \notin handed \ requested /\ Fresh(testruns, handed \ requested)
      BY <2>1 DEF ClientBook
    <2>3. Fresh(Append(testruns, r), (handed \ requested) \cup {r})
      BY <2>2, AddLast
    <2>4. handed' \ requested = (handed \ requested) \cup {r}
      BY <2>1 DEF ClientBook
    <2>5. Fresh(Append(testruns, r), handed' \ requested)
      BY <2>3, <2>4
    <2>6. /\ current \in Runs \cup {None}
          /\ handed' \subseteq Runs
          /\ requested \subseteq handed'
      BY <2>1 DEF TInv, TypeOK, ClientBook
    <2>7. /\ interrupted => closed
          /\ closed => ~clientRunning
          /\ ~interrupted =>
               /\ \A q \in Runs : current = q <=> q \in requested /\ ended'[q] = 0
               /\ closed => current = None
               /\ lost' = {}
      BY <1>0, <2>1 DEF ClientBook
    <2> HIDE DEF ClientBook, RunNext
    <2> QED
      BY <1>0, <2>1, <2>5, <2>6, <2>7, RunNextBook
  <1>2. CASE RunNextIdle
    <2>1. /\ RunNext(current, testruns)
          /\ UNCHANGED <<log, lost, handed, interrupted>>
      BY <1>2 DEF RunNextIdle
    <2>2. /\ current \in Runs \cup {None}
          /\ handed' \subseteq Runs
          /\ requested \subseteq handed'
          /\ Fresh(testruns, handed' \ requested)
      BY <2>1 DEF TInv, TypeOK, ClientBook
    <2>3. /\ interrupted => closed
          /\ closed => ~clientRunning
          /\ ~interrupted =>
               /\ \A q \in Runs : current = q <=> q \in requested /\ ended'[q] = 0
               /\ closed => current = None
               /\ lost' = {}
      BY <1>0, <2>1 DEF ClientBook
    <2> QED
      BY <1>0, <2>1, <2>2, <2>3, RunNextBook
  <1>3. CASE RunClient
    BY <1>0, <1>3 DEF RunClient, ClientBook
  <1>4. CASE Quit
    BY <1>0, <1>4 DEF Quit, ClientBook
  <1>5. CASE StorageClosed
    BY <1>0, <1>5 DEF StorageClosed, clientVars, storeVars, ClientBook
  <1> QED
    BY <1>1, <1>2, <1>3, <1>4, <1>5 DEF ClientNext

-----------------------------------------------------------------------------
(* The log.                                                                *)

\* The only run that acts is one that was begun and has not ended.
LEMMA ActiveRun ==
    ASSUME TInv, Single, Chain, RunBook, NEW r \in Runs,
           RunStep(r) \/ \E b \in Batches : TestStep(r, b)
    PROVE  r \in requested /\ ended[r] = 0
  <1>0. Token(r) /\ collected \subseteq requested
    BY DEF Chain, RunBook
  <1>1. CASE GotEnvironment(r)
    BY <1>0, <1>1 DEF GotEnvironment, Token
  <1>2. CASE NextBatchIdle(r)
    BY <1>0, <1>2 DEF NextBatchIdle, Token
  <1>3. ASSUME NEW b \in Batches, b \in launched[r], dones[r][b] = 0
        PROVE  r \in requested /\ ended[r] = 0
    <2>1. b \in instances[r]
      BY <1>3 DEF Chain, RunningUntilDone
    <2> QED
      BY <1>0, <2>1 DEF Token
  <1>4. ASSUME NEW b \in Batches, SingleTestStart(r, b)
        PROVE  r \in requested /\ ended[r] = 0
    BY <1>3, <1>4 DEF SingleTestStart
  <1>5. ASSUME NEW b \in Batches, SingleTestStop(r, b)
        PROVE  r \in requested /\ ended[r] = 0
    <2>1. started[r][b] \in Nat /\ stopped[r][b] \in Nat /\ stopped[r][b] < started[r][b]
      BY <1>5, TestRunAssumption DEF SingleTestStop, TInv, TypeOK, TestRunAssumption
    <2>2. b \in launched[r]
      BY <2>1 DEF RunBook
    <2> QED
      BY <1>3, <1>5, <2>2 DEF SingleTestStop
  <1>6. ASSUME NEW b \in Batches, SingleTestDone(r, b)
        PROVE  r \in requested /\ ended[r] = 0
    BY <1>3, <1>6 DEF SingleTestDone, MayBeDone, Single
  <1> QED
    BY <1>1, <1>2, <1>4, <1>5, <1>6 DEF RunStep, TestStep

\* What a run may write in one callback.
WritesOf(r, writes) ==
    /\ writes \in Seq(Writes)
    /\ \A k \in DOMAIN writes :
          /\ writes[k].run = r
          /\ writes[k].what = "end" => k = Len(writes) /\ ended'[r] # 0
          /\ writes[k].what = "begin" => k = 1 /\ r \notin collected

LEMMA LogGrows ==
    ASSUME TInv, Ordered, NEW r \in Runs, NEW writes, WritesOf(r, writes),
           ended[r] = 0,
           \A s \in collected : s # r => ended[s] # 0,
           \A s \in collected : ended[s] # 0 => ended'[s] # 0,
           collected' = collected \cup {r},
           log' = log \o writes
    PROVE  Ordered'
  <1> DEFINE n == Len(log)
  <1> DEFINE m == Len(writes)
  <1>1. /\ log \in Seq(Writes) /\ writes \in Seq(Writes)
        /\ n \in Nat /\ m \in Nat
        /\ DOMAIN log = 1..n /\ DOMAIN writes = 1..m
    BY LenProperties DEF TInv, TypeOK, WritesOf
  <1>2. /\ DOMAIN log' = 1..(n + m)
        /\ \A i \in 1..n : log'[i] = log[i]
        /\ \A i \in (n + 1)..(n + m) : i - n \in 1..m /\ log'[i] = writes[i - n]
    <2>1. /\ Len(log \o writes) = n + m
          /\ log \o writes \in Seq(Writes)
          /\ \A i \in 1..(n + m) : (log \o writes)[i] =
                IF i <= n THEN log[i] ELSE writes[i - n]
      BY <1>1, ConcatProperties
    <2>2. DOMAIN (log \o writes) = 1..(n + m)
      BY <2>1, LenProperties
    <2> QED
      BY <1>1, <2>1, <2>2
  <1> HIDE DEF n, m
  \* what was there, and what is new
  <1>3. \A i \in DOMAIN log' :
           \/ i \in 1..n /\ log'[i] = log[i] /\ log[i].run \in collected
           \/ i \in (n + 1)..(n + m) /\ log'[i].run = r
    BY <1>1, <1>2 DEF Ordered, WritesOf
  <1>4. \A i \in 1..n : log[i].run = r => log[i].what # "end"
    BY <1>1 DEF Ordered
  <1>5. \A i \in 1..n : log[i].run # r => ended'[log[i].run] # 0
    BY <1>1 DEF Ordered
  <1>6. ASSUME NEW i \in DOMAIN log'
        PROVE  /\ log'[i].run \in collected'
               /\ log'[i].what = "end" => ended'[log'[i].run] # 0
    <2>1. CASE i \in 1..n
      BY <1>1, <1>2, <2>1 DEF Ordered
    <2>2. CASE i \in (n + 1)..(n + m)
      BY <1>1, <1>2, <2>2 DEF WritesOf
    <2> QED
      BY <1>3, <2>1, <2>2
  <1>7. ASSUME NEW i \in DOMAIN log', NEW j \in DOMAIN log', i < j
        PROVE  /\ log'[i].run = log'[j].run =>
                     log'[i].what # "end" /\ log'[j].what # "begin"
               /\ log'[i].run # log'[j].run => ended'[log'[i].run] # 0
    <2>1. CASE i \in 1..n /\ j \in 1..n
      <3>1. log'[i] = log[i] /\ log'[j] = log[j] /\ log[i].run \in collected
        BY <1>1, <1>2, <2>1 DEF Ordered
      <3> QED
        BY <1>1, <1>7, <2>1, <3>1 DEF Ordered
    <2>2. CASE i \in 1..n /\ j \in (n + 1)..(n + m)
      <3>1. log'[i] = log[i] /\ log'[j].run = r
        BY <1>1, <1>2, <2>2 DEF WritesOf
      <3>2. log[i].run = r => log[i].what # "end" /\ r \in collected
        BY <1>1, <1>4, <2>2 DEF Ordered
      <3>3. log'[j].what = "begin" => r \notin collected
        BY <1>1, <1>2, <2>2 DEF WritesOf
      <3> QED
        BY <1>5, <2>2, <3>1, <3>2, <3>3
    <2>3. CASE i \in (n + 1)..(n + m)
      <3>1. j \in (n + 1)..(n + m)
        BY <1>1, <1>2, <1>7, <2>3
      <3>2. /\ log'[i] = writes[i - n] /\ log'[j] = writes[j - n]
            /\ i - n \in 1..m /\ j - n \in 1..m
            /\ i - n # m /\ j - n # 1
        BY <1>1, <1>2, <1>7, <2>3, <3>1
      <3> QED
        BY <1>1, <3>2 DEF WritesOf, m
    <2> QED
      <3>1. /\ i \in 1..n \/ i \in (n + 1)..(n + m)
            /\ j \in 1..n \/ j \in (n + 1)..(n + m)
        BY <1>3
      <3> QED
        BY <3>1, <2>1, <2>2, <2>3
  <1>8. \A i, j, k \in DOMAIN log' :
           i < j /\ j < k /\ log'[i].run = log'[k].run => log'[j].run = log'[i].run
    <2> SUFFICES ASSUME NEW i \in DOMAIN log', NEW j \in DOMAIN log', NEW k \in DOMAIN log',
                        i < j, j < k, log'[i].run = log'[k].run
                 PROVE  log'[j].run = log'[i].run
      OBVIOUS
    <2>1. CASE k \in 1..n
      <3>1. i \in 1..n /\ j \in 1..n
        BY <1>1, <1>2, <2>1
      <3> QED
        BY <1>1, <1>2, <2>1, <3>1 DEF Ordered
    <2>2. CASE k \in (n + 1)..(n + m)
      <3>1. log'[i].run = r
        BY <1>3, <1>1, <2>2
      <3>2. CASE j \in 1..n
        <4>1. i \in 1..n
          BY <1>1, <1>2, <3>2
        <4>2. log[i].run # log[j].run => ended[log[i].run] # 0
          BY <1>1, <3>2, <4>1 DEF Ordered
        <4> QED
          BY <1>2, <3>1, <3>2, <4>1, <4>2
      <3>3. CASE j \in (n + 1)..(n + m)
        BY <1>1, <1>2, <3>1, <3>3 DEF WritesOf
      <3> QED
        BY <1>3, <3>2, <3>3
    <2> QED
      BY <1>3, <2>1, <2>2
  <1>9. \A i \in DOMAIN log' :
           /\ log'[i].run \in collected'
           /\ log'[i].what = "end" => ended'[log'[i].run] # 0
    BY <1>6
  <1>10. \A i, j \in DOMAIN log' : i < j =>
            /\ log'[i].run = log'[j].run => log'[i].what # "end" /\ log'[j].what # "begin"
            /\ log'[i].run # log'[j].run => ended'[log'[i].run] # 0
    BY <1>7
  <1> QED
    BY <1>9, <1>10, <1>8 DEF Ordered

\* What an active run submits, and what that does to the log.
LEMMA SubmitKeepsOrder ==
    ASSUME TInv, Books, NEW r \in Runs, r \in requested, ended[r] = 0,
           NEW writes, WritesOf(r, writes), Submit(writes),
           \A s \in Runs : ended[s] # 0 => ended'[s] # 0,
           collected' = collected \cup {r}
    PROVE  Ordered' /\ (~interrupted => lost' = {})
  <1>0. /\ collected \subseteq requested /\ requested \subseteq Runs
    BY DEF Books, RunBook, TInv, TypeOK
  <1>1. ~interrupted => ~closed
    BY NoneIsNoRun DEF Books, ClientBook
  <1>2. CASE closed
    <2>1. log' = log /\ interrupted
      BY <1>1, <1>2 DEF Submit
    <2>2. \A i \in DOMAIN log : log[i].run \in Runs
      BY <1>0 DEF Books, Ordered
    <2> QED
      BY <2>1, <2>2 DEF Books, Ordered
  <1>3. CASE ~closed
    <2>1. log' = log \o writes /\ lost' = lost /\ ~interrupted
      BY <1>3 DEF Submit, Books, ClientBook
    <2>2. \A s \in collected : s # r => ended[s] # 0
      BY <1>0, <2>1 DEF Books, ClientBook
    <2>3. \A s \in collected : ended[s] # 0 => ended'[s] # 0
      BY <1>0
    <2>4. Ordered'
      BY <2>1, <2>2, <2>3, LogGrows DEF Books
    <2> QED
      BY <2>1, <2>4 DEF Books, ClientBook
  <1> QED
    BY <1>2, <1>3

-----------------------------------------------------------------------------
(* The runs.                                                               *)

\* The callback of an active run that ends in _runNextBatch().
LEMMA NextBatchKeepsBooks ==
    ASSUME TInv, Chain, Books, NEW r \in Runs, r \in requested, ended[r] = 0,
           NEW writes \in Seq(Writes), Len(writes) <= 1,
           \A k \in DOMAIN writes :
               /\ writes[k].run = r
               /\ writes[k].what # "end"
               /\ writes[k].what = "begin" => r \notin collected,
           NEW running, NEW n, RunNextBatch(r, writes, running, n),
           collected' = collected \cup {r},
           UNCHANGED <<handed, interrupted, started>>
    PROVE  Books'
  <1>0. /\ ended \in [Runs -> Nat]
        /\ popped \in [Runs -> 0..NBatches]
        /\ launched \in [Runs -> SUBSET Batches]
        /\ current \in Runs \cup {None}
        /\ handed' \subseteq Runs
        /\ requested \subseteq handed'
        /\ \A s \in Runs : s \notin requested => ended[s] = 0
    BY DEF TInv, TypeOK, Books, ClientBook, RunBook, Chain, Token
  <1>1. Len(writes) \in 0..1 /\ DOMAIN writes = 1..Len(writes)
    <2>1. Len(writes) \in Nat /\ DOMAIN writes = 1..Len(writes)
      BY LenProperties
    <2> QED
      BY <2>1
  <1>2. CASE /\ popped[r] = NBatches
             /\ Submit(Append(writes, End(r)))
             /\ ended' = [ended EXCEPT ![r] = @ + 1]
             /\ CurrentDone(r)
             /\ UNCHANGED <<popped, launched, dropped>>
    <2>1. /\ ended'[r] = 1
          /\ \A s \in Runs \ {r} : ended'[s] = ended[s]
      BY <1>0, <1>2
    <2>2. WritesOf(r, Append(writes, End(r)))
      <3>1. End(r) \in Writes /\ End(r).run = r /\ End(r).what = "end"
        BY WritesAre DEF End
      <3>2. /\ Append(writes, End(r)) \in Seq(Writes)
            /\ Len(Append(writes, End(r))) = Len(writes) + 1
            /\ \A k \in 1..Len(writes) : Append(writes, End(r))[k] = writes[k]
            /\ Append(writes, End(r))[Len(writes) + 1] = End(r)
        BY <3>1, AppendProperties
      <3>3. DOMAIN Append(writes, End(r)) = 1..(Len(writes) + 1)
        BY <3>2, LenProperties
      <3>4. ASSUME NEW k \in DOMAIN Append(writes, End(r))
            PROVE  \/ k \in DOMAIN writes /\ k = 1 /\ Append(writes, End(r))[k] = writes[k]
                   \/ k = Len(writes) + 1 /\ Append(writes, End(r))[k] = End(r)
        BY <1>1, <3>2, <3>3
      <3> QED
        BY <2>1, <3>1, <3>2, <3>4 DEF WritesOf
    <2>3. Ordered' /\ (~interrupted => lost' = {})
      BY <1>2, <2>1, <2>2, SubmitKeepsOrder
    <2> DEFINE now == IF current = r THEN None ELSE current
    <2>4. /\ now \in Runs \cup {None}
          /\ ~interrupted =>
               /\ \A s \in Runs : now = s <=> s \in requested /\ ended'[s] = 0
               /\ closed => now = None
               /\ lost' = {}
          /\ \A s \in Runs : s \notin requested => ended'[s] = 0
      BY <1>0, <2>1, <2>3, NoneIsNoRun DEF Books, ClientBook
    <2>5. RunNext(now, testruns)
      BY <1>2 DEF CurrentDone
    <2>6. /\ Fresh(testruns, handed' \ requested)
          /\ interrupted => closed
          /\ closed => ~clientRunning
      BY DEF Books, ClientBook
    <2>7. ClientBook' /\ requested \subseteq requested'
      <3> HIDE DEF now
      <3> QED
        BY <1>0, <2>4, <2>5, <2>6, RunNextBook
    <2>8. RunBook'
      BY <1>2, <2>1, <2>7 DEF Books, RunBook
    <2> QED
      BY <2>3, <2>7, <2>8 DEF Books
  <1>3. CASE /\ popped[r] < NBatches
             /\ Submit(writes)
             /\ popped' = [popped EXCEPT ![r] = @ + 1]
             /\ RunTest(r, popped[r] + 1, running, n)
             /\ UNCHANGED <<clientRunning, current, testruns, closed, requested, ended>>
    <2>1. WritesOf(r, writes)
      BY <1>1 DEF WritesOf
    <2>2. Ordered' /\ (~interrupted => lost' = {})
      BY <1>3, <2>1, SubmitKeepsOrder
    <2>3. ClientBook'
      BY <1>3, <2>2 DEF Books, ClientBook
    <2>4. \A s \in Runs : launched[s] \subseteq launched'[s]
      <3>1. \/ launched' = launched
            \/ launched' = [launched EXCEPT ![r] = @ \cup {popped[r] + 1}]
        BY <1>3 DEF RunTest
      <3> QED
        BY <1>0, <3>1
    <2>5. \A s \in Runs : ended'[s] # 0 => popped'[s] = NBatches
      BY <1>0, <1>3 DEF Books, RunBook
    <2>6. RunBook'
      BY <1>3, <2>4, <2>5 DEF Books, RunBook
    <2> QED
      BY <2>2, <2>3, <2>6 DEF Books
  <1> QED
    BY <1>2, <1>3 DEF RunNextBatch

\* The callback of an active run that reports an iteration.
LEMMA ReportKeepsBooks ==
    ASSUME TInv, Chain, Books, NEW r \in Runs, r \in requested, ended[r] = 0,
           r \in collected, NEW b \in Batches, NEW i \in 1..NIters,
           Submit(<<Started(r, b, i)>>) \/ Submit(<<Stopped(r, b, i)>>),
           b \in launched[r],
           \A s \in Runs, c \in Batches :
               <<s, c>> # <<r, b>> => started'[s][c] = started[s][c],
           UNCHANGED <<clientVars, handed, collected, popped, ended, launched>>
    PROVE  Books'
  <1>1. /\ WritesOf(r, <<Started(r, b, i)>>)
        /\ WritesOf(r, <<Stopped(r, b, i)>>)
    BY WritesAre DEF WritesOf, Started, Stopped
  <1>2. collected' = collected \cup {r}
    OBVIOUS
  <1>3. Ordered' /\ (~interrupted => lost' = {})
    BY <1>1, <1>2, SubmitKeepsOrder
  <1>4. ClientBook'
    BY <1>3 DEF Books, ClientBook, clientVars
  <1>5. RunBook'
    BY DEF Books, RunBook, clientVars
  <1> QED
    BY <1>3, <1>4, <1>5 DEF Books

LEMMA RunKeepsBooks ==
    ASSUME TInv, Single, Chain, Books, NEW r \in Runs, RunStep(r)
    PROVE  Books'
  <1>0. r \in requested /\ ended[r] = 0
    BY ActiveRun DEF Books
  <1>1. CASE GotEnvironment(r)
    <2>1. /\ <<Begin(r)>> \in Seq(Writes)
          /\ Len(<<Begin(r)>>) <= 1
          /\ \A k \in DOMAIN <<Begin(r)>> :
               /\ <<Begin(r)>>[k].run = r
               /\ <<Begin(r)>>[k].what # "end"
               /\ <<Begin(r)>>[k].what = "begin" => r \notin collected
      BY <1>1, WritesAre DEF GotEnvironment, Begin
    <2>2. /\ RunNextBatch(r, <<Begin(r)>>, instances[r], idles[r])
          /\ collected' = collected \cup {r}
          /\ UNCHANGED <<handed, interrupted, started>>
      BY <1>1 DEF GotEnvironment, testVars
    <2> HIDE DEF Books
    <2> QED
      BY <1>0, <2>1, <2>2, NextBatchKeepsBooks
  <1>2. CASE NextBatchIdle(r)
    <2>1. r \in collected
      BY <1>2 DEF NextBatchIdle, Chain, Token
    <2>2. <<>> \in Seq(Writes) /\ Len(<<>>) <= 1 /\ DOMAIN <<>> = {}
      OBVIOUS
    <2>3. /\ RunNextBatch(r, <<>>, instances[r], idles[r] - 1)
          /\ collected' = collected \cup {r}
          /\ UNCHANGED <<handed, interrupted, started>>
      BY <1>2, <2>1 DEF NextBatchIdle, testVars
    <2> QED
      BY <1>0, <2>2, <2>3, NextBatchKeepsBooks
  <1> QED
    BY <1>1, <1>2 DEF RunStep

LEMMA TestKeepsBooks ==
    ASSUME TInv, Single, Chain, Books, NEW r \in Runs, NEW b \in Batches, TestStep(r, b)
    PROVE  Books'
  <1>0. r \in requested /\ ended[r] = 0
    BY ActiveRun DEF Books
  <1>1. /\ started[r][b] \in 0..NIters
        /\ stopped[r][b] \in 0..NIters
        /\ NIters \in Nat
        /\ started \in [Runs -> [Batches -> 0..NIters]]
    BY TestRunAssumption DEF TInv, TypeOK, TestRunAssumption
  <1>2. ASSUME b \in launched[r], dones[r][b] = 0 PROVE r \in collected
    <2>1. b \in instances[r]
      BY <1>2 DEF Chain, RunningUntilDone
    <2> QED
      BY <2>1 DEF Chain, Token
  <1>3. CASE SingleTestStart(r, b)
    <2>1. r \in collected /\ b \in launched[r] /\ started[r][b] + 1 \in 1..NIters
      BY <1>1, <1>2, <1>3 DEF SingleTestStart
    <2>2. \A s \in Runs, c \in Batches :
             <<s, c>> # <<r, b>> => started'[s][c] = started[s][c]
      BY <1>1, <1>3 DEF SingleTestStart
    <2>3. /\ Submit(<<Started(r, b, started[r][b] + 1)>>)
          /\ UNCHANGED <<clientVars, handed, collected, popped, ended, launched>>
      BY <1>3 DEF SingleTestStart
    <2> QED
      BY <1>0, <2>1, <2>2, <2>3, ReportKeepsBooks
  <1>4. CASE SingleTestStop(r, b)
    <2>1. started[r][b] \in 1..NIters /\ dones[r][b] = 0
      BY <1>1, <1>4 DEF SingleTestStop
    <2>2. b \in launched[r]
      BY <2>1 DEF Books, RunBook
    <2>3. r \in collected
      BY <1>2, <2>1, <2>2
    <2>4. /\ Submit(<<Stopped(r, b, started[r][b])>>)
          /\ UNCHANGED <<clientVars, handed, collected, popped, ended, launched, started>>
      BY <1>4 DEF SingleTestStop
    <2> QED
      BY <1>0, <2>1, <2>2, <2>3, <2>4, ReportKeepsBooks
  <1>5. CASE SingleTestDone(r, b)
    <2>1. b \in launched[r] /\ dones[r][b] = 0
      BY <1>5 DEF SingleTestDone, MayBeDone, Single
    <2>2. r \in collected
      BY <1>2, <2>1
    <2>3. /\ <<Finished(r, b)>> \in Seq(Writes)
          /\ Len(<<Finished(r, b)>>) <= 1
          /\ \A k \in DOMAIN <<Finished(r, b)>> :
               /\ <<Finished(r, b)>>[k].run = r
               /\ <<Finished(r, b)>>[k].what # "end"
               /\ <<Finished(r, b)>>[k].what = "begin" => r \notin collected
      BY WritesAre DEF Finished
    <2>4. /\ RunNextBatch(r, <<Finished(r, b)>>, instances[r] \ {b}, idles[r])
          /\ collected' = collected \cup {r}
          /\ UNCHANGED <<handed, interrupted, started>>
      BY <1>5, <2>2 DEF SingleTestDone
    <2> QED
      BY <1>0, <2>3, <2>4, NextBatchKeepsBooks
  <1> QED
    BY <1>3, <1>4, <1>5 DEF TestStep

-----------------------------------------------------------------------------

LEMMA InitOInv == Init => OInv
  <1> SUFFICES ASSUME Init PROVE OInv
    OBVIOUS
  <1>1. CInv
    BY InitChain
  <1>2. Fresh(<<>>, handed \ requested) /\ DOMAIN <<>> = {}
    BY DEF Fresh
  <1>3. ClientBook
    BY <1>2, NoneIsNoRun DEF Init, ClientInit, ClientBook
  <1>4. RunBook /\ Ordered
    BY <1>2 DEF Init, ClientInit, RunBook, Ordered
  <1> QED
    BY <1>1, <1>3, <1>4 DEF OInv, Books

LEMMA NextOInv == OInv /\ [Next]_vars => OInv'
  <1> SUFFICES ASSUME OInv, [Next]_vars PROVE OInv'
    OBVIOUS
  <1>1. CInv' /\ CInv
    BY NextChain DEF OInv
  <1>2. ASSUME Single' PROVE Books'
    <2>1. UNCHANGED events
      BY DEF Next, Client, Run, vars
    <2>2. Single /\ TInv /\ Chain /\ Books
      BY <1>2, <2>1 DEF Single, OInv, CInv
    <2>3. CASE Client(ClientNext)
      <3>1. ClientNext /\ UNCHANGED <<events, runVars>>
        BY <2>3 DEF Client
      <3>2. ClientBook' /\ requested \subseteq requested' /\ log' = log
        BY <2>2, <3>1, ClientKeepsBook DEF Books
      <3>3. UNCHANGED <<collected, popped, ended, launched, started>>
        BY <3>1 DEF runVars, testVars
      <3>4. RunBook' /\ Ordered'
        BY <2>2, <3>2, <3>3 DEF Books, RunBook, Ordered
      <3> QED
        BY <3>2, <3>4 DEF Books
    <2>4. ASSUME NEW r \in Runs, Run(RunStep(r)) PROVE Books'
      BY <2>2, <2>4, RunKeepsBooks DEF Run
    <2>5. ASSUME NEW r \in Runs, NEW b \in Batches, Run(TestStep(r, b)) PROVE Books'
      BY <2>2, <2>5, TestKeepsBooks DEF Run
    <2>6. CASE UNCHANGED vars
      <3>1. ClientBook'
        BY <2>2, <2>6 DEF Books, ClientBook, vars, clientVars, storeVars, runVars
      <3>2. RunBook' /\ Ordered'
        BY <2>2, <2>6 DEF Books, RunBook, Ordered, vars, clientVars, storeVars, runVars,
                          testVars
      <3> QED
        BY <3>1, <3>2 DEF Books
    <2> QED
      BY <2>3, <2>4, <2>5, <2>6 DEF Next
  <1> QED
    BY <1>1, <1>2 DEF OInv

LEMMA OInvInvariant == Spec => []OInv
BY InitOInv, NextOInv, PTL DEF Spec

\* With one test at a time nothing of a run is stored after its end nor before
\* its begin (storage.py, endTestRun).
THEOREM ClosedAndDoneTheorem == Spec => [](MaxTests = 1 => ClosedAndDone)
  <1>1. OInv => (MaxTests = 1 => ClosedAndDone)
    BY DEF OInv, Books, Ordered, Single, ClosedAndDone
  <1> QED
    BY <1>1, OInvInvariant, PTL

\* With one test at a time the runs of a client are stored one after the other
\* (client.py 173-211).
THEOREM RunsDoNotOverlapTheorem == Spec => [](MaxTests = 1 => RunsDoNotOverlap)
  <1>1. OInv => (MaxTests = 1 => RunsDoNotOverlap)
    BY DEF OInv, Books, Ordered, Single, RunsDoNotOverlap
  <1> QED
    BY <1>1, OInvInvariant, PTL

\* With one test at a time a client that quits because nothing is left has had
\* every run stored to its end (client.py 173-186, testrun.py 204-222).
THEOREM QuitsWhenCompleteTheorem == Spec => [](MaxTests = 1 => QuitsWhenComplete)
  <1>1. OInv => (MaxTests = 1 => QuitsWhenComplete)
    <2> SUFFICES ASSUME OInv, Single, closed, ~interrupted
                 PROVE  /\ lost = {}
                        /\ \A r \in requested :
                              ended[r] = 1 /\ popped[r] = NBatches /\ instances[r] = {}
      BY DEF QuitsWhenComplete, Single
    <2>1. /\ Chain /\ Books /\ requested \subseteq Runs
          /\ ended \in [Runs -> Nat]
      BY DEF OInv, CInv, TInv, TypeOK
    <2>2. lost = {} /\ current = None
      BY <2>1 DEF Books, ClientBook
    <2>3. ASSUME NEW r \in requested
          PROVE  ended[r] = 1 /\ popped[r] = NBatches /\ instances[r] = {}
      <3>1. r \in Runs /\ ended[r] # 0
        BY <2>1, <2>2, NoneIsNoRun DEF Books, ClientBook
      <3>2. Token(r)
        BY <2>1, <3>1 DEF Chain
      <3> QED
        BY <2>1, <3>1, <3>2 DEF Token, Books, RunBook
    <2> QED
      BY <2>2, <2>3
  <1> QED
    BY <1>1, OInvInvariant, PTL
=============================================================================
