-------------------------- MODULE WebRunnerProofs --------------------------
(***************************************************************************)
(* The web service for any number of runs and argument sets: its storage   *)
(* stays open, and the page shows the run that is going on.                *)
(*                                                                         *)
(* The argument for the first: the client is running only while it has a   *)
(* run or one that waits, so that no _runNext() finds it out of work.  For *)
(* the second: users who go by the page have one run at a time that has    *)
(* not ended, so that it is also the one that was started last.            *)
(***************************************************************************)
EXTENDS WebRunner, SequenceTheorems, TLAPS

\* The client is never out of runs while it is running.
NeverIdle == clientRunning => current # None \/ testruns # <<>>

\* The run that was remembered last is the one that goes on, and only a test
\* that has taken its first arguments reports.
RemembersWhatRuns ==
    /\ \A r \in began : taken[r] > 0
    /\ ~impatient => \A r \in collected \ ended : clientRun = r

WInv ==
    /\ TypeOK
    /\ NeverIdle
    /\ KeepsServing
    /\ RemembersWhatRuns
    /\ ShowsWhatRuns

-----------------------------------------------------------------------------
(* The progress.                                                           *)

\* A quotient of what is at most a hundred times the divisor.
LEMMA QuotientAtMost ==
    ASSUME NEW n \in Nat \ {0}, NEW a \in 0..(100 * n)
    PROVE  a \div n \in 0..100
  <1>1. a \div n \in Nat /\ n * (a \div n) <= a
    OBVIOUS
  <1>2. (a \div n) <= 100
    BY <1>1, SMT
  <1> QED
    BY <1>1, <1>2

LEMMA OverallType ==
    ASSUME NEW position \in 0..NSets, NEW pct \in Percentages
    PROVE  /\ Overall(position, pct) \in Int
           /\ Overall(position, pct) # Nothing
           /\ position > 0 => Overall(position, pct) \in 0..100
  <1> DEFINE a == 100 * (position - 1) + pct
  <1>1. NSets \in Nat \ {0} /\ pct \in 0..100
    BY WebAssumption DEF WebAssumption
  <1>2. a \in Int /\ (position > 0 => a \in 0..(100 * NSets)) /\ (a < 0 => -a \in 0..100)
    BY <1>1
  <1>3. Overall(position, pct) = Quotient(a, NSets)
    BY DEF Overall
  <1> HIDE DEF a
  <1>4. Quotient(a, NSets) \in Int
    BY <1>1, <1>2 DEF Quotient
  <1>5. ASSUME position > 0 PROVE Quotient(a, NSets) \in 0..100
    <2>1. a \in 0..(100 * NSets)
      BY <1>2, <1>5
    <2>2. Quotient(a, NSets) = a \div NSets
      BY <2>1, <1>1 DEF Quotient
    <2> QED
      BY <2>1, <2>2, <1>1, QuotientAtMost
  <1>6. ASSUME a >= 0 PROVE Quotient(a, NSets) >= 0
    BY <1>1, <1>2, <1>6 DEF Quotient
  <1>7. ASSUME a < 0 PROVE Quotient(a, NSets) >= -100
    <2>1. -a \in 0..(100 * NSets)
      BY <1>1, <1>2, <1>7
    <2>2. Quotient(a, NSets) = -((-a) \div NSets)
      BY <1>2, <1>7 DEF Quotient
    <2>3. (-a) \div NSets \in 0..100
      BY <2>1, <1>1, QuotientAtMost
    <2> QED
      BY <2>2, <2>3
  <1>8. Quotient(a, NSets) # Nothing
    BY <1>2, <1>4, <1>6, <1>7 DEF Nothing
  <1> QED
    BY <1>3, <1>4, <1>5, <1>8

-----------------------------------------------------------------------------
(* The invariant.                                                          *)

LEMMA RunsAreNot0 == None \notin Runs
BY ClientAssumption DEF ClientAssumption, None

LEMMA InitWInv == Init => WInv
  <1> SUFFICES ASSUME Init PROVE WInv
    OBVIOUS
  <1>1. 0 \in 0..NSets
    BY WebAssumption DEF WebAssumption
  <1>2. TypeOK
    <2>1. /\ handed = {} /\ requested = {} /\ collected = {} /\ began = {} /\ ended = {}
          /\ events \in Environments /\ current = None /\ clientRun = None /\ shown = None
          /\ testruns = <<>> /\ runIdles = 0
      BY DEF Init, ClientInit
    <2>2. /\ clientRunning \in BOOLEAN /\ closed \in BOOLEAN
          /\ interrupted \in BOOLEAN /\ impatient \in BOOLEAN /\ stale \in BOOLEAN
      BY DEF Init, ClientInit
    <2>3. testruns \in Seq(handed) /\ runIdles \in Nat
      BY <2>1
    <2>4. taken \in [Runs -> 0..NSets] /\ progress \in Int
      BY <1>1 DEF Init, Nothing
    <2> QED
      BY <2>1, <2>2, <2>3, <2>4 DEF TypeOK
  <1>3. NeverIdle /\ KeepsServing /\ RemembersWhatRuns /\ ShowsWhatRuns
    BY DEF Init, ClientInit, NeverIdle, KeepsServing, RemembersWhatRuns, ShowsWhatRuns
  <1> QED
    BY <1>2, <1>3 DEF WInv

\* _runNext() with a run that goes on or one that waits does not quit.
LEMMA RunNextServes ==
    ASSUME TypeOK, handed' \subseteq Runs, handed \subseteq handed',
           NEW now \in Runs \cup {None}, NEW waiting \in Seq(handed'),
           clientRunning => now # None \/ waiting # <<>>,
           RunNext(now, waiting)
    PROVE  /\ UNCHANGED <<clientRunning, closed>>
           /\ current' \in Runs \cup {None}
           /\ testruns' \in Seq(handed')
           /\ requested \subseteq requested'
           /\ requested' \subseteq handed'
           /\ clientRunning => current' # None \/ testruns' # <<>>
  <1>0. requested \subseteq handed'
    BY DEF TypeOK
  <1>1. CASE /\ waiting # <<>>
             /\ current' = Head(waiting)
             /\ testruns' = Tail(waiting)
             /\ requested' = requested \cup {Head(waiting)}
             /\ UNCHANGED <<clientRunning, closed>>
    <2>1. Head(waiting) \in handed' /\ Tail(waiting) \in Seq(handed')
      BY <1>1, HeadTailProperties
    <2> QED
      BY <1>0, <1>1, <2>1, RunsAreNot0
  <1>2. CASE /\ current' = now
             /\ testruns' = waiting
             /\ UNCHANGED <<clientRunning, closed, requested>>
             /\ ~clientRunning \/ now # None
    BY <1>0, <1>2
  <1> QED
    BY <1>1, <1>2 DEF RunNext

\* A page starts a test.
LEMMA StartKeepsWInv ==
    ASSUME WInv, NEW r \in Runs, StartTest(r)
    PROVE  WInv'
  <1> USE DEF WInv
  <1>1. /\ r \notin handed
        /\ handed' = handed \cup {r}
        /\ handed' \subseteq Runs
        /\ r \notin ended
    BY DEF StartTest, TypeOK
  <1>2. Append(testruns, r) \in Seq(handed') /\ Append(testruns, r) # <<>>
    <2>1. testruns \in Seq(handed')
      BY <1>1 DEF TypeOK
    <2>2. r \in handed'
      BY <1>1
    <2> QED
      BY <2>1, <2>2, AppendProperties
  <1>3. /\ clientRunning' \in BOOLEAN
        /\ closed' = closed
        /\ current' \in Runs \cup {None}
        /\ testruns' \in Seq(handed')
        /\ requested \subseteq requested'
        /\ requested' \subseteq handed'
        /\ runIdles' \in Nat
        /\ clientRunning' => current' # None \/ testruns' # <<>>
    <2>1. CASE clientRunning
      <3>1. RunNext(current, Append(testruns, r)) /\ UNCHANGED runIdles
        BY <2>1 DEF StartTest
      <3>2. current \in Runs \cup {None} /\ handed \subseteq handed'
        BY <1>1 DEF TypeOK
      <3> QED
        BY <1>1, <1>2, <3>1, <3>2, <2>1, RunNextServes DEF TypeOK
    <2>2. CASE ~clientRunning
      <3>1. /\ clientRunning' = TRUE
            /\ testruns' = Append(testruns, r)
            /\ runIdles' = runIdles + 1
            /\ UNCHANGED <<current, closed, requested>>
        BY <2>2 DEF StartTest
      <3>2. /\ runIdles \in Nat
            /\ current \in Runs \cup {None}
            /\ requested \subseteq handed'
        BY <1>1 DEF TypeOK
      <3> QED
        BY <1>2, <3>1, <3>2
    <2> QED
      BY <2>1, <2>2
  <1>4. TypeOK'
    <2>1. /\ shown' = r /\ progress' = 0 /\ stale' = FALSE
          /\ impatient' = (impatient \/ progress # Nothing)
          /\ UNCHANGED <<interrupted, collected, taken, began, ended, clientRun>>
      BY DEF StartTest, testVars
    <2>2. /\ impatient' \in BOOLEAN /\ stale' \in BOOLEAN /\ interrupted' \in BOOLEAN
          /\ closed' \in BOOLEAN
      BY <1>3, <2>1 DEF TypeOK
    <2> QED
      BY <1>1, <1>3, <2>1, <2>2 DEF TypeOK
  <1>5. NeverIdle' /\ KeepsServing'
    BY <1>3 DEF StartTest, NeverIdle, KeepsServing, storeVars
  <1>6. ASSUME ~impatient' PROVE ~impatient /\ handed \ ended = {}
    <2>1. ~impatient /\ shown = None
      BY <1>6 DEF StartTest, ShowsWhatRuns, TypeOK
    <2> QED
      BY <2>1, RunsAreNot0 DEF ShowsWhatRuns, TypeOK
  <1>7. RemembersWhatRuns'
    BY <1>6 DEF StartTest, RemembersWhatRuns, TypeOK, testVars
  <1>8. ShowsWhatRuns'
    BY <1>1, <1>6, RunsAreNot0 DEF StartTest, ShowsWhatRuns, testVars, Nothing
  <1> QED
    BY <1>4, <1>5, <1>7, <1>8

\* A page stops the run that is shown, or the daemon is interrupted.
LEMMA StopKeepsWInv ==
    ASSUME WInv, StopTest \/ Interrupt
    PROVE  WInv'
  <1> USE DEF WInv
  <1>1. /\ clientRunning' = FALSE
        /\ current' \in Runs \cup {None}
        /\ UNCHANGED <<storeVars, handed, testruns, runIdles, requested, testVars, pageVars>>
        /\ closed' \in BOOLEAN /\ interrupted' \in BOOLEAN
        /\ (closed' = closed /\ interrupted' = interrupted) \/ interrupted'
    BY DEF StopTest, Interrupt, Stop, TypeOK
  <1>2. TypeOK'
    BY <1>1 DEF TypeOK, storeVars, testVars, pageVars
  <1>3. NeverIdle' /\ KeepsServing'
    BY <1>1 DEF NeverIdle, KeepsServing, storeVars
  <1>4. RemembersWhatRuns' /\ ShowsWhatRuns'
    BY <1>1 DEF RemembersWhatRuns, ShowsWhatRuns, testVars, pageVars
  <1> QED
    BY <1>2, <1>3, <1>4

\* The idle callback of the client.
LEMMA NextRunKeepsWInv ==
    ASSUME WInv, NextRunIdle
    PROVE  WInv'
  <1> USE DEF WInv
  <1>1. /\ RunNext(current, testruns)
        /\ runIdles' \in Nat
        /\ UNCHANGED <<log, lost, handed, interrupted, testVars, pageVars>>
    BY DEF NextRunIdle, RunNextIdle, TypeOK
  <1>2. /\ handed' = handed /\ handed \subseteq Runs
        /\ current \in Runs \cup {None}
        /\ testruns \in Seq(handed)
        /\ clientRunning => current # None \/ testruns # <<>>
    BY <1>1 DEF TypeOK, NeverIdle
  <1>3. /\ UNCHANGED <<clientRunning, closed>>
        /\ current' \in Runs \cup {None}
        /\ testruns' \in Seq(handed')
        /\ requested \subseteq requested'
        /\ requested' \subseteq handed'
        /\ clientRunning => current' # None \/ testruns' # <<>>
    BY <1>1, <1>2, RunNextServes
  <1>4. TypeOK'
    BY <1>1, <1>3 DEF TypeOK, testVars, pageVars
  <1>5. NeverIdle' /\ KeepsServing'
    BY <1>1, <1>3 DEF NeverIdle, KeepsServing
  <1>6. RemembersWhatRuns' /\ ShowsWhatRuns'
    BY <1>1 DEF RemembersWhatRuns, ShowsWhatRuns, testVars, pageVars
  <1> QED
    BY <1>4, <1>5, <1>6

\* The callbacks of a run before its end.
LEMMA CallbackKeepsWInv ==
    ASSUME WInv, NEW r \in Runs,
           \/ GotEnvironment(r) \/ TakeArguments(r) \/ TestStarts(r)
           \/ \E pct \in Percentages : Check(r, pct)
    PROVE  WInv'
  <1> USE DEF WInv
  <1>1. CASE GotEnvironment(r)
    <2>1. r \in handed \ ended /\ r \in requested
      BY <1>1 DEF GotEnvironment, TypeOK
    <2>2. TypeOK'
      BY <1>1, <2>1, RunsAreNot0 DEF GotEnvironment, TypeOK, clientVars
    <2>3. NeverIdle' /\ KeepsServing'
      BY <1>1 DEF GotEnvironment, Submit, NeverIdle, KeepsServing, clientVars
    <2>4. RemembersWhatRuns'
      BY <1>1, <2>1 DEF GotEnvironment, RemembersWhatRuns, ShowsWhatRuns, TypeOK
    <2>5. ShowsWhatRuns'
      BY <1>1 DEF GotEnvironment, ShowsWhatRuns
    <2> QED
      BY <2>2, <2>3, <2>4, <2>5
  <1>2. CASE TakeArguments(r)
    <2>1. taken[r] \in 0..NSets /\ taken[r] + 1 \in 0..NSets
      BY <1>2, WebAssumption DEF TakeArguments, TypeOK, WebAssumption
    <2>2. TypeOK'
      BY <1>2, <2>1 DEF TakeArguments, TypeOK, clientVars, pageVars
    <2>3. NeverIdle' /\ KeepsServing' /\ ShowsWhatRuns'
      BY <1>2 DEF TakeArguments, NeverIdle, KeepsServing, ShowsWhatRuns, clientVars,
                  storeVars, pageVars
    <2>4. \A q \in began : taken'[q] > 0
      BY <1>2, <2>1 DEF TakeArguments, TypeOK, RemembersWhatRuns
    <2>5. RemembersWhatRuns'
      BY <1>2, <2>4 DEF TakeArguments, RemembersWhatRuns, pageVars
    <2> QED
      BY <2>2, <2>3, <2>5
  <1>3. CASE TestStarts(r)
    <2>1. TypeOK'
      BY <1>3 DEF TestStarts, Testing, TypeOK, clientVars, pageVars
    <2>2. NeverIdle' /\ KeepsServing' /\ ShowsWhatRuns'
      BY <1>3 DEF TestStarts, NeverIdle, KeepsServing, ShowsWhatRuns, clientVars,
                  storeVars, pageVars
    <2>3. RemembersWhatRuns'
      BY <1>3 DEF TestStarts, RemembersWhatRuns, pageVars
    <2> QED
      BY <2>1, <2>2, <2>3
  <1>4. CASE \E pct \in Percentages : Check(r, pct)
    <2> PICK pct \in Percentages : Check(r, pct)
      BY <1>4
    <2>1. /\ r \in began /\ r \in collected /\ r \in handed
          /\ clientRun \in Runs
          /\ taken[clientRun] \in 0..NSets
      BY DEF Check, TypeOK
    <2>2. progress' = Overall(taken[clientRun], pct)
      BY DEF Check
    <2>3. /\ progress' \in Int
          /\ progress' # Nothing
          /\ taken[clientRun] > 0 => progress' \in 0..100
      BY <2>1, <2>2, OverallType
    <2>4. TypeOK'
      BY <2>3 DEF Check, TypeOK, clientVars, testVars
    <2>5. NeverIdle' /\ KeepsServing' /\ RemembersWhatRuns'
      BY DEF Check, NeverIdle, KeepsServing, RemembersWhatRuns, clientVars, storeVars, testVars
    <2>6. ASSUME ~impatient, r \notin ended PROVE shown = r /\ progress' \in 0..100
      BY <2>1, <2>3, <2>6 DEF ShowsWhatRuns, RemembersWhatRuns
    <2>7. ShowsWhatRuns'
      BY <2>1, <2>3, <2>6, RunsAreNot0 DEF Check, ShowsWhatRuns, testVars, TypeOK
    <2> QED
      BY <2>4, <2>5, <2>7
  <1> QED
    BY <1>1, <1>2, <1>3, <1>4

\* The end of a run.
LEMMA DoneKeepsWInv ==
    ASSUME WInv, NEW r \in Runs, TestRunDone(r)
    PROVE  WInv'
  <1> USE DEF WInv
  <1>1. /\ r \in collected \ ended /\ r \in handed \ ended
        /\ ended' = ended \cup {r}
        /\ clientRunning' = FALSE
        /\ current' \in Runs \cup {None}
    BY DEF TestRunDone, MayEnd, Testing, Stop, TypeOK
  <1>2. TypeOK'
    <2>1. /\ shown' = None /\ testruns' = <<>> /\ progress' = Nothing /\ stale' = FALSE
          /\ UNCHANGED <<events, runIdles, closed, requested, handed, interrupted, collected,
                         taken, began, clientRun, impatient>>
      BY DEF TestRunDone, Up
    <2>2. testruns' \in Seq(handed')
      BY <2>1
    <2>3. progress' \in Int
      BY <2>1 DEF Nothing
    <2>4. /\ runIdles' \in Nat
          /\ taken' \in [Runs -> 0..NSets]
      BY <2>1 DEF TypeOK
    <2>5. /\ closed' \in BOOLEAN /\ interrupted' \in BOOLEAN
          /\ impatient' \in BOOLEAN /\ clientRunning' \in BOOLEAN /\ stale' \in BOOLEAN
      BY <1>1, <2>1 DEF TypeOK
    <2>6. /\ handed' \subseteq Runs
          /\ requested' \subseteq handed'
          /\ collected' \subseteq requested'
          /\ ended' \subseteq collected'
          /\ began' \subseteq collected'
          /\ clientRun' \in collected' \cup {None}
          /\ collected' # {} => clientRun' # None
          /\ shown' \in handed' \cup {None}
      BY <1>1, <2>1 DEF TypeOK
    <2> QED
      BY <1>1, <2>2, <2>3, <2>4, <2>5, <2>6 DEF TypeOK
  <1>3. NeverIdle' /\ KeepsServing'
    BY <1>1 DEF TestRunDone, Submit, NeverIdle, KeepsServing
  <1>4. RemembersWhatRuns'
    BY <1>1 DEF TestRunDone, RemembersWhatRuns
  <1>5. ASSUME ~impatient PROVE handed \ (ended \cup {r}) = {}
    BY <1>1, <1>5 DEF ShowsWhatRuns
  <1>6. ShowsWhatRuns'
    BY <1>1, <1>5 DEF TestRunDone, ShowsWhatRuns
  <1> QED
    BY <1>2, <1>3, <1>4, <1>6

LEMMA NextKeepsWInv == WInv /\ [Next]_vars => WInv'
  <1> SUFFICES ASSUME WInv, [Next]_vars PROVE WInv'
    OBVIOUS
  <1>1. CASE \E r \in Runs : StartTest(r)
    BY <1>1, StartKeepsWInv
  <1>2. CASE StopTest \/ Interrupt
    BY <1>2, StopKeepsWInv
  <1>3. CASE NextRunIdle
    BY <1>3, NextRunKeepsWInv
  <1>4. CASE \E r \in Runs : RunStep(r)
    BY <1>4, CallbackKeepsWInv, DoneKeepsWInv DEF RunStep
  <1>5. CASE \E r \in Runs, pct \in Percentages : Check(r, pct)
    BY <1>5, CallbackKeepsWInv
  <1>6. CASE UNCHANGED vars
    <2>1. TypeOK'
      BY <1>6 DEF WInv, TypeOK, vars, clientVars, storeVars, testVars, pageVars
    <2>2. NeverIdle' /\ KeepsServing' /\ RemembersWhatRuns' /\ ShowsWhatRuns'
      BY <1>6 DEF WInv, NeverIdle, KeepsServing, RemembersWhatRuns, ShowsWhatRuns, vars,
                  clientVars, storeVars, testVars, pageVars
    <2> QED
      BY <2>1, <2>2 DEF WInv
  <1> QED
    BY <1>1, <1>2, <1>3, <1>4, <1>5, <1>6 DEF Next

LEMMA AlwaysWInv == Spec => []WInv
BY InitWInv, NextKeepsWInv, PTL DEF Spec

-----------------------------------------------------------------------------

\* The variables of the web service are of their types (runner.py).
THEOREM TypeCorrect == Spec => []TypeOK
BY AlwaysWInv, PTL DEF WInv

\* The client of the daemon never runs out of runs while it is running, so that
\* clearTestRuns() and stop() (runner.py 31-60) keep its storage open.
THEOREM KeepsServingTheorem == Spec => []KeepsServing
BY AlwaysWInv, PTL DEF WInv

\* Users who go by the page see the one run that goes on and, apart from what a
\* run reports after its end, its progress (runner.py 79-142).
THEOREM ShowsWhatRunsTheorem == Spec => []ShowsWhatRuns
BY AlwaysWInv, PTL DEF WInv
=============================================================================
