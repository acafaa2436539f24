----------------------------- MODULE Checklist ------------------------------
(***************************************************************************)
(* What becomes of the results a test program reports: the table of        *)
(* libinsanity, one for the whole life of the program                      *)
(* (lib/insanity/insanitytest.c), and the checklists of the runner, one    *)
(* for each iteration (insanity/test.py, dbustest.py).                     *)
(*                                                                         *)
(* Signals and replies of a program arrive in the order in which they were *)
(* sent (module RemoteLink), and an iteration is started when the stop of  *)
(* the one before has been answered, so that here a result arrives as it   *)
(* is sent.  Descriptions, explanations and extra information are left     *)
(* out, and so are the items of the runner's own that are valid before the *)
(* first iteration.                                                        *)
(***************************************************************************)
EXTENDS Integers, FiniteSets, Sequences

CONSTANTS
    Items,             \* what the program's metadata declares
    ExpectedFailures,  \* items that a pattern expects to fail
    ExpectedSkips,     \* items that a pattern expects to be skipped
    NIters,            \* iterations of a test
    MaxCalls           \* bound: results reported by the program

OwnItems == {"test-started", "no-timeout", "subprocess-exited-normally"}
Possible == Items \cup OwnItems \cup {"no-unexpected-failures"}

ASSUME ItemsAssumption ==
    /\ Items \cap (OwnItems \cup {"no-unexpected-failures"}) = {}
    /\ ExpectedFailures \cup ExpectedSkips \subseteq Items
    /\ IsFiniteSet(Items)
    /\ NIters \in Nat
    /\ MaxCalls \in Nat

VARIABLES
    standalone,        \* the program runs without a runner
    phase,             \* "setup", "running", "stopped" or "over"
    table,             \* checklist_results of the program
    base,              \* _checklist before the first start
    checklists,        \* _checklist in each iteration
    expected,          \* _expected_failures
    percentages,       \* iteration_success_percentage
    outcome,           \* of a standalone run
    calls              \* history: <<iteration, item, success>> reported

runner == <<base, checklists, expected, percentages>>
vars == <<standalone, phase, table, base, checklists, expected, percentages,
          outcome, calls>>

Nothing(S) == [k \in S |-> "none"]
Result(ok) == IF ok THEN "pass" ELSE "fail"
Iteration == Len(checklists)

Init ==
    /\ standalone \in BOOLEAN
    /\ phase = "setup"
    /\ table = Nothing(Items)
    /\ base = Nothing(Items \cup OwnItems)
    /\ checklists = <<>>
    /\ expected = {}
    /\ percentages = <<>>
    /\ outcome = "none"
    /\ calls = <<>>

-----------------------------------------------------------------------------
(* The runner's side.                                                      *)

\* Mutant: the last result of an item counts.
RecordedLast(list, k, ok) == [list EXCEPT ![k] = Result(ok)]

\* The first result of an item counts.
Recorded(list, k, ok) ==
    IF list[k] = "none" THEN [list EXCEPT ![k] = Result(ok)] ELSE list

\* validateChecklistItem().  A checklist that has been stored by stop() is
\* still the current one until the next start.
ValidateChecklistItem(k, ok) ==
    LET list == IF Iteration = 0 THEN base ELSE checklists[Iteration] IN
    /\ base' = IF Iteration = 0 THEN Recorded(base, k, ok) ELSE base
    /\ checklists' = IF Iteration = 0 THEN checklists
                     ELSE [checklists EXCEPT ![Iteration] = Recorded(@, k, ok)]
    /\ expected' = IF list[k] = "none" /\ ~ok /\ k \in ExpectedFailures
                   THEN expected \cup {k} ELSE expected

\* getIterationCheckList()
Verdict(list, k) ==
    CASE list[k] = "pass" -> "SUCCESS"
      [] list[k] = "fail" -> IF k \in expected THEN "EXPECTED_FAILURE" ELSE "FAILURE"
      [] list[k] = "none" -> IF k \in ExpectedSkips THEN "EXPECTED_FAILURE" ELSE "SKIPPED"

NoUnexpectedFailures(list) ==
    \A k \in DOMAIN list : Verdict(list, k) \in {"SUCCESS", "EXPECTED_FAILURE"}

\* getSuccessPercentage(): of all iterations so far together.
SuccessesOf(list) ==
    Cardinality({k \in DOMAIN list : Verdict(list, k) = "SUCCESS"})
        + (IF NoUnexpectedFailures(list) THEN 1 ELSE 0)

Total(counts) ==
    LET sum[n \in 0..Len(counts)] == IF n = 0 THEN 0 ELSE sum[n - 1] + counts[n]
    IN  sum[Len(counts)]

Percentage(lists) ==
    IF lists = <<>> THEN 0
    ELSE (100 * Total([i \in DOMAIN lists |-> SuccessesOf(lists[i])]))
             \div (Len(lists) * Cardinality(Possible))

\* Test.start(): the first one keeps what was reported during the set-up.
Start ==
    /\ ~standalone
    /\ phase \in {"setup", "stopped"}
    /\ Iteration < NIters
    /\ phase' = "running"
    /\ checklists' = Append(checklists, Recorded(base, "test-started", TRUE))
    /\ UNCHANGED <<standalone, table, base, expected, percentages, outcome, calls>>

\* Test.stop(), when the program has answered or the test has timed out.
Stop ==
    /\ ~standalone
    /\ phase = "running"
    /\ phase' = "stopped"
    /\ \E notimeout \in BOOLEAN : ValidateChecklistItem("no-timeout", notimeout)
    /\ percentages' = Append(percentages, Percentage(checklists'))
    /\ UNCHANGED <<standalone, table, outcome, calls>>

\* DBusTest.tearDown(): its item comes after the last stop().
TearDown ==
    /\ ~standalone
    /\ phase \in {"setup", "stopped"}
    /\ phase' = "over"
    /\ \E normally \in BOOLEAN :
          ValidateChecklistItem("subprocess-exited-normally", normally)
    /\ UNCHANGED <<standalone, table, percentages, outcome, calls>>

-----------------------------------------------------------------------------
(* The program's side.                                                     *)

\* Mutant: an item that is in the table at all is not reported again.
SuppressedIfKnown(k, ok) == table[k] # "none"

\* A FAIL is stored as NULL, which the look-up cannot tell from no entry: only
\* a PASS suppresses, in the same iteration or in a later one.
Suppressed(k, ok) == table[k] = "pass" /\ ok

\* insanity_test_validate_checklist_item(), in a handler of the program or a
\* thread of its own.
Report(k, ok) ==
    /\ phase # "over"
    /\ Len(calls) < MaxCalls
    /\ calls' = Append(calls, [iteration |-> Iteration, item |-> k, ok |-> ok])
    /\ table' = IF Suppressed(k, ok) THEN table ELSE [table EXCEPT ![k] = Result(ok)]
    /\ IF Suppressed(k, ok) \/ standalone
       THEN UNCHANGED <<base, checklists, expected>>
       ELSE ValidateChecklistItem(k, ok)
    /\ UNCHANGED <<standalone, phase, percentages, outcome>>

\* insanity_report_failed_tests()
FailedTests == Cardinality({k \in Items : table[k] # "pass"})

\* insanity_test_run_standalone() after its set-up.
RunStandalone ==
    /\ standalone
    /\ phase = "setup"
    /\ phase' = "running"
    /\ UNCHANGED <<standalone, table, runner, outcome, calls>>

\* The wait ends, with or without the signal; nothing is waited for when the
\* set-up or the start was refused.
EndStandalone ==
    /\ standalone
    /\ phase \in {"setup", "running"}
    /\ phase' = "over"
    /\ outcome' \in {IF FailedTests = 0 THEN "succeeded" ELSE "failed"} \cup
                    (IF phase = "running" THEN {"timed out"} ELSE {})
    /\ UNCHANGED <<standalone, table, runner, calls>>

Next ==
    \/ \E k \in Items, ok \in BOOLEAN : Report(k, ok)
    \/ Start \/ Stop \/ TearDown
    \/ RunStandalone \/ EndStandalone

Spec == Init /\ [][Next]_vars

-----------------------------------------------------------------------------
(* Properties.                                                             *)

\* The reports of item k in the set-up and in iteration i.
ReportedIn(i, k) ==
    {n \in DOMAIN calls : calls[n].iteration \in {0, i} /\ calls[n].item = k}

\* Whatever the table of the program keeps back and the checklist of the
\* runner ignores: an item passes only if a success was reported in that
\* iteration and fails only if a failure was, and none that failed counts as
\* skipped; and after a standalone run that succeeded every item has passed
\* once.  Of an item with results of both kinds this says no more: which of
\* them should count is FailureWins.
VerdictsAreReported ==
    /\ \A i \in DOMAIN checklists, k \in Items :
          LET reported == {calls[n].ok : n \in ReportedIn(i, k)}
              result == checklists[i][k]
          IN  /\ result = "pass" => TRUE \in reported
              /\ result = "fail" => FALSE \in reported
              /\ result = "none" => FALSE \notin reported
    /\ outcome = "succeeded" => \A k \in Items : \E n \in ReportedIn(0, k) : calls[n].ok

\* "a checklist item succeeds only if all calls to validate for that item
\* succeed, and fails if any call to validate for that item fails"
\* (insanitytest.c 554-557).
FailureWins ==
    \A n \in DOMAIN calls :
        ~calls[n].ok =>
            /\ outcome # "succeeded"
            /\ calls[n].iteration \in DOMAIN checklists =>
                  checklists[calls[n].iteration][calls[n].item] = "fail"

\* The storage reads the checklist of an iteration some time after its stop:
\* no verdict on an item has changed by then, except that items of the last
\* iteration that had been skipped get one, whatever other iterations add to
\* the expected failures; and none turns into a success at the expense of the
\* percentage that was stored.
PastVerdictsStay ==
    /\ [][\A i \in DOMAIN checklists, k \in Items \cup OwnItems :
            checklists[i][k] # "none" =>
                Verdict(checklists[i], k)' = Verdict(checklists[i], k)]_vars
    /\ [](\A i \in DOMAIN percentages :
            percentages[i] <= Percentage(SubSeq(checklists, 1, i)))
=============================================================================
