---------------------------- MODULE TestLifecycle ----------------------------
(***************************************************************************)
(* What TestRun and the storage rely on when they listen to the signals of *)
(* one test (insanity/testrun.py _runNext connects "start", "stop" and     *)
(* "done"): the iterations are reported one after the other, each started  *)
(* and stopped once.  When nothing goes wrong there is one for every       *)
(* argument set, and then the test is done, once.                          *)
(***************************************************************************)
EXTENDS Naturals

CONSTANT NArgs       \* argument sets of the test

VARIABLES
    smooth,          \* nothing goes wrong in this life
    started,         \* iterations reported as started
    stopped,         \* iterations reported as stopped
    done             \* times the test was reported as done

vars == <<smooth, started, stopped, done>>

Init ==
    /\ smooth \in BOOLEAN
    /\ started = 0
    /\ stopped = 0
    /\ done = 0

Start ==
    /\ smooth => done = 0
    /\ stopped = started
    /\ started < NArgs
    /\ started' = started + 1
    /\ UNCHANGED <<stopped, done>>

Stop ==
    /\ stopped < started
    /\ stopped' = started
    /\ UNCHANGED <<started, done>>

\* The runner reports the last stop and the start of the next iteration from
\* one callback, with nothing in between.
StopAndStart ==
    /\ stopped < started
    /\ started < NArgs
    /\ stopped' = started
    /\ started' = started + 1
    /\ UNCHANGED done

Finish ==
    /\ smooth => done = 0 /\ stopped = NArgs
    /\ done' = done + 1
    /\ UNCHANGED <<started, stopped>>

\* The last stop and the end from one callback: the program is gone already.
StopAndFinish ==
    /\ ~smooth
    /\ stopped < started
    /\ stopped' = started
    /\ done' = done + 1
    /\ UNCHANGED started

Next ==
    /\ \/ Start
       \/ Stop
       \/ StopAndStart
       \/ Finish
       \/ StopAndFinish
    /\ UNCHANGED smooth

SafetySpec == Init /\ [][Next]_vars
Spec == SafetySpec /\ WF_vars(smooth /\ Next)
=============================================================================
