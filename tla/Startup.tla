------------------------------- MODULE Startup ------------------------------
(***************************************************************************)
(* The start of a runner (bin/insanity-run): the scan of a directory for   *)
(* test programs (insanity/utils.py, insanity/testmetadata.py), then the   *)
(* generators of the arguments (insanity/generators/), then the main loop, *)
(* in which the argument sets are enumerated (module Arguments).  The      *)
(* programs that are scanned and the external generators are read with an  *)
(* alarm as the time limit.  The process has one alarm and one handler for *)
(* it, and an alarm that was armed may go off in whatever runs by then.    *)
(*                                                                         *)
(* Time: an alarm may go off as soon as it is armed, but while the runner  *)
(* scans or generates only if somebody is slow (slow) or hangs.            *)
(***************************************************************************)
EXTENDS Arguments

CONSTANTS
    NPrograms        \* files in the directory

ASSUME ProgramsAssumption == NPrograms \in Nat

\* What the files are: something else by its name, something that cannot be
\* executed, a program that says nothing or something else first, one that
\* does not answer, one with unusable metadata, and a test.
Kinds == {"other", "noexec", "nomagic", "hung", "broken", "test"}

\* What the generators are: a list that needs no process (files, playlist,
\* constant), or a process, which may not come to its end.
Generators == [external : BOOLEAN, lines : 0..MaxLines, hangs : BOOLEAN]

VARIABLES
    programs, generators, slow,      \* the environment
    at,              \* where the main thread is
    nth,             \* the program or the generator it is at
    got,             \* lines read from an external generator
    alarm,           \* an alarm is armed
    handler, old,    \* the handler of the alarm, and the one that was replaced
    listed           \* __tests

envVars == <<programs, generators, slow>>
vars == <<envVars, at, nth, got, alarm, handler, old, listed, items, argsVars>>

Init ==
    /\ programs \in [1..NPrograms -> Kinds]
    /\ generators \in [Gens -> Generators]
    /\ \A g \in Gens : generators[g].hangs => generators[g].external
    /\ slow \in BOOLEAN
    /\ at = "probe" /\ nth = 1 /\ got = 0
    /\ alarm = FALSE
    /\ handler = "default" /\ old = "default"
    /\ listed = <<>>
    /\ items = [g \in Gens |-> 0]
    /\ ArgsInit

At(place) == at = place /\ UNCHANGED <<envVars, argsVars>>
Scanning(place) == At(place) /\ nth <= NPrograms /\ UNCHANGED <<got, items>>
NextProgram == at' = "probe" /\ nth' = nth + 1
Alarm == <<alarm, handler, old>>

-----------------------------------------------------------------------------
(* The scan.                                                               *)

\* probe_test(): by its name no test, or Popen() raises.
NotRun ==
    /\ Scanning("probe")
    /\ programs[nth] \in {"other", "noexec"}
    /\ NextProgram
    /\ UNCHANGED <<Alarm, listed>>

Armed ==
    /\ old' = handler
    /\ handler' = "raise"
    /\ alarm' = TRUE

\* Mutant: no alarm(5), only its handler.
SpawnProgramUnlimited ==
    /\ Scanning("probe")
    /\ programs[nth] \notin {"other", "noexec"}
    /\ old' = handler
    /\ handler' = "raise"
    /\ at' = "read"
    /\ UNCHANGED <<nth, listed, alarm>>

SpawnProgram ==
    /\ Scanning("probe")
    /\ programs[nth] \notin {"other", "noexec"}
    /\ Armed
    /\ at' = "read"
    /\ UNCHANGED <<nth, listed>>

\* "No magic, not a test": returns with the alarm armed and its handler.
NoMagic ==
    /\ Scanning("read")
    /\ programs[nth] = "nomagic"
    /\ NextProgram
    /\ UNCHANGED <<Alarm, listed>>

Answered ==
    /\ Scanning("read")
    /\ programs[nth] \in {"broken", "test"}
    /\ handler' = old
    /\ at' = "restored"
    /\ UNCHANGED <<nth, alarm, old, listed>>

\* Mutants: the alarm is not taken back; a test is listed before its metadata
\* was looked at.
ParsedArmed ==
    /\ Scanning("restored")
    /\ listed' = IF programs[nth] = "test" THEN Append(listed, nth) ELSE listed
    /\ NextProgram
    /\ UNCHANGED Alarm
ParsedUnchecked ==
    /\ Scanning("restored")
    /\ alarm' = FALSE
    /\ listed' = Append(listed, nth)
    /\ NextProgram
    /\ UNCHANGED <<handler, old>>

Parsed ==
    /\ Scanning("restored")
    /\ alarm' = FALSE
    /\ listed' = IF programs[nth] = "test" THEN Append(listed, nth) ELSE listed
    /\ NextProgram
    /\ UNCHANGED <<handler, old>>

\* The handler raises while the answer is read; scan_directory_for_tests()
\* catches what comes out of that and goes on.
ProbeTimesOut ==
    /\ Scanning("read")
    /\ alarm /\ handler = "raise"
    /\ slow \/ programs[nth] = "hung"
    /\ alarm' = FALSE
    /\ handler' = old
    /\ NextProgram
    /\ UNCHANGED <<old, listed>>

ScanDone ==
    /\ At("probe")
    /\ nth = NPrograms + 1
    /\ at' = "generate"
    /\ nth' = 1
    /\ UNCHANGED <<got, Alarm, listed, items>>

-----------------------------------------------------------------------------
(* The generators.  Arguments() asks each for its first item, which        *)
(* generates and keeps all of them.                                        *)

Generating(place) == At(place) /\ nth <= NGens /\ UNCHANGED listed

\* An empty generator: ValueError, no run.
Generated(n) ==
    /\ items' = [items EXCEPT ![nth] = n]
    /\ got' = 0
    /\ IF n = 0 THEN at' = "refused" /\ UNCHANGED nth
       ELSE at' = "generate" /\ nth' = nth + 1

GeneratePlain ==
    /\ Generating("generate")
    /\ ~generators[nth].external
    /\ Generated(generators[nth].lines)
    /\ UNCHANGED Alarm

SpawnGenerator ==
    /\ Generating("generate")
    /\ generators[nth].external
    /\ Armed
    /\ at' = "readline"
    /\ UNCHANGED <<nth, got, items>>

ReadLine ==
    /\ Generating("readline")
    /\ got < generators[nth].lines
    /\ got' = got + 1
    /\ UNCHANGED <<at, nth, Alarm, items>>

EndOfOutput ==
    /\ Generating("readline")
    /\ got = generators[nth].lines
    /\ ~generators[nth].hangs
    /\ handler' = old
    /\ at' = "output"
    /\ UNCHANGED <<nth, got, alarm, old, items>>

\* Mutant: the exception is caught inside of the loop.
GeneratorGoesOn ==
    /\ Generating("readline")
    /\ alarm /\ handler = "raise"
    /\ slow \/ (generators[nth].hangs /\ got = generators[nth].lines)
    /\ alarm' = FALSE
    /\ UNCHANGED <<at, nth, got, handler, old, items>>

\* What was read until then is what there is.
GeneratorTimesOut ==
    /\ Generating("readline")
    /\ alarm /\ handler = "raise"
    /\ slow \/ (generators[nth].hangs /\ got = generators[nth].lines)
    /\ alarm' = FALSE
    /\ handler' = old
    /\ at' = "output"
    /\ UNCHANGED <<nth, got, old, items>>

Output ==
    /\ Generating("output")
    /\ alarm' = FALSE
    /\ Generated(got)
    /\ UNCHANGED <<handler, old>>

GeneratorsDone ==
    /\ At("generate")
    /\ nth = NGens + 1
    /\ at' = "run"
    /\ UNCHANGED <<nth, got, Alarm, listed, items>>

-----------------------------------------------------------------------------
(* The main loop, and an alarm that goes off where nobody expects it.      *)

\* DBusTest._prepareArguments() takes the next set, TestRun asks for the number.
Enumerate ==
    /\ at = "run"
    /\ NextArguments \/ LenArguments
    /\ UNCHANGED <<envVars, at, nth, got, Alarm, listed>>

\* Outside of a read: the default action ends the process; the handler raises,
\* in probe_test() so that a program is passed over, between two so that the
\* scan is given up, in a generator so that the run is refused, and later in
\* some callback of the main loop.
StrayAlarm ==
    /\ alarm
    /\ at \in {"probe", "restored", "generate", "output", "run"}
    /\ at # "run" => slow
    /\ alarm' = FALSE
    /\ \/ handler = "default" /\ at' = "killed" /\ UNCHANGED nth
       \/ /\ handler = "raise"
          /\ \/ at \in {"probe", "generate", "output"} /\ at' = "refused" /\ UNCHANGED nth
             \/ at = "run" /\ at' = "disturbed" /\ UNCHANGED nth
             \/ at \in {"probe", "restored"} /\ nth <= NPrograms /\ NextProgram
    /\ UNCHANGED <<envVars, argsVars, got, handler, old, listed, items>>

Step ==
    \/ NotRun \/ SpawnProgram \/ NoMagic \/ Answered \/ Parsed \/ ScanDone
    \/ GeneratePlain \/ SpawnGenerator \/ ReadLine \/ EndOfOutput \/ Output
    \/ GeneratorsDone
TimesOut == ProbeTimesOut \/ GeneratorTimesOut

Next ==
    \/ Step
    \/ TimesOut
    \/ Enumerate
    \/ StrayAlarm

\* The runner goes on, and an alarm goes off when its time has come, which it
\* has when the main thread can do nothing but wait for it.
Fairness == WF_vars(Step) /\ WF_vars(TimesOut)

Spec == Init /\ [][Next]_vars
FairSpec == Spec /\ Fairness

-----------------------------------------------------------------------------
(* Properties.                                                             *)

Over == {"refused", "killed", "disturbed"}
Places == {"probe", "read", "restored", "generate", "readline", "output", "run"} \cup Over
AfterScan == {"generate", "readline", "output", "run", "refused", "disturbed"}

\* The values of the variables but those of the enumeration.
TypeOK ==
    /\ programs \in [1..NPrograms -> Kinds]
    /\ generators \in [Gens -> Generators]
    /\ slow \in BOOLEAN
    /\ at \in Places
    /\ nth \in Nat \ {0}
    /\ got \in 0..MaxLines
    /\ alarm \in BOOLEAN
    /\ handler \in {"default", "raise"}
    /\ old \in {"default", "raise"}
    /\ listed \in Seq(1..NPrograms)
    /\ items \in [Gens -> 0..MaxLines]

\* Nothing is read without a time limit, and the limit never ends the runner
\* instead of the read.
ReadsAreLimited == at \in {"read", "readline"} => alarm /\ handler = "raise"

\* The tests of the directory are listed, in order and each once, whatever
\* else is in it, hung programs and programs without magic included, as long
\* as what answers does so in time.
TestsListed ==
    at \in AfterScan /\ ~slow =>
        /\ Range(listed) = {i \in 1..NPrograms : programs[i] = "test"}
        /\ \A j, k \in DOMAIN listed : j < k => listed[j] < listed[k]

\* Only a program without magic leaves its alarm behind, and only until the
\* next read: after a hung program, a test, or a generator there is none.
AlarmTakenBack ==
    alarm /\ at \in {"probe", "generate", "run"} =>
        \E i \in 1..NPrograms :
            /\ programs[i] = "nomagic"
            /\ at # "probe" \/ i < nth
            /\ \A j \in (i + 1)..NPrograms :
                  (at # "probe" \/ j < nth) => programs[j] \in {"other", "noexec"}

\* Programs and generators that hang, in any number, do not keep the runner
\* from getting to its main loop, or to an error.
StartupEnds == <>(at \in {"run"} \cup Over)
=============================================================================
