---------------------------- MODULE StartupProofs ---------------------------
(***************************************************************************)
(* The start of the runner for any number of programs and generators: the  *)
(* time limits of what it reads, the alarms it leaves behind, the tests it *)
(* lists, and the argument sets it enumerates; and the opening of its      *)
(* database, for any old contents.                                         *)
(*                                                                         *)
(* The first two follow from where the main thread is when it arms the     *)
(* alarm and when it takes it back; the only step that can fire it in      *)
(* between, the stray alarm, is not taken while the runner reads.  The     *)
(* third from what was listed before the program that is looked at         *)
(* (ListBook).  The last by reading the positions as numbers: those that   *)
(* were returned are 0, 1, 2, ... in that order, and no two are the same   *)
(* number.                                                                 *)
(*                                                                         *)
(* For the database, the rows of a table are those that were there and,    *)
(* behind them, the first rows of the monitors' table: so a new id is the  *)
(* old one and a constant (TablesBook).  The statement that is next says   *)
(* how many they are (PlaceBook), and the last one that all of them are    *)
(* there (Whole).                                                          *)
(***************************************************************************)
EXTENDS Startup, DBConvert, SequenceTheorems, FiniteSetTheorems, WellFoundedInduction,
        TLAPS

SInv ==
    /\ TypeOK
    /\ ReadsAreLimited
    /\ AlarmTakenBack

-----------------------------------------------------------------------------

LEMMA InitSInv == Init => SInv
  <1> SUFFICES ASSUME Init PROVE SInv
    OBVIOUS
  <1>1. 0 \in 0..MaxLines
    BY ArgumentsAssumption DEF ArgumentsAssumption
  <1>2. listed \in Seq(1..NPrograms)
    BY DEF Init
  <1>3. items \in [Gens -> 0..MaxLines] /\ slow \in BOOLEAN /\ alarm \in BOOLEAN
    BY <1>1 DEF Init
  <1>4. TypeOK
    BY <1>1, <1>2, <1>3 DEF Init, TypeOK, Places
  <1>5. ReadsAreLimited /\ AlarmTakenBack
    BY DEF Init, ReadsAreLimited, AlarmTakenBack
  <1> QED
    BY <1>4, <1>5 DEF SInv

\* The scan.
LEMMA ScanKeepsSInv ==
    ASSUME SInv,
           \/ NotRun \/ SpawnProgram \/ NoMagic \/ Answered \/ Parsed \/ ScanDone
           \/ ProbeTimesOut
    PROVE  SInv'
  <1> USE DEF SInv
  <1>0. /\ nth \in Nat \ {0}
        /\ alarm \in BOOLEAN
        /\ handler \in {"default", "raise"}
        /\ old \in {"default", "raise"}
    BY DEF TypeOK
  <1>1. /\ UNCHANGED <<envVars, items, got>>
        /\ nth' \in Nat \ {0}
        /\ at' \in {"probe", "read", "restored", "generate"}
        /\ handler' \in {"default", "raise"}
        /\ old' \in {"default", "raise"}
    BY <1>0 DEF NotRun, SpawnProgram, NoMagic, Answered, Parsed, ScanDone, ProbeTimesOut,
                Scanning, At, NextProgram, Armed, Alarm
  <1>a. alarm' \in BOOLEAN
    BY <1>0 DEF NotRun, SpawnProgram, NoMagic, Answered, Parsed, ScanDone, ProbeTimesOut,
                Armed, Alarm
  <1>2. listed' \in Seq(1..NPrograms)
    <2>1. CASE Parsed
      <3>1. nth \in 1..NPrograms
        BY <2>1, ProgramsAssumption DEF Parsed, Scanning, TypeOK, ProgramsAssumption
      <3>2. Append(listed, nth) \in Seq(1..NPrograms)
        BY <3>1, AppendProperties DEF TypeOK
      <3> QED
        BY <2>1, <3>2 DEF Parsed, TypeOK
    <2>2. CASE ~Parsed
      BY <2>2 DEF NotRun, SpawnProgram, NoMagic, Answered, ScanDone, ProbeTimesOut, TypeOK
    <2> QED
      BY <2>1, <2>2
  <1>3. TypeOK'
    BY <1>0, <1>1, <1>a, <1>2 DEF TypeOK, envVars, Places
  <1>4. ReadsAreLimited'
    BY DEF NotRun, SpawnProgram, NoMagic, Answered, Parsed, ScanDone, ProbeTimesOut,
           Scanning, At, NextProgram, Armed, Alarm, ReadsAreLimited
  <1>5. AlarmTakenBack'
    <2>1. CASE NotRun
      <3>1. /\ at = "probe" /\ at' = "probe" /\ nth' = nth + 1 /\ alarm' = alarm
            /\ nth \in Nat \ {0}
            /\ programs' = programs /\ programs[nth] \in {"other", "noexec"}
        BY <2>1 DEF NotRun, Scanning, At, NextProgram, Alarm, envVars, TypeOK
      <3> SUFFICES ASSUME alarm
                   PROVE  \E i \in 1..NPrograms :
                              /\ programs[i] = "nomagic"
                              /\ i < nth + 1
                              /\ \A j \in (i + 1)..NPrograms :
                                    j < nth + 1 => programs[j] \in {"other", "noexec"}
        BY <3>1 DEF AlarmTakenBack
      <3>2. PICK i \in 1..NPrograms :
                /\ programs[i] = "nomagic"
                /\ i < nth
                /\ \A j \in (i + 1)..NPrograms :
                      j < nth => programs[j] \in {"other", "noexec"}
        BY <3>1 DEF AlarmTakenBack
      <3>3. \A j \in (i + 1)..NPrograms : j < nth + 1 => j < nth \/ j = nth
        BY <3>1, ProgramsAssumption DEF ProgramsAssumption
      <3> QED
        BY <3>1, <3>2, <3>3, ProgramsAssumption DEF ProgramsAssumption
    <2>2. CASE NoMagic
      <3>1. /\ nth \in 1..NPrograms /\ programs[nth] = "nomagic"
            /\ programs' = programs /\ nth' = nth + 1 /\ at' = "probe"
        BY <2>2, ProgramsAssumption
           DEF NoMagic, Scanning, At, NextProgram, envVars, TypeOK, ProgramsAssumption
      <3>2. nth < nth + 1 /\ \A j \in (nth + 1)..NPrograms : ~(j < nth + 1)
        BY <3>1, ProgramsAssumption DEF ProgramsAssumption
      <3> SUFFICES \E i \in 1..NPrograms :
                       /\ programs[i] = "nomagic"
                       /\ i < nth + 1
                       /\ \A j \in (i + 1)..NPrograms :
                             j < nth + 1 => programs[j] \in {"other", "noexec"}
        BY <3>1 DEF AlarmTakenBack
      <3> QED
        BY <3>1, <3>2
    <2>3. CASE ScanDone
      <3>1. /\ at = "probe" /\ at' = "generate" /\ alarm' = alarm /\ programs' = programs
            /\ nth = NPrograms + 1
        BY <2>3 DEF ScanDone, At, Alarm, envVars
      <3>2. \A i \in 1..NPrograms : \A j \in (i + 1)..NPrograms : j < nth
        BY <3>1, ProgramsAssumption DEF ProgramsAssumption
      <3> QED
        BY <3>1, <3>2 DEF AlarmTakenBack
    <2>4. CASE SpawnProgram \/ Answered
      BY <2>4 DEF SpawnProgram, Answered, AlarmTakenBack
    <2>5. CASE Parsed \/ ProbeTimesOut
      BY <2>5 DEF Parsed, ProbeTimesOut, AlarmTakenBack
    <2> QED
      BY <2>1, <2>2, <2>3, <2>4, <2>5
  <1> QED
    BY <1>3, <1>4, <1>5

\* The generators.
LEMMA GenerateKeepsSInv ==
    ASSUME SInv,
           \/ GeneratePlain \/ SpawnGenerator \/ ReadLine \/ EndOfOutput \/ Output
           \/ GeneratorTimesOut \/ GeneratorsDone
    PROVE  SInv'
  <1> USE DEF SInv
  <1>0. /\ nth \in Nat \ {0}
        /\ alarm \in BOOLEAN
        /\ handler \in {"default", "raise"}
        /\ old \in {"default", "raise"}
        /\ at \in Places
        /\ got \in 0..MaxLines /\ 0 \in 0..MaxLines
        /\ items \in [Gens -> 0..MaxLines]
    BY ArgumentsAssumption DEF TypeOK, ArgumentsAssumption
  <1>1. /\ UNCHANGED <<envVars, listed>>
        /\ nth' \in Nat \ {0}
        /\ at' \in {at, "generate", "refused", "readline", "output", "run"}
        /\ handler' \in {"default", "raise"}
        /\ old' \in {"default", "raise"}
    BY <1>0 DEF GeneratePlain, SpawnGenerator, ReadLine, EndOfOutput, Output,
                GeneratorTimesOut, GeneratorsDone, Generating, Generated, At, Armed, Alarm
  <1>a. alarm' \in BOOLEAN
    BY <1>0 DEF GeneratePlain, SpawnGenerator, ReadLine, EndOfOutput, Output,
                GeneratorTimesOut, GeneratorsDone, Generating, At, Armed, Alarm
  <1>2. got' \in 0..MaxLines /\ items' \in [Gens -> 0..MaxLines]
    <2>1. CASE ReadLine
      <3>1. nth \in Gens
        BY <2>1, ArgumentsAssumption
           DEF ReadLine, Generating, TypeOK, Gens, ArgumentsAssumption
      <3>2. generators[nth].lines \in 0..MaxLines
        BY <3>1 DEF TypeOK, Generators
      <3> QED
        BY <2>1, <3>2, ArgumentsAssumption DEF ReadLine, TypeOK, ArgumentsAssumption
    <2>2. CASE GeneratePlain
      <3>1. nth \in Gens
        BY <2>2, ArgumentsAssumption
           DEF GeneratePlain, Generating, TypeOK, Gens, ArgumentsAssumption
      <3>2. generators[nth].lines \in 0..MaxLines
        BY <3>1 DEF TypeOK, Generators
      <3> QED
        BY <1>0, <2>2, <3>2 DEF GeneratePlain, Generated
    <2>3. CASE Output
      BY <1>0, <2>3 DEF Output, Generated
    <2>4. CASE SpawnGenerator \/ EndOfOutput \/ GeneratorTimesOut \/ GeneratorsDone
      BY <2>4 DEF SpawnGenerator, EndOfOutput, GeneratorTimesOut, GeneratorsDone, TypeOK
    <2> QED
      BY <2>1, <2>2, <2>3, <2>4
  <1>3. TypeOK'
    BY <1>0, <1>1, <1>a, <1>2 DEF TypeOK, envVars, Places, Over
  <1>4. ReadsAreLimited'
    BY DEF GeneratePlain, SpawnGenerator, ReadLine, EndOfOutput, Output, GeneratorTimesOut,
           GeneratorsDone, Generating, Generated, At, Armed, Alarm, ReadsAreLimited
  <1>5. AlarmTakenBack'
    <2>1. CASE GeneratePlain \/ GeneratorsDone
      <3>1. at = "generate" /\ at' \in {"generate", "refused", "run"}
            /\ alarm' = alarm /\ programs' = programs
        BY <2>1 DEF GeneratePlain, GeneratorsDone, Generating, Generated, At, Alarm, envVars
      <3> QED
        BY <3>1 DEF AlarmTakenBack
    <2>2. CASE SpawnGenerator \/ EndOfOutput
      BY <2>2 DEF SpawnGenerator, EndOfOutput, AlarmTakenBack
    <2>3. CASE ReadLine
      BY <2>3 DEF ReadLine, Generating, At, AlarmTakenBack
    <2>4. CASE Output \/ GeneratorTimesOut
      BY <2>4 DEF Output, GeneratorTimesOut, AlarmTakenBack
    <2> QED
      BY <2>1, <2>2, <2>3, <2>4
  <1> QED
    BY <1>3, <1>4, <1>5

\* The main loop takes arguments.
LEMMA EnumerateKeepsSInv ==
    ASSUME SInv, Enumerate
    PROVE  SInv'
  <1>1. UNCHANGED <<envVars, at, nth, got, Alarm, listed, items>>
    BY DEF Enumerate, NextArguments, LenArguments
  <1>2. TypeOK'
    BY <1>1 DEF SInv, TypeOK, envVars, Alarm
  <1>3. ReadsAreLimited' /\ AlarmTakenBack'
    BY <1>1 DEF SInv, ReadsAreLimited, AlarmTakenBack, envVars, Alarm
  <1> QED
    BY <1>2, <1>3 DEF SInv

\* An alarm that goes off outside of a read.
LEMMA StrayAlarmKeepsSInv ==
    ASSUME SInv, StrayAlarm
    PROVE  SInv'
  <1>1. /\ UNCHANGED <<envVars, got, handler, old, listed, items>>
        /\ alarm' = FALSE
    BY DEF StrayAlarm
  <1>2. at' \in Over \cup {"probe"} /\ nth' \in Nat \ {0}
    BY DEF SInv, StrayAlarm, NextProgram, Over, TypeOK
  <1>3. TypeOK'
    BY <1>1, <1>2 DEF SInv, TypeOK, envVars, Places
  <1>4. ReadsAreLimited' /\ AlarmTakenBack'
    BY <1>1, <1>2 DEF ReadsAreLimited, AlarmTakenBack, Over
  <1> QED
    BY <1>3, <1>4 DEF SInv

LEMMA NextKeepsSInv == SInv /\ [Next]_vars => SInv'
  <1> SUFFICES ASSUME SInv, [Next]_vars PROVE SInv'
    OBVIOUS
  <1>1. CASE \/ NotRun \/ SpawnProgram \/ NoMagic \/ Answered \/ Parsed \/ ScanDone
             \/ ProbeTimesOut
    BY <1>1, ScanKeepsSInv
  <1>2. CASE \/ GeneratePlain \/ SpawnGenerator \/ ReadLine \/ EndOfOutput \/ Output
             \/ GeneratorTimesOut \/ GeneratorsDone
    BY <1>2, GenerateKeepsSInv
  <1>3. CASE Enumerate
    BY <1>3, EnumerateKeepsSInv
  <1>4. CASE StrayAlarm
    BY <1>4, StrayAlarmKeepsSInv
  <1>5. CASE UNCHANGED vars
    BY <1>5 DEF SInv, TypeOK, ReadsAreLimited, AlarmTakenBack, vars, envVars
  <1> QED
    BY <1>1, <1>2, <1>3, <1>4, <1>5 DEF Next, Step, TimesOut

LEMMA AlwaysSInv == Spec => []SInv
BY InitSInv, NextKeepsSInv, PTL DEF Spec

-----------------------------------------------------------------------------
(* What the scan lists.                                                    *)

\* The tests before the n-th program are listed, in their order.
ListedBefore(n) ==
    /\ \A k \in DOMAIN listed : listed[k] < n /\ programs[listed[k]] = "test"
    /\ \A i \in 1..NPrograms : i < n /\ programs[i] = "test" =>
          \E k \in DOMAIN listed : listed[k] = i
    /\ \A j, k \in DOMAIN listed : j < k => listed[j] < listed[k]

ListBook ==
    ~slow => /\ at \in {"probe", "read", "restored"} => ListedBefore(nth)
             /\ at \in AfterScan => ListedBefore(NPrograms + 1)

LEMMA ListedArePrograms ==
    ASSUME SInv
    PROVE  \A k \in DOMAIN listed : listed[k] \in 1..NPrograms
  <1>1. listed \in Seq(1..NPrograms)
    BY DEF SInv, TypeOK
  <1> QED
    BY <1>1, LenProperties

\* A program that is no test is passed over.
LEMMA PassedOver ==
    ASSUME SInv, ListedBefore(nth), programs[nth] # "test"
    PROVE  ListedBefore(nth + 1)
  <1>1. nth \in Nat /\ \A i \in 1..NPrograms : i < nth + 1 => i < nth \/ i = nth
    BY ProgramsAssumption DEF SInv, TypeOK, ProgramsAssumption
  <1>2. \A k \in DOMAIN listed : listed[k] \in 1..NPrograms /\ listed[k] < nth + 1
    <2>1. \A k \in DOMAIN listed : listed[k] \in 1..NPrograms
      BY ListedArePrograms
    <2> QED
      BY <1>1, <2>1, ProgramsAssumption DEF ListedBefore, ProgramsAssumption
  <1> QED
    BY <1>1, <1>2 DEF ListedBefore

\* A test is listed behind the others.
LEMMA ListedToo ==
    ASSUME SInv, ListedBefore(nth), nth \in 1..NPrograms, programs[nth] = "test",
           listed' = Append(listed, nth), nth' = nth + 1, programs' = programs
    PROVE  ListedBefore(nth)'
  <1> DEFINE n == nth
  <1>1. n \in 1..NPrograms /\ listed \in Seq(1..NPrograms) /\ nth \in Nat
    BY DEF SInv, TypeOK
  <1>2. /\ Len(listed) \in Nat /\ DOMAIN listed = 1..Len(listed)
        /\ \A k \in DOMAIN listed : listed[k] \in 1..NPrograms
    BY <1>1, LenProperties
  <1>3. /\ DOMAIN listed' = 1..(Len(listed) + 1)
        /\ \A k \in 1..Len(listed) : listed'[k] = listed[k]
        /\ listed'[Len(listed) + 1] = n
    <2>1. /\ Append(listed, n) \in Seq(1..NPrograms)
          /\ Len(Append(listed, n)) = Len(listed) + 1
      BY <1>1, AppendProperties
    <2> QED
      BY <1>1, <1>2, <2>1, LenProperties, AppendProperties
  <1>4. ASSUME NEW k \in DOMAIN listed'
        PROVE  \/ k \in DOMAIN listed /\ k < Len(listed) + 1 /\ listed'[k] = listed[k]
               \/ k = Len(listed) + 1 /\ listed'[k] = n
    BY <1>2, <1>3
  <1>5. \A k \in DOMAIN listed : k \in DOMAIN listed' /\ listed'[k] = listed[k]
    BY <1>2, <1>3
  <1>6. Len(listed) + 1 \in DOMAIN listed' /\ listed'[Len(listed) + 1] = n
    BY <1>2, <1>3
  <1>7. \A k \in DOMAIN listed : listed[k] < n /\ listed[k] < n + 1
    BY <1>1, <1>2, ProgramsAssumption DEF ListedBefore, ProgramsAssumption
  <1>8. \A k \in DOMAIN listed' : listed'[k] < n + 1 /\ programs[listed'[k]] = "test"
    BY <1>1, <1>4, <1>7 DEF ListedBefore
  <1>9. ASSUME NEW i \in 1..NPrograms, i < n + 1, programs[i] = "test"
        PROVE  \E k \in DOMAIN listed' : listed'[k] = i
    <2>1. i < n \/ i = n
      BY <1>1, <1>9, ProgramsAssumption DEF ProgramsAssumption
    <2> QED
      BY <1>5, <1>6, <1>9, <2>1 DEF ListedBefore
  <1>10. ASSUME NEW j \in DOMAIN listed', NEW k \in DOMAIN listed', j < k
         PROVE  listed'[j] < listed'[k]
    <2>1. j \in DOMAIN listed /\ listed'[j] = listed[j]
      BY <1>2, <1>3, <1>4, <1>10
    <2> QED
      BY <1>4, <1>7, <1>10, <2>1 DEF ListedBefore
  <1> QED
    BY <1>8, <1>9, <1>10 DEF ListedBefore

LEMMA NextKeepsListBook ==
    ASSUME SInv, ListBook, [Next]_vars
    PROVE  ListBook'
  <1>1. UNCHANGED <<programs, slow>>
    BY DEF Next, Step, TimesOut, NotRun, SpawnProgram, NoMagic, Answered, Parsed, ScanDone,
           ProbeTimesOut, GeneratePlain, SpawnGenerator, ReadLine, EndOfOutput, Output,
           GeneratorTimesOut, GeneratorsDone, Enumerate, StrayAlarm, Scanning, Generating, At,
           envVars, vars
  <1> SUFFICES ASSUME ~slow
               PROVE  /\ at' \in {"probe", "read", "restored"} => ListedBefore(nth)'
                      /\ at' \in AfterScan => ListedBefore(NPrograms + 1)'
    BY <1>1 DEF ListBook
  <1>2. ASSUME NEW n, ListedBefore(n), listed' = listed
        PROVE  ListedBefore(n)' /\ \A m : m = n => ListedBefore(m)
    BY <1>1, <1>2 DEF ListedBefore
  <1>3. CASE NotRun \/ NoMagic \/ ProbeTimesOut
    <2>1. /\ at \in {"probe", "read"} /\ at' = "probe" /\ nth' = nth + 1 /\ listed' = listed
          /\ programs[nth] \in {"other", "noexec", "nomagic", "hung"}
      BY <1>3 DEF NotRun, NoMagic, ProbeTimesOut, Scanning, At, NextProgram
    <2>2. ListedBefore(nth + 1)
      BY <2>1, PassedOver DEF ListBook
    <2> QED
      BY <1>1, <2>1, <2>2 DEF ListedBefore, AfterScan
  <1>4. CASE Parsed
    <2>1. /\ at = "restored" /\ at' = "probe" /\ nth' = nth + 1 /\ nth <= NPrograms
          /\ listed' = IF programs[nth] = "test" THEN Append(listed, nth) ELSE listed
      BY <1>4 DEF Parsed, Scanning, At, NextProgram
    <2>2. ListedBefore(nth) /\ nth \in 1..NPrograms
      BY <2>1, ProgramsAssumption DEF ListBook, SInv, TypeOK, ProgramsAssumption
    <2>3. CASE programs[nth] = "test"
      BY <1>1, <2>1, <2>2, <2>3, ListedToo DEF AfterScan
    <2>4. CASE programs[nth] # "test"
      <3>1. ListedBefore(nth + 1)
        BY <2>2, <2>4, PassedOver
      <3> QED
        BY <1>1, <2>1, <2>4, <3>1 DEF ListedBefore, AfterScan
    <2> QED
      BY <2>3, <2>4
  <1>5. CASE SpawnProgram \/ Answered
    <2>1. /\ at \in {"probe", "read"} /\ at' \in {"read", "restored"}
          /\ nth' = nth /\ listed' = listed
      BY <1>5 DEF SpawnProgram, Answered, Scanning, At
    <2> QED
      BY <1>1, <2>1 DEF ListBook, ListedBefore, AfterScan
  <1>6. CASE ScanDone
    <2>1. at = "probe" /\ at' = "generate" /\ nth = NPrograms + 1 /\ listed' = listed
      BY <1>6 DEF ScanDone, At
    <2> QED
      BY <1>1, <2>1 DEF ListBook, ListedBefore, AfterScan
  <1>7. CASE \/ GeneratePlain \/ SpawnGenerator \/ ReadLine \/ EndOfOutput \/ Output
             \/ GeneratorTimesOut \/ GeneratorsDone
    <2>1. /\ at \in {"generate", "readline", "output"}
          /\ at' \in {"generate", "readline", "output", "run", "refused"} /\ listed' = listed
      BY <1>7 DEF GeneratePlain, SpawnGenerator, ReadLine, EndOfOutput, Output,
                  GeneratorTimesOut, GeneratorsDone, Generating, Generated, At
    <2> QED
      BY <1>1, <2>1 DEF ListBook, ListedBefore, AfterScan
  <1>8. CASE StrayAlarm
    <2>1. at = "run" /\ at' \in {"killed", "disturbed"} /\ listed' = listed
      BY <1>8 DEF StrayAlarm, NextProgram
    <2> QED
      BY <1>1, <2>1 DEF ListBook, ListedBefore, AfterScan
  <1>9. CASE Enumerate \/ UNCHANGED vars
    <2>1. UNCHANGED <<at, nth, listed>>
      BY <1>9 DEF Enumerate, vars
    <2> QED
      BY <1>1, <2>1 DEF ListBook, ListedBefore
  <1> QED
    BY <1>3, <1>4, <1>5, <1>6, <1>7, <1>8, <1>9 DEF Next, Step, TimesOut

LEMMA AlwaysListBook == Spec => []ListBook
  <1>1. Init => ListBook
    <2> SUFFICES ASSUME Init
                 PROVE  ListBook
      OBVIOUS
    <2>1. at = "probe" /\ nth = 1 /\ listed = <<>>
      BY DEF Init
    <2>2. DOMAIN listed = {} /\ \A i \in 1..NPrograms : ~(i < nth)
      BY <2>1, ProgramsAssumption DEF ProgramsAssumption
    <2>3. ListedBefore(nth)
      BY <2>2 DEF ListedBefore
    <2> QED
      BY <2>1, <2>3 DEF ListBook, AfterScan
  <1>2. SInv /\ ListBook /\ [Next]_vars => ListBook'
    BY NextKeepsListBook
  <1> QED
    BY <1>1, <1>2, AlwaysSInv, PTL DEF Spec

-----------------------------------------------------------------------------
(* The positions as numbers: a position is read as a number in the mixed   *)
(* radix of the lengths, the weight of generator k being the product of    *)
(* the lengths before it.  To advance a position is to add one.            *)

\* Induction: a set of numbers that is not empty has a least element.
LEMMA LeastNumber ==
    ASSUME NEW T \in SUBSET Nat, T # {}
    PROVE  \E m \in T : \A k \in T : m <= k
  <1> DEFINE Less == {r \in Nat \X Nat : r[1] < r[2]}
  <1>1. IsWellFoundedOn(Less, Nat)
    BY NatLessThanWellFounded DEF OpToRel
  <1> HIDE DEF Less
  <1>2. PICK m \in T : \A k \in T : ~(<<k, m>> \in Less)
    BY <1>1, WFMin
  <1>3. ASSUME NEW k \in T
        PROVE  m <= k
    <2>1. m \in Nat /\ k \in Nat
      OBVIOUS
    <2>2. ~(k < m)
      BY <1>2, <2>1 DEF Less
    <2> QED
      BY <2>1, <2>2
  <1> QED
    BY <1>3

\* What holds of no generator at all and of each with the one before it.
LEMMA OneByOne ==
    ASSUME NEW Holds \in SUBSET Nat, 0 \in Holds,
           \A k \in Gens : k - 1 \in Holds => k \in Holds
    PROVE  0..NGens \subseteq Holds
  <1> DEFINE T == (0..NGens) \ Holds
  <1> SUFFICES ASSUME T # {}
               PROVE  FALSE
    OBVIOUS
  <1>0. T \in SUBSET Nat
    BY ArgumentsAssumption DEF ArgumentsAssumption
  <1> HIDE DEF T
  <1>1. PICK m \in T : \A k \in T : m <= k
    BY <1>0, LeastNumber
  <1> USE DEF T
  <1>2. m \in Gens /\ m - 1 \in 0..NGens
    BY <1>1, ArgumentsAssumption DEF ArgumentsAssumption, Gens
  <1>3. m - 1 \notin T
    BY <1>1, <1>2
  <1> QED
    BY <1>1, <1>2, <1>3

\* A function by its value for no generator and for one more.
LEMMA ByRecursion ==
    ASSUME NEW S, NEW start \in S, NEW next \in [Gens -> [S -> S]]
    PROVE  \E f \in [0..NGens -> S] :
              f[0] = start /\ \A k \in Gens : f[k] = next[k][f[k - 1]]
  <1> DEFINE UpTo(m, f) ==
          /\ f \in [0..m -> S]
          /\ f[0] = start
          /\ \A k \in 1..m : f[k] = next[k][f[k - 1]]
             Holds == {m \in 0..NGens : \E f : UpTo(m, f)}
  <1>0. NGens \in Nat
    BY ArgumentsAssumption DEF ArgumentsAssumption
  <1>1. 0 \in Holds
    <2> DEFINE f == [k \in 0..0 |-> start]
    <2>1. f \in [0..0 -> S] /\ f[0] = start
      OBVIOUS
    <2>2. \A k \in 1..0 : FALSE
      OBVIOUS
    <2> HIDE DEF f
    <2>3. UpTo(0, f)
      BY <2>1, <2>2
    <2> QED
      BY <1>0, <2>3
  <1>2. ASSUME NEW k \in Gens, k - 1 \in Holds
        PROVE  k \in Holds
    <2>1. PICK f : UpTo(k - 1, f)
      BY <1>2
    <2> DEFINE g == [i \in 0..k |-> IF i = k THEN next[k][f[k - 1]] ELSE f[i]]
    <2>2. k \in 1..NGens /\ k \in 0..NGens /\ k - 1 \in 0..(k - 1) /\ k # 0
      BY <1>0 DEF Gens
    <2>3. next[k][f[k - 1]] \in S
      BY <2>1, <2>2
    <2>4. \A i \in 0..k : i # k => i \in 0..(k - 1)
      BY <2>2
    <2>5. g \in [0..k -> S]
      BY <2>1, <2>3, <2>4
    <2>6. g[0] = start
      BY <2>1, <2>2
    <2>7. \A i \in 1..k : g[i] = next[i][g[i - 1]]
      <3> TAKE i \in 1..k
      <3>1. CASE i = k
        BY <3>1, <2>2
      <3>2. CASE i # k
        BY <3>2, <2>1, <2>2
      <3> QED
        BY <3>1, <3>2
    <2>8. UpTo(k, g)
      BY <2>5, <2>6, <2>7
    <2> QED
      BY <2>2, <2>8
  <1> HIDE DEF UpTo
  <1>3. NGens \in Holds
    <2>1. Holds \in SUBSET Nat /\ NGens \in 0..NGens
      BY <1>0
    <2> HIDE DEF Holds
    <2> QED
      BY <1>1, <1>2, <2>1, OneByOne
  <1>4. PICK f : UpTo(NGens, f)
    BY <1>3
  <1> QED
    BY <1>4 DEF UpTo, Gens

IsWeight(w, n) ==
    w = [k \in 0..NGens |->
            IF k = 0 THEN 1
            ELSE IF n[k] = 0 THEN w[k - 1] ELSE w[k - 1] * n[k]]
Weight(n) == CHOOSE w : IsWeight(w, n)

Lengths == [Gens -> Nat \ {0}]

LEMMA WeightProperties ==
    ASSUME NEW n \in Lengths
    PROVE  /\ Weight(n) \in [0..NGens -> Nat \ {0}]
           /\ Weight(n)[0] = 1
           /\ \A k \in Gens : Weight(n)[k] = Weight(n)[k - 1] * n[k]
           /\ Product(n) = Weight(n)[NGens]
  <1>0. NGens \in Nat
    BY ArgumentsAssumption DEF ArgumentsAssumption
  <1> DEFINE S == Nat \ {0}
             next == [k \in Gens |-> [a \in S |-> a * n[k]]]
  <1>1. next \in [Gens -> [S -> S]]
    <2> SUFFICES ASSUME NEW k \in Gens, NEW a \in S
                 PROVE  a * n[k] \in S
      OBVIOUS
    <2>1. n[k] \in S
      BY DEF Lengths
    <2> QED
      BY <2>1
  <1>2. PICK w \in [0..NGens -> S] : w[0] = 1 /\ \A k \in Gens : w[k] = next[k][w[k - 1]]
    <2>1. 1 \in S
      OBVIOUS
    <2> HIDE DEF next, S
    <2> QED
      BY <1>1, <2>1, ByRecursion
  <1>3. ASSUME NEW k \in 0..NGens, k # 0
        PROVE  k \in Gens /\ k - 1 \in 0..NGens /\ n[k] \in S
    BY <1>0, <1>3 DEF Gens, Lengths
  <1>4. ASSUME NEW k \in Gens
        PROVE  w[k] = w[k - 1] * n[k]
    <2>1. k - 1 \in 0..NGens
      BY <1>0 DEF Gens
    <2>2. w[k - 1] \in S
      BY <1>2, <2>1
    <2> QED
      BY <1>2, <2>2
  <1>5. IsWeight(w, n)
    <2>1. \A k \in 0..NGens :
              w[k] = IF k = 0 THEN 1
                     ELSE IF n[k] = 0 THEN w[k - 1] ELSE w[k - 1] * n[k]
      BY <1>2, <1>3, <1>4
    <2> QED
      BY <1>2, <2>1 DEF IsWeight
  <1>6. IsWeight(Weight(n), n)
    BY <1>5 DEF Weight
  <1>7. ASSUME NEW v, IsWeight(v, n)
        PROVE  v = w
    <2> DEFINE Holds == {k \in 0..NGens : v[k] = w[k]}
    <2>1. v = [k \in 0..NGens |->
            IF k = 0 THEN 1
            ELSE IF n[k] = 0 THEN v[k - 1] ELSE v[k - 1] * n[k]]
      BY <1>7 DEF IsWeight
    <2>2. 0 \in Holds
      BY <1>0, <1>2, <2>1
    <2>3. ASSUME NEW k \in Gens, k - 1 \in Holds
          PROVE  k \in Holds
      <3>1. k \in 0..NGens /\ k # 0 /\ n[k] # 0
        BY <1>0 DEF Gens, Lengths
      <3>2. v[k] = v[k - 1] * n[k]
        BY <2>1, <3>1
      <3> QED
        BY <1>4, <2>3, <3>1, <3>2
    <2>4. \A k \in 0..NGens : v[k] = w[k]
      <3>1. Holds \in SUBSET Nat
        BY <1>0
      <3> HIDE DEF Holds
      <3>2. 0..NGens \subseteq Holds
        BY <2>2, <2>3, <3>1, OneByOne
      <3> QED
        BY <3>2 DEF Holds
    <2> QED
      BY <2>1, <2>4, <1>2
  <1>8. Weight(n) = w
    BY <1>6, <1>7
  <1>9. Product(n) = Weight(n)[NGens]
    BY DEF Product, Weight, IsWeight
  <1> QED
    BY <1>2, <1>4, <1>8, <1>9

\* Two facts of the mixed radix, in one place: a is below the weight w.
LEMMA LessThanNext ==
    ASSUME NEW a \in Nat, NEW w \in Nat, NEW p \in Nat, NEW n \in Nat, a < w, p < n
    PROVE  a + p * w < w * n
  <1>1. PICK d \in Nat : n = p + 1 + d
    <2>1. n - p - 1 \in Nat /\ n = p + 1 + (n - p - 1)
      OBVIOUS
    <2> QED
      BY <2>1
  <1>2. w * n = p * w + w + w * d
    BY <1>1
  <1>3. w * d \in Nat /\ p * w \in Nat
    OBVIOUS
  <1> QED
    BY <1>2, <1>3

LEMMA OneMore ==
    ASSUME NEW p \in Nat, NEW w \in Nat
    PROVE  (p + 1) * w = p * w + w /\ w * (p + 1) = p * w + w
  OBVIOUS

LEMMA SameDigit ==
    ASSUME NEW a \in Nat, NEW b \in Nat, NEW w \in Nat, NEW p \in Nat, NEW q \in Nat,
           a < w, b < w, a + p * w = b + q * w
    PROVE  p = q /\ a = b
  <1>1. ASSUME p < q
        PROVE  FALSE
    <2>1. a + p * w < w * q
      BY <1>1, LessThanNext
    <2> QED
      BY <2>1
  <1>2. ASSUME q < p
        PROVE  FALSE
    <2>1. b + q * w < w * p
      BY <1>2, LessThanNext
    <2> QED
      BY <2>1
  <1> QED
    BY <1>1, <1>2

Positions(n) == {p \in [Gens -> Nat] : \A k \in Gens : p[k] < n[k]}

\* The number that a position is, by the generators up to k.
Value(p, n) ==
    CHOOSE v \in [0..NGens -> Nat] :
        v[0] = 0 /\ \A k \in Gens : v[k] = v[k - 1] + p[k] * Weight(n)[k - 1]

LEMMA ValueProperties ==
    ASSUME NEW n \in Lengths, NEW p \in [Gens -> Nat]
    PROVE  /\ Value(p, n) \in [0..NGens -> Nat]
           /\ Value(p, n)[0] = 0
           /\ \A k \in Gens :
                 Value(p, n)[k] = Value(p, n)[k - 1] + p[k] * Weight(n)[k - 1]
  <1> DEFINE w == Weight(n)
             next == [k \in Gens |-> [a \in Nat |-> a + p[k] * w[k - 1]]]
  <1>0. NGens \in Nat
    BY ArgumentsAssumption DEF ArgumentsAssumption
  <1>1. w \in [0..NGens -> Nat \ {0}]
    BY WeightProperties
  <1> HIDE DEF w
  <1>2. next \in [Gens -> [Nat -> Nat]]
    <2> SUFFICES ASSUME NEW k \in Gens, NEW a \in Nat
                 PROVE  a + p[k] * w[k - 1] \in Nat
      OBVIOUS
    <2>1. p[k] \in Nat /\ w[k - 1] \in Nat
      BY <1>0, <1>1 DEF Gens
    <2> QED
      BY <2>1
  <1>3. PICK v \in [0..NGens -> Nat] : v[0] = 0 /\ \A k \in Gens : v[k] = next[k][v[k - 1]]
    <2> DEFINE S == Nat
               start == 0
    <2>1. start \in S /\ next \in [Gens -> [S -> S]]
      BY <1>2
    <2> HIDE DEF next, S, start
    <2>2. \E v \in [0..NGens -> S] :
              v[0] = start /\ \A k \in Gens : v[k] = next[k][v[k - 1]]
      BY <2>1, ByRecursion
    <2> QED
      BY <2>2 DEF S, start
  <1>4. ASSUME NEW k \in Gens
        PROVE  v[k] = v[k - 1] + p[k] * w[k - 1]
    <2>1. k - 1 \in 0..NGens
      BY <1>0 DEF Gens
    <2>2. v[k - 1] \in Nat
      BY <1>3, <2>1
    <2> QED
      BY <1>3, <2>2
  <1> QED
    BY <1>3, <1>4 DEF Value, w

LEMMA ValueBounded ==
    ASSUME NEW n \in Lengths, NEW p \in Positions(n)
    PROVE  \A k \in 0..NGens : Value(p, n)[k] < Weight(n)[k]
  <1> DEFINE w == Weight(n)
             v == Value(p, n)
             Holds == {k \in 0..NGens : v[k] < w[k]}
  <1>0. NGens \in Nat /\ p \in [Gens -> Nat]
    BY ArgumentsAssumption DEF ArgumentsAssumption, Positions
  <1>1. /\ w \in [0..NGens -> Nat \ {0}] /\ w[0] = 1
        /\ \A k \in Gens : w[k] = w[k - 1] * n[k]
    BY WeightProperties
  <1>2. /\ v \in [0..NGens -> Nat] /\ v[0] = 0
        /\ \A k \in Gens : v[k] = v[k - 1] + p[k] * w[k - 1]
    BY <1>0, ValueProperties
  <1> HIDE DEF w, v
  <1>3. 0 \in Holds
    BY <1>0, <1>1, <1>2
  <1>4. ASSUME NEW k \in Gens, k - 1 \in Holds
        PROVE  k \in Holds
    <2>1. k \in 0..NGens /\ k - 1 \in 0..NGens
      BY <1>0 DEF Gens
    <2>2. n[k] \in Nat /\ p[k] \in Nat /\ p[k] < n[k]
      BY DEF Lengths, Positions
    <2>3. v[k - 1] \in Nat /\ w[k - 1] \in Nat /\ v[k - 1] < w[k - 1]
      BY <1>1, <1>2, <1>4, <2>1
    <2>4. v[k - 1] + p[k] * w[k - 1] < w[k - 1] * n[k]
      BY <2>2, <2>3, LessThanNext
    <2> QED
      BY <1>1, <1>2, <2>1, <2>4
  <1>5. Holds \in SUBSET Nat
    BY <1>0
  <1> HIDE DEF Holds
  <1>6. 0..NGens \subseteq Holds
    BY <1>3, <1>4, <1>5, OneByOne
  <1> QED
    BY <1>6 DEF Holds, w, v

LEMMA ValueIsInjective ==
    ASSUME NEW n \in Lengths, NEW p \in Positions(n), NEW q \in Positions(n),
           Value(p, n)[NGens] = Value(q, n)[NGens]
    PROVE  p = q
  <1> DEFINE w == Weight(n)
             v == Value(p, n)
             u == Value(q, n)
             Differ == {k \in 0..NGens : v[k] = u[k] /\ \E j \in Gens : j <= k /\ p[j] # q[j]}
  <1>0. NGens \in Nat /\ p \in [Gens -> Nat] /\ q \in [Gens -> Nat]
    BY ArgumentsAssumption DEF ArgumentsAssumption, Positions
  <1>1. w \in [0..NGens -> Nat \ {0}]
    BY WeightProperties
  <1>2. /\ v \in [0..NGens -> Nat]
        /\ \A k \in Gens : v[k] = v[k - 1] + p[k] * w[k - 1]
    BY <1>0, ValueProperties
  <1>3. /\ u \in [0..NGens -> Nat]
        /\ \A k \in Gens : u[k] = u[k - 1] + q[k] * w[k - 1]
    BY <1>0, ValueProperties
  <1>4. \A k \in 0..NGens : v[k] < w[k] /\ u[k] < w[k]
    BY ValueBounded
  <1>5. v[NGens] = u[NGens]
    OBVIOUS
  <1> HIDE DEF w, v, u
  <1>6. Differ = {}
    <2> SUFFICES ASSUME Differ # {}
                 PROVE  FALSE
      OBVIOUS
    <2>1. Differ \in SUBSET Nat
      BY <1>0
    <2>2. PICK k \in Differ : \A i \in Differ : k <= i
      <3> HIDE DEF Differ
      <3> QED
        BY <2>1, LeastNumber
    <2>3. PICK j \in Gens : j <= k /\ p[j] # q[j]
      OBVIOUS
    <2>4. k \in Gens /\ k \in 0..NGens /\ k - 1 \in 0..NGens
      BY <1>0, <2>3 DEF Gens
    <2>5. /\ v[k - 1] \in Nat /\ u[k - 1] \in Nat /\ w[k - 1] \in Nat
          /\ p[k] \in Nat /\ q[k] \in Nat
          /\ v[k - 1] < w[k - 1] /\ u[k - 1] < w[k - 1]
      BY <1>0, <1>1, <1>2, <1>3, <1>4, <2>4
    <2>6. v[k - 1] + p[k] * w[k - 1] = u[k - 1] + q[k] * w[k - 1]
      BY <1>2, <1>3, <2>4
    <2>7. p[k] = q[k] /\ v[k - 1] = u[k - 1]
      <3> DEFINE a == v[k - 1]
                 b == u[k - 1]
                 m == w[k - 1]
                 d == p[k]
                 e == q[k]
      <3>1. /\ a \in Nat /\ b \in Nat /\ m \in Nat /\ d \in Nat /\ e \in Nat
            /\ a < m /\ b < m /\ a + d * m = b + e * m
        BY <2>5, <2>6
      <3> HIDE DEF a, b, m, d, e
      <3>2. d = e /\ a = b
        BY <3>1, SameDigit
      <3> QED
        BY <3>2 DEF a, b, d, e
    <2>8. j <= k - 1
      BY <2>3, <2>4, <2>7 DEF Gens
    <2>9. k - 1 \in Differ
      BY <2>3, <2>4, <2>7, <2>8
    <2> QED
      BY <2>2, <2>4, <2>9
  <1>7. \A j \in Gens : p[j] = q[j]
    <2> SUFFICES ASSUME NEW j \in Gens, p[j] # q[j]
                 PROVE  FALSE
      OBVIOUS
    <2>1. j <= NGens /\ NGens \in 0..NGens
      BY <1>0 DEF Gens
    <2> QED
      BY <1>5, <1>6, <2>1
  <1> QED
    BY <1>0, <1>7

\* One step of the odometer.
LEMMA Digit ==
    ASSUME NEW d \in Nat, NEW n \in Nat, d < n
    PROVE  (d + 1) % n = IF d + 1 = n THEN 0 ELSE d + 1
  <1>1. CASE d + 1 = n
    <2>1. n % n = 0
      OBVIOUS
    <2> QED
      BY <1>1, <2>1
  <1>2. CASE d + 1 # n
    <2>1. d + 1 \in 0..(n - 1)
      BY <1>2
    <2> QED
      BY <1>2, <2>1
  <1> QED
    BY <1>1, <1>2

LEMMA AdvanceAddsOne ==
    ASSUME NEW n \in Lengths, NEW p \in Positions(n)
    PROVE  /\ Advance(p, n) \in Positions(n)
           /\ Value(Advance(p, n), n)[NGens] =
                 IF Value(p, n)[NGens] + 1 = Weight(n)[NGens] THEN 0
                 ELSE Value(p, n)[NGens] + 1
  <1> DEFINE q == Advance(p, n)
             w == Weight(n)
             v == Value(p, n)
             u == Value(q, n)
             Wraps(k) == \A j \in 1..k : p[j] + 1 = n[j]
             Adds(k) == IF Wraps(k) THEN v[k] + 1 = w[k] /\ u[k] = 0
                        ELSE v[k] + 1 < w[k] /\ u[k] = v[k] + 1
             Holds == {k \in 0..NGens : Adds(k)}
  <1>0. NGens \in Nat /\ p \in [Gens -> Nat]
    BY ArgumentsAssumption DEF ArgumentsAssumption, Positions
  <1>a. \A k \in Gens : n[k] \in Nat /\ p[k] \in Nat /\ p[k] < n[k]
    BY DEF Lengths, Positions
  <1>b. \A k \in Gens :
            q[k] = IF ~Wraps(k - 1) THEN p[k]
                   ELSE IF p[k] + 1 = n[k] THEN 0 ELSE p[k] + 1
    <2> SUFFICES ASSUME NEW k \in Gens
                 PROVE  q[k] = IF ~Wraps(k - 1) THEN p[k]
                               ELSE IF p[k] + 1 = n[k] THEN 0 ELSE p[k] + 1
      OBVIOUS
    <2>1. q[k] = IF Wraps(k - 1) THEN (p[k] + 1) % n[k] ELSE p[k]
      BY DEF Advance
    <2>2. (p[k] + 1) % n[k] = IF p[k] + 1 = n[k] THEN 0 ELSE p[k] + 1
      BY <1>a, Digit
    <2> QED
      BY <2>1, <2>2
  <1>c. q \in Positions(n)
    <2>1. \A k \in Gens : q[k] \in Nat /\ q[k] < n[k]
      <3> TAKE k \in Gens
      <3>1. n[k] \in Nat /\ p[k] \in Nat /\ p[k] < n[k]
        BY <1>a
      <3>2. \/ q[k] = p[k]
            \/ q[k] = 0
            \/ q[k] = p[k] + 1 /\ p[k] + 1 # n[k]
        BY <1>b
      <3> HIDE DEF q
      <3> QED
        BY <3>1, <3>2
    <2>2. q = [k \in Gens |-> q[k]]
      BY DEF Advance
    <2> HIDE DEF q
    <2> QED
      BY <2>1, <2>2 DEF Positions
  <1>1. /\ w \in [0..NGens -> Nat \ {0}] /\ w[0] = 1
        /\ \A k \in Gens : w[k] = w[k - 1] * n[k]
    BY WeightProperties
  <1>2. /\ v \in [0..NGens -> Nat] /\ v[0] = 0
        /\ \A k \in Gens : v[k] = v[k - 1] + p[k] * w[k - 1]
    BY <1>0, ValueProperties
  <1>3. /\ u \in [0..NGens -> Nat] /\ u[0] = 0
        /\ \A k \in Gens : u[k] = u[k - 1] + q[k] * w[k - 1]
    <2> HIDE DEF q
    <2> QED
      BY <1>c, ValueProperties DEF Positions
  <1>4. \A k \in 0..NGens : v[k] < w[k]
    BY ValueBounded
  <1> HIDE DEF q, w, v, u
  <1>5. 0 \in Holds
    <2>1. Wraps(0)
      OBVIOUS
    <2>2. v[0] + 1 = w[0] /\ u[0] = 0
      BY <1>1, <1>2, <1>3
    <2> QED
      BY <1>0, <2>1, <2>2
  <1>6. ASSUME NEW k \in Gens, k - 1 \in Holds
        PROVE  k \in Holds
    <2>1. /\ k \in 0..NGens /\ k - 1 \in 0..NGens
          /\ Wraps(k) <=> Wraps(k - 1) /\ p[k] + 1 = n[k]
      BY <1>0 DEF Gens
    <2>2. /\ v[k - 1] \in Nat /\ u[k - 1] \in Nat /\ w[k - 1] \in Nat
          /\ n[k] \in Nat /\ p[k] \in Nat /\ p[k] < n[k]
          /\ v[k] = v[k - 1] + p[k] * w[k - 1]
          /\ u[k] = u[k - 1] + q[k] * w[k - 1]
          /\ w[k] = w[k - 1] * n[k]
      BY <1>1, <1>2, <1>3, <1>a, <2>1
    <2>3. Adds(k - 1)
      BY <1>6
    <2>4. q[k] = IF ~Wraps(k - 1) THEN p[k]
                 ELSE IF p[k] + 1 = n[k] THEN 0 ELSE p[k] + 1
      BY <1>b
    <2> HIDE DEF Wraps
    <2>5. CASE Wraps(k - 1) /\ p[k] + 1 = n[k]
      <3>1. u[k - 1] = 0 /\ v[k - 1] + 1 = w[k - 1] /\ q[k] = 0 /\ Wraps(k)
        BY <2>1, <2>3, <2>4, <2>5
      <3>2. u[k] = 0
        BY <2>2, <3>1
      <3>3. w[k] = p[k] * w[k - 1] + w[k - 1]
        BY <2>2, <2>5, OneMore
      <3>4. p[k] * w[k - 1] \in Nat
        BY <2>2
      <3>5. v[k] + 1 = w[k]
        BY <2>2, <3>1, <3>3, <3>4
      <3> QED
        BY <2>1, <3>1, <3>2, <3>5
    <2>6. CASE Wraps(k - 1) /\ p[k] + 1 # n[k]
      <3>1. u[k - 1] = 0 /\ v[k - 1] + 1 = w[k - 1] /\ q[k] = p[k] + 1 /\ ~Wraps(k)
        BY <2>1, <2>3, <2>4, <2>6
      <3>2. u[k] = p[k] * w[k - 1] + w[k - 1]
        BY <2>2, <3>1, OneMore
      <3>3. u[k] = v[k] + 1
        BY <2>2, <3>1, <3>2
      <3>4. p[k] + 1 < n[k] /\ p[k] + 1 \in Nat /\ 0 < w[k - 1]
        <4>1. v[k - 1] + 1 = w[k - 1] /\ v[k - 1] \in Nat /\ w[k - 1] \in Nat
              /\ p[k] \in Nat /\ n[k] \in Nat /\ p[k] < n[k]
          BY <2>2, <3>1
        <4> QED
          BY <4>1, <2>6
      <3>5. 0 + (p[k] + 1) * w[k - 1] < w[k - 1] * n[k]
        BY <2>2, <3>4, LessThanNext
      <3>6. (p[k] + 1) * w[k - 1] = p[k] * w[k - 1] + w[k - 1]
        BY <2>2, OneMore
      <3>7. v[k] + 1 < w[k]
        BY <2>2, <3>2, <3>3, <3>5, <3>6
      <3> QED
        BY <2>1, <3>1, <3>3, <3>7
    <2>7. CASE ~Wraps(k - 1)
      <3>1. u[k - 1] = v[k - 1] + 1 /\ v[k - 1] + 1 < w[k - 1] /\ q[k] = p[k] /\ ~Wraps(k)
        BY <2>1, <2>3, <2>4, <2>7
      <3>2. p[k] * w[k - 1] \in Nat
        BY <2>2
      <3>3. u[k] = v[k] + 1
        BY <2>2, <3>1, <3>2
      <3>4. v[k - 1] + 1 + p[k] * w[k - 1] < w[k - 1] * n[k]
        BY <2>2, <3>1, LessThanNext
      <3>5. v[k] + 1 < w[k]
        BY <2>2, <3>2, <3>4
      <3> QED
        BY <2>1, <3>1, <3>3, <3>5
    <2> QED
      BY <2>5, <2>6, <2>7
  <1>7. Adds(NGens)
    <2>1. Holds \in SUBSET Nat /\ NGens \in 0..NGens
      BY <1>0
    <2> HIDE DEF Holds
    <2>2. NGens \in Holds
      BY <1>5, <1>6, <2>1, OneByOne
    <2> QED
      BY <2>2 DEF Holds
  <1>8. v[NGens] \in Nat /\ w[NGens] \in Nat
    BY <1>0, <1>1, <1>2
  <1> QED
    BY <1>7, <1>8, <1>c DEF q, v, u, w

-----------------------------------------------------------------------------
(* The enumeration.                                                        *)

\* No generator that was asked is empty, and the arguments are not counted
\* before all of them have been.
GeneratorBook ==
    /\ initialized \in BOOLEAN
    /\ at \in {"generate", "readline", "output"} => \A g \in Gens : g < nth => items[g] # 0
    /\ at = "run" \/ initialized => \A g \in Gens : items[g] # 0
    /\ initialized => at \in {"run", "disturbed", "killed"}

\* The set returned at i is the one whose number is i - 1, and the position is
\* the next one's.
Enumerated(n) ==
    /\ globalidx \in 0..Product(n)
    /\ returned \in Seq(Positions(n))
    /\ Len(returned) = globalidx
    /\ position \in Positions(n)
    /\ Value(position, n)[NGens] = IF globalidx = Product(n) THEN 0 ELSE globalidx
    /\ \A i \in 1..globalidx : Value(returned[i], n)[NGens] = i - 1

EnumerationBook ==
    /\ ~initialized =>
          /\ position = [k \in Gens |-> 0]
          /\ combinations = 1
          /\ globalidx = 0
          /\ returned = <<>>
    /\ initialized =>
          /\ length = items
          /\ combinations = Product(items)
          /\ Enumerated(items)

LEMMA LengthsAre ==
    ASSUME TypeOK, \A g \in Gens : items[g] # 0
    PROVE  items \in Lengths
  <1>1. \A g \in Gens : items[g] \in Nat
    BY ArgumentsAssumption DEF TypeOK, ArgumentsAssumption
  <1>2. items = [g \in Gens |-> items[g]]
    BY DEF TypeOK
  <1> QED
    BY <1>1, <1>2 DEF Lengths

LEMMA NextKeepsGeneratorBook ==
    ASSUME SInv, GeneratorBook, [Next]_vars
    PROVE  GeneratorBook'
  <1>0. /\ nth \in Nat \ {0} /\ items \in [Gens -> 0..MaxLines]
        /\ NGens \in Nat
    BY ArgumentsAssumption DEF SInv, TypeOK, ArgumentsAssumption
  <1>1. CASE NotRun \/ SpawnProgram \/ NoMagic \/ Answered \/ Parsed \/ ProbeTimesOut
    <2>1. /\ at \in {"probe", "read", "restored"} /\ at' \in {"probe", "read", "restored"}
          /\ UNCHANGED <<items, initialized>>
      BY <1>1 DEF NotRun, SpawnProgram, NoMagic, Answered, Parsed, ProbeTimesOut, Scanning, At,
                  NextProgram, argsVars
    <2> QED
      BY <2>1 DEF GeneratorBook
  <1>2. CASE ScanDone
    <2>1. at = "probe" /\ at' = "generate" /\ nth' = 1 /\ UNCHANGED <<items, initialized>>
      BY <1>2 DEF ScanDone, At, argsVars
    <2>2. \A g \in Gens : ~(g < 1)
      BY DEF Gens
    <2> QED
      BY <2>1, <2>2 DEF GeneratorBook
  <1>3. CASE GeneratePlain \/ Output
    <2>1. PICK n : /\ at \in {"generate", "output"} /\ initialized' = initialized
                   /\ Generated(n) /\ nth <= NGens
      BY <1>3 DEF GeneratePlain, Output, Generating, At, argsVars
    <2>2. ~initialized /\ at' \in {"refused", "generate"}
      BY <2>1 DEF GeneratorBook, Generated
    <2>3. ASSUME at' = "generate", NEW g \in Gens, g < nth'
          PROVE  items'[g] # 0
      <3>1. n # 0 /\ nth' = nth + 1 /\ items' = [items EXCEPT ![nth] = n]
        BY <2>1, <2>3 DEF Generated
      <3>2. g < nth \/ g = nth
        BY <1>0, <2>3, <3>1 DEF Gens
      <3> QED
        BY <1>0, <2>1, <3>1, <3>2 DEF GeneratorBook
    <2> QED
      BY <2>1, <2>2, <2>3 DEF GeneratorBook
  <1>4. CASE SpawnGenerator \/ ReadLine \/ EndOfOutput \/ GeneratorTimesOut
    <2>1. /\ at \in {"generate", "readline"} /\ at' \in {"readline", "output"}
          /\ UNCHANGED <<nth, items, initialized>>
      BY <1>4 DEF SpawnGenerator, ReadLine, EndOfOutput, GeneratorTimesOut, Generating, At, argsVars
    <2> QED
      BY <2>1 DEF GeneratorBook
  <1>5. CASE GeneratorsDone
    <2>1. /\ at = "generate" /\ at' = "run" /\ nth = NGens + 1
          /\ UNCHANGED <<nth, items, initialized>>
      BY <1>5 DEF GeneratorsDone, At, argsVars
    <2>2. \A g \in Gens : g < nth
      BY <1>0, <2>1 DEF Gens
    <2> QED
      BY <2>1, <2>2 DEF GeneratorBook
  <1>6. CASE Enumerate
    <2>1. /\ at = "run" /\ at' = "run" /\ UNCHANGED items
          /\ initialized' \in BOOLEAN
      BY <1>6 DEF Enumerate, NextArguments, LenArguments, Initialize, GeneratorBook
    <2> QED
      BY <2>1 DEF GeneratorBook
  <1>7. CASE StrayAlarm
    <2>1. /\ UNCHANGED <<items, initialized>>
          /\ at \in {"probe", "restored", "generate", "output", "run"}
          /\ \/ at' = "killed"
             \/ at # "run" /\ at' \in {"probe", "refused"}
             \/ at = "run" /\ at' = "disturbed"
      BY <1>7 DEF StrayAlarm, NextProgram, argsVars
    <2> QED
      BY <2>1 DEF GeneratorBook
  <1>8. CASE UNCHANGED vars
    BY <1>8 DEF vars, argsVars, GeneratorBook
  <1> QED
    BY <1>1, <1>2, <1>3, <1>4, <1>5, <1>6, <1>7, <1>8 DEF Next, Step, TimesOut

\* What the first next() or len() makes of the state.
LEMMA FirstIsEnumerated ==
    ASSUME NEW n \in Lengths,
           position = [k \in Gens |-> 0], globalidx = 0, returned = <<>>
    PROVE  Enumerated(n)
  <1>0. NGens \in Nat
    BY ArgumentsAssumption DEF ArgumentsAssumption
  <1>1. position \in Positions(n)
    <2>1. \A k \in Gens : n[k] \in Nat \ {0}
      BY DEF Lengths
    <2>2. \A k \in Gens : position[k] = 0 /\ 0 < n[k]
      BY <2>1
    <2>3. position \in [Gens -> Nat]
      OBVIOUS
    <2> QED
      BY <2>2, <2>3 DEF Positions
  <1>2. Product(n) = Weight(n)[NGens] /\ Product(n) \in Nat \ {0}
    BY <1>0, WeightProperties
  <1>3. Value(position, n)[NGens] = 0
    <2> DEFINE v == Value(position, n)
               Holds == {k \in 0..NGens : v[k] = 0}
    <2>1. /\ v \in [0..NGens -> Nat] /\ v[0] = 0
          /\ \A k \in Gens : v[k] = v[k - 1] + position[k] * Weight(n)[k - 1]
      BY <1>1, ValueProperties DEF Positions
    <2> HIDE DEF v
    <2>2. 0 \in Holds
      BY <1>0, <2>1
    <2>3. ASSUME NEW k \in Gens, k - 1 \in Holds
          PROVE  k \in Holds
      <3>1. k \in 0..NGens /\ k - 1 \in 0..NGens
        BY <1>0 DEF Gens
      <3>2. Weight(n)[k - 1] \in Nat
        BY <3>1, WeightProperties
      <3>3. position[k] * Weight(n)[k - 1] = 0
        BY <3>2
      <3> QED
        BY <2>1, <2>3, <3>1, <3>3
    <2>4. Holds \in SUBSET Nat /\ NGens \in 0..NGens
      BY <1>0
    <2> HIDE DEF Holds
    <2>5. NGens \in Holds
      BY <2>2, <2>3, <2>4, OneByOne
    <2> QED
      BY <2>5 DEF Holds, v
  <1>4. globalidx \in 0..Product(n)
    BY <1>2
  <1>5. returned \in Seq(Positions(n)) /\ Len(returned) = 0
    OBVIOUS
  <1>6. \A i \in 1..globalidx : FALSE
    OBVIOUS
  <1> QED
    BY <1>1, <1>2, <1>3, <1>4, <1>5, <1>6 DEF Enumerated

LEMMA NextIsEnumerated ==
    ASSUME NEW n \in Lengths, Enumerated(n), globalidx < Product(n),
           returned' = Append(returned, position),
           position' = Advance(position, n),
           globalidx' = globalidx + 1
    PROVE  Enumerated(n)'
  <1>0. NGens \in Nat
    BY ArgumentsAssumption DEF ArgumentsAssumption
  <1>1. Product(n) = Weight(n)[NGens] /\ Product(n) \in Nat \ {0}
    BY <1>0, WeightProperties
  <1>2. /\ position \in Positions(n) /\ returned \in Seq(Positions(n))
        /\ globalidx \in Nat /\ Len(returned) = globalidx
        /\ Value(position, n)[NGens] = globalidx
        /\ \A i \in 1..globalidx : Value(returned[i], n)[NGens] = i - 1
    BY <1>1 DEF Enumerated
  <1>3. /\ returned' \in Seq(Positions(n))
        /\ Len(returned') = globalidx'
        /\ \A i \in 1..globalidx : returned'[i] = returned[i]
        /\ returned'[globalidx + 1] = position
    BY <1>2, AppendProperties
  <1>4. globalidx' \in 0..Product(n)
    BY <1>1, <1>2
  <1>5. /\ position' \in Positions(n)
        /\ Value(position', n)[NGens] = IF globalidx' = Product(n) THEN 0 ELSE globalidx'
    BY <1>1, <1>2, AdvanceAddsOne
  <1>6. ASSUME NEW i \in 1..globalidx'
        PROVE  Value(returned'[i], n)[NGens] = i - 1
    <2>1. i \in 1..globalidx \/ i = globalidx + 1
      BY <1>2
    <2> QED
      BY <1>2, <1>3, <2>1
  <1> QED
    BY <1>3, <1>4, <1>5, <1>6 DEF Enumerated

LEMMA NextKeepsEnumerationBook ==
    ASSUME SInv, GeneratorBook, EnumerationBook, [Next]_vars
    PROVE  EnumerationBook'
  <1>1. CASE Enumerate
    <2>0. /\ items' = items /\ items \in Lengths
          /\ initialized \in BOOLEAN /\ initialized'
          /\ length' = items /\ combinations' = Product(items)
      <3>1. items' = items /\ Initialize /\ at = "run"
        BY <1>1 DEF Enumerate, NextArguments, LenArguments
      <3>2. items \in Lengths
        BY <3>1, LengthsAre DEF SInv, GeneratorBook
      <3>3. Product(items) \in Nat
        <4>1. NGens \in 0..NGens
          BY ArgumentsAssumption DEF ArgumentsAssumption
        <4> QED
          BY <3>2, <4>1, WeightProperties
      <3> QED
        BY <3>1, <3>2, <3>3 DEF Initialize, EnumerationBook, GeneratorBook
    <2>1. Enumerated(items)
      BY <2>0, FirstIsEnumerated DEF EnumerationBook
    <2>2. CASE NextArguments /\ globalidx < combinations'
      <3>1. Enumerated(items)'
        <4> DEFINE n == items
        <4>1. /\ n \in Lengths /\ Enumerated(n) /\ globalidx < Product(n)
              /\ returned' = Append(returned, position)
              /\ position' = Advance(position, n)
              /\ globalidx' = globalidx + 1
          BY <2>0, <2>1, <2>2 DEF NextArguments
        <4> QED
          BY <2>0, <4>1, NextIsEnumerated DEF Enumerated
      <3> QED
        BY <2>0, <3>1 DEF EnumerationBook
    <2>3. CASE LenArguments \/ (NextArguments /\ ~(globalidx < combinations'))
      <3>1. UNCHANGED <<returned, position, globalidx>>
        BY <2>3 DEF LenArguments, NextArguments
      <3>2. Enumerated(items)'
        BY <2>0, <2>1, <3>1 DEF Enumerated
      <3> QED
        BY <2>0, <3>2 DEF EnumerationBook
    <2>4. NextArguments \/ LenArguments
      BY <1>1 DEF Enumerate
    <2> QED
      BY <2>2, <2>3, <2>4
  <1>2. CASE UNCHANGED argsVars
    <2>1. initialized => UNCHANGED items
      BY <1>2 DEF Next, Step, TimesOut, NotRun, SpawnProgram, NoMagic, Answered, Parsed, ScanDone,
           ProbeTimesOut, GeneratePlain, SpawnGenerator, ReadLine, EndOfOutput, Output,
           GeneratorTimesOut, GeneratorsDone, Enumerate, StrayAlarm, Scanning, Generating, At,
           vars, GeneratorBook, NextArguments, LenArguments
    <2> QED
      BY <1>2, <2>1 DEF argsVars, EnumerationBook, Enumerated
  <1>3. Enumerate \/ UNCHANGED argsVars
    BY DEF Next, Step, TimesOut, NotRun, SpawnProgram, NoMagic, Answered, Parsed, ScanDone,
           ProbeTimesOut, GeneratePlain, SpawnGenerator, ReadLine, EndOfOutput, Output,
           GeneratorTimesOut, GeneratorsDone, StrayAlarm, Scanning, Generating, At, vars
  <1> QED
    BY <1>1, <1>2, <1>3

LEMMA AlwaysEnumerationBook == Spec => [](GeneratorBook /\ EnumerationBook)
  <1>1. Init => GeneratorBook /\ EnumerationBook
    BY DEF Init, ArgsInit, GeneratorBook, EnumerationBook
  <1>2. SInv /\ GeneratorBook /\ EnumerationBook /\ [Next]_vars
            => GeneratorBook' /\ EnumerationBook'
    BY NextKeepsGeneratorBook, NextKeepsEnumerationBook
  <1> QED
    BY <1>1, <1>2, AlwaysSInv, PTL DEF Spec

-----------------------------------------------------------------------------

\* The variables of the scan and of the generators are of their types.
THEOREM TypeCorrect == Spec => []TypeOK
BY AlwaysSInv, PTL DEF SInv

\* Every read of a program or of a generator has an alarm that ends it
\* (testmetadata.py 54-62, generators/external.py 60-70).
THEOREM ReadsAreLimitedTheorem == Spec => []ReadsAreLimited
BY AlwaysSInv, PTL DEF SInv

\* An alarm that is left is that of the last program that was run, and that one
\* had no magic (testmetadata.py 64-90).
THEOREM AlarmTakenBackTheorem == Spec => []AlarmTakenBack
BY AlwaysSInv, PTL DEF SInv

\* When everybody answers in time, the scan lists exactly the tests, in order
\* and each once, whatever else is in the directory (utils.py 123-153).
THEOREM TestsListedTheorem == Spec => []TestsListed
  <1>1. SInv /\ ListBook => TestsListed
    <2> SUFFICES ASSUME SInv, ListBook, at \in AfterScan, ~slow
                 PROVE  /\ Range(listed) = {i \in 1..NPrograms : programs[i] = "test"}
                        /\ \A j, k \in DOMAIN listed : j < k => listed[j] < listed[k]
      BY DEF TestsListed
    <2>1. ListedBefore(NPrograms + 1)
      BY DEF ListBook
    <2>2. \A k \in DOMAIN listed : listed[k] \in 1..NPrograms
      BY ListedArePrograms
    <2>3. \A i \in 1..NPrograms : i < NPrograms + 1
      BY ProgramsAssumption DEF ProgramsAssumption
    <2>4. \A i : i \in Range(listed) <=> \E k \in DOMAIN listed : listed[k] = i
      BY DEF Range
    <2> QED
      BY <2>1, <2>2, <2>3, <2>4 DEF ListedBefore
  <1> QED
    BY <1>1, AlwaysSInv, AlwaysListBook, PTL

\* Whatever the generators and their lengths, the argument sets that a test gets
\* are different, and in the end all combinations have been returned, although
\* the positions are advanced one by one, with a break, and nothing but the
\* number of sets says when to stop (arguments.py 76-118).
THEOREM EveryCombinationOnceTheorem == Spec => []EveryCombinationOnce
  <1>1. ASSUME SInv, GeneratorBook, EnumerationBook
        PROVE  EveryCombinationOnce
    <2>1. CASE ~initialized
      <3>1. returned = <<>> /\ initialized = FALSE
        BY <1>1, <2>1 DEF EnumerationBook, GeneratorBook
      <3>2. DOMAIN returned = {}
        BY <3>1
      <3> QED
        BY <3>1, <3>2 DEF EveryCombinationOnce
    <2>2. CASE initialized
      <3> DEFINE n == items
                 all == {p \in [Gens -> 0..MaxLines] : \A k \in Gens : p[k] < items[k]}
      <3>0. NGens \in Nat /\ MaxLines \in Nat
        BY ArgumentsAssumption DEF ArgumentsAssumption
      <3>1. n \in Lengths
        BY <2>2, LengthsAre, <1>1 DEF SInv, GeneratorBook
      <3>2. /\ globalidx \in 0..Product(n) /\ Product(n) = Weight(n)[NGens]
            /\ Product(n) \in Nat
            /\ returned \in Seq(Positions(n)) /\ Len(returned) = globalidx
            /\ \A i \in 1..globalidx : Value(returned[i], n)[NGens] = i - 1
            /\ combinations = Product(n)
        BY <1>1, <2>2, <3>0, <3>1, WeightProperties DEF EnumerationBook, Enumerated
      <3>3. /\ DOMAIN returned = 1..globalidx /\ globalidx \in Nat
            /\ \A i \in 1..globalidx : returned[i] \in Positions(n)
        BY <3>2
      <3>4. ASSUME NEW i \in DOMAIN returned, NEW j \in DOMAIN returned, i # j
            PROVE  returned[i] # returned[j]
        <4>1. i - 1 # j - 1
          BY <3>3, <3>4
        <4> QED
          BY <3>2, <3>3, <4>1
      <3>5. all = Positions(n)
        <4>1. \A k \in Gens : items[k] \in 0..MaxLines
          BY <1>1 DEF SInv, TypeOK
        <4>2. ASSUME NEW p \in Positions(n)
              PROVE  p \in [Gens -> 0..MaxLines]
          <5>1. \A k \in Gens : p[k] \in Nat /\ p[k] < items[k]
            BY DEF Positions
          <5>2. \A k \in Gens : p[k] \in 0..MaxLines
            BY <3>0, <4>1, <5>1
          <5> QED
            BY <5>2 DEF Positions
        <4>3. ASSUME NEW p \in all
              PROVE  p \in [Gens -> Nat]
          BY <3>0
        <4> QED
          BY <4>2, <4>3 DEF Positions
      <3>6. ASSUME globalidx = combinations
            PROVE  Range(returned) = Positions(n)
        <4>1. ASSUME NEW p \in Positions(n)
              PROVE  p \in Range(returned)
          <5> DEFINE i == Value(p, n)[NGens] + 1
          <5>1. Value(p, n)[NGens] \in Nat /\ Value(p, n)[NGens] < Product(n)
            <6>1. NGens \in 0..NGens /\ p \in [Gens -> Nat]
              BY <3>0 DEF Positions
            <6>2. Value(p, n) \in [0..NGens -> Nat]
              BY <3>1, <6>1, ValueProperties
            <6>3. Value(p, n)[NGens] < Weight(n)[NGens]
              BY <3>1, <6>1, ValueBounded
            <6> QED
              BY <3>2, <6>1, <6>2, <6>3
          <5>2. i \in 1..globalidx /\ i - 1 = Value(p, n)[NGens]
            BY <3>2, <3>6, <5>1
          <5>3. Value(returned[i], n)[NGens] = Value(p, n)[NGens] /\ returned[i] \in Positions(n)
            BY <3>2, <3>3, <5>2
          <5>4. returned[i] = p
            BY <3>1, <5>3, ValueIsInjective
          <5> QED
            BY <3>3, <5>2, <5>4 DEF Range
        <4>2. Range(returned) \subseteq Positions(n)
          BY <3>3 DEF Range
        <4> QED
          BY <4>1, <4>2
      <3> HIDE DEF all
      <3> QED
        BY <3>4, <3>5, <3>6 DEF EveryCombinationOnce, all
    <2>3. initialized \in BOOLEAN
      BY <1>1 DEF GeneratorBook
    <2> QED
      BY <2>1, <2>2
  <1> QED
    BY <1>1, AlwaysSInv, AlwaysEnumerationBook, PTL

-----------------------------------------------------------------------------
(* Opening a database: the books of the conversion.                        *)

\* Until where the tables go that rows are appended to, and what was opened: a
\* database that is converted, one that is created, one that is used as it is.
C0 == Len(origin.testclassinfo)
T0 == Len(origin.test)
N0(k) == Len(origin.names[k])
E0(k) == Len(origin.entries[k])
Old == origin.version \in {1, 2}
Fresh == origin.version = 0
Current == origin.version \in {3, 4}

HasVersion == "version" \in disk.parts
HasTables == "version" \in disk.parts /\ "tables" \in disk.parts
HasBlobs == "class blobs" \in disk.parts

\* The statements that come after one of a kind, once the tables are altered.
AfterSelect == {"environment", "insert variables"}
AfterSubtests == {"select environment"} \cup AfterSelect
AfterEntries == {"mark subtest", "mark scenario"} \cup AfterSubtests
AfterNames == {"move entry"} \cup AfterEntries
AfterContainers == {"move name"} \cup AfterNames
AfterMonitors == {"name containers"} \cup AfterContainers
AfterClasses == {"move monitor"} \cup AfterMonitors
Moving == {"move class"} \cup AfterClasses
Dropping == {"drop mnames", "drop subtests", "drop monitor", "drop monitorclassinfo",
             "drop mentries"}
ConvertOps == Dropping \cup Moving
ReadOps == {"alter"} \cup ConvertOps
UpdateOps == {"create type index", "read"} \cup ReadOps
Ops == {"none", "create"} \cup UpdateOps
Mappings == [class : Seq(Nat), test : Seq(Nat), name : [Dictionaries -> Seq(Nat)]]
Statements == [op : Ops, kind : Dictionaries, row : Nat]

Converting == prog = "opening" /\ stmt.op \in ConvertOps

\* The rows of the tables.
SameRows(w, d) ==
    /\ w.testclassinfo = d.testclassinfo /\ w.test = d.test
    /\ w.names = d.names /\ w.entries = d.entries
    /\ w.monitorclassinfo = d.monitorclassinfo /\ w.monitor = d.monitor
    /\ w.mnames = d.mnames /\ w.mentries = d.mentries /\ w.subtests = d.subtests

\* What was there.
OriginBook ==
    /\ IsOld(origin)
    /\ Old \/ Fresh \/ Current
    /\ ~Old => origin.monitor = <<>>

\* What follows row n of t are the first rows of more.
Appended(t, n, more) ==
    /\ Len(t) \in n..(n + Len(more))
    /\ \A i \in (n + 1)..Len(t) : t[i] = more[i - n]

\* The four tables that rows are appended to: first what was in them, then
\* what was in the table of the monitors.
ClassBook ==
    /\ Appended(disk.testclassinfo, C0, origin.monitorclassinfo)
    /\ \A i \in 1..C0 : disk.testclassinfo[i] = origin.testclassinfo[i]

Moved(m) == [type |-> C0 + m.type, parent |-> m.testid,
             ismonitor |-> TRUE, isscenario |-> FALSE]
MovedTests == [j \in 1..Len(origin.monitor) |-> Moved(origin.monitor[j])]
TestBook ==
    /\ Appended(disk.test, T0, MovedTests)
    /\ \A i \in 1..T0 : ~disk.test[i].ismonitor
    /\ Len(disk.test) > T0 =>
          Len(disk.testclassinfo) = C0 + Len(origin.monitorclassinfo)

TypeOf(n) == ByType(origin.testclassinfo[n.container[2]].type)
MovedName(n) == [container |-> ByType(origin.monitorclassinfo[n.container].type),
                 name |-> n.name]
MovedNames(k) == [j \in 1..Len(origin.mnames[k]) |-> MovedName(origin.mnames[k][j])]
NameBook(k) ==
    /\ Appended(disk.names[k], N0(k), MovedNames(k))
    /\ \A i \in 1..N0(k) :
          /\ disk.names[k][i].name = origin.names[k][i].name
          /\ \/ disk.names[k][i].container = origin.names[k][i].container
             \/ disk.names[k][i].container = TypeOf(origin.names[k][i])

MovedEntry(k, e) == [container |-> T0 + e.container, name |-> N0(k) + e.name]
MovedEntries(k) ==
    [j \in 1..Len(origin.mentries[k]) |-> MovedEntry(k, origin.mentries[k][j])]
EntryBook(k) ==
    /\ Appended(disk.entries[k], E0(k), MovedEntries(k))
    /\ \A i \in 1..E0(k) : disk.entries[k][i] = origin.entries[k][i]
    /\ Len(disk.entries[k]) > E0(k) =>
          /\ Len(disk.test) = T0 + Len(origin.monitor)
          /\ Len(disk.names[k]) = N0(k) + Len(origin.mnames[k])

TablesBook ==
    /\ disk \in Tables
    /\ ClassBook
    /\ TestBook
    /\ \A k \in Dictionaries : NameBook(k) /\ EntryBook(k)

\* How many rows are done, of those that op moves, when s is next.
Done(s, op, after, all) ==
    IF s.op = op THEN s.row - 1 ELSE IF s.op \in after THEN all ELSE 0
DoneOf(s, op, k, after, all) ==
    IF s.op = op /\ s.kind # k
    THEN IF k = "arguments" THEN all ELSE 0
    ELSE Done(s, op, after, all)

ClassesDone(s) == Done(s, "move class", AfterClasses, Len(origin.monitorclassinfo))
TestsDone(s) == Done(s, "move monitor", AfterMonitors, Len(origin.monitor))
NamesDone(s, k) == DoneOf(s, "move name", k, AfterNames, Len(origin.mnames[k]))
EntriesDone(s, k) == DoneOf(s, "move entry", k, AfterEntries, Len(origin.mentries[k]))
NamesTyped(s, k) ==
    \/ s.op \in AfterContainers
    \/ s.op = "name containers" /\ s.kind = "extrainfo" /\ k = "arguments"

\* The new ids: those of the rows from first + 1 to n.
Shifted(map, n, first) == map = [j \in 1..(n - first) |-> first + j]

Named(k) == \A i \in 1..N0(k) : disk.names[k][i].container = TypeOf(origin.names[k][i])
Marked(s) == disk.test[s.testid].parent = s.scenarioid /\ disk.test[s.scenarioid].isscenario

\* While the conversion goes on, the statement says how far the tables are.
ClassPlace ==
    /\ Len(disk.testclassinfo) = C0 + ClassesDone(stmt)
    /\ Shifted(mapping.class, Len(disk.testclassinfo), C0)
TestPlace ==
    /\ Len(disk.test) = T0 + TestsDone(stmt)
    /\ Shifted(mapping.test, Len(disk.test), T0)
NamePlace(k) ==
    /\ Len(disk.names[k]) = N0(k) + NamesDone(stmt, k)
    /\ Shifted(mapping.name[k], Len(disk.names[k]), N0(k))
    /\ NamesTyped(stmt, k) => Named(k)
EntryPlace(k) == Len(disk.entries[k]) = E0(k) + EntriesDone(stmt, k)
SubtestPlace ==
    /\ stmt.op \in {"mark subtest", "mark scenario"} =>
          /\ stmt.row <= Len(origin.subtests) + 1
          /\ \A j \in 1..(stmt.row - 1) : Marked(origin.subtests[j])
    /\ stmt.op = "mark scenario" =>
          /\ stmt.row <= Len(origin.subtests)
          /\ disk.test[origin.subtests[stmt.row].testid].parent
                = origin.subtests[stmt.row].scenarioid
    /\ stmt.op \in AfterSubtests =>
          \A j \in 1..Len(origin.subtests) : Marked(origin.subtests[j])

\* The environment: what is between two statements is said by the second.
Inserted == IF stmt.op = "insert variables" THEN {<<stmt.row, v>> : v \in Variables} ELSE {}
EnvPlace ==
    /\ stmt.op \notin AfterSelect => disk.env = origin.env
    /\ stmt.op \in AfterSelect =>
          /\ Says(disk.env) \cup Inserted = Says(origin.env)
          /\ mem.env \subseteq disk.env
          /\ \A r \in disk.env : r.text \/ r \in mem.env

MemBook ==
    /\ mem \in Tables
    /\ SameRows(mem, origin)

PlaceBook ==
    /\ MemBook
    /\ stmt.op # "insert variables" => stmt.row # 0
    /\ ClassPlace /\ TestPlace
    /\ \A k \in Dictionaries : NamePlace(k) /\ EntryPlace(k)
    /\ SubtestPlace /\ EnvPlace

\* Everything has been moved.
Whole ==
    /\ Len(disk.testclassinfo) = C0 + Len(origin.monitorclassinfo)
    /\ Len(disk.test) = T0 + Len(origin.monitor)
    /\ \A k \in Dictionaries :
          /\ Named(k)
          /\ Len(disk.names[k]) = N0(k) + Len(origin.mnames[k])
          /\ Len(disk.entries[k]) = E0(k) + Len(origin.mentries[k])
    /\ \A j \in 1..Len(origin.subtests) : Marked(origin.subtests[j])
    /\ Says(disk.env) = Says(origin.env)
    /\ \A r \in disk.env : r.text

\* The tables have been altered, now or in an earlier attempt.
Begun == Old /\ ~HasBlobs

\* The program.
ProgBook ==
    /\ prog \in {"idle", "opening", "ready", "raised"}
    /\ stmt \in Statements /\ mapping \in Mappings
    /\ prog = "idle" => mapping = NoMapping
    /\ prog = "opening" =>
          /\ Old => stmt.op \in UpdateOps
          /\ ~Old => stmt.op = "create"
          /\ stmt.op \notin Moving => mapping = NoMapping
          /\ stmt.op \notin ReadOps => mapping = NoMapping
          /\ stmt.op = "alter" => ~Begun
          /\ stmt.op \in ConvertOps => Begun
          /\ stmt.op \in ReadOps => PlaceBook

\* Before that nothing is touched; a conversion that is not killed is whole
\* when it ends.
LostBook ==
    /\ ~Begun => SameRows(disk, origin) /\ disk.env = origin.env
    /\ kills = 0 /\ Begun /\ ~Converting => Whole

\* The version says which tables are there.
VersionBook ==
    /\ kills \in Nat
    /\ Old => /\ disk.version = origin.version
              /\ HasTables
              /\ prog # "ready"
    /\ Current => /\ disk = origin
                             /\ HasTables
                             /\ prog # "opening"
    /\ Fresh =>
          /\ disk.version \in {0, 3}
          /\ disk.version = 3 => HasTables
          /\ prog = "ready" => disk.version = 3
          /\ prog = "opening" =>
                /\ disk.version = 0
                /\ stmt.row \in 1..3
                /\ stmt.row > 1 => HasVersion
                /\ stmt.row > 2 => HasTables

ConvInv == OriginBook /\ TablesBook /\ ProgBook /\ LostBook /\ VersionBook

-----------------------------------------------------------------------------
(* A row, a table: what one statement changes of the database.             *)

LEMMA Set_version ==
    ASSUME NEW d \in Tables, NEW x \in Nat
    PROVE  LET w == [d EXCEPT !.version = x] IN
           /\ w \in Tables /\ w.version = x
           /\ w.parts = d.parts /\ w.testclassinfo = d.testclassinfo /\ w.test = d.test
           /\ w.names = d.names /\ w.entries = d.entries /\ w.env = d.env
           /\ w.monitorclassinfo = d.monitorclassinfo /\ w.monitor = d.monitor /\ w.mnames = d.mnames
           /\ w.mentries = d.mentries /\ w.subtests = d.subtests
BY DEF Tables

LEMMA Set_parts ==
    ASSUME NEW d \in Tables, NEW x \in SUBSET Parts
    PROVE  LET w == [d EXCEPT !.parts = x] IN
           /\ w \in Tables /\ w.parts = x
           /\ w.version = d.version /\ w.testclassinfo = d.testclassinfo /\ w.test = d.test
           /\ w.names = d.names /\ w.entries = d.entries /\ w.env = d.env
           /\ w.monitorclassinfo = d.monitorclassinfo /\ w.monitor = d.monitor /\ w.mnames = d.mnames
           /\ w.mentries = d.mentries /\ w.subtests = d.subtests
BY DEF Tables

LEMMA Set_testclassinfo ==
    ASSUME NEW d \in Tables, NEW x \in Seq(ClassRows)
    PROVE  LET w == [d EXCEPT !.testclassinfo = x] IN
           /\ w \in Tables /\ w.testclassinfo = x
           /\ w.version = d.version /\ w.parts = d.parts /\ w.test = d.test
           /\ w.names = d.names /\ w.entries = d.entries /\ w.env = d.env
           /\ w.monitorclassinfo = d.monitorclassinfo /\ w.monitor = d.monitor /\ w.mnames = d.mnames
           /\ w.mentries = d.mentries /\ w.subtests = d.subtests
BY DEF Tables

LEMMA Set_test ==
    ASSUME NEW d \in Tables, NEW x \in Seq(TestRows)
    PROVE  LET w == [d EXCEPT !.test = x] IN
           /\ w \in Tables /\ w.test = x
           /\ w.version = d.version /\ w.parts = d.parts /\ w.testclassinfo = d.testclassinfo
           /\ w.names = d.names /\ w.entries = d.entries /\ w.env = d.env
           /\ w.monitorclassinfo = d.monitorclassinfo /\ w.monitor = d.monitor /\ w.mnames = d.mnames
           /\ w.mentries = d.mentries /\ w.subtests = d.subtests
BY DEF Tables

LEMMA Set_names ==
    ASSUME NEW d \in Tables, NEW x \in [Dictionaries -> Seq(NameRows)]
    PROVE  LET w == [d EXCEPT !.names = x] IN
           /\ w \in Tables /\ w.names = x
           /\ w.version = d.version /\ w.parts = d.parts /\ w.testclassinfo = d.testclassinfo
           /\ w.test = d.test /\ w.entries = d.entries /\ w.env = d.env
           /\ w.monitorclassinfo = d.monitorclassinfo /\ w.monitor = d.monitor /\ w.mnames = d.mnames
           /\ w.mentries = d.mentries /\ w.subtests = d.subtests
BY DEF Tables

LEMMA Set_entries ==
    ASSUME NEW d \in Tables, NEW x \in [Dictionaries -> Seq(EntryRows)]
    PROVE  LET w == [d EXCEPT !.entries = x] IN
           /\ w \in Tables /\ w.entries = x
           /\ w.version = d.version /\ w.parts = d.parts /\ w.testclassinfo = d.testclassinfo
           /\ w.test = d.test /\ w.names = d.names /\ w.env = d.env
           /\ w.monitorclassinfo = d.monitorclassinfo /\ w.monitor = d.monitor /\ w.mnames = d.mnames
           /\ w.mentries = d.mentries /\ w.subtests = d.subtests
BY DEF Tables

LEMMA Set_env ==
    ASSUME NEW d \in Tables, NEW x \in SUBSET EnvRows
    PROVE  LET w == [d EXCEPT !.env = x] IN
           /\ w \in Tables /\ w.env = x
           /\ w.version = d.version /\ w.parts = d.parts /\ w.testclassinfo = d.testclassinfo
           /\ w.test = d.test /\ w.names = d.names /\ w.entries = d.entries
           /\ w.monitorclassinfo = d.monitorclassinfo /\ w.monitor = d.monitor /\ w.mnames = d.mnames
           /\ w.mentries = d.mentries /\ w.subtests = d.subtests
BY DEF Tables

LEMMA Set_monitorclassinfo ==
    ASSUME NEW d \in Tables, NEW x \in Seq(ClassRows)
    PROVE  LET w == [d EXCEPT !.monitorclassinfo = x] IN
           /\ w \in Tables /\ w.monitorclassinfo = x
           /\ w.version = d.version /\ w.parts = d.parts /\ w.testclassinfo = d.testclassinfo
           /\ w.test = d.test /\ w.names = d.names /\ w.entries = d.entries
           /\ w.env = d.env /\ w.monitor = d.monitor /\ w.mnames = d.mnames
           /\ w.mentries = d.mentries /\ w.subtests = d.subtests
BY DEF Tables

LEMMA Set_monitor ==
    ASSUME NEW d \in Tables, NEW x \in Seq(MonitorRows)
    PROVE  LET w == [d EXCEPT !.monitor = x] IN
           /\ w \in Tables /\ w.monitor = x
           /\ w.version = d.version /\ w.parts = d.parts /\ w.testclassinfo = d.testclassinfo
           /\ w.test = d.test /\ w.names = d.names /\ w.entries = d.entries
           /\ w.env = d.env /\ w.monitorclassinfo = d.monitorclassinfo /\ w.mnames = d.mnames
           /\ w.mentries = d.mentries /\ w.subtests = d.subtests
BY DEF Tables

LEMMA Set_mnames ==
    ASSUME NEW d \in Tables, NEW x \in [Dictionaries -> Seq(MonitorNameRows)]
    PROVE  LET w == [d EXCEPT !.mnames = x] IN
           /\ w \in Tables /\ w.mnames = x
           /\ w.version = d.version /\ w.parts = d.parts /\ w.testclassinfo = d.testclassinfo
           /\ w.test = d.test /\ w.names = d.names /\ w.entries = d.entries
           /\ w.env = d.env /\ w.monitorclassinfo = d.monitorclassinfo /\ w.monitor = d.monitor
           /\ w.mentries = d.mentries /\ w.subtests = d.subtests
BY DEF Tables

LEMMA Set_mentries ==
    ASSUME NEW d \in Tables, NEW x \in [Dictionaries -> Seq(EntryRows)]
    PROVE  LET w == [d EXCEPT !.mentries = x] IN
           /\ w \in Tables /\ w.mentries = x
           /\ w.version = d.version /\ w.parts = d.parts /\ w.testclassinfo = d.testclassinfo
           /\ w.test = d.test /\ w.names = d.names /\ w.entries = d.entries
           /\ w.env = d.env /\ w.monitorclassinfo = d.monitorclassinfo /\ w.monitor = d.monitor
           /\ w.mnames = d.mnames /\ w.subtests = d.subtests
BY DEF Tables

LEMMA Set_subtests ==
    ASSUME NEW d \in Tables, NEW x \in Seq(SubtestRows)
    PROVE  LET w == [d EXCEPT !.subtests = x] IN
           /\ w \in Tables /\ w.subtests = x
           /\ w.version = d.version /\ w.parts = d.parts /\ w.testclassinfo = d.testclassinfo
           /\ w.test = d.test /\ w.names = d.names /\ w.entries = d.entries
           /\ w.env = d.env /\ w.monitorclassinfo = d.monitorclassinfo /\ w.monitor = d.monitor
           /\ w.mnames = d.mnames /\ w.mentries = d.mentries
BY DEF Tables

LEMMA DictionariesAre ==
    /\ "arguments" \in Dictionaries /\ "extrainfo" \in Dictionaries
    /\ \A k \in Dictionaries : k = "arguments" \/ k = "extrainfo"
BY DEF Dictionaries

LEMMA FirstStatement ==
    ASSUME NEW op \in Ops
    PROVE  /\ First(op) \in Statements
           /\ First(op).op = op /\ First(op).kind = "arguments" /\ First(op).row = 1
  BY DictionariesAre DEF First, Statements

LEMMA NextStatement ==
    ASSUME stmt \in Statements
    PROVE  /\ NextRow \in Statements
           /\ NextRow.op = stmt.op /\ NextRow.kind = stmt.kind /\ NextRow.row = stmt.row + 1
BY DEF NextRow, Statements

LEMMA ThenStatement ==
    ASSUME stmt \in Statements, NEW op \in Ops
    PROVE  /\ Then(op) \in Statements /\ Then(op).row = 1
           /\ stmt.kind = "arguments" => Then(op).op = stmt.op /\ Then(op).kind = "extrainfo"
           /\ stmt.kind # "arguments" => Then(op).op = op /\ Then(op).kind = "arguments"
<1>1. CASE stmt.kind = "arguments"
  <2>0. stmt.op \in Ops
    BY DEF Statements
  <2>1. Then(op) = [First(stmt.op) EXCEPT !.kind = "extrainfo"]
    BY <1>1 DEF Then
  <2>2. Then(op) = [op |-> stmt.op, kind |-> "extrainfo", row |-> 1]
    BY <2>1 DEF First
  <2> QED
    BY <1>1, <2>0, <2>2, DictionariesAre DEF Statements
<1>2. CASE stmt.kind # "arguments"
  <2>1. Then(op) = First(op)
    BY <1>2 DEF Then
  <2> QED
    BY <1>2, <2>1, FirstStatement
<1> QED
  BY <1>1, <1>2

LEMMA RowsOf ==
    ASSUME NEW d \in Tables
    PROVE  /\ DOMAIN d.testclassinfo = 1..Len(d.testclassinfo) /\ Len(d.testclassinfo) \in Nat
           /\ DOMAIN d.test = 1..Len(d.test) /\ Len(d.test) \in Nat
           /\ DOMAIN d.monitorclassinfo = 1..Len(d.monitorclassinfo)
           /\ Len(d.monitorclassinfo) \in Nat
           /\ DOMAIN d.monitor = 1..Len(d.monitor) /\ Len(d.monitor) \in Nat
           /\ DOMAIN d.subtests = 1..Len(d.subtests) /\ Len(d.subtests) \in Nat
           /\ \A k \in Dictionaries :
                 /\ DOMAIN d.names[k] = 1..Len(d.names[k]) /\ Len(d.names[k]) \in Nat
                 /\ DOMAIN d.entries[k] = 1..Len(d.entries[k]) /\ Len(d.entries[k]) \in Nat
                 /\ DOMAIN d.mnames[k] = 1..Len(d.mnames[k]) /\ Len(d.mnames[k]) \in Nat
                 /\ DOMAIN d.mentries[k] = 1..Len(d.mentries[k]) /\ Len(d.mentries[k]) \in Nat
BY DEF Tables

LEMMA OriginStays ==
    ASSUME UNCHANGED origin
    PROVE  /\ C0' = C0 /\ T0' = T0 /\ MovedTests' = MovedTests
           /\ \A k : N0(k)' = N0(k) /\ E0(k)' = E0(k)
           /\ \A k : MovedNames(k)' = MovedNames(k) /\ MovedEntries(k)' = MovedEntries(k)
           /\ \A n : TypeOf(n)' = TypeOf(n)
<1>1. C0' = C0 /\ T0' = T0 /\ \A k : N0(k)' = N0(k) /\ E0(k)' = E0(k)
  BY DEF C0, T0, N0, E0
<1>2. MovedTests' = MovedTests
  BY <1>1 DEF MovedTests, Moved
<1>3. \A k : MovedNames(k)' = MovedNames(k)
  BY DEF MovedNames, MovedName
<1>4. \A k : MovedEntries(k)' = MovedEntries(k)
  BY <1>1 DEF MovedEntries, MovedEntry
<1>5. \A n : TypeOf(n)' = TypeOf(n)
  BY DEF TypeOf
<1> QED
  BY <1>1, <1>2, <1>3, <1>4, <1>5

\* Nothing is appended yet, one row is appended.
LEMMA NoneAppended ==
    ASSUME NEW t, Len(t) \in Nat, NEW more, Len(more) \in Nat
    PROVE  Appended(t, Len(t), more)
BY DEF Appended

\* Row x, the next one of more, comes to rows t.
CanGrow(S, t, x, n, more) ==
    /\ t \in Seq(S) /\ x \in S /\ n \in Nat /\ Len(more) \in Nat
    /\ Appended(t, n, more) /\ Len(t) < n + Len(more) /\ x = more[Len(t) + 1 - n]
Grown(S, t, x, n, more) ==
    /\ Append(t, x) \in Seq(S)
    /\ Len(Append(t, x)) = Len(t) + 1
    /\ Appended(Append(t, x), n, more)
    /\ \A i \in 1..n : Append(t, x)[i] = t[i]

LEMMA OneAppended ==
    ASSUME NEW S, NEW t, NEW x, NEW n, NEW more, CanGrow(S, t, x, n, more)
    PROVE  Grown(S, t, x, n, more)
<1>1. /\ Append(t, x) \in Seq(S) /\ Len(Append(t, x)) = Len(t) + 1
      /\ \A i \in 1..Len(t) : Append(t, x)[i] = t[i]
      /\ Append(t, x)[Len(t) + 1] = x
  BY AppendProperties DEF CanGrow
<1>2. Len(t) \in Nat /\ n <= Len(t) /\ n \in Nat
  BY DEF Appended, CanGrow
<1>3. ASSUME NEW i \in (n + 1)..Len(Append(t, x)) PROVE Append(t, x)[i] = more[i - n]
  BY <1>1, <1>2 DEF Appended, CanGrow
<1> QED
  BY <1>1, <1>2, <1>3 DEF Appended, CanGrow, Grown

LEMMA MovedLengths ==
    ASSUME origin \in Tables
    PROVE  /\ Len(MovedTests) = Len(origin.monitor)
           /\ \A k \in Dictionaries : /\ Len(MovedNames(k)) = Len(origin.mnames[k])
                                      /\ Len(MovedEntries(k)) = Len(origin.mentries[k])
BY RowsOf DEF MovedTests, MovedNames, MovedEntries

\* Nothing happens to the rows.
LEMMA RowsStay ==
    ASSUME OriginBook, TablesBook, UNCHANGED origin,
           disk' \in Tables,
           UNCHANGED <<disk.testclassinfo, disk.test, disk.names, disk.entries>>
    PROVE  OriginBook' /\ TablesBook'
<1>1. OriginBook'
  BY DEF OriginBook, Old, Fresh, Current
<1>2. /\ C0' = C0 /\ T0' = T0 /\ MovedTests' = MovedTests
      /\ \A k : N0(k)' = N0(k) /\ E0(k)' = E0(k)
      /\ \A k : MovedNames(k)' = MovedNames(k) /\ MovedEntries(k)' = MovedEntries(k)
      /\ \A n : TypeOf(n)' = TypeOf(n)
  BY OriginStays
<1>3. ClassBook' /\ TestBook'
  BY <1>2 DEF TablesBook, ClassBook, TestBook
<1>4. ASSUME NEW k \in Dictionaries PROVE NameBook(k)' /\ EntryBook(k)'
  <2>1. NameBook(k) /\ EntryBook(k)
    BY DEF TablesBook
  <2> QED
    BY <1>2, <2>1 DEF NameBook, EntryBook
<1> QED
  BY <1>1, <1>3, <1>4 DEF TablesBook

LEMMA WholeStays ==
    ASSUME Whole, UNCHANGED origin,
           UNCHANGED <<disk.testclassinfo, disk.test, disk.names, disk.entries, disk.env>>
    PROVE  Whole'
<1>1. C0' = C0 /\ T0' = T0 /\ \A k \in Dictionaries : N0(k)' = N0(k) /\ E0(k)' = E0(k)
  BY DEF C0, T0, N0, E0
<1>2. \A k \in Dictionaries : Named(k)'
  BY DEF Whole, Named, TypeOf, N0
<1>3. \A j \in 1..Len(origin.subtests) : Marked(origin.subtests[j])'
  BY DEF Whole, Marked
<1>4. Says(disk.env)' = Says(disk.env) /\ Says(origin.env)' = Says(origin.env)
  BY DEF Says
<1> QED
  BY <1>1, <1>2, <1>3, <1>4 DEF Whole

LEMMA EmptyTables == Empty \in Tables /\ IsOld(Empty)
<1>1. /\ NoRows \in [Dictionaries -> Seq(NameRows)]
      /\ NoRows \in [Dictionaries -> Seq(EntryRows)]
      /\ NoRows \in [Dictionaries -> Seq(MonitorNameRows)]
  BY DEF NoRows
<1>a. /\ <<>> \in Seq(ClassRows) /\ <<>> \in Seq(TestRows)
      /\ <<>> \in Seq(MonitorRows)
      /\ <<>> \in Seq(SubtestRows)
  OBVIOUS
<1>2. Empty \in Tables
  BY <1>1, <1>a DEF Empty, Tables
<1>3. /\ Empty.testclassinfo = <<>> /\ Empty.test = <<>> /\ Empty.monitor = <<>>
      /\ Empty.subtests = <<>> /\ Empty.env = {}
      /\ Empty.names = NoRows /\ Empty.entries = NoRows /\ Empty.mnames = NoRows
      /\ Empty.mentries = NoRows
  BY DEF Empty
<1>4. \A k \in Dictionaries : NoRows[k] = <<>>
  BY DEF NoRows
<1>5. DOMAIN <<>> = {}
  OBVIOUS
<1> QED
  BY <1>2, <1>3, <1>4, <1>5 DEF IsOld

LEMMA NoneMapped ==
    /\ NoMapping \in Mappings
    /\ NoMapping.class = <<>> /\ NoMapping.test = <<>>
    /\ \A k \in Dictionaries : NoMapping.name[k] = <<>>
<1>1. NoRows \in [Dictionaries -> Seq(Nat)] /\ \A k \in Dictionaries : NoRows[k] = <<>>
  BY DEF NoRows
<1>2. <<>> \in Seq(Nat)
  OBVIOUS
<1> QED
  BY <1>1, <1>2 DEF NoMapping, Mappings

\* A database with another version and parts.
LEMMA Relabelled ==
    ASSUME NEW d \in Tables, NEW v \in Nat, NEW p \in SUBSET Parts
    PROVE  LET w == Labelled(d, v, p) IN
           /\ w \in Tables /\ w.version = v /\ w.parts = p
           /\ SameRows(w, d) /\ w.env = d.env
BY DEF Tables, SameRows, Labelled

LEMMA SameRowsAreOld ==
    ASSUME NEW d, IsOld(d), NEW w \in Tables, SameRows(w, d), w.env = d.env
    PROVE  IsOld(w)
BY DEF IsOld, SameRows

\* The tables of d, in a database of some version.
SetUpFrom(d) ==
    /\ disk \in Tables /\ SameRows(disk, d) /\ disk.env = d.env
    /\ \/ disk.version = 0 /\ d = Empty
       \/ disk.version \in {3, 4} /\ d = Empty /\ HasTables
       \/ disk.version \in {1, 2} /\ HasTables /\ HasBlobs

LEMMA InitConvInv == OpenInit => ConvInv
<1> SUFFICES ASSUME OpenInit PROVE ConvInv
  OBVIOUS
<1>1. \E d \in {Empty} \cup OldDatabases : SetUpFrom(d)
  <2>1. CASE disk = Empty
    <3>1. Empty.version = 0
      BY DEF Empty
    <3>2. SetUpFrom(Empty)
      BY <2>1, <3>1, EmptyTables DEF SetUpFrom, SameRows
    <3> QED
      BY <3>2
  <2>a. ASSUME NEW d \in Tables, NEW v \in Nat, NEW p \in SUBSET Parts,
               disk = Labelled(d, v, p)
        PROVE  /\ disk \in Tables /\ SameRows(disk, d) /\ disk.env = d.env
               /\ disk.version = v /\ disk.parts = p
    BY <2>a, Relabelled
  <2>2. ASSUME NEW v \in {DB_SCHEME_VERSION, DB_SCHEME_VERSION + 1},
               disk = Labelled(Empty, v, {"version", "tables"})
        PROVE  SetUpFrom(Empty)
    <3>1. v \in {3, 4} /\ v \in Nat /\ {"version", "tables"} \in SUBSET Parts
      BY DEF Parts, DB_SCHEME_VERSION
    <3>2. disk \in Tables /\ SameRows(disk, Empty) /\ disk.env = Empty.env
          /\ disk.version = v /\ disk.parts = {"version", "tables"}
      BY <2>a, <2>2, <3>1, EmptyTables
    <3> QED
      BY <3>1, <3>2 DEF SetUpFrom, HasTables, HasBlobs
  <2>3. ASSUME NEW d \in OldDatabases, disk = Labelled(d, 1, Parts \ {"type index"})
        PROVE  SetUpFrom(d)
    <3>a. "version" \in Parts \ {"type index"} /\ "tables" \in Parts \ {"type index"} /\ "class blobs" \in Parts \ {"type index"}
      BY DEF Parts
    <3>1. d \in Tables
      BY OldDatabasesAssumption DEF IsOld
    <3>2. disk \in Tables /\ SameRows(disk, d) /\ disk.env = d.env
          /\ disk.version = 1 /\ disk.parts = Parts \ {"type index"}
      <4>1. Parts \ {"type index"} \in SUBSET Parts /\ 1 \in Nat
        OBVIOUS
      <4> QED
        BY <2>a, <2>3, <3>1, <4>1
    <3> QED
      BY <3>a, <3>2 DEF SetUpFrom, HasTables, HasBlobs
  <2>4. ASSUME NEW d \in OldDatabases, disk = Labelled(d, 2, Parts)
        PROVE  SetUpFrom(d)
    <3>1. d \in Tables /\ "version" \in Parts /\ "tables" \in Parts /\ "class blobs" \in Parts
      BY OldDatabasesAssumption DEF IsOld, Parts
    <3>2. disk \in Tables /\ SameRows(disk, d) /\ disk.env = d.env
          /\ disk.version = 2 /\ disk.parts = Parts
      BY <2>a, <2>4, <3>1
    <3> QED
      BY <3>1, <3>2 DEF SetUpFrom, HasTables, HasBlobs
  <2> QED
    BY <2>1, <2>2, <2>3, <2>4 DEF OpenInit
<1>a. PICK d : IsOld(d) /\ SetUpFrom(d)
  BY <1>1, EmptyTables, OldDatabasesAssumption
<1>3. /\ origin = disk /\ prog = "idle" /\ stmt = First("none") /\ mem = Empty
      /\ mapping = NoMapping /\ kills = 0
  BY DEF OpenInit
<1>d. origin = disk
  BY <1>3
<1>4. IsOld(disk) /\ disk \in Tables
  BY <1>a, SameRowsAreOld DEF SetUpFrom, HasTables, HasBlobs
<1>b. Empty.monitor = <<>>
  BY DEF Empty
<1>8. \/ disk.version = 0 /\ d = Empty
      \/ /\ disk.version \in {3, 4} /\ d = Empty
         /\ HasTables
      \/ /\ disk.version \in {1, 2}
         /\ HasTables
         /\ HasBlobs
  BY <1>a DEF SetUpFrom
<1>5. OriginBook
  <2>1. d = Empty => disk.monitor = <<>>
    BY <1>a, <1>b DEF SetUpFrom, SameRows
  <2> QED
    BY <1>d, <1>4, <1>8, <2>1 DEF OriginBook, Old, Fresh, Current
<1>c. \/ disk.version = 0
      \/ disk.version \in {3, 4} /\ HasTables
      \/ /\ disk.version \in {1, 2}
         /\ HasTables
         /\ HasBlobs
  BY <1>8, Zenon
<1>6. TablesBook
  <2>1. ClassBook /\ TestBook
    <3>1. /\ DOMAIN disk.test = 1..Len(disk.test)
          /\ Len(disk.testclassinfo) \in Nat /\ Len(disk.test) \in Nat
          /\ Len(disk.monitorclassinfo) \in Nat /\ Len(MovedTests) \in Nat
      BY <1>d, <1>4, RowsOf, MovedLengths
    <3>2. /\ Appended(disk.testclassinfo, C0, origin.monitorclassinfo)
          /\ Appended(disk.test, T0, MovedTests)
      BY <1>d, <3>1, NoneAppended DEF C0, T0
    <3>3. \A i \in 1..Len(disk.test) : ~disk.test[i].ismonitor
      BY <1>4, <3>1 DEF IsOld
    <3>4. ~(Len(disk.test) > T0)
      BY <1>d, <1>4 DEF T0, Tables
    <3> QED
      BY <1>d, <3>2, <3>3, <3>4 DEF ClassBook, TestBook, C0, T0
  <2>2. ASSUME NEW k \in Dictionaries PROVE NameBook(k) /\ EntryBook(k)
    <3>1. /\ Len(disk.names[k]) \in Nat /\ Len(disk.entries[k]) \in Nat
          /\ Len(MovedNames(k)) \in Nat /\ Len(MovedEntries(k)) \in Nat
      BY <1>d, <1>4, RowsOf, MovedLengths
    <3>2. /\ Appended(disk.names[k], N0(k), MovedNames(k))
          /\ Appended(disk.entries[k], E0(k), MovedEntries(k))
      BY <1>d, <3>1, NoneAppended DEF N0, E0
    <3>3. ~(Len(disk.entries[k]) > E0(k))
      BY <1>d, <1>4 DEF E0, Tables
    <3> QED
      BY <1>d, <3>2, <3>3 DEF NameBook, EntryBook, N0, E0
  <2> QED
    BY <1>4, <2>1, <2>2 DEF TablesBook
<1>7. ProgBook
  <2>1. First("none") \in Statements
    <3>1. "none" \in Ops
      BY DEF Ops
    <3> QED
      BY <3>1, FirstStatement
  <2>2. stmt = First("none") /\ prog = "idle" /\ mapping = NoMapping
    BY <1>3
  <2>3. stmt \in Statements
    BY <2>1, <2>2
  <2>4. NoMapping \in Mappings
    BY NoneMapped
  <2> QED
    BY <2>2, <2>3, <2>4 DEF ProgBook
<1>9. LostBook
  <2>1. ~Begun
    BY <1>c, <1>d DEF Begun, Old
  <2>2. SameRows(disk, origin) /\ disk.env = origin.env
    BY <1>d DEF SameRows
  <2> QED
    BY <2>1, <2>2 DEF LostBook
<1>10. VersionBook
  <2>1. prog = "idle" /\ kills = 0
    BY <1>3
  <2> QED
    BY <1>c, <1>d, <2>1 DEF VersionBook, Old, Fresh, Current
<1> QED
  BY <1>5, <1>6, <1>7, <1>9, <1>10 DEF ConvInv

-----------------------------------------------------------------------------
(* Where each statement of the program stands in the order of the others.  *)

\* The statements in their order: how much is done at each of them.
LEMMA AtDropping ==
    ASSUME NEW s \in Statements, s.op \in {"alter"} \cup Dropping
    PROVE  /\ ClassesDone(s) = 0 /\ TestsDone(s) = 0
           /\ \A k \in Dictionaries :
                 /\ NamesDone(s, k) = 0
                 /\ EntriesDone(s, k) = 0
                 /\ ~NamesTyped(s, k)
           /\ s.op \notin {"mark subtest", "mark scenario"} \cup AfterSubtests
           /\ s.op \notin AfterSelect
           /\ s.op # "insert variables"
<1>1. /\ s.op \notin AfterClasses
      /\ s.op \notin AfterMonitors
      /\ s.op \notin AfterContainers
      /\ s.op \notin AfterNames
      /\ s.op \notin AfterEntries
      /\ s.op # "move class"
      /\ s.op # "move monitor"
      /\ s.op # "name containers"
      /\ s.op # "move name"
      /\ s.op # "move entry"
      /\ s.op \notin {"mark subtest", "mark scenario"} \cup AfterSubtests
      /\ s.op \notin AfterSelect
      /\ s.op # "insert variables"
  BY DEF Dropping, Moving, AfterClasses, AfterMonitors, AfterContainers, AfterNames,
         AfterEntries, AfterSubtests, AfterSelect
<1>2. ClassesDone(s) = 0 /\ TestsDone(s) = 0
  BY <1>1 DEF ClassesDone, TestsDone, Done
<1>3. ASSUME NEW k \in Dictionaries
      PROVE  /\ NamesDone(s, k) = 0
  BY <1>1, DictionariesAre DEF NamesDone, DoneOf, Done
<1>4. ASSUME NEW k \in Dictionaries
      PROVE  /\ EntriesDone(s, k) = 0
  BY <1>1, DictionariesAre DEF EntriesDone, DoneOf, Done
<1>5. ASSUME NEW k \in Dictionaries
      PROVE  /\ ~NamesTyped(s, k)
  BY <1>1, DictionariesAre DEF NamesTyped
<1> QED
  BY <1>1, <1>2, <1>3, <1>4, <1>5

LEMMA AtClass ==
    ASSUME NEW s \in Statements, s.op = "move class"
    PROVE  /\ ClassesDone(s) = s.row - 1 /\ TestsDone(s) = 0
           /\ \A k \in Dictionaries :
                 /\ NamesDone(s, k) = 0
                 /\ EntriesDone(s, k) = 0
                 /\ ~NamesTyped(s, k)
           /\ s.op \notin {"mark subtest", "mark scenario"} \cup AfterSubtests
           /\ s.op \notin AfterSelect
           /\ s.op # "insert variables"
<1>1. /\ s.op \notin AfterClasses
      /\ s.op \notin AfterMonitors
      /\ s.op \notin AfterContainers
      /\ s.op \notin AfterNames
      /\ s.op \notin AfterEntries
      /\ s.op # "move monitor"
      /\ s.op # "name containers"
      /\ s.op # "move name"
      /\ s.op # "move entry"
      /\ s.op \notin {"mark subtest", "mark scenario"} \cup AfterSubtests
      /\ s.op \notin AfterSelect
      /\ s.op # "insert variables"
  BY DEF Dropping, Moving, AfterClasses, AfterMonitors, AfterContainers, AfterNames,
         AfterEntries, AfterSubtests, AfterSelect
<1>2. ClassesDone(s) = s.row - 1 /\ TestsDone(s) = 0
  BY <1>1 DEF ClassesDone, TestsDone, Done
<1>3. ASSUME NEW k \in Dictionaries
      PROVE  /\ NamesDone(s, k) = 0
  BY <1>1, DictionariesAre DEF NamesDone, DoneOf, Done
<1>4. ASSUME NEW k \in Dictionaries
      PROVE  /\ EntriesDone(s, k) = 0
  BY <1>1, DictionariesAre DEF EntriesDone, DoneOf, Done
<1>5. ASSUME NEW k \in Dictionaries
      PROVE  /\ ~NamesTyped(s, k)
  BY <1>1, DictionariesAre DEF NamesTyped
<1> QED
  BY <1>1, <1>2, <1>3, <1>4, <1>5

LEMMA AtMonitor ==
    ASSUME NEW s \in Statements, s.op = "move monitor"
    PROVE  /\ ClassesDone(s) = Len(origin.monitorclassinfo) /\ TestsDone(s) = s.row - 1
           /\ \A k \in Dictionaries :
                 /\ NamesDone(s, k) = 0
                 /\ EntriesDone(s, k) = 0
                 /\ ~NamesTyped(s, k)
           /\ s.op \notin {"mark subtest", "mark scenario"} \cup AfterSubtests
           /\ s.op \notin AfterSelect
           /\ s.op # "insert variables"
<1>1. /\ s.op \in AfterClasses
      /\ s.op \notin AfterMonitors
      /\ s.op \notin AfterContainers
      /\ s.op \notin AfterNames
      /\ s.op \notin AfterEntries
      /\ s.op # "move class"
      /\ s.op # "name containers"
      /\ s.op # "move name"
      /\ s.op # "move entry"
      /\ s.op \notin {"mark subtest", "mark scenario"} \cup AfterSubtests
      /\ s.op \notin AfterSelect
      /\ s.op # "insert variables"
  BY DEF Dropping, Moving, AfterClasses, AfterMonitors, AfterContainers, AfterNames,
         AfterEntries, AfterSubtests, AfterSelect
<1>2. ClassesDone(s) = Len(origin.monitorclassinfo) /\ TestsDone(s) = s.row - 1
  BY <1>1 DEF ClassesDone, TestsDone, Done
<1>3. ASSUME NEW k \in Dictionaries
      PROVE  /\ NamesDone(s, k) = 0
  BY <1>1, DictionariesAre DEF NamesDone, DoneOf, Done
<1>4. ASSUME NEW k \in Dictionaries
      PROVE  /\ EntriesDone(s, k) = 0
  BY <1>1, DictionariesAre DEF EntriesDone, DoneOf, Done
<1>5. ASSUME NEW k \in Dictionaries
      PROVE  /\ ~NamesTyped(s, k)
  BY <1>1, DictionariesAre DEF NamesTyped
<1> QED
  BY <1>1, <1>2, <1>3, <1>4, <1>5

LEMMA AtContainers ==
    ASSUME NEW s \in Statements, s.op = "name containers"
    PROVE  /\ ClassesDone(s) = Len(origin.monitorclassinfo) /\ TestsDone(s) = Len(origin.monitor)
           /\ \A k \in Dictionaries :
                 /\ NamesDone(s, k) = 0
                 /\ EntriesDone(s, k) = 0
                 /\ NamesTyped(s, k) <=> s.kind = "extrainfo" /\ k = "arguments"
           /\ s.op \notin {"mark subtest", "mark scenario"} \cup AfterSubtests
           /\ s.op \notin AfterSelect
           /\ s.op # "insert variables"
<1>1. /\ s.op \in AfterClasses
      /\ s.op \in AfterMonitors
      /\ s.op \notin AfterContainers
      /\ s.op \notin AfterNames
      /\ s.op \notin AfterEntries
      /\ s.op # "move class"
      /\ s.op # "move monitor"
      /\ s.op # "move name"
      /\ s.op # "move entry"
      /\ s.op \notin {"mark subtest", "mark scenario"} \cup AfterSubtests
      /\ s.op \notin AfterSelect
      /\ s.op # "insert variables"
  BY DEF Dropping, Moving, AfterClasses, AfterMonitors, AfterContainers, AfterNames,
         AfterEntries, AfterSubtests, AfterSelect
<1>2. ClassesDone(s) = Len(origin.monitorclassinfo) /\ TestsDone(s) = Len(origin.monitor)
  BY <1>1 DEF ClassesDone, TestsDone, Done
<1>3. ASSUME NEW k \in Dictionaries
      PROVE  /\ NamesDone(s, k) = 0
  BY <1>1, DictionariesAre DEF NamesDone, DoneOf, Done
<1>4. ASSUME NEW k \in Dictionaries
      PROVE  /\ EntriesDone(s, k) = 0
  BY <1>1, DictionariesAre DEF EntriesDone, DoneOf, Done
<1>5. ASSUME NEW k \in Dictionaries
      PROVE  /\ NamesTyped(s, k) <=> s.kind = "extrainfo" /\ k = "arguments"
  BY <1>1, DictionariesAre DEF NamesTyped
<1> QED
  BY <1>1, <1>2, <1>3, <1>4, <1>5

LEMMA AtName ==
    ASSUME NEW s \in Statements, s.op = "move name"
    PROVE  /\ ClassesDone(s) = Len(origin.monitorclassinfo) /\ TestsDone(s) = Len(origin.monitor)
           /\ \A k \in Dictionaries :
                 /\ s.kind = k => NamesDone(s, k) = s.row - 1
                 /\ s.kind = "extrainfo" /\ k = "arguments" => NamesDone(s, k) = Len(origin.mnames[k])
                 /\ s.kind = "arguments" /\ k = "extrainfo" => NamesDone(s, k) = 0
                 /\ EntriesDone(s, k) = 0
                 /\ NamesTyped(s, k)
           /\ s.op \notin {"mark subtest", "mark scenario"} \cup AfterSubtests
           /\ s.op \notin AfterSelect
           /\ s.op # "insert variables"
<1>1. /\ s.op \in AfterClasses
      /\ s.op \in AfterMonitors
      /\ s.op \in AfterContainers
      /\ s.op \notin AfterNames
      /\ s.op \notin AfterEntries
      /\ s.op # "move class"
      /\ s.op # "move monitor"
      /\ s.op # "name containers"
      /\ s.op # "move entry"
      /\ s.op \notin {"mark subtest", "mark scenario"} \cup AfterSubtests
      /\ s.op \notin AfterSelect
      /\ s.op # "insert variables"
  BY DEF Dropping, Moving, AfterClasses, AfterMonitors, AfterContainers, AfterNames,
         AfterEntries, AfterSubtests, AfterSelect
<1>2. ClassesDone(s) = Len(origin.monitorclassinfo) /\ TestsDone(s) = Len(origin.monitor)
  BY <1>1 DEF ClassesDone, TestsDone, Done
<1>3. ASSUME NEW k \in Dictionaries
      PROVE  /\ s.kind = k => NamesDone(s, k) = s.row - 1
             /\ s.kind = "extrainfo" /\ k = "arguments" => NamesDone(s, k) = Len(origin.mnames[k])
             /\ s.kind = "arguments" /\ k = "extrainfo" => NamesDone(s, k) = 0
  BY <1>1, DictionariesAre DEF NamesDone, DoneOf, Done
<1>4. ASSUME NEW k \in Dictionaries
      PROVE  /\ EntriesDone(s, k) = 0
  BY <1>1, DictionariesAre DEF EntriesDone, DoneOf, Done
<1>5. ASSUME NEW k \in Dictionaries
      PROVE  /\ NamesTyped(s, k)
  BY <1>1, DictionariesAre DEF NamesTyped
<1> QED
  BY <1>1, <1>2, <1>3, <1>4, <1>5

LEMMA AtEntry ==
    ASSUME NEW s \in Statements, s.op = "move entry"
    PROVE  /\ ClassesDone(s) = Len(origin.monitorclassinfo) /\ TestsDone(s) = Len(origin.monitor)
           /\ \A k \in Dictionaries :
                 /\ NamesDone(s, k) = Len(origin.mnames[k])
                 /\ s.kind = k => EntriesDone(s, k) = s.row - 1
                 /\ s.kind = "extrainfo" /\ k = "arguments" => EntriesDone(s, k) = Len(origin.mentries[k])
                 /\ s.kind = "arguments" /\ k = "extrainfo" => EntriesDone(s, k) = 0
                 /\ NamesTyped(s, k)
           /\ s.op \notin {"mark subtest", "mark scenario"} \cup AfterSubtests
           /\ s.op \notin AfterSelect
           /\ s.op # "insert variables"
<1>1. /\ s.op \in AfterClasses
      /\ s.op \in AfterMonitors
      /\ s.op \in AfterContainers
      /\ s.op \in AfterNames
      /\ s.op \notin AfterEntries
      /\ s.op # "move class"
      /\ s.op # "move monitor"
      /\ s.op # "name containers"
      /\ s.op # "move name"
      /\ s.op \notin {"mark subtest", "mark scenario"} \cup AfterSubtests
      /\ s.op \notin AfterSelect
      /\ s.op # "insert variables"
  BY DEF Dropping, Moving, AfterClasses, AfterMonitors, AfterContainers, AfterNames,
         AfterEntries, AfterSubtests, AfterSelect
<1>2. ClassesDone(s) = Len(origin.monitorclassinfo) /\ TestsDone(s) = Len(origin.monitor)
  BY <1>1 DEF ClassesDone, TestsDone, Done
<1>3. ASSUME NEW k \in Dictionaries
      PROVE  /\ NamesDone(s, k) = Len(origin.mnames[k])
  BY <1>1, DictionariesAre DEF NamesDone, DoneOf, Done
<1>4. ASSUME NEW k \in Dictionaries
      PROVE  /\ s.kind = k => EntriesDone(s, k) = s.row - 1
             /\ s.kind = "extrainfo" /\ k = "arguments" => EntriesDone(s, k) = Len(origin.mentries[k])
             /\ s.kind = "arguments" /\ k = "extrainfo" => EntriesDone(s, k) = 0
  BY <1>1, DictionariesAre DEF EntriesDone, DoneOf, Done
<1>5. ASSUME NEW k \in Dictionaries
      PROVE  /\ NamesTyped(s, k)
  BY <1>1, DictionariesAre DEF NamesTyped
<1> QED
  BY <1>1, <1>2, <1>3, <1>4, <1>5

LEMMA AtEnd ==
    ASSUME NEW s \in Statements, s.op \in AfterEntries
    PROVE  /\ ClassesDone(s) = Len(origin.monitorclassinfo) /\ TestsDone(s) = Len(origin.monitor)
           /\ \A k \in Dictionaries :
                 /\ NamesDone(s, k) = Len(origin.mnames[k])
                 /\ EntriesDone(s, k) = Len(origin.mentries[k])
                 /\ NamesTyped(s, k)
<1>1. /\ s.op \in AfterClasses
      /\ s.op \in AfterMonitors
      /\ s.op \in AfterContainers
      /\ s.op \in AfterNames
      /\ s.op \in AfterEntries
      /\ s.op # "move class"
      /\ s.op # "move monitor"
      /\ s.op # "name containers"
      /\ s.op # "move name"
      /\ s.op # "move entry"
  BY DEF Dropping, Moving, AfterClasses, AfterMonitors, AfterContainers, AfterNames,
         AfterEntries, AfterSubtests, AfterSelect
<1>2. ClassesDone(s) = Len(origin.monitorclassinfo) /\ TestsDone(s) = Len(origin.monitor)
  BY <1>1 DEF ClassesDone, TestsDone, Done
<1>3. ASSUME NEW k \in Dictionaries
      PROVE  /\ NamesDone(s, k) = Len(origin.mnames[k])
  BY <1>1, DictionariesAre DEF NamesDone, DoneOf, Done
<1>4. ASSUME NEW k \in Dictionaries
      PROVE  /\ EntriesDone(s, k) = Len(origin.mentries[k])
  BY <1>1, DictionariesAre DEF EntriesDone, DoneOf, Done
<1>5. ASSUME NEW k \in Dictionaries
      PROVE  /\ NamesTyped(s, k)
  BY <1>1, DictionariesAre DEF NamesTyped
<1> QED
  BY <1>1, <1>2, <1>3, <1>4, <1>5

-----------------------------------------------------------------------------
(* What a statement leaves as it was.                                      *)

LEMMA DoneStays ==
    ASSUME UNCHANGED origin
    PROVE  /\ ClassesDone(stmt)' = ClassesDone(stmt')
           /\ TestsDone(stmt)' = TestsDone(stmt')
           /\ \A k : /\ NamesDone(stmt, k)' = NamesDone(stmt', k)
                     /\ EntriesDone(stmt, k)' = EntriesDone(stmt', k)
                     /\ NamesTyped(stmt, k)' = NamesTyped(stmt', k)
BY DEF ClassesDone, TestsDone, NamesDone, EntriesDone, NamesTyped, Done, DoneOf

LEMMA ClassStays ==
    ASSUME ClassPlace, UNCHANGED <<origin, disk.testclassinfo, mapping.class>>,
           ClassesDone(stmt') = ClassesDone(stmt)
    PROVE  ClassPlace'
<1>1. C0' = C0 /\ ClassesDone(stmt)' = ClassesDone(stmt')
  BY OriginStays, DoneStays
<1> QED
  BY <1>1 DEF ClassPlace

LEMMA TestStays ==
    ASSUME TestPlace, UNCHANGED <<origin, mapping.test>>, Len(disk.test)' = Len(disk.test),
           TestsDone(stmt') = TestsDone(stmt)
    PROVE  TestPlace'
<1>1. T0' = T0 /\ TestsDone(stmt)' = TestsDone(stmt')
  BY OriginStays, DoneStays
<1> QED
  BY <1>1 DEF TestPlace

LEMMA NameStays ==
    ASSUME NEW k \in Dictionaries, NamePlace(k), UNCHANGED <<origin, mapping.name>>,
           Len(disk.names[k])' = Len(disk.names[k]),
           NamesDone(stmt', k) = NamesDone(stmt, k),
           NamesTyped(stmt', k) => Named(k)'
    PROVE  NamePlace(k)'
<1>1. N0(k)' = N0(k) /\ NamesDone(stmt, k)' = NamesDone(stmt', k)
      /\ NamesTyped(stmt, k)' = NamesTyped(stmt', k)
  BY OriginStays, DoneStays
<1> QED
  BY <1>1 DEF NamePlace

LEMMA NamedStays ==
    ASSUME NEW k, UNCHANGED <<origin, disk.names>>
    PROVE  Named(k)' = Named(k)
BY DEF Named, N0, TypeOf

LEMMA EntryStays ==
    ASSUME NEW k \in Dictionaries, EntryPlace(k), UNCHANGED <<origin, disk.entries>>,
           EntriesDone(stmt', k) = EntriesDone(stmt, k)
    PROVE  EntryPlace(k)'
<1>1. E0(k)' = E0(k) /\ EntriesDone(stmt, k)' = EntriesDone(stmt', k)
  BY OriginStays, DoneStays
<1> QED
  BY <1>1 DEF EntryPlace

LEMMA MemStays ==
    ASSUME MemBook, UNCHANGED <<origin, mem>>
    PROVE  MemBook'
BY DEF MemBook, SameRows

\* Before the subtests and the environment.
LEMMA SubtestLater ==
    ASSUME stmt'.op \notin {"mark subtest", "mark scenario"} \cup AfterSubtests
    PROVE  SubtestPlace'
<1>1. /\ stmt'.op \notin {"mark subtest", "mark scenario"} /\ stmt'.op # "mark scenario"
      /\ stmt'.op \notin AfterSubtests
  OBVIOUS
<1> QED
  BY <1>1 DEF SubtestPlace

LEMMA EnvLater ==
    ASSUME EnvPlace, stmt.op \notin AfterSelect, stmt'.op \notin AfterSelect,
           UNCHANGED <<origin, disk.env>>
    PROVE  EnvPlace'
BY DEF EnvPlace

LEMMA ShiftedNone ==
    ASSUME NEW n \in Nat
    PROVE  Shifted(<<>>, n, n)
<1>1. 1..(n - n) = {}
  OBVIOUS
<1> QED
  BY <1>1 DEF Shifted

LEMMA ShiftedOn ==
    ASSUME NEW n \in Nat, NEW c \in Nat, n <= c, NEW map, Shifted(map, c, n)
    PROVE  Shifted(Append(map, c + 1), c + 1, n)
<1>1. map = [j \in 1..(c - n) |-> n + j] /\ c - n \in Nat
  BY DEF Shifted
<1>2. map \in Seq(Nat) /\ Len(map) = c - n
  BY <1>1
<1> DEFINE new == Append(map, c + 1)
<1>3. /\ new \in Seq(Nat) /\ Len(new) = c - n + 1
      /\ \A j \in 1..(c - n) : new[j] = map[j]
      /\ new[c - n + 1] = c + 1
  BY <1>2, AppendProperties
<1>4. \A j \in 1..(c + 1 - n) : new[j] = n + j
  BY <1>1, <1>3
<1>5. DOMAIN new = 1..(c + 1 - n)
  BY <1>3
<1>6. new = [j \in 1..(c + 1 - n) |-> n + j]
  BY <1>3, <1>4, <1>5
<1> QED
  BY <1>6 DEF Shifted

LEMMA ShiftedAt ==
    ASSUME NEW n \in Nat, NEW c \in Nat, NEW map, Shifted(map, c, n), NEW i \in 1..(c - n)
    PROVE  map[i] = n + i
BY DEF Shifted

\* The i-th of a rows that were moved behind the first n.
MovedRow(map, c, n, a, i) ==
    n \in Nat /\ a \in Nat /\ c = n + a /\ Shifted(map, c, n) /\ i \in 1..a

LEMMA ShiftedTo ==
    ASSUME NEW map, NEW c, NEW n, NEW a, NEW i, MovedRow(map, c, n, a, i)
    PROVE  map[i] = n + i
BY ShiftedAt DEF MovedRow

\* A step of the conversion: what it has to show.
LEMMA ConvStep ==
    ASSUME ConvInv, Converting, UNCHANGED <<origin, kills>>,
           prog' = "opening", stmt' \in Statements, stmt'.op \in ConvertOps,
           mapping' \in Mappings, stmt'.op \notin Moving => mapping' = NoMapping,
           disk'.version = disk.version, disk'.parts = disk.parts,
           TablesBook', PlaceBook'
    PROVE  ConvInv'
<1>1. OriginBook'
  BY DEF ConvInv, OriginBook, Old, Fresh, Current
<1>2. Old /\ Begun
  BY DEF ConvInv, ProgBook, Converting, Begun
<1>3. Old' /\ Begun' /\ HasTables' = HasTables
  BY <1>2 DEF Begun, Old, HasBlobs, HasTables
<1>4. ~Fresh /\ ~Current /\ ~Fresh' /\ ~Current'
  BY <1>2 DEF Fresh, Current, Old
<1>5. stmt'.op \in UpdateOps /\ stmt'.op \in ReadOps /\ stmt'.op # "alter"
  BY DEF UpdateOps, ReadOps, ConvertOps, Moving, Dropping, AfterClasses, AfterMonitors,
         AfterContainers, AfterNames, AfterEntries, AfterSubtests, AfterSelect
<1>6. ProgBook'
  BY <1>3, <1>5 DEF ProgBook
<1>7. LostBook'
  BY <1>3 DEF LostBook, Converting
<1>8. VersionBook'
  BY <1>2, <1>3, <1>4 DEF ConvInv, VersionBook, Old
<1> QED
  BY <1>1, <1>6, <1>7, <1>8 DEF ConvInv

LEMMA FirstRow ==
    ASSUME NEW s \in Statements, s.row = 1
    PROVE  s.row - 1 = 0 /\ s.row # 0
BY DEF Statements

\* What is known of a conversion.
LEMMA ConvFacts ==
    ASSUME ConvInv, Converting
    PROVE  /\ stmt \in Statements /\ disk \in Tables /\ origin \in Tables /\ mem \in Tables
           /\ OriginBook /\ TablesBook /\ ProgBook /\ PlaceBook /\ MemBook
           /\ Old /\ Begun
           /\ mapping \in Mappings /\ (stmt.op \notin Moving => mapping = NoMapping)
<1>1. stmt.op \in ReadOps
  BY DEF Converting, ReadOps
<1>2. OriginBook /\ TablesBook /\ ProgBook /\ PlaceBook /\ stmt \in Statements
      /\ (stmt.op \notin Moving => mapping = NoMapping) /\ Begun /\ mapping \in Mappings
  BY <1>1 DEF ConvInv, ProgBook, Converting
<1> QED
  BY <1>2 DEF OriginBook, TablesBook, PlaceBook, MemBook, IsOld, Begun

\* Nothing is moved before or by such a statement.
LEMMA DropPlace ==
    ASSUME PlaceBook, stmt \in Statements, stmt.op \in {"alter"} \cup Dropping,
           UNCHANGED <<origin, mem, mapping>>,
           stmt' \in Statements, stmt'.op \in {"move class"} \cup Dropping, stmt'.row = 1,
           UNCHANGED <<disk.testclassinfo, disk.test, disk.names, disk.entries, disk.env>>
    PROVE  PlaceBook'
<1>3. /\ ClassesDone(stmt) = 0 /\ TestsDone(stmt) = 0
      /\ \A k \in Dictionaries : NamesDone(stmt, k) = 0 /\ EntriesDone(stmt, k) = 0
      /\ stmt.op \notin AfterSelect
  BY AtDropping
<1>4. /\ ClassesDone(stmt') = 0 /\ TestsDone(stmt') = 0
      /\ \A k \in Dictionaries : /\ NamesDone(stmt', k) = 0 /\ EntriesDone(stmt', k) = 0
                                 /\ ~NamesTyped(stmt', k)
      /\ stmt'.op \notin AfterSelect /\ stmt'.op # "insert variables"
      /\ stmt'.op \notin {"mark subtest", "mark scenario"} \cup AfterSubtests
  <2>1. CASE stmt'.op = "move class"
    BY <2>1, FirstRow, AtClass
  <2>2. CASE stmt'.op \in {"alter"} \cup Dropping
    BY <2>2, AtDropping
  <2> QED
    BY <2>1, <2>2
<1>5. ClassPlace' /\ TestPlace' /\ SubtestPlace' /\ EnvPlace' /\ MemBook'
  <2>1. ClassPlace /\ TestPlace /\ EnvPlace /\ MemBook
    BY DEF PlaceBook
  <2> QED
    BY <1>3, <1>4, <2>1, ClassStays, TestStays, SubtestLater, EnvLater, MemStays
<1>6. ASSUME NEW k \in Dictionaries PROVE NamePlace(k)' /\ EntryPlace(k)'
  <2>1. NamePlace(k) /\ EntryPlace(k)
    BY DEF PlaceBook
  <2> QED
    BY <1>3, <1>4, <2>1, NameStays, EntryStays
<1>7. stmt'.row # 0
  BY FirstRow
<1> QED
  BY <1>4, <1>5, <1>6, <1>7 DEF PlaceBook

LEMMA DropStep ==
    ASSUME ConvInv, prog = "opening", stmt.op \in Dropping,
           UNCHANGED <<origin, kills, mem, mapping>>,
           prog' = "opening", stmt' \in Statements, stmt'.op \in {"move class"} \cup Dropping,
           stmt'.row = 1, disk' \in Tables,
           UNCHANGED <<disk.testclassinfo, disk.test, disk.names, disk.entries, disk.env,
                       disk.version, disk.parts>>
    PROVE  ConvInv'
<1>0. Converting
  BY DEF Converting, ConvertOps
<1>1. /\ stmt \in Statements /\ OriginBook /\ TablesBook /\ PlaceBook
      /\ stmt.op \notin Moving => mapping = NoMapping
      /\ mapping \in Mappings
  BY <1>0, ConvFacts
<1>2. TablesBook'
  BY <1>1, RowsStay
<1>3. PlaceBook'
  BY <1>1, DropPlace
<1>4. /\ stmt'.op \in ConvertOps /\ mapping' \in Mappings
      /\ stmt'.op \notin Moving => mapping' = NoMapping
  <2>1. stmt.op \notin Moving
    BY DEF Dropping, Moving, AfterClasses, AfterMonitors, AfterContainers, AfterNames,
           AfterEntries, AfterSubtests, AfterSelect
  <2> QED
    BY <1>1, <2>1 DEF ConvertOps, Moving
<1> QED
  BY <1>0, <1>2, <1>3, <1>4, ConvStep

LEMMA DropKeeps == ASSUME ConvInv, DropTables PROVE ConvInv'
<1>1. disk \in Tables
  BY DEF ConvInv, TablesBook
<1>2. /\ NoRows \in [Dictionaries -> Seq(MonitorNameRows)]
      /\ NoRows \in [Dictionaries -> Seq(EntryRows)]
      /\ <<>> \in Seq(SubtestRows)
      /\ <<>> \in Seq(MonitorRows) /\ <<>> \in Seq(ClassRows)
  BY DEF NoRows
<1>3. PICK op \in {"move class"} \cup Dropping : stmt' = First(op)
  BY DEF DropTables, Execute, Go, Dropping
<1>4. stmt' \in Statements /\ stmt'.op \in {"move class"} \cup Dropping /\ stmt'.row = 1
  <2>1. op \in Ops
    BY DEF Ops, UpdateOps, ReadOps, ConvertOps, Moving
  <2> QED
    BY <1>3, <2>1, FirstStatement
<1>5. /\ prog = "opening" /\ prog' = "opening" /\ stmt.op \in Dropping
      /\ UNCHANGED <<origin, kills, mem, mapping>>
  BY DEF DropTables, Execute, Go, Todo, Program, Dropping
<1>6. /\ disk' \in Tables
      /\ UNCHANGED <<disk.testclassinfo, disk.test, disk.names, disk.entries, disk.env,
                     disk.version, disk.parts>>
  <2>1. CASE disk' = [disk EXCEPT !.mnames = NoRows]
    BY <1>1, <1>2, <2>1, Set_mnames
  <2>2. CASE disk' = [disk EXCEPT !.subtests = <<>>]
    BY <1>1, <1>2, <2>2, Set_subtests
  <2>3. CASE disk' = [disk EXCEPT !.monitor = <<>>]
    BY <1>1, <1>2, <2>3, Set_monitor
  <2>4. CASE disk' = [disk EXCEPT !.monitorclassinfo = <<>>]
    BY <1>1, <1>2, <2>4, Set_monitorclassinfo
  <2>5. CASE disk' = [disk EXCEPT !.mentries = NoRows]
    BY <1>1, <1>2, <2>5, Set_mentries
  <2> QED
    BY <2>1, <2>2, <2>3, <2>4, <2>5 DEF DropTables, Execute
<1> QED
  BY <1>4, <1>5, <1>6, DropStep

-----------------------------------------------------------------------------
(* The drops.                                                              *)

LEMMA QuietStep ==
    ASSUME ConvInv, Converting, UNCHANGED <<origin, kills, disk, mem, mapping>>,
           prog' = "opening", stmt' \in Statements, stmt'.op \in Moving, stmt'.row = 1,
           ClassesDone(stmt') = ClassesDone(stmt), TestsDone(stmt') = TestsDone(stmt),
           \A k \in Dictionaries : /\ NamesDone(stmt', k) = NamesDone(stmt, k)
                                   /\ EntriesDone(stmt', k) = EntriesDone(stmt, k)
                                   /\ NamesTyped(stmt', k) => NamesTyped(stmt, k),
           stmt.op \notin AfterSelect, stmt'.op \notin AfterSelect, SubtestPlace'
    PROVE  ConvInv'
<1>1. OriginBook /\ TablesBook /\ PlaceBook /\ disk \in Tables /\ mapping \in Mappings
  BY ConvFacts
<1>2. TablesBook'
  BY <1>1, RowsStay
<1>3. PlaceBook'
  <2>1. ClassPlace' /\ TestPlace' /\ EnvPlace' /\ MemBook'
    <3>1. ClassPlace /\ TestPlace /\ EnvPlace /\ MemBook
      BY <1>1 DEF PlaceBook
    <3> QED
      BY <3>1, ClassStays, TestStays, EnvLater, MemStays
  <2>2. ASSUME NEW k \in Dictionaries PROVE NamePlace(k)' /\ EntryPlace(k)'
    <3>1. NamePlace(k) /\ EntryPlace(k)
      BY <1>1 DEF PlaceBook
    <3>2. NamesTyped(stmt', k) => Named(k)'
      BY <3>1, NamedStays DEF NamePlace
    <3> QED
      BY <3>1, <3>2, NameStays, EntryStays
  <2>3. stmt'.row # 0
    BY FirstRow
  <2> QED
    BY <2>1, <2>2, <2>3 DEF PlaceBook
<1>4. stmt'.op \in ConvertOps
  BY DEF ConvertOps
<1> QED
  BY <1>1, <1>2, <1>3, <1>4, ConvStep

LEMMA AppendedLength ==
    ASSUME NEW t, NEW n, NEW more, Appended(t, n, more)
    PROVE  Len(t) \in n..(n + Len(more))
BY DEF Appended

LEMMA LoopDone ==
    ASSUME NEW n \in Nat, NEW all \in Nat, NEW len \in n..(n + all),
           NEW s \in Statements, len = n + (s.row - 1), s.row > all
    PROVE  s.row - 1 = all
BY DEF Statements

LEMMA RowsAre ==
    ASSUME MemBook
    PROVE  /\ stmt.op = "move class" => Rows = origin.monitorclassinfo
           /\ stmt.op = "move monitor" => Rows = origin.monitor
           /\ stmt.op = "move name" => Rows = origin.mnames[stmt.kind]
           /\ stmt.op = "move entry" => Rows = origin.mentries[stmt.kind]
           /\ stmt.op = "mark subtest" => Rows = origin.subtests
BY DEF MemBook, SameRows, Rows

LEMMA LoopsGo ==
    ASSUME LoopEnds
    PROVE  /\ prog = "opening" /\ prog' = "opening"
           /\ UNCHANGED <<origin, kills, disk, mem, mapping>>
           /\ stmt.row > Len(Rows)
           /\ stmt.op \in {"move class", "move monitor", "move name", "move entry",
                           "mark subtest"}
           /\ stmt.op = "move class" => stmt' = First("move monitor")
           /\ stmt.op = "move monitor" => stmt' = First("name containers")
           /\ stmt.op = "move name" => stmt' = Then("move entry")
           /\ stmt.op = "move entry" => stmt' = Then("mark subtest")
           /\ stmt.op = "mark subtest" => stmt' = First("select environment")
BY DEF LoopEnds, Go, Program

LEMMA MovesFacts ==
    /\ {"move class", "move monitor", "name containers", "move name", "move entry",
        "mark subtest", "mark scenario", "select environment", "environment",
        "insert variables"} \subseteq Moving \cap ConvertOps \cap Ops
    /\ AfterEntries \subseteq Moving
BY DEF Moving, AfterClasses, AfterMonitors, AfterContainers, AfterNames,
       AfterEntries, AfterSubtests, AfterSelect, ConvertOps, Ops, UpdateOps, ReadOps

LEMMA ClassLoopEnds ==
    ASSUME ConvInv, LoopEnds, stmt.op = "move class"
    PROVE  ConvInv'
<1>0. Converting
  BY LoopsGo, MovesFacts DEF Converting
<1>1. /\ stmt \in Statements /\ OriginBook /\ TablesBook /\ PlaceBook /\ MemBook
      /\ origin \in Tables
  BY <1>0, ConvFacts
<1>2. stmt' = First("move monitor") /\ stmt.row > Len(origin.monitorclassinfo)
  BY <1>1, LoopsGo, RowsAre
<1>3. stmt' \in Statements /\ stmt'.op = "move monitor" /\ stmt'.row = 1
  BY <1>2, FirstStatement, MovesFacts
<1>4. stmt.row - 1 = Len(origin.monitorclassinfo)
  <2>1. Len(disk.testclassinfo) \in C0..(C0 + Len(origin.monitorclassinfo))
    BY <1>1, AppendedLength DEF TablesBook, ClassBook
  <2>2. Len(disk.testclassinfo) = C0 + (stmt.row - 1)
    BY <1>1, AtClass DEF PlaceBook, ClassPlace
  <2>3. C0 \in Nat /\ Len(origin.monitorclassinfo) \in Nat
    BY <1>1, RowsOf DEF C0
  <2> QED
    BY <1>1, <1>2, <2>1, <2>2, <2>3, LoopDone
<1>5. /\ ClassesDone(stmt') = ClassesDone(stmt) /\ TestsDone(stmt') = TestsDone(stmt)
      /\ \A k \in Dictionaries : /\ NamesDone(stmt', k) = NamesDone(stmt, k)
                                 /\ EntriesDone(stmt', k) = EntriesDone(stmt, k)
                                 /\ ~NamesTyped(stmt', k)
      /\ stmt.op \notin AfterSelect /\ stmt'.op \notin AfterSelect
      /\ stmt'.op \notin {"mark subtest", "mark scenario"} \cup AfterSubtests
  BY <1>1, <1>3, <1>4, FirstRow, AtClass, AtMonitor
<1> QED
  BY <1>0, <1>3, <1>5, LoopsGo, MovesFacts, SubtestLater, QuietStep

-----------------------------------------------------------------------------
(* The classes and the tests.                                              *)

LEMMA RowsBefore ==
    ASSUME NEW s \in Statements, NEW n \in Nat
    PROVE  /\ s.row = 1 => s.row <= n + 1 /\ 1..(s.row - 1) = {}
           /\ s.row > n => 1..n \subseteq 1..(s.row - 1)
BY DEF Statements

LEMMA MonitorLoopEnds ==
    ASSUME ConvInv, LoopEnds, stmt.op = "move monitor"
    PROVE  ConvInv'
<1>0. Converting
  BY LoopsGo, MovesFacts DEF Converting
<1>1. /\ stmt \in Statements /\ OriginBook /\ TablesBook /\ PlaceBook /\ MemBook
      /\ origin \in Tables
  BY <1>0, ConvFacts
<1>2. stmt' = First("name containers") /\ stmt.row > Len(origin.monitor)
  BY <1>1, LoopsGo, RowsAre
<1>3. /\ stmt' \in Statements /\ stmt'.op = "name containers" /\ stmt'.row = 1
      /\ stmt'.kind = "arguments"
  BY <1>2, FirstStatement, MovesFacts
<1>4. stmt.row - 1 = Len(origin.monitor)
  <2>1. Len(disk.test) \in T0..(T0 + Len(origin.monitor))
    BY <1>1, AppendedLength, MovedLengths DEF TablesBook, TestBook
  <2>2. Len(disk.test) = T0 + (stmt.row - 1)
    BY <1>1, AtMonitor DEF PlaceBook, TestPlace
  <2>3. T0 \in Nat /\ Len(origin.monitor) \in Nat
    BY <1>1, RowsOf DEF T0
  <2> QED
    BY <1>1, <1>2, <2>1, <2>2, <2>3, LoopDone
<1>5. /\ ClassesDone(stmt') = ClassesDone(stmt) /\ TestsDone(stmt') = TestsDone(stmt)
      /\ \A k \in Dictionaries : /\ NamesDone(stmt', k) = NamesDone(stmt, k)
                                 /\ EntriesDone(stmt', k) = EntriesDone(stmt, k)
                                 /\ ~NamesTyped(stmt', k)
      /\ stmt.op \notin AfterSelect /\ stmt'.op \notin AfterSelect
      /\ stmt'.op \notin {"mark subtest", "mark scenario"} \cup AfterSubtests
  BY <1>1, <1>3, <1>4, AtMonitor, AtContainers
<1> QED
  BY <1>0, <1>3, <1>5, LoopsGo, MovesFacts, SubtestLater, QuietStep

\* The loop over the names of one dictionary is followed by the one over those
\* of the other, and this by the loops over the entries.
LEMMA NameLoopEnds ==
    ASSUME ConvInv, LoopEnds, stmt.op = "move name"
    PROVE  ConvInv'
<1>0. Converting
  BY LoopsGo, MovesFacts DEF Converting
<1>1. /\ stmt \in Statements /\ OriginBook /\ TablesBook /\ PlaceBook /\ MemBook
      /\ origin \in Tables
  BY <1>0, ConvFacts
<1>2. stmt' = Then("move entry") /\ stmt.row > Len(origin.mnames[stmt.kind])
  BY <1>1, LoopsGo, RowsAre
<1>a. stmt.kind \in Dictionaries
  BY <1>1 DEF Statements
<1>3. /\ stmt' \in Statements /\ stmt'.row = 1
      /\ stmt.kind = "arguments" => stmt'.op = "move name" /\ stmt'.kind = "extrainfo"
      /\ stmt.kind # "arguments" => stmt'.op = "move entry" /\ stmt'.kind = "arguments"
  BY <1>1, <1>2, ThenStatement, MovesFacts
<1>4. stmt.row - 1 = Len(origin.mnames[stmt.kind])
  <2>1. Len(disk.names[stmt.kind])
           \in N0(stmt.kind)..(N0(stmt.kind) + Len(origin.mnames[stmt.kind]))
    BY <1>1, <1>a, AppendedLength, MovedLengths DEF TablesBook, NameBook
  <2>2. Len(disk.names[stmt.kind]) = N0(stmt.kind) + (stmt.row - 1)
    BY <1>1, <1>a, AtName DEF PlaceBook, NamePlace
  <2>3. N0(stmt.kind) \in Nat /\ Len(origin.mnames[stmt.kind]) \in Nat
    BY <1>1, <1>a, RowsOf DEF N0
  <2> QED
    BY <1>1, <1>2, <2>1, <2>2, <2>3, LoopDone
<1>5. /\ ClassesDone(stmt') = ClassesDone(stmt) /\ TestsDone(stmt') = TestsDone(stmt)
      /\ \A k \in Dictionaries : EntriesDone(stmt', k) = EntriesDone(stmt, k)
      /\ stmt.op \notin AfterSelect /\ stmt'.op \notin AfterSelect
      /\ stmt'.op \notin {"mark subtest", "mark scenario"} \cup AfterSubtests
  <2>1. CASE stmt.kind = "arguments"
    BY <1>1, <1>3, <2>1, AtName
  <2>2. CASE stmt.kind # "arguments"
    <3>1. \A k \in Dictionaries : EntriesDone(stmt', k) = 0
      BY <1>3, <2>2, FirstRow, DictionariesAre, AtEntry
    <3> QED
      BY <1>1, <1>3, <2>2, <3>1, AtName, AtEntry
  <2> QED
    BY <2>1, <2>2
<1>6. ASSUME NEW k \in Dictionaries
      PROVE  NamesDone(stmt', k) = NamesDone(stmt, k) /\ NamesTyped(stmt, k)
  <2>1. CASE stmt.kind = "arguments" /\ k = "arguments"
    BY <1>1, <1>3, <1>4, <2>1, AtName
  <2>2. CASE stmt.kind = "arguments" /\ k = "extrainfo"
    BY <1>1, <1>3, <1>4, <2>2, FirstRow, AtName
  <2>3. CASE stmt.kind = "extrainfo"
    <3>1. NamesDone(stmt', k) = Len(origin.mnames[k])
      BY <1>3, <2>3, AtEntry
    <3>2. NamesDone(stmt, k) = Len(origin.mnames[k])
      BY <1>1, <1>4, <2>3, DictionariesAre, AtName
    <3>3. NamesTyped(stmt, k)
      BY <1>1, AtName
    <3> QED
      BY <3>1, <3>2, <3>3
  <2> QED
    BY <1>a, <2>1, <2>2, <2>3, DictionariesAre
<1>7. stmt'.op \in Moving
  BY <1>3, MovesFacts
<1> QED
  BY <1>0, <1>3, <1>5, <1>6, <1>7, LoopsGo, SubtestLater, QuietStep

LEMMA EntryLoopEnds ==
    ASSUME ConvInv, LoopEnds, stmt.op = "move entry"
    PROVE  ConvInv'
<1>0. Converting
  BY LoopsGo, MovesFacts DEF Converting
<1>1. /\ stmt \in Statements /\ OriginBook /\ TablesBook /\ PlaceBook /\ MemBook
      /\ origin \in Tables
  BY <1>0, ConvFacts
<1>2. stmt' = Then("mark subtest") /\ stmt.row > Len(origin.mentries[stmt.kind])
  BY <1>1, LoopsGo, RowsAre
<1>a. stmt.kind \in Dictionaries
  BY <1>1 DEF Statements
<1>3. /\ stmt' \in Statements /\ stmt'.row = 1
      /\ stmt.kind = "arguments" => stmt'.op = "move entry" /\ stmt'.kind = "extrainfo"
      /\ stmt.kind # "arguments" => stmt'.op = "mark subtest" /\ stmt'.kind = "arguments"
  BY <1>1, <1>2, ThenStatement, MovesFacts
<1>b. stmt.kind # "arguments" => stmt'.op \in AfterEntries
  BY <1>3 DEF AfterEntries
<1>4. stmt.row - 1 = Len(origin.mentries[stmt.kind])
  <2>1. Len(disk.entries[stmt.kind])
           \in E0(stmt.kind)..(E0(stmt.kind) + Len(origin.mentries[stmt.kind]))
    BY <1>1, <1>a, AppendedLength, MovedLengths DEF TablesBook, EntryBook
  <2>2. Len(disk.entries[stmt.kind]) = E0(stmt.kind) + (stmt.row - 1)
    BY <1>1, <1>a, AtEntry DEF PlaceBook, EntryPlace
  <2>3. E0(stmt.kind) \in Nat /\ Len(origin.mentries[stmt.kind]) \in Nat
    BY <1>1, <1>a, RowsOf DEF E0
  <2> QED
    BY <1>1, <1>2, <2>1, <2>2, <2>3, LoopDone
<1>5. /\ ClassesDone(stmt') = ClassesDone(stmt) /\ TestsDone(stmt') = TestsDone(stmt)
      /\ \A k \in Dictionaries :
            NamesDone(stmt', k) = NamesDone(stmt, k) /\ NamesTyped(stmt, k)
  BY <1>1, <1>3, <1>b, AtEntry, AtEnd
<1>6. ASSUME NEW k \in Dictionaries
      PROVE  EntriesDone(stmt', k) = EntriesDone(stmt, k)
  <2>1. CASE stmt.kind = "arguments" /\ k = "arguments"
    BY <1>1, <1>3, <1>4, <2>1, AtEntry
  <2>2. CASE stmt.kind = "arguments" /\ k = "extrainfo"
    BY <1>1, <1>3, <1>4, <2>2, FirstRow, AtEntry
  <2>3. CASE stmt.kind = "extrainfo"
    <3>1. EntriesDone(stmt', k) = Len(origin.mentries[k])
      BY <1>3, <1>b, <2>3, AtEnd
    <3>2. EntriesDone(stmt, k) = Len(origin.mentries[k])
      BY <1>1, <1>4, <2>3, DictionariesAre, AtEntry
    <3> QED
      BY <3>1, <3>2
  <2> QED
    BY <1>a, <2>1, <2>2, <2>3, DictionariesAre
<1>7. stmt'.op \in Moving
  BY <1>3, MovesFacts
<1>8. stmt.op \notin AfterSelect /\ stmt'.op \notin AfterSelect
  BY <1>3 DEF AfterSelect
<1>9. SubtestPlace'
  <2>1. stmt'.op \notin AfterSubtests /\ stmt'.op # "mark scenario"
    BY <1>3 DEF AfterSubtests, AfterSelect
  <2>2. stmt'.row <= Len(origin.subtests) + 1 /\ 1..(stmt'.row - 1) = {}
    <3>1. Len(origin.subtests) \in Nat
      BY <1>1, RowsOf
    <3> QED
      BY <1>3, <3>1, RowsBefore
  <2>3. Len(origin'.subtests) = Len(origin.subtests)
    BY LoopsGo
  <2>4. \A j \in 1..(stmt'.row - 1) : Marked(origin.subtests[j])'
    BY <2>2
  <2> QED
    BY <2>1, <2>2, <2>3, <2>4 DEF SubtestPlace
<1> QED
  BY <1>0, <1>3, <1>5, <1>6, <1>7, <1>8, <1>9, LoopsGo, QuietStep

LEMMA SubtestLoopEnds ==
    ASSUME ConvInv, LoopEnds, stmt.op = "mark subtest"
    PROVE  ConvInv'
<1>0. Converting
  BY LoopsGo, MovesFacts DEF Converting
<1>1. /\ stmt \in Statements /\ OriginBook /\ TablesBook /\ PlaceBook /\ MemBook
      /\ origin \in Tables
  BY <1>0, ConvFacts
<1>2. stmt' = First("select environment") /\ stmt.row > Len(origin.subtests)
  BY <1>1, LoopsGo, RowsAre
<1>3. stmt' \in Statements /\ stmt'.op = "select environment" /\ stmt'.row = 1
  BY <1>2, FirstStatement, MovesFacts
<1>4. stmt.op \in AfterEntries /\ stmt'.op \in AfterEntries
      /\ stmt.op \notin AfterSelect /\ stmt'.op \notin AfterSelect
      /\ stmt'.op \notin {"mark subtest", "mark scenario"} /\ stmt'.op # "mark scenario"
  BY <1>3 DEF AfterEntries, AfterSubtests, AfterSelect
<1>5. /\ ClassesDone(stmt') = ClassesDone(stmt) /\ TestsDone(stmt') = TestsDone(stmt)
      /\ \A k \in Dictionaries : /\ NamesDone(stmt', k) = NamesDone(stmt, k)
                                 /\ EntriesDone(stmt', k) = EntriesDone(stmt, k)
                                 /\ NamesTyped(stmt, k)
  BY <1>1, <1>3, <1>4, AtEnd
<1>6. SubtestPlace'
  <2>1. \A j \in 1..(stmt.row - 1) : Marked(origin.subtests[j])
    BY <1>1 DEF PlaceBook, SubtestPlace
  <2>2. Len(origin.subtests) \in Nat /\ stmt.row \in Nat
    BY <1>1, RowsOf DEF Statements
  <2>a. 1..Len(origin.subtests) \subseteq 1..(stmt.row - 1)
    BY <1>1, <1>2, <2>2, RowsBefore
  <2>3. \A j \in 1..Len(origin.subtests) : Marked(origin.subtests[j])
    BY <2>1, <2>a
  <2>4. \A j \in 1..Len(origin.subtests) : Marked(origin.subtests[j])'
    BY <2>3, LoopsGo DEF Marked
  <2> QED
    BY <1>4, <2>4, LoopsGo DEF SubtestPlace
<1> QED
  BY <1>0, <1>3, <1>4, <1>5, <1>6, LoopsGo, MovesFacts, QuietStep

LEMMA LoopEndsKeeps == ASSUME ConvInv, LoopEnds PROVE ConvInv'
BY LoopsGo, ClassLoopEnds, MonitorLoopEnds, NameLoopEnds, EntryLoopEnds, SubtestLoopEnds

LEMMA Set_class ==
    ASSUME NEW m \in Mappings, NEW x \in Seq(Nat)
    PROVE  LET w == [m EXCEPT !.class = x] IN
           w \in Mappings /\ w.class = x /\ w.test = m.test /\ w.name = m.name
BY DEF Mappings

LEMMA Set_mappedtest ==
    ASSUME NEW m \in Mappings, NEW x \in Seq(Nat)
    PROVE  LET w == [m EXCEPT !.test = x] IN
           w \in Mappings /\ w.class = m.class /\ w.test = x /\ w.name = m.name
BY DEF Mappings

LEMMA Set_mappedname ==
    ASSUME NEW m \in Mappings, NEW k \in Dictionaries, NEW x \in Seq(Nat)
    PROVE  LET w == [m EXCEPT !.name[k] = x] IN
           /\ w \in Mappings /\ w.class = m.class /\ w.test = m.test /\ w.name[k] = x
           /\ \A l \in Dictionaries : l # k => w.name[l] = m.name[l]
BY DEF Mappings

LEMMA Set_namesof ==
    ASSUME NEW d \in Tables, NEW k \in Dictionaries, NEW x \in Seq(NameRows)
    PROVE  LET w == [d EXCEPT !.names[k] = x] IN
           /\ w \in Tables /\ w.names[k] = x
           /\ \A l \in Dictionaries : l # k => w.names[l] = d.names[l]
           /\ w.version = d.version /\ w.parts = d.parts /\ w.testclassinfo = d.testclassinfo
           /\ w.test = d.test /\ w.entries = d.entries /\ w.env = d.env
           /\ w.monitorclassinfo = d.monitorclassinfo /\ w.monitor = d.monitor
           /\ w.mnames = d.mnames /\ w.mentries = d.mentries /\ w.subtests = d.subtests
BY DEF Tables

LEMMA Set_entriesof ==
    ASSUME NEW d \in Tables, NEW k \in Dictionaries, NEW x \in Seq(EntryRows)
    PROVE  LET w == [d EXCEPT !.entries[k] = x] IN
           /\ w \in Tables /\ w.entries[k] = x
           /\ \A l \in Dictionaries : l # k => w.entries[l] = d.entries[l]
           /\ w.version = d.version /\ w.parts = d.parts /\ w.testclassinfo = d.testclassinfo
           /\ w.test = d.test /\ w.names = d.names /\ w.env = d.env
           /\ w.monitorclassinfo = d.monitorclassinfo /\ w.monitor = d.monitor
           /\ w.mnames = d.mnames /\ w.mentries = d.mentries /\ w.subtests = d.subtests
BY DEF Tables

\* The parts of the book that a step does not touch.
LEMMA TestBookStays ==
    ASSUME TestBook, UNCHANGED <<origin, disk.test, disk.testclassinfo>>
    PROVE  TestBook'
<1>1. C0' = C0 /\ T0' = T0 /\ MovedTests' = MovedTests
  BY OriginStays
<1> QED
  BY <1>1 DEF TestBook

LEMMA NameBookStays ==
    ASSUME NEW k \in Dictionaries, NameBook(k), UNCHANGED <<origin, disk.names[k]>>
    PROVE  NameBook(k)'
<1>1. N0(k)' = N0(k) /\ MovedNames(k)' = MovedNames(k) /\ \A n : TypeOf(n)' = TypeOf(n)
  BY OriginStays
<1> QED
  BY <1>1 DEF NameBook

LEMMA EntryBookStays ==
    ASSUME NEW k \in Dictionaries, EntryBook(k), UNCHANGED <<origin, disk.entries[k]>>,
           Len(disk.entries[k]) > E0(k) =>
               /\ Len(disk.test)' = Len(disk.test)
               /\ Len(disk.names[k])' = Len(disk.names[k])
    PROVE  EntryBook(k)'
<1>1. E0(k)' = E0(k) /\ T0' = T0 /\ N0(k)' = N0(k) /\ MovedEntries(k)' = MovedEntries(k)
  BY OriginStays
<1> QED
  BY <1>1 DEF EntryBook

\* A loop at one of its rows: the row is the next one to move.
AtRow(s, n, len, all) ==
    /\ s \in Statements /\ n \in Nat /\ len \in Nat /\ all \in Nat
    /\ len = n + (s.row - 1) /\ s.row <= all /\ s.row # 0

LEMMA LoopRow ==
    ASSUME NEW s, NEW n, NEW len, NEW all, AtRow(s, n, len, all)
    PROVE  /\ len + 1 - n = s.row /\ len < n + all /\ s.row \in 1..all /\ n <= len
           /\ \A t \in Statements : t.row = s.row + 1 =>
                 len + 1 = n + (t.row - 1) /\ t.row # 0
BY DEF Statements, AtRow

\* The classes.
LEMMA MoveClassDoes ==
    ASSUME ConvInv, MoveClass
    PROVE  /\ Converting /\ prog' = "opening" /\ UNCHANGED <<origin, kills, mem>>
           /\ stmt.op = "move class" /\ stmt' \in Statements /\ stmt'.op = "move class"
           /\ stmt'.row = stmt.row + 1 /\ stmt.row # 0
           /\ stmt.row <= Len(origin.monitorclassinfo)
           /\ disk' = [disk EXCEPT !.testclassinfo =
                          Append(disk.testclassinfo, origin.monitorclassinfo[stmt.row])]
           /\ mapping' = [mapping EXCEPT !.class =
                             Append(mapping.class, Len(disk.testclassinfo) + 1)]
<1>1. prog = "opening" /\ stmt.op = "move class" /\ stmt.row <= Len(Rows) /\ stmt' = NextRow
      /\ prog' = "opening" /\ UNCHANGED <<origin, kills, mem>>
  BY DEF MoveClass, Each, Todo, Go, Program
<1>2. Converting
  BY <1>1, MovesFacts DEF Converting
<1>3. stmt \in Statements /\ PlaceBook /\ MemBook
  BY <1>2, ConvFacts
<1>4. stmt' \in Statements /\ stmt'.op = "move class" /\ stmt'.row = stmt.row + 1
  BY <1>1, <1>3, NextStatement
<1>5. Rows = origin.monitorclassinfo /\ mem.monitorclassinfo = origin.monitorclassinfo
  BY <1>1, <1>3, RowsAre DEF MemBook, SameRows
<1>6. stmt.row # 0
  BY <1>1, <1>3 DEF PlaceBook
<1> QED
  BY <1>1, <1>2, <1>4, <1>5, <1>6 DEF MoveClass

LEMMA MoveClassKeeps == ASSUME ConvInv, MoveClass PROVE ConvInv'
<1>1. /\ Converting /\ prog' = "opening" /\ UNCHANGED <<origin, kills, mem>>
      /\ stmt.op = "move class" /\ stmt' \in Statements /\ stmt'.op = "move class"
      /\ stmt'.row = stmt.row + 1 /\ stmt.row # 0
      /\ stmt.row <= Len(origin.monitorclassinfo)
  BY MoveClassDoes
<1>2. /\ stmt \in Statements /\ disk \in Tables /\ origin \in Tables /\ mapping \in Mappings
      /\ OriginBook /\ TablesBook /\ PlaceBook
  BY <1>1, ConvFacts
<1> DEFINE t == disk.testclassinfo
           x == origin.monitorclassinfo[stmt.row]
<1>3. /\ ClassesDone(stmt) = stmt.row - 1 /\ TestsDone(stmt) = 0
      /\ \A k \in Dictionaries : NamesDone(stmt, k) = 0 /\ EntriesDone(stmt, k) = 0
      /\ stmt.op \notin AfterSelect
  BY <1>1, <1>2, AtClass
<1>4. /\ ClassesDone(stmt') = stmt'.row - 1 /\ TestsDone(stmt') = 0
      /\ \A k \in Dictionaries : /\ NamesDone(stmt', k) = 0 /\ EntriesDone(stmt', k) = 0
                                 /\ ~NamesTyped(stmt', k)
      /\ stmt'.op \notin AfterSelect /\ stmt'.op # "insert variables"
      /\ stmt'.op \notin {"mark subtest", "mark scenario"} \cup AfterSubtests
  BY <1>1, AtClass
<1>5. Len(t) = C0 + (stmt.row - 1) /\ Shifted(mapping.class, Len(t), C0)
  BY <1>2, <1>3 DEF PlaceBook, ClassPlace
<1>6. C0 \in Nat /\ Len(origin.monitorclassinfo) \in Nat /\ Len(t) \in Nat
  BY <1>2, RowsOf DEF C0
<1>a. t \in Seq(ClassRows)
  BY <1>2 DEF Tables
<1>b. stmt \in Statements /\ stmt' \in Statements /\ stmt'.row = stmt.row + 1
  BY <1>1, <1>2
<1>7. /\ Len(t) + 1 - C0 = stmt.row /\ Len(t) < C0 + Len(origin.monitorclassinfo)
      /\ stmt.row \in 1..Len(origin.monitorclassinfo) /\ C0 <= Len(t)
      /\ Len(t) + 1 = C0 + (stmt'.row - 1) /\ stmt'.row # 0
  <2>1. AtRow(stmt, C0, Len(t), Len(origin.monitorclassinfo))
    BY <1>1, <1>5, <1>6, <1>b DEF AtRow
  <2> QED
    BY <1>b, <2>1, LoopRow
<1>8. x \in ClassRows
  BY <1>2, <1>7 DEF Tables
<1>9. ClassBook
  BY <1>2 DEF TablesBook
<1>10. /\ Append(t, x) \in Seq(ClassRows) /\ Len(Append(t, x)) = Len(t) + 1
       /\ Appended(Append(t, x), C0, origin.monitorclassinfo)
       /\ \A i \in 1..C0 : Append(t, x)[i] = t[i]
  <2>1. Appended(t, C0, origin.monitorclassinfo)
    BY <1>9 DEF ClassBook
  <2>2. CanGrow(ClassRows, t, x, C0, origin.monitorclassinfo)
    BY <1>6, <1>7, <1>8, <1>a, <2>1 DEF CanGrow
  <2>3. Grown(ClassRows, t, x, C0, origin.monitorclassinfo)
    BY <2>2, OneAppended
  <2> QED
    BY <2>3 DEF Grown
<1>11. /\ disk' \in Tables /\ disk'.testclassinfo = Append(t, x)
       /\ UNCHANGED <<disk.test, disk.names, disk.entries, disk.env, disk.version, disk.parts>>
  <2>1. disk \in Tables /\ Append(t, x) \in Seq(ClassRows)
    BY <1>2, <1>10
  <2>2. disk' = [disk EXCEPT !.testclassinfo = Append(t, x)]
    BY MoveClassDoes
  <2> QED
    BY <2>1, <2>2, Set_testclassinfo
<1>12. /\ mapping' \in Mappings /\ mapping'.class = Append(mapping.class, Len(t) + 1)
       /\ UNCHANGED <<mapping.test, mapping.name>>
  <2>1. Append(mapping.class, Len(t) + 1) \in Seq(Nat)
    BY <1>2, <1>6 DEF Mappings
  <2>2. mapping' = [mapping EXCEPT !.class = Append(mapping.class, Len(t) + 1)]
    BY MoveClassDoes
  <2>3. mapping \in Mappings
    BY <1>2
  <2> QED
    BY <2>1, <2>2, <2>3, Set_class
<1>13. ClassBook'
  BY <1>1, <1>9, <1>10, <1>11, OriginStays DEF ClassBook
<1>14. TestBook'
  <2>1. TestBook /\ TestPlace
    BY <1>2 DEF TablesBook, PlaceBook
  <2>2. Len(disk.test) = T0 /\ T0 \in Nat
    BY <1>2, <1>3, <2>1, RowsOf DEF TestPlace, T0
  <2>4. T0' = T0 /\ MovedTests' = MovedTests /\ disk'.test = disk.test
    BY <1>1, <1>11, OriginStays
  <2>3. ~(Len(disk'.test) > T0')
    BY <2>2, <2>4
  <2> QED
    BY <2>1, <2>3, <2>4 DEF TestBook
<1>15. ASSUME NEW k \in Dictionaries PROVE NameBook(k)' /\ EntryBook(k)'
  <2>1. NameBook(k) /\ EntryBook(k)
    BY <1>2 DEF TablesBook
  <2> QED
    BY <1>1, <1>11, <2>1, NameBookStays, EntryBookStays
<1>16. ClassPlace'
  <2>1. Len(disk.testclassinfo)' = C0' + ClassesDone(stmt)'
    BY <1>1, <1>4, <1>7, <1>10, <1>11, OriginStays, DoneStays
  <2>2. Shifted(Append(mapping.class, Len(t) + 1), Len(t) + 1, C0)
    BY <1>5, <1>6, <1>7, ShiftedOn
  <2>3. Shifted(mapping'.class, Len(disk'.testclassinfo), C0')
    BY <1>1, <1>10, <1>11, <1>12, <2>2, OriginStays
  <2> QED
    BY <2>1, <2>3 DEF ClassPlace
<1>17. PlaceBook'
  <2>1. TestPlace /\ EnvPlace /\ MemBook
        /\ \A k \in Dictionaries : NamePlace(k) /\ EntryPlace(k)
    BY <1>2 DEF PlaceBook
  <2>2. TestPlace' /\ EnvPlace' /\ MemBook' /\ SubtestPlace'
    BY <1>1, <1>3, <1>4, <1>11, <1>12, <2>1, TestStays, EnvLater, MemStays, SubtestLater
  <2>3. ASSUME NEW k \in Dictionaries PROVE NamePlace(k)' /\ EntryPlace(k)'
    BY <1>1, <1>3, <1>4, <1>11, <1>12, <2>1, NameStays, EntryStays
  <2> QED
    BY <1>7, <1>16, <2>2, <2>3 DEF PlaceBook
<1> QED
  <2>1. TablesBook'
    BY <1>11, <1>13, <1>14, <1>15 DEF TablesBook
  <2>2. stmt'.op \in ConvertOps /\ stmt'.op \in Moving
    BY <1>1, MovesFacts
  <2> QED
    BY <1>1, <1>11, <1>12, <1>17, <2>1, <2>2, ConvStep

-----------------------------------------------------------------------------
(* The names of the dictionaries.                                          *)

\* What origin says of a monitor and of what belongs to one.
LEMMA MonitorOf ==
    ASSUME OriginBook, NEW i \in 1..Len(origin.monitor)
    PROVE  /\ origin.monitor[i].testid \in 1..T0 /\ origin.monitor[i].testid \in Nat
           /\ origin.monitor[i].type \in 1..Len(origin.monitorclassinfo)
           /\ origin.monitor[i].type \in Nat
<1>1. IsOld(origin) /\ origin \in Tables
  BY DEF OriginBook, IsOld
<1>2. i \in DOMAIN origin.monitor
  BY <1>1, RowsOf
<1>3. origin.monitor[i] \in MonitorRows
  BY <1>1, ElementOfSeq DEF Tables
<1>4. /\ origin.monitor[i].testid \in DOMAIN origin.test
      /\ origin.monitor[i].type \in DOMAIN origin.monitorclassinfo
  BY <1>1, <1>2 DEF IsOld
<1> QED
  BY <1>1, <1>3, <1>4, RowsOf DEF T0, MonitorRows

LEMMA MoveMonitorDoes ==
    ASSUME ConvInv, MoveMonitor
    PROVE  /\ Converting /\ prog' = "opening" /\ UNCHANGED <<origin, kills, mem>>
           /\ stmt.op = "move monitor" /\ stmt' \in Statements /\ stmt'.op = "move monitor"
           /\ stmt'.row = stmt.row + 1 /\ stmt.row # 0
           /\ stmt.row <= Len(origin.monitor)
           /\ disk' = [disk EXCEPT !.test =
                          Append(disk.test,
                                 [type |-> mapping.class[origin.monitor[stmt.row].type],
                                  parent |-> origin.monitor[stmt.row].testid,
                                  ismonitor |-> TRUE, isscenario |-> FALSE])]
           /\ mapping' = [mapping EXCEPT !.test = Append(mapping.test, Len(disk.test) + 1)]
<1>1. prog = "opening" /\ stmt.op = "move monitor" /\ stmt.row <= Len(Rows)
      /\ stmt' = NextRow /\ prog' = "opening" /\ UNCHANGED <<origin, kills, mem>>
  BY DEF MoveMonitor, Each, Todo, Go, Program
<1>2. Converting
  BY <1>1, MovesFacts DEF Converting
<1>3. stmt \in Statements /\ PlaceBook /\ MemBook
  BY <1>2, ConvFacts
<1>4. stmt' \in Statements /\ stmt'.op = "move monitor" /\ stmt'.row = stmt.row + 1
  BY <1>1, <1>3, NextStatement
<1>5. Rows = origin.monitor /\ mem.monitor = origin.monitor
  BY <1>1, <1>3, RowsAre DEF MemBook, SameRows
<1>6. stmt.row # 0
  BY <1>1, <1>3 DEF PlaceBook
<1> QED
  BY <1>1, <1>2, <1>4, <1>5, <1>6 DEF MoveMonitor

LEMMA MoveMonitorKeeps == ASSUME ConvInv, MoveMonitor PROVE ConvInv'
<1>1. /\ Converting /\ prog' = "opening" /\ UNCHANGED <<origin, kills, mem>>
      /\ stmt.op = "move monitor" /\ stmt' \in Statements /\ stmt'.op = "move monitor"
      /\ stmt'.row = stmt.row + 1 /\ stmt.row # 0
      /\ stmt.row <= Len(origin.monitor)
  BY MoveMonitorDoes
<1>2. /\ stmt \in Statements /\ disk \in Tables /\ origin \in Tables /\ mapping \in Mappings
      /\ OriginBook /\ TablesBook /\ PlaceBook
  BY <1>1, ConvFacts
<1> DEFINE t == disk.test
           m == origin.monitor[stmt.row]
           x == Moved(m)
<1>3. /\ ClassesDone(stmt) = Len(origin.monitorclassinfo) /\ TestsDone(stmt) = stmt.row - 1
      /\ \A k \in Dictionaries : NamesDone(stmt, k) = 0 /\ EntriesDone(stmt, k) = 0
      /\ stmt.op \notin AfterSelect
  BY <1>1, <1>2, AtMonitor
<1>4. /\ ClassesDone(stmt') = Len(origin.monitorclassinfo)
      /\ TestsDone(stmt') = stmt'.row - 1
      /\ \A k \in Dictionaries : /\ NamesDone(stmt', k) = 0 /\ EntriesDone(stmt', k) = 0
                                 /\ ~NamesTyped(stmt', k)
      /\ stmt'.op \notin AfterSelect /\ stmt'.op # "insert variables"
      /\ stmt'.op \notin {"mark subtest", "mark scenario"} \cup AfterSubtests
  BY <1>1, AtMonitor
<1>5. Len(t) = T0 + (stmt.row - 1) /\ Shifted(mapping.test, Len(t), T0)
  BY <1>2, <1>3 DEF PlaceBook, TestPlace
<1>6. T0 \in Nat /\ Len(origin.monitor) \in Nat /\ Len(t) \in Nat
  BY <1>2, RowsOf DEF T0
<1>a. t \in Seq(TestRows)
  BY <1>2 DEF Tables
<1>b. stmt \in Statements /\ stmt' \in Statements /\ stmt'.row = stmt.row + 1
  BY <1>1, <1>2
<1>7. /\ Len(t) + 1 - T0 = stmt.row /\ Len(t) < T0 + Len(origin.monitor)
      /\ stmt.row \in 1..Len(origin.monitor) /\ T0 <= Len(t)
      /\ Len(t) + 1 = T0 + (stmt'.row - 1) /\ stmt'.row # 0
  <2>1. AtRow(stmt, T0, Len(t), Len(origin.monitor))
    BY <1>1, <1>5, <1>6, <1>b DEF AtRow
  <2> QED
    BY <1>b, <2>1, LoopRow
<1>c. /\ m.testid \in Nat /\ m.type \in Nat /\ m.type \in 1..Len(origin.monitorclassinfo)
  BY <1>2, <1>7, MonitorOf
<1>d. /\ Len(disk.testclassinfo) = C0 + Len(origin.monitorclassinfo)
      /\ Shifted(mapping.class, Len(disk.testclassinfo), C0)
  BY <1>2, <1>3 DEF PlaceBook, ClassPlace
<1>e. C0 \in Nat /\ Len(disk.testclassinfo) \in Nat /\ Len(origin.monitorclassinfo) \in Nat
  BY <1>2, RowsOf DEF C0
<1>f. mapping.class[m.type] = C0 + m.type
  <2>1. m.type \in 1..(Len(disk.testclassinfo) - C0)
    BY <1>c, <1>d, <1>e
  <2> QED
    BY <1>d, <1>e, <2>1, ShiftedAt
<1>8. x \in TestRows
  BY <1>c, <1>e DEF Moved, TestRows
<1>9. TestBook
  BY <1>2 DEF TablesBook
<1>10. /\ Append(t, x) \in Seq(TestRows) /\ Len(Append(t, x)) = Len(t) + 1
       /\ Appended(Append(t, x), T0, MovedTests)
       /\ \A i \in 1..T0 : Append(t, x)[i] = t[i]
  <2>1. Appended(t, T0, MovedTests)
    BY <1>9 DEF TestBook
  <2>2. Len(MovedTests) = Len(origin.monitor)
    BY <1>2, MovedLengths
  <2>3. x = MovedTests[Len(t) + 1 - T0]
    BY <1>7 DEF MovedTests
  <2>4. CanGrow(TestRows, t, x, T0, MovedTests)
    BY <1>6, <1>7, <1>8, <1>a, <2>1, <2>2, <2>3 DEF CanGrow
  <2>5. Grown(TestRows, t, x, T0, MovedTests)
    BY <2>4, OneAppended
  <2> QED
    BY <2>5 DEF Grown
<1>11. /\ disk' \in Tables /\ disk'.test = Append(t, x)
       /\ UNCHANGED <<disk.testclassinfo, disk.names, disk.entries, disk.env, disk.version,
                      disk.parts>>
  <2>1. disk \in Tables /\ Append(t, x) \in Seq(TestRows)
    BY <1>2, <1>10
  <2>2. disk' = [disk EXCEPT !.test = Append(t, x)]
    BY <1>f, MoveMonitorDoes DEF Moved
  <2> QED
    BY <2>1, <2>2, Set_test
<1>12. /\ mapping' \in Mappings /\ mapping'.test = Append(mapping.test, Len(t) + 1)
       /\ UNCHANGED <<mapping.class, mapping.name>>
  <2>1. Append(mapping.test, Len(t) + 1) \in Seq(Nat)
    BY <1>2, <1>6 DEF Mappings
  <2>2. mapping' = [mapping EXCEPT !.test = Append(mapping.test, Len(t) + 1)]
    BY MoveMonitorDoes
  <2>3. mapping \in Mappings
    BY <1>2
  <2> QED
    BY <2>1, <2>2, <2>3, Set_mappedtest
<1>13. ClassBook'
  <2>1. ClassBook
    BY <1>2 DEF TablesBook
  <2> QED
    BY <1>1, <1>11, <2>1, OriginStays DEF ClassBook
<1>14. TestBook'
  <2>1. T0' = T0 /\ C0' = C0 /\ MovedTests' = MovedTests /\ origin' = origin
    BY <1>1, OriginStays
  <2>2. Appended(disk.test, T0, MovedTests)'
    BY <1>10, <1>11, <2>1
  <2>3. \A i \in 1..T0 : ~disk'.test[i].ismonitor
    BY <1>9, <1>10, <1>11 DEF TestBook
  <2>4. Len(disk'.testclassinfo) = C0' + Len(origin'.monitorclassinfo)
    BY <1>11, <1>d, <2>1
  <2> QED
    BY <2>1, <2>2, <2>3, <2>4 DEF TestBook
<1>15. ASSUME NEW k \in Dictionaries PROVE NameBook(k)' /\ EntryBook(k)'
  <2>1. NameBook(k) /\ EntryBook(k) /\ EntryPlace(k)
    BY <1>2 DEF TablesBook, PlaceBook
  <2>2. Len(disk.entries[k]) = E0(k) /\ E0(k) \in Nat
    BY <1>2, <1>3, <2>1, RowsOf DEF EntryPlace, E0
  <2>3. ~(Len(disk.entries[k]) > E0(k))
    BY <2>2
  <2> QED
    BY <1>1, <1>11, <2>1, <2>3, NameBookStays, EntryBookStays
<1>16. TestPlace'
  <2>1. Len(disk.test)' = T0' + TestsDone(stmt)'
    BY <1>1, <1>4, <1>7, <1>10, <1>11, OriginStays, DoneStays
  <2>2. Shifted(Append(mapping.test, Len(t) + 1), Len(t) + 1, T0)
    BY <1>5, <1>6, <1>7, ShiftedOn
  <2>3. Shifted(mapping'.test, Len(disk'.test), T0')
    BY <1>1, <1>10, <1>11, <1>12, <2>2, OriginStays
  <2> QED
    BY <2>1, <2>3 DEF TestPlace
<1>17. PlaceBook'
  <2>1. ClassPlace /\ EnvPlace /\ MemBook
        /\ \A k \in Dictionaries : NamePlace(k) /\ EntryPlace(k)
    BY <1>2 DEF PlaceBook
  <2>2. ClassPlace' /\ EnvPlace' /\ MemBook' /\ SubtestPlace'
    BY <1>1, <1>3, <1>4, <1>11, <1>12, <2>1, ClassStays, EnvLater, MemStays, SubtestLater
  <2>3. ASSUME NEW k \in Dictionaries PROVE NamePlace(k)' /\ EntryPlace(k)'
    BY <1>1, <1>3, <1>4, <1>11, <1>12, <2>1, NameStays, EntryStays
  <2> QED
    BY <1>7, <1>16, <2>2, <2>3 DEF PlaceBook
<1> QED
  <2>1. TablesBook'
    BY <1>11, <1>13, <1>14, <1>15 DEF TablesBook
  <2>2. stmt'.op \in ConvertOps /\ stmt'.op \in Moving
    BY <1>1, MovesFacts
  <2> QED
    BY <1>1, <1>11, <1>12, <1>17, <2>1, <2>2, ConvStep

LEMMA NameOf ==
    ASSUME OriginBook, NEW k \in Dictionaries, NEW i \in 1..N0(k)
    PROVE  /\ origin.names[k][i] \in NameRows
           /\ TypeOf(origin.names[k][i]) \in {"type"} \X STRING
<1>1. IsOld(origin) /\ origin \in Tables
  BY DEF OriginBook, IsOld
<1>2. i \in DOMAIN origin.names[k] /\ i \in 1..Len(origin.names[k])
  BY <1>1, RowsOf DEF N0
<1>3. origin.names[k] \in Seq(NameRows) /\ origin.testclassinfo \in Seq(ClassRows)
  BY <1>1 DEF Tables
<1>4. PICK c \in DOMAIN origin.testclassinfo : origin.names[k][i].container = ById(c)
  BY <1>1, <1>2 DEF IsOld
<1>5. origin.names[k][i].container[2] = c
  BY <1>4 DEF ById
<1>6. origin.testclassinfo[c] \in ClassRows
  BY <1>1, <1>3, RowsOf, ElementOfSeq
<1>7. origin.testclassinfo[c].type \in STRING
  BY <1>6 DEF ClassRows
<1>8. TypeOf(origin.names[k][i]) = <<"type", origin.testclassinfo[c].type>>
  BY <1>5 DEF TypeOf, ByType
<1>9. origin.names[k][i] \in NameRows
  BY <1>2, <1>3, ElementOfSeq
<1> QED
  BY <1>7, <1>8, <1>9

LEMMA MonitorNameOf ==
    ASSUME OriginBook, NEW k \in Dictionaries, NEW i \in 1..Len(origin.mnames[k])
    PROVE  MovedName(origin.mnames[k][i]) \in NameRows
<1>1. IsOld(origin) /\ origin \in Tables
  BY DEF OriginBook, IsOld
<1>2. i \in DOMAIN origin.mnames[k]
  BY <1>1, RowsOf
<1>3. origin.mnames[k] \in Seq(MonitorNameRows) /\ origin.monitorclassinfo \in Seq(ClassRows)
  BY <1>1 DEF Tables
<1> DEFINE n == origin.mnames[k][i]
<1>4. n \in MonitorNameRows
  BY <1>3, ElementOfSeq
<1>5. n.container \in DOMAIN origin.monitorclassinfo
  BY <1>1, <1>2 DEF IsOld
<1>6. origin.monitorclassinfo[n.container] \in ClassRows
  BY <1>1, <1>3, <1>5, RowsOf, ElementOfSeq
<1>7. origin.monitorclassinfo[n.container].type \in STRING /\ n.name \in STRING
  BY <1>4, <1>6 DEF ClassRows, MonitorNameRows
<1> QED
  BY <1>7 DEF MovedName, ByType, NameRows

LEMMA MonitorEntryOf ==
    ASSUME OriginBook, NEW k \in Dictionaries, NEW i \in 1..Len(origin.mentries[k])
    PROVE  /\ origin.mentries[k][i].container \in 1..Len(origin.monitor)
           /\ origin.mentries[k][i].container \in Nat
           /\ origin.mentries[k][i].name \in 1..Len(origin.mnames[k])
           /\ origin.mentries[k][i].name \in Nat
<1>1. IsOld(origin) /\ origin \in Tables
  BY DEF OriginBook, IsOld
<1>2. i \in DOMAIN origin.mentries[k]
  BY <1>1, RowsOf
<1>3. origin.mentries[k] \in Seq(EntryRows)
  BY <1>1 DEF Tables
<1>4. origin.mentries[k][i] \in EntryRows
  BY <1>3, ElementOfSeq
<1>5. /\ origin.mentries[k][i].container \in DOMAIN origin.monitor
      /\ origin.mentries[k][i].name \in DOMAIN origin.mnames[k]
  BY <1>1, <1>2 DEF IsOld
<1> QED
  BY <1>1, <1>4, <1>5, RowsOf DEF EntryRows

\* The containers of the names.
LEMMA NameContainersDoes ==
    ASSUME ConvInv, NameContainers
    PROVE  /\ Converting /\ prog' = "opening" /\ UNCHANGED <<origin, kills, mem, mapping>>
           /\ stmt.op = "name containers" /\ stmt.kind \in Dictionaries
           /\ stmt' \in Statements /\ stmt'.row = 1
           /\ stmt.kind = "arguments" =>
                 stmt'.op = "name containers" /\ stmt'.kind = "extrainfo"
           /\ stmt.kind # "arguments" => stmt'.op = "move name" /\ stmt'.kind = "arguments"
           /\ disk' = [disk EXCEPT !.names[stmt.kind] =
                         [i \in 1..N0(stmt.kind) |->
                            [disk.names[stmt.kind][i] EXCEPT
                                !.container = TypeOf(origin.names[stmt.kind][i])]]]
<1>1. prog = "opening" /\ stmt.op = "name containers" /\ stmt' = Then("move name")
      /\ prog' = "opening" /\ UNCHANGED <<origin, kills, mem, mapping>>
  BY DEF NameContainers, Execute, Todo, Go, Program
<1>2. Converting
  BY <1>1, MovesFacts DEF Converting
<1>3. stmt \in Statements /\ MemBook /\ origin \in Tables
  BY <1>2, ConvFacts
<1>4. stmt.kind \in Dictionaries
  BY <1>3 DEF Statements
<1>5. /\ stmt' \in Statements /\ stmt'.row = 1
      /\ stmt.kind = "arguments" =>
            stmt'.op = "name containers" /\ stmt'.kind = "extrainfo"
      /\ stmt.kind # "arguments" => stmt'.op = "move name" /\ stmt'.kind = "arguments"
  BY <1>1, <1>3, ThenStatement, MovesFacts
<1>6. mem.names = origin.names /\ mem.testclassinfo = origin.testclassinfo
      /\ DOMAIN origin.names[stmt.kind] = 1..N0(stmt.kind)
  BY <1>3, <1>4, RowsOf DEF MemBook, SameRows, N0
<1>7. disk' = [disk EXCEPT !.names[stmt.kind] =
                 [i \in 1..N0(stmt.kind) |->
                    [disk.names[stmt.kind][i] EXCEPT
                        !.container = TypeOf(origin.names[stmt.kind][i])]]]
  BY <1>6 DEF NameContainers, Execute, TypeOf
<1> QED
  BY <1>1, <1>2, <1>4, <1>5, <1>7

LEMMA SequenceOf ==
    ASSUME NEW S, NEW n \in Nat, NEW f, f = [i \in 1..n |-> f[i]],
           \A i \in 1..n : f[i] \in S
    PROVE  f \in Seq(S) /\ Len(f) = n
OBVIOUS

LEMMA NameContainersKeeps == ASSUME ConvInv, NameContainers PROVE ConvInv'
<1>1. /\ Converting /\ prog' = "opening" /\ UNCHANGED <<origin, kills, mem, mapping>>
      /\ stmt.op = "name containers" /\ stmt.kind \in Dictionaries
      /\ stmt' \in Statements /\ stmt'.row = 1
      /\ stmt.kind = "arguments" => stmt'.op = "name containers" /\ stmt'.kind = "extrainfo"
      /\ stmt.kind # "arguments" => stmt'.op = "move name" /\ stmt'.kind = "arguments"
  BY NameContainersDoes
<1>2. /\ stmt \in Statements /\ disk \in Tables /\ origin \in Tables /\ mapping \in Mappings
      /\ OriginBook /\ TablesBook /\ PlaceBook
  BY <1>1, ConvFacts
<1>k. PICK kind \in Dictionaries : kind = stmt.kind
  BY <1>1
<1> DEFINE t == disk.names[kind]
           new == [i \in 1..N0(kind) |->
                      [t[i] EXCEPT !.container = TypeOf(origin.names[kind][i])]]
<1>3. /\ ClassesDone(stmt) = Len(origin.monitorclassinfo)
      /\ TestsDone(stmt) = Len(origin.monitor)
      /\ \A k \in Dictionaries :
            /\ NamesDone(stmt, k) = 0 /\ EntriesDone(stmt, k) = 0
            /\ NamesTyped(stmt, k) <=> stmt.kind = "extrainfo" /\ k = "arguments"
      /\ stmt.op \notin AfterSelect
  BY <1>1, <1>2, AtContainers
<1>4. /\ ClassesDone(stmt') = Len(origin.monitorclassinfo)
      /\ TestsDone(stmt') = Len(origin.monitor)
      /\ \A k \in Dictionaries :
            /\ NamesDone(stmt', k) = 0 /\ EntriesDone(stmt', k) = 0
            /\ NamesTyped(stmt', k) /\ k # kind => NamesTyped(stmt, k)
      /\ stmt'.op \notin AfterSelect /\ stmt'.op # "insert variables"
      /\ stmt'.op \notin {"mark subtest", "mark scenario"} \cup AfterSubtests
  <2>0. kind = stmt.kind
    BY <1>k
  <2>1. CASE stmt.kind = "arguments"
    BY <1>1, <2>0, <2>1, AtContainers
  <2>2. CASE stmt.kind = "extrainfo"
    <3>1. stmt'.op = "move name" /\ stmt'.kind = "arguments"
      BY <1>1, <2>2
    <3>2. \A k \in Dictionaries : NamesDone(stmt', k) = 0
      BY <1>1, <3>1, FirstRow, DictionariesAre, AtName
    <3>3. \A k \in Dictionaries : k # kind => NamesTyped(stmt, k)
      BY <1>3, <2>0, <2>2, DictionariesAre
    <3> QED
      BY <1>1, <3>1, <3>2, <3>3, AtName
  <2> QED
    BY <1>1, <2>1, <2>2, DictionariesAre
<1>5. NamePlace(kind) /\ NameBook(kind)
  BY <1>2 DEF TablesBook, PlaceBook
<1>6. Len(t) = N0(kind) /\ N0(kind) \in Nat
  <2>1. Len(t) = N0(kind) + NamesDone(stmt, kind)
    BY <1>5 DEF NamePlace
  <2>2. NamesDone(stmt, kind) = 0
    BY <1>3
  <2>3. N0(kind) \in Nat
    BY <1>2, RowsOf DEF N0
  <2> QED
    BY <2>1, <2>2, <2>3
<1>7. t \in Seq(NameRows)
  BY <1>2 DEF Tables
<1>8. ASSUME NEW i \in 1..N0(kind)
      PROVE  /\ new[i] \in NameRows /\ new[i].name = origin.names[kind][i].name
             /\ new[i].container = TypeOf(origin.names[kind][i])
  <2>1. TypeOf(origin.names[kind][i]) \in {"type"} \X STRING
    BY <1>2, NameOf
  <2>2. t[i] \in NameRows
    BY <1>6, <1>7, ElementOfSeq
  <2>3. t[i].name = origin.names[kind][i].name
    BY <1>5 DEF NameBook
  <2>4. new[i] = [t[i] EXCEPT !.container = TypeOf(origin.names[kind][i])]
    OBVIOUS
  <2> QED
    BY <2>1, <2>2, <2>3, <2>4 DEF NameRows
<1>9. new = [i \in 1..N0(kind) |-> new[i]]
  OBVIOUS
<1>10. disk' = [disk EXCEPT !.names[kind] = new]
  BY <1>k, NameContainersDoes
<1> HIDE DEF new
<1>a. new \in Seq(NameRows) /\ Len(new) = N0(kind)
  BY <1>6, <1>8, <1>9, SequenceOf
<1>11. /\ disk' \in Tables /\ disk'.names[kind] = new
       /\ \A k \in Dictionaries : k # kind => disk'.names[k] = disk.names[k]
       /\ UNCHANGED <<disk.testclassinfo, disk.test, disk.entries, disk.env, disk.version,
                      disk.parts>>
  <2>1. disk \in Tables
    BY <1>2
  <2> QED
    BY <1>a, <1>10, <2>1, Set_namesof
<1>13. ClassBook' /\ TestBook'
  <2>1. ClassBook /\ TestBook
    BY <1>2 DEF TablesBook
  <2> QED
    BY <1>1, <1>11, <2>1, TestBookStays, OriginStays DEF ClassBook
<1>14. NameBook(kind)' /\ Named(kind)'
  <2>1. N0(kind)' = N0(kind) /\ MovedNames(kind)' = MovedNames(kind) /\ origin' = origin
        /\ \A n : TypeOf(n)' = TypeOf(n)
    BY <1>1, OriginStays
  <2> QED
    BY <1>8, <1>a, <1>11, <2>1, NoneAppended DEF NameBook, Named
<1>15. ASSUME NEW k \in Dictionaries
       PROVE  NameBook(k)' /\ EntryBook(k)' /\ NamePlace(k)' /\ EntryPlace(k)'
  <2>1. NameBook(k) /\ EntryBook(k) /\ NamePlace(k) /\ EntryPlace(k)
    BY <1>2 DEF TablesBook, PlaceBook
  <2>2. NamesDone(stmt', k) = NamesDone(stmt, k) /\ EntriesDone(stmt', k) = EntriesDone(stmt, k)
    BY <1>3, <1>4
  <2>3. Len(disk.names[k])' = Len(disk.names[k])
    BY <1>6, <1>a, <1>11
  <2>4. EntryBook(k)' /\ EntryPlace(k)'
    BY <1>1, <1>11, <2>1, <2>2, <2>3, EntryBookStays, EntryStays
  <2>5. NameBook(k)'
    BY <1>1, <1>11, <1>14, <2>1, NameBookStays
  <2>6. NamesTyped(stmt', k) => Named(k)'
    <3>1. CASE k = kind
      BY <1>14, <3>1
    <3>2. CASE k # kind
      <4>1. NamesTyped(stmt', k) => Named(k)
        BY <1>4, <2>1, <3>2 DEF NamePlace
      <4>2. Named(k)' = Named(k)
        BY <1>1, <1>11, <3>2 DEF Named, N0, TypeOf
      <4> QED
        BY <4>1, <4>2
    <3> QED
      BY <3>1, <3>2
  <2>7. NamePlace(k)'
    BY <1>1, <2>1, <2>2, <2>3, <2>6, NameStays
  <2> QED
    BY <2>4, <2>5, <2>7
<1>17. PlaceBook'
  <2>1. ClassPlace /\ TestPlace /\ EnvPlace /\ MemBook
    BY <1>2 DEF PlaceBook
  <2>2. ClassPlace' /\ TestPlace' /\ EnvPlace' /\ MemBook' /\ SubtestPlace'
    BY <1>1, <1>3, <1>4, <1>11, <2>1, ClassStays, TestStays, EnvLater, MemStays, SubtestLater
  <2>3. stmt'.row # 0
    BY <1>1, FirstRow
  <2> QED
    BY <1>15, <2>2, <2>3 DEF PlaceBook
<1> QED
  <2>1. TablesBook'
    BY <1>11, <1>13, <1>15 DEF TablesBook
  <2>2. stmt'.op \in ConvertOps /\ stmt'.op \in Moving
    BY <1>1, MovesFacts
  <2> QED
    BY <1>1, <1>2, <1>11, <1>17, <2>1, <2>2, ConvStep

-----------------------------------------------------------------------------
(* Their entries.                                                          *)

LEMMA MoveNameDoes ==
    ASSUME ConvInv, MoveName
    PROVE  /\ Converting /\ prog' = "opening" /\ UNCHANGED <<origin, kills, mem>>
           /\ stmt.op = "move name" /\ stmt.kind \in Dictionaries
           /\ stmt' \in Statements /\ stmt'.op = "move name" /\ stmt'.kind = stmt.kind
           /\ stmt'.row = stmt.row + 1 /\ stmt.row # 0
           /\ stmt.row <= Len(origin.mnames[stmt.kind])
           /\ disk' = [disk EXCEPT !.names[stmt.kind] =
                          Append(disk.names[stmt.kind],
                                 MovedName(origin.mnames[stmt.kind][stmt.row]))]
           /\ mapping' = [mapping EXCEPT !.name[stmt.kind] =
                             Append(mapping.name[stmt.kind], Len(disk.names[stmt.kind]) + 1)]
<1>1. prog = "opening" /\ stmt.op = "move name" /\ stmt.row <= Len(Rows)
      /\ stmt' = NextRow /\ prog' = "opening" /\ UNCHANGED <<origin, kills, mem>>
  BY DEF MoveName, Each, Todo, Go, Program
<1>2. Converting
  BY <1>1, MovesFacts DEF Converting
<1>3. stmt \in Statements /\ PlaceBook /\ MemBook
  BY <1>2, ConvFacts
<1>4. stmt' \in Statements /\ stmt'.op = "move name" /\ stmt'.row = stmt.row + 1
      /\ stmt'.kind = stmt.kind /\ stmt.kind \in Dictionaries
  BY <1>1, <1>3, NextStatement DEF Statements
<1>5. /\ Rows = origin.mnames[stmt.kind] /\ mem.mnames = origin.mnames
      /\ mem.monitorclassinfo = origin.monitorclassinfo
  BY <1>1, <1>3, RowsAre DEF MemBook, SameRows
<1>6. stmt.row # 0
  BY <1>1, <1>3 DEF PlaceBook
<1>7. disk' = [disk EXCEPT !.names[stmt.kind] =
                  Append(disk.names[stmt.kind],
                         MovedName(origin.mnames[stmt.kind][stmt.row]))]
  BY <1>5 DEF MoveName, MovedName
<1>8. mapping' = [mapping EXCEPT !.name[stmt.kind] =
                     Append(mapping.name[stmt.kind], Len(disk.names[stmt.kind]) + 1)]
  BY DEF MoveName
<1> QED
  BY <1>1, <1>2, <1>4, <1>5, <1>6, <1>7, <1>8

LEMMA MoveNameKeeps == ASSUME ConvInv, MoveName PROVE ConvInv'
<1>1. /\ Converting /\ prog' = "opening" /\ UNCHANGED <<origin, kills, mem>>
      /\ stmt.op = "move name" /\ stmt.kind \in Dictionaries
      /\ stmt' \in Statements /\ stmt'.op = "move name" /\ stmt'.kind = stmt.kind
      /\ stmt'.row = stmt.row + 1 /\ stmt.row # 0
      /\ stmt.row <= Len(origin.mnames[stmt.kind])
  BY MoveNameDoes
<1>2. /\ stmt \in Statements /\ disk \in Tables /\ origin \in Tables /\ mapping \in Mappings
      /\ OriginBook /\ TablesBook /\ PlaceBook
  BY <1>1, ConvFacts
<1>k. PICK kind \in Dictionaries : kind = stmt.kind
  BY <1>1
<1> DEFINE t == disk.names[kind]
           all == Len(origin.mnames[kind])
           x == MovedName(origin.mnames[kind][stmt.row])
<1>3. /\ ClassesDone(stmt) = Len(origin.monitorclassinfo)
      /\ TestsDone(stmt) = Len(origin.monitor) /\ NamesDone(stmt, kind) = stmt.row - 1
      /\ \A k \in Dictionaries : EntriesDone(stmt, k) = 0 /\ NamesTyped(stmt, k)
      /\ stmt.op \notin AfterSelect
  BY <1>1, <1>2, <1>k, AtName
<1>4. /\ ClassesDone(stmt') = Len(origin.monitorclassinfo)
      /\ TestsDone(stmt') = Len(origin.monitor) /\ NamesDone(stmt', kind) = stmt'.row - 1
      /\ \A k \in Dictionaries : EntriesDone(stmt', k) = 0
      /\ stmt'.op \notin AfterSelect /\ stmt'.op # "insert variables"
      /\ stmt'.op \notin {"mark subtest", "mark scenario"} \cup AfterSubtests
  BY <1>1, <1>k, AtName
<1>c. ASSUME NEW k \in Dictionaries, k # kind
      PROVE  NamesDone(stmt', k) = NamesDone(stmt, k)
  <2>1. CASE kind = "arguments"
    BY <1>1, <1>2, <1>c, <1>k, <2>1, DictionariesAre, AtName
  <2>2. CASE kind = "extrainfo"
    BY <1>1, <1>2, <1>c, <1>k, <2>2, DictionariesAre, AtName
  <2> QED
    BY <2>1, <2>2, DictionariesAre
<1>d. NamePlace(kind) /\ NameBook(kind)
  BY <1>2 DEF TablesBook, PlaceBook
<1>5. Len(t) = N0(kind) + (stmt.row - 1) /\ Shifted(mapping.name[kind], Len(t), N0(kind))
      /\ Named(kind)
  BY <1>3, <1>d DEF NamePlace
<1>6. N0(kind) \in Nat /\ all \in Nat /\ Len(t) \in Nat
  BY <1>2, RowsOf DEF N0
<1>a. t \in Seq(NameRows)
  BY <1>2 DEF Tables
<1>b. stmt \in Statements /\ stmt' \in Statements /\ stmt'.row = stmt.row + 1
  BY <1>1, <1>2
<1>7. /\ Len(t) + 1 - N0(kind) = stmt.row /\ Len(t) < N0(kind) + all
      /\ stmt.row \in 1..all /\ N0(kind) <= Len(t)
      /\ Len(t) + 1 = N0(kind) + (stmt'.row - 1) /\ stmt'.row # 0
  <2>1. AtRow(stmt, N0(kind), Len(t), all)
    BY <1>1, <1>5, <1>6, <1>b, <1>k DEF AtRow
  <2> QED
    BY <1>b, <2>1, LoopRow
<1>8. x \in NameRows
  BY <1>2, <1>7, MonitorNameOf
<1>10. /\ Append(t, x) \in Seq(NameRows) /\ Len(Append(t, x)) = Len(t) + 1
       /\ Appended(Append(t, x), N0(kind), MovedNames(kind))
       /\ \A i \in 1..N0(kind) : Append(t, x)[i] = t[i]
  <2>1. Appended(t, N0(kind), MovedNames(kind))
    BY <1>d DEF NameBook
  <2>2. Len(MovedNames(kind)) = all
    BY <1>2, MovedLengths
  <2>3. x = MovedNames(kind)[Len(t) + 1 - N0(kind)]
    BY <1>7 DEF MovedNames
  <2>4. CanGrow(NameRows, t, x, N0(kind), MovedNames(kind))
    BY <1>6, <1>7, <1>8, <1>a, <2>1, <2>2, <2>3 DEF CanGrow
  <2>5. Grown(NameRows, t, x, N0(kind), MovedNames(kind))
    BY <2>4, OneAppended
  <2> QED
    BY <2>5 DEF Grown
<1>11. /\ disk' \in Tables /\ disk'.names[kind] = Append(t, x)
       /\ \A k \in Dictionaries : k # kind => disk'.names[k] = disk.names[k]
       /\ UNCHANGED <<disk.testclassinfo, disk.test, disk.entries, disk.env, disk.version,
                      disk.parts>>
  <2>1. disk \in Tables /\ Append(t, x) \in Seq(NameRows)
    BY <1>2, <1>10
  <2>2. disk' = [disk EXCEPT !.names[kind] = Append(t, x)]
    BY <1>k, MoveNameDoes
  <2>3. PICK new \in Seq(NameRows) : new = Append(t, x)
    BY <2>1
  <2>4. disk \in Tables
    BY <2>1
  <2>5. disk' = [disk EXCEPT !.names[kind] = new]
    BY <2>2, <2>3
  <2>6. /\ disk' \in Tables /\ disk'.names[kind] = new
        /\ \A k \in Dictionaries : k # kind => disk'.names[k] = disk.names[k]
        /\ UNCHANGED <<disk.testclassinfo, disk.test, disk.entries, disk.env, disk.version,
                       disk.parts>>
    BY <2>4, <2>5, Set_namesof
  <2> QED
    BY <2>3, <2>6
<1>12. /\ mapping' \in Mappings /\ mapping'.name[kind] = Append(mapping.name[kind], Len(t) + 1)
       /\ \A k \in Dictionaries : k # kind => mapping'.name[k] = mapping.name[k]
       /\ UNCHANGED <<mapping.class, mapping.test>>
  <2>1. Append(mapping.name[kind], Len(t) + 1) \in Seq(Nat)
    BY <1>2, <1>6 DEF Mappings
  <2>2. mapping' = [mapping EXCEPT !.name[kind] = Append(mapping.name[kind], Len(t) + 1)]
    BY <1>k, MoveNameDoes
  <2>3. mapping \in Mappings
    BY <1>2
  <2>4. PICK ids \in Seq(Nat) : ids = Append(mapping.name[kind], Len(t) + 1)
    BY <2>1
  <2>5. mapping' = [mapping EXCEPT !.name[kind] = ids]
    BY <2>2, <2>4
  <2>6. /\ mapping' \in Mappings /\ mapping'.name[kind] = ids
        /\ \A k \in Dictionaries : k # kind => mapping'.name[k] = mapping.name[k]
        /\ UNCHANGED <<mapping.class, mapping.test>>
    BY <2>3, <2>5, Set_mappedname
  <2> QED
    BY <2>4, <2>6
<1>e. N0(kind)' = N0(kind) /\ MovedNames(kind)' = MovedNames(kind) /\ origin' = origin
      /\ \A n : TypeOf(n)' = TypeOf(n)
  BY <1>1, OriginStays
<1>13. ClassBook' /\ TestBook'
  <2>1. ClassBook /\ TestBook
    BY <1>2 DEF TablesBook
  <2> QED
    BY <1>1, <1>11, <2>1, TestBookStays, OriginStays DEF ClassBook
<1>14. NameBook(kind)' /\ Named(kind)'
  <2>1. \A i \in 1..N0(kind) : disk'.names[kind][i] = t[i]
    BY <1>10, <1>11
  <2>2. Appended(disk'.names[kind], N0(kind), MovedNames(kind))
    BY <1>10, <1>11
  <2>3. NameBook(kind)'
    BY <1>d, <1>e, <2>1, <2>2 DEF NameBook
  <2>4. Named(kind)'
    BY <1>5, <1>e, <2>1 DEF Named
  <2> QED
    BY <2>3, <2>4
<1>15. NamePlace(kind)'
  <2>1. Len(disk'.names[kind]) = N0(kind) + NamesDone(stmt', kind)
    BY <1>4, <1>7, <1>10, <1>11
  <2>2. Shifted(Append(mapping.name[kind], Len(t) + 1), Len(t) + 1, N0(kind))
    BY <1>5, <1>6, <1>7, ShiftedOn
  <2>3. Shifted(mapping'.name[kind], Len(disk'.names[kind]), N0(kind)')
    BY <1>10, <1>11, <1>12, <1>e, <2>2
  <2>4. NamesDone(stmt, kind)' = NamesDone(stmt', kind)
    BY <1>1, DoneStays
  <2> QED
    BY <1>14, <1>e, <2>1, <2>3, <2>4 DEF NamePlace
<1>16. ASSUME NEW k \in Dictionaries
       PROVE  NameBook(k)' /\ EntryBook(k)' /\ NamePlace(k)' /\ EntryPlace(k)'
  <2>1. NameBook(k) /\ EntryBook(k) /\ NamePlace(k) /\ EntryPlace(k)
    BY <1>2 DEF TablesBook, PlaceBook
  <2>2. EntriesDone(stmt', k) = EntriesDone(stmt, k) /\ EntriesDone(stmt, k) = 0
    BY <1>3, <1>4
  <2>3. Len(disk.entries[k]) = E0(k) /\ E0(k) \in Nat
    BY <1>2, <2>1, <2>2, RowsOf DEF EntryPlace, E0
  <2>4. ~(Len(disk.entries[k]) > E0(k))
    BY <2>3
  <2>5. EntryBook(k)' /\ EntryPlace(k)'
    BY <1>1, <1>11, <2>1, <2>2, <2>4, EntryBookStays, EntryStays
  <2>6. CASE k = kind
    BY <1>14, <1>15, <2>5, <2>6
  <2>7. CASE k # kind
    <3>1. NameBook(k)'
      BY <1>1, <1>11, <2>1, <2>7, NameBookStays
    <3>2. Named(k)' /\ mapping'.name[k] = mapping.name[k]
      BY <1>1, <1>3, <1>11, <1>12, <2>1, <2>7 DEF Named, N0, TypeOf, NamePlace
    <3>3. NamesDone(stmt, k)' = NamesDone(stmt, k)
      BY <1>1, <1>c, <2>7, DoneStays
    <3>4. disk'.names[k] = disk.names[k] /\ N0(k)' = N0(k)
      BY <1>1, <1>11, <2>7, OriginStays
    <3>5. NamePlace(k)'
      BY <2>1, <3>2, <3>3, <3>4 DEF NamePlace
    <3> QED
      BY <2>5, <3>1, <3>5
  <2> QED
    BY <2>6, <2>7
<1>17. PlaceBook'
  <2>1. ClassPlace /\ TestPlace /\ EnvPlace /\ MemBook
    BY <1>2 DEF PlaceBook
  <2>2. ClassPlace' /\ TestPlace' /\ EnvPlace' /\ MemBook' /\ SubtestPlace'
    BY <1>1, <1>3, <1>4, <1>11, <1>12, <2>1, ClassStays, TestStays, EnvLater, MemStays,
       SubtestLater
  <2> QED
    BY <1>7, <1>16, <2>2 DEF PlaceBook
<1> QED
  <2>1. TablesBook'
    BY <1>11, <1>13, <1>16 DEF TablesBook
  <2>2. stmt'.op \in ConvertOps /\ stmt'.op \in Moving
    BY <1>1, MovesFacts
  <2> QED
    BY <1>1, <1>11, <1>12, <1>17, <2>1, <2>2, ConvStep

-----------------------------------------------------------------------------
(* The ends of the loops.                                                  *)

LEMMA MoveEntryDoes ==
    ASSUME ConvInv, MoveEntry
    PROVE  /\ Converting /\ prog' = "opening" /\ UNCHANGED <<origin, kills, mem, mapping>>
           /\ stmt.op = "move entry" /\ stmt.kind \in Dictionaries
           /\ stmt' \in Statements /\ stmt'.op = "move entry" /\ stmt'.kind = stmt.kind
           /\ stmt'.row = stmt.row + 1 /\ stmt.row # 0
           /\ stmt.row <= Len(origin.mentries[stmt.kind])
           /\ LET e == origin.mentries[stmt.kind][stmt.row] IN
              disk' = [disk EXCEPT !.entries[stmt.kind] =
                         Append(disk.entries[stmt.kind],
                                [container |-> mapping.test[e.container],
                                 name |-> mapping.name[stmt.kind][e.name]])]
<1>1. prog = "opening" /\ stmt.op = "move entry" /\ stmt.row <= Len(Rows)
      /\ stmt' = NextRow /\ prog' = "opening" /\ UNCHANGED <<origin, kills, mem, mapping>>
  BY DEF MoveEntry, Execute, Each, Todo, Go, Program
<1>2. Converting
  BY <1>1, MovesFacts DEF Converting
<1>3. stmt \in Statements /\ PlaceBook /\ MemBook
  BY <1>2, ConvFacts
<1>4. stmt' \in Statements /\ stmt'.op = "move entry" /\ stmt'.row = stmt.row + 1
      /\ stmt'.kind = stmt.kind /\ stmt.kind \in Dictionaries
  BY <1>1, <1>3, NextStatement DEF Statements
<1>5. Rows = origin.mentries[stmt.kind] /\ mem.mentries = origin.mentries
  BY <1>1, <1>3, RowsAre DEF MemBook, SameRows
<1>6. stmt.row # 0
  BY <1>1, <1>3 DEF PlaceBook
<1>7. LET e == origin.mentries[stmt.kind][stmt.row] IN
      disk' = [disk EXCEPT !.entries[stmt.kind] =
                 Append(disk.entries[stmt.kind],
                        [container |-> mapping.test[e.container],
                         name |-> mapping.name[stmt.kind][e.name]])]
  BY <1>5 DEF MoveEntry, Execute
<1> QED
  BY <1>1, <1>2, <1>4, <1>5, <1>6, <1>7

LEMMA MoveEntryKeeps == ASSUME ConvInv, MoveEntry PROVE ConvInv'
<1>1. /\ Converting /\ prog' = "opening" /\ UNCHANGED <<origin, kills, mem, mapping>>
      /\ stmt.op = "move entry" /\ stmt.kind \in Dictionaries
      /\ stmt' \in Statements /\ stmt'.op = "move entry" /\ stmt'.kind = stmt.kind
      /\ stmt'.row = stmt.row + 1 /\ stmt.row # 0
      /\ stmt.row <= Len(origin.mentries[stmt.kind])
  BY MoveEntryDoes
<1>2. /\ stmt \in Statements /\ disk \in Tables /\ origin \in Tables /\ mapping \in Mappings
      /\ OriginBook /\ TablesBook /\ PlaceBook
  BY <1>1, ConvFacts
<1>k. PICK kind \in Dictionaries : kind = stmt.kind
  BY <1>1
<1> DEFINE t == disk.entries[kind]
           all == Len(origin.mentries[kind])
           e == origin.mentries[kind][stmt.row]
           x == MovedEntry(kind, e)
<1>3. /\ ClassesDone(stmt) = Len(origin.monitorclassinfo)
      /\ TestsDone(stmt) = Len(origin.monitor) /\ EntriesDone(stmt, kind) = stmt.row - 1
      /\ \A k \in Dictionaries :
            NamesDone(stmt, k) = Len(origin.mnames[k]) /\ NamesTyped(stmt, k)
      /\ stmt.op \notin AfterSelect
  BY <1>1, <1>2, <1>k, AtEntry
<1>4. /\ ClassesDone(stmt') = Len(origin.monitorclassinfo)
      /\ TestsDone(stmt') = Len(origin.monitor) /\ EntriesDone(stmt', kind) = stmt'.row - 1
      /\ \A k \in Dictionaries : NamesDone(stmt', k) = Len(origin.mnames[k])
      /\ stmt'.op \notin AfterSelect /\ stmt'.op # "insert variables"
      /\ stmt'.op \notin {"mark subtest", "mark scenario"} \cup AfterSubtests
  BY <1>1, <1>k, AtEntry
<1>c. ASSUME NEW k \in Dictionaries, k # kind
      PROVE  EntriesDone(stmt', k) = EntriesDone(stmt, k)
  <2>1. CASE kind = "arguments"
    BY <1>1, <1>2, <1>c, <1>k, <2>1, DictionariesAre, AtEntry
  <2>2. CASE kind = "extrainfo"
    BY <1>1, <1>2, <1>c, <1>k, <2>2, DictionariesAre, AtEntry
  <2> QED
    BY <2>1, <2>2, DictionariesAre
<1>d. /\ EntryPlace(kind) /\ EntryBook(kind) /\ NamePlace(kind) /\ TestPlace
  BY <1>2 DEF TablesBook, PlaceBook
<1>5. Len(t) = E0(kind) + (stmt.row - 1)
  BY <1>3, <1>d DEF EntryPlace
<1>6. E0(kind) \in Nat /\ all \in Nat /\ Len(t) \in Nat
  BY <1>2, RowsOf DEF E0
<1>a. t \in Seq(EntryRows)
  BY <1>2 DEF Tables
<1>b. stmt \in Statements /\ stmt' \in Statements /\ stmt'.row = stmt.row + 1
  BY <1>1, <1>2
<1>7. /\ Len(t) + 1 - E0(kind) = stmt.row /\ Len(t) < E0(kind) + all
      /\ stmt.row \in 1..all /\ E0(kind) <= Len(t)
      /\ Len(t) + 1 = E0(kind) + (stmt'.row - 1) /\ stmt'.row # 0
  <2>1. AtRow(stmt, E0(kind), Len(t), all)
    BY <1>1, <1>5, <1>6, <1>b, <1>k DEF AtRow
  <2> QED
    BY <1>b, <2>1, LoopRow
<1>e. /\ e.container \in 1..Len(origin.monitor) /\ e.container \in Nat
      /\ e.name \in 1..Len(origin.mnames[kind]) /\ e.name \in Nat
  BY <1>2, <1>7, MonitorEntryOf
<1>f. /\ Len(disk.test) = T0 + Len(origin.monitor) /\ Shifted(mapping.test, Len(disk.test), T0)
      /\ Len(disk.names[kind]) = N0(kind) + Len(origin.mnames[kind])
      /\ Shifted(mapping.name[kind], Len(disk.names[kind]), N0(kind))
  BY <1>3, <1>d DEF TestPlace, NamePlace
<1>g. /\ T0 \in Nat /\ N0(kind) \in Nat /\ Len(origin.monitor) \in Nat
      /\ Len(origin.mnames[kind]) \in Nat
      /\ Len(disk.test) \in Nat /\ Len(disk.names[kind]) \in Nat
  BY <1>2, RowsOf DEF T0, N0
<1>h. mapping.test[e.container] = T0 + e.container
  <2>1. MovedRow(mapping.test, Len(disk.test), T0, Len(origin.monitor), e.container)
    BY <1>e, <1>f, <1>g DEF MovedRow
  <2> QED
    BY <2>1, ShiftedTo
<1>i. mapping.name[kind][e.name] = N0(kind) + e.name
  <2>1. MovedRow(mapping.name[kind], Len(disk.names[kind]), N0(kind),
                 Len(origin.mnames[kind]), e.name)
    BY <1>e, <1>f, <1>g DEF MovedRow
  <2> QED
    BY <2>1, ShiftedTo
<1>8. x \in EntryRows
  BY <1>e, <1>g DEF MovedEntry, EntryRows
<1>10. /\ Append(t, x) \in Seq(EntryRows) /\ Len(Append(t, x)) = Len(t) + 1
       /\ Appended(Append(t, x), E0(kind), MovedEntries(kind))
       /\ \A i \in 1..E0(kind) : Append(t, x)[i] = t[i]
  <2>1. Appended(t, E0(kind), MovedEntries(kind))
    BY <1>d DEF EntryBook
  <2>2. Len(MovedEntries(kind)) = all
    BY <1>2, MovedLengths
  <2>3. x = MovedEntries(kind)[Len(t) + 1 - E0(kind)]
    BY <1>7 DEF MovedEntries
  <2>4. CanGrow(EntryRows, t, x, E0(kind), MovedEntries(kind))
    BY <1>6, <1>7, <1>8, <1>a, <2>1, <2>2, <2>3 DEF CanGrow
  <2>5. Grown(EntryRows, t, x, E0(kind), MovedEntries(kind))
    BY <2>4, OneAppended
  <2> QED
    BY <2>5 DEF Grown
<1>11. /\ disk' \in Tables /\ disk'.entries[kind] = Append(t, x)
       /\ \A k \in Dictionaries : k # kind => disk'.entries[k] = disk.entries[k]
       /\ UNCHANGED <<disk.testclassinfo, disk.test, disk.names, disk.env, disk.version,
                      disk.parts>>
  <2>1. disk \in Tables
    BY <1>2
  <2>2. disk' = [disk EXCEPT !.entries[kind] = Append(t, x)]
    BY <1>k, <1>h, <1>i, MoveEntryDoes DEF MovedEntry
  <2>3. PICK new \in Seq(EntryRows) : new = Append(t, x)
    BY <1>10
  <2>4. disk' = [disk EXCEPT !.entries[kind] = new]
    BY <2>2, <2>3
  <2>5. /\ disk' \in Tables /\ disk'.entries[kind] = new
        /\ \A k \in Dictionaries : k # kind => disk'.entries[k] = disk.entries[k]
        /\ UNCHANGED <<disk.testclassinfo, disk.test, disk.names, disk.env, disk.version,
                       disk.parts>>
    BY <2>1, <2>4, Set_entriesof
  <2> QED
    BY <2>3, <2>5
<1>12. E0(kind)' = E0(kind) /\ N0(kind)' = N0(kind) /\ T0' = T0 /\ origin' = origin
       /\ MovedEntries(kind)' = MovedEntries(kind)
  BY <1>1, OriginStays
<1>13. ClassBook' /\ TestBook'
  <2>1. ClassBook /\ TestBook
    BY <1>2 DEF TablesBook
  <2> QED
    BY <1>1, <1>11, <2>1, TestBookStays, OriginStays DEF ClassBook
<1>14. EntryBook(kind)'
  <2>1. \A i \in 1..E0(kind) : disk'.entries[kind][i] = t[i]
    BY <1>10, <1>11
  <2>2. Appended(disk'.entries[kind], E0(kind), MovedEntries(kind))
    BY <1>10, <1>11
  <2>3. /\ Len(disk'.test) = T0' + Len(origin'.monitor)
        /\ Len(disk'.names[kind]) = N0(kind)' + Len(origin'.mnames[kind])
    BY <1>11, <1>12, <1>f
  <2> QED
    BY <1>d, <1>12, <2>1, <2>2, <2>3 DEF EntryBook
<1>15. EntryPlace(kind)'
  <2>1. Len(disk'.entries[kind]) = E0(kind) + EntriesDone(stmt', kind)
    BY <1>4, <1>7, <1>10, <1>11
  <2>2. EntriesDone(stmt, kind)' = EntriesDone(stmt', kind)
    BY <1>1, DoneStays
  <2> QED
    BY <1>12, <2>1, <2>2 DEF EntryPlace
<1>16. ASSUME NEW k \in Dictionaries
       PROVE  NameBook(k)' /\ EntryBook(k)' /\ NamePlace(k)' /\ EntryPlace(k)'
  <2>1. NameBook(k) /\ EntryBook(k) /\ NamePlace(k) /\ EntryPlace(k)
    BY <1>2 DEF TablesBook, PlaceBook
  <2>2. NamesDone(stmt', k) = NamesDone(stmt, k) /\ Named(k)
    BY <1>3, <1>4, <2>1 DEF NamePlace
  <2>3. NameBook(k)' /\ NamePlace(k)'
    BY <1>1, <1>11, <2>1, <2>2, NameBookStays, NamedStays, NameStays
  <2>4. CASE k = kind
    BY <1>14, <1>15, <2>3, <2>4
  <2>5. CASE k # kind
    <3>1. disk'.entries[k] = disk.entries[k] /\ E0(k)' = E0(k)
      BY <1>1, <1>11, <2>5, OriginStays
    <3>2. EntryBook(k)'
      BY <1>1, <1>11, <2>1, <3>1, EntryBookStays
    <3>3. EntriesDone(stmt, k)' = EntriesDone(stmt, k)
      BY <1>1, <1>c, <2>5, DoneStays
    <3> QED
      BY <2>1, <2>3, <3>1, <3>2, <3>3 DEF EntryPlace
  <2> QED
    BY <2>4, <2>5
<1>17. PlaceBook'
  <2>1. ClassPlace /\ TestPlace /\ EnvPlace /\ MemBook
    BY <1>2 DEF PlaceBook
  <2>2. ClassPlace' /\ TestPlace' /\ EnvPlace' /\ MemBook' /\ SubtestPlace'
    BY <1>1, <1>3, <1>4, <1>11, <2>1, ClassStays, TestStays, EnvLater, MemStays,
       SubtestLater
  <2> QED
    BY <1>7, <1>16, <2>2 DEF PlaceBook
<1> QED
  <2>1. TablesBook'
    BY <1>11, <1>13, <1>16 DEF TablesBook
  <2>2. stmt'.op \in ConvertOps /\ stmt'.op \in Moving
    BY <1>1, MovesFacts
  <2> QED
    BY <1>1, <1>2, <1>11, <1>17, <2>1, <2>2, ConvStep

-----------------------------------------------------------------------------
(* The subtests.                                                           *)

\* After the entries only the subtests and the environment are left.
LEMMA LateStep ==
    ASSUME ConvInv, Converting, UNCHANGED <<origin, kills, mapping>>,
           prog' = "opening", stmt.op \in AfterEntries,
           stmt' \in Statements, stmt'.op \in AfterEntries,
           stmt'.op # "insert variables" => stmt'.row # 0,
           disk' \in Tables, TestBook', Len(disk.test)' = Len(disk.test),
           UNCHANGED <<disk.testclassinfo, disk.names, disk.entries, disk.version,
                       disk.parts>>,
           MemBook', SubtestPlace', EnvPlace'
    PROVE  ConvInv'
<1>1. /\ stmt \in Statements /\ TablesBook /\ PlaceBook /\ mapping \in Mappings
  BY ConvFacts
<1>2. /\ ClassesDone(stmt') = ClassesDone(stmt) /\ TestsDone(stmt') = TestsDone(stmt)
      /\ \A k \in Dictionaries : /\ NamesDone(stmt', k) = NamesDone(stmt, k)
                                 /\ EntriesDone(stmt', k) = EntriesDone(stmt, k)
                                 /\ NamesTyped(stmt, k)
  BY <1>1, AtEnd
<1>3. ClassBook'
  <2>1. ClassBook
    BY <1>1 DEF TablesBook
  <2> QED
    BY <2>1, OriginStays DEF ClassBook
<1>4. ASSUME NEW k \in Dictionaries
      PROVE  NameBook(k)' /\ EntryBook(k)' /\ NamePlace(k)' /\ EntryPlace(k)'
  <2>1. NameBook(k) /\ EntryBook(k) /\ NamePlace(k) /\ EntryPlace(k)
    BY <1>1 DEF TablesBook, PlaceBook
  <2>2. Named(k)'
    BY <1>2, <2>1, NamedStays DEF NamePlace
  <2> QED
    BY <1>2, <2>1, <2>2, NameBookStays, EntryBookStays, NameStays, EntryStays
<1>5. PlaceBook'
  <2>1. ClassPlace /\ TestPlace
    BY <1>1 DEF PlaceBook
  <2>2. ClassPlace' /\ TestPlace'
    BY <1>2, <2>1, ClassStays, TestStays
  <2> QED
    BY <1>4, <2>2 DEF PlaceBook
<1>6. TablesBook'
  BY <1>3, <1>4 DEF TablesBook
<1>7. stmt'.op \in ConvertOps /\ stmt'.op \in Moving
  BY MovesFacts DEF ConvertOps
<1> QED
  BY <1>1, <1>5, <1>6, <1>7, ConvStep

\* The subtests.
LEMMA SubtestOf ==
    ASSUME OriginBook, NEW i \in 1..Len(origin.subtests)
    PROVE  /\ origin.subtests[i].testid \in 1..T0 /\ origin.subtests[i].testid \in Nat
           /\ origin.subtests[i].scenarioid \in 1..T0
           /\ origin.subtests[i].scenarioid \in Nat
           /\ \A j \in 1..Len(origin.subtests) :
                 origin.subtests[i].testid = origin.subtests[j].testid =>
                     origin.subtests[i] = origin.subtests[j]
<1>1. IsOld(origin) /\ origin \in Tables
  BY DEF OriginBook, IsOld
<1>2. DOMAIN origin.subtests = 1..Len(origin.subtests) /\ DOMAIN origin.test = 1..T0
  BY <1>1, RowsOf DEF T0
<1>3. origin.subtests[i] \in SubtestRows
  BY <1>1, ElementOfSeq DEF Tables
<1>4. /\ origin.subtests[i].testid \in DOMAIN origin.test
      /\ origin.subtests[i].scenarioid \in DOMAIN origin.test
      /\ \A j \in 1..Len(origin.subtests) :
            origin.subtests[i].testid = origin.subtests[j].testid =>
                origin.subtests[i] = origin.subtests[j]
  BY <1>1, <1>2 DEF IsOld
<1> QED
  BY <1>2, <1>3, <1>4 DEF SubtestRows

\* Row i of the tests is another one.
Remarked(w, d, i) ==
    /\ w \in Tables /\ Len(w.test) = Len(d.test)
    /\ \A j \in 1..Len(d.test) : j # i => w.test[j] = d.test[j]
    /\ ~w.test[i].ismonitor
    /\ w.version = d.version /\ w.parts = d.parts /\ w.testclassinfo = d.testclassinfo
    /\ w.names = d.names /\ w.entries = d.entries /\ w.env = d.env

LEMMA SetRow ==
    ASSUME NEW d \in Tables, NEW i \in 1..Len(d.test), NEW row \in TestRows, ~row.ismonitor
    PROVE  LET w == [d EXCEPT !.test[i] = row] IN
           Remarked(w, d, i) /\ w.test[i] = row
<1>1. d.test \in Seq(TestRows) /\ i \in DOMAIN d.test /\ DOMAIN d.test = 1..Len(d.test)
      /\ Len(d.test) \in Nat
  BY RowsOf DEF Tables
<1>2. PICK new : new = [d.test EXCEPT ![i] = row]
  OBVIOUS
<1>3. /\ new \in Seq(TestRows) /\ Len(new) = Len(d.test) /\ new[i] = row
      /\ \A j \in 1..Len(d.test) : j # i => new[j] = d.test[j]
  BY <1>1, <1>2
<1>4. [d EXCEPT !.test[i] = row] = [d EXCEPT !.test = new]
  BY <1>2
<1>5. PICK w : w = [d EXCEPT !.test = new]
  OBVIOUS
<1>6. /\ w \in Tables /\ w.test = new
      /\ w.version = d.version /\ w.parts = d.parts /\ w.testclassinfo = d.testclassinfo
      /\ w.names = d.names /\ w.entries = d.entries /\ w.env = d.env
  BY <1>3, <1>5, Set_test
<1>7. Remarked(w, d, i) /\ w.test[i] = row
  BY <1>3, <1>6 DEF Remarked
<1> QED
  BY <1>4, <1>5, <1>7

LEMMA SubtestRow ==
    ASSUME NEW d \in Tables, NEW i \in 1..Len(d.test), NEW p \in Nat
    PROVE  LET w == [d EXCEPT !.test[i].parent = p, !.test[i].ismonitor = FALSE] IN
           /\ Remarked(w, d, i)
           /\ w.test[i].parent = p /\ w.test[i].isscenario = d.test[i].isscenario
<1>1. d.test \in Seq(TestRows) /\ i \in DOMAIN d.test
  BY RowsOf DEF Tables
<1>2. d.test[i] \in TestRows
  BY <1>1, ElementOfSeq
<1>3. PICK row : row = [d.test[i] EXCEPT !.parent = p, !.ismonitor = FALSE]
  OBVIOUS
<1>4. /\ row \in TestRows /\ ~row.ismonitor /\ row.parent = p
      /\ row.isscenario = d.test[i].isscenario
  BY <1>2, <1>3 DEF TestRows
<1>5. [d EXCEPT !.test[i].parent = p, !.test[i].ismonitor = FALSE] = [d EXCEPT !.test[i] = row]
  BY <1>1, <1>3 DEF Tables
<1>6. PICK w : w = [d EXCEPT !.test[i] = row]
  OBVIOUS
<1>7. Remarked(w, d, i) /\ w.test[i] = row
  BY <1>4, <1>6, SetRow
<1> QED
  BY <1>4, <1>5, <1>6, <1>7

LEMMA ScenarioRow ==
    ASSUME NEW d \in Tables, NEW i \in 1..Len(d.test)
    PROVE  LET w == [d EXCEPT !.test[i].ismonitor = FALSE, !.test[i].isscenario = TRUE] IN
           /\ Remarked(w, d, i)
           /\ w.test[i].parent = d.test[i].parent /\ w.test[i].isscenario
<1>1. d.test \in Seq(TestRows) /\ i \in DOMAIN d.test
  BY RowsOf DEF Tables
<1>2. d.test[i] \in TestRows
  BY <1>1, ElementOfSeq
<1>3. PICK row : row = [d.test[i] EXCEPT !.ismonitor = FALSE, !.isscenario = TRUE]
  OBVIOUS
<1>4. /\ row \in TestRows /\ ~row.ismonitor /\ row.parent = d.test[i].parent
      /\ row.isscenario
  BY <1>2, <1>3 DEF TestRows
<1>5. [d EXCEPT !.test[i].ismonitor = FALSE, !.test[i].isscenario = TRUE]
        = [d EXCEPT !.test[i] = row]
  BY <1>1, <1>3 DEF Tables
<1>6. PICK w : w = [d EXCEPT !.test[i] = row]
  OBVIOUS
<1>7. Remarked(w, d, i) /\ w.test[i] = row
  BY <1>4, <1>6, SetRow
<1> QED
  BY <1>4, <1>5, <1>6, <1>7

LEMMA Within ==
    ASSUME NEW n \in Nat, NEW a \in Nat, NEW len \in n..(n + a)
    PROVE  \A j \in 1..n : j \in 1..len
OBVIOUS

\* All the rows of the original tests are there.
LEMMA TestsThere ==
    ASSUME TestBook, origin \in Tables
    PROVE  \A i \in 1..T0 : i \in 1..Len(disk.test)
<1>1. Len(disk.test) \in T0..(T0 + Len(MovedTests))
  BY AppendedLength DEF TestBook
<1>2. T0 \in Nat /\ Len(MovedTests) \in Nat
  BY MovedLengths, RowsOf DEF T0
<1> QED
  BY <1>1, <1>2, Within

\* The row is one of the first n.
RemarkedIn(w, d, n, i) ==
    n \in Nat /\ i \in 1..n /\ Len(d.test) \in Nat /\ Remarked(w, d, i)

LEMMA OthersStay ==
    ASSUME NEW w, NEW d, NEW n, NEW i, RemarkedIn(w, d, n, i)
    PROVE  \A j \in (n + 1)..Len(d.test) : w.test[j] = d.test[j]
<1>1. \A j \in (n + 1)..Len(d.test) : j \in 1..Len(d.test) /\ j # i
  BY DEF RemarkedIn
<1> QED
  BY <1>1 DEF RemarkedIn, Remarked

LEMMA AppendedStays ==
    ASSUME NEW w, NEW d, NEW n, NEW i, RemarkedIn(w, d, n, i), NEW more,
           Appended(d.test, n, more)
    PROVE  Appended(w.test, n, more)
BY OthersStay DEF Appended, RemarkedIn, Remarked

\* A test or a scenario of the table of subtests is marked.
LEMMA RemarkStep ==
    ASSUME ConvInv, Converting, UNCHANGED <<origin, kills, mem, mapping>>,
           prog' = "opening", stmt.op \in {"mark subtest", "mark scenario"},
           stmt' \in Statements, stmt'.op \in {"mark subtest", "mark scenario"},
           stmt'.row # 0, NEW i \in 1..T0, Remarked(disk', disk, i), SubtestPlace'
    PROVE  ConvInv'
<1>1. TablesBook /\ PlaceBook /\ disk \in Tables /\ origin \in Tables
  BY ConvFacts
<1>2. stmt.op \in AfterEntries /\ stmt'.op \in AfterEntries /\ stmt'.op # "insert variables"
      /\ stmt.op \notin AfterSelect /\ stmt'.op \notin AfterSelect
  BY DEF AfterEntries, AfterSubtests, AfterSelect
<1>3. /\ disk' \in Tables /\ Len(disk.test)' = Len(disk.test)
      /\ UNCHANGED <<disk.testclassinfo, disk.names, disk.entries, disk.env, disk.version,
                     disk.parts>>
  BY DEF Remarked
<1>4. T0 \in Nat /\ Len(disk.test) \in Nat
  BY <1>1, RowsOf DEF T0
<1>5. TestBook'
  <2>1. TestBook
    BY <1>1 DEF TablesBook
  <2>3. C0' = C0 /\ T0' = T0 /\ MovedTests' = MovedTests /\ origin' = origin
    BY OriginStays
  <2>5. Appended(disk'.test, T0, MovedTests)
    <3>1. RemarkedIn(disk', disk, T0, i)
      BY <1>4 DEF RemarkedIn
    <3> QED
      BY <2>1, <3>1, AppendedStays DEF TestBook
  <2>6. \A j \in 1..T0 : ~disk'.test[j].ismonitor
    <3>1. \A j \in 1..T0 : j \in 1..Len(disk.test)
      BY <1>1, <2>1, TestsThere
    <3> QED
      BY <2>1, <3>1 DEF TestBook, Remarked
  <2> QED
    BY <1>3, <2>1, <2>3, <2>5, <2>6 DEF TestBook
<1>6. MemBook' /\ EnvPlace'
  <2>1. MemBook /\ EnvPlace
    BY <1>1 DEF PlaceBook
  <2> QED
    BY <1>2, <1>3, <2>1, MemStays, EnvLater
<1> QED
  BY <1>2, <1>3, <1>5, <1>6, LateStep

\* The i-th subtest, the others before it having been marked.
MarkAt(s, i) ==
    /\ stmt.op \in {"mark subtest", "mark scenario"} /\ stmt.row = i
    /\ i \in 1..Len(origin.subtests) /\ s = origin.subtests[i]
    /\ s.testid \in 1..Len(disk.test) /\ s.scenarioid \in 1..Len(disk.test)
    /\ s.testid \in 1..T0 /\ s.scenarioid \in 1..T0
    /\ s.testid \in Nat /\ s.scenarioid \in Nat
    /\ \A j \in 1..Len(origin.subtests) :
          /\ origin.subtests[j].testid \in 1..Len(disk.test)
          /\ origin.subtests[j].scenarioid \in 1..Len(disk.test)
          /\ s.testid = origin.subtests[j].testid => s = origin.subtests[j]
    /\ \A j \in 1..(i - 1) : Marked(origin.subtests[j])

LEMMA RowIs ==
    ASSUME NEW s \in Statements, NEW n \in Nat, s.row # 0, s.row <= n
    PROVE  s.row \in 1..n
BY DEF Statements

LEMMA SubtestFacts ==
    ASSUME ConvInv, Converting, stmt.op \in {"mark subtest", "mark scenario"},
           stmt.row <= Len(origin.subtests)
    PROVE  /\ MarkAt(origin.subtests[stmt.row], stmt.row)
           /\ mem.subtests = origin.subtests
           /\ stmt.row # 0
<1>1. /\ stmt \in Statements /\ origin \in Tables /\ OriginBook /\ TablesBook /\ PlaceBook
      /\ MemBook
  BY ConvFacts
<1>2. stmt.row # 0
  BY <1>1 DEF PlaceBook
<1>3. stmt.row \in 1..Len(origin.subtests)
  BY <1>1, <1>2, RowsOf, RowIs
<1>4. \A j \in 1..(stmt.row - 1) : Marked(origin.subtests[j])
  BY <1>1 DEF PlaceBook, SubtestPlace
<1>5. \A i \in 1..T0 : i \in 1..Len(disk.test)
  BY <1>1, TestsThere DEF TablesBook
<1>6. mem.subtests = origin.subtests
  BY <1>1 DEF MemBook, SameRows
<1>7. \A i \in 1..Len(origin.subtests) :
         /\ origin.subtests[i].testid \in 1..T0 /\ origin.subtests[i].testid \in Nat
         /\ origin.subtests[i].scenarioid \in 1..T0
         /\ origin.subtests[i].scenarioid \in Nat
         /\ \A j \in 1..Len(origin.subtests) :
               origin.subtests[i].testid = origin.subtests[j].testid =>
                   origin.subtests[i] = origin.subtests[j]
  BY <1>1, SubtestOf
<1> QED
  BY <1>2, <1>3, <1>4, <1>5, <1>6, <1>7 DEF MarkAt

LEMMA BeforeRow ==
    ASSUME NEW n \in Nat, NEW i \in 1..n, NEW j \in 1..(i - 1)
    PROVE  j \in 1..n
OBVIOUS

\* What the two statements do to the marks.
LEMMA SubtestMarks ==
    ASSUME NEW s, NEW i, MarkAt(s, i), Remarked(disk', disk, s.testid), UNCHANGED origin,
           disk'.test[s.testid].parent = s.scenarioid,
           disk'.test[s.testid].isscenario = disk.test[s.testid].isscenario,
           Len(origin.subtests) \in Nat
    PROVE  \A j \in 1..(i - 1) : Marked(origin.subtests[j])'
<1>1. ASSUME NEW j \in 1..(i - 1) PROVE Marked(origin.subtests[j])'
  <2> DEFINE r == origin.subtests[j]
  <2>1. j \in 1..Len(origin.subtests)
    BY BeforeRow DEF MarkAt
  <2>2. /\ r.testid \in 1..Len(disk.test) /\ r.scenarioid \in 1..Len(disk.test)
        /\ s.testid = r.testid => s = r
        /\ Marked(r)
    BY <2>1 DEF MarkAt
  <2>3. disk'.test[r.testid].parent = r.scenarioid
    BY <2>2 DEF Remarked, Marked
  <2>4. disk'.test[r.scenarioid].isscenario
    BY <2>2 DEF Remarked, Marked
  <2> QED
    BY <2>3, <2>4 DEF Marked
<1> QED
  BY <1>1

LEMMA ScenarioMarks ==
    ASSUME NEW s, NEW i, MarkAt(s, i), Remarked(disk', disk, s.scenarioid), UNCHANGED origin,
           disk'.test[s.scenarioid].parent = disk.test[s.scenarioid].parent,
           disk'.test[s.scenarioid].isscenario,
           disk.test[s.testid].parent = s.scenarioid,
           Len(origin.subtests) \in Nat
    PROVE  Marked(s)' /\ \A j \in 1..(i - 1) : Marked(origin.subtests[j])'
<1>1. ASSUME NEW j \in 1..(i - 1) PROVE Marked(origin.subtests[j])'
  <2> DEFINE r == origin.subtests[j]
  <2>1. j \in 1..Len(origin.subtests)
    BY BeforeRow DEF MarkAt
  <2>2. /\ r.testid \in 1..Len(disk.test) /\ r.scenarioid \in 1..Len(disk.test)
        /\ Marked(r)
    BY <2>1 DEF MarkAt
  <2>3. disk'.test[r.testid].parent = r.scenarioid
    BY <2>2 DEF Remarked, Marked
  <2>4. disk'.test[r.scenarioid].isscenario
    BY <2>2 DEF Remarked, Marked
  <2> QED
    BY <2>3, <2>4 DEF Marked
<1>2. disk'.test[s.testid].parent = s.scenarioid
  BY DEF Remarked, MarkAt
<1> QED
  BY <1>1, <1>2 DEF Marked

LEMMA OtherOp ==
    ASSUME NEW s \in Statements, NEW op \in Ops
    PROVE  LET t == [s EXCEPT !.op = op] IN t \in Statements /\ t.op = op /\ t.row = s.row
BY DEF Statements

LEMMA MarkSubtestDoes ==
    ASSUME ConvInv, MarkSubtest
    PROVE  /\ Converting /\ prog' = "opening" /\ UNCHANGED <<origin, kills, mem, mapping>>
           /\ stmt.op = "mark subtest" /\ stmt.row <= Len(origin.subtests)
           /\ stmt' \in Statements /\ stmt'.op = "mark scenario" /\ stmt'.row = stmt.row
           /\ MarkAt(origin.subtests[stmt.row], stmt.row)
           /\ LET s == origin.subtests[stmt.row] IN
              disk' = [disk EXCEPT !.test[s.testid].parent = s.scenarioid,
                                   !.test[s.testid].ismonitor = FALSE]
<1>1. prog = "opening" /\ stmt.op = "mark subtest" /\ stmt.row <= Len(Rows)
      /\ prog' = "opening" /\ UNCHANGED <<origin, kills, mem, mapping>>
      /\ stmt' = [stmt EXCEPT !.op = "mark scenario"]
  BY DEF MarkSubtest, Execute, Each, Todo, Go, Program
<1>2. Converting
  BY <1>1, MovesFacts DEF Converting
<1>3. stmt \in Statements /\ MemBook
  BY <1>2, ConvFacts
<1>4. stmt' \in Statements /\ stmt'.op = "mark scenario" /\ stmt'.row = stmt.row
  BY <1>1, <1>3, OtherOp, MovesFacts
<1>5. Rows = origin.subtests
  BY <1>1, <1>3, RowsAre
<1>6. MarkAt(origin.subtests[stmt.row], stmt.row) /\ mem.subtests = origin.subtests
  BY <1>1, <1>2, <1>5, SubtestFacts
<1>7. LET s == origin.subtests[stmt.row] IN
      disk' = [disk EXCEPT !.test[s.testid].parent = s.scenarioid,
                           !.test[s.testid].ismonitor = FALSE]
  BY <1>6 DEF MarkSubtest, Execute
<1> QED
  BY <1>1, <1>2, <1>4, <1>5, <1>6, <1>7

LEMMA AtMost ==
    ASSUME NEW s \in Statements, NEW n \in Nat, s.row <= n
    PROVE  s.row <= n + 1
BY DEF Statements

LEMMA MarkSubtestKeeps == ASSUME ConvInv, MarkSubtest PROVE ConvInv'
<1>1. /\ Converting /\ prog' = "opening" /\ UNCHANGED <<origin, kills, mem, mapping>>
      /\ stmt.op = "mark subtest" /\ stmt.row <= Len(origin.subtests)
      /\ stmt' \in Statements /\ stmt'.op = "mark scenario" /\ stmt'.row = stmt.row
      /\ MarkAt(origin.subtests[stmt.row], stmt.row)
  BY MarkSubtestDoes
<1>2. disk \in Tables /\ origin \in Tables /\ stmt \in Statements /\ PlaceBook
  BY <1>1, ConvFacts
<1>3. stmt.row # 0 /\ Len(origin.subtests) \in Nat
  BY <1>1, <1>2, RowsOf DEF PlaceBook
<1>r. PICK s : s = origin.subtests[stmt.row]
  OBVIOUS
<1>4. /\ Remarked(disk', disk, s.testid) /\ disk'.test[s.testid].parent = s.scenarioid
      /\ disk'.test[s.testid].isscenario = disk.test[s.testid].isscenario
  <2>1. s.testid \in 1..Len(disk.test) /\ s.scenarioid \in Nat
    BY <1>1, <1>r DEF MarkAt
  <2>2. disk' = [disk EXCEPT !.test[s.testid].parent = s.scenarioid,
                             !.test[s.testid].ismonitor = FALSE]
    BY <1>r, MarkSubtestDoes
  <2>3. PICK i \in 1..Len(disk.test), p \in Nat : i = s.testid /\ p = s.scenarioid
    BY <2>1
  <2>4. disk \in Tables
    BY <1>2
  <2>5. disk' = [disk EXCEPT !.test[i].parent = p, !.test[i].ismonitor = FALSE]
    BY <2>2, <2>3
  <2>6. /\ Remarked(disk', disk, i) /\ disk'.test[i].parent = p
        /\ disk'.test[i].isscenario = disk.test[i].isscenario
    BY <2>4, <2>5, SubtestRow
  <2> QED
    BY <2>3, <2>6
<1>5. SubtestPlace'
  <2>1. MarkAt(s, stmt.row)
    BY <1>1, <1>r
  <2>2. \A j \in 1..(stmt.row - 1) : Marked(origin.subtests[j])'
    BY <1>1, <1>3, <1>4, <2>1, SubtestMarks
  <2>3. stmt'.op \notin AfterSubtests
    BY <1>1 DEF AfterSubtests, AfterSelect
  <2>4. stmt'.row <= Len(origin'.subtests) /\ stmt'.row <= Len(origin'.subtests) + 1
    BY <1>1, <1>2, <1>3, AtMost
  <2>5. disk'.test[origin'.subtests[stmt'.row].testid].parent
           = origin'.subtests[stmt'.row].scenarioid
    BY <1>1, <1>4, <1>r
  <2>6. \A j \in 1..(stmt'.row - 1) : Marked(origin.subtests[j])'
    BY <1>1, <2>2
  <2> QED
    BY <2>3, <2>4, <2>5, <2>6 DEF SubtestPlace
<1>6. s.testid \in 1..T0
  BY <1>1, <1>r DEF MarkAt
<1> QED
  BY <1>1, <1>3, <1>4, <1>5, <1>6, RemarkStep

LEMMA MarkScenarioDoes ==
    ASSUME ConvInv, MarkScenario
    PROVE  /\ Converting /\ prog' = "opening" /\ UNCHANGED <<origin, kills, mem, mapping>>
           /\ stmt.op = "mark scenario" /\ stmt.row <= Len(origin.subtests)
           /\ stmt' \in Statements /\ stmt'.op = "mark subtest" /\ stmt'.row = stmt.row + 1
           /\ MarkAt(origin.subtests[stmt.row], stmt.row)
           /\ disk.test[origin.subtests[stmt.row].testid].parent
                 = origin.subtests[stmt.row].scenarioid
           /\ LET s == origin.subtests[stmt.row] IN
              disk' = [disk EXCEPT !.test[s.scenarioid].ismonitor = FALSE,
                                   !.test[s.scenarioid].isscenario = TRUE]
<1>1. prog = "opening" /\ stmt.op = "mark scenario"
      /\ prog' = "opening" /\ UNCHANGED <<origin, kills, mem, mapping>>
      /\ stmt' = [NextRow EXCEPT !.op = "mark subtest"]
  BY DEF MarkScenario, Execute, Todo, Go, Program
<1>2. Converting
  BY <1>1, MovesFacts DEF Converting
<1>3. stmt \in Statements /\ PlaceBook
  BY <1>2, ConvFacts
<1>4. stmt' \in Statements /\ stmt'.op = "mark subtest" /\ stmt'.row = stmt.row + 1
  <2>1. NextRow \in Statements /\ NextRow.row = stmt.row + 1
    BY <1>3, NextStatement
  <2> QED
    BY <1>1, <2>1, OtherOp, MovesFacts
<1>5. /\ stmt.row <= Len(origin.subtests)
      /\ disk.test[origin.subtests[stmt.row].testid].parent
            = origin.subtests[stmt.row].scenarioid
  BY <1>1, <1>3 DEF PlaceBook, SubtestPlace
<1>6. MarkAt(origin.subtests[stmt.row], stmt.row) /\ mem.subtests = origin.subtests
  BY <1>1, <1>2, <1>5, SubtestFacts
<1>7. LET s == origin.subtests[stmt.row] IN
      disk' = [disk EXCEPT !.test[s.scenarioid].ismonitor = FALSE,
                           !.test[s.scenarioid].isscenario = TRUE]
  BY <1>6 DEF MarkScenario, Execute
<1> QED
  BY <1>1, <1>2, <1>4, <1>5, <1>6, <1>7

LEMMA AfterRow ==
    ASSUME NEW s \in Statements, NEW t \in Statements, NEW n \in Nat,
           t.row = s.row + 1, s.row <= n
    PROVE  /\ t.row # 0 /\ t.row <= n + 1
           /\ \A j \in 1..(t.row - 1) : j = s.row \/ j \in 1..(s.row - 1)
BY DEF Statements

LEMMA MarkScenarioKeeps == ASSUME ConvInv, MarkScenario PROVE ConvInv'
<1>1. /\ Converting /\ prog' = "opening" /\ UNCHANGED <<origin, kills, mem, mapping>>
      /\ stmt.op = "mark scenario" /\ stmt.row <= Len(origin.subtests)
      /\ stmt' \in Statements /\ stmt'.op = "mark subtest" /\ stmt'.row = stmt.row + 1
      /\ MarkAt(origin.subtests[stmt.row], stmt.row)
      /\ disk.test[origin.subtests[stmt.row].testid].parent
            = origin.subtests[stmt.row].scenarioid
  BY MarkScenarioDoes
<1>2. disk \in Tables /\ origin \in Tables /\ stmt \in Statements
  BY <1>1, ConvFacts
<1>3. Len(origin.subtests) \in Nat
  BY <1>2, RowsOf
<1>r. PICK n, s : n = stmt.row /\ s = origin.subtests[n]
  OBVIOUS
<1>4. /\ Remarked(disk', disk, s.scenarioid) /\ disk'.test[s.scenarioid].isscenario
      /\ disk'.test[s.scenarioid].parent = disk.test[s.scenarioid].parent
  <2>1. s.scenarioid \in 1..Len(disk.test)
    BY <1>1, <1>r DEF MarkAt
  <2>2. disk' = [disk EXCEPT !.test[s.scenarioid].ismonitor = FALSE,
                             !.test[s.scenarioid].isscenario = TRUE]
    BY <1>r, MarkScenarioDoes
  <2> QED
    BY <1>2, <2>1, <2>2, ScenarioRow
<1>7. /\ stmt'.row # 0 /\ stmt'.row <= Len(origin.subtests) + 1
      /\ \A j \in 1..(stmt'.row - 1) : j = stmt.row \/ j \in 1..(stmt.row - 1)
  BY <1>1, <1>2, <1>3, AfterRow
<1>5. SubtestPlace'
  <2>1. MarkAt(s, stmt.row) /\ disk.test[s.testid].parent = s.scenarioid
    BY <1>1, <1>r
  <2>2. Marked(s)' /\ \A j \in 1..(stmt.row - 1) : Marked(origin.subtests[j])'
    BY <1>1, <1>3, <1>4, <2>1, ScenarioMarks
  <2>3. stmt'.op \notin AfterSubtests /\ stmt'.op # "mark scenario"
    BY <1>1 DEF AfterSubtests, AfterSelect
  <2>4. stmt'.row <= Len(origin'.subtests) + 1
    BY <1>1, <1>7
  <2>6. \A j \in 1..(stmt'.row - 1) : Marked(origin.subtests[j])'
    <3>1. Marked(origin.subtests[n])'
      BY <1>1, <1>r, <2>2
    <3>2. \A j \in 1..(stmt'.row - 1) : j = n \/ j \in 1..(stmt.row - 1)
      BY <1>7, <1>r
    <3>3. ASSUME NEW j \in 1..(stmt'.row - 1) PROVE Marked(origin.subtests[j])'
      BY <2>2, <3>1, <3>2
    <3> QED
      BY <3>3
  <2> QED
    BY <2>3, <2>4, <2>6 DEF SubtestPlace
<1>6. s.scenarioid \in 1..T0
  BY <1>1, <1>r DEF MarkAt
<1> QED
  BY <1>1, <1>4, <1>5, <1>6, <1>7, RemarkStep

-----------------------------------------------------------------------------
(* The environment.                                                        *)

\* What one row of the environment says.
Tells(r, p) ==
    \/ r.name # "env-variables" /\ p = <<r.run, r.name>>
    \/ r.name = "env-variables" /\ \E v \in Variables : p = <<r.run, v>>

LEMMA SaysIs ==
    ASSUME NEW env
    PROVE  \A p : p \in Says(env) <=> \E r \in env : Tells(r, p)
BY DEF Says, Tells

LEMMA SaysSame ==
    ASSUME NEW env, NEW more, \A p : (\E r \in env : Tells(r, p)) <=> (\E r \in more : Tells(r, p))
    PROVE  Says(env) = Says(more)
BY SaysIs

\* The row that tells what r tells.
LEMMA ReplaceRow ==
    ASSUME NEW env, NEW r \in env, NEW s, \A p : Tells(s, p) <=> Tells(r, p)
    PROVE  Says((env \ {r}) \cup {s}) = Says(env)
<1>1. ASSUME NEW p PROVE (\E x \in (env \ {r}) \cup {s} : Tells(x, p)) <=> \E x \in env : Tells(x, p)
  OBVIOUS
<1> QED
  BY <1>1, SaysSame

LEMMA RemoveRow ==
    ASSUME NEW env, NEW r \in env, NEW more, \A p : p \in more <=> Tells(r, p)
    PROVE  Says(env \ {r}) \cup more = Says(env)
<1>1. ASSUME NEW p PROVE p \in Says(env \ {r}) \cup more <=> p \in Says(env)
  <2>1. p \in Says(env \ {r}) <=> \E x \in env \ {r} : Tells(x, p)
    BY SaysIs
  <2>2. p \in Says(env) <=> \E x \in env : Tells(x, p)
    BY SaysIs
  <2> QED
    BY <2>1, <2>2
<1> QED
  BY <1>1

LEMMA AddRows ==
    ASSUME NEW env, NEW rows, NEW more, \A p : p \in more <=> \E r \in rows : Tells(r, p)
    PROVE  Says(env \cup rows) = Says(env) \cup more
<1>1. ASSUME NEW p PROVE p \in Says(env \cup rows) <=> p \in Says(env) \cup more
  <2>1. p \in Says(env \cup rows) <=> \E x \in env \cup rows : Tells(x, p)
    BY SaysIs
  <2>2. p \in Says(env) <=> \E x \in env : Tells(x, p)
    BY SaysIs
  <2> QED
    BY <2>1, <2>2
<1> QED
  BY <1>1

LEMMA ConvertedRow ==
    ASSUME NEW r \in EnvRows
    PROVE  LET s == [r EXCEPT !.text = TRUE] IN
           s \in EnvRows /\ s.text /\ \A p : Tells(s, p) <=> Tells(r, p)
BY DEF EnvRows, Tells

LEMMA VariableRows ==
    ASSUME NEW run \in Nat
    PROVE  LET rows == {[run |-> run, name |-> v, blob |-> FALSE, text |-> TRUE] :
                          v \in Variables}
               more == {<<run, v>> : v \in Variables}
           IN  /\ rows \subseteq EnvRows /\ \A r \in rows : r.text
               /\ \A p : p \in more <=> \E r \in rows : Tells(r, p)
<1> DEFINE Row(v) == [run |-> run, name |-> v, blob |-> FALSE, text |-> TRUE]
           rows == {Row(v) : v \in Variables}
           more == {<<run, v>> : v \in Variables}
<1>1. ASSUME NEW v \in Variables
      PROVE  Row(v) \in EnvRows /\ Row(v).text /\ \A p : Tells(Row(v), p) <=> p = <<run, v>>
  <2>1. v \in STRING /\ v # "env-variables"
    BY VariablesAssumption
  <2> QED
    BY <2>1 DEF EnvRows, Tells
<1> HIDE DEF Row
<1>2. rows \subseteq EnvRows /\ \A r \in rows : r.text
  BY <1>1
<1>3. ASSUME NEW p PROVE p \in more <=> \E r \in rows : Tells(r, p)
  BY <1>1
<1> QED
  BY <1>2, <1>3 DEF Row

LEMMA SubtestEnds ==
    ASSUME SubtestPlace, stmt.op \in AfterSubtests, stmt'.op \in AfterSubtests,
           UNCHANGED <<origin, disk.test>>
    PROVE  SubtestPlace'
<1>1. stmt'.op \notin {"mark subtest", "mark scenario"} /\ stmt'.op # "mark scenario"
  BY DEF AfterSubtests, AfterSelect
<1>2. \A j \in 1..Len(origin.subtests) : Marked(origin.subtests[j])
  BY DEF SubtestPlace
<1>3. \A j \in 1..Len(origin.subtests) : Marked(origin.subtests[j])'
  BY <1>2 DEF Marked
<1> QED
  BY <1>1, <1>3 DEF SubtestPlace

\* w is d with another environment.
OtherEnv(w, d, env) == env \in SUBSET EnvRows /\ w = [d EXCEPT !.env = env]

LEMMA EnvOnly ==
    ASSUME NEW d \in Tables, NEW w, NEW env, OtherEnv(w, d, env)
    PROVE  /\ w \in Tables /\ SameRows(w, d) /\ w.env = env
           /\ w.version = d.version /\ w.parts = d.parts
BY Set_env DEF OtherEnv, SameRows

\* Only the environment changes.
LEMMA EnvStep ==
    ASSUME ConvInv, Converting, UNCHANGED <<origin, kills, mapping>>,
           prog' = "opening", stmt.op \in AfterSubtests,
           stmt' \in Statements, stmt'.op \in AfterSubtests,
           stmt'.op # "insert variables" => stmt'.row # 0,
           NEW env, OtherEnv(disk', disk, env), NEW rest, OtherEnv(mem', mem, rest),
           EnvPlace'
    PROVE  ConvInv'
<1>1. TablesBook /\ PlaceBook /\ MemBook /\ disk \in Tables /\ mem \in Tables
  BY ConvFacts
<1>2. /\ disk' \in Tables
      /\ UNCHANGED <<disk.testclassinfo, disk.test, disk.names, disk.entries, disk.version,
                     disk.parts>>
  BY <1>1, EnvOnly DEF SameRows
<1>3. mem' \in Tables /\ SameRows(mem', mem)
  BY <1>1, EnvOnly
<1>4. MemBook'
  BY <1>1, <1>3 DEF MemBook, SameRows
<1>5. TestBook' /\ SubtestPlace'
  <2>1. TestBook /\ SubtestPlace
    BY <1>1 DEF TablesBook, PlaceBook
  <2> QED
    BY <1>2, <2>1, TestBookStays, SubtestEnds
<1>6. stmt.op \in AfterEntries /\ stmt'.op \in AfterEntries
  BY DEF AfterEntries
<1>7. Len(disk.test)' = Len(disk.test)
  BY <1>2
<1> QED
  BY <1>2, <1>4, <1>5, <1>6, <1>7, LateStep

\* Where the conversion of the environment is.
EnvGoes(env, rest, inserted) ==
    /\ Says(env) \cup inserted = Says(origin.env)
    /\ rest \subseteq env
    /\ \A r \in env : r.text \/ r \in rest

LEMMA EnvAt ==
    ASSUME PlaceBook, stmt.op \in AfterSelect
    PROVE  EnvGoes(disk.env, mem.env, Inserted)
BY DEF PlaceBook, EnvPlace, EnvGoes

LEMMA EnvNext ==
    ASSUME UNCHANGED origin, stmt'.op \in AfterSelect,
           EnvGoes(disk'.env, mem'.env, Inserted')
    PROVE  EnvPlace'
<1>1. Says(origin.env)' = Says(origin.env) /\ Says(disk.env)' = Says(disk'.env)
  BY DEF Says
<1> QED
  BY <1>1 DEF EnvPlace, EnvGoes

LEMMA InsertedIs ==
    /\ stmt.op # "insert variables" => Inserted = {}
    /\ stmt.op = "insert variables" => Inserted = {<<stmt.row, v>> : v \in Variables}
BY DEF Inserted

LEMMA AfterFacts ==
    /\ {"environment", "insert variables"} \subseteq AfterSelect
    /\ AfterSelect \subseteq AfterSubtests
    /\ "select environment" \in AfterSubtests /\ "select environment" \notin AfterSelect
BY DEF AfterSubtests, AfterSelect

\* A step of testrun_env_2to3 that goes on with the rows.
LEMMA EnvLoop ==
    ASSUME ConvInv, prog = "opening", stmt.op \in AfterSubtests,
           UNCHANGED <<origin, kills, mapping>>, prog' = "opening",
           stmt' \in Statements, stmt'.op = "environment", stmt'.row # 0,
           NEW env, OtherEnv(disk', disk, env), NEW rest, OtherEnv(mem', mem, rest),
           EnvGoes(env, rest, {})
    PROVE  ConvInv'
<1>1. stmt'.op \in AfterSelect /\ stmt'.op \in AfterSubtests
  BY AfterFacts
<1>a. Converting
  BY MovesFacts DEF Converting, ConvertOps, Moving, AfterClasses, AfterMonitors,
     AfterContainers, AfterNames, AfterEntries
<1>2. Inserted' = {}
  BY DEF Inserted
<1>3. disk \in Tables /\ mem \in Tables
  BY <1>a, ConvFacts
<1>4. disk'.env = env /\ mem'.env = rest
  BY <1>3, EnvOnly
<1>5. EnvPlace'
  BY <1>1, <1>2, <1>4, EnvNext
<1> QED
  BY <1>1, <1>5, <1>a, EnvStep

LEMMA SameEnv ==
    ASSUME NEW d \in Tables
    PROVE  OtherEnv(d, d, d.env) /\ d.env \subseteq EnvRows
BY DEF OtherEnv, Tables

LEMMA SelectEnvironmentKeeps == ASSUME ConvInv, SelectEnvironment PROVE ConvInv'
<1>1. /\ prog = "opening" /\ stmt.op = "select environment" /\ stmt' = First("environment")
      /\ prog' = "opening" /\ UNCHANGED <<origin, kills, disk, mapping>>
      /\ mem' = [mem EXCEPT !.env = {r \in disk.env : r.blob /\ r.name \in Blobs}]
  BY DEF SelectEnvironment, Todo, Go, Program
<1>2. Converting
  BY <1>1, MovesFacts DEF Converting
<1>3. /\ disk \in Tables /\ OriginBook /\ PlaceBook
  BY <1>2, ConvFacts
<1>4. stmt' \in Statements /\ stmt'.op = "environment" /\ stmt'.row = 1
  BY <1>1, FirstStatement, MovesFacts
<1>5. disk.env = origin.env
  BY <1>1, <1>3, AfterFacts DEF PlaceBook, EnvPlace
<1> DEFINE rest == {r \in disk.env : r.blob /\ r.name \in Blobs}
<1>6. /\ OtherEnv(disk', disk, disk.env) /\ OtherEnv(mem', mem, rest)
  <2>1. OtherEnv(disk, disk, disk.env) /\ disk.env \subseteq EnvRows
    BY <1>3, SameEnv
  <2> QED
    BY <1>1, <2>1 DEF OtherEnv
<1>7. EnvGoes(disk.env, rest, {})
  <2>1. IsOld(origin)
    BY <1>3 DEF OriginBook
  <2>2. \A r \in disk.env : r.text = ~r.blob /\ (r.blob => r.name \in Blobs)
    BY <1>5, <2>1 DEF IsOld
  <2>3. disk.env \subseteq EnvRows
    BY <1>3, SameEnv
  <2>4. \A r \in disk.env : r.text \in BOOLEAN /\ r.blob \in BOOLEAN
    BY <2>3 DEF EnvRows
  <2> QED
    BY <1>5, <2>2, <2>4 DEF EnvGoes
<1>8. stmt'.row # 0 /\ stmt.op \in AfterSubtests
  BY <1>1, <1>4, FirstRow, AfterFacts
<1> QED
  BY <1>1, <1>4, <1>6, <1>7, <1>8, EnvLoop

LEMMA GoesOn ==
    ASSUME NEW env, NEW rest, EnvGoes(env, rest, {}), NEW r \in rest, NEW s,
           s.text, \A p : Tells(s, p) <=> Tells(r, p)
    PROVE  EnvGoes((env \ {r}) \cup {s}, rest \ {r}, {})
<1>1. Says((env \ {r}) \cup {s}) = Says(env)
  BY ReplaceRow DEF EnvGoes
<1> QED
  BY <1>1 DEF EnvGoes

LEMMA ConvertRowKeeps == ASSUME ConvInv, ConvertRow PROVE ConvInv'
<1>1. /\ prog = "opening" /\ stmt.op = "environment" /\ stmt' = stmt
      /\ prog' = "opening" /\ UNCHANGED <<origin, kills, mapping>>
  BY DEF ConvertRow, Todo, Go, Program
<1>2. PICK r \in mem.env :
         /\ disk' = [disk EXCEPT !.env = (disk.env \ {r}) \cup {[r EXCEPT !.text = TRUE]}]
         /\ mem' = [mem EXCEPT !.env = mem.env \ {r}]
  BY DEF ConvertRow
<1>3. Converting
  BY <1>1, MovesFacts DEF Converting
<1>4. /\ disk \in Tables /\ mem \in Tables /\ PlaceBook /\ stmt \in Statements
  BY <1>3, ConvFacts
<1>5. EnvGoes(disk.env, mem.env, {})
  BY <1>1, <1>4, EnvAt, InsertedIs, AfterFacts
<1>6. disk.env \subseteq EnvRows /\ mem.env \subseteq EnvRows
  BY <1>4, SameEnv
<1>7. PICK s \in EnvRows : /\ s = [r EXCEPT !.text = TRUE] /\ s.text
                           /\ \A p : Tells(s, p) <=> Tells(r, p)
  BY <1>6, ConvertedRow
<1>8. EnvGoes((disk.env \ {r}) \cup {s}, mem.env \ {r}, {})
  BY <1>5, <1>7, GoesOn
<1>9. OtherEnv(disk', disk, (disk.env \ {r}) \cup {s}) /\ OtherEnv(mem', mem, mem.env \ {r})
  BY <1>2, <1>6, <1>7 DEF OtherEnv
<1>10. stmt.row # 0 /\ stmt.op \in AfterSubtests
  BY <1>1, <1>4, AfterFacts DEF PlaceBook
<1> QED
  BY <1>1, <1>4, <1>8, <1>9, <1>10, EnvLoop

LEMMA AtRun ==
    ASSUME NEW s \in Statements, NEW n \in Nat
    PROVE  LET t == [s EXCEPT !.row = n] IN t \in Statements /\ t.op = s.op /\ t.row = n
BY DEF Statements

LEMMA VariablesTold ==
    ASSUME NEW r, r.name = "env-variables"
    PROVE  \A p : p \in {<<r.run, v>> : v \in Variables} <=> Tells(r, p)
BY DEF Tells

LEMMA Deleted ==
    ASSUME NEW env, NEW rest, EnvGoes(env, rest, {}), NEW r \in rest,
           r.name = "env-variables"
    PROVE  EnvGoes(env \ {r}, rest \ {r}, {<<r.run, v>> : v \in Variables})
<1> DEFINE more == {<<r.run, v>> : v \in Variables}
<1>1. \A p : p \in more <=> Tells(r, p)
  BY VariablesTold
<1> HIDE DEF more
<1>2. Says(env \ {r}) \cup more = Says(env)
  BY <1>1, RemoveRow DEF EnvGoes
<1>3. EnvGoes(env \ {r}, rest \ {r}, more)
  BY <1>2 DEF EnvGoes
<1> QED
  BY <1>3 DEF more

LEMMA DeleteRowKeeps == ASSUME ConvInv, DeleteRow PROVE ConvInv'
<1>1. /\ prog = "opening" /\ stmt.op = "environment" /\ prog' = "opening"
      /\ UNCHANGED <<origin, kills, mapping>>
  BY DEF DeleteRow, Todo, Go, Program
<1>2. PICK r \in mem.env :
         /\ r.name = "env-variables"
         /\ disk' = [disk EXCEPT !.env = disk.env \ {r}]
         /\ mem' = [mem EXCEPT !.env = mem.env \ {r}]
         /\ stmt' = [First("insert variables") EXCEPT !.row = r.run]
  BY DEF DeleteRow, Go
<1>3. Converting
  BY <1>1, MovesFacts DEF Converting
<1>4. /\ disk \in Tables /\ mem \in Tables /\ PlaceBook
  BY <1>3, ConvFacts
<1>5. EnvGoes(disk.env, mem.env, {})
  BY <1>1, <1>4, EnvAt, InsertedIs, AfterFacts
<1>6. disk.env \subseteq EnvRows /\ mem.env \subseteq EnvRows
  BY <1>4, SameEnv
<1>7. r.run \in Nat
  BY <1>6 DEF EnvRows
<1>8. stmt' \in Statements /\ stmt'.op = "insert variables" /\ stmt'.row = r.run
  <2>1. First("insert variables") \in Statements /\ First("insert variables").op = "insert variables"
    BY FirstStatement, MovesFacts
  <2> QED
    BY <1>2, <1>7, <2>1, AtRun
<1>9. OtherEnv(disk', disk, disk.env \ {r}) /\ OtherEnv(mem', mem, mem.env \ {r})
  BY <1>2, <1>6 DEF OtherEnv
<1>10. disk'.env = disk.env \ {r} /\ mem'.env = mem.env \ {r}
  BY <1>4, <1>9, EnvOnly
<1>11. EnvPlace'
  <2>1. Inserted' = {<<r.run, v>> : v \in Variables}
    BY <1>8 DEF Inserted
  <2>a. r.name = "env-variables"
    BY <1>2
  <2>b. EnvGoes(disk.env \ {r}, mem.env \ {r}, {<<r.run, v>> : v \in Variables})
    BY <1>5, <2>a, Deleted
  <2>2. EnvGoes(disk'.env, mem'.env, Inserted')
    BY <1>10, <2>1, <2>b
  <2>3. stmt'.op \in AfterSelect
    BY <1>8, AfterFacts
  <2> QED
    BY <1>1, <2>2, <2>3, EnvNext
<1>12. stmt'.op \in AfterSubtests /\ stmt.op \in AfterSubtests
  BY <1>1, <1>8, AfterFacts
<1> QED
  BY <1>1, <1>3, <1>8, <1>9, <1>11, <1>12, EnvStep

LEMMA InsertedRows ==
    ASSUME NEW env, NEW rest, NEW run \in Nat,
           EnvGoes(env, rest, {<<run, v>> : v \in Variables})
    PROVE  LET rows == {[run |-> run, name |-> v, blob |-> FALSE, text |-> TRUE] :
                          v \in Variables}
           IN  EnvGoes(env \cup rows, rest, {}) /\ rows \subseteq EnvRows
<1> DEFINE rows == {[run |-> run, name |-> v, blob |-> FALSE, text |-> TRUE] : v \in Variables}
           more == {<<run, v>> : v \in Variables}
<1>1. /\ rows \subseteq EnvRows /\ \A r \in rows : r.text
      /\ \A p : p \in more <=> \E r \in rows : Tells(r, p)
  BY VariableRows
<1>2. EnvGoes(env, rest, more)
  OBVIOUS
<1> HIDE DEF rows, more
<1>3. Says(env \cup rows) = Says(env) \cup more
  BY <1>1, AddRows
<1>4. EnvGoes(env \cup rows, rest, {})
  BY <1>1, <1>2, <1>3 DEF EnvGoes
<1> QED
  BY <1>1, <1>4 DEF rows

LEMMA InsertVariablesKeeps == ASSUME ConvInv, InsertVariables PROVE ConvInv'
<1> DEFINE rows == {[run |-> stmt.row, name |-> v, blob |-> FALSE, text |-> TRUE] :
                      v \in Variables}
<1>1. /\ prog = "opening" /\ stmt.op = "insert variables" /\ stmt' = First("environment")
      /\ prog' = "opening" /\ UNCHANGED <<origin, kills, mem, mapping>>
      /\ disk' = [disk EXCEPT !.env = disk.env \cup rows]
  BY DEF InsertVariables, Execute, Todo, Go, Program
<1>2. Converting
  BY <1>1, MovesFacts DEF Converting
<1>3. /\ disk \in Tables /\ mem \in Tables /\ PlaceBook /\ stmt \in Statements
  BY <1>2, ConvFacts
<1>4. EnvGoes(disk.env, mem.env, {<<stmt.row, v>> : v \in Variables}) /\ stmt.row \in Nat
  BY <1>1, <1>3, EnvAt, InsertedIs, AfterFacts DEF Statements
<1>5. EnvGoes(disk.env \cup rows, mem.env, {}) /\ rows \subseteq EnvRows
  BY <1>4, InsertedRows
<1> HIDE DEF rows
<1>6. OtherEnv(disk', disk, disk.env \cup rows) /\ OtherEnv(mem', mem, mem.env)
  <2>1. disk.env \subseteq EnvRows /\ OtherEnv(mem, mem, mem.env)
    BY <1>3, SameEnv
  <2> QED
    BY <1>1, <1>5, <2>1 DEF OtherEnv
<1>7. stmt' \in Statements /\ stmt'.op = "environment" /\ stmt'.row # 0
  BY <1>1, FirstStatement, FirstRow, MovesFacts
<1>8. stmt.op \in AfterSubtests
  BY <1>1, AfterFacts
<1> QED
  BY <1>1, <1>5, <1>6, <1>7, <1>8, EnvLoop

-----------------------------------------------------------------------------
(* Exceptions, kills, and the end of the program.                          *)

\* A step that moves nothing.
LEMMA StillStep ==
    ASSUME ConvInv, UNCHANGED origin, disk' \in Tables,
           UNCHANGED <<disk.testclassinfo, disk.test, disk.names, disk.entries, disk.env>>,
           SameRows(disk', disk), (HasBlobs' => HasBlobs) /\ (HasBlobs => HasBlobs'),
           kills' = 0 /\ Begun /\ ~Converting' => Whole,
           ProgBook', VersionBook'
    PROVE  ConvInv'
<1>1. OriginBook' /\ TablesBook'
  BY RowsStay DEF ConvInv
<1>2. (Begun' => Begun) /\ (Begun => Begun')
  BY DEF Begun, Old
<1>3. ~Begun' => SameRows(disk', origin') /\ disk'.env = origin'.env
  BY <1>2 DEF ConvInv, LostBook, SameRows
<1>4. kills' = 0 /\ Begun' /\ ~Converting' => Whole'
  BY <1>2, WholeStays
<1>5. LostBook'
  BY <1>3, <1>4 DEF LostBook
<1> QED
  BY <1>1, <1>5 DEF ConvInv

\* One that leaves the database alone, and what is then known of the versions.
LEMMA IdleVersions ==
    ASSUME VersionBook, UNCHANGED <<origin, disk>>, kills' \in Nat,
           prog' \notin {"opening", "ready"}
    PROVE  VersionBook'
BY DEF VersionBook, Old, Current, Fresh, HasTables, HasVersion

LEMMA AlsoSame ==
    ASSUME UNCHANGED disk
    PROVE  /\ UNCHANGED <<disk.testclassinfo, disk.test, disk.names, disk.entries, disk.env>>
           /\ SameRows(disk', disk) /\ (HasBlobs' => HasBlobs) /\ (HasBlobs => HasBlobs')
BY DEF SameRows, HasBlobs

LEMMA RaiseKeeps ==
    ASSUME ConvInv, prog = "opening", Raise, kills = 0 /\ Begun => Whole
    PROVE  ConvInv'
<1>1. prog' = "raised" /\ UNCHANGED <<origin, kills, disk, stmt, mem, mapping>>
  BY DEF Raise, Program
<1>2. ProgBook'
  BY <1>1 DEF ConvInv, ProgBook
<1>3. VersionBook'
  BY <1>1, IdleVersions DEF ConvInv, VersionBook
<1>4. disk' \in Tables
  BY <1>1 DEF ConvInv, TablesBook
<1> QED
  BY <1>1, <1>2, <1>3, <1>4, AlsoSame, StillStep

LEMMA RaiseEarly ==
    ASSUME ConvInv, prog = "opening", stmt.op \notin ConvertOps, Raise
    PROVE  ConvInv'
BY RaiseKeeps DEF ConvInv, LostBook, Converting

LEMMA EnvironmentDone ==
    ASSUME ConvInv, Converting, stmt.op = "environment", mem.env = {}
    PROVE  Whole
<1>1. PlaceBook /\ stmt \in Statements
  BY ConvFacts
<1>2. stmt.op \in AfterEntries /\ stmt.op \in AfterSubtests /\ stmt.op \in AfterSelect
  BY AfterFacts DEF AfterEntries
<1>3. /\ ClassesDone(stmt) = Len(origin.monitorclassinfo)
      /\ TestsDone(stmt) = Len(origin.monitor)
      /\ \A k \in Dictionaries :
            /\ NamesDone(stmt, k) = Len(origin.mnames[k])
            /\ EntriesDone(stmt, k) = Len(origin.mentries[k])
            /\ NamesTyped(stmt, k)
  BY <1>1, <1>2, AtEnd
<1>4. /\ Len(disk.testclassinfo) = C0 + Len(origin.monitorclassinfo)
      /\ Len(disk.test) = T0 + Len(origin.monitor)
  BY <1>1, <1>3 DEF PlaceBook, ClassPlace, TestPlace
<1>5. \A k \in Dictionaries :
         /\ Named(k)
         /\ Len(disk.names[k]) = N0(k) + Len(origin.mnames[k])
         /\ Len(disk.entries[k]) = E0(k) + Len(origin.mentries[k])
  BY <1>1, <1>3 DEF PlaceBook, NamePlace, EntryPlace
<1>6. \A j \in 1..Len(origin.subtests) : Marked(origin.subtests[j])
  BY <1>1, <1>2 DEF PlaceBook, SubtestPlace
<1>7. EnvGoes(disk.env, {}, {})
  BY <1>1, <1>2, EnvAt, InsertedIs
<1>8. Says(disk.env) = Says(origin.env) /\ \A r \in disk.env : r.text
  BY <1>7 DEF EnvGoes
<1> QED
  BY <1>4, <1>5, <1>6, <1>8 DEF Whole

LEMMA ConvertExtraInfoKeeps == ASSUME ConvInv, ConvertExtraInfo PROVE ConvInv'
<1>1. prog = "opening" /\ stmt.op = "environment" /\ mem.env = {} /\ Raise
  BY DEF ConvertExtraInfo, Todo
<1>2. Converting
  BY <1>1, MovesFacts DEF Converting
<1> QED
  BY <1>1, <1>2, EnvironmentDone, RaiseKeeps

LEMMA LeaveKeeps == ASSUME ConvInv, Leave PROVE ConvInv'
<1>1. /\ prog \in {"ready", "raised"} /\ prog' = "idle" /\ mapping' = NoMapping
      /\ UNCHANGED <<origin, kills, disk, stmt>>
  BY DEF Leave, Program
<1>2. ProgBook'
  BY <1>1, NoneMapped DEF ConvInv, ProgBook
<1>3. VersionBook'
  BY <1>1, IdleVersions DEF ConvInv, VersionBook
<1>4. disk' \in Tables
  BY <1>1 DEF ConvInv, TablesBook
<1>5. kills' = 0 /\ Begun => Whole
  BY <1>1 DEF ConvInv, LostBook, Converting
<1> QED
  BY <1>1, <1>2, <1>3, <1>4, <1>5, AlsoSame, StillStep

LEMMA KillKeeps == ASSUME ConvInv, Kill PROVE ConvInv'
<1>1. /\ prog = "opening" /\ prog' = "idle" /\ mapping' = NoMapping /\ kills' = kills + 1
      /\ UNCHANGED <<origin, disk, stmt>>
  BY DEF Kill
<1>2. kills \in Nat
  BY DEF ConvInv, VersionBook
<1>3. kills' \in Nat /\ kills' # 0
  BY <1>1, <1>2
<1>4. ProgBook'
  BY <1>1, NoneMapped DEF ConvInv, ProgBook
<1>5. VersionBook'
  BY <1>1, <1>3, IdleVersions DEF ConvInv
<1>6. disk' \in Tables
  BY <1>1 DEF ConvInv, TablesBook
<1> QED
  BY <1>1, <1>3, <1>4, <1>5, <1>6, AlsoSame, StillStep

-----------------------------------------------------------------------------
(* Opening, and creating the tables.                                       *)

LEMMA UpdateFacts ==
    /\ {"create type index", "read"} \subseteq UpdateOps \cap Ops
    /\ "create" \in Ops /\ "create" \notin UpdateOps
    /\ {"create", "create type index", "read", "alter"} \cap Moving = {}
    /\ {"create", "create type index", "read"} \cap ReadOps = {}
    /\ {"create", "create type index", "read", "alter"} \cap ConvertOps = {}
    /\ ConvertOps \subseteq ReadOps /\ ReadOps \subseteq UpdateOps /\ UpdateOps \subseteq Ops
    /\ "alter" \in ReadOps /\ "alter" \in Ops
    /\ "drop mnames" \in Dropping /\ "drop mnames" \in ConvertOps /\ "drop mnames" \notin Moving
BY DEF UpdateOps, ReadOps, ConvertOps, Ops, Moving, AfterClasses, AfterMonitors,
       AfterContainers, AfterNames, AfterEntries, AfterSubtests, AfterSelect, Dropping

LEMMA VersionCases ==
    /\ Old <=> origin.version \in {1, 2}
    /\ Fresh <=> origin.version = 0
    /\ Current <=> origin.version \in {3, 4}
BY DEF Old, Fresh, Current

LEMMA OneVersion ==
    ASSUME OriginBook
    PROVE  (Old \/ Fresh \/ Current) /\ (Old => ~Fresh /\ ~Current) /\ (Fresh => ~Current)
<1>1. (Old => ~Fresh /\ ~Current) /\ (Fresh => ~Current)
  BY DEF Old, Fresh, Current
<1> QED
  BY <1>1 DEF OriginBook

LEMMA VersionsStay ==
    ASSUME UNCHANGED origin
    PROVE  Old' = Old /\ Fresh' = Fresh /\ Current' = Current
BY DEF Old, Fresh, Current

\* What a program finds when it opens the database.
LEMMA OpenDoes ==
    ASSUME ConvInv, Open
    PROVE  /\ prog = "idle" /\ UNCHANGED <<origin, kills, disk, mem, mapping>>
           /\ Old => /\ prog' = "opening"
                     /\ stmt' \in {First("create type index"), First("read")}
           /\ Current => prog' = "ready" /\ UNCHANGED stmt
           /\ Fresh => \/ prog' = "ready" /\ UNCHANGED stmt /\ disk.version = 3
                       \/ prog' = "opening" /\ stmt' = First("create") /\ disk.version = 0
<1>1. /\ prog = "idle" /\ UNCHANGED <<origin, kills, disk, mem, mapping>>
      /\ \/ SchemeVersion >= 3 /\ prog' = "ready" /\ UNCHANGED stmt
         \/ /\ SchemeVersion < 3 /\ prog' = "opening"
            /\ SchemeVersion = 0 => stmt' = First("create")
            /\ SchemeVersion # 0 => stmt' \in {First("create type index"), First("read")}
  BY DEF Open, UpdateTables, DB_SCHEME_VERSION
<1>2. VersionBook /\ OriginBook
  BY DEF ConvInv
<1>3. /\ HasVersion => SchemeVersion = disk.version
      /\ ~HasVersion => SchemeVersion = 0
      /\ HasTables => HasVersion
  BY DEF SchemeVersion, HasVersion, HasTables
<1>4. CASE Old
  <2>1. disk.version \in {1, 2} /\ HasTables
    BY <1>2, <1>4 DEF VersionBook, Old
  <2>2. SchemeVersion \in {1, 2}
    BY <1>3, <2>1
  <2>3. ~Current /\ ~Fresh
    BY <1>4, VersionCases
  <2>4. ~(SchemeVersion >= 3) /\ SchemeVersion # 0
    BY <2>2
  <2> QED
    BY <1>1, <2>3, <2>4
<1>5. CASE Current
  <2>1. disk.version \in {3, 4} /\ HasTables
    BY <1>2, <1>5 DEF VersionBook, Current
  <2>2. ~(SchemeVersion < 3)
    BY <1>3, <2>1
  <2>3. ~Old /\ ~Fresh
    BY <1>5, VersionCases
  <2> QED
    BY <1>1, <2>2, <2>3
<1>6. CASE Fresh
  <2>1. disk.version \in {0, 3} /\ (disk.version = 3 => HasTables)
    BY <1>2, <1>6 DEF VersionBook
  <2>2. ~Old /\ ~Current
    BY <1>6, VersionCases
  <2>3. CASE disk.version = 3
    BY <1>1, <1>3, <2>1, <2>2, <2>3
  <2>4. CASE disk.version = 0
    <3>1. SchemeVersion = 0
      BY <1>3, <2>4
    <3>2. ~(SchemeVersion >= 3)
      BY <3>1
    <3> QED
      BY <1>1, <2>2, <2>4, <3>1, <3>2
  <2> QED
    BY <2>1, <2>3, <2>4
<1> QED
  BY <1>2, <1>4, <1>5, <1>6 DEF OriginBook

LEMMA AtStart ==
    ASSUME NEW op \in {"create", "create type index", "read"}
    PROVE  /\ First(op) \in Statements /\ First(op).op = op /\ First(op).row = 1
           /\ op \notin Moving /\ op \notin ReadOps /\ op \notin ConvertOps
           /\ op = "create" \/ op \in UpdateOps
BY FirstStatement, UpdateFacts

LEMMA FirstRowIs ==
    ASSUME NEW s \in Statements, s.row = 1
    PROVE  s.row \in 1..3 /\ ~(s.row > 1) /\ ~(s.row > 2)
BY DEF Statements

LEMMA OpenKeeps == ASSUME ConvInv, Open PROVE ConvInv'
<1>1. /\ prog = "idle" /\ UNCHANGED <<origin, kills, disk, mem, mapping>>
      /\ Old => /\ prog' = "opening"
                /\ stmt' \in {First("create type index"), First("read")}
      /\ Current => prog' = "ready" /\ UNCHANGED stmt
      /\ Fresh => \/ prog' = "ready" /\ UNCHANGED stmt /\ disk.version = 3
                  \/ prog' = "opening" /\ stmt' = First("create") /\ disk.version = 0
  BY OpenDoes
<1>2. /\ OriginBook /\ VersionBook /\ ProgBook /\ mapping \in Mappings /\ mapping = NoMapping
      /\ stmt \in Statements
  BY <1>1 DEF ConvInv, ProgBook
<1>3. /\ (Old \/ Fresh \/ Current) /\ (Old => ~Fresh /\ ~Current) /\ (Fresh => ~Current)
      /\ Old' = Old /\ Fresh' = Fresh /\ Current' = Current
  BY <1>1, <1>2, OneVersion, VersionsStay
<1>4. disk' \in Tables
  BY <1>1 DEF ConvInv, TablesBook
<1>5. HasTables' = HasTables /\ HasVersion' = HasVersion /\ disk' = disk /\ kills' = kills
  BY <1>1 DEF HasTables, HasVersion
<1>6. kills' = 0 /\ Begun => Whole
  BY <1>1 DEF ConvInv, LostBook, Converting
<1>7. CASE Old
  <2>1. PICK op \in {"create type index", "read"} : stmt' = First(op)
    BY <1>1, <1>7
  <2>2. stmt' \in Statements /\ stmt'.op = op /\ op \in UpdateOps /\ op \notin Moving
        /\ op \notin ReadOps /\ op \notin ConvertOps
    BY <2>1, AtStart
  <2>3. op # "alter"
    OBVIOUS
  <2>4. prog' = "opening" /\ mapping' = NoMapping /\ mapping' \in Mappings /\ Old'
    BY <1>1, <1>2, <1>3, <1>7
  <2>5. ProgBook'
    BY <2>2, <2>3, <2>4 DEF ProgBook
  <2>6. VersionBook'
    BY <1>1, <1>2, <1>3, <1>5, <1>7, <2>4 DEF VersionBook
  <2> QED
    BY <1>1, <1>4, <1>6, <2>5, <2>6, AlsoSame, StillStep
<1>8. CASE ~Old /\ prog' = "ready"
  <2>1. ProgBook'
    <3>1. stmt' = stmt /\ mapping' = NoMapping /\ prog' = "ready"
      BY <1>1, <1>2, <1>3, <1>8
    <3> QED
      BY <1>2, <3>1, NoneMapped DEF ProgBook
  <2>2. VersionBook'
    <3>1. CASE Current
      BY <1>1, <1>2, <1>3, <1>5, <1>8, <3>1 DEF VersionBook
    <3>2. CASE Fresh
      BY <1>1, <1>2, <1>3, <1>5, <1>8, <3>2 DEF VersionBook
    <3> QED
      BY <1>3, <1>8, <3>1, <3>2
  <2> QED
    BY <1>1, <1>4, <1>6, <2>1, <2>2, AlsoSame, StillStep
<1>9. CASE ~Old /\ prog' # "ready"
  <2>1. Fresh /\ prog' = "opening" /\ stmt' = First("create") /\ disk.version = 0
        /\ ~Old' /\ ~Current' /\ Fresh'
    BY <1>1, <1>3, <1>9
  <2>2. stmt' \in Statements /\ stmt'.op = "create" /\ stmt'.row = 1
        /\ "create" \notin Moving /\ "create" \notin ReadOps /\ "create" \notin ConvertOps
    BY <2>1, AtStart
  <2>3. mapping' = NoMapping /\ mapping' \in Mappings
    BY <1>1, <1>2
  <2>4. "create" # "alter"
    OBVIOUS
  <2>5. ProgBook'
    BY <2>1, <2>2, <2>3, <2>4 DEF ProgBook
  <2>6. stmt'.row \in 1..3 /\ ~(stmt'.row > 1) /\ ~(stmt'.row > 2)
    BY <2>2, FirstRowIs
  <2>7. VersionBook'
    BY <1>2, <1>5, <2>1, <2>6 DEF VersionBook
  <2> QED
    BY <1>1, <1>4, <1>6, <2>5, <2>7, AlsoSame, StillStep
<1> QED
  BY <1>7, <1>8, <1>9

\* The creation of the tables.
LEMMA CreateRow ==
    ASSUME NEW s \in Statements, s.row \in 1..3
    PROVE  /\ CreateTables[s.row] = "create version" => s.row = 1
           /\ CreateTables[s.row] = "create tables" => s.row = 2
           /\ CreateTables[s.row] = "insert version" => s.row = 3
<1>1. s.row = 1 \/ s.row = 2 \/ s.row = 3
  BY DEF Statements
<1>2. /\ CreateTables[1] = "create version" /\ CreateTables[2] = "create tables"
      /\ CreateTables[3] = "insert version"
  BY DEF CreateTables
<1>3. /\ "create version" # "create tables" /\ "create version" # "insert version"
      /\ "create tables" # "insert version"
  OBVIOUS
<1>4. CASE s.row = 1
  BY <1>2, <1>3, <1>4, Zenon
<1>5. CASE s.row = 2
  BY <1>2, <1>3, <1>5, Zenon
<1>6. CASE s.row = 3
  BY <1>2, <1>3, <1>6, Zenon
<1> QED
  BY <1>1, <1>4, <1>5, <1>6

LEMMA CreateFacts ==
    ASSUME ConvInv, NEW what, Creating(what)
    PROVE  /\ prog = "opening" /\ stmt.op = "create" /\ CreateTables[stmt.row] = what
           /\ stmt \in Statements /\ stmt.row \in 1..3
           /\ ~Old /\ Fresh /\ ~Current /\ disk.version = 0 /\ disk \in Tables
           /\ stmt.row > 1 => HasVersion
           /\ stmt.row > 2 => HasTables
           /\ mapping = NoMapping /\ mapping \in Mappings
<1>1. prog = "opening" /\ stmt.op = "create" /\ CreateTables[stmt.row] = what
  BY DEF Creating, Todo
<1>2. OriginBook /\ ProgBook /\ VersionBook /\ disk \in Tables
  BY DEF ConvInv, TablesBook
<1>3. ~Old /\ stmt \in Statements /\ mapping = NoMapping /\ mapping \in Mappings
  BY <1>1, <1>2, UpdateFacts DEF ProgBook
<1>4. ~Current
  BY <1>1, <1>2 DEF VersionBook
<1>5. Fresh
  BY <1>2, <1>3, <1>4 DEF OriginBook
<1>6. /\ disk.version = 0 /\ stmt.row \in 1..3
      /\ stmt.row > 1 => HasVersion
      /\ stmt.row > 2 => HasTables
  BY <1>1, <1>2, <1>5 DEF VersionBook
<1> QED
  BY <1>1, <1>2, <1>3, <1>4, <1>5, <1>6

LEMMA CreateDoes ==
    ASSUME NEW d, Create(d), stmt \in Statements, stmt.row \in 1..3, stmt.op = "create"
    PROVE  /\ disk' = d /\ stmt' \in Statements /\ stmt'.op = "create"
           /\ stmt'.row = stmt.row + 1
           /\ stmt.row = 3 => prog' = "ready"
           /\ stmt.row # 3 => prog' = "opening"
           /\ UNCHANGED <<origin, kills, mapping>>
<1>1. /\ disk' = d /\ stmt' = NextRow /\ UNCHANGED <<origin, kills, mapping>>
      /\ prog' = IF stmt.row < 3 THEN "opening" ELSE "ready"
  BY DEF Create, Program, CreateTables
<1>2. /\ stmt.row = 3 => prog' = "ready"
      /\ stmt.row # 3 => prog' = "opening"
  BY <1>1 DEF Statements
<1> QED
  BY <1>1, <1>2, NextStatement

LEMMA CreateStep ==
    ASSUME ConvInv, prog = "opening", stmt.op = "create", stmt \in Statements,
           ~Old, Fresh, ~Current, mapping = NoMapping, mapping \in Mappings,
           UNCHANGED <<origin, kills, mapping>>,
           stmt' \in Statements, stmt'.op = "create",
           disk' \in Tables, SameRows(disk', disk), disk'.env = disk.env,
           (HasBlobs' => HasBlobs) /\ (HasBlobs => HasBlobs'),
           \/ /\ prog' = "opening" /\ disk'.version = 0 /\ stmt'.row \in 1..3
              /\ stmt'.row > 1 => HasVersion'
              /\ stmt'.row > 2 => HasTables'
           \/ prog' = "ready" /\ disk'.version = 3 /\ HasTables'
    PROVE  ConvInv'
<1>1. ~Old' /\ Fresh' /\ ~Current'
  BY VersionsStay
<1>2. "create" \notin Moving /\ "create" \notin ReadOps /\ "create" \notin ConvertOps
  BY UpdateFacts
<1>3. "create" # "alter"
  OBVIOUS
<1>4. ProgBook'
  <2>1. stmt' \in Statements /\ mapping' \in Mappings /\ mapping' = NoMapping
        /\ prog' \in {"opening", "ready"} /\ stmt'.op = "create" /\ ~Old'
    BY <1>1
  <2> QED
    BY <1>2, <1>3, <2>1 DEF ProgBook
<1>5. VersionBook'
  <2>1. kills' \in Nat
    BY DEF ConvInv, VersionBook
  <2>2. CASE prog' = "ready"
    <3>1. disk'.version = 3 /\ HasTables'
      BY <2>2
    <3> QED
      BY <1>1, <2>1, <2>2, <3>1 DEF VersionBook
  <2>3. CASE prog' = "opening"
    <3>1. /\ disk'.version = 0 /\ stmt'.row \in 1..3
          /\ stmt'.row > 1 => HasVersion'
          /\ stmt'.row > 2 => HasTables'
      BY <2>3
    <3> QED
      BY <1>1, <2>1, <2>3, <3>1 DEF VersionBook
  <2> QED
    BY <2>2, <2>3
<1>6. ~Begun
  BY DEF Begun
<1>7. UNCHANGED <<disk.testclassinfo, disk.test, disk.names, disk.entries, disk.env>>
  BY DEF SameRows
<1> QED
  BY <1>4, <1>5, <1>6, <1>7, StillStep

\* The parts of a database.
LEMMA PartAdded ==
    ASSUME NEW d \in Tables, NEW part \in Parts
    PROVE  LET w == [d EXCEPT !.parts = d.parts \cup {part}] IN
           /\ w \in Tables /\ SameRows(w, d) /\ w.env = d.env /\ w.version = d.version
           /\ w.parts = d.parts \cup {part}
<1>1. PICK parts \in SUBSET Parts : parts = d.parts \cup {part}
  BY DEF Tables
<1>2. PICK w : w = [d EXCEPT !.parts = parts]
  OBVIOUS
<1>3. /\ w \in Tables /\ SameRows(w, d) /\ w.env = d.env /\ w.version = d.version
      /\ w.parts = parts
  BY <1>2, Set_parts DEF SameRows
<1> QED
  BY <1>1, <1>2, <1>3

LEMMA NextRowIs ==
    ASSUME NEW s \in Statements, NEW t \in Statements, t.row = s.row + 1
    PROVE  /\ s.row = 1 => s.row # 3 /\ t.row \in 1..3 /\ ~(t.row > 2)
           /\ s.row = 2 => s.row # 3 /\ t.row \in 1..3 /\ s.row > 1
           /\ s.row = 3 => s.row > 2
BY DEF Statements

LEMMA CreateVersionKeeps == ASSUME ConvInv, CreateVersion PROVE ConvInv'
<1>1. Creating("create version")
  BY DEF CreateVersion
<1>2. /\ prog = "opening" /\ stmt.op = "create" /\ CreateTables[stmt.row] = "create version"
      /\ stmt \in Statements /\ stmt.row \in 1..3
      /\ ~Old /\ Fresh /\ ~Current /\ disk.version = 0 /\ disk \in Tables
      /\ mapping = NoMapping /\ mapping \in Mappings
  BY <1>1, CreateFacts
<1>3. CASE HasVersion
  <2>1. Raise /\ stmt.op \notin ConvertOps
    BY <1>2, <1>3, UpdateFacts DEF CreateVersion, HasVersion
  <2> QED
    BY <1>2, <2>1, RaiseEarly
<1>4. CASE ~HasVersion
  <2>1. Create([disk EXCEPT !.parts = disk.parts \cup {"version"}])
    BY <1>4 DEF CreateVersion, HasVersion
  <2>2. /\ disk' = [disk EXCEPT !.parts = disk.parts \cup {"version"}]
        /\ stmt' \in Statements /\ stmt'.op = "create" /\ stmt'.row = stmt.row + 1
        /\ stmt.row # 3 => prog' = "opening"
        /\ UNCHANGED <<origin, kills, mapping>>
    BY <1>2, <2>1, CreateDoes
  <2>3. stmt.row = 1
    BY <1>2, CreateRow
  <2>4. stmt.row # 3 /\ stmt'.row \in 1..3 /\ ~(stmt'.row > 2)
    BY <1>2, <2>2, <2>3, NextRowIs
  <2>5. /\ disk' \in Tables /\ SameRows(disk', disk) /\ disk'.env = disk.env
        /\ disk'.version = disk.version /\ disk'.parts = disk.parts \cup {"version"}
    <3>1. "version" \in Parts
      BY DEF Parts
    <3> QED
      BY <1>2, <2>2, <3>1, PartAdded
  <2>6. HasVersion' /\ (HasBlobs' => HasBlobs) /\ (HasBlobs => HasBlobs')
    BY <2>5 DEF HasVersion, HasBlobs
  <2>7. prog' = "opening" /\ disk'.version = 0
    BY <1>2, <2>2, <2>4, <2>5
  <2> QED
    BY <1>2, <2>2, <2>4, <2>5, <2>6, <2>7, CreateStep
<1> QED
  BY <1>3, <1>4

LEMMA CreateOtherTablesKeeps == ASSUME ConvInv, CreateOtherTables PROVE ConvInv'
<1>1. Creating("create tables") /\ Create([disk EXCEPT !.parts = disk.parts \cup {"tables"}])
  BY DEF CreateOtherTables
<1>2. /\ prog = "opening" /\ stmt.op = "create" /\ CreateTables[stmt.row] = "create tables"
      /\ stmt \in Statements /\ stmt.row \in 1..3
      /\ ~Old /\ Fresh /\ ~Current /\ disk.version = 0 /\ disk \in Tables
      /\ stmt.row > 1 => HasVersion
      /\ mapping = NoMapping /\ mapping \in Mappings
  BY <1>1, CreateFacts
<1>3. /\ disk' = [disk EXCEPT !.parts = disk.parts \cup {"tables"}]
      /\ stmt' \in Statements /\ stmt'.op = "create" /\ stmt'.row = stmt.row + 1
      /\ stmt.row # 3 => prog' = "opening"
      /\ UNCHANGED <<origin, kills, mapping>>
  BY <1>1, <1>2, CreateDoes
<1>4. stmt.row = 2
  BY <1>2, CreateRow
<1>5. stmt.row # 3 /\ stmt'.row \in 1..3 /\ stmt.row > 1
  BY <1>2, <1>3, <1>4, NextRowIs
<1>6. /\ disk' \in Tables /\ SameRows(disk', disk) /\ disk'.env = disk.env
      /\ disk'.version = disk.version /\ disk'.parts = disk.parts \cup {"tables"}
  <2>1. "tables" \in Parts
    BY DEF Parts
  <2> QED
    BY <1>2, <1>3, <2>1, PartAdded
<1>a. HasVersion
  BY <1>2, <1>5
<1>7. HasVersion' /\ HasTables' /\ (HasBlobs' => HasBlobs) /\ (HasBlobs => HasBlobs')
  BY <1>6, <1>a DEF HasVersion, HasTables, HasBlobs
<1>8. prog' = "opening" /\ disk'.version = 0
  BY <1>2, <1>3, <1>5, <1>6
<1> QED
  BY <1>2, <1>3, <1>5, <1>6, <1>7, <1>8, CreateStep

LEMMA InsertVersionKeeps == ASSUME ConvInv, InsertVersion PROVE ConvInv'
<1>1. Creating("insert version") /\ Create([disk EXCEPT !.version = DB_SCHEME_VERSION])
  BY DEF InsertVersion
<1>2. /\ prog = "opening" /\ stmt.op = "create" /\ CreateTables[stmt.row] = "insert version"
      /\ stmt \in Statements /\ stmt.row \in 1..3
      /\ ~Old /\ Fresh /\ ~Current /\ disk \in Tables
      /\ stmt.row > 2 => HasTables
      /\ mapping = NoMapping /\ mapping \in Mappings
  BY <1>1, CreateFacts
<1>3. /\ disk' = [disk EXCEPT !.version = 3]
      /\ stmt' \in Statements /\ stmt'.op = "create" /\ stmt'.row = stmt.row + 1
      /\ stmt.row = 3 => prog' = "ready"
      /\ UNCHANGED <<origin, kills, mapping>>
  BY <1>1, <1>2, CreateDoes DEF DB_SCHEME_VERSION
<1>4. stmt.row = 3
  BY <1>2, CreateRow
<1>5. stmt.row > 2
  BY <1>2, <1>3, <1>4, NextRowIs
<1>6. /\ disk' \in Tables /\ SameRows(disk', disk) /\ disk'.env = disk.env
      /\ disk'.version = 3 /\ disk'.parts = disk.parts
  <2>1. disk \in Tables /\ 3 \in Nat
    BY <1>2
  <2>2. disk' = [disk EXCEPT !.version = 3]
    BY <1>3
  <2> QED
    BY <2>1, <2>2, Set_version DEF SameRows
<1>7. HasTables' /\ (HasBlobs' => HasBlobs) /\ (HasBlobs => HasBlobs')
  BY <1>2, <1>5, <1>6 DEF HasTables, HasBlobs
<1>8. prog' = "ready"
  BY <1>3, <1>4
<1> QED
  BY <1>2, <1>3, <1>6, <1>7, <1>8, CreateStep

-----------------------------------------------------------------------------
(* The statements before the drops.                                        *)

LEMMA OldVersions ==
    ASSUME VersionBook, Old, UNCHANGED <<origin, kills>>, prog' # "ready",
           disk'.version = disk.version, HasTables'
    PROVE  VersionBook'
<1>1. Old' /\ ~Current' /\ ~Fresh'
  <2>1. ~Current /\ ~Fresh
    BY DEF Old, Current, Fresh
  <2> QED
    BY <2>1, VersionsStay
<1>2. disk'.version = origin'.version /\ kills' \in Nat
  BY DEF VersionBook
<1> QED
  BY <1>1, <1>2 DEF VersionBook

LEMMA UpdateFactsOf ==
    ASSUME ConvInv, prog = "opening", stmt.op \in UpdateOps
    PROVE  /\ Old /\ VersionBook /\ HasTables /\ disk \in Tables /\ stmt \in Statements
           /\ mapping \in Mappings /\ (stmt.op \notin Moving => mapping = NoMapping)
           /\ stmt.op \in ReadOps => PlaceBook
           /\ stmt.op \notin ConvertOps /\ Begun /\ kills = 0 => Whole
<1>1. Old /\ disk \in Tables /\ VersionBook
  BY UpdateFacts DEF ConvInv, ProgBook, TablesBook
<1>2. HasTables
  BY <1>1 DEF VersionBook
<1> QED
  BY <1>1, <1>2 DEF ConvInv, ProgBook, LostBook, Converting

LEMMA BlobsStay ==
    ASSUME NEW part, part # "class blobs", disk'.parts = disk.parts \cup {part}
    PROVE  (HasBlobs' => HasBlobs) /\ (HasBlobs => HasBlobs')
BY DEF HasBlobs

LEMMA CreateTypeIndexKeeps == ASSUME ConvInv, CreateTypeIndex PROVE ConvInv'
<1>1. prog = "opening" /\ stmt.op = "create type index"
  BY DEF CreateTypeIndex, Todo
<1>2. stmt.op \in UpdateOps /\ stmt.op \notin ConvertOps /\ stmt.op \notin Moving
      /\ stmt.op \notin ReadOps
  BY <1>1, UpdateFacts
<1>3. /\ Old /\ VersionBook /\ HasTables /\ disk \in Tables
      /\ mapping \in Mappings /\ mapping = NoMapping
      /\ Begun /\ kills = 0 => Whole
  BY <1>1, <1>2, UpdateFactsOf
<1>4. \/ Raise
      \/ Execute([disk EXCEPT !.parts = disk.parts \cup {"type index"}], First("read"))
  BY DEF CreateTypeIndex
<1>5. CASE Raise
  BY <1>1, <1>2, <1>5, RaiseEarly
<1>6. CASE Execute([disk EXCEPT !.parts = disk.parts \cup {"type index"}], First("read"))
  <2>1. /\ disk' = [disk EXCEPT !.parts = disk.parts \cup {"type index"}]
        /\ stmt' = First("read") /\ prog' = "opening"
        /\ UNCHANGED <<origin, kills, mem, mapping>>
    BY <1>6 DEF Execute, Go, Program
  <2>2. /\ disk' \in Tables /\ SameRows(disk', disk) /\ disk'.env = disk.env
        /\ disk'.version = disk.version /\ disk'.parts = disk.parts \cup {"type index"}
    <3>1. "type index" \in Parts
      BY DEF Parts
    <3> QED
      BY <1>3, <2>1, <3>1, PartAdded
  <2>3. HasTables' /\ (HasBlobs' => HasBlobs) /\ (HasBlobs => HasBlobs')
    <3>1. HasTables
      BY <1>3
    <3>2. disk'.parts = disk.parts \cup {"type index"}
      BY <2>2
    <3>3. HasTables'
      BY <3>1, <3>2 DEF HasTables
    <3>4. (HasBlobs' => HasBlobs) /\ (HasBlobs => HasBlobs')
      <4>1. "class blobs" # "type index"
        OBVIOUS
      <4> QED
        BY <3>2, <4>1, BlobsStay
    <3> QED
      BY <3>3, <3>4
  <2>4. stmt' \in Statements /\ stmt'.op = "read" /\ "read" \in UpdateOps
        /\ "read" \notin Moving /\ "read" \notin ReadOps /\ "read" \notin ConvertOps
    BY <2>1, AtStart, UpdateFacts
  <2>5. "read" # "alter"
    OBVIOUS
  <2>6. ProgBook'
    <3>1. Old' /\ mapping' \in Mappings /\ mapping' = NoMapping
      BY <1>3, <2>1, VersionsStay
    <3> QED
      BY <2>1, <2>4, <2>5, <3>1 DEF ProgBook
  <2>7. VersionBook'
    <3>1. prog' # "ready"
      BY <2>1
    <3> QED
      BY <1>3, <2>1, <2>2, <2>3, <3>1, OldVersions
  <2>8. UNCHANGED <<disk.testclassinfo, disk.test, disk.names, disk.entries, disk.env>>
    BY <2>2 DEF SameRows
  <2> QED
    BY <1>3, <2>1, <2>2, <2>3, <2>6, <2>7, <2>8, StillStep
<1> QED
  BY <1>4, <1>5, <1>6

\* Nothing is moved yet.
JustRead ==
    /\ stmt \in Statements /\ stmt.op = "alter" /\ stmt.row = 1
    /\ MemBook /\ SameRows(disk, origin) /\ disk.env = origin.env /\ origin \in Tables
    /\ mapping = NoMapping

LEMMA NothingMoved == JustRead => PlaceBook
<1> SUFFICES ASSUME JustRead PROVE PlaceBook
  OBVIOUS
<1>0. /\ stmt \in Statements /\ stmt.op \in {"alter"} \cup Dropping /\ stmt.row = 1
      /\ MemBook /\ SameRows(disk, origin) /\ disk.env = origin.env /\ origin \in Tables
      /\ mapping = NoMapping
  BY DEF JustRead
<1>1. /\ ClassesDone(stmt) = 0 /\ TestsDone(stmt) = 0
      /\ \A k \in Dictionaries :
            NamesDone(stmt, k) = 0 /\ EntriesDone(stmt, k) = 0 /\ ~NamesTyped(stmt, k)
      /\ stmt.op \notin {"mark subtest", "mark scenario"} \cup AfterSubtests
      /\ stmt.op \notin AfterSelect
      /\ stmt.op # "insert variables"
  BY <1>0, AtDropping
<1>2. /\ C0 \in Nat /\ T0 \in Nat /\ \A k \in Dictionaries : N0(k) \in Nat /\ E0(k) \in Nat
  BY <1>0, RowsOf DEF C0, T0, N0, E0
<1>3. /\ Len(disk.testclassinfo) = C0 /\ Len(disk.test) = T0
      /\ \A k \in Dictionaries : Len(disk.names[k]) = N0(k) /\ Len(disk.entries[k]) = E0(k)
  BY <1>0 DEF SameRows, C0, T0, N0, E0
<1>4. /\ mapping.class = <<>> /\ mapping.test = <<>>
      /\ \A k \in Dictionaries : mapping.name[k] = <<>>
  BY <1>0, NoneMapped
<1>5. ClassPlace
  <2>1. Shifted(<<>>, C0, C0)
    BY <1>2, ShiftedNone
  <2>2. Len(disk.testclassinfo) = C0 /\ C0 \in Nat /\ mapping.class = <<>> /\ ClassesDone(stmt) = 0
    BY <1>1, <1>2, <1>3, <1>4
  <2> QED
    BY <2>1, <2>2 DEF ClassPlace
<1>6. TestPlace
  <2>1. Shifted(<<>>, T0, T0)
    BY <1>2, ShiftedNone
  <2>2. Len(disk.test) = T0 /\ T0 \in Nat /\ mapping.test = <<>> /\ TestsDone(stmt) = 0
    BY <1>1, <1>2, <1>3, <1>4
  <2> QED
    BY <2>1, <2>2 DEF TestPlace
<1>7. ASSUME NEW k \in Dictionaries PROVE NamePlace(k) /\ EntryPlace(k)
  <2>1. Shifted(<<>>, N0(k), N0(k))
    BY <1>2, ShiftedNone
  <2>2. /\ Len(disk.names[k]) = N0(k) /\ Len(disk.entries[k]) = E0(k)
        /\ N0(k) \in Nat /\ E0(k) \in Nat /\ mapping.name[k] = <<>>
        /\ NamesDone(stmt, k) = 0 /\ EntriesDone(stmt, k) = 0 /\ ~NamesTyped(stmt, k)
    BY <1>1, <1>2, <1>3, <1>4
  <2>3. NamePlace(k)
    BY <2>1, <2>2 DEF NamePlace
  <2>4. EntryPlace(k)
    BY <2>2 DEF EntryPlace
  <2> QED
    BY <2>3, <2>4
<1>8. SubtestPlace
  <2>1. stmt.op \notin {"mark subtest", "mark scenario"} /\ stmt.op # "mark scenario"
        /\ stmt.op \notin AfterSubtests
    BY <1>1
  <2> QED
    BY <2>1 DEF SubtestPlace
<1>9. EnvPlace
  BY <1>0, <1>1 DEF EnvPlace
<1>10. stmt.row # 0
  BY <1>0, FirstRow
<1> QED
  BY <1>0, <1>5, <1>6, <1>7, <1>8, <1>9, <1>10 DEF PlaceBook

LEMMA ReadTablesKeeps == ASSUME ConvInv, ReadTables PROVE ConvInv'
<1>1. prog = "opening" /\ stmt.op = "read"
  BY DEF ReadTables, Todo
<1>2. stmt.op \in UpdateOps /\ stmt.op \notin ConvertOps /\ stmt.op \notin Moving
      /\ stmt.op \notin ReadOps
  BY <1>1, UpdateFacts
<1>3. /\ Old /\ VersionBook /\ HasTables /\ disk \in Tables
      /\ mapping \in Mappings /\ mapping = NoMapping
      /\ Begun /\ kills = 0 => Whole
  BY <1>1, <1>2, UpdateFactsOf
<1>4. CASE ~HasBlobs
  <2>1. Raise
    BY <1>4 DEF ReadTables, HasBlobs
  <2> QED
    BY <1>1, <1>2, <2>1, RaiseEarly
<1>5. CASE HasBlobs
  <2>1. /\ mem' = disk /\ stmt' = First("alter") /\ prog' = "opening"
        /\ UNCHANGED <<origin, kills, disk, mapping>>
    BY <1>5 DEF ReadTables, HasBlobs, Go, Program
  <2>2. ~Begun
    BY <1>5 DEF Begun
  <2>3. SameRows(disk, origin) /\ disk.env = origin.env /\ origin \in Tables
    BY <2>2 DEF ConvInv, LostBook, OriginBook, IsOld
  <2>4. /\ stmt' \in Statements /\ stmt'.op = "alter" /\ stmt'.row = 1
    BY <2>1, FirstStatement, UpdateFacts
  <2>5. PlaceBook'
    <3>1. MemBook'
      BY <1>3, <2>1, <2>3 DEF MemBook, SameRows
    <3>2. SameRows(disk, origin)' /\ disk'.env = origin'.env /\ origin' \in Tables
      BY <2>1, <2>3 DEF SameRows
    <3>3. mapping' = NoMapping
      BY <1>3, <2>1
    <3>4. JustRead'
      BY <2>4, <3>1, <3>2, <3>3 DEF JustRead
    <3> QED
      BY <3>4, NothingMoved, PTL
  <2>6. ProgBook'
    <3>1. Old' /\ mapping' \in Mappings /\ mapping' = NoMapping /\ ~Begun'
      BY <1>3, <2>1, <2>2, VersionsStay DEF Begun, Old, HasBlobs
    <3>2. "alter" \in UpdateOps /\ "alter" \notin ConvertOps
      BY UpdateFacts
    <3> QED
      BY <2>1, <2>4, <2>5, <3>1, <3>2 DEF ProgBook
  <2>7. VersionBook'
    <3>1. prog' # "ready" /\ disk'.version = disk.version /\ HasTables'
      BY <1>3, <2>1 DEF HasTables
    <3> QED
      BY <1>3, <2>1, <3>1, OldVersions
  <2>8. disk' \in Tables
    BY <1>3, <2>1
  <2> QED
    BY <1>3, <2>1, <2>6, <2>7, <2>8, AlsoSame, StillStep
<1> QED
  BY <1>4, <1>5

-----------------------------------------------------------------------------
(* Every step.                                                             *)

LEMMA PartRemoved ==
    ASSUME NEW d \in Tables, NEW part
    PROVE  LET w == [d EXCEPT !.parts = d.parts \ {part}] IN
           /\ w \in Tables /\ SameRows(w, d) /\ w.env = d.env /\ w.version = d.version
           /\ w.parts = d.parts \ {part}
<1>1. PICK parts \in SUBSET Parts : parts = d.parts \ {part}
  BY DEF Tables
<1>2. PICK w : w = [d EXCEPT !.parts = parts]
  OBVIOUS
<1>3. /\ w \in Tables /\ SameRows(w, d) /\ w.env = d.env /\ w.version = d.version
      /\ w.parts = parts
  BY <1>2, Set_parts DEF SameRows
<1> QED
  BY <1>1, <1>2, <1>3

LEMMA AlterTablesKeeps == ASSUME ConvInv, AlterTables PROVE ConvInv'
<1>1. prog = "opening" /\ stmt.op = "alter"
  BY DEF AlterTables, Todo
<1>2. stmt.op \in UpdateOps /\ stmt.op \notin ConvertOps /\ stmt.op \notin Moving
      /\ stmt.op \in ReadOps
  BY <1>1, UpdateFacts
<1>3. /\ Old /\ VersionBook /\ HasTables /\ disk \in Tables /\ stmt \in Statements
      /\ mapping \in Mappings /\ mapping = NoMapping /\ PlaceBook /\ OriginBook /\ TablesBook
  BY <1>1, <1>2, UpdateFactsOf DEF ConvInv
<1>4. Raise \/ Execute([disk EXCEPT !.parts = disk.parts \ {"class blobs"}], First("drop mnames"))
  BY DEF AlterTables
<1>5. CASE Raise
  BY <1>1, <1>2, <1>5, RaiseEarly
<1>6. CASE Execute([disk EXCEPT !.parts = disk.parts \ {"class blobs"}], First("drop mnames"))
  <2>1. /\ disk' = [disk EXCEPT !.parts = disk.parts \ {"class blobs"}]
        /\ stmt' = First("drop mnames") /\ prog' = "opening"
        /\ UNCHANGED <<origin, kills, mem, mapping>>
    BY <1>6 DEF Execute, Go, Program
  <2>2. /\ disk' \in Tables /\ SameRows(disk', disk) /\ disk'.env = disk.env
        /\ disk'.version = disk.version /\ disk'.parts = disk.parts \ {"class blobs"}
    BY <1>3, <2>1, PartRemoved
  <2>3. HasTables' /\ ~HasBlobs'
    <3>1. disk'.parts = disk.parts \ {"class blobs"} /\ HasTables
      BY <1>3, <2>2
    <3>2. "version" # "class blobs" /\ "tables" # "class blobs"
      OBVIOUS
    <3>3. HasTables'
      BY <3>1, <3>2, Zenon DEF HasTables
    <3>4. ~HasBlobs'
      BY <3>1, Zenon DEF HasBlobs
    <3> QED
      BY <3>3, <3>4
  <2>4. Old' /\ Begun'
    BY <1>3, <2>1, <2>3, VersionsStay DEF Begun
  <2>5. /\ stmt' \in Statements /\ stmt'.op = "drop mnames" /\ stmt'.row = 1
        /\ stmt'.op \in Dropping /\ stmt'.op \in ConvertOps /\ stmt'.op \notin Moving
        /\ stmt'.op \in UpdateOps /\ stmt'.op \in ReadOps
    BY <2>1, FirstStatement, UpdateFacts
  <2>6. UNCHANGED <<disk.testclassinfo, disk.test, disk.names, disk.entries, disk.env>>
    BY <2>2 DEF SameRows
  <2>7. PlaceBook'
    BY <1>1, <1>3, <2>1, <2>5, <2>6, DropPlace
  <2>8. OriginBook' /\ TablesBook'
    BY <1>3, <2>1, <2>2, <2>6, RowsStay
  <2>9. ProgBook'
    <3>1. stmt'.op # "alter" /\ mapping' = NoMapping /\ mapping' \in Mappings
      BY <1>3, <2>1, <2>5
    <3> QED
      BY <2>1, <2>4, <2>5, <2>7, <3>1 DEF ProgBook
  <2>10. LostBook'
    BY <2>1, <2>4, <2>5 DEF LostBook, Converting
  <2>11. VersionBook'
    <3>1. prog' # "ready"
      BY <2>1
    <3> QED
      BY <1>3, <2>1, <2>2, <2>3, <3>1, OldVersions
  <2> QED
    BY <2>8, <2>9, <2>10, <2>11 DEF ConvInv
<1> QED
  BY <1>4, <1>5, <1>6

LEMMA PlaceStutters ==
    ASSUME PlaceBook, UNCHANGED <<origin, disk, stmt, mem, mapping>>
    PROVE  PlaceBook'
<1>1. MemBook' /\ (stmt.op # "insert variables" => stmt.row # 0)'
  BY MemStays DEF PlaceBook
<1>2. ClassPlace'
  BY DEF PlaceBook, ClassPlace, C0, ClassesDone, Done, Shifted
<1>3. TestPlace'
  BY DEF PlaceBook, TestPlace, T0, TestsDone, Done, Shifted
<1>4. ASSUME NEW k \in Dictionaries PROVE NamePlace(k)' /\ EntryPlace(k)'
  <2>1. NamePlace(k) /\ EntryPlace(k)
    BY DEF PlaceBook
  <2>2. NamePlace(k)'
    BY <2>1 DEF NamePlace, N0, NamesDone, DoneOf, Done, Shifted, NamesTyped, Named, TypeOf
  <2>3. EntryPlace(k)'
    BY <2>1 DEF EntryPlace, E0, EntriesDone, DoneOf, Done
  <2> QED
    BY <2>2, <2>3
<1>5. SubtestPlace'
  BY DEF PlaceBook, SubtestPlace, Marked
<1>6. EnvPlace'
  <2>1. Says(disk.env)' = Says(disk.env) /\ Says(origin.env)' = Says(origin.env)
    <3>1. disk' = disk /\ origin' = origin
      OBVIOUS
    <3>2. Says(disk.env)' = Says(disk'.env) /\ Says(origin.env)' = Says(origin'.env)
      BY DEF Says
    <3> QED
      BY <3>1, <3>2
  <2>2. Inserted' = Inserted
    BY Zenon DEF Inserted
  <2> QED
    BY <2>1, <2>2 DEF PlaceBook, EnvPlace
<1> QED
  BY <1>1, <1>2, <1>3, <1>4, <1>5, <1>6 DEF PlaceBook

LEMMA StutterKeeps == ASSUME ConvInv, UNCHANGED openVars PROVE ConvInv'
<1>1. UNCHANGED <<origin, disk, prog, stmt, mem, mapping, kills>>
  BY DEF openVars
<1>2. (Begun' => Begun) /\ (Begun => Begun') /\ (Converting' => Converting)
      /\ (Converting => Converting') /\ (Old' => Old) /\ (Old => Old')
  BY <1>1 DEF Begun, Old, Converting, HasBlobs
<1>3. PlaceBook => PlaceBook'
  BY <1>1, PlaceStutters
<1>4. ProgBook'
  BY <1>1, <1>2, <1>3 DEF ConvInv, ProgBook
<1>5. VersionBook'
  BY <1>1 DEF ConvInv, VersionBook, Old, Current, Fresh, HasTables, HasVersion
<1>6. kills' = 0 /\ Begun /\ ~Converting' => Whole
  BY <1>1, <1>2 DEF ConvInv, LostBook
<1>7. disk' \in Tables
  BY <1>1 DEF ConvInv, TablesBook
<1> QED
  BY <1>1, <1>4, <1>5, <1>6, <1>7, AlsoSame, StillStep

LEMMA StepKeeps == ConvInv /\ [OpenNext]_openVars => ConvInv'
<1> SUFFICES ASSUME ConvInv, [OpenNext]_openVars PROVE ConvInv'
  OBVIOUS
<1>1. CASE Open
  BY <1>1, OpenKeeps
<1>2. CASE Leave
  BY <1>2, LeaveKeeps
<1>3. CASE Kill
  BY <1>3, KillKeeps
<1>4. CASE CreateVersion
  BY <1>4, CreateVersionKeeps
<1>5. CASE CreateOtherTables
  BY <1>5, CreateOtherTablesKeeps
<1>6. CASE InsertVersion
  BY <1>6, InsertVersionKeeps
<1>7. CASE CreateTypeIndex
  BY <1>7, CreateTypeIndexKeeps
<1>8. CASE ReadTables
  BY <1>8, ReadTablesKeeps
<1>9. CASE AlterTables
  BY <1>9, AlterTablesKeeps
<1>10. CASE DropTables
  BY <1>10, DropKeeps
<1>11. CASE MoveClass
  BY <1>11, MoveClassKeeps
<1>12. CASE MoveMonitor
  BY <1>12, MoveMonitorKeeps
<1>13. CASE NameContainers
  BY <1>13, NameContainersKeeps
<1>14. CASE MoveName
  BY <1>14, MoveNameKeeps
<1>15. CASE MoveEntry
  BY <1>15, MoveEntryKeeps
<1>16. CASE MarkSubtest
  BY <1>16, MarkSubtestKeeps
<1>17. CASE MarkScenario
  BY <1>17, MarkScenarioKeeps
<1>18. CASE LoopEnds
  BY <1>18, LoopEndsKeeps
<1>19. CASE SelectEnvironment
  BY <1>19, SelectEnvironmentKeeps
<1>20. CASE ConvertRow
  BY <1>20, ConvertRowKeeps
<1>21. CASE DeleteRow
  BY <1>21, DeleteRowKeeps
<1>22. CASE InsertVariables
  BY <1>22, InsertVariablesKeeps
<1>23. CASE ConvertExtraInfo
  BY <1>23, ConvertExtraInfoKeeps
<1>24. CASE UNCHANGED openVars
  BY <1>24, StutterKeeps
<1> QED
  BY <1>1, <1>2, <1>3, <1>4, <1>5, <1>6, <1>7, <1>8, <1>9, <1>10, <1>11, <1>12, <1>13, <1>14,
     <1>15, <1>16, <1>17, <1>18, <1>19, <1>20, <1>21, <1>22, <1>23, <1>24 DEF OpenNext

\* The books hold whatever is opened, however often, and wherever it is killed.
THEOREM ConvAlways == OpenSpec => []ConvInv
BY InitConvInv, StepKeeps, PTL DEF OpenSpec

-----------------------------------------------------------------------------
(* What follows from it.                                                   *)

LEMMA ReadyHolds == ASSUME ConvInv PROVE ReadyIsWhole
<1> SUFFICES ASSUME prog = "ready", disk.version <= DB_SCHEME_VERSION
             PROVE  /\ disk.version = DB_SCHEME_VERSION
                    /\ {"version", "tables"} \subseteq disk.parts
                    /\ disk.monitor = <<>>
  BY DEF ReadyIsWhole
<1>1. ~Old /\ origin.monitor = <<>>
  BY DEF ConvInv, VersionBook, OriginBook
<1>2. CASE Current
  BY <1>1, <1>2 DEF ConvInv, VersionBook, HasTables, Current, DB_SCHEME_VERSION
<1>3. CASE Fresh
  <2>1. disk.version = 3 /\ HasTables
    BY <1>3 DEF ConvInv, VersionBook
  <2>2. disk.monitor = origin.monitor
    BY <1>1 DEF ConvInv, LostBook, Begun, SameRows
  <2> QED
    BY <1>1, <2>1, <2>2 DEF HasTables, DB_SCHEME_VERSION
<1> QED
  BY <1>1, <1>2, <1>3 DEF ConvInv, OriginBook

\* A storage is only used if the tables of its version are all there: of the
\* versions that _setUp opens as they are, and of those it has created.
THEOREM ReadyIsWholeTheorem == OpenSpec => []ReadyIsWhole
BY ConvAlways, ReadyHolds, PTL

\* What an entry of an old monitor says, and one of a new one.
OldTold(k, e) ==
    LET n == origin.mnames[k][e.name]
    IN  <<k, origin.monitorclassinfo[n.container].type, n.name>>
NewTold(k, e) ==
    LET n == disk.names[k][e.name] IN <<k, n.container[2], n.name>>

LEMMA EntriesAre ==
    ASSUME NEW rows, NEW i
    PROVE  \A e : e \in EntriesOf(rows, i) <=> \E x \in DOMAIN rows : rows[x] = e /\ e.container = i
BY DEF EntriesOf, ToSet

LEMMA OldMonitorIs ==
    ASSUME NEW j
    PROVE  /\ OldMonitor(j).test = origin.monitor[j].testid
           /\ OldMonitor(j).class = origin.monitorclassinfo[origin.monitor[j].type].type
           /\ \A p : p \in OldMonitor(j).says <=>
                  \E k \in Dictionaries : \E i \in DOMAIN origin.mentries[k] :
                     /\ origin.mentries[k][i].container = j
                     /\ p = OldTold(k, origin.mentries[k][i])
<1>1. /\ OldMonitor(j).test = origin.monitor[j].testid
      /\ OldMonitor(j).class = origin.monitorclassinfo[origin.monitor[j].type].type
  BY DEF OldMonitor
<1>2. OldMonitor(j).says =
        UNION {{OldTold(k, e) : e \in EntriesOf(origin.mentries[k], j)} : k \in Dictionaries}
  BY DEF OldMonitor, OldTold
<1>3. ASSUME NEW p
      PROVE  p \in OldMonitor(j).says <=>
               \E k \in Dictionaries : \E e \in EntriesOf(origin.mentries[k], j) : p = OldTold(k, e)
  BY <1>2
<1> QED
  BY <1>1, <1>3, EntriesAre

LEMMA NewMonitorIs ==
    ASSUME NEW i
    PROVE  /\ NewMonitor(i).test = disk.test[i].parent
           /\ NewMonitor(i).class = disk.testclassinfo[disk.test[i].type].type
           /\ \A p : p \in NewMonitor(i).says <=>
                  \E k \in Dictionaries : \E x \in DOMAIN disk.entries[k] :
                     /\ disk.entries[k][x].container = i
                     /\ p = NewTold(k, disk.entries[k][x])
<1>1. /\ NewMonitor(i).test = disk.test[i].parent
      /\ NewMonitor(i).class = disk.testclassinfo[disk.test[i].type].type
  BY DEF NewMonitor
<1>2. NewMonitor(i).says =
        UNION {{NewTold(k, e) : e \in EntriesOf(disk.entries[k], i)} : k \in Dictionaries}
  BY DEF NewMonitor, NewTold
<1>3. ASSUME NEW p
      PROVE  p \in NewMonitor(i).says <=>
               \E k \in Dictionaries : \E e \in EntriesOf(disk.entries[k], i) : p = NewTold(k, e)
  BY <1>2
<1> QED
  BY <1>1, <1>3, EntriesAre

LEMMA SameMonitor ==
    ASSUME NEW i, NEW j, NewMonitor(i).test = OldMonitor(j).test,
           NewMonitor(i).class = OldMonitor(j).class,
           NewMonitor(i).says = OldMonitor(j).says
    PROVE  NewMonitor(i) = OldMonitor(j)
BY DEF NewMonitor, OldMonitor

LEMMA MovedPart ==
    ASSUME NEW t, NEW n \in Nat, NEW more, Len(more) \in Nat, Appended(t, n, more),
           NEW i \in 1..Len(t), i > n
    PROVE  /\ i - n \in 1..Len(more) /\ t[i] = more[i - n]
           /\ i = n + (i - n)
BY DEF Appended

LEMMA MovedPlace ==
    ASSUME NEW t, NEW n \in Nat, NEW more, Len(more) \in Nat, Appended(t, n, more),
           NEW j \in 1..Len(more), n + j <= Len(t)
    PROVE  /\ n + j \in 1..Len(t) /\ n + j > n /\ t[n + j] = more[j]
<1>1. n + j \in (n + 1)..Len(t) /\ (n + j) - n = j
  BY DEF Appended
<1>2. t[n + j] = more[(n + j) - n]
  BY <1>1 DEF Appended
<1> QED
  BY <1>1, <1>2

\* The rows of the books, one by one.
LEMMA OldLengths ==
    ASSUME OriginBook
    PROVE  /\ C0 \in Nat /\ T0 \in Nat
           /\ \A k \in Dictionaries : N0(k) \in Nat /\ E0(k) \in Nat
           /\ DOMAIN origin.testclassinfo = 1..C0 /\ DOMAIN origin.test = 1..T0
           /\ Len(origin.monitor) \in Nat /\ Len(origin.monitorclassinfo) \in Nat
           /\ OldMonitors = 1..Len(origin.monitor)
           /\ Len(MovedTests) = Len(origin.monitor)
           /\ \A k \in Dictionaries : /\ Len(MovedNames(k)) = Len(origin.mnames[k])
                                      /\ Len(MovedEntries(k)) = Len(origin.mentries[k])
                                      /\ Len(origin.mnames[k]) \in Nat
                                      /\ Len(origin.mentries[k]) \in Nat
                                      /\ DOMAIN origin.names[k] = 1..N0(k)
                                      /\ DOMAIN origin.entries[k] = 1..E0(k)
                                      /\ DOMAIN origin.mnames[k] = 1..Len(origin.mnames[k])
                                      /\ DOMAIN origin.mentries[k] = 1..Len(origin.mentries[k])
<1>1. origin \in Tables
  BY DEF OriginBook, IsOld
<1> QED
  BY <1>1, RowsOf, MovedLengths DEF C0, T0, N0, E0, OldMonitors

LEMMA MonitorAt ==
    ASSUME OriginBook, TablesBook, NEW i \in NewMonitors
    PROVE  \E j \in OldMonitors : i = T0 + j /\ disk.test[i] = Moved(origin.monitor[j])
<1>1. /\ Appended(disk.test, T0, MovedTests) /\ \A x \in 1..T0 : ~disk.test[x].ismonitor
      /\ disk \in Tables
  BY DEF TablesBook, TestBook
<1>2. i \in 1..Len(disk.test) /\ Len(disk.test) \in Nat /\ disk.test[i].ismonitor
  BY <1>1, RowsOf DEF NewMonitors
<1>3. T0 \in Nat /\ Len(MovedTests) = Len(origin.monitor) /\ Len(origin.monitor) \in Nat
      /\ OldMonitors = 1..Len(origin.monitor)
  BY OldLengths
<1>4. i > T0
  BY <1>1, <1>2, <1>3
<1>5. i - T0 \in OldMonitors /\ disk.test[i] = MovedTests[i - T0] /\ i = T0 + (i - T0)
  <2>1. PICK t, n, more : n \in Nat /\ t = disk.test /\ n = T0 /\ more = MovedTests
    BY <1>3
  <2>2. /\ n \in Nat /\ Appended(t, n, more) /\ Len(more) \in Nat
        /\ i \in 1..Len(t) /\ i > n
    BY <1>1, <1>2, <1>3, <1>4, <2>1
  <2>3. i - n \in 1..Len(more) /\ t[i] = more[i - n] /\ i = n + (i - n)
    BY <2>2, MovedPart
  <2> QED
    BY <1>3, <2>1, <2>3
<1>6. MovedTests[i - T0] = Moved(origin.monitor[i - T0])
  BY <1>3, <1>5 DEF MovedTests
<1> QED
  BY <1>5, <1>6

LEMMA MonitorThere ==
    ASSUME OriginBook, TablesBook, NEW j \in OldMonitors, T0 + j <= Len(disk.test)
    PROVE  T0 + j \in NewMonitors
<1>1. Appended(disk.test, T0, MovedTests) /\ disk \in Tables
  BY DEF TablesBook, TestBook
<1>2. T0 \in Nat /\ Len(MovedTests) = Len(origin.monitor) /\ Len(origin.monitor) \in Nat
      /\ OldMonitors = 1..Len(origin.monitor)
  BY OldLengths
<1>3. T0 + j \in 1..Len(disk.test) /\ disk.test[T0 + j] = MovedTests[j]
  BY <1>1, <1>2, MovedPlace
<1>4. disk.test[T0 + j].ismonitor
  BY <1>2, <1>3 DEF MovedTests, Moved
<1>5. DOMAIN disk.test = 1..Len(disk.test)
  BY <1>1, RowsOf
<1> QED
  BY <1>3, <1>4, <1>5 DEF NewMonitors

LEMMA ClassAt ==
    ASSUME OriginBook, TablesBook, NEW c \in DOMAIN origin.monitorclassinfo,
           Len(disk.testclassinfo) = C0 + Len(origin.monitorclassinfo)
    PROVE  /\ C0 + c \in DOMAIN disk.testclassinfo
           /\ disk.testclassinfo[C0 + c] = origin.monitorclassinfo[c]
<1>1. Appended(disk.testclassinfo, C0, origin.monitorclassinfo) /\ disk \in Tables
  BY DEF TablesBook, ClassBook
<1>2. C0 \in Nat /\ Len(origin.monitorclassinfo) \in Nat
      /\ DOMAIN origin.monitorclassinfo = 1..Len(origin.monitorclassinfo)
  BY OldLengths, RowsOf DEF OriginBook, IsOld
<1>3. DOMAIN disk.testclassinfo = 1..Len(disk.testclassinfo)
  BY <1>1, RowsOf
<1>4. C0 + c <= Len(disk.testclassinfo)
  BY <1>2
<1> QED
  BY <1>1, <1>2, <1>3, <1>4, MovedPlace

LEMMA NameAt ==
    ASSUME OriginBook, TablesBook, NEW k \in Dictionaries, NEW n \in DOMAIN origin.mnames[k],
           Len(disk.names[k]) = N0(k) + Len(origin.mnames[k])
    PROVE  /\ N0(k) + n \in DOMAIN disk.names[k]
           /\ disk.names[k][N0(k) + n] = MovedName(origin.mnames[k][n])
<1>1. Appended(disk.names[k], N0(k), MovedNames(k)) /\ disk \in Tables
  BY DEF TablesBook, NameBook
<1>2. /\ N0(k) \in Nat /\ Len(origin.mnames[k]) \in Nat
      /\ Len(MovedNames(k)) = Len(origin.mnames[k])
      /\ DOMAIN origin.mnames[k] = 1..Len(origin.mnames[k])
  BY OldLengths
<1>3. DOMAIN disk.names[k] = 1..Len(disk.names[k])
  BY <1>1, RowsOf
<1>4. N0(k) + n <= Len(disk.names[k])
  BY <1>2
<1>5. N0(k) + n \in DOMAIN disk.names[k] /\ disk.names[k][N0(k) + n] = MovedNames(k)[n]
  <2>1. PICK m, t, more : m \in Nat /\ m = N0(k) /\ t = disk.names[k] /\ more = MovedNames(k)
    BY <1>2
  <2>2. m \in Nat /\ Appended(t, m, more) /\ Len(more) \in Nat /\ n \in 1..Len(more) /\ m + n <= Len(t)
    BY <1>1, <1>2, <1>4, <2>1
  <2>3. m + n \in 1..Len(t) /\ t[m + n] = more[n]
    BY <2>2, MovedPlace
  <2> QED
    BY <1>3, <2>1, <2>3
<1> QED
  BY <1>2, <1>5 DEF MovedNames

\* What a moved entry says.
LEMMA MovedTold ==
    ASSUME OriginBook, TablesBook, NEW k \in Dictionaries, NEW y \in DOMAIN origin.mentries[k],
           Len(disk.names[k]) = N0(k) + Len(origin.mnames[k])
    PROVE  NewTold(k, MovedEntry(k, origin.mentries[k][y])) = OldTold(k, origin.mentries[k][y])
<1>1. PICK e : e = origin.mentries[k][y]
  OBVIOUS
<1>2. e.name \in DOMAIN origin.mnames[k]
  BY <1>1 DEF OriginBook, IsOld
<1>3. disk.names[k][N0(k) + e.name] = MovedName(origin.mnames[k][e.name])
  BY <1>2, NameAt
<1>4. PICK n, was : n = disk.names[k][N0(k) + e.name] /\ was = origin.mnames[k][e.name]
  OBVIOUS
<1>5. n.container[2] = origin.monitorclassinfo[was.container].type /\ n.name = was.name
  BY <1>3, <1>4 DEF MovedName, ByType
<1>6. MovedEntry(k, e).name = N0(k) + e.name
  BY DEF MovedEntry
<1>7. NewTold(k, MovedEntry(k, e)) = <<k, n.container[2], n.name>>
  BY <1>4, <1>6 DEF NewTold
<1>8. OldTold(k, e) = <<k, origin.monitorclassinfo[was.container].type, was.name>>
  BY <1>4 DEF OldTold
<1> QED
  BY <1>1, <1>5, <1>7, <1>8

LEMMA EntryContainers ==
    ASSUME OriginBook, NEW k \in Dictionaries
    PROVE  /\ \A y \in DOMAIN origin.mentries[k] : origin.mentries[k][y].container \in OldMonitors
           /\ \A x \in 1..E0(k) : origin.entries[k][x].container \in 1..T0
BY OldLengths DEF OriginBook, IsOld, OldMonitors

LEMMA EntryAt ==
    ASSUME OriginBook, TablesBook, NEW k \in Dictionaries, NEW x \in DOMAIN disk.entries[k],
           NEW j \in OldMonitors, disk.entries[k][x].container = T0 + j
    PROVE  \E y \in DOMAIN origin.mentries[k] :
              /\ origin.mentries[k][y].container = j
              /\ NewTold(k, disk.entries[k][x]) = OldTold(k, origin.mentries[k][y])
<1>0. E0(k) \in Nat
  BY OldLengths
<1>1. PICK t, n, more : n \in Nat /\ t = disk.entries[k] /\ n = E0(k) /\ more = MovedEntries(k)
  BY <1>0
<1>2. /\ n \in Nat /\ Appended(t, n, more) /\ \A i \in 1..n : t[i] = origin.entries[k][i]
      /\ disk \in Tables
      /\ Len(t) > n => Len(disk.names[k]) = N0(k) + Len(origin.mnames[k])
  BY <1>1 DEF TablesBook, EntryBook
<1>3. /\ Len(more) = Len(origin.mentries[k]) /\ Len(more) \in Nat /\ T0 \in Nat /\ n \in Nat
      /\ DOMAIN origin.mentries[k] = 1..Len(more)
      /\ OldMonitors = 1..Len(origin.monitor) /\ Len(origin.monitor) \in Nat
  BY <1>1, OldLengths
<1>4. x \in 1..Len(t) /\ Len(t) \in Nat
  BY <1>1, <1>2, RowsOf
<1>5. x > n
  <2> SUFFICES ASSUME x \in 1..n PROVE FALSE
    BY <1>1, <1>4
  <2>1. t[x] = origin.entries[k][x] /\ origin.entries[k][x].container \in 1..T0
    BY <1>1, <1>2, EntryContainers
  <2> QED
    BY <1>1, <1>3, <2>1
<1>6. x - n \in 1..Len(more) /\ t[x] = more[x - n]
  BY <1>2, <1>3, <1>4, <1>5, MovedPart
<1>7. PICK y \in DOMAIN origin.mentries[k] : y = x - n
  BY <1>3, <1>6
<1>8. t[x] = MovedEntry(k, origin.mentries[k][y])
  BY <1>1, <1>3, <1>6, <1>7 DEF MovedEntries
<1>9. PICK c : c = origin.mentries[k][y].container
  OBVIOUS
<1>10. c \in OldMonitors /\ t[x].container = T0 + c
  BY <1>8, <1>9, EntryContainers DEF MovedEntry
<1>11. c = j
  BY <1>1, <1>3, <1>10
<1>12. Len(disk.names[k]) = N0(k) + Len(origin.mnames[k])
  BY <1>1, <1>2, <1>4, <1>5
<1>13. NewTold(k, t[x]) = OldTold(k, origin.mentries[k][y])
  BY <1>8, <1>12, MovedTold
<1> QED
  BY <1>1, <1>9, <1>11, <1>13

LEMMA EntryThere ==
    ASSUME OriginBook, TablesBook, NEW k \in Dictionaries, NEW y \in DOMAIN origin.mentries[k],
           Len(disk.entries[k]) = E0(k) + Len(origin.mentries[k]),
           Len(disk.names[k]) = N0(k) + Len(origin.mnames[k])
    PROVE  \E x \in DOMAIN disk.entries[k] :
              /\ disk.entries[k][x].container = T0 + origin.mentries[k][y].container
              /\ NewTold(k, disk.entries[k][x]) = OldTold(k, origin.mentries[k][y])
<1>0. E0(k) \in Nat
  BY OldLengths
<1>1. PICK t, n, more : n \in Nat /\ t = disk.entries[k] /\ n = E0(k) /\ more = MovedEntries(k)
  BY <1>0
<1>2. n \in Nat /\ Appended(t, n, more) /\ disk \in Tables
  BY <1>1 DEF TablesBook, EntryBook
<1>3. /\ Len(more) = Len(origin.mentries[k]) /\ Len(more) \in Nat
      /\ DOMAIN origin.mentries[k] = 1..Len(more)
  BY <1>1, OldLengths
<1>4. y \in 1..Len(more) /\ n + y <= Len(t)
  BY <1>1, <1>3
<1>5. n + y \in 1..Len(t) /\ t[n + y] = more[y]
  BY <1>2, <1>3, <1>4, MovedPlace
<1>6. PICK x \in DOMAIN disk.entries[k] : x = n + y
  BY <1>1, <1>2, <1>5, RowsOf
<1>7. t[x] = MovedEntry(k, origin.mentries[k][y])
  BY <1>1, <1>3, <1>5, <1>6 DEF MovedEntries
<1>8. t[x].container = T0 + origin.mentries[k][y].container
  BY <1>7 DEF MovedEntry
<1>9. NewTold(k, t[x]) = OldTold(k, origin.mentries[k][y])
  BY <1>7, MovedTold
<1> QED
  BY <1>1, <1>8, <1>9

\* Moving the members of a set by n.
LEMMA ShiftedSets ==
    ASSUME NEW S, NEW T, IsFiniteSet(T), NEW n \in Nat, T \subseteq Nat,
           \A x \in S : \E y \in T : x = n + y
    PROVE  /\ Cardinality(S) <= Cardinality(T)
           /\ (\A y \in T : n + y \in S) => Cardinality(S) = Cardinality(T)
<1> DEFINE f == [x \in S |-> CHOOSE y \in T : x = n + y]
<1>1. ASSUME NEW x \in S PROVE f[x] \in T /\ x = n + f[x]
  <2>1. f[x] = CHOOSE y \in T : x = n + y
    OBVIOUS
  <2>2. \E y \in T : x = n + y
    OBVIOUS
  <2> QED
    BY <2>1, <2>2
<1>2. f \in [S -> T]
  BY <1>1
<1> HIDE DEF f
<1>3. \A x, y \in S : f[x] = f[y] => x = y
  BY <1>1
<1>4. f \in Injection(S, T)
  BY <1>2, <1>3 DEF Injection, IsInjective
<1>5. /\ Cardinality(S) <= Cardinality(T)
      /\ Cardinality(S) = Cardinality(T) <=> f \in Surjection(S, T)
  BY <1>4, FS_Injection
<1>6. ASSUME \A y \in T : n + y \in S PROVE f \in Surjection(S, T)
  <2>1. ASSUME NEW y \in T PROVE \E x \in S : f[x] = y
    <3>1. n + y \in S
      BY <1>6
    <3>2. f[n + y] \in T /\ n + y = n + f[n + y]
      BY <1>1, <3>1
    <3>3. f[n + y] \in Nat /\ y \in Nat
      BY <3>2
    <3>4. f[n + y] = y
      BY <3>2, <3>3
    <3> QED
      BY <3>1, <3>4
  <2> QED
    BY <1>2, <2>1 DEF Surjection
<1> QED
  BY <1>5, <1>6

LEMMA MovedAlike ==
    ASSUME OriginBook, TablesBook, NEW i \in NewMonitors, NEW j \in OldMonitors, i = T0 + j,
           disk.test[i] = Moved(origin.monitor[j])
    PROVE  /\ NewMonitor(i).test = OldMonitor(j).test
           /\ NewMonitor(i).class = OldMonitor(j).class
           /\ NewMonitor(i).says \subseteq OldMonitor(j).says
<1>1. PICK m : m = origin.monitor[j]
  OBVIOUS
<1>2. disk.test[i].type = C0 + m.type /\ disk.test[i].parent = m.testid
  BY <1>1 DEF Moved
<1>3. m.type \in DOMAIN origin.monitorclassinfo
  BY <1>1 DEF OriginBook, IsOld, OldMonitors
<1>4. Len(disk.testclassinfo) = C0 + Len(origin.monitorclassinfo)
  <2>1. /\ disk \in Tables
        /\ Len(disk.test) > T0 => Len(disk.testclassinfo) = C0 + Len(origin.monitorclassinfo)
    BY DEF TablesBook, TestBook
  <2>2. i \in 1..Len(disk.test) /\ Len(disk.test) \in Nat
    BY <2>1, RowsOf DEF NewMonitors
  <2>3. T0 \in Nat /\ OldMonitors = 1..Len(origin.monitor) /\ Len(origin.monitor) \in Nat
    BY OldLengths
  <2> QED
    BY <2>1, <2>2, <2>3
<1>5. disk.testclassinfo[C0 + m.type] = origin.monitorclassinfo[m.type]
  BY <1>3, <1>4, ClassAt
<1>6. ASSUME NEW p \in NewMonitor(i).says PROVE p \in OldMonitor(j).says
  <2>0. PICK k \in Dictionaries : \E x \in DOMAIN disk.entries[k] :
           disk.entries[k][x].container = i /\ p = NewTold(k, disk.entries[k][x])
    BY NewMonitorIs
  <2>1. PICK x \in DOMAIN disk.entries[k] :
           disk.entries[k][x].container = i /\ p = NewTold(k, disk.entries[k][x])
    BY <2>0
  <2>2. \E y \in DOMAIN origin.mentries[k] :
           /\ origin.mentries[k][y].container = j
           /\ p = OldTold(k, origin.mentries[k][y])
    BY <2>1, EntryAt
  <2> QED
    BY <2>2, OldMonitorIs
<1> QED
  BY <1>1, <1>2, <1>5, <1>6, OldMonitorIs, NewMonitorIs

LEMMA OldAreFinite ==
    ASSUME OriginBook
    PROVE  IsFiniteSet(OldMonitors) /\ OldMonitors \subseteq Nat /\ T0 \in Nat
<1>1. T0 \in Nat /\ OldMonitors = 1..Len(origin.monitor) /\ Len(origin.monitor) \in Nat
  BY OldLengths
<1>2. IsFiniteSet(1..Len(origin.monitor))
  BY <1>1, FS_Interval
<1> QED
  BY <1>1, <1>2

LEMMA NoneTwice ==
    ASSUME OriginBook, TablesBook, NEW test, NEW class
    PROVE  Cardinality({x \in NewMonitors : /\ NewMonitor(x).test = test
                                            /\ NewMonitor(x).class = class})
             <= Cardinality({y \in OldMonitors : /\ OldMonitor(y).test = test
                                                 /\ OldMonitor(y).class = class})
<1> DEFINE S == {x \in NewMonitors : NewMonitor(x).test = test /\ NewMonitor(x).class = class}
           T == {y \in OldMonitors : OldMonitor(y).test = test /\ OldMonitor(y).class = class}
<1>1. IsFiniteSet(T) /\ T \subseteq Nat /\ T0 \in Nat
  <2>1. T \in SUBSET OldMonitors
    OBVIOUS
  <2> QED
    BY <2>1, OldAreFinite, FS_Subset
<1>2. ASSUME NEW x \in S PROVE \E y \in T : x = T0 + y
  <2>1. PICK y \in OldMonitors : x = T0 + y /\ disk.test[x] = Moved(origin.monitor[y])
    BY MonitorAt
  <2>2. NewMonitor(x).test = OldMonitor(y).test /\ NewMonitor(x).class = OldMonitor(y).class
    BY <2>1, MovedAlike
  <2> QED
    BY <2>1, <2>2
<1> HIDE DEF S, T
<1>3. Cardinality(S) <= Cardinality(T)
  BY <1>1, <1>2, ShiftedSets
<1> QED
  BY <1>3 DEF S, T

\* The monitors of a class that a test has.
NewLike(test, class) ==
    {x \in NewMonitors : NewMonitor(x).test = test /\ NewMonitor(x).class = class}
OldLike(test, class) ==
    {y \in OldMonitors : OldMonitor(y).test = test /\ OldMonitor(y).class = class}

LEMMA OldNamesById ==
    ASSUME OriginBook, NEW k \in Dictionaries, NEW x \in DOMAIN origin.names[k]
    PROVE  \E c \in DOMAIN origin.testclassinfo : origin.names[k][x].container = ById(c)
BY DEF OriginBook, IsOld

LEMMA NamesAgree ==
    ASSUME OriginBook, TablesBook, NEW k \in Dictionaries
    PROVE  NewNames(k) \subseteq OldNames(k)
<1> SUFFICES ASSUME NEW p \in NewNames(k) PROVE p \in OldNames(k)
  OBVIOUS
<1>1. PICK x \in DOMAIN disk.names[k] :
         /\ disk.names[k][x].container[1] = "type"
         /\ p = [class |-> disk.names[k][x].container[2], name |-> disk.names[k][x].name]
  BY DEF NewNames, ToSet
<1>2. PICK t, n, more : /\ n \in Nat
                        /\ t = disk.names[k] /\ n = N0(k) /\ more = MovedNames(k)
  <2>1. N0(k) \in Nat
    BY OldLengths
  <2> QED
    BY <2>1
<1>3. /\ n \in Nat /\ Appended(t, n, more) /\ disk \in Tables
      /\ \A i \in 1..n : /\ t[i].name = origin.names[k][i].name
                         /\ \/ t[i].container = origin.names[k][i].container
                            \/ t[i].container = TypeOf(origin.names[k][i])
  BY <1>2 DEF TablesBook, NameBook
<1>4. /\ Len(more) = Len(origin.mnames[k]) /\ Len(more) \in Nat
      /\ DOMAIN origin.mnames[k] = 1..Len(more) /\ DOMAIN origin.names[k] = 1..n
  BY <1>2, OldLengths
<1>5. x \in 1..Len(t) /\ Len(t) \in Nat
  BY <1>2, <1>3, RowsOf
<1>6. CASE x \in 1..n
  <2>1. PICK was : was = origin.names[k][x]
    OBVIOUS
  <2>2. \E c \in DOMAIN origin.testclassinfo : was.container = ById(c)
    <3>1. x \in DOMAIN origin.names[k]
      BY <1>4, <1>6
    <3> QED
      BY <2>1, <3>1, OldNamesById
  <2>3. t[x].container # was.container
    <3>1. was.container[1] = "id"
      BY <2>2 DEF ById
    <3>2. t[x].container[1] = "type"
      BY <1>1, <1>2
    <3>3. "id" # "type"
      OBVIOUS
    <3> QED
      BY <3>1, <3>2, <3>3
  <2>4. t[x].container = TypeOf(was) /\ t[x].name = was.name
    BY <1>3, <1>6, <2>1, <2>3
  <2>5. t[x].container[2] = origin.testclassinfo[was.container[2]].type
    BY <2>4 DEF TypeOf, ByType
  <2>6. p = [class |-> origin.testclassinfo[was.container[2]].type, name |-> was.name]
    BY <1>1, <1>2, <2>4, <2>5
  <2>7. was \in ToSet(origin.names[k])
    BY <1>4, <1>6, <2>1 DEF ToSet
  <2> QED
    BY <2>6, <2>7 DEF OldNames
<1>7. CASE x > n
  <2>1. x - n \in 1..Len(more) /\ t[x] = more[x - n]
    BY <1>3, <1>4, <1>5, <1>7, MovedPart
  <2>2. PICK y \in DOMAIN origin.mnames[k] : y = x - n
    BY <1>4, <2>1
  <2>3. PICK was : was = origin.mnames[k][y]
    OBVIOUS
  <2>4. t[x] = MovedName(was)
    BY <1>2, <1>4, <2>1, <2>2, <2>3 DEF MovedNames
  <2>5. /\ t[x].container[2] = origin.monitorclassinfo[was.container].type
        /\ t[x].name = was.name
    BY <2>4 DEF MovedName, ByType
  <2>6. p = [class |-> origin.monitorclassinfo[was.container].type, name |-> was.name]
    BY <1>1, <1>2, <2>5
  <2>7. was \in ToSet(origin.mnames[k])
    BY <2>3 DEF ToSet
  <2> QED
    BY <2>6, <2>7 DEF OldNames
<1>8. x \in 1..n \/ x > n
  BY <1>3, <1>5
<1> QED
  BY <1>6, <1>7, <1>8

LEMMA MovedHolds == ASSUME ConvInv PROVE MovedAgree
<1>1. OriginBook /\ TablesBook
  BY DEF ConvInv
<1>2. ASSUME NEW i \in NewMonitors
      PROVE  \E j \in OldMonitors : /\ OldMonitor(j).test = NewMonitor(i).test
                                    /\ OldMonitor(j).class = NewMonitor(i).class
                                    /\ NewMonitor(i).says \subseteq OldMonitor(j).says
  <2>1. PICK j \in OldMonitors : i = T0 + j /\ disk.test[i] = Moved(origin.monitor[j])
    BY <1>1, MonitorAt
  <2> QED
    BY <1>1, <2>1, MovedAlike
<1>3. ASSUME NEW i \in NewMonitors
      PROVE  Cardinality(NewLike(NewMonitor(i).test, NewMonitor(i).class))
               <= Cardinality(OldLike(NewMonitor(i).test, NewMonitor(i).class))
  <2>1. PICK test, class : test = NewMonitor(i).test /\ class = NewMonitor(i).class
    OBVIOUS
  <2>2. Cardinality(NewLike(test, class)) <= Cardinality(OldLike(test, class))
    BY <1>1, NoneTwice DEF NewLike, OldLike
  <2> QED
    BY <2>1, <2>2
<1>4. \A k \in Dictionaries : NewNames(k) \subseteq OldNames(k)
  BY <1>1, NamesAgree
<1> QED
  BY <1>2, <1>3, <1>4 DEF MovedAgree, NewLike, OldLike

\* What the conversion has moved says what the old tables said, and no
\* monitor is there twice: after any number of opens, cut short anywhere.
THEOREM MovedAgreeTheorem == OpenSpec => []MovedAgree
BY ConvAlways, MovedHolds, PTL

LEMMA WholeMonitor ==
    ASSUME OriginBook, TablesBook, Whole, NEW j \in OldMonitors
    PROVE  /\ T0 + j \in NewMonitors
           /\ NewMonitor(T0 + j) = OldMonitor(j)
<1>1. /\ Len(disk.test) = T0 + Len(origin.monitor)
      /\ \A k \in Dictionaries : /\ Len(disk.names[k]) = N0(k) + Len(origin.mnames[k])
                                 /\ Len(disk.entries[k]) = E0(k) + Len(origin.mentries[k])
  BY DEF Whole
<1>2. T0 \in Nat /\ OldMonitors = 1..Len(origin.monitor) /\ Len(origin.monitor) \in Nat
  BY OldLengths
<1>3. T0 + j <= Len(disk.test)
  BY <1>1, <1>2
<1>4. T0 + j \in NewMonitors
  BY <1>3, MonitorThere
<1>5. PICK i \in NewMonitors : i = T0 + j
  BY <1>4
<1>6. PICK y \in OldMonitors : i = T0 + y /\ disk.test[i] = Moved(origin.monitor[y])
  BY MonitorAt
<1>7. y = j
  BY <1>2, <1>5, <1>6
<1>8. /\ NewMonitor(i).test = OldMonitor(j).test
      /\ NewMonitor(i).class = OldMonitor(j).class
      /\ NewMonitor(i).says \subseteq OldMonitor(j).says
  BY <1>6, <1>7, MovedAlike
<1>9. ASSUME NEW p \in OldMonitor(j).says PROVE p \in NewMonitor(i).says
  <2>1. PICK k \in Dictionaries : \E x \in DOMAIN origin.mentries[k] :
           origin.mentries[k][x].container = j /\ p = OldTold(k, origin.mentries[k][x])
    BY OldMonitorIs
  <2>2. PICK x \in DOMAIN origin.mentries[k] :
           origin.mentries[k][x].container = j /\ p = OldTold(k, origin.mentries[k][x])
    BY <2>1
  <2>3. \E z \in DOMAIN disk.entries[k] :
           /\ disk.entries[k][z].container = T0 + origin.mentries[k][x].container
           /\ NewTold(k, disk.entries[k][z]) = OldTold(k, origin.mentries[k][x])
    BY <1>1, EntryThere
  <2>4. \E z \in DOMAIN disk.entries[k] :
           disk.entries[k][z].container = i /\ p = NewTold(k, disk.entries[k][z])
    BY <1>5, <2>2, <2>3
  <2> QED
    BY <2>4, NewMonitorIs
<1>10. NewMonitor(i).says = OldMonitor(j).says
  BY <1>8, <1>9
<1>11. NewMonitor(i) = OldMonitor(j)
  BY <1>8, <1>10, SameMonitor
<1> QED
  BY <1>4, <1>5, <1>11

LEMMA AllOnce ==
    ASSUME OriginBook, TablesBook, Whole, NEW m
    PROVE  Cardinality({i \in NewMonitors : NewMonitor(i) = m})
             = Cardinality({i \in OldMonitors : OldMonitor(i) = m})
<1> DEFINE S == {i \in NewMonitors : NewMonitor(i) = m}
           T == {i \in OldMonitors : OldMonitor(i) = m}
<1>1. IsFiniteSet(T) /\ T \subseteq Nat /\ T0 \in Nat
  <2>1. T \in SUBSET OldMonitors
    OBVIOUS
  <2> QED
    BY <2>1, OldAreFinite, FS_Subset
<1>2. ASSUME NEW x \in S PROVE \E y \in T : x = T0 + y
  <2>1. PICK y \in OldMonitors : x = T0 + y
    BY MonitorAt
  <2>2. NewMonitor(x) = OldMonitor(y)
    BY <2>1, WholeMonitor
  <2> QED
    BY <2>1, <2>2
<1>3. ASSUME NEW y \in T PROVE T0 + y \in S
  BY WholeMonitor
<1> HIDE DEF S, T
<1>4. Cardinality(S) = Cardinality(T)
  BY <1>1, <1>2, <1>3, ShiftedSets
<1> QED
  BY <1>4 DEF S, T

LEMMA AllNamed ==
    ASSUME OriginBook, TablesBook, Whole, NEW k \in Dictionaries
    PROVE  OldNames(k) \subseteq NewNames(k)
<1>1. /\ N0(k) \in Nat /\ Len(origin.mnames[k]) \in Nat
      /\ DOMAIN origin.names[k] = 1..N0(k) /\ disk \in Tables
  BY OldLengths DEF TablesBook
<1>2. /\ Len(disk.names[k]) = N0(k) + Len(origin.mnames[k]) /\ Named(k)
  BY DEF Whole
<1>3. DOMAIN disk.names[k] = 1..Len(disk.names[k])
  BY <1>1, RowsOf
<1>4. ASSUME NEW x \in DOMAIN origin.names[k], NEW was, was = origin.names[k][x]
      PROVE  [class |-> origin.testclassinfo[was.container[2]].type, name |-> was.name]
               \in NewNames(k)
  <2>1. x \in DOMAIN disk.names[k]
    BY <1>1, <1>2, <1>3
  <2>2. PICK n : n = disk.names[k][x]
    OBVIOUS
  <2>3. n.container = TypeOf(was) /\ n.name = was.name
    <3>1. x \in 1..N0(k)
      BY <1>1
    <3>2. n.container = TypeOf(was)
      BY <1>2, <1>4, <2>2, <3>1 DEF Named
    <3>3. n.name = was.name
      BY <1>4, <2>2, <3>1 DEF TablesBook, NameBook
    <3> QED
      BY <3>2, <3>3
  <2>4. n.container[1] = "type"
        /\ n.container[2] = origin.testclassinfo[was.container[2]].type
    BY <2>3 DEF TypeOf, ByType
  <2>5. n \in ToSet(disk.names[k])
    BY <2>1, <2>2 DEF ToSet
  <2> QED
    BY <2>3, <2>4, <2>5 DEF NewNames
<1>5. ASSUME NEW x \in DOMAIN origin.mnames[k], NEW was, was = origin.mnames[k][x]
      PROVE  [class |-> origin.monitorclassinfo[was.container].type, name |-> was.name]
               \in NewNames(k)
  <2>1. PICK n : n = disk.names[k][N0(k) + x]
    OBVIOUS
  <2>2. N0(k) + x \in DOMAIN disk.names[k] /\ n = MovedName(was)
    BY <1>2, <1>5, <2>1, NameAt
  <2>3. /\ n.container[1] = "type" /\ n.name = was.name
        /\ n.container[2] = origin.monitorclassinfo[was.container].type
    BY <2>2 DEF MovedName, ByType
  <2>4. n \in ToSet(disk.names[k])
    BY <2>1, <2>2 DEF ToSet
  <2> QED
    BY <2>3, <2>4 DEF NewNames
<1> QED
  BY <1>4, <1>5 DEF OldNames, ToSet

LEMMA WholeIsConverted ==
    ASSUME OriginBook, TablesBook, Whole
    PROVE  Converted
<1>1. origin \in Tables
  BY DEF OriginBook, IsOld
<1>2. ToSet(origin.monitorclassinfo) \subseteq ToSet(disk.testclassinfo)
  BY ClassAt DEF Whole, ToSet
<1>3. ASSUME NEW s \in ToSet(origin.subtests) PROVE Marked(s)
  BY <1>1, RowsOf DEF Whole, ToSet
<1>4. \A m : Cardinality({i \in NewMonitors : NewMonitor(i) = m})
               = Cardinality({i \in OldMonitors : OldMonitor(i) = m})
  BY AllOnce
<1>5. \A k \in Dictionaries : OldNames(k) \subseteq NewNames(k)
  BY AllNamed
<1>6. Says(disk.env) = Says(origin.env) /\ \A r \in disk.env : r.text
  BY DEF Whole
<1> QED
  BY <1>2, <1>3, <1>4, <1>5, <1>6 DEF Converted, Marked

LEMMA SameIsUntouched ==
    ASSUME NEW d \in Tables, NEW w \in Tables, SameRows(w, d), w.env = d.env
    PROVE  w = [d EXCEPT !.version = w.version, !.parts = w.parts]
BY DEF Tables, SameRows

LEMMA NothingLostHolds == ASSUME ConvInv PROVE NothingLost
<1>1. OriginBook /\ TablesBook
  BY DEF ConvInv
<1>2. disk \in Tables /\ origin \in Tables
  BY <1>1 DEF OriginBook, IsOld, TablesBook
<1>3. CASE ~Begun
  BY <1>2, <1>3, SameIsUntouched DEF ConvInv, LostBook, NothingLost, Untouched
<1>4. CASE Begun
  BY <1>1, <1>4, WholeIsConverted DEF ConvInv, LostBook, Converting, NothingLost
<1> QED
  BY <1>3, <1>4

\* Unless a program is killed, no attempt to open an old database loses
\* anything, although it ends with an exception.
THEOREM NothingLostTheorem == OpenSpec => []NothingLost
BY ConvAlways, NothingLostHolds, PTL
=============================================================================
